-------------------------- MODULE EventStreamProofs --------------------------
(***************************************************************************)
(* Theorems about EventStream, for any processes, consumers and tasks, any *)
(* length of the stream and any number of faults.                          *)
(*                                                                         *)
(* Neither property of the effects is inductive.  No event is bumped twice *)
(* because whatever was bumped or is owed lies behind the claim cursor,    *)
(* which only passes an event once.  None is lost without a fault because  *)
(* a task claims its batch in order and its batch begins right after the   *)
(* offset: whatever the cursor, the offset or a task of the consumer has   *)
(* passed is settled.                                                      *)
(***************************************************************************)
EXTENDS EventStream, FiniteSetTheorems, TLAPS

\* What was bumped or is to be bumped, the cursor has passed.
ClaimedFirst ==
  \A c \in Consumers, e \in Events :
    counted[c][e] > 0 \/ (\E l \in Loops : Owes(l, c, e)) => e <= cursor[c]

\* The effect of event e for consumer c is not wanted, has run, is owed, or was hit.
Settled(c, e) ==
  \/ table[e] \notin ActedOn[c]
  \/ counted[c][e] > 0
  \/ \E l \in Loops : Owes(l, c, e)
  \/ <<c, e>> \in struck

\* The cursor and the offset pass settled events only, and a task leaves only settled
\* events behind in its batch, and nothing before it.
PassedIsSettled ==
  \A c \in Watermarked, e \in Events :
    /\ e <= cursor[c] \/ e <= offset[c] => Settled(c, e)
    /\ \A l \in Loops : LoopConsumer[l] = c /\ e <= loop[l].upTo
         => e \in loop[l].todo \/ Settled(c, e)

StreamInvariant == StreamTypeOK /\ AtMostOnce /\ ClaimedFirst /\ PassedIsSettled

-----------------------------------------------------------------------------
\* A batch is what the stream holds after where it begins, up to the batch's last event:
\* the limit cuts it at the end and nowhere else.
LEMMA BatchIsContiguous ==
  ASSUME head \in Nat, NEW o \in Nat, NEW n \in Nat, NEW last \in After(o, n),
         NEW e \in Nat, o < e, e <= last
  PROVE  e \in After(o, n)
<1> DEFINE Between(x) == {f \in 1..head : o < f /\ f < x}
<1>1. last \in 1..head /\ e \in 1..head
  BY DEF After
<1>2. IsFiniteSet(1..head) /\ IsFiniteSet(Between(last))
  <2>1. IsFiniteSet(1..head)
    BY FS_Interval
  <2>2. Between(last) \subseteq 1..head
    OBVIOUS
  <2> QED BY <2>1, <2>2, FS_Subset
<1>3. Between(e) \subseteq Between(last)
  BY <1>1
<1>4. IsFiniteSet(Between(e)) /\ Cardinality(Between(e)) <= Cardinality(Between(last))
  BY <1>2, <1>3, FS_Subset
<1>5. Cardinality(Between(e)) \in Nat /\ Cardinality(Between(last)) \in Nat
  BY <1>2, <1>4, FS_CardinalityType
<1>6. Cardinality(Between(last)) < n
  BY DEF After
<1>7. Cardinality(Between(e)) < n
  BY <1>4, <1>5, <1>6
<1> HIDE DEF Between
<1>8. e \in {x \in 1..head : o < x /\ Cardinality(Between(x)) < n}
  BY <1>1, <1>7
<1> QED BY <1>8 DEF After, Between

\* A pull, failing or not, gets what the stream holds after 0 or after the offset.
LEMMA PullsFetch ==
  ASSUME StreamTypeOK, NEW l \in Loops, Pull(l) \/ PullFails(l)
  PROVE  \E o \in {0, offset[LoopConsumer[l]]}, n \in Nat : Fetch(l, After(o, n))
<1>1. 0..PullLimit \subseteq Nat /\ PullLimit \in Nat
  BY StreamAssumption
<1>2. CASE Pull(l)
  BY <1>1, <1>2 DEF Pull, Batch
<1>3. CASE PullFails(l)
  BY <1>1, <1>3 DEF PullFails
<1> QED BY <1>2, <1>3

\* A task in a stream whose highest event is h.
TaskOK(s, h) ==
  /\ s \in Task
  /\ s.upTo <= h /\ \A e \in s.todo : e <= s.upTo
  /\ s.mode # "draining" => s.todo = {} /\ s.upTo = 0 /\ s.owes = 0

\* Task s without event e in its batch, owing o.
Left(s, e, o) == [s EXCEPT !.todo = @ \ {e}, !.owes = o]

\* What the tasks of the dispatcher can be made of.
LEMMA TaskFacts ==
  ASSUME NEW h \in 0..MaxEvents
  PROVE  /\ TaskOK(NotRunning, h) /\ TaskOK(Fresh, h)
         /\ \A s : TaskOK(s, h) => TaskOK(Cancelled(s), h)
         /\ \A s : TaskOK(s, h) /\ s.upTo = 0 /\ s.owes = 0 => TaskOK(CaughtUp(s), h)
<1> USE StreamAssumption DEF Task, Modes, Owed, Events
<1>1. TaskOK(NotRunning, h) /\ TaskOK(Fresh, h)
  <2>1. NotRunning \in Task /\ Fresh \in Task
    <3>1. NotRunning \in Task
      BY DEF NotRunning
    <3> QED BY <3>1 DEF Fresh
  <2>2. /\ NotRunning.upTo = 0 /\ NotRunning.todo = {} /\ NotRunning.owes = 0
        /\ Fresh.upTo = 0 /\ Fresh.todo = {} /\ Fresh.owes = 0
    BY DEF NotRunning, Fresh
  <2>3. \A s : s \in Task /\ s.upTo = 0 /\ s.todo = {} /\ s.owes = 0 => TaskOK(s, h)
    BY DEF TaskOK
  <2> QED BY <2>1, <2>2, <2>3
<1>2. ASSUME NEW s, TaskOK(s, h)
      PROVE  TaskOK(Cancelled(s), h)
  BY <1>1, <1>2 DEF TaskOK, Cancelled
<1>3. ASSUME NEW s, TaskOK(s, h), s.upTo = 0, s.owes = 0
      PROVE  TaskOK(CaughtUp(s), h)
  <2>1. s.todo = {}
    BY <1>3 DEF TaskOK
  <2> QED BY <1>1, <1>3, <2>1 DEF TaskOK, CaughtUp
<1> QED BY <1>1, <1>2, <1>3

\* What the type invariant says of one task, and how a step of one task keeps it.
LEMMA TypesOfTasks ==
  ASSUME StreamTypeOK
  PROVE  /\ \A l \in Loops : TaskOK(loop[l], head) /\ LoopConsumer[l] \in Consumers
         /\ \A l \in Loops : \A s :
              loop' = [loop EXCEPT ![l] = s] /\ TaskOK(s, head)
              => loop' \in [Loops -> Task] /\ \A k \in Loops : TaskOK(loop'[k], head)
<1>1. \A l \in Loops : TaskOK(loop[l], head) /\ LoopConsumer[l] \in Consumers
  BY StreamAssumption DEF StreamTypeOK, TaskOK
<1>2. ASSUME NEW l \in Loops, NEW s, loop' = [loop EXCEPT ![l] = s], TaskOK(s, head)
      PROVE  loop' \in [Loops -> Task] /\ \A k \in Loops : TaskOK(loop'[k], head)
  BY <1>1, <1>2 DEF StreamTypeOK, TaskOK
<1> QED BY <1>1, <1>2

\* So the tasks are right after a step if each is.
LEMMA TasksStayOK ==
  ASSUME StreamTypeOK, loop' \in [Loops -> Task], \A k \in Loops : TaskOK(loop'[k], head),
         UNCHANGED <<head, table>>, faults' \in 0..MaxFaults,
         struck' \subseteq Consumers \X Events,
         counted' \in [Consumers -> [Events -> Nat]],
         offset' \in [Consumers -> 0..MaxEvents], cursor' \in [Consumers -> 0..MaxEvents],
         \A c \in Consumers : offset'[c] <= head /\ cursor'[c] <= head
  PROVE  StreamTypeOK'
  BY DEF StreamTypeOK, TaskOK

\* Every action keeps the types: what a task pulled is in the stream and not after its
\* batch's last event, and a task that is not draining has nothing in hand.
LEMMA TypeStep ==
  ASSUME StreamTypeOK, StreamNext
  PROVE  StreamTypeOK'
<1> DEFINE Goal == StreamTypeOK'
<1>1. /\ head \in 0..MaxEvents /\ head \in Nat /\ MaxEvents \in Nat
      /\ Events \subseteq Nat \ {0}
      /\ offset \in [Consumers -> 0..MaxEvents] /\ cursor \in [Consumers -> 0..MaxEvents]
      /\ \A c \in Consumers : offset[c] <= head /\ cursor[c] <= head
  BY StreamAssumption DEF StreamTypeOK, Events
<1>2. /\ loop \in [Loops -> Task] /\ counted \in [Consumers -> [Events -> Nat]]
      /\ struck \subseteq Consumers \X Events /\ faults \in 0..MaxFaults
      /\ \A l \in Loops : TaskOK(loop[l], head) /\ LoopConsumer[l] \in Consumers
  BY TypesOfTasks DEF StreamTypeOK
<1>0. CASE Append
  <2>1. /\ head' = head + 1 /\ head' \in 0..MaxEvents
        /\ UNCHANGED <<table, offset, cursor, loop, counted, faults, struck>>
    BY <1>1, <1>0 DEF Append, NoFault
  <2>2. \A c \in Consumers : offset'[c] <= head' /\ cursor'[c] <= head'
    BY <1>1, <2>1
  <2>3. \A l \in Loops : loop[l].upTo \in Nat /\ loop[l].upTo <= head
    BY <1>1, <1>2 DEF TaskOK, Task
  <2>4. \A l \in Loops : loop'[l].upTo <= head'
    BY <1>1, <2>1, <2>3
  <2> QED BY <1>1, <1>2, <2>1, <2>2, <2>4 DEF StreamTypeOK, TaskOK
<1>3. ASSUME NEW p \in Processes, Start(p) \/ Stop(p) \/ Crash(p)
      PROVE  Goal
  <2>1. \A l \in Loops : loop'[l] \in {loop[l], Cancelled(loop[l]), Fresh, NotRunning}
    BY <1>3 DEF Start, Stop, Crash
  <2>2. \A l \in Loops : TaskOK(loop'[l], head)
    BY <1>1, <1>2, <2>1, TaskFacts
  <2>3. loop' \in [Loops -> Task]
    <3>1. \A l \in Loops : loop'[l] \in Task
      BY <2>2 DEF TaskOK
    <3>2. loop' = [l \in Loops |-> loop'[l]]
      BY <1>3 DEF Start, Stop, Crash
    <3> QED BY <3>1, <3>2
  <2>4. /\ UNCHANGED <<head, table, offset, cursor, counted>>
        /\ faults' \in 0..MaxFaults /\ struck' \subseteq Consumers \X Events
    <3>1. CASE Start(p) \/ Stop(p)
      BY <3>1 DEF Start, Stop, NoFault, StreamTypeOK
    <3>2. CASE Crash(p)
      <4>1. \A l \in Loops : loop[l].owes # 0 => loop[l].owes \in Events
        BY <1>2 DEF Task, Owed
      <4> QED BY <1>2, <3>2, <4>1, StreamAssumption DEF Crash, Fault, StreamTypeOK
    <3> QED BY <1>3, <3>1, <3>2
  <2> QED BY <1>2, <2>2, <2>3, <2>4, TasksStayOK DEF StreamTypeOK
<1>4. ASSUME NEW l \in Loops, NEW s, TaskOK(s, head), loop' = [loop EXCEPT ![l] = s],
             UNCHANGED <<head, table>>, faults' \in 0..MaxFaults,
             struck' \subseteq Consumers \X Events,
             counted' \in [Consumers -> [Events -> Nat]],
             offset' \in [Consumers -> 0..MaxEvents],
             cursor' \in [Consumers -> 0..MaxEvents],
             \A c \in Consumers : offset'[c] <= head /\ cursor'[c] <= head
      PROVE  Goal
  BY <1>4, TypesOfTasks, TasksStayOK
<1>5. ASSUME NoFault
      PROVE  faults' \in 0..MaxFaults /\ struck' \subseteq Consumers \X Events
  BY <1>5 DEF NoFault, StreamTypeOK
<1>6. ASSUME NEW hit, hit \subseteq Consumers \X Events, Fault(hit)
      PROVE  faults' \in 0..MaxFaults /\ struck' \subseteq Consumers \X Events
  BY <1>6, StreamAssumption DEF Fault, StreamTypeOK
<1>7. ASSUME NEW l \in Loops, Wake(l)
      PROVE  Goal
  <2> DEFINE s == [loop[l] EXCEPT !.mode = "draining"]
  <2>1. loop' = [loop EXCEPT ![l] = s] /\ NoFault
        /\ UNCHANGED <<head, table, offset, cursor, counted>>
    BY <1>7 DEF Wake
  <2>2. TaskOK(s, head)
    BY <1>2 DEF TaskOK, Task, Modes
  <2> HIDE DEF s
  <2> QED BY <1>1, <1>2, <1>4, <1>5, <2>1, <2>2
<1>8. ASSUME NEW l \in Loops, Pull(l) \/ PullFails(l)
      PROVE  Goal
  <2> DEFINE c == LoopConsumer[l]
  <2>0. PICK o \in {0, offset[c]}, n \in Nat : Fetch(l, After(o, n))
    BY <1>8, PullsFetch
  <2>1. /\ loop[l].mode = "draining" /\ loop[l].upTo = 0 /\ loop[l].owes = 0
        /\ UNCHANGED <<head, table, offset, cursor, counted>>
    BY <2>0 DEF Fetch, Turn
  <2>9. faults' \in 0..MaxFaults /\ struck' \subseteq Consumers \X Events
    BY <1>5, <1>6, <1>8 DEF Pull, PullFails
  <2> DEFINE batch == After(o, n)
  <2>4. batch \subseteq 1..head
    BY DEF After
  <2>5. \/ loop' = [loop EXCEPT ![l] = CaughtUp(@)]
        \/ \E last \in batch :
             /\ \A e \in batch : e <= last
             /\ loop' = [loop EXCEPT ![l].todo = Takes(c, batch), ![l].upTo = last]
    BY <2>0 DEF Fetch
  <2> HIDE DEF batch
  <2>2. CASE loop' = [loop EXCEPT ![l] = CaughtUp(@)]
    <3>1. TaskOK(CaughtUp(loop[l]), head)
      BY <1>1, <1>2, <2>1, TaskFacts
    <3>2. loop' = [loop EXCEPT ![l] = CaughtUp(loop[l])]
      BY <2>2
    <3> QED BY <1>1, <1>2, <1>4, <2>1, <2>9, <3>1, <3>2
  <2>3. ASSUME NEW last \in batch, \A e \in batch : e <= last,
               loop' = [loop EXCEPT ![l].todo = Takes(c, batch), ![l].upTo = last]
        PROVE  Goal
    <3> DEFINE s == [loop[l] EXCEPT !.todo = Takes(c, batch), !.upTo = last]
    <3>1. loop' = [loop EXCEPT ![l] = s]
      BY <2>3
    <3>2. last \in 1..head /\ Takes(c, batch) \subseteq batch
      BY <2>3, <2>4 DEF Takes
    <3>3. /\ last \in 0..MaxEvents /\ last <= head
          /\ Takes(c, batch) \in SUBSET Events
          /\ \A e \in Takes(c, batch) : e <= last
      BY <1>1, <2>3, <2>4, <3>2 DEF Events
    <3>4. TaskOK(s, head)
      BY <1>1, <1>2, <2>1, <3>3 DEF TaskOK, Task
    <3> HIDE DEF s
    <3> QED BY <1>1, <1>2, <1>4, <2>1, <2>9, <3>1, <3>4
  <2> QED BY <2>2, <2>3, <2>5
<1>10. ASSUME NEW l \in Loops, NEW e \in loop[l].todo, NEW o \in {0, e}
       PROVE  /\ e \in Events /\ e <= head
              /\ loop[l].mode = "draining" =>
                   TaskOK(Left(loop[l], e, o), head)
  <2>1. e \in Events /\ e <= head
    BY <1>1, <1>2, <1>10 DEF TaskOK, Task
  <2>2. o \in Owed
    BY <1>10, <2>1 DEF Owed
  <2> QED BY <1>1, <1>2, <2>1, <2>2 DEF TaskOK, Task, Left
<1>11. ASSUME NEW l \in Loops, Claim(l)
       PROVE  Goal
  <2> DEFINE c == LoopConsumer[l]
  <2>1. PICK e \in loop[l].todo :
          /\ NextUp(l, e) /\ NoFault /\ UNCHANGED <<head, table, offset, counted>>
          /\ cursor' = [cursor EXCEPT ![c] = Later(@, e)]
          /\ loop' = [loop EXCEPT ![l].todo = @ \ {e},
                       ![l].owes = IF cursor[c] < e /\ table[e] \in ActedOn[c] THEN e ELSE 0]
    BY <1>11 DEF Claim
  <2> DEFINE o == IF cursor[c] < e /\ table[e] \in ActedOn[c] THEN e ELSE 0
             s == Left(loop[l], e, o)
  <2>2. loop' = [loop EXCEPT ![l] = s] /\ loop[l].mode = "draining"
    BY <2>1 DEF NextUp, Handling, Turn, Left
  <2>3. TaskOK(s, head) /\ e \in Events /\ e <= head
    <3>1. o \in {0, e}
      OBVIOUS
    <3> HIDE DEF o
    <3> QED BY <1>10, <2>2, <3>1
  <2>4. /\ cursor' \in [Consumers -> 0..MaxEvents]
        /\ \A d \in Consumers : offset'[d] <= head /\ cursor'[d] <= head
    BY <1>1, <1>2, <2>1, <2>3 DEF Later, Events
  <2> HIDE DEF s
  <2> QED BY <1>1, <1>2, <1>4, <1>5, <2>1, <2>2, <2>3, <2>4
<1>12. ASSUME NEW l \in Loops, ClaimFails(l)
       PROVE  Goal
  <2>1. PICK e \in loop[l].todo :
          /\ NextUp(l, e) /\ Fault({<<LoopConsumer[l], e>>})
          /\ UNCHANGED <<head, table, offset, cursor, counted>>
          /\ loop' = [loop EXCEPT ![l].todo = @ \ {e}]
    BY <1>12 DEF ClaimFails
  <2> DEFINE s == Left(loop[l], e, 0)
  <2>2. loop[l].owes = 0 /\ loop[l].mode = "draining"
    BY <2>1 DEF NextUp, Handling, Turn
  <2>3. loop' = [loop EXCEPT ![l] = s]
    <3>1. s = [loop[l] EXCEPT !.todo = @ \ {e}]
      BY <1>1, <1>2, <2>2 DEF Task, Left
    <3> QED BY <2>1, <3>1
  <2>4. TaskOK(s, head) /\ e \in Events
    BY <1>10, <2>2
  <2>5. {<<LoopConsumer[l], e>>} \subseteq Consumers \X Events
    BY <1>1, <1>2, <2>4
  <2> HIDE DEF s
  <2> QED BY <1>1, <1>2, <1>4, <1>6, <2>1, <2>3, <2>4, <2>5
<1>13. ASSUME NEW l \in Loops, RunBump(l) \/ BumpFails(l)
       PROVE  Goal
  <2> DEFINE s == [loop[l] EXCEPT !.owes = 0]
  <2>1. /\ loop[l].owes # 0 /\ loop' = [loop EXCEPT ![l] = s]
        /\ UNCHANGED <<head, table, offset, cursor>>
    BY <1>13 DEF RunBump, BumpFails
  <2>2. loop[l].owes \in Events /\ TaskOK(s, head)
    BY <1>1, <1>2, <2>1 DEF TaskOK, Task, Owed
  <2> HIDE DEF s
  <2>3. CASE RunBump(l)
    <3>1. counted' \in [Consumers -> [Events -> Nat]]
      BY <1>1, <1>2, <2>2, <2>3 DEF RunBump, StreamTypeOK
    <3> QED BY <1>1, <1>2, <1>4, <1>5, <2>1, <2>2, <2>3, <3>1 DEF RunBump
  <2>4. CASE BumpFails(l)
    <3>1. {<<LoopConsumer[l], loop[l].owes>>} \subseteq Consumers \X Events
      BY <1>1, <1>2, <2>2
    <3> QED BY <1>1, <1>2, <1>4, <1>6, <2>1, <2>2, <2>4, <3>1 DEF BumpFails
  <2> QED BY <1>13, <2>3, <2>4
<1>14. ASSUME NEW l \in Loops, Commit(l) \/ CommitFails(l)
       PROVE  Goal
  <2> DEFINE s == [loop[l] EXCEPT !.upTo = 0]
  <2>1. /\ loop[l].todo = {} /\ loop' = [loop EXCEPT ![l] = s]
        /\ UNCHANGED <<head, table, cursor, counted>>
    BY <1>14 DEF Commit, CommitFails, DrainDone
  <2>2. TaskOK(s, head)
    BY <1>1, <1>2, <2>1 DEF TaskOK, Task
  <2> HIDE DEF s
  <2>3. CASE Commit(l)
    <3>1. loop[l].upTo \in 0..MaxEvents /\ loop[l].upTo <= head
      BY <1>2 DEF TaskOK, Task
    <3>2. /\ offset' \in [Consumers -> 0..MaxEvents]
          /\ \A d \in Consumers : offset'[d] <= head /\ cursor'[d] <= head
      BY <1>1, <1>2, <2>3, <3>1 DEF Commit, Later
    <3> QED BY <1>1, <1>2, <1>4, <1>5, <2>1, <2>2, <2>3, <3>2 DEF Commit
  <2>4. CASE CommitFails(l)
    BY <1>1, <1>2, <1>4, <1>6, <2>1, <2>2, <2>4 DEF CommitFails
  <2> QED BY <1>14, <2>3, <2>4
<1> QED BY <1>0, <1>3, <1>7, <1>8, <1>11, <1>12, <1>13, <1>14
        DEF StreamNext, Progress, StatementFails

\* In every step but a claim a task owes afterwards what it owed before, or nothing.
LEMMA OnlyClaimsGrant ==
  ASSUME StreamTypeOK, StreamNext, \A l \in Loops : ~Claim(l)
  PROVE  \A k \in Loops : loop'[k].owes \in {0, loop[k].owes}
<1> DEFINE Goal == \A k \in Loops : loop'[k].owes \in {0, loop[k].owes}
<1>1. loop \in [Loops -> Task] /\ NotRunning.owes = 0 /\ Fresh.owes = 0
  BY DEF StreamTypeOK, NotRunning, Fresh
<1>2. CASE Append
  BY <1>2 DEF Append
<1>3. ASSUME NEW p \in Processes, Start(p) \/ Stop(p) \/ Crash(p)
      PROVE  Goal
  <2>1. \A k \in Loops : loop'[k] \in {loop[k], Cancelled(loop[k]), Fresh, NotRunning}
    BY <1>3 DEF Start, Stop, Crash
  <2>2. \A s \in Task : Cancelled(s).owes \in {0, s.owes}
    BY <1>1 DEF Cancelled, Task
  <2> QED BY <1>1, <2>1, <2>2
<1>4. ASSUME NEW l \in Loops,
             Wake(l) \/ RunBump(l) \/ Commit(l)
               \/ ClaimFails(l) \/ BumpFails(l) \/ CommitFails(l)
      PROVE  Goal
  <2>1. CASE Wake(l)
    BY <1>1, <2>1 DEF Wake, Task
  <2>2. CASE RunBump(l) \/ BumpFails(l)
    BY <1>1, <2>2 DEF RunBump, BumpFails, Task
  <2>3. CASE ClaimFails(l)
    BY <1>1, <2>3 DEF ClaimFails, Task
  <2>4. CASE Commit(l) \/ CommitFails(l)
    BY <1>1, <2>4 DEF Commit, CommitFails, DrainDone, Task
  <2> QED BY <1>4, <2>1, <2>2, <2>3, <2>4
<1>5. ASSUME NEW l \in Loops, Pull(l) \/ PullFails(l)
      PROVE  Goal
  <2>1. \A s \in Task : CaughtUp(s).owes \in {0, s.owes}
    BY <1>1 DEF CaughtUp, Task
  <2>2. CASE loop' = [loop EXCEPT ![l] = CaughtUp(loop[l])]
    BY <1>1, <2>1, <2>2
  <2>3. ASSUME NEW todo, NEW last, loop' = [loop EXCEPT ![l].todo = todo, ![l].upTo = last]
        PROVE  Goal
    BY <1>1, <2>3 DEF Task
  <2> QED BY <1>5, <2>2, <2>3 DEF Pull, PullFails, Fetch
<1> QED BY <1>2, <1>3, <1>4, <1>5 DEF StreamNext, Progress, StatementFails

\* The bumps and the cursors change in a bump and in a claim only.
LEMMA OnlyClaimsAndBumpsCount ==
  ASSUME StreamNext, \A l \in Loops : ~Claim(l) /\ ~RunBump(l)
  PROVE  UNCHANGED <<counted, cursor>>
  BY DEF StreamNext, Progress, StatementFails, Append, Start, Stop, Crash, Wake, Pull, Fetch, Commit,
         PullFails, ClaimFails, BumpFails, CommitFails

\* What a claim does: the task owes the event if the cursor had not passed it and the
\* consumer acts on its table.
LEMMA ClaimFacts ==
  ASSUME StreamTypeOK, NEW l \in Loops, Claim(l)
  PROVE  \E e \in Events :
           LET c == LoopConsumer[l]
               grants == cursor[c] < e /\ table[e] \in ActedOn[c]
           IN /\ c \in Consumers /\ NextUp(l, e) /\ e \in loop[l].todo
              /\ loop[l].owes = 0 /\ loop'[l].owes = IF grants THEN e ELSE 0
              /\ loop'[l].todo = loop[l].todo \ {e} /\ loop'[l].upTo = loop[l].upTo
              /\ \A k \in Loops : k # l => loop'[k] = loop[k]
              /\ cursor[c] <= cursor'[c] /\ e <= cursor'[c]
              /\ cursor'[c] \in {cursor[c], e}
              /\ \A d \in Consumers : d # c => cursor'[d] = cursor[d]
              /\ UNCHANGED <<head, table, offset, counted, struck>>
<1> DEFINE c == LoopConsumer[l]
<1>1. PICK e \in loop[l].todo :
        /\ NextUp(l, e) /\ NoFault /\ UNCHANGED <<head, table, offset, counted>>
        /\ cursor' = [cursor EXCEPT ![c] = Later(@, e)]
        /\ loop' = [loop EXCEPT ![l].todo = @ \ {e},
                     ![l].owes = IF cursor[c] < e /\ table[e] \in ActedOn[c] THEN e ELSE 0]
  BY DEF Claim
<1>2. loop \in [Loops -> Task] /\ c \in Consumers /\ cursor \in [Consumers -> 0..MaxEvents]
  BY StreamAssumption DEF StreamTypeOK
<1>3. e \in Events /\ e \in Nat /\ cursor[c] \in Nat
  BY <1>1, <1>2, StreamAssumption DEF Task, Events
<1>4. /\ cursor'[c] = Later(cursor[c], e)
      /\ \A d \in Consumers : d # c => cursor'[d] = cursor[d]
  BY <1>1, <1>2
<1>5. cursor[c] <= cursor'[c] /\ e <= cursor'[c] /\ cursor'[c] \in {cursor[c], e}
  BY <1>3, <1>4 DEF Later
<1>6. \A k \in Loops : k # l => loop'[k] = loop[k]
  BY <1>1, <1>2
<1>7. /\ loop'[l].todo = loop[l].todo \ {e} /\ loop'[l].upTo = loop[l].upTo
      /\ loop'[l].owes = IF cursor[c] < e /\ table[e] \in ActedOn[c] THEN e ELSE 0
  BY <1>1, <1>2 DEF Task
<1>8. loop[l].owes = 0
  BY <1>1 DEF NextUp, Handling, Turn
<1> QED BY <1>1, <1>2, <1>3, <1>4, <1>5, <1>6, <1>7, <1>8 DEF NoFault

\* What a bump does: it pays what its task owes.
LEMMA BumpFacts ==
  ASSUME StreamTypeOK, NEW l \in Loops, RunBump(l)
  PROVE  LET c == LoopConsumer[l]
             e == loop[l].owes
         IN /\ c \in Consumers /\ e \in Events /\ Owes(l, c, e) /\ e # 0
            /\ counted'[c][e] = counted[c][e] + 1 /\ counted[c][e] \in Nat
            /\ \A d \in Consumers, f \in Events :
                 d # c \/ f # e => counted'[d][f] = counted[d][f]
            /\ loop'[l].owes = 0 /\ \A k \in Loops : k # l => loop'[k] = loop[k]
            /\ cursor' = cursor
<1> DEFINE c == LoopConsumer[l]
           e == loop[l].owes
<1>1. loop \in [Loops -> Task] /\ c \in Consumers /\ counted \in [Consumers -> [Events -> Nat]]
  BY StreamAssumption DEF StreamTypeOK
<1>2. e # 0 /\ cursor' = cursor /\ loop' = [loop EXCEPT ![l].owes = 0]
      /\ counted' = [counted EXCEPT ![c][e] = @ + 1]
  BY DEF RunBump
<1>3. e \in Events
  BY <1>1, <1>2 DEF Task, Owed
<1>4. loop'[l].owes = 0 /\ \A k \in Loops : k # l => loop'[k] = loop[k]
  BY <1>1, <1>2 DEF Task
<1>5. /\ counted'[c][e] = counted[c][e] + 1 /\ counted[c][e] \in Nat
      /\ \A d \in Consumers, f \in Events : d # c \/ f # e => counted'[d][f] = counted[d][f]
  BY <1>1, <1>2, <1>3
<1> QED BY <1>1, <1>2, <1>3, <1>4, <1>5 DEF Owes

\* A claim grants the effect of an event the cursor has not passed, which nobody bumped
\* or owes; a bump pays what its task owes.
LEMMA OnceStep ==
  ASSUME StreamInvariant, StreamNext
  PROVE  AtMostOnce' /\ ClaimedFirst'
<1> DEFINE Goal == AtMostOnce' /\ ClaimedFirst'
<1>1. /\ StreamTypeOK /\ AtMostOnce /\ ClaimedFirst /\ Events \subseteq Nat \ {0}
      /\ cursor \in [Consumers -> Nat] /\ counted \in [Consumers -> [Events -> Nat]]
  BY StreamAssumption DEF StreamInvariant, StreamTypeOK, Events
<1>2. CASE \A l \in Loops : ~Claim(l) /\ ~RunBump(l)
  <2>1. UNCHANGED <<counted, cursor>>
    BY <1>2, OnlyClaimsAndBumpsCount
  <2>2. \A k \in Loops : loop'[k].owes \in {0, loop[k].owes}
    BY <1>1, <1>2, OnlyClaimsGrant
  <2>3. \A k \in Loops, c \in Consumers, e \in Events : Owes(k, c, e)' => Owes(k, c, e)
    BY <1>1, <2>2 DEF Owes
  <2> QED BY <1>1, <2>1, <2>3 DEF AtMostOnce, ClaimedFirst
<1>3. ASSUME NEW l \in Loops, Claim(l)
      PROVE  Goal
  <2> DEFINE c == LoopConsumer[l]
  <2>1. PICK e \in Events :
           LET grants == cursor[c] < e /\ table[e] \in ActedOn[c]
           IN /\ c \in Consumers /\ loop[l].owes = 0
              /\ loop'[l].owes = IF grants THEN e ELSE 0
              /\ \A k \in Loops : k # l => loop'[k] = loop[k]
              /\ cursor[c] <= cursor'[c] /\ e <= cursor'[c]
              /\ cursor'[c] \in {cursor[c], e}
              /\ \A d \in Consumers : d # c => cursor'[d] = cursor[d]
              /\ counted' = counted
    BY <1>1, <1>3, ClaimFacts
  <2>2. \A d \in Consumers, f \in Events : f <= cursor[d] => f <= cursor'[d]
    BY <1>1, <2>1
  <2>3. \A k \in Loops, d \in Consumers, f \in Events :
          Owes(k, d, f)' => Owes(k, d, f)
                            \/ (k = l /\ d = c /\ f = e /\ cursor[c] < e)
    BY <1>1, <2>1 DEF Owes
  <2>4. ClaimedFirst'
    BY <1>1, <2>1, <2>2, <2>3 DEF ClaimedFirst
  <2>5. cursor[c] < e => counted[c][e] = 0 /\ \A k \in Loops : ~Owes(k, c, e)
    BY <1>1, <2>1 DEF ClaimedFirst
  <2>6. AtMostOnce'
    BY <1>1, <2>1, <2>3, <2>5 DEF AtMostOnce
  <2> QED BY <2>4, <2>6
<1>4. ASSUME NEW l \in Loops, RunBump(l)
      PROVE  Goal
  <2> DEFINE c == LoopConsumer[l]
             e == loop[l].owes
  <2>1. /\ c \in Consumers /\ e \in Events /\ Owes(l, c, e)
        /\ counted'[c][e] = counted[c][e] + 1
        /\ \A d \in Consumers, f \in Events : d # c \/ f # e => counted'[d][f] = counted[d][f]
        /\ loop'[l].owes = 0 /\ \A k \in Loops : k # l => loop'[k] = loop[k]
        /\ cursor' = cursor
    BY <1>1, <1>4, BumpFacts
  <2>2. counted[c][e] = 0 /\ e <= cursor[c] /\ \A k \in Loops : Owes(k, c, e) => k = l
    BY <1>1, <2>1 DEF AtMostOnce, ClaimedFirst
  <2>3. \A k \in Loops, d \in Consumers, f \in Events :
          Owes(k, d, f)' => Owes(k, d, f) /\ k # l
    BY <1>1, <2>1 DEF Owes
  <2>4. ClaimedFirst'
    BY <1>1, <2>1, <2>2, <2>3 DEF ClaimedFirst
  <2>5. AtMostOnce'
    BY <1>1, <2>1, <2>2, <2>3 DEF AtMostOnce
  <2> QED BY <2>4, <2>5
<1> QED BY <1>2, <1>3, <1>4

-----------------------------------------------------------------------------
\* Which task has what in hand: in a step that pulls and claims nothing, a task keeps
\* its batch or has none.
LEMMA OthersKeepTheirBatch ==
  ASSUME StreamTypeOK, StreamNext,
         \A l \in Loops : ~Pull(l) /\ ~PullFails(l) /\ ~Claim(l) /\ ~ClaimFails(l)
  PROVE  \A k \in Loops : \/ loop'[k].upTo = 0
                          \/ loop'[k].upTo = loop[k].upTo /\ loop'[k].todo = loop[k].todo
<1> DEFINE Keeps(k) == \/ loop'[k].upTo = 0
                       \/ loop'[k].upTo = loop[k].upTo /\ loop'[k].todo = loop[k].todo
           Goal == \A k \in Loops : Keeps(k)
<1>1. loop \in [Loops -> Task] /\ NotRunning.upTo = 0 /\ Fresh.upTo = 0
  BY DEF StreamTypeOK, NotRunning, Fresh
<1>2. CASE Append
  BY <1>2 DEF Append
<1>3. ASSUME NEW p \in Processes, Start(p) \/ Stop(p) \/ Crash(p)
      PROVE  Goal
  <2>1. \A k \in Loops : loop'[k] \in {loop[k], Cancelled(loop[k]), Fresh, NotRunning}
    BY <1>3 DEF Start, Stop, Crash
  <2>2. \A s \in Task : \/ Cancelled(s).upTo = 0
                        \/ Cancelled(s).upTo = s.upTo /\ Cancelled(s).todo = s.todo
    <3> TAKE s \in Task
    <3>1. CASE s.mode = "draining"
      <4>1. Cancelled(s) = [s EXCEPT !.cancelled = TRUE]
        BY <3>1 DEF Cancelled
      <4> QED BY <4>1 DEF Task
    <3>2. CASE s.mode # "draining"
      BY <1>1, <3>2 DEF Cancelled
    <3> QED BY <3>1, <3>2
  <2> QED BY <1>1, <2>1, <2>2
<1>4. ASSUME NEW l \in Loops, Wake(l)
      PROVE  Goal
  BY <1>1, <1>4 DEF Wake, Task
<1>5. ASSUME NEW l \in Loops, RunBump(l) \/ BumpFails(l)
      PROVE  Goal
  BY <1>1, <1>5 DEF RunBump, BumpFails, Task
<1>6. ASSUME NEW l \in Loops, Commit(l) \/ CommitFails(l)
      PROVE  Goal
  BY <1>1, <1>6 DEF Commit, CommitFails, DrainDone, Task
<1> QED BY <1>2, <1>3, <1>4, <1>5, <1>6 DEF StreamNext, Progress, StatementFails

\* The offsets change in a commit only.
LEMMA OnlyCommitsMoveOffsets ==
  ASSUME StreamNext, \A l \in Loops : ~Commit(l)
  PROVE  offset' = offset
  BY DEF StreamNext, Progress, StatementFails, Append, Start, Stop, Crash, Wake, Pull, Fetch, Claim,
         RunBump, PullFails, ClaimFails, BumpFails, CommitFails

\* An effect that was wanted, has run, is owed or was hit stays so: what is owed is
\* bumped, or a fault hits it.
LEMMA SettledStays ==
  ASSUME StreamTypeOK, StreamNext, NEW c \in Consumers, NEW e \in Events, Settled(c, e)
  PROVE  Settled(c, e)'
<1>1. /\ loop \in [Loops -> Task] /\ counted \in [Consumers -> [Events -> Nat]]
      /\ Events \subseteq Nat \ {0}
  BY StreamAssumption DEF StreamTypeOK, Events
<1>2. table' = table /\ struck \subseteq struck'
  BY DEF StreamNext, Progress, StatementFails, Append, Start, Stop, Crash, Wake, Pull, Fetch, Claim,
         RunBump, Commit, PullFails, ClaimFails, BumpFails, CommitFails, NoFault, Fault
<1>3. counted[c][e] <= counted'[c][e]
  <2>1. CASE \A l \in Loops : ~Claim(l) /\ ~RunBump(l)
    BY <1>1, <2>1, OnlyClaimsAndBumpsCount
  <2>2. ASSUME NEW l \in Loops, Claim(l)
        PROVE  counted' = counted
    BY <2>2 DEF Claim
  <2>3. ASSUME NEW l \in Loops, RunBump(l)
        PROVE  counted[c][e] <= counted'[c][e]
    <3> DEFINE d == LoopConsumer[l]
               f == loop[l].owes
    <3>1. /\ d \in Consumers /\ f \in Events /\ counted'[d][f] = counted[d][f] + 1
          /\ \A x \in Consumers, y \in Events : x # d \/ y # f => counted'[x][y] = counted[x][y]
      BY <2>3, BumpFacts
    <3> QED BY <1>1, <3>1
  <2> QED BY <1>1, <2>1, <2>2, <2>3
<1>4. ASSUME NEW l \in Loops, Owes(l, c, e)
      PROVE  Settled(c, e)'
  <2>1. LoopConsumer[l] = c /\ loop[l].owes = e /\ e # 0
    BY <1>1, <1>4 DEF Owes
  <2>2. CASE RunBump(l)
    <3>1. counted'[c][e] = counted[c][e] + 1
      BY <2>1, <2>2, BumpFacts
    <3> QED BY <1>1, <3>1 DEF Settled
  <2>3. CASE BumpFails(l)
    BY <2>1, <2>3 DEF BumpFails, Fault, Settled
  <2>4. CASE Crash(LoopProcess[l])
    BY <2>1, <2>4 DEF Crash, Fault, Settled
  <2>5. CASE loop'[l].owes = e
    BY <2>1, <2>5 DEF Settled, Owes
  <2>6. CASE \E k \in Loops : Claim(k)
    <3>1. PICK k \in Loops : Claim(k)
      BY <2>6
    <3>2. k # l /\ loop'[l] = loop[l]
      BY <2>1, <3>1, ClaimFacts
    <3> QED BY <2>1, <2>5, <3>2
  <2>7. ASSUME NEW k \in Loops, k # l, Progress(k) \/ StatementFails(k)
        PROVE  loop'[l] = loop[l]
    BY <1>1, <2>7 DEF Progress, StatementFails, Wake, Pull, Fetch, Claim, RunBump, Commit, PullFails,
       ClaimFails, BumpFails, CommitFails, DrainDone
  <2>8. ASSUME Progress(l) \/ StatementFails(l)
        PROVE  RunBump(l) \/ BumpFails(l) \/ loop'[l].owes = e
    <3>1. CASE Wake(l)
      BY <1>1, <2>1, <3>1 DEF Wake, Task
    <3>2. CASE Pull(l) \/ Claim(l) \/ PullFails(l) \/ ClaimFails(l) \/ Commit(l) \/ CommitFails(l)
      BY <2>1, <3>2 DEF Pull, Fetch, Claim, PullFails, ClaimFails, Commit, CommitFails, DrainDone,
         NextUp, Handling, Turn
    <3> QED BY <2>8, <3>1, <3>2 DEF Progress, StatementFails
  <2>9. ASSUME NEW p \in Processes, Start(p) \/ Stop(p)
        PROVE  loop'[l].owes = e
    <3>1. loop[l].mode = "draining"
      BY <2>1 DEF StreamTypeOK
    <3>2. loop'[l] \in {loop[l], Cancelled(loop[l])}
      BY <2>9, <3>1 DEF Start, Stop
    <3>3. Cancelled(loop[l]).owes = loop[l].owes
      BY <1>1, <3>1 DEF Cancelled, Task
    <3> QED BY <2>1, <3>2, <3>3
  <2>10. ASSUME NEW p \in Processes, Crash(p), p # LoopProcess[l]
         PROVE  loop'[l] = loop[l]
    BY <2>10 DEF Crash
  <2>11. CASE Append
    BY <2>1, <2>5, <2>11 DEF Append
  <2>12. ASSUME NEW k \in Loops, Progress(k) \/ StatementFails(k)
         PROVE  Settled(c, e)'
    <3>1. CASE k = l
      BY <2>2, <2>3, <2>5, <2>8, <2>12, <3>1
    <3>2. CASE k # l
      BY <2>1, <2>5, <2>7, <2>12, <3>2
    <3> QED BY <3>1, <3>2
  <2>13. ASSUME NEW p \in Processes, Start(p) \/ Stop(p) \/ Crash(p)
         PROVE  Settled(c, e)'
    <3>1. CASE Start(p) \/ Stop(p)
      BY <2>5, <2>9, <3>1
    <3>2. CASE Crash(p)
      BY <2>1, <2>4, <2>5, <2>10, <3>2
    <3> QED BY <2>13, <3>1, <3>2
  <2> QED BY <2>11, <2>12, <2>13 DEF StreamNext
<1>5. table[e] \notin ActedOn[c] \/ <<c, e>> \in struck => Settled(c, e)'
  BY <1>2 DEF Settled
<1>6. counted[c][e] > 0 => Settled(c, e)'
  <2>1. counted[c][e] \in Nat /\ counted'[c][e] \in Nat
    BY <1>1, TypeStep DEF StreamTypeOK
  <2>2. counted[c][e] > 0 => counted'[c][e] > 0
    BY <1>3, <2>1
  <2> QED BY <2>2 DEF Settled
<1> QED BY <1>4, <1>5, <1>6 DEF Settled

\* The cursor and the offset only pass what is settled, in any order of the tasks: a
\* claim passes the events before it, which its task has claimed or its pull did not
\* see because the offset was past them, and a commit passes a batch that is claimed.
LEMMA PassedStep ==
  ASSUME StreamInvariant, StreamNext
  PROVE  PassedIsSettled'
<1>1. /\ StreamTypeOK /\ PassedIsSettled /\ Events \subseteq Nat \ {0}
      /\ Watermarked \subseteq Consumers /\ loop \in [Loops -> Task]
      /\ cursor \in [Consumers -> Nat] /\ offset \in [Consumers -> Nat]
      /\ \A l \in Loops : loop[l].upTo \in Nat
  BY StreamAssumption DEF StreamInvariant, StreamTypeOK, Events, Task
<1>2. \A c \in Watermarked, e \in Events : Settled(c, e) => Settled(c, e)'
  BY <1>1, SettledStays
<1>3. ASSUME \A l \in Loops : ~Claim(l) /\ ~ClaimFails(l) /\ ~Pull(l) /\ ~PullFails(l) /\ ~Commit(l)
      PROVE  PassedIsSettled'
  <2>1. cursor' = cursor /\ offset' = offset
    <3>1. CASE \A l \in Loops : ~RunBump(l)
      BY <1>3, <3>1, OnlyClaimsAndBumpsCount, OnlyCommitsMoveOffsets
    <3>2. ASSUME NEW l \in Loops, RunBump(l)
          PROVE  cursor' = cursor /\ offset' = offset
      BY <3>2 DEF RunBump
    <3> QED BY <3>1, <3>2
  <2>2. \A k \in Loops : \/ loop'[k].upTo = 0
                         \/ loop'[k].upTo = loop[k].upTo /\ loop'[k].todo = loop[k].todo
    BY <1>1, <1>3, OthersKeepTheirBatch
  <2>3. \A e \in Events : ~(e <= 0)
    BY <1>1
  <2> QED BY <1>1, <1>2, <2>1, <2>2, <2>3 DEF PassedIsSettled
<1>4. ASSUME NEW l \in Loops, Claim(l)
      PROVE  PassedIsSettled'
  <2> DEFINE c == LoopConsumer[l]
  <2>1. PICK e \in Events :
          /\ c \in Consumers /\ NextUp(l, e) /\ e \in loop[l].todo
          /\ loop'[l].owes = IF cursor[c] < e /\ table[e] \in ActedOn[c] THEN e ELSE 0
          /\ loop'[l].todo = loop[l].todo \ {e} /\ loop'[l].upTo = loop[l].upTo
          /\ \A k \in Loops : k # l => loop'[k] = loop[k]
          /\ cursor'[c] \in {cursor[c], e}
          /\ \A d \in Consumers : d # c => cursor'[d] = cursor[d]
          /\ table' = table /\ offset' = offset
    BY <1>1, <1>4, ClaimFacts
  <2>2. \A f \in loop[l].todo : e <= f
    BY <2>1 DEF NextUp
  <2>3. e <= loop[l].upTo
    BY <1>1, <2>1 DEF StreamTypeOK
  <2>4. c \in Watermarked => Settled(c, e)'
    <3>1. CASE cursor[c] < e /\ table[e] \in ActedOn[c]
      BY <2>1, <3>1 DEF Settled, Owes
    <3>2. CASE table[e] \notin ActedOn[c]
      BY <2>1, <3>2 DEF Settled
    <3>3. CASE ~(cursor[c] < e)
      <4>1. e <= cursor[c]
        BY <1>1, <2>1, <3>3
      <4> QED BY <1>1, <1>2, <2>1, <4>1 DEF PassedIsSettled
    <3> QED BY <3>1, <3>2, <3>3
  <2>5. \A f \in Events : f <= e => f = e \/ (f \notin loop[l].todo /\ f <= loop[l].upTo)
    BY <1>1, <2>1, <2>2, <2>3
  <2>6. c \in Watermarked => \A f \in Events : f <= e => Settled(c, f)'
    BY <1>1, <1>2, <2>4, <2>5 DEF PassedIsSettled
  <2>7. ASSUME NEW d \in Watermarked, NEW f \in Events, f <= cursor'[d] \/ f <= offset'[d]
        PROVE  Settled(d, f)'
    BY <1>1, <1>2, <2>1, <2>6, <2>7 DEF PassedIsSettled
  <2>8. ASSUME NEW d \in Watermarked, NEW f \in Events, NEW k \in Loops,
               LoopConsumer[k] = d, f <= loop'[k].upTo
        PROVE  f \in loop'[k].todo \/ Settled(d, f)'
    BY <1>1, <1>2, <2>1, <2>4, <2>8 DEF PassedIsSettled
  <2> QED BY <2>7, <2>8 DEF PassedIsSettled
<1>5. ASSUME NEW l \in Loops, ClaimFails(l)
      PROVE  PassedIsSettled'
  <2> DEFINE c == LoopConsumer[l]
  <2>1. PICK e \in loop[l].todo :
          /\ struck' = struck \cup {<<c, e>>} /\ loop' = [loop EXCEPT ![l].todo = @ \ {e}]
          /\ cursor' = cursor /\ offset' = offset
    BY <1>5 DEF ClaimFails, Fault
  <2>2. /\ loop'[l].todo = loop[l].todo \ {e} /\ loop'[l].upTo = loop[l].upTo
        /\ \A k \in Loops : k # l => loop'[k] = loop[k]
    BY <1>1, <2>1 DEF Task
  <2>3. Settled(c, e)'
    BY <2>1 DEF Settled
  <2> QED BY <1>1, <1>2, <2>1, <2>2, <2>3 DEF PassedIsSettled
<1>6. ASSUME NEW l \in Loops, Pull(l) \/ PullFails(l)
      PROVE  PassedIsSettled'
  <2> DEFINE c == LoopConsumer[l]
  <2>0. PICK o \in {0, offset[c]}, n \in Nat : Fetch(l, After(o, n))
    BY <1>1, <1>6, PullsFetch
  <2> DEFINE batch == After(o, n)
  <2>1. /\ cursor' = cursor /\ offset' = offset /\ c \in Consumers /\ loop[l].upTo = 0
        /\ \A k \in Loops : k # l => loop'[k] = loop[k]
    BY <1>1, <2>0, StreamAssumption DEF Fetch
  <2> HIDE DEF batch
  <2>2. CASE loop' = [loop EXCEPT ![l] = CaughtUp(loop[l])]
    <3>1. loop'[l] = CaughtUp(loop[l])
      BY <1>1, <2>2
    <3>2. CaughtUp(loop[l]).upTo = 0
      <4>1. CASE loop[l].cancelled
        BY <4>1 DEF CaughtUp, NotRunning
      <4>2. CASE ~loop[l].cancelled
        <5>1. CaughtUp(loop[l]) = [loop[l] EXCEPT !.mode = "asleep"]
          BY <4>2 DEF CaughtUp
        <5> QED BY <1>1, <2>1, <5>1 DEF Task
      <4> QED BY <4>1, <4>2
    <3>3. \A e \in Events : ~(e <= 0)
      BY <1>1
    <3>4. \A k \in Loops, e \in Events : e <= loop'[k].upTo => k # l /\ loop'[k] = loop[k]
      BY <2>1, <3>1, <3>2, <3>3
    <3> QED BY <1>1, <1>2, <2>1, <3>4 DEF PassedIsSettled
  <2>3. ASSUME NEW last \in batch, \A e \in batch : e <= last,
               loop' = [loop EXCEPT ![l].todo = Takes(c, batch), ![l].upTo = last]
        PROVE  PassedIsSettled'
    <3>1. loop'[l].todo = Takes(c, batch) /\ loop'[l].upTo = last
      BY <1>1, <2>3 DEF Task
    <3>2. ASSUME c \in Watermarked, NEW e \in Events, e <= last
          PROVE  e \in loop'[l].todo \/ Settled(c, e)
      <4>1. CASE o < e
        <5>1. e \in Nat /\ o \in Nat /\ head \in Nat
          BY <1>1, <2>1, StreamAssumption DEF StreamTypeOK
        <5>2. e \in batch
          BY <2>3, <3>2, <4>1, <5>1, BatchIsContiguous DEF batch
        <5> QED BY <3>1, <3>2, <5>2 DEF Takes
      <4>2. CASE ~(o < e)
        <5>1. e <= offset[c]
          BY <1>1, <2>1, <4>2
        <5> QED BY <1>1, <3>2, <5>1 DEF PassedIsSettled
      <4> QED BY <4>1, <4>2
    <3> QED BY <1>1, <1>2, <2>1, <3>1, <3>2 DEF PassedIsSettled
  <2> QED BY <2>0, <2>2, <2>3 DEF Fetch, batch
<1>7. ASSUME NEW l \in Loops, Commit(l)
      PROVE  PassedIsSettled'
  <2> DEFINE c == LoopConsumer[l]
  <2>1. /\ loop[l].todo = {} /\ loop' = [loop EXCEPT ![l].upTo = 0] /\ cursor' = cursor
        /\ offset' = [offset EXCEPT ![c] = Later(@, loop[l].upTo)] /\ c \in Consumers
    BY <1>7, StreamAssumption DEF Commit, DrainDone
  <2>2. /\ loop'[l].upTo = 0 /\ \A k \in Loops : k # l => loop'[k] = loop[k]
    BY <1>1, <2>1 DEF Task
  <2>3. /\ offset'[c] \in {offset[c], loop[l].upTo}
        /\ \A d \in Consumers : d # c => offset'[d] = offset[d]
    BY <1>1, <2>1 DEF Later
  <2>4. ASSUME NEW d \in Watermarked, NEW f \in Events, f <= cursor'[d] \/ f <= offset'[d]
        PROVE  Settled(d, f)'
    BY <1>1, <1>2, <2>1, <2>3, <2>4 DEF PassedIsSettled
  <2>5. \A e \in Events : ~(e <= 0)
    BY <1>1
  <2>6. ASSUME NEW d \in Watermarked, NEW f \in Events, NEW k \in Loops,
               LoopConsumer[k] = d, f <= loop'[k].upTo
        PROVE  f \in loop'[k].todo \/ Settled(d, f)'
    BY <1>1, <1>2, <2>2, <2>5, <2>6 DEF PassedIsSettled
  <2> QED BY <2>4, <2>6 DEF PassedIsSettled
<1> QED BY <1>3, <1>4, <1>5, <1>6, <1>7

-----------------------------------------------------------------------------
\* The stream starts empty, with no task.
LEMMA StreamInvariantInit == StreamInit => StreamInvariant
<1> SUFFICES ASSUME StreamInit PROVE StreamInvariant
  OBVIOUS
<1>1. 0 \in 0..MaxEvents /\ 0 \in 0..MaxFaults /\ Events \subseteq Nat \ {0}
  BY StreamAssumption DEF Events
<1>2. /\ NotRunning.upTo = 0 /\ NotRunning.todo = {} /\ NotRunning.owes = 0
      /\ \A l \in Loops : loop[l] = NotRunning
  BY DEF StreamInit, NotRunning
<1>3. StreamTypeOK
  BY <1>1, <1>2, TaskFacts DEF StreamInit, StreamTypeOK, TaskOK
<1>4. AtMostOnce /\ ClaimedFirst
  BY <1>1, <1>2 DEF StreamInit, AtMostOnce, ClaimedFirst, Owes
<1>5. PassedIsSettled
  BY <1>1, <1>2, StreamAssumption DEF StreamInit, PassedIsSettled
<1> QED BY <1>3, <1>4, <1>5 DEF StreamInvariant

\* The invariant is inductive.
LEMMA StreamInvariantStep == StreamInvariant /\ [StreamNext]_streamVars => StreamInvariant'
<1> SUFFICES ASSUME StreamInvariant, [StreamNext]_streamVars PROVE StreamInvariant'
  OBVIOUS
<1>1. CASE StreamNext
  BY <1>1, TypeStep, OnceStep, PassedStep DEF StreamInvariant
<1>2. CASE UNCHANGED streamVars
  BY <1>2 DEF streamVars, StreamInvariant, StreamTypeOK, AtMostOnce, ClaimedFirst,
              PassedIsSettled, Settled, Owes
<1> QED BY <1>1, <1>2

\* So it holds in every reachable state.
LEMMA StreamInvariantHolds == StreamSpec => []StreamInvariant
  BY StreamInvariantInit, StreamInvariantStep, PTL DEF StreamSpec

-----------------------------------------------------------------------------
\* Types; a task that is not draining has nothing in hand.
THEOREM StreamTypesHold == StreamSpec => []StreamTypeOK
<1>1. StreamInvariant => StreamTypeOK
  BY DEF StreamInvariant
<1> QED BY <1>1, StreamInvariantHolds, PTL

\* However many tasks, processes and redeliveries: no effect is driven twice.
THEOREM EffectsAreAtMostOnce == StreamSpec => []AtMostOnce
<1>1. StreamInvariant => AtMostOnce
  BY DEF StreamInvariant
<1> QED BY <1>1, StreamInvariantHolds, PTL

\* An effect behind the offset that nobody drives was hit by a fault, for any batch
\* limit and any overlap of tasks.
THEOREM OnlyFaultsLoseEffects == StreamSpec => []OnlyStruckAreLost
<1>1. StreamInvariant => OnlyStruckAreLost
  <2> SUFFICES ASSUME StreamInvariant, NEW ce \in Lost PROVE ce \in struck
    BY DEF OnlyStruckAreLost
  <2>1. ce \in Watermarked \X Events /\ Missed(ce[1], ce[2]) /\ ce = <<ce[1], ce[2]>>
    BY DEF Lost
  <2>2. Settled(ce[1], ce[2])
    BY <2>1 DEF StreamInvariant, PassedIsSettled, Missed
  <2> QED BY <2>1, <2>2 DEF Missed, Settled
<1> QED BY <1>1, StreamInvariantHolds, PTL

\* No step takes a consumer's offset or claim cursor back: both are written as a MAX.
THEOREM OffsetsNeverRewind == StreamSpec => NeverRewinds
<1> DEFINE Forward == \A c \in Consumers : offset'[c] >= offset[c] /\ cursor'[c] >= cursor[c]
<1>1. StreamInvariant /\ [StreamNext]_streamVars => [Forward]_streamVars
  <2> SUFFICES ASSUME StreamInvariant, StreamNext PROVE Forward
    OBVIOUS
  <2>1. /\ StreamTypeOK /\ cursor \in [Consumers -> Nat] /\ offset \in [Consumers -> Nat]
        /\ \A l \in Loops : loop[l].upTo \in Nat
    BY StreamAssumption DEF StreamInvariant, StreamTypeOK, Task
  <2>2. \A c \in Consumers : offset'[c] >= offset[c]
    <3>1. ASSUME NEW l \in Loops, Commit(l)
          PROVE  \A c \in Consumers : offset'[c] >= offset[c]
      BY <2>1, <3>1 DEF Commit, Later
    <3> QED BY <2>1, <3>1, OnlyCommitsMoveOffsets
  <2>3. \A c \in Consumers : cursor'[c] >= cursor[c]
    <3>1. ASSUME NEW l \in Loops, Claim(l)
          PROVE  \A c \in Consumers : cursor'[c] >= cursor[c]
      BY <2>1, <3>1, TypeStep, ClaimFacts DEF StreamTypeOK
    <3>2. ASSUME NEW l \in Loops, RunBump(l)
          PROVE  cursor' = cursor
      BY <3>2 DEF RunBump
    <3> QED BY <2>1, <3>1, <3>2, OnlyClaimsAndBumpsCount
  <2> QED BY <2>2, <2>3
<1> QED BY <1>1, StreamInvariantHolds, PTL DEF StreamSpec, NeverRewinds
=============================================================================

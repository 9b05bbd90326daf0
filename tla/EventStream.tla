----------------------------- MODULE EventStream -----------------------------
(***************************************************************************)
(* The session event stream: SessionEventStreamStore, the loops of         *)
(* EventStreamDispatcher that drain it, and the consumers that guard their *)
(* effect with a claim cursor (agent timeline, compound-learning           *)
(* analytics), next to one that does nothing (notifications).              *)
(*                                                                         *)
(* A drain is a pull, one claim per event and a commit, each a turn of the *)
(* serial queue of its process.  The effect, a counter bumped by           *)
(* recordEvent, is put on that queue after the claim has returned: it runs *)
(* before the next turn of the same task, other tasks may come in between, *)
(* and it is gone if the process dies first.  Tasks of one consumer        *)
(* overlap: `start` cancels the running task, which still drains to the    *)
(* head, and several processes may run a dispatcher.                       *)
(***************************************************************************)
EXTENDS Naturals, FiniteSets

CONSTANTS
  Processes,
  Consumers,
  Loops, LoopProcess, LoopConsumer,  \* tasks, the process and consumer of each
  Watermarked,     \* the consumers that claim events with a cursor
  Tables,          \* source_table of an event
  ActedOn,         \* per consumer: the source tables it drives an effect for
  PullLimit,       \* LIMIT of a pull
  MaxEvents,       \* bound: events ever appended
  MaxFaults        \* bound: crashes and failed statements

Events == 1..MaxEvents

ASSUME StreamAssumption ==
  /\ MaxEvents \in Nat /\ MaxFaults \in Nat
  /\ PullLimit \in Nat \ {0}
  /\ LoopProcess \in [Loops -> Processes]
  /\ LoopConsumer \in [Loops -> Consumers]
  /\ Watermarked \subseteq Consumers
  /\ ActedOn \in [Consumers -> SUBSET Tables]

VARIABLES
  head,     \* highest event id (AUTOINCREMENT)
  table,    \* source_table of each event, fixed before it is appended
  offset,   \* per consumer: last_processed_event_id
  cursor,   \* per consumer: the claim cursor `<consumer>.applied`
  loop,     \* the dispatcher's tasks
  counted,  \* per consumer and event: bumps that have run (history)
  struck,   \* consumer and event of each claim or bump a fault hit (history)
  faults

streamVars == <<head, table, offset, cursor, loop, counted, struck, faults>>

-----------------------------------------------------------------------------
Modes == {"off", "draining", "asleep"}
Owed == {0} \cup Events

\* A task: `todo` and `upTo` are what is left of the batch it pulled and the
\* batch's last event, `owes` the event it claimed and whose bump has not run.
Task == [mode : Modes, cancelled : BOOLEAN, todo : SUBSET Events,
         upTo : 0..MaxEvents, owes : Owed]
NotRunning == [mode |-> "off", cancelled |-> FALSE, todo |-> {}, upTo |-> 0, owes |-> 0]
Fresh == [NotRunning EXCEPT !.mode = "draining"]

Later(x, y) == IF x < y THEN y ELSE x

\* A slip: the pull leaves out the newest event.
BatchBeforeHead(c) ==
  {e \in 1..head : /\ offset[c] < e /\ e < head
                   /\ Cardinality({f \in 1..head : offset[c] < f /\ f < e}) < PullLimit}

\* The first n events after event o.
After(o, n) ==
  {e \in 1..head : o < e /\ Cardinality({f \in 1..head : o < f /\ f < e}) < n}

\* What the statements of pullSince select.
Batch(c) == After(offset[c], PullLimit)

\* Task l can have its next turn of the serial queue: its own bump has run.
Turn(l) == loop[l].mode = "draining" /\ loop[l].owes = 0

\* It is between a pull and its commit, and e is the event to claim next.
Handling(l) == Turn(l) /\ loop[l].upTo > 0
NextUp(l, e) == Handling(l) /\ e \in loop[l].todo /\ \A f \in loop[l].todo : e <= f

\* The events of a batch the consumer's handler takes a step for.
Takes(c, batch) == IF c \in Watermarked THEN batch ELSE {}

\* A task that finds nothing to drain sleeps, or ends if it was cancelled.
CaughtUp(s) == IF s.cancelled THEN NotRunning ELSE [s EXCEPT !.mode = "asleep"]

\* A slip: a cancelled task is taken for one that has ended.
CancelledAtOnce(s) == [s EXCEPT !.mode = "off"]

\* What `stop` leaves of a task: a sleeping one unwinds, a draining one goes on
\* to the head first.
Cancelled(s) == IF s.mode = "draining" THEN [s EXCEPT !.cancelled = TRUE] ELSE NotRunning

Fault(hit) ==
  /\ faults < MaxFaults
  /\ faults' = faults + 1
  /\ struck' = struck \cup hit

NoFault == UNCHANGED <<faults, struck>>

-----------------------------------------------------------------------------
StreamInit ==
  /\ head = 0
  /\ table \in [Events -> Tables]
  /\ offset = [c \in Consumers |-> 0]
  /\ cursor = [c \in Consumers |-> 0]
  /\ loop = [l \in Loops |-> NotRunning]
  /\ counted = [c \in Consumers |-> [e \in Events |-> 0]]
  /\ struck = {}
  /\ faults = 0

\* appendEvent, alone or inside withOutboxTransaction.
Append ==
  /\ head < MaxEvents
  /\ head' = head + 1
  /\ NoFault
  /\ UNCHANGED <<table, offset, cursor, loop, counted>>

\* start: stop, then one fresh task per consumer.  (The model runs out of task
\* names when too many cancelled tasks are still draining.)
Start(p) ==
  \E fresh \in SUBSET {l \in Loops : LoopProcess[l] = p /\ loop[l].mode = "off"} :
    /\ \A c \in Consumers : Cardinality({l \in fresh : LoopConsumer[l] = c}) = 1
    /\ loop' = [l \in Loops |-> IF l \in fresh THEN Fresh
                                ELSE IF LoopProcess[l] = p THEN Cancelled(loop[l])
                                ELSE loop[l]]
    /\ NoFault
    /\ UNCHANGED <<head, table, offset, cursor, counted>>

Stop(p) ==
  /\ loop' = [l \in Loops |-> IF LoopProcess[l] = p THEN Cancelled(loop[l]) ELSE loop[l]]
  /\ loop' # loop
  /\ NoFault
  /\ UNCHANGED <<head, table, offset, cursor, counted>>

Wake(l) ==
  /\ loop[l].mode = "asleep"
  /\ loop' = [loop EXCEPT ![l].mode = "draining"]
  /\ NoFault
  /\ UNCHANGED <<head, table, offset, cursor, counted>>

\* The start of drainOnce, with the batch it gets.
Fetch(l, batch) ==
  /\ Turn(l) /\ loop[l].upTo = 0
  /\ \/ /\ batch = {}
        /\ loop' = [loop EXCEPT ![l] = CaughtUp(@)]
     \/ \E last \in batch :
          /\ \A e \in batch : e <= last
          /\ loop' = [loop EXCEPT ![l].todo = Takes(LoopConsumer[l], batch), ![l].upTo = last]
  /\ UNCHANGED <<head, table, offset, cursor, counted>>

\* pullSince
Pull(l) == Fetch(l, Batch(LoopConsumer[l])) /\ NoFault

\* A statement of it fails: the offset reads as 0, and the batch ends where the SELECT
\* of the events does, perhaps before its first.
PullFails(l) ==
  /\ \E o \in {0, offset[LoopConsumer[l]]}, n \in 0..PullLimit : Fetch(l, After(o, n))
  /\ Fault({})

\* Slips: the claim drops its guard (last_processed_event_id < id), or claims the
\* whole batch with its first event.
ClaimAlways(l) ==
  \E e \in loop[l].todo :
    /\ NextUp(l, e)
    /\ cursor' = [cursor EXCEPT ![LoopConsumer[l]] = Later(@, e)]
    /\ loop' = [loop EXCEPT ![l].todo = @ \ {e},
                            ![l].owes = IF table[e] \in ActedOn[LoopConsumer[l]] THEN e ELSE 0]
    /\ NoFault
    /\ UNCHANGED <<head, table, offset, counted>>

ClaimWholeBatch(l) ==
  LET c == LoopConsumer[l]
  IN \E e \in loop[l].todo :
       /\ NextUp(l, e)
       /\ cursor' = [cursor EXCEPT ![c] = Later(@, loop[l].upTo)]
       /\ loop' = [loop EXCEPT ![l].todo = @ \ {e},
                               ![l].owes = IF cursor[c] < e /\ table[e] \in ActedOn[c]
                                           THEN e ELSE 0]
       /\ NoFault
       /\ UNCHANGED <<head, table, offset, counted>>

\* claimThrough: the task that moves the cursor owes the bump, if the consumer
\* acts on the event's table.
Claim(l) ==
  LET c == LoopConsumer[l]
  IN \E e \in loop[l].todo :
       /\ NextUp(l, e)
       /\ cursor' = [cursor EXCEPT ![c] = Later(@, e)]
       /\ loop' = [loop EXCEPT ![l].todo = @ \ {e},
                               ![l].owes = IF cursor[c] < e /\ table[e] \in ActedOn[c]
                                           THEN e ELSE 0]
       /\ NoFault
       /\ UNCHANGED <<head, table, offset, counted>>

\* A claim whose statement fails (SQLITE_BUSY from another process) reads as lost.
ClaimFails(l) ==
  \E e \in loop[l].todo :
    /\ NextUp(l, e)
    /\ Fault({<<LoopConsumer[l], e>>})
    /\ loop' = [loop EXCEPT ![l].todo = @ \ {e}]
    /\ UNCHANGED <<head, table, offset, cursor, counted>>

\* recordEvent and the block it queued: the counter row is bumped.
RunBump(l) ==
  /\ loop[l].owes # 0
  /\ counted' = [counted EXCEPT ![LoopConsumer[l]][loop[l].owes] = @ + 1]
  /\ loop' = [loop EXCEPT ![l].owes = 0]
  /\ NoFault
  /\ UNCHANGED <<head, table, offset, cursor>>

\* The block's statement fails: nobody looks at the result.
BumpFails(l) ==
  /\ loop[l].owes # 0
  /\ Fault({<<LoopConsumer[l], loop[l].owes>>})
  /\ loop' = [loop EXCEPT ![l].owes = 0]
  /\ UNCHANGED <<head, table, offset, cursor, counted>>

DrainDone(l) ==
  /\ Handling(l) /\ loop[l].todo = {}
  /\ loop' = [loop EXCEPT ![l].upTo = 0]

\* A slip: the commit stores the batch's last event without the MAX.
CommitAsGiven(l) ==
  /\ DrainDone(l)
  /\ offset' = [offset EXCEPT ![LoopConsumer[l]] = loop[l].upTo]
  /\ NoFault
  /\ UNCHANGED <<head, table, cursor, counted>>

\* commitOffset: MAX(last_processed_event_id, upTo).
Commit(l) ==
  /\ DrainDone(l)
  /\ offset' = [offset EXCEPT ![LoopConsumer[l]] = Later(@, loop[l].upTo)]
  /\ NoFault
  /\ UNCHANGED <<head, table, cursor, counted>>

\* drainOnce ignores a failed commit: the batch is pulled again.
CommitFails(l) ==
  /\ DrainDone(l)
  /\ Fault({})
  /\ UNCHANGED <<head, table, offset, cursor, counted>>

\* A process dies with its tasks and the bumps they owe.
Crash(p) ==
  /\ Fault({<<LoopConsumer[l], loop[l].owes>> :
              l \in {k \in Loops : LoopProcess[k] = p /\ loop[k].owes # 0}})
  /\ loop' = [l \in Loops |-> IF LoopProcess[l] = p THEN NotRunning ELSE loop[l]]
  /\ UNCHANGED <<head, table, offset, cursor, counted>>

Progress(l) == Wake(l) \/ Pull(l) \/ Claim(l) \/ RunBump(l) \/ Commit(l)

StatementFails(l) == PullFails(l) \/ ClaimFails(l) \/ BumpFails(l) \/ CommitFails(l)

StreamNext ==
  \/ Append
  \/ \E l \in Loops : Progress(l) \/ StatementFails(l)
  \/ \E p \in Processes : Start(p) \/ Stop(p) \/ Crash(p)

StreamSpec == StreamInit /\ [][StreamNext]_streamVars

(***************************************************************************)
(* A task that is neither asleep for ever nor dead takes its next step;    *)
(* whoever runs the dispatcher starts it again after a stop or a crash.    *)
(***************************************************************************)
StreamFairness ==
  /\ \A p \in Processes : WF_streamVars(Start(p))
  /\ \A l \in Loops : WF_streamVars(Progress(l))

FairStreamSpec == StreamSpec /\ StreamFairness

-----------------------------------------------------------------------------
(***************************************************************************)
(* Properties                                                              *)
(***************************************************************************)

\* The types; offsets and cursors stay on the stream; a task works on events its
\* pull could see, and one that is not draining has nothing in hand, so a stopped
\* task never leaves a batch half claimed.
StreamTypeOK ==
  /\ head \in 0..MaxEvents
  /\ table \in [Events -> Tables]
  /\ offset \in [Consumers -> 0..MaxEvents] /\ cursor \in [Consumers -> 0..MaxEvents]
  /\ \A c \in Consumers : offset[c] <= head /\ cursor[c] <= head
  /\ loop \in [Loops -> Task]
  /\ \A l \in Loops : /\ loop[l].upTo <= head
                      /\ \A e \in loop[l].todo : e <= loop[l].upTo
                      /\ loop[l].mode # "draining" =>
                           loop[l].todo = {} /\ loop[l].upTo = 0 /\ loop[l].owes = 0
  /\ counted \in [Consumers -> [Events -> Nat]]
  /\ struck \subseteq Consumers \X Events
  /\ faults \in 0..MaxFaults

Owes(l, c, e) == LoopConsumer[l] = c /\ loop[l].owes = e

\* "At most one rollup increment per stream event, ever" (the doc of
\* CompoundLearningAnalyticsStreamConsumer): whatever overlaps, crashes, is pulled
\* again or arrives late, no event is bumped twice or owed by two tasks, or owed
\* when it has been bumped.
AtMostOnce ==
  \A c \in Consumers, e \in Events :
    /\ counted[c][e] <= 1
    /\ \A l \in Loops : Owes(l, c, e) =>
         counted[c][e] = 0 /\ \A k \in Loops : Owes(k, c, e) => k = l

\* The committed offset has passed an event the consumer acts on, and no task has
\* driven or will drive its effect any more.
Missed(c, e) ==
  /\ e <= offset[c] /\ table[e] \in ActedOn[c]
  /\ counted[c][e] = 0 /\ \A l \in Loops : ~Owes(l, c, e)

Lost == {ce \in Watermarked \X Events : Missed(ce[1], ce[2])}

\* The claim comes before the effect, so an effect can be lost, but only one that a
\* fault hit: the one whose claim or bump failed, or whose bump was still owed
\* when the process died.  Overlapping tasks, restarts, redelivered batches and
\* claims that jump ahead cost none.
OnlyStruckAreLost == Lost \subseteq struck

\* A late commit or claim of an overtaken task never rewinds a consumer.
NeverRewinds ==
  [][\A c \in Consumers : offset'[c] >= offset[c] /\ cursor'[c] >= cursor[c]]_streamVars

\* Every event is in the end behind the offset of every consumer, with a
\* dispatcher that keeps being started.
EveryEventPasses ==
  \A c \in Consumers, e \in Events : head >= e ~> offset[c] >= e

\* "Two independent guards compose into exactly-once" (same doc): once a consumer's
\* offset has passed an event it acts on, the effect of that event has been or is
\* being driven.
ExactlyOnce == Lost = {}
=============================================================================

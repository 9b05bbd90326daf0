--------------------------- MODULE WorkQueueProofs ---------------------------
(***************************************************************************)
(* Proofs about WorkQueue for any workers, processes, rows, lease          *)
(* durations and bounds.                                                   *)
(***************************************************************************)
EXTENDS WorkQueue, TLAPS

-----------------------------------------------------------------------------
(***************************************************************************)
(* Facts about the helpers                                                 *)
(***************************************************************************)

\* The floor of a date lies before every `now` a statement can carry.
LEMMA PastType == Past \in Int /\ Past < 0 /\ Past < -MaxLag
BY QueueAssumption DEF Past

\* A date a tick older is an integer, no later, and one tick closer as long as it
\* is not at the floor.
LEMMA OlderFacts ==
  ASSUME NEW x \in Int
  PROVE  /\ Older(x) \in Int /\ Older(x) <= x
         /\ x > Past => Older(x) = x - 1
BY PastType DEF Older

\* What a worker believes is left of a lease is never negative, and never more.
LEMMA AtLeastZeroFacts ==
  ASSUME NEW x \in Int
  PROVE  AtLeastZero(x) \in Nat /\ (AtLeastZero(x) > 0 => AtLeastZero(x) = x)
BY DEF AtLeastZero

\* The row that enqueue, retry, replay and the reaper leave behind.
LEMMA PendingRow ==
  ASSUME NEW n \in Nat, NEW d \in Int
  PROVE  /\ Pending(n, d) \in Row
         /\ Pending(n, d).state = "pending" /\ Pending(n, d).owner = NoOwner
BY PastType DEF Pending, Row, States

\* A row that is claimed or released keeps the shape of a row.
LEMMA RowUpdates ==
  ASSUME NEW r \in Row
  PROVE  /\ r.state \in States /\ r.owner \in Workers \cup {NoOwner}
         /\ r.left \in Int /\ r.retries \in Nat /\ r.delay \in Int
         /\ \A s \in States : [r EXCEPT !.state = s] \in Row
         /\ \A d \in Int : [r EXCEPT !.left = d] \in Row
BY DEF Row

-----------------------------------------------------------------------------
(***************************************************************************)
(* Type correctness                                                        *)
(***************************************************************************)

\* The empty queue is well typed.
LEMMA InitType == Init => TypeOK
<1> SUFFICES ASSUME Init PROVE TypeOK
  OBVIOUS
<1>1. Pending(0, Past) \in Row /\ Pending(0, Past).owner = NoOwner
  BY PendingRow, PastType
<1>2. [Pending(0, Past) EXCEPT !.state = "absent"] \in Row
  BY <1>1 DEF Row, States
<1>3. \A j \in Jobs : row[j].state = "absent" /\ row[j].owner = NoOwner /\ j > lastId
  BY <1>1 DEF Init, Jobs, Row
<1>4. RowsOK
  BY <1>2, <1>3, QueueAssumption DEF Init, RowsOK
<1>5. WorkersOK
  BY DEF Init, WorkersOK, Idle
<1> QED
  BY <1>4, <1>5, QueueAssumption DEF Init, TypeOK, CountsOK

\* One row is replaced by a well-formed one, and exists exactly as before.
LEMMA OneRow ==
  ASSUME RowsOK, NEW j \in Jobs, NEW r \in Row,
         row[j].state # "absent", r.state # "absent",
         r.owner = NoOwner <=> r.state = "pending",
         row' = [row EXCEPT ![j] = r], lastId' = lastId
  PROVE  RowsOK'
BY DEF RowsOK

\* Giving up a row keeps the worker state well typed.
LEMMA LetGoType ==
  ASSUME WorkersOK, NEW w \in Workers, NEW j \in Jobs, LetGo(w, j), UNCHANGED call
  PROVE  WorkersOK'
<1>1. [trust[w] EXCEPT ![j] = 0] \in [Jobs -> Nat]
  BY DEF WorkersOK
<1>2. trust' = [trust EXCEPT ![w] = [trust[w] EXCEPT ![j] = 0]]
  BY DEF LetGo
<1> QED
  BY <1>1, <1>2 DEF WorkersOK, LetGo

\* The UPDATE of lease keeps the types.
LEMMA ClaimType ==
  ASSUME TypeOK, NEW w \in Workers, LeaseClaim(w)
  PROVE  TypeOK'
<1>1. PICK j \in call[w].todo :
        /\ call' = [call EXCEPT ![w] = Without(@, j)]
        /\ IF row[j].state = "pending"
           THEN /\ row' = [row EXCEPT ![j].state = "processing", ![j].owner = w,
                                      ![j].left = call[w].left]
                /\ held' = [held EXCEPT ![w] = @ \cup {j}]
                /\ trust' = [trust EXCEPT ![w][j] = AtLeastZero(call[w].left)]
           ELSE UNCHANGED <<row, held, trust>>
        /\ UNCHANGED <<lastId, effects, faults, replays>>
  BY DEF LeaseClaim
<1>2. call[w] \in [todo : SUBSET Jobs, left : Int]
  BY DEF TypeOK, WorkersOK
<1>3. j \in Jobs /\ call[w].left \in Int
  BY <1>2
<1>4. call' \in [Workers -> [todo : SUBSET Jobs, left : Int]]
  <2>1. Without(call[w], j) \in [todo : SUBSET Jobs, left : Int]
    BY <1>2 DEF Idle, Without
  <2> QED
    BY <1>1, <2>1 DEF TypeOK, WorkersOK
<1>5. CASE row[j].state # "pending"
  BY <1>1, <1>4, <1>5 DEF TypeOK, RowsOK, WorkersOK, CountsOK
<1>6. CASE row[j].state = "pending"
  <2> DEFINE r == [row[j] EXCEPT !.state = "processing", !.owner = w, !.left = call[w].left]
             t == [trust[w] EXCEPT ![j] = AtLeastZero(call[w].left)]
  <2>1. row[j] \in Row
    BY <1>3 DEF TypeOK, RowsOK
  <2>2. r \in Row /\ r.state = "processing" /\ r.owner = w /\ r.owner # NoOwner
    BY <1>3, <2>1, QueueAssumption DEF Row, States
  <2>3. row' = [row EXCEPT ![j] = r] /\ trust' = [trust EXCEPT ![w] = t]
    BY <1>1, <1>6
  <2>4. t \in [Jobs -> Nat]
    <3>1. AtLeastZero(call[w].left) \in Nat
      BY <1>3, AtLeastZeroFacts
    <3> QED
      BY <3>1 DEF TypeOK, WorkersOK
  <2> HIDE DEF r, t
  <2>5. RowsOK'
    BY <1>1, <1>3, <1>6, <2>2, <2>3, OneRow DEF TypeOK
  <2>6. WorkersOK'
    BY <1>1, <1>3, <1>4, <1>6, <2>3, <2>4 DEF TypeOK, WorkersOK
  <2> QED
    BY <1>1, <2>5, <2>6 DEF TypeOK, CountsOK
<1> QED
  BY <1>5, <1>6

\* renewLease keeps the types, whether it extends the lease or is refused.
LEMMA RenewType ==
  ASSUME TypeOK, NEW w \in Workers, NEW j \in Jobs, Renew(w, j)
  PROVE  TypeOK'
<1>1. PICK lag \in 0..MaxLag, ttl \in Ttls :
        IF Owns(w, j) /\ row[j].left > -lag
        THEN /\ row' = [row EXCEPT ![j].left = ttl - lag]
             /\ trust' = [trust EXCEPT ![w][j] = AtLeastZero(ttl - lag)]
             /\ UNCHANGED held
        ELSE LetGo(w, j) /\ UNCHANGED row
  BY DEF Renew
<1>2. ttl - lag \in Int
  BY QueueAssumption
<1>3. UNCHANGED <<lastId, call, effects, faults, replays>>
  BY DEF Renew
<1>4. CASE Owns(w, j) /\ row[j].left > -lag
  <2> DEFINE r == [row[j] EXCEPT !.left = ttl - lag]
             t == [trust[w] EXCEPT ![j] = AtLeastZero(ttl - lag)]
  <2>1. r \in Row /\ r.state = row[j].state /\ r.owner = row[j].owner
    BY <1>2 DEF TypeOK, RowsOK, Row
  <2>2. row' = [row EXCEPT ![j] = r] /\ trust' = [trust EXCEPT ![w] = t]
    BY <1>1, <1>4
  <2>3. row[j].state = "processing" /\ row[j].owner # NoOwner
    BY <1>4, QueueAssumption DEF Owns
  <2>4. t \in [Jobs -> Nat]
    <3>1. AtLeastZero(ttl - lag) \in Nat
      BY <1>2, AtLeastZeroFacts
    <3> QED
      BY <3>1 DEF TypeOK, WorkersOK
  <2> HIDE DEF r, t
  <2>5. RowsOK'
    BY <1>3, <2>1, <2>2, <2>3, OneRow DEF TypeOK
  <2> QED
    BY <1>1, <1>3, <1>4, <2>2, <2>4, <2>5 DEF TypeOK, WorkersOK, CountsOK
<1>5. CASE ~(Owns(w, j) /\ row[j].left > -lag)
  BY <1>1, <1>3, <1>5, LetGoType DEF TypeOK, RowsOK, CountsOK
<1> QED
  BY <1>4, <1>5

\* ack, deadLetter and ackWorkOnCommit keep the types.
LEMMA TerminalType ==
  ASSUME TypeOK, NEW w \in Workers, NEW j \in Jobs,
         NEW state \in Settled, SetTerminal(w, j, state), effects' \in [Jobs -> Nat]
  PROVE  TypeOK'
<1>1. RowsOK'
  <2>1. CASE ~Owns(w, j)
    BY <2>1 DEF TypeOK, SetTerminal, RowsOK
  <2>2. CASE Owns(w, j)
    <3> DEFINE r == [row[j] EXCEPT !.state = state]
    <3>1. r \in Row /\ r.state = state /\ r.owner = w
      BY <2>2 DEF TypeOK, RowsOK, Row, States, Settled, Owns
    <3>2. row' = [row EXCEPT ![j] = r]
      BY <2>2 DEF SetTerminal
    <3>3. row[j].state # "absent" /\ r.state # "absent" /\ r.state # "pending" /\ r.owner # NoOwner
      BY <2>2, <3>1, QueueAssumption DEF Owns, Settled
    <3> HIDE DEF r
    <3> QED
      BY <3>1, <3>2, <3>3, OneRow DEF SetTerminal, TypeOK
  <2> QED
    BY <2>1, <2>2
<1> QED
  BY <1>1, LetGoType DEF SetTerminal, TypeOK, CountsOK

\* retry keeps the types.
LEMMA RetryType ==
  ASSUME TypeOK, NEW w \in Workers, NEW j \in Jobs, Retry(w, j)
  PROVE  TypeOK'
<1>1. RowsOK'
  <2>1. CASE UNCHANGED row
    BY <2>1 DEF TypeOK, RowsOK, Retry
  <2>2. ASSUME Owns(w, j), NEW d \in Delays \cup {-lag : lag \in 0..MaxLag},
               row' = [row EXCEPT ![j] = Pending(@.retries + 1, d)]
        PROVE  RowsOK'
    <3>1. row[j].retries + 1 \in Nat
      BY DEF TypeOK, RowsOK, Row
    <3>0. d \in Int
      BY QueueAssumption
    <3>2. row[j].state # "absent"
      BY <2>2 DEF Owns
    <3> QED
      BY <2>2, <3>0, <3>1, <3>2, PendingRow, OneRow DEF TypeOK, Retry
  <2> QED
    BY <2>1, <2>2 DEF Retry
<1> QED
  BY <1>1, LetGoType DEF Retry, TypeOK, CountsOK

\* The SELECT of lease keeps the types.
LEMMA SelectType ==
  ASSUME TypeOK, NEW w \in Workers, LeaseSelect(w)
  PROVE  TypeOK'
<1>1. PICK kinds \in SUBSET Kinds, lag \in 0..MaxLag, ttl \in Ttls, limit \in Limits :
        call' = [call EXCEPT ![w] =
                   [todo |-> LowestIds(Eligible(kinds, lag), limit), left |-> ttl - lag]]
  BY DEF LeaseSelect
<1>2. LowestIds(Eligible(kinds, lag), limit) \subseteq Jobs
  BY DEF LowestIds, Eligible
<1>3. ttl - lag \in Int
  BY QueueAssumption
<1> QED
  BY <1>1, <1>2, <1>3 DEF LeaseSelect, TypeOK, RowsOK, WorkersOK, CountsOK

\* enqueue keeps the types, and takes the next id.
LEMMA EnqueueType == TypeOK /\ Enqueue => TypeOK'
<1> SUFFICES ASSUME TypeOK, Enqueue PROVE TypeOK'
  OBVIOUS
<1>1. PICK d \in Delays \cup {Past} : row' = [row EXCEPT ![lastId + 1] = Pending(0, d)]
  BY DEF Enqueue
<1>2. d \in Int
  BY PastType, QueueAssumption
<1>3. lastId + 1 \in Jobs /\ lastId' = lastId + 1 /\ lastId' \in 0..MaxJobs
  BY QueueAssumption DEF Enqueue, TypeOK, RowsOK, Jobs
<1>4. RowsOK'
  <2>1. row' \in [Jobs -> Row]
    BY <1>1, <1>2, PendingRow DEF TypeOK, RowsOK
  <2>2. ASSUME NEW j \in Jobs
        PROVE  /\ row'[j].state = "absent" <=> j > lastId'
               /\ row'[j].owner = NoOwner <=> row'[j].state \in {"absent", "pending"}
    <3>1. CASE j = lastId + 1
      BY <1>1, <1>2, <1>3, <3>1, PendingRow DEF TypeOK, RowsOK
    <3>2. CASE j # lastId + 1
      BY <1>1, <1>3, <3>2 DEF TypeOK, RowsOK, Jobs
    <3> QED
      BY <3>1, <3>2
  <2> QED
    BY <1>3, <2>1, <2>2 DEF RowsOK
<1> QED
  BY <1>4 DEF Enqueue, TypeOK, WorkersOK, CountsOK

\* reapExpiredLeases keeps the types, whatever rows it re-pends.
LEMMA ReapType == TypeOK /\ Reap => TypeOK'
<1> SUFFICES ASSUME TypeOK, Reap PROVE TypeOK'
  OBVIOUS
<1>1. PICK lag \in 0..MaxLag :
        row' = [j \in Jobs |-> IF j \in Expired(lag)
                                THEN Pending(row[j].retries, row[j].delay) ELSE row[j]]
  BY DEF Reap
<1>2. ASSUME NEW j \in Jobs
      PROVE  /\ row'[j] \in Row
             /\ row'[j].state = "absent" <=> j > lastId
             /\ row'[j].owner = NoOwner <=> row'[j].state \in {"absent", "pending"}
  <2>1. row[j].retries \in Nat /\ row[j].delay \in Int
    BY DEF TypeOK, RowsOK, Row
  <2>2. CASE j \in Expired(lag)
    <3>1. row[j].state # "absent"
      BY <2>2 DEF Expired
    <3> QED
      BY <1>1, <2>1, <2>2, <3>1, PendingRow DEF TypeOK, RowsOK
  <2>3. CASE j \notin Expired(lag)
    BY <1>1, <2>3 DEF TypeOK, RowsOK
  <2> QED
    BY <2>2, <2>3
<1>3. RowsOK'
  BY <1>1, <1>2 DEF TypeOK, RowsOK, Reap
<1> QED
  BY <1>3 DEF Reap, TypeOK, WorkersOK, CountsOK

\* replay keeps the types.
LEMMA ReplayType ==
  ASSUME TypeOK, NEW j \in Jobs, Replay(j)
  PROVE  TypeOK'
<1>1. RowsOK'
  BY PastType, PendingRow, OneRow DEF Replay, TypeOK
<1>2. replays' \in 0..MaxReplays
  BY QueueAssumption DEF Replay, TypeOK, CountsOK
<1> QED
  BY <1>1, <1>2 DEF Replay, TypeOK, WorkersOK, CountsOK

\* The death of a process keeps the types.
LEMMA CrashType ==
  ASSUME TypeOK, NEW p \in Processes, Crash(p)
  PROVE  TypeOK'
<1>1. faults' \in 0..MaxFaults
  BY QueueAssumption DEF Crash, TypeOK, CountsOK
<1>2. WorkersOK'
  BY DEF Crash, TypeOK, WorkersOK, Idle
<1> QED
  BY <1>1, <1>2 DEF Crash, TypeOK, RowsOK, CountsOK

\* The clock keeps the types.
LEMMA TickType == TypeOK /\ Tick => TypeOK'
<1> SUFFICES ASSUME TypeOK, Tick PROVE TypeOK'
  OBVIOUS
<1>1. ASSUME NEW j \in Jobs
      PROVE  /\ row'[j] \in Row /\ row'[j].state = row[j].state
             /\ row'[j].owner = row[j].owner
  <2>1. row'[j] = [row[j] EXCEPT !.left = Older(row[j].left), !.delay = Older(row[j].delay)]
    BY DEF Tick
  <2>2. Older(row[j].left) \in Int /\ Older(row[j].delay) \in Int
    BY OlderFacts DEF TypeOK, RowsOK, Row
  <2> QED
    BY <2>1, <2>2 DEF TypeOK, RowsOK, Row
<1>2. RowsOK'
  <2>1. row' \in [Jobs -> Row]
    BY <1>1 DEF Tick
  <2> QED
    BY <1>1, <2>1 DEF TypeOK, RowsOK, Tick
<1>3. call' \in [Workers -> [todo : SUBSET Jobs, left : Int]]
  <2>1. ASSUME NEW w \in Workers
        PROVE  call'[w] \in [todo : SUBSET Jobs, left : Int]
    <3>1. call[w] \in [todo : SUBSET Jobs, left : Int] /\ Older(call[w].left) \in Int
      BY OlderFacts DEF TypeOK, WorkersOK
    <3> QED
      BY <3>1 DEF Tick
  <2> QED
    BY <2>1 DEF Tick
<1>4. trust' \in [Workers -> [Jobs -> Nat]]
  <2>1. ASSUME NEW w \in Workers, NEW j \in Jobs
        PROVE  AtLeastZero(trust[w][j] - 1) \in Nat
    <3>1. trust[w][j] - 1 \in Int
      BY DEF TypeOK, WorkersOK
    <3> QED
      BY <3>1, AtLeastZeroFacts
  <2> QED
    BY <2>1 DEF Tick
<1> QED
  BY <1>2, <1>3, <1>4 DEF Tick, TypeOK, WorkersOK, CountsOK

\* Every step keeps the types.
LEMMA StepType == TypeOK /\ [Next]_vars => TypeOK'
<1> SUFFICES ASSUME TypeOK, [Next]_vars PROVE TypeOK'
  OBVIOUS
<1>1. CASE Enqueue
  BY <1>1, EnqueueType
<1>2. ASSUME NEW w \in Workers, WorkerStep(w) PROVE TypeOK'
  <2>1. CASE LeaseSelect(w)
    BY <2>1, SelectType
  <2>2. CASE LeaseClaim(w)
    BY <2>2, ClaimType
  <2>3. ASSUME NEW j \in Jobs, Renew(w, j) PROVE TypeOK'
    BY <2>3, RenewType
  <2>4. ASSUME NEW j \in Jobs, Ack(w, j) PROVE TypeOK'
    BY <2>4, TerminalType DEF Ack, Settled, TypeOK, CountsOK
  <2>5. ASSUME NEW j \in Jobs, DeadLetter(w, j) PROVE TypeOK'
    BY <2>5, TerminalType DEF DeadLetter, Settled, TypeOK, CountsOK
  <2>6. ASSUME NEW j \in Jobs, AckOnCommit(w, j) PROVE TypeOK'
    <3>1. effects' \in [Jobs -> Nat]
      BY <2>6 DEF AckOnCommit, TypeOK, CountsOK
    <3> QED
      BY <2>6, <3>1, TerminalType DEF AckOnCommit, Settled
  <2>7. ASSUME NEW j \in Jobs, StatementFails(w, j) PROVE TypeOK'
    <3>1. faults' \in 0..MaxFaults
      BY <2>7, QueueAssumption DEF StatementFails, TypeOK, CountsOK
    <3> QED
      BY <2>7, <3>1, LetGoType DEF StatementFails, TypeOK, RowsOK, CountsOK
  <2>8. ASSUME NEW j \in Jobs, Retry(w, j) PROVE TypeOK'
    BY <2>8, RetryType
  <2> QED
    BY <1>2, <2>1, <2>2, <2>3, <2>4, <2>5, <2>6, <2>7, <2>8 DEF WorkerStep
<1>3. CASE Reap
  BY <1>3, ReapType
<1>4. ASSUME NEW j \in Jobs, Replay(j) PROVE TypeOK'
  BY <1>4, ReplayType
<1>5. ASSUME NEW p \in Processes, Crash(p) PROVE TypeOK'
  BY <1>5, CrashType
<1>6. CASE Tick
  BY <1>6, TickType
<1>7. CASE UNCHANGED vars
  BY <1>7 DEF vars, TypeOK, RowsOK, WorkersOK, CountsOK
<1> QED
  BY <1>1, <1>2, <1>3, <1>4, <1>5, <1>6, <1>7 DEF Next

\* The table and the workers' memory keep their shape: in particular a row has a
\* lease owner exactly when it is not pending, whatever mix of leases, renewals,
\* retries, acks, reaps, replays and crashes came before.
THEOREM TypeCorrect == Spec => []TypeOK
BY InitType, StepType, PTL DEF Spec

-----------------------------------------------------------------------------
(***************************************************************************)
(* A live lease is never taken from its holder                             *)
(*                                                                         *)
(* LiveLeaseBacked is inductive given the types.  A row leaves the         *)
(* `processing` state by its own worker (which lets go of it in the same   *)
(* step), by the reaper (which asks for an expired lease) or by a replay   *)
(* (hence the condition on what operators replay); a claim asks for a      *)
(* pending row, which no worker has a live lease on.                       *)
(***************************************************************************)

\* What a step that ends with LetGo does to the beliefs of all workers.
LEMMA LetGoBelief ==
  ASSUME TypeOK, NEW v \in Workers, NEW i \in Jobs, LetGo(v, i),
         NEW w \in Workers, NEW j \in Jobs, Trusts(w, j)'
  PROVE  /\ Trusts(w, j) /\ trust'[w][j] = trust[w][j]
         /\ ~(w = v /\ j = i)
BY DEF LetGo, Trusts, TypeOK, WorkersOK

\* A worker that settles, retries or fails on a row lets go of it, and cannot
\* touch a row another worker owns.
LEMMA LetGoBacked ==
  ASSUME TypeOK, LiveLeaseBacked, NEW v \in Workers, NEW i \in Jobs, LetGo(v, i),
         \A j \in Jobs : j # i => row'[j] = row[j],
         ~Owns(v, i) => row' = row
  PROVE  LiveLeaseBacked'
<1> SUFFICES ASSUME NEW w \in Workers, NEW j \in Jobs, Trusts(w, j)'
             PROVE  Owns(w, j)' /\ row'[j].left >= trust'[w][j]
  BY DEF LiveLeaseBacked
<1>1. Trusts(w, j) /\ trust'[w][j] = trust[w][j] /\ ~(w = v /\ j = i)
  BY LetGoBelief
<1>2. Owns(w, j) /\ row[j].left >= trust[w][j]
  BY <1>1 DEF LiveLeaseBacked
<1>3. row'[j] = row[j]
  BY <1>1, <1>2 DEF Owns
<1> QED
  BY <1>1, <1>2, <1>3 DEF Owns

\* A claimed row is leased for as long as its worker believes.
LEMMA ClaimBacked ==
  ASSUME TypeOK, LiveLeaseBacked, NEW v \in Workers, LeaseClaim(v)
  PROVE  LiveLeaseBacked'
<1> SUFFICES ASSUME NEW w \in Workers, NEW j \in Jobs, Trusts(w, j)'
             PROVE  Owns(w, j)' /\ row'[j].left >= trust'[w][j]
  BY DEF LiveLeaseBacked
<1>1. PICK i \in call[v].todo :
        IF row[i].state = "pending"
        THEN /\ row' = [row EXCEPT ![i].state = "processing", ![i].owner = v,
                                   ![i].left = call[v].left]
             /\ held' = [held EXCEPT ![v] = @ \cup {i}]
             /\ trust' = [trust EXCEPT ![v][i] = AtLeastZero(call[v].left)]
        ELSE UNCHANGED <<row, held, trust>>
  BY DEF LeaseClaim
<1>2. i \in Jobs /\ call[v].left \in Int
  BY DEF TypeOK, WorkersOK
<1>3. CASE row[i].state # "pending"
  BY <1>1, <1>3 DEF LiveLeaseBacked, Trusts, Owns
<1>4. CASE row[i].state = "pending" /\ j = i /\ w = v
  <2>1. trust'[w][j] = AtLeastZero(call[v].left)
    BY <1>1, <1>2, <1>4 DEF TypeOK, WorkersOK
  <2>2. trust'[w][j] = call[v].left
    BY <1>2, <2>1, AtLeastZeroFacts DEF Trusts
  <2>3. /\ row'[j].state = "processing" /\ row'[j].owner = w
        /\ row'[j].left = call[v].left
    BY <1>1, <1>2, <1>4 DEF TypeOK, RowsOK, Row
  <2> QED
    BY <1>2, <2>2, <2>3 DEF Owns
<1>5. CASE row[i].state = "pending" /\ ~(j = i /\ w = v)
  <2>1. Trusts(w, j) /\ trust'[w][j] = trust[w][j]
    BY <1>1, <1>2, <1>5 DEF Trusts, TypeOK, WorkersOK
  <2>2. Owns(w, j) /\ row[j].left >= trust[w][j]
    BY <2>1 DEF LiveLeaseBacked
  <2>3. row'[j] = row[j]
    BY <1>1, <1>2, <1>5, <2>2 DEF Owns, TypeOK, RowsOK
  <2> QED
    BY <2>1, <2>2, <2>3 DEF Owns
<1> QED
  BY <1>3, <1>4, <1>5

\* A renewed lease runs as long as its worker believes; a refused one is given up.
LEMMA RenewBacked ==
  ASSUME TypeOK, LiveLeaseBacked, NEW v \in Workers, NEW i \in Jobs, Renew(v, i)
  PROVE  LiveLeaseBacked'
<1>1. PICK lag \in 0..MaxLag, ttl \in Ttls :
        IF Owns(v, i) /\ row[i].left > -lag
        THEN /\ row' = [row EXCEPT ![i].left = ttl - lag]
             /\ trust' = [trust EXCEPT ![v][i] = AtLeastZero(ttl - lag)]
             /\ UNCHANGED held
        ELSE LetGo(v, i) /\ UNCHANGED row
  BY DEF Renew
<1>2. ttl - lag \in Int
  BY QueueAssumption
<1>3. CASE Owns(v, i) /\ row[i].left > -lag
  <2> SUFFICES ASSUME NEW w \in Workers, NEW j \in Jobs, Trusts(w, j)'
               PROVE  Owns(w, j)' /\ row'[j].left >= trust'[w][j]
    BY DEF LiveLeaseBacked
  <2>1. CASE w = v /\ j = i
    <3>1. trust'[w][j] = AtLeastZero(ttl - lag)
      BY <1>1, <1>3, <2>1 DEF TypeOK, WorkersOK
    <3>2. trust'[w][j] = ttl - lag
      BY <1>2, <3>1, AtLeastZeroFacts DEF Trusts
    <3>3. Owns(w, j)' /\ row'[j].left = ttl - lag
      BY <1>1, <1>3, <2>1 DEF TypeOK, RowsOK, Row, Owns
    <3> QED
      BY <1>2, <3>2, <3>3
  <2>2. CASE ~(w = v /\ j = i)
    <3>1. Trusts(w, j) /\ trust'[w][j] = trust[w][j]
      BY <1>1, <1>3, <2>2 DEF Trusts, TypeOK, WorkersOK
    <3>2. Owns(w, j) /\ row[j].left >= trust[w][j]
      BY <3>1 DEF LiveLeaseBacked
    <3>3. row'[j] = row[j]
      BY <1>1, <1>3, <2>2, <3>2 DEF Owns, TypeOK, RowsOK
    <3> QED
      BY <3>1, <3>2, <3>3 DEF Owns
  <2> QED
    BY <2>1, <2>2
<1>4. CASE ~(Owns(v, i) /\ row[i].left > -lag)
  BY <1>1, <1>4, LetGoBacked
<1> QED
  BY <1>3, <1>4

\* The steps of other actors that change rows and leave the workers' memory alone.
LEMMA ReapBacked == TypeOK /\ LiveLeaseBacked /\ Reap => LiveLeaseBacked'
<1> SUFFICES ASSUME TypeOK, LiveLeaseBacked, Reap,
                    NEW w \in Workers, NEW j \in Jobs, Trusts(w, j)'
             PROVE  Owns(w, j)' /\ row'[j].left >= trust'[w][j]
  BY DEF LiveLeaseBacked
<1>1. PICK lag \in 0..MaxLag :
        row' = [k \in Jobs |-> IF k \in Expired(lag)
                                THEN Pending(row[k].retries, row[k].delay) ELSE row[k]]
  BY DEF Reap
<1>2. Trusts(w, j) /\ trust'[w][j] = trust[w][j]
  BY DEF Reap, Trusts
<1>3. Owns(w, j) /\ row[j].left >= trust[w][j]
  BY <1>2 DEF LiveLeaseBacked
<1>4. row[j].left > 0
  BY <1>2, <1>3 DEF Trusts, TypeOK, RowsOK, WorkersOK, Row
<1>5. j \notin Expired(lag)
  BY <1>4, QueueAssumption DEF Expired, TypeOK, RowsOK, Row
<1> QED
  BY <1>1, <1>2, <1>3, <1>5 DEF Owns

\* A belief ages with the lease.
LEMMA TickBacked == TypeOK /\ LiveLeaseBacked /\ Tick => LiveLeaseBacked'
<1> SUFFICES ASSUME TypeOK, LiveLeaseBacked, Tick,
                    NEW w \in Workers, NEW j \in Jobs, Trusts(w, j)'
             PROVE  Owns(w, j)' /\ row'[j].left >= trust'[w][j]
  BY DEF LiveLeaseBacked
<1>1. trust[w][j] \in Nat /\ row[j] \in Row /\ row[j].left \in Int
  BY DEF TypeOK, WorkersOK, RowsOK, Row
<1>2. trust'[w][j] = AtLeastZero(trust[w][j] - 1)
  BY DEF Tick
<1>3. trust'[w][j] = trust[w][j] - 1 /\ trust[w][j] > 1
  BY <1>1, <1>2, AtLeastZeroFacts DEF Trusts
<1>4. Trusts(w, j)
  <2>1. j \in held[w]
    BY DEF Trusts, Tick
  <2> QED
    BY <1>1, <1>3, <2>1 DEF Trusts
<1>5. Owns(w, j) /\ row[j].left >= trust[w][j]
  BY <1>4 DEF LiveLeaseBacked
<1>6. Older(row[j].left) = row[j].left - 1
  BY <1>1, <1>3, <1>5, OlderFacts, PastType
<1>7. /\ row'[j].left = row[j].left - 1
      /\ row'[j].state = row[j].state /\ row'[j].owner = row[j].owner
  BY <1>1, <1>6 DEF Tick, Row
<1> QED
  BY <1>1, <1>3, <1>5, <1>7 DEF Owns

\* A replay takes no lease, as long as operators do not replay a processing row.
LEMMA ReplayBacked ==
  ASSUME TypeOK, LiveLeaseBacked, "processing" \notin ReplayedStates,
         NEW i \in Jobs, Replay(i)
  PROVE  LiveLeaseBacked'
<1> SUFFICES ASSUME NEW w \in Workers, NEW j \in Jobs, Trusts(w, j)'
             PROVE  Owns(w, j)' /\ row'[j].left >= trust'[w][j]
  BY DEF LiveLeaseBacked
<1>1. Trusts(w, j) /\ trust'[w][j] = trust[w][j]
  BY DEF Replay, Trusts
<1>2. Owns(w, j) /\ row[j].left >= trust[w][j]
  BY <1>1 DEF LiveLeaseBacked
<1>3. row'[j] = row[j]
  BY <1>2 DEF Replay, Owns, TypeOK, RowsOK
<1> QED
  BY <1>1, <1>2, <1>3 DEF Owns

\* A new row is nobody's.
LEMMA EnqueueBacked == TypeOK /\ LiveLeaseBacked /\ Enqueue => LiveLeaseBacked'
<1> SUFFICES ASSUME TypeOK, LiveLeaseBacked, Enqueue,
                    NEW w \in Workers, NEW j \in Jobs, Trusts(w, j)'
             PROVE  Owns(w, j)' /\ row'[j].left >= trust'[w][j]
  BY DEF LiveLeaseBacked
<1>1. Trusts(w, j) /\ trust'[w][j] = trust[w][j]
  BY DEF Enqueue, Trusts
<1>2. Owns(w, j) /\ row[j].left >= trust[w][j]
  BY <1>1 DEF LiveLeaseBacked
<1>3. j # lastId + 1
  BY <1>2 DEF Owns, TypeOK, RowsOK, Jobs
<1>4. row'[j] = row[j]
  BY <1>3 DEF Enqueue, TypeOK, RowsOK
<1> QED
  BY <1>1, <1>2, <1>4 DEF Owns

\* A dead process believes nothing.
LEMMA CrashBacked ==
  ASSUME TypeOK, LiveLeaseBacked, NEW p \in Processes, Crash(p)
  PROVE  LiveLeaseBacked'
BY DEF LiveLeaseBacked, Trusts, Owns, Crash

\* Every step keeps beliefs backed.
LEMMA StepBacked ==
  ASSUME TypeOK, LiveLeaseBacked, "processing" \notin ReplayedStates, [Next]_vars
  PROVE  LiveLeaseBacked'
<1>1. CASE Enqueue
  BY <1>1, EnqueueBacked
<1>2. ASSUME NEW w \in Workers, WorkerStep(w) PROVE LiveLeaseBacked'
  <2>1. CASE LeaseSelect(w)
    BY <2>1 DEF LeaseSelect, LiveLeaseBacked, Trusts, Owns
  <2>2. CASE LeaseClaim(w)
    BY <2>2, ClaimBacked
  <2>3. ASSUME NEW j \in Jobs, Renew(w, j) PROVE LiveLeaseBacked'
    BY <2>3, RenewBacked
  <2>4. ASSUME NEW j \in Jobs, NEW s \in Settled, SetTerminal(w, j, s) PROVE LiveLeaseBacked'
    BY <2>4, LetGoBacked DEF SetTerminal, TypeOK, RowsOK
  <2>5. ASSUME NEW j \in Jobs, StatementFails(w, j) PROVE LiveLeaseBacked'
    BY <2>5, LetGoBacked DEF StatementFails
  <2>6. ASSUME NEW j \in Jobs, Retry(w, j) PROVE LiveLeaseBacked'
    <3>1. (~Owns(w, j) => row' = row) /\ LetGo(w, j)
      BY <2>6 DEF Retry
    <3>2. \A i \in Jobs : i # j => row'[i] = row[i]
      BY <2>6 DEF Retry, TypeOK, RowsOK
    <3> QED
      BY <3>1, <3>2, LetGoBacked
  <2> QED
    BY <1>2, <2>1, <2>2, <2>3, <2>4, <2>5, <2>6
    DEF WorkerStep, Ack, AckOnCommit, DeadLetter, Settled
<1>3. CASE Reap
  BY <1>3, ReapBacked
<1>4. ASSUME NEW j \in Jobs, Replay(j) PROVE LiveLeaseBacked'
  BY <1>4, ReplayBacked
<1>5. ASSUME NEW p \in Processes, Crash(p) PROVE LiveLeaseBacked'
  BY <1>5, CrashBacked
<1>6. CASE Tick
  BY <1>6, TickBacked
<1>7. CASE UNCHANGED vars
  BY <1>7 DEF vars, LiveLeaseBacked, Trusts, Owns
<1> QED
  BY <1>1, <1>2, <1>3, <1>4, <1>5, <1>6, <1>7 DEF Next

\* As long as operators leave rows that are being processed alone, a worker inside
\* its lease owns its row: no reap, late statement, crash or other process takes it.
THEOREM LeasesAreSafe ==
  ASSUME "processing" \notin ReplayedStates
  PROVE  Spec => []LiveLeaseBacked
<1>1. Init => LiveLeaseBacked
  BY DEF Init, LiveLeaseBacked, Trusts
<1>2. TypeOK /\ LiveLeaseBacked /\ [Next]_vars => LiveLeaseBacked'
  BY StepBacked
<1> QED
  BY <1>1, <1>2, TypeCorrect, PTL DEF Spec

-----------------------------------------------------------------------------
(***************************************************************************)
(* Expired leases stay expired                                             *)
(***************************************************************************)

NoResurrectionStep ==
  \A j \in Jobs :
    /\ row[j].state = "processing" /\ row[j].left <= -MaxLag
    /\ row'[j].state = "processing"
    => row'[j].left <= row[j].left

\* No step extends a lease that has expired.
LEMMA StepNoResurrection == TypeOK /\ [Next]_vars => NoResurrectionStep
<1> SUFFICES ASSUME TypeOK, [Next]_vars, NEW j \in Jobs,
                    row[j].state = "processing", row[j].left <= -MaxLag,
                    row'[j].state = "processing"
             PROVE  row'[j].left <= row[j].left
  BY DEF NoResurrectionStep
<1>0. row[j] \in Row /\ row[j].left \in Int
  BY DEF TypeOK, RowsOK, Row
<1>1. ASSUME row'[j] = row[j] PROVE row'[j].left <= row[j].left
  BY <1>0, <1>1
<1>2. CASE Enqueue
  <2>1. j # lastId + 1
    BY <1>2 DEF Enqueue, TypeOK, RowsOK, Jobs
  <2> QED
    BY <1>1, <1>2, <2>1 DEF Enqueue, TypeOK, RowsOK
<1>3. ASSUME NEW w \in Workers, WorkerStep(w) PROVE row'[j].left <= row[j].left
  <2>1. CASE LeaseSelect(w)
    BY <1>1, <2>1 DEF LeaseSelect
  <2>2. CASE LeaseClaim(w)
    <3>1. PICK i \in call[w].todo :
            IF row[i].state = "pending"
            THEN row' = [row EXCEPT ![i].state = "processing", ![i].owner = w,
                                    ![i].left = call[w].left]
            ELSE row' = row
      BY <2>2 DEF LeaseClaim
    <3> QED
      BY <1>1, <3>1 DEF TypeOK, RowsOK
  <2>3. ASSUME NEW i \in Jobs, Renew(w, i) PROVE row'[j].left <= row[j].left
    <3>1. PICK lag \in 0..MaxLag, ttl \in Ttls :
            IF Owns(w, i) /\ row[i].left > -lag
            THEN row' = [row EXCEPT ![i].left = ttl - lag]
            ELSE row' = row
      BY <2>3 DEF Renew
    <3>2. i = j => ~(row[i].left > -lag)
      BY <1>0, QueueAssumption
    <3> QED
      BY <1>1, <3>1, <3>2 DEF TypeOK, RowsOK
  <2>4. ASSUME NEW i \in Jobs, NEW s \in Settled, SetTerminal(w, i, s)
        PROVE  row'[j].left <= row[j].left
    BY <1>0, <2>4 DEF SetTerminal, TypeOK, RowsOK, Row
  <2>5. ASSUME NEW i \in Jobs, StatementFails(w, i) PROVE row'[j].left <= row[j].left
    BY <1>1, <2>5 DEF StatementFails
  <2>6. ASSUME NEW i \in Jobs, Retry(w, i) PROVE row'[j].left <= row[j].left
    <3>1. row' = row \/ \E d : row' = [row EXCEPT ![i] = Pending(@.retries + 1, d)]
      BY <2>6 DEF Retry
    <3>2. i = j /\ row' # row => row'[j].state = "pending"
      BY <3>1 DEF TypeOK, RowsOK, Pending
    <3> QED
      BY <1>1, <3>1, <3>2 DEF TypeOK, RowsOK
  <2> QED
    BY <1>3, <2>1, <2>2, <2>3, <2>4, <2>5, <2>6
    DEF WorkerStep, Ack, AckOnCommit, DeadLetter, Settled
<1>4. CASE Reap
  <2>1. row'[j] = row[j] \/ row'[j].state = "pending"
    BY <1>4 DEF Reap, Pending
  <2> QED
    BY <1>1, <2>1
<1>5. ASSUME NEW i \in Jobs, Replay(i) PROVE row'[j].left <= row[j].left
  <2>1. row'[j] = row[j] \/ row'[j].state = "pending"
    BY <1>5 DEF Replay, Pending, TypeOK, RowsOK
  <2> QED
    BY <1>1, <2>1
<1>6. ASSUME NEW p \in Processes, Crash(p) PROVE row'[j].left <= row[j].left
  BY <1>1, <1>6 DEF Crash
<1>7. CASE Tick
  <2>1. row'[j].left = Older(row[j].left)
    BY <1>0, <1>7 DEF Tick, Row
  <2> QED
    BY <1>0, <2>1, OlderFacts
<1>8. CASE UNCHANGED vars
  BY <1>1, <1>8 DEF vars
<1> QED
  BY <1>2, <1>3, <1>4, <1>5, <1>6, <1>7, <1>8 DEF Next

\* renewLease never extends a lease whose expiry is further back than the oldest
\* clock reading a statement can carry, and no other operation does.
THEOREM ExpiredLeasesStayExpired == Spec => NoResurrection
<1>1. TypeOK /\ [Next]_vars =>
        [\A j \in Jobs :
           /\ row[j].state = "processing" /\ row[j].left <= -MaxLag
           /\ row'[j].state = "processing"
           => row'[j].left <= row[j].left]_vars
  BY StepNoResurrection DEF NoResurrectionStep
<1> QED
  BY <1>1, TypeCorrect, PTL DEF Spec, NoResurrection

-----------------------------------------------------------------------------
(***************************************************************************)
(* Back-offs are respected                                                 *)
(*                                                                         *)
(* The UPDATE of lease does not repeat what its SELECT asked for.  Within  *)
(* one process nothing can happen to a selected row in between but a       *)
(* replay, which makes it due: the serial queue runs one call at a time.   *)
(***************************************************************************)

\* All workers run in one process.
OneProcess == \A v, w \in Workers : Home[v] = Home[w]

\* One lease call runs at a time, and what it selected is still pending and due.
SelectedAreDue ==
  /\ \A v, w \in Workers : call[v].todo # {} /\ call[w].todo # {} => v = w
  /\ \A w \in Workers : \A j \in call[w].todo : row[j].state = "pending" /\ row[j].delay <= 0

WakeupStep ==
  \A j \in Jobs :
    row[j].state = "pending" /\ row'[j].state = "processing" => row[j].delay <= 0

\* A step that leaves the selected rows pending and due, and selects no others.
LEMMA StillDue ==
  ASSUME SelectedAreDue, \A w \in Workers : call'[w].todo \subseteq call[w].todo,
         \A w \in Workers : \A j \in call'[w].todo :
           row'[j].state = "pending" /\ (row'[j].delay = row[j].delay \/ row'[j].delay <= 0)
  PROVE  SelectedAreDue'
<1>1. ASSUME NEW v \in Workers, NEW w \in Workers, call'[v].todo # {}, call'[w].todo # {}
      PROVE  v = w
  <2>1. call[v].todo # {} /\ call[w].todo # {}
    BY <1>1
  <2> QED
    BY <2>1 DEF SelectedAreDue
<1>2. ASSUME NEW w \in Workers, NEW j \in call'[w].todo
      PROVE  row'[j].state = "pending" /\ row'[j].delay <= 0
  BY <1>2 DEF SelectedAreDue
<1> QED
  BY <1>1, <1>2 DEF SelectedAreDue

\* No step hands out a row that is not due, and the selected ones stay due.
LEMMA StepWakeup ==
  ASSUME OneProcess, TypeOK, SelectedAreDue, [Next]_vars
  PROVE  SelectedAreDue' /\ WakeupStep
<1>1. /\ \A j \in Jobs : row[j] \in Row
      /\ row \in [Jobs -> Row] /\ call \in [Workers -> [todo : SUBSET Jobs, left : Int]]
      /\ \A w \in Workers : call[w].todo \subseteq Jobs
      /\ \A j \in Jobs : row[j].delay \in Int
  BY DEF TypeOK, RowsOK, WorkersOK, Row
<1>2. ASSUME NEW w \in Workers, QueueFree(Home[w]) PROVE \A v \in Workers : call[v].todo = {}
  BY <1>2 DEF OneProcess, QueueFree
<1>3. \A w \in Workers : \A j \in call[w].todo :
        j \in Jobs /\ row[j].state = "pending" /\ row[j].delay <= 0
  BY <1>1 DEF SelectedAreDue
<1>4. CASE Enqueue
  <2>1. PICK d : row' = [row EXCEPT ![lastId + 1] = Pending(0, d)] /\ call' = call
    BY <1>4 DEF Enqueue
  <2>2. \A j \in Jobs : j # lastId + 1 => row'[j] = row[j]
    BY <1>1, <2>1
  <2>3. lastId + 1 \in Jobs /\ row[lastId + 1].state = "absent"
    BY <1>4, QueueAssumption DEF Enqueue, TypeOK, RowsOK, Jobs
  <2>4. row'[lastId + 1].state = "pending"
    BY <1>1, <2>1, <2>3 DEF Pending
  <2>5. \A w \in Workers : \A j \in call[w].todo : row'[j] = row[j]
    BY <1>3, <2>2, <2>3
  <2>6. SelectedAreDue'
    BY <1>3, <2>1, <2>5, StillDue
  <2>7. WakeupStep
    BY <2>2, <2>4 DEF WakeupStep
  <2> QED
    BY <2>6, <2>7
<1>5. ASSUME NEW w \in Workers, LeaseSelect(w) PROVE SelectedAreDue' /\ WakeupStep
  <2>1. QueueFree(Home[w]) /\ row' = row
    BY <1>5 DEF LeaseSelect
  <2>2. PICK kinds \in SUBSET Kinds, lag \in 0..MaxLag, ttl \in Ttls, limit \in Limits :
          call' = [call EXCEPT ![w] =
                     [todo |-> LowestIds(Eligible(kinds, lag), limit), left |-> ttl - lag]]
    BY <1>5 DEF LeaseSelect
  <2>3. \A v \in Workers : v # w => call'[v].todo = {}
    BY <1>1, <1>2, <2>1, <2>2
  <2>4. call'[w].todo \subseteq Eligible(kinds, lag)
    BY <1>1, <2>2 DEF LowestIds
  <2>5. lag \in Nat
    BY QueueAssumption
  <2>6. \A j \in Eligible(kinds, lag) : row[j].state = "pending" /\ row[j].delay <= 0
    BY <1>1, <2>5 DEF Eligible
  <2> QED
    BY <2>1, <2>3, <2>4, <2>6 DEF SelectedAreDue, WakeupStep
<1>6. ASSUME NEW w \in Workers, LeaseClaim(w) PROVE SelectedAreDue' /\ WakeupStep
  <2>1. PICK j \in call[w].todo :
          /\ call' = [call EXCEPT ![w] = Without(@, j)]
          /\ \/ row' = [row EXCEPT ![j].state = "processing", ![j].owner = w,
                                   ![j].left = call[w].left]
             \/ row' = row
    BY <1>6 DEF LeaseClaim
  <2>2. /\ \A v \in Workers : v # w => call'[v] = call[v]
        /\ call'[w].todo = call[w].todo \ {j}
    <3>1. Without(call[w], j).todo = call[w].todo \ {j}
      BY <1>1 DEF Without, Idle
    <3> QED
      BY <1>1, <2>1, <3>1
  <2>3. \A i \in Jobs : i # j => row'[i] = row[i]
    BY <1>1, <2>1
  <2>4. \A v \in Workers : v # w => call'[v].todo = {}
    <3>1. call[w].todo # {}
      BY <2>1
    <3> QED
      BY <2>2, <3>1 DEF SelectedAreDue
  <2>5. \A v \in Workers : call'[v].todo \subseteq call[v].todo /\ j \notin call'[v].todo
    BY <2>2, <2>4
  <2>6. SelectedAreDue'
    BY <1>3, <2>3, <2>5, StillDue
  <2>7. row[j].delay <= 0
    BY <1>3, <2>1
  <2>8. WakeupStep
    BY <2>3, <2>7 DEF WakeupStep
  <2> QED
    BY <2>6, <2>8
<1>7. ASSUME NEW w \in Workers, NEW i \in Jobs,
             \/ Renew(w, i) \/ Ack(w, i) \/ DeadLetter(w, i) \/ AckOnCommit(w, i)
             \/ StatementFails(w, i) \/ Retry(w, i)
      PROVE  SelectedAreDue' /\ WakeupStep
  <2>1. QueueFree(Home[w]) /\ call' = call
    BY <1>7 DEF Renew, Ack, DeadLetter, AckOnCommit, StatementFails, Retry, SetTerminal, Acts
  <2>2. SelectedAreDue'
    BY <1>2, <2>1 DEF SelectedAreDue
  <2>3. \A j \in Jobs : row'[j].state = "processing" => row[j].state = "processing"
    <3>1. \A j \in Jobs : j # i => row'[j] = row[j]
      BY <1>1, <1>7 DEF Renew, Ack, DeadLetter, AckOnCommit, StatementFails, Retry, SetTerminal
    <3>2. CASE Renew(w, i)
      BY <1>1, <3>1, <3>2 DEF Renew, Owns
    <3>3. ASSUME NEW s \in Settled, SetTerminal(w, i, s)
          PROVE  row'[i].state = s \/ row' = row
      BY <1>1, <3>3 DEF SetTerminal, Row
    <3>4. ASSUME Retry(w, i), row' # row PROVE row'[i].state = "pending"
      <4>1. PICK d : row' = [row EXCEPT ![i] = Pending(@.retries + 1, d)]
        BY <3>4 DEF Retry
      <4> QED
        BY <1>1, <4>1 DEF Pending
    <3>5. CASE StatementFails(w, i)
      BY <3>5 DEF StatementFails
    <3> QED
      BY <1>7, <3>1, <3>2, <3>3, <3>4, <3>5 DEF Ack, DeadLetter, AckOnCommit, Settled
  <2> QED
    BY <2>2, <2>3 DEF WakeupStep
<1>8. CASE Reap
  <2>1. PICK lag \in 0..MaxLag :
          row' = [j \in Jobs |-> IF j \in Expired(lag)
                                 THEN Pending(row[j].retries, row[j].delay) ELSE row[j]]
    BY <1>8 DEF Reap
  <2>2. \A j \in Jobs : row'[j] = row[j] \/ (row[j].state = "processing" /\ row'[j].state = "pending")
    BY <2>1 DEF Expired, Pending
  <2>3. call' = call
    BY <1>8 DEF Reap
  <2>4. \A w \in Workers : \A j \in call[w].todo : row'[j] = row[j]
    BY <1>3, <2>2
  <2>5. SelectedAreDue'
    BY <1>3, <2>3, <2>4, StillDue
  <2> QED
    BY <2>2, <2>5 DEF WakeupStep
<1>9. ASSUME NEW i \in Jobs, Replay(i) PROVE SelectedAreDue' /\ WakeupStep
  <2>1. row' = [row EXCEPT ![i] = Pending(0, Past)] /\ call' = call
    BY <1>9 DEF Replay
  <2>2. \A j \in Jobs : j # i => row'[j] = row[j]
    BY <1>1, <2>1
  <2>3. row'[i].state = "pending" /\ row'[i].delay <= 0
    BY <1>1, <2>1, PastType DEF Pending
  <2>4. SelectedAreDue'
    BY <1>3, <2>1, <2>2, <2>3, StillDue
  <2> QED
    BY <2>2, <2>3, <2>4 DEF WakeupStep
<1>10. ASSUME NEW p \in Processes, Crash(p) PROVE SelectedAreDue' /\ WakeupStep
  <2>1. /\ row' = row
        /\ call' = [w \in Workers |-> IF Home[w] = p THEN Idle ELSE call[w]]
    BY <1>10 DEF Crash
  <2>2. \A w \in Workers : call'[w].todo \subseteq call[w].todo
    BY <2>1 DEF Idle
  <2>3. SelectedAreDue'
    BY <1>3, <2>1, <2>2, StillDue
  <2> QED
    BY <2>1, <2>3 DEF WakeupStep
<1>11. CASE Tick
  <2>1. \A j \in Jobs : row'[j].state = row[j].state /\ row'[j].delay = Older(row[j].delay)
    BY <1>1, <1>11 DEF Tick, Row
  <2>2. \A w \in Workers : call'[w].todo = call[w].todo
    BY <1>1, <1>11 DEF Tick
  <2>3. \A w \in Workers : \A j \in call[w].todo :
          row'[j].state = "pending" /\ row'[j].delay <= 0
    <3> TAKE w \in Workers
    <3> TAKE j \in call[w].todo
    <3>1. row[j].delay \in Int /\ row[j].delay <= 0 /\ j \in Jobs /\ row[j].state = "pending"
      BY <1>1, <1>3
    <3> QED
      BY <2>1, <3>1, OlderFacts
  <2>4. SelectedAreDue'
    BY <2>2, <2>3, StillDue
  <2> QED
    BY <2>1, <2>4 DEF WakeupStep
<1>12. CASE UNCHANGED vars
  BY <1>12 DEF vars, SelectedAreDue, WakeupStep
<1> QED
  BY <1>4, <1>5, <1>6, <1>7, <1>8, <1>9, <1>10, <1>11, <1>12 DEF Next, WorkerStep

\* Within one process lease never hands out a row before its next_wakeup_at, although
\* its UPDATE does not ask for it.
THEOREM BackOffsAreRespected ==
  ASSUME OneProcess
  PROVE  Spec => WakeupRespected
<1>1. Init => SelectedAreDue
  BY DEF Init, Idle, SelectedAreDue
<1>2. TypeOK /\ SelectedAreDue /\ [Next]_vars => SelectedAreDue'
  BY StepWakeup
<1>3. TypeOK /\ SelectedAreDue /\ [Next]_vars =>
        [\A j \in Jobs :
           row[j].state = "pending" /\ row'[j].state = "processing" => row[j].delay <= 0]_vars
  BY StepWakeup DEF WakeupStep
<1> QED
  BY <1>1, <1>2, <1>3, TypeCorrect, PTL DEF Spec, WakeupRespected

-----------------------------------------------------------------------------
(***************************************************************************)
(* The queue implements the ledger                                         *)
(*                                                                         *)
(* Under the mapping of WorkQueue every step is a step of the ledger or    *)
(* leaves it alone: only the row named by a step changes phase, and the    *)
(* effects grow only in the step that moves the row to `done`.             *)
(***************************************************************************)

\* Operators replay dead-letter rows only, as the doc of `replay` has it.
OnlyDeadLetters == ReplayedStates \subseteq {"dead_letter"}

\* A step that changes no phase and no effect is invisible.
LEMMA Invisible ==
  ASSUME \A j \in Jobs : PhaseOf(row'[j].state) = PhaseOf(row[j].state),
         UNCHANGED effects
  PROVE  UNCHANGED Ledger!ledgerVars
BY DEF Ledger!ledgerVars

\* Leasing, releasing and reaping move a row between `pending` and `processing`.
LEMMA StillOpen ==
  ASSUME NEW s, NEW t,
         s = t \/ (s \in {"pending", "processing"} /\ t \in {"pending", "processing"})
  PROVE  PhaseOf(s) = PhaseOf(t)
BY DEF PhaseOf

\* A step that replaces one row moves that row's phase and no other.
LEMMA OnePhase ==
  ASSUME TypeOK, NEW j \in Jobs, NEW s, row'[j].state = s,
         \A i \in Jobs : i # j => row'[i] = row[i]
  PROVE  [i \in Jobs |-> PhaseOf(row'[i].state)] =
         [[i \in Jobs |-> PhaseOf(row[i].state)] EXCEPT ![j] = PhaseOf(s)]
OBVIOUS

\* The empty queue is the empty ledger.
LEMMA LedgerInitial == Init => Ledger!LedgerInit
<1> SUFFICES ASSUME Init PROVE Ledger!LedgerInit
  OBVIOUS
<1>1. \A j \in Jobs : row[j].state = "absent"
  BY DEF Init, Pending
<1> QED
  BY <1>1 DEF Init, Ledger!LedgerInit, PhaseOf

\* Every step of the queue is a step of the ledger or invisible to it.
LEMMA StepLedger ==
  ASSUME TypeOK, OnlyDeadLetters, [Next]_vars
  PROVE  [Ledger!LedgerNext]_(Ledger!ledgerVars)
<1>1. CASE Enqueue
  <2>1. lastId + 1 \in Jobs /\ row[lastId + 1].state = "absent"
    BY <1>1, QueueAssumption DEF Enqueue, TypeOK, RowsOK, Jobs
  <2>2. /\ row'[lastId + 1].state = "pending"
        /\ \A i \in Jobs : i # lastId + 1 => row'[i] = row[i]
    BY <1>1, <2>1 DEF Enqueue, Pending, TypeOK, RowsOK
  <2>3. Ledger!Submit(lastId + 1)
    BY <1>1, <2>1, <2>2, OnePhase DEF Ledger!Submit, Ledger!Move, PhaseOf, Enqueue
  <2> QED
    BY <2>1, <2>3 DEF Ledger!LedgerNext
<1>2. ASSUME NEW w \in Workers, WorkerStep(w) PROVE [Ledger!LedgerNext]_(Ledger!ledgerVars)
  <2>1. CASE LeaseSelect(w)
    BY <2>1, Invisible DEF LeaseSelect
  <2>2. CASE LeaseClaim(w)
    <3>1. PICK i \in call[w].todo :
            IF row[i].state = "pending"
            THEN row' = [row EXCEPT ![i].state = "processing", ![i].owner = w,
                                    ![i].left = call[w].left]
            ELSE row' = row
      BY <2>2 DEF LeaseClaim
    <3>3. ASSUME NEW j \in Jobs
          PROVE  \/ row'[j].state = row[j].state
                 \/ row'[j].state = "processing" /\ row[j].state = "pending"
      BY <3>1 DEF TypeOK, RowsOK, Row
    <3>2. \A j \in Jobs : PhaseOf(row'[j].state) = PhaseOf(row[j].state)
      BY <3>3, StillOpen
    <3> QED
      BY <2>2, <3>2, Invisible DEF LeaseClaim
  <2>3. ASSUME NEW i \in Jobs, Renew(w, i) PROVE [Ledger!LedgerNext]_(Ledger!ledgerVars)
    <3>1. \A j \in Jobs : row'[j].state = row[j].state
      BY <2>3 DEF Renew, TypeOK, RowsOK, Row
    <3> QED
      BY <2>3, <3>1, Invisible DEF Renew
  <2>4. ASSUME NEW j \in Jobs, NEW s \in Settled, SetTerminal(w, j, s),
               \/ UNCHANGED effects
               \/ s = "succeeded" /\ Owns(w, j) /\ effects' = [effects EXCEPT ![j] = @ + 1]
        PROVE  [Ledger!LedgerNext]_(Ledger!ledgerVars)
    <3>1. CASE ~Owns(w, j)
      BY <2>4, <3>1, Invisible DEF SetTerminal
    <3>2. CASE Owns(w, j)
      <4>1. /\ row'[j].state = s
            /\ \A i \in Jobs : i # j => row'[i] = row[i]
        BY <2>4, <3>2 DEF SetTerminal, TypeOK, RowsOK, Row
      <4>2. row[j].state = "processing"
        BY <3>2 DEF Owns
      <4>3. CASE s = "succeeded"
        BY <2>4, <4>1, <4>2, <4>3, OnePhase
        DEF Ledger!LedgerNext, Ledger!Complete, Ledger!Move, PhaseOf
      <4>4. CASE s = "dead_letter"
        BY <2>4, <4>1, <4>2, <4>4, OnePhase
        DEF Ledger!LedgerNext, Ledger!Bury, Ledger!Move, PhaseOf
      <4> QED
        BY <4>3, <4>4 DEF Settled
    <3> QED
      BY <3>1, <3>2
  <2>5. ASSUME NEW i \in Jobs, StatementFails(w, i) PROVE [Ledger!LedgerNext]_(Ledger!ledgerVars)
    BY <2>5, Invisible DEF StatementFails
  <2>6. ASSUME NEW i \in Jobs, Retry(w, i) PROVE [Ledger!LedgerNext]_(Ledger!ledgerVars)
    <3>2. ASSUME NEW j \in Jobs
          PROVE  \/ row'[j].state = row[j].state
                 \/ row'[j].state = "pending" /\ row[j].state = "processing"
      BY <2>6 DEF Retry, Owns, Pending, TypeOK, RowsOK
    <3>1. \A j \in Jobs : PhaseOf(row'[j].state) = PhaseOf(row[j].state)
      BY <3>2, StillOpen
    <3> QED
      BY <2>6, <3>1, Invisible DEF Retry
  <2> QED
    BY <1>2, <2>1, <2>2, <2>3, <2>4, <2>5, <2>6
    DEF WorkerStep, Ack, AckOnCommit, DeadLetter, Settled
<1>3. CASE Reap
  <2>2. ASSUME NEW j \in Jobs
        PROVE  \/ row'[j].state = row[j].state
               \/ row'[j].state = "pending" /\ row[j].state = "processing"
    BY <1>3 DEF Reap, Expired, Pending
  <2>1. \A j \in Jobs : PhaseOf(row'[j].state) = PhaseOf(row[j].state)
    BY <2>2, StillOpen
  <2> QED
    BY <1>3, <2>1, Invisible DEF Reap
<1>4. ASSUME NEW j \in Jobs, Replay(j) PROVE [Ledger!LedgerNext]_(Ledger!ledgerVars)
  <2>1. row[j].state = "dead_letter"
    BY <1>4 DEF Replay, OnlyDeadLetters
  <2>2. /\ row'[j].state = "pending"
        /\ \A i \in Jobs : i # j => row'[i] = row[i]
    BY <1>4 DEF Replay, Pending, TypeOK, RowsOK
  <2>3. Ledger!Reopen(j)
    BY <1>4, <2>1, <2>2, OnePhase DEF Ledger!Reopen, Ledger!Move, PhaseOf, Replay
  <2> QED
    BY <2>3 DEF Ledger!LedgerNext
<1>5. ASSUME NEW p \in Processes, Crash(p) PROVE [Ledger!LedgerNext]_(Ledger!ledgerVars)
  BY <1>5, Invisible DEF Crash
<1>6. CASE Tick
  <2>1. \A j \in Jobs : row'[j].state = row[j].state
    BY <1>6 DEF Tick, TypeOK, RowsOK, Row
  <2> QED
    BY <1>6, <2>1, Invisible DEF Tick
<1>7. CASE UNCHANGED vars
  BY <1>7, Invisible DEF vars
<1> QED
  BY <1>1, <1>2, <1>3, <1>4, <1>5, <1>6, <1>7 DEF Next

\* With replays confined to dead-letter rows the queue is a ledger: a job is
\* completed once, and its effect is persisted by that step alone.
THEOREM QueueImplementsLedger ==
  ASSUME OnlyDeadLetters
  PROVE  Spec => ImplementsLedger
<1>1. TypeOK /\ [Next]_vars => [Ledger!LedgerNext]_(Ledger!ledgerVars)
  BY StepLedger
<1> QED
  BY <1>1, LedgerInitial, TypeCorrect, PTL DEF Spec, ImplementsLedger, Ledger!LedgerSpec

\* A ledger step keeps every effect attached to a row that is done: `done` is
\* never left, and the effect is added by the step that reaches it.
EffectsAreDone ==
  \A j \in Jobs : effects[j] = 0 \/ (effects[j] = 1 /\ row[j].state = "succeeded")

\* A job is done in the ledger exactly when its row is succeeded.
LEMMA PhaseDone ==
  ASSUME NEW s \in States
  PROVE  /\ PhaseOf(s) = "done" <=> s = "succeeded"
BY DEF PhaseOf, States

\* No step persists the effect of a job that has one.
LEMMA StepEffects ==
  ASSUME TypeOK, TypeOK', EffectsAreDone, [Ledger!LedgerNext]_(Ledger!ledgerVars)
  PROVE  EffectsAreDone'
<1> DEFINE phase == [j \in Jobs |-> PhaseOf(row[j].state)]
<1>1. /\ \A j \in Jobs : phase[j] = "done" <=> row[j].state = "succeeded"
      /\ \A j \in Jobs : phase'[j] = "done" <=> row'[j].state = "succeeded"
  BY PhaseDone DEF TypeOK, RowsOK, Row
<1>2. effects \in [Jobs -> Nat]
  BY DEF TypeOK, CountsOK
<1>3. CASE UNCHANGED Ledger!ledgerVars
  <2>1. phase' = phase /\ effects' = effects
    BY <1>3 DEF Ledger!ledgerVars
  <2> HIDE DEF phase
  <2> QED
    BY <1>1, <2>1 DEF EffectsAreDone
<1>4. ASSUME NEW j \in Jobs, Ledger!Submit(j) \/ Ledger!Bury(j) \/ Ledger!Reopen(j)
      PROVE  EffectsAreDone'
  <2>1. /\ phase[j] # "done" /\ effects' = effects
        /\ \E to : phase' = [phase EXCEPT ![j] = to]
    BY <1>4 DEF Ledger!Submit, Ledger!Bury, Ledger!Reopen, Ledger!Move
  <2>2. \A i \in Jobs : phase[i] = "done" => phase'[i] = "done"
    BY <2>1
  <2> HIDE DEF phase
  <2> QED
    BY <1>1, <2>1, <2>2 DEF EffectsAreDone
<1>5. ASSUME NEW j \in Jobs, Ledger!Complete(j) PROVE EffectsAreDone'
  <2>1. /\ phase[j] # "done" /\ phase' = [phase EXCEPT ![j] = "done"]
        /\ effects' \in {effects, [effects EXCEPT ![j] = @ + 1]}
    BY <1>5 DEF Ledger!Complete, Ledger!Move
  <2>2. /\ phase'[j] = "done"
        /\ \A i \in Jobs : phase[i] = "done" => phase'[i] = "done"
    BY <2>1
  <2> HIDE DEF phase
  <2>3. effects[j] = 0
    BY <1>1, <2>1 DEF EffectsAreDone
  <2> QED
    BY <1>1, <1>2, <2>1, <2>2, <2>3 DEF EffectsAreDone
<1> QED
  BY <1>3, <1>4, <1>5 DEF Ledger!LedgerNext

\* ackWorkOnCommit's promise: whatever expires, crashes, is retried or is replayed
\* from the dead letters, the effect of a row is persisted at most once.
THEOREM EffectsHappenOnce ==
  ASSUME OnlyDeadLetters
  PROVE  Spec => []EffectAtMostOnce
<1>1. Init => EffectsAreDone
  BY DEF Init, EffectsAreDone
<1>2. TypeOK /\ TypeOK' /\ EffectsAreDone /\ [Next]_vars => EffectsAreDone'
  BY StepLedger, StepEffects
<1>3. EffectsAreDone => EffectAtMostOnce
  BY DEF EffectsAreDone, EffectAtMostOnce
<1> QED
  BY <1>1, <1>2, <1>3, TypeCorrect, PTL DEF Spec
=============================================================================

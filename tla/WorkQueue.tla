------------------------------ MODULE WorkQueue ------------------------------
(***************************************************************************)
(* The durable per-session work queue: SessionWorkQueueStore, the          *)
(* ackWorkOnCommit transaction of SessionDatabase+WorkBusAPI, and the      *)
(* workers that lease from it.                                             *)
(*                                                                         *)
(* Every operation runs on the serial dispatch queue of its own process,   *)
(* and several processes (app, MCP server, CLI) open the same database     *)
(* file.  A single UPDATE or a BEGIN IMMEDIATE transaction is therefore    *)
(* one step; `lease`, a SELECT followed by one UPDATE per selected row     *)
(* with no transaction around them, is one step per statement, during      *)
(* which the other callers of the same process wait.                       *)
(*                                                                         *)
(* A date is kept as its distance from the clock: `left` is                *)
(* lease_expires_at - now and `delay` is next_wakeup_at - now.  A caller   *)
(* reads the clock before it waits for the serial queue, so the `now` of a *)
(* statement may be up to MaxLag old; a date further in the past than that *)
(* (the epoch, a NULL) is kept at Past.                                    *)
(***************************************************************************)
EXTENDS Integers, FiniteSets

CONSTANTS
  Workers,         \* the owner strings; a worker is known by its owner string
  Processes,       \* processes that opened the database file
  Home,            \* the process each worker runs in
  NoOwner,         \* lease_owner IS NULL
  MaxJobs,         \* bound: rows ever inserted
  Kinds, KindOf,   \* kinds of work and the kind each row is enqueued with
  Ttls,            \* lease durations callers ask for
  Delays,          \* wake-up delays callers ask for
  Limits,          \* the LIMITs callers lease with
  MaxLag,          \* oldest `now` a statement can carry
  MaxRetries,      \* bound: retry_count
  MaxFaults,       \* bound: process crashes and failed statements
  MaxReplays,      \* bound: operator replays
  ReplayedStates   \* the states of the rows operators replay

Jobs == 1..MaxJobs

ASSUME QueueAssumption ==
  /\ MaxJobs \in Nat \ {0}
  /\ MaxLag \in Nat /\ MaxRetries \in Nat
  /\ MaxFaults \in Nat /\ MaxReplays \in Nat
  /\ NoOwner \notin Workers
  /\ Home \in [Workers -> Processes]
  /\ KindOf \in [Jobs -> Kinds]
  /\ Ttls \subseteq Nat \ {0}
  /\ Delays \subseteq Nat
  /\ Limits \subseteq Nat \ {0}

VARIABLES
  row,      \* session_work_queue, by row id
  lastId,   \* the AUTOINCREMENT counter
  call,     \* per worker: the rows its running `lease` call has yet to claim
  held,     \* per worker: the rows it was handed and has not let go of
  trust,    \* per worker and row: what the worker believes is left of the lease
  effects,  \* per row: effects committed by ackWorkOnCommit (history)
  faults, replays

vars == <<row, lastId, call, held, trust, effects, faults, replays>>

-----------------------------------------------------------------------------
Past == -MaxLag - 1

States == {"absent", "pending", "processing", "succeeded", "dead_letter"}
Row == [state : States, owner : Workers \cup {NoOwner}, left : Int,
        retries : Nat, delay : Int]
Idle == [todo |-> {}, left |-> 0]

\* Rows of the two states a settled job rests in.
Settled == {"succeeded", "dead_letter"}

Older(x) == IF x > Past THEN x - 1 ELSE x
AtLeastZero(x) == IF x > 0 THEN x ELSE 0

Pending(retries, delay) ==
  [state |-> "pending", owner |-> NoOwner, left |-> Past,
   retries |-> retries, delay |-> delay]

\* The serial queue of process p is not inside a `lease` call.
QueueFree(p) == \A w \in Workers : Home[w] = p => call[w].todo = {}

\* WHERE id = ? AND lease_owner = ? AND state = 'processing'
Owns(w, j) == row[j].state = "processing" /\ row[j].owner = w

\* Worker w is about to act, through its process's queue, on a row it holds.
Acts(w, j) == j \in held[w] /\ QueueFree(Home[w])

LetGo(w, j) ==
  /\ held' = [held EXCEPT ![w] = @ \ {j}]
  /\ trust' = [trust EXCEPT ![w][j] = 0]

-----------------------------------------------------------------------------
Init ==
  /\ row = [j \in Jobs |-> [Pending(0, Past) EXCEPT !.state = "absent"]]
  /\ lastId = 0
  /\ call = [w \in Workers |-> Idle]
  /\ held = [w \in Workers |-> {}]
  /\ trust = [w \in Workers |-> [j \in Jobs |-> 0]]
  /\ effects = [j \in Jobs |-> 0]
  /\ faults = 0
  /\ replays = 0

\* enqueue and OutboxTransaction.enqueueWork: available at once unless the
\* caller names a wake-up.
Enqueue ==
  /\ \E p \in Processes : QueueFree(p)
  /\ lastId < MaxJobs
  /\ lastId' = lastId + 1
  /\ \E d \in Delays \cup {Past} : row' = [row EXCEPT ![lastId + 1] = Pending(0, d)]
  /\ UNCHANGED <<call, held, trust, effects, faults, replays>>

\* A slip: the SELECT forgets next_wakeup_at.
EligibleAnyTime(kinds, lag) ==
  {j \in Jobs : row[j].state = "pending" /\ (kinds = {} \/ KindOf[j] \in kinds)}

\* SELECT ... WHERE state = 'pending' AND next_wakeup_at <= now, with `kinds`
\* empty for no kind filter.
Eligible(kinds, lag) ==
  {j \in Jobs : /\ row[j].state = "pending"
                /\ row[j].delay <= -lag
                /\ kinds = {} \/ KindOf[j] \in kinds}

\* ORDER BY id ASC LIMIT limit
LowestIds(S, limit) == {j \in S : Cardinality({i \in S : i < j}) < limit}

\* The SELECT of a `lease` call.
LeaseSelect(w) ==
  /\ QueueFree(Home[w])
  /\ \E kinds \in SUBSET Kinds, lag \in 0..MaxLag, ttl \in Ttls, limit \in Limits :
       /\ Eligible(kinds, lag) # {}
       /\ call' = [call EXCEPT ![w] =
                     [todo |-> LowestIds(Eligible(kinds, lag), limit), left |-> ttl - lag]]
  /\ UNCHANGED <<row, lastId, held, trust, effects, faults, replays>>

Without(c, j) == IF c.todo = {j} THEN Idle ELSE [c EXCEPT !.todo = @ \ {j}]

\* The UPDATE of a `lease` call for the next selected row; a row that is no
\* longer pending is skipped.
LeaseClaim(w) ==
  \E j \in call[w].todo :
    /\ \A i \in call[w].todo : j <= i
    /\ call' = [call EXCEPT ![w] = Without(@, j)]
    /\ IF row[j].state = "pending"
       THEN /\ row' = [row EXCEPT ![j].state = "processing", ![j].owner = w,
                                  ![j].left = call[w].left]
            /\ held' = [held EXCEPT ![w] = @ \cup {j}]
            /\ trust' = [trust EXCEPT ![w][j] = AtLeastZero(call[w].left)]
       ELSE UNCHANGED <<row, held, trust>>
    /\ UNCHANGED <<lastId, effects, faults, replays>>

\* A slip: the renewal forgets its fence, lease_expires_at > now.
RenewUnfenced(w, j) ==
  /\ Acts(w, j)
  /\ Owns(w, j)
  /\ \E lag \in 0..MaxLag, ttl \in Ttls :
       /\ row' = [row EXCEPT ![j].left = ttl - lag]
       /\ trust' = [trust EXCEPT ![w][j] = AtLeastZero(ttl - lag)]
  /\ UNCHANGED <<lastId, call, held, effects, faults, replays>>

\* renewLease and heartbeat.  A worker told .expired or .notHeld gives up.
Renew(w, j) ==
  /\ Acts(w, j)
  /\ \E lag \in 0..MaxLag, ttl \in Ttls :
       IF Owns(w, j) /\ row[j].left > -lag
       THEN /\ row' = [row EXCEPT ![j].left = ttl - lag]
            /\ trust' = [trust EXCEPT ![w][j] = AtLeastZero(ttl - lag)]
            /\ UNCHANGED held
       ELSE /\ LetGo(w, j)
            /\ UNCHANGED row
  /\ UNCHANGED <<lastId, call, effects, faults, replays>>

\* updateTerminal (ack, deadLetter): owner and state are checked, the expiry is
\* not, and the lease columns stay.
SetTerminal(w, j, state) ==
  /\ Acts(w, j)
  /\ row' = IF Owns(w, j) THEN [row EXCEPT ![j].state = state] ELSE row
  /\ LetGo(w, j)
  /\ UNCHANGED <<lastId, call, faults, replays>>

Ack(w, j) == SetTerminal(w, j, "succeeded") /\ UNCHANGED effects

DeadLetter(w, j) == SetTerminal(w, j, "dead_letter") /\ UNCHANGED effects

\* A slip: the effect is not rolled back when the lease is lost.
AckOnCommitKeepsEffect(w, j) ==
  /\ SetTerminal(w, j, "succeeded")
  /\ effects' = [effects EXCEPT ![j] = @ + 1]

\* ackWorkOnCommit: the work's effect and the ack commit together; when the ack
\* matches no row the effect is rolled back with it.
AckOnCommit(w, j) ==
  /\ SetTerminal(w, j, "succeeded")
  /\ effects' = IF Owns(w, j) THEN [effects EXCEPT ![j] = @ + 1] ELSE effects

\* The work throws, BEGIN or COMMIT fails, or a statement finds the database
\* busy: nothing is written, and the worker gives up on the row.
StatementFails(w, j) ==
  /\ Acts(w, j)
  /\ faults < MaxFaults
  /\ faults' = faults + 1
  /\ LetGo(w, j)
  /\ UNCHANGED <<row, lastId, call, effects, replays>>

\* retry: back to pending with retry_count + 1, due at once or after a delay.
Retry(w, j) ==
  /\ Acts(w, j)
  /\ \/ /\ Owns(w, j)
        /\ row[j].retries < MaxRetries
        /\ \E d \in Delays \cup {-lag : lag \in 0..MaxLag} :
             row' = [row EXCEPT ![j] = Pending(@.retries + 1, d)]
     \/ /\ ~Owns(w, j)
        /\ UNCHANGED row
  /\ LetGo(w, j)
  /\ UNCHANGED <<lastId, call, effects, faults, replays>>

\* Slips: a reader's clock taken the wrong way, and a reaper that looks for leases
\* that expire at this very moment.
ExpiredEarly(lag) == {j \in Jobs : row[j].state = "processing" /\ row[j].left <= lag}
ExpiredJustNow(lag) == {j \in Jobs : row[j].state = "processing" /\ row[j].left = -lag}

Expired(lag) == {j \in Jobs : row[j].state = "processing" /\ row[j].left <= -lag}

\* A slip: the reaper leaves lease_owner in place.
ReapKeepsOwner ==
  /\ \E p \in Processes : QueueFree(p)
  /\ \E lag \in 0..MaxLag :
       /\ Expired(lag) # {}
       /\ row' = [j \in Jobs |-> IF j \in Expired(lag)
                                 THEN [row[j] EXCEPT !.state = "pending"] ELSE row[j]]
  /\ UNCHANGED <<lastId, call, held, trust, effects, faults, replays>>

\* reapExpiredLeases: retry_count and next_wakeup_at are left alone.
Reap ==
  /\ \E p \in Processes : QueueFree(p)
  /\ \E lag \in 0..MaxLag :
       /\ Expired(lag) # {}
       /\ row' = [j \in Jobs |-> IF j \in Expired(lag)
                                 THEN Pending(row[j].retries, row[j].delay) ELSE row[j]]
  /\ UNCHANGED <<lastId, call, held, trust, effects, faults, replays>>

\* replay: WHERE id = ?, whatever the row's state.
Replay(j) ==
  /\ \E p \in Processes : QueueFree(p)
  /\ row[j].state \in ReplayedStates \ {"absent"}
  /\ replays < MaxReplays
  /\ replays' = replays + 1
  /\ row' = [row EXCEPT ![j] = Pending(0, Past)]
  /\ UNCHANGED <<lastId, call, held, trust, effects, faults>>

\* A process dies: its workers forget what they held, the rows stay as they are.
Crash(p) ==
  /\ faults < MaxFaults
  /\ \E w \in Workers : Home[w] = p /\ (held[w] # {} \/ call[w].todo # {})
  /\ faults' = faults + 1
  /\ call' = [w \in Workers |-> IF Home[w] = p THEN Idle ELSE call[w]]
  /\ held' = [w \in Workers |-> IF Home[w] = p THEN {} ELSE held[w]]
  /\ trust' = [w \in Workers |-> IF Home[w] = p THEN [j \in Jobs |-> 0] ELSE trust[w]]
  /\ UNCHANGED <<row, lastId, effects, replays>>

\* One tick of the clock.
Tick ==
  /\ row' = [j \in Jobs |-> [row[j] EXCEPT !.left = Older(@), !.delay = Older(@)]]
  /\ call' = [w \in Workers |->
                IF call[w].todo = {} THEN call[w] ELSE [call[w] EXCEPT !.left = Older(@)]]
  /\ trust' = [w \in Workers |-> [j \in Jobs |-> AtLeastZero(trust[w][j] - 1)]]
  /\ UNCHANGED <<lastId, held, effects, faults, replays>>

WorkerStep(w) ==
  \/ LeaseSelect(w)
  \/ LeaseClaim(w)
  \/ \E j \in Jobs : \/ Renew(w, j)
                     \/ Ack(w, j)
                     \/ DeadLetter(w, j)
                     \/ AckOnCommit(w, j)
                     \/ StatementFails(w, j)
                     \/ Retry(w, j)

Next ==
  \/ Enqueue
  \/ \E w \in Workers : WorkerStep(w)
  \/ Reap
  \/ \E j \in Jobs : Replay(j)
  \/ \E p \in Processes : Crash(p)
  \/ Tick

Spec == Init /\ [][Next]_vars

\* A worker that still owns the row settles it.
SettleOwned(j) ==
  \E w \in Workers : Owns(w, j) /\ (Ack(w, j) \/ AckOnCommit(w, j) \/ DeadLetter(w, j))

(***************************************************************************)
(* Time passes; the owner of the store schedules the reaper; idle workers  *)
(* poll; a statement of a running call is executed.  The work on a row     *)
(* that is leased again and again is at some point finished, or renewed,   *)
(* within its lease: without that a job slower than its lease is leased,   *)
(* reaped and leased again for ever.                                       *)
(***************************************************************************)
Fairness ==
  /\ WF_vars(Tick)
  /\ WF_vars(Reap)
  /\ \A w \in Workers : WF_vars(LeaseSelect(w)) /\ WF_vars(LeaseClaim(w))
  /\ \A j \in Jobs : SF_vars(SettleOwned(j))

FairSpec == Spec /\ Fairness

-----------------------------------------------------------------------------
(***************************************************************************)
(* Properties                                                              *)
(***************************************************************************)

\* The types, and how the columns of a row go together: only the rows up to
\* the AUTOINCREMENT counter exist, and a row has a lease owner exactly when it
\* has been claimed since it was last pending (retry, replay and the reaper
\* all clear lease_owner, the terminal UPDATEs keep it).
RowsOK ==
  /\ row \in [Jobs -> Row]
  /\ lastId \in 0..MaxJobs
  /\ \A j \in Jobs : /\ row[j].state = "absent" <=> j > lastId
                     /\ row[j].owner = NoOwner <=> row[j].state \in {"absent", "pending"}

WorkersOK ==
  /\ call \in [Workers -> [todo : SUBSET Jobs, left : Int]]
  /\ held \in [Workers -> SUBSET Jobs]
  /\ trust \in [Workers -> [Jobs -> Nat]]

CountsOK ==
  /\ effects \in [Jobs -> Nat]
  /\ faults \in 0..MaxFaults
  /\ replays \in 0..MaxReplays

TypeOK == RowsOK /\ WorkersOK /\ CountsOK

\* Worker w has row j in hand and believes its lease still runs.
Trusts(w, j) == j \in held[w] /\ trust[w][j] > 0

\* A worker's belief is backed by the table: while a worker has a lease in hand
\* whose expiry it has not reached, the row is processing, is leased to it, and
\* runs at least that long.  So no reap, crash, late statement or second process
\* takes a live lease away from a worker that keeps an eye on the clock, and two
\* workers never both believe they hold one row.
LiveLeaseBacked ==
  \A w \in Workers, j \in Jobs :
    Trusts(w, j) => Owns(w, j) /\ row[j].left >= trust[w][j]

\* An expired lease is never brought back to life (the "double-delivery fence" of
\* renewLease): once the expiry is further back than the oldest `now` a statement
\* can carry, no step extends the lease; the row has to become pending first.
NoResurrection ==
  [][\A j \in Jobs :
       /\ row[j].state = "processing" /\ row[j].left <= -MaxLag
       /\ row'[j].state = "processing"
       => row'[j].left <= row[j].left]_vars

\* A row is not handed out before its next_wakeup_at (the back-off a retry asked
\* for): the doc of `lease`.
WakeupRespected ==
  [][\A j \in Jobs :
       row[j].state = "pending" /\ row'[j].state = "processing" => row[j].delay <= 0]_vars

\* "Crash after COMMIT leaves the effect done and the row succeeded: never
\* redelivered" (ackWorkOnCommit): one job's effect is persisted at most once.
EffectAtMostOnce == \A j \in Jobs : effects[j] <= 1

\* Every row that was enqueued is in the end acked or dead-lettered, whatever
\* leases were lost to crashes, failed statements and slow workers before.
EveryJobSettles ==
  \A j \in Jobs : row[j].state \in {"pending", "processing"} ~> row[j].state \in Settled

\* The queue implements the ledger: leases, retries, reaps, lost acks and
\* crashes are invisible there.
PhaseOf(state) ==
  CASE state = "absent" -> "absent"
    [] state \in {"pending", "processing"} -> "open"
    [] state = "succeeded" -> "done"
    [] state = "dead_letter" -> "buried"

Ledger == INSTANCE WorkLedger WITH phase <- [j \in Jobs |-> PhaseOf(row[j].state)]

ImplementsLedger == Ledger!LedgerSpec
=============================================================================

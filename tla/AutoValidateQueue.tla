-------------------------- MODULE AutoValidateQueue --------------------------
(***************************************************************************)
(* The actor AutoValidateQueue: file edits are debounced per key (session  *)
(* and path), validations run detached from the actor, at most             *)
(* maxConcurrent at a time.  Each action is one turn of the actor, or a    *)
(* step of a task outside it: a debounce timer that ends, a validation     *)
(* that returns.  A timer that has ended but whose call has not reached    *)
(* the actor ("firing") can no longer be cancelled.                        *)
(*                                                                         *)
(* The configuration of the key's project is read from disk by every call  *)
(* of enqueue, may be another each time, and is kept in one variable of    *)
(* the actor for the projects of all keys.  What an edit has to pass       *)
(* (enabled, exclude paths, extension, categories) is kept as the set of   *)
(* keys a configuration accepts.                                           *)
(*                                                                         *)
(* Edits need not end: the number of an edit that neither waits nor runs   *)
(* and whose debounce task is over is given to a later one.                *)
(***************************************************************************)
EXTENDS Naturals, FiniteSets

CONSTANTS
  Keys,
  NoKey,           \* the key of no debounce task
  Settings,        \* the configurations the projects' files may hold
  MaxEdits         \* bound: edits that matter at a time

Edits == 1..MaxEdits

ASSUME ValidateAssumption ==
  /\ MaxEdits \in Nat
  /\ NoKey \notin Keys
  /\ Settings \subseteq [accepts : SUBSET Keys, maxConcurrent : Nat]

VARIABLES
  config,    \* the configuration the actor loaded last
  owed,      \* per key: the edit accepted last, 0 when its validation has begun (history)
  pending,   \* per key: the edit whose item waits, 0 for none
  timer,     \* per edit: its debounce task and the key that task was given
  work,      \* per edit: its validation
  running    \* the actor's count of validations

validateVars == <<config, owed, pending, timer, work, running>>

-----------------------------------------------------------------------------
Timer == [at : {"sleeping", "firing", "over"}, key : Keys \cup {NoKey}]
Over == [at |-> "over", key |-> NoKey]
WorkStates == {"none", "running"}

\* AutoValidateConfig.default: disabled.
DefaultConfig == [accepts |-> {}, maxConcurrent |-> 2]

ValidateInit ==
  /\ config = DefaultConfig
  /\ owed = [k \in Keys |-> 0]
  /\ pending = [k \in Keys |-> 0]
  /\ timer = [i \in Edits |-> Over]
  /\ work = [i \in Edits |-> "none"]
  /\ running = 0

\* updateConfig
UpdateConfig(s) ==
  /\ config' = s
  /\ UNCHANGED <<owed, pending, timer, work, running>>

\* enqueue of an edit the configuration turns away: the configuration is loaded
\* all the same, and an item of the key that waits goes on waiting.
Skip(k) ==
  /\ \E s \in Settings : k \notin s.accepts /\ config' = s
  /\ UNCHANGED <<owed, pending, timer, work, running>>

\* The debounce task of the item that waits for key k is cancelled, if it can be.
Debounced(k) ==
  [i \in Edits |-> IF i = pending[k] /\ timer[i].at = "sleeping" THEN Over ELSE timer[i]]

\* Number n is free for the next edit.
Unused(n) ==
  /\ timer[n] = Over /\ work[n] = "none"
  /\ \A k \in Keys : n \notin {pending[k], owed[k]}

\* Edit n of key k is accepted, and its debounce task is created.
Accept(k, n) ==
  /\ Unused(n) /\ \A m \in Edits : Unused(m) => n <= m
  /\ owed' = [owed EXCEPT ![k] = n]
  /\ timer' = [Debounced(k) EXCEPT ![n] = [at |-> "sleeping", key |-> k]]
  /\ UNCHANGED <<work, running>>

\* A slip: an edit that finds an item waiting is folded into it.
EnqueueOnce(k) ==
  /\ \E s \in Settings : k \in s.accepts /\ config' = s
  /\ \E n \in Edits :
       /\ Accept(k, n)
       /\ pending' = [pending EXCEPT ![k] = IF @ = 0 THEN n ELSE @]

\* enqueue of an edit that passes.
Enqueue(k) ==
  /\ \E s \in Settings : k \in s.accepts /\ config' = s
  /\ \E n \in Edits :
       /\ Accept(k, n)
       /\ pending' = [pending EXCEPT ![k] = n]

TimerEnds(i) ==
  /\ timer[i].at = "sleeping"
  /\ timer' = [timer EXCEPT ![i].at = "firing"]
  /\ UNCHANGED <<config, owed, pending, work, running>>

\* History: the validations that run now are no longer owed.
Settle ==
  owed' = [k \in Keys |-> IF owed[k] # 0 /\ work'[owed[k]] = "running" THEN 0 ELSE owed[k]]

\* The validation of the item that waits for key k starts, with `before`
\* validations running.
Start(k, before) ==
  /\ running' = before + 1
  /\ pending' = [pending EXCEPT ![k] = 0]

\* startValidation, called by a debounce task: nothing waits any more, or there is
\* no capacity (the item goes back to `pending`), or it starts.
Fire(i) ==
  LET k == timer[i].key
  IN /\ timer[i].at = "firing"
     /\ timer' = [timer EXCEPT ![i] = Over]
     /\ \/ /\ pending[k] = 0 \/ running >= config.maxConcurrent
           /\ UNCHANGED <<pending, work, running>>
        \/ /\ pending[k] # 0 /\ running < config.maxConcurrent
           /\ Start(k, running)
           /\ work' = [work EXCEPT ![pending[k]] = "running"]
     /\ Settle
     /\ UNCHANGED config

\* Slips: a completion that keeps its slot, one that picks nothing up, and one that
\* wants a second free slot.
CompleteKeepsSlot(i) ==
  /\ work[i] = "running"
  /\ work' = [work EXCEPT ![i] = "none"]
  /\ UNCHANGED <<config, owed, pending, timer, running>>

CompleteOnly(i) ==
  /\ work[i] = "running"
  /\ running' = running - 1
  /\ work' = [work EXCEPT ![i] = "none"]
  /\ UNCHANGED <<config, owed, pending, timer>>

CompleteWithSpareSlot(i) ==
  /\ work[i] = "running"
  /\ LET left == running - 1
         free == left + 1 < config.maxConcurrent
         waiting == {k \in Keys : pending[k] # 0}
     IN \/ /\ ~free \/ waiting = {}
           /\ running' = left
           /\ work' = [work EXCEPT ![i] = "none"]
           /\ UNCHANGED pending
        \/ /\ free
           /\ \E k \in waiting :
                /\ Start(k, left)
                /\ work' = [work EXCEPT ![i] = "none", ![pending[k]] = "running"]
  /\ Settle
  /\ UNCHANGED <<config, timer>>

\* validationCompleted: if a slot is free, the first key of `pending` (a dictionary:
\* any key) is started, whatever its debounce task is up to.
Complete(i) ==
  /\ work[i] = "running"
  /\ LET left == running - 1
         free == left < config.maxConcurrent
         waiting == {k \in Keys : pending[k] # 0}
     IN \/ /\ ~free \/ waiting = {}
           /\ running' = left
           /\ work' = [work EXCEPT ![i] = "none"]
           /\ UNCHANGED pending
        \/ /\ free
           /\ \E k \in waiting :
                /\ Start(k, left)
                /\ work' = [work EXCEPT ![i] = "none", ![pending[k]] = "running"]
  /\ Settle
  /\ UNCHANGED <<config, timer>>

ValidateNext ==
  \/ \E s \in Settings : UpdateConfig(s)
  \/ \E k \in Keys : Skip(k) \/ Enqueue(k)
  \/ \E i \in Edits : TimerEnds(i) \/ Fire(i) \/ Complete(i)

ValidateSpec == ValidateInit /\ [][ValidateNext]_validateVars

\* Timers end, tasks reach the actor, validators return or are killed by their
\* timeout (SIGTERM, then SIGKILL).
ValidateFairness ==
  \A i \in Edits : WF_validateVars(TimerEnds(i)) /\ WF_validateVars(Fire(i))
                   /\ WF_validateVars(Complete(i))

FairValidateSpec == ValidateSpec /\ ValidateFairness

-----------------------------------------------------------------------------
(***************************************************************************)
(* Properties                                                              *)
(***************************************************************************)
\* The types; the actor's count is the number of validations in flight, which is
\* below the largest limit of any project.
ValidateTypeOK ==
  /\ config \in Settings \cup {DefaultConfig}
  /\ owed \in [Keys -> 0..MaxEdits] /\ pending \in [Keys -> 0..MaxEdits]
  /\ timer \in [Edits -> Timer] /\ work \in [Edits -> WorkStates]
  /\ \A i \in Edits : timer[i].key = NoKey <=> timer[i].at = "over"
  /\ running = Cardinality({i \in Edits : work[i] = "running"})
  /\ \E s \in Settings \cup {DefaultConfig} : running <= s.maxConcurrent

\* The last accepted edit of a file is never dropped, whatever timers race with it:
\* until its own validation runs it is what waits for the file, and then nothing does.
NewestKept == \A k \in Keys : pending[k] = owed[k]

\* An item that waits is always about to be looked at: a debounce task of its key
\* is still to fire, or a validation is still to complete ("re-queue for pickup
\* when a slot opens").
NeverStranded ==
  \A k \in Keys :
    pending[k] # 0 =>
      running > 0 \/ \E i \in Edits : timer[i].key = k

\* An item that waits is in the end started, or replaced by a newer edit of its file,
\* once the edits of the other files stop.  While they go on no more can be said: every
\* slot that opens may be given to one of theirs (`pending.keys.first` is any key), and
\* an item whose debounce task found no slot then waits for ever.
EveryItemStarts ==
  \A k \in Keys :
    <>[][\A q \in Keys \ {k} : ~Enqueue(q)]_validateVars
      => \A i \in Edits : pending[k] = i ~> pending[k] # i
=============================================================================

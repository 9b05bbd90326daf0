------------------------- MODULE AutoValidateProofs -------------------------
(***************************************************************************)
(* Theorems about AutoValidateQueue, for any keys, any configurations and  *)
(* any number of edits alive at a time, which may go on for ever.          *)
(*                                                                         *)
(* That the newest edit of a key is kept is not inductive: what waits for  *)
(* a key must be unstarted and wait for no other key, or the start of one  *)
(* item could be the start of another's; and its debounce task must be one *)
(* of that key, or a newer edit could cancel the task of another key.      *)
(* That nothing is stranded follows along the same steps, where every      *)
(* limit is positive, as the clamping initializer of AutoValidateConfig    *)
(* makes it.                                                               *)
(***************************************************************************)
EXTENDS AutoValidateQueue, FiniteSetTheorems, TLAPS

\* What waits for a key has not been started, waits for that key alone, and its
\* debounce task, while there is one, was given that key.
OneWaits ==
  \A k \in Keys :
    pending[k] # 0 =>
      /\ work[pending[k]] = "none"
      /\ timer[pending[k]].key \in {k, NoKey}
      /\ \A q \in Keys : pending[q] = pending[k] => q = k

ValidateInvariant == ValidateTypeOK /\ OneWaits /\ NewestKept

\* Every configuration lets at least one validation run.
LimitsArePositive == \A s \in Settings : s.maxConcurrent > 0

InFlight == {i \in Edits : work[i] = "running"}

-----------------------------------------------------------------------------
\* A limit is a number.
LEMMA LimitsAreNumbers ==
  \A s \in Settings \cup {DefaultConfig} : s.maxConcurrent \in Nat
<1>1. DefaultConfig.maxConcurrent = 2
  BY DEF DefaultConfig
<1>2. \A s \in Settings : s.maxConcurrent \in Nat
  BY ValidateAssumption
<1> QED BY <1>1, <1>2

\* What the types say, with the count of validations as a finite set's.
LEMMA TypeFacts ==
  ASSUME ValidateTypeOK
  PROVE  /\ Edits \subseteq Nat \ {0} /\ NoKey \notin Keys
         /\ pending \in [Keys -> {0} \cup Edits] /\ owed \in [Keys -> {0} \cup Edits]
         /\ 0..MaxEdits = {0} \cup Edits
         /\ timer \in [Edits -> Timer] /\ work \in [Edits -> WorkStates]
         /\ IsFiniteSet(Edits) /\ IsFiniteSet(InFlight) /\ running = Cardinality(InFlight)
         /\ running \in Nat /\ config.maxConcurrent \in Nat
<1>1. /\ MaxEdits \in Nat /\ Edits = 1..MaxEdits /\ NoKey \notin Keys
      /\ 0..MaxEdits = {0} \cup Edits /\ Edits \subseteq Nat \ {0}
  BY ValidateAssumption DEF Edits
<1>2. IsFiniteSet(Edits) /\ IsFiniteSet(InFlight)
  BY <1>1, FS_Interval, FS_Subset DEF InFlight
<1>3. running = Cardinality(InFlight) /\ running \in Nat
  BY <1>2, FS_CardinalityType DEF ValidateTypeOK, InFlight
<1>4. config.maxConcurrent \in Nat
  BY LimitsAreNumbers DEF ValidateTypeOK
<1> QED BY <1>1, <1>2, <1>3, <1>4 DEF ValidateTypeOK

\* The limits of the configurations.
LEMMA WithinSomeLimit ==
  ASSUME ValidateTypeOK, NEW n \in Nat, n <= running \/ n <= config.maxConcurrent
  PROVE  \E s \in Settings \cup {DefaultConfig} : n <= s.maxConcurrent
<1>1. PICK s \in Settings \cup {DefaultConfig} : running <= s.maxConcurrent
  BY DEF ValidateTypeOK
<1>2. s.maxConcurrent \in Nat /\ running \in Nat
  BY LimitsAreNumbers, TypeFacts
<1>3. CASE n <= running
  BY <1>1, <1>2, <1>3
<1>4. CASE n <= config.maxConcurrent
  BY <1>4 DEF ValidateTypeOK
<1> QED BY <1>3, <1>4

\* A validation that starts, one that ends, and one that starts as another ends.
LEMMA InFlightSteps ==
  ASSUME ValidateTypeOK
  PROVE  /\ \A p \in Edits :
              work[p] = "none" /\ work' = [work EXCEPT ![p] = "running"]
              => Cardinality(InFlight') = running + 1
         /\ \A i \in Edits :
              work[i] = "running" /\ work' = [work EXCEPT ![i] = "none"]
              => Cardinality(InFlight') = running - 1 /\ running > 0
         /\ \A i, p \in Edits :
              /\ work[i] = "running" /\ work[p] = "none"
              /\ work' = [work EXCEPT ![i] = "none", ![p] = "running"]
              => Cardinality(InFlight') = running /\ running > 0
<1>1. /\ IsFiniteSet(InFlight) /\ running = Cardinality(InFlight) /\ running \in Nat
      /\ work \in [Edits -> WorkStates]
  BY TypeFacts
<1>2. ASSUME NEW p \in Edits, work[p] = "none", work' = [work EXCEPT ![p] = "running"]
      PROVE  Cardinality(InFlight') = running + 1
  <2>1. InFlight' = InFlight \cup {p} /\ p \notin InFlight
    BY <1>1, <1>2 DEF InFlight
  <2> QED BY <1>1, <2>1, FS_AddElement
<1>3. ASSUME NEW i \in Edits, work[i] = "running"
      PROVE  /\ IsFiniteSet(InFlight \ {i}) /\ Cardinality(InFlight \ {i}) = running - 1
             /\ running > 0
  <2>1. i \in InFlight
    BY <1>3 DEF InFlight
  <2>2. IsFiniteSet(InFlight \ {i}) /\ Cardinality(InFlight \ {i}) = running - 1
    BY <1>1, <2>1, FS_RemoveElement
  <2>3. Cardinality(InFlight \ {i}) \in Nat
    BY <2>2, FS_CardinalityType
  <2> QED BY <1>1, <2>2, <2>3
<1>4. ASSUME NEW i \in Edits, work[i] = "running", work' = [work EXCEPT ![i] = "none"]
      PROVE  Cardinality(InFlight') = running - 1 /\ running > 0
  <2>1. InFlight' = InFlight \ {i}
    BY <1>1, <1>4 DEF InFlight
  <2> QED BY <1>3, <1>4, <2>1
<1>5. ASSUME NEW i \in Edits, NEW p \in Edits, work[i] = "running", work[p] = "none",
             work' = [work EXCEPT ![i] = "none", ![p] = "running"]
      PROVE  Cardinality(InFlight') = running /\ running > 0
  <2>1. InFlight' = (InFlight \ {i}) \cup {p} /\ p \notin InFlight \ {i}
    BY <1>1, <1>5 DEF InFlight
  <2>2. /\ IsFiniteSet(InFlight \ {i}) /\ Cardinality(InFlight \ {i}) = running - 1
        /\ running > 0
    BY <1>3, <1>5
  <2>3. Cardinality((InFlight \ {i}) \cup {p}) = Cardinality(InFlight \ {i}) + 1
    BY <2>1, <2>2, FS_AddElement
  <2> QED BY <1>1, <2>1, <2>2, <2>3
<1> QED BY <1>2, <1>4, <1>5

-----------------------------------------------------------------------------
\* What the two steps that start and end validations do to the queue: an item that
\* waits is started, or nothing is.
Starts(k) ==
  /\ pending[k] # 0 /\ pending' = [pending EXCEPT ![k] = 0]
  /\ work'[pending[k]] = "running"
  /\ running' = Cardinality(InFlight') /\ running' \in Nat /\ running' > 0
  /\ \A j \in Edits : j # pending[k] => work'[j] = work[j] \/ work'[j] = "none"

\* A debounce task that reaches the actor starts the item of its key, or finds nothing
\* that waits, or finds no capacity.
LEMMA FireFacts ==
  ASSUME ValidateInvariant, NEW i \in Edits, Fire(i)
  PROVE  LET k == timer[i].key
         IN /\ k \in Keys /\ Settle /\ UNCHANGED config
            /\ timer' = [timer EXCEPT ![i] = Over]
            /\ work' \in [Edits -> WorkStates]
            /\ \/ /\ pending[k] = 0 \/ running >= config.maxConcurrent
                  /\ UNCHANGED <<pending, work, running>>
               \/ Starts(k) /\ running' <= config.maxConcurrent
<1> DEFINE k == timer[i].key
<1>1. /\ ValidateTypeOK /\ OneWaits
      /\ work \in [Edits -> WorkStates] /\ running \in Nat /\ config.maxConcurrent \in Nat
      /\ pending \in [Keys -> {0} \cup Edits] /\ timer \in [Edits -> Timer]
  BY TypeFacts DEF ValidateInvariant
<1>2. /\ Settle /\ UNCHANGED config
      /\ timer' = [timer EXCEPT ![i] = Over] /\ timer[i].at = "firing"
  BY DEF Fire
<1>3. k \in Keys
  BY <1>1, <1>2 DEF ValidateTypeOK, Timer
<1>4. CASE UNCHANGED <<pending, work, running>>
  <2>1. pending[k] = 0 \/ running >= config.maxConcurrent
    BY <1>1, <1>4 DEF Fire, Start
  <2> QED BY <1>1, <1>2, <1>3, <1>4, <2>1
<1>5. CASE /\ pending[k] # 0 /\ running < config.maxConcurrent /\ Start(k, running)
           /\ work' = [work EXCEPT ![pending[k]] = "running"]
  <2>1. pending[k] \in Edits /\ work[pending[k]] = "none"
    BY <1>1, <1>3, <1>5 DEF OneWaits
  <2>2. Cardinality(InFlight') = running + 1
    BY <1>1, <1>5, <2>1, InFlightSteps
  <2>3. /\ work'[pending[k]] = "running" /\ work' \in [Edits -> WorkStates]
        /\ \A j \in Edits : j # pending[k] => work'[j] = work[j]
    BY <1>1, <1>5, <2>1 DEF WorkStates
  <2> QED BY <1>1, <1>2, <1>3, <1>5, <2>2, <2>3 DEF Start, Starts
<1> QED BY <1>4, <1>5 DEF Fire

\* A completion frees its slot, or gives it to an item that waits.
LEMMA CompleteFacts ==
  ASSUME ValidateInvariant, NEW i \in Edits, Complete(i)
  PROVE  /\ Settle /\ UNCHANGED <<config, timer>> /\ work' \in [Edits -> WorkStates]
         /\ \/ /\ \/ running' >= config.maxConcurrent
                  \/ \A k \in Keys : pending[k] = 0
               /\ pending' = pending
               /\ running' = Cardinality(InFlight') /\ running' \in Nat /\ running' <= running
               /\ \A j \in Edits : work'[j] = work[j] \/ work'[j] = "none"
            \/ \E k \in Keys : Starts(k) /\ running' <= running
<1>1. /\ ValidateTypeOK /\ OneWaits /\ pending \in [Keys -> {0} \cup Edits]
      /\ work \in [Edits -> WorkStates] /\ running \in Nat /\ config.maxConcurrent \in Nat
  BY TypeFacts DEF ValidateInvariant
<1>2. Settle /\ UNCHANGED <<config, timer>> /\ work[i] = "running"
  BY DEF Complete
<1>3. CASE /\ ~(running - 1 < config.maxConcurrent) \/ {k \in Keys : pending[k] # 0} = {}
           /\ running' = running - 1 /\ work' = [work EXCEPT ![i] = "none"]
           /\ UNCHANGED pending
  <2>1. Cardinality(InFlight') = running - 1 /\ running > 0
    BY <1>1, <1>2, <1>3, InFlightSteps
  <2>2. /\ work' \in [Edits -> WorkStates]
        /\ \A j \in Edits : work'[j] = work[j] \/ work'[j] = "none"
    BY <1>1, <1>3 DEF WorkStates
  <2>3. running' \in Nat /\ running' <= running /\ running' = Cardinality(InFlight')
    BY <1>1, <1>3, <2>1
  <2>4. running' >= config.maxConcurrent \/ \A k \in Keys : pending[k] = 0
    BY <1>1, <1>3, <2>3
  <2> QED BY <1>2, <1>3, <2>2, <2>3, <2>4
<1>4. ASSUME NEW k \in Keys, pending[k] # 0, Start(k, running - 1),
             work' = [work EXCEPT ![i] = "none", ![pending[k]] = "running"]
      PROVE  work' \in [Edits -> WorkStates] /\ Starts(k) /\ running' <= running
  <2>1. pending[k] \in Edits /\ work[pending[k]] = "none"
    BY <1>1, <1>4 DEF OneWaits
  <2>2. Cardinality(InFlight') = running /\ running > 0
    BY <1>1, <1>2, <1>4, <2>1, InFlightSteps
  <2>3. /\ work'[pending[k]] = "running" /\ work' \in [Edits -> WorkStates]
        /\ \A j \in Edits : j # pending[k] => work'[j] = work[j] \/ work'[j] = "none"
    BY <1>1, <1>2, <1>4, <2>1 DEF WorkStates
  <2>4. running' = running
    BY <1>1, <1>4 DEF Start
  <2> QED BY <1>1, <1>4, <2>2, <2>3, <2>4 DEF Start, Starts
<1> QED BY <1>2, <1>3, <1>4 DEF Complete

\* A key whose item is started has nothing that waits any more; another key keeps what
\* it has.
LEMMA StartKeepsOthers ==
  ASSUME ValidateInvariant, NEW k \in Keys, Starts(k)
  PROVE  /\ pending'[k] = 0 /\ pending[k] \in Edits
         /\ \A q \in Keys : q # k =>
              /\ pending'[q] = pending[q]
              /\ pending[q] # 0 => pending[q] # pending[k] /\ work'[pending[q]] = "none"
         /\ pending' \in [Keys -> 0..MaxEdits]
<1>1. /\ pending[k] # 0 /\ pending' = [pending EXCEPT ![k] = 0]
      /\ pending \in [Keys -> {0} \cup Edits] /\ 0..MaxEdits = {0} \cup Edits /\ OneWaits
  BY TypeFacts DEF Starts, ValidateInvariant
<1>2. ASSUME NEW q \in Keys, q # k, pending[q] # 0
      PROVE  pending[q] # pending[k] /\ work'[pending[q]] = "none"
  BY <1>1, <1>2 DEF OneWaits, Starts
<1> QED BY <1>1, <1>2

\* What enqueue does with an edit that passes.
LEMMA EnqueueFacts ==
  ASSUME ValidateInvariant, NEW k \in Keys, NEW n \in Edits, Accept(k, n),
         pending' = [pending EXCEPT ![k] = n]
  PROVE  /\ n # 0 /\ pending'[k] = n /\ owed'[k] = n /\ work[n] = "none" /\ timer[n] = Over
         /\ UNCHANGED <<work, running>>
         /\ timer'[n] = [at |-> "sleeping", key |-> k] /\ timer' \in [Edits -> Timer]
         /\ pending' \in [Keys -> 0..MaxEdits] /\ owed' \in [Keys -> 0..MaxEdits]
         /\ \A q \in Keys : pending[q] # n
         /\ \A i \in Edits : i # n =>
              timer'[i] = timer[i] \/ (timer'[i] = Over /\ i = pending[k])
         /\ \A q \in Keys : q # k => pending'[q] = pending[q] /\ owed'[q] = owed[q]
<1>1. /\ pending \in [Keys -> {0} \cup Edits] /\ owed \in [Keys -> {0} \cup Edits]
      /\ 0..MaxEdits = {0} \cup Edits /\ timer \in [Edits -> Timer] /\ n # 0
      /\ NoKey \notin Keys
  BY TypeFacts DEF ValidateInvariant
<1>2. /\ Unused(n) /\ owed' = [owed EXCEPT ![k] = n] /\ UNCHANGED <<work, running>>
      /\ timer' = [Debounced(k) EXCEPT ![n] = [at |-> "sleeping", key |-> k]]
  BY DEF Accept
<1>3. work[n] = "none" /\ timer[n] = Over /\ \A q \in Keys : pending[q] # n
  BY <1>2 DEF Unused
<1>4. /\ pending'[k] = n /\ owed'[k] = n
      /\ pending' \in [Keys -> 0..MaxEdits] /\ owed' \in [Keys -> 0..MaxEdits]
      /\ \A q \in Keys : q # k => pending'[q] = pending[q] /\ owed'[q] = owed[q]
  BY <1>1, <1>2
<1>5. /\ timer'[n] = [at |-> "sleeping", key |-> k] /\ timer' \in [Edits -> Timer]
      /\ \A i \in Edits : i # n =>
           timer'[i] = timer[i] \/ (timer'[i] = Over /\ i = pending[k])
  <2> DEFINE D == Debounced(k)
             t == [at |-> "sleeping", key |-> k]
  <2>1. t \in Timer /\ Over \in Timer
    BY DEF Timer, Over
  <2>2. /\ D \in [Edits -> Timer]
        /\ \A i \in Edits : D[i] = timer[i] \/ (D[i] = Over /\ i = pending[k])
    BY <1>1, <2>1 DEF Debounced
  <2>3. timer' = [D EXCEPT ![n] = t]
    BY <1>2
  <2> HIDE DEF D, t
  <2>4. timer'[n] = t /\ timer' \in [Edits -> Timer] /\ \A i \in Edits : i # n => timer'[i] = D[i]
    BY <2>1, <2>2, <2>3
  <2>5. \A i \in Edits : i # n => timer'[i] = timer[i] \/ (timer'[i] = Over /\ i = pending[k])
    BY <2>2, <2>4
  <2> QED BY <2>4, <2>5 DEF t
<1> QED BY <1>1, <1>2, <1>3, <1>4, <1>5

-----------------------------------------------------------------------------
\* While nothing starts, what was owed is; when an item starts, it is no longer owed.
LEMMA SettleFacts ==
  ASSUME ValidateInvariant, Settle
  PROVE  /\ (\A j \in Edits : work'[j] = work[j] \/ work'[j] = "none") => owed' = owed
         /\ \A k \in Keys : Starts(k) => owed' = [owed EXCEPT ![k] = 0]
<1>1. /\ owed \in [Keys -> {0} \cup Edits] /\ \A q \in Keys : owed[q] = pending[q]
      /\ \A q \in Keys : owed[q] # 0 => owed[q] \in Edits /\ work[owed[q]] = "none"
  BY TypeFacts DEF ValidateInvariant, NewestKept, OneWaits
<1>2. ASSUME \A j \in Edits : work'[j] = work[j] \/ work'[j] = "none"
      PROVE  owed' = owed
  <2>1. \A q \in Keys : (IF owed[q] # 0 /\ work'[owed[q]] = "running" THEN 0 ELSE owed[q]) = owed[q]
    BY <1>1, <1>2
  <2> QED BY <1>1, <2>1 DEF Settle
<1>3. ASSUME NEW k \in Keys, Starts(k)
      PROVE  owed' = [owed EXCEPT ![k] = 0]
  <2>1. owed[k] # 0 /\ work'[owed[k]] = "running"
    BY <1>1, <1>3 DEF Starts
  <2>2. \A q \in Keys : q # k /\ owed[q] # 0 => work'[owed[q]] = "none"
    BY <1>1, <1>3, StartKeepsOthers
  <2>3. \A q \in Keys : (IF owed[q] # 0 /\ work'[owed[q]] = "running" THEN 0 ELSE owed[q])
                          = (IF q = k THEN 0 ELSE owed[q])
    BY <2>1, <2>2
  <2> QED BY <1>1, <2>3 DEF Settle
<1> QED BY <1>2, <1>3

\* Every action keeps the types, and the count with the validations in flight.
LEMMA TypeStep ==
  ASSUME ValidateInvariant, ValidateNext
  PROVE  ValidateTypeOK'
<1>1. /\ ValidateTypeOK /\ running \in Nat /\ config.maxConcurrent \in Nat
      /\ running = Cardinality(InFlight) /\ timer \in [Edits -> Timer]
      /\ owed \in [Keys -> 0..MaxEdits] /\ NoKey \notin Keys /\ 0 \in 0..MaxEdits
  BY TypeFacts DEF ValidateInvariant
<1>2. ASSUME NEW s \in Settings, config' = s,
             UNCHANGED <<owed, pending, timer, work, running>>
      PROVE  ValidateTypeOK'
  BY <1>1, <1>2 DEF ValidateTypeOK
<1>3. ASSUME NEW i \in Edits, TimerEnds(i)
      PROVE  ValidateTypeOK'
  <2>1. /\ timer' \in [Edits -> Timer]
        /\ \A j \in Edits : timer'[j].key = timer[j].key
        /\ \A j \in Edits : timer'[j].at = "over" <=> timer[j].at = "over"
    BY <1>1, <1>3 DEF TimerEnds, Timer
  <2> QED BY <1>1, <1>3, <2>1 DEF TimerEnds, ValidateTypeOK
<1>4. ASSUME NEW k \in Keys, Enqueue(k)
      PROVE  ValidateTypeOK'
  <2>1. PICK n \in Edits : Accept(k, n) /\ pending' = [pending EXCEPT ![k] = n]
    BY <1>4 DEF Enqueue
  <2>2. /\ UNCHANGED <<work, running>> /\ timer' \in [Edits -> Timer]
        /\ pending' \in [Keys -> 0..MaxEdits] /\ owed' \in [Keys -> 0..MaxEdits]
    BY <2>1, EnqueueFacts DEF ValidateInvariant
  <2>3. \A i \in Edits : timer'[i].key = NoKey <=> timer'[i].at = "over"
    <3>1. \A i \in Edits :
            \/ timer'[i] = timer[i] \/ timer'[i] = Over
            \/ timer'[i] = [at |-> "sleeping", key |-> k]
      BY <2>1, EnqueueFacts
    <3> QED BY <1>1, <3>1 DEF Over, ValidateTypeOK
  <2>4. config' \in Settings
    BY <1>4 DEF Enqueue
  <2> QED BY <1>1, <2>2, <2>3, <2>4 DEF ValidateTypeOK
<1>5. ASSUME UNCHANGED config, pending' \in [Keys -> 0..MaxEdits],
             owed' \in [Keys -> 0..MaxEdits], timer' \in [Edits -> Timer],
             \A i \in Edits : timer'[i] \in {timer[i], Over}, work' \in [Edits -> WorkStates],
             running' = Cardinality(InFlight'), running' \in Nat,
             running' <= running \/ running' <= config.maxConcurrent
      PROVE  ValidateTypeOK'
  <2>1. \A i \in Edits : timer'[i].key = NoKey <=> timer'[i].at = "over"
    BY <1>1, <1>5 DEF Over, ValidateTypeOK
  <2> QED BY <1>1, <1>5, <2>1, WithinSomeLimit DEF ValidateTypeOK, InFlight
<1>6. ASSUME NEW k \in Keys, Starts(k), Settle
      PROVE  pending' \in [Keys -> 0..MaxEdits] /\ owed' \in [Keys -> 0..MaxEdits]
  <2>1. owed' = [owed EXCEPT ![k] = 0] /\ pending' \in [Keys -> 0..MaxEdits]
    BY <1>6, SettleFacts, StartKeepsOthers
  <2> QED BY <1>1, <2>1
<1>7. ASSUME NEW i \in Edits, Fire(i)
      PROVE  ValidateTypeOK'
  <2> DEFINE k == timer[i].key
  <2>1. /\ k \in Keys /\ Settle /\ UNCHANGED config /\ work' \in [Edits -> WorkStates]
        /\ timer' = [timer EXCEPT ![i] = Over]
        /\ \/ UNCHANGED <<pending, work, running>>
           \/ Starts(k) /\ running' <= config.maxConcurrent
    BY <1>7, FireFacts
  <2>2. timer' \in [Edits -> Timer] /\ \A j \in Edits : timer'[j] \in {timer[j], Over}
    BY <1>1, <2>1 DEF Timer, Over
  <2> HIDE DEF k
  <2>3. CASE UNCHANGED <<pending, work, running>>
    <3>1. InFlight' = InFlight /\ pending' \in [Keys -> 0..MaxEdits] /\ owed' = owed
      BY <1>1, <2>1, <2>3, SettleFacts DEF InFlight, ValidateTypeOK
    <3> QED BY <1>1, <1>5, <2>1, <2>2, <2>3, <3>1
  <2>4. CASE Starts(k) /\ running' <= config.maxConcurrent
    BY <1>5, <1>6, <2>1, <2>2, <2>4 DEF Starts
  <2> QED BY <2>1, <2>3, <2>4
<1>8. ASSUME NEW i \in Edits, Complete(i)
      PROVE  ValidateTypeOK'
  <2>1. /\ Settle /\ UNCHANGED <<config, timer>> /\ work' \in [Edits -> WorkStates]
        /\ timer' \in [Edits -> Timer] /\ \A j \in Edits : timer'[j] \in {timer[j], Over}
    BY <1>1, <1>8, CompleteFacts
  <2>2. CASE /\ pending' = pending /\ \A j \in Edits : work'[j] = work[j] \/ work'[j] = "none"
             /\ running' = Cardinality(InFlight') /\ running' \in Nat /\ running' <= running
    <3>1. pending' \in [Keys -> 0..MaxEdits] /\ owed' = owed
      BY <1>1, <2>1, <2>2, SettleFacts DEF ValidateTypeOK
    <3> QED BY <1>1, <1>5, <2>1, <2>2, <3>1
  <2>3. ASSUME NEW k \in Keys, Starts(k), running' <= running
        PROVE  ValidateTypeOK'
    BY <1>5, <1>6, <2>1, <2>3 DEF Starts
  <2> QED BY <1>8, <2>2, <2>3, CompleteFacts
<1> QED BY <1>2, <1>3, <1>4, <1>7, <1>8 DEF ValidateNext, UpdateConfig, Skip

\* What waits is what is owed: an enqueue replaces both by the newer edit, whose number
\* nothing that waits has, and only what waits is started.
LEMMA KeptStep ==
  ASSUME ValidateInvariant, ValidateNext
  PROVE  OneWaits' /\ NewestKept'
<1>1. /\ ValidateTypeOK /\ OneWaits /\ NewestKept /\ NoKey \notin Keys
      /\ timer \in [Edits -> Timer] /\ pending \in [Keys -> {0} \cup Edits]
      /\ owed \in [Keys -> {0} \cup Edits]
  BY TypeFacts DEF ValidateInvariant
<1>2. CASE UNCHANGED <<owed, pending, timer, work>>
  BY <1>1, <1>2 DEF OneWaits, NewestKept
<1>3. ASSUME NEW i \in Edits, TimerEnds(i)
      PROVE  OneWaits' /\ NewestKept'
  <2>1. UNCHANGED <<owed, pending, work>> /\ \A j \in Edits : timer'[j].key = timer[j].key
    BY <1>1, <1>3 DEF TimerEnds, Timer
  <2> QED BY <1>1, <2>1 DEF OneWaits, NewestKept
<1>4. ASSUME NEW k \in Keys, Enqueue(k)
      PROVE  OneWaits' /\ NewestKept'
  <2>1. PICK n \in Edits : Accept(k, n) /\ pending' = [pending EXCEPT ![k] = n]
    BY <1>4 DEF Enqueue
  <2>2. /\ pending'[k] = n /\ owed'[k] = n /\ work[n] = "none" /\ UNCHANGED work
        /\ timer'[n] = [at |-> "sleeping", key |-> k]
        /\ \A q \in Keys : pending[q] # n
        /\ \A i \in Edits : i # n => timer'[i] = timer[i] \/ timer'[i] = Over
        /\ \A q \in Keys : q # k => pending'[q] = pending[q] /\ owed'[q] = owed[q]
    <3>1. \A i \in Edits : i # n =>
            timer'[i] = timer[i] \/ (timer'[i] = Over /\ i = pending[k])
      BY <2>1, EnqueueFacts, Zenon
    <3>2. /\ pending'[k] = n /\ owed'[k] = n /\ work[n] = "none" /\ UNCHANGED work
          /\ timer'[n] = [at |-> "sleeping", key |-> k]
          /\ \A q \in Keys : pending[q] # n
          /\ \A q \in Keys : q # k => pending'[q] = pending[q] /\ owed'[q] = owed[q]
      BY <2>1, EnqueueFacts, Zenon
    <3> QED BY <3>1, <3>2
  <2>3. NewestKept'
    BY <1>1, <2>2 DEF NewestKept
  <2>4. OneWaits'
    <3> SUFFICES ASSUME NEW q \in Keys, pending'[q] # 0
                 PROVE  /\ work'[pending'[q]] = "none"
                        /\ timer'[pending'[q]].key \in {q, NoKey}
                        /\ \A r \in Keys : pending'[r] = pending'[q] => r = q
      BY DEF OneWaits
    <3>1. CASE q = k
      BY <2>2, <3>1
    <3>2. CASE q # k
      <4>1. /\ pending'[q] = pending[q] /\ pending[q] \in Edits /\ pending[q] # n
            /\ work[pending[q]] = "none" /\ timer[pending[q]].key \in {q, NoKey}
            /\ \A r \in Keys : pending[r] = pending[q] => r = q
        BY <1>1, <2>2, <3>2 DEF OneWaits
      <4>2. timer'[pending[q]].key \in {q, NoKey}
        BY <2>2, <4>1 DEF Over
      <4> QED BY <2>2, <4>1, <4>2
    <3> QED BY <3>1, <3>2
  <2> QED BY <2>3, <2>4
<1>5. ASSUME pending' = pending, owed' = owed,
             \A j \in Edits : timer'[j] \in {timer[j], Over},
             \A j \in Edits : work'[j] = work[j] \/ work'[j] = "none"
      PROVE  OneWaits' /\ NewestKept'
  <2>1. NewestKept'
    BY <1>1, <1>5 DEF NewestKept
  <2>2. ASSUME NEW q \in Keys, pending[q] # 0
        PROVE  work'[pending[q]] = "none" /\ timer'[pending[q]].key \in {q, NoKey}
    BY <1>1, <1>5, <2>2 DEF OneWaits, Over
  <2> QED BY <1>1, <1>5, <2>1, <2>2 DEF OneWaits
<1>6. ASSUME NEW k \in Keys, Starts(k), Settle,
             \A j \in Edits : timer'[j] \in {timer[j], Over}
      PROVE  OneWaits' /\ NewestKept'
  <2>1. /\ owed' = [owed EXCEPT ![k] = 0] /\ pending'[k] = 0
        /\ \A q \in Keys : q # k =>
             /\ pending'[q] = pending[q]
             /\ pending[q] # 0 => work'[pending[q]] = "none"
    BY <1>6, SettleFacts, StartKeepsOthers
  <2>2. NewestKept'
    BY <1>1, <2>1 DEF NewestKept
  <2>3. ASSUME NEW q \in Keys, pending'[q] # 0
        PROVE  /\ work'[pending'[q]] = "none" /\ timer'[pending'[q]].key \in {q, NoKey}
               /\ \A r \in Keys : pending'[r] = pending'[q] => r = q
    <3>1. q # k /\ pending'[q] = pending[q] /\ pending[q] \in Edits
      BY <1>1, <2>1, <2>3
    <3>2. timer'[pending[q]].key \in {q, NoKey}
      BY <1>1, <1>6, <2>3, <3>1 DEF OneWaits, Over
    <3>3. \A r \in Keys : pending'[r] = pending[q] => r = q
      BY <1>1, <2>1, <2>3, <3>1 DEF OneWaits
    <3> QED BY <2>1, <3>1, <3>2, <3>3
  <2> QED BY <2>2, <2>3 DEF OneWaits
<1>7. ASSUME NEW i \in Edits, Fire(i)
      PROVE  OneWaits' /\ NewestKept'
  <2> DEFINE k == timer[i].key
  <2>1. /\ k \in Keys /\ Settle /\ timer' = [timer EXCEPT ![i] = Over]
        /\ UNCHANGED <<pending, work>> \/ Starts(k)
    BY <1>7, FireFacts
  <2>2. \A j \in Edits : timer'[j] \in {timer[j], Over}
    BY <1>1, <2>1
  <2> HIDE DEF k
  <2>3. CASE UNCHANGED <<pending, work>>
    <3>1. owed' = owed
      BY <2>1, <2>3, SettleFacts
    <3> QED BY <1>5, <2>2, <2>3, <3>1
  <2> QED BY <1>6, <2>1, <2>2, <2>3
<1>8. ASSUME NEW i \in Edits, Complete(i)
      PROVE  OneWaits' /\ NewestKept'
  <2>1. Settle /\ timer' = timer
    BY <1>8, CompleteFacts
  <2>2. CASE pending' = pending /\ \A j \in Edits : work'[j] = work[j] \/ work'[j] = "none"
    <3>1. owed' = owed
      BY <2>1, <2>2, SettleFacts
    <3> QED BY <1>5, <2>1, <2>2, <3>1
  <2>3. ASSUME NEW k \in Keys, Starts(k)
        PROVE  OneWaits' /\ NewestKept'
    BY <1>6, <2>1, <2>3
  <2> QED BY <1>8, <2>2, <2>3, CompleteFacts
<1> QED BY <1>2, <1>3, <1>4, <1>7, <1>8 DEF ValidateNext, UpdateConfig, Skip

\* Somebody is to look at what waits: the debounce task of an edit is still to reach the
\* actor, or a validation is still to return.
LEMMA StrandedStep ==
  ASSUME ValidateInvariant, NeverStranded, LimitsArePositive, ValidateNext
  PROVE  NeverStranded'
<1>1. /\ ValidateTypeOK /\ OneWaits /\ running \in Nat /\ config.maxConcurrent \in Nat
      /\ timer \in [Edits -> Timer] /\ NoKey \notin Keys
  BY TypeFacts DEF ValidateInvariant
<1>2. config.maxConcurrent > 0
  BY <1>1 DEF ValidateTypeOK, LimitsArePositive, DefaultConfig
<1>3. CASE UNCHANGED <<pending, timer, work, running>>
  BY <1>3 DEF NeverStranded
<1>4. ASSUME NEW i \in Edits, TimerEnds(i)
      PROVE  NeverStranded'
  <2>1. UNCHANGED <<pending, running>> /\ \A j \in Edits : timer'[j].key = timer[j].key
    BY <1>1, <1>4 DEF TimerEnds, Timer
  <2> QED BY <2>1 DEF NeverStranded
<1>5. ASSUME NEW k \in Keys, Enqueue(k)
      PROVE  NeverStranded'
  <2>1. PICK n \in Edits : Accept(k, n) /\ pending' = [pending EXCEPT ![k] = n]
    BY <1>5 DEF Enqueue
  <2>2. /\ timer'[n].key = k /\ timer[n].key = NoKey /\ running' = running
        /\ \A i \in Edits : i # n =>
             timer'[i] = timer[i] \/ (timer'[i] = Over /\ i = pending[k])
        /\ \A q \in Keys : q # k => pending'[q] = pending[q]
    <3>1. /\ \A i \in Edits : i # n =>
               timer'[i] = timer[i] \/ (timer'[i] = Over /\ i = pending[k])
          /\ timer'[n] = [at |-> "sleeping", key |-> k] /\ timer[n] = Over
          /\ running' = running
          /\ \A q \in Keys : q # k => pending'[q] = pending[q]
      BY <2>1, EnqueueFacts, Zenon
    <3>2. timer'[n].key = k /\ timer[n].key = NoKey
      BY <3>1 DEF Over
    <3> QED BY <3>1, <3>2
  <2>3. pending[k] \in Edits => timer[pending[k]].key \in {k, NoKey}
    BY <1>1, TypeFacts DEF OneWaits
  <2>4. ASSUME NEW q \in Keys, q # k, pending'[q] # 0, running = 0
        PROVE  \E i \in Edits : timer'[i].key = q
    <3>1. PICK i \in Edits : timer[i].key = q
      BY <1>1, <2>2, <2>4 DEF NeverStranded
    <3>2. i # n /\ i # pending[k]
      BY <1>1, <2>2, <2>3, <2>4, <3>1
    <3> QED BY <2>2, <3>1, <3>2
  <2> SUFFICES ASSUME NEW q \in Keys, pending'[q] # 0, ~(running' > 0)
               PROVE  \E i \in Edits : timer'[i].key = q
    BY DEF NeverStranded
  <2>5. running = 0
    BY <1>1, <2>2
  <2> QED BY <2>2, <2>4, <2>5
<1>6. ASSUME NEW i \in Edits, Fire(i)
      PROVE  NeverStranded'
  <2> DEFINE k == timer[i].key
  <2>1. \A j \in Edits : j # i => timer'[j] = timer[j]
    BY <1>1, <1>6, FireFacts
  <2>2. CASE /\ pending[k] = 0 \/ running >= config.maxConcurrent
             /\ UNCHANGED <<pending, work, running>>
    BY <1>1, <1>2, <2>1, <2>2 DEF NeverStranded
  <2>3. CASE running' > 0
    BY <2>3 DEF NeverStranded
  <2> QED BY <1>6, <2>2, <2>3, FireFacts DEF Starts
<1>7. ASSUME NEW i \in Edits, Complete(i)
      PROVE  NeverStranded'
  <2>1. CASE running' > 0
    BY <2>1 DEF NeverStranded
  <2>2. CASE /\ running' >= config.maxConcurrent \/ \A k \in Keys : pending[k] = 0
             /\ pending' = pending /\ running' \in Nat
    BY <1>1, <1>2, <2>1, <2>2 DEF NeverStranded
  <2> QED BY <1>7, <2>1, <2>2, CompleteFacts DEF Starts
<1> QED BY <1>3, <1>4, <1>5, <1>6, <1>7 DEF ValidateNext, UpdateConfig, Skip

-----------------------------------------------------------------------------
\* At first nothing was accepted, nothing waits and nothing runs.
LEMMA ValidateInvariantInit == ValidateInit => ValidateInvariant /\ NeverStranded
<1> SUFFICES ASSUME ValidateInit PROVE ValidateInvariant /\ NeverStranded
  OBVIOUS
<1>1. MaxEdits \in Nat /\ 0 \in 0..MaxEdits /\ NoKey \notin Keys
  BY ValidateAssumption DEF Edits
<1>2. {i \in Edits : work[i] = "running"} = {}
  BY DEF ValidateInit
<1>3. running = Cardinality({i \in Edits : work[i] = "running"})
  BY <1>2, FS_EmptySet DEF ValidateInit
<1>4. \E s \in Settings \cup {DefaultConfig} : running <= s.maxConcurrent
  <2>1. DefaultConfig.maxConcurrent = 2 /\ running = 0
    BY DEF ValidateInit, DefaultConfig
  <2> WITNESS DefaultConfig \in Settings \cup {DefaultConfig}
  <2> QED BY <2>1
<1>5. ValidateTypeOK
  <2>1. /\ config \in Settings \cup {DefaultConfig}
        /\ owed \in [Keys -> 0..MaxEdits] /\ pending \in [Keys -> 0..MaxEdits]
    BY <1>1 DEF ValidateInit
  <2>2. timer \in [Edits -> Timer] /\ work \in [Edits -> WorkStates]
    BY DEF ValidateInit, Timer, Over, WorkStates
  <2>3. \A i \in Edits : timer[i].key = NoKey <=> timer[i].at = "over"
    BY DEF ValidateInit, Over
  <2> QED BY <1>3, <1>4, <2>1, <2>2, <2>3 DEF ValidateTypeOK
<1>6. OneWaits /\ NewestKept /\ NeverStranded
  BY DEF ValidateInit, OneWaits, NewestKept, NeverStranded
<1> QED BY <1>5, <1>6 DEF ValidateInvariant

\* The invariant is inductive.
LEMMA ValidateInvariantStep ==
  ValidateInvariant /\ [ValidateNext]_validateVars => ValidateInvariant'
<1> SUFFICES ASSUME ValidateInvariant, [ValidateNext]_validateVars PROVE ValidateInvariant'
  OBVIOUS
<1>1. CASE ValidateNext
  BY <1>1, TypeStep, KeptStep DEF ValidateInvariant
<1>2. CASE UNCHANGED validateVars
  <2>1. UNCHANGED <<config, owed, pending, timer, work, running>>
    BY <1>2 DEF validateVars
  <2>2. ValidateTypeOK'
    BY <2>1 DEF ValidateInvariant, ValidateTypeOK
  <2>3. OneWaits' /\ NewestKept'
    BY <2>1 DEF ValidateInvariant, OneWaits, NewestKept
  <2> QED BY <2>2, <2>3 DEF ValidateInvariant
<1> QED BY <1>1, <1>2

\* So it holds in every reachable state.
LEMMA ValidateInvariantHolds == ValidateSpec => []ValidateInvariant
<1>1. ValidateInit => ValidateInvariant
  BY ValidateInvariantInit
<1> QED BY <1>1, ValidateInvariantStep, PTL DEF ValidateSpec

-----------------------------------------------------------------------------
\* Types; the actor's count is the number of validations in flight, and never above the
\* largest limit.
THEOREM ValidateTypesHold == ValidateSpec => []ValidateTypeOK
<1>1. ValidateInvariant => ValidateTypeOK
  BY DEF ValidateInvariant
<1> QED BY <1>1, ValidateInvariantHolds, PTL

\* The last edit of a file that enqueue accepted waits, or its validation was started,
\* whatever the debounce tasks, the configurations and the completions do.
THEOREM NewestEditIsKept == ValidateSpec => []NewestKept
<1>1. ValidateInvariant => NewestKept
  BY DEF ValidateInvariant
<1> QED BY <1>1, ValidateInvariantHolds, PTL

\* With limits of at least one, as AutoValidateConfig's initializer clamps them, an item
\* that waits is always about to be looked at.
THEOREM ItemsAreNeverStranded ==
  ASSUME LimitsArePositive
  PROVE  ValidateSpec => []NeverStranded
<1>1. ValidateInit => NeverStranded
  BY ValidateInvariantInit
<1>2. ValidateInvariant /\ NeverStranded /\ [ValidateNext]_validateVars => NeverStranded'
  <2> SUFFICES ASSUME ValidateInvariant, NeverStranded, [ValidateNext]_validateVars
               PROVE  NeverStranded'
    OBVIOUS
  <2>1. CASE ValidateNext
    BY <2>1, StrandedStep
  <2>2. CASE UNCHANGED validateVars
    BY <2>2 DEF validateVars, NeverStranded
  <2> QED BY <2>1, <2>2
<1> QED BY <1>1, <1>2, ValidateInvariantHolds, PTL DEF ValidateSpec
=============================================================================

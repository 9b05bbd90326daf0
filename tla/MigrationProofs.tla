--------------------------- MODULE MigrationProofs ---------------------------
(***************************************************************************)
(* Theorems about MigrationRunner, for any set of processes, any releases  *)
(* and any number of failures.  They rest on one invariant: the holder of  *)
(* the flock is alone, and what it read from schema_migrations is still    *)
(* what is there.                                                          *)
(***************************************************************************)
EXTENDS MigrationRunner, TLAPS

Inside(p) == at[p] \in {"locked", "migrating", "inTxn", "failed"}

\* One process at a time is between the lock and its release.
Alone == \A p, q \in Processes : Inside(p) /\ Inside(q) => p = q

\* What the process that migrates has read is what was applied, and in a transaction
\* there is something to apply.
ReadIsCurrent ==
  \A p \in Processes :
    /\ at[p] \in {"migrating", "inTxn"} => seen[p] = applied
    /\ at[p] = "inTxn" => Pending(p) # {}

\* No statements of a version were committed without its row.
UpsAreLogged == \A v \in Versions : v \notin applied => ups[v] = 0

LogInvariant == MigrationTypeOK /\ Alone /\ ReadIsCurrent /\ SchemaMatchesLog /\ UpsAreLogged

\* Neither a failure nor a meeting with a process of an older release so far.
Smooth == faults = 0 /\ ~ \E b \in blocked : Target[b[2]] < Target[b[1]]

\* Then nothing failed, and a process that serves has applied all it knows.
SmoothBoots ==
  Smooth =>
    /\ blocked = {} /\ ~killSwitch
    /\ \A p \in Processes :
         /\ at[p] # "failed"
         /\ at[p] = "serving" => Registry(p) \subseteq applied

-----------------------------------------------------------------------------
\* The versions of a registry are numbers from 1, and its process knows at least one.
LEMMA RegistryFacts ==
  /\ Versions \subseteq Nat
  /\ \A p \in Processes : Target[p] \in Nat /\ Target[p] # 0 /\ Registry(p) = 1..Target[p]
                          /\ Registry(p) \subseteq Versions /\ 1 \in Versions
<1> USE MigrationAssumption
<1>1. ASSUME NEW p \in Processes
      PROVE /\ Target[p] \in Nat /\ Target[p] # 0 /\ Registry(p) = 1..Target[p]
            /\ Registry(p) \subseteq Versions /\ 1 \in Versions
  <2>1. Target[p] \in Nat /\ Target[p] # 0 /\ Registry(p) = 1..Target[p]
    BY DEF Registry
  <2>2. Registry(p) \subseteq Versions
    BY DEF Versions
  <2>3. 1 \in Registry(p)
    BY <2>1
  <2> QED BY <2>1, <2>2, <2>3
<1>2. Versions \subseteq Nat
  BY <1>1 DEF Versions
<1> QED BY <1>1, <1>2

\* Of the versions up to a target without those up to an earlier one, the least is the
\* next number.
LEMMA NextIsSuccessor ==
  ASSUME NEW p \in Processes, seen[p] = 1..userVersion, userVersion \in Nat, Pending(p) # {}
  PROVE  NextVersion(p) = userVersion + 1 /\ NextVersion(p) \in Registry(p)
<1>1. Target[p] \in Nat /\ Registry(p) = 1..Target[p]
  BY RegistryFacts
<1>2. PICK u \in Pending(p) : TRUE
  OBVIOUS
<1>3. u \in 1..Target[p] /\ u \notin 1..userVersion
  BY <1>1, <1>2 DEF Pending
<1>4. userVersion + 1 \in Pending(p)
  BY <1>1, <1>3 DEF Pending
<1>5. \A w \in Pending(p) : userVersion + 1 <= w
  BY <1>1 DEF Pending
<1>6. \A v \in Pending(p) : (\A w \in Pending(p) : v <= w) => v = userVersion + 1
  <2> SUFFICES ASSUME NEW v \in Pending(p), \A w \in Pending(p) : v <= w
               PROVE  v = userVersion + 1
    OBVIOUS
  <2>1. v <= userVersion + 1 /\ userVersion + 1 <= v
    BY <1>4, <1>5
  <2>2. v \in Nat
    BY <1>1 DEF Pending
  <2> QED BY <2>1, <2>2
<1>7. NextVersion(p) = userVersion + 1
  BY <1>4, <1>5, <1>6 DEF NextVersion
<1> QED BY <1>4, <1>7 DEF Pending

\* The version a transaction applies is the next number.
LEMMA CommitIsNext ==
  ASSUME LogInvariant, NEW p \in Processes, at[p] = "inTxn"
  PROVE  /\ NextVersion(p) = userVersion + 1 /\ NextVersion(p) \in Versions
         /\ NextVersion(p) \notin applied
<1>1. seen[p] = 1..userVersion /\ userVersion \in Nat /\ Pending(p) # {}
  BY DEF LogInvariant, ReadIsCurrent, SchemaMatchesLog, MigrationTypeOK
<1>2. NextVersion(p) = userVersion + 1 /\ NextVersion(p) \in Registry(p)
  BY <1>1, NextIsSuccessor
<1> QED BY <1>1, <1>2, RegistryFacts DEF LogInvariant, SchemaMatchesLog

-----------------------------------------------------------------------------
\* Every action keeps the types, and keeps the lock with the processes inside run.
LEMMA TypeStep ==
  ASSUME LogInvariant, MigrationNext
  PROVE  MigrationTypeOK'
<1> USE MigrationAssumption DEF LogInvariant, MigrationTypeOK, Places, Fault, database
<1>1. CASE Clear
  BY <1>1 DEF Clear
<1>2. ASSUME NEW p \in Processes, Refuse(p) \/ Queue(p)
      PROVE  MigrationTypeOK'
  BY <1>2 DEF Refuse, Queue
<1>3. ASSUME NEW p \in Processes, Lock(p)
      PROVE  MigrationTypeOK'
  BY <1>3 DEF Lock
<1>4. ASSUME NEW p \in Processes, Baseline(p)
      PROVE  MigrationTypeOK'
  BY <1>4, RegistryFacts DEF Baseline
<1>5. ASSUME NEW p \in Processes, Read(p)
      PROVE  MigrationTypeOK'
  BY <1>5 DEF Read
<1>6. ASSUME NEW p \in Processes, PrepareFails(p)
      PROVE  MigrationTypeOK'
  BY <1>6 DEF PrepareFails, Leave
<1>7. ASSUME NEW p \in Processes, Begin(p)
      PROVE  MigrationTypeOK'
  BY <1>7 DEF Begin
<1>8. ASSUME NEW p \in Processes, NEW q \in Processes, BeginBusy(p, q)
      PROVE  MigrationTypeOK'
  BY <1>8 DEF BeginBusy
<1>9. ASSUME NEW p \in Processes, Commit(p)
      PROVE  MigrationTypeOK'
  <2>1. NextVersion(p) = userVersion + 1 /\ NextVersion(p) \in Versions
    BY <1>9, CommitIsNext DEF Commit
  <2>2. userVersion' = userVersion + 1 /\ applied' = applied \cup {NextVersion(p)}
        /\ ups' = [ups EXCEPT ![NextVersion(p)] = @ + 1]
        /\ seen' = [seen EXCEPT ![p] = @ \cup {NextVersion(p)}]
    BY <1>9, <2>1 DEF Commit
  <2> QED BY <1>9, <2>1, <2>2 DEF Commit
<1>10. ASSUME NEW p \in Processes, RollBack(p)
       PROVE  MigrationTypeOK'
  BY <1>10 DEF RollBack
<1>11. ASSUME NEW p \in Processes, WriteKillSwitch(p) \/ KillSwitchLost(p) \/ Done(p)
       PROVE  MigrationTypeOK'
  <2>1. CASE WriteKillSwitch(p)
    BY <2>1 DEF WriteKillSwitch, Leave
  <2>2. CASE KillSwitchLost(p)
    BY <2>2 DEF KillSwitchLost, Leave
  <2>3. CASE Done(p)
    BY <2>3 DEF Done, Leave
  <2> QED BY <1>11, <2>1, <2>2, <2>3
<1>12. ASSUME NEW p \in Processes, Stop(p)
       PROVE  MigrationTypeOK'
  BY <1>12 DEF Stop
<1> QED BY <1>1, <1>2, <1>3, <1>4, <1>5, <1>6, <1>7, <1>8, <1>9, <1>10, <1>11, <1>12
        DEF MigrationNext, Step

\* flock is asked for while nobody has it.
LEMMA AloneStep ==
  ASSUME LogInvariant, MigrationNext
  PROVE  Alone'
<1> USE DEF LogInvariant, MigrationTypeOK, Alone, Inside
<1>1. CASE Clear
  BY <1>1 DEF Clear
<1>2. ASSUME NEW p \in Processes, Lock(p)
      PROVE  Alone'
  BY <1>2 DEF Lock
<1>3. ASSUME NEW p \in Processes, Refuse(p) \/ Queue(p) \/ Stop(p)
      PROVE  Alone'
  BY <1>3 DEF Refuse, Queue, Stop
<1>4. ASSUME NEW p \in Processes, Baseline(p) \/ Read(p) \/ PrepareFails(p)
      PROVE  Alone'
  BY <1>4 DEF Baseline, Read, PrepareFails, Leave
<1>5. ASSUME NEW p \in Processes, Begin(p) \/ (\E q \in Processes : BeginBusy(p, q))
      PROVE  Alone'
  BY <1>5 DEF Begin, BeginBusy
<1>6. ASSUME NEW p \in Processes, Commit(p) \/ RollBack(p)
      PROVE  Alone'
  BY <1>6 DEF Commit, RollBack
<1>7. ASSUME NEW p \in Processes, WriteKillSwitch(p) \/ KillSwitchLost(p) \/ Done(p)
      PROVE  Alone'
  BY <1>7 DEF WriteKillSwitch, KillSwitchLost, Done, Leave
<1> QED BY <1>1, <1>2, <1>3, <1>4, <1>5, <1>6, <1>7 DEF MigrationNext, Step

\* Only the holder of the lock changes what was applied.
LEMMA LogStep ==
  ASSUME LogInvariant, MigrationNext
  PROVE  ReadIsCurrent' /\ SchemaMatchesLog' /\ UpsAreLogged'
<1> DEFINE Goal == ReadIsCurrent' /\ SchemaMatchesLog' /\ UpsAreLogged'
<1> USE DEF LogInvariant, MigrationTypeOK
<1>1. ASSUME UNCHANGED <<database, seen, at>>
      PROVE  Goal
  BY <1>1 DEF database, ReadIsCurrent, SchemaMatchesLog, UpsAreLogged, Pending
<1>2. ASSUME NEW p \in Processes, NEW place \in Places \ {"migrating", "inTxn"},
             at' = [at EXCEPT ![p] = place], UNCHANGED <<database, seen>>
      PROVE  Goal
  BY <1>2 DEF database, ReadIsCurrent, SchemaMatchesLog, UpsAreLogged, Pending
<1>3. ASSUME NEW p \in Processes, Stop(p)
      PROVE  Goal
  BY <1>3 DEF Stop, database, ReadIsCurrent, SchemaMatchesLog, UpsAreLogged, Pending
<1>4. ASSUME NEW p \in Processes, Baseline(p)
      PROVE  Goal
  <2>1. \A q \in Processes : at[q] \notin {"migrating", "inTxn"}
    BY <1>4 DEF Baseline, Alone, Inside
  <2>2. ReadIsCurrent'
    BY <1>4, <2>1 DEF Baseline, ReadIsCurrent
  <2>3. applied' = 1..userVersion'
    BY <1>4 DEF Baseline
  <2>4. applied = {} /\ applied' = {1} /\ ups' = ups
    BY <1>4 DEF Baseline, ToBaseline
  <2>5. SchemaMatchesLog' /\ UpsAreLogged'
    BY <2>3, <2>4, RegistryFacts DEF SchemaMatchesLog, UpsAreLogged
  <2> QED BY <2>2, <2>5
<1>5. ASSUME NEW p \in Processes, Read(p)
      PROVE  Goal
  BY <1>5 DEF Read, database, ReadIsCurrent, SchemaMatchesLog, UpsAreLogged, Pending
<1>6. ASSUME NEW p \in Processes, Begin(p)
      PROVE  Goal
  BY <1>6 DEF Begin, database, ReadIsCurrent, SchemaMatchesLog, UpsAreLogged, Pending
<1>7. ASSUME NEW p \in Processes, Commit(p)
      PROVE  Goal
  <2> DEFINE v == NextVersion(p)
  <2>1. v = userVersion + 1 /\ v \in Versions /\ v \notin applied
    BY <1>7, CommitIsNext DEF Commit
  <2>2. /\ applied' = applied \cup {v} /\ userVersion' = v
        /\ ups' = [ups EXCEPT ![v] = @ + 1]
        /\ seen' = [seen EXCEPT ![p] = @ \cup {v}]
        /\ at' = [at EXCEPT ![p] = "migrating"] /\ at[p] = "inTxn"
    BY <1>7 DEF Commit
  <2>3. \A q \in Processes \ {p} : at'[q] \notin {"migrating", "inTxn"}
    BY <2>2 DEF Alone, Inside
  <2>4. seen'[p] = applied' /\ at'[p] = "migrating"
    BY <2>2 DEF ReadIsCurrent
  <2>5. ReadIsCurrent'
    BY <2>3, <2>4 DEF ReadIsCurrent
  <2>6. applied' = 1..userVersion'
    BY <2>1, <2>2 DEF SchemaMatchesLog
  <2>7. ups[v] = 0 /\ ups'[v] = 1
    BY <2>1, <2>2 DEF UpsAreLogged
  <2>8. \A w \in Versions : w # v => ups'[w] = ups[w] /\ (w \in applied' <=> w \in applied)
    BY <2>2
  <2>9. SchemaMatchesLog' /\ UpsAreLogged'
    BY <2>1, <2>2, <2>6, <2>7, <2>8 DEF SchemaMatchesLog, UpsAreLogged
  <2> QED BY <2>5, <2>9
<1>8. ASSUME NEW p \in Processes,
             Refuse(p) \/ Queue(p) \/ Lock(p) \/ PrepareFails(p) \/ RollBack(p)
               \/ (\E q \in Processes : BeginBusy(p, q))
               \/ WriteKillSwitch(p) \/ KillSwitchLost(p) \/ Done(p)
      PROVE  \E place \in Places \ {"migrating", "inTxn"} :
               at' = [at EXCEPT ![p] = place] /\ UNCHANGED <<database, seen>>
  BY <1>8 DEF Refuse, Queue, Lock, PrepareFails, RollBack, BeginBusy, WriteKillSwitch,
              KillSwitchLost, Done, Leave, Places
<1>9. CASE Clear
  BY <1>1, <1>9 DEF Clear
<1>10. ASSUME NEW p \in Processes,
              Refuse(p) \/ Queue(p) \/ Lock(p) \/ PrepareFails(p) \/ RollBack(p)
                \/ (\E q \in Processes : BeginBusy(p, q))
                \/ WriteKillSwitch(p) \/ KillSwitchLost(p) \/ Done(p)
       PROVE  Goal
  BY <1>2, <1>8, <1>10
<1> QED BY <1>3, <1>4, <1>5, <1>6, <1>7, <1>9, <1>10 DEF MigrationNext, Step

\* Before the first boot nothing is applied and nobody is inside run.
LEMMA LogInvariantInit == MigrationInit => LogInvariant
<1> SUFFICES ASSUME MigrationInit PROVE LogInvariant
  OBVIOUS
<1> USE MigrationAssumption DEF MigrationInit
<1>1. MigrationTypeOK
  BY DEF MigrationTypeOK, Places
<1>2. Alone /\ ReadIsCurrent
  BY DEF Alone, Inside, ReadIsCurrent
<1>3. applied = 1..userVersion
  OBVIOUS
<1>4. SchemaMatchesLog /\ UpsAreLogged
  BY <1>3 DEF SchemaMatchesLog, UpsAreLogged
<1> QED BY <1>1, <1>2, <1>4 DEF LogInvariant

\* The invariant is inductive.
LEMMA LogInvariantStep == LogInvariant /\ [MigrationNext]_migrationVars => LogInvariant'
<1> SUFFICES ASSUME LogInvariant, [MigrationNext]_migrationVars PROVE LogInvariant'
  OBVIOUS
<1>1. CASE MigrationNext
  BY <1>1, TypeStep, AloneStep, LogStep DEF LogInvariant
<1>2. CASE UNCHANGED migrationVars
  BY <1>2 DEF migrationVars, database, LogInvariant, MigrationTypeOK, Alone, Inside,
              ReadIsCurrent, Pending, SchemaMatchesLog, UpsAreLogged
<1> QED BY <1>1, <1>2

\* So it holds in every reachable state.
LEMMA LogInvariantHolds == MigrationSpec => []LogInvariant
  BY LogInvariantInit, LogInvariantStep, PTL DEF MigrationSpec

-----------------------------------------------------------------------------
\* Types, and the lock and the transaction are with the processes that are inside run.
THEOREM MigrationTypesHold == MigrationSpec => []MigrationTypeOK
<1>1. LogInvariant => MigrationTypeOK
  BY DEF LogInvariant
<1> QED BY <1>1, LogInvariantHolds, PTL

\* schema_migrations, user_version and the statements that ran agree in every state,
\* for any number of processes of any releases: the flock excludes two runs, and the
\* row of a version is committed with its statements.
THEOREM SchemaIsItsLog == MigrationSpec => []SchemaMatchesLog
<1>1. LogInvariant => SchemaMatchesLog
  BY DEF LogInvariant
<1> QED BY <1>1, LogInvariantHolds, PTL

-----------------------------------------------------------------------------
\* A step that keeps the boots smooth keeps what that implies: a process that finds the
\* write lock taken finds an older release there, and then they are smooth no longer.
LEMMA SmoothStep ==
  ASSUME LogInvariant, SmoothBoots, MigrationNext, Smooth'
  PROVE  SmoothBoots'
<1> USE DEF LogInvariant, MigrationTypeOK
<1>1. faults' >= faults /\ blocked \subseteq blocked'
  BY DEF MigrationNext, Step, Clear, Refuse, Queue, Lock, Stop, Baseline, Read, PrepareFails,
         Begin, BeginBusy, Commit, RollBack, WriteKillSwitch, KillSwitchLost, Done, Fault
<1>2. faults' = 0 /\ faults = 0 /\ Smooth
  BY <1>1 DEF Smooth
<1>3. /\ blocked = {} /\ ~killSwitch
      /\ \A p \in Processes :
           at[p] # "failed" /\ (at[p] = "serving" => Registry(p) \subseteq applied)
  BY <1>2 DEF SmoothBoots
<1>4. ~Fault
  BY <1>2 DEF Fault
<1>5. CASE Clear
  BY <1>3, <1>5 DEF Clear
<1>6. ASSUME NEW p \in Processes, Queue(p) \/ Lock(p) \/ Read(p) \/ Begin(p) \/ Stop(p)
      PROVE  SmoothBoots'
  BY <1>3, <1>6 DEF Queue, Lock, Read, Begin, Stop, database, SmoothBoots
<1>7. ASSUME NEW p \in Processes, Refuse(p) \/ WriteKillSwitch(p) \/ KillSwitchLost(p)
                                  \/ PrepareFails(p)
      PROVE  FALSE
  BY <1>3, <1>4, <1>7 DEF Refuse, WriteKillSwitch, KillSwitchLost, PrepareFails
<1>8. ASSUME NEW p \in Processes, Baseline(p)
      PROVE  SmoothBoots'
  BY <1>3, <1>8 DEF Baseline, ToBaseline, SmoothBoots
<1>9. ASSUME NEW p \in Processes, NEW q \in Processes, BeginBusy(p, q)
      PROVE  FALSE
  <2>1. at[q] = "serving"
    BY <1>9 DEF BeginBusy, Alone, Inside
  <2>2. Registry(q) \subseteq applied /\ seen[p] = applied /\ ~(Registry(p) \subseteq applied)
    BY <1>3, <1>9, <2>1 DEF BeginBusy, ReadIsCurrent, Pending
  <2>3. Target[q] < Target[p]
    BY <2>2, RegistryFacts
  <2>4. <<p, q>> \in blocked'
    BY <1>9 DEF BeginBusy
  <2> QED BY <2>3, <2>4 DEF Smooth
<1>10. ASSUME NEW p \in Processes, Commit(p)
       PROVE  SmoothBoots'
  <2>1. applied \subseteq applied' /\ UNCHANGED <<blocked, killSwitch>>
        /\ at' = [at EXCEPT ![p] = "migrating"]
    BY <1>10 DEF Commit
  <2> QED BY <1>3, <2>1 DEF SmoothBoots
<1>11. ASSUME NEW p \in Processes, RollBack(p)
       PROVE  FALSE
  BY <1>4, <1>11, CommitIsNext DEF RollBack
<1>12. ASSUME NEW p \in Processes, Done(p)
       PROVE  SmoothBoots'
  <2>1. Registry(p) \subseteq applied
    BY <1>12 DEF Done, ReadIsCurrent, Pending
  <2>2. at' = [at EXCEPT ![p] = "serving"] /\ UNCHANGED <<applied, blocked, killSwitch>>
    BY <1>12 DEF Done, Leave, database
  <2> QED BY <1>3, <2>1, <2>2 DEF SmoothBoots
<1> QED BY <1>5, <1>6, <1>7, <1>8, <1>9, <1>10, <1>11, <1>12 DEF MigrationNext, Step

\* From the first failure or upgrade on there is nothing to show.
LEMMA SmoothBootsHold == MigrationSpec => []SmoothBoots
<1>1. MigrationInit => SmoothBoots
  BY DEF MigrationInit, SmoothBoots
<1>2. LogInvariant /\ SmoothBoots /\ [MigrationNext]_migrationVars => SmoothBoots'
  <2> SUFFICES ASSUME LogInvariant, SmoothBoots, [MigrationNext]_migrationVars
               PROVE  SmoothBoots'
    OBVIOUS
  <2>1. CASE MigrationNext /\ Smooth'
    BY <2>1, SmoothStep
  <2>2. CASE ~Smooth'
    BY <2>2 DEF SmoothBoots
  <2>3. CASE UNCHANGED migrationVars
    BY <2>3 DEF migrationVars, SmoothBoots, Smooth
  <2> QED BY <2>1, <2>2, <2>3
<1> QED BY <1>1, <1>2, LogInvariantHolds, PTL DEF MigrationSpec

\* Processes that know the same versions never make one another fail: a BEGIN IMMEDIATE
\* that meets another process's write presupposes an older release or a failure.
THEOREM ClashesComeFromUpgrades == MigrationSpec => []ClashesNeedAnUpgrade
<1>1. LogInvariant /\ SmoothBoots => ClashesNeedAnUpgrade
  BY DEF LogInvariant, MigrationTypeOK, SmoothBoots, Smooth, ClashesNeedAnUpgrade
<1> QED BY <1>1, LogInvariantHolds, SmoothBootsHold, PTL

-----------------------------------------------------------------------------
\* Nobody comes to wait for the lock while the kill switch is there, and who writes it
\* notes who already does.
LEMMA BootStep ==
  ASSUME MigrationTypeOK, KillSwitchStopsLaterBoots, MigrationNext
  PROVE  KillSwitchStopsLaterBoots'
<1> USE DEF MigrationTypeOK, KillSwitchStopsLaterBoots
<1>1. CASE Clear
  BY <1>1 DEF Clear
<1>2. ASSUME NEW p \in Processes, Refuse(p) \/ Queue(p) \/ Stop(p)
      PROVE  KillSwitchStopsLaterBoots'
  BY <1>2 DEF Refuse, Queue, Stop
<1>3. ASSUME NEW p \in Processes, Lock(p) \/ Baseline(p) \/ Read(p) \/ PrepareFails(p)
      PROVE  KillSwitchStopsLaterBoots'
  BY <1>3 DEF Lock, Baseline, Read, PrepareFails, Leave
<1>4. ASSUME NEW p \in Processes, Begin(p) \/ (\E q \in Processes : BeginBusy(p, q))
                                  \/ Commit(p) \/ RollBack(p)
      PROVE  KillSwitchStopsLaterBoots'
  BY <1>4 DEF Begin, BeginBusy, Commit, RollBack
<1>5. ASSUME NEW p \in Processes, WriteKillSwitch(p) \/ KillSwitchLost(p) \/ Done(p)
      PROVE  KillSwitchStopsLaterBoots'
  BY <1>5 DEF WriteKillSwitch, KillSwitchLost, Done, Leave
<1> QED BY <1>1, <1>2, <1>3, <1>4, <1>5 DEF MigrationNext, Step

\* A process that starts after the kill switch was written does not migrate.
THEOREM LaterBootsAreStopped == MigrationSpec => []KillSwitchStopsLaterBoots
<1>1. MigrationInit => KillSwitchStopsLaterBoots
  BY DEF MigrationInit, KillSwitchStopsLaterBoots
<1>2. LogInvariant /\ KillSwitchStopsLaterBoots /\ [MigrationNext]_migrationVars
        => KillSwitchStopsLaterBoots'
  <2>1. CASE UNCHANGED migrationVars
    BY <2>1 DEF migrationVars, KillSwitchStopsLaterBoots
  <2>2. CASE MigrationNext
    BY <2>2, BootStep DEF LogInvariant
  <2> QED BY <2>1, <2>2
<1> QED BY <1>1, <1>2, LogInvariantHolds, PTL DEF MigrationSpec
=============================================================================

--------------------------- MODULE MigrationRunner ---------------------------
(***************************************************************************)
(* MigrationRunner.run: the processes that open the session database (the  *)
(* app, the MCP server, command line calls, of one release or of two)      *)
(* bring its schema up to the last version they know, under a flock on     *)
(* `<db>.migrating`.  A migration is one transaction: its statements, its  *)
(* row in schema_migrations and PRAGMA user_version.  After a failed one   *)
(* the process leaves the kill switch `<db>.schema.lock`; later boots find *)
(* it and do not migrate until the operator has removed it.                *)
(*                                                                         *)
(* Whatever run does, SessionDatabase logs it and goes on: the process     *)
(* serves, and writes to the database now and then.  No busy timeout is    *)
(* set, so BEGIN IMMEDIATE fails if it meets such a write.                 *)
(***************************************************************************)
EXTENDS Naturals, FiniteSets

CONSTANTS
  Processes,
  Target,      \* the last version in the registry of each process
  Nobody,
  MaxFaults    \* bound: failures of a statement, of flock or of a file write

ASSUME MigrationAssumption ==
  /\ Target \in [Processes -> Nat \ {0}]
  /\ Nobody \notin Processes
  /\ MaxFaults \in Nat

VARIABLES
  applied,      \* the versions in schema_migrations
  userVersion,  \* PRAGMA user_version
  legacy,       \* the tables have the columns of before schema_migrations
  killSwitch,   \* `<db>.schema.lock` exists
  flock,        \* who holds the lock on `<db>.migrating`
  writer,       \* whose transaction holds the database's write lock
  at,           \* where each process is in run
  seen,         \* per process: the applied versions it read
  ups,          \* per version: times its statements were committed (history)
  early,        \* who had passed the check when the kill switch was written (history)
  blocked,      \* who found the write lock taken, and by whom (history)
  faults

migrationVars == <<applied, userVersion, legacy, killSwitch, flock, writer, at, seen,
                   ups, early, blocked, faults>>
database == <<applied, userVersion, ups>>

-----------------------------------------------------------------------------
Registry(p) == 1..Target[p]
Versions == UNION {Registry(p) : p \in Processes}

\* off; past the kill switch and waiting for the lock; holding it; applying
\* migrations; in a transaction; rolled back; and after run.
Places == {"off", "queued", "locked", "migrating", "inTxn", "failed", "serving"}

Pending(p) == Registry(p) \ seen[p]

\* A slip: the registry is not sorted.
LastVersion(p) == CHOOSE v \in Pending(p) : \A w \in Pending(p) : w <= v

\* The migration the loop of p comes to next.
NextVersion(p) == CHOOSE v \in Pending(p) : \A w \in Pending(p) : v <= w

\* baselineIfNeeded finds an install of before schema_migrations.
ToBaseline == legacy /\ applied = {}

Fault ==
  /\ faults < MaxFaults
  /\ faults' = faults + 1

\* run returns or throws; `defer` gives the lock back.
Leave(p) ==
  /\ at' = [at EXCEPT ![p] = "serving"]
  /\ flock' = flock \ {p}

-----------------------------------------------------------------------------
MigrationInit ==
  /\ applied = {} /\ userVersion = 0
  /\ legacy \in BOOLEAN
  /\ killSwitch = FALSE
  /\ flock = {} /\ writer = Nobody
  /\ at = [p \in Processes |-> "off"]
  /\ seen = [p \in Processes |-> {}]
  /\ ups = [v \in Versions |-> 0]
  /\ early = {} /\ blocked = {}
  /\ faults = 0

\* A process starts and finds the kill switch: it serves the schema as it is.
Refuse(p) ==
  /\ at[p] = "off" /\ killSwitch
  /\ at' = [at EXCEPT ![p] = "serving"]
  /\ UNCHANGED <<database, legacy, killSwitch, flock, writer, seen, early, blocked, faults>>

\* A slip: the kill switch is not looked at.
QueueAnyway(p) ==
  /\ at[p] = "off"
  /\ at' = [at EXCEPT ![p] = "queued"]
  /\ UNCHANGED <<database, legacy, killSwitch, flock, writer, seen, early, blocked, faults>>

\* A process starts, finds none, and waits for the lock.
Queue(p) ==
  /\ at[p] = "off" /\ ~killSwitch
  /\ at' = [at EXCEPT ![p] = "queued"]
  /\ UNCHANGED <<database, legacy, killSwitch, flock, writer, seen, early, blocked, faults>>

\* A slip: the lock file is created anew, and the lock is on another inode.
LockNewFile(p) ==
  /\ at[p] = "queued"
  /\ flock' = flock \cup {p}
  /\ at' = [at EXCEPT ![p] = "locked"]
  /\ UNCHANGED <<database, legacy, killSwitch, writer, seen, early, blocked, faults>>

\* flock(LOCK_EX) returns.
Lock(p) ==
  /\ at[p] = "queued" /\ flock = {}
  /\ flock' = {p}
  /\ at' = [at EXCEPT ![p] = "locked"]
  /\ UNCHANGED <<database, legacy, killSwitch, writer, seen, early, blocked, faults>>

\* baselineIfNeeded: version 1 is recorded, its statements are not run.
Baseline(p) ==
  /\ at[p] = "locked" /\ ToBaseline
  /\ writer = Nobody
  /\ applied' = {1} /\ userVersion' = 1
  /\ UNCHANGED <<ups, legacy, killSwitch, flock, writer, at, seen, early, blocked, faults>>

\* readAppliedVersions
Read(p) ==
  /\ at[p] = "locked" /\ ~ToBaseline
  /\ seen' = [seen EXCEPT ![p] = applied]
  /\ at' = [at EXCEPT ![p] = "migrating"]
  /\ UNCHANGED <<database, legacy, killSwitch, flock, writer, early, blocked, faults>>

\* open, flock or a statement before the loop fails: run throws, and no kill switch
\* is written.
PrepareFails(p) ==
  /\ at[p] \in {"queued", "locked"}
  /\ Fault
  /\ Leave(p)
  /\ UNCHANGED <<database, legacy, killSwitch, writer, seen, early, blocked>>

-----------------------------------------------------------------------------
\* BEGIN IMMEDIATE
Begin(p) ==
  /\ at[p] = "migrating" /\ Pending(p) # {}
  /\ writer = Nobody
  /\ writer' = p
  /\ at' = [at EXCEPT ![p] = "inTxn"]
  /\ UNCHANGED <<database, legacy, killSwitch, flock, seen, early, blocked, faults>>

\* Another process has the write lock, for a migration or for a write of its own.
BeginBusy(p, q) ==
  /\ at[p] = "migrating" /\ Pending(p) # {}
  /\ q # p /\ (writer = q \/ at[q] = "serving")
  /\ at' = [at EXCEPT ![p] = "failed"]
  /\ blocked' = blocked \cup {<<p, q>>}
  /\ UNCHANGED <<database, legacy, killSwitch, flock, writer, seen, early, faults>>

\* The migration, its row, user_version and COMMIT.
Commit(p) ==
  LET v == NextVersion(p) IN
  /\ at[p] = "inTxn" /\ v \notin applied
  /\ applied' = applied \cup {v}
  /\ userVersion' = v
  /\ ups' = [ups EXCEPT ![v] = @ + 1]
  /\ seen' = [seen EXCEPT ![p] = @ \cup {v}]
  /\ writer' = Nobody
  /\ at' = [at EXCEPT ![p] = "migrating"]
  /\ UNCHANGED <<legacy, killSwitch, flock, early, blocked, faults>>

\* A statement of it fails, as the INSERT of a version that is there already must.
RollBack(p) ==
  /\ at[p] = "inTxn"
  /\ \/ NextVersion(p) \in applied /\ UNCHANGED faults
     \/ Fault
  /\ writer' = Nobody
  /\ at' = [at EXCEPT ![p] = "failed"]
  /\ UNCHANGED <<database, legacy, killSwitch, flock, seen, early, blocked>>

\* A slip: the lock is given back only by a run that succeeds.
WriteKillSwitchLocked(p) ==
  /\ at[p] = "failed"
  /\ killSwitch' = TRUE
  /\ early' = {q \in Processes \ {p} : at[q] \notin {"off", "serving"}}
  /\ at' = [at EXCEPT ![p] = "serving"]
  /\ UNCHANGED <<database, legacy, flock, writer, seen, blocked, faults>>

\* The kill switch is written, and run throws.
WriteKillSwitch(p) ==
  /\ at[p] = "failed"
  /\ killSwitch' = TRUE
  /\ early' = {q \in Processes \ {p} : at[q] \notin {"off", "serving"}}
  /\ Leave(p)
  /\ UNCHANGED <<database, legacy, writer, seen, blocked, faults>>

\* It cannot be written; `try?` hides that.
KillSwitchLost(p) ==
  /\ at[p] = "failed"
  /\ Fault
  /\ Leave(p)
  /\ UNCHANGED <<database, legacy, killSwitch, writer, seen, early, blocked>>

\* Nothing is left to apply.
Done(p) ==
  /\ at[p] = "migrating" /\ Pending(p) = {}
  /\ Leave(p)
  /\ UNCHANGED <<database, legacy, killSwitch, writer, seen, early, blocked, faults>>

-----------------------------------------------------------------------------
\* The process ends or is killed.  The system gives back its locks and SQLite rolls
\* its transaction back.
Stop(p) ==
  /\ at[p] # "off"
  /\ at' = [at EXCEPT ![p] = "off"]
  /\ flock' = flock \ {p}
  /\ writer' = IF writer = p THEN Nobody ELSE writer
  /\ seen' = [seen EXCEPT ![p] = {}]
  /\ early' = early \ {p}
  /\ UNCHANGED <<database, legacy, killSwitch, blocked, faults>>

\* The operator has looked at the database and removes the kill switch.
Clear ==
  /\ killSwitch
  /\ killSwitch' = FALSE
  /\ early' = {}
  /\ UNCHANGED <<database, legacy, flock, writer, at, seen, blocked, faults>>

\* What a process does of itself once it has started.
Step(p) ==
  \/ Baseline(p) \/ Read(p) \/ PrepareFails(p)
  \/ Begin(p) \/ (\E q \in Processes : BeginBusy(p, q))
  \/ Commit(p) \/ RollBack(p)
  \/ WriteKillSwitch(p) \/ KillSwitchLost(p) \/ Done(p)

MigrationNext ==
  \/ \E p \in Processes : Refuse(p) \/ Queue(p) \/ Lock(p) \/ Step(p) \/ Stop(p)
  \/ Clear

\* A process goes on with what it does, and the system gives the lock to every
\* process that waits for it.
MigrationSpec ==
  /\ MigrationInit /\ [][MigrationNext]_migrationVars
  /\ \A p \in Processes : WF_migrationVars(Step(p)) /\ SF_migrationVars(Lock(p))

-----------------------------------------------------------------------------
\* Types.  A process inside run has the lock, and a transaction is its owner's.
MigrationTypeOK ==
  /\ applied \subseteq Versions /\ userVersion \in Nat
  /\ legacy \in BOOLEAN /\ killSwitch \in BOOLEAN
  /\ flock \subseteq Processes /\ writer \in Processes \cup {Nobody}
  /\ at \in [Processes -> Places]
  /\ seen \in [Processes -> SUBSET Versions]
  /\ ups \in [Versions -> Nat]
  /\ early \subseteq Processes /\ blocked \subseteq Processes \X Processes
  /\ faults \in Nat
  /\ flock = {p \in Processes : at[p] \in {"locked", "migrating", "inTxn", "failed"}}
  /\ \A p \in Processes : (writer = p <=> at[p] = "inTxn")

\* The log and its cache in the header agree, the applied versions are the first
\* ones, and no migration ran twice: whoever raced, was killed or failed, and
\* whichever release it was.
SchemaMatchesLog ==
  /\ applied = 1..userVersion
  /\ \A v \in Versions : ups[v] <= 1 /\ (v > 1 => (ups[v] = 1 <=> v \in applied))

\* A migration meets another process's transaction only at an upgrade, when a process
\* of the older release still writes, or after a failure.  Processes of one release
\* that start together never trip the kill switch over one another.
ClashesNeedAnUpgrade ==
  blocked # {} => faults > 0 \/ \E b \in blocked : Target[b[2]] < Target[b[1]]

\* While the kill switch is there, the only processes that still migrate are those
\* that had passed the check before it was written: they do not look again when
\* they get the lock.
KillSwitchStopsLaterBoots ==
  killSwitch => \A p \in Processes : at[p] \in {"off", "serving"} \/ p \in early

\* A process that starts to wait for the lock comes to serve, unless it is stopped:
\* every way out of run gives the lock back.
EveryBootEnds ==
  \A p \in Processes : (at[p] = "queued" ~> at[p] \in {"serving", "off"})
=============================================================================

----------------------------- MODULE WorkLedger -----------------------------
(***************************************************************************)
(* What the durable work queue promises its callers, with leases, owners,  *)
(* clocks and crashes left out: a job is submitted once, it is settled     *)
(* (done or buried) once, and the effect of a job is persisted at most     *)
(* once and only by the step that makes the job done.  Burying a job is    *)
(* not final: an operator may reopen it.                                   *)
(***************************************************************************)
EXTENDS Naturals

CONSTANT Jobs

VARIABLES phase, effects

ledgerVars == <<phase, effects>>

Phases == {"absent", "open", "done", "buried"}

LedgerTypeOK ==
  /\ phase \in [Jobs -> Phases]
  /\ effects \in [Jobs -> Nat]

LedgerInit ==
  /\ phase = [j \in Jobs |-> "absent"]
  /\ effects = [j \in Jobs |-> 0]

Move(j, from, to) ==
  /\ phase[j] = from
  /\ phase' = [phase EXCEPT ![j] = to]

Submit(j) == Move(j, "absent", "open") /\ UNCHANGED effects

\* Done with an effect persisted in the same step (ackWorkOnCommit), or
\* with the effect outside the database (ack).
Complete(j) ==
  /\ Move(j, "open", "done")
  /\ effects' \in {effects, [effects EXCEPT ![j] = @ + 1]}

Bury(j) == Move(j, "open", "buried") /\ UNCHANGED effects

Reopen(j) == Move(j, "buried", "open") /\ UNCHANGED effects

LedgerNext == \E j \in Jobs : Submit(j) \/ Complete(j) \/ Bury(j) \/ Reopen(j)

LedgerSpec == LedgerInit /\ [][LedgerNext]_ledgerVars
=============================================================================

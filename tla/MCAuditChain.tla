---------------------------- MODULE MCAuditChain ----------------------------
(***************************************************************************)
(* Instances of AuditChain for TLC.                                        *)
(***************************************************************************)
EXTENDS AuditChain, TLC

CONSTANTS server, other

\* A server that stores results through the bus and browser results, and a process
\* that stores results as the command line does, and repairs.
ServerAndOther == server :> {"outbox", "browser"} @@ other :> {"insert", "repair"}
=============================================================================

---------------------------- MODULE MCEventStream ----------------------------
(***************************************************************************)
(* Instances of EventStream for TLC: two task names for one consumer in    *)
(* process p1 (a cancelled task and its successor), one in process p2.     *)
(***************************************************************************)
EXTENDS EventStream, TLC

CONSTANTS p1, p2, old, new, other

LoopsOfTwo == old :> p1 @@ new :> p1 @@ other :> p2
LoopsOfOne == [l \in Loops |-> p1]

ForTimeline == [l \in Loops |-> "agent_timeline"]

\* AgentTimelineStreamConsumer.sourceTables, of the tables of the model.
TimelineTables == [c \in Consumers |-> {"token_events"}]
=============================================================================

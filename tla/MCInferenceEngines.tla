------------------------- MODULE MCInferenceEngines -------------------------
(***************************************************************************)
(* Instances of InferenceEngines for TLC: the sessions of one MCP server.  *)
(***************************************************************************)
EXTENDS InferenceEngines, TLC

CONSTANTS t1, t2, t3, siteA, siteB

\* A vision client, an embed client, and one of every use of the embedding engine.
OneOfEach == t1 :> {"infer"} @@ t2 :> {"embedCall"}
             @@ t3 :> {"embedCall", "embedStrings", "ranks"}

EmbedClients == [t \in Tasks |-> {"embedCall"}]
=============================================================================

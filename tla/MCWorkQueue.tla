----------------------------- MODULE MCWorkQueue -----------------------------
(***************************************************************************)
(* Instances of WorkQueue for TLC: where the workers run, and the kinds of *)
(* the rows.                                                               *)
(***************************************************************************)
EXTENDS WorkQueue, TLC

CONSTANTS w1, w2, p1, p2

\* Both workers in one process: their calls exclude each other.
OneHome == [w \in {w1, w2} |-> p1]

\* One worker in each of two processes that share the database file.
TwoHomes == w1 :> p1 @@ w2 :> p2

\* Rows of two kinds, alternating.
AlternateKinds == [j \in Jobs |-> IF j % 2 = 1 THEN "auto_validate" ELSE "pane_refresh"]

\* Swapping the two workers together with their processes changes nothing.
SwapHomes == {[x \in {w1, w2, p1, p2} |-> x],
              w1 :> w2 @@ w2 :> w1 @@ p1 :> p2 @@ p2 :> p1}

OneKind == [j \in Jobs |-> "auto_validate"]
=============================================================================

---------------------------- MODULE MCFillPlanner ----------------------------
(***************************************************************************)
(* The planner on small instances.                                         *)
(***************************************************************************)
EXTENDS FillPlanner, TLC

CONSTANTS k1, k2, k3, k4, TopK

\* Every gate decision of TopK distinct experts, in the gate's order.
MCRoutes == {r \in [1 .. TopK -> Keys] : \A i, j \in 1 .. TopK : r[i] = r[j] => i = j}

MCOrder == <<k1, k2>>
MCOrder0 == <<>>
MCPathB == {}

\* With nothing to backfill, the experts other than ExpertKey{} are alike.
OtherKeys == Permutations({k2, k3})

=============================================================================

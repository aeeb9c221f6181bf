------------------------------ MODULE MCGroup -------------------------------
(* Instances of Group for TLC: three computers that are alike, and threads  *)
(* that are.                                                                *)
EXTENDS Group, TLC

Alike ==
    {f @@ g : f \in Permutations(Computers), g \in Permutations(Joins)}
=============================================================================

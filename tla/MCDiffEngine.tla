----------------------------- MODULE MCDiffEngine -----------------------------
(* Instances of DiffEngine for TLC: the bounds are in the .cfg files.        *)
EXTENDS DiffEngine, TLC

(* Amounts are only compared for equality; the run that uses this checks no  *)
(* liveness.                                                                 *)
Symmetry == Permutations(Values)

===============================================================================

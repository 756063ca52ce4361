------------------------------ MODULE MCRmcVec ------------------------------
(* Instances of RmcVec: two handles, so that vectors are appended, split   *)
(* and cloned while both have a history.                                   *)
EXTENDS RmcVec, TLC

Symmetry == Permutations(Handles) \cup Permutations(Values)
=============================================================================

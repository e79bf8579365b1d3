--------------------------- MODULE MCFsmStoragePy ---------------------------
(* No task, key or field is distinguished from another one: the            *)
(* specification names none, and the run checks no liveness.               *)
EXTENDS FsmStoragePy, TLC

Symmetry == Permutations(Callers) \cup Permutations(Keys) \cup Permutations(Fields)
=============================================================================

---------------------------- MODULE MCRuntimeLock ----------------------------
EXTENDS RuntimeLock, TLC

(* Processes differ in nothing but their names. *)
ProcessSymmetry == Permutations(Process)
=============================================================================

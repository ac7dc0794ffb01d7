------------------------------ MODULE MCSession ------------------------------
EXTENDS SessionManager, TLC

(* Fibers of a kind differ in nothing but their names. *)
CallSymmetry == Permutations(Turn) \cup Permutations(Control)
=============================================================================

-------------------------- MODULE MCSessionHandover --------------------------
EXTENDS SessionHandover, TLC

(* The calls of a kind differ in nothing but their names. *)
CallSymmetry == Permutations(Turn) \cup Permutations(Control)
=============================================================================

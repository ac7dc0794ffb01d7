-------------------------- MODULE MCWorkspaceTurns --------------------------
(* WorkspaceTurns with two turns of one session and a window of work of one turn. *)
EXTENDS WorkspaceTurns
=============================================================================

------------------------- MODULE MCReauthentication -------------------------
(* Reauthentication with the values of the .cfg files. *)
EXTENDS Reauthentication
=============================================================================

--------------------------- MODULE MCAdapterNotices ---------------------------
(* AdapterNotices with the values of the .cfg file. *)
EXTENDS AdapterNotices
=============================================================================

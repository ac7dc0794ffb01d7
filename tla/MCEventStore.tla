---------------------------- MODULE MCEventStore ----------------------------
(* EventStore on a ring of three events or two lines of bytes, and a queue of two writes. *)
EXTENDS EventStore
=============================================================================

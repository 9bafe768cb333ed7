----------------------------- MODULE MCEventStore -----------------------------
(* TLC instances of EventStore. *)
EXTENDS EventStore
=============================================================================

--------------------------- MODULE MCResilientCall ---------------------------
(* TLC instances of ResilientCall: see resilience.cfg. *)
EXTENDS ResilientCall
=============================================================================

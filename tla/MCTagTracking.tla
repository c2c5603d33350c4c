--------------------------- MODULE MCTagTracking ---------------------------
(* TagTracking on small instances. *)
EXTENDS TagTracking
=============================================================================

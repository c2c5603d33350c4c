------------------------------ MODULE MCNodeOta ------------------------------
(* NodeOta on a small instance. *)
EXTENDS NodeOta
=============================================================================

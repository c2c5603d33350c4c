--------------------------- MODULE MCProvisioning ---------------------------
(* Provisioning on small instances. *)
EXTENDS Provisioning
=============================================================================

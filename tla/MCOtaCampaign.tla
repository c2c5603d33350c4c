---------------------------- MODULE MCOtaCampaign ----------------------------
(* OtaCampaign on a small instance. *)
EXTENDS OtaCampaign
=============================================================================

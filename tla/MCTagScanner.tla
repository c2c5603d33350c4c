---------------------------- MODULE MCTagScanner ----------------------------
(* TagScanner on a small instance.  The tags start alike and nothing tells them apart. *)
EXTENDS TagScanner, TLC

Alike == Permutations(Tag)
=============================================================================

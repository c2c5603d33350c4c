---------------------------- MODULE MCMeshHealth ----------------------------
(* MeshHealth for TLC. *)
EXTENDS MeshHealth

\* Slot 1 is a relay, slot 2, if there is one, a scanner.
RelayThenScanner == {2}
ScannerOnly      == {1}
=============================================================================

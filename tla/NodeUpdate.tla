----------------------------- MODULE NodeUpdate -----------------------------
(* What a relay or scanner promises about its firmware: it only ever moves to newer images, *)
(* and it tells the gateway of a success only after a newer image was installed, which it    *)
(* then runs or boots next.  That a success is told is no promise: the result can be lost.   *)
EXTENDS Naturals

VARIABLES
  running,    \* the version the node runs
  installed,  \* the version in the partition it boots next
  owed,       \* whether a success has yet to be told
  told        \* the version the last success was told for

vars == <<running, installed, owed, told>>

Init == running = 0 /\ installed = 0 /\ owed = FALSE /\ told = 0

\* A newer image is flashed and becomes the one to boot.
Install == /\ installed' \in Nat /\ installed' > running
           /\ owed' = TRUE
           /\ UNCHANGED <<running, told>>
\* The node starts again, whatever the reason; a power cut can cost the pending result.
Boot == /\ running' = installed
        /\ owed' \in {owed, FALSE}
        /\ UNCHANGED <<installed, told>>
\* It stays owed when a further image was flashed meanwhile or the storage cannot be cleared.
Tell == /\ owed
        /\ owed' \in BOOLEAN /\ told' = installed
        /\ UNCHANGED <<running, installed>>
\* Not stored, erased, or the node is in no mesh when it is due.
Forget == owed' = FALSE /\ UNCHANGED <<running, installed, told>>

Next == Install \/ Boot \/ Tell \/ Forget
Spec == Init /\ [][Next]_vars
=============================================================================

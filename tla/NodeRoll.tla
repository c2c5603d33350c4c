------------------------------ MODULE NodeRoll ------------------------------
(* What the gateway promises about the nodes it admits, whatever tasks, messages and restarts *)
(* do: the roll names a device once, by an address of its own; it calls a device configured    *)
(* only when the device, if it is there, can be used; and it strikes a configured device off   *)
(* only when that has left the mesh, or with everything else.                                  *)
EXTENDS Naturals

CONSTANTS
  Device,
  Address     \* numbers from 1 on; 0 stands for none

VARIABLES
  roll,       \* each device: the address it is entered under, and whether it is configured
  kept,       \* the copy of the roll that a restart reads
  home,       \* the address each device has in the mesh
  ready       \* the devices that can be used: they have the key and are bound to it

vars == <<roll, kept, home, ready>>

NoEntry == [addr |-> 0, done |-> FALSE]
Empty   == [u \in Device |-> NoEntry]

Init == roll = Empty /\ kept = Empty /\ home = [u \in Device |-> 0] /\ ready = {}

\* The roll changes; the copy follows or, when storage fails, stays.
Write(r) == roll' = r /\ kept' \in {r, kept}

\* The device is reached under the address it is entered under.
Here(u) == roll[u].addr # 0 /\ roll[u].addr = home[u]

\* A device that is not on the roll gets an address that no other device has or is entered under.
Arrive(u) ==
  /\ home[u] = 0 /\ roll[u] = NoEntry
  /\ \E a \in Address :
       /\ \A v \in Device \ {u} : a \notin {home[v], roll[v].addr, kept[v].addr}
       /\ home' = [home EXCEPT ![u] = a]
  /\ UNCHANGED <<roll, kept, ready>>
\* A device forgets the mesh.
Depart(u) ==
  /\ home[u] # 0
  /\ home' = [home EXCEPT ![u] = 0] /\ ready' = ready \ {u}
  /\ UNCHANGED <<roll, kept>>
\* A device has the key and is bound to it.
Prepare(u) ==
  /\ home[u] # 0
  /\ ready' = ready \cup {u}
  /\ UNCHANGED <<roll, kept, home>>

\* A device in the mesh is entered, under its own address.
Enter(u) ==
  /\ roll[u] = NoEntry /\ home[u] # 0
  /\ Write([roll EXCEPT ![u] = [addr |-> home[u], done |-> FALSE]])
  /\ UNCHANGED <<home, ready>>
\* It is called configured.
Confirm(u) ==
  /\ roll[u] # NoEntry /\ (Here(u) => u \in ready)
  /\ Write([roll EXCEPT ![u].done = TRUE])
  /\ UNCHANGED <<home, ready>>
\* A device that was never configured, or has left the mesh, is struck off.
Strike(u) ==
  /\ ~roll[u].done \/ home[u] = 0
  /\ Write([roll EXCEPT ![u] = NoEntry])
  /\ UNCHANGED <<home, ready>>

\* The gateway restarts, or is reset in full.
Reload == roll' = kept /\ UNCHANGED <<kept, home, ready>>
Clear  == roll' = Empty /\ kept' = Empty /\ UNCHANGED <<home, ready>>

Next ==
  \/ \E u \in Device :
       Arrive(u) \/ Depart(u) \/ Prepare(u) \/ Enter(u) \/ Confirm(u) \/ Strike(u)
  \/ Reload \/ Clear
Spec == Init /\ [][Next]_vars
=============================================================================

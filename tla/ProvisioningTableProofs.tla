---------------------- MODULE ProvisioningTableProofs ----------------------
(* More theorems about Provisioning, which rest on the invariant of ProvisioningProofs: the node *)
(* table agrees with the stack's node list, an entry that is not config_done has a task that     *)
(* works on it, the entry of a healthy node stays, a configuration is given up only when enough  *)
(* went wrong, and the whole implements NodeRoll.                                                *)
EXTENDS ProvisioningProofs

\* A config task works on an entry that is not config_done yet: an address is not given to a task
\* again while its entry is.
Unfinished == \A a \in Addr : task[a].pc # "none" => \A e \in AtAddr(a) : ~e.done

\* A full reset that waits to restart has been counted.
WipeCounted == wiping => wipes > 0

\* As long as NVS writes succeed and short of a full reset, NVS has the table's entries and the
\* stack the address of each, of those too whose PROV_COMPLETE is still queued.
Agree ==
  saveFails = 0 /\ wipes = 0 =>
    /\ nvs = table
    /\ \A e \in table : stack[e.uuid] = e.addr
    /\ \A u \in Node, a \in Addr : <<u, a>> \in evt => stack[u] = a

-----------------------------------------------------------------------------
(* Tasks. *)

\* A step of an exchange is one of a task that exists, and leaves it there (cfg_send_retry).
LEMMA ExchangeGoesOn ==
  ASSUME TypeOK, NEW t \in Task, TaskStep(t), NEW a \in Addr
  PROVE  task'[a].pc = "none" <=> task[a].pc = "none"
<1>0. task \in [Task -> TaskState] /\ task[t] \in TaskState /\ a \in Task
  BY DEF TypeOK, Task
<1>1. ASSUME NEW r, r.pc # "none", task' = [task EXCEPT ![t] = r], task[t].pc # "none"
      PROVE  task'[a].pc = "none" <=> task[a].pc = "none"
  BY <1>0, <1>1
<1>2. NextTry(t).pc # "none"
  BY <1>0 DEF NextTry, TaskState
<1>3. NextStep(t).pc # "none"
  BY <1>0 DEF NextStep, TaskState, Op
<1>4. CASE Take(t) \/ SendOk(t) \/ Register(t) \/ Acked(t) \/ TimedOut(t)
  <2>1. task[t].pc # "none" /\ \E l \in {"send", "sent", "wait", "acked", "expired"} :
          task' = [task EXCEPT ![t] = [task[t] EXCEPT !.pc = l]]
    BY <1>4, <1>0 DEF Take, SendOk, Register, Acked, TimedOut, Holds
  <2>2. \A l \in {"send", "sent", "wait", "acked", "expired"} :
          [task[t] EXCEPT !.pc = l].pc # "none"
    BY <1>0 DEF TaskState
  <2>3. QED
    BY <1>1, <2>1, <2>2
<1>5. CASE SendFails(t) \/ Leave(t)
  BY <1>1, <1>2, <1>3, <1>5 DEF SendFails, Leave, Holds
<1>6. QED
  BY <1>4, <1>5 DEF TaskStep

\* A config task comes into being with PROV_COMPLETE, and ends by its own doing or a restart.
LEMMA TaskIsKept ==
  ASSUME TypeOK, [Next]_vars, NEW a \in Addr
  PROVE  \/ task'[a].pc = "none" <=> task[a].pc = "none"
         \/ \E u \in Node : ProvComplete(u, a)
         \/ Finish(a) \/ Abort(a) \/ Crash \/ WipeRestart
<1>0. task \in [Task -> TaskState] /\ a \in Task /\ a # Ping /\ Addr \subseteq Task
  BY DEF TypeOK, Task, Ping, Addr
<1>1. ASSUME NEW t \in Task, t # a, NEW r, task' = [task EXCEPT ![t] = r]
      PROVE  task'[a] = task[a]
  BY <1>0, <1>1
<1>2. ASSUME NEW t \in Task, TaskStep(t)  PROVE task'[a].pc = "none" <=> task[a].pc = "none"
  BY <1>2, ExchangeGoesOn
<1>3. ASSUME NEW b \in Addr, b # a, Finish(b) \/ Abort(b)  PROVE task'[a] = task[a]
  BY <1>0, <1>1, <1>3 DEF Finish, Abort
<1>4. ASSUME NEW e \in table, PingPick(e)  PROVE task'[a] = task[a]
  BY <1>0, <1>1, <1>4 DEF PingPick, Task
<1>5. CASE PingDone
  BY <1>0, <1>1, <1>5 DEF PingDone, Task
<1>6. ASSUME NEW u \in Node, NEW b \in Addr, b # a, ProvComplete(u, b)
      PROVE  task'[a] = task[a]
  BY <1>0, <1>1, <1>6, CompleteTable
<1>7. ASSUME \/ \E u \in Node : \/ BeaconListed(u) \/ BeaconNew(u) \/ BeaconAgain(u)
                                \/ ProvStack(u) \/ ProvFail(u) \/ NodeReset(u)
                                \/ ProvisionListed(u) \/ \E m \in net : NodeAnswers(u, m)
             \/ \E m \in net : CfgClientCb(m) \/ Lose(m)
             \/ Wipe \/ UartCommand \/ ScanEnds \/ UNCHANGED vars
      PROVE  task' = task
  BY <1>7 DEF BeaconListed, BeaconNew, BeaconAgain, ProvStack, ProvFail, NodeReset,
     ProvisionListed, NodeAnswers, CfgClientCb, Lose, Wipe, UartCommand, ScanEnds, vars, gateway
<1>8. QED
  BY <1>2, <1>3, <1>4, <1>5, <1>6, <1>7 DEF Next

-----------------------------------------------------------------------------
(* The table. *)

\* The steps that leave the table as it is.
LEMMA SameTable ==
  ASSUME [Next]_vars, table' # table
  PROVE  \/ \E u \in Node : BeaconAgain(u) \/ \E a \in Addr : ProvComplete(u, a)
         \/ \E a \in Addr : Finish(a) \/ Abort(a)
         \/ Crash \/ WipeRestart \/ Wipe
<1>1. ASSUME \E u \in Node : ProvStack(u) \/ NodeReset(u) \/ \E m \in net : NodeAnswers(u, m)
      PROVE  table' = table
  BY <1>1 DEF ProvStack, NodeReset, NodeAnswers, gateway
<1>2. QED
  BY <1>1, SameBooks DEF Next

\* PROV_COMPLETE finds no entry, neither of the device nor at its address: an address has one
\* owner, and the old entry went before the link was opened.
LEMMA CompleteIsNew ==
  ASSUME IInv, NEW u \in Node, NEW a \in Addr, ProvComplete(u, a), table' # table
  PROVE  /\ AtAddr(a) = {} /\ Untabled(u)
         /\ table' = table \cup {[addr |-> a, uuid |-> u, done |-> FALSE]}
<1>1. <<u, a>> \in evt /\ table' = TableAdd(a, u)
  BY CompleteTable
<1>2. Untabled(u)
  BY <1>1 DEF IInv, LinkIsNew
<1>3. AtAddr(a) = {}
  <2>1. SUFFICES ASSUME NEW e \in table, e.addr = a  PROVE FALSE
    BY DEF AtAddr
  <2>2. e.uuid \in Node
    BY DEF IInv, TypeOK, Entry
  <2>3. Owns(e.uuid, a) /\ Owns(u, a)
    BY <1>1, <2>1 DEF Owns
  <2>4. e.uuid = u
    BY <2>2, <2>3 DEF IInv, AddrOwned
  <2>5. QED
    BY <1>2, <2>4 DEF Untabled
<1>4. QED
  BY <1>1, <1>2, <1>3 DEF TableAdd

\* The end of a configuration marks the entry at its address and leaves the others.
LEMMA FinishMarks ==
  ASSUME IInv, NEW a \in Addr, Finish(a)
  PROVE  /\ \A e \in table : e.addr # a => e \in table'
         /\ \A e \in table : e.done => e \in table'
         /\ \A e \in table' : \/ e \in table /\ e.addr # a
                              \/ e.done /\ \E f \in table : f.addr = e.addr /\ f.uuid = e.uuid
<1>0. table \subseteq Entry
  BY DEF IInv, TypeOK
<1>1. CASE AtAddr(a) = {}
  BY <1>1 DEF Finish, AtAddr
<1>2. CASE AtAddr(a) # {}
  <2>1. PICK e \in AtAddr(a) : table' = (table \ {e}) \cup {[e EXCEPT !.done = TRUE]}
    BY <1>2 DEF Finish
  <2>2. e \in table /\ e.addr = a
    BY <2>1 DEF AtAddr
  <2>3. \A f \in table : f.addr = a => f = e
    BY <2>2 DEF IInv, UniqueEntries
  <2>4. e.done => [e EXCEPT !.done = TRUE] = e
    BY <1>0, <2>2 DEF Entry
  <2>5. /\ [e EXCEPT !.done = TRUE].done /\ [e EXCEPT !.done = TRUE].addr = e.addr
        /\ [e EXCEPT !.done = TRUE].uuid = e.uuid
    BY <1>0, <2>2 DEF Entry
  <2> DEFINE n == [e EXCEPT !.done = TRUE]
  <2> HIDE DEF n
  <2>6. table' = (table \ {e}) \cup {n} /\ (e.done => n = e) /\ n.done
        /\ n.addr = e.addr /\ n.uuid = e.uuid
    BY <2>1, <2>4, <2>5 DEF n
  <2>7. QED
    BY <2>2, <2>3, <2>6
<1>3. QED
  BY <1>1, <1>2

\* A configuration that is given up takes the entry at its address with it.
LEMMA AbortClears ==
  ASSUME IInv, NEW a \in Addr, Abort(a)
  PROVE  /\ table' \subseteq table
         /\ \A e \in table : e.addr # a => e \in table'
         /\ \A e \in table' : e.addr # a
<1>1. CASE AtAddr(a) = {}
  BY <1>1 DEF Abort, AtAddr
<1>2. CASE AtAddr(a) # {}
  <2>1. PICK e \in AtAddr(a) : table' = table \ {e}
    BY <1>2 DEF Abort
  <2>2. e \in table /\ e.addr = a
    BY <2>1 DEF AtAddr
  <2>3. \A f \in table : f.addr = a => f = e
    BY <2>2 DEF IInv, UniqueEntries
  <2>4. QED
    BY <2>1, <2>2, <2>3
<1>3. QED
  BY <1>1, <1>2

-----------------------------------------------------------------------------
(* A healthy node's entry. *)

\* Every step keeps Unfinished: only Finish marks an entry, and ends its task.
LEMMA UnfinishedStep == IInv /\ Unfinished /\ [Next]_vars => Unfinished'
<1> SUFFICES ASSUME IInv, Unfinished, [Next]_vars,
                    NEW a \in Addr, task'[a].pc # "none", NEW e \in table', e.addr = a
             PROVE  ~e.done
  BY DEF Unfinished, AtAddr
<1>0. TypeOK /\ task \in [Task -> TaskState] /\ table \subseteq Entry /\ Addr \subseteq Task
  BY DEF IInv, TypeOK, Task
<1>1. CASE Reboot
  BY <1>0, <1>1 DEF Reboot, NoTask
<1>2. CASE Finish(a) \/ Abort(a)
  BY <1>0, <1>2, FinishTable, AbortTable DEF NoTask
<1>3. CASE \E u \in Node : ProvComplete(u, a)
  <2>1. PICK u \in Node : ProvComplete(u, a)
    BY <1>3
  <2>2. CASE table' = table
    <3>1. Untabled(u)
      BY <2>1, CompleteTable DEF IInv, LinkIsNew
    <3>2. TableAdd(a, u) # table
      <4> DEFINE n == [addr |-> a, uuid |-> u,
                       done |-> u \notin Known /\ \E f \in AtAddr(a) : f.done]
      <4>1. n \in TableAdd(a, u) /\ n.uuid = u
        BY DEF TableAdd
      <4> HIDE DEF n
      <4>2. QED
        BY <3>1, <4>1 DEF Untabled
    <3>3. task' = task
      BY <2>1, <2>2, <3>2 DEF ProvComplete
    <3>4. QED
      BY <2>2, <3>3 DEF Unfinished, AtAddr
  <2>3. CASE table' # table
    BY <2>1, <2>3, CompleteIsNew DEF AtAddr
  <2>4. QED
    BY <2>2, <2>3
<1>4. CASE /\ ~Reboot /\ ~Finish(a) /\ ~Abort(a)
           /\ task'[a].pc = "none" <=> task[a].pc = "none"
           /\ ~\E u \in Node : ProvComplete(u, a)
  <2>1. \A f \in table : f.addr = a => ~f.done
    BY <1>4 DEF Unfinished, AtAddr
  <2>2. SUFFICES e \in table
    BY <2>1
  <2>3. ASSUME NEW u \in Node, BeaconAgain(u)  PROVE e \in table
    BY <2>3, AgainTable
  <2>4. ASSUME NEW u \in Node, NEW b \in Addr, ProvComplete(u, b), table' # table
        PROVE  e \in table
    BY <1>4, <2>4, CompleteIsNew
  <2>5. ASSUME NEW b \in Addr, Finish(b), b # a  PROVE e \in table
    <3>1. e.addr # b
      BY <2>5
    <3>2. AtAddr(b) = {} => table' = table
      BY <2>5 DEF Finish
    <3>3. ASSUME NEW f \in AtAddr(b), table' = (table \ {f}) \cup {[f EXCEPT !.done = TRUE]}
          PROVE  e \in table
      <4>1. [f EXCEPT !.done = TRUE].addr = b
        BY <1>0 DEF AtAddr, Entry
      <4>2. QED
        BY <3>1, <3>3, <4>1
    <3>4. QED
      BY <2>5, <3>2, <3>3 DEF Finish
  <2>6. ASSUME NEW b \in Addr, Abort(b)  PROVE e \in table
    BY <2>6, AbortClears
  <2>7. CASE Wipe
    BY <2>7 DEF Wipe
  <2>8. QED
    BY <1>4, <2>3, <2>4, <2>5, <2>6, <2>7, SameTable DEF Crash, WipeRestart
<1>5. QED
  BY <1>0, <1>1, <1>2, <1>3, <1>4, TaskIsKept DEF Crash, WipeRestart

\* At boot no task runs.
LEMMA UnfinishedInit == Init => Unfinished
  BY DEF Init, Unfinished, NoTask, Addr, Task, AtAddr

\* HealthyNodeKept: short of a restart or a full reset, an entry marked config_done goes only when
\* its node has left the address (a beacon of a configured node, cfg_abort_cleanup).
THEOREM HealthyEntriesStay == Spec => HealthyNodeKept
<1>1. ASSUME IInv, Unfinished, [Next]_vars, UNCHANGED <<crashes, wipes, wiping>>,
             NEW e \in table, e.done, e \notin table'
      PROVE  node[e.uuid].addr # e.addr
  <2>0. /\ e \in Entry /\ table' # table /\ TypeOK
        /\ crashes \in Nat /\ wipes \in Nat
    BY <1>1, ProvisioningAssumption DEF IInv, TypeOK, ProvisioningAssumption
  <2>1. ASSUME NEW u \in Node, BeaconAgain(u)  PROVE node[e.uuid].addr # e.addr
    <3>1. e.uuid = u
      BY <1>1, <2>1, AgainTable DEF OfUuid
    <3>2. node[u].addr = 0
      BY <2>1 DEF BeaconAgain, Beacons
    <3>3. e.addr # 0
      BY <2>0 DEF Entry, Addr
    <3>4. QED
      BY <3>1, <3>2, <3>3
  <2>2. ASSUME NEW u \in Node, NEW a \in Addr, ProvComplete(u, a)  PROVE FALSE
    BY <1>1, <2>0, <2>2, CompleteIsNew
  <2>3. ASSUME NEW a \in Addr, Finish(a)  PROVE FALSE
    BY <1>1, <2>3, FinishMarks
  <2>4. ASSUME NEW a \in Addr, Abort(a)  PROVE FALSE
    <3>1. e.addr = a
      BY <1>1, <2>4, AbortClears
    <3>2. task[a].pc # "none"
      BY <2>4 DEF Abort, Holds
    <3>3. QED
      BY <1>1, <3>1, <3>2 DEF Unfinished, AtAddr
  <2>5. ~Wipe
    BY <1>1, <2>0 DEF Wipe
  <2>6. ~Crash /\ ~WipeRestart
    BY <1>1, <2>0 DEF Crash, WipeRestart, Reboot
  <2>7. QED
    BY <1>1, <2>0, <2>1, <2>2, <2>3, <2>4, <2>5, <2>6, SameTable
<1>2. IInv /\ Unfinished /\ [Next]_vars =>
        [UNCHANGED <<crashes, wipes, wiping>> =>
           \A e \in table : e.done /\ e \notin table' => node[e.uuid].addr # e.addr]_vars
  BY <1>1
<1>3. Spec => []Unfinished
  BY Invariance, UnfinishedInit, UnfinishedStep, PTL DEF Spec
<1>4. QED
  BY <1>2, <1>3, Invariance, PTL DEF Spec, HealthyNodeKept

-----------------------------------------------------------------------------
(* Counters. *)

\* Restarts and full resets are counted by the steps they are, failed saves one at a time.
LEMMA Counters ==
  ASSUME IInv, [Next]_vars
  PROVE  /\ Crash \/ Wipe \/ WipeRestart \/ UNCHANGED <<crashes, wipes, wiping>>
         /\ saveFails' = 0 => saveFails = 0
<1>0. saveFails \in Nat
  BY ProvisioningAssumption DEF ProvisioningAssumption, IInv, TypeOK
<1> DEFINE Others == UNCHANGED <<crashes, wipes, wiping>>
           Stored == saveFails' = saveFails \/ saveFails' = saveFails + 1
<1>1. ASSUME \E u \in Node : \/ BeaconListed(u) \/ BeaconNew(u) \/ BeaconAgain(u)
                             \/ ProvStack(u) \/ ProvFail(u) \/ NodeReset(u)
                             \/ ProvisionListed(u) \/ \E m \in net : NodeAnswers(u, m)
                             \/ \E a \in Addr : ProvComplete(u, a)
      PROVE  Others /\ Stored
  BY <1>1 DEF BeaconListed, BeaconNew, BeaconAgain, ProvStack, ProvFail, NodeReset,
     ProvisionListed, NodeAnswers, ProvComplete, Save, gateway, budget
<1>2. ASSUME NEW t \in Task, TaskStep(t)  PROVE Others /\ Stored
  BY <1>2 DEF TaskStep, Take, SendOk, SendFails, Register, Acked, TimedOut, Leave, Fault, gateway,
     budget
<1>3. ASSUME \/ \E a \in Addr : Finish(a) \/ Abort(a)
             \/ \E e \in table : PingPick(e)
             \/ \E m \in net : CfgClientCb(m) \/ Lose(m)
             \/ PingDone \/ UartCommand \/ ScanEnds \/ UNCHANGED vars
      PROVE  Others /\ Stored
  BY <1>3 DEF Finish, Abort, PingPick, CfgClientCb, Lose, PingDone, UartCommand, ScanEnds, vars,
     Save, Fault, gateway, budget
<1>4. Crash \/ Wipe \/ WipeRestart => Stored
  BY DEF Crash, Wipe, WipeRestart, Reboot
<1>5. Stored /\ (Crash \/ Wipe \/ WipeRestart \/ Others)
  BY <1>1, <1>2, <1>3, <1>4 DEF Next
<1>6. QED
  BY <1>0, <1>5

\* A full reset that has begun stays counted until its restart (bmt_mesh_wipe_all_provisioned).
LEMMA WipeCountedStep == IInv /\ WipeCounted /\ [Next]_vars => WipeCounted'
<1> SUFFICES ASSUME IInv, WipeCounted, [Next]_vars PROVE WipeCounted'
  OBVIOUS
<1>0. wipes \in Nat
  BY ProvisioningAssumption DEF ProvisioningAssumption, IInv, TypeOK
<1>1. Crash \/ WipeRestart => ~wiping'
  BY DEF Crash, WipeRestart, Reboot
<1>2. Wipe => wipes' > 0
  BY <1>0 DEF Wipe
<1>3. UNCHANGED <<crashes, wipes, wiping>> => wiping' = wiping /\ wipes' = wipes
  OBVIOUS
<1>4. Crash \/ Wipe \/ WipeRestart \/ UNCHANGED <<crashes, wipes, wiping>>
  BY Counters
<1>5. QED
  BY <1>1, <1>2, <1>3, <1>4 DEF WipeCounted

-----------------------------------------------------------------------------
(* Entries in configuration. *)

\* Every step keeps NoEntryStalls: a task that ends has marked its entry or taken it out.
LEMMA NoEntryStallsStep ==
  IInv /\ WipeCounted /\ NoEntryStalls /\ [Next]_vars => NoEntryStalls'
<1> SUFFICES ASSUME IInv, WipeCounted, NoEntryStalls, [Next]_vars, crashes' = 0, wipes' = 0,
                    NEW e \in table', ~e.done, e.uuid \in Known
             PROVE  task'[e.addr].pc # "none"
  BY DEF NoEntryStalls
<1>0. /\ TypeOK /\ task \in [Task -> TaskState] /\ table \subseteq Entry /\ Addr \subseteq Task
      /\ crashes \in Nat /\ wipes \in Nat
  BY ProvisioningAssumption DEF IInv, TypeOK, Task, ProvisioningAssumption
<1>1. ~Crash /\ ~Wipe
  BY <1>0 DEF Crash, Wipe
<1>2. ~WipeRestart
  BY <1>0 DEF WipeRestart, Reboot, WipeCounted
<1>3. \A f \in table : ~f.done /\ f.uuid \in Known => task[f.addr].pc # "none"
  BY <1>1, <1>2, Counters DEF NoEntryStalls
<1>4. e.addr \in Addr
  <2>1. table' \subseteq Entry
    BY <1>0, TypeStep DEF TypeOK
  <2>2. QED
    BY <2>1 DEF Entry
<1>5. ASSUME NEW u \in Node, ProvComplete(u, e.addr)  PROVE task'[e.addr].pc # "none"
  <2>1. CASE CanAdd(e.addr)
    <3>1. e.uuid = u
      BY <1>5, <2>1 DEF ProvComplete, TableAdd, AtAddr
    <3>2. task' = [task EXCEPT ![e.addr] =
                     [pc |-> "start", addr |-> e.addr, op |-> "key", k |-> 1]]
      BY <1>5, <2>1, <3>1 DEF ProvComplete
    <3>3. QED
      BY <1>0, <1>4, <3>2
  <2>2. CASE ~CanAdd(e.addr)
    <3>1. table' = table
      BY <1>5, <2>2 DEF ProvComplete
    <3>2. QED
      BY <2>2, <3>1 DEF CanAdd, AtAddr
  <2>3. QED
    BY <2>1, <2>2
<1>6. ~Finish(e.addr) /\ ~Abort(e.addr)
  BY <1>4, FinishMarks, AbortClears
<1>7. CASE /\ task'[e.addr].pc = "none" <=> task[e.addr].pc = "none"
           /\ ~\E u \in Node : ProvComplete(u, e.addr)
  <2>1. SUFFICES e \in table
    BY <1>3, <1>7
  <2>2. ASSUME NEW u \in Node, BeaconAgain(u)  PROVE e \in table
    BY <2>2, AgainTable
  <2>3. ASSUME NEW u \in Node, NEW a \in Addr, ProvComplete(u, a), table' # table
        PROVE  e \in table
    BY <1>7, <2>3, CompleteIsNew
  <2>4. ASSUME NEW a \in Addr, Finish(a) \/ Abort(a)  PROVE e \in table
    BY <2>4, FinishMarks, AbortClears
  <2>5. QED
    BY <1>1, <1>2, <2>2, <2>3, <2>4, SameTable
<1>8. QED
  BY <1>0, <1>1, <1>2, <1>4, <1>5, <1>6, <1>7, TaskIsKept

\* NoEntryStalls: until the gateway restarts, an entry that is not config_done is one a config
\* task works on (bmt_mesh.c:110-122, 313).
THEOREM EntriesDoNotStall == Spec => []NoEntryStalls
<1>1. Init => WipeCounted /\ NoEntryStalls
  BY DEF Init, WipeCounted, NoEntryStalls
<1>2. QED
  BY <1>1, Invariance, WipeCountedStep, NoEntryStallsStep, PTL DEF Spec

-----------------------------------------------------------------------------
(* The table and the stack. *)

\* Every step keeps Agree: the table, NVS and the stack's list change together.
LEMMA AgreeStep == IInv /\ Agree /\ [Next]_vars => Agree'
<1> DEFINE Named(T, st) == \A e \in T : st[e.uuid] = e.addr
           Queued(q, st) == \A u \in Node, a \in Addr : <<u, a>> \in q => st[u] = a
<1> SUFFICES ASSUME IInv, Agree, [Next]_vars, saveFails' = 0, wipes' = 0
             PROVE  nvs' = table' /\ Named(table', stack') /\ Queued(evt', stack')
  BY DEF Agree
<1>0. /\ TypeOK /\ table \subseteq Entry /\ evt \subseteq Node \X Addr
      /\ stack \in [Node -> 0 .. LastAddr] /\ wipes \in Nat /\ saveFails \in Nat
  BY ProvisioningAssumption DEF IInv, TypeOK, ProvisioningAssumption
<1>1. ~Wipe /\ wipes = 0 /\ saveFails = 0
  <2>1. ~Wipe
    BY <1>0 DEF Wipe
  <2>2. Crash \/ WipeRestart => wipes' = wipes
    BY DEF Crash, WipeRestart, Reboot
  <2>3. QED
    BY <2>1, <2>2, Counters
<1>2. nvs = table /\ Named(table, stack) /\ Queued(evt, stack)
  BY <1>1 DEF Agree
<1>3. Save => nvs' = table'
  BY <1>1 DEF Save
<1>4. ASSUME NEW u \in Node, BeaconAgain(u)
      PROVE  nvs' = table' /\ Named(table', stack') /\ Queued(evt', stack')
  <2>1. PICK e \in OfUuid(u) : table' = table \ {e}
    BY <1>4, AgainTable
  <2>2. stack' = [stack EXCEPT ![u] = 0] /\ evt' = evt /\ ~\E v \in evt : v[1] = u
    BY <1>4, AgainTable
  <2>3. \A f \in table' : f \in table /\ f.uuid # u
    BY <2>1 DEF OfUuid, IInv, UniqueEntries
  <2>4. Named(table', stack')
    BY <1>0, <1>2, <2>2, <2>3
  <2>5. Queued(evt', stack')
    BY <1>0, <1>2, <2>2
  <2>6. QED
    BY <1>3, <1>4, <2>4, <2>5 DEF BeaconAgain
<1>5. ASSUME NEW u \in Node, ProvStack(u)
      PROVE  nvs' = table' /\ Named(table', stack') /\ Queued(evt', stack')
  <2>1. PICK a \in Addr : stack' = [stack EXCEPT ![u] = a] /\ evt' = evt \cup {<<u, a>>}
    BY <1>0, <1>5, StackStep
  <2>2. u \in link /\ UNCHANGED <<table, nvs>>
    BY <1>0, <1>5, StackStep
  <2>3. Untabled(u) /\ \A b \in Addr : <<u, b>> \notin evt
    BY <2>2 DEF IInv, LinkIsNew
  <2>4. Named(table', stack')
    BY <1>0, <1>2, <2>1, <2>2, <2>3 DEF Untabled
  <2>5. Queued(evt', stack')
    <3>1. SUFFICES ASSUME NEW v \in Node, NEW b \in Addr, <<v, b>> \in evt'
                   PROVE  stack'[v] = b
      OBVIOUS
    <3>2. CASE v = u
      BY <1>0, <2>1, <2>3, <3>1, <3>2
    <3>3. CASE v # u
      BY <1>0, <1>2, <2>1, <3>1, <3>3
    <3>4. QED
      BY <3>2, <3>3
  <2>6. QED
    BY <1>2, <2>2, <2>4, <2>5
<1>6. ASSUME NEW u \in Node, NEW a \in Addr, ProvComplete(u, a)
      PROVE  nvs' = table' /\ Named(table', stack') /\ Queued(evt', stack')
  <2>1. <<u, a>> \in evt /\ evt' \subseteq evt /\ stack' = stack
    BY <1>6, CompleteTable
  <2>2. nvs' = table'
    BY <1>2, <1>3, <1>6 DEF ProvComplete
  <2>3. \A e \in table' : e \in table \/ (e.addr = a /\ e.uuid = u)
    BY <1>6 DEF ProvComplete, TableAdd
  <2>4. QED
    BY <1>2, <2>1, <2>2, <2>3
<1>7. ASSUME NEW a \in Addr, Finish(a)
      PROVE  nvs' = table' /\ Named(table', stack') /\ Queued(evt', stack')
  <2>1. nvs' = table'
    BY <1>2, <1>3, <1>7 DEF Finish
  <2>2. evt' = evt /\ stack' = stack
    BY <1>7, FinishTable
  <2>3. \A e \in table' : \E f \in table : f.addr = e.addr /\ f.uuid = e.uuid
    BY <1>7, FinishMarks
  <2>4. QED
    BY <1>2, <2>1, <2>2, <2>3
<1>8. ASSUME NEW a \in Addr, Abort(a)
      PROVE  nvs' = table' /\ Named(table', stack') /\ Queued(evt', stack')
  <2>1. nvs' = table' /\ evt' = evt
    BY <1>2, <1>3, <1>8, AbortTable DEF Abort
  <2>2. CASE AtAddr(a) = {}
    BY <1>2, <1>8, <2>1, <2>2 DEF Abort
  <2>3. CASE AtAddr(a) # {}
    <3>1. PICK e \in AtAddr(a) : table' = table \ {e} /\ stack' = [stack EXCEPT ![e.uuid] = 0]
      BY <1>8, <2>3 DEF Abort
    <3>2. e \in table /\ e.uuid \in Node
      BY <1>0 DEF AtAddr, Entry
    <3>3. \A f \in table' : f \in table /\ f.uuid # e.uuid
      BY <3>1, <3>2 DEF IInv, UniqueEntries
    <3>4. \A b \in Addr : <<e.uuid, b>> \notin evt
      BY <3>2 DEF IInv, LinkIsNew, Untabled
    <3>5. Named(table', stack')
      BY <1>0, <1>2, <3>1, <3>2, <3>3
    <3>6. Queued(evt', stack')
      BY <1>0, <1>2, <2>1, <3>1, <3>2, <3>4
    <3>7. QED
      BY <2>1, <3>5, <3>6
  <2>4. QED
    BY <2>2, <2>3
<1>9. CASE Crash \/ WipeRestart
  BY <1>2, <1>9 DEF Crash, WipeRestart, Reboot
<1>10. ASSUME NEW u \in Node, NodeReset(u) \/ \E m \in net : NodeAnswers(u, m)
       PROVE  nvs' = table' /\ Named(table', stack') /\ Queued(evt', stack')
  BY <1>2, <1>10 DEF NodeReset, NodeAnswers, gateway
<1>11. CASE UNCHANGED <<table, nvs, evt, stack>>
  BY <1>2, <1>11
<1>12. QED
  BY <1>1, <1>4, <1>5, <1>6, <1>7, <1>8, <1>9, <1>10, <1>11, SameBooks DEF Next

\* StackKnowsEntries: the table and the stack's node list agree on every entry as long as NVS
\* writes succeed and short of a full reset (bmt_mesh.c:318-320, 118-120).
THEOREM StackAndTableAgree == Spec => []StackKnowsEntries
<1>1. Init => Agree
  BY DEF Init, Agree
<1>2. Agree => StackKnowsEntries
  BY DEF Agree, StackKnowsEntries
<1>3. QED
  BY <1>1, <1>2, Invariance, AgreeStep, PTL DEF Spec

-----------------------------------------------------------------------------
(* The roll. *)

\* A device without an address has forgotten the mesh, and a queued PROV_COMPLETE names the
\* address its device has.
Settled ==
  /\ \A u \in Node : node[u].addr = 0 => node[u] = Fresh
  /\ \A u \in Node, a \in Addr : <<u, a>> \in evt => node[u].addr = a

\* Every step keeps Settled: a node is reset after its PROV_COMPLETE was handled.
LEMMA SettledStep == IInv /\ Settled /\ [Next]_vars => Settled'
<1> SUFFICES ASSUME IInv, Settled, [Next]_vars PROVE Settled'
  OBVIOUS
<1>0. TypeOK /\ node \in [Node -> NodeState] /\ 0 \notin Addr
  BY DEF IInv, TypeOK, Addr
<1>1. ASSUME UNCHANGED node, evt' \subseteq evt  PROVE Settled'
  BY <1>1 DEF Settled
<1>2. ASSUME NEW u \in Node, ProvStack(u)  PROVE Settled'
  <2>1. PICK a \in Addr : node' = [node EXCEPT ![u] = [Fresh EXCEPT !.addr = a]]
                          /\ evt' = evt \cup {<<u, a>>}
    BY <1>0, <1>2, StackStep
  <2>2. \A b \in Addr : <<u, b>> \notin evt
    BY <1>0, <1>2, StackStep DEF IInv, LinkIsNew
  <2>3. node'[u].addr = a /\ \A v \in Node : v # u => node'[v] = node[v]
    BY <1>0, <2>1 DEF Fresh
  <2>4. QED
    BY <1>0, <2>1, <2>2, <2>3 DEF Settled
<1>3. ASSUME NEW u \in Node, NodeReset(u)  PROVE Settled'
  <2>1. node'[u] = Fresh /\ \A v \in Node : v # u => node'[v] = node[v]
    BY <1>0, <1>3 DEF NodeReset
  <2>2. evt' = evt /\ \A a \in Addr : <<u, a>> \notin evt
    BY <1>3 DEF NodeReset
  <2>3. QED
    BY <2>1, <2>2 DEF Settled
<1>4. ASSUME NEW u \in Node, NEW m \in net, NodeAnswers(u, m)  PROVE Settled'
  <2>1. m.addr \in Addr /\ evt' = evt
    BY <1>4 DEF NodeAnswers, IInv, InProgress
  <2>2. node'[u].addr = node[u].addr /\ node'[u].addr = m.addr
        /\ \A v \in Node : v # u => node'[v] = node[v]
    BY <1>0, <1>4 DEF NodeAnswers, NodeState
  <2>3. QED
    BY <1>0, <2>1, <2>2 DEF Settled
<1>5. ASSUME NEW u \in Node, \/ BeaconAgain(u) \/ \E a \in Addr : ProvComplete(u, a)
      PROVE  Settled'
  BY <1>1, <1>5, AgainTable, CompleteTable
<1>6. ASSUME NEW a \in Addr, Finish(a) \/ Abort(a)  PROVE Settled'
  BY <1>1, <1>6, FinishTable, AbortTable
<1>7. CASE Crash \/ WipeRestart \/ Wipe
  BY <1>1, <1>7 DEF Crash, WipeRestart, Wipe, Reboot
<1>8. QED
  BY <1>1, <1>2, <1>3, <1>4, <1>5, <1>6, <1>7, SameBooks DEF Next

\* A table without two entries of one device, as the node table and its NVS copy are.
Roster(S) == S \subseteq Entry /\ \A e, f \in S : e.uuid = f.uuid => e = f
\* The table and its copy are such tables (bmt_node_table.c:48-81).
LEMMA Rosters == IInv => Roster(table) /\ Roster(nvs)
  BY DEF IInv, TypeOK, UniqueEntries, NvsUnique, Roster

\* What the roll says of a device that has an entry, and of one that has none.
LEMMA OnRoll ==
  ASSUME NEW S, Roster(S), NEW e \in S
  PROVE  e.uuid \in Node /\ RollOf(S)[e.uuid] = [addr |-> e.addr, done |-> e.done]
<1>1. e.uuid \in Node
  BY DEF Roster, Entry
<1>2. (CHOOSE f \in S : f.uuid = e.uuid) = e
  BY DEF Roster
<1>3. QED
  BY <1>1, <1>2 DEF RollOf
\* A device without an entry is not on the roll.
LEMMA OffRoll ==
  ASSUME NEW S, NEW u \in Node, \A e \in S : e.uuid # u
  PROVE  RollOf(S)[u] = Roll!NoEntry
  BY DEF RollOf, Roll!NoEntry
\* The roll is a function on the devices.
LEMMA RollIsFunction ==
  ASSUME NEW S
  PROVE  RollOf(S) = [u \in Node |-> RollOf(S)[u]]
  BY DEF RollOf

\* Two tables that differ in the entry of one device differ in that line of the roll.
LEMMA OneLine ==
  ASSUME NEW S, NEW T, Roster(S), Roster(T), NEW u \in Node,
         \A e \in S : e.uuid # u => e \in T,
         \A e \in T : e.uuid # u => e \in S
  PROVE  RollOf(T) = [RollOf(S) EXCEPT ![u] = RollOf(T)[u]]
<1>1. ASSUME NEW v \in Node, v # u  PROVE RollOf(T)[v] = RollOf(S)[v]
  <2>1. CASE \E e \in S : e.uuid = v
    <3>1. PICK e \in S : e.uuid = v
      BY <2>1
    <3>2. e \in T
      BY <1>1, <3>1
    <3>3. RollOf(S)[e.uuid] = [addr |-> e.addr, done |-> e.done]
      BY <3>1, OnRoll
    <3>4. RollOf(T)[e.uuid] = [addr |-> e.addr, done |-> e.done]
      BY <3>2, OnRoll
    <3>5. QED
      BY <3>1, <3>3, <3>4
  <2>2. CASE ~ \E e \in S : e.uuid = v
    <3>1. \A e \in T : e.uuid # v
      BY <1>1, <2>2
    <3>2. QED
      BY <2>2, <3>1, OffRoll
  <2>3. QED
    BY <2>1, <2>2
<1>2. QED
  BY <1>1, RollIsFunction

\* The roll in the next state is that of the next table, and the homes those of the next nodes.
LEMMA RollPrimed ==
  /\ RollOf(table)' = RollOf(table') /\ RollOf(nvs)' = RollOf(nvs')
  /\ Homes' = [u \in Node |-> node'[u].addr]
  /\ Bound' = {u \in Node : node'[u].key /\ node'[u].bound}
  BY DEF RollOf, Homes, Bound

\* A table that is saved, or not, is a roll that is written.
LEMMA RollWritten ==
  ASSUME Saved, UNCHANGED node
  PROVE  Roll!Write(RollOf(table')) /\ UNCHANGED <<Homes, Bound>>
<1>1. RollOf(nvs') = RollOf(table') \/ RollOf(nvs') = RollOf(nvs)
  BY DEF Saved
<1>2. Homes' = Homes /\ Bound' = Bound
  BY DEF Homes, Bound
<1>3. QED
  BY <1>1, <1>2, RollPrimed DEF Roll!Write

\* An address on the roll is that of an entry.
LEMMA AddressOfEntry ==
  ASSUME NEW S, Roster(S), NEW u \in Node, RollOf(S)[u].addr # 0
  PROVE  \E e \in S : e.uuid = u /\ e.addr = RollOf(S)[u].addr
<1>1. Roll!NoEntry.addr = 0
  BY DEF Roll!NoEntry
<1>2. PICK e \in S : e.uuid = u
  BY <1>1, OffRoll
<1>3. RollOf(S)[e.uuid] = [addr |-> e.addr, done |-> e.done]
  BY <1>2, OnRoll
<1>4. QED
  BY <1>2, <1>3

\* A device enters the mesh under an address nobody else has (the end of provisioning).
LEMMA StackArrives ==
  ASSUME IInv, AddrOwned', Settled, NEW u \in Node, ProvStack(u)
  PROVE  Roll!Arrive(u)
<1>0. TypeOK /\ node \in [Node -> NodeState] /\ 0 \notin Addr
  BY DEF IInv, TypeOK, Addr
<1>1. PICK a \in Addr : /\ node' = [node EXCEPT ![u] = [Fresh EXCEPT !.addr = a]]
                        /\ evt' = evt \cup {<<u, a>>}
  BY <1>0, StackStep
<1>2. u \in link /\ node[u].addr = 0 /\ UNCHANGED <<table, nvs>>
  BY <1>0, StackStep
<1>3. /\ node'[u] = [addr |-> a, key |-> FALSE, bound |-> FALSE]
      /\ \A v \in Node : v # u => node'[v] = node[v]
  BY <1>0, <1>1 DEF Fresh
<1>4. Homes[u] = 0 /\ Homes' = [Homes EXCEPT ![u] = a]
  <2>1. Homes[u] = 0
    BY <1>2 DEF Homes
  <2>2. [v \in Node |-> node'[v].addr] = [[v \in Node |-> node[v].addr] EXCEPT ![u] = a]
    <3>1. \A v \in Node : node'[v].addr = IF v = u THEN a ELSE node[v].addr
      BY <1>3
    <3>2. QED
      BY <3>1, Zenon
  <2>3. QED
    BY <2>1, <2>2, RollPrimed DEF Homes
<1>5. Bound' = Bound
  <2>1. node[u].key = FALSE
    BY <1>2 DEF Settled, Fresh
  <2>2. QED
    BY <1>3, <2>1, RollPrimed DEF Bound
<1>6. RollOf(table)[u] = Roll!NoEntry
  BY <1>2, OffRoll DEF IInv, LinkIsNew, Untabled
<1>7. ASSUME NEW v \in Node \ {u}
      PROVE  a \notin {Homes[v], RollOf(table)[v].addr, RollOf(nvs)[v].addr}
  <2>1. Owns(u, a)'
    BY <1>1 DEF Owns
  <2>2. ~Owns(v, a)'
    BY <2>1 DEF AddrOwned
  <2>3. Homes[v] # a
    BY <1>3, <2>2 DEF Owns, Homes
  <2>4. \A e \in table \cup nvs : e.uuid = v => e.addr # a
    BY <1>2, <2>2 DEF Owns
  <2>5. RollOf(table)[v].addr # a
    BY <1>0, <2>4, AddressOfEntry, Rosters
  <2>6. RollOf(nvs)[v].addr # a
    BY <1>0, <2>4, AddressOfEntry, Rosters
  <2>7. QED
    BY <2>3, <2>5, <2>6
<1>8. RollOf(table)' = RollOf(table) /\ RollOf(nvs)' = RollOf(nvs)
  BY <1>2, RollPrimed
<1>9. QED
  BY <1>4, <1>5, <1>6, <1>7, <1>8 DEF Roll!Arrive

\* A node that resets itself leaves the mesh (bmt_mesh_local_reset).
LEMMA ResetDeparts ==
  ASSUME IInv, NEW u \in Node, NodeReset(u)
  PROVE  Roll!Depart(u)
<1>0. node \in [Node -> NodeState] /\ UNCHANGED <<table, nvs>> /\ node[u].addr # 0
  BY DEF IInv, TypeOK, NodeReset, gateway
<1>1. /\ node'[u] = [addr |-> 0, key |-> FALSE, bound |-> FALSE]
      /\ \A v \in Node : v # u => node'[v] = node[v]
  BY <1>0 DEF NodeReset, Fresh
<1>2. Homes[u] # 0 /\ Homes' = [Homes EXCEPT ![u] = 0]
  <2>1. Homes[u] # 0
    BY <1>0 DEF Homes
  <2>2. [v \in Node |-> node'[v].addr] = [[v \in Node |-> node[v].addr] EXCEPT ![u] = 0]
    <3>1. \A v \in Node : node'[v].addr = IF v = u THEN 0 ELSE node[v].addr
      BY <1>1
    <3>2. QED
      BY <3>1, Zenon
  <2>3. QED
    BY <2>1, <2>2, RollPrimed DEF Homes
<1>3. Bound' = Bound \ {u}
  BY <1>1, RollPrimed DEF Bound
<1>4. QED
  BY <1>0, <1>2, <1>3, RollPrimed DEF Roll!Depart

\* A node that carries out a request gets ready or stays as it is.
LEMMA AnswerPrepares ==
  ASSUME IInv, NEW u \in Node, NEW m \in net, NodeAnswers(u, m)
  PROVE  Roll!Prepare(u) \/ UNCHANGED Roll!vars
<1>0. node \in [Node -> NodeState] /\ UNCHANGED <<table, nvs>> /\ m.addr \in Addr
  BY DEF IInv, TypeOK, InProgress, NodeAnswers, gateway
<1>1. /\ node'[u].addr = node[u].addr /\ node[u].addr # 0
      /\ node[u].key => node'[u].key
      /\ node[u].bound => node'[u].bound
      /\ \A v \in Node : v # u => node'[v] = node[v]
  BY <1>0 DEF NodeAnswers, NodeState, Addr
<1>2. Homes[u] # 0 /\ Homes' = Homes
  BY <1>1, RollPrimed DEF Homes
<1>3. Bound' = Bound \/ Bound' = Bound \cup {u}
  BY <1>1, RollPrimed DEF Bound
<1>4. QED
  BY <1>0, <1>2, <1>3, RollPrimed DEF Roll!Prepare, Roll!vars

\* PROV_COMPLETE enters the device under its own address, or finds the table full.
LEMMA CompleteEnters ==
  ASSUME IInv, IInv', Settled, NEW u \in Node, NEW a \in Addr, ProvComplete(u, a)
  PROVE  Roll!Enter(u) \/ UNCHANGED Roll!vars
<1>0. UNCHANGED node /\ <<u, a>> \in evt /\ a # 0
  BY CompleteTable DEF Addr
<1>1. CASE table' = table /\ nvs' = nvs
  BY <1>0, <1>1, RollPrimed DEF Homes, Bound, Roll!vars
<1>2. CASE ~(table' = table /\ nvs' = nvs)
  <2>1. table' = TableAdd(a, u) /\ Saved
    BY <1>2, CompleteTable
  <2>2. Untabled(u)
    BY <1>0 DEF IInv, LinkIsNew
  <2> DEFINE e == [addr |-> a, uuid |-> u, done |-> FALSE]
  <2>3. table' # table
    <3> DEFINE n == [addr |-> a, uuid |-> u,
                     done |-> u \notin Known /\ \E f \in AtAddr(a) : f.done]
    <3>1. n \in TableAdd(a, u) /\ n.uuid = u
      BY DEF TableAdd
    <3> HIDE DEF n
    <3>2. QED
      BY <2>1, <2>2, <3>1 DEF Untabled
  <2>4. table' = table \cup {e}
    BY <2>3, CompleteIsNew
  <2>5. Roster(table) /\ Roster(table')
    <3>1. Roster(table)
      BY Rosters
    <3>2. Roster(table')
      BY DEF IInv, TypeOK, UniqueEntries, Roster
    <3>3. QED
      BY <3>1, <3>2
  <2>6. e \in table' /\ e.uuid = u /\ e.addr = a /\ e.done = FALSE
    BY <2>4
  <2> HIDE DEF e
  <2>7. RollOf(table')[u] = [addr |-> a, done |-> FALSE]
    <3>1. RollOf(table')[e.uuid] = [addr |-> e.addr, done |-> e.done]
      BY <2>5, <2>6, OnRoll
    <3>2. QED
      BY <2>6, <3>1
  <2>8. RollOf(table') = [RollOf(table) EXCEPT ![u] = RollOf(table')[u]]
    BY <2>4, <2>5, <2>6, OneLine
  <2>9. RollOf(table)[u] = Roll!NoEntry
    BY <2>2, OffRoll DEF Untabled
  <2>10. Homes[u] = a
    BY <1>0 DEF Settled, Homes
  <2>11. QED
    BY <1>0, <2>1, <2>7, <2>8, <2>9, <2>10, RollWritten DEF Roll!Enter
<1>3. QED
  BY <1>1, <1>2

\* The end of a configuration marks an entry whose node, if it is at that address, has the key
\* and is bound, or finds the entry gone.
LEMMA FinishConfirms ==
  ASSUME IInv, IInv', NEW a \in Addr, Finish(a)
  PROVE  (\E u \in Node : Roll!Confirm(u)) \/ UNCHANGED Roll!vars
<1>0. UNCHANGED node /\ a # 0 /\ a \in Task /\ table \subseteq Entry
  BY FinishTable DEF Addr, Task, IInv, TypeOK
<1>1. CASE UNCHANGED <<table, nvs>>
  BY <1>0, <1>1, RollPrimed DEF Homes, Bound, Roll!vars
<1>2. ASSUME Saved, NEW e \in AtAddr(a), table' = (table \ {e}) \cup {[e EXCEPT !.done = TRUE]}
      PROVE  \E u \in Node : Roll!Confirm(u)
  <2> DEFINE u == e.uuid
             n == [e EXCEPT !.done = TRUE]
  <2>1. e \in table /\ e.addr = a /\ u \in Node
    BY <1>0 DEF AtAddr, Entry
  <2>2. n.uuid = u /\ n.addr = a /\ n.done = TRUE
    BY <1>0, <2>1 DEF Entry
  <2> HIDE DEF n
  <2>3. table' = (table \ {e}) \cup {n}
    BY <1>2 DEF n
  <2>4. Roster(table) /\ Roster(table')
    <3>1. Roster(table)
      BY Rosters
    <3>2. Roster(table')
      BY DEF IInv, TypeOK, UniqueEntries, Roster
    <3>3. QED
      BY <3>1, <3>2
  <2>5. RollOf(table)[u] = [addr |-> a, done |-> e.done]
    BY <2>1, <2>4, OnRoll
  <2>6. RollOf(table')[u] = [addr |-> a, done |-> TRUE]
    <3>1. RollOf(table')[n.uuid] = [addr |-> n.addr, done |-> n.done]
      BY <2>3, <2>4, OnRoll
    <3>2. QED
      BY <2>2, <3>1
  <2>7. RollOf(table') = [RollOf(table) EXCEPT ![u] = RollOf(table')[u]]
    BY <2>1, <2>2, <2>3, <2>4, OneLine
  <2>8. RollOf(table') = [RollOf(table) EXCEPT ![u].done = TRUE]
    <3>1. ASSUME NEW r \in [addr : Addr, done : BOOLEAN], r.addr = a
          PROVE  [r EXCEPT !.done = TRUE] = [addr |-> a, done |-> TRUE]
      <4> DEFINE x == [r EXCEPT !.done = TRUE]
      <4>1. x \in [addr : Addr, done : BOOLEAN] /\ x.addr = a /\ x.done = TRUE
        BY <3>1
      <4> HIDE DEF x
      <4>2. x = [addr |-> a, done |-> TRUE]
        BY <4>1
      <4>3. QED
        BY <4>2 DEF x
    <3>2. [addr |-> a, done |-> e.done] \in [addr : Addr, done : BOOLEAN]
      BY <1>0, <2>1 DEF Entry
    <3>3. [[addr |-> a, done |-> e.done] EXCEPT !.done = TRUE] = [addr |-> a, done |-> TRUE]
      BY <3>1, <3>2
    <3>4. QED
      BY <2>5, <2>6, <2>7, <3>3, Zenon
  <2>9. Homes[u] = a => u \in Bound
    <3>1. task[a].pc = "finish" /\ task[a].addr = a
      BY <1>0, FinishTable DEF Holds, IInv, InProgress, Ping
    <3>2. \A v \in At(a) : node[v].key /\ node[v].bound
      BY <1>0, <3>1 DEF IInv, BindersHaveKey
    <3>3. QED
      BY <2>1, <3>2 DEF At, Homes, Bound
  <2>10. RollOf(table)[u] # Roll!NoEntry /\ RollOf(table)[u].addr = a
    BY <1>0, <2>5 DEF Roll!NoEntry
  <2>11. Roll!Here(u) => u \in Bound
    BY <2>9, <2>10 DEF Roll!Here
  <2>12. Roll!Write(RollOf(table')) /\ UNCHANGED <<Homes, Bound>>
    BY <1>0, <1>2, RollWritten
  <2>13. Roll!Confirm(u)
    BY <2>8, <2>10, <2>11, <2>12 DEF Roll!Confirm
  <2>14. QED
    BY <2>1, <2>13
<1>3. QED
  BY <1>1, <1>2, FinishTable

\* An entry is taken out while it is not config_done, or when its node is not in the mesh: a
\* configuration given up, and a node that beacons again.
LEMMA TakenOutStrikes ==
  ASSUME IInv, Roster(table'), Saved, UNCHANGED node,
         NEW e \in table, table' = table \ {e}, ~e.done \/ node[e.uuid].addr = 0
  PROVE  Roll!Strike(e.uuid)
<1> DEFINE u == e.uuid
<1>1. Roster(table)
  BY Rosters
<1>2. u \in Node /\ RollOf(table)[u] = [addr |-> e.addr, done |-> e.done]
  BY <1>1, OnRoll
<1>3. \A f \in table' : f.uuid # u
  BY <1>1 DEF Roster
<1>4. RollOf(table')[u] = Roll!NoEntry
  BY <1>2, <1>3, OffRoll
<1>5. RollOf(table') = [RollOf(table) EXCEPT ![u] = RollOf(table')[u]]
  BY <1>1, <1>2, OneLine
<1>6. ~RollOf(table)[u].done \/ Homes[u] = 0
  BY <1>2 DEF Homes
<1>7. QED
  BY <1>4, <1>5, <1>6, RollWritten DEF Roll!Strike

\* A step of the gateway, the stack or a node is one of the roll, or leaves the roll alone.
LEMMA RollStep ==
  IInv /\ IInv' /\ Settled /\ Unfinished /\ [Next]_vars => [Roll!Next]_(Roll!vars)
<1> SUFFICES ASSUME IInv, IInv', Settled, Unfinished, [Next]_vars
             PROVE  Roll!Next \/ UNCHANGED Roll!vars
  OBVIOUS
<1>0. Roster(table') /\ AddrOwned'
  BY DEF IInv, TypeOK, UniqueEntries, Roster
<1>1. CASE UNCHANGED <<table, nvs, node>>
  BY <1>1, RollPrimed DEF Homes, Bound, Roll!vars
<1>2. ASSUME NEW u \in Node, ProvStack(u)  PROVE Roll!Next
  BY <1>0, <1>2, StackArrives DEF Roll!Next
<1>3. ASSUME NEW u \in Node, NodeReset(u)  PROVE Roll!Next
  BY <1>3, ResetDeparts DEF Roll!Next
<1>4. ASSUME NEW u \in Node, NEW m \in net, NodeAnswers(u, m)
      PROVE  Roll!Next \/ UNCHANGED Roll!vars
  BY <1>4, AnswerPrepares DEF Roll!Next
<1>5. ASSUME NEW u \in Node, NEW a \in Addr, ProvComplete(u, a)
      PROVE  Roll!Next \/ UNCHANGED Roll!vars
  BY <1>5, CompleteEnters DEF Roll!Next
<1>6. ASSUME NEW a \in Addr, Finish(a)  PROVE Roll!Next \/ UNCHANGED Roll!vars
  BY <1>6, FinishConfirms DEF Roll!Next
<1>7. ASSUME NEW a \in Addr, Abort(a)  PROVE Roll!Next \/ UNCHANGED Roll!vars
  <2>1. CASE UNCHANGED <<table, nvs, stack>>
    BY <1>1, <1>7, <2>1, AbortTable
  <2>2. ASSUME NEW e \in AtAddr(a), table' = table \ {e}, Saved  PROVE Roll!Next
    <3>1. e \in table /\ ~e.done /\ e.uuid \in Node
      BY <1>7 DEF Abort, Holds, AtAddr, Unfinished, IInv, TypeOK, Entry
    <3>2. UNCHANGED node
      BY <1>7, AbortTable
    <3>3. QED
      BY <1>0, <2>2, <3>1, <3>2, TakenOutStrikes DEF Roll!Next
  <2>3. QED
    BY <1>7, <2>1, <2>2, AbortTable
<1>8. ASSUME NEW u \in Node, BeaconAgain(u)  PROVE Roll!Next
  <2>1. PICK e \in OfUuid(u) : table' = table \ {e}
    BY <1>8, AgainTable
  <2>2. e \in table /\ e.uuid = u
    BY <2>1 DEF OfUuid
  <2>3. node[u].addr = 0 /\ Saved /\ UNCHANGED node
    BY <1>8, AgainTable DEF BeaconAgain, Beacons
  <2>4. QED
    BY <1>0, <2>1, <2>2, <2>3, TakenOutStrikes DEF Roll!Next
<1>9. ASSUME Reboot  PROVE Roll!Next
  <2>1. table' = nvs /\ nvs' = nvs /\ node' = node
    BY <1>9 DEF Reboot
  <2>2. Roll!Reload
    BY <2>1, RollPrimed DEF Homes, Bound, Roll!Reload
  <2>3. QED
    BY <2>2 DEF Roll!Next
<1>10. CASE Wipe
  <2>1. table' = {} /\ nvs' = {} /\ node' = node
    BY <1>10 DEF Wipe
  <2>2. RollOf({}) = Roll!Empty
    BY DEF RollOf, Roll!Empty, Roll!NoEntry
  <2>3. Roll!Clear
    BY <2>1, <2>2, RollPrimed DEF Homes, Bound, Roll!Clear
  <2>4. QED
    BY <2>3 DEF Roll!Next
<1>11. QED
  BY <1>1, <1>2, <1>3, <1>4, <1>5, <1>6, <1>7, <1>8, <1>9, <1>10, SameBooks
     DEF Next, Crash, WipeRestart

\* KeepsRoll: the gateway, its stack and its nodes implement NodeRoll.  However their steps
\* interleave, a device is entered once and under its own address, is called configured only when
\* it can be used, and stays on the roll until it leaves the mesh, the copy in NVS being the roll
\* or an older one.
THEOREM GatewayKeepsRoll == Spec => KeepsRoll
<1>1. Init => Roll!Init
  <2>1. RollOf({}) = Roll!Empty
    BY DEF RollOf, Roll!Empty, Roll!NoEntry
  <2>2. QED
    BY <2>1 DEF Init, Roll!Init, Homes, Bound, Fresh
<1>2. Init => Settled
  BY DEF Init, Settled
<1>3. Spec => []Settled
  BY <1>2, Invariance, SettledStep, PTL DEF Spec
<1>4. Spec => []Unfinished
  BY Invariance, UnfinishedInit, UnfinishedStep, PTL DEF Spec
<1>5. QED
  BY <1>1, <1>3, <1>4, RollStep, Invariance, PTL DEF Spec, KeepsRoll, Roll!Spec

-----------------------------------------------------------------------------
(* Configurations that are given up. *)

\* A node is still at the address.
Reached(a) == \E u \in Node : node[u].addr = a

\* Who waits for an answer waits for its own.
Listening(a) == Holds(a, "wait") => wait.addr = a /\ wait.op = task[a].op

\* Each attempt but the current one was spoiled by a fault, and so is the current one unless its
\* request or its answer is on the way, or the answer has come.
Charged(a) ==
  Reached(a) =>
    /\ task[a].pc \in {"start", "send", "sent", "wait", "acked"} => task[a].k <= faults + 1
    /\ Holds(a, "sent") => task[a].k <= faults \/ InFlight(a)
    /\ Holds(a, "wait") => task[a].k <= faults \/ InFlight(a) \/ ackBit
    /\ Holds(a, "expired") => task[a].k <= faults
    /\ Holds(a, "abort") => CfgRetry <= faults
Causes == \A a \in Addr : Listening(a) /\ Charged(a)

\* A config task knows its address, and counts its attempts from 1 to BMT_CFG_RETRY.
LEMMA TaskFacts ==
  ASSUME IInv, NEW a \in Addr
  PROVE  /\ a \in Task /\ a # Ping /\ task \in [Task -> TaskState] /\ task[a] \in TaskState
         /\ task[a].k \in Nat /\ 1 <= task[a].k /\ task[a].k <= CfgRetry /\ CfgRetry \in Nat
         /\ task[a].pc # "none" => task[a].addr = a
         /\ faults \in Nat
<1>1. a \in Task /\ a # Ping /\ task \in [Task -> TaskState]
  BY DEF Addr, Task, Ping, IInv, TypeOK
<1>2. task[a] \in TaskState /\ task[a].k \in 1 .. CfgRetry
  BY <1>1 DEF TaskState
<1>3. faults \in 0 .. MaxFault /\ MaxFault \in Nat /\ CfgRetry \in Nat
  BY ProvisioningAssumption DEF ProvisioningAssumption, IInv, TypeOK
<1>4. task[a].pc # "none" => task[a].addr = a
  BY <1>1 DEF IInv, InProgress
<1>5. QED
  BY <1>1, <1>2, <1>3, <1>4

\* What a step must leave alone so that a task of which it is no step is still charged right.
LEMMA StaysCharged ==
  ASSUME IInv, IInv', NEW a \in Addr, Listening(a), Charged(a),
         faults' >= faults, task'[a] = task[a],
         InExchange(a) => wait' = wait /\ (ackBit => ackBit'),
         Reached(a)' /\ task[a].pc # "none" => Reached(a),
         Reached(a)' /\ (Holds(a, "sent") \/ Holds(a, "wait")) /\ InFlight(a) =>
           InFlight(a)' \/ faults' > faults \/ (Holds(a, "wait") /\ ackBit')
  PROVE  Listening(a)' /\ Charged(a)'
<1>0. /\ task[a].k \in Nat /\ faults \in Nat /\ CfgRetry \in Nat
  BY TaskFacts
<1>1. faults' \in Nat
  BY ProvisioningAssumption DEF ProvisioningAssumption, IInv, TypeOK
<1> DEFINE pc == task[a].pc
           k  == task[a].k
<1>2. /\ \A p \in PC : Holds(a, p)' <=> pc = p
      /\ \A p \in PC : Holds(a, p) <=> pc = p
      /\ task'[a].k = k /\ task'[a].op = task[a].op /\ task'[a].pc = pc
  BY DEF Holds
<1>3. pc \in {"sent", "wait", "expired", "abort"} => InExchange(a)
  BY DEF InExchange
<1>4. Listening(a)'
  BY <1>2, <1>3 DEF Listening, PC
<1>5. ASSUME Reached(a)', pc # "none"
      PROVE  /\ pc \in {"start", "send", "sent", "wait", "acked"} => k <= faults' + 1
             /\ pc = "expired" => k <= faults'
             /\ pc = "abort" => CfgRetry <= faults'
  <2>1. /\ pc \in {"start", "send", "sent", "wait", "acked"} => k <= faults + 1
        /\ pc = "expired" => k <= faults
        /\ pc = "abort" => CfgRetry <= faults
    BY <1>5 DEF Charged, Holds
  <2>2. /\ k <= faults + 1 => k <= faults' + 1
        /\ k <= faults => k <= faults'
        /\ CfgRetry <= faults => CfgRetry <= faults'
    BY <1>0, <1>1
  <2>3. QED
    BY <2>1, <2>2, Zenon
<1>6. ASSUME Reached(a)', pc = "sent"  PROVE k <= faults' \/ InFlight(a)'
  <2>1. k <= faults \/ InFlight(a)
    BY <1>6 DEF Charged, Holds
  <2>2. InFlight(a) => InFlight(a)' \/ faults' > faults
    BY <1>3, <1>6 DEF Holds
  <2>3. k <= faults + 1
    BY <1>6 DEF Charged
  <2>4. QED
    BY <1>0, <1>1, <2>1, <2>2, <2>3
<1>7. ASSUME Reached(a)', pc = "wait"  PROVE k <= faults' \/ InFlight(a)' \/ ackBit'
  <2>1. k <= faults \/ InFlight(a) \/ ackBit
    BY <1>7 DEF Charged, Holds
  <2>2. InFlight(a) => InFlight(a)' \/ faults' > faults \/ ackBit'
    BY <1>7 DEF Holds
  <2>3. k <= faults + 1
    BY <1>7 DEF Charged
  <2>4. ackBit => ackBit'
    BY <1>3, <1>7
  <2>5. CASE ackBit \/ ackBit' \/ InFlight(a)'
    BY <2>4, <2>5
  <2>6. CASE k <= faults \/ faults' > faults
    BY <1>0, <1>1, <2>3, <2>6
  <2>7. QED
    BY <2>1, <2>2, <2>5, <2>6
<1>8. Charged(a)'
  BY <1>2, <1>5, <1>6, <1>7 DEF Charged, Holds
<1>9. QED
  BY <1>4, <1>8

\* A task that does not run is not charged with anything.
LEMMA NoneCharged ==
  ASSUME NEW a \in Addr, task'[a].pc \in {"none", "finish", "release"}
  PROVE  Listening(a)' /\ Charged(a)'
  BY DEF Listening, Charged, Holds

\* A step of the task's own: a failed attempt has a fault of its own, an acknowledged one starts
\* the count afresh (cfg_send_retry, wait_cfg_ack).
LEMMA OwnStepCharges ==
  ASSUME IInv, NEW a \in Addr, Listening(a), Charged(a), TaskStep(a)
  PROVE  Listening(a)' /\ Charged(a)'
<1> DEFINE k == task[a].k
<1>0. /\ a \in Task /\ a # Ping /\ task \in [Task -> TaskState] /\ task[a] \in TaskState
      /\ k \in Nat /\ k <= CfgRetry /\ CfgRetry \in Nat /\ faults \in Nat
      /\ task[a].pc # "none" => task[a].addr = a
  BY TaskFacts
<1>1. node' = node /\ Reached(a)' = Reached(a)
  BY DEF TaskStep, Take, SendOk, SendFails, Register, Acked, TimedOut, Leave, world, Reached
<1>2. \A p \in PC : \A r \in TaskState : [r EXCEPT !.pc = p].pc = p
        /\ [r EXCEPT !.pc = p].k = r.k /\ [r EXCEPT !.pc = p].op = r.op
        /\ [r EXCEPT !.pc = p].addr = r.addr
  BY DEF TaskState
<1>3. ASSUME NEW p \in PC, task' = [task EXCEPT ![a].pc = p]
      PROVE  task'[a].pc = p /\ task'[a].k = k /\ task'[a].op = task[a].op
             /\ task'[a].addr = task[a].addr
  BY <1>0, <1>2, <1>3
<1>4. ASSUME NextTry(a) = task'[a], faults' \in Nat, Reached(a) => k <= faults'
      PROVE  Listening(a)' /\ Charged(a)'
  <2>1. CASE k < CfgRetry
    <3>1. task'[a] = [task[a] EXCEPT !.pc = "send", !.k = @ + 1]
      BY <1>0, <1>4, <2>1 DEF NextTry
    <3>2. task'[a].pc = "send" /\ task'[a].k = k + 1
      BY <1>0, <3>1 DEF TaskState
    <3>3. Reached(a) => k + 1 <= faults' + 1
      BY <1>0, <1>4
    <3>4. QED
      BY <1>1, <3>2, <3>3 DEF Listening, Charged, Holds
  <2>2. CASE ~(k < CfgRetry)
    <3>1. task'[a].pc = "abort"
      BY <1>0, <1>4, <2>2 DEF NextTry, TaskState
    <3>2. Reached(a) => CfgRetry <= faults'
      BY <1>0, <1>4, <2>2
    <3>3. QED
      BY <1>1, <3>1, <3>2 DEF Listening, Charged, Holds
  <2>3. QED
    BY <2>1, <2>2
<1>5. CASE Take(a)
  <2>1. task'[a].pc = "send" /\ task'[a].k = k /\ faults' = faults
    BY <1>3, <1>5 DEF Take, PC, budget
  <2>2. Reached(a) => k <= faults + 1
    BY <1>5 DEF Take, Holds, Charged
  <2>3. QED
    BY <1>1, <2>1, <2>2 DEF Listening, Charged, Holds
<1>6. CASE SendOk(a)
  <2>1. /\ task'[a].pc = "sent" /\ task'[a].k = k /\ faults' = faults
        /\ task'[a].addr = task[a].addr /\ task'[a].op = task[a].op
    BY <1>3, <1>6 DEF SendOk, PC, budget
  <2>2. Reached(a) => k <= faults + 1
    BY <1>6 DEF SendOk, Holds, Charged
  <2>3. task[a].addr = a
    BY <1>0, <1>6 DEF SendOk, Holds
  <2> DEFINE m == [ack |-> FALSE, addr |-> task[a].addr, op |-> task[a].op, k |-> task[a].k]
  <2>4. Reached(a) => m \in net'
    BY <1>6, <2>3 DEF SendOk, Reached
  <2>5. m.addr = task[a].addr /\ m.op = task[a].op /\ m.k = k
    OBVIOUS
  <2> HIDE DEF m
  <2>6. Reached(a) => InFlight(a)'
    BY <2>1, <2>4, <2>5 DEF InFlight
  <2>7. QED
    BY <1>1, <2>1, <2>2, <2>6 DEF Listening, Charged, Holds
<1>7. CASE SendFails(a)
  <2>1. task'[a] = NextTry(a) /\ faults' = faults + 1
    BY <1>0, <1>7 DEF SendFails, Fault
  <2>2. Reached(a) => k <= faults + 1
    BY <1>7 DEF SendFails, Holds, Charged
  <2>3. QED
    BY <1>0, <1>4, <2>1, <2>2
<1>8. CASE Register(a)
  <2>1. /\ task'[a].pc = "wait" /\ task'[a].k = k /\ faults' = faults /\ net' = net
        /\ task'[a].addr = task[a].addr /\ task'[a].op = task[a].op
    BY <1>3, <1>8 DEF Register, PC, budget, world
  <2>2. wait' = [addr |-> task[a].addr, op |-> task[a].op] /\ task[a].addr = a
    BY <1>0, <1>8 DEF Register, Awaited, Holds
  <2>3. Reached(a) => k <= faults + 1 /\ (k <= faults \/ InFlight(a))
    BY <1>8 DEF Register, Holds, Charged
  <2>4. InFlight(a)' <=> InFlight(a)
    BY <2>1 DEF InFlight
  <2>5. Listening(a)'
    BY <2>1, <2>2 DEF Listening, Holds
  <2>6. QED
    BY <1>1, <2>1, <2>3, <2>4, <2>5 DEF Charged, Holds
<1>9. CASE Acked(a)
  <2>1. task'[a].pc = "acked" /\ task'[a].k = k /\ faults' = faults
    BY <1>3, <1>9 DEF Acked, PC, budget
  <2>2. Reached(a) => k <= faults + 1
    BY <1>9 DEF Acked, Holds, Charged
  <2>3. QED
    BY <1>1, <2>1, <2>2 DEF Listening, Charged, Holds
<1>10. CASE TimedOut(a)
  <2>1. task'[a].pc = "expired" /\ task'[a].k = k
    BY <1>3, <1>10 DEF TimedOut, PC
  <2>2. Reached(a) => k <= faults + 1 /\ (k <= faults \/ InFlight(a))
    BY <1>10 DEF TimedOut, Holds, Charged
  <2>3. IF InFlight(a) THEN faults' = faults + 1 ELSE faults' = faults
    BY <1>10 DEF TimedOut, Fault
  <2>4. Reached(a) => k <= faults'
    BY <1>0, <2>2, <2>3
  <2>5. QED
    BY <1>1, <2>1, <2>4 DEF Listening, Charged, Holds
<1>11. CASE Leave(a)
  <2>1. faults' = faults
    BY <1>11 DEF Leave, budget
  <2>2. CASE Holds(a, "acked")
    <3>1. task'[a] = NextStep(a)
      BY <1>0, <1>11, <2>2 DEF Leave
    <3>2. \/ task'[a].pc = "send" /\ task'[a].k = 1
          \/ task'[a].pc \in {"finish", "release"}
      BY <1>0, <3>1 DEF NextStep, TaskState, Op
    <3>3. 1 <= faults + 1
      BY <1>0
    <3>4. CASE task'[a].pc = "send" /\ task'[a].k = 1
      BY <2>1, <3>3, <3>4 DEF Listening, Charged, Holds
    <3>5. QED
      BY <3>2, <3>4, NoneCharged
  <2>3. CASE ~Holds(a, "acked")
    <3>1. task'[a] = NextTry(a) /\ Holds(a, "expired")
      BY <1>0, <1>11, <2>3 DEF Leave, Holds
    <3>2. Reached(a) => k <= faults
      BY <3>1 DEF Charged
    <3>3. QED
      BY <1>0, <1>4, <2>1, <3>1, <3>2
  <2>4. QED
    BY <2>2, <2>3
<1>12. QED
  BY <1>5, <1>6, <1>7, <1>8, <1>9, <1>10, <1>11 DEF TaskStep

\* A step of another task: while this one is in its exchange no other is, and what is outside an
\* exchange is charged with nothing that an exchange of another could spoil.
LEMMA OtherStepCharges ==
  ASSUME IInv, IInv', NEW a \in Addr, Listening(a), Charged(a),
         NEW t \in Task, t # a,
         \/ TaskStep(t)
         \/ t \in Addr /\ (Finish(t) \/ Abort(t))
         \/ t = Ping /\ (PingDone \/ \E e \in table : PingPick(e))
  PROVE  Listening(a)' /\ Charged(a)'
<1>0. a \in Task /\ task \in [Task -> TaskState] /\ faults \in Nat
  BY TaskFacts
<1>1. task'[a] = task[a]
  BY <1>0 DEF TaskStep, Take, SendOk, SendFails, Register, Acked, TimedOut, Leave, Finish, Abort,
     PingDone, PingPick
<1>2. node' = node
  BY DEF TaskStep, Take, SendOk, SendFails, Register, Acked, TimedOut, Leave, Finish, Abort,
     PingDone, PingPick, world
<1>3. Reached(a)' = Reached(a)
  BY <1>2 DEF Reached
<1>4. faults' = faults \/ faults' = faults + 1
  BY DEF TaskStep, Take, SendOk, SendFails, Register, Acked, TimedOut, Leave, Finish, Abort,
     PingDone, PingPick, budget, Fault
<1>5. faults' >= faults
  BY <1>0, <1>4
<1>6. CASE ~InExchange(a)
  BY <1>1, <1>3, <1>5, <1>6, StaysCharged DEF InExchange, Holds
<1>7. CASE InExchange(a)
  <2>1. lock = {a} /\ ~InExchange(t)
    BY <1>0, <1>7 DEF IInv, OneExchange
  <2>2. ~TaskStep(t) /\ ~PingDone /\ ~(t \in Addr /\ (Finish(t) \/ Abort(t)))
    BY <2>1 DEF TaskStep, Take, SendOk, SendFails, Register, Acked, TimedOut, Leave, Finish,
       Abort, PingDone, InExchange, Holds
  <2>3. PICK e \in table : PingPick(e)
    BY <2>2
  <2>4. UNCHANGED <<wait, ackBit, net, faults>>
    BY <2>3 DEF PingPick, world, budget
  <2>5. InFlight(a)' = InFlight(a)
    BY <1>1, <2>4 DEF InFlight
  <2>6. QED
    BY <1>1, <1>3, <1>5, <2>4, <2>5, StaysCharged
<1>8. QED
  BY <1>6, <1>7

\* A step of the mesh, the radio, a node or the user: an answer that is lost, or comes before it
\* is waited for, is a fault; one that comes in time is heard (cfg_client_cb).
LEMMA WorldStepCharges ==
  ASSUME IInv, IInv', NEW a \in Addr, Listening(a), Charged(a),
         \/ \E u \in Node : \/ BeaconListed(u) \/ BeaconNew(u) \/ BeaconAgain(u)
                            \/ ProvStack(u) \/ ProvFail(u) \/ NodeReset(u)
                            \/ ProvisionListed(u) \/ \E m \in net : NodeAnswers(u, m)
         \/ \E m \in net : CfgClientCb(m) \/ Lose(m)
         \/ Wipe \/ UartCommand \/ ScanEnds \/ UNCHANGED vars
  PROVE  Listening(a)' /\ Charged(a)'
<1>0. /\ a \in Task /\ faults \in Nat /\ node \in [Node -> NodeState] /\ net \subseteq Msg
      /\ task[a].pc # "none" => task[a].addr = a
  BY TaskFacts DEF IInv, TypeOK
<1>1. ASSUME UNCHANGED <<task, wait, ackBit, net, faults>>,
             Reached(a)' /\ task[a].pc # "none" => Reached(a)
      PROVE  Listening(a)' /\ Charged(a)'
  <2>1. InFlight(a)' = InFlight(a) /\ faults' >= faults
    BY <1>0, <1>1 DEF InFlight
  <2>2. QED
    BY <1>1, <2>1, StaysCharged
<1>2. ASSUME UNCHANGED node  PROVE Reached(a)' = Reached(a)
  BY <1>2 DEF Reached
<1>3. CASE \/ \E u \in Node : \/ BeaconListed(u) \/ BeaconNew(u) \/ BeaconAgain(u)
                              \/ ProvisionListed(u)
           \/ Wipe \/ UartCommand \/ ScanEnds \/ UNCHANGED vars
  <2>1. UNCHANGED <<task, wait, ackBit, net, faults, node>>
    BY <1>3 DEF BeaconListed, BeaconNew, BeaconAgain, ProvisionListed, Wipe, UartCommand,
       ScanEnds, vars, gateway, world, budget
  <2>2. QED
    BY <1>1, <1>2, <2>1
<1>4. ASSUME NEW u \in Node, ProvFail(u)  PROVE Listening(a)' /\ Charged(a)'
  <2>1. UNCHANGED <<task, wait, ackBit, net, node>> /\ faults' = faults + 1
    BY <1>4 DEF ProvFail, Fault, gateway
  <2>2. faults' >= faults
    BY <1>0, <2>1
  <2>3. InFlight(a)' = InFlight(a)
    BY <2>1 DEF InFlight
  <2>4. QED
    BY <1>2, <2>1, <2>2, <2>3, StaysCharged
<1>5. ASSUME NEW u \in Node, ProvStack(u)  PROVE Listening(a)' /\ Charged(a)'
  <2>1. UNCHANGED <<task, wait, ackBit, net, faults>>
    BY <1>5 DEF ProvStack, gateway, budget
  <2>2. PICK b \in Addr : /\ b = nextAddr \/ b = stack[u]
                          /\ node' = [node EXCEPT ![u] = [Fresh EXCEPT !.addr = b]]
    BY <1>5, StackStep DEF IInv
  <2>3. Clean(b)
    BY <1>5, <2>2, GivenIsClean, StackStep DEF IInv
  <2>4. node'[u].addr = b /\ \A v \in Node : v # u => node'[v] = node[v]
    BY <1>0, <2>2 DEF Fresh
  <2>5. Reached(a)' /\ task[a].pc # "none" => Reached(a)
    BY <1>0, <2>3, <2>4 DEF Reached, Clean
  <2>6. QED
    BY <1>1, <2>1, <2>5
<1>6. ASSUME NEW u \in Node, NodeReset(u)  PROVE Listening(a)' /\ Charged(a)'
  <2>1. UNCHANGED <<task, wait, ackBit, faults>> /\ faults' >= faults
    BY <1>0, <1>6 DEF NodeReset, gateway
  <2>2. node'[u].addr = 0 /\ \A v \in Node : v # u => node'[v] = node[v]
    BY <1>0, <1>6 DEF NodeReset, Fresh
  <2>3. Reached(a)' => Reached(a) /\ node[u].addr # a
    <3>1. SUFFICES ASSUME NEW v \in Node, node'[v].addr = a
                   PROVE  Reached(a) /\ node[u].addr # a
      BY DEF Reached
    <3>2. v # u /\ node[v].addr = a
      BY <2>2, <3>1 DEF Addr
    <3>3. Owns(v, a) /\ (node[u].addr = a => Owns(u, a))
      BY <3>2 DEF Owns
    <3>4. QED
      BY <3>2, <3>3 DEF Reached, IInv, AddrOwned
  <2>4. Reached(a)' /\ task[a].pc # "none" /\ InFlight(a) => InFlight(a)'
    <3>1. SUFFICES ASSUME Reached(a)', task[a].pc # "none",
                          NEW m \in net, m.addr = task[a].addr, m.op = task[a].op,
                          m.k = task[a].k
                   PROVE  m \in net'
      BY <2>1 DEF InFlight
    <3>2. m.addr # node[u].addr
      BY <1>0, <2>3, <3>1
    <3>3. QED
      BY <1>6, <3>2 DEF NodeReset
  <2>5. QED
    BY <2>1, <2>3, <2>4, StaysCharged DEF Holds, InExchange
<1>7. ASSUME NEW u \in Node, NEW m \in net, NodeAnswers(u, m)
      PROVE  Listening(a)' /\ Charged(a)'
  <2>1. UNCHANGED <<task, wait, ackBit, faults>> /\ faults' >= faults
        /\ net' = (net \ {m}) \cup {Answer(m)}
    BY <1>0, <1>7 DEF NodeAnswers, gateway, budget, Answer
  <2>2. Answer(m).addr = m.addr /\ Answer(m).op = m.op /\ Answer(m).k = m.k
    BY <1>0 DEF Answer, Msg
  <2>3. \A v \in Node : node'[v].addr = node[v].addr
    BY <1>0, <1>7 DEF NodeAnswers, NodeState
  <2>4. Reached(a)' => Reached(a)
    BY <2>3 DEF Reached
  <2>5. InFlight(a) => InFlight(a)'
    BY <2>1, <2>2 DEF InFlight
  <2>6. QED
    BY <2>1, <2>4, <2>5, StaysCharged
<1>8. ASSUME NEW m \in net, Lose(m)  PROVE Listening(a)' /\ Charged(a)'
  <2>1. UNCHANGED <<task, wait, ackBit, node>> /\ faults' = faults + 1
    BY <1>8 DEF Lose, Fault, gateway
  <2>2. faults' >= faults /\ faults' > faults
    BY <1>0, <2>1
  <2>3. QED
    BY <1>2, <2>1, <2>2, StaysCharged
<1>9. ASSUME NEW m \in net, CfgClientCb(m)  PROVE Listening(a)' /\ Charged(a)'
  <2>1. UNCHANGED <<task, wait, node>> /\ net' = net \ {m} /\ ackBit' = (ackBit \/ Matches(m))
        /\ IF TooEarly(m) THEN faults' = faults + 1 ELSE faults' = faults
    BY <1>9 DEF CfgClientCb, Fault
  <2>2. faults' >= faults /\ (TooEarly(m) => faults' > faults)
    BY <1>0, <2>1
  <2>3. ASSUME Holds(a, "sent") \/ Holds(a, "wait"),
               m.addr = task[a].addr, m.op = task[a].op, m.k = task[a].k
        PROVE  faults' > faults \/ (Holds(a, "wait") /\ ackBit')
    <3>1. CASE Holds(a, "sent")
      <4>1. [m EXCEPT !.ack = FALSE] =
              [ack |-> FALSE, addr |-> task[a].addr, op |-> task[a].op, k |-> task[a].k]
        <5> DEFINE r == [m EXCEPT !.ack = FALSE]
        <5>1. /\ r \in Msg /\ r.ack = FALSE /\ r.addr = task[a].addr /\ r.op = task[a].op
              /\ r.k = task[a].k
          BY <1>0, <2>3 DEF Msg
        <5> HIDE DEF r
        <5>2. r = [ack |-> FALSE, addr |-> task[a].addr, op |-> task[a].op, k |-> task[a].k]
          BY <5>1 DEF Msg
        <5>3. QED
          BY <5>2 DEF r
      <4>2. TooEarly(m)
        BY <1>0, <3>1, <4>1 DEF TooEarly
      <4>3. QED
        BY <2>2, <4>2
    <3>2. CASE Holds(a, "wait")
      <4>1. Matches(m)
        BY <1>0, <2>3, <3>2 DEF Matches, Listening, Holds
      <4>2. QED
        BY <2>1, <3>2, <4>1
    <3>3. QED
      BY <2>3, <3>1, <3>2
  <2>4. (Holds(a, "sent") \/ Holds(a, "wait")) /\ InFlight(a) =>
          InFlight(a)' \/ faults' > faults \/ (Holds(a, "wait") /\ ackBit')
    BY <2>1, <2>3 DEF InFlight
  <2>5. ackBit => ackBit'
    BY <2>1
  <2>6. QED
    BY <1>2, <2>1, <2>2, <2>4, <2>5, StaysCharged
<1>10. QED
  BY <1>3, <1>4, <1>5, <1>6, <1>7, <1>8, <1>9

\* PROV_COMPLETE starts a task at its first attempt.
LEMMA CompleteCharges ==
  ASSUME IInv, IInv', NEW a \in Addr, Listening(a), Charged(a),
         NEW u \in Node, NEW b \in Addr, ProvComplete(u, b)
  PROVE  Listening(a)' /\ Charged(a)'
<1>0. a \in Task /\ task \in [Task -> TaskState] /\ faults \in Nat
  BY TaskFacts
<1>1. UNCHANGED <<wait, ackBit, net, node, faults>>
  BY DEF ProvComplete
<1>2. Reached(a)' = Reached(a) /\ faults' >= faults
  BY <1>0, <1>1 DEF Reached
<1>3. CASE task'[a] = task[a]
  <2>1. InFlight(a)' = InFlight(a)
    BY <1>1, <1>3 DEF InFlight
  <2>2. QED
    BY <1>1, <1>2, <1>3, <2>1, StaysCharged
<1>4. CASE task'[a] # task[a]
  <2>1. task'[a].pc = "start" /\ task'[a].k = 1
    <3>1. task' = [task EXCEPT ![b] = [pc |-> "start", addr |-> b, op |-> "key", k |-> 1]]
      BY <1>4, CompleteTable
    <3>2. a = b
      BY <1>0, <1>4, <3>1
    <3>3. QED
      BY <1>0, <3>1, <3>2
  <2>2. 1 <= faults' + 1
    BY <1>0, <1>1
  <2>3. QED
    BY <2>1, <2>2 DEF Listening, Charged, Holds
<1>5. QED
  BY <1>3, <1>4

\* Every step keeps Causes.
LEMMA CausesStep == IInv /\ IInv' /\ Causes /\ [Next]_vars => Causes'
<1> SUFFICES ASSUME IInv, IInv', Causes, [Next]_vars, NEW a \in Addr
             PROVE  Listening(a)' /\ Charged(a)'
  BY DEF Causes
<1>0. /\ a \in Task /\ task \in [Task -> TaskState] /\ Addr \subseteq Task /\ Ping \in Task
      /\ a # Ping /\ Listening(a) /\ Charged(a)
  BY TaskFacts DEF Task, Causes
<1>1. ASSUME NEW t \in Task, TaskStep(t)  PROVE Listening(a)' /\ Charged(a)'
  <2>1. CASE t = a
    BY <1>0, <1>1, <2>1, OwnStepCharges
  <2>2. CASE t # a
    BY <1>0, <1>1, <2>2, OtherStepCharges
  <2>3. QED
    BY <2>1, <2>2
<1>2. ASSUME NEW b \in Addr, Finish(b) \/ Abort(b)  PROVE Listening(a)' /\ Charged(a)'
  <2>1. CASE b = a
    <3>1. task'[a].pc = "none"
      BY <1>0, <1>2, <2>1, FinishTable, AbortTable DEF NoTask
    <3>2. QED
      BY <3>1, NoneCharged
  <2>2. CASE b # a
    BY <1>0, <1>2, <2>2, OtherStepCharges
  <2>3. QED
    BY <2>1, <2>2
<1>3. CASE PingDone \/ \E e \in table : PingPick(e)
  BY <1>0, <1>3, OtherStepCharges
<1>4. CASE Crash \/ WipeRestart
  <2>1. task'[a].pc = "none"
    BY <1>0, <1>4 DEF Crash, WipeRestart, Reboot, NoTask
  <2>2. QED
    BY <2>1, NoneCharged
<1>5. ASSUME NEW u \in Node, NEW b \in Addr, ProvComplete(u, b)
      PROVE  Listening(a)' /\ Charged(a)'
  BY <1>0, <1>5, CompleteCharges
<1>6. CASE \/ \E u \in Node : \/ BeaconListed(u) \/ BeaconNew(u) \/ BeaconAgain(u)
                              \/ ProvStack(u) \/ ProvFail(u) \/ NodeReset(u)
                              \/ ProvisionListed(u) \/ \E m \in net : NodeAnswers(u, m)
           \/ \E m \in net : CfgClientCb(m) \/ Lose(m)
           \/ Wipe \/ UartCommand \/ ScanEnds \/ UNCHANGED vars
  BY <1>0, <1>6, WorldStepCharges
<1>7. QED
  BY <1>1, <1>2, <1>3, <1>4, <1>5, <1>6 DEF Next

\* GivenUpWithCause: the configuration of a node that is still there is given up only after as
\* many faults as cfg_send_retry makes attempts (bmt_mesh.c:82-108, 218, 231).
THEOREM GivenUpHasCause == Spec => []GivenUpWithCause
<1>1. Init => Causes
  BY DEF Init, Causes, Listening, Charged, Holds, NoTask, Addr, Task
<1>2. Causes => GivenUpWithCause
  BY DEF Causes, Charged, Reached, GivenUpWithCause
<1>3. QED
  BY <1>1, <1>2, Invariance, CausesStep, PTL DEF Spec
=============================================================================

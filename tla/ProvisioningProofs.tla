------------------------- MODULE ProvisioningProofs -------------------------
(***************************************************************************)
(* Proofs about Provisioning, for any devices, table size, retries and     *)
(* bounds.                                                                 *)
(*                                                                         *)
(* ConfiguredIsBound is not inductive: it rests on where an acknowledgement *)
(* can come from.  The invariant below follows it backwards: the event bit  *)
(* is set for the exchange that is under way (WaitIsMine), by an answer of   *)
(* the node to the request it names (AcksAreGenuine), a bind request is only *)
(* ever sent to a node that has the key (BindersHaveKey), and an address is *)
(* never given to a second device while anything still speaks of the first  *)
(* (AddrOwned, OrphanIsClean).                                              *)
(***************************************************************************)
EXTENDS Provisioning, TLAPS

At(a) == {u \in Node : node[u].addr = a}

\* A device the gateway ever dealt with under address a.
Owns(u, a) ==
  \/ \E e \in table \cup nvs : e.addr = a /\ e.uuid = u
  \/ <<u, a>> \in evt
  \/ stack[u] = a
  \/ node[u].addr = a
AddrOwned ==
  \A u \in Node, a \in Addr :
    Owns(u, a) => a < nextAddr /\ \A v \in Node : Owns(v, a) => v = u

\* Everything in progress concerns an address that has been handed out.
InProgress ==
  /\ \A t \in Task : task[t].pc # "none" =>
       task[t].addr \in Addr /\ task[t].addr < nextAddr /\ (t # Ping => task[t].addr = t)
  /\ \A m \in net : m.addr \in Addr /\ m.addr < nextAddr

\* A device being provisioned has no entry.
Untabled(u) == \A e \in table : e.uuid # u
LinkIsNew ==
  /\ \A u \in link : Untabled(u) /\ \A a \in Addr : <<u, a>> \notin evt
  /\ \A u \in Node, a, b \in Addr : <<u, a>> \in evt /\ <<u, b>> \in evt => Untabled(u) /\ a = b

\* The stack may hand an address out again: nothing speaks of it any more.
Clean(a) ==
  /\ \A t \in Task : task[t].pc # "none" => task[t].addr # a
  /\ \A m \in net : m.addr # a
  /\ \A e \in table \cup nvs : e.addr = a => ~e.done
OrphanIsClean ==
  \A u \in Node : stack[u] # 0 /\ Untabled(u) => Clean(stack[u])

\* (The ping task may wait for an answer of the wrong node, but to an opcode of its own.)
PingAsksTtl == task[Ping].op = "ttl"
WaitIsMine ==
  \A t \in Task \ {Ping} :
    task[t].pc \in {"wait", "acked", "expired"} /\ wait.addr # 0 =>
      wait.addr = task[t].addr /\ wait.op = task[t].op

AcksAreGenuine == \A m \in net : m.ack => \A u \in At(m.addr) : Did(u, m.op)
BindersHaveKey ==
  /\ \A m \in net : m.op = "bind" => \A u \in At(m.addr) : node[u].key
  /\ \A t \in Task :
       task[t].pc # "none" /\ task[t].op = "bind" => \A u \in At(task[t].addr) : node[u].key
  /\ \A t \in Task :
       task[t].pc = "finish" => \A u \in At(task[t].addr) : node[u].key /\ node[u].bound

NvsUnique == \A e, f \in nvs : e.addr = f.addr \/ e.uuid = f.uuid => e = f

IInv ==
  /\ TypeOK
  /\ OneExchange
  /\ AddrOwned /\ InProgress /\ LinkIsNew /\ OrphanIsClean
  /\ PingAsksTtl /\ WaitIsMine /\ AcksAreGenuine /\ BindersHaveKey
  /\ AckIsGenuine /\ ConfiguredIsBound
  /\ UniqueEntries /\ NvsUnique

-----------------------------------------------------------------------------
(* Type correctness. *)

\* A config or ping task may be given any record of the type (node_config_task, node_ping_task).
LEMMA TaskType ==
  ASSUME TypeOK, NEW t \in Task, NEW r \in TaskState
  PROVE  [task EXCEPT ![t] = r] \in [Task -> TaskState]
BY DEF TypeOK

\* A task may move to any program point of node_config_task or node_ping_task.
LEMMA TaskMove ==
  ASSUME TypeOK, NEW t \in Task, NEW pc \in PC
  PROVE  [task EXCEPT ![t].pc = pc] \in [Task -> TaskState]
BY DEF TypeOK, TaskState

\* Where an exchange goes on to (cfg_send_retry, the steps of node_config_task) is in the type,
\* the attempt being at most BMT_CFG_RETRY.
LEMMA TaskNext ==
  ASSUME TypeOK, NEW t \in Task
  PROVE  /\ NoTask \in TaskState
         /\ NextTry(t) \in TaskState
         /\ NextStep(t) \in TaskState
<1>1. task[t] \in TaskState
  BY DEF TypeOK
<1>2. NoTask \in TaskState
  BY ProvisioningAssumption DEF ProvisioningAssumption, NoTask, TaskState, PC, Op
<1>3. NextTry(t) \in TaskState
  <2>1. [task[t] EXCEPT !.pc = "release"] \in TaskState /\ [task[t] EXCEPT !.pc = "abort"] \in TaskState
    BY <1>1 DEF TaskState, PC
  <2>2. task[t].k < CfgRetry => [task[t] EXCEPT !.pc = "send", !.k = @ + 1] \in TaskState
    <3>1. task[t].k \in 1 .. CfgRetry
      BY <1>1 DEF TaskState
    <3>2. task[t].k < CfgRetry => task[t].k + 1 \in 1 .. CfgRetry
      BY <3>1, ProvisioningAssumption DEF ProvisioningAssumption
    <3>3. QED
      BY <1>1, <3>2 DEF TaskState, PC
  <2>3. QED
    BY <2>1, <2>2 DEF NextTry
<1>4. NextStep(t) \in TaskState
  <2>1. [task[t] EXCEPT !.pc = "finish"] \in TaskState
    BY <1>1 DEF TaskState, PC
  <2>2. [task[t] EXCEPT !.pc = "release"] \in TaskState
    BY <1>1 DEF TaskState, PC
  <2>3. [task[t] EXCEPT !.pc = "send", !.op = "bind", !.k = 1] \in TaskState
    <3>1. 1 \in 1 .. CfgRetry
      BY ProvisioningAssumption DEF ProvisioningAssumption
    <3>2. QED
      BY <1>1, <3>1 DEF TaskState, PC, Op
  <2>4. QED
    BY <1>1, <2>1, <2>2, <2>3 DEF NextStep, TaskState, Op
<1>5. QED
  BY <1>2, <1>3, <1>4

\* Every step keeps the variables in their types (bmt_mesh.c, bmt_node_table.c, bmt_scan_list.c).
LEMMA TypeStep == TypeOK /\ [Next]_vars => TypeOK'
<1> SUFFICES ASSUME TypeOK, [Next]_vars PROVE TypeOK'
  OBVIOUS
<1> USE ProvisioningAssumption DEF ProvisioningAssumption, TypeOK, ScanTypeOK
<1> USE DEF gateway, world, budget, scanVars, Fault, Save
<1>1. ASSUME NEW u \in Node, BeaconListed(u) PROVE TypeOK'
  BY <1>1 DEF BeaconListed, ScanAdd
<1>2. ASSUME NEW u \in Node, BeaconNew(u) PROVE TypeOK'
  BY <1>2 DEF BeaconNew
<1>3. ASSUME NEW u \in Node, BeaconAgain(u) PROVE TypeOK'
  BY <1>3 DEF BeaconAgain
<1>4. ASSUME NEW u \in Node, ProvStack(u) PROVE TypeOK'
  <2>1. PICK a \in Addr :
          /\ stack' = [stack EXCEPT ![u] = a]
          /\ node' = [node EXCEPT ![u] = [Fresh EXCEPT !.addr = a]]
          /\ nextAddr' = IF a = nextAddr THEN a + 1 ELSE nextAddr
          /\ evt' = evt \cup {<<u, a>>}
    BY <1>4 DEF ProvStack
  <2>2. a \in 0 .. LastAddr /\ nextAddr' \in 1 .. LastAddr + 1
    BY <2>1 DEF Addr
  <2>3. [Fresh EXCEPT !.addr = a] \in NodeState
    BY <2>2 DEF Fresh, NodeState
  <2>4. node' \in [Node -> NodeState] /\ stack' \in [Node -> 0 .. LastAddr]
    BY <2>1, <2>2, <2>3
  <2>5. QED
    BY <1>4, <2>1, <2>2, <2>4 DEF ProvStack
<1>5. ASSUME NEW u \in Node, ProvFail(u) PROVE TypeOK'
  BY <1>5 DEF ProvFail
<1>6. ASSUME NEW u \in Node, NodeReset(u) PROVE TypeOK'
  <2>1. Fresh \in NodeState
    BY DEF Fresh, NodeState
  <2>2. QED
    BY <1>6, <2>1 DEF NodeReset
<1>7. ASSUME NEW u \in Node, ProvisionListed(u) PROVE TypeOK'
  BY <1>7 DEF ProvisionListed, ScanVisit
<1>8. ASSUME NEW u \in Node, NEW a \in Addr, ProvComplete(u, a) PROVE TypeOK'
  <2>1. TableAdd(a, u) \in SUBSET Entry
    <3>1. [addr |-> a, uuid |-> u, done |-> u \notin Known /\ \E e \in AtAddr(a) : e.done] \in Entry
      BY DEF Entry
    <3>2. QED
      BY <3>1 DEF TableAdd
  <2>2. [pc |-> "start", addr |-> a, op |-> "key", k |-> 1] \in TaskState /\ a \in Task
    BY DEF TaskState, PC, Op, Addr, Task
  <2>3. [task EXCEPT ![a] = [pc |-> "start", addr |-> a, op |-> "key", k |-> 1]]
          \in [Task -> TaskState]
    BY <2>2, TaskType
  <2>4. table' \in SUBSET Entry /\ nvs' \in SUBSET Entry /\ task' \in [Task -> TaskState]
    BY <1>8, <2>1, <2>3 DEF ProvComplete
  <2>5. QED
    BY <1>8, <2>4 DEF ProvComplete
<1>9. ASSUME NEW u \in Node, NEW m \in net, NodeAnswers(u, m) PROVE TypeOK'
  <2>1. node' \in [Node -> NodeState]
    <3>1. node[u] \in NodeState
      OBVIOUS
    <3>2. /\ (node[u].key \/ m.op = "key") \in BOOLEAN
          /\ (node[u].bound \/ (m.op = "bind" /\ node[u].key)) \in BOOLEAN
      OBVIOUS
    <3>3. node'[u] \in NodeState
      BY <1>9, <3>1, <3>2 DEF NodeAnswers, NodeState
    <3>4. QED
      BY <1>9, <3>3 DEF NodeAnswers
  <2>2. [m EXCEPT !.ack = TRUE] \in Msg
    BY DEF Msg
  <2>3. QED
    BY <1>9, <2>1, <2>2 DEF NodeAnswers
<1>10. ASSUME NEW t \in Task, Take(t) PROVE TypeOK'
  BY <1>10, TaskMove DEF Take, PC
<1>11. ASSUME NEW t \in Task, SendOk(t) PROVE TypeOK'
  <2>1. task' \in [Task -> TaskState]
    BY <1>11, TaskMove DEF SendOk, PC
  <2>2. net' \in SUBSET Msg
    <3>1. CASE \E u \in Node : node[u].addr = task[t].addr
      <4>1. [ack |-> FALSE, addr |-> task[t].addr, op |-> task[t].op, k |-> task[t].k] \in Msg
        BY DEF TaskState, Msg
      <4>2. QED
        BY <1>11, <3>1, <4>1 DEF SendOk
    <3>2. CASE ~ \E u \in Node : node[u].addr = task[t].addr
      BY <1>11, <3>2 DEF SendOk
    <3>3. QED
      BY <3>1, <3>2
  <2>3. QED
    BY <1>11, <2>1, <2>2 DEF SendOk
<1>12. ASSUME NEW t \in Task, SendFails(t) PROVE TypeOK'
  BY <1>12, TaskNext, TaskType DEF SendFails
<1>13. ASSUME NEW t \in Task, Register(t) PROVE TypeOK'
  <2>1. \A e \in table : [addr |-> e.addr, op |-> "ttl"] \in [addr : 0 .. LastAddr, op : Op]
    BY DEF Entry, Addr, Op
  <2>2. NoWait \in [addr : 0 .. LastAddr, op : Op]
        /\ [addr |-> task[t].addr, op |-> task[t].op] \in [addr : 0 .. LastAddr, op : Op]
    BY ProvisioningAssumption DEF ProvisioningAssumption, NoWait, Op, TaskState
  <2>3. wait' \in [addr : 0 .. LastAddr, op : Op]
    BY <1>13, <2>1, <2>2 DEF Register, Awaited
  <2>4. QED
    BY <1>13, <2>3, TaskMove DEF Register, PC
<1>14. ASSUME NEW t \in Task, Acked(t) PROVE TypeOK'
  BY <1>14, TaskMove DEF Acked, PC
<1>15. ASSUME NEW t \in Task, TimedOut(t) PROVE TypeOK'
  <2>1. task' \in [Task -> TaskState]
    BY <1>15, TaskMove DEF TimedOut, PC
  <2>2. faults' \in 0 .. MaxFault
    BY <1>15 DEF TimedOut
  <2>3. QED
    BY <1>15, <2>1, <2>2 DEF TimedOut
<1>16. ASSUME NEW t \in Task, Leave(t) PROVE TypeOK'
  <2>1. NoWait \in [addr : 0 .. LastAddr, op : Op]
    BY DEF NoWait, Op
  <2>2. task' \in [Task -> TaskState]
    BY <1>16, TaskNext, TaskType DEF Leave
  <2>3. QED
    BY <1>16, <2>1, <2>2 DEF Leave
<1>17. ASSUME NEW a \in Addr, Finish(a) PROVE TypeOK'
  <2>1. a \in Task
    BY DEF Task
  <2>2. task' \in [Task -> TaskState]
    BY <1>17, <2>1, TaskNext, TaskType DEF Finish
  <2>3. table' \in SUBSET Entry /\ nvs' \in SUBSET Entry
    <3>1. ASSUME NEW e \in table PROVE [e EXCEPT !.done = TRUE] \in Entry
      <4>1. e \in Entry
        OBVIOUS
      <4>2. QED
        BY <4>1 DEF Entry
    <3>2. QED
      BY <1>17, <3>1 DEF Finish, AtAddr
  <2>4. QED
    BY <1>17, <2>2, <2>3 DEF Finish
<1>18. ASSUME NEW a \in Addr, Abort(a) PROVE TypeOK'
  <2>1. a \in Task
    BY DEF Task
  <2>2. task' \in [Task -> TaskState]
    BY <1>18, <2>1, TaskNext, TaskType DEF Abort
  <2>3. QED
    BY <1>18, <2>2 DEF Abort, AtAddr
<1>19. ASSUME NEW e \in table, PingPick(e) PROVE TypeOK'
  <2>1. Ping \in Task /\ [pc |-> "start", addr |-> e.addr, op |-> "ttl", k |-> 1] \in TaskState
    BY DEF Ping, Task, TaskState, PC, Op, Entry, Addr
  <2>2. QED
    BY <1>19, <2>1, TaskType DEF PingPick
<1>20. ASSUME PingDone PROVE TypeOK'
  BY <1>20, TaskNext, TaskType DEF PingDone, Task
<1>21. ASSUME NEW m \in net, CfgClientCb(m) PROVE TypeOK'
  BY <1>21 DEF CfgClientCb, Matches
<1>22. ASSUME NEW m \in net, Lose(m) PROVE TypeOK'
  BY <1>22 DEF Lose
<1>23. ASSUME Reboot PROVE /\ table' \in SUBSET Entry /\ task' \in [Task -> TaskState]
                           /\ wait' \in [addr : 0 .. LastAddr, op : Op]
                           /\ lock' \in SUBSET Task /\ net' \in SUBSET Msg
  <2>1. NoTask \in TaskState
    BY DEF NoTask, TaskState, PC, Op
  <2>2. NoWait \in [addr : 0 .. LastAddr, op : Op]
    BY DEF NoWait, Op
  <2>3. QED
    BY <1>23, <2>1, <2>2 DEF Reboot
<1>24. CASE Crash
  <2>1. crashes' \in 0 .. MaxCrash
    BY <1>24 DEF Crash
  <2>2. QED
    BY <1>23, <1>24, <2>1 DEF Crash, Reboot, ScanReboot
<1>25. CASE Wipe
  BY <1>25 DEF Wipe
<1>26. CASE WipeRestart
  BY <1>23, <1>26 DEF WipeRestart, Reboot, ScanReboot
<1>27. CASE UartCommand
  BY <1>27 DEF UartCommand, ScanStart, ScanProvision, ScanSetMode
<1>28. CASE ScanEnds
  BY <1>28 DEF ScanEnds, ScanDone
<1>29. CASE UNCHANGED vars
  BY <1>29 DEF vars
<1>30. QED
  BY <1>1, <1>2, <1>3, <1>4, <1>5, <1>6, <1>7, <1>8, <1>9, <1>10, <1>11, <1>12, <1>13, <1>14,
     <1>15, <1>16, <1>17, <1>18, <1>19, <1>20, <1>21, <1>22, <1>24, <1>25, <1>26, <1>27, <1>28,
     <1>29 DEF Next, TaskStep

\* The boot state is well typed.
LEMMA TypeInit == Init => TypeOK
<1> SUFFICES ASSUME Init PROVE TypeOK
  OBVIOUS
<1>1. Fresh \in NodeState /\ NoWait \in [addr : 0 .. LastAddr, op : Op]
  BY ProvisioningAssumption DEF ProvisioningAssumption, Fresh, NodeState, NoWait, Op
<1>2. NoTask \in TaskState
  BY ProvisioningAssumption DEF ProvisioningAssumption, NoTask, TaskState, PC, Op
<1>3. /\ stack \in [Node -> 0 .. LastAddr] /\ nextAddr \in 1 .. LastAddr + 1
      /\ 0 \in 0 .. MaxFault /\ 0 \in 0 .. MaxSaveFail /\ 0 \in 0 .. MaxReset
      /\ 0 \in 0 .. MaxCrash /\ 0 \in 0 .. MaxWipe
  BY ProvisioningAssumption DEF ProvisioningAssumption, Init
<1>4. QED
  BY <1>1, <1>2, <1>3 DEF Init, ScanInit, TypeOK, ScanTypeOK

\* The gateway's records never name an address out of range, a task that does not exist or an
\* attempt beyond BMT_CFG_RETRY.
THEOREM TypeCorrect == Spec => []TypeOK
BY TypeInit, TypeStep, PTL DEF Spec

-----------------------------------------------------------------------------
(* Mutual exclusion of the exchanges. *)

\* OneExchange is inductive given the types: a task enters its exchange by taking a free mutex
\* (bmt_mesh.c:192-193, 545) and leaves it together with the mutex (254-257, 571).
LEMMA OneExchangeStep == TypeOK /\ OneExchange /\ [Next]_vars => OneExchange'
<1> SUFFICES ASSUME TypeOK, OneExchange, [Next]_vars PROVE OneExchange'
  OBVIOUS
<1> DEFINE Quiet == UNCHANGED <<task, lock>>
<1>a. task \in [Task -> TaskState]
  BY DEF TypeOK
<1> USE DEF gateway, world
<1>1. ASSUME Quiet PROVE OneExchange'
  BY <1>1 DEF OneExchange, InExchange
<1>2. ASSUME NEW u \in Node,
             \/ BeaconListed(u) \/ BeaconNew(u) \/ BeaconAgain(u) \/ ProvStack(u) \/ ProvFail(u)
             \/ NodeReset(u) \/ ProvisionListed(u)
      PROVE  Quiet
  BY <1>2 DEF BeaconListed, BeaconNew, BeaconAgain, ProvStack, ProvFail, NodeReset,
              ProvisionListed
<1>3. ASSUME NEW m \in net, \/ \E u \in Node : NodeAnswers(u, m)
                            \/ CfgClientCb(m) \/ Lose(m)
      PROVE  Quiet
  BY <1>3 DEF NodeAnswers, CfgClientCb, Lose
<1>4. CASE Wipe \/ UartCommand \/ ScanEnds \/ UNCHANGED vars
  <2>1. Quiet
    BY <1>4 DEF Wipe, UartCommand, ScanEnds, vars
  <2>2. QED
    BY <2>1, <1>1
<1>5. ASSUME NEW u \in Node, NEW a \in Addr, ProvComplete(u, a) PROVE OneExchange'
  <2>1. lock' = lock /\ \A t \in Task : task'[t] = task[t] \/ task'[t].pc = "start"
    BY <1>5, <1>a DEF ProvComplete
  <2>2. QED
    BY <2>1 DEF OneExchange, InExchange
<1>6. ASSUME NEW e \in table, PingPick(e) PROVE OneExchange'
  <2>1. lock' = lock /\ \A t \in Task : task'[t] = task[t] \/ task'[t].pc = "start"
    BY <1>6, <1>a DEF PingPick
  <2>2. QED
    BY <2>1 DEF OneExchange, InExchange
<1>7. ASSUME NEW t \in Task, Take(t) PROVE OneExchange'
  <2>1. \A r \in Task : ~InExchange(r)
    BY <1>7 DEF Take, OneExchange
  <2>2. lock' = {t} /\ \A r \in Task : r # t => task'[r] = task[r]
    BY <1>7, <1>a DEF Take
  <2>3. QED
    BY <2>1, <2>2 DEF OneExchange, InExchange
<1>8. ASSUME NEW t \in Task,
             \/ SendOk(t) \/ SendFails(t) \/ Register(t) \/ Acked(t) \/ TimedOut(t) \/ Leave(t)
      PROVE  OneExchange'
  <2>1. InExchange(t)
    BY <1>8 DEF SendOk, SendFails, Register, Acked, TimedOut, Leave, InExchange, Holds
  <2>2. lock' = lock /\ \A r \in Task : r # t => task'[r] = task[r]
    BY <1>8, <1>a DEF SendOk, SendFails, Register, Acked, TimedOut, Leave
  <2>3. lock' = {t} /\ \A r \in Task : r # t => ~InExchange(r)
    BY <2>1, <2>2 DEF OneExchange
  <2>4. QED
    BY <2>2, <2>3 DEF OneExchange, InExchange
<1>9. ASSUME NEW t \in Task, \/ t \in Addr /\ (Finish(t) \/ Abort(t))
                             \/ t = Ping /\ PingDone
      PROVE  OneExchange'
  <2>1. InExchange(t)
    BY <1>9 DEF Finish, Abort, PingDone, InExchange, Holds
  <2>2. \A r \in Task : r # t => ~InExchange(r)
    BY <2>1 DEF OneExchange
  <2>3. task'[t] = NoTask /\ \A r \in Task : r # t => task'[r] = task[r]
    BY <1>9, <1>a DEF Finish, Abort, PingDone
  <2>4. QED
    BY <2>2, <2>3 DEF OneExchange, InExchange, NoTask
<1>10. CASE Crash \/ WipeRestart
  BY <1>10 DEF Crash, WipeRestart, Reboot, OneExchange, InExchange, NoTask
<1>11. Addr \subseteq Task /\ Ping \in Task
  BY DEF Task
<1>12. QED
  BY <1>1, <1>2, <1>3, <1>4, <1>5, <1>6, <1>7, <1>8, <1>9, <1>10, <1>11 DEF Next, TaskStep

\* At any time at most one config or ping exchange uses the shared wait record and event bit.
THEOREM ExchangesExclude == Spec => []OneExchange
<1>1. Init => OneExchange
  BY DEF Init, OneExchange, InExchange, NoTask
<1>2. QED
  BY <1>1, TypeCorrect, OneExchangeStep, PTL DEF Spec

-----------------------------------------------------------------------------
(* The parts of the inductive invariant, each over one step.                            *)

\* The steps that leave the table, the stack's addresses and the nodes alone.
LEMMA SameBooks ==
  ASSUME \/ \E u \in Node : BeaconListed(u) \/ BeaconNew(u) \/ ProvFail(u) \/ ProvisionListed(u)
         \/ \E t \in Task : TaskStep(t)
         \/ \E e \in table : PingPick(e)
         \/ PingDone
         \/ \E m \in net : CfgClientCb(m) \/ Lose(m)
         \/ UartCommand \/ ScanEnds \/ UNCHANGED vars
  PROVE  UNCHANGED <<table, nvs, evt, stack, node, nextAddr>>
BY DEF BeaconListed, BeaconNew, ProvFail, ProvisionListed, TaskStep, Take, SendOk, SendFails,
       Register, Acked, TimedOut, Leave, PingPick, PingDone, CfgClientCb, Lose, UartCommand,
       ScanEnds, vars, gateway, world

\* What the steps on the table do to it, as far as the invariant minds: entries go, or change
\* without a change of owner, and NVS keeps its copy or gets the new table.
Saved == nvs' = table' \/ nvs' = nvs

\* A beacon of a configured node takes its entry, and only that, out (bmt_mesh.c:299-322).
LEMMA AgainTable ==
  ASSUME NEW u \in Node, BeaconAgain(u)
  PROVE  /\ \E e \in OfUuid(u) : e.done /\ table' = table \ {e}
         /\ Saved
         /\ stack' = [stack EXCEPT ![u] = 0]
         /\ link' = link \cup {u} /\ ~ \E v \in evt : v[1] = u
         /\ UNCHANGED <<evt, nextAddr, node, net, task, wait, ackBit>>
BY DEF BeaconAgain, Save, Saved, Beacons

\* PROV_COMPLETE puts one entry in for the address it names (bmt_node_table_add).
LEMMA CompleteTable ==
  ASSUME NEW u \in Node, NEW a \in Addr, ProvComplete(u, a)
  PROVE  /\ <<u, a>> \in evt /\ evt' = evt \ {<<u, a>>}
         /\ \/ table' = TableAdd(a, u) /\ Saved
            \/ UNCHANGED <<table, nvs, task>>
         /\ \/ task' = [task EXCEPT ![a] = [pc |-> "start", addr |-> a, op |-> "key", k |-> 1]]
            \/ task' = task
         /\ UNCHANGED <<stack, link, nextAddr, node, net, lock, wait, ackBit>>
BY DEF ProvComplete, Save, Saved

\* The end of a configuration marks the entry of its address (bmt_mesh.c:236-241).
LEMMA FinishTable ==
  ASSUME NEW a \in Addr, Finish(a)
  PROVE  /\ Holds(a, "finish")
         /\ \/ /\ \E e \in AtAddr(a) : table' = (table \ {e}) \cup {[e EXCEPT !.done = TRUE]}
               /\ Saved
            \/ UNCHANGED <<table, nvs>>
         /\ task' = [task EXCEPT ![a] = NoTask]
         /\ UNCHANGED <<stack, link, evt, nextAddr, node, net, wait, ackBit>>
BY DEF Finish, Save, Saved, world

\* cfg_abort_cleanup takes the entry of its address out and the stack's node with it.
LEMMA AbortTable ==
  ASSUME NEW a \in Addr, Abort(a)
  PROVE  /\ \/ /\ \E e \in AtAddr(a) : table' = table \ {e} /\ stack' = [stack EXCEPT ![e.uuid] = 0]
               /\ Saved
            \/ UNCHANGED <<table, nvs, stack>>
         /\ task' = [task EXCEPT ![a] = NoTask]
         /\ UNCHANGED <<link, evt, nextAddr, node, net, wait, ackBit>>
BY DEF Abort, Save, Saved

\* Only the end of a provisioning link gives out an address; all else clears addresses at most
\* (esp_ble_mesh_provisioner_delete_node_with_uuid, bmt_mesh_wipe_all_provisioned).
LEMMA StackStep ==
  ASSUME TypeOK, NEW u \in Node, ProvStack(u)
  PROVE  /\ u \in link /\ link' = link \ {u} /\ node[u].addr = 0
         /\ \E a \in Addr :
              /\ a = nextAddr \/ a = stack[u]
              /\ stack' = [stack EXCEPT ![u] = a]
              /\ node' = [node EXCEPT ![u] = [Fresh EXCEPT !.addr = a]]
              /\ evt' = evt \cup {<<u, a>>}
              /\ nextAddr' = IF a = nextAddr THEN a + 1 ELSE nextAddr
         /\ UNCHANGED <<table, nvs, task, lock, wait, ackBit, net>>
BY DEF ProvStack, gateway

\* An address never gets a second owner: only ProvStack creates ownership, of a fresh address
\* or of the one the stack already keeps for that device.
LEMMA AddrOwnedStep == IInv /\ [Next]_vars => AddrOwned'
<1> SUFFICES ASSUME IInv, [Next]_vars PROVE AddrOwned'
  OBVIOUS
<1> USE DEF IInv
<1> DEFINE NoneNew == /\ \A u \in Node, a \in Addr : Owns(u, a)' => Owns(u, a)
                      /\ nextAddr' = nextAddr
<1>a. stack \in [Node -> 0 .. LastAddr] /\ node \in [Node -> NodeState] /\ 0 \notin Addr
      /\ table \subseteq Entry /\ nextAddr \in Nat
  BY DEF TypeOK, Addr
<1>1. ASSUME NoneNew PROVE AddrOwned'
  BY <1>1 DEF AddrOwned
<1>2. ASSUME UNCHANGED <<table, nvs, evt, stack, node, nextAddr>> PROVE NoneNew
  BY <1>2 DEF Owns
<1>3. ASSUME NEW u \in Node, BeaconAgain(u) PROVE NoneNew
  BY <1>3, <1>a, AgainTable DEF Owns, Saved
<1>4. ASSUME NEW u \in Node, NEW a \in Addr, ProvComplete(u, a) PROVE NoneNew
  <2>1. \A e \in TableAdd(a, u) : e \in table \/ (e.addr = a /\ e.uuid = u)
    BY DEF TableAdd
  <2>2. \A e \in table' \cup nvs' : e \in table \cup nvs \/ (e.addr = a /\ e.uuid = u)
    BY <1>4, <2>1, CompleteTable DEF Saved
  <2>3. QED
    BY <1>4, <2>2, CompleteTable DEF Owns
<1>5. ASSUME NEW a \in Addr, Finish(a) PROVE NoneNew
  <2>1. ASSUME NEW e \in table
        PROVE  [e EXCEPT !.done = TRUE].addr = e.addr /\ [e EXCEPT !.done = TRUE].uuid = e.uuid
    BY <1>a DEF Entry
  <2>2. \A e \in table' \cup nvs' : \E f \in table \cup nvs : e.addr = f.addr /\ e.uuid = f.uuid
    <3>1. CASE UNCHANGED <<table, nvs>>
      BY <3>1
    <3>2. ASSUME NEW e \in AtAddr(a), table' = (table \ {e}) \cup {[e EXCEPT !.done = TRUE]}
          PROVE  \A f \in table' : \E g \in table : f.addr = g.addr /\ f.uuid = g.uuid
      BY <3>2, <2>1 DEF AtAddr
    <3>3. QED
      BY <1>5, <3>1, <3>2, FinishTable DEF Saved
  <2>3. QED
    BY <1>5, <2>2, FinishTable DEF Owns
<1>6. ASSUME NEW a \in Addr, Abort(a) PROVE NoneNew
  BY <1>6, <1>a, AbortTable DEF Owns, Saved
<1>7. ASSUME NEW u \in Node, NodeReset(u) PROVE NoneNew
  <2>1. node' = [node EXCEPT ![u] = Fresh] /\ Fresh.addr = 0
    BY <1>7 DEF NodeReset, Fresh
  <2>2. QED
    BY <1>7, <2>1, <1>a DEF NodeReset, Owns, gateway
<1>8. ASSUME NEW u \in Node, NEW m \in net, NodeAnswers(u, m) PROVE NoneNew
  <2>1. \A v \in Node : node'[v].addr = node[v].addr
    BY <1>8, <1>a DEF NodeAnswers, NodeState
  <2>2. QED
    BY <1>8, <2>1 DEF NodeAnswers, Owns, gateway
<1>9. ASSUME Reboot PROVE NoneNew
  BY <1>9 DEF Reboot, Owns
<1>10. CASE Wipe
  BY <1>10, <1>a, <1>1 DEF Wipe, Owns
<1>11. ASSUME NEW u \in Node, ProvStack(u) PROVE AddrOwned'
  <2>1. PICK a \in Addr :
          /\ a = nextAddr \/ a = stack[u]
          /\ stack' = [stack EXCEPT ![u] = a]
          /\ node' = [node EXCEPT ![u] = [Fresh EXCEPT !.addr = a]]
          /\ evt' = evt \cup {<<u, a>>}
          /\ nextAddr' = IF a = nextAddr THEN a + 1 ELSE nextAddr
    BY <1>11, StackStep
  <2>2. UNCHANGED <<table, nvs>>
    BY <1>11, StackStep
  <2>3. ASSUME NEW v \in Node, NEW b \in Addr, Owns(v, b)' PROVE Owns(v, b) \/ (v = u /\ b = a)
    <3>1. [Fresh EXCEPT !.addr = a].addr = a
      BY DEF Fresh
    <3>2. QED
      BY <2>1, <2>2, <2>3, <3>1, <1>a DEF Owns
  <2>4. a = stack[u] => Owns(u, a)
    BY DEF Owns
  <2>5. a = nextAddr => \A v \in Node : ~Owns(v, a)
    BY <1>a DEF AddrOwned, Addr
  <2>6. a < nextAddr' /\ nextAddr =< nextAddr'
    BY <2>1, <2>4, <1>a DEF AddrOwned, Addr
  <2>7. QED
    BY <2>1, <2>3, <2>4, <2>5, <2>6, <1>a DEF AddrOwned, Addr
<1>12. QED
  BY <1>1, <1>2, <1>3, <1>4, <1>5, <1>6, <1>7, <1>8, <1>9, <1>10, <1>11, SameBooks
     DEF Next, Crash, WipeRestart

\* A device has at most one entry, also in NVS, and none while it is being provisioned: the
\* beacon handler drops the old entry before it opens the link (bmt_mesh.c:318-331).
LEMMA BooksStep == IInv /\ [Next]_vars => UniqueEntries' /\ NvsUnique' /\ LinkIsNew'
<1> SUFFICES ASSUME IInv, [Next]_vars PROVE UniqueEntries' /\ NvsUnique' /\ LinkIsNew'
  OBVIOUS
<1> USE DEF IInv
<1> DEFINE Goal == UniqueEntries /\ NvsUnique /\ LinkIsNew
           Less == /\ \A e \in table' : \E f \in table : e.uuid = f.uuid
                   /\ UniqueEntries' /\ Saved
                   /\ UNCHANGED <<link, evt>>
<1>a. table \subseteq Entry /\ nvs \subseteq Entry /\ evt \subseteq Node \X Addr
  BY DEF TypeOK
<1>1. ASSUME Less PROVE Goal'
  <2>1. NvsUnique'
    BY <1>1 DEF Saved, UniqueEntries, NvsUnique
  <2>2. LinkIsNew'
    BY <1>1 DEF LinkIsNew, Untabled
  <2>3. QED
    BY <1>1, <2>1, <2>2
<1>2. ASSUME UNCHANGED <<table, nvs, evt>>, link' \subseteq link PROVE Goal'
  BY <1>2 DEF UniqueEntries, NvsUnique, LinkIsNew, Untabled
<1>3. ASSUME UNCHANGED <<table, nvs, evt>>, NEW u \in Node, link' \subseteq link \cup {u},
             OfUuid(u) = {}, ~ \E v \in evt : v[1] = u
      PROVE  Goal'
  <2>1. Untabled(u) /\ \A a \in Addr : <<u, a>> \notin evt
    BY <1>3 DEF Untabled, OfUuid
  <2>2. QED
    BY <1>3, <2>1 DEF UniqueEntries, NvsUnique, LinkIsNew, Untabled
<1>4. ASSUME NEW u \in Node, BeaconNew(u) \/ ProvisionListed(u) PROVE Goal'
  BY <1>4, <1>2, <1>3 DEF BeaconNew, ProvisionListed, Beacons, gateway
<1>5. ASSUME NEW u \in Node, BeaconListed(u) \/ ProvFail(u) PROVE Goal'
  BY <1>5, <1>2 DEF BeaconListed, ProvFail, gateway, world
<1>6. ASSUME NEW u \in Node, BeaconAgain(u) PROVE Goal'
  <2>1. PICK e \in OfUuid(u) : table' = table \ {e}
    BY <1>6, AgainTable
  <2>2. UniqueEntries' /\ NvsUnique'
    BY <1>6, <2>1, AgainTable DEF UniqueEntries, NvsUnique, Saved
  <2>3. \A f \in table' : f.uuid # u
    BY <2>1 DEF OfUuid, UniqueEntries
  <2>4. \A a \in Addr : <<u, a>> \notin evt
    BY <1>6, AgainTable
  <2>5. link' = link \cup {u} /\ evt' = evt /\ table' \subseteq table
    BY <1>6, <2>1, AgainTable
  <2>6. LinkIsNew'
    BY <2>3, <2>4, <2>5 DEF LinkIsNew, Untabled
  <2>7. QED
    BY <2>2, <2>6
<1>7. ASSUME NEW u \in Node, ProvStack(u) PROVE Goal'
  <2>1. PICK a \in Addr : evt' = evt \cup {<<u, a>>}
    BY <1>7, StackStep
  <2>2. u \in link /\ link' = link \ {u} /\ UNCHANGED <<table, nvs>>
    BY <1>7, StackStep
  <2>3. Untabled(u) /\ \A b \in Addr : <<u, b>> \notin evt
    BY <2>2 DEF LinkIsNew
  <2>4. \A v \in Node, b \in Addr :
          <<v, b>> \in evt' => <<v, b>> \in evt \/ (v = u /\ b = a)
    BY <2>1
  <2>5. LinkIsNew'
    BY <1>a, <2>2, <2>3, <2>4 DEF LinkIsNew, Untabled, TypeOK
  <2>6. QED
    BY <2>2, <2>5 DEF UniqueEntries, NvsUnique
<1>8. ASSUME NEW u \in Node, NEW a \in Addr, ProvComplete(u, a) PROVE Goal'
  <2>1. /\ <<u, a>> \in evt /\ evt' = evt \ {<<u, a>>} /\ link' = link
        /\ Untabled(u) /\ u \notin link /\ \A b \in Addr : <<u, b>> \notin evt'
    BY <1>8, CompleteTable DEF LinkIsNew
  <2>2. CASE UNCHANGED <<table, nvs>>
    BY <2>1, <2>2 DEF UniqueEntries, NvsUnique, LinkIsNew, Untabled
  <2>3. CASE table' = TableAdd(a, u) /\ Saved
    <3>1. \A e \in table' : \/ e \in table /\ e.addr # a /\ e.uuid # u
                            \/ e.addr = a /\ e.uuid = u
      BY <2>1, <2>3 DEF TableAdd, AtAddr, Untabled
    <3>2. \A e, f \in table' : e.addr = a /\ f.addr = a => e = f
      BY <2>3 DEF TableAdd, AtAddr
    <3>3. UniqueEntries'
      BY <3>1, <3>2 DEF UniqueEntries
    <3>4. NvsUnique'
      BY <2>3, <3>3 DEF NvsUnique, UniqueEntries, Saved
    <3>5. LinkIsNew'
      BY <2>1, <3>1, <1>a DEF LinkIsNew, Untabled, TypeOK
    <3>6. QED
      BY <3>3, <3>4, <3>5
  <2>4. QED
    BY <1>8, <2>2, <2>3, CompleteTable
<1>9. ASSUME NEW a \in Addr, Finish(a) PROVE Goal'
  <2>1. UNCHANGED <<link, evt>>
    BY <1>9, FinishTable
  <2>2. CASE UNCHANGED <<table, nvs>>
    BY <2>1, <2>2, <1>2
  <2>3. ASSUME NEW e \in AtAddr(a), table' = (table \ {e}) \cup {[e EXCEPT !.done = TRUE]}, Saved
        PROVE  Goal'
    <3>1. e \in table /\ [e EXCEPT !.done = TRUE].addr = e.addr
          /\ [e EXCEPT !.done = TRUE].uuid = e.uuid
      BY <1>a DEF AtAddr, Entry
    <3>2. UniqueEntries'
      <4>1. PICK n : table' = (table \ {e}) \cup {n} /\ n.addr = e.addr /\ n.uuid = e.uuid
        BY <2>3, <3>1
      <4>2. QED
        BY <3>1, <4>1 DEF UniqueEntries
    <3>3. \A f \in table' : \E g \in table : f.uuid = g.uuid
      BY <2>3, <3>1
    <3>4. QED
      BY <1>1, <2>1, <2>3, <3>2, <3>3
  <2>4. QED
    BY <1>9, <2>2, <2>3, FinishTable
<1>10. ASSUME NEW a \in Addr, Abort(a) PROVE Goal'
  <2>1. UNCHANGED <<link, evt>>
    BY <1>10, AbortTable
  <2>2. CASE UNCHANGED <<table, nvs>>
    BY <2>1, <2>2, <1>2
  <2>3. ASSUME table' \subseteq table, Saved PROVE Goal'
    <3>1. UniqueEntries'
      BY <2>3 DEF UniqueEntries
    <3>2. QED
      BY <1>1, <2>1, <2>3, <3>1
  <2>4. QED
    BY <1>10, <2>2, <2>3, AbortTable
<1>11. ASSUME NEW u \in Node, NodeReset(u) \/ \E m \in net : NodeAnswers(u, m) PROVE Goal'
  BY <1>11, <1>2 DEF NodeReset, NodeAnswers, gateway
<1>12. ASSUME Reboot PROVE Goal'
  BY <1>12 DEF Reboot, UniqueEntries, NvsUnique, LinkIsNew
<1>13. CASE Wipe
  BY <1>13 DEF Wipe, UniqueEntries, NvsUnique, LinkIsNew, Untabled
<1>14. ASSUME \/ \E t \in Task : TaskStep(t)
              \/ \E e \in table : PingPick(e)
              \/ PingDone
              \/ \E m \in net : CfgClientCb(m) \/ Lose(m)
              \/ UartCommand \/ ScanEnds \/ UNCHANGED vars
       PROVE  Goal'
  <2>1. UNCHANGED <<table, nvs, evt>>
    BY <1>14, SameBooks
  <2>2. link' = link
    BY <1>14 DEF TaskStep, Take, SendOk, SendFails, Register, Acked, TimedOut, Leave, PingPick,
       PingDone, CfgClientCb, Lose, UartCommand, ScanEnds, vars, gateway, world
  <2>3. QED
    BY <1>2, <2>1, <2>2
<1>15. QED
  BY <1>4, <1>5, <1>6, <1>7, <1>8, <1>9, <1>10, <1>11, <1>12, <1>13, <1>14
     DEF Next, Crash, WipeRestart

\* Tasks, pings and messages only ever name addresses that have been handed out.
LEMMA InProgressStep == IInv /\ [Next]_vars => InProgress'
<1> SUFFICES ASSUME IInv, [Next]_vars PROVE InProgress'
  OBVIOUS
<1> USE DEF IInv
<1> DEFINE Named(t) == task[t].pc # "none" =>
                         task[t].addr \in Addr /\ task[t].addr < nextAddr /\ (t # Ping => task[t].addr = t)
           SameTasks == \A t \in Task : task'[t] = task[t] \/ task'[t].pc = "none"
           SameNet   == \A m \in net' : \E n \in net : m.addr = n.addr
<1>a. task \in [Task -> TaskState] /\ nextAddr \in Nat /\ net \subseteq Msg /\ table \subseteq Entry
      /\ evt \subseteq Node \X Addr
  BY DEF TypeOK
<1>1. ASSUME SameTasks, SameNet, nextAddr' = nextAddr PROVE InProgress'
  BY <1>1 DEF InProgress
<1>2. ASSUME NEW u \in Node,
             \/ BeaconListed(u) \/ BeaconNew(u) \/ BeaconAgain(u) \/ ProvFail(u) \/ NodeReset(u)
             \/ ProvisionListed(u)
      PROVE  InProgress'
  <2>1. net' \subseteq net /\ UNCHANGED <<task, nextAddr>>
    BY <1>2 DEF BeaconListed, BeaconNew, BeaconAgain, ProvFail, NodeReset, ProvisionListed,
                gateway, world
  <2>2. QED
    BY <1>1, <2>1
<1>3. ASSUME NEW u \in Node, ProvStack(u) PROVE InProgress'
  <2>1. UNCHANGED <<task, net>> /\ nextAddr' \in Nat /\ nextAddr =< nextAddr'
    BY <1>3, <1>a, StackStep DEF Addr
  <2>2. \A t \in Task : task[t].addr \in Addr /\ task[t].addr < nextAddr => task[t].addr < nextAddr'
    BY <2>1, <1>a DEF Addr
  <2>3. \A m \in net : m.addr \in Addr /\ m.addr < nextAddr => m.addr < nextAddr'
    BY <2>1, <1>a DEF Addr
  <2>4. QED
    BY <2>1, <2>2, <2>3 DEF InProgress
<1>4. ASSUME NEW u \in Node, NEW a \in Addr, ProvComplete(u, a) PROVE InProgress'
  <2>1. a < nextAddr
    BY <1>4, CompleteTable DEF AddrOwned, Owns
  <2>2. UNCHANGED <<net, nextAddr>>
    BY <1>4, CompleteTable
  <2>3. \A t \in Task : \/ task'[t] = task[t]
                        \/ t = a /\ task'[t].addr = a
    <3>1. a \in Task
      BY DEF Task
    <3>2. \/ task' = [task EXCEPT ![a] = [pc |-> "start", addr |-> a, op |-> "key", k |-> 1]]
          \/ task' = task
      BY <1>4, CompleteTable
    <3>3. QED
      BY <1>a, <3>1, <3>2
  <2>4. QED
    BY <2>1, <2>2, <2>3 DEF InProgress
<1>5. ASSUME NEW u \in Node, NEW m \in net, NodeAnswers(u, m) PROVE InProgress'
  <2>1. [m EXCEPT !.ack = TRUE].addr = m.addr
    BY <1>a DEF Msg
  <2>2. SameNet /\ UNCHANGED <<task, nextAddr>>
    BY <1>5, <2>1 DEF NodeAnswers, gateway
  <2>3. QED
    BY <1>1, <2>2
<1>6. ASSUME NEW t \in Task, TaskStep(t) PROVE InProgress'
  <2>1. task[t].pc # "none" /\ nextAddr' = nextAddr
    BY <1>6 DEF TaskStep, Take, SendOk, SendFails, Register, Acked, TimedOut, Leave, Holds, world
  <2>2. \A r \in Task : r # t => task'[r] = task[r]
    BY <1>6, <1>a DEF TaskStep, Take, SendOk, SendFails, Register, Acked, TimedOut, Leave
  <2>3. task'[t].addr = task[t].addr
    <3>1. task[t] \in TaskState
      BY <1>a
    <3>2. NextTry(t).addr = task[t].addr /\ NextStep(t).addr = task[t].addr
      BY <3>1 DEF NextTry, NextStep, TaskState, Op
    <3>3. QED
      BY <1>6, <1>a, <3>1, <3>2 DEF TaskStep, Take, SendOk, SendFails, Register, Acked, TimedOut,
         Leave, TaskState
  <2>4. \A m \in net' : m \in net \/ m.addr = task[t].addr
    BY <1>6 DEF TaskStep, Take, SendOk, SendFails, Register, Acked, TimedOut, Leave, world
  <2>5. QED
    BY <2>1, <2>2, <2>3, <2>4 DEF InProgress
<1>7. ASSUME NEW a \in Addr, Finish(a) \/ Abort(a) PROVE InProgress'
  <2>1. task' = [task EXCEPT ![a] = NoTask] /\ UNCHANGED <<net, nextAddr>>
    BY <1>7, FinishTable, AbortTable
  <2>2. QED
    BY <1>1, <1>a, <2>1 DEF NoTask
<1>8. ASSUME NEW e \in table, PingPick(e) PROVE InProgress'
  <2>1. e.addr \in Addr /\ e.addr < nextAddr
    BY <1>a DEF AddrOwned, Owns, Entry
  <2>2. \A t \in Task : task'[t] = task[t] \/ (t = Ping /\ task'[t].addr = e.addr)
    BY <1>8, <1>a DEF PingPick
  <2>3. UNCHANGED <<net, nextAddr>>
    BY <1>8 DEF PingPick, world
  <2>4. QED
    BY <2>1, <2>2, <2>3 DEF InProgress
<1>9. CASE PingDone
  <2>1. task' = [task EXCEPT ![Ping] = NoTask] /\ UNCHANGED <<net, nextAddr>>
    BY <1>9 DEF PingDone, world
  <2>2. QED
    BY <1>1, <1>a, <2>1 DEF NoTask
<1>10. ASSUME NEW m \in net, CfgClientCb(m) \/ Lose(m) PROVE InProgress'
  <2>1. net' \subseteq net /\ UNCHANGED <<task, nextAddr>>
    BY <1>10 DEF CfgClientCb, Lose, gateway
  <2>2. QED
    BY <1>1, <2>1
<1>11. ASSUME Reboot PROVE InProgress'
  BY <1>11 DEF Reboot, InProgress, NoTask
<1>12. CASE Wipe \/ UartCommand \/ ScanEnds \/ UNCHANGED vars
  <2>1. UNCHANGED <<task, net, nextAddr>>
    BY <1>12 DEF Wipe, UartCommand, ScanEnds, vars, gateway, world
  <2>2. QED
    BY <1>1, <2>1
<1>13. QED
  BY <1>2, <1>3, <1>4, <1>5, <1>6, <1>7, <1>8, <1>9, <1>10, <1>11, <1>12
     DEF Next, Crash, WipeRestart

\* The address ProvStack gives out is one that nothing speaks of any more.
LEMMA GivenIsClean ==
  ASSUME IInv, NEW u \in Node, u \in link, NEW a \in Addr, a = nextAddr \/ a = stack[u]
  PROVE  Clean(a)
<1> USE DEF IInv
<1>1. CASE a = nextAddr
  <2>1. a \in Nat /\ ~(a < a)
    BY DEF Addr
  <2>2. \A e \in table \cup nvs : e.addr = a => FALSE
    <3>1. table \subseteq Entry /\ nvs \subseteq Entry
      BY DEF TypeOK
    <3>2. ASSUME NEW e \in table \cup nvs, e.addr = a PROVE FALSE
      <4>1. e.uuid \in Node /\ Owns(e.uuid, a)
        BY <3>1, <3>2 DEF Owns, Entry
      <4>2. a < nextAddr
        BY <4>1 DEF AddrOwned
      <4>3. QED
        BY <4>2, <1>1, <2>1
    <3>3. QED
      BY <3>2
  <2>3. QED
    BY <1>1, <2>1, <2>2 DEF Clean, InProgress
<1>2. CASE a = stack[u]
  <2>1. stack[u] # 0 /\ Untabled(u)
    BY <1>2 DEF LinkIsNew, Addr
  <2>2. QED
    BY <1>2, <2>1 DEF OrphanIsClean
<1>3. QED
  BY <1>1, <1>2

\* A device the stack lists and the table does not is one whose configuration never began:
\* whenever an entry goes, the stack's node goes with it (bmt_mesh.c:118-120, 318-320, 672-686).
LEMMA OrphanIsCleanStep == IInv /\ [Next]_vars => OrphanIsClean'
<1> SUFFICES ASSUME IInv, [Next]_vars PROVE OrphanIsClean'
  OBVIOUS
<1> USE DEF IInv
<1> DEFINE SameOrphans == \A u \in Node : stack'[u] # 0 /\ Untabled(u)' =>
                            stack'[u] = stack[u] /\ Untabled(u)
           SameTasks   == \A t \in Task : task'[t].pc # "none" =>
                            task[t].pc # "none" /\ task'[t].addr = task[t].addr
           SameNet     == \A m \in net' : \/ \E n \in net : m.addr = n.addr
                                          \/ \E t \in Task : task[t].pc # "none" /\ m.addr = task[t].addr
           SameDone    == \A e \in table' \cup nvs' : e.done =>
                            \/ \E f \in table \cup nvs : f.done /\ f.addr = e.addr
                            \/ \E t \in Task : task[t].pc # "none" /\ e.addr = task[t].addr
<1>a. /\ task \in [Task -> TaskState] /\ net \subseteq Msg /\ table \subseteq Entry
      /\ nvs \subseteq Entry /\ stack \in [Node -> 0 .. LastAddr] /\ Addr \subseteq Task
      /\ Ping \in Task
  BY DEF TypeOK, Task
<1>1. ASSUME SameOrphans, SameTasks, SameNet, SameDone PROVE OrphanIsClean'
  <2>1. ASSUME NEW u \in Node, stack'[u] # 0, Untabled(u)' PROVE Clean(stack[u])'
    <3>1. Clean(stack[u]) /\ stack'[u] = stack[u]
      BY <1>1, <2>1 DEF OrphanIsClean
    <3>2. QED
      BY <1>1, <3>1 DEF Clean
  <2>2. QED
    BY <2>1, <1>1 DEF OrphanIsClean
<1>2. ASSUME NEW u \in Node,
             \/ BeaconListed(u) \/ BeaconNew(u) \/ ProvFail(u) \/ NodeReset(u)
             \/ ProvisionListed(u)
      PROVE  OrphanIsClean'
  <2>1. net' \subseteq net /\ UNCHANGED <<table, nvs, stack, task>>
    BY <1>2 DEF BeaconListed, BeaconNew, ProvFail, NodeReset, ProvisionListed, gateway, world
  <2>2. QED
    BY <1>1, <2>1 DEF Untabled
<1>3. ASSUME NEW u \in Node, BeaconAgain(u) PROVE OrphanIsClean'
  <2>1. PICK e \in OfUuid(u) : table' = table \ {e}
    BY <1>3, AgainTable
  <2>2. stack' = [stack EXCEPT ![u] = 0] /\ Saved /\ UNCHANGED <<net, task>>
    BY <1>3, AgainTable
  <2>3. SameOrphans
    BY <1>a, <2>1, <2>2 DEF OfUuid, Untabled
  <2>4. SameDone
    BY <2>1, <2>2 DEF Saved
  <2>5. QED
    BY <1>1, <2>2, <2>3, <2>4
<1>4. ASSUME NEW u \in Node, ProvStack(u) PROVE OrphanIsClean'
  <2>1. PICK a \in Addr : (a = nextAddr \/ a = stack[u]) /\ stack' = [stack EXCEPT ![u] = a]
    BY <1>4, StackStep
  <2>2. UNCHANGED <<table, nvs, task, net>>
    BY <1>4, StackStep
  <2>3. Clean(a)
    BY <1>4, <2>1, GivenIsClean, StackStep
  <2>4. ASSUME NEW v \in Node, stack'[v] # 0, Untabled(v)' PROVE Clean(stack'[v])
    <3>1. Untabled(v)
      BY <2>2, <2>4 DEF Untabled
    <3>2. QED
      BY <1>a, <2>1, <2>3, <2>4, <3>1 DEF OrphanIsClean
  <2>5. QED
    BY <2>2, <2>4 DEF OrphanIsClean, Clean
<1>5. ASSUME NEW u \in Node, NEW a \in Addr, ProvComplete(u, a) PROVE OrphanIsClean'
  <2>1. UNCHANGED <<stack, net>> /\ Owns(u, a)
    BY <1>5, CompleteTable DEF Owns
  <2>2. CASE UNCHANGED <<table, nvs, task>>
    BY <1>1, <2>1, <2>2 DEF Untabled
  <2>3. CASE table' = TableAdd(a, u) /\ Saved
    <3>1. \A e \in AtAddr(a) : e.uuid = u
      BY <1>a, <2>1 DEF AddrOwned, Owns, AtAddr, Entry
    <3>2. PICK n : table' = (table \ AtAddr(a)) \cup {n} /\ n.addr = a /\ n.uuid = u
                   /\ (n.done => \E f \in table : f.done /\ f.addr = a)
      <4>1. LET n == [addr |-> a, uuid |-> u,
                      done |-> u \notin Known /\ \E e \in AtAddr(a) : e.done]
            IN  /\ table' = (table \ AtAddr(a)) \cup {n} /\ n.addr = a /\ n.uuid = u
                /\ (n.done => \E f \in table : f.done /\ f.addr = a)
        BY <2>3 DEF TableAdd, AtAddr
      <4>2. QED
        BY <4>1
    <3>3. ASSUME NEW v \in Node, stack'[v] # 0, Untabled(v)' PROVE Clean(stack[v])'
      <4>1. v # u /\ Untabled(v)
        BY <3>1, <3>2, <3>3 DEF Untabled
      <4>2. stack[v] # a
        BY <2>1, <4>1 DEF AddrOwned, Owns
      <4>3. Clean(stack[v]) /\ stack'[v] = stack[v]
        BY <2>1, <3>3, <4>1 DEF OrphanIsClean
      <4>4. \A t \in Task : task'[t] = task[t] \/ task'[t].addr = a
        <5>1. \/ task' = [task EXCEPT ![a] = [pc |-> "start", addr |-> a, op |-> "key", k |-> 1]]
              \/ task' = task
          BY <1>5, CompleteTable
        <5>2. QED
          BY <1>a, <5>1
      <4>5. \A e \in table' \cup nvs' : e \in table \cup nvs \/ e.addr = a
        BY <2>3, <3>2 DEF Saved
      <4>6. QED
        BY <2>1, <4>2, <4>3, <4>4, <4>5 DEF Clean
    <3>4. QED
      BY <3>3 DEF OrphanIsClean
  <2>4. QED
    BY <1>5, <2>2, <2>3, CompleteTable
<1>6. ASSUME NEW u \in Node, NEW m \in net, NodeAnswers(u, m) PROVE OrphanIsClean'
  <2>1. [m EXCEPT !.ack = TRUE].addr = m.addr
    BY <1>a DEF Msg
  <2>2. SameNet /\ UNCHANGED <<table, nvs, stack, task>>
    BY <1>6, <2>1 DEF NodeAnswers, gateway
  <2>3. QED
    BY <1>1, <2>2 DEF Untabled
<1>7. ASSUME NEW t \in Task, TaskStep(t) PROVE OrphanIsClean'
  <2>1. task[t].pc # "none" /\ UNCHANGED <<table, nvs, stack>>
    BY <1>7 DEF TaskStep, Take, SendOk, SendFails, Register, Acked, TimedOut, Leave, Holds, world
  <2>2. \A r \in Task : r # t => task'[r] = task[r]
    BY <1>7, <1>a DEF TaskStep, Take, SendOk, SendFails, Register, Acked, TimedOut, Leave
  <2>3. task'[t].addr = task[t].addr
    <3>1. task[t] \in TaskState
      BY <1>a
    <3>2. NextTry(t).addr = task[t].addr /\ NextStep(t).addr = task[t].addr
      BY <3>1 DEF NextTry, NextStep, TaskState, Op
    <3>3. QED
      BY <1>7, <1>a, <3>1, <3>2 DEF TaskStep, Take, SendOk, SendFails, Register, Acked, TimedOut,
         Leave, TaskState
  <2>4. \A m \in net' : m \in net \/ m.addr = task[t].addr
    BY <1>7 DEF TaskStep, Take, SendOk, SendFails, Register, Acked, TimedOut, Leave, world
  <2>5. QED
    BY <1>1, <2>1, <2>2, <2>3, <2>4 DEF Untabled
<1>8. ASSUME NEW a \in Addr, Finish(a) PROVE OrphanIsClean'
  <2>1. task' = [task EXCEPT ![a] = NoTask] /\ UNCHANGED <<net, stack>>
        /\ task[a].pc = "finish"
    BY <1>8, FinishTable DEF Holds
  <2>2. SameTasks /\ task[a].addr = a
    BY <1>a, <2>1 DEF NoTask, InProgress, Ping, Addr
  <2>3. CASE UNCHANGED <<table, nvs>>
    BY <1>1, <2>1, <2>2, <2>3 DEF Untabled
  <2>4. ASSUME NEW e \in AtAddr(a), table' = (table \ {e}) \cup {[e EXCEPT !.done = TRUE]}, Saved
        PROVE  OrphanIsClean'
    <3>1. PICK n : table' = (table \ {e}) \cup {n} /\ n.addr = a /\ n.uuid = e.uuid
      <4>1. e \in Entry /\ e.addr = a
        BY <1>a DEF AtAddr
      <4>2. [e EXCEPT !.done = TRUE].addr = a /\ [e EXCEPT !.done = TRUE].uuid = e.uuid
        BY <4>1 DEF Entry
      <4>3. QED
        BY <2>4, <4>2
    <3>2. SameOrphans
      BY <2>1, <3>1 DEF Untabled
    <3>3. SameDone
      BY <1>a, <2>1, <2>2, <2>4, <3>1 DEF Saved
    <3>4. QED
      BY <1>1, <2>1, <2>2, <3>2, <3>3
  <2>5. QED
    BY <1>8, <2>3, <2>4, FinishTable
<1>9. ASSUME NEW a \in Addr, Abort(a) PROVE OrphanIsClean'
  <2>1. task' = [task EXCEPT ![a] = NoTask] /\ UNCHANGED net
    BY <1>9, AbortTable
  <2>2. SameTasks
    BY <1>a, <2>1 DEF NoTask
  <2>3. CASE UNCHANGED <<table, nvs, stack>>
    BY <1>1, <2>1, <2>2, <2>3 DEF Untabled
  <2>4. ASSUME NEW e \in AtAddr(a), table' = table \ {e}, stack' = [stack EXCEPT ![e.uuid] = 0],
               Saved
        PROVE  OrphanIsClean'
    <3>1. SameOrphans
      BY <1>a, <2>4 DEF AtAddr, Entry, Untabled
    <3>2. SameDone
      BY <2>4 DEF Saved
    <3>3. QED
      BY <1>1, <2>1, <2>2, <3>1, <3>2
  <2>5. QED
    BY <1>9, <2>3, <2>4, AbortTable
<1>10. ASSUME NEW e \in table, PingPick(e) PROVE OrphanIsClean'
  <2>1. UNCHANGED <<table, nvs, stack, net>>
    BY <1>10 DEF PingPick, world
  <2>2. \A t \in Task : task'[t] = task[t] \/ task'[t].addr = e.addr
    BY <1>10, <1>a DEF PingPick
  <2>3. ASSUME NEW u \in Node, stack[u] # 0, Untabled(u) PROVE Clean(stack[u])'
    <3>1. Clean(stack[u])
      BY <2>3 DEF OrphanIsClean
    <3>2. e.addr # stack[u]
      BY <1>a, <2>3 DEF AddrOwned, Owns, Untabled, Entry
    <3>3. QED
      BY <2>1, <2>2, <3>1, <3>2 DEF Clean
  <2>4. QED
    BY <2>1, <2>3 DEF OrphanIsClean, Untabled
<1>11. CASE PingDone
  <2>1. task' = [task EXCEPT ![Ping] = NoTask] /\ UNCHANGED <<table, nvs, stack, net>>
    BY <1>11 DEF PingDone, world
  <2>2. SameTasks
    BY <1>a, <2>1 DEF NoTask
  <2>3. QED
    BY <1>1, <2>1, <2>2 DEF Untabled
<1>12. ASSUME NEW m \in net, CfgClientCb(m) \/ Lose(m) PROVE OrphanIsClean'
  <2>1. net' \subseteq net /\ UNCHANGED <<table, nvs, stack, task>>
    BY <1>12 DEF CfgClientCb, Lose, gateway
  <2>2. QED
    BY <1>1, <2>1 DEF Untabled
<1>13. ASSUME Reboot PROVE OrphanIsClean'
  <2>1. ASSUME NEW u \in Node, stack'[u] # 0, Untabled(u)' PROVE Clean(stack[u])'
    <3>1. stack' = stack /\ nvs' = nvs /\ table' = nvs /\ net' = {}
          /\ \A t \in Task : task'[t].pc = "none"
      BY <1>13 DEF Reboot, NoTask
    <3>2. \A e \in nvs : e.addr # stack[u]
      BY <1>a, <2>1, <3>1 DEF AddrOwned, Owns, Untabled, Entry
    <3>3. QED
      BY <3>1, <3>2 DEF Clean
  <2>2. QED
    BY <2>1 DEF OrphanIsClean
<1>14. CASE Wipe
  BY <1>14 DEF Wipe, OrphanIsClean
<1>15. CASE UartCommand \/ ScanEnds \/ UNCHANGED vars
  <2>1. UNCHANGED <<table, nvs, stack, net, task>>
    BY <1>15 DEF UartCommand, ScanEnds, vars, gateway, world
  <2>2. QED
    BY <1>1, <2>1 DEF Untabled
<1>16. QED
  BY <1>2, <1>3, <1>4, <1>5, <1>6, <1>7, <1>8, <1>9, <1>10, <1>11, <1>12, <1>13, <1>14, <1>15
     DEF Next, Crash, WipeRestart

\* The ping task only ever asks for DEFAULT_TTL (bmt_mesh.c:544, 557).
LEMMA PingAsksTtlStep == TypeOK /\ PingAsksTtl /\ [Next]_vars => PingAsksTtl'
<1> SUFFICES ASSUME TypeOK, PingAsksTtl, [Next]_vars PROVE PingAsksTtl'
  OBVIOUS
<1>a. task \in [Task -> TaskState] /\ Ping \in Task /\ Ping \notin Addr
  BY DEF TypeOK, Task, Ping, Addr
<1>b. task[Ping].op = "ttl"
  BY DEF PingAsksTtl
<1>1. ASSUME NEW a \in Addr, NEW r, task' = [task EXCEPT ![a] = r] PROVE PingAsksTtl'
  BY <1>1, <1>a, <1>b DEF PingAsksTtl
<1>2. ASSUME NEW r, task' = [task EXCEPT ![Ping] = r], r.op = "ttl" PROVE PingAsksTtl'
  BY <1>2, <1>a DEF PingAsksTtl
<1>3. NextTry(Ping).op = "ttl" /\ NextStep(Ping).op = "ttl" /\ NoTask.op = "ttl"
  BY <1>a, <1>b DEF NextTry, NextStep, NoTask, TaskState
<1>4. ASSUME NEW t \in Task, TaskStep(t) PROVE PingAsksTtl'
  <2>1. CASE t \in Addr
    <3>1. \E r : task' = [task EXCEPT ![t] = r]
      BY <1>4 DEF TaskStep, Take, SendOk, SendFails, Register, Acked, TimedOut, Leave
    <3>2. QED
      BY <1>1, <2>1, <3>1
  <2>2. CASE t = Ping
    <3>1. CASE Leave(t) \/ SendFails(t)
      BY <1>2, <1>3, <2>2, <3>1 DEF Leave, SendFails
    <3>2. CASE Take(t) \/ SendOk(t) \/ Register(t) \/ Acked(t) \/ TimedOut(t)
      <4>1. PICK pc : task' = [task EXCEPT ![Ping].pc = pc]
        BY <2>2, <3>2 DEF Take, SendOk, Register, Acked, TimedOut
      <4>2. QED
        BY <4>1, <1>a, <1>b DEF PingAsksTtl, TaskState
    <3>3. QED
      BY <1>4, <3>1, <3>2 DEF TaskStep
  <2>3. QED
    BY <2>1, <2>2 DEF Task
<1>5. ASSUME NEW e \in table, PingPick(e) PROVE PingAsksTtl'
  BY <1>2, <1>5 DEF PingPick
<1>6. CASE PingDone
  BY <1>2, <1>3, <1>6 DEF PingDone
<1>7. ASSUME NEW u \in Node, NEW a \in Addr, ProvComplete(u, a) PROVE PingAsksTtl'
  BY <1>1, <1>7, <1>a, <1>b DEF ProvComplete, PingAsksTtl
<1>8. ASSUME NEW a \in Addr, Finish(a) \/ Abort(a) PROVE PingAsksTtl'
  BY <1>1, <1>8 DEF Finish, Abort
<1>9. ASSUME Reboot PROVE PingAsksTtl'
  BY <1>9, <1>a, <1>3 DEF Reboot, PingAsksTtl
<1>10. ASSUME task' = task PROVE PingAsksTtl'
  BY <1>10 DEF PingAsksTtl
<1>11. QED
  <2>1. ASSUME NEW u \in Node,
               \/ BeaconListed(u) \/ BeaconNew(u) \/ BeaconAgain(u) \/ ProvStack(u)
               \/ ProvFail(u) \/ NodeReset(u) \/ ProvisionListed(u)
               \/ \E m \in net : NodeAnswers(u, m)
        PROVE  task' = task
    BY <2>1 DEF BeaconListed, BeaconNew, BeaconAgain, ProvStack, ProvFail, NodeReset,
                ProvisionListed, NodeAnswers, gateway
  <2>2. ASSUME (\E m \in net : CfgClientCb(m) \/ Lose(m)) \/ Wipe \/ UartCommand \/ ScanEnds
               \/ UNCHANGED vars
        PROVE  task' = task
    BY <2>2 DEF CfgClientCb, Lose, Wipe, UartCommand, ScanEnds, vars, gateway
  <2>3. QED
    BY <1>4, <1>5, <1>6, <1>7, <1>8, <1>9, <1>10, <2>1, <2>2 DEF Next, Crash, WipeRestart

\* What the wait record names is the exchange that is under way (bmt_mesh.c:71-78).
LEMMA WaitIsMineStep == IInv /\ [Next]_vars => WaitIsMine'
<1> SUFFICES ASSUME IInv, [Next]_vars PROVE WaitIsMine'
  OBVIOUS
<1> USE DEF IInv
<1> DEFINE Waits(t) == task[t].pc \in {"wait", "acked", "expired"}
           Keeps == \A t \in Task : Waits(t)' => Waits(t) /\ task'[t].addr = task[t].addr
                                                /\ task'[t].op = task[t].op
<1>a. task \in [Task -> TaskState] /\ Addr \subseteq Task /\ Ping \in Task
  BY DEF TypeOK, Task
<1>1. ASSUME Keeps, wait' = wait \/ wait'.addr = 0 PROVE WaitIsMine'
  BY <1>1 DEF WaitIsMine
<1>2. ASSUME NEW u \in Node,
             \/ BeaconListed(u) \/ BeaconNew(u) \/ BeaconAgain(u) \/ ProvStack(u) \/ ProvFail(u)
             \/ NodeReset(u) \/ ProvisionListed(u) \/ \E m \in net : NodeAnswers(u, m)
      PROVE  WaitIsMine'
  <2>1. UNCHANGED <<task, wait>>
    BY <1>2 DEF BeaconListed, BeaconNew, BeaconAgain, ProvStack, ProvFail, NodeReset,
                ProvisionListed, NodeAnswers, gateway
  <2>2. QED
    BY <1>1, <2>1
<1>3. ASSUME (\E m \in net : CfgClientCb(m) \/ Lose(m)) \/ Wipe \/ UartCommand \/ ScanEnds
             \/ UNCHANGED vars
      PROVE  WaitIsMine'
  <2>1. UNCHANGED <<task, wait>>
    BY <1>3 DEF CfgClientCb, Lose, Wipe, UartCommand, ScanEnds, vars, gateway
  <2>2. QED
    BY <1>1, <2>1
<1>4. ASSUME NEW t \in Task, NEW r, task' = [task EXCEPT ![t] = r],
             r.pc \notin {"wait", "acked", "expired"}, wait' = wait \/ wait'.addr = 0
      PROVE  WaitIsMine'
  BY <1>1, <1>4, <1>a
<1>5. ASSUME NEW u \in Node, NEW a \in Addr, ProvComplete(u, a) PROVE WaitIsMine'
  <2>1. wait' = wait /\ \/ task' = [task EXCEPT ![a] = [pc |-> "start", addr |-> a, op |-> "key",
                                                        k |-> 1]]
                        \/ task' = task
    BY <1>5, CompleteTable
  <2>2. CASE task' = task
    BY <1>1, <2>1, <2>2
  <2>3. CASE task' = [task EXCEPT ![a] = [pc |-> "start", addr |-> a, op |-> "key", k |-> 1]]
    BY <1>4, <1>a, <2>1, <2>3
  <2>4. QED
    BY <2>1, <2>2, <2>3
<1>6. ASSUME NEW e \in table, PingPick(e) PROVE WaitIsMine'
  <2>1. wait' = wait /\ task' = [task EXCEPT ![Ping] = [pc |-> "start", addr |-> e.addr,
                                                        op |-> "ttl", k |-> 1]]
    BY <1>6 DEF PingPick
  <2>2. QED
    BY <1>4, <1>a, <2>1
<1>7. ASSUME NEW t \in Task, Take(t) \/ SendOk(t) PROVE WaitIsMine'
  <2>1. wait' = wait /\ \A r \in Task : r # t => task'[r] = task[r]
    BY <1>7, <1>a DEF Take, SendOk
  <2>2. task'[t].pc \in {"send", "sent"}
    BY <1>7, <1>a DEF Take, SendOk, TaskState
  <2>3. QED
    BY <1>1, <2>1, <2>2
<1>8. ASSUME NEW t \in Task, SendFails(t) PROVE WaitIsMine'
  <2>1. task[t] \in TaskState
    BY <1>a
  <2>2. NextTry(t).pc \notin {"wait", "acked", "expired"}
    BY <2>1 DEF NextTry, TaskState
  <2>3. QED
    BY <1>4, <1>8, <2>2 DEF SendFails
<1>9. ASSUME NEW t \in Task, Register(t) PROVE WaitIsMine'
  <2>1. \A r \in Task : r # t => task'[r] = task[r] /\ ~Waits(r)
    BY <1>9, <1>a DEF Register, OneExchange, InExchange, Holds
  <2>2. task'[t].addr = task[t].addr /\ task'[t].op = task[t].op
    BY <1>9, <1>a DEF Register, TaskState
  <2>3. t # Ping => wait'.addr = task[t].addr /\ wait'.op = task[t].op
    BY <1>9 DEF Register, Awaited
  <2>4. QED
    BY <2>1, <2>2, <2>3 DEF WaitIsMine
<1>10. ASSUME NEW t \in Task, Acked(t) \/ TimedOut(t) PROVE WaitIsMine'
  <2>1. wait' = wait /\ Waits(t) /\ \A r \in Task : r # t => task'[r] = task[r]
    BY <1>10, <1>a DEF Acked, TimedOut, Holds
  <2>2. task'[t].addr = task[t].addr /\ task'[t].op = task[t].op
    BY <1>10, <1>a DEF Acked, TimedOut, TaskState
  <2>3. QED
    BY <1>1, <2>1, <2>2
<1>11. ASSUME NEW t \in Task, Leave(t) PROVE WaitIsMine'
  <2>1. wait'.addr = 0
    BY <1>11 DEF Leave, NoWait
  <2>2. QED
    BY <2>1 DEF WaitIsMine
<1>12. ASSUME NEW a \in Addr, Finish(a) \/ Abort(a) PROVE WaitIsMine'
  <2>1. wait' = wait /\ task' = [task EXCEPT ![a] = NoTask]
    BY <1>12 DEF Finish, Abort
  <2>2. QED
    BY <1>4, <1>a, <2>1 DEF NoTask
<1>13. CASE PingDone
  <2>1. wait' = wait /\ task' = [task EXCEPT ![Ping] = NoTask]
    BY <1>13 DEF PingDone
  <2>2. QED
    BY <1>4, <1>a, <2>1 DEF NoTask
<1>14. ASSUME Reboot PROVE WaitIsMine'
  BY <1>14 DEF Reboot, WaitIsMine, NoWait
<1>15. QED
  BY <1>2, <1>3, <1>5, <1>6, <1>7, <1>8, <1>9, <1>10, <1>11, <1>12, <1>13, <1>14
     DEF Next, TaskStep, Crash, WipeRestart

\* A device keeps what it has been told for as long as it keeps its address; one that gets an
\* address gets one nothing speaks of.
Grows(u) == /\ node'[u].addr = node[u].addr
            /\ node[u].key => node'[u].key
            /\ node[u].bound => node'[u].bound
\* A node gains keys and bindings by requests, loses them with its address, and gets an address
\* from the stack (bmt_mesh_node.c, below bmt_mesh.c).
LEMMA NodeStep ==
  ASSUME IInv, [Next]_vars
  PROVE  \/ \A u \in Node : node'[u].addr \in Addr => Grows(u)
         \/ /\ UNCHANGED <<table, nvs, task, wait, ackBit, net>>
            /\ \A u \in Node : node'[u].addr \in Addr => Grows(u) \/ Clean(node'[u].addr)
<1> USE DEF IInv
<1>a. node \in [Node -> NodeState]
  BY DEF TypeOK
<1>1. ASSUME UNCHANGED node PROVE \A u \in Node : Grows(u)
  BY <1>1 DEF Grows
<1>2. ASSUME NEW u \in Node, ProvStack(u)
      PROVE  /\ UNCHANGED <<table, nvs, task, wait, ackBit, net>>
             /\ \A v \in Node : node'[v].addr \in Addr => Grows(v) \/ Clean(node'[v].addr)
  <2>1. PICK a \in Addr : /\ a = nextAddr \/ a = stack[u]
                          /\ node' = [node EXCEPT ![u] = [Fresh EXCEPT !.addr = a]]
    BY <1>2, StackStep
  <2>2. Clean(a)
    BY <1>2, <2>1, GivenIsClean, StackStep
  <2>3. node'[u].addr = a /\ \A v \in Node : v # u => node'[v] = node[v]
    BY <1>a, <2>1 DEF Fresh
  <2>4. UNCHANGED <<table, nvs, task, wait, ackBit, net>>
    BY <1>2, StackStep
  <2>5. QED
    BY <2>2, <2>3, <2>4 DEF Grows
<1>3. ASSUME NEW u \in Node, NodeReset(u) PROVE \A v \in Node : node'[v].addr \in Addr => Grows(v)
  <2>1. node'[u].addr = 0 /\ \A v \in Node : v # u => node'[v] = node[v]
    BY <1>a, <1>3 DEF NodeReset, Fresh
  <2>2. QED
    BY <2>1 DEF Grows, Addr
<1>4. ASSUME NEW u \in Node, NEW m \in net, NodeAnswers(u, m)
      PROVE  \A v \in Node : node'[v].addr \in Addr => Grows(v)
  <2>1. node[u] \in NodeState
    BY <1>a
  <2>2. /\ node'[u].addr = node[u].addr
        /\ node[u].key => node'[u].key
        /\ node[u].bound => node'[u].bound
        /\ \A v \in Node : v # u => node'[v] = node[v]
    BY <1>a, <1>4, <2>1 DEF NodeAnswers, NodeState
  <2>3. QED
    BY <2>2 DEF Grows
<1>5. ASSUME NEW u \in Node, NEW a \in Addr, ProvComplete(u, a) PROVE UNCHANGED node
  BY <1>5, CompleteTable
<1>6. ASSUME NEW u \in Node, BeaconAgain(u) PROVE UNCHANGED node
  BY <1>6, AgainTable
<1>7. ASSUME NEW a \in Addr, Finish(a) \/ Abort(a) PROVE UNCHANGED node
  BY <1>7, FinishTable, AbortTable
<1>8. ASSUME Reboot \/ Wipe PROVE UNCHANGED node
  BY <1>8 DEF Reboot, Wipe
<1>9. QED
  BY <1>1, <1>2, <1>3, <1>4, <1>5, <1>6, <1>7, <1>8, SameBooks
     DEF Next, Crash, WipeRestart

\* Where a message in flight comes from.
Request(t) == [ack |-> FALSE, addr |-> task[t].addr, op |-> task[t].op, k |-> task[t].k]
Answer(m)  == [m EXCEPT !.ack = TRUE]
\* A config message in flight is an old one, a request a task sends, or the answer of its node.
LEMMA NetStep ==
  ASSUME TypeOK, [Next]_vars, NEW m \in net'
  PROVE  \/ m \in net
         \/ \E t \in Task : Holds(t, "send") /\ m = Request(t)
         \/ \E u \in Node : \E n \in net : NodeAnswers(u, n) /\ m = Answer(n)
<1>1. ASSUME NEW u \in Node,
             \/ BeaconListed(u) \/ BeaconNew(u) \/ BeaconAgain(u) \/ ProvStack(u) \/ ProvFail(u)
             \/ NodeReset(u) \/ ProvisionListed(u) \/ \E a \in Addr : ProvComplete(u, a)
      PROVE  m \in net
  BY <1>1 DEF BeaconListed, BeaconNew, BeaconAgain, ProvStack, ProvFail, NodeReset,
              ProvisionListed, ProvComplete, world
<1>2. ASSUME NEW u \in Node, NEW n \in net, NodeAnswers(u, n) PROVE m \in net \/ m = Answer(n)
  BY <1>2 DEF NodeAnswers, Answer
<1>3. ASSUME NEW t \in Task, SendOk(t) PROVE m \in net \/ m = Request(t)
  BY <1>3 DEF SendOk, Request
<1>4. ASSUME NEW t \in Task,
             \/ Take(t) \/ SendFails(t) \/ Register(t) \/ Acked(t) \/ TimedOut(t) \/ Leave(t)
      PROVE  m \in net
  BY <1>4 DEF Take, SendFails, Register, Acked, TimedOut, Leave, world
<1>5. ASSUME \/ \E a \in Addr : Finish(a) \/ Abort(a)
             \/ \E e \in table : PingPick(e)
             \/ PingDone \/ Wipe \/ UartCommand \/ ScanEnds \/ UNCHANGED vars
      PROVE  m \in net
  BY <1>5 DEF Finish, Abort, PingPick, PingDone, Wipe, UartCommand, ScanEnds, vars, world
<1>6. ASSUME (\E n \in net : CfgClientCb(n) \/ Lose(n)) \/ Reboot PROVE m \in net
  BY <1>6 DEF CfgClientCb, Lose, Reboot
<1>7. ASSUME NEW t \in Task, SendOk(t) PROVE Holds(t, "send")
  BY <1>7 DEF SendOk
<1>8. QED
  BY <1>1, <1>2, <1>3, <1>4, <1>5, <1>6, <1>7 DEF Next, TaskStep, Crash, WipeRestart

\* How a task comes to send a bind request, to finish, and to believe it was answered.
Same(t) == task'[t].addr = task[t].addr /\ task'[t].op = task[t].op
Answered(t) == (Holds(t, "wait") /\ ackBit) \/ Holds(t, "acked")
BindEffect(t) ==
  task'[t].pc # "none" /\ task'[t].op = "bind" =>
    /\ task[t].pc # "none" /\ task'[t].addr = task[t].addr
    /\ task[t].op = "bind" \/ (Holds(t, "acked") /\ task[t].op = "key")
FinishEffect(t) ==
  task'[t].pc = "finish" =>
    /\ task'[t].addr = task[t].addr
    /\ Holds(t, "finish") \/ (Holds(t, "acked") /\ task[t].op = "bind")
AnswerEffect(t) ==
  Answered(t)' =>
    /\ Same(t)
    /\ Answered(t) \/ (Holds(t, "wait") /\ \E m \in net : m.ack /\ Matches(m))
\* What one step may do to a config or ping task (node_config_task, node_ping_task).
LEMMA TaskEffect ==
  ASSUME TypeOK, [Next]_vars, NEW t \in Task
  PROVE  BindEffect(t) /\ FinishEffect(t) /\ AnswerEffect(t)
<1> DEFINE Goal == BindEffect(t) /\ FinishEffect(t) /\ AnswerEffect(t)
<1>a. task \in [Task -> TaskState] /\ Addr \subseteq Task /\ Ping \in Task
  BY DEF TypeOK, Task
<1>b. task[t] \in TaskState
  BY <1>a
<1>1. ASSUME task'[t] = task[t], ackBit' = ackBit \/ ~ackBit' PROVE Goal
  BY <1>1 DEF BindEffect, FinishEffect, AnswerEffect, Answered, Same, Holds
<1>2. ASSUME task'[t] = task[t], ackBit', \E m \in net : m.ack /\ Matches(m) PROVE Goal
  BY <1>2 DEF BindEffect, FinishEffect, AnswerEffect, Answered, Same, Holds
<1>3. ASSUME task'[t].pc \in {"none", "start"}, task'[t].pc = "none" \/ task'[t].op # "bind"
      PROVE  Goal
  BY <1>3 DEF BindEffect, FinishEffect, AnswerEffect, Answered, Holds
<1>4. ASSUME NEW u \in Node,
             \/ BeaconListed(u) \/ BeaconNew(u) \/ BeaconAgain(u) \/ ProvStack(u) \/ ProvFail(u)
             \/ NodeReset(u) \/ ProvisionListed(u) \/ \E m \in net : NodeAnswers(u, m)
      PROVE  Goal
  <2>1. UNCHANGED <<task, ackBit>>
    BY <1>4 DEF BeaconListed, BeaconNew, BeaconAgain, ProvStack, ProvFail, NodeReset,
                ProvisionListed, NodeAnswers, gateway
  <2>2. QED
    BY <1>1, <2>1
<1>5. ASSUME (\E m \in net : Lose(m)) \/ Wipe \/ UartCommand \/ ScanEnds \/ UNCHANGED vars
      PROVE  Goal
  <2>1. UNCHANGED <<task, ackBit>>
    BY <1>5 DEF Lose, Wipe, UartCommand, ScanEnds, vars, gateway
  <2>2. QED
    BY <1>1, <2>1
<1>6. ASSUME NEW m \in net, CfgClientCb(m) PROVE Goal
  <2>1. task' = task /\ m.ack /\ ackBit' = (ackBit \/ Matches(m)) /\ ackBit \in BOOLEAN
    BY <1>6 DEF CfgClientCb, TypeOK
  <2>2. CASE ackBit' = ackBit \/ ~ackBit'
    BY <1>1, <2>1, <2>2
  <2>3. CASE ~(ackBit' = ackBit \/ ~ackBit')
    BY <1>2, <2>1, <2>3
  <2>4. QED
    BY <2>2, <2>3
<1>7. ASSUME NEW u \in Node, NEW a \in Addr, ProvComplete(u, a) PROVE Goal
  <2>1. ackBit' = ackBit /\ \/ task' = [task EXCEPT ![a] = [pc |-> "start", addr |-> a,
                                                            op |-> "key", k |-> 1]]
                            \/ task' = task
    BY <1>7, CompleteTable
  <2>2. task'[t] = task[t] \/ (task'[t].pc = "start" /\ task'[t].op = "key")
    BY <1>a, <2>1
  <2>3. QED
    BY <1>1, <1>3, <2>1, <2>2
<1>8. ASSUME NEW e \in table, PingPick(e) PROVE Goal
  <2>1. ackBit' = ackBit /\ task' = [task EXCEPT ![Ping] = [pc |-> "start", addr |-> e.addr,
                                                            op |-> "ttl", k |-> 1]]
    BY <1>8 DEF PingPick
  <2>2. task'[t] = task[t] \/ (task'[t].pc = "start" /\ task'[t].op = "ttl")
    BY <1>a, <2>1
  <2>3. QED
    BY <1>1, <1>3, <2>1, <2>2
<1>9. ASSUME NEW r \in Task, r # t, TaskStep(r) PROVE Goal
  <2>1. task'[t] = task[t]
    BY <1>a, <1>9 DEF TaskStep, Take, SendOk, SendFails, Register, Acked, TimedOut, Leave
  <2>2. ackBit' = ackBit \/ ~ackBit'
    BY <1>9 DEF TaskStep, Take, SendOk, SendFails, Register, Acked, TimedOut, Leave
  <2>3. QED
    BY <1>1, <2>1, <2>2
<1>10. ASSUME Take(t) \/ SendOk(t) \/ TimedOut(t) PROVE Goal
  <2>1. /\ task'[t].pc \in {"send", "sent", "expired"} /\ Same(t)
        /\ task[t].pc # "none" /\ ~ Answered(t)'
    BY <1>a, <1>b, <1>10 DEF Take, SendOk, TimedOut, TaskState, Same, Holds, Answered
  <2>2. QED
    BY <2>1 DEF BindEffect, FinishEffect, AnswerEffect, Same
<1>11. ASSUME Register(t) PROVE Goal
  <2>1. /\ task'[t].pc = "wait" /\ Same(t) /\ ~ackBit' /\ task[t].pc # "none"
    BY <1>a, <1>b, <1>11 DEF Register, TaskState, Same, Holds
  <2>2. QED
    BY <2>1 DEF BindEffect, FinishEffect, AnswerEffect, Same, Answered, Holds
<1>12. ASSUME Acked(t) PROVE Goal
  <2>1. /\ task'[t].pc = "acked" /\ Same(t) /\ Answered(t) /\ task[t].pc # "none"
    BY <1>a, <1>b, <1>12 DEF Acked, TaskState, Same, Holds, Answered
  <2>2. QED
    BY <2>1 DEF BindEffect, FinishEffect, AnswerEffect, Same
<1>13. ASSUME SendFails(t) \/ (Leave(t) /\ ~Holds(t, "acked")) PROVE Goal
  <2>1. task'[t] = NextTry(t) /\ task[t].pc # "none"
    BY <1>a, <1>13 DEF SendFails, Leave, Holds
  <2>2. /\ NextTry(t).pc \in {"send", "abort", "release"}
        /\ NextTry(t).addr = task[t].addr /\ NextTry(t).op = task[t].op
    BY <1>b DEF NextTry, TaskState
  <2>3. QED
    BY <2>1, <2>2 DEF BindEffect, FinishEffect, AnswerEffect, Answered, Same, Holds
<1>14. ASSUME Leave(t), Holds(t, "acked") PROVE Goal
  <2>1. task'[t] = NextStep(t)
    BY <1>a, <1>14 DEF Leave
  <2>2. /\ NextStep(t).pc \in {"send", "finish", "release"} /\ NextStep(t).addr = task[t].addr
        /\ NextStep(t).op = "bind" => task[t].op \in {"key", "bind"}
        /\ NextStep(t).pc = "finish" => task[t].op = "bind"
    BY <1>b DEF NextStep, TaskState, Op
  <2>3. QED
    BY <1>14, <2>1, <2>2 DEF BindEffect, FinishEffect, AnswerEffect, Answered, Same, Holds
<1>15. ASSUME NEW a \in Addr, Finish(a) \/ Abort(a) PROVE Goal
  <2>1. ackBit' = ackBit /\ task' = [task EXCEPT ![a] = NoTask]
    BY <1>15 DEF Finish, Abort
  <2>2. task'[t] = task[t] \/ task'[t].pc = "none"
    BY <1>a, <2>1 DEF NoTask
  <2>3. QED
    BY <1>1, <1>3, <2>1, <2>2
<1>16. CASE PingDone
  <2>1. ackBit' = ackBit /\ task' = [task EXCEPT ![Ping] = NoTask]
    BY <1>16 DEF PingDone
  <2>2. task'[t] = task[t] \/ task'[t].pc = "none"
    BY <1>a, <2>1 DEF NoTask
  <2>3. QED
    BY <1>1, <1>3, <2>1, <2>2
<1>17. ASSUME Reboot PROVE Goal
  <2>1. task'[t].pc = "none"
    BY <1>17 DEF Reboot, NoTask
  <2>2. QED
    BY <1>3, <2>1
<1>18. QED
  BY <1>4, <1>5, <1>6, <1>7, <1>8, <1>9, <1>10, <1>11, <1>12, <1>13, <1>14, <1>15, <1>16, <1>17
     DEF Next, TaskStep, Crash, WipeRestart

\* What a device has done, it has done in every later state in which it keeps its address.
LEMMA DidGrows ==
  ASSUME NEW u \in Node, NEW op \in Op, Grows(u), Did(u, op)
  PROVE  Did(u, op)'
BY DEF Grows, Did, Op

\* No acknowledgement is in flight that its sender has not earned (bmt_mesh.c:82-85: a request
\* sent again is carried out again, to the same effect).
LEMMA AcksAreGenuineStep == IInv /\ [Next]_vars => AcksAreGenuine'
<1> SUFFICES ASSUME IInv, [Next]_vars PROVE AcksAreGenuine'
  OBVIOUS
<1> USE DEF IInv
<1>a. net \subseteq Msg /\ net' \subseteq Msg /\ node \in [Node -> NodeState]
  BY TypeStep DEF TypeOK
<1>b. InProgress'
  BY InProgressStep
<1>1. SUFFICES ASSUME NEW m \in net', m.ack, NEW u \in Node, node'[u].addr = m.addr
               PROVE  Did(u, m.op)'
  BY DEF AcksAreGenuine, At
<1>2. m.op \in Op /\ m.addr \in Addr
  BY <1>a, <1>b DEF Msg, InProgress
<1>3. ASSUME m \in net, Grows(u) PROVE Did(u, m.op)'
  <2>1. Did(u, m.op)
    BY <1>1, <1>3 DEF AcksAreGenuine, At, Grows
  <2>2. QED
    BY <1>2, <1>3, <2>1, DidGrows
<1>4. ASSUME net' = net, Clean(m.addr) PROVE FALSE
  BY <1>4 DEF Clean
<1>5. ASSUME Grows(u), NEW v \in Node, NEW n \in net, NodeAnswers(v, n), m = Answer(n)
      PROVE  Did(u, m.op)'
  <2>1. m.addr = n.addr /\ m.op = n.op
    BY <1>5, <1>a DEF Answer, Msg
  <2>2. node[v].addr = m.addr /\ node[u].addr = m.addr
    BY <1>1, <1>5, <2>1 DEF NodeAnswers, Grows
  <2>3. u = v
    BY <2>2, <1>2 DEF AddrOwned, Owns
  <2>4. m.op = "bind" => node[v].key
    BY <2>1, <2>2, <1>5 DEF BindersHaveKey, At
  <2>5. /\ node'[v].key = (node[v].key \/ m.op = "key")
        /\ node'[v].bound = (node[v].bound \/ (m.op = "bind" /\ node[v].key))
    BY <1>5, <1>a, <2>1 DEF NodeAnswers
  <2>6. QED
    BY <1>2, <2>3, <2>4, <2>5 DEF Did, Op
<1>6. ASSUME NEW t \in Task, m = Request(t) PROVE FALSE
  BY <1>1, <1>6 DEF Request
<1>7. QED
  BY <1>1, <1>2, <1>3, <1>4, <1>5, <1>6, NodeStep, NetStep

\* A bind request only goes to a node that has the key, and a config task only finishes with a
\* node that has both: the steps are in that order, and each waits for its answer.
LEMMA BindersHaveKeyStep == IInv /\ [Next]_vars => BindersHaveKey'
<1> SUFFICES ASSUME IInv, [Next]_vars PROVE BindersHaveKey'
  OBVIOUS
<1> USE DEF IInv
<1>a. net \subseteq Msg /\ node \in [Node -> NodeState] /\ task \in [Task -> TaskState]
  BY DEF TypeOK
<1>b. InProgress'
  BY InProgressStep
<1>1. ASSUME NEW m \in net', m.op = "bind", NEW u \in Node, node'[u].addr = m.addr
      PROVE  node'[u].key
  <2>1. m.addr \in Addr
    BY <1>b DEF InProgress
  <2>2. ASSUME Grows(u), m \in net PROVE node'[u].key
    BY <1>1, <2>2 DEF BindersHaveKey, At, Grows
  <2>3. ASSUME Grows(u), NEW t \in Task, Holds(t, "send"), m = Request(t) PROVE node'[u].key
    BY <1>1, <2>3 DEF BindersHaveKey, At, Grows, Request, Holds
  <2>4. ASSUME Grows(u), NEW v \in Node, NEW n \in net, NodeAnswers(v, n), m = Answer(n)
        PROVE  node'[u].key
    <3>1. m.addr = n.addr /\ n.op = "bind"
      BY <1>1, <2>4, <1>a DEF Answer, Msg
    <3>2. QED
      BY <1>1, <2>4, <3>1 DEF BindersHaveKey, At, Grows
  <2>5. ASSUME net' = net, Clean(m.addr) PROVE FALSE
    BY <2>5 DEF Clean
  <2>6. QED
    BY <1>1, <2>1, <2>2, <2>3, <2>4, <2>5, NodeStep, NetStep
<1>2. ASSUME NEW t \in Task, task'[t].pc # "none", NEW u \in Node, node'[u].addr = task'[t].addr
      PROVE  /\ task'[t].op = "bind" => node'[u].key
             /\ task'[t].pc = "finish" => node'[u].key /\ node'[u].bound
  <2>1. task'[t].addr \in Addr
    BY <1>2, <1>b DEF InProgress
  <2>2. ASSUME Grows(u), task'[t].op = "bind" PROVE node'[u].key
    <3>1. BindEffect(t)
      BY TaskEffect
    <3>2. task[t].pc # "none" /\ node[u].addr = task[t].addr
          /\ (task[t].op = "bind" \/ (Holds(t, "acked") /\ task[t].op = "key"))
      BY <1>2, <2>2, <3>1 DEF BindEffect, Grows
    <3>3. CASE task[t].op = "bind"
      BY <2>2, <3>2, <3>3 DEF BindersHaveKey, At, Grows
    <3>4. CASE Holds(t, "acked") /\ task[t].op = "key"
      <4>1. Did(u, "key")
        BY <3>2, <3>4 DEF AckIsGenuine
      <4>2. QED
        BY <2>2, <4>1 DEF Did, Grows
    <3>5. QED
      BY <3>2, <3>3, <3>4
  <2>3. ASSUME Grows(u), task'[t].pc = "finish" PROVE node'[u].key /\ node'[u].bound
    <3>1. FinishEffect(t)
      BY TaskEffect
    <3>2. node[u].addr = task[t].addr
          /\ (Holds(t, "finish") \/ (Holds(t, "acked") /\ task[t].op = "bind"))
      BY <1>2, <2>3, <3>1 DEF FinishEffect, Grows
    <3>3. CASE Holds(t, "finish")
      BY <2>3, <3>2, <3>3 DEF BindersHaveKey, At, Grows, Holds
    <3>4. CASE Holds(t, "acked") /\ task[t].op = "bind"
      <4>1. Did(u, "bind")
        BY <3>2, <3>4 DEF AckIsGenuine
      <4>2. node[u].bound
        BY <4>1 DEF Did
      <4>3. node[u].key
        BY <3>2, <3>4 DEF BindersHaveKey, At, Holds
      <4>4. QED
        BY <2>3, <4>2, <4>3 DEF Grows
    <3>5. QED
      BY <3>2, <3>3, <3>4
  <2>4. ASSUME task' = task, Clean(task'[t].addr) PROVE FALSE
    BY <1>2, <2>4 DEF Clean
  <2>5. QED
    BY <1>2, <2>1, <2>2, <2>3, <2>4, NodeStep
<1>3. QED
  BY <1>1, <1>2 DEF BindersHaveKey, At

\* Who sees the event bit sees the answer it waits for (bmt_mesh.c:71-79, 393, 413).
LEMMA AckIsGenuineStep == IInv /\ [Next]_vars => AckIsGenuine'
<1> SUFFICES ASSUME IInv, [Next]_vars PROVE AckIsGenuine'
  OBVIOUS
<1> USE DEF IInv
<1>a. task \in [Task -> TaskState] /\ net \subseteq Msg
  BY DEF TypeOK
<1>b. InProgress'
  BY InProgressStep
<1>1. SUFFICES ASSUME NEW t \in Task, NEW u \in Node, NEW op, op = task'[t].op,
                      Answered(t)', node'[u].addr = task'[t].addr
               PROVE  Did(u, op)'
  <2>1. ASSUME NEW t \in Task, NEW u \in Node, Answered(t)', node'[u].addr = task'[t].addr
        PROVE  Did(u, task[t].op)'
    <3>1. PICK op : op = task'[t].op
      OBVIOUS
    <3>2. Did(u, op)'
      BY <1>1, <2>1, <3>1
    <3>3. QED
      BY <3>1, <3>2 DEF Did
  <2>2. QED
    BY <2>1 DEF AckIsGenuine, Answered, Holds
<1>2. /\ task'[t].addr = task[t].addr /\ task[t].op = op /\ op \in Op
      /\ Answered(t) \/ (Holds(t, "wait") /\ \E m \in net : m.ack /\ Matches(m))
  BY <1>1, <1>a, TaskEffect DEF AnswerEffect, Same, TaskState
<1>3. task'[t].addr \in Addr /\ task[t].pc # "none"
  BY <1>b, <1>1, <1>2 DEF InProgress, Answered, Holds
<1>4. ASSUME Grows(u) PROVE Did(u, op)'
  <2>1. node[u].addr = task[t].addr
    BY <1>1, <1>2, <1>4 DEF Grows
  <2>2. CASE Answered(t)
    <3>1. Did(u, op)
      BY <1>2, <2>1, <2>2 DEF AckIsGenuine, Answered
    <3>2. QED
      BY <1>2, <1>4, <3>1, DidGrows
  <2>3. ASSUME t # Ping, Holds(t, "wait"), NEW m \in net, m.ack, Matches(m) PROVE Did(u, op)'
    <3>1. m.addr # 0
      BY DEF InProgress, Addr
    <3>2. m.addr = task[t].addr /\ m.op = op
      BY <1>2, <2>3, <3>1 DEF WaitIsMine, Matches, Holds
    <3>3. Did(u, op)
      BY <2>1, <2>3, <3>2 DEF AcksAreGenuine, At
    <3>4. QED
      BY <1>2, <1>4, <3>3, DidGrows
  <2>4. CASE t = Ping
    BY <1>2, <2>4 DEF PingAsksTtl, Did
  <2>5. QED
    BY <1>2, <2>2, <2>3, <2>4
<1>5. ASSUME task' = task, Clean(task'[t].addr) PROVE FALSE
  BY <1>3, <1>5 DEF Clean
<1>6. QED
  BY <1>1, <1>3, <1>4, <1>5, NodeStep

\* config_done is only ever said of a node that has the key and the binding, and stays true of
\* it: the address of the entry goes to no other device, and not to that one either.
LEMMA ConfiguredIsBoundStep == IInv /\ [Next]_vars => ConfiguredIsBound'
<1> SUFFICES ASSUME IInv, [Next]_vars PROVE ConfiguredIsBound'
  OBVIOUS
<1> USE DEF IInv
<1> DEFINE Ready(a) == \A u \in At(a) : node[u].key /\ node[u].bound
           OldDone  == \A e \in table' \cup nvs' : e.done => Ready(e.addr)
<1>a. /\ table \subseteq Entry /\ nvs \subseteq Entry /\ table' \subseteq Entry
      /\ nvs' \subseteq Entry /\ task \in [Task -> TaskState] /\ Addr \subseteq Task
  BY TypeStep DEF TypeOK, Task
<1>b. \A e \in table \cup nvs : e.done => Ready(e.addr)
  BY DEF ConfiguredIsBound, At
<1>1. ASSUME table' \subseteq table, Saved \/ nvs' \subseteq nvs PROVE OldDone
  BY <1>1, <1>b DEF Saved
<1>2. ASSUME NEW u \in Node, BeaconAgain(u) PROVE OldDone
  BY <1>1, <1>2, AgainTable
<1>3. ASSUME NEW u \in Node, NEW a \in Addr, ProvComplete(u, a) PROVE OldDone
  <2>1. CASE UNCHANGED <<table, nvs>>
    BY <1>1, <2>1
  <2>2. CASE table' = TableAdd(a, u) /\ Saved
    <3>1. \A e \in table' : e.done => \E f \in table : f.done /\ f.addr = e.addr
      <4>1. LET n == [addr |-> a, uuid |-> u,
                      done |-> u \notin Known /\ \E e \in AtAddr(a) : e.done]
            IN  /\ table' = (table \ AtAddr(a)) \cup {n} /\ n.addr = a
                /\ (n.done => \E f \in table : f.done /\ f.addr = a)
        BY <2>2 DEF TableAdd, AtAddr
      <4>2. QED
        BY <4>1
    <3>2. \A e \in table' : e.done => Ready(e.addr)
      BY <1>b, <3>1
    <3>3. QED
      BY <1>b, <2>2, <3>2 DEF Saved
  <2>3. QED
    BY <1>3, <2>1, <2>2, CompleteTable
<1>4. ASSUME NEW a \in Addr, Finish(a) PROVE OldDone
  <2>1. CASE UNCHANGED <<table, nvs>>
    BY <1>1, <2>1
  <2>2. ASSUME NEW e \in AtAddr(a), table' = (table \ {e}) \cup {[e EXCEPT !.done = TRUE]}, Saved
        PROVE  OldDone
    <3>1. task[a].pc = "finish" /\ a \in Task
      BY <1>4, <1>a, FinishTable DEF Holds
    <3>2. task[a].addr = a
      BY <3>1 DEF InProgress, Ping, Addr
    <3>3. Ready(a)
      BY <3>1, <3>2 DEF BindersHaveKey
    <3>4. \A f \in table' : f \in table \/ f.addr = a
      BY <1>a, <2>2 DEF AtAddr, Entry
    <3>5. \A f \in table' : f.done => Ready(f.addr)
      BY <1>b, <3>3, <3>4
    <3>6. QED
      BY <1>b, <2>2, <3>5 DEF Saved
  <2>3. QED
    BY <1>4, <2>1, <2>2, FinishTable
<1>5. ASSUME NEW a \in Addr, Abort(a) PROVE OldDone
  BY <1>1, <1>5, AbortTable
<1>6. ASSUME Reboot \/ Wipe PROVE OldDone
  BY <1>6, <1>b DEF Reboot, Wipe
<1>7. ASSUME NEW u \in Node, \/ NodeReset(u) \/ ProvStack(u) \/ \E m \in net : NodeAnswers(u, m)
      PROVE  OldDone
  BY <1>1, <1>7 DEF NodeReset, ProvStack, NodeAnswers, gateway
<1>8. ASSUME UNCHANGED <<table, nvs>> PROVE OldDone
  BY <1>1, <1>8
<1>9. ASSUME \/ \E u \in Node : BeaconListed(u) \/ BeaconNew(u) \/ ProvFail(u) \/ ProvisionListed(u)
             \/ \E t \in Task : TaskStep(t)
             \/ \E e \in table : PingPick(e)
             \/ PingDone
             \/ \E m \in net : CfgClientCb(m) \/ Lose(m)
             \/ UartCommand \/ ScanEnds \/ UNCHANGED vars
      PROVE  UNCHANGED <<table, nvs>>
  BY <1>9 DEF BeaconListed, BeaconNew, ProvFail, ProvisionListed, TaskStep, Take, SendOk,
     SendFails, Register, Acked, TimedOut, Leave, PingPick, PingDone, CfgClientCb, Lose,
     UartCommand, ScanEnds, vars, gateway
<1>10. OldDone
  BY <1>2, <1>3, <1>4, <1>5, <1>6, <1>7, <1>8, <1>9 DEF Next, Crash, WipeRestart
<1>11. ASSUME NEW e \in table' \cup nvs', e.done, NEW u \in Node, node'[u].addr = e.addr
       PROVE  node'[u].key /\ node'[u].bound
  <2>1. e.addr \in Addr
    BY <1>a, <1>11 DEF Entry
  <2>2. CASE Grows(u)
    BY <1>10, <1>11, <2>2 DEF Grows, At
  <2>3. ASSUME table' = table, nvs' = nvs, Clean(e.addr) PROVE FALSE
    BY <1>11, <2>3 DEF Clean
  <2>4. QED
    BY <1>11, <2>1, <2>2, <2>3, NodeStep
<1>12. QED
  BY <1>11 DEF ConfiguredIsBound

-----------------------------------------------------------------------------
(* The inductive invariant, and what follows. *)

\* The invariant holds at boot: no entry, no task, no message.
LEMMA InvInit == Init => IInv
<1> SUFFICES ASSUME Init PROVE IInv
  OBVIOUS
<1>1. TypeOK
  BY TypeInit
<1>2. OneExchange /\ PingAsksTtl /\ WaitIsMine /\ AckIsGenuine
  BY DEF Init, OneExchange, PingAsksTtl, WaitIsMine, AckIsGenuine, InExchange, NoTask, NoWait,
         Holds, Task
<1>3. AddrOwned
  BY DEF Init, AddrOwned, Owns, Fresh, Addr
<1>4. InProgress /\ LinkIsNew /\ OrphanIsClean
  BY DEF Init, InProgress, LinkIsNew, OrphanIsClean, NoTask
<1>5. AcksAreGenuine /\ BindersHaveKey
  BY DEF Init, AcksAreGenuine, BindersHaveKey, NoTask
<1>6. ConfiguredIsBound /\ UniqueEntries /\ NvsUnique
  BY DEF Init, ConfiguredIsBound, UniqueEntries, NvsUnique
<1>7. QED
  BY <1>1, <1>2, <1>3, <1>4, <1>5, <1>6 DEF IInv

\* IInv is an invariant.
THEOREM Invariance == Spec => []IInv
<1>1. IInv /\ [Next]_vars => IInv'
  BY TypeStep, OneExchangeStep, AddrOwnedStep, BooksStep, InProgressStep, OrphanIsCleanStep,
     WaitIsMineStep, PingAsksTtlStep, AcksAreGenuineStep, BindersHaveKeyStep, AckIsGenuineStep,
     ConfiguredIsBoundStep DEF IInv
<1>2. QED
  BY <1>1, InvInit, PTL DEF Spec

\* Whoever sees the event bit sees an answer of its own node to its own opcode, whatever is
\* lost, late or sent again, and however config tasks, pings, resets and restarts interleave.
THEOREM AnswersAreGenuine == Spec => []AckIsGenuine
<1>1. IInv => AckIsGenuine
  BY DEF IInv
<1>2. QED
  BY <1>1, Invariance, PTL

\* An entry marked config_done, in RAM or in NVS, is true: the node has the AppKey and its
\* model is bound to it.
THEOREM ConfiguredMeansBound == Spec => []ConfiguredIsBound
<1>1. IInv => ConfiguredIsBound
  BY DEF IInv
<1>2. QED
  BY <1>1, Invariance, PTL

\* The node table never has two entries for an address or for a device.
THEOREM EntriesAreUnique == Spec => []UniqueEntries
<1>1. IInv => UniqueEntries
  BY DEF IInv
<1>2. QED
  BY <1>1, Invariance, PTL
=============================================================================

---------------------------- MODULE Provisioning ----------------------------
(***************************************************************************)
(* How the gateway admits scanners and relays (bmt_mesh.c, bmt_node_table.c *)
(* and, through ScanList, bmt_scan_list.c).                                *)
(*                                                                         *)
(* A device beacons as unprovisioned; the mesh stack provisions it; the    *)
(* PROV_COMPLETE callback adds it to the node table and starts a config    *)
(* task, which sends APP_KEY_ADD and MODEL_APP_BIND, each acknowledged by   *)
(* the node and retried, and marks the entry config_done.  Config tasks    *)
(* and the ping task share one mutex, one wait record (s_cfg_wait_addr,     *)
(* s_cfg_wait_opcode) and one event bit.  The table is in RAM with a copy   *)
(* in NVS; the stack keeps a node list of its own.  Messages are lost or    *)
(* late, NVS writes fail, nodes reset themselves and the gateway restarts.  *)
(***************************************************************************)
EXTENDS ScanList

CONSTANTS
  Scan, Relay,   \* UUIDs with the SCAN and the RELAY prefix; others are unknown types
  MaxNodes,      \* BMT_MAX_NODES
  CfgRetry,      \* BMT_CFG_RETRY
  LastAddr,      \* bound: unicast addresses the stack may hand out
  MaxFault,      \* bound: failed sends, lost or late messages, broken links
  MaxSaveFail,   \* bound: NVS writes that fail
  MaxReset,      \* bound: resets of nodes (button, RESET_CMD, UART)
  MaxCrash,      \* bound: restarts of the gateway that keep its NVS
  MaxWipe,       \* bound: full resets of the gateway (UART 9, watchdog)
  UartUser       \* whether somebody types the provisioning commands

ASSUME ProvisioningAssumption ==
  /\ Scan \subseteq Node /\ Relay \subseteq Node /\ Scan \cap Relay = {}
  /\ MaxNodes \in Nat \ {0} /\ CfgRetry \in Nat \ {0} /\ LastAddr \in Nat
  /\ MaxFault \in Nat /\ MaxSaveFail \in Nat /\ MaxReset \in Nat
  /\ MaxCrash \in Nat /\ MaxWipe \in Nat /\ UartUser \in BOOLEAN

VARIABLES
  table,      \* s_nodes in RAM: the used entries
  nvs,        \* the copy of the table in NVS
  stack,      \* the mesh stack's own node list: the address it gave each UUID, 0 if none
  link,       \* devices the stack is provisioning (add_unprov_dev)
  evt,        \* PROV_COMPLETE events that wait for their callback: <<UUID, address>>
  nextAddr,   \* the stack's next fresh address
  node,       \* each device: its address (0 unprovisioned), AppKey, vendor model bound
  task,       \* the config task of each address, and the ping task
  lock,       \* s_cfg_mutex: the task that holds it
  wait,       \* s_cfg_wait_addr, s_cfg_wait_opcode
  ackBit,     \* BMT_CFG_ACK_BIT
  net,        \* config messages in flight
  wiping,     \* a full reset has cleared the state and waits to restart
  faults, saveFails, resets, crashes, wipes   \* what the bounds count

gateway == <<table, nvs, task, lock, wait, ackBit, wiping>>
world   == <<stack, link, evt, nextAddr, node, net>>
budget  == <<faults, saveFails, resets, crashes, wipes>>
vars    == <<gateway, world, budget, scanVars>>

Addr  == 1 .. LastAddr
Ping  == 0                       \* the ping task; a config task is named by its address
Task  == Addr \cup {Ping}
Known == Scan \cup Relay

Op    == {"key", "bind", "ttl"}  \* APP_KEY_ADD, MODEL_APP_BIND, DEFAULT_TTL_GET
PC    == {"none", "start", "send", "sent", "wait", "acked", "expired", "finish", "abort",
          "release"}
Entry == [addr : Addr, uuid : Node, done : BOOLEAN]
Msg   == [ack : BOOLEAN, addr : 0 .. LastAddr, op : Op, k : 1 .. CfgRetry]
NodeState == [addr : 0 .. LastAddr, key : BOOLEAN, bound : BOOLEAN]
TaskState == [pc : PC, addr : 0 .. LastAddr, op : Op, k : 1 .. CfgRetry]

NoTask == [pc |-> "none", addr |-> 0, op |-> "ttl", k |-> 1]
NoWait == [addr |-> 0, op |-> "ttl"]
Fresh  == [addr |-> 0, key |-> FALSE, bound |-> FALSE]

\* TYPES.  Tasks, entries and messages name devices, addresses and attempts that exist; the
\* attempt never exceeds BMT_CFG_RETRY (cfg_send_retry).
TypeOK ==
  /\ table \in SUBSET Entry /\ nvs \in SUBSET Entry
  /\ stack \in [Node -> 0 .. LastAddr]
  /\ link \in SUBSET Node /\ evt \in SUBSET (Node \X Addr)
  /\ nextAddr \in 1 .. LastAddr + 1
  /\ node \in [Node -> NodeState]
  /\ task \in [Task -> TaskState]
  /\ lock \in SUBSET Task
  /\ wait \in [addr : 0 .. LastAddr, op : Op]
  /\ ackBit \in BOOLEAN /\ wiping \in BOOLEAN
  /\ net \in SUBSET Msg
  /\ faults \in 0 .. MaxFault /\ saveFails \in 0 .. MaxSaveFail
  /\ resets \in 0 .. MaxReset /\ crashes \in 0 .. MaxCrash /\ wipes \in 0 .. MaxWipe
  /\ ScanTypeOK

Init ==
  /\ table = {} /\ nvs = {}
  /\ stack = [u \in Node |-> 0] /\ link = {} /\ evt = {} /\ nextAddr = 1
  /\ node = [u \in Node |-> Fresh]
  /\ task = [t \in Task |-> NoTask]
  /\ lock = {} /\ wait = NoWait /\ ackBit = FALSE /\ wiping = FALSE
  /\ net = {}
  /\ faults = 0 /\ saveFails = 0 /\ resets = 0 /\ crashes = 0 /\ wipes = 0
  /\ ScanInit

Fault == faults < MaxFault /\ faults' = faults + 1

-----------------------------------------------------------------------------
(* The node table. *)

\* bmt_node_table_save: on an NVS error it logs and the old copy stays.  A restart between
\* the change in RAM and the save finds the same NVS as a save that failed.
Save ==
  \/ nvs' = table' /\ UNCHANGED saveFails
  \/ saveFails < MaxSaveFail /\ saveFails' = saveFails + 1 /\ UNCHANGED nvs

\* bmt_node_table_find, as the set of matching entries.
AtAddr(a) == {e \in table : e.addr = a}
OfUuid(u) == {e \in table : e.uuid = u}

\* bmt_node_table_add: an entry of that address is taken over, else a free slot is used.
CanAdd(a) == AtAddr(a) # {} \/ Cardinality(table) < MaxNodes
TableAdd(a, u) ==
  (table \ AtAddr(a)) \cup
    {[addr |-> a, uuid |-> u, done |-> u \notin Known /\ \E e \in AtAddr(a) : e.done]}

-----------------------------------------------------------------------------
(* Devices appear: mesh_prov_cb and the stack below it. *)

\* A beacon is handled after the PROV_COMPLETE events queued before it.
Beacons(u) == node[u].addr = 0 /\ \A v \in evt : v[1] # u

\* MANUAL mode: a beacon only feeds the list, and only during a scan.
BeaconListed(u) ==
  /\ Beacons(u) /\ mode = "MANUAL"
  /\ ScanAdd(u)
  /\ UNCHANGED <<gateway, world, budget>>

\* AUTO mode, UUID not in the table: provision it now.
BeaconNew(u) ==
  /\ Beacons(u) /\ mode = "AUTO" /\ OfUuid(u) = {} /\ u \notin link
  /\ link' = link \cup {u}
  /\ UNCHANGED <<gateway, stack, evt, nextAddr, node, net, budget, scanVars>>

\* Slips: the entry survives; it is not saved; the beacon is handled late.
SlipAgainKeepsEntry(u) ==
  /\ Beacons(u) /\ mode = "AUTO"
  /\ \E e \in OfUuid(u) : e.done
  /\ stack' = [stack EXCEPT ![u] = 0]
  /\ link' = link \cup {u}
  /\ UNCHANGED <<table, nvs, task, lock, wait, ackBit, wiping, evt, nextAddr, node, net, budget,
                 scanVars>>
SlipAgainUnsaved(u) ==
  /\ Beacons(u) /\ mode = "AUTO"
  /\ \E e \in OfUuid(u) : e.done /\ table' = table \ {e}
  /\ stack' = [stack EXCEPT ![u] = 0]
  /\ link' = link \cup {u}
  /\ UNCHANGED <<nvs, task, lock, wait, ackBit, wiping, evt, nextAddr, node, net, budget, scanVars>>
SlipAgainLate(u) ==
  /\ mode = "AUTO"
  /\ \E e \in OfUuid(u) : e.done /\ table' = table \ {e}
  /\ stack' = [stack EXCEPT ![u] = 0]
  /\ Save
  /\ link' = link \cup {u}
  /\ UNCHANGED <<task, lock, wait, ackBit, wiping, evt, nextAddr, node, net, faults, resets,
                 crashes, wipes, scanVars>>

\* AUTO mode, a configured node beacons again: drop the entry and provision it anew.  An
\* entry that is not config_done makes the callback skip the beacon: no step.
BeaconAgain(u) ==
  /\ Beacons(u) /\ mode = "AUTO"
  /\ \E e \in OfUuid(u) : e.done /\ table' = table \ {e}
  /\ stack' = [stack EXCEPT ![u] = 0]
  /\ Save
  /\ link' = link \cup {u}
  /\ UNCHANGED <<task, lock, wait, ackBit, wiping, evt, nextAddr, node, net, faults, resets,
                 crashes, wipes, scanVars>>

\* The stack finishes provisioning.  A device it still lists keeps its address.
ProvStack(u) ==
  /\ u \in link /\ node[u].addr = 0
  /\ \E a \in (IF stack[u] = 0 THEN {nextAddr} ELSE {stack[u]}) \cap Addr :
       /\ stack' = [stack EXCEPT ![u] = a]
       /\ node' = [node EXCEPT ![u] = [Fresh EXCEPT !.addr = a]]
       /\ nextAddr' = IF a = nextAddr THEN a + 1 ELSE nextAddr
       /\ evt' = evt \cup {<<u, a>>}
  /\ link' = link \ {u}
  /\ UNCHANGED <<gateway, net, budget, scanVars>>

\* The link breaks: the device goes on beaconing.
ProvFail(u) ==
  /\ u \in link
  /\ link' = link \ {u}
  /\ Fault
  /\ UNCHANGED <<gateway, stack, evt, nextAddr, node, net, saveFails, resets, crashes, wipes,
                 scanVars>>

\* PROV_COMPLETE: the entry is added and saved, and a config task starts for a known type.
ProvComplete(u, a) ==
  /\ <<u, a>> \in evt
  /\ evt' = evt \ {<<u, a>>}
  /\ IF CanAdd(a)
     THEN /\ table' = TableAdd(a, u)
          /\ Save
          /\ task' = IF u \in Known
                     THEN [task EXCEPT ![a] = [pc |-> "start", addr |-> a, op |-> "key",
                                               k |-> 1]]
                     ELSE task
     ELSE UNCHANGED <<table, nvs, task, saveFails>>   \* "Node table full"
  /\ UNCHANGED <<lock, wait, ackBit, wiping, stack, link, nextAddr, node, net, faults, resets,
                 crashes, wipes, scanVars>>

-----------------------------------------------------------------------------
(* One exchange: take the mutex, send, wait_cfg_ack, retry.  The config tasks (prio 5)  *)
(* and the ping task (prio 3) run the same code with different opcodes.                 *)

Holds(t, pc) == task[t].pc = pc

\* The ping task picks a configured node; the address is copied before the mutex is taken.
PingPick(e) ==
  /\ Holds(Ping, "none")
  /\ e \in table /\ e.done /\ e.uuid \in Known
  /\ task' = [task EXCEPT ![Ping] = [pc |-> "start", addr |-> e.addr, op |-> "ttl", k |-> 1]]
  /\ UNCHANGED <<table, nvs, lock, wait, ackBit, wiping, world, budget, scanVars>>

\* Slip: the ping does not take the mutex.
SlipTakeNoMutex(t) ==
  /\ Holds(t, "start") /\ (t = Ping \/ lock = {})
  /\ lock' = {t}
  /\ task' = [task EXCEPT ![t].pc = "send"]
  /\ UNCHANGED <<table, nvs, wait, ackBit, wiping, world, budget, scanVars>>

Take(t) ==
  /\ Holds(t, "start") /\ lock = {}
  /\ lock' = {t}
  /\ task' = [task EXCEPT ![t].pc = "send"]
  /\ UNCHANGED <<table, nvs, wait, ackBit, wiping, world, budget, scanVars>>

\* Slips: one attempt too many; a single attempt.
SlipOneMoreTry(t) ==
  IF t = Ping THEN [task[t] EXCEPT !.pc = "release"]
  ELSE IF task[t].k <= CfgRetry THEN [task[t] EXCEPT !.pc = "send", !.k = @ + 1]
  ELSE [task[t] EXCEPT !.pc = "abort"]
SlipNoRetry(t) ==
  [task[t] EXCEPT !.pc = IF t = Ping THEN "release" ELSE "abort"]

\* After a failed attempt: the ping task gives up until its next round; cfg_send_retry
\* tries CfgRetry times.
NextTry(t) ==
  IF t = Ping THEN [task[t] EXCEPT !.pc = "release"]
  ELSE IF task[t].k < CfgRetry THEN [task[t] EXCEPT !.pc = "send", !.k = @ + 1]
  ELSE [task[t] EXCEPT !.pc = "abort"]

\* After an acknowledged one.
NextStep(t) ==
  CASE task[t].op = "key"  -> [task[t] EXCEPT !.pc = "send", !.op = "bind", !.k = 1]
    [] task[t].op = "bind" -> [task[t] EXCEPT !.pc = "finish"]
    [] task[t].op = "ttl"  -> [task[t] EXCEPT !.pc = "release"]

\* config_client_set_state / get_state returned ESP_OK.  Nobody answers for an address
\* that no device has.
SendOk(t) ==
  /\ Holds(t, "send")
  /\ net' = IF \E u \in Node : node[u].addr = task[t].addr
            THEN net \cup {[ack |-> FALSE, addr |-> task[t].addr, op |-> task[t].op,
                            k |-> task[t].k]}
            ELSE net
  /\ task' = [task EXCEPT ![t].pc = "sent"]
  /\ UNCHANGED <<table, nvs, lock, wait, ackBit, wiping, stack, link, evt, nextAddr, node, budget,
                 scanVars>>

SendFails(t) ==
  /\ Holds(t, "send")
  /\ task' = [task EXCEPT ![t] = NextTry(t)]
  /\ Fault
  /\ UNCHANGED <<table, nvs, lock, wait, ackBit, wiping, world, saveFails, resets, crashes, wipes,
                 scanVars>>

\* wait_cfg_ack clears the bit, then names the answer it waits for.  The ping task reads
\* n->addr again here: when the entry has been erased meanwhile that is 0, or the address of
\* an entry that has taken its slot.
Awaited(t) ==
  IF t = Ping /\ AtAddr(task[t].addr) = {}
  THEN {NoWait} \cup {[addr |-> e.addr, op |-> "ttl"] : e \in table}
  ELSE {[addr |-> task[t].addr, op |-> task[t].op]}

\* Slip: the bit of an earlier exchange is not cleared.
SlipRegisterKeepsBit(t) ==
  /\ Holds(t, "sent")
  /\ wait' \in Awaited(t)
  /\ task' = [task EXCEPT ![t].pc = "wait"]
  /\ UNCHANGED <<table, nvs, lock, ackBit, wiping, world, budget, scanVars>>

Register(t) ==
  /\ Holds(t, "sent")
  /\ ackBit' = FALSE
  /\ wait' \in Awaited(t)
  /\ task' = [task EXCEPT ![t].pc = "wait"]
  /\ UNCHANGED <<table, nvs, lock, wiping, world, budget, scanVars>>

\* xEventGroupWaitBits returns, with the bit (which it clears) or without it.
Acked(t) ==
  /\ Holds(t, "wait") /\ ackBit
  /\ ackBit' = FALSE
  /\ task' = [task EXCEPT ![t].pc = "acked"]
  /\ UNCHANGED <<table, nvs, lock, wait, wiping, world, budget, scanVars>>

\* The ten seconds are up.  With the answer still on its way this is a fault of the radio.
InFlight(t) == \E m \in net : m.addr = task[t].addr /\ m.op = task[t].op /\ m.k = task[t].k
TimedOut(t) ==
  /\ Holds(t, "wait") /\ ~ackBit
  /\ IF InFlight(t) THEN Fault ELSE UNCHANGED faults
  /\ task' = [task EXCEPT ![t].pc = "expired"]
  /\ UNCHANGED <<table, nvs, lock, wait, ackBit, wiping, world, saveFails, resets, crashes, wipes,
                 scanVars>>

\* wait_cfg_ack clears the wait record and returns; an answer that came in between has
\* already set the bit.
Leave(t) ==
  /\ task[t].pc \in {"acked", "expired"}
  /\ wait' = NoWait
  /\ task' = [task EXCEPT ![t] = IF Holds(t, "acked") THEN NextStep(t) ELSE NextTry(t)]
  /\ UNCHANGED <<table, nvs, lock, ackBit, wiping, world, budget, scanVars>>

\* node_config_task ends: config_done, or the entry and the stack's node are deleted.  The
\* entry is looked up by address again; after a full reset there is none.
Finish(t) ==
  /\ Holds(t, "finish")
  /\ IF AtAddr(t) # {}
     THEN /\ \E e \in AtAddr(t) : table' = (table \ {e}) \cup {[e EXCEPT !.done = TRUE]}
          /\ Save
     ELSE UNCHANGED <<table, nvs, saveFails>>
  /\ lock' = {} /\ task' = [task EXCEPT ![t] = NoTask]
  /\ UNCHANGED <<wait, ackBit, wiping, world, faults, resets, crashes, wipes, scanVars>>

\* Slip: the entry stays behind when the stack forgets the node.
SlipAbortKeepsEntry(t) ==
  /\ Holds(t, "abort")
  /\ stack' = [u \in Node |-> IF \E e \in AtAddr(t) : e.uuid = u THEN 0 ELSE stack[u]]
  /\ lock' = {} /\ task' = [task EXCEPT ![t] = NoTask]
  /\ UNCHANGED <<table, nvs, wait, ackBit, wiping, link, evt, nextAddr, node, net, budget,
                 scanVars>>

Abort(t) ==
  /\ Holds(t, "abort")
  /\ IF AtAddr(t) # {}
     THEN /\ \E e \in AtAddr(t) : /\ table' = table \ {e}
                                  /\ stack' = [stack EXCEPT ![e.uuid] = 0]
          /\ Save
     ELSE UNCHANGED <<table, nvs, stack, saveFails>>
  /\ lock' = {} /\ task' = [task EXCEPT ![t] = NoTask]
  /\ UNCHANGED <<wait, ackBit, wiping, link, evt, nextAddr, node, net, faults, resets, crashes,
                 wipes, scanVars>>

PingDone ==
  /\ Holds(Ping, "release")
  /\ lock' = {} /\ task' = [task EXCEPT ![Ping] = NoTask]
  /\ UNCHANGED <<table, nvs, wait, ackBit, wiping, world, budget, scanVars>>

-----------------------------------------------------------------------------
(* The mesh and the nodes. *)

\* A node carries out a config request and answers it; it binds only a key it has.
NodeAnswers(u, m) ==
  /\ m \in net /\ ~m.ack /\ node[u].addr = m.addr
  /\ node' = [node EXCEPT ![u] = [addr  |-> m.addr,
                                  key   |-> node[u].key \/ m.op = "key",
                                  bound |-> node[u].bound \/ (m.op = "bind" /\ node[u].key)]]
  /\ net' = (net \ {m}) \cup {[m EXCEPT !.ack = TRUE]}
  /\ UNCHANGED <<gateway, stack, link, evt, nextAddr, budget, scanVars>>

\* Slip: the opcode is not compared.
SlipMatchesAnyOp(m) == m.addr = wait.addr

\* cfg_client_cb: the bit is set only for the address and the opcode waited for.
Matches(m) == m.addr = wait.addr /\ m.op = wait.op

\* An answer that overtakes the registration in wait_cfg_ack counts as a fault of the radio.
TooEarly(m) == \E t \in Task : Holds(t, "sent") /\ [m EXCEPT !.ack = FALSE] =
                 [ack |-> FALSE, addr |-> task[t].addr, op |-> task[t].op, k |-> task[t].k]
CfgClientCb(m) ==
  /\ m \in net /\ m.ack
  /\ net' = net \ {m}
  /\ ackBit' = (ackBit \/ Matches(m))
  /\ IF TooEarly(m) THEN Fault ELSE UNCHANGED faults
  /\ UNCHANGED <<table, nvs, task, lock, wait, wiping, stack, link, evt, nextAddr, node, saveFails,
                 resets, crashes, wipes, scanVars>>

Lose(m) ==
  /\ m \in net
  /\ net' = net \ {m}
  /\ Fault
  /\ UNCHANGED <<gateway, stack, link, evt, nextAddr, node, saveFails, resets, crashes, wipes,
                 scanVars>>

\* A node forgets the mesh (bmt_mesh_local_reset) and beacons again.  That takes a ten second
\* press or a RESET_CMD: the PROV_COMPLETE callback of its provisioning is over by then.
NodeReset(u) ==
  /\ node[u].addr # 0 /\ resets < MaxReset /\ \A v \in evt : v[1] # u
  /\ resets' = resets + 1
  /\ node' = [node EXCEPT ![u] = Fresh]
  /\ net' = {m \in net : m.ack \/ m.addr # node[u].addr}
  /\ UNCHANGED <<gateway, stack, link, evt, nextAddr, faults, saveFails, crashes, wipes, scanVars>>

-----------------------------------------------------------------------------
(* The gateway restarts. *)

\* bmt_node_table_load restores the table; tasks, links and queued events are gone.
Reboot ==
  /\ table' = nvs
  /\ link' = {} /\ evt' = {} /\ net' = {}
  /\ task' = [t \in Task |-> NoTask]
  /\ lock' = {} /\ wait' = NoWait /\ ackBit' = FALSE /\ wiping' = FALSE
  /\ ScanReboot
  /\ UNCHANGED <<nvs, stack, nextAddr, node, faults, saveFails, resets, wipes>>

Crash == crashes < MaxCrash /\ crashes' = crashes + 1 /\ Reboot

\* UART 9 and the end of the watchdog: wipe_all_provisioned, node_table_clear, then a delay
\* during which the other tasks still run, then esp_restart.
Wipe ==
  /\ wipes < MaxWipe /\ ~wiping
  /\ wipes' = wipes + 1
  /\ stack' = [u \in Node |-> 0]
  /\ table' = {} /\ nvs' = {} /\ wiping' = TRUE
  /\ UNCHANGED <<task, lock, wait, ackBit, link, evt, nextAddr, node, net, faults, saveFails,
                 resets, crashes, scanVars>>
WipeRestart == wiping /\ Reboot /\ UNCHANGED crashes

-----------------------------------------------------------------------------
(* The provisioning commands of the UART. *)

\* Slip: the table is not consulted.
SlipProvisionAny(u) ==
  /\ ScanVisit(u)
  /\ link' = IF Beacons(u) THEN link \cup {u} ELSE link
  /\ UNCHANGED <<gateway, stack, evt, nextAddr, node, net, budget>>

\* bmt_scan_list_provision skips a listed device that the table has; the stack opens a link
\* only to a device that still beacons.
ProvisionListed(u) ==
  /\ ScanVisit(u)
  /\ link' = IF OfUuid(u) = {} /\ Beacons(u) THEN link \cup {u} ELSE link
  /\ UNCHANGED <<gateway, stack, evt, nextAddr, node, net, budget>>

UartCommand ==
  /\ UartUser
  /\ \/ ScanStart \/ ScanProvision \/ \E m \in {"AUTO", "MANUAL"} : ScanSetMode(m)
  /\ UNCHANGED <<gateway, world, budget>>
ScanEnds == ScanDone /\ UNCHANGED <<gateway, world, budget>>

-----------------------------------------------------------------------------
TaskStep(t) ==
  \/ Take(t) \/ SendOk(t) \/ SendFails(t) \/ Register(t) \/ Acked(t) \/ TimedOut(t) \/ Leave(t)

Next ==
  \/ \E u \in Node :
       \/ BeaconListed(u) \/ BeaconNew(u) \/ BeaconAgain(u)
       \/ ProvStack(u) \/ ProvFail(u) \/ NodeReset(u) \/ ProvisionListed(u)
       \/ \E a \in Addr : ProvComplete(u, a)
       \/ \E m \in net : NodeAnswers(u, m)
  \/ \E t \in Task : TaskStep(t)
  \/ \E a \in Addr : Finish(a) \/ Abort(a)
  \/ \E e \in table : PingPick(e)
  \/ PingDone
  \/ \E m \in net : CfgClientCb(m) \/ Lose(m)
  \/ Crash \/ Wipe \/ WipeRestart
  \/ UartCommand \/ ScanEnds

Spec == Init /\ [][Next]_vars

\* Tasks and callbacks get the CPU; nodes beacon and answer for as long as they can.  The
\* mutex goes to the waiting task of the highest priority, so a config task that waits for
\* it gets it although the ping task keeps coming back.
Fairness ==
  /\ \A u \in Node :
       /\ WF_vars(BeaconNew(u)) /\ WF_vars(BeaconAgain(u)) /\ WF_vars(ProvStack(u))
       /\ WF_vars(\E a \in Addr : ProvComplete(u, a))
       /\ WF_vars(\E m \in net : NodeAnswers(u, m))
  /\ \A a \in Addr :
       /\ SF_vars(Take(a)) /\ WF_vars(SendOk(a)) /\ WF_vars(Register(a)) /\ WF_vars(Acked(a))
       /\ WF_vars(TimedOut(a)) /\ WF_vars(Leave(a)) /\ WF_vars(Finish(a)) /\ WF_vars(Abort(a))
  /\ WF_vars(Take(Ping)) /\ WF_vars(SendOk(Ping)) /\ WF_vars(Register(Ping))
  /\ WF_vars(Acked(Ping)) /\ WF_vars(TimedOut(Ping)) /\ WF_vars(Leave(Ping))
  /\ WF_vars(PingDone) /\ WF_vars(\E m \in net : CfgClientCb(m)) /\ WF_vars(WipeRestart)

LiveSpec == Spec /\ Fairness

-----------------------------------------------------------------------------
(* What this is for.  A definition named Slip... above is the one below it with a mistake   *)
(* a maintainer could make; each is caught by one of these properties.                      *)

\* bmt_mesh.c:236-241.  A node whose entry says config_done, in RAM or in the copy a restart
\* loads, has the AppKey and its vendor model is bound to it: no late, early or misattributed
\* acknowledgement ever let a config task run to its end.
ConfiguredIsBound ==
  \A e \in table \cup nvs, u \in Node :
    e.done /\ node[u].addr = e.addr => node[u].key /\ node[u].bound

\* bmt_node_table.c:48-81.  Neither an address nor a UUID has two entries, although add only
\* looks at the address: dropping the old entry first (bmt_mesh.c:318-320) is what keeps a
\* device that comes back from getting a second one.
UniqueEntries ==
  \A e, f \in table : e.addr = f.addr \/ e.uuid = f.uuid => e = f

\* bmt_mesh.c:192.  The shared wait record and event bit belong to one exchange at a time,
\* over every order of config tasks, pings, failures and restarts.
InExchange(t) == task[t].pc \notin {"none", "start"}
OneExchange == \A t \in Task : InExchange(t) => lock = {t}

\* bmt_mesh.c:67-80 and 393.  Whoever sees the event bit sees an answer of its own node to its
\* own opcode: if the address still is some node's, that node has done what it was asked.
Did(u, op) == CASE op = "key" -> node[u].key [] op = "bind" -> node[u].bound [] op = "ttl" -> TRUE
AckIsGenuine ==
  \A t \in Task, u \in Node :
    (Holds(t, "wait") /\ ackBit) \/ Holds(t, "acked") =>
      (node[u].addr = task[t].addr => Did(u, task[t].op))

\* bmt_mesh.c:318-320, 118-120.  The table and the stack's node list agree on every entry, over
\* re-provisioning, aborted configurations and restarts, as long as NVS writes succeed.
StackKnowsEntries ==
  saveFails = 0 /\ wipes = 0 => \A e \in table : stack[e.uuid] = e.addr

\* bmt_mesh.c:110-122, 313.  Until the gateway restarts, an entry that is not config_done is one
\* a config task is working on: since its beacons are skipped, nothing else would ever move it.
NoEntryStalls ==
  crashes = 0 /\ wipes = 0 =>
    \A e \in table : ~e.done /\ e.uuid \in Known => task[e.addr].pc # "none"

\* Short of a full reset of the gateway, the entry of a configured node is dropped or reset only
\* when the node has left that address: no beacon, abort, or change of address of another node,
\* or one that comes late, takes a healthy node out.
HealthyNodeKept ==
  [][UNCHANGED <<crashes, wipes, wiping>> =>
       \A e \in table : e.done /\ e \notin table' => node[e.uuid].addr # e.addr]_vars

\* bmt_mesh.c:82-108, 218, 231.  The configuration of a node that is still there is given up only
\* when as many things went wrong as cfg_send_retry has attempts: no step back in k, no answer
\* taken by another exchange, no attempt that nobody spoiled is spent.
GivenUpWithCause ==
  \A a \in Addr : Holds(a, "abort") /\ (\E u \in Node : node[u].addr = a) => faults >= CfgRetry

\* What the gateway promises about its nodes (NodeRoll), whatever tasks and messages do.
RollOf(entries) ==
  [u \in Node |-> IF \E e \in entries : e.uuid = u
                  THEN LET e == CHOOSE f \in entries : f.uuid = u
                       IN  [addr |-> e.addr, done |-> e.done]
                  ELSE [addr |-> 0, done |-> FALSE]]
Homes == [u \in Node |-> node[u].addr]
Bound == {u \in Node : node[u].key /\ node[u].bound}
Roll == INSTANCE NodeRoll WITH
          Device <- Node, Address <- Addr, roll <- RollOf(table), kept <- RollOf(nvs),
          home <- Homes, ready <- Bound
KeepsRoll == Roll!Spec

\* bmt_mesh.c:82-108 and 299-334.  With fewer faults than attempts, and as long as the gateway
\* neither restarts nor fails to store its table, every scanner and relay ends up configured and
\* stays so, also when it reset itself.
Configured(u) ==
  \E e \in table : e.uuid = u /\ e.done /\ e.addr = node[u].addr
EventuallyConfigured == \A u \in Known : <>[](crashes + saveFails > 0 \/ Configured(u))

\* docs/05-operation.md:49-50, "A node reboots and sends an unprovisioned beacon again.  The
\* gateway drops the old entry and re-provisions it."
ReprovisionedAgain ==
  \A u \in Known : (Beacons(u) /\ OfUuid(u) # {}) ~> Configured(u)
=============================================================================

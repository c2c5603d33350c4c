----------------------------- MODULE MeshHealth -----------------------------
(***************************************************************************)
(* The gateway watches over its mesh (bmt_mesh.c, bmt_watchdog.c).         *)
(*                                                                         *)
(* The ping task asks every configured node for its TTL, one after the     *)
(* other, and marks nodes online and offline.  The watchdog looks at the   *)
(* count of what came in over 30 seconds; when nothing did, it broadcasts  *)
(* RESET_CMD, wipes the gateway and restarts it.  Pings and the config      *)
(* tasks of joining nodes exclude each other by a mutex.  How a node joins  *)
(* is the subject of Provisioning; here only its duration matters.         *)
(*                                                                         *)
(* Time is counted in units that the constants share; a task whose delay   *)
(* is over runs before time goes on.                                       *)
(***************************************************************************)
EXTENDS Integers, FiniteSets

CONSTANTS
  Slots,        \* entries of the node table, one for each node
  Scan,         \* the slots of scanners; the others are relays
  PingStart, PingEvery, PingGap,        \* delays of node_ping_task
  AckTimeout,                           \* BMT_CFG_ACK_TIMEOUT_MS
  MsgTimeout,                           \* msg_timeout of a ping: later answers are dropped
  MaxAnswer,                            \* longest way of a ping and its answer
  Offline, Refresh,                     \* BMT_NODE_OFFLINE_TIMEOUT_MS, BMT_SCAN_STATUS_REFRESH_MS
  Settle, Window, Gap, NodeWait,        \* delays of data_watchdog_task
  Tries,                                \* BMT_WDG_RESET_TRIES
  ConfigTime, ConfigSlow,               \* how long a config task holds the mutex: well, badly
  MaxTrouble,   \* bound: nodes failing, lost answers and commands, slow configuration, radio
  MaxOther      \* bound: nodes that return, lost connections, updates

Node == 1 .. Slots

ASSUME MeshHealthAssumption ==
  /\ Slots \in Nat /\ Scan \subseteq Node
  /\ {PingStart, PingGap, MsgTimeout, MaxAnswer, Offline, Refresh, Settle, NodeWait,
      MaxTrouble, MaxOther} \subseteq Nat
  /\ {PingEvery, AckTimeout, Window, Gap, Tries, ConfigTime, ConfigSlow} \subseteq Nat \ {0}
  /\ MaxAnswer <= MsgTimeout /\ MsgTimeout <= AckTimeout
  /\ Refresh <= Offline

VARIABLES
  dev,        \* each node: "fresh" (unprovisioned), "joined", "bound" (has the AppKey)
  alive,      \* the nodes that have power, are in reach and are not busy otherwise
  radio,      \* the gateway's own radio works
  entry,      \* the node table: "none", "new" (not configured), "done"
  seen,       \* time since last_seen_ms; Never while that is 0
  online,     \* the online flag
  connected,  \* MQTT
  told,       \* the nodes ThingsBoard shows ONLINE
  ping,       \* node_ping_task; young: its record is newer than the clock it has read
  queue,      \* config tasks that wait for the mutex
  cfg,        \* the config task that holds it, slot 0 if none
  wd,         \* data_watchdog_task; heard: s_mesh_received differs from the snapshot
  ota,        \* bmt_ota_is_running
  trouble, other   \* what the bounds count

table == <<entry, seen, online>>
board == <<connected, told>>
field == <<dev, alive, radio>>
count == <<trouble, other>>
vars  == <<field, table, board, ping, queue, cfg, wd, ota, count>>

Never == Offline + 2       \* last_seen_ms = 0
Long  == Offline + 1       \* at least this long ago

\* TYPES.  The tasks name entries that exist and send no more commands than BMT_WDG_RESET_TRIES.
TypeOK ==
  /\ dev \in [Node -> {"fresh", "joined", "bound"}]
  /\ alive \in SUBSET Node /\ radio \in BOOLEAN
  /\ entry \in [Node -> {"none", "new", "done"}]
  /\ seen \in [Node -> 0 .. Never] /\ online \in [Node -> BOOLEAN]
  /\ connected \in BOOLEAN /\ told \in SUBSET Node
  /\ ping \in [pc : {"sleep", "lock", "wait", "judge"}, slot : 0 .. Slots,
               left : Nat, young : BOOLEAN, lost : BOOLEAN]
  /\ queue \in SUBSET Node
  /\ cfg \in [slot : 0 .. Slots, left : Nat, ok : BOOLEAN]
  /\ wd \in [pc : {"settle", "idle", "window", "reset", "wait"}, left : Nat,
             heard : BOOLEAN, k : 0 .. Tries, ok : BOOLEAN]
  /\ ota \in BOOLEAN
  /\ trouble \in 0 .. MaxTrouble /\ other \in 0 .. MaxOther

NoConfig  == [slot |-> 0, left |-> 0, ok |-> FALSE]
PingBoot  == [pc |-> "sleep", slot |-> 0, left |-> PingStart, young |-> FALSE,
              lost |-> FALSE]
WdBoot    == [pc |-> "settle", left |-> Settle, heard |-> FALSE, k |-> 0, ok |-> FALSE]
Forgotten == [n \in Node |-> Never]
AllOff    == [n \in Node |-> FALSE]

\* The gateway starts with the table it had; the other nodes are new.
Init ==
  /\ \E known \in SUBSET Node :
       /\ entry = [n \in Node |-> IF n \in known THEN "done" ELSE "none"]
       /\ dev = [n \in Node |-> IF n \in known THEN "bound" ELSE "fresh"]
  /\ alive = Node /\ radio = TRUE
  /\ seen = Forgotten /\ online = AllOff
  /\ connected = TRUE /\ told = {}
  /\ ping = PingBoot /\ queue = {} /\ cfg = NoConfig /\ wd = WdBoot
  /\ ota = FALSE /\ trouble = 0 /\ other = 0

Up(n) == n \in alive /\ radio
Done  == {n \in Node : entry[n] = "done"}
MutexFree == ping.pc # "wait" /\ cfg.slot = 0

Trouble == trouble < MaxTrouble /\ trouble' = trouble + 1 /\ UNCHANGED other
Other   == other < MaxOther /\ other' = other + 1 /\ UNCHANGED trouble

\* bmt_tb_pub_node_status: nothing is sent, or kept, without a connection.
Tell(n, on) ==
  told' = IF ~connected THEN told ELSE IF on THEN told \cup {n} ELSE told \ {n}

-----------------------------------------------------------------------------
(* The ping task. *)

\* node_ping_task: the next configured entry, else the pause between two rounds.
PingNext ==
  /\ ping.pc = "sleep" /\ ping.left = 0
  /\ LET more == {n \in Done : n > ping.slot} IN
       IF more = {}
       THEN ping' = [ping EXCEPT !.slot = 0, !.left = PingEvery]
       ELSE \E n \in more :
              /\ \A m \in more : n <= m
              /\ ping' = [ping EXCEPT !.pc = "lock", !.slot = n]
  /\ UNCHANGED <<field, table, board, queue, cfg, wd, ota, count>>

\* The mutex is taken and the request sent; a slot that was emptied has no address to send to.
PingSend ==
  /\ ping.pc = "lock" /\ MutexFree
  /\ ping' = IF radio /\ entry[ping.slot] # "none"
             THEN [ping EXCEPT !.pc = "wait", !.left = AckTimeout, !.lost = FALSE]
             ELSE [ping EXCEPT !.pc = "judge", !.left = 0]
  /\ UNCHANGED <<field, table, board, queue, cfg, wd, ota, count>>

\* The request or its answer gets lost.
PingLost ==
  /\ ping.pc = "wait" /\ ~ping.lost /\ Trouble
  /\ ping' = [ping EXCEPT !.lost = TRUE]
  /\ UNCHANGED <<field, table, board, queue, cfg, wd, ota>>

\* Slips: an answer is not counted for the watchdog; it is, but nobody is marked online.
SlipAnswerNotCounted ==
  /\ ping.pc = "wait" /\ ~ping.lost /\ ping.left >= AckTimeout - MsgTimeout
  /\ Up(ping.slot) /\ dev[ping.slot] # "fresh"
  /\ ping' = [ping EXCEPT !.pc = "judge", !.left = 0, !.lost = FALSE]
  /\ IF entry[ping.slot] = "done"
     THEN /\ seen' = [seen EXCEPT ![ping.slot] = 0]
          /\ online' = [online EXCEPT ![ping.slot] = TRUE]
          /\ IF online[ping.slot] THEN UNCHANGED told ELSE Tell(ping.slot, TRUE)
     ELSE UNCHANGED <<seen, online, told>>
  /\ UNCHANGED <<field, entry, connected, queue, cfg, wd, ota, count>>
SlipAnswerOnlySeen ==
  /\ ping.pc = "wait" /\ ~ping.lost /\ ping.left >= AckTimeout - MsgTimeout
  /\ Up(ping.slot) /\ dev[ping.slot] # "fresh"
  /\ ping' = [ping EXCEPT !.pc = "judge", !.left = 0, !.lost = FALSE]
  /\ seen' = [seen EXCEPT ![ping.slot] = 0]
  /\ wd' = [wd EXCEPT !.heard = TRUE]
  /\ UNCHANGED <<field, entry, online, board, queue, cfg, ota, count>>

\* cfg_client_cb, GET_STATE: the wait ends; a configured node is alive, which counts.
Answer ==
  /\ ping.pc = "wait" /\ ~ping.lost /\ ping.left >= AckTimeout - MsgTimeout
  /\ Up(ping.slot) /\ dev[ping.slot] # "fresh"
  /\ ping' = [ping EXCEPT !.pc = "judge", !.left = 0, !.lost = FALSE]
  /\ IF entry[ping.slot] = "done"
     THEN /\ seen' = [seen EXCEPT ![ping.slot] = 0]
          /\ online' = [online EXCEPT ![ping.slot] = TRUE]
          /\ IF online[ping.slot] THEN UNCHANGED told ELSE Tell(ping.slot, TRUE)
          /\ wd' = [wd EXCEPT !.heard = TRUE]
     ELSE UNCHANGED <<seen, online, told, wd>>
  /\ UNCHANGED <<field, entry, connected, queue, cfg, ota, count>>

\* Slip: without an answer the node's silence is not looked at.
SlipExpiresSkipsJudge ==
  /\ ping.pc = "wait" /\ ping.left = 0
  /\ ping' = [ping EXCEPT !.pc = "sleep", !.left = PingGap, !.lost = FALSE]
  /\ UNCHANGED <<field, table, board, queue, cfg, wd, ota, count>>

\* wait_cfg_ack gives up.
PingExpires ==
  /\ ping.pc = "wait" /\ ping.left = 0
  /\ ping' = [ping EXCEPT !.pc = "judge", !.lost = FALSE]
  /\ UNCHANGED <<field, table, board, queue, cfg, wd, ota, count>>

\* now - last_seen_ms > BMT_NODE_OFFLINE_TIMEOUT_MS, unsigned: true of a younger record too.
Silent(n) == ping.young \/ seen[n] > Offline

\* node_ping_task: nothing heard of the node for a minute, so it is offline.
PingJudge ==
  /\ ping.pc = "judge"
  /\ LET n == ping.slot IN
       IF seen[n] # Never /\ Silent(n) /\ online[n]
       THEN online' = [online EXCEPT ![n] = FALSE] /\ Tell(n, FALSE)
       ELSE UNCHANGED <<online, told>>
  /\ ping' = [ping EXCEPT !.pc = "sleep", !.left = PingGap, !.young = FALSE]
  /\ UNCHANGED <<field, entry, seen, connected, queue, cfg, wd, ota, count>>

\* Slip: the scanner is marked online without telling ThingsBoard.
SlipTagStatusQuiet(n) ==
  /\ n \in Scan /\ Up(n) /\ dev[n] = "bound"
  /\ wd' = [wd EXCEPT !.heard = TRUE]
  /\ IF entry[n] # "none" /\ (seen[n] = Never \/ seen[n] > Refresh)
     THEN seen' = [seen EXCEPT ![n] = 0] /\ online' = [online EXCEPT ![n] = TRUE]
     ELSE UNCHANGED <<seen, online>>
  /\ UNCHANGED <<field, entry, board, ping, queue, cfg, ota, count>>

\* vnd_client_cb, TAG_STATUS: it counts whoever sent it; a scanner of the table is refreshed.
TagStatus(n) ==
  /\ n \in Scan /\ Up(n) /\ dev[n] = "bound"
  /\ wd' = [wd EXCEPT !.heard = TRUE]
  /\ IF entry[n] # "none" /\ (seen[n] = Never \/ seen[n] > Refresh)
     THEN /\ seen' = [seen EXCEPT ![n] = 0]
          /\ online' = [online EXCEPT ![n] = TRUE]
          /\ Tell(n, TRUE)
          /\ \E ticked \in BOOLEAN :
               ping' = IF ping.pc = "judge" /\ ping.slot = n /\ ticked
                       THEN [ping EXCEPT !.young = TRUE] ELSE ping
     ELSE UNCHANGED <<seen, online, told, ping>>
  /\ UNCHANGED <<field, entry, connected, queue, cfg, ota, count>>

-----------------------------------------------------------------------------
(* Nodes join. *)

Forget(n) ==
  /\ seen' = [seen EXCEPT ![n] = Never] /\ online' = [online EXCEPT ![n] = FALSE]

\* mesh_prov_cb: the device is provisioned, an old configured entry makes way for a new one,
\* and a config task starts.
Join(n) ==
  /\ dev[n] = "fresh" /\ Up(n) /\ entry[n] # "new"
  /\ dev' = [dev EXCEPT ![n] = "joined"]
  /\ entry' = [entry EXCEPT ![n] = "new"] /\ Forget(n)
  /\ queue' = queue \cup {n}
  /\ UNCHANGED <<alive, radio, board, ping, cfg, wd, ota, count>>

\* node_config_task gets the mutex; how long it keeps it depends on lost messages.
ConfigStart(n) ==
  /\ n \in queue /\ MutexFree
  /\ queue' = queue \ {n}
  /\ \/ cfg' = [slot |-> n, left |-> ConfigTime, ok |-> TRUE] /\ UNCHANGED count
     \/ /\ Trouble
        /\ \E b \in BOOLEAN : cfg' = [slot |-> n, left |-> ConfigSlow, ok |-> b]
  /\ UNCHANGED <<field, table, board, ping, wd, ota>>

\* Both steps are acknowledged.  The last one tells ThingsBoard, but not the entry.
ConfigDone(n) ==
  /\ cfg.slot = n /\ cfg.left = 0 /\ cfg.ok /\ Up(n)
  /\ dev' = [dev EXCEPT ![n] = "bound"]
  /\ entry' = [entry EXCEPT ![n] = "done"]
  /\ Tell(n, TRUE)
  /\ cfg' = NoConfig
  /\ UNCHANGED <<alive, radio, seen, online, connected, ping, queue, wd, ota, count>>

\* The node left while it was being configured: the task goes through its retries.
ConfigStalls(n) ==
  /\ cfg.slot = n /\ cfg.left = 0 /\ cfg.ok /\ ~Up(n)
  /\ cfg' = [slot |-> n, left |-> ConfigSlow, ok |-> FALSE]
  /\ UNCHANGED <<field, table, board, ping, queue, wd, ota, count>>

\* cfg_abort_cleanup: the entry goes; the node keeps the address it was given.
ConfigAbort(n) ==
  /\ cfg.slot = n /\ cfg.left = 0 /\ ~cfg.ok
  /\ entry' = [entry EXCEPT ![n] = "none"] /\ Forget(n)
  /\ cfg' = NoConfig
  /\ UNCHANGED <<field, board, ping, queue, wd, ota, count>>

-----------------------------------------------------------------------------
(* The watchdog. *)

\* Slip: the snapshot is taken once, before the loop.
SlipOldSnapshot ==
  wd' = IF Done \cap Scan = {}
        THEN [WdBoot EXCEPT !.pc = "idle", !.left = Window, !.heard = wd.heard]
        ELSE [WdBoot EXCEPT !.pc = "window", !.left = Window, !.heard = wd.heard]

\* data_watchdog_task, top of its loop: without a configured scanner it sleeps; else it takes
\* its snapshot of the count and watches.
WatchAgain ==
  wd' = IF Done \cap Scan = {}
        THEN [WdBoot EXCEPT !.pc = "idle", !.left = Window]
        ELSE [WdBoot EXCEPT !.pc = "window", !.left = Window]

Watch ==
  /\ wd.pc \in {"settle", "idle"} /\ wd.left = 0
  /\ WatchAgain
  /\ UNCHANGED <<field, table, board, ping, queue, cfg, ota, count>>

\* Unchanged: the mesh is taken to be dead.
WindowEnds ==
  /\ wd.pc = "window" /\ wd.left = 0
  /\ IF wd.heard THEN WatchAgain ELSE wd' = [wd EXCEPT !.pc = "reset"]
  /\ UNCHANGED <<field, table, board, ping, queue, cfg, ota, count>>

\* A broadcast reaches the nodes in reach that have the AppKey; one of them may miss it.
Reached == {n \in Node : Up(n) /\ dev[n] = "bound"}
Broadcast ==
  \E miss \in SUBSET Reached :
    /\ Cardinality(miss) <= 1
    /\ IF miss = {} THEN UNCHANGED count ELSE Trouble
    /\ dev' = [n \in Node |-> IF n \in Reached \ miss THEN "fresh" ELSE dev[n]]

\* Slips: one command too many; the update is looked for before the first command only.
SlipResetTryOneMore ==
  /\ wd.pc = "reset" /\ wd.left = 0 /\ wd.k <= Tries
  /\ IF ota \/ ~radio
     THEN UNCHANGED <<dev, count>> /\ wd' = [wd EXCEPT !.k = @ + 1, !.left = Gap]
     ELSE Broadcast /\ wd' = [wd EXCEPT !.k = @ + 1, !.left = Gap, !.ok = TRUE]
  /\ UNCHANGED <<alive, radio, table, board, ping, queue, cfg, ota>>
SlipResetTryChecksOnce ==
  /\ wd.pc = "reset" /\ wd.left = 0 /\ wd.k < Tries
  /\ IF (ota /\ wd.k = 0) \/ ~radio
     THEN UNCHANGED <<dev, count>> /\ wd' = [wd EXCEPT !.k = @ + 1, !.left = Gap]
     ELSE Broadcast /\ wd' = [wd EXCEPT !.k = @ + 1, !.left = Gap, !.ok = TRUE]
  /\ UNCHANGED <<alive, radio, table, board, ping, queue, cfg, ota>>

\* One of the RESET_CMDs, left out while an update runs, or failing.  A node that gets it
\* clears its mesh state and restarts (bmt_mesh_node.c).
ResetTry ==
  /\ wd.pc = "reset" /\ wd.left = 0 /\ wd.k < Tries
  /\ IF ota \/ ~radio
     THEN UNCHANGED <<dev, count>> /\ wd' = [wd EXCEPT !.k = @ + 1, !.left = Gap]
     ELSE Broadcast /\ wd' = [wd EXCEPT !.k = @ + 1, !.left = Gap, !.ok = TRUE]
  /\ UNCHANGED <<alive, radio, table, board, ping, queue, cfg, ota>>

\* None was sent: watch on.  Else give the nodes time.
ResetDone ==
  /\ wd.pc = "reset" /\ wd.left = 0 /\ wd.k = Tries
  /\ IF wd.ok THEN wd' = [wd EXCEPT !.pc = "wait", !.left = NodeWait] ELSE WatchAgain
  /\ UNCHANGED <<field, table, board, ping, queue, cfg, ota, count>>

\* bmt_mesh_wipe_all_provisioned, bmt_node_table_clear and, a second later, the restart.
Wipe ==
  /\ wd.pc = "wait" /\ wd.left = 0
  /\ entry' = [n \in Node |-> "none"] /\ seen' = Forgotten /\ online' = AllOff
  /\ ping' = PingBoot /\ queue' = {} /\ cfg' = NoConfig /\ wd' = WdBoot /\ ota' = FALSE
  /\ UNCHANGED <<field, board, count>>

-----------------------------------------------------------------------------
(* The world. *)

NodeFails(n) ==
  /\ n \in alive /\ Trouble /\ alive' = alive \ {n}
  /\ UNCHANGED <<dev, radio, table, board, ping, queue, cfg, wd, ota>>
NodeReturns(n) ==
  /\ n \notin alive /\ Other /\ alive' = alive \cup {n}
  /\ UNCHANGED <<dev, radio, table, board, ping, queue, cfg, wd, ota>>
RadioFails ==
  /\ radio /\ Trouble /\ radio' = FALSE
  /\ UNCHANGED <<dev, alive, table, board, ping, queue, cfg, wd, ota>>
RadioReturns ==
  /\ ~radio /\ radio' = TRUE
  /\ UNCHANGED <<dev, alive, table, board, ping, queue, cfg, wd, ota, count>>
Disconnect ==
  /\ connected /\ Other /\ connected' = FALSE
  /\ UNCHANGED <<field, table, told, ping, queue, cfg, wd, ota>>

\* on_tb_connected announces devices and roles, not who is online.
Connect ==
  /\ ~connected /\ connected' = TRUE
  /\ UNCHANGED <<field, table, told, ping, queue, cfg, wd, ota, count>>
OtaStart ==
  /\ ~ota /\ Other /\ ota' = TRUE
  /\ UNCHANGED <<field, table, board, ping, queue, cfg, wd>>
OtaEnd ==
  /\ ota /\ ota' = FALSE
  /\ UNCHANGED <<field, table, board, ping, queue, cfg, wd, count>>

\* A node that got a request answers within MaxAnswer; it may have gone since.
AnswerDue ==
  /\ ping.pc = "wait" /\ ~ping.lost /\ AckTimeout - ping.left >= MaxAnswer
  /\ ping.left >= AckTimeout - MsgTimeout /\ Up(ping.slot) /\ dev[ping.slot] # "fresh"

\* Some task has something to do now.
Urgent ==
  \/ ping.pc = "sleep" /\ ping.left = 0
  \/ ping.pc = "lock" /\ MutexFree
  \/ ping.pc = "wait" /\ ping.left = 0
  \/ ping.pc = "judge"
  \/ AnswerDue
  \/ queue # {} /\ MutexFree
  \/ cfg.slot # 0 /\ cfg.left = 0
  \/ wd.left = 0

Less(x) == IF x > 0 THEN x - 1 ELSE 0
Tick ==
  /\ ~Urgent
  /\ ping' = [ping EXCEPT !.left = Less(@)]
  /\ cfg' = [cfg EXCEPT !.left = Less(@)]
  /\ wd' = [wd EXCEPT !.left = Less(@)]
  /\ seen' = [n \in Node |-> IF seen[n] < Long THEN seen[n] + 1 ELSE seen[n]]
  /\ UNCHANGED <<field, entry, online, board, queue, ota, count>>

PingTask   == PingNext \/ PingSend \/ Answer \/ PingExpires \/ PingJudge
ConfigTask == \E n \in Node : ConfigStart(n) \/ ConfigDone(n) \/ ConfigStalls(n) \/ ConfigAbort(n)
Watchdog   == Watch \/ WindowEnds \/ ResetTry \/ ResetDone \/ Wipe

Next ==
  \/ PingTask \/ ConfigTask \/ Watchdog \/ Tick
  \/ PingLost
  \/ \E n \in Node : TagStatus(n) \/ Join(n) \/ NodeFails(n) \/ NodeReturns(n)
  \/ RadioFails \/ RadioReturns \/ Disconnect \/ Connect \/ OtaStart \/ OtaEnd

Spec == Init /\ [][Next]_vars

\* Tasks run, time passes, the client reconnects, devices in reach are provisioned.
LiveSpec ==
  /\ Spec
  /\ WF_vars(Tick) /\ WF_vars(PingTask) /\ WF_vars(ConfigTask) /\ WF_vars(Watchdog)
  /\ WF_vars(Connect)
  /\ \A n \in Node : WF_vars(Join(n))

-----------------------------------------------------------------------------
(* Properties. *)

\* CAUSE.  The watchdog starts a reset only after something went wrong: as long as every node
\* answers, pings that share the mutex with joining nodes are frequent enough for its window.
\* (node_ping_task's delays against BMT_WDG_TIMEOUT_MS)
ResetHasCause == wd.pc = "reset" => trouble > 0

\* STATUS AGREES.  Until a connection is lost ThingsBoard shows a node that was heard since it
\* joined as the entry does, over wipes, new entries and repeated configuration (cfg_client_cb,
\* vnd_client_cb and node_ping_task each publish what they change).
StatusAgrees ==
  other = 0 => \A n \in Node : seen[n] # Never => (online[n] <=> n \in told)

\* NOT DURING OTA.  No node is reset while an update runs at the gateway, even one that began
\* between two commands (data_watchdog_task asks bmt_ota_is_running each time).
NoResetDuringOta ==
  [][\A n \in Node : dev[n] # "fresh" /\ dev'[n] = "fresh" => ~ota]_vars

\* DEAD IS NOTICED.  A mesh with a configured scanner in which nobody is left to answer leads to
\* a reset cycle (data_watchdog_task).
Dead == Done \cap Scan # {} /\ \A n \in Node : ~Up(n)
DeadIsNoticed == Dead ~> (wd.pc = "reset" \/ ~Dead)

\* OFFLINE IS NOTICED.  A node shown online that is gone is shown offline in the end, other
\* nodes being late or not (node_ping_task).
OfflineIsNoticed ==
  \A n \in Node : (online[n] /\ ~Up(n)) ~> (~online[n] \/ Up(n))

\* ANSWERING IS ONLINE.  A configured node that keeps answering is shown online again and again,
\* whatever the race between the ping task's clock and the mesh callback did to it.
AnsweringIsOnline ==
  \A n \in Node : <>[](Up(n) /\ entry[n] = "done") => []<>online[n]

\* NEVER MISTAKEN.  docs/05-operation.md:86: "so an idle-but-healthy mesh is never mistaken for
\* a dead one".  When a reset starts no configured node in reach answers.
NeverMistaken == wd.pc = "reset" /\ wd.k = 0 => \A n \in Done : ~Up(n)

\* REPROVISIONED.  docs/06-testing.md, test 7: a relay is unplugged, the watchdog resets the mesh,
\* "Plug relay back in. Full re-provision cycle takes about a minute."  A node that is in reach for
\* good, be it only after the commands went out, is configured anew once the gateway is wiped.
Reprovisioned ==
  \A n \in Node :
    []((wd.pc = "wait" /\ <>[]Up(n)) => <>(wd.pc # "wait" /\ entry[n] = "done"))
=============================================================================

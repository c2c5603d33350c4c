----------------------------- MODULE OtaCampaign -----------------------------
(* The gateway tells all scanners, all relays or itself to update (bmt_ota), and keeps the key   *)
(* of the beacon that tells the scanners (bmt_ota_key) in step with the scanners' copies         *)
(* (bmt_auth, bmt_scan).  Waiting times are left out.  A mesh message arrives before its sender  *)
(* goes on, or never: the mesh drops what comes out of order.                                    *)
EXTENDS Naturals, FiniteSets

CONSTANTS
  Scanner, Relay,
  None,       \* no node, no key
  BuiltIn,    \* the key in the scanners' firmware
  Capacity,   \* slots of the node table
  Triggers,   \* OTA_TRIGGER messages to a node (5)
  MaxKey,     \* keys the gateway generates
  MaxMishap,  \* lost messages, failed calls, addresses mixed up, restarts of the gateway
  MaxJoin     \* nodes configured, for the first time or again

Node == Scanner \cup Relay
Slot == 1..Capacity
\* An RPC for the gateway stands for the gateway's own three-minute timer too.
Caller == {"uart", "rpc"}
Target == {"scanner", "relay", "gateway"}
OfType(t) == CASE t = "scanner" -> Scanner [] t = "relay" -> Relay [] OTHER -> {}
Publisher == {"campaign", "rotation", "join"}
Task == 1..2

ASSUME OtaCampaignAssumption ==
  /\ Scanner \cap Relay = {} /\ None \notin Node \cup Nat \cup Target /\ BuiltIn # None
  /\ {Capacity, MaxMishap, MaxJoin} \subseteq Nat /\ {Triggers, MaxKey} \subseteq Nat \ {0}

VARIABLES
  running,  \* s_running
  arg,      \* s_arg of start_distribute, until the task has read it
  caller,   \* what each caller past the exchange of s_running is about to start
  task,     \* distribute_task, self_update_task
  id, raw, nvs,  \* beacon key: in the crypto store, its copy in RAM, in NVS
  made,     \* keys generated
  rot,      \* key_rotate_task: [pc, old, at]
  join,     \* the scanner whose config task is about to push the key, under s_cfg_mutex
  pub,      \* publish_addr of the vendor model, shared by all publishers
  call,     \* where each publisher in bmt_mesh_publish means to send
  table,    \* configured nodes by slot
  member,   \* nodes in the mesh
  key, flash,  \* each scanner's key, in RAM and NVS
  aims, got,   \* nodes this campaign is for and that are still there; nodes it has triggered
  calm,     \* nothing was lost, mixed up or rotated since this campaign began
  sound,    \* nothing went wrong with the key since the last rotation began
  clean,    \* nothing went wrong with the key since the last sound rotation ended, or ever
  mishaps, joins

session == <<running, arg, caller, task>>
keys    == <<id, raw, nvs, made>>
radio   == <<pub, call>>
nodes   == <<table, member, key, flash>>
trail   == <<aims, got, calm>>
trust   == <<sound, clean>>
budgets == <<mishaps, joins>>
vars == <<session, keys, rot, join, radio, nodes, trail, trust, budgets>>

NoTask == [pc |-> "none", asked |-> "gateway", type |-> "gateway", at |-> 1, left |-> 0,
           mac |-> None]
NoRotation == [pc |-> "idle", old |-> None, at |-> 1]

Configured == {table[i] : i \in Slot} \ {None}
At(t, l) == task[t].pc = l
Alive(t) == task[t].pc # "none"
Quiet == rot.pc = "idle" /\ join = None
Mishap == mishaps < MaxMishap /\ mishaps' = mishaps + 1
Trust(ok) == sound' = (sound /\ ok) /\ clean' = (clean /\ ok)

Init ==
  /\ running = FALSE /\ arg = None /\ caller = [c \in Caller |-> None]
  /\ task = [t \in Task |-> NoTask]
  /\ id = 1 /\ raw = 1 /\ made = 1 /\ nvs \in {1, None}
  /\ rot = NoRotation /\ join = None
  /\ pub = None /\ call = [p \in Publisher |-> None]
  /\ table = [i \in Slot |-> None] /\ member = {}
  /\ key = [s \in Scanner |-> BuiltIn] /\ flash = [s \in Scanner |-> BuiltIn]
  /\ aims = {} /\ got = {} /\ calm = FALSE /\ sound = TRUE /\ clean = (nvs = 1)
  /\ mishaps = 0 /\ joins = 0

-----------------------------------------------------------------------------
(* Who starts a campaign. *)

\* UART u and the RPCs for the nodes look at s_running long before, which decides nothing: the
\* atomic_compare_exchange_strong does.  A caller that comes too late does nothing.
Allowed(c, what) == what = "gateway" => c = "rpc"
SlipClaimArg(c, what) ==
  /\ caller[c] = None /\ Allowed(c, what)
  /\ arg' = IF what = "gateway" THEN arg ELSE what
  /\ caller' = [caller EXCEPT ![c] = IF running THEN None ELSE what] /\ running' = TRUE
  /\ UNCHANGED <<task, keys, rot, join, radio, nodes, trail, trust, budgets>>
Claim(c, what) ==
  /\ ~running /\ caller[c] = None /\ Allowed(c, what)
  /\ caller' = [caller EXCEPT ![c] = what] /\ running' = TRUE
  /\ UNCHANGED <<arg, task, keys, rot, join, radio, nodes, trail, trust, budgets>>

\* s_arg is written, the task created; it reads s_arg when it gets to run.
Launch(c) ==
  /\ caller[c] # None /\ caller' = [caller EXCEPT ![c] = None]
  /\ LET t == CHOOSE u \in Task : ~Alive(u) IN
     /\ arg' = IF caller[c] = "gateway" THEN arg ELSE caller[c]
     /\ task' = [task EXCEPT ![t] = [NoTask EXCEPT
          !.pc = IF caller[c] = "gateway" THEN "update" ELSE "begin", !.asked = caller[c]]]
  /\ UNCHANGED <<running, keys, rot, join, radio, nodes, trail, trust, budgets>>
SlipLaunchFails(c) ==
  /\ caller[c] # None /\ Mishap /\ caller' = [caller EXCEPT ![c] = None]
  /\ UNCHANGED <<running, arg, task, keys, rot, join, radio, nodes, trail, trust, joins>>
LaunchFails(c) ==
  /\ caller[c] # None /\ Mishap /\ caller' = [caller EXCEPT ![c] = None] /\ running' = FALSE
  /\ UNCHANGED <<arg, task, keys, rot, join, radio, nodes, trail, trust, joins>>

-----------------------------------------------------------------------------
(* bmt_mesh_publish: the address is a field of the model and read again when the message goes    *)
(* out.  One publisher can overwrite it before another has sent.                                 *)

Address(p, n) ==
  /\ call[p] = None /\ call' = [call EXCEPT ![p] = n] /\ pub' = n
  /\ IF \E q \in Publisher : call[q] # None THEN Mishap ELSE UNCHANGED mishaps
Sent(p) == /\ call' = [call EXCEPT ![p] = None]
           /\ pub' = IF \A q \in Publisher : call'[q] = None THEN None ELSE pub

\* A key goes out to node pub, which p meant or not.  bmt_auth_set_ota_beacon_key takes it over and
\* stores it, failing which it is gone after a restart; relays do not listen to it.
PushKey(p, k) ==
  /\ Sent(p)
  /\ \E arrives, stored \in BOOLEAN :
       LET heard == arrives /\ pub \in Scanner \cap member IN
       /\ key' = [s \in Scanner |-> IF heard /\ s = pub THEN k ELSE key[s]]
       /\ flash' = [s \in Scanner |-> IF heard /\ stored /\ s = pub THEN k ELSE flash[s]]
       /\ calm' = (calm /\ arrives)
       /\ IF arrives /\ stored THEN UNCHANGED mishaps ELSE Mishap
       /\ Trust(arrives /\ stored /\ pub = call[p])

-----------------------------------------------------------------------------
(* distribute_task and self_update_task. *)

Goto(t, l) == task' = [task EXCEPT ![t].pc = l]

Begin(t) ==
  /\ At(t, "begin")
  /\ LET found == Configured \cap OfType(arg) IN
     /\ task' = [task EXCEPT ![t] = [@ EXCEPT !.type = arg,
                   !.pc = IF found = {} THEN "end" ELSE IF arg = "scanner" THEN "sign"
                          ELSE "visit"]]
     /\ aims' = found \cap member
  /\ got' = {} /\ calm' = (clean /\ Quiet) /\ arg' = None
  /\ UNCHANGED <<running, caller, keys, rot, join, radio, nodes, trust, budgets>>

\* beacon_send.  The signature is made with the key whose handle was read before; when a rotation
\* has destroyed that key meanwhile it is 0, and nobody accepts the beacon.
Sign(t) ==
  /\ At(t, "sign") /\ task' = [task EXCEPT ![t] = [@ EXCEPT !.pc = "advertise", !.mac = id]]
  /\ UNCHANGED <<running, arg, caller, keys, rot, join, radio, nodes, trail, trust, budgets>>
Advertise(t) ==
  /\ At(t, "advertise")
  /\ LET k == IF task[t].mac \in {id, rot.old} THEN task[t].mac ELSE None IN
     task' = [task EXCEPT ![t] = [@ EXCEPT !.pc = "beacon", !.mac = k]]
  /\ UNCHANGED <<running, arg, caller, keys, rot, join, radio, nodes, trail, trust, budgets>>
\* The mesh is advertising itself: every scanner is triggered by a message of its own.
CannotAdvertise(t) ==
  /\ At(t, "advertise") /\ task' = [task EXCEPT ![t] = [@ EXCEPT !.pc = "visit", !.mac = None]]
  /\ UNCHANGED <<running, arg, caller, keys, rot, join, radio, nodes, trail, trust, budgets>>
Hears(t, s) == task[t].mac # None /\ key[s] = task[t].mac
Hear(t, s) ==
  /\ At(t, "beacon") /\ s \notin got /\ Hears(t, s)
  /\ got' = got \cup {s}
  /\ UNCHANGED <<session, keys, rot, join, radio, nodes, aims, calm, trust, budgets>>
BeaconOff(t) ==
  /\ At(t, "beacon") /\ task' = [task EXCEPT ![t] = [@ EXCEPT !.pc = "end", !.mac = None]]
  /\ IF \E s \in aims \ got : Hears(t, s) THEN Mishap /\ calm' = FALSE
                                         ELSE UNCHANGED <<mishaps, calm>>
  /\ UNCHANGED <<running, arg, caller, keys, rot, join, radio, nodes, aims, got, trust, joins>>

\* The loop over the node table.
SlipVisit(t) ==
  /\ At(t, "visit")
  /\ LET i == task[t].at IN
     IF i >= Capacity THEN Goto(t, "end")
     ELSE IF table[i] \in OfType(task[t].type)
     THEN task' = [task EXCEPT ![t] = [@ EXCEPT !.pc = "trigger", !.left = Triggers]]
     ELSE task' = [task EXCEPT ![t].at = i + 1]
  /\ UNCHANGED <<running, arg, caller, keys, rot, join, radio, nodes, trail, trust, budgets>>
Visit(t) ==
  /\ At(t, "visit")
  /\ LET i == task[t].at IN
     IF i > Capacity THEN Goto(t, "end")
     ELSE IF table[i] \in OfType(task[t].type)
     THEN task' = [task EXCEPT ![t] = [@ EXCEPT !.pc = "trigger", !.left = Triggers]]
     ELSE task' = [task EXCEPT ![t].at = i + 1]
  /\ UNCHANGED <<running, arg, caller, keys, rot, join, radio, nodes, trail, trust, budgets>>
\* The slot is read again for each message: it may be free, or another node's, by now.
SlipTrigger(t) ==
  /\ At(t, "trigger")
  /\ IF table[task[t].at] = None
     THEN task' = [task EXCEPT ![t].left = @ - 1] /\ UNCHANGED <<radio, mishaps, calm>>
     ELSE /\ Address("campaign", table[task[t].at]) /\ Goto(t, "send")
          /\ calm' = (calm /\ mishaps' = mishaps)
  /\ UNCHANGED <<running, arg, caller, keys, rot, join, nodes, aims, got, trust, joins>>
Trigger(t) ==
  /\ At(t, "trigger") /\ task[t].left > 0
  /\ IF table[task[t].at] = None
     THEN task' = [task EXCEPT ![t].left = @ - 1] /\ UNCHANGED <<radio, mishaps, calm>>
     ELSE /\ Address("campaign", table[task[t].at]) /\ Goto(t, "send")
          /\ calm' = (calm /\ mishaps' = mishaps)
  /\ UNCHANGED <<running, arg, caller, keys, rot, join, nodes, aims, got, trust, joins>>
SendTrigger(t) ==
  /\ At(t, "send") /\ Sent("campaign")
  /\ task' = [task EXCEPT ![t] = [@ EXCEPT !.pc = "trigger", !.left = task[t].left - 1]]
  /\ \/ /\ got' = got \cup ({pub} \cap member)
        /\ calm' = (calm /\ pub = call["campaign"]) /\ UNCHANGED mishaps
     \/ Mishap /\ calm' = FALSE /\ UNCHANGED got
  /\ UNCHANGED <<running, arg, caller, keys, rot, join, nodes, aims, trust, joins>>
NextNode(t) ==
  /\ At(t, "trigger") /\ task[t].left = 0
  /\ task' = [task EXCEPT ![t] = [@ EXCEPT !.pc = "visit", !.at = task[t].at + 1]]
  /\ UNCHANGED <<running, arg, caller, keys, rot, join, radio, nodes, trail, trust, budgets>>
End(t) ==
  /\ At(t, "end") /\ task' = [task EXCEPT ![t] = NoTask] /\ running' = FALSE
  /\ aims' = {} /\ got' = {} /\ calm' = FALSE
  /\ UNCHANGED <<arg, caller, keys, rot, join, radio, nodes, trust, budgets>>

\* The gateway's own image is not newer, or the update fails.
NoUpdate(t) ==
  /\ At(t, "update") /\ Goto(t, "end")
  /\ UNCHANGED <<running, arg, caller, keys, rot, join, radio, nodes, trail, trust, budgets>>

-----------------------------------------------------------------------------
(* The beacon key. *)

\* beacon_key_import of a new key: when it fails the old key stays.
SlipRotateFails ==
  /\ rot.pc = "idle" /\ made < MaxKey /\ Mishap
  /\ made' = made + 1 /\ nvs' = made + 1
  /\ UNCHANGED <<session, id, raw, rot, join, radio, nodes, trail, trust, joins>>
RotateFails ==
  /\ rot.pc = "idle" /\ made < MaxKey /\ Mishap
  /\ made' = made + 1
  /\ UNCHANGED <<session, id, raw, nvs, rot, join, radio, nodes, trail, trust, joins>>
\* Otherwise its handle is swapped; then it is copied into RAM and the old one destroyed.
Rotate ==
  /\ rot.pc = "idle" /\ made < MaxKey
  /\ made' = made + 1 /\ id' = made + 1
  /\ rot' = [NoRotation EXCEPT !.pc = "copy", !.old = id]
  /\ calm' = FALSE /\ sound' = TRUE
  /\ UNCHANGED <<session, raw, nvs, join, radio, nodes, aims, got, clean, budgets>>
CopyKey ==
  /\ rot.pc = "copy" /\ raw' = id /\ rot' = [NoRotation EXCEPT !.pc = "persist"]
  /\ UNCHANGED <<session, id, nvs, made, join, radio, nodes, trail, trust, budgets>>
\* beacon_key_persist only logs a failure.
Persist ==
  /\ rot.pc = "persist" /\ rot' = [rot EXCEPT !.pc = "push"]
  /\ \/ nvs' = id /\ UNCHANGED <<mishaps, trust>>
     \/ Mishap /\ Trust(FALSE) /\ UNCHANGED nvs
  /\ UNCHANGED <<session, id, raw, made, join, radio, nodes, trail, joins>>

\* Every configured scanner is sent the key once.
PushSkip ==
  /\ rot.pc = "push" /\ rot.at <= Capacity /\ table[rot.at] \notin Scanner
  /\ rot' = [rot EXCEPT !.at = @ + 1]
  /\ UNCHANGED <<session, keys, join, radio, nodes, trail, trust, budgets>>
Push ==
  /\ rot.pc = "push" /\ rot.at <= Capacity /\ table[rot.at] \in Scanner
  /\ Address("rotation", table[rot.at])
  /\ rot' = [rot EXCEPT !.pc = "send"]
  /\ UNCHANGED <<session, keys, join, nodes, trail, trust, joins>>
PushSend ==
  /\ rot.pc = "send" /\ rot' = [rot EXCEPT !.pc = "push", !.at = @ + 1]
  /\ PushKey("rotation", raw)
  /\ UNCHANGED <<session, keys, join, table, member, aims, got, joins>>
Rotated ==
  /\ rot.pc = "push" /\ rot.at > Capacity
  /\ rot' = NoRotation /\ clean' = (clean \/ sound) /\ sound' = TRUE
  /\ UNCHANGED <<session, keys, join, radio, nodes, trail, budgets>>

-----------------------------------------------------------------------------
(* Nodes come, go and restart. *)

\* The config task is done with a node, which gets the first free slot; a scanner is then sent
\* the key.
Configure(n) ==
  /\ join = None /\ n \notin Configured /\ joins < MaxJoin /\ joins' = joins + 1
  /\ \E i \in Slot : /\ table[i] = None /\ \A k \in 1..(i - 1) : table[k] # None
                     /\ table' = [table EXCEPT ![i] = n]
  /\ member' = member \cup {n}
  /\ join' = IF n \in Scanner THEN n ELSE None
  /\ UNCHANGED <<session, keys, rot, radio, key, flash, trail, trust, mishaps>>
\* bmt_ota_push_beacon_key_to_node; without a key there is nothing to push.
JoinPush ==
  /\ join # None /\ id # None /\ Address("join", join)
  /\ UNCHANGED <<session, keys, rot, join, nodes, trail, trust, joins>>
JoinSkip ==
  /\ join # None /\ call["join"] = None /\ id = None /\ join' = None
  /\ UNCHANGED <<session, keys, rot, radio, nodes, trail, trust, budgets>>
\* While import copies the key into RAM what is sent is the old one, or a mixture.
JoinSend ==
  /\ call["join"] # None /\ join' = None
  /\ \E k \in {raw} \cup (IF rot.pc = "copy" THEN {None} ELSE {}) : PushKey("join", k)
  /\ UNCHANGED <<session, keys, rot, table, member, aims, got, joins>>

\* A node resets and leaves the mesh; a factory reset makes a scanner forget the key as well.  Its
\* entry goes when it beacons again.
Leave(n) ==
  /\ n \in member /\ member' = member \ {n} /\ aims' = aims \ {n}
  /\ \/ UNCHANGED <<key, flash>>
     \/ /\ n \in Scanner
        /\ key' = [key EXCEPT ![n] = BuiltIn] /\ flash' = [flash EXCEPT ![n] = BuiltIn]
  /\ UNCHANGED <<session, keys, rot, join, radio, table, got, calm, trust, budgets>>
Forget(n) ==
  /\ n \notin member /\ n # join
  /\ \E i \in Slot : table[i] = n /\ table' = [table EXCEPT ![i] = None]
  /\ UNCHANGED <<session, keys, rot, join, radio, member, key, flash, trail, trust, budgets>>
\* bmt_auth_init.
Restart(s) ==
  /\ key[s] # flash[s] /\ key' = [key EXCEPT ![s] = flash[s]]
  /\ UNCHANGED <<session, keys, rot, join, radio, table, member, flash, trail, trust, budgets>>

\* The gateway restarts, by itself or after an update; without a key in NVS it makes a new one.
GatewayRestart ==
  /\ Mishap
  /\ running' = FALSE /\ caller' = [c \in Caller |-> None] /\ task' = [t \in Task |-> NoTask]
  /\ rot' = NoRotation /\ join' = None /\ pub' = None /\ call' = [p \in Publisher |-> None]
  /\ IF nvs # None THEN id' \in {nvs, None} /\ UNCHANGED <<nvs, made>>
                   ELSE made' = made + 1 /\ id' = made + 1 /\ nvs' \in {made + 1, None}
  /\ raw' = id'
  /\ clean' = (clean /\ Quiet /\ id' = id) /\ sound' = TRUE
  /\ aims' = {} /\ got' = {} /\ calm' = FALSE /\ arg' = None
  /\ UNCHANGED <<nodes, joins>>

TaskStep(t) ==
  \/ Begin(t) \/ Sign(t) \/ Advertise(t) \/ CannotAdvertise(t) \/ BeaconOff(t) \/ Visit(t)
  \/ Trigger(t) \/ SendTrigger(t) \/ NextNode(t) \/ End(t) \/ NoUpdate(t)
RotationStep == CopyKey \/ Persist \/ PushSkip \/ Push \/ PushSend \/ Rotated
JoinStep == JoinPush \/ JoinSkip \/ JoinSend

Next ==
  \/ \E c \in Caller : \/ \E what \in Target : Claim(c, what)
                       \/ Launch(c) \/ LaunchFails(c)
  \/ \E t \in Task : TaskStep(t) \/ \E s \in Scanner : Hear(t, s)
  \/ Rotate \/ RotateFails \/ RotationStep \/ JoinStep
  \/ \E n \in Node : Configure(n) \/ Leave(n) \/ Forget(n)
  \/ \E s \in Scanner : Restart(s)
  \/ GatewayRestart

Spec == Init /\ [][Next]_vars

\* Tasks run; a beacon is heard in the end by whoever can.
Fairness ==
  /\ \A c \in Caller : WF_vars(Launch(c) \/ LaunchFails(c))
  /\ \A t \in Task : WF_vars(TaskStep(t)) /\ WF_vars(\E s \in Scanner : Hear(t, s))
  /\ WF_vars(RotationStep) /\ WF_vars(JoinStep)
LiveSpec == Spec /\ Fairness

-----------------------------------------------------------------------------
(* What must hold. *)

GatewayKey == 1..(MaxKey + MaxMishap)
TypeOK ==
  /\ running \in BOOLEAN /\ arg \in Target \cup {None}
  /\ caller \in [Caller -> Target \cup {None}]
  /\ task \in [Task -> [pc : {"none", "begin", "sign", "advertise", "beacon", "visit", "trigger",
                              "send", "end", "update"},
                        asked : Target, type : Target, at : 1..(Capacity + 1),
                        left : 0..Triggers, mac : GatewayKey \cup {None}]]
  /\ {id, raw, nvs} \subseteq GatewayKey \cup {None} /\ made \in GatewayKey
  /\ rot \in [pc : {"idle", "copy", "persist", "push", "send"}, old : GatewayKey \cup {None},
               at : 1..(Capacity + 1)]
  /\ join \in Scanner \cup {None} /\ pub \in Node \cup {None}
  /\ call \in [Publisher -> Node \cup {None}]
  /\ table \in [Slot -> Node \cup {None}]
  /\ member \subseteq Node /\ aims \subseteq Node /\ got \subseteq Node
  /\ {key, flash} \subseteq [Scanner -> GatewayKey \cup {None, BuiltIn}]
  /\ {calm, sound, clean} \subseteq BOOLEAN
  /\ mishaps \in 0..MaxMishap /\ joins \in 0..MaxJoin

\* s_running is up exactly while somebody is starting or running a campaign, of whom there is one
\* at a time; the task works for the target its starter asked for, though it takes it from a
\* variable that the next starter overwrites.
OneCampaign ==
  /\ running <=> \/ \E c \in Caller : caller[c] # None
                 \/ \E t \in Task : Alive(t)
  /\ Cardinality({c \in Caller : caller[c] # None})
       + Cardinality({t \in Task : Alive(t)}) <= 1
  /\ \A t \in Task : task[t].pc \notin {"none", "begin", "update"} =>
       task[t].type = task[t].asked

\* docs: every node of the type is told to update.  When nothing is lost on the way, no two tasks
\* mix up the address and no rotation comes in between, a campaign ends only after every node that
\* was configured when it began, and stayed, was triggered: by the beacon, which only scanners
\* with the gateway's key accept, or by messages.
CampaignReaches ==
  \A t \in Task : At(t, "end") /\ calm => aims \subseteq got

\* bmt_ota_key.c:122-124, "so NVS / PSA / scanner do not drift apart (a gateway reboot would then
\* load the wrong key)": when no rotation or push is under way and nothing has gone wrong since the
\* last complete rotation, gateway, its NVS and every configured scanner have the same key, and
\* would have after a restart.  Whatever went wrong before is made good by the next rotation.
KeysAgree ==
  clean /\ Quiet =>
    /\ raw = id /\ nvs = id
    /\ \A s \in Scanner \cap Configured \cap member : key[s] = id /\ flash[s] = id

\* Every campaign ends and lets the next one in.
CampaignEnds == running ~> ~running
=============================================================================

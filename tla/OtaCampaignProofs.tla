------------------------- MODULE OtaCampaignProofs -------------------------
(* Theorems about OtaCampaign, for any number of scanners, relays, keys and mishaps: its types; *)
(* one campaign at a time; the beacon key is the same everywhere unless something went wrong;   *)
(* and a campaign in which nothing goes wrong triggers every node it is for.                    *)
EXTENDS OtaCampaign, FiniteSetTheorems, TLAPS

TaskPc == {"none", "begin", "sign", "advertise", "beacon", "visit", "trigger", "send", "end",
           "update"}
Key == GatewayKey \cup {None}
TaskState == [pc : TaskPc, asked : Target, type : Target, at : 1..(Capacity + 1),
              left : 0..Triggers, mac : Key]
RotState == [pc : {"idle", "copy", "persist", "push", "send"}, old : Key, at : 1..(Capacity + 1)]

\* Who visits a slot of the node table is inside it (distribute_task, key_rotate_task), a message
\* that goes out has been counted down to, and each key made has its cause.
Bounded ==
  /\ \A t \in Task : /\ task[t].pc \in {"trigger", "send"} => task[t].at <= Capacity
                     /\ task[t].pc = "send" => task[t].left > 0
  /\ rot.pc = "send" => rot.at <= Capacity
  /\ made <= MaxKey + mishaps
Typed == TypeOK /\ Bounded

\* Who starts a campaign and who runs one exclude each other and themselves (s_running); the task
\* that is to read s_arg finds there what it was started for.
Session ==
  /\ running <=> (\E c \in Caller : caller[c] # None) \/ (\E t \in Task : Alive(t))
  /\ \A c, d \in Caller : caller[c] # None /\ caller[d] # None => c = d
  /\ \A c \in Caller, t \in Task : caller[c] # None => ~Alive(t)
  /\ \A t, u \in Task : Alive(t) /\ Alive(u) => t = u
  /\ \A t \in Task : /\ At(t, "begin") => arg = task[t].asked
                     /\ task[t].pc \notin {"none", "begin"} => task[t].type = task[t].asked

\* The bounds are natural numbers; no node, key or target is None.
LEMMA Constants ==
  /\ Capacity \in Nat /\ MaxMishap \in Nat /\ MaxJoin \in Nat
  /\ Triggers \in Nat /\ Triggers > 0 /\ MaxKey \in Nat /\ MaxKey > 0
  /\ None \notin Node /\ None \notin Nat /\ None \notin Target /\ None \notin GatewayKey
  /\ BuiltIn # None /\ Scanner \cap Relay = {} /\ Scanner \subseteq Node
  /\ GatewayKey \subseteq Nat /\ 1 \in GatewayKey
  BY OtaCampaignAssumption DEF OtaCampaignAssumption, GatewayKey, Node

\* TypeOK with the records named.
LEMMA TypeOKAgain ==
  TypeOK <=>
  /\ running \in BOOLEAN /\ arg \in Target \cup {None}
  /\ caller \in [Caller -> Target \cup {None}]
  /\ task \in [Task -> TaskState]
  /\ id \in Key /\ raw \in Key /\ nvs \in Key /\ made \in GatewayKey
  /\ rot \in RotState
  /\ join \in Scanner \cup {None} /\ pub \in Node \cup {None}
  /\ call \in [Publisher -> Node \cup {None}]
  /\ table \in [Slot -> Node \cup {None}]
  /\ member \subseteq Node /\ aims \subseteq Node /\ got \subseteq Node
  /\ key \in [Scanner -> Key \cup {BuiltIn}] /\ flash \in [Scanner -> Key \cup {BuiltIn}]
  /\ calm \in BOOLEAN /\ sound \in BOOLEAN /\ clean \in BOOLEAN
  /\ mishaps \in 0..MaxMishap /\ joins \in 0..MaxJoin
  BY DEF TypeOK, TaskState, RotState, Key, TaskPc

\* A mishap stays within the bound (Mishap).
LEMMA MishapType ==
  ASSUME mishaps \in 0..MaxMishap, Mishap \/ UNCHANGED mishaps
  PROVE  mishaps' \in 0..MaxMishap /\ mishaps' >= mishaps
  BY Constants DEF Mishap

\* More mishaps allow for no fewer keys (bmt_ota_key_init).
LEMMA KeysBounded ==
  ASSUME made \in Nat, mishaps \in Nat, mishaps' \in Nat, mishaps' >= mishaps,
         made <= MaxKey + mishaps, made' = made
  PROVE  made' <= MaxKey + mishaps'
<1>1. MaxKey \in Nat
  BY Constants
<1>2. \A k, x, y, z \in Nat : z >= y /\ x <= k + y => x <= k + z
  OBVIOUS
<1>3. made' <= MaxKey + mishaps'
  BY <1>1, <1>2
<1>4. QED
  BY <1>3

\* Addressing and sending a message keep the types (bmt_mesh_publish).
LEMMA RadioType ==
  ASSUME Typed, NEW p \in Publisher
  PROVE  /\ \A n \in Node \cup {None} : Address(p, n) =>
              /\ call' \in [Publisher -> Node \cup {None}] /\ pub' \in Node \cup {None}
              /\ Mishap \/ UNCHANGED mishaps
         /\ Sent(p) => call' \in [Publisher -> Node \cup {None}] /\ pub' \in Node \cup {None}
<1>1. pub \in Node \cup {None} /\ call \in [Publisher -> Node \cup {None}]
  BY DEF Typed, TypeOK
<1>2. ASSUME NEW n \in Node \cup {None}, Address(p, n)
      PROVE  /\ call' \in [Publisher -> Node \cup {None}] /\ pub' \in Node \cup {None}
             /\ Mishap \/ UNCHANGED mishaps
  BY <1>1, <1>2 DEF Address
<1>3. ASSUME Sent(p)
      PROVE  call' \in [Publisher -> Node \cup {None}] /\ pub' \in Node \cup {None}
  BY <1>1, <1>3 DEF Sent
<1>4. QED
  BY <1>2, <1>3

-----------------------------------------------------------------------------
(* Types. *)

\* What the steps of a campaign leave alone.
CampaignLeaves ==
  /\ UNCHANGED <<keys, rot, join, nodes, trust, joins>>
  /\ \A p \in {"rotation", "join"} : call'[p] = call[p]

\* A campaign touches neither the key nor the node table, nor who else is sending.
LEMMA CampaignFrame ==
  ASSUME Typed,
         \/ \E c \in Caller : (\E what \in Target : Claim(c, what)) \/ Launch(c) \/ LaunchFails(c)
         \/ \E t \in Task : TaskStep(t) \/ \E s \in Scanner : Hear(t, s)
  PROVE  CampaignLeaves
<1>0. call \in [Publisher -> Node \cup {None}]
  BY DEF Typed, TypeOK
<1>1. ASSUME NEW c \in Caller, NEW what \in Target, Claim(c, what)  PROVE CampaignLeaves
  BY <1>1 DEF Claim, CampaignLeaves, radio, budgets
<1>2. ASSUME NEW c \in Caller, Launch(c) \/ LaunchFails(c)  PROVE CampaignLeaves
  BY <1>2 DEF Launch, LaunchFails, CampaignLeaves, radio, budgets
<1>3. ASSUME NEW t \in Task, TaskStep(t)  PROVE CampaignLeaves
  <2>1. CASE Begin(t) \/ Sign(t) \/ Advertise(t) \/ CannotAdvertise(t) \/ BeaconOff(t)
    BY <2>1 DEF Begin, Sign, Advertise, CannotAdvertise, BeaconOff, CampaignLeaves, radio, budgets
  <2>2. CASE Visit(t) \/ NextNode(t) \/ End(t) \/ NoUpdate(t)
    BY <2>2 DEF Visit, NextNode, End, NoUpdate, CampaignLeaves, radio, budgets
  <2>3. CASE Trigger(t)
    BY <1>0, <2>3 DEF Trigger, Address, CampaignLeaves, radio, Publisher
  <2>4. CASE SendTrigger(t)
    BY <1>0, <2>4 DEF SendTrigger, Sent, CampaignLeaves, Publisher
  <2>5. QED
    BY <1>3, <2>1, <2>2, <2>3, <2>4 DEF TaskStep
<1>4. ASSUME NEW t \in Task, NEW s \in Scanner, Hear(t, s)  PROVE CampaignLeaves
  BY <1>4 DEF Hear, CampaignLeaves, radio, budgets
<1>5. QED
  BY <1>1, <1>2, <1>3, <1>4

\* What a campaign may change has its types.
CampaignTypes ==
  /\ running' \in BOOLEAN /\ arg' \in Target \cup {None}
  /\ caller' \in [Caller -> Target \cup {None}] /\ task' \in [Task -> TaskState]
  /\ pub' \in Node \cup {None} /\ call' \in [Publisher -> Node \cup {None}]
  /\ aims' \subseteq Node /\ got' \subseteq Node /\ calm' \in BOOLEAN
  /\ mishaps' \in 0..MaxMishap /\ mishaps' >= mishaps
  /\ \A t \in Task : /\ task'[t].pc \in {"trigger", "send"} => task'[t].at <= Capacity
                     /\ task'[t].pc = "send" => task'[t].left > 0

\* That is all there is to a campaign's types.
LEMMA CampaignTyped ==
  ASSUME Typed, CampaignLeaves, CampaignTypes
  PROVE  Typed'
<1>1. TypeOK'
  BY TypeOKAgain
  DEF Typed, CampaignLeaves, CampaignTypes, keys, nodes, trust, TypeOK, TaskState, RotState, Key,
      TaskPc
<1>2. Bounded'
  <2>1. mishaps \in Nat /\ made \in Nat /\ mishaps' \in Nat
    BY Constants DEF Typed, TypeOK, CampaignTypes
  <2>2. QED
    BY <2>1, Constants DEF Typed, Bounded, CampaignLeaves, CampaignTypes, keys
<1>3. QED
  BY <1>1, <1>2 DEF Typed

\* The callers keep the types (bmt_ota_distribute, bmt_ota_self_update).
LEMMA CallerTypes ==
  ASSUME Typed, NEW c \in Caller,
         (\E what \in Target : Claim(c, what)) \/ Launch(c) \/ LaunchFails(c)
  PROVE  CampaignTypes
<1>0. /\ caller \in [Caller -> Target \cup {None}] /\ task \in [Task -> TaskState]
      /\ running \in BOOLEAN /\ arg \in Target \cup {None} /\ calm \in BOOLEAN
      /\ pub \in Node \cup {None} /\ call \in [Publisher -> Node \cup {None}]
      /\ aims \subseteq Node /\ got \subseteq Node
      /\ mishaps \in 0..MaxMishap /\ Bounded
  BY TypeOKAgain DEF Typed
<1> USE Constants
<1>1. ASSUME NEW what \in Target, Claim(c, what)  PROVE CampaignTypes
  <2>1. running' \in BOOLEAN
    BY <1>1, Zenon DEF Claim
  <2>2. caller' \in [Caller -> Target \cup {None}]
    BY <1>0, <1>1 DEF Claim
  <2>3. UNCHANGED <<arg, task, radio, trail, mishaps>>
    BY <1>1 DEF Claim, budgets
  <2>4. QED
    BY <1>0, <2>1, <2>2, <2>3 DEF CampaignTypes, Bounded, radio, trail
<1>2. CASE Launch(c)
  <2>1. caller' \in [Caller -> Target \cup {None}] /\ caller[c] \in Target
    BY <1>0, <1>2 DEF Launch
  <2> DEFINE r == [NoTask EXCEPT
                     !.pc = IF caller[c] = "gateway" THEN "update" ELSE "begin",
                     !.asked = caller[c]]
  <2>2. PICK t : task' = [task EXCEPT ![t] = r]
    BY <1>2 DEF Launch
  <2>3. r \in TaskState /\ r.pc \in {"update", "begin"}
    <3>1. NoTask \in TaskState
      BY DEF NoTask, TaskState, TaskPc, Target, Key
    <3>2. (IF caller[c] = "gateway" THEN "update" ELSE "begin") \in {"update", "begin"}
      OBVIOUS
    <3>3. \A k \in {"update", "begin"} :
            LET n == [NoTask EXCEPT !.pc = k, !.asked = caller[c]]
            IN  n \in TaskState /\ n.pc = k
      BY <2>1, <3>1 DEF TaskState, TaskPc
    <3>4. QED
      BY <3>2, <3>3
  <2> HIDE DEF r
  <2>4. task' \in [Task -> TaskState] /\ \A u \in Task : task'[u] \in {r, task[u]}
    BY <1>0, <2>2, <2>3
  <2>5. arg' \in Target \cup {None}
    BY <1>0, <1>2, <2>1 DEF Launch
  <2>6. UNCHANGED <<running, radio, trail, mishaps>>
    BY <1>2 DEF Launch, budgets
  <2>7. QED
    BY <1>0, <2>1, <2>3, <2>4, <2>5, <2>6 DEF CampaignTypes, Bounded, radio, trail
<1>3. CASE LaunchFails(c)
  <2>1. running' \in BOOLEAN
    BY <1>3, Zenon DEF LaunchFails
  <2>2. caller' \in [Caller -> Target \cup {None}]
    BY <1>0, <1>3 DEF LaunchFails
  <2>3. UNCHANGED <<arg, task, radio, trail>>
    BY <1>3 DEF LaunchFails
  <2>4. mishaps' \in 0..MaxMishap /\ mishaps' >= mishaps
    BY <1>0, <1>3, MishapType DEF LaunchFails
  <2>5. QED
    BY <1>0, <2>1, <2>2, <2>3, <2>4 DEF CampaignTypes, Bounded, radio, trail
<1>4. QED
  BY <1>1, <1>2, <1>3

\* The tasks keep the types (distribute_task, beacon_send, self_update_task).
LEMMA TaskTypes ==
  ASSUME Typed, Session, NEW t \in Task, TaskStep(t) \/ \E s \in Scanner : Hear(t, s)
  PROVE  CampaignTypes
<1>0. /\ caller \in [Caller -> Target \cup {None}] /\ task \in [Task -> TaskState]
      /\ running \in BOOLEAN /\ arg \in Target \cup {None} /\ calm \in BOOLEAN
      /\ pub \in Node \cup {None} /\ call \in [Publisher -> Node \cup {None}]
      /\ aims \subseteq Node /\ got \subseteq Node /\ table \in [Slot -> Node \cup {None}]
      /\ clean \in BOOLEAN /\ id \in Key /\ member \subseteq Node
      /\ mishaps \in 0..MaxMishap /\ mishaps \in Nat /\ Bounded
  BY Constants, TypeOKAgain DEF Typed
<1> USE Constants
<1>a. /\ task[t] \in TaskState /\ task[t].at \in 1..(Capacity + 1) /\ task[t].left \in 0..Triggers
      /\ task[t].pc \in {"trigger", "send"} => task[t].at <= Capacity
      /\ task[t].pc = "send" => task[t].left > 0
  BY <1>0 DEF TaskState, Bounded
\* Fields of its record that a step sets.
<1>d. ASSUME NEW l \in TaskPc
      PROVE  /\ \A k \in Key : LET r == [task[t] EXCEPT !.pc = l, !.mac = k]
                               IN  r \in TaskState /\ r.pc = l
             /\ \A n \in 0..Triggers : LET r == [task[t] EXCEPT !.pc = l, !.left = n]
                                       IN  r \in TaskState /\ r.pc = l /\ r.at = task[t].at
             /\ \A a \in 1..(Capacity + 1) : LET r == [task[t] EXCEPT !.pc = l, !.at = a]
                                             IN  r \in TaskState /\ r.pc = l
  BY <1>a DEF TaskState
\* All that is left to show of a step that sets the record of the task.
<1>b. ASSUME NEW r \in TaskState, task' = [task EXCEPT ![t] = r],
             r.pc \in {"trigger", "send"} => r.at <= Capacity, r.pc = "send" => r.left > 0
      PROVE  /\ task' \in [Task -> TaskState]
             /\ \A u \in Task : /\ task'[u].pc \in {"trigger", "send"} => task'[u].at <= Capacity
                                /\ task'[u].pc = "send" => task'[u].left > 0
  BY <1>0, <1>b DEF Bounded
<1>c. ASSUME NEW l \in TaskPc, l \notin {"trigger", "send"}, task' = [task EXCEPT ![t].pc = l]
      PROVE  /\ task' \in [Task -> TaskState]
             /\ \A u \in Task : /\ task'[u].pc \in {"trigger", "send"} => task'[u].at <= Capacity
                                /\ task'[u].pc = "send" => task'[u].left > 0
  BY <1>0, <1>c DEF Bounded, TaskState
<1>1. CASE Begin(t)
  <2> DEFINE found == Configured \cap OfType(arg)
             r == [task[t] EXCEPT !.type = arg,
                     !.pc = IF found = {} THEN "end" ELSE IF arg = "scanner" THEN "sign"
                            ELSE "visit"]
  <2>1. task' = [task EXCEPT ![t] = r] /\ aims' = found \cap member
    BY <1>1 DEF Begin
  <2>2. got' = {} /\ arg' = None /\ UNCHANGED <<running, caller, radio, mishaps>>
    BY <1>1 DEF Begin, budgets
  <2>3. calm' \in BOOLEAN
    BY <1>0, <1>1, Zenon DEF Begin, Quiet
  <2>4. arg \in Target
    BY <1>1, <1>a DEF Begin, Session, TaskState
  <2>5. r \in TaskState /\ r.pc \in {"end", "sign", "visit"}
    BY <1>a, <2>4 DEF TaskState, TaskPc
  <2>6. aims' \subseteq Node
    BY <1>0, <2>1
  <2> HIDE DEF r
  <2>7. /\ task' \in [Task -> TaskState]
        /\ \A u \in Task : /\ task'[u].pc \in {"trigger", "send"} => task'[u].at <= Capacity
                           /\ task'[u].pc = "send" => task'[u].left > 0
    BY <1>b, <2>1, <2>5
  <2>8. QED
    BY <1>0, <2>2, <2>3, <2>6, <2>7 DEF CampaignTypes, radio
<1>2. CASE Sign(t) \/ Advertise(t) \/ CannotAdvertise(t)
  <2>1. PICK l \in {"advertise", "beacon", "visit"}, k \in Key :
          task' = [task EXCEPT ![t] = [task[t] EXCEPT !.pc = l, !.mac = k]]
    <3>1. CASE Sign(t)
      BY <1>0, <3>1 DEF Sign
    <3>2. CASE Advertise(t)
      <4> DEFINE m == IF task[t].mac \in {id, rot.old} THEN task[t].mac ELSE None
      <4>1. m \in Key
        BY <1>a DEF TaskState, Key
      <4>2. task' = [task EXCEPT ![t] = [task[t] EXCEPT !.pc = "beacon", !.mac = m]]
        BY <3>2 DEF Advertise
      <4> HIDE DEF m
      <4>3. QED
        BY <4>1, <4>2
    <3>3. CASE CannotAdvertise(t)
      BY <3>3 DEF CannotAdvertise, Key
    <3>4. QED
      BY <1>2, <3>1, <3>2, <3>3
  <2> DEFINE r == [task[t] EXCEPT !.pc = l, !.mac = k]
  <2>2. r \in TaskState /\ r.pc = l
    <3>1. l \in TaskPc
      BY DEF TaskPc
    <3>2. QED
      BY <1>d, <3>1
  <2>3. UNCHANGED <<running, arg, caller, radio, trail, mishaps>>
    BY <1>2 DEF Sign, Advertise, CannotAdvertise, budgets
  <2>4. task' = [task EXCEPT ![t] = r]
    BY <2>1
  <2> HIDE DEF r
  <2>5. /\ task' \in [Task -> TaskState]
        /\ \A u \in Task : /\ task'[u].pc \in {"trigger", "send"} => task'[u].at <= Capacity
                           /\ task'[u].pc = "send" => task'[u].left > 0
    BY <1>b, <2>2, <2>4
  <2>6. QED
    BY <1>0, <2>3, <2>5 DEF CampaignTypes, radio, trail
<1>3. ASSUME NEW s \in Scanner, Hear(t, s)  PROVE CampaignTypes
  BY <1>0, <1>3 DEF Hear, CampaignTypes, Bounded, session, radio, budgets
<1>4. CASE BeaconOff(t)
  <2>1. [task[t] EXCEPT !.pc = "end", !.mac = None] \in TaskState
    BY <1>a DEF TaskState, TaskPc, Key
  <2>2. task' = [task EXCEPT ![t] = [task[t] EXCEPT !.pc = "end", !.mac = None]]
    BY <1>4 DEF BeaconOff
  <2>3. mishaps' \in 0..MaxMishap /\ mishaps' >= mishaps
    BY <1>0, <1>4, MishapType DEF BeaconOff
  <2>4. calm' \in BOOLEAN
    <3>1. calm' = FALSE \/ calm' = calm
      BY <1>4 DEF BeaconOff
    <3>2. QED
      BY <1>0, <3>1, Zenon
  <2>5. UNCHANGED <<running, arg, caller, radio, aims, got>>
    BY <1>4 DEF BeaconOff
  <2>6. QED
    BY <1>0, <1>a, <1>b, <2>1, <2>2, <2>3, <2>4, <2>5 DEF CampaignTypes, radio, TaskState
<1>5. CASE Visit(t)
  <2>1. UNCHANGED <<running, arg, caller, radio, trail, mishaps>>
    BY <1>5 DEF Visit, budgets
  <2>2. /\ task' \in [Task -> TaskState]
        /\ \A u \in Task : /\ task'[u].pc \in {"trigger", "send"} => task'[u].at <= Capacity
                           /\ task'[u].pc = "send" => task'[u].left > 0
    <3>1. At(t, "visit")
      BY <1>5 DEF Visit
    <3>2. CASE task[t].at > Capacity
      <4>1. task' = [task EXCEPT ![t].pc = "end"]
        BY <1>5, <3>2 DEF Visit, Goto
      <4>2. QED
        BY <1>c, <4>1 DEF TaskPc
    <3>3. CASE task[t].at <= Capacity /\ table[task[t].at] \in OfType(task[t].type)
      <4>1. task' = [task EXCEPT ![t] = [task[t] EXCEPT !.pc = "trigger", !.left = Triggers]]
        BY <1>5, <1>a, <3>3 DEF Visit
      <4> DEFINE r == [task[t] EXCEPT !.pc = "trigger", !.left = Triggers]
      <4>2. r \in TaskState /\ r.pc = "trigger" /\ r.at = task[t].at
        <5>1. "trigger" \in TaskPc /\ Triggers \in 0..Triggers
          BY DEF TaskPc
        <5>2. QED
          BY <1>d, <5>1
      <4> HIDE DEF r
      <4>3. QED
        BY <1>a, <1>b, <3>3, <4>1, <4>2 DEF r
    <3>4. CASE task[t].at <= Capacity /\ table[task[t].at] \notin OfType(task[t].type)
      <4>1. task' = [task EXCEPT ![t] = [task[t] EXCEPT !.at = task[t].at + 1]]
        BY <1>5, <1>a, <3>4 DEF Visit
      <4>2. [task[t] EXCEPT !.at = task[t].at + 1] \in TaskState
        BY <1>a, <3>4 DEF TaskState
      <4>3. QED
        BY <1>a, <1>b, <3>1, <4>1, <4>2 DEF TaskState, At
    <3>5. QED
      BY <1>a, <3>2, <3>3, <3>4
  <2>3. QED
    BY <1>0, <2>1, <2>2 DEF CampaignTypes, radio, trail
<1>6. CASE Trigger(t)
  <2>1. UNCHANGED <<running, arg, caller, aims, got>> /\ At(t, "trigger") /\ task[t].left > 0
    BY <1>6 DEF Trigger
  <2>2. CASE table[task[t].at] = None
    <3>1. task' = [task EXCEPT ![t] = [task[t] EXCEPT !.left = task[t].left - 1]]
      BY <1>6, <2>2 DEF Trigger
    <3> DEFINE r == [task[t] EXCEPT !.left = task[t].left - 1]
    <3>2. r \in TaskState /\ r.pc = "trigger" /\ r.at = task[t].at
      BY <1>a, <2>1 DEF TaskState, At
    <3>3. UNCHANGED <<radio, mishaps, calm>>
      BY <1>6, <2>2 DEF Trigger
    <3> HIDE DEF r
    <3>4. /\ task' \in [Task -> TaskState]
          /\ \A u \in Task : /\ task'[u].pc \in {"trigger", "send"} => task'[u].at <= Capacity
                             /\ task'[u].pc = "send" => task'[u].left > 0
      BY <1>a, <1>b, <2>1, <3>1, <3>2 DEF At, r
    <3>5. QED
      BY <1>0, <2>1, <3>3, <3>4 DEF CampaignTypes, radio
  <2>3. CASE table[task[t].at] # None
    <3>1. task' = [task EXCEPT ![t] = [task[t] EXCEPT !.pc = "send"]]
      BY <1>6, <2>3 DEF Trigger, Goto
    <3>2. [task[t] EXCEPT !.pc = "send"] \in TaskState
      BY <1>a DEF TaskState, TaskPc
    <3>3. Address("campaign", table[task[t].at]) /\ table[task[t].at] \in Node \cup {None}
      BY <1>0, <1>6, <1>a, <2>1, <2>3 DEF Trigger, Slot, At
    <3>4. /\ call' \in [Publisher -> Node \cup {None}] /\ pub' \in Node \cup {None}
          /\ mishaps' \in 0..MaxMishap /\ mishaps' >= mishaps
      BY <1>0, <3>3, RadioType, MishapType DEF Publisher
    <3>5. calm' = (calm /\ mishaps' = mishaps)
      BY <1>6, <2>3 DEF Trigger
    <3>6. calm' \in BOOLEAN
      BY <1>0, <3>5, Zenon
    <3>7. QED
      BY <1>0, <1>a, <1>b, <2>1, <3>1, <3>2, <3>4, <3>6 DEF CampaignTypes, TaskState, At
  <2>4. QED
    BY <2>2, <2>3
<1>7. CASE SendTrigger(t)
  <2>1. task' = [task EXCEPT ![t] = [task[t] EXCEPT !.pc = "trigger", !.left = task[t].left - 1]]
    BY <1>7 DEF SendTrigger
  <2>2. At(t, "send") /\ UNCHANGED <<running, arg, caller, aims>>
    BY <1>7 DEF SendTrigger
  <2>3. LET r == [task[t] EXCEPT !.pc = "trigger", !.left = task[t].left - 1]
        IN  r \in TaskState /\ r.pc = "trigger" /\ r.at = task[t].at
    <3>1. task[t].left - 1 \in 0..Triggers
      BY <1>a, <2>2 DEF At
    <3>2. QED
      BY <1>d, <3>1 DEF TaskPc
  <2>4. call' \in [Publisher -> Node \cup {None}] /\ pub' \in Node \cup {None}
    BY <1>7, RadioType DEF SendTrigger, Publisher
  <2>5. mishaps' \in 0..MaxMishap /\ mishaps' >= mishaps
    BY <1>0, <1>7, MishapType DEF SendTrigger
  <2>6. got' \subseteq Node
    BY <1>0, <1>7 DEF SendTrigger
  <2>7. calm' \in BOOLEAN
    <3>1. calm' = FALSE \/ calm' = (calm /\ pub = call["campaign"])
      BY <1>7 DEF SendTrigger
    <3>2. QED
      BY <1>0, <3>1, Zenon
  <2>8. QED
    BY <1>0, <1>a, <1>b, <2>1, <2>2, <2>3, <2>4, <2>5, <2>6, <2>7
    DEF CampaignTypes, TaskState, At
<1>8. CASE NextNode(t)
  <2>1. task' = [task EXCEPT ![t] = [task[t] EXCEPT !.pc = "visit", !.at = task[t].at + 1]]
    BY <1>8 DEF NextNode
  <2> DEFINE r == [task[t] EXCEPT !.pc = "visit", !.at = task[t].at + 1]
  <2>2. r \in TaskState /\ r.pc = "visit"
    <3>1. task[t].at + 1 \in 1..(Capacity + 1)
      BY <1>a, <1>8 DEF NextNode, At
    <3>2. "visit" \in TaskPc
      BY DEF TaskPc
    <3>3. QED
      BY <1>d, <3>1, <3>2
  <2>3. UNCHANGED <<running, arg, caller, radio, trail, mishaps>>
    BY <1>8 DEF NextNode, budgets
  <2> HIDE DEF r
  <2>4. /\ task' \in [Task -> TaskState]
        /\ \A u \in Task : /\ task'[u].pc \in {"trigger", "send"} => task'[u].at <= Capacity
                           /\ task'[u].pc = "send" => task'[u].left > 0
    BY <1>b, <2>1, <2>2 DEF r
  <2>5. QED
    BY <1>0, <2>3, <2>4 DEF CampaignTypes, radio, trail
<1>9. CASE End(t)
  <2>1. NoTask \in TaskState
    BY DEF NoTask, TaskState, TaskPc, Target, Key
  <2>2. task' = [task EXCEPT ![t] = NoTask]
    BY <1>9 DEF End
  <2>3. running' \in BOOLEAN /\ calm' \in BOOLEAN
    BY <1>9, Zenon DEF End
  <2>4. aims' = {} /\ got' = {} /\ UNCHANGED <<arg, caller, radio, mishaps>>
    BY <1>9 DEF End, budgets
  <2>5. NoTask.pc = "none"
    BY DEF NoTask
  <2>6. /\ task' \in [Task -> TaskState]
        /\ \A u \in Task : /\ task'[u].pc \in {"trigger", "send"} => task'[u].at <= Capacity
                           /\ task'[u].pc = "send" => task'[u].left > 0
    BY <1>b, <2>1, <2>2, <2>5
  <2>7. QED
    BY <1>0, <2>3, <2>4, <2>6 DEF CampaignTypes, radio
<1>10. CASE NoUpdate(t)
  <2>1. UNCHANGED <<running, arg, caller, radio, trail, mishaps>>
    BY <1>10 DEF NoUpdate, budgets
  <2>2. task' = [task EXCEPT ![t].pc = "end"]
    BY <1>10 DEF NoUpdate, Goto
  <2>3. QED
    BY <1>0, <1>c, <2>1, <2>2 DEF CampaignTypes, radio, trail, TaskPc
<1>11. QED
  BY <1>1, <1>2, <1>3, <1>4, <1>5, <1>6, <1>7, <1>8, <1>9, <1>10 DEF TaskStep

\* Trust gives truth values.
LEMMA TrustType ==
  ASSUME Typed, NEW ok \in BOOLEAN, Trust(ok)
  PROVE  sound' \in BOOLEAN /\ clean' \in BOOLEAN
<1>1. sound \in BOOLEAN /\ clean \in BOOLEAN
  BY DEF Typed, TypeOK
<1>2. sound' = (sound /\ ok) /\ clean' = (clean /\ ok)
  BY DEF Trust
<1>3. QED
  BY <1>1, <1>2, Zenon

\* Sending a key keeps the types (bmt_mesh_send_ota_beacon_key, bmt_auth_set_ota_beacon_key).
LEMMA PushKeyType ==
  ASSUME Typed, NEW p \in Publisher, NEW k \in Key, PushKey(p, k)
  PROVE  /\ key' \in [Scanner -> Key \cup {BuiltIn}] /\ flash' \in [Scanner -> Key \cup {BuiltIn}]
         /\ pub' \in Node \cup {None} /\ call' \in [Publisher -> Node \cup {None}]
         /\ calm' \in BOOLEAN /\ sound' \in BOOLEAN /\ clean' \in BOOLEAN
         /\ mishaps' \in 0..MaxMishap /\ mishaps' >= mishaps
<1>0. /\ key \in [Scanner -> Key \cup {BuiltIn}] /\ flash \in [Scanner -> Key \cup {BuiltIn}]
      /\ calm \in BOOLEAN /\ mishaps \in 0..MaxMishap
  BY TypeOKAgain DEF Typed
<1>1. PICK arrives \in BOOLEAN, stored \in BOOLEAN :
        LET heard == arrives /\ pub \in Scanner \cap member IN
        /\ key' = [s \in Scanner |-> IF heard /\ s = pub THEN k ELSE key[s]]
        /\ flash' = [s \in Scanner |-> IF heard /\ stored /\ s = pub THEN k ELSE flash[s]]
        /\ calm' = (calm /\ arrives)
        /\ IF arrives /\ stored THEN UNCHANGED mishaps ELSE Mishap
        /\ Trust(arrives /\ stored /\ pub = call[p])
  BY DEF PushKey
<1>2. key' \in [Scanner -> Key \cup {BuiltIn}] /\ flash' \in [Scanner -> Key \cup {BuiltIn}]
  BY <1>0, <1>1
<1>3. pub' \in Node \cup {None} /\ call' \in [Publisher -> Node \cup {None}]
  BY RadioType DEF PushKey
<1>4. calm' \in BOOLEAN
  BY <1>0, <1>1, Zenon
<1>5. sound' \in BOOLEAN /\ clean' \in BOOLEAN
  <2>1. (arrives /\ stored /\ pub = call[p]) \in BOOLEAN
    BY Zenon
  <2>2. Trust(arrives /\ stored /\ pub = call[p])
    BY <1>1
  <2>3. QED
    BY <2>1, <2>2, TrustType
<1>6. mishaps' \in 0..MaxMishap /\ mishaps' >= mishaps
  BY <1>0, <1>1, MishapType
<1>7. QED
  BY <1>2, <1>3, <1>4, <1>5, <1>6

\* A rotation keeps the types (bmt_ota_key_rotate, beacon_key_import, beacon_key_persist).
LEMMA RotationTypes ==
  ASSUME Typed, Rotate \/ RotateFails \/ RotationStep
  PROVE  Typed'
<1> USE Constants
<1>0. /\ TypeOK /\ Bounded /\ rot \in RotState /\ id \in Key /\ raw \in Key /\ made \in Nat
      /\ mishaps \in 0..MaxMishap /\ mishaps \in Nat /\ made \in GatewayKey
      /\ table \in [Slot -> Node \cup {None}] /\ rot.at \in 1..(Capacity + 1)
      /\ clean \in BOOLEAN /\ sound \in BOOLEAN /\ calm \in BOOLEAN
  <2>1. TypeOK /\ Bounded
    BY DEF Typed
  <2>2. rot \in RotState /\ made \in GatewayKey /\ mishaps \in 0..MaxMishap
    BY <2>1, TypeOKAgain
  <2>3. made \in Nat /\ mishaps \in Nat /\ rot.at \in 1..(Capacity + 1)
    BY <2>2 DEF RotState
  <2>4. QED
    BY <2>1, <2>2, <2>3, TypeOKAgain
<1>a. ASSUME rot' \in RotState, rot'.pc = "send" => rot'.at <= Capacity,
             id' \in Key, raw' \in Key, nvs' \in Key, made' \in GatewayKey,
             made' <= MaxKey + mishaps',
             pub' \in Node \cup {None}, call' \in [Publisher -> Node \cup {None}],
             key' \in [Scanner -> Key \cup {BuiltIn}], flash' \in [Scanner -> Key \cup {BuiltIn}],
             calm' \in BOOLEAN, sound' \in BOOLEAN, clean' \in BOOLEAN,
             mishaps' \in 0..MaxMishap,
             UNCHANGED <<session, join, table, member, aims, got, joins>>
      PROVE  Typed'
  <2>1. TypeOK'
    BY <1>0, <1>a DEF TypeOK, RotState, Key, session
  <2>2. Bounded'
    BY <1>0, <1>a DEF Bounded, session
  <2>3. QED
    BY <2>1, <2>2 DEF Typed
<1>b. /\ nvs \in Key /\ pub \in Node \cup {None} /\ call \in [Publisher -> Node \cup {None}]
      /\ key \in [Scanner -> Key \cup {BuiltIn}] /\ flash \in [Scanner -> Key \cup {BuiltIn}]
      /\ made <= MaxKey + mishaps
  BY <1>0, TypeOKAgain DEF Bounded
<1>1. CASE RotateFails
  <2>1. /\ mishaps' \in 0..MaxMishap /\ mishaps' >= mishaps
        /\ made' = made + 1 /\ made < MaxKey
        /\ UNCHANGED <<session, id, raw, nvs, rot, join, radio, nodes, trail, trust, joins>>
    BY <1>0, <1>1, MishapType DEF RotateFails
  <2>2. made' \in GatewayKey /\ made' <= MaxKey + mishaps'
    BY <1>0, <2>1 DEF GatewayKey
  <2>3. QED
    BY <1>0, <1>a, <1>b, <2>1, <2>2 DEF Bounded, radio, nodes, trail, trust
<1>2. CASE Rotate
  <2>1. made' = made + 1 /\ id' = made + 1 /\ made < MaxKey
    BY <1>2 DEF Rotate
  <2>2. made' \in GatewayKey /\ made' <= MaxKey + mishaps /\ id' \in Key
    BY <1>0, <2>1 DEF GatewayKey, Key
  <2>3. rot' \in RotState /\ rot'.pc = "copy"
    <3>1. NoRotation \in RotState
      BY DEF NoRotation, RotState, Key
    <3>2. rot' = [NoRotation EXCEPT !.pc = "copy", !.old = id]
      BY <1>2 DEF Rotate
    <3>3. QED
      BY <1>0, <3>1, <3>2 DEF RotState
  <2>4. calm' \in BOOLEAN /\ sound' \in BOOLEAN
    BY <1>2, Zenon DEF Rotate
  <2>5. UNCHANGED <<session, raw, nvs, join, radio, nodes, aims, got, clean, budgets>>
    BY <1>2 DEF Rotate
  <2>6. QED
    BY <1>0, <1>a, <1>b, <2>2, <2>3, <2>4, <2>5 DEF radio, nodes, budgets
<1>3. CASE CopyKey
  <2>1. rot' \in RotState /\ rot'.pc = "persist"
    BY <1>0, <1>3 DEF CopyKey, NoRotation, RotState, Key
  <2>2. /\ raw' = id
        /\ UNCHANGED <<session, id, nvs, made, join, radio, nodes, trail, trust, budgets>>
    BY <1>3 DEF CopyKey
  <2>3. QED
    BY <1>0, <1>a, <1>b, <2>1, <2>2 DEF radio, nodes, trail, trust, budgets
<1>4. CASE Persist
  <2>1. rot' \in RotState /\ rot'.pc = "push"
    BY <1>0, <1>4 DEF Persist, RotState
  <2>2. nvs' \in Key /\ mishaps' \in 0..MaxMishap /\ mishaps' >= mishaps
    BY <1>0, <1>4, <1>b, MishapType DEF Persist
  <2>3. sound' \in BOOLEAN /\ clean' \in BOOLEAN
    BY <1>0, <1>4, TrustType DEF Persist, trust
  <2>4. UNCHANGED <<session, id, raw, made, join, radio, nodes, trail, joins>>
    BY <1>4 DEF Persist
  <2>5. made' \in GatewayKey /\ made' <= MaxKey + mishaps'
    BY <1>0, <1>b, <2>2, <2>4
  <2>6. QED
    BY <1>0, <1>a, <1>b, <2>1, <2>2, <2>3, <2>4, <2>5 DEF radio, nodes, trail
<1>5. CASE PushSkip
  <2>1. rot' \in RotState /\ rot'.pc = "push"
    BY <1>0, <1>5 DEF PushSkip, RotState
  <2>2. UNCHANGED <<session, keys, join, radio, nodes, trail, trust, budgets>>
    BY <1>5 DEF PushSkip
  <2>3. QED
    BY <1>0, <1>a, <1>b, <2>1, <2>2 DEF keys, radio, nodes, trail, trust, budgets
<1>6. CASE Push
  <2>1. rot' \in RotState /\ rot'.at = rot.at /\ rot.at <= Capacity
    BY <1>0, <1>6 DEF Push, RotState
  <2>2. Address("rotation", table[rot.at]) /\ table[rot.at] \in Node \cup {None}
    BY <1>0, <1>6, <2>1 DEF Push, Slot
  <2>3. /\ pub' \in Node \cup {None} /\ call' \in [Publisher -> Node \cup {None}]
        /\ mishaps' \in 0..MaxMishap /\ mishaps' >= mishaps
    BY <1>0, <2>2, RadioType, MishapType DEF Publisher
  <2>4. UNCHANGED <<session, keys, join, nodes, trail, trust, joins>>
    BY <1>6 DEF Push
  <2>5. made' \in GatewayKey /\ made' <= MaxKey + mishaps'
    <3>1. made' = made
      BY <2>4 DEF keys
    <3>2. mishaps' \in Nat /\ mishaps' >= mishaps /\ mishaps \in Nat /\ made \in Nat
      BY <1>0, <2>3
    <3>3. made <= MaxKey + mishaps /\ made \in GatewayKey
      BY <1>0, <1>b
    <3>4. QED
      BY <3>1, <3>2, <3>3, KeysBounded
  <2>6. QED
    BY <1>0, <1>a, <1>b, <2>1, <2>3, <2>4, <2>5 DEF keys, nodes, trail, trust
<1>7. CASE PushSend
  <2>1. rot' \in RotState /\ rot'.pc = "push"
    <3>1. rot.at <= Capacity
      BY <1>0, <1>7 DEF PushSend, Bounded
    <3>2. QED
      <4>1. rot' = [rot EXCEPT !.pc = "push", !.at = rot.at + 1]
        BY <1>7 DEF PushSend
      <4>2. rot.at + 1 \in 1..(Capacity + 1)
        BY <1>0, <3>1
      <4>3. QED
        BY <1>0, <4>1, <4>2 DEF RotState
  <2>2. PushKey("rotation", raw)
    BY <1>7 DEF PushSend
  <2>3. /\ pub' \in Node \cup {None} /\ call' \in [Publisher -> Node \cup {None}]
        /\ key' \in [Scanner -> Key \cup {BuiltIn}] /\ flash' \in [Scanner -> Key \cup {BuiltIn}]
        /\ calm' \in BOOLEAN /\ sound' \in BOOLEAN /\ clean' \in BOOLEAN
        /\ mishaps' \in 0..MaxMishap /\ mishaps' >= mishaps
    BY <1>0, <2>2, PushKeyType DEF Publisher
  <2>4. UNCHANGED <<session, keys, join, table, member, aims, got, joins>>
    BY <1>7 DEF PushSend
  <2>5. made' \in GatewayKey /\ made' <= MaxKey + mishaps'
    <3>1. made' = made
      BY <2>4 DEF keys
    <3>2. mishaps' \in Nat /\ mishaps' >= mishaps /\ mishaps \in Nat /\ made \in Nat
      BY <1>0, <2>3
    <3>3. made <= MaxKey + mishaps /\ made \in GatewayKey
      BY <1>0, <1>b
    <3>4. QED
      BY <3>1, <3>2, <3>3, KeysBounded
  <2>6. QED
    BY <1>0, <1>a, <1>b, <2>1, <2>3, <2>4, <2>5 DEF keys
<1>8. CASE Rotated
  <2>1. rot' \in RotState /\ rot'.pc = "idle"
    BY <1>0, <1>8 DEF Rotated, NoRotation, RotState, Key
  <2>2. sound' \in BOOLEAN /\ clean' \in BOOLEAN
    <3>1. sound' = TRUE /\ clean' = (clean \/ sound)
      BY <1>8 DEF Rotated
    <3>2. QED
      BY <1>0, <3>1, Zenon
  <2>3. UNCHANGED <<session, keys, join, radio, nodes, trail, budgets>>
    BY <1>8 DEF Rotated
  <2>4. QED
    BY <1>0, <1>a, <1>b, <2>1, <2>2, <2>3 DEF keys, radio, nodes, trail, budgets
<1>9. QED
  BY <1>1, <1>2, <1>3, <1>4, <1>5, <1>6, <1>7, <1>8 DEF RotationStep

\* Nodes and the gateway that come, go and restart keep the types (bmt_ota_push_beacon_key_to_node,
\* bmt_ota_key_init, bmt_auth_init).
LEMMA NodeTypes ==
  ASSUME Typed,
         \/ JoinStep
         \/ \E n \in Node : Configure(n) \/ Leave(n) \/ Forget(n)
         \/ \E s \in Scanner : Restart(s)
  PROVE  Typed'
<1> USE Constants
<1>0. TypeOK /\ Bounded
  BY DEF Typed
<1>b. /\ raw \in Key /\ pub \in Node \cup {None} /\ call \in [Publisher -> Node \cup {None}]
      /\ key \in [Scanner -> Key \cup {BuiltIn}] /\ flash \in [Scanner -> Key \cup {BuiltIn}]
      /\ table \in [Slot -> Node \cup {None}] /\ member \subseteq Node /\ aims \subseteq Node
      /\ join \in Scanner \cup {None} /\ joins \in 0..MaxJoin /\ mishaps \in 0..MaxMishap
      /\ calm \in BOOLEAN /\ sound \in BOOLEAN /\ clean \in BOOLEAN
      /\ made \in Nat /\ mishaps \in Nat /\ made <= MaxKey + mishaps
  <2>1. made \in GatewayKey /\ mishaps \in 0..MaxMishap /\ made <= MaxKey + mishaps
    BY <1>0, TypeOKAgain DEF Bounded
  <2>2. QED
    BY <1>0, <2>1, TypeOKAgain
<1>a. ASSUME join' \in Scanner \cup {None},
             pub' \in Node \cup {None}, call' \in [Publisher -> Node \cup {None}],
             table' \in [Slot -> Node \cup {None}], member' \subseteq Node, aims' \subseteq Node,
             key' \in [Scanner -> Key \cup {BuiltIn}], flash' \in [Scanner -> Key \cup {BuiltIn}],
             calm' \in BOOLEAN, sound' \in BOOLEAN, clean' \in BOOLEAN,
             mishaps' \in 0..MaxMishap, mishaps' >= mishaps, joins' \in 0..MaxJoin,
             UNCHANGED <<session, keys, rot, got>>
      PROVE  Typed'
  <2>1. TypeOK'
    BY <1>0, <1>a DEF TypeOK, Key, session, keys
  <2>2. made' = made /\ UNCHANGED <<task, rot>>
    BY <1>a DEF session, keys
  <2>3. mishaps' \in Nat
    BY <1>a
  <2>4. made' <= MaxKey + mishaps'
    BY <1>a, <1>b, <2>2, <2>3, KeysBounded
  <2>5. Bounded'
    BY <1>0, <2>2, <2>4 DEF Bounded
  <2>6. QED
    BY <2>1, <2>5 DEF Typed
<1>1. CASE JoinPush
  <2>1. Address("join", join) /\ join \in Node \cup {None}
    BY <1>1, <1>b DEF JoinPush
  <2>2. /\ pub' \in Node \cup {None} /\ call' \in [Publisher -> Node \cup {None}]
        /\ mishaps' \in 0..MaxMishap /\ mishaps' >= mishaps
    BY <1>b, <2>1, RadioType, MishapType DEF Publisher
  <2>3. UNCHANGED <<session, keys, rot, join, nodes, trail, trust, joins>>
    BY <1>1 DEF JoinPush
  <2>4. QED
    BY <1>a, <1>b, <2>2, <2>3 DEF nodes, trail, trust
<1>2. CASE JoinSkip
  <2>1. join' = None /\ UNCHANGED <<session, keys, rot, radio, nodes, trail, trust, budgets>>
    BY <1>2 DEF JoinSkip
  <2>2. QED
    BY <1>a, <1>b, <2>1 DEF radio, nodes, trail, trust, budgets
<1>3. CASE JoinSend
  <2>1. PICK k \in Key : PushKey("join", k)
    BY <1>3, <1>b DEF JoinSend, Key
  <2>2. /\ pub' \in Node \cup {None} /\ call' \in [Publisher -> Node \cup {None}]
        /\ key' \in [Scanner -> Key \cup {BuiltIn}] /\ flash' \in [Scanner -> Key \cup {BuiltIn}]
        /\ calm' \in BOOLEAN /\ sound' \in BOOLEAN /\ clean' \in BOOLEAN
        /\ mishaps' \in 0..MaxMishap /\ mishaps' >= mishaps
    BY <2>1, PushKeyType DEF Publisher
  <2>3. join' = None /\ UNCHANGED <<session, keys, rot, table, member, aims, got, joins>>
    BY <1>3 DEF JoinSend
  <2>4. /\ join' \in Scanner \cup {None} /\ table' \in [Slot -> Node \cup {None}]
        /\ member' \subseteq Node /\ aims' \subseteq Node /\ joins' \in 0..MaxJoin
        /\ UNCHANGED <<session, keys, rot, got>>
    BY <1>b, <2>3
  <2>5. QED
    BY <1>a, <2>2, <2>4
<1>4. ASSUME NEW n \in Node, Configure(n)  PROVE Typed'
  <2>1. joins' \in 0..MaxJoin /\ member' \subseteq Node /\ join' \in Scanner \cup {None}
    BY <1>4, <1>b DEF Configure
  <2>2. table' \in [Slot -> Node \cup {None}]
    <3>1. PICK i \in Slot : table' = [table EXCEPT ![i] = n]
      BY <1>4 DEF Configure
    <3>2. QED
      BY <1>b, <3>1
  <2>3. UNCHANGED <<session, keys, rot, radio, key, flash, trail, trust, mishaps>>
    BY <1>4 DEF Configure
  <2>4. QED
    BY <1>a, <1>b, <2>1, <2>2, <2>3 DEF radio, trail, trust
<1>5. ASSUME NEW n \in Node, Leave(n)  PROVE Typed'
  <2>1. member' \subseteq Node /\ aims' \subseteq Node
    BY <1>5, <1>b DEF Leave
  <2>2. key' \in [Scanner -> Key \cup {BuiltIn}] /\ flash' \in [Scanner -> Key \cup {BuiltIn}]
    BY <1>5, <1>b DEF Leave
  <2>3. UNCHANGED <<session, keys, rot, join, radio, table, got, calm, trust, budgets>>
    BY <1>5 DEF Leave
  <2>4. QED
    BY <1>a, <1>b, <2>1, <2>2, <2>3 DEF radio, trust, budgets
<1>6. ASSUME NEW n \in Node, Forget(n)  PROVE Typed'
  <2>1. table' \in [Slot -> Node \cup {None}]
    <3>1. PICK i \in Slot : table' = [table EXCEPT ![i] = None]
      BY <1>6 DEF Forget
    <3>2. QED
      BY <1>b, <3>1
  <2>2. UNCHANGED <<session, keys, rot, join, radio, member, key, flash, trail, trust, budgets>>
    BY <1>6 DEF Forget
  <2>3. QED
    BY <1>a, <1>b, <2>1, <2>2 DEF radio, trail, trust, budgets
<1>7. ASSUME NEW s \in Scanner, Restart(s)  PROVE Typed'
  <2>1. key' \in [Scanner -> Key \cup {BuiltIn}]
    BY <1>7, <1>b DEF Restart
  <2>2. UNCHANGED <<session, keys, rot, join, radio, table, member, flash, trail, trust, budgets>>
    BY <1>7 DEF Restart
  <2>3. QED
    BY <1>a, <1>b, <2>1, <2>2 DEF radio, trail, trust, budgets
<1>8. QED
  BY <1>1, <1>2, <1>3, <1>4, <1>5, <1>6, <1>7 DEF JoinStep

\* A restart of the gateway keeps the types (bmt_ota_key_init).
LEMMA RestartTypes ==
  ASSUME Typed, GatewayRestart
  PROVE  Typed'
<1> USE Constants
<1>0. /\ TypeOK /\ Bounded /\ made \in GatewayKey /\ made \in Nat /\ mishaps \in 0..MaxMishap
      /\ mishaps \in Nat /\ made <= MaxKey + mishaps /\ nvs \in Key
      /\ id \in Key /\ clean \in BOOLEAN
  <2>1. TypeOK /\ Bounded
    BY DEF Typed
  <2>2. made \in GatewayKey /\ mishaps \in 0..MaxMishap /\ made <= MaxKey + mishaps
    BY <2>1, TypeOKAgain DEF Bounded
  <2>3. QED
    BY <2>1, <2>2, TypeOKAgain
<1>1. mishaps' = mishaps + 1 /\ mishaps' \in 0..MaxMishap
  BY <1>0 DEF GatewayRestart, Mishap
<1>2. /\ id' \in Key /\ nvs' \in Key /\ made' \in GatewayKey /\ made' <= MaxKey + mishaps'
  <2>1. CASE nvs # None
    BY <1>0, <1>1, <2>1 DEF GatewayRestart, Key
  <2>2. CASE nvs = None
    <3>1. made' = made + 1 /\ id' = made + 1 /\ nvs' \in {made + 1, None}
      BY <2>2 DEF GatewayRestart
    <3>2. made + 1 \in GatewayKey
      BY <1>0, <1>1 DEF GatewayKey
    <3>3. QED
      BY <1>0, <1>1, <3>1, <3>2 DEF Key
  <2>3. QED
    BY <2>1, <2>2
<1>3. /\ task' \in [Task -> TaskState] /\ caller' \in [Caller -> Target \cup {None}]
      /\ rot' \in RotState /\ call' \in [Publisher -> Node \cup {None}]
      /\ \A t \in Task : task'[t].pc = "none"
      /\ rot'.pc = "idle"
  BY DEF GatewayRestart, NoTask, NoRotation, TaskState, TaskPc, RotState, Target, Key
<1>4. running' \in BOOLEAN /\ calm' \in BOOLEAN /\ sound' \in BOOLEAN /\ clean' \in BOOLEAN
  BY <1>0, Zenon DEF GatewayRestart
<1>5. /\ join' = None /\ pub' = None /\ raw' = id' /\ aims' = {} /\ got' = {} /\ arg' = None
      /\ UNCHANGED <<nodes, joins>>
  BY DEF GatewayRestart
<1>6. TypeOK'
  BY <1>0, <1>1, <1>2, <1>3, <1>4, <1>5 DEF TypeOK, TaskState, TaskPc, RotState, Key, nodes
<1>7. Bounded'
  BY <1>2, <1>3 DEF Bounded
<1>8. QED
  BY <1>6, <1>7 DEF Typed

\* In the first state the types hold (bmt_ota_key_init after a first start).
LEMMA InitTypes == Init => Typed
<1> SUFFICES ASSUME Init  PROVE Typed
  OBVIOUS
<1> USE Constants
<1>1. /\ task \in [Task -> TaskState] /\ caller \in [Caller -> Target \cup {None}]
      /\ rot \in RotState /\ call \in [Publisher -> Node \cup {None}]
      /\ \A t \in Task : task[t].pc = "none"
      /\ rot.pc = "idle"
  BY DEF Init, NoTask, NoRotation, TaskState, TaskPc, RotState, Target, Key
<1>2. running \in BOOLEAN /\ calm \in BOOLEAN /\ sound \in BOOLEAN /\ clean \in BOOLEAN
  BY Zenon DEF Init
<1>3. TypeOK
  BY <1>1, <1>2 DEF Init, TypeOK, TaskState, TaskPc, RotState, Key
<1>4. Bounded
  BY <1>1 DEF Init, Bounded
<1>5. QED
  BY <1>3, <1>4 DEF Typed

\* Every step keeps the types.
LEMMA TypesStep ==
  ASSUME Typed, Session, [Next]_vars
  PROVE  Typed'
<1>1. CASE UNCHANGED vars
  <2>1. TypeOK'
    BY <1>1 DEF Typed, TypeOK, vars, session, keys, radio, nodes, trail, trust, budgets
  <2>2. Bounded'
    BY <1>1 DEF Typed, Bounded, vars, session, keys, budgets
  <2>3. QED
    BY <2>1, <2>2 DEF Typed
<1>2. ASSUME NEW c \in Caller, (\E what \in Target : Claim(c, what)) \/ Launch(c) \/ LaunchFails(c)
      PROVE  Typed'
  BY <1>2, CallerTypes, CampaignFrame, CampaignTyped
<1>3. ASSUME NEW t \in Task, TaskStep(t) \/ \E s \in Scanner : Hear(t, s)
      PROVE  Typed'
  BY <1>3, TaskTypes, CampaignFrame, CampaignTyped
<1>4. QED
  BY <1>1, <1>2, <1>3, RotationTypes, NodeTypes, RestartTypes DEF Next
-----------------------------------------------------------------------------
(* One campaign at a time. *)

\* A task goes on with its campaign.
Proceeds(t) ==
  /\ Alive(t) /\ task'[t].pc \notin {"none", "begin"}
  /\ task'[t].asked = task[t].asked /\ task'[t].type = task'[t].asked
  /\ \A u \in Task \ {t} : task'[u] = task[u]
  /\ UNCHANGED <<running, caller>>

\* Until it ends, a task goes on with the campaign it was started for (distribute_task).
LEMMA TaskProceeds ==
  ASSUME Typed, Session, NEW t \in Task, TaskStep(t) \/ \E s \in Scanner : Hear(t, s)
  PROVE  End(t) \/ Proceeds(t)
<1>0. task \in [Task -> TaskState] /\ task[t] \in TaskState
  BY TypeOKAgain DEF Typed
<1>a. task[t].pc \notin {"none", "begin"} => task[t].type = task[t].asked
  BY DEF Session
<1>1. CASE Begin(t)
  <2>1. PICK l \in {"end", "sign", "visit"} :
          task' = [task EXCEPT ![t] = [task[t] EXCEPT !.type = arg, !.pc = l]]
    BY <1>1 DEF Begin
  <2>2. At(t, "begin") /\ UNCHANGED <<running, caller>>
    BY <1>1 DEF Begin
  <2>3. arg = task[t].asked
    BY <2>2 DEF Session
  <2>4. QED
    BY <1>0, <2>1, <2>2, <2>3 DEF Proceeds, Alive, At, TaskState
<1>2. CASE Sign(t) \/ Advertise(t) \/ CannotAdvertise(t)
  <2>1. \E l \in {"advertise", "beacon", "visit"} : \E k :
          task' = [task EXCEPT ![t] = [task[t] EXCEPT !.pc = l, !.mac = k]]
    BY <1>2 DEF Sign, Advertise, CannotAdvertise
  <2>2. task[t].pc \in {"sign", "advertise"} /\ UNCHANGED <<running, caller>>
    BY <1>2 DEF Sign, Advertise, CannotAdvertise, At
  <2>3. QED
    BY <1>0, <1>a, <2>1, <2>2 DEF Proceeds, Alive, TaskState
<1>3. ASSUME NEW s \in Scanner, Hear(t, s)  PROVE Proceeds(t)
  BY <1>0, <1>3, <1>a DEF Hear, Proceeds, Alive, At, session
<1>4. CASE BeaconOff(t)
  <2>1. task' = [task EXCEPT ![t] = [task[t] EXCEPT !.pc = "end", !.mac = None]]
    BY <1>4 DEF BeaconOff
  <2>2. task[t].pc = "beacon" /\ UNCHANGED <<running, caller>>
    BY <1>4 DEF BeaconOff, At
  <2>3. QED
    BY <1>0, <1>a, <2>1, <2>2 DEF Proceeds, Alive, TaskState
<1>5. CASE Visit(t)
  <2>1. \/ task' = [task EXCEPT ![t].pc = "end"]
        \/ task' = [task EXCEPT ![t] = [task[t] EXCEPT !.pc = "trigger", !.left = Triggers]]
        \/ task' = [task EXCEPT ![t].at = task[t].at + 1]
    BY <1>5 DEF Visit, Goto
  <2>2. task[t].pc = "visit" /\ UNCHANGED <<running, caller>>
    BY <1>5 DEF Visit, At
  <2>3. QED
    BY <1>0, <1>a, <2>1, <2>2 DEF Proceeds, Alive, TaskState
<1>6. CASE Trigger(t)
  <2>1. \/ task' = [task EXCEPT ![t].left = task[t].left - 1]
        \/ task' = [task EXCEPT ![t].pc = "send"]
    BY <1>6 DEF Trigger, Goto
  <2>2. task[t].pc = "trigger" /\ UNCHANGED <<running, caller>>
    BY <1>6 DEF Trigger, At
  <2>3. QED
    BY <1>0, <1>a, <2>1, <2>2 DEF Proceeds, Alive, TaskState
<1>7. CASE SendTrigger(t)
  <2>1. task' = [task EXCEPT ![t] = [task[t] EXCEPT !.pc = "trigger", !.left = task[t].left - 1]]
    BY <1>7 DEF SendTrigger
  <2>2. task[t].pc = "send" /\ UNCHANGED <<running, caller>>
    BY <1>7 DEF SendTrigger, At
  <2>3. QED
    BY <1>0, <1>a, <2>1, <2>2 DEF Proceeds, Alive, TaskState
<1>8. CASE NextNode(t)
  <2>1. task' = [task EXCEPT ![t] = [task[t] EXCEPT !.pc = "visit", !.at = task[t].at + 1]]
    BY <1>8 DEF NextNode
  <2>2. task[t].pc = "trigger" /\ UNCHANGED <<running, caller>>
    BY <1>8 DEF NextNode, At
  <2>3. QED
    BY <1>0, <1>a, <2>1, <2>2 DEF Proceeds, Alive, TaskState
<1>9. CASE NoUpdate(t)
  <2>1. task' = [task EXCEPT ![t].pc = "end"]
    BY <1>9 DEF NoUpdate, Goto
  <2>2. task[t].pc = "update" /\ UNCHANGED <<running, caller>>
    BY <1>9 DEF NoUpdate, At
  <2>3. QED
    BY <1>0, <1>a, <2>1, <2>2 DEF Proceeds, Alive, TaskState
<1>10. QED
  BY <1>1, <1>2, <1>3, <1>4, <1>5, <1>6, <1>7, <1>8, <1>9 DEF TaskStep

\* Every step keeps starters and tasks apart (bmt_ota_distribute, bmt_ota_self_update).
LEMMA SessionStep ==
  ASSUME Typed, Session, [Next]_vars
  PROVE  Session'
<1>0. /\ task \in [Task -> TaskState] /\ caller \in [Caller -> Target \cup {None}]
      /\ running \in BOOLEAN
  BY TypeOKAgain DEF Typed
<1>1. CASE UNCHANGED <<running, caller, task, arg>>
  BY <1>1 DEF Session, Alive, At
<1>2. ASSUME NEW c \in Caller, NEW what \in Target, Claim(c, what)  PROVE Session'
  <2>1. /\ ~running /\ running' = TRUE /\ UNCHANGED <<task, arg>>
        /\ caller' = [caller EXCEPT ![c] = what]
    BY <1>2 DEF Claim
  <2>2. /\ \A d \in Caller : caller[d] = None
        /\ \A t \in Task : ~Alive(t)
    BY <2>1 DEF Session
  <2>3. \A d \in Caller : caller'[d] # None <=> d = c
    BY <1>0, <2>1, <2>2, Constants
  <2>4. QED
    BY <2>1, <2>2, <2>3 DEF Session, Alive, At
<1>3. ASSUME NEW c \in Caller, Launch(c)  PROVE Session'
  <2>1. /\ caller[c] \in Target /\ UNCHANGED running
        /\ caller' = [caller EXCEPT ![c] = None]
    BY <1>0, <1>3 DEF Launch
  <2>2. running /\ \A u \in Task : ~Alive(u)
    BY <1>3 DEF Launch, Session
  <2>3. \A d \in Caller : caller'[d] = None
    BY <1>0, <1>3, <2>1 DEF Launch, Session
  <2> DEFINE l == IF caller[c] = "gateway" THEN "update" ELSE "begin"
             r == [NoTask EXCEPT !.pc = l, !.asked = caller[c]]
  <2>4. PICK t \in Task : task' = [task EXCEPT ![t] = r]
    <3>1. \E u \in Task : ~Alive(u)
      BY <2>2 DEF Task
    <3>2. QED
      BY <1>3, <3>1 DEF Launch
  <2>5. r.pc = l /\ r.asked = caller[c] /\ r.type = "gateway"
    BY DEF NoTask
  <2>6. (l = "update" /\ caller[c] = "gateway") \/ (l = "begin" /\ arg' = caller[c])
    BY <1>3 DEF Launch
  <2> HIDE DEF l, r
  <2>7. task'[t] = r /\ \A u \in Task \ {t} : task'[u].pc = "none"
    BY <1>0, <2>2, <2>4 DEF Alive
  <2>8. QED
    BY <2>1, <2>2, <2>3, <2>5, <2>6, <2>7 DEF Session, Alive, At
<1>4. ASSUME NEW c \in Caller, LaunchFails(c)  PROVE Session'
  <2>1. /\ caller[c] # None /\ ~running' /\ caller' = [caller EXCEPT ![c] = None]
        /\ UNCHANGED <<task, arg>>
    BY <1>4 DEF LaunchFails
  <2>2. (\A u \in Task : ~Alive(u)) /\ \A d \in Caller : caller'[d] = None
    BY <1>0, <2>1 DEF Session
  <2>3. QED
    BY <2>1, <2>2 DEF Session, Alive, At
<1>5. ASSUME NEW t \in Task, TaskStep(t) \/ \E s \in Scanner : Hear(t, s)  PROVE Session'
  <2>1. CASE End(t)
    <3>1. task' = [task EXCEPT ![t] = NoTask] /\ ~running' /\ UNCHANGED <<arg, caller>> /\ Alive(t)
      BY <2>1 DEF End, At, Alive
    <3>2. \A u \in Task : task'[u].pc = "none"
      BY <1>0, <3>1 DEF Session, Alive, NoTask
    <3>3. \A d \in Caller : caller'[d] = None
      BY <3>1 DEF Session
    <3>4. QED
      BY <3>1, <3>2, <3>3 DEF Session, Alive, At
  <2>2. CASE Proceeds(t)
    <3>1. \A u \in Task : Alive(u) <=> u = t
      BY <2>2 DEF Proceeds, Session
    <3>2. \A u \in Task : (task'[u].pc # "none" <=> u = t) /\ task'[u].pc # "begin"
      BY <2>2, <3>1 DEF Proceeds, Alive
    <3>3. running' /\ \A d \in Caller : caller'[d] = None
      BY <2>2, <3>1 DEF Proceeds, Session
    <3>4. QED
      BY <2>2, <3>2, <3>3 DEF Session, Alive, At, Proceeds
  <2>3. QED
    BY <1>5, <2>1, <2>2, TaskProceeds
<1>6. CASE GatewayRestart
  BY <1>6 DEF GatewayRestart, Session, Alive, At, NoTask
<1>7. CASE Rotate \/ RotateFails \/ RotationStep
  BY <1>1, <1>7 DEF Rotate, RotateFails, RotationStep, CopyKey, Persist, PushSkip, Push, PushSend,
    Rotated, session
<1>8. CASE JoinStep \/ \E n \in Node : Configure(n) \/ Leave(n) \/ Forget(n)
  BY <1>1, <1>8 DEF JoinStep, JoinPush, JoinSkip, JoinSend, Configure, Leave, Forget, session
<1>9. CASE \E s \in Scanner : Restart(s)
  BY <1>1, <1>9 DEF Restart, session
<1>10. CASE UNCHANGED vars
  BY <1>1, <1>10 DEF vars, session
<1>11. QED
  BY <1>2, <1>3, <1>4, <1>5, <1>6, <1>7, <1>8, <1>9, <1>10 DEF Next

\* At the start nobody starts or runs a campaign.
LEMMA InitSession == Init => Session
  BY DEF Init, Session, Alive, At, NoTask

\* Types and Session hold together.
LEMMA Invariants == Spec => [](Typed /\ Session)
  BY InitTypes, InitSession, TypesStep, SessionStep, PTL DEF Spec

\* TypeOK: the types of the gateway's campaign and of the beacon key, with no more keys than there
\* were causes to make one.
THEOREM OtaCampaignTypes == Spec => []TypeOK
<1>1. Typed => TypeOK
  BY DEF Typed
<1>2. QED
  BY <1>1, Invariants, PTL

\* OneCampaign: s_running is up exactly while somebody is starting or running a campaign, of whom
\* there is one, and the task works for the target it was started for.
THEOREM OtaCampaignOneCampaign == Spec => []OneCampaign
<1>1. ASSUME Typed, Session  PROVE OneCampaign
  <2> DEFINE C == {c \in Caller : caller[c] # None}
             T == {t \in Task : Alive(t)}
  <2>1. C = {} \/ \E c \in Caller : C = {c}
    BY <1>1 DEF Session
  <2>2. T = {} \/ \E t \in Task : T = {t}
    BY <1>1 DEF Session
  <2>3. C = {} \/ T = {}
    BY <1>1 DEF Session
  <2> HIDE DEF C, T
  <2>4. Cardinality(C) + Cardinality(T) <= 1
    <3>1. Cardinality({}) = 0 /\ \A x : Cardinality({x}) = 1
      BY FS_EmptySet, FS_Singleton
    <3>2. Cardinality(C) \in {0, 1} /\ Cardinality(T) \in {0, 1}
      BY <2>1, <2>2, <3>1
    <3>3. Cardinality(C) = 0 \/ Cardinality(T) = 0
      BY <2>3, <3>1
    <3>4. QED
      BY <3>2, <3>3
  <2>5. \A t \in Task : task[t].pc \notin {"none", "begin", "update"} =>
          task[t].type = task[t].asked
    BY <1>1 DEF Session
  <2>6. running <=> (\E c \in Caller : caller[c] # None) \/ (\E t \in Task : Alive(t))
    BY <1>1 DEF Session
  <2>7. QED
    BY <2>4, <2>5, <2>6 DEF OneCampaign, C, T
<1>2. QED
  BY <1>1, Invariants, PTL
-----------------------------------------------------------------------------
(* The beacon key. *)

Reached == Scanner \cap Configured \cap member
Has(s) == key[s] = id /\ flash[s] = id

\* The rotation has still to come to s (bmt_ota_key_rotate, the loop over the node table).
Later(s) ==
  \/ rot.pc \in {"copy", "persist"}
  \/ rot.pc = "push" /\ \E i \in Slot : i >= rot.at /\ table[i] = s
  \/ rot.pc = "send" /\ (call["rotation"] = s \/ \E i \in Slot : i > rot.at /\ table[i] = s)

\* As long as nothing has gone wrong every scanner has the key, or the rotation is still to push it,
\* or its own config task is.
KeyInv ==
  /\ clean => sound
  /\ rot.pc = "idle" /\ clean => raw = id /\ nvs = id /\ id # None
  /\ rot.pc # "idle" => id # None
  /\ rot.pc \in {"copy", "persist"} => rot.at = 1
  /\ rot.pc \in {"persist", "push", "send"} => raw = id
  /\ rot.pc \in {"push", "send"} /\ sound => nvs = id
  /\ (IF rot.pc = "idle" THEN clean ELSE sound) =>
       \A s \in Reached : s = join \/ Has(s) \/ Later(s)
  /\ call["join"] \in {None, join}

\* Whoever is configured has a slot (bmt_node_table).
LEMMA SlotOfReached ==
  \A s \in Reached : s \in Scanner /\ s \in member /\ s # None /\ \E i \in Slot : table[i] = s
  BY Constants DEF Reached, Configured, Node

\* What KeyInv is about, unchanged.
LEMMA KeyInvFrame ==
  ASSUME KeyInv, UNCHANGED <<keys, rot, join, nodes, trust>>,
         call'["rotation"] = call["rotation"], call'["join"] = call["join"]
  PROVE  KeyInv'
  BY DEF KeyInv, keys, nodes, trust, Reached, Configured, Has, Later

\* Addressing and sending concern one publisher (bmt_mesh_publish).
LEMMA RadioFrame ==
  ASSUME Typed, NEW p \in Publisher
  PROVE  /\ \A n : Address(p, n) => /\ call' = [call EXCEPT ![p] = n] /\ call[p] = None
                                     /\ call'[p] = n
                                     /\ \A q \in Publisher \ {p} : call'[q] = call[q]
         /\ Sent(p) => call'[p] = None /\ \A q \in Publisher \ {p} : call'[q] = call[q]
<1>1. call \in [Publisher -> Node \cup {None}]
  BY DEF Typed, TypeOK
<1>2. QED
  BY <1>1 DEF Address, Sent

\* A key that went where it was meant to reaches a scanner in the mesh and is stored there; one
\* that did not is remembered (bmt_mesh_send_ota_beacon_key).
LEMMA PushKeyEffect ==
  ASSUME Typed, NEW p \in Publisher, NEW k, PushKey(p, k)
  PROVE  /\ sound' => /\ sound /\ pub = call[p]
                      /\ \A s \in Scanner \ {pub} : key'[s] = key[s] /\ flash'[s] = flash[s]
                      /\ pub \in Scanner \cap member => key'[pub] = k /\ flash'[pub] = k
         /\ clean' => clean /\ (sound => sound')
         /\ \A s \in Scanner : key'[s] \in {key[s], k} /\ flash'[s] \in {flash[s], k}
<1>1. PICK arrives \in BOOLEAN, stored \in BOOLEAN :
        LET heard == arrives /\ pub \in Scanner \cap member IN
        /\ key' = [s \in Scanner |-> IF heard /\ s = pub THEN k ELSE key[s]]
        /\ flash' = [s \in Scanner |-> IF heard /\ stored /\ s = pub THEN k ELSE flash[s]]
        /\ Trust(arrives /\ stored /\ pub = call[p])
  BY DEF PushKey
<1>2. /\ sound' = (sound /\ arrives /\ stored /\ pub = call[p])
      /\ clean' = (clean /\ arrives /\ stored /\ pub = call[p])
  BY <1>1 DEF Trust
<1>3. QED
  BY <1>1, <1>2

\* The rotation keeps KeyInv (bmt_ota_key_rotate).
LEMMA RotationKeys ==
  ASSUME Typed, KeyInv, Rotate \/ RotateFails \/ RotationStep
  PROVE  KeyInv'
<1>0. /\ rot \in RotState /\ table \in [Slot -> Node \cup {None}] /\ made \in Nat
      /\ rot.at \in 1..(Capacity + 1) /\ Capacity \in Nat
      /\ call \in [Publisher -> Node \cup {None}]
  <2>1. rot \in RotState /\ made \in GatewayKey
    BY TypeOKAgain DEF Typed
  <2>2. QED
    BY <2>1, Constants, TypeOKAgain DEF Typed, RotState
<1>1. CASE RotateFails
  BY <1>1, KeyInvFrame DEF RotateFails, KeyInv, radio, nodes, trust, Reached, Configured, Has, Later
<1>2. CASE Rotate
  <2>1. /\ id' = made + 1 /\ id' # None /\ rot'.pc = "copy" /\ rot'.at = 1 /\ sound'
        /\ UNCHANGED <<join, call, clean>>
    <3>1. made + 1 # None
      BY <1>0, Constants
    <3>2. QED
      BY <1>2, <3>1 DEF Rotate, NoRotation, radio
  <2>2. QED
    BY <2>1 DEF KeyInv, Later
<1>3. CASE CopyKey
  <2>1. /\ rot.pc = "copy" /\ rot'.pc = "persist" /\ rot'.at = 1 /\ raw' = id
        /\ UNCHANGED <<id, join, call, sound, clean>>
    BY <1>3 DEF CopyKey, NoRotation, radio, trust
  <2>2. QED
    BY <2>1 DEF KeyInv, Later
<1>4. CASE Persist
  <2>1. /\ rot.pc = "persist" /\ rot'.pc = "push" /\ rot'.at = rot.at
        /\ UNCHANGED <<id, raw, join, call, table, member, key, flash>>
    BY <1>0, <1>4 DEF Persist, RotState, radio, nodes
  <2>2. (sound' => sound /\ nvs' = id) /\ (clean' => clean /\ sound')
    <3>1. CASE nvs' = id /\ UNCHANGED <<mishaps, trust>>
      BY <3>1 DEF trust, KeyInv
    <3>2. CASE Trust(FALSE)
      BY <3>2 DEF Trust
    <3>3. QED
      BY <1>4, <3>1, <3>2 DEF Persist
  <2>3. \A s \in Reached' : Later(s)'
    <3>1. Reached' = Reached /\ rot'.at = 1
      BY <2>1 DEF Reached, Configured, KeyInv
    <3>2. \A i \in Slot : i >= 1
      BY <1>0 DEF Slot
    <3>3. QED
      BY <2>1, <3>1, <3>2, SlotOfReached DEF Later
  <2>4. QED
    BY <2>1, <2>2, <2>3 DEF KeyInv
<1>5. CASE PushSkip
  <2>1. /\ rot.pc = "push" /\ rot'.pc = "push" /\ rot'.at = rot.at + 1
        /\ table[rot.at] \notin Scanner
        /\ UNCHANGED <<id, raw, nvs, join, call, table, member, key, flash, sound, clean>>
    BY <1>0, <1>5 DEF PushSkip, RotState, keys, radio, nodes, trust
  <2>2. \A s \in Reached : Later(s) => Later(s)'
    <3>1. ASSUME NEW s \in Reached, NEW i \in Slot, i >= rot.at, table[i] = s
          PROVE  i >= rot.at + 1
      <4>1. i # rot.at
        BY <2>1, <3>1 DEF Reached
      <4>2. i \in Nat /\ rot.at \in Nat
        BY <1>0 DEF Slot
      <4>3. \A x, y \in Nat : x >= y /\ x # y => x >= y + 1
        OBVIOUS
      <4>4. QED
        BY <3>1, <4>1, <4>2, <4>3
    <3>2. QED
      BY <2>1, <3>1 DEF Later
  <2>3. QED
    BY <2>1, <2>2 DEF KeyInv, Reached, Configured, Has
<1>6. CASE Push
  <2>1. /\ rot.pc = "push" /\ rot'.pc = "send" /\ rot'.at = rot.at
        /\ Address("rotation", table[rot.at])
        /\ UNCHANGED <<id, raw, nvs, join, table, member, key, flash, sound, clean>>
    BY <1>0, <1>6 DEF Push, RotState, keys, nodes, trust
  <2>2. call'["rotation"] = table[rot.at] /\ call'["join"] = call["join"]
    BY <2>1, RadioFrame DEF Publisher
  <2>3. \A s \in Reached : Later(s) => Later(s)'
    <3>1. ASSUME NEW s \in Reached, NEW i \in Slot, i >= rot.at, table[i] = s
          PROVE  call'["rotation"] = s \/ i > rot.at
      <4>1. CASE i = rot.at
        BY <2>2, <3>1, <4>1
      <4>2. CASE i # rot.at
        <5>1. i \in Nat /\ rot.at \in Nat
          BY <1>0 DEF Slot
        <5>2. \A x, y \in Nat : x >= y /\ x # y => x > y
          OBVIOUS
        <5>3. QED
          BY <3>1, <4>2, <5>1, <5>2
      <4>3. QED
        BY <4>1, <4>2
    <3>2. QED
      BY <2>1, <3>1 DEF Later
  <2>4. QED
    BY <2>1, <2>2, <2>3 DEF KeyInv, Reached, Configured, Has
<1>7. CASE PushSend
  <2>1. /\ rot.pc = "send" /\ rot'.pc = "push" /\ rot'.at = rot.at + 1
        /\ UNCHANGED <<id, raw, nvs, join, table, member>>
    <3>1. rot' = [rot EXCEPT !.pc = "push", !.at = rot.at + 1]
      BY <1>7 DEF PushSend
    <3>2. QED
      BY <1>0, <1>7, <3>1 DEF PushSend, RotState, keys
  <2>2. PushKey("rotation", raw)
    BY <1>7 DEF PushSend
  <2>3. call'["join"] = call["join"]
    BY <2>2, RadioFrame DEF PushKey, Publisher
  <2>4. raw = id /\ (clean => sound)
    BY <2>1 DEF KeyInv
  <2>5. clean' => sound'
    BY <2>2, <2>4, PushKeyEffect DEF Publisher
  <2>6. sound' => \A s \in Reached' : s = join' \/ Has(s)' \/ Later(s)'
    <3>1. SUFFICES ASSUME sound', NEW s \in Reached  PROVE s = join \/ Has(s)' \/ Later(s)'
      BY <2>1 DEF Reached, Configured
    <3>2. /\ sound /\ pub = call["rotation"]
          /\ s # pub => key'[s] = key[s] /\ flash'[s] = flash[s]
          /\ s = pub => key'[s] = id /\ flash'[s] = id
      BY <2>2, <2>4, <3>1, PushKeyEffect, SlotOfReached DEF Publisher
    <3>3. s = join \/ Has(s) \/ Later(s)
      BY <2>1, <3>2 DEF KeyInv
    <3>4. CASE s = pub
      BY <2>1, <3>2, <3>4 DEF Has
    <3>5. CASE s # pub /\ Has(s)
      BY <2>1, <3>2, <3>5 DEF Has
    <3>6. CASE s # pub /\ Later(s)
      <4>1. PICK i \in Slot : i > rot.at /\ table[i] = s
        BY <2>1, <3>2, <3>6 DEF Later
      <4>2. i >= rot.at + 1
        <5>1. i \in Nat /\ rot.at \in Nat
          BY <1>0 DEF Slot
        <5>2. \A x, y \in Nat : x > y => x >= y + 1
          OBVIOUS
        <5>3. QED
          BY <4>1, <5>1, <5>2
      <4>3. QED
        BY <2>1, <4>1, <4>2 DEF Later
    <3>7. QED
      BY <3>3, <3>4, <3>5, <3>6
  <2>7. sound' => nvs' = id'
    BY <2>1, <2>2, PushKeyEffect DEF KeyInv, Publisher
  <2>8. QED
    BY <2>1, <2>3, <2>4, <2>5, <2>6, <2>7 DEF KeyInv
<1>8. CASE Rotated
  <2>1. /\ rot.pc = "push" /\ rot.at > Capacity /\ rot'.pc = "idle"
        /\ sound' /\ clean' = (clean \/ sound)
        /\ UNCHANGED <<id, raw, nvs, join, call, table, member, key, flash>>
    BY <1>8 DEF Rotated, NoRotation, keys, radio, nodes
  <2>2. clean' => sound
    BY <2>1 DEF KeyInv
  <2>3. \A i \in Slot : ~(i >= rot.at)
    BY <1>0, <2>1 DEF Slot
  <2>4. \A s : ~Later(s)
    BY <2>1, <2>3 DEF Later
  <2>5. clean' => \A s \in Reached' : s = join' \/ Has(s)'
    BY <2>1, <2>2, <2>4 DEF KeyInv, Reached, Configured, Has
  <2>6. QED
    BY <2>1, <2>2, <2>5 DEF KeyInv
<1>9. QED
  BY <1>1, <1>2, <1>3, <1>4, <1>5, <1>6, <1>7, <1>8 DEF RotationStep

\* A scanner's config task keeps KeyInv (bmt_ota_push_beacon_key_to_node).
LEMMA JoinKeys ==
  ASSUME Typed, KeyInv, JoinStep
  PROVE  KeyInv'
<1>1. CASE JoinPush
  <2>1. /\ call["join"] = None /\ Address("join", join)
        /\ UNCHANGED <<keys, rot, join, nodes, trust>>
    BY <1>1 DEF JoinPush, Address
  <2>2. call'["join"] = join /\ call'["rotation"] = call["rotation"]
    BY <2>1, RadioFrame DEF Publisher
  <2>3. QED
    BY <2>1, <2>2 DEF KeyInv, keys, nodes, trust, Reached, Configured, Has, Later
<1>2. CASE JoinSkip
  <2>1. /\ call["join"] = None /\ id = None /\ UNCHANGED <<keys, rot, call, nodes, trust>>
    BY <1>2 DEF JoinSkip, radio
  <2>2. rot.pc = "idle" /\ ~clean
    BY <2>1 DEF KeyInv
  <2>3. QED
    BY <2>1, <2>2 DEF KeyInv, keys, trust
<1>3. CASE JoinSend
  <2>1. PICK k \in {raw} \cup (IF rot.pc = "copy" THEN {None} ELSE {}) : PushKey("join", k)
    BY <1>3 DEF JoinSend
  <2>2. /\ call["join"] # None /\ join' = None
        /\ UNCHANGED <<id, raw, nvs, rot, table, member>>
    BY <1>3 DEF JoinSend, keys
  <2>3. call["join"] = join
    BY <2>2 DEF KeyInv
  <2>4. call'["join"] = None /\ call'["rotation"] = call["rotation"]
    BY <2>1, RadioFrame DEF PushKey, Publisher
  <2>5. /\ sound' => /\ sound /\ pub = join
                     /\ \A s \in Scanner \ {pub} : key'[s] = key[s] /\ flash'[s] = flash[s]
                     /\ pub \in Scanner \cap member => key'[pub] = k /\ flash'[pub] = k
        /\ clean' => clean /\ (sound => sound')
    BY <2>1, <2>3, PushKeyEffect DEF Publisher
  <2>6. (clean => sound) /\ (clean' => sound')
    BY <2>5 DEF KeyInv
  <2>7. (IF rot'.pc = "idle" THEN clean' ELSE sound') =>
          \A s \in Reached' : s = join' \/ Has(s)' \/ Later(s)'
    <3>1. SUFFICES ASSUME IF rot.pc = "idle" THEN clean' ELSE sound', NEW s \in Reached
                   PROVE  Has(s)' \/ Later(s)'
      BY <2>2 DEF Reached, Configured
    <3>2. sound' /\ (IF rot.pc = "idle" THEN clean ELSE sound)
      BY <2>5, <2>6, <3>1
    <3>3. s = join \/ Has(s) \/ Later(s)
      BY <3>2 DEF KeyInv
    <3>4. CASE Later(s)
      BY <2>2, <2>4, <3>4 DEF Later
    <3>5. CASE s # join /\ Has(s)
      BY <2>2, <2>5, <3>2, <3>5, SlotOfReached DEF Has
    <3>6. CASE s = join /\ rot.pc = "copy"
      BY <2>2, <3>6 DEF Later
    <3>7. CASE s = join /\ rot.pc # "copy"
      <4>1. k = raw
        BY <2>1, <3>7
      <4>2. rot.pc \in {"idle", "persist", "push", "send"}
        BY <3>7, TypeOKAgain DEF Typed, RotState
      <4>3. raw = id
        BY <3>2, <4>2 DEF KeyInv
      <4>4. QED
        BY <2>2, <2>5, <3>2, <3>7, <4>1, <4>3, SlotOfReached DEF Has
    <3>8. QED
      BY <3>3, <3>4, <3>5, <3>6, <3>7
  <2>8. QED
    BY <2>2, <2>4, <2>5, <2>6, <2>7 DEF KeyInv
<1>4. QED
  BY <1>1, <1>2, <1>3 DEF JoinStep

\* Nodes that come, go and restart keep KeyInv (config_task, bmt_auth_init).
LEMMA NodeKeys ==
  ASSUME Typed, KeyInv,
         \/ \E n \in Node : Configure(n) \/ Leave(n) \/ Forget(n)
         \/ \E s \in Scanner : Restart(s)
  PROVE  KeyInv'
<1>0. /\ table \in [Slot -> Node \cup {None}]
      /\ key \in [Scanner -> Key \cup {BuiltIn}] /\ flash \in [Scanner -> Key \cup {BuiltIn}]
  BY TypeOKAgain DEF Typed
<1>1. ASSUME NEW n \in Node, Configure(n)  PROVE KeyInv'
  <2>1. PICK i \in Slot : table[i] = None /\ table' = [table EXCEPT ![i] = n]
    BY <1>1 DEF Configure
  <2>2. /\ join = None /\ member' = member \cup {n} /\ n \notin Configured
        /\ join' = (IF n \in Scanner THEN n ELSE None)
        /\ UNCHANGED <<keys, rot, call, key, flash, trust>>
    BY <1>1 DEF Configure, radio
  <2>3. \A s \in Reached' : s = join' \/ s \in Reached
    <3>1. SUFFICES ASSUME NEW s \in Reached', s # n  PROVE s \in Reached
      BY <2>2 DEF Reached
    <3>2. s \in Scanner /\ s \in member /\ s # None /\ \E j \in Slot : table'[j] = s
      BY <2>2, <3>1, Constants DEF Reached, Configured, Node
    <3>3. \E j \in Slot : table[j] = s
      BY <1>0, <2>1, <3>1, <3>2
    <3>4. QED
      BY <3>2, <3>3 DEF Reached, Configured
  <2>4. \A s \in Reached : s # join /\ (Has(s) => Has(s)') /\ (Later(s) => Later(s)')
    <3>1. \A s \in Reached, j \in Slot : table[j] = s => table'[j] = s
      BY <1>0, <2>1, SlotOfReached
    <3>2. QED
      BY <2>2, <3>1, SlotOfReached DEF Has, Later, keys
  <2>5. call'["join"] \in {None, join'}
    BY <2>2 DEF KeyInv
  <2>6. QED
    BY <2>2, <2>3, <2>4, <2>5 DEF KeyInv, keys, trust
<1>2. ASSUME NEW n \in Node, Leave(n)  PROVE KeyInv'
  <2>1. /\ member' = member \ {n} /\ UNCHANGED <<keys, rot, join, call, table, trust>>
    BY <1>2 DEF Leave, radio
  <2>2. \A s \in Scanner \ {n} : key'[s] = key[s] /\ flash'[s] = flash[s]
    BY <1>0, <1>2 DEF Leave
  <2>3. \A s \in Reached' : s \in Reached /\ s \in Scanner \ {n}
    BY <2>1 DEF Reached, Configured
  <2>4. QED
    BY <2>1, <2>2, <2>3 DEF KeyInv, keys, trust, Has, Later
<1>3. ASSUME NEW n \in Node, Forget(n)  PROVE KeyInv'
  <2>1. PICK i \in Slot : table[i] = n /\ table' = [table EXCEPT ![i] = None]
    BY <1>3 DEF Forget
  <2>2. n \notin member /\ UNCHANGED <<keys, rot, join, call, member, key, flash, trust>>
    BY <1>3 DEF Forget, radio
  <2>3. \A s \in Reached' : s \in Reached /\ s # n /\ s # None
    <3>1. SUFFICES ASSUME NEW s \in Reached'  PROVE s \in Reached /\ s # n /\ s # None
      OBVIOUS
    <3>2. s \in Scanner /\ s \in member /\ s # None /\ \E j \in Slot : table'[j] = s
      BY <2>2, <3>1, Constants DEF Reached, Configured, Node
    <3>3. \E j \in Slot : table[j] = s
      BY <1>0, <2>1, <3>2
    <3>4. QED
      BY <2>2, <3>2, <3>3 DEF Reached, Configured
  <2>4. \A s \in Reached' : (Has(s) => Has(s)') /\ (Later(s) => Later(s)')
    <3>1. \A s \in Reached', j \in Slot : table[j] = s => table'[j] = s
      BY <1>0, <2>1, <2>3
    <3>2. QED
      BY <2>2, <3>1 DEF Has, Later, keys
  <2>5. QED
    BY <2>2, <2>3, <2>4 DEF KeyInv, keys, trust
<1>4. ASSUME NEW r \in Scanner, Restart(r)  PROVE KeyInv'
  <2>1. UNCHANGED <<keys, rot, join, call, table, member, flash, trust>>
    BY <1>4 DEF Restart, radio
  <2>2. \A s \in Scanner : Has(s) => Has(s)'
    BY <1>0, <1>4, <2>1 DEF Restart, Has, keys
  <2>3. \A s : Later(s) => Later(s)'
    BY <2>1 DEF Later
  <2>4. Reached' = Reached /\ \A s \in Reached : s \in Scanner
    BY <2>1 DEF Reached, Configured
  <2>5. QED
    BY <2>1, <2>2, <2>3, <2>4 DEF KeyInv, keys, trust
<1>5. QED
  BY <1>1, <1>2, <1>3, <1>4

\* A restart of the gateway keeps KeyInv (bmt_ota_key_init).
LEMMA RestartKeys ==
  ASSUME Typed, KeyInv, GatewayRestart
  PROVE  KeyInv'
<1>1. /\ rot'.pc = "idle" /\ join' = None /\ call'["join"] = None /\ sound' /\ raw' = id'
      /\ clean' = (clean /\ Quiet /\ id' = id) /\ UNCHANGED nodes
  BY DEF GatewayRestart, NoRotation, Publisher
<1>2. ASSUME clean'
      PROVE  id' # None /\ nvs' = id' /\ \A s \in Reached' : Has(s)'
  <2>1. clean /\ rot.pc = "idle" /\ join = None /\ id' = id
    BY <1>1, <1>2 DEF Quiet
  <2>2. nvs = id /\ id # None /\ \A s \in Reached : s = join \/ Has(s)
    BY <2>1 DEF KeyInv, Later
  <2>3. nvs' = nvs
    BY <2>2 DEF GatewayRestart
  <2>4. Reached' = Reached /\ \A s \in Reached : Has(s)
    BY <1>1, <2>1, <2>2, SlotOfReached DEF nodes, Reached, Configured
  <2>5. QED
    BY <1>1, <2>1, <2>2, <2>3, <2>4 DEF nodes, Has
<1>3. QED
  BY <1>1, <1>2 DEF KeyInv

\* Every step keeps KeyInv.
LEMMA KeyInvStep ==
  ASSUME Typed, KeyInv, [Next]_vars
  PROVE  KeyInv'
<1>1. CASE CampaignLeaves
  BY <1>1, KeyInvFrame DEF CampaignLeaves
<1>2. CASE UNCHANGED vars
  BY <1>2, KeyInvFrame DEF vars, radio
<1>3. CASE \/ \E c \in Caller : (\E what \in Target : Claim(c, what)) \/ Launch(c) \/ LaunchFails(c)
           \/ \E t \in Task : TaskStep(t) \/ \E s \in Scanner : Hear(t, s)
  BY <1>1, <1>3, CampaignFrame
<1>4. QED
  BY <1>2, <1>3, RotationKeys, JoinKeys, NodeKeys, RestartKeys DEF Next

\* At the start nobody is configured (bmt_ota_key_init made a key).
LEMMA InitKeys == Init => KeyInv
<1> SUFFICES ASSUME Init  PROVE KeyInv
  OBVIOUS
<1>1. /\ rot.pc = "idle" /\ id = 1 /\ raw = 1 /\ (clean => nvs = 1) /\ sound
      /\ call["join"] = None /\ member = {}
  BY DEF Init, NoRotation, Publisher
<1>2. 1 # None /\ Reached = {}
  BY <1>1, Constants DEF Reached
<1>3. QED
  BY <1>1, <1>2 DEF KeyInv

\* KeyInv is an invariant.
LEMMA KeyInvariant == Spec => []KeyInv
  BY Invariants, InitKeys, KeyInvStep, PTL DEF Spec

\* KeysAgree: between rotations, and with nothing gone wrong since the last complete one, the
\* gateway, its NVS and every configured scanner have the same key.
THEOREM OtaCampaignKeysAgree == Spec => []KeysAgree
<1>1. ASSUME KeyInv  PROVE KeysAgree
  <2>1. SUFFICES ASSUME clean, Quiet
                 PROVE  /\ raw = id /\ nvs = id
                        /\ \A s \in Reached : key[s] = id /\ flash[s] = id
    BY DEF KeysAgree, Reached
  <2>2. rot.pc = "idle" /\ join = None
    BY <2>1 DEF Quiet
  <2>3. QED
    BY <1>1, <2>1, <2>2, SlotOfReached DEF KeyInv, Has, Later
<1>2. QED
  BY <1>1, KeyInvariant, PTL
-----------------------------------------------------------------------------
(* A calm campaign reaches everybody. *)

\* A task begins with the first slot (distribute_task).
FromTheFirst == \A t \in Task : task[t].pc \in {"begin", "sign", "advertise", "beacon"} =>
                                   task[t].at = 1

\* Around a calm campaign: no rotation, and whom it is for is configured and has the key.
World ==
  /\ rot.pc = "idle" /\ raw = id /\ id # None
  /\ aims \subseteq member
  /\ \A n \in aims : \E i \in Slot : table[i] = n
  /\ \A s \in aims \cap Scanner : Has(s)

Ahead(t, n) == \E i \in Slot : i > task[t].at /\ table[i] = n

\* Whoever has not been triggered is still ahead of the task.
Covers(t) ==
  /\ task[t].pc \notin {"none", "begin", "update"}
  /\ task[t].pc \in {"advertise", "beacon"} => task[t].mac = id
  /\ task[t].pc \in {"sign", "advertise", "beacon"} => aims \subseteq Scanner
  /\ aims \subseteq OfType(task[t].type)
  /\ task[t].pc = "visit" =>
       \A n \in aims \ got : \E i \in Slot : i >= task[t].at /\ table[i] = n
  /\ task[t].pc = "trigger" =>
       \A n \in aims \ got : \/ Ahead(t, n)
                             \/ table[task[t].at] = n /\ task[t].left = Triggers
  /\ task[t].pc = "send" => \A n \in aims \ got : Ahead(t, n) \/ call["campaign"] = n
  /\ task[t].pc = "end" => aims \subseteq got

CalmInv == FromTheFirst /\ (calm => World /\ \E t \in Task : Covers(t))

\* The task of a calm campaign is the one that runs.
LEMMA CalmTask ==
  ASSUME Session, CalmInv, calm, NEW t \in Task, Alive(t)
  PROVE  Covers(t) /\ World
<1>1. PICK u \in Task : Covers(u)
  BY DEF CalmInv
<1>2. u = t
  BY <1>1 DEF Session, Alive, Covers
<1>3. QED
  BY <1>1, <1>2 DEF CalmInv

\* What happens to the key during a calm campaign leaves it calm (bmt_ota_key_rotate,
\* bmt_ota_push_beacon_key_to_node, bmt_auth_init).
LEMMA CalmKeys ==
  ASSUME Typed, CalmInv,
         Rotate \/ RotateFails \/ RotationStep \/ JoinStep \/ \E r \in Scanner : Restart(r)
  PROVE  CalmInv'
<1>0. /\ key \in [Scanner -> Key \cup {BuiltIn}] /\ calm \in BOOLEAN
  BY TypeOKAgain DEF Typed
<1>a. UNCHANGED <<task, aims, got, table, member>>
  BY DEF Rotate, RotateFails, RotationStep, CopyKey, Persist, PushSkip, Push, PushSend, Rotated,
    JoinStep, JoinPush, JoinSkip, JoinSend, Restart, session, nodes, trail
<1>b. calm' => calm /\ ~Rotate
  BY DEF Rotate, RotateFails, RotationStep, CopyKey, Persist, PushSkip, Push, PushSend, Rotated,
    JoinStep, JoinPush, JoinSkip, JoinSend, Restart, PushKey, trail
<1>1. SUFFICES ASSUME calm, ~Rotate  PROVE World' /\ \E t \in Task : Covers(t)'
  BY <1>a, <1>b DEF CalmInv, FromTheFirst
<1>2. World /\ \E t \in Task : Covers(t)
  BY <1>1 DEF CalmInv
<1>3. ~RotationStep
  BY <1>2 DEF World, RotationStep, CopyKey, Persist, PushSkip, Push, PushSend, Rotated
<1>4. UNCHANGED <<rot, id, raw>> /\ call'["campaign"] = call["campaign"]
  <2>1. CASE RotateFails \/ \E r \in Scanner : Restart(r)
    BY <2>1 DEF RotateFails, Restart, keys, radio
  <2>2. CASE JoinStep
    BY <2>2, RadioFrame
    DEF JoinStep, JoinPush, JoinSkip, JoinSend, PushKey, keys, radio, Publisher
  <2>3. QED
    BY <1>1, <1>3, <2>1, <2>2
<1>5. \A s \in Scanner : Has(s) => Has(s)'
  <2>1. CASE RotateFails \/ JoinPush \/ JoinSkip
    BY <1>4, <2>1 DEF RotateFails, JoinPush, JoinSkip, nodes, Has
  <2>2. CASE JoinSend
    <3>1. PushKey("join", raw)
      BY <1>2, <2>2 DEF JoinSend, World
    <3>2. QED
      BY <1>2, <1>4, <3>1, PushKeyEffect DEF World, Has, Publisher
  <2>3. ASSUME NEW r \in Scanner, Restart(r)  PROVE \A s \in Scanner : Has(s) => Has(s)'
    BY <1>0, <1>4, <2>3 DEF Restart, Has
  <2>4. QED
    BY <1>1, <1>3, <2>1, <2>2, <2>3 DEF JoinStep
<1>6. World'
  BY <1>2, <1>4, <1>5, <1>a DEF World
<1>7. \A t \in Task : Covers(t) => Covers(t)'
  BY <1>4, <1>a DEF Covers, Ahead
<1>8. QED
  BY <1>2, <1>6, <1>7

\* Whoever leaves is no longer aimed at; whoever comes takes nobody's slot (config_task).
LEMMA CalmNodes ==
  ASSUME Typed, CalmInv, NEW n \in Node, Configure(n) \/ Leave(n) \/ Forget(n)
  PROVE  CalmInv'
<1>0. /\ table \in [Slot -> Node \cup {None}] /\ aims \subseteq Node
      /\ key \in [Scanner -> Key \cup {BuiltIn}] /\ flash \in [Scanner -> Key \cup {BuiltIn}]
  BY TypeOKAgain DEF Typed
<1>a. UNCHANGED <<task, got, calm, rot, keys, call>>
  BY DEF Configure, Leave, Forget, session, radio, trail
<1>1. SUFFICES ASSUME calm  PROVE World' /\ \E t \in Task : Covers(t)'
  BY <1>a DEF CalmInv, FromTheFirst
<1>2. World /\ \E t \in Task : Covers(t)
  BY <1>1 DEF CalmInv
<1>3. /\ aims' \subseteq aims /\ aims' \subseteq member'
      /\ \A s \in aims' \cap Scanner : key'[s] = key[s] /\ flash'[s] = flash[s]
      /\ \A m \in aims', i \in Slot : table[i] = m => table'[i] = m
  <2>1. CASE Configure(n)
    <3>1. PICK i \in Slot : table[i] = None /\ table' = [table EXCEPT ![i] = n]
      BY <2>1 DEF Configure
    <3>2. aims' = aims /\ member \subseteq member' /\ UNCHANGED <<key, flash>>
      BY <2>1 DEF Configure, trail
    <3>3. None \notin aims
      BY <1>0, Constants
    <3>4. QED
      BY <1>0, <1>2, <3>1, <3>2, <3>3 DEF World
  <2>2. CASE Leave(n)
    BY <1>0, <1>2, <2>2 DEF Leave, World
  <2>3. CASE Forget(n)
    <3>1. PICK i \in Slot : table[i] = n /\ table' = [table EXCEPT ![i] = None]
      BY <2>3 DEF Forget
    <3>2. n \notin member /\ UNCHANGED <<aims, member, key, flash>>
      BY <2>3 DEF Forget, trail
    <3>3. n \notin aims
      BY <1>2, <3>2 DEF World
    <3>4. QED
      BY <1>0, <1>2, <3>1, <3>2, <3>3 DEF World
  <2>4. QED
    BY <2>1, <2>2, <2>3
<1>4. World'
  BY <1>2, <1>3, <1>a DEF World, Has, keys
<1>5. ASSUME NEW t \in Task, Covers(t)  PROVE Covers(t)'
  <2>1. \A m \in aims' : Ahead(t, m) => Ahead(t, m)'
    BY <1>3, <1>a DEF Ahead
  <2>2. table'[task[t].at] = table[task[t].at] \/ task[t].pc # "trigger"
           \/ \A m \in aims' : table[task[t].at] = m => table'[task[t].at] = m
    <3>1. CASE task[t].pc = "trigger"
      <4>1. task[t].at \in Slot
        <5>1. task[t] \in TaskState /\ task[t].at <= Capacity
          BY <3>1, TypeOKAgain DEF Typed, Bounded
        <5>2. QED
          BY <5>1, Constants DEF TaskState, Slot
      <4>2. QED
        BY <1>3, <4>1
    <3>2. QED
      BY <3>1
  <2>3. QED
    BY <1>3, <1>5, <1>a, <2>1, <2>2 DEF Covers, keys
<1>6. QED
  BY <1>2, <1>4, <1>5

\* A campaign is not started while another runs, calm or not (bmt_ota_distribute).
LEMMA CalmCallers ==
  ASSUME Typed, Session, CalmInv, NEW c \in Caller,
         (\E what \in Target : Claim(c, what)) \/ Launch(c) \/ LaunchFails(c)
  PROVE  CalmInv'
<1>0. task \in [Task -> TaskState]
  BY TypeOKAgain DEF Typed
<1>1. ~running \/ caller[c] # None
  BY Zenon DEF Claim, Launch, LaunchFails
<1>2. \A t \in Task : ~Alive(t)
  BY <1>1 DEF Session
<1>3. ~calm
  BY <1>2 DEF CalmInv, Covers, Alive
<1>4. ~calm'
  BY <1>3 DEF Claim, Launch, LaunchFails, trail
<1>5. FromTheFirst'
  <2>1. CASE Launch(c)
    <3> DEFINE r == [NoTask EXCEPT
                       !.pc = IF caller[c] = "gateway" THEN "update" ELSE "begin",
                       !.asked = caller[c]]
    <3>1. PICK t : task' = [task EXCEPT ![t] = r]
      BY <2>1 DEF Launch
    <3>2. r.at = 1
      BY DEF NoTask
    <3> HIDE DEF r
    <3>3. QED
      BY <1>0, <3>1, <3>2 DEF CalmInv, FromTheFirst
  <2>2. CASE (\E what \in Target : Claim(c, what)) \/ LaunchFails(c)
    BY <2>2 DEF CalmInv, FromTheFirst, Claim, LaunchFails
  <2>3. QED
    BY <2>1, <2>2
<1>6. QED
  BY <1>4, <1>5 DEF CalmInv

\* The task keeps to the first slot until it visits the nodes (distribute_task).
LEMMA CalmFirst ==
  ASSUME Typed, FromTheFirst, NEW t \in Task, TaskStep(t) \/ \E s \in Scanner : Hear(t, s)
  PROVE  FromTheFirst'
<1>0. task \in [Task -> TaskState] /\ task[t] \in TaskState
  BY TypeOKAgain DEF Typed
<1>1. CASE Begin(t)
  BY <1>0, <1>1 DEF Begin, At, FromTheFirst, TaskState
<1>2. CASE Sign(t)
  BY <1>0, <1>2 DEF Sign, At, FromTheFirst, TaskState
<1>3. CASE Advertise(t)
  <2> DEFINE m == IF task[t].mac \in {id, rot.old} THEN task[t].mac ELSE None
  <2>1. task' = [task EXCEPT ![t] = [task[t] EXCEPT !.pc = "beacon", !.mac = m]]
    BY <1>3 DEF Advertise
  <2>2. At(t, "advertise")
    BY <1>3 DEF Advertise
  <2> HIDE DEF m
  <2>3. QED
    BY <1>0, <2>1, <2>2 DEF At, FromTheFirst, TaskState
<1>4. CASE CannotAdvertise(t) \/ BeaconOff(t) \/ NextNode(t)
  BY <1>0, <1>4 DEF CannotAdvertise, BeaconOff, NextNode, FromTheFirst, TaskState
<1>5. CASE Visit(t)
  BY <1>0, <1>5 DEF Visit, Goto, At, FromTheFirst, TaskState
<1>6. CASE Trigger(t)
  BY <1>0, <1>6 DEF Trigger, Goto, At, FromTheFirst, TaskState
<1>7. CASE SendTrigger(t)
  BY <1>0, <1>7 DEF SendTrigger, FromTheFirst, TaskState
<1>8. CASE End(t)
  BY <1>0, <1>8 DEF End, NoTask, FromTheFirst, TaskState
<1>9. CASE NoUpdate(t)
  BY <1>0, <1>9 DEF NoUpdate, Goto, FromTheFirst, TaskState
<1>10. CASE \E s \in Scanner : Hear(t, s)
  BY <1>10 DEF Hear, session, FromTheFirst
<1>11. QED
  BY <1>1, <1>2, <1>3, <1>4, <1>5, <1>6, <1>7, <1>8, <1>9, <1>10 DEF TaskStep

\* A campaign that begins with the key in order is for configured nodes, all of them still ahead.
LEMMA CalmBegin ==
  ASSUME Typed, Session, KeyInv, FromTheFirst, NEW t \in Task, Begin(t), calm'
  PROVE  World' /\ Covers(t)'
<1>0. /\ task \in [Task -> TaskState] /\ table \in [Slot -> Node \cup {None}]
      /\ task[t] \in TaskState
  BY TypeOKAgain DEF Typed
<1>1. /\ clean /\ rot.pc = "idle" /\ join = None
      /\ UNCHANGED <<keys, rot, nodes>>
  BY DEF Begin, Quiet
<1>2. raw = id /\ id # None
  BY <1>1 DEF KeyInv
<1>3. \A s \in Reached : Has(s)
  BY <1>1, SlotOfReached DEF KeyInv, Later
<1> DEFINE found == Configured \cap OfType(arg)
           r == [task[t] EXCEPT !.type = arg,
                   !.pc = IF found = {} THEN "end" ELSE IF arg = "scanner" THEN "sign"
                          ELSE "visit"]
<1>4. /\ aims' = found \cap member /\ got' = {} /\ task' = [task EXCEPT ![t] = r]
  BY DEF Begin
<1>5. \A n \in aims' : n \in member /\ n \in OfType(arg) /\ \E i \in Slot : table[i] = n
  BY <1>4 DEF Configured
<1>6. \A s \in aims' \cap Scanner : Has(s)
  BY <1>3, <1>4 DEF Reached
<1>7. World'
  BY <1>1, <1>2, <1>5, <1>6 DEF World, Has, keys, nodes
<1>8. task[t].at = 1
  BY DEF Begin, At, FromTheFirst
<1>9. r.pc \in {"end", "sign", "visit"} /\ r.type = arg /\ r.at = 1
  BY <1>0, <1>8 DEF TaskState
<1>10. r.pc = "end" => found = {}
  BY <1>0 DEF TaskState
<1>11. r.pc = "sign" => arg = "scanner"
  BY <1>0 DEF TaskState
<1>12. aims' \subseteq found
  BY <1>4
<1>13. arg = "scanner" => aims' \subseteq Scanner
  BY <1>5 DEF OfType
<1>14. task'[t] = r
  BY <1>0, <1>4
<1> HIDE DEF r
<1>15. \A i \in Slot : i >= 1
  BY DEF Slot
<1>16. Covers(t)'
  BY <1>1, <1>4, <1>5, <1>9, <1>10, <1>11, <1>12, <1>13, <1>14, <1>15 DEF Covers, nodes
<1>17. QED
  BY <1>7, <1>16

\* What a step of a calm campaign after its beginning leaves of its world.
LEMMA CalmWorld ==
  ASSUME World, CampaignLeaves, aims' = aims
  PROVE  World'
  BY DEF World, CampaignLeaves, keys, nodes, Has

\* The steps with the beacon: whoever has the gateway's key and is not triggered hears it
\* (beacon_send, bmt_scan).
LEMMA CalmBeacon ==
  ASSUME Typed, FromTheFirst, NEW t \in Task, Covers(t), World, calm',
         \/ Sign(t) \/ Advertise(t) \/ CannotAdvertise(t) \/ BeaconOff(t)
         \/ \E s \in Scanner : Hear(t, s)
  PROVE  Covers(t)' /\ aims' = aims
<1>0. /\ task \in [Task -> TaskState] /\ task[t] \in TaskState
  BY TypeOKAgain DEF Typed
<1>1. CASE Sign(t)
  BY <1>0, <1>1 DEF Sign, At, Covers, keys, nodes, trail, TaskState
<1>2. CASE Advertise(t)
  <2>1. task[t].mac = id
    BY <1>2 DEF Advertise, At, Covers
  <2>2. task' = [task EXCEPT ![t] = [task[t] EXCEPT !.pc = "beacon", !.mac = id]]
    BY <1>2, <2>1 DEF Advertise
  <2>3. At(t, "advertise") /\ UNCHANGED <<id, table, member, aims, got>>
    BY <1>2 DEF Advertise, keys, nodes, trail
  <2>4. QED
    BY <1>0, <2>2, <2>3 DEF At, Covers, TaskState
<1>3. CASE CannotAdvertise(t)
  <2>1. \A n \in aims : \E i \in Slot : i >= 1 /\ table[i] = n
    BY DEF World, Slot
  <2>2. task[t].at = 1 /\ At(t, "advertise")
    BY <1>3 DEF CannotAdvertise, At, FromTheFirst
  <2>3. /\ task' = [task EXCEPT ![t] = [task[t] EXCEPT !.pc = "visit", !.mac = None]]
        /\ UNCHANGED <<id, table, member, aims, got>>
    BY <1>3 DEF CannotAdvertise, keys, nodes, trail
  <2>4. QED
    BY <1>0, <2>1, <2>2, <2>3 DEF At, Covers, TaskState
<1>4. CASE BeaconOff(t)
  <2>1. ~\E s \in aims \ got : Hears(t, s)
    BY <1>4 DEF BeaconOff
  <2>2. task[t].mac = id /\ aims \subseteq Scanner /\ id # None
    BY <1>4 DEF BeaconOff, At, Covers, World
  <2>3. aims \subseteq got
    BY <2>1, <2>2 DEF Hears, World, Has
  <2>4. QED
    BY <1>0, <1>4, <2>3 DEF BeaconOff, At, Covers, keys, nodes, TaskState
<1>5. ASSUME NEW s \in Scanner, Hear(t, s)  PROVE Covers(t)' /\ aims' = aims
  BY <1>5 DEF Hear, At, Covers, session, keys, nodes
<1>6. QED
  BY <1>1, <1>2, <1>3, <1>4, <1>5

\* The walk over the node table: a node of the type gets its messages, the first of them to the
\* address it has (bmt_ota_distribute, bmt_mesh_send_ota_trigger).
LEMMA CalmWalk ==
  ASSUME Typed, Session, NEW t \in Task, Covers(t), World, calm',
         Visit(t) \/ Trigger(t) \/ SendTrigger(t) \/ NextNode(t)
  PROVE  Covers(t)' /\ aims' = aims
<1>0. /\ task \in [Task -> TaskState] /\ task[t] \in TaskState /\ aims \subseteq Node
      /\ Capacity \in Nat /\ task[t].at \in Nat /\ task[t].left \in Nat
      /\ Triggers \in Nat /\ Triggers > 0 /\ Slot \subseteq Nat
      /\ \A i \in Slot : i <= Capacity
      /\ None \notin aims
  BY TypeOKAgain, Constants DEF Typed, TaskState, Slot
<1>a. \A n \in aims : n \in member /\ n \in OfType(task[t].type) /\ \E i \in Slot : table[i] = n
  BY DEF World, Covers
<1>b. \A j, k \in Nat : (j >= k /\ j # k => j > k) /\ (j > k => j >= k + 1)
  OBVIOUS
<1>1. CASE Visit(t)
  <2>1. /\ At(t, "visit") /\ UNCHANGED <<id, table, member, aims, got, call>>
        /\ \A n \in aims \ got : \E i \in Slot : i >= task[t].at /\ table[i] = n
    BY <1>1 DEF Visit, keys, nodes, trail, radio, Covers, At
  <2>2. CASE task[t].at > Capacity
    <3>1. task' = [task EXCEPT ![t].pc = "end"]
      BY <1>1, <2>2 DEF Visit, Goto
    <3>2. aims \subseteq got
      BY <1>0, <2>1, <2>2
    <3>3. QED
      BY <1>0, <2>1, <3>1, <3>2 DEF Covers, At, TaskState
  <2>3. CASE ~(task[t].at > Capacity) /\ table[task[t].at] \in OfType(task[t].type)
    <3>1. task' = [task EXCEPT ![t] = [task[t] EXCEPT !.pc = "trigger", !.left = Triggers]]
      BY <1>1, <2>3 DEF Visit
    <3>2. \A n \in aims \ got : Ahead(t, n) \/ table[task[t].at] = n
      BY <1>0, <1>b, <2>1 DEF Ahead
    <3>3. QED
      BY <1>0, <2>1, <3>1, <3>2 DEF Covers, At, Ahead, TaskState
  <2>4. CASE ~(task[t].at > Capacity) /\ table[task[t].at] \notin OfType(task[t].type)
    <3>1. task' = [task EXCEPT ![t].at = task[t].at + 1]
      BY <1>1, <2>4 DEF Visit
    <3>2. \A n \in aims \ got : \E i \in Slot : i >= task[t].at + 1 /\ table[i] = n
      <4>1. SUFFICES ASSUME NEW n \in aims \ got
                     PROVE  \E i \in Slot : i >= task[t].at + 1 /\ table[i] = n
        OBVIOUS
      <4>2. PICK i \in Slot : i >= task[t].at /\ table[i] = n
        BY <2>1
      <4>3. i # task[t].at
        BY <1>a, <2>4, <4>2
      <4>4. QED
        BY <1>0, <4>2, <4>3
    <3>3. QED
      BY <1>0, <2>1, <3>1, <3>2 DEF Covers, At, TaskState
  <2>5. QED
    BY <2>2, <2>3, <2>4
<1>2. CASE Trigger(t)
  <2>1. /\ At(t, "trigger") /\ UNCHANGED <<id, table, member, aims, got>>
        /\ \A n \in aims \ got : \/ Ahead(t, n)
                                 \/ table[task[t].at] = n /\ task[t].left = Triggers
    BY <1>2 DEF Trigger, keys, nodes, Covers, At
  <2>2. CASE table[task[t].at] = None
    <3>1. task' = [task EXCEPT ![t].left = @ - 1]
      BY <1>2, <2>2 DEF Trigger
    <3>2. \A n \in aims \ got : Ahead(t, n)
      BY <1>0, <2>1, <2>2
    <3>3. QED
      BY <1>0, <2>1, <3>1, <3>2 DEF Covers, At, Ahead, TaskState
  <2>3. CASE table[task[t].at] # None
    <3>1. /\ task' = [task EXCEPT ![t].pc = "send"]
          /\ Address("campaign", table[task[t].at])
      BY <1>2, <2>3 DEF Trigger, Goto
    <3>2. call'["campaign"] = table[task[t].at]
      BY <3>1, RadioFrame DEF Publisher
    <3>3. QED
      BY <1>0, <2>1, <3>1, <3>2 DEF Covers, At, Ahead, TaskState
  <2>4. QED
    BY <2>2, <2>3
<1>3. CASE SendTrigger(t)
  <2>1. /\ At(t, "send") /\ UNCHANGED <<id, table, member, aims>>
        /\ task' = [task EXCEPT ![t] = [task[t] EXCEPT !.pc = "trigger", !.left = task[t].left - 1]]
        /\ \A n \in aims \ got : Ahead(t, n) \/ call["campaign"] = n
    BY <1>3 DEF SendTrigger, keys, nodes, Covers, At
  <2>2. got' = got \cup ({pub} \cap member) /\ pub = call["campaign"]
    BY <1>3 DEF SendTrigger
  <2>3. \A n \in aims \ got' : Ahead(t, n)
    BY <1>a, <2>1, <2>2
  <2>4. QED
    BY <1>0, <2>1, <2>3 DEF Covers, At, Ahead, TaskState
<1>4. CASE NextNode(t)
  <2>1. /\ At(t, "trigger") /\ task[t].left = 0 /\ UNCHANGED <<id, table, member, aims, got>>
        /\ task' = [task EXCEPT ![t] = [task[t] EXCEPT !.pc = "visit", !.at = task[t].at + 1]]
    BY <1>4 DEF NextNode, keys, nodes, trail
  <2>2. \A n \in aims \ got : Ahead(t, n)
    BY <1>0, <2>1 DEF Covers, At
  <2>3. \A n \in aims \ got : \E i \in Slot : i >= task[t].at + 1 /\ table[i] = n
    BY <1>0, <1>b, <2>2 DEF Ahead
  <2>4. QED
    BY <1>0, <2>1, <2>3 DEF Covers, At, TaskState
<1>5. QED
  BY <1>1, <1>2, <1>3, <1>4

\* Every step of a campaign keeps CalmInv (bmt_ota.c).
LEMMA CalmCampaign ==
  ASSUME Typed, Session, KeyInv, CalmInv, NEW t \in Task,
         TaskStep(t) \/ \E s \in Scanner : Hear(t, s)
  PROVE  CalmInv'
<1>1. FromTheFirst /\ FromTheFirst'
  BY CalmFirst DEF CalmInv
<1>2. CampaignLeaves
  BY CampaignFrame
<1>3. SUFFICES ASSUME calm'  PROVE World' /\ Covers(t)'
  BY <1>1 DEF CalmInv
<1>4. CASE Begin(t)
  BY <1>1, <1>3, <1>4, CalmBegin
<1>5. ASSUME ~Begin(t)  PROVE World' /\ Covers(t)'
  <2>1. calm /\ Alive(t) /\ ~End(t)
    <3>1. ~End(t)
      BY <1>3 DEF End
    <3>2. calm /\ Alive(t)
      BY <1>3, <1>5, <3>1
      DEF TaskStep, Sign, Advertise, CannotAdvertise, BeaconOff, Visit, Trigger, SendTrigger,
          NextNode, NoUpdate, Hear, At, Alive, trail
    <3>3. QED
      BY <3>1, <3>2
  <2>2. Covers(t) /\ World
    BY <2>1, CalmTask
  <2>3. ~NoUpdate(t)
    BY <2>2 DEF NoUpdate, At, Covers
  <2>4. Covers(t)' /\ aims' = aims
    BY <1>1, <1>3, <1>5, <2>1, <2>2, <2>3, CalmBeacon, CalmWalk DEF TaskStep
  <2>5. QED
    BY <1>2, <2>2, <2>4, CalmWorld
<1>6. QED
  BY <1>4, <1>5

\* Every step keeps CalmInv.
LEMMA CalmInvStep ==
  ASSUME Typed, Session, KeyInv, CalmInv, [Next]_vars
  PROVE  CalmInv'
<1>1. CASE \E t \in Task : TaskStep(t) \/ \E s \in Scanner : Hear(t, s)
  BY <1>1, CalmCampaign
<1>2. CASE \E c \in Caller : (\E what \in Target : Claim(c, what)) \/ Launch(c) \/ LaunchFails(c)
  BY <1>2, CalmCallers
<1>3. CASE Rotate \/ RotateFails \/ RotationStep \/ JoinStep \/ \E r \in Scanner : Restart(r)
  BY <1>3, CalmKeys
<1>4. CASE \E n \in Node : Configure(n) \/ Leave(n) \/ Forget(n)
  BY <1>4, CalmNodes
<1>5. CASE GatewayRestart
  BY <1>5 DEF GatewayRestart, CalmInv, FromTheFirst, NoTask
<1>6. CASE UNCHANGED vars
  BY <1>6
  DEF vars, session, keys, radio, nodes, trail, CalmInv, FromTheFirst, World, Covers, Ahead, Has
<1>7. QED
  BY <1>1, <1>2, <1>3, <1>4, <1>5, <1>6 DEF Next

\* No campaign runs at the start.
LEMMA InitCalm == Init => CalmInv
  BY DEF Init, NoTask, CalmInv, FromTheFirst

\* CampaignReaches: a campaign in which nothing is lost, mixed up or rotated, begun with the key in
\* order, has triggered every node it is for and that stayed when it ends.
THEOREM OtaCampaignReaches == Spec => []CampaignReaches
<1>1. ASSUME Session, CalmInv  PROVE CampaignReaches
  <2>1. SUFFICES ASSUME NEW t \in Task, At(t, "end"), calm  PROVE aims \subseteq got
    BY DEF CampaignReaches
  <2>2. Covers(t)
    BY <1>1, <2>1, CalmTask DEF At, Alive
  <2>3. QED
    BY <2>1, <2>2 DEF At, Covers
<1>2. Spec => []CalmInv
  BY Invariants, KeyInvariant, InitCalm, CalmInvStep, PTL DEF Spec
<1>3. QED
  BY <1>1, <1>2, Invariants, PTL
=============================================================================

-------------------------- MODULE MeshHealthProofs --------------------------
(***************************************************************************)
(* Theorems about MeshHealth, for any number of nodes and any delays:       *)
(* its types; that the gateway resets nobody during an update; and that     *)
(* what ThingsBoard shows of a node agrees with the node table.             *)
(***************************************************************************)
EXTENDS MeshHealth, TLAPS

\* The types of the tasks' records, field by field.
PingState == [pc : {"sleep", "lock", "wait", "judge"}, slot : 0 .. Slots, left : Nat,
              young : BOOLEAN, lost : BOOLEAN]
CfgState  == [slot : 0 .. Slots, left : Nat, ok : BOOLEAN]
WdState   == [pc : {"settle", "idle", "window", "reset", "wait"}, left : Nat,
              heard : BOOLEAN, k : 0 .. Tries, ok : BOOLEAN]

\* The constants are natural numbers, and a node is never the empty slot.
LEMMA Constants ==
  /\ Slots \in Nat /\ Tries \in Nat /\ Offline \in Nat /\ Never \in Nat /\ Long \in Nat
  /\ PingStart \in Nat /\ PingEvery \in Nat /\ PingGap \in Nat /\ AckTimeout \in Nat
  /\ Settle \in Nat /\ Window \in Nat /\ Gap \in Nat /\ NodeWait \in Nat
  /\ ConfigTime \in Nat /\ ConfigSlow \in Nat /\ MaxTrouble \in Nat /\ MaxOther \in Nat
  /\ Node \subseteq 0 .. Slots /\ 0 \notin Node
  /\ 0 .. Slots = Node \cup {0}
  BY MeshHealthAssumption DEF MeshHealthAssumption, Node, Never, Long

\* A task's new delay is a natural number (Tick).
LEMMA LessType ==
  ASSUME NEW x \in Nat
  PROVE  Less(x) \in Nat
  BY DEF Less

\* The counters of the bounds stay below them (Trouble, Other).
LEMMA CountType ==
  ASSUME TypeOK, Trouble \/ Other \/ UNCHANGED count
  PROVE  trouble' \in 0 .. MaxTrouble /\ other' \in 0 .. MaxOther
  BY Constants DEF TypeOK, Trouble, Other, count

\* bmt_tb_pub_node_status changes the row of a node.
LEMMA TellType ==
  ASSUME TypeOK, NEW n \in Node, NEW on \in BOOLEAN, Tell(n, on)
  PROVE  told' \in SUBSET Node
  BY DEF TypeOK, Tell

\* The watchdog's state at the top of its loop (data_watchdog_task).
LEMMA WatchAgainType ==
  ASSUME WatchAgain
  PROVE  wd' \in WdState
<1>1. WdBoot \in WdState
  BY Constants DEF WdBoot, WdState
<1>2. QED
  BY <1>1, Constants DEF WatchAgain, WdState
-----------------------------------------------------------------------------
(* Types. *)

\* The ping task keeps the types (node_ping_task, cfg_client_cb).
LEMMA PingTypes ==
  ASSUME TypeOK, PingTask \/ PingLost
  PROVE  TypeOK'
<1> USE Constants DEF PingState
<1>0. ping \in PingState /\ wd \in WdState
  BY DEF TypeOK, WdState
<1>1. CASE PingNext
  <2>1. ping' \in PingState
    <3>1. CASE {n \in Done : n > ping.slot} = {}
      BY <1>0, <1>1, <3>1 DEF PingNext
    <3>2. CASE {n \in Done : n > ping.slot} # {}
      <4>1. PICK n \in {m \in Done : m > ping.slot} :
              ping' = [ping EXCEPT !.pc = "lock", !.slot = n]
        BY <1>1, <3>2 DEF PingNext
      <4>2. n \in Node
        BY <4>1 DEF Done
      <4>3. QED
        BY <1>0, <4>1, <4>2
    <3>3. QED
      BY <3>1, <3>2
  <2>2. QED
    BY <1>1, <2>1 DEF PingNext, TypeOK, field, table, board, count
<1>2. CASE PingSend
  <2>1. ping' \in PingState
    BY <1>0, <1>2 DEF PingSend
  <2>2. QED
    BY <1>2, <2>1 DEF PingSend, TypeOK, field, table, board, count
<1>3. CASE PingLost
  <2>1. ping' \in PingState
    BY <1>0, <1>3 DEF PingLost
  <2>2. trouble' \in 0 .. MaxTrouble /\ other' \in 0 .. MaxOther
    BY <1>3, CountType DEF PingLost
  <2>3. QED
    BY <1>3, <2>1, <2>2 DEF PingLost, TypeOK, field, table, board
<1>4. CASE Answer
  <2>1. ping' \in PingState
    BY <1>0, <1>4 DEF Answer
  <2>2. wd' \in WdState
    BY <1>0, <1>4 DEF Answer, WdState
  <2>3. /\ seen' \in [Node -> 0 .. Never] /\ online' \in [Node -> BOOLEAN]
        /\ told' \in SUBSET Node
    <3>1. CASE entry[ping.slot] # "done"
      BY <1>4, <3>1 DEF Answer, TypeOK
    <3>2. CASE entry[ping.slot] = "done"
      <4>1. /\ seen' = [seen EXCEPT ![ping.slot] = 0]
            /\ online' = [online EXCEPT ![ping.slot] = TRUE]
            /\ told' = told \/ Tell(ping.slot, TRUE)
        BY <1>4, <3>2 DEF Answer
      <4>2. Up(ping.slot) /\ alive \subseteq Node
        BY <1>4 DEF Answer, TypeOK
      <4>3. ping.slot \in Node
        BY <4>2 DEF Up
      <4>4. told' \in SUBSET Node
        BY <4>1, <4>3, TellType DEF TypeOK
      <4>5. seen' \in [Node -> 0 .. Never] /\ online' \in [Node -> BOOLEAN]
        BY <4>1, <4>3 DEF TypeOK
      <4>6. QED
        BY <4>4, <4>5
    <3>3. QED
      BY <3>1, <3>2
  <2>4. QED
    BY <1>4, <2>1, <2>2, <2>3 DEF Answer, TypeOK, field, count, WdState
<1>5. CASE PingExpires
  <2>1. ping' \in PingState
    BY <1>0, <1>5 DEF PingExpires
  <2>2. QED
    BY <1>5, <2>1 DEF PingExpires, TypeOK, field, table, board, count
<1>6. CASE PingJudge
  <2>1. ping' \in PingState
    BY <1>0, <1>6 DEF PingJudge
  <2>2. online' \in [Node -> BOOLEAN] /\ told' \in SUBSET Node
    BY <1>6 DEF PingJudge, TypeOK, Tell
  <2>3. QED
    BY <1>6, <2>1, <2>2 DEF PingJudge, TypeOK, field, count
<1>7. QED
  BY <1>1, <1>2, <1>3, <1>4, <1>5, <1>6 DEF PingTask

\* The mesh callback for tag reports keeps the types (vnd_client_cb).
LEMMA TagStatusTypes ==
  ASSUME TypeOK, NEW n \in Node, TagStatus(n)
  PROVE  TypeOK'
<1> USE Constants DEF PingState
<1>0. ping \in PingState /\ wd \in WdState
  BY DEF TypeOK, WdState
<1>1. wd' \in WdState
  BY <1>0 DEF TagStatus, WdState
<1>2. /\ seen' \in [Node -> 0 .. Never] /\ online' \in [Node -> BOOLEAN]
      /\ told' \in SUBSET Node /\ ping' \in PingState
  <2>1. CASE seen' = seen /\ online' = online /\ told' = told /\ ping' = ping
    BY <1>0, <2>1 DEF TypeOK
  <2>2. CASE /\ seen' = [seen EXCEPT ![n] = 0] /\ online' = [online EXCEPT ![n] = TRUE]
             /\ Tell(n, TRUE)
             /\ ping' = ping \/ ping' = [ping EXCEPT !.young = TRUE]
    <3>1. told' \in SUBSET Node
      BY <2>2, TellType
    <3>2. seen' \in [Node -> 0 .. Never] /\ online' \in [Node -> BOOLEAN]
      BY <2>2 DEF TypeOK
    <3>3. ping' \in PingState
      BY <1>0, <2>2
    <3>4. QED
      BY <3>1, <3>2, <3>3
  <2>3. QED
    BY <2>1, <2>2 DEF TagStatus
<1>3. QED
  BY <1>1, <1>2 DEF TagStatus, TypeOK, field, count, WdState

\* Joining and configuring keep the types (mesh_prov_cb, node_config_task).
LEMMA JoinTypes ==
  ASSUME TypeOK, NEW n \in Node,
         Join(n) \/ ConfigStart(n) \/ ConfigDone(n) \/ ConfigStalls(n) \/ ConfigAbort(n)
  PROVE  TypeOK'
<1> USE Constants DEF TypeOK
<1>0. NoConfig \in CfgState
  BY DEF NoConfig, CfgState
<1>1. CASE Join(n)
  <2>1. /\ seen' = [seen EXCEPT ![n] = Never] /\ online' = [online EXCEPT ![n] = FALSE]
        /\ dev' = [dev EXCEPT ![n] = "joined"] /\ entry' = [entry EXCEPT ![n] = "new"]
    BY <1>1 DEF Join, Forget
  <2>2. /\ seen' \in [Node -> 0 .. Never] /\ online' \in [Node -> BOOLEAN]
        /\ dev' \in [Node -> {"fresh", "joined", "bound"}]
        /\ entry' \in [Node -> {"none", "new", "done"}]
    BY <2>1
  <2>3. QED
    BY <1>1, <2>2 DEF Join, board, count
<1>2. CASE ConfigStart(n)
  <2>1. PICK d \in {ConfigTime, ConfigSlow}, b \in BOOLEAN :
          cfg' = [slot |-> n, left |-> d, ok |-> b]
    BY <1>2 DEF ConfigStart
  <2>2. cfg' \in CfgState
    BY <2>1 DEF CfgState
  <2>3. trouble' \in 0 .. MaxTrouble /\ other' \in 0 .. MaxOther
    BY <1>2, CountType DEF ConfigStart
  <2>4. QED
    BY <1>2, <2>2, <2>3 DEF ConfigStart, field, table, board, CfgState
<1>3. CASE ConfigDone(n)
  <2>1. /\ dev' \in [Node -> {"fresh", "joined", "bound"}]
        /\ entry' \in [Node -> {"none", "new", "done"}]
    BY <1>3 DEF ConfigDone
  <2>2. told' \in SUBSET Node
    BY <1>3, TellType DEF ConfigDone
  <2>3. QED
    BY <1>0, <1>3, <2>1, <2>2 DEF ConfigDone, count, CfgState
<1>4. CASE ConfigStalls(n)
  <2>1. cfg' \in CfgState
    BY <1>4 DEF ConfigStalls, CfgState
  <2>2. QED
    BY <1>4, <2>1 DEF ConfigStalls, field, table, board, count, CfgState
<1>5. CASE ConfigAbort(n)
  <2>1. /\ entry' \in [Node -> {"none", "new", "done"}]
        /\ seen' \in [Node -> 0 .. Never] /\ online' \in [Node -> BOOLEAN]
    BY <1>5 DEF ConfigAbort, Forget
  <2>2. QED
    BY <1>0, <1>5, <2>1 DEF ConfigAbort, field, board, count, CfgState
<1>6. QED
  BY <1>1, <1>2, <1>3, <1>4, <1>5

\* A broadcast makes nodes of the mesh fresh (RESET_CMD), and nothing else of them.
LEMMA BroadcastType ==
  ASSUME TypeOK, Broadcast
  PROVE  /\ dev' \in [Node -> {"fresh", "joined", "bound"}]
         /\ trouble' \in 0 .. MaxTrouble /\ other' \in 0 .. MaxOther
         /\ \A n \in Node : dev'[n] # dev[n] => dev[n] = "bound" /\ dev'[n] = "fresh"
<1>1. PICK miss \in SUBSET Reached :
        /\ IF miss = {} THEN UNCHANGED count ELSE Trouble
        /\ dev' = [n \in Node |-> IF n \in Reached \ miss THEN "fresh" ELSE dev[n]]
  BY DEF Broadcast
<1>2. trouble' \in 0 .. MaxTrouble /\ other' \in 0 .. MaxOther
  BY <1>1, CountType
<1>3. QED
  BY <1>1, <1>2 DEF TypeOK, Reached

\* The watchdog keeps the types (data_watchdog_task).
LEMMA WatchdogTypes ==
  ASSUME TypeOK, Watchdog
  PROVE  TypeOK'
<1> USE Constants
<1>0. wd \in WdState
  BY DEF TypeOK, WdState
<1>1. CASE Watch
  BY <1>1, WatchAgainType DEF Watch, TypeOK, WdState, field, table, board, count
<1>2. CASE WindowEnds
  <2>1. wd' \in WdState
    BY <1>0, <1>2, WatchAgainType DEF WindowEnds, WdState
  <2>2. QED
    BY <1>2, <2>1 DEF WindowEnds, TypeOK, WdState, field, table, board, count
<1>3. CASE ResetTry
  <2>1. wd' \in WdState
    <3>1. wd.k \in 0 .. Tries /\ wd.k < Tries
      BY <1>0, <1>3 DEF ResetTry, WdState
    <3>2. \/ wd' = [wd EXCEPT !.k = wd.k + 1, !.left = Gap]
          \/ wd' = [wd EXCEPT !.k = wd.k + 1, !.left = Gap, !.ok = TRUE]
      BY <1>3 DEF ResetTry
    <3>3. wd.k + 1 \in 0 .. Tries
      BY <3>1
    <3>4. CASE wd' = [wd EXCEPT !.k = wd.k + 1, !.left = Gap]
      BY <1>0, <3>3, <3>4 DEF WdState
    <3>5. CASE wd' = [wd EXCEPT !.k = wd.k + 1, !.left = Gap, !.ok = TRUE]
      BY <1>0, <3>3, <3>5 DEF WdState
    <3>6. QED
      BY <3>2, <3>4, <3>5
  <2>2. /\ dev' \in [Node -> {"fresh", "joined", "bound"}]
        /\ trouble' \in 0 .. MaxTrouble /\ other' \in 0 .. MaxOther
    <3>1. CASE UNCHANGED <<dev, count>>
      BY <3>1, CountType DEF TypeOK
    <3>2. CASE Broadcast
      BY <3>2, BroadcastType
    <3>3. QED
      BY <1>3, <3>1, <3>2 DEF ResetTry
  <2>3. QED
    BY <1>3, <2>1, <2>2 DEF ResetTry, TypeOK, WdState, table, board
<1>4. CASE ResetDone
  <2>1. wd' \in WdState
    BY <1>0, <1>4, WatchAgainType DEF ResetDone, WdState
  <2>2. QED
    BY <1>4, <2>1 DEF ResetDone, TypeOK, WdState, field, table, board, count
<1>5. CASE Wipe
  <2>1. wd' \in WdState /\ ping' \in PingState /\ cfg' \in CfgState
    BY <1>5 DEF Wipe, WdBoot, PingBoot, NoConfig, WdState, PingState, CfgState
  <2>2. /\ entry' \in [Node -> {"none", "new", "done"}]
        /\ seen' \in [Node -> 0 .. Never] /\ online' \in [Node -> BOOLEAN]
    BY <1>5 DEF Wipe, Forgotten, AllOff
  <2>3. QED
    BY <1>5, <2>1, <2>2 DEF Wipe, TypeOK, WdState, PingState, CfgState, field, board, count
<1>6. QED
  BY <1>1, <1>2, <1>3, <1>4, <1>5 DEF Watchdog

\* Nodes, radio, connection and updates come and go within the types.
World == \/ \E n \in Node : NodeFails(n) \/ NodeReturns(n)
         \/ RadioFails \/ RadioReturns \/ Disconnect \/ Connect \/ OtaStart \/ OtaEnd
LEMMA WorldTypes ==
  ASSUME TypeOK, World
  PROVE  TypeOK'
<1>1. trouble' \in 0 .. MaxTrouble /\ other' \in 0 .. MaxOther
  BY CountType DEF World, NodeFails, NodeReturns, RadioFails, RadioReturns, Disconnect, Connect,
     OtaStart, OtaEnd
<1>2. CASE \E n \in Node : NodeFails(n) \/ NodeReturns(n)
  BY <1>1, <1>2 DEF NodeFails, NodeReturns, TypeOK, table, board
<1>3. CASE RadioFails \/ RadioReturns
  BY <1>1, <1>3 DEF RadioFails, RadioReturns, TypeOK, table, board
<1>4. CASE Disconnect \/ Connect
  BY <1>1, <1>4 DEF Disconnect, Connect, TypeOK, field, table
<1>5. CASE OtaStart \/ OtaEnd
  BY <1>1, <1>5 DEF OtaStart, OtaEnd, TypeOK, field, table, board
<1>6. QED
  BY <1>2, <1>3, <1>4, <1>5 DEF World

\* Time keeps the types; a record that is Never or Long ago stays what it is.
LEMMA TickTypes ==
  ASSUME TypeOK, Tick
  PROVE  /\ TypeOK'
         /\ \A n \in Node : seen'[n] = Never <=> seen[n] = Never
<1> USE Constants, LessType
<1>1. ping' \in PingState
  <2>1. ping \in PingState /\ ping' = [ping EXCEPT !.left = Less(ping.left)]
    BY DEF Tick, TypeOK, PingState
  <2>2. QED
    BY <2>1 DEF PingState
<1>2. cfg' \in CfgState
  <2>1. cfg \in CfgState /\ cfg' = [cfg EXCEPT !.left = Less(cfg.left)]
    BY DEF Tick, TypeOK, CfgState
  <2>2. QED
    BY <2>1 DEF CfgState
<1>3. wd' \in WdState
  <2>1. wd \in WdState /\ wd' = [wd EXCEPT !.left = Less(wd.left)]
    BY DEF Tick, TypeOK, WdState
  <2>2. QED
    BY <2>1 DEF WdState
<1>4. /\ seen' \in [Node -> 0 .. Never]
      /\ \A n \in Node : seen'[n] = Never <=> seen[n] = Never
  BY DEF Tick, TypeOK, Never, Long
<1>5. QED
  BY <1>1, <1>2, <1>3, <1>4 DEF Tick, TypeOK, PingState, CfgState, WdState, field, board, count

\* What a step can be: one of the groups of actions.
LEMMA Steps ==
  ASSUME Next
  PROVE  \/ PingTask \/ PingLost
         \/ \E n \in Node : TagStatus(n)
         \/ \E n \in Node : Join(n) \/ ConfigStart(n) \/ ConfigDone(n) \/ ConfigStalls(n)
                              \/ ConfigAbort(n)
         \/ Watchdog \/ World \/ Tick
  BY DEF Next, ConfigTask, World

\* The gateway boots with well-typed tasks and table (app_main).
LEMMA InitTypes ==
  ASSUME Init
  PROVE  TypeOK
<1>1. PICK known \in SUBSET Node :
        /\ entry = [n \in Node |-> IF n \in known THEN "done" ELSE "none"]
        /\ dev = [n \in Node |-> IF n \in known THEN "bound" ELSE "fresh"]
  BY DEF Init
<1> USE Constants
<1>2. ping \in PingState /\ wd \in WdState /\ cfg \in CfgState
  BY DEF Init, PingBoot, WdBoot, NoConfig, PingState, WdState, CfgState
<1>3. /\ dev \in [Node -> {"fresh", "joined", "bound"}]
      /\ entry \in [Node -> {"none", "new", "done"}]
  BY <1>1
<1>4. seen \in [Node -> 0 .. Never] /\ online \in [Node -> BOOLEAN]
  BY DEF Init, Forgotten, AllOff
<1>5. trouble \in 0 .. MaxTrouble /\ other \in 0 .. MaxOther
  BY DEF Init
<1>6. alive \in SUBSET Node /\ told \in SUBSET Node /\ queue \in SUBSET Node
  BY DEF Init
<1>7. radio \in BOOLEAN /\ connected \in BOOLEAN /\ ota \in BOOLEAN
  BY DEF Init
<1>8. QED
  BY <1>2, <1>3, <1>4, <1>5, <1>6, <1>7 DEF TypeOK, PingState, WdState, CfgState

\* Every step keeps the types.
LEMMA StepTypes ==
  ASSUME TypeOK, [Next]_vars
  PROVE  TypeOK'
<1>1. CASE UNCHANGED vars
  BY <1>1 DEF TypeOK, vars, field, table, board, count
<1>2. CASE Next
  BY <1>2, Steps, PingTypes, TagStatusTypes, JoinTypes, WatchdogTypes, WorldTypes, TickTypes
<1>3. QED
  BY <1>1, <1>2

\* Theorem.  The ping task, the config tasks and the watchdog keep the types, whatever fails.
THEOREM TypeCorrect == Spec => []TypeOK
<1>1. Init => TypeOK
  BY InitTypes
<1>2. TypeOK /\ [Next]_vars => TypeOK'
  BY StepTypes
<1>3. QED
  BY <1>1, <1>2, PTL DEF Spec
-----------------------------------------------------------------------------
(* Resets and updates. *)

\* Theorem.  No node is reset while an update runs at the gateway: of all steps only a RESET_CMD
\* makes a node fresh, and each is preceded by a look at bmt_ota_is_running.
THEOREM OtaIsLeftAlone == Spec => NoResetDuringOta
<1>1. ASSUME TypeOK, Next, NEW n \in Node, dev[n] # "fresh", dev'[n] = "fresh"
      PROVE  ~ota
  <2>1. dev \in [Node -> {"fresh", "joined", "bound"}] /\ dev'[n] # dev[n]
    BY <1>1 DEF TypeOK
  <2>2. CASE PingTask \/ PingLost \/ Tick \/ \E m \in Node : TagStatus(m)
    BY <2>1, <2>2 DEF PingTask, PingNext, PingSend, Answer, PingExpires, PingJudge, PingLost,
       Tick, TagStatus, field
  <2>3. CASE \E m \in Node : Join(m) \/ ConfigStart(m) \/ ConfigDone(m) \/ ConfigStalls(m)
                             \/ ConfigAbort(m)
    BY <1>1, <2>1, <2>3 DEF Join, ConfigStart, ConfigDone, ConfigStalls, ConfigAbort, field
  <2>4. CASE Watchdog
    BY <2>1, <2>4 DEF Watchdog, Watch, WindowEnds, ResetTry, ResetDone, Wipe, field
  <2>5. CASE World
    BY <2>1, <2>5 DEF World, NodeFails, NodeReturns, RadioFails, RadioReturns, Disconnect,
       Connect, OtaStart, OtaEnd, field
  <2>6. QED
    BY <1>1, <2>2, <2>3, <2>4, <2>5, Steps
<1>2. TypeOK /\ [Next]_vars
        => [\A n \in Node : dev[n] # "fresh" /\ dev'[n] = "fresh" => ~ota]_vars
  BY <1>1
<1>3. QED
  BY <1>2, TypeCorrect, PTL DEF Spec, NoResetDuringOta
-----------------------------------------------------------------------------
(* What ThingsBoard shows. *)

\* StatusAgrees is not inductive: a node's row also changes when its configuration ends, which
\* says nothing to its entry.  That is harmless because a node being configured has not been
\* heard since it joined, and nobody but the watchdog makes a joined node leave that state.
Joining    == \A n \in Node : entry[n] = "new" => dev[n] = "joined" /\ seen[n] = Never
InConfig   == \A n \in queue \cup (Node \cap {cfg.slot}) : entry[n] = "new"
OneTask    == cfg.slot \notin queue
OnlineSeen == \A n \in Node : online[n] => seen[n] # Never
Connected  == other = 0 => connected
IInv == TypeOK /\ Joining /\ InConfig /\ OneTask /\ OnlineSeen /\ Connected /\ StatusAgrees

\* The gateway boots with nobody joining, heard or shown.
LEMMA InitInv ==
  ASSUME Init
  PROVE  IInv
<1>1. PICK known \in SUBSET Node :
        entry = [n \in Node |-> IF n \in known THEN "done" ELSE "none"]
  BY DEF Init
<1>2. Joining
  BY <1>1 DEF Joining
<1>3. InConfig /\ OneTask
  BY Constants DEF Init, InConfig, OneTask, NoConfig
<1>4. OnlineSeen /\ StatusAgrees
  BY DEF Init, OnlineSeen, StatusAgrees, AllOff, Forgotten
<1>5. Connected
  BY DEF Init, Connected
<1>6. QED
  BY <1>2, <1>3, <1>4, <1>5, InitTypes DEF IInv

\* The connection holds as long as nothing but nodes and radio went wrong (on_tb_connected).
LEMMA ConnectedStep ==
  ASSUME TypeOK, Connected, Next
  PROVE  Connected'
<1>1. CASE PingTask \/ PingLost \/ Tick \/ \E m \in Node : TagStatus(m)
  BY <1>1 DEF Connected, PingTask, PingNext, PingSend, Answer, PingExpires, PingJudge, PingLost,
     Tick, TagStatus, board, count, Trouble
<1>2. CASE \E m \in Node : Join(m) \/ ConfigStart(m) \/ ConfigDone(m) \/ ConfigStalls(m)
                           \/ ConfigAbort(m)
  <2>1. connected' = connected /\ other' = other
    BY <1>2 DEF Join, ConfigStart, ConfigDone, ConfigStalls, ConfigAbort, board, count, Trouble
  <2>2. QED
    BY <2>1 DEF Connected
<1>3. CASE Watchdog
  BY <1>3 DEF Connected, Watchdog, Watch, WindowEnds, ResetTry, ResetDone, Wipe, Broadcast, board,
     count, Trouble
<1>4. CASE World
  <2>1. other \in Nat
    BY Constants DEF TypeOK
  <2>2. CASE \E m \in Node : NodeFails(m) \/ NodeReturns(m)
    BY <2>1, <2>2 DEF Connected, NodeFails, NodeReturns, board, Trouble, Other
  <2>3. CASE RadioFails \/ RadioReturns
    BY <2>3 DEF Connected, RadioFails, RadioReturns, board, count, Trouble
  <2>4. CASE Disconnect \/ Connect
    BY <2>1, <2>4 DEF Connected, Disconnect, Connect, Other
  <2>5. CASE OtaStart \/ OtaEnd
    BY <2>1, <2>5 DEF Connected, OtaStart, OtaEnd, board, count, Other
  <2>6. QED
    BY <1>4, <2>2, <2>3, <2>4, <2>5 DEF World
<1>5. QED
  BY <1>1, <1>2, <1>3, <1>4, Steps

\* A connection that holds while a step is taken held before it.
LEMMA OtherGrows ==
  ASSUME TypeOK, Next
  PROVE  other' = 0 => other = 0
<1>0. other \in Nat
  BY Constants DEF TypeOK
<1>1. CASE PingTask \/ PingLost \/ Tick \/ \E m \in Node : TagStatus(m)
  BY <1>1 DEF PingTask, PingNext, PingSend, Answer, PingExpires, PingJudge, PingLost,
     Tick, TagStatus, count, Trouble
<1>2. CASE \E m \in Node : Join(m) \/ ConfigStart(m) \/ ConfigDone(m) \/ ConfigStalls(m)
                           \/ ConfigAbort(m)
  BY <1>2 DEF Join, ConfigStart, ConfigDone, ConfigStalls, ConfigAbort, count, Trouble
<1>3. CASE Watchdog
  BY <1>3 DEF Watchdog, Watch, WindowEnds, ResetTry, ResetDone, Wipe, Broadcast, count, Trouble
<1>4. CASE World
  BY <1>0, <1>4 DEF World, NodeFails, NodeReturns, RadioFails, RadioReturns, Disconnect, Connect,
     OtaStart, OtaEnd, count, Trouble, Other
<1>5. QED
  BY <1>1, <1>2, <1>3, <1>4, Steps

\* The configuration of a node proceeds in order: a joining node has an entry, one task, and has
\* not been heard (mesh_prov_cb, node_config_task, cfg_abort_cleanup).
LEMMA JoiningStep ==
  ASSUME IInv, Next
  PROVE  Joining' /\ InConfig' /\ OneTask'
<1> USE DEF IInv
<1>0. /\ entry \in [Node -> {"none", "new", "done"}] /\ seen \in [Node -> 0 .. Never]
      /\ dev \in [Node -> {"fresh", "joined", "bound"}]
      /\ queue \subseteq Node /\ cfg \in CfgState /\ 0 \notin Node
  BY Constants DEF TypeOK, CfgState
<1>1. CASE \/ PingTask \/ PingLost \/ World \/ Watch \/ WindowEnds \/ ResetDone
           \/ \E n \in Node : TagStatus(n)
  <2>1. UNCHANGED <<entry, dev, queue, cfg>>
    BY <1>1 DEF PingTask, PingNext, PingSend, Answer, PingExpires, PingJudge, PingLost, World,
       NodeFails, NodeReturns, RadioFails, RadioReturns, Disconnect, Connect, OtaStart, OtaEnd,
       Watch, WindowEnds, ResetDone, TagStatus, table, field
  <2>2. \A n \in Node : entry[n] = "new" => seen'[n] = seen[n]
    <3>1. CASE Answer
      BY <1>0, <3>1 DEF Answer
    <3>2. CASE \E n \in Node : TagStatus(n)
      BY <1>0, <3>2 DEF TagStatus, Joining
    <3>3. CASE \/ PingNext \/ PingSend \/ PingExpires \/ PingJudge \/ PingLost \/ World \/ Watch
               \/ WindowEnds \/ ResetDone
      BY <3>3 DEF PingNext, PingSend, PingExpires, PingJudge, PingLost, World,
         NodeFails, NodeReturns, RadioFails, RadioReturns, Disconnect, Connect, OtaStart, OtaEnd,
         Watch, WindowEnds, ResetDone, table
    <3>4. QED
      BY <1>1, <3>1, <3>2, <3>3 DEF PingTask
  <2>3. QED
    BY <2>1, <2>2 DEF Joining, InConfig, OneTask
<1>2. CASE Tick
  <2>1. UNCHANGED <<entry, dev, queue>> /\ cfg'.slot = cfg.slot
    BY <1>0, <1>2 DEF Tick, field, CfgState
  <2>2. QED
    BY <1>2, <2>1, TickTypes DEF Joining, InConfig, OneTask
<1>3. CASE ResetTry
  <2>1. UNCHANGED <<entry, seen, queue, cfg>>
    BY <1>3 DEF ResetTry, table
  <2>2. \A n \in Node : dev[n] = "joined" => dev'[n] = "joined"
    BY <1>0, <1>3 DEF ResetTry, Broadcast, Reached
  <2>3. QED
    BY <2>1, <2>2 DEF Joining, InConfig, OneTask
<1>4. CASE Wipe
  BY <1>0, <1>4 DEF Wipe, NoConfig, Joining, InConfig, OneTask
<1>5. ASSUME NEW n \in Node, Join(n)
      PROVE  Joining' /\ InConfig' /\ OneTask'
  <2>1. /\ entry' = [entry EXCEPT ![n] = "new"] /\ seen' = [seen EXCEPT ![n] = Never]
        /\ dev' = [dev EXCEPT ![n] = "joined"] /\ queue' = queue \cup {n} /\ cfg' = cfg
        /\ entry[n] # "new"
    BY <1>5 DEF Join, Forget
  <2>2. n # cfg.slot
    BY <2>1 DEF InConfig
  <2>3. Joining'
    BY <1>0, <2>1 DEF Joining
  <2>4. InConfig'
    BY <1>0, <2>1 DEF InConfig
  <2>5. QED
    BY <2>1, <2>2, <2>3, <2>4 DEF OneTask
<1>6. ASSUME NEW n \in Node, ConfigStart(n)
      PROVE  Joining' /\ InConfig' /\ OneTask'
  <2>1. UNCHANGED <<entry, seen, dev>> /\ n \in queue /\ queue' = queue \ {n}
    BY <1>6 DEF ConfigStart, table, field
  <2>2. cfg'.slot = n
    BY <1>6 DEF ConfigStart
  <2>3. QED
    BY <1>0, <2>1, <2>2 DEF Joining, InConfig, OneTask
<1>7. ASSUME NEW n \in Node, ConfigDone(n) \/ ConfigAbort(n)
      PROVE  Joining' /\ InConfig' /\ OneTask'
  <2>1. /\ \A m \in Node \ {n} : entry'[m] = entry[m] /\ seen'[m] = seen[m] /\ dev'[m] = dev[m]
        /\ entry'[n] # "new" /\ queue' = queue /\ cfg'.slot = 0 /\ n \notin queue
    <3>0. cfg' = NoConfig /\ cfg.slot = n /\ queue' = queue
      BY <1>7 DEF ConfigDone, ConfigAbort
    <3>1. queue' = queue /\ cfg'.slot = 0 /\ n \notin queue
      BY <3>0 DEF NoConfig, OneTask
    <3>2. CASE ConfigDone(n)
      BY <1>0, <3>1, <3>2 DEF ConfigDone
    <3>3. CASE ConfigAbort(n)
      BY <1>0, <3>1, <3>3 DEF ConfigAbort, Forget, field
    <3>4. QED
      BY <1>7, <3>2, <3>3
  <2>2. QED
    BY <1>0, <2>1 DEF Joining, InConfig, OneTask
<1>8. ASSUME NEW n \in Node, ConfigStalls(n)
      PROVE  Joining' /\ InConfig' /\ OneTask'
  BY <1>8 DEF ConfigStalls, Joining, InConfig, OneTask, field, table
<1>9. QED
  BY <1>1, <1>2, <1>3, <1>4, <1>5, <1>6, <1>7, <1>8, Steps DEF Watchdog

\* Whoever publishes a status while the connection holds changes the row of that node only.
LEMMA TellTold ==
  ASSUME Connected, other = 0, NEW n \in Node, NEW on \in BOOLEAN, Tell(n, on)
  PROVE  /\ n \in told' <=> on
         /\ \A m \in Node \ {n} : m \in told' <=> m \in told
  BY DEF Connected, Tell

\* What a node's entry and its row at ThingsBoard have to do with each other.
Shown(n) == /\ online[n] => seen[n] # Never
            /\ other = 0 /\ seen[n] # Never => (online[n] <=> n \in told)

\* An answer and its status, and the ping task's verdict, change entry and row together.
LEMMA PingShown ==
  ASSUME IInv, Answer \/ PingJudge, NEW m \in Node
  PROVE  Shown(m)'
<1> DEFINE n == ping.slot
<1> USE DEF IInv
<1>0. /\ seen \in [Node -> 0 .. Never] /\ online \in [Node -> BOOLEAN] /\ Never # 0
      /\ other' = other
  <2>1. Never # 0
    BY Constants, MeshHealthAssumption DEF Never, MeshHealthAssumption
  <2>2. other' = other
    BY DEF Answer, PingJudge, count
  <2>3. QED
    BY <2>1, <2>2 DEF TypeOK
<1>1. Shown(m)
  BY DEF Shown, OnlineSeen, StatusAgrees
<1>2. CASE UNCHANGED <<seen, online, told>>
  BY <1>0, <1>1, <1>2 DEF Shown
<1>3. CASE Answer /\ entry[n] = "done"
  <2>1. n \in Node
    BY <1>3 DEF Answer, Up, TypeOK
  <2>2. /\ seen' = [seen EXCEPT ![n] = 0] /\ online' = [online EXCEPT ![n] = TRUE]
        /\ IF online[n] THEN told' = told ELSE Tell(n, TRUE)
    BY <1>3 DEF Answer
  <2>3. CASE online[n]
    <3>1. other = 0 => n \in told
      BY <2>1, <2>3 DEF OnlineSeen, StatusAgrees
    <3>2. QED
      BY <1>0, <1>1, <2>1, <2>2, <2>3, <3>1 DEF Shown
  <2>4. CASE ~online[n]
    <3>1. other = 0 => n \in told' /\ \A k \in Node \ {n} : k \in told' <=> k \in told
      BY <2>1, <2>2, <2>4, TellTold
    <3>2. QED
      BY <1>0, <1>1, <2>1, <2>2, <3>1 DEF Shown
  <2>5. QED
    BY <2>3, <2>4
<1>4. CASE PingJudge /\ seen[n] # Never /\ Silent(n) /\ online[n]
  <2>1. seen' = seen /\ online' = [online EXCEPT ![n] = FALSE] /\ Tell(n, FALSE)
    BY <1>4 DEF PingJudge
  <2>2. CASE n \in Node
    <3>1. other = 0 => n \notin told' /\ \A k \in Node \ {n} : k \in told' <=> k \in told
      BY <2>1, <2>2, TellTold
    <3>2. QED
      BY <1>0, <1>1, <2>1, <2>2, <3>1 DEF Shown
  <2>3. CASE n \notin Node
    <3>1. online' = online /\ (m \in told' <=> m \in told)
      BY <1>0, <2>1, <2>3 DEF Tell
    <3>2. QED
      BY <1>0, <1>1, <2>1, <3>1 DEF Shown
  <2>4. QED
    BY <2>2, <2>3
<1>5. QED
  BY <1>2, <1>3, <1>4 DEF Answer, PingJudge

\* A TAG_STATUS that refreshes a scanner's entry is followed by its status (vnd_client_cb).
LEMMA TagStatusShown ==
  ASSUME IInv, NEW n \in Node, TagStatus(n), NEW m \in Node
  PROVE  Shown(m)'
<1> USE DEF IInv
<1>0. /\ seen \in [Node -> 0 .. Never] /\ online \in [Node -> BOOLEAN] /\ Never # 0
      /\ other' = other
  BY Constants DEF TypeOK, Never, TagStatus, count
<1>1. Shown(m)
  BY DEF Shown, OnlineSeen, StatusAgrees
<1>2. CASE UNCHANGED <<seen, online, told>>
  BY <1>0, <1>1, <1>2 DEF Shown
<1>3. CASE ~UNCHANGED <<seen, online, told>>
  <2>1. /\ seen' = [seen EXCEPT ![n] = 0] /\ online' = [online EXCEPT ![n] = TRUE]
        /\ Tell(n, TRUE)
    BY <1>3 DEF TagStatus
  <2>2. other = 0 => n \in told' /\ \A k \in Node \ {n} : k \in told' <=> k \in told
    BY <2>1, TellTold
  <2>3. QED
    BY <1>0, <1>1, <2>1, <2>2 DEF Shown
<1>4. QED
  BY <1>2, <1>3

\* A node that joins, or is given up, is forgotten; one that is configured has not been heard.
LEMMA JoinShown ==
  ASSUME IInv, NEW n \in Node,
         Join(n) \/ ConfigStart(n) \/ ConfigDone(n) \/ ConfigStalls(n) \/ ConfigAbort(n),
         NEW m \in Node
  PROVE  Shown(m)'
<1> USE DEF IInv
<1>0. /\ seen \in [Node -> 0 .. Never] /\ online \in [Node -> BOOLEAN] /\ other' = other
  BY DEF TypeOK, Join, ConfigStart, ConfigDone, ConfigStalls, ConfigAbort, count, Trouble
<1>1. Shown(m)
  BY DEF Shown, OnlineSeen, StatusAgrees
<1>2. CASE Join(n) \/ ConfigAbort(n)
  <2>1. /\ seen' = [seen EXCEPT ![n] = Never] /\ online' = [online EXCEPT ![n] = FALSE]
        /\ told' = told
    BY <1>2 DEF Join, ConfigAbort, Forget, board
  <2>2. QED
    BY <1>0, <1>1, <2>1 DEF Shown
<1>3. CASE ConfigStart(n) \/ ConfigStalls(n)
  BY <1>0, <1>1, <1>3 DEF ConfigStart, ConfigStalls, table, board, Shown
<1>4. CASE ConfigDone(n)
  <2>1. seen[n] = Never /\ ~online[n]
    BY <1>4 DEF ConfigDone, InConfig, Joining, OnlineSeen
  <2>2. seen' = seen /\ online' = online /\ Tell(n, TRUE)
    BY <1>4 DEF ConfigDone
  <2>3. m # n => (m \in told' <=> m \in told)
    BY <2>2 DEF Tell
  <2>4. QED
    BY <1>0, <1>1, <2>1, <2>2, <2>3 DEF Shown
<1>5. QED
  BY <1>2, <1>3, <1>4

\* The watchdog forgets all nodes or none; the world and time change no entry and no row.
LEMMA OthersShown ==
  ASSUME IInv, Next, NEW m \in Node,
         \/ PingNext \/ PingSend \/ PingExpires \/ PingLost
         \/ Watchdog \/ World \/ Tick
  PROVE  Shown(m)'
<1> USE DEF IInv
<1>1. Shown(m)
  BY DEF Shown, OnlineSeen, StatusAgrees
<1>2. other' = 0 => other = 0
  BY OtherGrows
<1>3. CASE Tick
  BY <1>1, <1>2, <1>3, TickTypes DEF Tick, board, Shown
<1>4. CASE Wipe
  BY <1>4 DEF Wipe, Forgotten, AllOff, Shown
<1>5. CASE \/ PingNext \/ PingSend \/ PingExpires \/ PingLost
           \/ Watch \/ WindowEnds \/ ResetTry \/ ResetDone \/ World
  <2>1. seen' = seen /\ online' = online /\ told' = told
    BY <1>5 DEF PingNext, PingSend, PingExpires, PingLost, Watch, WindowEnds, ResetTry, ResetDone,
       World, NodeFails, NodeReturns, RadioFails, RadioReturns, Disconnect, Connect, OtaStart,
       OtaEnd, table, board
  <2>2. QED
    BY <1>1, <1>2, <2>1 DEF Shown
<1>6. QED
  BY <1>3, <1>4, <1>5 DEF Watchdog

\* Every step keeps the strengthening.
LEMMA Invariance ==
  ASSUME IInv, [Next]_vars
  PROVE  IInv'
<1>1. CASE UNCHANGED vars
  BY <1>1 DEF IInv, TypeOK, Joining, InConfig, OneTask, OnlineSeen, Connected, StatusAgrees, vars,
     field, table, board, count
<1>2. CASE Next
  <2>1. TypeOK'
    BY StepTypes DEF IInv
  <2>2. Joining' /\ InConfig' /\ OneTask'
    BY <1>2, JoiningStep
  <2>3. Connected'
    BY <1>2, ConnectedStep DEF IInv
  <2>4. \A m \in Node : Shown(m)'
    BY <1>2, PingShown, TagStatusShown, JoinShown, OthersShown, Steps DEF PingTask
  <2>5. OnlineSeen' /\ StatusAgrees'
    BY <2>4 DEF Shown, OnlineSeen, StatusAgrees
  <2>6. QED
    BY <2>1, <2>2, <2>3, <2>5 DEF IInv
<1>3. QED
  BY <1>1, <1>2

\* Theorem.  As long as no connection was lost, ThingsBoard shows every node that was heard since
\* it joined as the node table does: what the ping task, the mesh callbacks, the configuration
\* and the watchdog do to the table is what they publish.
THEOREM BoardAgrees == Spec => []StatusAgrees
<1>1. Init => IInv
  BY InitInv
<1>2. IInv /\ [Next]_vars => IInv'
  BY Invariance
<1>3. IInv => StatusAgrees
  BY DEF IInv
<1>4. QED
  BY <1>1, <1>2, <1>3, PTL DEF Spec
=============================================================================

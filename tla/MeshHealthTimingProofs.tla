----------------------- MODULE MeshHealthTimingProofs -----------------------
(***************************************************************************)
(* MeshHealth: the delays of node_ping_task fit into the watchdog's        *)
(* window.  As long as nothing goes wrong an answer comes before the       *)
(* window ends: the time until the next one, Due, is less than what is     *)
(* left of the window, however many nodes are configured in between.       *)
(***************************************************************************)
EXTENDS MeshHealthProofs, FiniteSetTheorems

\* The longest way from one answer to the next: the pauses after a node and between rounds, the
\* configuration of all nodes but the one that is pinged, and the answer's own way.
DelaysFit ==
  /\ PingStart <= Settle + PingEvery /\ MaxAnswer < AckTimeout
  /\ PingGap + PingEvery + MaxAnswer + ConfigTime * (Slots - 1) < Window

\* For how long the mutex can still be held by config tasks, of nodes that have joined or will.
Waiting == {n \in Node : entry[n] # "done" /\ n # cfg.slot}
Held == cfg.left + ConfigTime * Cardinality(Waiting)

\* How long it takes at most until a node answers a ping, from where node_ping_task is.
Due ==
  IF ping.pc = "wait" THEN MaxAnswer - (AckTimeout - ping.left)
  ELSE Held + MaxAnswer +
         (IF ping.pc = "lock" THEN 0
          ELSE IF ping.pc = "judge" THEN PingGap + PingEvery
          ELSE ping.left + (IF ping.slot = 0 THEN 0 ELSE PingEvery))

\* Nothing has gone wrong: nodes and table agree, nobody gives up.
Sane ==
  /\ alive = Node /\ radio
  /\ \A n \in Node : /\ entry[n] = "none" => dev[n] = "fresh"
                     /\ entry[n] = "new" => dev[n] = "joined"
                     /\ entry[n] = "done" => dev[n] = "bound"
  /\ cfg.slot # 0 => cfg.ok
  /\ cfg.left <= (IF cfg.slot = 0 THEN 0 ELSE ConfigTime)

\* Where the ping task is, and for how long at most.
Paced ==
  /\ ping.pc # "sleep" => ping.slot \in Done
  /\ ping.pc = "wait" => /\ ~ping.lost /\ cfg.slot = 0
                         /\ AckTimeout - ping.left \in 0 .. MaxAnswer
  /\ ping.pc = "sleep" /\ ping.slot # 0 => ping.left <= PingGap
  /\ ping.pc = "sleep" /\ ping.slot = 0 =>
       ping.left <= PingEvery + (IF wd.pc = "settle" THEN wd.left ELSE 0)

\* The watchdog's window outlasts the time until the next answer.
InTime ==
  /\ wd.pc \in {"settle", "idle", "window"}
  /\ wd.pc = "window" /\ ~wd.heard => Done # {} /\ Due < wd.left

Untroubled == trouble = 0 => Sane /\ Paced /\ InTime
Calm == IInv /\ DelaysFit /\ Sane /\ Paced /\ InTime

-----------------------------------------------------------------------------
(* Sizes. *)

\* The delays of the tasks are natural numbers.
LEMMA Delays ==
  /\ MaxAnswer \in Nat /\ PingGap \in Nat /\ PingEvery \in Nat /\ AckTimeout \in Nat
  /\ MsgTimeout \in Nat /\ MaxAnswer <= MsgTimeout /\ Window \in Nat /\ Settle \in Nat
  /\ PingStart \in Nat /\ Slots \in Nat /\ ConfigTime \in Nat /\ ConfigTime > 0
  BY MeshHealthAssumption DEF MeshHealthAssumption

\* The time config tasks need goes with their number (node_config_task).
LEMMA Shares ==
  ASSUME NEW j \in Nat, NEW k \in Nat
  PROVE  /\ ConfigTime * j \in Nat
         /\ ConfigTime * (j + 1) = ConfigTime * j + ConfigTime
         /\ j <= k => ConfigTime * j <= ConfigTime * k
<1>1. ConfigTime \in Nat
  BY Delays
<1>2. \A c \in Nat : c * j \in Nat /\ c * (j + 1) = c * j + c /\ (j <= k => c * j <= c * k)
  OBVIOUS
<1>3. QED
  BY <1>1, <1>2

\* The nodes that wait to be configured are finitely many (node_config_task).
LEMMA WaitingSize ==
  ASSUME TypeOK
  PROVE  /\ IsFiniteSet(Waiting) /\ Cardinality(Waiting) \in Nat
         /\ ConfigTime * Cardinality(Waiting) \in Nat
         /\ Cardinality(Node) = Slots
         /\ IsFiniteSet(Node)
<1>1. IsFiniteSet(Node) /\ Cardinality(Node) = Slots
  BY Delays, FS_Interval DEF Node
<1>2. IsFiniteSet(Waiting)
  BY <1>1, FS_Subset DEF Waiting
<1>3. Cardinality(Waiting) \in Nat
  BY <1>2, FS_CardinalityType
<1>4. QED
  BY <1>1, <1>2, <1>3, Shares

\* The mutex is held for a natural number of units, and while a node is configured for fewer than
\* it would take to configure all others (node_config_task).
LEMMA HeldSize ==
  ASSUME IInv, Sane
  PROVE  /\ Held \in Nat /\ cfg.left \in Nat
         /\ Done # {} => Held <= ConfigTime * (Slots - 1)
<1> USE DEF IInv
<1>1. cfg.left \in Nat /\ cfg.slot \in Node \cup {0}
  BY Constants DEF TypeOK, CfgState
<1>2. Held \in Nat
  BY <1>1, WaitingSize DEF Held
<1>3. ASSUME NEW n \in Done  PROVE Held <= ConfigTime * (Slots - 1)
  <2>1. n \in Node /\ Slots - 1 \in Nat
    BY Delays DEF Done, Node
  <2>2. CASE cfg.slot = 0 \/ cfg.slot = n
    <3>1. Waiting \in SUBSET (Node \ {n})
      BY <1>3 DEF Waiting, Done
    <3>2. IsFiniteSet(Node \ {n}) /\ Cardinality(Node \ {n}) = Slots - 1
      BY <2>1, WaitingSize, FS_RemoveElement
    <3>3. Cardinality(Waiting) <= Slots - 1
      BY <3>1, <3>2, FS_Subset
    <3>4. ConfigTime * Cardinality(Waiting) <= ConfigTime * (Slots - 1)
      BY <2>1, <3>3, WaitingSize, Shares
    <3>5. cfg.left = 0
      <4>1. cfg.slot = 0
        BY <1>3, <2>2 DEF InConfig, Done
      <4>2. QED
        BY <1>1, <4>1 DEF Sane
    <3>6. QED
      BY <3>4, <3>5, <2>1, WaitingSize, Shares DEF Held
  <2>3. CASE cfg.slot # 0 /\ cfg.slot # n
    <3> DEFINE m == cfg.slot
    <3>1. m \in Node /\ Waiting \in SUBSET ((Node \ {n}) \ {m})
      BY <1>1, <1>3, <2>3 DEF Waiting, Done
    <3>2. /\ IsFiniteSet((Node \ {n}) \ {m})
          /\ Cardinality((Node \ {n}) \ {m}) = Slots - 2
      <4>1. IsFiniteSet(Node \ {n}) /\ Cardinality(Node \ {n}) = Slots - 1
        BY <2>1, WaitingSize, FS_RemoveElement
      <4>2. m \in Node \ {n} /\ Slots \in Nat
        BY <2>3, <3>1, Delays
      <4>3. Cardinality((Node \ {n}) \ {m}) = Cardinality(Node \ {n}) - 1
        BY <4>1, <4>2, FS_RemoveElement
      <4>4. IsFiniteSet((Node \ {n}) \ {m})
        BY <4>1, FS_RemoveElement
      <4>5. QED
        BY <4>1, <4>2, <4>3, <4>4
    <3>3. Cardinality(Waiting) <= Slots - 2 /\ Cardinality(Waiting) \in Nat
      BY <3>1, <3>2, WaitingSize, FS_Subset
    <3>4. Slots - 2 \in Nat
      BY <3>3, Delays
    <3>5. /\ ConfigTime * Cardinality(Waiting) <= ConfigTime * (Slots - 2)
          /\ ConfigTime * ((Slots - 2) + 1) = ConfigTime * (Slots - 2) + ConfigTime
          /\ ConfigTime * (Slots - 2) \in Nat
      BY <3>3, <3>4, Shares
    <3>6. (Slots - 2) + 1 = Slots - 1
      BY Delays
    <3>7. cfg.left <= ConfigTime
      BY <2>3 DEF Sane
    <3> HIDE DEF m
    <3> DEFINE A == ConfigTime * Cardinality(Waiting)
               B == ConfigTime * (Slots - 2)
               C == ConfigTime * (Slots - 1)
    <3>8. A \in Nat /\ B \in Nat /\ A <= B /\ C = B + ConfigTime /\ Held = cfg.left + A
      BY <3>5, <3>6, WaitingSize DEF Held
    <3> HIDE DEF A, B
    <3>9. Held <= C
      BY <1>1, <3>7, <3>8, Delays
    <3>10. QED
      BY <3>9
  <2>4. QED
    BY <2>2, <2>3
<1>4. QED
  BY <1>1, <1>2, <1>3

\* The next answer is a natural number of units away, and, once the mesh has settled and there is
\* a configured node, nearer than a window is long (node_ping_task).
LEMMA DueSize ==
  ASSUME Calm
  PROVE  /\ Due \in Nat
         /\ (wd.pc # "settle" \/ wd.left = 0) /\ Done # {} => Due < Window
<1> USE DEF Calm
<1>0. IInv /\ TypeOK /\ Sane /\ Paced /\ DelaysFit
  BY DEF IInv
<1>1. /\ ping \in PingState /\ wd \in WdState /\ Held \in Nat
      /\ Done # {} => Held <= ConfigTime * (Slots - 1)
  BY <1>0, HeldSize DEF TypeOK, PingState, WdState
<1>2. Done # {} => ConfigTime * (Slots - 1) \in Nat
  <2>1. Done # {} => Slots - 1 \in Nat
    BY Delays DEF Done, Node
  <2>2. QED
    BY <2>1, Shares
<1> DEFINE C == ConfigTime * (Slots - 1)
<1>3. Done # {} => PingGap + PingEvery + MaxAnswer + C < Window
  BY <1>0 DEF DelaysFit
<1>4. C = ConfigTime * (Slots - 1)
  OBVIOUS
<1> HIDE DEF C
<1>5. Done # {} => C \in Nat /\ Held <= C
  BY <1>1, <1>2, <1>4
<1>6. CASE ping.pc = "wait"
  BY <1>0, <1>1, <1>3, <1>5, <1>6, Delays DEF Paced, Due, PingState
<1>7. CASE ping.pc \in {"lock", "judge"}
  BY <1>0, <1>1, <1>3, <1>5, <1>7, Delays DEF Due, PingState
<1>8. CASE ping.pc = "sleep" /\ ping.slot # 0
  BY <1>0, <1>1, <1>3, <1>5, <1>8, Delays DEF Paced, Due, PingState
<1>9. CASE ping.pc = "sleep" /\ ping.slot = 0
  <2>1. Due = Held + MaxAnswer + ping.left /\ ping.left \in Nat
    BY <1>1, <1>9, Delays DEF Due, PingState
  <2>2. wd.pc # "settle" \/ wd.left = 0 => ping.left <= PingEvery
    BY <1>0, <1>9, Delays DEF Paced
  <2>3. QED
    BY <1>1, <1>3, <1>5, <2>1, <2>2, Delays
<1>10. QED
  BY <1>1, <1>6, <1>7, <1>8, <1>9 DEF PingState

-----------------------------------------------------------------------------
(* Steps, as long as nothing goes wrong. *)

Good == Sane /\ Paced /\ InTime

\* Nothing can go right again: the trouble is counted (node failures, losses, slow configuration).
LEMMA TroubleGrows ==
  ASSUME TypeOK, Next
  PROVE  trouble' = 0 => trouble = 0
<1>0. trouble \in Nat
  BY Constants DEF TypeOK
<1>1. trouble' \in {trouble, trouble + 1}
  BY DEF Next, PingTask, PingNext, PingSend, Answer, PingExpires, PingJudge, PingLost, TagStatus,
    Join, ConfigTask, ConfigStart, ConfigDone, ConfigStalls, ConfigAbort, Watchdog, Watch,
    WindowEnds, ResetTry, ResetDone, Wipe, Broadcast, Tick, NodeFails, NodeReturns, RadioFails,
    RadioReturns, Disconnect, Connect, OtaStart, OtaEnd, Trouble, Other, count
<1>2. QED
  BY <1>0, <1>1

\* What else goes on does not matter (updates, MQTT, tag reports).
LEMMA QuietStep ==
  ASSUME Calm, UNCHANGED <<dev, alive, radio, entry, cfg>>,
         ping' \in {ping, [ping EXCEPT !.young = TRUE]}, wd' \in {wd, [wd EXCEPT !.heard = TRUE]}
  PROVE  Good'
<1>1. ping \in PingState /\ wd \in WdState
  BY DEF Calm, IInv, TypeOK, PingState, WdState
<1>2. /\ ping'.pc = ping.pc /\ ping'.slot = ping.slot /\ ping'.left = ping.left
      /\ ping'.lost = ping.lost
      /\ wd'.pc = wd.pc /\ wd'.left = wd.left /\ (~wd'.heard => ~wd.heard)
  BY <1>1 DEF PingState, WdState
<1>3. Done' = Done /\ Waiting' = Waiting
  BY DEF Done, Waiting
<1>4. Due' = Due
  BY <1>2, <1>3 DEF Due, Held
<1>5. Sane'
  BY DEF Calm, Sane
<1>6. Paced'
  BY <1>2, <1>3 DEF Calm, Paced
<1>7. InTime'
  BY <1>2, <1>3, <1>4 DEF Calm, InTime
<1>8. QED
  BY <1>5, <1>6, <1>7 DEF Good

\* A round of pings: the pauses and the next node, its turn, its answer (node_ping_task).
LEMMA PingStep ==
  ASSUME Calm, PingTask
  PROVE  Good'
<1> USE DEF Calm
<1>0. /\ ping \in PingState /\ wd \in WdState /\ Held \in Nat /\ TypeOK
      /\ Sane /\ Paced /\ InTime /\ DelaysFit
  BY HeldSize DEF IInv, TypeOK, PingState, WdState
<1>1. CASE PingNext
  <2>1. UNCHANGED <<dev, alive, radio, entry, cfg, wd>>
    BY <1>1 DEF PingNext, field, table
  <2>2. Done' = Done /\ Held' = Held
    BY <2>1 DEF Done, Held, Waiting
  <2>3. Sane'
    BY <1>0, <2>1 DEF Sane
  <2>4. CASE {n \in Done : n > ping.slot} = {}
    <3>1. /\ ping'.pc = "sleep" /\ ping'.slot = 0 /\ ping'.left = PingEvery
          /\ ping.pc = "sleep" /\ ping.left = 0
      BY <1>0, <1>1, <2>4 DEF PingNext, PingState
    <3>2. Paced'
      BY <1>0, <2>1, <3>1, Delays DEF Paced, WdState
    <3>3. Done # {} => ping.slot # 0
      BY <2>4, Constants DEF Done, Node
    <3>4. Done # {} => Due' = Due
      BY <1>0, <2>2, <3>1, <3>3, Delays DEF Due
    <3>5. InTime'
      BY <1>0, <2>1, <2>2, <3>4 DEF InTime
    <3>6. QED
      BY <2>3, <3>2, <3>5 DEF Good
  <2>5. CASE {n \in Done : n > ping.slot} # {}
    <3>1. PICK n \in {m \in Done : m > ping.slot} :
            ping' = [ping EXCEPT !.pc = "lock", !.slot = n]
      BY <1>1, <2>5 DEF PingNext
    <3>2. /\ ping'.pc = "lock" /\ ping'.slot \in Done
          /\ ping.pc = "sleep" /\ ping.left = 0
      BY <1>0, <1>1, <3>1 DEF PingNext, PingState
    <3>3. Paced'
      BY <2>2, <3>2 DEF Paced
    <3>4. Due' <= Due
      BY <1>0, <2>2, <3>2, Delays DEF Due
    <3>5. Due \in Nat /\ Due' \in Nat
      BY <1>0, <2>2, <3>2, DueSize, Delays DEF Due
    <3>6. InTime'
      BY <1>0, <2>1, <2>2, <3>4, <3>5 DEF InTime, WdState
    <3>7. QED
      BY <2>3, <3>3, <3>6 DEF Good
  <2>6. QED
    BY <2>4, <2>5
<1>2. CASE PingSend
  <2>1. UNCHANGED <<dev, alive, radio, entry, cfg, wd>>
    BY <1>2 DEF PingSend, field, table
  <2>2. Done' = Done /\ Held' = Held
    BY <2>1 DEF Done, Held, Waiting
  <2>3. ping.pc = "lock" /\ cfg.slot = 0 /\ ping.slot \in Done /\ radio
    BY <1>0, <1>2 DEF PingSend, MutexFree, Paced, Sane
  <2>4. /\ ping'.pc = "wait" /\ ping'.left = AckTimeout /\ ~ping'.lost
        /\ ping'.slot = ping.slot
    BY <1>0, <1>2, <2>3 DEF PingSend, PingState, Done
  <2>5. Sane'
    BY <1>0, <2>1 DEF Sane
  <2>6. Paced'
    BY <2>1, <2>2, <2>3, <2>4, Delays DEF Paced
  <2>7. Due' <= Due /\ Due' \in Nat /\ Due \in Nat
    BY <1>0, <2>2, <2>3, <2>4, Delays DEF Due
  <2>8. InTime'
    BY <1>0, <2>1, <2>2, <2>7 DEF InTime, WdState
  <2>9. QED
    BY <2>5, <2>6, <2>8 DEF Good
<1>3. CASE Answer
  <2>1. UNCHANGED <<dev, alive, radio, entry, cfg>>
    BY <1>3 DEF Answer, field
  <2>2. Done' = Done
    BY <2>1 DEF Done
  <2>3. ping.slot \in Done
    BY <1>0, <1>3 DEF Answer, Paced
  <2>4. /\ ping'.pc = "judge" /\ ping'.slot = ping.slot
        /\ wd'.heard /\ wd'.pc = wd.pc
    BY <1>0, <1>3, <2>3 DEF Answer, PingState, WdState, Done
  <2>5. Sane'
    BY <1>0, <2>1 DEF Sane
  <2>6. Paced'
    BY <2>2, <2>3, <2>4 DEF Paced
  <2>7. InTime'
    BY <1>0, <2>4 DEF InTime
  <2>8. QED
    BY <2>5, <2>6, <2>7 DEF Good
<1>4. CASE PingExpires
  BY <1>0, <1>4, Delays DEF PingExpires, Paced, DelaysFit
<1>5. CASE PingJudge
  <2>1. UNCHANGED <<dev, alive, radio, entry, cfg, wd>>
    BY <1>5 DEF PingJudge, field
  <2>2. Done' = Done /\ Held' = Held
    BY <2>1 DEF Done, Held, Waiting
  <2>3. /\ ping.pc = "judge" /\ ping.slot \in Done
        /\ ping'.pc = "sleep" /\ ping'.slot = ping.slot /\ ping'.left = PingGap
    BY <1>0, <1>5 DEF PingJudge, PingState, Paced
  <2>4. ping.slot # 0
    BY <2>3, Constants DEF Done
  <2>5. Sane'
    BY <1>0, <2>1 DEF Sane
  <2>6. Paced'
    BY <2>2, <2>3, <2>4, Delays DEF Paced
  <2>7. Due' = Due
    BY <1>0, <2>2, <2>3, <2>4, Delays DEF Due
  <2>8. InTime'
    BY <1>0, <2>1, <2>2, <2>7 DEF InTime
  <2>9. QED
    BY <2>5, <2>6, <2>8 DEF Good
<1>6. QED
  BY <1>1, <1>2, <1>3, <1>4, <1>5 DEF PingTask

\* A node joins and is configured; the time it takes moves from those that wait to the task that
\* works (mesh_prov_cb, node_config_task).
LEMMA ConfigStep ==
  ASSUME Calm, trouble' = 0, NEW n \in Node,
         Join(n) \/ ConfigStart(n) \/ ConfigDone(n) \/ ConfigStalls(n) \/ ConfigAbort(n)
  PROVE  Good'
<1> USE DEF Calm
<1>0. /\ ping \in PingState /\ cfg \in CfgState /\ Held \in Nat /\ TypeOK
      /\ entry \in [Node -> {"none", "new", "done"}]
      /\ dev \in [Node -> {"fresh", "joined", "bound"}]
      /\ Sane /\ Paced /\ InTime /\ InConfig /\ Due \in Nat /\ wd \in WdState
  BY HeldSize, DueSize DEF IInv, TypeOK, PingState, CfgState, WdState
<1>1. CASE Join(n)
  <2>1. UNCHANGED <<alive, radio, cfg, ping, wd>>
    BY <1>1 DEF Join
  <2>2. /\ entry[n] = "none" /\ dev' = [dev EXCEPT ![n] = "joined"]
        /\ entry' = [entry EXCEPT ![n] = "new"]
    BY <1>0, <1>1 DEF Join, Sane
  <2>3. Done' = Done
    BY <1>0, <2>2 DEF Done
  <2>4. n # cfg.slot
    BY <1>0, <2>2 DEF InConfig
  <2>5. Waiting' = Waiting
    BY <1>0, <2>1, <2>2 DEF Waiting
  <2>6. Due' = Due
    BY <2>1, <2>5 DEF Due, Held
  <2>7. Sane'
    BY <1>0, <2>1, <2>2 DEF Sane
  <2>8. Paced' /\ InTime'
    BY <1>0, <2>1, <2>3, <2>6 DEF Paced, InTime
  <2>9. QED
    BY <2>7, <2>8 DEF Good
<1>2. CASE ConfigStart(n)
  <2>1. UNCHANGED <<dev, alive, radio, entry, ping, wd>>
    BY <1>2 DEF ConfigStart, field, table
  <2>2. /\ n \in queue /\ cfg.slot = 0 /\ ping.pc # "wait"
    BY <1>2 DEF ConfigStart, MutexFree
  <2>3. cfg' = [slot |-> n, left |-> ConfigTime, ok |-> TRUE]
    <3>1. ~Trouble
      BY <1>0, Constants DEF TypeOK, Trouble
    <3>2. QED
      BY <1>2, <3>1 DEF ConfigStart
  <2>4. entry[n] = "new" /\ n # 0
    BY <1>0, <2>2, Constants DEF InConfig
  <2>5. n \in Waiting /\ Waiting' = Waiting \ {n}
    BY <1>0, <2>1, <2>2, <2>3, <2>4, Constants DEF Waiting
  <2>6. /\ IsFiniteSet(Waiting) /\ Cardinality(Waiting) \in Nat
        /\ IsFiniteSet(Waiting \ {n}) /\ Cardinality(Waiting \ {n}) \in Nat
    BY <1>0, WaitingSize, FS_RemoveElement, FS_CardinalityType
  <2>7. Cardinality(Waiting) = Cardinality(Waiting') + 1 /\ Cardinality(Waiting') \in Nat
    BY <2>5, <2>6, FS_RemoveElement
  <2>8. Held' = Held
    <3> DEFINE k == Cardinality(Waiting')
               A == ConfigTime * k
    <3>1. ConfigTime * Cardinality(Waiting) = A + ConfigTime /\ A \in Nat
      BY <2>7, Shares
    <3>2. cfg.left = 0 /\ cfg'.left = ConfigTime
      BY <1>0, <2>2, <2>3 DEF Sane, CfgState
    <3>3. Held = cfg.left + ConfigTime * Cardinality(Waiting) /\ Held' = cfg'.left + A
      BY DEF Held
    <3> HIDE DEF A
    <3>4. QED
      BY <3>1, <3>2, <3>3, Delays
  <2>9. Sane'
    BY <1>0, <2>1, <2>3, <2>4, Delays DEF Sane
  <2>10. Done' = Done /\ Due' = Due
    BY <2>1, <2>2, <2>8 DEF Done, Due
  <2>11. Paced' /\ InTime'
    BY <1>0, <2>1, <2>2, <2>10 DEF Paced, InTime
  <2>12. QED
    BY <2>9, <2>11 DEF Good
<1>3. CASE ConfigDone(n)
  <2>1. UNCHANGED <<alive, radio, ping, wd>>
    BY <1>3 DEF ConfigDone
  <2>2. /\ cfg.slot = n /\ cfg.left = 0 /\ cfg'.slot = 0 /\ cfg'.left = 0
        /\ dev' = [dev EXCEPT ![n] = "bound"] /\ entry' = [entry EXCEPT ![n] = "done"]
    BY <1>3 DEF ConfigDone, NoConfig
  <2>3. Done' = Done \cup {n}
    BY <1>0, <2>2 DEF Done
  <2>4. Waiting' = Waiting
    BY <1>0, <2>2, Constants DEF Waiting
  <2>5. Due' = Due
    BY <2>1, <2>2, <2>4 DEF Due, Held
  <2>6. Sane'
    BY <1>0, <2>1, <2>2 DEF Sane
  <2>7. Paced' /\ InTime'
    BY <1>0, <2>1, <2>2, <2>3, <2>5, Constants DEF Paced, InTime
  <2>8. QED
    BY <2>6, <2>7 DEF Good
<1>4. CASE ConfigStalls(n)
  BY <1>0, <1>4 DEF ConfigStalls, Up, Sane
<1>5. CASE ConfigAbort(n)
  BY <1>0, <1>5, Constants DEF ConfigAbort, Sane
<1>6. QED
  BY <1>1, <1>2, <1>3, <1>4, <1>5

\* The watchdog opens a window that is long enough, and closes none without an answer
\* (data_watchdog_task).
LEMMA WatchdogStep ==
  ASSUME Calm, Watchdog
  PROVE  Good'
<1> USE DEF Calm
<1>0. /\ ping \in PingState /\ wd \in WdState /\ TypeOK
      /\ Sane /\ Paced /\ InTime /\ Due \in Nat
  BY DueSize DEF IInv, TypeOK, PingState, WdState
<1>1. Watch \/ WindowEnds
  BY <1>0 DEF Watchdog, ResetTry, ResetDone, Wipe, InTime
<1>2. UNCHANGED <<dev, alive, radio, entry, ping, cfg>> /\ wd.left = 0
  BY <1>1 DEF Watch, WindowEnds, field, table
<1>3. WatchAgain
  BY <1>0, <1>1 DEF Watch, WindowEnds, InTime, WdState
<1>4. \/ wd'.pc = "idle"
      \/ wd'.pc = "window" /\ wd'.left = Window /\ Done # {}
  BY <1>3 DEF WatchAgain, WdBoot
<1>5. Done' = Done /\ Due' = Due
  BY <1>2 DEF Done, Due, Held, Waiting
<1>6. Sane'
  BY <1>0, <1>2 DEF Sane
<1>7. ping.pc = "sleep" /\ ping.slot = 0 => ping.left <= PingEvery
  BY <1>0, <1>2, Delays DEF Paced
<1>8. Paced'
  BY <1>0, <1>2, <1>4, <1>5, <1>7, Delays DEF Paced, PingState
<1>9. Done # {} => Due < Window
  BY <1>2, DueSize
<1>10. InTime'
  BY <1>4, <1>5, <1>9 DEF InTime
<1>11. QED
  BY <1>6, <1>8, <1>10 DEF Good

\* Time goes by: the answer gets as much nearer as the end of the window does.
LEMMA TickStep ==
  ASSUME Calm, Tick
  PROVE  Good'
<1> USE DEF Calm
<1>0. /\ ping \in PingState /\ cfg \in CfgState /\ wd \in WdState /\ TypeOK
      /\ Sane /\ Paced /\ InTime /\ Due \in Nat /\ Held \in Nat /\ DelaysFit
  BY DueSize, HeldSize DEF IInv, TypeOK, PingState, CfgState, WdState
<1>1. UNCHANGED <<dev, alive, radio, entry>>
  BY DEF Tick, field
<1>2. /\ ping'.pc = ping.pc /\ ping'.slot = ping.slot /\ ping'.lost = ping.lost
      /\ ping'.left = Less(ping.left)
      /\ cfg'.slot = cfg.slot /\ cfg'.ok = cfg.ok /\ cfg'.left = Less(cfg.left)
      /\ wd'.pc = wd.pc /\ wd'.heard = wd.heard /\ wd'.left = Less(wd.left)
  BY <1>0 DEF Tick, PingState, CfgState, WdState
<1>3. wd.left > 0 /\ wd'.left = wd.left - 1 /\ wd.left \in Nat
  BY <1>0, <1>2 DEF Tick, Urgent, Less, WdState
<1>4. Done' = Done /\ Waiting' = Waiting
  BY <1>1, <1>2 DEF Done, Waiting
<1>5. cfg'.left <= cfg.left /\ cfg.left \in Nat /\ cfg'.left \in Nat
  BY <1>0, <1>2 DEF Less, CfgState
<1>6. Held' = Held - cfg.left + cfg'.left
  <2> DEFINE A == ConfigTime * Cardinality(Waiting)
  <2>1. A \in Nat /\ Held = cfg.left + A /\ Held' = cfg'.left + A
    BY <1>0, <1>4, WaitingSize DEF Held
  <2> HIDE DEF A
  <2>2. QED
    BY <1>5, <2>1
<1>7. Sane'
  BY <1>0, <1>1, <1>2, <1>5, Delays DEF Sane
<1>8. CASE ping.pc = "sleep"
  <2>1. ping.left > 0 /\ ping.left \in Nat /\ ping'.left = ping.left - 1
    BY <1>0, <1>2, <1>8 DEF Tick, Urgent, Less, PingState
  <2>2. Paced'
    BY <1>0, <1>2, <1>3, <1>8, <2>1, Delays DEF Paced
  <2>3. Due' <= Due - 1
    BY <1>0, <1>2, <1>5, <1>6, <1>8, <2>1, Delays DEF Due
  <2>4. Due' \in Int
    BY <1>0, <1>2, <1>5, <1>6, <1>8, <2>1, Delays DEF Due, PingState
  <2>5. InTime'
    BY <1>0, <1>2, <1>3, <1>4, <2>3, <2>4 DEF InTime
  <2>6. QED
    BY <1>7, <2>2, <2>5 DEF Good
<1>9. CASE ping.pc = "lock"
  <2>1. cfg.slot # 0 /\ cfg.left > 0 /\ cfg'.left = cfg.left - 1
    BY <1>0, <1>2, <1>9 DEF Tick, Urgent, MutexFree, Less, CfgState
  <2>2. Paced'
    BY <1>0, <1>2, <1>4, <1>9 DEF Paced
  <2>3. Due' = Due - 1
    BY <1>0, <1>2, <1>5, <1>6, <1>9, <2>1, Delays DEF Due
  <2>4. InTime'
    BY <1>0, <1>2, <1>3, <1>4, <2>3 DEF InTime
  <2>5. QED
    BY <1>7, <2>2, <2>4 DEF Good
<1>10. CASE ping.pc = "wait"
  <2>1. ping.left > 0 /\ ping.left \in Nat /\ ping'.left = ping.left - 1
    BY <1>0, <1>2, <1>10 DEF Tick, Urgent, Less, PingState
  <2>2. Up(ping.slot) /\ dev[ping.slot] # "fresh"
    BY <1>0, <1>10, Constants DEF Paced, Sane, Up, Done
  <2>3. AckTimeout - ping.left < MaxAnswer
    BY <1>0, <1>10, <2>1, <2>2, Delays DEF Tick, Urgent, AnswerDue, Paced
  <2>4. Paced'
    BY <1>0, <1>2, <1>4, <1>10, <2>1, <2>3, Delays DEF Paced
  <2>5. Due' = Due - 1
    BY <1>0, <1>2, <1>10, <2>1, Delays DEF Due
  <2>6. InTime'
    BY <1>0, <1>2, <1>3, <1>4, <2>5 DEF InTime
  <2>7. QED
    BY <1>7, <2>4, <2>6 DEF Good
<1>11. CASE ping.pc = "judge"
  BY <1>11 DEF Tick, Urgent
<1>12. QED
  BY <1>0, <1>8, <1>9, <1>10, <1>11 DEF PingState

-----------------------------------------------------------------------------
(* The watchdog is right. *)

\* The gateway boots with time to spare: the first round of pings begins while the mesh settles
\* (node_ping_task, data_watchdog_task).
LEMMA InitGood ==
  ASSUME Init, DelaysFit
  PROVE  Good
<1>1. PICK known \in SUBSET Node :
        /\ entry = [n \in Node |-> IF n \in known THEN "done" ELSE "none"]
        /\ dev = [n \in Node |-> IF n \in known THEN "bound" ELSE "fresh"]
  BY DEF Init
<1>2. alive = Node /\ radio = TRUE /\ cfg = NoConfig /\ ping = PingBoot /\ wd = WdBoot
  BY DEF Init
<1>3. Sane
  BY <1>1, <1>2, Delays DEF Sane, NoConfig
<1>4. Paced
  BY <1>2, Delays DEF Paced, PingBoot, WdBoot, DelaysFit
<1>5. InTime
  BY <1>2 DEF InTime, WdBoot
<1>6. QED
  BY <1>3, <1>4, <1>5 DEF Good

\* A step without trouble leaves the watchdog with an answer to come in time.
LEMMA GoodStep ==
  ASSUME Calm, Next, trouble' = 0
  PROVE  Good'
<1>0. trouble \in Nat /\ trouble = 0
  BY TroubleGrows, Constants DEF Calm, IInv, TypeOK
<1>1. ~Trouble
  BY <1>0 DEF Trouble
<1>2. CASE PingTask \/ Watchdog \/ Tick
  BY <1>2, PingStep, WatchdogStep, TickStep
<1>3. CASE ConfigTask \/ \E n \in Node : Join(n)
  BY <1>3, ConfigStep DEF ConfigTask
<1>4. ASSUME NEW n \in Node, TagStatus(n)
      PROVE  Good'
  BY <1>4, QuietStep DEF TagStatus, field
<1>5. CASE PingLost \/ RadioFails \/ \E n \in Node : NodeFails(n)
  BY <1>1, <1>5 DEF PingLost, RadioFails, NodeFails
<1>6. CASE RadioReturns \/ \E n \in Node : NodeReturns(n)
  BY <1>6 DEF RadioReturns, NodeReturns, Calm, Sane
<1>7. CASE Disconnect \/ Connect \/ OtaStart \/ OtaEnd
  BY <1>7, QuietStep DEF Disconnect, Connect, OtaStart, OtaEnd, field, table
<1>8. QED
  BY <1>2, <1>3, <1>4, <1>5, <1>6, <1>7 DEF Next

\* ResetHasCause: the watchdog starts a reset only after something went wrong, whatever the
\* number of nodes that join and are configured, as long as the delays of the tasks fit.
THEOREM NoNeedlessReset == DelaysFit => (Spec => []ResetHasCause)
<1> SUFFICES ASSUME DelaysFit  PROVE Spec => []ResetHasCause
  OBVIOUS
<1> DEFINE Inv == IInv /\ Untroubled
<1>1. Init => Inv
  BY InitInv, InitGood DEF Untroubled, Good
<1>2. Inv /\ [Next]_vars => Inv'
  <2> SUFFICES ASSUME Inv, [Next]_vars  PROVE Inv'
    OBVIOUS
  <2>1. IInv'
    BY Invariance
  <2>2. CASE UNCHANGED vars
    <3>1. UNCHANGED <<dev, alive, radio, entry, cfg, ping, wd, trouble>>
      BY <2>2 DEF vars, field, table, count
    <3>2. Untroubled'
      BY <3>1 DEF Untroubled, Sane, Paced, InTime, Done, Due, Held, Waiting
    <3>3. QED
      BY <2>1, <3>2
  <2>3. CASE Next
    <3>1. ASSUME trouble' = 0
          PROVE  Good'
      <4>1. trouble = 0
        BY <2>3, <3>1, TroubleGrows DEF IInv
      <4>2. Calm
        BY <4>1 DEF Calm, Untroubled
      <4>3. QED
        BY <2>3, <3>1, <4>2, GoodStep
    <3>2. QED
      BY <2>1, <3>1 DEF Untroubled, Good
  <2>4. QED
    BY <2>2, <2>3
<1>3. Inv => ResetHasCause
  BY Constants DEF Untroubled, InTime, ResetHasCause, IInv, TypeOK
<1>4. QED
  BY <1>1, <1>2, <1>3, PTL DEF Spec
=============================================================================

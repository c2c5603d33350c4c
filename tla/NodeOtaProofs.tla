--------------------------- MODULE NodeOtaProofs ---------------------------
(* Theorems about NodeOta, for any number of versions, faults, resets and power cuts: its      *)
(* types; that the node leaves the mesh before it restarts; one update at a time; nothing left  *)
(* behind by an update; and that the node implements NodeUpdate.                                *)
EXTENDS NodeOta, FiniteSetTheorems, TLAPS

JobState == [pc : {"none", "group", "driver", "connect", "fetch", "mark", "leave",
                   "unhook", "release", "end"}, quiet : BOOLEAN]
ResetState == [asked : BOOLEAN, event : BOOLEAN, timers : 0..MaxReset]

\* Each fallback task, and each reset command being waited for, is one of the resets asked for
\* (bmt_mesh_local_reset).
TimersCounted ==
  reset.timers + (IF pc["mesh"] = "command" THEN 1 ELSE 0) <= resets
Typed == TypeOK /\ TimersCounted

\* The bounds are natural numbers.
LEMMA Constants ==
  /\ MaxVersion \in Nat /\ MaxRelease \in Nat /\ MaxRace \in Nat /\ MaxFault \in Nat
  /\ MaxReset \in Nat /\ MaxCrash \in Nat
  BY NodeOtaBounds DEF NodeOtaBounds

\* Setting one field of a job's record keeps its type (the steps of ota_wifi_task).
LEMMA GotoType ==
  ASSUME NEW j \in Job, job \in [Job -> JobState],
         NEW l \in {"connect", "fetch", "mark", "leave", "unhook", "release", "end", "driver"},
         Goto(j, l)
  PROVE  job' \in [Job -> JobState]
  BY DEF Goto, JobState

\* A start of the node keeps the types (esp_restart, app_main).
LEMMA BootType ==
  ASSUME Typed, Boot, UNCHANGED <<releases, races, faults, resets>>, crashes' \in 0..MaxCrash
  PROVE  Typed'
<1>1. TypeOK'
  <2>1. flag' \in BOOLEAN /\ wiped' \in BOOLEAN
    BY Zenon DEF Boot
  <2>2. /\ job' \in [Job -> JobState] /\ reset' \in ResetState
        /\ pc' \in [Caller -> {"idle", "checked", "command", "leave"}]
    BY Constants DEF Boot, NoReset, NoJob, JobState, ResetState
  <2>3. QED
    BY Constants, <2>1, <2>2 DEF Typed, TypeOK, Boot, JobState, ResetState
<1>2. TimersCounted'
  BY DEF Typed, TypeOK, TimersCounted, Boot, NoReset, Caller
<1>3. QED
  BY <1>1, <1>2 DEF Typed
-----------------------------------------------------------------------------
(* Types. *)

\* Membership, resets and power cuts keep the types (bmt_mesh_node.c, bmt_factory_reset.c).
LEMMA MeshTypes ==
  ASSUME Typed,
         \/ Join \/ GetKey \/ ResetCmd \/ ResetCmdDone \/ UartReset \/ ResetEvent
         \/ ResetLeave \/ Fallback \/ FactoryReset \/ FactoryLeave \/ Crash
  PROVE  Typed'
<1> USE Constants DEF Caller
<1>0. /\ TypeOK /\ TimersCounted
      /\ reset \in ResetState /\ reset.timers \in Nat /\ resets \in Nat
      /\ pc \in [Caller -> {"idle", "checked", "command", "leave"}]
  BY DEF Typed, TypeOK, ResetState
<1>1. CASE Join
  BY <1>0, <1>1 DEF Join, Typed, TypeOK, TimersCounted, update, image, result, budgets
<1>2. CASE GetKey
  BY <1>0, <1>2 DEF GetKey, Typed, TypeOK, TimersCounted, update, image, result, budgets
<1>3. CASE ResetCmd
  <2>1. resets' \in 0..MaxReset /\ pc' \in [Caller -> {"idle", "checked", "command", "leave"}]
    BY <1>0, <1>3 DEF ResetCmd, TypeOK
  <2>2. TypeOK'
    BY <1>0, <1>3, <2>1 DEF ResetCmd, TypeOK, mesh, update, image, result
  <2>3. TimersCounted'
    BY <1>0, <1>3 DEF ResetCmd, TimersCounted, mesh
  <2>4. QED
    BY <2>2, <2>3 DEF Typed
<1>4. CASE ResetCmdDone
  <2>1. reset' = [asked |-> TRUE, event |-> TRUE, timers |-> reset.timers + 1]
    BY <1>4 DEF ResetCmdDone, LocalReset
  <2>2. reset.timers + 1 <= resets
    BY <1>0, <1>4 DEF ResetCmdDone, TimersCounted
  <2>3. reset' \in ResetState
    BY <1>0, <2>1, <2>2 DEF ResetState, TypeOK
  <2>4. pc' \in [Caller -> {"idle", "checked", "command", "leave"}] /\ pc'["mesh"] = "idle"
    BY <1>0, <1>4 DEF ResetCmdDone
  <2>5. TypeOK'
    BY <1>0, <1>4, <2>3, <2>4
    DEF ResetCmdDone, TypeOK, ResetState, update, image, result, budgets
  <2>6. TimersCounted'
    BY <1>0, <1>4, <2>1, <2>2, <2>4 DEF ResetCmdDone, TimersCounted, budgets
  <2>7. QED
    BY <2>5, <2>6 DEF Typed
<1>5. CASE UartReset
  <2>1. reset' = [asked |-> TRUE, event |-> TRUE, timers |-> reset.timers + 1]
    BY <1>5 DEF UartReset, LocalReset
  <2>2. reset.timers <= resets /\ resets' = resets + 1 /\ resets' \in 0..MaxReset
    BY <1>0, <1>5 DEF UartReset, TimersCounted, TypeOK
  <2>3. reset' \in ResetState
    BY <1>0, <2>1, <2>2 DEF ResetState
  <2>4. TypeOK'
    BY <1>0, <1>5, <2>2, <2>3 DEF UartReset, TypeOK, ResetState, update, image, result
  <2>5. TimersCounted'
    BY <1>0, <1>5, <2>1, <2>2 DEF UartReset, TimersCounted
  <2>6. QED
    BY <2>4, <2>5 DEF Typed
<1>6. CASE ResetEvent
  <2>1. reset' \in ResetState /\ reset'.timers = reset.timers
    BY <1>0, <1>6 DEF ResetEvent, ResetState
  <2>2. /\ pc' \in [Caller -> {"idle", "checked", "command", "leave"}]
        /\ pc'["mesh"] \in {"idle", "leave"}
    BY <1>0, <1>6 DEF ResetEvent
  <2>3. TypeOK'
    BY <1>0, <1>6, <2>1, <2>2
    DEF ResetEvent, TypeOK, ResetState, update, image, result, budgets
  <2>4. TimersCounted'
    BY <1>0, <1>6, <2>1, <2>2 DEF ResetEvent, TimersCounted, budgets
  <2>5. QED
    BY <2>3, <2>4 DEF Typed
<1>7. CASE ResetLeave
  BY <1>0, <1>7, BootType DEF ResetLeave, budgets, TypeOK
<1>8. CASE Fallback
  <2>1. CASE Boot /\ UNCHANGED budgets
    BY <1>0, <2>1, BootType DEF budgets, TypeOK
  <2>2. CASE ~reset.asked /\ reset' = [reset EXCEPT !.timers = @ - 1]
    <3>1. reset.timers > 0
      BY <1>8 DEF Fallback
    <3>2. reset' \in ResetState /\ reset'.timers = reset.timers - 1
      BY <1>0, <2>2, <3>1 DEF ResetState
    <3>3. UNCHANGED <<stack, ram, pc, update, image, server, result, wiped, budgets>>
      BY <1>8, <2>2 DEF Fallback
    <3>4. TypeOK'
      BY <1>0, <3>2, <3>3 DEF TypeOK, ResetState, update, image, result, budgets
    <3>5. TimersCounted'
      BY <1>0, <3>2, <3>3 DEF TimersCounted, budgets
    <3>6. QED
      BY <3>4, <3>5 DEF Typed
  <2>3. QED
    BY <1>8, <2>1, <2>2 DEF Fallback
<1>9. CASE FactoryReset
  <2>1. wiped' \in BOOLEAN /\ pending' \in BOOLEAN
    BY <1>9, Zenon DEF FactoryReset
  <2>2. TypeOK'
    BY <1>0, <1>9, <2>1 DEF FactoryReset, TypeOK, update, image
  <2>3. TimersCounted'
    BY <1>0, <1>9 DEF FactoryReset, TimersCounted
  <2>4. QED
    BY <2>2, <2>3 DEF Typed
<1>10. CASE FactoryLeave
  BY <1>0, <1>10, BootType DEF FactoryLeave, budgets, TypeOK
<1>11. CASE Crash
  <2>1. crashes' \in 0..MaxCrash
    BY <1>0, <1>11 DEF Crash, TypeOK
  <2>2. QED
    BY <1>0, <1>11, <2>1, BootType DEF Crash
<1>12. QED
  BY <1>1, <1>2, <1>3, <1>4, <1>5, <1>6, <1>7, <1>8, <1>9, <1>10, <1>11

\* The steps of bmt_ota_trigger and of ota_wifi_task keep the types.
LEMMA UpdateTypes ==
  ASSUME Typed,
         (\E c \in Caller : Check(c) \/ Start(c)) \/ (\E j \in Job : JobStep(j))
  PROVE  Typed'
<1> USE Constants DEF Caller
<1>0. /\ TypeOK /\ TimersCounted
      /\ pc \in [Caller -> {"idle", "checked", "command", "leave"}]
      /\ job \in [Job -> JobState]
      /\ wifi \subseteq {"group", "netif", "driver", "handlers"}
  BY DEF Typed, TypeOK, JobState
<1>1. ASSUME NEW c \in Caller, Check(c)  PROVE Typed'
  <2>1. /\ pc' \in [Caller -> {"idle", "checked", "command", "leave"}]
        /\ pc["mesh"] # "command" => pc'["mesh"] # "command"
    BY <1>0, <1>1 DEF Check
  <2>2. races' \in 0..MaxRace
    BY <1>0, <1>1 DEF Check, TypeOK
  <2>3. TypeOK'
    BY <1>0, <1>1, <2>1, <2>2 DEF Check, TypeOK, mesh, update, image, result
  <2>4. TimersCounted'
    BY <1>0, <1>1, <2>1 DEF Check, TimersCounted, TypeOK, mesh
  <2>5. QED
    BY <2>3, <2>4 DEF Typed
<1>2. ASSUME NEW c \in Caller, Start(c)  PROVE Typed'
  <2>1. /\ pc' \in [Caller -> {"idle", "checked", "command", "leave"}]
        /\ pc["mesh"] # "command" => pc'["mesh"] # "command"
    BY <1>0, <1>2 DEF Start
  <2>2. job' \in [Job -> JobState]
    BY <1>0, <1>2 DEF Start, JobState
  <2>3. TypeOK'
    BY <1>0, <1>2, <2>1, <2>2 DEF Start, TypeOK, JobState, mesh, image, result, budgets
  <2>4. TimersCounted'
    BY <1>0, <1>2, <2>1 DEF Start, TimersCounted, TypeOK, mesh, budgets
  <2>5. QED
    BY <2>3, <2>4 DEF Typed
<1>3. ASSUME NEW j \in Job, JobStep(j)  PROVE Typed'
  <2>1. ASSUME NEW from, NEW w \in SUBSET {"group", "netif", "driver", "handlers"},
               NEW to \in {"driver", "connect", "fetch", "unhook", "release", "end"},
               Step(j, from, to, w)
        PROVE  Typed'
    <3>1. job' \in [Job -> JobState]
      BY <1>0, <2>1, GotoType DEF Step
    <3>2. TypeOK'
      BY <1>0, <2>1, <3>1 DEF Step, TypeOK, JobState, mesh, image, result, budgets
    <3>3. TimersCounted'
      BY <1>0, <2>1 DEF Step, TimersCounted, mesh, budgets
    <3>4. QED
      BY <3>2, <3>3 DEF Typed
  <2>2. ASSUME NEW from, NEW w \in SUBSET {"group", "netif", "driver", "handlers"},
               Fault(j, from, w)
        PROVE  Typed'
    <3>1. job' \in [Job -> JobState]
      BY <1>0, <2>2, GotoType DEF Fault
    <3>2. faults' \in 0..MaxFault
      BY <1>0, <2>2 DEF Fault, TypeOK
    <3>3. TypeOK'
      BY <1>0, <2>2, <3>1, <3>2 DEF Fault, TypeOK, JobState, mesh, image, result
    <3>4. TimersCounted'
      BY <1>0, <2>2 DEF Fault, TimersCounted, mesh
    <3>5. QED
      BY <3>3, <3>4 DEF Typed
  <2>3. CASE MakeGroup(j) \/ MakeDriver(j) \/ Connected(j) \/ NotConnected(j)
    BY <1>0, <2>1, <2>3 DEF MakeGroup, MakeDriver, Connected, NotConnected
  <2>4. CASE FetchFails(j) \/ Unhook(j) \/ Release(j)
    BY <1>0, <2>1, <2>4 DEF FetchFails, Unhook, Release
  <2>5. CASE GroupFails(j) \/ DriverFails(j)
    BY <1>0, <2>2, <2>5 DEF GroupFails, DriverFails
  <2>6. CASE Aborts(j) \/ Leave(j)
    <3>1. Boot /\ UNCHANGED budgets
      BY <2>6 DEF Aborts, Leave
    <3>2. QED
      BY <1>0, <3>1, BootType DEF budgets, TypeOK
  <2>7. CASE NotNewer(j)
    <3>1. job' \in [Job -> JobState]
      BY <1>0, <2>7 DEF NotNewer, JobState
    <3>2. TypeOK'
      BY <1>0, <2>7, <3>1 DEF NotNewer, TypeOK, JobState, mesh, image, result, budgets
    <3>3. TimersCounted'
      BY <1>0, <2>7 DEF NotNewer, TimersCounted, mesh, budgets
    <3>4. QED
      BY <3>2, <3>3 DEF Typed
  <2>8. CASE Flash(j)
    <3>1. job' \in [Job -> JobState]
      BY <1>0, <2>8, GotoType DEF Flash
    <3>2. TypeOK'
      BY <1>0, <2>8, <3>1 DEF Flash, TypeOK, JobState, mesh, result, budgets
    <3>3. TimersCounted'
      BY <1>0, <2>8 DEF Flash, TimersCounted, mesh, budgets
    <3>4. QED
      BY <3>2, <3>3 DEF Typed
  <2>9. CASE Mark(j)
    <3>1. job' \in [Job -> JobState]
      BY <1>0, <2>9, GotoType DEF Mark
    <3>2. faults' \in 0..MaxFault
      BY <1>0, <2>9 DEF Mark, TypeOK
    <3>3. pending \in BOOLEAN /\ (pending' = TRUE \/ pending' = pending)
      BY <1>0, <2>9 DEF Mark, TypeOK
    <3>4. pending' \in BOOLEAN
      BY <3>3, Zenon
    <3>5. TypeOK'
      BY <1>0, <2>9, <3>1, <3>2, <3>4 DEF Mark, TypeOK, JobState, mesh, image
    <3>6. TimersCounted'
      BY <1>0, <2>9 DEF Mark, TimersCounted, mesh
    <3>7. QED
      BY <3>5, <3>6 DEF Typed
  <2>10. CASE End(j)
    <3>1. job' \in [Job -> JobState]
      BY <1>0, <2>10 DEF End, NoJob, JobState
    <3>2. TypeOK'
      BY <1>0, <2>10, <3>1 DEF End, TypeOK, JobState, mesh, image, result, budgets
    <3>3. TimersCounted'
      BY <1>0, <2>10 DEF End, TimersCounted, mesh, budgets
    <3>4. QED
      BY <3>2, <3>3 DEF Typed
  <2>11. QED
    BY <1>3, <2>3, <2>4, <2>5, <2>6, <2>7, <2>8, <2>9, <2>10 DEF JobStep
<1>4. QED
  BY <1>1, <1>2, <1>3

\* The report task and a new file on the server keep the types (report_pending_task).
LEMMA ReportTypes ==
  ASSUME Typed, ClearPending \/ SendReport \/ \E v \in 0..MaxVersion : NewRelease(v)
  PROVE  Typed'
<1> USE Constants
<1>0. TypeOK /\ TimersCounted
  BY DEF Typed
<1>1. CASE ClearPending
  <2>1. faults' \in 0..MaxFault /\ report' \in {"wait", "send", "done"}
    BY <1>0, <1>1 DEF ClearPending, TypeOK
  <2>2. pending \in BOOLEAN /\ (pending' = FALSE \/ pending' = pending)
    BY <1>0, <1>1, Zenon DEF ClearPending, TypeOK
  <2>3. pending' \in BOOLEAN
    BY <2>2, Zenon
  <2>4. TypeOK'
    BY <1>0, <1>1, <2>1, <2>3 DEF ClearPending, TypeOK, mesh, update, image
  <2>5. TimersCounted'
    BY <1>0, <1>1 DEF ClearPending, TimersCounted, mesh
  <2>6. QED
    BY <2>4, <2>5 DEF Typed
<1>2. CASE SendReport
  <2>1. TypeOK'
    BY <1>0, <1>2 DEF SendReport, TypeOK, mesh, update, image, budgets
  <2>2. TimersCounted'
    BY <1>0, <1>2 DEF SendReport, TimersCounted, mesh, budgets
  <2>3. QED
    BY <2>1, <2>2 DEF Typed
<1>3. ASSUME NEW v \in 0..MaxVersion, NewRelease(v)  PROVE Typed'
  <2>1. TypeOK'
    BY <1>0, <1>3 DEF NewRelease, TypeOK, mesh, update, image, result
  <2>2. TimersCounted'
    BY <1>0, <1>3 DEF NewRelease, TimersCounted, mesh
  <2>3. QED
    BY <2>1, <2>2 DEF Typed
<1>4. QED
  BY <1>1, <1>2, <1>3

\* In the first state the types hold (a node fresh from the factory).
LEMMA InitTypes == Init => Typed
<1>1. ASSUME Init  PROVE TypeOK
  <2>1. flag \in BOOLEAN /\ pending \in BOOLEAN /\ wiped \in BOOLEAN
    BY <1>1, Zenon DEF Init
  <2>2. /\ job \in [Job -> JobState] /\ reset \in ResetState
        /\ pc \in [Caller -> {"idle", "checked", "command", "leave"}]
    BY Constants, <1>1 DEF Init, NoReset, NoJob, JobState, ResetState
  <2>3. QED
    BY Constants, <1>1, <2>1, <2>2 DEF Init, TypeOK, JobState, ResetState
<1>2. Init => TimersCounted
  BY DEF Init, TimersCounted, NoReset, Caller
<1>3. QED
  BY <1>1, <1>2 DEF Typed

\* Every step keeps the types.
LEMMA TypesStep == Typed /\ [Next]_vars => Typed'
<1>1. SUFFICES ASSUME Typed, Next \/ UNCHANGED vars  PROVE Typed'
  OBVIOUS
<1>2. CASE UNCHANGED vars
  <2>1. TypeOK'
    BY <1>1, <1>2 DEF Typed, TypeOK, vars, mesh, update, image, result, budgets
  <2>2. TimersCounted'
    BY <1>1, <1>2 DEF Typed, TimersCounted, vars, mesh, budgets
  <2>3. QED
    BY <2>1, <2>2 DEF Typed
<1>3. CASE Next
  BY <1>1, <1>3, MeshTypes, UpdateTypes, ReportTypes DEF Next
<1>4. QED
  BY <1>1, <1>2, <1>3

\* TypeOK: the types of the node's variables, with no more fallback tasks than resets.
THEOREM NodeOtaTypes == Spec => []TypeOK
<1>1. Spec => []Typed
  BY InitTypes, TypesStep, PTL DEF Spec
<1>2. Typed => TypeOK
  BY DEF Typed
<1>3. QED
  BY <1>1, <1>2, PTL
-----------------------------------------------------------------------------
(* One update at a time. *)

\* What a step outside the update leaves alone.
Untouched == /\ UNCHANGED <<flag, job, wifi, races>>
             /\ \A c \in Caller : pc'[c] = "checked" => pc[c] = "checked"

\* Outside the update a step is a restart or leaves the update alone (bmt_mesh_node.c,
\* bmt_factory_reset.c, report_pending_task).
LEMMA OutsideUpdate ==
  ASSUME Typed,
         \/ Join \/ GetKey \/ ResetCmd \/ ResetCmdDone \/ UartReset \/ ResetEvent
         \/ ResetLeave \/ Fallback \/ FactoryReset \/ FactoryLeave \/ Crash
         \/ ClearPending \/ SendReport \/ \E v \in 0..MaxVersion : NewRelease(v)
  PROVE  Boot \/ Untouched
<1>0. pc \in [Caller -> {"idle", "checked", "command", "leave"}]
  BY DEF Typed, TypeOK
<1>1. CASE Join \/ GetKey \/ UartReset \/ FactoryReset
  BY <1>1 DEF Join, GetKey, UartReset, FactoryReset, Untouched, update, budgets
<1>2. CASE ResetCmd \/ ResetCmdDone
  BY <1>0, <1>2 DEF ResetCmd, ResetCmdDone, Untouched, update, budgets, Caller
<1>3. CASE ResetEvent
  BY <1>0, <1>3 DEF ResetEvent, Untouched, update, budgets, Caller
<1>4. CASE ResetLeave \/ FactoryLeave \/ Crash
  BY <1>4 DEF ResetLeave, FactoryLeave, Crash
<1>5. CASE Fallback
  BY <1>5 DEF Fallback, Untouched, update, budgets
<1>6. CASE ClearPending \/ SendReport
  BY <1>6 DEF ClearPending, SendReport, Untouched, update, budgets
<1>7. CASE \E v \in 0..MaxVersion : NewRelease(v)
  BY <1>7 DEF NewRelease, Untouched, update
<1>8. QED
  BY <1>1, <1>2, <1>3, <1>4, <1>5, <1>6, <1>7

\* ota_wifi_task goes on, unless the node restarts or the task ends.
LEMMA Advances ==
  ASSUME Typed, NEW j \in Job, JobStep(j)
  PROVE  \/ Boot
         \/ End(j)
         \/ /\ UNCHANGED <<flag, pc, races>> /\ Alive(j) /\ Alive(j)'
            /\ \A i \in Job \ {j} : job'[i] = job[i]
<1>0. job \in [Job -> JobState]
  BY DEF Typed, TypeOK, JobState
<1>1. ASSUME NEW l \in {"driver", "connect", "fetch", "mark", "leave", "unhook", "release", "end"},
             Goto(j, l)
      PROVE  Alive(j)' /\ \A i \in Job \ {j} : job'[i] = job[i]
  BY <1>0, <1>1 DEF Goto, Alive, JobState
<1>2. CASE MakeGroup(j) \/ MakeDriver(j) \/ Connected(j) \/ NotConnected(j)
  BY <1>1, <1>2 DEF MakeGroup, MakeDriver, Connected, NotConnected, Step, At, Alive, budgets
<1>3. CASE FetchFails(j) \/ Unhook(j) \/ Release(j)
  BY <1>1, <1>3 DEF FetchFails, Unhook, Release, Step, At, Alive, budgets
<1>4. CASE GroupFails(j) \/ DriverFails(j)
  BY <1>1, <1>4 DEF GroupFails, DriverFails, Fault, At, Alive
<1>5. CASE NotNewer(j)
  BY <1>0, <1>5 DEF NotNewer, At, Alive, JobState, budgets
<1>6. CASE Flash(j) \/ Mark(j)
  BY <1>1, <1>6 DEF Flash, Mark, At, Alive, budgets
<1>7. CASE Aborts(j) \/ Leave(j) \/ End(j)
  BY <1>7 DEF Aborts, Leave
<1>8. QED
  BY <1>2, <1>3, <1>4, <1>5, <1>6, <1>7 DEF JobStep

\* As long as no caller has passed the check of bmt_ota_trigger beside another, callers past it
\* and updates exclude each other and themselves.
Serial ==
  races = 0 =>
    /\ \A c, d \in Caller : pc[c] = "checked" /\ pc[d] = "checked" => c = d
    /\ \A c \in Caller, j \in Job : pc[c] = "checked" => ~Alive(j)
    /\ \A i, j \in Job : Alive(i) /\ Alive(j) => i = j
    /\ \A j \in Job : Alive(j) => flag

\* After a start of the node nothing is under way.
LEMMA BootSerial == Boot => Serial'
  BY DEF Boot, Serial, Alive, NoJob, Caller, Job

\* Every step keeps updates apart (bmt_ota_trigger, ota_wifi_task).
LEMMA SerialStep ==
  ASSUME Typed, Serial, [Next]_vars
  PROVE  Serial'
<1>0. /\ pc \in [Caller -> {"idle", "checked", "command", "leave"}]
      /\ job \in [Job -> JobState] /\ races \in Nat
  BY Constants DEF Typed, TypeOK, JobState
<1>1. CASE Untouched
  BY <1>1 DEF Untouched, Serial, Alive
<1>2. ASSUME NEW c \in Caller, Check(c)  PROVE Serial'
  <2>1. SUFFICES ASSUME races' = 0  PROVE Serial'
    BY DEF Serial
  <2>2. races = 0 /\ \A d \in Caller : pc[d] # "checked"
    BY <1>0, <1>2, <2>1 DEF Check
  <2>3. \A d \in Caller : pc'[d] = "checked" => d = c
    BY <1>0, <1>2, <2>2 DEF Check
  <2>4. ~flag /\ UNCHANGED <<flag, job>>
    BY <1>2 DEF Check, update
  <2>5. QED
    BY <2>2, <2>3, <2>4 DEF Serial, Alive
<1>3. ASSUME NEW c \in Caller, Start(c)  PROVE Serial'
  <2>1. SUFFICES ASSUME races = 0, races' = 0  PROVE Serial'
    BY <1>3 DEF Serial, Start, budgets
  <2>2. pc[c] = "checked" /\ flag'
    BY <1>3 DEF Start
  <2>3. \A d \in Caller : pc'[d] # "checked"
    BY <1>0, <1>3, <2>1, <2>2 DEF Start, Serial
  <2>4. PICK j \in Job : job' = [job EXCEPT ![j] = [pc |-> "group", quiet |-> FALSE]]
    BY <1>3 DEF Start
  <2>5. \A i \in Job : ~Alive(i)
    BY <2>1, <2>2 DEF Serial
  <2>6. \A i \in Job : Alive(i)' => i = j
    BY <1>0, <2>4, <2>5 DEF Alive
  <2>7. QED
    BY <2>2, <2>3, <2>6 DEF Serial
<1>4. ASSUME NEW j \in Job, JobStep(j)  PROVE Serial'
  <2>1. CASE Boot
    BY <2>1, BootSerial
  <2>2. CASE End(j)
    <3>1. SUFFICES ASSUME races = 0  PROVE Serial'
      BY <2>2 DEF Serial, End, budgets
    <3>2. Alive(j) /\ UNCHANGED pc
      BY <2>2 DEF End, At, Alive
    <3>3. \A i \in Job : ~Alive(i)'
      BY <1>0, <2>2, <3>1, <3>2 DEF End, NoJob, Alive, Serial
    <3>4. QED
      BY <3>1, <3>2, <3>3 DEF Serial
  <2>3. CASE /\ UNCHANGED <<flag, pc, races>> /\ Alive(j) /\ Alive(j)'
             /\ \A i \in Job \ {j} : job'[i] = job[i]
    <3>1. \A i \in Job : Alive(i)' <=> Alive(i)
      BY <2>3 DEF Alive
    <3>2. QED
      BY <2>3, <3>1 DEF Serial
  <2>4. QED
    BY <1>4, <2>1, <2>2, <2>3, Advances
<1>5. CASE UNCHANGED vars
  BY <1>5 DEF vars, update, budgets, Serial, Alive
<1>6. QED
  BY <1>1, <1>2, <1>3, <1>4, <1>5, BootSerial, OutsideUpdate DEF Next

\* At the start nothing is under way.
LEMMA InitSerial == Init => Serial
  BY DEF Init, Serial, Alive, NoJob, Caller, Job

\* OneUpdate: bmt_ota_trigger lets one update run at a time, with its flag up, as long as no two
\* callers are between its check and its assignment.
THEOREM NodeOtaOneUpdate == Spec => []OneUpdate
<1>1. Spec => [](Typed /\ Serial)
  BY InitTypes, InitSerial, TypesStep, SerialStep, PTL DEF Spec
<1>2. ASSUME Typed, Serial  PROVE OneUpdate
  <2>1. SUFFICES ASSUME races = 0
                 PROVE  Cardinality({j \in Job : Alive(j)}) <= 1
    BY <1>2 DEF Serial, OneUpdate
  <2>2. CASE {j \in Job : Alive(j)} = {}
    BY <2>2, FS_EmptySet
  <2>3. CASE {j \in Job : Alive(j)} # {}
    <3>1. PICK i \in Job : Alive(i)
      BY <2>3
    <3>2. {j \in Job : Alive(j)} = {i}
      BY <1>2, <2>1, <3>1 DEF Serial
    <3>3. QED
      BY <3>2, FS_Singleton
  <2>4. QED
    BY <2>2, <2>3
<1>3. QED
  BY <1>1, <1>2, PTL
-----------------------------------------------------------------------------
(* What an update leaves behind. *)

\* While updates do not meet, the one that makes the driver has its event group.
Hooked ==
  races = 0 => /\ "handlers" \in wifi => "group" \in wifi
               /\ \A j \in Job : At(j, "driver") => "group" \in wifi
Torn == wifi # {} => \E j \in Job : Busy(j)
Clean == Torn /\ Hooked

\* After a start of the node there is no Wi-Fi.
LEMMA BootClean == Boot => Clean'
  BY DEF Boot, Clean, Torn, Hooked, At, NoJob, Job

\* Each step of ota_wifi_task keeps Torn: what exists has an update that will undo it.
LEMMA TornStep ==
  ASSUME Typed, Torn, NEW j \in Job, JobStep(j)
  PROVE  Torn'
<1>0. job \in [Job -> JobState]
  BY DEF Typed, TypeOK, JobState
<1>1. ASSUME NEW l \in {"driver", "connect", "fetch", "mark", "leave", "unhook", "release"},
             Goto(j, l)
      PROVE  Torn'
  <2>1. Busy(j)'
    BY <1>0, <1>1 DEF Goto, Busy, JobState
  <2>2. QED
    BY <2>1 DEF Torn
<1>2. CASE MakeGroup(j) \/ MakeDriver(j) \/ Connected(j) \/ NotConnected(j)
  BY <1>1, <1>2 DEF MakeGroup, MakeDriver, Connected, NotConnected, Step
<1>3. CASE FetchFails(j) \/ Unhook(j)
  BY <1>1, <1>3 DEF FetchFails, Unhook, Step
<1>4. CASE GroupFails(j) \/ DriverFails(j)
  BY <1>1, <1>4 DEF GroupFails, DriverFails, Fault
<1>5. CASE NotNewer(j)
  <2>1. Busy(j)'
    BY <1>0, <1>5 DEF NotNewer, Busy, JobState
  <2>2. QED
    BY <2>1 DEF Torn
<1>6. CASE Flash(j) \/ Mark(j)
  BY <1>1, <1>6 DEF Flash, Mark
<1>7. CASE Release(j)
  BY <1>7 DEF Release, Step, Torn
<1>8. CASE Aborts(j) \/ Leave(j)
  BY <1>8, BootClean DEF Aborts, Leave, Clean
<1>9. CASE End(j)
  <2>1. UNCHANGED wifi /\ ~Busy(j) /\ \A i \in Job \ {j} : job'[i] = job[i]
    BY <1>0, <1>9 DEF End, At, Busy
  <2>2. QED
    BY <2>1 DEF Torn, Busy
<1>10. QED
  BY <1>2, <1>3, <1>4, <1>5, <1>6, <1>7, <1>8, <1>9 DEF JobStep

\* Each step of ota_wifi_task keeps Hooked: the event handlers go before the event group.
LEMMA HookedStep ==
  ASSUME Typed, Serial, Hooked, NEW j \in Job, JobStep(j)
  PROVE  Hooked'
<1>0. job \in [Job -> JobState]
  BY DEF Typed, TypeOK, JobState
<1>1. CASE Aborts(j) \/ Leave(j)
  BY <1>1, BootClean DEF Aborts, Leave, Clean
<1>2. CASE ~(Aborts(j) \/ Leave(j))
  <2>1. SUFFICES ASSUME races = 0, races' = 0  PROVE Hooked'
    <3>1. UNCHANGED races
      BY <1>2 DEF JobStep, MakeGroup, GroupFails, MakeDriver, DriverFails, Connected,
        NotConnected, FetchFails, NotNewer, Flash, Mark, Unhook, Release, End, Step, Fault, budgets
    <3>2. QED
      BY <3>1 DEF Hooked
  <2>2. Alive(j) /\ \A i \in Job \ {j} : ~Alive(i)
    <3>1. Alive(j)
      BY <1>2 DEF JobStep, MakeGroup, GroupFails, MakeDriver, DriverFails, Connected,
        NotConnected, FetchFails, NotNewer, Flash, Mark, Unhook, Release, End, Step, Fault, At,
        Alive
    <3>2. QED
      BY <2>1, <3>1 DEF Serial
  <2>3. ASSUME NEW l \in {"driver", "connect", "fetch", "mark", "leave", "unhook", "release", "end"},
               Goto(j, l)
        PROVE  job'[j].pc = l /\ \A i \in Job \ {j} : job'[i].pc = "none"
    BY <1>0, <2>2, <2>3 DEF Goto, Alive, JobState
  <2>4. CASE MakeGroup(j)
    BY <2>4 DEF MakeGroup, Step, Hooked
  <2>5. CASE MakeDriver(j)
    <3>1. "group" \in wifi
      BY <2>1, <2>5 DEF MakeDriver, Step, Hooked
    <3>2. QED
      BY <2>5, <3>1 DEF MakeDriver, Step, Hooked
  <2>6. CASE Connected(j) \/ NotConnected(j) \/ FetchFails(j)
    <3>1. UNCHANGED wifi /\ \A i \in Job : job'[i].pc # "driver"
      BY <2>3, <2>6 DEF Connected, NotConnected, FetchFails, Step
    <3>2. QED
      BY <2>1, <3>1 DEF Hooked, At
  <2>7. CASE GroupFails(j)
    <3>1. wifi' = wifi \cup {"group"}
      BY <2>7 DEF GroupFails, Fault
    <3>2. QED
      BY <3>1 DEF Hooked
  <2>8. CASE DriverFails(j) \/ Flash(j) \/ Mark(j)
    <3>1. UNCHANGED wifi /\ \A i \in Job : job'[i].pc # "driver"
      BY <2>3, <2>8 DEF DriverFails, Flash, Mark, Fault
    <3>2. QED
      BY <2>1, <3>1 DEF Hooked, At
  <2>9. CASE NotNewer(j)
    <3>1. UNCHANGED wifi /\ \A i \in Job : job'[i].pc = "driver" => job[i].pc = "driver"
      BY <1>0, <2>9 DEF NotNewer
    <3>2. QED
      BY <2>1, <3>1 DEF Hooked, At
  <2>10. CASE Unhook(j) \/ Release(j)
    <3>1. /\ wifi' = wifi \ {"handlers"} \/ wifi' = {}
          /\ \A i \in Job : job'[i].pc # "driver"
      BY <2>3, <2>10 DEF Unhook, Release, Step
    <3>2. QED
      BY <2>1, <3>1 DEF Hooked, At
  <2>11. CASE End(j)
    <3>1. UNCHANGED wifi /\ \A i \in Job : job'[i].pc = "driver" => job[i].pc = "driver"
      BY <1>0, <2>11 DEF End, NoJob
    <3>2. QED
      BY <2>1, <3>1 DEF Hooked, At
  <2>12. QED
    BY <1>2, <2>4, <2>5, <2>6, <2>7, <2>8, <2>9, <2>10, <2>11 DEF JobStep
<1>3. QED
  BY <1>1, <1>2

\* Every step keeps Clean (ota_wifi_bring_up, ota_wifi_tear_down).
LEMMA CleanStep ==
  ASSUME Typed, Serial, Clean, [Next]_vars
  PROVE  Clean'
<1>0. job \in [Job -> JobState] /\ races \in Nat
  BY Constants DEF Typed, TypeOK, JobState
<1>1. CASE Untouched
  BY <1>1 DEF Untouched, Clean, Torn, Hooked, Busy, At
<1>2. ASSUME NEW c \in Caller, Check(c)  PROVE Clean'
  <2>1. UNCHANGED <<job, wifi>> /\ (races' = 0 => races = 0)
    BY <1>0, <1>2 DEF Check, update
  <2>2. QED
    BY <2>1 DEF Clean, Torn, Hooked, Busy, At
<1>3. ASSUME NEW c \in Caller, Start(c)  PROVE Clean'
  <2>1. PICK j \in Job :
          ~Alive(j) /\ job' = [job EXCEPT ![j] = [pc |-> "group", quiet |-> FALSE]]
    BY <1>3 DEF Start
  <2>2. UNCHANGED <<wifi, races>>
    BY <1>3 DEF Start, budgets
  <2>3. \A i \in Job : Busy(i) => Busy(i)'
    BY <1>0, <2>1 DEF Busy, Alive
  <2>4. \A i \in Job : At(i, "driver")' => At(i, "driver")
    BY <1>0, <2>1 DEF At
  <2>5. QED
    BY <2>2, <2>3, <2>4 DEF Clean, Torn, Hooked
<1>4. ASSUME NEW j \in Job, JobStep(j)  PROVE Clean'
  BY <1>4, TornStep, HookedStep DEF Clean
<1>5. CASE UNCHANGED vars
  BY <1>5 DEF vars, update, budgets, Clean, Torn, Hooked, Busy, At
<1>6. QED
  BY <1>1, <1>2, <1>3, <1>4, <1>5, BootClean, OutsideUpdate DEF Next

\* NothingLeft: ota_wifi_tear_down undoes what ota_wifi_bring_up did, and the event handlers do
\* not outlive their event group.
THEOREM NodeOtaNothingLeft == Spec => []NothingLeft
<1>1. Init => Clean
  BY DEF Init, Clean, Torn, Hooked, At, NoJob, Job
<1>2. Spec => [](Typed /\ Serial /\ Clean)
  BY <1>1, InitTypes, InitSerial, TypesStep, SerialStep, CleanStep, PTL DEF Spec
<1>3. Clean => NothingLeft
  BY DEF Clean, Torn, Hooked, NothingLeft
<1>4. QED
  BY <1>2, <1>3, PTL
-----------------------------------------------------------------------------
(* Leaving the mesh. *)

\* LeavesClean: between the stack's reset event and the restart the node is in no mesh
\* (node_prov_reset_cb).
THEOREM NodeOtaLeavesClean == Spec => []LeavesClean
<1>1. Init => LeavesClean
  BY DEF Init, LeavesClean, Caller
<1>2. ASSUME Typed, LeavesClean, [Next]_vars  PROVE LeavesClean'
  <2>0. pc \in [Caller -> {"idle", "checked", "command", "leave"}]
    BY <1>2 DEF Typed, TypeOK
  <2>1. CASE Boot
    BY <2>1 DEF Boot, LeavesClean, Caller
  <2>2. CASE UNCHANGED <<stack, pc>>
    BY <1>2, <2>2 DEF LeavesClean
  <2>3. CASE Join \/ GetKey
    BY <2>3 DEF Join, GetKey, LeavesClean
  <2>4. CASE ResetCmd \/ ResetCmdDone
    BY <2>0, <2>4 DEF ResetCmd, ResetCmdDone, LeavesClean, Caller
  <2>5. CASE ResetEvent \/ FactoryReset
    BY <2>5 DEF ResetEvent, FactoryReset, LeavesClean
  <2>6. CASE UartReset \/ ClearPending \/ SendReport \/ \E v \in 0..MaxVersion : NewRelease(v)
    BY <2>2, <2>6 DEF UartReset, ClearPending, SendReport, NewRelease, mesh
  <2>7. CASE ResetLeave \/ FactoryLeave \/ Crash \/ Fallback
    BY <2>1, <2>2, <2>7 DEF ResetLeave, FactoryLeave, Crash, Fallback
  <2>8. ASSUME NEW c \in Caller, Check(c) \/ Start(c)  PROVE LeavesClean'
    BY <1>2, <2>0, <2>8 DEF Check, Start, LeavesClean, mesh, Caller
  <2>9. ASSUME NEW j \in Job, JobStep(j)  PROVE LeavesClean'
    <3>1. Boot \/ UNCHANGED <<stack, pc>>
      BY <2>9 DEF JobStep, MakeGroup, GroupFails, Aborts, MakeDriver, DriverFails, Connected,
        NotConnected, FetchFails, NotNewer, Flash, Mark, Leave, Unhook, Release, End, Step,
        Fault, mesh
    <3>2. QED
      BY <2>1, <2>2, <3>1
  <2>10. CASE UNCHANGED vars
    BY <2>2, <2>10 DEF vars, mesh
  <2>11. QED
    BY <1>2, <2>3, <2>4, <2>5, <2>6, <2>7, <2>8, <2>9, <2>10 DEF Next
<1>3. QED
  BY <1>1, <1>2, InitTypes, TypesStep, PTL DEF Spec
-----------------------------------------------------------------------------
(* NodeOta implements NodeUpdate. *)

Marking == \E j \in Job : At(j, "mark")

\* A step that changes neither the images nor what was told, and at most drops the result, is a
\* step of NodeUpdate.
LEMMA Forgets ==
  ASSUME UNCHANGED <<running, slot, told>>, Owed' => Owed, Owed \in BOOLEAN, Owed' \in BOOLEAN
  PROVE  [NU!Next]_(NU!vars)
<1>1. CASE Owed' = Owed
  BY <1>1 DEF NU!vars
<1>2. CASE Owed' # Owed
  <2>1. Owed' = FALSE
    BY <1>2
  <2>2. QED
    BY <2>1 DEF NU!Next, NU!Forget
<1>3. QED
  BY <1>1, <1>2

\* Whether a result is owed is a truth value.
LEMMA OwedType == (Typed => Owed \in BOOLEAN) /\ (Typed' => Owed' \in BOOLEAN)
  BY Zenon DEF Typed, TypeOK, Owed

\* esp_restart is NodeUpdate's Boot: of what was owed the flag in NVS remains.
LEMMA BootBoots ==
  ASSUME Typed, Boot, Owed' \in BOOLEAN
  PROVE  NU!Boot
<1>1. \A j \in Job : ~At(j, "mark")'
  BY DEF Boot, At, NoJob
<1>2. pending \in BOOLEAN /\ pending' = pending /\ report' = "wait"
  BY DEF Typed, TypeOK, Boot
<1>3. Owed' <=> pending
  BY <1>1, <1>2 DEF Owed
<1>4. Owed' => Owed
  BY <1>3 DEF Owed
<1>5. Owed' \in {Owed, FALSE}
  BY <1>4, OwedType
<1>6. QED
  BY <1>5 DEF Boot, NU!Boot

\* Steps that touch neither images nor the result, restarts among them (bmt_mesh_node.c,
\* bmt_factory_reset.c, bmt_ota_trigger).
LEMMA OtherStepsPromise ==
  ASSUME Typed, Typed',
         \/ Join \/ GetKey \/ ResetCmd \/ ResetCmdDone \/ UartReset \/ ResetEvent
         \/ ResetLeave \/ Fallback \/ FactoryReset \/ FactoryLeave \/ Crash
         \/ \E c \in Caller : Check(c) \/ Start(c)
         \/ \E v \in 0..MaxVersion : NewRelease(v)
         \/ UNCHANGED vars
  PROVE  [NU!Next]_(NU!vars)
<1>0. job \in [Job -> JobState] /\ Owed \in BOOLEAN /\ Owed' \in BOOLEAN
  BY OwedType DEF Typed, TypeOK, JobState
<1>1. CASE Boot
  BY <1>0, <1>1, BootBoots DEF NU!Next
<1>2. CASE UNCHANGED <<running, slot, told, pending, report, job>>
  BY <1>0, <1>2, Forgets DEF Owed, At
<1>3. CASE Join \/ GetKey \/ ResetCmd \/ ResetCmdDone \/ UartReset \/ ResetEvent
  BY <1>2, <1>3
  DEF Join, GetKey, ResetCmd, ResetCmdDone, UartReset, ResetEvent, image, update, result
<1>4. CASE ResetLeave \/ FactoryLeave \/ Crash \/ Fallback
  BY <1>1, <1>2, <1>4 DEF ResetLeave, FactoryLeave, Crash, Fallback, image, update, result
<1>5. CASE FactoryReset
  <2>1. UNCHANGED <<running, slot, told, report, job>> /\ ~pending'
    BY <1>5 DEF FactoryReset, image, update
  <2>2. QED
    BY <1>0, <2>1, Forgets DEF Owed, At
<1>6. ASSUME NEW c \in Caller, Check(c)  PROVE [NU!Next]_(NU!vars)
  BY <1>2, <1>6 DEF Check, image, update, result
<1>7. ASSUME NEW c \in Caller, Start(c)  PROVE [NU!Next]_(NU!vars)
  <2>1. UNCHANGED <<running, slot, told, pending, report>>
    BY <1>7 DEF Start, image, result
  <2>2. \A j \in Job : At(j, "mark")' => At(j, "mark")
    BY <1>0, <1>7 DEF Start, At, Alive
  <2>3. QED
    BY <1>0, <2>1, <2>2, Forgets DEF Owed
<1>8. CASE \E v \in 0..MaxVersion : NewRelease(v)
  BY <1>2, <1>8 DEF NewRelease, image, update, result
<1>9. CASE UNCHANGED vars
  BY <1>2, <1>9 DEF vars, image, update, result
<1>10. QED
  BY <1>3, <1>4, <1>5, <1>6, <1>7, <1>8, <1>9

\* The steps of an update (ota_wifi_task): only flashing a newer image installs one.
LEMMA JobStepsPromise ==
  ASSUME Typed, Typed', NEW j \in Job, JobStep(j)
  PROVE  [NU!Next]_(NU!vars)
<1>0. /\ job \in [Job -> JobState] /\ Owed \in BOOLEAN /\ Owed' \in BOOLEAN
      /\ {running, slot, server} \subseteq Nat
  BY Constants, OwedType DEF Typed, TypeOK, JobState
<1>1. CASE Aborts(j) \/ Leave(j)
  BY <1>0, <1>1, BootBoots DEF Aborts, Leave, NU!Next
<1>2. ASSUME UNCHANGED <<running, slot, told, pending, report>>,
             NEW l \in {"driver", "connect", "fetch", "leave", "unhook", "release", "end"},
             Goto(j, l)
      PROVE  [NU!Next]_(NU!vars)
  <2>1. \A i \in Job : At(i, "mark")' => At(i, "mark")
    BY <1>0, <1>2 DEF Goto, At, JobState
  <2>2. QED
    BY <1>0, <1>2, <2>1, Forgets DEF Owed
<1>3. CASE MakeGroup(j) \/ MakeDriver(j) \/ Connected(j) \/ NotConnected(j)
  BY <1>2, <1>3 DEF MakeGroup, MakeDriver, Connected, NotConnected, Step, image, result
<1>4. CASE FetchFails(j) \/ Unhook(j) \/ Release(j)
  BY <1>2, <1>4 DEF FetchFails, Unhook, Release, Step, image, result
<1>5. CASE GroupFails(j) \/ DriverFails(j)
  BY <1>2, <1>5 DEF GroupFails, DriverFails, Fault, image, result
<1>6. CASE NotNewer(j) \/ End(j)
  <2>1. UNCHANGED <<running, slot, told, pending, report>>
    BY <1>6 DEF NotNewer, End, image, result
  <2>2. \A i \in Job : At(i, "mark")' => At(i, "mark")
    BY <1>0, <1>6 DEF NotNewer, End, NoJob, At
  <2>3. QED
    BY <1>0, <2>1, <2>2, Forgets DEF Owed
<1>7. CASE Flash(j)
  <2>1. slot' \in Nat /\ slot' > running /\ UNCHANGED <<running, told>>
    BY <1>0, <1>7 DEF Flash, result
  <2>2. At(j, "mark")'
    BY <1>0, <1>7 DEF Flash, Goto, At
  <2>3. Owed' = TRUE
    BY <1>0, <2>2 DEF Owed
  <2>4. QED
    BY <2>1, <2>3 DEF NU!Next, NU!Install
<1>8. CASE Mark(j)
  <2>1. UNCHANGED <<running, slot, told>> /\ Owed
    BY <1>8 DEF Mark, image, Owed
  <2>2. QED
    BY <1>0, <2>1, Forgets
<1>9. QED
  BY <1>1, <1>3, <1>4, <1>5, <1>6, <1>7, <1>8 DEF JobStep

\* Clearing the flag still owes the report; sending it is Tell, or Forget when there is no mesh
\* (report_pending_task).
LEMMA ReportStepsPromise ==
  ASSUME Typed, Typed', ClearPending \/ SendReport
  PROVE  [NU!Next]_(NU!vars)
<1>0. Owed \in BOOLEAN /\ Owed' \in BOOLEAN
  BY OwedType
<1>1. CASE ClearPending
  <2>1. UNCHANGED <<running, slot, told, job>>
    BY <1>1 DEF ClearPending, image, update
  <2>2. pending' => pending
    BY <1>1 DEF ClearPending
  <2>3. report' = "send" => pending
    BY <1>1 DEF ClearPending
  <2>4. QED
    BY <1>0, <2>1, <2>2, <2>3, Forgets DEF Owed, At
<1>2. CASE SendReport
  <2>1. UNCHANGED <<running, slot>> /\ Owed
    BY <1>2 DEF SendReport, image, Owed
  <2>2. CASE told' = slot
    BY <1>0, <2>1, <2>2 DEF NU!Next, NU!Tell
  <2>3. CASE told' = told
    BY <1>0, <2>1, <2>3, Forgets
  <2>4. QED
    BY <1>2, <2>2, <2>3 DEF SendReport
<1>3. QED
  BY <1>1, <1>2

\* KeepsPromise: every behaviour of a node is one that NodeUpdate allows.  It never installs an
\* image that is not newer, and never tells of a success that was not one.
THEOREM NodeOtaKeepsPromise == Spec => KeepsPromise
<1>1. Init => NU!Init
  <2>1. ASSUME Init  PROVE Owed = FALSE
    BY <2>1 DEF Init, Owed, At, NoJob
  <2>2. QED
    BY <2>1 DEF Init, NU!Init
<1>2. Typed /\ Typed' /\ [Next]_vars => [NU!Next]_(NU!vars)
  BY OtherStepsPromise, JobStepsPromise, ReportStepsPromise DEF Next
<1>3. Spec => []Typed
  BY InitTypes, TypesStep, PTL DEF Spec
<1>4. QED
  BY <1>1, <1>2, <1>3, PTL DEF Spec, KeepsPromise, NU!Spec
=============================================================================

------------------------------- MODULE NodeOta -------------------------------
(* A relay or scanner: how it joins and leaves the mesh, updates its firmware over Wi-Fi and  *)
(* restarts (components/bmt_ota, bmt_https_ota, bmt_mesh_node, bmt_factory_reset and what the  *)
(* two apps add to them).  Waiting times are left out: a delay is a step that other tasks can  *)
(* come before, except where a callback waits, which holds up the other callbacks.             *)
EXTENDS Naturals, FiniteSets

CONSTANTS
  MaxVersion,  \* newest firmware
  MaxRelease,  \* changes of the file on the server
  MaxRace,     \* times a caller passes the check of bmt_ota_trigger while another is past it
  MaxFault,    \* failed writes to NVS, failed allocations of the Wi-Fi library
  MaxReset,    \* resets asked for by the gateway, the UART or the button
  MaxCrash     \* power cuts and aborts

ASSUME NodeOtaBounds ==
  {MaxVersion, MaxRelease, MaxRace, MaxFault, MaxReset, MaxCrash} \subseteq Nat

\* Mesh and advertising callbacks run in one task, the BLE host's; the UART and the periodic
\* check are tasks of their own and stand for each other here.
Caller == {"mesh", "task"}
Job == 1..2

VARIABLES
  stack,    \* NVS of the mesh stack: "none", "joined" (NetKey, address) or "keyed" (AppKey too)
  ram,      \* s_provisioned and s_app_idx: "none", "joined" or "keyed"
  reset,    \* [asked: s_reboot_after_reset, event: the stack owes PROV_RESET, timers: fallbacks]
  pc,       \* callers: "idle", "checked", and for callbacks the delays "command" and "leave"
  flag,     \* s_ota_triggered
  job,      \* ota_wifi_task: [pc, quiet]
  wifi,     \* what exists: "group", "netif", "driver", "handlers"
  running, slot, server,  \* versions: running, in the boot partition, on the server
  pending,  \* ota_pending in NVS
  report,   \* report_pending_task: "wait", "send", "done"
  wiped,    \* the button has erased NVS: nothing can be stored until the restart
  told,     \* version of the last success sent to the gateway
  releases, races, faults, resets, crashes

mesh    == <<stack, ram, reset>>
update  == <<flag, job, wifi>>
image   == <<running, slot>>
result  == <<pending, report, told>>
budgets == <<releases, races, faults, resets, crashes>>
vars == <<mesh, pc, update, image, server, result, wiped, budgets>>

NoJob == [pc |-> "none", quiet |-> FALSE]
NoReset == [asked |-> FALSE, event |-> FALSE, timers |-> 0]

Init ==
  /\ stack = "none" /\ ram = "none" /\ reset = NoReset
  /\ pc = [c \in Caller |-> "idle"]
  /\ flag = FALSE /\ job = [j \in Job |-> NoJob] /\ wifi = {}
  /\ running = 0 /\ slot = 0 /\ server = 0
  /\ pending = FALSE /\ report = "wait" /\ told = 0
  /\ wiped = FALSE
  /\ releases = 0 /\ races = 0 /\ faults = 0 /\ resets = 0 /\ crashes = 0

\* esp_restart and the boot after it: RAM starts over, bmt_mesh_node_start restores membership
\* and takes the AppKey for granted, the pending-report task is started.
Boot ==
  /\ running' = slot
  /\ ram' = IF stack = "none" THEN "none" ELSE "keyed"
  /\ reset' = NoReset /\ pc' = [c \in Caller |-> "idle"]
  /\ flag' = FALSE /\ job' = [j \in Job |-> NoJob] /\ wifi' = {}
  /\ report' = "wait" /\ wiped' = FALSE
  /\ UNCHANGED <<stack, slot, server, pending, told>>

\* Loss of power, or an abort: every xTaskCreate that fails ends in one.
Crash == /\ crashes < MaxCrash /\ crashes' = crashes + 1
         /\ Boot /\ UNCHANGED <<releases, races, faults, resets>>

-----------------------------------------------------------------------------
(* Mesh membership.  Callbacks run while the BLE host's task is not held up by a delay. *)

\* NODE_PROV_COMPLETE and, once in the mesh, APP_KEY_ADD; the stack stores both.
Join == /\ pc["mesh"] = "idle" /\ stack = "none" /\ ~reset.event /\ ~wiped
        /\ stack' = "joined" /\ ram' = "joined"
        /\ UNCHANGED <<reset, pc, update, image, server, result, wiped, budgets>>
GetKey == /\ pc["mesh"] = "idle" /\ stack = "joined" /\ ~reset.event /\ ~wiped
          /\ stack' = "keyed" /\ ram' = "keyed"
          /\ UNCHANGED <<reset, pc, update, image, server, result, wiped, budgets>>

\* bmt_mesh_local_reset: the restart is left to the event, or to a fallback task.
LocalReset ==
  reset' = [asked |-> TRUE, event |-> TRUE, timers |-> reset.timers + 1]

\* RESET_CMD, which waits 300 ms in the callback first, and UART r.
ResetCmd == /\ pc["mesh"] = "idle" /\ stack = "keyed" /\ resets < MaxReset
            /\ pc' = [pc EXCEPT !["mesh"] = "command"] /\ resets' = resets + 1
            /\ UNCHANGED <<mesh, update, image, server, result, wiped, releases, races, faults,
                           crashes>>
ResetCmdDone == /\ pc["mesh"] = "command"
                /\ LocalReset /\ pc' = [pc EXCEPT !["mesh"] = "idle"]
                /\ UNCHANGED <<stack, ram, update, image, server, result, wiped, budgets>>
UartReset == /\ pc["task"] = "idle" /\ resets < MaxReset
             /\ LocalReset /\ resets' = resets + 1
             /\ UNCHANGED <<stack, ram, pc, update, image, server, result, wiped, releases, races,
                            faults, crashes>>

\* NODE_PROV_RESET: the stack has erased what it stored.  Without a restart asked for the node
\* beacons again.
ResetEvent ==
  /\ reset.event /\ pc["mesh"] = "idle"
  /\ stack' = "none" /\ ram' = "none"
  /\ reset' = [reset EXCEPT !.event = FALSE, !.asked = FALSE]
  /\ pc' = IF reset.asked THEN [pc EXCEPT !["mesh"] = "leave"] ELSE pc
  /\ UNCHANGED <<update, image, server, result, wiped, budgets>>
ResetLeave == pc["mesh"] = "leave" /\ Boot /\ UNCHANGED budgets

\* reset_reboot_fallback_task: the event has not come within five seconds, or it has.
SlipFallback ==
  /\ reset.timers > 0 /\ ~reset.asked
  /\ reset' = [reset EXCEPT !.timers = @ - 1]
  /\ UNCHANGED <<stack, ram, pc, update, image, server, result, wiped, budgets>>
SlipFallbackTwice ==
  /\ reset.asked \/ reset' = [reset EXCEPT !.timers = @ - 1]
  /\ IF reset.asked THEN reset.timers > 0 /\ Boot
     ELSE UNCHANGED <<stack, ram, pc, update, image, server, result, wiped>>
  /\ UNCHANGED budgets
Fallback ==
  /\ reset.timers > 0
  /\ \/ reset.asked /\ Boot /\ UNCHANGED budgets
     \/ /\ ~reset.asked /\ reset' = [reset EXCEPT !.timers = @ - 1]
        /\ UNCHANGED <<stack, ram, pc, update, image, server, result, wiped, budgets>>

\* The button held for ten seconds (every release starts the count again): NVS is erased and
\* closed; the restart follows 300 ms later.
FactoryReset == /\ ~wiped /\ resets < MaxReset
                /\ resets' = resets + 1
                /\ wiped' = TRUE /\ stack' = "none" /\ pending' = FALSE
                /\ UNCHANGED <<ram, reset, pc, update, image, server, report, told, releases,
                               races, faults, crashes>>
FactoryLeave == wiped /\ Boot /\ UNCHANGED budgets

-----------------------------------------------------------------------------
(* Firmware update. *)

Alive(j) == job[j].pc # "none"
At(j, l) == job[j].pc = l
Goto(j, l) == job' = [job EXCEPT ![j].pc = l]

\* bmt_ota_trigger, called for OTA_TRIGGER and the gateway's beacon, UART o, and every three
\* minutes: the flag is looked at in one step and set in another.
SlipCheck(c) ==
  /\ pc[c] = "idle"
  /\ IF \E d \in Caller : pc[d] = "checked" THEN races < MaxRace /\ races' = races + 1
                                            ELSE UNCHANGED races
  /\ pc' = [pc EXCEPT ![c] = "checked"]
  /\ UNCHANGED <<mesh, update, image, server, result, wiped, releases, faults, resets, crashes>>
Check(c) ==
  /\ pc[c] = "idle" /\ ~flag
  /\ IF \E d \in Caller : pc[d] = "checked" THEN races < MaxRace /\ races' = races + 1
                                            ELSE UNCHANGED races
  /\ pc' = [pc EXCEPT ![c] = "checked"]
  /\ UNCHANGED <<mesh, update, image, server, result, wiped, releases, faults, resets, crashes>>
Start(c) ==
  /\ pc[c] = "checked"
  /\ \E j \in Job : ~Alive(j) /\ job' = [job EXCEPT ![j] = [pc |-> "group", quiet |-> FALSE]]
  /\ flag' = TRUE /\ pc' = [pc EXCEPT ![c] = "idle"]
  /\ UNCHANGED <<mesh, wifi, image, server, result, wiped, budgets>>

\* ota_wifi_bring_up.  A second station interface fails an assertion of the Wi-Fi library; so
\* does waiting on an event group that another update has deleted.
Step(j, from, to, w) ==
  /\ At(j, from) /\ Goto(j, to) /\ wifi' = w
  /\ UNCHANGED <<mesh, pc, flag, image, server, result, wiped, budgets>>
Fault(j, from, w) ==
  /\ At(j, from) /\ faults < MaxFault /\ faults' = faults + 1
  /\ Goto(j, "unhook") /\ wifi' = w
  /\ UNCHANGED <<mesh, pc, flag, image, server, result, wiped, releases, races, resets, crashes>>
MakeGroup(j)  == "netif" \notin wifi /\ Step(j, "group", "driver", wifi \cup {"group", "netif"})
GroupFails(j) == "netif" \notin wifi /\ Fault(j, "group", wifi \cup {"group"})
Aborts(j) == /\ \/ At(j, "group") /\ "netif" \in wifi
                \/ At(j, "connect") /\ "group" \notin wifi
             /\ Boot /\ UNCHANGED budgets
MakeDriver(j) == Step(j, "driver", "connect", wifi \cup {"driver", "handlers"})
DriverFails(j) == Fault(j, "driver", wifi)
Connected(j) == "group" \in wifi /\ Step(j, "connect", "fetch", wifi)
NotConnected(j) == "group" \in wifi /\ Step(j, "connect", "unhook", wifi)

\* bmt_https_ota_fetch_and_flash: an image that is the same or not newer is not an error.
FetchFails(j) == Step(j, "fetch", "unhook", wifi)
NotNewer(j) == /\ At(j, "fetch") /\ server <= running
               /\ job' = [job EXCEPT ![j] = [pc |-> "unhook", quiet |-> TRUE]]
               /\ UNCHANGED <<mesh, pc, flag, wifi, image, server, result, wiped, budgets>>
SlipFlash(j) == /\ At(j, "fetch")
                /\ slot' = server /\ Goto(j, "mark")
                /\ UNCHANGED <<mesh, pc, flag, wifi, running, server, result, wiped, budgets>>
SlipNotBooted(j) == /\ At(j, "fetch") /\ server > running
                    /\ Goto(j, "mark")
                    /\ UNCHANGED <<mesh, pc, flag, wifi, image, server, result, wiped, budgets>>
Flash(j) == /\ At(j, "fetch") /\ server > running
            /\ slot' = server /\ Goto(j, "mark")
            /\ UNCHANGED <<mesh, pc, flag, wifi, running, server, result, wiped, budgets>>

\* mark_pending, which only logs an error, and the restart a second later.
Mark(j) == /\ At(j, "mark") /\ Goto(j, "leave")
           /\ \/ ~wiped /\ pending' = TRUE /\ UNCHANGED faults
              \/ /\ wiped \/ faults < MaxFault
                 /\ faults' = IF wiped THEN faults ELSE faults + 1
                 /\ UNCHANGED pending
           /\ UNCHANGED <<mesh, pc, flag, wifi, image, server, report, told, wiped, releases,
                          races, resets, crashes>>
Leave(j) == At(j, "leave") /\ Boot /\ UNCHANGED budgets

\* ota_wifi_tear_down: the event handlers go before the event group they use.
Unhook(j) == Step(j, "unhook", "release", wifi \ {"handlers"})
SlipRelease(j) == Step(j, "release", "end", wifi \ {"driver", "group"})
Release(j) == Step(j, "release", "end", {})
\* A failure is reported, an image that is not newer is not; then others may trigger again.
End(j) == /\ At(j, "end") /\ job' = [job EXCEPT ![j] = NoJob]
          /\ flag' = FALSE
          /\ UNCHANGED <<mesh, pc, wifi, image, server, result, wiped, budgets>>

\* report_pending_task: the flag is cleared (unless that write fails) before the report is sent,
\* which goes nowhere when the node is in no mesh or its AppKey never came.
ClearPending ==
  /\ report = "wait"
  /\ report' = IF pending THEN "send" ELSE "done"
  /\ \/ pending' = FALSE /\ UNCHANGED faults
     \/ pending /\ faults < MaxFault /\ faults' = faults + 1 /\ UNCHANGED pending
  /\ UNCHANGED <<mesh, pc, update, image, server, told, wiped, releases, races, resets, crashes>>
SendReport ==
  /\ report = "send" /\ report' = "done"
  /\ told' = IF ram = "keyed" /\ stack = "keyed" THEN slot ELSE told
  /\ UNCHANGED <<mesh, pc, update, image, server, pending, wiped, budgets>>

\* The file on the server is replaced, by a newer one or by an older one.
NewRelease(v) == /\ releases < MaxRelease /\ v # server
                 /\ server' = v /\ releases' = releases + 1
                 /\ UNCHANGED <<mesh, pc, update, image, result, wiped, races, faults, resets,
                                crashes>>

JobStep(j) ==
  \/ MakeGroup(j) \/ GroupFails(j) \/ Aborts(j) \/ MakeDriver(j) \/ DriverFails(j)
  \/ Connected(j) \/ NotConnected(j)
  \/ FetchFails(j) \/ NotNewer(j) \/ Flash(j) \/ Mark(j) \/ Leave(j)
  \/ Unhook(j) \/ Release(j) \/ End(j)

Next ==
  \/ Join \/ GetKey \/ ResetCmd \/ ResetCmdDone \/ UartReset \/ ResetEvent \/ ResetLeave
  \/ Fallback \/ FactoryReset \/ FactoryLeave \/ Crash
  \/ \E c \in Caller : Check(c) \/ Start(c)
  \/ \E j \in Job : JobStep(j)
  \/ ClearPending \/ SendReport
  \/ \E v \in 0..MaxVersion : NewRelease(v)

Spec == Init /\ [][Next]_vars

\* Tasks run and timers fire; the periodic check keeps calling bmt_ota_trigger; the access point
\* and the server answer an attempt again and again.  The stack's reset event need never come.
Fairness ==
  /\ WF_vars(ResetCmdDone) /\ WF_vars(ResetLeave) /\ WF_vars(Fallback) /\ WF_vars(FactoryLeave)
  /\ WF_vars(Check("task")) /\ WF_vars(\E c \in Caller : Start(c))
  /\ \A j \in Job : WF_vars(JobStep(j))
  /\ SF_vars(\E j \in Job : Connected(j)) /\ SF_vars(\E j \in Job : NotNewer(j) \/ Flash(j))
LiveSpec == Spec /\ Fairness

-----------------------------------------------------------------------------
(* What must hold. *)

TypeOK ==
  /\ stack \in {"none", "joined", "keyed"} /\ ram \in {"none", "joined", "keyed"}
  /\ reset \in [asked : BOOLEAN, event : BOOLEAN, timers : 0..MaxReset]
  /\ pc \in [Caller -> {"idle", "checked", "command", "leave"}]
  /\ flag \in BOOLEAN
  /\ job \in [Job -> [pc : {"none", "group", "driver", "connect", "fetch", "mark", "leave",
                            "unhook", "release", "end"}, quiet : BOOLEAN]]
  /\ wifi \in SUBSET {"group", "netif", "driver", "handlers"}
  /\ {running, slot, server, told} \subseteq 0..MaxVersion
  /\ pending \in BOOLEAN /\ report \in {"wait", "send", "done"} /\ wiped \in BOOLEAN
  /\ releases \in 0..MaxRelease /\ races \in 0..MaxRace /\ faults \in 0..MaxFault
  /\ resets \in 0..MaxReset /\ crashes \in 0..MaxCrash

\* bmt_ota.h:23, "Start WiFi OTA if it is not already running (idempotent)".  As long as no two
\* callers are between the check and the assignment at once, one update runs at a time, and the
\* flag by which the scanner leaves the radio to Wi-Fi is up for as long as it does.
OneUpdate ==
  races = 0 => /\ Cardinality({j \in Job : Alive(j)}) <= 1
               /\ (\E j \in Job : Alive(j)) => flag

\* ota_wifi_tear_down undoes what ota_wifi_bring_up did, however far it came and whoever else
\* was let in: an interface left over would abort every later update.  The event handlers do not
\* outlive the event group they write to, unless two updates tear down each other's.
Busy(j) == job[j].pc \in {"driver", "connect", "fetch", "mark", "leave", "unhook", "release"}
NothingLeft ==
  /\ wifi # {} => \E j \in Job : Busy(j)
  /\ races = 0 /\ "handlers" \in wifi => "group" \in wifi

\* bmt_mesh_node.c:42-51.  "Mesh NVS reset has REALLY completed (this event proves it)": during
\* the delay before the restart the node does not join again.
LeavesClean == pc["mesh"] = "leave" => stack = "none"

\* What the node promises about its firmware (NodeUpdate): no downgrade, and a success is told
\* only after an image was installed, over restarts between any two steps.
Owed == pending \/ report = "send" \/ \E j \in Job : At(j, "mark")
NU == INSTANCE NodeUpdate WITH installed <- slot, owed <- Owed
KeepsPromise == NU!Spec

\* A node that was told to leave the mesh restarts, also when the stack's event never comes.
ResetRestarts == reset.asked ~> (~reset.asked /\ pc["mesh"] # "leave")

\* Every node ends up with firmware at least as new as the server's, by its own check every three
\* minutes (auto_check_task): failed attempts, races and restarts leave nothing behind that
\* blocks a later one.
EventuallyUpToDate == <>[](running >= server)
=============================================================================

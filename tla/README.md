# BLE mesh tag tracking: formal models

TLA+ specifications of the firmware in this repository, checked with TLC and, for the central
invariants, proved with TLAPS. The specifications are written from the C sources; a definition's
place in them is listed in `PROJECT.json` under `map`.

Tags send signed BLE advertisements. Scanners authenticate and filter them and report each tag
over BLE mesh to one gateway. Relays extend the mesh. The gateway provisions and configures
scanners and relays, watches over the mesh, forwards reports to ThingsBoard over MQTT and
distributes firmware updates. A rule chain in ThingsBoard turns reports into zones.

## Inventory

For every part: its state, its operations, what it interacts with, what is hard about it, and the
properties that make it correct.

**Provisioning and configuration of nodes** (`bmt_mesh.c`, `bmt_node_table.c`, `bmt_mac_cache.c`).
State: the node table in RAM and its copy in NVS, the mesh stack's own node list, one config task
per node, a mutex, one wait record and one event bit for all exchanges. Operations: the beacon and
PROV_COMPLETE callbacks, `node_config_task`, `node_ping_task`, the config client callback, table
load, save and clear, the full reset. It is called by the mesh stack, UART and watchdog. Hard:
tasks and callbacks interleave on shared records; answers are lost, late or duplicated by retries;
the table, the stack and NVS are changed in separate calls with restarts in between; nodes reset
themselves at any time. Correct means: a node marked configured is configured; one entry per node;
one exchange at a time; every node is configured in the end.

**Manual provisioning** (`bmt_scan_list.c`, `bmt_uart.c`). State: mode, scan list. The UART task
runs one command at a time, beacons come in from the mesh callback meanwhile. Hard: the list is old
when it is used. Correct means: no healthy node is provisioned anew.

**Tag pipeline** (`bmt_mqtt.c`, `bmt_zone.c`, `bmt_thingsboard.c`). State: report queue, tag table
under the zone mutex, `s_connected`, what has been announced. Operations: enqueue (mesh callback),
worker, zone timer, connect and disconnect handlers (the MQTT client's task), reset. Hard: four
tasks, two mutexes of which one is the MQTT client's, connections that come and go, a clock that
wraps and is read outside the mutex. Correct means: silent tags are reported out of range, present
ones are not, nothing owed is left behind, devices are announced before their data, no deadlock.

**Mesh health** (`bmt_watchdog.c`, `node_ping_task`, node status). State: received counter,
per-node `last_seen_ms` and `online`. The watchdog resets the whole mesh after 30 s without
traffic; it must not do so to a healthy mesh, nor during an OTA. Hard: everything is timing.

**OTA at the gateway** (`bmt_ota.c`, `bmt_ota_key.c`). State: running flag, session, key and key id
in RAM, PSA and NVS. Operations: self update, distribution, rotation and push of the beacon key.
Hard: a push that is lost, a restart between storing and pushing, a rotation during a session.

Correct means: one campaign at a time that ends; it reaches every node it is for; gateway, NVS and
scanners hold the same key.

**OTA at the node** (`components/bmt_ota`, `components/bmt_https_ota`). State: running flag, pending
result in NVS. Operations: trigger from mesh, beacon or timer, Wi-Fi up and down, flash, restart,
report. Hard: two triggers at once, the radio shared with the mesh, a report lost after a restart.
Correct means: no downgrade; a success is told only of an installed image; nothing of Wi-Fi is left
behind; the node ends up up to date.

**Node mesh and reset** (`components/bmt_mesh_node`, `components/bmt_factory_reset`, relay and
scanner `bmt_mesh.c`). State: provisioned, address, AppKey index. Hard: the reset event races the
five second fallback. Correct means: a node told to leave restarts, and has left when it does.

**Scanner** (`bmt_auth.c`, `bmt_tag_table.c`, `bmt_scan.c`). State: per-tag epoch and sequence
window, RSSI filter, loss rate, a radio shared by scanning and mesh. Hard: 8-bit sequence
arithmetic, restarts on either side, full tables. Correct means: no tag is locked out; losses are
counted exactly; a tag that is heard is refreshed, one that is silent is given up and not reported.

**Tags** (`apps/tag`, `apps/beacon_nrf52840`) keep an epoch and a sequence number over restarts.
**Rule chain** (`thingsboard/rulechain`): hysteresis and debounce of the zone, as read-modify-write
of attributes.

The hazards found in the survey are in `PROJECT.json` under `hazards`, each at its line.

## Modules

| Module | Models | Builds on |
| --- | --- | --- |
| `ScanList` | the scan list and the UART commands s, p, a, m | |
| `NodeRoll` | abstract: what the gateway promises about the nodes it admits | |
| `Provisioning` | provisioning, configuration, ping exchange, node table, NVS, restarts | `ScanList`, `NodeRoll` |
| `TagBoard` | abstract: what the gateway promises about the tags ThingsBoard shows | |
| `TagTracking` | queue, worker, zone timer, MQTT connection, tag table, resets | `TagBoard` |
| `MeshHealth` | watchdog, ping rounds and their timing, node status, reset cycle, OTA flag | |
| `NodeUpdate` | abstract: what a node promises about its firmware | |
| `NodeOta` | a node's update, membership, reset and restarts | `NodeUpdate` |
| `OtaCampaign` | campaigns of the gateway, beacon key, its copies at the scanners | |
| `TagScanner` | tags and a scanner: authentication, tag table, time-outs, radio manager | |
| `ProvisioningProofs`, `TagTrackingProofs`, `MeshHealthProofs`, `NodeOtaProofs`, `OtaCampaignProofs`, `TagScannerProofs` | theorems about the module of that name | it, TLAPS |
| `ProvisioningTableProofs` | theorems about the node table of `Provisioning` | `ProvisioningProofs` |
| `MeshHealthTimingProofs` | theorem about the delays of `MeshHealth` | `MeshHealthProofs` |
| `MCProvisioning`, `MCTagTracking`, `MCMeshHealth`, `MCNodeOta`, `MCOtaCampaign`, `MCTagScanner` | what the TLC configurations run | it |

The modules meet where the components do, each seeing of the other what crosses the boundary. Joining
is one step in `MeshHealth`, `NodeOta` and `OtaCampaign` and taken apart in `Provisioning`. A campaign
triggers a node in `OtaCampaign`; what the node does is `NodeOta`, where the trigger may come at any
time, which covers every campaign. A node's reset is any-time in `Provisioning` and spelled out in
`NodeOta`. What a scanner publishes in `TagScanner` is a report in `TagTracking`.

Definitions named `Slip...` are variants of the definition after them with a mistake a maintainer
could make. No specification uses them; putting one in place of the original must break the
property `PROJECT.json` pairs it with, and does.

### Provisioning and NodeRoll

`table`, `nvs` are the used entries of `s_nodes` and of the blob in NVS; `stack` is the mesh stack's
node list; `task` holds for each address its config task's position in `node_config_task`,
`cfg_send_retry` and `wait_cfg_ack`, and for `Ping` the ping task's; `lock`, `wait` and `ackBit` are
`s_cfg_mutex`, the wait record and the event bit. `net` is the set of config messages in flight, so
they are reordered freely; `node` is what each device has really got. One action is one callback or
one stretch of a task between two calls that let others run: sending, registering in
`wait_cfg_ack`, the wait's two outcomes and the clean-up after it are separate, which is where an
early or late answer slips in. The mesh callbacks of the gateway run on one task and are atomic to
each other. `Save` writes NVS or, as the code only logs an error, does not. A restart between a
change of the table and its save leaves the state a failed save leaves.

What is external: the mesh stack (`ProvStack`, `ProvFail`, loss and delay of messages). It
provisions a device it has been given, keeps the address of a device it still lists, and hands out
fresh addresses otherwise. A node answers a request it has carried out and binds only a key it has.

Assumptions that matter: a beacon is handled after the PROV_COMPLETE events queued before it (same
task, one queue). A node does not reset between being provisioned and the gateway's callback for it
(the button takes ten seconds). An answer that comes after its wait has expired or before it is
registered counts as a fault of the radio and uses up `MaxFault`.

`NodeRoll` is the promise: the roll names a device at most once, by an address no other device has; a
device is called configured only when, if it can be reached under its address, it has the key and is
bound to it; and a device once configured is struck off only when it has left, or with everything
else. The copy that a restart reads follows the roll or, when storage fails, stays behind.
`Provisioning` implements it with the roll being the table by device (`RollOf`), the copy the blob in
NVS, a device's home the address it has itself, and the usable ones those with key and binding
(`Bound`). Messages, tasks, mutex, retries and the stack's own list are what the mapping forgets.

### TagTracking and TagBoard

`track` is `s_tags` without RSSI values (the gateway stores, but never uses them). A tag's `here` is
`current_zone_id` being known. `worker` and `timer` are the two tasks between their steps; `zone` and
`api` the mutexes with their holders. `api` is the MQTT client's own recursive mutex, external
code: `esp_mqtt_client_publish` takes it, and the client's task holds it while it dispatches events
to `mqtt_event_handler`. `tb`, `announced` and `told` say what ThingsBoard was sent. Sections under
the zone mutex that call nothing (the worker's update) and the reconnect handler, which holds both
mutexes, are one step. The timer's section is not: it publishes inside. `bmt_zone_reset_all` takes
no mutex and can come anywhere, but a restart follows at once; a record torn by it is not modelled
beyond its being cleared.

The unit of time is the timer's period. `Late` bounds how far a timer that can run lags behind the
clock; a timer that waits for a mutex lags as long as it has to. `Wrap` stands for 2^32 ms.
`MarkedInTime` puts a number on how long a silent tag can pass for one in range: the time-out, one
delay between two readings of the clock, and one between the reading and the end of its scan, as the
reading is taken before the mutex (line 237). Once the lock-up has happened (`Stuck`) nothing is
marked before a restart.

`TagBoard` is the promise about what ThingsBoard is told: in every MQTT session a tag is introduced
before its telemetry; that it is out of range is told only when that is owed, and never of a tag in
range; a report settles what is owed. `TagTracking` implements it with the tags in range and those with
a pending message, by their flags in `s_tags` (`InRange`, `Owed`). What the mapping forgets is
everything that runs: queue, worker, timer, both mutexes, connection and clock. Between
`bmt_zone_reset_all` and the restart the promise is weaker (`leaving`): what the tasks had in hand is
still sent, for tags that are no longer known.

### MeshHealth

`entry`, `seen`, `online` are the fields of a node's entry that matter here; `seen` is the time
since `last_seen_ms`, counted up to just over the offline time-out, or `Never`. `ping`, `cfg` with
`queue`, and `wd` are `node_ping_task`, the config tasks with those waiting for `s_cfg_mutex`, and
`data_watchdog_task`, each with its position and what is left of its delay. `wd.heard` says that the
count differs from the snapshot. `dev` is what a node believes of itself, which only the node and a
RESET_CMD that reaches it change. `told` is what ThingsBoard shows.

Time is explicit: `Tick` lets a unit pass and is possible only when no task has anything to do
(`Urgent`), so the delays of the code are the delays of the model. An answer comes within `MaxAnswer`
units, or not at all. The ping task's reading of the clock and its use of `last_seen_ms` are two
instants: `young` says that a callback has set a later time in between, in which case the unsigned
difference is huge.

How a node is provisioned and configured is in `Provisioning`; here joining is one step and
configuration is a time for which the mutex is held, short or, when answers are lost, long, that ends
well or in `cfg_abort_cleanup`. A configuration that is given up leaves its node without the AppKey,
the earlier of the two steps it can stop at. The wipe, the restart a second later and the restart's
own boot time are one step. The wrap of the tick counter after 49 days, with `last_seen_ms` being 0
by accident, is left out.

### NodeOta and NodeUpdate

`stack` is what the mesh stack keeps in NVS, `ram` the module's own `s_provisioned` and `s_app_idx`;
`reset` is `s_reboot_after_reset`, the event the stack still owes and the fallback tasks under way.
`pc` holds the callers of `bmt_ota_trigger` and the delays inside callbacks: mesh and advertising
callbacks share the BLE host's task, so while one waits (300 ms before a reset, the delay before a
restart) no other runs. UART and the periodic check are tasks of their own. `flag` is
`s_ota_triggered`; each `ota_wifi_task` has a `job`, whose steps are those of
`ota_wifi_bring_up`, the fetch, `mark_pending` and `ota_wifi_tear_down`; `wifi` is what exists of the
Wi-Fi stack. `running`, `slot` and `server` are versions. `Boot` is every way to restart; it is a step
of the reset event, the fallback, the button, the end of an update, an abort or a power cut.

Waiting times are left out: a delay is a point where others may come before. `races` counts a second
caller's passing the check while a first has not yet set the flag. It can really happen, as the code
tests and sets in two steps, and then two updates share the Wi-Fi objects; `OneUpdate` is about
behaviours without it, the other properties about all. External: the mesh stack, which erases what it
stored before its reset event, which need not come; the Wi-Fi library, where a second station
interface is an abort; the server, whose file changes in either direction. Left out: a download that
is slower than the patience of its caller; the two apps' own publishing meanwhile.

`NodeUpdate` is the promise: a version that only rises, and a success that is told only while owed.
`NodeOta` implements it with `installed` being the boot slot, and a success owed while `pending` is
stored, its report is about to be sent or an image has just been flashed.

### OtaCampaign

`running` is `s_running`, `arg` is `s_arg`, `caller` a caller between the compare-and-exchange and the
creation of its task, `task` the two tasks with the slot they are at and the messages left. `id`,
`raw` and `nvs` are the key in the crypto store, its copy in RAM and in NVS; `rot` is
`key_rotate_task`, `join` a config task about to push the key to a new scanner. `pub` is the publish
address of the vendor model, which the campaign, the rotation and the config task share: `Address`
sets it, `Sent` uses it, and another publisher may come in between. `key` and `flash` are a scanner's
key in RAM and NVS.

`aims`, `got`, `calm`, `sound` and `clean` are not in the code. They say what a property may assume:
whom this campaign is for and whom it has triggered, whether nothing was lost, mixed up or rotated
meanwhile, and whether the last rotation went through undisturbed. `mishaps` is their budget. Left
out: waiting times; the 90 s per node. A mesh message arrives before the next of the same sender or
not at all. The key's content is its number; a signature made with a key destroyed in between is no
key's.

### TagScanner

Time goes in steps. A tag's sequence number and epoch follow from the time since its start, as its
frames go out on a timer; `Heard` are the frames the scanner may be handed now, the current one and
older ones that waited in the stack. A frame missed is one not taken, a frame twice one taken twice.
`slots` and `lock` are `s_epoch_state`, `entry` is `s_tags`, `radio` and `check` the two tasks with
what is left of their delays, `fresh` is `s_has_new_data`, `ota` is `bmt_ota_is_triggered`. An entry
also remembers the tag's start and the frame it came from, a lock whether the epoch was right, so that
the properties can compare what the scanner believes with what the tag did.

`Accept` lets a frame be taken for another epoch whose 16-bit code agrees (`clashes`), in the order
in which `bmt_auth_verify_tag` tries them. `checked` says that a check of the time-outs has run
since the last failed update, which suspends them: `NoStaleReport` starts from there. `Edge` is the
one place where prediction can be two epochs off: both counts are rounded down, and in the last
moments of a full hour since the frame the scanner locked on, the tag can be one change further than
it should. A tag that was silent until just then is refused until the scanner's count moves on;
`NeverLockedOut` says that there is no other such moment, and so that none is for ever. `HearPhone`
are iBeacons without sequence numbers, which share the table.

Left out: signal strength, filter, distance, battery, names, the printed table. The frame of the
nRF52840 lasts about a second, the other's half; one `Interval` stands for either.

## Runs

| Run | Question | Result |
| --- | --- | --- |
| `prov` | Do table, NVS, stack and nodes keep what `NodeRoll` promises over faults, failed saves, resets, a crash, and is every node configured in the end? | holds |
| `prov_uart` | Does a healthy node stay in the table, and is one given up only with cause, with a full table, manual provisioning and a full reset under way? | holds |
| `prov_zombie` | Does a node that beacons again get provisioned again, over a gateway restart? | refuted |
| `tags` | Announcements, pending out-of-range messages, silent tags marked in time, over connections, faults, resets | holds; marking but for the lock-up |
| `tags_clock` | Is a tag marked only when it has been silent? | refuted |
| `tags_embrace` | Is an owed out-of-range message sent in the end? | refuted |
| `health` | Does only trouble reset the mesh, and is what is dead or offline noticed? | holds |
| `health_dead` | Is an idle but healthy mesh never taken for a dead one? | refuted |
| `health_orphan` | Is a node that was away during the reset provisioned again? | refuted |
| `node_ota` | Does a node keep its promise, clean up, leave when told, and end up up to date? | holds |
| `campaign` | One campaign at a time that ends, reaches all it is for, with one key everywhere? | holds |
| `scanner` | Is no tag locked out, are losses exact, are entries refreshed, given up and reported in time? | holds |

The refuted ones are described under `findings` in `PROJECT.json`; in short: an entry that a restart
brings back unconfigured blocks its node (`bmt_mesh.c:313`); the zone timer's clock reading can be
older than the record it is compared with (`bmt_thingsboard.c:237`); the zone timer and the
reconnect handler take the zone mutex and the client's mutex in opposite orders
(`bmt_thingsboard.c:254` and `:73`); a configuration that fails keeps the mutex, and so the pings,
for longer than the watchdog's window (`bmt_mesh.c:192`); and a node that misses the reset commands
is forgotten by the gateway without knowing it (`bmt_watchdog.c:107`).

Bounds. Provisioning: one scanner and one relay are enough for two config tasks and the ping task to
compete, for an address to be compared with another's, and (with a table of one) for a full table;
two attempts per step give a retry (one, in `prov_uart`, lets a single fault end a configuration);
each kind of event that needs luck (fault, failed save, reset, crash) may happen once, and three
addresses let a node be provisioned again after that. `prov` has 519 thousand states and more
without the budgets being the reason a run ends: the properties are about the orders of these
events, not their number. TagTracking: two tags and room for one gives a full table, a queue of one
is full at the second report, two reports bring a tag in and back again, one lost connection, one
refused publish and one restart each. Time-out 1, lag 1 and wrap at 5 let every comparison happen on
both sides of the wrap and leave room above the oldest age that `MarkedInTime` allows, which is 3
and does occur. CHECK_DEADLOCK is off for `Provisioning`: with all nodes configured and the budgets
used up nothing need happen. In `TagTracking` the clock always runs. MeshHealth: one relay and one
scanner let a round consist of two pings, one node join while the other is pinged, and a relay alone
answer. `health` and `health_orphan` count in 5 s: the delays of the code are multiples of it (30,
20, 10, 5, 60, 30, 15, 30 s), but for the half second between two pings (0), the second and a half
between reset commands (1 unit) and the 12 s wait (2 units); the retries of a slow configuration
take 7 units, which is more than the watchdog's window, and two reset commands stand for five.
`health_dead` counts in half a second and has every delay exactly, so that its counterexample owes
nothing to rounding. One thing that goes wrong and one other event (return, lost connection, update)
per run. Deadlock is checked: whenever no task can run, time can pass.

NodeOta: two jobs and two callers are enough to overlap; versions 0 and 1 with two changes of the
file on the server give an update, the same image and an older one; one race, fault, reset and power
cut each, in any order. What a second of each adds is covered by the theorems, which have no bound.
For liveness the bounds mean that in the end the environment keeps quiet, which is what an eventual
property is about. OtaCampaign: one scanner and one relay in a table of two give every type a node
and a slot of another type, two messages per node give a lost one and one that arrives, one rotation
next to the first key, two mishaps a failure and another during what makes it good, two nodes
configured or one twice. TagScanner: two tags compete for one slot of authentication, with a phone
three devices for two entries; ten sequence numbers, with 2 for the largest jump and 3 for what
counts as late, overflow within the eleven steps of the run, as do six epochs of three steps, of
which the wide resync reaches the first two only; the tags have run for two epochs when the scanner
starts, so that one is locked out if it is ever predicted wrongly. The time-out, its check and delay
and the radio's phases last one step. Symmetry is between the two tags. One restart or failed update
and one clash per run. The scales are not the code's; that the properties hold for the code's is
what the theorems show.

Fairness. `Provisioning`: weak for every task step, callback and answer, because FreeRTOS runs a
task that is ready; strong only for a config task's `Take`, as a FreeRTOS mutex goes to the waiting
task of the highest priority and config tasks (5) are above the ping task (3). None for faults,
resets, crashes, UART. `TagTracking`: weak for the clock, worker, timer, client and the restart
after a reset; the client's covers reconnecting, which it retries every five seconds. `MeshHealth`:
weak for time, for each task, for reconnecting, and for `Join`, since a node in reach beacons again
and again and the gateway provisions what it hears. None for nodes, radio, lost messages, TAG_STATUS
or updates. `NodeOta`: weak for every task and timer and for the periodic check, which calls
`bmt_ota_trigger` every three minutes for ever; strong for the access point's letting a node in and
for the server's delivering the file, as each attempt is a new chance. None for mesh, resets, power
and the reset event, so `ResetRestarts` rests on the fallback. `OtaCampaign`: weak for callers past
the exchange, for tasks, rotation and joining; none for what can go wrong. `TagScanner` has no
liveness property: what should happen in time is said with the clock.

## Proofs

`ProvisioningProofs` proves, for every value of the constants that satisfies
`ProvisioningAssumption`: `TypeOK`, `OneExchange` (a step to the others, which no run lists),
`AckIsGenuine`, `ConfiguredIsBound`, `UniqueEntries`. None but the first two is inductive. That a
configured node is bound rests on the event bit meaning what the task takes it to mean, which rests
on the wait record being the task's own (`WaitIsMine`, needing `OneExchange`), on answers in flight
having been earned (`AcksAreGenuine`), on bind requests going only to nodes with the key
(`BindersHaveKey`), and all of these on an address never passing to a second device while anything
names it (`AddrOwned`, `InProgress`, `LinkIsNew`, `OrphanIsClean`). `IInv` is their conjunction;
there is one lemma per conjunct. The ping task may wait for the wrong node's answer, its slot having
been taken over meanwhile, so `WaitIsMine` is about config tasks only and the ping's opcode
(`PingAsksTtl`) does the rest.

`ProvisioningTableProofs` adds to that invariant, for the same constants: `HealthyNodeKept`,
`NoEntryStalls`, `StackKnowsEntries`. An address is not given to a config task while its entry is
configured (`Unfinished`), which is why `cfg_abort_cleanup` deletes no configured entry. That table
and stack agree takes the copy in NVS and the PROV_COMPLETE events that are still queued into the
invariant (`Agree`), since a restart reads the one and an event adds what the other already lists. A
full reset is over only with the restart, so it counts from its beginning (`WipeCounted`).

It also proves that `Provisioning` implements `NodeRoll` (`KeepsRoll`): every action is a step of
`NodeRoll` or leaves roll, copy, homes and usable devices alone (`RollStep`), with one lemma for each
action that does not. `IInv` gives the uniqueness of entries and addresses and the binding of what is
configured; what it lacks is that a device without an address has forgotten the keys too, and that a
queued PROV_COMPLETE names the address its device has (`Settled`), without which an entry could be
made under an address its device has given up.

And it proves `GivenUpWithCause`: a configuration whose node is still at its address is given up only
after as many faults as a step has attempts. The invariant `Causes` is an account. Each attempt that
is over has been charged to a fault, and the current one has been, too, unless its request or answer
is in flight or the answer has set the event bit (`Charged`); and who waits has registered for its
own node and opcode (`Listening`), so that the one answer in flight is neither refused nor given to
another. The mutex is what keeps this: without it a second exchange clears the bit or takes over the
wait record, and an attempt is spent with no fault to charge.

`TagTrackingProofs` proves, under `TagTrackingAssumption`: `TypeOK`, `AnnouncedFirst` (part of the
next, no run lists it), `KeepsBoard`, `ReplayNotMissed`, `NoStaleOut`, `MarkedInTime`. The invariant
says who holds the mutexes (`Holders`), that a message is owed only for a tag out of range
(`OwedIsOut`), what the worker may rely on (`WorkerKnows`) and that during a session every tracked
tag has been announced or is about to be (`TrackedIsAnnounced`). Lemmas first state what each action
does to the table field by field. That `TagTracking` implements `TagBoard` (`KeepsBoard`) takes one
conjunct more: what the timer is about to send is still owed (`SendsOwed`), because nobody but a
reset clears the mark while the timer holds the zone mutex. There is a lemma for each kind of step
that the board sees. `MarkedInTime` has an invariant of its own, `InTime`: the timer is at most
`Late` behind its last reading of the clock, and a tag in range was heard of at most the time-out
and that lag ago, plus one more `Late` while a scan is under way. It holds for any time-out and any
length of the clock's turn, given that time-out and one delay together are shorter than a turn; the
lemmas before it (`WithinTurn`, `ElapsedIs`, `ElapsedTicks`, `ElapsedAdds`) are the arithmetic of
unsigned differences on a clock that wraps. The lock-up is excluded by name, not by assumption:
`StuckStays` proves that once the timer waits for the client and the client for the timer only a
restart ends it.

`MeshHealthProofs` proves, under `MeshHealthAssumption`: `TypeOK`, the action property
`NoResetDuringOta`, and `StatusAgrees`. The last is not inductive: the end of a configuration tells
ThingsBoard that a node is online and says nothing to its entry. The invariant adds that an entry in
configuration has not been heard and belongs to a node that cannot have sent anything the gateway
counts (`Joining`, `InConfig`, `OneTask`), that only a node that was heard is online (`OnlineSeen`),
and that the connection is there until one is lost (`Connected`).

`MeshHealthTimingProofs` proves `ResetHasCause` for any number of nodes that join at any moment,
from one assumption on the delays, `DelaysFit`: the pauses of the ping task, the longest answer and
the configuration of all nodes but the pinged one together are shorter than the watchdog's window,
and the first round begins at most one pause after the mesh has settled. The invariant bounds the
time until the next answer, `Due`, by what is left of the window; the time configurations still need
moves from `Waiting` nodes to the one being configured. In the code the pauses take 20.5 s of a
window of 30 s, which leaves 9.5 s for the answer and the configurations: ten nodes that join at
once, each holding the mutex for more than a second, do not fit, and the watchdog may then reset a
healthy mesh. The hypothesis says exactly what a change of these delays, or of `BMT_MAX_NODES`, must
keep.

`NodeOtaProofs` proves, under `NodeOtaBounds` (the bounds are natural numbers): `TypeOK`,
`OneUpdate`, `NothingLeft`, `LeavesClean` (which no run lists), and that `NodeOta` implements
`NodeUpdate` (`KeepsPromise`). `Typed` counts the fallback tasks against the resets, so that the
type of the counter is inductive. `Serial` says that without a race a caller past the check, a job
and the flag exclude each other as they should; `Torn` that what exists of Wi-Fi is what some job
has still to take down, for every step of the tear-down; `Hooked` that without a race the event
handlers have their event group. For the refinement each action is a step of `NodeUpdate` or leaves
its variables alone.

`OtaCampaignProofs` proves, under `OtaCampaignAssumption`: `TypeOK`, `OneCampaign`, `KeysAgree`,
`CampaignReaches`. `TypeOK` needs that every key made has a cause (`Bounded`). `Session` is
`OneCampaign` with the step between writing and reading `s_arg`. For the keys, `KeyInv` says which
scanners already have the key at each point of a rotation: those in slots it has passed and those that
joined since (`Has`, `Later`). For the campaign, `CalmInv` says the same of the loop over the table
(`FromTheFirst`, `Covers`) and that while nothing is disturbed the publish address is the sender's own
and the keys agree (`World`), which is where `KeysAgree` is used again: the beacon is heard only by
scanners that have the key.

`TagScannerProofs` proves all six properties of the run `scanner`, under `Lengths`, `Names` and
`Margins`. `Margins` is what the code's constants must satisfy: the wide resync stays below the
overflow of the epoch, a jump stays below half the sequence numbers, also together with the age of a
frame, and a newer frame that looks a little old by overflow is so many frames away that its entry
has timed out before. The code's 256, 30, 10 and 5 s satisfy it. The invariants are `Typed`;
`Timed`, how old an entry can be at each point of the check and of the radio's round; `Framed`, that
a sequence number is its frame's, and how far frame and time of an entry are apart; `Locked`, that
an epoch taken rightly is the epoch of a time close to when it was taken. The lemmas before them are
the arithmetic of `/` and `%`: from the division law it follows that differences of bytes are
differences of frames, and that two counts rounded down at different moments differ by at most one.

Only model-checked: liveness (`EventuallyConfigured`, `SilenceIsMarked`, `DeadIsNoticed`,
`OfflineIsNoticed`, `AnsweringIsOnline`, `ResetRestarts`, `EventuallyUpToDate`, `CampaignEnds`), as
liveness under fairness is beyond the prover.

## Not modelled

- The zone rule chain: JavaScript inside an exported ThingsBoard configuration. Whether its
  read-modify-write of attributes interleaves is up to a server the repository does not show.
- Wi-Fi, configuration and boot of the gateway: driver calls; their order is in `Init` and `Boot`.
- The Kalman filter, distance estimate and battery: floating-point or analogue data without control.
- The MAC cache, which feeds names only; the OTA and status commands of the UART as text.
- The cryptographic primitives, TLS, the image download and its verification, MQTT itself.
- The wrap of the tick counter after 49 days in `MeshHealth` (it is in `TagTracking`).

## Plan

What would add most: tighter bounds in `DelaysFit` for nodes that join one after another instead of all
at once; how long the worker may be held up between its update and its publish, in `TagTracking`.

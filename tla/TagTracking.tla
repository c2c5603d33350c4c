---------------------------- MODULE TagTracking ----------------------------
(***************************************************************************)
(* Tags on their way through the gateway: bmt_mqtt.c, bmt_zone.c and       *)
(* bmt_thingsboard.c.                                                      *)
(*                                                                         *)
(* The mesh callback puts each tag report in a queue.  The MQTT worker      *)
(* takes it, updates the tag's record under the zone mutex and publishes it  *)
(* after releasing the mutex.  The zone timer, once a second, marks tags    *)
(* not heard of for BMT_TAG_OUT_OF_RANGE_MS as out of range and publishes   *)
(* that, under the mutex.  When MQTT connects, the client's own task        *)
(* announces every tag again, under the mutex, and replays the out-of-range *)
(* messages that could not be sent.  The MQTT client (external) has a mutex *)
(* of its own: publish takes it, and the client holds it while it runs the  *)
(* event handler.  The unit of time is the timer's period; the clock wraps  *)
(* as the 32-bit millisecond counter does.                                  *)
(***************************************************************************)
EXTENDS Integers, Sequences, FiniteSets

CONSTANTS
  Tag,          \* tag ids
  MaxTracked,   \* BMT_MAX_TRACKED_TAGS
  QueueSize,    \* BMT_MQTT_QUEUE_SIZE
  OutOfRange,   \* BMT_TAG_OUT_OF_RANGE_MS, in timer periods
  Wrap,         \* 2^32 milliseconds, in timer periods
  Late,         \* the scheduler: a timer that can run falls at most this far behind
  MaxReport,    \* bound: tag reports
  MaxDrop,      \* bound: lost MQTT connections
  MaxFault,     \* bound: publishes that fail while connected
  MaxRestart    \* bound: restarts (UART 0 and 9, watchdog)

ASSUME TagTrackingAssumption ==
  /\ MaxTracked \in Nat /\ QueueSize \in Nat \ {0}
  /\ OutOfRange \in Nat /\ Late \in Nat \ {0} /\ Wrap \in Nat /\ OutOfRange + Late < Wrap
  /\ MaxReport \in Nat /\ MaxDrop \in Nat /\ MaxFault \in Nat /\ MaxRestart \in Nat

VARIABLES
  now,          \* xTaskGetTickCount
  track,        \* s_tags, by tag: active; current_zone_id known; last_any_report_ms; pending
  zone,         \* s_lock, the zone mutex: its holders
  queue,        \* s_queue, of tag ids
  worker,       \* mqtt_worker_task: where it is, its report, was_new
  timer,        \* zone_timeout_task: where it is, its `now', the tag it publishes
  connected,    \* s_connected
  client,       \* the client's task: idle, about to run the handler, in on_connected
  api,          \* the client's mutex: its holders
  tb,           \* what ThingsBoard was last told of each tag
  announced,    \* tags announced in this MQTT session
  told,         \* tags with telemetry in this MQTT session
  resetting,    \* bmt_zone_reset_all is done, the restart is to come
  reports, drops, faults, restarts   \* what the bounds count

books  == <<track, tb, announced, told>>
mqtt   == <<connected, client, api>>
budget == <<reports, drops, faults, restarts>>
vars   == <<now, books, zone, queue, worker, timer, mqtt, resetting, budget>>

Time == 0 .. Wrap - 1
Free == {}

Blank == [active |-> FALSE, here |-> FALSE, last |-> 0, pending |-> FALSE]

WorkerState ==
  [pc : {"idle"}] \cup [pc : {"lock", "check", "announce", "publish"}, tag : Tag, new : BOOLEAN]
TimerState ==
  [pc : {"sleep", "lock", "scan"}, stamp : Time] \cup [pc : {"publish"}, stamp : Time, tag : Tag]

\* TYPES.  Every variable is in its range; the report queue never holds more than
\* BMT_MQTT_QUEUE_SIZE reports (bmt_mqtt_enqueue_tag_report drops instead).
TypeOK ==
  /\ now \in Time
  /\ track \in [Tag -> [active : BOOLEAN, here : BOOLEAN, last : Time, pending : BOOLEAN]]
  /\ zone \in {Free, {"timer"}} /\ api \in {Free, {"client"}}
  /\ queue \in Seq(Tag) /\ Len(queue) =< QueueSize
  /\ worker \in WorkerState /\ timer \in TimerState
  /\ connected \in BOOLEAN /\ client \in {"idle", "event", "handler"}
  /\ tb \in [Tag -> {"nothing", "seen", "out"}]
  /\ announced \in SUBSET Tag /\ told \in SUBSET Tag /\ resetting \in BOOLEAN
  /\ reports \in 0 .. MaxReport /\ drops \in 0 .. MaxDrop
  /\ faults \in 0 .. MaxFault /\ restarts \in 0 .. MaxRestart

Init ==
  /\ now = 0
  /\ track = [t \in Tag |-> Blank] /\ zone = Free
  /\ queue = <<>> /\ worker = [pc |-> "idle"] /\ timer = [pc |-> "sleep", stamp |-> 0]
  /\ connected = FALSE /\ client = "idle" /\ api = Free
  /\ tb = [t \in Tag |-> "nothing"] /\ announced = {} /\ told = {} /\ resetting = FALSE
  /\ reports = 0 /\ drops = 0 /\ faults = 0 /\ restarts = 0

\* Slip: the difference as a signed number.
SlipElapsedSigned(a, b) == a - b

\* The unsigned difference of two readings of the clock.
Elapsed(a, b) == (a - b) % Wrap

\* The clock.  A timer that waits for the client's mutex falls behind as far as it has to.
Tick ==
  /\ Elapsed(now, timer.stamp) < Late \/ (timer.pc = "publish" /\ api # Free)
  /\ now' = (now + 1) % Wrap
  /\ UNCHANGED <<books, zone, queue, worker, timer, mqtt, resetting, budget>>

Active == {t \in Tag : track[t].active}

-----------------------------------------------------------------------------
(* The queue and the worker. *)

\* Slip: a full queue takes one more.
SlipEnqueueAlways(t) ==
  /\ reports < MaxReport /\ reports' = reports + 1
  /\ queue' = Append(queue, t)
  /\ UNCHANGED <<now, books, zone, worker, timer, mqtt, resetting, drops, faults, restarts>>

\* bmt_mqtt_enqueue_tag_report: a full queue drops the report.
Enqueue(t) ==
  /\ reports < MaxReport /\ reports' = reports + 1
  /\ queue' = IF Len(queue) < QueueSize THEN Append(queue, t) ELSE queue
  /\ UNCHANGED <<now, books, zone, worker, timer, mqtt, resetting, drops, faults, restarts>>

WorkerTake ==
  /\ worker.pc = "idle" /\ queue # <<>>
  /\ worker' = [pc |-> "lock", tag |-> Head(queue), new |-> FALSE]
  /\ queue' = Tail(queue)
  /\ UNCHANGED <<now, books, zone, timer, mqtt, resetting, budget>>

\* Slip: a report leaves the pending message alone.
SlipHeardKeepsPending ==
  [active |-> TRUE, here |-> TRUE, last |-> now, pending |-> track[worker.tag].pending]

\* bmt_tb_pub_tag_report, under the zone mutex.  With the table full it returns.
Heard == [active |-> TRUE, here |-> TRUE, last |-> now, pending |-> FALSE]
WorkerUpdate ==
  LET t == worker.tag IN
  /\ worker.pc = "lock" /\ zone = Free
  /\ IF t \in Active \/ Cardinality(Active) < MaxTracked
     THEN /\ track' = [track EXCEPT ![t] = Heard]
          /\ worker' = [pc |-> "check", tag |-> t, new |-> t \notin Active]
     ELSE track' = track /\ worker' = [pc |-> "idle"]
  /\ UNCHANGED <<now, tb, announced, told, zone, queue, timer, mqtt, resetting, budget>>

\* After the mutex: is MQTT connected?
WorkerCheck ==
  /\ worker.pc = "check"
  /\ worker' = IF ~connected THEN [pc |-> "idle"]
               ELSE [worker EXCEPT !.pc = IF worker.new THEN "announce" ELSE "publish"]
  /\ UNCHANGED <<now, books, zone, queue, timer, mqtt, resetting, budget>>

\* tb_connect_device and tb_set_role check again.
WorkerAnnounce ==
  /\ worker.pc = "announce" /\ api = Free
  /\ announced' = IF connected THEN announced \cup {worker.tag} ELSE announced
  /\ worker' = [worker EXCEPT !.pc = "publish"]
  /\ UNCHANGED <<now, track, tb, told, zone, queue, timer, mqtt, resetting, budget>>

\* QoS 0: sent at once or not at all.
WorkerPublish ==
  LET t == worker.tag IN
  /\ worker.pc = "publish" /\ api = Free
  /\ \/ /\ connected
        /\ tb' = [tb EXCEPT ![t] = "seen"] /\ told' = told \cup {t}
        /\ UNCHANGED faults
     \/ /\ ~connected
        /\ UNCHANGED <<tb, told, faults>>
     \/ /\ connected /\ faults < MaxFault /\ faults' = faults + 1
        /\ UNCHANGED <<tb, told>>
  /\ worker' = [pc |-> "idle"]
  /\ UNCHANGED <<now, track, announced, zone, queue, timer, mqtt, resetting, reports, drops,
                 restarts>>

-----------------------------------------------------------------------------
(* zone_timeout_task.  It reads the clock before it takes the mutex. *)

TimerWake ==
  /\ timer.pc = "sleep" /\ now # timer.stamp
  /\ timer' = [pc |-> "lock", stamp |-> now]
  /\ UNCHANGED <<now, books, zone, queue, worker, mqtt, resetting, budget>>

TimerLock ==
  /\ timer.pc = "lock" /\ zone = Free
  /\ zone' = {"timer"} /\ timer' = [timer EXCEPT !.pc = "scan"]
  /\ UNCHANGED <<now, books, queue, worker, mqtt, resetting, budget>>

Expired == {t \in Active : track[t].here /\ Elapsed(timer.stamp, track[t].last) > OutOfRange}

\* tb_publish_tag_out_of_range checks the connection first.
TimerMark(t) ==
  /\ timer.pc = "scan" /\ t \in Expired
  /\ track' = [track EXCEPT ![t].here = FALSE, ![t].pending = TRUE]
  /\ timer' = IF connected THEN [pc |-> "publish", stamp |-> timer.stamp, tag |-> t] ELSE timer
  /\ UNCHANGED <<now, tb, announced, told, zone, queue, worker, mqtt, resetting, budget>>

\* QoS 1: sent, or kept by the client until it is connected again, or refused.
TimerPublish ==
  /\ timer.pc = "publish" /\ api = Free
  /\ \/ /\ track' = [track EXCEPT ![timer.tag].pending = FALSE]
        /\ tb' = [tb EXCEPT ![timer.tag] = "out"]
        /\ UNCHANGED faults
     \/ /\ faults < MaxFault /\ faults' = faults + 1
        /\ UNCHANGED <<track, tb>>
  /\ timer' = [pc |-> "scan", stamp |-> timer.stamp]
  /\ UNCHANGED <<now, announced, told, zone, queue, worker, mqtt, resetting, reports, drops,
                 restarts>>

\* Slip: without a connection nothing is marked, as nothing could be sent.
SlipDoneOffline ==
  /\ timer.pc = "scan" /\ (Expired = {} \/ ~connected)
  /\ zone' = Free /\ timer' = [timer EXCEPT !.pc = "sleep"]
  /\ UNCHANGED <<now, books, queue, worker, mqtt, resetting, budget>>

TimerDone ==
  /\ timer.pc = "scan" /\ Expired = {}
  /\ zone' = Free /\ timer' = [timer EXCEPT !.pc = "sleep"]
  /\ UNCHANGED <<now, books, queue, worker, mqtt, resetting, budget>>

-----------------------------------------------------------------------------
(* The MQTT client's task. *)

\* A connection is made: the client runs the event handler with its mutex held.
ClientConnects ==
  /\ client = "idle" /\ ~connected /\ api = Free
  /\ client' = "event" /\ api' = {"client"}
  /\ announced' = {} /\ told' = {}
  /\ UNCHANGED <<now, track, tb, zone, queue, worker, timer, connected, resetting, budget>>

\* MQTT_EVENT_CONNECTED, up to on_connected ...
OnConnected ==
  /\ client = "event"
  /\ connected' = TRUE /\ client' = "handler"
  /\ UNCHANGED <<now, books, zone, queue, worker, timer, api, resetting, budget>>

\* Slip: tags out of range are left out.
SlipReannounceHere ==
  /\ client = "handler" /\ zone = Free
  /\ announced' = announced \cup {t \in Active : track[t].here}
  /\ client' = "idle" /\ api' = Free
  /\ UNCHANGED <<now, track, tb, told, zone, queue, worker, timer, connected, resetting, budget>>

\* ... and bmt_tb_reconnect_all_devices, which holds both mutexes: nobody sees it half done.
Reannounce ==
  /\ client = "handler" /\ zone = Free
  /\ announced' = announced \cup Active
  /\ \E refused \in SUBSET {t \in Active : track[t].pending} :
       /\ refused # {} => faults < MaxFault
       /\ faults' = IF refused = {} THEN faults ELSE faults + 1
       /\ track' = [t \in Tag |-> IF t \in Active \ refused THEN [track[t] EXCEPT !.pending = FALSE]
                                  ELSE track[t]]
       /\ tb' = [t \in Tag |-> IF t \in Active \ refused /\ track[t].pending THEN "out" ELSE tb[t]]
  /\ client' = "idle" /\ api' = Free
  /\ UNCHANGED <<now, told, zone, queue, worker, timer, connected, resetting, reports, drops,
                 restarts>>

\* MQTT_EVENT_DISCONNECTED.
Disconnected ==
  /\ client = "idle" /\ connected /\ api = Free
  /\ drops < MaxDrop /\ drops' = drops + 1
  /\ connected' = FALSE
  /\ UNCHANGED <<now, books, zone, queue, worker, timer, client, api, resetting, reports, faults,
                 restarts>>

-----------------------------------------------------------------------------
\* UART 0 and 9 and the watchdog: bmt_zone_reset_all, without the mutex, a delay during which
\* everything else runs on, and esp_restart.
ResetAll ==
  /\ ~resetting /\ restarts < MaxRestart
  /\ resetting' = TRUE /\ restarts' = restarts + 1
  /\ track' = [t \in Tag |-> Blank]
  /\ UNCHANGED <<now, tb, announced, told, zone, queue, worker, timer, mqtt, reports, drops,
                 faults>>
Restart ==
  /\ resetting
  /\ resetting' = FALSE
  /\ now' = 0 /\ track' = [t \in Tag |-> Blank] /\ zone' = Free
  /\ queue' = <<>> /\ worker' = [pc |-> "idle"] /\ timer' = [pc |-> "sleep", stamp |-> 0]
  /\ connected' = FALSE /\ client' = "idle" /\ api' = Free
  /\ announced' = {} /\ told' = {}
  /\ UNCHANGED <<tb, budget>>

-----------------------------------------------------------------------------
Worker == WorkerTake \/ WorkerUpdate \/ WorkerCheck \/ WorkerAnnounce \/ WorkerPublish
Timer  == TimerWake \/ TimerLock \/ (\E t \in Tag : TimerMark(t)) \/ TimerPublish \/ TimerDone
Client == ClientConnects \/ OnConnected \/ Reannounce

Next ==
  \/ Tick
  \/ \E t \in Tag : Enqueue(t)
  \/ WorkerTake \/ WorkerUpdate \/ WorkerCheck \/ WorkerAnnounce \/ WorkerPublish
  \/ TimerWake \/ TimerLock \/ TimerPublish \/ TimerDone
  \/ \E t \in Tag : TimerMark(t)
  \/ ClientConnects \/ OnConnected \/ Reannounce \/ Disconnected
  \/ ResetAll \/ Restart

Spec == Init /\ [][Next]_vars

\* The clock runs, and every task that can run in the end does (FreeRTOS schedules by priority
\* and the tasks above these block on queues and delays); the client reconnects every 5 seconds.
LiveSpec == Spec /\ WF_vars(Tick) /\ WF_vars(Worker) /\ WF_vars(Timer) /\ WF_vars(Client)
                 /\ WF_vars(Restart)

-----------------------------------------------------------------------------
(* What must hold. *)

\* Within an MQTT session ThingsBoard gets no telemetry of a tag it has not been given the
\* device of: tb_connect_device comes first, from the worker for a new tag and from
\* bmt_tb_reconnect_all_devices for one that is already tracked.
AnnouncedFirst == resetting \/ told \subseteq announced

\* No out-of-range message is left behind: unless a publish was refused, while MQTT is connected
\* one is pending only as long as the timer or the reconnect handler is about to send it.
ReplayNotMissed ==
  faults = 0 /\ connected /\ client = "idle" =>
    \A t \in Tag : track[t].pending => timer.pc = "publish" /\ timer.tag = t

\* ThingsBoard is told that a tag is out of range only while the gateway holds it to be: the
\* timer's message and the replay are never sent for a tag a fresh report has brought back.
NoStaleOut == [][\A t \in Tag : tb[t] # "out" /\ tb'[t] = "out" => ~track[t].here]_vars

\* What the gateway promises about the tags ThingsBoard shows (TagBoard), whatever the worker, the
\* timer and the client's task do to each other's records and messages.
InRange == {t \in Tag : track[t].here}
Owed    == {t \in Tag : track[t].pending}
Shown == INSTANCE TagBoard WITH
           here <- InRange, owed <- Owed, board <- tb, introduced <- announced,
           leaving <- resetting
KeepsBoard == Shown!Spec

\* The timer holds the zone mutex and waits for the client's to publish; the client, in the
\* handler of a new connection, holds its own and waits for the zone mutex.
Embrace == zone = {"timer"} /\ timer.pc = "publish" /\ client = "handler"

\* bmt_thingsboard.c:235-257.  Whatever the clock, the worker and the client do meanwhile, a tag
\* that is held to be in range was heard of at most BMT_TAG_OUT_OF_RANGE_MS and two delays of the
\* timer ago, unless the timer waits for a client that waits for the timer's mutex.
Stuck == timer.pc = "publish" /\ api # Free
MarkedInTime ==
  Stuck \/ \A t \in Tag : track[t].here =>
             Elapsed(now, track[t].last) <= OutOfRange + 2 * Late

\* A tag that falls silent is in the end marked out of range, unless the two mutexes lock up.
SilenceIsMarked == \A t \in Tag : track[t].here ~> (~track[t].here \/ Embrace)

\* docs/03-algorithms.md, section 9: out of range means no telemetry for
\* BMT_TAG_OUT_OF_RANGE_MS.  The timer's clock reading is older than the record it is compared
\* with when a report comes in between the two.
OutMeansSilent ==
  [][\A t \in Tag : track[t].here /\ ~track'[t].here /\ ~resetting /\ ~resetting' =>
       Elapsed(now, track[t].last) > OutOfRange]_vars

\* The same section: no telemetry for BMT_TAG_OUT_OF_RANGE_MS means out_of_range is published,
\* whatever happens to the connection meanwhile.  It is not when the two mutexes lock up.
SilenceIsReported ==
  \A t \in Tag : track[t].pending ~> (~track[t].pending \/ faults > 0)
=============================================================================

------------------------- MODULE TagTrackingProofs -------------------------
(***************************************************************************)
(* What TagTracking promises for every number of tags, queue length,       *)
(* time-out and bound.  The invariant behind the theorems says who holds    *)
(* the two mutexes, that an out-of-range message is owed only for a tag     *)
(* that is out of range, and that in an MQTT session every tracked tag has  *)
(* been announced except the one the worker is about to announce.  That     *)
(* silent tags are marked in time takes an invariant of its own, of the     *)
(* ages that tags and the timer's reading have on a clock that wraps.       *)
(***************************************************************************)
EXTENDS TagTracking, TLAPS

\* The timer holds the zone mutex from its scan to its end, the client its own from the
\* connection to the end of the handler, and s_connected is set in between.
Holders ==
  /\ (zone = Free) <=> timer.pc \in {"sleep", "lock"}
  /\ (api = Free) <=> (client = "idle")
  /\ client = "event" => ~connected
  /\ client = "handler" => connected

\* A message is owed, or being sent by the timer, only for a tag that is out of range.
OwedIsOut ==
  /\ \A t \in Tag : track[t].pending => track[t].active /\ ~track[t].here
  /\ timer.pc = "publish" => ~track[timer.tag].here

\* What the worker has in hand.
WorkerKnows ==
  ~resetting /\ worker.pc \in {"check", "announce", "publish"} => track[worker.tag].active

\* Tracked tags are announced, or about to be.
TrackedIsAnnounced ==
  ~resetting /\ connected /\ client = "idle" =>
    \A t \in Tag : track[t].active =>
      \/ t \in announced
      \/ worker.pc \in {"check", "announce"} /\ worker.new /\ worker.tag = t

IInv == TypeOK /\ Holders /\ OwedIsOut /\ WorkerKnows /\ TrackedIsAnnounced
        /\ AnnouncedFirst /\ ReplayNotMissed

-----------------------------------------------------------------------------
(* Type correctness. *)

\* The clock and its differences stay below the wrap (xTaskGetTickCount is unsigned).
LEMMA ClockType ==
  ASSUME NEW i \in Int
  PROVE  i % Wrap \in Time
BY TagTrackingAssumption DEF TagTrackingAssumption, Time

\* Init starts every variable in its type (app_main, the tasks before their first step).
LEMMA TypeInit == Init => TypeOK
<1> SUFFICES ASSUME Init PROVE TypeOK
  OBVIOUS
<1>1. 0 \in Time /\ 0 \in 0 .. MaxReport /\ 0 \in 0 .. MaxDrop
      /\ 0 \in 0 .. MaxFault /\ 0 \in 0 .. MaxRestart
  BY TagTrackingAssumption DEF TagTrackingAssumption, Time
<1>2. worker \in WorkerState /\ timer \in TimerState
  BY <1>1 DEF Init, WorkerState, TimerState
<1>3. queue \in Seq(Tag) /\ Len(queue) =< QueueSize
  BY TagTrackingAssumption DEF TagTrackingAssumption, Init
<1>4. track \in [Tag -> [active : BOOLEAN, here : BOOLEAN, last : Time, pending : BOOLEAN]]
  BY <1>1 DEF Init, Blank
<1>5. QED
  BY <1>1, <1>2, <1>3, <1>4 DEF Init, TypeOK, Free

\* Every step keeps the variables in their types, the queue at its length included.
LEMMA TypeStep == TypeOK /\ [Next]_vars => TypeOK'
<1> SUFFICES ASSUME TypeOK, [Next]_vars PROVE TypeOK'
  OBVIOUS
<1> USE DEF TypeOK, books, mqtt, budget
<1>1. CASE Tick
  <2>1. now + 1 \in Int
    BY DEF Time
  <2>2. now' \in Time
    BY <1>1, <2>1, ClockType DEF Tick
  <2>3. QED
    BY <1>1, <2>2 DEF Tick
<1>2. ASSUME NEW t \in Tag, Enqueue(t) PROVE TypeOK'
  <2>1. queue' \in Seq(Tag) /\ Len(queue') =< QueueSize
    BY <1>2, TagTrackingAssumption DEF Enqueue, TagTrackingAssumption
  <2>2. reports' \in 0 .. MaxReport
    BY <1>2, TagTrackingAssumption DEF Enqueue, TagTrackingAssumption
  <2>3. QED
    BY <1>2, <2>1, <2>2 DEF Enqueue
<1>3. CASE WorkerTake
  <2>1. Head(queue) \in Tag /\ Tail(queue) \in Seq(Tag) /\ Len(Tail(queue)) =< QueueSize
    BY <1>3, TagTrackingAssumption DEF WorkerTake, TagTrackingAssumption
  <2>2. worker' \in WorkerState
    BY <1>3, <2>1 DEF WorkerTake, WorkerState
  <2>3. QED
    BY <1>3, <2>1, <2>2 DEF WorkerTake
<1>4. CASE WorkerUpdate
  <2>1. /\ worker.tag \in Tag
        /\ Heard \in [active : BOOLEAN, here : BOOLEAN, last : Time, pending : BOOLEAN]
    BY <1>4 DEF WorkerUpdate, WorkerState, Heard
  <2>2. worker' \in WorkerState
    <3>1. [pc |-> "idle"] \in WorkerState
      BY DEF WorkerState
    <3>2. (worker.tag \notin Active) \in BOOLEAN
      OBVIOUS
    <3>3. [pc |-> "check", tag |-> worker.tag, new |-> worker.tag \notin Active] \in WorkerState
      BY <2>1, <3>2 DEF WorkerState
    <3>4. QED
      BY <1>4, <3>1, <3>3 DEF WorkerUpdate
  <2>3. track' \in [Tag -> [active : BOOLEAN, here : BOOLEAN, last : Time, pending : BOOLEAN]]
    BY <1>4, <2>1 DEF WorkerUpdate
  <2>4. QED
    BY <1>4, <2>2, <2>3 DEF WorkerUpdate
<1>5. CASE WorkerCheck
  <2>1. worker' \in WorkerState
    BY <1>5 DEF WorkerCheck, WorkerState
  <2>2. QED
    BY <1>5, <2>1 DEF WorkerCheck
<1>6. CASE WorkerAnnounce
  <2>1. worker' \in WorkerState /\ worker.tag \in Tag
    BY <1>6 DEF WorkerAnnounce, WorkerState
  <2>2. QED
    BY <1>6, <2>1 DEF WorkerAnnounce
<1>7. CASE WorkerPublish
  <2>1. worker' \in WorkerState /\ worker.tag \in Tag
    BY <1>7 DEF WorkerPublish, WorkerState
  <2>2. faults' \in 0 .. MaxFault
    BY <1>7, TagTrackingAssumption DEF WorkerPublish, TagTrackingAssumption
  <2>3. QED
    BY <1>7, <2>1, <2>2 DEF WorkerPublish
<1>8. CASE TimerWake
  <2>1. timer' \in TimerState
    BY <1>8 DEF TimerWake, TimerState
  <2>2. QED
    BY <1>8, <2>1 DEF TimerWake
<1>9. CASE TimerLock
  <2>1. timer' \in TimerState
    BY <1>9 DEF TimerLock, TimerState
  <2>2. QED
    BY <1>9, <2>1 DEF TimerLock
<1>10. ASSUME NEW t \in Tag, TimerMark(t) PROVE TypeOK'
  <2>1. timer' \in TimerState
    BY <1>10 DEF TimerMark, TimerState
  <2>2. track' \in [Tag -> [active : BOOLEAN, here : BOOLEAN, last : Time, pending : BOOLEAN]]
    BY <1>10 DEF TimerMark
  <2>3. QED
    BY <1>10, <2>1, <2>2 DEF TimerMark
<1>11. CASE TimerPublish
  <2>1. timer' \in TimerState /\ timer.tag \in Tag
    BY <1>11 DEF TimerPublish, TimerState
  <2>2. faults' \in 0 .. MaxFault
    BY <1>11, TagTrackingAssumption DEF TimerPublish, TagTrackingAssumption
  <2>3. track' \in [Tag -> [active : BOOLEAN, here : BOOLEAN, last : Time, pending : BOOLEAN]]
    <3>1. PICK p \in Tag : p = timer.tag
      BY <2>1
    <3>2. track' = [track EXCEPT ![p].pending = FALSE] \/ track' = track
      BY <1>11, <3>1 DEF TimerPublish
    <3>3. [track[p] EXCEPT !.pending = FALSE]
            \in [active : BOOLEAN, here : BOOLEAN, last : Time, pending : BOOLEAN]
      OBVIOUS
    <3>4. QED
      BY <3>2, <3>3
  <2>4. QED
    BY <1>11, <2>1, <2>2, <2>3 DEF TimerPublish
<1>12. CASE TimerDone
  <2>1. timer' \in TimerState
    BY <1>12 DEF TimerDone, TimerState
  <2>2. QED
    BY <1>12, <2>1 DEF TimerDone
<1>13. CASE ClientConnects
  BY <1>13 DEF ClientConnects
<1>14. CASE OnConnected
  BY <1>14 DEF OnConnected
<1>15. CASE Reannounce
  <2>1. PICK refused \in SUBSET {t \in Active : track[t].pending} :
          /\ refused # {} => faults < MaxFault
          /\ faults' = IF refused = {} THEN faults ELSE faults + 1
          /\ track' = [t \in Tag |-> IF t \in Active \ refused
                                     THEN [track[t] EXCEPT !.pending = FALSE] ELSE track[t]]
          /\ tb' = [t \in Tag |-> IF t \in Active \ refused /\ track[t].pending
                                  THEN "out" ELSE tb[t]]
    BY <1>15 DEF Reannounce
  <2>2. faults' \in 0 .. MaxFault
    BY <2>1, TagTrackingAssumption DEF TagTrackingAssumption
  <2>3. track' \in [Tag -> [active : BOOLEAN, here : BOOLEAN, last : Time, pending : BOOLEAN]]
    <3>1. ASSUME NEW t \in Tag
          PROVE  [track[t] EXCEPT !.pending = FALSE]
                   \in [active : BOOLEAN, here : BOOLEAN, last : Time, pending : BOOLEAN]
      OBVIOUS
    <3>2. QED
      BY <2>1, <3>1
  <2>4. announced' \in SUBSET Tag
    BY <1>15 DEF Reannounce, Active
  <2>5. QED
    BY <1>15, <2>1, <2>2, <2>3, <2>4 DEF Reannounce
<1>16. CASE Disconnected
  <2>1. drops' \in 0 .. MaxDrop
    BY <1>16, TagTrackingAssumption DEF Disconnected, TagTrackingAssumption
  <2>2. QED
    BY <1>16, <2>1 DEF Disconnected
<1>17. CASE ResetAll
  <2>1. restarts' \in 0 .. MaxRestart /\ 0 \in Time
    BY <1>17, TagTrackingAssumption DEF ResetAll, TagTrackingAssumption, Time
  <2>2. track' \in [Tag -> [active : BOOLEAN, here : BOOLEAN, last : Time, pending : BOOLEAN]]
    BY <1>17, <2>1 DEF ResetAll, Blank
  <2>3. QED
    BY <1>17, <2>1, <2>2 DEF ResetAll
<1>18. CASE Restart
  <2>1. 0 \in Time
    BY TagTrackingAssumption DEF TagTrackingAssumption, Time
  <2>2. track' \in [Tag -> [active : BOOLEAN, here : BOOLEAN, last : Time, pending : BOOLEAN]]
    BY <1>18, <2>1 DEF Restart, Blank
  <2>3. worker' \in WorkerState /\ timer' \in TimerState
    BY <1>18, <2>1 DEF Restart, WorkerState, TimerState
  <2>4. queue' \in Seq(Tag) /\ Len(queue') =< QueueSize
    BY <1>18, TagTrackingAssumption DEF Restart, TagTrackingAssumption
  <2>5. QED
    BY <1>18, <2>1, <2>2, <2>3, <2>4 DEF Restart, Free
<1>19. CASE UNCHANGED vars
  BY <1>19 DEF vars
<1>20. QED
  BY <1>1, <1>2, <1>3, <1>4, <1>5, <1>6, <1>7, <1>8, <1>9, <1>10, <1>11, <1>12, <1>13, <1>14,
     <1>15, <1>16, <1>17, <1>18, <1>19 DEF Next

\* Type correctness of the tag pipeline (bmt_mqtt.c, bmt_zone.c, bmt_thingsboard.c), for any
\* number of tags and any queue length.
THEOREM TypeCorrect == Spec => []TypeOK
<1>1. Init => TypeOK
  BY TypeInit
<1>2. TypeOK /\ [Next]_vars => TypeOK'
  BY TypeStep
<1>3. QED
  BY <1>1, <1>2, PTL DEF Spec
-----------------------------------------------------------------------------
(* What the actions do to the table, field by field. *)

\* bmt_tb_pub_tag_report: the tag of the report is tracked, in range and owes nothing.
LEMMA UpdateTrack ==
  ASSUME TypeOK, WorkerUpdate
  PROVE  /\ worker.tag \in Tag
         /\ \/ track' = track /\ worker' = [pc |-> "idle"]
            \/ /\ track'[worker.tag].active /\ track'[worker.tag].here
               /\ track'[worker.tag].last = now
               /\ ~track'[worker.tag].pending
               /\ \A t \in Tag \ {worker.tag} : track'[t] = track[t]
               /\ worker'.pc = "check" /\ worker'.tag = worker.tag
               /\ worker'.new = (worker.tag \notin Active)
<1>1. PICK w \in Tag : w = worker.tag
  BY DEF TypeOK, WorkerUpdate, WorkerState
<1>2. \/ track' = track /\ worker' = [pc |-> "idle"]
      \/ /\ track' = [track EXCEPT ![w] = Heard]
         /\ worker' = [pc |-> "check", tag |-> w, new |-> w \notin Active]
  BY <1>1 DEF WorkerUpdate
<1>3. Heard.active /\ Heard.here /\ Heard.last = now /\ ~Heard.pending
  BY DEF Heard
<1>4. QED
  BY <1>1, <1>2, <1>3 DEF TypeOK

\* zone_timeout_task: the tag goes out of range and owes a message.
LEMMA MarkTrack ==
  ASSUME TypeOK, NEW p \in Tag, TimerMark(p)
  PROVE  /\ track[p].active /\ track'[p].active /\ ~track'[p].here /\ track'[p].pending
         /\ \A t \in Tag \ {p} : track'[t] = track[t]
         /\ connected => timer'.pc = "publish" /\ timer'.tag = p
         /\ ~connected => timer' = timer
<1>1. track' = [track EXCEPT ![p] = [track[p] EXCEPT !.here = FALSE, !.pending = TRUE]]
  BY DEF TimerMark
<1>2. [track[p] EXCEPT !.here = FALSE, !.pending = TRUE].active = track[p].active
      /\ [track[p] EXCEPT !.here = FALSE, !.pending = TRUE].here = FALSE
      /\ [track[p] EXCEPT !.here = FALSE, !.pending = TRUE].pending = TRUE
  BY DEF TypeOK
<1>3. track[p].active
  BY DEF TimerMark, Expired, Active
<1>4. track'[p] = [track[p] EXCEPT !.here = FALSE, !.pending = TRUE]
      /\ \A t \in Tag \ {p} : track'[t] = track[t]
  BY <1>1 DEF TypeOK
<1>5. (connected => timer'.pc = "publish" /\ timer'.tag = p) /\ (~connected => timer' = timer)
  BY DEF TimerMark
<1>6. QED
  BY <1>2, <1>3, <1>4, <1>5

\* Only `pending' changes, and only from true to false.
Settles == \A t \in Tag : /\ track'[t].active = track[t].active /\ track'[t].here = track[t].here
                          /\ track'[t].last = track[t].last
                          /\ track'[t].pending => track[t].pending

\* zone_timeout_task: a message that is sent is no longer owed.
LEMMA PublishTrack ==
  ASSUME TypeOK, TimerPublish
  PROVE  /\ timer.tag \in Tag /\ Settles
         /\ faults' = 0 => faults = 0 /\ ~track'[timer.tag].pending
         /\ \A t \in Tag : tb[t] # "out" /\ tb'[t] = "out" => t = timer.tag
<1>1. PICK p \in Tag : p = timer.tag
  BY DEF TypeOK, TimerPublish, TimerState
<1>2. \/ track' = [track EXCEPT ![p] = [track[p] EXCEPT !.pending = FALSE]] /\ faults' = faults
         /\ tb' = [tb EXCEPT ![p] = "out"]
      \/ track' = track /\ faults' = faults + 1 /\ tb' = tb
  BY <1>1 DEF TimerPublish
<1>3. [track[p] EXCEPT !.pending = FALSE].active = track[p].active
      /\ [track[p] EXCEPT !.pending = FALSE].here = track[p].here
      /\ [track[p] EXCEPT !.pending = FALSE].last = track[p].last
      /\ [track[p] EXCEPT !.pending = FALSE].pending = FALSE
  BY DEF TypeOK
<1>4. faults \in Nat
  BY TagTrackingAssumption DEF TypeOK, TagTrackingAssumption
<1>5. CASE track' = [track EXCEPT ![p] = [track[p] EXCEPT !.pending = FALSE]] /\ faults' = faults
           /\ tb' = [tb EXCEPT ![p] = "out"]
  <2>1. track'[p] = [track[p] EXCEPT !.pending = FALSE]
        /\ \A t \in Tag \ {p} : track'[t] = track[t] /\ tb'[t] = tb[t]
    BY <1>5 DEF TypeOK
  <2>2. QED
    BY <1>1, <1>3, <1>5, <2>1 DEF Settles
<1>6. CASE track' = track /\ faults' = faults + 1 /\ tb' = tb
  BY <1>1, <1>4, <1>6 DEF Settles
<1>7. QED
  BY <1>2, <1>5, <1>6

\* bmt_tb_reconnect_all_devices: every tracked tag is announced, and what is owed is sent.
LEMMA ReannounceTrack ==
  ASSUME TypeOK, Reannounce
  PROVE  /\ Settles
         /\ faults' = 0 => \A t \in Active : ~track'[t].pending
         /\ \A t \in Tag : tb[t] # "out" /\ tb'[t] = "out" => track[t].pending
<1>1. PICK refused \in SUBSET {t \in Active : track[t].pending} :
        /\ faults' = IF refused = {} THEN faults ELSE faults + 1
        /\ track' = [t \in Tag |-> IF t \in Active \ refused
                                   THEN [track[t] EXCEPT !.pending = FALSE] ELSE track[t]]
        /\ tb' = [t \in Tag |-> IF t \in Active \ refused /\ track[t].pending
                                THEN "out" ELSE tb[t]]
  BY DEF Reannounce
<1>2. faults \in Nat
  BY TagTrackingAssumption DEF TypeOK, TagTrackingAssumption
<1>3. ASSUME NEW t \in Tag
      PROVE  /\ [track[t] EXCEPT !.pending = FALSE].active = track[t].active
             /\ [track[t] EXCEPT !.pending = FALSE].here = track[t].here
             /\ [track[t] EXCEPT !.pending = FALSE].last = track[t].last
             /\ [track[t] EXCEPT !.pending = FALSE].pending = FALSE
  BY DEF TypeOK
<1>4. ASSUME NEW t \in Tag
      PROVE  track'[t] = IF t \in Active \ refused
                         THEN [track[t] EXCEPT !.pending = FALSE] ELSE track[t]
  BY <1>1
<1>5. Settles
  BY <1>3, <1>4 DEF Settles
<1>6. faults' = 0 => refused = {}
  BY <1>1, <1>2
<1>7. faults' = 0 => \A t \in Active : ~track'[t].pending
  BY <1>3, <1>4, <1>6 DEF Active
<1>8. \A t \in Tag : tb[t] # "out" /\ tb'[t] = "out" => track[t].pending
  BY <1>1
<1>9. QED
  BY <1>5, <1>7, <1>8

\* bmt_zone_reset_all and the restart: nothing is tracked.
LEMMA ResetTrack ==
  ASSUME ResetAll \/ Restart
  PROVE  \A t \in Tag : ~track'[t].active /\ ~track'[t].here /\ ~track'[t].pending
<1>1. track' = [t \in Tag |-> Blank]
  BY DEF ResetAll, Restart
<1>2. ~Blank.active /\ ~Blank.here /\ ~Blank.pending
  BY DEF Blank
<1>3. QED
  BY <1>1, <1>2

-----------------------------------------------------------------------------
(* The mutexes, what is owed, and who has been announced. *)

\* The two mutexes stay with their holders; s_connected follows the client.
LEMMA HoldersStep == TypeOK /\ Holders /\ [Next]_vars => Holders'
<1> SUFFICES ASSUME TypeOK /\ Holders, [Next]_vars PROVE Holders'
  OBVIOUS
<1> USE DEF Holders, books, mqtt, budget, Free
<1>1. CASE Tick
  BY <1>1 DEF Tick
<1>2. ASSUME NEW t \in Tag, Enqueue(t) PROVE Holders'
  BY <1>2 DEF Enqueue
<1>3. CASE WorkerTake
  BY <1>3 DEF WorkerTake
<1>4. CASE WorkerUpdate
  BY <1>4, UpdateTrack DEF WorkerUpdate, TypeOK, Active
<1>5. CASE WorkerCheck
  BY <1>5 DEF WorkerCheck
<1>6. CASE WorkerAnnounce
  BY <1>6 DEF WorkerAnnounce
<1>7. CASE WorkerPublish
  BY <1>7 DEF WorkerPublish
<1>8. CASE TimerWake
  BY <1>8 DEF TimerWake
<1>9. CASE TimerLock
  BY <1>9 DEF TimerLock
<1>10. ASSUME NEW t \in Tag, TimerMark(t) PROVE Holders'
  BY <1>10, MarkTrack DEF TimerMark, TypeOK, Active
<1>11. CASE TimerPublish
  BY <1>11, PublishTrack DEF TimerPublish, Settles, TypeOK, Active
<1>12. CASE TimerDone
  BY <1>12 DEF TimerDone
<1>13. CASE ClientConnects
  BY <1>13 DEF ClientConnects
<1>14. CASE OnConnected
  BY <1>14 DEF OnConnected
<1>15. CASE Reannounce
  BY <1>15, ReannounceTrack DEF Reannounce, Settles, TypeOK, Active
<1>16. CASE Disconnected
  BY <1>16 DEF Disconnected
<1>17. CASE ResetAll
  BY <1>17, ResetTrack DEF ResetAll, TypeOK, Active
<1>18. CASE Restart
  BY <1>18, ResetTrack DEF Restart, TypeOK, Active
<1>19. CASE UNCHANGED vars
  BY <1>19 DEF vars
<1>20. QED
  BY <1>1, <1>2, <1>3, <1>4, <1>5, <1>6, <1>7, <1>8, <1>9, <1>10, <1>11, <1>12, <1>13,
     <1>14, <1>15, <1>16, <1>17, <1>18, <1>19 DEF Next

\* The zone mutex keeps a tag out of range while its message is under way.
LEMMA OwedStep == TypeOK /\ Holders /\ OwedIsOut /\ [Next]_vars => OwedIsOut'
<1> SUFFICES ASSUME TypeOK /\ Holders /\ OwedIsOut, [Next]_vars PROVE OwedIsOut'
  OBVIOUS
<1> USE DEF OwedIsOut, books, mqtt, budget
<1>1. CASE Tick
  BY <1>1 DEF Tick
<1>2. ASSUME NEW t \in Tag, Enqueue(t) PROVE OwedIsOut'
  BY <1>2 DEF Enqueue
<1>3. CASE WorkerTake
  BY <1>3 DEF WorkerTake
<1>4. CASE WorkerUpdate
  <2>1. timer' = timer /\ timer.pc # "publish"
    BY <1>4 DEF WorkerUpdate, Holders
  <2>2. \A t \in Tag : track'[t].pending => track'[t].active /\ ~track'[t].here
    BY <1>4, UpdateTrack
  <2>3. QED
    BY <2>1, <2>2
<1>5. CASE WorkerCheck
  BY <1>5 DEF WorkerCheck
<1>6. CASE WorkerAnnounce
  BY <1>6 DEF WorkerAnnounce
<1>7. CASE WorkerPublish
  BY <1>7 DEF WorkerPublish
<1>8. CASE TimerWake
  BY <1>8 DEF TimerWake
<1>9. CASE TimerLock
  BY <1>9 DEF TimerLock
<1>10. ASSUME NEW t \in Tag, TimerMark(t) PROVE OwedIsOut'
  BY <1>10, MarkTrack DEF TimerMark, TypeOK, Active
<1>11. CASE TimerPublish
  BY <1>11, PublishTrack DEF TimerPublish, Settles, TypeOK, Active
<1>12. CASE TimerDone
  BY <1>12 DEF TimerDone
<1>13. CASE ClientConnects
  BY <1>13 DEF ClientConnects
<1>14. CASE OnConnected
  BY <1>14 DEF OnConnected
<1>15. CASE Reannounce
  <2>1. timer' = timer /\ timer.pc # "publish"
    BY <1>15 DEF Reannounce, Holders
  <2>2. \A t \in Tag : track'[t].pending => track'[t].active /\ ~track'[t].here
    BY <1>15, ReannounceTrack DEF Settles
  <2>3. QED
    BY <2>1, <2>2
<1>16. CASE Disconnected
  BY <1>16 DEF Disconnected
<1>17. CASE ResetAll
  <2>1. timer' = timer /\ (timer.pc = "publish" => timer.tag \in Tag)
    BY <1>17 DEF ResetAll, TypeOK, TimerState
  <2>2. QED
    BY <1>17, <2>1, ResetTrack
<1>18. CASE Restart
  BY <1>18, ResetTrack DEF Restart, TypeOK, Active
<1>19. CASE UNCHANGED vars
  BY <1>19 DEF vars
<1>20. QED
  BY <1>1, <1>2, <1>3, <1>4, <1>5, <1>6, <1>7, <1>8, <1>9, <1>10, <1>11, <1>12, <1>13,
     <1>14, <1>15, <1>16, <1>17, <1>18, <1>19 DEF Next

\* A tag is tracked while the worker deals with it (it is not removed but by a reset).
LEMMA KnowsStep == TypeOK /\ WorkerKnows /\ [Next]_vars => WorkerKnows'
<1> SUFFICES ASSUME TypeOK /\ WorkerKnows, [Next]_vars PROVE WorkerKnows'
  OBVIOUS
<1> USE DEF WorkerKnows, books, mqtt, budget
<1>1. CASE Tick
  BY <1>1 DEF Tick
<1>2. ASSUME NEW t \in Tag, Enqueue(t) PROVE WorkerKnows'
  BY <1>2 DEF Enqueue
<1>3. CASE WorkerTake
  BY <1>3 DEF WorkerTake
<1>4. CASE WorkerUpdate
  BY <1>4, UpdateTrack DEF WorkerUpdate, TypeOK, Active
<1>5. CASE WorkerCheck
  BY <1>5 DEF WorkerCheck
<1>6. CASE WorkerAnnounce
  BY <1>6 DEF WorkerAnnounce
<1>7. CASE WorkerPublish
  BY <1>7 DEF WorkerPublish
<1>8. CASE TimerWake
  BY <1>8 DEF TimerWake
<1>9. CASE TimerLock
  BY <1>9 DEF TimerLock
<1>10. ASSUME NEW t \in Tag, TimerMark(t) PROVE WorkerKnows'
  <2>1. UNCHANGED <<worker, resetting>> /\ (worker.pc # "idle" => worker.tag \in Tag)
    BY <1>10 DEF TimerMark, TypeOK, WorkerState
  <2>2. QED
    BY <1>10, <2>1, MarkTrack
<1>11. CASE TimerPublish
  <2>1. UNCHANGED <<worker, resetting>> /\ (worker.pc # "idle" => worker.tag \in Tag)
    BY <1>11 DEF TimerPublish, TypeOK, WorkerState
  <2>2. QED
    BY <1>11, <2>1, PublishTrack DEF Settles
<1>12. CASE TimerDone
  BY <1>12 DEF TimerDone
<1>13. CASE ClientConnects
  BY <1>13 DEF ClientConnects
<1>14. CASE OnConnected
  BY <1>14 DEF OnConnected
<1>15. CASE Reannounce
  <2>1. UNCHANGED <<worker, resetting>> /\ (worker.pc # "idle" => worker.tag \in Tag)
    BY <1>15 DEF Reannounce, TypeOK, WorkerState
  <2>2. QED
    BY <1>15, <2>1, ReannounceTrack DEF Settles
<1>16. CASE Disconnected
  BY <1>16 DEF Disconnected
<1>17. CASE ResetAll
  BY <1>17, ResetTrack DEF ResetAll, TypeOK, Active
<1>18. CASE Restart
  BY <1>18, ResetTrack DEF Restart, TypeOK, Active
<1>19. CASE UNCHANGED vars
  BY <1>19 DEF vars
<1>20. QED
  BY <1>1, <1>2, <1>3, <1>4, <1>5, <1>6, <1>7, <1>8, <1>9, <1>10, <1>11, <1>12, <1>13,
     <1>14, <1>15, <1>16, <1>17, <1>18, <1>19 DEF Next

\* A tag that is new is announced by the worker, one that is known by the reconnect handler.
LEMMA TrackedStep == TypeOK /\ Holders /\ TrackedIsAnnounced /\ [Next]_vars => TrackedIsAnnounced'
<1> SUFFICES ASSUME TypeOK /\ Holders /\ TrackedIsAnnounced, [Next]_vars PROVE TrackedIsAnnounced'
  OBVIOUS
<1> USE DEF TrackedIsAnnounced, books, mqtt, budget
<1>1. CASE Tick
  BY <1>1 DEF Tick
<1>2. ASSUME NEW t \in Tag, Enqueue(t) PROVE TrackedIsAnnounced'
  BY <1>2 DEF Enqueue
<1>3. CASE WorkerTake
  BY <1>3 DEF WorkerTake
<1>4. CASE WorkerUpdate
  BY <1>4, UpdateTrack DEF WorkerUpdate, TypeOK, Active
<1>5. CASE WorkerCheck
  BY <1>5 DEF WorkerCheck
<1>6. CASE WorkerAnnounce
  BY <1>6 DEF WorkerAnnounce
<1>7. CASE WorkerPublish
  BY <1>7 DEF WorkerPublish
<1>8. CASE TimerWake
  BY <1>8 DEF TimerWake
<1>9. CASE TimerLock
  BY <1>9 DEF TimerLock
<1>10. ASSUME NEW t \in Tag, TimerMark(t) PROVE TrackedIsAnnounced'
  BY <1>10, MarkTrack DEF TimerMark, TypeOK, Active
<1>11. CASE TimerPublish
  BY <1>11, PublishTrack DEF TimerPublish, Settles, TypeOK, Active
<1>12. CASE TimerDone
  BY <1>12 DEF TimerDone
<1>13. CASE ClientConnects
  BY <1>13 DEF ClientConnects
<1>14. CASE OnConnected
  BY <1>14 DEF OnConnected
<1>15. CASE Reannounce
  BY <1>15, ReannounceTrack DEF Reannounce, Settles, TypeOK, Active
<1>16. CASE Disconnected
  BY <1>16 DEF Disconnected
<1>17. CASE ResetAll
  BY <1>17, ResetTrack DEF ResetAll, TypeOK, Active
<1>18. CASE Restart
  BY <1>18, ResetTrack DEF Restart, TypeOK, Active
<1>19. CASE UNCHANGED vars
  BY <1>19 DEF vars
<1>20. QED
  BY <1>1, <1>2, <1>3, <1>4, <1>5, <1>6, <1>7, <1>8, <1>9, <1>10, <1>11, <1>12, <1>13,
     <1>14, <1>15, <1>16, <1>17, <1>18, <1>19 DEF Next

\* Telemetry follows the announcement, in both orders of the worker and the handler.
LEMMA AnnouncedStep ==
  TypeOK /\ Holders /\ WorkerKnows /\ TrackedIsAnnounced /\ AnnouncedFirst
    /\ [Next]_vars => AnnouncedFirst'
<1> SUFFICES ASSUME TypeOK /\ Holders /\ WorkerKnows /\ TrackedIsAnnounced /\ AnnouncedFirst,
                    [Next]_vars
             PROVE  AnnouncedFirst'
  OBVIOUS
<1> USE DEF AnnouncedFirst, books, mqtt, budget
<1>1. CASE Tick
  BY <1>1 DEF Tick
<1>2. ASSUME NEW t \in Tag, Enqueue(t) PROVE AnnouncedFirst'
  BY <1>2 DEF Enqueue
<1>3. CASE WorkerTake
  BY <1>3 DEF WorkerTake
<1>4. CASE WorkerUpdate
  BY <1>4, UpdateTrack DEF WorkerUpdate, TypeOK, Active
<1>5. CASE WorkerCheck
  BY <1>5 DEF WorkerCheck
<1>6. CASE WorkerAnnounce
  BY <1>6 DEF WorkerAnnounce
<1>7. CASE WorkerPublish
  <2>1. UNCHANGED <<resetting, announced>> /\ client = "idle" /\ worker.pc = "publish"
    BY <1>7 DEF WorkerPublish, Holders
  <2>2. worker.tag \in Tag
    BY <2>1 DEF TypeOK, WorkerState
  <2>3. told' = told \/ (connected /\ told' = told \cup {worker.tag})
    BY <1>7 DEF WorkerPublish
  <2>4. ~resetting /\ connected => worker.tag \in announced
    BY <2>1, <2>2 DEF WorkerKnows, TrackedIsAnnounced
  <2>5. QED
    BY <2>1, <2>3, <2>4
<1>8. CASE TimerWake
  BY <1>8 DEF TimerWake
<1>9. CASE TimerLock
  BY <1>9 DEF TimerLock
<1>10. ASSUME NEW t \in Tag, TimerMark(t) PROVE AnnouncedFirst'
  BY <1>10, MarkTrack DEF TimerMark, TypeOK, Active
<1>11. CASE TimerPublish
  BY <1>11, PublishTrack DEF TimerPublish, Settles, TypeOK, Active
<1>12. CASE TimerDone
  BY <1>12 DEF TimerDone
<1>13. CASE ClientConnects
  BY <1>13 DEF ClientConnects
<1>14. CASE OnConnected
  BY <1>14 DEF OnConnected
<1>15. CASE Reannounce
  BY <1>15, ReannounceTrack DEF Reannounce, Settles, TypeOK, Active
<1>16. CASE Disconnected
  BY <1>16 DEF Disconnected
<1>17. CASE ResetAll
  BY <1>17, ResetTrack DEF ResetAll, TypeOK, Active
<1>18. CASE Restart
  BY <1>18, ResetTrack DEF Restart, TypeOK, Active
<1>19. CASE UNCHANGED vars
  BY <1>19 DEF vars
<1>20. QED
  BY <1>1, <1>2, <1>3, <1>4, <1>5, <1>6, <1>7, <1>8, <1>9, <1>10, <1>11, <1>12, <1>13,
     <1>14, <1>15, <1>16, <1>17, <1>18, <1>19 DEF Next

\* Whoever takes a tag out of range sends the message, or the handler will.
LEMMA ReplayStep ==
  TypeOK /\ Holders /\ OwedIsOut /\ ReplayNotMissed
    /\ [Next]_vars => ReplayNotMissed'
<1> SUFFICES ASSUME TypeOK /\ Holders /\ OwedIsOut /\ ReplayNotMissed, [Next]_vars
             PROVE  ReplayNotMissed'
  OBVIOUS
<1> USE DEF ReplayNotMissed, books, mqtt, budget
<1>1. CASE Tick
  BY <1>1 DEF Tick
<1>2. ASSUME NEW t \in Tag, Enqueue(t) PROVE ReplayNotMissed'
  BY <1>2 DEF Enqueue
<1>3. CASE WorkerTake
  BY <1>3 DEF WorkerTake
<1>4. CASE WorkerUpdate
  BY <1>4, UpdateTrack DEF WorkerUpdate, TypeOK, Active
<1>5. CASE WorkerCheck
  BY <1>5 DEF WorkerCheck
<1>6. CASE WorkerAnnounce
  BY <1>6 DEF WorkerAnnounce
<1>7. CASE WorkerPublish
  <2>1. UNCHANGED <<track, timer, connected, client>> /\ (faults' = faults \/ faults' = faults + 1)
    BY <1>7 DEF WorkerPublish
  <2>2. faults' = 0 => faults = 0
    BY <2>1, TagTrackingAssumption DEF TypeOK, TagTrackingAssumption
  <2>3. QED
    BY <2>1, <2>2
<1>8. CASE TimerWake
  BY <1>8 DEF TimerWake
<1>9. CASE TimerLock
  BY <1>9 DEF TimerLock
<1>10. ASSUME NEW t \in Tag, TimerMark(t) PROVE ReplayNotMissed'
  BY <1>10, MarkTrack DEF TimerMark, TypeOK, Active
<1>11. CASE TimerPublish
  BY <1>11, PublishTrack DEF TimerPublish, Settles, TypeOK, Active
<1>12. CASE TimerDone
  BY <1>12 DEF TimerDone
<1>13. CASE ClientConnects
  BY <1>13 DEF ClientConnects
<1>14. CASE OnConnected
  BY <1>14 DEF OnConnected
<1>15. CASE Reannounce
  <2>1. \A t \in Tag : track'[t].pending => t \in Active
    BY <1>15, ReannounceTrack DEF Settles, OwedIsOut, Active
  <2>2. faults' = 0 => \A t \in Tag : ~track'[t].pending
    BY <1>15, <2>1, ReannounceTrack
  <2>3. QED
    BY <2>2
<1>16. CASE Disconnected
  BY <1>16 DEF Disconnected
<1>17. CASE ResetAll
  BY <1>17, ResetTrack DEF ResetAll, TypeOK, Active
<1>18. CASE Restart
  BY <1>18, ResetTrack DEF Restart, TypeOK, Active
<1>19. CASE UNCHANGED vars
  BY <1>19 DEF vars
<1>20. QED
  BY <1>1, <1>2, <1>3, <1>4, <1>5, <1>6, <1>7, <1>8, <1>9, <1>10, <1>11, <1>12, <1>13,
     <1>14, <1>15, <1>16, <1>17, <1>18, <1>19 DEF Next

-----------------------------------------------------------------------------
(* The theorems. *)

\* Everything holds when the gateway starts: nothing is tracked, nobody holds a mutex.
LEMMA InvInit == Init => IInv
<1> SUFFICES ASSUME Init PROVE IInv
  OBVIOUS
<1>1. TypeOK
  BY TypeInit
<1>2. \A t \in Tag : ~track[t].active /\ ~track[t].pending
  BY DEF Init, Blank
<1>3. Holders /\ WorkerKnows /\ AnnouncedFirst
  BY DEF Init, Holders, WorkerKnows, AnnouncedFirst, Free
<1>4. OwedIsOut /\ TrackedIsAnnounced /\ ReplayNotMissed
  BY <1>2 DEF Init, OwedIsOut, TrackedIsAnnounced, ReplayNotMissed
<1>5. QED
  BY <1>1, <1>3, <1>4 DEF IInv

\* Every step of the queue, the worker, the timer and the client preserves the invariant.
THEOREM Invariance == Spec => []IInv
<1>1. Init => IInv
  BY InvInit
<1>2. IInv /\ [Next]_vars => IInv'
  BY TypeStep, HoldersStep, OwedStep, KnowsStep, TrackedStep, AnnouncedStep, ReplayStep DEF IInv
<1>3. QED
  BY <1>1, <1>2, PTL DEF Spec

\* ThingsBoard gets a tag's device (tb_connect_device) before its telemetry, in every session.
THEOREM DeviceBeforeTelemetry == Spec => []AnnouncedFirst
<1>1. IInv => AnnouncedFirst
  BY DEF IInv
<1>2. QED
  BY <1>1, Invariance, PTL

\* bmt_tb_reconnect_all_devices and the timer leave no out-of-range message behind.
THEOREM NothingLeftBehind == Spec => []ReplayNotMissed
<1>1. IInv => ReplayNotMissed
  BY DEF IInv
<1>2. QED
  BY <1>1, Invariance, PTL

\* No out-of-range message is sent for a tag that is in range again: the zone mutex covers the
\* timer's publish and the replay, and a report clears what is owed (bmt_tb_pub_tag_report).
THEOREM OutIsNeverStale == Spec => NoStaleOut
<1> DEFINE Fresh == \A t \in Tag : tb[t] # "out" /\ tb'[t] = "out" => ~track[t].here
<1>1. ASSUME IInv, Next PROVE Fresh
  <2>1. CASE TimerPublish
    BY <1>1, <2>1, PublishTrack DEF IInv, OwedIsOut, TimerPublish
  <2>2. CASE Reannounce
    BY <1>1, <2>2, ReannounceTrack DEF IInv, OwedIsOut
  <2>3. CASE WorkerPublish
    <3>1. tb' = tb \/ tb' = [tb EXCEPT ![worker.tag] = "seen"]
      BY <2>3 DEF WorkerPublish
    <3>2. QED
      BY <1>1, <3>1 DEF IInv, TypeOK
  <2>4. ASSUME ~TimerPublish, ~Reannounce, ~WorkerPublish PROVE tb' = tb
    BY <1>1, <2>4 DEF Next, Tick, Enqueue, WorkerTake, WorkerUpdate, WorkerCheck, WorkerAnnounce,
       TimerWake, TimerLock, TimerMark, TimerDone, ClientConnects, OnConnected, Disconnected,
       ResetAll, Restart, books
  <2>5. QED
    BY <2>1, <2>2, <2>3, <2>4
<1>2. IInv /\ [Next]_vars => [Fresh]_vars
  BY <1>1
<1>3. QED
  BY <1>2, Invariance, PTL DEF Spec, NoStaleOut

-----------------------------------------------------------------------------
(* What ThingsBoard shows. *)

\* What the timer is about to send is owed: it holds the zone mutex from marking the tag to the
\* end of the publish, and short of a reset only the holder or the reconnect handler, which waits
\* for that mutex, clears the mark.
SendsOwed == ~resetting /\ timer.pc = "publish" => track[timer.tag].pending

\* Every step keeps SendsOwed.
LEMMA SendsOwedStep == TypeOK /\ Holders /\ SendsOwed /\ [Next]_vars => SendsOwed'
<1> SUFFICES ASSUME TypeOK, Holders, SendsOwed, [Next]_vars  PROVE SendsOwed'
  OBVIOUS
<1>1. CASE UNCHANGED <<track, timer, resetting>>
  BY <1>1 DEF SendsOwed
<1>2. ASSUME NEW p \in Tag, TimerMark(p)  PROVE SendsOwed'
  <2>1. \/ timer' = timer /\ timer.pc = "scan"
        \/ timer'.pc = "publish" /\ timer'.tag = p
    BY <1>2 DEF TimerMark
  <2>2. QED
    BY <1>2, <2>1, MarkTrack DEF SendsOwed
<1>3. CASE WorkerUpdate \/ Reannounce
  <2>1. timer' = timer /\ timer.pc # "publish"
    BY <1>3 DEF WorkerUpdate, Reannounce, Holders
  <2>2. QED
    BY <2>1 DEF SendsOwed
<1>4. CASE TimerWake \/ TimerLock \/ TimerPublish \/ TimerDone \/ Restart
  <2>1. timer'.pc # "publish"
    BY <1>4 DEF TimerWake, TimerLock, TimerPublish, TimerDone, Restart, TypeOK, TimerState
  <2>2. QED
    BY <2>1 DEF SendsOwed
<1>5. CASE ResetAll
  BY <1>5 DEF ResetAll, SendsOwed
<1>6. QED
  BY <1>1, <1>2, <1>3, <1>4, <1>5 DEF Next, Tick, Enqueue, WorkerTake, WorkerCheck,
     WorkerAnnounce, WorkerPublish, ClientConnects, OnConnected, Disconnected, books, vars

\* The sets the board knows the tags by, in the next state.
LEMMA BoardPrimed ==
  InRange' = {t \in Tag : track'[t].here} /\ Owed' = {t \in Tag : track'[t].pending}
  BY DEF InRange, Owed

\* bmt_tb_pub_tag_report: a report brings its tag back, or finds the table full.
LEMMA UpdateShows ==
  ASSUME TypeOK, WorkerUpdate
  PROVE  Shown!Next \/ UNCHANGED Shown!vars
<1>1. UNCHANGED <<tb, announced, resetting>>
  BY DEF WorkerUpdate
<1>2. CASE track' = track
  BY <1>1, <1>2, BoardPrimed DEF InRange, Owed, Shown!vars
<1>3. CASE track' # track
  <2>1. PICK w \in Tag : /\ track'[w].here /\ ~track'[w].pending
                         /\ \A t \in Tag \ {w} : track'[t] = track[t]
    BY <1>3, UpdateTrack
  <2>2. InRange' = InRange \cup {w} /\ Owed' = Owed \ {w}
    BY <2>1, BoardPrimed DEF InRange, Owed
  <2>3. Shown!Hear(w)
    BY <1>1, <2>2 DEF Shown!Hear
  <2>4. QED
    BY <2>3 DEF Shown!Next
<1>4. QED
  BY <1>2, <1>3

\* zone_timeout_task: a silent tag is marked, and owed.
LEMMA MarkShows ==
  ASSUME TypeOK, NEW p \in Tag, TimerMark(p)
  PROVE  Shown!Next
<1>1. UNCHANGED <<tb, announced, resetting>> /\ p \in InRange
  BY DEF TimerMark, Expired, InRange
<1>2. InRange' = InRange \ {p} /\ Owed' = Owed \cup {p}
  BY MarkTrack, BoardPrimed DEF InRange, Owed
<1>3. QED
  BY <1>1, <1>2 DEF Shown!Miss, Shown!Next

\* Where messages are sent for the tags in ts, and no other is settled or shown.
LEMMA SentShows ==
  ASSUME TypeOK, UNCHANGED resetting, NEW ts \in SUBSET Tag, NEW new \in SUBSET Tag,
         ts \subseteq Owed \/ resetting, \A t \in ts : ~track[t].here,
         announced' = announced \cup new,
         tb' = [t \in Tag |-> IF t \in ts THEN "out" ELSE tb[t]],
         \A t \in Tag : track'[t].here = track[t].here,
         \A t \in Tag : track'[t].pending <=> (track[t].pending /\ t \notin ts)
  PROVE  Shown!Next
<1>1. InRange' = InRange /\ Owed' = Owed \ ts /\ ts \cap InRange = {}
  BY BoardPrimed DEF InRange, Owed
<1>2. Shown!TellOut(ts) /\ Shown!Introduce(new)
  BY <1>1 DEF Shown!TellOut, Shown!Introduce
<1>3. QED
  BY <1>2 DEF Shown!Next

\* zone_timeout_task: what it sends is owed, for a tag that is out of range.
LEMMA PublishShows ==
  ASSUME TypeOK, OwedIsOut, SendsOwed, TimerPublish
  PROVE  Shown!Next \/ UNCHANGED Shown!vars
<1>1. PICK p \in Tag : p = timer.tag
  BY DEF TypeOK, TimerPublish, TimerState
<1>2. UNCHANGED <<announced, resetting>> /\ ~track[p].here /\ (track[p].pending \/ resetting)
  BY <1>1 DEF TimerPublish, OwedIsOut, SendsOwed
<1>3. CASE track' = track /\ tb' = tb
  BY <1>2, <1>3, BoardPrimed DEF InRange, Owed, Shown!vars
<1>4. CASE track' = [track EXCEPT ![p].pending = FALSE] /\ tb' = [tb EXCEPT ![p] = "out"]
  <2>1. track'[p] = [track[p] EXCEPT !.pending = FALSE]
        /\ \A t \in Tag \ {p} : track'[t] = track[t]
    BY <1>4 DEF TypeOK
  <2>2. track'[p].here = track[p].here /\ ~track'[p].pending
    BY <2>1 DEF TypeOK
  <2>3. tb' = [t \in Tag |-> IF t \in {p} THEN "out" ELSE tb[t]]
    BY <1>4 DEF TypeOK
  <2>4. announced' = announced \cup {} /\ ({p} \subseteq Owed \/ resetting)
    BY <1>2 DEF Owed
  <2>5. \A t \in Tag : /\ track'[t].here = track[t].here
                       /\ track'[t].pending <=> (track[t].pending /\ t \notin {p})
    BY <2>1, <2>2
  <2>6. {p} \in SUBSET Tag /\ {} \in SUBSET Tag /\ \A t \in {p} : ~track[t].here
    BY <1>2
  <2>7. QED
    BY <1>2, <2>3, <2>4, <2>5, <2>6, SentShows
<1>5. QED
  BY <1>1, <1>3, <1>4 DEF TimerPublish

\* bmt_tb_reconnect_all_devices: every tracked tag is introduced, and what is owed is sent.
LEMMA ReannounceShows ==
  ASSUME TypeOK, OwedIsOut, Reannounce
  PROVE  Shown!Next
<1>1. PICK refused \in SUBSET {t \in Active : track[t].pending} :
        /\ track' = [t \in Tag |-> IF t \in Active \ refused
                                   THEN [track[t] EXCEPT !.pending = FALSE] ELSE track[t]]
        /\ tb' = [t \in Tag |-> IF t \in Active \ refused /\ track[t].pending
                                THEN "out" ELSE tb[t]]
  BY DEF Reannounce
<1> DEFINE ts == {t \in Active \ refused : track[t].pending}
<1>2. ts \in SUBSET Tag /\ Active \in SUBSET Tag
  BY DEF Active
<1>3. UNCHANGED resetting /\ announced' = announced \cup Active
  BY DEF Reannounce
<1>4. ts \subseteq Owed /\ \A t \in ts : ~track[t].here
  BY DEF Owed, OwedIsOut, Active
<1>5. tb' = [t \in Tag |-> IF t \in ts THEN "out" ELSE tb[t]]
  BY <1>1
<1>6. ASSUME NEW t \in Tag
      PROVE  /\ track'[t].here = track[t].here
             /\ track'[t].pending <=> (track[t].pending /\ t \notin ts)
  <2>1. [track[t] EXCEPT !.pending = FALSE].here = track[t].here
        /\ [track[t] EXCEPT !.pending = FALSE].pending = FALSE
    BY DEF TypeOK
  <2>2. track'[t] = IF t \in Active \ refused
                    THEN [track[t] EXCEPT !.pending = FALSE] ELSE track[t]
    BY <1>1
  <2>3. QED
    BY <2>1, <2>2
<1> HIDE DEF ts
<1>7. QED
  BY <1>2, <1>3, <1>4, <1>5, <1>6, SentShows

\* Messages of the worker: tb_connect_device, and telemetry of a tag that was introduced.
LEMMA WorkerShows ==
  ASSUME TypeOK, AnnouncedFirst', WorkerAnnounce \/ WorkerPublish
  PROVE  Shown!Next \/ UNCHANGED Shown!vars
<1>1. PICK w \in Tag : w = worker.tag
  BY DEF TypeOK, WorkerAnnounce, WorkerPublish, WorkerState
<1>2. UNCHANGED <<track, resetting>> /\ InRange' = InRange /\ Owed' = Owed
  BY BoardPrimed DEF WorkerAnnounce, WorkerPublish, InRange, Owed
<1>3. CASE UNCHANGED <<tb, announced>>
  BY <1>2, <1>3 DEF Shown!vars
<1>4. CASE tb' = tb /\ announced' = announced \cup {w}
  <2>1. tb' = [t \in Tag |-> IF t \in {} THEN "out" ELSE tb[t]]
    BY <1>4 DEF TypeOK
  <2>2. \A t \in Tag : /\ track'[t].here = track[t].here
                       /\ track'[t].pending <=> (track[t].pending /\ t \notin {})
    BY <1>2
  <2>3. {} \in SUBSET Tag /\ {w} \in SUBSET Tag /\ {} \subseteq Owed
        /\ \A t \in {} : ~track[t].here
    BY <1>1
  <2>4. QED
    BY <1>2, <1>4, <2>1, <2>2, <2>3, SentShows
<1>5. CASE tb' = [tb EXCEPT ![w] = "seen"] /\ told' = told \cup {w} /\ announced' = announced
  <2>1. w \in announced \/ resetting
    BY <1>2, <1>5 DEF AnnouncedFirst
  <2>2. Shown!TellSeen(w)
    BY <1>2, <1>5, <2>1 DEF Shown!TellSeen
  <2>3. QED
    BY <2>2 DEF Shown!Next
<1>6. QED
  BY <1>1, <1>3, <1>4, <1>5 DEF WorkerAnnounce, WorkerPublish

\* bmt_zone_reset_all and the restart.
LEMMA ResetShows ==
  ASSUME ResetAll \/ Restart
  PROVE  Shown!Next
<1>1. InRange' = {} /\ Owed' = {}
  BY ResetTrack, BoardPrimed
<1>2. CASE ResetAll
  BY <1>1, <1>2 DEF ResetAll, Shown!Leave, Shown!Next
<1>3. CASE Restart
  BY <1>1, <1>3 DEF Restart, Shown!Restart, Shown!Next
<1>4. QED
  BY <1>2, <1>3

\* A step of the gateway is one of the board, or leaves the board alone.
LEMMA ShownStep ==
  IInv /\ IInv' /\ SendsOwed /\ [Next]_vars => [Shown!Next]_(Shown!vars)
<1> SUFFICES ASSUME IInv, IInv', SendsOwed, [Next]_vars
             PROVE  Shown!Next \/ UNCHANGED Shown!vars
  OBVIOUS
<1>0. TypeOK /\ OwedIsOut /\ AnnouncedFirst'
  BY DEF IInv
<1>1. CASE UNCHANGED <<track, tb, announced, resetting>>
  BY <1>1, BoardPrimed DEF InRange, Owed, Shown!vars
<1>2. CASE WorkerUpdate \/ WorkerAnnounce \/ WorkerPublish
  BY <1>0, <1>2, UpdateShows, WorkerShows
<1>3. ASSUME NEW p \in Tag, TimerMark(p)  PROVE Shown!Next
  BY <1>0, <1>3, MarkShows
<1>4. CASE TimerPublish \/ Reannounce
  BY <1>0, <1>4, PublishShows, ReannounceShows
<1>5. CASE ClientConnects
  <2>1. UNCHANGED <<track, tb, resetting>> /\ announced' = {}
    BY <1>5 DEF ClientConnects
  <2>2. QED
    BY <2>1, BoardPrimed DEF InRange, Owed, Shown!Begin, Shown!Next
<1>6. CASE ResetAll \/ Restart
  BY <1>6, ResetShows
<1>7. QED
  BY <1>1, <1>2, <1>3, <1>4, <1>5, <1>6 DEF Next, Tick, Enqueue, WorkerTake, WorkerCheck,
     TimerWake, TimerLock, TimerDone, OnConnected, Disconnected, books, vars

\* KeepsBoard: queue, worker, timer, client and resets together implement TagBoard.  However they
\* interleave, ThingsBoard is shown a tag as present only after it was introduced in the session,
\* and as out of range only when that is owed for a tag that is out of range.
THEOREM GatewayKeepsBoard == Spec => KeepsBoard
<1>1. Init => Shown!Init
  BY DEF Init, Shown!Init, InRange, Owed, Blank
<1>2. Init => SendsOwed
  BY DEF Init, SendsOwed
<1>3. IInv => TypeOK /\ Holders
  BY DEF IInv
<1>4. Spec => []SendsOwed
  BY <1>2, <1>3, Invariance, SendsOwedStep, PTL DEF Spec
<1>5. QED
  BY <1>1, <1>4, ShownStep, Invariance, PTL DEF Spec, KeepsBoard, Shown!Spec

-----------------------------------------------------------------------------
(* The clock. *)

\* Remainders of what lies within one turn of the clock.
LEMMA WithinTurn ==
  ASSUME NEW i \in Int, -Wrap <= i, i <= Wrap
  PROVE  i % Wrap = IF i < 0 THEN i + Wrap ELSE IF i = Wrap THEN 0 ELSE i
<1> DEFINE q == i \div Wrap
           r == i % Wrap
<1>0. Wrap \in Nat /\ Wrap > 0
  BY TagTrackingAssumption DEF TagTrackingAssumption
<1>1. q \in Int /\ r \in 0 .. Wrap - 1 /\ i = Wrap * q + r
  BY <1>0
<1> HIDE DEF q, r
<1>2. q >= 1 => Wrap * q >= Wrap * 1
  BY <1>0, <1>1
<1>3. q >= 2 => Wrap * q >= Wrap * 2
  BY <1>0, <1>1
<1>4. q <= -1 => Wrap * q <= Wrap * (-1)
  BY <1>0, <1>1
<1>5. q <= -2 => Wrap * q <= Wrap * (-2)
  BY <1>0, <1>1
<1>6. q \in {-1, 0, 1}
  BY <1>0, <1>1, <1>3, <1>5
<1>7. r = IF i < 0 THEN i + Wrap ELSE IF i = Wrap THEN 0 ELSE i
  BY <1>0, <1>1, <1>6
<1>8. QED
  BY <1>7 DEF r

\* The difference of two readings, with one turn of the clock between them at most.
LEMMA ElapsedIs ==
  ASSUME NEW a \in Time, NEW b \in Time
  PROVE  Elapsed(a, b) = (IF a >= b THEN a - b ELSE a - b + Wrap) /\ Elapsed(a, b) \in Time
<1>0. Wrap \in Nat /\ Wrap > 0
  BY TagTrackingAssumption DEF TagTrackingAssumption
<1>1. a - b \in Int /\ -Wrap <= a - b /\ a - b <= Wrap /\ a - b # Wrap
  BY <1>0 DEF Time
<1>2. (a - b) % Wrap = IF a - b < 0 THEN a - b + Wrap ELSE a - b
  BY <1>1, WithinTurn
<1>3. QED
  BY <1>0, <1>1, <1>2 DEF Elapsed, Time

\* The clock ticks: every difference grows by one, or has come round.
LEMMA ElapsedTicks ==
  ASSUME NEW a \in Time, NEW b \in Time
  PROVE  /\ (a + 1) % Wrap \in Time
         /\ \/ Elapsed((a + 1) % Wrap, b) = Elapsed(a, b) + 1
            \/ Elapsed((a + 1) % Wrap, b) = 0 /\ Elapsed(a, b) = Wrap - 1
<1> DEFINE c == (a + 1) % Wrap
<1>0. Wrap \in Nat /\ Wrap > 0
  BY TagTrackingAssumption DEF TagTrackingAssumption
<1>1. c = IF a + 1 = Wrap THEN 0 ELSE a + 1
  BY <1>0, WithinTurn DEF Time
<1>2. c \in Time
  BY <1>0, <1>1 DEF Time
<1> HIDE DEF c
<1>3. /\ Elapsed(a, b) = IF a >= b THEN a - b ELSE a - b + Wrap
      /\ Elapsed(c, b) = IF c >= b THEN c - b ELSE c - b + Wrap
  BY <1>2, ElapsedIs
<1>4. \/ Elapsed(c, b) = Elapsed(a, b) + 1
      \/ Elapsed(c, b) = 0 /\ Elapsed(a, b) = Wrap - 1
  BY <1>0, <1>1, <1>3 DEF Time
<1>5. QED
  BY <1>2, <1>4 DEF c

\* Of two past readings the later one is nearer, and the differences add up.
LEMMA ElapsedAdds ==
  ASSUME NEW a \in Time, NEW s \in Time, NEW b \in Time, Elapsed(a, s) <= Elapsed(a, b)
  PROVE  Elapsed(s, b) = Elapsed(a, b) - Elapsed(a, s)
<1>0. Wrap \in Nat /\ Wrap > 0
  BY TagTrackingAssumption DEF TagTrackingAssumption
<1>1. /\ Elapsed(a, b) = IF a >= b THEN a - b ELSE a - b + Wrap
      /\ Elapsed(a, s) = IF a >= s THEN a - s ELSE a - s + Wrap
      /\ Elapsed(s, b) = IF s >= b THEN s - b ELSE s - b + Wrap
  BY ElapsedIs
<1>2. QED
  BY <1>0, <1>1 DEF Time

-----------------------------------------------------------------------------
(* Tags are marked in time. *)

Lag    == Elapsed(now, timer.stamp)
Age(t) == Elapsed(now, track[t].last)

\* The timer is at most Late behind its last reading of the clock.  A tag that its last complete
\* scan left in range was heard of OutOfRange before that reading, or later; while the next scan
\* is under way that is one more delay ago.
Since   == OutOfRange + Lag + (IF timer.pc = "sleep" THEN 0 ELSE Late)
InTime  ==
  Stuck \/ /\ Lag <= Late
           /\ \A t \in Tag : track[t].here => track[t].active /\ Age(t) <= Since

\* The clock, the timer's reading of it and the time of each report are points of time.
LEMMA Readings ==
  ASSUME TypeOK
  PROVE  /\ now \in Time /\ timer.stamp \in Time /\ \A t \in Tag : track[t].last \in Time
         /\ Lag \in Time /\ \A t \in Tag : Age(t) \in Time
         /\ Wrap \in Nat /\ Wrap > 0 /\ Late \in Nat /\ OutOfRange \in Nat
         /\ OutOfRange + Late < Wrap
<1>1. now \in Time /\ timer.stamp \in Time /\ \A t \in Tag : track[t].last \in Time
  BY DEF TypeOK, TimerState
<1>2. QED
  BY <1>1, ElapsedIs, TagTrackingAssumption DEF Lag, Age, TagTrackingAssumption

\* Once the timer waits for the client that waits for it, only a restart changes that.
LEMMA StuckStays ==
  ASSUME TypeOK, Holders, Stuck, Next
  PROVE  Stuck' \/ Restart
<1>1. zone # Free /\ client # "idle"
  BY DEF Stuck, Holders
<1>2. QED
  BY <1>1 DEF Stuck, Next, Tick, Enqueue, WorkerTake, WorkerUpdate, WorkerCheck, WorkerAnnounce,
     WorkerPublish, TimerWake, TimerLock, TimerMark, TimerPublish, TimerDone, ClientConnects,
     OnConnected, Reannounce, Disconnected, ResetAll, mqtt

\* Where no time passes, the timer reads no clock and no tag is heard of, nothing gets late.
LEMMA NothingAges ==
  ASSUME TypeOK, InTime, ~Stuck, now' = now, timer'.stamp = timer.stamp,
         timer'.pc = "sleep" => timer.pc = "sleep",
         \A t \in Tag : track'[t].here =>
           track[t].here /\ track'[t].last = track[t].last /\ track'[t].active = track[t].active
  PROVE  InTime'
<1>1. Lag' = Lag /\ \A t \in Tag : track'[t].here => Age(t)' = Age(t)
  BY DEF Lag, Age
<1>2. Since <= Since'
  BY <1>1, Readings DEF Since, Time
<1>3. Lag' <= Late
  BY <1>1 DEF InTime
<1>4. Since \in Nat /\ Since' \in Nat
  BY <1>1, Readings DEF Since, Time
<1>5. ASSUME NEW t \in Tag, track'[t].here  PROVE track'[t].active /\ Age(t)' <= Since'
  <2>1. track[t].active /\ Age(t) <= Since /\ Age(t)' = Age(t)
    BY <1>1, <1>5 DEF InTime
  <2>2. Age(t) \in Nat
    BY Readings DEF Time
  <2>3. Age(t)' <= Since'
    BY <1>2, <1>4, <2>1, <2>2
  <2>4. QED
    BY <1>5, <2>1, <2>3
<1>6. QED
  BY <1>3, <1>5 DEF InTime

\* The clock ticks while the timer is not too far behind.
LEMMA TickInTime ==
  ASSUME TypeOK, InTime, ~Stuck, Tick
  PROVE  InTime'
<1>1. /\ Lag < Late /\ Lag <= Late /\ now' = (now + 1) % Wrap /\ timer' = timer /\ track' = track
      /\ \A t \in Tag : track[t].here => track[t].active /\ Age(t) <= Since
  BY DEF Tick, Stuck, InTime, Lag, books
<1>2. Lag' = Lag + 1
  <2>1. Lag' = Lag + 1 \/ Lag = Wrap - 1
    BY <1>1, Readings, ElapsedTicks DEF Lag
  <2>2. Lag # Wrap - 1
    BY <1>1, Readings DEF Time
  <2>3. QED
    BY <2>1, <2>2
<1>3. Since' = Since + 1 /\ Since \in Nat
  BY <1>1, <1>2, Readings DEF Since, Time
<1>4. ASSUME NEW t \in Tag, track[t].here  PROVE Age(t)' <= Since'
  <2>1. Age(t)' = Age(t) + 1 \/ Age(t)' = 0
    BY <1>1, Readings, ElapsedTicks DEF Age
  <2>2. Age(t) <= Since /\ Age(t) \in Nat
    BY <1>1, <1>4, Readings DEF Time
  <2>3. QED
    BY <1>3, <2>1, <2>2
<1>5. Lag' <= Late
  BY <1>1, <1>2, Readings DEF Time
<1>6. QED
  BY <1>1, <1>4, <1>5 DEF InTime

\* The timer reads the clock: it is up to date, and what the scan before left may be a delay old.
LEMMA WakeInTime ==
  ASSUME TypeOK, InTime, ~Stuck, TimerWake
  PROVE  InTime'
<1>1. /\ timer.pc = "sleep" /\ timer'.pc = "lock" /\ timer'.stamp = now /\ now' = now
      /\ track' = track
      /\ Lag <= Late /\ \A t \in Tag : track[t].here => track[t].active /\ Age(t) <= Since
  BY DEF TimerWake, InTime, books
<1>2. Lag' = 0 /\ \A t \in Tag : Age(t)' = Age(t)
  <2>1. Elapsed(now, now) = 0
    BY Readings, ElapsedIs DEF Time
  <2>2. QED
    BY <1>1, <2>1 DEF Lag, Age
<1>3. Since = OutOfRange + Lag /\ Since' = OutOfRange + Late
  BY <1>1, <1>2, Readings DEF Since, Time
<1>4. ASSUME NEW t \in Tag, track[t].here  PROVE Age(t)' <= Since'
  <2>1. Age(t) <= OutOfRange + Lag /\ Age(t) \in Nat /\ Lag \in Nat
    BY <1>1, <1>3, <1>4, Readings DEF Time
  <2>2. QED
    BY <1>1, <1>2, <1>3, <2>1, Readings
<1>5. Lag' <= Late
  BY <1>2, Readings
<1>6. QED
  BY <1>1, <1>4, <1>5 DEF InTime

\* The scan ends when no tag it holds to be in range is older than BMT_TAG_OUT_OF_RANGE_MS.
LEMMA DoneInTime ==
  ASSUME TypeOK, InTime, ~Stuck, TimerDone
  PROVE  InTime'
<1>1. /\ timer'.pc = "sleep" /\ timer'.stamp = timer.stamp /\ now' = now /\ track' = track
      /\ Lag <= Late /\ \A t \in Tag : track[t].here => track[t].active
      /\ Expired = {}
  BY DEF TimerDone, InTime, books, TypeOK, TimerState
<1>2. Lag' = Lag /\ \A t \in Tag : Age(t)' = Age(t)
  BY <1>1 DEF Lag, Age
<1>3. Since' = OutOfRange + Lag
  BY <1>1, <1>2, Readings DEF Since, Time
<1>4. ASSUME NEW t \in Tag, track[t].here  PROVE Age(t)' <= Since'
  <2>1. ~(Elapsed(timer.stamp, track[t].last) > OutOfRange)
    BY <1>1, <1>4 DEF Expired, Active
  <2>2. Elapsed(timer.stamp, track[t].last) \in Time
    BY Readings, ElapsedIs
  <2>3. CASE Lag <= Age(t)
    <3>1. Elapsed(timer.stamp, track[t].last) = Age(t) - Lag
      BY <2>3, Readings, ElapsedAdds DEF Lag, Age
    <3>2. QED
      BY <1>2, <1>3, <2>1, <3>1, Readings DEF Time
  <2>4. CASE ~(Lag <= Age(t))
    BY <1>2, <1>3, <2>4, Readings DEF Time
  <2>5. QED
    BY <2>3, <2>4
<1>5. QED
  BY <1>1, <1>2, <1>4 DEF InTime

\* A report makes its tag a fresh one.
LEMMA UpdateInTime ==
  ASSUME TypeOK, InTime, ~Stuck, WorkerUpdate
  PROVE  InTime'
<1>1. now' = now /\ timer' = timer
  BY DEF WorkerUpdate
<1>2. CASE track' = track
  BY <1>1, <1>2, NothingAges
<1>3. CASE track' # track
  <2>1. PICK w \in Tag : /\ track'[w].active /\ track'[w].last = now
                         /\ \A t \in Tag \ {w} : track'[t] = track[t]
    BY <1>3, UpdateTrack
  <2>2. Lag' = Lag /\ Lag <= Late /\ Since' = Since
    BY <1>1 DEF InTime, Lag, Since
  <2>3. Age(w)' = 0
    <3>1. Elapsed(now, now) = 0
      BY Readings, ElapsedIs DEF Time
    <3>2. QED
      BY <1>1, <2>1, <3>1 DEF Age
  <2>4. Age(w)' <= Since
    BY <2>3, Readings DEF Since, Time
  <2>5. \A t \in Tag \ {w} : Age(t)' = Age(t)
    BY <1>1, <2>1 DEF Age
  <2>6. ASSUME NEW t \in Tag, track'[t].here  PROVE track'[t].active /\ Age(t)' <= Since'
    <3>1. CASE t = w
      BY <2>1, <2>2, <2>4, <3>1
    <3>2. CASE t # w
      BY <2>1, <2>2, <2>5, <2>6, <3>2 DEF InTime
    <3>3. QED
      BY <3>1, <3>2
  <2>7. QED
    BY <2>2, <2>6 DEF InTime
<1>4. QED
  BY <1>2, <1>3

\* A gateway that has forgotten its tags is late for none.
LEMMA ResetInTime ==
  ASSUME TypeOK, InTime, ResetAll \/ Restart
  PROVE  InTime'
<1>1. \A t \in Tag : ~track'[t].here
  BY ResetTrack
<1>2. CASE Restart
  <2>1. now' = 0 /\ timer'.stamp = 0
    BY <1>2 DEF Restart
  <2>2. Elapsed(0, 0) = 0
    BY Readings, ElapsedIs DEF Time
  <2>3. Lag' = 0
    BY <2>1, <2>2 DEF Lag
  <2>4. QED
    BY <1>1, <2>3, Readings DEF InTime
<1>3. CASE ResetAll
  <2>1. UNCHANGED <<now, timer, api>>
    BY <1>3 DEF ResetAll, mqtt
  <2>2. Stuck' = Stuck /\ Lag' = Lag
    BY <2>1 DEF Stuck, Lag
  <2>3. QED
    BY <1>1, <2>2 DEF InTime
<1>4. QED
  BY <1>2, <1>3

\* Every step keeps InTime.
LEMMA InTimeStep == TypeOK /\ Holders /\ InTime /\ [Next]_vars => InTime'
<1> SUFFICES ASSUME TypeOK, Holders, InTime, [Next]_vars PROVE InTime'
  OBVIOUS
<1>1. CASE UNCHANGED vars
  BY <1>1 DEF vars, books, mqtt, InTime, Stuck, Lag, Age, Since
<1>2. CASE Stuck /\ Next
  BY <1>2, StuckStays, ResetInTime DEF InTime
<1>3. CASE ResetAll \/ Restart
  BY <1>3, ResetInTime
<1>4. ASSUME ~Stuck, Tick \/ TimerWake \/ TimerDone \/ WorkerUpdate  PROVE InTime'
  BY <1>4, TickInTime, WakeInTime, DoneInTime, UpdateInTime
<1>5. ASSUME ~Stuck, TimerPublish \/ Reannounce  PROVE InTime'
  <2>1. now' = now /\ timer'.stamp = timer.stamp /\ (timer'.pc = "sleep" => timer.pc = "sleep")
    BY <1>5 DEF TimerPublish, Reannounce
  <2>2. Settles
    BY <1>5, PublishTrack, ReannounceTrack
  <2>3. QED
    BY <1>5, <2>1, <2>2, NothingAges DEF Settles
<1>6. ASSUME ~Stuck, NEW p \in Tag, TimerMark(p)  PROVE InTime'
  <2>1. now' = now /\ timer'.stamp = timer.stamp /\ timer.pc = "scan"
        /\ (timer' = timer \/ timer'.pc = "publish")
    BY <1>6 DEF TimerMark
  <2>2. ~track'[p].here /\ \A t \in Tag \ {p} : track'[t] = track[t]
    BY <1>6, MarkTrack
  <2>3. QED
    BY <1>6, <2>1, <2>2, NothingAges
<1>7. ASSUME ~Stuck,
             \/ \E t \in Tag : Enqueue(t)
             \/ WorkerTake \/ WorkerCheck \/ WorkerAnnounce \/ WorkerPublish \/ TimerLock
             \/ ClientConnects \/ OnConnected \/ Disconnected
      PROVE  InTime'
  <2>1. now' = now /\ track' = track
    BY <1>7 DEF Enqueue, WorkerTake, WorkerCheck, WorkerAnnounce, WorkerPublish, TimerLock,
       ClientConnects, OnConnected, Disconnected, books
  <2>2. timer' = timer \/ (timer'.stamp = timer.stamp /\ timer'.pc = "scan")
    BY <1>7 DEF Enqueue, WorkerTake, WorkerCheck, WorkerAnnounce, WorkerPublish, TimerLock,
       ClientConnects, OnConnected, Disconnected, TypeOK, TimerState
  <2>3. QED
    BY <1>7, <2>1, <2>2, NothingAges
<1>8. QED
  BY <1>1, <1>2, <1>3, <1>4, <1>5, <1>6, <1>7 DEF Next

\* MarkedInTime: unless the two mutexes lock up, a tag that is held to be in range was heard of at
\* most BMT_TAG_OUT_OF_RANGE_MS and two delays of the timer ago (bmt_thingsboard.c:235-257), over
\* the wrap of the clock too.
THEOREM SilentTagsAreMarked == Spec => []MarkedInTime
<1>1. Init => InTime
  <2>1. ASSUME Init  PROVE Lag = 0 /\ \A t \in Tag : ~track[t].here
    <3>1. Elapsed(0, 0) = 0
      BY <2>1, TypeInit, Readings, ElapsedIs DEF Time
    <3>2. QED
      BY <2>1, <3>1 DEF Init, Lag, Blank
  <2>2. QED
    BY <2>1, TypeInit, Readings DEF InTime
<1>2. TypeOK /\ InTime => MarkedInTime
  <2>1. SUFFICES ASSUME TypeOK, InTime, ~Stuck, NEW t \in Tag, track[t].here
                 PROVE  Age(t) <= OutOfRange + 2 * Late
    BY DEF MarkedInTime, Age
  <2>2. Lag <= Late /\ Age(t) <= Since
    BY <2>1 DEF InTime
  <2>3. Since <= OutOfRange + Lag + Late /\ Since \in Nat
    BY <2>1, Readings DEF Since, Time
  <2>4. QED
    BY <2>1, <2>2, <2>3, Readings DEF Time
<1>3. IInv => TypeOK /\ Holders
  BY DEF IInv
<1>4. QED
  BY <1>1, <1>2, <1>3, Invariance, InTimeStep, PTL DEF Spec
=============================================================================

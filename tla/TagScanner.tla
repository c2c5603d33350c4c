----------------------------- MODULE TagScanner -----------------------------
(* Tags (bmt_beacon and bmt_auth of the tag) and one scanner that hears them: authentication by  *)
(* a key that changes with the hours since the tag's start, the table of tags with its time-outs *)
(* and the radio manager, which listens and publishes in turn (bmt_scan, bmt_auth,               *)
(* bmt_tag_table).  Signal strength, distance and battery are left out.  Time is counted in      *)
(* steps; a frame is what a tag sends between two changes of its sequence number.                *)
EXTENDS Integers, FiniteSets

CONSTANTS
  Tag, Phone,  \* tags; phones, whose beacons are neither signed nor numbered
  None,
  Interval,    \* length of a frame (500 ms; 900 to 1100 ms on the nRF52840)
  Lags, Lag,   \* how many frames what the Bluetooth stack hands over can be old, at most Lag
  SeqMod,      \* sequence numbers (256)
  Tick,        \* length of an epoch (BMT_EPOCH_TICK_SEC, an hour)
  EpochMod,    \* epochs (65536)
  WideMax,     \* last epoch of the wide resync (BMT_EPOCH_WIDE_MAX, 200)
  AuthSlots,   \* BMT_AUTH_MAX_TAGS (20)
  MaxTags,     \* BMT_MAX_TAGS (20)
  Late,        \* a frame fewer than these behind is dropped (10)
  Jump,        \* BMT_MAX_SEQ_JUMP (30)
  Timeout,     \* BMT_TAG_TIMEOUT_MS (5 s)
  Check,       \* pause of timeout_check_task (1 s)
  Hold,        \* how long more urgent tasks hold it up while it checks
  Scan, Rest,  \* BMT_GAP_SCAN_DURATION_MS (800 ms), BMT_MESH_PUBLISH_DURATION_MS (700 ms)
  Start,       \* how long the tags have run when the scanner starts
  MaxTime, MaxBoot, MaxClash  \* bounds: time, restarts and updates, codes that happen to agree

ASSUME Lengths ==
  /\ {Interval, Tick, EpochMod, SeqMod} \subseteq Nat \ {0}
  /\ {Lag, WideMax, AuthSlots, MaxTags, Late, Jump, Timeout, Check, Hold, Scan, Rest} \subseteq Nat
  /\ {Start, MaxTime, MaxBoot, MaxClash} \subseteq Nat /\ Start <= MaxTime
  /\ Lags \subseteq 0..Lag

ASSUME Names ==
  /\ Tag \cap Phone = {} /\ None \notin Nat
  /\ None \notin [seq : Nat, missed : Nat, seen : Nat, life : Nat, frame : Nat]

MaxAge == (Lag + 1) * Interval - 1  \* of a frame that the scanner gets to see
Bound == Timeout + Check + 2 * Hold  \* of the time since an entry that is reported was last seen

\* The wide resync stays within the epochs, a jump within half the sequence numbers; and so many
\* frames that they look a little old are more than come within the time-out and what follows.
ASSUME Margins ==
  /\ WideMax < EpochMod
  /\ 2 * Jump < SeqMod /\ Lag + Jump < SeqMod
  /\ Bound + MaxAge < (SeqMod - Late + 1) * Interval

VARIABLES
  now,
  boot,    \* when each tag started
  slots,   \* tags with an entry in s_epoch_state, never freed
  lock,    \* locked_epoch and locked_at_us; of which start of the tag, and whether it was right
  entry,   \* s_tags: last_sequence, total_missed, last_seen_ms; start and number of that frame
  radio,   \* radio_manager_task: where it is and how long it still waits there
  fresh,   \* s_has_new_data
  ota,     \* bmt_ota_is_triggered
  check,   \* timeout_check_task: how long it still waits, the time it has read
  checked, \* a whole check has run since the last update
  boots, clashes

auth  == <<slots, lock>>
tasks == <<radio, check, checked>>
vars == <<now, boot, auth, entry, fresh, ota, tasks, boots, clashes>>

Device == Tag \cup Phone
NoEntry == [d \in Device |-> None]
Active == {d \in Device : entry[d] # None}

Boot == boots < MaxBoot /\ boots' = boots + 1
Waiting(n) == [pc |-> "boot", left |-> n]

Init ==
  /\ now = Start /\ boot = [t \in Tag |-> 0]
  /\ slots = {} /\ lock = [t \in Tag |-> None]
  /\ entry = NoEntry /\ fresh = FALSE /\ ota = FALSE
  /\ radio = Waiting(Rest) /\ check = [left |-> 0, snap |-> None] /\ checked = TRUE
  /\ boots = 0 /\ clashes = 0

-----------------------------------------------------------------------------
(* The tag: s_sequence and the epoch key go with the time since its start. *)

Frame(t, j) == (now - boot[t]) \div Interval - j
EpochAt(b) == (b \div Tick) % EpochMod
FrameEpoch(f) == EpochAt(f * Interval)
Heard(t) == {f \in {Frame(t, j) : j \in Lags} : f >= 0}

TagRestart(t) ==
  /\ Boot /\ boot' = [boot EXCEPT ![t] = now + 1]
  /\ UNCHANGED <<now, auth, entry, fresh, ota, tasks, clashes>>

-----------------------------------------------------------------------------
(* bmt_auth_verify_tag.  A code belongs to the frame's epoch and, being of 16 bits, now and then  *)
(* to another one's key as well: a clash.                                                         *)

Predicted(t) == (lock[t].epoch + (now - lock[t].at) \div Tick) % EpochMod
SlipNarrow(t) ==
  IF lock[t] = None THEN {} ELSE {(Predicted(t) + d) % EpochMod : d \in -1..0}
Narrow(t) ==
  IF lock[t] = None THEN {} ELSE {(Predicted(t) + d) % EpochMod : d \in -1..1}
Wide == 0..WideMax
Candidates(t) == Narrow(t) \cup Wide

\* The epochs near the prediction are tried first, from below, then all from 0.
Order(t, e) == IF e \in Narrow(t) THEN (e - Predicted(t) + 1) % EpochMod ELSE EpochMod + e
TriedFirst(t, e, g) == g \in Candidates(t) => Order(t, e) < Order(t, g)

SlipSlots(t) == slots \cup {t}
Slots(t) == IF Cardinality(slots) < AuthSlots THEN slots \cup {t} ELSE slots

-----------------------------------------------------------------------------
(* bmt_tag_table. *)

SlipDiff(s, last) == s - last
Diff(s, last) ==
  LET d == (s - last) % SeqMod IN IF 2 * d >= SeqMod THEN d - SeqMod ELSE d

\* Too long a jump, like a short one back, taken for a replay and dropped.
SlipUpdated(en, s, b, f) ==
  LET d == Diff(s, en.seq)
      seen == [en EXCEPT !.seq = s, !.seen = now, !.life = b, !.frame = f]
  IN CASE d < 0 \/ d > Jump -> en
       [] d > 1 /\ d <= Jump -> [seen EXCEPT !.missed = @ + (d - 1)]
       [] OTHER -> seen
\* bmt_tag_table_update of an entry by frame f of the tag started at b, with sequence number s.
Updated(en, s, b, f) ==
  LET d == Diff(s, en.seq)
      seen == [en EXCEPT !.seq = s, !.seen = now, !.life = b, !.frame = f]
  IN CASE d < 0 /\ d > -Late -> en
       [] d > 1 /\ d <= Jump -> [seen EXCEPT !.missed = @ + (d - 1)]
       [] OTHER -> seen

Track(d, s, b, f) ==
  /\ entry' = IF d \in Active THEN [entry EXCEPT ![d] = Updated(entry[d], s, b, f)]
              ELSE IF Cardinality(Active) < MaxTags
              THEN [entry EXCEPT ![d] =
                      [seq |-> s, missed |-> 0, seen |-> now, life |-> b, frame |-> f]]
              ELSE entry
  /\ fresh' = TRUE

-----------------------------------------------------------------------------
(* gap_event_handler: nothing is heard outside the scan phase, s_phase being that from the start, *)
(* or during an update.                                                                           *)

Listening == radio.pc \in {"boot", "scan"} /\ ~ota

\* e is the epoch whose key gives the frame's code, in general that of the frame.
Accept(t, f, e) ==
  /\ Listening /\ f \in Heard(t) /\ e \in Candidates(t)
  /\ IF e = FrameEpoch(f) THEN UNCHANGED clashes
     ELSE TriedFirst(t, e, FrameEpoch(f)) /\ clashes < MaxClash /\ clashes' = clashes + 1
  /\ slots' = Slots(t)
  /\ lock' = IF t \in slots'
             THEN [lock EXCEPT ![t] = [epoch |-> e, at |-> now, life |-> boot[t],
                                       right |-> e = FrameEpoch(f)]]
             ELSE lock
  /\ Track(t, f % SeqMod, boot[t], f)
  /\ UNCHANGED <<now, boot, ota, tasks, boots>>

Reject(t, f) ==
  /\ Listening /\ f \in Heard(t) /\ FrameEpoch(f) \notin Candidates(t) /\ slots' = Slots(t)
  /\ UNCHANGED <<now, boot, lock, entry, fresh, ota, tasks, boots, clashes>>

HearPhone(p) ==
  /\ Listening /\ Track(p, 0, 0, 0)
  /\ UNCHANGED <<now, boot, auth, ota, tasks, boots, clashes>>

-----------------------------------------------------------------------------
(* radio_manager_task. *)

At(l) == radio.pc = l /\ radio.left = 0
Go(l, n) == radio' = [pc |-> l, left |-> n]

StartScan ==
  /\ radio.pc \in {"boot", "rest"} /\ radio.left = 0 /\ ~ota
  /\ Go("scan", Scan) /\ fresh' = FALSE
  /\ UNCHANGED <<now, boot, auth, entry, ota, check, checked, boots, clashes>>

PauseForOta ==
  /\ radio.pc \in {"boot", "rest"} /\ radio.left = 0 /\ ota /\ Go("rest", Rest)
  /\ UNCHANGED <<now, boot, auth, entry, fresh, ota, check, checked, boots, clashes>>

\* bmt_mesh_publish_tags: every active entry, when anything was heard.
Published == IF At("scan") /\ fresh THEN Active ELSE {}
Publish ==
  /\ At("scan") /\ Go("rest", Rest) /\ fresh' = FALSE
  /\ UNCHANGED <<now, boot, auth, entry, ota, check, checked, boots, clashes>>

-----------------------------------------------------------------------------
(* timeout_check_task: the time is read once, before the table; ages are unsigned, so that of an  *)
(* entry seen after it was read is huge.                                                          *)

CheckBegin ==
  /\ check.left = 0 /\ check.snap = None
  /\ check' = IF ota THEN [check EXCEPT !.left = Check] ELSE [left |-> Hold, snap |-> now]
  /\ UNCHANGED <<now, boot, auth, entry, fresh, ota, radio, checked, boots, clashes>>

SlipSilent(d) == check.snap - entry[d].seen \notin 0..(Timeout - 1)
Silent(d) == check.snap - entry[d].seen \notin 0..Timeout
\* The loop ends at the first entry it gives up.
SlipCheckEnd ==
  /\ check.snap # None /\ check' = [left |-> Check, snap |-> None] /\ checked' = ~ota
  /\ LET out == {d \in Active : Silent(d)} IN
     entry' = IF out = {} THEN entry ELSE [entry EXCEPT ![CHOOSE d \in out : TRUE] = None]
  /\ UNCHANGED <<now, boot, auth, fresh, ota, radio, boots, clashes>>
CheckEnd ==
  /\ check.snap # None /\ check' = [left |-> Check, snap |-> None] /\ checked' = ~ota
  /\ entry' = [d \in Device |-> IF d \in Active /\ Silent(d) THEN None ELSE entry[d]]
  /\ UNCHANGED <<now, boot, auth, fresh, ota, radio, boots, clashes>>

-----------------------------------------------------------------------------
(* An update that fails gives the radio back; one that succeeds, like any restart, clears all.    *)

OtaBegins == /\ ~ota /\ Boot /\ ota' = TRUE /\ checked' = FALSE
             /\ UNCHANGED <<now, boot, auth, entry, fresh, radio, check, clashes>>
OtaFails == /\ ota /\ ota' = FALSE
            /\ UNCHANGED <<now, boot, auth, entry, fresh, tasks, boots, clashes>>

ScannerRestart ==
  /\ Boot /\ slots' = {} /\ lock' = [t \in Tag |-> None]
  /\ entry' = NoEntry /\ fresh' = FALSE /\ ota' = FALSE
  /\ radio' = Waiting(Rest) /\ check' = [left |-> 0, snap |-> None] /\ checked' = TRUE
  /\ UNCHANGED <<now, boot, clashes>>

\* Time passes when no task has anything to do.
Pass ==
  /\ now < MaxTime /\ radio.left > 0 /\ check.left > 0 /\ now' = now + 1
  /\ radio' = [radio EXCEPT !.left = @ - 1] /\ check' = [check EXCEPT !.left = @ - 1]
  /\ UNCHANGED <<boot, auth, entry, fresh, ota, checked, boots, clashes>>
Stop == now = MaxTime /\ UNCHANGED vars

Next ==
  \/ \E t \in Tag : TagRestart(t)
  \/ \E t \in Tag : \E f \in Heard(t) : Reject(t, f)
  \/ \E t \in Tag : \E f \in Heard(t), e \in Candidates(t) : Accept(t, f, e)
  \/ \E p \in Phone : HearPhone(p)
  \/ StartScan \/ PauseForOta \/ Publish \/ CheckBegin \/ CheckEnd
  \/ OtaBegins \/ OtaFails \/ ScannerRestart \/ Pass \/ Stop

Spec == Init /\ [][Next]_vars

-----------------------------------------------------------------------------

\* Types of the scanner's authentication and tag table.  They bound what is kept: never more
\* entries than the two arrays hold, sequence numbers of a byte, an epoch of 16 bits.
TypeOK ==
  /\ now \in 0..MaxTime /\ boot \in [Tag -> 0..(MaxTime + 1)]
  /\ slots \subseteq Tag /\ Cardinality(slots) <= AuthSlots
  /\ \A t \in Tag : lock[t] = None \/
       /\ t \in slots /\ lock[t].epoch \in 0..(EpochMod - 1) /\ lock[t].at \in 0..now
       /\ lock[t].life \in 0..lock[t].at /\ lock[t].right \in BOOLEAN
  /\ Cardinality(Active) <= MaxTags
  /\ \A d \in Active : /\ entry[d].seq \in 0..(SeqMod - 1) /\ entry[d].seen \in 0..now
                        /\ entry[d].missed \in Nat
  /\ {fresh, ota, checked} \subseteq BOOLEAN
  /\ radio.pc \in {"boot", "scan", "rest"} /\ radio.left \in 0..(Scan + Rest)
  /\ check.left \in 0..(Check + Hold) /\ check.snap \in {None} \cup 0..now

\* bmt_auth_verify_tag: once the scanner has taken a frame of this start of a tag for what it is, it
\* takes every later one, however many hours both run and whatever was missed in between, at the
\* change of the hour and past the last epoch too.  Only when the tag was silent until the last
\* seconds of an hour of the scanner's count can a frame lie two epochs ahead of the prediction.
Edge(t) == ((now - lock[t].at) % Tick) + MaxAge > Tick
NeverLockedOut ==
  \A t \in Tag : \A f \in Heard(t) :
    lock[t] # None /\ lock[t].right /\ lock[t].life = boot[t] /\ ~Edge(t)
      => FrameEpoch(f) \in Candidates(t)

\* bmt_mesh_publish_tags reports an entry only while its last sample, counted from when the tag
\* really sent it, is at most the time-out, a pause of the time-out task and twice its delay old.
\* An update suspends the time-outs: until one has run after it, old samples can go out.
NoStaleReport ==
  checked => \A d \in Published :
    /\ now - entry[d].seen <= Bound
    /\ d \in Tag => now - (entry[d].life + entry[d].frame * Interval) <= Bound + MaxAge

\* bmt_tag_table_update: while a tag runs, total_missed grows by exactly the frames between two
\* that were heard when they are up to Jump apart, across the overflow of the sequence number and
\* whatever arrives late or twice; after a longer gap by no more than were really sent.
SameLife(t) ==
  entry[t] # None /\ entry'[t] # None /\ entry[t].life = boot[t] /\ entry'[t].life = boot[t]
LossIsCounted == [][\A t \in Tag : SameLife(t) =>
  LET gap == entry'[t].frame - entry[t].frame
      lost == entry'[t].missed - entry[t].missed
  IN IF gap \in 1..Jump THEN lost = gap - 1
     ELSE lost = 0 \/ (lost > 0 /\ lost < gap)]_vars

\* bmt_tag_table_update drops what is a little behind: as long as the time-outs run, that never
\* hits a frame of a running tag that is newer than the last one, so its entry is refreshed.
HeardIsSeen == [][\A t \in Active \cap Tag : \A f \in Heard(t) :
  Accept(t, f, FrameEpoch(f)) /\ checked /\ entry[t].life = boot[t] /\ f >= entry[t].frame
    => entry'[t] # None /\ entry'[t].seen = now]_vars

\* bmt_tag_table_check_timeouts gives up an entry, and its loss count with it, only after more than
\* the time-out without a frame - unless the frame came while the check was under way.
GivenUpWhenSilent == [][\A d \in Active :
  entry'[d] = None => \/ now - entry[d].seen > Timeout
                      \/ check.snap # None /\ check.snap < entry[d].seen
                      \/ ScannerRestart]_vars
=============================================================================

-------------------------- MODULE TagScannerProofs --------------------------
(* Theorems about TagScanner, for any number of tags and any lengths: its types; entries are     *)
(* given up and reported when they should be; no tag is locked out across the change of the      *)
(* epoch; losses are counted across the overflow of the sequence number.                         *)
EXTENDS TagScanner, FiniteSetTheorems, TLAPS

EntryState == [seq : Nat, missed : Nat, seen : Nat, life : Nat, frame : Nat]
LockState == [epoch : 0..(EpochMod - 1), at : Nat, life : Nat, right : BOOLEAN]
RadioState == [pc : {"boot", "scan", "rest"}, left : 0..(Scan + Rest)]
CheckState == [left : 0..(Check + Hold), snap : {None} \cup Nat]

\* What is kept about a tag is about the past, and the two arrays are never overrun.
Typed ==
  /\ now \in 0..MaxTime /\ boot \in [Tag -> 0..(MaxTime + 1)]
  /\ slots \subseteq Tag /\ IsFiniteSet(slots) /\ Cardinality(slots) <= AuthSlots
  /\ lock \in [Tag -> LockState \cup {None}]
  /\ \A t \in Tag : lock[t] # None => /\ t \in slots /\ lock[t].at <= now
                                      /\ lock[t].life <= lock[t].at
  /\ entry \in [Device -> EntryState \cup {None}]
  /\ IsFiniteSet(Active) /\ Cardinality(Active) <= MaxTags
  /\ \A d \in Active : entry[d].seen <= now /\ entry[d].seq < SeqMod
  /\ fresh \in BOOLEAN /\ ota \in BOOLEAN /\ checked \in BOOLEAN
  /\ radio \in RadioState
  /\ check \in CheckState /\ (check.snap # None => check.snap <= now)

\* The lengths are natural numbers.
LEMMA Constants ==
  /\ Interval \in Nat /\ Interval > 0 /\ Tick \in Nat /\ Tick > 0
  /\ EpochMod \in Nat /\ EpochMod > 0 /\ SeqMod \in Nat /\ SeqMod > 0
  /\ Lag \in Nat /\ WideMax \in Nat /\ AuthSlots \in Nat /\ MaxTags \in Nat /\ Late \in Nat
  /\ Jump \in Nat /\ Timeout \in Nat /\ Check \in Nat /\ Hold \in Nat
  /\ Scan \in Nat /\ Rest \in Nat /\ Start \in Nat /\ MaxTime \in Nat /\ Start <= MaxTime
  /\ Lags \subseteq 0..Lag /\ WideMax < EpochMod
  BY Lengths, Margins DEF Lengths, Margins

\* Names are told apart: tags from phones, None from times and entries.
LEMMA Different ==
  None \notin Nat /\ None \notin EntryState /\ Tag \cap Phone = {} /\ Tag \subseteq Device
  BY Names DEF Names, EntryState, Device

-----------------------------------------------------------------------------
(* Division. *)

\* Quotient and remainder of C's / and %.
LEMMA Division ==
  ASSUME NEW a \in Int, NEW m \in Nat, m > 0
  PROVE  /\ a \div m \in Int /\ a % m \in 0..(m - 1)
         /\ a = m * (a \div m) + (a % m)
  OBVIOUS

\* Multiples are ordered like what they are multiples of.
LEMMA Multiples ==
  ASSUME NEW m \in Nat, m > 0, NEW j \in Int, NEW k \in Int
  PROVE  /\ j <= k => m * j <= m * k
         /\ m * j < m * (k + 1) => j <= k
<1>1. ASSUME j <= k  PROVE m * j <= m * k
  BY <1>1
<1>2. ASSUME ~(j <= k)  PROVE m * (k + 1) <= m * j
  BY <1>2
<1>3. m * j \in Int /\ m * (k + 1) \in Int
  OBVIOUS
<1>4. QED
  BY <1>1, <1>2, <1>3

\* Adding a multiple leaves the remainder.
LEMMA SameRemainder ==
  ASSUME NEW m \in Nat, m > 0, NEW a \in Int, NEW b \in Int, NEW k \in Int, a = b + m * k
  PROVE  a % m = b % m
<1> DEFINE q == a \div m
           r == a % m
           u == b \div m
           v == b % m
<1>1. a = m * q + r /\ q \in Int /\ r \in 0..(m - 1)
  BY Division
<1>2. b = m * u + v /\ u \in Int /\ v \in 0..(m - 1)
  BY Division
<1>3. SUFFICES r = v
  OBVIOUS
<1> HIDE DEF q, r, u, v
<1> DEFINE w == u + k
<1>4. w \in Int /\ m * w = m * u + m * k
  BY <1>2
<1> HIDE DEF w
<1>5. m * q + r = m * w + v
  BY <1>1, <1>2, <1>4
<1>6. m * (q - w) = v - r
  BY <1>1, <1>2, <1>4, <1>5
<1>7. q - w >= 1 => m * (q - w) >= m
  BY <1>1, <1>4
<1>8. q - w <= -1 => m * (q - w) <= -m
  BY <1>1, <1>4
<1>9. QED
  BY <1>1, <1>2, <1>4, <1>6, <1>7, <1>8

-----------------------------------------------------------------------------
(* Frames. *)

\* A frame that is heard was sent since the tag's start, at most MaxAge ago (bmt_beacon.c).
LEMMA HeardFrame ==
  ASSUME Typed, NEW t \in Tag, NEW f \in Heard(t)
  PROVE  /\ f \in Nat /\ boot[t] \in Nat /\ boot[t] + f * Interval \in Nat
         /\ boot[t] + f * Interval <= now
         /\ now - (boot[t] + f * Interval) <= MaxAge
<1> DEFINE F == (now - boot[t]) \div Interval
<1>1. now \in Nat /\ boot[t] \in Nat /\ Interval \in Nat /\ Interval > 0 /\ Lag \in Nat
  BY Constants DEF Typed
<1>2. PICK j \in 0..Lag : f = F - j /\ f >= 0
  BY Constants DEF Heard, Frame
<1>3. /\ F \in Int
      /\ \E r \in 0..(Interval - 1) : now - boot[t] = Interval * F + r
  <2>1. now - boot[t] \in Int
    BY <1>1
  <2>2. QED
    BY <1>1, <2>1, Division
<1> HIDE DEF F
<1>r. PICK r \in 0..(Interval - 1) : now - boot[t] = Interval * F + r
  BY <1>3
<1>4. f \in Nat
  BY <1>1, <1>2, <1>3
<1>5. Interval * F = f * Interval + Interval * j
  BY <1>1, <1>2, <1>3, <1>4
<1>6. Interval * j <= Interval * Lag /\ Interval * j >= 0 /\ Interval * j \in Nat
  BY <1>1, Multiples
<1>7. MaxAge = Interval * Lag + Interval - 1
  BY <1>1 DEF MaxAge
<1>8. f * Interval \in Nat /\ Interval * Lag \in Nat
  BY <1>1, <1>4
<1>9. now - (boot[t] + f * Interval) = Interval * j + r
  <2> DEFINE x == Interval * F
             y == f * Interval
             z == Interval * j
  <2>1. /\ x \in Int /\ y \in Int /\ z \in Int
        /\ now - boot[t] = x + r /\ x = y + z
    BY <1>1, <1>3, <1>r, <1>5, <1>6, <1>8
  <2>2. SUFFICES now - (boot[t] + y) = z + r
    OBVIOUS
  <2> HIDE DEF x, y, z
  <2>3. QED
    BY <1>1, <2>1
<1>10. 0 <= Interval * j + r /\ Interval * j + r <= MaxAge
  BY <1>1, <1>6, <1>7, <1>8
<1>11. QED
  BY <1>1, <1>4, <1>6, <1>8, <1>9, <1>10

-----------------------------------------------------------------------------
(* Types. *)

\* The difference of two sequence numbers is a signed one of half their range: what int8_t holds.
LEMMA DiffType ==
  ASSUME NEW s \in Nat, NEW l \in Nat
  PROVE  /\ Diff(s, l) \in Int /\ 2 * Diff(s, l) < SeqMod /\ 2 * Diff(s, l) >= -SeqMod
         /\ Diff(s, l) = (s - l) % SeqMod \/ Diff(s, l) = ((s - l) % SeqMod) - SeqMod
<1> DEFINE d == (s - l) % SeqMod
<1>1. d \in 0..(SeqMod - 1) /\ SeqMod \in Nat
  BY Division, Constants
<1>2. Diff(s, l) = IF 2 * d >= SeqMod THEN d - SeqMod ELSE d
  BY DEF Diff
<1> HIDE DEF d
<1>3. QED
  BY <1>1, <1>2 DEF d

\* An entry that was renewed by frame f of the start of the tag at b.
Renewed(en, s, b, f) ==
  en \in EntryState /\ en.seq = s /\ en.seen = now /\ en.life = b /\ en.frame = f

\* What bmt_tag_table_update makes of an entry.
LEMMA UpdatedEntry ==
  ASSUME NEW en \in EntryState, NEW s \in Nat, NEW b \in Nat, NEW f \in Nat, now \in Nat
  PROVE  LET d == Diff(s, en.seq)  new == Updated(en, s, b, f)
         IN  /\ d < 0 /\ d > -Late => new = en
             /\ ~(d < 0 /\ d > -Late) =>
                  /\ Renewed(new, s, b, f)
                  /\ new.missed = en.missed + (IF d > 1 /\ d <= Jump THEN d - 1 ELSE 0)
<1> DEFINE d == Diff(s, en.seq)
           seen == [en EXCEPT !.seq = s, !.seen = now, !.life = b, !.frame = f]
<1>1. d \in Int
  BY DiffType DEF EntryState
<1>2. /\ seen \in EntryState /\ seen.seq = s /\ seen.seen = now /\ seen.life = b
      /\ seen.frame = f /\ seen.missed = en.missed
  BY DEF EntryState
<1>3. Updated(en, s, b, f) = CASE d < 0 /\ d > -Late -> en
                               [] d > 1 /\ d <= Jump -> [seen EXCEPT !.missed = @ + (d - 1)]
                               [] OTHER -> seen
  BY DEF Updated
<1>4. Late \in Nat /\ Jump \in Nat
  BY Constants
<1> HIDE DEF d, seen
<1>5. CASE d < 0 /\ d > -Late
  BY <1>1, <1>3, <1>4, <1>5 DEF d
<1>6. CASE d > 1 /\ d <= Jump
  <2>1. Updated(en, s, b, f) = [seen EXCEPT !.missed = seen.missed + (d - 1)]
    BY <1>1, <1>3, <1>4, <1>6
  <2>2. seen.missed + (d - 1) \in Nat
    BY <1>1, <1>2, <1>6 DEF EntryState
  <2>3. Renewed([seen EXCEPT !.missed = seen.missed + (d - 1)], s, b, f)
    BY <1>2, <2>2 DEF Renewed, EntryState
  <2>4. [seen EXCEPT !.missed = seen.missed + (d - 1)].missed = seen.missed + (d - 1)
    BY <1>2 DEF EntryState
  <2>5. QED
    BY <1>1, <1>2, <1>4, <1>6, <2>1, <2>3, <2>4 DEF d
<1>7. CASE ~(d < 0 /\ d > -Late) /\ ~(d > 1 /\ d <= Jump)
  <2>1. Updated(en, s, b, f) = seen
    BY <1>3, <1>7
  <2>2. en.missed + 0 = en.missed
    BY DEF EntryState
  <2>3. QED
    BY <1>2, <1>7, <2>1, <2>2 DEF d, Renewed
<1>8. QED
  BY <1>5, <1>6, <1>7

\* What a frame does to the table (bmt_tag_table_find, _add, _update).
LEMMA TrackEffect ==
  ASSUME Typed, NEW d \in Device, NEW s \in Nat, NEW b \in Nat, NEW f \in Nat, Track(d, s, b, f)
  PROVE  /\ entry' \in [Device -> EntryState \cup {None}]
         /\ \A x \in Device \ {d} : entry'[x] = entry[x]
         /\ d \in Active => entry'[d] = Updated(entry[d], s, b, f)
         /\ entry'[d] = entry[d] \/ Renewed(entry'[d], s, b, f)
         /\ IsFiniteSet(Active') /\ Cardinality(Active') <= MaxTags
<1>0. /\ entry \in [Device -> EntryState \cup {None}] /\ IsFiniteSet(Active)
      /\ Cardinality(Active) \in Nat /\ Cardinality(Active) <= MaxTags /\ now \in Nat
      /\ MaxTags \in Nat
  BY FS_CardinalityType, Constants DEF Typed
<1>1. CASE d \in Active
  <2>1. entry' = [entry EXCEPT ![d] = Updated(entry[d], s, b, f)]
    BY <1>1 DEF Track
  <2>2. entry[d] \in EntryState
    BY <1>0, <1>1 DEF Active
  <2>3. Updated(entry[d], s, b, f) = entry[d] \/ Renewed(Updated(entry[d], s, b, f), s, b, f)
    BY <1>0, <2>2, UpdatedEntry
  <2>4. Updated(entry[d], s, b, f) \in EntryState
    BY <2>2, <2>3 DEF Renewed
  <2>5. entry' \in [Device -> EntryState \cup {None}]
    BY <1>0, <2>1, <2>4
  <2>6. /\ \A x \in Device \ {d} : entry'[x] = entry[x]
        /\ entry'[d] = Updated(entry[d], s, b, f)
    BY <1>0, <2>1
  <2>7. Active' = Active
    BY <1>1, <2>4, <2>6, Different DEF Active
  <2>8. QED
    BY <1>0, <2>3, <2>5, <2>6, <2>7
<1>2. CASE d \notin Active /\ Cardinality(Active) < MaxTags
  <2> DEFINE r == [seq |-> s, missed |-> 0, seen |-> now, life |-> b, frame |-> f]
  <2>1. entry' = [entry EXCEPT ![d] = r]
    BY <1>2 DEF Track
  <2>2. r \in EntryState /\ Renewed(r, s, b, f)
    BY <1>0 DEF EntryState, Renewed
  <2> HIDE DEF r
  <2>3. /\ entry' \in [Device -> EntryState \cup {None}]
        /\ \A x \in Device \ {d} : entry'[x] = entry[x]
        /\ entry'[d] = r
    BY <1>0, <2>1, <2>2
  <2>4. Active' = Active \cup {d}
    BY <2>2, <2>3, Different DEF Active
  <2>5. IsFiniteSet(Active') /\ Cardinality(Active') = Cardinality(Active) + 1
    BY <1>0, <1>2, <2>4, FS_AddElement
  <2>6. QED
    BY <1>0, <1>2, <2>2, <2>3, <2>5
<1>3. CASE d \notin Active /\ ~(Cardinality(Active) < MaxTags)
  <2>1. entry' = entry
    BY <1>3 DEF Track
  <2>2. QED
    BY <1>0, <1>3, <2>1 DEF Active
<1>4. QED
  BY <1>1, <1>2, <1>3

\* The entries keep their types.
EntryTypes ==
  /\ entry' \in [Device -> EntryState \cup {None}]
  /\ IsFiniteSet(Active') /\ Cardinality(Active') <= MaxTags
  /\ \A d \in Active' : entry'[d].seen <= now /\ entry'[d].seq < SeqMod

\* A sequence number is a byte.
LEMMA SeqType ==
  ASSUME NEW f \in Nat
  PROVE  f % SeqMod \in Nat /\ f % SeqMod < SeqMod
  BY Division, Constants

\* A frame keeps the types of the table (bmt_tag_table_update).
LEMMA TrackTypes ==
  ASSUME Typed, NEW d \in Device, NEW s \in Nat, s < SeqMod, NEW b \in Nat, NEW f \in Nat,
         Track(d, s, b, f)
  PROVE  EntryTypes
<1>1. /\ entry' \in [Device -> EntryState \cup {None}]
      /\ \A x \in Device \ {d} : entry'[x] = entry[x]
      /\ entry'[d] = entry[d] \/ Renewed(entry'[d], s, b, f)
      /\ IsFiniteSet(Active') /\ Cardinality(Active') <= MaxTags
  BY TrackEffect
<1>2. now \in Nat /\ \A x \in Active : entry[x].seen <= now /\ entry[x].seq < SeqMod
  BY Constants DEF Typed
<1>3. ASSUME NEW x \in Active'  PROVE entry'[x].seen <= now /\ entry'[x].seq < SeqMod
  <2>1. CASE entry'[x] = entry[x]
    BY <1>2, <1>3, <2>1 DEF Active
  <2>2. CASE x = d /\ Renewed(entry'[d], s, b, f)
    BY <1>2, <2>2 DEF Renewed
  <2>3. QED
    BY <1>1, <1>3, <2>1, <2>2 DEF Active
<1>4. QED
  BY <1>1, <1>3 DEF EntryTypes

\* The slots of the authentication never run over (find_or_alloc_epoch_state).
LEMMA SlotsTypes ==
  ASSUME Typed, NEW t \in Tag
  PROVE  /\ slots \subseteq Slots(t) /\ Slots(t) \subseteq Tag /\ IsFiniteSet(Slots(t))
         /\ Cardinality(Slots(t)) <= AuthSlots
<1>1. /\ slots \subseteq Tag /\ IsFiniteSet(slots) /\ Cardinality(slots) \in Nat
      /\ Cardinality(slots) <= AuthSlots /\ AuthSlots \in Nat
  BY FS_CardinalityType, Constants DEF Typed
<1>2. IsFiniteSet(slots \cup {t}) /\ Cardinality(slots \cup {t}) \in {Cardinality(slots),
                                                                      Cardinality(slots) + 1}
  BY <1>1, FS_AddElement
<1>3. QED
  BY <1>1, <1>2 DEF Slots

\* The epochs that are tried are epochs.
LEMMA CandidateType ==
  ASSUME Typed, NEW t \in Tag, NEW e \in Candidates(t)
  PROVE  e \in 0..(EpochMod - 1)
<1>1. EpochMod \in Nat /\ EpochMod > 0 /\ Tick \in Nat /\ Tick > 0 /\ now \in Nat
  BY Constants DEF Typed
<1>2. CASE e \in Wide
  BY <1>2, Constants DEF Wide
<1>3. CASE e \in Narrow(t)
  <2>1. lock[t] # None
    BY <1>3 DEF Narrow
  <2>2. lock[t] \in LockState
    BY <2>1 DEF Typed
  <2>3. now - lock[t].at \in Int /\ lock[t].epoch \in Int
    BY <1>1, <2>2 DEF LockState
  <2>4. lock[t].epoch + (now - lock[t].at) \div Tick \in Int
    BY <1>1, <2>3, Division
  <2>5. Predicted(t) \in Int
    BY <1>1, <2>4, Division DEF Predicted
  <2>6. PICK d \in -1..1 : e = (Predicted(t) + d) % EpochMod
    BY <1>3, <2>1 DEF Narrow
  <2>7. Predicted(t) + d \in Int
    BY <2>5
  <2>8. QED
    BY <1>1, <2>6, <2>7, Division
<1>4. QED
  BY <1>2, <1>3 DEF Candidates

\* Hearing keeps the types (gap_event_handler).
LEMMA HearTypes ==
  ASSUME Typed,
         \/ \E t \in Tag : \E f \in Heard(t) : Reject(t, f)
         \/ \E t \in Tag : \E f \in Heard(t), e \in Candidates(t) : Accept(t, f, e)
         \/ \E p \in Phone : HearPhone(p)
  PROVE  Typed'
<1>0. /\ now \in 0..MaxTime /\ now \in Nat /\ lock \in [Tag -> LockState \cup {None}]
      /\ boot \in [Tag -> 0..(MaxTime + 1)]
  BY Constants DEF Typed
<1>1. ASSUME NEW t \in Tag, NEW f \in Heard(t), Reject(t, f)  PROVE Typed'
  <2>1. slots' = Slots(t) /\ UNCHANGED <<now, boot, lock, entry, fresh, ota, radio, check, checked>>
    BY <1>1 DEF Reject, tasks
  <2>2. Active' = Active
    BY <2>1 DEF Active
  <2>3. QED
    BY <2>1, <2>2, SlotsTypes DEF Typed
<1>2. ASSUME NEW t \in Tag, NEW f \in Heard(t), NEW e \in Candidates(t), Accept(t, f, e)
      PROVE  Typed'
  <2>1. /\ slots' = Slots(t) /\ UNCHANGED <<now, boot, ota, radio, check, checked>>
        /\ fresh' = TRUE /\ Track(t, f % SeqMod, boot[t], f)
    BY <1>2 DEF Accept, tasks, Track
  <2>2. f \in Nat /\ boot[t] \in Nat /\ boot[t] <= now
    <3>1. /\ f \in Nat /\ boot[t] \in Nat /\ boot[t] + f * Interval \in Nat
          /\ boot[t] + f * Interval <= now
      BY HeardFrame
    <3>2. f * Interval \in Nat
      BY <3>1, Constants
    <3>3. QED
      BY <1>0, <3>1, <3>2
  <2>3. EntryTypes
    BY <2>1, <2>2, SeqType, TrackTypes, Different
  <2> DEFINE r == [epoch |-> e, at |-> now, life |-> boot[t], right |-> e = FrameEpoch(f)]
  <2>4. lock' = IF t \in slots' THEN [lock EXCEPT ![t] = r] ELSE lock
    BY <1>2 DEF Accept
  <2>5. r \in LockState /\ r.at = now /\ r.life = boot[t]
    <3>1. (e = FrameEpoch(f)) \in BOOLEAN
      BY Zenon
    <3>2. e \in 0..(EpochMod - 1)
      BY <1>2, CandidateType
    <3>3. QED
      BY <1>0, <2>2, <3>1, <3>2 DEF LockState
  <2> HIDE DEF r
  <2>6. lock' \in [Tag -> LockState \cup {None}]
    BY <1>0, <2>4, <2>5
  <2>7. \A u \in Tag : lock'[u] # None => /\ u \in slots' /\ lock'[u].at <= now
                                          /\ lock'[u].life <= lock'[u].at
    <3>1. \A u \in Tag : lock[u] # None => /\ u \in slots /\ lock[u].at <= now
                                           /\ lock[u].life <= lock[u].at
      BY DEF Typed
    <3>2. slots \subseteq slots'
      BY <2>1, SlotsTypes
    <3>3. QED
      BY <1>0, <2>2, <2>4, <2>5, <3>1, <3>2
  <2>8. /\ slots' \subseteq Tag /\ IsFiniteSet(slots') /\ Cardinality(slots') <= AuthSlots
    BY <2>1, SlotsTypes
  <2>9. fresh' \in BOOLEAN /\ ota \in BOOLEAN /\ checked \in BOOLEAN
    BY <2>1 DEF Typed
  <2>10. QED
    BY <1>0, <2>1, <2>3, <2>6, <2>7, <2>8, <2>9 DEF Typed, EntryTypes
<1>3. ASSUME NEW p \in Phone, HearPhone(p)  PROVE Typed'
  <2>1. /\ UNCHANGED <<now, boot, slots, lock, ota, radio, check, checked>>
        /\ fresh' = TRUE /\ Track(p, 0, 0, 0)
    BY <1>3 DEF HearPhone, tasks, auth, Track
  <2>2. EntryTypes
    <3>1. p \in Device /\ 0 < SeqMod /\ 0 \in Nat
      BY Constants DEF Device
    <3>2. QED
      BY <2>1, <3>1, TrackTypes
  <2>3. QED
    BY <2>1, <2>2 DEF Typed, EntryTypes
<1>4. QED
  BY <1>1, <1>2, <1>3

\* The tasks and time keep the types (radio_manager_task, timeout_check_task, bmt_ota).
LEMMA TaskTypes ==
  ASSUME Typed,
         StartScan \/ PauseForOta \/ Publish \/ CheckBegin \/ OtaBegins \/ OtaFails \/ Pass
  PROVE  Typed' /\ UNCHANGED <<boot, slots, lock, entry>>
<1>0. /\ now \in 0..MaxTime /\ now \in Nat /\ radio \in RadioState /\ check \in CheckState
      /\ MaxTime \in Nat /\ Scan \in Nat /\ Rest \in Nat /\ Check \in Nat /\ Hold \in Nat
      /\ fresh \in BOOLEAN /\ ota \in BOOLEAN /\ checked \in BOOLEAN
      /\ None \notin Nat
  BY Constants, Different DEF Typed
<1>1. UNCHANGED <<boot, slots, lock, entry>>
  BY DEF StartScan, PauseForOta, Publish, CheckBegin, OtaBegins, OtaFails, Pass, auth
<1>2. Active' = Active
  BY <1>1 DEF Active
<1>3. CASE StartScan \/ PauseForOta \/ Publish
  <2>1. radio' \in RadioState
    BY <1>0, <1>3 DEF StartScan, PauseForOta, Publish, Go, RadioState
  <2>2. UNCHANGED <<now, ota, check, checked>> /\ fresh' \in BOOLEAN
    BY <1>0, <1>3 DEF StartScan, PauseForOta, Publish
  <2>3. QED
    BY <1>1, <1>2, <2>1, <2>2 DEF Typed
<1>4. CASE CheckBegin
  <2>1. check' \in CheckState /\ (check'.snap # None => check'.snap <= now)
    <3>1. CASE ota
      BY <1>0, <1>4, <3>1 DEF CheckBegin, CheckState
    <3>2. CASE ~ota
      BY <1>0, <1>4, <3>2 DEF CheckBegin, CheckState
    <3>3. QED
      BY <3>1, <3>2
  <2>2. UNCHANGED <<now, fresh, ota, radio, checked>>
    BY <1>4 DEF CheckBegin
  <2>3. QED
    BY <1>1, <1>2, <2>1, <2>2 DEF Typed
<1>5. CASE OtaBegins \/ OtaFails
  <2>1. UNCHANGED <<now, fresh, radio, check>> /\ ota' \in BOOLEAN /\ checked' \in BOOLEAN
    BY <1>0, <1>5 DEF OtaBegins, OtaFails, tasks
  <2>2. QED
    BY <1>1, <1>2, <2>1 DEF Typed
<1>6. CASE Pass
  <2>1. now' \in 0..MaxTime /\ now' = now + 1
    BY <1>0, <1>6 DEF Pass
  <2>2. radio' \in RadioState
    BY <1>0, <1>6 DEF Pass, RadioState
  <2>3. check' \in CheckState /\ check'.snap = check.snap
    BY <1>0, <1>6 DEF Pass, CheckState
  <2>4. UNCHANGED <<fresh, ota, checked>>
    BY <1>6 DEF Pass
  <2>5. check'.snap # None => check'.snap <= now'
    <3>1. check.snap # None => check.snap \in Nat /\ check.snap <= now
      BY <1>0 DEF Typed, CheckState
    <3>2. QED
      BY <1>0, <2>1, <2>3, <3>1
  <2>6. \A t \in Tag : lock[t] # None => lock[t].at <= now'
    <3>1. \A t \in Tag : lock[t] # None => lock[t].at \in Nat /\ lock[t].at <= now
      BY DEF Typed, LockState
    <3>2. QED
      BY <1>0, <2>1, <3>1
  <2>7. \A d \in Active : entry[d].seen <= now'
    <3>1. \A d \in Active : entry[d].seen \in Nat /\ entry[d].seen <= now
      BY DEF Typed, Active, EntryState
    <3>2. QED
      BY <1>0, <2>1, <3>1
  <2>8. QED
    BY <1>1, <1>2, <2>1, <2>2, <2>3, <2>4, <2>5, <2>6, <2>7 DEF Typed
<1>7. QED
  BY <1>1, <1>3, <1>4, <1>5, <1>6

\* The end of a check only gives entries up (bmt_tag_table_check_timeouts).
LEMMA CheckTypes ==
  ASSUME Typed, CheckEnd
  PROVE  /\ Typed' /\ Active' \subseteq Active
         /\ \A d \in Device : entry'[d] = IF d \in Active /\ Silent(d) THEN None ELSE entry[d]
<1>1. /\ entry' = [d \in Device |-> IF d \in Active /\ Silent(d) THEN None ELSE entry[d]]
      /\ UNCHANGED <<now, boot, slots, lock, fresh, ota, radio>>
      /\ check' = [left |-> Check, snap |-> None] /\ checked' = ~ota
  BY DEF CheckEnd, auth
<1>2. entry \in [Device -> EntryState \cup {None}]
  BY DEF Typed
<1>3. entry' \in [Device -> EntryState \cup {None}]
  BY <1>1, <1>2
<1>4. Active' \subseteq Active /\ \A d \in Active' : entry'[d] = entry[d]
  BY <1>1 DEF Active
<1>5. IsFiniteSet(Active') /\ Cardinality(Active') <= MaxTags
  <2>1. IsFiniteSet(Active) /\ Cardinality(Active) <= MaxTags
    BY DEF Typed
  <2>2. /\ IsFiniteSet(Active') /\ Cardinality(Active') \in Nat /\ Cardinality(Active) \in Nat
        /\ Cardinality(Active') <= Cardinality(Active)
    BY <1>4, <2>1, FS_Subset, FS_CardinalityType
  <2>3. QED
    BY <2>1, <2>2, Constants
<1>6. check' \in CheckState /\ check'.snap = None
  BY <1>1, Constants DEF CheckState
<1>7. (~ota) \in BOOLEAN
  BY Zenon
<1>8. Typed'
  BY <1>1, <1>3, <1>4, <1>5, <1>6, <1>7 DEF Typed
<1>9. QED
  BY <1>1, <1>4, <1>8

\* A restart keeps the types (bmt_beacon_start, bmt_scan_start).
LEMMA RestartTypes ==
  ASSUME Typed, ScannerRestart \/ \E t \in Tag : TagRestart(t)
  PROVE  Typed'
<1>1. CASE ScannerRestart
  <2>1. /\ slots' = {} /\ lock' = [t \in Tag |-> None] /\ entry' = NoEntry
        /\ UNCHANGED <<now, boot>>
        /\ fresh' = FALSE /\ ota' = FALSE /\ checked' = TRUE
        /\ radio' = [pc |-> "boot", left |-> Rest] /\ check' = [left |-> 0, snap |-> None]
    BY <1>1 DEF ScannerRestart, Waiting
  <2>2. Active' = {}
    BY <2>1 DEF Active, NoEntry
  <2>3. IsFiniteSet({}) /\ Cardinality({}) = 0
    BY FS_EmptySet
  <2>4. radio' \in RadioState /\ check' \in CheckState /\ check'.snap = None
    BY <2>1, Constants DEF RadioState, CheckState
  <2>5. entry' \in [Device -> EntryState \cup {None}]
    BY <2>1 DEF NoEntry
  <2>6. /\ lock' \in [Tag -> LockState \cup {None}] /\ \A t \in Tag : lock'[t] = None
        /\ slots' \subseteq Tag /\ IsFiniteSet(slots') /\ Cardinality(slots') <= AuthSlots
        /\ IsFiniteSet(Active') /\ Cardinality(Active') <= MaxTags
    BY <2>1, <2>2, <2>3, Constants
  <2>7. fresh' \in BOOLEAN /\ ota' \in BOOLEAN /\ checked' \in BOOLEAN
    BY <2>1
  <2>8. now \in 0..MaxTime /\ boot \in [Tag -> 0..(MaxTime + 1)]
    BY DEF Typed
  <2>9. QED
    BY <2>1, <2>2, <2>4, <2>5, <2>6, <2>7, <2>8 DEF Typed
<1>2. ASSUME NEW t \in Tag, TagRestart(t)  PROVE Typed'
  <2>1. boot' = [boot EXCEPT ![t] = now + 1]
        /\ UNCHANGED <<now, slots, lock, entry, fresh, ota, radio, check, checked>>
    BY <1>2 DEF TagRestart, auth, tasks
  <2>2. boot' \in [Tag -> 0..(MaxTime + 1)]
    BY <2>1, Constants DEF Typed
  <2>3. Active' = Active
    BY <2>1 DEF Active
  <2>4. QED
    BY <2>1, <2>2, <2>3 DEF Typed
<1>3. QED
  BY <1>1, <1>2

\* Every step keeps the types.
LEMMA TypedStep ==
  ASSUME Typed, [Next]_vars
  PROVE  Typed'
<1>1. CASE UNCHANGED vars
  <2>1. Active' = Active
    BY <1>1 DEF vars, Active
  <2>2. QED
    BY <1>1, <2>1 DEF vars, auth, tasks, Typed
<1>2. QED
  BY <1>1, HearTypes, TaskTypes, CheckTypes, RestartTypes DEF Next, Stop

\* At the start nothing is kept.
LEMMA InitTypes == Init => Typed
<1> SUFFICES ASSUME Init  PROVE Typed
  OBVIOUS
<1>1. /\ now = Start /\ boot = [t \in Tag |-> 0] /\ slots = {} /\ lock = [t \in Tag |-> None]
      /\ entry = NoEntry /\ fresh = FALSE /\ ota = FALSE /\ checked = TRUE
      /\ radio = [pc |-> "boot", left |-> Rest] /\ check = [left |-> 0, snap |-> None]
  BY DEF Init, Waiting
<1>2. Active = {}
  BY <1>1 DEF Active, NoEntry
<1>3. IsFiniteSet({}) /\ Cardinality({}) = 0
  BY FS_EmptySet
<1>4. radio \in RadioState /\ check \in CheckState /\ check.snap = None
  BY <1>1, Constants DEF RadioState, CheckState
<1>5. entry \in [Device -> EntryState \cup {None}] /\ boot \in [Tag -> 0..(MaxTime + 1)]
  BY <1>1, Constants DEF NoEntry
<1>6. /\ lock \in [Tag -> LockState \cup {None}] /\ \A t \in Tag : lock[t] = None
      /\ slots \subseteq Tag /\ IsFiniteSet(slots) /\ Cardinality(slots) <= AuthSlots
      /\ IsFiniteSet(Active) /\ Cardinality(Active) <= MaxTags
  BY <1>1, <1>2, <1>3, Constants
<1>7. fresh \in BOOLEAN /\ ota \in BOOLEAN /\ checked \in BOOLEAN
  BY <1>1
<1>8. now \in 0..MaxTime
  BY <1>1, Constants
<1>9. QED
  BY <1>1, <1>2, <1>4, <1>5, <1>6, <1>7, <1>8 DEF Typed

\* Typed is an invariant.
LEMMA TypedInvariant == Spec => []Typed
  BY InitTypes, TypedStep, PTL DEF Spec

\* TypeOK: the types of the scanner's authentication and tag table; neither array is overrun.
THEOREM TagScannerTypes == Spec => []TypeOK
<1>1. ASSUME Typed  PROVE TypeOK
  <2>1. \A t \in Tag : lock[t] = None \/
          /\ t \in slots /\ lock[t].epoch \in 0..(EpochMod - 1) /\ lock[t].at \in 0..now
          /\ lock[t].life \in 0..lock[t].at /\ lock[t].right \in BOOLEAN
    <3>1. \A t \in Tag : lock[t] # None =>
            /\ t \in slots /\ lock[t] \in LockState /\ lock[t].at <= now
            /\ lock[t].life <= lock[t].at
      BY <1>1 DEF Typed
    <3>2. now \in Nat
      BY <1>1, Constants DEF Typed
    <3>3. QED
      BY <3>1, <3>2 DEF LockState
  <2>2. \A d \in Active : /\ entry[d].seq \in 0..(SeqMod - 1) /\ entry[d].seen \in 0..now
                           /\ entry[d].missed \in Nat
    <3>1. \A d \in Active : entry[d] \in EntryState /\ entry[d].seen <= now
                            /\ entry[d].seq < SeqMod
      BY <1>1 DEF Typed, Active
    <3>2. now \in Nat /\ SeqMod \in Nat
      BY <1>1, Constants DEF Typed
    <3>3. QED
      BY <3>1, <3>2 DEF EntryState
  <2>3. /\ radio.pc \in {"boot", "scan", "rest"} /\ radio.left \in 0..(Scan + Rest)
        /\ check.left \in 0..(Check + Hold)
    BY <1>1 DEF Typed, RadioState, CheckState
  <2>4. check.snap \in {None} \cup 0..now
    <3>1. check.snap # None => check.snap \in Nat /\ check.snap <= now
      BY <1>1 DEF Typed, CheckState
    <3>2. now \in Nat
      BY <1>1, Constants DEF Typed
    <3>3. QED
      BY <3>1, <3>2
  <2>5. QED
    BY <1>1, <2>1, <2>2, <2>3, <2>4 DEF Typed, TypeOK
<1>2. QED
  BY <1>1, TypedInvariant, PTL

-----------------------------------------------------------------------------
(* Entries are given up, and no old one is reported. *)

Frequent == \E t \in Tag : \E f \in Heard(t), e \in Candidates(t) : Accept(t, f, e)

\* What a frame that is heard does to the entries: it keeps or renews its own, if there is one.
LEMMA HeardEffect ==
  ASSUME Typed, Frequent \/ \E p \in Phone : HearPhone(p)
  PROVE  \A d \in Device : \/ entry'[d] = entry[d]
                           \/ entry'[d] \in EntryState /\ entry'[d].seen = now
<1>1. ASSUME NEW t \in Tag, NEW f \in Heard(t), NEW e \in Candidates(t), Accept(t, f, e),
             NEW d \in Device
      PROVE  entry'[d] = entry[d] \/ (entry'[d] \in EntryState /\ entry'[d].seen = now)
  <2>1. Track(t, f % SeqMod, boot[t], f)
    BY <1>1 DEF Accept
  <2>2. f \in Nat /\ boot[t] \in Nat
    BY HeardFrame
  <2>3. QED
    BY <2>1, <2>2, SeqType, TrackEffect, Different DEF Renewed
<1>2. ASSUME NEW p \in Phone, HearPhone(p), NEW d \in Device
      PROVE  entry'[d] = entry[d] \/ (entry'[d] \in EntryState /\ entry'[d].seen = now)
  <2>1. Track(p, 0, 0, 0) /\ p \in Device
    BY <1>2 DEF HearPhone, Device
  <2>2. QED
    BY <2>1, TrackEffect DEF Renewed
<1>3. QED
  BY <1>1, <1>2 DEF Frequent

\* The steps that leave the entries alone.
LEMMA EntriesLeft ==
  ASSUME \/ StartScan \/ PauseForOta \/ Publish \/ CheckBegin \/ OtaBegins \/ OtaFails \/ Pass
         \/ \E t \in Tag : TagRestart(t) \/ \E f \in Heard(t) : Reject(t, f)
         \/ UNCHANGED vars
  PROVE  entry' = entry
  BY DEF StartScan, PauseForOta, Publish, CheckBegin, OtaBegins, OtaFails, Pass, TagRestart,
         Reject, vars

\* GivenUpWhenSilent: an entry is given up after more than the time-out without a frame, unless one
\* came while the check was under way (bmt_tag_table_check_timeouts).
THEOREM TagScannerGivenUp == Spec => GivenUpWhenSilent
<1> DEFINE Right == \A d \in Active :
                      entry'[d] = None => \/ now - entry[d].seen > Timeout
                                          \/ check.snap # None /\ check.snap < entry[d].seen
                                          \/ ScannerRestart
<1>1. ASSUME Typed, [Next]_vars  PROVE Right
  <2>1. SUFFICES ASSUME NEW d \in Active, entry'[d] = None, ~ScannerRestart
                 PROVE  \/ now - entry[d].seen > Timeout
                        \/ check.snap # None /\ check.snap < entry[d].seen
    OBVIOUS
  <2>2. d \in Device /\ entry[d] # None
    BY DEF Active
  <2>3. entry' # entry
    BY <2>1, <2>2
  <2>4. ~(Frequent \/ \E p \in Phone : HearPhone(p))
    BY <1>1, <2>1, <2>2, HeardEffect, Different
  <2>5. CheckEnd
    BY <1>1, <2>1, <2>3, <2>4, EntriesLeft DEF Next, Stop, Frequent
  <2>6. Silent(d) /\ check.snap # None
    BY <1>1, <2>1, <2>2, <2>5, CheckTypes DEF CheckEnd
  <2>7. entry[d].seen \in Nat /\ check.snap \in Nat /\ check.snap <= now /\ now \in Nat
        /\ Timeout \in Nat
    BY <1>1, <2>2, <2>6, Constants DEF Typed, EntryState, CheckState
  <2>8. check.snap - entry[d].seen \notin 0..Timeout
    BY <2>6 DEF Silent
  <2>9. QED
    BY <2>6, <2>7, <2>8
<1>2. QED
  BY <1>1, TypedInvariant, PTL DEF Spec, GivenUpWhenSilent

\* How old an entry is while the time-outs run (timeout_check_task): how long the pause and the
\* check take bounds what is kept.
Timed ==
  /\ ota => ~checked
  /\ check.snap = None => check.left <= Check
  /\ check.snap # None => now + check.left <= check.snap + Hold
  /\ checked => \A d \in Active :
       IF check.snap = None THEN now + check.left - entry[d].seen <= Timeout + Check + Hold
                            ELSE check.snap - entry[d].seen <= Timeout + Check + Hold

\* A frame that is heard starts the time of its entry anew.
LEMMA TimedHeard ==
  ASSUME Typed, Timed, Frequent \/ \E p \in Phone : HearPhone(p)
  PROVE  Timed'
<1>1. UNCHANGED <<now, check, checked, ota>>
  BY DEF Frequent, Accept, HearPhone, tasks
<1>2. /\ now \in Nat /\ check.left \in Nat /\ Check \in Nat /\ Timeout \in Nat /\ Hold \in Nat
      /\ check.snap # None => check.snap \in Nat /\ check.snap <= now
  BY Constants DEF Typed, CheckState
<1>3. ASSUME checked, NEW d \in Active'
      PROVE  IF check.snap = None THEN now + check.left - entry'[d].seen <= Timeout + Check + Hold
                                  ELSE check.snap - entry'[d].seen <= Timeout + Check + Hold
  <2>1. d \in Device /\ entry'[d] # None
    BY <1>3 DEF Active
  <2>2. CASE entry'[d] = entry[d]
    BY <1>3, <2>1, <2>2 DEF Timed, Active
  <2>3. CASE entry'[d].seen = now
    BY <1>2, <2>3 DEF Timed
  <2>4. QED
    BY <2>1, <2>2, <2>3, HeardEffect
<1>4. QED
  BY <1>1, <1>3 DEF Timed

\* A check leaves only entries that were not silent when it read the clock.
LEMMA TimedCheck ==
  ASSUME Typed, Timed, CheckBegin \/ CheckEnd
  PROVE  Timed'
<1>2. /\ now \in Nat /\ check.left \in Nat /\ Check \in Nat /\ Timeout \in Nat /\ Hold \in Nat
      /\ check.snap # None => check.snap \in Nat /\ check.snap <= now
      /\ \A d \in Active : entry[d].seen \in Nat
  BY Constants DEF Typed, CheckState, Active, EntryState
<1>3. CASE CheckBegin
  <2>1. check.left = 0 /\ check.snap = None /\ UNCHANGED <<now, entry, checked, ota>>
    BY <1>3 DEF CheckBegin
  <2>2. CASE ota
    <3>1. check' = [check EXCEPT !.left = Check] /\ ~checked
      BY <1>3, <2>2 DEF CheckBegin, Timed
    <3>2. check'.left = Check /\ check'.snap = None
      BY <2>1, <3>1 DEF Typed, CheckState
    <3>3. QED
      BY <1>2, <2>1, <3>1, <3>2 DEF Timed
  <2>3. CASE ~ota
    <3>1. check'.left = Hold /\ check'.snap = now /\ now # None
      BY <1>2, <1>3, <2>3, Different DEF CheckBegin
    <3>2. checked => \A d \in Active : now - entry[d].seen <= Timeout + Check + Hold
      BY <1>2, <2>1 DEF Timed
    <3>3. QED
      BY <1>2, <2>1, <2>3, <3>1, <3>2 DEF Timed, Active
  <2>4. QED
    BY <2>2, <2>3
<1>4. CASE CheckEnd
  <2>1. /\ check.snap # None /\ check'.left = Check /\ check'.snap = None /\ checked' = ~ota
        /\ UNCHANGED <<now, ota>>
    BY <1>4 DEF CheckEnd
  <2>2. now + check.left <= check.snap + Hold
    BY <2>1 DEF Timed
  <2>3. ASSUME NEW d \in Active'
        PROVE  now + Check - entry'[d].seen <= Timeout + Check + Hold
    <3>1. d \in Active /\ entry'[d] = entry[d] /\ ~Silent(d)
      BY <1>4, CheckTypes DEF Active
    <3>2. check.snap - entry[d].seen \in 0..Timeout
      BY <3>1 DEF Silent
    <3>3. QED
      BY <1>2, <2>1, <2>2, <3>1, <3>2
  <2>4. ota' => ~checked'
    BY <2>1, Zenon
  <2>5. QED
    BY <1>2, <2>1, <2>3, <2>4 DEF Timed
<1>5. QED
  BY <1>3, <1>4

\* Every step keeps Timed: what is waited for bounds the time that passes.
LEMMA TimedStep ==
  ASSUME Typed, Timed, [Next]_vars
  PROVE  Timed'
<1>1. CASE Pass
  <2>1. /\ check.left > 0 /\ now' = now + 1 /\ check' = [check EXCEPT !.left = @ - 1]
        /\ UNCHANGED <<entry, ota, checked>>
    BY <1>1 DEF Pass
  <2>2. /\ now \in Nat /\ check.left \in Nat /\ Check \in Nat /\ Timeout \in Nat /\ Hold \in Nat
        /\ check.snap # None => check.snap \in Nat
        /\ \A d \in Active : entry[d].seen \in Nat
    BY Constants DEF Typed, CheckState, Active, EntryState
  <2>3. check'.left = check.left - 1 /\ check'.snap = check.snap
    BY <2>1 DEF Typed, CheckState
  <2>4. now' + check'.left = now + check.left /\ check'.left <= check.left
    BY <2>1, <2>2, <2>3
  <2>5. QED
    BY <2>1, <2>2, <2>3, <2>4 DEF Timed, Active
<1>2. CASE StartScan \/ PauseForOta \/ Publish
           \/ (\E t \in Tag : TagRestart(t) \/ \E f \in Heard(t) : Reject(t, f))
           \/ UNCHANGED vars
  <2>1. UNCHANGED <<now, entry, check, checked, ota>>
    BY <1>2 DEF StartScan, PauseForOta, Publish, TagRestart, Reject, vars, tasks
  <2>2. QED
    BY <2>1 DEF Timed, Active
<1>3. CASE OtaBegins
  BY <1>3 DEF OtaBegins, Timed
<1>4. CASE OtaFails
  <2>1. UNCHANGED <<now, entry, check, checked>> /\ ~checked
    BY <1>4 DEF OtaFails, tasks, Timed
  <2>2. QED
    BY <2>1 DEF Timed
<1>5. CASE ScannerRestart
  <2>1. check'.snap = None /\ check'.left = 0 /\ entry' = NoEntry /\ ota' = FALSE
    BY <1>5 DEF ScannerRestart
  <2>2. Active' = {}
    BY <2>1 DEF Active, NoEntry
  <2>3. QED
    BY <2>1, <2>2, Constants DEF Timed
<1>6. QED
  BY <1>1, <1>2, <1>3, <1>4, <1>5, TimedHeard, TimedCheck DEF Next, Stop, Frequent

-----------------------------------------------------------------------------
(* Entries are of frames that were really sent. *)

\* An entry of a tag is of a frame, by its number and its time (bmt_beacon.c, s_sequence).
Framed ==
  \A t \in Active \cap Tag :
    /\ entry[t].seq = entry[t].frame % SeqMod
    /\ entry[t].life + entry[t].frame * Interval <= entry[t].seen
    /\ entry[t].seen - (entry[t].life + entry[t].frame * Interval) <= MaxAge

\* Every step keeps Framed.
LEMMA FramedStep ==
  ASSUME Typed, Framed, [Next]_vars
  PROVE  Framed'
<1>1. SUFFICES ASSUME NEW u \in Tag, u \in Active'
               PROVE  /\ entry'[u].seq = entry'[u].frame % SeqMod
                      /\ entry'[u].life + entry'[u].frame * Interval <= entry'[u].seen
                      /\ entry'[u].seen - (entry'[u].life + entry'[u].frame * Interval) <= MaxAge
  BY DEF Framed
<1>2. u \in Device /\ entry'[u] # None
  BY <1>1 DEF Active
<1>3. CASE entry'[u] = entry[u]
  BY <1>1, <1>2, <1>3 DEF Framed, Active
<1>4. ASSUME NEW t \in Tag, NEW f \in Heard(t), NEW e \in Candidates(t), Accept(t, f, e),
             entry'[u] # entry[u]
      PROVE  u = t /\ Renewed(entry'[u], f % SeqMod, boot[t], f)
  <2>1. Track(t, f % SeqMod, boot[t], f)
    BY <1>4 DEF Accept
  <2>2. f \in Nat /\ boot[t] \in Nat
    BY HeardFrame
  <2>3. QED
    BY <1>2, <1>4, <2>1, <2>2, SeqType, TrackEffect, Different
<1>5. CASE Frequent /\ entry'[u] # entry[u]
  <2>a. PICK t \in Tag : \E f \in Heard(t), e \in Candidates(t) : Accept(t, f, e)
    BY <1>5 DEF Frequent
  <2>1. PICK f \in Heard(t), e \in Candidates(t) : Accept(t, f, e)
    BY <2>a
  <2>2. u = t /\ Renewed(entry'[u], f % SeqMod, boot[t], f)
    BY <1>4, <1>5, <2>1
  <2>3. boot[t] + f * Interval <= now /\ now - (boot[t] + f * Interval) <= MaxAge
    BY HeardFrame
  <2>4. QED
    BY <2>2, <2>3 DEF Renewed
<1>6. CASE \E p \in Phone : HearPhone(p)
  <2>1. PICK p \in Phone : HearPhone(p)
    BY <1>6
  <2>2. Track(p, 0, 0, 0) /\ p \in Device /\ u # p
    BY <2>1, Different DEF HearPhone, Device
  <2>3. entry'[u] = entry[u]
    BY <1>2, <2>2, TrackEffect
  <2>4. QED
    BY <1>3, <2>3
<1>7. CASE CheckEnd
  BY <1>2, <1>3, <1>7, CheckTypes
<1>8. CASE ScannerRestart
  BY <1>2, <1>8 DEF ScannerRestart, NoEntry
<1>9. QED
  BY <1>3, <1>5, <1>6, <1>7, <1>8, EntriesLeft DEF Next, Stop, Frequent

\* At the start there is no entry.
LEMMA InitEntries == Init => Timed /\ Framed
<1> SUFFICES ASSUME Init  PROVE Timed /\ Framed
  OBVIOUS
<1>1. Active = {} /\ ota = FALSE /\ check.left = 0 /\ check.snap = None
  BY DEF Init, Active, NoEntry
<1>2. QED
  BY <1>1, Constants DEF Timed, Framed

\* The entries' times are invariant.
LEMMA EntryInvariant == Spec => [](Typed /\ Timed /\ Framed)
  BY InitTypes, InitEntries, TypedStep, TimedStep, FramedStep, PTL DEF Spec

\* As long as the time-outs run an entry is not older than Bound.
LEMMA NotStale ==
  ASSUME Typed, Timed, checked, NEW d \in Active
  PROVE  now - entry[d].seen <= Bound
<1>1. /\ now \in Nat /\ check.left \in Nat /\ Check \in Nat /\ Timeout \in Nat /\ Hold \in Nat
      /\ check.snap # None => check.snap \in Nat
      /\ entry[d].seen \in Nat
  BY Constants DEF Typed, CheckState, Active, EntryState
<1>2. CASE check.snap = None
  BY <1>1, <1>2 DEF Timed, Bound
<1>3. CASE check.snap # None
  BY <1>1, <1>3 DEF Timed, Bound
<1>4. QED
  BY <1>2, <1>3

\* MaxAge is a natural number: a frame is at least a moment old in the end.
LEMMA MaxAgeType == MaxAge \in Nat /\ Bound \in Nat
<1>1. Lag \in Nat /\ Interval \in Nat /\ Interval > 0
  BY Constants
<1>2. Lag * Interval \in Nat /\ MaxAge = Lag * Interval + Interval - 1
  BY <1>1 DEF MaxAge
<1>3. Bound \in Nat
  BY Constants DEF Bound
<1>4. QED
  BY <1>1, <1>2, <1>3

\* NoStaleReport: what the scanner reports was sent at most Bound + MaxAge ago.
THEOREM TagScannerNoStaleReport == Spec => []NoStaleReport
<1>1. ASSUME Typed, Timed, Framed  PROVE NoStaleReport
  <2>1. SUFFICES ASSUME checked, NEW d \in Published
                 PROVE  /\ now - entry[d].seen <= Bound
                        /\ d \in Tag => now - (entry[d].life + entry[d].frame * Interval)
                                          <= Bound + MaxAge
    BY DEF NoStaleReport
  <2>2. d \in Active /\ now - entry[d].seen <= Bound
    BY <1>1, <2>1, NotStale DEF Published
  <2>3. ASSUME d \in Tag
        PROVE  now - (entry[d].life + entry[d].frame * Interval) <= Bound + MaxAge
    <3> DEFINE sent == entry[d].life + entry[d].frame * Interval
    <3>1. entry[d].life \in Nat /\ entry[d].frame \in Nat /\ entry[d].seen \in Nat
          /\ now \in Nat /\ Interval \in Nat
      BY <1>1, <2>2, Constants DEF Typed, Active, EntryState
    <3>2. sent \in Nat
      <4>1. entry[d].frame * Interval \in Nat
        BY <3>1
      <4>2. QED
        BY <3>1, <4>1
    <3>3. entry[d].seen - sent <= MaxAge
      BY <1>1, <2>2, <2>3 DEF Framed
    <3> HIDE DEF sent
    <3>4. now - sent <= Bound + MaxAge
      BY <2>2, <3>1, <3>2, <3>3, MaxAgeType
    <3>5. QED
      BY <3>4 DEF sent
  <2>4. QED
    BY <2>2, <2>3
<1>2. QED
  BY <1>1, EntryInvariant, PTL

-----------------------------------------------------------------------------
(* Sequence numbers. *)

\* The signed difference of two sequence numbers is that of the frames, up to their overflow.
LEMMA DiffOfFrames ==
  ASSUME NEW f \in Nat, NEW g \in Nat
  PROVE  \E k \in Int : f - g = SeqMod * k + Diff(f % SeqMod, g % SeqMod)
<1> DEFINE a == f % SeqMod
           b == g % SeqMod
           c == (a - b) % SeqMod
           i == f \div SeqMod
           j == g \div SeqMod
           l == (a - b) \div SeqMod
<1>1. SeqMod \in Nat /\ SeqMod > 0
  BY Constants
<1>2. f = SeqMod * i + a /\ i \in Int /\ a \in 0..(SeqMod - 1)
  BY <1>1, Division
<1>3. g = SeqMod * j + b /\ j \in Int /\ b \in 0..(SeqMod - 1)
  BY <1>1, Division
<1>4. a - b = SeqMod * l + c /\ l \in Int /\ c \in 0..(SeqMod - 1)
  <2>1. a - b \in Int
    BY <1>2, <1>3
  <2>2. QED
    BY <1>1, <2>1, Division
<1>5. Diff(a, b) = c \/ Diff(a, b) = c - SeqMod
  BY <1>2, <1>3, DiffType
<1>6. SUFFICES \E k \in Int : f - g = SeqMod * k + Diff(a, b)
  OBVIOUS
<1> HIDE DEF a, b, c, i, j, l
<1>7. f - g = SeqMod * (i - j + l) + c
  <2>1. SeqMod * (i - j + l) = SeqMod * i - SeqMod * j + SeqMod * l
    BY <1>1, <1>2, <1>3, <1>4
  <2> DEFINE x == SeqMod * i
             y == SeqMod * j
             z == SeqMod * l
  <2>2. x \in Int /\ y \in Int /\ z \in Int
    BY <1>1, <1>2, <1>3, <1>4
  <2>3. f = x + a /\ g = y + b /\ a - b = z + c
    BY <1>2, <1>3, <1>4
  <2>4. SUFFICES f - g = x - y + z + c
    BY <2>1
  <2>5. a \in Int /\ b \in Int /\ c \in Int
    BY <1>1, <1>2, <1>3, <1>4
  <2> HIDE DEF x, y, z
  <2>6. QED
    BY <2>2, <2>3, <2>5
<1> DEFINE k == i - j + l
<1>8. k \in Int
  BY <1>2, <1>3, <1>4
<1>9. SeqMod * (k + 1) = SeqMod * k + SeqMod /\ SeqMod * k \in Int
  BY <1>1, <1>8
<1> HIDE DEF k
<1>10. CASE Diff(a, b) = c
  BY <1>7, <1>8, <1>10 DEF k
<1>11. CASE Diff(a, b) = c - SeqMod
  <2>1. f - g = SeqMod * k + c
    BY <1>7 DEF k
  <2>2. f - g = SeqMod * (k + 1) + Diff(a, b) /\ k + 1 \in Int
    BY <1>1, <1>4, <1>8, <1>9, <1>11, <2>1
  <2>3. QED
    BY <2>2
<1>12. QED
  BY <1>5, <1>10, <1>11

\* A multiple of SeqMod that is less than SeqMod either way is 0.
LEMMA NoMultiple ==
  ASSUME NEW k \in Int, NEW m \in Int, m = SeqMod * k
  PROVE  /\ m > 0 => m >= SeqMod
         /\ m < 0 => m <= -SeqMod
<1>1. SeqMod \in Nat /\ SeqMod > 0
  BY Constants
<1>2. k >= 1 => SeqMod * k >= SeqMod
  BY <1>1
<1>3. k <= -1 => SeqMod * k <= -SeqMod
  BY <1>1
<1>4. k = 0 => SeqMod * k = 0
  BY <1>1
<1>5. QED
  BY <1>1, <1>2, <1>3, <1>4

\* What the frame t was heard with does to its entry: its frame and the sequence number's part.
LEMMA AcceptEffect ==
  ASSUME Typed, Framed, NEW t \in Tag, NEW f \in Heard(t), NEW e, Accept(t, f, e), t \in Active
  PROVE  LET en == entry[t]  d == Diff(f % SeqMod, en.frame % SeqMod)
         IN  /\ d \in Int /\ 2 * d < SeqMod /\ 2 * d >= -SeqMod
             /\ \E k \in Int : f - en.frame = SeqMod * k + d
             /\ d < 0 /\ d > -Late => entry'[t] = en
             /\ ~(d < 0 /\ d > -Late) =>
                  /\ Renewed(entry'[t], f % SeqMod, boot[t], f)
                  /\ entry'[t].missed = en.missed + (IF d > 1 /\ d <= Jump THEN d - 1 ELSE 0)
<1>1. /\ entry[t] \in EntryState /\ entry[t].frame \in Nat /\ now \in Nat
      /\ entry[t].seq = entry[t].frame % SeqMod
  BY Constants, Different DEF Typed, Active, EntryState, Framed
<1>2. Track(t, f % SeqMod, boot[t], f) /\ t \in Device
  BY Different DEF Accept
<1>3. f \in Nat /\ boot[t] \in Nat /\ f % SeqMod \in Nat /\ entry[t].frame % SeqMod \in Nat
  BY <1>1, HeardFrame, SeqType
<1>4. entry'[t] = Updated(entry[t], f % SeqMod, boot[t], f)
  BY <1>2, <1>3, TrackEffect
<1> DEFINE a == f % SeqMod
           b == entry[t].frame % SeqMod
<1>5. /\ Diff(a, b) \in Int /\ 2 * Diff(a, b) < SeqMod /\ 2 * Diff(a, b) >= -SeqMod
      /\ \E k \in Int : f - entry[t].frame = SeqMod * k + Diff(a, b)
  BY <1>1, <1>3, DiffType, DiffOfFrames
<1>6. /\ Diff(a, b) < 0 /\ Diff(a, b) > -Late => entry'[t] = entry[t]
      /\ ~(Diff(a, b) < 0 /\ Diff(a, b) > -Late) =>
           /\ Renewed(entry'[t], a, boot[t], f)
           /\ entry'[t].missed = entry[t].missed
                + (IF Diff(a, b) > 1 /\ Diff(a, b) <= Jump THEN Diff(a, b) - 1 ELSE 0)
  <2> HIDE DEF a
  <2>1. a \in Nat /\ entry'[t] = Updated(entry[t], a, boot[t], f) /\ entry[t].seq = b
    BY <1>1, <1>3, <1>4 DEF a
  <2> DEFINE new == Updated(entry[t], a, boot[t], f)
             d == Diff(a, entry[t].seq)
  <2>2. /\ d < 0 /\ d > -Late => new = entry[t]
        /\ ~(d < 0 /\ d > -Late) =>
             /\ Renewed(new, a, boot[t], f)
             /\ new.missed = entry[t].missed + (IF d > 1 /\ d <= Jump THEN d - 1 ELSE 0)
    BY <1>1, <1>3, <2>1, UpdatedEntry
  <2>3. new = entry'[t] /\ d = Diff(a, b)
    BY <2>1
  <2> HIDE DEF b, new, d
  <2>4. QED
    BY <2>2, <2>3
<1>7. QED
  BY <1>5, <1>6

\* A frame of a running tag is at most Lag behind its entry's, and while the time-outs run not so
\* far ahead that its number would look like one a little behind.
LEMMA FrameGap ==
  ASSUME Typed, Framed, NEW t \in Tag, t \in Active, entry[t].life = boot[t], NEW f \in Heard(t)
  PROVE  /\ f - entry[t].frame >= -Lag
         /\ Timed /\ checked => f - entry[t].frame <= SeqMod - Late
<1> DEFINE g == entry[t].frame
           x == Interval * f
           y == Interval * g
<1>1. /\ Interval \in Nat /\ Interval > 0 /\ Lag \in Nat /\ Late \in Nat /\ SeqMod \in Nat
      /\ now \in Nat /\ g \in Nat /\ f \in Nat /\ boot[t] \in Nat /\ entry[t].seen \in Nat
      /\ entry[t].seen <= now
  BY Constants, HeardFrame DEF Typed, Active, EntryState
<1>2. /\ f * Interval = x /\ g * Interval = y /\ x \in Nat /\ y \in Nat
  BY <1>1
<1>3. boot[t] + x <= now /\ now - (boot[t] + x) <= MaxAge
  BY <1>2, HeardFrame
<1>4. boot[t] + y <= entry[t].seen /\ entry[t].seen - (boot[t] + y) <= MaxAge
  BY <1>2 DEF Framed
<1>5. f + Lag \in Int /\ g + (SeqMod - Late) \in Int
  BY <1>1
<1>6. Interval * (f + Lag + 1) = x + MaxAge + 1 /\ MaxAge \in Nat
  BY <1>1, MaxAgeType DEF MaxAge
<1>7. Interval * (g + (SeqMod - Late) + 1) = y + (SeqMod - Late + 1) * Interval
      /\ (SeqMod - Late + 1) * Interval \in Int
  BY <1>1
<1>8. Bound + MaxAge < (SeqMod - Late + 1) * Interval /\ Bound \in Nat
  BY Margins, MaxAgeType DEF Margins
<1> DEFINE w == (SeqMod - Late + 1) * Interval
<1>9. g <= f + Lag
  <2>1. y < x + MaxAge + 1
    <3> HIDE DEF x, y, g
    <3>1. QED
      BY <1>1, <1>2, <1>3, <1>4, <1>6
  <2>2. y < Interval * (f + Lag + 1)
    BY <1>6, <2>1
  <2>3. QED
    BY <1>1, <1>5, <2>2, Multiples
<1>10. ASSUME Timed, checked  PROVE f <= g + (SeqMod - Late)
  <2>1. now - entry[t].seen <= Bound
    BY <1>10, NotStale
  <2>2. x < y + w
    <3>1. w \in Int /\ Bound + MaxAge < w
      BY <1>7, <1>8
    <3> HIDE DEF x, y, w, g
    <3>2. QED
      BY <1>1, <1>2, <1>3, <1>4, <1>6, <1>8, <2>1, <3>1
  <2>3. x < Interval * (g + (SeqMod - Late) + 1)
    BY <1>7, <2>2
  <2>4. QED
    BY <1>1, <1>5, <2>3, Multiples
<1> HIDE DEF g
<1>11. QED
  BY <1>1, <1>9, <1>10 DEF g

\* HeardIsSeen: a newer frame of a running tag refreshes its entry (bmt_tag_table_update).
THEOREM TagScannerHeardIsSeen == Spec => HeardIsSeen
<1> DEFINE Seen == \A t \in Active \cap Tag : \A f \in Heard(t) :
                     Accept(t, f, FrameEpoch(f)) /\ checked /\ entry[t].life = boot[t]
                       /\ f >= entry[t].frame
                     => entry'[t] # None /\ entry'[t].seen = now
<1>1. ASSUME Typed, Timed, Framed  PROVE Seen
  <2>1. SUFFICES ASSUME NEW t \in Tag, t \in Active, NEW f \in Heard(t),
                        Accept(t, f, FrameEpoch(f)), checked, entry[t].life = boot[t],
                        f >= entry[t].frame
                 PROVE  entry'[t] # None /\ entry'[t].seen = now
    OBVIOUS
  <2> DEFINE d == Diff(f % SeqMod, entry[t].frame % SeqMod)
             gap == f - entry[t].frame
  <2>2. /\ d \in Int /\ \E k \in Int : gap = SeqMod * k + d
        /\ ~(d < 0 /\ d > -Late) => Renewed(entry'[t], f % SeqMod, boot[t], f)
    BY <1>1, <2>1, AcceptEffect
  <2>3. gap <= SeqMod - Late
    BY <1>1, <2>1, FrameGap
  <2>4. gap \in Int /\ gap >= 0 /\ SeqMod \in Nat /\ Late \in Nat
    <3>1. f \in Nat /\ entry[t].frame \in Nat
      BY <1>1, <2>1, HeardFrame DEF Typed, Active, EntryState
    <3>2. QED
      BY <2>1, <3>1, Constants
  <2> HIDE DEF d, gap
  <2>5. ~(d < 0 /\ d > -Late)
    <3>1. SUFFICES ASSUME d < 0, d > -Late  PROVE FALSE
      OBVIOUS
    <3>2. PICK k \in Int : gap = SeqMod * k + d
      BY <2>2
    <3> DEFINE m == SeqMod * k
    <3>3. m \in Int /\ gap = m + d
      BY <2>4, <3>2
    <3>4. m > 0 => m >= SeqMod
      BY <3>3, NoMultiple
    <3> HIDE DEF m
    <3>5. QED
      BY <2>2, <2>3, <2>4, <3>1, <3>3, <3>4
  <2>6. QED
    BY <2>2, <2>5, Different DEF Renewed
<1>2. QED
  BY <1>1, EntryInvariant, PTL DEF Spec, HeardIsSeen

\* LossIsCounted: what total_missed grows by are the frames between two that were heard
\* (bmt_tag_table_update), and never more than were sent.
THEOREM TagScannerLossIsCounted == Spec => LossIsCounted
<1> DEFINE Counted == \A t \in Tag : SameLife(t) =>
             LET gap == entry'[t].frame - entry[t].frame
                 lost == entry'[t].missed - entry[t].missed
             IN IF gap \in 1..Jump THEN lost = gap - 1 ELSE lost = 0 \/ (lost > 0 /\ lost < gap)
<1>1. ASSUME Typed, Framed, [Next]_vars  PROVE Counted
  <2>1. SUFFICES ASSUME NEW t \in Tag, SameLife(t)
                 PROVE  LET gap == entry'[t].frame - entry[t].frame
                            lost == entry'[t].missed - entry[t].missed
                        IN IF gap \in 1..Jump THEN lost = gap - 1
                           ELSE lost = 0 \/ (lost > 0 /\ lost < gap)
    OBVIOUS
  <2>2. /\ t \in Device /\ t \in Active /\ entry[t] \in EntryState /\ entry'[t] # None
        /\ entry[t].life = boot[t]
    BY <1>1, <2>1, Different DEF SameLife, Typed, Active
  <2>3. /\ entry[t].frame \in Nat /\ entry[t].missed \in Nat
        /\ Jump \in Nat /\ SeqMod \in Nat /\ Lag \in Nat
        /\ 2 * Jump < SeqMod /\ Lag + Jump < SeqMod
    BY <2>2, Constants, Margins DEF EntryState, Margins
  <2>4. CASE entry'[t] = entry[t]
    <3>1. entry'[t].frame - entry[t].frame = 0 /\ entry'[t].missed - entry[t].missed = 0
      BY <2>3, <2>4
    <3>2. QED
      BY <3>1
  <2>5. ASSUME NEW f \in Heard(t), NEW e \in Candidates(t), Accept(t, f, e), entry'[t] # entry[t]
        PROVE  LET gap == entry'[t].frame - entry[t].frame
                   lost == entry'[t].missed - entry[t].missed
               IN IF gap \in 1..Jump THEN lost = gap - 1 ELSE lost = 0 \/ (lost > 0 /\ lost < gap)
    <3> DEFINE d == Diff(f % SeqMod, entry[t].frame % SeqMod)
               gap == f - entry[t].frame
               lost == entry'[t].missed - entry[t].missed
    <3>1. /\ d \in Int /\ 2 * d < SeqMod /\ 2 * d >= -SeqMod
          /\ \E k \in Int : gap = SeqMod * k + d
          /\ Renewed(entry'[t], f % SeqMod, boot[t], f)
          /\ entry'[t].missed = entry[t].missed + (IF d > 1 /\ d <= Jump THEN d - 1 ELSE 0)
      BY <1>1, <2>2, <2>5, AcceptEffect
    <3>2. gap \in Int /\ gap >= -Lag
      <4>1. f \in Nat /\ gap >= -Lag
        BY <1>1, <2>2, HeardFrame, FrameGap
      <4>2. QED
        BY <2>3, <4>1
    <3>3. entry'[t].frame - entry[t].frame = gap
      BY <3>1 DEF Renewed
    <3>4. lost = IF d > 1 /\ d <= Jump THEN d - 1 ELSE 0
      <4>1. \A x \in Nat, y \in Int : (x + y) - x = y
        OBVIOUS
      <4>2. (IF d > 1 /\ d <= Jump THEN d - 1 ELSE 0) \in Int
        BY <3>1
      <4>3. QED
        BY <2>3, <3>1, <4>1, <4>2
    <3> HIDE DEF d, gap, lost
    <3>5. PICK k \in Int : gap = SeqMod * k + d
      BY <3>1
    <3> DEFINE m == SeqMod * k
    <3>6. m \in Int /\ gap = m + d /\ (m > 0 => m >= SeqMod) /\ (m < 0 => m <= -SeqMod)
      BY <2>3, <3>5, NoMultiple
    <3> HIDE DEF m
    <3>7. gap \in 1..Jump => d = gap
      BY <2>3, <3>1, <3>2, <3>6
    <3>8. d > 1 /\ d <= Jump => gap >= d
      BY <2>3, <3>1, <3>2, <3>6
    <3>9. IF gap \in 1..Jump THEN lost = gap - 1 ELSE lost = 0 \/ (lost > 0 /\ lost < gap)
      BY <2>3, <3>1, <3>2, <3>4, <3>7, <3>8
    <3>10. QED
      BY <3>3, <3>9 DEF lost
  <2>6. ASSUME NEW u \in Tag, u # t, NEW f \in Heard(u), NEW e \in Candidates(u), Accept(u, f, e)
        PROVE  entry'[t] = entry[t]
    <3>1. Track(u, f % SeqMod, boot[u], f) /\ f \in Nat /\ boot[u] \in Nat
      BY <1>1, <2>6, HeardFrame DEF Accept
    <3>2. QED
      BY <1>1, <2>2, <2>6, <3>1, SeqType, TrackEffect, Different
  <2>7. ASSUME NEW p \in Phone, HearPhone(p)  PROVE entry'[t] = entry[t]
    <3>1. Track(p, 0, 0, 0) /\ p \in Device /\ p # t
      BY <2>7, Different DEF HearPhone, Device
    <3>2. QED
      BY <1>1, <2>2, <3>1, TrackEffect
  <2>8. CASE CheckEnd
    <3>1. entry'[t] = entry[t]
      BY <1>1, <2>2, <2>8, CheckTypes
    <3>2. QED
      BY <2>4, <3>1
  <2>9. CASE ScannerRestart
    BY <2>2, <2>9 DEF ScannerRestart, NoEntry
  <2>10. QED
    BY <1>1, <2>4, <2>5, <2>6, <2>7, <2>8, <2>9, EntriesLeft DEF Next, Stop
<1>2. QED
  BY <1>1, EntryInvariant, PTL DEF Spec, LossIsCounted

-----------------------------------------------------------------------------
(* Epochs. *)

\* Of two times that are D apart, give or take M, the epochs are as far apart as D has of them,
\* give or take one, unless D ends with less than M to go to another (bmt_auth_verify_tag).
LEMMA TicksApart ==
  ASSUME NEW b \in Nat, NEW c \in Nat, NEW D \in Nat, NEW M \in Nat,
         c - b <= D + M, c - b >= D - M, (D % Tick) + M <= Tick
  PROVE  \E d \in -1..1 : c \div Tick = (b \div Tick) + (D \div Tick) + d
<1> DEFINE B == b \div Tick
           C == c \div Tick
           q == D \div Tick
           r == D % Tick
           x == b % Tick
           y == c % Tick
           TB == Tick * B
           TC == Tick * C
           TQ == Tick * q
<1>1. Tick \in Nat /\ Tick > 0
  BY Constants
<1>2. b = TB + x /\ B \in Int /\ x \in 0..(Tick - 1)
  BY <1>1, Division
<1>3. c = TC + y /\ C \in Int /\ y \in 0..(Tick - 1)
  BY <1>1, Division
<1>4. D = TQ + r /\ q \in Int /\ r \in 0..(Tick - 1) /\ r + M <= Tick
  BY <1>1, Division
<1>5. TB \in Int /\ TC \in Int /\ TQ \in Int
  BY <1>1, <1>2, <1>3, <1>4
<1>6. /\ Tick * (B + q + 1 + 1) = TB + TQ + Tick + Tick
      /\ Tick * (B + q - 1) = TB + TQ - Tick
      /\ Tick * (C + 1) = TC + Tick
      /\ B + q + 1 \in Int /\ B + q - 1 \in Int
  BY <1>1, <1>2, <1>3, <1>4
<1>7. SUFFICES \E d \in -1..1 : C = B + q + d
  OBVIOUS
<1>8. TC < TB + TQ + Tick + Tick /\ TB + TQ - Tick < TC + Tick
  <2> HIDE DEF B, C, q, r, x, y, TB, TC, TQ
  <2>1. QED
    BY <1>1, <1>2, <1>3, <1>4, <1>5
<1>9. C <= B + q + 1
  <2>1. Tick * C < Tick * (B + q + 1 + 1)
    BY <1>6, <1>8
  <2>2. QED
    BY <1>1, <1>3, <1>6, <2>1, Multiples
<1>10. B + q - 1 <= C
  <2>1. Tick * (B + q - 1) < Tick * (C + 1)
    BY <1>6, <1>8
  <2>2. QED
    BY <1>1, <1>3, <1>6, <2>1, Multiples
<1> HIDE DEF B, C, q
<1>11. C - B - q \in -1..1 /\ C = B + q + (C - B - q)
  BY <1>2, <1>3, <1>4, <1>9, <1>10
<1>12. QED
  BY <1>11

\* So the prediction of the epoch is one off at most.
LEMMA EpochsApart ==
  ASSUME NEW b \in Nat, NEW c \in Nat, NEW D \in Nat, NEW M \in Nat,
         c - b <= D + M, c - b >= D - M, (D % Tick) + M <= Tick
  PROVE  \E d \in -1..1 :
           EpochAt(c) = (((EpochAt(b) + D \div Tick) % EpochMod) + d) % EpochMod
<1> DEFINE B == b \div Tick
           C == c \div Tick
           q == D \div Tick
           e == B % EpochMod
           k == B \div EpochMod
           P == (e + q) % EpochMod
           l == (e + q) \div EpochMod
<1>1. Tick \in Nat /\ Tick > 0 /\ EpochMod \in Nat /\ EpochMod > 0
  BY Constants
<1>2. B \in Int /\ C \in Int /\ q \in Int
  BY <1>1, Division
<1>3. PICK d \in -1..1 : C = B + q + d
  BY TicksApart
<1>4. B = EpochMod * k + e /\ k \in Int /\ e \in Int
  BY <1>1, <1>2, Division
<1>5. e + q = EpochMod * l + P /\ l \in Int /\ P \in Int
  <2>1. e + q \in Int
    BY <1>2, <1>4
  <2>2. QED
    BY <1>1, <2>1, Division
<1>6. EpochAt(c) = C % EpochMod /\ EpochAt(b) = e
  BY DEF EpochAt
<1>7. SUFFICES C % EpochMod = (P + d) % EpochMod
  BY <1>6
<1> HIDE DEF B, C, q, e, k, P, l
<1>8. C = (P + d) + EpochMod * (k + l)
  <2> DEFINE x == EpochMod * k
             z == EpochMod * l
  <2>1. EpochMod * (k + l) = x + z /\ x \in Int /\ z \in Int
    BY <1>1, <1>4, <1>5
  <2>2. B = x + e /\ e + q = z + P
    BY <1>4, <1>5
  <2>3. SUFFICES C = (P + d) + (x + z)
    BY <2>1
  <2> HIDE DEF x, z
  <2>4. QED
    BY <1>2, <1>3, <1>4, <1>5, <2>1, <2>2
<1>9. P + d \in Int /\ k + l \in Int
  BY <1>4, <1>5
<1>10. QED
  BY <1>1, <1>2, <1>8, <1>9, SameRemainder

\* What was locked on rightly is the epoch of a time of the tag at most MaxAge before.
Locked ==
  \A t \in Tag : lock[t] # None /\ lock[t].right /\ lock[t].life = boot[t] =>
    \E b \in Nat : /\ boot[t] + b <= lock[t].at /\ lock[t].at - (boot[t] + b) <= MaxAge
                   /\ lock[t].epoch = EpochAt(b)

\* Every step keeps Locked.
LEMMA LockedStep ==
  ASSUME Typed, Locked, [Next]_vars
  PROVE  Locked'
<1>0. /\ lock \in [Tag -> LockState \cup {None}] /\ boot \in [Tag -> 0..(MaxTime + 1)]
      /\ now \in Nat
  BY Constants DEF Typed
<1>1. SUFFICES ASSUME NEW u \in Tag, lock'[u] # None, lock'[u].right, lock'[u].life = boot'[u]
               PROVE  \E b \in Nat : /\ boot'[u] + b <= lock'[u].at
                                     /\ lock'[u].at - (boot'[u] + b) <= MaxAge
                                     /\ lock'[u].epoch = EpochAt(b)
  BY DEF Locked, EpochAt
<1>2. CASE UNCHANGED <<lock, boot>>
  BY <1>1, <1>2 DEF Locked
<1>3. ASSUME NEW t \in Tag, TagRestart(t)
      PROVE  \E b \in Nat : /\ boot'[u] + b <= lock'[u].at
                            /\ lock'[u].at - (boot'[u] + b) <= MaxAge
                            /\ lock'[u].epoch = EpochAt(b)
  <2>1. boot' = [boot EXCEPT ![t] = now + 1] /\ lock' = lock
    BY <1>3 DEF TagRestart, auth
  <2>2. lock[u] \in LockState /\ lock[u].life <= lock[u].at /\ lock[u].at <= now
    BY <1>0, <1>1, <2>1 DEF Typed
  <2>3. lock[u].life \in Nat /\ lock[u].at \in Nat
    BY <2>2 DEF LockState
  <2>4. u # t
    <3>1. lock[u].life # now + 1
      BY <1>0, <2>2, <2>3
    <3>2. QED
      BY <1>0, <1>1, <2>1, <3>1
  <2>5. boot'[u] = boot[u]
    BY <1>0, <2>1, <2>4
  <2>6. QED
    BY <1>1, <2>1, <2>5 DEF Locked
<1>4. ASSUME NEW t \in Tag, NEW f \in Heard(t), NEW e \in Candidates(t), Accept(t, f, e)
      PROVE  \E b \in Nat : /\ boot'[u] + b <= lock'[u].at
                            /\ lock'[u].at - (boot'[u] + b) <= MaxAge
                            /\ lock'[u].epoch = EpochAt(b)
  <2> DEFINE r == [epoch |-> e, at |-> now, life |-> boot[t], right |-> e = FrameEpoch(f)]
  <2>1. /\ boot' = boot
        /\ lock' = IF t \in slots' THEN [lock EXCEPT ![t] = r] ELSE lock
    BY <1>4 DEF Accept
  <2>2. /\ r.epoch = e /\ r.at = now /\ (r.right <=> e = FrameEpoch(f))
    OBVIOUS
  <2> HIDE DEF r
  <2>3. CASE lock'[u] = lock[u]
    BY <1>1, <2>1, <2>3 DEF Locked
  <2>4. CASE lock'[u] # lock[u]
    <3>1. u = t /\ lock'[u] = r
      BY <1>0, <2>1, <2>4
    <3>2. e = EpochAt(f * Interval)
      BY <1>1, <2>2, <3>1 DEF FrameEpoch
    <3>3. /\ boot[t] + f * Interval <= now /\ now - (boot[t] + f * Interval) <= MaxAge
          /\ f \in Nat
      BY HeardFrame
    <3>4. f * Interval \in Nat
      BY <3>3, Constants
    <3>5. QED
      BY <2>1, <2>2, <3>1, <3>2, <3>3, <3>4
  <2>5. QED
    BY <2>3, <2>4
<1>5. CASE ScannerRestart
  BY <1>1, <1>5 DEF ScannerRestart
<1>6. CASE \/ StartScan \/ PauseForOta \/ Publish \/ CheckBegin \/ OtaBegins \/ OtaFails \/ Pass
           \/ CheckEnd \/ (\E p \in Phone : HearPhone(p))
           \/ (\E t \in Tag : \E f \in Heard(t) : Reject(t, f))
           \/ UNCHANGED vars
  <2>1. UNCHANGED <<lock, boot>>
    BY <1>6 DEF StartScan, PauseForOta, Publish, CheckBegin, OtaBegins, OtaFails, Pass,
         CheckEnd, HearPhone, Reject, vars, auth
  <2>2. QED
    BY <1>2, <2>1
<1>7. QED
  BY <1>3, <1>4, <1>5, <1>6 DEF Next, Stop

\* NeverLockedOut: once the scanner has taken a frame of a tag's start for what it is, it takes
\* every later one, whenever and whatever the epoch.
THEOREM TagScannerNeverLockedOut == Spec => []NeverLockedOut
<1>1. ASSUME Typed, Locked  PROVE NeverLockedOut
  <2>1. SUFFICES ASSUME NEW t \in Tag, NEW f \in Heard(t), lock[t] # None, lock[t].right,
                        lock[t].life = boot[t], ~Edge(t)
                 PROVE  FrameEpoch(f) \in Candidates(t)
    BY DEF NeverLockedOut
  <2> DEFINE D == now - lock[t].at
             c == f * Interval
  <2>2. lock[t] \in LockState /\ lock[t].at \in Nat /\ now \in Nat /\ lock[t].at <= now
    BY <1>1, <2>1, Constants DEF Typed, LockState
  <2>3. /\ c \in Nat /\ boot[t] \in Nat /\ boot[t] + c <= now /\ now - (boot[t] + c) <= MaxAge
    <3>1. f \in Nat /\ Interval \in Nat
      BY <1>1, HeardFrame, Constants
    <3>2. c \in Nat
      BY <3>1
    <3>3. QED
      BY <1>1, <3>2, HeardFrame
  <2>4. PICK b \in Nat : /\ boot[t] + b <= lock[t].at /\ lock[t].at - (boot[t] + b) <= MaxAge
                         /\ lock[t].epoch = EpochAt(b)
    BY <1>1, <2>1 DEF Locked
  <2>5. FrameEpoch(f) = EpochAt(c)
    BY DEF FrameEpoch
  <2>6. D \in Nat /\ MaxAge \in Nat /\ (D % Tick) + MaxAge <= Tick
    <3>1. D \in Nat
      BY <2>2
    <3>2. D % Tick \in Int /\ Tick \in Nat
      BY <3>1, Constants, Division
    <3>3. QED
      BY <2>1, <3>1, <3>2, MaxAgeType DEF Edge
  <2>7. c - b <= D + MaxAge /\ c - b >= D - MaxAge
    <3> HIDE DEF c
    <3>1. QED
      BY <2>2, <2>3, <2>4, <2>6
  <2>8. Predicted(t) = (EpochAt(b) + D \div Tick) % EpochMod
    BY <2>4 DEF Predicted
  <2>9. PICK d \in -1..1 :
          EpochAt(c) = (((EpochAt(b) + D \div Tick) % EpochMod) + d) % EpochMod
    <3> HIDE DEF c, D
    <3>1. QED
      BY <2>3, <2>4, <2>6, <2>7, EpochsApart
  <2>10. QED
    BY <2>1, <2>5, <2>8, <2>9 DEF Candidates, Narrow
<1>2. Init => Locked
  BY DEF Init, Locked
<1>3. Spec => [](Typed /\ Locked)
  BY <1>2, InitTypes, TypedStep, LockedStep, PTL DEF Spec
<1>4. QED
  BY <1>1, <1>3, PTL
=============================================================================

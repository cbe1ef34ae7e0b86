--------------------------- MODULE RegistryProofs ---------------------------
(***************************************************************************)
(* Proofs about Registry, for every set of names and requests, every       *)
(* number of regions and every bound.                                      *)
(***************************************************************************)
EXTENDS Registry, TLAPS

(***************************************************************************)
(* The map and the pass over it.  Type correctness is not inductive by     *)
(* itself: Visit reads the words of by_name[n], so the names a pass has    *)
(* still to visit must be registered.                                      *)
(***************************************************************************)

(* The clock keeps its entry, entries have ids that were handed out, and   *)
(* no two names share one.                                                 *)
MapInv ==
    /\ by_name["clock"] = ClockId
    /\ \A n \in AllNames : by_name[n] \in Allocated \cup {NoId}
    /\ \A m, n \in AllNames : by_name[m] = by_name[n] /\ by_name[m] # NoId => m = n

(* The names of the pass are registered; each is visited once. *)
SweepInv ==
    /\ phase # "visit" => todo = {} /\ to_remove = {} /\ visiting = NoName
    /\ \A n \in todo \cup to_remove : Registered(n)
    /\ visiting # NoName => Registered(visiting)
    /\ todo \cap to_remove = {} /\ visiting \notin todo \cup to_remove

(* What create has validated. *)
GoodEntry(e) ==
    /\ e.tier = "WaitCounter" => e.watched_name \in AllNames
    /\ e.tier = "WaitCron" => e.interval_ms >= 1 /\ MaxTime + e.interval_ms <= MaxCount

EntryInv == \A i \in Ids : GoodEntry(entry[i])

BaseInv == TypeOK /\ MapInv /\ SweepInv /\ EntryInv

(* The assumptions on the constants, in the form the proofs use them. *)
LEMMA Constants ==
    /\ SENTINEL \in Nat /\ Word = 0 .. SENTINEL
    /\ MaxTime \in Nat /\ MaxCount \in Nat /\ MaxTime <= MaxCount /\ MaxCount < SENTINEL
    /\ 1 <= MaxCount
    /\ MaxId \in Nat /\ ClockId \in Ids /\ NoId \notin Ids
    /\ "clock" \in AllNames /\ "clock" \notin Names /\ Names \subseteq AllNames
    /\ NoName \notin AllNames
    /\ SENTINEL \in Word /\ 0 \in Word /\ 1 \in Word
BY WordAssumption, RegistryAssumption DEF Word, Ids, ClockId, NoId, AllNames

LEMMA ReapedType ==
    ASSUME NEW w \in [Ids -> Word], NEW ids PROVE Reaped(w, ids) \in [Ids -> Word]
BY Constants DEF Reaped

(* A millisecond reading is a time too. *)
LEMMA MsType ==
    ASSUME NEW t \in 0 .. MaxTime
    PROVE  t \div NANOS_PER_MS \in 0 .. MaxTime /\ t \div NANOS_PER_MS \in Word
<1>1. t \in Nat /\ t <= MaxTime /\ NANOS_PER_MS \in Nat /\ NANOS_PER_MS >= 1
  BY RegistryAssumption
<1>2. t \div NANOS_PER_MS \in Nat /\ t \div NANOS_PER_MS <= t
  BY <1>1
<1> QED BY <1>1, <1>2, Constants

LEMMA NextLineType ==
    ASSUME NEW c \in Nat, NEW k \in Nat PROVE k >= 1 => next_line(c, k) \in Word
<1> SUFFICES ASSUME k >= 1 PROVE next_line(c, k) \in Word
  OBVIOUS
<1>1. c \div k \in Nat
  OBVIOUS
<1>2. ((c \div k) + 1) * k \in Nat
  BY <1>1
<1> QED BY <1>2, Constants DEF next_line, Word

LEMMA RequestType ==
    ASSUME NEW r \in Requests
    PROVE  /\ r.name \in AllNames /\ r.tier \in Tiers
           /\ r.watched_name \in AllNames \cup {NoName}
           /\ r.interval_ns \in Nat /\ MaxTime + r.interval_ns <= MaxCount
           /\ r.interval_ns \div NANOS_PER_MS \in Nat
           /\ r.interval_ns \div NANOS_PER_MS <= r.interval_ns
           /\ r.conditions \subseteq [name : AllNames, threshold : Word,
                                       word : WatchedWords \cup {"invalid"}]
<1>1. r.interval_ns \in Nat /\ NANOS_PER_MS \in Nat /\ NANOS_PER_MS >= 1
  BY RegistryAssumption
<1> QED BY <1>1, RegistryAssumption

LEMMA NewEntryType ==
    ASSUME TypeOK, NEW r \in Requests, Valid(r)
    PROVE  NewEntry(r) \in Entries /\ GoodEntry(NewEntry(r))
<1> DEFINE e == NewEntry(r)
<1>1. e.tier = r.tier /\ e.tier \in Tiers
  BY RequestType DEF NewEntry
<1>2. e.watched_name \in AllNames \cup {NoName} /\ e.watched_word \in WatchedWords
  BY RequestType, Constants DEF NewEntry, Valid, WatchedWords
<1>3. e.interval_ms \in Nat /\ (e.tier = "WaitCron" => /\ e.interval_ms >= 1
                                                    /\ MaxTime + e.interval_ms <= MaxCount)
  BY RequestType, Constants DEF NewEntry, Valid
<1>4. e.conditions \subseteq Condition
  <2>1. CASE r.tier = "WaitBarrier"
    <3>1. \A c \in r.conditions : c.word \in WatchedWords
      BY <2>1 DEF Valid
    <3> QED BY <2>1, <3>1, RequestType DEF NewEntry, Condition
  <2> QED BY <2>1 DEF NewEntry
<1>5. e = [tier |-> e.tier, watched_name |-> e.watched_name, watched_word |-> e.watched_word,
           interval_ms |-> e.interval_ms, conditions |-> e.conditions]
  BY DEF NewEntry
<1>7. e.tier = "WaitCounter" => e.watched_name \in AllNames
  BY DEF NewEntry, Valid
<1> HIDE DEF e
<1>6. e \in Entries
  BY <1>1, <1>2, <1>3, <1>4, <1>5 DEF Entries
<1> QED BY <1>3, <1>6, <1>7 DEF e, GoodEntry

LEMMA InitBase == Init => BaseInv
<1> SUFFICES ASSUME Init PROVE BaseInv
  OBVIOUS
<1>1. now \in 0 .. MaxTime
  BY RegistryAssumption DEF Init
<1>2. now \div NANOS_PER_MS \in Word
  BY <1>1, MsType
<1>3. now + LargerOf(CREATION_TTL_NANOS, CLOCK_TTL_NANOS) \in Word
  BY <1>1, RegistryAssumption, Constants DEF LargerOf
<1>4. open \in [Ids -> Word] /\ closed \in [Ids -> Word] /\ exp \in [Ids -> Word]
  BY <1>2, <1>3, Constants DEF Init
<1>5. PlainEntry \in Entries
  BY DEF PlainEntry, Entries, Tiers, WatchedWords
<1>6. entry \in [Ids -> Entries]
  BY <1>5 DEF Init
<1>7. by_name \in [AllNames -> Ids \cup {NoId}] /\ snap \in [open : Word, closed : Word, exp : Word]
  BY Constants DEF Init, NoSnap
<1>8. TypeOK
  BY <1>1, <1>4, <1>6, <1>7, Constants DEF Init, TypeOK
<1>9. MapInv
  BY Constants DEF Init, MapInv, Allocated, ClockId, NoId
<1>10. SweepInv
  BY Constants DEF Init, SweepInv
<1>11. EntryInv
  BY DEF Init, EntryInv, GoodEntry, PlainEntry
<1> QED BY <1>8, <1>9, <1>10, <1>11 DEF BaseInv

LEMMA InsertStep ==
    ASSUME BaseInv, NEW r \in Requests, Insert(r)
    PROVE  /\ by_name' \in [AllNames -> Ids \cup {NoId}]
           /\ next_id' \in 1 .. (MaxId + 1) /\ next_id \in Ids /\ next_id >= 1
           /\ entry' \in [Ids -> Entries]
           /\ open' \in [Ids -> Word] /\ closed' \in [Ids -> Word] /\ exp' \in [Ids -> Word]
           /\ MapInv' /\ EntryInv'
<1>0. TypeOK /\ MapInv /\ EntryInv
  BY DEF BaseInv
<1>1. next_id \in Ids /\ next_id >= 1 /\ next_id' = next_id + 1 /\ next_id' \in 1 .. (MaxId + 1)
  BY <1>0, RegistryAssumption DEF Insert, TypeOK, Ids
<1>2. by_name' = [by_name EXCEPT ![r.name] = next_id] /\ r.name \in AllNames /\ r.name # "clock"
  BY RequestType DEF Insert, Valid
<1>3. by_name' \in [AllNames -> Ids \cup {NoId}]
  BY <1>0, <1>1, <1>2 DEF TypeOK
<1>4. entry' \in [Ids -> Entries] /\ EntryInv'
  <2>1. entry' = [entry EXCEPT ![next_id] = NewEntry(r)] /\ Valid(r)
    BY DEF Insert
  <2>2. entry' \in [Ids -> Entries]
    BY <1>0, <1>1, <2>1, NewEntryType DEF TypeOK
  <2>3. \A i \in Ids : entry'[i] = IF i = next_id THEN NewEntry(r) ELSE entry[i]
    BY <1>0, <1>1, <2>1 DEF TypeOK
  <2>4. \A i \in Ids : GoodEntry(entry'[i])
    BY <1>0, <2>1, <2>3, NewEntryType DEF EntryInv
  <2> QED BY <2>2, <2>4 DEF EntryInv, GoodEntry
<1>5. open[ClockId] \in Word /\ open[ClockId] \in Nat
  BY <1>0, Constants DEF TypeOK
<1>6. InitialOpen(NewEntry(r), open[ClockId]) \in Word
  <2>1. NewEntry(r).interval_ms \in Nat
    BY <1>0, NewEntryType DEF Insert, Entries
  <2>2. NewEntry(r).tier = "WaitCron" => NewEntry(r).interval_ms >= 1
    BY <1>0, NewEntryType DEF Insert, GoodEntry
  <2> QED BY <1>5, <2>1, <2>2, NextLineType, Constants DEF InitialOpen
<1>7. InitialClosed(NewEntry(r), open[ClockId]) \in Word
  BY <1>5, Constants DEF InitialClosed
<1>8. now + CREATION_TTL_NANOS \in Word
  <2>1. now \in 0 .. MaxTime
    BY <1>0 DEF TypeOK
  <2> QED BY <2>1, RegistryAssumption, Constants
<1>9. open' \in [Ids -> Word] /\ closed' \in [Ids -> Word] /\ exp' \in [Ids -> Word]
  <2> DEFINE old == {by_name[r.name]} \ {NoId}
  <2>1. /\ Reaped(open, old) \in [Ids -> Word] /\ Reaped(closed, old) \in [Ids -> Word]
        /\ Reaped(exp, old) \in [Ids -> Word]
    BY <1>0, ReapedType DEF TypeOK
  <2> HIDE DEF old
  <2>2. /\ open' = [Reaped(open, old) EXCEPT ![next_id] = InitialOpen(NewEntry(r), open[ClockId])]
        /\ closed' = [Reaped(closed, old) EXCEPT
                         ![next_id] = InitialClosed(NewEntry(r), open[ClockId])]
        /\ exp' = [Reaped(exp, old) EXCEPT ![next_id] = now + CREATION_TTL_NANOS]
    BY DEF Insert, old
  <2> QED BY <1>1, <1>6, <1>7, <1>8, <2>1, <2>2
<1>10. MapInv'
  <2>1. by_name'["clock"] = ClockId
    BY <1>0, <1>2, Constants DEF MapInv, TypeOK
  <2>2. next_id \notin Allocated /\ next_id # NoId /\ Allocated' = Allocated \cup {next_id}
    BY <1>1 DEF Allocated, NoId, Ids
  <2>3. \A n \in AllNames : by_name'[n] = IF n = r.name THEN next_id ELSE by_name[n]
    BY <1>0, <1>2 DEF TypeOK
  <2>4. \A n \in AllNames : by_name[n] \in Allocated \cup {NoId}
    BY <1>0 DEF MapInv
  <2>5. \A n \in AllNames : by_name'[n] \in Allocated' \cup {NoId}
    BY <2>2, <2>3, <2>4
  <2>6. ASSUME NEW m \in AllNames, NEW n \in AllNames, by_name'[m] = by_name'[n],
               by_name'[m] # NoId
        PROVE  m = n
    BY <1>0, <2>2, <2>3, <2>4, <2>6 DEF MapInv
  <2> QED BY <2>1, <2>5, <2>6 DEF MapInv
<1> QED BY <1>1, <1>3, <1>4, <1>9, <1>10

LEMMA RequestBase == ASSUME BaseInv, RequestStep PROVE BaseInv'
<1>0. TypeOK /\ MapInv /\ SweepInv /\ EntryInv
  BY DEF BaseInv
<1>1. ASSUME NEW r \in Requests, CreateInterlock(r) PROVE BaseInv'
  <2>1. Insert(r) /\ UNCHANGED <<now, attached, phase, pass>> /\ phase = "poll"
        /\ (held' = held \cup {next_id} \/ held' = held)
    BY <1>1 DEF CreateInterlock
  <2>2. Allocated' = Allocated \cup {next_id}
    BY <1>0, <2>1, InsertStep DEF Insert, Allocated, TypeOK
  <2>3. held' \in SUBSET Allocated' /\ attached' \in SUBSET Allocated'
    BY <1>0, <2>1, <2>2 DEF TypeOK
  <2>4. TypeOK'
    BY <1>0, <2>1, <2>3, InsertStep DEF TypeOK, pass
  <2>5. SweepInv'
    BY <1>0, <2>1 DEF SweepInv, pass
  <2> QED BY <2>1, <2>4, <2>5, InsertStep DEF BaseInv
<1>2. ASSUME NEW r \in Requests, CreateFails(r) PROVE BaseInv'
  BY <1>0, <1>2 DEF CreateFails, BaseInv, TypeOK, MapInv, SweepInv, EntryInv, GoodEntry,
                    Registered, Allocated, vars
<1>3. ASSUME NEW n \in Names, AttachInterlock(n) PROVE BaseInv'
  <2>1. attached' \in SUBSET Allocated
    <3>1. by_name[n] \in Allocated \cup {NoId} /\ attached \in SUBSET Allocated
      BY <1>0, Constants DEF MapInv, TypeOK
    <3> QED BY <1>3, <3>1 DEF AttachInterlock
  <2>2. UNCHANGED <<now, map, words, held, phase, pass>>
    BY <1>3 DEF AttachInterlock
  <2> QED
    BY <1>0, <2>1, <2>2 DEF BaseInv, TypeOK, MapInv, SweepInv, EntryInv, GoodEntry,
                            Registered, Allocated, map, words, pass
<1> QED BY <1>1, <1>2, <1>3 DEF RequestStep

(* What the daemon reads while visiting an entry. *)
LEMMA VisitingId ==
    ASSUME BaseInv, visiting # NoName
    PROVE  /\ visiting \in Names /\ visiting \in AllNames /\ phase = "visit"
           /\ by_name[visiting] \in Ids /\ by_name[visiting] \in Allocated
           /\ by_name[visiting] # ClockId
           /\ entry[by_name[visiting]] \in Entries
<1>1. visiting \in Names /\ visiting \in AllNames /\ phase = "visit"
  BY Constants DEF BaseInv, TypeOK, SweepInv
<1>2. by_name[visiting] # NoId /\ by_name[visiting] \in Ids /\ by_name[visiting] \in Allocated
  BY <1>1 DEF BaseInv, TypeOK, MapInv, SweepInv, Registered
<1>3. by_name[visiting] # ClockId
  BY <1>1, <1>2, Constants DEF BaseInv, MapInv
<1> QED BY <1>1, <1>2, <1>3 DEF BaseInv, TypeOK

(* The words a watcher reads, and what it is handed. *)
LEMMA DeliveryType ==
    ASSUME BaseInv, visiting # NoName, Due(entry[by_name[visiting]])
    PROVE  Delivery(entry[by_name[visiting]]) \in Word
<1> DEFINE e == entry[by_name[visiting]]
<1>1. CASE e.tier = "WaitCounter"
  <2>1. Registered(e.watched_name)
    BY <1>1 DEF Due
  <2>2. e.watched_name \in AllNames
    BY <1>1, VisitingId DEF BaseInv, EntryInv, GoodEntry
  <2>3. by_name[e.watched_name] \in Ids
    BY <2>1, <2>2 DEF Registered, BaseInv, TypeOK
  <2> QED BY <1>1, <2>3 DEF Delivery, WatchedValue, BaseInv, TypeOK
<1>2. CASE e.tier # "WaitCounter"
  BY <1>2, Constants DEF Delivery, BaseInv, TypeOK
<1> QED BY <1>1, <1>2

LEMMA DaemonBase == ASSUME BaseInv, DaemonStep PROVE BaseInv'
<1>0. TypeOK /\ MapInv /\ SweepInv /\ EntryInv
  BY DEF BaseInv
<1> USE DEF BaseInv
<1>1. CASE AdvanceClock
  <2>1. now \div NANOS_PER_MS \in 0 .. MaxTime /\ now \div NANOS_PER_MS \in Word
    BY <1>0, MsType DEF TypeOK
  <2>2. TypeOK'
    BY <1>0, <1>1, <2>1 DEF AdvanceClock, TypeOK, map, grants, Allocated
  <2>3. MapInv' /\ EntryInv'
    BY <1>0, <1>1 DEF AdvanceClock, MapInv, EntryInv, GoodEntry, map, Allocated
  <2>4. SweepInv'
    BY <1>0, <1>1 DEF AdvanceClock, SweepInv, Registered, map
  <2> QED BY <2>2, <2>3, <2>4
<1>2. CASE EvaluateAll
  <2>2. TypeOK'
    BY <1>0, <1>2 DEF EvaluateAll, TypeOK, map, grants, words, Allocated
  <2>3. MapInv' /\ EntryInv'
    BY <1>0, <1>2 DEF EvaluateAll, MapInv, EntryInv, GoodEntry, map, Allocated
  <2>4. SweepInv'
    BY <1>0, <1>2, Constants DEF EvaluateAll, SweepInv, Registered, map
  <2> QED BY <2>2, <2>3, <2>4
<1>3. ASSUME NEW n \in Names, Visit(n) PROVE BaseInv'
  <2>1. by_name[n] \in Ids /\ n \in AllNames /\ n # NoName
    BY <1>0, <1>3, Constants DEF Visit, SweepInv, Registered, TypeOK
  <2>2. TypeOK'
    BY <1>0, <1>3, <2>1 DEF Visit, TypeOK, map, grants, words, Allocated
  <2>3. MapInv' /\ EntryInv'
    BY <1>0, <1>3 DEF Visit, MapInv, EntryInv, GoodEntry, map, Allocated
  <2>4. SweepInv'
    BY <1>0, <1>3, <2>1 DEF Visit, SweepInv, Registered, map
  <2> QED BY <2>2, <2>3, <2>4
<1>4. ASSUME VisitDone, visiting # NoName, open' \in [Ids -> Word], closed' \in [Ids -> Word],
             exp' \in [Ids -> Word],
             to_remove' = to_remove \/ to_remove' = to_remove \cup {visiting}
      PROVE  BaseInv'
  <2>1. visiting \in Names /\ Registered(visiting)
    BY <1>0, <1>4, VisitingId DEF SweepInv
  <2>2. TypeOK'
    BY <1>0, <1>4, <2>1, Constants DEF VisitDone, TypeOK, map, grants, NoSnap, Allocated
  <2>3. MapInv' /\ EntryInv'
    BY <1>0, <1>4 DEF VisitDone, MapInv, EntryInv, GoodEntry, map, Allocated
  <2>4. phase' = "visit" /\ UNCHANGED <<by_name, todo>> /\ visiting' = NoName
    BY <1>4, VisitingId DEF VisitDone, map
  <2>5. SweepInv'
    BY <1>0, <1>4, <2>1, <2>4, Constants DEF SweepInv, Registered, TypeOK
  <2> QED BY <2>2, <2>3, <2>5
<1>5. CASE ReapEntry
  <2>1. open' \in [Ids -> Word] /\ closed' \in [Ids -> Word] /\ exp' \in [Ids -> Word]
    BY <1>0, <1>5, ReapedType DEF ReapEntry, TypeOK
  <2> QED BY <1>4, <1>5, <2>1 DEF ReapEntry
<1>6. CASE FireEntry
  <2> DEFINE id == by_name[visiting]
  <2>1. id \in Ids /\ Delivery(entry[id]) \in Word
    BY <1>6, VisitingId, DeliveryType DEF FireEntry
  <2>2. closed' \in [Ids -> Word]
    BY <1>0, <1>6, <2>1 DEF FireEntry, TypeOK
  <2>3. entry[id].tier = "WaitCron" => next_line(clock_now_ms, entry[id].interval_ms) \in Word
    BY <1>0, <2>1, NextLineType DEF EntryInv, GoodEntry, TypeOK, Entries
  <2>4. open' \in [Ids -> Word]
    BY <1>0, <1>6, <2>1, <2>3 DEF FireEntry, TypeOK
  <2> QED BY <1>0, <1>4, <1>6, <2>2, <2>4 DEF FireEntry, TypeOK
<1>7. CASE SkipEntry
  BY <1>0, <1>4, <1>7 DEF SkipEntry, words, TypeOK
<1>8. CASE RemoveDead
  <2>1. \A n \in AllNames : by_name'[n] = IF n \in to_remove THEN NoId ELSE by_name[n]
    BY <1>8 DEF RemoveDead
  <2>2. by_name' \in [AllNames -> Ids \cup {NoId}]
    BY <1>0, <1>8 DEF RemoveDead, TypeOK
  <2>3. TypeOK'
    BY <1>0, <1>8, <2>2 DEF RemoveDead, TypeOK, words, grants, Allocated
  <2>4. to_remove \subseteq Names
    BY <1>0 DEF TypeOK
  <2>5. Allocated' = Allocated
    BY <1>8 DEF RemoveDead, Allocated
  <2>6. MapInv'
    BY <1>0, <2>1, <2>4, <2>5, Constants DEF MapInv
  <2>7. EntryInv'
    BY <1>0, <1>8 DEF RemoveDead, EntryInv, GoodEntry
  <2>8. SweepInv'
    BY <1>8, Constants DEF RemoveDead, SweepInv
  <2> QED BY <2>3, <2>6, <2>7, <2>8
<1>9. CASE RefreshClock
  <2>1. LargerOf(exp[ClockId], now + CLOCK_TTL_NANOS) \in Word
    BY <1>0, RegistryAssumption, Constants DEF LargerOf, TypeOK
  <2>2. TypeOK'
    BY <1>0, <1>9, <2>1, Constants DEF RefreshClock, TypeOK, map, grants, Allocated
  <2>3. MapInv' /\ EntryInv'
    BY <1>0, <1>9 DEF RefreshClock, MapInv, EntryInv, GoodEntry, map, Allocated
  <2>4. SweepInv'
    BY <1>0, <1>9 DEF RefreshClock, SweepInv, Registered, map
  <2> QED BY <2>2, <2>3, <2>4
<1> QED BY <1>1, <1>2, <1>3, <1>5, <1>6, <1>7, <1>8, <1>9 DEF DaemonStep

(* Clients change the words only, and keep them words. *)
LEMMA ClientBase == ASSUME BaseInv, NEW i \in Ids, ClientStep(i) PROVE BaseInv'
<1>0. TypeOK /\ MapInv /\ SweepInv /\ EntryInv
  BY DEF BaseInv
<1>1. UNCHANGED <<now, map, grants, phase, pass>>
  BY DEF ClientStep, Open, Close, Touch, Free, AttachedFree, CounterTarget, TimerTarget,
         RaiseTarget
<1>2. open' \in [Ids -> Word] /\ closed' \in [Ids -> Word] /\ exp' \in [Ids -> Word]
  <2>0. open \in [Ids -> Word] /\ closed \in [Ids -> Word] /\ exp \in [Ids -> Word]
    BY <1>0 DEF TypeOK
  <2>1. \A h \in Increments, w \in Word : WrapAdd(w, h) \in Word
    BY RegistryAssumption, Constants DEF WrapAdd
  <2>2. \A x \in Word, y \in Word : LargerOf(x, y) \in Word
    BY DEF LargerOf
  <2>3. CASE \E h \in Increments : Open(i, h) \/ Close(i, h)
    BY <2>0, <2>1, <2>3 DEF Open, Close
  <2>4. CASE \E ttl \in Ttls : Touch(i, ttl)
    <3>1. \A ttl \in Ttls : now + ttl \in Word
      BY <1>0, RegistryAssumption, Constants DEF TypeOK
    <3> QED BY <2>0, <2>2, <2>4, <3>1 DEF Touch
  <2>5. CASE Free(i) \/ AttachedFree(i)
    BY <2>0, <2>5, Constants DEF Free, AttachedFree
  <2>6. ASSUME NEW x \in Nat, RaiseTarget(i, x)
        PROVE  open' \in [Ids -> Word] /\ UNCHANGED <<closed, exp>>
    <3>1. x \in Word
      BY <2>6, Constants DEF RaiseTarget
    <3> QED BY <2>0, <2>2, <2>6, <3>1 DEF RaiseTarget
  <2>7. CASE CounterTarget(i)
    <3>1. PICK x \in Targets : RaiseTarget(i, x)
      BY <2>7 DEF CounterTarget
    <3>2. x \in Nat
      BY RegistryAssumption
    <3> QED BY <2>0, <2>6, <3>1, <3>2
  <2>8. CASE TimerTarget(i)
    <3>1. PICK ms \in Durations : RaiseTarget(i, open[ClockId] + ms)
      BY <2>8 DEF TimerTarget
    <3>2. open[ClockId] + ms \in Nat
      BY <2>0, RegistryAssumption, Constants
    <3> QED BY <2>0, <2>6, <3>1, <3>2
  <2> QED BY <2>3, <2>4, <2>5, <2>7, <2>8 DEF ClientStep
<1>3. TypeOK'
  BY <1>0, <1>1, <1>2 DEF TypeOK, map, grants, pass, Allocated
<1>4. MapInv' /\ EntryInv' /\ SweepInv'
  BY <1>0, <1>1 DEF MapInv, EntryInv, GoodEntry, SweepInv, Registered, map, pass, Allocated
<1> QED BY <1>3, <1>4 DEF BaseInv

LEMMA BaseNext == BaseInv /\ [Next]_vars => BaseInv'
<1> SUFFICES ASSUME BaseInv, [Next]_vars PROVE BaseInv'
  OBVIOUS
<1>1. CASE Tick
  <2>1. UNCHANGED <<map, words, grants, phase, pass>> /\ now' \in 0 .. MaxTime
    BY <1>1, RegistryAssumption DEF Tick, BaseInv, TypeOK
  <2> QED
    BY <2>1 DEF BaseInv, TypeOK, MapInv, EntryInv, GoodEntry, SweepInv, Registered, map,
                words, grants, pass, Allocated
<1>2. CASE UNCHANGED vars
  BY <1>2 DEF BaseInv, TypeOK, MapInv, EntryInv, GoodEntry, SweepInv, Registered, vars,
              Allocated
<1>3. CASE RequestStep
  BY <1>3, RequestBase
<1>4. CASE DaemonStep
  BY <1>4, DaemonBase
<1>5. CASE \E i \in Ids : ClientStep(i)
  BY <1>5, ClientBase
<1> QED BY <1>1, <1>2, <1>3, <1>4, <1>5 DEF Next

LEMMA BaseAlways == Spec => []BaseInv
BY InitBase, BaseNext, PTL DEF Spec

(* The registry, the words and the locals of a pass keep their types, and  *)
(* a pass never reads the words of a name that is not registered.          *)
THEOREM RegistryTypeCorrect == Spec => []TypeOK
<1>1. BaseInv => TypeOK
  BY DEF BaseInv
<1> QED BY <1>1, BaseAlways, PTL

(***************************************************************************)
(* No region escapes.  During a pass the regions already reaped are still  *)
(* in the map, so the invariant also says that what will be removed at the *)
(* end of the pass is dead.                                                *)
(***************************************************************************)
DeadInv ==
    /\ UnregisteredIsReaped
    /\ \A n \in to_remove : exp[by_name[n]] = SENTINEL

(* A terminated lease stays terminated. *)
LEMMA DeadStaysDead ==
    ASSUME BaseInv, [Next]_vars, NEW i \in Ids, exp[i] = SENTINEL,
           i \in Allocated
    PROVE  exp'[i] = SENTINEL
<1>0. TypeOK
  BY DEF BaseInv
<1>1. CASE RequestStep
  <2>1. ASSUME NEW r \in Requests, Insert(r) PROVE exp'[i] = SENTINEL
    <3>1. next_id \in Ids /\ next_id # i
      BY <2>1, InsertStep DEF Allocated, Ids
    <3> QED BY <1>0, <2>1, <3>1 DEF Insert, Reaped
  <2> QED BY <1>1, <2>1 DEF RequestStep, CreateInterlock, CreateFails, AttachInterlock, words,
                            vars
<1>2. CASE DaemonStep
  <2>1. CASE ReapEntry
    BY <2>1 DEF ReapEntry, Reaped
  <2>2. CASE RefreshClock
    BY <1>0, <2>2, RegistryAssumption, Constants DEF RefreshClock, LargerOf, TypeOK
  <2> QED BY <1>2, <2>1, <2>2 DEF DaemonStep, AdvanceClock, EvaluateAll, Visit, FireEntry,
             SkipEntry, RemoveDead, words
<1>3. CASE \E j \in Ids : ClientStep(j)
  <2>1. PICK j \in Ids : ClientStep(j)
    BY <1>3
  <2>2. CASE Free(j)
    BY <1>0, <2>2 DEF Free, TypeOK
  <2>3. CASE \E ttl \in Ttls : Touch(j, ttl)
    BY <1>0, <2>3 DEF Touch, TypeOK
  <2> QED BY <2>1, <2>2, <2>3 DEF ClientStep, Open, Close, AttachedFree, CounterTarget,
             TimerTarget, RaiseTarget
<1> QED BY <1>1, <1>2, <1>3 DEF Next, Tick, words, vars

LEMMA DeadNext == BaseInv /\ DeadInv /\ [Next]_vars => DeadInv'
<1> SUFFICES ASSUME BaseInv, DeadInv, [Next]_vars PROVE DeadInv'
  OBVIOUS
<1>0. TypeOK /\ MapInv /\ SweepInv /\ BaseInv'
  BY BaseNext DEF BaseInv
<1>1. Allocated \subseteq Ids
  <2>1. next_id \in 1 .. (MaxId + 1) /\ MaxId \in Nat
    BY <1>0, Constants DEF TypeOK
  <2> QED BY <2>1 DEF Allocated, Ids
<1>2. ASSUME UNCHANGED <<by_name, next_id>>, to_remove' \subseteq to_remove PROVE DeadInv'
  <2>1. UnregisteredIsReaped'
    BY <1>1, <1>2, DeadStaysDead DEF DeadInv, UnregisteredIsReaped, Allocated
  <2>2. ASSUME NEW n \in to_remove' PROVE exp'[by_name'[n]] = SENTINEL
    <3>1. n \in to_remove /\ n \in AllNames /\ by_name[n] \in Allocated
      BY <1>0, <1>2, <2>2, Constants DEF TypeOK, MapInv, SweepInv, Registered
    <3> QED BY <1>1, <1>2, <3>1, DeadStaysDead DEF DeadInv
  <2> QED BY <2>1, <2>2 DEF DeadInv
<1>3. ASSUME NEW r \in Requests, CreateInterlock(r) PROVE DeadInv'
  <2>1. /\ Insert(r) /\ to_remove = {} /\ to_remove' = {}
        /\ r.name \in AllNames
    BY <1>0, <1>3, RequestType DEF CreateInterlock, SweepInv, pass
  <2>2. /\ next_id \in Ids /\ next_id \notin Allocated
        /\ Allocated' = Allocated \cup {next_id}
        /\ \A n \in AllNames : by_name'[n] = IF n = r.name THEN next_id ELSE by_name[n]
    BY <1>0, <2>1, InsertStep DEF Insert, Allocated, Ids, TypeOK
  <2>3. ASSUME NEW i \in Allocated PROVE (\E n \in AllNames : by_name'[n] = i) \/ exp'[i] = SENTINEL
    <3>1. CASE exp[i] = SENTINEL
      BY <1>1, <3>1, DeadStaysDead
    <3>2. CASE by_name[r.name] = i
      <4>1. i \in Ids /\ i # next_id /\ i # NoId
        BY <1>1, <2>2, Constants
      <4> QED BY <1>0, <2>1, <2>2, <3>2, <4>1 DEF Insert, Reaped
    <3>3. CASE \E n \in AllNames : by_name[n] = i /\ n # r.name
      BY <2>2, <3>3
    <3> QED BY <3>1, <3>2, <3>3 DEF DeadInv, UnregisteredIsReaped
  <2>4. \E n \in AllNames : by_name'[n] = next_id
    BY <2>1, <2>2
  <2> QED BY <2>1, <2>2, <2>3, <2>4 DEF DeadInv, UnregisteredIsReaped
<1>4. CASE ReapEntry
  <2>1. /\ by_name[visiting] \in Ids /\ exp' = Reaped(exp, {by_name[visiting]})
        /\ UNCHANGED <<by_name, next_id>> /\ to_remove' = to_remove \cup {visiting}
    BY <1>4, VisitingId DEF ReapEntry, VisitDone, map
  <2>2. UnregisteredIsReaped'
    BY <1>1, <2>1, DeadStaysDead DEF DeadInv, UnregisteredIsReaped, Allocated
  <2>3. ASSUME NEW n \in to_remove' PROVE exp'[by_name'[n]] = SENTINEL
    <3>1. n \in AllNames /\ by_name[n] \in Ids
      BY <1>0, <2>1, <2>3, <1>4, VisitingId, Constants
         DEF TypeOK, SweepInv, Registered, ReapEntry
    <3> QED BY <2>1, <2>3, <3>1 DEF Reaped, DeadInv
  <2> QED BY <2>2, <2>3 DEF DeadInv
<1>5. CASE RemoveDead
  <2>1. /\ \A n \in AllNames : by_name'[n] = IF n \in to_remove THEN NoId ELSE by_name[n]
        /\ to_remove' = {} /\ exp' = exp /\ Allocated' = Allocated
    BY <1>5 DEF RemoveDead, words, Allocated
  <2>2. ASSUME NEW i \in Allocated PROVE (\E n \in AllNames : by_name'[n] = i) \/ exp'[i] = SENTINEL
    BY <2>1, <2>2 DEF DeadInv, UnregisteredIsReaped
  <2> QED BY <2>1, <2>2 DEF DeadInv, UnregisteredIsReaped
<1>6. CASE DaemonStep
  BY <1>2, <1>4, <1>5, <1>6 DEF DaemonStep, AdvanceClock, EvaluateAll, Visit, FireEntry,
     SkipEntry, RefreshClock, VisitDone, map
<1>7. CASE RequestStep
  BY <1>2, <1>3, <1>7 DEF RequestStep, CreateFails, AttachInterlock, map, pass, vars
<1>8. CASE (\E i \in Ids : ClientStep(i)) \/ Tick \/ UNCHANGED vars
  BY <1>2, <1>8 DEF ClientStep, Open, Close, Touch, Free, AttachedFree, CounterTarget,
     TimerTarget, RaiseTarget, Tick, map, pass, vars
<1> QED BY <1>6, <1>7, <1>8 DEF Next

(* Every region the daemon ever allocated is in its map or dead: claims,   *)
(* lapses, frees and creates that fail after the insertion leak nothing    *)
(* that still holds a lease.                                               *)
THEOREM NoRegionEscapes == Spec => []UnregisteredIsReaped
<1>1. Init => DeadInv
  BY Constants DEF Init, DeadInv, UnregisteredIsReaped, Allocated, ClockId
<1>2. DeadInv => UnregisteredIsReaped
  BY DEF DeadInv
<1> QED BY <1>1, <1>2, DeadNext, BaseAlways, PTL DEF Spec

(***************************************************************************)
(* Time and the stamps.  The daemon decides on words it loaded earlier, so *)
(* the invariant says what of its snapshot is still true when it stores.   *)
(***************************************************************************)
Bounded(x) == x = SENTINEL \/ x <= MaxCount

(* The clock's open_count is a reading of CLOCK_MONOTONIC, the one of the  *)
(* pass while a pass is under way.                                         *)
ClockInv ==
    /\ Tier(ClockId) = "Interlock"
    /\ open[ClockId] <= now \div NANOS_PER_MS
    /\ phase # "poll" => clock_now_ms = open[ClockId]

(* Counts and targets stay below the sign bit, or are SENTINEL. *)
BoundInv == \A i \in Ids : Bounded(open[i]) /\ Bounded(closed[i])

(* A timer or cron was never stamped with a time the clock has not shown,  *)
(* and nobody raises the target of a barrier.                              *)
StampInv ==
    \A i \in Allocated :
        /\ Tier(i) \in {"WaitTimer", "WaitCron"} => closed[i] = SENTINEL \/ closed[i] <= open[ClockId]
        /\ Tier(i) = "WaitBarrier" => open[i] \in {1, SENTINEL}

(* Of a wait tier only the daemon stores closed_count, and clients raise   *)
(* open_count at most: the snapshot of a visit has the present stamp and a *)
(* target that is not above the present one.                               *)
SnapInv ==
    visiting # NoName =>
        LET id == by_name[visiting] IN
        /\ Bounded(snap.open) /\ Bounded(snap.closed)
        /\ Tier(id) # "Interlock" => snap.closed = closed[id] /\ snap.open <= open[id]
        /\ Tier(id) \in {"WaitCron", "WaitBarrier"} => snap.open = open[id]

(* The grid, and the crons that the pass is through with. *)
Armed(i) ==
    /\ open[i] % entry[i].interval_ms = 0
    /\ closed[i] < open[i]
    /\ open[i] <= closed[i] + entry[i].interval_ms

GridInv ==
    \A i \in Allocated : Tier(i) = "WaitCron" /\ open[i] # SENTINEL => Armed(i)

PassInv ==
    phase \in {"visit", "refresh"} =>
        \A n \in Names \ (todo \cup to_remove \cup {visiting}) :
            LET i == by_name[n] IN
            i # NoId /\ Tier(i) = "WaitCron" /\ open[i] # SENTINEL => open[i] > clock_now_ms

TimeInv == ClockInv /\ BoundInv /\ StampInv /\ SnapInv /\ GridInv /\ PassInv

LEMMA DivMod ==
    ASSUME NEW c \in Nat, NEW k \in Nat, k >= 1
    PROVE  c \div k \in Nat /\ c % k \in 0 .. (k - 1) /\ c = k * (c \div k) + (c % k)
OBVIOUS

LEMMA MultipleMod == ASSUME NEW m \in Nat, NEW k \in Nat, k >= 1 PROVE (m * k) % k = 0
<1> DEFINE q == (m * k) \div k
           r == (m * k) % k
<1>1. m * k \in Nat
  OBVIOUS
<1>2. r \in 0 .. (k - 1) /\ m * k = k * q + r /\ q \in Nat
  BY <1>1, DivMod
<1> HIDE DEF q, r
<1>3. r = k * (m - q)
  BY <1>2
<1>4. CASE m - q >= 1
  <2>1. k * (m - q) >= k
    BY <1>2, <1>4
  <2> QED BY <1>2, <1>3, <2>1
<1>5. CASE m - q <= -1
  <2>1. k * (m - q) <= -k
    BY <1>2, <1>5
  <2> QED BY <1>2, <1>3, <2>1
<1>6. CASE m = q
  BY <1>2, <1>6 DEF r
<1> QED BY <1>2, <1>4, <1>5, <1>6

(* The next grid line is a multiple of the interval, strictly after the    *)
(* clock and at most one interval away; the product does not wrap.         *)
LEMMA NextLineGrid ==
    ASSUME NEW c \in Nat, NEW k \in Nat, k >= 1, c + k <= MaxCount
    PROVE  /\ next_line(c, k) \in Nat /\ next_line(c, k) % k = 0
           /\ c < next_line(c, k) /\ next_line(c, k) <= c + k
<1> DEFINE q == c \div k
           line == (q + 1) * k
<1>1. q \in Nat /\ c = k * q + (c % k) /\ c % k \in 0 .. (k - 1)
  BY DivMod
<1> HIDE DEF q
<1>2. line \in Nat /\ c < line /\ line <= c + k
  BY <1>1
<1>3. line % k = 0
  <2>1. q + 1 \in Nat
    BY <1>1
  <2> QED BY <2>1, MultipleMod
<1> HIDE DEF line
<1>4. line < SENTINEL + 1 /\ SENTINEL + 1 \in Nat
  BY <1>2, Constants
<1>5. line % (SENTINEL + 1) = line
  BY <1>2, <1>4
<1>6. next_line(c, k) = line
  BY <1>5 DEF next_line, line, q
<1> QED BY <1>2, <1>3, <1>6

LEMMA DivMonotone ==
    ASSUME NEW a \in Nat, NEW b \in Nat, a <= b, NEW k \in Nat, k >= 1
    PROVE  a \div k <= b \div k
<1> DEFINE p == a \div k
           q == b \div k
<1>1. p \in Nat /\ q \in Nat /\ k * p <= a /\ b < k * q + k
  BY DivMod
<1> HIDE DEF p, q
<1>2. k * p < k * (q + 1)
  BY <1>1
<1>3. ~ (p >= q + 1)
  <2> SUFFICES ASSUME p >= q + 1 PROVE FALSE
    OBVIOUS
  <2>1. k * p >= k * (q + 1)
    BY <1>1
  <2> QED BY <1>1, <1>2, <2>1
<1>4. p <= q
  BY <1>1, <1>3
<1> QED BY <1>4 DEF p, q

(* The signed value of two counts below the sign bit is positive exactly   *)
(* when the first is the larger one.                                       *)
LEMMA ValuePositive ==
    ASSUME NEW o \in 0 .. MaxCount, NEW c \in 0 .. MaxCount
    PROVE  Value(o, c) > 0 <=> o > c
<1>1. 2 * MaxCount < SENTINEL /\ MaxCount \in Nat /\ SENTINEL \in Nat
  BY RegistryAssumption, WordAssumption
<1> QED BY <1>1 DEF Value

LEMMA TimeFacts ==
    ASSUME BaseInv
    PROVE  /\ TypeOK /\ MapInv /\ SweepInv /\ EntryInv
           /\ Allocated \subseteq Ids /\ ClockId \in Allocated
           /\ \A i \in Ids : open[i] \in Nat /\ closed[i] \in Nat /\ entry[i].interval_ms \in Nat
           /\ now \in 0 .. MaxTime /\ now \div NANOS_PER_MS \in 0 .. MaxTime
           /\ clock_now_ms \in 0 .. MaxTime
           /\ snap.open \in Nat /\ snap.closed \in Nat
<1>1. TypeOK /\ MapInv /\ SweepInv /\ EntryInv
  BY DEF BaseInv
<1>2. next_id \in 1 .. (MaxId + 1) /\ MaxId \in Nat
  BY <1>1, Constants DEF TypeOK
<1>3. \A i \in Ids : open[i] \in Nat /\ closed[i] \in Nat /\ entry[i].interval_ms \in Nat
  BY <1>1, Constants DEF TypeOK, Entries
<1>4. snap.open \in Nat /\ snap.closed \in Nat
  BY <1>1, Constants DEF TypeOK
<1>5. now \in 0 .. MaxTime /\ now \div NANOS_PER_MS \in 0 .. MaxTime /\ clock_now_ms \in 0 .. MaxTime
  BY <1>1, MsType DEF TypeOK
<1>6. Allocated \subseteq Ids /\ ClockId \in Allocated
  BY <1>2 DEF Allocated, Ids, ClockId
<1> QED BY <1>1, <1>3, <1>4, <1>5, <1>6

LEMMA TimeInit == Init => TimeInv
<1> SUFFICES ASSUME Init PROVE TimeInv
  OBVIOUS
<1>1. now \div NANOS_PER_MS \in 0 .. MaxTime
  BY RegistryAssumption, MsType DEF Init
<1>2. Allocated = {ClockId} /\ ClockId \in Ids
  BY Constants DEF Init, Allocated, ClockId
<1>3. \A i \in Ids : Tier(i) = "Interlock"
  BY DEF Init, Tier, PlainEntry
<1>4. ClockInv
  BY <1>1, <1>2, <1>3 DEF Init, ClockInv
<1>5. BoundInv
  BY <1>1, Constants DEF Init, BoundInv, Bounded
<1>6. StampInv /\ GridInv
  BY <1>2, <1>3 DEF StampInv, GridInv
<1>7. SnapInv /\ PassInv
  BY DEF Init, SnapInv, PassInv
<1> QED BY <1>4, <1>5, <1>6, <1>7 DEF TimeInv

(* A step that leaves the map and the pass alone, and changes of a wait    *)
(* tier at most the target of a counter or a timer, upwards.               *)
LEMMA QuietTime ==
    ASSUME BaseInv, BaseInv', TimeInv, UNCHANGED <<map, phase, pass>>, now' >= now,
           BoundInv',
           \A j \in Ids : j = ClockId \/ Tier(j) # "Interlock" =>
                             closed'[j] = closed[j] /\ open'[j] >= open[j],
           \A j \in Ids : j = ClockId \/ Tier(j) \in {"WaitCron", "WaitBarrier"} =>
                             open'[j] = open[j]
    PROVE  TimeInv'
<1>0. UNCHANGED <<by_name, entry, next_id, phase, clock_now_ms, todo, visiting, snap, to_remove>>
      /\ Allocated' = Allocated /\ \A j \in Ids : Tier(j)' = Tier(j)
  BY DEF map, pass, Allocated, Tier
<1>1. ClockInv'
  <2>1. now \in Nat /\ now' \in Nat /\ NANOS_PER_MS \in Nat /\ NANOS_PER_MS >= 1
    BY TimeFacts, RegistryAssumption DEF BaseInv, TypeOK
  <2>2. now \div NANOS_PER_MS <= now' \div NANOS_PER_MS
    BY <2>1, DivMonotone
  <2>3. now \div NANOS_PER_MS \in Nat /\ now' \div NANOS_PER_MS \in Nat /\ open[ClockId] \in Nat
    BY <2>1, TimeFacts, Constants, DivMod
  <2> QED BY <1>0, <2>2, <2>3, Constants DEF TimeInv, ClockInv, Tier
<1>2. StampInv'
  <2> SUFFICES ASSUME NEW i \in Allocated
               PROVE  /\ Tier(i) \in {"WaitTimer", "WaitCron"}
                           => closed'[i] = SENTINEL \/ closed'[i] <= open'[ClockId]
                      /\ Tier(i) = "WaitBarrier" => open'[i] \in {1, SENTINEL}
    BY <1>0, TimeFacts DEF StampInv
  <2>1. i \in Ids /\ ClockId \in Ids
    BY TimeFacts
  <2> QED BY <2>1 DEF TimeInv, StampInv
<1>3. SnapInv'
  <2> SUFFICES ASSUME visiting # NoName
               PROVE  /\ Bounded(snap.open) /\ Bounded(snap.closed)
                      /\ Tier(by_name[visiting]) # "Interlock" =>
                            /\ snap.closed = closed'[by_name[visiting]]
                            /\ snap.open <= open'[by_name[visiting]]
                      /\ Tier(by_name[visiting]) \in {"WaitCron", "WaitBarrier"} =>
                            snap.open = open'[by_name[visiting]]
    BY <1>0, VisitingId DEF SnapInv, Bounded
  <2>1. by_name[visiting] \in Ids
    BY VisitingId
  <2>2. snap.open \in Nat /\ open[by_name[visiting]] \in Nat /\ open'[by_name[visiting]] \in Nat
    BY <2>1, TimeFacts, Constants DEF BaseInv, TypeOK
  <2> QED BY <2>1, <2>2 DEF TimeInv, SnapInv
<1>4. GridInv'
  BY <1>0, TimeFacts DEF TimeInv, GridInv, Armed
<1>5. PassInv'
  <2>1. \A n \in Names : by_name[n] # NoId => by_name[n] \in Ids
    BY TimeFacts, Constants DEF TypeOK
  <2> QED BY <1>0, <2>1 DEF TimeInv, PassInv
<1> QED BY <1>1, <1>2, <1>3, <1>4, <1>5 DEF TimeInv

LEMMA ClientTime ==
    ASSUME BaseInv, BaseInv', TimeInv, NEW i \in Ids, ClientStep(i) PROVE TimeInv'
<1>0. open \in [Ids -> Word] /\ closed \in [Ids -> Word] /\ Tier(ClockId) = "Interlock" /\ BoundInv
      /\ open[ClockId] \in Nat /\ ClockId \in Ids /\ \A j \in Ids : open[j] >= open[j]
  BY TimeFacts, Constants DEF TypeOK, TimeInv, ClockInv
<1> DEFINE Good ==
      /\ BoundInv'
      /\ \A j \in Ids : j = ClockId \/ Tier(j) # "Interlock" =>
                             closed'[j] = closed[j] /\ open'[j] >= open[j]
      /\ \A j \in Ids : j = ClockId \/ Tier(j) \in {"WaitCron", "WaitBarrier"} =>
                             open'[j] = open[j]
<1>1. ASSUME NEW h \in Increments, Open(i, h) \/ Close(i, h) PROVE Good
  <2>1. \A x \in Word : Bounded(x) /\ (x = SENTINEL \/ x + h <= MaxCount) => Bounded(WrapAdd(x, h))
    <3>1. h \in 0 .. MaxCount
      BY RegistryAssumption
    <3> QED BY <3>1, Constants DEF WrapAdd, Bounded
  <2>2. CASE Open(i, h)
    BY <1>0, <2>1, <2>2, Constants DEF Open, Count, SharedPlain, BoundInv, Tier
  <2>3. CASE Close(i, h)
    BY <1>0, <2>1, <2>3, Constants DEF Close, Count, SharedPlain, BoundInv, Tier
  <2> QED BY <1>1, <2>2, <2>3
<1>2. ASSUME (\E ttl \in Ttls : Touch(i, ttl)) \/ Free(i) PROVE Good
  <2>1. UNCHANGED <<open, closed>>
    BY <1>2 DEF Touch, Free
  <2> QED BY <1>0, <2>1, Constants DEF BoundInv, Bounded
<1>3. ASSUME AttachedFree(i) PROVE Good
  <2>1. i # ClockId /\ Tier(i) = "Interlock" /\ closed' = closed
        /\ \A j \in Ids : open'[j] = IF j = i THEN SENTINEL ELSE open[j]
    BY <1>0, <1>3 DEF AttachedFree, SharedPlain
  <2> QED BY <1>0, <2>1, Constants DEF BoundInv, Bounded
<1>4. ASSUME NEW x \in Nat, RaiseTarget(i, x), Tier(i) \in {"WaitCounter", "WaitTimer"} PROVE Good
  <2>1. LargerOf(open[i], x) >= open[i] /\ Bounded(LargerOf(open[i], x))
    BY <1>0, <1>4, Constants DEF RaiseTarget, LargerOf, Bounded, BoundInv
  <2>2. \A j \in Ids : open'[j] = IF j = i THEN LargerOf(open[i], x) ELSE open[j]
    BY <1>0, <1>4 DEF RaiseTarget
  <2>3. closed' = closed /\ \A j \in Ids : open[j] >= open[j]
    BY <1>0, <1>4, Constants DEF RaiseTarget
  <2> QED BY <1>0, <1>4, <2>1, <2>2, <2>3 DEF BoundInv, Bounded
<1> HIDE DEF Good
<1>5. ASSUME CounterTarget(i) PROVE Good
  <2>1. PICK x \in Targets : RaiseTarget(i, x)
    BY <1>5 DEF CounterTarget
  <2>2. x \in Nat /\ Tier(i) \in {"WaitCounter", "WaitTimer"}
    BY <1>5, RegistryAssumption DEF CounterTarget
  <2> QED BY <1>4, <2>1, <2>2
<1>6. ASSUME TimerTarget(i) PROVE Good
  <2>1. PICK ms \in Durations : RaiseTarget(i, open[ClockId] + ms)
    BY <1>6 DEF TimerTarget
  <2>2. open[ClockId] + ms \in Nat /\ Tier(i) \in {"WaitCounter", "WaitTimer"}
    BY <1>0, <1>6, RegistryAssumption DEF TimerTarget
  <2> QED BY <1>4, <2>1, <2>2
<1>7. Good
  <2>1. CASE \E h \in Increments : Open(i, h) \/ Close(i, h)
    BY <1>1, <2>1
  <2> QED BY <1>2, <1>3, <1>5, <1>6, <2>1 DEF ClientStep
<1>8. UNCHANGED <<now, map, phase, pass>>
  BY DEF ClientStep, Open, Close, Touch, Free, AttachedFree, CounterTarget, TimerTarget,
         RaiseTarget
<1>9. now' >= now
  BY <1>8, TimeFacts
<1> QED BY <1>7, <1>8, <1>9, QuietTime DEF Good

(* create: the counters of the new region, and of the one that had the     *)
(* name.                                                                   *)
LEMMA CreateWords ==
    ASSUME BaseInv, TimeInv, NEW r \in Requests, Insert(r)
    PROVE  /\ entry'[next_id] = NewEntry(r)
           /\ open'[next_id] = InitialOpen(NewEntry(r), open[ClockId])
           /\ closed'[next_id] = InitialClosed(NewEntry(r), open[ClockId])
           /\ next_id # ClockId /\ Allocated' = Allocated \cup {next_id}
           /\ \A j \in Ids : j # next_id =>
                 /\ entry'[j] = entry[j]
                 /\ \/ open'[j] = open[j] /\ closed'[j] = closed[j]
                    \/ j # ClockId /\ open'[j] = SENTINEL /\ closed'[j] = SENTINEL
<1>1. next_id \in Ids /\ next_id >= 1 /\ next_id' = next_id + 1
  BY InsertStep DEF Insert
<1>2. next_id # ClockId /\ Allocated' = Allocated \cup {next_id}
  BY <1>1 DEF Allocated, ClockId, Ids
<1>3. by_name[r.name] # ClockId
  <2>1. r.name \in AllNames /\ r.name # "clock" /\ by_name["clock"] = ClockId
    BY RequestType, TimeFacts DEF Insert, Valid, MapInv
  <2> QED BY <2>1, TimeFacts, Constants DEF MapInv
<1> DEFINE old == {by_name[r.name]} \ {NoId}
<1>4. ClockId \notin old
  BY <1>3
<1> HIDE DEF old
<1>5. /\ entry' = [entry EXCEPT ![next_id] = NewEntry(r)]
      /\ open' = [Reaped(open, old) EXCEPT ![next_id] = InitialOpen(NewEntry(r), open[ClockId])]
      /\ closed' = [Reaped(closed, old) EXCEPT
                       ![next_id] = InitialClosed(NewEntry(r), open[ClockId])]
  BY DEF Insert, old
<1>6. entry \in [Ids -> Entries]
  BY TimeFacts DEF TypeOK
<1>7. /\ open'[next_id] = InitialOpen(NewEntry(r), open[ClockId])
      /\ closed'[next_id] = InitialClosed(NewEntry(r), open[ClockId])
      /\ entry'[next_id] = NewEntry(r)
  BY <1>1, <1>5, <1>6 DEF Reaped
<1>8. \A j \in Ids : j # next_id =>
          /\ open'[j] = IF j \in old THEN SENTINEL ELSE open[j]
          /\ closed'[j] = IF j \in old THEN SENTINEL ELSE closed[j]
          /\ entry'[j] = entry[j]
  BY <1>1, <1>5, <1>6 DEF Reaped
<1> QED BY <1>2, <1>4, <1>7, <1>8

(* A new region fits the invariant, whatever its tier. *)
LEMMA NewRegion ==
    ASSUME BaseInv, TimeInv, NEW r \in Requests, Valid(r), NEW e, e = NewEntry(r),
           NEW o, o = InitialOpen(e, open[ClockId]), NEW c, c = InitialClosed(e, open[ClockId])
    PROVE  /\ Bounded(o) /\ Bounded(c)
           /\ e.tier \in {"WaitTimer", "WaitCron"} => c = open[ClockId]
           /\ e.tier = "WaitBarrier" => o = 1
           /\ e.tier = "WaitCron" => o % e.interval_ms = 0 /\ c < o /\ o <= c + e.interval_ms
<1>1. e \in Entries /\ GoodEntry(e)
  BY TimeFacts, NewEntryType
<1>2. open[ClockId] \in Nat /\ open[ClockId] <= MaxTime
  BY TimeFacts, Constants DEF TimeInv, ClockInv
<1>3. CASE e.tier = "WaitCron"
  <2>1. e.interval_ms \in Nat /\ e.interval_ms >= 1 /\ MaxTime + e.interval_ms <= MaxCount
    BY <1>1, <1>3 DEF Entries, GoodEntry
  <2>2. open[ClockId] + e.interval_ms <= MaxCount
    BY <1>2, <2>1, Constants
  <2>3. o = next_line(open[ClockId], e.interval_ms) /\ c = open[ClockId]
    BY <1>3 DEF InitialOpen, InitialClosed
  <2>4. o \in Nat /\ o % e.interval_ms = 0 /\ c < o /\ o <= c + e.interval_ms
    BY <1>2, <2>1, <2>2, <2>3, NextLineGrid
  <2> QED BY <1>2, <1>3, <2>1, <2>2, <2>3, <2>4, Constants DEF Bounded
<1>4. CASE e.tier # "WaitCron"
  BY <1>2, <1>4, Constants DEF InitialOpen, InitialClosed, Bounded
<1> QED BY <1>3, <1>4

LEMMA CreateTime ==
    ASSUME BaseInv, BaseInv', TimeInv, NEW r \in Requests, CreateInterlock(r) PROVE TimeInv'
<1>0. Insert(r) /\ phase = "poll" /\ phase' = "poll" /\ visiting' = NoName /\ now' = now
      /\ Valid(r) /\ next_id \in Ids
  BY TimeFacts, InsertStep DEF CreateInterlock, Insert, SweepInv, pass
<1>1. ClockInv'
  BY <1>0, CreateWords, TimeFacts, Constants DEF TimeInv, ClockInv, Tier
<1>2. BoundInv'
  <2>1. Bounded(open'[next_id]) /\ Bounded(closed'[next_id])
    BY <1>0, CreateWords, NewRegion
  <2>2. \A j \in Ids : j # next_id => Bounded(open'[j]) /\ Bounded(closed'[j])
    BY <1>0, CreateWords DEF TimeInv, BoundInv, Bounded
  <2> QED BY <2>1, <2>2 DEF BoundInv, Bounded
<1>3. open'[ClockId] = open[ClockId]
  BY <1>0, CreateWords, Constants
<1>4. StampInv'
  <2> SUFFICES ASSUME NEW i \in Allocated'
               PROVE  /\ entry'[i].tier \in {"WaitTimer", "WaitCron"}
                           => closed'[i] = SENTINEL \/ closed'[i] <= open'[ClockId]
                      /\ entry'[i].tier = "WaitBarrier" => open'[i] \in {1, SENTINEL}
    BY DEF StampInv, Tier
  <2>1. CASE i = next_id
    <3>1. open[ClockId] \in Nat
      BY TimeFacts
    <3> QED BY <1>0, <1>3, <2>1, <3>1, CreateWords, NewRegion
  <2>2. CASE i # next_id
    <3>1. i \in Allocated /\ i \in Ids
      BY <1>0, <2>2, CreateWords, TimeFacts
    <3> QED BY <1>0, <1>3, <2>2, <3>1, CreateWords DEF TimeInv, StampInv, Tier
  <2> QED BY <2>1, <2>2
<1>5. GridInv'
  <2> SUFFICES ASSUME NEW i \in Allocated', entry'[i].tier = "WaitCron", open'[i] # SENTINEL
               PROVE  /\ open'[i] % entry'[i].interval_ms = 0
                      /\ closed'[i] < open'[i]
                      /\ open'[i] <= closed'[i] + entry'[i].interval_ms
    BY DEF GridInv, Armed, Tier
  <2>1. CASE i = next_id
    BY <1>0, <2>1, CreateWords, NewRegion
  <2>2. CASE i # next_id
    <3>1. i \in Allocated /\ i \in Ids
      BY <1>0, <2>2, CreateWords, TimeFacts
    <3> QED BY <1>0, <2>2, <3>1, CreateWords DEF TimeInv, GridInv, Armed, Tier
  <2> QED BY <2>1, <2>2
<1>6. SnapInv' /\ PassInv'
  BY <1>0 DEF SnapInv, PassInv
<1> QED BY <1>1, <1>2, <1>4, <1>5, <1>6 DEF TimeInv

(* What holds of the words while the daemon acts on its snapshot. *)
LEMMA VisitFacts ==
    ASSUME BaseInv, TimeInv, visiting # NoName, NEW id, id = by_name[visiting], ~SnapDead
    PROVE  /\ snap.open \in 0 .. MaxCount /\ snap.closed \in 0 .. MaxCount
           /\ SnapOpen <=> snap.open > snap.closed
           /\ Tier(id) # "Interlock" => closed[id] = snap.closed
           /\ Tier(id) \in {"WaitCron", "WaitBarrier"} => open[id] = snap.open
           /\ clock_now_ms = open[ClockId]
<1>1. phase = "visit"
  BY VisitingId
<1>2. Bounded(snap.open) /\ Bounded(snap.closed) /\ snap.open # SENTINEL /\ snap.closed # SENTINEL
  BY DEF TimeInv, SnapInv, SnapDead, Terminated
<1>3. snap.open \in 0 .. MaxCount /\ snap.closed \in 0 .. MaxCount
  BY <1>2, TimeFacts, Constants DEF Bounded
<1>4. SnapOpen <=> snap.open > snap.closed
  BY <1>3, ValuePositive DEF SnapOpen
<1> QED BY <1>1, <1>3, <1>4 DEF TimeInv, SnapInv, ClockInv

(* What a firing stores: for a wait tier never less than the old stamp,    *)
(* and a cron's next line is on the grid and ahead of the clock.           *)
LEMMA FireWords ==
    ASSUME BaseInv, TimeInv, FireEntry, NEW id, id = by_name[visiting]
    PROVE  /\ id \in Allocated /\ id \in Ids /\ id # ClockId
           /\ Tier(id) # "Interlock"
           /\ \A j \in Ids : j # id => open'[j] = open[j] /\ closed'[j] = closed[j]
           /\ closed'[id] >= closed[id]
           /\ Bounded(open'[id]) /\ Bounded(closed'[id])
           /\ Tier(id) \in {"WaitTimer", "WaitCron"} => closed'[id] = open[ClockId]
           /\ Tier(id) # "WaitCron" => open'[id] = open[id]
           /\ Tier(id) = "WaitCron" =>
                 /\ open'[id] % entry[id].interval_ms = 0
                 /\ closed'[id] < open'[id]
                 /\ open'[id] <= closed'[id] + entry[id].interval_ms
                 /\ open'[id] > clock_now_ms
<1> DEFINE e == entry[id]
<1>1. /\ id \in Allocated /\ id \in Ids /\ id # ClockId /\ visiting # NoName /\ ~SnapDead
      /\ Tier(id) = e.tier
  BY VisitingId DEF FireEntry, SnapOpen, Tier
<1>2. /\ snap.open \in 0 .. MaxCount /\ snap.closed \in 0 .. MaxCount
      /\ snap.open > snap.closed
      /\ clock_now_ms = open[ClockId] /\ clock_now_ms \in 0 .. MaxTime
  BY <1>1, VisitFacts, TimeFacts DEF FireEntry
<1>3. Due(e) /\ e \in Entries
  BY <1>1, VisitingId DEF FireEntry
<1>4. e.tier # "Interlock"
  BY <1>3 DEF Due
<1>5. closed[id] = snap.closed /\ (e.tier \in {"WaitCron", "WaitBarrier"} => open[id] = snap.open)
  BY <1>1, <1>4, VisitFacts
<1>6. \A j \in Ids : closed'[j] = IF j = id THEN Delivery(e) ELSE closed[j]
  BY <1>1, TimeFacts DEF FireEntry, TypeOK
<1>7. \A j \in Ids : open'[j] = IF j = id /\ e.tier = "WaitCron"
                                 THEN next_line(clock_now_ms, e.interval_ms) ELSE open[j]
  BY <1>1, TimeFacts DEF FireEntry, TypeOK
<1>8. closed'[id] >= closed[id] /\ Bounded(closed'[id])
  <2>1. CASE e.tier \in {"WaitTimer", "WaitCron"}
    <3>1. clock_now_ms >= snap.open /\ closed'[id] = clock_now_ms
      BY <1>1, <1>3, <1>6, <2>1 DEF Due, Delivery
    <3> QED BY <1>2, <1>5, <3>1, Constants DEF Bounded
  <2>2. CASE e.tier = "WaitCounter"
    <3> DEFINE w == WatchedValue(e.watched_name, e.watched_word)
    <3>1. Registered(e.watched_name) /\ w >= snap.open /\ closed'[id] = w
      BY <1>1, <1>3, <1>6, <2>2 DEF Due, Delivery
    <3>2. e.watched_name \in AllNames
      BY <1>1, <2>2, TimeFacts DEF EntryInv, GoodEntry
    <3>3. by_name[e.watched_name] \in Ids
      BY <3>1, <3>2, TimeFacts DEF Registered, TypeOK
    <3>4. w \in Nat /\ Bounded(w)
      BY <3>3, TimeFacts DEF WatchedValue, TimeInv, BoundInv
    <3> QED BY <1>2, <1>5, <3>1, <3>4, Constants
  <2>3. CASE e.tier = "WaitBarrier"
    <3>1. closed'[id] = clock_now_ms
      BY <1>1, <1>6, <2>3 DEF Delivery
    <3>2. open[id] \in {1, SENTINEL} /\ open[id] = snap.open
      BY <1>1, <1>5, <2>3 DEF TimeInv, StampInv
    <3>3. closed[id] = 0
      BY <1>2, <1>5, <3>2, Constants
    <3> QED BY <1>2, <3>1, <3>3, Constants DEF Bounded
  <2> QED BY <1>3, <1>4, <2>1, <2>2, <2>3 DEF Entries, Tiers
<1>9. e.tier \in {"WaitTimer", "WaitCron"} => closed'[id] = open[ClockId]
  BY <1>1, <1>2, <1>6 DEF Delivery
<1>10. e.tier = "WaitCron" =>
                 /\ open'[id] % e.interval_ms = 0
                 /\ closed'[id] < open'[id]
                 /\ open'[id] <= closed'[id] + e.interval_ms
                 /\ open'[id] > clock_now_ms
                 /\ Bounded(open'[id])
  <2> SUFFICES ASSUME e.tier = "WaitCron"
               PROVE  /\ open'[id] % e.interval_ms = 0
                      /\ closed'[id] < open'[id]
                      /\ open'[id] <= closed'[id] + e.interval_ms
                      /\ open'[id] > clock_now_ms
                      /\ Bounded(open'[id])
    OBVIOUS
  <2>1. e.interval_ms \in Nat /\ e.interval_ms >= 1 /\ MaxTime + e.interval_ms <= MaxCount
    BY <1>1, TimeFacts DEF EntryInv, GoodEntry
  <2>2. open'[id] = next_line(clock_now_ms, e.interval_ms) /\ closed'[id] = clock_now_ms
    BY <1>1, <1>2, <1>7, <1>9
  <2>3. clock_now_ms \in Nat /\ clock_now_ms + e.interval_ms <= MaxCount
    BY <1>2, <2>1, Constants
  <2>4. /\ open'[id] \in Nat /\ open'[id] % e.interval_ms = 0 /\ clock_now_ms < open'[id]
        /\ open'[id] <= clock_now_ms + e.interval_ms
    BY <2>1, <2>2, <2>3, NextLineGrid
  <2> QED BY <2>1, <2>2, <2>3, <2>4, Constants DEF Bounded
<1>11. Bounded(open'[id]) /\ (e.tier # "WaitCron" => open'[id] = open[id])
  BY <1>1, <1>7, <1>10 DEF TimeInv, BoundInv
<1>12. \A j \in Ids : j # id => open'[j] = open[j] /\ closed'[j] = closed[j]
  BY <1>6, <1>7
<1> QED BY <1>1, <1>4, <1>8, <1>9, <1>10, <1>11, <1>12

LEMMA DaemonTime ==
    ASSUME BaseInv, BaseInv', TimeInv, DaemonStep PROVE TimeInv'
<1>0. /\ TypeOK /\ MapInv /\ SweepInv /\ Allocated \subseteq Ids /\ ClockId \in Ids
      /\ ClockInv /\ BoundInv /\ StampInv /\ SnapInv /\ GridInv /\ PassInv
      /\ \A n \in Names : by_name[n] \in Ids \cup {NoId}
  BY TimeFacts, Constants DEF TimeInv, TypeOK
<1>1. CASE AdvanceClock
  <2>1. /\ UNCHANGED <<now, by_name, entry, next_id, closed, visiting>> /\ visiting = NoName
        /\ phase' = "evaluate" /\ clock_now_ms' = now \div NANOS_PER_MS
        /\ \A j \in Ids : open'[j] = IF j = ClockId THEN now \div NANOS_PER_MS ELSE open[j]
    BY <1>0, <1>1 DEF AdvanceClock, TypeOK, SweepInv, map
  <2>2. now \div NANOS_PER_MS \in 0 .. MaxTime /\ open[ClockId] \in Nat
    BY <1>0, TimeFacts
  <2>3. open'[ClockId] >= open[ClockId] /\ open'[ClockId] = now \div NANOS_PER_MS
    BY <1>0, <2>1, <2>2 DEF ClockInv
  <2>4. ClockInv'
    BY <1>0, <2>1, <2>2, <2>3 DEF ClockInv, Tier
  <2>5. BoundInv'
    BY <1>0, <2>1, <2>2, Constants DEF BoundInv, Bounded
  <2>6. StampInv'
    <3> SUFFICES ASSUME NEW i \in Allocated
                 PROVE  /\ Tier(i) \in {"WaitTimer", "WaitCron"}
                             => closed[i] = SENTINEL \/ closed[i] <= open'[ClockId]
                        /\ Tier(i) = "WaitBarrier" => open'[i] \in {1, SENTINEL}
      BY <2>1 DEF StampInv, Tier, Allocated
    <3>1. i \in Ids /\ closed[i] \in Nat /\ open[ClockId] \in Nat /\ open'[ClockId] \in Nat
      BY <1>0, <2>2, <2>3, TimeFacts
    <3> QED BY <1>0, <2>1, <2>3, <3>1 DEF StampInv, ClockInv
  <2>7. GridInv'
    BY <1>0, <2>1 DEF GridInv, Armed, ClockInv, Tier, Allocated
  <2>8. SnapInv' /\ PassInv'
    BY <2>1 DEF SnapInv, PassInv
  <2> QED BY <2>4, <2>5, <2>6, <2>7, <2>8 DEF TimeInv
<1>2. ASSUME UNCHANGED <<now, map, open, closed>>, phase' # "poll" => phase # "poll",
             phase # "poll" /\ phase' # "poll" => clock_now_ms' = clock_now_ms
      PROVE  ClockInv' /\ BoundInv' /\ StampInv' /\ GridInv'
  BY <1>0, <1>2 DEF ClockInv, BoundInv, Bounded, StampInv, GridInv, Armed, Tier, Allocated, map
<1>3. CASE EvaluateAll
  <2>1. /\ UNCHANGED <<now, map, open, closed, by_name, clock_now_ms, visiting>>
        /\ phase = "evaluate" /\ phase' = "visit" /\ visiting = NoName
        /\ todo' = {n \in Names : by_name[n] # NoId}
    BY <1>0, <1>3 DEF EvaluateAll, SweepInv, words, map, Registered
  <2>2. SnapInv' /\ PassInv'
    BY <2>1 DEF SnapInv, PassInv
  <2> QED BY <1>2, <2>1, <2>2 DEF TimeInv
<1>4. ASSUME NEW n \in Names, Visit(n) PROVE TimeInv'
  <2>1. /\ UNCHANGED <<now, map, open, closed, by_name, entry, clock_now_ms, phase, to_remove>>
        /\ phase = "visit" /\ visiting' = n /\ todo' = todo \ {n}
        /\ snap'.open = open[by_name[n]] /\ snap'.closed = closed[by_name[n]]
        /\ by_name[n] \in Ids /\ visiting = NoName /\ NoName \notin Names
    BY <1>0, <1>4, Constants DEF Visit, SweepInv, words, map, Registered
  <2>2. open[by_name[n]] \in Nat
    BY <2>1, TimeFacts
  <2>3. SnapInv'
    BY <1>0, <2>1, <2>2 DEF SnapInv, BoundInv, Bounded, Tier
  <2>4. PassInv'
    BY <1>0, <2>1 DEF PassInv, Tier
  <2> QED BY <1>2, <2>1, <2>3, <2>4 DEF TimeInv
<1>5. ASSUME visiting # NoName
      PROVE  /\ by_name[visiting] \in Ids /\ by_name[visiting] \in Allocated
             /\ by_name[visiting] # ClockId /\ visiting \in Names /\ phase = "visit"
             /\ \A n \in Names : n # visiting => by_name[n] # by_name[visiting]
  <2>1. /\ by_name[visiting] \in Ids /\ by_name[visiting] # ClockId /\ visiting \in Names
        /\ visiting \in AllNames /\ phase = "visit" /\ by_name[visiting] # NoId
        /\ by_name[visiting] \in Allocated
    BY <1>5, VisitingId, Constants
  <2> QED BY <1>0, <2>1, Constants DEF MapInv
<1>6. CASE ReapEntry
  <2> DEFINE id == by_name[visiting]
  <2>1. /\ UNCHANGED <<now, by_name, entry, next_id, clock_now_ms, phase, todo>>
        /\ visiting # NoName /\ visiting' = NoName /\ to_remove' = to_remove \cup {visiting}
        /\ \A j \in Ids : /\ open'[j] = IF j = id THEN SENTINEL ELSE open[j]
                          /\ closed'[j] = IF j = id THEN SENTINEL ELSE closed[j]
    BY <1>6 DEF ReapEntry, Reaped, VisitDone, map
  <2>2. id \in Ids /\ id # ClockId /\ \A n \in Names : n # visiting => by_name[n] # id
    BY <1>5, <2>1
  <2>3. ClockInv' /\ BoundInv'
    BY <1>0, <2>1, <2>2 DEF ClockInv, BoundInv, Bounded, Tier
  <2>4. StampInv' /\ GridInv'
    BY <1>0, <2>1, <2>2 DEF StampInv, GridInv, Armed, Tier, Allocated
  <2>5. SnapInv'
    BY <2>1 DEF SnapInv
  <2>6. PassInv'
    <3>1. NoName \notin Names
      BY Constants
    <3> QED BY <1>0, <2>1, <2>2, <3>1 DEF PassInv, Tier
  <2> QED BY <2>3, <2>4, <2>5, <2>6 DEF TimeInv
<1>7. CASE FireEntry
  <2> DEFINE id == by_name[visiting]
  <2>1. /\ UNCHANGED <<now, by_name, entry, next_id, clock_now_ms, phase, todo, to_remove>>
        /\ visiting # NoName /\ visiting' = NoName
    BY <1>7 DEF FireEntry, VisitDone, map
  <2>2. id \in Ids /\ id # ClockId /\ \A n \in Names : n # visiting => by_name[n] # id
    BY <1>5, <2>1
  <2>3. /\ \A j \in Ids : j # id => open'[j] = open[j] /\ closed'[j] = closed[j]
        /\ Bounded(open'[id]) /\ Bounded(closed'[id])
        /\ Tier(id) \in {"WaitTimer", "WaitCron"} => closed'[id] = open[ClockId]
        /\ Tier(id) # "WaitCron" => open'[id] = open[id]
        /\ Tier(id) = "WaitCron" =>
                 /\ open'[id] % entry[id].interval_ms = 0
                 /\ closed'[id] < open'[id]
                 /\ open'[id] <= closed'[id] + entry[id].interval_ms
                 /\ open'[id] > clock_now_ms
    BY <1>7, FireWords
  <2>4. open[ClockId] \in Nat /\ open'[ClockId] = open[ClockId]
    BY <1>0, <2>2, <2>3, TimeFacts
  <2> HIDE DEF id
  <2>5. ClockInv' /\ BoundInv'
    BY <1>0, <2>1, <2>2, <2>3 DEF ClockInv, BoundInv, Bounded, Tier
  <2>6. StampInv'
    BY <1>0, <2>1, <2>2, <2>3, <2>4 DEF StampInv, Tier, Allocated
  <2>7. GridInv'
    BY <1>0, <2>1, <2>2, <2>3 DEF GridInv, Armed, Tier, Allocated
  <2>8. SnapInv'
    BY <2>1 DEF SnapInv
  <2>9. PassInv'
    <3> SUFFICES ASSUME phase \in {"visit", "refresh"},
                        NEW n \in Names, n \notin todo \cup to_remove,
                        by_name[n] # NoId, Tier(by_name[n]) = "WaitCron",
                        open'[by_name[n]] # SENTINEL
                 PROVE  open'[by_name[n]] > clock_now_ms
      BY <2>1 DEF PassInv, Tier
    <3>1. CASE n = visiting
      BY <2>3, <3>1 DEF id
    <3>2. CASE n # visiting
      <4>1. by_name[n] \in Ids /\ by_name[n] # id
        BY <1>0, <2>2, <3>2
      <4> QED BY <1>0, <2>3, <3>2, <4>1 DEF PassInv
    <3> QED BY <3>1, <3>2
  <2> QED BY <2>5, <2>6, <2>7, <2>8, <2>9 DEF TimeInv
<1>8. CASE SkipEntry
  <2> DEFINE id == by_name[visiting]
  <2>1. /\ UNCHANGED <<now, map, open, closed, by_name, entry, clock_now_ms, phase, todo, to_remove>>
        /\ visiting # NoName /\ visiting' = NoName /\ ~SnapDead /\ ~(SnapOpen /\ Due(entry[id]))
    BY <1>8 DEF SkipEntry, VisitDone, words, map
  <2>2. SnapInv'
    BY <2>1 DEF SnapInv
  <2>3. Tier(id) = "WaitCron" /\ open[id] # SENTINEL => open[id] > clock_now_ms
    <3> SUFFICES ASSUME Tier(id) = "WaitCron", open[id] # SENTINEL PROVE open[id] > clock_now_ms
      OBVIOUS
    <3>1. /\ snap.open \in 0 .. MaxCount /\ snap.closed \in 0 .. MaxCount
          /\ (SnapOpen <=> snap.open > snap.closed)
          /\ closed[id] = snap.closed /\ open[id] = snap.open
      BY <2>1, VisitFacts
    <3>2. closed[id] < open[id]
      BY <1>0, <1>5, <2>1 DEF GridInv, Armed
    <3>3. SnapOpen /\ ~Due(entry[id])
      BY <2>1, <3>1, <3>2, Constants
    <3>4. ~(clock_now_ms >= snap.open)
      BY <3>3 DEF Due, Tier
    <3> QED BY <3>1, <3>4, TimeFacts, Constants
  <2>4. PassInv'
    <3> SUFFICES ASSUME phase \in {"visit", "refresh"},
                        NEW n \in Names, n \notin todo \cup to_remove,
                        by_name[n] # NoId, Tier(by_name[n]) = "WaitCron",
                        open[by_name[n]] # SENTINEL
                 PROVE  open[by_name[n]] > clock_now_ms
      BY <2>1 DEF PassInv, Tier
    <3>1. CASE n = visiting
      BY <2>3, <3>1
    <3>2. CASE n # visiting
      BY <1>0, <3>2 DEF PassInv
    <3> QED BY <3>1, <3>2
  <2> QED BY <1>2, <2>1, <2>2, <2>4 DEF TimeInv
<1>9. CASE RemoveDead
  <2>1. /\ UNCHANGED <<now, entry, next_id, open, closed, clock_now_ms, visiting, todo>>
        /\ phase = "visit" /\ phase' = "refresh" /\ visiting = NoName /\ todo = {}
        /\ to_remove' = {}
        /\ \A n \in Names : by_name'[n] = IF n \in to_remove THEN NoId ELSE by_name[n]
    BY <1>9, Constants DEF RemoveDead, words
  <2>2. ClockInv' /\ BoundInv' /\ StampInv' /\ GridInv'
    BY <1>0, <2>1 DEF ClockInv, BoundInv, Bounded, StampInv, GridInv, Armed, Tier, Allocated
  <2>3. SnapInv'
    BY <2>1 DEF SnapInv
  <2>4. PassInv'
    <3> SUFFICES ASSUME NEW n \in Names, by_name'[n] # NoId, Tier(by_name'[n]) = "WaitCron",
                        open[by_name'[n]] # SENTINEL
                 PROVE  open[by_name'[n]] > clock_now_ms
      BY <2>1 DEF PassInv, Tier
    <3>1. n \notin to_remove /\ by_name'[n] = by_name[n] /\ n # visiting
      BY <2>1, Constants
    <3> QED BY <1>0, <2>1, <3>1 DEF PassInv
  <2> QED BY <2>2, <2>3, <2>4 DEF TimeInv
<1>10. CASE RefreshClock
  <2>1. /\ UNCHANGED <<now, map, open, closed, visiting>>
        /\ phase = "refresh" /\ phase' = "poll" /\ visiting = NoName
    BY <1>0, <1>10 DEF RefreshClock, SweepInv
  <2>2. SnapInv' /\ PassInv'
    BY <2>1 DEF SnapInv, PassInv
  <2> QED BY <1>2, <2>1, <2>2 DEF TimeInv
<1> QED BY <1>1, <1>3, <1>4, <1>6, <1>7, <1>8, <1>9, <1>10 DEF DaemonStep

LEMMA TimeNext == BaseInv /\ TimeInv /\ [Next]_vars => TimeInv'
<1> SUFFICES ASSUME BaseInv, TimeInv, [Next]_vars PROVE TimeInv'
  OBVIOUS
<1>0. BaseInv' /\ now \in Nat /\ \A i \in Ids : open[i] \in Nat
  BY BaseNext, TimeFacts, Constants
<1>1. ASSUME UNCHANGED <<map, words, phase, pass>>, now' = now \/ now' = now + 1 PROVE TimeInv'
  <2>1. now' >= now /\ UNCHANGED <<open, closed>>
    BY <1>0, <1>1 DEF words
  <2>2. BoundInv' /\ \A i \in Ids : open'[i] >= open[i]
    BY <1>0, <2>1 DEF TimeInv, BoundInv, Bounded
  <2> QED BY <1>0, <1>1, <2>1, <2>2, QuietTime
<1>2. CASE Tick
  BY <1>1, <1>2 DEF Tick
<1>3. CASE UNCHANGED vars
  BY <1>1, <1>3 DEF vars, map, words, pass
<1>4. CASE RequestStep
  <2>1. ASSUME NEW r \in Requests, CreateInterlock(r) PROVE TimeInv'
    BY <1>0, <2>1, CreateTime
  <2>2. ASSUME NEW r \in Requests, CreateFails(r) PROVE TimeInv'
    BY <1>1, <2>2 DEF CreateFails, vars, map, words, pass
  <2>3. ASSUME NEW n \in Names, AttachInterlock(n) PROVE TimeInv'
    BY <1>1, <2>3 DEF AttachInterlock
  <2> QED BY <1>4, <2>1, <2>2, <2>3 DEF RequestStep
<1>5. CASE DaemonStep
  BY <1>0, <1>5, DaemonTime
<1>6. CASE \E i \in Ids : ClientStep(i)
  BY <1>0, <1>6, ClientTime
<1> QED BY <1>2, <1>3, <1>4, <1>5, <1>6 DEF Next

LEMMA TimeAlways == Spec => []TimeInv
BY TimeInit, TimeNext, BaseAlways, PTL DEF Spec

(* A timer whose counters say "delivered" has run: the clock has reached   *)
(* its target, also where the owner raised the target between the daemon's *)
(* load and its stamp.                                                     *)
THEOREM TimerNeverEarlyAlways == Spec => []TimerNeverEarly
<1>1. BaseInv /\ TimeInv => TimerNeverEarly
  <2> SUFFICES ASSUME BaseInv, TimeInv, NEW i \in Allocated, Tier(i) = "WaitTimer",
                      ~Terminated(open[i], closed[i], exp[i]),
                      check_wake_state(open[i], closed[i]) # "Timeout"
               PROVE  open[ClockId] >= open[i]
    BY DEF TimerNeverEarly
  <2>1. open[i] \in Nat /\ closed[i] \in Nat /\ open[ClockId] \in Nat
    BY TimeFacts
  <2>2. closed[i] <= open[ClockId]
    BY DEF TimeInv, StampInv, Terminated
  <2>3. closed[i] >= open[i]
    BY <2>1 DEF check_wake_state
  <2> QED BY <2>1, <2>2, <2>3
<1> QED BY <1>1, BaseAlways, TimeAlways, PTL

(* A cron is armed for the grid line after its last stamp, however late    *)
(* the daemon was, and no pass leaves a registered one on a line that its  *)
(* clock has reached.                                                      *)
THEOREM CronOnGridAlways == Spec => []CronOnGrid
<1>1. BaseInv /\ TimeInv => CronOnGrid
  <2> SUFFICES ASSUME BaseInv, TimeInv, NEW i \in Allocated, Tier(i) = "WaitCron",
                      open[i] # SENTINEL
               PROVE  /\ Armed(i)
                      /\ phase = "refresh" /\ (\E n \in Names : by_name[n] = i)
                            => open[i] > clock_now_ms
    BY DEF CronOnGrid, Armed
  <2>1. Armed(i)
    BY DEF TimeInv, GridInv
  <2>2. ASSUME phase = "refresh", NEW n \in Names, by_name[n] = i PROVE open[i] > clock_now_ms
    <3>1. todo = {} /\ to_remove = {} /\ n # visiting
      BY <2>2, TimeFacts, Constants DEF SweepInv
    <3>2. i # NoId
      BY TimeFacts, Constants
    <3> QED BY <2>2, <3>1, <3>2 DEF TimeInv, PassInv
  <2> QED BY <2>1, <2>2
<1> QED BY <1>1, BaseAlways, TimeAlways, PTL

(* What a waiter of a wait tier is told never goes backwards: of all the   *)
(* steps of the daemon and of the clients none lowers the closed_count of  *)
(* an allocated region of a wait tier.                                     *)
THEOREM StampsOnlyGrowAlways == Spec => StampsOnlyGrow
<1> DEFINE Grow == \A i \in Ids : i \in Allocated /\ Tier(i) # "Interlock" => closed'[i] >= closed[i]
<1>1. BaseInv /\ TimeInv /\ [Next]_vars => Grow
  <2> SUFFICES ASSUME BaseInv, TimeInv, [Next]_vars,
                      NEW i \in Ids, i \in Allocated, Tier(i) # "Interlock"
               PROVE  closed'[i] >= closed[i]
    OBVIOUS
  <2>0. closed[i] \in Nat /\ closed[i] <= SENTINEL /\ closed \in [Ids -> Word]
        /\ closed[i] >= closed[i]
    BY TimeFacts, Constants DEF TypeOK
  <2>1. ASSUME NEW r \in Requests, CreateInterlock(r) PROVE closed'[i] >= closed[i]
    <3>1. Insert(r) /\ i # next_id
      BY <2>1, TimeFacts DEF CreateInterlock, Allocated, TypeOK
    <3> QED BY <2>0, <3>1, CreateWords
  <2>2. CASE RequestStep
    BY <2>0, <2>1, <2>2 DEF RequestStep, CreateFails, AttachInterlock, words, vars
  <2>3. CASE ReapEntry
    BY <2>0, <2>3 DEF ReapEntry, Reaped
  <2>4. CASE FireEntry
    BY <2>0, <2>4, FireWords
  <2>5. CASE DaemonStep
    BY <2>0, <2>3, <2>4, <2>5 DEF DaemonStep, AdvanceClock, EvaluateAll, Visit, SkipEntry,
       RemoveDead, RefreshClock, words
  <2>6. ASSUME NEW j \in Ids, ClientStep(j) PROVE closed'[i] >= closed[i]
    <3>1. ASSUME NEW h \in Increments, Close(j, h) PROVE closed'[i] >= closed[i]
      BY <2>0, <3>1 DEF Close, SharedPlain
    <3> QED BY <2>0, <2>6, <3>1 DEF ClientStep, Open, Touch, Free, AttachedFree, CounterTarget,
               TimerTarget, RaiseTarget
  <2> QED BY <2>0, <2>2, <2>5, <2>6 DEF Next, Tick, words, vars
<1> QED BY <1>1, BaseAlways, TimeAlways, PTL DEF Spec, StampsOnlyGrow
=============================================================================

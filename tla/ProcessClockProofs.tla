------------------------- MODULE ProcessClockProofs -------------------------
(***************************************************************************)
(* Proofs about ProcessClock, for every word width, every lease length and *)
(* every bound on time.                                                    *)
(***************************************************************************)
EXTENDS ProcessClock, TLAPS

(***************************************************************************)
(* Type correctness.                                                       *)
(***************************************************************************)

(* The values the actions store. *)
LEMMA Stored ==
    /\ 0 \in Word /\ SENTINEL \in Word /\ 0 \in 0 .. MaxTime
    /\ 0 .. MaxTime \subseteq Word /\ Targets \subseteq Word
    /\ StartTime \in 0 .. MaxTime /\ StartTime + CREATION_TTL_NANOS \in Word
BY WordAssumption, ProcessClockAssumption DEF Word

(* The lease a touch leaves is a word, not below the old one, and not      *)
(* SENTINEL.                                                               *)
LEMMA TouchedLease ==
    ASSUME TypeOK, exp # SENTINEL
    PROVE  /\ LargerOf(exp, now + TOUCH_TTL) \in Word
           /\ LargerOf(exp, now + TOUCH_TTL) >= exp
           /\ LargerOf(exp, now + TOUCH_TTL) # SENTINEL
BY WordAssumption, ProcessClockAssumption DEF TypeOK, Word, LargerOf

LEMMA TypeInit == Init => TypeOK
BY Stored DEF Init, TypeOK

LEMMA OwnerType ==
    ASSUME TypeOK, New \/ TouchStep \/ HandleEnd \/ HandleJoined \/ ProcessDies
    PROVE  TypeOK'
<1> USE Stored DEF TypeOK, words, daemon, owner, watcher
<1>1. CASE NewLoad       BY <1>1 DEF NewLoad
<1>2. CASE NewClosed     BY <1>2 DEF NewClosed
<1>3. CASE NewOpen       BY <1>3 DEF NewOpen
<1>4. CASE NewSpawn      BY <1>4 DEF NewSpawn
<1>5. CASE TouchCheck    BY <1>5 DEF TouchCheck
<1>6. CASE TouchArm
  <2>1. exp' \in Word
    BY <1>6, TouchedLease DEF TouchArm
  <2>2. reaped' \in BOOLEAN /\ tpc' \in {"read", "exited"}
    BY <1>6 DEF TouchArm
  <2> QED BY <1>6, <2>1, <2>2 DEF TouchArm
<1>7. CASE TouchRead     BY <1>7 DEF TouchRead
<1>8. CASE TouchStore    BY <1>8 DEF TouchStore
<1>9. CASE HandleEnd     BY <1>9 DEF HandleEnd, Ending
<1>10. CASE HandleJoined BY <1>10 DEF HandleJoined, Resumed
<1>11. CASE ProcessDies  BY <1>11 DEF ProcessDies
<1> QED
  BY <1>1, <1>2, <1>3, <1>4, <1>5, <1>6, <1>7, <1>8, <1>9, <1>10, <1>11 DEF New, TouchStep

LEMMA DaemonType == ASSUME TypeOK, DaemonStep PROVE TypeOK'
<1> USE Stored DEF TypeOK, words, daemon, owner, watcher, Goto
<1>1. CASE AdvanceClock  BY <1>1 DEF AdvanceClock
<1>2. CASE EvalStart     BY <1>2 DEF EvalStart
<1>3. CASE EvalLoad      BY <1>3 DEF EvalLoad
<1>4. CASE Claim
  <2>1. registered' \in BOOLEAN
    BY <1>4 DEF Claim
  <2> QED BY <1>4, <2>1 DEF Claim
<1>5. CASE ReapStore     BY <1>5 DEF ReapStore
<1>6. CASE ReapWake      BY <1>6 DEF ReapWake, Resumed
<1> QED BY <1>1, <1>2, <1>3, <1>4, <1>5, <1>6 DEF DaemonStep

LEMMA WatchType == ASSUME TypeOK, WatchStep PROVE TypeOK'
<1> USE Stored DEF TypeOK, words, daemon, owner, watcher
<1>1. CASE WatchStart  BY <1>1 DEF WatchStart
<1>2. CASE WatchLoad   BY <1>2 DEF WatchLoad, Answer
<1>3. CASE WatchFutex  BY <1>3 DEF WatchFutex
<1>4. CASE WatchExp    BY <1>4 DEF WatchExp
<1>5. CASE WatchNow    BY <1>5 DEF WatchNow, Answer
<1> QED BY <1>1, <1>2, <1>3, <1>4, <1>5 DEF WatchStep

LEMMA TypeNext == TypeOK /\ [Next]_vars => TypeOK'
<1> SUFFICES ASSUME TypeOK, [Next]_vars PROVE TypeOK'
  OBVIOUS
<1>1. CASE Tick
  BY <1>1, ProcessClockAssumption DEF Tick, TypeOK, words, daemon, owner, watcher
<1>2. CASE New \/ TouchStep \/ HandleEnd \/ HandleJoined \/ ProcessDies
  BY <1>2, OwnerType
<1>3. CASE DaemonStep
  BY <1>3, DaemonType
<1>4. CASE WatchStep
  BY <1>4, WatchType
<1>5. CASE UNCHANGED vars
  BY <1>5 DEF vars, TypeOK, words, daemon, owner, watcher
<1> QED BY <1>1, <1>2, <1>3, <1>4, <1>5 DEF Next

(* Every variable of a beacon keeps its type; in particular neither the    *)
(* creation lease nor a touch's overflows the expiration word.             *)
THEOREM TypeAlways == Spec => []TypeOK
BY TypeInit, TypeNext, PTL DEF Spec

(***************************************************************************)
(* The reap is final.                                                      *)
(***************************************************************************)

(* The daemon loads the words only of a registered entry, and between the  *)
(* last store of a reap and the next poll the lease is gone.               *)
ReapInv ==
    /\ dpc = "load" => registered
    /\ dpc = "reapWake" => exp = SENTINEL
    /\ ReapIsFinal

LEMMA ReapInvNext == TypeOK /\ ReapInv /\ [Next]_vars => ReapInv'
<1> SUFFICES ASSUME TypeOK, ReapInv, [Next]_vars PROVE ReapInv'
  OBVIOUS
<1> USE DEF ReapInv, ReapIsFinal, Reaping, words, daemon, owner, watcher
<1>1. CASE DaemonStep
  <2> USE DEF Goto
  <2>1. CASE AdvanceClock \/ EvalStart \/ Claim
    BY <2>1 DEF AdvanceClock, EvalStart, Claim
  <2>2. CASE EvalLoad
    BY <2>2 DEF EvalLoad
  <2>3. CASE ReapStore \/ ReapWake
    BY <2>3 DEF ReapStore, ReapWake
  <2> QED BY <1>1, <2>1, <2>2, <2>3 DEF DaemonStep
<1>2. CASE TouchArm
  BY <1>2 DEF TouchArm
<1>3. CASE HandleJoined
  BY <1>3 DEF HandleJoined
<1>4. CASE New \/ TouchCheck \/ TouchRead \/ TouchStore \/ HandleEnd \/ ProcessDies
  BY <1>4 DEF New, NewLoad, NewClosed, NewOpen, NewSpawn, TouchCheck, TouchRead, TouchStore,
              HandleEnd, ProcessDies
<1>5. CASE Tick \/ WatchStep \/ UNCHANGED vars
  BY <1>5 DEF Tick, WatchStep, WatchStart, WatchLoad, WatchFutex, WatchExp, WatchNow, Answer, vars
<1> QED BY <1>1, <1>2, <1>3, <1>4, <1>5 DEF Next, TouchStep

(* Once the registry has let go of a beacon, by the sweep or because       *)
(* another create took the name, its lease is SENTINEL and stays so: the   *)
(* stores of ProcessClock::new and of the touch thread that come after the *)
(* reap do not bring it back.                                              *)
THEOREM ReapIsFinalAlways == Spec => []ReapIsFinal
<1>1. Init => ReapInv
  BY DEF Init, ReapInv, ReapIsFinal
<1>2. ReapInv => ReapIsFinal
  BY DEF ReapInv
<1> QED BY <1>1, <1>2, ReapInvNext, TypeAlways, PTL DEF Spec

(***************************************************************************)
(* What a beacon shows.                                                    *)
(***************************************************************************)

(* The clock never runs ahead, and no counter of the beacon ever holds a   *)
(* time it has not shown.  Past each of its two stores new has left the    *)
(* start time, unless a reap has stored SENTINEL, and the touch thread     *)
(* carries a reading of the clock made after the start.                    *)
BeaconInv ==
    /\ clock <= now /\ start <= clock
    /\ open = SENTINEL \/ open <= clock
    /\ process \in {"newOpen", "spawn", "held"} \cup Ending => closed \in {start, SENTINEL}
    /\ process \in {"spawn", "held"} \cup Ending => open = SENTINEL \/ open >= start
    /\ process \in {"new", "newClosed", "newOpen", "spawn"} => tpc = "none"
    /\ tpc = "store" => clock_now \in start .. clock
    /\ WatchedTimeIsReal

LEMMA BeaconInit == Init => BeaconInv
BY ProcessClockAssumption DEF Init, BeaconInv, WatchedTimeIsReal, Ending

LEMMA OwnerBeacon ==
    ASSUME TypeOK, BeaconInv, New \/ TouchStep \/ HandleEnd \/ HandleJoined \/ ProcessDies
    PROVE  BeaconInv'
<1> USE DEF BeaconInv, WatchedTimeIsReal, words, daemon, owner, watcher, Ending
<1>0. /\ clock \in Nat /\ now \in Nat /\ start \in Nat /\ open \in Nat /\ clock_now \in Nat
      /\ target \in Nat
  BY WordAssumption, ProcessClockAssumption DEF TypeOK, Word
<1>1. CASE NewLoad       BY <1>0, <1>1 DEF NewLoad
<1>2. CASE NewClosed     BY <1>0, <1>2 DEF NewClosed
<1>3. CASE NewOpen       BY <1>0, <1>3 DEF NewOpen
<1>4. CASE NewSpawn      BY <1>0, <1>4 DEF NewSpawn
<1>5. CASE TouchCheck    BY <1>0, <1>5 DEF TouchCheck
<1>6. CASE TouchArm      BY <1>0, <1>6 DEF TouchArm
<1>7. CASE TouchRead     BY <1>0, <1>7 DEF TouchRead
<1>8. CASE TouchStore    BY <1>0, <1>8 DEF TouchStore
<1>9. CASE HandleEnd     BY <1>0, <1>9 DEF HandleEnd
<1>10. CASE HandleJoined BY <1>0, <1>10 DEF HandleJoined
<1>11. CASE ProcessDies  BY <1>0, <1>11 DEF ProcessDies
<1> QED
  BY <1>1, <1>2, <1>3, <1>4, <1>5, <1>6, <1>7, <1>8, <1>9, <1>10, <1>11 DEF New, TouchStep

LEMMA BeaconNext == TypeOK /\ BeaconInv /\ [Next]_vars => BeaconInv'
<1> SUFFICES ASSUME TypeOK, BeaconInv, [Next]_vars PROVE BeaconInv'
  OBVIOUS
<1> USE DEF BeaconInv, WatchedTimeIsReal, words, daemon, owner, watcher
<1>0. /\ clock \in Nat /\ now \in Nat /\ start \in Nat /\ open \in Nat /\ clock_now \in Nat
      /\ target \in Nat
  BY WordAssumption, ProcessClockAssumption DEF TypeOK, Word
<1>1. CASE New \/ TouchStep \/ HandleEnd \/ HandleJoined \/ ProcessDies
  BY <1>1, OwnerBeacon
<1>2. CASE Tick
  BY <1>0, <1>2 DEF Tick
<1>3. CASE AdvanceClock
  BY <1>0, <1>3 DEF AdvanceClock
<1>4. CASE EvalStart \/ EvalLoad \/ Claim
  BY <1>0, <1>4 DEF EvalStart, EvalLoad, Claim
<1>5. CASE ReapStore \/ ReapWake
  BY <1>0, <1>5 DEF ReapStore, ReapWake
<1>6. CASE WatchStart
  BY <1>0, <1>6 DEF WatchStart
<1>7. CASE WatchLoad
  BY <1>0, <1>7 DEF WatchLoad, Answer
<1>8. CASE WatchFutex \/ WatchExp \/ WatchNow \/ UNCHANGED vars
  BY <1>0, <1>8 DEF WatchFutex, WatchExp, WatchNow, Answer, vars
<1> QED BY <1>1, <1>2, <1>3, <1>4, <1>5, <1>6, <1>7, <1>8 DEF Next, DaemonStep, WatchStep

LEMMA BeaconAlways == Spec => []BeaconInv
BY BeaconInit, BeaconNext, TypeAlways, PTL DEF Spec

(* While a process holds its beacon and the beacon is not terminated,      *)
(* closed_count is the start time and open_count a time between the start  *)
(* and the clock, wherever the touch thread, a reap and the daemon's clock *)
(* store are: uptime_ms is neither negative nor ahead.                     *)
THEOREM UptimeIsRealAlways == Spec => []UptimeIsReal
<1>1. TypeOK /\ BeaconInv => UptimeIsReal
  BY WordAssumption DEF TypeOK, BeaconInv, UptimeIsReal, Terminated, Word, Ending
<1> QED BY <1>1, TypeAlways, BeaconAlways, PTL

(* A wait_open on a beacon that succeeds was given a time that the system  *)
(* clock has reached, never the SENTINEL of a reap.                        *)
THEOREM WatchedTimeIsRealAlways == Spec => []WatchedTimeIsReal
<1>1. BeaconInv => WatchedTimeIsReal
  BY DEF BeaconInv
<1> QED BY <1>1, BeaconAlways, PTL
=============================================================================

-------------------------- MODULE WaitRaceProofs ---------------------------
(***************************************************************************)
(* Proofs about WaitRace, for every number of counters and every width of  *)
(* the words.                                                              *)
(***************************************************************************)
EXTENDS WaitRace, TLAPS

(* The second load of a peek is of a counter of the race. *)
LoopInv == pc = "closedLoad" => i \in Counters

LEMMA RaceTypeInit == Init => TypeOK /\ LoopInv
BY WordAssumption, RaceAssumption DEF Init, TypeOK, LoopInv, Counters, None, NoResult, Word

LEMMA RaceTypeNext == TypeOK /\ LoopInv /\ [Next]_vars => TypeOK' /\ LoopInv'
<1> SUFFICES ASSUME TypeOK, LoopInv, [Next]_vars PROVE TypeOK' /\ LoopInv'
  OBVIOUS
<1> USE WordAssumption, RaceAssumption DEF TypeOK, LoopInv, daemon, race
<1>0. SENTINEL \in Word /\ 0 \in Word /\ 0 .. MaxCount \subseteq Word
  BY DEF Word
<1>1. CASE UNCHANGED vars
  BY <1>1 DEF vars
<1>2. ASSUME NEW c \in Counters, Stamp(c) PROVE TypeOK' /\ LoopInv'
  BY <1>0, <1>2 DEF Stamp, Store
<1>3. ASSUME NEW c \in Counters, ReapOpen(c) PROVE TypeOK' /\ LoopInv'
  BY <1>0, <1>3 DEF ReapOpen
<1>4. ASSUME NEW c \in Counters, ReapClosed(c) PROVE TypeOK' /\ LoopInv'
  BY <1>0, <1>4 DEF ReapClosed, Store
<1>5. CASE Start
  BY <1>0, <1>5 DEF Start, NoResult, None, Counters
<1>6. CASE Snapshot
  BY <1>6 DEF Snapshot, Counters
<1>7. CASE OpenLoad
  BY <1>7 DEF OpenLoad, Counters
<1>8. CASE ClosedLoad
  <2>1. check_wake_state(ropen, closed[i]) \in {"Normal", "Overrun", "Timeout"}
    BY DEF check_wake_state
  <2> QED BY <1>0, <1>8, <2>1 DEF ClosedLoad, Counters
<1>9. CASE Sleep
  BY <1>9 DEF Sleep
<1> QED BY <1>1, <1>2, <1>3, <1>4, <1>5, <1>6, <1>7, <1>8, <1>9 DEF Next, DaemonStep, RaceStep

LEMMA RaceTypeAlways == Spec => [](TypeOK /\ LoopInv)
BY RaceTypeInit, RaceTypeNext, PTL DEF Spec

(* The words, the locals of wait and what it returns keep their types.     *)
THEOREM RaceTypeCorrect == Spec => []TypeOK
BY RaceTypeAlways, PTL

(***************************************************************************)
(* The winner of a race was delivered during the call.                     *)
(***************************************************************************)
(* What closed_count holds beyond the snapshot was stored in this call. *)
SnapInv ==
    \A c \in Counters :
        pc \in Polling \/ (pc = "snapshot" /\ c < i)
            => closed[c] = initial[c] \/ closed[c] \in stamps[c]

(* The target of a counter stays what it was when the call began until the *)
(* reap, so what is stored in the meantime is not below it.                *)
StampInv == \A c \in Counters : open[c] # SENTINEL => \A v \in stamps[c] : v >= open[c]

(* The first half of a peek is up to date, or the counter is being reaped. *)
PeekInv == pc = "closedLoad" => ropen = open[i] \/ open[i] = SENTINEL

RaceInv == SnapInv /\ StampInv /\ PeekInv /\ WinnerIsReal

LEMMA RaceInit == Init => RaceInv
BY DEF Init, RaceInv, SnapInv, StampInv, PeekInv, WinnerIsReal, Polling

(* A store of the daemon adds to the history and lowers no count. *)
LEMMA StoreRace ==
    ASSUME TypeOK, LoopInv, RaceInv, NEW c \in Counters, NEW v \in Word, Store(c, v),
           v >= open[c], UNCHANGED <<open, race>>
    PROVE  RaceInv'
<1> USE DEF TypeOK, LoopInv, RaceInv, Store, race
<1>0. \A b \in Counters : /\ stamps'[b] = IF b = c THEN stamps[b] \cup {v} ELSE stamps[b]
                          /\ closed'[b] = IF b = c THEN v ELSE closed[b]
  OBVIOUS
<1>1. SnapInv'
  BY <1>0 DEF SnapInv
<1>2. StampInv'
  BY <1>0 DEF StampInv
<1>3. PeekInv'
  BY DEF PeekInv
<1>4. WinnerIsReal'
  BY <1>0 DEF WinnerIsReal
<1> QED BY <1>1, <1>2, <1>3, <1>4

LEMMA RaceNext == TypeOK /\ LoopInv /\ RaceInv /\ [Next]_vars => RaceInv'
<1> SUFFICES ASSUME TypeOK, LoopInv, RaceInv, [Next]_vars PROVE RaceInv'
  OBVIOUS
<1>0. SENTINEL \in Word /\ 0 .. MaxCount \subseteq Word /\ \A w \in Word : SENTINEL >= w
  BY WordAssumption, RaceAssumption DEF Word
<1>1. CASE UNCHANGED vars
  BY <1>1 DEF RaceInv, SnapInv, StampInv, PeekInv, WinnerIsReal, vars, daemon, race
<1>2. ASSUME NEW c \in Counters, Stamp(c) PROVE RaceInv'
  <2>1. PICK v \in (0 .. MaxCount) \cup {SENTINEL} : v >= open[c] /\ Store(c, v)
    BY <1>2 DEF Stamp
  <2> QED BY <1>0, <1>2, <2>1, StoreRace DEF Stamp
<1>3. ASSUME NEW c \in Counters, ReapOpen(c) PROVE RaceInv'
  BY <1>3 DEF ReapOpen, TypeOK, LoopInv, RaceInv, SnapInv, StampInv, PeekInv, WinnerIsReal, race
<1>4. ASSUME NEW c \in Counters, ReapClosed(c) PROVE RaceInv'
  BY <1>0, <1>4, StoreRace DEF ReapClosed, TypeOK
<1>5. CASE Start
  BY <1>5, RaceAssumption
     DEF Start, RaceInv, SnapInv, StampInv, PeekInv, WinnerIsReal, Counters, Polling
<1>6. CASE Snapshot
  BY <1>6, RaceAssumption
     DEF Snapshot, TypeOK, RaceInv, SnapInv, StampInv, PeekInv, WinnerIsReal, Counters, Polling,
         daemon
<1>7. CASE OpenLoad
  BY <1>7 DEF OpenLoad, RaceInv, SnapInv, StampInv, PeekInv, WinnerIsReal, Polling, daemon
<1>8. CASE ClosedLoad
  <2> USE DEF daemon
  <2>1. i \in Counters /\ closed[i] \in Word /\ open[i] \in Word /\ initial[i] \in Word
    BY <1>8 DEF ClosedLoad, LoopInv, TypeOK
  <2>2. SnapInv' /\ StampInv' /\ PeekInv'
    BY <1>8 DEF ClosedLoad, RaceInv, SnapInv, StampInv, PeekInv, Polling
  <2>3. CASE closed[i] > initial[i]
    <3>1. winner' = i /\ result'.completed_at = closed[i]
          /\ result'.state = check_wake_state(ropen, closed[i]) /\ UNCHANGED <<open, stamps>>
      BY <1>8, <2>1, <2>3 DEF ClosedLoad, Word
    <3>2. closed[i] \in stamps[i]
      BY <1>8, <2>1, <2>3 DEF ClosedLoad, RaceInv, SnapInv, Polling, Word
    <3>3. check_wake_state(ropen, closed[i]) = "Timeout" => open[i] = SENTINEL
      BY <1>8, <2>1, <3>2
         DEF ClosedLoad, RaceInv, StampInv, PeekInv, check_wake_state, Word
    <3> QED BY <2>2, <3>1, <3>2, <3>3 DEF RaceInv, WinnerIsReal
  <2>4. CASE closed[i] <= initial[i]
    BY <1>8, <2>1, <2>2, <2>4 DEF ClosedLoad, RaceInv, WinnerIsReal, Word
  <2> QED BY <2>1, <2>3, <2>4 DEF Word
<1>9. CASE Sleep
  BY <1>9 DEF Sleep, RaceInv, SnapInv, StampInv, PeekInv, WinnerIsReal, Polling, daemon
<1> QED BY <1>1, <1>2, <1>3, <1>4, <1>5, <1>6, <1>7, <1>8, <1>9 DEF Next, DaemonStep, RaceStep

(* WaitRace::wait returns a counter only with a value that the daemon      *)
(* stored in it during this call, and reports a Timeout only for one that  *)
(* is being reaped.                                                        *)
THEOREM WinnerIsRealAlways == Spec => []WinnerIsReal
<1>1. RaceInv => WinnerIsReal
  BY DEF RaceInv
<1> QED BY <1>1, RaceInit, RaceNext, RaceTypeAlways, PTL DEF Spec
=============================================================================

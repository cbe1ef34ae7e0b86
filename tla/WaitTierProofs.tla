--------------------------- MODULE WaitTierProofs ---------------------------
(***************************************************************************)
(* Proofs about WaitTier, for every set of tiers and threads, every word   *)
(* width, every lease length and every bound.                              *)
(***************************************************************************)
EXTENDS WaitTier, TLAPS

(***************************************************************************)
(* The constants and the arithmetic.                                       *)
(***************************************************************************)

(* The assumptions on the constants, in the form the proofs use them. *)
LEMMA Constants ==
    /\ SENTINEL \in Nat /\ Word = 0 .. SENTINEL /\ 0 \in Word /\ 1 \in Word /\ SENTINEL \in Word
    /\ NANOS_PER_MS \in Nat /\ NANOS_PER_MS >= 1 /\ interval_ms \in Nat /\ interval_ms >= 1
    /\ MaxCount \in Nat /\ 2 * MaxCount < SENTINEL /\ Targets \subseteq 0 .. MaxCount
    /\ threshold \in 0 .. MaxCount /\ Durations \subseteq Nat
    /\ Gone = -1
BY WordAssumption, WaitTierAssumption DEF Word, Gone

LEMMA TierConstants ==
    ASSUME NEW x \in Tiers
    PROVE  /\ MaxTime[x] \in Nat /\ StartTime \in 0 .. MaxTime[x]
           /\ MaxTime[x] + WAIT_TTL < SENTINEL /\ WAIT_TTL \in Nat
           /\ MaxTime[x] + TOUCH_TTL < SENTINEL /\ TOUCH_TTL \in Nat
           /\ MaxTime[x] + CREATION_TTL_NANOS < SENTINEL /\ CREATION_TTL_NANOS \in Nat
           /\ MaxTime[x] + CLOCK_TTL_NANOS < SENTINEL /\ CLOCK_TTL_NANOS \in Nat
           /\ 2 * (MaxTime[x] + interval_ms) < SENTINEL
           /\ MaxTime[x] < SENTINEL
BY WaitTierAssumption, Constants

LEMMA DivMod ==
    ASSUME NEW c \in Nat, NEW k \in Nat, k >= 1
    PROVE  /\ c \div k \in Nat /\ c \div k <= c
           /\ c % k \in 0 .. (k - 1) /\ c = k * (c \div k) + (c % k)
OBVIOUS

LEMMA DivMonotone ==
    ASSUME NEW a \in Nat, NEW b \in Nat, a <= b, NEW k \in Nat, k >= 1
    PROVE  a \div k <= b \div k
<1> DEFINE p == a \div k
           q == b \div k
<1>1. p \in Nat /\ q \in Nat /\ k * p <= a /\ b < k * q + k
  BY DivMod
<1> HIDE DEF p, q
<1>2. k * p < k * (q + 1)
  BY <1>1
<1>3. ~ (p >= q + 1)
  <2> SUFFICES ASSUME p >= q + 1 PROVE FALSE
    OBVIOUS
  <2>1. k * p >= k * (q + 1)
    BY <1>1
  <2> QED BY <1>1, <1>2, <2>1
<1>4. p <= q
  BY <1>1, <1>3
<1> QED BY <1>4 DEF p, q

LEMMA MultipleMod == ASSUME NEW m \in Nat, NEW k \in Nat, k >= 1 PROVE (m * k) % k = 0
<1> DEFINE q == (m * k) \div k
           r == (m * k) % k
<1>1. m * k \in Nat
  OBVIOUS
<1>2. r \in 0 .. (k - 1) /\ m * k = k * q + r /\ q \in Nat
  BY <1>1, DivMod
<1> HIDE DEF q, r
<1>3. r = k * (m - q)
  BY <1>2
<1>4. CASE m - q >= 1
  <2>1. k * (m - q) >= k
    BY <1>2, <1>4
  <2> QED BY <1>2, <1>3, <2>1
<1>5. CASE m - q <= -1
  <2>1. k * (m - q) <= -k
    BY <1>2, <1>5
  <2> QED BY <1>2, <1>3, <2>1
<1>6. CASE m = q
  BY <1>2, <1>6 DEF r
<1> QED BY <1>2, <1>4, <1>5, <1>6

(* The next grid line is a multiple of the interval, strictly after the    *)
(* clock; the product does not wrap.                                       *)
LEMMA NextLineGrid ==
    ASSUME NEW c \in Nat, c + interval_ms < SENTINEL
    PROVE  /\ next_line(c, interval_ms) \in Word /\ next_line(c, interval_ms) # SENTINEL
           /\ next_line(c, interval_ms) % interval_ms = 0
           /\ c < next_line(c, interval_ms)
<1> DEFINE q == c \div interval_ms
           line == (q + 1) * interval_ms
<1>1. q \in Nat /\ c = interval_ms * q + (c % interval_ms) /\ c % interval_ms \in 0 .. (interval_ms - 1)
  BY DivMod, Constants
<1> HIDE DEF q
<1>2. line \in Nat /\ c < line /\ line <= c + interval_ms
  BY <1>1, Constants
<1>3. line % interval_ms = 0
  <2>1. q + 1 \in Nat
    BY <1>1
  <2> QED BY <2>1, MultipleMod, Constants
<1> HIDE DEF line
<1>4. line < SENTINEL /\ line < SENTINEL + 1 /\ SENTINEL + 1 \in Nat
  BY <1>2, Constants
<1>5. line % (SENTINEL + 1) = line
  BY <1>2, <1>4
<1>6. next_line(c, interval_ms) = line
  BY <1>5 DEF next_line, line, q
<1> QED BY <1>2, <1>3, <1>4, <1>6, Constants

(***************************************************************************)
(* Type correctness.  It rests on the budgets of the waits under way: the  *)
(* lease and the deadline of a wait are words only because the time to     *)
(* live of its call fits.                                                  *)
(***************************************************************************)
BudgetInv == \A t \in Waiters : MaxTime[tier] + ttl[t] < SENTINEL

LoadSet == [open : Word, closed : Word, exp : Word, timed_out : BOOLEAN]
ResultSet == [state : Outcomes, completed_at : Word]
PcSet == {"idle", "aborted"} \cup CallPcs

LEMMA TypeFacts ==
    ASSUME TypeOK
    PROVE  /\ tier \in Tiers /\ MaxTime[tier] \in Nat /\ MaxTime[tier] < SENTINEL
           /\ MaxClock \in Nat /\ MaxClock <= MaxTime[tier]
           /\ open \in Nat /\ closed \in Nat /\ exp \in Nat
           /\ now \in Nat /\ now <= MaxTime[tier] /\ clock \in Nat /\ clock <= MaxClock
           /\ now \div NANOS_PER_MS \in 0 .. MaxClock
           /\ dclock \in Nat /\ dclock <= MaxClock /\ dnow \in Nat /\ dopen \in Nat
           /\ dclosed \in Nat /\ dvalue \in Nat /\ highest \in Nat
           /\ pc \in [Waiters -> PcSet] /\ loads \in [Waiters -> LoadSet]
           /\ result \in [Waiters -> ResultSet]
           /\ NoLoads \in LoadSet /\ NoResult \in ResultSet
<1>1. tier \in Tiers /\ MaxTime[tier] \in Nat /\ MaxTime[tier] < SENTINEL
  BY TierConstants DEF TypeOK
<1>2. MaxClock \in Nat /\ MaxClock <= MaxTime[tier]
  BY <1>1, DivMod, Constants DEF MaxClock
<1>3. now \in Nat /\ now <= MaxTime[tier]
  BY <1>1 DEF TypeOK
<1>4. now \div NANOS_PER_MS \in 0 .. MaxClock
  <2>1. now \div NANOS_PER_MS \in Nat /\ now \div NANOS_PER_MS <= MaxClock
    BY <1>1, <1>3, DivMod, DivMonotone, Constants DEF MaxClock
  <2> QED BY <1>2, <2>1
<1>5. NoLoads \in LoadSet /\ NoResult \in ResultSet
  BY Constants DEF NoLoads, LoadSet, NoResult, ResultSet, Outcomes
<1> QED BY <1>1, <1>2, <1>3, <1>4, <1>5, Constants DEF TypeOK, LoadSet, ResultSet, PcSet

LEMMA TypeInit == Init => TypeOK /\ BudgetInv
<1> SUFFICES ASSUME Init PROVE TypeOK /\ BudgetInv
  OBVIOUS
<1>1. tier \in Tiers /\ MaxTime[tier] \in Nat /\ StartTime \in Nat /\ StartTime <= MaxTime[tier]
  BY TierConstants DEF Init
<1> DEFINE ms == StartTime \div NANOS_PER_MS
<1>2. ms \in Nat /\ ms <= StartTime /\ ms <= MaxClock /\ MaxClock \in Nat
  <2>1. ms \in Nat /\ ms <= StartTime /\ MaxClock \in Nat
    BY <1>1, DivMod, Constants DEF MaxClock
  <2>2. ms <= MaxClock
    BY <1>1, DivMonotone, Constants DEF MaxClock
  <2> QED BY <2>1, <2>2
<1> HIDE DEF ms
<1>3. ms + interval_ms < SENTINEL /\ ms \in Word
  BY <1>1, <1>2, TierConstants, Constants
<1>4. next_line(ms, interval_ms) \in Word
  BY <1>2, <1>3, NextLineGrid
<1>5. open \in Word /\ closed \in Word
  BY <1>3, <1>4, Constants DEF Init, ms
<1>6. exp \in Word
  <2>1. /\ MaxTime[tier] + CREATION_TTL_NANOS < SENTINEL /\ CREATION_TTL_NANOS \in Nat
        /\ MaxTime[tier] + CLOCK_TTL_NANOS < SENTINEL /\ CLOCK_TTL_NANOS \in Nat
    BY <1>1, TierConstants
  <2>2. StartTime + CLOCK_TTL_NANOS \in Word /\ StartTime + CREATION_TTL_NANOS \in Word
    BY <1>1, <2>1, Constants
  <2> QED BY <2>2 DEF Init
<1>7. clock \in 0 .. MaxClock /\ now \in 0 .. MaxTime[tier]
  BY <1>1, <1>2, <1>3 DEF Init, ms
<1>8. loads \in [Waiters -> LoadSet] /\ result \in [Waiters -> ResultSet]
  BY Constants DEF Init, LoadSet, ResultSet, NoLoads, NoResult, Outcomes
<1>9. BudgetInv
  BY <1>1, TierConstants DEF Init, BudgetInv
<1>10. dclock \in 0 .. MaxClock /\ dnow \in 0 .. MaxTime[tier]
  BY <1>1, <1>2 DEF Init
<1>11. /\ target \in [Waiters -> Word] /\ ttl \in [Waiters -> Word]
       /\ deadline \in [Waiters -> Word] /\ initial \in [Waiters -> Word]
       /\ on \in [Waiters -> {"open", "closed"}] /\ pc \in [Waiters -> {"idle"}]
  BY Constants DEF Init
<1>12. tpc \in {"check", "exited"} /\ stop \in BOOLEAN /\ registered \in BOOLEAN
  BY DEF Init
<1>13. TypeOK
  BY <1>5, <1>6, <1>7, <1>8, <1>10, <1>11, <1>12, Constants DEF Init, TypeOK, LoadSet, ResultSet
<1> QED BY <1>9, <1>13

(* The common parts of the waiters' actions. *)
LEMMA GotoType ==
    ASSUME TypeOK, NEW t \in Waiters, NEW label \in PcSet, NEW l \in LoadSet, Goto(t, label, l)
    PROVE  /\ pc' \in [Waiters -> PcSet] /\ loads' \in [Waiters -> LoadSet]
           /\ UNCHANGED <<ttl, deadline, result>>
BY DEF TypeOK, Goto, LoadSet, PcSet

LEMMA ReturnType ==
    ASSUME TypeOK, NEW t \in Waiters, NEW state \in Outcomes, NEW c \in Word, Return(t, state, c)
    PROVE  /\ pc' \in [Waiters -> PcSet] /\ loads' \in [Waiters -> LoadSet]
           /\ result' \in [Waiters -> ResultSet]
           /\ ttl' \in [Waiters -> Word] /\ deadline' \in [Waiters -> Word]
           /\ ttl' = [ttl EXCEPT ![t] = 0]
BY TypeFacts, Constants DEF TypeOK, Return, PcSet, ResultSet

LEMMA ReapedType ==
    ASSUME TypeOK, NEW t \in Waiters, Reaped(t)
    PROVE  /\ pc' \in [Waiters -> PcSet] /\ loads' \in [Waiters -> LoadSet]
           /\ result' \in [Waiters -> ResultSet]
           /\ ttl' \in [Waiters -> Word] /\ deadline' \in [Waiters -> Word]
           /\ ttl' = [ttl EXCEPT ![t] = 0]
BY ReturnType, Constants DEF Reaped, Outcomes

(* How a waiter's step keeps the types, from the variables it may change. *)
LEMMA WaiterType ==
    ASSUME TypeOK, BudgetInv, NEW t \in Waiters, Keep, UNCHANGED closed,
           open' \in Word, exp' \in Word,
           pc' \in [Waiters -> PcSet], loads' \in [Waiters -> LoadSet],
           result' \in [Waiters -> ResultSet],
           ttl' \in [Waiters -> Word], deadline' \in [Waiters -> Word],
           ttl' = ttl \/ ttl' = [ttl EXCEPT ![t] = 0]
    PROVE  TypeOK' /\ BudgetInv'
<1>1. UNCHANGED <<closed, tier, now, clock, watched, highest, registered, cycle, dpc, dclock, dnow,
                  dopen, dclosed, dvalue, target, initial, on, handle, tpc, stop>>
  BY DEF Keep, env, daemon, dlocal, touch
<1>2. TypeOK'
  BY <1>1 DEF TypeOK, PcSet, LoadSet, ResultSet, MaxClock
<1>3. BudgetInv'
  <2>1. \A u \in Waiters : ttl'[u] = ttl[u] \/ ttl'[u] = 0
    BY DEF TypeOK
  <2>2. MaxTime[tier] + 0 < SENTINEL
    BY TypeFacts
  <2> QED BY <1>1, <2>1, <2>2 DEF BudgetInv
<1> QED BY <1>2, <1>3

LEMMA BeginType ==
    ASSUME TypeOK, BudgetInv, NEW t \in Waiters, NEW label \in PcSet, NEW x \in Word, NEW d \in Word,
           MaxTime[tier] + d < SENTINEL, NEW c \in Word, NEW w \in {"open", "closed"},
           Begin(t, label, x, d, c, w)
    PROVE  TypeOK' /\ BudgetInv'
<1>1. UNCHANGED <<open, closed, exp, tier, now, clock, watched, highest, registered, cycle, dpc,
                  dclock, dnow, dopen, dclosed, dvalue, deadline, loads, handle, tpc, stop>>
  BY DEF Begin, words, env, daemon, dlocal, touch
<1>2. /\ pc' \in [Waiters -> PcSet] /\ target' \in [Waiters -> Word] /\ ttl' \in [Waiters -> Word]
      /\ initial' \in [Waiters -> Word] /\ on' \in [Waiters -> {"open", "closed"}]
      /\ result' \in [Waiters -> ResultSet]
  BY TypeFacts DEF Begin, TypeOK
<1>3. TypeOK'
  BY <1>1, <1>2 DEF TypeOK, PcSet, ResultSet, MaxClock
<1>4. \A u \in Waiters : ttl'[u] = IF u = t THEN d ELSE ttl[u]
  BY DEF Begin, TypeOK
<1>5. BudgetInv'
  BY <1>1, <1>4 DEF BudgetInv
<1> QED BY <1>3, <1>5

LEMMA StartType ==
    ASSUME TypeOK, BudgetInv, NEW t \in Waiters, WaitStart(t) PROVE TypeOK' /\ BudgetInv'
<1>0. /\ {"raise", "loadClosed", "clockLoad"} \subseteq PcSet
      /\ MaxTime[tier] + 0 < SENTINEL /\ tier \in Tiers
  BY TypeFacts DEF PcSet, CallPcs, LoopPcs
<1>1. CASE ClockStart(t)
  <2>1. PICK x \in Targets, w \in {"open", "closed"} : Begin(t, "clockLoad", x, 0, 0, w)
    BY <1>1 DEF ClockStart
  <2>2. x \in Word
    BY Constants
  <2> QED BY <1>0, <2>1, <2>2, BeginType, Constants
<1>2. CASE TimerStart(t)
  <2>1. PICK ms \in Durations : Begin(t, "raise", clock + ms, 2 * ms * NANOS_PER_MS, 0, "closed")
    BY <1>2 DEF TimerStart
  <2> DEFINE d == 2 * ms * NANOS_PER_MS
  <2>2. ms \in Nat /\ 2 * (MaxTime[tier] + d) < SENTINEL
    BY <1>0, Constants, WaitTierAssumption
  <2>3. d \in Nat /\ ms <= d
    BY <2>2, Constants
  <2> HIDE DEF d
  <2>4. /\ MaxTime[tier] \in Nat /\ clock \in Nat /\ clock <= MaxTime[tier]
        /\ SENTINEL \in Nat /\ Word = 0 .. SENTINEL
    BY TypeFacts, Constants
  <2>5. MaxTime[tier] + d < SENTINEL /\ d \in Word /\ clock + ms \in Word
    BY <2>2, <2>3, <2>4
  <2> QED BY <1>0, <2>1, <2>5, BeginType, Constants DEF d
<1>3. CASE CounterStart(t)
  <2>1. PICK x \in Targets : Begin(t, "raise", x, WAIT_TTL, 0, "closed")
    BY <1>3 DEF CounterStart
  <2>2. x \in Word /\ WAIT_TTL \in Word /\ MaxTime[tier] + WAIT_TTL < SENTINEL
    BY <1>0, TierConstants, Constants
  <2> QED BY <1>0, <2>1, <2>2, BeginType, Constants
<1>4. CASE CronStart(t)
  <2>1. Begin(t, "loadClosed", 0, 0, closed, "closed") /\ closed \in Word
    BY <1>4 DEF CronStart, TypeOK
  <2> QED BY <1>0, <2>1, BeginType, Constants
<1>5. CASE BarrierStart(t)
  <2>1. Begin(t, "loadClosed", 0, 0, 0, "closed")
    BY <1>5 DEF BarrierStart
  <2> QED BY <1>0, <2>1, BeginType, Constants
<1> QED BY <1>1, <1>2, <1>3, <1>4, <1>5 DEF WaitStart

LEMMA StepType ==
    ASSUME TypeOK, BudgetInv, NEW t \in Waiters, WaitStep(t) PROVE TypeOK' /\ BudgetInv'
<1>0. /\ open \in Word /\ closed \in Word /\ exp \in Word /\ target[t] \in Word
      /\ ttl \in [Waiters -> Word] /\ deadline \in [Waiters -> Word]
      /\ loads[t] \in LoadSet /\ NoLoads \in LoadSet /\ result \in [Waiters -> ResultSet]
      /\ on[t] \in {"open", "closed"} /\ AfterFutex \in PcSet
      /\ CallPcs \subseteq PcSet /\ "aborted" \in PcSet
  BY TypeFacts DEF TypeOK, AfterFutex, PcSet, CallPcs, LoopPcs
<1>1. CASE RaiseLoad(t)
  <2>1. [NoLoads EXCEPT !.open = open] \in LoadSet /\ {"arm", "raiseCas"} \subseteq PcSet
    BY <1>0 DEF LoadSet, PcSet, CallPcs
  <2>2. PICK label \in PcSet, l \in LoadSet : Goto(t, label, l)
    BY <1>0, <1>1, <2>1 DEF RaiseLoad
  <2> QED BY <1>0, <1>1, <2>2, GotoType, WaiterType DEF RaiseLoad, words
<1>2. CASE RaiseCas(t)
  <2>1. {"arm", "raise"} \subseteq PcSet
    BY DEF PcSet, CallPcs
  <2>2. PICK label \in PcSet, l \in LoadSet : Goto(t, label, l)
    BY <1>0, <1>2, <2>1 DEF RaiseCas
  <2>3. open' \in Word /\ UNCHANGED <<closed, exp>> /\ Keep
    BY <1>0, <1>2 DEF RaiseCas
  <2> QED BY <1>0, <2>2, <2>3, GotoType, WaiterType
<1>3. CASE Arm(t)
  <2>1. UNCHANGED <<open, closed>> /\ Keep
    BY <1>3 DEF Arm
  <2>2. CASE exp = SENTINEL /\ Reaped(t) /\ UNCHANGED exp
    BY <1>0, <2>1, <2>2, ReapedType, WaiterType
  <2>3. CASE /\ exp # SENTINEL
             /\ exp' = LargerOf(exp, now + ttl[t])
             /\ Goto(t, IF tier = "WaitTimer" THEN "setDeadline" ELSE "loadClosed", NoLoads)
    <3>1. {"setDeadline", "loadClosed"} \subseteq PcSet
      BY DEF PcSet, CallPcs, LoopPcs
    <3>2. PICK label \in PcSet, l \in LoadSet : Goto(t, label, l)
      BY <1>0, <2>3, <3>1
    <3>3. now + ttl[t] < SENTINEL /\ now + ttl[t] \in Nat
      <4>1. /\ ttl[t] \in Nat /\ now \in Nat /\ now <= MaxTime[tier] /\ MaxTime[tier] \in Nat
            /\ MaxTime[tier] + ttl[t] < SENTINEL
        BY <1>0, TypeFacts, Constants DEF BudgetInv
      <4> QED BY <4>1, Constants
    <3>4. exp' \in Word
      BY <1>0, <2>3, <3>3, Constants DEF LargerOf
    <3> QED BY <1>0, <2>1, <3>2, <3>4, GotoType, WaiterType
  <2> QED BY <1>3, <2>2, <2>3 DEF Arm
<1>4. CASE SetDeadline(t)
  <2>1. now + ttl[t] \in Word
    <3>1. /\ ttl[t] \in Nat /\ now \in Nat /\ now <= MaxTime[tier] /\ MaxTime[tier] \in Nat
          /\ MaxTime[tier] + ttl[t] < SENTINEL
      BY <1>0, TypeFacts, Constants DEF BudgetInv
    <3> QED BY <3>1, Constants
  <2>2. /\ deadline' \in [Waiters -> Word] /\ ttl' \in [Waiters -> Word]
        /\ pc' \in [Waiters -> PcSet]
    BY <1>0, <1>4, <2>1, TypeFacts, Constants DEF SetDeadline, PcSet, CallPcs, LoopPcs
  <2>3. /\ UNCHANGED <<open, closed, exp, result, loads>> /\ Keep /\ ttl' = [ttl EXCEPT ![t] = 0]
        /\ loads \in [Waiters -> LoadSet]
    BY <1>4, TypeFacts DEF SetDeadline, words
  <2> QED BY <1>0, <2>2, <2>3, WaiterType
<1>5. ASSUME UNCHANGED words, Keep,
             \/ \E label \in PcSet, l \in LoadSet : Goto(t, label, l)
             \/ \E state \in Outcomes, c \in Word : Return(t, state, c)
      PROVE  TypeOK' /\ BudgetInv'
  <2>1. UNCHANGED <<open, closed, exp>>
    BY <1>5 DEF words
  <2>2. ASSUME NEW label \in PcSet, NEW l \in LoadSet, Goto(t, label, l)
        PROVE  TypeOK' /\ BudgetInv'
    BY <1>0, <1>5, <2>1, <2>2, GotoType, WaiterType
  <2>3. ASSUME NEW state \in Outcomes, NEW c \in Word, Return(t, state, c)
        PROVE  TypeOK' /\ BudgetInv'
    BY <1>0, <1>5, <2>1, <2>3, ReturnType, WaiterType
  <2> QED BY <1>5, <2>2, <2>3
<1>6. Reaped(t) => \E state \in Outcomes, c \in Word : Return(t, state, c)
  BY Constants DEF Reaped, Outcomes
<1>7. {"loadOpen", "loadExp", "futex", "readNow", "aborted", "asleep", "againOpen", "againExp",
       "againNow", "loadClosed", "clockLoad"} \subseteq PcSet
  BY DEF PcSet, CallPcs, LoopPcs
<1>8. CASE LoadClosed(t)
  <2>1. [NoLoads EXCEPT !.closed = closed] \in LoadSet
    BY <1>0 DEF LoadSet
  <2> QED BY <1>5, <1>6, <1>7, <1>8, <2>1 DEF LoadClosed
<1>9. \A o, c : Delivered(o, c) \in Outcomes
  BY DEF Delivered, Outcomes, check_wake_state
<1>10. loads[t].closed \in Word
  BY <1>0 DEF LoadSet
<1>11. CASE LoadOpen(t)
  <2>1. [loads[t] EXCEPT !.open = open] \in LoadSet
    BY <1>0 DEF LoadSet
  <2> QED BY <1>5, <1>7, <1>9, <1>10, <1>11, <2>1 DEF LoadOpen
<1>12. CASE LoadExp(t)
  <2>1. [loads[t] EXCEPT !.exp = exp] \in LoadSet
    BY <1>0 DEF LoadSet
  <2>2. Reaped(t) \/ \E label \in PcSet, l \in LoadSet : Goto(t, label, l)
    BY <1>7, <1>12, <2>1 DEF LoadExp
  <2> QED BY <1>5, <1>6, <1>12, <2>2 DEF LoadExp
<1>13. CASE ReadNow(t)
  <2>2. Reaped(t) \/ \E label \in PcSet, l \in LoadSet : Goto(t, label, l)
    BY <1>0, <1>7, <1>13 DEF ReadNow
  <2> QED BY <1>5, <1>6, <1>13, <2>2 DEF ReadNow
<1>14. CASE ClockLoad(t)
  <2> DEFINE current == IF on[t] = "open" THEN open ELSE closed
  <2>1. current \in Word /\ [NoLoads EXCEPT ![on[t]] = current] \in LoadSet
    BY <1>0, Constants DEF LoadSet, NoLoads
  <2>2. \/ Reaped(t) \/ Return(t, "Normal", current)
        \/ Goto(t, "futex", [NoLoads EXCEPT ![on[t]] = current])
    BY <1>14 DEF ClockLoad
  <2> HIDE DEF current
  <2> QED BY <1>5, <1>6, <1>7, <1>14, <2>1, <2>2 DEF ClockLoad, Outcomes
<1>15. CASE FutexWait(t)
  <2>1. loads[t][on[t]] \in Word
    BY <1>0 DEF LoadSet
  <2>2. [NoLoads EXCEPT ![on[t]] = loads[t][on[t]]] \in LoadSet
    BY <1>0, <2>1, Constants DEF LoadSet, NoLoads
  <2>3. \E label \in PcSet, l \in LoadSet : Goto(t, label, l)
    BY <1>0, <1>7, <1>15, <2>2 DEF FutexWait
  <2> QED BY <1>5, <1>15, <2>3 DEF FutexWait
<1>16. CASE FutexReturn(t)
  <2>1. \A b \in BOOLEAN : [NoLoads EXCEPT !.timed_out = b /\ tier = "WaitCounter"] \in LoadSet
    BY <1>0, Constants DEF LoadSet, NoLoads
  <2>2. \E label \in PcSet, l \in LoadSet : Goto(t, label, l)
    BY <1>0, <1>16, <2>1 DEF FutexReturn
  <2> QED BY <1>5, <1>16, <2>2 DEF FutexReturn
<1>17. CASE AgainClosed(t)
  <2>1. [loads[t] EXCEPT !.closed = closed] \in LoadSet
    BY <1>0 DEF LoadSet
  <2> QED BY <1>5, <1>7, <1>17, <2>1 DEF AgainClosed
<1>18. CASE AgainOpen(t)
  BY <1>0, <1>5, <1>7, <1>9, <1>10, <1>18 DEF AgainOpen
<1>19. CASE AgainExp(t)
  <2>1. [NoLoads EXCEPT !.exp = exp] \in LoadSet /\ "Timeout" \in Outcomes
    BY <1>0 DEF LoadSet, Outcomes
  <2> QED BY <1>0, <1>5, <1>6, <1>7, <1>10, <1>19, <2>1 DEF AgainExp
<1>20. CASE AgainNow(t)
  <2>1. Reaped(t) \/ \E label \in PcSet, l \in LoadSet : Goto(t, label, l)
    BY <1>0, <1>7, <1>20 DEF AgainNow
  <2> QED BY <1>5, <1>6, <1>20, <2>1 DEF AgainNow
<1> QED BY <1>1, <1>2, <1>3, <1>4, <1>8, <1>11, <1>12, <1>13, <1>14, <1>15, <1>16, <1>17, <1>18,
           <1>19, <1>20 DEF WaitStep

LEMMA DaemonType ==
    ASSUME TypeOK, BudgetInv, DaemonStep PROVE TypeOK' /\ BudgetInv'
<1>0. /\ MaxClock \in Nat /\ MaxTime[tier] \in Nat /\ MaxTime[tier] < SENTINEL
      /\ 0 \in 0 .. MaxClock /\ 0 \in 0 .. MaxTime[tier]
      /\ 0 .. MaxClock \subseteq Word /\ now \div NANOS_PER_MS \in 0 .. MaxClock
      /\ pc \in [Waiters -> PcSet] /\ AfterFutex \in PcSet
  <2>1. /\ MaxClock \in Nat /\ MaxTime[tier] \in Nat /\ MaxTime[tier] < SENTINEL
        /\ MaxClock <= MaxTime[tier] /\ now \div NANOS_PER_MS \in 0 .. MaxClock
        /\ pc \in [Waiters -> PcSet]
    BY TypeFacts
  <2>2. AfterFutex \in PcSet
    BY DEF AfterFutex, PcSet, CallPcs, LoopPcs
  <2> QED BY <2>1, <2>2, Constants
<1>1. ASSUME Others \/ \E w \in {"open", "closed"} : /\ pc' = AfterWake(w)
                                      /\ UNCHANGED <<now, env, target, initial, on, ttl, deadline,
                                                     loads, result, touch>>,
             open' \in Word, closed' \in Word, exp' \in Word,
             clock' \in 0 .. MaxClock, registered' \in BOOLEAN, cycle' \in {"no", "begun", "done"},
             dpc' \in {"poll", "evaluate", "loadOpen", "loadClosed", "loadExp", "watch", "stamp",
                       "wake", "rearm", "reapOpen", "reapClosed", "reapExp", "reapWake", "clockArm"},
             dclock' \in 0 .. MaxClock, dnow' \in 0 .. MaxTime[tier],
             dopen' \in Word, dclosed' \in Word, dvalue' \in Word
      PROVE  TypeOK' /\ BudgetInv'
  <2>1. UNCHANGED <<now, tier, watched, highest, target, initial, on, ttl, deadline, loads, result,
                    handle, tpc, stop>>
    BY <1>1 DEF Others, env, thread, touch
  <2>2. pc' \in [Waiters -> PcSet]
    BY <1>0, <1>1 DEF Others, thread, AfterWake
  <2>3. TypeOK'
    BY <1>1, <2>1, <2>2 DEF TypeOK, MaxClock, PcSet
  <2>4. BudgetInv'
    BY <2>1 DEF BudgetInv
  <2> QED BY <2>3, <2>4
<1>2. /\ open \in Word /\ closed \in Word /\ exp \in Word /\ clock \in 0 .. MaxClock
      /\ registered \in BOOLEAN /\ cycle \in {"no", "begun", "done"}
      /\ dclock \in 0 .. MaxClock /\ dnow \in 0 .. MaxTime[tier] /\ now \in 0 .. MaxTime[tier]
      /\ dopen \in Word /\ dclosed \in Word /\ dvalue \in Word
  BY DEF TypeOK
<1>3. CycleEnd => /\ dpc' = "poll" /\ dclock' \in 0 .. MaxClock /\ dnow' \in 0 .. MaxTime[tier]
                  /\ dopen' \in Word /\ dclosed' \in Word /\ dvalue' \in Word
                  /\ cycle' \in {"no", "begun", "done"}
  BY <1>0, <1>2, Constants DEF CycleEnd
<1>4. CASE AdvanceClock
  <2>1. open' \in Word
    BY <1>0, <1>2, <1>4 DEF AdvanceClock
  <2> QED BY <1>0, <1>1, <1>2, <1>4, <2>1 DEF AdvanceClock, DaemonGoto
<1>5. CASE EvalStart
  BY <1>1, <1>2, <1>5 DEF EvalStart, DaemonGoto, words
<1>6. CASE EvalNothing
  BY <1>1, <1>2, <1>3, <1>6 DEF EvalNothing, words
<1>7. CASE EvalLoadOpen
  BY <1>1, <1>2, <1>7 DEF EvalLoadOpen, DaemonGoto, words
<1>8. CASE EvalLoadClosed
  BY <1>1, <1>2, <1>8 DEF EvalLoadClosed, DaemonGoto, words
<1>9. CASE EvalLoadExp
  <2>1. /\ dclock' \in 0 .. MaxClock /\ dnow' \in 0 .. MaxTime[tier]
        /\ dopen' \in Word /\ dclosed' \in Word /\ dvalue' \in Word
        /\ cycle' \in {"no", "begun", "done"} /\ dpc' \in {"reapOpen", "watch", "poll"}
        /\ registered' \in BOOLEAN
    BY <1>0, <1>2, <1>3, <1>9, Constants DEF EvalLoadExp, DaemonGoto
  <2> QED BY <1>1, <1>2, <1>9, <2>1 DEF EvalLoadExp, words
<1>10. CASE EvalWatch
  <2>1. /\ dclock' \in 0 .. MaxClock /\ dnow' \in 0 .. MaxTime[tier]
        /\ dopen' \in Word /\ dclosed' \in Word
        /\ cycle' \in {"no", "begun", "done"} /\ dpc' \in {"stamp", "poll"}
        /\ registered' \in BOOLEAN
    BY <1>0, <1>2, <1>3, <1>10, Constants DEF EvalWatch, DaemonGoto
  <2>2. dvalue' \in Word
    <3>1. watched # Gone => watched \in Word
      BY DEF TypeOK
    <3> QED BY <1>0, <1>2, <1>3, <1>10, <3>1 DEF EvalWatch
  <2> QED BY <1>1, <1>2, <1>10, <2>1, <2>2 DEF EvalWatch, words
<1>11. CASE EvalStamp
  BY <1>1, <1>2, <1>11 DEF EvalStamp, DaemonGoto, dlocal
<1>12. CASE EvalWake
  <2>1. /\ dclock' \in 0 .. MaxClock /\ dnow' \in 0 .. MaxTime[tier]
        /\ dopen' \in Word /\ dclosed' \in Word /\ dvalue' \in Word
        /\ cycle' \in {"no", "begun", "done"} /\ dpc' \in {"rearm", "poll"}
    BY <1>2, <1>3, <1>12 DEF EvalWake, dlocal
  <2> QED BY <1>1, <1>2, <1>12, <2>1 DEF EvalWake, words
<1>13. CASE EvalRearm
  <2>1. dclock + interval_ms < SENTINEL /\ dclock \in Nat
    <3>1. /\ dclock \in Nat /\ dclock <= MaxClock /\ MaxClock <= MaxTime[tier]
          /\ MaxClock \in Nat /\ MaxTime[tier] \in Nat /\ tier \in Tiers
      BY TypeFacts
    <3>2. 2 * (MaxTime[tier] + interval_ms) < SENTINEL
      BY <3>1, TierConstants
    <3> QED BY <3>1, <3>2, Constants
  <2>2. open' \in Word
    BY <1>13, <2>1, NextLineGrid DEF EvalRearm
  <2> QED BY <1>1, <1>2, <1>3, <1>13, <2>2 DEF EvalRearm
<1>14. CASE Claim
  BY <1>1, <1>2, <1>14 DEF Claim, words, dlocal
<1>15. CASE ReapStore
  <2>1. /\ open' \in Word /\ closed' \in Word /\ exp' \in Word
        /\ dpc' \in {"reapClosed", "reapExp", "reapWake"} /\ registered' \in BOOLEAN
    BY <1>2, <1>15, Constants DEF ReapStore, DaemonGoto
  <2> QED BY <1>1, <1>2, <1>15, <2>1 DEF ReapStore, dlocal
<1>16. CASE ReapWake
  BY <1>1, <1>2, <1>3, <1>16 DEF ReapWake, words
<1>17. CASE ClockWake
  BY <1>1, <1>2, <1>17 DEF ClockWake, DaemonGoto, words, dlocal
<1>18. CASE ClockArm
  <2>1. exp' \in Word
    <3>1. /\ exp \in Nat /\ exp <= SENTINEL /\ now \in Nat /\ now <= MaxTime[tier]
          /\ CLOCK_TTL_NANOS \in Nat /\ MaxTime[tier] + CLOCK_TTL_NANOS < SENTINEL
          /\ MaxTime[tier] \in Nat
      BY TypeFacts, TierConstants, Constants DEF TypeOK
    <3> QED BY <1>18, <3>1, Constants DEF ClockArm, LargerOf
  <2> QED BY <1>1, <1>2, <1>3, <1>18, <2>1 DEF ClockArm
<1> QED BY <1>4, <1>5, <1>6, <1>7, <1>8, <1>9, <1>10, <1>11, <1>12, <1>13, <1>14, <1>15, <1>16,
           <1>17, <1>18 DEF DaemonStep

LEMMA TypeNext == TypeOK /\ BudgetInv /\ [Next]_vars => TypeOK' /\ BudgetInv'
<1> SUFFICES ASSUME TypeOK, BudgetInv, [Next]_vars PROVE TypeOK' /\ BudgetInv'
  OBVIOUS
<1>1. CASE Tick
  <2>1. now' \in 0 .. MaxTime[tier]
    BY <1>1, TypeFacts DEF Tick
  <2>2. UNCHANGED <<tier, ttl>> /\ UNCHANGED MaxClock
    BY <1>1 DEF Tick, env, thread, MaxClock
  <2>3. TypeOK'
    BY <1>1, <2>1, <2>2 DEF Tick, TypeOK, words, env, dlocal, thread, touch
  <2> QED BY <2>2, <2>3 DEF BudgetInv
<1>2. CASE WatchedStep
  <2>1. watched' \in Word \cup {Gone} /\ highest' \in Word
    <3>1. watched' \in Word \cup {Gone}
      <4>1. 0 .. MaxCount \subseteq Word /\ 0 \in Word /\ SENTINEL \in Word
        BY Constants
      <4>2. watched' \in {0} \cup {Gone} \cup {SENTINEL} \cup 0 .. MaxCount
        BY <1>2 DEF WatchedStep
      <4> QED BY <4>1, <4>2
    <3>2. highest \in Word
      BY DEF TypeOK
    <3> QED BY <1>2, <3>1, <3>2, Constants DEF WatchedStep, LargerOf
  <2>2. UNCHANGED <<tier, ttl>> /\ UNCHANGED MaxClock
    BY <1>2 DEF WatchedStep, thread, MaxClock
  <2>3. TypeOK'
    BY <1>2, <2>1, <2>2 DEF WatchedStep, TypeOK, words, daemon, dlocal, thread, touch
  <2> QED BY <2>2, <2>3 DEF BudgetInv
<1>3. CASE DaemonStep
  BY <1>3, DaemonType
<1>4. ASSUME NEW t \in Waiters, WaitStart(t) \/ WaitStep(t) PROVE TypeOK' /\ BudgetInv'
  BY <1>4, StartType, StepType
<1>5. CASE TouchStep
  <2>1. exp' \in Word /\ tpc' \in {"check", "arm", "exited"}
    <3>1. /\ exp \in Nat /\ exp <= SENTINEL /\ now \in Nat /\ now <= MaxTime[tier]
          /\ TOUCH_TTL \in Nat /\ MaxTime[tier] + TOUCH_TTL < SENTINEL
          /\ MaxTime[tier] \in Nat
      BY TypeFacts, TierConstants, Constants DEF TypeOK
    <3> QED BY <1>5, <3>1, Constants DEF TouchStep, LargerOf
  <2>2. UNCHANGED <<tier, ttl>> /\ UNCHANGED MaxClock
    BY <1>5 DEF TouchStep, env, thread, MaxClock
  <2>3. TypeOK'
    BY <1>5, <2>1, <2>2 DEF TouchStep, TypeOK, env, daemon, dlocal, thread
  <2> QED BY <2>2, <2>3 DEF BudgetInv
<1>6. CASE HandleEnd \/ HandleJoined
  <2>1. /\ exp' \in Word /\ handle' \in {"freeing", "dropping", "gone"} /\ stop' \in BOOLEAN
        /\ UNCHANGED <<open, closed, now, env, daemon, thread, tpc>>
    BY <1>6, Constants DEF HandleEnd, HandleJoined, TypeOK, words
  <2>2. UNCHANGED <<tier, ttl>> /\ UNCHANGED MaxClock
    BY <2>1 DEF env, thread, MaxClock
  <2>3. TypeOK'
    BY <2>1, <2>2 DEF TypeOK, env, daemon, dlocal, thread
  <2> QED BY <2>2, <2>3 DEF BudgetInv
<1>7. CASE UNCHANGED vars
  BY <1>7 DEF vars, TypeOK, BudgetInv, words, env, daemon, dlocal, thread, touch, MaxClock
<1> QED BY <1>1, <1>2, <1>3, <1>4, <1>5, <1>6, <1>7 DEF Next

LEMMA TypeBudgetAlways == Spec => [](TypeOK /\ BudgetInv)
BY TypeInit, TypeNext, PTL DEF Spec

(* Every word, local and result of a wait tier keeps its type: no target,  *)
(* deadline, lease or grid line leaves the word, whatever the durations,   *)
(* within the bounds on time.                                              *)
THEOREM TypeAlways == Spec => []TypeOK
BY TypeBudgetAlways, PTL

(***************************************************************************)
(* What a step of a waiter may change.  The daemon, the environment and    *)
(* the touch thread are left alone; open_count grows by a CAS-max only and *)
(* the lease by interlock_arm only.                                        *)
(***************************************************************************)
TargetPcs == {"arm", "setDeadline"} \cup LoopPcs

LEMMA GotoAt ==
    ASSUME TypeOK, NEW t \in Waiters, NEW label, NEW l, Goto(t, label, l)
    PROVE  /\ pc'[t] = label /\ loads'[t] = l /\ result' = result
           /\ \A u \in Waiters \ {t} : pc'[u] = pc[u] /\ loads'[u] = loads[u]
BY DEF Goto, TypeOK

LEMMA ReturnAt ==
    ASSUME TypeOK, NEW t \in Waiters, NEW state, NEW c, Return(t, state, c)
    PROVE  /\ pc'[t] = "idle" /\ loads'[t] = NoLoads
           /\ result'[t] = [state |-> state, completed_at |-> c]
           /\ \A u \in Waiters \ {t} :
                pc'[u] = pc[u] /\ loads'[u] = loads[u] /\ result'[u] = result[u]
BY DEF Return, TypeOK

LEMMA StepFrame ==
    ASSUME TypeOK, NEW t \in Waiters, WaitStep(t)
    PROVE  /\ UNCHANGED <<closed, now, tier, watched, highest, clock, registered, dpc, dclock, dnow,
                          dopen, dclosed, dvalue, cycle, target, initial, on, handle, tpc, stop>>
           /\ \A u \in Waiters \ {t} :
                pc'[u] = pc[u] /\ loads'[u] = loads[u] /\ result'[u] = result[u]
<1>1. Keep /\ UNCHANGED closed
  BY DEF WaitStep, RaiseLoad, RaiseCas, Arm, SetDeadline, LoadClosed, LoadOpen, LoadExp, ReadNow,
         ClockLoad, FutexWait, FutexReturn, AgainClosed, AgainOpen, AgainExp, AgainNow, words
<1>2. UNCHANGED <<closed, now, tier, watched, highest, clock, registered, dpc, dclock, dnow,
                  dopen, dclosed, dvalue, cycle, target, initial, on, handle, tpc, stop>>
  BY <1>1 DEF Keep, env, daemon, dlocal, touch
<1>3. \/ \E label, l : Goto(t, label, l)
      \/ \E state, c : Return(t, state, c)
      \/ SetDeadline(t)
  BY DEF WaitStep, RaiseLoad, RaiseCas, Arm, SetDeadline, LoadClosed, LoadOpen, LoadExp, ReadNow,
         ClockLoad, FutexWait, FutexReturn, AgainClosed, AgainOpen, AgainExp, AgainNow, Reaped
<1>4. SetDeadline(t) =>
        \A u \in Waiters \ {t} : pc'[u] = pc[u] /\ loads'[u] = loads[u] /\ result'[u] = result[u]
  BY DEF SetDeadline, TypeOK
<1> QED BY <1>2, <1>3, <1>4, GotoAt, ReturnAt

LEMMA StartFrame ==
    ASSUME TypeOK, NEW t \in Waiters, WaitStart(t)
    PROVE  /\ UNCHANGED <<open, closed, exp, now, tier, watched, highest, clock, registered, dpc,
                          dclock, dnow, dopen, dclosed, dvalue, cycle, loads, handle, tpc, stop>>
           /\ pc[t] = "idle" /\ result'[t] = NoResult
           /\ \A u \in Waiters \ {t} :
                /\ pc'[u] = pc[u] /\ result'[u] = result[u] /\ target'[u] = target[u]
                /\ initial'[u] = initial[u] /\ on'[u] = on[u]
<1>1. PICK label, x, d, c, w : Begin(t, label, x, d, c, w)
  BY DEF WaitStart, ClockStart, TimerStart, CounterStart, CronStart, BarrierStart
<1>2. UNCHANGED <<open, closed, exp, now, tier, watched, highest, clock, registered, dpc,
                  dclock, dnow, dopen, dclosed, dvalue, cycle, loads, handle, tpc, stop>>
  BY <1>1 DEF Begin, words, env, daemon, dlocal, touch
<1> QED BY <1>1, <1>2 DEF Begin, At, TypeOK

(* The words a waiter's step writes. *)
LEMMA StepWords ==
    ASSUME NEW t \in Waiters, WaitStep(t)
    PROVE  /\ \/ open' = open
              \/ pc[t] = "raiseCas" /\ open = loads[t].open /\ open' = target[t] /\ exp' = exp
           /\ exp' = exp \/ (exp # SENTINEL /\ exp' = LargerOf(exp, now + ttl[t]))
BY DEF WaitStep, RaiseLoad, RaiseCas, Arm, SetDeadline, LoadClosed, LoadOpen, LoadExp, ReadNow,
       ClockLoad, FutexWait, FutexReturn, AgainClosed, AgainOpen, AgainExp, AgainNow, At, words

(* After the raise a waiter stays past it until its call ends. *)
LEMMA StepPlaces ==
    ASSUME TypeOK, NEW t \in Waiters, WaitStep(t)
    PROVE  \/ RaiseLoad(t) \/ RaiseCas(t)
           \/ /\ pc[t] \in TargetPcs /\ open' = open
              /\ pc'[t] \in TargetPcs \cup {"idle", "aborted"}
<1> DEFINE Good == /\ pc[t] \in TargetPcs /\ open' = open
                   /\ pc'[t] \in TargetPcs \cup {"idle", "aborted"}
<1> SUFFICES ASSUME ~RaiseLoad(t), ~RaiseCas(t) PROVE Good
  OBVIOUS
<1>1. pc[t] \in TargetPcs /\ open' = open
  BY DEF WaitStep, RaiseLoad, RaiseCas, Arm, SetDeadline, LoadClosed, LoadOpen, LoadExp, ReadNow,
         ClockLoad, FutexWait, FutexReturn, AgainClosed, AgainOpen, AgainExp, AgainNow, At, words,
         TargetPcs, LoopPcs
<1>2. \/ \E label \in TargetPcs \cup {"aborted"} : \E l : Goto(t, label, l)
      \/ \E state, c : Return(t, state, c)
      \/ SetDeadline(t)
  BY DEF WaitStep, Arm, LoadClosed, LoadOpen, LoadExp, ReadNow,
         ClockLoad, FutexWait, FutexReturn, AgainClosed, AgainOpen, AgainExp, AgainNow, Reaped,
         AfterFutex, TargetPcs, LoopPcs
<1>3. SetDeadline(t) => pc'[t] = "loadClosed"
  BY DEF SetDeadline, TypeOK
<1>4. "loadClosed" \in TargetPcs
  BY DEF TargetPcs, LoopPcs
<1> QED BY <1>1, <1>2, <1>3, <1>4, GotoAt, ReturnAt

(***************************************************************************)
(* A reaped entry stays dead.  The invariant says what the daemon has at   *)
(* each of its positions, and that a CAS-max only ever raises open_count:  *)
(* the value it compares with is below its target, so it cannot be         *)
(* SENTINEL.                                                               *)
(***************************************************************************)
PassPcs == {"loadClosed", "loadExp", "watch", "stamp", "wake", "rearm"}
Deciding == {"loadClosed", "loadExp", "watch"}

DaemonInv ==
    /\ tier = "Clock" => registered /\ dpc \in {"poll", "evaluate", "clockArm"}
    /\ dpc = "clockArm" => tier = "Clock"
    /\ dpc = "rearm" => tier = "WaitCron"
    /\ dpc \in PassPcs => registered
    /\ dnow <= now /\ dclock <= clock
    /\ dpc \notin {"loadClosed", "loadExp"} => dopen # SENTINEL
    /\ dpc # "loadExp" => dclosed # SENTINEL

TargetInv ==
    \A t \in Waiters :
        /\ pc[t] = "raiseCas" => loads[t].open < target[t]
        /\ tier \in {"WaitTimer", "WaitCounter"} /\ pc[t] \in TargetPcs => target[t] <= open

ReapInv ==
    /\ dpc \in {"reapClosed", "reapExp", "reapWake"} => open = SENTINEL
    /\ dpc \in {"reapExp", "reapWake"} => closed = SENTINEL
    /\ dpc = "reapWake" => exp = SENTINEL
    /\ DeadForGood

LifeInv == DaemonInv /\ TargetInv /\ ReapInv

LEMMA LifeInit == Init => LifeInv
<1> SUFFICES ASSUME Init PROVE LifeInv
  OBVIOUS
<1>1. tier \in Tiers /\ StartTime \in Nat
  BY TierConstants DEF Init
<1>2. now \in Nat /\ clock \in Nat
  BY <1>1, DivMod, Constants DEF Init
<1>3. DaemonInv
  BY <1>2, WordAssumption DEF Init, DaemonInv, PassPcs
<1>4. TargetInv
  BY DEF Init, TargetInv, TargetPcs, LoopPcs
<1>5. ReapInv
  BY DEF Init, ReapInv, DeadForGood
<1> QED BY <1>3, <1>4, <1>5 DEF LifeInv

LEMMA DaemonStepInv ==
    ASSUME TypeOK, DaemonInv, DaemonStep PROVE DaemonInv'
<1>0. /\ now \in Nat /\ dnow \in Nat /\ clock \in Nat /\ dclock \in Nat /\ 0 # SENTINEL
      /\ now \div NANOS_PER_MS \in Nat
  BY TypeFacts, WordAssumption
<1>1. UNCHANGED <<tier, now>>
  BY DEF DaemonStep, AdvanceClock, EvalStart, EvalNothing, EvalLoadOpen, EvalLoadClosed, EvalLoadExp,
         EvalWatch, EvalStamp, EvalWake, EvalRearm, Claim, ReapStore, ReapWake, ClockWake, ClockArm,
         Others, env
<1>2. CycleEnd => dpc' = "poll" /\ dclock' = 0 /\ dnow' = 0 /\ dopen' = 0 /\ dclosed' = 0
  BY DEF CycleEnd
<1>3. CASE AdvanceClock
  BY <1>0, <1>1, <1>3 DEF AdvanceClock, DaemonGoto, DaemonInv, PassPcs
<1>4. CASE EvalStart
  BY <1>0, <1>1, <1>4 DEF EvalStart, DaemonGoto, DaemonInv, PassPcs
<1>5. CASE EvalNothing
  BY <1>0, <1>1, <1>2, <1>5 DEF EvalNothing, DaemonInv, PassPcs
<1>6. CASE EvalLoadOpen
  BY <1>0, <1>1, <1>6 DEF EvalLoadOpen, DaemonGoto, DaemonInv, PassPcs
<1>7. CASE EvalLoadClosed
  BY <1>0, <1>1, <1>7 DEF EvalLoadClosed, DaemonGoto, DaemonInv, PassPcs
<1>8. CASE EvalLoadExp
  <2>1. registered' = registered /\ clock' = clock /\ dpc = "loadExp"
    BY <1>8 DEF EvalLoadExp, DaemonGoto
  <2>2. /\ dpc' \in {"reapOpen", "watch", "poll"} /\ dnow' = 0 /\ dclosed' = 0
        /\ dclock' = 0 \/ dclock' = dclock
        /\ dopen' = 0 \/ (dopen' = dopen /\ dopen # SENTINEL)
    BY <1>2, <1>8 DEF EvalLoadExp, DaemonGoto, Terminated
  <2> QED BY <1>0, <1>1, <2>1, <2>2 DEF DaemonInv, PassPcs
<1>9. CASE EvalWatch
  <2>1. /\ registered' = registered /\ clock' = clock /\ dpc = "watch" /\ dpc' \in {"stamp", "poll"}
        /\ dopen' = 0
        /\ dnow' = 0 \/ dnow' = dnow
        /\ dclock' = 0 \/ dclock' = dclock
        /\ dclosed' = 0 \/ dclosed' = dclosed
    BY <1>2, <1>9 DEF EvalWatch, DaemonGoto
  <2> QED BY <1>0, <1>1, <2>1 DEF DaemonInv, PassPcs
<1>10. CASE EvalStamp
  BY <1>0, <1>1, <1>10 DEF EvalStamp, DaemonGoto, DaemonInv, PassPcs, dlocal
<1>11. CASE EvalWake
  <2>1. /\ registered' = registered /\ clock' = clock /\ dpc = "wake"
        /\ \/ tier = "WaitCron" /\ dpc' = "rearm" /\ UNCHANGED <<dclock, dnow, dopen, dclosed>>
           \/ dpc' = "poll" /\ dclock' = 0 /\ dnow' = 0 /\ dopen' = 0 /\ dclosed' = 0
    BY <1>2, <1>11 DEF EvalWake, dlocal
  <2> QED BY <1>0, <1>1, <2>1 DEF DaemonInv, PassPcs
<1>12. CASE EvalRearm
  BY <1>0, <1>1, <1>2, <1>12 DEF EvalRearm, DaemonInv, PassPcs
<1>13. CASE Claim
  BY <1>0, <1>1, <1>13 DEF Claim, DaemonInv, PassPcs, dlocal
<1>14. CASE ReapStore
  BY <1>0, <1>1, <1>14 DEF ReapStore, DaemonGoto, DaemonInv, PassPcs, dlocal
<1>15. CASE ReapWake
  BY <1>0, <1>1, <1>2, <1>15 DEF ReapWake, DaemonInv, PassPcs
<1>16. CASE ClockWake
  BY <1>0, <1>1, <1>16 DEF ClockWake, DaemonGoto, DaemonInv, PassPcs, dlocal
<1>17. CASE ClockArm
  BY <1>0, <1>1, <1>2, <1>17 DEF ClockArm, DaemonInv, PassPcs
<1> QED BY <1>3, <1>4, <1>5, <1>6, <1>7, <1>8, <1>9, <1>10, <1>11, <1>12, <1>13, <1>14, <1>15,
           <1>16, <1>17 DEF DaemonStep

(* The daemon's step on the words, position by position. *)
LEMMA DaemonReap ==
    ASSUME TypeOK, DaemonInv, ReapInv, DaemonStep PROVE ReapInv'
<1>1. CASE AdvanceClock
  BY <1>1 DEF AdvanceClock, DaemonGoto, ReapInv, DeadForGood, DaemonInv
<1>2. CASE EvalStart
  BY <1>2 DEF EvalStart, DaemonGoto, ReapInv, DeadForGood, words
<1>3. CASE EvalNothing
  BY <1>3 DEF EvalNothing, CycleEnd, ReapInv, DeadForGood, words
<1>4. CASE EvalLoadOpen \/ EvalLoadClosed
  BY <1>4 DEF EvalLoadOpen, EvalLoadClosed, DaemonGoto, ReapInv, DeadForGood, words
<1>5. CASE EvalLoadExp
  <2>1. registered
    BY <1>5 DEF EvalLoadExp, DaemonInv, PassPcs
  <2>2. registered' = registered /\ dpc' \in {"reapOpen", "watch", "poll"}
    BY <1>5 DEF EvalLoadExp, DaemonGoto, CycleEnd
  <2> QED BY <2>1, <2>2 DEF ReapInv, DeadForGood
<1>6. CASE EvalWatch \/ EvalStamp \/ EvalWake \/ EvalRearm
  <2>1. registered' /\ dpc' \in {"stamp", "wake", "rearm", "poll"}
    BY <1>6 DEF EvalWatch, EvalStamp, EvalWake, EvalRearm, DaemonGoto, CycleEnd, DaemonInv, PassPcs
  <2> QED BY <2>1 DEF ReapInv, DeadForGood
<1>7. CASE Claim
  BY <1>7 DEF Claim, ReapInv, DeadForGood
<1>8. CASE ReapStore
  BY <1>8 DEF ReapStore, DaemonGoto, ReapInv, DeadForGood
<1>9. CASE ReapWake
  BY <1>9 DEF ReapWake, CycleEnd, ReapInv, DeadForGood, words
<1>10. CASE ClockWake \/ ClockArm
  <2>1. registered' /\ dpc' \in {"clockArm", "poll"}
    BY <1>10 DEF ClockWake, ClockArm, DaemonGoto, CycleEnd, DaemonInv
  <2> QED BY <2>1 DEF ReapInv, DeadForGood
<1> QED BY <1>1, <1>2, <1>3, <1>4, <1>5, <1>6, <1>7, <1>8, <1>9, <1>10 DEF DaemonStep

(* Where the daemon's step leaves the waiters. *)
LEMMA DaemonThreads ==
    ASSUME TypeOK, DaemonStep
    PROVE  /\ UNCHANGED <<now, tier, watched, highest, target, initial, on, loads, result, handle,
                          tpc, stop>>
           /\ \A t \in Waiters :
                 \/ pc'[t] = pc[t]
                 \/ /\ pc[t] = "asleep" /\ pc'[t] = AfterFutex
                    /\ dpc \in {"wake", "reapWake"} \/ (tier = "Clock" /\ dpc = "evaluate")
<1>1. UNCHANGED <<now, tier, watched, highest, target, initial, on, loads, result, handle, tpc, stop>>
  BY DEF DaemonStep, AdvanceClock, EvalStart, EvalNothing, EvalLoadOpen, EvalLoadClosed, EvalLoadExp,
         EvalWatch, EvalStamp, EvalWake, EvalRearm, Claim, ReapStore, ReapWake, ClockWake, ClockArm,
         Others, env, thread, touch
<1>2. \/ pc' = pc
      \/ /\ \E w \in {"open", "closed"} : pc' = AfterWake(w)
         /\ dpc \in {"wake", "reapWake"} \/ (tier = "Clock" /\ dpc = "evaluate")
  BY DEF DaemonStep, AdvanceClock, EvalStart, EvalNothing, EvalLoadOpen, EvalLoadClosed, EvalLoadExp,
         EvalWatch, EvalStamp, EvalWake, EvalRearm, Claim, ReapStore, ReapWake, ClockWake, ClockArm,
         Others, thread
<1>3. \A w : \A t \in Waiters :
         AfterWake(w)[t] = IF pc[t] = "asleep" /\ on[t] = w THEN AfterFutex ELSE pc[t]
  BY DEF AfterWake
<1> QED BY <1>1, <1>2, <1>3

(* open_count of a timer or of a counter only grows. *)
LEMMA DaemonOpen ==
    ASSUME TypeOK, DaemonInv, DaemonStep, tier \in {"WaitTimer", "WaitCounter"}
    PROVE  open' >= open /\ open' \in Nat
<1>1. open' = open \/ open' = SENTINEL
  BY DEF DaemonStep, AdvanceClock, EvalStart, EvalNothing, EvalLoadOpen, EvalLoadClosed, EvalLoadExp,
         EvalWatch, EvalStamp, EvalWake, EvalRearm, Claim, ReapStore, ReapWake, ClockWake, ClockArm,
         words, DaemonInv
<1>2. open \in Nat /\ open <= SENTINEL /\ SENTINEL \in Nat
  BY Constants DEF TypeOK
<1> QED BY <1>1, <1>2

LEMMA LifeNext == TypeOK /\ LifeInv /\ [Next]_vars => LifeInv'
<1> SUFFICES ASSUME TypeOK, LifeInv, [Next]_vars PROVE LifeInv'
  OBVIOUS
<1>0. DaemonInv /\ TargetInv /\ ReapInv
  BY DEF LifeInv
<1>a. /\ now \in Nat /\ dnow \in Nat /\ open \in Nat /\ open <= SENTINEL /\ SENTINEL \in Nat
      /\ \A t \in Waiters : /\ target[t] \in Nat /\ target[t] <= SENTINEL
                            /\ loads[t].open \in Nat /\ AfterFutex # "raiseCas"
  <2>1. now \in Nat /\ dnow \in Nat /\ open \in Nat
    BY TypeFacts
  <2>2. \A t \in Waiters : target[t] \in Word /\ loads[t].open \in Word /\ open \in Word
    BY DEF TypeOK
  <2> QED BY <2>1, <2>2, Constants DEF AfterFutex, TypeOK
<1>1. ASSUME UNCHANGED <<tier, open, closed, registered, dpc, dclock, dnow, dopen, dclosed, clock,
                         pc, loads, target>>,
             now' = now \/ now' = now + 1, exp' = exp \/ exp # SENTINEL \/ exp' = SENTINEL
      PROVE  LifeInv'
  <2>1. DaemonInv'
    BY <1>0, <1>1, <1>a DEF DaemonInv
  <2>2. TargetInv'
    BY <1>0, <1>1 DEF TargetInv
  <2>3. ReapInv'
    BY <1>0, <1>1 DEF ReapInv, DeadForGood
  <2> QED BY <2>1, <2>2, <2>3 DEF LifeInv
<1>2. CASE Tick
  BY <1>1, <1>2 DEF Tick, words, env, dlocal, thread
<1>3. CASE WatchedStep
  BY <1>1, <1>3 DEF WatchedStep, words, daemon, dlocal, thread
<1>4. CASE DaemonStep
  <2>1. DaemonInv' /\ ReapInv'
    BY <1>0, <1>4, DaemonStepInv, DaemonReap
  <2>2. TargetInv'
    <3> SUFFICES ASSUME NEW t \in Waiters
                 PROVE  /\ pc'[t] = "raiseCas" => loads'[t].open < target'[t]
                        /\ tier' \in {"WaitTimer", "WaitCounter"} /\ pc'[t] \in TargetPcs
                             => target'[t] <= open'
      BY DEF TargetInv
    <3>1. /\ UNCHANGED <<tier, target, loads>>
          /\ pc'[t] = pc[t] \/ (pc[t] = "asleep" /\ pc'[t] = AfterFutex)
      BY <1>4, DaemonThreads
    <3>2. tier \in {"WaitTimer", "WaitCounter"} => open' >= open /\ open' \in Nat
      BY <1>0, <1>4, DaemonOpen
    <3>3. "asleep" \in TargetPcs
      BY DEF TargetPcs, LoopPcs
    <3> QED BY <1>0, <1>a, <3>1, <3>2, <3>3 DEF TargetInv
  <2> QED BY <2>1, <2>2 DEF LifeInv
<1>5. ASSUME NEW t \in Waiters, WaitStart(t) PROVE LifeInv'
  <2>1. /\ UNCHANGED <<open, closed, exp, now, tier, clock, registered, dpc, dclock, dnow, dopen,
                       dclosed, loads>>
        /\ \A u \in Waiters \ {t} : pc'[u] = pc[u] /\ target'[u] = target[u]
    BY <1>5, StartFrame
  <2>2. DaemonInv' /\ ReapInv'
    BY <1>0, <2>1 DEF DaemonInv, ReapInv, DeadForGood
  <2>3. pc'[t] # "raiseCas"
    BY <1>5 DEF WaitStart, ClockStart, TimerStart, CounterStart, CronStart, BarrierStart, Begin, TypeOK
  <2>4. tier \in {"WaitTimer", "WaitCounter"} => pc'[t] = "raise"
    BY <1>5 DEF WaitStart, ClockStart, TimerStart, CounterStart, CronStart, BarrierStart, Begin, TypeOK
  <2>5. TargetInv'
    BY <1>0, <2>1, <2>3, <2>4 DEF TargetInv, TargetPcs, LoopPcs
  <2> QED BY <2>2, <2>5 DEF LifeInv
<1>6. ASSUME NEW t \in Waiters, WaitStep(t) PROVE LifeInv'
  <2>1. /\ UNCHANGED <<closed, now, tier, clock, registered, dpc, dclock, dnow, dopen, dclosed, target>>
        /\ \A u \in Waiters \ {t} : pc'[u] = pc[u] /\ loads'[u] = loads[u]
    BY <1>6, StepFrame
  <2>2. \/ open' = open
        \/ open < target[t] /\ open' = target[t]
    BY <1>0, <1>6, StepWords DEF TargetInv
  <2>3. exp' = exp \/ exp # SENTINEL
    BY <1>6, StepWords
  <2>4. open' >= open /\ (open = SENTINEL => open' = SENTINEL)
    BY <1>a, <2>2
  <2>5. DaemonInv'
    BY <1>0, <2>1 DEF DaemonInv
  <2>6. ReapInv'
    BY <1>0, <2>1, <2>3, <2>4 DEF ReapInv, DeadForGood
  <2>7. TargetInv'
    <3>1. \A u \in Waiters \ {t} :
            /\ pc'[u] = "raiseCas" => loads'[u].open < target'[u]
            /\ tier' \in {"WaitTimer", "WaitCounter"} /\ pc'[u] \in TargetPcs => target'[u] <= open'
      BY <1>0, <1>a, <2>1, <2>2 DEF TargetInv
    <3>2. /\ pc'[t] = "raiseCas" => loads'[t].open < target'[t]
          /\ tier' \in {"WaitTimer", "WaitCounter"} /\ pc'[t] \in TargetPcs => target'[t] <= open'
      <4>1. CASE RaiseLoad(t)
        <5>1. CASE target[t] <= open /\ Goto(t, "arm", NoLoads)
          BY <1>a, <2>1, <2>4, <2>2, <5>1, GotoAt
        <5>2. CASE target[t] > open /\ Goto(t, "raiseCas", [NoLoads EXCEPT !.open = open])
          <6>1. pc'[t] = "raiseCas" /\ loads'[t].open = open
            BY <5>2, GotoAt DEF NoLoads
          <6> QED BY <1>a, <2>1, <5>2, <6>1 DEF TargetPcs, LoopPcs
        <5> QED BY <4>1, <5>1, <5>2 DEF RaiseLoad
      <4>2. CASE RaiseCas(t)
        <5>1. CASE open' = target[t] /\ Goto(t, "arm", NoLoads)
          BY <1>a, <2>1, <5>1, GotoAt
        <5>2. CASE Goto(t, "raise", NoLoads)
          <6>1. pc'[t] = "raise"
            BY <5>2, GotoAt
          <6> QED BY <6>1 DEF TargetPcs, LoopPcs
        <5> QED BY <4>2, <5>1, <5>2 DEF RaiseCas
      <4>3. CASE /\ pc[t] \in TargetPcs /\ open' = open
                 /\ pc'[t] \in TargetPcs \cup {"idle", "aborted"}
        <5>1. pc'[t] # "raiseCas"
          BY <4>3 DEF TargetPcs, LoopPcs
        <5> QED BY <1>0, <2>1, <4>3, <5>1 DEF TargetInv
      <4> QED BY <1>6, <4>1, <4>2, <4>3, StepPlaces
    <3> QED BY <3>1, <3>2 DEF TargetInv
  <2> QED BY <2>5, <2>6, <2>7 DEF LifeInv
<1>7. CASE TouchStep
  BY <1>1, <1>7 DEF TouchStep, env, daemon, dlocal, thread
<1>8. CASE HandleEnd \/ HandleJoined
  <2>1. UNCHANGED <<open, closed, now, env, daemon, thread>> /\ (exp' = exp \/ exp' = SENTINEL)
    BY <1>8 DEF HandleEnd, HandleJoined, words
  <2> QED BY <1>1, <2>1 DEF env, daemon, dlocal, thread
<1>9. CASE UNCHANGED vars
  BY <1>1, <1>9 DEF vars, words, env, daemon, dlocal, thread
<1> QED BY <1>2, <1>3, <1>4, <1>5, <1>6, <1>7, <1>8, <1>9 DEF Next

LEMMA LifeAlways == Spec => []LifeInv
BY LifeInit, LifeNext, TypeBudgetAlways, PTL DEF Spec

(* Once the registry has let go of an entry all three of its words stay    *)
(* SENTINEL, whatever the interleaving: a CAS-max raises open_count above  *)
(* the value it compared, and interlock_arm refuses SENTINEL, so no wait,  *)
(* touch or re-arm under way during the reap brings the entry back.        *)
THEOREM DeadForGoodAlways == Spec => []DeadForGood
<1>1. LifeInv => DeadForGood
  BY DEF LifeInv, ReapInv
<1> QED BY <1>1, LifeAlways, PTL

(***************************************************************************)
(* WaitTier implements Lease.  A step that changes the counters at most is *)
(* a Mark or a stutter, one that raises the lease a Renew; the daemon's    *)
(* verdict rests on what it has noted or on a lease that is out, because   *)
(* the instant it compares with is not ahead of the clock.                 *)
(***************************************************************************)
Noted == dopen = SENTINEL \/ dclosed = SENTINEL

LEMMA CounterLease ==
    ASSUME UNCHANGED <<exp, now, registered>>, Phase' = Phase, (Noted' <=> Noted)
    PROVE  [L!Next]_(L!vars)
BY DEF Noted, L!Next, L!Mark, L!vars

LEMMA RenewLease ==
    ASSUME TypeOK, UNCHANGED <<open, closed, now, registered, dpc, dopen, dclosed>>,
           exp' \in Word, exp' >= exp
    PROVE  [L!Next]_(L!vars)
<1>1. Phase' = Phase
  BY DEF Phase
<1>2. exp' = exp \/ (exp' > exp /\ exp' <= SENTINEL)
  BY Constants DEF TypeOK
<1>3. CASE exp' = exp
  BY <1>1, <1>3, CounterLease DEF Noted
<1>4. CASE exp' > exp /\ exp' <= SENTINEL
  BY <1>1, <1>4 DEF L!Next, L!Renew
<1> QED BY <1>2, <1>3, <1>4

LEMMA DaemonLease ==
    ASSUME TypeOK, TypeOK', LifeInv, DaemonStep
    PROVE  [L!Next]_(L!vars)
<1>0. /\ 0 # SENTINEL /\ now \in Nat /\ dnow \in Nat /\ exp \in Nat
      /\ DaemonInv
      /\ dpc \notin {"loadClosed", "loadExp"} => ~Noted
      /\ dpc \in PassPcs => registered = TRUE
  BY TypeFacts, WordAssumption DEF LifeInv, DaemonInv, Noted, PassPcs, TypeOK
<1>1. CycleEnd => ~Noted' /\ dpc' = "poll"
  BY <1>0 DEF CycleEnd, Noted
<1>2. CASE AdvanceClock
  <2>1. UNCHANGED <<exp, now, registered, dopen, dclosed>> /\ dpc = "poll" /\ dpc' = "evaluate"
    BY <1>2 DEF AdvanceClock, DaemonGoto, Others
  <2>2. Phase' = Phase /\ (Noted' <=> Noted)
    BY <2>1 DEF Phase, Noted
  <2> QED BY <2>1, <2>2, CounterLease
<1>3. CASE EvalStart
  <2>1. UNCHANGED <<exp, now, registered, dopen, dclosed>> /\ dpc = "evaluate" /\ dpc' = "loadOpen"
    BY <1>3 DEF EvalStart, DaemonGoto, Others, words
  <2>2. Phase' = Phase /\ (Noted' <=> Noted)
    BY <2>1 DEF Phase, Noted
  <2> QED BY <2>1, <2>2, CounterLease
<1>4. CASE EvalNothing
  <2>1. UNCHANGED <<exp, now, registered>> /\ dpc = "loadOpen" /\ dpc' = "poll" /\ ~Noted'
    BY <1>1, <1>4 DEF EvalNothing, Others, words
  <2>2. Phase' = Phase /\ (Noted' <=> Noted)
    BY <1>0, <2>1 DEF Phase
  <2> QED BY <2>1, <2>2, CounterLease
<1>5. CASE EvalLoadOpen
  <2>1. /\ UNCHANGED <<open, closed, exp, now, registered, dclosed>> /\ dopen' = open
        /\ Phase = "leased" /\ Phase' = "leased" /\ ~Noted
    BY <1>0, <1>5 DEF EvalLoadOpen, DaemonGoto, Others, words, Phase
  <2> QED BY <1>0, <2>1 DEF Noted, L!Next, L!Note, L!vars
<1>6. CASE EvalLoadClosed
  <2>1. /\ UNCHANGED <<open, closed, exp, now, registered, dopen>> /\ dclosed' = closed
        /\ Phase = "leased" /\ Phase' = "leased" /\ dclosed # SENTINEL
    BY <1>0, <1>6 DEF EvalLoadClosed, DaemonGoto, Others, words, Phase, PassPcs, DaemonInv
  <2> QED BY <1>0, <2>1 DEF Noted, L!Next, L!Note, L!vars
<1>7. CASE EvalLoadExp
  <2>1. /\ UNCHANGED <<open, closed, exp, now, registered>> /\ dpc = "loadExp" /\ registered = TRUE
        /\ Phase = "leased" /\ dnow <= now
    BY <1>0, <1>7 DEF EvalLoadExp, CycleEnd, DaemonGoto, Others, words, Phase, PassPcs, DaemonInv
  <2>2. CASE Terminated(dopen, dclosed, exp) \/ ~expiration_alive(exp, dnow)
    <3>1. dpc' = "reapOpen" /\ dopen' = 0 /\ dclosed' = 0
      BY <1>7, <2>2 DEF EvalLoadExp, DaemonGoto
    <3>2. Phase' = "condemned"
      BY <3>1 DEF Phase
    <3>3. dopen = SENTINEL \/ dclosed = SENTINEL \/ exp = SENTINEL \/ exp <= now
      BY <1>0, <2>1, <2>2 DEF Terminated, expiration_alive
    <3> QED BY <1>0, <2>1, <3>1, <3>2, <3>3 DEF L!Next, L!Condemn
  <2>3. CASE ~(Terminated(dopen, dclosed, exp) \/ ~expiration_alive(exp, dnow))
    <3>1. ~Noted
      BY <2>3 DEF Terminated, Noted
    <3>2. ~Noted' /\ dpc' \in {"watch", "poll"}
      BY <1>0, <1>1, <1>7, <2>3, <3>1 DEF EvalLoadExp, DaemonGoto, Noted
    <3>3. Phase' = Phase
      BY <2>1, <3>2 DEF Phase
    <3> QED BY <2>1, <3>1, <3>2, <3>3, CounterLease
  <2> QED BY <2>2, <2>3
<1>8. CASE EvalWatch
  <2>1. UNCHANGED <<exp, now, registered>> /\ dpc = "watch" /\ dpc' \in {"stamp", "poll"}
    BY <1>1, <1>8 DEF EvalWatch, DaemonGoto, Others, words
  <2>2. ~Noted'
    BY <1>0, <1>1, <1>8 DEF EvalWatch, Noted
  <2>3. Phase' = Phase /\ (Noted' <=> Noted)
    BY <1>0, <2>1, <2>2 DEF Phase
  <2> QED BY <2>1, <2>3, CounterLease
<1>9. CASE EvalStamp
  <2>1. UNCHANGED <<exp, now, registered, dopen, dclosed>> /\ dpc = "stamp" /\ dpc' = "wake"
    BY <1>9 DEF EvalStamp, DaemonGoto, Others, dlocal
  <2>2. Phase' = Phase /\ (Noted' <=> Noted)
    BY <2>1 DEF Phase, Noted
  <2> QED BY <2>1, <2>2, CounterLease
<1>10. CASE EvalWake
  <2>1. UNCHANGED <<exp, now, registered>> /\ dpc = "wake" /\ dpc' \in {"rearm", "poll"}
    BY <1>1, <1>10 DEF EvalWake, words
  <2>2. ~Noted'
    BY <1>0, <1>1, <1>10 DEF EvalWake, Noted, dlocal
  <2>3. Phase' = Phase /\ (Noted' <=> Noted)
    BY <1>0, <2>1, <2>2 DEF Phase
  <2> QED BY <2>1, <2>3, CounterLease
<1>11. CASE EvalRearm
  <2>1. UNCHANGED <<exp, now, registered>> /\ dpc = "rearm" /\ dpc' = "poll" /\ ~Noted'
    BY <1>1, <1>11 DEF EvalRearm, Others
  <2>2. Phase' = Phase /\ (Noted' <=> Noted)
    BY <1>0, <2>1 DEF Phase
  <2> QED BY <2>1, <2>2, CounterLease
<1>12. CASE Claim
  <2>1. /\ UNCHANGED <<open, closed, exp, now, dopen, dclosed>> /\ registered /\ registered' = FALSE
        /\ dpc = "poll" /\ dpc' = "reapOpen"
    BY <1>12 DEF Claim, Others, words, dlocal
  <2>2. Phase = "leased" /\ Phase' = "condemned"
    BY <2>1 DEF Phase
  <2> QED BY <2>1, <2>2 DEF L!Next, L!Claim
<1>13. CASE ReapStore
  <2>1. UNCHANGED <<now, registered, dopen, dclosed>> /\ Phase = "condemned"
    BY <1>13 DEF ReapStore, DaemonGoto, Others, dlocal, Phase
  <2>2. CASE dpc = "reapExp"
    <3>1. exp' = SENTINEL /\ UNCHANGED <<open, closed>> /\ Phase' = "reaped"
      BY <1>13, <2>2 DEF ReapStore, DaemonGoto, Phase
    <3> QED BY <2>1, <3>1 DEF L!Next, L!Reap
  <2>3. CASE dpc # "reapExp"
    <3>1. exp' = exp /\ Phase' = "condemned"
      BY <1>13, <2>3 DEF ReapStore, DaemonGoto, Phase
    <3> QED BY <2>1, <3>1, CounterLease DEF Noted
  <2> QED BY <2>2, <2>3
<1>14. CASE ReapWake
  <2>1. /\ UNCHANGED <<open, closed, exp, now>> /\ dpc = "reapWake" /\ dpc' = "poll"
        /\ registered' = FALSE /\ ~Noted'
    BY <1>1, <1>14 DEF ReapWake, words
  <2>2. ~Noted
    BY <1>0, <2>1
  <2>3. Phase = "reaped" /\ Phase' = "reaped"
    BY <2>1 DEF Phase
  <2> QED BY <2>1, <2>2, <2>3 DEF Noted, L!Next, L!Forget
<1>15. CASE ClockWake
  <2>1. UNCHANGED <<exp, now, registered, dopen, dclosed>> /\ dpc = "evaluate" /\ dpc' = "clockArm"
    BY <1>15 DEF ClockWake, DaemonGoto, words, dlocal
  <2>2. Phase' = Phase /\ (Noted' <=> Noted)
    BY <2>1 DEF Phase, Noted
  <2> QED BY <2>1, <2>2, CounterLease
<1>16. CASE ClockArm
  <2>1. /\ UNCHANGED <<open, closed, now, registered>> /\ dpc = "clockArm" /\ dpc' = "poll"
        /\ exp' = LargerOf(exp, now + CLOCK_TTL_NANOS) /\ ~Noted'
    BY <1>1, <1>16 DEF ClockArm, Others
  <2>2. Phase' = Phase /\ (Noted' <=> Noted)
    BY <1>0, <2>1 DEF Phase
  <2>3. exp' = exp \/ (exp' > exp /\ exp' <= SENTINEL)
    <3>1. exp' \in Word /\ exp \in Word
      BY DEF TypeOK
    <3>2. tier \in Tiers
      BY DEF TypeOK
    <3>3. CLOCK_TTL_NANOS \in Nat
      BY <3>2, TierConstants
    <3> QED BY <1>0, <2>1, <3>1, <3>3, Constants DEF LargerOf
  <2>4. CASE exp' = exp
    BY <2>1, <2>2, <2>4, CounterLease
  <2>5. CASE exp' > exp /\ exp' <= SENTINEL
    BY <2>1, <2>2, <2>5 DEF Noted, L!Next, L!Renew
  <2> QED BY <2>3, <2>4, <2>5
<1> QED BY <1>2, <1>3, <1>4, <1>5, <1>6, <1>7, <1>8, <1>9, <1>10, <1>11, <1>12, <1>13, <1>14,
           <1>15, <1>16 DEF DaemonStep

LEMMA InitWords ==
    ASSUME Init
    PROVE  /\ exp \in Nat /\ exp < SENTINEL /\ now \in Nat
           /\ open \in Word /\ open # SENTINEL /\ closed \in Nat /\ closed # SENTINEL
           /\ clock = now \div NANOS_PER_MS
           /\ tier \in {"WaitTimer", "WaitCron", "Clock"} => closed = clock /\ clock \in Nat
           /\ tier = "WaitCron" => open % interval_ms = 0 /\ closed < open
<1>1. tier \in Tiers /\ MaxTime[tier] \in Nat /\ StartTime \in Nat /\ StartTime <= MaxTime[tier]
  BY TierConstants DEF Init
<1>2. /\ MaxTime[tier] + CREATION_TTL_NANOS < SENTINEL /\ CREATION_TTL_NANOS \in Nat
      /\ MaxTime[tier] + CLOCK_TTL_NANOS < SENTINEL /\ CLOCK_TTL_NANOS \in Nat
      /\ 2 * (MaxTime[tier] + interval_ms) < SENTINEL
  BY <1>1, TierConstants
<1>3. exp \in Nat /\ exp < SENTINEL
  <2>1. /\ StartTime + CREATION_TTL_NANOS \in Nat /\ StartTime + CREATION_TTL_NANOS < SENTINEL
        /\ StartTime + CLOCK_TTL_NANOS \in Nat /\ StartTime + CLOCK_TTL_NANOS < SENTINEL
    BY <1>1, <1>2, Constants
  <2> QED BY <2>1 DEF Init
<1> DEFINE ms == StartTime \div NANOS_PER_MS
<1>4. ms \in Nat /\ ms <= StartTime
  BY <1>1, DivMod, Constants
<1> HIDE DEF ms
<1>5. ms + interval_ms < SENTINEL /\ ms # SENTINEL /\ ms \in Word
  BY <1>1, <1>2, <1>4, Constants
<1>6. /\ next_line(ms, interval_ms) \in Word /\ next_line(ms, interval_ms) # SENTINEL
      /\ next_line(ms, interval_ms) % interval_ms = 0 /\ ms < next_line(ms, interval_ms)
  BY <1>4, <1>5, NextLineGrid
<1>7. /\ open = CASE tier \in {"WaitTimer", "Clock"} -> ms
                  [] tier = "WaitCron"    -> next_line(ms, interval_ms)
                  [] tier = "WaitBarrier" -> 1
                  [] OTHER                -> 0
      /\ closed = IF tier \in {"WaitTimer", "WaitCron", "Clock"} THEN ms ELSE 0
      /\ clock = ms /\ now = StartTime
  BY DEF Init, ms
<1>8. 0 # SENTINEL /\ 1 # SENTINEL /\ 0 \in Word /\ 1 \in Word
  BY WordAssumption, Constants
<1>9. open \in Word /\ open # SENTINEL
  BY <1>5, <1>6, <1>7, <1>8
<1>10. closed \in Nat /\ closed # SENTINEL
  BY <1>4, <1>5, <1>7, <1>8
<1>11. tier = "WaitCron" => open % interval_ms = 0 /\ closed < open
  BY <1>6, <1>7
<1> QED BY <1>1, <1>3, <1>4, <1>7, <1>9, <1>10, <1>11 DEF ms

(* Every behaviour of a wait tier is a behaviour of Lease: the touch       *)
(* thread, the waits and free only ever renew, the daemon condemns on      *)
(* evidence it has seen or by a claim only, and nothing it let go of is    *)
(* alive.                                                                  *)
THEOREM LeaseKeptAlways == Spec => LeaseKept
<1>1. Init => L!Init
  <2> SUFFICES ASSUME Init PROVE L!Init
    OBVIOUS
  <2>1. Phase = "leased" /\ dopen = 0 /\ dclosed = 0 /\ registered = TRUE /\ 0 # SENTINEL
    BY WordAssumption DEF Init, Phase
  <2> QED BY <2>1, InitWords DEF L!Init
<1>2. TypeOK /\ TypeOK' /\ LifeInv /\ [Next]_vars => [L!Next]_(L!vars)
  <2> SUFFICES ASSUME TypeOK, TypeOK', LifeInv, [Next]_vars PROVE [L!Next]_(L!vars)
    OBVIOUS
  <2>0. exp \in Nat /\ exp' \in Word /\ now \in Nat
    BY TypeFacts DEF TypeOK
  <2>1. CASE Tick
    <3>1. now' = now + 1 /\ UNCHANGED <<open, closed, exp, registered, dpc, dopen, dclosed>>
      BY <2>1 DEF Tick, words, dlocal
    <3>2. Phase' = Phase
      BY <3>1 DEF Phase
    <3> QED BY <3>1, <3>2 DEF L!Next, L!Tick
  <2>2. CASE WatchedStep
    BY <2>0, <2>2, RenewLease DEF WatchedStep, words, daemon, dlocal
  <2>3. CASE DaemonStep
    BY <2>3, DaemonLease
  <2>4. ASSUME NEW t \in Waiters, WaitStart(t) PROVE [L!Next]_(L!vars)
    BY <2>0, <2>4, StartFrame, RenewLease
  <2>5. ASSUME NEW t \in Waiters, WaitStep(t) PROVE [L!Next]_(L!vars)
    <3>1. UNCHANGED <<closed, now, registered, dpc, dopen, dclosed>>
      BY <2>5, StepFrame
    <3>2. Phase' = Phase /\ (Noted' <=> Noted)
      BY <3>1 DEF Phase, Noted
    <3>3. CASE exp' = exp
      BY <3>1, <3>2, <3>3, CounterLease
    <3>4. CASE open' = open /\ exp' = LargerOf(exp, now + ttl[t])
      <4>1. ttl[t] \in Nat
        BY Constants DEF TypeOK
      <4>2. exp' >= exp
        BY <2>0, <3>4, <4>1 DEF LargerOf
      <4> QED BY <2>0, <3>1, <3>4, <4>2, RenewLease
    <3> QED BY <2>5, <3>3, <3>4, StepWords
  <2>6. CASE TouchStep
    <3>1. UNCHANGED <<open, closed, now, registered, dpc, dopen, dclosed>>
      BY <2>6 DEF TouchStep, daemon, dlocal
    <3>2. TOUCH_TTL \in Nat
      BY TierConstants DEF TypeOK
    <3>3. exp' >= exp
      BY <2>0, <2>6, <3>2 DEF TouchStep, LargerOf
    <3> QED BY <2>0, <3>1, <3>3, RenewLease
  <2>7. CASE HandleEnd \/ HandleJoined
    <3>1. UNCHANGED <<open, closed, now, registered, dpc, dopen, dclosed>>
      BY <2>7 DEF HandleEnd, HandleJoined, words, daemon, dlocal
    <3>2. exp' = exp \/ exp' = SENTINEL
      BY <2>7 DEF HandleEnd, HandleJoined, words
    <3>3. exp' >= exp
      BY <2>0, <3>2, Constants DEF TypeOK
    <3> QED BY <2>0, <3>1, <3>3, RenewLease
  <2>8. CASE UNCHANGED vars
    BY <2>0, <2>8, RenewLease DEF vars, words, daemon, dlocal
  <2> QED BY <2>1, <2>2, <2>3, <2>4, <2>5, <2>6, <2>7, <2>8 DEF Next
<1> QED BY <1>1, <1>2, LifeAlways, TypeBudgetAlways, PTL DEF Spec, LeaseKept, L!Spec

(***************************************************************************)
(* Deliveries are real.  First the steps that leave the counters, the      *)
(* daemon and the waiters alone, and where in its call a waiter of each    *)
(* tier can be.                                                            *)
(***************************************************************************)
Quiet == Tick \/ WatchedStep \/ TouchStep \/ HandleEnd \/ HandleJoined \/ UNCHANGED vars

LEMMA QuietFrame ==
    ASSUME Quiet
    PROVE  UNCHANGED <<tier, open, closed, clock, registered, dpc, dclock, dnow, dopen, dclosed,
                       dvalue, pc, target, initial, on, loads, result>>
BY DEF Quiet, Tick, WatchedStep, TouchStep, HandleEnd, HandleJoined, vars, words, env, daemon,
       dlocal, thread

LEMMA NextSplit ==
    [Next]_vars => \/ Quiet \/ DaemonStep
                   \/ \E t \in Waiters : WaitStart(t) \/ WaitStep(t)
BY DEF Next, Quiet

(* The clock is not ahead of the time, and the watched word not above the  *)
(* largest value it had.                                                   *)
EnvInv ==
    /\ clock <= now \div NANOS_PER_MS
    /\ watched \in {Gone, SENTINEL} \cup 0 .. MaxCount
    /\ watched <= highest

LEMMA WatchedGrows ==
    ASSUME TypeOK, WatchedStep
    PROVE  /\ watched' \in {Gone, SENTINEL} \cup 0 .. MaxCount
           /\ highest' >= highest /\ highest' >= watched' /\ highest' \in Nat
<1>1. watched' \in {0} \cup {Gone} \cup {SENTINEL} \cup 0 .. MaxCount
  BY DEF WatchedStep
<1>2. watched' \in {Gone, SENTINEL} \cup 0 .. MaxCount /\ watched' \in Int
  BY <1>1, Constants
<1>3. highest \in Nat /\ highest' = LargerOf(highest, watched')
  BY TypeFacts DEF WatchedStep
<1> QED BY <1>2, <1>3 DEF LargerOf

LEMMA ClockGrows ==
    ASSUME TypeOK, EnvInv, DaemonStep
    PROVE  clock' \in Nat /\ clock' >= clock /\ clock' <= now \div NANOS_PER_MS
<1>1. clock' = clock \/ clock' = now \div NANOS_PER_MS
  BY DEF DaemonStep, AdvanceClock, EvalStart, EvalNothing, EvalLoadOpen, EvalLoadClosed, EvalLoadExp,
         EvalWatch, EvalStamp, EvalWake, EvalRearm, Claim, ReapStore, ReapWake, ClockWake, ClockArm
<1>2. clock \in Nat /\ now \div NANOS_PER_MS \in Nat
  BY TypeFacts
<1> QED BY <1>1, <1>2 DEF EnvInv

LEMMA EnvNext == TypeOK /\ EnvInv /\ [Next]_vars => EnvInv'
<1> SUFFICES ASSUME TypeOK, EnvInv, [Next]_vars PROVE EnvInv'
  OBVIOUS
<1>1. CASE UNCHANGED <<now, clock, watched, highest>>
  BY <1>1 DEF EnvInv
<1>2. CASE Tick
  <2>1. UNCHANGED <<clock, watched, highest>> /\ now' = now + 1
    BY <1>2 DEF Tick, env
  <2>2. now \in Nat /\ now + 1 \in Nat /\ now <= now + 1 /\ clock \in Nat
    BY TypeFacts
  <2>3. /\ now \div NANOS_PER_MS <= (now + 1) \div NANOS_PER_MS
        /\ now \div NANOS_PER_MS \in Nat /\ (now + 1) \div NANOS_PER_MS \in Nat
    BY <2>2, DivMonotone, DivMod, Constants
  <2>4. clock <= now' \div NANOS_PER_MS
    BY <2>1, <2>2, <2>3 DEF EnvInv
  <2> QED BY <2>1, <2>4 DEF EnvInv
<1>3. CASE WatchedStep
  <2>1. UNCHANGED <<clock, now>>
    BY <1>3 DEF WatchedStep, daemon
  <2>2. watched' <= highest'
    BY <1>3, WatchedGrows, Constants
  <2> QED BY <1>3, <2>1, <2>2, WatchedGrows DEF EnvInv
<1>4. CASE DaemonStep
  BY <1>4, ClockGrows, DaemonThreads DEF EnvInv
<1>5. CASE TouchStep \/ HandleEnd \/ HandleJoined \/ UNCHANGED vars
  BY <1>1, <1>5 DEF TouchStep, HandleEnd, HandleJoined, vars, env, daemon
<1>6. ASSUME NEW t \in Waiters, WaitStart(t) \/ WaitStep(t) PROVE EnvInv'
  BY <1>1, <1>6, StartFrame, StepFrame
<1> QED BY <1>2, <1>3, <1>4, <1>5, <1>6 DEF Next

(* The positions that a call of the tier passes through. *)
Fits(p) ==
    /\ p \in {"raise", "raiseCas", "arm"} => tier \in {"WaitTimer", "WaitCounter"}
    /\ p = "setDeadline" => tier = "WaitTimer"
    /\ p = "clockLoad" => tier = "Clock"
    /\ p \in {"againClosed", "againOpen"} => tier = "WaitCounter"
    /\ tier = "Clock" => p \in {"idle", "clockLoad", "futex", "asleep", "againExp", "againNow",
                                "aborted"}

PlaceInv == \A t \in Waiters : Fits(pc[t]) /\ (on[t] = "open" => tier = "Clock")

LEMMA FitsAfterFutex == Fits("asleep") => Fits(AfterFutex)
BY DEF Fits, AfterFutex

LEMMA StepFits ==
    ASSUME TypeOK, NEW t \in Waiters, Fits(pc[t]), WaitStep(t) PROVE Fits(pc'[t])
<1>1. ASSUME NEW label, NEW l, Goto(t, label, l), Fits(label) PROVE Fits(pc'[t])
  BY <1>1, GotoAt
<1>2. Fits("idle") /\ Fits("aborted")
  BY DEF Fits
<1>3. ASSUME NEW state, NEW c, Return(t, state, c) PROVE Fits(pc'[t])
  BY <1>2, <1>3, ReturnAt
<1>4. CASE RaiseLoad(t) \/ RaiseCas(t)
  <2>1. Fits("arm") /\ Fits("raiseCas") /\ Fits("raise")
    BY <1>4 DEF RaiseLoad, RaiseCas, At, Fits
  <2> QED BY <1>1, <1>4, <2>1 DEF RaiseLoad, RaiseCas
<1>5. CASE Arm(t)
  <2>1. Fits(IF tier = "WaitTimer" THEN "setDeadline" ELSE "loadClosed")
    BY <1>5 DEF Arm, At, Fits
  <2> QED BY <1>1, <1>3, <1>5, <2>1 DEF Arm, Reaped
<1>6. CASE SetDeadline(t)
  <2>1. pc'[t] = "loadClosed" /\ tier = "WaitTimer"
    BY <1>6 DEF SetDeadline, At, Fits, TypeOK
  <2> QED BY <2>1 DEF Fits
<1>7. CASE LoadClosed(t)
  <2>1. Fits("loadOpen") /\ Fits("loadExp")
    BY <1>7 DEF LoadClosed, At, Fits
  <2>2. Fits(IF closed > initial[t] THEN "loadOpen" ELSE "loadExp")
    BY <2>1
  <2> QED BY <1>1, <1>3, <1>7, <2>1, <2>2 DEF LoadClosed, Reaped
<1>8. CASE LoadOpen(t)
  <2>1. Fits(IF tier = "WaitCounter" THEN "futex" ELSE "loadExp")
    BY <1>8 DEF LoadOpen, At, Fits
  <2> QED BY <1>1, <1>3, <1>8, <2>1 DEF LoadOpen
<1>9. CASE LoadExp(t)
  <2>1. Fits(IF tier = "WaitBarrier" THEN "futex" ELSE "readNow")
    BY <1>9 DEF LoadExp, At, Fits
  <2>2. \/ Reaped(t)
        \/ \E l : Goto(t, IF tier = "WaitBarrier" THEN "futex" ELSE "readNow", l)
    BY <1>9 DEF LoadExp
  <2> QED BY <1>1, <1>3, <2>1, <2>2 DEF Reaped
<1>10. CASE ReadNow(t)
  <2>1. Fits("futex")
    BY DEF Fits
  <2> QED BY <1>1, <1>2, <1>3, <1>10, <2>1 DEF ReadNow, Reaped
<1>11. CASE ClockLoad(t)
  <2>1. Fits("futex")
    BY DEF Fits
  <2> QED BY <1>1, <1>3, <1>11, <2>1 DEF ClockLoad, Reaped
<1>12. CASE FutexWait(t)
  <2>1. Fits("asleep")
    BY DEF Fits
  <2>2. \E l : Goto(t, "asleep", l) \/ Goto(t, AfterFutex, l)
    BY <1>12 DEF FutexWait
  <2> QED BY <1>1, <2>1, <2>2, FitsAfterFutex
<1>13. CASE FutexReturn(t)
  <2>1. Fits(AfterFutex)
    BY FitsAfterFutex DEF Fits
  <2> QED BY <1>1, <1>13, <2>1 DEF FutexReturn
<1>14. CASE AgainClosed(t)
  <2>1. Fits("againOpen")
    BY <1>14 DEF AgainClosed, At, Fits
  <2> QED BY <1>1, <1>14, <2>1 DEF AgainClosed
<1>15. CASE AgainOpen(t)
  <2>1. Fits("againExp")
    BY DEF Fits
  <2> QED BY <1>1, <1>3, <1>15, <2>1 DEF AgainOpen
<1>16. CASE AgainExp(t)
  <2>1. Fits("againNow") /\ (tier = "WaitCounter" => Fits("loadClosed"))
    BY DEF Fits
  <2> QED BY <1>1, <1>3, <1>16, <2>1 DEF AgainExp, Reaped
<1>17. CASE AgainNow(t)
  <2>1. Fits(IF tier = "Clock" THEN "clockLoad" ELSE "loadClosed")
    BY DEF Fits
  <2> QED BY <1>1, <1>3, <1>17, <2>1 DEF AgainNow, Reaped
<1> QED BY <1>4, <1>5, <1>6, <1>7, <1>8, <1>9, <1>10, <1>11, <1>12, <1>13, <1>14, <1>15, <1>16,
           <1>17 DEF WaitStep

LEMMA PlaceNext == TypeOK /\ PlaceInv /\ [Next]_vars => PlaceInv'
<1> SUFFICES ASSUME TypeOK, PlaceInv, [Next]_vars PROVE PlaceInv'
  OBVIOUS
<1>1. CASE Quiet
  BY <1>1, QuietFrame DEF PlaceInv, Fits
<1>2. CASE DaemonStep
  <2>1. UNCHANGED <<tier, on>>
    BY <1>2, DaemonThreads
  <2>2. ASSUME NEW t \in Waiters PROVE Fits(pc'[t]) /\ (on[t] = "open" => tier = "Clock")
    <3>1. Fits(pc[t]) /\ (on[t] = "open" => tier = "Clock")
      BY DEF PlaceInv
    <3>2. pc'[t] = pc[t] \/ (pc[t] = "asleep" /\ pc'[t] = AfterFutex)
      BY <1>2, DaemonThreads
    <3> QED BY <3>1, <3>2, FitsAfterFutex
  <2> QED BY <2>1, <2>2 DEF PlaceInv, Fits
<1>3. ASSUME NEW t \in Waiters, WaitStart(t) PROVE PlaceInv'
  <2>1. UNCHANGED tier /\ \A u \in Waiters \ {t} : pc'[u] = pc[u] /\ on'[u] = on[u]
    BY <1>3, StartFrame
  <2>2. Fits(pc'[t]) /\ (on'[t] = "open" => tier = "Clock")
    BY <1>3 DEF WaitStart, ClockStart, TimerStart, CounterStart, CronStart, BarrierStart, Begin,
                TypeOK, Fits
  <2> QED BY <2>1, <2>2 DEF PlaceInv, Fits
<1>4. ASSUME NEW t \in Waiters, WaitStep(t) PROVE PlaceInv'
  <2>1. UNCHANGED <<tier, on>> /\ \A u \in Waiters \ {t} : pc'[u] = pc[u]
    BY <1>4, StepFrame
  <2>2. Fits(pc'[t])
    BY <1>4, StepFits DEF PlaceInv
  <2> QED BY <2>1, <2>2 DEF PlaceInv, Fits
<1> QED BY <1>1, <1>2, <1>3, <1>4, NextSplit

(***************************************************************************)
(* Every value that stands in closed_count, that the daemon is about to    *)
(* store there or that a waiter has loaded from there is a delivery that   *)
(* has happened.  InBounds is for the futex below: what can stand in a     *)
(* word that somebody sleeps on.                                           *)
(***************************************************************************)
ClosedOk(c) ==
    CASE tier \in {"WaitTimer", "WaitCron", "Clock"} -> c = SENTINEL \/ c <= clock
      [] tier = "WaitCounter" -> c = SENTINEL \/ c <= highest
      [] OTHER                -> c \in {0, SENTINEL} \/ (c <= clock /\ highest >= threshold)

InBounds(c) == c = SENTINEL \/ c <= MaxClock \/ c <= MaxCount

StampOk(c) == ClosedOk(c) /\ InBounds(c)

StampInv ==
    /\ StampOk(closed)
    /\ dpc = "stamp" => StampOk(dvalue)
    /\ tier = "Clock" => open = clock
    /\ \A t \in Waiters : StampOk(loads[t].closed) /\ (tier = "Clock" => InBounds(loads[t].open))

LEMMA StampOkGrows ==
    ASSUME TypeOK, NEW c \in Nat, StampOk(c), UNCHANGED tier,
           clock' \in Nat, clock' >= clock, highest' \in Nat, highest' >= highest
    PROVE  StampOk(c)'
<1>1. InBounds(c)'
  BY DEF StampOk, InBounds, MaxClock
<1>2. clock \in Nat /\ highest \in Nat /\ threshold \in Nat
  BY TypeFacts, Constants
<1>3. (c <= clock => c <= clock') /\ (c <= highest => c <= highest')
      /\ (highest >= threshold => highest' >= threshold)
  BY <1>2
<1>4. ClosedOk(c)'
  BY <1>3 DEF StampOk, ClosedOk
<1> QED BY <1>1, <1>4 DEF StampOk

LEMMA StampOkEnds == ASSUME TypeOK PROVE StampOk(0) /\ StampOk(SENTINEL)
<1>1. 0 <= clock /\ 0 <= highest /\ 0 <= MaxClock
  BY TypeFacts
<1> QED BY <1>1 DEF StampOk, ClosedOk, InBounds

LEMMA StampInit == Init => EnvInv /\ PlaceInv /\ StampInv
<1> SUFFICES ASSUME Init PROVE EnvInv /\ PlaceInv /\ StampInv
  OBVIOUS
<1>1. TypeOK
  BY TypeInit
<1>2. EnvInv
  <2>1. clock <= now \div NANOS_PER_MS
    BY <1>1, TypeFacts, InitWords
  <2>2. watched = 0 /\ highest = 0 /\ 0 \in 0 .. MaxCount
    BY Constants DEF Init
  <2> QED BY <2>1, <2>2 DEF EnvInv
<1>3. PlaceInv
  BY DEF Init, PlaceInv, Fits
<1>4. StampOk(closed)
  <2>1. tier \in {"WaitTimer", "WaitCron", "Clock"} => closed = clock
    BY InitWords
  <2>2. clock \in Nat /\ MaxClock \in Nat /\ clock <= MaxClock /\ clock <= clock
    BY <1>1, TypeFacts
  <2>3. CASE tier \in {"WaitTimer", "WaitCron", "Clock"}
    BY <2>1, <2>2, <2>3 DEF StampOk, ClosedOk, InBounds
  <2>4. CASE tier \notin {"WaitTimer", "WaitCron", "Clock"}
    <3>1. closed = 0
      BY <2>4 DEF Init
    <3> QED BY <1>1, <3>1, StampOkEnds
  <2> QED BY <2>3, <2>4
<1>5. \A t \in Waiters : loads[t].closed = 0 /\ loads[t].open = 0
  BY DEF Init, NoLoads
<1>6. tier = "Clock" => open = clock
  BY DEF Init
<1>7. dpc = "poll"
  BY DEF Init
<1> QED BY <1>1, <1>2, <1>3, <1>4, <1>5, <1>6, <1>7, StampOkEnds DEF StampInv, StampOk

(* What a waiter's step puts into its loads. *)
LEMMA StepLoads ==
    ASSUME TypeOK, NEW t \in Waiters, WaitStep(t)
    PROVE  /\ loads'[t].closed \in {0, closed, loads[t].closed}
           /\ loads'[t].open \in {0, open, loads[t].open}
<1> DEFINE Old(l) == l.closed \in {0, closed, loads[t].closed} /\ l.open \in {0, open, loads[t].open}
<1>0. loads[t] \in LoadSet /\ on[t] \in {"open", "closed"}
  BY TypeFacts DEF TypeOK
<1>1. Old(NoLoads) /\ Old(loads[t])
  BY DEF NoLoads
<1>2. /\ Old([NoLoads EXCEPT !.open = open]) /\ Old([NoLoads EXCEPT !.closed = closed])
      /\ Old([NoLoads EXCEPT !.exp = exp])
      /\ \A b : Old([NoLoads EXCEPT !.timed_out = b])
  BY DEF NoLoads
<1>3. /\ Old([loads[t] EXCEPT !.open = open]) /\ Old([loads[t] EXCEPT !.closed = closed])
      /\ Old([loads[t] EXCEPT !.exp = exp])
  BY <1>0 DEF LoadSet
<1>4. /\ on[t] = "open" => /\ Old([NoLoads EXCEPT ![on[t]] = open])
                           /\ Old([NoLoads EXCEPT ![on[t]] = loads[t][on[t]]])
      /\ on[t] = "closed" => /\ Old([NoLoads EXCEPT ![on[t]] = closed])
                             /\ Old([NoLoads EXCEPT ![on[t]] = loads[t][on[t]]])
  BY <1>0 DEF NoLoads, LoadSet
<1> HIDE DEF Old
<1>5. ASSUME NEW label, NEW l, Goto(t, label, l), Old(l) PROVE Old(loads'[t])
  BY <1>5, GotoAt
<1>6. ASSUME NEW state, NEW c, Return(t, state, c) PROVE Old(loads'[t])
  BY <1>1, <1>6, ReturnAt
<1>7. CASE RaiseLoad(t) \/ RaiseCas(t) \/ Arm(t)
  BY <1>1, <1>2, <1>5, <1>6, <1>7 DEF RaiseLoad, RaiseCas, Arm, Reaped, Old
<1>8. CASE SetDeadline(t)
  BY <1>1, <1>8 DEF SetDeadline, Old
<1>9. CASE LoadClosed(t) \/ LoadOpen(t)
  BY <1>2, <1>3, <1>5, <1>6, <1>9 DEF LoadClosed, LoadOpen, Reaped, Old
<1>10. CASE LoadExp(t)
  <2>1. Reaped(t) \/ \E label : Goto(t, label, [loads[t] EXCEPT !.exp = exp])
    BY <1>10 DEF LoadExp
  <2> QED BY <1>3, <1>5, <1>6, <2>1 DEF Reaped, Old
<1>11. CASE ReadNow(t)
  BY <1>1, <1>5, <1>6, <1>11 DEF ReadNow, Reaped, Old
<1>12. CASE ClockLoad(t)
  <2>1. \/ \E state, c : Return(t, state, c)
        \/ \E label : Goto(t, label, [NoLoads EXCEPT ![on[t]] = IF on[t] = "open" THEN open ELSE closed])
    BY <1>12 DEF ClockLoad, Reaped
  <2> QED BY <1>0, <1>4, <1>5, <1>6, <2>1 DEF Old
<1>13. CASE FutexWait(t)
  <2>1. \E label : \/ Goto(t, label, NoLoads)
                   \/ Goto(t, label, [NoLoads EXCEPT ![on[t]] = loads[t][on[t]]])
    BY <1>13 DEF FutexWait
  <2> QED BY <1>0, <1>1, <1>4, <1>5, <2>1 DEF Old
<1>14. CASE FutexReturn(t)
  BY <1>2, <1>5, <1>14 DEF FutexReturn, Old
<1>15. CASE AgainClosed(t) \/ AgainOpen(t)
  BY <1>1, <1>3, <1>5, <1>6, <1>15 DEF AgainClosed, AgainOpen, Old
<1>16. CASE AgainExp(t)
  BY <1>1, <1>2, <1>5, <1>6, <1>16 DEF AgainExp, Reaped, Old
<1>17. CASE AgainNow(t)
  BY <1>1, <1>5, <1>6, <1>17 DEF AgainNow, Reaped, Old
<1> QED BY <1>7, <1>8, <1>9, <1>10, <1>11, <1>12, <1>13, <1>14, <1>15, <1>16, <1>17 DEF WaitStep, Old

(* The daemon stamps what it has seen. *)
LEMMA WatchStamp ==
    ASSUME TypeOK, DaemonInv, EnvInv, EvalWatch, dpc' = "stamp" PROVE StampOk(dvalue')
<1>0. dpc = "watch" /\ dpc' # "poll"
  BY DEF EvalWatch
<1>1. /\ dvalue' = IF tier = "WaitCounter" THEN watched ELSE dclock
      /\ CASE tier = "WaitCounter" -> watched # Gone /\ watched >= dopen
           [] tier = "WaitBarrier" -> watched # Gone /\ watched >= threshold
           [] OTHER                -> dclock >= dopen
  BY <1>0 DEF EvalWatch, CycleEnd
<1>2. /\ dclock \in Nat /\ dclock <= clock /\ dclock <= MaxClock /\ highest \in Nat
      /\ threshold \in Nat /\ tier # "Clock"
  BY <1>0, TypeFacts, Constants DEF DaemonInv
<1>3. CASE tier = "WaitCounter"
  <2>1. watched \in {SENTINEL} \cup 0 .. MaxCount /\ watched <= highest
    BY <1>1, <1>3 DEF EnvInv
  <2> QED BY <1>1, <1>3, <2>1, Constants DEF StampOk, ClosedOk, InBounds
<1>4. CASE tier = "WaitBarrier"
  <2>1. watched \in {SENTINEL} \cup 0 .. MaxCount /\ watched <= highest /\ watched >= threshold
    BY <1>1, <1>4 DEF EnvInv
  <2>2. highest >= threshold
    BY <1>2, <2>1, Constants
  <2> QED BY <1>1, <1>2, <1>4, <2>2 DEF StampOk, ClosedOk, InBounds
<1>5. CASE tier \notin {"WaitCounter", "WaitBarrier"}
  <2>1. tier \in {"WaitTimer", "WaitCron", "Clock"}
    BY <1>5, WaitTierAssumption DEF TypeOK
  <2> QED BY <1>1, <1>2, <1>5, <2>1 DEF StampOk, ClosedOk, InBounds
<1> QED BY <1>3, <1>4, <1>5

(* What the daemon's step does to the counters. *)
LEMMA DaemonCounters ==
    ASSUME TypeOK, LifeInv, DaemonStep
    PROVE  /\ \/ closed' = closed \/ EvalStamp
              \/ dpc = "reapClosed" /\ dpc' = "reapExp" /\ closed' = SENTINEL /\ open' = open
           /\ \/ open' = open \/ (AdvanceClock /\ tier = "Clock") \/ EvalRearm
              \/ dpc = "reapOpen" /\ dpc' = "reapClosed" /\ open' = SENTINEL /\ closed' = closed
           /\ dpc' = "stamp" => EvalWatch
           /\ clock' = clock \/ AdvanceClock
BY DEF DaemonStep, AdvanceClock, EvalStart, EvalNothing, EvalLoadOpen, EvalLoadClosed, EvalLoadExp,
       EvalWatch, EvalStamp, EvalWake, EvalRearm, Claim, ReapStore, ReapWake, ClockWake, ClockArm,
       words, DaemonGoto, CycleEnd

LEMMA StampNext ==
    TypeOK /\ LifeInv /\ EnvInv /\ PlaceInv /\ StampInv /\ [Next]_vars => StampInv'
<1> SUFFICES ASSUME TypeOK, LifeInv, EnvInv, PlaceInv, StampInv, [Next]_vars PROVE StampInv'
  OBVIOUS
<1>0. /\ closed \in Nat /\ dvalue \in Nat /\ clock \in Nat /\ highest \in Nat
      /\ \A t \in Waiters : loads[t].closed \in Nat
      /\ StampOk(0) /\ StampOk(SENTINEL)
  BY TypeFacts, StampOkEnds, Constants DEF LoadSet
<1>1. ASSUME tier' = tier, clock' \in Nat, clock' >= clock, highest' \in Nat, highest' >= highest,
             closed' \in Nat, StampOk(closed'),
             dpc' = "stamp" => dvalue' \in Nat /\ StampOk(dvalue'),
             tier = "Clock" => open' = clock',
             \A t \in Waiters : /\ loads'[t].closed \in Nat /\ StampOk(loads'[t].closed)
                                /\ tier = "Clock" => InBounds(loads'[t].open)
      PROVE  StampInv'
  <2>1. ASSUME NEW c \in Nat, StampOk(c) PROVE StampOk(c)'
    BY <1>1, <2>1, StampOkGrows
  <2>2. StampOk(closed)' /\ (dpc = "stamp" => StampOk(dvalue))'
    BY <1>1, <2>1 DEF StampOk, ClosedOk, InBounds, MaxClock
  <2>3. \A t \in Waiters : StampOk(loads[t].closed)'
    BY <1>1, <2>1 DEF StampOk, ClosedOk, InBounds, MaxClock
  <2>4. \A t \in Waiters : (tier = "Clock" => InBounds(loads[t].open))'
    BY <1>1 DEF InBounds, MaxClock
  <2> QED BY <1>1, <2>2, <2>3, <2>4 DEF StampInv
<1>2. /\ StampOk(closed) /\ (dpc = "stamp" => StampOk(dvalue)) /\ (tier = "Clock" => open = clock)
      /\ \A t \in Waiters : /\ loads[t].closed \in Nat /\ StampOk(loads[t].closed)
                            /\ tier = "Clock" => InBounds(loads[t].open)
  BY <1>0 DEF StampInv
<1>3. CASE Quiet
  <2>1. UNCHANGED <<tier, open, closed, clock, dpc, dvalue, loads>>
    BY <1>3, QuietFrame
  <2>2. highest' \in Nat /\ highest' >= highest
    <3>1. CASE WatchedStep
      BY <3>1, WatchedGrows
    <3>2. CASE ~WatchedStep
      BY <1>0, <1>3, <3>2 DEF Quiet, Tick, TouchStep, HandleEnd, HandleJoined, vars, env
    <3> QED BY <3>1, <3>2
  <2> QED BY <1>0, <1>1, <1>2, <2>1, <2>2
<1>4. CASE DaemonStep
  <2>1. UNCHANGED <<tier, highest, loads>> /\ clock' \in Nat /\ clock' >= clock
    BY <1>4, DaemonThreads, ClockGrows
  <2>2. closed' \in Nat /\ StampOk(closed')
    <3>1. EvalStamp => dpc = "stamp" /\ closed' = dvalue
      BY DEF EvalStamp
    <3> QED BY <1>0, <1>2, <1>4, <3>1, DaemonCounters, Constants
  <2>3. dpc' = "stamp" => dvalue' \in Nat /\ StampOk(dvalue')
    <3> SUFFICES ASSUME dpc' = "stamp" PROVE dvalue' \in Nat /\ StampOk(dvalue')
      OBVIOUS
    <3>1. EvalWatch
      BY <1>4, DaemonCounters
    <3>2. StampOk(dvalue')
      BY <3>1, WatchStamp DEF LifeInv
    <3>3. dvalue' \in Nat
      <4>1. dvalue' = (IF tier = "WaitCounter" THEN watched ELSE dclock) /\ dclock \in Nat
        BY <3>1, TypeFacts DEF EvalWatch, CycleEnd
      <4>2. tier = "WaitCounter" => watched # Gone
        BY <3>1 DEF EvalWatch, CycleEnd
      <4>3. watched # Gone => watched \in Nat
        BY Constants DEF EnvInv
      <4> QED BY <4>1, <4>2, <4>3
    <3> QED BY <3>2, <3>3
  <2>4. tier = "Clock" => open' = clock'
    <3> SUFFICES ASSUME tier = "Clock" PROVE open' = clock'
      OBVIOUS
    <3>1. dpc \in {"poll", "evaluate", "clockArm"}
      BY DEF LifeInv, DaemonInv
    <3>2. CASE AdvanceClock
      BY <3>2 DEF AdvanceClock
    <3>3. CASE ~AdvanceClock
      <4>1. ~EvalRearm /\ clock' = clock
        BY <1>4, <3>1, <3>3, DaemonCounters DEF EvalRearm
      <4>2. open' = open
        BY <1>4, <3>1, <3>3, <4>1, DaemonCounters
      <4> QED BY <1>2, <4>1, <4>2
    <3> QED BY <3>2, <3>3
  <2> QED BY <1>0, <1>1, <1>2, <2>1, <2>2, <2>3, <2>4
<1>5. ASSUME NEW t \in Waiters, WaitStart(t) PROVE StampInv'
  <2>1. UNCHANGED <<tier, open, closed, clock, highest, dpc, dvalue, loads>>
    BY <1>5, StartFrame
  <2> QED BY <1>0, <1>1, <1>2, <2>1
<1>6. ASSUME NEW t \in Waiters, WaitStep(t) PROVE StampInv'
  <2>1. /\ UNCHANGED <<tier, closed, clock, highest, dpc, dvalue>>
        /\ \A u \in Waiters \ {t} : loads'[u] = loads[u]
    BY <1>6, StepFrame
  <2>2. tier = "Clock" => open' = open
    BY <1>6, StepWords DEF PlaceInv, Fits
  <2>3. /\ loads'[t].closed \in {0, closed, loads[t].closed}
        /\ loads'[t].open \in {0, open, loads[t].open}
    BY <1>6, StepLoads
  <2>4. loads'[t].closed \in Nat /\ StampOk(loads'[t].closed)
    BY <1>0, <1>2, <2>3
  <2>5. tier = "Clock" => InBounds(loads'[t].open)
    <3>1. InBounds(0) /\ InBounds(clock)
      BY <1>0, TypeFacts DEF StampOk, InBounds
    <3> QED BY <1>2, <2>3, <3>1
  <2> QED BY <1>0, <1>1, <1>2, <2>1, <2>2, <2>4, <2>5
<1> QED BY <1>3, <1>4, <1>5, <1>6, NextSplit

(***************************************************************************)
(* A cron.  Outside the stamp and the re-arm the next line is ahead of the *)
(* last stamp; a wait that begins between them has read the new stamp, and *)
(* the re-arm then puts the line above it.                                 *)
(***************************************************************************)
Rearming == dpc \in {"wake", "rearm"}

CronLines ==
    /\ open = SENTINEL \/ open % interval_ms = 0
    /\ ~Rearming /\ open # SENTINEL => closed < open
    /\ dpc \in Deciding => dopen = open
    /\ dpc = "stamp" => dvalue = dclock /\ open <= dvalue
    /\ Rearming => closed = dclock /\ open <= closed

CronWait(t) ==
    /\ initial[t] = SENTINEL \/ initial[t] < open \/ (Rearming /\ initial[t] = closed)
    /\ pc[t] = "loadOpen" => /\ initial[t] < loads[t].closed /\ loads[t].closed # SENTINEL
                             /\ initial[t] < open

CronInv == tier = "WaitCron" => CronLines /\ \A t \in Waiters : CronWait(t)

LEMMA CronInit == Init => CronInv
<1> SUFFICES ASSUME Init, tier = "WaitCron" PROVE CronLines /\ \A t \in Waiters : CronWait(t)
  BY DEF CronInv
<1>1. /\ open \in Nat /\ open % interval_ms = 0 /\ closed < open /\ closed \in Nat
  BY InitWords, Constants
<1>2. dpc = "poll" /\ \A t \in Waiters : initial[t] = 0 /\ pc[t] = "idle"
  BY DEF Init
<1>3. 0 < open
  BY <1>1
<1> QED BY <1>1, <1>2, <1>3 DEF CronLines, CronWait, Rearming, Deciding

(* The daemon's cycle of a cron. *)
LEMMA DaemonCron ==
    ASSUME TypeOK, LifeInv, EnvInv, DaemonStep, tier = "WaitCron", CronLines
    PROVE  /\ CronLines'
           /\ \/ open' = open /\ (Rearming => Rearming' /\ closed' = closed)
              \/ EvalRearm /\ open' \in Nat /\ closed < open'
              \/ dpc = "reapOpen" /\ open' = SENTINEL
<1>0. /\ open \in Nat /\ closed \in Nat /\ dclock \in Nat /\ dvalue \in Nat /\ dopen \in Nat
      /\ DaemonInv /\ ReapInv
  BY TypeFacts DEF LifeInv
<1>1. CycleEnd => dpc' = "poll"
  BY DEF CycleEnd
<1>2. CASE AdvanceClock
  BY <1>2 DEF AdvanceClock, DaemonGoto, CronLines, Rearming, Deciding
<1>3. CASE EvalStart
  BY <1>3 DEF EvalStart, DaemonGoto, CronLines, Rearming, Deciding, words
<1>4. CASE EvalNothing
  BY <1>1, <1>4 DEF EvalNothing, CronLines, Rearming, Deciding, words
<1>5. CASE EvalLoadOpen
  BY <1>5 DEF EvalLoadOpen, DaemonGoto, CronLines, Rearming, Deciding, words
<1>6. CASE EvalLoadClosed
  BY <1>6 DEF EvalLoadClosed, DaemonGoto, CronLines, Rearming, Deciding, words
<1>7. CASE EvalLoadExp
  <2>1. /\ UNCHANGED <<open, closed>> /\ dpc = "loadExp"
        /\ dpc' \in {"reapOpen", "poll"} \/ (dpc' = "watch" /\ dopen' = dopen)
    BY <1>1, <1>7 DEF EvalLoadExp, DaemonGoto, words
  <2> QED BY <2>1 DEF CronLines, Rearming, Deciding
<1>8. CASE EvalWatch
  <2>1. UNCHANGED <<open, closed>> /\ dpc = "watch" /\ dpc' \in {"stamp", "poll"}
    BY <1>1, <1>8 DEF EvalWatch, DaemonGoto, words
  <2>2. dpc' = "stamp" => dvalue' = dclock /\ dclock' = dclock /\ dclock >= dopen
    BY <1>1, <1>8 DEF EvalWatch
  <2>3. dpc' = "stamp" => dvalue' = dclock' /\ open' <= dvalue'
    BY <1>0, <2>1, <2>2 DEF CronLines, Deciding
  <2> QED BY <2>1, <2>3 DEF CronLines, Rearming, Deciding
<1>9. CASE EvalStamp
  <2>1. /\ open' = open /\ closed' = dvalue /\ dclock' = dclock /\ dpc = "stamp" /\ dpc' = "wake"
    BY <1>9 DEF EvalStamp, DaemonGoto, dlocal
  <2> QED BY <2>1 DEF CronLines, Rearming, Deciding
<1>10. CASE EvalWake
  <2>1. UNCHANGED <<open, closed, dclock>> /\ dpc = "wake" /\ dpc' = "rearm"
    BY <1>10 DEF EvalWake, words, dlocal
  <2> QED BY <2>1 DEF CronLines, Rearming, Deciding
<1>11. CASE EvalRearm
  <2>1. /\ open' = next_line(dclock, interval_ms) /\ closed' = closed /\ dpc = "rearm" /\ dpc' = "poll"
        /\ closed = dclock
    BY <1>1, <1>11 DEF EvalRearm, CronLines, Rearming
  <2>2. dclock + interval_ms < SENTINEL
    <3>1. /\ dclock <= MaxClock /\ MaxClock <= MaxTime[tier]
          /\ MaxClock \in Nat /\ MaxTime[tier] \in Nat /\ tier \in Tiers
      BY TypeFacts
    <3>2. 2 * (MaxTime[tier] + interval_ms) < SENTINEL
      BY <3>1, TierConstants
    <3> QED BY <1>0, <3>1, <3>2, Constants
  <2>3. open' % interval_ms = 0 /\ closed < open' /\ open' \in Nat
    BY <1>0, <2>1, <2>2, NextLineGrid, Constants
  <2> QED BY <1>11, <2>1, <2>3 DEF CronLines, Rearming, Deciding
<1>12. CASE Claim
  BY <1>12 DEF Claim, CronLines, Rearming, Deciding, words
<1>13. CASE ReapStore
  BY <1>0, <1>13 DEF ReapStore, DaemonGoto, ReapInv, CronLines, Rearming, Deciding
<1>14. CASE ReapWake
  BY <1>1, <1>14 DEF ReapWake, CronLines, Rearming, Deciding, words
<1>15. CASE ClockWake \/ ClockArm
  BY <1>0, <1>15 DEF ClockWake, ClockArm, DaemonInv
<1> QED BY <1>2, <1>3, <1>4, <1>5, <1>6, <1>7, <1>8, <1>9, <1>10, <1>11, <1>12, <1>13, <1>14,
           <1>15 DEF DaemonStep

(* A wait of a cron compares the counters only past a stamp newer than the *)
(* one it began with.                                                      *)
LEMMA StepToLoadOpen ==
    ASSUME TypeOK, NEW t \in Waiters, WaitStep(t), tier = "WaitCron", pc'[t] = "loadOpen"
    PROVE  closed > initial[t] /\ closed # SENTINEL /\ loads'[t].closed = closed
<1>1. \A label, l : Goto(t, label, l) => label = "loadOpen" /\ loads'[t] = l
  BY GotoAt
<1>2. ~ \E state, c : Return(t, state, c)
  BY ReturnAt
<1>3. LoadClosed(t)
  <2>1. ~SetDeadline(t)
    BY DEF SetDeadline, TypeOK
  <2> QED BY <1>1, <1>2, <2>1
          DEF WaitStep, RaiseLoad, RaiseCas, Arm, LoadOpen, LoadExp, ReadNow, ClockLoad, FutexWait,
              FutexReturn, AgainClosed, AgainOpen, AgainExp, AgainNow, Reaped, AfterFutex
<1>4. /\ closed # SENTINEL
      /\ Goto(t, IF closed > initial[t] THEN "loadOpen" ELSE "loadExp", [NoLoads EXCEPT !.closed = closed])
  BY <1>2, <1>3 DEF LoadClosed, Reaped
<1>5. closed > initial[t] /\ loads'[t] = [NoLoads EXCEPT !.closed = closed]
  BY <1>1, <1>4
<1> QED BY <1>4, <1>5 DEF NoLoads

LEMMA CronNext ==
    TypeOK /\ LifeInv /\ EnvInv /\ PlaceInv /\ CronInv /\ [Next]_vars => CronInv'
<1> SUFFICES ASSUME TypeOK, LifeInv, EnvInv, PlaceInv, CronInv, [Next]_vars, tier' = "WaitCron"
             PROVE  CronLines' /\ \A t \in Waiters : CronWait(t)'
  BY DEF CronInv
<1>0. /\ open \in Nat /\ closed \in Nat /\ open <= SENTINEL /\ closed <= SENTINEL /\ SENTINEL \in Nat
      /\ \A t \in Waiters : initial[t] \in Nat /\ initial[t] <= SENTINEL /\ loads[t].closed \in Nat
  BY TypeFacts, Constants DEF TypeOK, LoadSet
<1>1. tier = "WaitCron"
  BY NextSplit, QuietFrame, DaemonThreads, StartFrame, StepFrame
<1>2. CronLines /\ \A t \in Waiters : CronWait(t)
  BY <1>1 DEF CronInv
<1>3. CASE Quiet
  BY <1>2, <1>3, QuietFrame DEF CronLines, CronWait, Rearming
<1>4. CASE DaemonStep
  <2>1. CronLines'
    BY <1>1, <1>2, <1>4, DaemonCron
  <2>2. ASSUME NEW t \in Waiters PROVE CronWait(t)'
    <3>1. UNCHANGED <<initial, loads>> /\ (pc'[t] = "loadOpen" => pc[t] = "loadOpen")
      <4>1. AfterFutex = "loadClosed"
        BY <1>1 DEF AfterFutex
      <4> QED BY <1>4, <4>1, DaemonThreads
    <3>2. EvalRearm => dpc = "rearm"
      BY DEF EvalRearm
    <3>3. CASE open' = open /\ (Rearming => Rearming' /\ closed' = closed)
      BY <1>2, <3>1, <3>3 DEF CronWait
    <3>4. CASE EvalRearm /\ open' \in Nat /\ closed < open'
      <4>1. open <= closed
        BY <1>2, <3>2, <3>4 DEF CronLines, Rearming
      <4>2. initial[t] < open \/ initial[t] = closed \/ initial[t] = SENTINEL
        BY <1>2 DEF CronWait
      <4>3. initial[t] = SENTINEL \/ initial[t] < open'
        BY <1>0, <3>4, <4>1, <4>2
      <4> QED BY <1>0, <1>2, <3>1, <3>4, <4>1, <4>3 DEF CronWait
    <3>5. CASE dpc = "reapOpen" /\ open' = SENTINEL
      <4>1. initial[t] = SENTINEL \/ initial[t] < SENTINEL
        BY <1>0
      <4> QED BY <1>0, <1>2, <3>1, <3>5, <4>1 DEF CronWait
    <3> QED BY <1>1, <1>2, <1>4, <3>3, <3>4, <3>5, DaemonCron
  <2> QED BY <2>1, <2>2
<1>5. ASSUME NEW t \in Waiters, WaitStart(t) PROVE CronLines' /\ \A u \in Waiters : CronWait(u)'
  <2>1. /\ UNCHANGED <<open, closed, dpc, dclock, dopen, dvalue, loads>>
        /\ \A u \in Waiters \ {t} : pc'[u] = pc[u] /\ initial'[u] = initial[u]
    BY <1>5, StartFrame
  <2>2. initial'[t] = closed /\ pc'[t] = "loadClosed"
    BY <1>1, <1>5 DEF WaitStart, ClockStart, TimerStart, CounterStart, CronStart, BarrierStart, Begin,
                      TypeOK
  <2>3. closed = SENTINEL \/ closed < open \/ Rearming
    BY <1>0, <1>2 DEF CronLines
  <2>4. CronWait(t)'
    BY <2>1, <2>2, <2>3 DEF CronWait, Rearming
  <2>5. \A u \in Waiters \ {t} : CronWait(u)'
    BY <1>2, <2>1 DEF CronWait, Rearming
  <2>6. CronLines'
    BY <1>2, <2>1 DEF CronLines, Rearming
  <2> QED BY <2>4, <2>5, <2>6
<1>6. ASSUME NEW t \in Waiters, WaitStep(t) PROVE CronLines' /\ \A u \in Waiters : CronWait(u)'
  <2>1. /\ UNCHANGED <<closed, dpc, dclock, dopen, dvalue, initial>>
        /\ \A u \in Waiters \ {t} : pc'[u] = pc[u] /\ loads'[u] = loads[u]
    BY <1>6, StepFrame
  <2>2. open' = open
    BY <1>1, <1>6, StepWords DEF PlaceInv, Fits
  <2>3. \A u \in Waiters \ {t} : CronWait(u)'
    BY <1>2, <2>1, <2>2 DEF CronWait, Rearming
  <2>4. CronLines'
    BY <1>2, <2>1, <2>2 DEF CronLines, Rearming
  <2>5. pc'[t] = "loadOpen" => closed > initial[t] /\ closed # SENTINEL /\ loads'[t].closed = closed
    BY <1>1, <1>6, StepToLoadOpen
  <2>6. CronWait(t)'
    BY <1>0, <1>2, <2>1, <2>2, <2>5 DEF CronWait, Rearming
  <2> QED BY <2>3, <2>4, <2>6
<1> QED BY <1>3, <1>4, <1>5, <1>6, NextSplit

(* How a waiter's step can give its call a result. *)
LEMMA StepResult ==
    ASSUME TypeOK, PlaceInv, NEW t \in Waiters, WaitStep(t)
    PROVE  \/ result'[t] = result[t]
           \/ result'[t].state \notin {"Normal", "Overrun"}
           \/ /\ pc[t] = "loadOpen" \/ (pc[t] = "againOpen" /\ tier = "WaitCounter")
              /\ tier # "Clock"
              /\ result'[t] = [state |-> Delivered(open, loads[t].closed),
                               completed_at |-> loads[t].closed]
              /\ Delivered(open, loads[t].closed) # "none"
           \/ /\ tier = "Clock"
              /\ result'[t].completed_at = IF on[t] = "open" THEN open ELSE closed
              /\ result'[t].completed_at # SENTINEL /\ result'[t].completed_at >= target[t]
<1>0. Fits(pc[t])
  BY DEF PlaceInv
<1>1. ASSUME Reaped(t) PROVE result'[t].state \notin {"Normal", "Overrun"}
  <2>1. result'[t] = [state |-> "InterlockReaped", completed_at |-> 0]
    BY <1>1, ReturnAt DEF Reaped
  <2> QED BY <2>1
<1>2. ASSUME NEW label, NEW l, Goto(t, label, l) PROVE result'[t] = result[t]
  BY <1>2 DEF Goto
<1>3. CASE LoadOpen(t)
  <2>1. pc[t] = "loadOpen" /\ tier # "Clock"
    BY <1>0, <1>3 DEF LoadOpen, At, Fits
  <2>2. CASE Delivered(open, loads[t].closed) # "none"
                /\ Return(t, Delivered(open, loads[t].closed), loads[t].closed)
    BY <2>1, <2>2, ReturnAt
  <2> QED BY <1>2, <1>3, <2>2 DEF LoadOpen
<1>4. CASE AgainOpen(t)
  <2>1. pc[t] = "againOpen" /\ tier = "WaitCounter"
    BY <1>0, <1>4 DEF AgainOpen, At, Fits
  <2>2. CASE Delivered(open, loads[t].closed) # "none"
                /\ Return(t, Delivered(open, loads[t].closed), loads[t].closed)
    BY <2>1, <2>2, ReturnAt
  <2> QED BY <1>2, <1>4, <2>2 DEF AgainOpen
<1>5. CASE ClockLoad(t)
  <2> DEFINE current == IF on[t] = "open" THEN open ELSE closed
  <2>1. tier = "Clock"
    BY <1>0, <1>5 DEF ClockLoad, At, Fits
  <2>2. \/ Reaped(t) \/ \E label, l : Goto(t, label, l)
        \/ current # SENTINEL /\ current >= target[t] /\ Return(t, "Normal", current)
    BY <1>5 DEF ClockLoad
  <2>3. ASSUME current # SENTINEL, current >= target[t], Return(t, "Normal", current)
        PROVE  /\ result'[t].completed_at = current
               /\ current # SENTINEL /\ current >= target[t]
    <3> HIDE DEF current
    <3>1. result'[t] = [state |-> "Normal", completed_at |-> current]
      BY <2>3, ReturnAt
    <3> QED BY <2>3, <3>1
  <2> QED BY <1>1, <1>2, <2>1, <2>2, <2>3
<1>6. CASE AgainExp(t)
  <2>1. ASSUME Return(t, "Timeout", loads[t].closed) PROVE result'[t].state = "Timeout"
    <3>1. result'[t] = [state |-> "Timeout", completed_at |-> loads[t].closed]
      BY <2>1, ReturnAt
    <3> QED BY <3>1
  <2> QED BY <1>1, <1>2, <1>6, <2>1 DEF AgainExp
<1>7. CASE SetDeadline(t)
  BY <1>7 DEF SetDeadline
<1>8. CASE \/ RaiseLoad(t) \/ RaiseCas(t) \/ Arm(t) \/ LoadClosed(t) \/ LoadExp(t) \/ ReadNow(t)
           \/ FutexWait(t) \/ FutexReturn(t) \/ AgainClosed(t) \/ AgainNow(t)
  <2>1. Reaped(t) \/ \E label, l : Goto(t, label, l)
    BY <1>8 DEF RaiseLoad, RaiseCas, Arm, LoadClosed, LoadExp, ReadNow, FutexWait, FutexReturn,
                AgainClosed, AgainNow
  <2> QED BY <1>1, <1>2, <2>1
<1> QED BY <1>3, <1>4, <1>5, <1>6, <1>7, <1>8 DEF WaitStep

(* What a result of the call of t says, apart from the other threads. *)
Real(t) ==
    LET c == result[t].completed_at IN
    Ok(t) => CASE tier = "WaitCron"    -> /\ c \in (initial[t] + 1) .. clock
                                          /\ result[t].state = "Overrun" => \E line \in
                                                (initial[t] + 1) .. (c - 1) : line % interval_ms = 0
               [] tier = "Clock"       -> c \in target[t] .. clock
               [] tier = "WaitTimer"   -> c = SENTINEL \/ c \in target[t] .. clock
               [] tier = "WaitCounter" -> c = SENTINEL \/ c \in target[t] .. highest
               [] OTHER -> c = SENTINEL \/ (c \in 1 .. clock /\ highest >= threshold)

LEMMA RealGrows ==
    ASSUME TypeOK, NEW t \in Waiters, Real(t), UNCHANGED tier,
           result'[t] = result[t], target'[t] = target[t], initial'[t] = initial[t],
           clock' \in Nat, clock' >= clock, highest' \in Nat, highest' >= highest
    PROVE  Real(t)'
<1>1. /\ clock \in Nat /\ highest \in Nat /\ threshold \in Nat
      /\ target[t] \in Nat /\ initial[t] \in Nat
  BY TypeFacts, Constants DEF TypeOK
<1>2. \A a \in Nat : /\ a .. clock \subseteq a .. clock' /\ a .. highest \subseteq a .. highest'
  BY <1>1
<1>3. highest >= threshold => highest' >= threshold
  BY <1>1
<1>4. 1 \in Nat /\ initial[t] + 1 \in Nat
  BY <1>1
<1> QED BY <1>1, <1>2, <1>3, <1>4 DEF Real, Ok

(* The result of a comparison of the counters. *)
LEMMA DeliveredReal ==
    ASSUME TypeOK, LifeInv, StampInv, CronInv, NEW t \in Waiters,
           pc[t] = "loadOpen" \/ (pc[t] = "againOpen" /\ tier = "WaitCounter"),
           tier # "Clock", UNCHANGED <<tier, clock, highest, initial, target>>,
           result'[t] = [state |-> Delivered(open, loads[t].closed),
                         completed_at |-> loads[t].closed],
           Delivered(open, loads[t].closed) # "none"
    PROVE  Real(t)'
<1> DEFINE c == loads[t].closed
<1>0. /\ open \in Nat /\ c \in Nat /\ clock \in Nat /\ highest \in Nat
      /\ target[t] \in Nat /\ initial[t] \in Nat /\ c <= SENTINEL /\ SENTINEL \in Nat
  BY TypeFacts, Constants DEF TypeOK, LoadSet
<1>1. result'[t].completed_at = c /\ result'[t].state = Delivered(open, c)
  OBVIOUS
<1>2. ClosedOk(c)
  BY DEF StampInv, StampOk
<1> HIDE DEF c
<1>3. CASE tier = "WaitCron"
  <2>1. initial[t] < c /\ c # SENTINEL /\ initial[t] < open
    BY <1>3 DEF CronInv, CronWait, c
  <2>2. c <= clock
    BY <1>2, <1>3, <2>1 DEF ClosedOk
  <2>3. c \in (initial[t] + 1) .. clock
    BY <1>0, <2>1, <2>2
  <2>4. Delivered(open, c) = "Overrun" => open < c
    BY <1>0, <1>3 DEF Delivered
  <2>5. open < c => open \in (initial[t] + 1) .. (c - 1) /\ open % interval_ms = 0
    <3>1. open = SENTINEL \/ open % interval_ms = 0
      BY <1>3 DEF CronInv, CronLines
    <3> QED BY <1>0, <2>1, <3>1
  <2>6. Delivered(open, c) = "Overrun"
          => \E line \in (initial[t] + 1) .. (c - 1) : line % interval_ms = 0
    BY <2>4, <2>5
  <2> QED BY <1>1, <1>3, <2>3, <2>6 DEF Real
<1>4. CASE tier \in {"WaitTimer", "WaitCounter"}
  <2>1. target[t] <= open
    BY <1>4 DEF LifeInv, TargetInv, TargetPcs, LoopPcs
  <2>2. c >= open
    BY <1>0, <1>4 DEF Delivered, check_wake_state, c
  <2>3. CASE tier = "WaitTimer"
    <3>1. c = SENTINEL \/ c <= clock
      BY <1>2, <2>3 DEF ClosedOk
    <3>2. c = SENTINEL \/ c \in target[t] .. clock
      BY <1>0, <2>1, <2>2, <3>1
    <3> QED BY <1>1, <2>3, <3>2 DEF Real
  <2>4. CASE tier = "WaitCounter"
    <3>1. c = SENTINEL \/ c <= highest
      BY <1>2, <2>4 DEF ClosedOk
    <3>2. c = SENTINEL \/ c \in target[t] .. highest
      BY <1>0, <2>1, <2>2, <3>1
    <3> QED BY <1>1, <2>4, <3>2 DEF Real
  <2> QED BY <1>4, <2>3, <2>4
<1>5. CASE tier \notin {"WaitCron", "WaitTimer", "WaitCounter", "Clock"}
  <2>1. tier = "WaitBarrier"
    BY <1>5, WaitTierAssumption DEF TypeOK
  <2>2. c > 0
    BY <2>1 DEF Delivered, c
  <2>3. c = SENTINEL \/ (c <= clock /\ highest >= threshold)
    BY <1>0, <1>2, <2>1, <2>2 DEF ClosedOk
  <2>4. c = SENTINEL \/ (c \in 1 .. clock /\ highest >= threshold)
    BY <1>0, <2>2, <2>3
  <2> QED BY <1>1, <2>1, <2>4 DEF Real
<1> QED BY <1>3, <1>4, <1>5

LEMMA RealNext ==
    /\ TypeOK /\ LifeInv /\ EnvInv /\ PlaceInv /\ StampInv /\ CronInv /\ DeliveryIsReal
    /\ [Next]_vars
    => DeliveryIsReal'
<1> SUFFICES ASSUME TypeOK, LifeInv, EnvInv, PlaceInv, StampInv, CronInv, DeliveryIsReal,
                    [Next]_vars, NEW u \in Waiters
             PROVE  Real(u)'
  BY DEF DeliveryIsReal, Real
<1>0. Real(u) /\ clock \in Nat /\ highest \in Nat
  BY TypeFacts DEF DeliveryIsReal, Real
<1>1. CASE Quiet
  <2>1. highest' \in Nat /\ highest' >= highest
    <3>1. CASE WatchedStep
      BY <3>1, WatchedGrows
    <3>2. CASE ~WatchedStep
      BY <1>0, <1>1, <3>2 DEF Quiet, Tick, TouchStep, HandleEnd, HandleJoined, vars, env
    <3> QED BY <3>1, <3>2
  <2>2. UNCHANGED <<tier, clock, result, target, initial>>
    BY <1>1, QuietFrame
  <2> QED BY <1>0, <2>1, <2>2, RealGrows
<1>2. CASE DaemonStep
  <2>1. UNCHANGED <<tier, highest, result, target, initial>> /\ clock' \in Nat /\ clock' >= clock
    BY <1>2, DaemonThreads, ClockGrows
  <2> QED BY <1>0, <2>1, RealGrows
<1>3. ASSUME NEW t \in Waiters, WaitStart(t) PROVE Real(u)'
  <2>1. CASE u # t
    <3>1. /\ UNCHANGED <<tier, clock, highest>> /\ result'[u] = result[u]
          /\ target'[u] = target[u] /\ initial'[u] = initial[u]
      BY <1>3, <2>1, StartFrame
    <3> QED BY <1>0, <3>1, RealGrows
  <2>2. CASE u = t
    <3>1. result'[u] = NoResult
      BY <1>3, <2>2, StartFrame
    <3> QED BY <3>1 DEF Real, Ok, NoResult
  <2> QED BY <2>1, <2>2
<1>4. ASSUME NEW t \in Waiters, WaitStep(t) PROVE Real(u)'
  <2>1. /\ UNCHANGED <<tier, clock, highest, target, initial, closed>>
        /\ u # t => result'[u] = result[u]
    BY <1>4, StepFrame
  <2>2. CASE result'[u] = result[u]
    BY <1>0, <2>1, <2>2, RealGrows
  <2>3. CASE u = t /\ result'[u].state \notin {"Normal", "Overrun"}
    BY <2>3 DEF Real, Ok
  <2>4. CASE /\ u = t /\ tier = "Clock"
             /\ result'[u].completed_at = IF on[u] = "open" THEN open ELSE closed
             /\ result'[u].completed_at # SENTINEL /\ result'[u].completed_at >= target[u]
    <3> DEFINE c == result'[u].completed_at
    <3>1. c = open \/ c = closed
      BY <2>4
    <3>2. open = clock /\ (closed = SENTINEL \/ closed <= clock)
      BY <2>4 DEF StampInv, StampOk, ClosedOk
    <3>3. /\ open \in Nat /\ closed \in Nat /\ target[u] \in Nat
      BY TypeFacts, Constants DEF TypeOK
    <3>4. c # SENTINEL /\ c >= target[u]
      BY <2>4
    <3>5. c \in target[u] .. clock
      BY <1>0, <3>1, <3>2, <3>3, <3>4
    <3> QED BY <2>1, <2>4, <3>5 DEF Real
  <2>5. CASE /\ u = t
             /\ pc[u] = "loadOpen" \/ (pc[u] = "againOpen" /\ tier = "WaitCounter")
             /\ tier # "Clock"
             /\ result'[u] = [state |-> Delivered(open, loads[u].closed),
                              completed_at |-> loads[u].closed]
             /\ Delivered(open, loads[u].closed) # "none"
    BY <2>1, <2>5, DeliveredReal
  <2> QED BY <1>4, <2>1, <2>2, <2>3, <2>4, <2>5, StepResult
<1> QED BY <1>1, <1>2, <1>3, <1>4, NextSplit

TruthInv == EnvInv /\ PlaceInv /\ StampInv /\ CronInv

LEMMA TruthAlways == Spec => []TruthInv
<1>1. Init => TruthInv
  BY StampInit, CronInit DEF TruthInv
<1>2. TypeOK /\ LifeInv /\ TruthInv /\ [Next]_vars => TruthInv'
  BY EnvNext, PlaceNext, StampNext, CronNext DEF TruthInv
<1> QED BY <1>1, <1>2, TypeBudgetAlways, LifeAlways, PTL DEF Spec

(* A wait of any of the five tiers that reports a delivery reports one     *)
(* that happened, at or after what the call asked for, for any number of   *)
(* threads that raise, wait and return at the same time and whatever the   *)
(* daemon stamps, re-arms or reaps between their loads.                    *)
THEOREM DeliveryIsRealAlways == Spec => []DeliveryIsReal
<1>1. Init => DeliveryIsReal
  BY DEF Init, DeliveryIsReal, Ok, NoResult
<1>2. TypeOK /\ LifeInv /\ TruthInv /\ DeliveryIsReal /\ [Next]_vars => DeliveryIsReal'
  BY RealNext DEF TruthInv
<1> QED BY <1>1, <1>2, TypeBudgetAlways, LifeAlways, TruthAlways, PTL DEF Spec

(***************************************************************************)
(* No lost wakeup.  A futex compares FUTEX_MOD values only.  Whatever the  *)
(* words are, a thread asleep on a word that the futex can tell from the   *)
(* one it loaded has a wake on its way; and while the times and counts of  *)
(* a run tell apart there -- for 2^32 milliseconds after the boot, or 2^32 *)
(* counts -- that is every change of the word.                             *)
(***************************************************************************)

(* The word that the thread's futex calls are on. *)
Current(t) == IF on[t] = "open" THEN open ELSE closed

Lost(t) == pc[t] = "asleep" /\ futex_word(Current(t)) # futex_word(loads[t][on[t]])

(* A wake of that word is on its way.  A change of the clock's open_count  *)
(* is followed by a wake of open_count, and its closed_count never changes.*)
Coming(t) == \/ dpc \in {"wake", "reapExp", "reapWake"}
             \/ tier = "Clock" /\ dpc = "evaluate" /\ on[t] = "open"

WakeInv == \A t \in Waiters : Lost(t) => Coming(t)

(* A thread goes to sleep only on the value it has loaded. *)
LEMMA StepToAsleep ==
    ASSUME TypeOK, NEW t \in Waiters, WaitStep(t), pc'[t] = "asleep"
    PROVE  open' = open /\ futex_word(loads'[t][on[t]]) = futex_word(Current(t))
<1>0. loads[t] \in LoadSet /\ on[t] \in {"open", "closed"}
  BY TypeFacts DEF TypeOK
<1>1. \A label, l : Goto(t, label, l) => label = "asleep" /\ loads'[t] = l
  BY GotoAt
<1>2. ~ \E state, c : Return(t, state, c)
  BY ReturnAt
<1>3. FutexWait(t)
  <2>1. ~SetDeadline(t)
    BY DEF SetDeadline, TypeOK
  <2>2. ~RaiseLoad(t) /\ ~RaiseCas(t) /\ ~Arm(t) /\ ~LoadClosed(t) /\ ~LoadOpen(t)
    BY <1>1, <1>2 DEF RaiseLoad, RaiseCas, Arm, LoadClosed, LoadOpen, Reaped
  <2>3. ~LoadExp(t)
    <3>1. LoadExp(t) => \/ Reaped(t)
                        \/ \E l : Goto(t, IF tier = "WaitBarrier" THEN "futex" ELSE "readNow", l)
      BY DEF LoadExp
    <3> QED BY <1>1, <1>2, <3>1 DEF Reaped
  <2>4. ~ReadNow(t) /\ ~ClockLoad(t)
    BY <1>1, <1>2 DEF ReadNow, ClockLoad, Reaped
  <2>5. ~FutexReturn(t)
    <3>1. AfterFutex # "asleep" /\ (FutexReturn(t) => \E l : Goto(t, AfterFutex, l))
      BY DEF FutexReturn, AfterFutex
    <3> QED BY <1>1, <3>1
  <2>6. ~AgainClosed(t) /\ ~AgainOpen(t) /\ ~AgainExp(t) /\ ~AgainNow(t)
    BY <1>1, <1>2 DEF AgainClosed, AgainOpen, AgainExp, AgainNow, Reaped
  <2> QED BY <2>1, <2>2, <2>3, <2>4, <2>5, <2>6 DEF WaitStep
<1> DEFINE expected == loads[t][on[t]]
<1>4. /\ futex_word(Current(t)) = futex_word(expected) /\ open' = open
      /\ Goto(t, "asleep", [NoLoads EXCEPT ![on[t]] = expected])
  <2>1. AfterFutex # "asleep"
    BY DEF AfterFutex
  <2> QED BY <1>1, <1>3, <2>1 DEF FutexWait, Current, words
<1>5. loads'[t] = [NoLoads EXCEPT ![on[t]] = expected]
  BY <1>1, <1>4
<1>6. loads'[t][on[t]] = expected
  BY <1>0, <1>5 DEF NoLoads
<1> QED BY <1>4, <1>6

(* The daemon's wake reaches everybody who sleeps on the word. *)
LEMMA DaemonWakes ==
    ASSUME TypeOK, LifeInv, PlaceInv, DaemonStep, NEW t \in Waiters, pc'[t] = "asleep"
    PROVE  /\ pc[t] = "asleep" /\ dpc \notin {"wake", "reapWake"}
           /\ tier = "Clock" /\ dpc = "evaluate" => on[t] = "closed"
<1>0. AfterFutex # "asleep" /\ on[t] \in {"open", "closed"}
  BY DEF AfterFutex, TypeOK
<1>1. pc[t] = "asleep"
  BY <1>0, DaemonThreads
<1>2. \A w : AfterWake(w)[t] = IF pc[t] = "asleep" /\ on[t] = w THEN AfterFutex ELSE pc[t]
  BY DEF AfterWake
<1>3. dpc \in {"wake", "reapWake"} => pc' = AfterWake("closed")
  BY DEF DaemonStep, AdvanceClock, EvalStart, EvalNothing, EvalLoadOpen, EvalLoadClosed, EvalLoadExp,
         EvalWatch, EvalStamp, EvalWake, EvalRearm, Claim, ReapStore, ReapWake, ClockWake, ClockArm
<1>4. tier = "Clock" /\ dpc = "evaluate" => pc' = AfterWake("open")
  BY DEF DaemonStep, AdvanceClock, EvalStart, EvalNothing, EvalLoadOpen, EvalLoadClosed, EvalLoadExp,
         EvalWatch, EvalStamp, EvalWake, EvalRearm, Claim, ReapStore, ReapWake, ClockWake, ClockArm
<1>5. on[t] = "open" => tier = "Clock"
  BY DEF PlaceInv
<1>6. tier = "Clock" => dpc \notin {"wake", "reapWake"}
  BY DEF LifeInv, DaemonInv
<1> QED BY <1>0, <1>1, <1>2, <1>3, <1>4, <1>5, <1>6

LEMMA WakeNext ==
    TypeOK /\ LifeInv /\ PlaceInv /\ WakeInv /\ [Next]_vars => WakeInv'
<1> SUFFICES ASSUME TypeOK, LifeInv, PlaceInv, WakeInv, [Next]_vars,
                    NEW u \in Waiters, Lost(u)'
             PROVE  Coming(u)'
  BY DEF WakeInv
<1>0. pc'[u] = "asleep"
  BY DEF Lost
<1>1. CASE Quiet
  BY <1>1, QuietFrame DEF WakeInv, Lost, Coming, Current
<1>2. CASE DaemonStep
  <2>1. /\ UNCHANGED <<tier, on, loads>> /\ pc[u] = "asleep" /\ dpc \notin {"wake", "reapWake"}
        /\ tier = "Clock" /\ dpc = "evaluate" => on[u] = "closed"
    BY <1>0, <1>2, DaemonThreads, DaemonWakes
  <2>2. CASE Lost(u)
    <3>1. dpc = "reapExp"
      BY <2>1, <2>2 DEF WakeInv, Coming
    <3>2. dpc' = "reapWake"
      BY <1>2, <3>1
         DEF DaemonStep, AdvanceClock, EvalStart, EvalNothing, EvalLoadOpen, EvalLoadClosed,
             EvalLoadExp, EvalWatch, EvalStamp, EvalWake, EvalRearm, Claim, ReapStore, ReapWake,
             ClockWake, ClockArm, DaemonGoto
    <3> QED BY <3>2 DEF Coming
  <2>3. CASE ~Lost(u)
    <3>1. Current(u)' # Current(u)
      BY <2>1, <2>3 DEF Lost, Current
    <3>2. CASE on[u] = "closed"
      <4>1. closed' # closed
        BY <2>1, <3>1, <3>2 DEF Current
      <4>2. EvalStamp => dpc' = "wake"
        BY DEF EvalStamp, DaemonGoto
      <4> QED BY <1>2, <4>1, <4>2, DaemonCounters DEF Coming
    <3>3. CASE on[u] = "open"
      <4>1. open' # open /\ tier = "Clock"
        BY <2>1, <3>1, <3>3 DEF Current, PlaceInv
      <4>2. dpc \in {"poll", "evaluate", "clockArm"}
        BY <4>1 DEF LifeInv, DaemonInv
      <4>3. AdvanceClock
        BY <1>2, <4>1, <4>2, DaemonCounters DEF EvalRearm
      <4>4. dpc' = "evaluate"
        BY <4>3 DEF AdvanceClock, DaemonGoto
      <4> QED BY <2>1, <3>3, <4>1, <4>4 DEF Coming
    <3>4. on[u] \in {"open", "closed"}
      BY DEF TypeOK
    <3> QED BY <3>2, <3>3, <3>4
  <2> QED BY <2>2, <2>3
<1>3. ASSUME NEW t \in Waiters, WaitStart(t) PROVE Coming(u)'
  <2>1. pc'[t] # "asleep"
    BY <1>3 DEF WaitStart, ClockStart, TimerStart, CounterStart, CronStart, BarrierStart, Begin, TypeOK
  <2>2. /\ UNCHANGED <<open, closed, tier, dpc, loads>> /\ pc'[u] = pc[u] /\ on'[u] = on[u]
    BY <1>0, <1>3, <2>1, StartFrame
  <2> QED BY <2>2 DEF WakeInv, Lost, Coming, Current
<1>4. ASSUME NEW t \in Waiters, WaitStep(t) PROVE Coming(u)'
  <2>1. UNCHANGED <<closed, tier, dpc, on>>
    BY <1>4, StepFrame
  <2>2. CASE u = t
    <3>1. open' = open /\ futex_word(loads'[u][on[u]]) = futex_word(Current(u))
      BY <1>0, <1>4, <2>2, StepToAsleep
    <3> QED BY <2>1, <3>1 DEF Lost, Current
  <2>3. CASE u # t
    <3>1. pc'[u] = pc[u] /\ loads'[u] = loads[u]
      BY <1>4, <2>3, StepFrame
    <3>2. on[u] = "open" => open' = open
      <4>1. on[u] = "open" => tier = "Clock"
        BY DEF PlaceInv
      <4>2. tier = "Clock" => pc[t] # "raiseCas"
        BY DEF PlaceInv, Fits
      <4> QED BY <1>4, <4>1, <4>2, StepWords
    <3> QED BY <2>1, <3>1, <3>2 DEF WakeInv, Lost, Coming, Current
  <2> QED BY <2>2, <2>3
<1> QED BY <1>1, <1>2, <1>3, <1>4, NextSplit

(* Nobody sleeps through a change of the word it waits on that the futex   *)
(* can see, for every width of the words: whenever the word differs, in    *)
(* the part the system call compares, from what the thread loaded before   *)
(* it slept, the daemon has a futex_wake of that word still to do.         *)
THEOREM SleepersAreWoken == Spec => []WakeInv
<1>1. Init => WakeInv
  BY DEF Init, WakeInv, Lost
<1>2. TypeOK /\ LifeInv /\ TruthInv /\ WakeInv /\ [Next]_vars => WakeInv'
  BY WakeNext DEF TruthInv
<1> QED BY <1>1, <1>2, TypeBudgetAlways, LifeAlways, TruthAlways, PTL DEF Spec

(* The values of the run are fewer than the futex tells apart. *)
FutexTells ==
    /\ MaxCount < FUTEX_MOD - 1
    /\ \A x \in Tiers : MaxTime[x] \div NANOS_PER_MS < FUTEX_MOD - 1

LEMMA FutexInjective ==
    ASSUME TypeOK, FutexTells, NEW a \in Nat, NEW b \in Nat, InBounds(a), InBounds(b),
           futex_word(a) = futex_word(b)
    PROVE  a = b
<1>1. FUTEX_MOD \in Nat /\ FUTEX_MOD >= 2 /\ SENTINEL % FUTEX_MOD = FUTEX_MOD - 1
  BY WordAssumption
<1>2. /\ MaxClock \in Nat /\ MaxClock < FUTEX_MOD - 1
      /\ MaxCount \in Nat /\ MaxCount < FUTEX_MOD - 1
  BY TypeFacts, Constants DEF FutexTells, MaxClock
<1>3. \A c \in Nat : c < FUTEX_MOD - 1 => c % FUTEX_MOD = c
  BY <1>1
<1>4. \A c \in Nat : InBounds(c) => c = SENTINEL \/ c < FUTEX_MOD - 1
  BY <1>1, <1>2 DEF InBounds
<1>5. (a = SENTINEL \/ a < FUTEX_MOD - 1) /\ (b = SENTINEL \/ b < FUTEX_MOD - 1)
  BY <1>4
<1>6. a % FUTEX_MOD = b % FUTEX_MOD
  BY DEF futex_word
<1> QED BY <1>1, <1>3, <1>5, <1>6

LEMMA SleepBounds ==
    ASSUME TypeOK, PlaceInv, StampInv, NEW t \in Waiters
    PROVE  /\ loads[t][on[t]] \in Nat /\ InBounds(loads[t][on[t]])
           /\ Current(t) \in Nat /\ InBounds(Current(t))
<1> DEFINE expected == loads[t][on[t]]
<1>0. loads[t] \in LoadSet /\ on[t] \in {"open", "closed"}
  BY TypeFacts DEF TypeOK
<1>1. CASE on[t] = "closed"
  <2>1. expected = loads[t].closed /\ Current(t) = closed
    BY <1>1 DEF Current
  <2>2. loads[t].closed \in Nat /\ closed \in Nat
    BY <1>0, TypeFacts, Constants DEF LoadSet
  <2> QED BY <2>1, <2>2 DEF StampInv, StampOk
<1>2. CASE on[t] = "open"
  <2>1. expected = loads[t].open /\ Current(t) = open /\ tier = "Clock"
    BY <1>2 DEF Current, PlaceInv
  <2>2. loads[t].open \in Nat /\ open \in Nat /\ clock <= MaxClock
    BY <1>0, TypeFacts, Constants DEF LoadSet
  <2>3. open = clock /\ InBounds(loads[t].open)
    BY <2>1 DEF StampInv
  <2> QED BY <2>1, <2>2, <2>3 DEF InBounds
<1> QED BY <1>0, <1>1, <1>2

(* While the futex tells the values of the run apart, a thread asleep on   *)
(* a word that has changed at all since it was loaded has a futex_wake of  *)
(* the daemon on its way.                                                  *)
THEOREM NoLostWakeupAlways == ASSUME FutexTells PROVE Spec => []NoLostWakeup
<1>1. TypeOK /\ TruthInv /\ WakeInv => NoLostWakeup
  <2> SUFFICES ASSUME TypeOK, TruthInv, WakeInv, NEW t \in Waiters,
                      pc[t] = "asleep", Current(t) # loads[t][on[t]]
               PROVE  Coming(t)
    BY DEF NoLostWakeup, Current, Coming
  <2>1. Lost(t)
    BY SleepBounds, FutexInjective DEF Lost, TruthInv
  <2> QED BY <2>1 DEF WakeInv
<1> QED BY <1>1, TypeBudgetAlways, TruthAlways, SleepersAreWoken, PTL
=============================================================================

------------------------------ MODULE WaitTier ------------------------------
(***************************************************************************)
(* One interlock of a wait tier, access by access: threads of its owner    *)
(* inside WaitTimer::wait_ms / wait_until, WaitCounter::wait_until,        *)
(* WaitCron::wait or WaitBarrier::wait, the touch thread of the handle,    *)
(* free and drop of the handle, and the daemon's cycle.  tier says which   *)
(* of the four it is.  What the entry watches is one word: the clock's     *)
(* open_count for a timer and a cron, `watched' for a counter and for the  *)
(* single condition of a barrier.                                          *)
(*                                                                         *)
(* The fifth, "Clock", is the clock itself: the daemon stores, wakes and   *)
(* leases it in every cycle, clients wait on it through a ClockHandle, and *)
(* nobody touches, frees, claims or sweeps it.                             *)
(*                                                                         *)
(* interlock_arm is one step here; Interlock has its loop.                 *)
(***************************************************************************)
EXTENDS Words, FiniteSets

CONSTANTS Tiers,          \* tiers under study
          Waiters,        \* threads of the owner
          NANOS_PER_MS,
          Durations,      \* arguments of wait_ms
          Targets,        \* arguments of WaitCounter::wait_until ...
          WAIT_TTL,       \* ... and twice its timeout, in nanoseconds
          interval_ms,    \* of a WaitCron
          threshold,      \* of a WaitBarrier's condition
          CREATION_TTL_NANOS,
          CLOCK_TTL_NANOS, \* lease the daemon gives the clock
          TOUCH_TTL,      \* lease the touch thread asks for
          StartTime,      \* CLOCK_MONOTONIC when the entry is created
          MaxTime,        \* bound, per tier: CLOCK_MONOTONIC stops here
          MaxWaiters,     \* bound, per tier: threads inside a wait at a time
          MaxCount,       \* bound: the watched count stops here
          Punctual        \* the daemon completes a cycle at every instant

ASSUME WaitTierAssumption ==
    /\ Tiers \subseteq {"WaitCounter", "WaitTimer", "WaitCron", "WaitBarrier", "Clock"}
    /\ NANOS_PER_MS \in Nat \ {0} /\ interval_ms \in Nat \ {0}
    /\ Durations \subseteq Nat /\ Targets \subseteq 0 .. MaxCount
    /\ MaxTime \in [Tiers -> Nat] /\ MaxWaiters \in [Tiers -> Nat]
    /\ StartTime \in Nat /\ MaxCount \in Nat /\ 2 * MaxCount < SENTINEL
    /\ threshold \in 0 .. MaxCount
    /\ WAIT_TTL \in Nat /\ CREATION_TTL_NANOS \in Nat /\ TOUCH_TTL \in Nat
    /\ CLOCK_TTL_NANOS \in Nat
    /\ \A x \in Tiers :
          /\ StartTime <= MaxTime[x]
          /\ \A ms \in Durations : 2 * (MaxTime[x] + 2 * ms * NANOS_PER_MS) < SENTINEL
          /\ MaxTime[x] + WAIT_TTL < SENTINEL /\ MaxTime[x] + TOUCH_TTL < SENTINEL
          /\ MaxTime[x] + CREATION_TTL_NANOS < SENTINEL /\ MaxTime[x] + CLOCK_TTL_NANOS < SENTINEL
          /\ 2 * (MaxTime[x] + interval_ms) < SENTINEL
    /\ Punctual \in BOOLEAN

Gone == -1   \* no entry has the watched name

VARIABLES
    tier,                \* which tier the entry is of
    open, closed, exp,   \* the words of the entry
    now,                 \* CLOCK_MONOTONIC
    clock,               \* open_count of the clock
    watched,             \* the word the conditions of the entry name
    highest,             \* history: the largest value it had
    registered,          \* the registry's map has the entry
    dpc, dclock, dnow, dopen, dclosed, dvalue,   \* the daemon and its locals
    cycle,               \* history: how far the cycle begun at this instant is
    pc,                  \* position of each waiter inside its call
    target, initial,     \* what it waits for
    on,                  \* the word its futex calls are on
    ttl, deadline,       \* how long
    loads,               \* the words it has loaded and how its futex call ended
    result,              \* what its last call returned
    handle,              \* the owner's handle: in use, being freed, dropped
    tpc, stop            \* the touch thread and its stop flag

words  == <<open, closed, exp>>
env    == <<tier, watched, highest>>
dlocal == <<dclock, dnow, dopen, dclosed, dvalue>>
daemon == <<clock, registered, dpc, dlocal, cycle>>
thread == <<pc, target, initial, on, ttl, deadline, loads, result>>
touch  == <<handle, tpc, stop>>
MaxClock == MaxTime[tier] \div NANOS_PER_MS
vars   == <<words, now, env, daemon, thread, touch>>

LoopPcs  == {"loadClosed", "loadOpen", "loadExp", "readNow", "futex", "asleep",
             "againClosed", "againOpen", "againExp", "againNow", "clockLoad"}
CallPcs  == {"raise", "raiseCas", "arm", "setDeadline"} \cup LoopPcs
Outcomes == {"none", "Normal", "Overrun", "Timeout", "InterlockReaped"}
NoResult == [state |-> "none", completed_at |-> 0]
NoLoads  == [open |-> 0, closed |-> 0, exp |-> 0, timed_out |-> FALSE]

TypeOK ==
    /\ tier \in Tiers
    /\ open \in Word /\ closed \in Word /\ exp \in Word
    /\ now \in 0 .. MaxTime[tier] /\ clock \in 0 .. MaxClock
    /\ watched \in Word \cup {Gone} /\ highest \in Word
    /\ registered \in BOOLEAN /\ cycle \in {"no", "begun", "done"}
    /\ dpc \in {"poll", "evaluate", "loadOpen", "loadClosed", "loadExp", "watch",
                "stamp", "wake", "rearm", "reapOpen", "reapClosed", "reapExp", "reapWake",
                "clockArm"}
    /\ dclock \in 0 .. MaxClock /\ dnow \in 0 .. MaxTime[tier]
    /\ dopen \in Word /\ dclosed \in Word /\ dvalue \in Word
    /\ pc \in [Waiters -> {"idle", "aborted"} \cup CallPcs]
    /\ target \in [Waiters -> Word] /\ ttl \in [Waiters -> Word]
    /\ deadline \in [Waiters -> Word] /\ initial \in [Waiters -> Word]
    /\ on \in [Waiters -> {"open", "closed"}]
    /\ loads \in [Waiters -> [open : Word, closed : Word, exp : Word, timed_out : BOOLEAN]]
    /\ result \in [Waiters -> [state : Outcomes, completed_at : Word]]
    /\ handle \in {"held", "freeing", "dropping", "gone"}
    /\ tpc \in {"check", "arm", "exited"} /\ stop \in BOOLEAN

(* Registry::create of the tier, and new of the handle; Registry::new for  *)
(* the clock.                                                              *)
Init ==
    LET ms == StartTime \div NANOS_PER_MS
        zero == [t \in Waiters |-> 0]
    IN  /\ tier \in Tiers
        /\ open = CASE tier \in {"WaitTimer", "Clock"} -> ms
                    [] tier = "WaitCron"    -> next_line(ms, interval_ms)
                    [] tier = "WaitBarrier" -> 1
                    [] OTHER                -> 0
        /\ closed = IF tier \in {"WaitTimer", "WaitCron", "Clock"} THEN ms ELSE 0
        /\ exp = StartTime + IF tier = "Clock" THEN CLOCK_TTL_NANOS ELSE CREATION_TTL_NANOS
        /\ now = StartTime /\ clock = ms
        /\ watched = 0 /\ highest = 0
        /\ registered = TRUE /\ dpc = "poll" /\ cycle = "no"
        /\ dclock = 0 /\ dnow = 0 /\ dopen = 0 /\ dclosed = 0 /\ dvalue = 0
        /\ pc = [t \in Waiters |-> "idle"]
        /\ on = [t \in Waiters |-> "closed"]
        /\ target = zero /\ ttl = zero /\ deadline = zero /\ initial = zero
        /\ loads = [t \in Waiters |-> NoLoads]
        /\ result = [t \in Waiters |-> NoResult]
        /\ handle = "held" /\ stop = FALSE
        /\ tpc = IF tier = "Clock" THEN "exited" ELSE "check"

Tick ==
    /\ now < MaxTime[tier]
    /\ Punctual => cycle = "done"
    /\ now' = now + 1
    /\ cycle' = "no"
    /\ UNCHANGED <<words, env, clock, registered, dpc, dlocal, thread, touch>>

(* The owner of the watched interlock: it counts, terminates it (SENTINEL),*)
(* the sweep then removes the entry, and the name may be created again.    *)
WatchedStep ==
    /\ tier \in {"WaitCounter", "WaitBarrier"}
    /\ watched' \in CASE watched = Gone     -> {0}
                      [] watched = SENTINEL -> {Gone}
                      [] OTHER              -> {SENTINEL} \cup ({watched + 1} \cap 0 .. MaxCount)
    /\ watched' = Gone => dpc = "poll"
    /\ highest' = LargerOf(highest, watched')
    /\ UNCHANGED <<tier, words, now, daemon, thread, touch>>

(***************************************************************************)
(* The waiters.                                                            *)
(***************************************************************************)

(* abort() takes every thread of the process with it. *)
Running == \A t \in Waiters : pc[t] # "aborted"

At(t, label) == Running /\ pc[t] = label

(* The next position of the thread, and the loads it still needs. *)
Goto(t, label, l) ==
    /\ pc' = [pc EXCEPT ![t] = label]
    /\ loads' = [loads EXCEPT ![t] = l]
    /\ UNCHANGED <<ttl, deadline, result>>

Return(t, state, completed_at) ==
    /\ pc' = [pc EXCEPT ![t] = "idle"]
    /\ result' = [result EXCEPT ![t] = [state |-> state, completed_at |-> completed_at]]
    /\ loads' = [loads EXCEPT ![t] = NoLoads]
    /\ ttl' = [ttl EXCEPT ![t] = 0]
    /\ deadline' = [deadline EXCEPT ![t] = 0]

Reaped(t) == Return(t, "InterlockReaped", 0)

Keep == UNCHANGED <<now, env, daemon, target, initial, on, touch>>

(* The call, its arguments and what it reads first. *)
Begin(t, label, x, d, c, w) ==
    /\ At(t, "idle") /\ handle = "held"
    /\ Cardinality({u \in Waiters : pc[u] # "idle"}) < MaxWaiters[tier]
    /\ pc' = [pc EXCEPT ![t] = label]
    /\ target' = [target EXCEPT ![t] = x]
    /\ ttl' = [ttl EXCEPT ![t] = d]
    /\ initial' = [initial EXCEPT ![t] = c]
    /\ on' = [on EXCEPT ![t] = w]
    /\ result' = [result EXCEPT ![t] = NoResult]
    /\ UNCHANGED <<words, now, env, daemon, deadline, loads, touch>>

(* wait_until(timestamp) of a timer is wait_ms of what is left of it, 0    *)
(* when the timestamp is past.                                             *)
TimerStart(t) ==
    /\ tier = "WaitTimer"
    /\ \E ms \in Durations : Begin(t, "raise", clock + ms, 2 * ms * NANOS_PER_MS, 0, "closed")

CounterStart(t) ==
    /\ tier = "WaitCounter"
    /\ \E x \in Targets : Begin(t, "raise", x, WAIT_TTL, 0, "closed")

CronStart(t) == tier = "WaitCron" /\ Begin(t, "loadClosed", 0, 0, closed, "closed")

BarrierStart(t) == tier = "WaitBarrier" /\ Begin(t, "loadClosed", 0, 0, 0, "closed")

(* wait_open and wait_close of a ClockHandle. *)
ClockStart(t) ==
    /\ tier = "Clock"
    /\ \E x \in Targets, w \in {"open", "closed"} : Begin(t, "clockLoad", x, 0, 0, w)

WaitStart(t) == ClockStart(t) \/ TimerStart(t) \/ CounterStart(t) \/ CronStart(t) \/ BarrierStart(t)

(* Mutant: the target is stored without comparing. *)
RaiseCas_BlindStore(t) ==
    /\ At(t, "raiseCas")
    /\ open' = target[t] /\ Goto(t, "arm", NoLoads)
    /\ UNCHANGED <<closed, exp>> /\ Keep

(* CAS-max of open_count. *)
RaiseLoad(t) ==
    /\ At(t, "raise")
    /\ \/ target[t] <= open /\ Goto(t, "arm", NoLoads)
       \/ target[t] > open /\ Goto(t, "raiseCas", [NoLoads EXCEPT !.open = open])
    /\ UNCHANGED words /\ Keep

RaiseCas(t) ==
    /\ At(t, "raiseCas")
    /\ \/ open = loads[t].open /\ open' = target[t] /\ Goto(t, "arm", NoLoads)
       \/ UNCHANGED open /\ Goto(t, "raise", NoLoads)
    /\ UNCHANGED <<closed, exp>> /\ Keep

Arm(t) ==
    /\ At(t, "arm")
    /\ \/ exp = SENTINEL /\ Reaped(t) /\ UNCHANGED exp
       \/ /\ exp # SENTINEL
          /\ exp' = LargerOf(exp, now + ttl[t])
          /\ Goto(t, IF tier = "WaitTimer" THEN "setDeadline" ELSE "loadClosed", NoLoads)
    /\ UNCHANGED <<open, closed>> /\ Keep

SetDeadline(t) ==
    /\ At(t, "setDeadline")
    /\ deadline' = [deadline EXCEPT ![t] = now + ttl[t]]
    /\ ttl' = [ttl EXCEPT ![t] = 0]
    /\ pc' = [pc EXCEPT ![t] = "loadClosed"]
    /\ UNCHANGED <<words, result, loads>> /\ Keep

(* Mutant: the snapshot itself is taken for a new stamp. *)
LoadClosed_NotPast(t) ==
    LET l == [NoLoads EXCEPT !.closed = closed] IN
    /\ At(t, "loadClosed")
    /\ \/ closed = SENTINEL /\ Reaped(t)
       \/ closed # SENTINEL /\ Goto(t, IF closed >= initial[t] THEN "loadOpen" ELSE "loadExp", l)
    /\ UNCHANGED words /\ Keep

LoadClosed(t) ==
    LET l == [NoLoads EXCEPT !.closed = closed] IN
    /\ At(t, "loadClosed")
    /\ \/ tier # "WaitCron" /\ Goto(t, "loadOpen", l)
       \/ tier = "WaitCron" /\ closed = SENTINEL /\ Reaped(t)
       \/ /\ tier = "WaitCron" /\ closed # SENTINEL
          /\ Goto(t, IF closed > initial[t] THEN "loadOpen" ELSE "loadExp", l)
    /\ UNCHANGED words /\ Keep

(* Mutant: a barrier's wait ignores a stamp that equals open_count. *)
Delivered_Strict(o, c) == IF Value(o, c) < 0 /\ c > 0 THEN "Overrun" ELSE "none"

(* What the two counters say together: the state of the result, or none. *)
Delivered(o, c) ==
    CASE tier = "WaitCron"    -> IF c > o THEN "Overrun" ELSE "Normal"
      [] tier = "WaitBarrier" -> IF Value(o, c) <= 0 /\ c > 0
                                   THEN IF c = o THEN "Normal" ELSE "Overrun"
                                   ELSE "none"
      [] OTHER                -> IF check_wake_state(o, c) = "Timeout"
                                   THEN "none" ELSE check_wake_state(o, c)

LoadOpen(t) ==
    LET state == Delivered(open, loads[t].closed) IN
    /\ At(t, "loadOpen")
    /\ \/ state # "none" /\ Return(t, state, loads[t].closed)
       \/ /\ state = "none"
          /\ Goto(t, IF tier = "WaitCounter" THEN "futex" ELSE "loadExp",
                      [loads[t] EXCEPT !.open = open])
    /\ UNCHANGED words /\ Keep

LoadExp(t) ==
    LET dead == CASE tier = "WaitTimer"   -> exp = SENTINEL
                  [] tier = "WaitBarrier" -> Terminated(loads[t].open, loads[t].closed, exp)
                  [] OTHER                -> FALSE
    IN  /\ At(t, "loadExp")
        /\ \/ dead /\ Reaped(t)
           \/ /\ ~dead
              /\ Goto(t, IF tier = "WaitBarrier" THEN "futex" ELSE "readNow",
                          [loads[t] EXCEPT !.exp = exp])
        /\ UNCHANGED words /\ Keep

Lapsed(t) == loads[t].exp = SENTINEL \/ loads[t].exp < now

(* Mutant: the budget of the timer is not looked at. *)
ReadNow_NoDeadline(t) ==
    /\ At(t, "readNow")
    /\ Goto(t, "futex", loads[t])
    /\ UNCHANGED words /\ Keep

(* A timer out of budget and still leased is RTSTimeout: abort(). *)
ReadNow(t) ==
    LET late == now >= deadline[t] IN
    /\ At(t, "readNow")
    /\ \/ tier = "WaitTimer" /\ late /\ Lapsed(t) /\ Reaped(t)
       \/ tier = "WaitTimer" /\ late /\ ~Lapsed(t) /\ Goto(t, "aborted", NoLoads)
       \/ tier = "WaitTimer" /\ ~late /\ Goto(t, "futex", loads[t])
       \/ tier = "WaitCron" /\ Lapsed(t) /\ Reaped(t)
       \/ tier = "WaitCron" /\ ~Lapsed(t) /\ Goto(t, "futex", loads[t])
    /\ UNCHANGED words /\ Keep

(* Head of a ClockHandle's loop. *)
ClockLoad(t) ==
    LET current == IF on[t] = "open" THEN open ELSE closed IN
    /\ At(t, "clockLoad")
    /\ IF current = SENTINEL THEN Reaped(t)
       ELSE IF current >= target[t] THEN Return(t, "Normal", current)
       ELSE Goto(t, "futex", [NoLoads EXCEPT ![on[t]] = current])
    /\ UNCHANGED words /\ Keep

AfterFutex == CASE tier = "WaitCounter"             -> "againClosed"
                [] tier \in {"WaitBarrier", "Clock"} -> "againExp"
                [] OTHER                            -> "loadClosed"

(* Mutant: the wait passes the present value as the expected one. *)
FutexWait_NoCompare(t) ==
    /\ At(t, "futex")
    /\ Goto(t, "asleep", [NoLoads EXCEPT ![on[t]] = loads[t][on[t]]])
    /\ UNCHANGED words /\ Keep

(* futex_wait with the value loaded above, on closed_count but for a       *)
(* ClockHandle's wait_open: the thread is queued, or the call returns      *)
(* EAGAIN.                                                                 *)
FutexWait(t) ==
    LET current == IF on[t] = "open" THEN open ELSE closed
        expected == loads[t][on[t]]
    IN  /\ At(t, "futex")
        /\ \/ /\ futex_word(current) = futex_word(expected)
              /\ Goto(t, "asleep", [NoLoads EXCEPT ![on[t]] = expected])
           \/ futex_word(current) # futex_word(expected) /\ Goto(t, AfterFutex, NoLoads)
        /\ UNCHANGED words /\ Keep

(* ETIMEDOUT, or a signal. *)
FutexReturn(t) ==
    /\ At(t, "asleep")
    /\ \E b \in BOOLEAN :
          Goto(t, AfterFutex, [NoLoads EXCEPT !.timed_out = b /\ tier = "WaitCounter"])
    /\ UNCHANGED words /\ Keep

(* WaitCounter looks at the counters again before it reports a timeout ... *)
AgainClosed(t) ==
    /\ At(t, "againClosed")
    /\ Goto(t, "againOpen", [loads[t] EXCEPT !.closed = closed])
    /\ UNCHANGED words /\ Keep

AgainOpen(t) ==
    LET state == Delivered(open, loads[t].closed) IN
    /\ At(t, "againOpen")
    /\ \/ state # "none" /\ Return(t, state, loads[t].closed)
       \/ state = "none" /\ Goto(t, "againExp", loads[t])
    /\ UNCHANGED words /\ Keep

(* ... and it, WaitBarrier and ClockHandle look at the lease. *)
AgainExp(t) ==
    /\ At(t, "againExp")
    /\ \/ tier # "WaitCounter" /\ Goto(t, "againNow", [NoLoads EXCEPT !.exp = exp])
       \/ tier = "WaitCounter" /\ exp = SENTINEL /\ Reaped(t)
       \/ /\ tier = "WaitCounter" /\ exp # SENTINEL /\ loads[t].timed_out
          /\ Return(t, "Timeout", loads[t].closed)
       \/ /\ tier = "WaitCounter" /\ exp # SENTINEL /\ ~loads[t].timed_out
          /\ Goto(t, "loadClosed", NoLoads)
    /\ UNCHANGED words /\ Keep

(* Mutant: only a termination ends the wait, a lapsed lease does not. *)
AgainNow_SentinelOnly(t) ==
    /\ At(t, "againNow")
    /\ \/ loads[t].exp = SENTINEL /\ Reaped(t)
       \/ /\ loads[t].exp # SENTINEL
          /\ Goto(t, IF tier = "Clock" THEN "clockLoad" ELSE "loadClosed", NoLoads)
    /\ UNCHANGED words /\ Keep

AgainNow(t) ==
    /\ At(t, "againNow")
    /\ \/ Lapsed(t) /\ Reaped(t)
       \/ ~Lapsed(t) /\ Goto(t, IF tier = "Clock" THEN "clockLoad" ELSE "loadClosed", NoLoads)
    /\ UNCHANGED words /\ Keep

WaitStep(t) ==
    \/ RaiseLoad(t) \/ RaiseCas(t) \/ Arm(t) \/ SetDeadline(t)
    \/ LoadClosed(t) \/ LoadOpen(t) \/ LoadExp(t) \/ ReadNow(t)
    \/ ClockLoad(t) \/ FutexWait(t) \/ FutexReturn(t)
    \/ AgainClosed(t) \/ AgainOpen(t) \/ AgainExp(t) \/ AgainNow(t)

(***************************************************************************)
(* The touch thread and the end of the handle.                             *)
(***************************************************************************)

(* Mutants: the arm writes over SENTINEL; the stop flag is not read. *)
TouchStep_BlindStore ==
    /\ Running
    /\ \/ tpc = "check" /\ tpc' = (IF stop THEN "exited" ELSE "arm") /\ UNCHANGED exp
       \/ tpc = "arm" /\ tpc' = "check" /\ exp' = now + TOUCH_TTL
    /\ UNCHANGED <<open, closed, now, env, daemon, thread, handle, stop>>

TouchStep_NoStop ==
    /\ Running
    /\ \/ tpc = "check" /\ tpc' = "arm" /\ UNCHANGED exp
       \/ tpc = "arm" /\ exp = SENTINEL /\ tpc' = "exited" /\ UNCHANGED exp
       \/ /\ tpc = "arm" /\ exp # SENTINEL /\ tpc' = "check"
          /\ exp' = LargerOf(exp, now + TOUCH_TTL)
    /\ UNCHANGED <<open, closed, now, env, daemon, thread, handle, stop>>

(* The loop of TouchThread::spawn: the test of the stop flag, also after a *)
(* sleep of any length, and the arm.                                       *)
TouchStep ==
    /\ Running
    /\ \/ tpc = "check" /\ tpc' = (IF stop THEN "exited" ELSE "arm") /\ UNCHANGED exp
       \/ tpc = "arm" /\ exp = SENTINEL /\ tpc' = "exited" /\ UNCHANGED exp
       \/ /\ tpc = "arm" /\ exp # SENTINEL /\ tpc' = "check"
          /\ exp' = LargerOf(exp, now + TOUCH_TTL)
    /\ UNCHANGED <<open, closed, now, env, daemon, thread, handle, stop>>

(* free(&mut self) and drop: no wait is under way.  Both stop the touch    *)
(* thread and join it ...                                                  *)
HandleEnd ==
    /\ tier # "Clock" /\ handle = "held" /\ \A t \in Waiters : pc[t] = "idle"
    /\ handle' \in {"freeing", "dropping"}
    /\ stop' = TRUE
    /\ UNCHANGED <<words, now, env, daemon, thread, tpc>>

(* ... and free then stores the expiration.  Nobody sleeps on the words.   *)
HandleJoined ==
    /\ handle \in {"freeing", "dropping"} /\ tpc = "exited"
    /\ exp' = IF handle = "freeing" THEN SENTINEL ELSE exp
    /\ handle' = "gone"
    /\ UNCHANGED <<open, closed, now, env, daemon, thread, tpc, stop>>

(***************************************************************************)
(* The daemon.                                                             *)
(***************************************************************************)
DaemonGoto(label) == dpc' = label /\ UNCHANGED registered

Others == UNCHANGED <<now, env, thread, touch>>

(* The end of the cycle.  Here and below locals that are dead become 0.  *)
CycleEnd ==
    /\ dpc' = "poll"
    /\ dclock' = 0 /\ dnow' = 0 /\ dopen' = 0 /\ dclosed' = 0 /\ dvalue' = 0
    /\ cycle' = IF cycle = "begun" THEN "done" ELSE cycle

(* Mutant: the clock is the next millisecond boundary. *)
AdvanceClock_NextMs ==
    /\ dpc = "poll"
    /\ clock' = (now \div NANOS_PER_MS) + 1
    /\ dclock' = (now \div NANOS_PER_MS) + 1
    /\ cycle' = IF Punctual THEN "begun" ELSE "no"
    /\ DaemonGoto("evaluate")
    /\ UNCHANGED <<words, dnow, dopen, dclosed, dvalue>> /\ Others

AdvanceClock ==
    /\ dpc = "poll"
    /\ clock' = now \div NANOS_PER_MS
    /\ dclock' = now \div NANOS_PER_MS
    /\ open' = IF tier = "Clock" THEN now \div NANOS_PER_MS ELSE open
    /\ cycle' = IF Punctual THEN "begun" ELSE "no"
    /\ DaemonGoto("evaluate")
    /\ UNCHANGED <<closed, exp, dnow, dopen, dclosed, dvalue>> /\ Others

EvalStart ==
    /\ dpc = "evaluate" /\ tier # "Clock"
    /\ dnow' = now
    /\ DaemonGoto("loadOpen")
    /\ UNCHANGED <<words, clock, cycle, dclock, dopen, dclosed, dvalue>> /\ Others

(* A pass over a map that no longer has the entry. *)
EvalNothing ==
    /\ dpc = "loadOpen" /\ ~registered
    /\ CycleEnd
    /\ UNCHANGED <<words, clock, registered>> /\ Others

EvalLoadOpen ==
    /\ dpc = "loadOpen" /\ registered
    /\ dopen' = open
    /\ DaemonGoto("loadClosed")
    /\ UNCHANGED <<words, clock, cycle, dclock, dnow, dclosed, dvalue>> /\ Others

EvalLoadClosed ==
    /\ dpc = "loadClosed"
    /\ dclosed' = closed
    /\ DaemonGoto("loadExp")
    /\ UNCHANGED <<words, clock, cycle, dclock, dnow, dopen, dvalue>> /\ Others

EvalLoadExp ==
    LET dead == Terminated(dopen, dclosed, exp) \/ ~expiration_alive(exp, dnow) IN
    /\ dpc = "loadExp"
    /\ \/ /\ dead /\ DaemonGoto("reapOpen")
          /\ dclock' = 0 /\ dopen' = 0 /\ dclosed' = 0 /\ dnow' = 0
          /\ UNCHANGED <<dvalue, cycle>>
       \/ /\ ~dead /\ Value(dopen, dclosed) > 0 /\ DaemonGoto("watch")
          /\ dclosed' = 0 /\ dnow' = 0
          /\ UNCHANGED <<dclock, dopen, dvalue, cycle>>
       \/ ~dead /\ Value(dopen, dclosed) <= 0 /\ CycleEnd /\ UNCHANGED registered
    /\ UNCHANGED <<words, clock>> /\ Others

(* The wait contract: one load of the watched word. *)
EvalWatch ==
    LET due == CASE tier = "WaitCounter" -> watched # Gone /\ watched >= dopen
                 [] tier = "WaitBarrier" -> watched # Gone /\ watched >= threshold
                 [] OTHER                -> dclock >= dopen
    IN  /\ dpc = "watch"
        /\ \/ /\ due
              /\ dvalue' = IF tier = "WaitCounter" THEN watched ELSE dclock
              /\ dopen' = 0
              /\ DaemonGoto("stamp")
              /\ UNCHANGED <<dclock, dnow, dclosed, cycle>>
           \/ ~due /\ CycleEnd /\ UNCHANGED registered
        /\ UNCHANGED <<words, clock>> /\ Others

EvalStamp ==
    /\ dpc = "stamp"
    /\ closed' = dvalue
    /\ DaemonGoto("wake")
    /\ UNCHANGED <<open, exp, clock, dlocal, cycle>> /\ Others

(* futex_wake resumes every waiter asleep on the word. *)
AfterWake(w) == [t \in Waiters |-> IF pc[t] = "asleep" /\ on[t] = w THEN AfterFutex ELSE pc[t]]

EvalWake ==
    /\ dpc = "wake"
    /\ pc' = AfterWake("closed")
    /\ IF tier = "WaitCron" THEN dpc' = "rearm" /\ UNCHANGED <<dlocal, cycle>> ELSE CycleEnd
    /\ UNCHANGED <<words, clock, registered, now, env, target, initial, on, ttl, deadline, loads,
                   result, touch>>

(* Mutant: a cron is a one-shot timer. *)
EvalRearm_None ==
    /\ dpc = "rearm"
    /\ CycleEnd
    /\ UNCHANGED <<words, clock, registered>> /\ Others

EvalRearm ==
    /\ dpc = "rearm"
    /\ open' = next_line(dclock, interval_ms)
    /\ CycleEnd
    /\ UNCHANGED <<closed, exp, clock, registered>> /\ Others

(* Wildebeest Mode: another create takes the name and the entry is reaped. *)
Claim ==
    /\ tier # "Clock" /\ dpc = "poll" /\ registered
    /\ registered' = FALSE /\ dpc' = "reapOpen"
    /\ UNCHANGED <<words, clock, dlocal, cycle>> /\ Others

ReapStore ==
    /\ \/ dpc = "reapOpen" /\ DaemonGoto("reapClosed") /\ open' = SENTINEL /\ UNCHANGED <<closed, exp>>
       \/ dpc = "reapClosed" /\ DaemonGoto("reapExp") /\ closed' = SENTINEL /\ UNCHANGED <<open, exp>>
       \/ dpc = "reapExp" /\ DaemonGoto("reapWake") /\ exp' = SENTINEL /\ UNCHANGED <<open, closed>>
    /\ UNCHANGED <<clock, dlocal, cycle>> /\ Others

(* The wakes (nobody sleeps on open_count) and the removal from the map. *)
ReapWake ==
    /\ dpc = "reapWake"
    /\ pc' = AfterWake("closed")
    /\ registered' = FALSE
    /\ CycleEnd
    /\ UNCHANGED <<words, clock, now, env, target, initial, on, ttl, deadline, loads, result, touch>>

(* The evaluation passes over the clock; its watchers are woken ... *)
ClockWake ==
    /\ tier = "Clock" /\ dpc = "evaluate" /\ DaemonGoto("clockArm")
    /\ pc' = AfterWake("open")
    /\ UNCHANGED <<words, clock, dlocal, cycle, now, env, target, initial, on, ttl, deadline,
                   loads, result, touch>>

(* ... and its lease is renewed. *)
ClockArm ==
    /\ dpc = "clockArm"
    /\ exp' = LargerOf(exp, now + CLOCK_TTL_NANOS)
    /\ CycleEnd
    /\ UNCHANGED <<open, closed, clock, registered>> /\ Others

DaemonStep ==
    \/ AdvanceClock \/ EvalStart \/ EvalNothing
    \/ EvalLoadOpen \/ EvalLoadClosed \/ EvalLoadExp
    \/ EvalWatch \/ EvalStamp \/ EvalWake \/ EvalRearm
    \/ Claim \/ ReapStore \/ ReapWake \/ ClockWake \/ ClockArm

Next ==
    \/ Tick \/ WatchedStep \/ DaemonStep
    \/ \E t \in Waiters : WaitStart(t) \/ WaitStep(t)
    \/ TouchStep \/ HandleEnd \/ HandleJoined

Spec == Init /\ [][Next]_vars

(* A thread inside a wait keeps running, the clock advances, and the touch *)
(* thread and the owner that joins it keep running.  The daemon may stop.  *)
FairClients ==
    /\ WF_vars(Tick) /\ WF_vars(TouchStep) /\ WF_vars(HandleJoined)
    /\ \A t \in Waiters : WF_vars(WaitStep(t))
FairSpec == Spec /\ FairClients

(***************************************************************************)
(* Properties.                                                             *)
(***************************************************************************)
Ok(t) == result[t].state \in {"Normal", "Overrun"}
InWait(t) == pc[t] \in LoopPcs

(* A wait that reports a delivery reports one that happened, at or after   *)
(* what this call asked for, although another thread may raise the target  *)
(* and the daemon stamp, re-arm or reap between the loads: a timer's clock *)
(* reading between its target and the clock, a count the watched word has  *)
(* had, a grid line after the call began, a clock reading after the        *)
(* barrier's condition held, a time the clock has reached.  An Overrun of  *)
(* a cron is no false alarm: a grid line after the beginning of the call   *)
(* had passed when the daemon stamped.  (SENTINEL in closed_count is the   *)
(* subject of ReapIsNoDelivery.)                                           *)
DeliveryIsReal ==
    \A t \in Waiters :
        LET c == result[t].completed_at IN
        Ok(t) => CASE tier = "WaitCron"    -> /\ c \in (initial[t] + 1) .. clock
                                              /\ result[t].state = "Overrun" => \E line \in
                                                    (initial[t] + 1) .. (c - 1) : line % interval_ms = 0
                   [] tier = "Clock"       -> c \in target[t] .. clock
                   [] tier = "WaitTimer"   -> c = SENTINEL \/ c \in target[t] .. clock
                   [] tier = "WaitCounter" -> c = SENTINEL \/ c \in target[t] .. highest
                   [] OTHER -> c = SENTINEL \/ (c \in 1 .. clock /\ highest >= threshold)

(* No lost wakeup: a thread asleep on a word that has changed since it was *)
(* loaded has a futex_wake of the daemon on its way.                       *)
NoLostWakeup ==
    \A t \in Waiters :
        LET current == IF on[t] = "open" THEN open ELSE closed IN
        pc[t] = "asleep" /\ current # loads[t][on[t]]
            => dpc \in {"wake", "reapExp", "reapWake"} \/ (tier = "Clock" /\ dpc = "evaluate")

(* Once the registry has let go of the entry all three words stay          *)
(* SENTINEL: neither the CAS-max of a target, nor a touch, nor a re-arm    *)
(* under way during the reap writes over them.                             *)
DeadForGood ==
    ~registered /\ dpc \in {"poll", "evaluate", "loadOpen"}
        => open = SENTINEL /\ closed = SENTINEL /\ exp = SENTINEL

(* Where the daemon's dealings with the entry are. *)
Phase == CASE dpc \in {"reapOpen", "reapClosed", "reapExp"} -> "condemned"
           [] dpc = "reapWake" -> "reaped"
           [] OTHER -> IF registered THEN "leased" ELSE "reaped"

L == INSTANCE Lease WITH
        marked <- open = SENTINEL \/ closed = SENTINEL,
        noted  <- dopen = SENTINEL \/ dclosed = SENTINEL,
        held   <- registered,
        phase  <- Phase

(* The lease of a wait tier, which a touch thread, the waits themselves,   *)
(* free and the daemon all write, keeps the promise of Lease: a heartbeat  *)
(* that comes in time is enough, and one that comes after the verdict does *)
(* not bring the entry back.                                               *)
LeaseKept == L!Spec

(* wait_ms ends, with a result or by aborting the process, once its        *)
(* absolute deadline has passed, whatever signals arrive and even if the   *)
(* daemon has stopped.                                                     *)
TimedWaitEnds ==
    \A t \in Waiters :
        (tier = "WaitTimer" /\ InWait(t) /\ deadline[t] <= MaxTime[tier])
            ~> (~InWait(t) \/ ~Running)

(* free and drop return: the touch thread they join sees the stop flag. *)
HandleEnds == (handle \in {"freeing", "dropping"}) ~> (handle = "gone")

(* The daemon has not stopped. *)
DaemonRuns == []<>(dpc = "poll") /\ []<>(dpc # "poll")

(* With a daemon that runs, wait of a cron returns for the line after its  *)
(* first load at the latest, or with InterlockReaped: a wait that begins   *)
(* between the daemon's stamp and its re-arm is not forgotten.             *)
CronWaitReturns ==
    DaemonRuns => \A t \in Waiters :
        (tier = "WaitCron" /\ InWait(t) /\ initial[t] + interval_ms <= MaxClock) ~> ~InWait(t)

(* With a daemon that runs, nobody stays in the wait of a barrier whose    *)
(* condition stays met.                                                    *)
BarrierWaitReturns ==
    DaemonRuns /\ <>[](tier = "WaitBarrier" /\ watched >= threshold)
        => \A t \in Waiters : []<>~InWait(t)

(* Nobody stays in the wait of an interlock whose lease stays lapsed or    *)
(* terminated, although the daemon may have died at any step: before the   *)
(* reap, between the reap's stores, or before its wakes.  So the waiters   *)
(* of the clock, whose lease only the daemon renews, learn that it died.   *)
LapsedIsNoticed ==
    <>[](exp = SENTINEL \/ exp < now) => \A t \in Waiters : []<>~InWait(t)

(* SURFACE.md: SENTINEL "always raises InterlockReaped instead of          *)
(* returning a WaitResult".  The loops of wait_until, wait_ms and the      *)
(* barrier's wait compare the counters before they look for SENTINEL, and  *)
(* a reaped entry has SENTINEL in both.                                    *)
ReapIsNoDelivery == \A t \in Waiters : Ok(t) => result[t].completed_at # SENTINEL

(* SURFACE.md: if the deadline passes without a stamp "the daemon is       *)
(* dead".  With a daemon that completes a cycle at every instant and that  *)
(* has not let go of the entry nobody should abort.                        *)
AbortMeansDaemonDead == Punctual /\ registered => Running
=============================================================================

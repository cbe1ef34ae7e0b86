---------------------------- MODULE ProcessClock ----------------------------
(***************************************************************************)
(* A ProcessClock: a tier-0 interlock that a process keeps as a beacon.    *)
(* ProcessClock::new stores the start time in both counters and spawns a   *)
(* touch thread that renews the lease and then stores the system clock in  *)
(* open_count, by a plain store and without a wake.  Around it: the daemon *)
(* that advances the clock and sweeps, another create under the same name, *)
(* the death of the process, and a watcher in AttachedInterlock::wait_open.*)
(*                                                                         *)
(* Attachers of a ProcessClock only read it (SURFACE.md).  interlock_arm   *)
(* and the daemon's three loads are one step each; Interlock has them      *)
(* access by access.                                                       *)
(***************************************************************************)
EXTENDS Words

CONSTANTS StartTime,           \* clock.closed_count, when the daemon started
          CREATION_TTL_NANOS,
          TOUCH_TTL,           \* lease the touch thread asks for
          Targets,             \* arguments of the watcher's wait_open
          MaxTime              \* bound: CLOCK_MONOTONIC stops here

(* The clock is counted in milliseconds, and so is CLOCK_MONOTONIC here.   *)
ASSUME ProcessClockAssumption ==
    /\ MaxTime \in Nat /\ StartTime \in 0 .. MaxTime
    /\ CREATION_TTL_NANOS \in Nat /\ TOUCH_TTL \in Nat
    /\ MaxTime + CREATION_TTL_NANOS < SENTINEL /\ MaxTime + TOUCH_TTL < SENTINEL
    /\ Targets \subseteq 0 .. MaxTime

VARIABLES
    open, closed, exp,     \* the words of the entry
    now, clock,            \* CLOCK_MONOTONIC and open_count of the clock
    registered, dpc, dnow, \* the registry, the daemon's position, its clock sample
    process,               \* the owner: inside new, holding the handle, ending
    start,                 \* new's start_time
    tpc, clock_now,        \* the touch thread and its local
    stop, reaped,          \* its two flags
    wpc, target, seen,     \* the watcher
    result                 \* what its last call returned

words   == <<open, closed, exp>>
daemon  == <<clock, registered, dpc, dnow>>
owner   == <<process, start, tpc, clock_now, stop, reaped>>
watcher == <<wpc, target, seen, result>>
vars    == <<words, now, daemon, owner, watcher>>

Ending == {"freeing", "dropping"}

TypeOK ==
    /\ open \in Word /\ closed \in Word /\ exp \in Word
    /\ now \in 0 .. MaxTime /\ clock \in 0 .. MaxTime
    /\ registered \in BOOLEAN /\ dnow \in 0 .. MaxTime
    /\ dpc \in {"poll", "evaluate", "load", "reapOpen", "reapClosed", "reapExp", "reapWake"}
    /\ process \in {"new", "newClosed", "newOpen", "spawn", "held", "gone", "dead"} \cup Ending
    /\ start \in 0 .. MaxTime /\ clock_now \in 0 .. MaxTime
    /\ tpc \in {"none", "check", "arm", "read", "store", "exited"}
    /\ stop \in BOOLEAN /\ reaped \in BOOLEAN
    /\ wpc \in {"idle", "load", "futex", "asleep", "exp", "now"}
    /\ target \in Word /\ seen \in Word
    /\ result \in {"none", "Ok", "InterlockReaped"}

(* The daemon has created the entry and the client has mapped it. *)
Init ==
    /\ open = 0 /\ closed = 0 /\ exp = StartTime + CREATION_TTL_NANOS
    /\ now = StartTime /\ clock = StartTime
    /\ registered = TRUE /\ dpc = "poll" /\ dnow = 0
    /\ process = "new" /\ start = 0
    /\ tpc = "none" /\ clock_now = 0 /\ stop = FALSE /\ reaped = FALSE
    /\ wpc = "idle" /\ target = 0 /\ seen = 0 /\ result = "none"

Tick ==
    /\ now < MaxTime
    /\ now' = now + 1
    /\ UNCHANGED <<words, daemon, owner, watcher>>

(***************************************************************************)
(* The owner.                                                              *)
(***************************************************************************)

(* ProcessClock::new reads the clock and stores it in both counters ... *)
NewLoad ==
    /\ process = "new" /\ process' = "newClosed"
    /\ start' = clock
    /\ UNCHANGED <<words, now, daemon, tpc, clock_now, stop, reaped, watcher>>

NewClosed ==
    /\ process = "newClosed" /\ process' = "newOpen"
    /\ closed' = start
    /\ UNCHANGED <<open, exp, now, daemon, start, tpc, clock_now, stop, reaped, watcher>>

NewOpen ==
    /\ process = "newOpen" /\ process' = "spawn"
    /\ open' = start
    /\ UNCHANGED <<closed, exp, now, daemon, start, tpc, clock_now, stop, reaped, watcher>>

(* ... and spawns the touch thread. *)
NewSpawn ==
    /\ process = "spawn" /\ process' = "held"
    /\ tpc' = "check"
    /\ UNCHANGED <<words, now, daemon, start, clock_now, stop, reaped, watcher>>

New == NewLoad \/ NewClosed \/ NewOpen \/ NewSpawn

Alive == process # "dead"

TouchCheck ==
    /\ Alive /\ tpc = "check"
    /\ tpc' = IF stop THEN "exited" ELSE "arm"
    /\ UNCHANGED <<words, now, daemon, process, start, clock_now, stop, reaped, watcher>>

(* Mutants: the answer of interlock_arm is ignored; SENTINEL is not tested.*)
TouchArm_Ignored ==
    /\ Alive /\ tpc = "arm" /\ tpc' = "read"
    /\ exp' = IF exp = SENTINEL THEN exp ELSE LargerOf(exp, now + TOUCH_TTL)
    /\ UNCHANGED <<open, closed, now, daemon, process, start, clock_now, stop, reaped, watcher>>

TouchArm_BlindStore ==
    /\ Alive /\ tpc = "arm" /\ tpc' = "read"
    /\ exp' = now + TOUCH_TTL
    /\ UNCHANGED <<open, closed, now, daemon, process, start, clock_now, stop, reaped, watcher>>

TouchArm ==
    /\ Alive /\ tpc = "arm"
    /\ \/ exp = SENTINEL /\ tpc' = "exited" /\ reaped' = TRUE /\ UNCHANGED exp
       \/ /\ exp # SENTINEL /\ tpc' = "read" /\ UNCHANGED reaped
          /\ exp' = LargerOf(exp, now + TOUCH_TTL)
    /\ UNCHANGED <<open, closed, now, daemon, process, start, clock_now, stop, watcher>>

(* Mutant: closed_count of the clock is read, the time the daemon started. *)
TouchRead_ClosedCount ==
    /\ Alive /\ tpc = "read" /\ tpc' = "store"
    /\ clock_now' = StartTime
    /\ UNCHANGED <<words, now, daemon, process, start, stop, reaped, watcher>>

TouchRead ==
    /\ Alive /\ tpc = "read" /\ tpc' = "store"
    /\ clock_now' = clock
    /\ UNCHANGED <<words, now, daemon, process, start, stop, reaped, watcher>>

TouchStore ==
    /\ Alive /\ tpc = "store" /\ tpc' = "check"
    /\ open' = clock_now
    /\ UNCHANGED <<closed, exp, now, daemon, process, start, clock_now, stop, reaped, watcher>>

TouchStep == TouchCheck \/ TouchArm \/ TouchRead \/ TouchStore

(* free and drop stop the touch thread and join it; free then terminates   *)
(* the interlock and wakes both counters.                                  *)
HandleEnd ==
    /\ process = "held" /\ process' \in Ending
    /\ stop' = TRUE
    /\ UNCHANGED <<words, now, daemon, start, tpc, clock_now, reaped, watcher>>

Resumed == IF wpc = "asleep" THEN "exp" ELSE wpc

HandleJoined ==
    /\ process \in Ending /\ tpc = "exited" /\ process' = "gone"
    /\ \/ process = "freeing" /\ exp' = SENTINEL /\ wpc' = Resumed
       \/ process = "dropping" /\ UNCHANGED <<exp, wpc>>
    /\ UNCHANGED <<open, closed, now, daemon, start, tpc, clock_now, stop, reaped,
                   target, seen, result>>

(* The process dies, wherever its threads are. *)
ProcessDies ==
    /\ process \notin {"dead", "gone"} /\ process' = "dead"
    /\ UNCHANGED <<words, now, daemon, start, tpc, clock_now, stop, reaped, watcher>>

(***************************************************************************)
(* The daemon.                                                             *)
(***************************************************************************)
Goto(label) == dpc' = label

(* Mutant: the clock is the end of the current millisecond. *)
AdvanceClock_NextMs ==
    /\ dpc = "poll" /\ Goto("evaluate")
    /\ clock' = now + 1
    /\ UNCHANGED <<words, now, registered, dnow, owner, watcher>>

AdvanceClock ==
    /\ dpc = "poll" /\ Goto("evaluate")
    /\ clock' = now
    /\ UNCHANGED <<words, now, registered, dnow, owner, watcher>>

EvalStart ==
    /\ dpc = "evaluate" /\ Goto(IF registered THEN "load" ELSE "poll")
    /\ dnow' = IF registered THEN now ELSE 0
    /\ UNCHANGED <<words, now, clock, registered, owner, watcher>>

(* Mutant: only termination is looked for. *)
EvalLoad_NoTtl ==
    /\ dpc = "load" /\ dnow' = 0
    /\ Goto(IF Terminated(open, closed, exp) THEN "reapOpen" ELSE "poll")
    /\ UNCHANGED <<words, now, clock, registered, owner, watcher>>

EvalLoad ==
    /\ dpc = "load" /\ dnow' = 0
    /\ Goto(IF Terminated(open, closed, exp) \/ ~expiration_alive(exp, dnow)
              THEN "reapOpen" ELSE "poll")
    /\ UNCHANGED <<words, now, clock, registered, owner, watcher>>

(* Wildebeest Mode: another create takes the name. *)
Claim ==
    /\ dpc = "poll" /\ registered /\ Goto("reapOpen")
    /\ registered' = FALSE
    /\ UNCHANGED <<words, now, clock, dnow, owner, watcher>>

ReapStore ==
    /\ \/ dpc = "reapOpen" /\ Goto("reapClosed") /\ open' = SENTINEL /\ UNCHANGED <<closed, exp>>
       \/ dpc = "reapClosed" /\ Goto("reapExp") /\ closed' = SENTINEL /\ UNCHANGED <<open, exp>>
       \/ dpc = "reapExp" /\ Goto("reapWake") /\ exp' = SENTINEL /\ UNCHANGED <<open, closed>>
    /\ UNCHANGED <<now, clock, registered, dnow, owner, watcher>>

ReapWake ==
    /\ dpc = "reapWake" /\ Goto("poll")
    /\ registered' = FALSE
    /\ wpc' = Resumed
    /\ UNCHANGED <<words, now, clock, dnow, owner, target, seen, result>>

DaemonStep == AdvanceClock \/ EvalStart \/ EvalLoad \/ Claim \/ ReapStore \/ ReapWake

(***************************************************************************)
(* The watcher: wait_open of an attached handle.                           *)
(***************************************************************************)
Reaping == dpc \in {"reapOpen", "reapClosed", "reapExp", "reapWake"}

WatchStart ==
    /\ wpc = "idle" /\ wpc' = "load"
    /\ target' \in Targets
    /\ result' = "none"
    /\ UNCHANGED <<words, now, daemon, owner, seen>>

Answer(r) == wpc' = "idle" /\ result' = r /\ seen' = 0

(* Mutant: the target is compared before SENTINEL is. *)
WatchLoad_NoSentinel ==
    /\ wpc = "load"
    /\ \/ open >= target /\ Answer("Ok")
       \/ open < target /\ wpc' = "futex" /\ seen' = open /\ UNCHANGED result
    /\ UNCHANGED <<words, now, daemon, owner, target>>

WatchLoad ==
    /\ wpc = "load"
    /\ \/ open = SENTINEL /\ Answer("InterlockReaped")
       \/ open # SENTINEL /\ open >= target /\ Answer("Ok")
       \/ open < target /\ wpc' = "futex" /\ seen' = open /\ UNCHANGED result
    /\ UNCHANGED <<words, now, daemon, owner, target>>

(* Queued, EAGAIN, and later a timeout: the touch thread never wakes. *)
WatchFutex ==
    /\ \/ /\ wpc = "futex"
          /\ wpc' = IF futex_word(open) = futex_word(seen) THEN "asleep" ELSE "exp"
       \/ wpc = "asleep" /\ wpc' = "exp"
    /\ seen' = 0
    /\ UNCHANGED <<words, now, daemon, owner, target, result>>

WatchExp ==
    /\ wpc = "exp" /\ wpc' = "now"
    /\ seen' = exp
    /\ UNCHANGED <<words, now, daemon, owner, target, result>>

WatchNow ==
    /\ wpc = "now"
    /\ \/ (seen = SENTINEL \/ seen < now) /\ Answer("InterlockReaped")
       \/ seen # SENTINEL /\ seen >= now /\ wpc' = "load" /\ seen' = 0 /\ UNCHANGED result
    /\ UNCHANGED <<words, now, daemon, owner, target>>

WatchStep == WatchStart \/ WatchLoad \/ WatchFutex \/ WatchExp \/ WatchNow

Next ==
    \/ Tick \/ New \/ TouchStep \/ HandleEnd \/ HandleJoined \/ ProcessDies
    \/ DaemonStep \/ WatchStep

Spec == Init /\ [][Next]_vars

(* Time passes, the touch thread of a living process runs and the daemon's *)
(* cycle does not block.                                                   *)
LiveSpec == Spec /\ WF_vars(Tick) /\ WF_vars(TouchStep) /\ WF_vars(DaemonStep)

(***************************************************************************)
(* Properties.                                                             *)
(***************************************************************************)

(* Whoever looks at a beacon that is not terminated, while the process     *)
(* holds it, finds the start time in closed_count and in open_count a time *)
(* between the start and the present: uptime_ms is never negative and      *)
(* never ahead, also while a reap and the touch thread's store overlap.    *)
UptimeIsReal ==
    process \in {"held", "freeing", "dropping"} /\ ~Terminated(open, closed, exp)
        => closed = start /\ open \in start .. clock

(* The reap is final for the lease: the stores of new and of the touch     *)
(* thread that come after it leave the interlock terminated.               *)
ReapIsFinal == ~registered /\ ~Reaping => exp = SENTINEL

(* A process that goes on learns that its beacon was reaped: is_reaped     *)
(* becomes true.                                                           *)
ReapIsNoticed ==
    (process = "held" /\ exp = SENTINEL) ~> (reaped \/ process # "held")

(* process_clock.rs: "if the process dies, touches stop, TTL lapses,       *)
(* daemon reaps", and the beacon stays dead.                               *)
DeadProcessIsReaped ==
    (process \in {"dead", "gone"} /\ exp <= MaxTime) ~> [](exp = SENTINEL /\ ~registered)

(* A wait_open that succeeds was given a time the system clock has         *)
(* reached, never the SENTINEL of a reap, even where the touch thread's    *)
(* store came after the reap and the beacon is dead.                       *)
WatchedTimeIsReal == result = "Ok" => target <= clock
=============================================================================

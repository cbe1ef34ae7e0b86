------------------------------ MODULE Registry ------------------------------
(***************************************************************************)
(* The daemon's registry and its cycle: poll and serve requests, advance   *)
(* the clock, evaluate every entry, remove the dead ones, refresh the      *)
(* clock's lease.  The clients' threads write the words of the regions     *)
(* they hold at any moment, also between the daemon's reads of an entry    *)
(* and its stores.                                                         *)
(*                                                                         *)
(* Regions are named by the id the registry gave them, and by_name maps a  *)
(* name to the id of its entry, or to NoId.  Interlock has the accesses to *)
(* one region word by word; here reading an entry, reaping it and firing   *)
(* it are one step each.                                                   *)
(***************************************************************************)
EXTENDS Words

CONSTANTS Names,               \* names clients use
          MaxId,               \* bound: ids handed out by the daemon
          Requests,            \* the create requests clients may send
          NANOS_PER_MS,
          CREATION_TTL_NANOS,  \* lease given at creation
          CLOCK_TTL_NANOS,     \* lease the daemon gives its own clock
          Ttls,                \* arguments of touch
          Increments,          \* arguments of open and close
          Targets,             \* arguments of WaitCounter::wait_until
          Durations,           \* arguments of WaitTimer::wait_ms
          StartTimes,          \* readings of CLOCK_MONOTONIC at daemon start
          MaxTime,             \* bound: CLOCK_MONOTONIC stops here
          MaxCount             \* bound: counts and targets stay below

Ids == 0 .. MaxId
NoId == -1
NoName == "<none>"
AllNames == Names \cup {"clock"}
ClockId == 0

Tiers == {"Interlock", "WaitCounter", "WaitTimer", "WaitCron", "WaitBarrier"}
WatchedWords == {"open", "closed"}
Condition == [name : AllNames, word : WatchedWords, threshold : Word]

Entries == [tier : Tiers, watched_name : AllNames \cup {NoName},
            watched_word : WatchedWords, interval_ms : Nat,
            conditions : SUBSET Condition]

(* "clock" is not a client's name; all counts, targets and times are far   *)
(* below the sign bit of a word.                                           *)
ASSUME RegistryAssumption ==
    /\ "clock" \notin Names /\ NoName \notin AllNames
    /\ MaxId \in Nat
    /\ NANOS_PER_MS \in Nat \ {0}
    /\ CREATION_TTL_NANOS \in Nat /\ CLOCK_TTL_NANOS \in Nat
    /\ Ttls \subseteq Nat /\ Increments \subseteq 0 .. MaxCount
    /\ Targets \subseteq Nat /\ Durations \subseteq Nat
    /\ MaxTime \in Nat /\ MaxCount \in Nat /\ StartTimes \subseteq 0 .. MaxTime
    /\ MaxTime + CREATION_TTL_NANOS < SENTINEL
    /\ MaxTime + CLOCK_TTL_NANOS < SENTINEL
    /\ \A ttl \in Ttls : MaxTime + ttl < SENTINEL
    /\ 1 <= MaxCount /\ MaxTime <= MaxCount /\ 2 * MaxCount < SENTINEL
    /\ \A r \in Requests :
          /\ r.name \in AllNames /\ r.tier \in Tiers
          /\ r.watched_name \in AllNames \cup {NoName}
          /\ r.watched_word \in WatchedWords \cup {"invalid"}
          /\ r.interval_ns \in Nat
          /\ (MaxTime + r.interval_ns) <= MaxCount
          /\ r.conditions \subseteq [name : AllNames, threshold : Word,
                                      word : WatchedWords \cup {"invalid"}]

VARIABLES
    now,          \* CLOCK_MONOTONIC in nanoseconds
    by_name,      \* Registry::by_name, name -> id or NoId
    entry,        \* the InterlockEntry of each id
    next_id,      \* Registry::next_id
    open, closed, exp,   \* the words of each region
    held,         \* ids whose creator received the region's fd
    attached,     \* ids some attacher received the fd of
    phase,        \* position of the daemon in its cycle
    clock_now_ms, now_ns,       \* samples taken by this cycle
    todo,         \* names the pass has not visited yet
    visiting,     \* name of the entry being visited, or NoName
    snap,         \* its words as the daemon loaded them
    to_remove     \* names to remove at the end of the pass

words == <<open, closed, exp>>
grants == <<held, attached>>
map == <<by_name, entry, next_id>>
pass == <<clock_now_ms, now_ns, todo, visiting, snap, to_remove>>
vars == <<now, by_name, entry, next_id, open, closed, exp, held, attached,
          phase, clock_now_ms, now_ns, todo, visiting, snap, to_remove>>

Registered(n) == by_name[n] # NoId
Allocated == 0 .. (next_id - 1)
NoSnap == [open |-> 0, closed |-> 0, exp |-> 0]

TypeOK ==
    /\ now \in 0 .. MaxTime
    /\ by_name \in [AllNames -> Ids \cup {NoId}]
    /\ next_id \in 1 .. (MaxId + 1)
    /\ entry \in [Ids -> Entries]
    /\ open \in [Ids -> Word] /\ closed \in [Ids -> Word] /\ exp \in [Ids -> Word]
    /\ held \in SUBSET Allocated /\ attached \in SUBSET Allocated
    /\ phase \in {"poll", "evaluate", "visit", "refresh"}
    /\ clock_now_ms \in 0 .. MaxTime /\ now_ns \in 0 .. MaxTime
    /\ todo \in SUBSET Names /\ to_remove \in SUBSET Names
    /\ visiting \in Names \cup {NoName}
    /\ snap \in [open : Word, closed : Word, exp : Word]

PlainEntry == [tier |-> "Interlock", watched_name |-> NoName, watched_word |-> "open",
               interval_ms |-> 0, conditions |-> {}]

(* Registry::new: the clock's region, started at the present millisecond,  *)
(* its lease raised from the creation TTL to a second.                     *)
Init ==
    /\ now \in StartTimes
    /\ by_name = [n \in AllNames |-> IF n = "clock" THEN ClockId ELSE NoId]
    /\ entry = [i \in Ids |-> PlainEntry]
    /\ next_id = 1
    /\ open = [i \in Ids |-> IF i = ClockId THEN now \div NANOS_PER_MS ELSE 0]
    /\ closed = [i \in Ids |-> IF i = ClockId THEN now \div NANOS_PER_MS ELSE 0]
    /\ exp = [i \in Ids |-> IF i = ClockId
                              THEN now + LargerOf(CREATION_TTL_NANOS, CLOCK_TTL_NANOS)
                              ELSE 0]
    /\ held = {} /\ attached = {}
    /\ phase = "poll"
    /\ clock_now_ms = 0 /\ now_ns = 0
    /\ todo = {} /\ visiting = NoName /\ snap = NoSnap /\ to_remove = {}

Tick ==
    /\ now < MaxTime
    /\ now' = now + 1
    /\ UNCHANGED <<map, words, grants, phase, pass>>

(***************************************************************************)
(* Requests, served between poll and the advance of the clock.             *)
(***************************************************************************)

(* The validation at the head of Registry::create. *)
Valid(r) ==
    /\ r.name # "clock"
    /\ CASE r.tier = "WaitCounter" ->
              /\ r.watched_name \in AllNames /\ Registered(r.watched_name)
              /\ r.watched_word \in WatchedWords
         [] r.tier = "WaitCron" -> r.interval_ns \div NANOS_PER_MS > 0
         [] r.tier = "WaitBarrier" ->
              \A c \in r.conditions : Registered(c.name) /\ c.word \in WatchedWords
         [] OTHER -> TRUE

NewEntry(r) ==
    [tier         |-> r.tier,
     watched_name |-> CASE r.tier = "WaitCounter"              -> r.watched_name
                        [] r.tier \in {"WaitTimer", "WaitCron"} -> "clock"
                        [] OTHER                               -> NoName,
     watched_word |-> IF r.tier = "WaitCounter" THEN r.watched_word ELSE "open",
     interval_ms  |-> IF r.tier = "WaitCron" THEN r.interval_ns \div NANOS_PER_MS ELSE 0,
     conditions   |-> IF r.tier = "WaitBarrier" THEN r.conditions ELSE {}]

(* The counters of a new region, by tier. *)
InitialOpen(e, clock_ms) ==
    CASE e.tier = "WaitTimer"   -> clock_ms
      [] e.tier = "WaitCron"    -> next_line(clock_ms, e.interval_ms)
      [] e.tier = "WaitBarrier" -> 1
      [] OTHER                  -> 0

InitialClosed(e, clock_ms) ==
    IF e.tier \in {"WaitTimer", "WaitCron"} THEN clock_ms ELSE 0

(* interlock_reap of a set of regions. *)
Reaped(w, ids) == [i \in Ids |-> IF i \in ids THEN SENTINEL ELSE w[i]]

(* Mutant: the entry that had the name is replaced and not reaped. *)
Insert_NoReap(r) ==
    LET e == NewEntry(r) IN
    /\ next_id <= MaxId
    /\ Valid(r)
    /\ by_name' = [by_name EXCEPT ![r.name] = next_id]
    /\ entry' = [entry EXCEPT ![next_id] = e]
    /\ next_id' = next_id + 1
    /\ open' = [open EXCEPT ![next_id] = InitialOpen(e, open[ClockId])]
    /\ closed' = [closed EXCEPT ![next_id] = InitialClosed(e, open[ClockId])]
    /\ exp' = [exp EXCEPT ![next_id] = now + CREATION_TTL_NANOS]

(* Registry::create.  A region that already has the name is taken out of   *)
(* the map and reaped, then the new one is inserted.                       *)
Insert(r) ==
    LET old == {by_name[r.name]} \ {NoId}
        e   == NewEntry(r)
        now_ms == open[ClockId]
    IN  /\ next_id <= MaxId
        /\ Valid(r)
        /\ by_name' = [by_name EXCEPT ![r.name] = next_id]
        /\ entry' = [entry EXCEPT ![next_id] = e]
        /\ next_id' = next_id + 1
        /\ open' = [Reaped(open, old) EXCEPT ![next_id] = InitialOpen(e, now_ms)]
        /\ closed' = [Reaped(closed, old) EXCEPT ![next_id] = InitialClosed(e, now_ms)]
        /\ exp' = [Reaped(exp, old) EXCEPT ![next_id] = now + CREATION_TTL_NANOS]

(* handle_client_request for CreateInterlock: the fd is duplicated after   *)
(* the registry has changed, and when that fails the client gets           *)
(* AllocationFailed for an interlock that exists.                          *)
CreateInterlock(r) ==
    /\ phase = "poll"
    /\ Insert(r)
    /\ \/ held' = held \cup {next_id}
       \/ UNCHANGED held
    /\ UNCHANGED <<now, attached, phase, pass>>

(* The request is refused, or memfd_create, ftruncate or mmap fails before *)
(* anything has changed.                                                   *)
CreateFails(r) ==
    /\ phase = "poll"
    /\ ~Valid(r) \/ next_id <= MaxId
    /\ UNCHANGED vars

(* AttachInterlock: the fd of the entry, or InterlockNotFound.  (Attaching *)
(* the clock gives a handle that only reads and waits.)                    *)
AttachInterlock(n) ==
    /\ phase = "poll"
    /\ attached' = attached \cup ({by_name[n]} \ {NoId})
    /\ UNCHANGED <<now, map, words, held, phase, pass>>

(***************************************************************************)
(* The rest of the cycle.                                                  *)
(***************************************************************************)

AdvanceClock ==
    /\ phase = "poll"
    /\ clock_now_ms' = now \div NANOS_PER_MS
    /\ open' = [open EXCEPT ![ClockId] = now \div NANOS_PER_MS]
    /\ phase' = "evaluate"
    /\ UNCHANGED <<now, map, closed, exp, grants, now_ns, todo, visiting, snap, to_remove>>

(* evaluate_all: one clock sample for the pass; the map is iterated in an  *)
(* arbitrary order and the clock's own entry is skipped.                   *)
EvaluateAll ==
    /\ phase = "evaluate"
    /\ now_ns' = now
    /\ todo' = {n \in Names : Registered(n)}
    /\ to_remove' = {}
    /\ phase' = "visit"
    /\ UNCHANGED <<now, map, words, grants, clock_now_ms, visiting, snap>>

Visit(n) ==
    /\ phase = "visit" /\ visiting = NoName
    /\ n \in todo
    /\ todo' = todo \ {n}
    /\ visiting' = n
    /\ snap' = [open |-> open[by_name[n]], closed |-> closed[by_name[n]],
                exp |-> exp[by_name[n]]]
    /\ UNCHANGED <<now, map, words, grants, phase, clock_now_ms, now_ns, to_remove>>

(* Mutants: no test of the lease; no test of the value. *)
SnapDead_NoTtl == Terminated(snap.open, snap.closed, snap.exp)
SnapOpen_NoValue == ~Terminated(snap.open, snap.closed, snap.exp)
                    /\ expiration_alive(snap.exp, now_ns)

(* What the loads decided. *)
SnapDead == Terminated(snap.open, snap.closed, snap.exp)
            \/ ~expiration_alive(snap.exp, now_ns)
SnapOpen == ~SnapDead /\ Value(snap.open, snap.closed) > 0

VisitDone ==
    /\ visiting' = NoName /\ snap' = NoSnap
    /\ UNCHANGED <<now, map, grants, phase, clock_now_ms, now_ns, todo>>

(* Terminated or lapsed: reap now, remove after the pass. *)
ReapEntry ==
    LET id == {by_name[visiting]} IN
    /\ visiting # NoName
    /\ SnapDead
    /\ open' = Reaped(open, id)
    /\ closed' = Reaped(closed, id)
    /\ exp' = Reaped(exp, id)
    /\ to_remove' = to_remove \cup {visiting}
    /\ VisitDone

WatchedValue(n, w) == IF w = "open" THEN open[by_name[n]] ELSE closed[by_name[n]]

(* Mutant: a timer is due only on its own millisecond. *)
Due_OnTheDot(e) ==
    CASE e.tier \in {"WaitTimer", "WaitCron"} -> clock_now_ms = snap.open
      [] e.tier = "WaitCounter" ->
           /\ Registered(e.watched_name)
           /\ WatchedValue(e.watched_name, e.watched_word) >= snap.open
      [] e.tier = "WaitBarrier" ->
           \A c \in e.conditions :
              Registered(c.name) /\ WatchedValue(c.name, c.word) >= c.threshold
      [] OTHER -> FALSE

(* The wait contract of the entry, for an entry that is Open: the value it *)
(* delivers, or nothing.                                                   *)
Due(e) ==
    CASE e.tier \in {"WaitTimer", "WaitCron"} -> clock_now_ms >= snap.open
      [] e.tier = "WaitCounter" ->
           /\ Registered(e.watched_name)
           /\ WatchedValue(e.watched_name, e.watched_word) >= snap.open
      [] e.tier = "WaitBarrier" ->
           \A c \in e.conditions :
              Registered(c.name) /\ WatchedValue(c.name, c.word) >= c.threshold
      [] OTHER -> FALSE

(* Mutant: the target is loaded again and delivered. *)
Delivery_Target(e) == IF e.tier = "WaitCounter"
                        THEN WatchedValue(e.watched_name, e.watched_word)
                        ELSE open[by_name[visiting]]

Delivery(e) == IF e.tier = "WaitCounter"
                 THEN WatchedValue(e.watched_name, e.watched_word)
                 ELSE clock_now_ms

(* Mutant: the cron is re-armed one interval after the line it had. *)
FireEntry_NextInterval ==
    LET id == by_name[visiting]
        e  == entry[id]
    IN  /\ visiting # NoName
        /\ SnapOpen
        /\ Due(e)
        /\ closed' = [closed EXCEPT ![id] = Delivery(e)]
        /\ open' = IF e.tier = "WaitCron"
                     THEN [open EXCEPT ![id] = snap.open + e.interval_ms]
                     ELSE open
        /\ UNCHANGED <<exp, to_remove>>
        /\ VisitDone

(* Stamp closed_count, wake its waiters, and re-arm a WaitCron. *)
FireEntry ==
    LET id == by_name[visiting]
        e  == entry[id]
    IN  /\ visiting # NoName
        /\ SnapOpen
        /\ Due(e)
        /\ closed' = [closed EXCEPT ![id] = Delivery(e)]
        /\ open' = IF e.tier = "WaitCron"
                     THEN [open EXCEPT ![id] = next_line(clock_now_ms, e.interval_ms)]
                     ELSE open
        /\ UNCHANGED <<exp, to_remove>>
        /\ VisitDone

(* Alive but Closed, Overrun, or not due yet. *)
SkipEntry ==
    /\ visiting # NoName
    /\ ~SnapDead
    /\ ~(SnapOpen /\ Due(entry[by_name[visiting]]))
    /\ UNCHANGED <<words, to_remove>>
    /\ VisitDone

RemoveDead ==
    /\ phase = "visit" /\ visiting = NoName /\ todo = {}
    /\ by_name' = [n \in AllNames |-> IF n \in to_remove THEN NoId ELSE by_name[n]]
    /\ to_remove' = {}
    /\ phase' = "refresh"
    /\ UNCHANGED <<now, entry, next_id, words, grants, clock_now_ms, now_ns, todo,
                   visiting, snap>>

(* Wake the clock's watchers and refresh_clock_expiration. *)
RefreshClock ==
    /\ phase = "refresh"
    /\ exp' = [exp EXCEPT ![ClockId] = LargerOf(exp[ClockId], now + CLOCK_TTL_NANOS)]
    /\ clock_now_ms' = 0 /\ now_ns' = 0
    /\ phase' = "poll"
    /\ UNCHANGED <<now, map, open, closed, grants, todo, visiting, snap, to_remove>>

DaemonStep ==
    \/ AdvanceClock \/ EvaluateAll
    \/ \E n \in Names : Visit(n)
    \/ ReapEntry \/ FireEntry \/ SkipEntry
    \/ RemoveDead \/ RefreshClock

(***************************************************************************)
(* Clients.  Each call is the atomic access by which it changes a word;    *)
(* the calls of a tier-0 handle also reach a region through an attached    *)
(* one.  Clients open, close and free only tier-0 interlocks they attach.  *)
(***************************************************************************)
Tier(i) == entry[i].tier
SharedPlain(i) == i \in held \cup attached /\ i # ClockId /\ Tier(i) = "Interlock"

Count(w, i, h) == w[i] = SENTINEL \/ w[i] + h <= MaxCount

Open(i, h) ==
    /\ SharedPlain(i) /\ Count(open, i, h)
    /\ open' = [open EXCEPT ![i] = WrapAdd(open[i], h)]
    /\ UNCHANGED <<now, map, closed, exp, grants, phase, pass>>

Close(i, h) ==
    /\ SharedPlain(i) /\ Count(closed, i, h)
    /\ closed' = [closed EXCEPT ![i] = WrapAdd(closed[i], h)]
    /\ UNCHANGED <<now, map, open, exp, grants, phase, pass>>

(* touch, the touch thread, and the arm inside the wait calls. *)
Touch(i, ttl) ==
    /\ i \in held
    /\ exp[i] # SENTINEL
    /\ exp' = [exp EXCEPT ![i] = LargerOf(exp[i], now + ttl)]
    /\ UNCHANGED <<now, map, open, closed, grants, phase, pass>>

Free(i) ==
    /\ i \in held
    /\ exp' = [exp EXCEPT ![i] = SENTINEL]
    /\ UNCHANGED <<now, map, open, closed, grants, phase, pass>>

AttachedFree(i) ==
    /\ i \in attached /\ SharedPlain(i)
    /\ open' = [open EXCEPT ![i] = SENTINEL]
    /\ UNCHANGED <<now, map, closed, exp, grants, phase, pass>>

(* WaitCounter::wait_until(target) and WaitTimer::wait_ms(ms): CAS-max of  *)
(* open_count.                                                             *)
RaiseTarget(i, target) ==
    /\ i \in held
    /\ target <= MaxCount
    /\ open' = [open EXCEPT ![i] = LargerOf(open[i], target)]
    /\ UNCHANGED <<now, map, closed, exp, grants, phase, pass>>

CounterTarget(i) == Tier(i) = "WaitCounter" /\ \E x \in Targets : RaiseTarget(i, x)
TimerTarget(i) ==
    Tier(i) = "WaitTimer" /\ \E ms \in Durations : RaiseTarget(i, open[ClockId] + ms)

ClientStep(i) ==
    \/ \E h \in Increments : Open(i, h) \/ Close(i, h)
    \/ \E ttl \in Ttls : Touch(i, ttl)
    \/ Free(i) \/ AttachedFree(i)
    \/ CounterTarget(i) \/ TimerTarget(i)

RequestStep ==
    \/ \E r \in Requests : CreateInterlock(r) \/ CreateFails(r)
    \/ \E n \in Names : AttachInterlock(n)

Next == Tick \/ RequestStep \/ DaemonStep \/ \E i \in Ids : ClientStep(i)

Spec == Init /\ [][Next]_vars

(* The daemon's loop never blocks: poll has a timeout of a millisecond and *)
(* everything after it is straight-line code.                              *)
FairSpec == Spec /\ WF_vars(DaemonStep)

(***************************************************************************)
(* Properties.                                                             *)
(***************************************************************************)

(* No region escapes: whatever the daemon ever allocated is in the map,    *)
(* where the sweep sees it, or is dead for good.  This covers names that   *)
(* are claimed again, creates whose fd never reached the client, and       *)
(* touches that race the reap.                                             *)
UnregisteredIsReaped ==
    \A i \in Allocated : (\E n \in AllNames : by_name[n] = i) \/ exp[i] = SENTINEL

(* What a waiter of a wait tier is told never goes backwards: the daemon   *)
(* stamps closed_count only with larger values, although it decides on     *)
(* words it loaded earlier and although a watched name may be re-created   *)
(* with smaller counts.                                                    *)
StampsOnlyGrow ==
    [][\A i \in Ids : i \in Allocated /\ Tier(i) # "Interlock"
                         => closed'[i] >= closed[i]]_vars

(* A timer whose counters tell its owner "delivered" has really run: the   *)
(* system clock has reached the target, also when the target was raised    *)
(* between the daemon's load and its stamp.                                *)
TimerNeverEarly ==
    \A i \in Allocated :
        /\ Tier(i) = "WaitTimer"
        /\ ~Terminated(open[i], closed[i], exp[i])
        /\ check_wake_state(open[i], closed[i]) # "Timeout"
        => open[ClockId] >= open[i]

(* A WaitCron is always armed for the grid line that follows its last      *)
(* delivery, however many lines the daemon was late for; and after a pass  *)
(* no registered one waits on a line that the pass's clock has reached.    *)
CronOnGrid ==
    \A i \in Allocated :
        Tier(i) = "WaitCron" /\ open[i] # SENTINEL =>
            /\ open[i] % entry[i].interval_ms = 0
            /\ closed[i] < open[i]
            /\ open[i] <= closed[i] + entry[i].interval_ms
            /\ phase = "refresh" /\ (\E n \in Names : by_name[n] = i) => open[i] > clock_now_ms

(* A lease that lapsed is renewed or reaped. *)
LapsedIsReaped ==
    \A i \in Ids \ {ClockId} :
        (i \in Allocated /\ exp[i] <= now) ~> (exp[i] > now)

(* A freed or reaped interlock leaves the map, so its name is free again.  *)
DeadIsRemoved ==
    \A n \in Names, i \in Ids :
        (by_name[n] = i /\ exp[i] = SENTINEL) ~> (by_name[n] # i)

(* A timer whose time has come is stamped, or dies, or gets a later target.*)
DueTimerDelivered ==
    \A i \in Ids :
        (i \in Allocated /\ Tier(i) = "WaitTimer" /\ open[i] <= now \div NANOS_PER_MS)
            ~> (closed[i] >= open[i] \/ open[i] > now \div NANOS_PER_MS)
=============================================================================

# Verification of abacus-rts

Abacus is a coordination daemon for soft-real-time processes on one machine. An
*interlock* is a memfd region of three 64-bit words (`open_count`,
`closed_count`, `expiration_ns`) mapped by the daemon, by the process that
created it and by processes that attached it by name. The words are changed by
plain atomics and waited on with futexes; the daemon only creates regions,
passes their file descriptors, and once per millisecond sweeps all of them:
reaps what is freed or lapsed, and stamps and wakes what is due. There is no
lock anywhere, so correctness is a matter of interleavings of single word
accesses, and, where a client and the daemon speak at all, of single system
calls on one socket. That is what this project models.

## Inventory

| Component | Source | State | Operations | Correct when |
|---|---|---|---|---|
| words and primitives | `abacus-core/src/interlock.rs` | three words | create, arm (CAS-max), reap, free, is_terminated | leases only grow, SENTINEL in the lease is final |
| clock, futex | `abacus-core/src/clock.rs` | CLOCK_MONOTONIC, sleepers | now, futex_wait (low 32 bits), futex_wake | no wakeup is lost |
| registry | `abacus-daemon/src/registry.rs` | name → entry, next id, the clock's region | create (validation, "Wildebeest" reap of the old holder of the name), attach, evaluate_all, refresh_clock_expiration | no region escapes the sweep; timers not early, crons on their grid; lapsed leases reaped |
| daemon loop | `abacus-daemon/src/daemon.rs` | connections, registry, clock | poll, accept, requests, removal, clock, sweep, wake, refresh | the cycle never blocks; who is open stays, who has closed goes |
| Interlock, AttachedInterlock | `abacus-client/src/interlock.rs` | a mapping, a touch thread | open, close, touch, wait_open, wait_close, free | a wait never returns early, is never stuck; a touch that returns Ok holds |
| touch thread | `abacus-client/src/touch.rs` | stop and reaped flags | loop of check, arm, sleep; stop and join | free and drop return |
| WaitTimer, WaitCounter, WaitCron, WaitBarrier | `abacus-client/src/wait_*.rs` | a mapping, a touch thread | wait_ms, wait_until, wait, touch, free | a delivery that is reported happened; nobody waits for ever; abort only if the daemon is dead |
| WaitRace | `abacus-client/src/wait_race.rs` | WaitCounters it owns | wait (1 ms polling) | the winner was delivered during the call |
| ProcessClock | `abacus-client/src/process_clock.rs` | a mapping, its own touch thread | new, touch loop, uptime, free | uptime is real; the beacon of a dead process is reaped |
| ClockHandle | `abacus-client/src/interlock.rs` | a read-only mapping of the clock | wait_open, wait_close | a wait never returns early; the death of the daemon is noticed |
| AttachedWaitCounter | `wait_counter.rs` | a read-only mapping | reads | (no state of its own) |
| client connection | `abacus-client/src/client.rs` | a blocking socket, the clock's handle | connect, create, attach, is_connected | every answer goes to the call that asked; calls return |
| transport | `abacus-daemon/src/transport.rs` | socket path, listener, partial frames | create (probe, remove, bind, listen), accept, frames, descriptors, Drop | a daemon in service is not displaced; a broken frame does not stop the loop |
| wire, errors | `abacus-daemon/src/wire.rs`, `abacus-core/src/error.rs` | none | encode, decode, codes | decode inverts encode on all that can be sent |

Interactions: clients and the daemon share the words (no messages after create
and attach); the daemon writes `closed_count` of a wait tier and `open_count` of
the clock; the owner raises `open_count` (its target) and the lease; a reap
writes all three words under the feet of everybody; futex calls connect
sleepers and writers of one word. A process may die at any point, after which
only the lease speaks for it. What is hard: word accesses of several threads in
any order; a reap half done; SENTINEL (`u64::MAX`), which compares as the
largest count; values loaded earlier in the sweep and used later; stamp, wake and
re-arm as three steps; time-outs racing late answers; blind stores after a reap;
answers left on a socket; `revents` that are stale when they are looked at; several
daemons at work on one path.
`PROJECT.json` lists these hazards at their lines.

## Modules

`Words` — the pure functions on words. `SENTINEL` and `FUTEX_MOD` are parameters:
TLC uses words of 3 to 5 bits, the proofs all widths. Addition wraps
(`WrapAdd`), `Value` is the signed difference, the futex sees
`value % FUTEX_MOD`.

`Interlock` — one tier-0 interlock; every atomic access and every futex call of
`open`, `close`, `touch`, `wait_open`, `wait_close`, both `free`s, the sweep's visit
and the claim of the name is a step. `pc[t]` is a thread's position inside its
call, `seen`, `target`, `deadline` are its locals, `dpc`, `dnow`, `dopen`, `dclosed`
the daemon's. `total` and `asked` are history variables (the sum of increments;
the deadline without wrap-around). `compare_exchange_weak` may fail spuriously.
`Increments`, `Targets` and `Ttls` give each thread the arguments of its calls, and `Casts` says
which threads are at work together: `Init` chooses one cast, the other threads are `"absent"`.

`Registry` — the daemon's cycle over the whole name map: `phase` is the position in
`daemon_run`, `visiting`, `snap`, `todo`, `to_remove` the locals of `evaluate_all`.
Each entry is visited in a load step and a decision step, in any order of the map;
clients act between all of these. A client call is the one access by which it
changes a word. Requests come from the set `Requests`; fd duplication and
allocation may fail.

`Lease` — the abstract specification of an interlock's life: its lease only grows,
the daemon condemns it only on evidence or for a claim of its name, and lets go of it
only when it is dead. `Interlock` and `WaitTier` both contain
`L == INSTANCE Lease WITH ...`; `marked` maps to a counter that is SENTINEL, `noted`
to the daemon having loaded such a counter in this visit, `phase` to the position in the
reap. A step that passes the verdict maps to `Condemn` or `Claim`, the store of the
lease in `interlock_reap` to `Reap`, a compare-exchange of `interlock_arm` to `Renew`.

`WaitTier` — one entry of a wait tier, access by access (`tier` is chosen in `Init`
from the constant `Tiers` and never changes): owner threads in the wait loops, the touch thread, free and drop, and the
daemon with its load, stamp, wake and re-arm steps. `watched` is the word the
entry watches; it counts, becomes SENTINEL, disappears and is created again.
`cycle` and `Punctual` restrict behaviours to those in which the daemon completes
a cycle at every instant. `MaxTime` and `MaxWaiters` are bounds per tier, given in
`MCWaitTier`. The fifth tier, `"Clock"`, is the clock itself: the daemon stores it
at the start of its cycle, wakes its watchers after the sweep and then renews its
lease; the waiters are threads in the waits of a ClockHandle, `on` is the counter they
wait on, and there is no owner and no touch thread.

`ProcessClock` — a ProcessClock from `new` to its end, with blind stores of
`open_count`, the daemon, and a watcher in `wait_open`. `WaitRace` — the polling loop,
load by load.

`Wire` — `encode_request`, `decode_request`, `encode_response`, `decode_response` as functions on
sequences of bytes, with the limits `MAX_MESSAGE_SIZE` and `STRING_MAX` (u16) as parameters; a result is
`Ok(value)` or `Fault(kind)`. A field that Rust has as an `Option` is a sequence of length
0 or 1. `Requests` is the set of requests the client's methods can build: names of any length, any
64-bit interval or threshold, any number of conditions, and with each tier the fields it has.

`Session` — one connection: the calls of the client (`c`), `handle_client_request` (`d`) and
the bytes between them (`c2d`, `d2c`). A write takes all bytes or `MaxWrite` of them, a read
what is there. The descriptor of an answer rides on its first byte, and the kernel may drop
it (MSG_CTRUNC). Either side may die at every step. What the registry answers is any
answer it can give. `asked`, `served`, `lost` are history variables. `SessionAssumption` says that the calls ask for members of `Requests` and
that the attach of the clock, which connect makes and whose payload has 9 bytes in the code, fits in a frame.

`Startup` — processes that run `Server::create` call by call on one path, and end by
returning or by being killed. `path` is what the path names; `seen[d]` (history) are the
daemons that were serving when `d` began. `Service` EXTENDS it with the event loop of each daemon and the
connections: `table` is `clients`, `polled` the `revents`, `removing` the `to_remove` of the
cycle; a request and its answer are one message each. A request whose answer cannot be encoded is
consumed and nothing is sent (`"mute"`). The probe of a starting daemon is a
connection in the backlog of the other.

Composition: `Service` contains `Startup` and abstracts from `Session` (bytes) and
`Registry` (what a request does); `Session` and `Registry` meet in `HandleRequest` and
`CreateInterlock`, which model the two halves of the same lines of `daemon.rs`;
`Interlock` and `WaitTier` take one entry of `Registry` and split its visit into accesses.

`MCInterlock`, `MCRegistry`, `MCWaitTier`, `MCSession`, `MCService` give TLC the request sets
and the symmetry of the waiters. `InterlockProofs`, `RegistryProofs`, `StartupProofs`, `ServiceProofs`,
`WaitTierProofs`, `WaitRaceProofs`, `ProcessClockProofs`, `SessionProofs` hold the theorems.
Definitions whose name has a suffix (`ArmCas_NoRetry`) are deliberately wrong
variants of the definition that follows them; no specification uses them. Each
property has been seen to fail when one of them replaces the right definition.

Data that is abstracted: names are strings from a two-element set; durations and
counts are small numbers; `NANOS_PER_MS` is 1 or 2 (2 where the rounding of the
clock matters); in `ProcessClock` it is 1. Reads that return without acting on the
state (`peek`, `value`, `state`) are not actions: the invariants speak of the words
they would read.

## Runs

Passing runs:

| Run | Properties | Question |
|---|---|---|
| interlock | WaitNeverEarly, NoLostWakeup, TouchExtends, LeaseKept, NoStuckWaiter | one owner thread and one attacher against the daemon, or two owner threads that touch with different ttls, of which one wraps late in time; 3-bit words, 2-bit futex; waits end even if the daemon or a waker stops for ever; all of it implements Lease |
| timers | UnregisteredIsReaped, TimerNeverEarly, CronOnGrid, LapsedIsReaped, DeadIsRemoved, DueTimerDelivered | timers and crons that take each other's name, a late daemon, and what the cycle gets done |
| watchers | StampsOnlyGrow | a counter or barrier that watches an interlock which counts, is touched, freed, reaped and wraps |
| wait_tiers | DeliveryIsReal, NoLostWakeup, DeadForGood, LeaseKept | the wait loops of the four tiers and of the clock; two threads in the wait of one timer, counter or clock, one in that of a cron or barrier and a later daemon; all of it implements Lease |
| wait_returns | TypeOK, TimedWaitEnds, HandleEnds, CronWaitReturns, BarrierWaitReturns, LapsedIsNoticed | the absolute deadline of a timer, the join of the touch thread, that a running daemon forgets no waiter of a cron or barrier, and that a dead one leaves nobody waiting on a lapsed lease |
| process_clock | TypeOK, UptimeIsReal, ReapIsFinal, WatchedTimeIsReal, ReapIsNoticed, DeadProcessIsReaped | blind stores against sweep, claim, death and a watcher; a beacon ends with its process, and a living process learns of its end |
| wait_race | WinnerIsReal, RaceReturns | two counters in any state, polled while the daemon stamps and reaps them |
| session | TypeOK, RequestIsUnderstood, AnswerIsMine, CallReturns, LoopContinues | connect and two calls of every kind on one socket, with names at the limits, short writes, deaths half-way and a lost descriptor |
| service | TypeOK, OpenIsHeld, NoTakeover, AskIsAnswered, ClosedIsRemoved | two daemons that start, crash and exit on one path, and two clients that connect, call and go |

Not repeated in the runs, because they are proved (below): `TypeOK` of Interlock, Registry and WaitRace;
ExpirationMonotone and DroppedIsDead, which LeaseKept implies; SeenIsSafe, on which NoTakeover rests.

Runs in which the code does not do what a document or comment says. The finding
in `PROJECT.json` quotes the line:

| Run | What happens |
|---|---|
| termination | after an attacher's `free`, `open(1)` wraps SENTINEL in `open_count` to 0 and the interlock lives again |
| reap_delivered | `wait_until` of a reaped WaitCounter returns `Ok` with state Normal and `u64::MAX` as the count |
| timer_aborts | `wait_until` of a past timestamp is `wait_ms(0)`: it raises `open_count` to the clock with the present as its deadline, and aborts the process unless the daemon stamps within those instructions, however healthy it is |

Further divergences met while modelling. They have no run of their own; the models
do what the code does, and the passing properties are stated so as to allow it:

- `abacus-core/src/interlock.rs:91`: `now + ttl` wraps in a release build for a huge
  ttl, and `touch` then returns Ok and extends nothing
  (`abacus-client/src/interlock.rs:44`: "Extend expiration to max(current, now + ms)").
  TouchExtends speaks of the touches whose sum fits, and shows that one that wraps harms none of them.
- `registry.rs:262`: the daemon compares an expiration it has loaded and reaps later, so a lease that had
  run out and is renewed in between, with Ok for the owner, is reaped all the same: a `wait_ms` on a lapsed
  timer is cut off (`CONTRACTS.md:159`, `SURFACE.md:164`: "cannot be reaped while legitimately
  waiting"). LeaseKept is what holds: no lease is condemned that had not run out when it was read.
- `LIFECYCLE.md:185` ("the next cycle reaps as Overrun") and `:227` ("reap on expired/overrun") contradict `:85`
  of the same file ("The daemon does not reap on overrun"), `CONTRACTS.md:139-143` and the code, which reaps only what is
  expired (`registry.rs:264-276`). LeaseKept holds of the code: being overrun is not among the evidence of `Condemn`.
- `registry.rs:335`: a watched interlock that is freed or just reaped reads SENTINEL,
  which is above every threshold, so a barrier fires (`wait_barrier.rs:2`: "Fires when
  all watched interlocks cross their respective thresholds").
- `registry.rs:303`: the watcher of a reaped interlock is stamped with SENTINEL as a
  count (`LIFECYCLE.md:294`: "watchers get InterlockReaped").
- `wait_cron.rs:57`: a late delivery is reported Normal once the daemon has re-armed
  (`:35`: "Overrun if the daemon was late"). DeliveryIsReal has the direction that holds.
- `registry.rs:313`: stamp and wake come before the re-arm, so `WaitCron::wait` may return
  between them (`SURFACE.md:252`: "On return, the daemon has already re-armed").
- `process_clock.rs:42`, `:124`: the store of `open_count` after a reap lets `wait_open`
  succeed on a dead beacon (`LIFECYCLE.md:317`: InterlockReaped).
- `wait_race.rs:51`: a race reports Timeout for a delivered counter that is being reaped
  (`SURFACE.md:122`: "daemon never delivered"). WinnerIsReal says that it is the only case.
- `wait_race.rs:47`: of two deliveries in one polling interval the lower index wins
  (`:10`: "the first to fire").
- `wait_cron.rs:76`, `wait_barrier.rs:65`: when the daemon dies, the touch thread of the waiting
  process keeps renewing the lease, so a waiter of a cron or a barrier never finds out (repository
  `README.md:17`: "every waiter discovers the restart through its own futex timeout").
  LapsedIsNoticed is what holds: a wait ends when the lease does, as that of the clock.
- `daemon.rs:220`: a "not found" answer whose text and name exceed a frame cannot be encoded; nothing is
  sent, and the client, whose socket has no time-out, waits for ever (`CONTRACTS.md:187`:
  InterlockNotFound). `Mute` in CallReturns and in AskIsAnswered.
- `client.rs:182`: after MSG_CTRUNC the rest of the prefix and the payload stay on the socket. Later calls take them for the
  prefix of their own answers, and fail or block, while `is_connected` stays true. `lost` in
  AnswerIsMine and CallReturns.
- `client.rs:552`: the `name` of `SdkError::InterlockNotFound` is the daemon's whole message
  ("InterlockNotFound: a"), not the name.
- `transport.rs:224`: the daemon spins, and serves nobody, for as long as a client that has sent
  part of a frame neither goes on nor closes.
- `transport.rs:34`, `:88`: two starts that find the same stale socket may both come to serve, the
  second having removed the socket of the first; and the Drop of a displaced daemon removes the socket of
  the other. NoTakeover is what holds: a daemon that is started on a path in service never does this.

Bounds. Words are so narrow that wrap-around, SENTINEL and the futex's truncation
(`FUTEX_MOD = 4` below a word of 8 values in the Interlock runs) are all met within a few
steps. `CounterBudget` stays below `FUTEX_MOD - 1`, which is the assumption in the
source that no realistic increment of 2^32 falls between a load and the system
call. `MaxTime` leaves room for a lease to lapse, be renewed and lapse again, and
for a daemon that is late by two grid lines. `MaxId = 2` allows a name to be
claimed again while the first region is still mapped, which is the only way two
regions of one name interact. In the watchers run it leaves no third region with which the watched name
could be created again while its watcher is registered: that case of StampsOnlyGrow is covered by its theorem, and the
watched word of `WaitTier` does disappear and return. `MaxCount` bounds watched counts; re-creation resets
them to 0. Two waiters suffice for the CAS-max races because a third thread meets
the same words. In wait_tiers the counter is studied with time standing still: its
loop never reads the time and looks only for SENTINEL, and its reaps come from free
and from claims of the name. In the interlock run a first cast has one thread of each kind, which make every call. In the second, two
threads of the owner touch one interlock, with ttls 1 and 2 or 6, and free it: the touches race each other, the sweep, the
free and the claim, and 2 + 6 is above SENTINEL and wraps. Other pairs of calls by threads of one kind are covered by the
theorems, which have any number of threads. In session a frame has at most 32 bytes and a string 40, so that names of 23 to 41 bytes meet
each limit from both sides and a text can be too long for its frame but not for a string; writes
of 3 bytes cut the 4-byte prefix and every field. Two calls after connect suffice for a left-over
of one call to meet the next. In service, two daemons are a
start on a path in use and a restart after a crash; with the probe, three connections can be in
one table, of which one stays while others go before and after it. `Watched` names the client and
the probe whose liveness is checked: the others are interchangeable with them.

Deadlock is checked except in the runs of Interlock, Session and Service: there time stops, the
registry may be empty and all threads idle with their budget spent, or the last call has
returned and the last daemon has ended.

Fairness. `NoStuckWaiter` and `RaceReturns`: only the waiting thread keeps running; nothing
is asked of the daemon or of wakers, since `futex_wait` has a time-out and the race
polls. `FairSpec` of WaitTier adds that time passes, that the touch thread runs (a sleep of
bounded length is the only thing it blocks on) and that the owner comes back from the
join; the daemon may stop (and LapsedIsNoticed has it die at any step). `CronWaitReturns` and `BarrierWaitReturns` cannot hold without
a daemon, and have `DaemonRuns` (it begins and ends cycles for ever) as their hypothesis.
`FairSpec` of Registry and `LiveSpec` of ProcessClock ask for the daemon's cycle: `poll` has a
time-out of 1 ms and the rest is straight-line code. `FairSpec` of Session asks that a call, once begun, and the daemon's loop
run on; both block on nothing but the other's bytes. `FairSpec` of Service asks the same of the
loop, of a start once begun and of a client that reads; `accept` may fail, as for want of
descriptors, but not at every try (SF): else a connection would wait in the backlog for ever. No
fairness is put on the start of any call, on exits or on crashes.

## Proofs

TLAPS checks the theorems below for all widths of words, all numbers of threads,
clients, daemons and names, and all argument sets allowed by the `ASSUME`s. Every inductive invariant was
first checked by TLC on the instance of the run.

`InterlockProofs`
- `TypeCorrect`: `TypeOK`.
- `LeaseOnlyGrows`: no step lowers the expiration. `ArmCas` needs that the value it
  stores is at least the one it compared; stores of SENTINEL are maximal.
- `DroppedIsDeadAlways`: by `ReapInv`, which follows the daemon through the stores of
  the reap: past the store of the lease it is SENTINEL, and a touch that loaded an
  older value fails its compare-exchange.
- `WaitNeverEarlyAlways`, `NoLostWakeupAlways`: neither is inductive. `WaitInv` adds that a
  counter is SENTINEL or at most the sum of the increments so far, also after it has
  wrapped (`CountSound`), that the same holds of what a thread about to sleep has
  loaded (`SeenSound`), and that only an idle thread has a result (`DoneIdle`). `CounterBudget < FUTEX_MOD - 1` makes equality of low halves equality of
  words, so a sleeper whose counter changed has a wake pending.
- `TouchExtendsAlways`: a touch that returned Ok left at least the lease it was asked for, if that is
  a word (see the divergences above), whatever other touches do, also those that wrap. `TouchInv` says that the
  deadline of a running touch is the one asked for if that fits, and that the lease is not below it once the touch
  has returned.

- `LeaseKeptAlways`: `Spec => LeaseKept`, that is, Interlock implements Lease. Every step of a
  thread is a `Renew`, a `Mark` or a stutter (`ThreadLease`), every step of the daemon one of the
  daemon's actions there (`DaemonLease`). It needs `VisitInv`: the time the daemon compares with was read
  earlier in the pass, so a lease that is over by it is over now, and its loaded counters are 0
  outside the visit.

`RegistryProofs`
- `RegistryTypeCorrect`: `TypeOK`, together with `MapInv` (the map names allocated
  regions, each under one name), `SweepInv` (the locals of the pass agree with the phase)
  and `EntryInv` (entries passed validation).
- `NoRegionEscapes`: every region ever allocated is in the map or has SENTINEL as its
  lease. `DeadInv` adds that names in `to_remove` are already reaped.
- `TimerNeverEarlyAlways`, `CronOnGridAlways`, `StampsOnlyGrowAlways` (an action property), all from `TimeInv`. The daemon
  decides on words it loaded earlier, so `SnapInv` says what of its snapshot is still true when it stores: the stamp, which only the
  daemon writes, and a target that clients have raised at most. `StampInv`: no timer or cron was stamped with a time the clock has not
  shown, the clock of the pass being the published one (`ClockInv`). `BoundInv`: counts are below the sign bit or SENTINEL, so that the
  signed difference decides as it should. `GridInv`: a cron is armed for the line after its stamp. `PassInv`: what this pass is through
  with is armed beyond the clock of the pass. That a late daemon computes the right line is `NextLineGrid`, a fact about `\div`
  alone. StampsOnlyGrow covers the watched name that is created again with smaller counts: the
  decision compares with the stamp, not with what the name had before.

`StartupProofs`, for any number of daemons
- `SeenIsSafeAlways`, `NoTakeoverAlways`: by `SeenHasBound`, which is needed to exclude that a daemon which was seen in
  service serves a second time behind the back of a start that has passed its probe: a
  process binds once.
- `StartTypeCorrect`, and `ServiceStarts`: every behaviour of Service is one of Startup, so the two
  theorems hold of the daemons with their loops and connections.

`ServiceProofs`, for any number of daemons, clients and requests (at least one each: connect attaches the clock)
- `TypeAlways`, `OpenIsHeldAlways`, from `ServiceInv`. OpenIsHeld is far from inductive: an entry is
  dropped by its index, so the invariant must say what the indices stand for. `LoopInv`: an index in `to_remove`, or one whose
  `revents` say hangup, is below the length of the polled snapshot and its entry, which accepts have only appended to, was closed by
  its client. `PlaceInv`: a held connection is in one place, that of the daemon it was made to.
  `LinkInv`: nobody is connected to a daemon that has not listened yet (so none can be open and not held when it begins to), and a
  daemon probes once. Closed is for good (`OnwardNext`).
- `WithoutRemains`: removing the indices from the back leaves all entries that were not to go, and no other. This is an
  induction along the table. The library's induction theorems take an operator as a parameter, which the provers cannot instantiate;
  `LeastElement` (a non-empty set of numbers has a least element) gives the same by way of the least counterexample, once
  to show that the recursion in `Without` has a solution, and once for what it is.

`WaitTierProofs`, for any set of tiers, any number of threads and any bounds on time and counts
- `TypeAlways`: with `BudgetInv`, that the time to live of a wait under way fits; a lease or deadline is a word
  only because of it.
- `DeadForGoodAlways`: from `LifeInv`. `DaemonInv` says what the daemon knows at each of its positions, `ReapInv` which
  words are SENTINEL after each store of a reap, and `TargetInv` that a CAS-max compares with a value below its target: it can never
  replace SENTINEL.
- `LeaseKeptAlways`: WaitTier implements Lease, the clock's tier too. As in Interlock, each thread's step is a `Renew` or a stutter
  and each of the daemon's one of the daemon's actions there.
- `DeliveryIsRealAlways`: from `TruthInv`: the words a thread has loaded were true when it loaded them and what they say only grows
  (`EnvInv`, `StampInv`), each position belongs to certain tiers (`PlaceInv`), and `CronInv`, which follows a cron
  through stamp, wake and re-arm: a waiter that has seen a stamp above its initial one compares it with a target
  which is the line it waited for or, the re-arm being done, a later one.
- `SleepersAreWoken`: a thread asleep on a word whose low half has changed has a wake on its way (`WakeInv`), with no
  assumption. `NoLostWakeupAlways` says it of the whole word, and assumes `FutexTells`: counts and milliseconds stay
  below the range of the half word the futex compares (2^32: 49 days of milliseconds between the load and the system call;
  the run has 5 below 31). Without it the statement is false of the code, which compares 32 bits.

`ProcessClockProofs`
- `TypeAlways`, `ReapIsFinalAlways` (`ReapInv`: between the last store of a reap and the next poll the lease is gone; the blind stores of
  the touch thread do not reach that word).
- `UptimeIsRealAlways`, `WatchedTimeIsRealAlways`: from `BeaconInv`, which says of every value a thread is about to store in
  `open_count` that the clock had it, not before the start.

`WaitRaceProofs`, for any number of counters
- `RaceTypeCorrect`: `TypeOK`, together with `LoopInv`.
- `WinnerIsRealAlways`: WinnerIsReal is not inductive. `SnapInv` says that a count which differs from the
  snapshot was stored in this call, counter by counter as the snapshot is taken; `StampInv` that what
  was stored is not below a target that still stands; `PeekInv` that the first load of a peek is still
  true, or the counter is being reaped.

`SessionProofs`, for every `MAX_MESSAGE_SIZE` and `STRING_MAX`, every sequence of calls, every `MaxWrite` and the
texts of the daemon
- `RequestRoundTrip`: what `encode_request` accepts, the daemon reads back: the prefix is within the limit and is the length of the
  payload, and `decode_request` of the payload is the request, with all its names, numbers and conditions. The format is built by
  recursion over bytes and conditions. The library's induction theorems take an operator, which the provers cannot
  instantiate; `Induction` has a set in its place and is proved from the least counterexample. Each recursive
  function is first shown to exist, then its value is found: integers (`to_le_bytes` and back), strings,
  the conditions of a barrier one behind the other, tiers, frames.
- `RequestsUnderstood`: from `Connection`. RequestIsUnderstood speaks of what was decoded, so the invariant must follow every
  byte: `Stream` lays all frames the client began end to end, and says that what the daemon has read of a frame, what is on its way and
  what the client has left to write follow each other in that stream, from the end of the last frame decoded. A read or a write
  then only moves a border, and a whole payload is cut out at the place where its frame lies. `Ends` says which fields
  belong to which position of either side, `History` what was asked and answered. When the daemon dies or
  drops the connection nothing is decoded any more, and `Stream` asks nothing.
- `SessionTypes`: with `Spaced`, descriptors lie at least a prefix apart in the answers on their way, so the `recvmsg` of
  one prefix meets at most one, also when a lost descriptor has left several answers on the socket; and with `InStep` for the
  one frame on its way to the daemon, which holds only until then: a call that loses its descriptor returns without reading its
  answer, so more than one request may be waiting.
- `AnswersAreMine`: from `InStep`: unless a descriptor was lost, at most one request is unanswered; no answer is on its way
  between calls; and what the client has read of an answer, what is on its way and what the daemon has left to write
  follow each other in the frame of the last answer, cut short only if the daemon died.

Only model-checked: all liveness properties (the prover has no rules for fairness and
`ENABLED`).

## Not modelled

`main.rs`, which reads the socket path from its arguments; the test crate; AttachedWaitCounter, which only
reads words. An `attach_interlock` of the name of a wait tier, whose holder can then count on, touch and free
what the daemon stamps (`CONTRACTS.md:217` calls it a known limitation): in `Registry` only entries of tier 0 are
shared (`SharedPlain`), and `WaitTier` has no attacher. Of the transport: `set_timeouts` and the `recv_response` of the daemon's crate, which nothing
in the daemon calls; a write that would block because the client's buffer is full (an answer
has at most 4 KiB and there is one per request, below any socket buffer); a failing `set_nonblocking` of an accepted
connection; a `poll` that a signal ends, after which the cycle runs with no events and polls
again. In the runs, numbers above 2^17 in requests (the proofs have all 64-bit numbers). Strings that are not ASCII: a
byte above 127 in a name is InvalidUtf8. Memory orderings: all accesses of one
word are Acquire/Release and each property about two words is also checked with the
loads in program order as separate steps, but a weak-memory execution in which stores
to different words are seen in different orders by different threads is outside the
model.

## Plan

1. A timed heartbeat (touch every interval, lease of two intervals, a daemon that is late by a
   bounded amount), which decides how late a touch may come before a reap.
2. A *Delivery* (asked, due, delivered once or dead) as the abstract specification of the wait
   tiers, beside Lease.

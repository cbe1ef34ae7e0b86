----------------------------- MODULE Interlock -----------------------------
(***************************************************************************)
(* One tier-0 interlock: a region of three shared words mapped by the      *)
(* daemon, by the threads of the process that owns it and by the threads   *)
(* of processes that attached it by name.  Every atomic access to a word   *)
(* and every futex call is a step of its own, so all interleavings of the  *)
(* calls below are explored:                                               *)
(*                                                                         *)
(*   owner     open, close, touch (also the touch thread's only call),     *)
(*             wait_open, wait_close, free                                 *)
(*   attacher  open, close, wait_open, wait_close, free                    *)
(*   daemon    the sweep's visit of this entry, and the reap that a second *)
(*             create request under the same name performs                 *)
(*                                                                         *)
(* A process that dies simply takes no further step; Spec promises none.   *)
(***************************************************************************)
EXTENDS Words

CONSTANTS Owners,              \* threads holding the owner's handle
          Attachers,           \* threads holding an attached handle
          Casts,               \* the sets of threads that may be at work together
          Increments,          \* arguments of each thread's open and close
          Targets,             \* arguments of its wait_open and wait_close
          Ttls,                \* arguments of its touch, in nanoseconds
          CREATION_TTL_NANOS,  \* lease given at creation
          MaxTime,             \* bound: the clock stops here
          CounterBudget        \* bound: sum of the increments of one word

Threads == Owners \cup Attachers
Waiters == {t \in Threads : Targets[t] # {}}
Counts  == {"open", "closed"}

ASSUME InterlockAssumption ==
    /\ Owners \cap Attachers = {}
    /\ Casts \subseteq SUBSET Threads
    /\ Increments \in [Threads -> SUBSET Nat]
    /\ Targets \in [Threads -> SUBSET Word]
    /\ Ttls \in [Threads -> SUBSET Word]
    /\ CREATION_TTL_NANOS \in Nat /\ CREATION_TTL_NANOS < SENTINEL
    /\ MaxTime \in Nat /\ MaxTime < SENTINEL
    /\ CounterBudget \in Nat /\ CounterBudget < FUTEX_MOD - 1

VARIABLES
    word,        \* open_count and closed_count
    exp,         \* expiration_ns
    now,         \* CLOCK_MONOTONIC, one step per distinguishable instant
    registered,  \* the registry's map has the entry
    dpc, dnow, dopen, dclosed,   \* the daemon's position and its locals
    pc,          \* position of each thread inside its current call
    wword,       \* the counter that call works on
    target,      \* argument of wait_open / wait_close
    seen,        \* the word the call loaded last
    deadline,    \* interlock_arm's deadline
    asked,       \* history: the same deadline without the wrap at 2^64
    done,        \* how the last call of the thread ended
    total        \* history: sum of the increments of each counter

shared == <<word, exp>>
daemon == <<registered, dpc, dnow, dopen, dclosed>>
locals == <<wword, target, seen, deadline, asked>>
vars == <<word, exp, now, registered, dpc, dnow, dopen, dclosed, pc, wword,
          target, seen, deadline, asked, done, total>>

WaitPcs  == {"waitLoad", "futex", "asleep", "waitExp", "waitNow"}
FreePcs  == {"freeWakeOpen", "freeWakeClosed"}
ArmPcs   == {"armLoad", "armCas"}
ReapPcs  == {"stampOpen", "stampClosed", "stampExp", "wakeOpen", "wakeClosed"}

TypeOK ==
    /\ word \in [Counts -> Word]
    /\ exp \in Word
    /\ now \in 0 .. MaxTime
    /\ registered \in BOOLEAN
    /\ dpc \in {"idle", "loadOpen", "loadClosed", "loadExp", "drop"} \cup ReapPcs
    /\ dnow \in 0 .. MaxTime /\ dopen \in Word /\ dclosed \in Word
    /\ pc \in [Threads -> {"absent", "idle", "wake"} \cup WaitPcs \cup FreePcs \cup ArmPcs]
    /\ wword \in [Threads -> Counts]
    /\ target \in [Threads -> Word]
    /\ seen \in [Threads -> Word]
    /\ deadline \in [Threads -> Word]
    /\ done \in [Threads -> {"none", "waitOk", "touchOk", "reaped"}]
    /\ total \in [Counts -> 0 .. CounterBudget]
    /\ asked \in [Threads -> Nat]

(* interlock_create, once registry.create has inserted the entry.  A thread *)
(* that is not in the cast never makes a call.                              *)
Init ==
    /\ word = [c \in Counts |-> 0]
    /\ exp = CREATION_TTL_NANOS
    /\ now = 0
    /\ registered = TRUE
    /\ dpc = "idle" /\ dnow = 0 /\ dopen = 0 /\ dclosed = 0
    /\ \E cast \in Casts : pc = [t \in Threads |-> IF t \in cast THEN "idle" ELSE "absent"]
    /\ wword = [t \in Threads |-> "open"]
    /\ target = [t \in Threads |-> 0]
    /\ seen = [t \in Threads |-> 0]
    /\ deadline = [t \in Threads |-> 0]
    /\ done = [t \in Threads |-> "none"]
    /\ total = [c \in Counts |-> 0]
    /\ asked = [t \in Threads |-> 0]

Tick ==
    /\ now < MaxTime
    /\ now' = now + 1
    /\ UNCHANGED <<shared, daemon, pc, locals, done, total>>

(***************************************************************************)
(* Client threads.                                                         *)
(***************************************************************************)

(* No call on a handle starts during free(&mut self) of that handle. *)
MayCall(t) ==
    /\ pc[t] = "idle"
    /\ t \in Owners => \A o \in Owners : pc[o] \notin FreePcs

(* futex_wake(word): every thread asleep on that counter resumes. *)
Woken(c) == {t \in Threads : pc[t] = "asleep" /\ wword[t] = c}
AfterWake(c, p) == [t \in Threads |-> IF t \in Woken(c) THEN "waitExp" ELSE p[t]]

Goto(t, label) == pc' = [pc EXCEPT ![t] = label]

(* A call starts with locals of its own. *)
Begin(t, label, c, x, d, a) ==
    /\ Goto(t, label)
    /\ wword' = [wword EXCEPT ![t] = c]
    /\ target' = [target EXCEPT ![t] = x]
    /\ seen' = [seen EXCEPT ![t] = 0]
    /\ deadline' = [deadline EXCEPT ![t] = d]
    /\ asked' = [asked EXCEPT ![t] = a]
    /\ done' = [done EXCEPT ![t] = "none"]

Return(t, outcome) ==
    /\ Goto(t, "idle")
    /\ done' = [done EXCEPT ![t] = outcome]

(* open(h) and close(h): the fetch_add ... *)
FetchAdd(t) ==
    /\ MayCall(t)
    /\ \E c \in Counts, h \in Increments[t] :
          /\ total[c] + h <= CounterBudget
          /\ word' = [word EXCEPT ![c] = WrapAdd(word[c], h)]
          /\ total' = [total EXCEPT ![c] = total[c] + h]
          /\ Begin(t, "wake", c, 0, 0, 0)
    /\ UNCHANGED <<exp, now, daemon>>

(* ... and the futex_wake that follows it. *)
Wake(t) ==
    /\ pc[t] = "wake"
    /\ pc' = AfterWake(wword[t], [pc EXCEPT ![t] = "idle"])
    /\ UNCHANGED <<shared, now, daemon, locals, done, total>>

(* touch(ms) and the touch thread: interlock_arm reads the clock once ... *)
ArmStart(t) ==
    /\ t \in Owners
    /\ MayCall(t)
    /\ \E ttl \in Ttls[t] :
          Begin(t, "armLoad", "open", 0, WrapAdd(now, ttl), now + ttl)
    /\ UNCHANGED <<shared, now, daemon, total>>

(* ... loads the expiration, at the head of its loop ... *)
ArmLoad(t) ==
    /\ pc[t] = "armLoad"
    /\ seen' = [seen EXCEPT ![t] = exp]
    /\ \/ exp = SENTINEL /\ Return(t, "reaped")
       \/ exp # SENTINEL /\ deadline[t] <= exp /\ Return(t, "touchOk")
       \/ exp # SENTINEL /\ deadline[t] > exp /\ Goto(t, "armCas") /\ UNCHANGED done
    /\ UNCHANGED <<shared, now, daemon, wword, target, deadline, asked, total>>

(* Mutant: a failed compare-exchange is taken for another touch's success. *)
ArmCas_NoRetry(t) ==
    /\ pc[t] = "armCas"
    /\ \/ exp = seen[t] /\ exp' = LargerOf(seen[t], deadline[t])
       \/ UNCHANGED exp
    /\ Return(t, "touchOk")
    /\ UNCHANGED <<word, now, daemon, locals, total>>

(* ... and tries to raise it.  compare_exchange_weak may fail spuriously. *)
ArmCas(t) ==
    /\ pc[t] = "armCas"
    /\ \/ /\ exp = seen[t]
          /\ exp' = LargerOf(seen[t], deadline[t])
          /\ Return(t, "touchOk")
       \/ Goto(t, "armLoad") /\ UNCHANGED <<exp, done>>
    /\ UNCHANGED <<word, now, daemon, locals, total>>

(* Interlock::free needs &mut self: no other owner thread is in a call and *)
(* the touch thread has been stopped and joined.  interlock_free then      *)
(* stores the expiration and wakes both counters.                          *)
OwnerFree(t) ==
    /\ t \in Owners
    /\ pc[t] = "idle" /\ \A o \in Owners : pc[o] \in {"idle", "absent"}
    /\ exp' = SENTINEL
    /\ Begin(t, "freeWakeOpen", "open", 0, 0, 0)
    /\ UNCHANGED <<word, now, daemon, total>>

(* AttachedInterlock::free may not write the expiration: it terminates the *)
(* interlock through open_count.                                           *)
AttacherFree(t) ==
    /\ t \in Attachers
    /\ MayCall(t)
    /\ word' = [word EXCEPT !["open"] = SENTINEL]
    /\ Begin(t, "freeWakeOpen", "open", 0, 0, 0)
    /\ UNCHANGED <<exp, now, daemon, total>>

FreeWake(t) ==
    /\ \/ /\ pc[t] = "freeWakeOpen"
          /\ pc' = AfterWake("open", [pc EXCEPT ![t] = "freeWakeClosed"])
       \/ /\ pc[t] = "freeWakeClosed"
          /\ pc' = AfterWake("closed", [pc EXCEPT ![t] = "idle"])
    /\ UNCHANGED <<shared, now, daemon, locals, done, total>>

(* wait_open(target) and wait_close(target). *)
WaitStart(t) ==
    /\ MayCall(t)
    /\ \E c \in Counts, x \in Targets[t] : Begin(t, "waitLoad", c, x, 0, 0)
    /\ UNCHANGED <<shared, now, daemon, total>>

(* Mutant: the target is compared before SENTINEL is. *)
WaitLoad_NoSentinel(t) ==
    LET current == word[wword[t]] IN
    /\ pc[t] = "waitLoad"
    /\ seen' = [seen EXCEPT ![t] = current]
    /\ \/ current >= target[t] /\ Return(t, "waitOk")
       \/ current < target[t] /\ Goto(t, "futex") /\ UNCHANGED done
    /\ UNCHANGED <<shared, now, daemon, wword, target, deadline, asked, total>>

(* Head of the loop: load the counter and decide. *)
WaitLoad(t) ==
    LET current == word[wword[t]] IN
    /\ pc[t] = "waitLoad"
    /\ seen' = [seen EXCEPT ![t] = current]
    /\ \/ current = SENTINEL /\ Return(t, "reaped")
       \/ current # SENTINEL /\ current >= target[t] /\ Return(t, "waitOk")
       \/ current < target[t] /\ Goto(t, "futex") /\ UNCHANGED done
    /\ UNCHANGED <<shared, now, daemon, wword, target, deadline, asked, total>>

(* Mutant: the wait passes the present value as the expected one. *)
FutexWait_NoCompare(t) ==
    /\ pc[t] = "futex"
    /\ Goto(t, "asleep")
    /\ UNCHANGED <<shared, now, daemon, locals, done, total>>

(* futex_wait: the kernel compares the low half of the counter with the    *)
(* value loaded above and either queues the thread or returns EAGAIN.      *)
FutexWait(t) ==
    /\ pc[t] = "futex"
    /\ Goto(t, IF futex_word(word[wword[t]]) = futex_word(seen[t])
                 THEN "asleep" ELSE "waitExp")
    /\ UNCHANGED <<shared, now, daemon, locals, done, total>>

(* ETIMEDOUT after DEFAULT_TIMEOUT_NANOS, or EINTR. *)
FutexTimeout(t) ==
    /\ pc[t] = "asleep"
    /\ Goto(t, "waitExp")
    /\ UNCHANGED <<shared, now, daemon, locals, done, total>>

(* Foot of the loop: load the expiration ... *)
WaitExp(t) ==
    /\ pc[t] = "waitExp"
    /\ seen' = [seen EXCEPT ![t] = exp]
    /\ Goto(t, "waitNow")
    /\ UNCHANGED <<shared, now, daemon, wword, target, deadline, asked, done, total>>

(* Mutant: only a termination ends the wait, a lapsed lease does not. *)
WaitNow_SentinelOnly(t) ==
    /\ pc[t] = "waitNow"
    /\ \/ seen[t] = SENTINEL /\ Return(t, "reaped")
       \/ seen[t] # SENTINEL /\ Goto(t, "waitLoad") /\ UNCHANGED done
    /\ UNCHANGED <<shared, now, daemon, locals, total>>

(* ... then read the clock: a lease that was renewed in between is judged  *)
(* by the old value.                                                       *)
WaitNow(t) ==
    /\ pc[t] = "waitNow"
    /\ \/ (seen[t] = SENTINEL \/ seen[t] < now) /\ Return(t, "reaped")
       \/ seen[t] # SENTINEL /\ seen[t] >= now /\ Goto(t, "waitLoad") /\ UNCHANGED done
    /\ UNCHANGED <<shared, now, daemon, locals, total>>

(***************************************************************************)
(* The daemon.                                                             *)
(***************************************************************************)

DaemonGoto(label) == dpc' = label

(* evaluate_all samples the clock once for the whole pass ... *)
EvalStart ==
    /\ dpc = "idle" /\ registered
    /\ dnow' = now
    /\ DaemonGoto("loadOpen")
    /\ UNCHANGED <<shared, now, registered, dopen, dclosed, pc, locals, done, total>>

(* ... and loads the three words of the entry one after the other. *)
EvalLoadOpen ==
    /\ dpc = "loadOpen"
    /\ dopen' = word["open"]
    /\ DaemonGoto("loadClosed")
    /\ UNCHANGED <<shared, now, registered, dnow, dclosed, pc, locals, done, total>>

EvalLoadClosed ==
    /\ dpc = "loadClosed"
    /\ dclosed' = word["closed"]
    /\ DaemonGoto("loadExp")
    /\ UNCHANGED <<shared, now, registered, dnow, dopen, pc, locals, done, total>>

(* With the last load the fate of the entry is decided; a tier-0 entry has *)
(* no wait contract to evaluate.  The locals go out of scope.              *)
EvalLoadExp ==
    /\ dpc = "loadExp"
    /\ DaemonGoto(IF Terminated(dopen, dclosed, exp) \/ ~expiration_alive(exp, dnow)
                    THEN "stampOpen" ELSE "idle")
    /\ dnow' = 0 /\ dopen' = 0 /\ dclosed' = 0
    /\ UNCHANGED <<shared, now, registered, pc, locals, done, total>>

(* Wildebeest Mode: create finds the name taken, takes the entry out of    *)
(* the map and reaps it.                                                   *)
Claim ==
    /\ dpc = "idle" /\ registered
    /\ registered' = FALSE
    /\ DaemonGoto("stampOpen")
    /\ UNCHANGED <<shared, now, dnow, dopen, dclosed, pc, locals, done, total>>

(* Mutant: the reap leaves the expiration to the owner. *)
ReapStore_NoExp ==
    /\ \/ /\ dpc = "stampOpen" /\ DaemonGoto("stampClosed")
          /\ word' = [word EXCEPT !["open"] = SENTINEL]
       \/ /\ dpc = "stampClosed" /\ DaemonGoto("stampExp")
          /\ word' = [word EXCEPT !["closed"] = SENTINEL]
       \/ /\ dpc = "stampExp" /\ DaemonGoto("wakeOpen") /\ UNCHANGED word
    /\ UNCHANGED <<exp, now, registered, dnow, dopen, dclosed, pc, locals, done, total>>

(* interlock_reap: three stores, in this order ... *)
ReapStore ==
    /\ \/ /\ dpc = "stampOpen" /\ DaemonGoto("stampClosed")
          /\ word' = [word EXCEPT !["open"] = SENTINEL] /\ UNCHANGED exp
       \/ /\ dpc = "stampClosed" /\ DaemonGoto("stampExp")
          /\ word' = [word EXCEPT !["closed"] = SENTINEL] /\ UNCHANGED exp
       \/ /\ dpc = "stampExp" /\ DaemonGoto("wakeOpen")
          /\ exp' = SENTINEL /\ UNCHANGED word
    /\ UNCHANGED <<now, registered, dnow, dopen, dclosed, pc, locals, done, total>>

(* ... then a wake on each counter. *)
ReapWake ==
    /\ \/ /\ dpc = "wakeOpen" /\ DaemonGoto("wakeClosed")
          /\ pc' = AfterWake("open", pc)
       \/ /\ dpc = "wakeClosed" /\ DaemonGoto("drop")
          /\ pc' = AfterWake("closed", pc)
    /\ UNCHANGED <<shared, now, registered, dnow, dopen, dclosed, locals, done, total>>

(* The end of the pass removes what it reaped; after Claim there is        *)
(* nothing left to remove.                                                 *)
Drop ==
    /\ dpc = "drop"
    /\ registered' = FALSE
    /\ DaemonGoto("idle")
    /\ UNCHANGED <<shared, now, dnow, dopen, dclosed, pc, locals, done, total>>

WaitStep(t) == WaitLoad(t) \/ FutexWait(t) \/ FutexTimeout(t)
               \/ WaitExp(t) \/ WaitNow(t)

ThreadStep(t) ==
    \/ FetchAdd(t) \/ Wake(t)
    \/ ArmStart(t) \/ ArmLoad(t) \/ ArmCas(t)
    \/ OwnerFree(t) \/ AttacherFree(t) \/ FreeWake(t)
    \/ WaitStart(t) \/ WaitStep(t)

DaemonStep ==
    \/ EvalStart \/ EvalLoadOpen \/ EvalLoadClosed \/ EvalLoadExp
    \/ Claim \/ ReapStore \/ ReapWake \/ Drop

Next == Tick \/ DaemonStep \/ \E t \in Threads : ThreadStep(t)

Spec == Init /\ [][Next]_vars

(* A thread inside a wait keeps running, and its futex call has a timeout. *)
(* Nothing is promised by anyone else: the daemon, the owner or a thread   *)
(* between its store and its wake may stop for ever.                       *)
FairSpec == Spec /\ \A t \in Waiters : WF_vars(WaitStep(t))

(***************************************************************************)
(* Properties.                                                             *)
(***************************************************************************)

(* The lease only ever grows, up to SENTINEL, which it never leaves: a     *)
(* touch racing a free or a reap cannot bring the expiration back.         *)
(* (interlock_arm's compare-exchange; CONTRACTS.md "Never decrements".)    *)
ExpirationMonotone == [][exp' >= exp]_vars

(* A wait that returned Ok reports a count that was really reached: at     *)
(* least its target, at most the sum of all increments so far, and never   *)
(* the SENTINEL that a reap or an attacher's free wrote into the counter.  *)
WaitNeverEarly ==
    \A t \in Threads : done[t] = "waitOk" =>
        /\ target[t] <= seen[t]
        /\ seen[t] # SENTINEL
        /\ seen[t] <= total[wword[t]]

WakePending(c) ==
    \/ \E u \in Threads : pc[u] = "wake" /\ wword[u] = c
    \/ c = "open" /\ \E u \in Threads : pc[u] = "freeWakeOpen"
    \/ c = "open" /\ dpc \in {"stampClosed", "stampExp", "wakeOpen"}
    \/ c = "closed" /\ dpc \in {"stampExp", "wakeOpen", "wakeClosed"}

(* No lost wakeup: a thread asleep in futex_wait on a counter that is no   *)
(* longer what it loaded has a futex_wake on its way, from whoever changed *)
(* the counter, although the load, the queueing, the store and the wake    *)
(* are four separate steps.                                                *)
NoLostWakeup ==
    \A t \in Threads :
        pc[t] = "asleep" /\ word[wword[t]] # seen[t] => WakePending(wword[t])

(* Once the daemon has dropped the entry from its map the region is dead   *)
(* for good: no touch that was under way during the reap keeps a lease on  *)
(* memory that nobody will sweep again.                                    *)
DroppedIsDead == ~registered /\ dpc = "idle" => exp = SENTINEL

(* A touch that returned Ok has really extended the lease to now + ttl, if *)
(* that is a u64, and no touch, free or reap since has shortened it again: *)
(* not a later touch with a shorter ttl, nor one whose now + ttl wrapped.  *)
(* (A touch whose own sum wraps returns Ok and may have extended nothing.) *)
TouchExtends ==
    \A t \in Threads :
        done[t] = "touchOk" /\ asked[t] <= SENTINEL => exp >= asked[t]

(* CONTRACTS.md, "Termination": once one word reads SENTINEL, the          *)
(* interlock is dead.  An attacher's free writes open_count only, and the  *)
(* next open(h) adds to it.                                                *)
TerminationIrreversible ==
    [][Terminated(word["open"], word["closed"], exp)
         => Terminated(word'["open"], word'["closed"], exp')]_vars

(* Every waiter is released, by its own timeout if need be, once its       *)
(* counter stays at the target or the lease stays lapsed or terminated --  *)
(* even when the daemon and the owner have both stopped.                   *)
NoStuckWaiter ==
    \A t \in Waiters :
        /\ <>[](word[wword[t]] >= target[t]) => []<>(pc[t] \notin WaitPcs)
        /\ <>[](exp = SENTINEL \/ exp < now) => []<>(pc[t] \notin WaitPcs)

(* The daemon's dealings with the entry; its verdict stands between the    *)
(* load of the expiration and the stores of the reap.                      *)
Phase ==
    CASE dpc \in {"stampOpen", "stampClosed", "stampExp"} -> "condemned"
      [] dpc \in {"wakeOpen", "wakeClosed", "drop"}       -> "reaped"
      [] OTHER -> IF registered THEN "leased" ELSE "reaped"

L == INSTANCE Lease WITH
        marked <- word["open"] = SENTINEL \/ word["closed"] = SENTINEL,
        noted  <- dopen = SENTINEL \/ dclosed = SENTINEL,
        held   <- registered,
        phase  <- Phase

(* Every interleaving of touches, frees, sweeps and claims keeps the       *)
(* promise of Lease: the daemon kills no interlock whose lease was running *)
(* when it looked, although it reads the clock before the words and each   *)
(* word by itself, and nothing dead comes back.                            *)
LeaseKept == L!Spec
=============================================================================

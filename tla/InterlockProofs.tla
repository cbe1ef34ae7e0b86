-------------------------- MODULE InterlockProofs --------------------------
(***************************************************************************)
(* Proofs about Interlock, for every number of threads, every word width   *)
(* and every bound.                                                        *)
(***************************************************************************)
EXTENDS Interlock, TLAPS

(***************************************************************************)
(* The words.                                                              *)
(***************************************************************************)

(* fetch_add and the deadline sum stay inside the word. *)
LEMMA WrapAddType == ASSUME NEW a \in Word, NEW b \in Word PROVE WrapAdd(a, b) \in Word
BY WordAssumption DEF Word, WrapAdd

(* Adding to a live count within the budget does not wrap; adding to a     *)
(* SENTINEL count restarts it below the increment, or leaves it at         *)
(* SENTINEL.                                                               *)
LEMMA WrapAddCount ==
    ASSUME NEW a \in Word, NEW n \in Nat, NEW h \in Nat, n + h <= CounterBudget,
           a = SENTINEL \/ a <= n
    PROVE  /\ WrapAdd(a, h) \in Word
           /\ WrapAdd(a, h) = SENTINEL \/ WrapAdd(a, h) <= n + h
BY WordAssumption, InterlockAssumption DEF Word, WrapAdd

(* The futex compares only part of the word, but on the counts within the  *)
(* budget and SENTINEL that part identifies the word.                      *)
LEMMA FutexWordInjective ==
    ASSUME NEW a \in Word, NEW b \in Word, b <= CounterBudget,
           a = SENTINEL \/ a <= CounterBudget,
           futex_word(a) = futex_word(b)
    PROVE  a = b
<1>1. b % FUTEX_MOD = b /\ b < FUTEX_MOD - 1
  BY WordAssumption, InterlockAssumption DEF Word
<1>2. CASE a = SENTINEL
  BY <1>1, <1>2, WordAssumption DEF futex_word
<1>3. CASE a <= CounterBudget
  <2>1. a % FUTEX_MOD = a
    BY <1>3, WordAssumption, InterlockAssumption DEF Word
  <2> QED BY <1>1, <2>1 DEF futex_word
<1> QED BY <1>2, <1>3

(***************************************************************************)
(* Type correctness.                                                       *)
(***************************************************************************)
LEMMA TypeInit == Init => TypeOK
BY WordAssumption, InterlockAssumption DEF Init, TypeOK, Word, Threads, Counts

LEMMA BeginType ==
    ASSUME TypeOK, NEW t \in Threads,
           NEW label \in {"absent", "idle", "wake"} \cup WaitPcs \cup FreePcs \cup ArmPcs,
           NEW c \in Counts, NEW x \in Word, NEW d \in Word, NEW a \in Nat,
           Begin(t, label, c, x, d, a)
    PROVE  /\ pc' \in [Threads -> {"absent", "idle", "wake"} \cup WaitPcs \cup FreePcs \cup ArmPcs]
           /\ wword' \in [Threads -> Counts]
           /\ target' \in [Threads -> Word]
           /\ seen' \in [Threads -> Word]
           /\ deadline' \in [Threads -> Word]
           /\ done' \in [Threads -> {"none", "waitOk", "touchOk", "reaped"}]
           /\ asked' \in [Threads -> Nat]
BY WordAssumption DEF TypeOK, Begin, Goto, Word

LEMMA ThreadType ==
    ASSUME TypeOK, NEW t \in Threads, ThreadStep(t) PROVE TypeOK'
<1> USE DEF WaitPcs, FreePcs, ArmPcs
<1>0. 0 \in Word /\ "open" \in Counts /\ SENTINEL \in Word
  BY WordAssumption DEF Word, Counts
<1>1. CASE FetchAdd(t)
  <2>1. PICK c \in Counts, h \in Increments[t] :
             /\ total[c] + h <= CounterBudget
             /\ word' = [word EXCEPT ![c] = WrapAdd(word[c], h)]
             /\ total' = [total EXCEPT ![c] = total[c] + h]
             /\ Begin(t, "wake", c, 0, 0, 0)
    BY <1>1 DEF FetchAdd
  <2>2. h \in Nat /\ h \in Word /\ word[c] \in Word /\ total[c] \in 0 .. CounterBudget
    BY <2>1, WordAssumption, InterlockAssumption DEF TypeOK, Word
  <2>3. WrapAdd(word[c], h) \in Word
    BY <2>2, WrapAddType
  <2>4. total' \in [Counts -> 0 .. CounterBudget] /\ word' \in [Counts -> Word]
    BY <2>1, <2>2, <2>3, InterlockAssumption DEF TypeOK
  <2> QED
    BY <1>0, <1>1, <2>1, <2>4, BeginType DEF FetchAdd, TypeOK, daemon
<1>2. CASE Wake(t)
  BY <1>2 DEF Wake, AfterWake, TypeOK, shared, daemon, locals
<1>3. CASE ArmStart(t)
  <2>1. PICK ttl \in Ttls[t] : Begin(t, "armLoad", "open", 0, WrapAdd(now, ttl), now + ttl)
    BY <1>3 DEF ArmStart
  <2>2. ttl \in Word /\ now \in Word /\ now + ttl \in Nat
    BY WordAssumption, InterlockAssumption DEF TypeOK, Word
  <2>3. WrapAdd(now, ttl) \in Word
    BY <2>2, WrapAddType
  <2> QED
    BY <1>0, <1>3, <2>1, <2>2, <2>3, BeginType DEF ArmStart, TypeOK, shared, daemon
<1>4. CASE ArmLoad(t)
  BY <1>4 DEF ArmLoad, Goto, Return, TypeOK, shared, daemon
<1>5. CASE ArmCas(t)
  <2>1. LargerOf(seen[t], deadline[t]) \in Word
    BY DEF LargerOf, TypeOK
  <2> QED BY <1>5, <2>1 DEF ArmCas, Goto, Return, TypeOK, daemon, locals
<1>6. CASE OwnerFree(t)
  BY <1>0, <1>6, BeginType DEF OwnerFree, TypeOK, daemon
<1>7. CASE AttacherFree(t)
  BY <1>0, <1>7, BeginType DEF AttacherFree, TypeOK, daemon
<1>8. CASE FreeWake(t)
  BY <1>8 DEF FreeWake, AfterWake, TypeOK, shared, daemon, locals
<1>9. CASE WaitStart(t)
  BY <1>0, <1>9, BeginType, InterlockAssumption DEF WaitStart, TypeOK, shared, daemon
<1>10. CASE WaitLoad(t)
  BY <1>10 DEF WaitLoad, Goto, Return, TypeOK, shared, daemon
<1>11. CASE FutexWait(t)
  BY <1>11 DEF FutexWait, Goto, TypeOK, shared, daemon, locals
<1>12. CASE FutexTimeout(t)
  BY <1>12 DEF FutexTimeout, Goto, TypeOK, shared, daemon, locals
<1>13. CASE WaitExp(t)
  BY <1>13 DEF WaitExp, Goto, TypeOK, shared, daemon
<1>14. CASE WaitNow(t)
  BY <1>14 DEF WaitNow, Goto, Return, TypeOK, shared, daemon, locals
<1> QED
  BY <1>1, <1>2, <1>3, <1>4, <1>5, <1>6, <1>7, <1>8, <1>9, <1>10, <1>11,
     <1>12, <1>13, <1>14 DEF ThreadStep, WaitStep

LEMMA DaemonType == ASSUME TypeOK, DaemonStep PROVE TypeOK'
<1>0. 0 \in Word /\ 0 \in 0 .. MaxTime /\ "open" \in Counts /\ "closed" \in Counts
      /\ SENTINEL \in Word
  BY WordAssumption, InterlockAssumption DEF Word, Counts
<1>1. CASE EvalStart \/ EvalLoadOpen \/ EvalLoadClosed
  BY <1>0, <1>1 DEF EvalStart, EvalLoadOpen, EvalLoadClosed, DaemonGoto, TypeOK,
                    shared, locals, ReapPcs
<1>2. CASE EvalLoadExp
  BY <1>0, <1>2 DEF EvalLoadExp, DaemonGoto, TypeOK, shared, locals, ReapPcs
<1>3. CASE Claim
  BY <1>3 DEF Claim, DaemonGoto, TypeOK, shared, locals, ReapPcs
<1>4. CASE ReapStore
  BY <1>0, <1>4 DEF ReapStore, DaemonGoto, TypeOK, locals, ReapPcs
<1>5. CASE ReapWake
  BY <1>5 DEF ReapWake, AfterWake, DaemonGoto, TypeOK, shared, locals, ReapPcs,
              WaitPcs
<1>6. CASE Drop
  BY <1>6 DEF Drop, DaemonGoto, TypeOK, shared, locals, ReapPcs
<1> QED BY <1>1, <1>2, <1>3, <1>4, <1>5, <1>6 DEF DaemonStep

LEMMA TypeNext == TypeOK /\ [Next]_vars => TypeOK'
<1> SUFFICES ASSUME TypeOK, [Next]_vars PROVE TypeOK'
  OBVIOUS
<1>1. CASE Tick
  BY <1>1, InterlockAssumption DEF Tick, TypeOK, shared, daemon, locals
<1>2. CASE DaemonStep
  BY <1>2, DaemonType
<1>3. CASE \E t \in Threads : ThreadStep(t)
  BY <1>3, ThreadType
<1>4. CASE UNCHANGED vars
  BY <1>4 DEF vars, TypeOK
<1> QED BY <1>1, <1>2, <1>3, <1>4 DEF Next

(* Every word, local and program counter keeps its type in every reachable *)
(* state of the region's threads and of the daemon.                        *)
THEOREM TypeCorrect == Spec => []TypeOK
BY TypeInit, TypeNext, PTL DEF Spec

(***************************************************************************)
(* The lease.                                                              *)
(***************************************************************************)
LEMMA ExpirationStep == TypeOK /\ [Next]_vars => exp' >= exp
<1> SUFFICES ASSUME TypeOK, [Next]_vars PROVE exp' >= exp
  OBVIOUS
<1>0. exp \in Word /\ exp <= SENTINEL /\ exp >= exp
  BY WordAssumption DEF TypeOK, Word
<1>1. CASE Tick \/ UNCHANGED vars
  BY <1>0, <1>1 DEF Tick, shared, vars
<1>2. CASE DaemonStep
  BY <1>0, <1>2, WordAssumption
     DEF DaemonStep, EvalStart, EvalLoadOpen, EvalLoadClosed, EvalLoadExp, Claim,
         ReapStore, ReapWake, Drop, shared, Word
<1>3. ASSUME NEW t \in Threads, ThreadStep(t) PROVE exp' >= exp
  <2>1. CASE ArmCas(t)
    BY <1>0, <2>1 DEF ArmCas, LargerOf, TypeOK, Word
  <2>2. CASE OwnerFree(t)
    BY <1>0, <2>2, WordAssumption DEF OwnerFree, Word
  <2>3. CASE ~ArmCas(t) /\ ~OwnerFree(t)
    BY <1>0, <1>3, <2>3
       DEF ThreadStep, WaitStep, FetchAdd, Wake, ArmStart, ArmLoad, AttacherFree,
           FreeWake, WaitStart, WaitLoad, FutexWait, FutexTimeout, WaitExp,
           WaitNow, shared
  <2> QED BY <2>1, <2>2, <2>3
<1> QED BY <1>1, <1>2, <1>3 DEF Next

(* The expiration of a region never decreases and, once SENTINEL, stays so *)
(* (interlock_arm against interlock_reap and interlock_free).              *)
THEOREM LeaseOnlyGrows == Spec => ExpirationMonotone
<1>1. TypeOK /\ [Next]_vars => [exp' >= exp]_vars
  BY ExpirationStep
<1> QED BY <1>1, TypeCorrect, PTL DEF Spec, ExpirationMonotone

(***************************************************************************)
(* A reaped region is dead.  Between the decision to reap and the store    *)
(* into the expiration the entry may be out of the map already (Claim), so *)
(* the invariant follows the daemon through interlock_reap.                *)
(***************************************************************************)
ReapInv ==
    /\ dpc \in {"wakeOpen", "wakeClosed", "drop"} => exp = SENTINEL
    /\ dpc \in {"loadOpen", "loadClosed", "loadExp"} => registered
    /\ ~registered => exp = SENTINEL \/ dpc \in {"stampOpen", "stampClosed", "stampExp"}

LEMMA ReapStep == TypeOK /\ ReapInv /\ [Next]_vars => ReapInv'
<1> SUFFICES ASSUME TypeOK, ReapInv, [Next]_vars PROVE ReapInv'
  OBVIOUS
<1>0. exp = SENTINEL => exp' = SENTINEL
  <2>1. exp' >= exp /\ exp' \in Word
    BY ExpirationStep, TypeNext DEF TypeOK
  <2> QED BY <2>1, WordAssumption DEF Word
<1>1. CASE DaemonStep
  BY <1>0, <1>1
     DEF ReapInv, DaemonStep, EvalStart, EvalLoadOpen, EvalLoadClosed, EvalLoadExp,
         Claim, ReapStore, ReapWake, Drop, DaemonGoto, shared
<1>2. CASE UNCHANGED <<dpc, registered>>
  BY <1>0, <1>2 DEF ReapInv
<1>3. ~DaemonStep => UNCHANGED <<dpc, registered>>
  BY DEF Next, vars, Tick, ThreadStep, WaitStep, FetchAdd, Wake, ArmStart, ArmLoad,
         ArmCas, OwnerFree, AttacherFree, FreeWake, WaitStart, WaitLoad, FutexWait,
         FutexTimeout, WaitExp, WaitNow, daemon
<1> QED BY <1>1, <1>2, <1>3

(* Whatever the daemon removed from its map, by the sweep or because the   *)
(* name was claimed again, no touch in flight can keep alive.              *)
THEOREM DroppedIsDeadAlways == Spec => []DroppedIsDead
<1>1. Init => ReapInv
  BY DEF Init, ReapInv
<1>2. ReapInv => DroppedIsDead
  BY DEF ReapInv, DroppedIsDead
<1> QED BY <1>1, <1>2, ReapStep, TypeCorrect, PTL DEF Spec

(***************************************************************************)
(* Interlock implements Lease.  The clock the daemon sampled at the start  *)
(* of its pass is not ahead of the present, and the counters it loaded     *)
(* live no longer than the visit.                                          *)
(***************************************************************************)
VisitInv ==
    /\ dpc \in {"loadOpen", "loadClosed", "loadExp"} => dnow <= now
    /\ dpc \notin {"loadClosed", "loadExp"} => dopen = 0
    /\ dpc # "loadExp" => dclosed = 0

LEMMA ThreadsAlone ==
    ASSUME NEW t \in Threads, ThreadStep(t)
    PROVE  UNCHANGED <<now, registered, dpc, dnow, dopen, dclosed>>
BY DEF ThreadStep, WaitStep, FetchAdd, Wake, ArmStart, ArmLoad, ArmCas, OwnerFree,
       AttacherFree, FreeWake, WaitStart, WaitLoad, FutexWait, FutexTimeout, WaitExp,
       WaitNow, daemon

LEMMA VisitStep == TypeOK /\ VisitInv /\ [Next]_vars => VisitInv'
<1> SUFFICES ASSUME TypeOK, VisitInv, [Next]_vars PROVE VisitInv'
  OBVIOUS
<1>0. now \in Nat /\ dnow \in Nat
  BY InterlockAssumption DEF TypeOK
<1>1. CASE DaemonStep
  BY <1>0, <1>1
     DEF VisitInv, DaemonStep, EvalStart, EvalLoadOpen, EvalLoadClosed, EvalLoadExp,
         Claim, ReapStore, ReapWake, Drop, DaemonGoto
<1>2. CASE Tick
  BY <1>0, <1>2 DEF VisitInv, Tick, daemon
<1>3. CASE \E t \in Threads : ThreadStep(t)
  BY <1>3, ThreadsAlone DEF VisitInv
<1>4. CASE UNCHANGED vars
  BY <1>4 DEF VisitInv, vars
<1> QED BY <1>1, <1>2, <1>3, <1>4 DEF Next

(* A step that leaves the daemon alone is a renewal, a change of a counter *)
(* or nothing to the lease.                                                *)
LEMMA ThreadLease ==
    ASSUME TypeOK, NEW t \in Threads, ThreadStep(t)
    PROVE  [L!Next]_(L!vars)
<1>1. UNCHANGED <<now, registered, dpc, dopen, dclosed>> /\ Phase' = Phase
  BY ThreadsAlone DEF Phase
<1>2. exp' >= exp /\ exp' \in Word /\ exp \in Word
  BY ExpirationStep, TypeNext DEF TypeOK, Next
<1>3. CASE word' = word
  <2>1. exp' = exp \/ (exp' > exp /\ exp' <= SENTINEL)
    BY <1>2, WordAssumption DEF Word
  <2>2. CASE exp' = exp
    BY <1>1, <1>3, <2>2 DEF L!vars
  <2>3. CASE exp' > exp /\ exp' <= SENTINEL
    BY <1>1, <1>3, <2>3 DEF L!Next, L!Renew
  <2> QED BY <2>1, <2>2, <2>3
<1>4. CASE exp' = exp
  BY <1>1, <1>4 DEF L!Next, L!Mark, L!vars
<1>5. word' = word \/ exp' = exp
  BY DEF ThreadStep, WaitStep, FetchAdd, Wake, ArmStart, ArmLoad, ArmCas, OwnerFree,
         AttacherFree, FreeWake, WaitStart, WaitLoad, FutexWait, FutexTimeout, WaitExp,
         WaitNow, shared
<1> QED BY <1>3, <1>4, <1>5

LEMMA DaemonLease ==
    ASSUME TypeOK, ReapInv, VisitInv, DaemonStep
    PROVE  [L!Next]_(L!vars)
<1>0. 0 # SENTINEL /\ now \in Nat /\ dnow \in Nat /\ exp \in Nat
  BY WordAssumption, InterlockAssumption DEF TypeOK, Word
<1>1. CASE EvalStart
  BY <1>1 DEF EvalStart, DaemonGoto, shared, Phase, L!vars
<1>2. CASE EvalLoadOpen
  <2>1. /\ UNCHANGED <<word, exp, now, registered, dclosed>> /\ dopen' = word["open"]
        /\ Phase = "leased" /\ Phase' = "leased" /\ dopen = 0 /\ dclosed = 0
    BY <1>2 DEF EvalLoadOpen, DaemonGoto, shared, Phase, ReapInv, VisitInv
  <2> QED BY <1>0, <2>1 DEF L!Next, L!Note, L!vars
<1>3. CASE EvalLoadClosed
  <2>1. /\ UNCHANGED <<word, exp, now, registered, dopen>> /\ dclosed' = word["closed"]
        /\ Phase = "leased" /\ Phase' = "leased" /\ dclosed = 0
    BY <1>3 DEF EvalLoadClosed, DaemonGoto, shared, Phase, ReapInv, VisitInv
  <2> QED BY <1>0, <2>1 DEF L!Next, L!Note, L!vars
<1>4. CASE EvalLoadExp
  <2>1. /\ UNCHANGED <<word, exp, now, registered>> /\ dopen' = 0 /\ dclosed' = 0
        /\ Phase = "leased" /\ registered /\ dnow <= now
    BY <1>4 DEF EvalLoadExp, shared, Phase, ReapInv, VisitInv
  <2>2. CASE Terminated(dopen, dclosed, exp) \/ ~expiration_alive(exp, dnow)
    <3>1. Phase' = "condemned"
      BY <1>4, <2>2 DEF EvalLoadExp, DaemonGoto, Phase
    <3>2. dopen = SENTINEL \/ dclosed = SENTINEL \/ exp = SENTINEL \/ exp <= now
      BY <1>0, <2>1, <2>2 DEF Terminated, expiration_alive
    <3> QED BY <1>0, <2>1, <3>1, <3>2 DEF L!Next, L!Condemn
  <2>3. CASE ~(Terminated(dopen, dclosed, exp) \/ ~expiration_alive(exp, dnow))
    <3>1. Phase' = "leased"
      BY <1>4, <2>1, <2>3 DEF EvalLoadExp, DaemonGoto, Phase
    <3>2. dopen # SENTINEL /\ dclosed # SENTINEL
      BY <2>3 DEF Terminated
    <3> QED BY <1>0, <2>1, <3>1, <3>2 DEF L!vars
  <2> QED BY <2>2, <2>3
<1>5. CASE Claim
  BY <1>5 DEF Claim, DaemonGoto, shared, Phase, L!Next, L!Claim
<1>6. CASE ReapStore
  <2>1. UNCHANGED <<now, registered, dopen, dclosed>> /\ Phase = "condemned"
    BY <1>6 DEF ReapStore, Phase
  <2>2. CASE dpc = "stampExp"
    <3>1. exp' = SENTINEL /\ word' = word /\ Phase' = "reaped"
      BY <1>6, <2>2 DEF ReapStore, DaemonGoto, Phase
    <3> QED BY <2>1, <3>1 DEF L!Next, L!Reap
  <2>3. CASE dpc # "stampExp"
    <3>1. exp' = exp /\ Phase' = "condemned"
      BY <1>6, <2>3 DEF ReapStore, DaemonGoto, Phase
    <3> QED BY <2>1, <3>1 DEF L!Next, L!Mark, L!vars
  <2> QED BY <2>2, <2>3
<1>7. CASE ReapWake
  BY <1>7 DEF ReapWake, DaemonGoto, shared, Phase, L!vars
<1>8. CASE Drop
  <2>1. UNCHANGED <<word, exp, now, dopen, dclosed>> /\ registered' = FALSE
        /\ Phase = "reaped" /\ Phase' = "reaped"
    BY <1>8 DEF Drop, DaemonGoto, shared, Phase
  <2> QED BY <2>1 DEF L!Next, L!Forget
<1> QED BY <1>1, <1>2, <1>3, <1>4, <1>5, <1>6, <1>7, <1>8 DEF DaemonStep

(* Every behaviour of the words, of the threads that share them and of the *)
(* daemon's sweep and claim is a behaviour of Lease: the daemon reaps on   *)
(* evidence or by a claim only, and nothing dead comes back.               *)
THEOREM LeaseKeptAlways == Spec => LeaseKept
<1>1. Init => L!Init
  <2> SUFFICES ASSUME Init PROVE L!Init
    OBVIOUS
  <2>1. Phase = "leased" /\ exp \in Nat /\ exp < SENTINEL /\ now \in Nat
    BY InterlockAssumption DEF Init, Phase
  <2>2. word["open"] # SENTINEL /\ word["closed"] # SENTINEL
        /\ dopen # SENTINEL /\ dclosed # SENTINEL /\ registered = TRUE
    BY WordAssumption DEF Init, Counts
  <2> QED BY <2>1, <2>2 DEF L!Init
<1>2. Init => ReapInv /\ VisitInv
  BY DEF Init, ReapInv, VisitInv
<1>3. TypeOK /\ ReapInv /\ VisitInv /\ [Next]_vars => [L!Next]_(L!vars)
  <2> SUFFICES ASSUME TypeOK, ReapInv, VisitInv, [Next]_vars PROVE [L!Next]_(L!vars)
    OBVIOUS
  <2>1. CASE Tick
    <3>1. now' = now + 1 /\ UNCHANGED <<word, exp, registered, dpc, dopen, dclosed>>
          /\ Phase' = Phase
      BY <2>1 DEF Tick, shared, daemon, Phase
    <3> QED BY <3>1 DEF L!Next, L!Tick
  <2>2. CASE DaemonStep
    BY <2>2, DaemonLease
  <2>3. CASE \E t \in Threads : ThreadStep(t)
    BY <2>3, ThreadLease
  <2>4. CASE UNCHANGED vars
    BY <2>4 DEF vars, Phase, L!vars
  <2> QED BY <2>1, <2>2, <2>3, <2>4 DEF Next
<1> QED BY <1>1, <1>2, <1>3, ReapStep, VisitStep, TypeCorrect, PTL
        DEF Spec, LeaseKept, L!Spec

(***************************************************************************)
(* Waiters.  A counter is SENTINEL or a count that was really reached      *)
(* (CountSound); so is what a thread about to sleep has loaded             *)
(* (SeenSound); and a thread with a result is idle (DoneIdle).             *)
(***************************************************************************)
CountSound == \A c \in Counts : word[c] = SENTINEL \/ word[c] <= total[c]

SeenSound ==
    \A t \in Threads : pc[t] \in {"futex", "asleep"} => seen[t] <= total[wword[t]]

DoneIdle == \A t \in Threads : done[t] # "none" => pc[t] = "idle"

WaitInv == CountSound /\ SeenSound /\ DoneIdle /\ WaitNeverEarly /\ NoLostWakeup

(* Thread t moves alone: the other threads keep their locals. *)
Alone(t) ==
    \A u \in Threads \ {t} :
        /\ pc'[u] = pc[u] /\ wword'[u] = wword[u] /\ seen'[u] = seen[u]
        /\ target'[u] = target[u] /\ done'[u] = done[u]

LEMMA BeginAlone ==
    ASSUME TypeOK, NEW t \in Threads, NEW label, NEW c, NEW x, NEW d, NEW a,
           Begin(t, label, c, x, d, a)
    PROVE  Alone(t) /\ pc'[t] = label /\ wword'[t] = c /\ done'[t] = "none"
BY DEF Begin, Goto, Alone, TypeOK

(* A step of one thread that touches no counter, delivers no wake, does    *)
(* not go to sleep and does not return from a wait with Ok.                *)
LEMMA QuietStep ==
    ASSUME TypeOK, TypeOK', WaitInv, NEW t \in Threads, Alone(t),
           UNCHANGED <<word, total, dpc>>,
           pc[t] \notin {"wake", "freeWakeOpen"},
           pc'[t] \notin {"futex", "asleep"},
           done'[t] # "waitOk", done'[t] # "none" => pc'[t] = "idle"
    PROVE  WaitInv'
<1>1. CountSound'
  BY DEF WaitInv, CountSound
<1>2. SeenSound'
  BY DEF WaitInv, SeenSound, Alone
<1>3. DoneIdle'
  BY DEF WaitInv, DoneIdle, Alone
<1>4. WaitNeverEarly'
  BY DEF WaitInv, WaitNeverEarly, Alone
<1>5. \A c \in Counts : WakePending(c) => WakePending(c)'
  BY DEF WakePending, Alone
<1>6. NoLostWakeup'
  BY <1>5 DEF WaitInv, NoLostWakeup, Alone, TypeOK
<1> QED BY <1>1, <1>2, <1>3, <1>4, <1>6 DEF WaitInv

(* A futex_wake on counter c, after which thread t, if it was the waker,   *)
(* goes on with label.                                                     *)
LEMMA WakeStep ==
    ASSUME TypeOK, TypeOK', WaitInv, NEW c \in Counts,
           UNCHANGED <<word, total, wword, seen, target, done>>,
           \A u \in Threads : pc[u] = "asleep" /\ wword[u] = c => pc'[u] = "waitExp",
           \A u \in Threads : pc'[u] \in {"futex", "asleep"} => pc'[u] = pc[u],
           \A u \in Threads : pc[u] = "idle" => pc'[u] = "idle",
           \A d \in Counts : d # c => (WakePending(d) => WakePending(d)')
    PROVE  WaitInv'
<1>1. CountSound'
  BY DEF WaitInv, CountSound
<1>2. SeenSound'
  BY DEF WaitInv, SeenSound
<1>3. DoneIdle'
  BY DEF WaitInv, DoneIdle
<1>4. WaitNeverEarly'
  BY DEF WaitInv, WaitNeverEarly
<1>6. NoLostWakeup'
  <2> SUFFICES ASSUME NEW u \in Threads, pc'[u] = "asleep", word'[wword'[u]] # seen'[u]
               PROVE  WakePending(wword[u])'
    BY DEF NoLostWakeup
  <2>1. pc[u] = "asleep" /\ wword[u] # c /\ wword[u] \in Counts
    BY DEF TypeOK
  <2>2. WakePending(wword[u])
    BY <2>1 DEF WaitInv, NoLostWakeup
  <2> QED BY <2>1, <2>2 DEF WakePending
<1> QED BY <1>1, <1>2, <1>3, <1>4, <1>6 DEF WaitInv

LEMMA WaitInvThread ==
    ASSUME TypeOK, WaitInv, NEW t \in Threads, ThreadStep(t) PROVE WaitInv'
<1>0. /\ TypeOK'
      /\ SENTINEL \in Nat /\ CounterBudget \in Nat /\ CounterBudget < SENTINEL
      /\ Word = 0 .. SENTINEL
  BY ThreadType, WordAssumption, InterlockAssumption DEF Word
<1>1. CASE FetchAdd(t)
  <2>1. PICK c \in Counts, h \in Increments[t] :
             /\ total[c] + h <= CounterBudget
             /\ word' = [word EXCEPT ![c] = WrapAdd(word[c], h)]
             /\ total' = [total EXCEPT ![c] = total[c] + h]
             /\ Begin(t, "wake", c, 0, 0, 0)
    BY <1>1 DEF FetchAdd
  <2>2. h \in Nat /\ word[c] \in Word /\ total[c] \in Nat
    BY InterlockAssumption DEF TypeOK, Word
  <2>3. WrapAdd(word[c], h) = SENTINEL \/ WrapAdd(word[c], h) <= total[c] + h
    BY <2>1, <2>2, WrapAddCount DEF WaitInv, CountSound
  <2>4. \A d \in Counts : total'[d] >= total[d] /\ total[d] \in Nat /\ total'[d] \in Nat
    BY <2>1, <2>2 DEF TypeOK
  <2>5. CountSound'
    BY <2>1, <2>2, <2>3 DEF WaitInv, CountSound, TypeOK
  <2>6. pc[t] = "idle" /\ pc'[t] = "wake" /\ wword'[t] = c /\ done'[t] = "none"
    BY <1>1, <2>1, BeginAlone DEF FetchAdd, MayCall
  <2>7. Alone(t)
    BY <2>1, BeginAlone
  <2>8. SeenSound'
    <3> SUFFICES ASSUME NEW u \in Threads, pc'[u] \in {"futex", "asleep"}
                 PROVE  seen'[u] <= total'[wword'[u]]
      BY DEF SeenSound
    <3>1. u # t /\ pc[u] \in {"futex", "asleep"}
      BY <2>6, <2>7 DEF Alone
    <3>2. seen[u] <= total[wword[u]] /\ wword[u] \in Counts /\ seen[u] \in Nat
      BY <1>0, <3>1 DEF WaitInv, SeenSound, TypeOK
    <3> QED BY <2>4, <2>7, <3>1, <3>2 DEF Alone
  <2>9. DoneIdle'
    BY <2>6, <2>7 DEF WaitInv, DoneIdle, Alone
  <2>10. WaitNeverEarly'
    <3> SUFFICES ASSUME NEW u \in Threads, done'[u] = "waitOk"
                 PROVE  /\ target'[u] <= seen'[u] /\ seen'[u] # SENTINEL
                        /\ seen'[u] <= total'[wword'[u]]
      BY DEF WaitNeverEarly
    <3>1. u # t /\ wword[u] \in Counts /\ seen[u] \in Nat
      BY <1>0, <2>6 DEF TypeOK
    <3> QED BY <2>4, <2>7, <3>1 DEF Alone, WaitInv, WaitNeverEarly
  <2>11. \A d \in Counts : d # c => word'[d] = word[d]
    BY <2>1 DEF TypeOK
  <2>12. \A d \in Counts : WakePending(d) => WakePending(d)'
    BY <1>1, <2>6, <2>7 DEF WakePending, Alone, FetchAdd, daemon
  <2>13. WakePending(c)'
    BY <2>6 DEF WakePending
  <2>14. NoLostWakeup'
    <3> SUFFICES ASSUME NEW u \in Threads, pc'[u] = "asleep", word'[wword'[u]] # seen'[u]
                 PROVE  WakePending(wword[u])'
      BY DEF NoLostWakeup
    <3>1. u # t /\ wword[u] \in Counts /\ wword'[u] = wword[u] /\ pc[u] = "asleep"
          /\ seen'[u] = seen[u]
      BY <2>6, <2>7 DEF Alone, TypeOK
    <3>2. CASE wword[u] = c
      BY <2>13, <3>1, <3>2 DEF WakePending
    <3>3. CASE wword[u] # c
      <4>1. WakePending(wword[u])
        BY <2>11, <3>1, <3>3 DEF WaitInv, NoLostWakeup
      <4> QED BY <2>12, <3>1, <4>1 DEF WakePending
    <3> QED BY <3>2, <3>3
  <2> QED BY <2>5, <2>8, <2>9, <2>10, <2>14 DEF WaitInv
<1>2. CASE Wake(t)
  <2>1. wword[t] \in Counts
    BY DEF TypeOK
  <2>2. \A u \in Threads :
           /\ pc[u] = "asleep" /\ wword[u] = wword[t] => pc'[u] = "waitExp"
           /\ pc'[u] \in {"futex", "asleep"} => pc'[u] = pc[u]
           /\ pc[u] = "idle" => pc'[u] = "idle"
           /\ pc[u] \in {"wake", "freeWakeOpen"} /\ u # t => pc'[u] = pc[u]
    BY <1>2 DEF Wake, AfterWake, Woken, TypeOK
  <2>3. UNCHANGED <<word, total, wword, seen, target, done, dpc>>
    BY <1>2 DEF Wake, shared, locals, daemon
  <2>4. \A d \in Counts : d # wword[t] => (WakePending(d) => WakePending(d)')
    BY <1>2, <2>2, <2>3 DEF WakePending, Wake
  <2> QED BY <1>0, <2>1, <2>2, <2>3, <2>4, WakeStep
<1>3. CASE ArmStart(t)
  BY <1>0, <1>3, BeginAlone, QuietStep DEF ArmStart, MayCall, shared, daemon
<1>4. CASE ArmLoad(t)
  <2>1. Alone(t) /\ pc'[t] \in {"idle", "armCas"} /\ done'[t] # "waitOk"
        /\ (done'[t] # "none" => pc'[t] = "idle")
    BY <1>4 DEF ArmLoad, Goto, Return, Alone, TypeOK, WaitInv, DoneIdle
  <2> QED BY <1>0, <1>4, <2>1, QuietStep DEF ArmLoad, shared, daemon
<1>5. CASE ArmCas(t)
  <2>1. Alone(t) /\ pc'[t] \in {"idle", "armLoad"} /\ done'[t] # "waitOk"
        /\ (done'[t] # "none" => pc'[t] = "idle")
    BY <1>5 DEF ArmCas, Goto, Return, Alone, TypeOK, WaitInv, DoneIdle, locals
  <2> QED BY <1>0, <1>5, <2>1, QuietStep DEF ArmCas, daemon
<1>6. CASE OwnerFree(t)
  BY <1>0, <1>6, BeginAlone, QuietStep DEF OwnerFree, daemon
<1>7. CASE AttacherFree(t)
  <2>1. Alone(t) /\ pc[t] = "idle" /\ pc'[t] = "freeWakeOpen" /\ done'[t] = "none"
    BY <1>7, BeginAlone DEF AttacherFree, MayCall
  <2>2. UNCHANGED <<total, dpc>> /\ word' = [word EXCEPT !["open"] = SENTINEL]
    BY <1>7 DEF AttacherFree, daemon
  <2>3. CountSound'
    BY <2>2 DEF WaitInv, CountSound, TypeOK
  <2>4. SeenSound' /\ DoneIdle' /\ WaitNeverEarly'
    BY <2>1, <2>2 DEF WaitInv, SeenSound, DoneIdle, WaitNeverEarly, Alone
  <2>5. \A d \in Counts : WakePending(d) => WakePending(d)'
    BY <2>1, <2>2 DEF WakePending, Alone
  <2>6. WakePending("open")'
    BY <2>1 DEF WakePending
  <2>7. NoLostWakeup'
    <3> SUFFICES ASSUME NEW u \in Threads, pc'[u] = "asleep", word'[wword'[u]] # seen'[u]
                 PROVE  WakePending(wword[u])'
      BY DEF NoLostWakeup
    <3>1. u # t /\ wword[u] \in Counts /\ wword'[u] = wword[u] /\ pc[u] = "asleep"
          /\ seen'[u] = seen[u]
      BY <2>1 DEF Alone, TypeOK
    <3>2. CASE wword[u] = "open"
      BY <2>6, <3>1, <3>2 DEF WakePending
    <3>3. CASE wword[u] # "open"
      <4>1. word'[wword[u]] = word[wword[u]]
        BY <2>2, <3>1, <3>3 DEF TypeOK
      <4>2. WakePending(wword[u])
        BY <3>1, <4>1 DEF WaitInv, NoLostWakeup
      <4> QED BY <2>5, <3>1, <4>2 DEF WakePending
    <3> QED BY <3>2, <3>3
  <2> QED BY <2>3, <2>4, <2>7 DEF WaitInv
<1>8. CASE FreeWake(t)
  <2>0. UNCHANGED <<word, total, wword, seen, target, done, dpc>>
    BY <1>8 DEF FreeWake, shared, locals, daemon
  <2>1. CASE pc[t] = "freeWakeOpen"
    <3>1. \A u \in Threads :
             /\ pc[u] = "asleep" /\ wword[u] = "open" => pc'[u] = "waitExp"
             /\ pc'[u] \in {"futex", "asleep"} => pc'[u] = pc[u]
             /\ pc[u] = "idle" => pc'[u] = "idle"
             /\ pc[u] = "wake" => pc'[u] = pc[u]
      BY <1>8, <2>1 DEF FreeWake, AfterWake, Woken, TypeOK
    <3>2. \A d \in Counts : d # "open" => (WakePending(d) => WakePending(d)')
      BY <2>0, <3>1 DEF WakePending
    <3> QED BY <1>0, <2>0, <3>1, <3>2, WakeStep DEF Counts
  <2>2. CASE pc[t] = "freeWakeClosed"
    <3>1. \A u \in Threads :
             /\ pc[u] = "asleep" /\ wword[u] = "closed" => pc'[u] = "waitExp"
             /\ pc'[u] \in {"futex", "asleep"} => pc'[u] = pc[u]
             /\ pc[u] = "idle" => pc'[u] = "idle"
             /\ pc[u] \in {"wake", "freeWakeOpen"} => pc'[u] = pc[u]
      BY <1>8, <2>2 DEF FreeWake, AfterWake, Woken, TypeOK
    <3>2. \A d \in Counts : d # "closed" => (WakePending(d) => WakePending(d)')
      BY <2>0, <3>1 DEF WakePending
    <3> QED BY <1>0, <2>0, <3>1, <3>2, WakeStep DEF Counts
  <2> QED BY <1>8, <2>1, <2>2 DEF FreeWake
<1>9. CASE WaitStart(t)
  BY <1>0, <1>9, BeginAlone, QuietStep DEF WaitStart, MayCall, shared, daemon
<1>10. CASE WaitLoad(t)
  <2>0. /\ UNCHANGED <<word, total, dpc, wword, target>> /\ Alone(t)
        /\ pc[t] = "waitLoad" /\ seen'[t] = word[wword[t]] /\ wword[t] \in Counts
        /\ seen'[t] \in Nat /\ target[t] \in Nat /\ target[t] <= SENTINEL
    BY <1>0, <1>10 DEF WaitLoad, Goto, Return, Alone, TypeOK, shared, daemon
  <2>1. CASE seen'[t] = SENTINEL
    <3>1. pc'[t] = "idle" /\ done'[t] = "reaped"
      BY <1>0, <1>10, <2>0, <2>1 DEF WaitLoad, Return, Goto, TypeOK
    <3> QED BY <1>0, <2>0, <3>1, QuietStep
  <2>2. CASE seen'[t] # SENTINEL
    <3>1. seen'[t] <= total[wword[t]]
      BY <2>0, <2>2 DEF WaitInv, CountSound
    <3>2. \/ pc'[t] = "idle" /\ done'[t] = "waitOk" /\ target[t] <= seen'[t]
          \/ pc'[t] = "futex" /\ done'[t] = "none"
      BY <1>10, <2>0, <2>2 DEF WaitLoad, Return, Goto, TypeOK, WaitInv, DoneIdle
    <3>3. CountSound' /\ DoneIdle'
      BY <2>0, <3>2 DEF WaitInv, CountSound, DoneIdle, Alone
    <3>4. SeenSound'
      BY <2>0, <3>1 DEF WaitInv, SeenSound, Alone
    <3>5. WaitNeverEarly'
      BY <2>0, <2>2, <3>1, <3>2 DEF WaitInv, WaitNeverEarly, Alone
    <3>6. \A c \in Counts : WakePending(c) => WakePending(c)'
      BY <2>0 DEF WakePending, Alone
    <3>7. NoLostWakeup'
      BY <2>0, <3>2, <3>6 DEF WaitInv, NoLostWakeup, Alone, TypeOK
    <3> QED BY <3>3, <3>4, <3>5, <3>7 DEF WaitInv
  <2> QED BY <2>1, <2>2
<1>11. CASE FutexWait(t)
  <2>0. /\ UNCHANGED <<word, total, dpc, wword, target, seen, done>> /\ Alone(t)
        /\ pc[t] = "futex" /\ done[t] = "none" /\ pc'[t] \in {"asleep", "waitExp"}
    BY <1>11 DEF FutexWait, Goto, Alone, TypeOK, shared, daemon, locals, WaitInv, DoneIdle
  <2>1. CASE pc'[t] = "waitExp"
    BY <1>0, <2>0, <2>1, QuietStep
  <2>2. CASE pc'[t] = "asleep"
    <3>1. /\ word[wword[t]] \in Word /\ seen[t] \in Word /\ wword[t] \in Counts
          /\ total[wword[t]] \in Nat /\ total[wword[t]] <= CounterBudget
      BY DEF TypeOK
    <3>2. /\ seen[t] <= CounterBudget
          /\ word[wword[t]] = SENTINEL \/ word[wword[t]] <= CounterBudget
      BY <1>0, <2>0, <3>1 DEF WaitInv, CountSound, SeenSound
    <3>3. futex_word(word[wword[t]]) = futex_word(seen[t])
      BY <1>11, <2>2 DEF FutexWait, Goto, TypeOK
    <3>4. word[wword[t]] = seen[t]
      BY <3>1, <3>2, <3>3, FutexWordInjective
    <3>5. CountSound' /\ SeenSound' /\ DoneIdle' /\ WaitNeverEarly'
      BY <2>0 DEF WaitInv, CountSound, SeenSound, DoneIdle, WaitNeverEarly, Alone
    <3>6. \A c \in Counts : WakePending(c) => WakePending(c)'
      BY <2>0 DEF WakePending, Alone
    <3>7. NoLostWakeup'
      BY <2>0, <3>4, <3>6 DEF WaitInv, NoLostWakeup, Alone, TypeOK
    <3> QED BY <3>5, <3>7 DEF WaitInv
  <2> QED BY <2>0, <2>1, <2>2
<1>12. CASE FutexTimeout(t)
  <2>1. Alone(t) /\ pc'[t] = "waitExp" /\ done'[t] = "none"
    BY <1>12 DEF FutexTimeout, Goto, Alone, TypeOK, WaitInv, DoneIdle, locals
  <2> QED BY <1>0, <1>12, <2>1, QuietStep DEF FutexTimeout, shared, daemon
<1>13. CASE WaitExp(t)
  <2>1. Alone(t) /\ pc'[t] = "waitNow" /\ done'[t] = "none"
    BY <1>13 DEF WaitExp, Goto, Alone, TypeOK, WaitInv, DoneIdle
  <2> QED BY <1>0, <1>13, <2>1, QuietStep DEF WaitExp, shared, daemon
<1>14. CASE WaitNow(t)
  <2>1. Alone(t) /\ pc'[t] \in {"idle", "waitLoad"} /\ done'[t] # "waitOk"
        /\ (done'[t] # "none" => pc'[t] = "idle")
    BY <1>14 DEF WaitNow, Goto, Return, Alone, TypeOK, WaitInv, DoneIdle, locals
  <2> QED BY <1>0, <1>14, <2>1, QuietStep DEF WaitNow, shared, daemon
<1> QED
  BY <1>1, <1>2, <1>3, <1>4, <1>5, <1>6, <1>7, <1>8, <1>9, <1>10, <1>11,
     <1>12, <1>13, <1>14 DEF ThreadStep, WaitStep

LEMMA WaitInvDaemon == ASSUME TypeOK, WaitInv, DaemonStep PROVE WaitInv'
<1>0. TypeOK' /\ "open" \in Counts /\ "closed" \in Counts
  BY DaemonType DEF Counts
<1>1. CASE EvalStart \/ EvalLoadOpen \/ EvalLoadClosed \/ EvalLoadExp \/ Claim \/ Drop
  <2>1. /\ UNCHANGED <<word, total, pc, wword, seen, target, done>>
        /\ dpc \notin {"stampClosed", "stampExp", "wakeOpen", "wakeClosed"}
    BY <1>1 DEF EvalStart, EvalLoadOpen, EvalLoadClosed, EvalLoadExp, Claim, Drop,
                shared, locals
  <2>2. CountSound' /\ SeenSound' /\ DoneIdle' /\ WaitNeverEarly'
    BY <2>1 DEF WaitInv, CountSound, SeenSound, DoneIdle, WaitNeverEarly
  <2>3. NoLostWakeup'
    BY <2>1 DEF WaitInv, NoLostWakeup, WakePending
  <2> QED BY <2>2, <2>3 DEF WaitInv
<1>2. CASE ReapStore
  <2>0. UNCHANGED <<total, pc, wword, seen, target, done>>
    BY <1>2 DEF ReapStore, locals
  <2>1. \A c \in Counts : word'[c] = word[c] \/ (word'[c] = SENTINEL /\ WakePending(c)')
    BY <1>2 DEF ReapStore, DaemonGoto, WakePending, TypeOK, Counts
  <2>2. CountSound'
    BY <2>0, <2>1 DEF WaitInv, CountSound
  <2>3. SeenSound' /\ DoneIdle' /\ WaitNeverEarly'
    BY <2>0 DEF WaitInv, SeenSound, DoneIdle, WaitNeverEarly
  <2>4. \A c \in Counts : WakePending(c) => WakePending(c)'
    BY <1>2, <2>0 DEF WakePending, ReapStore, DaemonGoto
  <2>5. NoLostWakeup'
    <3> SUFFICES ASSUME NEW u \in Threads, pc'[u] = "asleep", word'[wword'[u]] # seen'[u]
                 PROVE  WakePending(wword[u])'
      BY DEF NoLostWakeup
    <3>1. wword[u] \in Counts /\ wword'[u] = wword[u] /\ pc[u] = "asleep"
          /\ seen'[u] = seen[u]
      BY <2>0 DEF TypeOK
    <3>2. CASE word'[wword[u]] = word[wword[u]]
      <4>1. WakePending(wword[u])
        BY <3>1, <3>2 DEF WaitInv, NoLostWakeup
      <4> QED BY <2>4, <3>1, <4>1 DEF WakePending
    <3>3. CASE word'[wword[u]] # word[wword[u]]
      BY <2>1, <3>1, <3>3 DEF WakePending
    <3> QED BY <3>2, <3>3
  <2> QED BY <2>2, <2>3, <2>5 DEF WaitInv
<1>3. CASE ReapWake
  <2>0. UNCHANGED <<word, total, wword, seen, target, done>>
    BY <1>3 DEF ReapWake, shared, locals
  <2>1. ASSUME NEW c \in Counts, pc' = AfterWake(c, pc)
        PROVE  \A u \in Threads :
                  /\ pc[u] = "asleep" /\ wword[u] = c => pc'[u] = "waitExp"
                  /\ pc'[u] \in {"futex", "asleep"} => pc'[u] = pc[u]
                  /\ pc[u] # "asleep" => pc'[u] = pc[u]
    BY <2>1 DEF AfterWake, Woken
  <2>2. CASE dpc = "wakeOpen"
    <3>1. pc' = AfterWake("open", pc) /\ dpc' = "wakeClosed"
      BY <1>3, <2>2 DEF ReapWake, DaemonGoto
    <3>2. \A d \in Counts : d # "open" => (WakePending(d) => WakePending(d)')
      BY <1>0, <2>0, <2>1, <3>1 DEF WakePending, Counts
    <3> QED BY <1>0, <2>0, <2>1, <3>1, <3>2, WakeStep
  <2>3. CASE dpc = "wakeClosed"
    <3>1. pc' = AfterWake("closed", pc) /\ dpc' = "drop"
      BY <1>3, <2>3 DEF ReapWake, DaemonGoto
    <3>2. \A d \in Counts : d # "closed" => (WakePending(d) => WakePending(d)')
      BY <1>0, <2>0, <2>1, <2>3, <3>1 DEF WakePending, Counts
    <3> QED BY <1>0, <2>0, <2>1, <3>1, <3>2, WakeStep
  <2> QED BY <1>3, <2>2, <2>3 DEF ReapWake
<1> QED BY <1>1, <1>2, <1>3 DEF DaemonStep

LEMMA WaitInvNext == TypeOK /\ WaitInv /\ [Next]_vars => WaitInv'
<1> SUFFICES ASSUME TypeOK, WaitInv, [Next]_vars PROVE WaitInv'
  OBVIOUS
<1>1. CASE Tick \/ UNCHANGED vars
  <2>1. UNCHANGED <<word, total, pc, wword, seen, target, done, dpc>>
    BY <1>1 DEF Tick, vars, shared, daemon, locals
  <2> QED BY <2>1 DEF WaitInv, CountSound, SeenSound, DoneIdle, WaitNeverEarly,
                      NoLostWakeup, WakePending
<1>2. CASE DaemonStep
  BY <1>2, WaitInvDaemon
<1>3. CASE \E t \in Threads : ThreadStep(t)
  BY <1>3, WaitInvThread
<1> QED BY <1>1, <1>2, <1>3 DEF Next

LEMMA WaitInvAlways == Spec => [](TypeOK /\ WaitInv)
<1>1. Init => WaitInv
  BY WordAssumption DEF Init, WaitInv, CountSound, SeenSound, DoneIdle, WaitNeverEarly,
                        NoLostWakeup
<1> QED BY <1>1, WaitInvNext, TypeInit, TypeNext, PTL DEF Spec

(* wait_open and wait_close never return Ok for a count nobody reached,    *)
(* whatever reaps, frees and wrap-arounds happen during the call.          *)
THEOREM WaitNeverEarlyAlways == Spec => []WaitNeverEarly
<1>1. WaitInv => WaitNeverEarly
  BY DEF WaitInv
<1> QED BY <1>1, WaitInvAlways, PTL

(* Between the load of a counter and the kernel's queueing of the thread   *)
(* no change of the counter goes unannounced, as long as the increments    *)
(* stay below what a futex can tell apart.                                 *)
THEOREM NoLostWakeupAlways == Spec => []NoLostWakeup
<1>1. WaitInv => NoLostWakeup
  BY DEF WaitInv
<1> QED BY <1>1, WaitInvAlways, PTL

(***************************************************************************)
(* touch.  If now + ttl does not overflow, the deadline is what was asked  *)
(* for, and the compare-exchange installs it against the value it loaded.  *)
(***************************************************************************)
TouchInv ==
    /\ \A t \in Threads : pc[t] \in ArmPcs /\ asked[t] <= SENTINEL => deadline[t] = asked[t]
    /\ \A t \in Threads : done[t] = "touchOk" /\ asked[t] <= SENTINEL => exp >= asked[t]

LEMMA TouchStep ==
    ASSUME TypeOK, WaitInv, TouchInv, [Next]_vars PROVE TouchInv'
<1>0. /\ TypeOK' /\ exp' >= exp /\ exp \in Nat /\ exp' \in Nat
      /\ Word = 0 .. SENTINEL /\ SENTINEL \in Nat
  BY TypeNext, ExpirationStep, WordAssumption DEF TypeOK, Word
<1>a. \A u \in Threads : done[u] = "touchOk" /\ asked[u] <= SENTINEL => exp' >= asked[u]
  <2>1. \A u \in Threads : asked[u] \in Nat
    BY DEF TypeOK
  <2> QED BY <1>0, <2>1 DEF TouchInv
<1>1. CASE UNCHANGED <<pc, deadline, asked, done>>
  BY <1>a, <1>1 DEF TouchInv
<1>2. ASSUME NEW c \in Counts, pc' = AfterWake(c, pc), UNCHANGED <<deadline, asked, done>>
      PROVE  TouchInv'
  <2>1. \A u \in Threads : pc'[u] \in ArmPcs => pc[u] \in ArmPcs
    BY <1>2 DEF AfterWake, ArmPcs
  <2> QED BY <1>a, <1>2, <2>1 DEF TouchInv
<1>3. ASSUME NEW t \in Threads, ThreadStep(t) PROVE TouchInv'
  <2>1. ASSUME NEW label, NEW c, NEW x, NEW d, NEW a, Begin(t, label, c, x, d, a),
               label \in ArmPcs /\ a <= SENTINEL => d = a
        PROVE  TouchInv'
    <3>1. \A u \in Threads \ {t} : pc'[u] = pc[u] /\ deadline'[u] = deadline[u]
                                   /\ asked'[u] = asked[u] /\ done'[u] = done[u]
      BY <2>1 DEF Begin, Goto, TypeOK
    <3>2. pc'[t] = label /\ deadline'[t] = d /\ asked'[t] = a /\ done'[t] = "none"
      BY <2>1 DEF Begin, Goto, TypeOK
    <3> QED BY <1>a, <2>1, <3>1, <3>2 DEF TouchInv
  <2>2. CASE FetchAdd(t) \/ OwnerFree(t) \/ AttacherFree(t) \/ WaitStart(t)
    BY <2>1, <2>2 DEF FetchAdd, OwnerFree, AttacherFree, WaitStart, ArmPcs
  <2>3. CASE ArmStart(t)
    <3>1. PICK ttl \in Ttls[t] : Begin(t, "armLoad", "open", 0, WrapAdd(now, ttl), now + ttl)
      BY <2>3 DEF ArmStart
    <3>2. now + ttl <= SENTINEL => WrapAdd(now, ttl) = now + ttl
      BY <1>0, InterlockAssumption DEF TypeOK, WrapAdd
    <3> QED BY <2>1, <3>1, <3>2
  <2>4. CASE Wake(t) \/ FreeWake(t)
    <3>1. UNCHANGED <<deadline, asked, done>>
      BY <2>4 DEF Wake, FreeWake, locals
    <3>2. \A u \in Threads : pc'[u] \in ArmPcs => pc[u] \in ArmPcs
      BY <2>4 DEF Wake, FreeWake, AfterWake, ArmPcs, TypeOK
    <3> QED BY <1>a, <3>1, <3>2 DEF TouchInv
  <2>5. CASE ArmLoad(t) \/ ArmCas(t)
    <3>1. /\ UNCHANGED <<deadline, asked>>
          /\ \A u \in Threads \ {t} : pc'[u] = pc[u] /\ done'[u] = done[u]
          /\ pc[t] \in ArmPcs
      BY <2>5 DEF ArmLoad, ArmCas, Goto, Return, TypeOK, locals, ArmPcs
    <3>2. /\ deadline[t] \in Nat /\ seen[t] \in Nat /\ done[t] = "none"
          /\ asked[t] <= SENTINEL => deadline[t] = asked[t]
      <4>1. deadline[t] \in Nat /\ seen[t] \in Nat
        BY <1>0 DEF TypeOK
      <4>2. done[t] = "none"
        BY <3>1 DEF WaitInv, DoneIdle, ArmPcs
      <4> QED BY <3>1, <4>1, <4>2 DEF TouchInv
    <3>3. done'[t] = "touchOk" => exp' >= deadline[t]
      <4>1. CASE ArmLoad(t)
        BY <1>0, <3>2, <4>1 DEF ArmLoad, Goto, Return, TypeOK, shared
      <4>2. CASE ArmCas(t)
        <5>1. LargerOf(seen[t], deadline[t]) >= deadline[t]
          BY <3>2 DEF LargerOf
        <5> QED BY <3>2, <4>2, <5>1 DEF ArmCas, Goto, Return, TypeOK
      <4> QED BY <2>5, <4>1, <4>2
    <3> QED BY <1>a, <3>1, <3>2, <3>3 DEF TouchInv
  <2>6. CASE WaitStep(t)
    <3>1. /\ UNCHANGED <<deadline, asked>>
          /\ \A u \in Threads \ {t} : pc'[u] = pc[u] /\ done'[u] = done[u]
      BY <2>6 DEF WaitStep, WaitLoad, FutexWait, FutexTimeout, WaitExp, WaitNow, Goto,
                  Return, TypeOK, locals
    <3>2. pc'[t] \notin ArmPcs /\ (done'[t] = done[t] \/ done'[t] # "touchOk")
      BY <2>6 DEF WaitStep, WaitLoad, FutexWait, FutexTimeout, WaitExp, WaitNow, Goto,
                  Return, TypeOK, ArmPcs
    <3> QED BY <1>a, <3>1, <3>2 DEF TouchInv
  <2> QED BY <1>3, <2>2, <2>3, <2>4, <2>5, <2>6 DEF ThreadStep
<1>4. CASE DaemonStep
  <2>1. CASE ReapWake
    BY <1>2, <2>1 DEF ReapWake, Counts, locals
  <2> QED
    BY <1>1, <1>4, <2>1 DEF DaemonStep, EvalStart, EvalLoadOpen, EvalLoadClosed,
       EvalLoadExp, Claim, ReapStore, Drop, locals
<1>5. CASE Tick \/ UNCHANGED vars
  BY <1>1, <1>5 DEF Tick, vars, locals
<1> QED BY <1>3, <1>4, <1>5 DEF Next

(* A touch that returned Ok, and whose now + ttl was a u64, has extended   *)
(* the lease to it, and no other touch takes that back, whatever their     *)
(* ttls and also when the sum of another wraps.                            *)
THEOREM TouchExtendsAlways == Spec => []TouchExtends
<1>1. Init => TouchInv
  BY DEF Init, TouchInv, ArmPcs
<1>2. TouchInv => TouchExtends
  BY DEF TouchInv, TouchExtends
<1>3. TypeOK /\ WaitInv /\ TouchInv /\ [Next]_vars => TouchInv'
  BY TouchStep
<1> QED BY <1>1, <1>2, <1>3, WaitInvAlways, PTL DEF Spec
=============================================================================

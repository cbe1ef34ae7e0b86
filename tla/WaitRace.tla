------------------------------ MODULE WaitRace ------------------------------
(***************************************************************************)
(* WaitRace::wait polls the WaitCounters it owns: one load after the other *)
(* (peek loads open_count, then closed_count) while the daemon stamps and  *)
(* reaps them.  The race owns its counters, so their targets are those set *)
(* before it was built.                                                    *)
(***************************************************************************)
EXTENDS Words

CONSTANTS N,          \* number of counters in the race
          MaxCount    \* bound: counts and targets are at most this

ASSUME RaceAssumption == N \in Nat /\ MaxCount \in Nat /\ MaxCount < SENTINEL

Counters == 1 .. N
None == 0

VARIABLES
    open, closed,   \* the words of each counter
    dying,          \* counters whose reap has stored open_count only
    pc, i,          \* the race's position and its loop variable
    initial,        \* snapshot of the closed counts
    ropen,          \* first half of a peek
    winner, result, \* what the last call returned
    stamps          \* history: what was stored in closed_count during the call

daemon == <<open, closed, dying, stamps>>
race   == <<pc, i, initial, ropen, winner, result>>
vars   == <<daemon, race>>

NoResult == [completed_at |-> 0, state |-> "none"]

TypeOK ==
    /\ open \in [Counters -> Word] /\ closed \in [Counters -> Word]
    /\ dying \subseteq Counters
    /\ pc \in {"idle", "snapshot", "openLoad", "closedLoad", "sleep"}
    /\ i \in 1 .. N + 1 /\ initial \in [Counters -> Word] /\ ropen \in Word
    /\ winner \in {None} \cup Counters
    /\ result \in [completed_at : Word, state : {"none", "Normal", "Overrun", "Timeout"}]
    /\ stamps \in [Counters -> SUBSET Word]

(* Counters in any state that earlier calls of wait_until can leave: never *)
(* delivered, delivered, or delivered and given a higher target.           *)
Init ==
    /\ open \in [Counters -> 0 .. MaxCount] /\ closed \in [Counters -> 0 .. MaxCount]
    /\ \A c \in Counters : closed[c] > 0 => open[c] > 0
    /\ dying = {}
    /\ pc = "idle" /\ i = 1 /\ initial = [c \in Counters |-> 0] /\ ropen = 0
    /\ winner = None /\ result = NoResult
    /\ stamps = [c \in Counters |-> {}]

Polling == {"openLoad", "closedLoad", "sleep"}

(***************************************************************************)
(* The daemon, one thread: no stamp between the two stores of a reap.      *)
(***************************************************************************)
Store(c, v) ==
    /\ closed' = [closed EXCEPT ![c] = v]
    /\ stamps' = [stamps EXCEPT ![c] = stamps[c] \cup {v}]

(* The watched value, SENTINEL included, has reached the target of an entry*)
(* that is Open.                                                           *)
Stamp(c) ==
    /\ dying = {} /\ ~Terminated(open[c], closed[c], 0)
    /\ Value(open[c], closed[c]) > 0
    /\ \E v \in (0 .. MaxCount) \cup {SENTINEL} : v >= open[c] /\ Store(c, v)
    /\ UNCHANGED <<open, dying, race>>

(* interlock_reap: open_count, then closed_count. *)
ReapOpen(c) ==
    /\ dying = {} /\ open[c] # SENTINEL
    /\ open' = [open EXCEPT ![c] = SENTINEL]
    /\ dying' = {c}
    /\ UNCHANGED <<closed, stamps, race>>

ReapClosed(c) ==
    /\ c \in dying
    /\ Store(c, SENTINEL)
    /\ dying' = {}
    /\ UNCHANGED <<open, race>>

DaemonStep == \E c \in Counters : Stamp(c) \/ ReapOpen(c) \/ ReapClosed(c)

(***************************************************************************)
(* The race.                                                               *)
(***************************************************************************)
Start ==
    /\ pc = "idle" /\ pc' = "snapshot" /\ i' = 1
    /\ winner' = None /\ result' = NoResult
    /\ stamps' = [c \in Counters |-> {}]
    /\ UNCHANGED <<open, closed, dying, initial, ropen>>

Snapshot ==
    /\ pc = "snapshot"
    /\ \/ /\ i <= N /\ i' = i + 1 /\ UNCHANGED pc
          /\ initial' = [initial EXCEPT ![i] = closed[i]]
       \/ i > N /\ i' = 1 /\ pc' = "openLoad" /\ UNCHANGED initial
    /\ UNCHANGED <<daemon, ropen, winner, result>>

(* Mutant: the round ends one counter early. *)
OpenLoad_SkipsLast ==
    /\ pc = "openLoad"
    /\ \/ i < N /\ pc' = "closedLoad" /\ ropen' = open[i] /\ UNCHANGED i
       \/ i >= N /\ pc' = "sleep" /\ i' = 1 /\ UNCHANGED ropen
    /\ UNCHANGED <<daemon, initial, winner, result>>

OpenLoad ==
    /\ pc = "openLoad"
    /\ \/ i <= N /\ pc' = "closedLoad" /\ ropen' = open[i] /\ UNCHANGED i
       \/ i > N /\ pc' = "sleep" /\ i' = 1 /\ UNCHANGED ropen
    /\ UNCHANGED <<daemon, initial, winner, result>>

(* Mutant: equality with the snapshot counts as an advance. *)
ClosedLoad_NotPast ==
    /\ pc = "closedLoad" /\ ropen' = 0
    /\ \/ /\ closed[i] >= initial[i] /\ pc' = "idle" /\ i' = 1 /\ winner' = i
          /\ result' = [completed_at |-> closed[i], state |-> check_wake_state(ropen, closed[i])]
       \/ closed[i] < initial[i] /\ pc' = "openLoad" /\ i' = i + 1 /\ UNCHANGED <<winner, result>>
    /\ UNCHANGED <<daemon, initial>>

ClosedLoad ==
    /\ pc = "closedLoad" /\ ropen' = 0
    /\ \/ /\ closed[i] > initial[i] /\ pc' = "idle" /\ i' = 1 /\ winner' = i
          /\ result' = [completed_at |-> closed[i], state |-> check_wake_state(ropen, closed[i])]
       \/ closed[i] <= initial[i] /\ pc' = "openLoad" /\ i' = i + 1 /\ UNCHANGED <<winner, result>>
    /\ UNCHANGED <<daemon, initial>>

Sleep ==
    /\ pc = "sleep" /\ pc' = "openLoad"
    /\ UNCHANGED <<daemon, i, initial, ropen, winner, result>>

RaceStep == Snapshot \/ OpenLoad \/ ClosedLoad \/ Sleep

Next == DaemonStep \/ Start \/ RaceStep

Spec == Init /\ [][Next]_vars

(* The racing thread runs; of the daemon nothing is assumed. *)
FairSpec == Spec /\ WF_vars(RaceStep)

(***************************************************************************)
(* Properties.                                                             *)
(***************************************************************************)

(* The counter that wins was written during this very call, and with the   *)
(* value that is returned: an old delivery never wins a race.  So its      *)
(* state is Normal or Overrun, with one exception, a counter that is being *)
(* reaped: the two loads of a peek may find the SENTINEL in open_count and *)
(* the delivery still in closed_count.                                     *)
WinnerIsReal ==
    winner # None =>
        /\ result.completed_at \in stamps[winner]
        /\ result.state = "Timeout" => open[winner] = SENTINEL

(* A delivery after the snapshot ends the race, whichever counter it is    *)
(* and wherever in its round the loop was.                                 *)
RaceReturns ==
    \A c \in Counters :
        (pc \in Polling /\ closed[c] > initial[c]) ~> (pc = "idle")
=============================================================================

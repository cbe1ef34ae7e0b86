----------------------------- MODULE MCRegistry -----------------------------
(***************************************************************************)
(* Registry for TLC: the create requests of each scenario.                 *)
(***************************************************************************)
EXTENDS Registry

Request(n, tier) ==
    [name |-> n, tier |-> tier, watched_name |-> NoName, watched_word |-> "open",
     interval_ns |-> 0, conditions |-> {}]

(* A timer and a cron with a grid of two milliseconds that take the name   *)
(* from each other, and the requests that are refused: the reserved name,  *)
(* an interval below 1 ms.                                                 *)
TimerRequests ==
    {Request("a", "WaitTimer"), Request("clock", "Interlock"),
     [Request("a", "WaitCron") EXCEPT !.interval_ns = NANOS_PER_MS - 1],
     [Request("a", "WaitCron") EXCEPT !.interval_ns = NANOS_PER_MS * 2]}

(* A plain interlock and, under the other name, a counter or a barrier     *)
(* that watches it.  The watchers are refused while the watched name does  *)
(* not exist.                                                              *)
CounterRequest == [Request("b", "WaitCounter") EXCEPT !.watched_name = "a"]
BarrierRequest ==
    [Request("b", "WaitBarrier") EXCEPT
       !.conditions = {[name |-> "a", word |-> "open", threshold |-> 1]}]
WatchRequests == {Request("a", "Interlock"), CounterRequest, BarrierRequest}
=============================================================================

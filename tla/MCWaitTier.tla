---------------------------- MODULE MCWaitTier -----------------------------
(***************************************************************************)
(* WaitTier for TLC: how far time goes and how many threads wait at once   *)
(* in the study of each tier.                                              *)
(***************************************************************************)
EXTENDS WaitTier, TLC

(* The threads of one owner are interchangeable. *)
Symmetry == Permutations(Waiters)

(* Two threads race the CAS-max of a timer or a counter, or watch the      *)
(* clock; a cron and a barrier are waited on by one.                       *)
RaceTime == [x \in Tiers |-> CASE x = "WaitCounter"           -> 1
                               [] x \in {"WaitCron", "Clock"} -> 5
                               [] OTHER                       -> 2]
RaceWaiters == [x \in Tiers |-> IF x \in {"WaitCron", "WaitBarrier"} THEN 1 ELSE 2]

(* One thread. *)
LongTime == [x \in Tiers |-> IF x \in {"WaitCron", "Clock"} THEN 5 ELSE IF x = "WaitBarrier" THEN 2 ELSE 3]
OneWaiter == [x \in Tiers |-> 1]
=============================================================================

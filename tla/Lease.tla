------------------------------- MODULE Lease -------------------------------
(***************************************************************************)
(* What the lease of an interlock promises, apart from how the words are   *)
(* accessed.  It only ever grows; SENTINEL in it is final; the daemon      *)
(* condemns an interlock only on evidence -- a lease that has run out at   *)
(* that moment, a terminated one, a counter that it saw terminated -- or   *)
(* when another create claims the name; and it lets go of nothing that is  *)
(* not dead.  A renewal after the verdict does not save the interlock.     *)
(*                                                                         *)
(* Interlock and WaitTier implement this specification.                    *)
(***************************************************************************)
EXTENDS Naturals

CONSTANT SENTINEL   \* the lease of a terminated interlock

VARIABLES
    exp,     \* expiration_ns
    now,     \* CLOCK_MONOTONIC
    marked,  \* a counter reads SENTINEL
    noted,   \* the daemon has seen that in the pass under way
    held,    \* the registry has the entry
    phase    \* of the daemon's dealings with it: leased, condemned, reaped

vars == <<exp, now, marked, noted, held, phase>>

Init ==
    /\ exp \in Nat /\ exp < SENTINEL /\ now \in Nat
    /\ marked = FALSE /\ noted = FALSE /\ held = TRUE /\ phase = "leased"

Tick == now' = now + 1 /\ UNCHANGED <<exp, marked, noted, held, phase>>

(* touch; free is the renewal to the end of time. *)
Renew ==
    /\ exp' > exp /\ exp' <= SENTINEL
    /\ UNCHANGED <<now, marked, noted, held, phase>>

(* A counter is terminated, or brought back by a later open. *)
Mark == marked' = ~marked /\ UNCHANGED <<exp, now, noted, held, phase>>

Note ==
    /\ phase = "leased" /\ marked /\ noted' = TRUE
    /\ UNCHANGED <<exp, now, marked, held, phase>>

Condemn ==
    /\ phase = "leased" /\ held /\ phase' = "condemned"
    /\ noted \/ exp <= now \/ exp = SENTINEL
    /\ noted' = FALSE
    /\ UNCHANGED <<exp, now, marked, held>>

Claim ==
    /\ phase = "leased" /\ held /\ phase' = "condemned"
    /\ held' = FALSE
    /\ UNCHANGED <<exp, now, marked, noted>>

Reap ==
    /\ phase = "condemned" /\ phase' = "reaped"
    /\ exp' = SENTINEL
    /\ UNCHANGED <<now, marked, noted, held>>

Forget ==
    /\ phase = "reaped" /\ held' = FALSE
    /\ UNCHANGED <<exp, now, marked, noted, phase>>

Next == Tick \/ Renew \/ Mark \/ Note \/ Condemn \/ Claim \/ Reap \/ Forget

Spec == Init /\ [][Next]_vars
=============================================================================

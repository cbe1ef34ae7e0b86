---------------------------- MODULE MCInterlock ----------------------------
(***************************************************************************)
(* Interlock on a machine with 3-bit words (SENTINEL = 7) whose futexes    *)
(* compare 2 bits: a thread of the owner that makes every call and an      *)
(* attacher; or two threads of the owner that touch with different ttls,   *)
(* one of them so large that late in time the sum wraps, and free.         *)
(***************************************************************************)
EXTENDS Interlock

CONSTANTS o1, o2, o3, a1

Pairs     == {c \in {{o1, a1}, {o2, o3}} : c \subseteq Threads}
Ones      == [t \in Threads |-> IF t \in {o1, a1} THEN {1} ELSE {}]
TouchTtls == [t \in Threads |-> IF t = o2 THEN {2, SENTINEL - 1} ELSE {1}]
=============================================================================

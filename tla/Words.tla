------------------------------- MODULE Words -------------------------------
(***************************************************************************)
(* The u64 words of an interlock and the pure functions the daemon and the *)
(* client apply to them.  SENTINEL stands for u64::MAX and FUTEX_MOD for   *)
(* 2^32, the part of a word that the futex system call compares; both are  *)
(* parameters, so that TLC can use a machine with narrow words and TLAPS   *)
(* every width at once.                                                    *)
(***************************************************************************)
EXTENDS Integers

CONSTANTS SENTINEL,      \* the largest word, u64::MAX
          FUTEX_MOD      \* number of values a futex can tell apart, 2^32

(* Words have a sign bit, and the low half of u64::MAX is all ones too. *)
ASSUME WordAssumption ==
    /\ SENTINEL \in Nat /\ SENTINEL % 2 = 1 /\ SENTINEL >= 3
    /\ FUTEX_MOD \in Nat /\ 2 <= FUTEX_MOD /\ FUTEX_MOD <= SENTINEL + 1
    /\ SENTINEL % FUTEX_MOD = FUTEX_MOD - 1

Word == 0 .. SENTINEL

(* u64 addition as the release build does it, and fetch_add: both wrap. *)
WrapAdd(a, b) == IF a + b > SENTINEL THEN a + b - (SENTINEL + 1) ELSE a + b

LargerOf(a, b) == IF a >= b THEN a ELSE b

(* (open as i64).wrapping_sub(closed as i64): the signed reading of the    *)
(* difference modulo SENTINEL + 1.                                         *)
Value(open, closed) ==
    LET diff == IF open >= closed THEN open - closed
                                  ELSE open - closed + SENTINEL + 1
    IN  IF 2 * diff > SENTINEL THEN diff - (SENTINEL + 1) ELSE diff

(* Mutant: the test for termination forgets the expiration. *)
Terminated_CountersOnly(open, closed, exp) == open = SENTINEL \/ closed = SENTINEL

Terminated(open, closed, exp) ==
    open = SENTINEL \/ closed = SENTINEL \/ exp = SENTINEL

expiration_alive(exp, now) == exp > now

futex_word(value) == value % FUTEX_MOD

check_wake_state(open, closed) ==
    CASE closed = open -> "Normal"
      [] closed > open -> "Overrun"
      [] OTHER         -> "Timeout"

(* The grid line strictly after clock_ms, with u64 multiplication.  The    *)
(* product leaves the word only for intervals of more than 2^63 ms.        *)
next_line(clock_ms, interval_ms) ==
    (((clock_ms \div interval_ms) + 1) * interval_ms) % (SENTINEL + 1)
=============================================================================

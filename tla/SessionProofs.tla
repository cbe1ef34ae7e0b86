---------------------------- MODULE SessionProofs ----------------------------
(***************************************************************************)
(* Proofs about Wire and Session, for every limit of the format, every     *)
(* sequence of calls and every way the bytes are cut.                      *)
(***************************************************************************)
EXTENDS Session, SequenceTheorems, WellFoundedInduction, FiniteSetTheorems, TLAPS

(***************************************************************************)
(* Induction, with a set in the place of the predicate.                    *)
(***************************************************************************)

(* What holds of 0, and of k + 1 when it holds of k, holds up to n. *)
LEMMA Induction ==
    ASSUME NEW n \in Nat, NEW T, 0 \in T,
           \A k \in Nat : k < n /\ k \in T => k + 1 \in T
    PROVE  \A k \in 0 .. n : k \in T
<1> DEFINE Bad == {k \in Nat : k <= n /\ k \notin T}
<1>1. Bad = {}
  <2> SUFFICES ASSUME Bad # {} PROVE FALSE
    OBVIOUS
  <2>1. PICK x \in Bad : \A y \in Bad : ~ (<<y, x>> \in OpToRel(<, Nat))
    BY NatLessThanWellFounded, WFMin
  <2>2. \A y \in Bad : ~ (y < x)
    BY <2>1 DEF OpToRel
  <2>3. x # 0 /\ x - 1 \in Nat /\ x - 1 < x /\ x - 1 < n
    OBVIOUS
  <2>4. x - 1 \in T
    BY <2>2, <2>3
  <2> QED BY <2>3, <2>4
<1> QED BY <1>1

(***************************************************************************)
(* The bytes of an integer.                                                *)
(***************************************************************************)

(* The two recursions of to_le_bytes and from_le_bytes. *)
LowByte(y) == y % 256
Shift(y)   == y \div 256

LeftStep(x, f, k) == IF k = 0 THEN x ELSE Shift(f[k - 1])
Left(x, n) == CHOOSE f : f = [k \in 0 .. n |-> LeftStep(x, f, k)]

LastStep(b, f, k) == IF k = 0 THEN 0 ELSE b[Len(b) - k + 1] + 256 * f[k - 1]
Last(b) == CHOOSE f : f = [k \in 0 .. Len(b) |-> LastStep(b, f, k)]

LEMMA ToIsLeft ==
    ASSUME NEW x, NEW n PROVE to_le_bytes(x, n) = [i \in 1 .. n |-> LowByte(Left(x, n)[i - 1])]
BY DEF to_le_bytes, Left, LeftStep, Shift, LowByte

LEMMA FromIsLast ==
    ASSUME NEW b PROVE from_le_bytes(b) = Last(b)[Len(b)]
BY DEF from_le_bytes, Last, LastStep

(* A recursion along 0 .. n has a solution: each step extends one. *)
LEMMA LeftExists ==
    ASSUME NEW x \in Nat, NEW n \in Nat
    PROVE  /\ Left(x, n) \in [0 .. n -> Nat] /\ Left(x, n)[0] = x
           /\ \A k \in 1 .. n : Left(x, n)[k] = Shift(Left(x, n)[k - 1])
<1> DEFINE Sol(m, f) == /\ f \in [0 .. m -> Nat] /\ f[0] = x
                        /\ \A k \in 1 .. m : f[k] = Shift(f[k - 1])
           T == {m \in Nat : \E f : Sol(m, f)}
<1>1. 0 \in T
  <2> DEFINE f == [k \in 0 .. 0 |-> x]
  <2>1. Sol(0, f)
    OBVIOUS
  <2> QED BY <2>1
<1>2. ASSUME NEW m \in Nat, m \in T PROVE m + 1 \in T
  <2>1. PICK g : Sol(m, g)
    BY <1>2
  <2> DEFINE f == [k \in 0 .. m + 1 |-> IF k = m + 1 THEN Shift(g[m]) ELSE g[k]]
  <2>2. Shift(g[m]) \in Nat
    <3>1. g[m] \in Nat
      BY <2>1
    <3> QED BY <3>1 DEF Shift
  <2>3. f \in [0 .. m + 1 -> Nat]
    BY <2>1, <2>2
  <2>4. f[0] = x
    BY <2>1
  <2>5. ASSUME NEW k \in 1 .. m + 1 PROVE f[k] = Shift(f[k - 1])
    <3>1. k - 1 \in 0 .. m + 1 /\ k - 1 # m + 1 /\ f[k - 1] = g[k - 1]
      OBVIOUS
    <3>2. CASE k = m + 1
      BY <3>1, <3>2
    <3>3. CASE k # m + 1
      <4>1. f[k] = g[k] /\ g[k] = Shift(g[k - 1])
        BY <2>1, <3>3
      <4> QED BY <3>1, <4>1
    <3> QED BY <3>2, <3>3
  <2>6. Sol(m + 1, f)
    BY <2>3, <2>4, <2>5
  <2> HIDE DEF Sol, f
  <2> QED BY <2>6
<1>3. n \in T
  <2> HIDE DEF T
  <2>1. \A k \in 0 .. n : k \in T
    BY <1>1, <1>2, Induction
  <2> QED BY <2>1
<1>4. PICK g : Sol(n, g)
  BY <1>3
<1>5. g = [k \in 0 .. n |-> LeftStep(x, g, k)]
  <2>1. ASSUME NEW k \in 0 .. n PROVE g[k] = LeftStep(x, g, k)
    BY <1>4 DEF LeftStep
  <2> QED BY <1>4, <2>1
<1>6. Left(x, n) = [k \in 0 .. n |-> LeftStep(x, Left(x, n), k)]
  BY <1>5 DEF Left
<1> DEFINE h == Left(x, n)
<1>7. h[0] = x /\ \A k \in 1 .. n : h[k] = Shift(h[k - 1])
  BY <1>6 DEF LeftStep
<1> HIDE DEF h
<1>8. \A k \in 0 .. n : h[k] \in Nat
  <2> DEFINE U == {k \in Nat : k <= n => h[k] \in Nat}
  <2>1. 0 \in U
    BY <1>7
  <2>2. ASSUME NEW k \in Nat, k < n, k \in U PROVE k + 1 \in U
    <3>1. h[k] \in Nat /\ h[k + 1] = Shift(h[(k + 1) - 1]) /\ (k + 1) - 1 = k
      BY <1>7, <2>2
    <3> QED BY <3>1 DEF Shift
  <2>3. \A k \in 0 .. n : k \in U
    <3> HIDE DEF U
    <3> QED BY <2>1, <2>2, Induction
  <2> QED BY <2>3
<1>9. h \in [0 .. n -> Nat]
  BY <1>6, <1>8 DEF h
<1> QED BY <1>7, <1>9 DEF h

(* to_le_bytes gives n bytes. *)
LEMMA ToBytes ==
    ASSUME NEW x \in Nat, NEW n \in Nat
    PROVE  /\ to_le_bytes(x, n) \in Seq(Byte) /\ Len(to_le_bytes(x, n)) = n
           /\ \A i \in 1 .. n : to_le_bytes(x, n)[i] = LowByte(Left(x, n)[i - 1])
<1> DEFINE h == Left(x, n)
<1>1. \A k \in 0 .. n : h[k] \in Nat
  BY LeftExists
<1>2. to_le_bytes(x, n) = [i \in 1 .. n |-> LowByte(h[i - 1])]
  BY ToIsLeft
<1> HIDE DEF h
<1>3. \A i \in 1 .. n : LowByte(h[i - 1]) \in Byte
  <2> SUFFICES ASSUME NEW i \in 1 .. n PROVE LowByte(h[i - 1]) \in Byte
    OBVIOUS
  <2>1. h[i - 1] \in Nat
    BY <1>1
  <2> QED BY <2>1 DEF Byte, LowByte
<1>4. [i \in 1 .. n |-> LowByte(h[i - 1])] \in Seq(Byte)
  BY <1>3
<1>5. Len([i \in 1 .. n |-> LowByte(h[i - 1])]) = n
  OBVIOUS
<1> QED BY <1>2, <1>4, <1>5 DEF h

LEMMA LastExists ==
    ASSUME NEW b \in Seq(Byte)
    PROVE  /\ Last(b) \in [0 .. Len(b) -> Nat] /\ Last(b)[0] = 0
           /\ \A k \in 1 .. Len(b) : Last(b)[k] = b[Len(b) - k + 1] + 256 * Last(b)[k - 1]
<1> DEFINE n == Len(b)
           byte(k) == b[n - k + 1]
           Sol(m, f) == /\ f \in [0 .. m -> Nat] /\ f[0] = 0
                        /\ \A k \in 1 .. m : f[k] = byte(k) + 256 * f[k - 1]
           T == {m \in Nat : m <= n => \E f : Sol(m, f)}
<1>0. n \in Nat /\ \A k \in 1 .. n : byte(k) \in Nat
  <2>1. n \in Nat
    BY LenProperties
  <2>2. ASSUME NEW k \in 1 .. n PROVE byte(k) \in Nat
    <3>1. n - k + 1 \in 1 .. n
      BY <2>1
    <3>2. b[n - k + 1] \in Byte
      BY <3>1, ElementOfSeq
    <3>3. \A y \in Byte : y \in Nat
      BY DEF Byte
    <3> QED BY <3>2, <3>3
  <2> QED BY <2>1, <2>2
<1> HIDE DEF n, byte
<1>1. 0 \in T
  <2> DEFINE f == [k \in 0 .. 0 |-> 0]
  <2>1. Sol(0, f)
    OBVIOUS
  <2> QED BY <2>1, ZenonT(30)
<1> HIDE DEF Sol
<1>2. ASSUME NEW m \in Nat, m < n, m \in T PROVE m + 1 \in T
  <2>1. PICK g : Sol(m, g)
    BY <1>0, <1>2
  <2> DEFINE f == [k \in 0 .. m + 1 |-> IF k = m + 1 THEN byte(m + 1) + 256 * g[m] ELSE g[k]]
  <2>2. byte(m + 1) + 256 * g[m] \in Nat
    <3>1. g[m] \in Nat
      BY <2>1 DEF Sol
    <3>2. byte(m + 1) \in Nat
      BY <1>0, <1>2
    <3> QED BY <3>1, <3>2
  <2>3. f \in [0 .. m + 1 -> Nat]
    BY <2>1, <2>2 DEF Sol
  <2>4. f[0] = 0
    BY <2>1 DEF Sol
  <2>5. ASSUME NEW k \in 1 .. m + 1 PROVE f[k] = byte(k) + 256 * f[k - 1]
    <3>1. k - 1 \in 0 .. m + 1 /\ k - 1 # m + 1 /\ f[k - 1] = g[k - 1]
      OBVIOUS
    <3>2. CASE k = m + 1
      BY <3>1, <3>2
    <3>3. CASE k # m + 1
      <4>1. f[k] = g[k] /\ g[k] = byte(k) + 256 * g[k - 1]
        BY <2>1, <3>3, SMTT(30) DEF Sol
      <4> QED BY <3>1, <4>1
    <3> QED BY <3>2, <3>3
  <2>6. Sol(m + 1, f)
    BY <2>3, <2>4, <2>5 DEF Sol
  <2> HIDE DEF f
  <2> QED BY <2>6
<1>3. \E f : Sol(n, f)
  <2>1. \A k \in 0 .. n : k \in T
    <3> HIDE DEF T
    <3> QED BY <1>0, <1>1, <1>2, Induction
  <2> QED BY <1>0, <2>1
<1>4. PICK g : Sol(n, g)
  BY <1>3
<1>5. g = [k \in 0 .. n |-> LastStep(b, g, k)]
  <2>1. ASSUME NEW k \in 0 .. n PROVE g[k] = LastStep(b, g, k)
    BY <1>0, <1>4 DEF LastStep, byte, n, Sol
  <2> QED BY <1>4, <2>1 DEF Sol
<1>6. Last(b) = [k \in 0 .. n |-> LastStep(b, Last(b), k)]
  BY <1>5 DEF Last, n
<1> DEFINE h == Last(b)
<1>7. h[0] = 0 /\ \A k \in 1 .. n : h[k] = byte(k) + 256 * h[k - 1]
  BY <1>0, <1>6, SMTT(30) DEF LastStep, byte, n
<1> HIDE DEF h
<1>8. \A k \in 0 .. n : h[k] \in Nat
  <2> DEFINE U == {k \in Nat : k <= n => h[k] \in Nat}
  <2>1. 0 \in U
    BY <1>7
  <2>2. ASSUME NEW k \in Nat, k < n, k \in U PROVE k + 1 \in U
    <3>1. h[k] \in Nat /\ h[k + 1] = byte(k + 1) + 256 * h[(k + 1) - 1] /\ (k + 1) - 1 = k
      BY <1>0, <1>7, <2>2
    <3>2. byte(k + 1) \in Nat
      BY <1>0, <2>2
    <3> QED BY <3>1, <3>2
  <2>3. \A k \in 0 .. n : k \in U
    <3> HIDE DEF U
    <3> QED BY <1>0, <2>1, <2>2, Induction
  <2> QED BY <2>3
<1>9. h \in [0 .. n -> Nat]
  BY <1>6, <1>8 DEF h
<1> QED BY <1>7, <1>9 DEF h, n, byte

(* from_le_bytes gives a number. *)
LEMMA FromNat ==
    ASSUME NEW b \in Seq(Byte) PROVE from_le_bytes(b) \in Nat
<1>1. Len(b) \in Nat
  BY LenProperties
<1> QED BY <1>1, LastExists, FromIsLast

(* The round trip: n bytes give the number back when they hold all of it. *)
LEMMA RoundTrip ==
    ASSUME NEW x \in Nat, NEW n \in Nat, Left(x, n)[n] = 0
    PROVE  from_le_bytes(to_le_bytes(x, n)) = x
<1> DEFINE b == to_le_bytes(x, n)
           q == Left(x, n)
           h == Last(b)
           T == {k \in Nat : k <= n => h[k] = q[n - k]}
<1>1. b \in Seq(Byte) /\ Len(b) = n /\ \A i \in 1 .. n : b[i] = LowByte(q[i - 1])
  BY ToBytes
<1>2. /\ q[0] = x /\ q[n] = 0 /\ \A k \in 0 .. n : q[k] \in Nat
      /\ \A k \in 1 .. n : q[k] = Shift(q[k - 1])
  BY LeftExists, ZenonT(30)
<1>3. h[0] = 0 /\ \A k \in 1 .. n : h[k] = b[n - k + 1] + 256 * h[k - 1]
  BY <1>1, LastExists
<1>4. from_le_bytes(b) = h[n]
  BY <1>1, FromIsLast
<1> HIDE DEF b, q, h
<1>5. 0 \in T
  BY <1>2, <1>3
<1>6. ASSUME NEW k \in Nat, k < n, k \in T PROVE k + 1 \in T
  <2> DEFINE j == n - k
  <2>1. j \in 1 .. n /\ n - (k + 1) + 1 = j /\ (k + 1) - 1 = k /\ n - (k + 1) = j - 1
    BY <1>6
  <2>2. h[k + 1] = b[n - (k + 1) + 1] + 256 * h[(k + 1) - 1]
    BY <1>3, <1>6
  <2>3. h[k] = q[j]
    BY <1>6
  <2> HIDE DEF j
  <2>4. h[k + 1] = LowByte(q[j - 1]) + 256 * Shift(q[j - 1])
    BY <1>1, <1>2, <2>1, <2>2, <2>3
  <2>5. q[j - 1] \in Nat
    BY <1>2, <2>1
  <2>6. h[k + 1] = q[j - 1]
    BY <2>4, <2>5 DEF LowByte, Shift
  <2> QED BY <2>1, <2>6
<1>7. \A k \in 0 .. n : k \in T
  <2> HIDE DEF T
  <2> QED BY <1>5, <1>6, Induction
<1>8. h[n] = q[0]
  BY <1>7
<1> QED BY <1>2, <1>4, <1>8 DEF b

(* The widths of the format: 2 and 4 bytes hold every length, and 8 a u64. *)
Fits16(x) == x < 256 * 256

LEMMA TwoBytes ==
    ASSUME NEW x \in Nat, Fits16(x) PROVE from_le_bytes(to_le_bytes(x, 2)) = x
<1> DEFINE q == Left(x, 2)
<1>0. 2 \in Nat
  OBVIOUS
<1>1. q[0] = x /\ \A k \in 1 .. 2 : q[k] = Shift(q[k - 1])
  BY <1>0, LeftExists
<1> HIDE DEF q
<1>2. q[1] = x \div 256
  BY <1>1 DEF Shift
<1>3. q[2] = (x \div 256) \div 256
  BY <1>1, <1>2 DEF Shift
<1>4. q[2] = 0
  BY <1>3 DEF Fits16
<1> QED BY <1>4, RoundTrip DEF q

LEMMA FourBytes ==
    ASSUME NEW x \in Nat, Fits16(x)
    PROVE  /\ from_le_bytes(to_le_bytes(x, 4)) = x
           /\ to_le_bytes(x, 4)[3] = 0 /\ to_le_bytes(x, 4)[4] = 0
           /\ to_le_bytes(x, 4)[1] = to_le_bytes(x, 2)[1]
           /\ to_le_bytes(x, 4)[2] = to_le_bytes(x, 2)[2]
<1> DEFINE q == Left(x, 4)
           r == Left(x, 2)
<1>0. 2 \in Nat /\ 4 \in Nat
  OBVIOUS
<1>1. q[0] = x /\ \A k \in 1 .. 4 : q[k] = Shift(q[k - 1])
  BY <1>0, LeftExists
<1>2. r[0] = x /\ \A k \in 1 .. 2 : r[k] = Shift(r[k - 1])
  BY <1>0, LeftExists
<1> HIDE DEF q, r
<1>3. \A i \in 1 .. 4 : to_le_bytes(x, 4)[i] = LowByte(q[i - 1])
  BY ToBytes DEF q
<1>4. \A i \in 1 .. 2 : to_le_bytes(x, 2)[i] = LowByte(r[i - 1])
  BY ToBytes DEF r
<1>5. q[1] = x \div 256 /\ r[1] = x \div 256
  BY <1>1, <1>2 DEF Shift
<1>6. q[2] = (x \div 256) \div 256
  BY <1>1, <1>5 DEF Shift
<1>7. q[2] = 0
  BY <1>6 DEF Fits16
<1>8. q[3] = 0 \div 256
  BY <1>1, <1>7 DEF Shift
<1>9. q[3] = 0
  BY <1>8
<1>10. q[4] = 0
  <2>1. q[4] = Shift(0)
    BY <1>1, <1>9
  <2> QED BY <2>1 DEF Shift
<1>11. from_le_bytes(to_le_bytes(x, 4)) = x
  BY <1>10, RoundTrip DEF q
<1>12. to_le_bytes(x, 4)[3] = 0 /\ to_le_bytes(x, 4)[4] = 0
  BY <1>3, <1>7, <1>9 DEF LowByte
<1>13. to_le_bytes(x, 4)[1] = to_le_bytes(x, 2)[1] /\ to_le_bytes(x, 4)[2] = to_le_bytes(x, 2)[2]
  BY <1>1, <1>2, <1>3, <1>4, <1>5
<1> QED BY <1>11, <1>12, <1>13

LEMMA EightBytes ==
    ASSUME NEW x \in u64 PROVE x \in Nat /\ from_le_bytes(to_le_bytes(x, 8)) = x
<1> DEFINE q == Left(x, 8)
<1>0. x \in Nat /\ 8 \in Nat
  BY DEF u64
<1>1. ((x \div 65536) \div 65536) \div 65536 < 65536
  BY DEF u64
<1>2. q[0] = x /\ \A k \in 1 .. 8 : q[k] = Shift(q[k - 1])
  BY <1>0, LeftExists
<1>3. \A k \in 0 .. 8 : q[k] \in Nat
  BY <1>0, LeftExists, ZenonT(30)
<1> HIDE DEF q
<1>4. \A k \in 0 .. 6 : q[k + 2] = q[k] \div 65536
  <2> SUFFICES ASSUME NEW k \in 0 .. 6 PROVE q[k + 2] = q[k] \div 65536
    OBVIOUS
  <2>1. q[k] \in Nat /\ q[k + 1] = Shift(q[k]) /\ q[k + 2] = Shift(q[k + 1])
    <3>1. (k + 1) - 1 = k /\ (k + 2) - 1 = k + 1 /\ k + 1 \in 1 .. 8 /\ k + 2 \in 1 .. 8
      OBVIOUS
    <3> QED BY <1>2, <1>3, <3>1
  <2> QED BY <2>1 DEF Shift
<1>5. q[2] = x \div 65536
  BY <1>2, <1>4
<1>6. q[4] = (x \div 65536) \div 65536
  BY <1>4, <1>5
<1>7. q[6] = ((x \div 65536) \div 65536) \div 65536
  BY <1>4, <1>6
<1>8. q[8] = q[6] \div 65536
  BY <1>4
<1>9. q[6] \in Nat /\ q[6] < 65536
  BY <1>0, <1>1, <1>3, <1>7
<1>10. q[8] = 0
  BY <1>8, <1>9
<1> QED BY <1>0, <1>10, RoundTrip DEF q

(***************************************************************************)
(* Bytes at a place.                                                       *)
(***************************************************************************)

(* The bytes of data from index pos on begin with those of s. *)
At(data, pos, s) == /\ pos + Len(s) <= Len(data)
                    /\ \A i \in 1 .. Len(s) : data[pos + i] = s[i]

LEMMA SliceFacts ==
    ASSUME NEW S, NEW data \in Seq(S), NEW pos \in Nat, NEW n \in Nat, pos + n <= Len(data)
    PROVE  /\ Slice(data, pos, n) \in Seq(S) /\ Len(Slice(data, pos, n)) = n
           /\ \A i \in 1 .. n : Slice(data, pos, n)[i] = data[pos + i]
<1>1. Len(data) \in Nat /\ \A i \in 1 .. Len(data) : data[i] \in S
  BY LenProperties, ElementOfSeq
<1>2. pos + 1 \in Int /\ pos + n \in Int /\ \A i \in pos + 1 .. pos + n : data[i] \in S
  BY <1>1
<1>3. /\ SubSeq(data, pos + 1, pos + n) \in Seq(S)
      /\ Len(SubSeq(data, pos + 1, pos + n)) =
            IF pos + 1 <= pos + n THEN (pos + n) - (pos + 1) + 1 ELSE 0
      /\ \A i \in 1 .. (pos + n) - (pos + 1) + 1 :
            SubSeq(data, pos + 1, pos + n)[i] = data[(pos + 1) + i - 1]
  BY <1>2, SubSeqProperties, SMTT(30)
<1>4. (pos + n) - (pos + 1) + 1 = n /\ \A i \in 1 .. n : (pos + 1) + i - 1 = pos + i
  OBVIOUS
<1> DEFINE t == SubSeq(data, pos + 1, pos + n)
<1> HIDE DEF t
<1>5. t \in Seq(S) /\ Len(t) = n /\ \A i \in 1 .. n : t[i] = data[pos + i]
  BY <1>3, <1>4 DEF t
<1> QED BY <1>5 DEF Slice, t

LEMMA FromFacts ==
    ASSUME NEW S, NEW data \in Seq(S), NEW pos \in Nat
    PROVE  /\ From(data, pos) \in Seq(S)
           /\ pos <= Len(data) => /\ Len(From(data, pos)) = Len(data) - pos
                                  /\ \A i \in 1 .. Len(data) - pos : From(data, pos)[i] = data[pos + i]
<1>1. Len(data) \in Nat /\ \A i \in 1 .. Len(data) : data[i] \in S
  BY LenProperties, ElementOfSeq
<1>2. CASE pos <= Len(data)
  <2>1. Len(data) - pos \in Nat /\ pos + (Len(data) - pos) = Len(data)
    BY <1>1, <1>2
  <2> DEFINE n == Len(data) - pos
  <2>2. From(data, pos) = Slice(data, pos, n)
    BY <2>1 DEF From, Slice
  <2>3. n \in Nat /\ pos + n <= Len(data)
    BY <1>1, <2>1
  <2> HIDE DEF n
  <2>4. /\ Slice(data, pos, n) \in Seq(S) /\ Len(Slice(data, pos, n)) = n
        /\ \A i \in 1 .. n : Slice(data, pos, n)[i] = data[pos + i]
    BY <2>3, SliceFacts
  <2> QED BY <2>2, <2>4 DEF n
<1>3. CASE ~(pos <= Len(data))
  <2>1. From(data, pos) = <<>>
    BY <1>1, <1>3, SubSeqEmpty DEF From
  <2>2. <<>> \in Seq(S)
    BY EmptySeq
  <2> QED BY <1>3, <2>1, <2>2
<1> QED BY <1>2, <1>3

LEMMA AtSelf == ASSUME NEW S, NEW s \in Seq(S) PROVE At(s, 0, s)
<1>1. Len(s) \in Nat
  BY LenProperties
<1> QED BY <1>1 DEF At

LEMMA AtConcat ==
    ASSUME NEW S, NEW data \in Seq(S), NEW pos \in Nat, NEW a \in Seq(S), NEW b \in Seq(S)
    PROVE  At(data, pos, a \o b) <=> At(data, pos, a) /\ At(data, pos + Len(a), b)
<1> DEFINE m == Len(a)
           n == Len(b)
           s == a \o b
           L == Len(data)
<1>1. m \in Nat /\ n \in Nat /\ L \in Nat /\ Len(s) = m + n
  BY LenProperties, ConcatProperties
<1>2. \A i \in 1 .. m + n : s[i] = IF i <= m THEN a[i] ELSE b[i - m]
  BY ConcatProperties
<1> HIDE DEF m, n, s, L
<1>3. \A i \in 1 .. m : i \in 1 .. m + n /\ s[i] = a[i]
  BY <1>1, <1>2
<1>4. \A i \in 1 .. n : m + i \in 1 .. m + n /\ s[m + i] = b[i]
  <2> SUFFICES ASSUME NEW i \in 1 .. n PROVE m + i \in 1 .. m + n /\ s[m + i] = b[i]
    OBVIOUS
  <2>1. m + i \in 1 .. m + n /\ ~(m + i <= m) /\ (m + i) - m = i
    BY <1>1
  <2>2. s[m + i] = b[(m + i) - m]
    BY <1>2, <2>1
  <2> QED BY <2>1, <2>2
<1>5. ASSUME At(data, pos, s) PROVE At(data, pos, a) /\ At(data, pos + m, b)
  <2>1. pos + (m + n) <= L /\ \A i \in 1 .. m + n : data[pos + i] = s[i]
    BY <1>1, <1>5 DEF At, L
  <2>2. At(data, pos, a)
    <3>1. pos + m <= L
      BY <1>1, <2>1
    <3>2. \A i \in 1 .. m : data[pos + i] = a[i]
      BY <1>3, <2>1
    <3> QED BY <3>1, <3>2 DEF At, L, m
  <2>3. At(data, pos + m, b)
    <3>1. (pos + m) + n <= L
      BY <1>1, <2>1
    <3>2. \A i \in 1 .. n : data[(pos + m) + i] = b[i]
      <4> SUFFICES ASSUME NEW i \in 1 .. n PROVE data[(pos + m) + i] = b[i]
        OBVIOUS
      <4>1. data[pos + (m + i)] = b[i]
        BY <1>4, <2>1
      <4>2. pos + (m + i) = (pos + m) + i
        BY <1>1
      <4> QED BY <4>1, <4>2
    <3> QED BY <3>1, <3>2 DEF At, L, n
  <2> QED BY <2>2, <2>3
<1>6. ASSUME At(data, pos, a), At(data, pos + m, b) PROVE At(data, pos, s)
  <2>1. \A i \in 1 .. m : data[pos + i] = a[i]
    BY <1>6 DEF At, m
  <2>2. (pos + m) + n <= L /\ \A i \in 1 .. n : data[(pos + m) + i] = b[i]
    BY <1>6 DEF At, L, n
  <2>3. pos + (m + n) <= L
    BY <1>1, <2>2
  <2>4. ASSUME NEW i \in 1 .. m + n PROVE data[pos + i] = s[i]
    <3>1. CASE i <= m
      <4>1. i \in 1 .. m
        BY <1>1, <3>1
      <4> QED BY <1>3, <2>1, <4>1
    <3>2. CASE ~(i <= m)
      <4>1. i - m \in 1 .. n /\ (pos + m) + (i - m) = pos + i /\ m + (i - m) = i
        BY <1>1, <3>2
      <4>2. data[(pos + m) + (i - m)] = b[i - m] /\ s[m + (i - m)] = b[i - m]
        BY <1>4, <2>2, <4>1
      <4> QED BY <4>1, <4>2
    <3> QED BY <3>1, <3>2
  <2> QED BY <1>1, <2>3, <2>4 DEF At, L
<1> QED BY <1>5, <1>6 DEF s, m

LEMMA AtSlice ==
    ASSUME NEW S, NEW data \in Seq(S), NEW pos \in Nat, NEW s \in Seq(S), At(data, pos, s)
    PROVE  Slice(data, pos, Len(s)) = s
<1> DEFINE n == Len(s)
           t == Slice(data, pos, n)
<1>1. n \in Nat /\ pos + n <= Len(data) /\ \A i \in 1 .. n : data[pos + i] = s[i]
  BY LenProperties DEF At
<1>2. Len(s) = n
  OBVIOUS
<1> HIDE DEF n
<1>3. t \in Seq(S) /\ Len(t) = n /\ \A i \in 1 .. n : t[i] = data[pos + i]
  BY <1>1, SliceFacts, SMTT(30)
<1> HIDE DEF t
<1>4. \A i \in 1 .. Len(t) : t[i] = s[i]
  BY <1>1, <1>3
<1>5. t = s
  BY <1>2, <1>3, <1>4, SeqEqual, ZenonT(30)
<1> QED BY <1>5 DEF t, n

LEMMA AtFrom ==
    ASSUME NEW S, NEW data \in Seq(S), NEW pos \in Nat, NEW q \in Nat, NEW s \in Seq(S),
           At(data, pos + q, s)
    PROVE  pos <= Len(data) /\ At(From(data, pos), q, s)
<1> DEFINE n == Len(s)
           L == Len(data)
           t == From(data, pos)
<1>1. n \in Nat /\ L \in Nat /\ (pos + q) + n <= L /\ \A i \in 1 .. n : data[(pos + q) + i] = s[i]
  BY LenProperties DEF At
<1>2. pos <= L
  BY <1>1
<1>3. Len(t) = L - pos /\ \A i \in 1 .. L - pos : t[i] = data[pos + i]
  BY <1>2, FromFacts
<1> HIDE DEF n, L, t
<1>4. q + n <= L - pos
  BY <1>1
<1>5. ASSUME NEW i \in 1 .. n PROVE t[q + i] = s[i]
  <2>1. q + i \in 1 .. L - pos /\ pos + (q + i) = (pos + q) + i
    BY <1>1
  <2> QED BY <1>1, <1>3, <2>1
<1>6. At(t, q, s)
  BY <1>3, <1>4, <1>5 DEF At, n
<1> QED BY <1>2, <1>6 DEF t, L

(* Two sequences of one length, one of which holds the other, are the same. *)
LEMMA AtWhole ==
    ASSUME NEW S, NEW s \in Seq(S), NEW t \in Seq(S), At(s, 0, t), Len(t) = Len(s)
    PROVE  s = t
<1>1. Len(s) \in Nat /\ \A i \in 1 .. Len(s) : s[0 + i] = t[i]
  BY LenProperties DEF At
<1>2. \A i \in 1 .. Len(s) : s[i] = t[i]
  BY <1>1
<1> QED BY <1>2, SeqEqual

(***************************************************************************)
(* Strings and frames.                                                     *)
(***************************************************************************)

LEMMA TextIsBytes == ASSUME NEW s \in Text PROVE s \in Seq(Byte) /\ Len(s) \in Nat
<1>1. 0 .. 127 \subseteq Byte
  BY DEF Byte
<1> QED BY <1>1, SeqMonotonic, LenProperties, ZenonT(30) DEF Text

LEMMA EncodedString ==
    ASSUME NEW s \in Text
    PROVE  encode_string(s) \in Seq(Byte) /\ Len(encode_string(s)) = 2 + Len(s)
<1>1. s \in Seq(Byte) /\ Len(s) \in Nat
  BY TextIsBytes
<1>2. 2 \in Nat
  OBVIOUS
<1>3. to_le_bytes(Len(s), 2) \in Seq(Byte) /\ Len(to_le_bytes(Len(s), 2)) = 2
  BY <1>1, <1>2, ToBytes
<1> DEFINE le == to_le_bytes(Len(s), 2)
<1> HIDE DEF le
<1>4. le \o s \in Seq(Byte) /\ Len(le \o s) = Len(le) + Len(s)
  BY <1>1, <1>3, ConcatProperties DEF le
<1> QED BY <1>3, <1>4 DEF encode_string, le

(* decode_string finds the string that encode_string put at pos. *)
LEMMA DecodeString ==
    ASSUME NEW data \in Seq(Byte), NEW pos \in Nat, NEW s \in Text, Fits16(Len(s)),
           At(data, pos, encode_string(s))
    PROVE  decode_string(From(data, pos)) = Ok(s)
<1> DEFINE le == to_le_bytes(Len(s), 2)
           t  == From(data, pos)
           e  == encode_string(s)
<1>1. s \in Seq(Byte) /\ Len(s) \in Nat /\ \A i \in 1 .. Len(s) : s[i] \in 0 .. 127
  BY TextIsBytes, ElementOfSeq DEF Text
<1>2. le \in Seq(Byte) /\ Len(le) = 2
  <2>1. 2 \in Nat
    OBVIOUS
  <2> QED BY <1>1, <2>1, ToBytes
<1>3. from_le_bytes(le) = Len(s)
  BY <1>1, TwoBytes
<1>4. e \in Seq(Byte) /\ e = le \o s
  BY EncodedString DEF encode_string
<1> HIDE DEF le, e
<1>5. At(data, pos + 0, e)
  BY DEF e
<1>6. t \in Seq(Byte) /\ At(t, 0, e)
  <2>1. 0 \in Nat
    OBVIOUS
  <2> QED BY <1>4, <1>5, <2>1, AtFrom, FromFacts
<1> HIDE DEF t
<1>7. At(t, 0, le) /\ At(t, 2, s)
  <2>1. 0 \in Nat /\ 0 + Len(le) = 2
    BY <1>2
  <2>2. At(t, 0, le) /\ At(t, 0 + Len(le), s)
    BY <1>1, <1>2, <1>4, <1>6, <2>1, AtConcat
  <2> QED BY <2>1, <2>2
<1>8. Slice(t, 0, 2) = le /\ Slice(t, 2, Len(s)) = s
  <2>1. 0 \in Nat /\ 2 \in Nat
    OBVIOUS
  <2>2. Slice(t, 0, Len(le)) = le
    BY <1>2, <1>6, <1>7, <2>1, AtSlice
  <2>3. Slice(t, 2, Len(s)) = s
    BY <1>1, <1>6, <1>7, <2>1, AtSlice
  <2> QED BY <1>2, <2>2, <2>3
<1>9. Len(t) \in Nat /\ 2 + Len(s) <= Len(t)
  BY <1>6, <1>7, LenProperties DEF At
<1>10. ~ (Len(t) < 2 \/ Len(t) < 2 + Len(s))
  BY <1>1, <1>9
<1>11. ~ \E i \in DOMAIN s : s[i] > 127
  <2>1. DOMAIN s = 1 .. Len(s)
    BY <1>1, LenProperties
  <2>2. \A y \in 0 .. 127 : ~(y > 127)
    OBVIOUS
  <2> QED BY <1>1, <2>1, <2>2
<1>12. decode_string(t) = Ok(s)
  BY <1>3, <1>8, <1>10, <1>11 DEF decode_string
<1> QED BY <1>12 DEF t

(* And decode_string_then finds it when there is a byte behind it. *)
LEMMA DecodeStringThen ==
    ASSUME NEW data \in Seq(Byte), NEW pos \in Nat, NEW s \in Text, Fits16(Len(s)),
           At(data, pos, encode_string(s)), pos + 2 + Len(s) < Len(data)
    PROVE  decode_string_then(data, pos) = Ok(s)
<1>1. decode_string(From(data, pos)) = Ok(s)
  BY DecodeString
<1>2. Len(s) \in Nat /\ Len(data) \in Nat
  BY TextIsBytes, LenProperties
<1>3. ~(pos + 2 + Len(s) >= Len(data))
  BY <1>2
<1>4. Ok(s).value = s
  BY DEF Ok
<1> QED BY <1>1, <1>3, <1>4 DEF decode_string_then

(* The bytes of a frame. *)
FrameBytes(payload) == to_le_bytes(Len(payload), LENGTH_PREFIX_BYTES) \o payload

LEMMA Limits == MAX_MESSAGE_SIZE \in Nat /\ Fits16(MAX_MESSAGE_SIZE)
                /\ STRING_MAX \in Nat /\ MAX_MESSAGE_SIZE < STRING_MAX /\ Fits16(STRING_MAX)
BY WireAssumption DEF Fits16

(* A frame that is not too large: its prefix passes the test and gives the *)
(* size of the payload.                                                    *)
LEMMA FramePrefix ==
    ASSUME NEW n \in Nat, n <= MAX_MESSAGE_SIZE
    PROVE  LET p == to_le_bytes(n, LENGTH_PREFIX_BYTES)
           IN  /\ p \in Seq(Byte) /\ Len(p) = 4
               /\ ~TooLarge(p) /\ from_le_bytes(p) = n
<1> DEFINE p == to_le_bytes(n, LENGTH_PREFIX_BYTES)
           r == to_le_bytes(n, 2)
<1>1. LENGTH_PREFIX_BYTES = 4 /\ 4 \in Nat /\ 2 \in Nat /\ 0 \in Nat
  BY DEF LENGTH_PREFIX_BYTES
<1>2. p \in Seq(Byte) /\ Len(p) = 4 /\ r \in Seq(Byte) /\ Len(r) = 2
  BY <1>1, ToBytes
<1>3. Fits16(n)
  BY Limits DEF Fits16
<1>4. /\ from_le_bytes(p) = n /\ p[3] = 0 /\ p[4] = 0
      /\ p[1] = r[1] /\ p[2] = r[2]
  BY <1>1, <1>3, FourBytes
<1>5. from_le_bytes(r) = n
  BY <1>3, TwoBytes
<1> HIDE DEF p, r
<1> DEFINE t == Slice(p, 0, 2)
<1>6. At(p, 0, r)
  <2>1. \A i \in 1 .. 2 : p[0 + i] = r[i]
    BY <1>4
  <2> QED BY <1>2, <2>1 DEF At
<1>7. t = r
  <2>1. Slice(p, 0, Len(r)) = r
    BY <1>1, <1>2, <1>6, AtSlice
  <2> QED BY <1>2, <2>1
<1> HIDE DEF t
<1>8. ~TooLarge(p)
  <2>1. ~(p[3] + p[4] > 0)
    BY <1>4
  <2>2. ~(from_le_bytes(t) > MAX_MESSAGE_SIZE)
    BY <1>5, <1>7, Limits
  <2> QED BY <2>1, <2>2 DEF TooLarge, t
<1> QED BY <1>2, <1>4, <1>8 DEF p

(***************************************************************************)
(* The conditions of a barrier.                                            *)
(***************************************************************************)
Condition == Text \X Byte \X u64

(* One more condition behind the bytes of s. *)
WithCondition(s, cd) == ((s \o encode_string(cd[1])) \o <<cd[2]>>) \o to_le_bytes(cd[3], 8)

(* The recursion of encode_conditions. *)
PartStep(conds, f, k) == IF k = 0 THEN <<>> ELSE WithCondition(f[k - 1], conds[k])

Part(conds) == CHOOSE f : f = [k \in 0 .. Len(conds) |-> PartStep(conds, f, k)]

LEMMA EncodedConditions ==
    ASSUME NEW conds
    PROVE  encode_conditions(conds) =
              to_le_bytes(Len(conds) % (256 * 256), 2) \o Part(conds)[Len(conds)]
BY DEF encode_conditions, Part, PartStep, WithCondition

LEMMA ConditionParts ==
    ASSUME NEW cd \in Condition
    PROVE  /\ cd[1] \in Text /\ cd[2] \in Byte /\ cd[3] \in u64 /\ cd = <<cd[1], cd[2], cd[3]>>
           /\ encode_string(cd[1]) \in Seq(Byte) /\ Len(encode_string(cd[1])) = 2 + Len(cd[1])
           /\ <<cd[2]>> \in Seq(Byte) /\ Len(<<cd[2]>>) = 1
           /\ to_le_bytes(cd[3], 8) \in Seq(Byte) /\ Len(to_le_bytes(cd[3], 8)) = 8
           /\ Len(cd[1]) \in Nat
<1>1. cd[1] \in Text /\ cd[2] \in Byte /\ cd[3] \in u64 /\ cd = <<cd[1], cd[2], cd[3]>>
  BY DEF Condition
<1>2. encode_string(cd[1]) \in Seq(Byte) /\ Len(encode_string(cd[1])) = 2 + Len(cd[1])
  BY <1>1, EncodedString
<1>3. <<cd[2]>> \in Seq(Byte) /\ Len(<<cd[2]>>) = 1
  BY <1>1
<1>4. to_le_bytes(cd[3], 8) \in Seq(Byte) /\ Len(to_le_bytes(cd[3], 8)) = 8
  <2>1. cd[3] \in Nat /\ 8 \in Nat
    BY <1>1 DEF u64
  <2> QED BY <2>1, ToBytes
<1>5. Len(cd[1]) \in Nat
  BY <1>1, TextIsBytes
<1> QED BY <1>1, <1>2, <1>3, <1>4, <1>5

(* Where the parts of a condition are. *)
LEMMA WithConditionFacts ==
    ASSUME NEW s \in Seq(Byte), NEW cd \in Condition
    PROVE  /\ WithCondition(s, cd) \in Seq(Byte)
           /\ Len(WithCondition(s, cd)) = Len(s) + 11 + Len(cd[1])
           /\ \A data \in Seq(Byte), pos \in Nat :
                 At(data, pos, WithCondition(s, cd)) =>
                     /\ At(data, pos, s)
                     /\ At(data, pos + Len(s), encode_string(cd[1]))
                     /\ At(data, (pos + Len(s)) + (2 + Len(cd[1])), <<cd[2]>>)
                     /\ At(data, (pos + Len(s)) + (3 + Len(cd[1])), to_le_bytes(cd[3], 8))
<1> DEFINE a == encode_string(cd[1])
           b == <<cd[2]>>
           e == to_le_bytes(cd[3], 8)
           m == Len(s)
           n == Len(cd[1])
<1>1. /\ a \in Seq(Byte) /\ Len(a) = 2 + n /\ b \in Seq(Byte) /\ Len(b) = 1
      /\ e \in Seq(Byte) /\ Len(e) = 8 /\ n \in Nat
  BY ConditionParts
<1>2. WithCondition(s, cd) = ((s \o a) \o b) \o e
  BY DEF WithCondition
<1>3. m \in Nat
  BY LenProperties
<1> HIDE DEF a, b, e, n
<1>4. s \o a \in Seq(Byte) /\ Len(s \o a) = m + Len(a)
  BY <1>1, ConcatProperties
<1> HIDE DEF m
<1> DEFINE u == s \o a
<1> HIDE DEF u
<1>5. u \in Seq(Byte) /\ Len(u) = m + Len(a)
  BY <1>4 DEF u
<1>6. u \o b \in Seq(Byte) /\ Len(u \o b) = Len(u) + Len(b)
  BY <1>1, <1>5, ConcatProperties
<1> DEFINE v == u \o b
<1> HIDE DEF v
<1>7. v \in Seq(Byte) /\ Len(v) = Len(u) + Len(b)
  BY <1>6 DEF v
<1>8. v \o e \in Seq(Byte) /\ Len(v \o e) = Len(v) + Len(e)
  BY <1>1, <1>7, ConcatProperties
<1>9. Len(v \o e) = m + 11 + n
  BY <1>1, <1>3, <1>5, <1>7, <1>8
<1>10. ASSUME NEW data \in Seq(Byte), NEW pos \in Nat, At(data, pos, v \o e)
       PROVE  /\ At(data, pos, s) /\ At(data, pos + m, a)
              /\ At(data, (pos + m) + (2 + n), b) /\ At(data, (pos + m) + (3 + n), e)
  <2>1. At(data, pos, v) /\ At(data, pos + Len(v), e)
    BY <1>1, <1>7, <1>10, AtConcat
  <2>2. At(data, pos, u) /\ At(data, pos + Len(u), b)
    BY <1>1, <1>5, <2>1, AtConcat DEF v
  <2>3. At(data, pos, s) /\ At(data, pos + m, a)
    BY <1>1, <2>2, AtConcat DEF u, m
  <2>4. pos + Len(v) = (pos + m) + (3 + n) /\ pos + Len(u) = (pos + m) + (2 + n)
    BY <1>1, <1>3, <1>5, <1>7
  <2> QED BY <2>1, <2>2, <2>3, <2>4
<1> QED BY <1>2, <1>8, <1>9, <1>10 DEF a, b, e, m, n, u, v

(* Each condition is put behind those before it. *)
LEMMA PartExists ==
    ASSUME NEW conds \in Seq(Condition)
    PROVE  /\ \A k \in 0 .. Len(conds) : Part(conds)[k] \in Seq(Byte)
           /\ Part(conds)[0] = <<>>
           /\ \A k \in 1 .. Len(conds) : Part(conds)[k] = WithCondition(Part(conds)[k - 1], conds[k])
<1> DEFINE n == Len(conds)
           Sol(m, f) == /\ f \in [0 .. m -> Seq(Byte)] /\ f[0] = <<>>
                        /\ \A k \in 1 .. m : f[k] = WithCondition(f[k - 1], conds[k])
           T == {m \in Nat : m <= n => \E f : Sol(m, f)}
<1>0. n \in Nat /\ \A k \in 1 .. n : conds[k] \in Condition
  BY LenProperties, ElementOfSeq
<1>a. <<>> \in Seq(Byte)
  BY EmptySeq
<1> HIDE DEF n
<1>1. 0 \in T
  <2> DEFINE f == [k \in 0 .. 0 |-> <<>>]
  <2>1. Sol(0, f)
    BY <1>a
  <2> QED BY <2>1
<1> HIDE DEF Sol
<1>2. ASSUME NEW m \in Nat, m < n, m \in T PROVE m + 1 \in T
  <2>1. PICK g : Sol(m, g)
    BY <1>0, <1>2
  <2> DEFINE new == WithCondition(g[m], conds[m + 1])
             f == [k \in 0 .. m + 1 |-> IF k = m + 1 THEN new ELSE g[k]]
  <2>2. new \in Seq(Byte)
    <3>1. g[m] \in Seq(Byte)
      BY <2>1 DEF Sol
    <3>2. conds[m + 1] \in Condition
      BY <1>0, <1>2
    <3> QED BY <3>1, <3>2, WithConditionFacts
  <2>3. f \in [0 .. m + 1 -> Seq(Byte)]
    BY <2>1, <2>2 DEF Sol
  <2>4. f[0] = <<>>
    BY <2>1 DEF Sol
  <2>5. ASSUME NEW k \in 1 .. m + 1 PROVE f[k] = WithCondition(f[k - 1], conds[k])
    <3>1. k - 1 \in 0 .. m + 1 /\ k - 1 # m + 1 /\ f[k - 1] = g[k - 1]
      OBVIOUS
    <3>2. CASE k = m + 1
      BY <3>1, <3>2
    <3>3. CASE k # m + 1
      <4>1. k \in 1 .. m /\ f[k] = g[k]
        BY <3>3
      <4>2. g[k] = WithCondition(g[k - 1], conds[k])
        BY <2>1, <4>1 DEF Sol
      <4> QED BY <3>1, <4>1, <4>2
    <3> QED BY <3>2, <3>3
  <2>6. Sol(m + 1, f)
    BY <2>3, <2>4, <2>5 DEF Sol
  <2> HIDE DEF f
  <2> QED BY <2>6
<1>3. \E f : Sol(n, f)
  <2>1. \A k \in 0 .. n : k \in T
    <3> HIDE DEF T
    <3> QED BY <1>0, <1>1, <1>2, Induction
  <2> QED BY <1>0, <2>1
<1>4. PICK g : Sol(n, g)
  BY <1>3
<1>5. g = [k \in 0 .. n |-> PartStep(conds, g, k)]
  <2>1. ASSUME NEW k \in 0 .. n PROVE g[k] = PartStep(conds, g, k)
    BY <1>0, <1>4 DEF PartStep, Sol
  <2> QED BY <1>4, <2>1 DEF Sol
<1>6. Part(conds) = [k \in 0 .. n |-> PartStep(conds, Part(conds), k)]
  BY <1>5 DEF Part, n
<1> DEFINE h == Part(conds)
<1> HIDE DEF h
<1>7. h = [k \in 0 .. n |-> PartStep(conds, h, k)]
  BY <1>6 DEF h
<1>8. h[0] = <<>> /\ \A k \in 1 .. n : h[k] = WithCondition(h[k - 1], conds[k])
  <2>1. 0 \in 0 .. n /\ \A k \in 1 .. n : k \in 0 .. n /\ k # 0
    BY <1>0
  <2>2. \A k \in 0 .. n : h[k] = PartStep(conds, h, k)
    BY <1>7
  <2> QED BY <2>1, <2>2 DEF PartStep
<1>9. \A k \in 0 .. n : h[k] \in Seq(Byte)
  <2> DEFINE U == {k \in Nat : k <= n => h[k] \in Seq(Byte)}
  <2>1. 0 \in U
    BY <1>8, <1>a
  <2>2. ASSUME NEW k \in Nat, k < n, k \in U PROVE k + 1 \in U
    <3>1. k + 1 \in 1 .. n /\ (k + 1) - 1 = k
      BY <1>0, <2>2
    <3>2. h[k] \in Seq(Byte) /\ conds[k + 1] \in Condition
      BY <1>0, <2>2, <3>1
    <3>3. h[k + 1] = WithCondition(h[k], conds[k + 1])
      BY <1>8, <3>1
    <3>4. h[k + 1] \in Seq(Byte)
      BY <3>2, <3>3, WithConditionFacts
    <3> QED BY <3>4
  <2>3. \A k \in 0 .. n : k \in U
    <3> HIDE DEF U
    <3> QED BY <1>0, <2>1, <2>2, Induction
  <2> QED BY <2>3
<1> QED BY <1>8, <1>9 DEF h, n

(* The bytes of all the conditions hold those of the first k, at least k. *)
LEMMA PartAt ==
    ASSUME NEW conds \in Seq(Condition), NEW data \in Seq(Byte), NEW pos \in Nat,
           At(data, pos, Part(conds)[Len(conds)])
    PROVE  \A k \in 0 .. Len(conds) :
              /\ At(data, pos, Part(conds)[k]) /\ k <= Len(Part(conds)[k])
              /\ Part(conds)[k] \in Seq(Byte) /\ Len(Part(conds)[k]) \in Nat
<1> DEFINE n == Len(conds)
           h == Part(conds)
           T == {j \in Nat : j <= n => At(data, pos, h[n - j])}
           U == {k \in Nat : k <= n => k <= Len(h[k])}
<1>0. n \in Nat /\ \A k \in 1 .. n : conds[k] \in Condition
  BY LenProperties, ElementOfSeq
<1>1. /\ \A k \in 0 .. n : h[k] \in Seq(Byte)
      /\ h[0] = <<>> /\ \A k \in 1 .. n : h[k] = WithCondition(h[k - 1], conds[k])
  BY PartExists
<1>2. \A k \in 0 .. n : Len(h[k]) \in Nat
  BY <1>1, LenProperties
<1>a. At(data, pos, h[n])
  OBVIOUS
<1> HIDE DEF n, h
<1>3. 0 \in T
  <2>1. n - 0 = n
    BY <1>0
  <2> QED BY <1>a, <2>1
<1>4. ASSUME NEW j \in Nat, j < n, j \in T PROVE j + 1 \in T
  <2> DEFINE k == n - j
  <2>1. k \in 1 .. n /\ k - 1 \in 0 .. n /\ n - (j + 1) = k - 1
    BY <1>0, <1>4
  <2>2. At(data, pos, h[k])
    BY <1>0, <1>4
  <2> HIDE DEF k
  <2>3. h[k] = WithCondition(h[k - 1], conds[k]) /\ h[k - 1] \in Seq(Byte) /\ conds[k] \in Condition
    BY <1>0, <1>1, <2>1
  <2>4. \A t \in Seq(Byte), p \in Nat : At(t, p, WithCondition(h[k - 1], conds[k])) => At(t, p, h[k - 1])
    BY <2>3, WithConditionFacts
  <2>5. At(data, pos, h[k - 1])
    BY <2>2, <2>3, <2>4
  <2> QED BY <2>1, <2>5
<1>5. \A j \in 0 .. n : j \in T
  <2> HIDE DEF T
  <2> QED BY <1>0, <1>3, <1>4, Induction
<1>6. 0 \in U
  <2>1. Len(h[0]) \in Nat
    BY <1>0, <1>2
  <2> QED BY <2>1
<1>7. ASSUME NEW k \in Nat, k < n, k \in U PROVE k + 1 \in U
  <2>1. k + 1 \in 1 .. n /\ (k + 1) - 1 = k /\ k \in 0 .. n
    BY <1>0, <1>7
  <2>2. h[k + 1] = WithCondition(h[k], conds[k + 1]) /\ h[k] \in Seq(Byte) /\ conds[k + 1] \in Condition
    BY <1>0, <1>1, <2>1
  <2>3. Len(h[k + 1]) = Len(h[k]) + 11 + Len(conds[k + 1][1]) /\ Len(conds[k + 1][1]) \in Nat
    BY <2>2, WithConditionFacts, ConditionParts, ZenonT(30)
  <2>4. Len(h[k]) \in Nat /\ k <= Len(h[k])
    BY <1>2, <1>7, <2>1
  <2>5. k + 1 <= Len(h[k + 1])
    <3> DEFINE x == Len(h[k])
               y == Len(conds[k + 1][1])
    <3>1. x \in Nat /\ y \in Nat /\ k <= x /\ Len(h[k + 1]) = x + 11 + y
      BY <2>3, <2>4
    <3> HIDE DEF x, y
    <3>2. k + 1 <= x + 11 + y
      BY <3>1
    <3> QED BY <3>1, <3>2
  <2> QED BY <2>5
<1>8. \A k \in 0 .. n : k \in U
  <2> HIDE DEF U
  <2> QED BY <1>0, <1>6, <1>7, Induction
<1>9. ASSUME NEW k \in 0 .. n PROVE At(data, pos, h[k]) /\ k <= Len(h[k])
  <2>1. n - k \in 0 .. n /\ n - (n - k) = k
    BY <1>0
  <2>a. n - k \in T /\ n - k <= n
    <3> HIDE DEF T
    <3> QED BY <1>0, <1>5, <2>1
  <2>2. At(data, pos, h[n - (n - k)])
    BY <2>a
  <2>3. k <= Len(h[k])
    BY <1>0, <1>8
  <2> QED BY <2>1, <2>2, <2>3
<1> QED BY <1>1, <1>2, <1>9 DEF h, n

(* The recursion of conditions_from: what it makes of the k conditions that *)
(* begin at pos, given what it makes of k - 1.                              *)
CondAt(rest, width, fewer, k, pos) ==
    IF k = 0 THEN Ok(<<>>)
    ELSE LET s == decode_string_then(rest, pos)
             at == pos + 2 + Len(s.value)
             others == fewer[at + width]
         IN  CASE Failed(s) -> s
               [] ~Failed(s) /\ Len(rest) < at + 9 -> Fault("Truncated")
               [] ~Failed(s) /\ Len(rest) >= at + 9 /\ Failed(others) -> others
               [] OTHER ->
                    Ok(<< <<s.value, rest[at + 1],
                            from_le_bytes(Slice(rest, at + 1, 8))>> >> \o others.value)

CondStep(rest, width, f, k) == [pos \in Nat |-> CondAt(rest, width, f[k - 1], k, pos)]

Cond(rest, width, count) == CHOOSE f : f = [k \in 0 .. count |-> CondStep(rest, width, f, k)]

LEMMA ConditionsFrom ==
    ASSUME NEW rest, NEW start, NEW width
    PROVE  LET count == from_le_bytes(Slice(rest, start, 2))
           IN  conditions_from(rest, start, width) =
                  IF Len(rest) < start + 2 THEN Fault("Truncated")
                  ELSE Cond(rest, width, count)[count][start + 2]
BY DEF conditions_from, Cond, CondStep, CondAt

LEMMA CondExists ==
    ASSUME NEW rest, NEW width, NEW n \in Nat
    PROVE  \A k \in 0 .. n : Cond(rest, width, n)[k] = CondStep(rest, width, Cond(rest, width, n), k)
<1> DEFINE Step(f, k) == CondStep(rest, width, f, k)
           Sol(m, f) == f = [k \in 0 .. m |-> Step(f, k)]
           T == {m \in Nat : \E f : Sol(m, f)}
<1>a. ASSUME NEW f, NEW g, NEW k, f[k - 1] = g[k - 1] PROVE Step(f, k) = Step(g, k)
  BY <1>a DEF CondStep
<1>b. ASSUME NEW f, NEW g PROVE Step(f, 0) = Step(g, 0)
  BY DEF CondStep, CondAt
<1> HIDE DEF Step
<1>1. 0 \in T
  <2> DEFINE f == [k \in 0 .. 0 |-> Step(<<>>, 0)]
  <2>1. \A k \in 0 .. 0 : f[k] = Step(f, k)
    BY <1>b
  <2>2. f = [k \in 0 .. 0 |-> f[k]]
    OBVIOUS
  <2> HIDE DEF f
  <2>3. f = [k \in 0 .. 0 |-> Step(f, k)]
    BY <2>1, <2>2
  <2> QED BY <2>3
<1>2. ASSUME NEW m \in Nat, m \in T PROVE m + 1 \in T
  <2>1. PICK g : Sol(m, g)
    BY <1>2
  <2>2. \A k \in 0 .. m : g[k] = Step(g, k)
    BY <2>1
  <2> DEFINE f == [k \in 0 .. m + 1 |-> IF k = m + 1 THEN Step(g, k) ELSE g[k]]
  <2>3. ASSUME NEW k \in 0 .. m + 1 PROVE f[k] = Step(f, k)
    <3>1. f[k] = Step(g, k)
      <4>1. CASE k = m + 1
        BY <4>1
      <4>2. CASE k # m + 1
        <5>1. k \in 0 .. m
          BY <4>2
        <5> QED BY <2>2, <4>2, <5>1
      <4> QED BY <4>1, <4>2
    <3>2. CASE k = 0
      BY <1>b, <3>1, <3>2
    <3>3. CASE k # 0
      <4>1. k - 1 \in 0 .. m + 1 /\ k - 1 # m + 1
        BY <3>3
      <4>2. f[k - 1] = g[k - 1]
        BY <4>1
      <4> HIDE DEF f
      <4> QED BY <1>a, <3>1, <4>2
    <3> QED BY <3>2, <3>3
  <2>4. f = [k \in 0 .. m + 1 |-> f[k]]
    OBVIOUS
  <2> HIDE DEF f
  <2>5. f = [k \in 0 .. m + 1 |-> Step(f, k)]
    BY <2>3, <2>4
  <2> QED BY <2>5
<1>3. \E f : Sol(n, f)
  <2>1. \A k \in 0 .. n : k \in T
    <3> HIDE DEF T
    <3> QED BY <1>1, <1>2, Induction
  <2> QED BY <2>1
<1> DEFINE h == Cond(rest, width, n)
<1>4. h = [k \in 0 .. n |-> Step(h, k)]
  BY <1>3 DEF Cond, Step
<1> HIDE DEF h
<1>5. \A k \in 0 .. n : h[k] = Step(h, k)
  BY <1>4
<1> QED BY <1>5 DEF h, Step

(* decode_conditions finds the conditions that encode_conditions put at    *)
(* start: by induction on how many are left.                               *)
LEMMA DecodeConditions ==
    ASSUME NEW data \in Seq(Byte), Fits16(Len(data)), NEW start \in Nat,
           NEW conds \in Seq(Condition), At(data, start, encode_conditions(conds))
    PROVE  decode_conditions(data, start) = Ok(conds)
<1> DEFINE n == Len(conds)
           h == Part(conds)
           le == to_le_bytes(n, 2)
           first == start + 2
           at(k) == first + Len(h[k])
           C == Cond(data, 9, n)
           T == {j \in Nat : j <= n => C[j][at(n - j)] = Ok(SubSeq(conds, (n - j) + 1, n))}
<1>0. n \in Nat /\ Len(data) \in Nat /\ \A k \in 1 .. n : conds[k] \in Condition
  BY LenProperties, ElementOfSeq
<1>1. /\ \A k \in 0 .. n : h[k] \in Seq(Byte) /\ Len(h[k]) \in Nat
      /\ h[0] = <<>> /\ \A k \in 1 .. n : h[k] = WithCondition(h[k - 1], conds[k])
  BY PartExists, LenProperties
<1> DEFINE mod == n % (256 * 256)
<1>2. mod \in Nat
  BY <1>0
<1> HIDE DEF mod
<1>3. to_le_bytes(mod, 2) \in Seq(Byte) /\ Len(to_le_bytes(mod, 2)) = 2
  <2>1. 2 \in Nat
    OBVIOUS
  <2> QED BY <1>2, <2>1, ToBytes
<1>4. encode_conditions(conds) = to_le_bytes(mod, 2) \o h[n]
  BY EncodedConditions DEF mod
<1> HIDE DEF n, h
<1>5. h[n] \in Seq(Byte)
  BY <1>0, <1>1
<1>6. At(data, start, to_le_bytes(mod, 2)) /\ At(data, start + Len(to_le_bytes(mod, 2)), h[n])
  BY <1>3, <1>4, <1>5, AtConcat
<1>7. At(data, first, h[n]) /\ first \in Nat
  <2>a. first \in Nat
    OBVIOUS
  <2>b. Len(to_le_bytes(mod, 2)) = 2
    BY <1>3
  <2>1. start + Len(to_le_bytes(mod, 2)) = first
    BY <2>b
  <2> HIDE DEF first
  <2> QED BY <1>6, <2>1, <2>a
<1> HIDE DEF first
<1>8. \A k \in 0 .. n : At(data, first, h[k]) /\ k <= Len(h[k])
  BY <1>7, PartAt DEF n, h
<1>9. n <= Len(data)
  <2>1. n <= Len(h[n]) /\ first + Len(h[n]) <= Len(data) /\ Len(h[n]) \in Nat
    BY <1>0, <1>1, <1>7, <1>8 DEF At
  <2> QED BY <1>0, <1>7, <2>1
<1>10. Fits16(n) /\ mod = n
  BY <1>0, <1>9 DEF Fits16, mod
<1>11. Slice(data, start, 2) = le /\ from_le_bytes(le) = n
  <2>1. Slice(data, start, Len(le)) = le
    BY <1>3, <1>6, <1>10, AtSlice
  <2> QED BY <1>0, <1>3, <1>10, <2>1, TwoBytes
<1> HIDE DEF le
<1>12. ~(Len(data) < start + 2)
  <2>1. first + Len(h[n]) <= Len(data) /\ Len(h[n]) \in Nat
    BY <1>0, <1>1, <1>7 DEF At
  <2>2. first <= Len(data)
    BY <1>0, <1>7, <2>1
  <2> QED BY <1>0, <2>2 DEF first
<1>13. decode_conditions(data, start) = C[n][first]
  BY <1>11, <1>12, ConditionsFrom DEF decode_conditions, first
<1>14. \A k \in 0 .. n : C[k] = CondStep(data, 9, C, k)
  BY <1>0, CondExists
<1> HIDE DEF C
<1>15. 0 \in T
  <2>1. SubSeq(conds, (n - 0) + 1, n) = <<>>
    BY <1>0, SubSeqEmpty
  <2>2. at(n - 0) \in Nat
    BY <1>0, <1>1, <1>7
  <2> HIDE DEF at
  <2>3. C[0] = CondStep(data, 9, C, 0)
    BY <1>0, <1>14
  <2>4. C[0][at(n - 0)] = CondAt(data, 9, C[0 - 1], 0, at(n - 0))
    BY <2>2, <2>3 DEF CondStep
  <2>5. C[0][at(n - 0)] = Ok(<<>>)
    BY <2>4 DEF CondAt
  <2> QED BY <2>1, <2>5
<1>16. ASSUME NEW j \in Nat, j < n, j \in T PROVE j + 1 \in T
  <2> DEFINE k == n - j
             cd == conds[k]
             m == Len(h[k - 1])
             w == Len(cd[1])
             pos == first + m
             to == pos + 2 + w
  <2>1. k \in 1 .. n /\ k - 1 \in 0 .. n /\ n - (j + 1) = k - 1 /\ k \in 0 .. n
    BY <1>0, <1>16
  <2>2. C[j][at(k)] = Ok(SubSeq(conds, k + 1, n))
    BY <1>0, <1>16
  <2> HIDE DEF k
  <2>3. cd \in Condition /\ h[k - 1] \in Seq(Byte) /\ m \in Nat /\ h[k] = WithCondition(h[k - 1], cd)
    BY <1>0, <1>1, <2>1
  <2>4. At(data, first, h[k])
    BY <1>8, <2>1
  <2>5. /\ cd[1] \in Text /\ cd = <<cd[1], cd[2], cd[3]>> /\ cd[3] \in u64 /\ w \in Nat
        /\ <<cd[2]>> \in Seq(Byte) /\ Len(<<cd[2]>>) = 1
        /\ to_le_bytes(cd[3], 8) \in Seq(Byte) /\ Len(to_le_bytes(cd[3], 8)) = 8
        /\ encode_string(cd[1]) \in Seq(Byte) /\ Len(encode_string(cd[1])) = 2 + w
    BY <2>3, ConditionParts
  <2>6. /\ Len(h[k]) = m + 11 + w
        /\ \A t \in Seq(Byte), p \in Nat :
              At(t, p, WithCondition(h[k - 1], cd)) =>
                 /\ At(t, p + m, encode_string(cd[1]))
                 /\ At(t, (p + m) + (2 + w), <<cd[2]>>)
                 /\ At(t, (p + m) + (3 + w), to_le_bytes(cd[3], 8))
    BY <2>3, WithConditionFacts
  <2> HIDE DEF cd, m, w
  <2>a. first \in Nat /\ m \in Nat /\ w \in Nat
    BY <1>7, <2>3, <2>5
  <2>7. pos \in Nat /\ to \in Nat /\ (first + m) + (2 + w) = to /\ (first + m) + (3 + w) = to + 1
    BY <2>a
  <2>8. At(data, pos, encode_string(cd[1])) /\ At(data, to, <<cd[2]>>)
    BY <1>7, <2>3, <2>4, <2>6, <2>7
  <2>9. At(data, to + 1, to_le_bytes(cd[3], 8))
    BY <1>7, <2>3, <2>4, <2>6, <2>7
  <2>10. at(k) = to + 9 /\ at(k - 1) = pos
    <3>1. at(k) = first + (m + 11 + w) /\ at(k - 1) = first + m
      BY <2>6 DEF m
    <3> QED BY <2>a, <3>1
  <2> HIDE DEF at, to, pos
  <2>11. (to + 1) + 8 <= Len(data)
    BY <2>5, <2>9 DEF At
  <2>12. data[to + 1] = cd[2]
    <3>1. Len(<<cd[2]>>) = 1 /\ <<cd[2]>>[1] = cd[2]
      BY <2>5
    <3>2. \A i \in 1 .. Len(<<cd[2]>>) : data[to + i] = <<cd[2]>>[i]
      BY <2>8 DEF At
    <3> QED BY <3>1, <3>2
  <2>13. from_le_bytes(Slice(data, to + 1, 8)) = cd[3]
    <3>1. to + 1 \in Nat
      BY <2>7
    <3>2. Slice(data, to + 1, Len(to_le_bytes(cd[3], 8))) = to_le_bytes(cd[3], 8)
      BY <2>5, <2>9, <3>1, AtSlice
    <3> QED BY <2>5, <3>2, EightBytes
  <2>14. decode_string_then(data, pos) = Ok(cd[1])
    <3>1. pos + 2 + w < Len(data) /\ w <= Len(data)
      BY <1>0, <2>a, <2>11 DEF to, pos
    <3>2. Fits16(w)
      BY <1>0, <2>5, <3>1 DEF Fits16
    <3> QED BY <2>5, <2>7, <2>8, <3>1, <3>2, DecodeStringThen DEF w
  <2>15. C[j + 1] = CondStep(data, 9, C, j + 1) /\ (j + 1) - 1 = j /\ j + 1 # 0
    BY <1>0, <1>14, <1>16
  <2>16. C[j + 1][pos] = CondAt(data, 9, C[j], j + 1, pos)
    BY <2>7, <2>15 DEF CondStep
  <2>17. CondAt(data, 9, C[j], j + 1, pos)
            = Ok(<< <<cd[1], cd[2], cd[3]>> >> \o SubSeq(conds, k + 1, n))
    <3> DEFINE s == Ok(cd[1])
               others == C[j][to + 9]
    <3>1. ~Failed(s) /\ s.value = cd[1]
      BY DEF Ok, Failed
    <3>2. others = Ok(SubSeq(conds, k + 1, n))
      BY <2>2, <2>10
    <3>3. ~Failed(others) /\ others.value = SubSeq(conds, k + 1, n)
      <4> HIDE DEF others
      <4> QED BY <3>2 DEF Ok, Failed
    <3>4. Len(data) >= to + 9 /\ ~(Len(data) < to + 9)
      BY <1>0, <2>7, <2>11
    <3>5. pos + 2 + Len(s.value) = to
      BY <3>1 DEF to, w
    <3> HIDE DEF s, others
    <3>6. CondAt(data, 9, C[j], j + 1, pos)
             = Ok(<< <<s.value, data[to + 1], from_le_bytes(Slice(data, to + 1, 8))>> >> \o others.value)
      BY <2>14, <2>15, <3>1, <3>3, <3>4, <3>5 DEF CondAt, s, others
    <3> QED BY <2>12, <2>13, <3>1, <3>3, <3>6
  <2>18. SubSeq(conds, k, n) = <<conds[k]>> \o SubSeq(conds, k + 1, n)
    BY <1>0, <2>1, SubSeqRecursiveFirst DEF n
  <2>19. C[j + 1][at(k - 1)] = Ok(SubSeq(conds, k, n))
    BY <2>5, <2>10, <2>16, <2>17, <2>18 DEF cd
  <2>20. (n - (j + 1)) + 1 = k
    BY <1>0, <2>1
  <2> QED BY <2>1, <2>19, <2>20
<1>17. n \in T
  <2> HIDE DEF T
  <2>1. \A k \in 0 .. n : k \in T
    BY <1>0, <1>15, <1>16, Induction
  <2> QED BY <1>0, <2>1
<1>18. C[n][at(n - n)] = Ok(SubSeq(conds, (n - n) + 1, n))
  BY <1>0, <1>17
<1>19. at(n - n) = first
  <2>1. n - n = 0 /\ Len(h[0]) = 0
    BY <1>0, <1>1
  <2> QED BY <1>7, <2>1
<1>20. SubSeq(conds, (n - n) + 1, n) = conds
  <2>1. (n - n) + 1 = 1
    BY <1>0
  <2> QED BY <2>1, SubSeqFull DEF n
<1> QED BY <1>13, <1>18, <1>19, <1>20

(***************************************************************************)
(* Requests.                                                               *)
(***************************************************************************)
RequestHead(req) == <<PROTOCOL_VERSION, req.tag>> \o encode_string(req.name)

Payload(req) == IF req.tag = TAG_ATTACH_INTERLOCK THEN RequestHead(req)
                ELSE (RequestHead(req) \o <<req.tier>>) \o encode_tier(req)

LEMMA SomeFacts ==
    ASSUME NEW S, NEW x \in Some(S)
    PROVE  x[1] \in S /\ x = <<x[1]>> /\ x # <<>> /\ x \in Seq(S) /\ Len(x) = 1
<1>1. x \in [1 .. 1 -> S]
  BY DEF Some
<1>2. x[1] \in S
  BY <1>1
<1>3. x \in Seq(S) /\ Len(x) = 1
  <2> DEFINE y == [i \in 1 .. 1 |-> x[i]]
  <2>1. \A i \in 1 .. 1 : x[i] \in S
    BY <1>1
  <2>2. y \in Seq(S)
    BY <2>1, IsASeq
  <2>3. Len(y) = 1
    OBVIOUS
  <2>4. x = y
    BY <1>1
  <2> HIDE DEF y
  <2> QED BY <2>2, <2>3, <2>4
<1>4. <<x[1]>> \in Seq(S) /\ Len(<<x[1]>>) = 1
  BY <1>2
<1>5. x = <<x[1]>>
  BY <1>3, <1>4, SeqEqual
<1>6. x # <<>>
  <2> SUFFICES ASSUME x = <<>> PROVE FALSE
    OBVIOUS
  <2>1. Len(x) = 0
    OBVIOUS
  <2>2. Len(x) = 1
    BY <1>3
  <2> QED BY <2>1, <2>2
<1> QED BY <1>2, <1>3, <1>5, <1>6

(* The five shapes of a request, and what the tier of each adds. *)
LEMMA RequestShapes ==
    ASSUME NEW req \in Requests
    PROVE  /\ req.name \in Text
           /\ req.tag \in {TAG_ATTACH_INTERLOCK, TAG_CREATE_INTERLOCK}
           /\ req.tier \in 0 .. 4
           /\ \/ req = AttachInterlock(req.name)
              \/ /\ req.tier \in {0, 2} /\ encode_tier(req) = <<>>
                 /\ req = CreateInterlock(req.name, req.tier, <<>>, <<>>, <<>>, <<>>)
              \/ \E w \in Text, b \in Byte :
                    /\ req = CreateInterlock(req.name, 1, <<w>>, <<b>>, <<>>, <<>>)
                    /\ encode_tier(req) = encode_string(w) \o <<b>>
              \/ \E x \in u64 :
                    /\ req = CreateInterlock(req.name, 3, <<>>, <<>>, <<x>>, <<>>)
                    /\ encode_tier(req) = to_le_bytes(x, 8)
              \/ \E conds \in Seq(Condition) :
                    /\ req = CreateInterlock(req.name, 4, <<>>, <<>>, <<>>, <<conds>>)
                    /\ encode_tier(req) = encode_conditions(conds)
<1> DEFINE Rec(tag, tiers, names, words, intervals, conds) ==
              [tag : {tag}, name : Text, tier : tiers, watched_name : names,
               watched_word : words, interval_ns : intervals, conditions : conds]
<1>1. \/ req \in Rec(2, {0}, {<<>>}, {<<>>}, {<<>>}, {<<>>})
      \/ req \in Rec(1, {0, 2}, {<<>>}, {<<>>}, {<<>>}, {<<>>})
      \/ req \in Rec(1, {1}, Some(Text), Some(Byte), {<<>>}, {<<>>})
      \/ req \in Rec(1, {3}, {<<>>}, {<<>>}, Some(u64), {<<>>})
      \/ req \in Rec(1, {4}, {<<>>}, {<<>>}, {<<>>}, Some(Seq(Condition)))
  BY DEF Requests, Shape, None, TAG_ATTACH_INTERLOCK, TAG_CREATE_INTERLOCK, Condition
<1>2. CASE req \in Rec(2, {0}, {<<>>}, {<<>>}, {<<>>}, {<<>>})
  <2>1. req = AttachInterlock(req.name)
    BY <1>2 DEF AttachInterlock, CreateInterlock, TAG_ATTACH_INTERLOCK
  <2>2. req.name \in Text /\ req.tag = 2 /\ req.tier = 0
    BY <1>2
  <2> QED BY <2>1, <2>2 DEF TAG_ATTACH_INTERLOCK
<1>3. CASE req \in Rec(1, {0, 2}, {<<>>}, {<<>>}, {<<>>}, {<<>>})
  <2>1. req = CreateInterlock(req.name, req.tier, <<>>, <<>>, <<>>, <<>>)
    BY <1>3 DEF CreateInterlock, TAG_CREATE_INTERLOCK
  <2>2. req.name \in Text /\ req.tag = 1 /\ req.tier \in {0, 2}
    BY <1>3
  <2>3. encode_tier(req) = <<>>
    BY <2>2 DEF encode_tier
  <2> QED BY <2>1, <2>2, <2>3 DEF TAG_CREATE_INTERLOCK
<1>4. CASE req \in Rec(1, {1}, Some(Text), Some(Byte), {<<>>}, {<<>>})
  <2> DEFINE w == req.watched_name[1]
             b == req.watched_word[1]
  <2>1. req.name \in Text /\ req.tag = 1 /\ req.tier = 1
    BY <1>4
  <2>2. req.watched_name \in Some(Text) /\ req.watched_word \in Some(Byte)
    BY <1>4
  <2>3. /\ w \in Text /\ req.watched_name = <<w>> /\ req.watched_name # <<>>
        /\ b \in Byte /\ req.watched_word = <<b>> /\ req.watched_word # <<>>
    BY <2>2, SomeFacts
  <2>4. req.interval_ns = <<>> /\ req.conditions = <<>>
    BY <1>4
  <2> HIDE DEF w, b
  <2>5. req = CreateInterlock(req.name, 1, <<w>>, <<b>>, <<>>, <<>>)
    BY <1>4, <2>1, <2>3, <2>4 DEF CreateInterlock, TAG_CREATE_INTERLOCK
  <2>6. encode_tier(req) = encode_string(w) \o <<b>>
    BY <2>1, <2>3 DEF encode_tier, w
  <2>7. w \in Text /\ b \in Byte
    BY <2>3
  <2>8. req.tag = TAG_CREATE_INTERLOCK /\ req.tier \in 0 .. 4
    BY <2>1 DEF TAG_CREATE_INTERLOCK
  <2> QED BY <2>1, <2>5, <2>6, <2>7, <2>8
<1>5. CASE req \in Rec(1, {3}, {<<>>}, {<<>>}, Some(u64), {<<>>})
  <2> DEFINE x == req.interval_ns[1]
  <2>1. req.name \in Text /\ req.tag = 1 /\ req.tier = 3 /\ req.interval_ns \in Some(u64)
    BY <1>5
  <2>2. x \in u64 /\ req.interval_ns = <<x>> /\ req.interval_ns # <<>>
    BY <2>1, SomeFacts
  <2>3. req.watched_name = <<>> /\ req.watched_word = <<>> /\ req.conditions = <<>>
    BY <1>5
  <2> HIDE DEF x
  <2>4. req = CreateInterlock(req.name, 3, <<>>, <<>>, <<x>>, <<>>)
    BY <1>5, <2>1, <2>2, <2>3 DEF CreateInterlock, TAG_CREATE_INTERLOCK
  <2>5. encode_tier(req) = to_le_bytes(x, 8)
    BY <2>1, <2>2 DEF encode_tier, x
  <2> QED BY <2>1, <2>2, <2>4, <2>5 DEF TAG_CREATE_INTERLOCK
<1>6. CASE req \in Rec(1, {4}, {<<>>}, {<<>>}, {<<>>}, Some(Seq(Condition)))
  <2> DEFINE x == req.conditions[1]
  <2>1. req.name \in Text /\ req.tag = 1 /\ req.tier = 4 /\ req.conditions \in Some(Seq(Condition))
    BY <1>6
  <2>2. x \in Seq(Condition) /\ req.conditions = <<x>> /\ req.conditions # <<>>
    BY <2>1, SomeFacts
  <2>3. req.watched_name = <<>> /\ req.watched_word = <<>> /\ req.interval_ns = <<>>
    BY <1>6
  <2> HIDE DEF x
  <2>4. req = CreateInterlock(req.name, 4, <<>>, <<>>, <<>>, <<x>>)
    BY <1>6, <2>1, <2>2, <2>3 DEF CreateInterlock, TAG_CREATE_INTERLOCK
  <2>5. encode_tier(req) = encode_conditions(x)
    BY <2>1, <2>2 DEF encode_tier, x
  <2> QED BY <2>1, <2>2, <2>4, <2>5 DEF TAG_CREATE_INTERLOCK
<1> QED BY <1>1, <1>2, <1>3, <1>4, <1>5, <1>6

LEMMA ConditionsAreBytes ==
    ASSUME NEW conds \in Seq(Condition) PROVE encode_conditions(conds) \in Seq(Byte)
<1> DEFINE n == Len(conds)
           le == to_le_bytes(n % (256 * 256), 2)
           p == Part(conds)[n]
<1>1. n \in Nat
  BY LenProperties
<1>2. p \in Seq(Byte)
  BY <1>1, PartExists
<1>3. le \in Seq(Byte)
  <2>1. n % (256 * 256) \in Nat /\ 2 \in Nat
    BY <1>1
  <2> QED BY <2>1, ToBytes
<1>4. encode_conditions(conds) = le \o p
  BY EncodedConditions
<1> HIDE DEF le, p
<1> QED BY <1>2, <1>3, <1>4, ConcatProperties

LEMMA TierBytes ==
    ASSUME NEW req \in Requests, req.tag = TAG_CREATE_INTERLOCK
    PROVE  encode_tier(req) \in Seq(Byte)
<1>1. req # AttachInterlock(req.name)
  <2>1. AttachInterlock(req.name).tag = TAG_ATTACH_INTERLOCK
    BY DEF AttachInterlock, CreateInterlock
  <2> QED BY <2>1 DEF TAG_ATTACH_INTERLOCK, TAG_CREATE_INTERLOCK
<1>2. CASE encode_tier(req) = <<>>
  BY <1>2, EmptySeq
<1>3. ASSUME NEW w \in Text, NEW b \in Byte, encode_tier(req) = encode_string(w) \o <<b>>
      PROVE  encode_tier(req) \in Seq(Byte)
  <2>1. encode_string(w) \in Seq(Byte) /\ <<b>> \in Seq(Byte)
    BY EncodedString
  <2> QED BY <1>3, <2>1, ConcatProperties
<1>4. ASSUME NEW x \in u64, encode_tier(req) = to_le_bytes(x, 8)
      PROVE  encode_tier(req) \in Seq(Byte)
  <2>1. x \in Nat /\ 8 \in Nat
    BY DEF u64
  <2> QED BY <1>4, <2>1, ToBytes
<1>5. ASSUME NEW conds \in Seq(Condition), encode_tier(req) = encode_conditions(conds)
      PROVE  encode_tier(req) \in Seq(Byte)
  BY <1>5, ConditionsAreBytes
<1> QED BY <1>1, <1>2, <1>3, <1>4, <1>5, RequestShapes

(* Where the parts of a request are in its payload. *)
LEMMA PayloadFacts ==
    ASSUME NEW req \in Requests
    PROVE  /\ Payload(req) \in Seq(Byte) /\ Len(req.name) \in Nat
           /\ Payload(req)[1] = PROTOCOL_VERSION /\ Payload(req)[2] = req.tag
           /\ 4 + Len(req.name) <= Len(Payload(req))
           /\ At(Payload(req), 2, encode_string(req.name))
           /\ req.tag = TAG_CREATE_INTERLOCK =>
                 /\ At(Payload(req), 4 + Len(req.name), <<req.tier>>)
                 /\ At(Payload(req), 5 + Len(req.name), encode_tier(req))
                 /\ Len(Payload(req)) = 5 + Len(req.name) + Len(encode_tier(req))
<1> DEFINE P == Payload(req)
           v == <<PROTOCOL_VERSION, req.tag>>
           e == encode_string(req.name)
           n == Len(req.name)
           hd == RequestHead(req)
           t == <<req.tier>>
           tb == encode_tier(req)
<1>1. req.name \in Text /\ req.tag \in {1, 2} /\ req.tier \in Byte
  <2>1. req.name \in Text /\ req.tag \in {TAG_ATTACH_INTERLOCK, TAG_CREATE_INTERLOCK} /\ req.tier \in 0 .. 4
    BY RequestShapes
  <2>2. 0 .. 4 \subseteq Byte
    BY DEF Byte
  <2> QED BY <2>1, <2>2 DEF TAG_ATTACH_INTERLOCK, TAG_CREATE_INTERLOCK
<1>2. n \in Nat /\ e \in Seq(Byte) /\ Len(e) = 2 + n
  BY <1>1, TextIsBytes, EncodedString
<1>3. v \in Seq(Byte) /\ Len(v) = 2 /\ v[1] = PROTOCOL_VERSION /\ v[2] = req.tag
  BY <1>1 DEF PROTOCOL_VERSION, Byte
<1>4. t \in Seq(Byte) /\ Len(t) = 1
  BY <1>1
<1>5. hd = v \o e
  BY DEF RequestHead
<1>6. req.tag = TAG_ATTACH_INTERLOCK => P = hd
  BY DEF Payload
<1>7. req.tag = TAG_CREATE_INTERLOCK => P = (hd \o t) \o tb /\ tb \in Seq(Byte)
  BY TierBytes DEF Payload, TAG_ATTACH_INTERLOCK, TAG_CREATE_INTERLOCK
<1> HIDE DEF P, v, e, n, hd, t, tb
<1>8. hd \in Seq(Byte) /\ Len(hd) = 4 + n
  <2>1. v \o e \in Seq(Byte) /\ Len(v \o e) = Len(v) + Len(e)
    BY <1>2, <1>3, ConcatProperties
  <2> QED BY <1>2, <1>3, <1>5, <2>1
(* Whatever begins with the head begins with its parts. *)
<1>9. ASSUME NEW p \in Seq(Byte), At(p, 0, hd)
      PROVE  p[1] = PROTOCOL_VERSION /\ p[2] = req.tag /\ 4 + n <= Len(p) /\ At(p, 2, e)
  <2>1. 0 \in Nat
    OBVIOUS
  <2>2. At(p, 0, v) /\ At(p, 0 + Len(v), e)
    BY <1>2, <1>3, <1>5, <1>9, <2>1, AtConcat
  <2>3. At(p, 2, e)
    <3>1. 0 + Len(v) = 2
      BY <1>3
    <3> QED BY <2>2, <3>1
  <2>4. p[1] = v[1] /\ p[2] = v[2]
    <3>1. \A i \in 1 .. Len(v) : p[0 + i] = v[i]
      BY <2>2 DEF At
    <3>2. 1 \in 1 .. Len(v) /\ 2 \in 1 .. Len(v) /\ 0 + 1 = 1 /\ 0 + 2 = 2
      BY <1>3
    <3> QED BY <3>1, <3>2
  <2>5. 4 + n <= Len(p)
    <3>1. 0 + Len(hd) <= Len(p)
      BY <1>9 DEF At
    <3> QED BY <1>2, <1>8, <3>1
  <2> QED BY <1>3, <2>3, <2>4, <2>5
<1>10. CASE req.tag = 2
  <2>1. P = hd
    BY <1>6, <1>10 DEF TAG_ATTACH_INTERLOCK
  <2>2. At(P, 0, hd)
    BY <1>8, <2>1, AtSelf
  <2> QED BY <1>2, <1>8, <1>9, <1>10, <2>1, <2>2 DEF TAG_CREATE_INTERLOCK, P, e, n
<1>11. CASE req.tag = 1
  <2> DEFINE q == hd \o t
  <2>1. P = q \o tb /\ tb \in Seq(Byte)
    BY <1>7, <1>11 DEF TAG_CREATE_INTERLOCK
  <2>2. q \in Seq(Byte) /\ Len(q) = Len(hd) + Len(t)
    BY <1>4, <1>8, ConcatProperties
  <2>a. q = hd \o t
    OBVIOUS
  <2> HIDE DEF q
  <2>3. P \in Seq(Byte) /\ Len(P) = Len(q) + Len(tb)
    BY <2>1, <2>2, ConcatProperties
  <2>4. At(P, 0, q) /\ At(P, 0 + Len(q), tb)
    <3>1. 0 \in Nat /\ At(P, 0, q \o tb)
      BY <2>1, <2>3, AtSelf
    <3> QED BY <2>1, <2>2, <2>3, <3>1, AtConcat
  <2>5. At(P, 0, hd) /\ At(P, 0 + Len(hd), t)
    <3>1. 0 \in Nat
      OBVIOUS
    <3> QED BY <1>4, <1>8, <2>3, <2>4, <2>a, <3>1, AtConcat
  <2>6. 0 + Len(q) = 5 + n /\ 0 + Len(hd) = 4 + n
    BY <1>2, <1>4, <1>8, <2>2
  <2>7. At(P, 4 + n, t) /\ At(P, 5 + n, tb)
    BY <2>4, <2>5, <2>6
  <2>8. Len(P) = 5 + n + Len(tb)
    BY <1>2, <1>4, <1>8, <2>2, <2>3
  <2> QED BY <1>2, <1>9, <2>3, <2>5, <2>7, <2>8 DEF P, e, n, t, tb
<1> QED BY <1>1, <1>10, <1>11

(* A request of the client is encoded, or is too large. *)
LEMMA EncodedRequest ==
    ASSUME NEW req \in Requests
    PROVE  /\ encode_request(req).fault \in {"none", "FrameTooLarge"}
           /\ encode_request(req).fault = "none" =>
                 /\ encode_request(req).value = FrameBytes(Payload(req))
                 /\ Len(Payload(req)) <= MAX_MESSAGE_SIZE
<1> DEFINE long == \E s \in Strings(req) : Len(s) > STRING_MAX
           P == Payload(req)
<1>0. Len(P) \in Nat /\ MAX_MESSAGE_SIZE \in Nat
  BY PayloadFacts, LenProperties, Limits
<1>1. ~(req.tag # TAG_ATTACH_INTERLOCK /\ req.tier = 1 /\ req.watched_word = <<>>)
  <2> SUFFICES ASSUME req.tag # TAG_ATTACH_INTERLOCK, req.tier = 1 PROVE req.watched_word # <<>>
    OBVIOUS
  <2>1. req # AttachInterlock(req.name)
    <3>1. AttachInterlock(req.name).tag = TAG_ATTACH_INTERLOCK
      BY DEF AttachInterlock, CreateInterlock
    <3> QED BY <3>1
  <2>a. \A w, b, x, y : CreateInterlock(req.name, 3, w, b, x, y).tier = 3
                       /\ CreateInterlock(req.name, 4, w, b, x, y).tier = 4
    BY DEF CreateInterlock
  <2>2. \A w, b, x, y : req # CreateInterlock(req.name, 3, w, b, x, y)
                       /\ req # CreateInterlock(req.name, 4, w, b, x, y)
    <3> SUFFICES ASSUME NEW w, NEW b, NEW x, NEW y
                 PROVE  /\ req # CreateInterlock(req.name, 3, w, b, x, y)
                        /\ req # CreateInterlock(req.name, 4, w, b, x, y)
      OBVIOUS
    <3>1. CreateInterlock(req.name, 3, w, b, x, y).tier = 3 /\ CreateInterlock(req.name, 4, w, b, x, y).tier = 4
      BY <2>a
    <3> QED BY <3>1
  <2>b. ~(req.tier \in {0, 2})
    OBVIOUS
  <2>3. PICK w \in Text, b \in Byte : req = CreateInterlock(req.name, 1, <<w>>, <<b>>, <<>>, <<>>)
    <3>1. ~ \E x \in u64 : req = CreateInterlock(req.name, 3, <<>>, <<>>, <<x>>, <<>>)
      BY <2>2
    <3>2. ~ \E conds \in Seq(Condition) : req = CreateInterlock(req.name, 4, <<>>, <<>>, <<>>, <<conds>>)
      BY <2>2
    <3> QED BY <2>1, <2>b, <3>1, <3>2, RequestShapes
  <2>4. req.watched_word = <<b>>
    <3>1. CreateInterlock(req.name, 1, <<w>>, <<b>>, <<>>, <<>>).watched_word = <<b>>
      BY DEF CreateInterlock
    <3> QED BY <2>3, <3>1
  <2> QED BY <2>4
<1>2. encode_request(req) = IF long THEN Fault("FrameTooLarge") ELSE Frame(P)
  <2> HIDE DEF long
  <2>1. CASE long
    BY <2>1 DEF encode_request, long
  <2>2. CASE ~long /\ req.tag = TAG_ATTACH_INTERLOCK
    BY <2>2 DEF encode_request, long, Payload, RequestHead
  <2>3. CASE ~long /\ req.tag # TAG_ATTACH_INTERLOCK
    BY <1>1, <2>3 DEF encode_request, long, Payload, RequestHead
  <2> QED BY <2>1, <2>2, <2>3
<1> HIDE DEF long, P
<1>3. CASE long \/ Len(P) > MAX_MESSAGE_SIZE
  <2>1. encode_request(req) = Fault("FrameTooLarge")
    BY <1>2, <1>3 DEF Frame
  <2> QED BY <2>1 DEF Fault
<1>4. CASE ~(long \/ Len(P) > MAX_MESSAGE_SIZE)
  <2>1. encode_request(req) = Ok(FrameBytes(P))
    BY <1>2, <1>4 DEF Frame, FrameBytes
  <2>2. Len(P) <= MAX_MESSAGE_SIZE
    BY <1>0, <1>4
  <2> QED BY <2>1, <2>2 DEF Ok, P
<1> QED BY <1>3, <1>4

(* The daemon decodes the payload of a request to that request. *)
LEMMA DecodeRequest ==
    ASSUME NEW req \in Requests, Len(Payload(req)) <= MAX_MESSAGE_SIZE
    PROVE  decode_request(Payload(req)) = Ok(req)
<1> DEFINE P == Payload(req)
           name == req.name
           n == Len(name)
           rest == From(P, 2)
           tb == encode_tier(req)
<1>1. /\ P \in Seq(Byte) /\ n \in Nat
      /\ P[1] = PROTOCOL_VERSION /\ P[2] = req.tag /\ 4 + n <= Len(P)
      /\ At(P, 2, encode_string(name))
  BY PayloadFacts
<1>2. req.tag = TAG_CREATE_INTERLOCK =>
         At(P, 4 + n, <<req.tier>>) /\ At(P, 5 + n, tb) /\ Len(P) = 5 + n + Len(tb)
  BY PayloadFacts
<1>3. name \in Text /\ encode_string(name) \in Seq(Byte) /\ Len(encode_string(name)) = 2 + n
  BY RequestShapes, EncodedString
<1>4. Len(P) \in Nat /\ Fits16(Len(P)) /\ Fits16(n)
  <2>1. Len(P) \in Nat
    BY <1>1, LenProperties
  <2>2. Len(P) <= MAX_MESSAGE_SIZE
    OBVIOUS
  <2> HIDE DEF P, n
  <2> QED BY <1>1, <2>1, <2>2, Limits DEF Fits16
<1>5. req.tag \in {TAG_ATTACH_INTERLOCK, TAG_CREATE_INTERLOCK} /\ req.tier \in 0 .. 4
  BY RequestShapes
<1> HIDE DEF P, n, tb
<1>6. rest \in Seq(Byte) /\ Len(rest) = Len(P) - 2
  <2>1. 2 \in Nat /\ 2 <= Len(P)
    BY <1>1, <1>4
  <2> QED BY <1>1, <2>1, FromFacts
<1>7. decode_string(rest) = Ok(name)
  <2>1. 2 \in Nat
    OBVIOUS
  <2> QED BY <1>1, <1>3, <1>4, <2>1, DecodeString DEF n
<1>8. ~(Len(P) < 2) /\ Len(P) >= 2
  BY <1>1, <1>4
<1>9. ~Failed(Ok(name)) /\ Ok(name).value = name
  BY DEF Ok, Failed
<1> HIDE DEF rest
<1>10. CASE req.tag = TAG_ATTACH_INTERLOCK
  <2>1. decode_request(P) = Ok(AttachInterlock(name))
    BY <1>1, <1>7, <1>8, <1>9, <1>10
       DEF decode_request, rest, TAG_ATTACH_INTERLOCK, TAG_CREATE_INTERLOCK
  <2>2. req = AttachInterlock(name)
    <3>1. \A a, b, e, f, g : CreateInterlock(name, a, b, e, f, g).tag = TAG_CREATE_INTERLOCK
      BY DEF CreateInterlock
    <3>2. TAG_ATTACH_INTERLOCK # TAG_CREATE_INTERLOCK
      BY DEF TAG_ATTACH_INTERLOCK, TAG_CREATE_INTERLOCK
    <3>3. \A a, b, e, f, g : req # CreateInterlock(name, a, b, e, f, g)
      <4> SUFFICES ASSUME NEW a, NEW b, NEW e, NEW f, NEW g
                   PROVE  req # CreateInterlock(name, a, b, e, f, g)
        OBVIOUS
      <4>1. CreateInterlock(name, a, b, e, f, g).tag = TAG_CREATE_INTERLOCK
        BY <3>1
      <4> QED BY <1>10, <3>2, <4>1
    <3>4. req # CreateInterlock(name, req.tier, <<>>, <<>>, <<>>, <<>>)
      BY <3>3
    <3>5. ~ \E w \in Text, b \in Byte : req = CreateInterlock(name, 1, <<w>>, <<b>>, <<>>, <<>>)
      BY <3>3
    <3>6. ~ \E x \in u64 : req = CreateInterlock(name, 3, <<>>, <<>>, <<x>>, <<>>)
      BY <3>3
    <3>7. ~ \E conds \in Seq(Condition) : req = CreateInterlock(name, 4, <<>>, <<>>, <<>>, <<conds>>)
      BY <3>3
    <3> QED BY <3>4, <3>5, <3>6, <3>7, RequestShapes
  <2> QED BY <2>1, <2>2 DEF P
<1>11. CASE req.tag = TAG_CREATE_INTERLOCK
  <2> DEFINE pos == 3 + n
  <2>1. tb \in Seq(Byte) /\ Len(tb) \in Nat
    BY <1>11, TierBytes, LenProperties DEF tb
  <2>2. At(P, 4 + n, <<req.tier>>) /\ At(P, 5 + n, tb) /\ Len(P) = 5 + n + Len(tb)
    BY <1>2, <1>11
  <2>3. pos \in Nat /\ 2 + n \in Nat /\ 4 + n = 2 + (2 + n) /\ 5 + n = 2 + pos /\ (2 + n) + 1 = pos
    BY <1>1
  <2>4. <<req.tier>> \in Seq(Byte) /\ Len(<<req.tier>>) = 1 /\ <<req.tier>>[1] = req.tier
    <3>1. 0 .. 4 \subseteq Byte
      BY DEF Byte
    <3> QED BY <1>5, <3>1
  <2>5. Len(rest) = pos + Len(tb)
    BY <1>1, <1>6, <2>1, <2>2
  <2> HIDE DEF pos
  <2>6. At(rest, 0, encode_string(name)) /\ At(rest, 2 + n, <<req.tier>>) /\ At(rest, pos, tb)
    <3>1. 2 \in Nat /\ 0 \in Nat /\ At(P, 2 + 0, encode_string(name))
      BY <1>1
    <3>2. At(rest, 0, encode_string(name))
      BY <1>1, <1>3, <3>1, AtFrom DEF rest
    <3>3. At(rest, 2 + n, <<req.tier>>)
      BY <1>1, <2>2, <2>3, <2>4, <3>1, AtFrom DEF rest
    <3>4. At(rest, pos, tb)
      BY <1>1, <2>1, <2>2, <2>3, <3>1, AtFrom DEF rest
    <3> QED BY <3>2, <3>3, <3>4
  <2>7. rest[pos] = req.tier
    <3>1. \A i \in 1 .. Len(<<req.tier>>) : rest[(2 + n) + i] = <<req.tier>>[i]
      BY <2>6 DEF At
    <3>2. rest[(2 + n) + 1] = req.tier
      BY <2>4, <3>1
    <3> QED BY <2>3, <3>2
  <2>8. decode_string_then(rest, 0) = Ok(name)
    <3>1. 0 \in Nat /\ 0 + 2 + n < Len(rest)
      BY <1>1, <2>1, <2>3, <2>5
    <3> QED BY <1>3, <1>4, <1>6, <2>6, <3>1, DecodeStringThen DEF n
  <2>9. decode_request(P) = decode_tier(rest, name, req.tier, pos)
    <3> DEFINE s == decode_string(rest)
               x == 2 + Len(s.value)
    <3>1. s.value = name /\ x + 1 = pos
      BY <1>7, <1>9, <2>3 DEF n
    <3>2. ~Failed(decode_string_then(rest, 0))
      BY <1>9, <2>8
    <3>3. decode_request(P) = decode_tier(rest, s.value, rest[x + 1], x + 1)
      <4> HIDE DEF s, x
      <4> QED BY <1>1, <1>8, <1>11, <3>2
              DEF decode_request, rest, s, x, TAG_ATTACH_INTERLOCK, TAG_CREATE_INTERLOCK
    <3> HIDE DEF s, x
    <3> QED BY <2>7, <3>1, <3>3
  <2>10. req # AttachInterlock(name)
    <3>1. AttachInterlock(name).tag = TAG_ATTACH_INTERLOCK
      BY DEF AttachInterlock, CreateInterlock
    <3> QED BY <1>11, <3>1 DEF TAG_ATTACH_INTERLOCK, TAG_CREATE_INTERLOCK
  <2>11. ASSUME req.tier \in {0, 2}, req = CreateInterlock(name, req.tier, <<>>, <<>>, <<>>, <<>>)
         PROVE  decode_tier(rest, name, req.tier, pos) = Ok(req)
    BY <2>11 DEF decode_tier
  <2>12. ASSUME NEW w \in Text, NEW b \in Byte, tb = encode_string(w) \o <<b>>,
                req = CreateInterlock(name, 1, <<w>>, <<b>>, <<>>, <<>>)
         PROVE  decode_tier(rest, name, req.tier, pos) = Ok(req)
    <3> DEFINE m == Len(w)
    <3>1. req.tier = 1
      BY <2>12 DEF CreateInterlock
    <3>2. encode_string(w) \in Seq(Byte) /\ Len(encode_string(w)) = 2 + m /\ m \in Nat
      BY EncodedString, TextIsBytes
    <3>3. <<b>> \in Seq(Byte) /\ Len(<<b>>) = 1 /\ <<b>>[1] = b
      OBVIOUS
    <3>4. At(rest, pos, encode_string(w)) /\ At(rest, pos + Len(encode_string(w)), <<b>>)
      <4>1. At(rest, pos, encode_string(w) \o <<b>>)
        BY <2>6, <2>12
      <4> QED BY <1>6, <2>3, <3>2, <3>3, <4>1, AtConcat
    <3>5. Len(tb) = 3 + m
      <4>1. Len(tb) = Len(encode_string(w)) + Len(<<b>>)
        BY <2>12, <3>2, <3>3, ConcatProperties
      <4> QED BY <3>2, <3>3, <4>1
    <3> HIDE DEF m
    <3>6. pos + 2 + m < Len(rest) /\ m <= Len(P)
      <4>1. pos \in Nat /\ m \in Nat /\ n \in Nat
        BY <1>1, <2>3, <3>2
      <4>2. Len(rest) = pos + (3 + m) /\ Len(P) = 5 + n + (3 + m)
        BY <2>2, <2>5, <3>5
      <4> QED BY <4>1, <4>2
    <3>7. Fits16(m)
      BY <1>4, <3>2, <3>6 DEF Fits16
    <3>8. decode_string_then(rest, pos) = Ok(w)
      BY <1>6, <2>3, <3>4, <3>6, <3>7, DecodeStringThen DEF m
    <3>9. rest[pos + 2 + m + 1] = b
      <4>1. \A i \in 1 .. Len(<<b>>) : rest[(pos + Len(encode_string(w))) + i] = <<b>>[i]
        BY <3>4 DEF At
      <4>2. rest[(pos + Len(encode_string(w))) + 1] = b
        BY <3>3, <4>1
      <4>3. (pos + Len(encode_string(w))) + 1 = pos + 2 + m + 1
        BY <2>3, <3>2
      <4> QED BY <4>2, <4>3
    <3>10. ~Failed(Ok(w)) /\ Ok(w).value = w
      BY DEF Ok, Failed
    <3>11. decode_tier(rest, name, 1, pos) =
              Ok(CreateInterlock(name, 1, <<w>>, <<rest[pos + 2 + m + 1]>>, <<>>, <<>>))
      BY <3>8, <3>10 DEF decode_tier, m
    <3> QED BY <2>12, <3>1, <3>9, <3>11
  <2>13. ASSUME NEW x \in u64, tb = to_le_bytes(x, 8),
                req = CreateInterlock(name, 3, <<>>, <<>>, <<x>>, <<>>)
         PROVE  decode_tier(rest, name, req.tier, pos) = Ok(req)
    <3>1. req.tier = 3
      BY <2>13 DEF CreateInterlock
    <3>2. x \in Nat /\ from_le_bytes(tb) = x /\ Len(tb) = 8
      <4>1. 8 \in Nat
        OBVIOUS
      <4> QED BY <2>13, <4>1, EightBytes, ToBytes
    <3>3. Slice(rest, pos, 8) = tb
      <4>1. Slice(rest, pos, Len(tb)) = tb
        BY <1>6, <2>1, <2>3, <2>6, AtSlice
      <4> QED BY <3>2, <4>1
    <3>4. ~(Len(rest) < pos + 8)
      BY <2>3, <2>5, <3>2
    <3>5. decode_tier(rest, name, 3, pos) = Ok(CreateInterlock(name, 3, <<>>, <<>>, <<x>>, <<>>))
      BY <3>2, <3>3, <3>4 DEF decode_tier
    <3> QED BY <2>13, <3>1, <3>5
  <2>14. ASSUME NEW conds \in Seq(Condition), tb = encode_conditions(conds),
                req = CreateInterlock(name, 4, <<>>, <<>>, <<>>, <<conds>>)
         PROVE  decode_tier(rest, name, req.tier, pos) = Ok(req)
    <3>1. req.tier = 4
      BY <2>14 DEF CreateInterlock
    <3>2. Fits16(Len(rest))
      BY <1>4, <1>6 DEF Fits16
    <3>3. decode_conditions(rest, pos) = Ok(conds)
      BY <1>6, <2>3, <2>6, <2>14, <3>2, DecodeConditions
    <3>4. ~Failed(Ok(conds)) /\ Ok(conds).value = conds
      BY DEF Ok, Failed
    <3>5. decode_tier(rest, name, 4, pos) = Ok(CreateInterlock(name, 4, <<>>, <<>>, <<>>, <<conds>>))
      BY <3>3, <3>4 DEF decode_tier
    <3> QED BY <2>14, <3>1, <3>5
  <2>15. decode_tier(rest, name, req.tier, pos) = Ok(req)
    BY <2>10, <2>11, <2>12, <2>13, <2>14, RequestShapes DEF tb
  <2> QED BY <2>9, <2>15 DEF P
<1> QED BY <1>5, <1>10, <1>11

(***************************************************************************)
(* Answers.                                                                *)
(***************************************************************************)
Answer(resp) ==
    \/ \E id \in Nat : resp = Created(id) \/ resp = Attached(id)
    \/ \E code \in Byte, message \in Text : resp = Error(code, message)

Body(resp) == IF resp.tag = TAG_ERROR THEN <<resp.code>> \o encode_string(resp.message)
              ELSE to_le_bytes(resp.id, 8)

AnswerPayload(resp) == <<PROTOCOL_VERSION, resp.tag>> \o Body(resp)

LEMMA AnswerParts ==
    ASSUME NEW resp, Answer(resp)
    PROVE  /\ resp.tag \in {TAG_CREATED, TAG_ATTACHED, TAG_ERROR} /\ resp.code \in Byte
           /\ resp.message \in Text
           /\ resp.tag # TAG_ERROR => resp.id \in Nat /\ resp.code = 0
<1>1. ASSUME NEW id \in Nat, resp = Created(id) \/ resp = Attached(id)
      PROVE  /\ resp.tag \in {TAG_CREATED, TAG_ATTACHED} /\ resp.code = 0 /\ resp.message = <<>>
             /\ resp.id \in Nat
  BY <1>1 DEF Created, Attached
<1>2. ASSUME NEW code \in Byte, NEW message \in Text, resp = Error(code, message)
      PROVE  resp.tag = TAG_ERROR /\ resp.code \in Byte /\ resp.message \in Text
  BY <1>2 DEF Error
<1>3. <<>> \in Text /\ 0 \in Byte
  BY EmptySeq DEF Text, Byte
<1> QED BY <1>1, <1>2, <1>3 DEF Answer

LEMMA AnswerPayloadFacts ==
    ASSUME NEW resp, Answer(resp)
    PROVE  /\ Body(resp) \in Seq(Byte) /\ Len(Body(resp)) >= 3 /\ Len(Body(resp)) \in Nat
           /\ AnswerPayload(resp) \in Seq(Byte)
           /\ Len(AnswerPayload(resp)) = 2 + Len(Body(resp))
           /\ AnswerPayload(resp)[1] = PROTOCOL_VERSION /\ AnswerPayload(resp)[2] = resp.tag
           /\ At(AnswerPayload(resp), 2, Body(resp))
<1> DEFINE v == <<PROTOCOL_VERSION, resp.tag>>
           b == Body(resp)
           P == v \o b
<1>1. /\ resp.tag \in {TAG_CREATED, TAG_ATTACHED, TAG_ERROR} /\ resp.code \in Byte
      /\ resp.message \in Text /\ (resp.tag # TAG_ERROR => resp.id \in Nat)
  BY AnswerParts
<1>2. v \in Seq(Byte) /\ Len(v) = 2 /\ v[1] = PROTOCOL_VERSION /\ v[2] = resp.tag
  <2>1. PROTOCOL_VERSION \in Byte /\ resp.tag \in Byte
    BY <1>1 DEF PROTOCOL_VERSION, TAG_CREATED, TAG_ATTACHED, TAG_ERROR, Byte
  <2> QED BY <2>1
<1>3. b \in Seq(Byte) /\ Len(b) >= 3 /\ Len(b) \in Nat
  <2>1. CASE resp.tag = TAG_ERROR
    <3> DEFINE u == <<resp.code>>
               e == encode_string(resp.message)
               m == Len(resp.message)
    <3>1. u \in Seq(Byte) /\ Len(u) = 1
      BY <1>1
    <3>2. e \in Seq(Byte) /\ Len(e) = 2 + m /\ m \in Nat
      BY <1>1, EncodedString, TextIsBytes
    <3>3. b = u \o e
      BY <2>1 DEF Body
    <3> HIDE DEF u, e, m, b
    <3>4. u \o e \in Seq(Byte) /\ Len(u \o e) = Len(u) + Len(e)
      BY <3>1, <3>2, ConcatProperties
    <3> QED BY <3>1, <3>2, <3>3, <3>4
  <2>2. CASE resp.tag # TAG_ERROR
    <3>1. resp.id \in Nat /\ 8 \in Nat /\ b = to_le_bytes(resp.id, 8)
      BY <1>1, <2>2 DEF Body
    <3> HIDE DEF b
    <3>2. to_le_bytes(resp.id, 8) \in Seq(Byte) /\ Len(to_le_bytes(resp.id, 8)) = 8
      BY <3>1, ToBytes
    <3>3. b \in Seq(Byte) /\ Len(b) = 8
      BY <3>1, <3>2
    <3> QED BY <3>3
  <2> QED BY <2>1, <2>2
<1> HIDE DEF v, b
<1>4. P \in Seq(Byte) /\ Len(P) = Len(v) + Len(b)
  BY <1>2, <1>3, ConcatProperties
<1>5. At(P, 0, v) /\ At(P, 0 + Len(v), b)
  <2>1. 0 \in Nat /\ At(P, 0, v \o b)
    BY <1>4, AtSelf
  <2> HIDE DEF P
  <2>2. P \in Seq(Byte)
    BY <1>4
  <2> QED BY <1>2, <1>3, <2>1, <2>2, AtConcat
<1>a. P = AnswerPayload(resp)
  BY DEF AnswerPayload, v, b
<1> HIDE DEF P
<1>6. P[1] = v[1] /\ P[2] = v[2]
  <2>1. \A i \in 1 .. Len(v) : P[0 + i] = v[i]
    BY <1>5 DEF At
  <2>2. 1 \in 1 .. Len(v) /\ 2 \in 1 .. Len(v) /\ 0 + 1 = 1 /\ 0 + 2 = 2
    BY <1>2
  <2> QED BY <2>1, <2>2
<1>7. 0 + Len(v) = 2
  BY <1>2
<1>8. At(P, 2, b) /\ Len(P) = 2 + Len(b)
  BY <1>2, <1>4, <1>5, <1>7
<1> QED BY <1>2, <1>3, <1>4, <1>6, <1>8, <1>a DEF b

(* The client decodes the payload of an answer to one of the same kind and *)
(* with the same code.                                                     *)
LEMMA DecodeAnswer ==
    ASSUME NEW resp, Answer(resp), Len(AnswerPayload(resp)) <= MAX_MESSAGE_SIZE
    PROVE  LET r == decode_response(AnswerPayload(resp))
           IN  ~Failed(r) /\ r.value.tag = resp.tag /\ r.value.code = resp.code
<1> DEFINE P == AnswerPayload(resp)
           b == Body(resp)
           rest == From(P, 2)
<1>1. /\ b \in Seq(Byte) /\ Len(b) >= 3 /\ Len(b) \in Nat /\ P \in Seq(Byte) /\ Len(P) = 2 + Len(b)
      /\ P[1] = PROTOCOL_VERSION /\ P[2] = resp.tag /\ At(P, 2, b)
  BY AnswerPayloadFacts
<1>2. Len(P) <= MAX_MESSAGE_SIZE
  OBVIOUS
<1>a. /\ resp.tag \in {TAG_CREATED, TAG_ATTACHED, TAG_ERROR} /\ resp.code \in Byte
      /\ resp.message \in Text /\ (resp.tag # TAG_ERROR => resp.id \in Nat /\ resp.code = 0)
  BY AnswerParts
<1>b. resp.tag = TAG_ERROR => b = <<resp.code>> \o encode_string(resp.message)
  BY DEF Body
<1>c. resp.tag # TAG_ERROR => b = to_le_bytes(resp.id, 8)
  BY DEF Body
<1> HIDE DEF P, b
<1>3. rest = b
  <2>1. 2 \in Nat /\ 0 \in Nat /\ 2 <= Len(P) /\ At(P, 2 + 0, b)
    BY <1>1
  <2>2. rest \in Seq(Byte) /\ Len(rest) = Len(P) - 2 /\ At(rest, 0, b)
    BY <1>1, <2>1, FromFacts, AtFrom
  <2> HIDE DEF rest
  <2>3. Len(b) = Len(rest)
    BY <1>1, <2>2
  <2> QED BY <1>1, <2>2, <2>3, AtWhole
<1>4. ~(Len(P) < 2) /\ Len(P) >= 2
  BY <1>1
<1> HIDE DEF rest
<1>5. CASE resp.tag = TAG_ERROR
  <2> DEFINE u == <<resp.code>>
             e == encode_string(resp.message)
             m == Len(resp.message)
  <2>1. u \in Seq(Byte) /\ Len(u) = 1 /\ u[1] = resp.code
    BY <1>a
  <2>2. e \in Seq(Byte) /\ Len(e) = 2 + m /\ m \in Nat
    BY <1>a, EncodedString, TextIsBytes
  <2>3. b = u \o e
    BY <1>b, <1>5
  <2> HIDE DEF u, e, m
  <2>4. Len(b) = 3 + m
    <3>1. Len(u \o e) = Len(u) + Len(e)
      BY <2>1, <2>2, ConcatProperties
    <3> QED BY <2>1, <2>2, <2>3, <3>1
  <2>5. At(b, 0, u) /\ At(b, 0 + Len(u), e)
    <3>1. 0 \in Nat /\ At(b, 0, b)
      BY <1>1, AtSelf
    <3> QED BY <1>1, <2>1, <2>2, <2>3, <3>1, AtConcat
  <2>6. At(b, 1, e)
    <3>1. 0 + Len(u) = 1
      BY <2>1
    <3> QED BY <2>5, <3>1
  <2>7. b[1] = resp.code
    <3>1. \A i \in 1 .. Len(u) : b[0 + i] = u[i]
      BY <2>5 DEF At
    <3>2. b[0 + 1] = u[1] /\ 0 + 1 = 1
      BY <2>1, <3>1
    <3> QED BY <2>1, <3>2
  <2>8. Fits16(m)
    BY <1>1, <1>2, <2>2, <2>4, Limits DEF Fits16
  <2>9. decode_string(From(b, 1)) = Ok(resp.message)
    <3>1. 1 \in Nat
      OBVIOUS
    <3> QED BY <1>1, <1>a, <2>6, <2>8, <3>1, DecodeString DEF e, m
  <2>10. ~Failed(Ok(resp.message)) /\ Ok(resp.message).value = resp.message
    BY DEF Ok, Failed
  <2>11. ~(Len(b) = 0) /\ ~(Len(b) = 1)
    BY <2>2, <2>4
  <2>12. decode_response(P) = Ok(Error(b[1], resp.message))
    BY <1>1, <1>3, <1>4, <1>5, <2>9, <2>10, <2>11
       DEF decode_response, rest, TAG_CREATED, TAG_ATTACHED, TAG_ERROR
  <2> QED BY <1>5, <2>7, <2>12 DEF Ok, Error, Failed, P
<1>6. CASE resp.tag # TAG_ERROR
  <2>1. resp.id \in Nat /\ 8 \in Nat /\ b = to_le_bytes(resp.id, 8) /\ resp.code = 0
    BY <1>a, <1>c, <1>6
  <2>2. Len(b) = 8
    BY <2>1, ToBytes
  <2>3. ~(Len(b) < 8)
    BY <2>2
  <2> DEFINE id == from_le_bytes(Slice(b, 0, 8))
  <2>4. decode_response(P) = IF resp.tag = TAG_CREATED THEN Ok(Created(id)) ELSE Ok(Attached(id))
    BY <1>1, <1>3, <1>4, <1>6, <1>a, <2>3 DEF decode_response, rest
  <2> HIDE DEF id
  <2>5. CASE resp.tag = TAG_CREATED
    <3>1. decode_response(P) = Ok(Created(id))
      BY <2>4, <2>5
    <3> QED BY <2>1, <2>5, <3>1 DEF Ok, Created, Failed, P
  <2>6. CASE resp.tag = TAG_ATTACHED
    <3>1. decode_response(P) = Ok(Attached(id))
      BY <2>4, <2>6 DEF TAG_CREATED, TAG_ATTACHED
    <3> QED BY <2>1, <2>6, <3>1 DEF Ok, Attached, Failed, P
  <2> QED BY <1>a, <1>6, <2>5, <2>6
<1> QED BY <1>5, <1>6

LEMMA EncodedAnswer ==
    ASSUME NEW resp, Answer(resp)
    PROVE  \/ Failed(encode_response(resp))
           \/ /\ encode_response(resp) = Ok(FrameBytes(AnswerPayload(resp)))
              /\ ~Failed(encode_response(resp))
              /\ Len(AnswerPayload(resp)) <= MAX_MESSAGE_SIZE
<1> DEFINE P == AnswerPayload(resp)
<1>1. Len(P) \in Nat /\ MAX_MESSAGE_SIZE \in Nat
  BY AnswerPayloadFacts, LenProperties, Limits
<1>2. encode_response(resp) = IF Len(resp.message) > STRING_MAX THEN Fault("FrameTooLarge") ELSE Frame(P)
  BY DEF encode_response, AnswerPayload, Body
<1> HIDE DEF P
<1>3. CASE Len(resp.message) > STRING_MAX \/ Len(P) > MAX_MESSAGE_SIZE
  <2>1. encode_response(resp) = Fault("FrameTooLarge")
    BY <1>2, <1>3 DEF Frame
  <2> QED BY <2>1 DEF Fault, Failed
<1>4. CASE ~(Len(resp.message) > STRING_MAX \/ Len(P) > MAX_MESSAGE_SIZE)
  <2>1. encode_response(resp) = Ok(FrameBytes(P))
    BY <1>2, <1>4 DEF Frame, FrameBytes
  <2>2. Len(P) <= MAX_MESSAGE_SIZE
    BY <1>1, <1>4
  <2>3. ~Failed(Ok(FrameBytes(P)))
    BY DEF Failed, Ok
  <2> QED BY <2>1, <2>2, <2>3 DEF P
<1> QED BY <1>3, <1>4

(***************************************************************************)
(* Reads and writes move the head of one sequence to the end of another.   *)
(***************************************************************************)
LEMMA TakeFacts ==
    ASSUME NEW S, NEW b \in Seq(S), NEW n \in Nat, n <= Len(b)
    PROVE  /\ SubSeq(b, 1, n) \in Seq(S) /\ Len(SubSeq(b, 1, n)) = n
           /\ \A i \in 1 .. n : SubSeq(b, 1, n)[i] = b[i]
           /\ Drop(b, n) \in Seq(S) /\ Len(Drop(b, n)) = Len(b) - n
           /\ \A i \in 1 .. Len(b) - n : Drop(b, n)[i] = b[n + i]
<1>1. 0 \in Nat /\ 0 + n <= Len(b) /\ Len(b) \in Nat
  BY LenProperties
<1>2. Slice(b, 0, n) = SubSeq(b, 1, n)
  <2>1. 0 + 1 = 1 /\ 0 + n = n
    OBVIOUS
  <2> QED BY <2>1 DEF Slice
<1>3. /\ Slice(b, 0, n) \in Seq(S) /\ Len(Slice(b, 0, n)) = n
      /\ \A i \in 1 .. n : Slice(b, 0, n)[i] = b[0 + i]
  BY <1>1, SliceFacts, ZenonT(30)
<1>4. \A i \in 1 .. n : 0 + i = i
  OBVIOUS
<1>5. \A i \in 1 .. n : SubSeq(b, 1, n)[i] = b[i]
  BY <1>2, <1>3, <1>4
<1>6. From(b, n) = Drop(b, n)
  BY DEF From, Drop
<1>7. /\ From(b, n) \in Seq(S) /\ Len(From(b, n)) = Len(b) - n
      /\ \A i \in 1 .. Len(b) - n : From(b, n)[i] = b[n + i]
  BY FromFacts
<1> QED BY <1>2, <1>3, <1>5, <1>6, <1>7

LEMMA AtMove ==
    ASSUME NEW S, NEW full \in Seq(S), NEW p \in Nat, NEW a \in Seq(S), NEW b \in Seq(S),
           At(full, p, a), At(full, p + Len(a), b), NEW n \in Nat, n <= Len(b)
    PROVE  /\ a \o SubSeq(b, 1, n) \in Seq(S) /\ Len(a \o SubSeq(b, 1, n)) = Len(a) + n
           /\ Drop(b, n) \in Seq(S) /\ Len(Drop(b, n)) = Len(b) - n
           /\ At(full, p, a \o SubSeq(b, 1, n)) /\ At(full, p + Len(a) + n, Drop(b, n))
<1> DEFINE h == SubSeq(b, 1, n)
           t == Drop(b, n)
           q == p + Len(a)
           m == Len(b)
<1>1. /\ h \in Seq(S) /\ Len(h) = n /\ \A i \in 1 .. n : h[i] = b[i]
      /\ t \in Seq(S) /\ Len(t) = m - n /\ \A i \in 1 .. m - n : t[i] = b[n + i]
  BY TakeFacts, ZenonT(30)
<1>2. Len(a) \in Nat /\ m \in Nat /\ n <= m /\ q \in Nat /\ Len(full) \in Nat
  BY LenProperties
<1>3. q + m <= Len(full) /\ \A i \in 1 .. m : full[q + i] = b[i]
  BY DEF At
<1> HIDE DEF h, t, q, m
<1>4. At(full, q, h)
  <2>1. q + n <= Len(full) /\ \A i \in 1 .. n : i \in 1 .. m
    BY <1>2, <1>3
  <2> QED BY <1>1, <1>3, <2>1 DEF At
<1>5. At(full, q + n, t)
  <2>1. (q + n) + (m - n) <= Len(full)
    BY <1>2, <1>3
  <2>2. \A i \in 1 .. m - n : n + i \in 1 .. m /\ (q + n) + i = q + (n + i)
    BY <1>2
  <2>3. \A i \in 1 .. m - n : full[(q + n) + i] = t[i]
    BY <1>1, <1>3, <2>2
  <2> QED BY <1>1, <2>1, <2>3 DEF At
<1>6. a \o h \in Seq(S) /\ Len(a \o h) = Len(a) + Len(h)
  BY <1>1, ConcatProperties
<1>7. At(full, p, a \o h)
  BY <1>1, <1>4, AtConcat DEF q
<1>8. p + Len(a) + n = q + n
  BY DEF q
<1> QED BY <1>1, <1>5, <1>6, <1>7, <1>8 DEF h, t, m

LEMMA AtLeft ==
    ASSUME NEW S, NEW a \in Seq(S), NEW b \in Seq(S), NEW pos \in Nat, NEW s \in Seq(S),
           At(a, pos, s)
    PROVE  At(a \o b, pos, s)
<1> DEFINE m == Len(a)
           n == Len(b)
           k == Len(s)
           u == a \o b
<1>1. m \in Nat /\ n \in Nat /\ k \in Nat /\ Len(u) = m + n
  BY LenProperties, ConcatProperties
<1>2. \A i \in 1 .. m : u[i] = a[i]
  <2>1. \A i \in 1 .. m + n : u[i] = IF i <= m THEN a[i] ELSE b[i - m]
    BY ConcatProperties
  <2>2. \A i \in 1 .. m : i \in 1 .. m + n /\ i <= m
    BY <1>1
  <2> HIDE DEF u
  <2> QED BY <2>1, <2>2
<1>3. pos + k <= m /\ \A i \in 1 .. k : a[pos + i] = s[i]
  BY DEF At
<1> HIDE DEF m, n, k, u
<1>4. pos + k <= m + n /\ \A i \in 1 .. k : pos + i \in 1 .. m
  BY <1>1, <1>3
<1> QED BY <1>1, <1>2, <1>3, <1>4 DEF At, k, u

LEMMA AtSame ==
    ASSUME NEW S, NEW full \in Seq(S), NEW p \in Nat, NEW a \in Seq(S), NEW b \in Seq(S),
           At(full, p, a), At(full, p, b), Len(a) = Len(b)
    PROVE  a = b
<1>1. \A i \in 1 .. Len(a) : a[i] = b[i]
  BY DEF At
<1> QED BY <1>1, SeqEqual

LEMMA AtEmpty ==
    ASSUME NEW S, NEW full \in Seq(S), NEW p \in Nat, p <= Len(full)
    PROVE  At(full, p, <<>>) /\ Len(<<>>) = 0 /\ <<>> \in Seq(S)
<1>1. Len(<<>>) = 0 /\ <<>> \in Seq(S) /\ Len(full) \in Nat
  BY EmptySeq, LenProperties
<1> QED BY <1>1 DEF At

LEMMA Regroup ==
    ASSUME NEW S, NEW a \in Seq(S), NEW b \in Seq(S), NEW e \in Seq(S)
    PROVE  (a \o b) \o e = a \o (b \o e)
<1> DEFINE ab == a \o b
           be == b \o e
           full == ab \o e
           other == a \o be
<1>1. Len(a) \in Nat /\ Len(b) \in Nat /\ Len(e) \in Nat /\ 0 \in Nat
  BY LenProperties
<1>2. ab \in Seq(S) /\ Len(ab) = Len(a) + Len(b) /\ be \in Seq(S) /\ Len(be) = Len(b) + Len(e)
  BY ConcatProperties
<1>3. At(full, 0, full) /\ full \in Seq(S) /\ Len(full) = Len(ab) + Len(e)
  <2> HIDE DEF ab
  <2>1. full \in Seq(S) /\ Len(full) = Len(ab) + Len(e)
    BY <1>2, ConcatProperties
  <2> HIDE DEF full
  <2> QED BY <2>1, AtSelf
<1>4. other \in Seq(S) /\ Len(other) = Len(a) + Len(be)
  <2> HIDE DEF be
  <2> QED BY <1>2, ConcatProperties
<1>5. \A s \in Seq(S), q \in Nat, u \in Seq(S), v \in Seq(S) :
         At(s, q, u \o v) <=> At(s, q, u) /\ At(s, q + Len(u), v)
  BY AtConcat
<1>6. At(full, 0, ab) /\ At(full, 0 + Len(ab), e)
  <2> DEFINE w == full
  <2>1. At(w, 0, ab \o e) /\ w \in Seq(S)
    BY <1>3
  <2> HIDE DEF w, ab
  <2>2. At(w, 0, ab) /\ At(w, 0 + Len(ab), e)
    BY <1>1, <1>2, <1>5, <2>1
  <2> QED BY <2>2 DEF w
<1> HIDE DEF full
<1>7. At(full, 0, a) /\ At(full, 0 + Len(a), b)
  BY <1>1, <1>3, <1>5, <1>6
<1>8. At(full, Len(a), b) /\ At(full, Len(a) + Len(b), e)
  <2>1. 0 + Len(a) = Len(a) /\ 0 + Len(ab) = Len(a) + Len(b)
    BY <1>1, <1>2
  <2> QED BY <1>6, <1>7, <2>1
<1>9. At(full, Len(a), be)
  BY <1>1, <1>3, <1>5, <1>8
<1>10. At(full, 0, other)
  <2> HIDE DEF be
  <2>1. At(full, 0 + Len(a), be)
    <3>1. 0 + Len(a) = Len(a)
      BY <1>1
    <3> QED BY <1>9, <3>1
  <2> QED BY <1>1, <1>2, <1>3, <1>5, <1>7, <2>1
<1>11. Len(other) = Len(full)
  <2> HIDE DEF other, ab, be
  <2> QED BY <1>1, <1>2, <1>3, <1>4
<1> HIDE DEF other
<1>12. full = other
  BY <1>1, <1>3, <1>4, <1>10, <1>11, AtSame
<1> QED BY <1>12 DEF full, other

(***************************************************************************)
(* The invariant of a connection.  First where the two ends are, and what  *)
(* the histories hold.                                                     *)
(***************************************************************************)
ClientPc == {"new", "idle", "send", "prefix", "rest", "payload", "closed"}
DaemonPc == {"poll", "prefix", "payload", "write", "tell", "removed", "dead"}
Encodable == {r \in Requests : encode_request(r).fault = "none"}
Tagged == Byte \X Nat

ClientOK(x) ==
    /\ x \in [pc : ClientPc, call : 0 .. Len(Asks), ask : Requests, out : Seq(Byte),
              buf : Seq(Byte), fds : SUBSET Nat, size : Nat, res : {x.res}]
    /\ x.pc = "send" <=> x.out # <<>>
    /\ x.pc \notin {"rest", "payload"} => x.buf = <<>> /\ x.fds = {}

DaemonOK(x) ==
    /\ x \in [pc : DaemonPc, in : Seq(Byte), size : Nat, out : Seq(Tagged)]
    /\ x.pc \in {"write", "tell"} <=> x.out # <<>>
    /\ x.pc \notin {"prefix", "payload"} => x.in = <<>>
    /\ x.pc = "prefix" => Len(x.in) < 4
    /\ x.pc = "payload" => Len(x.in) <= x.size /\ x.size <= MAX_MESSAGE_SIZE

(* What the daemon may answer to a request. *)
Verdict(req, resp) ==
    /\ Answer(resp)
    /\ resp.tag \in {TAG_ERROR, Wanted(req)}
    /\ resp.tag = TAG_ERROR =>
          resp.code \in {ERR_INTERLOCK_NOT_FOUND, ERR_ALLOCATION_FAILED, ERR_INVALID_REQUEST}

Ends ==
    /\ alive \in BOOLEAN /\ lost \in BOOLEAN
    /\ c2d \in Seq(Byte) /\ d2c \in Seq(Tagged)
    /\ ClientOK(c) /\ DaemonOK(d)
    /\ alive <=> d.pc # "dead"
    /\ c.pc = "new" => /\ d.pc \in {"poll", "dead"} /\ c2d = <<>> /\ d2c = <<>>
                       /\ c.call = 0 /\ c.ask = AttachInterlock(CLOCK)
                       /\ asked = <<>> /\ ~lost

Responses == {Created(id) : id \in Nat} \cup {Attached(id) : id \in Nat}
                 \cup {Error(x[1], x[2]) : x \in Byte \X Text}

History ==
    /\ asked \in Seq(Nat \X Encodable)
    /\ served \in Seq({Ok(r) : r \in Encodable} \X Responses)
    /\ Len(served) <= Len(asked)
    /\ \A n \in 1 .. Len(served) :
          served[n][1] = Ok(asked[n][2]) /\ Verdict(asked[n][2], served[n][2])

(***************************************************************************)
(* The requests as one stream of bytes: every frame the client began, end  *)
(* to end.  What the daemon has read of a frame, what is on its way and    *)
(* what is left to write follow each other in it, from the end of the last *)
(* frame answered on, up to its end unless the client closed.              *)
(***************************************************************************)
Frames(full, cut, asks) ==
    /\ cut[0] = 0 /\ cut[Len(asks)] = Len(full)
    /\ \A j \in 1 .. Len(asks) :
          /\ cut[j] = cut[j - 1] + Len(FrameBytes(Payload(asks[j][2])))
          /\ At(full, cut[j - 1], FrameBytes(Payload(asks[j][2])))

Placed(full, pos, in, way, out, pc) ==
    /\ At(full, pos, in) /\ At(full, pos + Len(in), way)
    /\ At(full, pos + Len(in) + Len(way), out)
    /\ pc # "closed" => pos + Len(in) + Len(way) + Len(out) = Len(full)

Taken(x) == IF x.pc = "payload" THEN to_le_bytes(x.size, LENGTH_PREFIX_BYTES) \o x.in ELSE x.in

Stream ==
    alive /\ d.pc # "removed" =>
       \E full \in Seq(Byte), cut \in [0 .. Len(asked) -> Nat] :
          /\ Frames(full, cut, asked)
          /\ Placed(full, cut[Len(served)], Taken(d), c2d, c.out, c.pc)

Connection == Ends /\ History /\ Stream

LEMMA StreamKept ==
    ASSUME History, Stream, asked' = asked, served' = served,
           alive' /\ d'.pc # "removed" =>
              /\ alive /\ d.pc # "removed"
              /\ \A full \in Seq(Byte), pos \in Nat :
                    Placed(full, pos, Taken(d), c2d, c.out, c.pc)
                       => Placed(full, pos, Taken(d'), c2d', c'.out, c'.pc)
    PROVE  Stream'
<1> SUFFICES ASSUME alive', d'.pc # "removed"
             PROVE  \E full \in Seq(Byte), cut \in [0 .. Len(asked') -> Nat] :
                       /\ Frames(full, cut, asked')
                       /\ Placed(full, cut[Len(served')], Taken(d'), c2d', c'.out, c'.pc)
  BY DEF Stream
<1>1. PICK full \in Seq(Byte), cut \in [0 .. Len(asked) -> Nat] :
          /\ Frames(full, cut, asked)
          /\ Placed(full, cut[Len(served)], Taken(d), c2d, c.out, c.pc)
  BY DEF Stream
<1>2. cut[Len(served)] \in Nat
  <2>1. Len(served) \in Nat /\ Len(asked) \in Nat /\ Len(served) <= Len(asked)
    BY LenProperties DEF History
  <2> QED BY <2>1
<1>3. Placed(full, cut[Len(served)], Taken(d'), c2d', c'.out, c'.pc)
  BY <1>1, <1>2
<1> QED BY <1>1, <1>3

LEMMA HistoryKept == ASSUME History, asked' = asked, served' = served PROVE History'
BY DEF History

LEMMA ReturnedFacts ==
    ASSUME ClientOK(c), NEW kind, NEW fd
    PROVE  LET r == Returned(kind, fd)
           IN  /\ ClientOK(r) /\ r.out = <<>> /\ r.buf = <<>> /\ r.fds = {} /\ r.size = 0
               /\ r.call = c.call /\ r.ask = c.ask /\ r.res = <<kind, fd>>
               /\ r.pc \in {"idle", "closed"}
               /\ r.pc = "idle" <=> c.call # 0 \/ kind = "Handle"
<1> DEFINE r == Returned(kind, fd)
           Rec(x) == [pc : ClientPc, call : 0 .. Len(Asks), ask : Requests, out : Seq(Byte),
                      buf : Seq(Byte), fds : SUBSET Nat, size : Nat, res : {x}]
<1>1. c \in Rec(c.res)
  BY DEF ClientOK
<1>2. <<>> \in Seq(Byte) /\ {} \in SUBSET Nat /\ 0 \in Nat
  BY EmptySeq
<1>3. "idle" \in ClientPc /\ "closed" \in ClientPc
  BY DEF ClientPc
<1>4. /\ r.out = <<>> /\ r.buf = <<>> /\ r.fds = {} /\ r.size = 0
      /\ r.call = c.call /\ r.ask = c.ask /\ r.res = <<kind, fd>>
      /\ r.pc = IF c.call = 0 /\ kind # "Handle" THEN "closed" ELSE "idle"
  BY <1>1 DEF Returned
<1>5. r \in Rec(<<kind, fd>>)
  BY <1>1, <1>2, <1>3 DEF Returned
<1> HIDE DEF r
<1>6. ClientOK(r)
  BY <1>4, <1>5 DEF ClientOK
<1> QED BY <1>4, <1>6 DEF r

(***************************************************************************)
(* What reads return.                                                      *)
(***************************************************************************)
LEMMA ReadsFacts ==
    ASSUME NEW S, NEW stream \in Seq(S), NEW need \in Nat
    PROVE  /\ Reads(stream, need) \in Nat /\ Reads(stream, need) <= Len(stream)
           /\ Reads(stream, need) <= need
           /\ Reads(stream, need) = need \/ Reads(stream, need) = Len(stream)
<1>1. Len(stream) \in Nat
  BY LenProperties
<1> QED BY <1>1 DEF Reads

LEMMA BytesFacts ==
    ASSUME NEW stream \in Seq(Tagged)
    PROVE  /\ Bytes(stream) \in Seq(Byte) /\ Len(Bytes(stream)) = Len(stream)
           /\ \A i \in 1 .. Len(stream) : Bytes(stream)[i] = stream[i][1]
           /\ Fds(stream) \in SUBSET Nat
<1>1. Len(stream) \in Nat /\ DOMAIN stream = 1 .. Len(stream)
  BY LenProperties
<1>2. \A i \in 1 .. Len(stream) : stream[i] \in Tagged
  BY ElementOfSeq
<1>3. \A i \in 1 .. Len(stream) : stream[i][1] \in Byte /\ stream[i][2] \in Nat
  BY <1>2 DEF Tagged
<1> DEFINE e(i) == stream[i][1]
           t == [i \in 1 .. Len(stream) |-> e(i)]
<1>4. Bytes(stream) = t
  BY <1>1 DEF Bytes
<1>5. t \in Seq(Byte)
  <2>1. \A i \in 1 .. Len(stream) : e(i) \in Byte
    BY <1>3
  <2> HIDE DEF e
  <2> QED BY <1>1, <2>1, IsASeq
<1>6. Len(t) = Len(stream)
  BY <1>1
<1>7. \A i \in 1 .. Len(stream) : t[i] = stream[i][1]
  OBVIOUS
<1> HIDE DEF t
<1>8. Fds(stream) \in SUBSET Nat
  BY <1>1, <1>3 DEF Fds
<1> QED BY <1>4, <1>5, <1>6, <1>7, <1>8

LEMMA PrefixedFacts ==
    ASSUME ClientOK(c), NEW prefix \in Seq(Byte), NEW fds \in SUBSET Nat,
           c.pc \in {"prefix", "rest"}
    PROVE  LET r == Prefixed(prefix, fds)
           IN  /\ ClientOK(r) /\ r.call = c.call /\ r.ask = c.ask
               /\ TooLarge(prefix) => r = Returned("FrameTooLarge", 0)
               /\ ~TooLarge(prefix) => /\ r.pc = "payload" /\ r.buf = <<>> /\ r.fds = fds
                                       /\ r.size = from_le_bytes(prefix) /\ r.out = <<>>
               /\ r.pc \in {"payload", "idle", "closed"}
<1> DEFINE r == Prefixed(prefix, fds)
<1>1. CASE TooLarge(prefix)
  <2>1. r = Returned("FrameTooLarge", 0)
    BY <1>1 DEF Prefixed
  <2> HIDE DEF r
  <2>2. ClientOK(r) /\ r.call = c.call /\ r.ask = c.ask /\ r.pc \in {"idle", "closed"}
    BY <2>1, ReturnedFacts
  <2> QED BY <1>1, <2>1, <2>2 DEF r
<1>2. CASE ~TooLarge(prefix)
  <2> DEFINE n == from_le_bytes(prefix)
             Rec(x) == [pc : ClientPc, call : 0 .. Len(Asks), ask : Requests, out : Seq(Byte),
                        buf : Seq(Byte), fds : SUBSET Nat, size : Nat, res : {x}]
  <2>1. r = [c EXCEPT !.pc = "payload", !.buf = <<>>, !.fds = fds, !.size = n]
    BY <1>2 DEF Prefixed
  <2>2. n \in Nat
    BY FromNat
  <2> HIDE DEF n
  <2>3. c \in Rec(c.res) /\ c.out = <<>>
    BY DEF ClientOK
  <2>4. <<>> \in Seq(Byte) /\ "payload" \in ClientPc
    BY EmptySeq DEF ClientPc
  <2>5. /\ r.pc = "payload" /\ r.buf = <<>> /\ r.fds = fds /\ r.size = n /\ r.out = c.out
        /\ r.call = c.call /\ r.ask = c.ask /\ r.res = c.res
    BY <2>1, <2>3
  <2>6. r \in Rec(c.res)
    BY <2>1, <2>2, <2>3, <2>4
  <2> HIDE DEF r
  <2>7. ClientOK(r)
    BY <2>3, <2>5, <2>6 DEF ClientOK
  <2> QED BY <1>2, <2>3, <2>5, <2>7 DEF r, n
<1> QED BY <1>1, <1>2

LEMMA TakenFacts ==
    ASSUME NEW x, DaemonOK(x)
    PROVE  /\ Taken(x) \in Seq(Byte) /\ Len(Taken(x)) \in Nat
           /\ x.pc # "payload" => Taken(x) = x.in
           /\ x.pc = "payload" =>
                 /\ Taken(x) = to_le_bytes(x.size, LENGTH_PREFIX_BYTES) \o x.in
                 /\ to_le_bytes(x.size, LENGTH_PREFIX_BYTES) \in Seq(Byte)
                 /\ Len(to_le_bytes(x.size, LENGTH_PREFIX_BYTES)) = 4
                 /\ Len(Taken(x)) = 4 + Len(x.in)
<1>1. x.in \in Seq(Byte) /\ x.size \in Nat /\ LENGTH_PREFIX_BYTES \in Nat /\ LENGTH_PREFIX_BYTES = 4
  BY DEF DaemonOK, LENGTH_PREFIX_BYTES
<1> DEFINE le == to_le_bytes(x.size, LENGTH_PREFIX_BYTES)
<1>2. le \in Seq(Byte) /\ Len(le) = 4
  BY <1>1, ToBytes
<1>3. Taken(x) = IF x.pc = "payload" THEN le \o x.in ELSE x.in
  BY DEF Taken
<1> HIDE DEF le
<1>4. le \o x.in \in Seq(Byte) /\ Len(le \o x.in) = Len(le) + Len(x.in)
  BY <1>1, <1>2, ConcatProperties
<1>5. Taken(x) \in Seq(Byte)
  BY <1>1, <1>3, <1>4
<1>6. Len(Taken(x)) \in Nat
  BY <1>5, LenProperties
<1> QED BY <1>2, <1>3, <1>4, <1>5, <1>6 DEF le

(***************************************************************************)
(* The steps of the client that begin no frame and write none.             *)
(***************************************************************************)
Quiet ==
    /\ ClientOK(c') /\ c'.pc \notin {"new", "send"} /\ c.pc # "closed"
    /\ c'.pc = "closed" \/ c.out = <<>> \/ ~alive
    /\ d2c' \in Seq(Tagged) /\ lost' \in BOOLEAN
    /\ c2d' = c2d \/ (c2d' = <<>> /\ ~alive)
    /\ UNCHANGED <<alive, d, asked, served>>

LEMMA QuietConnection == ASSUME Connection, Quiet PROVE Connection'
<1>1. Ends /\ History /\ Stream
  BY DEF Connection
<1>2. Ends'
  <2>1. c2d' \in Seq(Byte)
    BY <1>1, EmptySeq DEF Quiet, Ends
  <2> QED BY <1>1, <2>1 DEF Quiet, Ends
<1>3. History'
  BY <1>1, HistoryKept DEF Quiet
<1>4. ASSUME alive, NEW full \in Seq(Byte), NEW pos \in Nat,
             Placed(full, pos, Taken(d), c2d, c.out, c.pc)
      PROVE  Placed(full, pos, Taken(d), c2d, <<>>, c'.pc)
  <2> DEFINE q == pos + Len(Taken(d)) + Len(c2d)
             n == Len(c.out)
  <2>1. At(full, q, c.out) /\ q + n <= Len(full) /\ c.pc # "closed" /\ q + n = Len(full)
    BY <1>4 DEF Placed, Quiet, At
  <2>2. n \in Nat /\ Len(full) \in Nat /\ Len(<<>>) = 0 /\ c.out \in Seq(Byte)
    BY <1>1, LenProperties, EmptySeq DEF Ends, ClientOK
  <2>3. c'.pc # "closed" => n = 0 /\ c.out = <<>>
    BY <1>4, <2>2 DEF Quiet
  <2>4. At(full, q, <<>>)
    <3>1. q + 0 <= Len(full) /\ \A i \in 1 .. 0 : full[q + i] = <<>>[i]
      <4>1. q \in Int
        <5>1. Len(c2d) \in Nat
          BY <1>1, LenProperties DEF Ends
        <5>2. At(full, pos, Taken(d)) /\ At(full, pos + Len(Taken(d)), c2d)
          BY <1>4 DEF Placed
        <5>3. Len(Taken(d)) \in Nat
          BY <1>1, TakenFacts DEF Ends
        <5> QED BY <5>1, <5>3
      <4> HIDE DEF q, n
      <4> QED BY <2>1, <2>2, <4>1
    <3> QED BY <2>2, <3>1 DEF At
  <2> HIDE DEF q
  <2> QED BY <1>4, <2>1, <2>2, <2>3, <2>4 DEF Placed, q
<1>5. Stream'
  <2>1. c'.out = <<>>
    BY DEF Quiet, ClientOK
  <2>2. alive' /\ d'.pc # "removed" =>
              /\ alive /\ d.pc # "removed"
              /\ \A full \in Seq(Byte), pos \in Nat :
                    Placed(full, pos, Taken(d), c2d, c.out, c.pc)
                       => Placed(full, pos, Taken(d'), c2d', c'.out, c'.pc)
    BY <1>4, <2>1 DEF Quiet
  <2> QED BY <1>1, <2>2, StreamKept DEF Quiet
<1> QED BY <1>2, <1>3, <1>5 DEF Connection

LEMMA EndOfStreamQuiet ==
    ASSUME Connection, NEW begun, EndOfStream(begun), UNCHANGED <<alive, d, asked, served>>,
           c.pc \in {"prefix", "rest", "payload"}
    PROVE  Quiet /\ ~alive /\ c'.pc # "payload"
           /\ \E kind \in {"Io", "Truncated", "ConnectionClosed"} : c' = Returned(kind, 0)
<1>1. ClientOK(c) /\ c.out = <<>> /\ lost \in BOOLEAN /\ d2c \in Seq(Tagged)
  BY DEF Connection, Ends, ClientOK
<1>2. PICK kind \in {"Io", "Truncated", "ConnectionClosed"} : c' = Returned(kind, 0)
  BY DEF EndOfStream
<1>3. ClientOK(c') /\ c'.pc \in {"idle", "closed"}
  BY <1>1, <1>2, ReturnedFacts
<1>4. ~alive /\ c2d' = <<>> /\ d2c' = d2c /\ lost' = lost
  BY DEF EndOfStream
<1> QED BY <1>1, <1>2, <1>3, <1>4 DEF Quiet

LEMMA RecvPrefixQuiet == ASSUME Connection, RecvPrefix PROVE Quiet
<1>1. /\ ClientOK(c) /\ c.out = <<>> /\ lost \in BOOLEAN /\ d2c \in Seq(Tagged) /\ c.pc = "prefix"
      /\ UNCHANGED <<alive, d, asked, served>>
  BY DEF Connection, Ends, ClientOK, RecvPrefix
<1>2. CASE EndOfStream(FALSE)
  BY <1>1, <1>2, EndOfStreamQuiet
<1>3. CASE RecvMsg
  <2> DEFINE n == Reads(d2c, LENGTH_PREFIX_BYTES)
             got == SubSeq(d2c, 1, n)
  <2>1. n \in Nat /\ n <= Len(d2c)
    <3>1. LENGTH_PREFIX_BYTES \in Nat
      BY DEF LENGTH_PREFIX_BYTES
    <3> QED BY <1>1, <3>1, ReadsFacts
  <2>2. /\ d2c' = Drop(d2c, n) /\ c2d' = c2d
        /\ \/ c' = Returned("Truncated", 0) /\ lost' = TRUE
           \/ /\ c' = IF n = LENGTH_PREFIX_BYTES THEN Prefixed(Bytes(got), Fds(got))
                      ELSE [c EXCEPT !.pc = "rest", !.buf = Bytes(got), !.fds = Fds(got)]
              /\ lost' = lost
    BY <1>3 DEF RecvMsg
  <2> HIDE DEF n
  <2>3. got \in Seq(Tagged) /\ Drop(d2c, n) \in Seq(Tagged)
    BY <1>1, <2>1, TakeFacts
  <2> HIDE DEF got
  <2>4. Bytes(got) \in Seq(Byte) /\ Fds(got) \in SUBSET Nat
    BY <2>3, BytesFacts
  <2>5. d2c' \in Seq(Tagged) /\ c2d' = c2d /\ lost' \in BOOLEAN
    BY <1>1, <2>2, <2>3
  <2>6. CASE c' = Returned("Truncated", 0)
    <3>1. ClientOK(c') /\ c'.pc \in {"idle", "closed"}
      BY <1>1, <2>6, ReturnedFacts
    <3> QED BY <1>1, <2>5, <3>1 DEF Quiet
  <2>7. CASE c' = Prefixed(Bytes(got), Fds(got))
    <3>1. ClientOK(c') /\ c'.pc \in {"payload", "idle", "closed"}
      BY <1>1, <2>4, <2>7, PrefixedFacts
    <3> QED BY <1>1, <2>5, <3>1 DEF Quiet
  <2>8. CASE c' = [c EXCEPT !.pc = "rest", !.buf = Bytes(got), !.fds = Fds(got)]
    <3>1. "rest" \in ClientPc
      BY DEF ClientPc
    <3>2. ClientOK(c') /\ c'.pc = "rest"
      BY <1>1, <2>4, <2>8, <3>1 DEF ClientOK
    <3> QED BY <1>1, <2>5, <3>2 DEF Quiet
  <2> QED BY <2>2, <2>6, <2>7, <2>8
<1> QED BY <1>2, <1>3 DEF RecvPrefix

LEMMA ReadRestQuiet == ASSUME Connection, ReadRest PROVE Quiet
<1> DEFINE ended == EndOfStream(TRUE)
<1> HIDE DEF ended
<1>1. /\ ClientOK(c) /\ c.out = <<>> /\ lost \in BOOLEAN /\ d2c \in Seq(Tagged) /\ c.pc = "rest"
      /\ UNCHANGED <<alive, d, asked, served>> /\ c.buf \in Seq(Byte) /\ c.fds \in SUBSET Nat
  BY DEF Connection, Ends, ClientOK, ReadRest
<1>2. CASE ended
  BY <1>1, <1>2, EndOfStreamQuiet DEF ended
<1>3. CASE ~ended
  <2> DEFINE n == Reads(d2c, LENGTH_PREFIX_BYTES - Len(c.buf))
             h == SubSeq(d2c, 1, n)
             got == c.buf \o Bytes(h)
  <2>1. /\ n > 0 /\ d2c' = Drop(d2c, n) /\ c2d' = c2d /\ lost' = lost
        /\ c' = IF Len(got) = LENGTH_PREFIX_BYTES THEN Prefixed(got, c.fds)
                ELSE [c EXCEPT !.buf = got]
    BY <1>3 DEF ReadRest, ended
  <2>2. n \in Nat /\ n <= Len(d2c)
    <3>1. LENGTH_PREFIX_BYTES - Len(c.buf) \in Int /\ Len(d2c) \in Nat
      BY <1>1, LenProperties DEF LENGTH_PREFIX_BYTES
    <3>2. n \in Int /\ n <= Len(d2c)
      BY <3>1 DEF Reads
    <3> QED BY <2>1, <3>2
  <2> HIDE DEF n
  <2>3. h \in Seq(Tagged) /\ Drop(d2c, n) \in Seq(Tagged)
    BY <1>1, <2>2, TakeFacts
  <2> HIDE DEF h
  <2>4. Bytes(h) \in Seq(Byte)
    BY <2>3, BytesFacts
  <2>5. got \in Seq(Byte)
    BY <1>1, <2>4, ConcatProperties
  <2> HIDE DEF got
  <2>6. CASE c' = Prefixed(got, c.fds)
    <3>1. ClientOK(c') /\ c'.pc \in {"payload", "idle", "closed"}
      BY <1>1, <2>5, <2>6, PrefixedFacts
    <3> QED BY <1>1, <2>1, <2>3, <3>1 DEF Quiet
  <2>7. CASE c' = [c EXCEPT !.buf = got]
    <3>1. ClientOK(c') /\ c'.pc = "rest"
      BY <1>1, <2>5, <2>7 DEF ClientOK
    <3> QED BY <1>1, <2>1, <2>3, <3>1 DEF Quiet
  <2> QED BY <2>1, <2>6, <2>7
<1> QED BY <1>2, <1>3

LEMMA ReadPayloadQuiet == ASSUME Connection, ReadPayload PROVE Quiet
<1> DEFINE ended == EndOfStream(TRUE)
<1> HIDE DEF ended
<1>1. /\ ClientOK(c) /\ c.out = <<>> /\ lost \in BOOLEAN /\ d2c \in Seq(Tagged)
      /\ c.pc = "payload" /\ UNCHANGED <<alive, d, asked, served>> /\ c.buf \in Seq(Byte)
      /\ c.size \in Nat
  BY DEF Connection, Ends, ClientOK, ReadPayload
<1>2. CASE ended
  BY <1>1, <1>2, EndOfStreamQuiet DEF ended
<1>3. CASE ~ended
  <2> DEFINE n == Reads(d2c, c.size - Len(c.buf))
             h == SubSeq(d2c, 1, n)
             got == c.buf \o Bytes(h)
  <2>1. /\ n > 0 /\ d2c' = Drop(d2c, n) /\ c2d' = c2d /\ lost' = lost
        /\ c' = [c EXCEPT !.buf = @ \o Bytes(h)]
    BY <1>3 DEF ReadPayload, ended
  <2>2. n \in Nat /\ n <= Len(d2c)
    <3>1. c.size - Len(c.buf) \in Int /\ Len(d2c) \in Nat
      BY <1>1, LenProperties
    <3>2. n \in Int /\ n <= Len(d2c)
      BY <3>1 DEF Reads
    <3> QED BY <2>1, <3>2
  <2> HIDE DEF n
  <2>3. h \in Seq(Tagged) /\ Drop(d2c, n) \in Seq(Tagged)
    BY <1>1, <2>2, TakeFacts
  <2> HIDE DEF h
  <2>4. Bytes(h) \in Seq(Byte)
    BY <2>3, BytesFacts
  <2>5. got \in Seq(Byte) /\ c' = [c EXCEPT !.buf = got]
    BY <1>1, <2>1, <2>4, ConcatProperties
  <2> HIDE DEF got
  <2>6. ClientOK(c') /\ c'.pc = "payload"
    BY <1>1, <2>5 DEF ClientOK
  <2> QED BY <1>1, <2>1, <2>3, <2>6 DEF Quiet
<1> QED BY <1>2, <1>3

LEMMA FinishQuiet == ASSUME Connection, Finish PROVE Quiet
<1>1. /\ ClientOK(c) /\ c.out = <<>> /\ lost \in BOOLEAN /\ d2c \in Seq(Tagged)
      /\ c.pc = "payload" /\ UNCHANGED <<alive, c2d, d2c, d, asked, served, lost>>
  BY DEF Connection, Ends, ClientOK, Finish
<1>2. \E kind, fd : c' = Returned(kind, fd)
  BY DEF Finish
<1>3. ClientOK(c') /\ c'.pc \in {"idle", "closed"}
  BY <1>1, <1>2, ReturnedFacts
<1> QED BY <1>1, <1>3 DEF Quiet

LEMMA ClientClosesQuiet == ASSUME Connection, ClientCloses PROVE Quiet
<1>1. /\ ClientOK(c) /\ lost \in BOOLEAN /\ c.pc # "closed"
      /\ UNCHANGED <<alive, c2d, d, asked, served, lost>> /\ d2c' = <<>>
  BY DEF Connection, Ends, ClientCloses, Open
<1>2. <<>> \in Seq(Byte) /\ <<>> \in Seq(Tagged) /\ "closed" \in ClientPc
  BY EmptySeq DEF ClientPc
<1>3. c' = [c EXCEPT !.pc = "closed", !.out = <<>>, !.buf = <<>>, !.fds = {}, !.size = 0]
  BY DEF ClientCloses
<1>4. ClientOK(c') /\ c'.pc = "closed"
  BY <1>1, <1>2, <1>3 DEF ClientOK
<1> QED BY <1>1, <1>2, <1>4 DEF Quiet

(***************************************************************************)
(* The client begins a frame: the stream of requests grows at its end.     *)
(***************************************************************************)
LEMMA FrameFacts ==
    ASSUME NEW P \in Seq(Byte)
    PROVE  /\ FrameBytes(P) \in Seq(Byte) /\ Len(FrameBytes(P)) = 4 + Len(P)
           /\ Len(P) \in Nat /\ FrameBytes(P) # <<>>
<1> DEFINE le == to_le_bytes(Len(P), LENGTH_PREFIX_BYTES)
<1>1. Len(P) \in Nat /\ LENGTH_PREFIX_BYTES \in Nat /\ LENGTH_PREFIX_BYTES = 4
  BY LenProperties DEF LENGTH_PREFIX_BYTES
<1>2. le \in Seq(Byte) /\ Len(le) = 4
  BY <1>1, ToBytes
<1>3. FrameBytes(P) = le \o P
  BY DEF FrameBytes
<1> HIDE DEF le
<1>4. le \o P \in Seq(Byte) /\ Len(le \o P) = Len(le) + Len(P)
  BY <1>2, ConcatProperties
<1>5. FrameBytes(P) \in Seq(Byte) /\ Len(FrameBytes(P)) = 4 + Len(P)
  BY <1>2, <1>3, <1>4
<1>6. FrameBytes(P) # <<>>
  <2> SUFFICES ASSUME FrameBytes(P) = <<>> PROVE FALSE
    OBVIOUS
  <2>1. Len(FrameBytes(P)) = 0
    BY EmptySeq
  <2> QED BY <1>1, <1>5, <2>1
<1> QED BY <1>1, <1>5, <1>6

LEMMA EncodableFacts ==
    ASSUME NEW r \in Encodable
    PROVE  /\ r \in Requests /\ encode_request(r).value = FrameBytes(Payload(r))
           /\ Payload(r) \in Seq(Byte) /\ Len(Payload(r)) \in Nat
           /\ Len(Payload(r)) <= MAX_MESSAGE_SIZE
           /\ decode_request(Payload(r)) = Ok(r)
<1>1. r \in Requests /\ encode_request(r).fault = "none"
  BY DEF Encodable
<1>2. /\ encode_request(r).value = FrameBytes(Payload(r)) /\ Len(Payload(r)) <= MAX_MESSAGE_SIZE
      /\ Payload(r) \in Seq(Byte)
  BY <1>1, EncodedRequest, PayloadFacts
<1>3. Len(Payload(r)) \in Nat
  BY <1>2, LenProperties
<1>4. decode_request(Payload(r)) = Ok(r)
  BY <1>1, <1>2, DecodeRequest
<1> QED BY <1>1, <1>2, <1>3, <1>4

LEMMA FramesGrow ==
    ASSUME NEW asks \in Seq(Nat \X Encodable), NEW k \in Nat, NEW r \in Encodable,
           NEW full \in Seq(Byte), NEW cut \in [0 .. Len(asks) -> Nat], Frames(full, cut, asks),
           NEW n \in 0 .. Len(asks), NEW in \in Seq(Byte), NEW way \in Seq(Byte), NEW pc,
           pc # "closed", Placed(full, cut[n], in, way, <<>>, pc), NEW then
    PROVE  \E full2 \in Seq(Byte), cut2 \in [0 .. Len(Append(asks, <<k, r>>)) -> Nat] :
              /\ Frames(full2, cut2, Append(asks, <<k, r>>))
              /\ Placed(full2, cut2[n], in, way, FrameBytes(Payload(r)), then)
<1> DEFINE F(a) == FrameBytes(Payload(a[2]))
           f == FrameBytes(Payload(r))
           full2 == full \o f
           m == Len(asks)
           asks2 == Append(asks, <<k, r>>)
           cut2 == [j \in 0 .. m + 1 |-> IF j = m + 1 THEN Len(full2) ELSE cut[j]]
<1>1. <<k, r>> \in Nat \X Encodable /\ <<k, r>>[2] = r
  OBVIOUS
<1>2. /\ asks2 \in Seq(Nat \X Encodable) /\ Len(asks2) = m + 1
      /\ \A i \in 1 .. m : asks2[i] = asks[i]
      /\ asks2[m + 1] = <<k, r>>
  BY <1>1, AppendProperties
<1>3. f \in Seq(Byte) /\ Len(f) \in Nat /\ full2 \in Seq(Byte) /\ Len(full2) = Len(full) + Len(f)
  <2>1. f \in Seq(Byte)
    BY EncodableFacts, FrameFacts
  <2> HIDE DEF f
  <2> QED BY <2>1, ConcatProperties, LenProperties
<1>4. m \in Nat /\ Len(full) \in Nat
  BY LenProperties
<1>5. At(full2, Len(full), f)
  <2>1. 0 \in Nat /\ 0 + Len(full) = Len(full)
    BY <1>4
  <2>3. At(full2, 0, full2)
    <3> HIDE DEF full2
    <3> QED BY <1>3, AtSelf
  <2>2. At(full2, 0 + Len(full), f)
    <3> HIDE DEF f
    <3> USE DEF full2
    <3>1. At(full \o f, 0, full \o f) /\ full \o f \in Seq(Byte)
      BY <1>3, <2>3
    <3> QED BY <1>3, <2>1, <3>1, AtConcat
  <2> QED BY <2>1, <2>2
<1>6. \A s \in Seq(Byte), q \in Nat : At(full, q, s) => At(full2, q, s)
  <2> HIDE DEF f
  <2> QED BY <1>3, AtLeft
<1>7. /\ cut[0] = 0 /\ cut[m] = Len(full)
      /\ \A j \in 1 .. m : cut[j] = cut[j - 1] + Len(F(asks[j])) /\ At(full, cut[j - 1], F(asks[j]))
  BY DEF Frames
<1>8. \A j \in 1 .. m : F(asks[j]) \in Seq(Byte)
  <2> TAKE j \in 1 .. m
  <2>1. asks[j] \in Nat \X Encodable
    BY ElementOfSeq
  <2>2. asks[j][2] \in Encodable
    BY <2>1
  <2>3. Payload(asks[j][2]) \in Seq(Byte)
    BY <2>2, EncodableFacts
  <2> QED BY <2>3, FrameFacts
<1>9. \A j \in 0 .. m : cut[j] \in Nat
  OBVIOUS
<1> DEFINE G(j) == F(asks[j])
           G2(j) == F(asks2[j])
<1>10. (\A j \in 1 .. m : G2(j) = G(j)) /\ G2(m + 1) = f
  <2>1. F(<<k, r>>) = f
    BY <1>1
  <2> HIDE DEF F, asks2
  <2> QED BY <1>2, <2>1
<1>11. /\ \A j \in 1 .. m : G(j) \in Seq(Byte)
       /\ \A j \in 1 .. m : cut[j] = cut[j - 1] + Len(G(j)) /\ At(full, cut[j - 1], G(j))
  BY <1>7, <1>8
<1> HIDE DEF G, G2, full2, f, m, F, asks2
<1>12. /\ cut2 \in [0 .. m + 1 -> Nat] /\ cut2[m + 1] = Len(full2)
       /\ \A j \in 0 .. m : cut2[j] = cut[j]
  <2>1. Len(full2) \in Nat
    BY <1>3, LenProperties
  <2>2. \A j \in 0 .. m + 1 : j # m + 1 => j \in 0 .. m
    BY <1>4
  <2>3. \A j \in 0 .. m : j # m + 1 /\ j \in 0 .. m + 1
    BY <1>4
  <2>4. m + 1 \in 0 .. m + 1
    BY <1>4
  <2> QED BY <1>9, <2>1, <2>2, <2>3, <2>4
<1> HIDE DEF cut2
<1>13. \A j \in 1 .. m + 1 : cut2[j] = cut2[j - 1] + Len(G2(j)) /\ At(full2, cut2[j - 1], G2(j))
  <2> TAKE j \in 1 .. m + 1
  <2>1. CASE j = m + 1
    <3>1. j - 1 = m /\ m \in 0 .. m
      BY <1>4, <2>1
    <3> QED BY <1>3, <1>5, <1>7, <1>10, <1>12, <2>1, <3>1
  <2>2. CASE j # m + 1
    <3>1. j \in 1 .. m /\ j \in 0 .. m /\ j - 1 \in 0 .. m
      BY <1>4, <2>2
    <3>2. cut[j] = cut[j - 1] + Len(G(j)) /\ At(full, cut[j - 1], G(j)) /\ cut[j - 1] \in Nat
      BY <1>9, <1>11, <3>1
    <3>3. At(full2, cut[j - 1], G(j))
      BY <1>6, <1>11, <3>1, <3>2
    <3> QED BY <1>10, <1>12, <3>1, <3>2, <3>3
  <2> QED BY <2>1, <2>2
<1>14. Frames(full2, cut2, asks2)
  <2>1. cut2[0] = 0
    <3>1. 0 \in 0 .. m
      BY <1>4
    <3> QED BY <1>7, <1>12, <3>1
  <2>2. cut2[Len(asks2)] = Len(full2)
    BY <1>2, <1>12 DEF m
  <2>3. \A j \in 1 .. Len(asks2) :
           cut2[j] = cut2[j - 1] + Len(G2(j)) /\ At(full2, cut2[j - 1], G2(j))
    BY <1>2, <1>13 DEF m
  <2> QED BY <2>1, <2>2, <2>3 DEF Frames, G2, F
<1>15. Placed(full2, cut2[n], in, way, f, then)
  <2> DEFINE p == cut[n]
             a == Len(in)
             b == Len(way)
  <2>1. p \in Nat /\ cut2[n] = p /\ a \in Nat /\ b \in Nat
    BY <1>9, <1>12, LenProperties DEF m
  <2>2. At(full, p, in) /\ At(full, p + a, way) /\ p + a + b + 0 = Len(full)
    BY EmptySeq DEF Placed
  <2> HIDE DEF p, a, b
  <2>3. p + a \in Nat /\ p + a + b = Len(full)
    BY <2>1, <2>2
  <2>4. At(full2, p, in) /\ At(full2, p + a, way) /\ At(full2, p + a + b, f)
    BY <1>5, <1>6, <2>1, <2>2, <2>3
  <2>5. p + a + b + Len(f) = Len(full2)
    BY <1>3, <2>3
  <2> QED BY <2>1, <2>4, <2>5 DEF Placed, p, a, b
<1> QED BY <1>2, <1>3, <1>12, <1>14, <1>15 DEF asks2, m, f

Begins(k, r) ==
    /\ c.pc \in {"new", "idle"} /\ c.out = <<>>
    /\ ClientOK(c') /\ c'.pc = "send" /\ c'.out = FrameBytes(Payload(r))
    /\ asked' = Append(asked, <<k, r>>)
    /\ UNCHANGED <<alive, c2d, d2c, d, served, lost>>

LEMMA BeginsConnection ==
    ASSUME Connection, NEW k \in Nat, NEW r \in Encodable, Begins(k, r)
    PROVE  Connection'
<1>1. Ends /\ History /\ Stream
  BY DEF Connection
<1>2. Ends'
  BY <1>1 DEF Ends, Begins
<1> DEFINE asked2 == Append(asked, <<k, r>>)
<1>3. /\ asked2 \in Seq(Nat \X Encodable) /\ Len(asked2) = Len(asked) + 1
      /\ \A i \in 1 .. Len(asked) : asked2[i] = asked[i]
  <2>1. <<k, r>> \in Nat \X Encodable
    OBVIOUS
  <2> QED BY <1>1, <2>1, AppendProperties DEF History
<1>4. asked' = asked2
  BY DEF Begins
<1>5. Len(asked) \in Nat /\ Len(served) \in Nat /\ Len(served) <= Len(asked)
  BY <1>1, LenProperties DEF History
<1>6. History'
  <2> HIDE DEF asked2
  <2>1. served' = served
    BY DEF Begins
  <2>2. Len(served) <= Len(asked2) /\ \A n \in 1 .. Len(served) : n \in 1 .. Len(asked)
    BY <1>3, <1>5
  <2>3. \A n \in 1 .. Len(served) : asked2[n] = asked[n]
    BY <1>3, <2>2
  <2> QED BY <1>1, <1>3, <1>4, <2>1, <2>2, <2>3 DEF History
<1>7. ASSUME alive, d.pc # "removed"
      PROVE  \E full \in Seq(Byte), cut \in [0 .. Len(asked2) -> Nat] :
                /\ Frames(full, cut, asked2)
                /\ Placed(full, cut[Len(served)], Taken(d), c2d, FrameBytes(Payload(r)), "send")
  <2>1. PICK full \in Seq(Byte), cut \in [0 .. Len(asked) -> Nat] :
            /\ Frames(full, cut, asked)
            /\ Placed(full, cut[Len(served)], Taken(d), c2d, c.out, c.pc)
    BY <1>1, <1>7 DEF Stream
  <2>2. /\ Placed(full, cut[Len(served)], Taken(d), c2d, <<>>, c.pc) /\ c.pc # "closed"
        /\ asked \in Seq(Nat \X Encodable) /\ Len(served) \in 0 .. Len(asked)
        /\ c2d \in Seq(Byte)
    BY <1>1, <1>5, <2>1 DEF Begins, Ends, History
  <2>3. Taken(d) \in Seq(Byte)
    BY <1>1, TakenFacts DEF Ends
  <2> QED BY <2>1, <2>2, <2>3, FramesGrow
<1>8. Stream'
  <2> HIDE DEF asked2
  <2> SUFFICES ASSUME alive', d'.pc # "removed"
               PROVE  \E full \in Seq(Byte), cut \in [0 .. Len(asked') -> Nat] :
                       /\ Frames(full, cut, asked')
                       /\ Placed(full, cut[Len(served')], Taken(d'), c2d', c'.out, c'.pc)
    BY DEF Stream
  <2>1. alive /\ d' = d /\ c2d' = c2d /\ served' = served /\ c'.pc = "send"
        /\ c'.out = FrameBytes(Payload(r))
    BY DEF Begins
  <2> QED BY <1>4, <1>7, <2>1
<1> QED BY <1>2, <1>6, <1>8 DEF Connection

LEMMA ClockIsEncodable == AttachInterlock(CLOCK) \in Encodable
<1>1. CLOCK \in Text
  BY DEF CLOCK, Text
<1>2. AttachInterlock(CLOCK) \in Requests
  BY <1>1 DEF AttachInterlock, CreateInterlock, Requests, Shape, None
<1> QED BY <1>2, SessionAssumption DEF Encodable

LEMMA ConnectSteps ==
    ASSUME Connection, Connect
    PROVE  \/ ~alive /\ Quiet /\ c' = Returned("Io", 0)
           \/ alive /\ Begins(0, c.ask) /\ c.ask \in Encodable /\ c'.call = c.call /\ c'.ask = c.ask
<1>1. /\ ClientOK(c) /\ c.out = <<>> /\ lost \in BOOLEAN /\ d2c \in Seq(Tagged) /\ c.pc = "new"
      /\ UNCHANGED <<alive, c2d, d2c, d, served, lost>> /\ c.ask = AttachInterlock(CLOCK)
  BY DEF Connection, Ends, ClientOK, Connect
<1>2. CASE alive
  <2> DEFINE v == encode_request(c.ask).value
             f == FrameBytes(Payload(c.ask))
  <2>1. c.ask \in Encodable
    BY <1>1, ClockIsEncodable
  <2>2. v = f /\ f \in Seq(Byte) /\ f # <<>>
    BY <2>1, EncodableFacts, FrameFacts
  <2>3. c' = [c EXCEPT !.pc = "send", !.out = v] /\ asked' = Append(asked, <<0, c.ask>>)
    BY <1>2 DEF Connect
  <2> HIDE DEF v, f
  <2>4. "send" \in ClientPc
    BY DEF ClientPc
  <2>5. /\ ClientOK(c') /\ c'.pc = "send" /\ c'.out = f /\ c'.call = c.call /\ c'.ask = c.ask
    BY <1>1, <2>2, <2>3, <2>4 DEF ClientOK
  <2> QED BY <1>1, <1>2, <2>1, <2>3, <2>5 DEF Begins, f
<1>3. CASE ~alive
  <2>1. c' = Returned("Io", 0) /\ asked' = asked
    BY <1>3 DEF Connect
  <2>2. ClientOK(c') /\ c'.pc \in {"idle", "closed"}
    BY <1>1, <2>1, ReturnedFacts
  <2> QED BY <1>1, <1>3, <2>1, <2>2 DEF Quiet
<1> QED BY <1>2, <1>3

(* A call is refused before a byte is written, or its frame begins. *)
Refuses ==
    /\ c'.pc = "idle" /\ c'.call = c.call + 1 /\ UNCHANGED <<c2d, d2c, lost>>
    /\ c'.res[1] \in {"InvalidRequest", "FrameTooLarge"}

LEMMA CallSteps ==
    ASSUME Connection, Call
    PROVE  \/ Quiet /\ Refuses
           \/ \E r \in Encodable : Begins(c.call + 1, r) /\ c'.call = c.call + 1 /\ c'.ask = r
<1>1. /\ ClientOK(c) /\ c.out = <<>> /\ lost \in BOOLEAN /\ d2c \in Seq(Tagged) /\ c.pc = "idle"
      /\ UNCHANGED <<alive, c2d, d2c, d, served, lost>> /\ c.call < Len(Asks)
  BY DEF Connection, Ends, ClientOK, Call
<1>2. c.call \in 0 .. Len(Asks) /\ Len(Asks) \in Nat
  BY <1>1, SessionAssumption, LenProperties DEF ClientOK
<1>3. c.call + 1 \in 1 .. Len(Asks) /\ c.call + 1 \in 0 .. Len(Asks)
  BY <1>1, <1>2
<1> DEFINE error(a) == IF a.method = "attach_interlock" /\ a.request.name = CLOCK
                       THEN "InvalidRequest" ELSE encode_request(a.request).fault
           begun(a) == [c EXCEPT !.call = @ + 1, !.ask = a.request, !.res = <<error(a), 0>>]
<1>4. PICK a \in Asks[c.call + 1] :
          LET frame == encode_request(a.request)
              fault == IF a.method = "attach_interlock" /\ a.request.name = CLOCK
                       THEN "InvalidRequest" ELSE frame.fault
              now   == [c EXCEPT !.call = @ + 1, !.ask = a.request, !.res = <<fault, 0>>]
          IN  IF fault # "none" THEN c' = now /\ UNCHANGED asked
              ELSE /\ c' = [now EXCEPT !.pc = "send", !.out = frame.value]
                   /\ asked' = Append(asked, <<c.call + 1, a.request>>)
  BY Zenon DEF Call
<1>5. a.request \in Requests
  <2>1. Asks[c.call + 1] \in SUBSET [method : STRING, request : Requests]
    BY <1>3, SessionAssumption, ElementOfSeq
  <2>2. a \in [method : STRING, request : Requests]
    BY <2>1
  <2> QED BY <2>2
<1> DEFINE x == begun(a)
           Rec(e) == [pc : ClientPc, call : 0 .. Len(Asks), ask : Requests, out : Seq(Byte),
                      buf : Seq(Byte), fds : SUBSET Nat, size : Nat, res : {e}]
<1>6. c \in Rec(c.res)
  BY <1>1 DEF ClientOK
<1>7. x = [c EXCEPT !.call = c.call + 1, !.ask = a.request, !.res = <<error(a), 0>>]
  BY <1>6
<1> HIDE DEF begun
<1>8. /\ x \in Rec(<<error(a), 0>>) /\ x.call = c.call + 1 /\ x.ask = a.request
      /\ x.res = <<error(a), 0>> /\ x.pc = "idle" /\ x.out = <<>> /\ x.buf = c.buf /\ x.fds = c.fds
  <2> HIDE DEF error, x
  <2> QED BY <1>1, <1>3, <1>5, <1>6, <1>7
<1>9. CASE error(a) # "none"
  <2>1. c' = x /\ asked' = asked
    BY <1>4, <1>9 DEF begun
  <2>2. error(a) \in {"InvalidRequest", "FrameTooLarge"}
    BY <1>5, <1>9, EncodedRequest
  <2> HIDE DEF error, x
  <2>3. ClientOK(x)
    BY <1>1, <1>8 DEF ClientOK
  <2>4. x.res[1] = error(a)
    BY <1>8
  <2> QED BY <1>1, <1>8, <2>1, <2>2, <2>3, <2>4 DEF Quiet, Refuses
<1>10. CASE error(a) = "none"
  <2> DEFINE v == encode_request(a.request).value
             f == FrameBytes(Payload(a.request))
  <2>1. a.request \in Encodable
    BY <1>5, <1>10 DEF Encodable
  <2>2. v = f /\ f \in Seq(Byte) /\ f # <<>>
    BY <2>1, EncodableFacts, FrameFacts
  <2>3. c' = [x EXCEPT !.pc = "send", !.out = v] /\ asked' = Append(asked, <<c.call + 1, a.request>>)
    BY <1>4, <1>10 DEF begun
  <2> HIDE DEF v, f, error, x
  <2>4. "send" \in ClientPc
    BY DEF ClientPc
  <2>5. /\ c' \in Rec(<<error(a), 0>>) /\ c'.pc = "send" /\ c'.out = f /\ c'.call = c.call + 1
        /\ c'.ask = a.request /\ c'.res = <<error(a), 0>> /\ c'.buf = c.buf /\ c'.fds = c.fds
    BY <1>8, <2>2, <2>3, <2>4
  <2>6. ClientOK(c')
    BY <1>1, <2>2, <2>5 DEF ClientOK
  <2> QED BY <1>1, <2>1, <2>3, <2>5, <2>6 DEF Begins, f
<1> QED BY <1>9, <1>10

(***************************************************************************)
(* Bytes move along the stream of requests.                                *)
(***************************************************************************)
LEMMA WritesFacts ==
    ASSUME NEW S, NEW bytes \in Seq(S), NEW n \in Writes(bytes)
    PROVE  n \in Nat /\ 0 < n /\ n <= Len(bytes)
<1>1. Len(bytes) \in Nat /\ MaxWrite \in Nat
  BY LenProperties, SessionAssumption
<1> QED BY <1>1 DEF Writes

LEMMA PlacedRead ==
    ASSUME NEW full \in Seq(Byte), NEW pos \in Nat, NEW in \in Seq(Byte), NEW way \in Seq(Byte),
           NEW out \in Seq(Byte), NEW pc, Placed(full, pos, in, way, out, pc),
           NEW n \in Nat, n <= Len(way)
    PROVE  /\ in \o SubSeq(way, 1, n) \in Seq(Byte) /\ Drop(way, n) \in Seq(Byte)
           /\ Len(in \o SubSeq(way, 1, n)) = Len(in) + n
           /\ Placed(full, pos, in \o SubSeq(way, 1, n), Drop(way, n), out, pc)
<1> DEFINE in2 == in \o SubSeq(way, 1, n)
           way2 == Drop(way, n)
           a == Len(in)
           b == Len(way)
           e == Len(out)
<1>1. a \in Nat /\ b \in Nat /\ e \in Nat /\ n <= b
  BY LenProperties
<1>2. /\ At(full, pos, in) /\ At(full, pos + a, way) /\ At(full, pos + a + b, out)
      /\ (pc # "closed" => pos + a + b + e = Len(full))
  BY DEF Placed
<1>3. /\ in2 \in Seq(Byte) /\ Len(in2) = a + n /\ way2 \in Seq(Byte) /\ Len(way2) = b - n
      /\ At(full, pos, in2) /\ At(full, pos + a + n, way2)
  BY <1>2, AtMove
<1> HIDE DEF in2, way2, a, b, e
<1>4. /\ pos + (a + n) = pos + a + n /\ pos + (a + n) + (b - n) = pos + a + b
      /\ pos + (a + n) + (b - n) + e = pos + a + b + e
  BY <1>1
<1>5. Placed(full, pos, in2, way2, out, pc)
  BY <1>2, <1>3, <1>4 DEF Placed, e
<1> QED BY <1>3, <1>5 DEF in2, way2, a

LEMMA PlacedWrite ==
    ASSUME NEW full \in Seq(Byte), NEW pos \in Nat, NEW in \in Seq(Byte), NEW way \in Seq(Byte),
           NEW out \in Seq(Byte), NEW pc, Placed(full, pos, in, way, out, pc), pc # "closed",
           NEW n \in Nat, n <= Len(out), NEW then
    PROVE  Placed(full, pos, in, way \o SubSeq(out, 1, n), Drop(out, n), then)
<1> DEFINE way2 == way \o SubSeq(out, 1, n)
           out2 == Drop(out, n)
           a == Len(in)
           b == Len(way)
           e == Len(out)
<1>1. a \in Nat /\ b \in Nat /\ e \in Nat /\ n <= e /\ pos + a \in Nat
  BY LenProperties
<1>2. /\ At(full, pos, in) /\ At(full, pos + a, way) /\ At(full, pos + a + b, out)
      /\ pos + a + b + e = Len(full)
  BY DEF Placed
<1>3. /\ Len(way2) = b + n /\ Len(out2) = e - n
      /\ At(full, pos + a, way2) /\ At(full, pos + a + b + n, out2)
  <2> DEFINE q == pos + a
  <2>1. q \in Nat /\ At(full, q, way) /\ At(full, q + b, out)
    BY <1>1, <1>2
  <2> HIDE DEF q
  <2>2. /\ Len(way2) = b + n /\ Len(out2) = e - n
        /\ At(full, q, way2) /\ At(full, q + b + n, out2)
    BY <2>1, AtMove
  <2> QED BY <2>2 DEF q
<1> HIDE DEF way2, out2, a, b, e
<1>4. pos + a + (b + n) = pos + a + b + n /\ pos + a + (b + n) + (e - n) = pos + a + b + e
  BY <1>1
<1>5. Placed(full, pos, in, way2, out2, then)
  BY <1>2, <1>3, <1>4 DEF Placed, a
<1> QED BY <1>5 DEF way2, out2

LEMMA SendFrameSteps ==
    ASSUME Connection, SendFrame
    PROVE  \/ ~alive /\ Quiet /\ c' = Returned("Io", 0) /\ c2d' = c2d
           \/ /\ alive /\ ClientOK(c') /\ UNCHANGED <<alive, d2c, d, asked, served, lost>>
              /\ c'.call = c.call /\ c'.ask = c.ask /\ c'.pc \in {"send", "prefix"}
              /\ \E n \in Nat : /\ n <= Len(c.out) /\ c2d' = c2d \o SubSeq(c.out, 1, n)
                                /\ c'.out = Drop(c.out, n)
<1>0. c.pc = "send" /\ UNCHANGED <<alive, d2c, d, asked, served, lost>>
  BY Zenon DEF SendFrame
<1>1. /\ ClientOK(c) /\ c.out \in Seq(Byte) /\ lost \in BOOLEAN /\ d2c \in Seq(Tagged)
      /\ c.pc = "send" /\ UNCHANGED <<alive, d2c, d, asked, served, lost>>
  BY <1>0 DEF Connection, Ends, ClientOK
<1>2. CASE ~alive
  <2>1. c' = Returned("Io", 0) /\ c2d' = c2d
    BY <1>2 DEF SendFrame
  <2>2. ClientOK(c') /\ c'.pc \in {"idle", "closed"}
    BY <1>1, <2>1, ReturnedFacts
  <2> QED BY <1>1, <1>2, <2>1, <2>2 DEF Quiet
<1>3. CASE alive
  <2>1. PICK n \in Writes(c.out) :
            /\ c2d' = c2d \o SubSeq(c.out, 1, n)
            /\ c' = [c EXCEPT !.out = Drop(@, n),
                              !.pc = IF n = Len(c.out) THEN "prefix" ELSE "send"]
    BY <1>3, Zenon DEF SendFrame
  <2> DEFINE rest == Drop(c.out, n)
  <2>2. n \in Nat /\ n <= Len(c.out) /\ Len(c.out) \in Nat
    BY <1>1, WritesFacts, LenProperties
  <2>3. rest \in Seq(Byte) /\ Len(rest) = Len(c.out) - n
    BY <1>1, <2>2, TakeFacts
  <2>4. c' = [c EXCEPT !.out = rest, !.pc = IF n = Len(c.out) THEN "prefix" ELSE "send"]
    BY <1>1, <2>1 DEF ClientOK
  <2> HIDE DEF rest
  <2>5. n = Len(c.out) <=> rest = <<>>
    <3>1. rest = <<>> => Len(rest) = 0
      BY EmptySeq
    <3>2. Len(rest) = 0 => rest = <<>>
      BY <2>3, EmptySeq
    <3> QED BY <2>2, <2>3, <3>1, <3>2
  <2>6. "send" \in ClientPc /\ "prefix" \in ClientPc
    BY DEF ClientPc
  <2> DEFINE Rec == [pc : ClientPc, call : 0 .. Len(Asks), ask : Requests, out : Seq(Byte),
                     buf : Seq(Byte), fds : SUBSET Nat, size : Nat, res : {c.res}]
  <2>7. c \in Rec /\ c.buf = <<>> /\ c.fds = {}
    BY <1>1 DEF ClientOK
  <2>8. /\ c' \in Rec /\ c'.out = rest /\ c'.pc = IF n = Len(c.out) THEN "prefix" ELSE "send"
        /\ c'.call = c.call /\ c'.ask = c.ask /\ c'.res = c.res /\ c'.buf = c.buf /\ c'.fds = c.fds
    BY <2>3, <2>4, <2>6, <2>7
  <2>9. ClientOK(c')
    BY <2>5, <2>7, <2>8 DEF ClientOK
  <2>10. c'.pc \in {"send", "prefix"}
    BY <2>8
  <2> QED BY <1>1, <1>3, <2>1, <2>2, <2>8, <2>9, <2>10 DEF rest
<1> QED BY <1>2, <1>3

LEMMA SendFrameConnection == ASSUME Connection, SendFrame PROVE Connection'
<1>1. CASE Quiet
  BY <1>1, QuietConnection
<1>2. CASE ~Quiet
  <2>1. /\ alive /\ ClientOK(c') /\ UNCHANGED <<alive, d2c, d, asked, served, lost>>
        /\ c'.pc \in {"send", "prefix"} /\ c.pc = "send"
    <3>1. c.pc = "send"
      BY Zenon DEF SendFrame
    <3> QED BY <1>2, <3>1, SendFrameSteps
  <2>2. PICK n \in Nat : n <= Len(c.out) /\ c2d' = c2d \o SubSeq(c.out, 1, n)
                         /\ c'.out = Drop(c.out, n)
    BY <1>2, SendFrameSteps
  <2>3. Ends /\ History /\ Stream /\ c.out \in Seq(Byte) /\ c2d \in Seq(Byte)
    BY DEF Connection, Ends, ClientOK
  <2>4. c2d' \in Seq(Byte)
    <3>1. SubSeq(c.out, 1, n) \in Seq(Byte)
      BY <2>2, <2>3, TakeFacts
    <3> QED BY <2>2, <2>3, <3>1, ConcatProperties
  <2>5. Ends'
    BY <2>1, <2>3, <2>4 DEF Ends
  <2>6. History'
    BY <2>1, <2>3, HistoryKept
  <2>7. Stream'
    <3>1. Taken(d) \in Seq(Byte)
      BY <2>3, TakenFacts DEF Ends
    <3>2. ASSUME NEW full \in Seq(Byte), NEW pos \in Nat,
                 Placed(full, pos, Taken(d), c2d, c.out, c.pc)
          PROVE  Placed(full, pos, Taken(d'), c2d', c'.out, c'.pc)
      <4>1. c.pc # "closed" /\ d' = d
        BY <2>1
      <4>2. Placed(full, pos, Taken(d), c2d \o SubSeq(c.out, 1, n), Drop(c.out, n), c'.pc)
        BY <2>2, <2>3, <3>1, <3>2, <4>1, PlacedWrite
      <4> QED BY <2>2, <4>1, <4>2
    <3> QED BY <2>1, <2>3, <3>2, StreamKept
  <2> QED BY <2>5, <2>6, <2>7 DEF Connection
<1> QED BY <1>1, <1>2

(***************************************************************************)
(* The steps of the daemon that answer nothing.                            *)
(***************************************************************************)
Works ==
    /\ DaemonOK(d') /\ alive' \in BOOLEAN /\ (alive' <=> d'.pc # "dead") /\ (alive' => alive)
    /\ c2d' \in Seq(Byte) /\ d2c' \in Seq(Tagged)
    /\ c.pc = "new" => d'.pc \in {"poll", "dead"} /\ c2d' = c2d /\ d2c' = d2c
    /\ UNCHANGED <<c, asked, served, lost>>

LEMMA WorksConnection ==
    ASSUME Connection, Works,
           alive' /\ d'.pc # "removed" =>
              /\ d.pc # "removed"
              /\ \A full \in Seq(Byte), pos \in Nat :
                    Placed(full, pos, Taken(d), c2d, c.out, c.pc)
                       => Placed(full, pos, Taken(d'), c2d', c.out, c.pc)
    PROVE  Connection'
<1>1. Ends /\ History /\ Stream
  BY DEF Connection
<1>2. Ends'
  BY <1>1 DEF Ends, Works
<1>3. History'
  BY <1>1, HistoryKept DEF Works
<1>4. Stream'
  BY <1>1, StreamKept DEF Works
<1> QED BY <1>2, <1>3, <1>4 DEF Connection

LEMMA DaemonFields ==
    ASSUME Connection
    PROVE  /\ d \in [pc : DaemonPc, in : Seq(Byte), size : Nat, out : Seq(Tagged)]
           /\ DaemonOK(d) /\ c2d \in Seq(Byte) /\ d2c \in Seq(Tagged)
           /\ alive \in BOOLEAN /\ (alive <=> d.pc # "dead") /\ Taken(d) \in Seq(Byte)
           /\ c.out \in Seq(Byte) /\ Len(d.in) \in Nat /\ Len(c2d) \in Nat
           /\ c.pc = "new" => d.pc \in {"poll", "dead"} /\ c2d = <<>>
<1>1. Ends
  BY DEF Connection
<1>2. /\ d \in [pc : DaemonPc, in : Seq(Byte), size : Nat, out : Seq(Tagged)]
      /\ DaemonOK(d) /\ c2d \in Seq(Byte) /\ d2c \in Seq(Tagged)
      /\ alive \in BOOLEAN /\ (alive <=> d.pc # "dead")
      /\ c.out \in Seq(Byte) /\ (c.pc = "new" => d.pc \in {"poll", "dead"} /\ c2d = <<>>)
  BY <1>1 DEF Ends, DaemonOK, ClientOK
<1>3. Taken(d) \in Seq(Byte)
  BY <1>2, TakenFacts
<1>4. Len(d.in) \in Nat /\ Len(c2d) \in Nat
  BY <1>2, LenProperties
<1> QED BY <1>2, <1>3, <1>4

LEMMA PollHangupConnection == ASSUME Connection, PollHangup PROVE Works /\ Connection'
<1>1. DaemonOK(d') /\ d'.pc = "removed"
  BY DaemonFields DEF PollHangup, DaemonOK, DaemonPc
<1>2. Works
  BY <1>1, DaemonFields DEF PollHangup, Works
<1> QED BY <1>1, <1>2, WorksConnection

LEMMA PollInConnection == ASSUME Connection, PollIn PROVE Works /\ Connection'
<1>1. /\ alive /\ d.pc = "poll" /\ c.pc # "new" /\ d' = [d EXCEPT !.pc = "prefix"]
      /\ UNCHANGED <<alive, c2d, d2c, c, asked, served, lost>>
  BY DEF PollIn, Open
<1>2. d.in = <<>> /\ Len(<<>>) = 0 /\ d.out = <<>>
  BY <1>1, EmptySeq, DaemonFields DEF DaemonOK
<1>3. DaemonOK(d') /\ d'.pc = "prefix" /\ d'.in = d.in
  <2>1. d' \in [pc : DaemonPc, in : Seq(Byte), size : Nat, out : Seq(Tagged)] /\ d'.pc = "prefix"
        /\ d'.in = <<>> /\ d'.out = <<>>
    BY <1>1, <1>2, DaemonFields DEF DaemonPc
  <2>2. Len(d'.in) < 4
    BY <1>2, <2>1
  <2> QED BY <1>2, <2>1, <2>2 DEF DaemonOK
<1>4. Works
  BY <1>1, <1>3, DaemonFields DEF Works
<1>5. Taken(d') = Taken(d)
  BY <1>1, <1>3, DaemonFields, TakenFacts
<1> QED BY <1>1, <1>4, <1>5, WorksConnection

LEMMA TruncatedFrameConnection == ASSUME Connection, TruncatedFrame PROVE Works /\ Connection'
<1>1. /\ alive /\ d.pc \in {"prefix", "payload"} /\ c2d = <<>> /\ c.pc \in {"new", "closed"}
      /\ d' = [d EXCEPT !.pc = "poll", !.in = <<>>, !.size = 0]
      /\ UNCHANGED <<alive, c2d, d2c, c, asked, served, lost>>
  BY DEF TruncatedFrame, Open
<1>2. c.pc = "closed" /\ c.out = <<>> /\ d.out = <<>>
  BY <1>1, DaemonFields DEF DaemonOK, Connection, Ends, ClientOK
<1>3. DaemonOK(d') /\ d'.pc = "poll" /\ d'.in = <<>>
  <2>1. <<>> \in Seq(Byte) /\ 0 \in Nat /\ "poll" \in DaemonPc
    BY EmptySeq DEF DaemonPc
  <2>2. d' \in [pc : DaemonPc, in : Seq(Byte), size : Nat, out : Seq(Tagged)] /\ d'.pc = "poll"
        /\ d'.in = <<>> /\ d'.out = <<>>
    BY <1>1, <1>2, <2>1, DaemonFields
  <2> QED BY <2>2 DEF DaemonOK
<1>4. Works
  BY <1>1, <1>2, <1>3, DaemonFields DEF Works
<1>5. Taken(d') = <<>>
  BY <1>3, TakenFacts
<1>6. ASSUME NEW full \in Seq(Byte), NEW pos \in Nat,
             Placed(full, pos, Taken(d), <<>>, <<>>, "closed")
      PROVE  Placed(full, pos, <<>>, <<>>, <<>>, "closed")
  <2>1. pos + Len(Taken(d)) <= Len(full) /\ Len(Taken(d)) \in Nat /\ Len(full) \in Nat
    BY <1>6, DaemonFields, TakenFacts, LenProperties DEF Placed, At
  <2>2. pos <= Len(full) /\ Len(<<>>) = 0 /\ pos + 0 = pos
    BY <2>1, EmptySeq
  <2>3. At(full, pos, <<>>)
    BY <2>2, AtEmpty
  <2> QED BY <2>2, <2>3 DEF Placed
<1> QED BY <1>1, <1>2, <1>4, <1>5, <1>6, WorksConnection

LEMMA DaemonDiesConnection == ASSUME Connection, DaemonDies PROVE Works /\ Connection'
<1>1. /\ d' = [pc |-> "dead", in |-> <<>>, size |-> 0, out |-> <<>>] /\ alive /\ alive' = FALSE
      /\ UNCHANGED <<c2d, d2c, c, asked, served, lost>>
  BY DEF DaemonDies
<1>2. DaemonOK(d') /\ d'.pc = "dead"
  <2>1. <<>> \in Seq(Byte) /\ <<>> \in Seq(Tagged) /\ 0 \in Nat /\ "dead" \in DaemonPc
    BY EmptySeq DEF DaemonPc
  <2>2. d' \in [pc : DaemonPc, in : Seq(Byte), size : Nat, out : Seq(Tagged)] /\ d'.pc = "dead"
        /\ d'.in = <<>> /\ d'.out = <<>>
    BY <1>1, <2>1
  <2> QED BY <2>2 DEF DaemonOK
<1>3. Works
  BY <1>1, <1>2, DaemonFields DEF Works
<1> QED BY <1>1, <1>3, WorksConnection

LEMMA SendResponseSteps ==
    ASSUME Connection, SendResponse
    PROVE  /\ DaemonOK(d') /\ d'.in = <<>> /\ d.in = <<>> /\ d'.pc # "payload"
           /\ d.pc \in {"write", "tell"} /\ alive
           /\ UNCHANGED <<alive, c2d, c, asked, served, lost>>
           /\ \/ /\ Open /\ d'.pc \in {"poll", d.pc}
                 /\ \E n \in Nat : /\ n <= Len(d.out) /\ d2c' = d2c \o SubSeq(d.out, 1, n)
                                   /\ d'.out = Drop(d.out, n)
              \/ c.pc = "closed" /\ d2c' = d2c
<1>1. /\ alive /\ d.pc \in {"write", "tell"} /\ UNCHANGED <<alive, c2d, c, asked, served, lost>>
  BY Zenon DEF SendResponse
<1> DEFINE Rec == [pc : DaemonPc, in : Seq(Byte), size : Nat, out : Seq(Tagged)]
<1>2. d \in Rec /\ d.in = <<>> /\ d.out \in Seq(Tagged)
  BY <1>1, DaemonFields DEF DaemonOK
<1>3. CASE Open
  <2>1. PICK n \in Writes(d.out) :
             /\ d2c' = d2c \o SubSeq(d.out, 1, n)
             /\ d' = [d EXCEPT !.out = Drop(@, n), !.pc = IF n = Len(d.out) THEN "poll" ELSE @]
    BY <1>3, Zenon DEF SendResponse
  <2> DEFINE rest == Drop(d.out, n)
             pc == IF n = Len(d.out) THEN "poll" ELSE d.pc
  <2>2. n \in Nat /\ n <= Len(d.out) /\ Len(d.out) \in Nat
    BY <1>2, WritesFacts, LenProperties
  <2>3. rest \in Seq(Tagged) /\ Len(rest) = Len(d.out) - n
    BY <1>2, <2>2, TakeFacts
  <2>4. d' = [d EXCEPT !.out = rest, !.pc = pc]
    BY <1>2, <2>1
  <2> HIDE DEF rest
  <2>5. n = Len(d.out) <=> rest = <<>>
    <3>1. rest = <<>> => Len(rest) = 0
      BY EmptySeq
    <3>2. Len(rest) = 0 => rest = <<>>
      BY <2>3, EmptySeq
    <3> QED BY <2>2, <2>3, <3>1, <3>2
  <2>6. pc \in DaemonPc
    BY <1>2 DEF DaemonPc
  <2>7. d' \in Rec /\ d'.out = rest /\ d'.pc = pc /\ d'.in = <<>>
    <3> HIDE DEF pc
    <3> QED BY <1>2, <2>3, <2>4, <2>6
  <2>8. DaemonOK(d') /\ d'.pc # "payload" /\ d'.pc \in {"poll", d.pc}
    BY <1>1, <2>5, <2>7 DEF DaemonOK
  <2> QED BY <1>1, <1>2, <1>3, <2>1, <2>2, <2>7, <2>8 DEF rest
<1>4. CASE ~Open
  <2>1. d' = [d EXCEPT !.pc = IF @ = "write" THEN "removed" ELSE "poll", !.out = <<>>] /\ d2c' = d2c
    BY <1>4, Zenon DEF SendResponse
  <2>2. c.pc = "closed"
    BY <1>1, <1>4, DaemonFields DEF Open
  <2>3. <<>> \in Seq(Tagged) /\ "poll" \in DaemonPc /\ "removed" \in DaemonPc
    BY EmptySeq DEF DaemonPc
  <2>4. d' \in Rec /\ d'.out = <<>> /\ d'.pc \in {"removed", "poll"} /\ d'.in = <<>>
    BY <1>2, <2>1, <2>3
  <2>5. DaemonOK(d') /\ d'.pc # "payload"
    BY <2>4 DEF DaemonOK
  <2> QED BY <1>1, <1>2, <2>1, <2>2, <2>4, <2>5
<1> QED BY <1>3, <1>4

LEMMA SendResponseConnection == ASSUME Connection, SendResponse PROVE Works /\ Connection'
<1>1. /\ DaemonOK(d') /\ d'.in = <<>> /\ d.in = <<>> /\ d'.pc # "payload"
      /\ d.pc \in {"write", "tell"} /\ alive
      /\ UNCHANGED <<alive, c2d, c, asked, served, lost>>
  BY SendResponseSteps
<1>2. d2c' \in Seq(Tagged)
  <2>1. CASE d2c' = d2c
    BY <2>1, DaemonFields
  <2>2. ASSUME NEW n \in Nat, n <= Len(d.out), d2c' = d2c \o SubSeq(d.out, 1, n)
        PROVE  d2c' \in Seq(Tagged)
    <3>1. d.out \in Seq(Tagged) /\ d2c \in Seq(Tagged)
      BY DaemonFields
    <3>2. SubSeq(d.out, 1, n) \in Seq(Tagged)
      BY <2>2, <3>1, TakeFacts
    <3> QED BY <2>2, <3>1, <3>2, ConcatProperties
  <2> QED BY <2>1, <2>2, SendResponseSteps
<1>3. d'.pc # "dead"
  <2>1. CASE Open
    BY <1>1, <2>1, SendResponseSteps DEF Open
  <2>2. CASE ~Open
    <3>1. d' = [d EXCEPT !.pc = IF @ = "write" THEN "removed" ELSE "poll", !.out = <<>>]
      BY <2>2, Zenon DEF SendResponse
    <3> QED BY <3>1, DaemonFields
  <2> QED BY <2>1, <2>2
<1>4. Works
  BY <1>1, <1>2, <1>3, DaemonFields DEF Works
<1>5. Taken(d') = Taken(d)
  BY <1>1, DaemonFields, TakenFacts
<1> QED BY <1>1, <1>4, <1>5, WorksConnection

(***************************************************************************)
(* The daemon reads a request.                                             *)
(***************************************************************************)

(* When something was read, the frame it belongs to is the next one the    *)
(* client began.                                                           *)
LEMMA FrameAhead ==
    ASSUME NEW asks \in Seq(Nat \X Encodable), NEW full \in Seq(Byte),
           NEW cut \in [0 .. Len(asks) -> Nat], Frames(full, cut, asks),
           NEW n \in 0 .. Len(asks), NEW in \in Seq(Byte), At(full, cut[n], in), 0 < Len(in)
    PROVE  LET r == asks[n + 1][2]
               P == Payload(r)
           IN  /\ n + 1 \in 1 .. Len(asks) /\ r \in Encodable
               /\ At(full, cut[n], to_le_bytes(Len(P), LENGTH_PREFIX_BYTES))
               /\ At(full, cut[n] + 4, P) /\ cut[n + 1] = cut[n] + 4 + Len(P)
<1> DEFINE r == asks[n + 1][2]
           P == Payload(r)
           le == to_le_bytes(Len(P), LENGTH_PREFIX_BYTES)
           F(a) == FrameBytes(Payload(a[2]))
<1>1. Len(asks) \in Nat /\ cut[n] \in Nat /\ Len(in) \in Nat /\ Len(full) \in Nat
  BY LenProperties
<1>2. n # Len(asks)
  <2> SUFFICES ASSUME n = Len(asks) PROVE FALSE
    OBVIOUS
  <2>1. cut[n] = Len(full) /\ cut[n] + Len(in) <= Len(full)
    BY DEF Frames, At
  <2> QED BY <1>1, <2>1
<1>3. n + 1 \in 1 .. Len(asks) /\ (n + 1) - 1 = n
  BY <1>1, <1>2
<1>4. r \in Encodable
  <2>1. asks[n + 1] \in Nat \X Encodable
    BY <1>3, ElementOfSeq
  <2> QED BY <2>1
<1>5. P \in Seq(Byte) /\ Len(P) \in Nat /\ Len(P) <= MAX_MESSAGE_SIZE
  BY <1>4, EncodableFacts
<1>6. le \in Seq(Byte) /\ Len(le) = 4
  BY <1>5, FramePrefix
<1>7. cut[n + 1] = cut[(n + 1) - 1] + Len(F(asks[n + 1])) /\ At(full, cut[(n + 1) - 1], F(asks[n + 1]))
  BY <1>3 DEF Frames
<1>8. cut[n + 1] = cut[n] + Len(FrameBytes(P)) /\ At(full, cut[n], FrameBytes(P))
  BY <1>3, <1>7
<1>9. Len(FrameBytes(P)) = 4 + Len(P) /\ FrameBytes(P) = le \o P
  BY <1>5, FrameFacts DEF FrameBytes
<1> HIDE DEF r, P, le
<1>10. At(full, cut[n], le) /\ At(full, cut[n] + Len(le), P)
  BY <1>1, <1>5, <1>6, <1>8, <1>9, AtConcat
<1>11. cut[n + 1] = cut[n] + 4 + Len(P)
  BY <1>1, <1>5, <1>8, <1>9
<1> QED BY <1>3, <1>4, <1>6, <1>10, <1>11 DEF r, P, le

LEMMA ReadRequestSteps ==
    ASSUME Connection, ReadRequest
    PROVE  /\ d.pc = "payload" /\ d'.pc = "payload" /\ alive /\ Works /\ alive'
           /\ d2c' = d2c /\ d'.size = d.size /\ d'.out = d.out
           /\ \E n \in Nat : /\ n <= Len(c2d) /\ c2d' = Drop(c2d, n)
                             /\ d'.in = d.in \o SubSeq(c2d, 1, n)
<1>1. /\ alive /\ d.pc = "payload" /\ Len(d.in) < d.size
      /\ UNCHANGED <<alive, d2c, c, asked, served, lost>>
  BY DEF ReadRequest
<1> DEFINE n == Reads(c2d, d.size - Len(d.in))
           h == SubSeq(c2d, 1, n)
           got == d.in \o h
<1>2. c2d' = Drop(c2d, n) /\ d' = [d EXCEPT !.in = @ \o h]
  BY DEF ReadRequest
<1>3. /\ d \in [pc : DaemonPc, in : Seq(Byte), size : Nat, out : Seq(Tagged)] /\ DaemonOK(d)
      /\ c2d \in Seq(Byte) /\ d2c \in Seq(Tagged) /\ Len(d.in) \in Nat /\ c.pc # "new"
      /\ d.size \in Nat /\ d.in \in Seq(Byte) /\ d.size <= MAX_MESSAGE_SIZE /\ d.out = <<>>
  BY <1>1, DaemonFields DEF DaemonOK
<1>4. d.size - Len(d.in) \in Nat
  BY <1>1, <1>3
<1>5. n \in Nat /\ n <= Len(c2d) /\ n <= d.size - Len(d.in)
  BY <1>3, <1>4, ReadsFacts
<1> HIDE DEF n
<1>6. h \in Seq(Byte) /\ Len(h) = n /\ Drop(c2d, n) \in Seq(Byte)
  BY <1>3, <1>5, TakeFacts
<1> HIDE DEF h
<1>7. got \in Seq(Byte) /\ Len(got) = Len(d.in) + n
  BY <1>3, <1>6, ConcatProperties, ZenonT(30)
<1>8. d' = [d EXCEPT !.in = got]
  BY <1>2, <1>3
<1> HIDE DEF got
<1>9. /\ d' \in [pc : DaemonPc, in : Seq(Byte), size : Nat, out : Seq(Tagged)] /\ d'.in = got
      /\ d'.pc = "payload" /\ d'.size = d.size /\ d'.out = d.out
  BY <1>1, <1>3, <1>7, <1>8
<1>10. Len(got) <= d.size
  BY <1>3, <1>5, <1>7
<1>11. DaemonOK(d')
  BY <1>3, <1>9, <1>10 DEF DaemonOK
<1>12. Works
  BY <1>1, <1>2, <1>3, <1>6, <1>9, <1>11, DaemonFields DEF Works
<1> QED BY <1>1, <1>2, <1>5, <1>9, <1>12 DEF got, h

LEMMA ReadRequestConnection == ASSUME Connection, ReadRequest PROVE Connection'
<1>1. d.pc = "payload" /\ d'.pc = "payload" /\ alive /\ Works /\ d'.size = d.size
  BY ReadRequestSteps
<1>2. PICK n \in Nat : n <= Len(c2d) /\ c2d' = Drop(c2d, n) /\ d'.in = d.in \o SubSeq(c2d, 1, n)
  BY ReadRequestSteps
<1> DEFINE le == to_le_bytes(d.size, LENGTH_PREFIX_BYTES)
           h == SubSeq(c2d, 1, n)
<1>3. le \in Seq(Byte) /\ Taken(d) = le \o d.in /\ Taken(d') = le \o d'.in /\ d.in \in Seq(Byte)
  BY <1>1, DaemonFields, TakenFacts DEF Taken
<1>4. h \in Seq(Byte)
  BY <1>2, DaemonFields, TakeFacts
<1>5. Taken(d') = Taken(d) \o h
  <2>1. d'.in = d.in \o h
    BY <1>2
  <2> HIDE DEF le, h
  <2> DEFINE u == d.in
  <2>a. le \in Seq(Byte) /\ u \in Seq(Byte) /\ h \in Seq(Byte)
    BY <1>3, <1>4
  <2> HIDE DEF u
  <2>b. (le \o u) \o h = le \o (u \o h)
    BY <2>a, Regroup, SMTT(30)
  <2>2. (le \o d.in) \o h = le \o (d.in \o h)
    BY <2>b DEF u
  <2> QED BY <1>3, <2>1, <2>2
<1>6. ASSUME NEW full \in Seq(Byte), NEW pos \in Nat,
             Placed(full, pos, Taken(d), c2d, c.out, c.pc)
      PROVE  Placed(full, pos, Taken(d'), c2d', c.out, c.pc)
  <2>1. Placed(full, pos, Taken(d) \o SubSeq(c2d, 1, n), Drop(c2d, n), c.out, c.pc)
    BY <1>2, <1>6, DaemonFields, PlacedRead
  <2> QED BY <1>2, <1>5, <2>1
<1> QED BY <1>1, <1>6, WorksConnection

LEMMA ReadPrefixSteps ==
    ASSUME Connection, ReadPrefix
    PROVE  /\ d.pc = "prefix" /\ alive /\ Works /\ alive' /\ d2c' = d2c
           /\ d'.pc \in {"prefix", "payload"} /\ d'.out = d.out
           /\ \E n \in Nat :
                 /\ n <= Len(c2d) /\ c2d' = Drop(c2d, n) /\ Taken(d') = d.in \o SubSeq(c2d, 1, n)
<1>1. /\ alive /\ d.pc = "prefix" /\ UNCHANGED <<alive, d2c, c, asked, lost>>
  BY Zenon DEF ReadPrefix
<1> DEFINE n == Reads(c2d, LENGTH_PREFIX_BYTES - Len(d.in))
           got == d.in \o SubSeq(c2d, 1, n)
<1>2. /\ n > 0 /\ c2d' = Drop(c2d, n)
      /\ IF Len(got) < LENGTH_PREFIX_BYTES THEN d' = [d EXCEPT !.in = got] /\ UNCHANGED served
         ELSE IF TooLarge(got)
         THEN Answering("tell", Fault("FrameTooLarge"), Error(ERR_INVALID_REQUEST, OtherText))
         ELSE /\ d' = [d EXCEPT !.pc = "payload", !.in = <<>>, !.size = from_le_bytes(got)]
              /\ UNCHANGED served
  BY Zenon DEF ReadPrefix
<1>3. /\ d \in [pc : DaemonPc, in : Seq(Byte), size : Nat, out : Seq(Tagged)] /\ DaemonOK(d)
      /\ c2d \in Seq(Byte) /\ d2c \in Seq(Tagged) /\ Len(d.in) \in Nat /\ c.pc # "new"
      /\ d.in \in Seq(Byte) /\ Len(d.in) < 4 /\ d.out = <<>> /\ LENGTH_PREFIX_BYTES = 4
  BY <1>1, DaemonFields DEF DaemonOK, LENGTH_PREFIX_BYTES
<1>4. LENGTH_PREFIX_BYTES - Len(d.in) \in Nat
  BY <1>3
<1>5. n \in Nat /\ n <= Len(c2d) /\ n <= LENGTH_PREFIX_BYTES - Len(d.in)
  BY <1>3, <1>4, ReadsFacts
<1> HIDE DEF n
<1> DEFINE h == SubSeq(c2d, 1, n)
<1>6. h \in Seq(Byte) /\ Len(h) = n /\ Drop(c2d, n) \in Seq(Byte)
  BY <1>3, <1>5, TakeFacts
<1>7. got \in Seq(Byte) /\ Len(got) = Len(d.in) + n
  <2>1. got = d.in \o h
    OBVIOUS
  <2> HIDE DEF h, got
  <2> QED BY <1>3, <1>6, <2>1, ConcatProperties, ZenonT(30)
<1> HIDE DEF got
<1>8. Len(got) <= 4 /\ 0 < Len(got)
  BY <1>2, <1>3, <1>5, <1>7
<1>9. CASE Len(got) < LENGTH_PREFIX_BYTES
  <2>1. d' = [d EXCEPT !.in = got] /\ served' = served
    BY <1>2, <1>9
  <2>2. /\ d' \in [pc : DaemonPc, in : Seq(Byte), size : Nat, out : Seq(Tagged)] /\ d'.in = got
        /\ d'.pc = "prefix" /\ d'.out = d.out
    BY <1>1, <1>3, <1>7, <2>1
  <2>3. DaemonOK(d')
    BY <1>3, <1>9, <2>2 DEF DaemonOK
  <2>4. Works
    BY <1>1, <1>2, <1>3, <1>6, <2>1, <2>2, <2>3, DaemonFields DEF Works
  <2>5. Taken(d') = got
    BY <2>2 DEF Taken
  <2> QED BY <1>1, <1>2, <1>5, <2>2, <2>4, <2>5 DEF got
<1>10. CASE ~(Len(got) < LENGTH_PREFIX_BYTES)
  <2>1. Len(got) = 4
    BY <1>3, <1>7, <1>8, <1>10
  <2>2. \E m \in Nat : m <= MAX_MESSAGE_SIZE /\ got = to_le_bytes(m, LENGTH_PREFIX_BYTES)
    <3>1. PICK full \in Seq(Byte), cut \in [0 .. Len(asked) -> Nat] :
              /\ Frames(full, cut, asked)
              /\ Placed(full, cut[Len(served)], Taken(d), c2d, c.out, c.pc)
      BY <1>1 DEF Connection, Stream
    <3> DEFINE k == Len(served)
               P == Payload(asked[k + 1][2])
    <3>2. asked \in Seq(Nat \X Encodable) /\ k \in 0 .. Len(asked)
      BY LenProperties DEF Connection, History
    <3>3. cut[k] \in Nat
      BY <3>2
    <3>4. Taken(d) = d.in /\ c.out \in Seq(Byte)
      BY <1>1, <1>3, TakenFacts, DaemonFields
    <3>5. Placed(full, cut[k], got, Drop(c2d, n), c.out, c.pc)
      <4>1. Placed(full, cut[k], d.in, c2d, c.out, c.pc)
        BY <3>1, <3>4
      <4> HIDE DEF k
      <4> QED BY <1>3, <1>5, <3>3, <3>4, <4>1, PlacedRead DEF got
    <3>6. At(full, cut[k], got) /\ 0 < Len(got)
      BY <1>8, <3>5 DEF Placed
    <3>7. asked[k + 1][2] \in Encodable /\ At(full, cut[k], to_le_bytes(Len(P), LENGTH_PREFIX_BYTES))
      <4> HIDE DEF k
      <4> QED BY <1>7, <3>1, <3>2, <3>6, FrameAhead
    <3>8. Len(P) \in Nat /\ Len(P) <= MAX_MESSAGE_SIZE
      BY <3>7, EncodableFacts
    <3> DEFINE le == to_le_bytes(Len(P), LENGTH_PREFIX_BYTES)
    <3>9. le \in Seq(Byte) /\ Len(le) = 4
      BY <3>8, FramePrefix
    <3>10. At(full, cut[k], le)
      BY <3>7
    <3> HIDE DEF le, k, P
    <3>11. got = le
      BY <1>7, <2>1, <3>3, <3>6, <3>9, <3>10, AtSame
    <3> QED BY <3>8, <3>11 DEF le
  <2>3. PICK m \in Nat : m <= MAX_MESSAGE_SIZE /\ got = to_le_bytes(m, LENGTH_PREFIX_BYTES)
    BY <2>2
  <2>4. ~TooLarge(got) /\ from_le_bytes(got) = m
    BY <2>3, FramePrefix
  <2>5. d' = [d EXCEPT !.pc = "payload", !.in = <<>>, !.size = m] /\ served' = served
    BY <1>2, <1>10, <2>4
  <2>6. <<>> \in Seq(Byte) /\ Len(<<>>) = 0 /\ "payload" \in DaemonPc
    BY EmptySeq DEF DaemonPc
  <2>7. /\ d' \in [pc : DaemonPc, in : Seq(Byte), size : Nat, out : Seq(Tagged)] /\ d'.in = <<>>
        /\ d'.pc = "payload" /\ d'.out = d.out /\ d'.size = m
    BY <1>3, <2>5, <2>6
  <2>8. DaemonOK(d')
    BY <1>3, <2>3, <2>6, <2>7 DEF DaemonOK
  <2>9. Works
    BY <1>1, <1>2, <1>3, <1>6, <2>5, <2>7, <2>8, DaemonFields DEF Works
  <2>10. Taken(d') = got
    <3>1. Taken(d') = got \o <<>>
      BY <2>3, <2>7 DEF Taken
    <3> QED BY <1>7, <3>1, ConcatEmptySeq
  <2> QED BY <1>1, <1>2, <1>5, <2>7, <2>9, <2>10 DEF got
<1> QED BY <1>9, <1>10

LEMMA ReadPrefixConnection == ASSUME Connection, ReadPrefix PROVE Connection'
<1>1. d.pc = "prefix" /\ alive /\ Works
  BY ReadPrefixSteps
<1>2. PICK n \in Nat : n <= Len(c2d) /\ c2d' = Drop(c2d, n) /\ Taken(d') = d.in \o SubSeq(c2d, 1, n)
  BY ReadPrefixSteps
<1>3. Taken(d) = d.in
  BY <1>1 DEF Taken
<1>4. ASSUME NEW full \in Seq(Byte), NEW pos \in Nat,
             Placed(full, pos, Taken(d), c2d, c.out, c.pc)
      PROVE  Placed(full, pos, Taken(d'), c2d', c.out, c.pc)
  <2>1. Placed(full, pos, Taken(d) \o SubSeq(c2d, 1, n), Drop(c2d, n), c.out, c.pc)
    BY <1>2, <1>4, DaemonFields, PlacedRead
  <2> QED BY <1>2, <1>3, <2>1
<1> QED BY <1>1, <1>4, WorksConnection

(***************************************************************************)
(* The daemon answers.                                                     *)
(***************************************************************************)
LEMMA WatchedNamesAreText ==
    ASSUME NEW req \in Requests PROVE WatchedNames(req) \subseteq Text
<1>1. /\ req.watched_name \in {<<>>} \cup [1 .. 1 -> Text]
      /\ req.conditions \in {<<>>} \cup [1 .. 1 -> Seq(Condition)]
  BY DEF Requests, Shape, None, Some, Condition
<1>2. DOMAIN <<>> = {}
  OBVIOUS
<1>3. \A i \in DOMAIN req.watched_name : req.watched_name[i] \in Text
  BY <1>1, <1>2
<1>4. \A i \in DOMAIN req.conditions : req.conditions[i] \in Seq(Condition)
  BY <1>1, <1>2
<1>5. ASSUME NEW s \in Seq(Condition), NEW k \in DOMAIN s PROVE s[k][1] \in Text
  <2>1. k \in 1 .. Len(s)
    BY LenProperties
  <2>2. s[k] \in Condition
    BY <2>1, ElementOfSeq
  <2> QED BY <2>2 DEF Condition
<1> QED BY <1>3, <1>4, <1>5 DEF WatchedNames

LEMMA ErrorVerdict ==
    ASSUME NEW req, NEW message \in Text,
           NEW code \in {ERR_INTERLOCK_NOT_FOUND, ERR_ALLOCATION_FAILED, ERR_INVALID_REQUEST}
    PROVE  Verdict(req, Error(code, message))
<1>1. code \in Byte
  BY DEF ERR_INTERLOCK_NOT_FOUND, ERR_ALLOCATION_FAILED, ERR_INVALID_REQUEST, Byte
<1>2. Answer(Error(code, message))
  BY <1>1 DEF Answer
<1>3. Error(code, message).tag = TAG_ERROR /\ Error(code, message).code = code
  BY DEF Error
<1> QED BY <1>2, <1>3 DEF Verdict

LEMMA AnswersFacts ==
    ASSUME NEW req \in Requests, NEW a \in Answers(req), Len(served) \in Nat
    PROVE  a[1] \in {"write", "tell"} /\ Verdict(req, a[2])
<1>1. OtherText \in Text /\ NotFoundText \in Text /\ req.name \in Text
  BY SessionAssumption, RequestShapes
<1>2. ASSUME NEW w \in Text PROVE Verdict(req, NotFound(w))
  <2>1. NotFoundText \o w \in Text
    BY <1>1, <1>2, ConcatProperties DEF Text
  <2> QED BY <2>1, ErrorVerdict DEF NotFound
<1>3. /\ Verdict(req, Error(ERR_ALLOCATION_FAILED, OtherText))
      /\ Verdict(req, Error(ERR_INVALID_REQUEST, OtherText))
  BY <1>1, ErrorVerdict
<1> DEFINE id == Len(served) + 1
<1>4. id \in Nat
  OBVIOUS
<1> HIDE DEF id
<1>5. Answer(Created(id)) /\ Answer(Attached(id))
  BY <1>4 DEF Answer
<1>6. /\ Created(id).tag = TAG_CREATED /\ Attached(id).tag = TAG_ATTACHED
      /\ TAG_CREATED # TAG_ERROR /\ TAG_ATTACHED # TAG_ERROR
  BY DEF Created, Attached, TAG_CREATED, TAG_ATTACHED, TAG_ERROR
<1>7. CASE req.tag = TAG_CREATE_INTERLOCK
  <2>1. Verdict(req, Created(id))
    BY <1>5, <1>6, <1>7 DEF Verdict, Wanted
  <2>2. \/ a = <<"write", Created(id)>> \/ a = <<"tell", Error(ERR_ALLOCATION_FAILED, OtherText)>>
        \/ a = <<"write", Error(ERR_ALLOCATION_FAILED, OtherText)>>
        \/ a = <<"write", Error(ERR_INVALID_REQUEST, OtherText)>>
        \/ \E w \in WatchedNames(req) : a = <<"write", NotFound(w)>>
    BY <1>7 DEF Answers, id
  <2>3. ASSUME NEW w \in WatchedNames(req), a = <<"write", NotFound(w)>>
        PROVE  a[1] \in {"write", "tell"} /\ Verdict(req, a[2])
    BY <1>2, <2>3, WatchedNamesAreText
  <2>4. CASE a = <<"write", Created(id)>>
    BY <2>1, <2>4
  <2>5. CASE \/ a = <<"tell", Error(ERR_ALLOCATION_FAILED, OtherText)>>
             \/ a = <<"write", Error(ERR_ALLOCATION_FAILED, OtherText)>>
             \/ a = <<"write", Error(ERR_INVALID_REQUEST, OtherText)>>
    BY <1>3, <2>5
  <2> QED BY <2>2, <2>3, <2>4, <2>5
<1>8. CASE req.tag # TAG_CREATE_INTERLOCK
  <2>1. Verdict(req, Attached(id))
    BY <1>5, <1>6, <1>8 DEF Verdict, Wanted
  <2>2. \/ a = <<"write", Attached(id)>> \/ a = <<"tell", Error(ERR_ALLOCATION_FAILED, OtherText)>>
        \/ a = <<"write", NotFound(req.name)>>
    BY <1>8 DEF Answers, id
  <2>3. CASE a = <<"write", Attached(id)>>
    BY <2>1, <2>3
  <2>4. CASE a = <<"tell", Error(ERR_ALLOCATION_FAILED, OtherText)>>
    BY <1>3, <2>4
  <2>5. CASE a = <<"write", NotFound(req.name)>>
    BY <1>1, <1>2, <2>5
  <2> QED BY <2>2, <2>3, <2>4, <2>5
<1> QED BY <1>7, <1>8

(* The frame of the n-th answer, the descriptor on its first byte. *)
AnswerFrame(n, resp) ==
    IF Failed(encode_response(resp)) THEN <<>>
    ELSE [i \in DOMAIN encode_response(resp).value |->
             <<encode_response(resp).value[i], IF i = 1 /\ expected_fd_count(resp) = 1 THEN n ELSE 0>>]

LEMMA AnswerFrameFacts ==
    ASSUME NEW resp, Answer(resp), NEW n \in Nat
    PROVE  LET R == AnswerFrame(n, resp)
               P == AnswerPayload(resp)
           IN  /\ R \in Seq(Tagged) /\ P \in Seq(Byte) /\ Len(P) \in Nat
               /\ Failed(encode_response(resp)) => R = <<>>
               /\ ~Failed(encode_response(resp)) =>
                     /\ R # <<>> /\ Len(R) = 4 + Len(P) /\ 5 <= Len(P) /\ Len(P) <= MAX_MESSAGE_SIZE
                     /\ Bytes(R) = FrameBytes(P)
                     /\ R[1][2] = IF expected_fd_count(resp) = 1 THEN n ELSE 0
                     /\ \A i \in 2 .. Len(R) : R[i][2] = 0
<1> DEFINE R == AnswerFrame(n, resp)
           P == AnswerPayload(resp)
<1>1. P \in Seq(Byte) /\ Len(P) \in Nat /\ 5 <= Len(P)
  <2>1. P \in Seq(Byte) /\ Len(P) = 2 + Len(Body(resp)) /\ Len(Body(resp)) >= 3 /\ Len(Body(resp)) \in Nat
    BY AnswerPayloadFacts
  <2> QED BY <2>1
<1>2. CASE Failed(encode_response(resp))
  <2>1. R = <<>> /\ <<>> \in Seq(Tagged)
    BY <1>2, EmptySeq DEF AnswerFrame
  <2> QED BY <1>1, <1>2, <2>1
<1>3. CASE ~Failed(encode_response(resp))
  <2> DEFINE F == FrameBytes(P)
             m == Len(F)
             e(i) == <<F[i], IF i = 1 /\ expected_fd_count(resp) = 1 THEN n ELSE 0>>
             t == [i \in 1 .. m |-> e(i)]
  <2>1. encode_response(resp) = Ok(F) /\ Len(P) <= MAX_MESSAGE_SIZE
    BY <1>3, EncodedAnswer
  <2>2. F \in Seq(Byte) /\ m = 4 + Len(P)
    BY <1>1, FrameFacts
  <2>3. encode_response(resp).value = F
    BY <2>1 DEF Ok
  <2>4. DOMAIN F = 1 .. m /\ m \in Nat /\ \A i \in 1 .. m : F[i] \in Byte
    BY <2>2, LenProperties, ElementOfSeq
  <2> HIDE DEF F, m
  <2>5. R = t
    BY <1>3, <2>3, <2>4 DEF AnswerFrame
  <2>6. t \in Seq(Tagged)
    <3>1. \A i \in 1 .. m : e(i) \in Tagged
      BY <2>4 DEF Tagged
    <3> HIDE DEF e
    <3> QED BY <2>4, <3>1, IsASeq
  <2>7. Len(t) = m /\ \A i \in 1 .. m : t[i] = e(i)
    BY <2>4
  <2>8. \A i \in 1 .. m : e(i)[1] = F[i] /\ e(i)[2] = IF i = 1 /\ expected_fd_count(resp) = 1 THEN n ELSE 0
    OBVIOUS
  <2> HIDE DEF t, e, R
  <2>9. \A i \in 1 .. m : R[i][1] = F[i]
                          /\ R[i][2] = IF i = 1 /\ expected_fd_count(resp) = 1 THEN n ELSE 0
    BY <2>5, <2>7, <2>8
  <2>10. R \in Seq(Tagged) /\ Len(R) = m
    BY <2>5, <2>6, <2>7
  <2>11. Bytes(R) = F
    <3>1. Bytes(R) \in Seq(Byte) /\ Len(Bytes(R)) = m /\ \A i \in 1 .. m : Bytes(R)[i] = R[i][1]
      BY <2>10, BytesFacts
    <3>2. Len(F) = m /\ F \in Seq(Byte) /\ \A i \in 1 .. m : Bytes(R)[i] = F[i]
      BY <2>2, <2>9, <3>1 DEF m
    <3> QED BY <3>1, <3>2, SeqEqual
  <2>12. 1 \in 1 .. m /\ \A i \in 2 .. m : i \in 1 .. m /\ i # 1
    BY <1>1, <2>2, <2>4
  <2>13. /\ R[1][2] = IF expected_fd_count(resp) = 1 THEN n ELSE 0
         /\ \A i \in 2 .. m : R[i][2] = 0
    BY <2>9, <2>12
  <2>14. R # <<>>
    <3> SUFFICES ASSUME R = <<>> PROVE FALSE
      OBVIOUS
    <3>1. Len(R) = 0
      BY EmptySeq
    <3> QED BY <1>1, <2>2, <2>10, <3>1
  <2> QED BY <1>1, <1>3, <2>1, <2>2, <2>10, <2>11, <2>13, <2>14 DEF F, R
<1> QED BY <1>2, <1>3

LEMMA VerdictIsResponse == ASSUME NEW req, NEW resp, Verdict(req, resp) PROVE resp \in Responses
<1>1. Answer(resp)
  BY DEF Verdict
<1>2. ASSUME NEW id \in Nat, resp = Created(id) \/ resp = Attached(id) PROVE resp \in Responses
  BY <1>2 DEF Responses
<1>3. ASSUME NEW code \in Byte, NEW message \in Text, resp = Error(code, message)
      PROVE  resp \in Responses
  <2>1. <<code, message>> \in Byte \X Text /\ resp = Error(<<code, message>>[1], <<code, message>>[2])
    BY <1>3
  <2> QED BY <2>1 DEF Responses
<1> QED BY <1>1, <1>2, <1>3 DEF Answer

(* The complete frame is the next request of the client. *)
LEMMA FrameIsRequest ==
    ASSUME Connection, alive, d.pc = "payload", Len(d.in) = d.size
    PROVE  LET k == Len(served)
               r == asked[k + 1][2]
           IN  /\ k \in Nat /\ k + 1 \in 1 .. Len(asked) /\ r \in Encodable
               /\ decode_request(d.in) = Ok(r)
               /\ \A full \in Seq(Byte), cut \in [0 .. Len(asked) -> Nat] :
                     Frames(full, cut, asked) /\ Placed(full, cut[k], Taken(d), c2d, c.out, c.pc)
                        => Placed(full, cut[k + 1], <<>>, c2d, c.out, c.pc)
<1> DEFINE k == Len(served)
           r == asked[k + 1][2]
           P == Payload(r)
           dl == to_le_bytes(d.size, LENGTH_PREFIX_BYTES)
           le == to_le_bytes(Len(P), LENGTH_PREFIX_BYTES)
<1>1. /\ Taken(d) = dl \o d.in /\ dl \in Seq(Byte) /\ Len(dl) = 4 /\ d.in \in Seq(Byte)
      /\ Len(Taken(d)) = 4 + Len(d.in) /\ Len(d.in) \in Nat /\ d.size \in Nat
      /\ d.size <= MAX_MESSAGE_SIZE /\ Taken(d) \in Seq(Byte) /\ d.pc # "removed"
  BY DaemonFields, TakenFacts DEF DaemonOK
<1>2. asked \in Seq(Nat \X Encodable) /\ k \in 0 .. Len(asked) /\ k \in Nat
  BY LenProperties DEF Connection, History
<1>3. ASSUME NEW full \in Seq(Byte), NEW cut \in [0 .. Len(asked) -> Nat],
             Frames(full, cut, asked), Placed(full, cut[k], Taken(d), c2d, c.out, c.pc)
      PROVE  /\ k + 1 \in 1 .. Len(asked) /\ r \in Encodable /\ d.in = P
             /\ Placed(full, cut[k + 1], <<>>, c2d, c.out, c.pc)
  <2> DEFINE p == cut[k]
             t == Taken(d)
  <2>1. p \in Nat /\ At(full, p, t) /\ 0 < Len(t)
    <3>1. p \in Nat
      BY <1>2
    <3>2. 0 < Len(t)
      BY <1>1
    <3> QED BY <1>3, <3>1, <3>2 DEF Placed
  <2>2. /\ k + 1 \in 1 .. Len(asked) /\ r \in Encodable /\ At(full, p, le) /\ At(full, p + 4, P)
        /\ cut[k + 1] = p + 4 + Len(P)
    <3> HIDE DEF k, t
    <3>1. t \in Seq(Byte) /\ At(full, cut[k], t)
      BY <1>1, <2>1 DEF t
    <3> QED BY <1>2, <1>3, <2>1, <3>1, FrameAhead, ZenonT(30)
  <2>3. P \in Seq(Byte) /\ Len(P) \in Nat /\ Len(P) <= MAX_MESSAGE_SIZE
    BY <2>2, EncodableFacts
  <2>4. le \in Seq(Byte) /\ Len(le) = 4 /\ from_le_bytes(le) = Len(P)
    BY <2>3, FramePrefix
  <2>5. from_le_bytes(dl) = d.size
    BY <1>1, FramePrefix
  <2> HIDE DEF k, r, P, dl, le, p
  <2>6. At(full, p, dl) /\ At(full, p + 4, d.in)
    <3> DEFINE u == d.in
    <3>1. At(full, p, dl \o u) /\ u \in Seq(Byte)
      BY <1>1, <2>1
    <3> HIDE DEF u
    <3>2. At(full, p, dl) /\ At(full, p + Len(dl), u)
      BY <1>1, <2>1, <3>1, AtConcat
    <3> QED BY <1>1, <3>2 DEF u
  <2>7. dl = le
    BY <1>1, <2>1, <2>2, <2>4, <2>6, AtSame
  <2>8. Len(d.in) = Len(P)
    BY <2>4, <2>5, <2>7
  <2>9. d.in = P
    <3> DEFINE q == p + 4
    <3>1. q \in Nat /\ At(full, q, d.in) /\ At(full, q, P)
      BY <2>1, <2>2, <2>6
    <3> HIDE DEF q
    <3> QED BY <1>1, <2>3, <2>8, <3>1, AtSame
  <2>10. Placed(full, cut[k + 1], <<>>, c2d, c.out, c.pc)
    <3> DEFINE b == Len(c2d)
               e == Len(c.out)
               q == cut[k + 1]
    <3>1. b \in Nat /\ e \in Nat /\ Len(full) \in Nat /\ Len(<<>>) = 0
      BY DaemonFields, LenProperties, EmptySeq
    <3>2. /\ At(full, p + Len(t), c2d) /\ At(full, p + Len(t) + b, c.out)
          /\ (c.pc # "closed" => p + Len(t) + b + e = Len(full))
      BY <1>3 DEF Placed, p
    <3>3. Len(t) \in Nat /\ q \in Nat /\ q = p + Len(t) /\ q + 0 = q /\ p + Len(t) <= Len(full)
      <4>1. q = p + 4 + Len(P) /\ Len(t) = 4 + Len(P)
        BY <1>1, <2>2, <2>8
      <4>2. p + Len(t) <= Len(full)
        BY <2>1 DEF At
      <4> HIDE DEF q, t
      <4> QED BY <2>1, <2>3, <4>1, <4>2
    <3>4. At(full, q, <<>>)
      <4> HIDE DEF q, t
      <4> QED BY <3>3, AtEmpty
    <3> HIDE DEF t
    <3> QED BY <3>1, <3>2, <3>3, <3>4 DEF Placed
  <2> QED BY <2>2, <2>9, <2>10 DEF k, r, P
<1>4. PICK full \in Seq(Byte), cut \in [0 .. Len(asked) -> Nat] :
          Frames(full, cut, asked) /\ Placed(full, cut[k], Taken(d), c2d, c.out, c.pc)
  BY <1>1 DEF Connection, Stream
<1>5. k + 1 \in 1 .. Len(asked) /\ r \in Encodable /\ d.in = P
  BY <1>3, <1>4
<1>6. decode_request(d.in) = Ok(r)
  BY <1>5, EncodableFacts
<1> QED BY <1>2, <1>3, <1>5, <1>6

LEMMA HandleRequestSteps ==
    ASSUME Connection, HandleRequest
    PROVE  /\ alive /\ d.pc = "payload" /\ DaemonOK(d') /\ d'.in = <<>>
           /\ Len(d.in) = d.size
           /\ UNCHANGED <<alive, c2d, d2c, c, asked, lost>>
           /\ d.out = <<>> /\ c.pc # "new"
           /\ \E resp \in Responses :
                 LET k == Len(served)
                     r == asked[k + 1][2]
                 IN  /\ Verdict(r, resp) /\ served' = Append(served, <<Ok(r), resp>>)
                     /\ d'.out = AnswerFrame(k + 1, resp)
                     /\ d'.pc \in {"poll", "write", "tell"}
<1>1. /\ alive /\ d.pc = "payload" /\ Len(d.in) = d.size
      /\ UNCHANGED <<alive, c2d, d2c, c, asked, lost>>
  BY Zenon DEF HandleRequest
<1> DEFINE k == Len(served)
           r == asked[k + 1][2]
<1>2. k \in Nat /\ k + 1 \in 1 .. Len(asked) /\ r \in Encodable /\ decode_request(d.in) = Ok(r)
  BY <1>1, FrameIsRequest
<1>3. r \in Requests /\ ~Failed(Ok(r)) /\ Ok(r).value = r
  BY <1>2, EncodableFacts DEF Failed, Ok
<1> DEFINE req == decode_request(d.in)
<1>4. /\ Failed(req) => Answering("tell", req, Error(ERR_INVALID_REQUEST, OtherText))
      /\ ~Failed(req) => \E a \in Answers(req.value) : Answering(a[1], req, a[2])
  BY Zenon DEF HandleRequest
<1> HIDE DEF req
<1>5. req = Ok(r)
  BY <1>2 DEF req
<1>6. PICK a \in Answers(r) : Answering(a[1], Ok(r), a[2])
  BY <1>3, <1>4, <1>5
<1> DEFINE resp == a[2]
           frame == encode_response(resp)
           R == AnswerFrame(k + 1, resp)
<1>7. a[1] \in {"write", "tell"} /\ Verdict(r, resp)
  BY <1>2, <1>3, <1>6, AnswersFacts
<1>8. served' = Append(served, <<Ok(r), resp>>)
  BY <1>6, Zenon DEF Answering
<1>9. d' = IF Failed(frame) THEN [d EXCEPT !.pc = "poll", !.in = <<>>, !.size = 0]
           ELSE [pc |-> a[1], in |-> <<>>, size |-> 0,
                 out |-> [i \in DOMAIN frame.value |->
                            <<frame.value[i],
                              IF i = 1 /\ expected_fd_count(resp) = 1 THEN Len(served) + 1 ELSE 0>>]]
  BY <1>6, Zenon DEF Answering
<1>10. Answer(resp) /\ k + 1 \in Nat /\ resp \in Responses
  <2>1. k + 1 \in Nat
    BY <1>2
  <2> HIDE DEF resp, k, r
  <2>2. resp \in Responses
    BY <1>7, VerdictIsResponse
  <2> QED BY <1>7, <2>1, <2>2 DEF Verdict
<1>11. R \in Seq(Tagged) /\ (Failed(frame) => R = <<>>) /\ (~Failed(frame) => R # <<>>)
  BY <1>10, AnswerFrameFacts
<1> DEFINE Rec == [pc : DaemonPc, in : Seq(Byte), size : Nat, out : Seq(Tagged)]
<1>12. d \in Rec /\ d.out = <<>> /\ c.pc # "new"
  BY <1>1, DaemonFields DEF DaemonOK
<1>13. <<>> \in Seq(Byte) /\ 0 \in Nat /\ "poll" \in DaemonPc /\ "write" \in DaemonPc /\ "tell" \in DaemonPc
  BY EmptySeq DEF DaemonPc
<1>14. CASE Failed(frame)
  <2>1. d' = [d EXCEPT !.pc = "poll", !.in = <<>>, !.size = 0]
    BY <1>9, <1>14
  <2>2. d' \in Rec /\ d'.pc = "poll" /\ d'.in = <<>> /\ d'.out = <<>>
    BY <1>12, <1>13, <2>1
  <2>3. DaemonOK(d')
    BY <2>2 DEF DaemonOK
  <2> QED BY <1>1, <1>7, <1>8, <1>10, <1>11, <1>12, <1>14, <2>2, <2>3
<1>15. CASE ~Failed(frame)
  <2>1. d' = [pc |-> a[1], in |-> <<>>, size |-> 0, out |-> R]
    BY <1>9, <1>15 DEF AnswerFrame
  <2> HIDE DEF R, frame, resp
  <2>2. d' \in Rec /\ d'.pc = a[1] /\ d'.in = <<>> /\ d'.out = R
    BY <1>7, <1>11, <1>13, <2>1
  <2>3. DaemonOK(d')
    BY <1>7, <1>11, <1>15, <2>2 DEF DaemonOK
  <2>4. d'.pc \in {"poll", "write", "tell"}
    BY <1>7, <2>2
  <2> QED BY <1>1, <1>7, <1>8, <1>10, <1>12, <2>2, <2>3, <2>4 DEF R
<1> QED BY <1>14, <1>15

LEMMA HandleRequestConnection == ASSUME Connection, HandleRequest PROVE Connection'
<1> DEFINE k == Len(served)
           r == asked[k + 1][2]
<1>1. /\ alive /\ d.pc = "payload" /\ DaemonOK(d') /\ d'.in = <<>> /\ Len(d.in) = d.size
      /\ UNCHANGED <<alive, c2d, d2c, c, asked, lost>> /\ c.pc # "new"
  BY HandleRequestSteps
<1>2. PICK resp \in Responses :
          /\ Verdict(r, resp) /\ served' = Append(served, <<Ok(r), resp>>)
          /\ d'.pc \in {"poll", "write", "tell"}
  BY HandleRequestSteps
<1>3. /\ k \in Nat /\ k + 1 \in 1 .. Len(asked) /\ r \in Encodable
      /\ \A full \in Seq(Byte), cut \in [0 .. Len(asked) -> Nat] :
            Frames(full, cut, asked) /\ Placed(full, cut[k], Taken(d), c2d, c.out, c.pc)
               => Placed(full, cut[k + 1], <<>>, c2d, c.out, c.pc)
  BY <1>1, FrameIsRequest
<1>4. Ends /\ History /\ Stream
  BY DEF Connection
<1>5. Ends'
  BY <1>1, <1>2, <1>4 DEF Ends
<1> DEFINE E == {Ok(x) : x \in Encodable} \X Responses
<1>6. /\ served' \in Seq(E) /\ Len(served') = k + 1 /\ served'[k + 1] = <<Ok(r), resp>>
      /\ \A n \in 1 .. k : served'[n] = served[n]
  <2>1. <<Ok(r), resp>> \in E /\ served \in Seq(E)
    BY <1>3, <1>4 DEF History
  <2> HIDE DEF E, r
  <2> QED BY <1>2, <2>1, AppendProperties
<1>7. History'
  <2>1. \A n \in 1 .. k : served[n][1] = Ok(asked[n][2]) /\ Verdict(asked[n][2], served[n][2])
    BY <1>4 DEF History
  <2>2. <<Ok(r), resp>>[1] = Ok(r) /\ <<Ok(r), resp>>[2] = resp
    OBVIOUS
  <2> HIDE DEF k
  <2>3. \A n \in 1 .. k + 1 : n = k + 1 \/ n \in 1 .. k
    BY <1>3
  <2>4. \A n \in 1 .. k + 1 : served'[n][1] = Ok(asked[n][2]) /\ Verdict(asked[n][2], served'[n][2])
    BY <1>2, <1>6, <2>1, <2>2, <2>3
  <2>5. Len(served') <= Len(asked) /\ asked' = asked
    BY <1>1, <1>3, <1>6
  <2> QED BY <1>4, <1>6, <2>4, <2>5 DEF History
<1>8. Stream'
  <2> SUFFICES \E full \in Seq(Byte), cut \in [0 .. Len(asked') -> Nat] :
                  /\ Frames(full, cut, asked')
                  /\ Placed(full, cut[Len(served')], Taken(d'), c2d', c'.out, c'.pc)
    BY DEF Stream
  <2>1. PICK full \in Seq(Byte), cut \in [0 .. Len(asked) -> Nat] :
            Frames(full, cut, asked) /\ Placed(full, cut[k], Taken(d), c2d, c.out, c.pc)
    BY <1>1, <1>4 DEF Stream
  <2>2. Placed(full, cut[k + 1], <<>>, c2d, c.out, c.pc)
    BY <1>3, <2>1
  <2>3. Taken(d') = <<>>
    BY <1>1, <1>2, TakenFacts
  <2> HIDE DEF k
  <2>4. Placed(full, cut[Len(served')], Taken(d'), c2d', c'.out, c'.pc) /\ asked' = asked
    BY <1>1, <1>6, <2>2, <2>3
  <2> QED BY <2>1, <2>4
<1> QED BY <1>5, <1>7, <1>8 DEF Connection

LEMMA InitConnection == Init => Connection
<1> SUFFICES ASSUME Init PROVE Connection
  OBVIOUS
<1>1. /\ alive = TRUE /\ lost = FALSE /\ c2d = <<>> /\ d2c = <<>> /\ asked = <<>> /\ served = <<>>
      /\ c = [pc |-> "new", call |-> 0, ask |-> AttachInterlock(CLOCK), out |-> <<>>,
              buf |-> <<>>, fds |-> {}, size |-> 0, res |-> <<"none", 0>>]
      /\ d = [pc |-> "poll", in |-> <<>>, size |-> 0, out |-> <<>>]
  BY DEF Init
<1>2. /\ <<>> \in Seq(Byte) /\ <<>> \in Seq(Tagged) /\ <<>> \in Seq(Nat \X Encodable)
      /\ <<>> \in Seq({Ok(r) : r \in Encodable} \X Responses) /\ Len(<<>>) = 0
  BY EmptySeq
<1>3. ClientOK(c)
  <2>1. AttachInterlock(CLOCK) \in Requests
    BY ClockIsEncodable, EncodableFacts
  <2>2. 0 \in 0 .. Len(Asks)
    BY SessionAssumption, LenProperties
  <2>3. c \in [pc : ClientPc, call : 0 .. Len(Asks), ask : Requests, out : Seq(Byte),
               buf : Seq(Byte), fds : SUBSET Nat, size : Nat, res : {c.res}]
    BY <1>1, <1>2, <2>1, <2>2 DEF ClientPc
  <2> QED BY <1>1, <2>3 DEF ClientOK
<1>4. DaemonOK(d)
  BY <1>1, <1>2 DEF DaemonOK, DaemonPc
<1>5. Ends
  BY <1>1, <1>2, <1>3, <1>4 DEF Ends
<1>6. History
  BY <1>1, <1>2 DEF History
<1>7. Stream
  <2> DEFINE cut == [j \in 0 .. 0 |-> 0]
  <2>1. cut \in [0 .. Len(asked) -> Nat] /\ cut[0] = 0
    BY <1>1, <1>2
  <2> HIDE DEF cut
  <2>2. Frames(<<>>, cut, asked)
    BY <1>1, <1>2, <2>1 DEF Frames
  <2>3. At(<<>>, 0, <<>>) /\ 0 + 0 = 0
    BY <1>2 DEF At
  <2>4. Taken(d) = <<>> /\ c.out = <<>> /\ c2d = <<>>
    BY <1>1 DEF Taken
  <2>5. Placed(<<>>, 0, <<>>, <<>>, <<>>, c.pc)
    BY <1>2, <2>3 DEF Placed
  <2>6. cut[Len(served)] = 0
    BY <1>1, <1>2, <2>1
  <2> QED BY <1>2, <2>1, <2>2, <2>4, <2>5, <2>6 DEF Stream
<1> QED BY <1>5, <1>6, <1>7 DEF Connection

LEMMA NextConnection == Connection /\ [Next]_vars => Connection'
<1> SUFFICES ASSUME Connection, [Next]_vars PROVE Connection'
  OBVIOUS
<1>1. CASE Connect
  <2>1. 0 \in Nat
    OBVIOUS
  <2> QED BY <1>1, <2>1, ConnectSteps, QuietConnection, BeginsConnection
<1>2. CASE SendFrame
  BY <1>2, SendFrameConnection
<1>3. CASE RecvPrefix
  BY <1>3, RecvPrefixQuiet, QuietConnection
<1>4. CASE ReadRest
  BY <1>4, ReadRestQuiet, QuietConnection
<1>5. CASE ReadPayload
  BY <1>5, ReadPayloadQuiet, QuietConnection
<1>6. CASE Finish
  BY <1>6, FinishQuiet, QuietConnection
<1>7. CASE Call
  <2>1. c.call + 1 \in Nat
    <3>1. c.call \in 0 .. Len(Asks) /\ Len(Asks) \in Nat
      BY SessionAssumption, LenProperties DEF Connection, Ends, ClientOK
    <3> QED BY <3>1
  <2> QED BY <1>7, <2>1, CallSteps, QuietConnection, BeginsConnection
<1>8. CASE ClientCloses
  BY <1>8, ClientClosesQuiet, QuietConnection
<1>9. CASE PollHangup
  BY <1>9, PollHangupConnection
<1>10. CASE PollIn
  BY <1>10, PollInConnection
<1>11. CASE ReadPrefix
  BY <1>11, ReadPrefixConnection
<1>12. CASE ReadRequest
  BY <1>12, ReadRequestConnection
<1>13. CASE TruncatedFrame
  BY <1>13, TruncatedFrameConnection
<1>14. CASE HandleRequest
  BY <1>14, HandleRequestConnection
<1>15. CASE SendResponse
  BY <1>15, SendResponseConnection
<1>16. CASE DaemonDies
  BY <1>16, DaemonDiesConnection
<1>17. CASE UNCHANGED vars
  BY <1>17 DEF vars, Connection, Ends, History, Stream
<1> QED BY <1>1, <1>2, <1>3, <1>4, <1>5, <1>6, <1>7, <1>8, <1>9, <1>10, <1>11, <1>12, <1>13,
           <1>14, <1>15, <1>16, <1>17 DEF Next, ClientStep, DaemonStep

LEMMA ConnectionHolds == Spec => []Connection
BY InitConnection, NextConnection, PTL DEF Spec

LEMMA UnderstoodFromHistory == Connection => RequestIsUnderstood
<1> SUFFICES ASSUME Connection PROVE RequestIsUnderstood
  OBVIOUS
<1>1. DOMAIN served = 1 .. Len(served)
  BY LenProperties DEF Connection, History
<1> QED BY <1>1 DEF RequestIsUnderstood, Connection, History

(***************************************************************************)
(* The daemon decodes every frame of a connection to the request the       *)
(* client built, for every sequence of calls, names of any length, any way *)
(* the writes and the reads cut the bytes and any limit on the message: no *)
(* request of the client is a protocol fault, and no frame shifts the      *)
(* start of the next.                                                      *)
(***************************************************************************)
THEOREM RequestsUnderstood == Spec => []RequestIsUnderstood
BY ConnectionHolds, UnderstoodFromHistory, PTL

(***************************************************************************)
(* The answers on their way: what is in the socket, then what the daemon   *)
(* has left to write.  A write moves the border between the two.           *)
(***************************************************************************)
Total == d2c \o d.out

LEMMA ConcatAt ==
    ASSUME NEW S, NEW a \in Seq(S), NEW b \in Seq(S)
    PROVE  /\ a \o b \in Seq(S) /\ Len(a \o b) = Len(a) + Len(b) /\ Len(a) \in Nat /\ Len(b) \in Nat
           /\ At(a \o b, 0, a) /\ At(a \o b, Len(a), b)
<1> DEFINE full == a \o b
<1>1. full \in Seq(S) /\ Len(full) = Len(a) + Len(b) /\ Len(a) \in Nat /\ Len(b) \in Nat /\ 0 \in Nat
  BY ConcatProperties, LenProperties
<1>2. full = a \o b
  OBVIOUS
<1> HIDE DEF full
<1>3. At(full, 0, full)
  BY <1>1, AtSelf
<1>4. At(full, 0, a \o b)
  BY <1>2, <1>3
<1>5. At(full, 0, a) /\ At(full, 0 + Len(a), b)
  BY <1>1, <1>4, AtConcat
<1>6. 0 + Len(a) = Len(a)
  BY <1>1
<1> QED BY <1>1, <1>2, <1>5, <1>6

LEMMA TotalWritten ==
    ASSUME NEW S, NEW a \in Seq(S), NEW b \in Seq(S), NEW n \in Nat, n <= Len(b)
    PROVE  (a \o SubSeq(b, 1, n)) \o Drop(b, n) = a \o b
<1> DEFINE full == a \o b
           u == a \o SubSeq(b, 1, n)
           v == Drop(b, n)
<1>1. /\ full \in Seq(S) /\ Len(full) = Len(a) + Len(b) /\ Len(a) \in Nat /\ Len(b) \in Nat
      /\ At(full, 0, a) /\ At(full, Len(a), b) /\ 0 \in Nat /\ 0 + Len(a) = Len(a)
  <2>1. /\ full \in Seq(S) /\ Len(full) = Len(a) + Len(b) /\ Len(a) \in Nat /\ Len(b) \in Nat
        /\ At(full, 0, a) /\ At(full, Len(a), b)
    BY ConcatAt
  <2> HIDE DEF full
  <2> QED BY <2>1
<1> HIDE DEF full
<1>2. At(full, 0 + Len(a), b)
  BY <1>1
<1>3. /\ u \in Seq(S) /\ Len(u) = Len(a) + n /\ v \in Seq(S) /\ Len(v) = Len(b) - n
      /\ At(full, 0, u) /\ At(full, 0 + Len(a) + n, v)
  BY <1>1, <1>2, AtMove
<1> HIDE DEF u, v
<1>4. At(full, 0 + Len(u), v)
  <2>1. 0 + Len(u) = 0 + Len(a) + n
    BY <1>1, <1>3
  <2> QED BY <1>3, <2>1
<1>5. At(full, 0, u \o v)
  BY <1>1, <1>3, <1>4, AtConcat
<1> DEFINE w == u \o v
<1>6. w \in Seq(S) /\ Len(w) = Len(u) + Len(v)
  BY <1>3, ConcatProperties
<1>7. At(full, 0, w)
  BY <1>5
<1> HIDE DEF w
<1>8. Len(w) = Len(full)
  BY <1>1, <1>3, <1>6
<1>9. full = w
  BY <1>1, <1>6, <1>7, <1>8, AtWhole
<1> QED BY <1>9 DEF full, w, u, v

LEMMA TotalRead ==
    ASSUME NEW S, NEW a \in Seq(S), NEW b \in Seq(S), NEW n \in Nat, n <= Len(a)
    PROVE  Drop(a \o b, n) = Drop(a, n) \o b
<1> DEFINE full == a \o b
           v == Drop(a, n)
           t == Drop(full, n)
           w == v \o b
<1>1. /\ full \in Seq(S) /\ Len(full) = Len(a) + Len(b) /\ Len(a) \in Nat /\ Len(b) \in Nat
      /\ At(full, 0, a) /\ At(full, Len(a), b)
  BY ConcatAt
<1> HIDE DEF full
<1>2. v \in Seq(S) /\ Len(v) = Len(a) - n /\ \A i \in 1 .. Len(a) - n : v[i] = a[n + i]
  BY TakeFacts, ZenonT(30)
<1>3. n <= Len(full)
  BY <1>1
<1>4. t \in Seq(S) /\ Len(t) = Len(full) - n /\ \A i \in 1 .. Len(full) - n : t[i] = full[n + i]
  BY <1>1, <1>3, TakeFacts, ZenonT(30)
<1> HIDE DEF v, t
<1>5. At(full, n, v)
  <2>1. n + Len(v) <= Len(full) /\ \A i \in 1 .. Len(v) : n + i \in 1 .. Len(a) /\ i \in 1 .. Len(a) - n
    BY <1>1, <1>2
  <2>2. \A j \in 1 .. Len(a) : full[0 + j] = a[j] /\ 0 + j = j
    BY <1>1 DEF At
  <2>3. \A i \in 1 .. Len(v) : full[n + i] = v[i]
    BY <1>2, <2>1, <2>2
  <2> QED BY <2>1, <2>3 DEF At
<1>6. At(full, n, w)
  <2>1. n + Len(v) = Len(a)
    BY <1>1, <1>2
  <2>2. At(full, n + Len(v), b)
    BY <1>1, <2>1
  <2> QED BY <1>1, <1>2, <1>5, <2>2, AtConcat
<1>7. At(full, n, t)
  <2>1. n + Len(t) <= Len(full) /\ Len(t) = Len(full) - n
    BY <1>1, <1>3, <1>4
  <2> QED BY <1>4, <2>1 DEF At
<1>8. w \in Seq(S) /\ Len(w) = Len(v) + Len(b)
  BY <1>2, ConcatProperties
<1> HIDE DEF w
<1>9. Len(w) = Len(t)
  BY <1>1, <1>2, <1>3, <1>4, <1>8
<1>10. t = w
  BY <1>1, <1>4, <1>6, <1>7, <1>8, <1>9, AtSame
<1> QED BY <1>10 DEF t, w, v, full

(***************************************************************************)
(* Descriptors are at least a prefix apart, so that one recvmsg of a       *)
(* prefix meets at most one, also after an answer was left on the socket.  *)
(***************************************************************************)
Marked(s, i) == s[i][2] # 0

Apart(s) == \A i, j \in 1 .. Len(s) : i < j /\ Marked(s, i) /\ Marked(s, j) => i + 4 <= j

Whole(s) == \A i \in 1 .. Len(s) : Marked(s, i) => i + 3 <= Len(s)

Single(S) == S = {} \/ \E x \in Nat : S = {x}

Spaced ==
    c.pc # "closed" => /\ Apart(Total) /\ Single(c.fds)
                       /\ alive => Whole(Total)

LEMMA ApartDrop ==
    ASSUME NEW s \in Seq(Tagged), NEW n \in Nat, n <= Len(s), Apart(s)
    PROVE  Apart(Drop(s, n)) /\ (Whole(s) => Whole(Drop(s, n)))
<1> DEFINE t == Drop(s, n)
           m == Len(s)
<1>1. m \in Nat /\ n <= m /\ Len(t) = m - n /\ \A i \in 1 .. m - n : t[i] = s[n + i]
  BY TakeFacts, LenProperties
<1> HIDE DEF t, m
<1>2. \A i \in 1 .. m - n : n + i \in 1 .. m /\ (Marked(t, i) <=> Marked(s, n + i))
  <2>1. \A i \in 1 .. m - n : n + i \in 1 .. m
    BY <1>1
  <2>2. \A i \in 1 .. m - n : Marked(t, i) <=> Marked(s, n + i)
    BY <1>1, Zenon DEF Marked
  <2> QED BY <2>1, <2>2
<1>3. \A i, j \in 1 .. m : i < j /\ Marked(s, i) /\ Marked(s, j) => i + 4 <= j
  BY DEF Apart, m
<1>4. ASSUME NEW i \in 1 .. m - n, NEW j \in 1 .. m - n, i < j, Marked(t, i), Marked(t, j)
      PROVE  i + 4 <= j
  <2>1. n + i \in 1 .. m /\ n + j \in 1 .. m /\ Marked(s, n + i) /\ Marked(s, n + j)
    BY <1>2, <1>4
  <2>2. n + i < n + j
    BY <1>1, <1>4
  <2>3. (n + i) + 4 <= n + j
    BY <1>3, <2>1, <2>2
  <2> QED BY <1>1, <2>3
<1>5. ASSUME Whole(s), NEW i \in 1 .. m - n, Marked(t, i) PROVE i + 3 <= m - n
  <2>1. n + i \in 1 .. m /\ Marked(s, n + i)
    BY <1>2, <1>5
  <2>2. (n + i) + 3 <= m
    BY <1>5, <2>1 DEF Whole, m
  <2> QED BY <1>1, <2>2
<1>6. Apart(t)
  BY <1>1, <1>4 DEF Apart
<1>7. Whole(s) => Whole(t)
  BY <1>1, <1>5 DEF Whole
<1> QED BY <1>6, <1>7 DEF t

LEMMA ApartLeft ==
    ASSUME NEW a \in Seq(Tagged), NEW b \in Seq(Tagged), Apart(a \o b) PROVE Apart(a)
<1> DEFINE s == a \o b
<1>1. Len(a) \in Nat /\ Len(b) \in Nat /\ Len(s) = Len(a) + Len(b) /\ At(s, 0, a)
  BY ConcatAt
<1>2. Apart(s)
  OBVIOUS
<1> HIDE DEF s
<1>3. \A i \in 1 .. Len(a) : i \in 1 .. Len(s) /\ s[i] = a[i]
  <2>1. \A i \in 1 .. Len(a) : s[0 + i] = a[i] /\ 0 + i = i /\ i \in 1 .. Len(s)
    BY <1>1 DEF At
  <2> QED BY <2>1
<1> QED BY <1>2, <1>3 DEF Apart, Marked

LEMMA ApartHead ==
    ASSUME NEW s \in Seq(Tagged), NEW n \in Nat, n <= Len(s), n <= 4, Apart(s)
    PROVE  Single(Fds(SubSeq(s, 1, n)))
<1> DEFINE h == SubSeq(s, 1, n)
<1>1. h \in Seq(Tagged) /\ Len(h) = n /\ \A i \in 1 .. n : h[i] = s[i]
  BY TakeFacts
<1> HIDE DEF h
<1>2. DOMAIN h = 1 .. n /\ Len(s) \in Nat
  BY <1>1, LenProperties
<1>3. \A i \in 1 .. n : h[i][2] \in Nat
  <2>1. \A i \in 1 .. n : h[i] \in Tagged
    BY <1>1, ElementOfSeq
  <2> QED BY <2>1 DEF Tagged
<1>4. Fds(h) = {h[i][2] : i \in 1 .. n} \ {0}
  BY <1>2 DEF Fds
<1>5. ASSUME NEW i \in 1 .. n, NEW j \in 1 .. n, h[i][2] # 0, h[j][2] # 0 PROVE i = j
  <2>1. i \in 1 .. Len(s) /\ j \in 1 .. Len(s) /\ Marked(s, i) /\ Marked(s, j)
    BY <1>1, <1>2, <1>5 DEF Marked
  <2>2. i < j => i + 4 <= j
    BY <2>1 DEF Apart
  <2>3. j < i => j + 4 <= i
    BY <2>1 DEF Apart
  <2> QED BY <2>2, <2>3
<1>6. CASE Fds(h) = {}
  BY <1>6 DEF Single, h
<1>7. CASE Fds(h) # {}
  <2>1. PICK i \in 1 .. n : h[i][2] # 0
    BY <1>4, <1>7
  <2>2. Fds(h) = {h[i][2]}
    BY <1>4, <1>5, <2>1
  <2> QED BY <1>3, <2>2 DEF Single, h
<1> QED BY <1>6, <1>7

LEMMA ApartAnswer ==
    ASSUME NEW s \in Seq(Tagged), NEW R \in Seq(Tagged), Apart(s), Whole(s),
           Len(R) = 0 \/ 4 <= Len(R), \A i \in 2 .. Len(R) : R[i][2] = 0
    PROVE  Apart(s \o R) /\ Whole(s \o R)
<1> DEFINE t == s \o R
           m == Len(s)
           k == Len(R)
<1>1. m \in Nat /\ k \in Nat /\ Len(t) = m + k /\ At(t, 0, s) /\ At(t, m, R)
  BY ConcatAt
<1> HIDE DEF t, m, k
<1>2. \A i \in 1 .. m : t[i] = s[i]
  <2>1. \A i \in 1 .. m : t[0 + i] = s[i] /\ 0 + i = i
    BY <1>1 DEF At, m
  <2> QED BY <2>1
<1>3. \A i \in 1 .. k : t[m + i] = R[i]
  BY <1>1 DEF At, k
<1>4. ASSUME NEW i \in 1 .. m + k, Marked(t, i)
      PROVE  \/ i \in 1 .. m /\ Marked(s, i) /\ i + 3 <= m
             \/ i = m + 1 /\ 4 <= k
  <2>1. CASE i \in 1 .. m
    BY <1>2, <1>4, <2>1 DEF Marked, Whole, m
  <2>2. CASE i \notin 1 .. m
    <3>1. i - m \in 1 .. k /\ m + (i - m) = i
      BY <1>1, <2>2
    <3>2. t[i] = R[i - m]
      BY <1>3, <3>1
    <3>3. i - m \notin 2 .. k
      BY <1>4, <3>2 DEF Marked, k
    <3>4. i = m + 1 /\ k # 0
      BY <1>1, <3>1, <3>3
    <3> QED BY <3>4 DEF k
  <2> QED BY <2>1, <2>2
<1>5. ASSUME NEW i \in 1 .. m + k, NEW j \in 1 .. m + k, i < j, Marked(t, i), Marked(t, j)
      PROVE  i + 4 <= j
  <2>1. \/ i \in 1 .. m /\ Marked(s, i) /\ i + 3 <= m
        \/ i = m + 1 /\ 4 <= k
    BY <1>4, <1>5
  <2>2. \/ j \in 1 .. m /\ Marked(s, j) /\ j + 3 <= m
        \/ j = m + 1 /\ 4 <= k
    BY <1>4, <1>5
  <2>3. CASE j \in 1 .. m /\ Marked(s, j)
    <3>1. i \in 1 .. m /\ Marked(s, i)
      BY <1>1, <1>5, <2>1, <2>3
    <3> QED BY <1>5, <2>3, <3>1 DEF Apart, m
  <2>4. CASE j = m + 1
    BY <1>1, <1>5, <2>1, <2>4
  <2> QED BY <2>2, <2>3, <2>4
<1>6. ASSUME NEW i \in 1 .. m + k, Marked(t, i) PROVE i + 3 <= m + k
  <2>1. i + 3 <= m \/ (i = m + 1 /\ 4 <= k)
    BY <1>4, <1>6
  <2> QED BY <1>1, <2>1
<1>7. Apart(t)
  BY <1>1, <1>5 DEF Apart
<1>8. Whole(t)
  BY <1>1, <1>6 DEF Whole
<1> QED BY <1>7, <1>8 DEF t

LEMMA QuietSpaced ==
    ASSUME Connection, Spaced, Quiet, Single(c'.fds),
           d2c' = d2c \/ \E n \in Nat : n <= Len(d2c) /\ d2c' = Drop(d2c, n)
    PROVE  Spaced'
<1>1. c.pc # "closed" /\ Apart(Total) /\ (alive => Whole(Total)) /\ d' = d /\ alive' = alive
  BY DEF Spaced, Quiet
<1>2. d2c \in Seq(Tagged) /\ d.out \in Seq(Tagged)
  BY DaemonFields
<1>3. CASE d2c' = d2c
  BY <1>1, <1>3 DEF Spaced, Total
<1>4. ASSUME NEW n \in Nat, n <= Len(d2c), d2c' = Drop(d2c, n) PROVE Spaced'
  <2> DEFINE t == d2c \o d.out
  <2>1. t \in Seq(Tagged) /\ Len(t) = Len(d2c) + Len(d.out) /\ Len(d2c) \in Nat /\ Len(d.out) \in Nat
    BY <1>2, ConcatAt
  <2>2. Drop(d2c, n) \o d.out = Drop(t, n)
    BY <1>2, <1>4, TotalRead
  <2> HIDE DEF t
  <2>3. n <= Len(t)
    BY <1>4, <2>1
  <2>4. Apart(t) /\ (alive => Whole(t))
    BY <1>1 DEF Total, t
  <2>5. Apart(Drop(t, n)) /\ (alive => Whole(Drop(t, n)))
    BY <2>1, <2>3, <2>4, ApartDrop
  <2>6. Total' = Drop(t, n)
    BY <1>1, <1>4, <2>2 DEF Total
  <2> QED BY <1>1, <2>5, <2>6 DEF Spaced
<1> QED BY <1>3, <1>4

LEMMA ReturnedSpaced ==
    ASSUME Connection, Spaced, Quiet, NEW kind, NEW fd, c' = Returned(kind, fd),
           d2c' = d2c \/ \E n \in Nat : n <= Len(d2c) /\ d2c' = Drop(d2c, n)
    PROVE  Spaced'
<1>1. c'.fds = {}
  BY ReturnedFacts DEF Connection, Ends
<1> QED BY <1>1, QuietSpaced DEF Single

(* What a recvmsg for the prefix does. *)
LEMMA RecvMsgFacts ==
    ASSUME Connection, RecvPrefix, ~EndOfStream(FALSE)
    PROVE  \E n \in Nat :
              /\ 0 < n /\ n <= Len(d2c) /\ n <= 4 /\ d2c' = Drop(d2c, n) /\ c2d' = c2d
              /\ LET h == SubSeq(d2c, 1, n)
                 IN  /\ h \in Seq(Tagged) /\ Bytes(h) \in Seq(Byte) /\ Len(Bytes(h)) = n
                     /\ Fds(h) \in SUBSET Nat
                     /\ \/ c' = Returned("Truncated", 0) /\ lost'
                        \/ n = 4 /\ c' = Prefixed(Bytes(h), Fds(h)) /\ lost' = lost
                        \/ /\ n < 4 /\ c'.pc = "rest" /\ c'.buf = Bytes(h) /\ c'.fds = Fds(h)
                           /\ c'.call = c.call /\ c'.ask = c.ask /\ lost' = lost
<1> DEFINE n == Reads(d2c, LENGTH_PREFIX_BYTES)
           h == SubSeq(d2c, 1, n)
<1>1. RecvMsg
  BY Zenon DEF RecvPrefix
<1>2. /\ n > 0 /\ d2c' = Drop(d2c, n) /\ c2d' = c2d
      /\ \/ c' = Returned("Truncated", 0) /\ lost' = TRUE
         \/ /\ c' = IF n = LENGTH_PREFIX_BYTES THEN Prefixed(Bytes(h), Fds(h))
                    ELSE [c EXCEPT !.pc = "rest", !.buf = Bytes(h), !.fds = Fds(h)]
            /\ lost' = lost
  BY <1>1 DEF RecvMsg
<1>3. d2c \in Seq(Tagged) /\ LENGTH_PREFIX_BYTES \in Nat /\ LENGTH_PREFIX_BYTES = 4
  BY DaemonFields DEF LENGTH_PREFIX_BYTES
<1>4. n \in Nat /\ n <= Len(d2c) /\ n <= 4
  BY <1>3, ReadsFacts
<1> HIDE DEF n
<1>5. h \in Seq(Tagged) /\ Len(h) = n
  BY <1>3, <1>4, TakeFacts
<1> HIDE DEF h
<1>6. Bytes(h) \in Seq(Byte) /\ Len(Bytes(h)) = n /\ Fds(h) \in SUBSET Nat
  BY <1>5, BytesFacts
<1>7. c \in [pc : ClientPc, call : 0 .. Len(Asks), ask : Requests, out : Seq(Byte),
             buf : Seq(Byte), fds : SUBSET Nat, size : Nat, res : {c.res}]
  BY DEF Connection, Ends, ClientOK
<1>8. n # 4 /\ c' = [c EXCEPT !.pc = "rest", !.buf = Bytes(h), !.fds = Fds(h)] =>
         /\ n < 4 /\ c'.pc = "rest" /\ c'.buf = Bytes(h) /\ c'.fds = Fds(h)
         /\ c'.call = c.call /\ c'.ask = c.ask
  BY <1>4, <1>7
<1> QED BY <1>2, <1>3, <1>4, <1>5, <1>6, <1>8 DEF h

LEMMA RecvPrefixSpaced == ASSUME Connection, Spaced, RecvPrefix PROVE Spaced'
<1> DEFINE ended == EndOfStream(FALSE)
<1> HIDE DEF ended
<1>1. Quiet
  BY RecvPrefixQuiet
<1>2. CASE ended
  <2>1. UNCHANGED <<alive, d, asked, served>> /\ c.pc \in {"prefix", "rest", "payload"}
    BY DEF RecvPrefix
  <2>2. d2c' = d2c
    BY <1>2 DEF EndOfStream, ended
  <2> QED BY <1>1, <1>2, <2>1, <2>2, EndOfStreamQuiet, ReturnedSpaced DEF ended
<1>3. CASE ~ended
  <2>1. PICK n \in Nat :
              /\ 0 < n /\ n <= Len(d2c) /\ n <= 4 /\ d2c' = Drop(d2c, n)
              /\ LET h == SubSeq(d2c, 1, n)
                 IN  /\ Bytes(h) \in Seq(Byte) /\ Fds(h) \in SUBSET Nat
                     /\ \/ c' = Returned("Truncated", 0)
                        \/ c' = Prefixed(Bytes(h), Fds(h))
                        \/ c'.fds = Fds(h)
    BY <1>3, RecvMsgFacts DEF ended
  <2> DEFINE h == SubSeq(d2c, 1, n)
  <2>2. CASE c' = Returned("Truncated", 0)
    BY <1>1, <2>1, <2>2, ReturnedSpaced
  <2>3. Single(Fds(h))
    <3>1. d2c \in Seq(Tagged) /\ d.out \in Seq(Tagged) /\ Apart(d2c \o d.out)
      BY <1>1, DaemonFields DEF Spaced, Quiet, Total
    <3>2. Apart(d2c)
      BY <3>1, ApartLeft
    <3> QED BY <2>1, <3>1, <3>2, ApartHead
  <2> HIDE DEF h
  <2>4. CASE c' = Prefixed(Bytes(h), Fds(h))
    <3>1. CASE TooLarge(Bytes(h))
      BY <1>1, <2>1, <2>4, <3>1, ReturnedSpaced DEF Prefixed
    <3>2. CASE ~TooLarge(Bytes(h))
      <4>1. ClientOK(c) /\ c.pc \in {"prefix", "rest"}
        BY DEF Connection, Ends, RecvPrefix
      <4>2. c'.fds = Fds(h)
        BY <2>1, <2>4, <3>2, <4>1, PrefixedFacts DEF h
      <4> QED BY <1>1, <2>1, <2>3, <4>2, QuietSpaced
    <3> QED BY <3>1, <3>2
  <2>5. CASE c'.fds = Fds(h)
    BY <1>1, <2>1, <2>3, <2>5, QuietSpaced
  <2> QED BY <2>1, <2>2, <2>4, <2>5 DEF h
<1> QED BY <1>2, <1>3

LEMMA ReadRestFacts ==
    ASSUME Connection, ReadRest, ~EndOfStream(TRUE)
    PROVE  \E n \in Nat :
              /\ 0 < n /\ n <= Len(d2c) /\ d2c' = Drop(d2c, n) /\ c2d' = c2d /\ lost' = lost
              /\ LET h == SubSeq(d2c, 1, n)
                     got == c.buf \o Bytes(h)
                 IN  /\ h \in Seq(Tagged) /\ Bytes(h) \in Seq(Byte) /\ Len(Bytes(h)) = n
                     /\ got \in Seq(Byte) /\ Len(got) = Len(c.buf) + n
                     /\ Len(c.buf) <= 4 => Len(got) <= 4
                     /\ \/ Len(got) = 4 /\ c' = Prefixed(got, c.fds)
                        \/ /\ Len(got) # 4 /\ c'.pc = "rest" /\ c'.buf = got /\ c'.fds = c.fds
                           /\ c'.call = c.call /\ c'.ask = c.ask
<1> DEFINE need == LENGTH_PREFIX_BYTES - Len(c.buf)
           n == Reads(d2c, need)
           h == SubSeq(d2c, 1, n)
           got == c.buf \o Bytes(h)
<1>1. /\ n > 0 /\ d2c' = Drop(d2c, n) /\ c2d' = c2d /\ lost' = lost
      /\ c' = IF Len(got) = LENGTH_PREFIX_BYTES THEN Prefixed(got, c.fds)
              ELSE [c EXCEPT !.buf = got]
  BY Zenon DEF ReadRest
<1>2. /\ d2c \in Seq(Tagged) /\ Len(d2c) \in Nat /\ LENGTH_PREFIX_BYTES = 4 /\ c.buf \in Seq(Byte)
      /\ Len(c.buf) \in Nat /\ c.pc = "rest"
      /\ c \in [pc : ClientPc, call : 0 .. Len(Asks), ask : Requests, out : Seq(Byte),
                buf : Seq(Byte), fds : SUBSET Nat, size : Nat, res : {c.res}]
  <2>1. d2c \in Seq(Tagged) /\ c.buf \in Seq(Byte)
        /\ c \in [pc : ClientPc, call : 0 .. Len(Asks), ask : Requests, out : Seq(Byte),
                  buf : Seq(Byte), fds : SUBSET Nat, size : Nat, res : {c.res}]
    BY DEF Connection, Ends, ClientOK
  <2>2. c.pc = "rest"
    BY Zenon DEF ReadRest
  <2> QED BY <2>1, <2>2, LenProperties DEF LENGTH_PREFIX_BYTES
<1>3. n \in Nat /\ n <= Len(d2c) /\ n <= 4 - Len(c.buf)
  <2>1. need \in Int /\ need = 4 - Len(c.buf)
    BY <1>2
  <2> HIDE DEF need
  <2>2. n \in Int /\ n <= Len(d2c) /\ n <= need
    BY <1>2, <2>1 DEF Reads
  <2> QED BY <1>1, <2>1, <2>2
<1> HIDE DEF n, need
<1>4. h \in Seq(Tagged) /\ Len(h) = n
  BY <1>2, <1>3, TakeFacts
<1> HIDE DEF h
<1>5. Bytes(h) \in Seq(Byte) /\ Len(Bytes(h)) = n
  BY <1>4, BytesFacts
<1>6. got \in Seq(Byte) /\ Len(got) = Len(c.buf) + n
  <2>1. c.buf \in Seq(Byte)
    BY <1>2
  <2> QED BY <1>5, <2>1, ConcatProperties
<1> HIDE DEF got
<1>7. Len(got) <= 4
  BY <1>2, <1>3, <1>6
<1>8. c' = [c EXCEPT !.buf = got] =>
         c'.pc = "rest" /\ c'.buf = got /\ c'.fds = c.fds /\ c'.call = c.call /\ c'.ask = c.ask
  BY <1>2
<1>9. (Len(got) = 4 /\ c' = Prefixed(got, c.fds)) \/ (Len(got) # 4 /\ c' = [c EXCEPT !.buf = got])
  BY <1>1, <1>2
<1> QED BY <1>1, <1>3, <1>4, <1>5, <1>6, <1>7, <1>8, <1>9 DEF h, got

LEMMA ReadRestSpaced == ASSUME Connection, Spaced, ReadRest PROVE Spaced'
<1> DEFINE ended == EndOfStream(TRUE)
<1> HIDE DEF ended
<1>1. Quiet
  BY ReadRestQuiet
<1>2. CASE ended
  <2>1. UNCHANGED <<alive, d, asked, served>> /\ c.pc \in {"prefix", "rest", "payload"}
    BY Zenon DEF ReadRest
  <2>2. d2c' = d2c
    BY <1>2 DEF EndOfStream, ended
  <2> QED BY <1>1, <1>2, <2>1, <2>2, EndOfStreamQuiet, ReturnedSpaced DEF ended
<1>3. CASE ~ended
  <2>1. PICK n \in Nat :
              /\ n <= Len(d2c) /\ d2c' = Drop(d2c, n)
              /\ LET got == c.buf \o Bytes(SubSeq(d2c, 1, n))
                 IN  got \in Seq(Byte) /\ (c' = Prefixed(got, c.fds) \/ c'.fds = c.fds)
    BY <1>3, ReadRestFacts DEF ended
  <2> DEFINE got == c.buf \o Bytes(SubSeq(d2c, 1, n))
  <2>2. Single(c.fds)
    BY <1>1 DEF Spaced, Quiet
  <2>3. got \in Seq(Byte) /\ (c' = Prefixed(got, c.fds) \/ c'.fds = c.fds)
    BY <2>1
  <2> HIDE DEF got
  <2>4. CASE c' = Prefixed(got, c.fds)
    <3>1. CASE TooLarge(got)
      BY <1>1, <2>1, <2>4, <3>1, ReturnedSpaced DEF Prefixed
    <3>2. CASE ~TooLarge(got)
      <4>1. ClientOK(c) /\ c.pc \in {"prefix", "rest"} /\ c.fds \in SUBSET Nat
        <5>1. c.pc = "rest"
          BY Zenon DEF ReadRest
        <5> QED BY <5>1 DEF Connection, Ends, ClientOK
      <4>2. c'.fds = c.fds
        BY <2>3, <2>4, <3>2, <4>1, PrefixedFacts
      <4> QED BY <1>1, <2>1, <2>2, <4>2, QuietSpaced
    <3> QED BY <3>1, <3>2
  <2>5. CASE c'.fds = c.fds
    BY <1>1, <2>1, <2>2, <2>5, QuietSpaced
  <2> QED BY <2>3, <2>4, <2>5
<1> QED BY <1>2, <1>3

LEMMA ReadPayloadFacts ==
    ASSUME Connection, ReadPayload, ~EndOfStream(TRUE)
    PROVE  \E n \in Nat :
              /\ 0 < n /\ n <= Len(d2c) /\ d2c' = Drop(d2c, n) /\ c2d' = c2d /\ lost' = lost
              /\ LET h == SubSeq(d2c, 1, n)
                     got == c.buf \o Bytes(h)
                 IN  /\ h \in Seq(Tagged) /\ Bytes(h) \in Seq(Byte) /\ Len(Bytes(h)) = n
                     /\ got \in Seq(Byte) /\ Len(got) = Len(c.buf) + n /\ Len(got) <= c.size
                     /\ c'.pc = "payload" /\ c'.buf = got /\ c'.fds = c.fds
                     /\ c'.size = c.size /\ c'.call = c.call /\ c'.ask = c.ask
<1> DEFINE need == c.size - Len(c.buf)
           n == Reads(d2c, need)
           h == SubSeq(d2c, 1, n)
           got == c.buf \o Bytes(h)
<1>1. /\ n > 0 /\ d2c' = Drop(d2c, n) /\ c2d' = c2d /\ lost' = lost
      /\ c' = [c EXCEPT !.buf = @ \o Bytes(h)] /\ c.pc = "payload"
  BY Zenon DEF ReadPayload
<1>2. /\ d2c \in Seq(Tagged) /\ Len(d2c) \in Nat /\ c.buf \in Seq(Byte) /\ c.size \in Nat
      /\ Len(c.buf) \in Nat
      /\ c \in [pc : ClientPc, call : 0 .. Len(Asks), ask : Requests, out : Seq(Byte),
                buf : Seq(Byte), fds : SUBSET Nat, size : Nat, res : {c.res}]
  <2>1. d2c \in Seq(Tagged) /\ c.buf \in Seq(Byte) /\ c.size \in Nat
        /\ c \in [pc : ClientPc, call : 0 .. Len(Asks), ask : Requests, out : Seq(Byte),
                  buf : Seq(Byte), fds : SUBSET Nat, size : Nat, res : {c.res}]
    BY DEF Connection, Ends, ClientOK
  <2> QED BY <2>1, LenProperties
<1>3. n \in Nat /\ n <= Len(d2c) /\ n <= c.size - Len(c.buf)
  <2>1. need \in Int /\ need = c.size - Len(c.buf)
    BY <1>2
  <2> HIDE DEF need
  <2>2. n \in Int /\ n <= Len(d2c) /\ n <= need
    BY <1>2, <2>1 DEF Reads
  <2> QED BY <1>1, <2>1, <2>2
<1> HIDE DEF n, need
<1>4. h \in Seq(Tagged) /\ Len(h) = n
  BY <1>2, <1>3, TakeFacts
<1> HIDE DEF h
<1>5. Bytes(h) \in Seq(Byte) /\ Len(Bytes(h)) = n
  BY <1>4, BytesFacts
<1>6. got \in Seq(Byte) /\ Len(got) = Len(c.buf) + n
  <2>1. c.buf \in Seq(Byte)
    BY <1>2
  <2> QED BY <1>5, <2>1, ConcatProperties
<1>7. c' = [c EXCEPT !.buf = got]
  BY <1>1, <1>2
<1> HIDE DEF got
<1>8. Len(got) <= c.size
  BY <1>2, <1>3, <1>6
<1>9. /\ c'.pc = "payload" /\ c'.buf = got /\ c'.fds = c.fds /\ c'.size = c.size
      /\ c'.call = c.call /\ c'.ask = c.ask
  BY <1>1, <1>2, <1>7
<1> QED BY <1>1, <1>3, <1>4, <1>5, <1>6, <1>8, <1>9 DEF h, got

LEMMA ReadPayloadSpaced == ASSUME Connection, Spaced, ReadPayload PROVE Spaced'
<1> DEFINE ended == EndOfStream(TRUE)
<1> HIDE DEF ended
<1>1. Quiet
  BY ReadPayloadQuiet
<1>2. CASE ended
  <2>1. UNCHANGED <<alive, d, asked, served>> /\ c.pc \in {"prefix", "rest", "payload"}
    BY Zenon DEF ReadPayload
  <2>2. d2c' = d2c
    BY <1>2 DEF EndOfStream, ended
  <2> QED BY <1>1, <1>2, <2>1, <2>2, EndOfStreamQuiet, ReturnedSpaced DEF ended
<1>3. CASE ~ended
  <2>1. \E n \in Nat : n <= Len(d2c) /\ d2c' = Drop(d2c, n)
    BY <1>3, ReadPayloadFacts DEF ended
  <2>2. c'.fds = c.fds
    BY <1>3, ReadPayloadFacts DEF ended
  <2>3. Single(c'.fds)
    BY <1>1, <2>2 DEF Spaced, Quiet
  <2> QED BY <1>1, <2>1, <2>3, QuietSpaced
<1> QED BY <1>2, <1>3

LEMMA WorksSpaced ==
    ASSUME Connection, Spaced, Works, c.pc = "closed" \/ Total' = Total
    PROVE  Spaced'
<1>1. c' = c /\ (alive' => alive)
  BY DEF Works
<1> QED BY <1>1 DEF Spaced

(* A write of the daemon leaves the answers on their way as they are. *)
LEMMA SendResponseTotal ==
    ASSUME Connection, SendResponse PROVE c.pc = "closed" \/ Total' = Total
<1>1. CASE c.pc = "closed"
  BY <1>1
<1>2. CASE c.pc # "closed"
  <2>1. PICK n \in Nat : n <= Len(d.out) /\ d2c' = d2c \o SubSeq(d.out, 1, n)
                         /\ d'.out = Drop(d.out, n)
    BY <1>2, SendResponseSteps
  <2>2. d2c \in Seq(Tagged) /\ d.out \in Seq(Tagged)
    BY DaemonFields
  <2>3. (d2c \o SubSeq(d.out, 1, n)) \o Drop(d.out, n) = d2c \o d.out
    BY <2>1, <2>2, TotalWritten
  <2> QED BY <2>1, <2>3 DEF Total
<1> QED BY <1>1, <1>2

LEMMA HandleRequestTotal ==
    ASSUME Connection, HandleRequest
    PROVE  Total = d2c /\ Total' = Total \o d'.out /\ c' = c /\ alive' = alive /\ alive
<1>1. d.out = <<>> /\ d2c' = d2c /\ d2c \in Seq(Tagged) /\ c' = c /\ alive' = alive /\ alive
  BY HandleRequestSteps, DaemonFields
<1>2. d2c \o <<>> = d2c
  BY <1>1, ConcatEmptySeq
<1> QED BY <1>1, <1>2 DEF Total

LEMMA HandleRequestSpaced == ASSUME Connection, Spaced, HandleRequest PROVE Spaced'
<1> SUFFICES ASSUME c'.pc # "closed"
             PROVE  Apart(Total') /\ Single(c'.fds) /\ (alive' => Whole(Total'))
  BY DEF Spaced
<1>1. Total = d2c /\ Total' = Total \o d'.out /\ c' = c /\ alive' = alive /\ alive
  BY HandleRequestTotal
<1>2. Apart(Total) /\ Single(c.fds) /\ Whole(Total) /\ Total \in Seq(Tagged)
  BY <1>1, DaemonFields DEF Spaced
<1>3. PICK resp \in Responses : /\ Answer(resp) /\ d'.out = AnswerFrame(Len(served) + 1, resp)
  BY HandleRequestSteps DEF Verdict
<1> DEFINE k == Len(served) + 1
           R == AnswerFrame(k, resp)
<1>4. k \in Nat
  <2>1. Len(served) \in Nat
    BY LenProperties DEF Connection, History
  <2> QED BY <2>1
<1>5. /\ R \in Seq(Tagged) /\ (Len(R) = 0 \/ 4 <= Len(R))
      /\ \A i \in 2 .. Len(R) : R[i][2] = 0
  <2> DEFINE P == AnswerPayload(resp)
  <2> HIDE DEF k
  <2>1. /\ R \in Seq(Tagged) /\ Len(P) \in Nat
        /\ Failed(encode_response(resp)) => R = <<>>
        /\ ~Failed(encode_response(resp)) =>
              Len(R) = 4 + Len(P) /\ \A i \in 2 .. Len(R) : R[i][2] = 0
    BY <1>3, <1>4, AnswerFrameFacts
  <2> HIDE DEF R, P
  <2>2. CASE R = <<>>
    <3>1. Len(R) = 0
      BY <2>2, EmptySeq
    <3> QED BY <2>1, <3>1
  <2>3. CASE R # <<>>
    BY <2>1, <2>3
  <2> QED BY <2>2, <2>3
<1>6. d'.out = R
  BY <1>3
<1> HIDE DEF R
<1>7. Apart(Total \o R) /\ Whole(Total \o R)
  BY <1>2, <1>5, ApartAnswer
<1> QED BY <1>1, <1>2, <1>6, <1>7

LEMMA InitSpaced == Init => Spaced
<1> SUFFICES ASSUME Init PROVE Spaced
  OBVIOUS
<1>1. d2c = <<>> /\ d.out = <<>> /\ c.fds = {} /\ Len(<<>>) = 0
  BY EmptySeq DEF Init
<1>2. Total = <<>>
  <2>1. <<>> \o <<>> = <<>>
    BY EmptySeq, ConcatEmptySeq
  <2> QED BY <1>1, <2>1 DEF Total
<1> QED BY <1>1, <1>2 DEF Spaced, Apart, Whole, Single

LEMMA NextSpaced == Connection /\ Spaced /\ [Next]_vars => Spaced'
<1> SUFFICES ASSUME Connection, Spaced, [Next]_vars PROVE Spaced'
  OBVIOUS
<1>a. ASSUME NEW k, NEW r, Begins(k, r) PROVE Spaced'
  <2>1. c'.pc = "send" /\ c.pc # "closed" /\ Total' = Total /\ alive' = alive /\ ClientOK(c')
    BY <1>a DEF Begins, Total
  <2>2. c'.fds = {}
    BY <2>1 DEF ClientOK
  <2> QED BY <2>1, <2>2 DEF Spaced, Single
<1>b. ASSUME ClientOK(c'), c'.pc \notin {"rest", "payload"} PROVE Single(c'.fds)
  BY <1>b DEF ClientOK, Single
<1>1. CASE Connect
  <2>1. CASE Quiet /\ c' = Returned("Io", 0)
    <3>1. d2c' = d2c
      BY <1>1 DEF Connect
    <3> QED BY <2>1, <3>1, ReturnedSpaced
  <2>2. CASE Begins(0, c.ask)
    BY <1>a, <2>2
  <2> QED BY <1>1, <2>1, <2>2, ConnectSteps
<1>2. CASE SendFrame
  <2>1. CASE ~alive
    <3>1. d2c' = d2c
      BY <1>2, Zenon DEF SendFrame
    <3> QED BY <1>2, <2>1, <3>1, SendFrameSteps, ReturnedSpaced
  <2>2. CASE alive
    <3>1. ClientOK(c') /\ UNCHANGED <<alive, d2c, d>> /\ c'.pc \in {"send", "prefix"}
      BY <1>2, <2>2, SendFrameSteps
    <3>2. Single(c'.fds) /\ Total' = Total /\ c.pc # "closed"
      <4>1. c.pc = "send"
        BY <1>2, Zenon DEF SendFrame
      <4> QED BY <1>b, <3>1, <4>1 DEF Total
    <3> QED BY <3>1, <3>2 DEF Spaced
  <2> QED BY <2>1, <2>2
<1>3. CASE RecvPrefix
  BY <1>3, RecvPrefixSpaced
<1>4. CASE ReadRest
  BY <1>4, ReadRestSpaced
<1>5. CASE ReadPayload
  BY <1>5, ReadPayloadSpaced
<1>6. CASE Finish
  <2>1. \E kind, fd : c' = Returned(kind, fd)
    BY <1>6 DEF Finish
  <2>2. d2c' = d2c
    BY <1>6, Zenon DEF Finish
  <2> QED BY <1>6, <2>1, <2>2, FinishQuiet, ReturnedSpaced
<1>7. CASE Call
  <2>1. CASE Quiet /\ Refuses
    <3>1. d2c' = d2c /\ Single(c'.fds)
      BY <1>b, <2>1 DEF Refuses, Quiet
    <3> QED BY <2>1, <3>1, QuietSpaced
  <2> QED BY <1>7, <1>a, <2>1, CallSteps
<1>8. CASE ClientCloses
  <2>1. c'.pc = "closed"
    BY <1>8 DEF ClientCloses, Connection, Ends, ClientOK
  <2> QED BY <2>1 DEF Spaced
<1>9. CASE PollHangup
  <2>1. c.pc = "closed"
    BY <1>9 DEF PollHangup
  <2> QED BY <1>9, <2>1, PollHangupConnection, WorksSpaced
<1>10. CASE PollIn
  <2>1. Total' = Total
    BY <1>10, DaemonFields DEF PollIn, Total
  <2> QED BY <1>10, <2>1, PollInConnection, WorksSpaced
<1>11. CASE ReadPrefix
  <2>1. Total' = Total /\ Works
    BY <1>11, ReadPrefixSteps DEF Total
  <2> QED BY <2>1, WorksSpaced
<1>12. CASE ReadRequest
  <2>1. Total' = Total /\ Works
    BY <1>12, ReadRequestSteps DEF Total
  <2> QED BY <2>1, WorksSpaced
<1>13. CASE TruncatedFrame
  <2>1. Total' = Total
    BY <1>13, DaemonFields DEF TruncatedFrame, Total
  <2> QED BY <1>13, <2>1, TruncatedFrameConnection, WorksSpaced
<1>14. CASE HandleRequest
  BY <1>14, HandleRequestSpaced
<1>15. CASE SendResponse
  BY <1>15, SendResponseTotal, SendResponseConnection, WorksSpaced
<1>16. CASE DaemonDies
  <2>1. c' = c /\ alive' = FALSE /\ d2c' = d2c /\ d'.out = <<>>
    BY <1>16 DEF DaemonDies
  <2>2. d2c \in Seq(Tagged) /\ d.out \in Seq(Tagged)
    BY DaemonFields
  <2>3. Total' = d2c
    <3>1. d2c \o <<>> = d2c
      BY <2>2, ConcatEmptySeq
    <3> QED BY <2>1, <3>1 DEF Total
  <2>4. c.pc # "closed" => Apart(d2c)
    BY <2>2, ApartLeft DEF Spaced, Total
  <2> QED BY <2>1, <2>3, <2>4 DEF Spaced
<1>17. CASE UNCHANGED vars
  BY <1>17 DEF vars, Spaced, Total
<1> QED BY <1>1, <1>2, <1>3, <1>4, <1>5, <1>6, <1>7, <1>8, <1>9, <1>10, <1>11, <1>12, <1>13,
           <1>14, <1>15, <1>16, <1>17 DEF Next, ClientStep, DaemonStep

LEMMA SpacedHolds == Spec => []Spaced
BY InitSpaced, NextSpaced, ConnectionHolds, PTL DEF Spec

(***************************************************************************)
(* Client and daemon in step, as long as no descriptor was lost: while a   *)
(* call writes its request or waits, the daemon has answered all requests  *)
(* but this one and the socket holds no answer; once it has answered, what *)
(* the client has read and what is on its way follow each other in the     *)
(* frame of that answer; between calls there is nothing left of either.    *)
(***************************************************************************)
Got(x) == IF x.pc = "payload" THEN to_le_bytes(x.size, LENGTH_PREFIX_BYTES) \o x.buf ELSE x.buf

Answered(R) ==
    /\ At(R, Len(Got(c)), Total) /\ At(Bytes(R), 0, Got(c))
    /\ alive => Len(Got(c)) + Len(Total) = Len(R) /\ d.pc \in {"poll", "write", "tell"}
    /\ c.fds = IF c.pc = "prefix" THEN {} ELSE Fds(R)
    /\ c.pc = "rest" => Len(c.buf) < 4
    /\ c.pc = "payload" => Len(c.buf) <= c.size

LastFrame == AnswerFrame(Len(served), served[Len(served)][2])

Waiting == c.pc = "send" \/ (c.pc \in {"prefix", "rest", "payload"} /\ Len(served) # Len(asked))

(* What AnswerIsMine says of the result of the last call. *)
ResultIsMine ==
    /\ c.res[1] = "Handle" => c.res[2] \in 1 .. Len(served) /\ asked[c.res[2]][1] = c.call
    /\ c.res[1] \in {"InterlockNotFound", "AllocationFailed"} =>
          \E n \in 1 .. Len(served) : /\ asked[n][1] = c.call /\ served[n][2].tag = TAG_ERROR
                                      /\ parse_daemon_error(served[n][2].code) = c.res[1]
    /\ c.res[1] \in {"Truncated", "UnsupportedVersion", "UnknownTag", "InvalidUtf8",
                     "UnexpectedResponse", "ConnectionClosed", "Io"} => ~alive

Sync ==
    /\ Len(c2d) <= LENGTH_PREFIX_BYTES + MAX_MESSAGE_SIZE
    /\ c.pc = "idle" => /\ d2c = <<>> /\ ResultIsMine
                        /\ alive => d.pc = "poll" /\ Len(served) = Len(asked)
    /\ c.pc \in {"send", "prefix", "rest", "payload"} =>
          0 < Len(asked) /\ asked[Len(asked)] = <<c.call, c.ask>>
    /\ Waiting => /\ d2c = <<>> /\ c.pc \in {"send", "prefix"}
                  /\ alive => Len(served) + 1 = Len(asked) /\ d.pc \in {"poll", "prefix", "payload"}
    /\ c.pc \in {"prefix", "rest", "payload"} /\ Len(served) = Len(asked) => Answered(LastFrame)

InStep == ~lost => Sync

LEMMA Lengths ==
    ASSUME Connection
    PROVE  /\ Len(served) \in Nat /\ Len(asked) \in Nat /\ Len(served) <= Len(asked)
           /\ Len(c2d) \in Nat /\ Len(c.out) \in Nat /\ Len(d2c) \in Nat
           /\ asked \in Seq(Nat \X Encodable)
<1>1. /\ c2d \in Seq(Byte) /\ c.out \in Seq(Byte) /\ d2c \in Seq(Tagged)
      /\ asked \in Seq(Nat \X Encodable) /\ Len(served) <= Len(asked)
      /\ served \in Seq({Ok(r) : r \in Encodable} \X Responses)
  BY DEF Connection, Ends, ClientOK, History
<1> QED BY <1>1, LenProperties

(* Every request is answered: there is nothing more to read. *)
LEMMA NothingLeft ==
    ASSUME Connection, alive, d.pc # "removed", c.pc # "closed", Len(served) = Len(asked)
    PROVE  c2d = <<>>
<1>1. PICK full \in Seq(Byte), cut \in [0 .. Len(asked) -> Nat] :
          /\ Frames(full, cut, asked)
          /\ Placed(full, cut[Len(served)], Taken(d), c2d, c.out, c.pc)
  BY DEF Connection, Stream
<1> DEFINE p == cut[Len(served)]
           a == Len(Taken(d))
           b == Len(c2d)
           e == Len(c.out)
<1>2. p = Len(full) /\ p + a + b + e = Len(full)
  BY <1>1 DEF Frames, Placed
<1>3. a \in Nat /\ b \in Nat /\ e \in Nat /\ Len(full) \in Nat
  BY DaemonFields, LenProperties
<1> HIDE DEF p, a, e
<1>4. b = 0
  BY <1>2, <1>3
<1> QED BY <1>4, EmptySeq, DaemonFields

(* All but one are answered: at most one frame is left. *)
LEMMA OneLeft ==
    ASSUME Connection, alive, d.pc # "removed", c.pc # "closed", Len(served) + 1 = Len(asked)
    PROVE  Len(c2d) + Len(c.out) <= LENGTH_PREFIX_BYTES + MAX_MESSAGE_SIZE
<1>1. PICK full \in Seq(Byte), cut \in [0 .. Len(asked) -> Nat] :
          /\ Frames(full, cut, asked)
          /\ Placed(full, cut[Len(served)], Taken(d), c2d, c.out, c.pc)
  BY DEF Connection, Stream
<1> DEFINE k == Len(served)
           m == Len(asked)
           p == cut[k]
           a == Len(Taken(d))
           b == Len(c2d)
           e == Len(c.out)
           r == asked[m][2]
           P == Payload(r)
<1>2. p + a + b + e = Len(full) /\ cut[m] = Len(full)
  BY <1>1 DEF Frames, Placed
<1>3. a \in Nat /\ b \in Nat /\ e \in Nat /\ Len(full) \in Nat
  BY DaemonFields, LenProperties
<1>4. k \in Nat /\ m \in Nat /\ k + 1 = m
  BY Lengths
<1>5. m \in 1 .. m /\ m - 1 = k /\ k \in 0 .. m
  BY <1>4
<1>6. r \in Encodable
  <2>1. asked[m] \in Nat \X Encodable
    BY <1>5, Lengths, ElementOfSeq
  <2> QED BY <2>1
<1>7. P \in Seq(Byte) /\ Len(P) \in Nat /\ Len(P) <= MAX_MESSAGE_SIZE /\ Len(FrameBytes(P)) = 4 + Len(P)
  BY <1>6, EncodableFacts, FrameFacts
<1>8. cut[m] = cut[m - 1] + Len(FrameBytes(P)) /\ p \in Nat
  BY <1>1, <1>5 DEF Frames
<1>9. cut[m] = p + Len(FrameBytes(P))
  BY <1>5, <1>8
<1>10. MAX_MESSAGE_SIZE \in Nat /\ LENGTH_PREFIX_BYTES = 4
  BY Limits DEF LENGTH_PREFIX_BYTES
<1> HIDE DEF k, m, p, a, b, e, P
<1>11. b + e <= 4 + MAX_MESSAGE_SIZE
  BY <1>2, <1>3, <1>7, <1>8, <1>9, <1>10
<1> QED BY <1>10, <1>11 DEF b, e

LEMMA AtTake ==
    ASSUME NEW S, NEW full \in Seq(S), NEW p \in Nat, NEW b \in Seq(S), At(full, p, b),
           NEW n \in Nat, n <= Len(b)
    PROVE  At(full, p, SubSeq(b, 1, n)) /\ At(full, p + n, Drop(b, n))
<1> DEFINE h == SubSeq(b, 1, n)
           t == Drop(b, n)
           m == Len(b)
<1>1. /\ Len(h) = n /\ (\A i \in 1 .. n : h[i] = b[i])
      /\ Len(t) = m - n /\ (\A i \in 1 .. m - n : t[i] = b[n + i])
  BY TakeFacts, ZenonT(30)
<1>2. m \in Nat /\ n <= m /\ Len(full) \in Nat
  BY LenProperties
<1>3. p + m <= Len(full) /\ \A i \in 1 .. m : full[p + i] = b[i]
  BY DEF At
<1> HIDE DEF h, t, m
<1>4. At(full, p, h)
  <2>1. p + n <= Len(full) /\ \A i \in 1 .. n : i \in 1 .. m
    BY <1>2, <1>3
  <2> QED BY <1>1, <1>3, <2>1 DEF At
<1>5. At(full, p + n, t)
  <2>1. (p + n) + (m - n) <= Len(full)
    BY <1>2, <1>3
  <2>2. \A i \in 1 .. m - n : n + i \in 1 .. m /\ (p + n) + i = p + (n + i)
    BY <1>2
  <2>3. \A i \in 1 .. m - n : full[(p + n) + i] = t[i]
    BY <1>1, <1>3, <2>2
  <2> QED BY <1>1, <2>1, <2>3 DEF At
<1> QED BY <1>4, <1>5 DEF h, t

LEMMA AtBytes ==
    ASSUME NEW R \in Seq(Tagged), NEW p \in Nat, NEW s \in Seq(Tagged), At(R, p, s)
    PROVE  At(Bytes(R), p, Bytes(s))
<1>1. /\ Len(Bytes(R)) = Len(R) /\ (\A i \in 1 .. Len(R) : Bytes(R)[i] = R[i][1])
      /\ Len(Bytes(s)) = Len(s) /\ (\A i \in 1 .. Len(s) : Bytes(s)[i] = s[i][1])
  BY BytesFacts
<1>2. p + Len(s) <= Len(R) /\ \A i \in 1 .. Len(s) : R[p + i] = s[i]
  BY DEF At
<1>3. Len(s) \in Nat /\ Len(R) \in Nat
  BY LenProperties
<1>4. \A i \in 1 .. Len(s) : p + i \in 1 .. Len(R)
  BY <1>2, <1>3
<1>5. \A i \in 1 .. Len(s) : Bytes(R)[p + i] = Bytes(s)[i]
  BY <1>1, <1>2, <1>4, ZenonT(30)
<1> QED BY <1>1, <1>2, <1>5 DEF At

(* A read takes the next n bytes of the answer. *)
LEMMA AnswerRead ==
    ASSUME NEW R \in Seq(Tagged), NEW g \in Seq(Byte), NEW s \in Seq(Tagged), NEW o \in Seq(Tagged),
           At(R, Len(g), s \o o), At(Bytes(R), 0, g), NEW n \in Nat, n <= Len(s)
    PROVE  LET g2 == g \o Bytes(SubSeq(s, 1, n))
               t2 == Drop(s, n) \o o
           IN  /\ g2 \in Seq(Byte) /\ Len(g2) = Len(g) + n /\ Len(t2) = Len(s \o o) - n
               /\ At(R, Len(g2), t2) /\ At(Bytes(R), 0, g2)
               /\ At(R, Len(g), SubSeq(s, 1, n))
<1> DEFINE p == Len(g)
           h == SubSeq(s, 1, n)
           v == Drop(s, n)
           g2 == g \o Bytes(h)
           t2 == v \o o
<1>1. p \in Nat /\ Len(s) \in Nat /\ Len(o) \in Nat /\ n <= Len(s) /\ 0 \in Nat /\ 0 + p = p
  BY LenProperties
<1>2. /\ h \in Seq(Tagged) /\ Len(h) = n /\ v \in Seq(Tagged) /\ Len(v) = Len(s) - n
  BY TakeFacts
<1>3. At(R, p, s) /\ At(R, p + Len(s), o)
  BY <1>1, AtConcat
<1> HIDE DEF p
<1>4. At(R, p, h) /\ At(R, p + n, v)
  BY <1>1, <1>3, AtTake
<1> HIDE DEF h, v
<1>5. At(R, p + n, t2)
  <2> DEFINE q == p + n
  <2>1. q \in Nat /\ At(R, q, v) /\ q + Len(v) = p + Len(s)
    BY <1>1, <1>2, <1>4
  <2>2. At(R, q + Len(v), o)
    BY <1>3, <2>1
  <2> HIDE DEF q
  <2>3. At(R, q, v \o o)
    BY <1>2, <2>1, <2>2, AtConcat
  <2> QED BY <2>3 DEF q
<1>6. Len(t2) = Len(v) + Len(o) /\ Len(s \o o) = Len(s) + Len(o)
  BY <1>2, ConcatProperties
<1>7. Bytes(h) \in Seq(Byte) /\ Len(Bytes(h)) = n /\ Bytes(R) \in Seq(Byte)
  BY <1>2, BytesFacts
<1>8. g2 \in Seq(Byte) /\ Len(g2) = p + n
  <2>1. g2 \in Seq(Byte) /\ Len(g2) = Len(g) + Len(Bytes(h))
    BY <1>7, ConcatProperties
  <2> QED BY <1>7, <2>1 DEF p
<1>9. At(Bytes(R), p, Bytes(h))
  BY <1>1, <1>2, <1>4, AtBytes
<1>10. At(Bytes(R), 0, g2)
  <2>1. At(Bytes(R), 0, g) /\ At(Bytes(R), 0 + Len(g), Bytes(h))
    BY <1>1, <1>9 DEF p
  <2> QED BY <1>1, <1>7, <2>1, AtConcat
<1>11. Len(t2) = Len(s \o o) - n
  <2> HIDE DEF t2
  <2> QED BY <1>1, <1>2, <1>6
<1> QED BY <1>4, <1>5, <1>8, <1>10, <1>11 DEF p, h, v

(***************************************************************************)
(* The last answer, and what the client has read of it.                    *)
(***************************************************************************)
LEMMA HeadFds ==
    ASSUME NEW h \in Seq(Tagged), 0 < Len(h), \A i \in 2 .. Len(h) : h[i][2] = 0
    PROVE  Fds(h) = {h[1][2]} \ {0}
<1>1. DOMAIN h = 1 .. Len(h) /\ Len(h) \in Nat
  BY LenProperties
<1>2. 1 \in 1 .. Len(h) /\ \A i \in 1 .. Len(h) : i = 1 \/ i \in 2 .. Len(h)
  BY <1>1
<1> QED BY <1>1, <1>2 DEF Fds

LEMMA LastFrameFacts ==
    ASSUME Connection, 0 < Len(served)
    PROVE  LET n    == Len(served)
               resp == served[n][2]
               P    == AnswerPayload(resp)
               R    == LastFrame
           IN  /\ n \in Nat /\ n \in 1 .. Len(served) /\ Verdict(asked[n][2], resp)
               /\ R \in Seq(Tagged) /\ P \in Seq(Byte) /\ Len(P) \in Nat
               /\ R # <<>> =>
                     /\ Len(R) = 4 + Len(P) /\ Len(P) <= MAX_MESSAGE_SIZE
                     /\ Bytes(R) = FrameBytes(P)
                     /\ Fds(R) = IF expected_fd_count(resp) = 1 THEN {n} ELSE {}
                     /\ \A h \in Seq(Tagged) : 0 < Len(h) /\ At(R, 0, h) => Fds(h) = Fds(R)
<1> DEFINE n    == Len(served)
           resp == served[n][2]
           P    == AnswerPayload(resp)
           R    == LastFrame
<1>1. n \in Nat
  BY Lengths
<1>2. n \in 1 .. Len(served)
  BY <1>1
<1>3. Verdict(asked[n][2], resp) /\ Answer(resp)
  BY <1>2 DEF Connection, History, Verdict
<1>4. /\ R \in Seq(Tagged) /\ P \in Seq(Byte) /\ Len(P) \in Nat
      /\ R # <<>> => /\ Len(R) = 4 + Len(P) /\ Len(P) <= MAX_MESSAGE_SIZE
                     /\ Bytes(R) = FrameBytes(P)
                     /\ R[1][2] = IF expected_fd_count(resp) = 1 THEN n ELSE 0
                     /\ \A i \in 2 .. Len(R) : R[i][2] = 0
  BY <1>1, <1>3, AnswerFrameFacts DEF LastFrame
<1> HIDE DEF n, resp, P, R
<1>5. ASSUME R # <<>>
      PROVE  /\ Fds(R) = IF expected_fd_count(resp) = 1 THEN {n} ELSE {}
             /\ \A h \in Seq(Tagged) : 0 < Len(h) /\ At(R, 0, h) => Fds(h) = Fds(R)
  <2>1. 0 < Len(R) /\ Len(R) \in Nat
    BY <1>4, <1>5
  <2>2. Fds(R) = {R[1][2]} \ {0}
    BY <1>4, <1>5, <2>1, HeadFds
  <2>3. n # 0
    BY <1>1 DEF n
  <2>4. ASSUME NEW h \in Seq(Tagged), 0 < Len(h), At(R, 0, h) PROVE Fds(h) = Fds(R)
    <3>1. Len(h) \in Nat
      BY LenProperties
    <3>2. Len(h) <= Len(R) /\ \A i \in 1 .. Len(h) : R[i] = h[i]
      <4>1. 0 + Len(h) <= Len(R) /\ \A i \in 1 .. Len(h) : R[0 + i] = h[i] /\ 0 + i = i
        BY <2>4 DEF At
      <4> QED BY <3>1, <4>1
    <3>3. 1 \in 1 .. Len(h) /\ \A i \in 2 .. Len(h) : i \in 1 .. Len(h) /\ i \in 2 .. Len(R)
      BY <2>1, <2>4, <3>1, <3>2
    <3>4. h[1] = R[1] /\ \A i \in 2 .. Len(h) : h[i][2] = 0
      BY <1>4, <1>5, <3>2, <3>3
    <3>5. Fds(h) = {h[1][2]} \ {0}
      BY <2>4, <3>4, HeadFds
    <3> QED BY <2>2, <3>4, <3>5
  <2>5. Fds(R) = IF expected_fd_count(resp) = 1 THEN {n} ELSE {}
    BY <1>4, <1>5, <2>2, <2>3
  <2> QED BY <2>4, <2>5
<1> QED BY <1>1, <1>2, <1>3, <1>4, <1>5 DEF n, resp, P, R

LEMMA GotFacts ==
    ASSUME Connection, c.pc \in {"prefix", "rest", "payload"}
    PROVE  /\ Got(c) \in Seq(Byte) /\ Len(Got(c)) \in Nat /\ c.buf \in Seq(Byte) /\ c.size \in Nat
           /\ c.pc # "payload" => Got(c) = c.buf
           /\ c.pc = "prefix" => Got(c) = <<>> /\ Len(Got(c)) = 0
           /\ c.pc = "payload" =>
                 /\ Got(c) = to_le_bytes(c.size, LENGTH_PREFIX_BYTES) \o c.buf
                 /\ to_le_bytes(c.size, LENGTH_PREFIX_BYTES) \in Seq(Byte)
                 /\ Len(to_le_bytes(c.size, LENGTH_PREFIX_BYTES)) = 4
                 /\ Len(Got(c)) = 4 + Len(c.buf)
<1>1. /\ c.buf \in Seq(Byte) /\ c.size \in Nat /\ LENGTH_PREFIX_BYTES \in Nat
      /\ LENGTH_PREFIX_BYTES = 4 /\ (c.pc = "prefix" => c.buf = <<>>)
  BY DEF Connection, Ends, ClientOK, LENGTH_PREFIX_BYTES
<1> DEFINE le == to_le_bytes(c.size, LENGTH_PREFIX_BYTES)
<1>2. le \in Seq(Byte) /\ Len(le) = 4
  BY <1>1, ToBytes
<1>3. Got(c) = IF c.pc = "payload" THEN le \o c.buf ELSE c.buf
  BY DEF Got
<1> HIDE DEF le
<1>4. le \o c.buf \in Seq(Byte) /\ Len(le \o c.buf) = Len(le) + Len(c.buf)
  BY <1>1, <1>2, ConcatProperties
<1>5. Got(c) \in Seq(Byte)
  BY <1>1, <1>3, <1>4
<1>6. Len(Got(c)) \in Nat /\ Len(<<>>) = 0
  BY <1>5, LenProperties, EmptySeq
<1> QED BY <1>1, <1>2, <1>3, <1>4, <1>5, <1>6 DEF le

(* The first four bytes of an answer are the length of its payload. *)
LEMMA PrefixOfAnswer ==
    ASSUME NEW P \in Seq(Byte), Len(P) <= MAX_MESSAGE_SIZE, NEW g \in Seq(Byte), Len(g) = 4,
           At(FrameBytes(P), 0, g)
    PROVE  ~TooLarge(g) /\ from_le_bytes(g) = Len(P) /\ g = to_le_bytes(Len(P), LENGTH_PREFIX_BYTES)
<1> DEFINE le == to_le_bytes(Len(P), LENGTH_PREFIX_BYTES)
           F == FrameBytes(P)
<1>1. Len(P) \in Nat /\ 0 \in Nat /\ F \in Seq(Byte)
  BY FrameFacts
<1>2. le \in Seq(Byte) /\ Len(le) = 4 /\ ~TooLarge(le) /\ from_le_bytes(le) = Len(P)
  BY <1>1, FramePrefix
<1>3. F = le \o P
  BY DEF FrameBytes
<1> HIDE DEF le, F
<1>4. At(F, 0, le)
  BY <1>2, <1>3, ConcatAt
<1>5. At(F, 0, g)
  BY DEF F
<1>6. g = le
  BY <1>1, <1>2, <1>4, <1>5, AtSame
<1> QED BY <1>2, <1>6 DEF le

(***************************************************************************)
(* The steps of the client, as long as no descriptor is lost.              *)
(***************************************************************************)
LEMMA BoundKept ==
    ASSUME Connection, Sync, Quiet
    PROVE  Len(c2d') <= LENGTH_PREFIX_BYTES + MAX_MESSAGE_SIZE
<1>1. CASE c2d' = c2d
  BY <1>1 DEF Sync
<1>2. CASE c2d' = <<>>
  <2>1. Len(c2d') = 0 /\ MAX_MESSAGE_SIZE \in Nat /\ LENGTH_PREFIX_BYTES = 4
    BY <1>2, EmptySeq, Limits DEF LENGTH_PREFIX_BYTES
  <2> QED BY <2>1
<1> QED BY <1>1, <1>2 DEF Quiet

(* A call returns with nothing left on the socket. *)
LEMMA ReturnsInStep ==
    ASSUME Connection, Sync, Quiet, NEW kind, NEW fd, c' = Returned(kind, fd), d2c' = <<>>,
           alive => d.pc = "poll" /\ Len(served) = Len(asked),
           ResultIsMine'
    PROVE  Sync'
<1>1. c'.pc \in {"idle", "closed"}
  BY ReturnedFacts DEF Connection, Ends
<1>2. alive' = alive /\ d' = d /\ asked' = asked /\ served' = served
  BY DEF Quiet
<1>3. Len(c2d') <= LENGTH_PREFIX_BYTES + MAX_MESSAGE_SIZE
  BY BoundKept
<1> QED BY <1>1, <1>2, <1>3 DEF Sync, Waiting

LEMMA FailsInStep ==
    ASSUME Connection, Sync, Quiet, ~alive, NEW kind \in {"Io", "Truncated", "ConnectionClosed"},
           c' = Returned(kind, 0), d2c' = <<>>
    PROVE  Sync'
<1>1. c'.res = <<kind, 0>> /\ ~alive'
  BY ReturnedFacts DEF Connection, Ends, Quiet
<1>2. c'.res[1] = kind
  BY <1>1
<1>3. ResultIsMine'
  BY <1>1, <1>2 DEF ResultIsMine
<1> QED BY <1>3, ReturnsInStep

LEMMA EndsInStep ==
    ASSUME Connection, Sync, NEW begun, EndOfStream(begun), UNCHANGED <<alive, d, asked, served>>,
           c.pc \in {"prefix", "rest", "payload"}
    PROVE  Sync'
<1>1. d2c' = <<>>
  BY DEF EndOfStream
<1> QED BY <1>1, EndOfStreamQuiet, FailsInStep

(* A request begins when all the others are answered. *)
LEMMA BeginsInStep ==
    ASSUME Connection, Sync, NEW k \in Nat, NEW r \in Encodable, Begins(k, r),
           c'.call = k, c'.ask = r
    PROVE  Sync'
<1>1. /\ c.pc \in {"new", "idle"} /\ c'.pc = "send" /\ asked' = Append(asked, <<k, r>>)
      /\ UNCHANGED <<alive, c2d, d2c, d, served, lost>>
  BY DEF Begins
<1>2. /\ Len(asked') = Len(asked) + 1 /\ asked'[Len(asked) + 1] = <<k, r>>
      /\ Len(asked) \in Nat
  <2>1. asked \in Seq(Nat \X Encodable) /\ <<k, r>> \in Nat \X Encodable /\ Len(asked) \in Nat
    BY Lengths
  <2> QED BY <1>1, <2>1, AppendProperties
<1>3. d2c = <<>> /\ (alive => d.pc = "poll" /\ Len(served) = Len(asked))
  <2>1. CASE c.pc = "new"
    <3>1. d2c = <<>> /\ d.pc \in {"poll", "dead"} /\ (alive <=> d.pc # "dead") /\ asked = <<>>
      BY <2>1 DEF Connection, Ends
    <3>2. Len(asked) = 0
      BY <3>1, EmptySeq
    <3>3. Len(served) = 0
      BY <3>2, Lengths
    <3> QED BY <3>1, <3>2, <3>3
  <2>2. CASE c.pc = "idle"
    BY <2>2 DEF Sync
  <2> QED BY <1>1, <2>1, <2>2
<1>4. 0 < Len(asked') /\ asked'[Len(asked')] = <<c'.call, c'.ask>>
  BY <1>2
<1>5. alive' => Len(served') + 1 = Len(asked') /\ d'.pc \in {"poll", "prefix", "payload"}
  BY <1>1, <1>2, <1>3
<1>6. Len(c2d') <= LENGTH_PREFIX_BYTES + MAX_MESSAGE_SIZE /\ d2c' = <<>>
  BY <1>1, <1>3 DEF Sync
<1> QED BY <1>1, <1>4, <1>5, <1>6 DEF Sync

LEMMA ConnectInStep == ASSUME Connection, Sync, Connect PROVE Sync'
<1>1. c.pc = "new" /\ d2c' = d2c
  BY DEF Connect
<1>2. d2c = <<>> /\ c.call = 0 /\ 0 \in Nat
  BY <1>1 DEF Connection, Ends
<1>3. CASE ~alive /\ Quiet /\ c' = Returned("Io", 0)
  BY <1>1, <1>2, <1>3, FailsInStep
<1>4. CASE alive /\ Begins(0, c.ask) /\ c.ask \in Encodable /\ c'.call = c.call /\ c'.ask = c.ask
  BY <1>2, <1>4, BeginsInStep
<1> QED BY <1>3, <1>4, ConnectSteps

LEMMA CallInStep == ASSUME Connection, Sync, Call PROVE Sync'
<1>1. c.pc = "idle"
  BY Zenon DEF Call
<1>2. CASE Quiet /\ Refuses
  <2>1. /\ c'.pc = "idle" /\ d2c' = d2c /\ alive' = alive /\ d' = d /\ asked' = asked
        /\ served' = served /\ c'.res[1] \in {"InvalidRequest", "FrameTooLarge"}
    BY <1>2 DEF Quiet, Refuses
  <2>2. ResultIsMine'
    BY <2>1 DEF ResultIsMine
  <2>3. Len(c2d') <= LENGTH_PREFIX_BYTES + MAX_MESSAGE_SIZE
    BY <1>2, BoundKept
  <2> QED BY <1>1, <2>1, <2>2, <2>3 DEF Sync, Waiting
<1>3. ASSUME NEW r \in Encodable, Begins(c.call + 1, r), c'.call = c.call + 1, c'.ask = r
      PROVE  Sync'
  <2> DEFINE k == c.call + 1
  <2>1. k \in Nat
    BY SessionAssumption, LenProperties DEF Connection, Ends, ClientOK
  <2>2. Begins(k, r) /\ c'.call = k
    BY <1>3
  <2> HIDE DEF k
  <2> QED BY <1>3, <2>1, <2>2, BeginsInStep
<1> QED BY <1>2, <1>3, CallSteps

LEMMA SendFrameInStep == ASSUME Connection, Sync, SendFrame PROVE Sync'
<1>1. c.pc = "send"
  BY Zenon DEF SendFrame
<1>2. Waiting /\ d2c = <<>> /\ 0 < Len(asked) /\ asked[Len(asked)] = <<c.call, c.ask>>
  BY <1>1 DEF Sync, Waiting
<1>3. CASE ~alive
  <2>1. d2c' = d2c
    BY Zenon DEF SendFrame
  <2> QED BY <1>2, <1>3, <2>1, SendFrameSteps, FailsInStep
<1>4. CASE alive
  <2>1. /\ ClientOK(c') /\ UNCHANGED <<alive, d2c, d, asked, served, lost>>
        /\ c'.call = c.call /\ c'.ask = c.ask /\ c'.pc \in {"send", "prefix"}
    BY <1>4, SendFrameSteps
  <2>2. Len(served) + 1 = Len(asked) /\ d.pc \in {"poll", "prefix", "payload"}
    BY <1>2, <1>4 DEF Sync
  <2>3. Len(served) # Len(asked)
    BY <2>2, Lengths
  <2>4. Len(c2d') <= LENGTH_PREFIX_BYTES + MAX_MESSAGE_SIZE
    <3>1. PICK n \in Nat : n <= Len(c.out) /\ c2d' = c2d \o SubSeq(c.out, 1, n)
      BY <1>4, SendFrameSteps
    <3> DEFINE h == SubSeq(c.out, 1, n)
    <3>2. c.out \in Seq(Byte) /\ c2d \in Seq(Byte)
      BY DaemonFields
    <3>3. h \in Seq(Byte) /\ Len(h) = n
      BY <3>1, <3>2, TakeFacts
    <3>4. c2d' = c2d \o h
      BY <3>1
    <3> HIDE DEF h
    <3>5. Len(c2d') = Len(c2d) + n
      BY <3>2, <3>3, <3>4, ConcatProperties
    <3>6. Len(c2d) + Len(c.out) <= LENGTH_PREFIX_BYTES + MAX_MESSAGE_SIZE
      BY <1>1, <1>4, <2>2, OneLeft
    <3>7. MAX_MESSAGE_SIZE \in Nat /\ LENGTH_PREFIX_BYTES = 4
      BY Limits DEF LENGTH_PREFIX_BYTES
    <3> QED BY <3>1, <3>5, <3>6, <3>7, Lengths
  <2> QED BY <1>2, <2>1, <2>2, <2>3, <2>4 DEF Sync, Waiting
<1> QED BY <1>3, <1>4

LEMMA ClosesInStep == ASSUME Connection, Sync, ClientCloses PROVE Sync'
<1>1. Quiet
  BY ClientClosesQuiet
<1>2. c'.pc = "closed"
  BY DEF ClientCloses, Connection, Ends, ClientOK
<1>3. Len(c2d') <= LENGTH_PREFIX_BYTES + MAX_MESSAGE_SIZE
  BY <1>1, BoundKept
<1> QED BY <1>2, <1>3 DEF Sync, Waiting

(* A byte to read belongs to the answer to this call. *)
LEMMA ReadsMine ==
    ASSUME Connection, Sync, c.pc \in {"prefix", "rest", "payload"}, d2c # <<>>
    PROVE  /\ Len(served) = Len(asked) /\ 0 < Len(served) /\ Answered(LastFrame)
           /\ asked[Len(asked)] = <<c.call, c.ask>>
           /\ At(LastFrame, Len(Got(c)), d2c \o d.out) /\ At(Bytes(LastFrame), 0, Got(c))
           /\ LastFrame # <<>> /\ LastFrame \in Seq(Tagged)
<1>1. ~Waiting
  BY DEF Sync
<1>2. Len(served) = Len(asked) /\ 0 < Len(served) /\ asked[Len(asked)] = <<c.call, c.ask>>
  BY <1>1 DEF Waiting, Sync
<1>3. Answered(LastFrame)
  BY <1>2 DEF Sync
<1>4. At(LastFrame, Len(Got(c)), d2c \o d.out) /\ At(Bytes(LastFrame), 0, Got(c))
  BY <1>3 DEF Answered, Total
<1>5. LastFrame \in Seq(Tagged)
  BY <1>2, LastFrameFacts
<1>6. LastFrame # <<>>
  <2> SUFFICES ASSUME LastFrame = <<>> PROVE FALSE
    OBVIOUS
  <2> DEFINE t == d2c \o d.out
  <2>1. d2c \in Seq(Tagged) /\ d.out \in Seq(Tagged)
    BY DaemonFields
  <2>2. Len(t) = Len(d2c) + Len(d.out) /\ Len(d2c) \in Nat /\ Len(d.out) \in Nat
    BY <2>1, ConcatAt
  <2>3. Len(Got(c)) + Len(t) <= 0 /\ Len(Got(c)) \in Nat
    <3>1. Len(LastFrame) = 0
      BY EmptySeq
    <3> QED BY <1>4, <3>1, GotFacts DEF At
  <2> HIDE DEF t
  <2>4. Len(d2c) = 0
    BY <2>2, <2>3
  <2> QED BY <2>1, <2>4, EmptySeq
<1> QED BY <1>2, <1>3, <1>4, <1>5, <1>6

LEMMA NotEmpty ==
    ASSUME NEW S, NEW s \in Seq(S), NEW n \in Nat, 0 < n, n <= Len(s) PROVE s # <<>>
<1>1. Len(s) # 0
  BY LenProperties
<1> QED BY <1>1, EmptySeq

(* After a read the client waits for what is left of the same answer. *)
LEMMA ReadInStep ==
    ASSUME Connection, Sync, Quiet, c.pc \in {"prefix", "rest", "payload"},
           NEW n \in Nat, 0 < n, n <= Len(d2c), d2c' = Drop(d2c, n),
           Got(c') = Got(c) \o Bytes(SubSeq(d2c, 1, n)), c'.pc \in {"rest", "payload"},
           c'.fds = IF c.pc = "prefix" THEN Fds(SubSeq(d2c, 1, n)) ELSE c.fds,
           c'.pc = "rest" => Len(c'.buf) < 4, c'.pc = "payload" => Len(c'.buf) <= c'.size,
           c'.call = c.call, c'.ask = c.ask
    PROVE  Sync'
<1> DEFINE R == LastFrame
           g == Got(c)
           h == SubSeq(d2c, 1, n)
           g2 == g \o Bytes(h)
           v == Drop(d2c, n)
           o == d.out
           t == d2c \o o
           t2 == v \o o
<1>1. d2c \in Seq(Tagged) /\ o \in Seq(Tagged) /\ d2c # <<>>
  BY DaemonFields, NotEmpty
<1>2. /\ Len(served) = Len(asked) /\ 0 < Len(served) /\ Answered(R)
      /\ asked[Len(asked)] = <<c.call, c.ask>>
      /\ At(R, Len(g), t) /\ At(Bytes(R), 0, g) /\ R # <<>> /\ R \in Seq(Tagged)
  BY <1>1, ReadsMine
<1>3. g \in Seq(Byte) /\ Len(g) \in Nat /\ (c.pc = "prefix" => Len(g) = 0)
  BY GotFacts
<1>4. h \in Seq(Tagged) /\ Len(h) = n
  BY <1>1, TakeFacts
<1>5. Got(c') = g2 /\ Total = t /\ Total' = t2 /\ d' = d /\ alive' = alive
      /\ served' = served /\ asked' = asked
  BY DEF Quiet, Total
<1>6. c'.fds = IF c.pc = "prefix" THEN Fds(h) ELSE c.fds
  OBVIOUS
<1>7. R' = R
  BY <1>5 DEF LastFrame
<1> HIDE DEF R, g
<1>8. /\ g2 \in Seq(Byte) /\ Len(g2) = Len(g) + n /\ Len(t2) = Len(t) - n
      /\ At(R, Len(g2), t2) /\ At(Bytes(R), 0, g2) /\ At(R, Len(g), h)
  BY <1>1, <1>2, <1>3, AnswerRead
<1>9. Len(t) \in Nat
  <2>1. t \in Seq(Tagged)
    BY <1>1, ConcatProperties
  <2> QED BY <2>1, LenProperties
<1> HIDE DEF h, g2, v, o, t, t2
<1>10. c'.fds = Fds(R)
  <2>1. CASE c.pc = "prefix"
    <3>1. At(R, 0, h) /\ 0 < Len(h)
      BY <1>3, <1>4, <1>8, <2>1
    <3>2. Fds(h) = Fds(R)
      BY <1>2, <1>4, <3>1, LastFrameFacts DEF R
    <3> QED BY <1>6, <2>1, <3>2
  <2>2. CASE c.pc # "prefix"
    BY <1>2, <1>6, <2>2 DEF Answered
  <2> QED BY <2>1, <2>2
<1>11. alive => Len(g2) + Len(t2) = Len(R) /\ d.pc \in {"poll", "write", "tell"}
  <2>1. alive => Len(g) + Len(t) = Len(R) /\ d.pc \in {"poll", "write", "tell"}
    BY <1>2, <1>5 DEF Answered, g
  <2>2. Len(g2) + Len(t2) = Len(g) + Len(t)
    BY <1>3, <1>8, <1>9
  <2> QED BY <2>1, <2>2
<1>12. Answered(R)'
  BY <1>5, <1>7, <1>8, <1>10, <1>11 DEF Answered
<1>13. Answered(LastFrame)'
  BY <1>12 DEF R
<1>14. Len(c2d') <= LENGTH_PREFIX_BYTES + MAX_MESSAGE_SIZE
  BY BoundKept
<1> QED BY <1>2, <1>5, <1>13, <1>14 DEF Sync, Waiting

(* A complete prefix is the length of the answer. *)
LEMMA PrefixMine ==
    ASSUME Connection, Sync, c.pc \in {"prefix", "rest"}, NEW n \in Nat, 0 < n, n <= Len(d2c),
           Len(c.buf) + n = 4
    PROVE  LET g == c.buf \o Bytes(SubSeq(d2c, 1, n))
           IN  ~TooLarge(g) /\ g = to_le_bytes(from_le_bytes(g), LENGTH_PREFIX_BYTES)
<1> DEFINE R == LastFrame
           b == c.buf
           h == SubSeq(d2c, 1, n)
           g == b \o Bytes(h)
           o == d.out
           t == d2c \o o
           P == AnswerPayload(served[Len(served)][2])
<1>1. d2c \in Seq(Tagged) /\ o \in Seq(Tagged) /\ d2c # <<>>
  BY DaemonFields, NotEmpty
<1>2. b \in Seq(Byte) /\ Got(c) = b
  BY GotFacts
<1>3. /\ At(R, Len(b), t) /\ At(Bytes(R), 0, b) /\ R # <<>> /\ R \in Seq(Tagged) /\ 0 < Len(served)
  BY <1>1, <1>2, ReadsMine
<1>4. P \in Seq(Byte) /\ Len(P) <= MAX_MESSAGE_SIZE /\ Bytes(R) = FrameBytes(P)
  BY <1>3, LastFrameFacts
<1> HIDE DEF R
<1>5. g \in Seq(Byte) /\ Len(g) = Len(b) + n /\ At(Bytes(R), 0, g)
  <2>1. d2c \in Seq(Tagged) /\ b \in Seq(Byte) /\ R \in Seq(Tagged) /\ o \in Seq(Tagged)
        /\ At(R, Len(b), d2c \o o) /\ At(Bytes(R), 0, b) /\ n <= Len(d2c)
    BY <1>1, <1>2, <1>3
  <2> HIDE DEF b, o
  <2> QED BY <2>1, AnswerRead
<1> HIDE DEF g, P
<1>6. ~TooLarge(g) /\ from_le_bytes(g) = Len(P) /\ g = to_le_bytes(Len(P), LENGTH_PREFIX_BYTES)
  BY <1>4, <1>5, PrefixOfAnswer
<1>7. ~TooLarge(g) /\ g = to_le_bytes(from_le_bytes(g), LENGTH_PREFIX_BYTES)
  BY <1>6
<1> QED BY <1>7 DEF g

LEMMA PayloadBegins ==
    ASSUME Connection, Sync, Quiet, c.pc \in {"prefix", "rest"}, NEW n \in Nat, 0 < n,
           n <= Len(d2c), d2c' = Drop(d2c, n), Len(c.buf) + n = 4, NEW fds \in SUBSET Nat,
           fds = IF c.pc = "prefix" THEN Fds(SubSeq(d2c, 1, n)) ELSE c.fds,
           c' = Prefixed(c.buf \o Bytes(SubSeq(d2c, 1, n)), fds)
    PROVE  Sync'
<1> DEFINE b == c.buf
           h == SubSeq(d2c, 1, n)
           g == b \o Bytes(h)
           le == to_le_bytes(from_le_bytes(g), LENGTH_PREFIX_BYTES)
<1>1. ~TooLarge(g) /\ g = le
  BY PrefixMine
<1>2. ClientOK(c) /\ b \in Seq(Byte) /\ Got(c) = b /\ d2c \in Seq(Tagged)
  BY GotFacts, DaemonFields DEF Connection, Ends
<1>3. h \in Seq(Tagged)
  BY <1>2, TakeFacts
<1>4. Bytes(h) \in Seq(Byte)
  BY <1>3, BytesFacts
<1>5. g \in Seq(Byte)
  BY <1>2, <1>4, ConcatProperties
<1>6. c' = Prefixed(g, fds)
  OBVIOUS
<1> HIDE DEF g, h, b
<1>7. /\ c'.pc = "payload" /\ c'.buf = <<>> /\ c'.fds = fds /\ c'.size = from_le_bytes(g)
      /\ c'.call = c.call /\ c'.ask = c.ask
  BY <1>1, <1>2, <1>5, <1>6, PrefixedFacts
<1>8. from_le_bytes(g) \in Nat /\ Len(<<>>) = 0
  BY <1>5, FromNat, EmptySeq
<1>9. Len(c'.buf) <= c'.size
  BY <1>7, <1>8
<1>10. Got(c') = g
  <2>1. Got(c') = le \o <<>>
    BY <1>7 DEF Got
  <2>2. Got(c') = g \o <<>>
    BY <1>1, <2>1
  <2>3. g \o <<>> = g
    BY <1>5, ConcatEmptySeq
  <2> QED BY <2>2, <2>3
<1>11. Got(c') = Got(c) \o Bytes(SubSeq(d2c, 1, n))
  BY <1>2, <1>10 DEF g, h
<1> QED BY <1>7, <1>9, <1>11, ReadInStep

LEMMA RecvPrefixInStep == ASSUME Connection, Sync, RecvPrefix, ~lost' PROVE Sync'
<1> DEFINE ended == EndOfStream(FALSE)
<1> HIDE DEF ended
<1>1. Quiet
  BY RecvPrefixQuiet
<1>2. CASE ended
  <2>1. UNCHANGED <<alive, d, asked, served>> /\ c.pc \in {"prefix", "rest", "payload"}
    BY DEF RecvPrefix
  <2> QED BY <1>2, <2>1, EndsInStep DEF ended
<1>3. CASE ~ended
  <2>0. c.pc = "prefix"
    BY DEF RecvPrefix
  <2>1. PICK n \in Nat :
              /\ 0 < n /\ n <= Len(d2c) /\ n <= 4 /\ d2c' = Drop(d2c, n)
              /\ LET h == SubSeq(d2c, 1, n)
                 IN  /\ Bytes(h) \in Seq(Byte) /\ Len(Bytes(h)) = n /\ Fds(h) \in SUBSET Nat
                     /\ \/ n = 4 /\ c' = Prefixed(Bytes(h), Fds(h))
                        \/ /\ n < 4 /\ c'.pc = "rest" /\ c'.buf = Bytes(h) /\ c'.fds = Fds(h)
                           /\ c'.call = c.call /\ c'.ask = c.ask
    BY <1>3, RecvMsgFacts DEF ended
  <2> DEFINE h == SubSeq(d2c, 1, n)
  <2>2. c.buf = <<>> /\ Got(c) = <<>> /\ Len(<<>>) = 0
    BY <2>0, GotFacts, EmptySeq
  <2>3. <<>> \o Bytes(h) = Bytes(h)
    BY <2>1, ConcatEmptySeq
  <2>4. CASE n = 4 /\ c' = Prefixed(Bytes(h), Fds(h))
    <3>1. Len(c.buf) + n = 4
      BY <2>2, <2>4
    <3>2. c' = Prefixed(c.buf \o Bytes(h), Fds(h)) /\ Fds(h) \in SUBSET Nat
      BY <2>1, <2>2, <2>3, <2>4
    <3>3. Fds(h) = IF c.pc = "prefix" THEN Fds(h) ELSE c.fds
      BY <2>0
    <3> QED BY <1>1, <2>0, <2>1, <3>1, <3>2, <3>3, PayloadBegins
  <2>5. CASE /\ n < 4 /\ c'.pc = "rest" /\ c'.buf = Bytes(h) /\ c'.fds = Fds(h)
             /\ c'.call = c.call /\ c'.ask = c.ask
    <3>1. Got(c') = Got(c) \o Bytes(h)
      BY <2>2, <2>3, <2>5 DEF Got
    <3>2. Len(c'.buf) < 4
      BY <2>1, <2>5
    <3> QED BY <1>1, <2>0, <2>1, <2>5, <3>1, <3>2, ReadInStep
  <2> QED BY <2>1, <2>4, <2>5
<1> QED BY <1>2, <1>3

LEMMA ReadRestInStep == ASSUME Connection, Sync, ReadRest PROVE Sync'
<1> DEFINE ended == EndOfStream(TRUE)
<1> HIDE DEF ended
<1>1. Quiet
  BY ReadRestQuiet
<1>2. CASE ended
  <2>1. UNCHANGED <<alive, d, asked, served>> /\ c.pc \in {"prefix", "rest", "payload"}
    BY Zenon DEF ReadRest
  <2> QED BY <1>2, <2>1, EndsInStep DEF ended
<1>3. CASE ~ended
  <2>0. c.pc = "rest"
    BY Zenon DEF ReadRest
  <2>1. PICK n \in Nat :
              /\ 0 < n /\ n <= Len(d2c) /\ d2c' = Drop(d2c, n)
              /\ LET h == SubSeq(d2c, 1, n)
                     got == c.buf \o Bytes(h)
                 IN  /\ got \in Seq(Byte) /\ Len(got) = Len(c.buf) + n
                     /\ Len(c.buf) <= 4 => Len(got) <= 4
                     /\ \/ Len(got) = 4 /\ c' = Prefixed(got, c.fds)
                        \/ /\ Len(got) # 4 /\ c'.pc = "rest" /\ c'.buf = got /\ c'.fds = c.fds
                           /\ c'.call = c.call /\ c'.ask = c.ask
    BY <1>3, ReadRestFacts DEF ended
  <2> DEFINE h == SubSeq(d2c, 1, n)
             got == c.buf \o Bytes(h)
  <2>2. Got(c) = c.buf /\ c.buf \in Seq(Byte) /\ c.fds \in SUBSET Nat
    BY <2>0, GotFacts DEF Connection, Ends, ClientOK
  <2>3. c.fds = IF c.pc = "prefix" THEN Fds(h) ELSE c.fds
    BY <2>0
  <2>4. CASE Len(got) = 4 /\ c' = Prefixed(got, c.fds)
    <3>1. Len(c.buf) + n = 4
      BY <2>1, <2>4
    <3> QED BY <1>1, <2>0, <2>1, <2>2, <2>3, <2>4, <3>1, PayloadBegins
  <2>5. CASE /\ Len(got) # 4 /\ c'.pc = "rest" /\ c'.buf = got /\ c'.fds = c.fds
             /\ c'.call = c.call /\ c'.ask = c.ask
    <3>1. Len(c.buf) < 4 /\ Len(c.buf) \in Nat
      <4>1. d2c # <<>>
        BY <2>1, DaemonFields, NotEmpty
      <4> QED BY <2>0, <2>2, <4>1, ReadsMine, LenProperties DEF Answered
    <3>2. Len(c'.buf) < 4
      <4> DEFINE m == Len(got)
      <4>1. m = Len(c.buf) + n /\ (Len(c.buf) <= 4 => m <= 4)
        BY <2>1
      <4>2. m # 4 /\ Len(c'.buf) = m
        BY <2>5
      <4> HIDE DEF m
      <4> QED BY <3>1, <4>1, <4>2
    <3>3. Got(c') = Got(c) \o Bytes(h)
      BY <2>2, <2>5 DEF Got
    <3> QED BY <1>1, <2>0, <2>1, <2>3, <2>5, <3>2, <3>3, ReadInStep
  <2> QED BY <2>1, <2>4, <2>5
<1> QED BY <1>2, <1>3

LEMMA ReadPayloadInStep == ASSUME Connection, Sync, ReadPayload PROVE Sync'
<1> DEFINE ended == EndOfStream(TRUE)
<1> HIDE DEF ended
<1>1. Quiet
  BY ReadPayloadQuiet
<1>2. CASE ended
  <2>1. UNCHANGED <<alive, d, asked, served>> /\ c.pc \in {"prefix", "rest", "payload"}
    BY Zenon DEF ReadPayload
  <2> QED BY <1>2, <2>1, EndsInStep DEF ended
<1>3. CASE ~ended
  <2>0. c.pc = "payload"
    BY Zenon DEF ReadPayload
  <2>1. PICK n \in Nat :
              /\ 0 < n /\ n <= Len(d2c) /\ d2c' = Drop(d2c, n)
              /\ LET h == SubSeq(d2c, 1, n)
                     got == c.buf \o Bytes(h)
                 IN  /\ Bytes(h) \in Seq(Byte) /\ Len(got) <= c.size
                     /\ c'.pc = "payload" /\ c'.buf = got /\ c'.fds = c.fds
                     /\ c'.size = c.size /\ c'.call = c.call /\ c'.ask = c.ask
    BY <1>3, ReadPayloadFacts DEF ended
  <2> DEFINE h == SubSeq(d2c, 1, n)
             b == c.buf
             e == Bytes(h)
             le == to_le_bytes(c.size, LENGTH_PREFIX_BYTES)
  <2>2. Got(c) = le \o b /\ b \in Seq(Byte) /\ le \in Seq(Byte) /\ e \in Seq(Byte)
    BY <2>0, <2>1, GotFacts
  <2>3. Got(c') = le \o (b \o e)
    BY <2>1 DEF Got
  <2> HIDE DEF b, e, le
  <2>4. (le \o b) \o e = le \o (b \o e)
    BY <2>2, Regroup, SMTT(30)
  <2>5. Got(c') = Got(c) \o e
    BY <2>2, <2>3, <2>4
  <2>6. c'.fds = IF c.pc = "prefix" THEN Fds(h) ELSE c.fds
    BY <2>0, <2>1
  <2> QED BY <1>1, <2>0, <2>1, <2>5, <2>6, ReadInStep DEF e
<1> QED BY <1>2, <1>3

(***************************************************************************)
(* The answer is complete.                                                 *)
(***************************************************************************)
LEMMA Codes ==
    /\ parse_daemon_error(ERR_INTERLOCK_NOT_FOUND) = "InterlockNotFound"
    /\ parse_daemon_error(ERR_ALLOCATION_FAILED) = "AllocationFailed"
    /\ parse_daemon_error(ERR_INVALID_REQUEST) = "InvalidRequest"
BY DEF parse_daemon_error, ERR_INTERLOCK_REAPED, ERR_INTERLOCK_NOT_FOUND, ERR_ALLOCATION_FAILED,
       ERR_INVALID_REQUEST

LEMMA FrameComplete ==
    ASSUME Connection, Sync, c.pc = "payload", Len(c.buf) = c.size
    PROVE  LET n    == Len(served)
               resp == served[n][2]
           IN  /\ n \in 1 .. Len(served) /\ n = Len(asked) /\ asked[n] = <<c.call, c.ask>>
               /\ Verdict(c.ask, resp) /\ c.buf = AnswerPayload(resp)
               /\ Len(c.buf) <= MAX_MESSAGE_SIZE
               /\ c.fds = IF expected_fd_count(resp) = 1 THEN {n} ELSE {}
               /\ d2c = <<>> /\ (alive => d.pc = "poll")
<1> DEFINE n    == Len(served)
           resp == served[n][2]
           P    == AnswerPayload(resp)
           R    == LastFrame
           F    == FrameBytes(P)
           le   == to_le_bytes(c.size, LENGTH_PREFIX_BYTES)
           b    == c.buf
           g    == Got(c)
           t    == d2c \o d.out
<1>1. ~Waiting
  BY DEF Sync
<1>2. n = Len(asked) /\ 0 < n /\ asked[n] = <<c.call, c.ask>> /\ Answered(R)
  BY <1>1 DEF Sync, Waiting
<1>3. n \in 1 .. Len(served) /\ Verdict(asked[n][2], resp) /\ R \in Seq(Tagged)
      /\ P \in Seq(Byte) /\ Len(P) \in Nat
  BY <1>2, LastFrameFacts
<1>4. /\ g = le \o b /\ le \in Seq(Byte) /\ Len(le) = 4 /\ b \in Seq(Byte) /\ g \in Seq(Byte)
      /\ Len(g) = 4 + Len(b) /\ c.size \in Nat
  BY GotFacts
<1>5. Len(b) \in Nat /\ Len(R) \in Nat /\ Len(<<>>) = 0
  BY <1>3, <1>4, LenProperties, EmptySeq
<1>6. At(R, Len(g), t) /\ At(Bytes(R), 0, g)
  BY <1>2 DEF Answered, Total
<1>7. Len(Bytes(R)) = Len(R) /\ Bytes(R) \in Seq(Byte)
  BY <1>3, BytesFacts
<1>8. R # <<>>
  <2> SUFFICES ASSUME R = <<>> PROVE FALSE
    OBVIOUS
  <2>1. Len(R) = 0
    BY EmptySeq
  <2>2. 0 + Len(g) <= Len(Bytes(R))
    BY <1>6 DEF At
  <2> HIDE DEF g, b, R
  <2> QED BY <1>4, <1>5, <1>7, <2>1, <2>2
<1>9. /\ Len(R) = 4 + Len(P) /\ Len(P) <= MAX_MESSAGE_SIZE /\ Bytes(R) = F
      /\ Fds(R) = IF expected_fd_count(resp) = 1 THEN {n} ELSE {}
  BY <1>2, <1>8, LastFrameFacts
<1>10. c.fds = Fds(R)
  BY <1>2 DEF Answered
<1>11. F \in Seq(Byte) /\ At(F, 0, g)
  BY <1>6, <1>7, <1>9
<1>12. Verdict(c.ask, resp)
  BY <1>2, <1>3
<1>13. t \in Seq(Tagged) /\ Len(t) = Len(d2c) + Len(d.out) /\ Len(d2c) \in Nat /\ Len(d.out) \in Nat
       /\ d2c \in Seq(Tagged) /\ d.out \in Seq(Tagged)
  <2>1. d2c \in Seq(Tagged) /\ d.out \in Seq(Tagged)
    BY DaemonFields
  <2> QED BY <2>1, ConcatAt
<1>14. F = to_le_bytes(Len(P), LENGTH_PREFIX_BYTES) \o P
  BY DEF FrameBytes
<1> HIDE DEF R, F, le, b, g, t, P
<1>15. At(F, 0, le) /\ At(F, 4, b)
  <2>1. At(F, 0, le \o b) /\ 0 \in Nat
    BY <1>4, <1>11
  <2>2. At(F, 0, le) /\ At(F, 0 + Len(le), b)
    BY <1>4, <1>11, <2>1, AtConcat
  <2>3. 0 + Len(le) = 4
    BY <1>4
  <2> QED BY <2>2, <2>3
<1>16. from_le_bytes(le) = Len(P) /\ le = to_le_bytes(Len(P), LENGTH_PREFIX_BYTES)
  BY <1>3, <1>4, <1>9, <1>15, PrefixOfAnswer DEF F
<1>17. Len(P) = Len(b)
  <2>1. Len(b) = c.size
    BY DEF b
  <2>2. Len(b) + 4 <= Len(F) /\ Len(F) = 4 + Len(P)
    <3>1. 4 + Len(b) <= Len(F) /\ Len(F) = Len(R)
      BY <1>7, <1>9, <1>15 DEF At
    <3> QED BY <1>5, <1>9, <3>1
  <2>3. Len(b) <= MAX_MESSAGE_SIZE
    <3>1. MAX_MESSAGE_SIZE \in Nat
      BY Limits
    <3> QED BY <1>3, <1>5, <1>9, <2>2, <3>1
  <2>4. from_le_bytes(to_le_bytes(Len(b), LENGTH_PREFIX_BYTES)) = Len(b)
    BY <1>5, <2>3, FramePrefix
  <2> QED BY <1>16, <2>1, <2>4 DEF le
<1>18. b = P
  <2> DEFINE lp == to_le_bytes(Len(P), LENGTH_PREFIX_BYTES)
  <2>1. lp \in Seq(Byte) /\ Len(lp) = 4 /\ F = lp \o P
    BY <1>4, <1>14, <1>16
  <2> HIDE DEF lp
  <2>2. At(F, Len(lp), P)
    BY <1>3, <2>1, ConcatAt
  <2>3. At(F, 4, P) /\ 4 \in Nat
    BY <2>1, <2>2
  <2> QED BY <1>3, <1>4, <1>11, <1>15, <1>17, <2>3, AtSame
<1>19. Len(t) = 0
  <2>1. Len(g) + Len(t) <= Len(R)
    BY <1>6 DEF At
  <2>2. Len(R) = 4 + Len(b) /\ Len(g) = 4 + Len(b)
    BY <1>4, <1>9, <1>17
  <2>3. Len(t) \in Nat
    BY <1>13, LenProperties
  <2> QED BY <1>5, <2>1, <2>2, <2>3
<1>20. d2c = <<>> /\ d.out = <<>>
  <2> DEFINE x == Len(d2c)
             y == Len(d.out)
  <2>1. x = 0 /\ y = 0
    <3>1. x + y = 0 /\ x \in Nat /\ y \in Nat
      BY <1>13, <1>19
    <3> HIDE DEF x, y
    <3> QED BY <3>1
  <2> QED BY <1>13, <2>1, EmptySeq
<1>21. alive => d.pc = "poll"
  <2>1. alive => d.pc \in {"poll", "write", "tell"}
    BY <1>2 DEF Answered, R
  <2>2. d.pc \notin {"write", "tell"}
    BY <1>20, DaemonFields DEF DaemonOK
  <2> QED BY <2>1, <2>2
<1>22. Len(b) <= MAX_MESSAGE_SIZE
  BY <1>9, <1>17
<1> QED BY <1>2, <1>3, <1>9, <1>10, <1>12, <1>18, <1>20, <1>21, <1>22 DEF b, P

LEMMA FinishSteps ==
    ASSUME Connection, Sync, Finish
    PROVE  LET resp == served[Len(served)][2]
           IN  \/ resp.tag # TAG_ERROR /\ c' = Returned("Handle", Len(served))
               \/ resp.tag # TAG_ERROR /\ c' = Returned("MmapFailed", 0)
               \/ resp.tag = TAG_ERROR /\ c' = Returned(parse_daemon_error(resp.code), 0)
<1> DEFINE n    == Len(served)
           resp == served[n][2]
           r    == decode_response(c.buf)
           kind == CASE Failed(r) -> r.fault
                     [] ~Failed(r) /\ Cardinality(c.fds) # expected_fd_count(r.value) -> "Truncated"
                     [] OTHER ->
                          CASE r.value.tag = TAG_ERROR -> parse_daemon_error(r.value.code)
                            [] r.value.tag = Wanted(c.ask) -> "Handle"
                            [] OTHER -> "UnexpectedResponse"
<1>1. /\ c.pc = "payload" /\ Len(c.buf) = c.size
      /\ \/ c' = Returned(kind, IF kind = "Handle" THEN CHOOSE f \in c.fds : TRUE ELSE 0)
         \/ kind = "Handle" /\ c' = Returned("MmapFailed", 0)
  BY Zenon DEF Finish
<1>2. /\ Verdict(c.ask, resp) /\ c.buf = AnswerPayload(resp) /\ Len(c.buf) <= MAX_MESSAGE_SIZE
      /\ c.fds = IF expected_fd_count(resp) = 1 THEN {n} ELSE {}
  BY <1>1, FrameComplete
<1>3. Answer(resp) /\ resp.tag \in {TAG_ERROR, Wanted(c.ask)}
  BY <1>2 DEF Verdict
<1> HIDE DEF n, resp
<1>4. ~Failed(r) /\ r.value.tag = resp.tag /\ r.value.code = resp.code
  <2>1. Len(AnswerPayload(resp)) <= MAX_MESSAGE_SIZE
    BY <1>2
  <2> QED BY <1>2, <1>3, <2>1, DecodeAnswer
<1> HIDE DEF r
<1>5. Wanted(c.ask) # TAG_ERROR
  BY DEF Wanted, TAG_CREATED, TAG_ATTACHED, TAG_ERROR
<1>6. Cardinality(c.fds) = expected_fd_count(r.value)
  <2>1. expected_fd_count(r.value) = expected_fd_count(resp)
    BY <1>4 DEF expected_fd_count
  <2>2. expected_fd_count(resp) \in {0, 1}
    BY DEF expected_fd_count
  <2>3. Cardinality({n}) = 1 /\ Cardinality({}) = 0
    BY FS_Singleton, FS_EmptySet
  <2> QED BY <1>2, <2>1, <2>2, <2>3
<1>7. kind = CASE r.value.tag = TAG_ERROR -> parse_daemon_error(r.value.code)
               [] r.value.tag = Wanted(c.ask) -> "Handle"
               [] OTHER -> "UnexpectedResponse"
  BY <1>4, <1>6
<1>8. CASE resp.tag = TAG_ERROR
  <2>1. kind = parse_daemon_error(resp.code)
    BY <1>4, <1>5, <1>7, <1>8
  <2>2. parse_daemon_error(resp.code) # "Handle"
    BY DEF parse_daemon_error
  <2> HIDE DEF kind
  <2> QED BY <1>1, <1>8, <2>1, <2>2 DEF n, resp
<1>9. CASE resp.tag # TAG_ERROR
  <2>1. kind = "Handle"
    BY <1>3, <1>4, <1>7, <1>9
  <2>2. c.fds = {n}
    BY <1>2, <1>9 DEF expected_fd_count
  <2>3. (CHOOSE f \in c.fds : TRUE) = n
    BY <2>2
  <2> HIDE DEF kind
  <2> QED BY <1>1, <1>9, <2>1, <2>3 DEF n, resp
<1> QED BY <1>8, <1>9

LEMMA FinishInStep == ASSUME Connection, Sync, Finish PROVE Sync'
<1> DEFINE n    == Len(served)
           resp == served[n][2]
<1>1. /\ c.pc = "payload" /\ Len(c.buf) = c.size /\ d2c' = d2c /\ Quiet
  BY FinishQuiet, Zenon DEF Finish
<1>2. /\ n \in 1 .. Len(served) /\ n = Len(asked) /\ asked[n] = <<c.call, c.ask>>
      /\ Verdict(c.ask, resp) /\ d2c = <<>> /\ (alive => d.pc = "poll")
  BY <1>1, FrameComplete
<1>3. served' = served /\ asked' = asked /\ alive' = alive /\ ClientOK(c)
  BY <1>1 DEF Quiet, Connection, Ends
<1>4. asked[n][1] = c.call
  BY <1>2
<1>5. ASSUME NEW kind, NEW fd, c' = Returned(kind, fd),
             kind = "Handle" => fd = n,
             kind \in {"InterlockNotFound", "AllocationFailed"} =>
                resp.tag = TAG_ERROR /\ parse_daemon_error(resp.code) = kind,
             kind \notin {"Truncated", "UnsupportedVersion", "UnknownTag", "InvalidUtf8",
                          "UnexpectedResponse", "ConnectionClosed", "Io"}
      PROVE  Sync'
  <2>1. c'.call = c.call /\ c'.res = <<kind, fd>>
    BY <1>3, <1>5, ReturnedFacts
  <2>2. c'.res[1] = kind /\ c'.res[2] = fd
    BY <2>1
  <2>3. ResultIsMine'
    <3>1. kind = "Handle" => fd \in 1 .. Len(served) /\ asked[fd][1] = c.call
      BY <1>2, <1>4, <1>5
    <3>2. kind \in {"InterlockNotFound", "AllocationFailed"} =>
             \E m \in 1 .. Len(served) : /\ asked[m][1] = c.call /\ served[m][2].tag = TAG_ERROR
                                         /\ parse_daemon_error(served[m][2].code) = kind
      BY <1>2, <1>4, <1>5
    <3> HIDE DEF n, resp
    <3> QED BY <1>3, <1>5, <2>1, <2>2, <3>1, <3>2 DEF ResultIsMine
  <2> QED BY <1>1, <1>2, <1>5, <2>3, ReturnsInStep
<1>6. CASE resp.tag # TAG_ERROR /\ c' = Returned("Handle", n)
  BY <1>5, <1>6
<1>7. CASE resp.tag # TAG_ERROR /\ c' = Returned("MmapFailed", 0)
  BY <1>5, <1>7
<1>8. CASE resp.tag = TAG_ERROR /\ c' = Returned(parse_daemon_error(resp.code), 0)
  <2> DEFINE kind == parse_daemon_error(resp.code)
  <2>1. resp.code \in {ERR_INTERLOCK_NOT_FOUND, ERR_ALLOCATION_FAILED, ERR_INVALID_REQUEST}
    BY <1>2, <1>8 DEF Verdict
  <2>2. kind \in {"InterlockNotFound", "AllocationFailed", "InvalidRequest"}
    BY <2>1, Codes
  <2>3. c' = Returned(kind, 0) /\ kind = parse_daemon_error(resp.code)
    BY <1>8
  <2> HIDE DEF kind
  <2> QED BY <1>5, <1>8, <2>2, <2>3
<1> QED BY <1>6, <1>7, <1>8, FinishSteps

(***************************************************************************)
(* The steps of the daemon.                                                *)
(***************************************************************************)
(* Where the client is when the daemon has a request to read. *)
LEMMA RequestWaits ==
    ASSUME Connection, Sync, alive, c.pc # "new",
           d.pc \in {"prefix", "payload"} \/ (d.pc = "poll" /\ c.pc # "closed" /\ c2d # <<>>)
    PROVE  c.pc = "closed" \/ Waiting
<1> SUFFICES ASSUME c.pc # "closed", ~Waiting PROVE FALSE
  OBVIOUS
<1>1. c.pc \in {"idle", "prefix", "rest", "payload"}
  BY DEF Waiting, Connection, Ends, ClientOK, ClientPc
<1>2. Len(served) = Len(asked)
  BY <1>1 DEF Sync, Waiting
<1>3. c2d = <<>>
  BY <1>2, NothingLeft
<1>4. d.pc \in {"poll", "write", "tell"}
  BY <1>1, <1>2 DEF Sync, Answered
<1> QED BY <1>3, <1>4

LEMMA ReadsInStep ==
    ASSUME Connection, Sync, Works, c.pc = "closed" \/ Waiting, d2c' = d2c,
           d'.pc \in {"prefix", "payload"}, Len(c2d') <= Len(c2d)
    PROVE  Sync'
<1>1. /\ c' = c /\ asked' = asked /\ served' = served /\ (alive' => alive)
      /\ c2d' \in Seq(Byte)
  BY DEF Works
<1>2. Len(c2d') <= LENGTH_PREFIX_BYTES + MAX_MESSAGE_SIZE
  <2>1. Len(c2d) <= LENGTH_PREFIX_BYTES + MAX_MESSAGE_SIZE
    BY DEF Sync
  <2>2. MAX_MESSAGE_SIZE \in Nat /\ LENGTH_PREFIX_BYTES = 4 /\ Len(c2d) \in Nat /\ Len(c2d') \in Nat
    BY <1>1, Limits, Lengths, LenProperties DEF LENGTH_PREFIX_BYTES
  <2> QED BY <2>1, <2>2
<1>3. CASE c.pc = "closed"
  BY <1>1, <1>2, <1>3 DEF Sync, Waiting
<1>4. CASE Waiting
  <2>1. /\ d2c = <<>> /\ c.pc \in {"send", "prefix"} /\ 0 < Len(asked)
        /\ asked[Len(asked)] = <<c.call, c.ask>> /\ (alive => Len(served) + 1 = Len(asked))
        /\ c.pc = "send" \/ Len(served) # Len(asked)
    BY <1>4 DEF Sync, Waiting
  <2> QED BY <1>1, <1>2, <2>1 DEF Sync, Waiting
<1> QED BY <1>3, <1>4

LEMMA ShrinksByRead ==
    ASSUME Connection, NEW n \in Nat, n <= Len(c2d), c2d' = Drop(c2d, n)
    PROVE  Len(c2d') <= Len(c2d)
<1> DEFINE x == Drop(c2d, n)
<1>1. Len(x) = Len(c2d) - n /\ Len(c2d) \in Nat
  BY DaemonFields, TakeFacts
<1>2. c2d' = x
  OBVIOUS
<1> HIDE DEF x
<1> QED BY <1>1, <1>2

LEMMA PollInInStep == ASSUME Connection, Sync, PollIn PROVE Sync'
<1>1. /\ alive /\ d.pc = "poll" /\ c.pc \notin {"new", "closed"} /\ c2d # <<>> /\ d'.pc = "prefix"
      /\ c2d' = c2d /\ d2c' = d2c
  BY DaemonFields DEF PollIn, Open
<1>2. Len(c2d') <= Len(c2d)
  BY <1>1, Lengths
<1>3. c.pc = "closed" \/ Waiting
  BY <1>1, RequestWaits
<1> QED BY <1>1, <1>2, <1>3, PollInConnection, ReadsInStep

LEMMA ReadPrefixInStep == ASSUME Connection, Sync, ReadPrefix PROVE Sync'
<1>1. d.pc = "prefix" /\ alive /\ Works /\ d2c' = d2c /\ d'.pc \in {"prefix", "payload"}
  BY ReadPrefixSteps
<1>2. Len(c2d') <= Len(c2d)
  BY ReadPrefixSteps, ShrinksByRead
<1>3. c.pc = "closed" \/ Waiting
  BY <1>1, DaemonFields, RequestWaits
<1> QED BY <1>1, <1>2, <1>3, ReadsInStep

LEMMA ReadRequestInStep == ASSUME Connection, Sync, ReadRequest PROVE Sync'
<1>1. d.pc = "payload" /\ alive /\ Works /\ d2c' = d2c /\ d'.pc \in {"prefix", "payload"}
  BY ReadRequestSteps
<1>2. Len(c2d') <= Len(c2d)
  BY ReadRequestSteps, ShrinksByRead
<1>3. c.pc = "closed" \/ Waiting
  BY <1>1, DaemonFields, RequestWaits
<1> QED BY <1>1, <1>2, <1>3, ReadsInStep

(* The client that waits has written its whole frame, which was the last. *)
LEMMA HandledWhole ==
    ASSUME Connection, Sync, HandleRequest, c.pc # "closed"
    PROVE  c.pc = "prefix" /\ Len(served) + 1 = Len(asked) /\ d2c = <<>>
           /\ asked[Len(asked)] = <<c.call, c.ask>>
<1>1. alive /\ d.pc = "payload" /\ Len(d.in) = d.size /\ c.pc # "new"
  BY HandleRequestSteps
<1>2. Waiting
  BY <1>1, RequestWaits
<1>3. /\ d2c = <<>> /\ c.pc \in {"send", "prefix"} /\ Len(served) + 1 = Len(asked)
      /\ asked[Len(asked)] = <<c.call, c.ask>>
  BY <1>1, <1>2 DEF Sync
<1>4. PICK full \in Seq(Byte), cut \in [0 .. Len(asked) -> Nat] :
          /\ Frames(full, cut, asked)
          /\ Placed(full, cut[Len(served)], Taken(d), c2d, c.out, c.pc)
  BY <1>1 DEF Connection, Stream
<1>5. Placed(full, cut[Len(served) + 1], <<>>, c2d, c.out, c.pc)
  BY <1>1, <1>4, FrameIsRequest
<1> DEFINE p == cut[Len(asked)]
           b == Len(c2d)
           e == Len(c.out)
<1>6. p + Len(<<>>) + b + e = Len(full) /\ p = Len(full)
  BY <1>3, <1>4, <1>5 DEF Placed, Frames
<1>7. Len(<<>>) = 0 /\ b \in Nat /\ e \in Nat /\ Len(full) \in Nat
  BY Lengths, EmptySeq, LenProperties
<1> HIDE DEF p, b
<1>8. e = 0
  <2> HIDE DEF e
  <2> QED BY <1>6, <1>7
<1>9. c.out = <<>>
  BY <1>8, DaemonFields, EmptySeq
<1>10. c.pc # "send"
  BY <1>9 DEF Connection, Ends, ClientOK
<1> QED BY <1>3, <1>10

LEMMA HandleRequestInStep == ASSUME Connection, Sync, HandleRequest PROVE Sync'
<1> DEFINE k == Len(served)
           r == asked[k + 1][2]
<1>1. /\ alive /\ d.out = <<>> /\ UNCHANGED <<alive, c2d, d2c, c, asked, lost>>
  BY HandleRequestSteps
<1>2. PICK resp \in Responses :
          /\ Verdict(r, resp) /\ served' = Append(served, <<Ok(r), resp>>)
          /\ d'.out = AnswerFrame(k + 1, resp) /\ d'.pc \in {"poll", "write", "tell"}
  BY HandleRequestSteps
<1>3. Len(c2d') <= LENGTH_PREFIX_BYTES + MAX_MESSAGE_SIZE
  BY <1>1 DEF Sync
<1>4. CASE c.pc = "closed"
  BY <1>1, <1>3, <1>4 DEF Sync, Waiting
<1>5. CASE c.pc # "closed"
  <2> DEFINE R == AnswerFrame(k + 1, resp)
  <2>1. c.pc = "prefix" /\ k + 1 = Len(asked) /\ d2c = <<>> /\ asked[Len(asked)] = <<c.call, c.ask>>
    BY <1>5, HandledWhole
  <2>2. k \in Nat /\ k + 1 \in Nat /\ 0 < k + 1
    BY Lengths
  <2>3. Len(served') = k + 1 /\ served'[k + 1] = <<Ok(r), resp>>
    <3> DEFINE T == {Ok(q) : q \in Encodable} \X Responses
    <3>1. r \in Encodable
      <4>1. asked[k + 1] \in Nat \X Encodable
        <5>1. k + 1 \in 1 .. Len(asked)
          BY <2>1, <2>2
        <5> QED BY <5>1, Lengths, ElementOfSeq
      <4> QED BY <4>1
    <3>2. <<Ok(r), resp>> \in T
      BY <3>1
    <3>3. served \in Seq(T)
      BY DEF Connection, History
    <3> HIDE DEF T
    <3> QED BY <1>2, <3>2, <3>3, AppendProperties
  <2>4. served'[k + 1][2] = resp
    BY <2>3
  <2>5. LastFrame' = R
    BY <2>3, <2>4 DEF LastFrame
  <2>6. R \in Seq(Tagged)
    <3>1. Answer(resp)
      BY <1>2 DEF Verdict
    <3> QED BY <2>2, <3>1, AnswerFrameFacts
  <2> DEFINE i == k + 1
  <2>7. Total' = R
    <3>1. Total' = <<>> \o R
      BY <1>1, <1>2, <2>1 DEF Total
    <3> HIDE DEF R
    <3>2. <<>> \o R = R
      BY <2>6, ConcatEmptySeq
    <3> QED BY <3>1, <3>2
  <2>8. Got(c') = <<>> /\ Len(<<>>) = 0 /\ <<>> \in Seq(Byte) /\ c'.pc = "prefix" /\ c'.fds = {}
    BY <1>1, <2>1, EmptySeq DEF Got, Connection, Ends, ClientOK
  <2>9. Len(R) \in Nat /\ 0 + Len(R) = Len(R)
    <3> HIDE DEF R
    <3>1. Len(R) \in Nat
      BY <2>6, LenProperties
    <3> QED BY <3>1
  <2> HIDE DEF R
  <2>10. At(R, 0, R)
    BY <2>6, AtSelf
  <2>11. At(Bytes(R), 0, <<>>)
    <3>1. Bytes(R) \in Seq(Byte) /\ Len(Bytes(R)) = Len(R)
      BY <2>6, BytesFacts
    <3>2. 0 \in Nat /\ 0 <= Len(Bytes(R))
      BY <2>9, <3>1
    <3> QED BY <3>1, <3>2, AtEmpty
  <2>12. Answered(LastFrame)'
    BY <1>2, <2>5, <2>7, <2>8, <2>9, <2>10, <2>11 DEF Answered
  <2>13. Len(served') = Len(asked')
    BY <1>1, <2>1, <2>3
  <2>14. 0 < Len(asked') /\ asked'[Len(asked')] = <<c'.call, c'.ask>>
    BY <1>1, <2>1, <2>2
  <2> QED BY <1>3, <2>8, <2>12, <2>13, <2>14 DEF Sync, Waiting
<1> QED BY <1>4, <1>5

LEMMA SendResponseInStep == ASSUME Connection, Sync, SendResponse PROVE Sync'
<1>1. /\ d.pc \in {"write", "tell"} /\ alive /\ UNCHANGED <<alive, c2d, c, asked, served, lost>>
      /\ c.pc # "closed" => Open /\ d'.pc \in {"poll", d.pc}
  BY SendResponseSteps
<1>2. Len(c2d') <= LENGTH_PREFIX_BYTES + MAX_MESSAGE_SIZE
  BY <1>1 DEF Sync
<1>3. CASE c.pc = "closed"
  BY <1>1, <1>2, <1>3 DEF Sync, Waiting
<1>4. CASE c.pc # "closed"
  <2>1. c.pc # "new"
    BY <1>1, <1>4 DEF Open
  <2>2. ~Waiting /\ c.pc # "idle"
    BY <1>1 DEF Sync
  <2>3. c.pc \in {"prefix", "rest", "payload"} /\ Len(served) = Len(asked)
    BY <1>4, <2>1, <2>2 DEF Waiting, Connection, Ends, ClientOK, ClientPc
  <2>4. Answered(LastFrame) /\ 0 < Len(asked) /\ asked[Len(asked)] = <<c.call, c.ask>>
    BY <2>3 DEF Sync
  <2>5. Total' = Total /\ LastFrame' = LastFrame /\ d'.pc \in {"poll", "write", "tell"}
    BY <1>1, <1>4, SendResponseTotal DEF LastFrame
  <2>6. Answered(LastFrame)'
    BY <1>1, <2>4, <2>5 DEF Answered
  <2> QED BY <1>1, <1>2, <2>3, <2>4, <2>6 DEF Sync, Waiting
<1> QED BY <1>3, <1>4

LEMMA DaemonDiesInStep == ASSUME Connection, Sync, DaemonDies PROVE Sync'
<1>1. ~alive' /\ d'.out = <<>> /\ UNCHANGED <<c2d, d2c, c, asked, served, lost>>
  BY DEF DaemonDies
<1>2. d2c \in Seq(Tagged) /\ d.out \in Seq(Tagged)
  BY DaemonFields
<1>3. Total' = d2c
  <2>1. d2c \o <<>> = d2c
    BY <1>2, ConcatEmptySeq
  <2> QED BY <1>1, <2>1 DEF Total
<1>4. ASSUME c.pc \in {"prefix", "rest", "payload"}, Len(served) = Len(asked)
      PROVE  Answered(LastFrame)'
  <2> DEFINE R == LastFrame
             p == Len(Got(c))
  <2>1. Answered(R) /\ 0 < Len(served)
    BY <1>4 DEF Sync
  <2>2. R \in Seq(Tagged)
    BY <2>1, LastFrameFacts
  <2>3. p \in Nat
    BY <1>4, GotFacts
  <2>4. At(R, p, d2c \o d.out)
    BY <2>1 DEF Answered, Total
  <2> HIDE DEF R, p
  <2>5. At(R, p, d2c)
    BY <1>2, <2>2, <2>3, <2>4, AtConcat
  <2>6. R' = R
    BY <1>1 DEF R, LastFrame
  <2>7. Answered(R)'
    BY <1>1, <1>3, <2>1, <2>5, <2>6 DEF Answered, p
  <2> QED BY <2>7 DEF R
<1>5. ResultIsMine => ResultIsMine'
  BY <1>1 DEF ResultIsMine
<1> QED BY <1>1, <1>4, <1>5 DEF Sync, Waiting

LEMMA InitInStep == Init => InStep
<1> SUFFICES ASSUME Init PROVE InStep
  OBVIOUS
<1>1. c.pc = "new" /\ c2d = <<>>
  BY DEF Init
<1>2. Len(c2d) = 0 /\ MAX_MESSAGE_SIZE \in Nat /\ LENGTH_PREFIX_BYTES = 4
  BY <1>1, EmptySeq, Limits DEF LENGTH_PREFIX_BYTES
<1>3. Len(c2d) <= LENGTH_PREFIX_BYTES + MAX_MESSAGE_SIZE
  BY <1>2
<1> QED BY <1>1, <1>3 DEF InStep, Sync, Waiting

LEMMA NextInStep == Connection /\ InStep /\ [Next]_vars => InStep'
<1> SUFFICES ASSUME Connection, InStep, [Next]_vars, ~lost' PROVE Sync'
  BY DEF InStep
<1>0. ~lost
  <2>1. lost \in BOOLEAN
    BY DEF Connection, Ends
  <2>2. lost' = lost \/ lost'
    <3>1. CASE ReadRest
      <4> DEFINE ended == EndOfStream(TRUE)
      <4> HIDE DEF ended
      <4>1. CASE ended
        BY <4>1 DEF ended, EndOfStream
      <4>2. CASE ~ended
        BY <3>1, <4>2, ReadRestFacts DEF ended
      <4> QED BY <4>1, <4>2
    <3>2. CASE ReadPayload
      <4> DEFINE ended == EndOfStream(TRUE)
      <4> HIDE DEF ended
      <4>1. CASE ended
        BY <4>1 DEF ended, EndOfStream
      <4>2. CASE ~ended
        BY <3>2, <4>2, ReadPayloadFacts DEF ended
      <4> QED BY <4>1, <4>2
    <3>3. CASE RecvPrefix
      <4> DEFINE ended == EndOfStream(FALSE)
      <4> HIDE DEF ended
      <4>1. CASE ended
        BY <4>1 DEF ended, EndOfStream
      <4>2. CASE ~ended
        BY <3>3, <4>2, RecvMsgFacts DEF ended
      <4> QED BY <4>1, <4>2
    <3>4. CASE Connect \/ SendFrame \/ Finish
      BY <3>4, Zenon DEF Connect, SendFrame, Finish
    <3>5. CASE Call \/ ClientCloses \/ DaemonDies \/ UNCHANGED vars
      BY <3>5, Zenon DEF Call, ClientCloses, DaemonDies, vars
    <3>6. CASE DaemonStep
      BY <3>6, Zenon DEF DaemonStep, PollHangup, PollIn, ReadPrefix, ReadRequest, TruncatedFrame,
                         HandleRequest, SendResponse
    <3> QED BY <3>1, <3>2, <3>3, <3>4, <3>5, <3>6 DEF Next, ClientStep
  <2> QED BY <2>1, <2>2
<1>s. Sync
  BY <1>0 DEF InStep
<1>a. ASSUME c.pc = "closed", c' = c, c2d' = c2d PROVE Sync'
  BY <1>s, <1>a DEF Sync, Waiting
<1>1. CASE Connect
  BY <1>1, <1>s, ConnectInStep
<1>2. CASE SendFrame
  BY <1>2, <1>s, SendFrameInStep
<1>3. CASE RecvPrefix
  BY <1>3, <1>s, RecvPrefixInStep
<1>4. CASE ReadRest
  BY <1>4, <1>s, ReadRestInStep
<1>5. CASE ReadPayload
  BY <1>5, <1>s, ReadPayloadInStep
<1>6. CASE Finish
  BY <1>6, <1>s, FinishInStep
<1>7. CASE Call
  BY <1>7, <1>s, CallInStep
<1>8. CASE ClientCloses
  BY <1>8, <1>s, ClosesInStep
<1>9. CASE PollHangup
  BY <1>9, <1>a DEF PollHangup
<1>10. CASE PollIn
  BY <1>10, <1>s, PollInInStep
<1>11. CASE ReadPrefix
  BY <1>11, <1>s, ReadPrefixInStep
<1>12. CASE ReadRequest
  BY <1>12, <1>s, ReadRequestInStep
<1>13. CASE TruncatedFrame
  <2>1. c.pc \in {"new", "closed"} /\ c' = c /\ c2d' = c2d /\ alive /\ d.pc \in {"prefix", "payload"}
    BY <1>13 DEF TruncatedFrame, Open
  <2>2. c.pc = "closed"
    BY <2>1, DaemonFields
  <2> QED BY <1>a, <2>1, <2>2
<1>14. CASE HandleRequest
  BY <1>14, <1>s, HandleRequestInStep
<1>15. CASE SendResponse
  BY <1>15, <1>s, SendResponseInStep
<1>16. CASE DaemonDies
  BY <1>16, <1>s, DaemonDiesInStep
<1>17. CASE UNCHANGED vars
  BY <1>17, <1>s DEF vars, Sync, Waiting, Answered, Total, Got, LastFrame, ResultIsMine
<1> QED BY <1>1, <1>2, <1>3, <1>4, <1>5, <1>6, <1>7, <1>8, <1>9, <1>10, <1>11, <1>12, <1>13,
           <1>14, <1>15, <1>16, <1>17 DEF Next, ClientStep, DaemonStep

LEMMA InStepHolds == Spec => []InStep
BY InitInStep, NextInStep, ConnectionHolds, PTL DEF Spec

LEMMA TypesFromInvariant == Connection /\ Spaced /\ InStep => TypeOK
<1> SUFFICES ASSUME Connection, Spaced, InStep PROVE TypeOK
  OBVIOUS
<1>1. Ends /\ History
  BY DEF Connection
<1>2. /\ alive \in BOOLEAN /\ lost \in BOOLEAN
      /\ c.pc \in {"new", "idle", "send", "prefix", "rest", "payload", "closed"}
      /\ c.call \in 0 .. Len(Asks) /\ Len(served) <= Len(asked)
  BY <1>1 DEF Ends, ClientOK, ClientPc, History
<1>3. d.pc \in {"poll", "prefix", "payload", "write", "tell", "removed", "dead"}
  BY <1>1 DEF Ends, DaemonOK, DaemonPc
<1>4. Cardinality(c.fds) <= 1
  <2>1. Single(c.fds)
    BY <1>1 DEF Spaced, Ends, ClientOK, Single
  <2>2. c.fds = {} => Cardinality(c.fds) = 0
    BY FS_EmptySet
  <2>3. \A x : c.fds = {x} => Cardinality(c.fds) = 1
    BY FS_Singleton
  <2>4. Cardinality(c.fds) \in {0, 1}
    BY <2>1, <2>2, <2>3 DEF Single
  <2> QED BY <2>4
<1>5. \A i \in DOMAIN c2d : c2d[i] \in Byte
  <2>1. c2d \in Seq(Byte)
    BY <1>1 DEF Ends
  <2>2. DOMAIN c2d = 1 .. Len(c2d)
    BY <2>1, LenProperties
  <2> QED BY <2>1, <2>2, ElementOfSeq
<1>6. \A i \in DOMAIN d2c : d2c[i][1] \in Byte
  <2>1. d2c \in Seq(Tagged)
    BY <1>1 DEF Ends
  <2>2. DOMAIN d2c = 1 .. Len(d2c)
    BY <2>1, LenProperties
  <2>3. \A i \in DOMAIN d2c : d2c[i] \in Tagged
    BY <2>1, <2>2, ElementOfSeq
  <2> QED BY <2>3 DEF Tagged
<1>7. lost \/ Len(c2d) <= LENGTH_PREFIX_BYTES + MAX_MESSAGE_SIZE
  BY DEF InStep, Sync
<1> QED BY <1>2, <1>3, <1>4, <1>5, <1>6, <1>7 DEF TypeOK

(***************************************************************************)
(* Type correctness; a client holds at most one descriptor, however many   *)
(* answers lie on its socket, and unless one was lost the daemon never has *)
(* more than one frame to read.                                            *)
(***************************************************************************)
THEOREM SessionTypes == Spec => []TypeOK
BY ConnectionHolds, SpacedHolds, InStepHolds, TypesFromInvariant, PTL

LEMMA MineFromInvariant == Connection /\ InStep => AnswerIsMine
<1> SUFFICES ASSUME Connection, InStep, c.pc = "idle", ~lost
             PROVE  LET mine == {n \in DOMAIN served : asked[n][1] = c.call}
                    IN  /\ c.res[1] = "Handle" => c.res[2] \in mine
                        /\ c.res[1] \in {"InterlockNotFound", "AllocationFailed"} =>
                              \E n \in mine : served[n][2].tag = TAG_ERROR
                                              /\ parse_daemon_error(served[n][2].code) = c.res[1]
                        /\ c.res[1] \in {"Truncated", "UnsupportedVersion", "UnknownTag",
                                         "InvalidUtf8", "UnexpectedResponse", "ConnectionClosed",
                                         "Io"} => ~alive
                        /\ is_connected <=> alive
  BY Zenon DEF AnswerIsMine
<1>1. d2c = <<>> /\ ResultIsMine
  BY DEF InStep, Sync
<1>2. DOMAIN served = 1 .. Len(served)
  BY LenProperties DEF Connection, History
<1>3. is_connected <=> alive
  BY <1>1 DEF is_connected
<1> QED BY <1>1, <1>2, <1>3, Zenon DEF ResultIsMine

(***************************************************************************)
(* A call returns the answer to its own request, whatever calls, deaths    *)
(* and cuts of the byte streams came before, as long as the kernel dropped *)
(* no descriptor: a handle is the interlock made or found for it, an error *)
(* the daemon's verdict on it, and a protocol fault or a lost connection   *)
(* means that the daemon is gone.                                          *)
(***************************************************************************)
THEOREM AnswersAreMine == Spec => []AnswerIsMine
BY ConnectionHolds, InStepHolds, MineFromInvariant, PTL

(***************************************************************************)
(* Every request the client can build and encode_request accepts, the      *)
(* daemon reads back from its frame: the prefix is within the limit and is *)
(* the length of the rest, and decode_request of the rest is the request,  *)
(* with all its names, numbers and conditions.                             *)
(***************************************************************************)
THEOREM RequestRoundTrip ==
    ASSUME NEW req \in Requests, ~Failed(encode_request(req))
    PROVE  LET frame == encode_request(req).value
               prefix == SubSeq(frame, 1, LENGTH_PREFIX_BYTES)
           IN  /\ ~TooLarge(prefix)
               /\ from_le_bytes(prefix) = Len(Drop(frame, LENGTH_PREFIX_BYTES))
               /\ decode_request(Drop(frame, LENGTH_PREFIX_BYTES)) = Ok(req)
<1> DEFINE F == encode_request(req).value
           P == Payload(req)
           h == SubSeq(F, 1, 4)
           v == Drop(F, 4)
<1>1. req \in Encodable
  BY DEF Encodable, Failed
<1>2. F = FrameBytes(P) /\ P \in Seq(Byte) /\ Len(P) <= MAX_MESSAGE_SIZE /\ decode_request(P) = Ok(req)
  BY <1>1, EncodableFacts
<1> HIDE DEF F, P
<1>3. F \in Seq(Byte) /\ Len(F) = 4 + Len(P) /\ Len(P) \in Nat
  BY <1>2, FrameFacts
<1>4. 4 \in Nat /\ 4 <= Len(F) /\ 0 \in Nat /\ 0 + 4 = 4
  BY <1>3
<1>5. h \in Seq(Byte) /\ Len(h) = 4 /\ v \in Seq(Byte) /\ Len(v) = Len(F) - 4
  BY <1>3, <1>4, TakeFacts
<1>6. At(F, 0, h) /\ At(F, 4, v)
  <2>1. At(F, 0, F)
    BY <1>3, AtSelf
  <2>2. At(F, 0, h) /\ At(F, 0 + 4, v)
    BY <1>3, <1>4, <2>1, AtTake
  <2> QED BY <1>4, <2>2
<1> HIDE DEF h, v
<1>7. /\ ~TooLarge(h) /\ from_le_bytes(h) = Len(P)
      /\ h = to_le_bytes(Len(P), LENGTH_PREFIX_BYTES)
  BY <1>2, <1>5, <1>6, PrefixOfAnswer
<1>8. At(F, 4, P)
  <2>1. F = h \o P
    BY <1>2, <1>7 DEF FrameBytes
  <2>2. At(F, Len(h), P)
    BY <1>2, <1>5, <2>1, ConcatAt
  <2> QED BY <1>5, <2>2
<1>9. Len(v) = Len(P)
  BY <1>3, <1>5
<1>10. v = P
  BY <1>2, <1>3, <1>4, <1>5, <1>6, <1>8, <1>9, AtSame
<1>11. LENGTH_PREFIX_BYTES = 4
  BY DEF LENGTH_PREFIX_BYTES
<1> QED BY <1>2, <1>7, <1>10, <1>11 DEF F, h, v
=============================================================================

--------------------------- MODULE ServiceProofs ---------------------------
(***************************************************************************)
(* Proofs about Service, for every number of daemons, of clients and of    *)
(* requests.  Without removes by recursion along the table; what it leaves *)
(* is proved by the least counterexample.                                  *)
(***************************************************************************)
EXTENDS StartupProofs, SequenceTheorems, WellFoundedInduction, FiniteSetTheorems

(***************************************************************************)
(* The removal of the closed connections.                                  *)
(***************************************************************************)

(* A set of numbers that is not empty has a least element. *)
LEMMA LeastElement ==
    ASSUME NEW T, T \subseteq Nat, T # {}
    PROVE  \E x \in T : \A y \in T : x <= y
<1>1. PICK x \in T : \A y \in T : ~ (<<y, x>> \in OpToRel(<, Nat))
  BY NatLessThanWellFounded, WFMin
<1>2. \A y \in T : ~ (y < x)
  BY <1>1 DEF OpToRel
<1> QED BY <1>2

(* clients.remove(idx): the entries behind move up by one. *)
LEMMA RemoveAtProperties ==
    ASSUME NEW S, NEW s \in Seq(S), NEW n \in 1 .. Len(s)
    PROVE  /\ RemoveAt(s, n) \in Seq(S)
           /\ Len(RemoveAt(s, n)) = Len(s) - 1
           /\ \A i \in 1 .. Len(s) - 1 : RemoveAt(s, n)[i] = IF i < n THEN s[i] ELSE s[i + 1]
<1> DEFINE a == SubSeq(s, 1, n - 1)
           b == SubSeq(s, n + 1, Len(s))
<1>0. Len(s) \in Nat /\ n \in Nat /\ \A i \in 1 .. Len(s) : s[i] \in S
  BY LenProperties
<1>1. a \in Seq(S) /\ Len(a) = n - 1 /\ \A i \in 1 .. n - 1 : a[i] = s[i]
  BY <1>0, SubSeqProperties
<1>2. b \in Seq(S) /\ Len(b) = Len(s) - n /\ \A i \in 1 .. Len(s) - n : b[i] = s[n + i]
  BY <1>0, SubSeqProperties
<1> HIDE DEF a, b
<1>3. /\ a \o b \in Seq(S) /\ Len(a \o b) = Len(a) + Len(b)
      /\ \A i \in 1 .. Len(a) + Len(b) : (a \o b)[i] = IF i <= Len(a) THEN a[i] ELSE b[i - Len(a)]
  BY <1>1, <1>2, ConcatProperties
<1>4. RemoveAt(s, n) = a \o b
  BY DEF RemoveAt, a, b
<1>5. ASSUME NEW i \in 1 .. Len(s) - 1 PROVE (a \o b)[i] = IF i < n THEN s[i] ELSE s[i + 1]
  <2>1. (a \o b)[i] = IF i <= n - 1 THEN a[i] ELSE b[i - (n - 1)]
    BY <1>0, <1>1, <1>2, <1>3
  <2>2. CASE i < n
    BY <1>0, <1>1, <2>1, <2>2
  <2>3. CASE ~(i < n)
    <3>1. i - (n - 1) \in 1 .. Len(s) - n /\ n + (i - (n - 1)) = i + 1
      BY <1>0, <2>3
    <3>2. b[i - (n - 1)] = s[n + (i - (n - 1))]
      BY <1>2, <3>1
    <3> QED BY <1>0, <2>1, <2>3, <3>1, <3>2
  <2> QED BY <2>2, <2>3
<1>6. Len(a) + Len(b) = Len(s) - 1
  BY <1>0, <1>1, <1>2
<1> HIDE DEF RemoveAt
<1>7. RemoveAt(s, n) \in Seq(S) /\ Len(RemoveAt(s, n)) = Len(s) - 1
  BY <1>3, <1>4, <1>6
<1>8. \A i \in 1 .. Len(s) - 1 : RemoveAt(s, n)[i] = IF i < n THEN s[i] ELSE s[i + 1]
  BY <1>4, <1>5
<1> QED BY <1>7, <1>8

(* One removal, and the sequences that Without passes through from the     *)
(* back of s to index m.                                                   *)
StepBack(s, removed, f, n) ==
    IF n = Len(s) + 1 THEN s ELSE IF n \in removed THEN RemoveAt(f[n + 1], n) ELSE f[n + 1]

Leftover(s, removed) ==
    CHOOSE f : f = [n \in 1 .. Len(s) + 1 |-> StepBack(s, removed, f, n)]

Solves(s, removed, m, f) == f = [n \in m .. Len(s) + 1 |-> StepBack(s, removed, f, n)]

LEMMA WithoutIsLeftover ==
    ASSUME NEW s, NEW removed PROVE Without(s, removed) = Leftover(s, removed)[1]
BY DEF Without, Leftover, StepBack

(* The recursion has a solution: on the last index, and, given one from an *)
(* index on, from the index before.                                        *)
LEMMA LeftoverExists ==
    ASSUME NEW S, NEW s \in Seq(S), NEW removed
    PROVE  Solves(s, removed, 1, Leftover(s, removed))
<1> DEFINE N == Len(s)
           Bad == {j \in Nat : j <= N /\ ~ \E f : Solves(s, removed, N + 1 - j, f)}
<1>0. N \in Nat
  BY LenProperties
<1>1. \E f : Solves(s, removed, N + 1, f)
  <2> DEFINE f == [n \in N + 1 .. N + 1 |-> s]
  <2>1. \A n \in N + 1 .. N + 1 : StepBack(s, removed, f, n) = s
    BY <1>0 DEF StepBack
  <2> QED BY <2>1 DEF Solves
<1>2. ASSUME NEW j \in Nat, j < N, NEW g, Solves(s, removed, N + 1 - j, g)
      PROVE  \E f : Solves(s, removed, N - j, f)
  <2> DEFINE f == [n \in N - j .. N + 1 |-> IF n = N - j THEN StepBack(s, removed, g, n) ELSE g[n]]
  <2>1. ASSUME NEW n \in N - j .. N + 1 PROVE f[n] = StepBack(s, removed, f, n)
    <3>1. CASE n = N + 1
      <4>0. N + 1 \in N + 1 - j .. N + 1
        BY <1>0
      <4>1. g[N + 1] = StepBack(s, removed, g, N + 1)
        BY <1>2, <4>0 DEF Solves
      <4>2. f[N + 1] = g[N + 1]
        BY <1>0, <1>2
      <4> QED BY <3>1, <4>1, <4>2 DEF StepBack
    <3>2. CASE n # N + 1
      <4>1. n + 1 \in N - j .. N + 1 /\ n + 1 # N - j
        BY <1>0, <1>2, <3>2
      <4>2. f[n + 1] = g[n + 1]
        BY <4>1
      <4>3. f[n] = StepBack(s, removed, g, n)
        <5>1. CASE n = N - j
          BY <5>1
        <5>2. CASE n # N - j
          <6>1. n \in N + 1 - j .. N + 1
            BY <1>0, <1>2, <5>2
          <6>2. g[n] = StepBack(s, removed, g, n)
            BY <1>2, <6>1 DEF Solves
          <6> QED BY <5>2, <6>2
        <5> QED BY <5>1, <5>2
      <4> HIDE DEF f
      <4> QED BY <3>2, <4>2, <4>3 DEF StepBack
    <3> QED BY <3>1, <3>2
  <2>2. f = [n \in N - j .. N + 1 |-> f[n]]
    OBVIOUS
  <2> HIDE DEF f
  <2>3. f = [n \in N - j .. N + 1 |-> StepBack(s, removed, f, n)]
    BY <2>1, <2>2
  <2> QED BY <2>3 DEF Solves
<1>3. Bad = {}
  <2> SUFFICES ASSUME Bad # {} PROVE FALSE
    OBVIOUS
  <2>1. PICK j \in Bad : \A i \in Bad : j <= i
    BY LeastElement
  <2>2. j # 0
    BY <1>0, <1>1
  <2>3. j - 1 \in Nat /\ j - 1 < N /\ ~(j <= j - 1)
    BY <1>0, <2>2
  <2>4. \E g : Solves(s, removed, N + 1 - (j - 1), g)
    BY <2>1, <2>3
  <2>5. \E f : Solves(s, removed, N - (j - 1), f)
    BY <1>2, <2>3, <2>4
  <2>6. N - (j - 1) = N + 1 - j
    BY <1>0
  <2> QED BY <2>5, <2>6
<1>4. \E f : Solves(s, removed, 1, f)
  <2>1. N \notin Bad
    BY <1>3
  <2>2. N + 1 - N = 1
    BY <1>0
  <2> QED BY <1>0, <2>1, <2>2
<1> QED BY <1>4 DEF Solves, Leftover

(* What is left when the removals have come down to index n: the entries   *)
(* before n are where they were, nobody else's and nobody twice, and all   *)
(* that were not to go are there.                                          *)
Distinct(s) == \A i, j \in 1 .. Len(s) : s[i] = s[j] => i = j

Remains(s, removed, n, r) ==
    /\ n - 1 <= Len(r)
    /\ \A i \in 1 .. n - 1 : r[i] = s[i]
    /\ Distinct(r)
    /\ \A i \in 1 .. Len(r) : \E j \in 1 .. Len(s) : r[i] = s[j]
    /\ \A j \in 1 .. Len(s) : j < n \/ j \notin removed => \E i \in 1 .. Len(r) : r[i] = s[j]

(* The entry at n goes, and it is the one that was there in the first      *)
(* place: the removals so far were all behind it.                          *)
LEMMA RemainsStep ==
    ASSUME NEW S, NEW s \in Seq(S), Distinct(s), NEW removed, NEW n \in 1 .. Len(s),
           NEW r \in Seq(S), Remains(s, removed, n + 1, r), n \in removed
    PROVE  RemoveAt(r, n) \in Seq(S) /\ Remains(s, removed, n, RemoveAt(r, n))
<1> DEFINE q == RemoveAt(r, n)
<1>0. Len(s) \in Nat /\ Len(r) \in Nat /\ n \in Nat /\ n <= Len(r)
  BY LenProperties DEF Remains
<1>1. /\ q \in Seq(S) /\ Len(q) = Len(r) - 1
      /\ \A i \in 1 .. Len(r) - 1 : q[i] = IF i < n THEN r[i] ELSE r[i + 1]
  BY <1>0, RemoveAtProperties
<1> HIDE DEF q
<1>2. \A i \in 1 .. n : r[i] = s[i]
  BY <1>0 DEF Remains
<1>3. n - 1 <= Len(q) /\ \A i \in 1 .. n - 1 : q[i] = s[i]
  <2>1. \A i \in 1 .. n - 1 : i \in 1 .. Len(r) - 1 /\ i < n /\ i \in 1 .. n
    BY <1>0
  <2>2. n - 1 <= Len(q)
    BY <1>0, <1>1
  <2> QED BY <1>1, <1>2, <2>1, <2>2
<1>4. \A i \in 1 .. Len(q) : \E h \in 1 .. Len(r) : q[i] = r[h] /\ h # n /\ h = IF i < n THEN i ELSE i + 1
  BY <1>0, <1>1
<1>5. Distinct(q)
  <2> SUFFICES ASSUME NEW i \in 1 .. Len(q), NEW j \in 1 .. Len(q), q[i] = q[j] PROVE i = j
    BY DEF Distinct
  <2>1. PICK h \in 1 .. Len(r) : q[i] = r[h] /\ h = IF i < n THEN i ELSE i + 1
    BY <1>4
  <2>2. PICK g \in 1 .. Len(r) : q[j] = r[g] /\ g = IF j < n THEN j ELSE j + 1
    BY <1>4
  <2>3. h = g
    BY <2>1, <2>2 DEF Remains, Distinct
  <2> QED BY <1>0, <1>1, <2>1, <2>2, <2>3
<1>6. \A i \in 1 .. Len(q) : \E j \in 1 .. Len(s) : q[i] = s[j]
  <2>1. \A h \in 1 .. Len(r) : \E j \in 1 .. Len(s) : r[h] = s[j]
    BY DEF Remains
  <2> QED BY <1>4, <2>1
<1>7. ASSUME NEW j \in 1 .. Len(s), j < n \/ j \notin removed
      PROVE  \E i \in 1 .. Len(q) : q[i] = s[j]
  <2>1. j # n /\ (j < n + 1 \/ j \notin removed)
    BY <1>0, <1>7
  <2>2. PICK h \in 1 .. Len(r) : r[h] = s[j]
    BY <2>1 DEF Remains
  <2>3. h # n
    BY <1>0, <1>2, <2>1, <2>2 DEF Distinct
  <2>4. CASE h < n
    <3>1. h \in 1 .. Len(q) /\ q[h] = r[h]
      BY <1>0, <1>1, <2>4
    <3> QED BY <2>2, <3>1
  <2>5. CASE h > n
    <3>1. h - 1 \in 1 .. Len(q) /\ h - 1 \in 1 .. Len(r) - 1 /\ ~(h - 1 < n) /\ (h - 1) + 1 = h
      BY <1>0, <1>1, <2>5
    <3>2. q[h - 1] = r[h]
      BY <1>1, <3>1
    <3> QED BY <2>2, <3>1, <3>2
  <2> QED BY <1>0, <2>3, <2>4, <2>5
<1>8. Remains(s, removed, n, q)
  BY <1>3, <1>5, <1>6, <1>7 DEF Remains
<1> QED BY <1>1, <1>8 DEF q

(* Without: the removals from the back, whatever indices are to go. *)
LEMMA WithoutRemains ==
    ASSUME NEW S, NEW s \in Seq(S), Distinct(s), NEW removed
    PROVE  Without(s, removed) \in Seq(S) /\ Remains(s, removed, 1, Without(s, removed))
<1> DEFINE N == Len(s)
           f == Leftover(s, removed)
           Good(n) == f[n] \in Seq(S) /\ Remains(s, removed, n, f[n])
           Bad == {j \in Nat : j <= N /\ ~Good(N + 1 - j)}
<1>0. N \in Nat
  BY LenProperties
<1>1. f = [n \in 1 .. N + 1 |-> StepBack(s, removed, f, n)]
  BY LeftoverExists DEF Solves
<1> HIDE DEF f
<1>2. Good(N + 1)
  <2>1. f[N + 1] = s
    BY <1>0, <1>1 DEF StepBack
  <2>2. Remains(s, removed, N + 1, s)
    BY <1>0 DEF Remains
  <2> QED BY <2>1, <2>2
<1>3. ASSUME NEW n \in 1 .. N, Good(n + 1) PROVE Good(n)
  <2>1. f[n] = IF n \in removed THEN RemoveAt(f[n + 1], n) ELSE f[n + 1]
    BY <1>0, <1>1 DEF StepBack
  <2>2. CASE n \in removed
    BY <1>3, <2>1, <2>2, RemainsStep
  <2>3. CASE n \notin removed
    <3>1. Remains(s, removed, n, f[n + 1])
      BY <1>0, <1>3, <2>3 DEF Remains
    <3> QED BY <1>3, <2>1, <2>3, <3>1
  <2> QED BY <2>2, <2>3
<1> HIDE DEF Good
<1>4. Bad = {}
  <2> SUFFICES ASSUME Bad # {} PROVE FALSE
    OBVIOUS
  <2>1. PICK j \in Bad : \A i \in Bad : j <= i
    BY LeastElement
  <2>2. j # 0
    BY <1>0, <1>2
  <2>3. j - 1 \in Nat /\ j - 1 <= N /\ ~(j <= j - 1) /\ N + 1 - j \in 1 .. N
        /\ N + 1 - (j - 1) = (N + 1 - j) + 1
    BY <1>0, <2>2
  <2>4. Good(N + 1 - (j - 1))
    BY <2>1, <2>3
  <2>5. Good(N + 1 - j)
    BY <1>3, <2>3, <2>4
  <2> QED BY <2>5
<1>5. Good(1)
  <2>1. N \notin Bad
    BY <1>4
  <2>2. N + 1 - N = 1
    BY <1>0
  <2> QED BY <1>0, <2>1, <2>2
<1> QED BY <1>5, WithoutIsLeftover DEF Good, f

(***************************************************************************)
(* The invariant: OpenIsHeld says nothing of how a connection gets to be   *)
(* where it is, nor of what the indices in to_remove stand for.            *)
(***************************************************************************)
States == {"new", "asking", "answered", "mute", "idle", "failed", "closed"}
OpenStates == {"asking", "answered", "mute", "idle"}
Bound == {"registry", "loop", "exited", "crashed"}

(* The types, those of functions, records and sequences too. *)
ShapeInv ==
    /\ link \in [Links -> [to : Daemons \cup {Nothing}, st : States, requests : Nat]]
    /\ table \in [Daemons -> Seq(Links)] /\ backlog \in [Daemons -> Seq(Links)]
    /\ lpc \in [Daemons -> {"poll", "accept", "serve"}]
    /\ polled \in [Daemons -> Seq({"hup", "in", "none"})]
    /\ at \in [Daemons -> Nat] /\ removing \in [Daemons -> SUBSET Nat]

(* The loop: between two cycles nothing is polled; an entry that hung up   *)
(* or is to go has been closed by its client.                              *)
LoopInv ==
    \A d \in Daemons :
        /\ Len(polled[d]) <= Len(table[d])
        /\ at[d] \in 1 .. Len(polled[d]) + 1 /\ removing[d] \subseteq 1 .. at[d] - 1
        /\ lpc[d] = "poll" => polled[d] = <<>>
        /\ \A i \in 1 .. Len(polled[d]) : polled[d][i] = "hup" \/ i \in removing[d]
                                             => link[table[d][i]].st = "closed"

(* A connection that is held is that of a link to this daemon, in one      *)
(* place only.                                                             *)
PlaceInv ==
    \A d \in Daemons :
        /\ Distinct(table[d]) /\ Distinct(backlog[d])
        /\ \A i \in 1 .. Len(table[d]) : link[table[d][i]].to = d /\ link[table[d][i]].st # "new"
        /\ \A i \in 1 .. Len(backlog[d]) : link[backlog[d][i]].to = d /\ link[backlog[d][i]].st # "new"
        /\ \A i \in 1 .. Len(table[d]), j \in 1 .. Len(backlog[d]) : table[d][i] # backlog[d][j]

(* The links: nobody is connected to a daemon that has not listened yet,   *)
(* and the probe of a daemon is made once, in its start.                   *)
LinkInv ==
    /\ \A k \in Clients : link[k].requests <= MaxRequests[k]
    /\ \A k \in Links : /\ link[k].st \in OpenStates => link[k].to \in Daemons
                        /\ link[k].to \in Daemons => pc[link[k].to] \in Bound
    /\ \A d \in Daemons : pc[d] \in {"off", "stat", "probe"} => link[d].st = "new"

(* The first half of OpenIsHeld. *)
OpenInv ==
    \A k \in Clients, d \in Daemons :
        link[k].st \in OpenStates /\ link[k].to = d /\ Listening(d)
            => In(k, table[d]) \/ In(k, backlog[d])

ServiceInv == ShapeInv /\ LoopInv /\ PlaceInv /\ LinkInv /\ OpenInv

LEMMA ConstantFacts ==
    /\ Clients \subseteq Links /\ Daemons \subseteq Links
    /\ Clients \cap Daemons = {} /\ Nothing \notin Daemons
    /\ \A k \in Clients : MaxRequests[k] \in Nat /\ MaxRequests[k] >= 1
BY ServiceAssumption, StartupAssumption DEF Links

LEMMA ShapeFacts ==
    ASSUME ShapeInv
    PROVE  /\ \A k \in Links : /\ link[k].to \in Daemons \cup {Nothing}
                               /\ link[k].st \in States /\ link[k].requests \in Nat
           /\ \A d \in Daemons :
                 /\ table[d] \in Seq(Links) /\ Len(table[d]) \in Nat /\ DOMAIN table[d] = 1 .. Len(table[d])
                 /\ \A i \in 1 .. Len(table[d]) : table[d][i] \in Links
                 /\ backlog[d] \in Seq(Links) /\ Len(backlog[d]) \in Nat
                 /\ DOMAIN backlog[d] = 1 .. Len(backlog[d])
                 /\ \A i \in 1 .. Len(backlog[d]) : backlog[d][i] \in Links
                 /\ polled[d] \in Seq({"hup", "in", "none"}) /\ Len(polled[d]) \in Nat
                 /\ at[d] \in Nat /\ removing[d] \subseteq Nat
<1>1. \A k \in Links : /\ link[k].to \in Daemons \cup {Nothing}
                       /\ link[k].st \in States /\ link[k].requests \in Nat
  BY DEF ShapeInv
<1>2. ASSUME NEW d \in Daemons
      PROVE  /\ table[d] \in Seq(Links) /\ backlog[d] \in Seq(Links)
             /\ polled[d] \in Seq({"hup", "in", "none"})
             /\ at[d] \in Nat /\ removing[d] \subseteq Nat
  BY DEF ShapeInv
<1>3. \A S : \A s \in Seq(S) : /\ Len(s) \in Nat /\ DOMAIN s = 1 .. Len(s)
                               /\ \A i \in 1 .. Len(s) : s[i] \in S
  BY LenProperties
<1> QED BY <1>1, <1>2, <1>3

LEMMA AppendFacts ==
    ASSUME NEW S, NEW s \in Seq(S), NEW x \in S
    PROVE  /\ Append(s, x) \in Seq(S) /\ Len(s) \in Nat /\ Len(Append(s, x)) = Len(s) + 1
           /\ \A i \in 1 .. Len(s) : Append(s, x)[i] = s[i]
           /\ Append(s, x)[Len(s) + 1] = x
BY LenProperties, AppendProperties

(* An entry that is new in a sequence keeps its entries distinct. *)
LEMMA AppendDistinct ==
    ASSUME NEW S, NEW s \in Seq(S), NEW x \in S, Distinct(s), \A i \in 1 .. Len(s) : s[i] # x
    PROVE  Distinct(Append(s, x))
<1>1. ASSUME NEW i \in 1 .. Len(s) + 1
      PROVE  \/ i \in 1 .. Len(s) /\ Append(s, x)[i] = s[i]
             \/ i = Len(s) + 1 /\ Append(s, x)[i] = x
  BY AppendFacts
<1>2. Len(Append(s, x)) = Len(s) + 1
  BY AppendFacts
<1> QED BY <1>1, <1>2 DEF Distinct

LEMMA TailFacts ==
    ASSUME NEW S, NEW s \in Seq(S), s # <<>>
    PROVE  /\ Len(s) \in Nat /\ Len(s) >= 1 /\ Head(s) = s[1] /\ Head(s) \in S
           /\ Tail(s) \in Seq(S) /\ Len(Tail(s)) = Len(s) - 1
           /\ \A i \in 1 .. Len(s) - 1 : Tail(s)[i] = s[i + 1]
<1>1. Len(s) \in Nat /\ Len(s) >= 1
  BY EmptySeq, LenProperties
<1>2. Head(s) \in S /\ Tail(s) \in Seq(S) /\ Len(Tail(s)) = Len(s) - 1
      /\ \A i \in 1 .. Len(Tail(s)) : Tail(s)[i] = s[i + 1]
  BY HeadTailProperties
<1>3. Head(s) = s[1]
  OBVIOUS
<1> QED BY <1>1, <1>2, <1>3

LEMMA EmptyFacts == \A S : <<>> \in Seq(S) /\ Len(<<>>) = 0 /\ Distinct(<<>>)
BY EmptySeq DEF Distinct

(***************************************************************************)
(* The steps, by what they do to the links and to the loop.                *)
(***************************************************************************)
(* A connection once made keeps its peer, and once closed stays closed. *)
Onward ==
    \A k \in Links : link[k].st # "new" =>
        /\ link'[k].to = link[k].to /\ link'[k].st # "new"
        /\ link[k].st = "closed" => link'[k].st = "closed"

ClientStep(k) == Connect(k) \/ Ask(k) \/ Receive(k) \/ Close(k)

LEMMA NextSplit ==
    [Next]_vars => \/ UNCHANGED vars
                   \/ \E k \in Clients : ClientStep(k)
                   \/ \E d \in Daemons : Start(d) \/ LoopStep(d) \/ End(d)
BY DEF Next, ClientStep

LEMMA ServingPath == ASSUME StartTypeOK, \E d \in Daemons : Serving(d)
                     PROVE  path \in Daemons /\ Listening(path)
BY DEF Serving

LEMMA ServiceInit == Init => ServiceInv
<1> SUFFICES ASSUME Init PROVE ServiceInv
  OBVIOUS
<1>1. ShapeInv
  BY EmptyFacts DEF Init, ShapeInv, States
<1>2. \A d \in Daemons : table[d] = <<>> /\ backlog[d] = <<>> /\ polled[d] = <<>> /\ at[d] = 1
                         /\ removing[d] = {}
  BY DEF Init
<1>3. LoopInv /\ PlaceInv
  BY <1>2, EmptyFacts DEF LoopInv, PlaceInv
<1>4. \A k \in Links : link[k].to = Nothing /\ link[k].st = "new" /\ link[k].requests = 0
  BY DEF Init
<1>5. LinkInv /\ OpenInv
  BY <1>4, ConstantFacts DEF LinkInv, OpenInv, OpenStates
<1> QED BY <1>1, <1>3, <1>5 DEF ServiceInv

(***************************************************************************)
(* A step of a client.  Only Connect puts a connection anywhere.           *)
(***************************************************************************)
LEMMA ClientLinks ==
    ASSUME ShapeInv, LinkInv, StartTypeOK, NEW k \in Clients, ClientStep(k)
    PROVE  /\ \A j \in Links : j # k => link'[j] = link[j]
           /\ link'[k] \in [to : Daemons \cup {Nothing}, st : States, requests : Nat]
           /\ link' = [link EXCEPT ![k] = link'[k]]
           /\ link'[k].requests <= MaxRequests[k]
           /\ link[k].st # "closed" /\ link'[k].st # "new"
           /\ link[k].st # "new" => link'[k].to = link[k].to
           /\ UNCHANGED <<startVars, table, lpc, polled, at, removing>>
<1>0. /\ k \in Links /\ MaxRequests[k] \in Nat /\ MaxRequests[k] >= 1 /\ link[k].requests <= MaxRequests[k]
      /\ link \in [Links -> [to : Daemons \cup {Nothing}, st : States, requests : Nat]]
  BY ConstantFacts DEF ShapeInv, LinkInv
<1>1. link[k].to \in Daemons \cup {Nothing} /\ link[k].st \in States /\ link[k].requests \in Nat
  BY <1>0
<1>2. ASSUME NEW l \in [to : Daemons \cup {Nothing}, st : States, requests : Nat],
             link' = [link EXCEPT ![k] = l]
      PROVE  /\ link'[k] = l /\ \A j \in Links : j # k => link'[j] = link[j]
             /\ link' = [link EXCEPT ![k] = link'[k]]
  BY <1>0, <1>2
<1>3. CASE Connect(k)
  <2>1. link[k].st = "new" /\ UNCHANGED <<startVars, table, lpc, polled, at, removing>>
    BY <1>3 DEF Connect
  <2>2. CASE \E d \in Daemons : Serving(d)
    <3> DEFINE l == [to |-> path, st |-> "asking", requests |-> 1]
    <3>1. link' = [link EXCEPT ![k] = l]
      BY <1>3, <2>2 DEF Connect
    <3>2. l \in [to : Daemons \cup {Nothing}, st : States, requests : Nat]
      BY <2>2, ServingPath DEF States
    <3>3. l.requests = 1 /\ l.st = "asking"
      OBVIOUS
    <3> HIDE DEF l
    <3> QED BY <1>0, <1>2, <2>1, <3>1, <3>2, <3>3
  <2>3. CASE ~ \E d \in Daemons : Serving(d)
    <3> DEFINE l == [link[k] EXCEPT !.st = "closed"]
    <3>1. link' = [link EXCEPT ![k] = l]
      BY <1>0, <1>3, <2>3 DEF Connect
    <3>2. l \in [to : Daemons \cup {Nothing}, st : States, requests : Nat]
      BY <1>0 DEF States
    <3>3. l.requests = link[k].requests /\ l.st = "closed"
      BY <1>0
    <3> HIDE DEF l
    <3> QED BY <1>0, <1>2, <2>1, <3>1, <3>2, <3>3
  <2> QED BY <2>2, <2>3
<1>4. CASE Ask(k)
  <2> DEFINE s == IF Held(k, link[k].to) THEN "asking" ELSE "failed"
             l == [link[k] EXCEPT !.requests = link[k].requests + 1, !.st = s]
  <2>1. link' = [link EXCEPT ![k] = l]
    BY <1>0, <1>4 DEF Ask
  <2>0. s \in {"asking", "failed"} /\ s \in States /\ link[k].requests + 1 \in Nat
    BY <1>1 DEF States
  <2> HIDE DEF s
  <2>2. l \in [to : Daemons \cup {Nothing}, st : States, requests : Nat]
    BY <1>0, <2>0
  <2>3. l.requests = link[k].requests + 1 /\ l.st \in {"asking", "failed"} /\ l.to = link[k].to
    BY <1>0, <2>0
  <2> HIDE DEF l
  <2>4. link[k].st = "idle" /\ link[k].requests < MaxRequests[k] /\ UNCHANGED <<startVars, loopVars>>
    BY <1>4 DEF Ask
  <2>5. UNCHANGED <<startVars, table, lpc, polled, at, removing>>
    BY <2>4 DEF loopVars
  <2> QED BY <1>0, <1>1, <1>2, <2>1, <2>2, <2>3, <2>4, <2>5
<1>5. CASE Receive(k) \/ Close(k)
  <2>1. PICK s \in States \ {"new"} : link' = [link EXCEPT ![k].st = s]
    BY <1>5 DEF Receive, Close, States
  <2> DEFINE l == [link[k] EXCEPT !.st = s]
  <2>2. link' = [link EXCEPT ![k] = l]
    BY <1>0, <2>1
  <2>3. l \in [to : Daemons \cup {Nothing}, st : States, requests : Nat]
    BY <1>0
  <2>4. l.requests = link[k].requests /\ l.st = s /\ l.to = link[k].to
    BY <1>0
  <2> HIDE DEF l
  <2>5. link[k].st \notin {"new", "closed"} /\ UNCHANGED <<startVars, loopVars>>
    BY <1>5 DEF Receive, Close
  <2>6. UNCHANGED <<startVars, table, lpc, polled, at, removing>>
    BY <2>5 DEF loopVars
  <2> QED BY <1>0, <1>2, <2>1, <2>2, <2>3, <2>4, <2>5, <2>6
<1> QED BY <1>3, <1>4, <1>5 DEF ClientStep

(* The start of a daemon: the probe of one that listens. *)
Probes(d) == pc[d] = "probe" /\ path \in Daemons /\ Listening(path)

LEMMA StartLinks ==
    ASSUME ShapeInv, LinkInv, NEW d \in Daemons, Start(d)
    PROVE  /\ UNCHANGED <<table, lpc, polled, at, removing>>
           /\ ~Probes(d) => UNCHANGED <<backlog, link>>
           /\ Probes(d) => /\ link[d].st = "new" /\ path' = path
                           /\ backlog' = [backlog EXCEPT ![path] = Append(@, d)]
                           /\ link' = [link EXCEPT ![d] = [to |-> path, st |-> "closed", requests |-> 0]]
                           /\ link'[d] = [to |-> path, st |-> "closed", requests |-> 0]
                           /\ \A j \in Links : j # d => link'[j] = link[j]
<1>1. UNCHANGED <<table, lpc, polled, at, removing>> /\ (~Probes(d) => UNCHANGED <<backlog, link>>)
  BY DEF Start, Probes
<1>2. ASSUME Probes(d)
      PROVE  /\ backlog' = [backlog EXCEPT ![path] = Append(@, d)]
             /\ link' = [link EXCEPT ![d] = [to |-> path, st |-> "closed", requests |-> 0]]
             /\ link[d].st = "new" /\ StartStep(d)
  BY <1>2 DEF Start, Probes, LinkInv
<1>3. ASSUME Probes(d) PROVE path' = path
  BY <1>2, <1>3 DEF StartStep, Exists, Stat, Probe, Remove, Bind, Listen, NewRegistry, Probes
<1>4. DOMAIN link = Links /\ d \in Links
  BY ConstantFacts DEF ShapeInv
<1> QED BY <1>1, <1>2, <1>3, <1>4

(* A cycle of the loop. *)
LEMMA ServeLinks ==
    ASSUME ShapeInv, LoopInv, PlaceInv, NEW d \in Daemons, Serve(d)
    PROVE  /\ at[d] \in 1 .. Len(polled[d]) /\ at[d] \in 1 .. Len(table[d]) /\ table[d][at[d]] \in Links
           /\ at' = [at EXCEPT ![d] = @ + 1] /\ pc[d] = "loop"
           /\ UNCHANGED <<startVars, table, backlog, lpc, polled>>
           /\ \/ /\ link' = link
                 /\ \/ removing' = removing
                    \/ /\ removing' = [removing EXCEPT ![d] = @ \cup {at[d]}]
                       /\ link[table[d][at[d]]].st = "closed"
              \/ /\ removing' = removing /\ link[table[d][at[d]]].st # "closed"
                 /\ \E s \in {"answered", "mute"} : link' = [link EXCEPT ![table[d][at[d]]].st = s]
<1>1. /\ at[d] \in Nat /\ Len(polled[d]) \in Nat /\ Len(table[d]) \in Nat
      /\ \A i \in 1 .. Len(table[d]) : table[d][i] \in Links
  BY ShapeFacts
<1>2. at[d] \in 1 .. Len(polled[d]) /\ at[d] \in 1 .. Len(table[d])
  BY <1>1 DEF Serve, LoopInv
<1>3. polled[d][at[d]] = "hup" => link[table[d][at[d]]].st = "closed"
  BY <1>2 DEF LoopInv
<1>4. /\ at' = [at EXCEPT ![d] = @ + 1] /\ pc[d] = "loop"
      /\ UNCHANGED <<startVars, table, backlog, lpc, polled>>
  BY DEF Serve
<1> QED BY <1>1, <1>2, <1>3, <1>4 DEF Serve

LEMMA OnwardNext ==
    ASSUME ShapeInv, LoopInv, PlaceInv, LinkInv, StartTypeOK, [Next]_vars
    PROVE  Onward
<1>0. \A k \in Links : link[k].st \in States
  BY ShapeFacts
<1>1. CASE link' = link
  BY <1>1 DEF Onward
<1>2. ASSUME NEW k \in Clients, ClientStep(k) PROVE Onward
  BY <1>2, ClientLinks DEF Onward
<1>3. ASSUME NEW d \in Daemons, Start(d) PROVE Onward
  BY <1>1, <1>3, StartLinks DEF Onward
<1>4. ASSUME NEW d \in Daemons, Serve(d) PROVE Onward
  <2> DEFINE k == table[d][at[d]]
  <2>1. k \in Links
    BY <1>4, ServeLinks
  <2>2. ASSUME NEW s \in {"answered", "mute"}, link' = [link EXCEPT ![k].st = s], link[k].st # "closed"
        PROVE  Onward
    <3>1. \A j \in Links : j # k => link'[j] = link[j]
      BY <2>1, <2>2 DEF ShapeInv
    <3>2. link'[k].to = link[k].to /\ link'[k].st = s
      BY <2>1, <2>2 DEF ShapeInv
    <3> QED BY <2>1, <2>2, <3>1, <3>2 DEF Onward
  <2> QED BY <1>1, <1>4, <2>2, ServeLinks
<1>5. ASSUME NEW d \in Daemons, Poll(d) \/ Accept(d) \/ AcceptDone(d) \/ RemoveClosed(d) \/ End(d)
      PROVE  link' = link
  BY <1>5 DEF Poll, Accept, AcceptDone, RemoveClosed, End
<1>6. CASE UNCHANGED vars
  BY <1>1, <1>6 DEF vars
<1> QED BY <1>1, <1>2, <1>3, <1>4, <1>5, <1>6, NextSplit DEF LoopStep

(***************************************************************************)
(* Each part of the invariant is preserved.                                *)
(***************************************************************************)
LEMMA ShapeNext ==
    ASSUME ShapeInv, LoopInv, PlaceInv, LinkInv, StartTypeOK, [Next]_vars
    PROVE  ShapeInv'
<1> DEFINE LinkSet == [to : Daemons \cup {Nothing}, st : States, requests : Nat]
           Revents == {"hup", "in", "none"}
<1>0. /\ link \in [Links -> LinkSet]
      /\ table \in [Daemons -> Seq(Links)] /\ backlog \in [Daemons -> Seq(Links)]
      /\ lpc \in [Daemons -> {"poll", "accept", "serve"}]
      /\ polled \in [Daemons -> Seq(Revents)]
      /\ at \in [Daemons -> Nat] /\ removing \in [Daemons -> SUBSET Nat]
  BY DEF ShapeInv
<1> HIDE DEF LinkSet, Revents
<1> SUFFICES /\ (link \in [Links -> LinkSet])'
             /\ (table \in [Daemons -> Seq(Links)])' /\ (backlog \in [Daemons -> Seq(Links)])'
             /\ (lpc \in [Daemons -> {"poll", "accept", "serve"}])'
             /\ (polled \in [Daemons -> Seq(Revents)])'
             /\ (at \in [Daemons -> Nat])' /\ (removing \in [Daemons -> SUBSET Nat])'
  BY DEF ShapeInv, LinkSet, Revents
<1>e. <<>> \in Seq(Links) /\ <<>> \in Seq(Revents) /\ {} \in SUBSET Nat
  BY EmptyFacts
<1>1. ASSUME NEW k \in Clients, ClientStep(k)
      PROVE  link' \in [Links -> LinkSet] /\ backlog' \in [Daemons -> Seq(Links)]
  <2>1. link' = [link EXCEPT ![k] = link'[k]] /\ link'[k] \in LinkSet
    BY <1>1, ClientLinks DEF LinkSet
  <2>2. link' \in [Links -> LinkSet]
    BY <1>0, <2>1
  <2>3. k \in Links
    BY ConstantFacts
  <2>4. CASE backlog' = backlog
    BY <1>0, <2>2, <2>4
  <2>5. CASE backlog' # backlog
    <3>1. backlog' = [backlog EXCEPT ![path] = Append(@, k)] /\ \E d \in Daemons : Serving(d)
      BY <1>1, <2>5 DEF ClientStep, Connect, Ask, Receive, Close, loopVars
    <3>2. path \in Daemons /\ backlog[path] \in Seq(Links)
      BY <1>0, <3>1, ServingPath
    <3>3. Append(backlog[path], k) \in Seq(Links)
      BY <2>3, <3>2, AppendFacts
    <3> QED BY <1>0, <2>2, <3>1, <3>3
  <2> QED BY <2>4, <2>5
<1>2. ASSUME NEW k \in Clients, ClientStep(k) PROVE UNCHANGED <<table, lpc, polled, at, removing>>
  BY <1>2, ClientLinks
<1>3. ASSUME NEW d \in Daemons, Start(d)
      PROVE  link' \in [Links -> LinkSet] /\ backlog' \in [Daemons -> Seq(Links)]
  <2>1. CASE Probes(d)
    <3>1. path \in Daemons /\ d \in Links /\ backlog[path] \in Seq(Links)
      BY <1>0, <2>1, ConstantFacts DEF Probes
    <3>2. Append(backlog[path], d) \in Seq(Links)
      BY <3>1, AppendFacts
    <3>3. [to |-> path, st |-> "closed", requests |-> 0] \in LinkSet
      BY <3>1 DEF LinkSet, States
    <3>4. /\ backlog' = [backlog EXCEPT ![path] = Append(backlog[path], d)]
          /\ link' = [link EXCEPT ![d] = [to |-> path, st |-> "closed", requests |-> 0]]
      BY <1>3, <2>1, StartLinks
    <3> QED BY <1>0, <3>2, <3>3, <3>4
  <2>2. CASE ~Probes(d)
    BY <1>0, <1>3, <2>2, StartLinks
  <2> QED BY <2>1, <2>2
<1>4. ASSUME NEW d \in Daemons, Start(d) PROVE UNCHANGED <<table, lpc, polled, at, removing>>
  BY <1>4, StartLinks
<1>5. ASSUME NEW d \in Daemons, Poll(d) PROVE polled' \in [Daemons -> Seq(Revents)]
  <2> DEFINE r(i) == CASE link[table[d][i]].st = "closed" -> "hup"
                       [] link[table[d][i]].st = "asking" -> "in"
                       [] OTHER -> "none"
             p == [i \in DOMAIN table[d] |-> r(i)]
  <2>1. polled' = [polled EXCEPT ![d] = p]
    BY <1>5 DEF Poll
  <2>2. \A i : r(i) \in Revents
    BY DEF Revents
  <2>3. Len(table[d]) \in Nat /\ DOMAIN table[d] = 1 .. Len(table[d])
    BY ShapeFacts
  <2> HIDE DEF r
  <2>4. p \in Seq(Revents)
    BY <2>2, <2>3, SeqDef
  <2> HIDE DEF p
  <2> QED BY <1>0, <2>1, <2>4
<1>6. ASSUME NEW d \in Daemons, Poll(d)
      PROVE  UNCHANGED <<link, table, backlog, at, removing>> /\ lpc' = [lpc EXCEPT ![d] = "accept"]
  BY <1>6 DEF Poll
<1>7. ASSUME NEW d \in Daemons, Accept(d)
      PROVE  /\ table' \in [Daemons -> Seq(Links)] /\ backlog' \in [Daemons -> Seq(Links)]
             /\ UNCHANGED <<link, lpc, polled, at, removing>>
  <2>1. /\ table' = [table EXCEPT ![d] = Append(table[d], Head(backlog[d]))]
        /\ backlog' = [backlog EXCEPT ![d] = Tail(backlog[d])] /\ backlog[d] # <<>>
        /\ UNCHANGED <<link, lpc, polled, at, removing>>
    BY <1>7 DEF Accept
  <2>2. Head(backlog[d]) \in Links /\ Tail(backlog[d]) \in Seq(Links)
    BY <1>0, <2>1, TailFacts
  <2>3. Append(table[d], Head(backlog[d])) \in Seq(Links)
    BY <1>0, <2>2, AppendFacts
  <2> QED BY <1>0, <2>1, <2>2, <2>3
<1>8. ASSUME NEW d \in Daemons, Serve(d)
      PROVE  /\ link' \in [Links -> LinkSet] /\ at' \in [Daemons -> Nat]
             /\ removing' \in [Daemons -> SUBSET Nat]
             /\ UNCHANGED <<table, backlog, lpc, polled>>
  <2> DEFINE k == table[d][at[d]]
  <2>1. k \in Links /\ at[d] \in Nat
    BY <1>8, ServeLinks, ShapeFacts
  <2>2. at' \in [Daemons -> Nat]
    <3>1. at' = [at EXCEPT ![d] = at[d] + 1]
      BY <1>8, ServeLinks
    <3>2. at[d] + 1 \in Nat
      BY <2>1
    <3> QED BY <1>0, <3>1, <3>2
  <2>3. removing' = removing \/ removing' = [removing EXCEPT ![d] = @ \cup {at[d]}]
    BY <1>8, ServeLinks
  <2>4. removing' \in [Daemons -> SUBSET Nat]
    <3>1. removing[d] \cup {at[d]} \in SUBSET Nat
      BY <1>0, <2>1
    <3> QED BY <1>0, <2>3, <3>1
  <2>5. PICK s \in {"answered", "mute"} : link' = link \/ link' = [link EXCEPT ![k].st = s]
    BY <1>8, ServeLinks
  <2>6. link' \in [Links -> LinkSet]
    <3> DEFINE l == [link[k] EXCEPT !.st = s]
    <3>1. l \in LinkSet
      BY <1>0, <2>1 DEF LinkSet, States
    <3>2. link' = link \/ link' = [link EXCEPT ![k] = l]
      BY <1>0, <2>1, <2>5
    <3> HIDE DEF l, k
    <3> QED BY <1>0, <3>1, <3>2
  <2> QED BY <1>8, <2>2, <2>4, <2>6, ServeLinks
<1>9. ASSUME NEW d \in Daemons, RemoveClosed(d)
      PROVE  /\ table' \in [Daemons -> Seq(Links)] /\ polled' \in [Daemons -> Seq(Revents)]
             /\ lpc' = [lpc EXCEPT ![d] = "poll"] /\ at' = [at EXCEPT ![d] = 1]
             /\ removing' = [removing EXCEPT ![d] = {}] /\ UNCHANGED <<link, backlog>>
  <2>1. /\ table' = [table EXCEPT ![d] = Without(table[d], removing[d])]
        /\ polled' = [polled EXCEPT ![d] = <<>>]
        /\ lpc' = [lpc EXCEPT ![d] = "poll"] /\ at' = [at EXCEPT ![d] = 1]
        /\ removing' = [removing EXCEPT ![d] = {}] /\ UNCHANGED <<link, backlog>>
    BY <1>9 DEF RemoveClosed
  <2>2. Without(table[d], removing[d]) \in Seq(Links)
    BY <1>0, WithoutRemains DEF PlaceInv
  <2> QED BY <1>0, <2>1, <2>2, EmptyFacts
<1>10. ASSUME NEW d \in Daemons, End(d)
       PROVE  /\ table' = [table EXCEPT ![d] = <<>>] /\ backlog' = [backlog EXCEPT ![d] = <<>>]
              /\ polled' = [polled EXCEPT ![d] = <<>>] /\ lpc' = [lpc EXCEPT ![d] = "poll"]
              /\ at' = [at EXCEPT ![d] = 1] /\ removing' = [removing EXCEPT ![d] = {}]
              /\ UNCHANGED link
  BY <1>10 DEF End
<1>11. ASSUME NEW d \in Daemons, AcceptDone(d)
       PROVE  lpc' = [lpc EXCEPT ![d] = "serve"] /\ UNCHANGED <<link, table, backlog, polled, at, removing>>
  BY <1>11 DEF AcceptDone
<1>12. CASE UNCHANGED vars
  BY <1>0, <1>12 DEF vars, loopVars
<1>13. CASE \E k \in Clients : ClientStep(k)
  BY <1>0, <1>1, <1>2, <1>13
<1>14. ASSUME NEW d \in Daemons, LoopStep(d)
       PROVE  /\ link' \in [Links -> LinkSet] /\ table' \in [Daemons -> Seq(Links)]
              /\ backlog' \in [Daemons -> Seq(Links)]
              /\ lpc' \in [Daemons -> {"poll", "accept", "serve"}]
              /\ polled' \in [Daemons -> Seq(Revents)]
              /\ at' \in [Daemons -> Nat] /\ removing' \in [Daemons -> SUBSET Nat]
  <2>1. CASE Poll(d)
    BY <1>0, <1>5, <1>6, <2>1
  <2>2. CASE Accept(d) \/ AcceptDone(d)
    BY <1>0, <1>7, <1>11, <2>2
  <2>3. CASE Serve(d)
    BY <1>0, <1>8, <2>3
  <2>4. CASE RemoveClosed(d)
    <3>0. lpc' = [lpc EXCEPT ![d] = "poll"] /\ at' = [at EXCEPT ![d] = 1]
      BY <1>9, <2>4
    <3>1. at' \in [Daemons -> Nat]
      BY <1>0, <3>0
    <3>2. removing' \in [Daemons -> SUBSET Nat]
      BY <1>0, <1>e, <1>9, <2>4
    <3>3. lpc' \in [Daemons -> {"poll", "accept", "serve"}]
      BY <1>0, <3>0
    <3> QED BY <1>0, <1>9, <2>4, <3>1, <3>2, <3>3
  <2> QED BY <1>14, <2>1, <2>2, <2>3, <2>4 DEF LoopStep
<1>15. ASSUME NEW d \in Daemons, Start(d) \/ End(d)
       PROVE  /\ link' \in [Links -> LinkSet] /\ table' \in [Daemons -> Seq(Links)]
              /\ backlog' \in [Daemons -> Seq(Links)]
              /\ lpc' \in [Daemons -> {"poll", "accept", "serve"}]
              /\ polled' \in [Daemons -> Seq(Revents)]
              /\ at' \in [Daemons -> Nat] /\ removing' \in [Daemons -> SUBSET Nat]
  <2>1. CASE Start(d)
    BY <1>0, <1>3, <1>4, <2>1
  <2>2. CASE End(d)
    <3>0. lpc' = [lpc EXCEPT ![d] = "poll"] /\ at' = [at EXCEPT ![d] = 1]
      BY <1>10, <2>2
    <3>1. at' \in [Daemons -> Nat]
      BY <1>0, <3>0
    <3>2. removing' \in [Daemons -> SUBSET Nat]
      BY <1>0, <1>e, <1>10, <2>2
    <3>3. lpc' \in [Daemons -> {"poll", "accept", "serve"}]
      BY <1>0, <3>0
    <3>4. table' \in [Daemons -> Seq(Links)] /\ backlog' \in [Daemons -> Seq(Links)]
      BY <1>0, <1>e, <1>10, <2>2
    <3>5. polled' \in [Daemons -> Seq(Revents)]
      BY <1>0, <1>e, <1>10, <2>2
    <3> QED BY <1>0, <1>10, <2>2, <3>1, <3>2, <3>3, <3>4, <3>5
  <2> QED BY <1>15, <2>1, <2>2
<1> QED BY <1>12, <1>13, <1>14, <1>15, NextSplit

LEMMA LoopNext ==
    ASSUME ShapeInv, LoopInv, PlaceInv, LinkInv, StartTypeOK, [Next]_vars
    PROVE  LoopInv'
<1> DEFINE Good(d) ==
        /\ Len(polled[d]) <= Len(table[d])
        /\ at[d] \in 1 .. Len(polled[d]) + 1 /\ removing[d] \subseteq 1 .. at[d] - 1
        /\ lpc[d] = "poll" => polled[d] = <<>>
        /\ \A i \in 1 .. Len(polled[d]) : polled[d][i] = "hup" \/ i \in removing[d]
                                             => link[table[d][i]].st = "closed"
<1>0. /\ DOMAIN table = Daemons /\ DOMAIN polled = Daemons /\ DOMAIN at = Daemons
      /\ DOMAIN removing = Daemons /\ DOMAIN lpc = Daemons
  BY DEF ShapeInv
<1>1. Onward
  BY OnwardNext
<1>2. \A d \in Daemons : Good(d)
  BY DEF LoopInv
<1> SUFFICES ASSUME NEW e \in Daemons PROVE Good(e)'
  BY DEF LoopInv
<1>3. /\ Len(table[e]) \in Nat /\ DOMAIN table[e] = 1 .. Len(table[e])
      /\ Len(polled[e]) \in Nat /\ at[e] \in Nat /\ removing[e] \subseteq Nat
      /\ \A i \in 1 .. Len(table[e]) : table[e][i] \in Links /\ link[table[e][i]].st # "new"
  BY ShapeFacts DEF PlaceInv
<1>4. \A i \in 1 .. Len(polled[e]) : /\ i \in 1 .. Len(table[e])
                                     /\ polled[e][i] = "hup" \/ i \in removing[e]
                                            => link'[table[e][i]].st = "closed"
  <2>1. \A i \in 1 .. Len(polled[e]) : i \in 1 .. Len(table[e])
    BY <1>2, <1>3
  <2> QED BY <1>1, <1>2, <1>3, <2>1 DEF Onward
<1>5. ASSUME UNCHANGED <<table[e], polled[e], at[e], removing[e], lpc[e]>> PROVE Good(e)'
  BY <1>2, <1>4, <1>5
<1>6. CASE UNCHANGED vars \/ \E k \in Clients : ClientStep(k)
  <2>1. UNCHANGED <<table, lpc, polled, at, removing>>
    BY <1>6, ClientLinks DEF vars, loopVars
  <2> QED BY <1>5, <2>1
<1>7. ASSUME NEW d \in Daemons, Start(d) PROVE Good(e)'
  <2>1. UNCHANGED <<table, lpc, polled, at, removing>>
    BY <1>7, StartLinks
  <2> QED BY <1>5, <2>1
<1>8. ASSUME NEW d \in Daemons, d # e, LoopStep(d) \/ End(d) PROVE Good(e)'
  <2>1. UNCHANGED <<table[e], polled[e]>>
    BY <1>0, <1>8 DEF LoopStep, Poll, Accept, AcceptDone, Serve, RemoveClosed, End
  <2>2. UNCHANGED <<at[e], removing[e], lpc[e]>>
    BY <1>0, <1>8 DEF LoopStep, Poll, Accept, AcceptDone, Serve, RemoveClosed, End
  <2> QED BY <1>5, <2>1, <2>2
<1>9. CASE Poll(e)
  <2> DEFINE r(i) == CASE link[table[e][i]].st = "closed" -> "hup"
                       [] link[table[e][i]].st = "asking" -> "in"
                       [] OTHER -> "none"
             p == [i \in DOMAIN table[e] |-> r(i)]
  <2>1. polled'[e] = p /\ lpc'[e] = "accept" /\ UNCHANGED <<table, link, at, removing>> /\ lpc[e] = "poll"
    BY <1>0, <1>9 DEF Poll
  <2>2. p \in [1 .. Len(table[e]) -> {"hup", "in", "none"}]
    BY <1>3
  <2>3. Len(p) = Len(table[e])
    BY <1>3, <2>2, SeqDef, LenProperties
  <2>4. Len(polled[e]) = 0
    BY <1>2, <2>1, EmptyFacts
  <2>5. at[e] = 1
    BY <1>2, <2>4
  <2>6. removing[e] = {}
    BY <1>2, <2>5
  <2>7. \A i \in 1 .. Len(table[e]) : p[i] = r(i)
    BY <1>3
  <2>8. \A i \in 1 .. Len(table[e]) : p[i] = "hup" => link[table[e][i]].st = "closed"
    BY <2>7
  <2> HIDE DEF r, p
  <2>9. Len(polled'[e]) = Len(table'[e]) /\ at'[e] = 1 /\ removing'[e] = {} /\ lpc'[e] # "poll"
    BY <2>1, <2>3, <2>5, <2>6
  <2>10. at'[e] \in 1 .. Len(polled'[e]) + 1 /\ Len(polled'[e]) <= Len(table'[e])
         /\ removing'[e] \subseteq 1 .. at'[e] - 1
    BY <1>3, <2>1, <2>9
  <2> QED BY <2>1, <2>3, <2>8, <2>9, <2>10
<1>10. CASE Accept(e)
  <2>1. /\ table'[e] = Append(table[e], Head(backlog[e])) /\ backlog[e] # <<>>
        /\ UNCHANGED <<polled, at, removing, lpc>>
    BY <1>0, <1>10 DEF Accept
  <2>2. table[e] \in Seq(Links) /\ Head(backlog[e]) \in Links
    BY <2>1, ShapeFacts, TailFacts
  <2>3. Len(table'[e]) = Len(table[e]) + 1 /\ \A i \in 1 .. Len(table[e]) : table'[e][i] = table[e][i]
    BY <2>1, <2>2, AppendFacts
  <2>4. Len(polled[e]) <= Len(table'[e])
    BY <1>2, <1>3, <2>3
  <2> QED BY <1>2, <1>4, <2>1, <2>3, <2>4
<1>11. CASE AcceptDone(e)
  <2>1. UNCHANGED <<table, polled, at, removing>> /\ lpc'[e] = "serve"
    BY <1>0, <1>11 DEF AcceptDone
  <2> QED BY <1>2, <1>4, <2>1
<1>12. CASE Serve(e)
  <2>1. /\ at[e] \in 1 .. Len(polled[e]) /\ UNCHANGED <<table, polled, lpc>>
        /\ \/ removing' = removing
           \/ removing' = [removing EXCEPT ![e] = @ \cup {at[e]}] /\ link[table[e][at[e]]].st = "closed"
    BY <1>12, ServeLinks
  <2>2. at'[e] = at[e] + 1 /\ lpc[e] = "serve"
    BY <1>0, <1>12 DEF Serve
  <2>3. \A i \in removing'[e] : i \in removing[e] \/ (i = at[e] /\ link[table[e][at[e]]].st = "closed")
    BY <1>0, <2>1
  <2>4. removing'[e] \subseteq 1 .. at[e]
    BY <1>2, <1>3, <2>1, <2>3
  <2>5. link[table[e][at[e]]].st = "closed" => link'[table[e][at[e]]].st = "closed"
    BY <1>1, <1>3, <1>4, <2>1 DEF Onward
  <2>6. at'[e] \in 1 .. Len(polled[e]) + 1 /\ removing'[e] \subseteq 1 .. at'[e] - 1
    BY <1>3, <2>1, <2>2, <2>4
  <2>7. \A i \in 1 .. Len(polled[e]) : polled[e][i] = "hup" \/ i \in removing'[e]
                                          => link'[table[e][i]].st = "closed"
    BY <1>4, <2>3, <2>5
  <2> QED BY <1>2, <2>1, <2>2, <2>6, <2>7
<1>13. ASSUME RemoveClosed(e) \/ End(e) PROVE Good(e)'
  <2>1. polled'[e] = <<>> /\ at'[e] = 1 /\ removing'[e] = {} /\ table' \in [Daemons -> Seq(Links)]
    BY <1>0, <1>13, ShapeNext DEF RemoveClosed, End, ShapeInv
  <2>2. Len(table'[e]) \in Nat /\ Len(polled'[e]) = 0
    BY <2>1, LenProperties, EmptyFacts
  <2> QED BY <2>1, <2>2
<1> HIDE DEF Good
<1>14. ASSUME NEW d \in Daemons, LoopStep(d) \/ End(d) PROVE Good(e)'
  <2>1. CASE d # e
    BY <1>8, <1>14, <2>1
  <2>2. CASE d = e
    BY <1>9, <1>10, <1>11, <1>12, <1>13, <1>14, <2>2 DEF LoopStep
  <2> QED BY <2>1, <2>2
<1> QED BY <1>6, <1>7, <1>14, NextSplit

(* One daemon's connections. *)
Placed(d) ==
    /\ Distinct(table[d]) /\ Distinct(backlog[d])
    /\ \A i \in 1 .. Len(table[d]) : link[table[d][i]].to = d /\ link[table[d][i]].st # "new"
    /\ \A i \in 1 .. Len(backlog[d]) : link[backlog[d][i]].to = d /\ link[backlog[d][i]].st # "new"
    /\ \A i \in 1 .. Len(table[d]), j \in 1 .. Len(backlog[d]) : table[d][i] # backlog[d][j]

(* A new connection goes to the end of a backlog. *)
LEMMA PlaceAppend ==
    ASSUME ShapeInv, PlaceInv, Onward, NEW e \in Daemons, NEW k \in Links, link[k].st = "new",
           link'[k].to = e, link'[k].st # "new",
           backlog'[e] = Append(backlog[e], k), table'[e] = table[e]
    PROVE  Placed(e)'
<1>1. /\ table[e] \in Seq(Links) /\ backlog[e] \in Seq(Links) /\ Placed(e)
      /\ \A i \in 1 .. Len(table[e]) : table[e][i] \in Links
      /\ \A i \in 1 .. Len(backlog[e]) : backlog[e][i] \in Links
  BY ShapeFacts DEF PlaceInv, Placed
<1>2. \A i \in 1 .. Len(table[e]) : /\ link'[table[e][i]].to = e /\ link'[table[e][i]].st # "new"
                                    /\ table[e][i] # k
  BY <1>1 DEF Onward, Placed
<1>3. \A i \in 1 .. Len(backlog[e]) : /\ link'[backlog[e][i]].to = e /\ link'[backlog[e][i]].st # "new"
                                      /\ backlog[e][i] # k
  BY <1>1 DEF Onward, Placed
<1>4. Distinct(backlog[e]) /\ Distinct(table[e])
  BY <1>1 DEF Placed
<1>5. Distinct(backlog'[e])
  BY <1>1, <1>3, <1>4, AppendDistinct
<1>6. \A i \in 1 .. Len(backlog'[e]) :
         (i \in 1 .. Len(backlog[e]) /\ backlog'[e][i] = backlog[e][i]) \/ backlog'[e][i] = k
  BY <1>1, AppendFacts
<1>7. \A i \in 1 .. Len(table[e]), j \in 1 .. Len(backlog[e]) : table[e][i] # backlog[e][j]
  BY <1>1 DEF Placed
<1> QED BY <1>2, <1>3, <1>4, <1>5, <1>6, <1>7 DEF Placed

LEMMA PlaceNext ==
    ASSUME ShapeInv, LoopInv, PlaceInv, LinkInv, StartTypeOK, [Next]_vars
    PROVE  PlaceInv'
<1>0. DOMAIN table = Daemons /\ DOMAIN backlog = Daemons
  BY DEF ShapeInv
<1>1. Onward
  BY OnwardNext
<1> SUFFICES ASSUME NEW e \in Daemons PROVE Placed(e)'
  BY DEF PlaceInv, Placed
<1>2. /\ table[e] \in Seq(Links) /\ backlog[e] \in Seq(Links) /\ Placed(e)
      /\ Len(table[e]) \in Nat /\ Len(backlog[e]) \in Nat
      /\ \A i \in 1 .. Len(table[e]) : table[e][i] \in Links
      /\ \A i \in 1 .. Len(backlog[e]) : backlog[e][i] \in Links
  BY ShapeFacts DEF PlaceInv, Placed
<1>3. \A i \in 1 .. Len(table[e]) : link'[table[e][i]].to = e /\ link'[table[e][i]].st # "new"
  BY <1>1, <1>2 DEF Onward, Placed
<1>4. \A i \in 1 .. Len(backlog[e]) : link'[backlog[e][i]].to = e /\ link'[backlog[e][i]].st # "new"
  BY <1>1, <1>2 DEF Onward, Placed
<1>5. /\ Distinct(table[e]) /\ Distinct(backlog[e])
      /\ \A i \in 1 .. Len(table[e]), j \in 1 .. Len(backlog[e]) : table[e][i] # backlog[e][j]
  BY <1>2 DEF Placed
<1>6. ASSUME table'[e] = table[e], backlog'[e] = backlog[e] PROVE Placed(e)'
  BY <1>3, <1>4, <1>5, <1>6 DEF Placed
<1>7. CASE UNCHANGED vars
  BY <1>6, <1>7 DEF vars, loopVars
<1>8. ASSUME NEW k \in Clients, ClientStep(k) PROVE Placed(e)'
  <2>1. table' = table /\ link'[k].st # "new" /\ k \in Links
    BY <1>8, ClientLinks, ConstantFacts
  <2>2. CASE backlog' = backlog
    BY <1>6, <2>1, <2>2
  <2>3. CASE backlog' # backlog
    <3>1. /\ backlog' = [backlog EXCEPT ![path] = Append(@, k)] /\ \E d \in Daemons : Serving(d)
          /\ link' = [link EXCEPT ![k] = [to |-> path, st |-> "asking", requests |-> 1]]
          /\ link[k].st = "new"
      BY <1>8, <2>3 DEF ClientStep, Connect, Ask, Receive, Close, loopVars
    <3>2. link'[k].to = path
      BY <2>1, <3>1 DEF ShapeInv
    <3>3. CASE e = path
      <4>1. backlog'[e] = Append(backlog[e], k)
        BY <1>0, <3>1, <3>3
      <4> QED BY <1>1, <2>1, <3>1, <3>2, <3>3, <4>1, PlaceAppend
    <3>4. CASE e # path
      BY <1>0, <1>6, <2>1, <3>1, <3>4
    <3> QED BY <3>3, <3>4
  <2> QED BY <2>2, <2>3
<1>9. ASSUME NEW d \in Daemons, Start(d) PROVE Placed(e)'
  <2>1. CASE ~Probes(d)
    BY <1>6, <1>9, <2>1, StartLinks
  <2>2. CASE Probes(d)
    <3>1. /\ backlog' = [backlog EXCEPT ![path] = Append(@, d)] /\ table' = table
          /\ link'[d] = [to |-> path, st |-> "closed", requests |-> 0]
          /\ link[d].st = "new" /\ d \in Links
      BY <1>9, <2>2, StartLinks, ConstantFacts
    <3>2. link'[d].to = path /\ link'[d].st # "new"
      BY <3>1
    <3>3. CASE e = path
      <4>1. backlog'[e] = Append(backlog[e], d)
        BY <1>0, <3>1, <3>3
      <4> QED BY <1>1, <3>1, <3>2, <3>3, <4>1, PlaceAppend
    <3>4. CASE e # path
      BY <1>0, <1>6, <3>1, <3>4
    <3> QED BY <3>3, <3>4
  <2> QED BY <2>1, <2>2
<1>10. ASSUME NEW d \in Daemons, d # e, Accept(d) \/ RemoveClosed(d) \/ End(d) PROVE Placed(e)'
  <2>1. table'[e] = table[e] /\ backlog'[e] = backlog[e]
    BY <1>0, <1>10 DEF Accept, RemoveClosed, End
  <2> QED BY <1>6, <2>1
<1>11. ASSUME NEW d \in Daemons, Poll(d) \/ AcceptDone(d) \/ Serve(d) PROVE Placed(e)'
  <2>1. table' = table /\ backlog' = backlog
    BY <1>11 DEF Poll, AcceptDone, Serve
  <2> QED BY <1>6, <2>1
<1>12. CASE Accept(e)
  <2> DEFINE x == Head(backlog[e])
  <2>1. table'[e] = Append(table[e], x) /\ backlog'[e] = Tail(backlog[e]) /\ backlog[e] # <<>>
    BY <1>0, <1>12 DEF Accept
  <2>2. /\ x = backlog[e][1] /\ x \in Links /\ Len(backlog[e]) >= 1
        /\ Len(backlog'[e]) = Len(backlog[e]) - 1
        /\ \A i \in 1 .. Len(backlog[e]) - 1 : backlog'[e][i] = backlog[e][i + 1]
    BY <1>2, <2>1, TailFacts
  <2> HIDE DEF x
  <2>3. \A i \in 1 .. Len(backlog'[e]) : /\ i + 1 \in 1 .. Len(backlog[e]) /\ i + 1 # 1 /\ i \in Nat
                                         /\ backlog'[e][i] = backlog[e][i + 1]
    BY <1>2, <2>2
  <2>4. 1 \in 1 .. Len(backlog[e])
    BY <1>2, <2>2
  <2>5. \A i \in 1 .. Len(table[e]) : table[e][i] # x
    BY <1>5, <2>2, <2>4
  <2>6. Distinct(table'[e])
    BY <1>2, <1>5, <2>1, <2>2, <2>5, AppendDistinct
  <2>7. \A i, j \in 1 .. Len(backlog[e]) : backlog[e][i] = backlog[e][j] => i = j
    BY <1>5 DEF Distinct
  <2>8. Distinct(backlog'[e])
    <3> SUFFICES ASSUME NEW i \in 1 .. Len(backlog'[e]), NEW j \in 1 .. Len(backlog'[e]),
                        backlog'[e][i] = backlog'[e][j]
                 PROVE  i = j
      BY DEF Distinct
    <3>1. i + 1 = j + 1 /\ i \in Nat /\ j \in Nat
      BY <2>3, <2>7
    <3> QED BY <3>1
  <2>9. \A i \in 1 .. Len(table'[e]) :
           (i \in 1 .. Len(table[e]) /\ table'[e][i] = table[e][i]) \/ table'[e][i] = x
    BY <1>2, <2>1, <2>2, AppendFacts
  <2>10. \A i \in 1 .. Len(backlog'[e]) : backlog'[e][i] # x
    BY <2>2, <2>3, <2>4, <2>7
  <2>11. \A i \in 1 .. Len(table'[e]) : link'[table'[e][i]].to = e /\ link'[table'[e][i]].st # "new"
    BY <1>3, <1>4, <2>2, <2>4, <2>9
  <2>12. \A i \in 1 .. Len(backlog'[e]) : link'[backlog'[e][i]].to = e /\ link'[backlog'[e][i]].st # "new"
    BY <1>4, <2>3
  <2>13. \A i \in 1 .. Len(table'[e]), j \in 1 .. Len(backlog'[e]) : table'[e][i] # backlog'[e][j]
    BY <1>5, <2>3, <2>9, <2>10
  <2> QED BY <2>6, <2>8, <2>11, <2>12, <2>13 DEF Placed
<1>13. CASE RemoveClosed(e)
  <2>1. table'[e] = Without(table[e], removing[e]) /\ backlog' = backlog
    BY <1>0, <1>13 DEF RemoveClosed
  <2>2. Remains(table[e], removing[e], 1, table'[e])
    BY <1>2, <1>5, <2>1, WithoutRemains
  <2>3. /\ Distinct(table'[e])
        /\ \A i \in 1 .. Len(table'[e]) : \E j \in 1 .. Len(table[e]) : table'[e][i] = table[e][j]
    BY <2>2 DEF Remains
  <2>4. \A i \in 1 .. Len(table'[e]) : link'[table'[e][i]].to = e /\ link'[table'[e][i]].st # "new"
    BY <1>3, <2>3
  <2>5. \A i \in 1 .. Len(table'[e]), j \in 1 .. Len(backlog'[e]) : table'[e][i] # backlog'[e][j]
    BY <1>5, <2>1, <2>3
  <2> QED BY <1>4, <1>5, <2>1, <2>3, <2>4, <2>5 DEF Placed
<1>14. CASE End(e)
  <2>1. table'[e] = <<>> /\ backlog'[e] = <<>>
    BY <1>0, <1>14 DEF End
  <2>2. Len(table'[e]) = 0 /\ Len(backlog'[e]) = 0 /\ Distinct(table'[e]) /\ Distinct(backlog'[e])
    BY <2>1, EmptyFacts
  <2> QED BY <2>2 DEF Placed
<1>15. ASSUME NEW d \in Daemons, LoopStep(d) \/ End(d) PROVE Placed(e)'
  BY <1>10, <1>11, <1>12, <1>13, <1>14, <1>15 DEF LoopStep
<1> QED BY <1>7, <1>8, <1>9, <1>15, NextSplit

(* A daemon that has bound never starts again. *)
LEMMA BoundNext ==
    ASSUME StartTypeOK, [Next]_vars, NEW d \in Daemons
    PROVE  /\ pc[d] \in Bound => pc'[d] \in Bound
           /\ pc'[d] \in {"off", "stat", "probe"} => pc[d] \in {"off", "stat", "probe"}
           /\ Listening(d)' => Listening(d) \/ pc[d] \notin Bound
           /\ pc'[d] \in {"off", "stat", "probe"} => ~Probes(d) \/ ~Start(d)
<1>0. pc \in [Daemons -> {"off", "stat", "probe", "remove", "bind", "listen", "registry", "loop",
                           "exited", "crashed"}]
  BY DEF StartTypeOK
<1>1. CASE UNCHANGED pc
  <2>1. Start(d) /\ Probes(d) => pc'[d] \in {"exited", "remove"}
    BY <1>0 DEF Start, StartStep, Exists, Stat, Probe, Remove, Bind, Listen, NewRegistry, Probes, Goto
  <2> QED BY <1>1, <2>1 DEF Listening, Bound
<1>2. ASSUME NEW e \in Daemons, StartStep(e) \/ Exit(e) \/ Crash(e)
      PROVE  /\ pc[d] \in Bound => pc'[d] \in Bound
             /\ pc'[d] \in {"off", "stat", "probe"} => pc[d] \in {"off", "stat", "probe"}
             /\ Listening(d)' => Listening(d) \/ pc[d] \notin Bound
  <2> USE <1>0 DEF Bound, Listening, Goto
  <2>1. CASE Exists(e) \/ Stat(e)
    BY <2>1 DEF Exists, Stat
  <2>2. CASE Probe(e) \/ Remove(e) \/ Bind(e)
    BY <2>2 DEF Probe, Remove, Bind
  <2>3. CASE Listen(e) \/ NewRegistry(e)
    BY <2>3 DEF Listen, NewRegistry
  <2>4. CASE Exit(e) \/ Crash(e)
    BY <2>4 DEF Exit, Crash
  <2> QED BY <1>2, <2>1, <2>2, <2>3, <2>4 DEF StartStep
<1>3. Start(d) /\ Probes(d) => pc'[d] \in {"exited", "remove"}
  BY <1>0 DEF Start, StartStep, Exists, Stat, Probe, Remove, Bind, Listen, NewRegistry, Probes, Goto
<1>4. CASE UNCHANGED vars \/ \E k \in Clients : ClientStep(k)
  BY <1>1, <1>4 DEF vars, startVars, ClientStep, Connect, Ask, Receive, Close
<1>5. ASSUME NEW e \in Daemons, LoopStep(e) PROVE UNCHANGED pc
  BY <1>5 DEF LoopStep, Poll, Accept, AcceptDone, Serve, RemoveClosed, startVars
<1>6. ASSUME NEW e \in Daemons, Start(e) \/ End(e) PROVE StartStep(e) \/ Exit(e) \/ Crash(e)
  BY <1>6 DEF Start, End
<1> QED BY <1>1, <1>2, <1>3, <1>4, <1>5, <1>6, NextSplit

LEMMA LinkNext ==
    ASSUME ShapeInv, LoopInv, PlaceInv, LinkInv, StartTypeOK, [Next]_vars
    PROVE  LinkInv'
<1>0. /\ \A k \in Links : link[k].st \in OpenStates => link[k].to \in Daemons
      /\ \A k \in Links : link[k].to \in Daemons => pc[link[k].to] \in Bound
      /\ \A d \in Daemons : pc[d] \in {"off", "stat", "probe"} => link[d].st = "new"
      /\ \A k \in Clients : link[k].requests <= MaxRequests[k]
  BY DEF LinkInv
<1>1. \A d \in Daemons : /\ pc[d] \in Bound => pc'[d] \in Bound
                         /\ pc'[d] \in {"off", "stat", "probe"} => pc[d] \in {"off", "stat", "probe"}
  BY BoundNext
<1>2. ASSUME link' = link PROVE LinkInv'
  BY <1>0, <1>1, <1>2 DEF LinkInv
<1>3. ASSUME NEW k \in Clients, ClientStep(k) PROVE LinkInv'
  <2>1. /\ \A j \in Links : j # k => link'[j] = link[j]
        /\ link'[k].requests <= MaxRequests[k] /\ k \in Links /\ k \notin Daemons
        /\ link[k].st # "new" => link'[k].to = link[k].to
    BY <1>3, ClientLinks, ConstantFacts
  <2>2. /\ link'[k].st \in OpenStates => link'[k].to \in Daemons
        /\ link'[k].to \in Daemons => pc'[link'[k].to] \in Bound
    <3>1. CASE Connect(k)
      <4>1. CASE \E d \in Daemons : Serving(d)
        <5>1. link' = [link EXCEPT ![k] = [to |-> path, st |-> "asking", requests |-> 1]]
          BY <3>1, <4>1 DEF Connect
        <5>2. link'[k].to = path
          BY <2>1, <5>1 DEF ShapeInv
        <5> QED BY <1>1, <4>1, <5>2, ServingPath DEF Listening, Bound
      <4>2. CASE ~ \E d \in Daemons : Serving(d)
        <5>1. link' = [link EXCEPT ![k].st = "closed"]
          BY <3>1, <4>2 DEF Connect
        <5>2. link'[k].to = link[k].to /\ link'[k].st = "closed"
          BY <2>1, <5>1 DEF ShapeInv
        <5> QED BY <1>0, <1>1, <2>1, <5>2 DEF OpenStates
      <4> QED BY <4>1, <4>2
    <3>2. CASE Ask(k) \/ Receive(k) \/ Close(k)
      <4>1. link[k].st # "new"
        BY <3>2 DEF Ask, Receive, Close
      <4>2. link'[k].to = link[k].to
        BY <2>1, <4>1
      <4>3. Ask(k) => link[k].st \in OpenStates
        BY DEF Ask, OpenStates
      <4>4. Receive(k) => link[k].st \in OpenStates
        BY DEF Receive, OpenStates
      <4>5. Close(k) => link'[k].st \notin OpenStates
        BY <2>1 DEF Close, OpenStates, ShapeInv
      <4> QED BY <1>0, <1>1, <2>1, <3>2, <4>2, <4>3, <4>4, <4>5
    <3> QED BY <1>3, <3>1, <3>2 DEF ClientStep
  <2>3. \A d \in Daemons : link'[d] = link[d]
    BY <2>1, ConstantFacts
  <2>4. \A j \in Clients : link'[j].requests <= MaxRequests[j]
    BY <1>0, <2>1, ConstantFacts
  <2>5. \A j \in Links : /\ link'[j].st \in OpenStates => link'[j].to \in Daemons
                         /\ link'[j].to \in Daemons => pc'[link'[j].to] \in Bound
    BY <1>0, <1>1, <2>1, <2>2
  <2>6. \A d \in Daemons : pc'[d] \in {"off", "stat", "probe"} => link'[d].st = "new"
    BY <1>0, <1>1, <2>3
  <2> QED BY <2>4, <2>5, <2>6 DEF LinkInv
<1>4. ASSUME NEW d \in Daemons, Start(d) PROVE LinkInv'
  <2>1. CASE ~Probes(d)
    BY <1>2, <1>4, <2>1, StartLinks
  <2>2. CASE Probes(d)
    <3>1. /\ link'[d] = [to |-> path, st |-> "closed", requests |-> 0]
          /\ \A j \in Links : j # d => link'[j] = link[j]
      BY <1>4, <2>2, StartLinks
    <3>2. link'[d].to = path /\ link'[d].st = "closed"
      BY <3>1
    <3>3. path \in Daemons /\ pc'[path] \in Bound
      BY <1>1, <2>2 DEF Probes, Listening, Bound
    <3>4. pc'[d] \notin {"off", "stat", "probe"}
      BY <1>4, <2>2, BoundNext
    <3>5. \A k \in Clients : link'[k] = link[k] /\ k \in Links
      BY <3>1, ConstantFacts
    <3>6. \A k \in Clients : link'[k].requests <= MaxRequests[k]
      BY <1>0, <3>5
    <3>7. \A j \in Links : /\ link'[j].st \in OpenStates => link'[j].to \in Daemons
                           /\ link'[j].to \in Daemons => pc'[link'[j].to] \in Bound
      BY <1>0, <1>1, <3>1, <3>2, <3>3
    <3>8. \A e \in Daemons : pc'[e] \in {"off", "stat", "probe"} => link'[e].st = "new"
      BY <1>0, <1>1, <3>1, <3>4, ConstantFacts
    <3> QED BY <3>6, <3>7, <3>8 DEF LinkInv
  <2> QED BY <2>1, <2>2
<1>5. ASSUME NEW d \in Daemons, Serve(d) PROVE LinkInv'
  <2> DEFINE k == table[d][at[d]]
  <2>1. k \in Links /\ link[k].to = d /\ link[k].st # "new" /\ pc' = pc
    <3>1. k \in Links /\ at[d] \in 1 .. Len(table[d]) /\ UNCHANGED startVars
      BY <1>5, ServeLinks
    <3> QED BY <3>1 DEF PlaceInv, startVars
  <2>2. ASSUME NEW s \in {"answered", "mute"}, link' = [link EXCEPT ![k].st = s] PROVE LinkInv'
    <3>1. /\ \A j \in Links : j # k => link'[j] = link[j]
          /\ link'[k].to = d /\ link'[k].requests = link[k].requests
      BY <2>1, <2>2 DEF ShapeInv
    <3> HIDE DEF k
    <3>2. \A j \in Links : link'[j].to = link[j].to /\ link'[j].requests = link[j].requests
      BY <2>1, <3>1
    <3>3. \A e \in Daemons : link[e].st = "new" => link'[e].st = "new"
      BY <2>1, <3>1, ConstantFacts
    <3>4. \A j \in Clients : link'[j].requests <= MaxRequests[j]
      BY <1>0, <3>2, ConstantFacts
    <3>5. \A j \in Links : link'[j].st \in OpenStates => link'[j].to \in Daemons
      BY <1>0, <3>1
    <3>6. \A j \in Links : link'[j].to \in Daemons => pc'[link'[j].to] \in Bound
      BY <1>0, <2>1, <3>2
    <3> QED BY <1>0, <1>1, <3>3, <3>4, <3>5, <3>6 DEF LinkInv
  <2> QED BY <1>2, <1>5, <2>2, ServeLinks
<1>6. ASSUME NEW d \in Daemons, Poll(d) \/ Accept(d) \/ AcceptDone(d) \/ RemoveClosed(d) \/ End(d)
      PROVE  link' = link
  BY <1>6 DEF Poll, Accept, AcceptDone, RemoveClosed, End
<1>7. CASE UNCHANGED vars
  BY <1>2, <1>7 DEF vars
<1> QED BY <1>2, <1>3, <1>4, <1>5, <1>6, <1>7, NextSplit DEF LoopStep

(* The daemon holds the connection, in its table or in its backlog. *)
Has(d, k) == \/ \E i \in 1 .. Len(table[d]) : table[d][i] = k
             \/ \E i \in 1 .. Len(backlog[d]) : backlog[d][i] = k

LEMMA HasIn ==
    ASSUME ShapeInv, NEW d \in Daemons, NEW k
    PROVE  Has(d, k) <=> In(k, table[d]) \/ In(k, backlog[d])
BY ShapeFacts DEF Has, In

(* What a daemon that goes on listening lets go of was closed. *)
LEMMA HasNext ==
    ASSUME ShapeInv, LoopInv, PlaceInv, LinkInv, StartTypeOK, [Next]_vars,
           NEW e \in Daemons, NEW k, Has(e, k), link[k].st # "closed", Listening(e)'
    PROVE  Has(e, k)'
<1>0. /\ DOMAIN table = Daemons /\ DOMAIN backlog = Daemons
      /\ table[e] \in Seq(Links) /\ backlog[e] \in Seq(Links)
      /\ Len(table[e]) \in Nat /\ Len(backlog[e]) \in Nat
  BY ShapeFacts DEF ShapeInv
<1>1. ASSUME table'[e] = table[e], backlog'[e] = backlog[e] PROVE Has(e, k)'
  BY <1>1 DEF Has
<1>2. ASSUME NEW x \in Links, table'[e] = table[e], backlog'[e] = Append(backlog[e], x)
      PROVE  Has(e, k)'
  <2>1. /\ Len(backlog'[e]) = Len(backlog[e]) + 1
        /\ \A i \in 1 .. Len(backlog[e]) : backlog'[e][i] = backlog[e][i]
    BY <1>0, <1>2, AppendFacts
  <2>2. \A i \in 1 .. Len(backlog[e]) : i \in 1 .. Len(backlog'[e])
    BY <1>0, <2>1
  <2> QED BY <1>2, <2>1, <2>2 DEF Has
<1>3. CASE UNCHANGED vars
  BY <1>1, <1>3 DEF vars, loopVars
<1>4. ASSUME NEW j \in Clients, ClientStep(j) PROVE Has(e, k)'
  <2>1. table' = table /\ j \in Links
    BY <1>4, ClientLinks, ConstantFacts
  <2>2. backlog' = backlog \/ backlog' = [backlog EXCEPT ![path] = Append(@, j)]
    BY <1>4 DEF ClientStep, Connect, Ask, Receive, Close, loopVars
  <2>3. backlog'[e] = backlog[e] \/ backlog'[e] = Append(backlog[e], j)
    BY <1>0, <2>2
  <2> QED BY <1>1, <1>2, <2>1, <2>3
<1>5. ASSUME NEW d \in Daemons, Start(d) PROVE Has(e, k)'
  <2>1. table' = table /\ d \in Links
    BY <1>5, StartLinks, ConstantFacts
  <2>2. backlog' = backlog \/ backlog' = [backlog EXCEPT ![path] = Append(@, d)]
    BY <1>5, StartLinks
  <2>3. backlog'[e] = backlog[e] \/ backlog'[e] = Append(backlog[e], d)
    BY <1>0, <2>2
  <2> QED BY <1>1, <1>2, <2>1, <2>3
<1>6. ASSUME NEW d \in Daemons, d # e, Accept(d) \/ RemoveClosed(d) \/ End(d) PROVE Has(e, k)'
  <2>1. table'[e] = table[e] /\ backlog'[e] = backlog[e]
    BY <1>0, <1>6 DEF Accept, RemoveClosed, End
  <2> QED BY <1>1, <2>1
<1>7. ASSUME NEW d \in Daemons, Poll(d) \/ AcceptDone(d) \/ Serve(d) PROVE Has(e, k)'
  <2>1. table' = table /\ backlog' = backlog
    BY <1>7 DEF Poll, AcceptDone, Serve
  <2> QED BY <1>1, <2>1
<1>8. CASE Accept(e)
  <2> DEFINE x == Head(backlog[e])
  <2>1. table'[e] = Append(table[e], x) /\ backlog'[e] = Tail(backlog[e]) /\ backlog[e] # <<>>
    BY <1>0, <1>8 DEF Accept
  <2>2. /\ x = backlog[e][1] /\ x \in Links
        /\ Len(backlog'[e]) = Len(backlog[e]) - 1
        /\ \A i \in 1 .. Len(backlog[e]) - 1 : backlog'[e][i] = backlog[e][i + 1]
    BY <1>0, <2>1, TailFacts
  <2> HIDE DEF x
  <2>3. /\ Len(table'[e]) = Len(table[e]) + 1 /\ table'[e][Len(table[e]) + 1] = x
        /\ \A i \in 1 .. Len(table[e]) : table'[e][i] = table[e][i]
    BY <1>0, <2>1, <2>2, AppendFacts
  <2>4. ASSUME NEW i \in 1 .. Len(table[e]), table[e][i] = k PROVE Has(e, k)'
    <3>1. i \in 1 .. Len(table'[e]) /\ table'[e][i] = k
      BY <1>0, <2>3, <2>4
    <3> QED BY <3>1 DEF Has
  <2>5. ASSUME NEW i \in 1 .. Len(backlog[e]), backlog[e][i] = k PROVE Has(e, k)'
    <3>1. CASE i = 1
      <4>1. Len(table[e]) + 1 \in 1 .. Len(table'[e]) /\ table'[e][Len(table[e]) + 1] = k
        BY <1>0, <2>2, <2>3, <2>5, <3>1
      <4> QED BY <4>1 DEF Has
    <3>2. CASE i # 1
      <4>1. i - 1 \in 1 .. Len(backlog[e]) - 1 /\ (i - 1) + 1 = i
        BY <1>0, <3>2
      <4>2. i - 1 \in 1 .. Len(backlog'[e]) /\ backlog'[e][i - 1] = k
        BY <2>2, <2>5, <4>1
      <4> QED BY <4>2 DEF Has
    <3> QED BY <3>1, <3>2
  <2> QED BY <2>4, <2>5 DEF Has
<1>9. CASE RemoveClosed(e)
  <2>1. table'[e] = Without(table[e], removing[e]) /\ backlog' = backlog
    BY <1>0, <1>9 DEF RemoveClosed
  <2>2. Remains(table[e], removing[e], 1, table'[e])
    BY <1>0, <2>1, WithoutRemains DEF PlaceInv
  <2>3. \A j \in 1 .. Len(table[e]) : j \notin removing[e] =>
            \E i \in 1 .. Len(table'[e]) : table'[e][i] = table[e][j]
    BY <2>2 DEF Remains
  <2>4. ASSUME NEW i \in removing[e] PROVE link[table[e][i]].st = "closed"
    <3>1. Len(polled[e]) \in Nat /\ at[e] \in Nat
      BY ShapeFacts
    <3>2. at[e] \in 1 .. Len(polled[e]) + 1 /\ removing[e] \subseteq 1 .. at[e] - 1
      BY DEF LoopInv
    <3>3. i \in 1 .. Len(polled[e])
      BY <3>1, <3>2
    <3> QED BY <3>3 DEF LoopInv
  <2> QED BY <2>1, <2>3, <2>4 DEF Has
<1>10. ~End(e)
  BY DEF End, Exit, Crash, Goto, StartTypeOK, Listening
<1>11. ASSUME NEW d \in Daemons, LoopStep(d) \/ End(d) PROVE Has(e, k)'
  BY <1>6, <1>7, <1>8, <1>9, <1>10, <1>11 DEF LoopStep
<1> QED BY <1>3, <1>4, <1>5, <1>11, NextSplit

LEMMA OpenNext ==
    ASSUME ServiceInv, StartTypeOK, [Next]_vars
    PROVE  OpenInv'
<1> USE DEF ServiceInv
<1>1. ShapeInv'
  BY ShapeNext
<1> SUFFICES ASSUME NEW k \in Clients, NEW e \in Daemons,
                    link'[k].st \in OpenStates, link'[k].to = e, Listening(e)'
             PROVE  Has(e, k)'
  <2>1. \A k \in Clients, e \in Daemons : Has(e, k)' <=> In(k, table'[e]) \/ In(k, backlog'[e])
    <3>1. \A s \in Seq(Links) : DOMAIN s = 1 .. Len(s)
      BY LenProperties
    <3>2. \A e \in Daemons : table'[e] \in Seq(Links) /\ backlog'[e] \in Seq(Links)
      BY <1>1 DEF ShapeInv
    <3> QED BY <3>1, <3>2 DEF Has, In
  <2> QED BY <2>1 DEF OpenInv, In
<1>2. k \in Links /\ k \notin Daemons
  BY ConstantFacts
<1>3. link[k].st # "closed"
  BY <1>2, OnwardNext DEF Onward, OpenStates
<1>4. CASE link[k].st \in OpenStates /\ link[k].to = e
  <2>1. pc[e] \in Bound
    BY <1>2, <1>4 DEF LinkInv
  <2>2. Listening(e)
    BY <2>1, BoundNext
  <2>3. Has(e, k)
    BY <1>4, <2>2, HasIn DEF OpenInv
  <2> QED BY <1>3, <2>3, HasNext
<1>5. CASE ~(link[k].st \in OpenStates /\ link[k].to = e)
  <2>1. link'[k] # link[k]
    BY <1>5
  <2>2. ASSUME NEW j \in Clients, ClientStep(j) PROVE j = k /\ Connect(k)
    <3>1. j = k
      BY <1>2, <2>1, <2>2, ClientLinks
    <3>2. link[k].st # "new" => link'[k].to = link[k].to
      BY <2>2, <3>1, ClientLinks
    <3>3. Ask(k) \/ Receive(k) => link[k].st \in OpenStates /\ link[k].st # "new"
      BY DEF Ask, Receive, OpenStates
    <3>4. ~Close(k)
      BY <1>2 DEF Close, OpenStates, ShapeInv
    <3> QED BY <1>5, <2>2, <3>1, <3>2, <3>3, <3>4 DEF ClientStep
  <2>3. CASE Connect(k)
    <3>1. CASE ~ \E d \in Daemons : Serving(d)
      <4>1. link' = [link EXCEPT ![k].st = "closed"]
        BY <2>3, <3>1 DEF Connect
      <4>2. link'[k].st = "closed"
        BY <1>2, <4>1 DEF ShapeInv
      <4> QED BY <4>2 DEF OpenStates
    <3>2. CASE \E d \in Daemons : Serving(d)
      <4>1. /\ link' = [link EXCEPT ![k] = [to |-> path, st |-> "asking", requests |-> 1]]
            /\ backlog' = [backlog EXCEPT ![path] = Append(@, k)]
        BY <2>3, <3>2 DEF Connect
      <4>2. link'[k].to = path
        BY <1>2, <4>1 DEF ShapeInv
      <4>3. backlog'[e] = Append(backlog[e], k) /\ backlog[e] \in Seq(Links)
        BY <4>1, <4>2 DEF ShapeInv
      <4>4. Len(backlog[e]) + 1 \in 1 .. Len(backlog'[e]) /\ backlog'[e][Len(backlog[e]) + 1] = k
        BY <1>2, <4>3, AppendFacts
      <4> QED BY <4>4 DEF Has
    <3> QED BY <3>1, <3>2
  <2>4. ASSUME NEW d \in Daemons, Start(d) PROVE FALSE
    BY <1>2, <2>1, <2>4, StartLinks
  <2>5. ASSUME NEW d \in Daemons, Serve(d) PROVE Has(e, k)'
    <3>1. /\ at[d] \in 1 .. Len(table[d]) /\ table[d][at[d]] \in Links /\ UNCHANGED <<table, backlog>>
          /\ link' = link \/ \E s \in {"answered", "mute"} : link' = [link EXCEPT ![table[d][at[d]]].st = s]
      BY <2>5, ServeLinks
    <3>2. table[d][at[d]] = k
      BY <1>2, <2>1, <3>1 DEF ShapeInv
    <3>3. link[k].to = d
      BY <3>1, <3>2 DEF PlaceInv
    <3>4. PICK s \in {"answered", "mute"} : link' = link \/ link' = [link EXCEPT ![k].st = s]
      BY <3>1, <3>2
    <3>5. link'[k].to = link[k].to
      BY <1>2, <3>4 DEF ShapeInv
    <3> QED BY <3>1, <3>2, <3>3, <3>5 DEF Has
  <2>6. ASSUME NEW d \in Daemons, Poll(d) \/ Accept(d) \/ AcceptDone(d) \/ RemoveClosed(d) \/ End(d)
        PROVE  link' = link
    BY <2>6 DEF Poll, Accept, AcceptDone, RemoveClosed, End
  <2>7. CASE UNCHANGED vars
    BY <2>1, <2>7 DEF vars
  <2> QED BY <2>1, <2>2, <2>3, <2>4, <2>5, <2>6, <2>7, NextSplit DEF LoopStep
<1> QED BY <1>4, <1>5

LEMMA ServiceAlways == Spec => [](StartTypeOK /\ ServiceInv)
<1>1. ServiceInv /\ StartTypeOK /\ [Next]_vars => ServiceInv'
  BY ShapeNext, LoopNext, PlaceNext, LinkNext, OpenNext DEF ServiceInv
<1> QED BY <1>1, ServiceInit, ServiceStarts, StartTypeCorrect, PTL DEF Spec

(* The poll, accept, serve and remove steps of the loops and the calls of  *)
(* the clients keep the type of every variable; in particular no cycle     *)
(* looks at an entry that the table does not have, whatever was removed,   *)
(* and the indices that it removes are those of entries it has polled.     *)
THEOREM TypeAlways == Spec => []TypeOK
<1>1. ASSUME StartTypeOK, ServiceInv PROVE TypeOK
  <2> USE DEF ServiceInv
  <2>1. \A k \in Clients : link[k].requests \in 0 .. MaxRequests[k]
    BY <1>1, ShapeFacts, ConstantFacts DEF LinkInv
  <2>2. \A k \in Links : /\ link[k].to \in Daemons \cup {Nothing}
                         /\ link[k].st \in {"new", "asking", "answered", "mute", "idle", "failed", "closed"}
    BY <1>1, ShapeFacts DEF States
  <2>3. \A d \in Daemons : /\ \A i \in DOMAIN table[d] : table[d][i] \in Links
                           /\ \A i \in DOMAIN backlog[d] : backlog[d][i] \in Links
    BY <1>1, ShapeFacts
  <2>4. \A d \in Daemons : lpc[d] \in {"poll", "accept", "serve"}
    BY <1>1 DEF ShapeInv
  <2>5. \A d \in Daemons : /\ Len(polled[d]) <= Len(table[d])
                           /\ at[d] \in 1 .. Len(polled[d]) + 1 /\ removing[d] \subseteq 1 .. at[d] - 1
    BY <1>1 DEF LoopInv
  <2> QED BY <1>1, <2>1, <2>2, <2>3, <2>4, <2>5 DEF TypeOK
<1> QED BY <1>1, ServiceAlways, PTL

(* The loop of daemon_run drops no connection whose client has not closed  *)
(* it, and holds none twice, for any number of daemons on the path and of  *)
(* clients, whichever connections close in one cycle and however many were *)
(* accepted between the poll and the removal.                              *)
THEOREM OpenIsHeldAlways == Spec => []OpenIsHeld
<1>1. ASSUME StartTypeOK, ServiceInv PROVE OpenIsHeld
  <2> USE DEF ServiceInv
  <2>1. ASSUME NEW k \in Clients, link[k].st \in {"asking", "answered", "mute", "idle"}, Listening(link[k].to)
        PROVE  Held(k, link[k].to)
    <3>1. link[k].to \in Daemons
      BY <1>1, <2>1, ConstantFacts DEF LinkInv, OpenStates
    <3> QED BY <1>1, <2>1, <3>1 DEF OpenInv, OpenStates, Held
  <2>2. ASSUME NEW d \in Daemons, NEW k \in Links
        PROVE  Cardinality({i \in DOMAIN table[d] : table[d][i] = k})
                   + Cardinality({i \in DOMAIN backlog[d] : backlog[d][i] = k}) <= 1
    <3> DEFINE T == {i \in DOMAIN table[d] : table[d][i] = k}
               B == {i \in DOMAIN backlog[d] : backlog[d][i] = k}
    <3>1. DOMAIN table[d] = 1 .. Len(table[d]) /\ DOMAIN backlog[d] = 1 .. Len(backlog[d])
      BY <1>1, ShapeFacts
    <3>2. Distinct(table[d]) /\ Distinct(backlog[d])
          /\ \A i \in 1 .. Len(table[d]), j \in 1 .. Len(backlog[d]) : table[d][i] # backlog[d][j]
      BY <1>1 DEF PlaceInv
    <3>3. (\A i, j \in T : i = j) /\ (\A i, j \in B : i = j)
      BY <3>1, <3>2 DEF Distinct
    <3>4. \A S : (\A i, j \in S : i = j) => S = {} \/ \E i : S = {i}
      OBVIOUS
    <3>5. T = {} \/ B = {}
      BY <3>1, <3>2
    <3> HIDE DEF T, B
    <3>e. Cardinality({}) = 0 /\ \A x : Cardinality({x}) = 1
      BY FS_EmptySet, FS_Singleton
    <3>6. Cardinality(T) \in {0, 1} /\ (T = {} => Cardinality(T) = 0)
      BY <3>3, <3>4, <3>e
    <3>7. Cardinality(B) \in {0, 1} /\ (B = {} => Cardinality(B) = 0)
      BY <3>3, <3>4, <3>e
    <3>8. Cardinality(T) + Cardinality(B) <= 1
      BY <3>5, <3>6, <3>7
    <3> QED BY <3>8 DEF T, B
  <2> QED BY <2>1, <2>2 DEF OpenIsHeld
<1> QED BY <1>1, ServiceAlways, PTL
=============================================================================

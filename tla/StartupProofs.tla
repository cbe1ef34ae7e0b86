--------------------------- MODULE StartupProofs ---------------------------
(***************************************************************************)
(* Proofs about Startup, for every number of daemons that are started on   *)
(* the path, and that the daemons of Service, whatever clients they have,  *)
(* start and end as Startup says.                                          *)
(***************************************************************************)
EXTENDS Service, TLAPS

(* A daemon that somebody found in service has been through its bind for   *)
(* good: it can never come to serve the path again.                        *)
SeenHasBound ==
    \A d, e \in Daemons : d \in seen[e] => pc[d] \in {"registry", "loop", "exited", "crashed"}

IInv == StartTypeOK /\ SeenHasBound /\ SeenIsSafe

LEMMA StartTypeInit == StartInit => StartTypeOK
BY DEF StartInit, StartTypeOK

LEMMA StartTypeNext == StartTypeOK /\ [StartNext]_startVars => StartTypeOK'
<1> SUFFICES ASSUME StartTypeOK, [StartNext]_startVars PROVE StartTypeOK'
  OBVIOUS
<1> USE DEF StartTypeOK, Goto
<1>1. CASE UNCHANGED startVars
  BY <1>1 DEF startVars
<1>2. CASE StartNext
  <2>1. PICK d \in Daemons : StartStep(d) \/ Exit(d) \/ Crash(d)
    BY <1>2 DEF StartNext
  <2>2. CASE Exists(d)
    <3>1. {e \in Daemons : Serving(e)} \in SUBSET Daemons
      OBVIOUS
    <3>2. seen' \in [Daemons -> SUBSET Daemons]
      BY <2>2, <3>1 DEF Exists
    <3> QED BY <2>2, <3>2 DEF Exists
  <2>3. CASE Stat(d)
    BY <2>3 DEF Stat
  <2>4. CASE Probe(d)
    BY <2>4 DEF Probe
  <2>5. CASE Remove(d)
    BY <2>5 DEF Remove
  <2>6. CASE Bind(d)
    BY <2>6 DEF Bind
  <2>7. CASE Listen(d)
    BY <2>7 DEF Listen
  <2>8. CASE NewRegistry(d)
    BY <2>8 DEF NewRegistry
  <2>9. CASE Exit(d)
    BY <2>9 DEF Exit
  <2>10. CASE Crash(d)
    BY <2>10 DEF Crash
  <2> QED BY <2>1, <2>2, <2>3, <2>4, <2>5, <2>6, <2>7, <2>8, <2>9, <2>10 DEF StartStep
<1> QED BY <1>1, <1>2

(* The path, the positions of the daemons and their records keep their     *)
(* types through every start, exit and crash.                              *)
THEOREM StartTypeCorrect == StartSpec => []StartTypeOK
<1> QED BY StartTypeInit, StartTypeNext, PTL DEF StartSpec

(***************************************************************************)
(* A daemon in service is safe from those that started after it.           *)
(***************************************************************************)
LEMMA SafeInit == StartInit => IInv
<1> SUFFICES ASSUME StartInit PROVE IInv
  OBVIOUS
<1>1. \A d, e \in Daemons : d \notin seen[e]
  BY DEF StartInit
<1> QED BY <1>1, StartTypeInit DEF IInv, SeenHasBound, SeenIsSafe

(* Positions only matter to the invariant through three facts: who is      *)
(* listening, who has bound, who is past its probe.  A step of one daemon  *)
(* that records nobody new is checked against them.                        *)
LEMMA SafeStep ==
    ASSUME IInv, NEW d \in Daemons, StartStep(d) \/ Exit(d) \/ Crash(d)
    PROVE  SeenHasBound' /\ SeenIsSafe'
<1> USE DEF IInv, StartTypeOK, SeenHasBound, SeenIsSafe, Goto, Serving, Listening
<1>1. CASE Exists(d)
  <2>1. path' = path /\ pc' = [pc EXCEPT ![d] = IF path = Nothing THEN "bind" ELSE "stat"]
        /\ seen' = [seen EXCEPT ![d] = {e \in Daemons : Serving(e)}] /\ pc[d] = "off"
    BY <1>1 DEF Exists
  <2>2. ASSUME NEW a \in Daemons, NEW b \in Daemons, a \in seen'[b]
        PROVE  /\ pc'[a] \in {"registry", "loop", "exited", "crashed"}
               /\ Serving(a)' => pc'[b] \in {"stat", "probe", "exited", "crashed"}
    <3>1. CASE b = d
      <4>1. path = a /\ pc[a] \in {"registry", "loop"}
        BY <2>1, <2>2, <3>1
      <4>2. a # d /\ path # Nothing
        BY <2>1, <4>1, StartupAssumption
      <4> QED BY <2>1, <3>1, <4>1, <4>2
    <3>2. CASE b # d
      <4>1. a \in seen[b]
        BY <2>1, <2>2, <3>2
      <4>2. a # d /\ pc'[a] = pc[a] /\ pc'[b] = pc[b]
        BY <2>1, <3>2, <4>1
      <4> QED BY <2>1, <4>1, <4>2
    <3> QED BY <3>1, <3>2
  <2> QED BY <2>2
<1>2. CASE Stat(d)
  BY <1>2 DEF Stat
<1>3. CASE Probe(d)
  BY <1>3 DEF Probe
<1>4. CASE Remove(d)
  BY <1>4, StartupAssumption DEF Remove
<1>5. CASE Bind(d)
  BY <1>5, StartupAssumption DEF Bind
<1>6. CASE Listen(d)
  BY <1>6, StartupAssumption DEF Listen
<1>7. CASE NewRegistry(d)
  BY <1>7 DEF NewRegistry
<1>8. CASE Exit(d)
  BY <1>8, StartupAssumption DEF Exit
<1>9. CASE Crash(d)
  BY <1>9 DEF Crash
<1> QED BY <1>1, <1>2, <1>3, <1>4, <1>5, <1>6, <1>7, <1>8, <1>9 DEF StartStep

LEMMA SafeNext == IInv /\ [StartNext]_startVars => IInv'
<1> SUFFICES ASSUME IInv, [StartNext]_startVars PROVE IInv'
  OBVIOUS
<1>1. StartTypeOK'
  BY StartTypeNext DEF IInv
<1>2. CASE UNCHANGED startVars
  BY <1>1, <1>2 DEF startVars, IInv, SeenHasBound, SeenIsSafe, Serving, Listening
<1>3. CASE StartNext
  BY <1>1, <1>3, SafeStep DEF StartNext, IInv
<1> QED BY <1>2, <1>3

LEMMA SafeAlways == StartSpec => []IInv
<1> QED BY SafeInit, SafeNext, PTL DEF StartSpec

(* Server::create gets no further than its probe on a path that was in     *)
(* service when it began and still is.                                     *)
THEOREM SeenIsSafeAlways == StartSpec => []SeenIsSafe
<1>1. IInv => SeenIsSafe
  BY DEF IInv
<1> QED BY <1>1, SafeAlways, PTL

(* Server::create of a daemon that is started while another one serves the *)
(* path never takes the path away from it, in any interleaving with other  *)
(* starts, exits and crashes.                                              *)
THEOREM NoTakeoverAlways == StartSpec => NoTakeover
<1> DEFINE Kept == \A d \in Daemons : Serving(d) /\ path' # d =>
                      \E e \in Daemons : pc'[e] # pc[e] /\ (e = d \/ d \notin seen[e])
<1>1. ASSUME IInv, [StartNext]_startVars PROVE [Kept]_startVars
  <2> SUFFICES ASSUME StartNext PROVE Kept
    BY <1>1
  <2> SUFFICES ASSUME NEW d \in Daemons, Serving(d), path' # d
               PROVE  \E e \in Daemons : pc'[e] # pc[e] /\ (e = d \/ d \notin seen[e])
    OBVIOUS
  <2>1. PICK e \in Daemons : StartStep(e) \/ Exit(e) \/ Crash(e)
    BY DEF StartNext
  <2>2. path = d /\ path' # path
    BY DEF Serving
  <2>3. Remove(e) \/ Bind(e) \/ Listen(e) \/ Exit(e)
    BY <2>1, <2>2 DEF StartStep, Exists, Stat, Probe, NewRegistry, Crash
  <2>4. pc[e] \in {"remove", "bind", "listen", "registry", "loop"} /\ pc'[e] # pc[e]
    BY <1>1, <2>3 DEF IInv, StartTypeOK, Remove, Bind, Listen, Exit, Listening, Goto
  <2>5. d \notin seen[e]
    BY <1>1, <2>4 DEF IInv, SeenIsSafe
  <2> QED BY <2>4, <2>5
<1> QED BY <1>1, SafeAlways, PTL DEF StartSpec, NoTakeover

(***************************************************************************)
(* The event loop and the clients leave the path alone.                    *)
(***************************************************************************)

(* Accepting, serving and dropping connections, and whatever the clients   *)
(* do, changes nothing that Server::create and the Drop of a server act    *)
(* on: what is proved of StartSpec holds of daemons in service.            *)
THEOREM ServiceStarts == Spec => StartSpec
<1>1. Init => StartInit
  BY DEF Init
<1>2. [Next]_vars => [StartNext]_startVars
  <2> SUFFICES ASSUME [Next]_vars PROVE [StartNext]_startVars
    OBVIOUS
  <2>1. CASE UNCHANGED vars
    BY <2>1 DEF vars
  <2>2. ASSUME NEW k \in Clients, Connect(k) \/ Ask(k) \/ Receive(k) \/ Close(k)
        PROVE  UNCHANGED startVars
    BY <2>2 DEF Connect, Ask, Receive, Close
  <2>3. ASSUME NEW d \in Daemons, LoopStep(d) PROVE UNCHANGED startVars
    BY <2>3 DEF LoopStep, Poll, Accept, AcceptDone, Serve, RemoveClosed
  <2>4. ASSUME NEW d \in Daemons, Start(d) \/ End(d) PROVE StartNext
    BY <2>4 DEF Start, End, StartNext
  <2> QED BY <2>1, <2>2, <2>3, <2>4 DEF Next
<1> QED BY <1>1, <1>2, PTL DEF Spec, StartSpec
=============================================================================

------------------------------ MODULE Service ------------------------------
(***************************************************************************)
(* The event loop of the daemons that Startup starts, and the connections  *)
(* it serves: poll with its snapshot of the connection table, accept, one  *)
(* request per readable connection, the removal of closed connections.     *)
(* A request and its answer are one message each (Session has the bytes);  *)
(* what a request does to the registry is in Registry.                     *)
(***************************************************************************)
EXTENDS Startup, Naturals, Sequences, FiniteSets

CONSTANTS Clients,      \* AbacusClients, each with one connection in its life
          MaxRequests,  \* MaxRequests[k]: requests of client k, connect's attach included
          Watched       \* the connections whose progress is checked, a probe's too

(* The probe of a starting daemon is a connection too. *)
Links == Clients \cup Daemons

ASSUME ServiceAssumption ==
    /\ MaxRequests \in [Clients -> Nat \ {0}] /\ Watched \subseteq Links
    /\ Clients \cap (Daemons \cup {Nothing}) = {}

VARIABLES
    link,    \* each connection's client end: its peer, state and requests made
    table,   \* each daemon's clients, in order
    backlog, \* connections not accepted yet
    lpc,     \* where each daemon is in its loop: "poll", "accept", "serve"
    polled,  \* poll's revents for the entries the table had then
    fresh,   \* revents of the listener
    at,      \* index of the entry that is looked at next
    removing \* to_remove

loopVars == <<table, backlog, lpc, polled, fresh, at, removing>>
vars == <<startVars, link, loopVars>>

Init ==
    /\ StartInit
    /\ link = [k \in Links |-> [to |-> Nothing, st |-> "new", requests |-> 0]]
    /\ table = [d \in Daemons |-> <<>>] /\ backlog = [d \in Daemons |-> <<>>]
    /\ lpc = [d \in Daemons |-> "poll"] /\ polled = [d \in Daemons |-> <<>>]
    /\ fresh = [d \in Daemons |-> FALSE]
    /\ at = [d \in Daemons |-> 1] /\ removing = [d \in Daemons |-> {}]

In(k, s) == \E i \in DOMAIN s : s[i] = k

(* The daemon's end of a connection is open. *)
Held(k, d) == d \in Daemons /\ Listening(d) /\ (In(k, table[d]) \/ In(k, backlog[d]))

-----------------------------------------------------------------------------
(* connect: into the backlog of the daemon the path leads to, or refused. *)
Connect(k) ==
    /\ link[k].st = "new"
    /\ IF \E d \in Daemons : Serving(d)
       THEN /\ link' = [link EXCEPT ![k] = [to |-> path, st |-> "asking", requests |-> 1]]
            /\ backlog' = [backlog EXCEPT ![path] = Append(@, k)]
       ELSE link' = [link EXCEPT ![k].st = "closed"] /\ UNCHANGED backlog
    /\ UNCHANGED <<startVars, table, lpc, polled, fresh, at, removing>>

(* A call on the connection: its request goes out. *)
Ask(k) ==
    /\ link[k].st = "idle" /\ link[k].requests < MaxRequests[k]
    /\ link' = [link EXCEPT ![k].requests = @ + 1,
                            ![k].st = IF Held(k, link[k].to) THEN "asking" ELSE "failed"]
    /\ UNCHANGED <<startVars, loopVars>>

(* The answer is read; or, there being none, the end of the stream. *)
Receive(k) ==
    /\ \/ link[k].st = "answered" /\ link' = [link EXCEPT ![k].st = "idle"]
       \/ /\ link[k].st \in {"asking", "mute"} /\ ~Held(k, link[k].to)
          /\ link' = [link EXCEPT ![k].st = "failed"]
    /\ UNCHANGED <<startVars, loopVars>>

(* The AbacusClient is dropped or its process dies, in a call or not. *)
Close(k) ==
    /\ link[k].st \in {"asking", "answered", "mute", "idle", "failed"}
    /\ link' = [link EXCEPT ![k].st = "closed"]
    /\ UNCHANGED <<startVars, loopVars>>

-----------------------------------------------------------------------------
(* Mutants: the last entry of the table is left out of the poll; a hangup  *)
(* is not looked at.                                                       *)
Poll_NoLast(d) ==
    /\ pc[d] = "loop" /\ lpc[d] = "poll"
    /\ polled' = [polled EXCEPT ![d] = [i \in 1 .. (Len(table[d]) - 1) |->
                     CASE link[table[d][i]].st = "closed" -> "hup"
                       [] link[table[d][i]].st = "asking" -> "in"
                       [] OTHER -> "none"]]
    /\ fresh' = [fresh EXCEPT ![d] = backlog[d] # <<>>]
    /\ lpc' = [lpc EXCEPT ![d] = "accept"]
    /\ UNCHANGED <<startVars, link, table, backlog, at, removing>>

Poll_NoHup(d) ==
    /\ pc[d] = "loop" /\ lpc[d] = "poll"
    /\ polled' = [polled EXCEPT ![d] = [i \in DOMAIN table[d] |->
                     IF link[table[d][i]].st = "asking" THEN "in" ELSE "none"]]
    /\ fresh' = [fresh EXCEPT ![d] = backlog[d] # <<>>]
    /\ lpc' = [lpc EXCEPT ![d] = "accept"]
    /\ UNCHANGED <<startVars, link, table, backlog, at, removing>>

(* poll returns, by an event or by its timeout: POLLHUP on a connection    *)
(* whose client has closed, POLLIN on one with a request.                  *)
Poll(d) ==
    /\ pc[d] = "loop" /\ lpc[d] = "poll"
    /\ polled' = [polled EXCEPT ![d] = [i \in DOMAIN table[d] |->
                     CASE link[table[d][i]].st = "closed" -> "hup"
                       [] link[table[d][i]].st = "asking" -> "in"
                       [] OTHER -> "none"]]
    /\ fresh' = [fresh EXCEPT ![d] = backlog[d] # <<>>]
    /\ lpc' = [lpc EXCEPT ![d] = "accept"]
    /\ UNCHANGED <<startVars, link, table, backlog, at, removing>>

(* try_accept until it would block; a new connection comes after those     *)
(* that were polled.                                                       *)
Accept(d) ==
    /\ pc[d] = "loop" /\ lpc[d] = "accept" /\ fresh[d] /\ backlog[d] # <<>>
    /\ table' = [table EXCEPT ![d] = Append(@, Head(backlog[d]))]
    /\ backlog' = [backlog EXCEPT ![d] = Tail(@)]
    /\ UNCHANGED <<startVars, link, lpc, polled, fresh, at, removing>>

(* The accept loop ends; also by an error, the connections left waiting. *)
AcceptDone(d) ==
    /\ pc[d] = "loop" /\ lpc[d] = "accept"
    /\ lpc' = [lpc EXCEPT ![d] = "serve"]
    /\ UNCHANGED <<startVars, link, table, backlog, polled, fresh, at, removing>>

(* The next polled entry.  A client that closed after the poll has its     *)
(* request served, and the write of the answer fails: the connection goes, *)
(* unless the failure of that write is ignored.  An answer that cannot be  *)
(* encoded is not sent and the connection stays ("mute"); the answer to    *)
(* connect's attach of the clock always can be.                            *)
Serve(d) ==
    /\ pc[d] = "loop" /\ lpc[d] = "serve" /\ at[d] <= Len(polled[d])
    /\ LET k == table[d][at[d]]
           revents == polled[d][at[d]]
       IN  \/ /\ revents = "hup" \/ (revents = "in" /\ link[k].st = "closed")
              /\ removing' = [removing EXCEPT ![d] = @ \cup {at[d]}] /\ UNCHANGED link
           \/ /\ revents = "in" /\ link[k].st # "closed"
              /\ \/ link' = [link EXCEPT ![k].st = "answered"]
                 \/ link[k].requests > 1 /\ link' = [link EXCEPT ![k].st = "mute"]
              /\ UNCHANGED removing
           \/ /\ revents = "none" \/ (revents = "in" /\ link[k].st = "closed")
              /\ UNCHANGED <<link, removing>>
    /\ at' = [at EXCEPT ![d] = @ + 1]
    /\ UNCHANGED <<startVars, table, backlog, lpc, polled, fresh>>

RemoveAt(s, i) == SubSeq(s, 1, i - 1) \o SubSeq(s, i + 1, Len(s))

(* Mutant: removed from the front, the later indices have moved. *)
Without_Forward(s, removed) ==
    LET left[n \in 0 .. Len(s)] ==
            IF n = 0 THEN s
            ELSE IF n \in removed /\ n <= Len(left[n - 1]) THEN RemoveAt(left[n - 1], n) ELSE left[n - 1]
    IN  left[Len(s)]

(* Removed one by one from the back: the indices before stay. *)
Without(s, removed) ==
    LET left[n \in 1 .. Len(s) + 1] ==
            IF n = Len(s) + 1 THEN s
            ELSE IF n \in removed THEN RemoveAt(left[n + 1], n) ELSE left[n + 1]
    IN  left[1]

(* Mutant: to_remove outlives the cycle. *)
RemoveClosed_Kept(d) ==
    /\ pc[d] = "loop" /\ lpc[d] = "serve" /\ at[d] > Len(polled[d])
    /\ table' = [table EXCEPT ![d] = Without(@, removing[d])]
    /\ lpc' = [lpc EXCEPT ![d] = "poll"]
    /\ polled' = [polled EXCEPT ![d] = <<>>] /\ fresh' = [fresh EXCEPT ![d] = FALSE]
    /\ at' = [at EXCEPT ![d] = 1]
    /\ UNCHANGED <<startVars, link, backlog, removing>>

(* The end of the cycle; the connections removed are closed. *)
RemoveClosed(d) ==
    /\ pc[d] = "loop" /\ lpc[d] = "serve" /\ at[d] > Len(polled[d])
    /\ table' = [table EXCEPT ![d] = Without(@, removing[d])]
    /\ lpc' = [lpc EXCEPT ![d] = "poll"]
    /\ polled' = [polled EXCEPT ![d] = <<>>] /\ fresh' = [fresh EXCEPT ![d] = FALSE]
    /\ at' = [at EXCEPT ![d] = 1] /\ removing' = [removing EXCEPT ![d] = {}]
    /\ UNCHANGED <<startVars, link, backlog>>

-----------------------------------------------------------------------------
(* A start; its probe leaves a connection that is closed at once. *)
Start(d) ==
    /\ StartStep(d)
    /\ IF pc[d] = "probe" /\ path \in Daemons /\ Listening(path)
       THEN /\ backlog' = [backlog EXCEPT ![path] = Append(@, d)]
            /\ link' = [link EXCEPT ![d] = [to |-> path, st |-> "closed", requests |-> 0]]
       ELSE UNCHANGED <<backlog, link>>
    /\ UNCHANGED <<table, lpc, polled, fresh, at, removing>>

(* The process ends, and all its connections with it. *)
End(d) ==
    /\ Exit(d) \/ Crash(d)
    /\ table' = [table EXCEPT ![d] = <<>>] /\ backlog' = [backlog EXCEPT ![d] = <<>>]
    /\ lpc' = [lpc EXCEPT ![d] = "poll"] /\ polled' = [polled EXCEPT ![d] = <<>>]
    /\ fresh' = [fresh EXCEPT ![d] = FALSE]
    /\ at' = [at EXCEPT ![d] = 1] /\ removing' = [removing EXCEPT ![d] = {}]
    /\ UNCHANGED link

LoopStep(d) == Poll(d) \/ Accept(d) \/ AcceptDone(d) \/ Serve(d) \/ RemoveClosed(d)

Next ==
    \/ \E k \in Clients : Connect(k) \/ Ask(k) \/ Receive(k) \/ Close(k)
    \/ \E d \in Daemons : Start(d) \/ LoopStep(d) \/ End(d)

Spec == Init /\ [][Next]_vars

(* A daemon that runs keeps running: a start goes on, the loop never       *)
(* blocks, accept does not fail for ever; and a call reads what is there.  *)
FairSpec ==
    /\ Spec
    /\ \A d \in Daemons : /\ WF_vars((pc[d] # "off" /\ Start(d)) \/ LoopStep(d))
                          /\ SF_vars(Accept(d))
    /\ \A k \in Clients : WF_vars(Receive(k))

-----------------------------------------------------------------------------
(* Type invariant. *)
TypeOK ==
    /\ StartTypeOK
    /\ \A k \in Links : /\ link[k].to \in Daemons \cup {Nothing}
                         /\ link[k].st \in {"new", "asking", "answered", "mute", "idle", "failed",
                                              "closed"}
    /\ \A k \in Clients : link[k].requests \in 0 .. MaxRequests[k]
    /\ \A d \in Daemons :
          /\ \A i \in DOMAIN table[d] : table[d][i] \in Links
          /\ \A i \in DOMAIN backlog[d] : backlog[d][i] \in Links
          /\ lpc[d] \in {"poll", "accept", "serve"} /\ Len(polled[d]) <= Len(table[d])
          /\ at[d] \in 1 .. Len(polled[d]) + 1 /\ removing[d] \subseteq 1 .. at[d] - 1

(* A daemon that runs drops no connection whose client has not closed it,  *)
(* whichever close in the same cycle and whatever was accepted meanwhile,  *)
(* and holds none twice.                                                   *)
OpenIsHeld ==
    /\ \A k \in Clients : link[k].st \in {"asking", "answered", "mute", "idle"} /\ Listening(link[k].to)
                            => Held(k, link[k].to)
    /\ \A d \in Daemons, k \in Links :
          Cardinality({i \in DOMAIN table[d] : table[d][i] = k})
              + Cardinality({i \in DOMAIN backlog[d] : backlog[d][i] = k}) <= 1

(* The daemon has taken up the request, could not encode its answer, and   *)
(* keeps the connection.                                                   *)
Mute(k) == link[k].st = "mute" /\ Held(k, link[k].to)

(* A call ends: the daemon takes up the request and answers, or dies, or   *)
(* the client goes.  The exception is the answer that cannot be encoded,   *)
(* and it lasts no longer than the daemon.                                 *)
AskIsAnswered ==
    \A k \in Clients \cap Watched :
        (link[k].st \in {"asking", "mute"} /\ ~Mute(k))
            ~> (link[k].st \in {"answered", "idle", "failed", "closed"} \/ Mute(k))

(* The daemon lets go of every connection that was closed, a probe's too. *)
ClosedIsRemoved ==
    \A k \in Watched :
        (link[k].st = "closed" /\ Held(k, link[k].to)) ~> ~Held(k, link[k].to)
=============================================================================

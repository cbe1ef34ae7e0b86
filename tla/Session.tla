------------------------------ MODULE Session ------------------------------
(***************************************************************************)
(* One client connection: the calls of an AbacusClient on one end, the     *)
(* daemon's handle_client_request on the other, and the socket's two byte  *)
(* streams between them.  A byte of an answer is <<byte, fd>>; fd is the   *)
(* number of the request whose interlock's descriptor travels with that    *)
(* byte, 0 for none.  What the registry decides is any answer it can give  *)
(* (Registry models how it decides).                                       *)
(***************************************************************************)
EXTENDS Wire, FiniteSets

CONSTANTS Asks,           \* Asks[k]: what the k-th call may ask for
          MaxWrite,       \* a write takes all the bytes left, or MaxWrite of them
          NotFoundText,   \* what the daemon puts before a name it cannot find
          OtherText       \* the text of its other errors

CLOCK == <<99>>           \* the name "clock"

(* The calls ask for requests the client can build, and the format has room *)
(* for the request that connect makes.                                      *)
ASSUME SessionAssumption ==
    /\ Asks \in Seq(SUBSET [method : STRING, request : Requests])
    /\ MaxWrite \in Nat
    /\ NotFoundText \in Text /\ OtherText \in Text
    /\ encode_request(AttachInterlock(CLOCK)).fault = "none"

VARIABLES
    alive,   \* the daemon runs
    c2d,     \* bytes on their way to the daemon
    d2c,     \* bytes on their way to the client
    c,       \* the client: pc, call, request, bytes to write, bytes read, ...
    d,       \* the daemon: pc, bytes read of a request, bytes to write
    asked,   \* history: <<call, request>> of every frame the client began
    served,  \* history: <<what was decoded, what was answered>> for each frame
    lost     \* history: the kernel dropped the descriptor of an answer

vars == <<alive, c2d, d2c, c, d, asked, served, lost>>

Init ==
    /\ alive = TRUE /\ lost = FALSE
    /\ c2d = <<>> /\ d2c = <<>> /\ asked = <<>> /\ served = <<>>
    /\ c = [pc |-> "new", call |-> 0, ask |-> AttachInterlock(CLOCK), out |-> <<>>,
            buf |-> <<>>, fds |-> {}, size |-> 0, res |-> <<"none", 0>>]
    /\ d = [pc |-> "poll", in |-> <<>>, size |-> 0, out |-> <<>>]

(* The client's end of the socket is open. *)
Open == c.pc \notin {"new", "closed"}

-----------------------------------------------------------------------------
(* How many bytes a write may take. *)
Writes(bytes) == {n \in {MaxWrite, Len(bytes)} : 0 < n /\ n <= Len(bytes)}

(* How many bytes a read for `need` more takes from a stream. *)
Reads(stream, need) == IF Len(stream) < need THEN Len(stream) ELSE need

Drop(stream, n) == SubSeq(stream, n + 1, Len(stream))

(* u32::from_le_bytes of a prefix, against the limit. *)
TooLarge(prefix) ==
    \/ prefix[3] + prefix[4] > 0
    \/ from_le_bytes(Slice(prefix, 0, 2)) > MAX_MESSAGE_SIZE

Bytes(stream) == [i \in DOMAIN stream |-> stream[i][1]]
Fds(stream)   == {stream[i][2] : i \in DOMAIN stream} \ {0}

(***************************************************************************)
(* The client.                                                             *)
(***************************************************************************)
(* The call returns; a connect that fails drops its socket. *)
Returned(kind, fd) ==
    [c EXCEPT !.pc = IF c.call = 0 /\ kind # "Handle" THEN "closed" ELSE "idle",
              !.out = <<>>, !.buf = <<>>, !.fds = {}, !.size = 0, !.res = <<kind, fd>>]

(* connect: fails when nobody listens; else it attaches the clock. *)
Connect ==
    /\ c.pc = "new"
    /\ IF alive THEN /\ c' = [c EXCEPT !.pc = "send", !.out = encode_request(c.ask).value]
                     /\ asked' = Append(asked, <<0, c.ask>>)
       ELSE c' = Returned("Io", 0) /\ UNCHANGED asked
    /\ UNCHANGED <<alive, c2d, d2c, d, served, lost>>

(* A create method, attach_interlock or attach_wait_counter: the request is *)
(* refused, cannot be encoded, or is written.                               *)
Call ==
    /\ c.pc = "idle" /\ c.call < Len(Asks)
    /\ \E a \in Asks[c.call + 1] :
          LET frame == encode_request(a.request)
              error == IF a.method = "attach_interlock" /\ a.request.name = CLOCK
                       THEN "InvalidRequest" ELSE frame.fault
              begun == [c EXCEPT !.call = @ + 1, !.ask = a.request, !.res = <<error, 0>>]
          IN  IF error # "none" THEN c' = begun /\ UNCHANGED asked
              ELSE /\ c' = [begun EXCEPT !.pc = "send", !.out = frame.value]
                   /\ asked' = Append(asked, <<c.call + 1, a.request>>)
    /\ UNCHANGED <<alive, c2d, d2c, d, served, lost>>

(* send_frame: some of the bytes left; EPIPE when the daemon is gone. *)
SendFrame ==
    /\ c.pc = "send"
    /\ IF alive THEN \E n \in Writes(c.out) :
                        /\ c2d' = c2d \o SubSeq(c.out, 1, n)
                        /\ c' = [c EXCEPT !.out = Drop(@, n),
                                          !.pc = IF n = Len(c.out) THEN "prefix" ELSE "send"]
       ELSE c' = Returned("Io", 0) /\ UNCHANGED c2d
    /\ UNCHANGED <<alive, d2c, d, asked, served, lost>>

(* The client after a complete prefix. *)
Prefixed(prefix, fds) ==
    IF TooLarge(prefix) THEN Returned("FrameTooLarge", 0)
    ELSE [c EXCEPT !.pc = "payload", !.buf = <<>>, !.fds = fds, !.size = from_le_bytes(prefix)]

(* Mutant: a read of no bytes is retried. *)
EndOfStream_Retried(begun) ==
    /\ d2c = <<>> /\ ~alive
    /\ UNCHANGED <<c, c2d, d2c, lost>>

(* The daemon closed.  What it never read makes the kernel say ECONNRESET, *)
(* once; else the stream ends, in the middle of an answer or before one.   *)
EndOfStream(begun) ==
    /\ d2c = <<>> /\ ~alive
    /\ c' = Returned(IF c2d # <<>> THEN "Io" ELSE IF begun THEN "Truncated"
                     ELSE "ConnectionClosed", 0)
    /\ c2d' = <<>>
    /\ UNCHANGED <<d2c, lost>>

(* recvmsg for the prefix.  The descriptor comes with the first byte of an *)
(* answer, unless the client has no room for one: MSG_CTRUNC.              *)
RecvMsg ==
    LET n   == Reads(d2c, LENGTH_PREFIX_BYTES)
        got == SubSeq(d2c, 1, n)
    IN  /\ n > 0
        /\ d2c' = Drop(d2c, n)
        /\ \/ Fds(got) # {} /\ c' = Returned("Truncated", 0) /\ lost' = TRUE
           \/ /\ c' = IF n = LENGTH_PREFIX_BYTES THEN Prefixed(Bytes(got), Fds(got))
                      ELSE [c EXCEPT !.pc = "rest", !.buf = Bytes(got), !.fds = Fds(got)]
              /\ UNCHANGED lost
        /\ UNCHANGED c2d

(* Mutant: the client's socket has a read timeout. *)
RecvPrefix_Timeout ==
    /\ c.pc = "prefix"
    /\ \/ RecvMsg
       \/ EndOfStream(FALSE)
       \/ d2c = <<>> /\ alive /\ c' = Returned("WouldBlock", 0) /\ UNCHANGED <<c2d, d2c, lost>>
    /\ UNCHANGED <<alive, d, asked, served>>

RecvPrefix ==
    /\ c.pc = "prefix"
    /\ RecvMsg \/ EndOfStream(FALSE)
    /\ UNCHANGED <<alive, d, asked, served>>

(* read_exact of the rest of a short prefix. *)
ReadRest ==
    /\ c.pc = "rest"
    /\ \/ LET n   == Reads(d2c, LENGTH_PREFIX_BYTES - Len(c.buf))
              got == c.buf \o Bytes(SubSeq(d2c, 1, n))
          IN  /\ n > 0
              /\ d2c' = Drop(d2c, n)
              /\ c' = IF Len(got) = LENGTH_PREFIX_BYTES THEN Prefixed(got, c.fds)
                      ELSE [c EXCEPT !.buf = got]
              /\ UNCHANGED <<c2d, lost>>
       \/ EndOfStream(TRUE)
    /\ UNCHANGED <<alive, d, asked, served>>

(* read_exact of the payload; a plain read drops any descriptor it meets. *)
ReadPayload ==
    /\ c.pc = "payload" /\ Len(c.buf) < c.size
    /\ \/ LET n == Reads(d2c, c.size - Len(c.buf))
          IN  /\ n > 0
              /\ d2c' = Drop(d2c, n)
              /\ c' = [c EXCEPT !.buf = @ \o Bytes(SubSeq(d2c, 1, n))]
              /\ UNCHANGED <<c2d, lost>>
       \/ EndOfStream(TRUE)
    /\ UNCHANGED <<alive, d, asked, served>>

parse_daemon_error(code) ==
    CASE code = ERR_INTERLOCK_REAPED    -> "InterlockReaped"
      [] code = ERR_INTERLOCK_NOT_FOUND -> "InterlockNotFound"
      [] code = ERR_ALLOCATION_FAILED   -> "AllocationFailed"
      [] code = ERR_INVALID_REQUEST     -> "InvalidRequest"
      [] OTHER                          -> "UnexpectedResponse"

Wanted(request) == IF request.tag = TAG_CREATE_INTERLOCK THEN TAG_CREATED ELSE TAG_ATTACHED

(* The payload is complete: recv_response checks it, and the call opens the *)
(* interlock it was sent, which may fail.                                   *)
Finish ==
    /\ c.pc = "payload" /\ Len(c.buf) = c.size
    /\ LET r == decode_response(c.buf)
           kind == CASE Failed(r) -> r.fault
                     [] ~Failed(r) /\ Cardinality(c.fds) # expected_fd_count(r.value) -> "Truncated"
                     [] OTHER ->
                          CASE r.value.tag = TAG_ERROR -> parse_daemon_error(r.value.code)
                            [] r.value.tag = Wanted(c.ask) -> "Handle"
                            [] OTHER -> "UnexpectedResponse"
       IN  \/ c' = Returned(kind, IF kind = "Handle" THEN CHOOSE f \in c.fds : TRUE ELSE 0)
           \/ kind = "Handle" /\ c' = Returned("MmapFailed", 0)
    /\ UNCHANGED <<alive, c2d, d2c, d, asked, served, lost>>

(* The AbacusClient is dropped, or its process dies in a call. *)
ClientCloses ==
    /\ Open
    /\ c' = [c EXCEPT !.pc = "closed", !.out = <<>>, !.buf = <<>>, !.fds = {}, !.size = 0]
    /\ d2c' = <<>>
    /\ UNCHANGED <<alive, c2d, d, asked, served, lost>>

(* MSG_PEEK: a byte waiting or EAGAIN says the connection is alive. *)
is_connected == d2c # <<>> \/ alive

(***************************************************************************)
(* The daemon.                                                             *)
(***************************************************************************)
(* poll says POLLHUP: the connection is removed, whatever it still holds. *)
PollHangup ==
    /\ alive /\ d.pc = "poll" /\ c.pc = "closed"
    /\ d' = [d EXCEPT !.pc = "removed"]
    /\ UNCHANGED <<alive, c2d, d2c, c, asked, served, lost>>

(* poll says POLLIN: recv_request starts. *)
PollIn ==
    /\ alive /\ d.pc = "poll" /\ Open /\ c2d # <<>>
    /\ d' = [d EXCEPT !.pc = "prefix"]
    /\ UNCHANGED <<alive, c2d, d2c, c, asked, served, lost>>

(* The daemon with an answer to write, or, when it cannot be encoded, with *)
(* nothing to say.  A "tell" ignores the failure of its write.             *)
Answering(pc, decoded, resp) ==
    LET n     == Len(served) + 1
        frame == encode_response(resp)
        fd(i) == IF i = 1 /\ expected_fd_count(resp) = 1 THEN n ELSE 0
    IN  /\ served' = Append(served, <<decoded, resp>>)
        /\ d' = IF Failed(frame) THEN [d EXCEPT !.pc = "poll", !.in = <<>>, !.size = 0]
                ELSE [pc |-> pc, in |-> <<>>, size |-> 0,
                      out |-> [i \in DOMAIN frame.value |-> <<frame.value[i], fd(i)>>]]

(* read_exact_retrying, the mode of the socket non-blocking: it spins until *)
(* the bytes come, or the client closes and the frame is truncated.         *)
ReadPrefix ==
    /\ alive /\ d.pc = "prefix"
    /\ LET n   == Reads(c2d, LENGTH_PREFIX_BYTES - Len(d.in))
           got == d.in \o SubSeq(c2d, 1, n)
       IN  /\ n > 0
           /\ c2d' = Drop(c2d, n)
           /\ IF Len(got) < LENGTH_PREFIX_BYTES THEN d' = [d EXCEPT !.in = got] /\ UNCHANGED served
              ELSE IF TooLarge(got)
              THEN Answering("tell", Fault("FrameTooLarge"), Error(ERR_INVALID_REQUEST, OtherText))
              ELSE /\ d' = [d EXCEPT !.pc = "payload", !.in = <<>>, !.size = from_le_bytes(got)]
                   /\ UNCHANGED served
    /\ UNCHANGED <<alive, d2c, c, asked, lost>>

ReadRequest ==
    /\ alive /\ d.pc = "payload" /\ Len(d.in) < d.size
    /\ LET n == Reads(c2d, d.size - Len(d.in))
       IN  /\ n > 0
           /\ c2d' = Drop(c2d, n)
           /\ d' = [d EXCEPT !.in = @ \o SubSeq(c2d, 1, n)]
    /\ UNCHANGED <<alive, d2c, c, asked, served, lost>>

(* Mutant: a read of no bytes is retried like one that would block. *)
TruncatedFrame_Retried ==
    /\ alive
    /\ d.pc = "prefix" \/ (d.pc = "payload" /\ Len(d.in) < d.size)
    /\ c2d = <<>> /\ ~Open
    /\ UNCHANGED vars

(* The answer to a truncated frame goes to a closed socket. *)
TruncatedFrame ==
    /\ alive
    /\ d.pc = "prefix" \/ (d.pc = "payload" /\ Len(d.in) < d.size)
    /\ c2d = <<>> /\ ~Open
    /\ d' = [d EXCEPT !.pc = "poll", !.in = <<>>, !.size = 0]
    /\ UNCHANGED <<alive, c2d, d2c, c, asked, served, lost>>

WatchedNames(req) ==
    {req.watched_name[i] : i \in DOMAIN req.watched_name}
        \cup UNION {{req.conditions[i][k][1] : k \in DOMAIN req.conditions[i]} :
                    i \in DOMAIN req.conditions}

NotFound(name) == Error(ERR_INTERLOCK_NOT_FOUND, NotFoundText \o name)

(* The answers of a create and of an attach, and how each is written.  The *)
(* descriptor cannot be duplicated: allocation_failed, told.               *)
Answers(req) ==
    IF req.tag = TAG_CREATE_INTERLOCK
    THEN {<<"write", Created(Len(served) + 1)>>, <<"tell", Error(ERR_ALLOCATION_FAILED, OtherText)>>,
          <<"write", Error(ERR_ALLOCATION_FAILED, OtherText)>>,
          <<"write", Error(ERR_INVALID_REQUEST, OtherText)>>}
         \cup {<<"write", NotFound(w)>> : w \in WatchedNames(req)}
    ELSE {<<"write", Attached(Len(served) + 1)>>, <<"tell", Error(ERR_ALLOCATION_FAILED, OtherText)>>}
         \cup {<<"write", NotFound(w)>> : w \in {req.name} \ {CLOCK}}

(* The frame is complete: handle_client_request decodes and answers it. *)
HandleRequest ==
    /\ alive /\ d.pc = "payload" /\ Len(d.in) = d.size
    /\ LET req == decode_request(d.in)
       IN  IF Failed(req) THEN Answering("tell", req, Error(ERR_INVALID_REQUEST, OtherText))
           ELSE \E a \in Answers(req.value) : Answering(a[1], req, a[2])
    /\ UNCHANGED <<alive, c2d, d2c, c, asked, lost>>

(* sendmsg_with_fds, write_all_retrying: some of the bytes left.  EPIPE is *)
(* a connection error, unless the answer is only told.                     *)
SendResponse ==
    /\ alive /\ d.pc \in {"write", "tell"}
    /\ IF Open THEN \E n \in Writes(d.out) :
                       /\ d2c' = d2c \o SubSeq(d.out, 1, n)
                       /\ d' = [d EXCEPT !.out = Drop(@, n),
                                         !.pc = IF n = Len(d.out) THEN "poll" ELSE @]
       ELSE /\ d' = [d EXCEPT !.pc = IF @ = "write" THEN "removed" ELSE "poll", !.out = <<>>]
            /\ UNCHANGED d2c
    /\ UNCHANGED <<alive, c2d, c, asked, served, lost>>

(* The daemon dies; what it had written can still be read. *)
DaemonDies ==
    /\ alive /\ alive' = FALSE
    /\ d' = [pc |-> "dead", in |-> <<>>, size |-> 0, out |-> <<>>]
    /\ UNCHANGED <<c2d, d2c, c, asked, served, lost>>

-----------------------------------------------------------------------------
ClientStep == Connect \/ SendFrame \/ RecvPrefix \/ ReadRest \/ ReadPayload \/ Finish
DaemonStep == PollHangup \/ PollIn \/ ReadPrefix \/ ReadRequest \/ TruncatedFrame
                  \/ HandleRequest \/ SendResponse

Next == ClientStep \/ Call \/ ClientCloses \/ DaemonStep \/ DaemonDies

Spec == Init /\ [][Next]_vars

(* A call runs until it returns and the daemon's loop does not stop. *)
FairSpec == Spec /\ WF_vars(ClientStep) /\ WF_vars(DaemonStep)
-----------------------------------------------------------------------------
(* Type invariant; and unless a descriptor was lost, after which the       *)
(* client no longer waits for its answers, the daemon never has more than  *)
(* one frame to read.                                                      *)
TypeOK ==
    /\ alive \in BOOLEAN /\ lost \in BOOLEAN
    /\ c.pc \in {"new", "idle", "send", "prefix", "rest", "payload", "closed"}
    /\ d.pc \in {"poll", "prefix", "payload", "write", "tell", "removed", "dead"}
    /\ c.call \in 0 .. Len(Asks) /\ Cardinality(c.fds) <= 1
    /\ \A i \in DOMAIN c2d : c2d[i] \in Byte
    /\ \A i \in DOMAIN d2c : d2c[i][1] \in Byte
    /\ Len(served) <= Len(asked)
    /\ lost \/ Len(c2d) <= LENGTH_PREFIX_BYTES + MAX_MESSAGE_SIZE

(* The daemon decodes every frame to the very request the client built,    *)
(* whatever the lengths of its names and however the bytes are cut: no     *)
(* request of the client is a protocol fault, and none shifts the next.    *)
RequestIsUnderstood ==
    \A n \in DOMAIN served : served[n][1] = Ok(asked[n][2])

(* A call returns the answer to its own request: the handle it returns is  *)
(* the interlock the daemon made or found for it, and an error is the      *)
(* daemon's verdict on it, never what an earlier call left on the socket;  *)
(* and between calls is_connected is true only of a daemon that runs, no   *)
(* left-over answer being taken for a sign of life.  (A descriptor the     *)
(* client had no room for does leave bytes behind.)                        *)
AnswerIsMine ==
    LET mine == {n \in DOMAIN served : asked[n][1] = c.call}
    IN  c.pc = "idle" /\ ~lost =>
            /\ c.res[1] = "Handle" => c.res[2] \in mine
            /\ c.res[1] \in {"InterlockNotFound", "AllocationFailed"} =>
                  \E n \in mine : served[n][2].tag = TAG_ERROR
                                  /\ parse_daemon_error(served[n][2].code) = c.res[1]
            /\ c.res[1] \in {"Truncated", "UnsupportedVersion", "UnknownTag", "InvalidUtf8",
                             "UnexpectedResponse", "ConnectionClosed", "Io"} => ~alive
            /\ is_connected <=> alive

(* The daemon could not encode its last answer and never sent it. *)
Mute == served # <<>> /\ Failed(encode_response(served[Len(served)][2]))

(* Every call returns, also when the daemon dies in the middle of it, as   *)
(* long as no answer has been dropped and no descriptor lost.              *)
CallReturns ==
    (c.pc \in {"send", "prefix", "rest", "payload"}) ~> (c.pc \in {"idle", "closed"} \/ lost \/ Mute)

(* The daemon's loop comes back to poll from every request, also from a    *)
(* frame whose client dies half-way: it serves all the clients.            *)
LoopContinues ==
    (d.pc \notin {"poll", "removed", "dead"}) ~> (d.pc \in {"poll", "removed", "dead"})
=============================================================================

------------------------------ MODULE Startup ------------------------------
(***************************************************************************)
(* Daemons that start, run and end on one socket path: Server::create call *)
(* by call, Registry::new, and the Drop of the server, which removes       *)
(* whatever the path then names.  Each element of Daemons is one process;  *)
(* a restart is another element.                                           *)
(***************************************************************************)
CONSTANTS Daemons,     \* processes started with this path
          Nothing,     \* the path names nothing
          PlainFile    \* the path names something that is no socket

ASSUME StartupAssumption == Nothing \notin Daemons /\ PlainFile \notin Daemons /\ Nothing # PlainFile

VARIABLES
    path,   \* Nothing, PlainFile or the daemon that bound the socket it names
    pc,     \* where each daemon is
    seen    \* history: the daemons that served the path when this one started

startVars == <<path, pc, seen>>

(* The listener exists: connect succeeds, also before the first accept. *)
Listening(d) == pc[d] \in {"registry", "loop"}
Serving(d)   == path = d /\ Listening(d)

StartInit ==
    /\ path \in {Nothing, PlainFile}
    /\ pc = [d \in Daemons |-> "off"]
    /\ seen = [d \in Daemons |-> {}]

Goto(d, l) == pc' = [pc EXCEPT ![d] = l]

(* path.exists() *)
Exists(d) ==
    /\ pc[d] = "off"
    /\ Goto(d, IF path = Nothing THEN "bind" ELSE "stat")
    /\ seen' = [seen EXCEPT ![d] = {e \in Daemons : Serving(e)}]
    /\ UNCHANGED path

(* is_socket_file: the path may have vanished (an I/O error), or may not   *)
(* name a socket (SocketPathOccupied).                                     *)
Stat(d) ==
    /\ pc[d] = "stat"
    /\ Goto(d, IF path \in Daemons THEN "probe" ELSE "exited")
    /\ UNCHANGED <<path, seen>>

(* Mutant: a daemon that has not accepted anybody yet is taken for dead. *)
Probe_LoopOnly(d) ==
    /\ pc[d] = "probe"
    /\ Goto(d, IF \E e \in Daemons : path = e /\ pc[e] = "loop" THEN "exited" ELSE "remove")
    /\ UNCHANGED <<path, seen>>

(* probe_connect_succeeds: somebody listens, or the socket is stale. *)
Probe(d) ==
    /\ pc[d] = "probe"
    /\ Goto(d, IF \E e \in Daemons : Serving(e) THEN "exited" ELSE "remove")
    /\ UNCHANGED <<path, seen>>

(* remove_file, its result ignored. *)
Remove(d) ==
    /\ pc[d] = "remove"
    /\ path' = Nothing
    /\ Goto(d, "bind")
    /\ UNCHANGED seen

(* UnixListener::bind makes the socket, unless the path has come to exist. *)
Bind(d) ==
    /\ pc[d] = "bind"
    /\ IF path = Nothing THEN path' = d /\ Goto(d, "listen")
                         ELSE Goto(d, "exited") /\ UNCHANGED path
    /\ UNCHANGED seen

(* listen, of the library and again with LISTEN_BACKLOG: when the first    *)
(* fails, or set_nonblocking, the socket is left; when the second fails    *)
(* whatever the path names is removed.                                     *)
Listen(d) ==
    /\ pc[d] = "listen"
    /\ \/ Goto(d, "registry") /\ UNCHANGED path
       \/ Goto(d, "exited") /\ path' \in {path, Nothing}
    /\ UNCHANGED seen

(* Registry::new *)
NewRegistry(d) ==
    /\ pc[d] = "registry"
    /\ Goto(d, "loop")
    /\ UNCHANGED <<path, seen>>

(* Registry::new or poll fails: daemon_run returns and drops the server. *)
Exit(d) ==
    /\ Listening(d)
    /\ path' = Nothing
    /\ Goto(d, "exited")
    /\ UNCHANGED seen

(* The process is killed: the path stays. *)
Crash(d) ==
    /\ pc[d] \notin {"off", "exited", "crashed"}
    /\ Goto(d, "crashed")
    /\ UNCHANGED <<path, seen>>

StartStep(d) ==
    \/ Exists(d) \/ Stat(d) \/ Probe(d) \/ Remove(d) \/ Bind(d) \/ Listen(d) \/ NewRegistry(d)

StartNext == \E d \in Daemons : StartStep(d) \/ Exit(d) \/ Crash(d)

StartSpec == StartInit /\ [][StartNext]_startVars

-----------------------------------------------------------------------------
(* Type invariant. *)
StartTypeOK ==
    /\ path \in Daemons \cup {Nothing, PlainFile}
    /\ pc \in [Daemons -> {"off", "stat", "probe", "remove", "bind", "listen", "registry", "loop",
                           "exited", "crashed"}]
    /\ seen \in [Daemons -> SUBSET Daemons]

(* A daemon that was started while another served the path gets no further *)
(* than the probe as long as that one serves it.                           *)
SeenIsSafe ==
    \A d, e \in Daemons :
        d \in seen[e] /\ Serving(d) => pc[e] \in {"stat", "probe", "exited", "crashed"}

(* The path of a daemon that serves is only ever taken away by its own end *)
(* or by a daemon whose start began before it served: never by one that    *)
(* was started on a path in use.                                           *)
NoTakeover ==
    [][\A d \in Daemons : Serving(d) /\ path' # d =>
          \E e \in Daemons : pc'[e] # pc[e] /\ (e = d \/ d \notin seen[e])]_startVars
=============================================================================

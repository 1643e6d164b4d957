------------------------- MODULE UDPServerLifecycle -------------------------
(***************************************************************************)
(* Starting and stopping the server of gpk/gpk_udp_server.cpp, from the    *)
(* buttons of gpk/gpk_udp_server_app.cpp.  The application, the listen     *)
(* thread of each start and the update thread each of those begins share   *)
(* SUDPServer.Listen and SUDPServer.Socket without a lock.  The listen     *)
(* thread closes the listening socket and creates it again for each        *)
(* datagram, and waits in recvfrom; serverStop clears Listen and sends     *)
(* itself a DISCONNECT through that socket to wake it.                     *)
(*                                                                         *)
(* Sockets are numbered as they are created, 0 is INVALID_SOCKET.  The     *)
(* sleep of 100 ms in serverStop, and the time between two clicks, stand   *)
(* for a synchronisation the code does not have.  Nothing in the model     *)
(* depends on them: the history variable timely says whether every thread  *)
(* that could run did so within them, for the properties that hold only    *)
(* then.                                                                   *)
(*                                                                         *)
(* An operator that begins with Bug is a defect to seed in the one that    *)
(* follows it; no action uses it.                                          *)
(***************************************************************************)
EXTENDS Naturals, FiniteSets

CONSTANTS
    MaxStarts,    \* bound: starts
    MaxClients,   \* bound: the slots of Clients
    MaxAttempts,  \* DISCONNECTs serverStop sends at most: 10 in the code
    MaxSockets    \* bound: listening sockets created

ASSUME LifecycleAssumption ==
    /\ {MaxStarts, MaxClients, MaxSockets} \subseteq Nat /\ MaxAttempts \in Nat \ {0}

Starts == 1..MaxStarts
Sockets == 0..MaxSockets

VARIABLES
    app,       \* the application: ready, stopping (in serverStop)
    restart,   \* is serverStop called by Restart?
    attempt,   \* DISCONNECTs sent by this serverStop
    starts,    \* starts so far
    listen,    \* SUDPServer.Listen
    socket,    \* SUDPServer.Socket
    sockets,   \* how many were created
    open,      \* those not closed, which are bound to the port
    wakeups,   \* the sockets with a DISCONNECT in them
    clients,   \* Clients.size()
    listener,  \* the listen thread of each start, and the socket it waits on
    updater,   \* the update thread of each start
    timely     \* history: the sleeps were long enough so far

vars == <<app, restart, attempt, starts, listen, socket, sockets, open, wakeups, clients,
          listener, updater, timely>>

Init ==
    /\ app = "ready" /\ restart = FALSE /\ attempt = 0 /\ starts = 0
    /\ listen = FALSE /\ socket = 0 /\ sockets = 0 /\ open = {} /\ wakeups = {}
    /\ clients = 0
    /\ listener = [k \in Starts |-> [at |-> "none", sock |-> 0]]
    /\ updater = [k \in Starts |-> "none"]
    /\ timely = TRUE

Runs(k) ==
    \/ listener[k].at \in {"spawned", "loop", "closed", "ended", "clearing"}
    \/ listener[k].at = "waiting" /\ (listener[k].sock \notin open \/ listener[k].sock \in wakeups)
    \/ updater[k] = "running" /\ ~listen

\* The application has slept, or waited for a click: did the other threads go first?
Slept == timely' = (timely /\ \A k \in Starts : ~Runs(k))

Goto(k, step) == listener' = [listener EXCEPT ![k].at = step]

----------------------------------------------------------------------------
\* The application

BeginListener ==
    /\ starts < MaxStarts
    /\ starts' = starts + 1 /\ listen' = TRUE
    /\ Goto(starts + 1, "spawned")

\* serverStart
Start ==
    /\ app = "ready" /\ ~listen /\ Slept
    /\ BeginListener
    /\ UNCHANGED <<app, restart, attempt, socket, sockets, open, wakeups, clients, updater>>

\* serverStop begins, for the button Stop or for Restart.
StopBegin ==
    /\ app = "ready" /\ listen /\ Slept
    /\ app' = "stopping" /\ attempt' = 0
    /\ restart' \in BOOLEAN /\ (restart' => starts < MaxStarts)
    /\ listen' = FALSE
    /\ UNCHANGED <<starts, socket, sockets, open, wakeups, clients, listener, updater>>

BugSendsNothing ==
    /\ app = "stopping" /\ attempt < MaxAttempts
    /\ IF attempt = 0 THEN UNCHANGED timely ELSE Slept /\ clients # 0
    /\ attempt' = attempt + 1
    /\ UNCHANGED <<app, restart, starts, listen, socket, sockets, open, wakeups, clients, listener, updater>>
BugSendsOneMore ==
    /\ app = "stopping" /\ attempt <= MaxAttempts
    /\ IF attempt = 0 THEN UNCHANGED timely ELSE Slept /\ clients # 0
    /\ attempt' = attempt + 1
    /\ wakeups' = IF socket \in open THEN wakeups \cup {socket} ELSE wakeups
    /\ UNCHANGED <<app, restart, starts, listen, socket, sockets, open, clients, listener, updater>>
BugForgetsAttempts ==
    /\ app = "stopping" /\ attempt < MaxAttempts
    /\ IF attempt = 0 THEN UNCHANGED timely ELSE Slept /\ clients # 0
    /\ attempt' = 1
    /\ wakeups' = IF socket \in open THEN wakeups \cup {socket} ELSE wakeups
    /\ UNCHANGED <<app, restart, starts, listen, socket, sockets, open, clients, listener, updater>>
StopAttempt ==
    /\ app = "stopping" /\ attempt < MaxAttempts
    /\ IF attempt = 0 THEN UNCHANGED timely ELSE Slept /\ clients # 0
    /\ attempt' = attempt + 1
    /\ wakeups' = IF socket \in open THEN wakeups \cup {socket} ELSE wakeups
    /\ UNCHANGED <<app, restart, starts, listen, socket, sockets, open, clients, listener, updater>>

\* It does not wait for the threads to end; Restart starts another.
BugDoesNotSleep ==
    /\ app = "stopping" /\ attempt > 0
    /\ attempt = MaxAttempts \/ clients = 0
    /\ app' = "ready"
    /\ IF restart THEN BeginListener ELSE UNCHANGED <<starts, listen, listener>>
    /\ UNCHANGED <<restart, attempt, socket, sockets, open, wakeups, clients, updater, timely>>
StopEnd ==
    /\ app = "stopping" /\ attempt > 0 /\ Slept
    /\ attempt = MaxAttempts \/ clients = 0
    /\ app' = "ready"
    /\ IF restart THEN BeginListener ELSE UNCHANGED <<starts, listen, listener>>
    /\ UNCHANGED <<restart, attempt, socket, sockets, open, wakeups, clients, updater>>

----------------------------------------------------------------------------
\* The listen threads: threadServer, server, serverListenTick

\* Listen is set once more, and the update thread begins.
ListenBegin(k) ==
    /\ listener[k].at = "spawned"
    /\ listen' = TRUE
    /\ updater' = [updater EXCEPT ![k] = "running"]
    /\ Goto(k, "loop")
    /\ UNCHANGED <<app, restart, attempt, starts, socket, sockets, open, wakeups, clients, timely>>

ListenLoop(k) ==
    /\ listener[k].at = "loop"
    /\ IF listen
       THEN Goto(k, "closed") /\ open' = open \ {socket} /\ socket' = 0
       ELSE Goto(k, "ended") /\ UNCHANGED <<open, socket>>
    /\ UNCHANGED <<app, restart, attempt, starts, listen, sockets, wakeups, clients, updater, timely>>

\* The port can be bound by one socket; a tick that fails to bind it is made again.
ListenOpen(k) ==
    /\ listener[k].at = "closed" /\ sockets < MaxSockets
    /\ sockets' = sockets + 1
    /\ socket' = sockets + 1
    /\ IF open = {}
       THEN /\ open' = {sockets + 1}
            /\ listener' = [listener EXCEPT ![k] = [at |-> "waiting", sock |-> sockets + 1]]
       ELSE open' = open /\ Goto(k, "loop")
    /\ UNCHANGED <<app, restart, attempt, starts, listen, wakeups, clients, updater, timely>>

\* A CONNECT: serverAcceptClient, in a new slot or in one of those there are.
ListenAccept(k) ==
    /\ listener[k].at = "waiting" /\ listener[k].sock \in open
    /\ \/ clients > 0 /\ clients' = clients
       \/ clients < MaxClients /\ clients' = clients + 1
    /\ Goto(k, "loop")
    /\ UNCHANGED <<app, restart, attempt, starts, listen, socket, sockets, open, wakeups, updater, timely>>

\* A DISCONNECT of the server's own address.
ListenWake(k) ==
    /\ listener[k].at = "waiting" /\ listener[k].sock \in open \cap wakeups
    /\ listen' = FALSE
    /\ wakeups' = wakeups \ {listener[k].sock}
    /\ Goto(k, "loop")
    /\ UNCHANGED <<app, restart, attempt, starts, socket, sockets, open, clients, updater, timely>>

\* Another thread closed the socket.
ListenError(k) ==
    /\ listener[k].at = "waiting" /\ listener[k].sock \notin open
    /\ Goto(k, "loop")
    /\ UNCHANGED <<app, restart, attempt, starts, listen, socket, sockets, open, wakeups, clients, updater, timely>>

BugKeepsPort(k) ==
    /\ listener[k].at = "ended"
    /\ open' = open /\ socket' = 0
    /\ listen' = FALSE
    /\ Goto(k, "clearing")
    /\ UNCHANGED <<app, restart, attempt, starts, sockets, wakeups, clients, updater, timely>>
ListenEnd(k) ==
    /\ listener[k].at = "ended"
    /\ open' = open \ {socket} /\ socket' = 0
    /\ listen' = FALSE
    /\ Goto(k, "clearing")
    /\ UNCHANGED <<app, restart, attempt, starts, sockets, wakeups, clients, updater, timely>>

ListenClear(k) ==
    /\ listener[k].at = "clearing"
    /\ clients' = 0
    /\ Goto(k, "done")
    /\ UNCHANGED <<app, restart, attempt, starts, listen, socket, sockets, open, wakeups, updater, timely>>

\* updateClients
UpdateEnd(k) ==
    /\ updater[k] = "running" /\ ~listen
    /\ updater' = [updater EXCEPT ![k] = "done"]
    /\ UNCHANGED <<app, restart, attempt, starts, listen, socket, sockets, open, wakeups, clients, listener, timely>>

ListenStep(k) ==
    \/ ListenBegin(k) \/ ListenLoop(k) \/ ListenOpen(k) \/ ListenWake(k) \/ ListenError(k)
    \/ ListenEnd(k) \/ ListenClear(k)

Next ==
    \/ Start \/ StopBegin \/ StopAttempt \/ StopEnd
    \/ \E k \in Starts : ListenStep(k) \/ ListenAccept(k) \/ UpdateEnd(k)

Spec == Init /\ [][Next]_vars

\* Threads run, and serverStop ends; nobody needs to connect.
FairSpec ==
    /\ Spec
    /\ WF_vars(StopAttempt) /\ WF_vars(StopEnd)
    /\ \A k \in Starts : WF_vars(ListenStep(k)) /\ WF_vars(UpdateEnd(k))

----------------------------------------------------------------------------
\* Properties

TypeOK ==
    /\ app \in {"ready", "stopping"} /\ restart \in BOOLEAN /\ attempt \in 0..MaxAttempts
    /\ starts \in 0..MaxStarts /\ listen \in BOOLEAN
    /\ socket \in Sockets /\ sockets \in Sockets /\ open \subseteq Sockets
    /\ wakeups \subseteq Sockets /\ clients \in 0..MaxClients
    /\ listener \in [Starts -> [at: {"none", "spawned", "loop", "closed", "waiting", "ended",
                                     "clearing", "done"}, sock: Sockets]]
    /\ updater \in [Starts -> {"none", "running", "done"}] /\ timely \in BOOLEAN

Alive(k) == listener[k].at \notin {"none", "done"}

\* One server at a time: a start finds nothing of a former one running, and its threads are
\* the only ones that touch the socket and the clients.
OneServer ==
    timely =>
        /\ \A j, k \in Starts : Alive(j) /\ Alive(k) => j = k
        /\ Cardinality({k \in Starts : updater[k] = "running"}) <= 1

\* The clients of a server are forgotten when it ends, never by the end of another.
ClientsAreKept == [][timely' /\ clients' < clients => ~listen /\ clients' = 0]_vars

\* No listening socket is left open when the last server has ended.
PortIsFreed == timely /\ (\A k \in Starts : ~Alive(k)) => open = {}

\* "Listening socket closed with ... disconnect attempts": a stop that was not followed by a
\* start ends the threads of the server.
StopStops ==
    \A n \in 0..MaxStarts :
        (app = "stopping" /\ ~restart /\ starts = n)
        ~> (~timely \/ starts > n \/ \A k \in Starts : ~Alive(k) /\ updater[k] # "running")

\* serverStop returns, whatever the threads do: the thread of the application is not lost to a
\* server that does not end.
StopReturns == (app = "stopping") ~> (app = "ready")
=============================================================================

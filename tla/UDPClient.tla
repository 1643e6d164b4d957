----------------------------- MODULE UDPClient -----------------------------
(***************************************************************************)
(* How a client connects and disconnects: gpk/gpk_udp_client.cpp, driven   *)
(* by the button of gpk/gpk_udp_client_app.cpp.  SUDPClient.State and      *)
(* SUDPClient.Socket are shared without a lock by                          *)
(*   - the application: clientConnect starts a thread that makes the       *)
(*     handshake, looks at State for about a second and gives up or        *)
(*     starts a reader; clientDisconnect;                                  *)
(*   - the handshakes (clientConnectAttempt), one thread for each call of  *)
(*     clientConnect: a call does not wait for the thread of a former one; *)
(*   - the readers (threadUpdateClient), one for each successful call.     *)
(* Sockets are numbered as they are created, 0 is INVALID_SOCKET; a thread *)
(* blocked in recvfrom holds the number it called it with.  The server and *)
(* the network are what the client sees of them.                           *)
(*                                                                         *)
(* The sleeps of the application (a second in clientConnect, 10 ms in      *)
(* clientDisconnect) stand for a synchronisation the code does not have.   *)
(* Nothing in the model depends on them; two history variables say what    *)
(* happened, for the properties that hold only when the code's hopes do:   *)
(*   timely   every thread that could run did so within those sleeps, and  *)
(*            no response came to a call that had been given up;           *)
(*   silent   a call was given up that the server had not answered.        *)
(*                                                                         *)
(* An operator that begins with Bug is a defect to seed in the one that    *)
(* follows it; no action uses it.                                          *)
(***************************************************************************)
EXTENDS Naturals, FiniteSets

CONSTANTS
    MayReset,   \* may the peer's port be closed (WSAECONNRESET)?
    MaxCalls    \* bound: calls of clientConnect

ASSUME ClientAssumption == MayReset \in BOOLEAN /\ MaxCalls \in Nat

Calls == 1..MaxCalls
Sockets == 0..MaxCalls   \* a handshake creates one

VARIABLES
    app,        \* the application: ready, polling State, failing (leaving clientConnect)
    calls,      \* calls of clientConnect so far
    state,      \* client.State
    socket,     \* client.Socket.Handle
    sockets,    \* how many sockets were created
    open,       \* those not closed
    handshake,  \* the thread of each call, and the socket it waits on
    reader,     \* the reader of each successful call, and the socket it waits on
    called,     \* the sockets the server has a connection for
    confirmed,  \* those it got the confirmation from
    inbox,      \* datagrams in the sockets
    timely,     \* history: the sleeps were long enough so far
    silent      \* history: a call was given up unanswered

history == <<timely, silent>>
vars == <<app, calls, state, socket, sockets, open, handshake, reader, called, confirmed, inbox,
          history>>

Thread(steps) == [at: steps, sock: Sockets]
Handshake == Thread({"none", "start", "closed", "opened", "waiting", "answered", "confirmed", "done"})
Reader == Thread({"none", "loop", "peek", "handle", "leave", "done"})
Datagram == [sock: Sockets, kind: {"response", "payload"}]

Init ==
    /\ app = "ready" /\ calls = 0 /\ state = "DISCONNECTED"
    /\ socket = 0 /\ sockets = 0 /\ open = {}
    /\ handshake = [k \in Calls |-> [at |-> "none", sock |-> 0]]
    /\ reader = [k \in Calls |-> [at |-> "none", sock |-> 0]]
    /\ called = {} /\ confirmed = {} /\ inbox = {}
    /\ timely = TRUE /\ silent = FALSE

Waiting(s) == {d \in inbox : d.sock = s}

\* A thread in recvfrom runs when there is a datagram, or the socket was closed.
Wakes(s) == s \notin open \/ Waiting(s) # {}

HandshakeRuns(k) ==
    \/ handshake[k].at \in {"start", "closed", "opened", "answered", "confirmed"}
    \/ handshake[k].at = "waiting" /\ Wakes(handshake[k].sock)
ReaderRuns(k) ==
    \/ reader[k].at \in {"loop", "leave"}
    \/ reader[k].at = "peek" /\ Wakes(reader[k].sock)
    \/ reader[k].at = "handle" /\ (socket = 0 \/ Waiting(socket) # {})
Unanswered == {s \in called \cap open : s \notin confirmed /\ Waiting(s) = {}}

\* The application has slept: did the other threads go first?
Slept == timely' = (timely /\ \A k \in Calls : ~HandshakeRuns(k) /\ ~ReaderRuns(k))

Goto(threads, k, step) == [threads EXCEPT ![k].at = step]

----------------------------------------------------------------------------
\* The application

Connect ==
    /\ app = "ready" /\ calls < MaxCalls /\ state = "DISCONNECTED"
    /\ Slept
    /\ app' = "polling" /\ calls' = calls + 1
    /\ state' = "HANDSHAKE"
    /\ open' = open \ {socket} /\ socket' = 0
    /\ handshake' = Goto(handshake, calls + 1, "start")
    /\ UNCHANGED <<sockets, reader, called, confirmed, inbox, silent>>

Connected ==
    /\ app = "polling" /\ state = "IDLE"
    /\ app' = "ready"
    /\ reader' = Goto(reader, calls, "loop")
    /\ UNCHANGED <<calls, state, socket, sockets, open, handshake, called, confirmed, inbox, history>>

\* 1000 times a millisecond later State is still not IDLE ...
GiveUp ==
    /\ app = "polling" /\ state # "IDLE" /\ Slept
    /\ silent' = (silent \/ Unanswered # {})
    /\ app' = "failing"
    /\ UNCHANGED <<calls, state, socket, sockets, open, handshake, reader, called, confirmed, inbox>>

\* ... and the connection is closed.
BugForgetsSocket ==
    /\ app = "failing"
    /\ app' = "ready" /\ state' = "DISCONNECTED"
    /\ open' = open /\ socket' = 0
    /\ UNCHANGED <<calls, sockets, handshake, reader, called, confirmed, inbox, history>>
Fail ==
    /\ app = "failing"
    /\ app' = "ready" /\ state' = "DISCONNECTED"
    /\ open' = open \ {socket} /\ socket' = 0
    /\ UNCHANGED <<calls, sockets, handshake, reader, called, confirmed, inbox, history>>

\* clientDisconnect
BugKeepsListening ==
    /\ app = "ready" /\ state = "IDLE"
    /\ state' = "DISCONNECTED"
    /\ UNCHANGED <<app, calls, socket, sockets, open, handshake, reader, called, confirmed, inbox, history>>
Disconnect ==
    /\ app = "ready" /\ state = "IDLE"
    /\ state' = "DISCONNECTED"
    /\ open' = open \ {socket} /\ socket' = 0
    /\ UNCHANGED <<app, calls, sockets, handshake, reader, called, confirmed, inbox, history>>

----------------------------------------------------------------------------
\* clientConnectAttempt

HandshakeClose(k) ==
    /\ handshake[k].at = "start"
    /\ open' = open \ {socket} /\ socket' = 0
    /\ handshake' = Goto(handshake, k, "closed")
    /\ UNCHANGED <<app, calls, state, sockets, reader, called, confirmed, inbox, history>>

HandshakeOpen(k) ==
    /\ handshake[k].at = "closed"
    /\ sockets' = sockets + 1
    /\ socket' = sockets + 1 /\ open' = open \cup {sockets + 1}
    /\ handshake' = Goto(handshake, k, "opened")
    /\ UNCHANGED <<app, calls, state, reader, called, confirmed, inbox, history>>

\* sendto takes client.Socket as it is by then.
HandshakeCall(k) ==
    /\ handshake[k].at = "opened"
    /\ IF socket = 0
       THEN handshake' = Goto(handshake, k, "done") /\ UNCHANGED called
       ELSE /\ handshake' = [handshake EXCEPT ![k] = [at |-> "waiting", sock |-> socket]]
            /\ called' = called \cup {socket}
    /\ UNCHANGED <<app, calls, state, socket, sockets, open, reader, confirmed, inbox, history>>

\* A payload is not a response: the handshake ends, and so it does when the socket is closed.
BugRetries(k) ==
    /\ handshake[k].at = "waiting"
    /\ LET s == handshake[k].sock
       IN  \/ /\ s \notin open
              /\ handshake' = Goto(handshake, k, "start") /\ UNCHANGED inbox
           \/ /\ s \in open
              /\ \E d \in Waiting(s) :
                    /\ inbox' = inbox \ {d}
                    /\ handshake' =
                          Goto(handshake, k, IF d.kind = "response" THEN "answered" ELSE "start")
    /\ UNCHANGED <<app, calls, state, socket, sockets, open, reader, called, confirmed, history>>
BugIdleAtOnce(k) ==
    /\ handshake[k].at = "waiting" /\ handshake[k].sock \in open
    /\ \E d \in Waiting(handshake[k].sock) : inbox' = inbox \ {d}
    /\ state' = "IDLE"
    /\ handshake' = Goto(handshake, k, "answered")
    /\ UNCHANGED <<app, calls, socket, sockets, open, reader, called, confirmed, history>>
HandshakeReceive(k) ==
    /\ handshake[k].at = "waiting"
    /\ LET s == handshake[k].sock
       IN  \/ /\ s \notin open
              /\ handshake' = Goto(handshake, k, "done") /\ UNCHANGED inbox
           \/ /\ s \in open
              /\ \E d \in Waiting(s) :
                    /\ inbox' = inbox \ {d}
                    /\ handshake' =
                          Goto(handshake, k, IF d.kind = "response" THEN "answered" ELSE "done")
    /\ UNCHANGED <<app, calls, state, socket, sockets, open, reader, called, confirmed, history>>

HandshakeConfirm(k) ==
    /\ handshake[k].at = "answered"
    /\ IF socket = 0
       THEN handshake' = Goto(handshake, k, "done") /\ UNCHANGED confirmed
       ELSE /\ handshake' = Goto(handshake, k, "confirmed")
            /\ confirmed' = confirmed \cup {socket}
    /\ UNCHANGED <<app, calls, state, socket, sockets, open, reader, called, inbox, history>>

HandshakeEnd(k) ==
    /\ handshake[k].at = "confirmed"
    /\ state' = "IDLE"
    /\ handshake' = Goto(handshake, k, "done")
    /\ UNCHANGED <<app, calls, socket, sockets, open, reader, called, confirmed, inbox, history>>

HandshakeStep(k) ==
    \/ HandshakeClose(k) \/ HandshakeOpen(k) \/ HandshakeCall(k)
    \/ HandshakeReceive(k) \/ HandshakeConfirm(k) \/ HandshakeEnd(k)

----------------------------------------------------------------------------
\* threadUpdateClient, clientQueueReceive

ReaderLoop(k) ==
    /\ reader[k].at = "loop"
    /\ IF state = "DISCONNECTED" \/ socket = 0
       THEN reader' = Goto(reader, k, "leave")
       ELSE reader' = [reader EXCEPT ![k] = [at |-> "peek", sock |-> socket]]
    /\ UNCHANGED <<app, calls, state, socket, sockets, open, handshake, called, confirmed, inbox, history>>

\* A closed socket interrupts the call, which is made again (WSAEINTR), or ends the reader
\* (WSAENOTSOCK).
ReaderPeek(k) ==
    /\ reader[k].at = "peek"
    /\ \/ /\ reader[k].sock \notin open
          /\ \E step \in {"loop", "leave"} : reader' = Goto(reader, k, step)
       \/ /\ reader[k].sock \in open /\ Waiting(reader[k].sock) # {}
          /\ reader' = Goto(reader, k, "handle")
    /\ UNCHANGED <<app, calls, state, socket, sockets, open, handshake, called, confirmed, inbox, history>>

\* The peer's port is closed (WSAECONNRESET).
HandshakeReset(k) ==
    /\ MayReset
    /\ handshake[k].at = "waiting" /\ handshake[k].sock \in open
    /\ silent' = TRUE
    /\ handshake' = Goto(handshake, k, "done")
    /\ UNCHANGED <<app, calls, state, socket, sockets, open, reader, called, confirmed, inbox, timely>>

ReaderReset(k) ==
    /\ MayReset
    /\ reader[k].at = "peek" /\ reader[k].sock \in open
    /\ state' = "DISCONNECTED"
    /\ reader' = Goto(reader, k, "leave")
    /\ UNCHANGED <<app, calls, socket, sockets, open, handshake, called, confirmed, inbox, history>>

\* Whatever it was, it is taken from the socket the client has by then.
ReaderHandle(k) ==
    /\ reader[k].at = "handle"
    /\ \/ socket = 0 /\ UNCHANGED inbox
       \/ socket # 0 /\ \E d \in Waiting(socket) : inbox' = inbox \ {d}
    /\ reader' = Goto(reader, k, "loop")
    /\ UNCHANGED <<app, calls, state, socket, sockets, open, handshake, called, confirmed, history>>

ReaderLeave(k) ==
    /\ reader[k].at = "leave"
    /\ state' = "DISCONNECTED"
    /\ reader' = Goto(reader, k, "done")
    /\ UNCHANGED <<app, calls, socket, sockets, open, handshake, called, confirmed, inbox, history>>

ReaderStep(k) == ReaderLoop(k) \/ ReaderPeek(k) \/ ReaderHandle(k) \/ ReaderLeave(k)

----------------------------------------------------------------------------
\* The server and the network

Respond(s) ==
    /\ s \in called /\ s \notin confirmed
    /\ timely' = (timely /\ (s \in open => app = "polling"))
    /\ inbox' = inbox \cup {[sock |-> s, kind |-> "response"]}
    /\ UNCHANGED <<app, calls, state, socket, sockets, open, handshake, reader, called, confirmed, silent>>

Send(s) ==
    /\ s \in confirmed
    /\ inbox' = inbox \cup {[sock |-> s, kind |-> "payload"]}
    /\ UNCHANGED <<app, calls, state, socket, sockets, open, handshake, reader, called, confirmed, history>>

Drop(d) ==
    /\ inbox' = inbox \ {d}
    /\ UNCHANGED <<app, calls, state, socket, sockets, open, handshake, reader, called, confirmed, history>>

Next ==
    \/ Connect \/ Connected \/ GiveUp \/ Fail \/ Disconnect
    \/ \E k \in Calls : HandshakeStep(k) \/ HandshakeReset(k) \/ ReaderStep(k) \/ ReaderReset(k)
    \/ \E s \in Sockets : Respond(s) \/ Send(s)
    \/ \E d \in inbox : Drop(d)

Spec == Init /\ [][Next]_vars

\* Threads run, and clientConnect ends.
FairSpec ==
    /\ Spec
    /\ WF_vars(Connected) /\ WF_vars(GiveUp) /\ WF_vars(Fail)
    /\ \A k \in Calls : WF_vars(HandshakeStep(k)) /\ WF_vars(ReaderStep(k))

----------------------------------------------------------------------------
\* Properties

TypeOK ==
    /\ app \in {"ready", "polling", "failing"} /\ calls \in 0..MaxCalls
    /\ state \in {"DISCONNECTED", "HANDSHAKE", "IDLE"}
    /\ socket \in Sockets /\ sockets \in Sockets /\ open \subseteq Sockets
    /\ handshake \in [Calls -> Handshake] /\ reader \in [Calls -> Reader]
    /\ called \subseteq Sockets /\ confirmed \subseteq Sockets /\ inbox \subseteq Datagram
    /\ timely \in BOOLEAN /\ silent \in BOOLEAN

Reads(k) == reader[k].at \notin {"none", "done"}

\* A connected client has an open socket that the server knows of, and a thread that reads it.
IdleIsServed ==
    timely /\ app = "ready" /\ state = "IDLE"
       => socket \in open \cap confirmed /\ \E k \in Calls : Reads(k)

\* No socket is forgotten before it is closed.
NoSocketLeaks == timely => open \subseteq {socket}

\* A reader that ends disconnects the connection it was started for, never a later one.
ReadersEndTheirOwn ==
    [][timely' => \A k \in Calls : ReaderLeave(k) => k = calls /\ app = "ready"]_vars

\* The response a handshake waits for is not taken by a reader.
ResponsesAreTheirs ==
    [][timely' => \A k \in Calls : ReaderHandle(k) /\ inbox' # inbox
         => \A j \in Calls : handshake[j].at = "waiting" => handshake[j].sock # socket]_vars

\* "Failed to connect to ...": a call that failed has not connected the client afterwards.
FailedStaysDisconnected ==
    [][state # "IDLE" /\ state' = "IDLE" => app # "ready"]_vars

\* With a server that answers in time, a client that calls is connected, or has been.
CallsConnect ==
    \A k \in Calls :
        (calls = k /\ app = "polling") ~> (reader[k].at # "none" \/ silent \/ ~timely)
=============================================================================

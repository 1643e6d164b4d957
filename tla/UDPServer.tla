----------------------------- MODULE UDPServer -----------------------------
(***************************************************************************)
(* The server of gpk/gpk_udp_server.cpp and the clients that connect to    *)
(* it.  Three threads share the slots of SUDPServer.Clients:               *)
(*   - the listen thread accepts CONNECT requests, into a slot it recycles *)
(*     or into a new one, with SUDPServer.Mutex held;                      *)
(*   - the update thread transmits what the slots have queued with Mutex   *)
(*     held, and then handles the datagrams of the slots WITHOUT it;       *)
(*   - the application collects what was received and pushes its answers,  *)
(*     both by the index of the slot.                                      *)
(* A client here is one attempt to connect: each has an address of its     *)
(* own.  Every slot has a socket of its own, numbered as they are created, *)
(* and 0 stands for INVALID_SOCKET.  What UDPConnection models inside of a *)
(* connection (retries, packing, confirmations) is left out.               *)
(*                                                                         *)
(* An operator that begins with Bug is a defect to seed in the one that    *)
(* follows it; no action uses it.                                          *)
(***************************************************************************)
EXTENDS Naturals, FiniteSets

CONSTANTS
    Clients,       \* the attempts to connect
    Timeout,       \* SUDPServer.Timeout, in units of the clock
    AppLocks,      \* does the application hold Mutex when it pushes its answers?
    SocketMayFail, \* may socket() fail?
    MayLose,       \* may the network lose datagrams to and from connected clients?
    MaxSlots,      \* bound: the slots
    MaxSays,       \* bound: the payloads of one client
    MaxDups,       \* bound: CONNECT requests the network duplicates
    MaxTime        \* bound: the clock stops here

Slots == 1..MaxSlots
Sockets == Nat
Payloads == Clients \X (1..MaxSays)   \* <<c, n>>: the n-th payload of c, or its answer
None == "none"

ASSUME ServerAssumption ==
    /\ IsFiniteSet(Clients) /\ None \notin Clients
    /\ Timeout \in Nat /\ MaxTime \in Nat
    /\ AppLocks \in BOOLEAN /\ SocketMayFail \in BOOLEAN /\ MayLose \in BOOLEAN
    /\ MaxSlots \in Nat /\ MaxSays \in Nat /\ MaxDups \in Nat

VARIABLES
    \* The server
    now,        \* timeCurrentInUs()
    size,       \* Clients.size()
    slot,       \* the SUDPConnection of each slot
    sockets,    \* how many sockets have been created
    accepting,  \* the accept in progress: the listen thread holds Mutex
    todo,       \* updateClients: the slots of clientsToProcess not yet done with
    busy,       \* updateClients: the command between its peek and its effect
    batch,      \* the application: what it collected and has not answered
    \* The clients and the network
    client,     \* what each client is doing
    home,       \* the server socket each client talks to
    says,       \* how many payloads each client has sent
    got,        \* the answers each client has received
    calls,      \* CONNECT requests on their way to the listening socket
    inbox,      \* datagrams to the sockets of the slots
    mail,       \* datagrams to the clients
    dups,       \* how many CONNECT requests have been duplicated
    \* History
    reused,     \* how often a slot was given to another client
    strange     \* payloads collected from a slot whose client did not send them

serverVars == <<now, size, slot, sockets, accepting, todo, busy, batch>>
clientVars == <<client, home, says, got>>
netVars == <<calls, inbox, mail, dups>>
historyVars == <<reused, strange>>
vars == <<serverVars, clientVars, netVars, historyVars>>

----------------------------------------------------------------------------
\* Types

Connection == [addr: Clients \cup {None}, state: {"DISCONNECTED", "HANDSHAKE", "IDLE"},
               sock: Sockets, ping: 0..MaxTime,
               keyed: BOOLEAN,           \* KeyPing # 0
               hello: BOOLEAN,           \* the CONNECT response is in Queue.Send
               send: SUBSET [payload: Payloads, sock: Sockets],  \* ... and the answers, each with
                                         \* the socket the slot had when it was pushed
               received: SUBSET Payloads]
Blank == [addr |-> None, state |-> "DISCONNECTED", sock |-> 0, ping |-> 0,
          keyed |-> FALSE, hello |-> FALSE, send |-> {}, received |-> {}]

Command == [sock: Sockets, from: Clients, cmd: {"CONNECT", "DISCONNECT"}, n: {0}]
           \cup [sock: Sockets, from: Clients, cmd: {"PAYLOAD"}, n: 1..MaxSays]
Letter == [to: Clients \cup {None}, sock: Sockets, answer: SUBSET Payloads]
NoCommand == [sock |-> 0]
Free == [slot |-> 0, step |-> "free", d |-> NoCommand]
NoAccept == [slot |-> 0, for |-> None]

Init ==
    /\ now = 0 /\ size = 0 /\ sockets = 0
    /\ slot = [i \in Slots |-> Blank]
    /\ accepting = NoAccept /\ todo = {} /\ busy = Free
    /\ batch = [i \in Slots |-> {}]
    /\ client = [c \in Clients |-> "off"]
    /\ home = [c \in Clients |-> 0]
    /\ says = [c \in Clients |-> 0]
    /\ got = [c \in Clients |-> {}]
    /\ calls = {} /\ inbox = {} /\ mail = {} /\ dups = 0
    /\ reused = 0 /\ strange = 0

MutexFree == accepting = NoAccept

----------------------------------------------------------------------------
\* The clients

\* clientConnectAttempt sends its CONNECT ...
Call(c) ==
    /\ client[c] = "off"
    /\ client' = [client EXCEPT ![c] = "calling"]
    /\ calls' = calls \cup {c}
    /\ UNCHANGED <<serverVars, home, says, got, inbox, mail, dups, historyVars>>

\* ... and confirms the response, to the socket it comes from.
Answer(c) ==
    /\ client[c] = "calling"
    /\ \E m \in mail :
          /\ m.to = c /\ m.answer = {}
          /\ mail' = mail \ {m}
          /\ home' = [home EXCEPT ![c] = m.sock]
          /\ inbox' = inbox \cup {[sock |-> m.sock, from |-> c, cmd |-> "CONNECT", n |-> 0]}
    /\ client' = [client EXCEPT ![c] = "idle"]
    /\ UNCHANGED <<serverVars, says, got, calls, dups, historyVars>>

\* clientConnect gives up after a second, or the client disappears.
GiveUp(c) ==
    /\ client[c] \in {"calling", "idle"}
    /\ client' = [client EXCEPT ![c] = "left"]
    /\ UNCHANGED <<serverVars, home, says, got, netVars, historyVars>>

Say(c) ==
    /\ client[c] = "idle" /\ says[c] < MaxSays
    /\ says' = [says EXCEPT ![c] = @ + 1]
    /\ inbox' = inbox \cup {[sock |-> home[c], from |-> c, cmd |-> "PAYLOAD", n |-> says[c] + 1]}
    /\ UNCHANGED <<serverVars, client, home, got, calls, mail, dups, historyVars>>

\* clientQueueReceive handles payloads, from the socket the client is connected to.
Hear(c) ==
    /\ client[c] = "idle"
    /\ \E m \in mail :
          /\ m.to = c /\ m.sock = home[c]
          /\ mail' = mail \ {m}
          /\ got' = [got EXCEPT ![c] = @ \cup m.answer]
    /\ UNCHANGED <<serverVars, client, home, says, calls, inbox, dups, historyVars>>

\* clientDisconnect
Leave(c) ==
    /\ client[c] = "idle"
    /\ client' = [client EXCEPT ![c] = "left"]
    /\ inbox' = inbox \cup {[sock |-> home[c], from |-> c, cmd |-> "DISCONNECT", n |-> 0]}
    /\ UNCHANGED <<serverVars, home, says, got, calls, mail, dups, historyVars>>

----------------------------------------------------------------------------
\* The listen thread: serverListenTick, serverAcceptClient

Recyclable(i) ==
    \/ now > slot[i].ping + Timeout
    \/ slot[i].sock = 0
    \/ slot[i].state = "DISCONNECTED"

\* recycleClient looks for the first slot that will do.
FirstRecyclable(i) ==
    i \in 1..size /\ Recyclable(i) /\ \A j \in 1..(i - 1) : ~Recyclable(j)

BugKeepsReceived(s) == [s EXCEPT !.state = "DISCONNECTED", !.sock = 0, !.ping = 0, !.keyed = FALSE,
                                 !.hello = FALSE, !.send = {}]
BugKeepsSend(s) == [s EXCEPT !.state = "DISCONNECTED", !.sock = 0, !.ping = 0, !.keyed = FALSE,
                             !.received = {}]
Recycled(s) == [Blank EXCEPT !.addr = s.addr]

\* The listening socket is closed and created again for each request: whatever else waits
\* in it is lost, as any call may be (Drop).
AcceptBegin(c) ==
    /\ MutexFree /\ c \in calls
    /\ \/ calls' = calls \ {c} /\ dups' = dups
       \/ dups < MaxDups /\ calls' = calls /\ dups' = dups + 1
    /\ \/ \E i \in Slots :
             /\ FirstRecyclable(i)
             /\ accepting' = [slot |-> i, for |-> c]
             /\ slot' = [slot EXCEPT ![i] = Recycled(@)]
       \/ /\ \A i \in 1..size : ~Recyclable(i)
          /\ size < MaxSlots
          /\ accepting' = [slot |-> size + 1, for |-> c]
          /\ slot' = slot
    /\ UNCHANGED <<now, size, sockets, todo, busy, batch, clientVars, inbox, mail, historyVars>>

BugAlwaysAppends == size + 1
SizeAfter == IF accepting.slot > size THEN accepting.slot ELSE size

\* A new slot is one of Clients from here on.
AcceptEnd ==
    /\ ~MutexFree
    /\ sockets' = sockets + 1
    /\ slot' = [slot EXCEPT ![accepting.slot] =
          [@ EXCEPT !.addr = accepting.for, !.state = "HANDSHAKE", !.sock = sockets + 1,
                    !.ping = now, !.hello = TRUE]]
    /\ size' = SizeAfter
    /\ reused' = IF accepting.slot > size THEN reused ELSE reused + 1
    /\ accepting' = NoAccept
    /\ UNCHANGED <<now, todo, busy, batch, clientVars, netVars, strange>>

\* socket() fails when the slot already has the address and the response of its new client.
AcceptFail ==
    /\ SocketMayFail /\ ~MutexFree
    /\ slot' = IF accepting.slot > size THEN slot
               ELSE [slot EXCEPT ![accepting.slot] =
                        [@ EXCEPT !.addr = accepting.for, !.ping = now, !.hello = TRUE]]
    /\ reused' = IF accepting.slot > size THEN reused ELSE reused + 1
    /\ accepting' = NoAccept
    /\ UNCHANGED <<now, size, sockets, todo, busy, batch, clientVars, netVars, strange>>

----------------------------------------------------------------------------
\* The update thread: updateClients

BugOnlyIdle == {i \in 1..size : slot[i].sock # 0 /\ slot[i].state = "IDLE"}
Connected == {i \in 1..size : slot[i].sock # 0 /\ slot[i].state # "DISCONNECTED"}

\* With Mutex: transmit what every connected slot has queued, and list those slots. (Mutex
\* is released in between; a slot accepted there has no datagram to handle yet.)
Letters(i) ==
    {[to |-> slot[i].addr, sock |-> slot[i].sock, answer |-> {m.payload}] : m \in slot[i].send}
    \cup (IF slot[i].hello THEN {[to |-> slot[i].addr, sock |-> slot[i].sock, answer |-> {}]} ELSE {})

Turn ==
    /\ MutexFree /\ busy = Free /\ todo = {}
    /\ todo' = Connected
    /\ mail' = mail \cup UNION {Letters(i) : i \in Connected}
    /\ slot' = [i \in Slots |-> IF i \in Connected
                                THEN [slot[i] EXCEPT !.hello = FALSE, !.send = {}] ELSE slot[i]]
    /\ UNCHANGED <<now, size, sockets, accepting, busy, batch, clientVars, calls, inbox, dups,
                   historyVars>>

\* Without Mutex: the command is peeked and its sender compared with the address of the
\* slot; a socket closed in the meantime is an error.
Peek(i) ==
    /\ busy = Free /\ i \in todo
    /\ \/ /\ slot[i].sock = 0
          /\ busy' = [slot |-> i, step |-> "broken", d |-> NoCommand]
       \/ \E d \in inbox :
             /\ d.sock = slot[i].sock /\ d.from = slot[i].addr
             /\ busy' = [slot |-> i, step |-> "peeked", d |-> d]
    /\ UNCHANGED <<now, size, slot, sockets, accepting, todo, batch, clientVars, netVars, historyVars>>

\* No more datagrams: on to the next slot.
Done(i) ==
    /\ busy = Free /\ i \in todo
    /\ slot[i].sock # 0 /\ \A d \in inbox : d.sock # slot[i].sock
    /\ todo' = todo \ {i}
    /\ UNCHANGED <<now, size, slot, sockets, accepting, busy, batch, clientVars, netVars, historyVars>>

\* The recvfrom that ends the handling of a command takes what is in the socket the slot
\* has by then.
Consume(s) ==
    LET waiting == {d \in inbox : d.sock = s}
    IN  IF busy.d \in waiting THEN inbox' = inbox \ {busy.d}
        ELSE IF waiting = {} THEN inbox' = inbox
        ELSE \E d \in waiting : inbox' = inbox \ {d}

Finish(s) ==
    /\ busy' = Free
    /\ slot' = [slot EXCEPT ![busy.slot] = s]
    /\ Consume(s.sock)
    /\ UNCHANGED <<now, size, sockets, accepting, batch, clientVars, calls, mail, dups, historyVars>>

\* The error WSAENOTSOCK of a closed socket.
Disconnect ==
    /\ busy.step = "broken"
    /\ Finish([slot[busy.slot] EXCEPT !.state = "DISCONNECTED"])
    /\ todo' = todo \ {busy.slot}

HandleCONNECT ==
    /\ busy.step = "peeked" /\ busy.d.cmd = "CONNECT"
    /\ LET s == slot[busy.slot]
       IN  Finish(IF s.state = "HANDSHAKE" THEN [s EXCEPT !.state = "IDLE", !.ping = now] ELSE s)
    /\ todo' = todo

HandleDISCONNECT ==
    /\ busy.step = "peeked" /\ busy.d.cmd = "DISCONNECT"
    /\ LET s == slot[busy.slot]
       IN  Finish(IF s.state = "IDLE"
                  THEN [s EXCEPT !.state = "DISCONNECTED", !.sock = 0, !.keyed = FALSE, !.ping = now]
                  ELSE s)
    /\ todo' = todo

\* handlePAYLOAD reads the payload if the slot is IDLE ...
ReadPayload ==
    /\ busy.step = "peeked" /\ busy.d.cmd = "PAYLOAD"
    /\ IF slot[busy.slot].state = "IDLE"
       THEN /\ busy' = [busy EXCEPT !.step = "read"]
            /\ UNCHANGED <<now, size, slot, sockets, accepting, todo, batch, clientVars, netVars,
                           historyVars>>
       ELSE Finish(slot[busy.slot]) /\ todo' = todo

\* ... and then searches the key, deciphers, and queues it: or refuses it.
Deliver ==
    /\ busy.step = "read"
    /\ LET s == slot[busy.slot]
       IN  \/ Finish([s EXCEPT !.keyed = TRUE, !.ping = now,
                               !.received = @ \cup {<<busy.d.from, busy.d.n>>}])
           \/ \E keyed \in {s.keyed, TRUE} : Finish([s EXCEPT !.keyed = keyed])
    /\ todo' = todo

----------------------------------------------------------------------------
\* The application: serverPayloadCollect, then answers by the index of the slot

Collectable(i) == IF i <= size /\ slot[i].keyed /\ slot[i].state # "HANDSHAKE"
                  THEN slot[i].received ELSE {}

\* The payloads a slot holds that its client did not send.
Strangers == {x \in Slots \X Payloads : x[2] \in slot[x[1]].received /\ x[2][1] # slot[x[1]].addr}

Collect ==
    /\ MutexFree /\ \A i \in Slots : batch[i] = {}
    /\ batch' = [i \in Slots |-> Collectable(i)]
    /\ slot' = [i \in Slots |-> [slot[i] EXCEPT !.received = @ \ Collectable(i)]]
    /\ strange' = strange + Cardinality({x \in Strangers : x[2] \in Collectable(x[1])})
    /\ UNCHANGED <<now, size, sockets, accepting, todo, busy, clientVars, netVars, reused>>

\* connectionPushData: an answer to each payload of S.
Answered(s, S) == [s EXCEPT !.send = @ \cup {[payload |-> p, sock |-> s.sock] : p \in S},
                            !.keyed = IF S = {} THEN @ ELSE TRUE]

\* Some of the payloads of a slot are answered, all at once.
Reply(i) ==
    /\ AppLocks => MutexFree
    /\ batch[i] # {}
    /\ \E S \in SUBSET batch[i] : slot' = [slot EXCEPT ![i] = Answered(slot[i], S)]
    /\ batch' = [batch EXCEPT ![i] = {}]
    /\ UNCHANGED <<now, size, sockets, accepting, todo, busy, clientVars, netVars, historyVars>>

----------------------------------------------------------------------------
DropCall(c) ==
    /\ c \in calls /\ calls' = calls \ {c}
    /\ UNCHANGED <<serverVars, clientVars, inbox, mail, dups, historyVars>>

Drop ==
    /\ MayLose
    /\ \/ \E d \in inbox : inbox' = inbox \ {d} /\ mail' = mail
       \/ \E m \in mail : mail' = mail \ {m} /\ inbox' = inbox
    /\ UNCHANGED <<serverVars, clientVars, calls, dups, historyVars>>

Tick ==
    /\ now < MaxTime /\ now' = now + 1
    /\ UNCHANGED <<size, slot, sockets, accepting, todo, busy, batch, clientVars, netVars, historyVars>>

Update ==
    \/ Turn
    \/ \E i \in Slots : Peek(i) \/ Done(i)
    \/ Disconnect \/ HandleCONNECT \/ HandleDISCONNECT \/ ReadPayload \/ Deliver

Next ==
    \/ \E c \in Clients : \/ Call(c) \/ Answer(c) \/ GiveUp(c) \/ Say(c) \/ Hear(c) \/ Leave(c)
                          \/ AcceptBegin(c) \/ DropCall(c)
    \/ AcceptEnd \/ AcceptFail
    \/ Update
    \/ Collect \/ \E i \in Slots : Reply(i)
    \/ Drop \/ Tick

Spec == Init /\ [][Next]_vars

\* The threads of the server keep running, and so does a client that waits for its response.
FairSpec ==
    /\ Spec
    /\ WF_vars(Update) /\ WF_vars(AcceptEnd) /\ WF_vars(Tick)
    /\ \A c \in Clients : WF_vars(Answer(c))

----------------------------------------------------------------------------
\* Properties

TypeOK ==
    /\ now \in 0..MaxTime /\ size \in 0..MaxSlots /\ sockets \in Nat
    /\ slot \in [Slots -> Connection]
    /\ accepting \in [slot: 0..MaxSlots, for: Clients \cup {None}]
    /\ todo \subseteq Slots
    /\ busy \in [slot: 0..MaxSlots, step: {"free", "broken", "peeked", "read"},
                 d: Command \cup {NoCommand}]
    /\ batch \in [Slots -> SUBSET Payloads]
    /\ client \in [Clients -> {"off", "calling", "idle", "left"}]
    /\ home \in [Clients -> Sockets]
    /\ says \in [Clients -> 0..MaxSays]
    /\ got \in [Clients -> SUBSET Payloads]
    /\ calls \subseteq Clients /\ inbox \subseteq Command /\ mail \subseteq Letter
    /\ dups \in Nat /\ reused \in Nat /\ strange \in Nat

\* Nothing a slot has queued was pushed while another client had it: recycling a slot
\* forgets what it had to say, whatever the update thread is doing with it.
QueueIsFresh ==
    \A i \in Slots : \A m \in slot[i].send : slot[i].sock # 0 => m.sock \in {0, slot[i].sock}

\* The payload that is being handled when its slot changes hands is the only one that can
\* be taken for a payload of the new client.
OneStrangerPerReuse == strange <= reused

\* A slot does not stay in its handshake, unless a datagram is lost, its client gives up or
\* has confirmed another socket (a duplicated CONNECT is answered from two), or another
\* client takes it.
HandshakeEnds ==
    \A i \in Slots, c \in Clients :
        (slot[i].state = "HANDSHAKE" /\ slot[i].addr = c /\ client[c] = "calling")
        ~> \/ slot[i].state # "HANDSHAKE" \/ slot[i].addr # c \/ client[c] = "left"
           \/ home[c] \notin {0, slot[i].sock}

\* "Response has been received": what a client receives answers a payload of its own.
AnswersAreOwn == \A c \in Clients : \A p \in got[c] : p[1] = c
=============================================================================

--------------------------- MODULE UDPConnection ---------------------------
(***************************************************************************)
(* One established UDP connection: the two SUDPConnection endpoints of     *)
(* gpk/gpk_connection.{h,cpp}, the network between them and the clock both *)
(* of them read.                                                           *)
(*                                                                         *)
(* The behaviours start where clientConnectAttempt returns: the client is  *)
(* IDLE and its confirmation (CONNECT with Packed = 1) is on the wire, the *)
(* server's slot is still in HANDSHAKE and keeps the CONNECT response it   *)
(* sent in Queue.Sent.                                                     *)
(*                                                                         *)
(* Queue.Send and Queue.Sent are sets of SUDPMessage records: the network  *)
(* reorders datagrams and remove_unordered shuffles both queues, so their  *)
(* order means nothing to the peer.  The confirmations (PAYLOAD RESPONSE   *)
(* messages of Queue.Send) carry nothing but a MessageId and are kept      *)
(* apart, in acks.  A payload is an opaque token; a message carries the    *)
(* set of the payloads packed into it.  Two equal datagrams in flight are  *)
(* one of the set (the other is lost), and so are two confirmations of one *)
(* MessageId; that both arrive is a duplicate of the network.              *)
(*                                                                         *)
(* An operator that begins with Bug is a defect to seed in the one that    *)
(* follows it; no action uses it.                                          *)
(***************************************************************************)
EXTENDS Integers, FiniteSets

CONSTANTS
    Client, Server,   \* the two endpoints
    Payloads,         \* what the applications push, each at most once
    RetryCounts,      \* the retryCount arguments of connectionPushData
    Modes,            \* its <<bEncrypt, bCompress>> arguments
    Lifetime,         \* UDP_PAYLOAD_SENT_LIFETIME, in units of the clock
    Advance,          \* how long before FirstPing the search for a key starts
    Lapse,            \* how many instants the search for a key covers
    FirstPing,        \* the instant of the handshake, > Advance
    Word,             \* 2^64: the subtraction of two times is unsigned
    Hash(_),          \* hashFromTime: from a time to a MessageId
    SendMayFail,      \* may sendto() report an error?
    Prompt,           \* does the client's loop turn within a unit of the clock?
    MaxTime,          \* bound: the clock stops here
    MaxPush,          \* bound: nothing is pushed later than this
    MaxDups           \* bound: datagrams the network duplicates

Endpoints == {Client, Server}
Peer(e) == IF e = Client THEN Server ELSE Client
States == {"DISCONNECTED", "HANDSHAKE", "IDLE"}
Fates == {"none", "live", "confirmed", "expired", "lost"}
Nobody == "nobody"
Arrivals == Payloads \X BOOLEAN  \* <<p, TRUE>>: p itself, <<p, FALSE>>: p deciphered with a wrong key
Timestamps == 0..(MaxTime + Lifetime)

ASSUME ConnectionAssumption ==
    /\ Client # Server /\ Nobody \notin Endpoints
    /\ RetryCounts \subseteq 0..255
    /\ Modes \subseteq BOOLEAN \X BOOLEAN
    /\ Lifetime \in Nat \ {0} /\ Advance \in Nat /\ Lapse \in Nat
    /\ FirstPing \in Nat /\ FirstPing > Advance
    /\ Word \in Nat /\ Word > MaxTime + Lifetime
    /\ SendMayFail \in BOOLEAN /\ Prompt \in BOOLEAN
    /\ MaxTime \in Nat /\ MaxPush \in Nat /\ MaxDups \in Nat
    /\ FirstPing <= MaxTime
ASSUME HashAssumption == \A t \in Timestamps : Hash(t) \in Nat

VARIABLES
    now,        \* timeCurrentInUs()
    state,      \* SUDPConnection.State
    keyPing,    \* SUDPConnection.KeyPing, 0 when there is none
    send,       \* Queue.Send: the messages to transmit
    acks,       \* Queue.Send: the MessageIds to confirm
    sent,       \* Queue.Sent: the messages that await their confirmation
    received,   \* Queue.Received: how many copies of each payload
    collected,  \* what connectionPayloadCollect gave to the application
    net,        \* the datagrams in flight
    \* History, read by no guard but that of Push:
    owner,      \* who pushed each payload
    fate,       \* what became of each payload at the endpoint that pushed it
    retries,    \* the RetryCount each payload was pushed with
    wire,       \* how often each payload has been put on the wire
    ids,        \* the MessageIds each payload was transmitted under
    dups        \* how many datagrams the network has duplicated

endpointVars == <<state, keyPing, send, acks, sent, received, collected>>
historyVars == <<owner, fate, retries, wire, ids, dups>>
vars == <<now, endpointVars, net, historyVars>>

----------------------------------------------------------------------------
\* Messages and datagrams

Message == [cmd: {"CONNECT", "PAYLOAD"}, packed: BOOLEAN, enc: BOOLEAN, comp: BOOLEAN,
            time: Timestamps, retry: 0..255, hashes: SUBSET Nat, parts: SUBSET Payloads]

Datagram == [to: Endpoints, cmd: {"CONNECT", "PAYLOAD", "DISCONNECT"},
             type: {"REQUEST", "RESPONSE"}, packed: BOOLEAN, enc: BOOLEAN, comp: BOOLEAN,
             key: Nat, mid: Nat, parts: SUBSET Payloads]

\* A datagram that is a bare SUDPCommand. n tells two equal ones apart.
Command(e, cmd, type, packed, n) ==
    [to |-> e, cmd |-> cmd, type |-> type, packed |-> packed, enc |-> FALSE, comp |-> FALSE,
     key |-> 0, mid |-> n, parts |-> {}]

\* The datagram of a queued request: a payload is ciphered with the KeyPing of the moment.
Transmission(e, m, key) ==
    IF m.cmd = "PAYLOAD"
    THEN [to |-> Peer(e), cmd |-> "PAYLOAD", type |-> "REQUEST", packed |-> m.packed,
          enc |-> m.enc, comp |-> m.comp, key |-> key, mid |-> Hash(m.time), parts |-> m.parts]
    ELSE Command(Peer(e), m.cmd, "RESPONSE", m.packed, 0)

\* The datagram of a confirmation: the header alone.
Confirmation(e, x) == [Command(Peer(e), "PAYLOAD", "RESPONSE", FALSE, x) EXCEPT !.mid = x]

PartsOf(S) == UNION {m.parts : m \in S}

\* The SUDPMessage a CONNECT request leaves in the server's Queue.Sent.
ConnectResponse ==
    [cmd |-> "CONNECT", packed |-> FALSE, enc |-> FALSE, comp |-> FALSE,
     time |-> FirstPing, retry |-> 0, hashes |-> {}, parts |-> {}]

Init ==
    /\ now = FirstPing
    /\ state = [e \in Endpoints |-> IF e = Client THEN "IDLE" ELSE "HANDSHAKE"]
    /\ keyPing = [e \in Endpoints |-> 0]
    /\ send = [e \in Endpoints |-> {}]
    /\ acks = [e \in Endpoints |-> {}]
    /\ sent = [e \in Endpoints |-> IF e = Client THEN {} ELSE {ConnectResponse}]
    /\ received = [e \in Endpoints |-> [a \in Arrivals |-> 0]]
    /\ collected = [e \in Endpoints |-> [a \in Arrivals |-> 0]]
    /\ net = {Command(Server, "CONNECT", "REQUEST", TRUE, 0)}
    /\ owner = [p \in Payloads |-> Nobody]
    /\ fate = [p \in Payloads |-> "none"]
    /\ retries = [p \in Payloads |-> 0]
    /\ wire = [p \in Payloads |-> 0]
    /\ ids = [p \in Payloads |-> {}]
    /\ dups = 0

----------------------------------------------------------------------------
\* The application's side

\* connectionPushData: whatever the state is. The first push chooses the key.
Push(e, p, mode, r) ==
    /\ fate[p] = "none" /\ now <= MaxPush
    /\ send' = [send EXCEPT ![e] = @ \cup
          {[cmd |-> "PAYLOAD", packed |-> FALSE, enc |-> mode[1], comp |-> mode[2],
            time |-> now, retry |-> r, hashes |-> {}, parts |-> {p}]}]
    /\ keyPing' = [keyPing EXCEPT ![e] = IF @ = 0 THEN now ELSE @]
    /\ owner' = [owner EXCEPT ![p] = e]
    /\ fate' = [fate EXCEPT ![p] = "live"]
    /\ retries' = [retries EXCEPT ![p] = r]
    /\ UNCHANGED <<now, state, acks, sent, received, collected, net, wire, ids, dups>>

BugCollectsTwice(e) ==
    /\ keyPing[e] # 0 /\ state[e] # "HANDSHAKE"
    /\ collected' = [collected EXCEPT ![e] = [a \in Arrivals |-> @[a] + received[e][a]]]
    /\ UNCHANGED <<now, state, keyPing, send, acks, sent, received, net, historyVars>>

\* connectionPayloadCollect: everything received goes to the application.
Collect(e) ==
    /\ keyPing[e] # 0 /\ state[e] # "HANDSHAKE"
    /\ received' = [received EXCEPT ![e] = [a \in Arrivals |-> 0]]
    /\ collected' = [collected EXCEPT ![e] = [a \in Arrivals |-> @[a] + received[e][a]]]
    /\ UNCHANGED <<now, state, keyPing, send, acks, sent, net, historyVars>>

\* clientDisconnect: two DISCONNECT commands, then the socket is closed. The queues stay.
ClientDisconnect ==
    /\ state[Client] = "IDLE"
    /\ state' = [state EXCEPT ![Client] = "DISCONNECTED"]
    /\ keyPing' = [keyPing EXCEPT ![Client] = 0]
    /\ net' = net \cup {Command(Server, "DISCONNECT", "REQUEST", FALSE, n) : n \in 1..2}
    /\ UNCHANGED <<now, send, acks, sent, received, collected, historyVars>>

----------------------------------------------------------------------------
\* connectionSendQueue

\* timeCurr - timeSent, both unsigned.
Elapsed(t) == (now - t) % Word
Expired(e) == {m \in sent[e] : Elapsed(m.time) > Lifetime}
BugRetriesForEver(e) == Expired(e)
Retried(e) == {m \in Expired(e) : m.retry > 0}

\* What the scan leaves in Queue.Sent, and what it gives up.
BugKeepsAbandoned(e) == sent[e] \ Retried(e)
Kept(e) == sent[e] \ Expired(e)
Abandoned(e) == Expired(e) \ Retried(e)

\* A retry is stamped one lifetime ahead of the clock.
BugUncounted(m) == [m EXCEPT !.time = now + Lifetime]
Restamp(m) == [m EXCEPT !.retry = @ - 1, !.time = now + Lifetime]

\* The key follows the message whose time it is: when that one is retried ...
KeyAfterScan(e) ==
    IF \E m \in Retried(e) : m.time = keyPing[e] THEN now + Lifetime ELSE keyPing[e]

\* ... and when it is packed.
KeyAfterPacking(e, P) ==
    IF \E m \in P : m.time = KeyAfterScan(e) THEN now ELSE KeyAfterScan(e)

\* What is in Queue.Send after the scan of Queue.Sent.
Pending(e) == send[e] \cup {Restamp(m) : m \in Retried(e)}

\* payloadQueueOptimize runs on two payload messages or more, confirmations included. It
\* packs the single ones; an empty payload and one that does not fit are left out, so the
\* sizes decide which subset it is.
Packings(e) ==
    LET payloads == {m \in Pending(e) : m.cmd = "PAYLOAD"}
    IN  IF Cardinality(payloads) + Cardinality(acks[e]) < 2
        THEN {{}} ELSE SUBSET {m \in payloads : ~m.packed}

Optimized(P) ==
    [cmd |-> "PAYLOAD", packed |-> TRUE, enc |-> TRUE, comp |-> TRUE,
     time |-> now, retry |-> 1, hashes |-> {}, parts |-> PartsOf(P)]

\* What payloadQueueSend and the command loop try to transmit.
BugKeepsOriginals(e, P) == Pending(e) \cup (IF P = {} THEN {} ELSE {Optimized(P)})
Outgoing(e, P) == (Pending(e) \ P) \cup (IF P = {} THEN {} ELSE {Optimized(P)})

Failures(S) == IF SendMayFail THEN SUBSET S ELSE {{}}

\* A transmission adds its MessageId to the message before sendto is called.
Stamped(m) == IF m.cmd = "PAYLOAD" THEN [m EXCEPT !.hashes = @ \cup {Hash(m.time)}] ELSE m

\* The packed originals are forgotten for the packed message; that one is never in
\* Queue.Send before its first transmission, and is lost when sendto refuses it.
Transmit(e, P, failed, failedAcks) ==
    LET out  == Outgoing(e, P)
        done == out \ failed
        over == PartsOf(Abandoned(e))
        lost == IF P # {} /\ Optimized(P) \in failed THEN PartsOf(P) ELSE {}
        key  == KeyAfterPacking(e, P)
    IN  /\ sent' = [sent EXCEPT ![e] = Kept(e) \cup {Stamped(m) : m \in done}]
        /\ send' = [send EXCEPT ![e] = {Stamped(m) : m \in failed \cap (Pending(e) \ P)}]
        /\ acks' = [acks EXCEPT ![e] = failedAcks]
        /\ keyPing' = [keyPing EXCEPT ![e] = key]
        /\ net' = net \cup {Transmission(e, m, key) : m \in done}
                      \cup {Confirmation(e, x) : x \in acks[e] \ failedAcks}
        /\ fate' = [p \in Payloads |-> IF p \in over THEN "expired"
                                       ELSE IF p \in lost THEN "lost" ELSE fate[p]]
        /\ wire' = [p \in Payloads |-> IF p \in PartsOf(done) THEN wire[p] + 1 ELSE wire[p]]
        /\ ids' = [p \in Payloads |->
              ids[p] \cup {Hash(m.time) : m \in {x \in out : p \in x.parts}}]
        /\ UNCHANGED <<now, state, received, collected, owner, retries, dups>>

\* connectionSendQueue as its two callers run it: clientUpdate whenever the client is
\* IDLE, updateClients only when the Queue.Send of the slot is not empty.
BugNeedsQueue(e) == state[e] # "DISCONNECTED" /\ (send[e] # {} \/ acks[e] # {})
MaySend(e) ==
    IF e = Client THEN state[e] = "IDLE"
    ELSE state[e] # "DISCONNECTED" /\ (send[e] # {} \/ acks[e] # {})

SendQueue(e) ==
    /\ MaySend(e)
    /\ \E P \in Packings(e) :
          \E failed \in Failures(Outgoing(e, P)), failedAcks \in Failures(acks[e]) :
             Transmit(e, P, failed, failedAcks)

----------------------------------------------------------------------------
\* connectionHandleCommand: one action per command and type

\* A datagram leaves the network when it is handled, unless the network made a copy of it.
Consume(d) ==
    \/ net' = net \ {d} /\ dups' = dups
    \/ dups < MaxDups /\ net' = net /\ dups' = dups + 1

\* handleRequestCONNECT: the client's confirmation ends the handshake.
HandleCONNECT(e, d) ==
    /\ d.to = e /\ d.cmd = "CONNECT" /\ d.type = "REQUEST"
    /\ d.packed /\ state[e] = "HANDSHAKE"
    /\ Consume(d)
    /\ state' = [state EXCEPT ![e] = "IDLE"]
    /\ sent' = [sent EXCEPT ![e] = {m \in @ : m.cmd # "CONNECT"}]
    /\ UNCHANGED <<now, keyPing, send, acks, received, collected, owner, fate, retries, wire, ids>>

\* handleRequestDISCONNECT: refused unless the slot is IDLE.
HandleDISCONNECT(e, d) ==
    /\ d.to = e /\ d.cmd = "DISCONNECT" /\ d.type = "REQUEST"
    /\ state[e] = "IDLE"
    /\ Consume(d)
    /\ state' = [state EXCEPT ![e] = "DISCONNECTED"]
    /\ keyPing' = [keyPing EXCEPT ![e] = 0]
    /\ UNCHANGED <<now, send, acks, sent, received, collected, owner, fate, retries, wire, ids>>

\* handlePAYLOADResponse: the first message of Queue.Sent that was transmitted under the
\* confirmed MessageId leaves it.
BugAnyMessage(e, x) == {m \in sent[e] : m.hashes # {}}
Confirmable(e, x) == {m \in sent[e] : m.hashes # {} /\ (Hash(m.time) = x \/ x \in m.hashes)}

HandlePAYLOADResponse(e, d) ==
    /\ d.to = e /\ d.cmd = "PAYLOAD" /\ d.type = "RESPONSE"
    /\ state[e] = "IDLE"
    /\ Consume(d)
    /\ \/ /\ Confirmable(e, d.mid) = {}
          /\ UNCHANGED <<sent, fate>>
       \/ \E m \in Confirmable(e, d.mid) :
             /\ sent' = [sent EXCEPT ![e] = @ \ {m}]
             /\ fate' = [p \in Payloads |-> IF p \in m.parts THEN "confirmed" ELSE fate[p]]
    /\ UNCHANGED <<now, state, keyPing, send, acks, received, collected, owner, retries, wire, ids>>

\* The search for the key: the first instant of the window whose hash is the MessageId.
Candidates(x) == {t \in (FirstPing - Advance)..(FirstPing - Advance + Lapse - 1) : Hash(t) = x}
Keys(e, d) ==
    IF keyPing[e] # 0 THEN {keyPing[e]}
    ELSE {t \in Candidates(d.mid) : \A u \in Candidates(d.mid) : t <= u}

\* handlePAYLOADRequest: find the key, decipher, queue what was carried, confirm. With a
\* wrong key a compressed payload does not inflate and is refused without a confirmation;
\* an uncompressed one is delivered as the garbage it deciphers to.
HandlePAYLOADRequest(e, d) ==
    /\ d.to = e /\ d.cmd = "PAYLOAD" /\ d.type = "REQUEST"
    /\ state[e] = "IDLE"
    /\ Consume(d)
    /\ \E key \in Keys(e, d) :
          LET intact == ~d.enc \/ d.key = key
          IN  /\ keyPing' = [keyPing EXCEPT ![e] = key]
              /\ IF intact \/ ~d.comp
                 THEN /\ received' = [received EXCEPT ![e] = [a \in Arrivals |->
                            IF a[1] \in d.parts /\ a[2] = intact THEN @[a] + 1 ELSE @[a]]]
                      /\ acks' = [acks EXCEPT ![e] = @ \cup {d.mid}]
                 ELSE UNCHANGED <<received, acks>>
    /\ UNCHANGED <<now, state, send, sent, collected, owner, fate, retries, wire, ids>>

\* Lost by the network, or read and refused by a handler that returns before it changes
\* anything: the wrong state for the command, no key found, an ignored response.
Drop(d) ==
    /\ net' = net \ {d}
    /\ UNCHANGED <<now, endpointVars, historyVars>>

\* Prompt is the scheduling of an application that calls clientUpdate far more often than
\* once per Lifetime: the clock does not move while that call has something to do.
NothingDue(e) == state[e] = "IDLE" => send[e] = {} /\ acks[e] = {} /\ Expired(e) = {}

Tick ==
    /\ now < MaxTime
    /\ Prompt => NothingDue(Client)
    /\ now' = now + 1
    /\ UNCHANGED <<endpointVars, net, historyVars>>

Receive(e, d) ==
    \/ HandleCONNECT(e, d)
    \/ HandleDISCONNECT(e, d)
    \/ HandlePAYLOADResponse(e, d)
    \/ HandlePAYLOADRequest(e, d)

Next ==
    \/ \E e \in Endpoints, p \in Payloads, mode \in Modes, r \in RetryCounts : Push(e, p, mode, r)
    \/ \E e \in Endpoints : Collect(e) \/ SendQueue(e)
    \/ ClientDisconnect
    \/ \E e \in Endpoints, d \in net : Receive(e, d)
    \/ \E d \in net : Drop(d)
    \/ Tick

Spec == Init /\ [][Next]_vars

\* The application keeps calling clientUpdate, and time passes.
FairSpec == Spec /\ WF_vars(SendQueue(Client)) /\ WF_vars(Tick)

----------------------------------------------------------------------------
\* Properties

\* Every variable stays in the domain its C++ type and its use give it.
TypeOK ==
    /\ now \in 0..MaxTime
    /\ state \in [Endpoints -> States]
    /\ keyPing \in [Endpoints -> Nat]
    /\ send \in [Endpoints -> SUBSET Message]
    /\ acks \in [Endpoints -> SUBSET Nat]
    /\ sent \in [Endpoints -> SUBSET Message]
    /\ received \in [Endpoints -> [Arrivals -> Nat]]
    /\ collected \in [Endpoints -> [Arrivals -> Nat]]
    /\ net \in SUBSET Datagram
    /\ owner \in [Payloads -> Endpoints \cup {Nobody}]
    /\ fate \in [Payloads -> Fates]
    /\ retries \in [Payloads -> 0..255]
    /\ wire \in [Payloads -> Nat]
    /\ ids \in [Payloads -> SUBSET Nat]
    /\ dups \in Nat

\* Scanning, packing, transmitting and confirming move a pushed payload around without
\* ever copying or dropping it: as long as nothing has decided its fate it is in exactly
\* one message, of one queue, of the endpoint that pushed it.
Queued(e) == send[e] \cup sent[e]
QueuedIsLive ==
    \A e \in Endpoints : \A p \in PartsOf(Queued(e)) : fate[p] = "live" /\ owner[p] = e
LiveIsQueued ==
    \A p \in Payloads : fate[p] = "live" => owner[p] \in Endpoints /\ p \in PartsOf(Queued(owner[p]))
SoleMessage ==
    \A e \in Endpoints : \A m, n \in Queued(e) : m.parts \cap n.parts # {} => m = n
SoleQueue ==
    \A e \in Endpoints : PartsOf(send[e]) \cap PartsOf(sent[e]) = {}
OneHome == QueuedIsLive /\ LiveIsQueued /\ SoleMessage /\ SoleQueue

\* Retries are bounded although packing replaces the RetryCount of the packed messages by
\* its own: a payload pushed with n retries is transmitted at most n + 2 times.
BoundedTransmissions == \A p \in Payloads : wire[p] <= retries[p] + 2

\* How many copies of p have reached the peer, deciphered well or not.
Copies(e, p) == received[e][<<p, TRUE>>] + received[e][<<p, FALSE>>]
                + collected[e][<<p, TRUE>>] + collected[e][<<p, FALSE>>]
Arrived(e, p) == Copies(e, p) > 0

\* There is no duplicate detection in the receiver, so the sender's retries are what bounds
\* the copies an application gets: one per transmission and per duplicate of the network.
CopiesBounded ==
    \A p \in Payloads, e \in Endpoints : Copies(e, p) <= (IF owner[p] = Peer(e) THEN wire[p] + dups ELSE 0)

\* A confirmation tells the truth: a payload whose message left Queue.Sent as confirmed has
\* arrived, or was transmitted under a MessageId it shares with a payload that has.
ConfirmedHasArrived ==
    \A e \in Endpoints, p \in Payloads : owner[p] = e /\ fate[p] = "confirmed" =>
        \E q \in Payloads : /\ owner[q] = e
                            /\ Arrived(Peer(e), q)
                            /\ q = p \/ ids[p] \cap ids[q] # {}

\* The whole of the connection implements the contract of its payloads.
Contract == INSTANCE PayloadContract WITH
    MayLose <- SendMayFail,
    arrived <- [p \in Payloads |-> \E e \in Endpoints : owner[p] = Peer(e) /\ Arrived(e, p)]
ContractHolds == Contract!Spec

\* Nothing the client pushed waits for ever: whatever the network does, a live payload is
\* confirmed or given up, or the client disconnects.
ClientPayloadsSettle ==
    \A p \in Payloads :
        (fate[p] = "live" /\ owner[p] = Client) ~> (fate[p] # "live" \/ state[Client] # "IDLE")

\* What the search for the key is for: the key an endpoint finds is the one the datagram
\* was ciphered with.
DetectedKeyDeciphers ==
    [][\A e \in Endpoints, d \in net :
          HandlePAYLOADRequest(e, d) /\ keyPing[e] = 0 /\ d.enc => keyPing'[e] = d.key]_vars
=============================================================================

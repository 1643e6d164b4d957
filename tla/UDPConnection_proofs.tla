----------------------- MODULE UDPConnection_proofs -----------------------
(***************************************************************************)
(* Proofs about UDPConnection, for every value of its constants.           *)
(***************************************************************************)
EXTENDS UDPConnection, FiniteSetTheorems, TLAPS

----------------------------------------------------------------------------
\* Type correctness

\* What the scan of Queue.Sent and the packing produce are messages: the facts about
\* connectionSendQueue that every invariant below rests on.
LEMMA PendingType ==
    ASSUME TypeOK, NEW e \in Endpoints
    PROVE  /\ Expired(e) \subseteq sent[e]
           /\ Retried(e) \subseteq Expired(e)
           /\ \A m \in Retried(e) : Restamp(m) \in Message
           /\ Pending(e) \subseteq Message
<1>1. Expired(e) \subseteq sent[e] /\ Retried(e) \subseteq Expired(e)
  BY DEF Expired, Retried
<1>2. now + Lifetime \in Timestamps
  BY ConnectionAssumption DEF TypeOK, Timestamps
<1>3. ASSUME NEW m \in Retried(e) PROVE Restamp(m) \in Message
  <2>1. m \in Message /\ m.retry > 0
    BY <1>1 DEF Retried, TypeOK
  <2>2. m.retry - 1 \in 0..255
    BY <2>1 DEF Message
  <2> QED BY <1>2, <2>1, <2>2 DEF Restamp, Message
<1>4. Pending(e) \subseteq Message
  BY <1>3 DEF Pending, TypeOK
<1> QED BY <1>1, <1>3, <1>4

\* payloadQueueOptimize packs single payload messages of the queue, nothing else.
LEMMA PackingsType ==
    ASSUME NEW e \in Endpoints, NEW P \in Packings(e)
    PROVE  P \subseteq Pending(e) /\ \A m \in P : m.cmd = "PAYLOAD" /\ ~m.packed
BY DEF Packings

LEMMA OutgoingType ==
    ASSUME TypeOK, NEW e \in Endpoints, NEW P \in Packings(e)
    PROVE  /\ Optimized(P) \in Message
           /\ Outgoing(e, P) \subseteq Message
           /\ \A m \in Message : Stamped(m) \in Message /\ Hash(m.time) \in Nat
<1>1. P \subseteq Message
  BY PendingType, PackingsType
<1>2. PartsOf(P) \subseteq Payloads
  BY <1>1 DEF PartsOf, Message
<1>3. now \in Timestamps
  BY ConnectionAssumption DEF TypeOK, Timestamps
<1>4. Optimized(P) \in Message
  BY <1>2, <1>3 DEF Optimized, Message
<1>5. Outgoing(e, P) \subseteq Message
  BY <1>4, PendingType DEF Outgoing
<1>6. ASSUME NEW m \in Message PROVE Stamped(m) \in Message /\ Hash(m.time) \in Nat
  <2>1. Hash(m.time) \in Nat
    BY HashAssumption DEF Message
  <2> QED BY <2>1 DEF Stamped, Message
<1> QED BY <1>4, <1>5, <1>6

LEMMA DatagramType ==
    ASSUME NEW e \in Endpoints
    PROVE  /\ Peer(e) \in Endpoints
           /\ \A m \in Message, key \in Nat : Transmission(e, m, key) \in Datagram
           /\ \A x \in Nat : Confirmation(e, x) \in Datagram
           /\ \A n \in Nat, b \in BOOLEAN : /\ Command(e, "CONNECT", "REQUEST", b, n) \in Datagram
                                            /\ Command(e, "DISCONNECT", "REQUEST", b, n) \in Datagram
<1>1. Peer(e) \in Endpoints
  BY DEF Peer, Endpoints
<1>2. ASSUME NEW m \in Message, NEW key \in Nat PROVE Transmission(e, m, key) \in Datagram
  <2>1. Hash(m.time) \in Nat
    BY HashAssumption DEF Message
  <2>2. CASE m.cmd = "PAYLOAD"
    BY <1>1, <2>1, <2>2 DEF Transmission, Datagram, Message
  <2>3. CASE m.cmd = "CONNECT"
    BY <1>1, <2>3 DEF Transmission, Command, Datagram, Message
  <2> QED BY <2>2, <2>3 DEF Message
<1>3. ASSUME NEW x \in Nat PROVE Confirmation(e, x) \in Datagram
  BY <1>1 DEF Confirmation, Command, Datagram
<1>4. ASSUME NEW n \in Nat, NEW b \in BOOLEAN
      PROVE  /\ Command(e, "CONNECT", "REQUEST", b, n) \in Datagram
             /\ Command(e, "DISCONNECT", "REQUEST", b, n) \in Datagram
  BY DEF Command, Datagram
<1> QED BY <1>1, <1>2, <1>3, <1>4

LEMMA InitType == Init => TypeOK
<1> SUFFICES ASSUME Init PROVE TypeOK
  OBVIOUS
<1>1. FirstPing \in Timestamps /\ FirstPing \in 0..MaxTime
  BY ConnectionAssumption DEF Timestamps
<1>2. ConnectResponse \in Message
  BY <1>1 DEF ConnectResponse, Message
<1>3. Server \in Endpoints /\ Command(Server, "CONNECT", "REQUEST", TRUE, 0) \in Datagram
  BY DatagramType DEF Endpoints
<1>4. /\ now \in 0..MaxTime /\ dups \in Nat
      /\ state \in [Endpoints -> States] /\ keyPing \in [Endpoints -> Nat]
      /\ net \in SUBSET Datagram
  BY <1>1, <1>3 DEF Init, States
<1>5. /\ send \in [Endpoints -> SUBSET Message] /\ sent \in [Endpoints -> SUBSET Message]
      /\ acks \in [Endpoints -> SUBSET Nat]
  BY <1>2 DEF Init
<1>6. /\ received \in [Endpoints -> [Arrivals -> Nat]]
      /\ collected \in [Endpoints -> [Arrivals -> Nat]]
  BY DEF Init
<1>7. /\ owner \in [Payloads -> Endpoints \cup {Nobody}] /\ fate \in [Payloads -> Fates]
      /\ retries \in [Payloads -> 0..255] /\ wire \in [Payloads -> Nat]
      /\ ids \in [Payloads -> SUBSET Nat]
  BY DEF Init, Fates
<1> QED BY <1>4, <1>5, <1>6, <1>7 DEF TypeOK

\* connectionSendQueue keeps the types.
LEMMA TransmitType ==
    ASSUME TypeOK, NEW e \in Endpoints, NEW P \in Packings(e),
           NEW failed \in SUBSET Outgoing(e, P), NEW failedAcks \in SUBSET acks[e],
           Transmit(e, P, failed, failedAcks)
    PROVE  TypeOK'
<1> DEFINE out == Outgoing(e, P)
           key == KeyAfterPacking(e, P)
<1>1. out \subseteq Message /\ \A m \in Message : Stamped(m) \in Message /\ Hash(m.time) \in Nat
  BY OutgoingType
<1>2. key \in Nat
  BY ConnectionAssumption DEF KeyAfterPacking, KeyAfterScan, TypeOK
<1>3. sent' \in [Endpoints -> SUBSET Message]
  BY <1>1 DEF Transmit, TypeOK, Kept
<1>4. send' \in [Endpoints -> SUBSET Message]
  BY <1>1 DEF Transmit, TypeOK
<1>5. acks' \in [Endpoints -> SUBSET Nat]
  BY DEF Transmit, TypeOK
<1>6. keyPing' \in [Endpoints -> Nat]
  BY <1>2 DEF Transmit, TypeOK
<1>7. net' \in SUBSET Datagram
  <2>1. \A m \in out : Transmission(e, m, key) \in Datagram
    BY <1>1, <1>2, DatagramType
  <2>2. \A x \in acks[e] : Confirmation(e, x) \in Datagram
    BY DatagramType DEF TypeOK
  <2> QED BY <2>1, <2>2 DEF Transmit, TypeOK
<1>8. fate' \in [Payloads -> Fates]
  BY DEF Transmit, TypeOK, Fates
<1>9. wire' \in [Payloads -> Nat]
  BY DEF Transmit, TypeOK
<1>10. ids' \in [Payloads -> SUBSET Nat]
  BY <1>1 DEF Transmit, TypeOK
<1> QED
  BY <1>3, <1>4, <1>5, <1>6, <1>7, <1>8, <1>9, <1>10 DEF Transmit, TypeOK

\* SendQueue is a Transmit of some packing and some failures.
LEMMA SendQueueIsTransmit ==
    ASSUME NEW e \in Endpoints, SendQueue(e)
    PROVE  \E P \in Packings(e) : \E failed \in SUBSET Outgoing(e, P), failedAcks \in SUBSET acks[e] :
              /\ Transmit(e, P, failed, failedAcks)
              /\ ~SendMayFail => failed = {}
BY DEF SendQueue, Failures

LEMMA KeysType ==
    ASSUME TypeOK, NEW e \in Endpoints, NEW d \in net
    PROVE  Keys(e, d) \subseteq Nat
<1>1. FirstPing - Advance \in Nat
  BY ConnectionAssumption
<1>2. Candidates(d.mid) \subseteq Nat
  BY <1>1, ConnectionAssumption DEF Candidates
<1> QED BY <1>2 DEF Keys, TypeOK

LEMMA NextType == TypeOK /\ [Next]_vars => TypeOK'
<1> SUFFICES ASSUME TypeOK, [Next]_vars PROVE TypeOK'
  OBVIOUS
<1>1. ASSUME NEW e \in Endpoints, NEW p \in Payloads, NEW mode \in Modes, NEW r \in RetryCounts,
             Push(e, p, mode, r)
      PROVE TypeOK'
  <2>1. now \in Timestamps /\ now \in Nat
    BY ConnectionAssumption DEF TypeOK, Timestamps
  <2>2. mode[1] \in BOOLEAN /\ mode[2] \in BOOLEAN /\ r \in 0..255
    BY ConnectionAssumption
  <2>3. [cmd |-> "PAYLOAD", packed |-> FALSE, enc |-> mode[1], comp |-> mode[2],
         time |-> now, retry |-> r, hashes |-> {}, parts |-> {p}] \in Message
    BY <2>1, <2>2 DEF Message
  <2> QED BY <1>1, <2>1, <2>2, <2>3 DEF Push, TypeOK, Fates
<1>2. ASSUME NEW e \in Endpoints, Collect(e) PROVE TypeOK'
  BY <1>2 DEF Collect, TypeOK, historyVars
<1>3. ASSUME NEW e \in Endpoints, SendQueue(e) PROVE TypeOK'
  BY <1>3, SendQueueIsTransmit, TransmitType
<1>4. CASE ClientDisconnect
  <2>1. \A n \in Nat : Command(Server, "DISCONNECT", "REQUEST", FALSE, n) \in Datagram
    <3>1. Server \in Endpoints
      BY DEF Endpoints
    <3> QED BY <3>1, DatagramType
  <2>2. {Command(Server, "DISCONNECT", "REQUEST", FALSE, n) : n \in 1..2} \subseteq Datagram
    <3>1. \A n \in 1..2 : n \in Nat
      OBVIOUS
    <3> QED BY <2>1, <3>1
  <2>3. net' \in SUBSET Datagram
    BY <1>4, <2>2 DEF ClientDisconnect, TypeOK
  <2> QED BY <1>4, <2>3 DEF ClientDisconnect, TypeOK, States, historyVars
<1>5. ASSUME NEW e \in Endpoints, NEW d \in net, HandleCONNECT(e, d) PROVE TypeOK'
  BY <1>5 DEF HandleCONNECT, Consume, TypeOK, States
<1>6. ASSUME NEW e \in Endpoints, NEW d \in net, HandleDISCONNECT(e, d) PROVE TypeOK'
  BY <1>6 DEF HandleDISCONNECT, Consume, TypeOK, States
<1>7. ASSUME NEW e \in Endpoints, NEW d \in net, HandlePAYLOADResponse(e, d) PROVE TypeOK'
  <2>1. net' \in SUBSET Datagram /\ dups' \in Nat
    BY <1>7 DEF HandlePAYLOADResponse, Consume, TypeOK
  <2>2. sent' \in [Endpoints -> SUBSET Message] /\ fate' \in [Payloads -> Fates]
    <3>1. CASE UNCHANGED <<sent, fate>>
      BY <3>1 DEF TypeOK
    <3>2. ASSUME NEW m \in Confirmable(e, d.mid),
                 sent' = [sent EXCEPT ![e] = @ \ {m}],
                 fate' = [p \in Payloads |-> IF p \in m.parts THEN "confirmed" ELSE fate[p]]
          PROVE  sent' \in [Endpoints -> SUBSET Message] /\ fate' \in [Payloads -> Fates]
      BY <3>2 DEF TypeOK, Fates
    <3> QED BY <1>7, <3>1, <3>2 DEF HandlePAYLOADResponse
  <2> QED BY <1>7, <2>1, <2>2 DEF HandlePAYLOADResponse, TypeOK
<1>8. ASSUME NEW e \in Endpoints, NEW d \in net, HandlePAYLOADRequest(e, d) PROVE TypeOK'
  <2>1. PICK key \in Keys(e, d) :
           /\ keyPing' = [keyPing EXCEPT ![e] = key]
           /\ IF (~d.enc \/ d.key = key) \/ ~d.comp
              THEN /\ received' = [received EXCEPT ![e] = [a \in Arrivals |->
                         IF a[1] \in d.parts /\ a[2] = (~d.enc \/ d.key = key) THEN @[a] + 1 ELSE @[a]]]
                   /\ acks' = [acks EXCEPT ![e] = @ \cup {d.mid}]
              ELSE UNCHANGED <<received, acks>>
    BY <1>8 DEF HandlePAYLOADRequest
  <2>2. keyPing' \in [Endpoints -> Nat]
    BY <2>1, KeysType DEF TypeOK
  <2>3. received' \in [Endpoints -> [Arrivals -> Nat]] /\ acks' \in [Endpoints -> SUBSET Nat]
    <3>1. CASE UNCHANGED <<received, acks>>
      BY <3>1 DEF TypeOK
    <3>2. CASE (~d.enc \/ d.key = key) \/ ~d.comp
      <4>1. d.mid \in Nat
        BY DEF TypeOK, Datagram
      <4>2. received[e] \in [Arrivals -> Nat]
        BY DEF TypeOK
      <4>3. [a \in Arrivals |-> IF a[1] \in d.parts /\ a[2] = (~d.enc \/ d.key = key)
                                THEN received[e][a] + 1 ELSE received[e][a]] \in [Arrivals -> Nat]
        BY <4>2, Z3
      <4>4. received' = [received EXCEPT ![e] =
                [a \in Arrivals |-> IF a[1] \in d.parts /\ a[2] = (~d.enc \/ d.key = key)
                                    THEN received[e][a] + 1 ELSE received[e][a]]]
        BY <2>1, <3>2
      <4>5. received' \in [Endpoints -> [Arrivals -> Nat]]
        BY <4>3, <4>4 DEF TypeOK
      <4>6. acks' = [acks EXCEPT ![e] = @ \cup {d.mid}]
        BY <2>1, <3>2
      <4>7. acks' \in [Endpoints -> SUBSET Nat]
        BY <4>1, <4>6 DEF TypeOK
      <4> QED BY <4>5, <4>7
    <3> QED BY <2>1, <3>1, <3>2
  <2>5. net' \in SUBSET Datagram /\ dups' \in Nat
    BY <1>8 DEF HandlePAYLOADRequest, Consume, TypeOK
  <2> QED BY <1>8, <2>2, <2>3, <2>5 DEF HandlePAYLOADRequest, TypeOK
<1>9. ASSUME NEW d \in net, Drop(d) PROVE TypeOK'
  BY <1>9 DEF Drop, TypeOK, endpointVars, historyVars
<1>10. CASE Tick
  BY <1>10, ConnectionAssumption DEF Tick, TypeOK, endpointVars, historyVars
<1>11. CASE UNCHANGED vars
  BY <1>11 DEF vars, TypeOK, endpointVars, historyVars
<1> QED
  BY <1>1, <1>2, <1>3, <1>4, <1>5, <1>6, <1>7, <1>8, <1>9, <1>10, <1>11 DEF Next, Receive

\* Every variable of the connection stays in its domain, whatever the constants.
THEOREM TypeCorrect == Spec => []TypeOK
<1>1. Init => TypeOK
  BY InitType
<1>2. TypeOK /\ [Next]_vars => TypeOK'
  BY NextType
<1> QED BY <1>1, <1>2, PTL DEF Spec

----------------------------------------------------------------------------
\* Every live payload is in exactly one message

\* No two messages of S share a payload.
SoleIn(S) == \A m, n \in S : m.parts \cap n.parts # {} => m = n

\* The scan of Queue.Sent separates its payloads into those that stay, those that are
\* queued again and those that are given up.
LEMMA ScanSeparates ==
    ASSUME TypeOK, OneHome, NEW e \in Endpoints
    PROVE  /\ SoleIn(Pending(e)) /\ SoleIn(Kept(e))
           /\ PartsOf(Pending(e)) \cap PartsOf(Kept(e)) = {}
           /\ PartsOf(Abandoned(e)) \cap PartsOf(Pending(e)) = {}
           /\ PartsOf(Abandoned(e)) \cap PartsOf(Kept(e)) = {}
           /\ PartsOf(Queued(e)) = PartsOf(Pending(e)) \cup PartsOf(Kept(e)) \cup PartsOf(Abandoned(e))
<1> DEFINE R == {Restamp(m) : m \in Retried(e)}
<1>1. /\ Expired(e) \subseteq sent[e] /\ Retried(e) \subseteq Expired(e)
      /\ sent[e] \subseteq Message /\ send[e] \subseteq Message
  BY PendingType DEF TypeOK
<1>2. \A m \in Message : Restamp(m).parts = m.parts
  BY DEF Restamp, Message
<1>3. \A m, n \in send[e] \cup sent[e] : m.parts \cap n.parts # {} => m = n
  BY DEF OneHome, SoleMessage, Queued
<1>4. \A m \in send[e], n \in sent[e] : m.parts \cap n.parts = {}
  BY DEF OneHome, SoleQueue, PartsOf
<1>5. SoleIn(Pending(e))
  <2> SUFFICES ASSUME NEW m \in Pending(e), NEW n \in Pending(e), m.parts \cap n.parts # {}
               PROVE  m = n
    BY DEF SoleIn
  <2>1. CASE m \in send[e] /\ n \in send[e]
    BY <2>1, <1>3
  <2>2. CASE m \in send[e] /\ n \in R
    <3>1. PICK x \in Retried(e) : n = Restamp(x)
      BY <2>2
    <3>2. m.parts \cap x.parts # {}
      BY <3>1, <1>1, <1>2
    <3> QED BY <2>2, <3>2, <1>1, <1>4
  <2>3. CASE m \in R /\ n \in send[e]
    <3>1. PICK x \in Retried(e) : m = Restamp(x)
      BY <2>3
    <3>2. n.parts \cap x.parts # {}
      BY <3>1, <1>1, <1>2
    <3> QED BY <2>3, <3>2, <1>1, <1>4
  <2>4. CASE m \in R /\ n \in R
    <3>1. PICK x \in Retried(e) : m = Restamp(x)
      BY <2>4
    <3>2. PICK y \in Retried(e) : n = Restamp(y)
      BY <2>4
    <3>3. x.parts \cap y.parts # {}
      BY <3>1, <3>2, <1>1, <1>2
    <3> QED BY <3>1, <3>2, <3>3, <1>1, <1>3
  <2> QED BY <2>1, <2>2, <2>3, <2>4 DEF Pending
<1>6. SoleIn(Kept(e))
  BY <1>3 DEF SoleIn, Kept
<1>7. PartsOf(Pending(e)) = PartsOf(send[e]) \cup PartsOf(Retried(e))
  <2>1. PartsOf(R) = PartsOf(Retried(e))
    BY <1>1, <1>2 DEF PartsOf
  <2> QED BY <2>1 DEF PartsOf, Pending
<1>8. /\ PartsOf(Retried(e)) \cap PartsOf(Kept(e)) = {}
      /\ PartsOf(Retried(e)) \cap PartsOf(Abandoned(e)) = {}
      /\ PartsOf(Kept(e)) \cap PartsOf(Abandoned(e)) = {}
  BY <1>1, <1>3 DEF PartsOf, Kept, Abandoned
<1>9. /\ PartsOf(send[e]) \cap PartsOf(Kept(e)) = {}
      /\ PartsOf(send[e]) \cap PartsOf(Abandoned(e)) = {}
  BY <1>1, <1>4 DEF PartsOf, Kept, Abandoned
<1>10. PartsOf(sent[e]) = PartsOf(Retried(e)) \cup PartsOf(Kept(e)) \cup PartsOf(Abandoned(e))
  BY <1>1 DEF PartsOf, Kept, Abandoned
<1>11. PartsOf(Queued(e)) = PartsOf(send[e]) \cup PartsOf(sent[e])
  BY DEF PartsOf, Queued
<1> QED BY <1>5, <1>6, <1>7, <1>8, <1>9, <1>10, <1>11

\* Packing neither copies nor drops a payload.
LEMMA PackingConserves ==
    ASSUME TypeOK, OneHome, NEW e \in Endpoints, NEW P \in Packings(e)
    PROVE  SoleIn(Outgoing(e, P)) /\ PartsOf(Outgoing(e, P)) = PartsOf(Pending(e))
<1> DEFINE rest == Pending(e) \ P
<1>1. P \subseteq Pending(e) /\ SoleIn(Pending(e))
  BY PackingsType, ScanSeparates
<1>2. Optimized(P).parts = PartsOf(P)
  BY DEF Optimized
<1>3. PartsOf(rest) \cap PartsOf(P) = {} /\ PartsOf(Pending(e)) = PartsOf(rest) \cup PartsOf(P)
  BY <1>1 DEF PartsOf, SoleIn
<1>4. SoleIn(rest)
  BY <1>1 DEF SoleIn
<1>5. CASE P = {}
  BY <1>1, <1>5 DEF Outgoing
<1>6. CASE P # {}
  <2>1. Outgoing(e, P) = rest \cup {Optimized(P)}
    BY <1>6 DEF Outgoing
  <2>2. PartsOf(Outgoing(e, P)) = PartsOf(rest) \cup PartsOf(P)
    BY <2>1, <1>2 DEF PartsOf
  <2>3. \A m \in rest : m.parts \cap Optimized(P).parts = {}
    BY <1>2, <1>3 DEF PartsOf
  <2>4. SoleIn(Outgoing(e, P))
    BY <2>1, <2>3, <1>4 DEF SoleIn
  <2> QED BY <2>2, <2>4, <1>3
<1> QED BY <1>5, <1>6

\* Stamping a set of messages with the MessageIds of their transmission keeps their payloads.
LEMMA StampingKeeps ==
    ASSUME NEW S \in SUBSET Message
    PROVE  /\ PartsOf({Stamped(m) : m \in S}) = PartsOf(S)
           /\ SoleIn(S) => SoleIn({Stamped(m) : m \in S})
<1>1. \A m \in Message : Stamped(m).parts = m.parts
  BY DEF Stamped, Message
<1>2. PartsOf({Stamped(m) : m \in S}) = PartsOf(S)
  BY <1>1 DEF PartsOf
<1>3. SoleIn(S) => SoleIn({Stamped(m) : m \in S})
  <2> SUFFICES ASSUME SoleIn(S), NEW x \in S, NEW y \in S,
                      Stamped(x).parts \cap Stamped(y).parts # {}
               PROVE  Stamped(x) = Stamped(y)
    BY DEF SoleIn
  <2> QED BY <1>1 DEF SoleIn
<1> QED BY <1>2, <1>3

\* Where the payloads of e are after connectionSendQueue.
LEMMA TransmitMoves ==
    ASSUME TypeOK, OneHome, NEW e \in Endpoints, NEW P \in Packings(e),
           NEW failed \in SUBSET Outgoing(e, P), NEW failedAcks \in SUBSET acks[e],
           Transmit(e, P, failed, failedAcks)
    PROVE  LET done  == Outgoing(e, P) \ failed
               again == failed \cap (Pending(e) \ P)
           IN  /\ PartsOf(sent'[e]) = PartsOf(Kept(e)) \cup PartsOf(done)
               /\ PartsOf(send'[e]) = PartsOf(again)
               /\ PartsOf(done) \cap PartsOf(again) = {}
               /\ SoleIn(sent'[e]) /\ SoleIn(send'[e])
<1> DEFINE out == Outgoing(e, P)
           done == out \ failed
           again == failed \cap (Pending(e) \ P)
<1>1. SoleIn(out) /\ out \subseteq Message /\ PartsOf(out) = PartsOf(Pending(e))
  BY PackingConserves, OutgoingType
<1>2. again \subseteq out /\ done \subseteq out /\ again \cap done = {}
  BY DEF Outgoing
<1>3. SoleIn(done) /\ SoleIn(again) /\ PartsOf(done) \cap PartsOf(again) = {}
  BY <1>1, <1>2 DEF SoleIn, PartsOf
<1>4. PartsOf(done) \subseteq PartsOf(Pending(e))
  BY <1>1, <1>2 DEF PartsOf
<1>5. /\ sent'[e] = Kept(e) \cup {Stamped(m) : m \in done}
      /\ send'[e] = {Stamped(m) : m \in again}
  BY DEF Transmit, TypeOK, Kept
<1> DEFINE D == {Stamped(m) : m \in done}
<1>6. PartsOf(D) = PartsOf(done) /\ SoleIn(D)
  BY <1>1, <1>2, <1>3, StampingKeeps
<1>7. PartsOf(send'[e]) = PartsOf(again) /\ SoleIn(send'[e])
  BY <1>1, <1>2, <1>3, <1>5, StampingKeeps
<1>8. PartsOf(sent'[e]) = PartsOf(Kept(e)) \cup PartsOf(D)
  BY <1>5 DEF PartsOf
<1>9. PartsOf(Kept(e)) \cap PartsOf(D) = {} /\ SoleIn(Kept(e))
  BY <1>4, <1>6, ScanSeparates
<1>10. SoleIn(sent'[e])
  BY <1>5, <1>6, <1>9 DEF SoleIn, PartsOf
<1> QED BY <1>3, <1>6, <1>7, <1>8, <1>10

\* A payload that was to be transmitted is in the message that was, in one that will be
\* again, or was packed into the message that sendto refused.
LEMMA TransmitAccounts ==
    ASSUME TypeOK, OneHome, NEW e \in Endpoints, NEW P \in Packings(e),
           NEW failed \in SUBSET Outgoing(e, P)
    PROVE  LET done  == Outgoing(e, P) \ failed
               again == failed \cap (Pending(e) \ P)
               lost  == IF P # {} /\ Optimized(P) \in failed THEN PartsOf(P) ELSE {}
           IN  /\ PartsOf(Pending(e)) = PartsOf(done) \cup PartsOf(again) \cup lost
               /\ lost \cap PartsOf(done) = {} /\ lost \cap PartsOf(again) = {}
<1> DEFINE out == Outgoing(e, P)
           done == out \ failed
           again == failed \cap (Pending(e) \ P)
<1>1. SoleIn(out) /\ PartsOf(out) = PartsOf(Pending(e))
  BY PackingConserves
<1>2. P \subseteq Pending(e) /\ SoleIn(Pending(e))
  BY PackingsType, ScanSeparates
<1>3. PartsOf(out) = PartsOf(done) \cup PartsOf(failed)
  BY DEF PartsOf
<1>4. Optimized(P).parts = PartsOf(P)
  BY DEF Optimized
<1>5. CASE P # {} /\ Optimized(P) \in failed
  <2>1. failed = again \cup {Optimized(P)}
    BY <1>5 DEF Outgoing
  <2>2. PartsOf(failed) = PartsOf(again) \cup PartsOf(P)
    BY <2>1, <1>4 DEF PartsOf
  <2>3. PartsOf(P) \cap PartsOf(done) = {}
    BY <1>1, <1>4, <1>5 DEF SoleIn, PartsOf
  <2>4. PartsOf(P) \cap PartsOf(again) = {}
    BY <1>2 DEF SoleIn, PartsOf
  <2> QED BY <1>1, <1>3, <1>5, <2>2, <2>3, <2>4
<1>6. CASE ~(P # {} /\ Optimized(P) \in failed)
  <2>1. failed = again
    <3>1. CASE P = {}
      BY <3>1 DEF Outgoing
    <3>2. CASE P # {}
      BY <1>6, <3>2 DEF Outgoing
    <3> QED BY <3>1, <3>2
  <2> QED BY <1>1, <1>3, <1>6, <2>1
<1> QED BY <1>5, <1>6

\* connectionSendQueue keeps every undecided payload in one message.
LEMMA TransmitOneHome ==
    ASSUME TypeOK, OneHome, NEW e \in Endpoints, NEW P \in Packings(e),
           NEW failed \in SUBSET Outgoing(e, P), NEW failedAcks \in SUBSET acks[e],
           Transmit(e, P, failed, failedAcks)
    PROVE  OneHome'
<1> DEFINE done == Outgoing(e, P) \ failed
           again == failed \cap (Pending(e) \ P)
           over == PartsOf(Abandoned(e))
           lost == IF P # {} /\ Optimized(P) \in failed THEN PartsOf(P) ELSE {}
<1>1. /\ PartsOf(sent'[e]) = PartsOf(Kept(e)) \cup PartsOf(done)
      /\ PartsOf(send'[e]) = PartsOf(again)
      /\ PartsOf(done) \cap PartsOf(again) = {}
      /\ SoleIn(sent'[e]) /\ SoleIn(send'[e])
  BY TransmitMoves
<1>2. /\ PartsOf(Pending(e)) = PartsOf(done) \cup PartsOf(again) \cup lost
      /\ lost \cap PartsOf(done) = {} /\ lost \cap PartsOf(again) = {}
  BY TransmitAccounts
<1>3. /\ PartsOf(Pending(e)) \cap PartsOf(Kept(e)) = {}
      /\ over \cap PartsOf(Pending(e)) = {}
      /\ over \cap PartsOf(Kept(e)) = {}
      /\ PartsOf(Queued(e)) = PartsOf(Pending(e)) \cup PartsOf(Kept(e)) \cup over
  BY ScanSeparates
<1>4. /\ fate' = [p \in Payloads |-> IF p \in over THEN "expired"
                                     ELSE IF p \in lost THEN "lost" ELSE fate[p]]
      /\ owner' = owner
      /\ \A f \in Endpoints \ {e} : send'[f] = send[f] /\ sent'[f] = sent[f]
  BY DEF Transmit, TypeOK
<1> HIDE DEF done, again, over, lost
<1>5. PartsOf(Queued(e)') = PartsOf(sent'[e]) \cup PartsOf(send'[e])
  BY DEF Queued, PartsOf
<1>6. \A f \in Endpoints \ {e} : Queued(f)' = Queued(f)
  BY <1>4 DEF Queued
<1>7. over \cup lost \subseteq PartsOf(Queued(e))
  BY <1>2, <1>3
<1>8. /\ PartsOf(Queued(e)') \subseteq PartsOf(Queued(e))
      /\ PartsOf(Queued(e)') \cap (over \cup lost) = {}
      /\ PartsOf(Queued(e)) \subseteq PartsOf(Queued(e)') \cup over \cup lost
  BY <1>1, <1>2, <1>3, <1>5
<1>9. QueuedIsLive'
  <2> SUFFICES ASSUME NEW f \in Endpoints, NEW p \in PartsOf(Queued(f)')
               PROVE  fate'[p] = "live" /\ owner'[p] = f
    BY <1>4 DEF QueuedIsLive, PartsOf, Queued
  <2>1. p \in PartsOf(Queued(f)) /\ p \notin over \cup lost
    <3>1. CASE f = e
      BY <3>1, <1>8
    <3>2. CASE f # e
      <4>1. p \in PartsOf(Queued(f))
        BY <1>6, <3>2
      <4>2. owner[p] = f
        BY <4>1 DEF OneHome, QueuedIsLive
      <4>3. \A q \in over \cup lost : owner[q] = e
        BY <1>7 DEF OneHome, QueuedIsLive
      <4> QED BY <3>2, <4>1, <4>2, <4>3
    <3> QED BY <3>1, <3>2
  <2>2. p \in Payloads
    BY <2>1 DEF TypeOK, Queued, PartsOf, Message
  <2> QED BY <1>4, <2>1, <2>2 DEF OneHome, QueuedIsLive
<1>10. LiveIsQueued'
  <2> SUFFICES ASSUME NEW p \in Payloads, fate'[p] = "live"
               PROVE  \E f \in Endpoints : owner'[p] = f /\ p \in PartsOf(Queued(f)')
    BY DEF LiveIsQueued, PartsOf, Queued
  <2>1. fate[p] = "live" /\ p \notin over \cup lost
    BY <1>4
  <2>2. owner[p] \in Endpoints /\ p \in PartsOf(Queued(owner[p]))
    BY <2>1 DEF OneHome, LiveIsQueued
  <2>3. CASE owner[p] = e
    <3>1. p \in PartsOf(Queued(e)')
      BY <1>8, <2>1, <2>2, <2>3
    <3> QED BY <1>4, <2>3, <3>1
  <2>4. CASE owner[p] # e
    <3>1. PICK f \in Endpoints \ {e} : owner[p] = f
      BY <2>2, <2>4
    <3>2. p \in PartsOf(Queued(f)')
      BY <1>6, <2>2, <3>1
    <3> QED BY <1>4, <3>1, <3>2
  <2> QED BY <2>3, <2>4
<1>11. PartsOf(sent'[e]) \cap PartsOf(send'[e]) = {}
  BY <1>1, <1>2, <1>3
<1>12. SoleMessage'
  <2> SUFFICES ASSUME NEW f \in Endpoints, NEW m \in Queued(f)', NEW n \in Queued(f)',
                      m.parts \cap n.parts # {}
               PROVE  m = n
    BY DEF SoleMessage
  <2>1. CASE f = e
    BY <1>1, <1>11, <2>1 DEF SoleIn, PartsOf, Queued
  <2>2. CASE f # e
    BY <1>6, <2>2 DEF OneHome, SoleMessage
  <2> QED BY <2>1, <2>2
<1>13. SoleQueue'
  <2> SUFFICES ASSUME NEW f \in Endpoints
               PROVE  PartsOf(send'[f]) \cap PartsOf(sent'[f]) = {}
    BY DEF SoleQueue, PartsOf
  <2>1. CASE f = e
    BY <1>11, <2>1
  <2>2. CASE f # e
    BY <1>4, <2>2 DEF OneHome, SoleQueue
  <2> QED BY <2>1, <2>2
<1> QED BY <1>9, <1>10, <1>12, <1>13 DEF OneHome
\* A command that is not a payload carries none: this is why the handshake may drop one.
CommandsBare == \A e \in Endpoints : \A m \in Queued(e) : m.cmd = "CONNECT" => m.parts = {}

\* The inductive invariant of OneHome.
HomeInv == TypeOK /\ OneHome /\ CommandsBare

LEMMA TransmitBare ==
    ASSUME TypeOK, CommandsBare, NEW e \in Endpoints, NEW P \in Packings(e),
           NEW failed \in SUBSET Outgoing(e, P), NEW failedAcks \in SUBSET acks[e],
           Transmit(e, P, failed, failedAcks)
    PROVE  CommandsBare'
<1>1. /\ \A m \in Message : Stamped(m).cmd = m.cmd /\ Stamped(m).parts = m.parts
      /\ \A m \in Message : Restamp(m).cmd = m.cmd /\ Restamp(m).parts = m.parts
  BY DEF Stamped, Restamp, Message
<1>2. /\ Retried(e) \subseteq sent[e] /\ sent[e] \subseteq Message /\ send[e] \subseteq Message
      /\ Outgoing(e, P) \subseteq Message
  BY PendingType, OutgoingType DEF TypeOK
<1>3. \A m \in Pending(e) : m.cmd = "CONNECT" => m.parts = {}
  BY <1>1, <1>2 DEF Pending, CommandsBare, Queued
<1>4. \A m \in Outgoing(e, P) : m.cmd = "CONNECT" => m.parts = {}
  BY <1>3 DEF Outgoing, Optimized
<1>5. /\ sent'[e] = Kept(e) \cup {Stamped(m) : m \in Outgoing(e, P) \ failed}
      /\ send'[e] = {Stamped(m) : m \in failed \cap (Pending(e) \ P)}
      /\ \A f \in Endpoints \ {e} : send'[f] = send[f] /\ sent'[f] = sent[f]
  BY DEF Transmit, TypeOK
<1>6. \A m \in sent'[e] \cup send'[e] : m.cmd = "CONNECT" => m.parts = {}
  BY <1>1, <1>2, <1>4, <1>5 DEF Kept, CommandsBare, Queued
<1>7. \A f \in Endpoints \ {e} : \A m \in sent'[f] \cup send'[f] : m.cmd = "CONNECT" => m.parts = {}
  BY <1>5 DEF CommandsBare, Queued
<1> QED BY <1>6, <1>7 DEF CommandsBare, Queued

LEMMA HomeInit == Init => OneHome /\ CommandsBare
<1> SUFFICES ASSUME Init PROVE OneHome /\ CommandsBare
  OBVIOUS
<1>1. /\ \A e \in Endpoints : send[e] = {} /\ sent[e] \subseteq {ConnectResponse}
      /\ \A p \in Payloads : fate[p] = "none"
  BY DEF Init
<1>2. ConnectResponse.parts = {}
  BY DEF ConnectResponse
<1>3. \A e \in Endpoints : Queued(e) \subseteq {ConnectResponse} /\ PartsOf(Queued(e)) = {}
  BY <1>1, <1>2 DEF Queued, PartsOf
<1>4. \A e \in Endpoints : PartsOf(send[e]) = {}
  BY <1>1 DEF PartsOf
<1> QED
  BY <1>1, <1>2, <1>3, <1>4
     DEF OneHome, QueuedIsLive, LiveIsQueued, SoleMessage, SoleQueue, CommandsBare

\* connectionPushData puts the payload, which was nowhere, into one message.
LEMMA PushHome ==
    ASSUME HomeInv, NEW e \in Endpoints, NEW p \in Payloads, NEW mode \in Modes,
           NEW r \in RetryCounts, Push(e, p, mode, r)
    PROVE  OneHome' /\ CommandsBare'
<1> DEFINE msg == [cmd |-> "PAYLOAD", packed |-> FALSE, enc |-> mode[1], comp |-> mode[2],
                   time |-> now, retry |-> r, hashes |-> {}, parts |-> {p}]
<1>1. /\ send'[e] = send[e] \cup {msg} /\ sent' = sent
      /\ \A f \in Endpoints \ {e} : send'[f] = send[f]
      /\ owner' = [owner EXCEPT ![p] = e] /\ fate' = [fate EXCEPT ![p] = "live"]
  BY DEF Push, HomeInv, TypeOK
<1>2. msg.parts = {p} /\ msg.cmd = "PAYLOAD"
  OBVIOUS
<1>3. fate[p] = "none"
  BY DEF Push
<1> HIDE DEF msg
<1>4. \A f \in Endpoints : p \notin PartsOf(Queued(f)) /\ p \notin PartsOf(send[f]) /\ p \notin PartsOf(sent[f])
  BY <1>3 DEF HomeInv, OneHome, QueuedIsLive, Queued, PartsOf
<1>5. Queued(e)' = Queued(e) \cup {msg} /\ \A f \in Endpoints \ {e} : Queued(f)' = Queued(f)
  BY <1>1 DEF Queued
<1>6. PartsOf(Queued(e)') = PartsOf(Queued(e)) \cup {p} /\ PartsOf(send'[e]) = PartsOf(send[e]) \cup {p}
  BY <1>1, <1>2, <1>5 DEF PartsOf
<1>7. \A f \in Endpoints : PartsOf(Queued(f)) \subseteq Payloads
  BY DEF HomeInv, TypeOK, Queued, PartsOf, Message
<1>8. QueuedIsLive'
  <2> SUFFICES ASSUME NEW f \in Endpoints, NEW q \in PartsOf(Queued(f)')
               PROVE  fate'[q] = "live" /\ owner'[q] = f
    BY DEF QueuedIsLive, PartsOf, Queued
  <2>1. CASE q \in PartsOf(Queued(f))
    BY <1>1, <1>4, <1>7, <2>1 DEF HomeInv, OneHome, QueuedIsLive, TypeOK
  <2>2. CASE q \notin PartsOf(Queued(f))
    <3>1. f = e /\ q = p
      BY <1>5, <1>6, <2>2
    <3> QED BY <1>1, <3>1 DEF HomeInv, TypeOK
  <2> QED BY <2>1, <2>2
<1>9. LiveIsQueued'
  <2> SUFFICES ASSUME NEW q \in Payloads, fate'[q] = "live"
               PROVE  \E f \in Endpoints : owner'[q] = f /\ q \in PartsOf(Queued(f)')
    BY DEF LiveIsQueued, PartsOf, Queued
  <2>1. CASE q = p
    BY <1>1, <1>6, <2>1 DEF HomeInv, TypeOK
  <2>2. CASE q # p
    <3>1. PICK f \in Endpoints : owner[q] = f /\ q \in PartsOf(Queued(f))
      BY <1>1, <2>2 DEF HomeInv, OneHome, LiveIsQueued, TypeOK
    <3>2. q \in PartsOf(Queued(f)')
      BY <1>5, <1>6, <3>1
    <3> QED BY <1>1, <2>2, <3>1, <3>2 DEF HomeInv, TypeOK
  <2> QED BY <2>1, <2>2
<1>10. SoleMessage'
  <2> SUFFICES ASSUME NEW f \in Endpoints, NEW m \in Queued(f)', NEW n \in Queued(f)',
                      m.parts \cap n.parts # {}
               PROVE  m = n
    BY DEF SoleMessage
  <2>1. \A x \in Queued(f) : p \notin x.parts
    BY <1>4 DEF PartsOf
  <2>2. CASE m \in Queued(f) /\ n \in Queued(f)
    BY <2>2 DEF HomeInv, OneHome, SoleMessage
  <2>3. CASE ~(m \in Queued(f) /\ n \in Queued(f))
    BY <1>2, <1>5, <2>1, <2>3
  <2> QED BY <2>2, <2>3
<1>11. SoleQueue'
  <2> SUFFICES ASSUME NEW f \in Endpoints
               PROVE  PartsOf(send'[f]) \cap PartsOf(sent'[f]) = {}
    BY DEF SoleQueue, PartsOf
  <2> QED BY <1>1, <1>4, <1>6 DEF HomeInv, OneHome, SoleQueue
<1>12. CommandsBare'
  BY <1>2, <1>5 DEF HomeInv, CommandsBare
<1> QED BY <1>8, <1>9, <1>10, <1>11, <1>12 DEF OneHome
\* Messages leave Queue.Sent with their payloads decided: what the handlers of a CONNECT
\* and of a confirmation do.
LEMMA RemovalHome ==
    ASSUME HomeInv, NEW e \in Endpoints, NEW S \in SUBSET sent[e],
           send' = send, owner' = owner, sent' = [sent EXCEPT ![e] = @ \ S],
           \A p \in Payloads : IF p \in PartsOf(S) THEN fate'[p] # "live" ELSE fate'[p] = fate[p]
    PROVE  OneHome' /\ CommandsBare'
<1>1. /\ sent'[e] = sent[e] \ S
      /\ \A f \in Endpoints \ {e} : sent'[f] = sent[f]
  BY DEF HomeInv, TypeOK
<1>2. \A f \in Endpoints : sent'[f] \subseteq sent[f] /\ Queued(f)' \subseteq Queued(f)
  BY <1>1 DEF Queued
<1>3. \A f \in Endpoints \ {e} : Queued(f)' = Queued(f)
  BY <1>1 DEF Queued
<1>4. PartsOf(Queued(e)) = PartsOf(Queued(e)') \cup PartsOf(S)
  BY <1>1 DEF Queued, PartsOf
<1>5. PartsOf(Queued(e)') \cap PartsOf(S) = {}
  BY <1>1 DEF Queued, PartsOf, HomeInv, OneHome, SoleMessage, SoleQueue
<1>6. \A f \in Endpoints : PartsOf(Queued(f)) \subseteq Payloads
  BY DEF HomeInv, TypeOK, Queued, PartsOf, Message
<1>7. \A f \in Endpoints \ {e} : PartsOf(Queued(f)) \cap PartsOf(S) = {}
  BY <1>4 DEF HomeInv, OneHome, QueuedIsLive
<1>8. QueuedIsLive'
  <2> SUFFICES ASSUME NEW f \in Endpoints, NEW p \in PartsOf(Queued(f)')
               PROVE  fate'[p] = "live" /\ owner'[p] = f
    BY DEF QueuedIsLive, PartsOf, Queued
  <2>1. p \in PartsOf(Queued(f)) /\ p \notin PartsOf(S)
    BY <1>3, <1>4, <1>5, <1>7
  <2> QED BY <1>6, <2>1 DEF HomeInv, OneHome, QueuedIsLive
<1>9. LiveIsQueued'
  <2> SUFFICES ASSUME NEW p \in Payloads, fate'[p] = "live"
               PROVE  \E f \in Endpoints : owner'[p] = f /\ p \in PartsOf(Queued(f)')
    BY DEF LiveIsQueued, PartsOf, Queued
  <2>1. fate[p] = "live" /\ p \notin PartsOf(S)
    OBVIOUS
  <2>2. PICK f \in Endpoints : owner[p] = f /\ p \in PartsOf(Queued(f))
    BY <2>1 DEF HomeInv, OneHome, LiveIsQueued
  <2>3. p \in PartsOf(Queued(f)')
    BY <1>3, <1>4, <2>1, <2>2
  <2> QED BY <2>2, <2>3
<1>10. SoleMessage' /\ CommandsBare'
  BY <1>2 DEF HomeInv, OneHome, SoleMessage, CommandsBare
<1>11. SoleQueue'
  <2> SUFFICES ASSUME NEW f \in Endpoints
               PROVE  PartsOf(send'[f]) \cap PartsOf(sent'[f]) = {}
    BY DEF SoleQueue, PartsOf
  <2>1. PartsOf(sent'[f]) \subseteq PartsOf(sent[f])
    BY <1>2 DEF PartsOf
  <2> QED BY <2>1 DEF HomeInv, OneHome, SoleQueue
<1> QED BY <1>8, <1>9, <1>10, <1>11 DEF OneHome

\* Whatever leaves the queues, their owners and their fates alone keeps the invariant.
LEMMA UnchangedHome ==
    ASSUME HomeInv, UNCHANGED <<send, sent, owner, fate>>
    PROVE  OneHome' /\ CommandsBare'
BY DEF HomeInv, OneHome, QueuedIsLive, LiveIsQueued, SoleMessage, SoleQueue, CommandsBare, Queued, PartsOf

LEMMA HomeNext == HomeInv /\ [Next]_vars => HomeInv'
<1> SUFFICES ASSUME HomeInv, [Next]_vars PROVE HomeInv'
  OBVIOUS
<1>1. TypeOK'
  BY NextType DEF HomeInv
<1> SUFFICES OneHome' /\ CommandsBare'
  BY <1>1 DEF HomeInv
<1>2. ASSUME NEW e \in Endpoints, NEW p \in Payloads, NEW mode \in Modes, NEW r \in RetryCounts,
             Push(e, p, mode, r)
      PROVE OneHome' /\ CommandsBare'
  BY <1>2, PushHome
<1>3. ASSUME NEW e \in Endpoints, Collect(e) PROVE OneHome' /\ CommandsBare'
  BY <1>3, UnchangedHome DEF Collect, historyVars
<1>4. ASSUME NEW e \in Endpoints, SendQueue(e) PROVE OneHome' /\ CommandsBare'
  BY <1>4, SendQueueIsTransmit, TransmitOneHome, TransmitBare DEF HomeInv
<1>5. CASE ClientDisconnect
  BY <1>5, UnchangedHome DEF ClientDisconnect, historyVars
<1>6. ASSUME NEW e \in Endpoints, NEW d \in net, HandleCONNECT(e, d) PROVE OneHome' /\ CommandsBare'
  <2> DEFINE S == {m \in sent[e] : m.cmd = "CONNECT"}
  <2>1. PartsOf(S) = {}
    BY DEF HomeInv, CommandsBare, Queued, PartsOf
  <2>2. /\ sent' = [sent EXCEPT ![e] = @ \ S]
        /\ send' = send /\ owner' = owner /\ fate' = fate
    BY <1>6 DEF HandleCONNECT, HomeInv, TypeOK
  <2> QED BY <2>1, <2>2, RemovalHome
<1>7. ASSUME NEW e \in Endpoints, NEW d \in net, HandleDISCONNECT(e, d) PROVE OneHome' /\ CommandsBare'
  BY <1>7, UnchangedHome DEF HandleDISCONNECT
<1>8. ASSUME NEW e \in Endpoints, NEW d \in net, HandlePAYLOADResponse(e, d) PROVE OneHome' /\ CommandsBare'
  <2>1. send' = send /\ owner' = owner
    BY <1>8 DEF HandlePAYLOADResponse
  <2>2. CASE UNCHANGED <<sent, fate>>
    BY <2>1, <2>2, UnchangedHome
  <2>3. ASSUME NEW m \in Confirmable(e, d.mid),
               sent' = [sent EXCEPT ![e] = @ \ {m}],
               fate' = [p \in Payloads |-> IF p \in m.parts THEN "confirmed" ELSE fate[p]]
        PROVE  OneHome' /\ CommandsBare'
    <3>1. {m} \in SUBSET sent[e] /\ PartsOf({m}) = m.parts
      BY DEF Confirmable, PartsOf
    <3>2. \A p \in Payloads : IF p \in PartsOf({m}) THEN fate'[p] # "live" ELSE fate'[p] = fate[p]
      BY <2>3, <3>1
    <3> QED BY <2>1, <2>3, <3>1, <3>2, RemovalHome
  <2> QED BY <1>8, <2>2, <2>3 DEF HandlePAYLOADResponse
<1>9. ASSUME NEW e \in Endpoints, NEW d \in net, HandlePAYLOADRequest(e, d) PROVE OneHome' /\ CommandsBare'
  BY <1>9, UnchangedHome DEF HandlePAYLOADRequest
<1>10. ASSUME NEW d \in net, Drop(d) PROVE OneHome' /\ CommandsBare'
  BY <1>10, UnchangedHome DEF Drop, endpointVars, historyVars
<1>11. CASE Tick
  BY <1>11, UnchangedHome DEF Tick, endpointVars, historyVars
<1>12. CASE UNCHANGED vars
  BY <1>12, UnchangedHome DEF vars, endpointVars, historyVars
<1> QED
  BY <1>2, <1>3, <1>4, <1>5, <1>6, <1>7, <1>8, <1>9, <1>10, <1>11, <1>12 DEF Next, Receive

\* However messages are scanned, retried, packed, refused, transmitted and confirmed, every
\* undecided payload is in exactly one message of one queue of the endpoint that pushed it.
THEOREM OneHomeHolds == Spec => []OneHome
<1>1. Init => HomeInv
  BY InitType, HomeInit DEF HomeInv
<1>2. HomeInv /\ [Next]_vars => HomeInv'
  BY HomeNext
<1>3. HomeInv => OneHome
  BY DEF HomeInv
<1> QED BY <1>1, <1>2, <1>3, PTL DEF Spec
----------------------------------------------------------------------------
\* Bounded transmissions

\* What a message still has to spend: a packed one has already cost its payloads one
\* transmission more than they were pushed with.
Slack(m) == IF m.packed THEN 2 ELSE 1
ToSend(m, p) == wire[p] + m.retry + 1 <= retries[p] + Slack(m)
Spent(m, p) == wire[p] + m.retry <= retries[p] + Slack(m)
Budget ==
    /\ \A e \in Endpoints : \A m \in send[e] : \A p \in m.parts : ToSend(m, p)
    /\ \A e \in Endpoints : \A m \in sent[e] : \A p \in m.parts : Spent(m, p)
    /\ \A p \in Payloads : fate[p] = "none" => wire[p] = 0
BudgetInv == HomeInv /\ Budget /\ BoundedTransmissions

\* The retry of a message pays for its next transmission.
LEMMA PendingBudget ==
    ASSUME BudgetInv, NEW e \in Endpoints, NEW P \in Packings(e)
    PROVE  \A m \in Outgoing(e, P) : \A p \in m.parts : ToSend(m, p)
<1>1. /\ Retried(e) \subseteq sent[e] /\ sent[e] \subseteq Message /\ send[e] \subseteq Message
      /\ \A m \in Retried(e) : m.retry > 0
      /\ P \subseteq Pending(e) /\ \A m \in P : ~m.packed
      /\ Pending(e) \subseteq Message
  BY PendingType, PackingsType DEF BudgetInv, HomeInv, TypeOK, Retried
<1>2. \A p \in Payloads : wire[p] \in Nat /\ retries[p] \in 0..255
  BY DEF BudgetInv, HomeInv, TypeOK
<1>3. ASSUME NEW m \in Retried(e), NEW p \in m.parts PROVE ToSend(Restamp(m), p)
  <2>1. m \in Message /\ p \in Payloads /\ m.retry \in 0..255 /\ m.retry > 0
    BY <1>1 DEF Message
  <2>2. Restamp(m).retry = m.retry - 1 /\ Restamp(m).packed = m.packed
    BY <2>1 DEF Restamp, Message
  <2>3. Spent(m, p)
    BY <1>1 DEF BudgetInv, Budget
  <2>4. Slack(Restamp(m)) = Slack(m) /\ Slack(m) \in Nat
    BY <2>2 DEF Slack
  <2> QED BY <1>2, <2>1, <2>2, <2>3, <2>4 DEF ToSend, Spent
<1>4. \A m \in Message : Restamp(m).parts = m.parts
  BY DEF Restamp, Message
<1>5. \A m \in Pending(e) : \A p \in m.parts : ToSend(m, p)
  BY <1>1, <1>3, <1>4 DEF Pending, BudgetInv, Budget
<1>6. ASSUME NEW p \in PartsOf(P) PROVE ToSend(Optimized(P), p)
  <2>1. PICK m \in P : p \in m.parts
    BY DEF PartsOf
  <2>2. m \in Message /\ m.retry \in Nat /\ p \in Payloads /\ ~m.packed
    BY <1>1, <2>1 DEF Message
  <2>3. wire[p] + m.retry + 1 <= retries[p] + 1
    BY <1>1, <1>5, <2>1, <2>2 DEF ToSend, Slack
  <2>4. Optimized(P).retry = 1 /\ Slack(Optimized(P)) = 2
    BY DEF Optimized, Slack
  <2> QED BY <1>2, <2>2, <2>3, <2>4 DEF ToSend
<1>7. Optimized(P).parts = PartsOf(P)
  BY DEF Optimized
<1> QED BY <1>5, <1>6, <1>7 DEF Outgoing

LEMMA TransmitBudget ==
    ASSUME BudgetInv, NEW e \in Endpoints, NEW P \in Packings(e),
           NEW failed \in SUBSET Outgoing(e, P), NEW failedAcks \in SUBSET acks[e],
           Transmit(e, P, failed, failedAcks)
    PROVE  Budget' /\ BoundedTransmissions'
<1> DEFINE done == Outgoing(e, P) \ failed
           again == failed \cap (Pending(e) \ P)
<1>1. TypeOK /\ OneHome
  BY DEF BudgetInv, HomeInv
<1>2. /\ Outgoing(e, P) \subseteq Message /\ sent[e] \subseteq Message
      /\ again \subseteq Outgoing(e, P) /\ done \subseteq Outgoing(e, P)
  BY <1>1, OutgoingType DEF TypeOK, Outgoing
<1>3. /\ PartsOf(done) \cap PartsOf(again) = {}
      /\ PartsOf(done) \cap PartsOf(Kept(e)) = {}
      /\ PartsOf(done) \subseteq PartsOf(Queued(e))
  <2>1. PartsOf(done) \cap PartsOf(again) = {}
    BY <1>1, TransmitMoves
  <2>2. PartsOf(done) \subseteq PartsOf(Pending(e))
    <3>1. PartsOf(Outgoing(e, P)) = PartsOf(Pending(e))
      BY <1>1, PackingConserves
    <3>2. PartsOf(done) \subseteq PartsOf(Outgoing(e, P))
      BY DEF PartsOf
    <3> QED BY <3>1, <3>2
  <2> QED BY <1>1, <2>1, <2>2, ScanSeparates
<1>4. /\ wire' = [p \in Payloads |-> IF p \in PartsOf(done) THEN wire[p] + 1 ELSE wire[p]]
      /\ retries' = retries
      /\ sent'[e] = Kept(e) \cup {Stamped(m) : m \in done}
      /\ send'[e] = {Stamped(m) : m \in again}
      /\ \A f \in Endpoints \ {e} : send'[f] = send[f] /\ sent'[f] = sent[f]
      /\ \A p \in Payloads : fate'[p] = "none" => fate[p] = "none"
  BY <1>1 DEF Transmit, TypeOK
<1>5. \A m \in Message : Stamped(m).parts = m.parts /\ Stamped(m).retry = m.retry
                         /\ Slack(Stamped(m)) = Slack(m)
  BY DEF Stamped, Message, Slack
<1>6. \A p \in Payloads : wire[p] \in Nat /\ retries[p] \in 0..255
  BY <1>1 DEF TypeOK
<1>7. \A m \in Outgoing(e, P) : m.parts \subseteq Payloads /\ m.retry \in Nat /\ \A p \in m.parts : ToSend(m, p)
  BY <1>2, PendingBudget DEF Message
<1>8. \A m \in Message : Slack(m) \in 1..2
  BY DEF Slack
<1> HIDE DEF done, again
<1>9. \A m \in sent'[e] : \A p \in m.parts : Spent(m, p)'
  <2> SUFFICES ASSUME NEW m \in sent'[e], NEW p \in m.parts PROVE Spent(m, p)'
    OBVIOUS
  <2>1. CASE m \in Kept(e)
    <3>1. p \notin PartsOf(done) /\ p \in Payloads
      BY <1>2, <1>3, <2>1 DEF Kept, PartsOf, Message
    <3>2. Spent(m, p)
      BY <2>1 DEF BudgetInv, Budget, Kept
    <3> QED BY <1>4, <3>1, <3>2 DEF Spent
  <2>2. CASE m \notin Kept(e)
    <3>1. PICK x \in done : m = Stamped(x)
      BY <1>4, <2>2
    <3>2. x \in Outgoing(e, P) /\ x \in Message
      BY <1>2
    <3>3. p \in x.parts /\ m.retry = x.retry /\ Slack(m) = Slack(x)
      BY <1>5, <3>1, <3>2
    <3>4. p \in Payloads /\ p \in PartsOf(done) /\ x.retry \in Nat /\ ToSend(x, p)
      BY <1>7, <3>2, <3>3 DEF PartsOf
    <3>5. wire'[p] = wire[p] + 1 /\ retries'[p] = retries[p]
      BY <1>4, <3>4
    <3> QED BY <1>6, <1>8, <3>2, <3>3, <3>4, <3>5 DEF Spent, ToSend, Slack
  <2> QED BY <2>1, <2>2
<1>10. \A m \in send'[e] : \A p \in m.parts : ToSend(m, p)'
  <2> SUFFICES ASSUME NEW m \in send'[e], NEW p \in m.parts PROVE ToSend(m, p)'
    OBVIOUS
  <2>1. PICK x \in again : m = Stamped(x)
    BY <1>4
  <2>2. x \in Outgoing(e, P) /\ x \in Message
    BY <1>2
  <2>3. p \in x.parts /\ m.retry = x.retry /\ Slack(m) = Slack(x)
    BY <1>5, <2>1, <2>2
  <2>4. p \in Payloads /\ p \notin PartsOf(done) /\ ToSend(x, p)
    BY <1>3, <1>7, <2>2, <2>3 DEF PartsOf
  <2> QED BY <1>4, <2>3, <2>4 DEF ToSend, Slack
<1>11. ASSUME NEW f \in Endpoints \ {e}
       PROVE  /\ \A m \in send'[f] : \A p \in m.parts : ToSend(m, p)'
              /\ \A m \in sent'[f] : \A p \in m.parts : Spent(m, p)'
  <2>1. \A p \in PartsOf(Queued(f)) : p \notin PartsOf(done) /\ p \in Payloads
    <3>1. \A p \in PartsOf(done) : owner[p] = e
      BY <1>1, <1>3 DEF OneHome, QueuedIsLive
    <3>2. \A p \in PartsOf(Queued(f)) : owner[p] = f /\ p \in Payloads
      BY <1>1 DEF OneHome, QueuedIsLive, TypeOK, Queued, PartsOf, Message
    <3> QED BY <3>1, <3>2
  <2>2. \A m \in send'[f] \cup sent'[f] : m.parts \subseteq PartsOf(Queued(f))
    BY <1>4 DEF Queued, PartsOf
  <2>3. \A p \in PartsOf(Queued(f)) : wire'[p] = wire[p] /\ retries'[p] = retries[p]
    BY <1>4, <2>1
  <2> QED BY <1>4, <2>2, <2>3 DEF BudgetInv, Budget, ToSend, Spent
<1>12. \A p \in Payloads : fate'[p] = "none" => wire'[p] = 0
  <2> SUFFICES ASSUME NEW p \in Payloads, fate'[p] = "none" PROVE wire'[p] = 0
    OBVIOUS
  <2>1. fate[p] = "none" /\ wire[p] = 0
    BY <1>4 DEF BudgetInv, Budget
  <2>2. p \notin PartsOf(done)
    BY <1>1, <1>3, <2>1 DEF OneHome, QueuedIsLive
  <2> QED BY <1>4, <2>1, <2>2
<1>13. BoundedTransmissions'
  <2> SUFFICES ASSUME NEW p \in Payloads PROVE wire'[p] <= retries'[p] + 2
    BY DEF BoundedTransmissions
  <2>1. CASE p \in PartsOf(done)
    <3>1. PICK x \in done : p \in x.parts
      BY <2>1 DEF PartsOf
    <3>2. x \in Outgoing(e, P) /\ x.retry \in Nat /\ ToSend(x, p) /\ Slack(x) \in 1..2
      BY <1>2, <1>7, <1>8, <3>1
    <3>3. wire'[p] = wire[p] + 1 /\ retries'[p] = retries[p]
      BY <1>4, <2>1
    <3> QED BY <1>6, <3>2, <3>3 DEF ToSend
  <2>2. CASE p \notin PartsOf(done)
    BY <1>4, <2>2 DEF BudgetInv, BoundedTransmissions
  <2> QED BY <2>1, <2>2
<1> QED BY <1>9, <1>10, <1>11, <1>12, <1>13 DEF Budget
\* Steps that neither transmit nor lengthen a queue keep the budget.
LEMMA ShrinkBudget ==
    ASSUME BudgetInv, UNCHANGED <<wire, retries>>,
           \A e \in Endpoints : send'[e] \subseteq send[e] /\ sent'[e] \subseteq sent[e],
           \A p \in Payloads : fate'[p] = "none" => fate[p] = "none"
    PROVE  Budget' /\ BoundedTransmissions'
BY DEF BudgetInv, Budget, BoundedTransmissions, ToSend, Spent

LEMMA PushBudget ==
    ASSUME BudgetInv, NEW e \in Endpoints, NEW p \in Payloads, NEW mode \in Modes,
           NEW r \in RetryCounts, Push(e, p, mode, r)
    PROVE  Budget' /\ BoundedTransmissions'
<1> DEFINE msg == [cmd |-> "PAYLOAD", packed |-> FALSE, enc |-> mode[1], comp |-> mode[2],
                   time |-> now, retry |-> r, hashes |-> {}, parts |-> {p}]
<1>1. /\ send'[e] = send[e] \cup {msg} /\ sent' = sent /\ wire' = wire
      /\ \A f \in Endpoints \ {e} : send'[f] = send[f]
      /\ retries' = [retries EXCEPT ![p] = r]
      /\ fate' = [fate EXCEPT ![p] = "live"]
  BY DEF Push, BudgetInv, HomeInv, TypeOK
<1>2. msg.parts = {p} /\ msg.retry = r /\ msg.packed = FALSE
  OBVIOUS
<1> HIDE DEF msg
<1>3. fate[p] = "none" /\ wire[p] = 0 /\ r \in 0..255 /\ retries'[p] = r
  BY <1>1, ConnectionAssumption DEF Push, BudgetInv, Budget, HomeInv, TypeOK
<1>4. \A f \in Endpoints : p \notin PartsOf(Queued(f))
  BY <1>3 DEF BudgetInv, HomeInv, OneHome, QueuedIsLive
<1>5. \A q \in Payloads : q # p => retries'[q] = retries[q] /\ fate'[q] = fate[q]
  BY <1>1 DEF BudgetInv, HomeInv, TypeOK
<1>6. ASSUME NEW f \in Endpoints, NEW m \in Queued(f), NEW q \in m.parts
      PROVE  retries'[q] = retries[q]
  <2>1. q \in Payloads /\ q \in PartsOf(Queued(f))
    BY DEF BudgetInv, HomeInv, TypeOK, Queued, Message, PartsOf
  <2> QED BY <1>4, <1>5, <2>1
<1>7. wire'[p] + msg.retry + 1 <= retries'[p] + Slack(msg)
  BY <1>1, <1>2, <1>3 DEF Slack
<1>8. \A f \in Endpoints : \A m \in send'[f] : \A q \in m.parts : ToSend(m, q)'
  <2> SUFFICES ASSUME NEW f \in Endpoints, NEW m \in send'[f], NEW q \in m.parts
               PROVE  ToSend(m, q)'
    OBVIOUS
  <2>1. CASE m \in send[f]
    BY <1>1, <1>6, <2>1 DEF BudgetInv, Budget, ToSend, Queued, Slack
  <2>2. CASE m \notin send[f]
    <3>1. m = msg /\ q = p
      BY <1>1, <1>2, <2>2
    <3> QED BY <1>7, <3>1 DEF ToSend, Slack
  <2> QED BY <2>1, <2>2
<1>9. \A f \in Endpoints : \A m \in sent'[f] : \A q \in m.parts : Spent(m, q)'
  BY <1>1, <1>6 DEF BudgetInv, Budget, Spent, Queued, Slack
<1>10. \A q \in Payloads : (fate'[q] = "none" => wire'[q] = 0) /\ wire'[q] <= retries'[q] + 2
  <2> SUFFICES ASSUME NEW q \in Payloads
               PROVE  (fate'[q] = "none" => wire'[q] = 0) /\ wire'[q] <= retries'[q] + 2
    OBVIOUS
  <2>1. CASE q = p
    BY <1>1, <1>3, <2>1
  <2>2. CASE q # p
    BY <1>1, <1>5, <2>2 DEF BudgetInv, Budget, BoundedTransmissions
  <2> QED BY <2>1, <2>2
<1> QED BY <1>8, <1>9, <1>10 DEF Budget, BoundedTransmissions

LEMMA BudgetNext == BudgetInv /\ [Next]_vars => BudgetInv'
<1> SUFFICES ASSUME BudgetInv, [Next]_vars PROVE BudgetInv'
  OBVIOUS
<1>1. HomeInv'
  BY HomeNext DEF BudgetInv
<1> SUFFICES Budget' /\ BoundedTransmissions'
  BY <1>1 DEF BudgetInv
<1>2. ASSUME NEW e \in Endpoints, NEW p \in Payloads, NEW mode \in Modes, NEW r \in RetryCounts,
             Push(e, p, mode, r)
      PROVE Budget' /\ BoundedTransmissions'
  BY <1>2, PushBudget
<1>3. ASSUME NEW e \in Endpoints, SendQueue(e) PROVE Budget' /\ BoundedTransmissions'
  BY <1>3, SendQueueIsTransmit, TransmitBudget
<1>4. ASSUME NEW e \in Endpoints, NEW d \in net, HandleCONNECT(e, d) PROVE Budget' /\ BoundedTransmissions'
  <2>1. UNCHANGED <<wire, retries, send, fate>> /\ \A f \in Endpoints : sent'[f] \subseteq sent[f]
    BY <1>4 DEF HandleCONNECT, BudgetInv, HomeInv, TypeOK
  <2> QED BY <2>1, ShrinkBudget
<1>5. ASSUME NEW e \in Endpoints, NEW d \in net, HandlePAYLOADResponse(e, d)
      PROVE Budget' /\ BoundedTransmissions'
  <2>1. UNCHANGED <<wire, retries, send>>
    BY <1>5 DEF HandlePAYLOADResponse
  <2>2. CASE UNCHANGED <<sent, fate>>
    BY <2>1, <2>2, ShrinkBudget
  <2>3. ASSUME NEW m \in Confirmable(e, d.mid),
               sent' = [sent EXCEPT ![e] = @ \ {m}],
               fate' = [p \in Payloads |-> IF p \in m.parts THEN "confirmed" ELSE fate[p]]
        PROVE  Budget' /\ BoundedTransmissions'
    <3>1. /\ \A f \in Endpoints : sent'[f] \subseteq sent[f]
          /\ \A p \in Payloads : fate'[p] = "none" => fate[p] = "none"
      BY <2>3 DEF BudgetInv, HomeInv, TypeOK
    <3> QED BY <2>1, <3>1, ShrinkBudget
  <2> QED BY <1>5, <2>2, <2>3 DEF HandlePAYLOADResponse
<1>6. ASSUME UNCHANGED <<send, sent, fate, wire, retries>> PROVE Budget' /\ BoundedTransmissions'
  BY <1>6, ShrinkBudget
<1>7. ASSUME NEW e \in Endpoints, Collect(e) PROVE Budget' /\ BoundedTransmissions'
  BY <1>6, <1>7 DEF Collect, historyVars
<1>8. ASSUME NEW e \in Endpoints, NEW d \in net, HandleDISCONNECT(e, d) PROVE Budget' /\ BoundedTransmissions'
  BY <1>6, <1>8 DEF HandleDISCONNECT
<1>9. ASSUME NEW e \in Endpoints, NEW d \in net, HandlePAYLOADRequest(e, d) PROVE Budget' /\ BoundedTransmissions'
  BY <1>6, <1>9 DEF HandlePAYLOADRequest
<1>10. CASE ClientDisconnect
  BY <1>6, <1>10 DEF ClientDisconnect, historyVars
<1>11. ASSUME NEW d \in net, Drop(d) PROVE Budget' /\ BoundedTransmissions'
  BY <1>6, <1>11 DEF Drop, endpointVars, historyVars
<1>12. CASE Tick
  BY <1>6, <1>12 DEF Tick, endpointVars, historyVars
<1>13. CASE UNCHANGED vars
  BY <1>6, <1>13 DEF vars, endpointVars, historyVars
<1> QED
  BY <1>2, <1>3, <1>4, <1>5, <1>7, <1>8, <1>9, <1>10, <1>11, <1>12, <1>13 DEF Next, Receive

\* Retries and packing together transmit a payload at most RetryCount + 2 times.
THEOREM TransmissionsBounded == Spec => []BoundedTransmissions
<1>1. Init => BudgetInv
  <2> SUFFICES ASSUME Init PROVE BudgetInv
    OBVIOUS
  <2>1. HomeInv
    BY InitType, HomeInit DEF HomeInv
  <2>2. /\ \A e \in Endpoints : send[e] = {} /\ \A m \in sent[e] : m.parts = {}
        /\ \A p \in Payloads : wire[p] = 0 /\ retries[p] = 0
    BY DEF Init, ConnectResponse
  <2> QED BY <2>1, <2>2 DEF BudgetInv, Budget, BoundedTransmissions
<1>2. BudgetInv /\ [Next]_vars => BudgetInv'
  BY BudgetNext
<1>3. BudgetInv => BoundedTransmissions
  BY DEF BudgetInv
<1> QED BY <1>1, <1>2, <1>3, PTL DEF Spec
----------------------------------------------------------------------------
\* Confirmations tell the truth

\* x confirms something e pushed and its peer has received.
Confirms(e, x) == \E q \in Payloads : owner[q] = e /\ x \in ids[q] /\ Arrived(Peer(e), q)

\* The MessageIds a message remembers, and carries, are those of its payloads.
Filled == \A e \in Endpoints : \A m \in Queued(e) : m.cmd = "PAYLOAD" => m.parts # {}
Remembered ==
    /\ \A e \in Endpoints : \A m \in Queued(e) : \A p \in m.parts : m.hashes \subseteq ids[p]
    /\ \A e \in Endpoints : \A m \in sent[e] : \A p \in m.parts : Hash(m.time) \in ids[p]
Carried ==
    \A d \in net : d.cmd = "PAYLOAD" /\ d.type = "REQUEST" =>
        d.parts # {} /\ \A p \in d.parts : d.mid \in ids[p] /\ owner[p] = Peer(d.to)

\* A confirmation, queued or in flight, is of something that has arrived.
Queueable == \A e \in Endpoints : \A x \in acks[e] : Confirms(Peer(e), x)
InFlight == \A d \in net : d.cmd = "PAYLOAD" /\ d.type = "RESPONSE" => Confirms(d.to, d.mid)
Unpushed == \A p \in Payloads : fate[p] = "none" => owner[p] = Nobody
Truth == Filled /\ Remembered /\ Carried /\ Queueable /\ InFlight /\ Unpushed
TruthInv == HomeInv /\ Truth /\ ConfirmedHasArrived

\* What a step may do to the history: what has arrived has arrived for good.
Grows ==
    /\ \A p \in Payloads : ids[p] \subseteq ids'[p] /\ (owner[p] # Nobody => owner'[p] = owner[p])
    /\ \A e \in Endpoints, p \in Payloads : Arrived(e, p) => Arrived(e, p)'

LEMMA PeerPeer == \A e \in Endpoints : Peer(e) \in Endpoints /\ Peer(Peer(e)) = e /\ e # Nobody
BY ConnectionAssumption DEF Peer, Endpoints

LEMMA GrowsKeeps ==
    ASSUME Grows, NEW e \in Endpoints, NEW x
    PROVE  Confirms(e, x) => Confirms(e, x)'
<1> SUFFICES ASSUME Confirms(e, x) PROVE Confirms(e, x)'
  OBVIOUS
<1>1. PICK q \in Payloads : owner[q] = e /\ x \in ids[q] /\ Arrived(Peer(e), q)
  BY DEF Confirms
<1>2. owner'[q] = e /\ x \in ids'[q] /\ Arrived(Peer(e), q)'
  BY <1>1, PeerPeer DEF Grows
<1> QED BY <1>2 DEF Confirms

\* What was confirmed with reason stays so.
LEMMA ConfirmedKeeps ==
    ASSUME Grows, ConfirmedHasArrived, HomeInv,
           \A p \in Payloads : fate'[p] = "confirmed" => fate[p] = "confirmed",
           \A p \in Payloads : owner'[p] # owner[p] => fate'[p] # "confirmed"
    PROVE  ConfirmedHasArrived'
<1> SUFFICES ASSUME NEW e \in Endpoints, NEW p \in Payloads, owner'[p] = e, fate'[p] = "confirmed"
             PROVE  \E q \in Payloads : /\ owner'[q] = e
                                        /\ Arrived(Peer(e), q)'
                                        /\ q = p \/ ids'[p] \cap ids'[q] # {}
  BY DEF ConfirmedHasArrived
<1>1. PICK q \in Payloads : /\ owner[q] = e
                            /\ Arrived(Peer(e), q)
                            /\ q = p \/ ids[p] \cap ids[q] # {}
  BY DEF ConfirmedHasArrived
<1>2. owner'[q] = e /\ Arrived(Peer(e), q)'
  BY <1>1, PeerPeer DEF Grows
<1>3. q = p \/ ids'[p] \cap ids'[q] # {}
  BY <1>1 DEF Grows
<1> QED BY <1>2, <1>3

\* A step that leaves received, collected, ids and owner alone.
LEMMA SameGrows == ASSUME UNCHANGED <<received, collected, ids, owner>> PROVE Grows
BY DEF Grows, Arrived, Copies

LEMMA CollectGrows ==
    ASSUME TypeOK, NEW e \in Endpoints, Collect(e)
    PROVE  Grows /\ \A f \in Endpoints, p \in Payloads : Arrived(f, p)' = Arrived(f, p)
<1>1. ASSUME NEW f \in Endpoints, NEW p \in Payloads PROVE Copies(f, p)' = Copies(f, p)
  <2>1. <<p, TRUE>> \in Arrivals /\ <<p, FALSE>> \in Arrivals
    BY DEF Arrivals
  <2>2. \A a \in Arrivals : received[f][a] \in Nat /\ collected[f][a] \in Nat
    BY DEF TypeOK
  <2>3. CASE f = e
    <3>1. \A a \in Arrivals : received'[f][a] = 0 /\ collected'[f][a] = collected[f][a] + received[f][a]
      BY <2>3 DEF Collect, TypeOK
    <3> QED BY <2>1, <2>2, <3>1 DEF Copies
  <2>4. CASE f # e
    <3>1. received'[f] = received[f] /\ collected'[f] = collected[f]
      BY <2>4 DEF Collect, TypeOK
    <3> QED BY <3>1 DEF Copies
  <2> QED BY <2>3, <2>4
<1> QED BY <1>1 DEF Grows, Arrived, Collect, historyVars

\* A payload request adds to received, and what it confirms has arrived.
LEMMA RequestGrows ==
    ASSUME TypeOK, NEW e \in Endpoints, NEW d \in net, HandlePAYLOADRequest(e, d)
    PROVE  /\ Grows
           /\ \/ UNCHANGED <<acks, received>>
              \/ /\ acks' = [acks EXCEPT ![e] = @ \cup {d.mid}]
                 /\ \A p \in d.parts : Arrived(e, p)'
<1>1. PICK key \in Keys(e, d) :
         IF (~d.enc \/ d.key = key) \/ ~d.comp
         THEN /\ received' = [received EXCEPT ![e] = [a \in Arrivals |->
                    IF a[1] \in d.parts /\ a[2] = (~d.enc \/ d.key = key) THEN @[a] + 1 ELSE @[a]]]
              /\ acks' = [acks EXCEPT ![e] = @ \cup {d.mid}]
         ELSE UNCHANGED <<received, acks>>
  BY DEF HandlePAYLOADRequest
<1>2. UNCHANGED <<collected, ids, owner>>
  BY DEF HandlePAYLOADRequest
<1>3. CASE UNCHANGED <<received, acks>>
  BY <1>2, <1>3, SameGrows
<1>4. CASE (~d.enc \/ d.key = key) \/ ~d.comp
  <2> DEFINE intact == ~d.enc \/ d.key = key
  <2>1. /\ \A a \in Arrivals : received'[e][a] = IF a[1] \in d.parts /\ a[2] = intact
                                                 THEN received[e][a] + 1 ELSE received[e][a]
        /\ \A f \in Endpoints \ {e} : received'[f] = received[f]
    BY <1>1, <1>4 DEF TypeOK
  <2>2. intact \in BOOLEAN
    OBVIOUS
  <2> HIDE DEF intact
  <2>3. \A f \in Endpoints : \A a \in Arrivals : received[f][a] \in Nat /\ collected[f][a] \in Nat
    BY DEF TypeOK
  <2>4. \A a \in Arrivals : received'[e][a] \in Nat /\ received'[e][a] >= received[e][a]
    BY <2>1, <2>3
  <2>5. \A p \in Payloads : <<p, TRUE>> \in Arrivals /\ <<p, FALSE>> \in Arrivals
    BY DEF Arrivals
  <2>6. ASSUME NEW p \in Payloads
        PROVE  /\ Copies(e, p) \in Nat /\ Copies(e, p)' \in Nat /\ Copies(e, p)' >= Copies(e, p)
               /\ p \in d.parts => Copies(e, p)' > Copies(e, p)
    <3> DEFINE r1 == received[e][<<p, TRUE>>]
               r2 == received[e][<<p, FALSE>>]
               n1 == received'[e][<<p, TRUE>>]
               n2 == received'[e][<<p, FALSE>>]
               c1 == collected[e][<<p, TRUE>>]
               c2 == collected[e][<<p, FALSE>>]
    <3>1. r1 \in Nat /\ r2 \in Nat /\ c1 \in Nat /\ c2 \in Nat
      BY <2>3, <2>5
    <3>2. /\ n1 = IF p \in d.parts /\ intact THEN r1 + 1 ELSE r1
          /\ n2 = IF p \in d.parts /\ ~intact THEN r2 + 1 ELSE r2
      BY <2>1, <2>2, <2>5
    <3>3. Copies(e, p) = r1 + r2 + c1 + c2 /\ Copies(e, p)' = n1 + n2 + c1 + c2
      BY <1>2 DEF Copies
    <3> HIDE DEF r1, r2, n1, n2, c1, c2
    <3>4. /\ n1 \in Nat /\ n2 \in Nat /\ n1 + n2 >= r1 + r2
          /\ p \in d.parts => n1 + n2 > r1 + r2
      BY <2>2, <3>1, <3>2
    <3>5. /\ r1 + r2 + c1 + c2 \in Nat /\ n1 + n2 + c1 + c2 \in Nat
          /\ n1 + n2 + c1 + c2 >= r1 + r2 + c1 + c2
          /\ p \in d.parts => n1 + n2 + c1 + c2 > r1 + r2 + c1 + c2
      BY <3>1, <3>4
    <3> QED BY <3>3, <3>5
  <2>7. \A f \in Endpoints, p \in Payloads : Arrived(f, p) => Arrived(f, p)'
    <3> SUFFICES ASSUME NEW f \in Endpoints, NEW p \in Payloads, Arrived(f, p) PROVE Arrived(f, p)'
      OBVIOUS
    <3>1. CASE f = e
      BY <2>6, <3>1 DEF Arrived
    <3>2. CASE f # e
      BY <1>2, <2>1, <3>2 DEF Arrived, Copies
    <3> QED BY <3>1, <3>2
  <2>8. ASSUME NEW p \in d.parts PROVE Arrived(e, p)'
    <3>1. p \in Payloads
      BY DEF TypeOK, Datagram
    <3> QED BY <2>6, <3>1 DEF Arrived
  <2> QED BY <1>1, <1>2, <1>4, <2>7, <2>8 DEF Grows
<1> QED BY <1>1, <1>3, <1>4
\* What connectionSendQueue tries to transmit.
LEMMA OutgoingTruth ==
    ASSUME HomeInv, Filled, Remembered, NEW e \in Endpoints, NEW P \in Packings(e)
    PROVE  \A m \in Outgoing(e, P) :
              /\ m.cmd = "PAYLOAD" => m.parts # {}
              /\ m.cmd # "PAYLOAD" => m.parts = {}
              /\ \A p \in m.parts : m.hashes \subseteq ids[p] /\ owner[p] = e /\ p \in Payloads
<1>1. /\ TypeOK /\ OneHome
      /\ Retried(e) \subseteq sent[e] /\ sent[e] \subseteq Message /\ send[e] \subseteq Message
      /\ P \subseteq Pending(e) /\ \A m \in P : m.cmd = "PAYLOAD"
      /\ Pending(e) \subseteq Message
  BY PendingType, PackingsType DEF HomeInv, TypeOK
<1>2. \A m \in Message : /\ Restamp(m).parts = m.parts /\ Restamp(m).cmd = m.cmd
                         /\ Restamp(m).hashes = m.hashes
  BY DEF Restamp, Message
<1>3. \A m \in send[e] \cup sent[e] :
         /\ m.cmd = "PAYLOAD" => m.parts # {}
         /\ m.cmd # "PAYLOAD" => m.parts = {}
         /\ \A p \in m.parts : m.hashes \subseteq ids[p]
  BY <1>1 DEF Filled, Remembered, HomeInv, CommandsBare, Queued, Message
<1>4. ASSUME NEW m \in Pending(e)
      PROVE  /\ m.cmd = "PAYLOAD" => m.parts # {}
             /\ m.cmd # "PAYLOAD" => m.parts = {}
             /\ \A p \in m.parts : m.hashes \subseteq ids[p]
  <2>1. CASE m \in send[e]
    BY <1>3, <2>1
  <2>2. CASE m \notin send[e]
    <3>1. PICK x \in Retried(e) : m = Restamp(x)
      BY <2>2 DEF Pending
    <3>2. x \in Message /\ x \in sent[e]
      BY <1>1
    <3> QED BY <1>2, <1>3, <3>1, <3>2
  <2> QED BY <2>1, <2>2
<1>5. \A p \in PartsOf(Outgoing(e, P)) : owner[p] = e /\ p \in Payloads
  <2>1. PartsOf(Outgoing(e, P)) = PartsOf(Pending(e)) /\ PartsOf(Pending(e)) \subseteq PartsOf(Queued(e))
    BY <1>1, PackingConserves, ScanSeparates
  <2>2. PartsOf(Pending(e)) \subseteq Payloads
    BY <1>1 DEF PartsOf, Message
  <2> QED BY <1>1, <2>1, <2>2 DEF OneHome, QueuedIsLive
<1>6. P # {} => PartsOf(P) # {}
  BY <1>1, <1>4 DEF PartsOf
<1>7. Optimized(P).parts = PartsOf(P) /\ Optimized(P).cmd = "PAYLOAD" /\ Optimized(P).hashes = {}
  BY DEF Optimized
<1> SUFFICES ASSUME NEW m \in Outgoing(e, P)
             PROVE  /\ m.cmd = "PAYLOAD" => m.parts # {}
                    /\ m.cmd # "PAYLOAD" => m.parts = {}
                    /\ \A p \in m.parts : m.hashes \subseteq ids[p] /\ owner[p] = e /\ p \in Payloads
  OBVIOUS
<1>8. \A p \in m.parts : owner[p] = e /\ p \in Payloads
  BY <1>5 DEF PartsOf
<1>9. CASE m \in Pending(e)
  BY <1>4, <1>8, <1>9
<1>10. CASE m \notin Pending(e)
  <2>1. m = Optimized(P) /\ P # {}
    BY <1>10 DEF Outgoing
  <2> QED BY <1>6, <1>7, <1>8, <2>1
<1> QED BY <1>9, <1>10

LEMMA TransmitTruth ==
    ASSUME TruthInv, NEW e \in Endpoints, NEW P \in Packings(e),
           NEW failed \in SUBSET Outgoing(e, P), NEW failedAcks \in SUBSET acks[e],
           Transmit(e, P, failed, failedAcks)
    PROVE  Truth' /\ ConfirmedHasArrived'
<1> DEFINE out == Outgoing(e, P)
           done == out \ failed
           again == failed \cap (Pending(e) \ P)
           key == KeyAfterPacking(e, P)
<1>1. TypeOK /\ OneHome /\ CommandsBare /\ Filled /\ Remembered /\ ConfirmedHasArrived
  BY DEF TruthInv, HomeInv, Truth
<1>2. /\ out \subseteq Message /\ sent[e] \subseteq Message
      /\ again \subseteq out /\ done \subseteq out
  BY <1>1, OutgoingType DEF TypeOK, Outgoing
<1>3. \A m \in out : /\ m.cmd = "PAYLOAD" => m.parts # {}
                     /\ m.cmd # "PAYLOAD" => m.parts = {}
                     /\ \A p \in m.parts : m.hashes \subseteq ids[p] /\ owner[p] = e /\ p \in Payloads
  BY <1>1, OutgoingTruth DEF TruthInv
<1>4. /\ ids' = [p \in Payloads |->
             ids[p] \cup {Hash(m.time) : m \in {x \in out : p \in x.parts}}]
      /\ sent'[e] = Kept(e) \cup {Stamped(m) : m \in done}
      /\ send'[e] = {Stamped(m) : m \in again}
      /\ \A f \in Endpoints \ {e} : send'[f] = send[f] /\ sent'[f] = sent[f] /\ acks'[f] = acks[f]
      /\ acks'[e] \subseteq acks[e]
      /\ net' = net \cup {Transmission(e, m, key) : m \in done}
                    \cup {Confirmation(e, x) : x \in acks[e] \ failedAcks}
      /\ UNCHANGED <<received, collected, owner>>
      /\ \A p \in Payloads : fate'[p] \in {"none", "confirmed"} => fate'[p] = fate[p]
  BY <1>1 DEF Transmit, TypeOK
<1>5. \A p \in Payloads : ids[p] \subseteq ids'[p]
  BY <1>4
<1>6. \A m \in out : \A p \in m.parts : Hash(m.time) \in ids'[p]
  BY <1>3, <1>4
<1>7. Grows
  BY <1>4, <1>5 DEF Grows, Arrived, Copies
<1>8. \A m \in Message : /\ Stamped(m).parts = m.parts /\ Stamped(m).cmd = m.cmd
                         /\ Stamped(m).time = m.time
                         /\ Stamped(m).hashes \subseteq m.hashes \cup {Hash(m.time)}
  BY DEF Stamped, Message
<1> HIDE DEF out, done, again, key
<1>9. ASSUME NEW f \in Endpoints \ {e}
      PROVE  Queued(f)' = Queued(f) /\ sent'[f] = sent[f]
  BY <1>4 DEF Queued
<1>10. ASSUME NEW m \in Queued(e)'
       PROVE  m \in Kept(e) \/ \E x \in out : m = Stamped(x)
  BY <1>2, <1>4 DEF Queued
<1>11. Filled'
  <2> SUFFICES ASSUME NEW f \in Endpoints, NEW m \in Queued(f)', m.cmd = "PAYLOAD" PROVE m.parts # {}
    BY DEF Filled
  <2>1. CASE f # e
    BY <1>1, <1>9, <2>1 DEF Filled
  <2>2. CASE m \in Kept(e)
    BY <1>1, <2>2 DEF Filled, Queued, Kept
  <2>3. CASE \E x \in out : m = Stamped(x)
    BY <1>2, <1>3, <1>8, <2>3
  <2> QED BY <1>10, <2>1, <2>2, <2>3
<1>12. \A f \in Endpoints : \A m \in Queued(f)' : \A p \in m.parts : m.hashes \subseteq ids'[p]
  <2> SUFFICES ASSUME NEW f \in Endpoints, NEW m \in Queued(f)', NEW p \in m.parts
               PROVE  m.hashes \subseteq ids'[p]
    OBVIOUS
  <2>1. CASE m \in Queued(f)
    <3>1. p \in Payloads /\ m.hashes \subseteq ids[p]
      BY <1>1, <2>1 DEF Remembered, TypeOK, Queued, Message
    <3> QED BY <1>5, <3>1
  <2>2. CASE \E x \in out : m = Stamped(x)
    <3>1. PICK x \in out : m = Stamped(x)
      BY <2>2
    <3>2. m.hashes \subseteq x.hashes \cup {Hash(x.time)} /\ p \in x.parts
      BY <1>2, <1>8, <3>1
    <3>3. p \in Payloads /\ x.hashes \subseteq ids[p] /\ Hash(x.time) \in ids'[p]
      BY <1>3, <1>6, <3>2
    <3> QED BY <1>5, <3>2, <3>3
  <2>3. m \in Queued(f) \/ \E x \in out : m = Stamped(x)
    BY <1>9, <1>10 DEF Kept, Queued
  <2> QED BY <2>1, <2>2, <2>3
<1>13. \A f \in Endpoints : \A m \in sent'[f] : \A p \in m.parts : Hash(m.time) \in ids'[p]
  <2> SUFFICES ASSUME NEW f \in Endpoints, NEW m \in sent'[f], NEW p \in m.parts
               PROVE  Hash(m.time) \in ids'[p]
    OBVIOUS
  <2>1. CASE m \in sent[f]
    <3>1. p \in Payloads /\ Hash(m.time) \in ids[p]
      BY <1>1, <2>1 DEF Remembered, TypeOK, Message
    <3> QED BY <1>5, <3>1
  <2>2. CASE m \notin sent[f]
    <3>1. PICK x \in done : m = Stamped(x)
      BY <1>4, <2>2 DEF Kept
    <3>2. x \in out /\ p \in x.parts /\ m.time = x.time
      BY <1>2, <1>8, <3>1
    <3> QED BY <1>6, <3>2
  <2> QED BY <2>1, <2>2
<1>14. Remembered'
  BY <1>12, <1>13 DEF Remembered
<1>15. ASSUME NEW d \in net'
       PROVE  \/ d \in net
              \/ \E m \in done : d = Transmission(e, m, key)
              \/ \E x \in acks[e] : d = Confirmation(e, x)
  BY <1>4
<1>16. ASSUME NEW d \in net', d.cmd = "PAYLOAD", d.type = "REQUEST"
       PROVE  d.parts # {} /\ \A p \in d.parts : d.mid \in ids'[p] /\ owner'[p] = Peer(d.to)
  <2>1. CASE d \in net
    <3>1. d.parts # {} /\ \A p \in d.parts : d.mid \in ids[p] /\ owner[p] = Peer(d.to) /\ p \in Payloads
      BY <1>1, <1>16, <2>1 DEF TruthInv, Truth, Carried, TypeOK, Datagram
    <3> QED BY <1>4, <1>5, <3>1
  <2>2. ASSUME NEW m \in done, d = Transmission(e, m, key)
        PROVE  d.parts # {} /\ \A p \in d.parts : d.mid \in ids'[p] /\ owner'[p] = Peer(d.to)
    <3>1. m \in out /\ m \in Message
      BY <1>2
    <3>2. m.cmd = "PAYLOAD"
      BY <1>16, <2>2, <3>1 DEF Transmission, Command, Message
    <3>3. d.parts = m.parts /\ d.mid = Hash(m.time) /\ d.to = Peer(e)
      BY <2>2, <3>2 DEF Transmission
    <3> QED BY <1>3, <1>4, <1>6, <3>1, <3>2, <3>3, PeerPeer
  <2>3. ASSUME NEW x \in acks[e], d = Confirmation(e, x) PROVE FALSE
    BY <1>16, <2>3 DEF Confirmation, Command
  <2> QED BY <1>15, <2>1, <2>2, <2>3
<1>17. Carried'
  BY <1>16 DEF Carried
<1>18. \A f \in Endpoints, x \in Nat : Confirms(f, x) => Confirms(f, x)'
  BY <1>1, <1>7, GrowsKeeps
<1>19. Queueable'
  <2> SUFFICES ASSUME NEW f \in Endpoints, NEW x \in acks'[f] PROVE Confirms(Peer(f), x)'
    BY DEF Queueable
  <2>1. x \in acks[f] /\ x \in Nat
    BY <1>1, <1>4 DEF TypeOK
  <2> QED BY <1>18, <2>1, PeerPeer DEF TruthInv, Truth, Queueable
<1>20. ASSUME NEW d \in net', d.cmd = "PAYLOAD", d.type = "RESPONSE" PROVE Confirms(d.to, d.mid)'
  <2>1. CASE d \in net
    <3>1. Confirms(d.to, d.mid) /\ d.to \in Endpoints /\ d.mid \in Nat
      BY <1>1, <1>20, <2>1 DEF TruthInv, Truth, InFlight, TypeOK, Datagram
    <3> QED BY <1>18, <3>1
  <2>2. ASSUME NEW m \in done, d = Transmission(e, m, key) PROVE FALSE
    <3>1. m \in Message
      BY <1>2
    <3> QED BY <1>20, <2>2, <3>1 DEF Transmission, Command, Message
  <2>3. ASSUME NEW x \in acks[e], d = Confirmation(e, x) PROVE Confirms(d.to, d.mid)'
    <3>1. d.to = Peer(e) /\ d.mid = x
      BY <2>3 DEF Confirmation, Command
    <3>2. Confirms(Peer(e), x) /\ x \in Nat
      BY <1>1 DEF TruthInv, Truth, Queueable, TypeOK
    <3> QED BY <1>18, <3>1, <3>2, PeerPeer
  <2> QED BY <1>15, <2>1, <2>2, <2>3
<1>21. InFlight'
  BY <1>20 DEF InFlight
<1>22. Unpushed'
  BY <1>4 DEF Unpushed, TruthInv, Truth
<1>23. ConfirmedHasArrived'
  BY <1>1, <1>4, <1>7, ConfirmedKeeps DEF TruthInv
<1> QED BY <1>11, <1>14, <1>17, <1>19, <1>21, <1>22, <1>23 DEF Truth
\* A step that transmits and pushes nothing: at most it delivers, confirms or discards.
LEMMA QuietTruth ==
    ASSUME TruthInv, Grows, UNCHANGED <<ids, owner>>,
           \A e \in Endpoints : send'[e] \subseteq send[e] /\ sent'[e] \subseteq sent[e],
           \A e \in Endpoints : \A x \in acks'[e] : x \in acks[e] \/ Confirms(Peer(e), x)',
           \A d \in net' : d \in net \/ d.cmd # "PAYLOAD",
           \A p \in Payloads : fate'[p] = "none" => fate[p] = "none"
    PROVE  Truth'
<1>1. TypeOK /\ Truth
  BY DEF TruthInv, HomeInv
<1>2. \A e \in Endpoints : Queued(e)' \subseteq Queued(e)
  BY DEF Queued
<1>3. Filled' /\ Remembered'
  BY <1>1, <1>2 DEF Truth, Filled, Remembered
<1>4. Carried'
  BY <1>1 DEF Truth, Carried
<1>5. \A f \in Endpoints, x \in Nat : Confirms(f, x) => Confirms(f, x)'
  BY GrowsKeeps
<1>6. Queueable'
  <2> SUFFICES ASSUME NEW e \in Endpoints, NEW x \in acks'[e] PROVE Confirms(Peer(e), x)'
    BY DEF Queueable
  <2>1. CASE x \in acks[e]
    <3>1. x \in Nat /\ Confirms(Peer(e), x)
      BY <1>1, <2>1 DEF TypeOK, Truth, Queueable
    <3> QED BY <1>5, <3>1, PeerPeer
  <2> QED BY <2>1
<1>7. InFlight'
  <2> SUFFICES ASSUME NEW d \in net', d.cmd = "PAYLOAD", d.type = "RESPONSE"
               PROVE  Confirms(d.to, d.mid)'
    BY DEF InFlight
  <2>1. d.to \in Endpoints /\ d.mid \in Nat /\ Confirms(d.to, d.mid)
    BY <1>1 DEF TypeOK, Datagram, Truth, InFlight
  <2> QED BY <1>5, <2>1
<1>8. Unpushed'
  BY <1>1 DEF Truth, Unpushed
<1> QED BY <1>3, <1>4, <1>6, <1>7, <1>8 DEF Truth

LEMMA PushTruth ==
    ASSUME TruthInv, NEW e \in Endpoints, NEW p \in Payloads, NEW mode \in Modes,
           NEW r \in RetryCounts, Push(e, p, mode, r)
    PROVE  Truth' /\ ConfirmedHasArrived'
<1> DEFINE msg == [cmd |-> "PAYLOAD", packed |-> FALSE, enc |-> mode[1], comp |-> mode[2],
                   time |-> now, retry |-> r, hashes |-> {}, parts |-> {p}]
<1>1. /\ send'[e] = send[e] \cup {msg} /\ sent' = sent
      /\ \A f \in Endpoints \ {e} : send'[f] = send[f]
      /\ owner' = [owner EXCEPT ![p] = e]
      /\ fate' = [fate EXCEPT ![p] = "live"]
      /\ UNCHANGED <<acks, net, ids, received, collected>>
  BY DEF Push, TruthInv, HomeInv, TypeOK
<1>2. msg.parts = {p} /\ msg.hashes = {} /\ msg.cmd = "PAYLOAD"
  OBVIOUS
<1> HIDE DEF msg
<1>3. fate[p] = "none" /\ owner[p] = Nobody /\ TypeOK /\ Truth
  BY DEF Push, TruthInv, HomeInv, Truth, Unpushed
<1>4. \A q \in Payloads : owner[q] # Nobody => owner'[q] = owner[q]
  BY <1>1, <1>3 DEF TypeOK
<1>5. Grows
  BY <1>1, <1>4 DEF Grows, Arrived, Copies
<1>6. ASSUME NEW f \in Endpoints, NEW m \in Queued(f)' PROVE m \in Queued(f) \/ m = msg
  BY <1>1 DEF Queued
<1>7. Filled' /\ Remembered'
  BY <1>1, <1>2, <1>3, <1>6 DEF Truth, Filled, Remembered
<1>8. Carried'
  <2> SUFFICES ASSUME NEW d \in net', d.cmd = "PAYLOAD", d.type = "REQUEST"
               PROVE  d.parts # {} /\ \A q \in d.parts : d.mid \in ids'[q] /\ owner'[q] = Peer(d.to)
    BY DEF Carried
  <2>1. /\ d.parts # {} /\ d.parts \subseteq Payloads /\ d.to \in Endpoints
        /\ \A q \in d.parts : d.mid \in ids[q] /\ owner[q] = Peer(d.to)
    BY <1>1, <1>3 DEF Truth, Carried, TypeOK, Datagram
  <2>2. Peer(d.to) # Nobody
    BY <2>1, PeerPeer
  <2> QED BY <1>1, <1>4, <2>1, <2>2
<1>9. \A f \in Endpoints, x \in Nat : Confirms(f, x) => Confirms(f, x)'
  BY <1>5, GrowsKeeps
<1>10. Queueable'
  <2> SUFFICES ASSUME NEW f \in Endpoints, NEW x \in acks'[f] PROVE Confirms(Peer(f), x)'
    BY DEF Queueable
  <2>1. x \in Nat /\ Confirms(Peer(f), x)
    BY <1>1, <1>3 DEF TypeOK, Truth, Queueable
  <2> QED BY <1>9, <2>1, PeerPeer
<1>11. InFlight'
  <2> SUFFICES ASSUME NEW d \in net', d.cmd = "PAYLOAD", d.type = "RESPONSE"
               PROVE  Confirms(d.to, d.mid)'
    BY DEF InFlight
  <2>1. d.to \in Endpoints /\ d.mid \in Nat /\ Confirms(d.to, d.mid)
    BY <1>1, <1>3 DEF TypeOK, Datagram, Truth, InFlight
  <2> QED BY <1>9, <2>1
<1>12. Unpushed'
  BY <1>1, <1>3 DEF Truth, Unpushed, TypeOK
<1>13. \A q \in Payloads : (fate'[q] = "confirmed" => fate[q] = "confirmed")
                           /\ (owner'[q] # owner[q] => fate'[q] # "confirmed")
  BY <1>1, <1>3 DEF TypeOK
<1>14. ConfirmedHasArrived'
  BY <1>5, <1>13, ConfirmedKeeps DEF TruthInv
<1> QED BY <1>7, <1>8, <1>10, <1>11, <1>12, <1>14 DEF Truth

\* The confirmation of x decides the payloads of a message that remembers x.
LEMMA ResponseTruth ==
    ASSUME TruthInv, NEW e \in Endpoints, NEW d \in net, HandlePAYLOADResponse(e, d)
    PROVE  Truth' /\ ConfirmedHasArrived'
<1>1. TypeOK /\ OneHome /\ CommandsBare /\ Truth /\ ConfirmedHasArrived
  BY DEF TruthInv, HomeInv
<1>2. /\ UNCHANGED <<ids, owner, send, acks, received, collected>> /\ net' \subseteq net
      /\ d.to = e /\ d.cmd = "PAYLOAD" /\ d.type = "RESPONSE"
  BY DEF HandlePAYLOADResponse, Consume
<1>3. Grows
  BY <1>2, SameGrows
<1>4. CASE UNCHANGED <<sent, fate>>
  <2>1. Truth'
    BY <1>2, <1>3, <1>4, QuietTruth
  <2>2. ConfirmedHasArrived'
    BY <1>2, <1>3, <1>4, ConfirmedKeeps DEF TruthInv
  <2> QED BY <2>1, <2>2
<1>5. ASSUME NEW m \in Confirmable(e, d.mid),
             sent' = [sent EXCEPT ![e] = @ \ {m}],
             fate' = [p \in Payloads |-> IF p \in m.parts THEN "confirmed" ELSE fate[p]]
      PROVE  Truth' /\ ConfirmedHasArrived'
  <2>1. \A f \in Endpoints : sent'[f] \subseteq sent[f]
    BY <1>1, <1>5 DEF TypeOK
  <2>2. Truth'
    BY <1>2, <1>3, <1>5, <2>1, QuietTruth
  <2>3. m \in sent[e] /\ m \in Message /\ (Hash(m.time) = d.mid \/ d.mid \in m.hashes)
    BY <1>1 DEF Confirmable, TypeOK
  <2>4. \A p \in m.parts : d.mid \in ids[p] /\ owner[p] = e
    BY <1>1, <2>3 DEF Truth, Remembered, Queued, OneHome, QueuedIsLive, PartsOf
  <2>5. PICK q \in Payloads : owner[q] = e /\ d.mid \in ids[q] /\ Arrived(Peer(e), q)
    BY <1>1, <1>2 DEF Truth, InFlight, Confirms
  <2>6. ASSUME NEW f \in Endpoints, NEW p \in Payloads, owner'[p] = f, fate'[p] = "confirmed"
        PROVE  \E x \in Payloads : /\ owner'[x] = f
                                   /\ Arrived(Peer(f), x)'
                                   /\ x = p \/ ids'[p] \cap ids'[x] # {}
    <3>1. CASE p \in m.parts
      <4>1. f = e /\ d.mid \in ids'[p] \cap ids'[q] /\ owner'[q] = f
        BY <1>2, <2>4, <2>5, <2>6, <3>1
      <4>2. Arrived(Peer(f), q)'
        BY <1>3, <2>5, <4>1, PeerPeer DEF Grows
      <4> QED BY <4>1, <4>2
    <3>2. CASE p \notin m.parts
      <4>1. PICK x \in Payloads : /\ owner[x] = f
                                  /\ Arrived(Peer(f), x)
                                  /\ x = p \/ ids[p] \cap ids[x] # {}
        BY <1>1, <1>2, <1>5, <2>6, <3>2 DEF ConfirmedHasArrived
      <4>2. Arrived(Peer(f), x)'
        BY <1>3, <4>1, PeerPeer DEF Grows
      <4> QED BY <1>2, <4>1, <4>2
    <3> QED BY <3>1, <3>2
  <2> QED BY <2>2, <2>6 DEF ConfirmedHasArrived
<1> QED BY <1>4, <1>5 DEF HandlePAYLOADResponse
LEMMA TruthNext == TruthInv /\ [Next]_vars => TruthInv'
<1> SUFFICES ASSUME TruthInv, [Next]_vars PROVE TruthInv'
  OBVIOUS
<1>1. HomeInv' /\ HomeInv /\ TypeOK /\ Truth
  BY HomeNext DEF TruthInv, HomeInv
<1> SUFFICES Truth' /\ ConfirmedHasArrived'
  BY <1>1 DEF TruthInv
<1>2. ASSUME NEW e \in Endpoints, NEW p \in Payloads, NEW mode \in Modes, NEW r \in RetryCounts,
             Push(e, p, mode, r)
      PROVE Truth' /\ ConfirmedHasArrived'
  BY <1>2, PushTruth
<1>3. ASSUME NEW e \in Endpoints, SendQueue(e) PROVE Truth' /\ ConfirmedHasArrived'
  BY <1>3, SendQueueIsTransmit, TransmitTruth
<1>4. ASSUME NEW e \in Endpoints, NEW d \in net, HandlePAYLOADResponse(e, d)
      PROVE Truth' /\ ConfirmedHasArrived'
  BY <1>4, ResponseTruth
<1>5. ASSUME Grows, UNCHANGED <<ids, owner, fate, send>>,
             \A e \in Endpoints : sent'[e] \subseteq sent[e],
             \A e \in Endpoints : \A x \in acks'[e] : x \in acks[e] \/ Confirms(Peer(e), x)',
             \A d \in net' : d \in net \/ d.cmd # "PAYLOAD"
      PROVE Truth' /\ ConfirmedHasArrived'
  BY <1>1, <1>5, QuietTruth, ConfirmedKeeps DEF TruthInv
<1>6. ASSUME NEW e \in Endpoints, Collect(e) PROVE Truth' /\ ConfirmedHasArrived'
  <2>1. Grows
    BY <1>1, <1>6, CollectGrows
  <2> QED BY <1>5, <1>6, <2>1 DEF Collect, historyVars
<1>7. CASE ClientDisconnect
  <2>1. UNCHANGED <<ids, owner, fate, send, sent, acks, received, collected>>
    BY <1>7 DEF ClientDisconnect, historyVars
  <2>2. \A d \in net' : d \in net \/ d.cmd # "PAYLOAD"
    BY <1>7 DEF ClientDisconnect, Command
  <2> QED BY <1>5, <2>1, <2>2, SameGrows
<1>8. ASSUME NEW e \in Endpoints, NEW d \in net, HandleCONNECT(e, d) PROVE Truth' /\ ConfirmedHasArrived'
  <2>1. /\ UNCHANGED <<ids, owner, fate, send, acks, received, collected>>
        /\ net' \subseteq net /\ \A f \in Endpoints : sent'[f] \subseteq sent[f]
    BY <1>1, <1>8 DEF HandleCONNECT, Consume, TypeOK
  <2> QED BY <1>5, <2>1, SameGrows
<1>9. ASSUME NEW e \in Endpoints, NEW d \in net, HandleDISCONNECT(e, d) PROVE Truth' /\ ConfirmedHasArrived'
  <2>1. /\ UNCHANGED <<ids, owner, fate, send, sent, acks, received, collected>>
        /\ net' \subseteq net
    BY <1>9 DEF HandleDISCONNECT, Consume
  <2> QED BY <1>5, <2>1, SameGrows
<1>10. ASSUME NEW e \in Endpoints, NEW d \in net, HandlePAYLOADRequest(e, d)
       PROVE Truth' /\ ConfirmedHasArrived'
  <2>1. /\ UNCHANGED <<ids, owner, fate, send, sent, collected>> /\ net' \subseteq net
        /\ d.to = e /\ d.cmd = "PAYLOAD" /\ d.type = "REQUEST"
    BY <1>10 DEF HandlePAYLOADRequest, Consume
  <2>2. Grows /\ (acks' = acks \/ /\ acks' = [acks EXCEPT ![e] = @ \cup {d.mid}]
                                  /\ \A p \in d.parts : Arrived(e, p)')
    BY <1>1, <1>10, RequestGrows
  <2>3. /\ d.parts # {} /\ d.parts \subseteq Payloads
        /\ \A p \in d.parts : d.mid \in ids[p] /\ owner[p] = Peer(e)
    BY <1>1, <2>1 DEF Truth, Carried, TypeOK, Datagram
  <2>4. \A f \in Endpoints : \A x \in acks'[f] : x \in acks[f] \/ Confirms(Peer(f), x)'
    <3> SUFFICES ASSUME NEW f \in Endpoints, NEW x \in acks'[f], x \notin acks[f]
                 PROVE  Confirms(Peer(f), x)'
      OBVIOUS
    <3>1. f = e /\ x = d.mid /\ \A p \in d.parts : Arrived(e, p)'
      BY <1>1, <2>2 DEF TypeOK
    <3>2. PICK p \in d.parts : TRUE
      BY <2>3
    <3>3. p \in Payloads /\ owner'[p] = Peer(f) /\ x \in ids'[p] /\ Arrived(Peer(Peer(f)), p)'
      BY <2>1, <2>3, <3>1, <3>2, PeerPeer
    <3> QED BY <3>3 DEF Confirms
  <2> QED BY <1>5, <2>1, <2>2, <2>4
<1>11. ASSUME NEW d \in net, Drop(d) PROVE Truth' /\ ConfirmedHasArrived'
  <2>1. UNCHANGED <<ids, owner, fate, send, sent, acks, received, collected>> /\ net' \subseteq net
    BY <1>11 DEF Drop, endpointVars, historyVars
  <2> QED BY <1>5, <2>1, SameGrows
<1>12. CASE Tick
  <2>1. UNCHANGED <<ids, owner, fate, send, sent, acks, received, collected, net>>
    BY <1>12 DEF Tick, endpointVars, historyVars
  <2> QED BY <1>5, <2>1, SameGrows
<1>13. CASE UNCHANGED vars
  <2>1. UNCHANGED <<ids, owner, fate, send, sent, acks, received, collected, net>>
    BY <1>13 DEF vars, endpointVars, historyVars
  <2> QED BY <1>5, <2>1, SameGrows
<1> QED
  BY <1>2, <1>3, <1>4, <1>6, <1>7, <1>8, <1>9, <1>10, <1>11, <1>12, <1>13 DEF Next, Receive

LEMMA TruthInit == Init => TruthInv
<1> SUFFICES ASSUME Init PROVE TruthInv
  OBVIOUS
<1>1. HomeInv
  BY InitType, HomeInit DEF HomeInv
<1>2. /\ \A e \in Endpoints : Queued(e) \subseteq {ConnectResponse} /\ sent[e] \subseteq {ConnectResponse}
      /\ \A p \in Payloads : fate[p] = "none" /\ owner[p] = Nobody
      /\ \A e \in Endpoints : acks[e] = {}
      /\ \A d \in net : d.cmd # "PAYLOAD"
  BY DEF Init, Queued, Command
<1>3. ConnectResponse.cmd = "CONNECT" /\ ConnectResponse.parts = {}
  BY DEF ConnectResponse
<1>4. Filled /\ Remembered
  BY <1>2, <1>3 DEF Filled, Remembered
<1>5. Carried /\ Queueable /\ InFlight /\ Unpushed /\ ConfirmedHasArrived
  BY <1>2 DEF Carried, Queueable, InFlight, Unpushed, ConfirmedHasArrived
<1> QED BY <1>1, <1>4, <1>5 DEF TruthInv, Truth

\* A payload is confirmed only if it, or one transmitted under a MessageId it shares, has
\* arrived: losses, duplicates, late confirmations and retries notwithstanding.
THEOREM ConfirmationsTellTheTruth == Spec => []ConfirmedHasArrived
<1>1. TruthInv => ConfirmedHasArrived
  BY DEF TruthInv
<1> QED BY <1>1, TruthInit, TruthNext, PTL DEF Spec
----------------------------------------------------------------------------
\* The connection implements the contract

\* Nothing arrives before it is pushed.
Undelivered == \A p \in Payloads : fate[p] = "none" => \A e \in Endpoints : ~Arrived(e, p)
RefineInv == TruthInv /\ Undelivered

\* What the contract sees of a payload.
AtPeer(p) == \E e \in Endpoints : owner[p] = Peer(e) /\ Arrived(e, p)

\* What a step of the contract is for one payload.
PayloadStep(p) ==
    \/ Contract!Idle(p) \/ Contract!Offer(p) \/ Contract!Transmit(p)
    \/ Contract!Arrive(p) \/ Contract!Confirm(p) \/ Contract!GiveUp(p)

LEMMA StepsRefine ==
    ASSUME \A p \in Payloads : PayloadStep(p)
    PROVE  Contract!Next
BY DEF Contract!Next, PayloadStep

\* A step that leaves a payload as it is.
LEMMA IdleRefines ==
    ASSUME NEW p \in Payloads, owner'[p] = owner[p], fate'[p] = fate[p], ids'[p] = ids[p],
           \A e \in Endpoints : Arrived(e, p)' = Arrived(e, p)
    PROVE  PayloadStep(p)
BY DEF PayloadStep, Contract!Idle, Contract!Keeps

LEMMA PushRefines ==
    ASSUME RefineInv, NEW e \in Endpoints, NEW p \in Payloads, NEW mode \in Modes,
           NEW r \in RetryCounts, Push(e, p, mode, r)
    PROVE  Contract!Next /\ Undelivered'
<1>1. /\ UNCHANGED <<received, collected, ids>> /\ fate[p] = "none" /\ owner[p] = Nobody
      /\ owner' = [owner EXCEPT ![p] = e] /\ fate' = [fate EXCEPT ![p] = "live"]
      /\ TypeOK
  BY DEF Push, RefineInv, TruthInv, HomeInv, Truth, Unpushed
<1>2. \A f \in Endpoints, q \in Payloads : Arrived(f, q)' = Arrived(f, q)
  BY <1>1 DEF Arrived, Copies
<1>3. \A f \in Endpoints : ~Arrived(f, p)
  BY <1>1 DEF RefineInv, Undelivered
<1>4. Contract!Offer(p)
  BY <1>1, <1>2, <1>3, PeerPeer DEF Contract!Offer, TypeOK
<1>5. ASSUME NEW q \in Payloads PROVE PayloadStep(q)
  <2>1. CASE q = p
    BY <1>4, <2>1 DEF PayloadStep
  <2>2. CASE q # p
    BY <1>1, <1>2, <2>2, IdleRefines DEF TypeOK
  <2> QED BY <2>1, <2>2
<1>6. Undelivered'
  BY <1>1, <1>2 DEF RefineInv, Undelivered, TypeOK
<1> QED BY <1>5, <1>6, StepsRefine
\* connectionSendQueue transmits some payloads, gives up others and loses, at most, the
\* ones it packed.
LEMMA TransmitRefines ==
    ASSUME RefineInv, NEW e \in Endpoints, NEW P \in Packings(e),
           NEW failed \in SUBSET Outgoing(e, P), NEW failedAcks \in SUBSET acks[e],
           Transmit(e, P, failed, failedAcks), ~SendMayFail => failed = {}
    PROVE  Contract!Next /\ Undelivered'
<1> DEFINE out == Outgoing(e, P)
           over == PartsOf(Abandoned(e))
           lost == IF P # {} /\ Optimized(P) \in failed THEN PartsOf(P) ELSE {}
<1>1. TypeOK /\ OneHome /\ Truth /\ HomeInv
  BY DEF RefineInv, TruthInv, HomeInv
<1>2. /\ UNCHANGED <<received, collected, owner>>
      /\ fate' = [p \in Payloads |-> IF p \in over THEN "expired"
                                     ELSE IF p \in lost THEN "lost" ELSE fate[p]]
      /\ ids' = [p \in Payloads |-> ids[p] \cup {Hash(m.time) : m \in {x \in out : p \in x.parts}}]
  BY DEF Transmit
<1>3. /\ SoleIn(out) /\ PartsOf(out) = PartsOf(Pending(e))
      /\ over \cap PartsOf(Pending(e)) = {}
      /\ PartsOf(Queued(e)) = PartsOf(Pending(e)) \cup PartsOf(Kept(e)) \cup over
  BY <1>1, PackingConserves, ScanSeparates
<1>4. lost \subseteq PartsOf(out) /\ (lost # {} => SendMayFail)
  <2>1. lost # {} => Optimized(P) \in failed /\ Optimized(P).parts = PartsOf(P) /\ lost = PartsOf(P)
    BY DEF Optimized
  <2>2. lost \subseteq PartsOf(out)
    BY <2>1 DEF PartsOf
  <2>3. lost # {} => SendMayFail
    BY <2>1
  <2> QED BY <2>2, <2>3
<1>5. \A p \in over : ids[p] # {} /\ p \in Payloads
  <2> SUFFICES ASSUME NEW p \in over PROVE ids[p] # {} /\ p \in Payloads
    OBVIOUS
  <2>1. PICK m \in Abandoned(e) : p \in m.parts
    BY DEF PartsOf
  <2>2. m \in sent[e] /\ m \in Message
    BY <1>1, <2>1 DEF Abandoned, Expired, TypeOK
  <2>3. Hash(m.time) \in ids[p]
    BY <1>1, <2>1, <2>2 DEF Truth, Remembered
  <2> QED BY <2>1, <2>2, <2>3 DEF Message
<1>6. \A p \in over \cup PartsOf(out) : fate[p] = "live"
  BY <1>1, <1>3 DEF OneHome, QueuedIsLive
<1>7. \A f \in Endpoints, p \in Payloads : Arrived(f, p)' = Arrived(f, p)
  BY <1>2 DEF Arrived, Copies
<1> HIDE DEF out, over, lost
<1>8. ASSUME NEW p \in Payloads PROVE PayloadStep(p)
  <2>1. CASE p \in over
    <3>1. p \notin PartsOf(out)
      BY <1>3, <2>1
    <3>2. ids'[p] = ids[p]
      BY <1>2, <3>1 DEF PartsOf
    <3>3. Contract!GiveUp(p)
      BY <1>2, <1>5, <1>6, <1>7, <2>1, <3>2 DEF Contract!GiveUp, Contract!Keeps
    <3> QED BY <3>3 DEF PayloadStep
  <2>2. CASE p \in PartsOf(out)
    <3>1. PICK m \in out : p \in m.parts
      BY <2>2 DEF PartsOf
    <3>2. \A x \in out : p \in x.parts => x = m
      BY <1>3, <3>1 DEF SoleIn
    <3>3. ids'[p] = ids[p] \cup {Hash(m.time)}
      BY <1>2, <3>1, <3>2
    <3>4. p \notin over /\ fate[p] = "live" /\ (fate'[p] = "live" \/ (SendMayFail /\ fate'[p] = "lost"))
      BY <1>2, <1>3, <1>4, <1>6, <2>2
    <3>5. Contract!Transmit(p)
      BY <1>2, <1>7, <3>3, <3>4 DEF Contract!Transmit, Contract!Keeps
    <3> QED BY <3>5 DEF PayloadStep
  <2>3. CASE p \notin over \cup PartsOf(out)
    <3>1. ids'[p] = ids[p]
      BY <1>2, <2>3 DEF PartsOf
    <3>2. fate'[p] = fate[p]
      BY <1>2, <1>4, <2>3
    <3> QED BY <1>2, <1>7, <3>1, <3>2, IdleRefines
  <2> QED BY <2>1, <2>2, <2>3
<1>9. Undelivered'
  BY <1>2, <1>7 DEF RefineInv, Undelivered
<1> QED BY <1>8, <1>9, StepsRefine

\* A confirmation decides the payloads of the message it names.
LEMMA ResponseRefines ==
    ASSUME RefineInv, NEW e \in Endpoints, NEW d \in net, HandlePAYLOADResponse(e, d)
    PROVE  Contract!Next /\ Undelivered'
<1>1. TypeOK /\ OneHome /\ Truth
  BY DEF RefineInv, TruthInv, HomeInv
<1>2. /\ UNCHANGED <<ids, owner, received, collected>>
      /\ d.to = e /\ d.cmd = "PAYLOAD" /\ d.type = "RESPONSE"
  BY DEF HandlePAYLOADResponse
<1>3. \A f \in Endpoints, p \in Payloads : Arrived(f, p)' = Arrived(f, p)
  BY <1>2 DEF Arrived, Copies
<1>4. CASE UNCHANGED <<sent, fate>>
  <2>1. \A p \in Payloads : PayloadStep(p)
    BY <1>2, <1>3, <1>4, IdleRefines
  <2> QED BY <1>3, <1>4, <2>1, StepsRefine DEF RefineInv, Undelivered
<1>5. ASSUME NEW m \in Confirmable(e, d.mid),
             fate' = [p \in Payloads |-> IF p \in m.parts THEN "confirmed" ELSE fate[p]]
      PROVE  Contract!Next /\ Undelivered'
  <2>1. m \in sent[e] /\ m \in Message /\ (Hash(m.time) = d.mid \/ d.mid \in m.hashes)
    BY <1>1 DEF Confirmable, TypeOK
  <2>2. \A p \in m.parts : d.mid \in ids[p] /\ owner[p] = e /\ fate[p] = "live"
    BY <1>1, <2>1 DEF Truth, Remembered, Queued, OneHome, QueuedIsLive, PartsOf
  <2>3. PICK q \in Payloads : owner[q] = e /\ d.mid \in ids[q] /\ Arrived(Peer(e), q)
    BY <1>1, <1>2 DEF Truth, InFlight, Confirms
  <2>4. AtPeer(q)
    BY <2>3, PeerPeer DEF AtPeer
  <2>5. ASSUME NEW p \in Payloads PROVE PayloadStep(p)
    <3>1. CASE p \in m.parts
      <4>1. fate[p] = "live" /\ fate'[p] = "confirmed" /\ owner[q] = owner[p] /\ ids[q] \cap ids[p] # {}
        BY <1>5, <2>2, <2>3, <3>1
      <4>2. Contract!Confirm(p)
        BY <1>2, <1>3, <2>4, <4>1 DEF Contract!Confirm, Contract!Keeps, AtPeer
      <4> QED BY <4>2 DEF PayloadStep
    <3>2. CASE p \notin m.parts
      BY <1>2, <1>3, <1>5, <3>2, IdleRefines
    <3> QED BY <3>1, <3>2
  <2>6. Undelivered'
    BY <1>3, <1>5 DEF RefineInv, Undelivered
  <2> QED BY <2>5, <2>6, StepsRefine
<1> QED BY <1>4, <1>5 DEF HandlePAYLOADResponse

\* A payload request delivers payloads that have been transmitted, or nothing.
LEMMA RequestRefines ==
    ASSUME RefineInv, NEW e \in Endpoints, NEW d \in net, HandlePAYLOADRequest(e, d)
    PROVE  Contract!Next /\ Undelivered'
<1>1. TypeOK /\ Truth /\ OneHome
  BY DEF RefineInv, TruthInv, HomeInv
<1>2. /\ UNCHANGED <<ids, owner, fate, collected>>
      /\ d.to = e /\ d.cmd = "PAYLOAD" /\ d.type = "REQUEST"
  BY DEF HandlePAYLOADRequest
<1>3. \A p \in d.parts : d.mid \in ids[p] /\ owner[p] = Peer(e) /\ p \in Payloads
  BY <1>1, <1>2 DEF Truth, Carried, TypeOK, Datagram
<1>4. PICK key \in Keys(e, d) :
         IF (~d.enc \/ d.key = key) \/ ~d.comp
         THEN received' = [received EXCEPT ![e] = [a \in Arrivals |->
                  IF a[1] \in d.parts /\ a[2] = (~d.enc \/ d.key = key) THEN @[a] + 1 ELSE @[a]]]
         ELSE received' = received
  BY DEF HandlePAYLOADRequest
<1>5. ASSUME NEW f \in Endpoints, NEW p \in Payloads, f # e \/ p \notin d.parts
      PROVE  Arrived(f, p)' = Arrived(f, p)
  <2>1. ASSUME NEW b \in BOOLEAN PROVE received'[f][<<p, b>>] = received[f][<<p, b>>]
    <3>1. <<p, b>> \in Arrivals /\ <<p, b>>[1] = p
      BY DEF Arrivals
    <3>2. f # e => received'[f] = received[f]
      BY <1>1, <1>4 DEF TypeOK
    <3>3. p \notin d.parts => received'[e][<<p, b>>] = received[e][<<p, b>>]
      BY <1>1, <1>4, <3>1 DEF TypeOK
    <3> QED BY <1>5, <3>2, <3>3
  <2>2. /\ received'[f][<<p, TRUE>>] = received[f][<<p, TRUE>>]
        /\ received'[f][<<p, FALSE>>] = received[f][<<p, FALSE>>]
    BY <2>1
  <2> QED BY <1>2, <2>2 DEF Arrived, Copies
<1>6. CASE received' = received
  <2>1. \A p \in Payloads : PayloadStep(p)
    <3>1. \A f \in Endpoints, p \in Payloads : Arrived(f, p)' = Arrived(f, p)
      BY <1>2, <1>6 DEF Arrived, Copies
    <3> QED BY <1>2, <3>1, IdleRefines
  <2> QED BY <1>2, <1>6, <2>1, StepsRefine DEF RefineInv, Undelivered, Arrived, Copies
<1>7. CASE received' # received
  <2>1. \A p \in d.parts : Arrived(e, p)'
    BY <1>1, <1>7, RequestGrows
  <2>2. ASSUME NEW p \in Payloads PROVE PayloadStep(p)
    <3>1. CASE p \in d.parts
      <4>1. AtPeer(p)'
        BY <1>2, <1>3, <2>1, <3>1, PeerPeer DEF AtPeer
      <4>2. Contract!Arrive(p)
        BY <1>2, <1>3, <3>1, <4>1 DEF Contract!Arrive, Contract!Keeps, AtPeer
      <4> QED BY <4>2 DEF PayloadStep
    <3>2. CASE p \notin d.parts
      BY <1>2, <1>5, <3>2, IdleRefines
    <3> QED BY <3>1, <3>2
  <2>3. Undelivered'
    <3> SUFFICES ASSUME NEW p \in Payloads, fate'[p] = "none", NEW f \in Endpoints
                 PROVE  ~Arrived(f, p)'
      BY DEF Undelivered
    <3>1. owner[p] = Nobody /\ ~Arrived(f, p)
      BY <1>1, <1>2 DEF Truth, Unpushed, RefineInv, Undelivered
    <3>2. p \notin d.parts
      BY <1>3, <3>1, PeerPeer
    <3> QED BY <1>5, <3>1, <3>2
  <2> QED BY <2>2, <2>3, StepsRefine
<1> QED BY <1>6, <1>7
\* A step that keeps every payload where it is, in the eyes of the contract.
LEMMA QuietRefines ==
    ASSUME RefineInv, UNCHANGED <<owner, fate, ids>>,
           \A f \in Endpoints, p \in Payloads : Arrived(f, p)' = Arrived(f, p)
    PROVE  Contract!Next /\ Undelivered'
<1>1. \A p \in Payloads : PayloadStep(p)
  BY IdleRefines
<1>2. Undelivered'
  BY DEF RefineInv, Undelivered
<1> QED BY <1>1, <1>2, StepsRefine

LEMMA RefineNext == RefineInv /\ [Next]_vars => RefineInv' /\ Contract!Next
<1> SUFFICES ASSUME RefineInv, [Next]_vars PROVE RefineInv' /\ Contract!Next
  OBVIOUS
<1>1. TruthInv' /\ TypeOK
  BY TruthNext DEF RefineInv, TruthInv, HomeInv
<1> SUFFICES Contract!Next /\ Undelivered'
  BY <1>1 DEF RefineInv
<1>2. ASSUME NEW e \in Endpoints, NEW p \in Payloads, NEW mode \in Modes, NEW r \in RetryCounts,
             Push(e, p, mode, r)
      PROVE Contract!Next /\ Undelivered'
  BY <1>2, PushRefines
<1>3. ASSUME NEW e \in Endpoints, SendQueue(e) PROVE Contract!Next /\ Undelivered'
  <2>1. PICK P \in Packings(e) :
           \E failed \in Failures(Outgoing(e, P)), failedAcks \in Failures(acks[e]) :
              Transmit(e, P, failed, failedAcks)
    BY <1>3 DEF SendQueue
  <2>2. PICK failed \in Failures(Outgoing(e, P)), failedAcks \in Failures(acks[e]) :
           Transmit(e, P, failed, failedAcks)
    BY <2>1
  <2>3. /\ failed \in SUBSET Outgoing(e, P) /\ failedAcks \in SUBSET acks[e]
        /\ ~SendMayFail => failed = {}
    BY <2>2 DEF Failures
  <2> QED BY <2>2, <2>3, TransmitRefines
<1>4. ASSUME NEW e \in Endpoints, NEW d \in net, HandlePAYLOADResponse(e, d)
      PROVE Contract!Next /\ Undelivered'
  BY <1>4, ResponseRefines
<1>5. ASSUME NEW e \in Endpoints, NEW d \in net, HandlePAYLOADRequest(e, d)
      PROVE Contract!Next /\ Undelivered'
  BY <1>5, RequestRefines
<1>6. ASSUME UNCHANGED <<owner, fate, ids, received, collected>> PROVE Contract!Next /\ Undelivered'
  <2>1. \A f \in Endpoints, p \in Payloads : Arrived(f, p)' = Arrived(f, p)
    BY <1>6 DEF Arrived, Copies
  <2> QED BY <1>6, <2>1, QuietRefines
<1>7. ASSUME NEW e \in Endpoints, Collect(e) PROVE Contract!Next /\ Undelivered'
  <2>1. UNCHANGED <<owner, fate, ids>>
    BY <1>7 DEF Collect, historyVars
  <2> QED BY <1>1, <1>7, <2>1, CollectGrows, QuietRefines
<1>8. CASE ClientDisconnect
  BY <1>6, <1>8 DEF ClientDisconnect, historyVars
<1>9. ASSUME NEW e \in Endpoints, NEW d \in net, HandleCONNECT(e, d) PROVE Contract!Next /\ Undelivered'
  BY <1>6, <1>9 DEF HandleCONNECT
<1>10. ASSUME NEW e \in Endpoints, NEW d \in net, HandleDISCONNECT(e, d)
       PROVE Contract!Next /\ Undelivered'
  BY <1>6, <1>10 DEF HandleDISCONNECT
<1>11. ASSUME NEW d \in net, Drop(d) PROVE Contract!Next /\ Undelivered'
  BY <1>6, <1>11 DEF Drop, endpointVars, historyVars
<1>12. CASE Tick
  BY <1>6, <1>12 DEF Tick, endpointVars, historyVars
<1>13. CASE UNCHANGED vars
  BY <1>6, <1>13 DEF vars, endpointVars, historyVars
<1> QED
  BY <1>2, <1>3, <1>4, <1>5, <1>7, <1>8, <1>9, <1>10, <1>11, <1>12, <1>13 DEF Next, Receive

LEMMA RefineInit == Init => RefineInv /\ Contract!Init
<1> SUFFICES ASSUME Init PROVE RefineInv /\ Contract!Init
  OBVIOUS
<1>1. \A e \in Endpoints, p \in Payloads : ~Arrived(e, p)
  <2>1. \A p \in Payloads : <<p, TRUE>> \in Arrivals /\ <<p, FALSE>> \in Arrivals
    BY DEF Arrivals
  <2>2. \A e \in Endpoints : \A a \in Arrivals : received[e][a] = 0 /\ collected[e][a] = 0
    BY DEF Init
  <2>3. \A e \in Endpoints, p \in Payloads : Copies(e, p) = 0 + 0 + 0 + 0
    BY <2>1, <2>2 DEF Copies
  <2> QED BY <2>3 DEF Arrived
<1>2. Contract!Init
  BY <1>1 DEF Init, Contract!Init
<1> QED BY <1>1, <1>2, TruthInit DEF RefineInv, Undelivered

\* The connection implements the contract of its payloads.
THEOREM Implements == Spec => ContractHolds
<1>1. Init => RefineInv /\ Contract!Init
  BY RefineInit
<1>2. RefineInv /\ [Next]_vars => RefineInv' /\ [Contract!Next]_(Contract!vars)
  BY RefineNext
<1> QED BY <1>1, <1>2, PTL DEF Spec, ContractHolds, Contract!Spec

----------------------------------------------------------------------------
\* Copies are accounted for

\* The requests in flight to e that carry p.
OnTheWire(e, p) == {d \in net : d.to = e /\ d.cmd = "PAYLOAD" /\ d.type = "REQUEST" /\ p \in d.parts}

\* What has reached e and what may still reach it are together no more than was transmitted and
\* duplicated: a copy is in flight before it arrives.
Bound(e, p) == IF owner[p] = Peer(e) THEN wire[p] + dups ELSE 0
Accounted ==
    \A e \in Endpoints, p \in Payloads :
        IsFiniteSet(OnTheWire(e, p)) /\ Copies(e, p) + Cardinality(OnTheWire(e, p)) <= Bound(e, p)
CopiesInv == TruthInv /\ Accounted

LEMMA CopiesType ==
    ASSUME TypeOK, NEW e \in Endpoints, NEW p \in Payloads
    PROVE  /\ Copies(e, p) \in Nat /\ Bound(e, p) \in Nat /\ wire[p] + dups \in Nat
           /\ wire[p] \in Nat /\ dups \in Nat
<1>1. <<p, TRUE>> \in Arrivals /\ <<p, FALSE>> \in Arrivals
  BY DEF Arrivals
<1>2. \A a \in Arrivals : received[e][a] \in Nat /\ collected[e][a] \in Nat
  BY DEF TypeOK
<1>3. wire[p] \in Nat /\ dups \in Nat
  BY DEF TypeOK
<1> QED BY <1>1, <1>2, <1>3 DEF Copies, Bound

LEMMA CopiesTypes ==
    TypeOK => \A e \in Endpoints, p \in Payloads :
                  Copies(e, p) \in Nat /\ Bound(e, p) \in Nat /\ wire[p] \in Nat /\ dups \in Nat
BY CopiesType

LEMMA CopiesTypesAfter ==
    TypeOK' => \A e \in Endpoints, p \in Payloads :
                   /\ Copies(e, p)' \in Nat /\ Bound(e, p)' \in Nat
                   /\ wire'[p] \in Nat /\ dups' \in Nat
<1> SUFFICES ASSUME TypeOK', NEW e \in Endpoints, NEW p \in Payloads
             PROVE  /\ Copies(e, p)' \in Nat /\ Bound(e, p)' \in Nat
                    /\ wire'[p] \in Nat /\ dups' \in Nat
  OBVIOUS
<1>1. <<p, TRUE>> \in Arrivals /\ <<p, FALSE>> \in Arrivals
  BY DEF Arrivals
<1>2. \A a \in Arrivals : received'[e][a] \in Nat /\ collected'[e][a] \in Nat
  BY DEF TypeOK
<1>3. wire'[p] \in Nat /\ dups' \in Nat
  BY DEF TypeOK
<1> QED BY <1>1, <1>2, <1>3 DEF Copies, Bound

\* Fewer datagrams in flight, and no more copies, is within the bounds if they did not shrink.
LEMMA QuietAccounted ==
    ASSUME TypeOK, TypeOK', NEW e \in Endpoints, NEW p \in Payloads,
           IsFiniteSet(OnTheWire(e, p)), Copies(e, p) + Cardinality(OnTheWire(e, p)) <= Bound(e, p),
           Copies(e, p)' <= Copies(e, p), Bound(e, p) <= Bound(e, p)',
           OnTheWire(e, p)' \subseteq OnTheWire(e, p)
    PROVE  IsFiniteSet(OnTheWire(e, p)') /\ Copies(e, p)' + Cardinality(OnTheWire(e, p)') <= Bound(e, p)'
<1> DEFINE S == OnTheWire(e, p)
           T == OnTheWire(e, p)'
<1>1. IsFiniteSet(T) /\ Cardinality(T) <= Cardinality(S)
  BY FS_Subset
<1>2. Cardinality(T) \in Nat /\ Cardinality(S) \in Nat
  BY <1>1, FS_CardinalityType
<1>3. Copies(e, p) \in Nat /\ Bound(e, p) \in Nat
  BY CopiesType
<1>4. Copies(e, p)' \in Nat /\ Bound(e, p)' \in Nat
  BY CopiesTypesAfter
<1> QED BY <1>1, <1>2, <1>3, <1>4


\* The copies that a payload request adds, and what Collect moves.
LEMMA RequestCopies ==
    ASSUME TypeOK, NEW e \in Endpoints, NEW d \in net, HandlePAYLOADRequest(e, d),
           NEW f \in Endpoints, NEW p \in Payloads
    PROVE  Copies(f, p)' <= Copies(f, p) + (IF f = e /\ p \in d.parts THEN 1 ELSE 0)
<1>1. collected' = collected
  BY DEF HandlePAYLOADRequest
<1>2. PICK key \in Keys(e, d) :
         IF (~d.enc \/ d.key = key) \/ ~d.comp
         THEN received' = [received EXCEPT ![e] = [a \in Arrivals |->
                  IF a[1] \in d.parts /\ a[2] = (~d.enc \/ d.key = key) THEN @[a] + 1 ELSE @[a]]]
         ELSE received' = received
  BY DEF HandlePAYLOADRequest
<1>3. Copies(f, p) \in Nat
  BY CopiesType
<1>4. CASE received' = received \/ f # e
  <2>1. received'[f] = received[f]
    BY <1>2, <1>4 DEF TypeOK
  <2>2. Copies(f, p)' = Copies(f, p)
    BY <1>1, <2>1 DEF Copies
  <2> QED BY <1>3, <2>2
<1>5. CASE received' # received /\ f = e
  <2> DEFINE intact == ~d.enc \/ d.key = key
             r1 == received[e][<<p, TRUE>>]
             r2 == received[e][<<p, FALSE>>]
             n1 == received'[e][<<p, TRUE>>]
             n2 == received'[e][<<p, FALSE>>]
             c1 == collected[e][<<p, TRUE>>]
             c2 == collected[e][<<p, FALSE>>]
  <2>1. intact \in BOOLEAN
    OBVIOUS
  <2>2. <<p, TRUE>> \in Arrivals /\ <<p, FALSE>> \in Arrivals
    BY DEF Arrivals
  <2>3. \A a \in Arrivals : received'[e][a] = IF a[1] \in d.parts /\ a[2] = intact
                                              THEN received[e][a] + 1 ELSE received[e][a]
    BY <1>2, <1>5 DEF TypeOK
  <2>4. r1 \in Nat /\ r2 \in Nat /\ c1 \in Nat /\ c2 \in Nat
    BY <2>2 DEF TypeOK
  <2> HIDE DEF intact
  <2>5. /\ n1 = IF p \in d.parts /\ intact THEN r1 + 1 ELSE r1
        /\ n2 = IF p \in d.parts /\ ~intact THEN r2 + 1 ELSE r2
    BY <2>1, <2>2, <2>3
  <2>6. Copies(e, p) = r1 + r2 + c1 + c2 /\ Copies(e, p)' = n1 + n2 + c1 + c2
    BY <1>1 DEF Copies
  <2> HIDE DEF r1, r2, n1, n2, c1, c2
  <2>7. n1 + n2 <= r1 + r2 + (IF p \in d.parts THEN 1 ELSE 0) /\ n1 \in Nat /\ n2 \in Nat
    BY <2>1, <2>4, <2>5
  <2> QED BY <1>5, <2>4, <2>6, <2>7
<1> QED BY <1>4, <1>5

LEMMA CollectCopies ==
    ASSUME TypeOK, NEW e \in Endpoints, Collect(e), NEW f \in Endpoints, NEW p \in Payloads
    PROVE  Copies(f, p)' = Copies(f, p)
<1>1. <<p, TRUE>> \in Arrivals /\ <<p, FALSE>> \in Arrivals
  BY DEF Arrivals
<1>2. \A a \in Arrivals : received[f][a] \in Nat /\ collected[f][a] \in Nat
  BY DEF TypeOK
<1>3. CASE f = e
  <2>1. \A a \in Arrivals : received'[f][a] = 0 /\ collected'[f][a] = collected[f][a] + received[f][a]
    BY <1>3 DEF Collect, TypeOK
  <2> QED BY <1>1, <1>2, <2>1 DEF Copies
<1>4. CASE f # e
  <2>1. received'[f] = received[f] /\ collected'[f] = collected[f]
    BY <1>4 DEF Collect, TypeOK
  <2> QED BY <2>1 DEF Copies
<1> QED BY <1>3, <1>4

\* A datagram that is handled leaves, or the network duplicated it.
LEMMA RequestAccounted ==
    ASSUME CopiesInv, TypeOK', NEW e \in Endpoints, NEW d \in net, HandlePAYLOADRequest(e, d)
    PROVE  Accounted'
<1>1. TypeOK /\ Truth /\ Accounted
  BY DEF CopiesInv, TruthInv, HomeInv
<1>2. /\ d.to = e /\ d.cmd = "PAYLOAD" /\ d.type = "REQUEST"
      /\ owner' = owner /\ wire' = wire
      /\ (net' = net \ {d} /\ dups' = dups) \/ (net' = net /\ dups' = dups + 1)
  BY DEF HandlePAYLOADRequest, Consume
<1>3. \A p \in d.parts : owner[p] = Peer(e)
  BY <1>1, <1>2 DEF Truth, Carried
<1> SUFFICES ASSUME NEW f \in Endpoints, NEW p \in Payloads
             PROVE  /\ IsFiniteSet(OnTheWire(f, p)')
                    /\ Copies(f, p)' + Cardinality(OnTheWire(f, p)') <= Bound(f, p)'
  BY DEF Accounted, OnTheWire
<1>4. /\ IsFiniteSet(OnTheWire(f, p)) /\ Copies(f, p) + Cardinality(OnTheWire(f, p)) <= Bound(f, p)
      /\ Copies(f, p) \in Nat /\ Bound(f, p) \in Nat /\ Copies(f, p)' \in Nat /\ Bound(f, p)' \in Nat
      /\ wire[p] \in Nat /\ dups \in Nat
      /\ Cardinality(OnTheWire(f, p)) \in Nat
  BY <1>1, CopiesType, CopiesTypesAfter, FS_CardinalityType DEF Accounted
<1>5. Copies(f, p)' <= Copies(f, p) + (IF f = e /\ p \in d.parts THEN 1 ELSE 0)
  BY <1>1, RequestCopies
<1>6. CASE ~(f = e /\ p \in d.parts)
  <2>1. OnTheWire(f, p)' \subseteq OnTheWire(f, p)
    BY <1>2 DEF OnTheWire
  <2>2. Bound(f, p) <= Bound(f, p)'
    BY <1>2, <1>4 DEF Bound
  <2>3. Copies(f, p)' <= Copies(f, p)
    BY <1>4, <1>5, <1>6
  <2> QED BY <1>1, <1>4, <2>1, <2>2, <2>3, QuietAccounted
<1>7. CASE f = e /\ p \in d.parts
  <2>1. Bound(f, p) = wire[p] + dups /\ Bound(f, p)' = wire[p] + dups'
    BY <1>2, <1>3, <1>7 DEF Bound
  <2>2. Copies(f, p)' <= Copies(f, p) + 1
    BY <1>5, <1>7
  <2>3. CASE net' = net \ {d} /\ dups' = dups
    <3>1. OnTheWire(f, p)' = OnTheWire(f, p) \ {d} /\ d \in OnTheWire(f, p)
      BY <1>2, <1>7, <2>3 DEF OnTheWire
    <3>2. IsFiniteSet(OnTheWire(f, p)') /\ Cardinality(OnTheWire(f, p)') = Cardinality(OnTheWire(f, p)) - 1
      BY <1>4, <3>1, FS_RemoveElement
    <3> QED BY <1>4, <2>1, <2>2, <2>3, <3>2
  <2>4. CASE net' = net /\ dups' = dups + 1
    <3>1. OnTheWire(f, p)' = OnTheWire(f, p)
      BY <2>4 DEF OnTheWire
    <3> QED BY <1>4, <2>1, <2>2, <2>4, <3>1
  <2> QED BY <1>2, <2>3, <2>4
<1> QED BY <1>6, <1>7

\* A transmission puts one datagram on the wire for each of its payloads.
LEMMA TransmitAccounted ==
    ASSUME CopiesInv, TypeOK', NEW e \in Endpoints, NEW P \in Packings(e),
           NEW failed \in SUBSET Outgoing(e, P), NEW failedAcks \in SUBSET acks[e],
           Transmit(e, P, failed, failedAcks)
    PROVE  Accounted'
<1> DEFINE done == Outgoing(e, P) \ failed
           key == KeyAfterPacking(e, P)
<1>1. TypeOK /\ OneHome /\ HomeInv /\ Filled /\ Remembered /\ Accounted
  BY DEF CopiesInv, TruthInv, HomeInv, Truth
<1>2. /\ received' = received /\ collected' = collected /\ owner' = owner /\ dups' = dups
      /\ wire' = [p \in Payloads |-> IF p \in PartsOf(done) THEN wire[p] + 1 ELSE wire[p]]
      /\ net' = net \cup {Transmission(e, m, key) : m \in done}
                    \cup {Confirmation(e, x) : x \in acks[e] \ failedAcks}
  BY DEF Transmit
<1>3. /\ SoleIn(Outgoing(e, P)) /\ Outgoing(e, P) \subseteq Message
      /\ \A m \in Outgoing(e, P) : \A p \in m.parts : owner[p] = e
  BY <1>1, PackingConserves, OutgoingType, OutgoingTruth
<1>4. \A m \in Message : LET t == Transmission(e, m, key)
                         IN  t.to = Peer(e) /\ (t.cmd = "PAYLOAD" => t.parts = m.parts)
  BY DEF Transmission, Command, Message
<1>5. \A x : Confirmation(e, x).type = "RESPONSE"
  BY DEF Confirmation, Command
<1> HIDE DEF key
<1> SUFFICES ASSUME NEW f \in Endpoints, NEW p \in Payloads
             PROVE  /\ IsFiniteSet(OnTheWire(f, p)')
                    /\ Copies(f, p)' + Cardinality(OnTheWire(f, p)') <= Bound(f, p)'
  BY DEF Accounted, OnTheWire
<1>6. /\ IsFiniteSet(OnTheWire(f, p)) /\ Copies(f, p) + Cardinality(OnTheWire(f, p)) <= Bound(f, p)
      /\ Copies(f, p) \in Nat /\ Bound(f, p) \in Nat /\ Bound(f, p)' \in Nat
      /\ wire[p] \in Nat /\ dups \in Nat
      /\ Cardinality(OnTheWire(f, p)) \in Nat
  BY <1>1, CopiesType, CopiesTypesAfter, FS_CardinalityType DEF Accounted
<1>7. Copies(f, p)' = Copies(f, p)
  BY <1>2 DEF Copies
<1>8. \A d \in OnTheWire(f, p)' : d \in OnTheWire(f, p)
          \/ (f = Peer(e) /\ \E m \in done : p \in m.parts /\ d = Transmission(e, m, key))
  <2> SUFFICES ASSUME NEW d \in OnTheWire(f, p)', d \notin OnTheWire(f, p)
               PROVE  f = Peer(e) /\ \E m \in done : p \in m.parts /\ d = Transmission(e, m, key)
    OBVIOUS
  <2>1. d \in net' /\ d \notin net /\ d.to = f /\ d.cmd = "PAYLOAD" /\ d.type = "REQUEST" /\ p \in d.parts
    BY DEF OnTheWire
  <2>2. PICK m \in done : d = Transmission(e, m, key)
    BY <1>2, <1>5, <2>1
  <2>3. m \in Message
    BY <1>3
  <2> QED BY <1>4, <2>1, <2>2, <2>3
<1>9. CASE f = Peer(e) /\ p \in PartsOf(done)
  <2>1. PICK m \in done : p \in m.parts
    BY <1>9 DEF PartsOf
  <2>2. \A n \in done : p \in n.parts => n = m
    BY <1>3, <2>1 DEF SoleIn
  <2> DEFINE U == OnTheWire(f, p) \cup {Transmission(e, m, key)}
  <2>3. OnTheWire(f, p)' \subseteq U
    BY <1>8, <2>2
  <2>4. IsFiniteSet(U) /\ Cardinality(U) <= Cardinality(OnTheWire(f, p)) + 1
    <3>1. /\ IsFiniteSet(U)
          /\ \/ Cardinality(U) = Cardinality(OnTheWire(f, p))
             \/ Cardinality(U) = Cardinality(OnTheWire(f, p)) + 1
      BY <1>6, FS_AddElement
    <3> HIDE DEF U
    <3> QED BY <1>6, <3>1
  <2>5. IsFiniteSet(OnTheWire(f, p)') /\ Cardinality(OnTheWire(f, p)') <= Cardinality(U)
    BY <2>3, <2>4, FS_Subset
  <2>6. Cardinality(U) \in Nat /\ Cardinality(OnTheWire(f, p)') \in Nat
    BY <2>4, <2>5, FS_CardinalityType
  <2>7. Bound(f, p) = wire[p] + dups /\ Bound(f, p)' = wire[p] + 1 + dups
    <3>1. owner[p] = Peer(f)
      BY <1>3, <1>9, <2>1, PeerPeer
    <3> QED BY <1>2, <1>9, <3>1 DEF Bound
  <2> HIDE DEF U
  <2> QED BY <1>6, <1>7, <2>4, <2>5, <2>6, <2>7
<1>10. CASE ~(f = Peer(e) /\ p \in PartsOf(done))
  <2>1. OnTheWire(f, p)' \subseteq OnTheWire(f, p)
    BY <1>8, <1>10 DEF PartsOf
  <2>2. Bound(f, p) <= Bound(f, p)'
    BY <1>2, <1>6 DEF Bound
  <2> QED BY <1>1, <1>6, <1>7, <2>1, <2>2, QuietAccounted
<1> QED BY <1>9, <1>10

LEMMA CopiesNext == CopiesInv /\ TruthInv' /\ [Next]_vars => CopiesInv'
<1> SUFFICES ASSUME CopiesInv, TruthInv', [Next]_vars PROVE Accounted'
  BY DEF CopiesInv
<1>1. TypeOK /\ Truth /\ Accounted /\ TypeOK'
  BY DEF CopiesInv, TruthInv, HomeInv
<1>2. \A e \in Endpoints, p \in Payloads : wire[p] \in Nat /\ dups \in Nat /\ Copies(e, p) \in Nat
  BY <1>1, CopiesTypes
<1>3. ASSUME owner' = owner, wire' = wire, dups' = dups \/ dups' = dups + 1,
             \A e \in Endpoints, p \in Payloads : Copies(e, p)' = Copies(e, p),
             \A d \in net' : d \in net \/ d.cmd # "PAYLOAD"
      PROVE  Accounted'
  <2> SUFFICES ASSUME NEW e \in Endpoints, NEW p \in Payloads
               PROVE  /\ IsFiniteSet(OnTheWire(e, p)')
                      /\ Copies(e, p)' + Cardinality(OnTheWire(e, p)') <= Bound(e, p)'
    BY DEF Accounted, OnTheWire
  <2>1. OnTheWire(e, p)' \subseteq OnTheWire(e, p)
    BY <1>3 DEF OnTheWire
  <2>2. Bound(e, p) <= Bound(e, p)' /\ Copies(e, p)' <= Copies(e, p)
    BY <1>2, <1>3 DEF Bound
  <2> QED BY <1>1, <2>1, <2>2, QuietAccounted DEF Accounted
<1>4. ASSUME NEW e \in Endpoints, NEW q \in Payloads, NEW mode \in Modes, NEW r \in RetryCounts,
             Push(e, q, mode, r)
      PROVE Accounted'
  <2>1. /\ owner[q] = Nobody /\ owner' = [owner EXCEPT ![q] = e] /\ wire' = wire /\ dups' = dups
        /\ received' = received /\ collected' = collected /\ net' = net
    BY <1>1, <1>4 DEF Push, Truth, Unpushed
  <2> SUFFICES ASSUME NEW f \in Endpoints, NEW p \in Payloads
               PROVE  /\ IsFiniteSet(OnTheWire(f, p)')
                      /\ Copies(f, p)' + Cardinality(OnTheWire(f, p)') <= Bound(f, p)'
    BY DEF Accounted, OnTheWire
  <2>2. OnTheWire(f, p)' \subseteq OnTheWire(f, p) /\ Copies(f, p)' = Copies(f, p)
    BY <2>1 DEF OnTheWire, Copies
  <2>3. Bound(f, p) <= Bound(f, p)'
    <3>1. CASE p = q
      <4>1. Bound(f, p) = 0 /\ Bound(f, p)' \in Nat
        BY <1>1, <2>1, <3>1, PeerPeer, CopiesTypesAfter DEF Bound
      <4> QED BY <4>1
    <3>2. CASE p # q
      <4>1. owner'[p] = owner[p]
        BY <1>1, <2>1, <3>2 DEF TypeOK
      <4> QED BY <1>2, <2>1, <4>1 DEF Bound
    <3> QED BY <3>1, <3>2
  <2> QED BY <1>1, <1>2, <2>2, <2>3, QuietAccounted DEF Accounted
<1>5. ASSUME NEW e \in Endpoints, SendQueue(e) PROVE Accounted'
  BY <1>1, <1>5, SendQueueIsTransmit, TransmitAccounted
<1>6. ASSUME NEW e \in Endpoints, NEW d \in net, HandlePAYLOADRequest(e, d) PROVE Accounted'
  BY <1>1, <1>6, RequestAccounted
<1>7. ASSUME NEW e \in Endpoints, Collect(e) PROVE Accounted'
  <2>1. owner' = owner /\ wire' = wire /\ dups' = dups /\ net' = net
    BY <1>7 DEF Collect, historyVars
  <2> QED BY <1>1, <1>3, <1>7, <2>1, CollectCopies
<1>8. ASSUME received' = received, collected' = collected, owner' = owner, wire' = wire,
             dups' = dups \/ dups' = dups + 1, \A d \in net' : d \in net \/ d.cmd # "PAYLOAD"
      PROVE  Accounted'
  <2>1. \A e \in Endpoints, p \in Payloads : Copies(e, p)' = Copies(e, p)
    BY <1>8 DEF Copies
  <2> QED BY <1>3, <1>8, <2>1
<1>9. CASE ClientDisconnect
  BY <1>8, <1>9 DEF ClientDisconnect, Command, historyVars
<1>10. ASSUME NEW e \in Endpoints, NEW d \in net,
              HandleCONNECT(e, d) \/ HandleDISCONNECT(e, d) \/ HandlePAYLOADResponse(e, d)
       PROVE  Accounted'
  BY <1>8, <1>10 DEF HandleCONNECT, HandleDISCONNECT, HandlePAYLOADResponse, Consume
<1>11. ASSUME NEW d \in net, Drop(d) PROVE Accounted'
  BY <1>8, <1>11 DEF Drop, endpointVars, historyVars
<1>12. CASE Tick
  BY <1>8, <1>12 DEF Tick, endpointVars, historyVars
<1>13. CASE UNCHANGED vars
  BY <1>8, <1>13 DEF vars, endpointVars, historyVars
<1> QED BY <1>4, <1>5, <1>6, <1>7, <1>9, <1>10, <1>11, <1>12, <1>13 DEF Next, Receive

\* An application gets a payload at most once per transmission and duplicate, and only from the
\* endpoint that pushed it, although the receiver does not look for duplicates.
THEOREM CopiesAreBounded == Spec => []CopiesBounded
<1>1. Init => CopiesInv
  <2> SUFFICES ASSUME Init PROVE CopiesInv
    OBVIOUS
  <2>1. TypeOK
    BY InitType
  <2> SUFFICES ASSUME NEW e \in Endpoints, NEW p \in Payloads
               PROVE  IsFiniteSet(OnTheWire(e, p)) /\ Copies(e, p) + Cardinality(OnTheWire(e, p)) <= Bound(e, p)
    BY TruthInit DEF CopiesInv, Accounted
  <2>2. OnTheWire(e, p) = {}
    BY DEF Init, OnTheWire, Command
  <2>3. Copies(e, p) = 0
    <3>1. <<p, TRUE>> \in Arrivals /\ <<p, FALSE>> \in Arrivals
      BY DEF Arrivals
    <3>2. Copies(e, p) = 0 + 0 + 0 + 0
      BY <3>1 DEF Copies, Init
    <3> QED BY <3>2
  <2> QED BY <2>1, <2>2, <2>3, CopiesType, FS_EmptySet
<1>2. CopiesInv => CopiesBounded
  <2> SUFFICES ASSUME CopiesInv, NEW e \in Endpoints, NEW p \in Payloads PROVE Copies(e, p) <= Bound(e, p)
    BY DEF CopiesBounded, Bound
  <2>1. IsFiniteSet(OnTheWire(e, p)) /\ Copies(e, p) + Cardinality(OnTheWire(e, p)) <= Bound(e, p)
    BY DEF CopiesInv, Accounted
  <2>2. Copies(e, p) \in Nat /\ Bound(e, p) \in Nat
    BY CopiesType DEF CopiesInv, TruthInv, HomeInv
  <2>3. Cardinality(OnTheWire(e, p)) \in Nat
    BY <2>1, FS_CardinalityType
  <2> QED BY <2>1, <2>2, <2>3
<1>3. Spec => []TruthInv
  BY TruthInit, TruthNext, PTL DEF Spec
<1> QED BY <1>1, <1>2, <1>3, CopiesNext, PTL DEF Spec
=============================================================================

-------------------------- MODULE UDPServer_proofs --------------------------
(***************************************************************************)
(* Theorems about UDPServer: its types, that recycling a slot forgets what *)
(* was queued in it, and the bound on what a reuse lets through.           *)
(***************************************************************************)
EXTENDS UDPServer, FiniteSetTheorems, TLAPS

----------------------------------------------------------------------------
\* Types

\* Where the threads are: what they point at is a slot of Clients, the one being accepted
\* is closed, and what is not yet a slot is blank.
Places ==
    /\ busy # Free => busy.slot \in 1..size
    /\ todo \subseteq 1..size
    /\ \A i \in Slots : i > size => slot[i] = Blank /\ batch[i] = {}
    /\ ~MutexFree => accepting.slot \in 1..(size + 1) /\ accepting.slot \in Slots
                     /\ accepting.for \in Clients

\* What the update thread holds.
Held ==
    /\ busy.step = "free" => busy = Free
    /\ busy.step \in {"peeked", "read"} => busy.d \in Command
    /\ busy.step = "read" => busy.d.cmd = "PAYLOAD"

TypeInv == TypeOK /\ Places /\ Held

LEMMA SlotsFacts == Slots \subseteq Nat /\ 0 \notin Slots /\ \A i \in Slots : i <= MaxSlots
BY ServerAssumption DEF Slots

LEMMA BlankType == Blank \in Connection /\ NoCommand \notin Command
BY ServerAssumption DEF Blank, Connection, Sockets, NoCommand, Command

LEMMA InitTypeInv == Init => TypeInv
<1> SUFFICES ASSUME Init PROVE TypeInv
  OBVIOUS
<1>1. TypeOK
  BY BlankType, ServerAssumption
  DEF Init, TypeOK, Free, NoCommand, NoAccept, Sockets
<1>2. Places
  BY DEF Init, Places, MutexFree
<1>3. Held
  BY DEF Init, Held, Free
<1> QED BY <1>1, <1>2, <1>3 DEF TypeInv

\* The end of the handling of a command.
LEMMA FinishType ==
    ASSUME TypeInv, NEW s \in Connection, busy.slot \in 1..size, Finish(s),
           todo' \subseteq todo
    PROVE  TypeInv'
<1>1. /\ busy' = Free /\ slot' = [slot EXCEPT ![busy.slot] = s]
      /\ UNCHANGED <<now, size, sockets, accepting, batch, client, home, says, got, calls, mail,
                     dups, reused, strange>>
  BY DEF Finish, clientVars, historyVars
<1>2. inbox' \subseteq inbox
  BY DEF Finish, Consume
<1>3. /\ slot' \in [Slots -> Connection]
      /\ \A i \in Slots : i # busy.slot => slot'[i] = slot[i]
  BY <1>1 DEF TypeInv, TypeOK
<1>4. TypeOK'
  <2>1. busy' \in [slot: 0..MaxSlots, step: {"free", "broken", "peeked", "read"},
                   d: Command \cup {NoCommand}]
    BY <1>1, ServerAssumption DEF Free
  <2> QED BY <1>1, <1>2, <1>3, <2>1 DEF TypeInv, TypeOK
<1>5. Places'
  BY <1>1, <1>3 DEF TypeInv, TypeOK, Places, MutexFree
<1>6. Held'
  BY <1>1 DEF Held, Free
<1> QED BY <1>4, <1>5, <1>6 DEF TypeInv

\* A step of a client or of the network leaves the server where it is.
LEMMA ElsewhereType ==
    ASSUME TypeInv, UNCHANGED <<serverVars, historyVars>>,
           client' \in [Clients -> {"off", "calling", "idle", "left"}],
           home' \in [Clients -> Sockets], says' \in [Clients -> 0..MaxSays],
           got' \in [Clients -> SUBSET Payloads],
           calls' \subseteq Clients, inbox' \subseteq Command, mail' \subseteq Letter, dups' \in Nat
    PROVE  TypeInv'
<1>1. UNCHANGED <<now, size, slot, sockets, accepting, todo, busy, batch, reused, strange>>
  BY DEF serverVars, historyVars
<1>2. TypeOK'
  BY <1>1 DEF TypeInv, TypeOK
<1>3. Places' /\ Held'
  BY <1>1 DEF TypeInv, Places, Held, MutexFree
<1> QED BY <1>2, <1>3 DEF TypeInv

LEMMA ClientsType ==
    ASSUME TypeInv, NEW c \in Clients,
           Call(c) \/ Answer(c) \/ GiveUp(c) \/ Say(c) \/ Hear(c) \/ Leave(c) \/ DropCall(c)
    PROVE  TypeInv'
<1> USE DEF TypeInv, TypeOK
<1>1. CASE Call(c)
  BY <1>1, ElsewhereType DEF Call, serverVars, historyVars
<1>2. CASE Answer(c)
  <2>1. PICK m \in mail : /\ home' = [home EXCEPT ![c] = m.sock] /\ mail' = mail \ {m}
                          /\ inbox' = inbox \cup {[sock |-> m.sock, from |-> c, cmd |-> "CONNECT",
                                                   n |-> 0]}
    BY <1>2 DEF Answer
  <2>2. m.sock \in Sockets
    BY <2>1 DEF Letter
  <2>3. inbox' \subseteq Command /\ home' \in [Clients -> Sockets] /\ mail' \subseteq Letter
    BY <2>1, <2>2 DEF Command
  <2> QED BY <1>2, <2>3, ElsewhereType DEF Answer, serverVars, historyVars
<1>3. CASE GiveUp(c)
  BY <1>3, ElsewhereType DEF GiveUp, serverVars, historyVars, netVars
<1>4. CASE Say(c)
  <2>1. says[c] + 1 \in 1..MaxSays /\ home[c] \in Sockets
    BY <1>4, ServerAssumption DEF Say
  <2>2. inbox' \subseteq Command /\ says' \in [Clients -> 0..MaxSays]
    BY <1>4, <2>1, ServerAssumption DEF Say, Command
  <2> QED BY <1>4, <2>2, ElsewhereType DEF Say, serverVars, historyVars
<1>5. CASE Hear(c)
  <2>1. PICK m \in mail : mail' = mail \ {m} /\ got' = [got EXCEPT ![c] = @ \cup m.answer]
    BY <1>5 DEF Hear
  <2>2. m.answer \subseteq Payloads
    BY <2>1 DEF Letter
  <2>3. got' \in [Clients -> SUBSET Payloads] /\ mail' \subseteq Letter
    BY <2>1, <2>2
  <2> QED BY <1>5, <2>3, ElsewhereType DEF Hear, serverVars, historyVars
<1>6. CASE Leave(c)
  <2>1. inbox' \subseteq Command
    BY <1>6 DEF Leave, Command
  <2> QED BY <1>6, <2>1, ElsewhereType DEF Leave, serverVars, historyVars
<1>7. CASE DropCall(c)
  BY <1>7, ElsewhereType DEF DropCall, clientVars, serverVars, historyVars
<1> QED BY <1>1, <1>2, <1>3, <1>4, <1>5, <1>6, <1>7

LEMMA DropType == ASSUME TypeInv, Drop PROVE TypeInv'
BY ElsewhereType DEF Drop, TypeInv, TypeOK, clientVars

LEMMA TickType == ASSUME TypeInv, Tick PROVE TypeInv'
<1>1. now' \in 0..MaxTime
  BY ServerAssumption DEF Tick, TypeInv, TypeOK
<1>2. TypeOK'
  BY <1>1 DEF Tick, TypeInv, TypeOK, clientVars, netVars, historyVars
<1>3. Places' /\ Held'
  BY DEF Tick, TypeInv, Places, Held, MutexFree
<1> QED BY <1>2, <1>3 DEF TypeInv

----------------------------------------------------------------------------
\* The listen thread

LEMMA RecycledType == ASSUME NEW s \in Connection PROVE Recycled(s) \in Connection
BY BlankType DEF Recycled, Connection, Blank

LEMMA AcceptBeginType ==
    ASSUME TypeInv, NEW c \in Clients, AcceptBegin(c) PROVE TypeInv'
<1>1. /\ UNCHANGED <<now, size, sockets, todo, busy, batch, inbox, mail, client, home, says, got,
                    reused, strange>>
      /\ calls' \subseteq Clients /\ dups' \in Nat
  BY ServerAssumption DEF AcceptBegin, TypeInv, TypeOK, clientVars, historyVars
<1>2. /\ slot' \in [Slots -> Connection]
      /\ accepting' \in [slot: 0..MaxSlots, for: Clients \cup {None}]
      /\ accepting'.slot \in 1..(size + 1) /\ accepting'.slot \in Slots /\ accepting'.for \in Clients
      /\ \A i \in Slots : i > size => slot'[i] = slot[i]
  <2>1. CASE \E i \in Slots : /\ FirstRecyclable(i)
                              /\ accepting' = [slot |-> i, for |-> c]
                              /\ slot' = [slot EXCEPT ![i] = Recycled(@)]
    <3>1. PICK i \in Slots : /\ FirstRecyclable(i)
                             /\ accepting' = [slot |-> i, for |-> c]
                             /\ slot' = [slot EXCEPT ![i] = Recycled(@)]
      BY <2>1
    <3>2. i \in 1..size /\ slot[i] \in Connection
      BY <3>1 DEF FirstRecyclable, TypeInv, TypeOK
    <3>3. Recycled(slot[i]) \in Connection
      BY <3>2, RecycledType
    <3> QED BY <3>1, <3>2, <3>3, ServerAssumption DEF TypeInv, TypeOK, Slots
  <2>2. CASE size < MaxSlots /\ accepting' = [slot |-> size + 1, for |-> c] /\ slot' = slot
    BY <2>2, ServerAssumption DEF TypeInv, TypeOK, Slots
  <2> QED BY <2>1, <2>2 DEF AcceptBegin
<1>3. TypeOK'
  BY <1>1, <1>2 DEF TypeInv, TypeOK
<1>4. Places'
  BY <1>1, <1>2 DEF TypeInv, Places
<1>5. Held'
  BY <1>1 DEF TypeInv, Held
<1> QED BY <1>3, <1>4, <1>5 DEF TypeInv

LEMMA AcceptEndType == ASSUME TypeInv, AcceptEnd PROVE TypeInv'
<1> DEFINE a == accepting.slot
<1>1. /\ UNCHANGED <<now, todo, busy, batch, client, home, says, got, calls, inbox, mail, dups,
                    strange>>
      /\ accepting' = NoAccept /\ sockets' = sockets + 1
      /\ size' = (IF a > size THEN a ELSE size)
      /\ reused' = IF a > size THEN reused ELSE reused + 1
      /\ slot' = [slot EXCEPT ![a] = [slot[a] EXCEPT !.addr = accepting.for, !.state = "HANDSHAKE",
                                         !.sock = sockets + 1, !.ping = now, !.hello = TRUE]]
  BY DEF AcceptEnd, SizeAfter, clientVars, netVars
<1>2. a \in 1..(size + 1) /\ a \in Slots /\ accepting.for \in Clients
  BY DEF AcceptEnd, TypeInv, Places
<1>3. slot[a] \in Connection /\ slot \in [Slots -> Connection] /\ now \in 0..MaxTime
  BY <1>2 DEF TypeInv, TypeOK
<1>4. [slot[a] EXCEPT !.addr = accepting.for, !.state = "HANDSHAKE",
                      !.sock = sockets + 1, !.ping = now, !.hello = TRUE] \in Connection
  <2>1. sockets + 1 \in Sockets
    BY DEF Sockets, TypeInv, TypeOK
  <2> QED BY <1>2, <1>3, <2>1 DEF Connection
<1>5. slot' \in [Slots -> Connection] /\ \A i \in Slots : i # a => slot'[i] = slot[i]
  BY <1>1, <1>3, <1>4
<1>6. /\ size' \in 0..MaxSlots /\ size <= size' /\ a <= size'
      /\ reused' \in Nat /\ sockets' \in Nat
  <2>1. size \in 0..MaxSlots /\ reused \in Nat /\ sockets \in Nat /\ MaxSlots \in Nat
    BY ServerAssumption DEF TypeInv, TypeOK, Sockets
  <2>2. a \in 1..MaxSlots
    BY <1>2 DEF Slots
  <2>3. size' \in 0..MaxSlots /\ size <= size' /\ a <= size'
    <3> HIDE DEF a
    <3> QED BY <1>1, <2>1, <2>2
  <2>4. reused' \in Nat
    <3> HIDE DEF a
    <3> QED BY <1>1, <2>1
  <2>5. sockets' \in Nat
    BY <1>1, <2>1
  <2> QED BY <2>3, <2>4, <2>5
<1>7. TypeOK'
  <2>1. NoAccept \in [slot: 0..MaxSlots, for: Clients \cup {None}]
    BY ServerAssumption DEF NoAccept
  <2> QED BY <1>1, <1>5, <1>6, <2>1 DEF TypeInv, TypeOK
<1>8. Places'
  <2> HIDE DEF a
  <2>1. size \in Nat /\ size' \in Nat /\ a \in Nat /\ Slots \subseteq Nat
    BY <1>6, <1>2, SlotsFacts, ServerAssumption DEF TypeInv, TypeOK
  <2>2. (busy # Free => busy.slot \in 1..size) /\ todo \subseteq 1..size
    BY DEF TypeInv, Places
  <2>3. 1..size \subseteq 1..size'
    BY <2>1, <1>6
  <2>4. ASSUME NEW i \in Slots, i > size' PROVE slot'[i] = Blank /\ batch'[i] = {}
    BY <2>1, <2>4, <1>1, <1>5, <1>6 DEF TypeInv, Places
  <2> QED BY <2>2, <2>3, <2>4, <1>1 DEF Places, MutexFree
<1>9. Held'
  BY <1>1 DEF TypeInv, Held
<1> QED BY <1>7, <1>8, <1>9 DEF TypeInv

LEMMA AcceptFailType == ASSUME TypeInv, AcceptFail PROVE TypeInv'
<1> DEFINE a == accepting.slot
<1>1. /\ UNCHANGED <<now, size, sockets, todo, busy, batch, client, home, says, got, calls, inbox,
                    mail, dups, strange>>
      /\ accepting' = NoAccept /\ reused' \in Nat
      /\ slot' = IF a > size THEN slot
                 ELSE [slot EXCEPT ![a] = [slot[a] EXCEPT !.addr = accepting.for, !.ping = now,
                                                         !.hello = TRUE]]
  BY DEF AcceptFail, clientVars, netVars, TypeInv, TypeOK
<1>2. a \in Slots /\ accepting.for \in Clients /\ slot[a] \in Connection
  BY DEF AcceptFail, TypeInv, TypeOK, Places
<1>3. [slot[a] EXCEPT !.addr = accepting.for, !.ping = now, !.hello = TRUE] \in Connection
  BY <1>2 DEF Connection, TypeInv, TypeOK
<1>4. slot' \in [Slots -> Connection] /\ \A i \in Slots : i > size => slot'[i] = slot[i]
  BY <1>1, <1>2, <1>3 DEF TypeInv, TypeOK
<1>5. TypeOK'
  <2>1. NoAccept \in [slot: 0..MaxSlots, for: Clients \cup {None}]
    BY ServerAssumption DEF NoAccept
  <2> QED BY <1>1, <1>4, <2>1 DEF TypeInv, TypeOK
<1>6. Places' /\ Held'
  BY <1>1, <1>4 DEF TypeInv, Places, Held, MutexFree
<1> QED BY <1>5, <1>6 DEF TypeInv

----------------------------------------------------------------------------
\* The update thread

LEMMA TurnType == ASSUME TypeInv, Turn PROVE TypeInv'
<1>1. /\ UNCHANGED <<now, size, sockets, accepting, busy, batch, client, home, says, got, calls,
                    inbox, dups, reused, strange>>
      /\ todo' = Connected /\ Connected \subseteq 1..size /\ Connected \subseteq Slots
      /\ mail' = mail \cup UNION {Letters(i) : i \in Connected}
      /\ slot' = [i \in Slots |-> IF i \in Connected
                                  THEN [slot[i] EXCEPT !.hello = FALSE, !.send = {}] ELSE slot[i]]
  <2>1. Connected \subseteq 1..size
    BY DEF Connected
  <2>2. 1..size \subseteq Slots
    BY ServerAssumption DEF Slots, TypeInv, TypeOK
  <2>3. Connected \subseteq Slots
    BY <2>1, <2>2
  <2>4. Turn
    OBVIOUS
  <2>5. todo' = Connected
    BY <2>4 DEF Turn
  <2> QED BY <2>1, <2>3, <2>4, <2>5, Zenon DEF Turn, clientVars, historyVars
<1>2. slot' \in [Slots -> Connection]
  <2>1. ASSUME NEW i \in Slots PROVE slot'[i] \in Connection
    <3>1. slot[i] \in Connection
      BY DEF TypeInv, TypeOK
    <3>2. [slot[i] EXCEPT !.hello = FALSE, !.send = {}] \in Connection
      BY <3>1 DEF Connection
    <3> QED BY <1>1, <3>1, <3>2
  <2> QED BY <1>1, <2>1
<1>3. mail' \subseteq Letter
  <2>1. ASSUME NEW i \in Connected PROVE Letters(i) \subseteq Letter
    <3> DEFINE To == slot[i].addr
               Socket == slot[i].sock
               Send == slot[i].send
    <3>1. slot[i] \in Connection
      BY <1>1 DEF TypeInv, TypeOK
    <3>2. /\ To \in Clients \cup {None} /\ Socket \in Sockets
          /\ \A m \in Send : m.payload \in Payloads
      BY <3>1 DEF Connection
    <3>3. Letters(i) \subseteq {[to |-> To, sock |-> Socket, answer |-> {m.payload}] : m \in Send}
                            \cup {[to |-> To, sock |-> Socket, answer |-> {}]}
      BY DEF Letters
    <3> HIDE DEF To, Socket, Send
    <3>4. [to |-> To, sock |-> Socket, answer |-> {}] \in Letter
      BY <3>2 DEF Letter
    <3>5. ASSUME NEW m \in Send
          PROVE  [to |-> To, sock |-> Socket, answer |-> {m.payload}] \in Letter
      BY <3>2 DEF Letter
    <3> QED BY <3>3, <3>4, <3>5
  <2>2. UNION {Letters(i) : i \in Connected} \subseteq Letter
    BY <2>1
  <2>3. mail \subseteq Letter
    BY DEF TypeInv, TypeOK
  <2> QED BY <1>1, <2>2, <2>3
<1>4. TypeOK'
  BY <1>1, <1>2, <1>3 DEF TypeInv, TypeOK
<1>5. Places'
  <2>1. ASSUME NEW i \in Slots, i > size PROVE i \notin Connected
    BY <2>1, SlotsFacts, ServerAssumption DEF Connected, TypeInv, TypeOK
  <2> QED BY <1>1, <2>1 DEF TypeInv, Places, MutexFree
<1>6. Held'
  BY <1>1 DEF TypeInv, Held
<1> QED BY <1>4, <1>5, <1>6 DEF TypeInv

LEMMA LooksType == ASSUME TypeInv, NEW i \in Slots, Peek(i) \/ Done(i) PROVE TypeInv'
<1>1. CASE Peek(i)
  <2>1. UNCHANGED <<now, size, slot, sockets, accepting, todo, batch, client, home, says, got, calls,
                    inbox, mail, dups, reused, strange>>
    BY <1>1 DEF Peek, clientVars, netVars, historyVars
  <2>2. i \in 1..size /\ i \in 0..MaxSlots
    BY <1>1, ServerAssumption DEF Peek, TypeInv, Places, TypeOK, Slots
  <2>3. \/ busy' = [slot |-> i, step |-> "broken", d |-> NoCommand]
        \/ \E d \in Command : busy' = [slot |-> i, step |-> "peeked", d |-> d]
    BY <1>1 DEF Peek, TypeInv, TypeOK
  <2>4. TypeOK'
    BY <2>1, <2>2, <2>3 DEF TypeInv, TypeOK
  <2>5. Places' /\ Held'
    BY <2>1, <2>2, <2>3 DEF TypeInv, Places, Held, MutexFree
  <2> QED BY <2>4, <2>5 DEF TypeInv
<1>2. CASE Done(i)
  <2>1. /\ UNCHANGED <<now, size, slot, sockets, accepting, busy, batch, client, home, says, got,
                      calls, inbox, mail, dups, reused, strange>>
        /\ todo' \subseteq todo
    BY <1>2 DEF Done, clientVars, netVars, historyVars
  <2>2. TypeOK'
    BY <2>1 DEF TypeInv, TypeOK
  <2>3. Places' /\ Held'
    BY <2>1 DEF TypeInv, Places, Held, MutexFree
  <2> QED BY <2>2, <2>3 DEF TypeInv
<1> QED BY <1>1, <1>2

\* The slot whose command is being handled.
LEMMA BusySlot ==
    ASSUME TypeInv, busy.step # "free"
    PROVE  busy.slot \in 1..size /\ busy.slot \in Slots /\ slot[busy.slot] \in Connection
<1>1. busy # Free
  BY DEF Free
<1>2. busy.slot \in 1..size
  BY <1>1 DEF TypeInv, Places
<1>3. busy.slot \in Slots
  BY <1>2, ServerAssumption DEF TypeInv, TypeOK, Slots
<1> QED BY <1>2, <1>3 DEF TypeInv, TypeOK

\* What the handling of a command leaves in its slot.
LEMMA FinishSteps ==
    ASSUME TypeInv, Disconnect \/ HandleCONNECT \/ HandleDISCONNECT \/ Deliver
                    \/ (ReadPayload /\ slot[busy.slot].state # "IDLE")
    PROVE  \E s \in Connection :
              /\ Finish(s) /\ todo' \subseteq todo /\ busy.slot \in 1..size
              /\ s.addr = slot[busy.slot].addr /\ s.send = slot[busy.slot].send
              /\ s.sock \in {0, slot[busy.slot].sock}
              /\ slot[busy.slot].state = "DISCONNECTED"
                    => s.state = "DISCONNECTED" /\ s.sock = slot[busy.slot].sock
              /\ s.received = slot[busy.slot].received
                 \/ /\ busy.step = "read"
                    /\ s.received = slot[busy.slot].received \cup {<<busy.d.from, busy.d.n>>}
                 
<1> DEFINE b == slot[busy.slot]
<1>1. busy.step # "free" /\ now \in 0..MaxTime
  BY DEF Disconnect, HandleCONNECT, HandleDISCONNECT, Deliver, ReadPayload, TypeInv, TypeOK
<1>2. busy.slot \in 1..size /\ b \in Connection
  BY <1>1, BusySlot
<1>3. CASE Disconnect
  <2>1. [b EXCEPT !.state = "DISCONNECTED"] \in Connection
    BY <1>2 DEF Connection
  <2> QED BY <1>2, <1>3, <2>1 DEF Disconnect, Connection
<1>4. CASE HandleCONNECT
  <2>1. [b EXCEPT !.state = "IDLE", !.ping = now] \in Connection
    BY <1>1, <1>2 DEF Connection
  <2>2. CASE b.state = "HANDSHAKE"
    BY <1>2, <1>4, <2>1, <2>2 DEF HandleCONNECT, Connection
  <2>3. CASE b.state # "HANDSHAKE"
    BY <1>2, <1>4, <2>3 DEF HandleCONNECT
  <2> QED BY <2>2, <2>3
<1>5. CASE HandleDISCONNECT
  <2>1. [b EXCEPT !.state = "DISCONNECTED", !.sock = 0, !.keyed = FALSE, !.ping = now] \in Connection
    BY <1>1, <1>2 DEF Connection, Sockets
  <2>2. CASE b.state = "IDLE"
    BY <1>2, <1>5, <2>1, <2>2 DEF HandleDISCONNECT, Connection
  <2>3. CASE b.state # "IDLE"
    BY <1>2, <1>5, <2>3 DEF HandleDISCONNECT
  <2> QED BY <2>2, <2>3
<1>6. CASE Deliver
  <2>1. <<busy.d.from, busy.d.n>> \in Payloads
    <3>1. busy.d \in Command /\ busy.d.cmd = "PAYLOAD"
      BY <1>6 DEF Deliver, TypeInv, Held
    <3> QED BY <3>1 DEF Command, Payloads
  <2>2. CASE Finish([b EXCEPT !.keyed = TRUE, !.ping = now,
                             !.received = @ \cup {<<busy.d.from, busy.d.n>>}])
    <3>1. [b EXCEPT !.keyed = TRUE, !.ping = now,
                    !.received = b.received \cup {<<busy.d.from, busy.d.n>>}] \in Connection
      BY <1>1, <1>2, <2>1 DEF Connection
    <3> QED BY <1>2, <1>6, <2>2, <3>1 DEF Deliver, Connection
  <2>3. CASE \E keyed \in {b.keyed, TRUE} : Finish([b EXCEPT !.keyed = keyed])
    <3>1. PICK keyed \in {b.keyed, TRUE} : Finish([b EXCEPT !.keyed = keyed])
      BY <2>3
    <3>2. [b EXCEPT !.keyed = keyed] \in Connection
      BY <1>2, <3>1 DEF Connection
    <3> QED BY <1>2, <1>6, <3>1, <3>2 DEF Deliver, Connection
  <2> QED BY <1>6, <2>2, <2>3 DEF Deliver
<1>7. CASE ReadPayload /\ b.state # "IDLE"
  BY <1>2, <1>7 DEF ReadPayload
<1> QED BY <1>3, <1>4, <1>5, <1>6, <1>7

LEMMA UpdateType == ASSUME TypeInv, Update PROVE TypeInv'
<1>1. CASE Turn
  BY <1>1, TurnType
<1>2. CASE \E i \in Slots : Peek(i) \/ Done(i)
  BY <1>2, LooksType
<1>3. CASE Disconnect \/ HandleCONNECT \/ HandleDISCONNECT \/ Deliver
           \/ (ReadPayload /\ slot[busy.slot].state # "IDLE")
  BY <1>3, FinishSteps, FinishType
<1>4. CASE ReadPayload /\ slot[busy.slot].state = "IDLE"
  <2>1. /\ UNCHANGED <<now, size, slot, sockets, accepting, todo, batch, client, home, says, got,
                      calls, inbox, mail, dups, reused, strange>>
        /\ busy.step = "peeked" /\ busy.d.cmd = "PAYLOAD" /\ busy' = [busy EXCEPT !.step = "read"]
    BY <1>4 DEF ReadPayload, clientVars, netVars, historyVars
  <2>2. /\ busy.slot \in 1..size /\ busy.d \in Command
        /\ busy' = [slot |-> busy.slot, step |-> "read", d |-> busy.d]
    BY <2>1, BusySlot DEF TypeInv, TypeOK, Held
  <2>3. TypeOK'
    BY <2>1, <2>2, ServerAssumption DEF TypeInv, TypeOK
  <2>4. Places' /\ Held'
    BY <2>1, <2>2 DEF TypeInv, Places, Held, MutexFree
  <2> QED BY <2>3, <2>4 DEF TypeInv
<1> QED BY <1>1, <1>2, <1>3, <1>4 DEF Update

----------------------------------------------------------------------------
\* The application

LEMMA PayloadsFinite ==
    /\ IsFiniteSet(Slots \X Payloads)
    /\ \A S : S \subseteq Slots \X Payloads => IsFiniteSet(S) /\ Cardinality(S) \in Nat
<1>1. IsFiniteSet(Slots) /\ IsFiniteSet(1..MaxSays)
  BY FS_Interval, ServerAssumption DEF Slots
<1>2. IsFiniteSet(Payloads)
  BY <1>1, FS_Product, ServerAssumption DEF Payloads
<1>3. IsFiniteSet(Slots \X Payloads)
  BY <1>1, <1>2, FS_Product
<1>4. ASSUME NEW S, S \subseteq Slots \X Payloads
      PROVE  IsFiniteSet(S) /\ Cardinality(S) \in Nat
  BY <1>3, <1>4, FS_Subset, FS_CardinalityType
<1> QED BY <1>3, <1>4

LEMMA CollectType == ASSUME TypeInv, Collect PROVE TypeInv'
<1> DEFINE taken == {x \in Strangers : x[2] \in Collectable(x[1])}
<1>1. /\ UNCHANGED <<now, size, sockets, accepting, todo, busy, client, home, says, got, calls,
                    inbox, mail, dups, reused>>
      /\ batch' = [i \in Slots |-> Collectable(i)]
      /\ slot' = [i \in Slots |-> [slot[i] EXCEPT !.received = @ \ Collectable(i)]]
      /\ strange' = strange + Cardinality(taken)
  BY DEF Collect, clientVars, netVars
<1>2. Cardinality(taken) \in Nat
  <2>1. taken \subseteq Slots \X Payloads
    BY DEF Strangers
  <2> HIDE DEF taken
  <2> QED BY <2>1, PayloadsFinite
<1>3. strange' \in Nat
  <2> HIDE DEF taken
  <2> QED BY <1>1, <1>2 DEF TypeInv, TypeOK
<1>4. ASSUME NEW i \in Slots
      PROVE  /\ slot'[i] \in Connection /\ batch'[i] \subseteq Payloads
             /\ i > size => slot'[i] = slot[i] /\ batch'[i] = {}
  <2>1. slot[i] \in Connection
    BY DEF TypeInv, TypeOK
  <2>2. Collectable(i) \subseteq Payloads /\ (i > size => Collectable(i) = {})
    BY <2>1, SlotsFacts, ServerAssumption DEF Collectable, Connection, TypeInv, TypeOK
  <2>3. [slot[i] EXCEPT !.received = @ \ Collectable(i)] \in Connection
    BY <2>1, <2>2 DEF Connection
  <2>4. i > size => [slot[i] EXCEPT !.received = @ \ Collectable(i)] = slot[i]
    BY <2>1, <2>2 DEF Connection
  <2> QED BY <1>1, <2>2, <2>3, <2>4
<1>5. slot' \in [Slots -> Connection] /\ batch' \in [Slots -> SUBSET Payloads]
  BY <1>1, <1>4
<1>6. TypeOK'
  BY <1>1, <1>3, <1>5 DEF TypeInv, TypeOK
<1>7. Places' /\ Held'
  BY <1>1, <1>4 DEF TypeInv, Places, Held, MutexFree
<1> QED BY <1>6, <1>7 DEF TypeInv

\* An answer changes the queue of its slot.
LEMMA AnsweredFacts ==
    ASSUME NEW s \in Connection, NEW S \in SUBSET Payloads
    PROVE  /\ Answered(s, S) \in Connection
           /\ Answered(s, S).send = s.send \cup {[payload |-> p, sock |-> s.sock] : p \in S}
           /\ Answered(s, S).addr = s.addr /\ Answered(s, S).sock = s.sock
           /\ Answered(s, S).state = s.state /\ Answered(s, S).received = s.received
<1> DEFINE Send == s.send \cup {[payload |-> p, sock |-> s.sock] : p \in S}
           Keyed == IF S = {} THEN s.keyed ELSE TRUE
<1>1. s.sock \in Sockets /\ s.send \subseteq [payload : Payloads, sock : Sockets]
      /\ s.keyed \in BOOLEAN
  BY DEF Connection
<1>2. Send \subseteq [payload : Payloads, sock : Sockets] /\ Keyed \in BOOLEAN
  <2>1. {[payload |-> p, sock |-> s.sock] : p \in S} \subseteq [payload : Payloads, sock : Sockets]
    BY <1>1
  <2>2. Keyed \in BOOLEAN
    BY <1>1, Zenon
  <2> QED BY <1>1, <2>1, <2>2
<1>3. Answered(s, S) = [s EXCEPT !.send = Send, !.keyed = Keyed]
  BY DEF Answered
<1> HIDE DEF Send, Keyed
<1>4. [s EXCEPT !.send = Send, !.keyed = Keyed] \in Connection
  BY <1>2 DEF Connection
<1>5. Answered(s, S).send = Send
  BY <1>3 DEF Connection
<1> QED BY <1>3, <1>4, <1>5 DEF Connection, Send

LEMMA ReplySteps ==
    ASSUME TypeInv, NEW i \in Slots, Reply(i)
    PROVE  \E S \in SUBSET Payloads :
              /\ UNCHANGED <<now, size, sockets, accepting, todo, busy, client, home, says, got,
                            calls, inbox, mail, dups, reused, strange>>
              /\ i <= size /\ slot[i] \in Connection
              /\ slot' = [slot EXCEPT ![i] = Answered(slot[i], S)]
              /\ batch' = [batch EXCEPT ![i] = {}]
<1>1. PICK S \in SUBSET batch[i] : slot' = [slot EXCEPT ![i] = Answered(slot[i], S)]
  BY DEF Reply
<1>2. slot[i] \in Connection /\ S \in SUBSET Payloads
  BY DEF TypeInv, TypeOK
<1>3. i <= size
  BY SlotsFacts, ServerAssumption DEF Reply, TypeInv, TypeOK, Places
<1> QED BY <1>1, <1>2, <1>3 DEF Reply, clientVars, netVars, historyVars

LEMMA ReplyType == ASSUME TypeInv, NEW i \in Slots, Reply(i) PROVE TypeInv'
<1>1. PICK S \in SUBSET Payloads :
         /\ UNCHANGED <<now, size, sockets, accepting, todo, busy, client, home, says, got,
                       calls, inbox, mail, dups, reused, strange>>
         /\ i <= size /\ slot[i] \in Connection
         /\ slot' = [slot EXCEPT ![i] = Answered(slot[i], S)]
         /\ batch' = [batch EXCEPT ![i] = {}]
  BY ReplySteps
<1>2. Answered(slot[i], S) \in Connection
  BY <1>1, AnsweredFacts
<1>3. slot' \in [Slots -> Connection] /\ \A j \in Slots : j # i => slot'[j] = slot[j]
  BY <1>1, <1>2 DEF TypeInv, TypeOK
<1>4. /\ batch' \in [Slots -> SUBSET Payloads]
      /\ \A j \in Slots : j # i => batch'[j] = batch[j]
  BY <1>1 DEF TypeInv, TypeOK
<1>5. TypeOK'
  BY <1>1, <1>3, <1>4 DEF TypeInv, TypeOK
<1>6. Places'
  <2>1. ASSUME NEW j \in Slots, j > size PROVE j # i
    BY <1>1, <2>1, SlotsFacts, ServerAssumption DEF TypeInv, TypeOK
  <2> QED BY <1>1, <1>3, <1>4, <2>1 DEF TypeInv, Places, MutexFree
<1>7. Held'
  BY <1>1 DEF TypeInv, Held
<1> QED BY <1>5, <1>6, <1>7 DEF TypeInv

\* Every step of the server, the clients and the network keeps the types and the places.
LEMMA TypeStep == TypeInv /\ [Next]_vars => TypeInv'
<1> SUFFICES ASSUME TypeInv, [Next]_vars PROVE TypeInv'
  OBVIOUS
<1>1. CASE UNCHANGED vars
  <2>1. UNCHANGED <<serverVars, historyVars>>
    BY <1>1 DEF vars
  <2>2. UNCHANGED <<client, home, says, got, calls, inbox, mail, dups>>
    BY <1>1 DEF vars, clientVars, netVars
  <2> QED BY <2>1, <2>2, ElsewhereType DEF TypeInv, TypeOK
<1>2. CASE Next
  <2>1. ASSUME NEW c \in Clients,
               \/ Call(c) \/ Answer(c) \/ GiveUp(c) \/ Say(c) \/ Hear(c) \/ Leave(c)
               \/ AcceptBegin(c) \/ DropCall(c)
        PROVE  TypeInv'
    BY <2>1, ClientsType, AcceptBeginType
  <2>2. ASSUME NEW i \in Slots, Reply(i) PROVE TypeInv'
    BY <2>2, ReplyType
  <2> QED BY <1>2, <2>1, <2>2, AcceptEndType, AcceptFailType, UpdateType, CollectType, DropType,
             TickType DEF Next
<1> QED BY <1>1, <1>2

\* The variables keep their types, however the threads interleave and whatever the network
\* does: no thread holds the index of a slot that does not exist.
THEOREM TypeCorrect == Spec => []TypeOK
<1>1. Init => TypeInv
  BY InitTypeInv
<1>2. TypeInv /\ [Next]_vars => TypeInv'
  BY TypeStep
<1>3. TypeInv => TypeOK
  BY DEF TypeInv
<1> QED BY <1>1, <1>2, <1>3, PTL DEF Spec

LEMMA TypeInvHolds == Spec => []TypeInv
<1> QED BY InitTypeInv, TypeStep, PTL DEF Spec

----------------------------------------------------------------------------
\* What recycling forgets

\* The slot being accepted is closed, and what was pushed to it meanwhile says so.
Window ==
    ~MutexFree => /\ slot[accepting.slot].state = "DISCONNECTED"
                  /\ slot[accepting.slot].sock = 0
                  /\ \A m \in slot[accepting.slot].send : m.sock = 0

FreshInv == TypeInv /\ Window /\ QueueIsFresh

\* The steps that matter to the slots.
Handles == \/ Disconnect \/ HandleCONNECT \/ HandleDISCONNECT \/ Deliver
           \/ (ReadPayload /\ slot[busy.slot].state # "IDLE")
Reads == ReadPayload /\ slot[busy.slot].state = "IDLE"

LEMMA StepCases ==
    ASSUME [Next]_vars
    PROVE  \/ UNCHANGED <<slot, accepting, size, busy, reused, strange>>
           \/ (\E i \in Slots : Peek(i)) \/ Reads
           \/ (\E c \in Clients : AcceptBegin(c)) \/ AcceptEnd \/ AcceptFail
           \/ Turn \/ Handles \/ Collect \/ \E i \in Slots : Reply(i)
<1>1. CASE UNCHANGED vars
  BY <1>1 DEF vars, serverVars, historyVars
<1>2. ASSUME NEW c \in Clients,
             Call(c) \/ Answer(c) \/ GiveUp(c) \/ Say(c) \/ Hear(c) \/ Leave(c) \/ DropCall(c)
      PROVE  UNCHANGED <<slot, accepting, size, busy, reused, strange>>
  BY <1>2 DEF Call, Answer, GiveUp, Say, Hear, Leave, DropCall, serverVars, historyVars
<1>3. ASSUME NEW i \in Slots, Done(i)
      PROVE  UNCHANGED <<slot, accepting, size, busy, reused, strange>>
  BY <1>3 DEF Done, historyVars
<1>4. CASE Drop \/ Tick
  BY <1>4 DEF Drop, Tick, serverVars, historyVars
<1>5. CASE Next
  BY <1>2, <1>3, <1>4, <1>5 DEF Next, Update, Handles, Reads
<1> QED BY <1>1, <1>5

LEMMA FreshStill ==
    ASSUME Window, QueueIsFresh, UNCHANGED <<slot, accepting>> PROVE Window' /\ QueueIsFresh'
BY DEF Window, QueueIsFresh, MutexFree

LEMMA FreshAcceptBegin ==
    ASSUME FreshInv, NEW c \in Clients, AcceptBegin(c) PROVE Window' /\ QueueIsFresh'
<1>1. CASE \E i \in Slots : /\ FirstRecyclable(i)
                            /\ accepting' = [slot |-> i, for |-> c]
                            /\ slot' = [slot EXCEPT ![i] = Recycled(@)]
  <2>1. PICK i \in Slots : /\ accepting' = [slot |-> i, for |-> c]
                           /\ slot' = [slot EXCEPT ![i] = Recycled(slot[i])]
    BY <1>1
  <2>2. slot \in [Slots -> Connection] /\ slot[i] \in Connection
    BY DEF FreshInv, TypeInv, TypeOK
  <2>3. /\ Recycled(slot[i]).state = "DISCONNECTED" /\ Recycled(slot[i]).sock = 0
        /\ Recycled(slot[i]).send = {}
    BY DEF Recycled, Blank
  <2> QED BY <2>1, <2>2, <2>3 DEF FreshInv, Window, QueueIsFresh
<1>2. CASE size < MaxSlots /\ accepting' = [slot |-> size + 1, for |-> c] /\ slot' = slot
  <2>1. size \in Nat /\ size + 1 \in Slots
    BY <1>2, ServerAssumption DEF FreshInv, TypeInv, TypeOK, Slots
  <2>2. slot[size + 1] = Blank
    BY <2>1 DEF FreshInv, TypeInv, Places
  <2>3. accepting'.slot = size + 1
    BY <1>2
  <2>4. Window'
    BY <1>2, <2>2, <2>3 DEF Window, Blank
  <2> QED BY <1>2, <2>4 DEF FreshInv, QueueIsFresh
<1> QED BY <1>1, <1>2 DEF AcceptBegin

\* An accept ends with the slot of another address; a socket that fails leaves it closed.
LEMMA AcceptedSlot ==
    ASSUME TypeInv, AcceptEnd \/ AcceptFail
    PROVE  /\ accepting.slot \in Slots /\ accepting.slot \in 1..(size + 1)
           /\ accepting.for \in Clients /\ accepting # NoAccept /\ accepting' = NoAccept
           /\ UNCHANGED <<busy, strange>>
           /\ size' = size \/ size' = accepting.slot
           /\ reused' = reused + (IF accepting.slot \in 1..size THEN 1 ELSE 0)
           /\ \A i \in Slots : i # accepting.slot => slot'[i] = slot[i]
           /\ slot'[accepting.slot].send = slot[accepting.slot].send
           /\ slot'[accepting.slot].received = slot[accepting.slot].received
           /\ slot'[accepting.slot].sock \in Sockets
           /\ slot'[accepting.slot].state \in {"HANDSHAKE", slot[accepting.slot].state}
<1> DEFINE a == accepting.slot
<1>1. a \in 1..(size + 1) /\ a \in Slots /\ accepting.for \in Clients
  BY DEF AcceptEnd, AcceptFail, TypeInv, Places
<1>2. slot[a] \in Connection /\ slot \in [Slots -> Connection]
  BY <1>1 DEF TypeInv, TypeOK
<1>3. accepting # NoAccept /\ accepting' = NoAccept /\ UNCHANGED <<busy, strange>>
      /\ reused' = reused + (IF a \in 1..size THEN 1 ELSE 0)
      /\ (size' = size \/ size' = a)
  <2>1. size \in Nat /\ a \in Nat /\ a > 0 /\ reused \in Nat
    BY <1>1, ServerAssumption DEF TypeInv, TypeOK
  <2>2. accepting # NoAccept /\ accepting' = NoAccept /\ UNCHANGED <<busy, strange>>
    BY DEF AcceptEnd, AcceptFail, MutexFree
  <2>3. \/ a > size /\ reused' = reused
        \/ a <= size /\ reused' = reused + 1
    <3>1. CASE AcceptEnd
      BY <2>1, <3>1 DEF AcceptEnd
    <3>2. CASE AcceptFail
      BY <2>1, <3>2 DEF AcceptFail
    <3> QED BY <3>1, <3>2
  <2>4. size' = size \/ size' = a
    BY DEF AcceptEnd, AcceptFail, SizeAfter
  <2> HIDE DEF a
  <2> QED BY <2>1, <2>2, <2>3, <2>4
<1>4. CASE AcceptEnd
  <2>1. slot' = [slot EXCEPT ![a] = [slot[a] EXCEPT !.addr = accepting.for, !.state = "HANDSHAKE",
                                       !.sock = sockets + 1, !.ping = now, !.hello = TRUE]]
    BY <1>4 DEF AcceptEnd
  <2>2. sockets + 1 \in Sockets
    BY DEF Sockets, TypeInv, TypeOK
  <2>3. [slot[a] EXCEPT !.addr = accepting.for, !.state = "HANDSHAKE", !.sock = sockets + 1,
                        !.ping = now, !.hello = TRUE] = slot'[a]
        /\ \A i \in Slots : i # a => slot'[i] = slot[i]
    BY <1>1, <1>2, <2>1
  <2>4. /\ slot'[a].send = slot[a].send /\ slot'[a].received = slot[a].received
        /\ slot'[a].sock \in Sockets /\ slot'[a].state = "HANDSHAKE"
    BY <1>2, <2>2, <2>3 DEF Connection
  <2> QED BY <1>1, <1>3, <2>3, <2>4
<1>5. CASE AcceptFail
  <2>1. CASE a > size
    BY <1>1, <1>2, <1>3, <1>5, <2>1 DEF AcceptFail, Connection
  <2>2. CASE ~(a > size)
    <3>1. slot' = [slot EXCEPT ![a] = [slot[a] EXCEPT !.addr = accepting.for, !.ping = now,
                                                      !.hello = TRUE]]
      BY <1>5, <2>2 DEF AcceptFail
    <3>2. /\ [slot[a] EXCEPT !.addr = accepting.for, !.ping = now, !.hello = TRUE] = slot'[a]
          /\ \A i \in Slots : i # a => slot'[i] = slot[i]
      BY <1>1, <1>2, <3>1
    <3>3. /\ slot'[a].send = slot[a].send /\ slot'[a].received = slot[a].received
          /\ slot'[a].sock = slot[a].sock /\ slot'[a].state = slot[a].state
          /\ slot[a].sock \in Sockets
      BY <1>2, <3>2 DEF Connection
    <3> QED BY <1>1, <1>3, <3>2, <3>3
  <2> QED BY <2>1, <2>2
<1> QED BY <1>4, <1>5

LEMMA FreshAccept == ASSUME FreshInv, AcceptEnd \/ AcceptFail PROVE Window' /\ QueueIsFresh'
<1> DEFINE a == accepting.slot
<1>1. /\ a \in Slots /\ accepting # NoAccept /\ accepting' = NoAccept
      /\ \A i \in Slots : i # a => slot'[i] = slot[i]
      /\ slot'[a].send = slot[a].send
  BY AcceptedSlot DEF FreshInv
<1>2. \A m \in slot[a].send : m.sock = 0
  BY <1>1 DEF FreshInv, Window, MutexFree
<1>3. Window'
  BY <1>1 DEF Window, MutexFree
<1>4. ASSUME NEW i \in Slots, NEW m \in slot'[i].send, slot'[i].sock # 0
      PROVE  m.sock \in {0, slot'[i].sock}
  <2>1. CASE i = a
    BY <1>1, <1>2, <2>1
  <2>2. CASE i # a
    BY <1>1, <1>4, <2>2 DEF FreshInv, QueueIsFresh
  <2> QED BY <2>1, <2>2
<1> QED BY <1>3, <1>4 DEF QueueIsFresh

\* The slots with the mutex held by the thread that steps: nothing is being accepted.
LEMMA FreshLocked ==
    ASSUME FreshInv, MutexFree, accepting' = accepting,
           \A i \in Slots : /\ slot'[i].sock = slot[i].sock
                            /\ slot'[i].send \subseteq slot[i].send
    PROVE  Window' /\ QueueIsFresh'
BY DEF FreshInv, Window, QueueIsFresh, MutexFree

LEMMA FreshTurn == ASSUME FreshInv, Turn PROVE Window' /\ QueueIsFresh'
<1>1. MutexFree /\ accepting' = accepting
  BY DEF Turn
<1>2. ASSUME NEW i \in Slots
      PROVE  slot'[i].sock = slot[i].sock /\ slot'[i].send \subseteq slot[i].send
  <2>1. slot'[i] \in {slot[i], [slot[i] EXCEPT !.hello = FALSE, !.send = {}]}
    BY DEF Turn
  <2>2. slot[i] \in Connection
    BY DEF FreshInv, TypeInv, TypeOK
  <2> QED BY <2>1, <2>2 DEF Connection
<1> QED BY <1>1, <1>2, FreshLocked

LEMMA FreshCollect == ASSUME FreshInv, Collect PROVE Window' /\ QueueIsFresh'
<1>1. MutexFree /\ accepting' = accepting
  BY DEF Collect
<1>2. ASSUME NEW i \in Slots
      PROVE  slot'[i].sock = slot[i].sock /\ slot'[i].send \subseteq slot[i].send
  <2>1. slot'[i] = [slot[i] EXCEPT !.received = @ \ Collectable(i)]
    BY DEF Collect
  <2>2. slot[i] \in Connection
    BY DEF FreshInv, TypeInv, TypeOK
  <2> QED BY <2>1, <2>2 DEF Connection
<1> QED BY <1>1, <1>2, FreshLocked

LEMMA FreshHandles == ASSUME FreshInv, Handles PROVE Window' /\ QueueIsFresh'
<1> DEFINE b == busy.slot
<1>1. PICK s \in Connection :
              /\ Finish(s) /\ b \in 1..size
              /\ s.send = slot[b].send /\ s.sock \in {0, slot[b].sock}
              /\ slot[b].state = "DISCONNECTED"
                    => s.state = "DISCONNECTED" /\ s.sock = slot[b].sock
  BY FinishSteps DEF Handles, FreshInv
<1>2. slot' = [slot EXCEPT ![b] = s] /\ accepting' = accepting
  BY <1>1 DEF Finish
<1>3. b \in Slots /\ slot \in [Slots -> Connection]
  BY <1>1, ServerAssumption DEF FreshInv, TypeInv, TypeOK, Slots
<1>4. slot'[b] = s /\ \A i \in Slots : i # b => slot'[i] = slot[i]
  BY <1>2, <1>3
<1> HIDE DEF b
<1>5. Window'
  <2> SUFFICES ASSUME ~MutexFree
               PROVE  /\ slot'[accepting.slot].state = "DISCONNECTED"
                      /\ slot'[accepting.slot].sock = 0
                      /\ \A m \in slot'[accepting.slot].send : m.sock = 0
    BY <1>2 DEF Window, MutexFree
  <2>1. accepting.slot \in Slots
    BY DEF FreshInv, TypeInv, Places
  <2> QED BY <1>1, <1>4, <2>1 DEF FreshInv, Window
<1>6. ASSUME NEW i \in Slots, NEW m \in slot'[i].send, slot'[i].sock # 0
      PROVE  m.sock \in {0, slot'[i].sock}
  BY <1>1, <1>4, <1>6 DEF FreshInv, QueueIsFresh
<1> QED BY <1>5, <1>6 DEF QueueIsFresh

LEMMA FreshReply == ASSUME FreshInv, NEW i \in Slots, Reply(i) PROVE Window' /\ QueueIsFresh'
<1>1. PICK S \in SUBSET Payloads :
         slot[i] \in Connection /\ accepting' = accepting
         /\ slot' = [slot EXCEPT ![i] = Answered(slot[i], S)]
  BY ReplySteps DEF FreshInv
<1>2. /\ Answered(slot[i], S).state = slot[i].state /\ Answered(slot[i], S).sock = slot[i].sock
      /\ \A m \in Answered(slot[i], S).send : m \in slot[i].send \/ m.sock = slot[i].sock
  BY <1>1, AnsweredFacts
<1>3. /\ slot'[i].state = slot[i].state /\ slot'[i].sock = slot[i].sock
      /\ \A m \in slot'[i].send : m \in slot[i].send \/ m.sock = slot[i].sock
      /\ \A j \in Slots : j # i => slot'[j] = slot[j]
  BY <1>1, <1>2 DEF FreshInv, TypeInv, TypeOK
<1>4. Window'
  <2> SUFFICES ASSUME ~MutexFree
               PROVE  /\ slot'[accepting.slot].state = "DISCONNECTED"
                      /\ slot'[accepting.slot].sock = 0
                      /\ \A m \in slot'[accepting.slot].send : m.sock = 0
    BY <1>1 DEF Window, MutexFree
  <2>1. accepting.slot \in Slots
    BY DEF FreshInv, TypeInv, Places
  <2> QED BY <1>3, <2>1 DEF FreshInv, Window
<1>5. ASSUME NEW j \in Slots, NEW m \in slot'[j].send, slot'[j].sock # 0
      PROVE  m.sock \in {0, slot'[j].sock}
  BY <1>3, <1>5 DEF FreshInv, QueueIsFresh
<1> QED BY <1>4, <1>5 DEF QueueIsFresh

LEMMA FreshInit == Init => FreshInv
BY InitTypeInv DEF Init, FreshInv, Window, QueueIsFresh, MutexFree, Blank

LEMMA FreshStep == FreshInv /\ [Next]_vars => FreshInv'
<1> SUFFICES ASSUME FreshInv, [Next]_vars PROVE FreshInv'
  OBVIOUS
<1>1. TypeInv'
  BY TypeStep DEF FreshInv
<1>2. ASSUME NEW i \in Slots, Peek(i) PROVE UNCHANGED <<slot, accepting>>
  BY <1>2 DEF Peek
<1>3. ASSUME Reads PROVE UNCHANGED <<slot, accepting>>
  BY <1>3 DEF Reads, ReadPayload
<1>4. Window' /\ QueueIsFresh'
  BY <1>2, <1>3, StepCases, FreshStill, FreshAcceptBegin, FreshAccept, FreshTurn, FreshHandles,
     FreshCollect, FreshReply DEF FreshInv
<1> QED BY <1>1, <1>4 DEF FreshInv

\* What a slot has queued was never pushed for a client that had it before: recycling
\* forgets the queue, with the accept, the handling of a command and the answers of the
\* application interleaved in any way.
THEOREM QueueFresh == Spec => []QueueIsFresh
<1>1. FreshInv => QueueIsFresh
  BY DEF FreshInv
<1> QED BY FreshInit, FreshStep, <1>1, PTL DEF Spec

----------------------------------------------------------------------------
\* What a reuse lets through

\* The payloads that are, or will be when the accept in progress ends, in the slot of a
\* client that did not send them.
Owed == {x \in Slots \X Payloads :
            x[2] \in slot[x[1]].received /\ (x[2][1] # slot[x[1]].addr \/ x[1] = accepting.slot)}

\* The payload that is being handled may become one of them.
Stale == IF /\ busy.step = "read"
            /\ busy.slot = accepting.slot \/ busy.d.from # slot[busy.slot].addr
         THEN 1 ELSE 0

\* The accept in progress will be a reuse.
Reusing == IF accepting.slot \in 1..size THEN 1 ELSE 0

\* A payload of a former client is peeked, but not read.
NotRead == busy.step = "peeked" /\ busy.d.from # slot[busy.slot].addr
             => slot[busy.slot].state # "IDLE"

Bound == strange + Cardinality(Owed) + Stale <= reused + Reusing

StrangerInv == FreshInv /\ NotRead /\ Bound /\ OneStrangerPerReuse

LEMMA OwedFinite ==
    ASSUME TypeInv
    PROVE  /\ IsFiniteSet(Owed) /\ Cardinality(Owed) \in Nat
           /\ Stale \in 0..1 /\ Reusing \in 0..1 /\ strange \in Nat /\ reused \in Nat
<1>1. Owed \subseteq Slots \X Payloads
  BY DEF Owed
<1>2. IsFiniteSet(Owed) /\ Cardinality(Owed) \in Nat
  BY <1>1, PayloadsFinite
<1> QED BY <1>2 DEF Stale, Reusing, TypeInv, TypeOK

\* Most steps take nothing in that they do not pay for.
LEMMA Shrinks ==
    ASSUME StrangerInv, TypeInv', Owed' \subseteq Owed, strange' = strange,
           Stale' + reused + Reusing <= Stale + reused' + Reusing'
    PROVE  Bound'
<1>1. /\ IsFiniteSet(Owed) /\ Cardinality(Owed) \in Nat
      /\ Stale \in 0..1 /\ Reusing \in 0..1 /\ strange \in Nat /\ reused \in Nat
  BY OwedFinite DEF StrangerInv, FreshInv
<1>2. /\ IsFiniteSet(Owed') /\ Cardinality(Owed') \in Nat
      /\ Stale' \in 0..1 /\ Reusing' \in 0..1 /\ reused' \in Nat
  <2>1. Owed' \subseteq Slots \X Payloads
    BY DEF Owed
  <2>2. IsFiniteSet(Owed') /\ Cardinality(Owed') \in Nat
    BY <2>1, PayloadsFinite
  <2> QED BY <2>2 DEF Stale, Reusing, TypeInv, TypeOK
<1>3. Cardinality(Owed') <= Cardinality(Owed)
  BY <1>1, FS_Subset
<1>4. strange + Cardinality(Owed) + Stale <= reused + Reusing
  BY DEF StrangerInv, Bound
<1>5. strange' + Cardinality(Owed') + Stale' <= reused' + Reusing'
  <2>1. PICK old, new, stale, stale2, reusing, reusing2, reused2 :
           /\ old = Cardinality(Owed) /\ new = Cardinality(Owed') /\ reused2 = reused'
           /\ stale = Stale /\ stale2 = Stale' /\ reusing = Reusing /\ reusing2 = Reusing'
    OBVIOUS
  <2>2. /\ old \in Nat /\ new \in Nat /\ new <= old /\ stale \in 0..1 /\ stale2 \in 0..1
        /\ reusing \in 0..1 /\ reusing2 \in 0..1 /\ reused2 \in Nat
        /\ strange + old + stale <= reused + reusing
        /\ stale2 + reused + reusing <= stale + reused2 + reusing2
    BY <1>1, <1>2, <1>3, <1>4, <2>1
  <2>3. strange + new + stale2 <= reused2 + reusing2
    BY <1>1, <2>2
  <2> QED BY <2>1, <2>3
<1> QED BY <1>5 DEF Bound

\* Nobody takes or gives up a slot, and nothing is collected or delivered.
LEMMA StrangersStill ==
    ASSUME StrangerInv, TypeInv', UNCHANGED <<accepting, size, busy, reused, strange>>,
           \A i \in Slots : /\ slot'[i].addr = slot[i].addr
                            /\ slot'[i].received = slot[i].received
                            /\ slot'[i].state = slot[i].state
    PROVE  NotRead' /\ Bound'
<1>1. Owed' \subseteq Owed
  BY DEF Owed
<1>2. busy.step # "free" => busy.slot \in Slots
  BY BusySlot DEF StrangerInv, FreshInv
<1>3. NotRead'
  BY <1>2 DEF StrangerInv, NotRead
<1>4. Stale' = Stale /\ Reusing' = Reusing
  BY <1>2 DEF Stale, Reusing
<1>5. Stale' + reused + Reusing <= Stale + reused' + Reusing'
  BY <1>4, OwedFinite DEF StrangerInv, FreshInv
<1> QED BY <1>1, <1>3, <1>5, Shrinks

LEMMA StrangersPeek ==
    ASSUME StrangerInv, TypeInv', NEW i \in Slots, Peek(i) PROVE NotRead' /\ Bound'
<1>1. UNCHANGED <<slot, accepting, size, reused, strange>> /\ busy = Free
  BY DEF Peek, historyVars
<1>2. \/ busy'.step = "broken"
      \/ busy'.step = "peeked" /\ busy'.slot = i /\ busy'.d.from = slot[i].addr
  BY DEF Peek
<1>3. NotRead'
  BY <1>1, <1>2 DEF NotRead
<1>4. Stale' = 0 /\ Stale = 0 /\ Reusing' = Reusing /\ Owed' = Owed
  BY <1>1, <1>2 DEF Stale, Reusing, Free, Owed
<1>5. Stale' + reused + Reusing <= Stale + reused' + Reusing'
  BY <1>1, <1>4, OwedFinite DEF StrangerInv, FreshInv
<1> QED BY <1>1, <1>3, <1>4, <1>5, Shrinks

\* A slot that is being accepted is not IDLE, and a command of a former client is not read.
LEMMA StrangersReads == ASSUME StrangerInv, TypeInv', Reads PROVE NotRead' /\ Bound'
<1>1. /\ UNCHANGED <<slot, accepting, size, reused, strange>>
      /\ busy.step = "peeked" /\ busy' = [busy EXCEPT !.step = "read"]
      /\ slot[busy.slot].state = "IDLE"
  BY DEF Reads, ReadPayload, historyVars
<1>2. busy'.step = "read" /\ busy'.slot = busy.slot /\ busy'.d = busy.d
  BY <1>1 DEF StrangerInv, FreshInv, TypeInv, TypeOK
<1>3. busy.slot \in Slots
  BY <1>1, BusySlot DEF StrangerInv, FreshInv
<1>4. busy.d.from = slot[busy.slot].addr
  BY <1>1 DEF StrangerInv, NotRead
<1>5. busy.slot # accepting.slot
  <2>1. CASE MutexFree
    BY <2>1, <1>3, SlotsFacts DEF MutexFree, NoAccept
  <2>2. CASE ~MutexFree
    BY <2>2, <1>1 DEF StrangerInv, FreshInv, Window
  <2> QED BY <2>1, <2>2
<1>6. Stale' = 0 /\ Stale = 0 /\ Reusing' = Reusing /\ Owed' = Owed
  BY <1>1, <1>2, <1>4, <1>5 DEF Stale, Reusing, Owed
<1>7. Stale' + reused + Reusing <= Stale + reused' + Reusing'
  BY <1>1, <1>6, OwedFinite DEF StrangerInv, FreshInv
<1>8. NotRead'
  BY <1>2 DEF NotRead
<1> QED BY <1>1, <1>6, <1>7, <1>8, Shrinks

LEMMA StrangersAcceptBegin ==
    ASSUME StrangerInv, TypeInv', NEW c \in Clients, AcceptBegin(c) PROVE NotRead' /\ Bound'
<1>1. UNCHANGED <<size, busy, reused, strange>> /\ accepting.slot = 0
  BY DEF AcceptBegin, historyVars, MutexFree, NoAccept
<1>2. Reusing = 0 /\ Stale \in 0..1 /\ reused \in Nat /\ size \in Nat
  BY <1>1, OwedFinite, ServerAssumption DEF Reusing, StrangerInv, FreshInv, TypeInv, TypeOK
<1>3. busy.step # "free" => busy.slot \in 1..size /\ busy.slot \in Slots
  BY BusySlot DEF StrangerInv, FreshInv
<1>4. CASE \E i \in Slots : /\ FirstRecyclable(i)
                            /\ accepting' = [slot |-> i, for |-> c]
                            /\ slot' = [slot EXCEPT ![i] = Recycled(@)]
  <2>1. PICK i \in Slots : /\ FirstRecyclable(i)
                           /\ accepting' = [slot |-> i, for |-> c]
                           /\ slot' = [slot EXCEPT ![i] = Recycled(slot[i])]
    BY <1>4
  <2>2. slot'[i] = Recycled(slot[i]) /\ \A j \in Slots : j # i => slot'[j] = slot[j]
    BY <2>1 DEF StrangerInv, FreshInv, TypeInv, TypeOK
  <2>3. slot'[i].received = {} /\ slot'[i].state = "DISCONNECTED"
    BY <2>2 DEF Recycled, Blank
  <2>4. Owed' \subseteq Owed
    <3> SUFFICES ASSUME NEW x \in Owed' PROVE x \in Owed
      OBVIOUS
    <3>1. x \in Slots \X Payloads /\ x[2] \in slot'[x[1]].received
          /\ (x[2][1] # slot'[x[1]].addr \/ x[1] = accepting'.slot)
      BY DEF Owed
    <3>2. x[1] # i /\ x[1] \in Slots
      BY <3>1, <2>3
    <3>3. slot'[x[1]] = slot[x[1]] /\ x[1] # accepting'.slot
      BY <3>2, <2>1, <2>2
    <3> QED BY <3>1, <3>3 DEF Owed
  <2>5. Reusing' = 1 /\ Stale' \in 0..1
    BY <1>1, <2>1 DEF Reusing, FirstRecyclable, Stale
  <2>6. NotRead'
    BY <1>1, <1>3, <2>2, <2>3 DEF StrangerInv, NotRead
  <2>7. Stale' + reused + Reusing <= Stale + reused' + Reusing'
    <3>1. PICK old, new : old = Stale /\ new = Stale'
      OBVIOUS
    <3>2. new \in 0..1 /\ old \in 0..1
      BY <1>2, <2>5, <3>1
    <3>3. new + reused + 0 <= old + reused + 1
      BY <1>2, <3>2
    <3> QED BY <1>1, <1>2, <2>5, <3>1, <3>3
  <2> QED BY <1>1, <2>4, <2>6, <2>7, Shrinks
<1>5. CASE size < MaxSlots /\ accepting' = [slot |-> size + 1, for |-> c] /\ slot' = slot
  <2>1. size + 1 \in Slots /\ accepting'.slot = size + 1
    BY <1>2, <1>5, ServerAssumption DEF Slots
  <2>2. slot[size + 1].received = {}
    <3>1. slot[size + 1] = Blank
      BY <1>2, <2>1 DEF StrangerInv, FreshInv, TypeInv, Places
    <3> QED BY <3>1 DEF Blank
  <2>3. Owed' \subseteq Owed
    BY <1>5, <2>1, <2>2 DEF Owed
  <2>4. Reusing' = 0 /\ Stale' = Stale
    <3>1. busy.step = "read" => busy.slot # 0 /\ busy.slot # size + 1
      BY <1>2, <1>3
    <3> QED BY <1>1, <1>2, <1>5, <2>1, <3>1 DEF Reusing, Stale
  <2>5. NotRead'
    BY <1>1, <1>5 DEF StrangerInv, NotRead
  <2>6. Stale' + reused + Reusing <= Stale + reused' + Reusing'
    BY <1>1, <1>2, <2>4
  <2> QED BY <1>1, <2>3, <2>5, <2>6, Shrinks
<1> QED BY <1>4, <1>5 DEF AcceptBegin

\* What waits in the slot becomes the new client's, and the reuse is counted.
LEMMA StrangersAccept ==
    ASSUME StrangerInv, TypeInv', AcceptEnd \/ AcceptFail PROVE NotRead' /\ Bound'
<1> DEFINE a == accepting.slot
<1>1. /\ a \in Slots /\ accepting # NoAccept /\ accepting' = NoAccept
      /\ UNCHANGED <<busy, strange>>
      /\ reused' = reused + (IF a \in 1..size THEN 1 ELSE 0)
      /\ \A i \in Slots : i # a => slot'[i] = slot[i]
      /\ slot'[a].received = slot[a].received
      /\ slot'[a].state \in {"HANDSHAKE", slot[a].state}
  BY AcceptedSlot DEF StrangerInv, FreshInv
<1>2. slot[a].state = "DISCONNECTED" /\ accepting'.slot = 0
  BY <1>1 DEF StrangerInv, FreshInv, Window, MutexFree, NoAccept
<1>3. busy.step # "free" => busy.slot \in Slots /\ busy.slot # 0
  BY BusySlot, SlotsFacts DEF StrangerInv, FreshInv
<1>4. Owed' \subseteq Owed
  <2> SUFFICES ASSUME NEW x \in Owed' PROVE x \in Owed
    OBVIOUS
  <2>1. x \in Slots \X Payloads /\ x[2] \in slot'[x[1]].received
        /\ (x[2][1] # slot'[x[1]].addr \/ x[1] = accepting'.slot)
    BY DEF Owed
  <2>2. x[1] \in Slots /\ x[1] # accepting'.slot
    BY <2>1, <1>2, SlotsFacts
  <2>3. CASE x[1] = a
    BY <1>1, <2>1, <2>3 DEF Owed
  <2>4. CASE x[1] # a
    BY <1>1, <2>1, <2>2, <2>4 DEF Owed
  <2> QED BY <2>3, <2>4
<1>5. NotRead'
  BY <1>1, <1>2, <1>3 DEF StrangerInv, NotRead
<1>6. Stale' \in 0..1 /\ Stale \in 0..1 /\ (Stale' = 1 => Stale = 1)
  BY <1>1, <1>2, <1>3 DEF Stale
<1>7. Reusing' = 0 /\ reused' = reused + Reusing /\ Reusing \in 0..1 /\ reused \in Nat
  BY <1>1, <1>2, OwedFinite DEF Reusing, StrangerInv, FreshInv
<1>8. Stale' + reused + Reusing <= Stale + reused' + Reusing'
  <2>1. PICK old, new, g : old = Stale /\ new = Stale' /\ g = Reusing
    OBVIOUS
  <2>2. new \in 0..1 /\ old \in 0..1 /\ (new = 1 => old = 1) /\ g \in 0..1 /\ reused' = reused + g
    BY <1>6, <1>7, <2>1
  <2>3. new + reused + g <= old + (reused + g) + 0
    BY <1>7, <2>2
  <2> QED BY <1>7, <2>1, <2>2, <2>3
<1> QED BY <1>1, <1>4, <1>5, <1>8, Shrinks

\* A payload of a former client is paid for when it was read.
LEMMA StrangersHandles == ASSUME StrangerInv, TypeInv', Handles PROVE NotRead' /\ Bound'
<1>1. PICK s \in Connection :
         /\ Finish(s) /\ todo' \subseteq todo /\ busy.slot \in 1..size
         /\ s.addr = slot[busy.slot].addr /\ s.send = slot[busy.slot].send
         /\ s.sock \in {0, slot[busy.slot].sock}
         /\ slot[busy.slot].state = "DISCONNECTED"
               => s.state = "DISCONNECTED" /\ s.sock = slot[busy.slot].sock
         /\ s.received = slot[busy.slot].received
            \/ /\ busy.step = "read"
               /\ s.received = slot[busy.slot].received \cup {<<busy.d.from, busy.d.n>>}
  BY FinishSteps DEF Handles, StrangerInv, FreshInv
<1> DEFINE b == busy.slot
           p == <<busy.d.from, busy.d.n>>
<1>2. UNCHANGED <<accepting, size, reused, strange>> /\ busy' = Free /\ slot' = [slot EXCEPT ![b] = s]
  BY <1>1 DEF Finish, historyVars
<1>3. b \in Slots /\ slot \in [Slots -> Connection] /\ size \in Nat
  BY <1>1, ServerAssumption DEF StrangerInv, FreshInv, TypeInv, TypeOK, Slots
<1>4. slot'[b] = s /\ \A i \in Slots : i # b => slot'[i] = slot[i]
  BY <1>2, <1>3
<1>5. NotRead' /\ Stale' = 0 /\ Reusing' = Reusing
  BY <1>2 DEF NotRead, Stale, Reusing, Free
<1>6. Stale \in 0..1 /\ Reusing \in 0..1 /\ reused \in Nat /\ strange \in Nat
      /\ IsFiniteSet(Owed) /\ Cardinality(Owed) \in Nat
  BY OwedFinite DEF StrangerInv, FreshInv
<1>7. Stale' + reused + Reusing <= Stale + reused' + Reusing'
  <2>1. PICK old, g : old = Stale /\ g = Reusing
    OBVIOUS
  <2>2. 0 + reused + g <= old + reused + g
    BY <1>6, <2>1
  <2> QED BY <1>2, <1>5, <2>1, <2>2
<1>8. CASE Owed' \subseteq Owed
  BY <1>2, <1>5, <1>7, <1>8, Shrinks
<1>9. CASE ~(Owed' \subseteq Owed)
  <2>1. PICK x \in Owed' : x \notin Owed
    BY <1>9
  <2>2. x \in Slots \X Payloads /\ x[2] \in slot'[x[1]].received
        /\ (x[2][1] # slot'[x[1]].addr \/ x[1] = accepting.slot)
    BY <1>2, <2>1 DEF Owed
  <2>3. x[1] = b
    BY <1>4, <2>1, <2>2 DEF Owed
  <2>4. x[2] \notin slot[b].received /\ x[2] \in s.received
    BY <1>1, <1>4, <2>1, <2>2, <2>3 DEF Owed
  <2>5. busy.step = "read" /\ s.received = slot[b].received \cup {p} /\ x[2] = p
    BY <1>1, <2>4
  <2>6. Stale = 1
    <3>1. p[1] # slot[b].addr \/ b = accepting.slot
      BY <1>1, <1>4, <2>2, <2>3, <2>5
    <3> QED BY <2>5, <3>1 DEF Stale
  <2>7. Owed' \subseteq Owed \cup {<<b, p>>}
    <3> SUFFICES ASSUME NEW y \in Owed', y \notin Owed PROVE y = <<b, p>>
      OBVIOUS
    <3>1. y \in Slots \X Payloads /\ y[2] \in slot'[y[1]].received
          /\ (y[2][1] # slot'[y[1]].addr \/ y[1] = accepting.slot)
      BY <1>2 DEF Owed
    <3>2. y[1] = b
      BY <1>4, <3>1 DEF Owed
    <3>3. y[2] \notin slot[b].received /\ y[2] \in s.received
      BY <1>1, <1>4, <3>1, <3>2 DEF Owed
    <3>4. y[2] = p
      BY <2>5, <3>3
    <3> QED BY <3>1, <3>2, <3>4
  <2>8. IsFiniteSet(Owed \cup {<<b, p>>}) /\ Cardinality(Owed \cup {<<b, p>>}) <= Cardinality(Owed) + 1
    <3>1. /\ IsFiniteSet(Owed \cup {<<b, p>>})
          /\ \/ Cardinality(Owed \cup {<<b, p>>}) = Cardinality(Owed)
             \/ Cardinality(Owed \cup {<<b, p>>}) = Cardinality(Owed) + 1
      BY <1>6, FS_AddElement
    <3>2. PICK n, m : n = Cardinality(Owed) /\ m = Cardinality(Owed \cup {<<b, p>>})
      OBVIOUS
    <3>3. m <= n + 1
      BY <1>6, <3>1, <3>2
    <3> QED BY <3>1, <3>2, <3>3
  <2>9. Cardinality(Owed') <= Cardinality(Owed) + 1 /\ Cardinality(Owed') \in Nat
    <3>1. IsFiniteSet(Owed') /\ Cardinality(Owed') <= Cardinality(Owed \cup {<<b, p>>})
      BY <2>7, <2>8, FS_Subset
    <3>2. Cardinality(Owed') \in Nat /\ Cardinality(Owed \cup {<<b, p>>}) \in Nat
      BY <2>8, <3>1, FS_CardinalityType
    <3> QED BY <1>6, <2>8, <3>1, <3>2
  <2>10. Bound'
    <3>1. PICK old, new, g : old = Cardinality(Owed) /\ new = Cardinality(Owed') /\ g = Reusing
      OBVIOUS
    <3>2. strange + old + 1 <= reused + g /\ new <= old + 1 /\ old \in Nat /\ new \in Nat /\ g \in 0..1
      BY <1>6, <2>6, <2>9, <3>1 DEF StrangerInv, Bound
    <3>3. strange + new + 0 <= reused + g
      BY <1>6, <3>2
    <3> QED BY <1>2, <1>5, <3>1, <3>3 DEF Bound
  <2> QED BY <1>5, <2>10
<1> QED BY <1>8, <1>9

LEMMA StrangersCollect ==
    ASSUME StrangerInv, TypeInv', Collect PROVE NotRead' /\ Bound' /\ OneStrangerPerReuse'
<1> DEFINE taken == {x \in Strangers : x[2] \in Collectable(x[1])}
<1>1. /\ UNCHANGED <<accepting, size, busy, reused>> /\ accepting.slot = 0
      /\ slot' = [i \in Slots |-> [slot[i] EXCEPT !.received = @ \ Collectable(i)]]
      /\ strange' = strange + Cardinality(taken)
  BY DEF Collect, MutexFree, NoAccept
<1>2. ASSUME NEW i \in Slots
      PROVE  /\ slot'[i].addr = slot[i].addr /\ slot'[i].state = slot[i].state
             /\ slot'[i].received = slot[i].received \ Collectable(i)
  <2>1. slot[i] \in Connection
    BY DEF StrangerInv, FreshInv, TypeInv, TypeOK
  <2>2. slot'[i] = [slot[i] EXCEPT !.received = slot[i].received \ Collectable(i)]
    BY <1>1
  <2> QED BY <2>1, <2>2 DEF Connection
<1>3. \A x \in Slots \X Payloads : x \in Owed <=> x \in Strangers
  BY <1>1, SlotsFacts DEF Owed, Strangers
<1>4. Owed' = Owed \ taken /\ Owed \cap taken = taken
  <2>1. ASSUME NEW x \in Slots \X Payloads
        PROVE  x \in Owed' <=> x \in Owed /\ x \notin taken
    <3>1. x[1] \in Slots /\ x[1] # accepting'.slot /\ x[1] # accepting.slot
      BY <1>1, SlotsFacts
    <3> QED BY <1>2, <1>3, <3>1 DEF Owed, Strangers
  <2>2. Owed \subseteq Slots \X Payloads /\ Owed' \subseteq Slots \X Payloads
        /\ Strangers \subseteq Slots \X Payloads
    BY DEF Owed, Strangers
  <2>3. taken \subseteq Owed
    BY <1>3, <2>2
  <2> HIDE DEF taken
  <2> QED BY <2>1, <2>2, <2>3
<1>5. busy.step # "free" => busy.slot \in Slots
  BY BusySlot DEF StrangerInv, FreshInv
<1>6. NotRead' /\ Stale' = Stale /\ Reusing' = Reusing
  BY <1>1, <1>2, <1>5 DEF StrangerInv, NotRead, Stale, Reusing
<1>7. /\ IsFiniteSet(Owed) /\ Cardinality(Owed) \in Nat /\ strange \in Nat
      /\ Stale \in 0..1 /\ Reusing \in 0..1 /\ reused \in Nat
  BY OwedFinite DEF StrangerInv, FreshInv
<1> HIDE DEF taken
<1>8. /\ Cardinality(Owed') = Cardinality(Owed) - Cardinality(taken)
      /\ Cardinality(taken) \in Nat
  <2>1. taken \in SUBSET Owed
    BY <1>4
  <2>2. IsFiniteSet(taken)
    BY <1>7, <2>1, FS_Subset
  <2> QED BY <1>4, <1>7, <2>2, FS_Difference, FS_CardinalityType
<1>9. Bound' /\ strange' <= reused'
  <2>1. PICK old, n, s, g : old = Cardinality(Owed) /\ n = Cardinality(taken) /\ s = Stale /\ g = Reusing
    OBVIOUS
  <2>2. strange + old + s <= reused + g
    BY <2>1 DEF StrangerInv, Bound
  <2>3. (strange + n) + (old - n) + s <= reused + g
    BY <1>7, <1>8, <2>1, <2>2
  <2>4. Bound'
    BY <1>1, <1>6, <1>8, <2>1, <2>3 DEF Bound
  <2>5. g = 0
    BY <1>1, <2>1 DEF Reusing
  <2>6. old - n \in Nat
    <3>1. Cardinality(Owed') \in Nat
      BY <1>4, <1>7, FS_Difference, FS_CardinalityType
    <3> QED BY <1>8, <2>1, <3>1
  <2>7. strange + n <= reused
    BY <1>7, <1>8, <2>1, <2>3, <2>5, <2>6
  <2> QED BY <1>1, <2>1, <2>4, <2>7
<1> QED BY <1>6, <1>9 DEF OneStrangerPerReuse

LEMMA StrangersStep == StrangerInv /\ [Next]_vars => StrangerInv'
<1> SUFFICES ASSUME StrangerInv, [Next]_vars PROVE StrangerInv'
  OBVIOUS
<1>1. FreshInv' /\ TypeInv'
  BY FreshStep, TypeStep DEF StrangerInv, FreshInv
<1>2. ASSUME UNCHANGED <<slot, accepting, size, busy, reused, strange>> PROVE NotRead' /\ Bound'
  BY <1>1, <1>2, StrangersStill DEF StrangerInv
<1>3. ASSUME Turn PROVE NotRead' /\ Bound'
  <2>1. UNCHANGED <<accepting, size, busy, reused, strange>>
    BY <1>3 DEF Turn, historyVars
  <2>2. ASSUME NEW i \in Slots
        PROVE  /\ slot'[i].addr = slot[i].addr /\ slot'[i].state = slot[i].state
               /\ slot'[i].received = slot[i].received
    <3>1. slot'[i] \in {slot[i], [slot[i] EXCEPT !.hello = FALSE, !.send = {}]}
      BY <1>3 DEF Turn
    <3>2. slot[i] \in Connection
      BY DEF StrangerInv, FreshInv, TypeInv, TypeOK
    <3> QED BY <3>1, <3>2 DEF Connection
  <2> QED BY <1>1, <2>1, <2>2, StrangersStill DEF StrangerInv
<1>4. ASSUME \E i \in Slots : Reply(i) PROVE NotRead' /\ Bound'
  <2>1. PICK i \in Slots : Reply(i)
    BY <1>4
  <2>2. PICK S \in SUBSET Payloads :
           /\ UNCHANGED <<accepting, size, busy, reused, strange>>
           /\ slot[i] \in Connection /\ slot' = [slot EXCEPT ![i] = Answered(slot[i], S)]
    BY <2>1, ReplySteps DEF StrangerInv, FreshInv
  <2>3. /\ Answered(slot[i], S).addr = slot[i].addr /\ Answered(slot[i], S).state = slot[i].state
        /\ Answered(slot[i], S).received = slot[i].received
    BY <2>2, AnsweredFacts
  <2>4. \A j \in Slots : /\ slot'[j].addr = slot[j].addr /\ slot'[j].state = slot[j].state
                         /\ slot'[j].received = slot[j].received
    BY <2>2, <2>3 DEF StrangerInv, FreshInv, TypeInv, TypeOK
  <2> QED BY <1>1, <2>2, <2>4, StrangersStill DEF StrangerInv
<1>5. NotRead' /\ Bound'
  BY <1>1, <1>2, <1>3, <1>4, StepCases, StrangersPeek, StrangersReads, StrangersAcceptBegin,
     StrangersAccept, StrangersHandles, StrangersCollect DEF StrangerInv
<1>6. OneStrangerPerReuse'
  <2>1. strange \in Nat /\ reused \in Nat /\ strange <= reused
    BY OwedFinite DEF StrangerInv, FreshInv, OneStrangerPerReuse
  <2>2. ASSUME ~Collect PROVE strange' = strange /\ reused' \in {reused, reused + 1}
    <3>1. ASSUME NEW i \in Slots, Peek(i) \/ Reply(i) PROVE UNCHANGED <<reused, strange>>
      BY <3>1 DEF Peek, Reply, historyVars
    <3>2. ASSUME NEW c \in Clients, AcceptBegin(c) PROVE UNCHANGED <<reused, strange>>
      BY <3>2 DEF AcceptBegin, historyVars
    <3>3. ASSUME Reads \/ Turn PROVE UNCHANGED <<reused, strange>>
      BY <3>3 DEF Reads, ReadPayload, Turn, historyVars
    <3>4. ASSUME Handles PROVE UNCHANGED <<reused, strange>>
      BY <3>4, FinishSteps DEF Handles, Finish, historyVars, StrangerInv, FreshInv
    <3>5. ASSUME AcceptEnd \/ AcceptFail PROVE strange' = strange /\ reused' \in {reused, reused + 1}
      BY <2>1, <3>5, AcceptedSlot DEF StrangerInv, FreshInv
    <3> QED BY <2>2, <3>1, <3>2, <3>3, <3>4, <3>5, StepCases
  <2>3. CASE Collect
    BY <1>1, <2>3, StrangersCollect
  <2>4. CASE ~Collect
    <3>1. PICK r : r = reused'
      OBVIOUS
    <3>2. strange <= r /\ strange' = strange
      BY <2>1, <2>2, <2>4, <3>1
    <3> QED BY <3>1, <3>2 DEF OneStrangerPerReuse
  <2> QED BY <2>3, <2>4
<1> QED BY <1>1, <1>5, <1>6 DEF StrangerInv

LEMMA StrangersInit == Init => StrangerInv
<1> SUFFICES ASSUME Init PROVE StrangerInv
  OBVIOUS
<1>1. FreshInv
  BY FreshInit
<1>2. NotRead /\ Stale = 0 /\ Reusing \in 0..1 /\ strange = 0 /\ reused = 0
  BY DEF Init, NotRead, Stale, Reusing, Free
<1>3. Owed = {}
  BY DEF Init, Owed, Blank
<1>4. Cardinality(Owed) = 0
  BY <1>3, FS_EmptySet
<1> QED BY <1>1, <1>2, <1>4 DEF StrangerInv, Bound, OneStrangerPerReuse

\* Handling a command without the mutex lets at most one payload of a former client through
\* for each time a slot is reused.
THEOREM StrangersBounded == Spec => []OneStrangerPerReuse
<1>1. StrangerInv => OneStrangerPerReuse
  BY DEF StrangerInv
<1> QED BY StrangersInit, StrangersStep, <1>1, PTL DEF Spec
=============================================================================

-------------------------- MODULE UDPClient_proofs --------------------------
(***************************************************************************)
(* Theorems about UDPClient: its types, and what holds of the client as    *)
(* long as the sleeps of the application were long enough.                 *)
(***************************************************************************)
EXTENDS UDPClient, FiniteSetTheorems, TLAPS

----------------------------------------------------------------------------
\* Types

\* The calls that created their socket: a handshake creates one, and is never repeated.
Created == {k \in Calls : handshake[k].at \notin {"none", "start", "closed"}}

\* Sockets are known by the number they were created with; a call that was not made has no
\* threads.
Numbered ==
    /\ sockets = Cardinality(Created)
    /\ socket \in 0..sockets
    /\ open \cup called \cup confirmed \subseteq 1..sockets
    /\ \A d \in inbox : d.sock \in 1..sockets
    /\ \A k \in Calls : k > calls => handshake[k].at = "none" /\ reader[k].at = "none"

TypeInv == TypeOK /\ Numbered

----------------------------------------------------------------------------
\* What the sleeps buy: the calls go one after the other

\* A call that is over has no thread left.
Over(k) == handshake[k].at = "done" /\ reader[k].at \in {"none", "done"}

\* While clientConnect looks at State, the handshake of this call is alone with the socket.
Polling ==
    LET at == handshake[calls].at
    IN  /\ calls > 0 /\ reader[calls].at = "none"
        /\ state \in {"HANDSHAKE", "IDLE"} /\ at # "none"
        /\ state = "IDLE" => at = "done" /\ socket \in open \cap confirmed
        /\ at \in {"start", "closed"} => socket = 0
        /\ at \in {"opened", "waiting", "answered"} => socket \in open \ confirmed
        /\ at = "waiting" => handshake[calls].sock = socket
        /\ at = "confirmed" => socket \in open \cap confirmed

\* Once it has given up, the handshake is over or waits for a response that does not come.
Failing ==
    LET at == handshake[calls].at
    IN  /\ calls > 0 /\ reader[calls].at = "none" /\ state = "HANDSHAKE"
        /\ \/ at = "done"
           \/ /\ at = "waiting" /\ handshake[calls].sock = socket
              /\ socket \in open \ confirmed /\ Waiting(socket) = {}

\* Afterwards a reader is left, if the call succeeded; if not, a handshake on a closed socket.
Ready ==
    LET h == handshake[calls]
        r == reader[calls]
    IN  /\ state \in {"DISCONNECTED", "IDLE"}
        /\ state = "IDLE" =>
              /\ calls > 0 /\ h.at = "done" /\ socket \in open \cap confirmed
              /\ r.at \in {"loop", "peek", "handle"} /\ (r.at = "peek" => r.sock = socket)
        /\ state = "DISCONNECTED" /\ calls > 0 =>
              /\ h.at = "done" \/ (h.at = "waiting" /\ h.sock \notin open /\ r.at = "none")
              /\ r.at \in {"loop", "peek", "handle"} => socket = 0

OneAtATime ==
    timely =>
        /\ open \subseteq {socket}
        /\ \A k \in Calls : k < calls => Over(k)
        /\ app = "polling" => Polling
        /\ app = "failing" => Failing
        /\ app = "ready" => Ready

ClientInv == TypeInv /\ OneAtATime

----------------------------------------------------------------------------
\* Lemmas

LEMMA NumberFacts ==
    /\ Calls \subseteq Nat \ {0} /\ Sockets \subseteq Nat /\ MaxCalls \in Nat
    /\ \A k \in Calls : k <= MaxCalls
    /\ \A n \in Nat \ {0} : n <= MaxCalls => n \in Calls
BY ClientAssumption DEF Calls, Sockets

HandshakeSteps == {"none", "start", "closed", "opened", "waiting", "answered", "confirmed", "done"}
ReaderSteps == {"none", "loop", "peek", "handle", "leave", "done"}

\* A thread that goes on leaves the others, and what it waits on, alone.
LEMMA HandshakeGoes ==
    ASSUME handshake \in [Calls -> Handshake], NEW k \in Calls, NEW step \in HandshakeSteps,
           handshake' = Goto(handshake, k, step)
    PROVE  /\ handshake' \in [Calls -> Handshake]
           /\ handshake'[k].at = step /\ handshake'[k].sock = handshake[k].sock
           /\ \A j \in Calls : j # k => handshake'[j] = handshake[j]
BY DEF Goto, Handshake, Thread, HandshakeSteps

LEMMA HandshakeWaits ==
    ASSUME handshake \in [Calls -> Handshake], NEW k \in Calls, socket \in Sockets,
           handshake' = [handshake EXCEPT ![k] = [at |-> "waiting", sock |-> socket]]
    PROVE  /\ handshake' \in [Calls -> Handshake]
           /\ handshake'[k].at = "waiting" /\ handshake'[k].sock = socket
           /\ \A j \in Calls : j # k => handshake'[j] = handshake[j]
BY DEF Handshake, Thread

LEMMA ReaderGoes ==
    ASSUME reader \in [Calls -> Reader], NEW k \in Calls, NEW step \in ReaderSteps,
           reader' = Goto(reader, k, step)
    PROVE  /\ reader' \in [Calls -> Reader]
           /\ reader'[k].at = step /\ reader'[k].sock = reader[k].sock
           /\ \A j \in Calls : j # k => reader'[j] = reader[j]
BY DEF Goto, Reader, Thread, ReaderSteps

LEMMA ReaderPeeks ==
    ASSUME reader \in [Calls -> Reader], NEW k \in Calls, socket \in Sockets,
           reader' = [reader EXCEPT ![k] = [at |-> "peek", sock |-> socket]]
    PROVE  /\ reader' \in [Calls -> Reader]
           /\ reader'[k].at = "peek" /\ reader'[k].sock = socket
           /\ \A j \in Calls : j # k => reader'[j] = reader[j]
BY DEF Reader, Thread

LEMMA CreatedFinite == IsFiniteSet(Created) /\ Cardinality(Created) \in 0..MaxCalls
<1>1. IsFiniteSet(Calls) /\ Cardinality(Calls) = MaxCalls
  BY ClientAssumption, FS_Interval DEF Calls
<1>2. Created \subseteq Calls
  BY DEF Created
<1> QED
  BY <1>1, <1>2, FS_Subset, FS_CardinalityType, ClientAssumption

\* There is a socket left for a call that has not created its own.
LEMMA SocketsLeft ==
    ASSUME NEW k \in Calls, k \notin Created
    PROVE  /\ Cardinality(Created) < MaxCalls
           /\ Cardinality(Created \cup {k}) = Cardinality(Created) + 1
<1>1. IsFiniteSet(Calls) /\ Cardinality(Calls) = MaxCalls
  BY ClientAssumption, FS_Interval DEF Calls
<1>2. Cardinality(Created \cup {k}) = Cardinality(Created) + 1
  BY CreatedFinite, FS_AddElement
<1>3. Created \cup {k} \subseteq Calls
  BY DEF Created
<1>4. Cardinality(Created \cup {k}) <= MaxCalls
  BY <1>1, <1>3, FS_Subset
<1> QED
  BY <1>2, <1>4, CreatedFinite, ClientAssumption

----------------------------------------------------------------------------
\* Types are kept

LEMMA InitTypeInv == Init => TypeInv
<1> SUFFICES ASSUME Init PROVE TypeInv
  OBVIOUS
<1>a. 0 \in Sockets /\ 0 \in 0..MaxCalls
  BY ClientAssumption DEF Sockets
<1>1. TypeOK
  BY <1>a DEF Init, TypeOK, Handshake, Reader, Thread
<1>2. Created = {}
  BY DEF Init, Created
<1>3. Numbered
  BY <1>2, FS_EmptySet DEF Init, Numbered
<1> QED
  BY <1>1, <1>3 DEF TypeInv

\* A step that leaves the handshakes on their side of the creation of a socket.
LEMMA SameCreated ==
    ASSUME TypeInv, sockets' = sockets,
           \A k \in Calls : handshake'[k].at \in {"none", "start", "closed"}
                                <=> handshake[k].at \in {"none", "start", "closed"}
    PROVE  sockets' = Cardinality(Created')
<1>1. Created' = Created
  BY DEF Created
<1> QED
  BY <1>1 DEF TypeInv, Numbered


\* What a step of a handshake does to its thread ...
LEMMA HandshakeMoves ==
    ASSUME TypeInv, NEW k \in Calls
    PROVE  /\ HandshakeClose(k) =>
                 /\ handshake' \in [Calls -> Handshake]
                 /\ handshake[k].at = "start" /\ handshake'[k].at = "closed"
           /\ HandshakeOpen(k) =>
                 /\ handshake' \in [Calls -> Handshake]
                 /\ handshake[k].at = "closed" /\ handshake'[k].at = "opened"
           /\ HandshakeCall(k) =>
                 /\ handshake' \in [Calls -> Handshake]
                 /\ handshake[k].at = "opened"
                 /\ IF socket = 0 THEN handshake'[k].at = "done"
                    ELSE handshake'[k].at = "waiting" /\ handshake'[k].sock = socket
           /\ HandshakeReceive(k) =>
                 /\ handshake' \in [Calls -> Handshake]
                 /\ handshake[k].at = "waiting" /\ handshake'[k].at \in {"answered", "done"}
                 /\ handshake'[k].at = "answered" =>
                       handshake[k].sock \in open /\ Waiting(handshake[k].sock) # {}
           /\ HandshakeReset(k) =>
                 /\ handshake' \in [Calls -> Handshake]
                 /\ handshake[k].at = "waiting" /\ handshake'[k].at = "done"
           /\ HandshakeConfirm(k) =>
                 /\ handshake' \in [Calls -> Handshake]
                 /\ handshake[k].at = "answered"
                 /\ handshake'[k].at = (IF socket = 0 THEN "done" ELSE "confirmed")
           /\ HandshakeEnd(k) =>
                 /\ handshake' \in [Calls -> Handshake]
                 /\ handshake[k].at = "confirmed" /\ handshake'[k].at = "done"
           /\ HandshakeStep(k) \/ HandshakeReset(k) =>
                 \A j \in Calls : j # k => handshake'[j] = handshake[j]
<1> USE DEF HandshakeSteps
<1>0. handshake \in [Calls -> Handshake] /\ socket \in Sockets
  BY DEF TypeInv, TypeOK
<1> DEFINE Others == handshake' \in [Calls -> Handshake]
                     /\ \A j \in Calls : j # k => handshake'[j] = handshake[j]
<1>1. ASSUME HandshakeClose(k)
      PROVE  Others /\ handshake[k].at = "start" /\ handshake'[k].at = "closed"
  BY <1>0, <1>1, HandshakeGoes DEF HandshakeClose
<1>2. ASSUME HandshakeOpen(k)
      PROVE  Others /\ handshake[k].at = "closed" /\ handshake'[k].at = "opened"
  BY <1>0, <1>2, HandshakeGoes DEF HandshakeOpen
<1>3. ASSUME HandshakeCall(k)
      PROVE  /\ Others /\ handshake[k].at = "opened"
             /\ IF socket = 0 THEN handshake'[k].at = "done"
                ELSE handshake'[k].at = "waiting" /\ handshake'[k].sock = socket
  <2>1. CASE socket = 0
    BY <1>0, <1>3, <2>1, HandshakeGoes DEF HandshakeCall
  <2>2. CASE socket # 0
    BY <1>0, <1>3, <2>2, HandshakeWaits DEF HandshakeCall
  <2> QED
    BY <2>1, <2>2
<1>4. ASSUME HandshakeReceive(k)
      PROVE  /\ Others /\ handshake[k].at = "waiting" /\ handshake'[k].at \in {"answered", "done"}
             /\ handshake'[k].at = "answered" =>
                   handshake[k].sock \in open /\ Waiting(handshake[k].sock) # {}
  <2> DEFINE s == handshake[k].sock
  <2>1. CASE s \notin open
    <3>1. handshake[k].at = "waiting" /\ handshake' = Goto(handshake, k, "done")
      BY <1>4, <2>1 DEF HandshakeReceive
    <3> QED
      BY <1>0, <3>1, HandshakeGoes
  <2>2. CASE s \in open
    <3>1. /\ handshake[k].at = "waiting" /\ Waiting(s) # {}
          /\ \/ handshake' = Goto(handshake, k, "answered")
             \/ handshake' = Goto(handshake, k, "done")
      BY <1>4, <2>2 DEF HandshakeReceive
    <3> QED
      BY <1>0, <2>2, <3>1, HandshakeGoes
  <2> QED
    BY <2>1, <2>2
<1>5. ASSUME HandshakeReset(k)
      PROVE  Others /\ handshake[k].at = "waiting" /\ handshake'[k].at = "done"
  BY <1>0, <1>5, HandshakeGoes DEF HandshakeReset
<1>6. ASSUME HandshakeConfirm(k)
      PROVE  /\ Others /\ handshake[k].at = "answered"
             /\ handshake'[k].at = (IF socket = 0 THEN "done" ELSE "confirmed")
  <2>1. CASE socket = 0
    BY <1>0, <1>6, <2>1, HandshakeGoes DEF HandshakeConfirm
  <2>2. CASE socket # 0
    BY <1>0, <1>6, <2>2, HandshakeGoes DEF HandshakeConfirm
  <2> QED
    BY <2>1, <2>2
<1>7. ASSUME HandshakeEnd(k)
      PROVE  Others /\ handshake[k].at = "confirmed" /\ handshake'[k].at = "done"
  BY <1>0, <1>7, HandshakeGoes DEF HandshakeEnd
<1> QED
  BY <1>1, <1>2, <1>3, <1>4, <1>5, <1>6, <1>7 DEF HandshakeStep

\* ... and to everything else.
LEMMA HandshakeType ==
    ASSUME TypeInv, NEW k \in Calls, HandshakeStep(k) \/ HandshakeReset(k)
    PROVE  TypeInv'
<1> USE NumberFacts
<1>0. k <= MaxCalls /\ \A j \in Calls : j # k => handshake'[j] = handshake[j]
  BY HandshakeMoves
<1>1. CASE HandshakeClose(k)
  <2>1. handshake' \in [Calls -> Handshake] /\ handshake[k].at = "start" /\ handshake'[k].at = "closed"
    BY <1>1, HandshakeMoves
  <2>2. sockets' = Cardinality(Created')
    BY <1>0, <1>1, <2>1, SameCreated DEF HandshakeClose
  <2>3. /\ UNCHANGED <<app, calls, state, sockets, reader, called, confirmed, inbox, timely, silent>>
        /\ open' \subseteq open /\ socket' = 0
    BY <1>1 DEF HandshakeClose, history
  <2> QED
    BY <1>0, <2>1, <2>2, <2>3 DEF TypeInv, TypeOK, Numbered, Sockets
<1>2. CASE HandshakeOpen(k)
  <2>1. handshake' \in [Calls -> Handshake] /\ handshake[k].at = "closed" /\ handshake'[k].at = "opened"
    BY <1>2, HandshakeMoves
  <2>2. k \notin Created /\ Created' = Created \cup {k}
    BY <1>0, <2>1 DEF Created
  <2>3. sockets' = Cardinality(Created') /\ sockets < MaxCalls
    BY <1>2, <2>2, SocketsLeft DEF HandshakeOpen, TypeInv, Numbered
  <2>4. sockets + 1 \in Sockets /\ sockets \in Nat
    BY <2>3 DEF TypeInv, TypeOK, Sockets
  <2>5. /\ UNCHANGED <<app, calls, state, reader, called, confirmed, inbox, timely, silent>>
        /\ sockets' = sockets + 1 /\ socket' = sockets + 1 /\ open' = open \cup {sockets + 1}
    BY <1>2 DEF HandshakeOpen, history
  <2>6. TypeOK'
    BY <2>1, <2>4, <2>5 DEF TypeInv, TypeOK
  <2>7. Numbered'
    <3>1. 1..sockets \subseteq 1..sockets' /\ sockets + 1 \in 1..sockets'
      BY <2>4, <2>5
    <3> QED
      BY <1>0, <2>1, <2>3, <2>4, <2>5, <3>1 DEF TypeInv, Numbered
  <2> QED
    BY <2>6, <2>7 DEF TypeInv
<1>3. CASE HandshakeCall(k)
  <2>1. /\ handshake' \in [Calls -> Handshake]
        /\ handshake[k].at = "opened" /\ handshake'[k].at \in {"waiting", "done"}
    BY <1>3, HandshakeMoves
  <2>2. sockets' = Cardinality(Created')
    BY <1>0, <1>3, <2>1, SameCreated DEF HandshakeCall
  <2>3. /\ UNCHANGED <<app, calls, state, socket, sockets, open, reader, confirmed, inbox, timely, silent>>
        /\ called' \subseteq called \cup ({socket} \ {0})
    BY <1>3 DEF HandshakeCall, history
  <2> QED
    BY <1>0, <2>1, <2>2, <2>3 DEF TypeInv, TypeOK, Numbered
<1>4. CASE HandshakeReceive(k) \/ HandshakeReset(k)
  <2>1. /\ handshake' \in [Calls -> Handshake]
        /\ handshake[k].at = "waiting" /\ handshake'[k].at \in {"answered", "done"}
    BY <1>4, HandshakeMoves
  <2>2. sockets' = Cardinality(Created')
    BY <1>0, <1>4, <2>1, SameCreated DEF HandshakeReceive, HandshakeReset
  <2>3. inbox' \subseteq inbox /\ timely' = timely /\ silent' \in BOOLEAN
    BY <1>4 DEF HandshakeReceive, HandshakeReset, history, TypeInv, TypeOK
  <2>4. UNCHANGED <<app, calls, state, socket, sockets, open, reader, called, confirmed>>
    BY <1>4 DEF HandshakeReceive, HandshakeReset
  <2> QED
    BY <1>0, <2>1, <2>2, <2>3, <2>4 DEF TypeInv, TypeOK, Numbered
<1>5. CASE HandshakeConfirm(k)
  <2>1. /\ handshake' \in [Calls -> Handshake]
        /\ handshake[k].at = "answered" /\ handshake'[k].at \in {"confirmed", "done"}
    BY <1>5, HandshakeMoves
  <2>2. sockets' = Cardinality(Created')
    BY <1>0, <1>5, <2>1, SameCreated DEF HandshakeConfirm
  <2>3. /\ UNCHANGED <<app, calls, state, socket, sockets, open, reader, called, inbox, timely, silent>>
        /\ confirmed' \subseteq confirmed \cup ({socket} \ {0})
    BY <1>5 DEF HandshakeConfirm, history
  <2> QED
    BY <1>0, <2>1, <2>2, <2>3 DEF TypeInv, TypeOK, Numbered
<1>6. CASE HandshakeEnd(k)
  <2>1. handshake' \in [Calls -> Handshake] /\ handshake[k].at = "confirmed" /\ handshake'[k].at = "done"
    BY <1>6, HandshakeMoves
  <2>2. sockets' = Cardinality(Created')
    BY <1>0, <1>6, <2>1, SameCreated DEF HandshakeEnd
  <2> QED
    BY <1>0, <1>6, <2>1, <2>2 DEF HandshakeEnd, TypeInv, TypeOK, Numbered, history
<1> QED
  BY <1>1, <1>2, <1>3, <1>4, <1>5, <1>6 DEF HandshakeStep

\* The same of a reader.
LEMMA ReaderMoves ==
    ASSUME TypeInv, NEW k \in Calls, ReaderStep(k) \/ ReaderReset(k)
    PROVE  /\ reader' \in [Calls -> Reader]
           /\ \A j \in Calls : j # k => reader'[j] = reader[j]
           /\ reader[k].at \in {"loop", "peek", "handle", "leave"} /\ reader'[k].at # "none"
           /\ reader'[k].at = "peek" =>
                 /\ reader[k].at = "loop" /\ reader'[k].sock = socket
                 /\ state # "DISCONNECTED" /\ socket # 0
           /\ reader'[k].at = "handle" => reader[k].sock \in open
           /\ reader'[k].at = "leave" =>
                 \/ ReaderLoop(k) /\ (state = "DISCONNECTED" \/ socket = 0)
                 \/ ReaderPeek(k) /\ reader[k].sock \notin open
                 \/ ReaderReset(k)
           /\ reader'[k].at = "done" => ReaderLeave(k)
           /\ reader'[k].at = "loop" =>
                 \/ ReaderHandle(k)
                 \/ reader[k].at = "peek" /\ reader[k].sock \notin open
<1> USE DEF ReaderSteps
<1>0. reader \in [Calls -> Reader] /\ socket \in Sockets
  BY DEF TypeInv, TypeOK
<1>1. CASE ReaderLoop(k)
  <2>1. CASE state = "DISCONNECTED" \/ socket = 0
    BY <1>0, <1>1, <2>1, ReaderGoes DEF ReaderLoop
  <2>2. CASE ~(state = "DISCONNECTED" \/ socket = 0)
    BY <1>0, <1>1, <2>2, ReaderPeeks DEF ReaderLoop
  <2> QED
    BY <2>1, <2>2
<1>2. CASE ReaderPeek(k)
  <2>1. reader[k].at = "peek"
        /\ \/ reader' = Goto(reader, k, "loop") /\ reader[k].sock \notin open
           \/ reader' = Goto(reader, k, "leave") /\ reader[k].sock \notin open
           \/ reader' = Goto(reader, k, "handle") /\ reader[k].sock \in open
    BY <1>2 DEF ReaderPeek
  <2> QED
    BY <1>0, <1>2, <2>1, ReaderGoes
<1>3. CASE ReaderHandle(k)
  BY <1>0, <1>3, ReaderGoes DEF ReaderHandle
<1>4. CASE ReaderLeave(k)
  BY <1>0, <1>4, ReaderGoes DEF ReaderLeave
<1>5. CASE ReaderReset(k)
  BY <1>0, <1>5, ReaderGoes DEF ReaderReset
<1> QED
  BY <1>1, <1>2, <1>3, <1>4, <1>5 DEF ReaderStep

LEMMA ReaderType ==
    ASSUME TypeInv, NEW k \in Calls, ReaderStep(k) \/ ReaderReset(k)
    PROVE  /\ TypeInv'
           /\ inbox' \subseteq inbox /\ state' \in {state, "DISCONNECTED"}
           /\ UNCHANGED <<app, calls, socket, sockets, open, handshake, called, confirmed, timely, silent>>
<1>1. /\ reader' \in [Calls -> Reader] /\ reader[k].at # "none"
      /\ \A j \in Calls : j # k => reader'[j] = reader[j]
  BY ReaderMoves
<1>2. /\ inbox' \subseteq inbox /\ state' \in {state, "DISCONNECTED"}
      /\ UNCHANGED <<app, calls, socket, sockets, open, handshake, called, confirmed, timely, silent>>
  <2>1. CASE ReaderHandle(k)
    BY <2>1 DEF ReaderHandle, history
  <2>2. CASE ReaderLoop(k) \/ ReaderPeek(k) \/ ReaderLeave(k) \/ ReaderReset(k)
    BY <2>2 DEF ReaderLoop, ReaderPeek, ReaderLeave, ReaderReset, history
  <2> QED
    BY <2>1, <2>2 DEF ReaderStep
<1>3. sockets' = Cardinality(Created')
  BY <1>2, SameCreated
<1> QED
  BY <1>1, <1>2, <1>3 DEF TypeInv, TypeOK, Numbered

\* The application.
LEMMA AppType ==
    ASSUME TypeInv, Connect \/ Connected \/ GiveUp \/ Fail \/ Disconnect
    PROVE  TypeInv'
<1> USE NumberFacts
<1>1. CASE Connect
  <2>1. calls + 1 \in Calls
    BY <1>1 DEF Connect, Calls, TypeInv, TypeOK
  <2>2. /\ handshake' \in [Calls -> Handshake] /\ handshake'[calls + 1].at = "start"
        /\ \A j \in Calls : j # calls + 1 => handshake'[j] = handshake[j]
    BY <1>1, <2>1, HandshakeGoes DEF Connect, HandshakeSteps, TypeInv, TypeOK
  <2>3. handshake[calls + 1].at = "none"
    BY <2>1 DEF TypeInv, Numbered, TypeOK
  <2>4. sockets' = Cardinality(Created')
    BY <1>1, <2>1, <2>2, <2>3, SameCreated DEF Connect
  <2>5. /\ UNCHANGED <<sockets, reader, called, confirmed, inbox, silent>>
        /\ app' = "polling" /\ calls' = calls + 1 /\ calls < MaxCalls
        /\ state' = "HANDSHAKE" /\ open' \subseteq open /\ socket' = 0
        /\ timely' \in BOOLEAN
    BY <1>1 DEF Connect, Slept, TypeInv, TypeOK
  <2>6. TypeOK'
    BY <2>2, <2>5 DEF TypeInv, TypeOK, Sockets
  <2>7. \A k \in Calls : k > calls' => k # calls + 1 /\ k > calls
    BY <2>5 DEF TypeInv, TypeOK
  <2>8. Numbered'
    BY <2>2, <2>4, <2>5, <2>7 DEF TypeInv, TypeOK, Numbered
  <2> QED
    BY <2>6, <2>8 DEF TypeInv
<1>2. CASE Connected
  <2>1. calls \in Calls \/ calls = 0
    BY DEF TypeInv, TypeOK, Calls
  <2>2. /\ reader' \in [Calls -> Reader]
        /\ \A j \in Calls : j # calls => reader'[j] = reader[j]
    <3>1. CASE calls \in Calls
      BY <1>2, <3>1, ReaderGoes DEF Connected, ReaderSteps, TypeInv, TypeOK
    <3>2. CASE calls \notin Calls
      BY <1>2, <3>2 DEF Connected, Goto, TypeInv, TypeOK
    <3> QED
      BY <3>1, <3>2
  <2>3. sockets' = Cardinality(Created')
    BY <1>2, SameCreated DEF Connected
  <2>4. /\ UNCHANGED <<calls, state, socket, sockets, open, handshake, called, confirmed, inbox,
                       timely, silent>>
        /\ app' = "ready"
    BY <1>2 DEF Connected, history
  <2> QED
    BY <2>2, <2>3, <2>4 DEF TypeInv, TypeOK, Numbered
<1>3. CASE GiveUp \/ Fail \/ Disconnect
  <2>1. /\ UNCHANGED <<calls, sockets, handshake, reader, called, confirmed, inbox>>
        /\ app' \in {"ready", "failing"} /\ state' \in {state, "DISCONNECTED"}
        /\ open' \subseteq open /\ socket' \in {socket, 0}
    BY <1>3 DEF GiveUp, Fail, Disconnect, TypeInv, TypeOK
  <2>2. timely' \in BOOLEAN /\ silent' \in BOOLEAN
    <3>1. CASE GiveUp
      BY <3>1, Zenon DEF GiveUp, Slept, TypeInv, TypeOK
    <3>2. CASE Fail \/ Disconnect
      BY <3>2 DEF Fail, Disconnect, TypeInv, TypeOK, history
    <3> QED
      BY <1>3, <3>1, <3>2
  <2>3. sockets' = Cardinality(Created')
    BY <2>1, SameCreated
  <2> QED
    BY <2>1, <2>2, <2>3 DEF TypeInv, TypeOK, Numbered, Sockets
<1> QED
  BY <1>1, <1>2, <1>3

\* The server and the network.
LEMMA NetworkType ==
    ASSUME TypeInv,
           \/ \E s \in Sockets : Respond(s) \/ Send(s)
           \/ \E d \in inbox : Drop(d)
    PROVE  /\ TypeInv'
           /\ UNCHANGED <<app, calls, state, socket, sockets, open, handshake, reader, called,
                          confirmed, silent>>
           /\ timely' => timely
<1>1. UNCHANGED <<app, calls, state, socket, sockets, open, handshake, reader, called, confirmed, silent>>
  BY DEF Respond, Send, Drop, history
<1>2. (timely' \in BOOLEAN) /\ (timely' => timely)
  <2>1. CASE \E s \in Sockets : Respond(s)
    BY <2>1, Zenon DEF Respond, TypeInv, TypeOK
  <2>2. CASE ~ \E s \in Sockets : Respond(s)
    BY <2>2 DEF Send, Drop, history, TypeInv, TypeOK
  <2> QED
    BY <2>1, <2>2
<1>3. \A d \in inbox' : d \in inbox \/ \E s \in called \cup confirmed :
           d \in {[sock |-> s, kind |-> "response"], [sock |-> s, kind |-> "payload"]}
  BY DEF Respond, Send, Drop
<1>4. sockets' = Cardinality(Created')
  BY <1>1, SameCreated
<1>5. inbox' \subseteq Datagram /\ \A d \in inbox' : d.sock \in 1..sockets
  BY <1>3 DEF TypeInv, TypeOK, Numbered, Datagram
<1> QED
  BY <1>1, <1>2, <1>4, <1>5 DEF TypeInv, TypeOK, Numbered

LEMMA TypeStep == TypeInv /\ [Next]_vars => TypeInv'
<1> SUFFICES ASSUME TypeInv, [Next]_vars PROVE TypeInv'
  OBVIOUS
<1>1. CASE Connect \/ Connected \/ GiveUp \/ Fail \/ Disconnect
  BY <1>1, AppType
<1>2. CASE \E k \in Calls : HandshakeStep(k) \/ HandshakeReset(k)
  BY <1>2, HandshakeType
<1>3. CASE \E k \in Calls : ReaderStep(k) \/ ReaderReset(k)
  BY <1>3, ReaderType
<1>4. CASE \/ \E s \in Sockets : Respond(s) \/ Send(s)
           \/ \E d \in inbox : Drop(d)
  BY <1>4, NetworkType
<1>5. CASE UNCHANGED vars
  BY <1>5 DEF vars, history, TypeInv, TypeOK, Numbered, Created
<1> QED
  BY <1>1, <1>2, <1>3, <1>4, <1>5 DEF Next

\* Whatever the threads of the client do in whatever order: no call creates more than one
\* socket, and nobody knows a socket that was not created.
THEOREM ClientTypes == Spec => []TypeOK
<1>1. TypeInv => TypeOK
  BY DEF TypeInv
<1> QED
  BY <1>1, InitTypeInv, TypeStep, PTL DEF Spec

----------------------------------------------------------------------------
\* The calls go one after the other

LEMMA InitClientInv == Init => ClientInv
BY InitTypeInv DEF Init, ClientInv, OneAtATime, Ready, Calls

\* What the sleeps find: threads that can go no further.
LEMMA SleptFacts ==
    ASSUME ClientInv, Slept, timely'
    PROVE  /\ timely
           /\ \A k \in Calls :
                 /\ handshake[k].at \notin {"start", "closed", "opened", "answered", "confirmed"}
                 /\ handshake[k].at = "waiting" =>
                       handshake[k].sock \in open /\ Waiting(handshake[k].sock) = {}
                 /\ reader[k].at \notin {"loop", "leave"}
                 /\ reader[k].at = "peek" => reader[k].sock \in open
                 /\ reader[k].at = "handle" => socket # 0
BY DEF Slept, HandshakeRuns, ReaderRuns, Wakes

LEMMA ConnectInOrder == ASSUME ClientInv, Connect, timely', TypeInv' PROVE OneAtATime'
<1>1. /\ timely /\ Slept /\ app = "ready" /\ state = "DISCONNECTED" /\ calls < MaxCalls
      /\ app' = "polling" /\ state' = "HANDSHAKE" /\ calls' = calls + 1
      /\ open' = open \ {socket} /\ socket' = 0
      /\ UNCHANGED <<reader, confirmed>>
      /\ handshake' = Goto(handshake, calls + 1, "start")
  BY SleptFacts DEF Connect
<1>2. calls \in Nat /\ calls + 1 \in Calls
  BY <1>1, NumberFacts DEF ClientInv, TypeInv, TypeOK
<1>3. /\ handshake'[calls + 1].at = "start"
      /\ \A k \in Calls : k # calls + 1 => handshake'[k] = handshake[k]
  BY <1>1, <1>2, HandshakeGoes DEF HandshakeSteps, ClientInv, TypeInv, TypeOK
<1>4. open \subseteq {socket} /\ Ready /\ \A k \in Calls : k < calls => Over(k)
  BY <1>1 DEF ClientInv, OneAtATime
<1>5. calls > 0 => calls \in Calls /\ Over(calls)
  <2>1. calls > 0 => calls \in Calls
    BY <1>1, <1>2, NumberFacts
  <2> SUFFICES ASSUME calls > 0 PROVE Over(calls)
    BY <2>1
  <2>2. /\ handshake[calls].at = "done"
           \/ (handshake[calls].at = "waiting" /\ handshake[calls].sock \notin open)
        /\ reader[calls].at \in {"loop", "peek", "handle"} => socket = 0
    BY <1>1, <1>4 DEF Ready
  <2>3. handshake[calls].at = "done"
    BY <1>1, <2>1, <2>2, SleptFacts
  <2>4. (open \subseteq {0} /\ 0 \notin open) \/ socket # 0
    BY <1>4 DEF ClientInv, TypeInv, Numbered
  <2>5. reader[calls].at \notin {"loop", "peek", "handle", "leave"}
    BY <1>1, <1>4, <2>1, <2>2, <2>4, SleptFacts
  <2>6. reader[calls].at \in {"none", "loop", "peek", "handle", "leave", "done"}
    BY <2>1 DEF ClientInv, TypeInv, TypeOK, Reader, Thread
  <2> QED
    BY <2>3, <2>5, <2>6 DEF Over
<1>6. \A k \in Calls : k < calls' => Over(k)'
  <2> SUFFICES ASSUME NEW k \in Calls, k < calls + 1 PROVE Over(k)'
    BY <1>1
  <2>1. k \in Nat /\ k # calls + 1 /\ (k < calls \/ k = calls) /\ k > 0
    BY <1>2, NumberFacts
  <2> QED
    BY <1>1, <1>3, <1>4, <1>5, <2>1 DEF Over
<1>7. Polling'
  <2>1. reader[calls + 1].at = "none"
    BY <1>2 DEF ClientInv, TypeInv, Numbered
  <2> QED
    BY <1>1, <1>2, <1>3, <2>1 DEF Polling
<1> QED
  BY <1>1, <1>4, <1>6, <1>7 DEF OneAtATime

LEMMA ConnectedInOrder == ASSUME ClientInv, Connected, timely' PROVE OneAtATime'
<1>1. /\ timely /\ app = "polling" /\ state = "IDLE" /\ app' = "ready"
      /\ UNCHANGED <<calls, state, socket, open, handshake, confirmed>>
      /\ reader' = Goto(reader, calls, "loop")
  BY DEF Connected, history
<1>2. open \subseteq {socket} /\ Polling /\ \A k \in Calls : k < calls => Over(k)
  BY <1>1 DEF ClientInv, OneAtATime
<1>3. calls \in Calls
  BY <1>2, NumberFacts DEF Polling, ClientInv, TypeInv, TypeOK
<1>4. reader'[calls].at = "loop" /\ \A k \in Calls : k # calls => reader'[k] = reader[k]
  BY <1>1, <1>3, ReaderGoes DEF ReaderSteps, ClientInv, TypeInv, TypeOK
<1>5. \A k \in Calls : k < calls => k # calls
  BY NumberFacts, <1>3
<1> QED
  BY <1>1, <1>2, <1>4, <1>5 DEF OneAtATime, Over, Polling, Ready

LEMMA GiveUpInOrder == ASSUME ClientInv, GiveUp, timely' PROVE OneAtATime'
<1>1. /\ timely /\ Slept /\ app = "polling" /\ state # "IDLE" /\ app' = "failing"
      /\ UNCHANGED <<calls, state, socket, open, handshake, reader, confirmed, inbox>>
  BY SleptFacts DEF GiveUp
<1>2. open \subseteq {socket} /\ Polling /\ \A k \in Calls : k < calls => Over(k)
  BY <1>1 DEF ClientInv, OneAtATime
<1>3. calls \in Calls
  BY <1>2, NumberFacts DEF Polling, ClientInv, TypeInv, TypeOK
<1>4. handshake[calls].at \in {"waiting", "done"}
  <2>1. handshake[calls].at \in HandshakeSteps
    BY <1>3 DEF ClientInv, TypeInv, TypeOK, Handshake, Thread, HandshakeSteps
  <2> QED
    BY <1>1, <1>2, <1>3, <2>1, SleptFacts DEF HandshakeSteps, Polling
<1>5. handshake[calls].at = "waiting" => Waiting(socket) = {}
  BY <1>1, <1>2, <1>3, SleptFacts DEF Polling
<1>6. Failing
  BY <1>1, <1>2, <1>4, <1>5 DEF Polling, Failing
<1> QED
  BY <1>1, <1>2, <1>6 DEF OneAtATime, Over, Failing, Waiting

LEMMA FailInOrder == ASSUME ClientInv, Fail, timely' PROVE OneAtATime'
<1>1. /\ timely /\ app = "failing" /\ app' = "ready" /\ state' = "DISCONNECTED"
      /\ open' = open \ {socket} /\ socket' = 0
      /\ UNCHANGED <<calls, handshake, reader>>
  BY DEF Fail, history
<1>2. open \subseteq {socket} /\ Failing /\ \A k \in Calls : k < calls => Over(k)
  BY <1>1 DEF ClientInv, OneAtATime
<1> QED
  BY <1>1, <1>2 DEF OneAtATime, Over, Failing, Ready

LEMMA DisconnectInOrder == ASSUME ClientInv, Disconnect, timely' PROVE OneAtATime'
<1>1. /\ timely /\ app = "ready" /\ state = "IDLE" /\ app' = "ready" /\ state' = "DISCONNECTED"
      /\ open' = open \ {socket} /\ socket' = 0
      /\ UNCHANGED <<calls, handshake, reader>>
  BY DEF Disconnect, history
<1>2. open \subseteq {socket} /\ Ready /\ \A k \in Calls : k < calls => Over(k)
  BY <1>1 DEF ClientInv, OneAtATime
<1> QED
  BY <1>1, <1>2 DEF OneAtATime, Over, Ready

\* The only handshake that goes on is that of the last call.
LEMMA LastHandshake ==
    ASSUME ClientInv, timely, NEW k \in Calls, handshake[k].at \notin {"none", "done"}
    PROVE  k = calls /\ open \subseteq {socket} /\ \A j \in Calls : j < calls => Over(j)
<1>1. \A j \in Calls : j < calls => Over(j)
  BY DEF ClientInv, OneAtATime
<1>2. ~(k < calls) /\ ~(k > calls)
  BY <1>1 DEF Over, ClientInv, TypeInv, Numbered
<1>3. k \in Nat /\ calls \in Nat
  BY NumberFacts DEF ClientInv, TypeInv, TypeOK
<1> QED
  BY <1>1, <1>2, <1>3 DEF ClientInv, OneAtATime

LEMMA HandshakeInOrder ==
    ASSUME ClientInv, NEW k \in Calls, HandshakeStep(k) \/ HandshakeReset(k), timely'
    PROVE  OneAtATime'
<1>0. /\ timely
      /\ UNCHANGED <<app, calls, reader>>
      /\ \A j \in Calls : j # k => handshake'[j] = handshake[j]
  BY HandshakeMoves
  DEF HandshakeStep, HandshakeReset, HandshakeClose, HandshakeOpen, HandshakeCall, HandshakeReceive,
      HandshakeConfirm, HandshakeEnd, history, ClientInv
<1>1. handshake[k].at \notin {"none", "done"}
  BY HandshakeMoves DEF HandshakeStep, ClientInv
<1>2. k = calls /\ calls > 0 /\ open \subseteq {socket}
  BY <1>0, <1>1, LastHandshake, NumberFacts
<1>3. \A j \in Calls : j < calls => Over(j) /\ j # k
  BY <1>0, <1>1, <1>2, LastHandshake, NumberFacts
<1>4. \A j \in Calls : j < calls' => Over(j)'
  BY <1>0, <1>3 DEF Over
<1>5. /\ app = "polling" => Polling
      /\ app = "failing" => Failing
      /\ app = "ready" => Ready
      /\ app \in {"polling", "failing", "ready"}
  BY <1>0 DEF ClientInv, OneAtATime, TypeInv, TypeOK
<1>6. 0 \notin open /\ socket \in 0..sockets /\ sockets \in Nat
  BY DEF ClientInv, TypeInv, TypeOK, Numbered, Sockets
<1>7. CASE HandshakeClose(k)
  <2>1. /\ handshake[k].at = "start" /\ handshake'[k].at = "closed"
        /\ open' = open \ {socket} /\ socket' = 0 /\ UNCHANGED <<state, confirmed>>
    BY <1>7, HandshakeMoves DEF HandshakeClose, ClientInv
  <2>2. app = "polling" /\ Polling /\ Polling'
    BY <1>0, <1>2, <1>5, <2>1 DEF Failing, Ready, Polling
  <2> QED
    BY <1>0, <1>2, <1>4, <2>1, <2>2 DEF OneAtATime
<1>8. CASE HandshakeOpen(k)
  <2>1. /\ handshake[k].at = "closed" /\ handshake'[k].at = "opened"
        /\ socket' = sockets + 1 /\ open' = open \cup {sockets + 1} /\ UNCHANGED <<state, confirmed>>
    BY <1>8, HandshakeMoves DEF HandshakeOpen, ClientInv
  <2>2. app = "polling" /\ Polling
    BY <1>2, <1>5, <2>1 DEF Failing, Ready
  <2>3. socket = 0 /\ open = {}
    BY <1>2, <1>6, <2>1, <2>2 DEF Polling
  <2>4. sockets + 1 \notin confirmed
    BY <1>6 DEF ClientInv, TypeInv, Numbered
  <2>5. Polling'
    BY <1>0, <1>2, <2>1, <2>2, <2>4 DEF Polling
  <2> QED
    BY <1>0, <1>4, <2>1, <2>2, <2>3, <2>5 DEF OneAtATime
<1>9. CASE HandshakeCall(k)
  <2>1. /\ handshake[k].at = "opened" /\ UNCHANGED <<state, socket, open, confirmed>>
        /\ IF socket = 0 THEN handshake'[k].at = "done"
           ELSE handshake'[k].at = "waiting" /\ handshake'[k].sock = socket
    BY <1>9, HandshakeMoves DEF HandshakeCall, ClientInv
  <2>2. app = "polling" /\ Polling
    BY <1>2, <1>5, <2>1 DEF Failing, Ready
  <2>3. socket # 0
    BY <1>2, <1>6, <2>1, <2>2 DEF Polling
  <2>4. Polling'
    BY <1>0, <1>2, <2>1, <2>2, <2>3 DEF Polling
  <2> QED
    BY <1>0, <1>2, <1>4, <2>1, <2>2, <2>4 DEF OneAtATime
<1>10. CASE HandshakeReceive(k) \/ HandshakeReset(k)
  <2>1. /\ handshake[k].at = "waiting" /\ UNCHANGED <<state, socket, open, confirmed>>
        /\ handshake'[k].at \in {"answered", "done"} /\ inbox' \subseteq inbox
        /\ handshake'[k].at = "answered" =>
              handshake[k].sock \in open /\ Waiting(handshake[k].sock) # {}
    BY <1>10, HandshakeMoves DEF HandshakeReceive, HandshakeReset, ClientInv
  <2>2. CASE app = "polling"
    BY <1>0, <1>2, <1>4, <1>5, <2>1, <2>2 DEF OneAtATime, Polling
  <2>3. CASE app = "failing"
    BY <1>0, <1>2, <1>4, <1>5, <2>1, <2>3 DEF OneAtATime, Failing
  <2>4. CASE app = "ready"
    BY <1>0, <1>2, <1>4, <1>5, <2>1, <2>4 DEF OneAtATime, Ready
  <2> QED
    BY <1>5, <2>2, <2>3, <2>4
<1>11. CASE HandshakeConfirm(k)
  <2>1. /\ handshake[k].at = "answered" /\ UNCHANGED <<state, socket, open>>
        /\ handshake'[k].at = (IF socket = 0 THEN "done" ELSE "confirmed")
        /\ socket # 0 => confirmed' = confirmed \cup {socket}
    BY <1>11, HandshakeMoves DEF HandshakeConfirm, ClientInv
  <2>2. app = "polling" /\ Polling
    BY <1>2, <1>5, <2>1 DEF Failing, Ready
  <2>3. socket # 0
    BY <1>2, <1>6, <2>1, <2>2 DEF Polling
  <2>4. Polling'
    BY <1>0, <1>2, <2>1, <2>2, <2>3 DEF Polling
  <2> QED
    BY <1>0, <1>2, <1>4, <2>1, <2>2, <2>4 DEF OneAtATime
<1>12. CASE HandshakeEnd(k)
  <2>1. /\ handshake[k].at = "confirmed" /\ handshake'[k].at = "done"
        /\ state' = "IDLE" /\ UNCHANGED <<socket, open, confirmed>>
    BY <1>12, HandshakeMoves DEF HandshakeEnd, ClientInv
  <2>2. app = "polling" /\ Polling
    BY <1>2, <1>5, <2>1 DEF Failing, Ready
  <2>3. Polling'
    BY <1>0, <1>2, <2>1, <2>2 DEF Polling
  <2> QED
    BY <1>0, <1>2, <1>4, <2>1, <2>2, <2>3 DEF OneAtATime
<1> QED
  BY <1>7, <1>8, <1>9, <1>10, <1>11, <1>12 DEF HandshakeStep

\* The only reader is that of the last call, which the application no longer waits for.
LEMMA LastReader ==
    ASSUME ClientInv, timely, NEW k \in Calls, reader[k].at \notin {"none", "done"}
    PROVE  /\ k = calls /\ calls > 0 /\ app = "ready" /\ Ready
           /\ open \subseteq {socket} /\ \A j \in Calls : j < calls => Over(j)
<1>1. /\ open \subseteq {socket} /\ \A j \in Calls : j < calls => Over(j)
      /\ app = "polling" => Polling
      /\ app = "failing" => Failing
      /\ app = "ready" => Ready
      /\ app \in {"polling", "failing", "ready"}
  BY DEF ClientInv, OneAtATime, TypeInv, TypeOK
<1>2. ~(k < calls) /\ ~(k > calls)
  BY <1>1 DEF Over, ClientInv, TypeInv, Numbered
<1>3. k \in Nat /\ calls \in Nat /\ k > 0
  BY NumberFacts DEF ClientInv, TypeInv, TypeOK
<1>4. k = calls /\ calls > 0
  BY <1>2, <1>3
<1>5. app # "polling" /\ app # "failing"
  BY <1>1, <1>4 DEF Polling, Failing
<1> QED
  BY <1>1, <1>4, <1>5

LEMMA ReaderInOrder ==
    ASSUME ClientInv, NEW k \in Calls, ReaderStep(k) \/ ReaderReset(k), timely'
    PROVE  OneAtATime'
<1>0. TypeInv
  BY DEF ClientInv
<1>1. /\ UNCHANGED <<app, calls, socket, open, handshake, confirmed>> /\ timely
      /\ state' \in {state, "DISCONNECTED"}
  BY <1>0, ReaderType
<1>2. /\ reader[k].at \in {"loop", "peek", "handle", "leave"} /\ reader'[k].at # "none"
      /\ \A j \in Calls : j # k => reader'[j] = reader[j]
      /\ reader' \in [Calls -> Reader]
  BY <1>0, ReaderMoves
<1>3. /\ k = calls /\ calls > 0 /\ app = "ready" /\ Ready /\ open \subseteq {socket}
      /\ \A j \in Calls : j < calls => Over(j)
  BY <1>1, <1>2, LastReader
<1>4. \A j \in Calls : j < calls' => Over(j)'
  BY <1>1, <1>2, <1>3, NumberFacts DEF Over
<1>5. handshake[calls].at = "done"
  BY <1>2, <1>3 DEF Ready
<1>6. 0 \notin open
  BY DEF ClientInv, TypeInv, Numbered
<1>7. state' = "IDLE" =>
         reader'[k].at \in {"loop", "peek", "handle"} /\ (reader'[k].at = "peek" => reader'[k].sock = socket)
  <2> SUFFICES ASSUME state' = "IDLE"
               PROVE  reader'[k].at \in {"loop", "peek", "handle"}
                      /\ (reader'[k].at = "peek" => reader'[k].sock = socket)
    OBVIOUS
  <2>1. state = "IDLE" /\ socket \in open
    BY <1>1, <1>3 DEF Ready
  <2>2. reader'[k].at # "done" /\ ~ReaderReset(k)
    BY <1>0, ReaderMoves DEF ReaderLeave, ReaderReset
  <2>3. reader'[k].at # "leave"
    <3>1. ReaderPeek(k) => reader[k].sock = socket
      BY <1>3, <2>1 DEF ReaderPeek, Ready
    <3> QED
      BY <1>0, <1>6, <2>1, <2>2, <3>1, ReaderMoves
  <2>4. reader'[k].at = "peek" => reader'[k].sock = socket
    BY <1>0, ReaderMoves
  <2> QED
    BY <1>2, <2>2, <2>3, <2>4 DEF Reader, Thread
<1>8. state' = "DISCONNECTED" /\ reader'[k].at \in {"loop", "peek", "handle"} => socket = 0
  <2> SUFFICES ASSUME state' = "DISCONNECTED", reader'[k].at \in {"loop", "peek", "handle"}
               PROVE  socket = 0
    OBVIOUS
  <2>1. state = "DISCONNECTED"
    <3>1. ~ReaderReset(k) /\ ~ReaderLeave(k)
      BY <1>0, <1>2, ReaderGoes DEF ReaderReset, ReaderLeave, ReaderSteps, TypeInv, TypeOK
    <3> QED
      BY <3>1 DEF ReaderStep, ReaderLoop, ReaderPeek, ReaderHandle
  <2>2. reader[k].at \in {"loop", "peek", "handle"}
    <3>1. ~ReaderLeave(k)
      BY <1>0, <1>2, ReaderGoes DEF ReaderLeave, ReaderSteps, TypeInv, TypeOK
    <3> QED
      BY <3>1 DEF ReaderStep, ReaderLoop, ReaderPeek, ReaderHandle, ReaderReset
  <2> QED
    BY <1>3, <2>1, <2>2 DEF Ready
<1>9. Ready'
  BY <1>1, <1>3, <1>5, <1>7, <1>8 DEF Ready
<1> QED
  BY <1>1, <1>3, <1>4, <1>9 DEF OneAtATime

LEMMA NetworkInOrder ==
    ASSUME ClientInv, timely',
           \/ \E s \in Sockets : Respond(s) \/ Send(s)
           \/ \E d \in inbox : Drop(d)
    PROVE  OneAtATime'
<1>1. /\ UNCHANGED <<app, calls, state, socket, sockets, open, handshake, reader, called, confirmed,
                     silent>>
      /\ timely
  BY NetworkType DEF ClientInv
<1>2. /\ open \subseteq {socket} /\ \A k \in Calls : k < calls => Over(k)
      /\ app = "polling" => Polling
      /\ app = "failing" => Failing
      /\ app = "ready" => Ready
  BY <1>1 DEF ClientInv, OneAtATime
<1>3. app = "polling" => Polling'
  BY <1>1, <1>2 DEF Polling
<1>4. app = "ready" => Ready'
  BY <1>1, <1>2 DEF Ready
<1>5. app = "failing" => Failing'
  <2> SUFFICES ASSUME app = "failing", socket \in open, socket \notin confirmed, Waiting(socket) = {}
               PROVE  Waiting(socket)' = {}
    BY <1>1, <1>2 DEF Failing
  <2>1. ASSUME NEW s \in Sockets, Respond(s)
        PROVE  \A d \in inbox' : d \in inbox \/ d.sock # socket
    <3>1. s # socket
      BY <2>1 DEF Respond
    <3> QED
      BY <2>1, <3>1 DEF Respond
  <2>2. ASSUME NEW s \in Sockets, Send(s)
        PROVE  \A d \in inbox' : d \in inbox \/ d.sock # socket
    <3>1. s # socket
      BY <2>2 DEF Send
    <3> QED
      BY <2>2, <3>1 DEF Send
  <2>3. ASSUME NEW d \in inbox, Drop(d)
        PROVE  inbox' \subseteq inbox
    BY <2>3 DEF Drop
  <2>4. \A d \in inbox' : d \in inbox \/ d.sock # socket
    BY <2>1, <2>2, <2>3
  <2> QED
    BY <1>1, <2>4 DEF Waiting
<1> QED
  BY <1>1, <1>2, <1>3, <1>4, <1>5 DEF OneAtATime, Over

LEMMA ClientStep == ClientInv /\ [Next]_vars => ClientInv'
<1> SUFFICES ASSUME ClientInv, [Next]_vars PROVE ClientInv'
  OBVIOUS
<1>1. TypeInv'
  BY TypeStep DEF ClientInv
<1> SUFFICES ASSUME timely' PROVE OneAtATime'
  BY <1>1 DEF ClientInv, OneAtATime
<1>2. CASE Connect \/ Connected \/ GiveUp \/ Fail \/ Disconnect
  BY <1>1, <1>2, ConnectInOrder, ConnectedInOrder, GiveUpInOrder, FailInOrder, DisconnectInOrder
<1>3. CASE \E k \in Calls : HandshakeStep(k) \/ HandshakeReset(k)
  BY <1>3, HandshakeInOrder
<1>4. CASE \E k \in Calls : ReaderStep(k) \/ ReaderReset(k)
  BY <1>4, ReaderInOrder
<1>5. CASE \/ \E s \in Sockets : Respond(s) \/ Send(s)
           \/ \E d \in inbox : Drop(d)
  BY <1>5, NetworkInOrder
<1>6. CASE UNCHANGED vars
  BY <1>6 DEF vars, history, ClientInv, OneAtATime, Over, Polling, Failing, Ready, Waiting
<1> QED
  BY <1>2, <1>3, <1>4, <1>5, <1>6 DEF Next

LEMMA ClientInvariant == Spec => []ClientInv
BY InitClientInv, ClientStep, PTL DEF Spec

----------------------------------------------------------------------------
\* What it is for

\* As long as the sleeps are long enough no socket is forgotten before it is closed.
THEOREM SocketsAreClosed == Spec => []NoSocketLeaks
<1>1. ClientInv => NoSocketLeaks
  BY DEF ClientInv, OneAtATime, NoSocketLeaks
<1> QED
  BY <1>1, ClientInvariant, PTL

\* ... a client that says it is connected has an open socket that the server knows of, and a
\* thread that reads it ...
THEOREM ConnectedIsServed == Spec => []IdleIsServed
<1>1. ClientInv => IdleIsServed
  <2> SUFFICES ASSUME ClientInv, timely, app = "ready", state = "IDLE"
               PROVE  socket \in open \cap confirmed /\ \E k \in Calls : Reads(k)
    BY DEF IdleIsServed
  <2>1. /\ calls > 0 /\ socket \in open \cap confirmed
        /\ reader[calls].at \in {"loop", "peek", "handle"}
    BY DEF ClientInv, OneAtATime, Ready
  <2>2. calls \in Calls
    BY <2>1, NumberFacts DEF ClientInv, TypeInv, TypeOK
  <2> QED
    BY <2>1, <2>2 DEF Reads
<1> QED
  BY <1>1, ClientInvariant, PTL

\* ... the reader that ends, and disconnects the client, is that of the connection there is ...
THEOREM ReadersDisconnectTheirOwn == Spec => ReadersEndTheirOwn
<1>1. ClientInv /\ [Next]_vars
         => [timely' => \A k \in Calls : ReaderLeave(k) => k = calls /\ app = "ready"]_vars
  <2> SUFFICES ASSUME ClientInv, timely', NEW k \in Calls, ReaderLeave(k)
               PROVE  k = calls /\ app = "ready"
    OBVIOUS
  <2>1. timely /\ reader[k].at = "leave"
    BY DEF ReaderLeave, history
  <2> QED
    BY <2>1, LastReader
<1> QED
  BY <1>1, ClientInvariant, PTL DEF ReadersEndTheirOwn, Spec

\* ... and no reader takes a datagram from the socket a handshake waits on.
THEOREM HandshakesGetTheirs == Spec => ResponsesAreTheirs
<1>1. ClientInv /\ [Next]_vars
         => [timely' => \A k \in Calls : ReaderHandle(k) /\ inbox' # inbox
                => \A j \in Calls : handshake[j].at = "waiting" => handshake[j].sock # socket]_vars
  <2> SUFFICES ASSUME ClientInv, timely', NEW k \in Calls, ReaderHandle(k), inbox' # inbox,
                      NEW j \in Calls, handshake[j].at = "waiting", handshake[j].sock = socket
               PROVE  FALSE
    OBVIOUS
  <2>1. timely /\ reader[k].at = "handle" /\ socket # 0
    BY DEF ReaderHandle, history
  <2>2. k = calls /\ app = "ready" /\ Ready /\ calls > 0
    BY <2>1, LastReader
  <2>3. j = calls
    BY <2>1, LastHandshake
  <2> QED
    BY <2>1, <2>2, <2>3 DEF Ready, ClientInv, TypeInv, TypeOK
<1> QED
  BY <1>1, ClientInvariant, PTL DEF ResponsesAreTheirs, Spec

\* ... and a call that failed has failed: the client is connected only while clientConnect waits
\* for it.  (Without the sleeps it is not so: see FailedStaysDisconnected.)
THEOREM FailuresAreFinal ==
    Spec => [][timely' /\ state # "IDLE" /\ state' = "IDLE" => app = "polling"]_vars
<1>1. ClientInv /\ [Next]_vars
         => [timely' /\ state # "IDLE" /\ state' = "IDLE" => app = "polling"]_vars
  <2> SUFFICES ASSUME ClientInv, Next, timely', state # "IDLE", state' = "IDLE"
               PROVE  app = "polling"
    OBVIOUS
  <2>1. ~(Connect \/ Connected \/ GiveUp \/ Fail \/ Disconnect)
    BY DEF Connect, Connected, GiveUp, Fail, Disconnect
  <2>2. ~ \E k \in Calls : ReaderStep(k) \/ ReaderReset(k)
    BY ReaderType DEF ClientInv
  <2>3. ~(\/ \E s \in Sockets : Respond(s) \/ Send(s)
          \/ \E d \in inbox : Drop(d))
    BY NetworkType DEF ClientInv
  <2>4. PICK k \in Calls : HandshakeStep(k) \/ HandshakeReset(k)
    BY <2>1, <2>2, <2>3 DEF Next
  <2>5. HandshakeEnd(k)
    BY <2>4 DEF HandshakeStep, HandshakeReset, HandshakeClose, HandshakeOpen, HandshakeCall,
                HandshakeReceive, HandshakeConfirm
  <2>6. timely /\ handshake[k].at = "confirmed"
    BY <2>5 DEF HandshakeEnd, history
  <2>7. k = calls
    BY <2>6, LastHandshake
  <2>8. (app = "failing" => Failing) /\ (app = "ready" => Ready) /\ app \in {"ready", "polling", "failing"}
    BY <2>6 DEF ClientInv, OneAtATime, TypeInv, TypeOK
  <2>9. calls > 0
    BY <2>7, NumberFacts
  <2> QED
    BY <2>6, <2>7, <2>8, <2>9 DEF Failing, Ready, ClientInv, TypeInv, TypeOK
<1> QED
  BY <1>1, ClientInvariant, PTL DEF Spec
=============================================================================

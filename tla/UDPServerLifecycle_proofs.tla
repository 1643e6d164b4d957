---------------------- MODULE UDPServerLifecycle_proofs ----------------------
(***************************************************************************)
(* Theorems about UDPServerLifecycle: its types, and that there is one     *)
(* server at a time, which leaves nothing behind, as long as the sleeps    *)
(* were long enough.                                                       *)
(***************************************************************************)
EXTENDS UDPServerLifecycle, FiniteSetTheorems, TLAPS

----------------------------------------------------------------------------
\* The invariants

\* Sockets are known by the number they were created with; a start that was not made has no
\* threads.
Numbered ==
    /\ socket \in 0..sockets
    /\ open \cup wakeups \subseteq 1..sockets
    /\ \A k \in Starts : k > starts => listener[k].at = "none" /\ updater[k] = "none"

TypeInv == TypeOK /\ Numbered

\* A start that is over has left no thread.
Over(k) == listener[k].at = "done" /\ updater[k] # "running"

\* Between serverStart and serverStop the listen thread opens the socket and waits on it, and
\* nothing in there wakes it.
Serving ==
    LET at == listener[starts].at
    IN  /\ starts > 0 /\ at \in {"spawned", "loop", "closed", "waiting"}
        /\ at = "spawned" => updater[starts] = "none"
        /\ at = "closed" => open = {}
        /\ at = "waiting" => listener[starts].sock = socket /\ socket \in open \ wakeups

\* serverStop finds it waiting, and wakes it; all that follows ends it.
Stopping ==
    LET at == listener[starts].at
    IN  /\ starts > 0 /\ ~listen /\ at \in {"waiting", "loop", "ended", "clearing", "done"}
        /\ at = "waiting" =>
              /\ listener[starts].sock = socket /\ socket \in open
              /\ attempt > 0 => socket \in wakeups
        /\ at \in {"clearing", "done"} => open = {}

OneAtATime ==
    timely =>
        /\ open \subseteq {socket}
        /\ \A k \in Starts : k < starts => Over(k)
        /\ app = "ready" /\ listen => Serving
        /\ app = "ready" /\ ~listen => open = {} /\ (starts > 0 => Over(starts))
        /\ app = "stopping" => Stopping

LifecycleInv == TypeInv /\ OneAtATime

----------------------------------------------------------------------------
\* Lemmas

ListenerSteps ==
    {"none", "spawned", "loop", "closed", "waiting", "ended", "clearing", "done"}
Listener == [at: ListenerSteps, sock: Sockets]

LEMMA NumberFacts ==
    /\ Starts \subseteq Nat \ {0} /\ Sockets \subseteq Nat /\ {MaxStarts, MaxSockets} \subseteq Nat
    /\ \A k \in Starts : k <= MaxStarts
    /\ \A n \in Nat \ {0} : n <= MaxStarts => n \in Starts
BY LifecycleAssumption DEF Starts, Sockets

\* A listen thread that goes on leaves the others, and what it waits on, alone.
LEMMA ListenerGoes ==
    ASSUME listener \in [Starts -> Listener], NEW k \in Starts, NEW step \in ListenerSteps, Goto(k, step)
    PROVE  /\ listener' \in [Starts -> Listener]
           /\ listener'[k].at = step /\ listener'[k].sock = listener[k].sock
           /\ \A j \in Starts : j # k => listener'[j] = listener[j]
BY DEF Goto, Listener

LEMMA ListenerWaits ==
    ASSUME listener \in [Starts -> Listener], NEW k \in Starts, NEW s \in Sockets,
           listener' = [listener EXCEPT ![k] = [at |-> "waiting", sock |-> s]]
    PROVE  /\ listener' \in [Starts -> Listener]
           /\ listener'[k].at = "waiting" /\ listener'[k].sock = s
           /\ \A j \in Starts : j # k => listener'[j] = listener[j]
BY DEF Listener, ListenerSteps

LEMMA ListenerTyped == TypeInv => listener \in [Starts -> Listener]
BY DEF TypeInv, TypeOK, Listener, ListenerSteps

\* A start begins one listen thread.
LEMMA BeginFacts ==
    ASSUME TypeInv, BeginListener
    PROVE  /\ starts < MaxStarts /\ starts' = starts + 1 /\ starts + 1 \in Starts /\ listen'
           /\ listener' \in [Starts -> Listener]
           /\ listener[starts + 1].at = "none" /\ updater[starts + 1] = "none"
           /\ listener'[starts + 1].at = "spawned"
           /\ \A j \in Starts : j # starts + 1 => listener'[j] = listener[j]
           /\ \A j \in Starts : j > starts' => j > starts /\ j # starts + 1
           /\ \A j \in Starts : j < starts' => j = starts \/ j < starts
<1>1. starts < MaxStarts /\ starts' = starts + 1 /\ listen' /\ Goto(starts + 1, "spawned")
  BY DEF BeginListener
<1>2. starts \in Nat /\ starts + 1 \in Starts
  BY <1>1, NumberFacts DEF TypeInv, TypeOK
<1>3. listener[starts + 1].at = "none" /\ updater[starts + 1] = "none"
  BY <1>2 DEF TypeInv, Numbered
<1>4. \A j \in Starts : (j > starts + 1 => j > starts /\ j # starts + 1)
                        /\ (j < starts + 1 => j = starts \/ j < starts)
  BY <1>2, NumberFacts
<1> QED
  BY <1>1, <1>2, <1>3, <1>4, ListenerTyped, ListenerGoes DEF ListenerSteps

\* What a step of a listen thread does to it.
LEMMA ListenerMoves ==
    ASSUME TypeInv, NEW k \in Starts, ListenStep(k) \/ ListenAccept(k)
    PROVE  /\ listener' \in [Starts -> Listener]
           /\ \A j \in Starts : j # k => listener'[j] = listener[j]
           /\ listener[k].at # "none" /\ listener[k].at # "done"
           /\ ListenBegin(k) => listener'[k].at = "loop"
           /\ ListenLoop(k) => listener'[k].at = IF listen THEN "closed" ELSE "ended"
           /\ ListenOpen(k) =>
                 IF open = {} THEN listener'[k].at = "waiting" /\ listener'[k].sock = sockets + 1
                 ELSE listener'[k].at = "loop"
           /\ ListenWake(k) \/ ListenError(k) \/ ListenAccept(k) => listener'[k].at = "loop"
           /\ ListenEnd(k) => listener'[k].at = "clearing"
           /\ ListenClear(k) => listener'[k].at = "done"
<1> USE ListenerTyped DEF ListenerSteps
<1>1. CASE ListenBegin(k)
  BY <1>1, ListenerGoes DEF ListenBegin, ListenLoop, ListenOpen, ListenWake, ListenError, ListenAccept,
                            ListenEnd, ListenClear
<1>2. CASE ListenLoop(k)
  <2>1. listener[k].at = "loop" /\ Goto(k, IF listen THEN "closed" ELSE "ended")
    BY <1>2 DEF ListenLoop
  <2> QED
    BY <2>1, ListenerGoes DEF ListenBegin, ListenOpen, ListenWake, ListenError, ListenAccept,
                              ListenEnd, ListenClear
<1>3. CASE ListenOpen(k)
  <2>1. /\ listener[k].at = "closed" /\ sockets + 1 \in Sockets
        /\ IF open = {} THEN listener' = [listener EXCEPT ![k] = [at |-> "waiting", sock |-> sockets + 1]]
           ELSE Goto(k, "loop")
    BY <1>3, NumberFacts DEF ListenOpen, TypeInv, TypeOK, Sockets
  <2> QED
    BY <2>1, ListenerGoes, ListenerWaits
    DEF ListenBegin, ListenLoop, ListenWake, ListenError, ListenAccept, ListenEnd, ListenClear
<1>4. CASE ListenWake(k) \/ ListenError(k) \/ ListenAccept(k)
  <2>1. listener[k].at = "waiting" /\ Goto(k, "loop")
    BY <1>4 DEF ListenWake, ListenError, ListenAccept
  <2> QED
    BY <2>1, ListenerGoes DEF ListenBegin, ListenLoop, ListenOpen, ListenEnd, ListenClear
<1>5. CASE ListenEnd(k)
  BY <1>5, ListenerGoes DEF ListenBegin, ListenLoop, ListenOpen, ListenWake, ListenError, ListenAccept,
                            ListenEnd, ListenClear
<1>6. CASE ListenClear(k)
  BY <1>6, ListenerGoes DEF ListenBegin, ListenLoop, ListenOpen, ListenWake, ListenError, ListenAccept,
                            ListenEnd, ListenClear
<1> QED
  BY <1>1, <1>2, <1>3, <1>4, <1>5, <1>6 DEF ListenStep

\* ... and to everything else.
LEMMA ListenerChanges ==
    ASSUME TypeInv, NEW k \in Starts, ListenStep(k) \/ ListenAccept(k)
    PROVE  /\ UNCHANGED <<app, restart, attempt, starts, timely>>
           /\ listen' \in BOOLEAN /\ clients' \in 0..MaxClients /\ wakeups' \subseteq wakeups
           /\ (ListenBegin(k) /\ updater' = [updater EXCEPT ![k] = "running"]) \/ UNCHANGED updater
           /\ \/ UNCHANGED <<socket, sockets>> /\ open' = open
              \/ /\ sockets' = sockets /\ socket' = 0 /\ open' = open \ {socket}
              \/ /\ sockets < MaxSockets /\ sockets' = sockets + 1 /\ socket' = sockets + 1
                 /\ open' \subseteq open \cup {sockets + 1}
<1>1. CASE ListenBegin(k)
  BY <1>1 DEF ListenBegin, TypeInv, TypeOK
<1>2. CASE ListenLoop(k)
  BY <1>2 DEF ListenLoop, TypeInv, TypeOK
<1>3. CASE ListenOpen(k)
  BY <1>3 DEF ListenOpen, TypeInv, TypeOK
<1>4. CASE ListenWake(k) \/ ListenError(k)
  BY <1>4 DEF ListenWake, ListenError, TypeInv, TypeOK
<1>5. CASE ListenAccept(k)
  BY <1>5, LifecycleAssumption DEF ListenAccept, TypeInv, TypeOK
<1>6. CASE ListenEnd(k)
  BY <1>6 DEF ListenEnd, TypeInv, TypeOK
<1>7. CASE ListenClear(k)
  BY <1>7, LifecycleAssumption DEF ListenClear, TypeInv, TypeOK
<1> QED
  BY <1>1, <1>2, <1>3, <1>4, <1>5, <1>6, <1>7 DEF ListenStep

----------------------------------------------------------------------------
\* Types are kept

LEMMA InitTypeInv == Init => TypeInv
<1> SUFFICES ASSUME Init PROVE TypeInv
  OBVIOUS
<1>1. 0 \in Sockets /\ 0 \in 0..MaxStarts /\ 0 \in 0..MaxClients /\ 0 \in 0..MaxAttempts /\ 0 \in 0..0
  BY LifecycleAssumption DEF Sockets
<1>2. TypeOK
  BY <1>1 DEF Init, TypeOK
<1>3. Numbered
  BY <1>1 DEF Init, Numbered
<1> QED
  BY <1>2, <1>3 DEF TypeInv

LEMMA AppType == ASSUME TypeInv, Start \/ StopBegin \/ StopAttempt \/ StopEnd PROVE TypeInv'
<1> USE NumberFacts
<1>0. timely' \in BOOLEAN
  <2>1. CASE StopAttempt
    BY <2>1 DEF StopAttempt, Slept, TypeInv, TypeOK
  <2>2. CASE Start \/ StopBegin \/ StopEnd
    BY <2>2 DEF Start, StopBegin, StopEnd, Slept, TypeInv, TypeOK
  <2> QED
    BY <2>1, <2>2
<1>1. CASE Start \/ (StopEnd /\ restart)
  <2>1. BeginListener
    BY <1>1 DEF Start, StopEnd
  <2>2. /\ UNCHANGED <<restart, attempt, socket, sockets, open, wakeups, clients, updater>>
        /\ app' = "ready"
    BY <1>1 DEF Start, StopEnd
  <2>3. starts' \in 0..MaxStarts /\ listen' \in BOOLEAN
    BY <2>1, BeginFacts DEF BeginListener, TypeInv, TypeOK
  <2>4. TypeOK'
    BY <1>0, <2>1, <2>2, <2>3, BeginFacts DEF TypeInv, TypeOK, Listener, ListenerSteps
  <2>5. Numbered'
    BY <2>1, <2>2, BeginFacts DEF TypeInv, Numbered
  <2> QED
    BY <2>4, <2>5 DEF TypeInv
<1>2. CASE StopBegin
  <2>1. attempt' \in 0..MaxAttempts
    BY <1>2, LifecycleAssumption DEF StopBegin
  <2> QED
    BY <1>0, <1>2, <2>1 DEF StopBegin, TypeInv, TypeOK, Numbered
<1>3. CASE StopAttempt
  <2>1. attempt' \in 0..MaxAttempts
    BY <1>3, LifecycleAssumption DEF StopAttempt, TypeInv, TypeOK
  <2>2. /\ UNCHANGED <<app, restart, starts, listen, socket, sockets, open, clients, listener, updater>>
        /\ wakeups' \subseteq wakeups \cup open
    BY <1>3 DEF StopAttempt
  <2> QED
    BY <1>0, <2>1, <2>2 DEF TypeInv, TypeOK, Numbered
<1>4. CASE StopEnd /\ ~restart
  BY <1>0, <1>4 DEF StopEnd, TypeInv, TypeOK, Numbered
<1> QED
  BY <1>1, <1>2, <1>3, <1>4

LEMMA ListenType ==
    ASSUME TypeInv, NEW k \in Starts, ListenStep(k) \/ ListenAccept(k)
    PROVE  TypeInv'
<1> USE NumberFacts
<1>1. /\ listener' \in [Starts -> Listener] /\ listener[k].at # "none"
      /\ \A j \in Starts : j # k => listener'[j] = listener[j]
  BY ListenerMoves
<1>2. /\ UNCHANGED <<app, restart, attempt, starts, timely>>
      /\ listen' \in BOOLEAN /\ clients' \in 0..MaxClients /\ wakeups' \subseteq wakeups
      /\ updater' \in [Starts -> {"none", "running", "done"}]
      /\ \A j \in Starts : j # k => updater'[j] = updater[j]
  BY ListenerChanges DEF TypeInv, TypeOK
<1>3. /\ socket' \in Sockets /\ sockets' \in Sockets /\ open' \subseteq Sockets
      /\ socket' \in 0..sockets' /\ open' \cup wakeups' \subseteq 1..sockets'
  <2>0. /\ sockets \in Nat /\ sockets <= MaxSockets /\ socket \in 0..sockets
        /\ open \cup wakeups \subseteq 1..sockets /\ wakeups' \subseteq wakeups
    BY ListenerChanges DEF TypeInv, TypeOK, Numbered, Sockets
  <2>1. CASE UNCHANGED <<socket, sockets>> /\ open' = open
    BY <2>0, <2>1 DEF Sockets
  <2>2. CASE sockets' = sockets /\ socket' = 0 /\ open' = open \ {socket}
    BY <2>0, <2>2 DEF Sockets
  <2>3. CASE /\ sockets < MaxSockets /\ sockets' = sockets + 1 /\ socket' = sockets + 1
             /\ open' \subseteq open \cup {sockets + 1}
    BY <2>0, <2>3 DEF Sockets
  <2> QED
    BY <2>1, <2>2, <2>3, ListenerChanges
<1>4. TypeOK'
  BY <1>1, <1>2, <1>3 DEF TypeInv, TypeOK, Listener, ListenerSteps
<1>5. Numbered'
  BY <1>1, <1>2, <1>3 DEF TypeInv, Numbered
<1> QED
  BY <1>4, <1>5 DEF TypeInv

LEMMA UpdateType == ASSUME TypeInv, NEW k \in Starts, UpdateEnd(k) PROVE TypeInv'
BY DEF UpdateEnd, TypeInv, TypeOK, Numbered

LEMMA TypeStep == TypeInv /\ [Next]_vars => TypeInv'
<1> SUFFICES ASSUME TypeInv, [Next]_vars PROVE TypeInv'
  OBVIOUS
<1>1. CASE UNCHANGED vars
  BY <1>1 DEF vars, TypeInv, TypeOK, Numbered
<1> QED
  BY <1>1, AppType, ListenType, UpdateType DEF Next

\* The state of the server is of its type, and nobody knows a socket that was not created.
THEOREM LifecycleTypes == Spec => []TypeOK
<1>1. TypeInv => TypeOK
  BY DEF TypeInv
<1> QED
  BY <1>1, InitTypeInv, TypeStep, PTL DEF Spec

----------------------------------------------------------------------------
\* The servers go one after the other

LEMMA InitLifecycle == Init => LifecycleInv
BY InitTypeInv DEF Init, LifecycleInv, OneAtATime, Starts

\* What the sleeps find: threads that can go no further.
LEMMA SleptFacts ==
    ASSUME LifecycleInv, Slept, timely'
    PROVE  /\ timely
           /\ \A k \in Starts :
                 /\ listener[k].at \notin {"spawned", "loop", "closed", "ended", "clearing"}
                 /\ listener[k].at = "waiting" =>
                       listener[k].sock \in open /\ listener[k].sock \notin wakeups
                 /\ ~listen => updater[k] # "running"
BY DEF Slept, Runs

LEMMA StartInOrder ==
    ASSUME LifecycleInv, BeginListener, timely', timely,
           open = {}, starts > 0 => Over(starts),
           app' = "ready", UNCHANGED <<socket, open, wakeups, updater>>
    PROVE  OneAtATime'
<1>1. \A k \in Starts : k < starts' => Over(k)'
  <2> SUFFICES ASSUME NEW k \in Starts, k < starts' PROVE Over(k)'
    OBVIOUS
  <2>1. (k = starts \/ k < starts) /\ starts' = starts + 1 /\ starts \in Nat /\ k \in Nat \ {0}
    BY BeginFacts, NumberFacts DEF LifecycleInv, TypeInv, TypeOK
  <2>2. Over(k)
    BY <2>1 DEF LifecycleInv, OneAtATime
  <2>3. listener'[k] = listener[k] /\ updater' = updater
    BY <2>1, BeginFacts DEF LifecycleInv
  <2> QED
    BY <2>2, <2>3 DEF Over
<1>2. starts \in Nat
  BY DEF LifecycleInv, TypeInv, TypeOK
<1>3. Serving'
  BY <1>2, BeginFacts DEF LifecycleInv, Serving
<1> QED
  BY <1>1, <1>3, BeginFacts DEF OneAtATime, LifecycleInv

LEMMA AppInOrder ==
    ASSUME LifecycleInv, Start \/ StopBegin \/ StopAttempt \/ StopEnd, timely'
    PROVE  OneAtATime'
<1>0. starts \in 0..MaxStarts /\ (starts > 0 => starts \in Starts)
  BY NumberFacts DEF LifecycleInv, TypeInv, TypeOK
<1>1. CASE Start
  <2>1. timely /\ app = "ready" /\ ~listen
    BY <1>1, SleptFacts DEF Start
  <2> QED
    BY <1>1, <2>1, StartInOrder DEF Start, LifecycleInv, OneAtATime
<1>2. CASE StopBegin
  <2>1. /\ timely /\ Slept /\ app = "ready" /\ listen
        /\ app' = "stopping" /\ attempt' = 0 /\ ~listen'
        /\ UNCHANGED <<starts, socket, open, wakeups, listener, updater>>
    BY <1>2, SleptFacts DEF StopBegin
  <2>2. Serving /\ open \subseteq {socket} /\ \A k \in Starts : k < starts => Over(k)
    BY <2>1 DEF LifecycleInv, OneAtATime
  <2>3. listener[starts].at = "waiting"
    BY <1>0, <2>1, <2>2, SleptFacts DEF Serving
  <2>4. Stopping'
    BY <2>1, <2>2, <2>3 DEF Serving, Stopping
  <2> QED
    BY <2>1, <2>2, <2>4 DEF OneAtATime, Over
<1>3. CASE StopAttempt
  <2>1. /\ app = "stopping" /\ attempt' = attempt + 1
        /\ wakeups' = IF socket \in open THEN wakeups \cup {socket} ELSE wakeups
        /\ UNCHANGED <<app, starts, listen, socket, open, listener, updater>>
    BY <1>3 DEF StopAttempt
  <2>2. timely
    <3>1. CASE attempt = 0
      BY <1>3, <3>1 DEF StopAttempt
    <3>2. CASE attempt # 0
      BY <1>3, <3>2, SleptFacts DEF StopAttempt
    <3> QED
      BY <3>1, <3>2
  <2>3. Stopping /\ open \subseteq {socket} /\ \A k \in Starts : k < starts => Over(k)
    BY <2>1, <2>2 DEF LifecycleInv, OneAtATime
  <2>4. Stopping'
    BY <2>1, <2>3 DEF Stopping
  <2> QED
    BY <2>1, <2>3, <2>4 DEF OneAtATime, Over
<1>4. CASE StopEnd
  <2>1. /\ timely /\ Slept /\ app = "stopping" /\ attempt > 0 /\ app' = "ready"
        /\ UNCHANGED <<socket, open, wakeups, updater>>
        /\ IF restart THEN BeginListener ELSE UNCHANGED <<starts, listen, listener>>
    BY <1>4, SleptFacts DEF StopEnd
  <2>2. Stopping /\ open \subseteq {socket} /\ \A k \in Starts : k < starts => Over(k)
    BY <2>1 DEF LifecycleInv, OneAtATime
  <2>3. listener[starts].at = "done" /\ updater[starts] # "running"
    BY <1>0, <2>1, <2>2, SleptFacts DEF Stopping
  <2>4. ~listen /\ open = {} /\ (starts > 0 => Over(starts))
    BY <2>2, <2>3 DEF Stopping, Over
  <2>5. CASE restart
    BY <2>1, <2>4, <2>5, StartInOrder
  <2>6. CASE ~restart
    BY <2>1, <2>2, <2>4, <2>6 DEF OneAtATime, Over
  <2> QED
    BY <2>5, <2>6
<1> QED
  BY <1>1, <1>2, <1>3, <1>4

\* The only listen thread is that of the last start, of a server that serves or is being stopped.
LEMMA LastListener ==
    ASSUME LifecycleInv, timely, NEW k \in Starts, listener[k].at \notin {"none", "done"}
    PROVE  /\ k = starts /\ starts > 0 /\ open \subseteq {socket}
           /\ \A j \in Starts : j < starts => Over(j) /\ j # k
           /\ (app = "ready" /\ listen /\ Serving) \/ (app = "stopping" /\ Stopping)
<1>1. /\ open \subseteq {socket}
      /\ \A j \in Starts : j < starts => Over(j)
      /\ app = "ready" /\ listen => Serving
      /\ app = "ready" /\ ~listen /\ starts > 0 => Over(starts)
      /\ app = "stopping" => Stopping
      /\ app \in {"ready", "stopping"}
  BY DEF LifecycleInv, OneAtATime, TypeInv, TypeOK
<1>2. ~(k < starts) /\ ~(k > starts)
  BY <1>1 DEF Over, LifecycleInv, TypeInv, Numbered
<1>3. k = starts /\ starts > 0 /\ \A j \in Starts : j < starts => j # k
  BY <1>2, NumberFacts DEF LifecycleInv, TypeInv, TypeOK
<1>4. ~(app = "ready" /\ ~listen)
  BY <1>1, <1>3 DEF Over
<1>5. (app = "ready" /\ listen /\ Serving) \/ (app = "stopping" /\ Stopping)
  <2>1. CASE app = "ready"
    BY <1>1, <1>4, <2>1, Zenon
  <2>2. CASE app = "stopping"
    BY <1>1, <2>2, Zenon
  <2> QED
    BY <1>1, <2>1, <2>2
<1>6. \A j \in Starts : j < starts => Over(j) /\ j # k
  BY <1>1, <1>3
<1> QED
  BY <1>1, <1>3, <1>5, <1>6

LEMMA ListenInOrder ==
    ASSUME LifecycleInv, NEW k \in Starts, ListenStep(k) \/ ListenAccept(k), timely'
    PROVE  OneAtATime'
<1>0. TypeInv
  BY DEF LifecycleInv
<1>1. /\ UNCHANGED <<app, attempt, starts>> /\ timely
      /\ listener[k].at \notin {"none", "done"}
      /\ \A j \in Starts : j # k => listener'[j] = listener[j]
      /\ wakeups' \subseteq wakeups
      /\ (ListenBegin(k) /\ updater' = [updater EXCEPT ![k] = "running"]) \/ UNCHANGED updater
  BY <1>0, ListenerChanges, ListenerMoves
<1>2. /\ k = starts /\ starts > 0 /\ open \subseteq {socket}
      /\ \A j \in Starts : j < starts => Over(j) /\ j # k
      /\ (app = "ready" /\ listen /\ Serving) \/ (app = "stopping" /\ Stopping)
  BY <1>1, LastListener
<1>3. \A j \in Starts : j < starts' => Over(j)'
  BY <1>1, <1>2 DEF Over, TypeInv, TypeOK, LifecycleInv
<1>4. 0 \notin open /\ sockets + 1 \notin wakeups
  BY <1>0 DEF TypeInv, TypeOK, Numbered, Sockets
<1>5. CASE ListenBegin(k)
  <2>1. /\ listener[k].at = "spawned" /\ listener'[k].at = "loop" /\ listen'
        /\ UNCHANGED <<socket, open>>
    BY <1>0, <1>5, ListenerMoves DEF ListenBegin
  <2>2. app = "ready" /\ Serving'
    BY <1>1, <1>2, <2>1 DEF Stopping, Serving
  <2> QED
    BY <1>1, <1>2, <1>3, <2>1, <2>2 DEF OneAtATime
<1>6. CASE ListenLoop(k)
  <2>1. /\ listener[k].at = "loop" /\ listener'[k].at = (IF listen THEN "closed" ELSE "ended")
        /\ IF listen THEN open' = open \ {socket} /\ socket' = 0 ELSE UNCHANGED <<open, socket>>
        /\ listen' = listen
    BY <1>0, <1>6, ListenerMoves DEF ListenLoop
  <2>2. CASE app = "ready"
    BY <1>1, <1>2, <1>3, <2>1, <2>2 DEF OneAtATime, Serving
  <2>3. CASE app = "stopping"
    BY <1>1, <1>2, <1>3, <2>1, <2>3 DEF OneAtATime, Stopping
  <2> QED
    BY <1>2, <2>2, <2>3
<1>7. CASE ListenOpen(k)
  <2>1. /\ listener[k].at = "closed" /\ listen' = listen /\ wakeups' = wakeups
        /\ socket' = sockets + 1
    BY <1>7 DEF ListenOpen
  <2>2. app = "ready" /\ listen /\ Serving /\ open = {}
    BY <1>2, <2>1 DEF Serving, Stopping
  <2>3. open' = {sockets + 1} /\ listener'[k].at = "waiting" /\ listener'[k].sock = sockets + 1
    BY <1>0, <1>7, <2>2, ListenerMoves DEF ListenOpen
  <2>4. Serving'
    BY <1>1, <1>2, <1>4, <2>1, <2>2, <2>3 DEF Serving
  <2> QED
    BY <1>1, <1>2, <1>3, <2>1, <2>2, <2>3, <2>4 DEF OneAtATime
<1>8. CASE ListenWake(k)
  <2>1. /\ listener[k].at = "waiting" /\ listener[k].sock \in wakeups /\ listener'[k].at = "loop"
        /\ ~listen' /\ UNCHANGED <<socket, open>>
    BY <1>0, <1>8, ListenerMoves DEF ListenWake
  <2>2. app = "stopping" /\ Stopping'
    BY <1>1, <1>2, <2>1 DEF Serving, Stopping
  <2> QED
    BY <1>1, <1>2, <1>3, <2>1, <2>2 DEF OneAtATime
<1>9. CASE ListenError(k) \/ ListenAccept(k)
  <2>1. /\ listener[k].at = "waiting" /\ listener'[k].at = "loop"
        /\ UNCHANGED <<listen, socket, open>>
    BY <1>0, <1>9, ListenerMoves DEF ListenError, ListenAccept
  <2>2. CASE app = "ready"
    BY <1>1, <1>2, <1>3, <2>1, <2>2 DEF OneAtATime, Serving
  <2>3. CASE app = "stopping"
    BY <1>1, <1>2, <1>3, <2>1, <2>3 DEF OneAtATime, Stopping
  <2> QED
    BY <1>2, <2>2, <2>3
<1>10. CASE ListenEnd(k)
  <2>1. /\ listener[k].at = "ended" /\ listener'[k].at = "clearing" /\ ~listen'
        /\ open' = open \ {socket} /\ socket' = 0
    BY <1>0, <1>10, ListenerMoves DEF ListenEnd
  <2>2. app = "stopping" /\ open' = {}
    BY <1>2, <2>1 DEF Serving
  <2>3. Stopping'
    BY <1>1, <1>2, <2>1, <2>2 DEF Stopping
  <2> QED
    BY <1>1, <1>2, <1>3, <2>1, <2>2, <2>3 DEF OneAtATime
<1>11. CASE ListenClear(k)
  <2>1. /\ listener[k].at = "clearing" /\ listener'[k].at = "done"
        /\ UNCHANGED <<listen, socket, open>>
    BY <1>0, <1>11, ListenerMoves DEF ListenClear
  <2>2. app = "stopping" /\ Stopping'
    BY <1>1, <1>2, <2>1 DEF Serving, Stopping
  <2> QED
    BY <1>1, <1>2, <1>3, <2>1, <2>2 DEF OneAtATime
<1> QED
  BY <1>5, <1>6, <1>7, <1>8, <1>9, <1>10, <1>11 DEF ListenStep

\* An update thread ends as soon as Listen is clear.
LEMMA UpdateInOrder ==
    ASSUME LifecycleInv, NEW k \in Starts, UpdateEnd(k), timely'
    PROVE  OneAtATime'
<1>1. /\ timely /\ ~listen /\ updater' = [updater EXCEPT ![k] = "done"]
      /\ UNCHANGED <<app, attempt, starts, listen, socket, open, wakeups, listener>>
  BY DEF UpdateEnd
<1>2. updater \in [Starts -> {"none", "running", "done"}] /\ starts \in 0..MaxStarts
  BY DEF LifecycleInv, TypeInv, TypeOK
<1>3. \A j \in Starts : Over(j) => Over(j)'
  BY <1>1, <1>2 DEF Over
<1>4. Stopping => Stopping'
  BY <1>1 DEF Stopping
<1>5. starts > 0 => starts \in Starts
  BY <1>2, NumberFacts
<1> QED
  BY <1>1, <1>3, <1>4, <1>5 DEF LifecycleInv, OneAtATime

LEMMA LifecycleStep == LifecycleInv /\ [Next]_vars => LifecycleInv'
<1> SUFFICES ASSUME LifecycleInv, [Next]_vars PROVE LifecycleInv'
  OBVIOUS
<1>1. TypeInv'
  BY TypeStep DEF LifecycleInv
<1> SUFFICES ASSUME timely' PROVE OneAtATime'
  BY <1>1 DEF LifecycleInv, OneAtATime
<1>2. CASE UNCHANGED vars
  BY <1>2 DEF vars, LifecycleInv, OneAtATime, Over, Serving, Stopping
<1> QED
  BY <1>2, AppInOrder, ListenInOrder, UpdateInOrder DEF Next

LEMMA LifecycleInvariant == Spec => []LifecycleInv
BY InitLifecycle, LifecycleStep, PTL DEF Spec

----------------------------------------------------------------------------
\* What it is for

\* As long as the sleeps are long enough, a start finds no thread of a former server: one
\* listen thread and one update thread at most are there.
THEOREM OneServerAtATime == Spec => []OneServer
<1>1. LifecycleInv => OneServer
  <2> SUFFICES ASSUME LifecycleInv, timely
               PROVE  /\ \A j, k \in Starts : Alive(j) /\ Alive(k) => j = k
                      /\ Cardinality({k \in Starts : updater[k] = "running"}) <= 1
    BY DEF OneServer
  <2>1. \A k \in Starts : Alive(k) => k = starts
    BY LastListener DEF Alive
  <2> DEFINE R == {k \in Starts : updater[k] = "running"}
  <2>2. R \subseteq {starts}
    <3> SUFFICES ASSUME NEW k \in Starts, updater[k] = "running" PROVE k = starts
      OBVIOUS
    <3>1. ~(k < starts) /\ ~(k > starts)
      BY DEF LifecycleInv, OneAtATime, Over, TypeInv, Numbered
    <3> QED
      BY <3>1, NumberFacts DEF LifecycleInv, TypeInv, TypeOK
  <2>3. IsFiniteSet({starts}) /\ Cardinality({starts}) = 1
    BY FS_Singleton
  <2>4. Cardinality(R) <= 1
    BY <2>2, <2>3, FS_Subset
  <2> QED
    BY <2>1, <2>4
<1> QED
  BY <1>1, LifecycleInvariant, PTL

\* ... and when the last of them has ended, the port is free.
THEOREM PortFreed == Spec => []PortIsFreed
<1>1. LifecycleInv => PortIsFreed
  <2> SUFFICES ASSUME LifecycleInv, timely, \A k \in Starts : ~Alive(k)
               PROVE  open = {}
    BY DEF PortIsFreed
  <2>1. starts > 0 => starts \in Starts
    BY NumberFacts DEF LifecycleInv, TypeInv, TypeOK
  <2>2. CASE app = "ready" /\ listen
    BY <2>1, <2>2 DEF LifecycleInv, OneAtATime, Serving, Alive
  <2>3. CASE app = "ready" /\ ~listen
    BY <2>3 DEF LifecycleInv, OneAtATime
  <2>4. CASE app = "stopping"
    BY <2>1, <2>4 DEF LifecycleInv, OneAtATime, Stopping, Alive
  <2> QED
    BY <2>2, <2>3, <2>4 DEF LifecycleInv, TypeInv, TypeOK
<1> QED
  BY <1>1, LifecycleInvariant, PTL

\* ... and the end of a server never forgets the clients of another: they are forgotten only
\* while nobody listens, all at once.
THEOREM ClientsKept == Spec => ClientsAreKept
<1>1. LifecycleInv /\ [Next]_vars => [timely' /\ clients' < clients => ~listen /\ clients' = 0]_vars
  <2> SUFFICES ASSUME LifecycleInv, Next, timely', clients' < clients
               PROVE  ~listen /\ clients' = 0
    OBVIOUS
  <2>0. clients \in Nat /\ TypeInv
    BY LifecycleAssumption DEF LifecycleInv, TypeInv, TypeOK
  <2>1. ~(Start \/ StopBegin \/ StopAttempt \/ StopEnd)
    <3>1. Start \/ StopBegin \/ StopAttempt \/ StopEnd => clients' = clients
      BY Zenon DEF Start, StopBegin, StopAttempt, StopEnd
    <3> QED
      BY <2>0, <3>1
  <2>2. PICK k \in Starts : ListenStep(k) \/ ListenAccept(k) \/ UpdateEnd(k)
    BY <2>1 DEF Next
  <2>3. ListenClear(k)
    <3>1. \/ ListenBegin(k) \/ ListenLoop(k) \/ ListenOpen(k) \/ ListenWake(k) \/ ListenError(k)
          \/ ListenEnd(k) \/ UpdateEnd(k)
          => clients' = clients
      BY Zenon DEF UpdateEnd, ListenBegin, ListenLoop, ListenOpen, ListenWake, ListenError, ListenEnd
    <3>2. ListenAccept(k) => clients' = clients \/ clients' = clients + 1
      BY Zenon DEF ListenAccept
    <3>3. \/ ListenBegin(k) \/ ListenLoop(k) \/ ListenOpen(k) \/ ListenWake(k) \/ ListenError(k)
          \/ ListenEnd(k) \/ UpdateEnd(k) \/ ListenAccept(k) \/ ListenClear(k)
      BY <2>2, Zenon DEF ListenStep
    <3> QED
      BY <2>0, <3>1, <3>2, <3>3
  <2>4. timely /\ listener[k].at = "clearing" /\ clients' = 0
    BY <2>3 DEF ListenClear
  <2> QED
    BY <2>4, LastListener DEF Serving, Stopping
<1> QED
  BY <1>1, LifecycleInvariant, PTL DEF ClientsAreKept, Spec
=============================================================================

------------------------- MODULE BrtDispatch_proofs -------------------------
(***************************************************************************)
(* What TLAPS proves of BrtDispatch, for every number of clients, requests *)
(* and writes: the types, that the write ends held by brt are released,    *)
(* that a request is answered once and with its own process's output, and  *)
(* that the answer is the whole output.                                    *)
(*                                                                         *)
(* BrtInv holds of every behaviour; Alone is what more there is while      *)
(* alone holds, and SleptChildren, SleptReading and SleptAnswers while     *)
(* Slept does.                                                             *)
(***************************************************************************)
EXTENDS BrtDispatch, SequenceTheorems, TLAPS

----------------------------------------------------------------------------
\* The inductive invariant

\* The loops have passed request k of client c.
Passed(c, k) == c < iClient \/ (c = iClient /\ k < iMessage)

Reading == at \in {"read", "check"}

\* The requests of queue[c] were sent by c; they are different, also from those of another queue.
Theirs(sender, queue) == \A c \in Clients : \A k \in 1..Len(queue[c]) :
    queue[c][k] \in 1..Len(sender) /\ sender[queue[c][k]] = c
Different(queue) == \A c \in Clients : \A k, l \in 1..Len(queue[c]) : queue[c][k] = queue[c][l] => k = l
Apart(queue, other) == \A c \in Clients : \A k \in 1..Len(queue[c]), l \in 1..Len(other[c]) :
    queue[c][k] # other[c][l]

Numbered ==
    /\ Len(owner) <= MaxRequests
    /\ Theirs(owner, received) /\ Theirs(owner, batch)
    /\ Different(received) /\ Different(batch) /\ Apart(batch, received)

BrtBase == TypeOK /\ Numbered

LEMMA AtCurrent ==
    ASSUME BrtBase, AtRequest
    PROVE  /\ iClient \in Clients /\ iMessage \in 1..Len(batch[iClient])
           /\ Current \in 1..Len(owner) /\ Current \in Requests /\ owner[Current] = iClient
           /\ output[Current] \in Outputs /\ output[Current].writes \in Nat
<1>1. iClient \in Clients /\ iMessage \in 1..Len(batch[iClient])
  <2>1. iClient \in Clients
    BY BrtAssumption DEF BrtBase, TypeOK, AtRequest, Clients
  <2>2. batch[iClient] \in Seq(Requests)
    BY <2>1 DEF BrtBase, TypeOK
  <2> QED BY <2>1, <2>2 DEF BrtBase, TypeOK, AtRequest
<1>2. Current \in 1..Len(owner) /\ owner[Current] = iClient
  BY <1>1 DEF BrtBase, Numbered, Theirs, Different, Apart, Current
<1>3. Current \in Requests
  BY <1>2, BrtAssumption DEF BrtBase, TypeOK, Numbered, Theirs, Different, Apart, Requests
<1>4. output[Current] \in Outputs
  BY <1>2 DEF BrtBase, TypeOK
<1> QED BY <1>1, <1>2, <1>3, <1>4, BrtAssumption

LEMMA NumberedStep == BrtBase /\ [Next]_vars => Numbered'
<1> SUFFICES ASSUME BrtBase, [Next]_vars PROVE Numbered'
  OBVIOUS
<1>1. TypeOK /\ Numbered
  BY DEF BrtBase
<1>2. ASSUME UNCHANGED <<owner, received, batch>> PROVE Numbered'
  BY <1>1, <1>2 DEF Numbered
<1>3. ASSUME NEW c \in Clients, Arrive(c) PROVE Numbered'
  <2>1. /\ Len(owner) < MaxRequests /\ owner' = Append(owner, c) /\ batch' = batch
        /\ received' = [received EXCEPT ![c] = Append(@, Len(owner) + 1)]
    BY <1>3 DEF Arrive
  <2>2. /\ Len(owner) \in Nat /\ Len(owner') = Len(owner) + 1 /\ owner'[Len(owner) + 1] = c
        /\ \A r \in 1..Len(owner) : owner'[r] = owner[r] /\ r \in 1..Len(owner')
    BY <1>1, <2>1 DEF TypeOK
  <2>3. \A d \in Clients : \A k \in 1..Len(received'[d]) :
           \/ k \in 1..Len(received[d]) /\ received'[d][k] = received[d][k]
           \/ d = c /\ k = Len(received[c]) + 1 /\ received'[d][k] = Len(owner) + 1
    <3>1. /\ received[c] \in Seq(Requests) /\ Len(received'[c]) = Len(received[c]) + 1
          /\ received'[c][Len(received[c]) + 1] = Len(owner) + 1
          /\ \A k \in 1..Len(received[c]) : received'[c][k] = received[c][k]
          /\ \A d \in Clients \ {c} : received'[d] = received[d]
      BY <1>1, <2>1 DEF TypeOK
    <3> QED BY <3>1
  <2>4. Theirs(owner, received) /\ Theirs(owner, batch) /\ Different(received) /\ Apart(batch, received)
    BY <1>1 DEF Numbered
  <2>5. Len(owner') <= MaxRequests
    BY <2>1, <2>2, BrtAssumption
  <2>6. Theirs(owner', received')
    <3> SUFFICES ASSUME NEW d \in Clients, NEW k \in 1..Len(received'[d])
                 PROVE  received'[d][k] \in 1..Len(owner') /\ owner'[received'[d][k]] = d
      BY DEF Theirs
    <3>1. CASE k \in 1..Len(received[d]) /\ received'[d][k] = received[d][k]
      BY <2>2, <2>4, <3>1 DEF Theirs
    <3>2. CASE d = c /\ received'[d][k] = Len(owner) + 1
      BY <2>2, <3>2
    <3> QED BY <2>3, <3>1, <3>2
  <2>7. Theirs(owner', batch)
    BY <2>2, <2>4 DEF Theirs
  <2>8. Different(received')
    <3> SUFFICES ASSUME NEW d \in Clients, NEW k \in 1..Len(received'[d]), NEW l \in 1..Len(received'[d]),
                        received'[d][k] = received'[d][l]
                 PROVE  k = l
      BY DEF Different
    <3>1. \A m \in 1..Len(received[d]) : received[d][m] # Len(owner) + 1
      BY <2>2, <2>4 DEF Theirs
    <3>2. CASE k \in 1..Len(received[d]) /\ received'[d][k] = received[d][k]
      BY <2>3, <2>4, <3>1, <3>2 DEF Different
    <3>3. CASE d = c /\ k = Len(received[c]) + 1 /\ received'[d][k] = Len(owner) + 1
      BY <2>3, <3>1, <3>3
    <3> QED BY <2>3, <3>2, <3>3
  <2>9. Apart(batch, received')
    <3> SUFFICES ASSUME NEW d \in Clients, NEW k \in 1..Len(batch[d]), NEW l \in 1..Len(received'[d])
                 PROVE  batch[d][k] # received'[d][l]
      BY DEF Apart
    <3>1. batch[d][k] # Len(owner) + 1
      BY <2>2, <2>4 DEF Theirs
    <3> QED BY <2>3, <2>4, <3>1 DEF Apart
  <2> QED BY <1>1, <2>1, <2>5, <2>6, <2>7, <2>8, <2>9 DEF Numbered
<1>4. CASE Collect
  <2>1. batch' = received /\ owner' = owner /\ \A c \in Clients : Len(received'[c]) = 0
    BY <1>4 DEF Collect
  <2>2. Theirs(owner', received') /\ Different(received') /\ Apart(batch', received')
    BY <2>1 DEF Theirs, Different, Apart
  <2> QED BY <1>1, <2>1, <2>2 DEF Numbered
<1>5. ASSUME NEW r \in Requests, Write(r) \/ Exit(r) PROVE Numbered'
  BY <1>2, <1>5 DEF Write, Exit, arrived
<1>6. CASE NextClient \/ Execute \/ ExecuteEnd \/ SleepEnd \/ Read \/ Check \/ Reply
  BY <1>2, <1>6 DEF NextClient, Execute, ExecuteEnd, SleepEnd, Read, Check, Reply, arrived
<1>7. CASE UNCHANGED vars
  BY <1>2, <1>7 DEF vars, arrived
<1> QED BY <1>3, <1>4, <1>5, <1>6, <1>7 DEF Next, Update

\* Requests are answered once: what was answered is neither received nor in the batch under way, and
\* the responses at hand are to different requests of the batch, which the loops have passed.
AnsweredOnce ==
    /\ \A k, l \in 1..Len(answers) : answers[k].request = answers[l].request => k = l
    /\ \A k \in 1..Len(answers) : answers[k].request \in 1..Len(owner) /\ answers[k].of \in 1..Len(owner)
    /\ \A k \in 1..Len(answers), c \in Clients : \A l \in 1..Len(received[c]) :
           answers[k].request # received[c][l]
    /\ at # "idle" => \A k \in 1..Len(answers), c \in Clients : \A l \in 1..Len(batch[c]) :
           answers[k].request # batch[c][l]
ResponsesOfBatch ==
    /\ at \in {"execute", "sleep"} => responses = <<>>
    /\ Reading =>
           /\ \A k, l \in 1..Len(responses) : responses[k].request = responses[l].request => k = l
           /\ \A k \in 1..Len(responses) : responses[k].of \in 1..Len(owner)
           /\ \A k \in 1..Len(responses) : \E c \in Clients : \E l \in 1..Len(batch[c]) :
                  Passed(c, l) /\ responses[k].request = batch[c][l]

\* A process is that of a request that has been executed; before, its pipe is empty.
Processes ==
    /\ \A r \in Requests : unread[r] > 0 => child[r].at # "none"
    /\ \A r \in Requests : child[r].at # "none" => r \in 1..Len(owner)
    /\ \A r \in Requests : child[r].at = "done" => child[r].left = 0
    /\ \A c \in Clients : \A k \in 1..Len(received[c]) : child[received[c][k]].at = "none"
    /\ at = "execute" => \A c \in Clients : \A k \in 1..Len(batch[c]) :
           ~Passed(c, k) => child[batch[c][k]].at = "none"

\* The pipes and the process of a client are those of the last of its requests that was executed.
Pipes ==
    /\ \A c \in Clients : pipe[c] # 0 =>
           /\ pipe[c] \in 1..Len(owner) /\ owner[pipe[c]] = c
           /\ child[pipe[c]].at # "none" => process[c] = pipe[c]
    /\ at = "execute" => \A c \in Clients : \A k \in 1..Len(batch[c]) :
           k = (IF c = iClient THEN iMessage - 1 ELSE Len(batch[c])) /\ Passed(c, k) => pipe[c] = batch[c][k]
    /\ at \in {"sleep", "read", "check"} => \A c \in Clients :
           Len(batch[c]) > 0 => pipe[c] = batch[c][Len(batch[c])]
    /\ at = "check" => AtRequest /\ child[pipe[iClient]].at # "none"
    /\ at = "read" /\ got > 0 => AtRequest

BrtInv == BrtBase /\ AnsweredOnce /\ ResponsesOfBatch /\ Processes /\ Pipes

\* What is read is what was written for a request that has been executed.
LEMMA AtPipe ==
    ASSUME BrtInv, AtRequest, Reading
    PROVE  /\ iClient \in Clients /\ pipe[iClient] \in Requests /\ pipe[iClient] \in 1..Len(owner)
           /\ pipe[iClient] = batch[iClient][Len(batch[iClient])]
           /\ owner[pipe[iClient]] = iClient /\ unread[pipe[iClient]] \in 0..Capacity
           /\ child[pipe[iClient]].at # "none" => process[iClient] = pipe[iClient]
<1>1. iClient \in Clients /\ iMessage \in 1..Len(batch[iClient]) /\ batch[iClient] \in Seq(Requests)
  BY AtCurrent DEF BrtInv, BrtBase, TypeOK
<1>2. pipe[iClient] = batch[iClient][Len(batch[iClient])]
  BY <1>1 DEF BrtInv, Pipes, Reading
<1>3. pipe[iClient] \in 1..Len(owner) /\ owner[pipe[iClient]] = iClient
  BY <1>1, <1>2 DEF BrtInv, BrtBase, Numbered, Theirs, Different, Apart
<1>4. pipe[iClient] \in Requests
  BY <1>3, BrtAssumption DEF BrtInv, BrtBase, TypeOK, Numbered, Theirs, Different, Apart, Requests
<1>5. unread[pipe[iClient]] \in 0..Capacity
  BY <1>4 DEF BrtInv, BrtBase, TypeOK
<1>6. child[pipe[iClient]].at # "none" => process[iClient] = pipe[iClient]
  BY <1>1, <1>3 DEF BrtInv, Pipes
<1> QED BY <1>1, <1>2, <1>3, <1>4, <1>5, <1>6

----------------------------------------------------------------------------
\* What the actions change

LEMMA ArriveIs ==
    ASSUME TypeOK, NEW c \in Clients, Arrive(c)
    PROVE  /\ Len(owner) \in Nat /\ Len(owner) < MaxRequests /\ owner' = Append(owner, c)
           /\ Len(owner') = Len(owner) + 1 /\ owner'[Len(owner) + 1] = c
           /\ \A r \in 1..Len(owner) : owner'[r] = owner[r] /\ r \in 1..Len(owner')
           /\ \E o \in Outputs : output' = Append(output, o)
           /\ \A r \in 1..Len(owner) : output'[r] = output[r]
           /\ received' = [received EXCEPT ![c] = Append(@, Len(owner) + 1)]
           /\ \A d \in Clients : \A k \in 1..Len(received'[d]) :
                 \/ k \in 1..Len(received[d]) /\ received'[d][k] = received[d][k]
                 \/ d = c /\ k = Len(received[c]) + 1 /\ received'[d][k] = Len(owner) + 1
           /\ batch' = batch /\ at' = at /\ iClient' = iClient /\ iMessage' = iMessage /\ got' = got
           /\ responses' = responses /\ pipe' = pipe /\ process' = process /\ held' = held
           /\ child' = child /\ unread' = unread /\ answers' = answers
           /\ timely' = timely /\ failed' = failed
<1>1. /\ Len(owner) < MaxRequests /\ owner' = Append(owner, c)
      /\ received' = [received EXCEPT ![c] = Append(@, Len(owner) + 1)]
      /\ \E o \in Outputs : output' = Append(output, o)
  BY DEF Arrive
<1>2. /\ Len(owner) \in Nat /\ Len(owner') = Len(owner) + 1 /\ owner'[Len(owner) + 1] = c
      /\ \A r \in 1..Len(owner) : owner'[r] = owner[r] /\ r \in 1..Len(owner')
  BY <1>1 DEF TypeOK
<1>3. \A r \in 1..Len(owner) : output'[r] = output[r]
  BY <1>1 DEF TypeOK
<1>4. /\ received[c] \in Seq(Requests) /\ Len(received'[c]) = Len(received[c]) + 1
      /\ received'[c][Len(received[c]) + 1] = Len(owner) + 1
      /\ \A k \in 1..Len(received[c]) : received'[c][k] = received[c][k]
      /\ \A d \in Clients \ {c} : received'[d] = received[d]
  BY <1>1 DEF TypeOK
<1>5. \A d \in Clients : \A k \in 1..Len(received'[d]) :
         \/ k \in 1..Len(received[d]) /\ received'[d][k] = received[d][k]
         \/ d = c /\ k = Len(received[c]) + 1 /\ received'[d][k] = Len(owner) + 1
  BY <1>4
<1>6. /\ batch' = batch /\ at' = at /\ iClient' = iClient /\ iMessage' = iMessage /\ got' = got
      /\ responses' = responses /\ pipe' = pipe /\ process' = process /\ held' = held
      /\ child' = child /\ unread' = unread /\ answers' = answers
      /\ timely' = timely /\ failed' = failed
  BY Zenon DEF Arrive, loop, handles
<1> QED BY <1>1, <1>2, <1>3, <1>5, <1>6

LEMMA WriteIs ==
    ASSUME TypeOK, NEW r \in Requests, Write(r)
    PROVE  /\ child[r].at = "running" /\ child[r].left \in Nat \ {0} /\ unread[r] \in 0..Capacity - 1
           /\ child' = [child EXCEPT ![r].left = @ - 1]
           /\ unread' = [unread EXCEPT ![r] = @ + 1]
           /\ owner' = owner /\ output' = output /\ received' = received
           /\ batch' = batch /\ at' = at /\ iClient' = iClient /\ iMessage' = iMessage /\ got' = got
           /\ responses' = responses /\ pipe' = pipe /\ process' = process /\ held' = held
           /\ answers' = answers /\ timely' = timely /\ alone' = alone /\ failed' = failed
<1>1. child[r].at = "running" /\ child[r].left > 0 /\ unread[r] < Capacity
  BY DEF Write, Running
<1>2. child[r].left \in Nat /\ unread[r] \in 0..Capacity
  BY DEF TypeOK
<1>3. child' = [child EXCEPT ![r].left = @ - 1] /\ unread' = [unread EXCEPT ![r] = @ + 1]
  BY DEF Write
<1>4. /\ owner' = owner /\ output' = output /\ received' = received
      /\ batch' = batch /\ at' = at /\ iClient' = iClient /\ iMessage' = iMessage /\ got' = got
      /\ responses' = responses /\ pipe' = pipe /\ process' = process /\ held' = held
      /\ answers' = answers /\ timely' = timely /\ alone' = alone /\ failed' = failed
  BY Zenon DEF Write, arrived, loop, handles, history
<1> QED BY <1>1, <1>2, <1>3, <1>4, BrtAssumption

LEMMA ExitIs ==
    ASSUME NEW r \in Requests, Exit(r)
    PROVE  /\ child[r].at = "running" /\ child[r].left = 0
           /\ child' = [child EXCEPT ![r].at = "done"] /\ unread' = unread
           /\ owner' = owner /\ output' = output /\ received' = received
           /\ batch' = batch /\ at' = at /\ iClient' = iClient /\ iMessage' = iMessage /\ got' = got
           /\ responses' = responses /\ pipe' = pipe /\ process' = process /\ held' = held
           /\ answers' = answers /\ timely' = timely /\ alone' = alone /\ failed' = failed
  BY Zenon DEF Exit, Running, arrived, loop, handles, history

LEMMA CollectIs ==
    ASSUME Collect
    PROVE  /\ at = "idle" /\ at' = "execute" /\ iClient' = 1 /\ iMessage' = 1 /\ responses' = <<>>
           /\ batch' = received /\ received' = [c \in Clients |-> <<>>]
           /\ owner' = owner /\ output' = output /\ got' = got
           /\ pipe' = pipe /\ process' = process /\ held' = held /\ child' = child /\ unread' = unread
           /\ answers' = answers /\ timely' = timely /\ alone' = alone /\ failed' = failed
  BY Zenon DEF Collect, handles, history

LEMMA NextClientIs ==
    ASSUME NextClient
    PROVE  /\ at \in {"execute", "read"} /\ at' = at
           /\ iClient <= NumClients /\ iMessage > Len(batch[iClient])
           /\ iClient' = iClient + 1 /\ iMessage' = 1
           /\ owner' = owner /\ output' = output /\ received' = received /\ batch' = batch
           /\ got' = got /\ responses' = responses /\ pipe' = pipe /\ process' = process /\ held' = held
           /\ child' = child /\ unread' = unread /\ answers' = answers
           /\ timely' = timely /\ alone' = alone /\ failed' = failed
  BY Zenon DEF NextClient, arrived, handles, history

LEMMA ExecuteIs ==
    ASSUME Execute
    PROVE  /\ at = "execute" /\ AtRequest /\ at' = at
           /\ iClient' = iClient /\ iMessage' = iMessage + 1
           /\ pipe' = [pipe EXCEPT ![iClient] = Current] /\ held' = held \cup {Current}
           /\ \/ /\ process' = [process EXCEPT ![iClient] = Current]
                 /\ child' = [child EXCEPT ![Current] = [at |-> "running", left |-> output[Current].writes,
                                                         inherits |-> held']]
              \/ /\ process' = [process EXCEPT ![iClient] = 0] /\ child' = child
           /\ owner' = owner /\ output' = output /\ received' = received /\ batch' = batch
           /\ got' = got /\ responses' = responses /\ unread' = unread /\ answers' = answers
           /\ timely' = timely /\ alone' = alone
  BY Zenon DEF Execute, arrived

LEMMA ExecuteEndIs ==
    ASSUME ExecuteEnd
    PROVE  /\ at = "execute" /\ iClient > NumClients /\ at' = "sleep"
           /\ iClient' = iClient /\ iMessage' = iMessage
           /\ owner' = owner /\ output' = output /\ received' = received /\ batch' = batch
           /\ got' = got /\ responses' = responses /\ pipe' = pipe /\ process' = process /\ held' = held
           /\ child' = child /\ unread' = unread /\ answers' = answers
           /\ timely' = timely /\ alone' = alone /\ failed' = failed
  BY Zenon DEF ExecuteEnd, arrived, loop, handles, history

LEMMA SleepEndIs ==
    ASSUME SleepEnd
    PROVE  /\ at = "sleep" /\ at' = "read" /\ iClient' = 1 /\ iMessage' = 1
           /\ owner' = owner /\ output' = output /\ received' = received /\ batch' = batch
           /\ got' = got /\ responses' = responses /\ pipe' = pipe /\ process' = process /\ held' = held
           /\ child' = child /\ unread' = unread /\ answers' = answers
           /\ alone' = alone /\ failed' = failed
  BY Zenon DEF SleepEnd, arrived, handles

LEMMA ReadIs ==
    ASSUME Read
    PROVE  /\ at = "read" /\ AtRequest
           /\ \/ /\ unread[pipe[iClient]] > 0 /\ at' = "check"
                 /\ got' = got + unread[pipe[iClient]]
                 /\ unread' = [unread EXCEPT ![pipe[iClient]] = 0]
              \/ /\ at' = "ended" /\ got' = got /\ unread' = unread
           /\ iClient' = iClient /\ iMessage' = iMessage
           /\ owner' = owner /\ output' = output /\ received' = received /\ batch' = batch
           /\ responses' = responses /\ pipe' = pipe /\ process' = process /\ held' = held
           /\ child' = child /\ answers' = answers
           /\ timely' = timely /\ alone' = alone /\ failed' = failed
  BY Zenon DEF Read, arrived, loop, handles, history

LEMMA CheckIs ==
    ASSUME Check
    PROVE  /\ at = "check" /\ at' = "read" /\ iClient' = iClient
           /\ \/ /\ ReadAll(process[iClient])
                 /\ responses' = Append(responses, [request |-> Current, of |-> pipe[iClient], writes |-> got])
                 /\ held' = held \ {pipe[iClient]}
                 /\ iMessage' = iMessage + 1 /\ got' = 0
              \/ /\ ~ReadAll(process[iClient])
                 /\ responses' = responses /\ held' = held /\ iMessage' = iMessage /\ got' = got
           /\ owner' = owner /\ output' = output /\ received' = received /\ batch' = batch
           /\ pipe' = pipe /\ process' = process
           /\ child' = child /\ unread' = unread /\ answers' = answers
           /\ timely' = timely /\ alone' = alone /\ failed' = failed
  BY Zenon DEF Check, arrived, history

LEMMA ReplyIs ==
    ASSUME Reply
    PROVE  /\ at = "read" /\ iClient > NumClients /\ at' = "idle"
           /\ answers' = answers \o responses
           /\ iClient' = iClient /\ iMessage' = iMessage
           /\ owner' = owner /\ output' = output /\ received' = received /\ batch' = batch
           /\ got' = got /\ responses' = responses /\ pipe' = pipe /\ process' = process /\ held' = held
           /\ child' = child /\ unread' = unread
           /\ timely' = timely /\ alone' = alone /\ failed' = failed
  BY Zenon DEF Reply, arrived, loop, handles, history


----------------------------------------------------------------------------
\* BrtInv is inductive

LEMMA HistoryStep ==
    ASSUME {timely, alone, failed} \subseteq BOOLEAN, Next
    PROVE  {timely', alone', failed'} \subseteq BOOLEAN
<1>1. timely \in BOOLEAN /\ alone \in BOOLEAN /\ failed \in BOOLEAN
  OBVIOUS
<1>2. ASSUME NEW c \in Clients, Arrive(c) PROVE timely' = timely /\ alone' \in BOOLEAN /\ failed' = failed
  BY Zenon, <1>2 DEF Arrive
<1>3. ASSUME NEW r \in Requests, Write(r) \/ Exit(r)
      PROVE  timely' = timely /\ alone' = alone /\ failed' = failed
  BY Zenon, <1>3 DEF Write, Exit, history
<1>4. ASSUME Execute PROVE timely' = timely /\ alone' = alone /\ failed' \in BOOLEAN
  BY Zenon, <1>1, <1>4 DEF Execute
<1>5. ASSUME SleepEnd PROVE timely' \in BOOLEAN /\ alone' = alone /\ failed' = failed
  BY Zenon, <1>5 DEF SleepEnd
<1>6. ASSUME Collect \/ NextClient \/ ExecuteEnd \/ Read \/ Check \/ Reply
      PROVE  timely' = timely /\ alone' = alone /\ failed' = failed
  BY Zenon, <1>6 DEF Collect, NextClient, ExecuteEnd, Read, Check, Reply, history
<1>7. timely' \in BOOLEAN /\ alone' \in BOOLEAN /\ failed' \in BOOLEAN
  BY Zenon, <1>1, <1>2, <1>3, <1>4, <1>5, <1>6 DEF Next, Update
<1> QED BY <1>7

LEMMA TypeStep == BrtInv /\ [Next]_vars => TypeOK'
<1> SUFFICES ASSUME BrtInv, [Next]_vars PROVE TypeOK'
  OBVIOUS
<1>1. TypeOK /\ BrtBase
  BY DEF BrtInv, BrtBase
<1>2. CASE UNCHANGED vars
  BY <1>1, <1>2 DEF vars, arrived, loop, handles, history, TypeOK
<1> SUFFICES ASSUME Next PROVE TypeOK'
  BY <1>2
<1>3. {timely', alone', failed'} \subseteq BOOLEAN
  BY <1>1, HistoryStep DEF TypeOK
<1>4. ASSUME NEW c \in Clients, Arrive(c) PROVE TypeOK'
  <2>1. /\ Len(owner) \in Nat /\ Len(owner) < MaxRequests /\ owner' = Append(owner, c)
        /\ received' = [received EXCEPT ![c] = Append(@, Len(owner) + 1)]
    BY <1>1, <1>4, ArriveIs
  <2>2. PICK o \in Outputs : output' = Append(output, o)
    BY <1>1, <1>4, ArriveIs
  <2>3. owner' \in Seq(Clients) /\ output' \in Seq(Outputs) /\ Len(output') = Len(owner')
    BY <1>1, <2>1, <2>2 DEF TypeOK
  <2>4. received' \in [Clients -> Seq(Requests)]
    <3>1. Len(owner) + 1 \in Requests
      BY <2>1, BrtAssumption DEF Requests
    <3> QED BY <1>1, <2>1, <3>1 DEF TypeOK
  <2>5. /\ batch' = batch /\ at' = at /\ iClient' = iClient /\ iMessage' = iMessage /\ got' = got
        /\ responses' = responses /\ pipe' = pipe /\ process' = process /\ held' = held
        /\ child' = child /\ unread' = unread /\ answers' = answers
    BY <1>1, <1>4, ArriveIs
  <2> QED BY <1>1, <1>3, <2>3, <2>4, <2>5 DEF TypeOK, Response
<1>5. ASSUME NEW r \in Requests, Write(r) PROVE TypeOK'
  <2>1. /\ child[r].left - 1 \in Nat /\ unread[r] + 1 \in 0..Capacity
        /\ child' = [child EXCEPT ![r].left = @ - 1] /\ unread' = [unread EXCEPT ![r] = @ + 1]
    BY <1>1, <1>5, WriteIs, BrtAssumption
  <2>2. /\ child' \in [Requests -> [at: {"none", "running", "done"}, left: Nat, inherits: SUBSET Requests]]
        /\ unread' \in [Requests -> 0..Capacity]
    <3>1. /\ child \in [Requests -> [at: {"none", "running", "done"}, left: Nat, inherits: SUBSET Requests]]
          /\ unread \in [Requests -> 0..Capacity]
      BY <1>1 DEF TypeOK
    <3>2. [child[r] EXCEPT !.left = child[r].left - 1] \in [at: {"none", "running", "done"}, left: Nat, inherits: SUBSET Requests]
      BY <2>1, <3>1
    <3>3. child' \in [Requests -> [at: {"none", "running", "done"}, left: Nat, inherits: SUBSET Requests]]
      BY <2>1, <3>1, <3>2
    <3> QED BY <2>1, <3>1, <3>3
  <2>3. /\ owner' = owner /\ output' = output /\ received' = received
        /\ batch' = batch /\ at' = at /\ iClient' = iClient /\ iMessage' = iMessage /\ got' = got
        /\ responses' = responses /\ pipe' = pipe /\ process' = process /\ held' = held
        /\ answers' = answers
    BY <1>1, <1>5, WriteIs
  <2> QED BY <1>1, <1>3, <2>2, <2>3 DEF TypeOK
<1>6. ASSUME NEW r \in Requests, Exit(r) PROVE TypeOK'
  <2>1. child' \in [Requests -> [at: {"none", "running", "done"}, left: Nat, inherits: SUBSET Requests]]
    <3>1. child \in [Requests -> [at: {"none", "running", "done"}, left: Nat, inherits: SUBSET Requests]]
      BY <1>1 DEF TypeOK
    <3>2. [child[r] EXCEPT !.at = "done"] \in [at: {"none", "running", "done"}, left: Nat, inherits: SUBSET Requests]
      BY <3>1
    <3> QED BY <1>6, <3>1, <3>2, ExitIs
  <2>2. /\ owner' = owner /\ output' = output /\ received' = received
        /\ batch' = batch /\ at' = at /\ iClient' = iClient /\ iMessage' = iMessage /\ got' = got
        /\ responses' = responses /\ pipe' = pipe /\ process' = process /\ held' = held
        /\ answers' = answers /\ unread' = unread
    BY <1>6, ExitIs
  <2> QED BY <1>1, <1>3, <2>1, <2>2 DEF TypeOK
<1>7. CASE Collect
  <2>1. /\ at = "idle" /\ at' = "execute" /\ iClient' = 1 /\ iMessage' = 1 /\ responses' = <<>>
        /\ batch' = received /\ received' = [c \in Clients |-> <<>>]
        /\ owner' = owner /\ output' = output /\ got' = got
        /\ pipe' = pipe /\ process' = process /\ held' = held /\ child' = child /\ unread' = unread
        /\ answers' = answers
    BY <1>7, CollectIs
  <2>2. received' \in [Clients -> Seq(Requests)] /\ responses' \in Seq(Response)
    BY <2>1
  <2>3. iClient' \in 1..NumClients + 1 /\ (iClient' <= NumClients => iMessage' <= Len(batch'[iClient']) + 1)
    <3>1. 1 \in Clients
      BY BrtAssumption DEF Clients
    <3>2. received[1] \in Seq(Requests)
      BY <1>1, <3>1 DEF TypeOK
    <3> QED BY <2>1, <3>2, BrtAssumption
  <2>4. got' = 0 /\ got \in Nat
    BY <1>1, <2>1 DEF TypeOK
  <2> QED BY <1>1, <1>3, <2>1, <2>2, <2>3, <2>4 DEF TypeOK
<1>8. CASE NextClient
  <2>1. /\ at \in {"execute", "read"} /\ at' = at
        /\ iClient <= NumClients /\ iMessage > Len(batch[iClient])
        /\ iClient' = iClient + 1 /\ iMessage' = 1
        /\ owner' = owner /\ output' = output /\ received' = received /\ batch' = batch
        /\ got' = got /\ responses' = responses /\ pipe' = pipe /\ process' = process /\ held' = held
        /\ child' = child /\ unread' = unread /\ answers' = answers
    BY <1>8, NextClientIs
  <2>2. iClient' \in 1..NumClients + 1 /\ (iClient' <= NumClients => iMessage' <= Len(batch'[iClient']) + 1)
    <3>1. iClient + 1 \in 1..NumClients + 1
      BY <1>1, <2>1, BrtAssumption DEF TypeOK
    <3>2. ASSUME iClient + 1 <= NumClients PROVE Len(batch[iClient + 1]) \in Nat
      <4>1. iClient + 1 \in Clients
        BY <3>1, <3>2, BrtAssumption DEF Clients
      <4> QED BY <1>1, <4>1 DEF TypeOK
    <3> QED BY <2>1, <3>1, <3>2
  <2> QED BY <1>1, <1>3, <2>1, <2>2 DEF TypeOK
<1>9. CASE Execute
  <2>1. /\ at = "execute" /\ AtRequest /\ at' = at
        /\ iClient' = iClient /\ iMessage' = iMessage + 1
        /\ pipe' = [pipe EXCEPT ![iClient] = Current] /\ held' = held \cup {Current}
        /\ owner' = owner /\ output' = output /\ received' = received /\ batch' = batch
        /\ got' = got /\ responses' = responses /\ unread' = unread /\ answers' = answers
    BY <1>9, ExecuteIs
  <2>2. /\ iClient \in Clients /\ iMessage \in 1..Len(batch[iClient])
        /\ Current \in Requests /\ output[Current].writes \in Nat
    BY <1>1, <2>1, AtCurrent
  <2>3. held' \subseteq Requests
    BY <1>1, <2>1, <2>2 DEF TypeOK
  <2>4. pipe' \in [Clients -> 0..MaxRequests]
    <3>1. Current \in 0..MaxRequests
      BY <2>2, BrtAssumption DEF Requests
    <3> QED BY <1>1, <2>1, <3>1 DEF TypeOK
  <2>5. /\ process' \in [Clients -> 0..MaxRequests]
        /\ child' \in [Requests -> [at: {"none", "running", "done"}, left: Nat, inherits: SUBSET Requests]]
    <3>1. 0 \in 0..MaxRequests /\ Current \in 0..MaxRequests
      BY <2>2, BrtAssumption DEF Requests
    <3>2. CASE /\ process' = [process EXCEPT ![iClient] = Current]
               /\ child' = [child EXCEPT ![Current] = [at |-> "running", left |-> output[Current].writes,
                                                       inherits |-> held']]
      BY <1>1, <2>2, <2>3, <3>1, <3>2 DEF TypeOK
    <3>3. CASE process' = [process EXCEPT ![iClient] = 0] /\ child' = child
      BY <1>1, <2>2, <3>1, <3>3 DEF TypeOK
    <3> QED BY <1>9, <3>2, <3>3, ExecuteIs
  <2>6. /\ iMessage' \in Nat \ {0}
        /\ iClient' <= NumClients => iMessage' <= Len(batch'[iClient']) + 1
    <3>1. iMessage \in Nat \ {0} /\ batch[iClient] \in Seq(Requests)
      BY <1>1, <2>2 DEF TypeOK
    <3> QED BY <2>1, <2>2, <3>1
  <2> QED BY <1>1, <1>3, <2>1, <2>3, <2>4, <2>5, <2>6 DEF TypeOK
<1>10. CASE ExecuteEnd
  <2>1. /\ at = "execute" /\ at' = "sleep" /\ iClient' = iClient /\ iMessage' = iMessage
        /\ owner' = owner /\ output' = output /\ received' = received /\ batch' = batch
        /\ got' = got /\ responses' = responses /\ pipe' = pipe /\ process' = process /\ held' = held
        /\ child' = child /\ unread' = unread /\ answers' = answers
    BY <1>10, ExecuteEndIs
  <2> QED BY <1>1, <1>3, <2>1 DEF TypeOK
<1>11. CASE SleepEnd
  <2>1. /\ at = "sleep" /\ at' = "read" /\ iClient' = 1 /\ iMessage' = 1
        /\ owner' = owner /\ output' = output /\ received' = received /\ batch' = batch
        /\ got' = got /\ responses' = responses /\ pipe' = pipe /\ process' = process /\ held' = held
        /\ child' = child /\ unread' = unread /\ answers' = answers
    BY <1>11, SleepEndIs
  <2>2. iClient' \in 1..NumClients + 1 /\ (iClient' <= NumClients => iMessage' <= Len(batch'[iClient']) + 1)
    <3>1. 1 \in Clients
      BY BrtAssumption DEF Clients
    <3>2. batch[1] \in Seq(Requests)
      BY <1>1, <3>1 DEF TypeOK
    <3> QED BY <2>1, <3>2, BrtAssumption
  <2> QED BY <1>1, <1>3, <2>1, <2>2 DEF TypeOK
<1>12. CASE Read
  <2>1. /\ at = "read" /\ AtRequest /\ iClient' = iClient /\ iMessage' = iMessage
        /\ owner' = owner /\ output' = output /\ received' = received /\ batch' = batch
        /\ responses' = responses /\ pipe' = pipe /\ process' = process /\ held' = held
        /\ child' = child /\ answers' = answers
        /\ \/ /\ at' = "check" /\ got' = got + unread[pipe[iClient]]
              /\ unread' = [unread EXCEPT ![pipe[iClient]] = 0]
           \/ at' = "ended" /\ got' = got /\ unread' = unread
    BY <1>12, ReadIs
  <2>2. pipe[iClient] \in Requests /\ unread[pipe[iClient]] \in 0..Capacity
    BY <2>1, AtPipe DEF Reading
  <2>3. got' \in Nat /\ unread' \in [Requests -> 0..Capacity] /\ at' \in {"check", "ended"}
    <3>1. 0 \in 0..Capacity
      BY BrtAssumption
    <3>2. got \in Nat /\ unread \in [Requests -> 0..Capacity]
      BY <1>1 DEF TypeOK
    <3>3. unread[pipe[iClient]] \in Nat /\ got + unread[pipe[iClient]] \in Nat
      BY <2>2, <3>2, BrtAssumption
    <3>4. [unread EXCEPT ![pipe[iClient]] = 0] \in [Requests -> 0..Capacity]
      BY <3>1, <3>2
    <3> QED BY <2>1, <3>2, <3>3, <3>4
  <2> QED BY <1>1, <1>3, <2>1, <2>3 DEF TypeOK
<1>13. CASE Check
  <2>1. /\ at = "check" /\ at' = "read" /\ iClient' = iClient
        /\ owner' = owner /\ output' = output /\ received' = received /\ batch' = batch
        /\ pipe' = pipe /\ process' = process
        /\ child' = child /\ unread' = unread /\ answers' = answers
        /\ \/ /\ responses' = Append(responses, [request |-> Current, of |-> pipe[iClient], writes |-> got])
              /\ held' = held \ {pipe[iClient]}
              /\ iMessage' = iMessage + 1 /\ got' = 0
           \/ responses' = responses /\ held' = held /\ iMessage' = iMessage /\ got' = got
    BY <1>13, CheckIs
  <2>2. AtRequest
    BY <2>1 DEF BrtInv, Pipes
  <2>3. /\ iClient \in Clients /\ iMessage \in 1..Len(batch[iClient]) /\ Current \in Requests
        /\ pipe[iClient] \in Requests
    BY <1>1, <2>1, <2>2, AtCurrent, AtPipe DEF Reading
  <2>4. got \in Nat /\ got' \in Nat /\ responses \in Seq(Response)
    BY <1>1, <2>1 DEF TypeOK
  <2>5. [request |-> Current, of |-> pipe[iClient], writes |-> got] \in Response
    BY <2>3, <2>4 DEF Response
  <2>6. responses' \in Seq(Response)
    BY <2>1, <2>4, <2>5
  <2>7. iMessage' \in Nat \ {0} /\ (iClient' <= NumClients => iMessage' <= Len(batch'[iClient']) + 1)
    <3>1. iMessage \in Nat \ {0} /\ batch[iClient] \in Seq(Requests)
      BY <1>1, <2>3 DEF TypeOK
    <3> QED BY <2>1, <2>3, <3>1
  <2>8. held' \subseteq Requests
    BY <1>1, <2>1 DEF TypeOK
  <2> QED BY <1>1, <1>3, <2>1, <2>4, <2>6, <2>7, <2>8 DEF TypeOK
<1>14. CASE Reply
  <2>1. /\ at = "read" /\ iClient > NumClients /\ at' = "idle"
        /\ answers' = answers \o responses
        /\ iClient' = iClient /\ iMessage' = iMessage
        /\ owner' = owner /\ output' = output /\ received' = received /\ batch' = batch
        /\ got' = got /\ responses' = responses /\ pipe' = pipe /\ process' = process /\ held' = held
        /\ child' = child /\ unread' = unread
    BY <1>14, ReplyIs
  <2>2. got = 0
    <3>1. ~AtRequest
      BY <1>1, <2>1, BrtAssumption DEF AtRequest, TypeOK
    <3>2. ~(got > 0) /\ got \in Nat
      BY <1>1, <2>1, <3>1 DEF BrtInv, Pipes, TypeOK
    <3> QED BY <3>2
  <2>3. answers' \in Seq(Response)
    BY <1>1, <2>1, ConcatProperties DEF TypeOK
  <2> QED BY <1>1, <1>3, <2>1, <2>2, <2>3 DEF TypeOK
<1> QED BY <1>4, <1>5, <1>6, <1>7, <1>8, <1>9, <1>10, <1>11, <1>12, <1>13, <1>14 DEF Next, Update


LEMMA AnsweredOnceStep == BrtInv /\ [Next]_vars => AnsweredOnce'
<1> SUFFICES ASSUME BrtInv, [Next]_vars PROVE AnsweredOnce'
  OBVIOUS
<1>1. /\ TypeOK /\ Numbered /\ AnsweredOnce /\ ResponsesOfBatch
      /\ Len(owner) \in Nat /\ answers \in Seq(Response) /\ responses \in Seq(Response)
      /\ Len(answers) \in Nat /\ Len(responses) \in Nat
  BY DEF BrtInv, BrtBase, TypeOK
<1>2. ASSUME owner' = owner, received' = received, batch' = batch, answers' = answers,
             at' # "idle" => at # "idle"
      PROVE  AnsweredOnce'
  BY <1>1, <1>2 DEF AnsweredOnce
<1>3. ASSUME NEW c \in Clients, Arrive(c) PROVE AnsweredOnce'
  <2>1. /\ Len(owner') = Len(owner) + 1 /\ \A r \in 1..Len(owner) : r \in 1..Len(owner')
        /\ \A d \in Clients : \A k \in 1..Len(received'[d]) :
              \/ k \in 1..Len(received[d]) /\ received'[d][k] = received[d][k]
              \/ d = c /\ k = Len(received[c]) + 1 /\ received'[d][k] = Len(owner) + 1
        /\ batch' = batch /\ at' = at /\ answers' = answers
    BY <1>1, <1>3, ArriveIs
  <2>2. \A k \in 1..Len(answers), d \in Clients : \A l \in 1..Len(received'[d]) :
           answers[k].request # received'[d][l]
    <3>1. \A k \in 1..Len(answers) : answers[k].request \in 1..Len(owner)
      BY <1>1 DEF AnsweredOnce
    <3>2. \A k \in 1..Len(answers), d \in Clients : \A l \in 1..Len(received[d]) :
             answers[k].request # received[d][l]
      BY <1>1 DEF AnsweredOnce
    <3> SUFFICES ASSUME NEW k \in 1..Len(answers), NEW d \in Clients, NEW l \in 1..Len(received'[d])
                 PROVE  answers[k].request # received'[d][l]
      OBVIOUS
    <3>3. CASE l \in 1..Len(received[d]) /\ received'[d][l] = received[d][l]
      BY <3>2, <3>3
    <3>4. CASE received'[d][l] = Len(owner) + 1
      BY <1>1, <3>1, <3>4
    <3> QED BY <2>1, <3>3, <3>4
  <2>3. \A k \in 1..Len(answers) : answers[k].request \in 1..Len(owner') /\ answers[k].of \in 1..Len(owner')
    BY <1>1, <2>1 DEF AnsweredOnce
  <2> QED BY <1>1, <2>1, <2>2, <2>3 DEF AnsweredOnce
<1>4. CASE Collect
  <2>1. /\ batch' = received /\ owner' = owner /\ answers' = answers
        /\ \A c \in Clients : Len(received'[c]) = 0
    BY <1>4, CollectIs
  <2> QED BY <1>1, <2>1 DEF AnsweredOnce
<1>5. CASE Reply
  <2>1. /\ at = "read" /\ at' = "idle" /\ answers' = answers \o responses
        /\ owner' = owner /\ received' = received
    BY <1>5, ReplyIs
  <2>2. /\ Len(answers') = Len(answers) + Len(responses)
        /\ \A k \in 1..Len(answers) : answers'[k] = answers[k]
        /\ \A k \in 1..Len(answers') : k > Len(answers) =>
              k - Len(answers) \in 1..Len(responses) /\ answers'[k] = responses[k - Len(answers)]
    BY <1>1, <2>1
  <2>3. \A k \in 1..Len(responses) :
           /\ responses[k].request \in 1..Len(owner) /\ responses[k].of \in 1..Len(owner)
           /\ \A l \in 1..Len(answers) : answers[l].request # responses[k].request
           /\ \A c \in Clients : \A l \in 1..Len(received[c]) : responses[k].request # received[c][l]
    <3> SUFFICES ASSUME NEW k \in 1..Len(responses)
                 PROVE  /\ responses[k].request \in 1..Len(owner) /\ responses[k].of \in 1..Len(owner)
                        /\ \A l \in 1..Len(answers) : answers[l].request # responses[k].request
                        /\ \A c \in Clients : \A l \in 1..Len(received[c]) :
                              responses[k].request # received[c][l]
      OBVIOUS
    <3>1. PICK d \in Clients : \E m \in 1..Len(batch[d]) : responses[k].request = batch[d][m]
      BY <1>1, <2>1 DEF ResponsesOfBatch, Reading
    <3>2. PICK m \in 1..Len(batch[d]) : responses[k].request = batch[d][m]
      BY <3>1
    <3>3. responses[k].of \in 1..Len(owner)
      BY <1>1, <2>1 DEF ResponsesOfBatch, Reading
    <3>4. responses[k].request \in 1..Len(owner) /\ owner[responses[k].request] = d
      BY <1>1, <3>2 DEF Numbered, Theirs, Different, Apart
    <3>5. \A l \in 1..Len(answers) : answers[l].request # responses[k].request
      BY <1>1, <2>1, <3>2 DEF AnsweredOnce
    <3>6. \A c \in Clients : \A l \in 1..Len(received[c]) : responses[k].request # received[c][l]
      <4> SUFFICES ASSUME NEW c \in Clients, NEW l \in 1..Len(received[c])
                   PROVE  responses[k].request # received[c][l]
        OBVIOUS
      <4>1. owner[received[c][l]] = c
        BY <1>1 DEF Numbered, Theirs
      <4>2. CASE c = d
        BY <1>1, <3>2, <4>2 DEF Numbered, Apart
      <4> QED BY <3>4, <4>1, <4>2
    <3> QED BY <3>3, <3>4, <3>5, <3>6
  <2>4. \A k, l \in 1..Len(responses) : responses[k].request = responses[l].request => k = l
    BY <1>1, <2>1 DEF ResponsesOfBatch, Reading
  <2>5. \A k, l \in 1..Len(answers') : answers'[k].request = answers'[l].request => k = l
    <3> SUFFICES ASSUME NEW k \in 1..Len(answers'), NEW l \in 1..Len(answers'),
                        answers'[k].request = answers'[l].request
                 PROVE  k = l
      OBVIOUS
    <3>1. CASE k <= Len(answers) /\ l <= Len(answers)
      BY <1>1, <2>2, <3>1 DEF AnsweredOnce
    <3>2. CASE k > Len(answers) /\ l > Len(answers)
      <4>1. k - Len(answers) = l - Len(answers)
        BY <2>2, <2>4, <3>2
      <4> QED BY <1>1, <4>1
    <3>3. CASE k <= Len(answers) /\ l > Len(answers)
      BY <1>1, <2>2, <2>3, <3>3
    <3>4. CASE k > Len(answers) /\ l <= Len(answers)
      BY <1>1, <2>2, <2>3, <3>4
    <3> QED BY <1>1, <2>2, <3>1, <3>2, <3>3, <3>4
  <2>6. \A k \in 1..Len(answers') :
           /\ answers'[k].request \in 1..Len(owner) /\ answers'[k].of \in 1..Len(owner)
           /\ \A c \in Clients : \A l \in 1..Len(received[c]) : answers'[k].request # received[c][l]
    <3> SUFFICES ASSUME NEW k \in 1..Len(answers')
                 PROVE  /\ answers'[k].request \in 1..Len(owner) /\ answers'[k].of \in 1..Len(owner)
                        /\ \A c \in Clients : \A l \in 1..Len(received[c]) :
                              answers'[k].request # received[c][l]
      OBVIOUS
    <3>1. CASE k <= Len(answers)
      BY <1>1, <2>2, <3>1 DEF AnsweredOnce
    <3>2. CASE k > Len(answers)
      BY <2>2, <2>3, <3>2
    <3> QED BY <1>1, <2>2, <3>1, <3>2
  <2> QED BY <2>1, <2>5, <2>6 DEF AnsweredOnce
<1>6. ASSUME NEW r \in Requests, Write(r) \/ Exit(r) PROVE AnsweredOnce'
  BY <1>1, <1>2, <1>6, WriteIs, ExitIs
<1>7. CASE NextClient
  BY <1>2, <1>7, NextClientIs
<1>8. CASE Execute
  BY <1>2, <1>8, ExecuteIs
<1>9. CASE ExecuteEnd
  BY <1>2, <1>9, ExecuteEndIs
<1>10. CASE SleepEnd
  BY <1>2, <1>10, SleepEndIs
<1>11. CASE Read
  BY <1>2, <1>11, ReadIs
<1>12. CASE Check
  BY <1>2, <1>12, CheckIs
<1>13. CASE UNCHANGED vars
  BY <1>2, <1>13 DEF vars, arrived
<1> QED BY <1>3, <1>4, <1>5, <1>6, <1>7, <1>8, <1>9, <1>10, <1>11, <1>12, <1>13 DEF Next, Update

LEMMA ResponsesOfBatchStep == BrtInv /\ [Next]_vars => ResponsesOfBatch'
<1> SUFFICES ASSUME BrtInv, [Next]_vars PROVE ResponsesOfBatch'
  OBVIOUS
<1>1. /\ TypeOK /\ BrtBase /\ Numbered /\ ResponsesOfBatch
      /\ Len(owner) \in Nat /\ responses \in Seq(Response) /\ Len(responses) \in Nat
      /\ iClient \in Nat /\ iMessage \in Nat
  BY BrtAssumption DEF BrtInv, BrtBase, TypeOK
<1>2. ASSUME at' \in {"idle", "ended"} PROVE ResponsesOfBatch'
  BY <1>2 DEF ResponsesOfBatch, Reading
<1>3. ASSUME at' \in {"execute", "sleep"}, responses' = <<>> PROVE ResponsesOfBatch'
  BY <1>3 DEF ResponsesOfBatch, Reading
<1>4. ASSUME responses' = responses, batch' = batch, Len(owner) <= Len(owner'), Len(owner') \in Nat,
             at' \in {"execute", "sleep"} => at \in {"execute", "sleep"}, Reading' => Reading,
             \A c \in Clients : \A l \in 1..Len(batch[c]) : Passed(c, l) => Passed(c, l)'
      PROVE  ResponsesOfBatch'
  <2>1. at' \in {"execute", "sleep"} => responses' = <<>>
    BY <1>1, <1>4 DEF ResponsesOfBatch
  <2>2. ASSUME Reading'
        PROVE  /\ \A k, l \in 1..Len(responses') : responses'[k].request = responses'[l].request => k = l
               /\ \A k \in 1..Len(responses') : responses'[k].of \in 1..Len(owner')
               /\ \A k \in 1..Len(responses') : \E c \in Clients : \E l \in 1..Len(batch'[c]) :
                      Passed(c, l)' /\ responses'[k].request = batch'[c][l]
    <3>1. Reading
      BY <1>4, <2>2
    <3>2. \A k, l \in 1..Len(responses) : responses[k].request = responses[l].request => k = l
      BY <1>1, <3>1 DEF ResponsesOfBatch
    <3>3. \A k \in 1..Len(responses) : responses[k].of \in 1..Len(owner')
      BY <1>1, <1>4, <3>1 DEF ResponsesOfBatch
    <3>4. ASSUME NEW k \in 1..Len(responses)
          PROVE  \E c \in Clients : \E l \in 1..Len(batch[c]) :
                     Passed(c, l)' /\ responses[k].request = batch[c][l]
      <4>1. PICK c \in Clients : \E l \in 1..Len(batch[c]) :
                     Passed(c, l) /\ responses[k].request = batch[c][l]
        BY <1>1, <3>1 DEF ResponsesOfBatch
      <4>2. PICK l \in 1..Len(batch[c]) : Passed(c, l) /\ responses[k].request = batch[c][l]
        BY <4>1
      <4>3. Passed(c, l)'
        BY <1>4, <4>2
      <4> QED BY <4>2, <4>3
    <3> QED BY <1>4, <3>2, <3>3, <3>4
  <2> QED BY <2>1, <2>2 DEF ResponsesOfBatch
<1>5. ASSUME NEW c \in Clients, Arrive(c) PROVE ResponsesOfBatch'
  BY <1>1, <1>4, <1>5, ArriveIs DEF Passed, Reading
<1>6. ASSUME NEW r \in Requests, Write(r) \/ Exit(r) PROVE ResponsesOfBatch'
  BY <1>1, <1>4, <1>6, WriteIs, ExitIs DEF Passed, Reading
<1>7. CASE Collect
  BY <1>3, <1>7, CollectIs
<1>8. CASE NextClient
  <2>1. /\ iClient' = iClient + 1 /\ at' = at /\ owner' = owner
        /\ batch' = batch /\ responses' = responses
    BY <1>8, NextClientIs
  <2>2. \A c \in Clients : \A l \in 1..Len(batch[c]) : Passed(c, l) => Passed(c, l)'
    BY <1>1, <2>1, BrtAssumption DEF Passed, Clients
  <2> QED BY <1>1, <1>4, <2>1, <2>2 DEF Reading
<1>9. CASE Execute
  BY <1>1, <1>3, <1>9, ExecuteIs DEF ResponsesOfBatch
<1>10. CASE ExecuteEnd
  BY <1>1, <1>3, <1>10, ExecuteEndIs DEF ResponsesOfBatch
<1>11. CASE SleepEnd
  <2>1. responses = <<>> /\ responses' = responses /\ at' = "read"
    BY <1>1, <1>11, SleepEndIs DEF ResponsesOfBatch
  <2> QED BY <2>1 DEF ResponsesOfBatch
<1>12. CASE Read
  BY <1>1, <1>2, <1>4, <1>12, ReadIs DEF Passed, Reading
<1>13. CASE Reply
  BY <1>2, <1>13, ReplyIs
<1>14. CASE Check
  <2>1. /\ at = "check" /\ at' = "read" /\ iClient' = iClient /\ batch' = batch /\ owner' = owner
        /\ \/ /\ responses' = Append(responses, [request |-> Current, of |-> pipe[iClient], writes |-> got])
              /\ iMessage' = iMessage + 1
           \/ responses' = responses /\ iMessage' = iMessage
    BY <1>14, CheckIs
  <2>2. CASE responses' = responses /\ iMessage' = iMessage
    BY <1>1, <1>4, <2>1, <2>2 DEF Passed, Reading
  <2>3. CASE /\ responses' = Append(responses, [request |-> Current, of |-> pipe[iClient], writes |-> got])
             /\ iMessage' = iMessage + 1
    <3>1. AtRequest
      BY <2>1 DEF BrtInv, Pipes
    <3>2. /\ iClient \in Clients /\ iMessage \in 1..Len(batch[iClient])
          /\ pipe[iClient] \in 1..Len(owner)
      BY <1>1, <2>1, <3>1, AtCurrent, AtPipe DEF Reading
    <3>3. /\ Len(responses') = Len(responses) + 1
          /\ \A k \in 1..Len(responses) : responses'[k] = responses[k]
          /\ responses'[Len(responses) + 1] = [request |-> Current, of |-> pipe[iClient], writes |-> got]
      BY <1>1, <2>3
    <3>4. ASSUME NEW k \in 1..Len(responses)
          PROVE  \E c \in Clients : \E l \in 1..Len(batch[c]) :
                     Passed(c, l) /\ responses[k].request = batch[c][l]
      BY <1>1, <2>1 DEF ResponsesOfBatch, Reading
    <3>5. ASSUME NEW k \in 1..Len(responses) PROVE responses[k].request # Current
      <4>1. PICK c \in Clients : \E l \in 1..Len(batch[c]) :
                     Passed(c, l) /\ responses[k].request = batch[c][l]
        BY <3>4
      <4>2. PICK l \in 1..Len(batch[c]) : Passed(c, l) /\ responses[k].request = batch[c][l]
        BY <4>1
      <4>3. owner[batch[c][l]] = c /\ owner[Current] = iClient
        BY <1>1, <3>1, AtCurrent DEF Numbered, Theirs, Different, Apart
      <4>4. CASE c # iClient
        BY <4>2, <4>3, <4>4
      <4>5. CASE c = iClient
        <5>1. l < iMessage
          BY <1>1, <4>2, <4>5 DEF Passed
        <5>2. batch[iClient][l] # batch[iClient][iMessage]
          BY <1>1, <3>2, <4>2, <4>5, <5>1 DEF Numbered, Theirs, Different, Apart
        <5> QED BY <4>2, <4>5, <5>2 DEF Current
      <4> QED BY <4>4, <4>5
    <3>6. \A k \in 1..Len(responses') :
             \/ k \in 1..Len(responses) /\ responses'[k] = responses[k]
             \/ /\ k = Len(responses) + 1
                /\ responses'[k].request = Current /\ responses'[k].of = pipe[iClient]
      BY <1>1, <3>3
    <3>7. \A k, l \in 1..Len(responses') : responses'[k].request = responses'[l].request => k = l
      <4>1. \A k, l \in 1..Len(responses) : responses[k].request = responses[l].request => k = l
        BY <1>1, <2>1 DEF ResponsesOfBatch, Reading
      <4> QED BY <3>5, <3>6, <4>1
    <3>8. \A k \in 1..Len(responses') : responses'[k].of \in 1..Len(owner')
      <4>1. \A k \in 1..Len(responses) : responses[k].of \in 1..Len(owner)
        BY <1>1, <2>1 DEF ResponsesOfBatch, Reading
      <4> QED BY <2>1, <3>2, <3>6, <4>1
    <3>9. \A c \in Clients : \A l \in 1..Len(batch[c]) : Passed(c, l) => Passed(c, l)'
      BY <1>1, <2>1, <2>3 DEF Passed
    <3>10. ASSUME NEW k \in 1..Len(responses')
           PROVE  \E c \in Clients : \E l \in 1..Len(batch[c]) :
                      Passed(c, l)' /\ responses'[k].request = batch[c][l]
      <4>1. CASE k \in 1..Len(responses) /\ responses'[k] = responses[k]
        <5>1. PICK c \in Clients : \E l \in 1..Len(batch[c]) :
                       Passed(c, l) /\ responses[k].request = batch[c][l]
          BY <3>4, <4>1
        <5>2. PICK l \in 1..Len(batch[c]) : Passed(c, l) /\ responses[k].request = batch[c][l]
          BY <5>1
        <5>3. Passed(c, l)'
          BY <3>9, <5>2
        <5> QED BY <4>1, <5>2, <5>3
      <4>2. CASE responses'[k].request = Current
        <5>1. \A c, l : c = iClient /\ l = iMessage => Passed(c, l)'
          BY <1>1, <2>1, <2>3 DEF Passed
        <5>2. \E c \in Clients : \E l \in 1..Len(batch[c]) :
                 c = iClient /\ l = iMessage /\ responses'[k].request = batch[c][l]
          BY <3>2, <4>2 DEF Current
        <5> QED BY <5>1, <5>2
      <4> QED BY <3>6, <4>1, <4>2
    <3> QED BY <2>1, <3>7, <3>8, <3>10 DEF ResponsesOfBatch
  <2> QED BY <2>1, <2>2, <2>3
<1>15. CASE UNCHANGED vars
  <2>1. /\ responses' = responses /\ batch' = batch /\ owner' = owner /\ at' = at
        /\ iClient' = iClient /\ iMessage' = iMessage
    BY <1>15 DEF vars, arrived, loop
  <2> QED BY <1>1, <1>4, <2>1 DEF Passed, Reading
<1> QED BY <1>5, <1>6, <1>7, <1>8, <1>9, <1>10, <1>11, <1>12, <1>13, <1>14, <1>15 DEF Next, Update

\* A request that the loops are not at is not the one that they are at.
LEMMA OthersAreNotCurrent ==
    ASSUME BrtBase, AtRequest, NEW c \in Clients, NEW k \in 1..Len(batch[c]),
           batch[c][k] = Current
    PROVE  c = iClient /\ k = iMessage
<1>1. owner[batch[c][k]] = c
  BY DEF BrtBase, Numbered, Theirs, Different, Apart
<1>2. c = iClient
  BY <1>1, AtCurrent
<1> QED BY <1>2, AtCurrent DEF BrtBase, Numbered, Theirs, Different, Apart, Current

LEMMA ProcessesStep == BrtInv /\ [Next]_vars => Processes'
<1> SUFFICES ASSUME BrtInv, [Next]_vars PROVE Processes'
  OBVIOUS
<1>1. /\ TypeOK /\ BrtBase /\ Numbered /\ Processes
      /\ Len(owner) \in Nat /\ iClient \in Nat /\ iMessage \in Nat
      /\ child \in [Requests -> [at: {"none", "running", "done"}, left: Nat, inherits: SUBSET Requests]]
      /\ unread \in [Requests -> 0..Capacity]
  BY BrtAssumption DEF BrtInv, BrtBase, TypeOK
<1>2. ASSUME child' = child, received' = received, owner' = owner, batch' = batch,
             unread' = unread, at' = "execute" => at = "execute",
             \A c \in Clients : \A k \in 1..Len(batch[c]) : Passed(c, k) => Passed(c, k)'
      PROVE  Processes'
  BY <1>1, <1>2 DEF Processes
<1>3. ASSUME NEW c \in Clients, Arrive(c) PROVE Processes'
  <2>1. /\ Len(owner) < MaxRequests /\ Len(owner') = Len(owner) + 1 /\ \A r \in 1..Len(owner) : r \in 1..Len(owner')
        /\ \A d \in Clients : \A k \in 1..Len(received'[d]) :
              \/ k \in 1..Len(received[d]) /\ received'[d][k] = received[d][k]
              \/ d = c /\ k = Len(received[c]) + 1 /\ received'[d][k] = Len(owner) + 1
        /\ batch' = batch /\ at' = at /\ child' = child /\ unread' = unread
        /\ iClient' = iClient /\ iMessage' = iMessage
    BY <1>1, <1>3, ArriveIs
  <2>2. child[Len(owner) + 1].at = "none"
    <3>1. Len(owner) + 1 \in Requests /\ Len(owner) + 1 \notin 1..Len(owner)
      BY <1>1, <2>1, BrtAssumption DEF Requests
    <3> QED BY <1>1, <3>1 DEF Processes
  <2>3. \A d \in Clients : \A k \in 1..Len(received'[d]) : child[received'[d][k]].at = "none"
    <3>1. \A d \in Clients : \A k \in 1..Len(received[d]) : child[received[d][k]].at = "none"
      BY <1>1 DEF Processes
    <3> QED BY <2>1, <2>2, <3>1
  <2>4. /\ \A r \in Requests : unread[r] > 0 => child[r].at # "none"
        /\ \A r \in Requests : child[r].at # "none" => r \in 1..Len(owner')
        /\ \A r \in Requests : child[r].at = "done" => child[r].left = 0
    BY <1>1, <2>1 DEF Processes
  <2>5. at = "execute" => \A d \in Clients : \A k \in 1..Len(batch[d]) :
           ~Passed(d, k)' => child[batch[d][k]].at = "none"
    BY <1>1, <2>1 DEF Processes, Passed
  <2> QED BY <2>1, <2>3, <2>4, <2>5 DEF Processes
<1>4. ASSUME NEW r \in Requests, Write(r) \/ Exit(r) PROVE Processes'
  <2>1. /\ child[r].at = "running"
        /\ child'[r].at \in {"running", "done"} /\ (child'[r].at = "done" => child'[r].left = 0)
        /\ \A q \in Requests \ {r} : child'[q] = child[q] /\ unread'[q] = unread[q]
    <3>1. CASE Write(r)
      <4>1. /\ child[r].at = "running" /\ child' = [child EXCEPT ![r].left = @ - 1]
            /\ unread' = [unread EXCEPT ![r] = @ + 1]
        BY <1>1, <3>1, WriteIs
      <4>2. child'[r].at = "running"
        BY <1>1, <4>1
      <4> QED BY <1>1, <4>1, <4>2
    <3>2. CASE Exit(r)
      <4>1. /\ child[r].at = "running" /\ child[r].left = 0 /\ child' = [child EXCEPT ![r].at = "done"]
            /\ unread' = unread
        BY <3>2, ExitIs
      <4>2. child'[r].at = "done" /\ child'[r].left = 0
        BY <1>1, <4>1
      <4> QED BY <1>1, <4>1, <4>2
    <3> QED BY <1>4, <3>1, <3>2
  <2>2. /\ owner' = owner /\ received' = received /\ batch' = batch /\ at' = at
        /\ iClient' = iClient /\ iMessage' = iMessage
    BY <1>1, <1>4, WriteIs, ExitIs
  <2>3. r \in 1..Len(owner)
    BY <1>1, <2>1 DEF Processes
  <2>4. /\ \A q \in Requests : unread'[q] > 0 => child'[q].at # "none"
        /\ \A q \in Requests : child'[q].at # "none" => q \in 1..Len(owner)
        /\ \A q \in Requests : child'[q].at = "done" => child'[q].left = 0
    BY <1>1, <2>1, <2>3 DEF Processes
  <2>5. \A q \in Requests : child[q].at = "none" => child'[q].at = "none"
    BY <2>1
  <2>6. \A c \in Clients : \A k \in 1..Len(received[c]) :
           received[c][k] \in Requests /\ child[received[c][k]].at = "none"
    <3>1. \A c \in Clients : received[c] \in Seq(Requests)
      BY <1>1 DEF TypeOK
    <3>2. \A c \in Clients : \A k \in 1..Len(received[c]) : child[received[c][k]].at = "none"
      BY <1>1 DEF Processes
    <3> QED BY <3>1, <3>2
  <2>7. at = "execute" => \A c \in Clients : \A k \in 1..Len(batch[c]) :
           ~Passed(c, k)' => batch[c][k] \in Requests /\ child[batch[c][k]].at = "none"
    <3>1. \A c \in Clients : batch[c] \in Seq(Requests)
      BY <1>1 DEF TypeOK
    <3>2. \A c \in Clients : \A k \in 1..Len(batch[c]) : Passed(c, k) => Passed(c, k)'
      BY <2>2 DEF Passed
    <3>3. at = "execute" => \A c \in Clients : \A k \in 1..Len(batch[c]) :
             ~Passed(c, k) => child[batch[c][k]].at = "none"
      BY <1>1 DEF Processes
    <3>4. \A c \in Clients : \A k \in 1..Len(batch[c]) : batch[c][k] \in Requests
      BY <3>1
    <3> QED BY <3>2, <3>3, <3>4
  <2> QED BY <2>2, <2>4, <2>5, <2>6, <2>7 DEF Processes
<1>5. CASE Collect
  <2>1. /\ batch' = received /\ owner' = owner /\ child' = child /\ unread' = unread
        /\ \A c \in Clients : Len(received'[c]) = 0
    BY <1>5, CollectIs
  <2> QED BY <1>1, <2>1 DEF Processes
<1>6. CASE NextClient
  <2>1. /\ iClient' = iClient + 1 /\ at' = at /\ owner' = owner /\ received' = received
        /\ batch' = batch /\ child' = child /\ unread' = unread
    BY <1>6, NextClientIs
  <2>2. \A c \in Clients : \A l \in 1..Len(batch[c]) : Passed(c, l) => Passed(c, l)'
    BY <1>1, <2>1, BrtAssumption DEF Passed, Clients
  <2> QED BY <1>2, <2>1, <2>2
<1>7. CASE Execute
  <2>1. /\ at = "execute" /\ AtRequest /\ at' = at
        /\ iClient' = iClient /\ iMessage' = iMessage + 1
        /\ owner' = owner /\ received' = received /\ batch' = batch /\ unread' = unread
        /\ \/ child' = [child EXCEPT ![Current] = [at |-> "running", left |-> output[Current].writes,
                                                   inherits |-> held']]
           \/ child' = child
    BY <1>7, ExecuteIs
  <2>2. Current \in Requests /\ Current \in 1..Len(owner) /\ owner[Current] = iClient
    BY <1>1, <2>1, AtCurrent
  <2>3. /\ \A q \in Requests : q # Current => child'[q] = child[q]
        /\ child'[Current].at = "running" \/ child'[Current] = child[Current]
    BY <1>1, <2>1, <2>2
  <2>4. /\ \A q \in Requests : unread[q] > 0 => child'[q].at # "none"
        /\ \A q \in Requests : child'[q].at # "none" => q \in 1..Len(owner)
        /\ \A q \in Requests : child'[q].at = "done" => child'[q].left = 0
    BY <1>1, <2>2, <2>3 DEF Processes
  <2>5. \A c \in Clients : \A k \in 1..Len(received[c]) : child'[received[c][k]].at = "none"
    <3> SUFFICES ASSUME NEW c \in Clients, NEW k \in 1..Len(received[c])
                 PROVE  child'[received[c][k]].at = "none"
      OBVIOUS
    <3>1. received[c] \in Seq(Requests) /\ received[c][k] \in Requests
      BY <1>1 DEF TypeOK
    <3>2. received[c][k] # Current
      <4>1. owner[received[c][k]] = c
        BY <1>1 DEF Numbered, Theirs, Different, Apart
      <4>2. CASE c = iClient
        BY <1>1, <2>1, <4>2, AtCurrent DEF Numbered, Theirs, Different, Apart, Current
      <4> QED BY <2>2, <4>1, <4>2
    <3> QED BY <1>1, <2>3, <3>1, <3>2 DEF Processes
  <2>6. ASSUME NEW c \in Clients, NEW k \in 1..Len(batch[c]), ~Passed(c, k)'
        PROVE  child'[batch[c][k]].at = "none"
    <3>1. batch[c] \in Seq(Requests) /\ batch[c][k] \in Requests
      BY <1>1 DEF TypeOK
    <3>2. ~Passed(c, k) /\ ~(c = iClient /\ k = iMessage)
      BY <1>1, <2>1, <2>6 DEF Passed
    <3>3. batch[c][k] # Current
      BY <1>1, <2>1, <3>2, OthersAreNotCurrent
    <3> QED BY <1>1, <2>1, <2>3, <3>1, <3>2, <3>3 DEF Processes
  <2> QED BY <2>1, <2>4, <2>5, <2>6 DEF Processes
<1>8. CASE Read
  <2>1. /\ at = "read" /\ AtRequest /\ at' # "execute" /\ owner' = owner /\ received' = received
        /\ batch' = batch /\ child' = child
        /\ unread' = [unread EXCEPT ![pipe[iClient]] = 0] \/ unread' = unread
    BY <1>8, ReadIs
  <2>2. \A r \in Requests : unread'[r] > 0 => unread[r] > 0
    BY <1>1, <2>1
  <2> QED BY <1>1, <2>1, <2>2 DEF Processes
<1>9. CASE ExecuteEnd
  <2>1. /\ at' # "execute" /\ owner' = owner /\ received' = received
        /\ batch' = batch /\ child' = child /\ unread' = unread
    BY <1>9, ExecuteEndIs
  <2> QED BY <1>1, <2>1 DEF Processes
<1>10. CASE SleepEnd
  <2>1. /\ at' # "execute" /\ owner' = owner /\ received' = received
        /\ batch' = batch /\ child' = child /\ unread' = unread
    BY <1>10, SleepEndIs
  <2> QED BY <1>1, <2>1 DEF Processes
<1>11. CASE Check
  <2>1. /\ at' # "execute" /\ owner' = owner /\ received' = received
        /\ batch' = batch /\ child' = child /\ unread' = unread
    BY <1>11, CheckIs
  <2> QED BY <1>1, <2>1 DEF Processes
<1>12. CASE Reply
  <2>1. /\ at' # "execute" /\ owner' = owner /\ received' = received
        /\ batch' = batch /\ child' = child /\ unread' = unread
    BY <1>12, ReplyIs
  <2> QED BY <1>1, <2>1 DEF Processes
<1>13. CASE UNCHANGED vars
  <2>1. /\ at' = at /\ owner' = owner /\ received' = received /\ iClient' = iClient
        /\ iMessage' = iMessage /\ batch' = batch /\ child' = child /\ unread' = unread
    BY <1>13 DEF vars, arrived, loop
  <2> QED BY <1>2, <2>1 DEF Passed
<1> QED BY <1>3, <1>4, <1>5, <1>6, <1>7, <1>8, <1>9, <1>10, <1>11, <1>12, <1>13 DEF Next, Update

LEMMA PipesStep == BrtInv /\ [Next]_vars => Pipes'
<1> SUFFICES ASSUME BrtInv, [Next]_vars PROVE Pipes'
  OBVIOUS
<1> DEFINE PipesAreTheirs == \A c \in Clients : pipe[c] # 0 =>
               /\ pipe[c] \in 1..Len(owner) /\ owner[pipe[c]] = c
               /\ child[pipe[c]].at # "none" => process[c] = pipe[c]
           PipesOfPassed == \A c \in Clients : \A k \in 1..Len(batch[c]) :
               k = (IF c = iClient THEN iMessage - 1 ELSE Len(batch[c])) /\ Passed(c, k)
               => pipe[c] = batch[c][k]
           PipesOfLast == \A c \in Clients : Len(batch[c]) > 0 => pipe[c] = batch[c][Len(batch[c])]
<1>1. /\ TypeOK /\ BrtBase /\ Pipes /\ PipesAreTheirs
      /\ at = "execute" => PipesOfPassed
      /\ at \in {"sleep", "read", "check"} => PipesOfLast
  BY DEF BrtInv, BrtBase, Pipes
<1>2. /\ Len(owner) \in Nat /\ iClient \in Nat /\ iMessage \in Nat \ {0}
      /\ \A c \in Clients : c \in Nat \ {0} /\ Len(batch[c]) \in Nat
      /\ pipe \in [Clients -> 0..MaxRequests] /\ process \in [Clients -> 0..MaxRequests]
      /\ child \in [Requests -> [at: {"none", "running", "done"}, left: Nat, inherits: SUBSET Requests]]
      /\ iClient <= NumClients => iClient \in Clients
  BY <1>1, BrtAssumption DEF TypeOK, Clients
<1>3. \A c \in Clients : pipe[c] # 0 => pipe[c] \in Requests
  BY <1>2 DEF Requests
<1>4. ASSUME PipesAreTheirs', at' = "execute" => PipesOfPassed',
             at' \in {"sleep", "read", "check"} => PipesOfLast',
             at' = "check" => AtRequest' /\ child'[pipe'[iClient']].at # "none",
             at' = "read" /\ got' > 0 => AtRequest'
      PROVE  Pipes'
  BY <1>4 DEF Pipes
<1> USE DEF PipesAreTheirs
<1>5. ASSUME owner' = owner, pipe' = pipe, process' = process, child' = child PROVE PipesAreTheirs'
  BY <1>1, <1>5
<1>6. ASSUME pipe' = pipe, batch' = batch
      PROVE  at \in {"sleep", "read", "check"} => PipesOfLast'
  BY <1>1, <1>6
<1>7. ASSUME pipe' = pipe, batch' = batch, iClient' = iClient, iMessage' = iMessage
      PROVE  at = "execute" => PipesOfPassed'
  BY <1>1, <1>7 DEF Passed
<1>8. ASSUME NEW c \in Clients, Arrive(c) PROVE Pipes'
  <2>1. /\ \A r \in 1..Len(owner) : owner'[r] = owner[r] /\ r \in 1..Len(owner')
        /\ batch' = batch /\ at' = at /\ iClient' = iClient /\ iMessage' = iMessage /\ got' = got
        /\ pipe' = pipe /\ process' = process /\ child' = child
    BY <1>1, <1>8, ArriveIs
  <2>2. PipesAreTheirs'
    BY <1>1, <2>1
  <2>3. AtRequest' = AtRequest
    BY <2>1 DEF AtRequest
  <2> QED BY <1>1, <1>4, <1>6, <1>7, <2>1, <2>2, <2>3 DEF Pipes
<1>9. ASSUME NEW r \in Requests, Write(r) \/ Exit(r) PROVE Pipes'
  <2>1. /\ child[r].at = "running"
        /\ child' = [child EXCEPT ![r].left = @ - 1] \/ child' = [child EXCEPT ![r].at = "done"]
        /\ owner' = owner /\ batch' = batch /\ at' = at /\ iClient' = iClient /\ iMessage' = iMessage
        /\ got' = got /\ pipe' = pipe /\ process' = process
    BY <1>1, <1>9, WriteIs, ExitIs
  <2>2. \A q \in Requests : child'[q].at = "none" <=> child[q].at = "none"
    <3>1. \A q \in Requests \ {r} : child'[q] = child[q]
      BY <1>2, <2>1
    <3>2. child'[r].at \in {"running", "done"}
      BY <1>2, <2>1
    <3> QED BY <2>1, <3>1, <3>2
  <2>3. PipesAreTheirs'
    BY <1>1, <1>3, <2>1, <2>2
  <2>4. AtRequest' = AtRequest
    BY <2>1 DEF AtRequest
  <2>5. at = "check" => AtRequest /\ child'[pipe[iClient]].at # "none"
    BY <1>1, <2>2, AtPipe DEF Pipes, Reading
  <2> QED BY <1>1, <1>4, <1>6, <1>7, <2>1, <2>3, <2>4, <2>5 DEF Pipes
<1>10. CASE Collect
  <2>1. /\ at' = "execute" /\ iClient' = 1 /\ iMessage' = 1 /\ owner' = owner
        /\ pipe' = pipe /\ process' = process /\ child' = child
    BY <1>10, CollectIs
  <2>2. \A c \in Clients : \A k \in Nat \ {0} : ~Passed(c, k)'
    BY <1>2, <2>1 DEF Passed
  <2>3. PipesOfPassed'
    BY <2>2
  <2> QED BY <1>4, <1>5, <2>1, <2>3
<1>11. CASE NextClient
  <2>1. /\ at \in {"execute", "read"} /\ at' = at
        /\ iClient <= NumClients /\ iMessage > Len(batch[iClient])
        /\ iClient' = iClient + 1 /\ iMessage' = 1
        /\ owner' = owner /\ batch' = batch
        /\ got' = got /\ pipe' = pipe /\ process' = process /\ child' = child
    BY <1>11, NextClientIs
  <2>2. at = "execute" => PipesOfPassed'
    <3> SUFFICES ASSUME at = "execute", NEW c \in Clients, NEW k \in 1..Len(batch[c]),
                        k = (IF c = iClient + 1 THEN 0 ELSE Len(batch[c])), Passed(c, k)'
                 PROVE  pipe[c] = batch[c][k]
      BY <2>1
    <3>1. c <= iClient /\ k = Len(batch[c])
      BY <1>2, <2>1 DEF Passed
    <3>2. CASE c < iClient
      BY <1>1, <1>2, <3>1, <3>2 DEF Passed
    <3>3. CASE c = iClient
      <4>1. iMessage = Len(batch[iClient]) + 1
        <5>1. iMessage <= Len(batch[iClient]) + 1
          BY <1>1, <2>1 DEF TypeOK
        <5>2. Len(batch[iClient]) \in Nat
          BY <1>2, <2>1
        <5> QED BY <1>2, <2>1, <5>1, <5>2
      <4> QED BY <1>1, <1>2, <3>1, <3>3, <4>1 DEF Passed
    <3> QED BY <1>2, <3>1, <3>2, <3>3
  <2>3. ~AtRequest
    BY <1>2, <2>1 DEF AtRequest
  <2> QED BY <1>1, <1>4, <1>5, <1>6, <2>1, <2>2, <2>3 DEF Pipes
<1>12. CASE Execute
  <2>1. /\ at = "execute" /\ AtRequest /\ at' = at
        /\ iClient' = iClient /\ iMessage' = iMessage + 1
        /\ pipe' = [pipe EXCEPT ![iClient] = Current]
        /\ \/ /\ process' = [process EXCEPT ![iClient] = Current]
              /\ child' = [child EXCEPT ![Current] = [at |-> "running", left |-> output[Current].writes,
                                                      inherits |-> held']]
           \/ /\ process' = [process EXCEPT ![iClient] = 0] /\ child' = child
        /\ owner' = owner /\ batch' = batch
    BY <1>12, ExecuteIs
  <2>2. /\ iClient \in Clients /\ iMessage \in 1..Len(batch[iClient])
        /\ Current \in Requests /\ Current \in 1..Len(owner) /\ owner[Current] = iClient
    BY <1>1, <2>1, AtCurrent
  <2>3. child[Current].at = "none"
    <3>1. ~Passed(iClient, iMessage)
      BY <1>2 DEF Passed
    <3> QED BY <2>1, <2>2, <3>1 DEF BrtInv, Processes, Current
  <2>4. /\ pipe'[iClient] = Current
        /\ child'[Current].at # "none" => process'[iClient] = Current
        /\ \A c \in Clients \ {iClient} : pipe'[c] = pipe[c] /\ process'[c] = process[c]
        /\ \A q \in Requests \ {Current} : child'[q] = child[q]
    BY <1>2, <2>1, <2>2, <2>3
  <2>5. PipesAreTheirs'
    <3> SUFFICES ASSUME NEW c \in Clients, pipe'[c] # 0
                 PROVE  /\ pipe'[c] \in 1..Len(owner) /\ owner[pipe'[c]] = c
                        /\ child'[pipe'[c]].at # "none" => process'[c] = pipe'[c]
      BY <2>1
    <3>1. CASE c = iClient
      BY <2>2, <2>4, <3>1
    <3>2. CASE c # iClient
      <4>1. pipe'[c] = pipe[c] /\ process'[c] = process[c] /\ pipe[c] \in Requests
        BY <1>3, <2>4, <3>2
      <4>2. pipe[c] \in 1..Len(owner) /\ owner[pipe[c]] = c
        BY <1>1, <4>1
      <4>3. child'[pipe[c]] = child[pipe[c]]
        BY <2>2, <2>4, <3>2, <4>1, <4>2
      <4> QED BY <1>1, <4>1, <4>2, <4>3
    <3> QED BY <3>1, <3>2
  <2>6. PipesOfPassed'
    <3> SUFFICES ASSUME NEW c \in Clients, NEW k \in 1..Len(batch'[c]),
                        k = (IF c = iClient' THEN iMessage' - 1 ELSE Len(batch'[c])), Passed(c, k)'
                 PROVE  pipe'[c] = batch'[c][k]
      OBVIOUS
    <3>1. CASE c = iClient
      <4>1. k = iMessage
        BY <1>2, <2>1, <3>1
      <4> QED BY <2>1, <2>4, <3>1, <4>1 DEF Current
    <3>2. CASE c # iClient
      <4>1. k \in 1..Len(batch[c]) /\ k = Len(batch[c]) /\ Passed(c, k)
        BY <2>1, <3>2 DEF Passed
      <4> QED BY <1>1, <2>1, <2>4, <3>2, <4>1
    <3> QED BY <3>1, <3>2
  <2> QED BY <1>4, <2>1, <2>5, <2>6
<1>13. CASE ExecuteEnd
  <2>1. /\ at = "execute" /\ iClient > NumClients /\ at' = "sleep"
        /\ owner' = owner /\ batch' = batch /\ pipe' = pipe /\ process' = process /\ child' = child
    BY <1>13, ExecuteEndIs
  <2>2. \A c \in Clients : c < iClient
    BY <1>2, <2>1, BrtAssumption DEF Clients
  <2>3. PipesOfLast'
    <3> SUFFICES ASSUME NEW c \in Clients, Len(batch[c]) > 0 PROVE pipe[c] = batch[c][Len(batch[c])]
      BY <2>1
    <3>1. Len(batch[c]) \in 1..Len(batch[c]) /\ Passed(c, Len(batch[c])) /\ c # iClient
      BY <1>2, <2>2 DEF Passed
    <3> QED BY <1>1, <2>1, <3>1
  <2> QED BY <1>4, <1>5, <2>1, <2>3
<1>14. CASE SleepEnd
  <2>1. /\ at = "sleep" /\ at' = "read" /\ got' = got
        /\ owner' = owner /\ batch' = batch /\ pipe' = pipe /\ process' = process /\ child' = child
    BY <1>14, SleepEndIs
  <2>2. got = 0
    BY <1>1, <2>1 DEF TypeOK
  <2> QED BY <1>4, <1>5, <1>6, <2>1, <2>2
<1>15. CASE Read
  <2>1. /\ at = "read" /\ AtRequest
        /\ (unread[pipe[iClient]] > 0 /\ at' = "check") \/ at' = "ended"
        /\ iClient' = iClient /\ iMessage' = iMessage
        /\ owner' = owner /\ batch' = batch /\ pipe' = pipe /\ process' = process /\ child' = child
    BY <1>15, ReadIs
  <2>2. at' = "check" => AtRequest' /\ child'[pipe'[iClient']].at # "none"
    <3>1. AtRequest'
      BY <2>1 DEF AtRequest
    <3>2. unread[pipe[iClient]] > 0 => child[pipe[iClient]].at # "none"
      BY <2>1, AtPipe DEF BrtInv, Processes, Reading
    <3> QED BY <2>1, <3>1, <3>2
  <2> QED BY <1>4, <1>5, <1>6, <2>1, <2>2
<1>16. CASE Check
  <2>1. /\ at = "check" /\ at' = "read" /\ iClient' = iClient
        /\ (iMessage' = iMessage + 1 /\ got' = 0) \/ (iMessage' = iMessage /\ got' = got)
        /\ owner' = owner /\ batch' = batch /\ pipe' = pipe /\ process' = process /\ child' = child
    BY <1>16, CheckIs
  <2>2. got' > 0 => AtRequest'
    BY <1>1, <2>1 DEF Pipes, AtRequest
  <2> QED BY <1>4, <1>5, <1>6, <2>1, <2>2
<1>17. CASE Reply
  <2>1. /\ at' = "idle" /\ owner' = owner /\ pipe' = pipe /\ process' = process /\ child' = child
    BY <1>17, ReplyIs
  <2> QED BY <1>4, <1>5, <2>1
<1>18. CASE UNCHANGED vars
  <2>1. /\ batch' = batch /\ at' = at /\ iClient' = iClient /\ iMessage' = iMessage /\ got' = got
        /\ owner' = owner /\ pipe' = pipe /\ process' = process /\ child' = child
    BY <1>18 DEF vars, arrived, loop, handles
  <2> QED BY <1>1, <2>1 DEF Pipes, AtRequest, Passed
<1> QED BY <1>8, <1>9, <1>10, <1>11, <1>12, <1>13, <1>14, <1>15, <1>16, <1>17, <1>18 DEF Next, Update

LEMMA BrtInvInit == Init => BrtInv
<1> SUFFICES ASSUME Init PROVE BrtInv
  OBVIOUS
<1>1. /\ owner = <<>> /\ output = <<>> /\ answers = <<>> /\ responses = <<>>
      /\ received = [c \in Clients |-> <<>>] /\ batch = [c \in Clients |-> <<>>]
      /\ at = "idle" /\ iClient = 1 /\ iMessage = 1 /\ got = 0
      /\ pipe = [c \in Clients |-> 0] /\ process = [c \in Clients |-> 0]
      /\ held = {} /\ child = [r \in Requests |-> NoChild] /\ unread = [r \in Requests |-> 0]
  BY DEF Init
<1>2. {timely, alone, failed} \subseteq BOOLEAN
  BY DEF Init
<1>3. /\ 1 \in Clients /\ Len(owner) = 0 /\ Len(answers) = 0
      /\ \A c \in Clients : received[c] = <<>> /\ batch[c] = <<>> /\ Len(received[c]) = 0 /\ Len(batch[c]) = 0
  BY <1>1, BrtAssumption DEF Clients
<1>4. /\ child \in [Requests -> [at: {"none", "running", "done"}, left: Nat, inherits: SUBSET Requests]]
      /\ unread \in [Requests -> 0..Capacity]
      /\ \A r \in Requests : child[r].at = "none" /\ unread[r] = 0
  <2>1. NoChild \in [at: {"none", "running", "done"}, left: Nat, inherits: SUBSET Requests] /\ NoChild.at = "none"
    BY DEF NoChild
  <2>2. 0 \in 0..Capacity
    BY BrtAssumption
  <2> QED BY <1>1, <2>1, <2>2
<1>5. /\ owner \in Seq(Clients) /\ output \in Seq(Outputs) /\ Len(output) = Len(owner)
      /\ received \in [Clients -> Seq(Requests)] /\ batch \in [Clients -> Seq(Requests)]
      /\ responses \in Seq(Response) /\ answers \in Seq(Response)
  BY <1>1
<1>6. /\ pipe \in [Clients -> 0..MaxRequests] /\ process \in [Clients -> 0..MaxRequests]
      /\ \A c \in Clients : pipe[c] = 0
  <2>1. 0 \in 0..MaxRequests
    BY BrtAssumption
  <2> QED BY <1>1, <2>1
<1>7. iClient \in 1..NumClients + 1 /\ iMessage <= Len(batch[iClient]) + 1
  BY <1>1, <1>3, BrtAssumption
<1>8. TypeOK
  BY <1>1, <1>2, <1>4, <1>5, <1>6, <1>7 DEF TypeOK
<1>9. Numbered
  BY <1>3, BrtAssumption DEF Numbered, Theirs, Different, Apart
<1>10. AnsweredOnce /\ ResponsesOfBatch
  BY <1>1, <1>3 DEF AnsweredOnce, ResponsesOfBatch, Reading
<1>11. Processes
  BY <1>1, <1>3, <1>4 DEF Processes
<1>12. Pipes
  BY <1>1, <1>6 DEF Pipes
<1> QED BY <1>8, <1>9, <1>10, <1>11, <1>12 DEF BrtInv, BrtBase

LEMMA BrtInvHolds == Spec => []BrtInv
<1>1. BrtInv /\ [Next]_vars => BrtInv'
  <2> SUFFICES ASSUME BrtInv, [Next]_vars PROVE BrtInv'
    OBVIOUS
  <2>1. BrtBase
    BY DEF BrtInv
  <2>2. TypeOK' /\ Numbered' /\ AnsweredOnce' /\ ResponsesOfBatch' /\ Processes' /\ Pipes'
    BY <2>1, TypeStep, NumberedStep, AnsweredOnceStep, ResponsesOfBatchStep, ProcessesStep, PipesStep
  <2> QED BY <2>2 DEF BrtInv, BrtBase
<1> QED BY BrtInvInit, <1>1, PTL DEF Spec

\* Whatever the numbers of clients and requests and whatever the processes write, the records of
\* the update keep to their types, and the loops to the requests of the batch.
THEOREM BrtTypes == Spec => []TypeOK
<1>1. BrtInv => TypeOK
  BY DEF BrtInv, BrtBase
<1> QED BY <1>1, BrtInvHolds, PTL

----------------------------------------------------------------------------
\* When no client sends a request before the former one was answered

Own(a) == \A k \in 1..Len(a) : a[k].of = a[k].request

\* A client then has one request at most that is not answered, so that the pipes are those of the
\* request that is read, and the write ends held are those of the requests executed and not yet read.
Alone ==
    /\ \A r, s \in 1..Len(owner) : owner[r] = owner[s] /\ ~Answered(r) /\ ~Answered(s) => r = s
    /\ Own(answers) /\ (Reading => Own(responses))
    /\ at = "idle" => held = {}
    /\ at = "execute" => \A h \in held : \E c \in Clients : \E k \in 1..Len(batch[c]) :
           Passed(c, k) /\ h = batch[c][k]
    /\ at = "sleep" => \A h \in held : \E c \in Clients : \E k \in 1..Len(batch[c]) : h = batch[c][k]
    /\ Reading => \A h \in held : \E c \in Clients : \E k \in 1..Len(batch[c]) :
           ~Passed(c, k) /\ h = batch[c][k]

AloneInv == BrtInv /\ (alone => Alone)

LEMMA OneEach ==
    ASSUME BrtInv, Alone, at # "idle", NEW c \in Clients
    PROVE  Len(batch[c]) \in Nat /\ Len(batch[c]) <= 1
<1>1. batch[c] \in Seq(Requests) /\ Len(answers) \in Nat
  BY DEF BrtInv, BrtBase, TypeOK
<1>2. ASSUME NEW k \in 1..Len(batch[c])
      PROVE  batch[c][k] \in 1..Len(owner) /\ owner[batch[c][k]] = c /\ ~Answered(batch[c][k])
  <2>1. DOMAIN answers = 1..Len(answers)
    BY DEF BrtInv, BrtBase, TypeOK
  <2>2. ~Answered(batch[c][k])
    BY <2>1 DEF BrtInv, AnsweredOnce, Answered
  <2> QED BY <2>2 DEF BrtInv, BrtBase, Numbered, Theirs, Different, Apart
<1>3. ASSUME Len(batch[c]) > 1 PROVE FALSE
  <2>1. 1 \in 1..Len(batch[c]) /\ 2 \in 1..Len(batch[c])
    BY <1>1, <1>3
  <2>2. batch[c][1] = batch[c][2]
    BY <1>2, <2>1 DEF Alone
  <2>3. 1 = 2
    BY <2>1, <2>2 DEF BrtInv, BrtBase, Numbered, Theirs, Different, Apart
  <2> QED BY <2>3
<1>4. Len(batch[c]) \in Nat /\ ~(Len(batch[c]) > 1)
  BY <1>1, <1>3
<1> QED BY <1>4

LEMMA ArriveAlone ==
    ASSUME NEW c \in Clients, Arrive(c), alone'
    PROVE  alone /\ \A r \in DOMAIN owner : owner[r] = c => Answered(r)
  BY Zenon DEF Arrive

LEMMA AloneKept ==
    ASSUME Next, alone', ~(\E c \in Clients : Arrive(c))
    PROVE  alone
  BY Zenon DEF Next, Update, Write, Exit, Collect, NextClient, Execute, ExecuteEnd, SleepEnd, Read,
              Check, Reply, history

\* What was answered stays answered.
LEMMA AnsweredStays ==
    ASSUME TypeOK, answers' = answers \o responses, NEW r, Answered(r)
    PROVE  Answered(r)'
<1>1. answers \in Seq(Response) /\ responses \in Seq(Response)
  BY DEF TypeOK
<1>2. PICK k \in DOMAIN answers : answers[k].request = r
  BY DEF Answered
<1>3. k \in DOMAIN answers' /\ answers'[k] = answers[k]
  BY <1>1, <1>2
<1> QED BY <1>2, <1>3 DEF Answered

LEMMA Shape ==
    ASSUME BrtInv
    PROVE  /\ BrtInv /\ TypeOK /\ BrtBase /\ Numbered
           /\ Len(owner) \in Nat /\ iClient \in Nat /\ iMessage \in Nat \ {0} /\ Len(answers) \in Nat
           /\ answers \in Seq(Response) /\ responses \in Seq(Response)
           /\ Len(responses) \in Nat /\ \A c \in Clients : c \in Nat \ {0} /\ Len(batch[c]) \in Nat
<1>1. TypeOK /\ BrtBase /\ Numbered
  BY DEF BrtInv, BrtBase
<1>2. \A c \in Clients : c \in Nat \ {0} /\ batch[c] \in Seq(Requests)
  <2>1. \A c \in Clients : c \in Nat \ {0}
    BY BrtAssumption DEF Clients
  <2>2. \A c \in Clients : batch[c] \in Seq(Requests)
    BY <1>1 DEF TypeOK
  <2> QED BY <2>1, <2>2
<1>3. /\ owner \in Seq(Clients) /\ iClient \in Nat /\ iMessage \in Nat \ {0}
      /\ answers \in Seq(Response) /\ responses \in Seq(Response)
  BY <1>1, BrtAssumption DEF TypeOK
<1> QED BY <1>1, <1>2, <1>3

LEMMA AloneStep == AloneInv /\ [Next]_vars => (alone' => Alone')
<1> SUFFICES ASSUME AloneInv, [Next]_vars, alone' PROVE Alone'
  OBVIOUS
<1>2. /\ BrtInv /\ TypeOK /\ BrtBase /\ Numbered
      /\ Len(owner) \in Nat /\ iClient \in Nat /\ iMessage \in Nat \ {0} /\ Len(answers) \in Nat
      /\ answers \in Seq(Response) /\ responses \in Seq(Response)
      /\ Len(responses) \in Nat /\ \A c \in Clients : c \in Nat \ {0} /\ Len(batch[c]) \in Nat
  BY Shape DEF AloneInv
<1> DEFINE HeldPassed == \A h \in held : \E c \in Clients : \E k \in 1..Len(batch[c]) :
                             Passed(c, k) /\ h = batch[c][k]
           HeldOfBatch == \A h \in held : \E c \in Clients : \E k \in 1..Len(batch[c]) : h = batch[c][k]
           HeldToRead == \A h \in held : \E c \in Clients : \E k \in 1..Len(batch[c]) :
                             ~Passed(c, k) /\ h = batch[c][k]
           Unique == \A r, s \in 1..Len(owner) : owner[r] = owner[s] /\ ~Answered(r) /\ ~Answered(s) => r = s
<1>3. ASSUME Unique', Own(answers'), Reading' => Own(responses'), at' = "idle" => held' = {},
             at' = "execute" => HeldPassed', at' = "sleep" => HeldOfBatch', Reading' => HeldToRead'
      PROVE  Alone'
  BY <1>3 DEF Alone, Own
<1>4. ASSUME Alone
      PROVE  /\ Unique /\ Own(answers) /\ (Reading => Own(responses)) /\ (at = "idle" => held = {})
             /\ at = "execute" => HeldPassed
             /\ at = "sleep" => HeldOfBatch
             /\ Reading => HeldToRead
  BY <1>4 DEF Alone
<1>5. ASSUME Alone, owner' = owner, answers' = answers PROVE Unique' /\ Own(answers')
  BY <1>4, <1>5 DEF Answered
<1> HIDE DEF HeldPassed, HeldOfBatch, HeldToRead, Unique
<1>6. ASSUME held' = held, batch' = batch, iClient' = iClient, iMessage' = iMessage
      PROVE  HeldPassed' = HeldPassed /\ HeldOfBatch' = HeldOfBatch /\ HeldToRead' = HeldToRead
  BY <1>6 DEF HeldPassed, HeldOfBatch, HeldToRead, Passed
<1>7. ASSUME NEW c \in Clients, Arrive(c) PROVE Alone'
  <2>1. /\ Len(owner') = Len(owner) + 1 /\ owner'[Len(owner) + 1] = c
        /\ \A r \in 1..Len(owner) : owner'[r] = owner[r] /\ r \in 1..Len(owner')
        /\ batch' = batch /\ at' = at /\ iClient' = iClient /\ iMessage' = iMessage
        /\ responses' = responses /\ held' = held /\ answers' = answers
    BY <1>2, <1>7, ArriveIs
  <2>2. alone /\ \A r \in DOMAIN owner : owner[r] = c => Answered(r)
    BY <1>7, ArriveAlone
  <2>3. DOMAIN owner = 1..Len(owner)
    BY <1>2 DEF TypeOK
  <2>4. Alone
    BY <2>2 DEF AloneInv
  <2>5. Unique'
    <3> SUFFICES ASSUME NEW r \in 1..Len(owner'), NEW s \in 1..Len(owner'),
                        owner'[r] = owner'[s], ~Answered(r), ~Answered(s)
                 PROVE  r = s
      BY <2>1 DEF Unique, Answered
    <3>1. CASE r \in 1..Len(owner) /\ s \in 1..Len(owner)
      BY <1>4, <2>1, <2>4, <3>1 DEF Unique
    <3>2. CASE r = Len(owner) + 1 /\ s \in 1..Len(owner)
      BY <2>1, <2>2, <2>3, <3>2
    <3>3. CASE r \in 1..Len(owner) /\ s = Len(owner) + 1
      BY <2>1, <2>2, <2>3, <3>3
    <3> QED BY <1>2, <2>1, <3>1, <3>2, <3>3
  <2> QED BY <1>3, <1>4, <1>6, <2>1, <2>4, <2>5 DEF Reading
<1>8. ASSUME NEW r \in Requests, Write(r) \/ Exit(r), Alone PROVE Alone'
  <2>1. /\ owner' = owner /\ batch' = batch /\ at' = at /\ iClient' = iClient /\ iMessage' = iMessage
        /\ responses' = responses /\ held' = held /\ answers' = answers
    BY <1>2, <1>8, WriteIs, ExitIs
  <2> QED BY <1>3, <1>4, <1>5, <1>6, <1>8, <2>1 DEF Reading
<1>9. ASSUME Collect, Alone PROVE Alone'
  <2>1. /\ at = "idle" /\ at' = "execute" /\ owner' = owner /\ held' = held /\ answers' = answers
    BY <1>9, CollectIs
  <2>2. HeldPassed'
    BY <1>4, <1>9, <2>1 DEF HeldPassed
  <2> QED BY <1>3, <1>5, <1>9, <2>1, <2>2 DEF Reading
<1>10. ASSUME NextClient, Alone PROVE Alone'
  <2>1. /\ at \in {"execute", "read"} /\ at' = at
        /\ iClient <= NumClients /\ iMessage > Len(batch[iClient])
        /\ iClient' = iClient + 1 /\ iMessage' = 1
        /\ owner' = owner /\ batch' = batch /\ responses' = responses /\ held' = held /\ answers' = answers
    BY <1>10, NextClientIs
  <2>2. \A c \in Clients : \A k \in 1..Len(batch[c]) : Passed(c, k)' = Passed(c, k)
    <3> SUFFICES ASSUME NEW c \in Clients, NEW k \in 1..Len(batch[c]) PROVE Passed(c, k)' <=> Passed(c, k)
      BY DEF Passed
    <3>1. CASE c = iClient
      BY <1>2, <2>1, <3>1 DEF Passed
    <3>2. CASE c # iClient
      BY <1>2, <2>1, <3>2 DEF Passed
    <3> QED BY <3>1, <3>2
  <2>3. HeldPassed => HeldPassed'
    BY <2>1, <2>2 DEF HeldPassed
  <2>4. HeldToRead => HeldToRead'
    BY <2>1, <2>2 DEF HeldToRead
  <2> QED BY <1>3, <1>4, <1>5, <1>10, <2>1, <2>3, <2>4 DEF Reading
<1>11. ASSUME Execute, Alone PROVE Alone'
  <2>1. /\ at = "execute" /\ AtRequest /\ at' = at
        /\ iClient' = iClient /\ iMessage' = iMessage + 1 /\ held' = held \cup {Current}
        /\ owner' = owner /\ batch' = batch /\ answers' = answers
    BY <1>11, ExecuteIs
  <2>2. \A c \in Clients : \A k \in 1..Len(batch[c]) :
           Passed(c, k) \/ (c = iClient /\ k = iMessage) => Passed(c, k)'
    BY <1>2, <2>1 DEF Passed
  <2>3. HeldPassed'
    <3> SUFFICES ASSUME NEW h \in held \cup {Current}
                 PROVE  \E c \in Clients : \E k \in 1..Len(batch[c]) : Passed(c, k)' /\ h = batch[c][k]
      BY <2>1 DEF HeldPassed
    <3>1. CASE h = Current
      BY <1>2, <2>1, <2>2, <3>1, AtCurrent DEF Current
    <3>2. CASE h \in held
      BY <1>4, <1>11, <2>1, <2>2, <3>2 DEF HeldPassed
    <3> QED BY <3>1, <3>2
  <2> QED BY <1>3, <1>5, <1>11, <2>1, <2>3 DEF Reading
<1>12. ASSUME ExecuteEnd, Alone PROVE Alone'
  <2>1. /\ at = "execute" /\ at' = "sleep" /\ owner' = owner /\ batch' = batch /\ held' = held
        /\ answers' = answers
    BY <1>12, ExecuteEndIs
  <2>2. HeldOfBatch'
    BY <1>4, <1>12, <2>1 DEF HeldPassed, HeldOfBatch
  <2> QED BY <1>3, <1>5, <1>12, <2>1, <2>2 DEF Reading
<1>13. ASSUME SleepEnd, Alone PROVE Alone'
  <2>1. /\ at = "sleep" /\ at' = "read" /\ iClient' = 1 /\ iMessage' = 1
        /\ owner' = owner /\ batch' = batch /\ held' = held /\ answers' = answers /\ responses' = responses
    BY <1>13, SleepEndIs
  <2>2. \A c \in Clients : \A k \in 1..Len(batch[c]) : ~Passed(c, k)'
    BY <1>2, <2>1 DEF Passed
  <2>3. HeldToRead'
    BY <1>4, <1>13, <2>1, <2>2 DEF HeldOfBatch, HeldToRead
  <2>4. Own(responses')
    <3>1. responses = <<>>
      BY <2>1 DEF AloneInv, BrtInv, ResponsesOfBatch
    <3> QED BY <2>1, <3>1 DEF Own
  <2> QED BY <1>3, <1>5, <1>13, <2>1, <2>3, <2>4 DEF Reading
<1>14. ASSUME Read, Alone PROVE Alone'
  <2>1. /\ at = "read" /\ at' \in {"check", "ended"} /\ iClient' = iClient /\ iMessage' = iMessage
        /\ owner' = owner /\ batch' = batch /\ held' = held /\ answers' = answers /\ responses' = responses
    BY <1>14, ReadIs
  <2> QED BY <1>3, <1>4, <1>5, <1>6, <1>14, <2>1 DEF Reading
<1>15. ASSUME Check, Alone PROVE Alone'
  <2>1. /\ at = "check" /\ at' = "read" /\ iClient' = iClient
        /\ owner' = owner /\ batch' = batch /\ answers' = answers
        /\ \/ /\ responses' = Append(responses, [request |-> Current, of |-> pipe[iClient], writes |-> got])
              /\ held' = held \ {pipe[iClient]}
              /\ iMessage' = iMessage + 1
           \/ responses' = responses /\ held' = held /\ iMessage' = iMessage
    BY <1>15, CheckIs
  <2>2. AtRequest
    BY <1>2, <2>1 DEF BrtInv, Pipes
  <2>3. iClient \in Clients /\ iMessage \in 1..Len(batch[iClient])
    BY <1>2, <2>2, AtCurrent
  <2>4. pipe[iClient] = Current
    <3>1. Len(batch[iClient]) \in Nat /\ Len(batch[iClient]) <= 1
      BY <1>2, <1>15, <2>1, <2>3, OneEach
    <3>2. iMessage = Len(batch[iClient])
      BY <1>2, <2>3, <3>1
    <3> QED BY <1>2, <2>1, <2>2, <3>2, AtPipe DEF Reading, Current
  <2>5. Own(responses) /\ HeldToRead
    BY <1>4, <1>15, <2>1 DEF Reading
  <2>6. CASE responses' = responses /\ held' = held /\ iMessage' = iMessage
    BY <1>3, <1>4, <1>5, <1>6, <1>15, <2>1, <2>6 DEF Reading
  <2>7. CASE /\ responses' = Append(responses, [request |-> Current, of |-> pipe[iClient], writes |-> got])
             /\ held' = held \ {pipe[iClient]} /\ iMessage' = iMessage + 1
    <3>1. Own(responses')
      <4>1. \A k \in 1..Len(responses') :
               \/ k \in 1..Len(responses) /\ responses'[k] = responses[k]
               \/ responses'[k] = [request |-> Current, of |-> pipe[iClient], writes |-> got]
        BY <1>2, <2>7
      <4> QED BY <2>4, <2>5, <4>1 DEF Own
    <3>2. HeldToRead'
      <4> SUFFICES ASSUME NEW h \in held, h # Current
                   PROVE  \E c \in Clients : \E k \in 1..Len(batch[c]) : ~Passed(c, k)' /\ h = batch[c][k]
        BY <2>1, <2>4, <2>7 DEF HeldToRead
      <4>1. PICK c \in Clients : \E k \in 1..Len(batch[c]) : ~Passed(c, k) /\ h = batch[c][k]
        BY <2>5 DEF HeldToRead
      <4>2. PICK k \in 1..Len(batch[c]) : ~Passed(c, k) /\ h = batch[c][k]
        BY <4>1
      <4>3. ~(c = iClient /\ k = iMessage)
        BY <4>2 DEF Current
      <4>4. ~Passed(c, k)'
        BY <1>2, <2>1, <2>7, <4>2, <4>3 DEF Passed
      <4> QED BY <4>2, <4>4
    <3> QED BY <1>3, <1>5, <1>15, <2>1, <3>1, <3>2 DEF Reading
  <2> QED BY <2>1, <2>6, <2>7
<1>16. ASSUME Reply, Alone PROVE Alone'
  <2>1. /\ at = "read" /\ iClient > NumClients /\ at' = "idle"
        /\ answers' = answers \o responses /\ owner' = owner /\ held' = held
    BY <1>16, ReplyIs
  <2>2. Own(responses) /\ HeldToRead /\ Own(answers) /\ Unique
    BY <1>4, <1>16, <2>1 DEF Reading
  <2>3. Unique'
    BY <1>2, <2>1, <2>2, AnsweredStays DEF Unique
  <2>4. Own(answers')
    <3>1. \A k \in 1..Len(answers') :
             \/ k \in 1..Len(answers) /\ answers'[k] = answers[k]
             \/ k - Len(answers) \in 1..Len(responses) /\ answers'[k] = responses[k - Len(answers)]
      BY <1>2, <2>1
    <3> QED BY <2>2, <3>1 DEF Own
  <2>5. held' = {}
    <3>1. \A c \in Clients : \A k : Passed(c, k)
      BY <1>2, <2>1, BrtAssumption DEF Passed, Clients
    <3> QED BY <2>1, <2>2, <3>1 DEF HeldToRead
  <2> QED BY <1>3, <2>1, <2>3, <2>4, <2>5 DEF Reading
<1>17. ASSUME UNCHANGED vars PROVE Alone'
  <2>1. alone
    BY Zenon, <1>17 DEF vars, history
  <2>2. /\ owner' = owner /\ batch' = batch /\ at' = at /\ iClient' = iClient /\ iMessage' = iMessage
        /\ responses' = responses /\ held' = held /\ answers' = answers
    BY <1>17 DEF vars, arrived, loop, handles
  <2> QED BY <1>3, <1>4, <1>5, <1>6, <2>1, <2>2 DEF Reading, AloneInv
<1>18. ASSUME Next, ~(\E c \in Clients : Arrive(c)) PROVE Alone
  BY <1>18, AloneKept DEF AloneInv
<1> QED BY <1>7, <1>8, <1>9, <1>10, <1>11, <1>12, <1>13, <1>14, <1>15, <1>16, <1>17, <1>18 DEF Next, Update

----------------------------------------------------------------------------
\* When outputs fit the pipes and processes write them while update sleeps

Whole(a) == \A k \in 1..Len(a) : a[k].writes = output[a[k].of].writes

SleptChildren ==
    /\ at \notin {"execute", "sleep"} => \A r \in Requests : child[r].at # "running"
    /\ \A r \in Requests : child[r].at = "running" \/ unread[r] > 0 =>
           unread[r] + child[r].left = output[r].writes

\* The first read of a pipe then takes all of the output; a second request of the client waits for
\* a write that never comes.
SleptReading ==
    /\ at = "read" => got = 0
    /\ at = "check" => /\ got = output[pipe[iClient]].writes
                       /\ child[pipe[iClient]].at = "done" /\ unread[pipe[iClient]] = 0
    /\ Reading => /\ \A c \in Clients : c < iClient => Len(batch[c]) <= 1
                  /\ iClient <= NumClients /\ iMessage > 1 =>
                         iMessage = 2 /\ at = "read" /\ unread[pipe[iClient]] = 0
                  /\ Own(responses) \/ (iClient <= NumClients /\ Len(batch[iClient]) > 1)
                  /\ Whole(responses)

SleptAnswers == Own(answers) /\ Whole(answers)

SleptInv == BrtInv /\ (Slept => SleptChildren /\ SleptReading /\ SleptAnswers)

LEMMA SleptKept ==
    ASSUME TypeOK, Next, Slept'
    PROVE  Slept
<1>1. ASSUME NEW c \in Clients, Arrive(c) PROVE Slept
  <2>1. timely
    BY Zenon, <1>1 DEF Slept, Arrive
  <2>2. PICK o \in Outputs : output' = Append(output, o)
    BY <1>1, ArriveIs
  <2>3. output \in Seq(Outputs)
    BY DEF TypeOK
  <2>4. \A r \in DOMAIN output : r \in DOMAIN output' /\ output'[r] = output[r]
    BY <2>2, <2>3
  <2>5. \A r \in DOMAIN output' : Fits(output'[r])
    BY Zenon DEF Slept
  <2>6. \A r \in DOMAIN output : Fits(output[r])
    BY Zenon, <2>4, <2>5
  <2> QED BY Zenon, <2>1, <2>6 DEF Slept
<1>2. ASSUME ~(\E c \in Clients : Arrive(c)) PROVE timely /\ output' = output
  BY Zenon, <1>2 DEF Slept, Next, Update, Write, Exit, Collect, NextClient, Execute, ExecuteEnd, SleepEnd,
                     Read, Check, Reply, arrived, history
<1>3. ASSUME ~(\E c \in Clients : Arrive(c)) PROVE Slept
  BY Zenon, <1>2, <1>3 DEF Slept
<1> QED BY <1>1, <1>3

\* When the sleep ends in time, no process is left: one that could not go on had filled its pipe,
\* and no output does.
LEMMA SleepEndSlept ==
    ASSUME TypeOK, Processes, SleepEnd, Slept', SleptChildren
    PROVE  \A r \in Requests : child[r].at # "running"
<1>1. \A r \in Requests : ~CanRun(r)
  BY Zenon DEF SleepEnd, Slept
<1>2. \A r \in DOMAIN output : Fits(output[r])
  <2>1. output' = output
    BY SleepEndIs
  <2>2. \A r \in DOMAIN output' : Fits(output'[r])
    BY Zenon DEF Slept
  <2> QED BY <2>1, <2>2
<1> SUFFICES ASSUME NEW r \in Requests, child[r].at = "running" PROVE FALSE
  OBVIOUS
<1>3. child[r].left > 0 /\ ~(unread[r] < Capacity)
  BY <1>1 DEF CanRun, Running
<1>4. unread[r] + child[r].left = output[r].writes
  BY DEF SleptChildren
<1>5. r \in DOMAIN output
  <2>1. r \in 1..Len(owner)
    BY DEF Processes
  <2>2. output \in Seq(Outputs) /\ Len(output) = Len(owner)
    BY DEF TypeOK
  <2> QED BY <2>1, <2>2
<1>6. output[r].writes <= Capacity
  BY <1>2, <1>5 DEF Fits
<1>7. child[r].left \in Nat /\ unread[r] \in 0..Capacity
  BY DEF TypeOK
<1> QED BY <1>3, <1>4, <1>6, <1>7, BrtAssumption

LEMMA SleptChildrenStep ==
    ASSUME BrtInv, Slept, SleptChildren, Next, Slept'
    PROVE  SleptChildren'
<1>1. /\ TypeOK /\ BrtBase /\ Processes /\ Len(owner) \in Nat
      /\ child \in [Requests -> [at: {"none", "running", "done"}, left: Nat, inherits: SUBSET Requests]]
      /\ unread \in [Requests -> 0..Capacity]
      /\ \A r \in Requests : unread[r] \in Nat /\ child[r].left \in Nat
  BY BrtAssumption DEF BrtInv, BrtBase, TypeOK
<1>2. \A r \in Requests : child[r].at = "running" \/ unread[r] > 0 =>
         unread[r] + child[r].left = output[r].writes
  BY DEF SleptChildren
<1>3. at \notin {"execute", "sleep"} => \A r \in Requests : child[r].at # "running"
  BY DEF SleptChildren
<1>4. ASSUME at' = at, output' = output, child' = child, unread' = unread PROVE SleptChildren'
  BY <1>4 DEF SleptChildren
<1>5. ASSUME NEW c \in Clients, Arrive(c) PROVE SleptChildren'
  <2>1. /\ \A r \in 1..Len(owner) : output'[r] = output[r]
        /\ at' = at /\ child' = child /\ unread' = unread
    BY <1>1, <1>5, ArriveIs
  <2>2. \A r \in Requests : child[r].at = "running" \/ unread[r] > 0 => output'[r] = output[r]
    BY <1>1, <2>1 DEF Processes
  <2> QED BY <2>1, <2>2 DEF SleptChildren
<1>6. ASSUME NEW r \in Requests, Write(r) PROVE SleptChildren'
  <2>1. /\ child[r].at = "running" /\ child[r].left \in Nat \ {0}
        /\ child' = [child EXCEPT ![r].left = @ - 1] /\ unread' = [unread EXCEPT ![r] = @ + 1]
        /\ at' = at /\ output' = output
    BY <1>1, <1>6, WriteIs
  <2>2. at \in {"execute", "sleep"} /\ unread[r] + child[r].left = output[r].writes
    BY <1>2, <1>3, <2>1
  <2>3. unread'[r] + child'[r].left = output[r].writes
    BY <1>1, <2>1, <2>2
  <2>4. \A q \in Requests \ {r} : child'[q] = child[q] /\ unread'[q] = unread[q]
    BY <1>1, <2>1
  <2> QED BY <1>2, <2>1, <2>2, <2>3, <2>4 DEF SleptChildren
<1>7. ASSUME NEW r \in Requests, Exit(r) PROVE SleptChildren'
  <2>1. /\ child[r].at = "running" /\ child[r].left = 0
        /\ child' = [child EXCEPT ![r].at = "done"] /\ unread' = unread
        /\ at' = at /\ output' = output
    BY <1>7, ExitIs
  <2>2. at \in {"execute", "sleep"} /\ unread[r] + child[r].left = output[r].writes
    BY <1>2, <1>3, <2>1
  <2>3. child'[r].left = child[r].left /\ \A q \in Requests \ {r} : child'[q] = child[q]
    BY <1>1, <2>1
  <2> QED BY <1>2, <2>1, <2>2, <2>3 DEF SleptChildren
<1>8. CASE Collect
  <2>1. at' = "execute" /\ output' = output /\ child' = child /\ unread' = unread
    BY <1>8, CollectIs
  <2> QED BY <1>2, <2>1 DEF SleptChildren
<1>9. CASE NextClient
  BY <1>4, <1>9, NextClientIs
<1>10. CASE Execute
  <2>1. /\ at = "execute" /\ AtRequest /\ at' = at
        /\ \/ child' = [child EXCEPT ![Current] = [at |-> "running", left |-> output[Current].writes,
                                                   inherits |-> held']]
           \/ child' = child
        /\ output' = output /\ unread' = unread
    BY <1>10, ExecuteIs
  <2>2. /\ iClient \in Clients /\ iMessage \in 1..Len(batch[iClient]) /\ Current \in Requests
        /\ output[Current].writes \in Nat
    BY <1>1, <2>1, AtCurrent
  <2>3. unread[Current] = 0
    <3>1. ~Passed(iClient, iMessage)
      BY <2>2, BrtAssumption DEF Passed, Clients
    <3>2. child[Current].at = "none"
      BY <1>1, <2>1, <2>2, <3>1 DEF Processes, Current
    <3>3. ~(unread[Current] > 0)
      BY <1>1, <2>2, <3>2 DEF Processes
    <3> QED BY <1>1, <2>2, <3>3
  <2>4. /\ \A q \in Requests \ {Current} : child'[q] = child[q]
        /\ child'[Current] = child[Current] \/ child'[Current].left = output[Current].writes
    BY <1>1, <2>1, <2>2
  <2>5. \A q \in Requests : child'[q].at = "running" \/ unread[q] > 0 =>
           unread[q] + child'[q].left = output[q].writes
    <3>1. child'[Current].left = output[Current].writes => unread[Current] + child'[Current].left = output[Current].writes
      BY <2>2, <2>3
    <3> QED BY <1>2, <2>4, <3>1
  <2> QED BY <2>1, <2>5 DEF SleptChildren
<1>11. CASE ExecuteEnd
  <2>1. at' = "sleep" /\ output' = output /\ child' = child /\ unread' = unread
    BY <1>11, ExecuteEndIs
  <2> QED BY <1>2, <2>1 DEF SleptChildren
<1>12. CASE SleepEnd
  <2>1. output' = output /\ child' = child /\ unread' = unread
    BY <1>12, SleepEndIs
  <2>2. \A r \in Requests : child[r].at # "running"
    BY <1>1, <1>12, SleepEndSlept
  <2> QED BY <1>2, <2>1, <2>2 DEF SleptChildren
<1>13. CASE Read
  <2>1. /\ at = "read" /\ output' = output /\ child' = child
        /\ unread' = [unread EXCEPT ![pipe[iClient]] = 0] \/ unread' = unread
    BY <1>13, ReadIs
  <2>2. \A r \in Requests : child[r].at # "running" /\ (unread'[r] > 0 => unread'[r] = unread[r])
    BY <1>1, <1>3, <2>1
  <2> QED BY <1>2, <2>1, <2>2 DEF SleptChildren
<1>14. CASE Check
  <2>1. at = "check" /\ output' = output /\ child' = child /\ unread' = unread
    BY <1>14, CheckIs
  <2> QED BY <1>2, <1>3, <2>1 DEF SleptChildren
<1>15. CASE Reply
  <2>1. at = "read" /\ output' = output /\ child' = child /\ unread' = unread
    BY <1>15, ReplyIs
  <2> QED BY <1>2, <1>3, <2>1 DEF SleptChildren
<1> QED BY <1>5, <1>6, <1>7, <1>8, <1>9, <1>10, <1>11, <1>12, <1>13, <1>14, <1>15 DEF Next, Update

LEMMA SleptReadingStep ==
    ASSUME BrtInv, Slept, SleptChildren, SleptReading, Next, Slept'
    PROVE  SleptReading'
<1>1. /\ TypeOK /\ BrtBase /\ Processes /\ Len(owner) \in Nat
      /\ iClient \in Nat \ {0} /\ iMessage \in Nat \ {0}
      /\ \A c \in Clients : c \in Nat \ {0} /\ Len(batch[c]) \in Nat
      /\ responses \in Seq(Response) /\ Len(responses) \in Nat
      /\ child \in [Requests -> [at: {"none", "running", "done"}, left: Nat, inherits: SUBSET Requests]]
      /\ unread \in [Requests -> 0..Capacity] /\ \A r \in Requests : unread[r] \in Nat
      /\ got \in Nat /\ NumClients \in Nat
  <2>1. TypeOK /\ BrtBase /\ Processes
    BY DEF BrtInv, BrtBase
  <2>2. /\ child \in [Requests -> [at: {"none", "running", "done"}, left: Nat, inherits: SUBSET Requests]]
        /\ unread \in [Requests -> 0..Capacity] /\ got \in Nat
    BY <2>1 DEF TypeOK
  <2>3. \A r \in Requests : unread[r] \in Nat
    BY <2>2, BrtAssumption
  <2>4. NumClients \in Nat /\ iClient \in Nat \ {0}
    BY <2>1, BrtAssumption DEF TypeOK
  <2> QED BY <2>1, <2>2, <2>3, <2>4, Shape
<1>2. ASSUME ~Reading' PROVE SleptReading'
  BY <1>2 DEF SleptReading, Reading
<1>3. ASSUME Reading
      PROVE  /\ at \notin {"execute", "sleep"}
             /\ at = "read" => got = 0
             /\ at = "check" => /\ got = output[pipe[iClient]].writes
                                /\ child[pipe[iClient]].at = "done" /\ unread[pipe[iClient]] = 0
             /\ \A c \in Clients : c < iClient => Len(batch[c]) <= 1
             /\ iClient <= NumClients /\ iMessage > 1 =>
                    iMessage = 2 /\ at = "read" /\ unread[pipe[iClient]] = 0
             /\ Own(responses) \/ (iClient <= NumClients /\ Len(batch[iClient]) > 1)
             /\ Whole(responses)
  BY <1>3 DEF SleptReading, Reading
<1>15. ASSUME at' = "read" => got' = 0,
              at' = "check" => /\ got' = output'[pipe'[iClient']].writes
                               /\ child'[pipe'[iClient']].at = "done" /\ unread'[pipe'[iClient']] = 0,
              \A c \in Clients : c < iClient' => Len(batch'[c]) <= 1,
              iClient' <= NumClients /\ iMessage' > 1 =>
                  iMessage' = 2 /\ at' = "read" /\ unread'[pipe'[iClient']] = 0,
              Own(responses)' \/ (iClient' <= NumClients /\ Len(batch'[iClient']) > 1),
              Whole(responses)'
       PROVE  SleptReading'
  BY <1>15 DEF SleptReading
<1>4. ASSUME NEW r \in Requests, Write(r) \/ Exit(r) PROVE ~Reading'
  <2>1. child[r].at = "running" /\ at' = at
    BY <1>1, <1>4, WriteIs, ExitIs
  <2> QED BY <2>1 DEF SleptChildren, Reading
<1>5. ASSUME NEW c \in Clients, Arrive(c), Reading PROVE SleptReading'
  <2>1. /\ \A r \in 1..Len(owner) : output'[r] = output[r]
        /\ batch' = batch /\ at' = at /\ iClient' = iClient /\ iMessage' = iMessage /\ got' = got
        /\ responses' = responses /\ pipe' = pipe /\ child' = child /\ unread' = unread
    BY <1>1, <1>5, ArriveIs
  <2>2. at = "check" => pipe[iClient] \in 1..Len(owner)
    BY <1>5, AtPipe DEF BrtInv, Pipes
  <2>3. \A k \in 1..Len(responses) : responses[k].of \in 1..Len(owner)
    BY <1>5 DEF BrtInv, ResponsesOfBatch
  <2>4. Whole(responses)'
    BY <1>3, <1>5, <2>1, <2>3 DEF Whole
  <2>5. at = "check" => /\ got = output'[pipe[iClient]].writes
                        /\ child[pipe[iClient]].at = "done" /\ unread[pipe[iClient]] = 0
    BY <1>3, <1>5, <2>1, <2>2
  <2> QED BY <1>3, <1>5, <1>15, <2>1, <2>4, <2>5 DEF Own
<1>6. CASE Collect
  BY <1>2, <1>6, CollectIs DEF Reading
<1>7. ASSUME NextClient, Reading PROVE SleptReading'
  <2>1. /\ at = "read" /\ at' = at
        /\ iClient <= NumClients /\ iMessage > Len(batch[iClient])
        /\ iClient' = iClient + 1 /\ iMessage' = 1
        /\ output' = output /\ batch' = batch /\ got' = got /\ responses' = responses
    BY <1>7, NextClientIs DEF Reading
  <2>2. iClient \in Clients
    BY <1>1, <2>1 DEF Clients
  <2>3. Len(batch[iClient]) <= 1
    <3>1. CASE iMessage = 1
      BY <1>1, <2>1, <2>2, <3>1
    <3>2. CASE iMessage = 2
      BY <1>1, <2>1, <2>2, <3>2
    <3> QED BY <1>1, <1>3, <1>7, <2>1, <3>1, <3>2
  <2>4. \A c \in Clients : c < iClient' => Len(batch'[c]) <= 1
    BY <1>1, <1>3, <1>7, <2>1, <2>3
  <2>5. Own(responses)'
    BY <1>1, <1>3, <1>7, <2>1, <2>2, <2>3 DEF Own
  <2>6. Whole(responses)'
    BY <1>3, <1>7, <2>1 DEF Whole
  <2> QED BY <1>3, <1>7, <1>15, <2>1, <2>4, <2>5, <2>6
<1>8. CASE Execute
  BY <1>2, <1>8, ExecuteIs DEF Reading
<1>9. CASE ExecuteEnd
  BY <1>2, <1>9, ExecuteEndIs DEF Reading
<1>10. CASE SleepEnd
  <2>1. /\ at = "sleep" /\ at' = "read" /\ iClient' = 1 /\ iMessage' = 1 /\ got' = got
        /\ responses' = responses
    BY <1>10, SleepEndIs
  <2>2. got = 0 /\ responses = <<>>
    BY <1>1, <2>1 DEF TypeOK, BrtInv, ResponsesOfBatch
  <2>3. Own(responses)' /\ Whole(responses)'
    BY <2>1, <2>2 DEF Own, Whole
  <2>4. \A c \in Clients : ~(c < iClient')
    BY <1>1, <2>1
  <2> QED BY <1>15, <2>1, <2>2, <2>3, <2>4
<1>11. CASE Read
  <2>1. /\ at = "read" /\ AtRequest
        /\ \/ /\ unread[pipe[iClient]] > 0 /\ at' = "check"
              /\ got' = got + unread[pipe[iClient]]
              /\ unread' = [unread EXCEPT ![pipe[iClient]] = 0]
           \/ at' = "ended"
        /\ iClient' = iClient /\ iMessage' = iMessage
        /\ output' = output /\ batch' = batch
        /\ responses' = responses /\ pipe' = pipe /\ child' = child
    BY <1>11, ReadIs
  <2>2. CASE at' = "ended"
    BY <1>2, <2>2 DEF Reading
  <2>3. CASE /\ unread[pipe[iClient]] > 0 /\ at' = "check"
             /\ got' = got + unread[pipe[iClient]]
             /\ unread' = [unread EXCEPT ![pipe[iClient]] = 0]
    <3>1. Reading /\ pipe[iClient] \in Requests
      BY <2>1, AtPipe DEF Reading
    <3>2. child[pipe[iClient]].at = "done"
      <4>1. child[pipe[iClient]].at \notin {"none", "running"}
        BY <1>1, <2>1, <2>3, <3>1 DEF Processes, SleptChildren
      <4>2. child[pipe[iClient]].at \in {"none", "running", "done"}
        BY <1>1, <3>1
      <4> QED BY <4>1, <4>2
    <3>3. unread[pipe[iClient]] = output[pipe[iClient]].writes
      <4>1. child[pipe[iClient]].left = 0
        BY <1>1, <3>1, <3>2 DEF Processes
      <4>2. unread[pipe[iClient]] + child[pipe[iClient]].left = output[pipe[iClient]].writes
        BY <2>3, <3>1 DEF SleptChildren
      <4> QED BY <1>1, <3>1, <4>1, <4>2
    <3>4. got' = output[pipe[iClient]].writes /\ unread'[pipe[iClient]] = 0
      BY <1>1, <1>3, <2>1, <2>3, <3>1, <3>3
    <3>5. ~(iClient <= NumClients /\ iMessage > 1)
      BY <1>3, <2>3, <3>1
    <3>6. Own(responses)' \/ (iClient' <= NumClients /\ Len(batch'[iClient']) > 1)
      BY <1>3, <2>1, <3>1 DEF Own
    <3>7. Whole(responses)'
      BY <1>3, <2>1, <3>1 DEF Whole
    <3> QED BY <1>3, <1>15, <2>1, <2>3, <3>1, <3>2, <3>4, <3>5, <3>6, <3>7
  <2> QED BY <2>1, <2>2, <2>3
<1>12. CASE Check
  <2>1. /\ at = "check" /\ at' = "read" /\ iClient' = iClient
        /\ \/ /\ ReadAll(process[iClient])
              /\ responses' = Append(responses, [request |-> Current, of |-> pipe[iClient], writes |-> got])
              /\ iMessage' = iMessage + 1 /\ got' = 0
           \/ ~ReadAll(process[iClient])
        /\ output' = output /\ batch' = batch /\ pipe' = pipe /\ unread' = unread
    BY <1>12, CheckIs
  <2>2. Reading /\ AtRequest /\ iClient \in Clients /\ iMessage \in 1..Len(batch[iClient])
    BY <1>1, <2>1, AtCurrent DEF Reading, BrtInv, Pipes
  <2>3. /\ got = output[pipe[iClient]].writes /\ child[pipe[iClient]].at = "done"
        /\ unread[pipe[iClient]] = 0
    BY <1>3, <2>1, <2>2
  <2>4. ReadAll(process[iClient])
    BY <2>2, <2>3, AtPipe DEF ReadAll
  <2>5. iMessage = 1
    <3>1. iClient <= NumClients
      BY <2>2 DEF AtRequest
    <3> QED BY <1>1, <1>3, <2>1, <2>2, <3>1
  <2>6. \A k \in 1..Len(responses') :
           \/ k \in 1..Len(responses) /\ responses'[k] = responses[k]
           \/ responses'[k] = [request |-> Current, of |-> pipe[iClient], writes |-> got]
    BY <1>1, <2>1, <2>4
  <2>7. Whole(responses)'
    BY <1>3, <2>1, <2>2, <2>3, <2>6 DEF Whole
  <2>8. Own(responses)' \/ (iClient' <= NumClients /\ Len(batch'[iClient']) > 1)
    <3> SUFFICES ASSUME Len(batch[iClient]) <= 1 PROVE Own(responses)'
      BY <1>1, <2>1, <2>2 DEF AtRequest
    <3>1. iMessage = Len(batch[iClient])
      <4>1. Len(batch[iClient]) \in Nat /\ Len(batch[iClient]) <= 1
        BY <1>1, <2>2
      <4> QED BY <1>1, <2>2, <4>1
    <3>2. pipe[iClient] = Current
      BY <2>2, <3>1, AtPipe DEF Current
    <3>3. Own(responses)
      BY <1>1, <1>3, <2>2
    <3> QED BY <2>6, <3>2, <3>3 DEF Own
  <2>9. iMessage' = 2 /\ got' = 0
    BY <2>1, <2>4, <2>5
  <2> QED BY <1>3, <1>15, <2>1, <2>2, <2>3, <2>7, <2>8, <2>9
<1>13. CASE Reply
  BY <1>2, <1>13, ReplyIs DEF Reading
<1>14. ASSUME ~Reading, ~SleepEnd PROVE SleptReading' \/ ~Reading'
  BY <1>4, <1>6, <1>8, <1>9, <1>11, <1>12, <1>13, <1>14, ArriveIs, NextClientIs, <1>1 DEF Next, Update, Reading
<1> QED BY <1>2, <1>4, <1>5, <1>7, <1>10, <1>11, <1>12, <1>14, <1>6, <1>8, <1>9, <1>13 DEF Next, Update

LEMMA SleptAnswersStep ==
    ASSUME BrtInv, Slept, SleptReading, SleptAnswers, Next
    PROVE  SleptAnswers'
<1>1. /\ TypeOK /\ Len(owner) \in Nat /\ answers \in Seq(Response) /\ responses \in Seq(Response)
      /\ Len(answers) \in Nat /\ Len(responses) \in Nat
  BY DEF BrtInv, BrtBase, TypeOK
<1>2. ASSUME answers' = answers, output' = output PROVE SleptAnswers'
  BY <1>2 DEF SleptAnswers, Own, Whole
<1>3. ASSUME NEW c \in Clients, Arrive(c) PROVE SleptAnswers'
  <2>1. answers' = answers /\ \A r \in 1..Len(owner) : output'[r] = output[r]
    BY <1>1, <1>3, ArriveIs
  <2>2. \A k \in 1..Len(answers) : answers[k].of \in 1..Len(owner)
    BY DEF BrtInv, AnsweredOnce
  <2> QED BY <2>1, <2>2 DEF SleptAnswers, Own, Whole
<1>4. CASE Reply
  <2>1. at = "read" /\ iClient > NumClients /\ answers' = answers \o responses /\ output' = output
    BY <1>4, ReplyIs
  <2>2. iClient \in Nat /\ NumClients \in Nat
    BY <1>1, BrtAssumption DEF TypeOK
  <2>3. Own(responses) /\ Whole(responses)
    BY <2>1, <2>2 DEF SleptReading, Reading
  <2>4. \A k \in 1..Len(answers') :
           \/ k \in 1..Len(answers) /\ answers'[k] = answers[k]
           \/ k - Len(answers) \in 1..Len(responses) /\ answers'[k] = responses[k - Len(answers)]
    BY <1>1, <2>1
  <2>5. Own(answers)'
    BY <2>3, <2>4 DEF SleptAnswers, Own
  <2>6. Whole(answers)'
    BY <2>1, <2>3, <2>4 DEF SleptAnswers, Whole
  <2> QED BY <2>5, <2>6 DEF SleptAnswers
<1>5. ASSUME NEW r \in Requests, Write(r) \/ Exit(r) PROVE SleptAnswers'
  BY <1>1, <1>2, <1>5, WriteIs, ExitIs
<1>6. CASE Collect
  BY <1>2, <1>6, CollectIs
<1>7. CASE NextClient
  BY <1>2, <1>7, NextClientIs
<1>8. CASE Execute
  BY <1>2, <1>8, ExecuteIs
<1>9. CASE ExecuteEnd
  BY <1>2, <1>9, ExecuteEndIs
<1>10. CASE SleepEnd
  BY <1>2, <1>10, SleepEndIs
<1>11. CASE Read
  BY <1>2, <1>11, ReadIs
<1>12. CASE Check
  BY <1>2, <1>12, CheckIs
<1> QED BY <1>3, <1>4, <1>5, <1>6, <1>7, <1>8, <1>9, <1>10, <1>11, <1>12 DEF Next, Update

----------------------------------------------------------------------------
\* What holds of every behaviour

LEMMA AloneHolds == Spec => []AloneInv
<1>1. Init => AloneInv
  <2> SUFFICES ASSUME Init PROVE AloneInv
    OBVIOUS
  <2>1. owner = <<>> /\ answers = <<>> /\ held = {} /\ at = "idle" /\ Len(owner) = 0 /\ Len(answers) = 0
    BY DEF Init
  <2>2. Alone
    BY <2>1 DEF Alone, Own, Reading
  <2> QED BY <2>2, BrtInvInit DEF AloneInv
<1>2. AloneInv /\ BrtInv' /\ [Next]_vars => AloneInv'
  BY AloneStep DEF AloneInv
<1> QED BY <1>1, <1>2, BrtInvHolds, PTL DEF Spec

LEMMA SleptHolds == Spec => []SleptInv
<1>1. Init => SleptInv
  <2> SUFFICES ASSUME Init PROVE SleptInv
    OBVIOUS
  <2>1. /\ answers = <<>> /\ Len(answers) = 0 /\ at = "idle"
        /\ child = [r \in Requests |-> NoChild] /\ unread = [r \in Requests |-> 0]
    BY DEF Init
  <2>2. \A r \in Requests : child[r].at = "none" /\ unread[r] = 0
    BY <2>1 DEF NoChild
  <2>3. SleptChildren
    BY <2>2 DEF SleptChildren
  <2>4. SleptReading
    BY <2>1 DEF SleptReading, Reading
  <2>5. SleptAnswers
    BY <2>1 DEF SleptAnswers, Own, Whole
  <2> QED BY <2>3, <2>4, <2>5, BrtInvInit DEF SleptInv
<1>2. SleptInv /\ BrtInv' /\ [Next]_vars => SleptInv'
  <2> SUFFICES ASSUME SleptInv, BrtInv', [Next]_vars, Slept'
               PROVE  (SleptChildren /\ SleptReading /\ SleptAnswers)'
    BY DEF SleptInv
  <2>1. CASE UNCHANGED vars
    <3>1. Slept
      BY Zenon, <2>1 DEF Slept, vars, arrived, history
    <3>2. SleptChildren /\ SleptReading /\ SleptAnswers
      BY <3>1 DEF SleptInv
    <3>3. /\ batch' = batch /\ at' = at /\ iClient' = iClient /\ iMessage' = iMessage /\ got' = got
          /\ responses' = responses /\ pipe' = pipe /\ child' = child /\ unread' = unread
          /\ output' = output /\ answers' = answers
      BY <2>1 DEF vars, arrived, loop, handles
    <3> QED BY <3>2, <3>3 DEF SleptChildren, SleptReading, SleptAnswers, Reading, Own, Whole
  <2>2. CASE Next
    <3>1. Slept
      BY <2>2, SleptKept DEF SleptInv, BrtInv, BrtBase
    <3>2. BrtInv /\ SleptChildren /\ SleptReading /\ SleptAnswers
      BY <3>1 DEF SleptInv
    <3>3. SleptChildren' /\ SleptReading' /\ SleptAnswers'
      BY <2>2, <3>1, <3>2, SleptChildrenStep, SleptReadingStep, SleptAnswersStep
    <3> QED BY <3>3
  <2> QED BY <2>1, <2>2
<1> QED BY <1>1, <1>2, BrtInvHolds, PTL DEF Spec

\* Between two updates brt holds no write end of a pipe, as long as no client sends a request
\* before the former one was answered: what Execute opens, Check closes.
THEOREM HandlesAreReleased == Spec => []HandlesReleased
<1>1. AloneInv => HandlesReleased
  BY DEF AloneInv, Alone, HandlesReleased
<1> QED BY <1>1, AloneHolds, PTL

\* No request is answered twice, and an answer is what the request's own process wrote, if no client
\* sends two at once, or if processes write all of it while update sleeps.
THEOREM AnswersAreTheirs == Spec => []AnswersAreOwn
<1>1. AloneInv /\ SleptInv => AnswersAreOwn
  <2> SUFFICES ASSUME AloneInv, SleptInv PROVE AnswersAreOwn
    OBVIOUS
  <2>1. DOMAIN answers = 1..Len(answers)
    BY DEF SleptInv, BrtInv, BrtBase, TypeOK
  <2>2. \A k, l \in DOMAIN answers : answers[k].request = answers[l].request => k = l
    BY <2>1 DEF SleptInv, BrtInv, AnsweredOnce
  <2>3. alone \/ Slept => Own(answers)
    BY DEF AloneInv, Alone, SleptInv, SleptAnswers
  <2>4. Own(answers) => \A k \in DOMAIN answers : answers[k].of = answers[k].request
    BY <2>1 DEF Own
  <2> QED BY <2>2, <2>3, <2>4 DEF AnswersAreOwn
<1> QED BY <1>1, AloneHolds, SleptHolds, PTL

\* An answer is all that the process wrote, if outputs fit the pipes and processes write them while
\* update sleeps.
THEOREM AnswersAreComplete == Spec => []AnswersAreWhole
<1>1. SleptInv => AnswersAreWhole
  <2> SUFFICES ASSUME SleptInv, Slept PROVE \A k \in DOMAIN answers : answers[k].writes = output[answers[k].of].writes
    BY DEF AnswersAreWhole
  <2>1. DOMAIN answers = 1..Len(answers)
    BY DEF SleptInv, BrtInv, BrtBase, TypeOK
  <2> QED BY <2>1 DEF SleptInv, SleptAnswers, Whole
<1> QED BY <1>1, SleptHolds, PTL
=============================================================================

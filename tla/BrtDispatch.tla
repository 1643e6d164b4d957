---------------------------- MODULE BrtDispatch ----------------------------
(***************************************************************************)
(* The update of brt/brt_application_main.cpp: it takes the requests that  *)
(* the UDP server has received, starts a process for each, sleeps, reads   *)
(* what the processes write to their pipes and pushes it as the answers.   *)
(* The pipes (ClientIOHandles) and the process (ClientProcesses) are kept  *)
(* per client, not per request.  An update that fails ends the application *)
(* (llc/gpk_app_impl.h:103).                                               *)
(*                                                                         *)
(* A process makes a number of writes and exits; a pipe breaks when nobody *)
(* holds its write end, which brt itself does until it has read the        *)
(* answer, and so does every process started meanwhile, which inherits it. *)
(* Clients and slots are those of UDPServer.                               *)
(*                                                                         *)
(* Three history variables say what happened, for the properties that hold *)
(* only when the hopes of the code do:                                     *)
(*   timely   processes got as far as they could while update slept;       *)
(*   alone    no client sent a request before the former one was answered; *)
(*   failed   a request had no environment block, or no process.           *)
(*                                                                         *)
(* An operator that begins with Bug is a defect to seed in the one that    *)
(* follows it; no action uses it.                                          *)
(***************************************************************************)
EXTENDS Naturals, Sequences

CONSTANTS
    NumClients,   \* Clients.size()
    Outputs,      \* what a process may write: a number of writes, the last with a 0 at its end or not
    Capacity,     \* writes a pipe holds
    MaxRequests   \* bound: requests that arrive

ASSUME BrtAssumption ==
    /\ {NumClients, Capacity} \subseteq Nat \ {0} /\ MaxRequests \in Nat
    /\ Outputs \subseteq [writes: Nat, zero: BOOLEAN]

Clients == 1..NumClients
Requests == 1..MaxRequests

VARIABLES
    owner,     \* the client of each request that has arrived, in order of arrival
    output,    \* what its process writes
    received,  \* Queue.Received of each client
    batch,     \* ReceivedPerClient
    at,        \* update: idle, execute, sleep, read, check (after a ReadFile), or ended
    iClient,   \* the position of the loops in batch
    iMessage,
    got,       \* writes read for this answer
    responses, \* ClientResponses
    pipe,      \* ClientIOHandles: the request whose pipes they are, 0 before the first
    process,   \* ClientProcesses: the request whose process it is, 0 for INVALID_HANDLE_VALUE
    held,      \* the pipes whose write end brt holds
    child,     \* the process of each request: its state, writes left and inherited pipes
    unread,    \* the writes in each pipe
    answers,   \* the answers pushed, in order
    timely, alone, failed  \* history

arrived == <<owner, output, received>>
loop == <<iClient, iMessage>>
handles == <<pipe, process, held>>
history == <<timely, alone, failed>>
vars == <<arrived, batch, at, loop, got, responses, handles, child, unread, answers, history>>

NoChild == [at |-> "none", left |-> 0, inherits |-> {}]

Init ==
    /\ owner = <<>> /\ output = <<>>
    /\ received = [c \in Clients |-> <<>>]
    /\ batch = [c \in Clients |-> <<>>]
    /\ at = "idle" /\ iClient = 1 /\ iMessage = 1 /\ got = 0 /\ responses = <<>>
    /\ pipe = [c \in Clients |-> 0] /\ process = [c \in Clients |-> 0]
    /\ held = {} /\ child = [r \in Requests |-> NoChild] /\ unread = [r \in Requests |-> 0]
    /\ answers = <<>>
    /\ timely = TRUE /\ alone = TRUE /\ failed = FALSE

Answered(r) == \E k \in DOMAIN answers : answers[k].request = r

\* The request that the loops are at, if they are at any.
AtRequest == iClient <= NumClients /\ iMessage <= Len(batch[iClient])
Current == batch[iClient][iMessage]

Arrive(c) ==
    /\ Len(owner) < MaxRequests
    /\ alone' = (alone /\ \A r \in DOMAIN owner : owner[r] = c => Answered(r))
    /\ owner' = Append(owner, c)
    /\ \E o \in Outputs : output' = Append(output, o)
    /\ received' = [received EXCEPT ![c] = Append(@, Len(owner) + 1)]
    /\ UNCHANGED <<batch, at, loop, got, responses, handles, child, unread, answers, timely, failed>>

----------------------------------------------------------------------------
\* The processes

Running(r) == child[r].at = "running"

Write(r) ==
    /\ Running(r) /\ child[r].left > 0 /\ unread[r] < Capacity
    /\ child' = [child EXCEPT ![r].left = @ - 1]
    /\ unread' = [unread EXCEPT ![r] = @ + 1]
    /\ UNCHANGED <<arrived, batch, at, loop, got, responses, handles, answers, history>>

Exit(r) ==
    /\ Running(r) /\ child[r].left = 0
    /\ child' = [child EXCEPT ![r].at = "done"]
    /\ UNCHANGED <<arrived, batch, at, loop, got, responses, handles, unread, answers, history>>

CanRun(r) == Running(r) /\ (child[r].left > 0 => unread[r] < Capacity)

\* The pipe of r breaks when this is false.
HasWriter(r) == r \in held \/ \E q \in Requests : Running(q) /\ r \in child[q].inherits

----------------------------------------------------------------------------
\* update

Collect ==
    /\ at = "idle"
    /\ \E c \in Clients : received[c] # <<>>
    /\ batch' = received
    /\ received' = [c \in Clients |-> <<>>]
    /\ at' = "execute" /\ iClient' = 1 /\ iMessage' = 1 /\ responses' = <<>>
    /\ UNCHANGED <<owner, output, got, handles, child, unread, answers, history>>

\* The loops go on with the next client.
NextClient ==
    /\ at \in {"execute", "read"}
    /\ iClient <= NumClients /\ iMessage > Len(batch[iClient])
    /\ iClient' = iClient + 1 /\ iMessage' = 1
    /\ UNCHANGED <<arrived, batch, at, got, responses, handles, child, unread, answers, history>>

\* initHandles and createChildProcess, or only the former.
BugSharesHandles ==
    /\ at = "execute" /\ AtRequest
    /\ pipe' = [c \in Clients |-> Current] /\ held' = held \cup {Current}
    /\ process' = [process EXCEPT ![iClient] = Current]
    /\ child' = [child EXCEPT ![Current] = [at |-> "running", left |-> output[Current].writes,
                                            inherits |-> held']]
    /\ iMessage' = iMessage + 1
    /\ UNCHANGED <<arrived, batch, at, iClient, got, responses, unread, answers, history>>
Execute ==
    /\ at = "execute" /\ AtRequest
    /\ pipe' = [pipe EXCEPT ![iClient] = Current] /\ held' = held \cup {Current}
    /\ \/ /\ process' = [process EXCEPT ![iClient] = Current]
          /\ child' = [child EXCEPT ![Current] = [at |-> "running", left |-> output[Current].writes,
                                                  inherits |-> held']]
          /\ UNCHANGED failed
       \/ /\ process' = [process EXCEPT ![iClient] = 0] /\ child' = child
          /\ failed' = TRUE
    /\ iMessage' = iMessage + 1
    /\ UNCHANGED <<arrived, batch, at, iClient, got, responses, unread, answers, timely, alone>>

ExecuteEnd ==
    /\ at = "execute" /\ iClient > NumClients
    /\ at' = "sleep"
    /\ UNCHANGED <<arrived, batch, loop, got, responses, handles, child, unread, answers, history>>

BugDoesNotSleep ==
    /\ at = "sleep"
    /\ at' = "read" /\ iClient' = 1 /\ iMessage' = 1
    /\ UNCHANGED <<arrived, batch, got, responses, handles, child, unread, answers, history>>
SleepEnd ==
    /\ at = "sleep"
    /\ timely' = (timely /\ \A r \in Requests : ~CanRun(r))
    /\ at' = "read" /\ iClient' = 1 /\ iMessage' = 1
    /\ UNCHANGED <<arrived, batch, got, responses, handles, child, unread, answers, alone, failed>>

\* ReadFile: what there is, an error from a broken pipe, or it waits.
Read ==
    /\ at = "read" /\ AtRequest
    /\ LET r == pipe[iClient]
       IN  \/ /\ unread[r] > 0
              /\ got' = got + unread[r] /\ unread' = [unread EXCEPT ![r] = 0]
              /\ at' = "check"
           \/ /\ unread[r] = 0 /\ ~HasWriter(r)
              /\ at' = "ended" /\ UNCHANGED <<got, unread>>
    /\ UNCHANGED <<arrived, batch, loop, responses, handles, child, answers, history>>

\* The answer ends when the process has, or with a 0; the handles of the process are closed.
ReadAll(r) == child[r].at = "done" \/ (output[r].zero /\ got = output[r].writes)

BugKeepsHandle ==
    /\ at = "check"
    /\ LET r == pipe[iClient]
       IN  IF ReadAll(process[iClient])
           THEN /\ responses' = Append(responses, [request |-> Current, of |-> r, writes |-> got])
                /\ iMessage' = iMessage + 1 /\ got' = 0
           ELSE UNCHANGED <<responses, iMessage, got>>
    /\ at' = "read"
    /\ UNCHANGED <<arrived, batch, iClient, handles, child, unread, answers, history>>
BugCarriesOver ==
    /\ at = "check"
    /\ LET r == pipe[iClient]
       IN  IF ReadAll(process[iClient])
           THEN /\ responses' = Append(responses, [request |-> Current, of |-> r, writes |-> got])
                /\ held' = held \ {r}
                /\ iMessage' = iMessage + 1 /\ got' = got
           ELSE UNCHANGED <<responses, held, iMessage, got>>
    /\ at' = "read"
    /\ UNCHANGED <<arrived, batch, iClient, pipe, process, child, unread, answers, history>>
Check ==
    /\ at = "check"
    /\ LET r == pipe[iClient]
       IN  IF ReadAll(process[iClient])
           THEN /\ responses' = Append(responses, [request |-> Current, of |-> r, writes |-> got])
                /\ held' = held \ {r}
                /\ iMessage' = iMessage + 1 /\ got' = 0
           ELSE UNCHANGED <<responses, held, iMessage, got>>
    /\ at' = "read"
    /\ UNCHANGED <<arrived, batch, iClient, pipe, process, child, unread, answers, history>>

Reply ==
    /\ at = "read" /\ iClient > NumClients
    /\ answers' = answers \o responses
    /\ at' = "idle"
    /\ UNCHANGED <<arrived, batch, loop, got, responses, handles, child, unread, history>>

Update == Collect \/ NextClient \/ Execute \/ ExecuteEnd \/ SleepEnd \/ Read \/ Check \/ Reply

Next ==
    \/ \E c \in Clients : Arrive(c)
    \/ \E r \in Requests : Write(r) \/ Exit(r)
    \/ Update

Spec == Init /\ [][Next]_vars

\* The application and the processes run.
FairSpec == Spec /\ WF_vars(Update) /\ \A r \in Requests : WF_vars(Write(r) \/ Exit(r))

----------------------------------------------------------------------------
\* Properties

Response == [request: Requests, of: Requests, writes: Nat]

TypeOK ==
    /\ owner \in Seq(Clients) /\ output \in Seq(Outputs) /\ Len(output) = Len(owner)
    /\ received \in [Clients -> Seq(Requests)] /\ batch \in [Clients -> Seq(Requests)]
    /\ at \in {"idle", "execute", "sleep", "read", "check", "ended"}
    /\ iClient \in 1..NumClients + 1 /\ iMessage \in Nat \ {0}
    /\ iClient <= NumClients => iMessage <= Len(batch[iClient]) + 1
    /\ got \in Nat /\ (at \notin {"read", "check", "ended"} => got = 0)
    /\ responses \in Seq(Response) /\ answers \in Seq(Response)
    /\ pipe \in [Clients -> 0..MaxRequests] /\ process \in [Clients -> 0..MaxRequests]
    /\ held \subseteq Requests
    /\ child \in [Requests -> [at: {"none", "running", "done"}, left: Nat, inherits: SUBSET Requests]]
    /\ unread \in [Requests -> 0..Capacity]
    /\ {timely, alone, failed} \subseteq BOOLEAN

\* Outputs fit the pipes, and processes write them while update sleeps.
Fits(o) == o.writes <= Capacity
Slept == timely /\ \A r \in DOMAIN output : Fits(output[r])

\* A request is answered once, with what its own process wrote, unless a client sends two at
\* once and their processes write on while update reads.
AnswersAreOwn ==
    /\ alone \/ Slept =>
          \A k \in DOMAIN answers : answers[k].of = answers[k].request
    /\ \A k, l \in DOMAIN answers : answers[k].request = answers[l].request => k = l

\* "Stop when there is no more data": an answer is all that the process wrote.
AnswersAreWhole ==
    Slept => \A k \in DOMAIN answers : answers[k].writes = output[answers[k].of].writes

\* "pick up messages for later processing": when update is over, whatever it picked up has
\* been answered.
PickedUpIsAnswered ==
    ~failed /\ at \in {"idle", "ended"} =>
        \A c \in Clients : \A k \in DOMAIN batch[c] : Answered(batch[c][k])

\* Between two updates brt holds no write end: none of the pipes is left for later processes
\* to inherit.
HandlesReleased == alone /\ at = "idle" => held = {}

\* Every request is answered, when no client sends two at once and every output ends with a 0.
Terminated(o) == o.writes > 0 /\ o.zero
RequestsAreAnswered ==
    \A r \in Requests :
        (r \in DOMAIN owner)
        ~> (Answered(r) \/ ~alone \/ failed \/ \E q \in DOMAIN output : ~Terminated(output[q]))
=============================================================================

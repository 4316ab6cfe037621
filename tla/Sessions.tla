----------------------------- MODULE Sessions ------------------------------
(***************************************************************************)
(* The processes from start to exit: the connect loops and the session     *)
(* loops, over the test cases, of rm_server_main.cpp and                   *)
(* rm_client_main.cpp, and the exit of a server after the last session.    *)
(*                                                                         *)
(* Nothing but the client's wait for all completions keeps two sessions    *)
(* apart: update() reads whatever has come with the parameters of the      *)
(* session its server is in, a message makes a state machine for any sid,  *)
(* and corrupted_clients is the same map all the time.                     *)
(*                                                                         *)
(* The state machine of MixingStm appears here as its round number.  A     *)
(* message of another server or of the client wakes it up, and a wake-up   *)
(* takes it at most one round further.                                     *)
(***************************************************************************)
EXTENDS Naturals, Sequences

CONSTANTS
    Servers,    \* the server ids, in the order of the connect loops
    Sessions,   \* test_cases.size()
    N,          \* info.N, the same in every session
    Malformed,  \* per session: the inputs that fail the check
    Exiting     \* bound: the servers whose exit is looked at

ASSUME ServersAssumption == Servers \subseteq Nat \ {0}

Client == 0         \* the id of the client process, rm_common.hpp:65
LastRound == 4
CheckRound == 2     \* OPEN_CHECK_WF_PREDICATES comes after this round
Sids == 0 .. Sessions-1
Inputs == 0 .. N-1

\* A state machine: the inputs, the rounds it has sent, and the round and
\* sender of every share it has.  A new one stands for none: there is one only
\* once it has a message.
NewStm == [inputs |-> {}, round |-> 0, got |-> {}]

ASSUME SessionsAssumption ==
    /\ Sessions \in Nat
    /\ N \in Nat \ {0}
    /\ Malformed \in [Sids -> SUBSET Inputs]

VARIABLES
    \* start-up
    listening,          \* servers that have opened their port
    linked,             \* per process: the servers its loop has connected to
    \* the client process
    sid,                \* the session it is in
    submitted,          \* inputs of this session submitted to every server
    completion_status,
    responses,          \* per server: the sids in the client's queue
    connected,          \* the servers with is_connected()
    \* the connections
    inputs_read,        \* per server: inputs taken, of all sessions
    sent,               \* per server: the shares sent to the peers
    reach,              \* per server and peer: how many of them can arrive
    read,               \* per server and peer: how many of the peer's were taken
    \* the main loop of a server
    case_idx,
    updating,           \* servers inside update()
    deserialzed_msgs,
    stms,
    corrupted_clients,
    outputs,            \* per server: what it mixed in each session
    exited

startVars == << listening, linked >>
clientVars == << sid, submitted, completion_status, responses, connected >>
linkVars == << inputs_read, sent, reach, read >>
mainVars == << case_idx, updating, deserialzed_msgs, stms, corrupted_clients, outputs >>
vars == << startVars, clientVars, linkVars, mainVars, exited >>

Init ==
    /\ listening = {}
    /\ linked = [p \in Servers \cup {Client} |-> {}]
    /\ sid = 0
    /\ submitted = 0
    /\ completion_status = {}
    /\ responses = [s \in Servers |-> << >>]
    /\ connected = {}
    /\ inputs_read = [s \in Servers |-> 0]
    /\ sent = [s \in Servers |-> << >>]
    /\ reach = [s \in Servers |-> [p \in Servers |-> Sessions * LastRound]]
    /\ read = [s \in Servers |-> [p \in Servers |-> 0]]
    /\ case_idx = [s \in Servers |-> 0]
    /\ updating = Servers
    /\ deserialzed_msgs = [s \in Servers |-> << >>]
    /\ stms = [s \in Servers |-> [k \in Sids |-> NewStm]]
    /\ corrupted_clients = [s \in Servers |-> {}]
    /\ outputs = [s \in Servers |-> << >>]
    /\ exited = {}
-----------------------------------------------------------------------------
(***************************************************************************)
(* Start-up.  The processes are started in any order.  A server opens its  *)
(* port before it connects to the others one by one, and tries again as    *)
(* long as a port is not open.  Messages for a server that is still        *)
(* connecting wait for it.                                                 *)
(***************************************************************************)
\* The constructor of server_interface and start().
Listen(s) ==
    /\ s \notin listening
    /\ listening' = listening \cup {s}
    /\ UNCHANGED << linked, clientVars, linkVars, mainVars, exited >>

\* What the connect loop of a process has left: a server skips itself.
Missing(p) == Servers \ (linked[p] \cup {p})

\* A connect() of the loop that succeeds.
Connect(p) ==
    /\ \E s \in Missing(p) :
          /\ \A q \in Missing(p) : s <= q
          /\ s \in listening \ exited
          /\ linked' = [linked EXCEPT ![p] = @ \cup {s}]
          /\ connected' = IF p = Client THEN connected \cup {s} ELSE connected
    /\ UNCHANGED << listening, sid, submitted, completion_status, responses,
                    linkVars, mainVars, exited >>

\* The connect loop is over.
Started(p) == Missing(p) = {}

\* (Variant: the port is opened after the connect loop.)
ConnectThenListen(s) == IF Started(s) THEN Listen(s) ELSE Connect(s)

\* A server before its main loop.
ListenThenConnect(s) == IF s \notin listening THEN Listen(s) ELSE Connect(s)
-----------------------------------------------------------------------------
(***************************************************************************)
(* The client submits the inputs of a session, polls until every server    *)
(* has completed it, and goes on to the next.                              *)
(***************************************************************************)
Submit ==
    /\ Started(Client)
    /\ sid < Sessions
    /\ submitted < N
    /\ submitted' = submitted + 1
    /\ UNCHANGED << startVars, sid, completion_status, responses, connected, linkVars,
                    mainVars, exited >>

\* (Variant: one completion is enough.)
AnyCompleted == completion_status # {}

AllCompleted == completion_status = Servers

\* A response of another session is taken and ignored.
PollCompletion(s) ==
    /\ sid < Sessions
    /\ submitted = N
    /\ ~ AllCompleted
    /\ s \in connected
    /\ responses[s] # << >>
    /\ responses' = [responses EXCEPT ![s] = Tail(@)]
    /\ completion_status' = IF Head(responses[s]) = sid
                            THEN completion_status \cup {s} ELSE completion_status
    /\ UNCHANGED << startVars, sid, submitted, connected, linkVars, mainVars, exited >>

NextSession ==
    /\ sid < Sessions
    /\ submitted = N
    /\ AllCompleted
    /\ sid' = sid + 1
    /\ submitted' = 0
    /\ completion_status' = {}
    /\ UNCHANGED << startVars, responses, connected, linkVars, mainVars, exited >>
-----------------------------------------------------------------------------
(***************************************************************************)
(* update(): what has come is taken and deserialized with the parameters   *)
(* of case_idx, until nothing is left; how much has come by then is open.  *)
(***************************************************************************)
\* The main loop runs only after the connect loop.
InSession(s) == s \in listening /\ Started(s) /\ case_idx[s] < Sessions

Take(s, k, r, from) ==
    deserialzed_msgs' = [deserialzed_msgs EXCEPT ![s] =
        Append(@, [info |-> case_idx[s], sid |-> k, round |-> r, from |-> from])]

TakeInput(s) ==
    /\ InSession(s)
    /\ s \in updating
    /\ inputs_read[s] < sid * N + submitted
    /\ Take(s, inputs_read[s] \div N, 0, inputs_read[s] % N)
    /\ inputs_read' = [inputs_read EXCEPT ![s] = @ + 1]
    /\ UNCHANGED << startVars, clientVars, sent, reach, read, case_idx, updating, stms,
                    corrupted_clients, outputs, exited >>

TakeShares(s, p) ==
    /\ InSession(s)
    /\ s \in updating
    /\ p # s
    /\ read[s][p] < Len(sent[p])
    /\ read[s][p] < reach[p][s]
    /\ LET m == sent[p][read[s][p] + 1]
       IN  Take(s, m.sid, m.round, p)
    /\ read' = [read EXCEPT ![s][p] = @ + 1]
    /\ UNCHANGED << startVars, clientVars, inputs_read, sent, reach, case_idx, updating, stms,
                    corrupted_clients, outputs, exited >>

EndUpdate(s) ==
    /\ InSession(s)
    /\ s \in updating
    /\ deserialzed_msgs[s] # << >>
    /\ updating' = updating \ {s}
    /\ UNCHANGED << startVars, clientVars, linkVars, case_idx, deserialzed_msgs, stms,
                    corrupted_clients, outputs, exited >>
-----------------------------------------------------------------------------
(***************************************************************************)
(* One turn of the inner loop: take a message, find or make its state      *)
(* machine, run message_handler and execute_rm_stm.                        *)
(***************************************************************************)
Received(stm, m) ==
    IF m.round = 0 THEN [stm EXCEPT !.inputs = @ \cup {m.from}]
    ELSE [stm EXCEPT !.got = @ \cup {<< m.round, m.from >>}]

\* What the stm waits for is complete.
Complete(stm) ==
    IF stm.round = 0 THEN stm.inputs = Inputs
    ELSE \A p \in Servers : << stm.round, p >> \in stm.got

\* (Variant: the messages carry the round that is over.)
AdvanceSameRound(s, k, stm) ==
    /\ sent' = [sent EXCEPT ![s] = Append(@, [sid |-> k, round |-> stm.round])]
    /\ stms' = [stms EXCEPT ![s][k] =
            [inputs |-> stm.inputs, round |-> stm.round + 1,
             got |-> stm.got \cup {<< stm.round + 1, s >>}]]
    /\ corrupted_clients' = IF stm.round = CheckRound
            THEN [corrupted_clients EXCEPT ![s] = @ \cup Malformed[k]]
            ELSE corrupted_clients
    /\ UNCHANGED << case_idx, outputs, responses >>

\* (Variant: the marks of earlier sessions are overwritten.)
AdvanceForgetting(s, k, stm) ==
    /\ sent' = [sent EXCEPT ![s] = Append(@, [sid |-> k, round |-> stm.round + 1])]
    /\ stms' = [stms EXCEPT ![s][k] =
            [inputs |-> stm.inputs, round |-> stm.round + 1,
             got |-> stm.got \cup {<< stm.round + 1, s >>}]]
    /\ corrupted_clients' = IF stm.round = CheckRound
            THEN [corrupted_clients EXCEPT ![s] = Malformed[k]]
            ELSE corrupted_clients
    /\ UNCHANGED << case_idx, outputs, responses >>

\* The server sends the next round, and keeps its own share of it.
Advance(s, k, stm) ==
    /\ sent' = [sent EXCEPT ![s] = Append(@, [sid |-> k, round |-> stm.round + 1])]
    /\ stms' = [stms EXCEPT ![s][k] =
            [inputs |-> stm.inputs, round |-> stm.round + 1,
             got |-> stm.got \cup {<< stm.round + 1, s >>}]]
    /\ corrupted_clients' = IF stm.round = CheckRound
            THEN [corrupted_clients EXCEPT ![s] = @ \cup Malformed[k]]
            ELSE corrupted_clients
    /\ UNCHANGED << case_idx, outputs, responses >>

\* (Variant: the state machine of the session is not erased.)
FinishUnerased(s, k) ==
    /\ \A i, j \in corrupted_clients[s] : i = j
    /\ outputs' = [outputs EXCEPT ![s] = Append(@, Inputs \ corrupted_clients[s])]
    /\ responses' = [responses EXCEPT ![s] = Append(@, k)]
    /\ case_idx' = [case_idx EXCEPT ![s] = @ + 1]
    /\ UNCHANGED << stms, sent, corrupted_clients >>

\* find_roots never returns when two inputs are blamed (MixingStm); then
\* COMPLETED: the response, the erasure of the state machine and the break
\* out of both loops, whatever is left in deserialzed_msgs.
FinishSession(s, k) ==
    /\ \A i, j \in corrupted_clients[s] : i = j
    /\ outputs' = [outputs EXCEPT ![s] = Append(@, Inputs \ corrupted_clients[s])]
    /\ responses' = [responses EXCEPT ![s] = Append(@, k)]
    /\ stms' = [stms EXCEPT ![s][k] = NewStm]
    /\ case_idx' = [case_idx EXCEPT ![s] = @ + 1]
    /\ UNCHANGED << sent, corrupted_clients >>

Wait(s, k, stm) ==
    /\ stms' = [stms EXCEPT ![s][k] = stm]
    /\ UNCHANGED << sent, corrupted_clients, case_idx, outputs, responses >>

Handle(s) ==
    /\ InSession(s)
    /\ s \notin updating
    /\ LET m == Head(deserialzed_msgs[s])
           stm == Received(stms[s][m.sid], m)
       IN  IF ~ Complete(stm) THEN Wait(s, m.sid, stm)
           ELSE IF stm.round < LastRound THEN Advance(s, m.sid, stm)
           ELSE FinishSession(s, m.sid)
    /\ deserialzed_msgs' = [deserialzed_msgs EXCEPT ![s] = Tail(@)]
    /\ updating' = IF deserialzed_msgs'[s] = << >> \/ case_idx' # case_idx
                   THEN updating \cup {s} ELSE updating
    /\ UNCHANGED << startVars, sid, submitted, completion_status, connected, inputs_read, reach,
                    read, exited >>
-----------------------------------------------------------------------------
(***************************************************************************)
(* The end of main: the destructors stop the io_contexts.  Of what a       *)
(* server sent, the messages its io threads have not written yet are lost, *)
(* and the client sees the connection closed sooner or later.              *)
(***************************************************************************)
Exit(s) ==
    /\ case_idx[s] = Sessions
    /\ s \in Exiting \ exited
    /\ exited' = exited \cup {s}
    /\ \E arrive \in [Servers -> 0 .. Len(sent[s])] :
          /\ \A p \in Servers : arrive[p] >= read[p][s]
          /\ reach' = [reach EXCEPT ![s] = arrive]
    /\ \E n \in 0 .. Len(responses[s]) :
          responses' = [responses EXCEPT ![s] = SubSeq(@, 1, n)]
    /\ UNCHANGED << startVars, sid, submitted, completion_status, connected, inputs_read, sent,
                    read, mainVars >>

ConnectionClosed(s) ==
    /\ s \in exited \cap connected
    /\ connected' = connected \ {s}
    /\ UNCHANGED << startVars, sid, submitted, completion_status, responses, linkVars, mainVars, exited >>
-----------------------------------------------------------------------------
ServerStep(s) ==
    \/ ListenThenConnect(s)
    \/ TakeInput(s)
    \/ \E p \in Servers : TakeShares(s, p)
    \/ EndUpdate(s)
    \/ Handle(s)
    \/ Exit(s)

Next ==
    \/ Connect(Client)
    \/ Submit
    \/ NextSession
    \/ \E s \in Servers : PollCompletion(s) \/ ServerStep(s) \/ ConnectionClosed(s)

Spec == Init /\ [][Next]_vars

\* The main threads are loops that never block: a connect that fails is
\* tried again after two seconds, the client goes round the
\* servers, a server goes on with what has come.
Fairness ==
    /\ WF_vars(Connect(Client)) /\ WF_vars(Submit) /\ WF_vars(NextSession)
    /\ \A s \in Servers :
          /\ WF_vars(PollCompletion(s)) /\ WF_vars(ServerStep(s))
          /\ WF_vars(ConnectionClosed(s))

FairSpec == Spec /\ Fairness
-----------------------------------------------------------------------------
Shares == [sid : Sids, round : 1 .. LastRound]
Stm == [inputs : SUBSET Inputs, round : 0 .. LastRound,
        got : SUBSET ((1 .. LastRound) \X Servers)]
Deserialized == [info : Sids, sid : Sids, round : {0}, from : Inputs]
                \cup [info : Sids, sid : Sids, round : 1 .. LastRound, from : Servers]

\* Every variable has its type.
TypeOK ==
    /\ listening \subseteq Servers
    /\ linked \in [Servers \cup {Client} -> SUBSET Servers]
    /\ sid \in 0 .. Sessions
    /\ submitted \in 0 .. N
    /\ completion_status \subseteq Servers
    /\ responses \in [Servers -> Seq(Sids)]
    /\ connected \subseteq Servers
    /\ inputs_read \in [Servers -> 0 .. Sessions * N]
    /\ sent \in [Servers -> Seq(Shares)]
    /\ reach \in [Servers -> [Servers -> 0 .. Sessions * LastRound]]
    /\ read \in [Servers -> [Servers -> 0 .. Sessions * LastRound]]
    /\ case_idx \in [Servers -> 0 .. Sessions]
    /\ updating \subseteq Servers
    /\ deserialzed_msgs \in [Servers -> Seq(Deserialized)]
    /\ stms \in [Servers -> [Sids -> Stm]]
    /\ corrupted_clients \in [Servers -> SUBSET Inputs]
    /\ outputs \in [Servers -> Seq(SUBSET Inputs)]
    /\ exited \subseteq Servers

\* update() uses the prime and the length of the session the server is in,
\* whatever sid a message carries: it must only ever find messages of it.
ReadUnderOwnSession ==
    \A s \in Servers : \A i \in 1 .. Len(deserialzed_msgs[s]) :
        LET m == deserialzed_msgs[s][i] IN m.info = m.sid /\ m.sid = case_idx[s]

\* At most the state machine of the current session exists: none is made
\* again by a late message for a session that is over.
OneStateMachine ==
    \A s \in Servers, k \in Sids : stms[s][k] # NewStm => k = case_idx[s]

\* The sessions are apart: while a server is in one, the client has not begun
\* the next and no peer is in an earlier one without having sent everything.
SessionsApart ==
    \A s \in Servers :
        /\ case_idx[s] \in {sid, sid + 1}
        /\ \A p \in Servers : case_idx[p] > case_idx[s] =>
                Len(sent[p]) = LastRound * case_idx[p] /\ Len(sent[s]) = Len(sent[p])

\* corrupted_clients is never reset, so an input index stays out of the mix
\* in all sessions after the one that blamed it; the servers agree on that.
BlamedOutputs(k) == Inputs \ UNION {Malformed[j] : j \in 0 .. k}
OutputsAgree ==
    \A s \in Servers : \A i \in 1 .. Len(outputs[s]) : outputs[s][i] = BlamedOutputs(i - 1)

\* Unless a server exits, every session ends, at the client and at every
\* server.
AllSessionsEnd ==
    <> \/ exited # {}
       \/ sid = Sessions /\ \A s \in Servers : case_idx[s] = Sessions

\* "initialize", says rm_server_main.cpp:276 before it inserts (i, false) for
\* every input at the start of a session: no input of a session is left out
\* for what another session found.
SessionStartsInitialized ==
    \A s \in Servers :
        InSession(s) /\ (\A k \in Sids : stms[s][k] = NewStm) =>
            corrupted_clients[s] = {}

\* "notify all clients the completion of mixing for session"
\* (rm_server_stm.hpp:779): the client sees every session completed.
ClientFinishes == <> (sid = Sessions)

\* localtest.bash:50 waits for the exit of every server.
ServersFinish == <> (exited = Servers)
=============================================================================

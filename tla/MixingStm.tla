----------------------------- MODULE MixingStm -----------------------------
(***************************************************************************)
(* One mixing session: the state machine rm_mixing_stm that every server   *)
(* runs (rm_server_stm.hpp), the main loop around it (rm_server_main.cpp)  *)
(* and the client that submits the inputs and waits for the completions    *)
(* (rm_client_main.cpp).                                                   *)
(*                                                                         *)
(* A session opens two secret-shared vectors, each in two all-to-all       *)
(* rounds: rounds 1 and 2 open the well-formedness predicates, rounds 3    *)
(* and 4 the sums of powers.  One buffer, rec_exp_shares1, serves rounds 1 *)
(* and 3, and a server runs only when a message wakes it up: those are the *)
(* two things the properties below are about.                              *)
(*                                                                         *)
(* Field arithmetic is abstracted to what a share is a share OF: every     *)
(* server's slice of one secret-shared vector is the same abstract Share,  *)
(* and n shares open to a value when all of them are shares of it.         *)
(*                                                                         *)
(* Each send loop of the code sends to every peer, and TCP keeps the       *)
(* messages of one connection in order.  So the connections of server p    *)
(* are one log, sent[p], which each peer s reads at its own position       *)
(* read[s][p]; the client's connections are the ids 0 .. submitted-1, read *)
(* up to inputs_read[s].  The queue my_received_messages merges the        *)
(* connections of a server, so a server takes the next unread message of   *)
(* any of them.                                                            *)
(***************************************************************************)
EXTENDS Naturals, Sequences

CONSTANTS
    Servers,    \* the n servers
    N,          \* info.N, the number of client messages of the session
    Malformed,  \* the inputs whose well-formedness predicate is not zero
    Blamed      \* what earlier sessions left marked in corrupted_clients

Inputs == 0 .. N-1

\* With n = 2 the last message of a session may be handled while the server
\* is still one state behind, and nothing wakes it up again.  The program
\* needs n >= 5 (secretsharing.h:79); a third server is all the proofs use.
ASSUME ServersAssumption ==
    \A s, p \in Servers : \E q \in Servers : q # s /\ q # p
ASSUME InputsAssumption ==
    /\ N \in Nat \ {0}
    /\ Malformed \subseteq Inputs
    /\ Blamed \subseteq Inputs

(***************************************************************************)
(* enum mix_state.                                                         *)
(***************************************************************************)
WAIT_FOR_INPUTS                   == 0
COMPUTE_WELLFORMEDNESS_PREDICATES == 2
BATCHED_OPEN_WF_PREDICATES_1      == 3
BATCHED_OPEN_WF_PREDICATES_2      == 4
BATCHED_OPEN_WF_PREDICATES_3      == 5
BATCHED_OPEN_WF_PREDICATES_4      == 6
OPEN_CHECK_WF_PREDICATES          == 7
DECOMPRESS_CLIENT_INPUTS          == 8
COMPUTE_SUM_OF_POWERS             == 9
BATCHED_OPEN_SUMS_OF_POWERS_5     == 10
BATCHED_OPEN_SUMS_OF_POWERS_6     == 11
BATCHED_OPEN_SUMS_OF_POWERS_7     == 12
BATCHED_OPEN_SUMS_OF_POWERS_8     == 13
COMPUTE_NEWTON_ID_AND_FIND_ROOTS  == 14
COMPLETED                         == 15

Rounds == 1 .. 4
MixState == (0 .. COMPLETED) \ {1}

\* The mixing_state_id a message of each round carries (stm_state + 1 of the
\* state that sends it), which is also the state that waits for the round.
WaitState == << BATCHED_OPEN_WF_PREDICATES_2, BATCHED_OPEN_WF_PREDICATES_4,
                BATCHED_OPEN_SUMS_OF_POWERS_6, BATCHED_OPEN_SUMS_OF_POWERS_8 >>

\* A share of the predicates tells which inputs have a non-zero predicate, a
\* share of the sums of powers which inputs entered the sums.
Share == [vector : {"none", "garbage", "preds", "sums"}, of : SUBSET Inputs]
NoShare == [vector |-> "none", of |-> {}]
Garbage == [vector |-> "garbage", of |-> {}]
EmptyBuffer == [p \in Servers |-> NoShare]

Message == [mixing_state_id : {WaitState[r] : r \in Rounds}, body : Share]

VARIABLES
    \* the client process
    submitted,             \* messages submitted, each to every server
    responses,             \* servers whose COMPLETED waits in the client's queue
    completion_status,     \* servers seen COMPLETED
    \* connections
    inputs_read,           \* per server: client messages handled
    sent,                  \* per server: the messages sent to the peers
    read,                  \* per server and peer: how many of them were handled
    \* the main loop of a server
    stms,                  \* servers that hold a state machine for the session
    erased,                \* servers that erased theirs on completion
    flag,                  \* servers inside the loop of execute_rm_stm
    corrupted_clients,
    output,                \* what find_roots was applied to
    \* the state machine
    stm_state, client_msg_counter, client_input, rm_client_connections,
    msg_reception_status,  \* per round: the senders whose bit is true
    cleared,               \* the rounds whose vector was clear()ed
    preds, shared_sums_of_powers, decompressed,
    rec_exp_shares1, ret_open_exp_shares1, ret_open_exp_shares2

clientVars == << submitted, responses, completion_status >>
inputVars  == << client_msg_counter, client_input, rm_client_connections, inputs_read >>
statusVars == << msg_reception_status, cleared >>
bufferVars == << rec_exp_shares1, ret_open_exp_shares1, ret_open_exp_shares2 >>
vectorVars == << preds, shared_sums_of_powers, decompressed >>
mainVars   == << stms, erased, corrupted_clients, output >>
vars == << clientVars, inputVars, statusVars, bufferVars, vectorVars, mainVars,
           sent, read, flag, stm_state >>
-----------------------------------------------------------------------------
Init ==
    /\ submitted = 0
    /\ responses = {}
    /\ completion_status = {}
    /\ inputs_read = [s \in Servers |-> 0]
    /\ sent = [s \in Servers |-> << >>]
    /\ read = [s \in Servers |-> [p \in Servers |-> 0]]
    /\ stms = {}
    /\ erased = {}
    /\ flag = {}
    /\ corrupted_clients = [s \in Servers |-> Blamed]
    /\ output = [s \in Servers |-> NoShare]
    /\ stm_state = [s \in Servers |-> WAIT_FOR_INPUTS]
    /\ client_msg_counter = [s \in Servers |-> 0]
    /\ client_input = [s \in Servers |-> {}]
    /\ rm_client_connections = [s \in Servers |-> FALSE]
    /\ msg_reception_status = [s \in Servers |-> [r \in Rounds |-> {}]]
    /\ cleared = [s \in Servers |-> {}]
    /\ preds = [s \in Servers |-> NoShare]
    /\ shared_sums_of_powers = [s \in Servers |-> NoShare]
    /\ decompressed = [s \in Servers |-> {}]
    /\ rec_exp_shares1 = [s \in Servers |-> EmptyBuffer]
    /\ ret_open_exp_shares1 = [s \in Servers |-> EmptyBuffer]
    /\ ret_open_exp_shares2 = [s \in Servers |-> EmptyBuffer]
-----------------------------------------------------------------------------
(***************************************************************************)
(* The client.  Message submitted is shared and sent to every server, then *)
(* the client polls the servers round robin for their COMPLETED response.  *)
(***************************************************************************)
SubmitMessage ==
    /\ submitted < N
    /\ submitted' = submitted + 1
    /\ UNCHANGED << responses, completion_status, inputVars, statusVars, bufferVars,
                    vectorVars, mainVars, sent, read, flag, stm_state >>

PollCompletion(s) ==
    /\ submitted = N
    /\ completion_status # Servers
    /\ s \in responses
    /\ responses' = responses \ {s}
    /\ completion_status' = completion_status \cup {s}
    /\ UNCHANGED << submitted, inputVars, statusVars, bufferVars, vectorVars,
                    mainVars, sent, read, flag, stm_state >>
-----------------------------------------------------------------------------
(***************************************************************************)
(* The main loop: take the next message, make a state machine if there is  *)
(* none, hand the message to message_handler and run execute_rm_stm.       *)
(***************************************************************************)
UnreadInput(s) == inputs_read[s] < submitted
UnreadShares(s, p) == p # s /\ read[s][p] < Len(sent[p])
Unread(s) == UnreadInput(s) \/ \E p \in Servers : UnreadShares(s, p)

\* The constructor of rm_mixing_stm.
CreateStm(s) ==
    /\ s \notin stms
    /\ Unread(s)
    /\ stms' = stms \cup {s}
    /\ stm_state' = [stm_state EXCEPT ![s] = WAIT_FOR_INPUTS]
    /\ client_msg_counter' = [client_msg_counter EXCEPT ![s] = 0]
    /\ client_input' = [client_input EXCEPT ![s] = {}]
    /\ rm_client_connections' = [rm_client_connections EXCEPT ![s] = FALSE]
    /\ msg_reception_status' = [msg_reception_status EXCEPT ![s] = [r \in Rounds |-> {}]]
    /\ cleared' = [cleared EXCEPT ![s] = {}]
    /\ preds' = [preds EXCEPT ![s] = NoShare]
    /\ shared_sums_of_powers' = [shared_sums_of_powers EXCEPT ![s] = NoShare]
    /\ decompressed' = [decompressed EXCEPT ![s] = {}]
    /\ rec_exp_shares1' = [rec_exp_shares1 EXCEPT ![s] = EmptyBuffer]
    /\ ret_open_exp_shares1' = [ret_open_exp_shares1 EXCEPT ![s] = EmptyBuffer]
    /\ ret_open_exp_shares2' = [ret_open_exp_shares2 EXCEPT ![s] = EmptyBuffer]
    /\ UNCHANGED << clientVars, inputs_read, sent, read, erased, flag,
                    corrupted_clients, output >>

Idle(s) == s \in stms /\ s \notin flag /\ stm_state[s] # COMPLETED

\* Case WAIT_FOR_INPUTS of message_handler, then execute_rm_stm is entered.
\* The handler compares nothing with stm_state: the message is stored
\* whatever the state.
HandleInput(s) ==
    /\ Idle(s)
    /\ UnreadInput(s)
    /\ inputs_read' = [inputs_read EXCEPT ![s] = @ + 1]
    /\ client_msg_counter' = [client_msg_counter EXCEPT ![s] = @ + 1]
    /\ client_input' = [client_input EXCEPT ![s] = @ \cup {inputs_read[s]}]
    /\ rm_client_connections' = [rm_client_connections EXCEPT ![s] =
                                    @ \/ client_msg_counter[s] = 0]
    /\ flag' = flag \cup {s}
    /\ UNCHANGED << clientVars, statusVars, bufferVars, vectorVars, mainVars,
                    sent, read, stm_state >>

\* The buffer of each round: rec_exp_shares1 takes rounds 1 and 3.
StoreShare(s, p, r, body) ==
    /\ rec_exp_shares1' = IF r \in {1, 3}
            THEN [rec_exp_shares1 EXCEPT ![s][p] = body] ELSE rec_exp_shares1
    /\ ret_open_exp_shares1' = IF r = 2
            THEN [ret_open_exp_shares1 EXCEPT ![s][p] = body] ELSE ret_open_exp_shares1
    /\ ret_open_exp_shares2' = IF r = 4
            THEN [ret_open_exp_shares2 EXCEPT ![s][p] = body] ELSE ret_open_exp_shares2

\* (Variant: a message of another round than the awaited one is dropped.)
HandleSharesOnTime(s, p) ==
    /\ Idle(s)
    /\ UnreadShares(s, p)
    /\ LET m == sent[p][read[s][p] + 1] IN
       IF m.mixing_state_id # stm_state[s]
       THEN UNCHANGED << bufferVars, msg_reception_status >>
       ELSE \E r \in Rounds :
              /\ m.mixing_state_id = WaitState[r]
              /\ StoreShare(s, p, r, m.body)
              /\ msg_reception_status' = [msg_reception_status EXCEPT ![s][r] = @ \cup {p}]
    /\ read' = [read EXCEPT ![s][p] = @ + 1]
    /\ flag' = flag \cup {s}
    /\ UNCHANGED << clientVars, inputVars, cleared, vectorVars, mainVars, sent, stm_state >>

\* The four wait cases of message_handler.  A second message of a sender in
\* one round is ignored.  A clear()ed vector<bool> keeps its storage, so the
\* out-of-range read of it finds the old, true bit.
HandleShares(s, p) ==
    /\ Idle(s)
    /\ UnreadShares(s, p)
    /\ LET m == sent[p][read[s][p] + 1] IN
       \E r \in Rounds :
         /\ m.mixing_state_id = WaitState[r]
         /\ IF p \in msg_reception_status[s][r]
            THEN UNCHANGED << bufferVars, msg_reception_status >>
            ELSE /\ StoreShare(s, p, r, m.body)
                 /\ msg_reception_status' =
                        [msg_reception_status EXCEPT ![s][r] = @ \cup {p}]
    /\ read' = [read EXCEPT ![s][p] = @ + 1]
    /\ flag' = flag \cup {s}
    /\ UNCHANGED << clientVars, inputVars, cleared, vectorVars, mainVars, sent, stm_state >>

\* After execute_rm_stm returns in state COMPLETED, the state machine is
\* erased and the session's loop ends.
FinishSession(s) ==
    /\ s \in stms
    /\ s \notin flag
    /\ stm_state[s] = COMPLETED
    /\ stms' = stms \ {s}
    /\ erased' = erased \cup {s}
    /\ UNCHANGED << clientVars, inputVars, statusVars, bufferVars, vectorVars,
                    corrupted_clients, output, sent, read, flag, stm_state >>
-----------------------------------------------------------------------------
(***************************************************************************)
(* execute_rm_stm, one action per case.  A case that ends with flag =      *)
(* false leaves the loop; the others fall to the next case.                *)
(***************************************************************************)
InState(s, q) == s \in flag /\ stm_state[s] = q
Goto(s, q) == stm_state' = [stm_state EXCEPT ![s] = q]
Continue == UNCHANGED flag
Stop(s) == flag' = flag \ {s}

\* (Variant: one reception bit too few is asked for.)
is_all_but_one_true(s, r) ==
    \/ \E q \in Servers : Servers \ {q} \subseteq msg_reception_status[s][r]
    \/ r \in cleared[s]

is_all_true(s, r) == Servers \subseteq msg_reception_status[s][r] \/ r \in cleared[s]

WaitForInputs(s) ==
    /\ InState(s, WAIT_FOR_INPUTS)
    /\ IF client_msg_counter[s] = N
       THEN /\ client_msg_counter' = [client_msg_counter EXCEPT ![s] = 0]
            /\ Goto(s, COMPUTE_WELLFORMEDNESS_PREDICATES)
            /\ Continue
       ELSE /\ Stop(s)
            /\ UNCHANGED << client_msg_counter, stm_state >>
    /\ UNCHANGED << clientVars, client_input, rm_client_connections, inputs_read,
                    statusVars, bufferVars, vectorVars, mainVars, sent, read >>

ComputeWellformednessPredicates(s) ==
    /\ InState(s, COMPUTE_WELLFORMEDNESS_PREDICATES)
    /\ preds' = [preds EXCEPT ![s] =
                    [vector |-> "preds", of |-> client_input[s] \cap Malformed]]
    /\ Goto(s, BATCHED_OPEN_WF_PREDICATES_1)
    /\ Continue
    /\ UNCHANGED << clientVars, inputVars, statusVars, bufferVars, decompressed,
                    shared_sums_of_powers, mainVars, sent, read >>

\* (Variant: the messages carry the sender's own state.)
SendRoundOwnState(s, r, body) ==
    /\ sent' = [sent EXCEPT ![s] =
                    Append(@, [mixing_state_id |-> stm_state[s], body |-> body])]
    /\ msg_reception_status' = [msg_reception_status EXCEPT ![s][r] = @ \cup {s}]

\* What both send functions do once the vector for round r is computed: keep
\* the own element in a buffer, mark it received, send the rest to the peers.
SendRound(s, r, body) ==
    /\ sent' = [sent EXCEPT ![s] =
                    Append(@, [mixing_state_id |-> stm_state[s] + 1, body |-> body])]
    /\ msg_reception_status' = [msg_reception_status EXCEPT ![s][r] = @ \cup {s}]

batched_open_expand_send(s, r, shares) ==
    /\ rec_exp_shares1' = [rec_exp_shares1 EXCEPT ![s][s] = shares]
    /\ UNCHANGED << ret_open_exp_shares1, ret_open_exp_shares2 >>
    /\ SendRound(s, r, shares)

\* What rs_decode may return for one share per server: what they are shares
\* of or, when they disagree, also the value that errors among them hide.
Decodings(shares) ==
    LET values == {shares[p] : p \in Servers}
    IN  IF \E v \in values : values = {v} THEN values ELSE values \cup {Garbage}

BatchedOpenWf1(s) ==
    /\ InState(s, BATCHED_OPEN_WF_PREDICATES_1)
    /\ batched_open_expand_send(s, 1, preds[s])
    /\ preds' = [preds EXCEPT ![s] = NoShare]
    /\ Goto(s, BATCHED_OPEN_WF_PREDICATES_2)
    /\ Stop(s)
    /\ UNCHANGED << clientVars, inputVars, cleared, shared_sums_of_powers,
                    decompressed, mainVars, read >>

\* (Variant: flag = false also when the round is complete.)
AwaitRoundStops(s, r, clears) ==
    /\ InState(s, WaitState[r])
    /\ IF is_all_true(s, r)
       THEN /\ cleared' = IF clears THEN [cleared EXCEPT ![s] = @ \cup {r}] ELSE cleared
            /\ Goto(s, WaitState[r] + 1)
       ELSE UNCHANGED << cleared, stm_state >>
    /\ Stop(s)
    /\ UNCHANGED << clientVars, inputVars, msg_reception_status, bufferVars,
                    vectorVars, mainVars, sent, read >>

\* The wait cases of rounds 1 and 2 clear() their vector, those of rounds 3
\* and 4 do not.
AwaitRound(s, r, clears) ==
    /\ InState(s, WaitState[r])
    /\ IF is_all_true(s, r)
       THEN /\ cleared' = IF clears THEN [cleared EXCEPT ![s] = @ \cup {r}] ELSE cleared
            /\ Goto(s, WaitState[r] + 1)
            /\ Continue
       ELSE /\ Stop(s)
            /\ UNCHANGED << cleared, stm_state >>
    /\ UNCHANGED << clientVars, inputVars, msg_reception_status, bufferVars,
                    vectorVars, mainVars, sent, read >>

BatchedOpenWf2(s) == AwaitRound(s, 1, TRUE)

\* open_exp_shares_to_all(..., ret_open_exp_shares1, ..., 2)
BatchedOpenWf3(s) ==
    /\ InState(s, BATCHED_OPEN_WF_PREDICATES_3)
    /\ \E opened \in Decodings(rec_exp_shares1[s]) :
         /\ ret_open_exp_shares1' = [ret_open_exp_shares1 EXCEPT ![s][s] = opened]
         /\ SendRound(s, 2, opened)
    /\ Goto(s, BATCHED_OPEN_WF_PREDICATES_4)
    /\ Stop(s)
    /\ UNCHANGED << clientVars, inputVars, cleared, rec_exp_shares1,
                    ret_open_exp_shares2, vectorVars, mainVars, read >>

BatchedOpenWf4(s) == AwaitRound(s, 2, TRUE)

\* A vector that is not the predicates makes any element non-zero.
OpenCheckWf(s) ==
    /\ InState(s, OPEN_CHECK_WF_PREDICATES)
    /\ \E output_preds \in Decodings(ret_open_exp_shares1[s]), nonzero \in SUBSET Inputs :
         /\ output_preds.vector = "preds" => nonzero = output_preds.of
         /\ corrupted_clients' = [corrupted_clients EXCEPT ![s] = @ \cup nonzero]
    /\ ret_open_exp_shares1' = [ret_open_exp_shares1 EXCEPT ![s] = EmptyBuffer]
    /\ Goto(s, DECOMPRESS_CLIENT_INPUTS)
    /\ Continue
    /\ UNCHANGED << clientVars, inputVars, statusVars, rec_exp_shares1,
                    ret_open_exp_shares2, vectorVars, stms, erased, output, sent, read >>

\* (Variant: the marked inputs are not set to zero.)
DecompressAll(s) ==
    /\ InState(s, DECOMPRESS_CLIENT_INPUTS)
    /\ decompressed' = [decompressed EXCEPT ![s] = client_input[s]]
    /\ client_input' = [client_input EXCEPT ![s] = {}]
    /\ Goto(s, COMPUTE_SUM_OF_POWERS)
    /\ Continue
    /\ UNCHANGED << clientVars, client_msg_counter, rm_client_connections, inputs_read,
                    statusVars, bufferVars, preds, shared_sums_of_powers, mainVars,
                    sent, read >>

\* The vectors of the marked inputs are set to zero; the inputs are killed.
DecompressClientInputs(s) ==
    /\ InState(s, DECOMPRESS_CLIENT_INPUTS)
    /\ decompressed' = [decompressed EXCEPT ![s] = client_input[s] \ corrupted_clients[s]]
    /\ client_input' = [client_input EXCEPT ![s] = {}]
    /\ Goto(s, COMPUTE_SUM_OF_POWERS)
    /\ Continue
    /\ UNCHANGED << clientVars, client_msg_counter, rm_client_connections, inputs_read,
                    statusVars, bufferVars, preds, shared_sums_of_powers, mainVars,
                    sent, read >>

ComputeSumOfPowers(s) ==
    /\ InState(s, COMPUTE_SUM_OF_POWERS)
    /\ shared_sums_of_powers' = [shared_sums_of_powers EXCEPT ![s] =
                                    [vector |-> "sums", of |-> decompressed[s]]]
    /\ Goto(s, BATCHED_OPEN_SUMS_OF_POWERS_5)
    /\ Continue
    /\ UNCHANGED << clientVars, inputVars, statusVars, bufferVars, preds, decompressed,
                    mainVars, sent, read >>

BatchedOpenSums5(s) ==
    /\ InState(s, BATCHED_OPEN_SUMS_OF_POWERS_5)
    /\ batched_open_expand_send(s, 3, shared_sums_of_powers[s])
    /\ shared_sums_of_powers' = [shared_sums_of_powers EXCEPT ![s] = NoShare]
    /\ Goto(s, BATCHED_OPEN_SUMS_OF_POWERS_6)
    /\ Stop(s)
    /\ UNCHANGED << clientVars, inputVars, cleared, preds, decompressed, mainVars, read >>

BatchedOpenSums6(s) == AwaitRound(s, 3, FALSE)

\* open_exp_shares_to_all(..., ret_open_exp_shares2, ..., 4)
BatchedOpenSums7(s) ==
    /\ InState(s, BATCHED_OPEN_SUMS_OF_POWERS_7)
    /\ \E opened \in Decodings(rec_exp_shares1[s]) :
         /\ ret_open_exp_shares2' = [ret_open_exp_shares2 EXCEPT ![s][s] = opened]
         /\ SendRound(s, 4, opened)
    /\ Goto(s, BATCHED_OPEN_SUMS_OF_POWERS_8)
    /\ Stop(s)
    /\ UNCHANGED << clientVars, inputVars, cleared, rec_exp_shares1,
                    ret_open_exp_shares1, vectorVars, mainVars, read >>

\* (Variant: the bits of round 3 are asked for.)
BatchedOpenSums8Of3(s) ==
    /\ InState(s, BATCHED_OPEN_SUMS_OF_POWERS_8)
    /\ IF is_all_true(s, 3)
       THEN Goto(s, COMPUTE_NEWTON_ID_AND_FIND_ROOTS) /\ Continue
       ELSE Stop(s) /\ UNCHANGED stm_state
    /\ UNCHANGED << clientVars, inputVars, statusVars, bufferVars, vectorVars,
                    mainVars, sent, read >>

BatchedOpenSums8(s) == AwaitRound(s, 4, FALSE)

\* find_roots only finds roots that are simple, and calls itself with what is
\* left of the polynomial until nothing is.  Every input that did not enter
\* the sums is a root 0; two of them, and it never returns.
RootsAreSimple(sums_of_powers) ==
    \A i, j \in Inputs \ sums_of_powers.of : i = j

\* The COMPLETED response goes to the connection of the first client message.
NewtonAndFindRoots(s) ==
    /\ InState(s, COMPUTE_NEWTON_ID_AND_FIND_ROOTS)
    /\ \E sums_of_powers \in Decodings(ret_open_exp_shares2[s]) :
          /\ RootsAreSimple(sums_of_powers)
          /\ output' = [output EXCEPT ![s] = sums_of_powers]
    /\ ret_open_exp_shares2' = [ret_open_exp_shares2 EXCEPT ![s] = EmptyBuffer]
    /\ responses' = IF rm_client_connections[s] THEN responses \cup {s} ELSE responses
    /\ Goto(s, COMPLETED)
    /\ Stop(s)
    /\ UNCHANGED << submitted, completion_status, inputVars, statusVars, rec_exp_shares1,
                    ret_open_exp_shares1, vectorVars, stms, erased, corrupted_clients,
                    sent, read >>
-----------------------------------------------------------------------------
execute_rm_stm(s) ==
    \/ WaitForInputs(s)
    \/ ComputeWellformednessPredicates(s)
    \/ BatchedOpenWf1(s) \/ BatchedOpenWf2(s) \/ BatchedOpenWf3(s) \/ BatchedOpenWf4(s)
    \/ OpenCheckWf(s)
    \/ DecompressClientInputs(s)
    \/ ComputeSumOfPowers(s)
    \/ BatchedOpenSums5(s) \/ BatchedOpenSums6(s) \/ BatchedOpenSums7(s) \/ BatchedOpenSums8(s)
    \/ NewtonAndFindRoots(s)

ServerStep(s) ==
    \/ CreateStm(s)
    \/ HandleInput(s)
    \/ \E p \in Servers : HandleShares(s, p)
    \/ execute_rm_stm(s)
    \/ FinishSession(s)

\* The processes exit; the step keeps the end of a session from counting as
\* a deadlock, so that every other stop does.
Terminated == completion_status = Servers /\ erased = Servers
Exit == Terminated /\ UNCHANGED vars

Next ==
    \/ SubmitMessage
    \/ \E s \in Servers : PollCompletion(s) \/ ServerStep(s)
    \/ Exit

Spec == Init /\ [][Next]_vars

\* The server's and the client's main threads are loops that never block, and
\* the polls of the client go round all servers.
Fairness ==
    /\ WF_vars(SubmitMessage)
    /\ \A s \in Servers : WF_vars(PollCompletion(s)) /\ WF_vars(ServerStep(s))

FairSpec == Spec /\ Fairness
-----------------------------------------------------------------------------
\* Every variable has its type.
TypeOK ==
    /\ submitted \in 0 .. N
    /\ responses \subseteq Servers
    /\ completion_status \subseteq Servers
    /\ inputs_read \in [Servers -> 0 .. N]
    /\ sent \in [Servers -> Seq(Message)]
    /\ read \in [Servers -> [Servers -> Nat]]
    /\ stms \subseteq Servers
    /\ erased \subseteq Servers
    /\ flag \subseteq Servers
    /\ corrupted_clients \in [Servers -> SUBSET Inputs]
    /\ output \in [Servers -> Share]
    /\ stm_state \in [Servers -> MixState]
    /\ client_msg_counter \in [Servers -> Nat]
    /\ client_input \in [Servers -> SUBSET Inputs]
    /\ rm_client_connections \in [Servers -> BOOLEAN]
    /\ msg_reception_status \in [Servers -> [Rounds -> SUBSET Servers]]
    /\ cleared \in [Servers -> SUBSET Rounds]
    /\ preds \in [Servers -> Share]
    /\ shared_sums_of_powers \in [Servers -> Share]
    /\ decompressed \in [Servers -> SUBSET Inputs]
    /\ rec_exp_shares1 \in [Servers -> [Servers -> Share]]
    /\ ret_open_exp_shares1 \in [Servers -> [Servers -> Share]]
    /\ ret_open_exp_shares2 \in [Servers -> [Servers -> Share]]

\* rec_exp_shares1 holds round 1, then round 3, while messages of round 3 may
\* come before round 2 is over.  Still, whatever a server is about to open is
\* complete and of the round it opens, at all n places.
OpensOneVector ==
    \A s \in flag, p \in Servers :
        /\ stm_state[s] = BATCHED_OPEN_WF_PREDICATES_3 =>
                rec_exp_shares1[s][p].vector = "preds"
        /\ stm_state[s] = OPEN_CHECK_WF_PREDICATES =>
                ret_open_exp_shares1[s][p].vector = "preds"
        /\ stm_state[s] = BATCHED_OPEN_SUMS_OF_POWERS_7 =>
                rec_exp_shares1[s][p].vector = "sums"
        /\ stm_state[s] = COMPUTE_NEWTON_ID_AND_FIND_ROOTS =>
                ret_open_exp_shares2[s][p].vector = "sums"

\* message_handler indexes msg_reception_status[r-1] without asking whether
\* the vector was clear()ed: no message of such a round is ever on its way.
NoReadOfClearedStatus ==
    \A s, p \in Servers : \A i \in 1 .. Len(sent[p]) :
        p # s /\ i > read[s][p] =>
            \A r \in cleared[s] : sent[p][i].mixing_state_id # WaitState[r]

\* No lost wake-up.  A server that left execute_rm_stm runs again only when a
\* message comes, so one that stops must lack something: the inputs or a
\* message of the round it waits for.  Only in round 1 it may stop with the
\* round complete, and then the whole of round 2 is still to wake it.
StoppedServerWaits ==
    \A s \in stms \ flag :
        \/ stm_state[s] = COMPLETED
        \/ stm_state[s] = WAIT_FOR_INPUTS /\ inputs_read[s] < N
        \/ \E r \in Rounds :
              /\ stm_state[s] = WaitState[r]
              /\ \/ ~ is_all_true(s, r)
                 \/ r = 1 /\ \A p \in Servers \ {s} : read[s][p] <= 1

\* A server that completed the session has handled all that is ever sent to
\* it in the session: nothing is left that would make the main loop build a
\* second state machine for the same sid, or that the next session would
\* read under its own parameters.
NoLeftovers ==
    /\ stms \cap erased = {}
    /\ \A s \in erased \cup responses \cup completion_status :
            ~ Unread(s) /\ submitted = N /\ \A p \in Servers : Len(sent[p]) = 4

GoodInputs == Inputs \ (Malformed \cup Blamed)
Mix == [vector |-> "sums", of |-> GoodInputs]

\* Every server that finishes blames exactly the malformed inputs (besides
\* those blamed before) and mixes all the others, so all of them agree.
MixesTheGoodInputs ==
    \A s \in Servers : output[s] # NoShare =>
        /\ output[s] = Mix
        /\ corrupted_clients[s] = Malformed \cup Blamed

\* The rounds are a barrier and the servers publish one result
\* (batched_open_expand_send, open_exp_shares_to_all and the wait cases).
Exchange == INSTANCE RoundExchange
    WITH LastRound <- 4, Result <- Mix, NoResult <- NoShare,
         round <- [s \in Servers |-> Len(sent[s])], result <- output
ExchangeSpec == Exchange!FairSpec

\* Every session in which at most one input is blamed ends: each server
\* completes and erases its state machine, and the client sees every
\* completion.
SessionEnds == <>[] Terminated

\* "find the roots of the symmetric polynomial and complete the mixing stm"
\* (rm_server_stm.hpp:748): a server that gets there completes.
MixingCompletes ==
    \A s \in Servers : InState(s, COMPUTE_NEWTON_ID_AND_FIND_ROOTS)
                            ~> stm_state[s] = COMPLETED
=============================================================================

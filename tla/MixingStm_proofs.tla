------------------------- MODULE MixingStm_proofs --------------------------
(***************************************************************************)
(* Proofs about MixingStm for any number of servers (three or more), any   *)
(* number of inputs and any set of malformed ones: its invariant, and that *)
(* it implements RoundExchange.                                            *)
(***************************************************************************)
EXTENDS MixingStmInv, TLAPS

\* The state a round is awaited in, as numbers.
LEMMA WaitStates ==
    /\ WaitState[1] = 4 /\ WaitState[2] = 6 /\ WaitState[3] = 11 /\ WaitState[4] = 13
    /\ \A r \in Rounds : WaitState[r] \in Nat
    /\ \A q, r \in Rounds : WaitState[q] = WaitState[r] => q = r
    /\ Rounds = {1, 2, 3, 4}
<1>1. Rounds = {1, 2, 3, 4}
  BY DEF Rounds
<1>2. WaitState[1] = 4 /\ WaitState[2] = 6 /\ WaitState[3] = 11 /\ WaitState[4] = 13
  BY DEF WaitState, BATCHED_OPEN_WF_PREDICATES_2, BATCHED_OPEN_WF_PREDICATES_4,
         BATCHED_OPEN_SUMS_OF_POWERS_6, BATCHED_OPEN_SUMS_OF_POWERS_8
<1> QED BY <1>1, <1>2

\* What a server opens is a share again.
LEMMA DecodingsType ==
    ASSUME NEW shares \in [Servers -> Share]
    PROVE  Decodings(shares) \subseteq Share
BY DEF Decodings, Garbage, Share

\* The shares that the steps make have the type of shares.
LEMMA ShareTypes ==
    /\ NoShare \in Share
    /\ EmptyBuffer \in [Servers -> Share]
    /\ \A S \in SUBSET Inputs : /\ [vector |-> "preds", of |-> S] \in Share
                                /\ [vector |-> "sums", of |-> S] \in Share
BY DEF NoShare, EmptyBuffer, Share
-----------------------------------------------------------------------------
\* SendRound appends a well-typed message in each of the four sending states.
LEMMA SendRoundType ==
    ASSUME TypeOK, NEW s \in Servers, NEW r \in Rounds, NEW body \in Share,
           stm_state[s] + 1 = WaitState[r], SendRound(s, r, body)
    PROVE  /\ sent' \in [Servers -> Seq(Message)]
           /\ msg_reception_status' \in [Servers -> [Rounds -> SUBSET Servers]]
<1> DEFINE m == [mixing_state_id |-> stm_state[s] + 1, body |-> body]
<1>1. m \in Message
  BY DEF Message
<1>2. sent[s] \in Seq(Message)
  BY DEF TypeOK
<1>3. Append(sent[s], m) \in Seq(Message)
  BY <1>1, <1>2
<1>4. sent' = [sent EXCEPT ![s] = Append(sent[s], m)]
  BY DEF SendRound
<1>5. sent' \in [Servers -> Seq(Message)]
  BY <1>3, <1>4 DEF TypeOK
<1>6. msg_reception_status' \in [Servers -> [Rounds -> SUBSET Servers]]
  BY DEF SendRound, TypeOK
<1> QED BY <1>5, <1>6

\* The type invariant at the start.
LEMMA InitType == Init => TypeOK
BY ShareTypes, InputsAssumption
   DEF Init, TypeOK, Inputs, WAIT_FOR_INPUTS, COMPLETED, MixState

\* A client process only takes its own steps, and its state keeps its type.
LEMMA ClientType ==
    ASSUME TypeOK, SubmitMessage \/ \E s \in Servers : PollCompletion(s)
    PROVE  TypeOK'
BY InputsAssumption DEF TypeOK, SubmitMessage, PollCompletion, inputVars, statusVars,
   bufferVars, vectorVars, mainVars

\* The type invariant after the constructor.
LEMMA CreateStmType ==
    ASSUME TypeOK, NEW s \in Servers, CreateStm(s)
    PROVE  TypeOK'
<1>1. /\ [r \in Rounds |-> {}] \in [Rounds -> SUBSET Servers]
      /\ WAIT_FOR_INPUTS \in MixState
  BY DEF WAIT_FOR_INPUTS, COMPLETED, MixState
<1>2. /\ stms' \subseteq Servers
      /\ stm_state' \in [Servers -> MixState]
      /\ client_msg_counter' \in [Servers -> Nat]
      /\ client_input' \in [Servers -> SUBSET Inputs]
      /\ rm_client_connections' \in [Servers -> BOOLEAN]
      /\ msg_reception_status' \in [Servers -> [Rounds -> SUBSET Servers]]
      /\ cleared' \in [Servers -> SUBSET Rounds]
  BY <1>1 DEF TypeOK, CreateStm
<1>3. /\ preds' \in [Servers -> Share]
      /\ shared_sums_of_powers' \in [Servers -> Share]
      /\ decompressed' \in [Servers -> SUBSET Inputs]
      /\ rec_exp_shares1' \in [Servers -> [Servers -> Share]]
      /\ ret_open_exp_shares1' \in [Servers -> [Servers -> Share]]
      /\ ret_open_exp_shares2' \in [Servers -> [Servers -> Share]]
  BY ShareTypes DEF TypeOK, CreateStm
<1> QED BY <1>2, <1>3 DEF TypeOK, CreateStm, clientVars

\* The type invariant after the input of a client.
LEMMA HandleInputType ==
    ASSUME TypeOK, NEW s \in Servers, HandleInput(s)
    PROVE  TypeOK'
<1>1. inputs_read[s] \in Inputs /\ inputs_read[s] + 1 \in 0 .. N
  BY InputsAssumption DEF TypeOK, HandleInput, UnreadInput, Inputs
<1> QED
  BY <1>1 DEF TypeOK, HandleInput, clientVars, statusVars, bufferVars, vectorVars, mainVars

\* The type invariant after a vector of another server.
LEMMA HandleSharesType ==
    ASSUME TypeOK, NEW s \in Servers, NEW p \in Servers, HandleShares(s, p)
    PROVE  TypeOK'
<1> DEFINE m == sent[p][read[s][p] + 1]
<1>1. m \in Message
  BY DEF TypeOK, HandleShares, UnreadShares
<1>2. m.body \in Share
  BY <1>1 DEF Message
<1>3. PICK r \in Rounds :
         IF p \in msg_reception_status[s][r]
         THEN UNCHANGED << bufferVars, msg_reception_status >>
         ELSE /\ StoreShare(s, p, r, m.body)
              /\ msg_reception_status' = [msg_reception_status EXCEPT ![s][r] = @ \cup {p}]
  BY DEF HandleShares
<1> HIDE DEF m
<1>4. /\ rec_exp_shares1' \in [Servers -> [Servers -> Share]]
      /\ ret_open_exp_shares1' \in [Servers -> [Servers -> Share]]
      /\ ret_open_exp_shares2' \in [Servers -> [Servers -> Share]]
      /\ msg_reception_status' \in [Servers -> [Rounds -> SUBSET Servers]]
  <2>1. /\ rec_exp_shares1 \in [Servers -> [Servers -> Share]]
        /\ ret_open_exp_shares1 \in [Servers -> [Servers -> Share]]
        /\ ret_open_exp_shares2 \in [Servers -> [Servers -> Share]]
        /\ msg_reception_status \in [Servers -> [Rounds -> SUBSET Servers]]
    BY DEF TypeOK
  <2>2. CASE p \in msg_reception_status[s][r]
    BY <1>3, <2>1, <2>2 DEF bufferVars
  <2>3. CASE p \notin msg_reception_status[s][r]
    <3>1. StoreShare(s, p, r, m.body)
      BY <1>3, <2>3
    <3>2. msg_reception_status' = [msg_reception_status EXCEPT ![s][r] = @ \cup {p}]
      BY <1>3, <2>3
    <3>3. rec_exp_shares1' \in [Servers -> [Servers -> Share]]
      BY <1>2, <2>1, <3>1 DEF StoreShare
    <3>4. ret_open_exp_shares1' \in [Servers -> [Servers -> Share]]
      BY <1>2, <2>1, <3>1 DEF StoreShare
    <3>5. ret_open_exp_shares2' \in [Servers -> [Servers -> Share]]
      BY <1>2, <2>1, <3>1 DEF StoreShare
    <3>6. msg_reception_status' \in [Servers -> [Rounds -> SUBSET Servers]]
      <4>1. msg_reception_status[s][r] \cup {p} \in SUBSET Servers
        BY <2>1
      <4> QED BY <2>1, <3>2, <4>1
    <3> QED BY <3>3, <3>4, <3>5, <3>6
  <2> QED BY <2>2, <2>3
<1>5. read' \in [Servers -> [Servers -> Nat]] /\ flag' \subseteq Servers
  BY DEF TypeOK, HandleShares
<1> QED
  BY <1>4, <1>5 DEF TypeOK, HandleShares, clientVars, inputVars, vectorVars, mainVars

\* The numbers behind the names of the states.
USE DEF WAIT_FOR_INPUTS, COMPUTE_WELLFORMEDNESS_PREDICATES,
    BATCHED_OPEN_WF_PREDICATES_1, BATCHED_OPEN_WF_PREDICATES_2,
    BATCHED_OPEN_WF_PREDICATES_3, BATCHED_OPEN_WF_PREDICATES_4,
    OPEN_CHECK_WF_PREDICATES, DECOMPRESS_CLIENT_INPUTS, COMPUTE_SUM_OF_POWERS,
    BATCHED_OPEN_SUMS_OF_POWERS_5, BATCHED_OPEN_SUMS_OF_POWERS_6,
    BATCHED_OPEN_SUMS_OF_POWERS_7, BATCHED_OPEN_SUMS_OF_POWERS_8,
    COMPUTE_NEWTON_ID_AND_FIND_ROOTS, COMPLETED

\* A change of state gives a state.
LEMMA GotoType ==
    ASSUME stm_state \in [Servers -> MixState], NEW s \in Servers, NEW q \in MixState,
           Goto(s, q)
    PROVE  stm_state' \in [Servers -> MixState]
BY DEF Goto

\* The cases of execute_rm_stm that only compute or wait.
LEMMA LocalStepsType ==
    ASSUME TypeOK, NEW s \in Servers,
           \/ WaitForInputs(s) \/ ComputeWellformednessPredicates(s)
           \/ BatchedOpenWf2(s) \/ BatchedOpenWf4(s) \/ DecompressClientInputs(s)
           \/ ComputeSumOfPowers(s) \/ BatchedOpenSums6(s) \/ BatchedOpenSums8(s)
           \/ FinishSession(s)
    PROVE  TypeOK'
<1> USE DEF Goto, Stop, Continue, InState, clientVars, inputVars, statusVars,
            bufferVars, vectorVars, mainVars
<1>1. CASE WaitForInputs(s)
  <2>1. stm_state' \in [Servers -> MixState]
    <3>1. COMPUTE_WELLFORMEDNESS_PREDICATES \in MixState
      BY DEF MixState
    <3> QED BY <1>1, <3>1 DEF TypeOK, WaitForInputs
  <2>2. client_msg_counter' \in [Servers -> Nat]
    BY <1>1 DEF TypeOK, WaitForInputs
  <2>3. flag' \subseteq Servers
    BY <1>1 DEF TypeOK, WaitForInputs
  <2> QED BY <1>1, <2>1, <2>2, <2>3 DEF TypeOK, WaitForInputs
<1>2. CASE ComputeWellformednessPredicates(s)
  <2>1. [vector |-> "preds", of |-> client_input[s] \cap Malformed] \in Share
    BY DEF TypeOK, Share
  <2> QED
    BY <1>2, <2>1 DEF TypeOK, ComputeWellformednessPredicates, MixState
<1>3. ASSUME NEW r \in Rounds, NEW b \in BOOLEAN, AwaitRound(s, r, b)
      PROVE  TypeOK'
  <2>1. WaitState[r] + 1 \in MixState
    BY <1>3, WaitStates DEF Rounds, MixState
  <2> DEFINE done == is_all_true(s, r)
  <2>2. IF done THEN /\ cleared' = IF b THEN [cleared EXCEPT ![s] = @ \cup {r}] ELSE cleared
                     /\ Goto(s, WaitState[r] + 1)
                     /\ flag' = flag
                ELSE flag' = flag \ {s} /\ cleared' = cleared /\ stm_state' = stm_state
    BY <1>3 DEF AwaitRound
  <2> HIDE DEF done
  <2>3. stm_state \in [Servers -> MixState] /\ flag \subseteq Servers
        /\ cleared \in [Servers -> SUBSET Rounds]
    BY DEF TypeOK
  <2>4. stm_state' \in [Servers -> MixState]
    BY <2>1, <2>2, <2>3, GotoType
  <2>5. flag' \subseteq Servers
    BY <2>2, <2>3
  <2>6. cleared' \in [Servers -> SUBSET Rounds]
    BY <2>2, <2>3
  <2> QED BY <1>3, <2>4, <2>5, <2>6 DEF TypeOK, AwaitRound
<1>4. CASE BatchedOpenWf2(s) \/ BatchedOpenWf4(s) \/ BatchedOpenSums6(s) \/ BatchedOpenSums8(s)
  BY <1>3, <1>4, WaitStates DEF BatchedOpenWf2, BatchedOpenWf4, BatchedOpenSums6,
     BatchedOpenSums8
<1>5. CASE DecompressClientInputs(s)
  BY <1>5 DEF TypeOK, DecompressClientInputs, MixState
<1>6. CASE ComputeSumOfPowers(s)
  <2>1. [vector |-> "sums", of |-> decompressed[s]] \in Share
    BY DEF TypeOK, Share
  <2> QED BY <1>6, <2>1 DEF TypeOK, ComputeSumOfPowers, MixState
<1>7. CASE FinishSession(s)
  BY <1>7 DEF TypeOK, FinishSession
<1> QED BY <1>1, <1>2, <1>4, <1>5, <1>6, <1>7

\* The cases that send a round.
LEMMA SendingStepsType ==
    ASSUME TypeOK, NEW s \in Servers,
           \/ BatchedOpenWf1(s) \/ BatchedOpenWf3(s)
           \/ BatchedOpenSums5(s) \/ BatchedOpenSums7(s)
    PROVE  TypeOK'
<1> USE DEF Goto, Stop, InState, clientVars, inputVars, vectorVars, mainVars
<1>1. rec_exp_shares1[s] \in [Servers -> Share] /\ preds[s] \in Share
      /\ shared_sums_of_powers[s] \in Share
  BY DEF TypeOK
<1>2. CASE BatchedOpenWf1(s)
  <2>1. SendRound(s, 1, preds[s]) /\ stm_state[s] + 1 = WaitState[1]
    BY <1>2, WaitStates DEF BatchedOpenWf1, batched_open_expand_send
  <2>2. /\ sent' \in [Servers -> Seq(Message)]
        /\ msg_reception_status' \in [Servers -> [Rounds -> SUBSET Servers]]
    BY <1>1, <2>1, WaitStates, SendRoundType
  <2>3. rec_exp_shares1' \in [Servers -> [Servers -> Share]]
    BY <1>1, <1>2 DEF TypeOK, BatchedOpenWf1, batched_open_expand_send
  <2>4. stm_state' \in [Servers -> MixState]
    BY <1>2, GotoType DEF TypeOK, BatchedOpenWf1, MixState
  <2> QED BY <1>2, <2>2, <2>3, <2>4, ShareTypes
          DEF TypeOK, BatchedOpenWf1, batched_open_expand_send
<1>3. CASE BatchedOpenWf3(s)
  <2>1. PICK opened \in Decodings(rec_exp_shares1[s]) :
            /\ ret_open_exp_shares1' = [ret_open_exp_shares1 EXCEPT ![s][s] = opened]
            /\ SendRound(s, 2, opened)
    BY <1>3 DEF BatchedOpenWf3
  <2>2. opened \in Share
    BY <1>1, DecodingsType
  <2>3. stm_state[s] + 1 = WaitState[2]
    BY <1>3, WaitStates DEF BatchedOpenWf3
  <2>4. /\ sent' \in [Servers -> Seq(Message)]
        /\ msg_reception_status' \in [Servers -> [Rounds -> SUBSET Servers]]
    BY <2>1, <2>2, <2>3, WaitStates, SendRoundType
  <2>5. ret_open_exp_shares1' \in [Servers -> [Servers -> Share]]
    BY <2>1, <2>2 DEF TypeOK
  <2>6. stm_state' \in [Servers -> MixState]
    BY <1>3, GotoType DEF TypeOK, BatchedOpenWf3, MixState
  <2> QED BY <1>3, <2>4, <2>5, <2>6 DEF TypeOK, BatchedOpenWf3
<1>4. CASE BatchedOpenSums5(s)
  <2>1. SendRound(s, 3, shared_sums_of_powers[s]) /\ stm_state[s] + 1 = WaitState[3]
    BY <1>4, WaitStates DEF BatchedOpenSums5, batched_open_expand_send
  <2>2. /\ sent' \in [Servers -> Seq(Message)]
        /\ msg_reception_status' \in [Servers -> [Rounds -> SUBSET Servers]]
    BY <1>1, <2>1, WaitStates, SendRoundType
  <2>3. rec_exp_shares1' \in [Servers -> [Servers -> Share]]
    BY <1>1, <1>4 DEF TypeOK, BatchedOpenSums5, batched_open_expand_send
  <2>4. stm_state' \in [Servers -> MixState]
    BY <1>4, GotoType DEF TypeOK, BatchedOpenSums5, MixState
  <2> QED BY <1>4, <2>2, <2>3, <2>4, ShareTypes
          DEF TypeOK, BatchedOpenSums5, batched_open_expand_send
<1>5. CASE BatchedOpenSums7(s)
  <2>1. PICK opened \in Decodings(rec_exp_shares1[s]) :
            /\ ret_open_exp_shares2' = [ret_open_exp_shares2 EXCEPT ![s][s] = opened]
            /\ SendRound(s, 4, opened)
    BY <1>5 DEF BatchedOpenSums7
  <2>2. opened \in Share
    BY <1>1, DecodingsType
  <2>3. stm_state[s] + 1 = WaitState[4]
    BY <1>5, WaitStates DEF BatchedOpenSums7
  <2>4. /\ sent' \in [Servers -> Seq(Message)]
        /\ msg_reception_status' \in [Servers -> [Rounds -> SUBSET Servers]]
    BY <2>1, <2>2, <2>3, WaitStates, SendRoundType
  <2>5. ret_open_exp_shares2' \in [Servers -> [Servers -> Share]]
    BY <2>1, <2>2 DEF TypeOK
  <2>6. stm_state' \in [Servers -> MixState]
    BY <1>5, GotoType DEF TypeOK, BatchedOpenSums7, MixState
  <2> QED BY <1>5, <2>4, <2>5, <2>6 DEF TypeOK, BatchedOpenSums7
<1> QED BY <1>2, <1>3, <1>4, <1>5

\* The type invariant after the two steps that use what the last rounds opened.
LEMMA OpeningStepsType ==
    ASSUME TypeOK, NEW s \in Servers, OpenCheckWf(s) \/ NewtonAndFindRoots(s)
    PROVE  TypeOK'
<1> USE DEF Stop, Continue, InState, inputVars, statusVars, vectorVars
<1>1. CASE OpenCheckWf(s)
  <2>1. corrupted_clients' \in [Servers -> SUBSET Inputs]
    BY <1>1 DEF TypeOK, OpenCheckWf
  <2>2. ret_open_exp_shares1' \in [Servers -> [Servers -> Share]]
    BY <1>1, ShareTypes DEF TypeOK, OpenCheckWf
  <2>3. stm_state' \in [Servers -> MixState]
    BY <1>1, GotoType DEF TypeOK, OpenCheckWf, MixState
  <2> QED BY <1>1, <2>1, <2>2, <2>3 DEF TypeOK, OpenCheckWf, clientVars
<1>2. CASE NewtonAndFindRoots(s)
  <2>1. ret_open_exp_shares2[s] \in [Servers -> Share]
    BY DEF TypeOK
  <2>2. output' \in [Servers -> Share]
    BY <1>2, <2>1, DecodingsType DEF TypeOK, NewtonAndFindRoots
  <2>3. ret_open_exp_shares2' \in [Servers -> [Servers -> Share]]
    BY <1>2, ShareTypes DEF TypeOK, NewtonAndFindRoots
  <2>4. stm_state' \in [Servers -> MixState]
    BY <1>2, GotoType DEF TypeOK, NewtonAndFindRoots, MixState
  <2>5. responses' \subseteq Servers
    BY <1>2 DEF TypeOK, NewtonAndFindRoots
  <2> QED BY <1>2, <2>2, <2>3, <2>4, <2>5 DEF TypeOK, NewtonAndFindRoots
<1> QED BY <1>1, <1>2

\* The type invariant is inductive.
LEMMA TypeStep == TypeOK /\ [Next]_vars => TypeOK'
<1> SUFFICES ASSUME TypeOK, [Next]_vars PROVE TypeOK'
  OBVIOUS
<1>1. CASE SubmitMessage \/ \E s \in Servers : PollCompletion(s)
  BY <1>1, ClientType
<1>2. ASSUME NEW s \in Servers, ServerStep(s) PROVE TypeOK'
  BY <1>2, CreateStmType, HandleInputType, HandleSharesType, LocalStepsType,
     SendingStepsType, OpeningStepsType DEF ServerStep, execute_rm_stm
<1>3. CASE UNCHANGED vars
  BY <1>3 DEF TypeOK, vars, clientVars, inputVars, statusVars, bufferVars, vectorVars, mainVars
<1> QED BY <1>1, <1>2, <1>3 DEF Next, Exit

\* Every reachable state is well typed, whatever the number of servers and
\* inputs (the state of the mixing protocol, rm_server_stm.hpp).
THEOREM TypeCorrect == Spec => []TypeOK
<1>1. Init => TypeOK
  BY InitType
<1>2. TypeOK /\ [Next]_vars => TypeOK'
  BY TypeStep
<1> QED BY <1>1, <1>2, PTL DEF Spec

-----------------------------------------------------------------------------
(***************************************************************************)
(* IInv is inductive, and the safety properties of MixingStm follow from   *)
(* it: one lemma per action, and under it one step per part of IInv that   *)
(* the action can disturb.                                                 *)
(***************************************************************************)
LEMMA InitIInv == Init => IInv
<1> SUFFICES ASSUME Init, NEW s \in Servers PROVE ServerInv(s)
  BY InitType DEF IInv
<1>1. /\ stm_state[s] = 0 /\ sent[s] = << >> /\ Len(sent[s]) = 0
      /\ inputs_read[s] = 0 /\ submitted = 0 /\ client_msg_counter[s] = 0
      /\ client_input[s] = {} /\ rm_client_connections[s] = FALSE
      /\ corrupted_clients[s] = Blamed /\ output[s] = NoShare
      /\ s \notin stms /\ s \notin flag /\ s \notin erased
  BY DEF Init
<1>2. /\ \A r \in Rounds : msg_reception_status[s][r] = {}
      /\ cleared[s] = {}
      /\ \A p \in Servers : /\ rec_exp_shares1[s][p] = NoShare
                            /\ ret_open_exp_shares1[s][p] = NoShare
                            /\ ret_open_exp_shares2[s][p] = NoShare
  BY DEF Init, EmptyBuffer
<1>3. \A p \in Servers : Has(s, p) = 0 /\ read[s][p] = 0 /\ Len(sent[p]) = 0
  BY DEF Init, Has
<1>4. SentInv(s) /\ ReadInv(s)
  BY <1>1, <1>3 DEF SentInv, ReadInv, SentIn
<1>5. StatusInv(s)
  <2> SUFFICES ASSUME NEW r \in Rounds
               PROVE  /\ \A p \in Servers : ~ (r <= Has(s, p))
                      /\ ~ (stm_state[s] > WaitState[r])
    BY <1>1, <1>2 DEF StatusInv
  <2> QED BY <1>1, <1>3, WaitStates
<1>6. BufferInv(s)
  <2> SUFFICES ASSUME NEW p \in Servers
               PROVE  ~ (Has(s, p) >= 1) /\ ~ (Has(s, p) >= 2) /\ ~ (Has(s, p) >= 3)
                      /\ ~ (Has(s, p) >= 4)
    BY <1>2 DEF BufferInv
  <2> QED BY <1>3
<1>7. InputInv(s) /\ VectorInv(s) /\ StopInv(s)
  <2>1. {i \in Inputs : i < 0} = {} /\ N > 0
    BY InputsAssumption DEF Inputs
  <2> QED BY <1>1, <2>1 DEF InputInv, VectorInv, StopInv
<1>8. LifeInv(s)
  BY <1>1, <1>3 DEF Init, LifeInv
<1> QED BY <1>4, <1>5, <1>6, <1>7, <1>8 DEF ServerInv

\* The log of a server has at most four messages, and a server that sent
\* round r + 1 is past its wait for round r.
LEMMA SentInFacts ==
    ASSUME NEW q \in MixState
    PROVE  /\ SentIn(q) \in 0 .. 4
           /\ \A r \in Rounds : r < SentIn(q) => q > WaitState[r]
<1>1. q \in 0 .. 15
  BY DEF MixState
<1>2. SentIn(q) \in 0 .. 4
  BY <1>1 DEF SentIn
<1>3. /\ 1 < SentIn(q) => q > 4
      /\ 2 < SentIn(q) => q > 6
      /\ 3 < SentIn(q) => q > 11
  BY <1>1 DEF SentIn
<1> QED BY <1>1, <1>2, <1>3, WaitStates

\* What a server has sent, by its state.
LEMMA SentFacts ==
    ASSUME IInv, NEW p \in Servers
    PROVE  /\ Len(sent[p]) \in Nat /\ Len(sent[p]) <= 4
           /\ \A r \in Rounds : r < Len(sent[p]) => stm_state[p] > WaitState[r]
<1>1. stm_state[p] \in MixState /\ Len(sent[p]) = SentIn(stm_state[p])
  BY DEF IInv, TypeOK, ServerInv, SentInv
<1>2. SentIn(stm_state[p]) \in 0 .. 4
  BY <1>1, SentInFacts
<1> QED BY <1>1, <1>2, SentInFacts

\* The counters are numbers.
LEMMA NumberTypes ==
    ASSUME TypeOK, NEW s \in Servers, NEW p \in Servers
    PROVE  /\ Has(s, p) \in Nat /\ read[s][p] \in Nat /\ Len(sent[p]) \in Nat
           /\ stm_state[s] \in 0 .. 15 /\ stm_state[s] # 1
           /\ stm_state[s] \in Nat
           /\ inputs_read[s] \in 0 .. N /\ submitted \in 0 .. N /\ submitted \in Nat
<1>1. /\ read[s][p] \in Nat /\ Len(sent[p]) \in Nat /\ Len(sent[s]) \in Nat
      /\ inputs_read[s] \in 0 .. N /\ submitted \in 0 .. N /\ stm_state[s] \in MixState
  BY DEF TypeOK
<1> QED BY <1>1, InputsAssumption DEF Has, MixState

\* No server is more than one round ahead of another.
LEMMA OneRoundAhead ==
    ASSUME IInv, NEW s \in Servers, NEW p \in Servers
    PROVE  Len(sent[p]) <= Len(sent[s]) + 1
<1>0. TypeOK /\ Len(sent[p]) \in Nat /\ Len(sent[s]) \in Nat
  BY NumberTypes DEF IInv
<1>1. CASE Len(sent[p]) <= 1
  BY <1>0, <1>1
<1>2. CASE Len(sent[p]) >= 2
  <2> DEFINE r == Len(sent[p]) - 1
  <2>1. r \in Rounds /\ r < Len(sent[p])
    <3>1. Len(sent[p]) \in Nat /\ Len(sent[p]) <= 4
      BY SentFacts
    <3>2. ASSUME NEW n \in Nat, 2 <= n, n <= 4
          PROVE  n - 1 \in Rounds /\ n - 1 < n
      BY <3>2 DEF Rounds
    <3> QED BY <1>2, <3>1, <3>2
  <2>2. r <= Has(p, s)
    BY <2>1, SentFacts DEF IInv, ServerInv, StatusInv
  <2>3. Has(p, s) <= Len(sent[s])
    BY <1>0 DEF IInv, ServerInv, Has, ReadInv
  <2> QED BY <1>0, <2>1, <2>2, <2>3, NumberTypes
<1> QED BY <1>0, <1>1, <1>2

\* What a server has sent for a round is the vector of that round.
LEMMA Bodies ==
    ASSUME IInv, NEW p \in Servers, NEW r \in 1 .. Len(sent[p])
    PROVE  r \in Rounds /\ sent[p][r] = [mixing_state_id |-> WaitState[r], body |-> BodyOf(r)]
<1>1. Len(sent[p]) \in Nat /\ Len(sent[p]) <= 4
  BY SentFacts
<1> QED BY <1>1 DEF IInv, ServerInv, SentInv, Rounds
-----------------------------------------------------------------------------
\* A step of another process: nothing of server x changes, but the logs of
\* the others may grow and the client may submit.
SameServer(x) ==
    /\ stm_state'[x] = stm_state[x]
    /\ inputs_read'[x] = inputs_read[x]
    /\ client_msg_counter'[x] = client_msg_counter[x]
    /\ client_input'[x] = client_input[x]
    /\ rm_client_connections'[x] = rm_client_connections[x]
    /\ msg_reception_status'[x] = msg_reception_status[x]
    /\ cleared'[x] = cleared[x]
    /\ rec_exp_shares1'[x] = rec_exp_shares1[x]
    /\ ret_open_exp_shares1'[x] = ret_open_exp_shares1[x]
    /\ ret_open_exp_shares2'[x] = ret_open_exp_shares2[x]
    /\ preds'[x] = preds[x]
    /\ shared_sums_of_powers'[x] = shared_sums_of_powers[x]
    /\ decompressed'[x] = decompressed[x]
    /\ corrupted_clients'[x] = corrupted_clients[x]
    /\ output'[x] = output[x]
    /\ sent'[x] = sent[x]
    /\ read'[x] = read[x]
    /\ x \in stms' <=> x \in stms
    /\ x \in erased' <=> x \in erased
    /\ x \in flag' <=> x \in flag
    /\ x \in responses' \cup completion_status' => x \in responses \cup completion_status

\* A step of one server leaves the invariant of the others alone.
LEMMA Untouched ==
    ASSUME TypeOK, NEW x \in Servers, ServerInv(x), SameServer(x),
           submitted <= submitted', submitted' \in Nat,
           \A p \in Servers : Len(sent[p]) <= Len(sent'[p]) /\ Len(sent'[p]) \in Nat
    PROVE  ServerInv(x)'
<1>1. \A p \in Servers : Has(x, p)' = Has(x, p)
  BY DEF Has, SameServer
<1>2. \A p \in Servers : Len(sent[p]) \in Nat /\ read[x][p] \in Nat
  BY NumberTypes
<1>3. SentInv(x)'
  BY DEF SentInv, SameServer, ServerInv
<1>4. ReadInv(x)'
  <2> SUFFICES ASSUME NEW p \in Servers PROVE read[x][p] <= Len(sent'[p])
    BY DEF ReadInv, SameServer
  <2> QED BY <1>2 DEF ServerInv, ReadInv
<1>5. StatusInv(x)'
  BY <1>1 DEF StatusInv, SameServer, ServerInv
<1>6. BufferInv(x)'
  BY <1>1 DEF BufferInv, SameServer, ServerInv
<1>7. InputInv(x)'
  <2>1. inputs_read'[x] <= submitted'
    BY NumberTypes DEF InputInv, SameServer, ServerInv
  <2> QED BY <2>1 DEF InputInv, SameServer, ServerInv
<1>8. VectorInv(x)'
  BY DEF VectorInv, SameServer, ServerInv
<1>9. LifeInv(x)'
  BY DEF LifeInv, SameServer, ServerInv
<1>10. StopInv(x)'
  BY DEF StopInv, SameServer, ServerInv, Behind
<1> QED BY <1>3, <1>4, <1>5, <1>6, <1>7, <1>8, <1>9, <1>10 DEF ServerInv

\* The client submits, or takes a completion from its queue.
LEMMA ClientIInv ==
    ASSUME IInv, SubmitMessage \/ \E s \in Servers : PollCompletion(s)
    PROVE  IInv'
<1>1. TypeOK'
  BY ClientType DEF IInv
<1>2. ASSUME NEW x \in Servers PROVE SameServer(x)
  BY DEF SubmitMessage, PollCompletion, SameServer, inputVars, statusVars,
         bufferVars, vectorVars, mainVars
<1>3. submitted <= submitted' /\ submitted' \in Nat /\ sent' = sent
  BY InputsAssumption DEF IInv, TypeOK, SubmitMessage, PollCompletion
<1>4. \A p \in Servers : Len(sent[p]) \in Nat
  BY NumberTypes DEF IInv
<1> QED BY <1>1, <1>2, <1>3, <1>4, Untouched DEF IInv

\* A state machine is only ever made where there was none: after the erasure
\* no message is left that would call for another.
LEMMA CompletedHasAll ==
    ASSUME IInv, NEW s \in Servers, stm_state[s] = COMPLETED
    PROVE  ~ Unread(s)
<1>1. ASSUME NEW p \in Servers, p # s PROVE read[s][p] >= Len(sent[p])
  <2>1. 4 <= Has(s, p)
    BY WaitStates DEF IInv, ServerInv, StatusInv
  <2>2. Len(sent[p]) \in Nat /\ Len(sent[p]) <= 4
    BY SentFacts
  <2>3. Has(s, p) = read[s][p] /\ read[s][p] \in Nat
    BY <1>1, NumberTypes DEF IInv, Has
  <2> QED BY <2>1, <2>2, <2>3
<1>2. inputs_read[s] = N /\ submitted \in 0 .. N
  BY NumberTypes DEF IInv, ServerInv, InputInv
<1> QED
  BY <1>1, <1>2, NumberTypes, InputsAssumption DEF IInv, Unread, UnreadInput, UnreadShares

\* From here on, one lemma per action: it keeps the invariant.
LEMMA CreateStmIInv ==
    ASSUME IInv, NEW s \in Servers, CreateStm(s)
    PROVE  IInv'
<1>1. TypeOK /\ TypeOK' /\ ServerInv(s)
  BY CreateStmType DEF IInv
<1>2. s \notin erased /\ s \notin stms /\ s \notin flag
      /\ stm_state[s] = 0 /\ inputs_read[s] = 0 /\ \A p \in Servers : read[s][p] = 0
  BY <1>1, CompletedHasAll DEF CreateStm, ServerInv, LifeInv
<1>3. /\ stm_state' = stm_state /\ inputs_read' = inputs_read
      /\ sent' = sent /\ read' = read /\ flag' = flag /\ erased' = erased
      /\ corrupted_clients' = corrupted_clients /\ output' = output
      /\ responses' = responses /\ completion_status' = completion_status
      /\ submitted' = submitted /\ stms' = stms \cup {s}
  BY <1>1, <1>2 DEF CreateStm, clientVars, TypeOK
<1>4. Len(sent[s]) = 0 /\ \A p \in Servers : Has(s, p) = 0
  BY <1>1, <1>2 DEF ServerInv, SentInv, SentIn, Has
<1>5. /\ client_msg_counter'[s] = 0 /\ client_input'[s] = {}
      /\ rm_client_connections'[s] = FALSE /\ cleared'[s] = {}
      /\ \A r \in Rounds : msg_reception_status'[s][r] = {}
      /\ \A p \in Servers : /\ rec_exp_shares1'[s][p] = NoShare
                            /\ ret_open_exp_shares1'[s][p] = NoShare
                            /\ ret_open_exp_shares2'[s][p] = NoShare
  BY <1>1 DEF CreateStm, TypeOK, EmptyBuffer
<1>6. \A p \in Servers : Has(s, p)' = 0
  BY <1>3, <1>4 DEF Has
<1>7. SentInv(s)' /\ ReadInv(s)' /\ VectorInv(s)' /\ LifeInv(s)'
  BY <1>1, <1>2, <1>3 DEF ServerInv, SentInv, ReadInv, VectorInv, LifeInv
<1>8. StatusInv(s)'
  <2> SUFFICES ASSUME NEW r \in Rounds
               PROVE  /\ \A p \in Servers : ~ (r <= Has(s, p)')
                      /\ ~ (stm_state'[s] > WaitState[r])
    BY <1>5 DEF StatusInv
  <2>1. stm_state'[s] = 0
    BY <1>2, <1>3
  <2> QED BY <2>1, <1>6, WaitStates
<1>9. BufferInv(s)'
  <2> SUFFICES ASSUME NEW p \in Servers
               PROVE  ~ (Has(s, p)' >= 1) /\ ~ (Has(s, p)' >= 2) /\ ~ (Has(s, p)' >= 3)
                      /\ ~ (Has(s, p)' >= 4)
    BY <1>5 DEF BufferInv
  <2> QED BY <1>6
<1>10. InputInv(s)'
  <2>1. {i \in Inputs : i < 0} = {}
    BY InputsAssumption DEF Inputs
  <2> QED BY <1>1, <1>2, <1>3, <1>5, <2>1 DEF ServerInv, InputInv
<1>11. StopInv(s)'
  BY <1>1, <1>2, <1>3 DEF ServerInv, StopInv
<1>12. ASSUME NEW x \in Servers, x # s PROVE ServerInv(x)'
  <2>1. SameServer(x)
    BY <1>1, <1>2, <1>3, <1>12 DEF CreateStm, SameServer, TypeOK
  <2> QED BY <1>1, <1>3, <2>1, Untouched, NumberTypes, InputsAssumption DEF IInv
<1> QED
  BY <1>1, <1>7, <1>8, <1>9, <1>10, <1>11, <1>12 DEF IInv, ServerInv

LEMMA HandleInputIInv ==
    ASSUME IInv, NEW s \in Servers, HandleInput(s)
    PROVE  IInv'
<1>1. TypeOK /\ TypeOK' /\ ServerInv(s)
  BY HandleInputType DEF IInv
<1>2. /\ s \in stms /\ s \notin flag /\ stm_state[s] # COMPLETED
      /\ inputs_read[s] < submitted
      /\ inputs_read' = [inputs_read EXCEPT ![s] = @ + 1]
      /\ client_msg_counter' = [client_msg_counter EXCEPT ![s] = @ + 1]
      /\ client_input' = [client_input EXCEPT ![s] = @ \cup {inputs_read[s]}]
      /\ flag' = flag \cup {s}
      /\ stm_state' = stm_state /\ sent' = sent /\ read' = read
      /\ stms' = stms /\ erased' = erased /\ submitted' = submitted
      /\ responses' = responses /\ completion_status' = completion_status
      /\ corrupted_clients' = corrupted_clients /\ output' = output
      /\ preds' = preds /\ decompressed' = decompressed
      /\ shared_sums_of_powers' = shared_sums_of_powers
      /\ UNCHANGED statusVars /\ UNCHANGED bufferVars
  BY DEF HandleInput, Idle, UnreadInput, clientVars, vectorVars, mainVars
<1>3. /\ inputs_read[s] \in 0 .. N /\ submitted \in 0 .. N /\ N \in Nat
      /\ stm_state[s] \in 0 .. 15
  BY <1>1, NumberTypes, InputsAssumption
\* Only a server that waits for inputs finds one.
<1>4. stm_state[s] = WAIT_FOR_INPUTS
  BY <1>1, <1>2, <1>3 DEF ServerInv, InputInv
<1>5. \A p \in Servers : Has(s, p)' = Has(s, p)
  BY <1>2 DEF Has
<1>6. SentInv(s)' /\ ReadInv(s)' /\ StatusInv(s)' /\ BufferInv(s)' /\ VectorInv(s)' /\ LifeInv(s)'
  BY <1>1, <1>2, <1>5 DEF ServerInv, SentInv, ReadInv, StatusInv, BufferInv, VectorInv,
     LifeInv, statusVars, bufferVars
<1>7. InputInv(s)'
  <2>1. /\ inputs_read'[s] = inputs_read[s] + 1
        /\ client_msg_counter'[s] = client_msg_counter[s] + 1
        /\ client_input'[s] = client_input[s] \cup {inputs_read[s]}
    BY <1>1, <1>2 DEF TypeOK
  <2>2. client_msg_counter[s] = inputs_read[s]
        /\ client_input[s] = {i \in Inputs : i < inputs_read[s]}
        /\ (rm_client_connections[s] <=> inputs_read[s] > 0)
    BY <1>1, <1>4 DEF ServerInv, InputInv
  <2>3. client_input'[s] = {i \in Inputs : i < inputs_read'[s]}
    BY <1>2, <1>3, <2>1, <2>2 DEF Inputs
  <2>4. rm_client_connections'[s] <=> (rm_client_connections[s] \/ client_msg_counter[s] = 0)
    BY <1>1 DEF HandleInput, TypeOK
  <2>5. rm_client_connections'[s]
    <3>1. inputs_read[s] > 0 \/ client_msg_counter[s] = 0
      BY <1>3, <2>2
    <3> QED BY <2>2, <2>4, <3>1
  <2>6. inputs_read'[s] <= submitted' /\ inputs_read'[s] > 0 /\ stm_state'[s] = 0
    BY <1>2, <1>3, <1>4, <2>1
  <2>7. client_msg_counter'[s] = inputs_read'[s]
    BY <2>1, <2>2
  <2> QED BY <2>3, <2>5, <2>6, <2>7 DEF InputInv
<1>8. StopInv(s)'
  <2>1. stm_state'[s] = 0 /\ s \in flag'
    BY <1>2, <1>4
  <2> QED BY <2>1 DEF StopInv
<1>9. ASSUME NEW x \in Servers, x # s PROVE ServerInv(x)'
  <2>1. SameServer(x)
    BY <1>1, <1>2, <1>9 DEF HandleInput, SameServer, TypeOK, statusVars, bufferVars
  <2> QED BY <1>1, <1>2, <1>3, <2>1, Untouched, NumberTypes DEF IInv
<1> QED
  BY <1>1, <1>6, <1>7, <1>8, <1>9 DEF IInv, ServerInv

\* A message brings s one round closer with one peer only.
LEMMA BehindStep ==
    ASSUME TypeOK, NEW s \in Servers, NEW p \in Servers, NEW r \in Nat,
           read' = [read EXCEPT ![s][p] = read[s][p] + 1], Behind(s, r)
    PROVE  Behind(s, r + 1)'
<1>1. PICK q \in Servers : q # s /\ read[s][q] < r
  BY DEF Behind
<1>2. read[s][q] \in Nat /\ read[s][p] \in Nat
  BY NumberTypes
<1>3. read'[s][q] = IF q = p THEN read[s][q] + 1 ELSE read[s][q]
  BY DEF TypeOK
<1>4. read'[s][q] < r + 1
  BY <1>1, <1>2, <1>3
<1> QED BY <1>1, <1>4 DEF Behind

LEMMA HandleSharesIInv ==
    ASSUME IInv, NEW s \in Servers, NEW p \in Servers, HandleShares(s, p)
    PROVE  IInv'
<1> DEFINE r == read[s][p] + 1
<1>1. TypeOK /\ TypeOK' /\ ServerInv(s)
  BY HandleSharesType DEF IInv
<1>2. /\ s \in stms /\ s \notin flag /\ stm_state[s] # COMPLETED
      /\ p # s /\ read[s][p] < Len(sent[p])
      /\ read' = [read EXCEPT ![s][p] = read[s][p] + 1]
      /\ flag' = flag \cup {s}
      /\ stm_state' = stm_state /\ sent' = sent /\ cleared' = cleared
      /\ stms' = stms /\ erased' = erased /\ submitted' = submitted
      /\ responses' = responses /\ completion_status' = completion_status
      /\ corrupted_clients' = corrupted_clients /\ output' = output
      /\ preds' = preds /\ decompressed' = decompressed
      /\ shared_sums_of_powers' = shared_sums_of_powers
      /\ UNCHANGED inputVars
  BY DEF HandleShares, Idle, UnreadShares, clientVars, vectorVars, mainVars
<1>3. /\ read[s][p] \in Nat /\ Len(sent[p]) \in Nat /\ Len(sent[p]) <= 4
      /\ stm_state[s] \in 0 .. 15 /\ submitted \in 0 .. N
  BY <1>1, NumberTypes, SentFacts
<1>4. r \in 1 .. Len(sent[p]) /\ r \in Rounds /\ r \in Nat
  BY <1>2, <1>3 DEF Rounds
\* It is the message of round r, and the first one of p for that round.
<1>5. sent[p][r] = [mixing_state_id |-> WaitState[r], body |-> BodyOf(r)]
  BY <1>4, Bodies
<1>6. Has(s, p) = r - 1 /\ p \notin msg_reception_status[s][r]
  <2>1. Has(s, p) = read[s][p]
    BY <1>2 DEF Has
  <2>2. ~ (r <= read[s][p]) /\ read[s][p] = r - 1
    BY <1>3
  <2> QED BY <1>1, <1>4, <2>1, <2>2 DEF ServerInv, StatusInv
<1> HIDE DEF r
<1>7. /\ StoreShare(s, p, r, BodyOf(r))
      /\ msg_reception_status' = [msg_reception_status EXCEPT ![s][r] = @ \cup {p}]
  <2>1. PICK q \in Rounds :
          /\ sent[p][r].mixing_state_id = WaitState[q]
          /\ IF p \in msg_reception_status[s][q]
             THEN UNCHANGED << bufferVars, msg_reception_status >>
             ELSE /\ StoreShare(s, p, q, sent[p][r].body)
                  /\ msg_reception_status' = [msg_reception_status EXCEPT ![s][q] = @ \cup {p}]
    BY DEF HandleShares, r
  <2>2. q = r
    BY <1>4, <1>5, <2>1, WaitStates
  <2> QED BY <1>5, <1>6, <2>1, <2>2
<1>8. \A x \in Servers : Has(s, x)' = IF x = p THEN r ELSE Has(s, x)
  <2>1. \A x \in Servers : read'[s][x] = IF x = p THEN r ELSE read[s][x]
    BY <1>1, <1>2 DEF TypeOK, r
  <2> QED BY <1>2, <2>1 DEF Has
<1>9. SentInv(s)' /\ VectorInv(s)' /\ InputInv(s)' /\ LifeInv(s)'
  BY <1>1, <1>2 DEF ServerInv, SentInv, VectorInv, InputInv, LifeInv, inputVars
<1>10. ReadInv(s)'
  <2>1. \A x \in Servers : read'[s][x] = IF x = p THEN r ELSE read[s][x]
    BY <1>1, <1>2 DEF TypeOK, r
  <2>2. r <= Len(sent[p])
    BY <1>4
  <2> QED BY <1>1, <1>2, <2>1, <2>2 DEF ServerInv, ReadInv
<1>11. StatusInv(s)'
  <2> SUFFICES ASSUME NEW q \in Rounds
               PROVE  /\ \A x \in Servers : x \in msg_reception_status'[s][q] <=> q <= Has(s, x)'
                      /\ stm_state[s] > WaitState[q] => \A x \in Servers : q <= Has(s, x)'
    BY <1>1, <1>2 DEF StatusInv, ServerInv
  <2>1. msg_reception_status'[s][q] = IF q = r THEN msg_reception_status[s][q] \cup {p}
                                               ELSE msg_reception_status[s][q]
    <3>1. msg_reception_status \in [Servers -> [Rounds -> SUBSET Servers]]
      BY <1>1 DEF TypeOK
    <3> QED BY <1>4, <1>7, <3>1
  <2>2. ASSUME NEW x \in Servers
        PROVE  /\ x \in msg_reception_status'[s][q] <=> q <= Has(s, x)'
               /\ stm_state[s] > WaitState[q] => q <= Has(s, x)'
    <3>1. q \in Nat /\ r \in Nat
      BY <1>4 DEF Rounds
    <3>2. /\ x \in msg_reception_status[s][q] <=> q <= Has(s, x)
          /\ stm_state[s] > WaitState[q] => q <= Has(s, x)
      BY <1>1 DEF ServerInv, StatusInv
    <3>3. CASE x = p
      <4>1. Has(s, x) = r - 1 /\ Has(s, x)' = r
        BY <1>6, <1>8, <3>3
      <4>2. q <= r <=> (q = r \/ q <= r - 1)
        BY <3>1
      <4> QED BY <2>1, <3>2, <3>3, <4>1, <4>2
    <3>4. CASE x # p
      BY <1>8, <2>1, <3>2, <3>4
    <3> QED BY <3>3, <3>4
  <2> QED BY <2>2
<1>12. BufferInv(s)'
  <2> SUFFICES ASSUME NEW x \in Servers
               PROVE  BufferInv(s)!(x)'
    BY DEF BufferInv
  <2>1. BufferInv(s)!(x)
    BY <1>1 DEF ServerInv, BufferInv
  <2>2. /\ rec_exp_shares1'[s][x] = IF x = p /\ (r = 1 \/ r = 3) THEN BodyOf(r)
                                    ELSE rec_exp_shares1[s][x]
        /\ ret_open_exp_shares1'[s][x] = IF x = p /\ r = 2 THEN BodyOf(r)
                                         ELSE ret_open_exp_shares1[s][x]
        /\ ret_open_exp_shares2'[s][x] = IF x = p /\ r = 4 THEN BodyOf(r)
                                         ELSE ret_open_exp_shares2[s][x]
    <3>1. /\ rec_exp_shares1 \in [Servers -> [Servers -> Share]]
          /\ ret_open_exp_shares1 \in [Servers -> [Servers -> Share]]
          /\ ret_open_exp_shares2 \in [Servers -> [Servers -> Share]]
      BY <1>1 DEF TypeOK
    <3>2. rec_exp_shares1'[s][x] = IF x = p /\ (r = 1 \/ r = 3) THEN BodyOf(r)
                                   ELSE rec_exp_shares1[s][x]
      BY <1>7, <3>1 DEF StoreShare
    <3>3. ret_open_exp_shares1'[s][x] = IF x = p /\ r = 2 THEN BodyOf(r)
                                        ELSE ret_open_exp_shares1[s][x]
      BY <1>7, <3>1 DEF StoreShare
    <3>4. ret_open_exp_shares2'[s][x] = IF x = p /\ r = 4 THEN BodyOf(r)
                                        ELSE ret_open_exp_shares2[s][x]
      BY <1>7, <3>1 DEF StoreShare
    <3> QED BY <3>2, <3>3, <3>4
  <2>3. CASE x # p
    BY <1>2, <1>8, <2>1, <2>2, <2>3
  <2>4. CASE x = p
    <3>1. Has(s, p)' = r /\ Has(s, p) = r - 1 /\ stm_state'[s] = stm_state[s]
      BY <1>2, <1>6, <1>8
    \* Of a round whose buffer is gone no message comes.
    <3>2. ~ (stm_state[s] > WaitState[r])
      <4>1. ~ (r <= Has(s, p))
        BY <1>4, <1>6
      <4> QED BY <1>1, <1>4, <4>1 DEF ServerInv, StatusInv
    <3>3. (r = 2 => stm_state[s] <= 6) /\ (r = 4 => stm_state[s] <= 13)
      <4>1. (r = 2 => WaitState[r] = 6) /\ (r = 4 => WaitState[r] = 13)
        BY WaitStates
      <4>2. stm_state[s] \in Nat
        BY <1>1, NumberTypes
      <4> QED BY <3>2, <4>1, <4>2
    <3>4. r = 1 \/ r = 2 \/ r = 3 \/ r = 4
      BY <1>4, WaitStates
    <3>5. BodyOf(1) = Predicates /\ BodyOf(2) = Predicates /\ BodyOf(3) = Mix /\ BodyOf(4) = Mix
      BY DEF BodyOf
    <3> QED BY <1>3, <2>1, <2>2, <2>4, <3>1, <3>2, <3>3, <3>4, <3>5
  <2> QED BY <2>3, <2>4
<1>13. StopInv(s)'
  <2>1. \A n \in Nat : Behind(s, n) => Behind(s, n + 1)'
    BY <1>1, <1>2, BehindStep
  <2>2. /\ Behind(s, 1) => Behind(s, 2)'
        /\ Behind(s, 2) => Behind(s, 3)'
        /\ Behind(s, 3) => Behind(s, 4)'
    <3>1. 1 + 1 = 2 /\ 2 + 1 = 3 /\ 3 + 1 = 4 /\ 1 \in Nat /\ 2 \in Nat /\ 3 \in Nat
      OBVIOUS
    <3>2. Behind(s, 1) => Behind(s, 1 + 1)'
      BY <2>1, <3>1
    <3>3. Behind(s, 2) => Behind(s, 2 + 1)'
      BY <2>1, <3>1
    <3>4. Behind(s, 3) => Behind(s, 3 + 1)'
      BY <2>1, <3>1
    <3> QED BY <3>1, <3>2, <3>3, <3>4
  \* A server stopped with round 1 complete has a third server's round 2 to come.
  <2>3. (\A x \in Servers : x # s => read[s][x] <= 1) => Behind(s, 2)'
    <3>1. PICK x \in Servers : x # s /\ x # p
      BY ServersAssumption
    <3>2. read'[s][x] = read[s][x] /\ read[s][x] \in Nat
      BY <1>1, <1>2, <3>1, NumberTypes DEF TypeOK
    <3>3. read[s][x] <= 1 => read'[s][x] < 2
      BY <3>2
    <3> QED BY <3>1, <3>3 DEF Behind
  <2>4. stm_state'[s] = stm_state[s] /\ s \in flag' /\ s \notin flag /\ s \in stms
    BY <1>2
  <2>5. stm_state[s] \in {0, 4, 6, 11, 13}
    BY <1>1, <1>2, WaitStates DEF ServerInv, StopInv
  <2>6. /\ stm_state[s] = 4 => Behind(s, 2)'
        /\ stm_state[s] = 6 => Behind(s, 3)'
        /\ stm_state[s] = 11 => Behind(s, 4)'
    BY <1>1, <2>2, <2>3, <2>4 DEF ServerInv, StopInv
  <2> QED BY <2>4, <2>5, <2>6 DEF StopInv
<1>14. ASSUME NEW x \in Servers, x # s PROVE ServerInv(x)'
  <2>1. /\ msg_reception_status'[x] = msg_reception_status[x]
        /\ rec_exp_shares1'[x] = rec_exp_shares1[x]
        /\ ret_open_exp_shares1'[x] = ret_open_exp_shares1[x]
        /\ ret_open_exp_shares2'[x] = ret_open_exp_shares2[x]
    BY <1>1, <1>7, <1>14 DEF TypeOK, StoreShare
  <2>2. read'[x] = read[x]
    BY <1>1, <1>2, <1>14 DEF TypeOK
  <2>3. SameServer(x)
    BY <1>2, <1>14, <2>1, <2>2 DEF SameServer, inputVars
  <2> QED BY <1>1, <1>2, <1>3, <2>3, Untouched, NumberTypes DEF IInv
<1> QED
  BY <1>1, <1>9, <1>10, <1>11, <1>12, <1>13, <1>14 DEF IInv, ServerInv
-----------------------------------------------------------------------------
\* A case of execute_rm_stm that sends nothing and passes no wait.
LEMMA QuietStep ==
    ASSUME IInv, NEW s \in Servers, NEW q \in MixState, stm_state'[s] = q,
           sent' = sent, read' = read, cleared' = cleared,
           msg_reception_status' = msg_reception_status,
           SentIn(q) = SentIn(stm_state[s]),
           \A r \in Rounds : q > WaitState[r] <=> stm_state[s] > WaitState[r]
    PROVE  /\ \A p \in Servers : Has(s, p)' = Has(s, p)
           /\ SentInv(s)' /\ ReadInv(s)' /\ StatusInv(s)'
<1>1. ServerInv(s)
  BY DEF IInv
<1>2. \A p \in Servers : Has(s, p)' = Has(s, p)
  BY DEF Has
<1>3. SentInv(s)' /\ ReadInv(s)'
  BY <1>1 DEF ServerInv, SentInv, ReadInv
<1>4. StatusInv(s)'
  BY <1>1, <1>2 DEF ServerInv, StatusInv
<1> QED BY <1>2, <1>3, <1>4

\* The two states of such a step lie between the same waits.
LEMMA QuietStates ==
    /\ SentIn(2) = SentIn(0) /\ \A r \in Rounds : 2 > WaitState[r] <=> 0 > WaitState[r]
    /\ SentIn(3) = SentIn(2) /\ \A r \in Rounds : 3 > WaitState[r] <=> 2 > WaitState[r]
    /\ SentIn(8) = SentIn(7) /\ \A r \in Rounds : 8 > WaitState[r] <=> 7 > WaitState[r]
    /\ SentIn(9) = SentIn(8) /\ \A r \in Rounds : 9 > WaitState[r] <=> 8 > WaitState[r]
    /\ SentIn(10) = SentIn(9) /\ \A r \in Rounds : 10 > WaitState[r] <=> 9 > WaitState[r]
    /\ SentIn(15) = SentIn(14) /\ \A r \in Rounds : 15 > WaitState[r] <=> 14 > WaitState[r]
BY WaitStates DEF SentIn

LEMMA WaitForInputsIInv ==
    ASSUME IInv, NEW s \in Servers, WaitForInputs(s)
    PROVE  IInv'
<1>1. TypeOK /\ TypeOK' /\ ServerInv(s)
  BY LocalStepsType DEF IInv
<1>2. /\ s \in flag /\ stm_state[s] = 0
      /\ sent' = sent /\ read' = read /\ stms' = stms /\ erased' = erased
      /\ submitted' = submitted /\ responses' = responses
      /\ completion_status' = completion_status
      /\ client_input' = client_input /\ inputs_read' = inputs_read
      /\ rm_client_connections' = rm_client_connections
      /\ corrupted_clients' = corrupted_clients /\ output' = output
      /\ UNCHANGED statusVars /\ UNCHANGED bufferVars /\ UNCHANGED vectorVars
  BY DEF WaitForInputs, InState, clientVars, mainVars
<1>3. s \in stms /\ s \notin erased
      /\ client_msg_counter[s] = inputs_read[s] /\ inputs_read[s] \in 0 .. N
      /\ client_input[s] = {i \in Inputs : i < inputs_read[s]}
      /\ (rm_client_connections[s] <=> inputs_read[s] > 0)
      /\ inputs_read[s] <= submitted
  BY <1>1, <1>2, NumberTypes DEF ServerInv, LifeInv, InputInv
<1>4. CASE client_msg_counter[s] = N
  <2>1. /\ stm_state' = [stm_state EXCEPT ![s] = 2] /\ flag' = flag
        /\ client_msg_counter' = [client_msg_counter EXCEPT ![s] = 0]
    BY <1>4 DEF WaitForInputs, Goto, Continue
  <2>2. stm_state'[s] = 2 /\ 2 \in MixState /\ 0 \in MixState
    BY <1>1, <2>1 DEF TypeOK, MixState
  <2>3. /\ \A p \in Servers : Has(s, p)' = Has(s, p)
        /\ SentInv(s)' /\ ReadInv(s)' /\ StatusInv(s)'
    <3>1. /\ SentIn(2) = SentIn(stm_state[s])
          /\ \A r \in Rounds : 2 > WaitState[r] <=> stm_state[s] > WaitState[r]
      BY <1>2, <2>2, QuietStates
    <3>2. cleared' = cleared /\ msg_reception_status' = msg_reception_status
      BY <1>2 DEF statusVars
    <3> QED BY <1>2, <2>2, <3>1, <3>2, QuietStep
  <2>4. BufferInv(s)' /\ VectorInv(s)' /\ LifeInv(s)'
    BY <1>1, <1>2, <1>3, <2>1, <2>2, <2>3 DEF ServerInv, BufferInv, VectorInv, LifeInv,
       bufferVars, vectorVars
  <2>5. InputInv(s)'
    <3>1. client_input[s] = Inputs /\ rm_client_connections[s] /\ inputs_read[s] = N
      BY <1>3, <1>4, InputsAssumption DEF Inputs
    <3> QED BY <1>2, <1>3, <2>2, <3>1 DEF InputInv
  <2>6. StopInv(s)'
    BY <1>2, <2>1, <2>2 DEF StopInv
  <2>7. ASSUME NEW x \in Servers, x # s PROVE SameServer(x)
    BY <1>1, <1>2, <2>1, <2>7 DEF SameServer, TypeOK, statusVars, bufferVars, vectorVars
  <2> QED
    BY <1>1, <1>2, <2>3, <2>4, <2>5, <2>6, <2>7, Untouched, NumberTypes DEF IInv, ServerInv
<1>5. CASE client_msg_counter[s] # N
  <2>1. /\ stm_state' = stm_state /\ flag' = flag \ {s}
        /\ client_msg_counter' = client_msg_counter
    BY <1>5 DEF WaitForInputs, Stop
  <2>2. \A p \in Servers : Has(s, p)' = Has(s, p)
    BY <1>2 DEF Has
  <2>3. SentInv(s)' /\ ReadInv(s)' /\ StatusInv(s)' /\ BufferInv(s)' /\ InputInv(s)'
        /\ VectorInv(s)' /\ LifeInv(s)'
    BY <1>1, <1>2, <2>1, <2>2 DEF ServerInv, SentInv, ReadInv, StatusInv, BufferInv,
       InputInv, VectorInv, LifeInv, statusVars, bufferVars, vectorVars
  <2>4. StopInv(s)'
    <3>1. inputs_read[s] < N
      BY <1>3, <1>5, InputsAssumption
    <3> QED BY <1>2, <2>1, <3>1 DEF StopInv
  <2>5. ASSUME NEW x \in Servers, x # s PROVE SameServer(x)
    BY <1>1, <1>2, <2>1, <2>5 DEF SameServer, TypeOK, statusVars, bufferVars, vectorVars
  <2> QED
    BY <1>1, <1>2, <2>3, <2>4, <2>5, Untouched, NumberTypes DEF IInv, ServerInv
<1> QED BY <1>4, <1>5

LEMMA ComputePredicatesIInv ==
    ASSUME IInv, NEW s \in Servers, ComputeWellformednessPredicates(s)
    PROVE  IInv'
<1>1. TypeOK /\ TypeOK' /\ ServerInv(s)
  BY LocalStepsType DEF IInv
<1>2. /\ s \in flag /\ stm_state[s] = 2 /\ flag' = flag
      /\ stm_state' = [stm_state EXCEPT ![s] = 3]
      /\ preds' = [preds EXCEPT ![s] = [vector |-> "preds", of |-> client_input[s] \cap Malformed]]
      /\ sent' = sent /\ read' = read /\ stms' = stms /\ erased' = erased
      /\ submitted' = submitted /\ responses' = responses
      /\ completion_status' = completion_status
      /\ corrupted_clients' = corrupted_clients /\ output' = output
      /\ decompressed' = decompressed /\ shared_sums_of_powers' = shared_sums_of_powers
      /\ cleared' = cleared /\ msg_reception_status' = msg_reception_status
      /\ UNCHANGED inputVars /\ UNCHANGED bufferVars
  BY DEF ComputeWellformednessPredicates, InState, Goto, Continue, clientVars, mainVars,
         statusVars
<1>3. stm_state'[s] = 3 /\ 3 \in MixState /\ 2 \in MixState
  BY <1>1, <1>2 DEF TypeOK, MixState
<1>4. /\ \A p \in Servers : Has(s, p)' = Has(s, p)
      /\ SentInv(s)' /\ ReadInv(s)' /\ StatusInv(s)'
  <2>1. /\ SentIn(3) = SentIn(stm_state[s])
        /\ \A r \in Rounds : 3 > WaitState[r] <=> stm_state[s] > WaitState[r]
    BY <1>2, <1>3, QuietStates
  <2> QED BY <1>2, <1>3, <2>1, QuietStep
<1>5. BufferInv(s)' /\ InputInv(s)' /\ LifeInv(s)'
  BY <1>1, <1>2, <1>3, <1>4 DEF ServerInv, BufferInv, InputInv, LifeInv, bufferVars, inputVars
<1>6. VectorInv(s)'
  <2>1. client_input[s] \cap Malformed = Malformed
    BY <1>1, <1>2, InputsAssumption DEF ServerInv, InputInv
  <2>2. preds'[s] = Predicates
    BY <1>1, <1>2, <2>1 DEF TypeOK, Predicates
  <2> QED BY <1>1, <1>2, <1>3, <2>2 DEF ServerInv, VectorInv
<1>7. StopInv(s)'
  BY <1>2, <1>3 DEF StopInv
<1>8. ASSUME NEW x \in Servers, x # s PROVE SameServer(x)
  BY <1>1, <1>2, <1>8 DEF SameServer, TypeOK, inputVars, bufferVars
<1> QED
  BY <1>1, <1>2, <1>4, <1>5, <1>6, <1>7, <1>8, Untouched, NumberTypes DEF IInv, ServerInv

LEMMA DecompressIInv ==
    ASSUME IInv, NEW s \in Servers, DecompressClientInputs(s)
    PROVE  IInv'
<1>1. TypeOK /\ TypeOK' /\ ServerInv(s)
  BY LocalStepsType DEF IInv
<1>2. /\ s \in flag /\ stm_state[s] = 8 /\ flag' = flag
      /\ stm_state' = [stm_state EXCEPT ![s] = 9]
      /\ decompressed' = [decompressed EXCEPT ![s] = client_input[s] \ corrupted_clients[s]]
      /\ client_input' = [client_input EXCEPT ![s] = {}]
      /\ client_msg_counter' = client_msg_counter /\ inputs_read' = inputs_read
      /\ rm_client_connections' = rm_client_connections
      /\ sent' = sent /\ read' = read /\ stms' = stms /\ erased' = erased
      /\ submitted' = submitted /\ responses' = responses
      /\ completion_status' = completion_status
      /\ corrupted_clients' = corrupted_clients /\ output' = output
      /\ preds' = preds /\ shared_sums_of_powers' = shared_sums_of_powers
      /\ cleared' = cleared /\ msg_reception_status' = msg_reception_status
      /\ UNCHANGED bufferVars
  BY DEF DecompressClientInputs, InState, Goto, Continue, clientVars, mainVars, statusVars
<1>3. stm_state'[s] = 9 /\ 9 \in MixState /\ 8 \in MixState
  BY <1>1, <1>2 DEF TypeOK, MixState
<1>4. /\ \A p \in Servers : Has(s, p)' = Has(s, p)
      /\ SentInv(s)' /\ ReadInv(s)' /\ StatusInv(s)'
  <2>1. /\ SentIn(9) = SentIn(stm_state[s])
        /\ \A r \in Rounds : 9 > WaitState[r] <=> stm_state[s] > WaitState[r]
    BY <1>2, <1>3, QuietStates
  <2> QED BY <1>2, <1>3, <2>1, QuietStep
<1>5. BufferInv(s)' /\ InputInv(s)' /\ LifeInv(s)'
  BY <1>1, <1>2, <1>3, <1>4 DEF ServerInv, BufferInv, InputInv, LifeInv, bufferVars
<1>6. VectorInv(s)'
  <2>1. client_input[s] \ corrupted_clients[s] = GoodInputs
    BY <1>1, <1>2 DEF ServerInv, InputInv, VectorInv, GoodInputs
  <2>2. decompressed'[s] = GoodInputs
    BY <1>1, <1>2, <2>1 DEF TypeOK
  <2>3. corrupted_clients'[s] = Malformed \cup Blamed /\ output'[s] = NoShare
    BY <1>1, <1>2 DEF ServerInv, VectorInv
  <2> QED BY <1>3, <2>2, <2>3 DEF VectorInv
<1>7. StopInv(s)'
  BY <1>1, <1>2, <1>3 DEF ServerInv, StopInv, Behind
<1>8. ASSUME NEW x \in Servers, x # s PROVE SameServer(x)
  BY <1>1, <1>2, <1>8 DEF SameServer, TypeOK, bufferVars
<1> QED
  BY <1>1, <1>2, <1>4, <1>5, <1>6, <1>7, <1>8, Untouched, NumberTypes DEF IInv, ServerInv

LEMMA SumOfPowersIInv ==
    ASSUME IInv, NEW s \in Servers, ComputeSumOfPowers(s)
    PROVE  IInv'
<1>1. TypeOK /\ TypeOK' /\ ServerInv(s)
  BY LocalStepsType DEF IInv
<1>2. /\ s \in flag /\ stm_state[s] = 9 /\ flag' = flag
      /\ stm_state' = [stm_state EXCEPT ![s] = 10]
      /\ shared_sums_of_powers' = [shared_sums_of_powers EXCEPT ![s] =
                                      [vector |-> "sums", of |-> decompressed[s]]]
      /\ sent' = sent /\ read' = read /\ stms' = stms /\ erased' = erased
      /\ submitted' = submitted /\ responses' = responses
      /\ completion_status' = completion_status
      /\ corrupted_clients' = corrupted_clients /\ output' = output
      /\ decompressed' = decompressed /\ preds' = preds
      /\ cleared' = cleared /\ msg_reception_status' = msg_reception_status
      /\ UNCHANGED inputVars /\ UNCHANGED bufferVars
  BY DEF ComputeSumOfPowers, InState, Goto, Continue, clientVars, mainVars, statusVars
<1>3. stm_state'[s] = 10 /\ 10 \in MixState
  BY <1>1, <1>2 DEF TypeOK, MixState
<1>4. /\ \A p \in Servers : Has(s, p)' = Has(s, p)
      /\ SentInv(s)' /\ ReadInv(s)' /\ StatusInv(s)'
  <2>1. /\ SentIn(10) = SentIn(stm_state[s])
        /\ \A r \in Rounds : 10 > WaitState[r] <=> stm_state[s] > WaitState[r]
    BY <1>2, <1>3, QuietStates
  <2> QED BY <1>2, <1>3, <2>1, QuietStep
<1>5. BufferInv(s)' /\ InputInv(s)' /\ LifeInv(s)'
  BY <1>1, <1>2, <1>3, <1>4 DEF ServerInv, BufferInv, InputInv, LifeInv, bufferVars, inputVars
<1>6. VectorInv(s)'
  <2>1. shared_sums_of_powers'[s] = Mix
    BY <1>1, <1>2 DEF ServerInv, VectorInv, TypeOK, Mix
  <2>2. corrupted_clients'[s] = Malformed \cup Blamed /\ output'[s] = NoShare
    BY <1>1, <1>2 DEF ServerInv, VectorInv
  <2> QED BY <1>3, <2>1, <2>2 DEF VectorInv
<1>7. StopInv(s)'
  BY <1>1, <1>2, <1>3 DEF ServerInv, StopInv, Behind
<1>8. ASSUME NEW x \in Servers, x # s PROVE SameServer(x)
  BY <1>1, <1>2, <1>8 DEF SameServer, TypeOK, inputVars, bufferVars
<1> QED
  BY <1>1, <1>2, <1>4, <1>5, <1>6, <1>7, <1>8, Untouched, NumberTypes DEF IInv, ServerInv

\* Shares of one value open to it.
LEMMA Unanimous ==
    ASSUME NEW shares, NEW v, NEW s \in Servers, \A p \in Servers : shares[p] = v
    PROVE  Decodings(shares) = {v}
<1>1. {shares[p] : p \in Servers} = {v}
  OBVIOUS
<1> QED BY <1>1 DEF Decodings

\* What is about to be opened is complete: the state is past the wait.
LEMMA CompleteRounds ==
    ASSUME IInv, NEW s \in Servers
    PROVE  \A p \in Servers :
              /\ stm_state[s] > 4 => Has(s, p) >= 1
              /\ stm_state[s] > 6 => Has(s, p) >= 2
              /\ stm_state[s] > 11 => Has(s, p) >= 3
              /\ stm_state[s] > 13 => Has(s, p) >= 4
<1> SUFFICES ASSUME NEW p \in Servers
             PROVE  /\ stm_state[s] > 4 => Has(s, p) >= 1
                    /\ stm_state[s] > 6 => Has(s, p) >= 2
                    /\ stm_state[s] > 11 => Has(s, p) >= 3
                    /\ stm_state[s] > 13 => Has(s, p) >= 4
  OBVIOUS
<1>1. \A r \in Rounds : stm_state[s] > WaitState[r] => r <= Has(s, p)
  BY DEF IInv, ServerInv, StatusInv
<1>2. Has(s, p) \in Nat
  BY NumberTypes DEF IInv
<1> QED BY <1>1, <1>2, WaitStates

LEMMA OpenCheckIInv ==
    ASSUME IInv, NEW s \in Servers, OpenCheckWf(s)
    PROVE  IInv'
<1>1. TypeOK /\ TypeOK' /\ ServerInv(s)
  BY OpeningStepsType DEF IInv
<1>2. /\ s \in flag /\ stm_state[s] = 7 /\ flag' = flag
      /\ stm_state' = [stm_state EXCEPT ![s] = 8]
      /\ ret_open_exp_shares1' = [ret_open_exp_shares1 EXCEPT ![s] = EmptyBuffer]
      /\ rec_exp_shares1' = rec_exp_shares1 /\ ret_open_exp_shares2' = ret_open_exp_shares2
      /\ sent' = sent /\ read' = read /\ stms' = stms /\ erased' = erased
      /\ submitted' = submitted /\ responses' = responses
      /\ completion_status' = completion_status /\ output' = output
      /\ cleared' = cleared /\ msg_reception_status' = msg_reception_status
      /\ UNCHANGED inputVars /\ UNCHANGED vectorVars
  BY DEF OpenCheckWf, InState, Goto, Continue, clientVars, statusVars
<1>3. stm_state'[s] = 8 /\ 8 \in MixState
  BY <1>1, <1>2 DEF TypeOK, MixState
<1>4. /\ \A p \in Servers : Has(s, p)' = Has(s, p)
      /\ SentInv(s)' /\ ReadInv(s)' /\ StatusInv(s)'
  <2>1. /\ SentIn(8) = SentIn(stm_state[s])
        /\ \A r \in Rounds : 8 > WaitState[r] <=> stm_state[s] > WaitState[r]
    BY <1>2, <1>3, QuietStates
  <2> QED BY <1>2, <1>3, <2>1, QuietStep
<1>5. \A p \in Servers : ret_open_exp_shares1[s][p] = Predicates
  <2> SUFFICES ASSUME NEW p \in Servers PROVE ret_open_exp_shares1[s][p] = Predicates
    OBVIOUS
  <2>1. Has(s, p) >= 2
    BY <1>2, CompleteRounds
  <2> QED BY <1>1, <1>2, <2>1 DEF ServerInv, BufferInv
<1>6. corrupted_clients' = [corrupted_clients EXCEPT ![s] = @ \cup Malformed]
  <2>1. Decodings(ret_open_exp_shares1[s]) = {Predicates}
    BY <1>5, Unanimous
  <2>2. PICK v \in Decodings(ret_open_exp_shares1[s]), nonzero \in SUBSET Inputs :
          /\ v.vector = "preds" => nonzero = v.of
          /\ corrupted_clients' = [corrupted_clients EXCEPT ![s] = @ \cup nonzero]
    BY DEF OpenCheckWf
  <2>3. v = Predicates
    BY <2>1
  <2>4. nonzero = Malformed
    BY <2>2, <2>3 DEF Predicates
  <2> QED BY <2>2, <2>4
<1>7. BufferInv(s)'
  <2>1. \A p \in Servers : ret_open_exp_shares1'[s][p] = NoShare
    BY <1>1, <1>2 DEF TypeOK, EmptyBuffer
  <2> QED BY <1>1, <1>2, <1>3, <1>4, <2>1 DEF ServerInv, BufferInv
<1>8. InputInv(s)' /\ LifeInv(s)'
  BY <1>1, <1>2, <1>3 DEF ServerInv, InputInv, LifeInv, inputVars
<1>9. VectorInv(s)'
  <2>1. corrupted_clients'[s] = Malformed \cup Blamed /\ output'[s] = NoShare
    BY <1>1, <1>2, <1>6 DEF ServerInv, VectorInv, TypeOK
  <2> QED BY <1>3, <2>1 DEF VectorInv
<1>10. StopInv(s)'
  BY <1>1, <1>2, <1>3 DEF ServerInv, StopInv, Behind
<1>11. ASSUME NEW x \in Servers, x # s PROVE SameServer(x)
  BY <1>1, <1>2, <1>6, <1>11 DEF SameServer, TypeOK, inputVars, vectorVars
<1> QED
  BY <1>1, <1>2, <1>4, <1>7, <1>8, <1>9, <1>10, <1>11, Untouched, NumberTypes
     DEF IInv, ServerInv

LEMMA NewtonIInv ==
    ASSUME IInv, NEW s \in Servers, NewtonAndFindRoots(s)
    PROVE  IInv'
<1>1. TypeOK /\ TypeOK' /\ ServerInv(s)
  BY OpeningStepsType DEF IInv
<1>2. /\ s \in flag /\ stm_state[s] = 14 /\ flag' = flag \ {s}
      /\ stm_state' = [stm_state EXCEPT ![s] = 15]
      /\ ret_open_exp_shares2' = [ret_open_exp_shares2 EXCEPT ![s] = EmptyBuffer]
      /\ rec_exp_shares1' = rec_exp_shares1 /\ ret_open_exp_shares1' = ret_open_exp_shares1
      /\ sent' = sent /\ read' = read /\ stms' = stms /\ erased' = erased
      /\ submitted' = submitted /\ corrupted_clients' = corrupted_clients
      /\ responses' \subseteq responses \cup {s} /\ completion_status' = completion_status
      /\ cleared' = cleared /\ msg_reception_status' = msg_reception_status
      /\ UNCHANGED inputVars /\ UNCHANGED vectorVars
  BY DEF NewtonAndFindRoots, InState, Goto, Stop, statusVars
<1>3. stm_state'[s] = 15 /\ 15 \in MixState
  BY <1>1, <1>2 DEF TypeOK, MixState
<1>4. /\ \A p \in Servers : Has(s, p)' = Has(s, p)
      /\ SentInv(s)' /\ ReadInv(s)' /\ StatusInv(s)'
  <2>1. /\ SentIn(15) = SentIn(stm_state[s])
        /\ \A r \in Rounds : 15 > WaitState[r] <=> stm_state[s] > WaitState[r]
    BY <1>2, <1>3, QuietStates
  <2> QED BY <1>2, <1>3, <2>1, QuietStep
<1>5. \A p \in Servers : ret_open_exp_shares2[s][p] = Mix
  <2> SUFFICES ASSUME NEW p \in Servers PROVE ret_open_exp_shares2[s][p] = Mix
    OBVIOUS
  <2>1. Has(s, p) >= 4
    BY <1>2, CompleteRounds
  <2> QED BY <1>1, <1>2, <2>1 DEF ServerInv, BufferInv
<1>6. output' = [output EXCEPT ![s] = Mix]
  <2>1. Decodings(ret_open_exp_shares2[s]) = {Mix}
    BY <1>5, Unanimous
  <2> QED BY <2>1 DEF NewtonAndFindRoots
<1>7. BufferInv(s)'
  <2>1. \A p \in Servers : ret_open_exp_shares2'[s][p] = NoShare
    BY <1>1, <1>2 DEF TypeOK, EmptyBuffer
  <2> QED BY <1>1, <1>2, <1>3, <1>4, <2>1 DEF ServerInv, BufferInv
<1>8. InputInv(s)' /\ LifeInv(s)'
  BY <1>1, <1>2, <1>3 DEF ServerInv, InputInv, LifeInv, inputVars
<1>9. VectorInv(s)'
  <2>1. corrupted_clients'[s] = Malformed \cup Blamed /\ output'[s] = Mix
    BY <1>1, <1>2, <1>6 DEF ServerInv, VectorInv, TypeOK
  <2> QED BY <1>3, <2>1 DEF VectorInv
<1>10. StopInv(s)'
  BY <1>2, <1>3 DEF StopInv
<1>11. ASSUME NEW x \in Servers, x # s PROVE SameServer(x)
  BY <1>1, <1>2, <1>6, <1>11 DEF SameServer, TypeOK, inputVars, vectorVars
<1> QED
  BY <1>1, <1>2, <1>4, <1>7, <1>8, <1>9, <1>10, <1>11, Untouched, NumberTypes
     DEF IInv, ServerInv

LEMMA FinishSessionIInv ==
    ASSUME IInv, NEW s \in Servers, FinishSession(s)
    PROVE  IInv'
<1>1. TypeOK /\ TypeOK' /\ ServerInv(s)
  BY LocalStepsType DEF IInv
<1>2. /\ s \in stms /\ s \notin flag /\ stm_state[s] = 15
      /\ stms' = stms \ {s} /\ erased' = erased \cup {s}
      /\ stm_state' = stm_state /\ flag' = flag /\ sent' = sent /\ read' = read
      /\ submitted' = submitted /\ corrupted_clients' = corrupted_clients
      /\ responses' = responses /\ completion_status' = completion_status
      /\ output' = output
      /\ UNCHANGED inputVars /\ UNCHANGED vectorVars /\ UNCHANGED statusVars
      /\ UNCHANGED bufferVars
  BY DEF FinishSession, clientVars
<1>3. \A p \in Servers : Has(s, p)' = Has(s, p)
  BY <1>2 DEF Has
<1>4. SentInv(s)' /\ ReadInv(s)' /\ StatusInv(s)' /\ BufferInv(s)' /\ InputInv(s)'
      /\ VectorInv(s)'
  <2>1. SentInv(s)' /\ ReadInv(s)'
    BY <1>1, <1>2 DEF ServerInv, SentInv, ReadInv
  <2>2. StatusInv(s)'
    BY <1>1, <1>2, <1>3 DEF ServerInv, StatusInv, statusVars
  <2>3. BufferInv(s)'
    BY <1>1, <1>2, <1>3 DEF ServerInv, BufferInv, bufferVars
  <2>4. InputInv(s)' /\ VectorInv(s)'
    BY <1>1, <1>2 DEF ServerInv, InputInv, VectorInv, inputVars, vectorVars
  <2> QED BY <2>1, <2>2, <2>3, <2>4
<1>5. LifeInv(s)' /\ StopInv(s)'
  BY <1>1, <1>2 DEF ServerInv, LifeInv, StopInv
<1>6. ASSUME NEW x \in Servers, x # s PROVE SameServer(x)
  BY <1>1, <1>2, <1>6 DEF SameServer, TypeOK, inputVars, vectorVars, statusVars, bufferVars
<1> QED
  BY <1>1, <1>2, <1>4, <1>5, <1>6, Untouched, NumberTypes DEF IInv, ServerInv
-----------------------------------------------------------------------------
\* A wait state, the state after it and what was sent before it.
LEMMA AfterWait ==
    /\ \A r \in Rounds : /\ SentIn(WaitState[r]) = r /\ SentIn(WaitState[r] + 1) = r
                         /\ \A q \in Rounds : WaitState[r] + 1 > WaitState[q] <=>
                               WaitState[r] > WaitState[q] \/ q = r
                         /\ ~ (WaitState[r] > WaitState[r])
BY WaitStates DEF SentIn

LEMMA AwaitRoundIInv ==
    ASSUME IInv, NEW s \in Servers, NEW r \in Rounds, NEW b \in BOOLEAN, b <=> r <= 2,
           AwaitRound(s, r, b), TypeOK'
    PROVE  IInv'
<1>1. TypeOK /\ ServerInv(s)
  BY DEF IInv
<1>2. /\ s \in flag /\ stm_state[s] = WaitState[r]
      /\ msg_reception_status' = msg_reception_status
      /\ sent' = sent /\ read' = read /\ stms' = stms /\ erased' = erased
      /\ submitted' = submitted /\ corrupted_clients' = corrupted_clients
      /\ responses' = responses /\ completion_status' = completion_status
      /\ output' = output
      /\ UNCHANGED inputVars /\ UNCHANGED vectorVars /\ UNCHANGED bufferVars
  BY DEF AwaitRound, InState, clientVars, mainVars
<1>3. \A p \in Servers : Has(s, p)' = Has(s, p)
  BY <1>2 DEF Has
<1>4. r \notin cleared[s]
  <2>1. ~ (stm_state[s] > WaitState[r])
    BY <1>2, AfterWait
  <2> QED BY <1>1, <2>1 DEF ServerInv, StatusInv
<1>5. CASE is_all_true(s, r)
  <2>1. /\ cleared' = IF b THEN [cleared EXCEPT ![s] = @ \cup {r}] ELSE cleared
        /\ stm_state' = [stm_state EXCEPT ![s] = WaitState[r] + 1]
        /\ flag' = flag
    BY <1>5 DEF AwaitRound, Goto, Continue
  <2>2. stm_state'[s] = WaitState[r] + 1
    BY <1>1, <2>1 DEF TypeOK
  <2>3. \A p \in Servers : r <= Has(s, p)
    BY <1>1, <1>4, <1>5 DEF is_all_true, ServerInv, StatusInv
  <2>4. cleared'[s] = IF r <= 2 THEN cleared[s] \cup {r} ELSE cleared[s]
    BY <1>1, <2>1 DEF TypeOK
  <2>5. SentInv(s)' /\ ReadInv(s)'
    <3>1. SentIn(stm_state'[s]) = SentIn(stm_state[s])
      BY <1>2, <2>2, AfterWait
    <3> QED BY <1>1, <1>2, <3>1 DEF ServerInv, SentInv, ReadInv
  <2>6. StatusInv(s)'
    <3> SUFFICES ASSUME NEW q \in Rounds PROVE StatusInv(s)!(q)'
      BY DEF StatusInv
    <3>1. StatusInv(s)!(q)
      BY <1>1 DEF ServerInv, StatusInv
    <3>2. stm_state'[s] > WaitState[q] <=> stm_state[s] > WaitState[q] \/ q = r
      BY <1>2, <2>2, AfterWait
    <3> QED BY <1>2, <1>3, <2>3, <2>4, <3>1, <3>2
  <2>7. \/ stm_state[s] = 4 /\ stm_state'[s] = 5
        \/ stm_state[s] = 6 /\ stm_state'[s] = 7
        \/ stm_state[s] = 11 /\ stm_state'[s] = 12
        \/ stm_state[s] = 13 /\ stm_state'[s] = 14
    BY <1>2, <2>2, WaitStates
  <2>8. BufferInv(s)'
    BY <1>1, <1>2, <1>3, <2>7 DEF ServerInv, BufferInv, bufferVars
  <2>9. InputInv(s)' /\ VectorInv(s)'
    BY <1>1, <1>2, <2>7 DEF ServerInv, InputInv, VectorInv, inputVars, vectorVars
  <2>10. LifeInv(s)' /\ StopInv(s)'
    BY <1>1, <1>2, <2>1, <2>7 DEF ServerInv, LifeInv, StopInv, Behind
  <2>11. ASSUME NEW x \in Servers, x # s PROVE SameServer(x)
    BY <1>1, <1>2, <2>1, <2>11 DEF SameServer, TypeOK, inputVars, vectorVars, bufferVars
  <2> QED
    BY <1>1, <1>2, <2>5, <2>6, <2>8, <2>9, <2>10, <2>11, Untouched, NumberTypes
       DEF IInv, ServerInv
<1>6. CASE ~ is_all_true(s, r)
  <2>1. flag' = flag \ {s} /\ cleared' = cleared /\ stm_state' = stm_state
    BY <1>6 DEF AwaitRound, Stop
  <2>2. SentInv(s)' /\ ReadInv(s)' /\ InputInv(s)' /\ VectorInv(s)' /\ LifeInv(s)'
    BY <1>1, <1>2, <2>1 DEF ServerInv, SentInv, ReadInv, InputInv, VectorInv, LifeInv,
       inputVars, vectorVars
  <2>3. StatusInv(s)'
    BY <1>1, <1>2, <1>3, <2>1 DEF ServerInv, StatusInv
  <2>4. BufferInv(s)'
    BY <1>1, <1>2, <1>3, <2>1 DEF ServerInv, BufferInv, bufferVars
  \* The own message of the round is there, so one of a peer is missing.
  <2>5. Behind(s, r)
    <3>1. PICK p \in Servers : p \notin msg_reception_status[s][r]
      BY <1>6 DEF is_all_true
    <3>2. ~ (r <= Has(s, p))
      BY <1>1, <3>1 DEF ServerInv, StatusInv
    <3>3. Len(sent[s]) = r
      BY <1>1, <1>2, AfterWait DEF ServerInv, SentInv
    <3>4. r \in Nat
      BY DEF Rounds
    <3>5. p # s
      BY <3>2, <3>3, <3>4 DEF Has
    <3>6. read[s][p] < r
      BY <1>1, <3>2, <3>4, <3>5, NumberTypes DEF Has
    <3> QED BY <3>5, <3>6 DEF Behind
  <2>6. StopInv(s)'
    <3>1. Behind(s, r)'
      BY <1>2, <2>5 DEF Behind
    <3>2. /\ stm_state[s] = 4 => r = 1
          /\ stm_state[s] = 6 => r = 2
          /\ stm_state[s] = 11 => r = 3
          /\ stm_state[s] = 13 => r = 4
          /\ stm_state[s] \in {4, 6, 11, 13}
      BY <1>2, WaitStates
    <3> QED BY <1>2, <2>1, <3>1, <3>2 DEF StopInv
  <2>7. ASSUME NEW x \in Servers, x # s PROVE SameServer(x)
    BY <1>1, <1>2, <2>1, <2>7 DEF SameServer, TypeOK, inputVars, vectorVars, bufferVars
  <2> QED
    BY <1>1, <1>2, <2>2, <2>3, <2>4, <2>6, <2>7, Untouched, NumberTypes DEF IInv, ServerInv
<1> QED BY <1>5, <1>6
-----------------------------------------------------------------------------
\* The state that sends round r and the one that waits for it.
LEMMA BeforeWait ==
    ASSUME NEW r \in Rounds, NEW n \in Nat, n + 1 = WaitState[r]
    PROVE  /\ SentIn(n) = r - 1 /\ SentIn(WaitState[r]) = r
           /\ \A q \in Rounds : WaitState[r] > WaitState[q] <=> n > WaitState[q]
           /\ r - 1 \in Nat /\ r - 1 + 1 = r /\ r \in Nat
<1>1. \/ r = 1 /\ n = 3
      \/ r = 2 /\ n = 5
      \/ r = 3 /\ n = 10
      \/ r = 4 /\ n = 12
  BY WaitStates
<1>2. SentIn(n) = r - 1 /\ SentIn(WaitState[r]) = r
  BY <1>1, WaitStates DEF SentIn
<1>3. \A q \in Rounds : WaitState[r] > WaitState[q] <=> n > WaitState[q]
  BY <1>1, WaitStates
<1> QED BY <1>1, <1>2, <1>3

\* Sending round r: the own message of the round is now there.
LEMMA SendStep ==
    ASSUME IInv, NEW s \in Servers, NEW r \in Rounds,
           stm_state[s] + 1 = WaitState[r], stm_state'[s] = WaitState[r],
           SendRound(s, r, BodyOf(r)), read' = read, cleared' = cleared
    PROVE  /\ Has(s, s) = r - 1 /\ Has(s, s)' = r
           /\ \A p \in Servers : p # s => Has(s, p)' = Has(s, p)
           /\ SentInv(s)' /\ ReadInv(s)' /\ StatusInv(s)'
           /\ \A p \in Servers : Len(sent[p]) <= Len(sent'[p]) /\ Len(sent'[p]) \in Nat
           /\ \A x \in Servers : x # s => /\ sent'[x] = sent[x]
                                          /\ msg_reception_status'[x] = msg_reception_status[x]
<1>1. TypeOK /\ ServerInv(s) /\ stm_state[s] \in Nat
  BY NumberTypes DEF IInv
<1>2. sent \in [Servers -> Seq(Message)]
      /\ msg_reception_status \in [Servers -> [Rounds -> SUBSET Servers]]
  BY <1>1 DEF TypeOK
<1> DEFINE m == [mixing_state_id |-> WaitState[r], body |-> BodyOf(r)]
<1>3. /\ sent' = [sent EXCEPT ![s] = Append(@, m)]
      /\ msg_reception_status' = [msg_reception_status EXCEPT ![s][r] = @ \cup {s}]
  BY DEF SendRound
<1> HIDE DEF m
<1>4. Len(sent[s]) = r - 1 /\ SentIn(stm_state'[s]) = r
      /\ r - 1 \in Nat /\ r - 1 + 1 = r /\ r \in Nat
  BY <1>1, BeforeWait DEF ServerInv, SentInv
<1>5. sent'[s] = Append(sent[s], m) /\ \A x \in Servers : x # s => sent'[x] = sent[x]
  BY <1>2, <1>3
<1>6. m \in Message
  BY InputsAssumption, ShareTypes DEF m, Message, BodyOf, Predicates, Mix, GoodInputs
<1>7. /\ Len(sent'[s]) = r
      /\ sent'[s][r] = m
      /\ \A i \in 1 .. r - 1 : sent'[s][i] = sent[s][i]
  <2>1. sent[s] \in Seq(Message)
    BY <1>2
  <2> QED BY <1>4, <1>5, <1>6, <2>1
<1>8. Has(s, s) = r - 1 /\ Has(s, s)' = r
  BY <1>4, <1>7 DEF Has
<1>9. \A p \in Servers : p # s => Has(s, p)' = Has(s, p)
  BY DEF Has
<1>10. SentInv(s)'
  <2> SUFFICES ASSUME NEW i \in 1 .. r
               PROVE  sent'[s][i] = [mixing_state_id |-> WaitState[i], body |-> BodyOf(i)]
    BY <1>4, <1>7 DEF SentInv
  <2>1. CASE i = r
    BY <1>7, <2>1 DEF m
  <2>2. CASE i # r
    <3>1. i \in 1 .. r - 1
      BY <1>4, <2>2
    <3>2. sent[s][i] = [mixing_state_id |-> WaitState[i], body |-> BodyOf(i)]
      BY <1>1, <1>4, <3>1 DEF ServerInv, SentInv
    <3> QED BY <1>7, <3>1, <3>2
  <2> QED BY <2>1, <2>2
<1>11. \A p \in Servers : Len(sent[p]) <= Len(sent'[p]) /\ Len(sent'[p]) \in Nat
  <2> SUFFICES ASSUME NEW p \in Servers
               PROVE  Len(sent[p]) <= Len(sent'[p]) /\ Len(sent'[p]) \in Nat
    OBVIOUS
  <2>1. Len(sent[p]) \in Nat
    BY <1>1, NumberTypes
  <2> QED BY <1>4, <1>5, <1>7, <2>1
<1>12. ReadInv(s)'
  <2> SUFFICES ASSUME NEW p \in Servers PROVE read[s][p] <= Len(sent'[p])
    BY DEF ReadInv
  <2>1. read[s][p] \in Nat /\ Len(sent[p]) \in Nat /\ read[s][p] <= Len(sent[p])
    BY <1>1, NumberTypes DEF ServerInv, ReadInv
  <2> QED BY <1>11, <2>1
<1>13. \A x \in Servers : x # s => msg_reception_status'[x] = msg_reception_status[x]
  BY <1>2, <1>3
<1>14. StatusInv(s)'
  <2> SUFFICES ASSUME NEW q \in Rounds PROVE StatusInv(s)!(q)'
    BY DEF StatusInv
  <2>1. StatusInv(s)!(q)
    BY <1>1 DEF ServerInv, StatusInv
  <2>2. stm_state'[s] > WaitState[q] <=> stm_state[s] > WaitState[q]
    BY <1>1, BeforeWait
  <2>3. msg_reception_status'[s][q] = IF q = r THEN msg_reception_status[s][q] \cup {s}
                                               ELSE msg_reception_status[s][q]
    BY <1>2, <1>3
  <2>4. q \in Nat
    BY DEF Rounds
  <2>5. ASSUME NEW p \in Servers
        PROVE  /\ p \in msg_reception_status'[s][q] <=> q <= Has(s, p)'
               /\ q <= Has(s, p) => q <= Has(s, p)'
    <3>1. CASE p = s
      BY <1>4, <1>8, <2>1, <2>3, <2>4, <3>1
    <3>2. CASE p # s
      BY <1>9, <2>1, <2>3, <3>2
    <3> QED BY <3>1, <3>2
  <2> QED BY <2>1, <2>2, <2>5
<1> QED
  BY <1>5, <1>8, <1>9, <1>10, <1>11, <1>12, <1>13, <1>14

LEMMA BatchedOpenWf1IInv ==
    ASSUME IInv, NEW s \in Servers, BatchedOpenWf1(s)
    PROVE  IInv'
<1>1. TypeOK /\ TypeOK' /\ ServerInv(s)
  BY SendingStepsType DEF IInv
<1>2. /\ s \in flag /\ stm_state[s] = 3 /\ flag' = flag \ {s}
      /\ stm_state' = [stm_state EXCEPT ![s] = 4]
      /\ rec_exp_shares1' = [rec_exp_shares1 EXCEPT ![s][s] = preds[s]]
      /\ ret_open_exp_shares1' = ret_open_exp_shares1
      /\ ret_open_exp_shares2' = ret_open_exp_shares2
      /\ SendRound(s, 1, preds[s])
      /\ preds' = [preds EXCEPT ![s] = NoShare]
      /\ cleared' = cleared /\ read' = read /\ stms' = stms /\ erased' = erased
      /\ submitted' = submitted /\ responses' = responses
      /\ completion_status' = completion_status /\ output' = output
      /\ corrupted_clients' = corrupted_clients
      /\ shared_sums_of_powers' = shared_sums_of_powers /\ decompressed' = decompressed
      /\ UNCHANGED inputVars
  BY DEF BatchedOpenWf1, batched_open_expand_send, InState, Goto, Stop, clientVars, mainVars
<1>3. stm_state'[s] = 4
  BY <1>1, <1>2 DEF TypeOK
<1>4. preds[s] = BodyOf(1)
  BY <1>1, <1>2 DEF ServerInv, VectorInv, BodyOf
<1>5. /\ Has(s, s) = 0 /\ Has(s, s)' = 1
      /\ \A p \in Servers : p # s => Has(s, p)' = Has(s, p)
      /\ SentInv(s)' /\ ReadInv(s)' /\ StatusInv(s)'
      /\ \A p \in Servers : Len(sent[p]) <= Len(sent'[p]) /\ Len(sent'[p]) \in Nat
      /\ \A x \in Servers : x # s => /\ sent'[x] = sent[x]
                                     /\ msg_reception_status'[x] = msg_reception_status[x]
  <2>1. stm_state[s] + 1 = WaitState[1] /\ stm_state'[s] = WaitState[1]
        /\ 1 \in Rounds /\ SendRound(s, 1, BodyOf(1))
    BY <1>2, <1>3, <1>4, WaitStates
  <2> QED BY <1>2, <2>1, SendStep
<1>6. BufferInv(s)'
  <2> SUFFICES ASSUME NEW p \in Servers PROVE BufferInv(s)!(p)'
    BY DEF BufferInv
  <2>1. BufferInv(s)!(p)
    BY <1>1 DEF ServerInv, BufferInv
  <2>2. rec_exp_shares1'[s][p] = IF p = s THEN Predicates ELSE rec_exp_shares1[s][p]
    <3>1. rec_exp_shares1 \in [Servers -> [Servers -> Share]]
      BY <1>1 DEF TypeOK
    <3> QED BY <1>2, <1>4, <3>1 DEF BodyOf
  <2> QED BY <1>2, <1>3, <1>5, <2>1, <2>2
<1>7. InputInv(s)' /\ VectorInv(s)' /\ LifeInv(s)'
  BY <1>1, <1>2, <1>3 DEF ServerInv, InputInv, VectorInv, LifeInv, inputVars
\* Nobody has sent round 2 before this server sends round 1.
<1>8. StopInv(s)'
  <2>1. \A p \in Servers : read[s][p] <= 1
    <3> SUFFICES ASSUME NEW p \in Servers PROVE read[s][p] <= 1
      OBVIOUS
    <3>1. Len(sent[s]) = 0
      BY <1>5 DEF Has
    <3>2. Len(sent[p]) <= Len(sent[s]) + 1 /\ Len(sent[p]) \in Nat
      BY <1>1, OneRoundAhead, NumberTypes
    <3>3. read[s][p] <= Len(sent[p]) /\ read[s][p] \in Nat
      BY <1>1, NumberTypes DEF ServerInv, ReadInv
    <3> QED BY <3>1, <3>2, <3>3
  <2>2. s \notin flag' /\ read' = read
    BY <1>2
  <2>3. \E r \in Rounds : stm_state'[s] = WaitState[r]
    BY <1>3, WaitStates
  <2> QED BY <1>3, <2>1, <2>2, <2>3 DEF StopInv
<1>9. ASSUME NEW x \in Servers, x # s PROVE SameServer(x)
  <2>1. rec_exp_shares1'[x] = rec_exp_shares1[x]
    BY <1>1, <1>2, <1>9 DEF TypeOK
  <2>2. stm_state'[x] = stm_state[x] /\ preds'[x] = preds[x]
    BY <1>1, <1>2, <1>9 DEF TypeOK
  <2> QED BY <1>2, <1>5, <1>9, <2>1, <2>2 DEF SameServer, inputVars
<1> QED
  BY <1>1, <1>2, <1>5, <1>6, <1>7, <1>8, <1>9, Untouched, NumberTypes DEF IInv, ServerInv

\* Round 1 is complete, and nobody can have sent round 3 before this server
\* sends round 2: the shared buffer still holds round 1, at all places.
LEMMA OpensRoundOne ==
    ASSUME IInv, NEW s \in Servers, stm_state[s] = 5
    PROVE  \A p \in Servers : rec_exp_shares1[s][p] = Predicates
<1> SUFFICES ASSUME NEW p \in Servers PROVE rec_exp_shares1[s][p] = Predicates
  OBVIOUS
<1>0. TypeOK /\ ServerInv(s)
  BY DEF IInv
<1>1. Has(s, p) >= 1 /\ Has(s, p) \in Nat
  BY <1>0, CompleteRounds, NumberTypes
<1>2. Len(sent[s]) = 1
  BY <1>0 DEF ServerInv, SentInv, SentIn
<1>3. Len(sent[p]) <= Len(sent[s]) + 1 /\ Len(sent[p]) \in Nat
  BY <1>0, OneRoundAhead, NumberTypes
<1>4. read[s][p] <= Len(sent[p]) /\ read[s][p] \in Nat
  BY <1>0, NumberTypes DEF ServerInv, ReadInv
<1>5. Has(s, p) <= 2
  BY <1>2, <1>3, <1>4 DEF Has
<1> QED BY <1>0, <1>1, <1>5 DEF ServerInv, BufferInv

LEMMA BatchedOpenWf3IInv ==
    ASSUME IInv, NEW s \in Servers, BatchedOpenWf3(s)
    PROVE  IInv'
<1>1. TypeOK /\ TypeOK' /\ ServerInv(s)
  BY SendingStepsType DEF IInv
<1>2. /\ s \in flag /\ stm_state[s] = 5 /\ flag' = flag \ {s}
      /\ stm_state' = [stm_state EXCEPT ![s] = 6]
      /\ rec_exp_shares1' = rec_exp_shares1
      /\ ret_open_exp_shares2' = ret_open_exp_shares2
      /\ cleared' = cleared /\ read' = read /\ stms' = stms /\ erased' = erased
      /\ submitted' = submitted /\ responses' = responses
      /\ completion_status' = completion_status /\ output' = output
      /\ corrupted_clients' = corrupted_clients
      /\ UNCHANGED inputVars /\ UNCHANGED vectorVars
  BY DEF BatchedOpenWf3, InState, Goto, Stop, clientVars, mainVars
<1>3. stm_state'[s] = 6
  BY <1>1, <1>2 DEF TypeOK
<1>4. \A p \in Servers : rec_exp_shares1[s][p] = Predicates
  BY <1>2, OpensRoundOne
<1>5. /\ ret_open_exp_shares1' = [ret_open_exp_shares1 EXCEPT ![s][s] = Predicates]
      /\ SendRound(s, 2, BodyOf(2))
  <2>1. Decodings(rec_exp_shares1[s]) = {Predicates}
    BY <1>4, Unanimous
  <2>2. PICK opened \in Decodings(rec_exp_shares1[s]) :
          /\ ret_open_exp_shares1' = [ret_open_exp_shares1 EXCEPT ![s][s] = opened]
          /\ SendRound(s, 2, opened)
    BY DEF BatchedOpenWf3
  <2>3. opened = Predicates /\ BodyOf(2) = Predicates
    BY <2>1 DEF BodyOf
  <2> QED BY <2>2, <2>3
<1>6. /\ Has(s, s) = 1 /\ Has(s, s)' = 2
      /\ \A p \in Servers : p # s => Has(s, p)' = Has(s, p)
      /\ SentInv(s)' /\ ReadInv(s)' /\ StatusInv(s)'
      /\ \A p \in Servers : Len(sent[p]) <= Len(sent'[p]) /\ Len(sent'[p]) \in Nat
      /\ \A x \in Servers : x # s => /\ sent'[x] = sent[x]
                                     /\ msg_reception_status'[x] = msg_reception_status[x]
  <2>1. stm_state[s] + 1 = WaitState[2] /\ stm_state'[s] = WaitState[2] /\ 2 \in Rounds
    BY <1>2, <1>3, WaitStates
  <2> QED BY <1>2, <1>5, <2>1, SendStep
<1>7. BufferInv(s)'
  <2> SUFFICES ASSUME NEW p \in Servers PROVE BufferInv(s)!(p)'
    BY DEF BufferInv
  <2>1. BufferInv(s)!(p)
    BY <1>1 DEF ServerInv, BufferInv
  <2>2. ret_open_exp_shares1'[s][p] = IF p = s THEN Predicates ELSE ret_open_exp_shares1[s][p]
    <3>1. ret_open_exp_shares1 \in [Servers -> [Servers -> Share]]
      BY <1>1 DEF TypeOK
    <3> QED BY <1>5, <3>1
  <2> QED BY <1>2, <1>3, <1>6, <2>1, <2>2
<1>8. InputInv(s)' /\ VectorInv(s)' /\ LifeInv(s)'
  BY <1>1, <1>2, <1>3 DEF ServerInv, InputInv, VectorInv, LifeInv, inputVars, vectorVars
<1>9. StopInv(s)'
  <2>1. Behind(s, 2)'
    BY <1>1, <1>2 DEF ServerInv, StopInv, Behind
  <2>2. \E r \in Rounds : stm_state'[s] = WaitState[r]
    BY <1>3, WaitStates
  <2>3. s \notin flag'
    BY <1>2
  <2> QED BY <1>3, <2>1, <2>2, <2>3 DEF StopInv
<1>10. ASSUME NEW x \in Servers, x # s PROVE SameServer(x)
  <2>1. ret_open_exp_shares1'[x] = ret_open_exp_shares1[x] /\ stm_state'[x] = stm_state[x]
    BY <1>1, <1>2, <1>5, <1>10 DEF TypeOK
  <2> QED BY <1>2, <1>6, <1>10, <2>1 DEF SameServer, inputVars, vectorVars
<1> QED
  BY <1>1, <1>2, <1>6, <1>7, <1>8, <1>9, <1>10, Untouched, NumberTypes DEF IInv, ServerInv

LEMMA BatchedOpenSums5IInv ==
    ASSUME IInv, NEW s \in Servers, BatchedOpenSums5(s)
    PROVE  IInv'
<1>1. TypeOK /\ TypeOK' /\ ServerInv(s)
  BY SendingStepsType DEF IInv
<1>2. /\ s \in flag /\ stm_state[s] = 10 /\ flag' = flag \ {s}
      /\ stm_state' = [stm_state EXCEPT ![s] = 11]
      /\ rec_exp_shares1' = [rec_exp_shares1 EXCEPT ![s][s] = shared_sums_of_powers[s]]
      /\ ret_open_exp_shares1' = ret_open_exp_shares1
      /\ ret_open_exp_shares2' = ret_open_exp_shares2
      /\ SendRound(s, 3, shared_sums_of_powers[s])
      /\ shared_sums_of_powers' = [shared_sums_of_powers EXCEPT ![s] = NoShare]
      /\ cleared' = cleared /\ read' = read /\ stms' = stms /\ erased' = erased
      /\ submitted' = submitted /\ responses' = responses
      /\ completion_status' = completion_status /\ output' = output
      /\ corrupted_clients' = corrupted_clients
      /\ preds' = preds /\ decompressed' = decompressed
      /\ UNCHANGED inputVars
  BY DEF BatchedOpenSums5, batched_open_expand_send, InState, Goto, Stop, clientVars, mainVars
<1>3. stm_state'[s] = 11
  BY <1>1, <1>2 DEF TypeOK
<1>4. shared_sums_of_powers[s] = BodyOf(3)
  BY <1>1, <1>2 DEF ServerInv, VectorInv, BodyOf
<1>5. /\ Has(s, s) = 2 /\ Has(s, s)' = 3
      /\ \A p \in Servers : p # s => Has(s, p)' = Has(s, p)
      /\ SentInv(s)' /\ ReadInv(s)' /\ StatusInv(s)'
      /\ \A p \in Servers : Len(sent[p]) <= Len(sent'[p]) /\ Len(sent'[p]) \in Nat
      /\ \A x \in Servers : x # s => /\ sent'[x] = sent[x]
                                     /\ msg_reception_status'[x] = msg_reception_status[x]
  <2>1. stm_state[s] + 1 = WaitState[3] /\ stm_state'[s] = WaitState[3]
        /\ 3 \in Rounds /\ SendRound(s, 3, BodyOf(3))
    BY <1>2, <1>3, <1>4, WaitStates
  <2> QED BY <1>2, <2>1, SendStep
<1>6. BufferInv(s)'
  <2> SUFFICES ASSUME NEW p \in Servers PROVE BufferInv(s)!(p)'
    BY DEF BufferInv
  <2>1. BufferInv(s)!(p)
    BY <1>1 DEF ServerInv, BufferInv
  <2>2. rec_exp_shares1'[s][p] = IF p = s THEN Mix ELSE rec_exp_shares1[s][p]
    <3>1. rec_exp_shares1 \in [Servers -> [Servers -> Share]]
      BY <1>1 DEF TypeOK
    <3> QED BY <1>2, <1>4, <3>1 DEF BodyOf
  <2> QED BY <1>2, <1>3, <1>5, <2>1, <2>2
<1>7. InputInv(s)' /\ VectorInv(s)' /\ LifeInv(s)'
  <2>1. VectorInv(s)'
    BY <1>1, <1>2, <1>3 DEF ServerInv, VectorInv
  <2>2. InputInv(s)' /\ LifeInv(s)'
    BY <1>1, <1>2, <1>3 DEF ServerInv, InputInv, LifeInv, inputVars
  <2> QED BY <2>1, <2>2
<1>8. StopInv(s)'
  <2>1. Behind(s, 3)'
    BY <1>1, <1>2 DEF ServerInv, StopInv, Behind
  <2>2. \E r \in Rounds : stm_state'[s] = WaitState[r]
    BY <1>3, WaitStates
  <2>3. s \notin flag'
    BY <1>2
  <2> QED BY <1>3, <2>1, <2>2, <2>3 DEF StopInv
<1>9. ASSUME NEW x \in Servers, x # s PROVE SameServer(x)
  <2>1. rec_exp_shares1'[x] = rec_exp_shares1[x]
    BY <1>1, <1>2, <1>9 DEF TypeOK
  <2>2. stm_state'[x] = stm_state[x] /\ shared_sums_of_powers'[x] = shared_sums_of_powers[x]
    BY <1>1, <1>2, <1>9 DEF TypeOK
  <2> QED BY <1>2, <1>5, <1>9, <2>1, <2>2 DEF SameServer, inputVars
<1> QED
  BY <1>1, <1>2, <1>5, <1>6, <1>7, <1>8, <1>9, Untouched, NumberTypes DEF IInv, ServerInv

LEMMA BatchedOpenSums7IInv ==
    ASSUME IInv, NEW s \in Servers, BatchedOpenSums7(s)
    PROVE  IInv'
<1>1. TypeOK /\ TypeOK' /\ ServerInv(s)
  BY SendingStepsType DEF IInv
<1>2. /\ s \in flag /\ stm_state[s] = 12 /\ flag' = flag \ {s}
      /\ stm_state' = [stm_state EXCEPT ![s] = 13]
      /\ rec_exp_shares1' = rec_exp_shares1
      /\ ret_open_exp_shares1' = ret_open_exp_shares1
      /\ cleared' = cleared /\ read' = read /\ stms' = stms /\ erased' = erased
      /\ submitted' = submitted /\ responses' = responses
      /\ completion_status' = completion_status /\ output' = output
      /\ corrupted_clients' = corrupted_clients
      /\ UNCHANGED inputVars /\ UNCHANGED vectorVars
  BY DEF BatchedOpenSums7, InState, Goto, Stop, clientVars, mainVars
<1>3. stm_state'[s] = 13
  BY <1>1, <1>2 DEF TypeOK
<1>4. \A p \in Servers : rec_exp_shares1[s][p] = Mix
  <2> SUFFICES ASSUME NEW p \in Servers PROVE rec_exp_shares1[s][p] = Mix
    OBVIOUS
  <2>1. Has(s, p) >= 3
    BY <1>2, CompleteRounds
  <2> QED BY <1>1, <2>1 DEF ServerInv, BufferInv
<1>5. /\ ret_open_exp_shares2' = [ret_open_exp_shares2 EXCEPT ![s][s] = Mix]
      /\ SendRound(s, 4, BodyOf(4))
  <2>1. Decodings(rec_exp_shares1[s]) = {Mix}
    BY <1>4, Unanimous
  <2>2. PICK opened \in Decodings(rec_exp_shares1[s]) :
          /\ ret_open_exp_shares2' = [ret_open_exp_shares2 EXCEPT ![s][s] = opened]
          /\ SendRound(s, 4, opened)
    BY DEF BatchedOpenSums7
  <2>3. opened = Mix /\ BodyOf(4) = Mix
    BY <2>1 DEF BodyOf
  <2> QED BY <2>2, <2>3
<1>6. /\ Has(s, s) = 3 /\ Has(s, s)' = 4
      /\ \A p \in Servers : p # s => Has(s, p)' = Has(s, p)
      /\ SentInv(s)' /\ ReadInv(s)' /\ StatusInv(s)'
      /\ \A p \in Servers : Len(sent[p]) <= Len(sent'[p]) /\ Len(sent'[p]) \in Nat
      /\ \A x \in Servers : x # s => /\ sent'[x] = sent[x]
                                     /\ msg_reception_status'[x] = msg_reception_status[x]
  <2>1. stm_state[s] + 1 = WaitState[4] /\ stm_state'[s] = WaitState[4] /\ 4 \in Rounds
    BY <1>2, <1>3, WaitStates
  <2> QED BY <1>2, <1>5, <2>1, SendStep
<1>7. BufferInv(s)'
  <2> SUFFICES ASSUME NEW p \in Servers PROVE BufferInv(s)!(p)'
    BY DEF BufferInv
  <2>1. BufferInv(s)!(p)
    BY <1>1 DEF ServerInv, BufferInv
  <2>2. ret_open_exp_shares2'[s][p] = IF p = s THEN Mix ELSE ret_open_exp_shares2[s][p]
    <3>1. ret_open_exp_shares2 \in [Servers -> [Servers -> Share]]
      BY <1>1 DEF TypeOK
    <3> QED BY <1>5, <3>1
  <2> QED BY <1>2, <1>3, <1>6, <2>1, <2>2
<1>8. InputInv(s)' /\ VectorInv(s)' /\ LifeInv(s)'
  BY <1>1, <1>2, <1>3 DEF ServerInv, InputInv, VectorInv, LifeInv, inputVars, vectorVars
<1>9. StopInv(s)'
  <2>1. Behind(s, 4)'
    BY <1>1, <1>2 DEF ServerInv, StopInv, Behind
  <2>2. \E r \in Rounds : stm_state'[s] = WaitState[r]
    BY <1>3, WaitStates
  <2>3. s \notin flag'
    BY <1>2
  <2> QED BY <1>3, <2>1, <2>2, <2>3 DEF StopInv
<1>10. ASSUME NEW x \in Servers, x # s PROVE SameServer(x)
  <2>1. ret_open_exp_shares2'[x] = ret_open_exp_shares2[x] /\ stm_state'[x] = stm_state[x]
    BY <1>1, <1>2, <1>5, <1>10 DEF TypeOK
  <2> QED BY <1>2, <1>6, <1>10, <2>1 DEF SameServer, inputVars, vectorVars
<1> QED
  BY <1>1, <1>2, <1>6, <1>7, <1>8, <1>9, <1>10, Untouched, NumberTypes DEF IInv, ServerInv
-----------------------------------------------------------------------------
\* Every step keeps it.
LEMMA IInvStep == IInv /\ [Next]_vars => IInv'
<1> SUFFICES ASSUME IInv, [Next]_vars PROVE IInv'
  OBVIOUS
<1>1. TypeOK'
  BY TypeStep DEF IInv
<1>2. CASE SubmitMessage \/ \E s \in Servers : PollCompletion(s)
  BY <1>2, ClientIInv
<1>3. ASSUME NEW s \in Servers, ServerStep(s) PROVE IInv'
  <2>1. CASE CreateStm(s) \/ HandleInput(s) \/ FinishSession(s)
    BY <2>1, CreateStmIInv, HandleInputIInv, FinishSessionIInv
  <2>2. CASE \E p \in Servers : HandleShares(s, p)
    BY <2>2, HandleSharesIInv
  <2>3. CASE BatchedOpenWf1(s) \/ BatchedOpenWf3(s) \/ BatchedOpenSums5(s)
             \/ BatchedOpenSums7(s)
    BY <2>3, BatchedOpenWf1IInv, BatchedOpenWf3IInv, BatchedOpenSums5IInv,
       BatchedOpenSums7IInv
  <2>4. CASE BatchedOpenWf2(s) \/ BatchedOpenWf4(s) \/ BatchedOpenSums6(s)
             \/ BatchedOpenSums8(s)
    <3>1. /\ 1 \in Rounds /\ 2 \in Rounds /\ 3 \in Rounds /\ 4 \in Rounds
          /\ TRUE \in BOOLEAN /\ FALSE \in BOOLEAN
      BY WaitStates
    <3>2. (TRUE <=> 1 <= 2) /\ (TRUE <=> 2 <= 2) /\ (FALSE <=> 3 <= 2) /\ (FALSE <=> 4 <= 2)
      OBVIOUS
    <3>3. CASE AwaitRound(s, 1, TRUE)
      BY <1>1, <3>1, <3>2, <3>3, AwaitRoundIInv
    <3>4. CASE AwaitRound(s, 2, TRUE)
      BY <1>1, <3>1, <3>2, <3>4, AwaitRoundIInv
    <3>5. CASE AwaitRound(s, 3, FALSE)
      BY <1>1, <3>1, <3>2, <3>5, AwaitRoundIInv
    <3>6. CASE AwaitRound(s, 4, FALSE)
      BY <1>1, <3>1, <3>2, <3>6, AwaitRoundIInv
    <3> QED BY <2>4, <3>3, <3>4, <3>5, <3>6
            DEF BatchedOpenWf2, BatchedOpenWf4, BatchedOpenSums6, BatchedOpenSums8
  <2>5. CASE WaitForInputs(s) \/ ComputeWellformednessPredicates(s) \/ OpenCheckWf(s)
             \/ DecompressClientInputs(s) \/ ComputeSumOfPowers(s) \/ NewtonAndFindRoots(s)
    BY <2>5, WaitForInputsIInv, ComputePredicatesIInv, OpenCheckIInv, DecompressIInv,
       SumOfPowersIInv, NewtonIInv
  <2> QED BY <1>3, <2>1, <2>2, <2>3, <2>4, <2>5 DEF ServerStep, execute_rm_stm
<1>4. CASE UNCHANGED vars
  <2>1. submitted' = submitted /\ sent' = sent
    BY <1>4 DEF vars, clientVars
  <2>2. ASSUME NEW x \in Servers PROVE SameServer(x)
    BY <1>4 DEF SameServer, vars, clientVars, inputVars, statusVars, bufferVars,
       vectorVars, mainVars
  <2> QED BY <1>1, <2>1, <2>2, Untouched, NumberTypes DEF IInv
<1> QED BY <1>2, <1>3, <1>4 DEF Next, Exit

\* Every reachable state satisfies the inductive invariant: every buffer, bit
\* and number of a server agrees with its state and the messages it has
\* (rm_server_stm.hpp).
THEOREM Inductive == Spec => []IInv
<1>1. Init => IInv
  BY InitIInv
<1>2. IInv /\ [Next]_vars => IInv'
  BY IInvStep
<1> QED BY <1>1, <1>2, PTL DEF Spec
-----------------------------------------------------------------------------
\* What a server opens is complete and of the round it opens, although rounds
\* 1 and 3 share rec_exp_shares1 (message_handler, open_exp_shares_to_all).
THEOREM OpensOneVectorHolds == Spec => []OpensOneVector
<1>1. IInv => OpensOneVector
  <2> SUFFICES ASSUME IInv, NEW s \in Servers, NEW p \in Servers
               PROVE  /\ stm_state[s] = 5 => rec_exp_shares1[s][p].vector = "preds"
                      /\ stm_state[s] = 7 => ret_open_exp_shares1[s][p].vector = "preds"
                      /\ stm_state[s] = 12 => rec_exp_shares1[s][p].vector = "sums"
                      /\ stm_state[s] = 14 => ret_open_exp_shares2[s][p].vector = "sums"
    BY DEF OpensOneVector, IInv, TypeOK
  <2>1. Predicates.vector = "preds" /\ Mix.vector = "sums"
    BY DEF Predicates, Mix
  <2>2. stm_state[s] = 5 => rec_exp_shares1[s][p] = Predicates
    BY OpensRoundOne
  <2>3. stm_state[s] = 7 => ret_open_exp_shares1[s][p] = Predicates
    BY CompleteRounds DEF IInv, ServerInv, BufferInv
  <2>4. stm_state[s] = 12 => rec_exp_shares1[s][p] = Mix
    BY CompleteRounds DEF IInv, ServerInv, BufferInv
  <2>5. stm_state[s] = 14 => ret_open_exp_shares2[s][p] = Mix
    BY CompleteRounds DEF IInv, ServerInv, BufferInv
  <2> QED BY <2>1, <2>2, <2>3, <2>4, <2>5
<1> QED BY <1>1, Inductive, PTL

\* message_handler never indexes a msg_reception_status vector that was
\* clear()ed.
THEOREM NoReadOfClearedStatusHolds == Spec => []NoReadOfClearedStatus
<1>1. IInv => NoReadOfClearedStatus
  <2> SUFFICES ASSUME IInv, NEW s \in Servers, NEW p \in Servers,
                      NEW i \in 1 .. Len(sent[p]), p # s, i > read[s][p],
                      NEW r \in cleared[s]
               PROVE  sent[p][i].mixing_state_id # WaitState[r]
    BY DEF NoReadOfClearedStatus
  <2>0. i \in Rounds
        /\ sent[p][i] = [mixing_state_id |-> WaitState[i], body |-> BodyOf(i)]
    BY Bodies
  <2>1. i \in Rounds /\ sent[p][i].mixing_state_id = WaitState[i]
    BY <2>0
  <2>2. r \in Rounds
    BY DEF IInv, TypeOK
  <2>3. r <= Has(s, p) /\ Has(s, p) = read[s][p]
    BY <2>2 DEF IInv, ServerInv, StatusInv, Has
  <2>4. r # i
    <3>1. i \in Nat /\ read[s][p] \in Nat
      BY <2>1, NumberTypes DEF Rounds, IInv
    <3> QED BY <2>3, <3>1
  <2> QED BY <2>1, <2>2, <2>4, WaitStates
<1> QED BY <1>1, Inductive, PTL

\* No lost wake-up: a server that left execute_rm_stm with flag = false lacks
\* an input or a message, so something is still to come that wakes it.
THEOREM StoppedServerWaitsHolds == Spec => []StoppedServerWaits
<1>1. IInv => StoppedServerWaits
  <2> SUFFICES ASSUME IInv, NEW s \in stms \ flag
               PROVE  StoppedServerWaits!(s)
    BY DEF StoppedServerWaits
  <2>1. s \in Servers /\ ServerInv(s)
    BY DEF IInv, TypeOK
  <2>2. ASSUME NEW r \in Rounds, stm_state[s] = WaitState[r], Behind(s, r)
        PROVE  ~ is_all_true(s, r)
    <3>1. PICK p \in Servers : p # s /\ read[s][p] < r
      BY <2>2 DEF Behind
    <3>2. ~ (r <= Has(s, p))
      <4>1. read[s][p] \in Nat /\ r \in Nat
        BY <2>1, NumberTypes DEF IInv, Rounds
      <4> QED BY <3>1, <4>1 DEF Has
    <3>3. r \notin cleared[s] /\ p \notin msg_reception_status[s][r]
      BY <2>1, <2>2, <3>2, AfterWait DEF ServerInv, StatusInv
    <3> QED BY <3>3 DEF is_all_true
  <2>3. stm_state[s] \in {0, 15} \/ \E r \in Rounds : stm_state[s] = WaitState[r]
    BY <2>1 DEF ServerInv, StopInv
  <2>4. CASE stm_state[s] \in {0, 15}
    BY <2>1, <2>4 DEF ServerInv, StopInv
  <2>5. ASSUME NEW r \in Rounds, stm_state[s] = WaitState[r]
        PROVE  \/ ~ is_all_true(s, r)
               \/ r = 1 /\ \A p \in Servers \ {s} : read[s][p] <= 1
    <3>1. \/ r = 1 /\ stm_state[s] = 4
          \/ r = 2 /\ stm_state[s] = 6
          \/ r = 3 /\ stm_state[s] = 11
          \/ r = 4 /\ stm_state[s] = 13
      BY <2>5, WaitStates
    <3>2. /\ s \notin flag
          /\ stm_state[s] = 4 =>
                Behind(s, 1) \/ \A p \in Servers : p # s => read[s][p] <= 1
          /\ stm_state[s] = 6 => Behind(s, 2)
          /\ stm_state[s] = 11 => Behind(s, 3)
          /\ stm_state[s] = 13 => Behind(s, 4)
      BY <2>1 DEF ServerInv, StopInv
    <3> QED BY <2>2, <2>5, <3>1, <3>2
  <2> QED BY <2>3, <2>4, <2>5
<1> QED BY <1>1, Inductive, PTL

\* A completed server has handled everything of the session, so the main loop
\* makes no second state machine for it.
THEOREM NoLeftoversHolds == Spec => []NoLeftovers
<1>1. IInv => NoLeftovers
  <2> SUFFICES ASSUME IInv PROVE NoLeftovers
    OBVIOUS
  <2>1. stms \cap erased = {}
    BY DEF IInv, TypeOK, ServerInv, LifeInv
  <2>2. ASSUME NEW s \in erased \cup responses \cup completion_status
        PROVE  ~ Unread(s) /\ submitted = N /\ \A p \in Servers : Len(sent[p]) = 4
    <3>1. s \in Servers /\ stm_state[s] = 15
      BY DEF IInv, TypeOK, ServerInv, LifeInv
    <3>2. ~ Unread(s)
      BY <3>1, CompletedHasAll
    <3>3. submitted = N
      <4>1. inputs_read[s] = N /\ inputs_read[s] <= submitted
        BY <3>1 DEF IInv, ServerInv, InputInv
      <4> QED BY <3>1, <4>1, NumberTypes, InputsAssumption DEF IInv
    <3>4. ASSUME NEW p \in Servers PROVE Len(sent[p]) = 4
      <4>1. Has(s, p) >= 4 /\ Has(s, p) \in Nat
        BY <3>1, CompleteRounds, NumberTypes DEF IInv
      <4>2. Has(s, p) <= Len(sent[p])
        BY <3>1, NumberTypes DEF IInv, ServerInv, ReadInv, Has
      <4>3. Len(sent[p]) \in Nat /\ Len(sent[p]) <= 4
        BY SentFacts
      <4>4. ASSUME NEW m \in Nat, NEW n \in Nat, m >= 4, m <= n, n <= 4 PROVE n = 4
        BY <4>4
      <4> QED BY <4>1, <4>2, <4>3, <4>4
    <3> QED BY <3>2, <3>3, <3>4
  <2> QED BY <2>1, <2>2 DEF NoLeftovers
<1> QED BY <1>1, Inductive, PTL

\* Whatever servers publish is the mix of the inputs that are neither
\* malformed nor blamed before, so all servers agree.
THEOREM MixesTheGoodInputsHolds == Spec => []MixesTheGoodInputs
<1>1. IInv => MixesTheGoodInputs
  BY DEF IInv, ServerInv, VectorInv, MixesTheGoodInputs
<1> QED BY <1>1, Inductive, PTL

-----------------------------------------------------------------------------
(***************************************************************************)
(* MixingStm implements RoundExchange: a server contributes to a round     *)
(* when it sends it and publishes when it finds the roots; every other     *)
(* step of the session is a stutter of the exchange.                       *)
(***************************************************************************)
\* The rounds a server has contributed to: those it has sent.
roundMap == [s \in Servers |-> Len(sent[s])]

\* The start maps to the start of the exchange.
LEMMA ExchangeInit == Init => Exchange!Init
BY DEF Init, Exchange!Init

\* A step that neither sends nor publishes.
LEMMA ExchangeStutter ==
    ASSUME sent' = sent, output' = output
    PROVE  UNCHANGED Exchange!vars
BY DEF Exchange!vars

\* Every server has contributed to the rounds before the one that is sent.
LEMMA EarlierRounds ==
    ASSUME IInv, NEW s \in Servers, NEW r \in Rounds, stm_state[s] + 1 = WaitState[r]
    PROVE  Len(sent[s]) = r - 1 /\ \A p \in Servers : Len(sent[p]) >= Len(sent[s])
<1>1. TypeOK /\ ServerInv(s) /\ stm_state[s] \in Nat
  BY NumberTypes DEF IInv
<1>2. Len(sent[s]) = r - 1
  BY <1>1, BeforeWait DEF ServerInv, SentInv
<1>3. ASSUME NEW p \in Servers PROVE Len(sent[p]) >= r - 1
  <2>1. Has(s, p) <= Len(sent[p]) /\ Has(s, p) \in Nat /\ Len(sent[p]) \in Nat
    BY <1>1, NumberTypes DEF ServerInv, ReadInv, Has
  <2>2. \/ r = 1
        \/ r = 2 /\ stm_state[s] = 5
        \/ r = 3 /\ stm_state[s] = 10
        \/ r = 4 /\ stm_state[s] = 12
    BY <1>1, WaitStates
  <2>3. \/ r = 1
        \/ r = 2 /\ Has(s, p) >= 1
        \/ r = 3 /\ Has(s, p) >= 2
        \/ r = 4 /\ Has(s, p) >= 3
    BY <2>2, CompleteRounds
  <2>4. ASSUME NEW m \in Nat, NEW n \in Nat, m <= n,
               r = 1 \/ (r = 2 /\ m >= 1) \/ (r = 3 /\ m >= 2) \/ (r = 4 /\ m >= 3)
        PROVE  n >= r - 1
    BY <2>4
  <2> QED BY <2>1, <2>3, <2>4
<1> QED BY <1>2, <1>3

LEMMA ExchangeSend ==
    ASSUME IInv, NEW s \in Servers, NEW r \in Rounds, stm_state[s] + 1 = WaitState[r],
           NEW body \in Share, SendRound(s, r, body), output' = output
    PROVE  Exchange!Contribute(s)
<1>1. Len(sent[s]) = r - 1 /\ \A p \in Servers : Len(sent[p]) >= Len(sent[s])
  BY EarlierRounds
<1>2. r - 1 < 4
  BY DEF Rounds
<1>3. sent \in [Servers -> Seq(Message)]
  BY DEF IInv, TypeOK
<1> DEFINE m == [mixing_state_id |-> stm_state[s] + 1, body |-> body]
<1>4. sent' = [sent EXCEPT ![s] = Append(sent[s], m)] /\ m \in Message
  BY DEF SendRound, Message
<1> HIDE DEF m
<1>5. sent[s] \in Seq(Message) /\ Len(Append(sent[s], m)) = Len(sent[s]) + 1
  BY <1>3, <1>4
<1>6. roundMap' = [roundMap EXCEPT ![s] = roundMap[s] + 1]
  <2>1. \A p \in Servers : Len(sent'[p]) = IF p = s THEN Len(sent[p]) + 1 ELSE Len(sent[p])
    BY <1>3, <1>4, <1>5
  <2> QED BY <2>1 DEF roundMap
<1> QED BY <1>1, <1>2, <1>6 DEF Exchange!Contribute, roundMap

LEMMA ExchangePublish ==
    ASSUME IInv, NEW s \in Servers, NewtonAndFindRoots(s)
    PROVE  Exchange!Publish(s)
<1>1. stm_state[s] = 14 /\ sent' = sent /\ TypeOK /\ ServerInv(s)
  BY DEF NewtonAndFindRoots, InState, IInv
<1>2. output[s] = NoShare
  BY <1>1 DEF ServerInv, VectorInv
<1>3. ASSUME NEW p \in Servers PROVE Len(sent[p]) = 4
  <2>1. Has(s, p) >= 4 /\ Has(s, p) \in Nat /\ Has(s, p) <= Len(sent[p])
    BY <1>1, CompleteRounds, NumberTypes DEF ServerInv, ReadInv, Has
  <2>2. Len(sent[p]) \in Nat /\ Len(sent[p]) <= 4
    BY SentFacts
  <2>3. ASSUME NEW m \in Nat, NEW n \in Nat, m >= 4, m <= n, n <= 4 PROVE n = 4
    BY <2>3
  <2> QED BY <2>1, <2>2, <2>3
<1>4. output' = [output EXCEPT ![s] = Mix]
  <2>1. \A p \in Servers : ret_open_exp_shares2[s][p] = Mix
    BY <1>1, CompleteRounds DEF ServerInv, BufferInv
  <2>2. Decodings(ret_open_exp_shares2[s]) = {Mix}
    BY <2>1, Unanimous
  <2> QED BY <2>2 DEF NewtonAndFindRoots
<1> QED BY <1>1, <1>2, <1>3, <1>4 DEF Exchange!Publish

\* Every step maps to a step of the exchange or to a stutter.
LEMMA ExchangeStep == IInv /\ [Next]_vars => [Exchange!Next]_(Exchange!vars)
<1> SUFFICES ASSUME IInv, [Next]_vars PROVE [Exchange!Next]_(Exchange!vars)
  OBVIOUS
<1>1. CASE SubmitMessage \/ (\E s \in Servers : PollCompletion(s)) \/ UNCHANGED vars
  BY <1>1, ExchangeStutter DEF SubmitMessage, PollCompletion, vars, mainVars
<1>2. ASSUME NEW s \in Servers, ServerStep(s) PROVE [Exchange!Next]_(Exchange!vars)
  <2>1. CASE \/ CreateStm(s) \/ HandleInput(s) \/ FinishSession(s)
             \/ WaitForInputs(s) \/ ComputeWellformednessPredicates(s) \/ OpenCheckWf(s)
             \/ DecompressClientInputs(s) \/ ComputeSumOfPowers(s)
             \/ \E p \in Servers : HandleShares(s, p)
    BY <2>1, ExchangeStutter
       DEF CreateStm, HandleInput, FinishSession, WaitForInputs,
           ComputeWellformednessPredicates, OpenCheckWf, DecompressClientInputs,
           ComputeSumOfPowers, HandleShares, mainVars
  <2>2. CASE \/ BatchedOpenWf2(s) \/ BatchedOpenWf4(s)
             \/ BatchedOpenSums6(s) \/ BatchedOpenSums8(s)
    BY <2>2, ExchangeStutter
       DEF BatchedOpenWf2, BatchedOpenWf4, BatchedOpenSums6, BatchedOpenSums8,
           AwaitRound, mainVars
  <2>3. CASE \/ BatchedOpenWf1(s) \/ BatchedOpenWf3(s)
             \/ BatchedOpenSums5(s) \/ BatchedOpenSums7(s)
    <3>1. /\ rec_exp_shares1[s] \in [Servers -> Share]
          /\ preds[s] \in Share /\ shared_sums_of_powers[s] \in Share
      BY DEF IInv, TypeOK
    <3>2. CASE BatchedOpenWf1(s)
      <4>1. 1 \in Rounds /\ stm_state[s] + 1 = WaitState[1] /\ SendRound(s, 1, preds[s])
        BY <3>2, WaitStates DEF BatchedOpenWf1, batched_open_expand_send, InState
      <4> QED BY <3>1, <3>2, <4>1, ExchangeSend DEF BatchedOpenWf1, mainVars, Exchange!Next
    <3>3. CASE BatchedOpenWf3(s)
      <4>1. 2 \in Rounds /\ stm_state[s] + 1 = WaitState[2]
        BY <3>3, WaitStates DEF BatchedOpenWf3, InState
      <4>2. PICK opened \in Share : SendRound(s, 2, opened)
        BY <3>1, <3>3, DecodingsType DEF BatchedOpenWf3
      <4> QED BY <3>3, <4>1, <4>2, ExchangeSend DEF BatchedOpenWf3, mainVars, Exchange!Next
    <3>4. CASE BatchedOpenSums5(s)
      <4>1. 3 \in Rounds /\ stm_state[s] + 1 = WaitState[3]
            /\ SendRound(s, 3, shared_sums_of_powers[s])
        BY <3>4, WaitStates DEF BatchedOpenSums5, batched_open_expand_send, InState
      <4> QED BY <3>1, <3>4, <4>1, ExchangeSend DEF BatchedOpenSums5, mainVars, Exchange!Next
    <3>5. CASE BatchedOpenSums7(s)
      <4>1. 4 \in Rounds /\ stm_state[s] + 1 = WaitState[4]
        BY <3>5, WaitStates DEF BatchedOpenSums7, InState
      <4>2. PICK opened \in Share : SendRound(s, 4, opened)
        BY <3>1, <3>5, DecodingsType DEF BatchedOpenSums7
      <4> QED BY <3>5, <4>1, <4>2, ExchangeSend DEF BatchedOpenSums7, mainVars, Exchange!Next
    <3> QED BY <2>3, <3>2, <3>3, <3>4, <3>5
  <2>4. CASE NewtonAndFindRoots(s)
    BY <2>4, ExchangePublish DEF Exchange!Next
  <2> QED BY <1>2, <2>1, <2>2, <2>3, <2>4 DEF ServerStep, execute_rm_stm
<1> QED BY <1>1, <1>2 DEF Next, Exit

\* The rounds of the protocol are a barrier with one result: every behaviour
\* of a session is one of the abstract round exchange.
THEOREM ImplementsExchange == Spec => Exchange!Spec
<1>1. Init => Exchange!Init
  BY ExchangeInit
<1>2. IInv /\ [Next]_vars => [Exchange!Next]_(Exchange!vars)
  BY ExchangeStep
<1> QED BY <1>1, <1>2, Inductive, PTL DEF Spec, Exchange!Spec
=============================================================================

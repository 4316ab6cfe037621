--------------------------- MODULE MixingStmInv ----------------------------
(***************************************************************************)
(* The inductive invariant behind the properties of MixingStm.  It ties    *)
(* everything a server holds to two numbers: its stm_state and, per peer,  *)
(* how many of the peer's messages it has.                                 *)
(***************************************************************************)
EXTENDS MixingStm

\* How many messages of p server s has: the own ones are kept locally.
Has(s, p) == IF p = s THEN Len(sent[s]) ELSE read[s][p]

\* How many messages a server in state q has sent.
SentIn(q) ==
    IF q <= BATCHED_OPEN_WF_PREDICATES_1 THEN 0
    ELSE IF q <= BATCHED_OPEN_WF_PREDICATES_3 THEN 1
    ELSE IF q <= BATCHED_OPEN_SUMS_OF_POWERS_5 THEN 2
    ELSE IF q <= BATCHED_OPEN_SUMS_OF_POWERS_7 THEN 3
    ELSE 4

Predicates == [vector |-> "preds", of |-> Malformed]
BodyOf(r) == IF r <= 2 THEN Predicates ELSE Mix

\* The log of a server is a prefix of the four messages of the session.
SentInv(s) ==
    /\ Len(sent[s]) = SentIn(stm_state[s])
    /\ \A i \in 1 .. Len(sent[s]) :
          sent[s][i] = [mixing_state_id |-> WaitState[i], body |-> BodyOf(i)]

ReadInv(s) == \A p \in Servers : read[s][p] <= Len(sent[p])

\* The reception bits are those of the messages a server has, and a server
\* is past the wait of a round only if it has the whole round.
StatusInv(s) ==
    \A r \in Rounds :
        /\ \A p \in Servers : p \in msg_reception_status[s][r] <=> r <= Has(s, p)
        /\ stm_state[s] > WaitState[r] => \A p \in Servers : r <= Has(s, p)
        /\ r \in cleared[s] <=> r <= 2 /\ stm_state[s] > WaitState[r]

BufferInv(s) ==
    \A p \in Servers :
        /\ rec_exp_shares1[s][p] = IF Has(s, p) >= 3 THEN Mix
                                   ELSE IF Has(s, p) >= 1 THEN Predicates ELSE NoShare
        /\ ret_open_exp_shares1[s][p] =
              IF stm_state[s] <= OPEN_CHECK_WF_PREDICATES /\ Has(s, p) >= 2
              THEN Predicates ELSE NoShare
        /\ ret_open_exp_shares2[s][p] =
              IF stm_state[s] <= COMPUTE_NEWTON_ID_AND_FIND_ROOTS /\ Has(s, p) >= 4
              THEN Mix ELSE NoShare

InputInv(s) ==
    /\ inputs_read[s] <= submitted
    /\ stm_state[s] = WAIT_FOR_INPUTS =>
          /\ client_msg_counter[s] = inputs_read[s]
          /\ client_input[s] = {i \in Inputs : i < inputs_read[s]}
          /\ rm_client_connections[s] <=> inputs_read[s] > 0
    /\ stm_state[s] > WAIT_FOR_INPUTS => inputs_read[s] = N /\ rm_client_connections[s]
    /\ WAIT_FOR_INPUTS < stm_state[s] /\ stm_state[s] <= DECOMPRESS_CLIENT_INPUTS
          => client_input[s] = Inputs

VectorInv(s) ==
    /\ stm_state[s] = BATCHED_OPEN_WF_PREDICATES_1 => preds[s] = Predicates
    /\ stm_state[s] = COMPUTE_SUM_OF_POWERS => decompressed[s] = GoodInputs
    /\ stm_state[s] = BATCHED_OPEN_SUMS_OF_POWERS_5 => shared_sums_of_powers[s] = Mix
    /\ corrupted_clients[s] = IF stm_state[s] <= OPEN_CHECK_WF_PREDICATES
                              THEN Blamed ELSE Malformed \cup Blamed
    /\ output[s] = IF stm_state[s] = COMPLETED THEN Mix ELSE NoShare

\* The life of a state machine: nothing before it is made, running only while
\* it is there and not completed, erased or reported only when completed.
LifeInv(s) ==
    /\ s \notin stms \cup erased =>
          /\ stm_state[s] = WAIT_FOR_INPUTS
          /\ inputs_read[s] = 0
          /\ \A p \in Servers : read[s][p] = 0
    /\ s \in flag => s \in stms /\ stm_state[s] # COMPLETED
    /\ s \notin stms \cap erased
    /\ s \in erased \cup responses \cup completion_status => stm_state[s] = COMPLETED

\* Some peer's message of round r is still to be handled by s.
Behind(s, r) == \E p \in Servers : p # s /\ read[s][p] < r

\* What the wake-up argument needs of each state: a server entering a state
\* is behind in the next round it waits for, and a message brings it one
\* round closer with one peer only.
StopInv(s) ==
    /\ s \in stms \ flag => \/ stm_state[s] \in {WAIT_FOR_INPUTS, COMPLETED}
                            \/ \E r \in Rounds : stm_state[s] = WaitState[r]
    /\ stm_state[s] = WAIT_FOR_INPUTS /\ s \notin flag => inputs_read[s] < N
    /\ stm_state[s] = BATCHED_OPEN_WF_PREDICATES_2 =>
          IF s \in flag THEN Behind(s, 2)
          ELSE \/ Behind(s, 1)
               \/ \A p \in Servers : p # s => read[s][p] <= 1
    /\ stm_state[s] = BATCHED_OPEN_WF_PREDICATES_3 => Behind(s, 2)
    /\ stm_state[s] = BATCHED_OPEN_WF_PREDICATES_4 =>
          Behind(s, IF s \in flag THEN 3 ELSE 2)
    /\ /\ OPEN_CHECK_WF_PREDICATES <= stm_state[s]
       /\ stm_state[s] <= BATCHED_OPEN_SUMS_OF_POWERS_5
       => Behind(s, 3)
    /\ stm_state[s] = BATCHED_OPEN_SUMS_OF_POWERS_6 =>
          Behind(s, IF s \in flag THEN 4 ELSE 3)
    /\ stm_state[s] = BATCHED_OPEN_SUMS_OF_POWERS_7 => Behind(s, 4)
    /\ stm_state[s] = BATCHED_OPEN_SUMS_OF_POWERS_8 /\ s \notin flag => Behind(s, 4)

ServerInv(s) ==
    /\ SentInv(s) /\ ReadInv(s) /\ StatusInv(s) /\ BufferInv(s)
    /\ InputInv(s) /\ VectorInv(s) /\ LifeInv(s) /\ StopInv(s)

\* The inductive invariant: every number, buffer and bit of a server agrees
\* with its state and the messages it has (rm_server_stm.hpp).
IInv == TypeOK /\ \A s \in Servers : ServerInv(s)
=============================================================================

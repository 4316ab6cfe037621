--------------------------- MODULE RoundExchange ---------------------------
(***************************************************************************)
(* What one mixing session promises, without messages, buffers or wake-ups *)
(* (rm_server_stm.hpp): the servers go through four all-to-all rounds as   *)
(* through a barrier, each contributes to a round only when every server   *)
(* has contributed to the round before, and after the last round every     *)
(* server publishes the one result of the session.                         *)
(***************************************************************************)
EXTENDS Naturals

CONSTANTS
    Servers,
    LastRound,
    Result,     \* the result of the session
    NoResult    \* what a server has before it publishes

VARIABLES
    round,      \* per server: the rounds it has contributed to
    result      \* per server: what it published

vars == << round, result >>

Init ==
    /\ round = [s \in Servers |-> 0]
    /\ result = [s \in Servers |-> NoResult]

Contribute(s) ==
    /\ round[s] < LastRound
    /\ \A p \in Servers : round[p] >= round[s]
    /\ round' = [round EXCEPT ![s] = @ + 1]
    /\ UNCHANGED result

Publish(s) ==
    /\ result[s] = NoResult
    /\ \A p \in Servers : round[p] = LastRound
    /\ result' = [result EXCEPT ![s] = Result]
    /\ UNCHANGED round

Next == \E s \in Servers : Contribute(s) \/ Publish(s)

Spec == Init /\ [][Next]_vars

FairSpec == Spec /\ \A s \in Servers : WF_vars(Contribute(s) \/ Publish(s))
=============================================================================

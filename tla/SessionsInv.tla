---------------------------- MODULE SessionsInv ----------------------------
(***************************************************************************)
(* The inductive invariant of Sessions: what a server has taken, sent and  *)
(* stored belongs to the session it is in.                                 *)
(***************************************************************************)
EXTENDS Sessions

\* The round of the session that s is in; there is none after the last one.
Round(s) == IF case_idx[s] < Sessions THEN stms[s][case_idx[s]].round ELSE 0

\* The client is in the slowest server's session.
ClientInv ==
    /\ sid = Sessions => submitted = 0
    /\ \A s \in Servers :
          /\ case_idx[s] \in {sid, sid + 1}
          /\ s \in completion_status => case_idx[s] = sid + 1
          /\ \A i \in 1 .. Len(responses[s]) : responses[s][i] < case_idx[s]

\* What a server has sent: four rounds of each session in turn.
LogInv ==
    \A s \in Servers :
        /\ Len(sent[s]) = LastRound * case_idx[s] + Round(s)
        /\ \A i \in 1 .. Len(sent[s]) :
              sent[s][i] = [sid |-> (i - 1) \div LastRound, round |-> ((i - 1) % LastRound) + 1]

\* Everything of the sessions before is taken, and nothing that was not sent.
ReadInv ==
    \A s \in Servers :
        /\ N * case_idx[s] <= inputs_read[s]
        /\ inputs_read[s] <= N * sid + submitted
        /\ \A p \in Servers \ {s} :
              /\ LastRound * case_idx[s] <= read[s][p]
              /\ read[s][p] <= Len(sent[p])

\* The messages that a state machine has, by round (0 for an input) and sender.
Has(stm) == {<< 0, x >> : x \in stm.inputs} \cup stm.got

\* s has taken this message of the session it is in, or it is its own.
Taken(s, r, p) ==
    IF r = 0 THEN N * case_idx[s] + p < inputs_read[s]
    ELSE p # s => LastRound * case_idx[s] + r <= read[s][p]

\* Two messages of one connection are handled in the order they were sent.
InOrder(q, p, r, t) ==
    /\ q = 0 /\ r = 0 => p < t
    /\ q > 0 /\ r > 0 /\ p = t => q < r

\* Only the state machine of the session exists, and has what was taken.
StmInv ==
    \A s \in Servers :
        /\ \A k \in Sids : k # case_idx[s] => stms[s][k] = NewStm
        /\ case_idx[s] < Sessions =>
              /\ Round(s) > 0 => stms[s][case_idx[s]].inputs = Inputs
              /\ \A m \in Has(stms[s][case_idx[s]]) : Taken(s, m[1], m[2])

\* The i-th message of the queue is of the session that s is in, and comes after
\* what its state machine has and what is queued before it.
Follows(s, stm, queue, i) ==
    LET m == queue[i]
    IN  /\ m.info = case_idx[s] /\ m.sid = case_idx[s]
        /\ m.round > 0 => m.from # s
        /\ Taken(s, m.round, m.from)
        /\ \A h \in Has(stm) : InOrder(h[1], h[2], m.round, m.from)
        /\ \A j \in 1 .. i-1 : InOrder(queue[j].round, queue[j].from, m.round, m.from)

InTurn(s, i) == Follows(s, stms[s][case_idx[s]], deserialzed_msgs[s], i)

\* What waits to be handled is of the session, and in order.
QueueInv ==
    \A s \in Servers :
        /\ s \notin updating => deserialzed_msgs[s] # << >>
        /\ \A i \in 1 .. Len(deserialzed_msgs[s]) : InTurn(s, i)

\* s has opened the predicates of session k.
Checked(s, k) == k < case_idx[s] \/ (k = case_idx[s] /\ Round(s) > CheckRound)

\* What s has blamed: the malformed inputs of the sessions it has checked.
BlameInv ==
    \A s \in Servers :
        /\ Len(outputs[s]) = case_idx[s]
        /\ corrupted_clients[s] =
              UNION {Malformed[k] : k \in {j \in Sids : Checked(s, j)}}

\* The inductive invariant: no message is taken, stored or sent in a session
\* that is not its own, because a server that ends a session has handled all
\* that was ever sent to it in that session.
SessInv ==
    /\ TypeOK /\ ClientInv /\ LogInv /\ ReadInv /\ StmInv /\ QueueInv /\ BlameInv
    /\ OutputsAgree
=============================================================================

-------------------------- MODULE Sessions_proofs --------------------------
(***************************************************************************)
(* Proofs about Sessions for any set of servers, any number of sessions    *)
(* and of inputs, any malformed inputs and any servers that exit.          *)
(***************************************************************************)
EXTENDS SessionsInv, SequenceTheorems, TLAPS

USE DEF LastRound, CheckRound, Client

\* Multiples of N, the place of an input in the stream of all sessions.
LEMMA Times ==
    /\ N \in Nat /\ N > 0 /\ Sessions \in Nat
    /\ \A k \in Nat : N * k \in Nat /\ N * (k + 1) = N * k + N
    /\ \A k \in Nat : k < Sessions => N * k + N <= Sessions * N
    /\ \A k \in Nat : k * N = N * k
<1>1. \A k \in Nat : N * k \in Nat /\ N * (k + 1) = N * k + N /\ k * N = N * k
  BY SessionsAssumption
<1>2. ASSUME NEW k \in Nat, k < Sessions PROVE N * k + N <= Sessions * N
  <2>1. PICK d \in Nat : Sessions = k + 1 + d
    <3>1. Sessions - (k + 1) \in Nat
      BY <1>2, SessionsAssumption
    <3> QED BY <3>1, SessionsAssumption
  <2>2. Sessions * N = N * k + N + N * d /\ N * d \in Nat
    BY <2>1, SessionsAssumption
  <2> QED BY <1>1, <2>2
<1> QED BY <1>1, <1>2, SessionsAssumption

LEMMA Quotient ==
    ASSUME NEW a \in Nat, NEW k \in Nat, N * k <= a, a < N * k + N
    PROVE  a \div N = k /\ a % N = a - N * k
<1> DEFINE q == a \div N
           r == a % N
<1>1. q \in Nat /\ r \in 0 .. N-1 /\ a = N * q + r
  BY SessionsAssumption
<1> HIDE DEF q, r
<1>2. q <= k
  <2>1. CASE q > k
    <3>1. PICK d \in Nat : q = k + 1 + d
      <4>1. q - (k + 1) \in Nat
        BY <1>1, <2>1
      <4> QED BY <4>1, <1>1
    <3>2. N * q = N * k + N + N * d /\ N * d \in Nat /\ N * k \in Nat
      BY <3>1, SessionsAssumption
    <3> QED BY <3>2, <1>1, Times
  <2> QED BY <2>1, <1>1
<1>3. k <= q
  <2>1. CASE k > q
    <3>1. PICK d \in Nat : k = q + 1 + d
      <4>1. k - (q + 1) \in Nat
        BY <1>1, <2>1
      <4> QED BY <4>1, <1>1
    <3>2. N * k = N * q + N + N * d /\ N * d \in Nat /\ N * q \in Nat
      BY <3>1, <1>1, SessionsAssumption
    <3> QED BY <3>2, <1>1, Times
  <2> QED BY <2>1, <1>1
<1>4. q = k /\ r = a - N * k
  BY <1>1, <1>2, <1>3, Times
<1> QED BY <1>4 DEF q, r

\* A position in the stream of one server: session k, round r + 1.
LEMMA QuotientOfRound ==
    ASSUME NEW k \in Nat, NEW r \in 0 .. 3
    PROVE  (4 * k + r) \div 4 = k /\ (4 * k + r) % 4 = r
OBVIOUS
-----------------------------------------------------------------------------
\* What the invariant says of the numbers of a server.
LEMMA Numbers ==
    ASSUME SessInv, NEW s \in Servers
    PROVE  /\ case_idx[s] \in Nat /\ case_idx[s] <= Sessions
           /\ case_idx[s] < Sessions => case_idx[s] \in Sids
           /\ case_idx[s] = sid \/ case_idx[s] = sid + 1
           /\ sid \in Nat /\ sid <= Sessions /\ submitted \in Nat /\ submitted <= N
           /\ inputs_read[s] \in Nat
           /\ Round(s) \in 0 .. 4
           /\ Len(sent[s]) = 4 * case_idx[s] + Round(s)
           /\ \A p \in Servers : read[s][p] \in Nat
           /\ Len(deserialzed_msgs[s]) \in Nat
<1>1. case_idx[s] \in Nat /\ case_idx[s] <= Sessions /\ sid \in Nat /\ sid <= Sessions
      /\ submitted \in Nat /\ submitted <= N /\ inputs_read[s] \in Nat
      /\ \A p \in Servers : read[s][p] \in Nat
  BY DEF SessInv, TypeOK
<1>2. case_idx[s] < Sessions => case_idx[s] \in Sids
  BY <1>1, Times DEF Sids
<1>3. Round(s) \in 0 .. 4
  BY <1>2 DEF SessInv, TypeOK, Stm, Round
<1>4. case_idx[s] = sid \/ case_idx[s] = sid + 1
  BY DEF SessInv, ClientInv
<1>6. Len(sent[s]) = 4 * case_idx[s] + Round(s)
  BY DEF SessInv, LogInv
<1>7. Len(deserialzed_msgs[s]) \in Nat
  BY DEF SessInv, TypeOK
<1> QED BY <1>1, <1>2, <1>3, <1>4, <1>6, <1>7, Times

\* Where the session of a server and what it has read are in the client's
\* stream of inputs.
LEMMA InputNumbers ==
    ASSUME SessInv, NEW s \in Servers
    PROVE  \E a, b \in Nat :
              /\ a = N * case_idx[s] /\ b = N * sid
              /\ case_idx[s] = sid => a = b
              /\ case_idx[s] = sid + 1 => a = b + N
              /\ a <= inputs_read[s] /\ inputs_read[s] <= b + submitted
              /\ N \in Nat /\ N > 0
<1>1. N * case_idx[s] \in Nat /\ N * sid \in Nat /\ N * (sid + 1) = N * sid + N
  <2>1. case_idx[s] \in Nat /\ sid \in Nat
    BY Numbers
  <2> QED BY <2>1, Times
<1>2. N * case_idx[s] <= inputs_read[s] /\ inputs_read[s] <= N * sid + submitted
  BY DEF SessInv, ReadInv
<1> QED BY <1>1, <1>2, Times

\* Nobody sends more than four rounds per session.
LEMMA LogBound ==
    ASSUME SessInv, NEW s \in Servers
    PROVE  Len(sent[s]) \in Nat /\ Len(sent[s]) <= Sessions * 4
<1>4. Sessions \in Nat
  BY Times
<1>2. case_idx[s] = Sessions => Round(s) = 0
  BY <1>4 DEF Round
<1>3. /\ Len(sent[s]) = 4 * case_idx[s] + Round(s) /\ Round(s) \in 0 .. 4
      /\ case_idx[s] \in Nat /\ case_idx[s] <= Sessions
  BY Numbers
<1>1. case_idx[s] = Sessions \/ (case_idx[s] + 1 <= Sessions)
  BY <1>3, <1>4
<1> QED BY <1>1, <1>2, <1>3, <1>4

\* The inputs of the last client come last: who has them all is in the
\* client's session.
LEMMA AllInputsTaken ==
    ASSUME SessInv, NEW s \in Servers, N * case_idx[s] + N - 1 < inputs_read[s]
    PROVE  case_idx[s] = sid
<1>1. PICK a, b \in Nat :
              /\ a = N * case_idx[s] /\ b = N * sid
              /\ case_idx[s] = sid + 1 => a = b + N
              /\ a <= inputs_read[s] /\ inputs_read[s] <= b + submitted
              /\ N \in Nat /\ N > 0
  BY InputNumbers
<1>2. a + N - 1 < inputs_read[s]
  BY <1>1
<1>3. /\ a \in Nat /\ b \in Nat /\ N \in Nat /\ N > 0
      /\ case_idx[s] = sid + 1 => a = b + N
      /\ inputs_read[s] <= b + submitted /\ submitted <= N
      /\ inputs_read[s] \in Nat /\ submitted \in Nat
      /\ case_idx[s] = sid \/ case_idx[s] = sid + 1
  BY <1>1, Numbers
<1> QED BY <1>2, <1>3

\* A server that has sent shares is in the client's session.
LEMMA Begun ==
    ASSUME SessInv, NEW s \in Servers, Round(s) > 0
    PROVE  case_idx[s] = sid
<1>1. case_idx[s] < Sessions
  BY DEF Round
<1>2. N - 1 \in stms[s][case_idx[s]].inputs
  BY <1>1, Times DEF SessInv, StmInv, Inputs
<1>3. << 0, N - 1 >> \in Has(stms[s][case_idx[s]])
  BY <1>2 DEF Has
<1>4. Taken(s, 0, N - 1)
  BY <1>1, <1>3 DEF SessInv, StmInv
<1> QED BY <1>4, AllInputsTaken, Numbers, Times DEF Taken

\* A server that is ahead has sent nothing in its session, and the one behind
\* it everything in its own.
LEMMA Ahead ==
    ASSUME SessInv, NEW s \in Servers, NEW p \in Servers, case_idx[p] > case_idx[s]
    PROVE  /\ case_idx[s] = sid /\ case_idx[p] = sid + 1
           /\ Round(p) = 0 /\ Round(s) = 4
           /\ Len(sent[p]) = 4 * case_idx[p] /\ Len(sent[s]) = 4 * case_idx[p]
<1>1. case_idx[s] = sid /\ case_idx[p] = sid + 1
  BY Numbers
<1>2. Round(p) = 0
  <2>1. ~ (Round(p) > 0)
    <3>1. sid \in Nat /\ case_idx[p] # sid
      BY <1>1 DEF SessInv, TypeOK
    <3> QED BY <3>1, Begun
  <2>2. Round(p) \in 0 .. 4
    BY Numbers
  <2> QED BY <2>1, <2>2
<1>3. 4 * case_idx[p] <= read[p][s] /\ read[p][s] <= Len(sent[s])
  BY <1>1, Numbers DEF SessInv, ReadInv
<1>4. Len(sent[s]) = 4 * sid + Round(s) /\ Round(s) \in 0 .. 4
  BY <1>1, Numbers
<1>5. Len(sent[p]) = 4 * (sid + 1)
  BY <1>1, <1>2, Numbers
<1>6. sid \in Nat /\ read[p][s] \in Nat
  BY Numbers
<1> QED BY <1>1, <1>2, <1>3, <1>4, <1>5, <1>6

\* What has come from a peer and is not read yet is of the current session.
LEMMA Upcoming ==
    ASSUME SessInv, NEW s \in Servers, NEW p \in Servers, p # s,
           read[s][p] < Len(sent[p])
    PROVE  \E r \in 1 .. 4 :
              /\ read[s][p] + 1 = 4 * case_idx[s] + r
              /\ sent[p][read[s][p] + 1] = [sid |-> case_idx[s], round |-> r]
<1>1. 4 * case_idx[s] <= read[s][p]
  BY DEF SessInv, ReadInv
<1> DEFINE c == case_idx[s]
           d == case_idx[p]
<1>8. c \in Nat /\ d \in Nat /\ read[s][p] \in Nat /\ sid \in Nat
  BY Numbers
<1>9. 4 * c <= read[s][p] /\ read[s][p] < Len(sent[p]) /\ Len(sent[p]) = 4 * d + Round(p)
      /\ Round(p) \in 0 .. 4
  BY <1>1, Numbers
<1> HIDE DEF c, d
<1>2. read[s][p] < 4 * c + 4
  <2>1. CASE d > c
    <3>1. Len(sent[p]) = 4 * d /\ d = c + 1
      BY <2>1, Ahead DEF c, d
    <3> QED BY <3>1, <1>8, <1>9
  <2>2. CASE ~ (d > c)
    BY <2>2, <1>8, <1>9
  <2> QED BY <2>1, <2>2
<1>3. PICK r \in 0 .. 3 : read[s][p] = 4 * c + r
  <2>1. read[s][p] - 4 * c \in 0 .. 3
    BY <1>2, <1>8, <1>9
  <2> QED BY <2>1, <1>8
<1>4. read[s][p] \div 4 = case_idx[s] /\ read[s][p] % 4 = r
  BY <1>3, <1>8, QuotientOfRound DEF c
<1>5. read[s][p] + 1 \in 1 .. Len(sent[p]) /\ (read[s][p] + 1) - 1 = read[s][p]
  BY Numbers
<1>6. sent[p][read[s][p] + 1] = [sid |-> read[s][p] \div 4, round |-> (read[s][p] % 4) + 1]
  BY <1>5 DEF SessInv, LogInv
<1>7. r + 1 \in 1 .. 4 /\ read[s][p] + 1 = 4 * case_idx[s] + (r + 1)
  BY <1>3, <1>8 DEF c
<1> QED BY <1>4, <1>6, <1>7
-----------------------------------------------------------------------------
LEMMA InitInv == Init => SessInv
<1> SUFFICES ASSUME Init PROVE SessInv
  OBVIOUS
<1>1. \A s \in Servers : /\ responses[s] = << >> /\ sent[s] = << >> /\ outputs[s] = << >>
                         /\ deserialzed_msgs[s] = << >>
                         /\ case_idx[s] = 0 /\ inputs_read[s] = 0 /\ corrupted_clients[s] = {}
                         /\ \A p \in Servers : read[s][p] = 0
                         /\ \A k \in Sids : stms[s][k] = NewStm
  BY DEF Init
<1>2. NewStm \in Stm /\ NewStm.round = 0 /\ Has(NewStm) = {}
  BY DEF NewStm, Stm, Has
<1>3. TypeOK
  <2>1. Sessions * 4 \in Nat /\ Sessions * N \in Nat
    BY Times
  <2>2. /\ responses \in [Servers -> Seq(Sids)]
        /\ sent \in [Servers -> Seq(Shares)]
        /\ deserialzed_msgs \in [Servers -> Seq(Deserialized)]
        /\ outputs \in [Servers -> Seq(SUBSET Inputs)]
    BY DEF Init
  <2>3. stms \in [Servers -> [Sids -> Stm]]
    BY <1>2 DEF Init
  <2>4. /\ reach \in [Servers -> [Servers -> 0 .. Sessions * 4]]
        /\ read \in [Servers -> [Servers -> 0 .. Sessions * 4]]
        /\ inputs_read \in [Servers -> 0 .. Sessions * N]
        /\ case_idx \in [Servers -> 0 .. Sessions]
    BY <2>1, Times DEF Init
  <2> QED BY <2>2, <2>3, <2>4, Times DEF Init, TypeOK
<1>4. \A s \in Servers : Round(s) = 0
  <2>1. 0 < Sessions => 0 \in Sids
    BY Times DEF Sids
  <2> QED BY <1>1, <1>2, <2>1 DEF Round
<1>5. ClientInv /\ LogInv /\ ReadInv
  BY <1>1, <1>4, Times DEF Init, ClientInv, LogInv, ReadInv
<1>6. StmInv
  <2>1. 0 < Sessions => 0 \in Sids
    BY Times DEF Sids
  <2>2. ASSUME NEW s \in Servers, case_idx[s] < Sessions
        PROVE  Has(stms[s][case_idx[s]]) = {}
    BY <1>1, <1>2, <2>1, <2>2
  <2> SUFFICES ASSUME NEW s \in Servers
               PROVE  /\ \A k \in Sids : k # case_idx[s] => stms[s][k] = NewStm
                      /\ case_idx[s] < Sessions =>
                            /\ Round(s) > 0 => stms[s][case_idx[s]].inputs = Inputs
                            /\ \A m \in Has(stms[s][case_idx[s]]) : Taken(s, m[1], m[2])
    BY DEF StmInv
  <2>3. \A k \in Sids : stms[s][k] = NewStm
    BY <1>1
  <2>4. ~ (Round(s) > 0)
    BY <1>4
  <2> QED BY <2>2, <2>3, <2>4
<1>7. QueueInv
  <2>1. \A s \in Servers : s \in updating /\ Len(deserialzed_msgs[s]) = 0
    BY <1>1 DEF Init
  <2>2. \A s \in Servers : \A i \in 1 .. Len(deserialzed_msgs[s]) : FALSE
    BY <2>1
  <2> QED BY <2>1, <2>2 DEF QueueInv
<1>8. BlameInv
  <2> SUFFICES ASSUME NEW s \in Servers
               PROVE  corrupted_clients[s] = UNION {Malformed[k] : k \in {j \in Sids : Checked(s, j)}}
    BY <1>1 DEF BlameInv
  <2>1. \A j \in Sids : ~ Checked(s, j)
    BY <1>1, <1>4, Times DEF Checked, Sids
  <2> QED BY <1>1, <2>1
<1>9. OutputsAgree
  BY <1>1 DEF OutputsAgree
<1> QED BY <1>3, <1>5, <1>6, <1>7, <1>8, <1>9 DEF SessInv
-----------------------------------------------------------------------------
(***************************************************************************)
(* What each part of the invariant depends on.                             *)
(***************************************************************************)
LEMMA ClientFrame ==
    ASSUME ClientInv, UNCHANGED << sid, submitted, completion_status, responses, case_idx >>
    PROVE  ClientInv'
BY DEF ClientInv

LEMMA LogFrame ==
    ASSUME LogInv, UNCHANGED << sent, case_idx, stms >>
    PROVE  LogInv'
BY DEF LogInv, Round

LEMMA ReadFrame ==
    ASSUME ReadInv, UNCHANGED << case_idx, inputs_read, sid, submitted, read, sent >>
    PROVE  ReadInv'
BY DEF ReadInv

LEMMA StmFrame ==
    ASSUME StmInv, UNCHANGED << stms, case_idx, inputs_read, read >>
    PROVE  StmInv'
BY DEF StmInv, Round, Has, Taken

LEMMA TurnFrame ==
    ASSUME NEW s \in Servers, NEW i \in Nat, InTurn(s, i),
           UNCHANGED << deserialzed_msgs, stms, case_idx, inputs_read, read >>
    PROVE  InTurn(s, i)'
BY DEF InTurn, Follows, Has, Taken, InOrder

LEMMA QueueFrame ==
    ASSUME QueueInv, UNCHANGED << updating, deserialzed_msgs, stms, case_idx, inputs_read, read >>
    PROVE  QueueInv'
BY TurnFrame DEF QueueInv

LEMMA BlameFrame ==
    ASSUME BlameInv, OutputsAgree, UNCHANGED << outputs, case_idx, corrupted_clients, stms >>
    PROVE  BlameInv' /\ OutputsAgree'
BY DEF BlameInv, OutputsAgree, Checked, Round
-----------------------------------------------------------------------------
(***************************************************************************)
(* Start-up and the client.                                                *)
(***************************************************************************)
LEMMA ListenInv ==
    ASSUME SessInv, NEW s \in Servers, Listen(s)
    PROVE  SessInv'
<1>1. TypeOK'
  BY DEF SessInv, TypeOK, Listen, clientVars, linkVars, mainVars
<1> QED BY <1>1, ClientFrame, LogFrame, ReadFrame, StmFrame, QueueFrame, BlameFrame
        DEF SessInv, Listen, clientVars, linkVars, mainVars

LEMMA ConnectInv ==
    ASSUME SessInv, NEW p \in Servers \cup {Client}, Connect(p)
    PROVE  SessInv'
<1>1. TypeOK'
  <2>1. PICK s \in Missing(p) :
           /\ linked' = [linked EXCEPT ![p] = @ \cup {s}]
           /\ connected' = IF p = Client THEN connected \cup {s} ELSE connected
    BY DEF Connect
  <2>2. s \in Servers
    BY <2>1 DEF Missing
  <2>3. linked' \in [Servers \cup {Client} -> SUBSET Servers] /\ connected' \subseteq Servers
    BY <2>1, <2>2 DEF SessInv, TypeOK
  <2> QED BY <2>3 DEF SessInv, TypeOK, Connect, linkVars, mainVars
<1> QED BY <1>1, ClientFrame, LogFrame, ReadFrame, StmFrame, QueueFrame, BlameFrame
        DEF SessInv, Connect, linkVars, mainVars

LEMMA SubmitInv ==
    ASSUME SessInv, Submit
    PROVE  SessInv'
<1>1. sid < Sessions /\ submitted < N /\ submitted' = submitted + 1 /\ sid' = sid
      /\ UNCHANGED << startVars, completion_status, responses, connected, linkVars, mainVars,
                      exited >>
  BY DEF Submit
<1>2. sid \in Nat /\ submitted \in Nat /\ Sessions \in Nat /\ N \in Nat
  BY Times DEF SessInv, TypeOK
<1>3. TypeOK'
  <2>1. submitted' \in 0 .. N
    BY <1>1, <1>2
  <2> QED BY <1>1, <2>1 DEF SessInv, TypeOK, startVars, linkVars, mainVars
<1>4. ClientInv'
  BY <1>1, <1>2 DEF SessInv, ClientInv, mainVars
<1>5. ReadInv'
  <2>1. ASSUME NEW s \in Servers PROVE inputs_read[s] <= N * sid + (submitted + 1)
    <3>1. N * sid \in Nat /\ inputs_read[s] \in Nat
      BY <1>2, Times, Numbers
    <3>2. inputs_read[s] <= N * sid + submitted
      BY DEF SessInv, ReadInv
    <3> HIDE DEF SessInv
    <3> DEFINE b == N * sid
    <3> HIDE DEF b
    <3>3. b \in Nat /\ inputs_read[s] <= b + submitted
      BY <3>1, <3>2 DEF b
    <3>4. inputs_read[s] <= b + (submitted + 1)
      BY <3>1, <3>3, <1>2
    <3> QED BY <3>4 DEF b
  <2> QED BY <1>1, <2>1 DEF SessInv, ReadInv, linkVars, mainVars
<1> QED BY <1>1, <1>3, <1>4, <1>5, LogFrame, StmFrame, QueueFrame, BlameFrame
        DEF SessInv, linkVars, mainVars

LEMMA PollCompletionInv ==
    ASSUME SessInv, NEW s \in Servers, PollCompletion(s)
    PROVE  SessInv'
<1>1. /\ responses[s] # << >> /\ responses' = [responses EXCEPT ![s] = Tail(@)]
      /\ completion_status' = IF Head(responses[s]) = sid
                              THEN completion_status \cup {s} ELSE completion_status
      /\ UNCHANGED << startVars, sid, submitted, connected, linkVars, mainVars, exited >>
  BY DEF PollCompletion
<1>2. responses[s] \in Seq(Sids) /\ responses \in [Servers -> Seq(Sids)]
  BY DEF SessInv, TypeOK
<1>3. /\ Tail(responses[s]) \in Seq(Sids) /\ Head(responses[s]) = responses[s][1]
      /\ Len(responses[s]) \in Nat /\ Len(responses[s]) > 0
      /\ Len(Tail(responses[s])) = Len(responses[s]) - 1
      /\ \A i \in 1 .. Len(responses[s]) - 1 : Tail(responses[s])[i] = responses[s][i+1]
  BY <1>1, <1>2
<1>4. TypeOK'
  <2>1. responses' \in [Servers -> Seq(Sids)] /\ completion_status' \subseteq Servers
    BY <1>1, <1>2, <1>3 DEF SessInv, TypeOK
  <2> QED BY <1>1, <2>1 DEF SessInv, TypeOK, startVars, linkVars, mainVars
<1>5. ClientInv'
  <2>1. \A i \in 1 .. Len(responses[s]) : responses[s][i] < case_idx[s]
    BY DEF SessInv, ClientInv
  <2>2. Head(responses[s]) = sid => case_idx[s] = sid + 1
    <3>1. Head(responses[s]) < case_idx[s]
      BY <1>3, <2>1
    <3> QED BY <3>1, Numbers
  <2>3. \A i \in 1 .. Len(Tail(responses[s])) : Tail(responses[s])[i] < case_idx[s]
    BY <1>3, <2>1
  <2>4. \A t \in Servers : responses'[t] = IF t = s THEN Tail(responses[s]) ELSE responses[t]
    BY <1>1, <1>2
  <2> QED BY <1>1, <2>2, <2>3, <2>4 DEF SessInv, ClientInv, mainVars
<1> QED BY <1>1, <1>4, <1>5, LogFrame, ReadFrame, StmFrame, QueueFrame, BlameFrame
        DEF SessInv, linkVars, mainVars

LEMMA NextSessionInv ==
    ASSUME SessInv, NextSession
    PROVE  SessInv'
<1>1. /\ sid < Sessions /\ submitted = N /\ sid' = sid + 1 /\ submitted' = 0
      /\ completion_status = Servers /\ completion_status' = {}
      /\ UNCHANGED << startVars, responses, connected, linkVars, mainVars, exited >>
  BY DEF NextSession, AllCompleted
<1>2. sid \in Nat /\ Sessions \in Nat /\ N \in Nat
  BY Times DEF SessInv, TypeOK
<1>3. TypeOK'
  <2>1. sid' \in 0 .. Sessions /\ submitted' \in 0 .. N
    BY <1>1, <1>2
  <2> QED BY <1>1, <2>1 DEF SessInv, TypeOK, startVars, linkVars, mainVars
<1>4. ClientInv'
  BY <1>1, <1>2 DEF SessInv, ClientInv, mainVars
<1>5. ReadInv'
  <2>1. \A s \in Servers : N * (sid + 1) + 0 = N * sid + N
    BY <1>2, Times
  <2> QED BY <1>1, <2>1 DEF SessInv, ReadInv, linkVars, mainVars
<1> QED BY <1>1, <1>3, <1>4, <1>5, LogFrame, StmFrame, QueueFrame, BlameFrame
        DEF SessInv, linkVars, mainVars

LEMMA ConnectionClosedInv ==
    ASSUME SessInv, NEW s \in Servers, ConnectionClosed(s)
    PROVE  SessInv'
<1>1. TypeOK'
  BY DEF SessInv, TypeOK, ConnectionClosed, startVars, linkVars, mainVars
<1> QED BY <1>1, ClientFrame, LogFrame, ReadFrame, StmFrame, QueueFrame, BlameFrame
        DEF SessInv, ConnectionClosed, linkVars, mainVars

\* What an exit cuts off was not read, and the responses that are left were
\* sent before.
LEMMA ExitInv ==
    ASSUME SessInv, NEW s \in Servers, Exit(s)
    PROVE  SessInv'
<1>1. UNCHANGED << startVars, sid, submitted, completion_status, connected, inputs_read, sent,
                   read, mainVars >> /\ exited' = exited \cup {s}
  BY DEF Exit
<1>2. PICK arrive \in [Servers -> 0 .. Len(sent[s])] : reach' = [reach EXCEPT ![s] = arrive]
  BY DEF Exit
<1>3. PICK n \in 0 .. Len(responses[s]) :
         responses' = [responses EXCEPT ![s] = SubSeq(@, 1, n)]
  BY DEF Exit
<1>4. responses[s] \in Seq(Sids) /\ responses \in [Servers -> Seq(Sids)]
  BY DEF SessInv, TypeOK
<1>5. /\ SubSeq(responses[s], 1, n) \in Seq(Sids) /\ Len(SubSeq(responses[s], 1, n)) = n
      /\ \A i \in 1 .. n : SubSeq(responses[s], 1, n)[i] = responses[s][i]
  BY <1>3, <1>4, SubSeqProperties
<1>6. TypeOK'
  <2>1. Len(sent[s]) \in Nat /\ Len(sent[s]) <= Sessions * 4
    BY LogBound
  <2>2. arrive \in [Servers -> 0 .. Sessions * 4]
    BY <2>1, Times
  <2>3. reach' \in [Servers -> [Servers -> 0 .. Sessions * 4]]
    BY <1>2, <2>2 DEF SessInv, TypeOK
  <2>4. responses' \in [Servers -> Seq(Sids)]
    BY <1>3, <1>4, <1>5
  <2> QED BY <1>1, <2>3, <2>4 DEF SessInv, TypeOK, startVars, mainVars, Exit
<1>7. ClientInv'
  <2>1. \A t \in Servers :
           responses'[t] = IF t = s THEN SubSeq(responses[s], 1, n) ELSE responses[t]
    BY <1>3, <1>4
  <2>2. \A i \in 1 .. n : SubSeq(responses[s], 1, n)[i] < case_idx[s]
    BY <1>3, <1>4, <1>5 DEF SessInv, ClientInv
  <2> QED BY <1>1, <1>5, <2>1, <2>2 DEF SessInv, ClientInv, mainVars
<1> QED BY <1>1, <1>6, <1>7, LogFrame, ReadFrame, StmFrame, QueueFrame, BlameFrame
        DEF SessInv, mainVars
-----------------------------------------------------------------------------
(***************************************************************************)
(* update(): what is taken is of the session, and comes last in its        *)
(* connection.                                                             *)
(***************************************************************************)
\* r is the round and p the sender of a message.
Possible(r, p) == (r = 0 /\ p \in Inputs) \/ (r \in 1 .. 4 /\ p \in Servers)

LEMMA PossibleTypes ==
    ASSUME NEW r, NEW p, Possible(r, p)
    PROVE  r \in 0 .. 4 /\ p \in Nat /\ (r > 0 => p \in Servers)
<1>1. Servers \subseteq Nat /\ Inputs \subseteq Nat
  BY ServersAssumption, Times DEF Inputs
<1>2. CASE r = 0 /\ p \in Inputs
  BY <1>1, <1>2
<1>3. CASE r \in 1 .. 4 /\ p \in Servers
  BY <1>1, <1>3
<1> QED BY <1>2, <1>3 DEF Possible

LEMMA MessageTypes ==
    ASSUME NEW m \in Deserialized
    PROVE  Possible(m.round, m.from)
BY DEF Possible, Deserialized

\* What a state machine has is of some round and some sender.
LEMMA HasTypes ==
    ASSUME SessInv, NEW s \in Servers, case_idx[s] < Sessions,
           NEW h \in Has(stms[s][case_idx[s]])
    PROVE  Possible(h[1], h[2])
<1>1. case_idx[s] \in Sids
  BY Numbers
<1>2. stms[s][case_idx[s]] \in Stm
  BY <1>1 DEF SessInv, TypeOK
<1> QED BY <1>2 DEF Stm, Has, Possible

LEMMA QueueTypes ==
    ASSUME SessInv, NEW s \in Servers, NEW i \in 1 .. Len(deserialzed_msgs[s])
    PROVE  deserialzed_msgs[s][i] \in Deserialized
BY DEF SessInv, TypeOK

LEMMA AppendInv ==
    ASSUME SessInv, NEW s \in Servers, InSession(s), NEW m \in Deserialized,
           deserialzed_msgs' = [deserialzed_msgs EXCEPT ![s] = Append(@, m)],
           UNCHANGED << stms, case_idx, updating >>,
           \A t \in Servers : \A r, p : Possible(r, p) /\ Taken(t, r, p) => Taken(t, r, p)',
           m.info = case_idx[s], m.sid = case_idx[s], m.round > 0 => m.from # s,
           Taken(s, m.round, m.from)',
           \A r, p : Possible(r, p) /\ Taken(s, r, p) => InOrder(r, p, m.round, m.from)
    PROVE  StmInv' /\ QueueInv' /\ deserialzed_msgs' \in [Servers -> Seq(Deserialized)]
<1>1. StmInv'
  <2>1. ASSUME NEW t \in Servers, case_idx[t] < Sessions, NEW h \in Has(stms[t][case_idx[t]])
        PROVE  Taken(t, h[1], h[2])'
    BY <2>1, HasTypes DEF SessInv, StmInv
  <2> QED BY <2>1 DEF SessInv, StmInv, Round, Has
<1> DEFINE queue(t) == deserialzed_msgs[t]
<1>2. deserialzed_msgs \in [Servers -> Seq(Deserialized)]
  BY DEF SessInv, TypeOK
<1>3. deserialzed_msgs' \in [Servers -> Seq(Deserialized)]
  BY <1>2
<1>8. PICK n \in Nat : n = Len(queue(s))
  BY <1>2
<1>4. /\ \A t \in Servers : t # s => deserialzed_msgs'[t] = queue(t)
      /\ deserialzed_msgs'[s] = Append(queue(s), m)
  BY <1>2
<1>5. /\ Len(deserialzed_msgs'[s]) = n + 1 /\ deserialzed_msgs'[s][n + 1] = m
      /\ \A i \in 1 .. n : deserialzed_msgs'[s][i] = queue(s)[i]
  BY <1>2, <1>4, <1>8
<1>6. ASSUME NEW t \in Servers, NEW i \in 1 .. Len(queue(t))
      PROVE  InTurn(t, i) /\ Taken(t, queue(t)[i].round, queue(t)[i].from)'
  <2>1. InTurn(t, i)
    BY DEF SessInv, QueueInv
  <2>2. Possible(queue(t)[i].round, queue(t)[i].from)
    BY QueueTypes, MessageTypes
  <2>3. Taken(t, queue(t)[i].round, queue(t)[i].from)
    BY <2>1 DEF InTurn, Follows
  <2> QED BY <2>1, <2>2, <2>3
<1>7. QueueInv'
  <2>1. \A t \in Servers \ updating : deserialzed_msgs'[t] # << >>
    BY <1>2, <1>4 DEF SessInv, QueueInv
  <2>2. ASSUME NEW t \in Servers, NEW i \in 1 .. Len(queue(t))
        PROVE  InTurn(t, i)'
    <3>1. deserialzed_msgs'[t][i] = queue(t)[i]
          /\ \A j \in 1 .. i-1 : deserialzed_msgs'[t][j] = queue(t)[j]
      BY <1>4, <1>5, <1>8
    <3> QED BY <3>1, <1>6 DEF InTurn, Follows, Has, InOrder
  <2>3. InTurn(s, n + 1)'
    <3>1. \A h \in Has(stms[s][case_idx[s]]) : InOrder(h[1], h[2], m.round, m.from)
      BY HasTypes DEF SessInv, StmInv, InSession
    <3>2. ASSUME NEW j \in 1 .. n
          PROVE  InOrder(queue(s)[j].round, queue(s)[j].from, m.round, m.from)
      <4>1. Possible(queue(s)[j].round, queue(s)[j].from)
        BY <1>8, QueueTypes, MessageTypes
      <4>2. Taken(s, queue(s)[j].round, queue(s)[j].from)
        BY <1>6, <1>8 DEF InTurn, Follows
      <4> QED BY <4>1, <4>2
    <3>3. deserialzed_msgs'[s][n + 1] = m /\ 1 .. (n + 1) - 1 = 1 .. n
          /\ \A j \in 1 .. n : deserialzed_msgs'[s][j] = queue(s)[j]
      BY <1>5
    <3> QED BY <3>1, <3>2, <3>3 DEF InTurn, Follows, Has, InOrder
  <2>4. ASSUME NEW t \in Servers, NEW i \in 1 .. Len(deserialzed_msgs'[t])
        PROVE  InTurn(t, i)'
    <3>1. CASE t # s
      BY <1>4, <2>2, <3>1
    <3>2. CASE t = s /\ i # n + 1
      <4>1. i \in 1 .. n
        BY <1>5, <3>2
      <4> QED BY <1>8, <2>2, <3>2, <4>1
    <3>3. CASE t = s /\ i = n + 1
      BY <2>3, <3>3
    <3> QED BY <3>1, <3>2, <3>3
  <2> QED BY <2>1, <2>4 DEF QueueInv
<1> QED BY <1>1, <1>3, <1>7

LEMMA TakeInputInv ==
    ASSUME SessInv, NEW s \in Servers, TakeInput(s)
    PROVE  SessInv'
<1>1. /\ InSession(s) /\ inputs_read[s] < sid * N + submitted
      /\ inputs_read' = [inputs_read EXCEPT ![s] = @ + 1]
      /\ UNCHANGED << startVars, clientVars, sent, reach, read, case_idx, updating, stms,
                      corrupted_clients, outputs, exited >>
  BY DEF TakeInput
<1>2. case_idx[s] \in Sids /\ case_idx[s] < Sessions /\ case_idx[s] \in Nat
  BY <1>1, Numbers DEF InSession
<1>3. PICK a, b \in Nat :
              /\ a = N * case_idx[s] /\ b = N * sid
              /\ case_idx[s] = sid => a = b
              /\ case_idx[s] = sid + 1 => a = b + N
              /\ a <= inputs_read[s] /\ inputs_read[s] <= b + submitted
              /\ N \in Nat /\ N > 0
  BY InputNumbers
<1>5. inputs_read[s] \in Nat /\ submitted \in Nat /\ submitted <= N /\ sid \in Nat
      /\ (case_idx[s] = sid \/ case_idx[s] = sid + 1)
  BY Numbers
<1>4. inputs_read[s] < b + submitted /\ sid < Sessions /\ b + N <= Sessions * N
      /\ Sessions * N \in Nat
  <2>1. sid < Sessions
    BY <1>2, <1>5, Times
  <2> QED BY <1>1, <1>3, <1>5, <2>1, Times
<1>6. a <= inputs_read[s] /\ inputs_read[s] < a + N /\ inputs_read[s] + 1 <= Sessions * N
  BY <1>3, <1>4, <1>5
<1>7. inputs_read[s] \div N = case_idx[s] /\ inputs_read[s] % N = inputs_read[s] - N * case_idx[s]
  BY <1>2, <1>3, <1>5, <1>6, Quotient
<1>8. inputs_read[s] - a \in Inputs
  BY <1>3, <1>5, <1>6 DEF Inputs
<1>9. PICK m \in Deserialized :
         /\ m = [info |-> case_idx[s], sid |-> case_idx[s], round |-> 0,
                 from |-> inputs_read[s] - a]
         /\ deserialzed_msgs' = [deserialzed_msgs EXCEPT ![s] = Append(@, m)]
  BY <1>2, <1>3, <1>7, <1>8 DEF TakeInput, Take, Deserialized
<1>10. inputs_read \in [Servers -> 0 .. Sessions * N]
  BY DEF SessInv, TypeOK
<1>11. \A t \in Servers : inputs_read'[t] = IF t = s THEN inputs_read[s] + 1 ELSE inputs_read[t]
  BY <1>1, <1>10
<1>12. ASSUME NEW t \in Servers, NEW r, NEW p, Possible(r, p), Taken(t, r, p)
       PROVE  Taken(t, r, p)'
  <2>1. N * case_idx[t] \in Nat /\ inputs_read[t] \in Nat
    BY Numbers, Times
  <2>2. N * case_idx[t] + p < inputs_read[t] => N * case_idx[t] + p < inputs_read'[t]
    <3> DEFINE d == N * case_idx[t]
    <3> HIDE DEF d
    <3>1. d \in Nat /\ p \in Nat
      BY <2>1, <1>12, PossibleTypes DEF d
    <3>2. d + p < inputs_read[t] => d + p < inputs_read'[t]
      BY <2>1, <3>1, <1>11
    <3> QED BY <3>2 DEF d
  <2> QED BY <1>1, <1>12, <2>2 DEF Taken
<1>13. Taken(s, m.round, m.from)'
  <2>1. a + m.from < inputs_read'[s]
    BY <1>3, <1>5, <1>9, <1>11
  <2> QED BY <1>1, <1>3, <1>9, <2>1 DEF Taken
<1>14. ASSUME NEW r, NEW p, Possible(r, p), Taken(s, r, p)
       PROVE  InOrder(r, p, m.round, m.from)
  <2>1. r = 0 => a + p < inputs_read[s]
    BY <1>3, <1>14 DEF Taken
  <2>2. r = 0 => p < m.from
    BY <1>3, <1>5, <1>9, <2>1, <1>14, PossibleTypes
  <2> QED BY <1>9, <2>2 DEF InOrder
<1>15. StmInv' /\ QueueInv' /\ deserialzed_msgs' \in [Servers -> Seq(Deserialized)]
  <2>1. m.info = case_idx[s] /\ m.sid = case_idx[s] /\ ~ (m.round > 0)
    BY <1>9
  <2> QED BY <1>1, <1>9, <1>12, <1>13, <1>14, <2>1, AppendInv
<1>16. TypeOK'
  <2>1. inputs_read' \in [Servers -> 0 .. Sessions * N]
    BY <1>1, <1>4, <1>5, <1>6, <1>10
  <2> QED BY <1>1, <1>15, <2>1 DEF SessInv, TypeOK, startVars, clientVars
<1>17. ReadInv'
  <2>1. a <= inputs_read[s] + 1 /\ inputs_read[s] + 1 <= b + submitted
    BY <1>3, <1>4, <1>5, <1>6
  <2> QED BY <1>1, <1>3, <1>11, <2>1 DEF SessInv, ReadInv, clientVars
<1> QED BY <1>1, <1>15, <1>16, <1>17, ClientFrame, LogFrame, BlameFrame DEF SessInv, clientVars

LEMMA TakeSharesInv ==
    ASSUME SessInv, NEW s \in Servers, NEW p \in Servers, TakeShares(s, p)
    PROVE  SessInv'
<1> DEFINE c == case_idx[s]
<1>1. /\ InSession(s) /\ p # s /\ read[s][p] < Len(sent[p])
      /\ read' = [read EXCEPT ![s][p] = @ + 1]
      /\ UNCHANGED << startVars, clientVars, inputs_read, sent, reach, case_idx, updating, stms,
                      corrupted_clients, outputs, exited >>
  BY DEF TakeShares
<1>2. PICK r \in 1 .. 4 : /\ read[s][p] + 1 = 4 * c + r
                          /\ sent[p][read[s][p] + 1] = [sid |-> c, round |-> r]
  BY <1>1, Upcoming
<1>4. c \in Sids /\ c \in Nat /\ p \in Nat /\ read[s][p] \in Nat
  BY <1>1, Numbers, ServersAssumption DEF InSession
<1>3. PICK m \in Deserialized :
         /\ m = [info |-> c, sid |-> c, round |-> r, from |-> p]
         /\ deserialzed_msgs' = [deserialzed_msgs EXCEPT ![s] = Append(@, m)]
  <2>1. [info |-> c, sid |-> c, round |-> r, from |-> p] \in Deserialized
    BY <1>2, <1>4 DEF Deserialized
  <2>2. deserialzed_msgs' = [deserialzed_msgs EXCEPT
            ![s] = Append(@, [info |-> c, sid |-> c, round |-> r, from |-> p])]
    BY <1>2 DEF TakeShares, Take
  <2> QED BY <2>1, <2>2
<1>6. read \in [Servers -> [Servers -> 0 .. Sessions * 4]]
  BY DEF SessInv, TypeOK
<1>7. \A t, q \in Servers :
         read'[t][q] = IF t = s /\ q = p THEN read[s][p] + 1 ELSE read[t][q]
  BY <1>1, <1>6
<1>8. ASSUME NEW t \in Servers, NEW k, NEW q, Possible(k, q), Taken(t, k, q)
      PROVE  Taken(t, k, q)'
  <2>1. CASE k = 0
    BY <1>1, <1>8, <2>1 DEF Taken
  <2>2. CASE k # 0
    <3>1. k \in 0 .. 4 /\ q \in Servers
      BY <2>2, <1>8, PossibleTypes
    <3>2. read'[t][q] = read[t][q] \/ read'[t][q] = read[t][q] + 1
      BY <1>7, <3>1
    <3>3. case_idx[t] \in Nat /\ read[t][q] \in Nat
      BY <3>1, Numbers
    <3>4. 4 * case_idx[t] + k <= read[t][q] => 4 * case_idx[t] + k <= read'[t][q]
      BY <3>1, <3>2, <3>3
    <3> QED BY <1>1, <1>8, <2>2, <3>4 DEF Taken
  <2> QED BY <2>1, <2>2
<1>9. Taken(s, m.round, m.from)'
  BY <1>1, <1>2, <1>3, <1>4, <1>7 DEF Taken
<1>10. ASSUME NEW k, NEW q, Possible(k, q), Taken(s, k, q)
       PROVE  InOrder(k, q, m.round, m.from)
  <2>1. CASE k > 0 /\ q = p
    <3>1. 4 * c + k <= read[s][p] /\ k \in 0 .. 4
      BY <1>1, <1>10, <2>1, PossibleTypes DEF Taken
    <3>2. k < r
      BY <1>2, <1>4, <3>1
    <3> QED BY <1>2, <1>3, <3>2 DEF InOrder
  <2>2. CASE ~ (k > 0 /\ q = p)
    BY <1>2, <1>3, <2>2 DEF InOrder
  <2> QED BY <2>1, <2>2
<1>11. StmInv' /\ QueueInv' /\ deserialzed_msgs' \in [Servers -> Seq(Deserialized)]
  BY <1>1, <1>3, <1>8, <1>9, <1>10, AppendInv
<1>12. TypeOK'
  <2>1. read[s][p] + 1 \in 0 .. Sessions * 4
    <3>1. Len(sent[p]) \in Nat /\ Len(sent[p]) <= Sessions * 4
      BY LogBound
    <3>2. Sessions * 4 \in Nat
      BY Times
    <3> DEFINE e == Sessions * 4
               l == Len(sent[p])
    <3> HIDE DEF e, l
    <3>3. e \in Nat /\ l \in Nat /\ l <= e /\ read[s][p] < l
      BY <1>1, <3>1, <3>2 DEF e, l
    <3>4. read[s][p] + 1 \in 0 .. e
      BY <1>4, <3>3
    <3> QED BY <3>4 DEF e
  <2>2. read' \in [Servers -> [Servers -> 0 .. Sessions * 4]]
    BY <1>1, <1>6, <2>1
  <2> QED BY <1>1, <1>11, <2>2 DEF SessInv, TypeOK, startVars, clientVars
<1>13. ReadInv'
  <2>1. 4 * c <= read[s][p] + 1 /\ read[s][p] + 1 <= Len(sent[p])
    <3>1. Len(sent[p]) \in Nat
      BY LogBound
    <3>2. read[s][p] + 1 <= Len(sent[p])
      BY <1>1, <1>4, <3>1
    <3>3. 4 * c <= 4 * c + r
      BY <1>4
    <3> QED BY <1>2, <3>2, <3>3
  <2> QED BY <1>1, <1>7, <2>1 DEF SessInv, ReadInv, clientVars
<1> QED BY <1>1, <1>11, <1>12, <1>13, ClientFrame, LogFrame, BlameFrame DEF SessInv, clientVars

LEMMA EndUpdateInv ==
    ASSUME SessInv, NEW s \in Servers, EndUpdate(s)
    PROVE  SessInv'
<1>1. TypeOK'
  BY DEF SessInv, TypeOK, EndUpdate, startVars, clientVars, linkVars
<1>2. QueueInv'
  <2>1. UNCHANGED << deserialzed_msgs, stms, case_idx, inputs_read, read >>
    BY DEF EndUpdate, linkVars
  <2>2. \A t \in Servers \ updating' : deserialzed_msgs[t] # << >>
    BY DEF SessInv, QueueInv, EndUpdate
  <2>3. \A t \in Servers : \A i \in 1 .. Len(deserialzed_msgs[t]) : InTurn(t, i)'
    BY <2>1, TurnFrame DEF SessInv, QueueInv
  <2> QED BY <2>1, <2>2, <2>3 DEF QueueInv
<1> QED BY <1>1, <1>2, ClientFrame, LogFrame, ReadFrame, StmFrame, BlameFrame
        DEF SessInv, EndUpdate, clientVars, linkVars
-----------------------------------------------------------------------------
(***************************************************************************)
(* The inner loop.                                                         *)
(***************************************************************************)
\* The message at the front goes to the state machine of the session, which
\* then has nothing that was not taken; what is left still comes after.
LEMMA HandledMessage ==
    ASSUME SessInv, NEW s \in Servers, InSession(s), s \notin updating
    PROVE  \E m \in Deserialized, stm \in Stm, rest \in Seq(Deserialized) :
              /\ m = Head(deserialzed_msgs[s]) /\ rest = Tail(deserialzed_msgs[s])
              /\ m.sid = case_idx[s]
              /\ stm = Received(stms[s][case_idx[s]], m)
              /\ stm.round = Round(s)
              /\ Round(s) > 0 => stm.inputs = Inputs
              /\ \A h \in Has(stm) : Taken(s, h[1], h[2])
              /\ \A i \in 1 .. Len(rest) : Follows(s, stm, rest, i)
<1>1. PICK queue \in Seq(Deserialized) : queue = deserialzed_msgs[s]
  BY DEF SessInv, TypeOK
<1>2. queue # << >>
  BY <1>1 DEF SessInv, QueueInv
<1>3. PICK m \in Deserialized : m = Head(queue) /\ m = queue[1]
  <2>1. Head(queue) \in Deserialized /\ Head(queue) = queue[1]
    BY <1>2
  <2> QED BY <2>1
<1>4. PICK rest \in Seq(Deserialized) :
         /\ rest = Tail(queue) /\ Len(rest) = Len(queue) - 1
         /\ \A i \in 1 .. Len(rest) : rest[i] = queue[i+1]
  <2>1. /\ Tail(queue) \in Seq(Deserialized) /\ Len(Tail(queue)) = Len(queue) - 1
        /\ \A i \in 1 .. Len(Tail(queue)) : Tail(queue)[i] = queue[i+1]
    BY <1>2
  <2> QED BY <2>1
<1>5. Len(queue) \in Nat /\ Len(queue) >= 1
  BY <1>2
<1>6. case_idx[s] \in Sids /\ case_idx[s] < Sessions
  BY Numbers DEF InSession
<1>7. PICK old \in Stm : old = stms[s][case_idx[s]]
  BY <1>6 DEF SessInv, TypeOK
<1>8. old.round = Round(s) /\ (Round(s) > 0 => old.inputs = Inputs)
      /\ \A h \in Has(old) : Taken(s, h[1], h[2])
  BY <1>6, <1>7 DEF SessInv, StmInv, Round
<1>9. \A i \in 1 .. Len(queue) : Follows(s, old, queue, i)
  BY <1>1, <1>7 DEF SessInv, QueueInv, InTurn
<1>10. m.sid = case_idx[s] /\ Taken(s, m.round, m.from)
  BY <1>3, <1>5, <1>9 DEF Follows
<1>11. PICK stm \in Stm :
         /\ stm = Received(old, m) /\ stm.round = old.round
         /\ old.inputs = Inputs => stm.inputs = Inputs
         /\ \A h \in Has(stm) : h \in Has(old) \/ h = << m.round, m.from >>
  <2>1. CASE m.round = 0 /\ m.from \in Inputs
    <3>1. Received(old, m) = [inputs |-> old.inputs \cup {m.from}, round |-> old.round,
                              got |-> old.got]
      BY <2>1 DEF Received, Stm
    <3> QED BY <2>1, <3>1 DEF Stm, Has
  <2>2. CASE m.round \in 1 .. 4 /\ m.from \in Servers
    <3>1. Received(old, m) = [inputs |-> old.inputs, round |-> old.round,
                              got |-> old.got \cup {<< m.round, m.from >>}]
      <4>1. m.round # 0
        BY <2>2
      <4> QED BY <4>1 DEF Received, Stm
    <3> QED BY <2>2, <3>1 DEF Stm, Has
  <2> QED BY <2>1, <2>2, MessageTypes DEF Possible
<1>12. \A h \in Has(stm) : Taken(s, h[1], h[2])
  BY <1>8, <1>10, <1>11
<1>13. ASSUME NEW i \in 1 .. Len(rest)
       PROVE  Follows(s, stm, rest, i)
  <2>1. i + 1 \in 1 .. Len(queue) /\ rest[i] = queue[i+1] /\ (i + 1) - 1 = i /\ 1 \in 1 .. i
        /\ \A j \in 1 .. i-1 : rest[j] = queue[j+1] /\ j + 1 \in 1 .. i
    BY <1>4, <1>5
  <2>2. Follows(s, old, queue, i + 1)
    BY <1>9, <2>1
  <2>3. InOrder(m.round, m.from, rest[i].round, rest[i].from)
    BY <1>3, <2>1, <2>2 DEF Follows
  <2>4. \A h \in Has(stm) : InOrder(h[1], h[2], rest[i].round, rest[i].from)
    BY <1>11, <2>1, <2>2, <2>3 DEF Follows
  <2> QED BY <2>1, <2>2, <2>4 DEF Follows
<1> QED BY <1>1, <1>3, <1>4, <1>7, <1>8, <1>10, <1>11, <1>12, <1>13

\* A state machine that goes on, or waits, has what it had and its own share.
LEMMA StoreInv ==
    ASSUME SessInv, NEW s \in Servers, InSession(s),
           NEW new \in Stm, NEW rest \in Seq(Deserialized),
           stms' = [stms EXCEPT ![s][case_idx[s]] = new],
           deserialzed_msgs' = [deserialzed_msgs EXCEPT ![s] = rest],
           updating' = IF rest = << >> THEN updating \cup {s} ELSE updating,
           UNCHANGED << case_idx, inputs_read, read >>,
           new.round > 0 => new.inputs = Inputs,
           \A h \in Has(new) : Taken(s, h[1], h[2]),
           \A i \in 1 .. Len(rest) : Follows(s, new, rest, i)
    PROVE  /\ StmInv' /\ QueueInv'
           /\ stms' \in [Servers -> [Sids -> Stm]]
           /\ deserialzed_msgs' \in [Servers -> Seq(Deserialized)]
           /\ updating' \subseteq Servers
           /\ Round(s)' = new.round
           /\ \A t \in Servers : t # s => Round(t)' = Round(t)
<1>1. PICK c \in Sids : c = case_idx[s] /\ c < Sessions
  BY Numbers DEF InSession
<1>2. /\ stms \in [Servers -> [Sids -> Stm]]
      /\ deserialzed_msgs \in [Servers -> Seq(Deserialized)] /\ updating \subseteq Servers
  BY DEF SessInv, TypeOK
<1>3. /\ stms'[s][c] = new
      /\ \A k \in Sids : k # c => stms'[s][k] = stms[s][k]
      /\ \A t \in Servers : t # s => stms'[t] = stms[t]
      /\ stms' \in [Servers -> [Sids -> Stm]]
  BY <1>1, <1>2
<1>4. /\ deserialzed_msgs'[s] = rest
      /\ \A t \in Servers : t # s => deserialzed_msgs'[t] = deserialzed_msgs[t]
      /\ deserialzed_msgs' \in [Servers -> Seq(Deserialized)]
  BY <1>2
<1>5. Round(s)' = new.round /\ \A t \in Servers : t # s => Round(t)' = Round(t)
  BY <1>1, <1>3 DEF Round
<1>6. \A t \in Servers : \A r, p : Taken(t, r, p)' = Taken(t, r, p)
  BY DEF Taken
<1>7. StmInv'
  <2>1. ASSUME NEW t \in Servers
        PROVE  /\ \A k \in Sids : k # case_idx[t] => stms'[t][k] = NewStm
               /\ case_idx[t] < Sessions =>
                     /\ Round(t)' > 0 => stms'[t][case_idx[t]].inputs = Inputs
                     /\ \A h \in Has(stms'[t][case_idx[t]]) : Taken(t, h[1], h[2])
    <3>1. CASE t = s
      BY <1>1, <1>3, <1>5, <3>1 DEF SessInv, StmInv
    <3>2. CASE t # s
      BY <1>3, <1>5, <3>2 DEF SessInv, StmInv
    <3> QED BY <3>1, <3>2
  <2> QED BY <1>6, <2>1 DEF StmInv, Has
<1>8. QueueInv'
  <2>1. ASSUME NEW t \in Servers
        PROVE  /\ t \notin updating' => deserialzed_msgs'[t] # << >>
               /\ \A i \in 1 .. Len(deserialzed_msgs'[t]) :
                     Follows(t, stms'[t][case_idx[t]], deserialzed_msgs'[t], i)
    <3>1. CASE t = s
      BY <1>1, <1>3, <1>4, <3>1
    <3>2. CASE t # s
      BY <1>3, <1>4, <3>2 DEF SessInv, QueueInv, InTurn
    <3> QED BY <3>1, <3>2
  <2>2. \A t \in Servers : \A stm, queue, i :
         Follows(t, stm, queue, i)' = Follows(t, stm, queue, i)
    BY <1>6 DEF Follows, Has, InOrder
  <2> QED BY <2>1, <2>2 DEF QueueInv, InTurn
<1> QED BY <1>2, <1>3, <1>4, <1>5, <1>7, <1>8

LEMMA WaitInv ==
    ASSUME SessInv, NEW s \in Servers, Handle(s),
           NEW new \in Stm, NEW rest \in Seq(Deserialized),
           rest = Tail(deserialzed_msgs[s]), new.round = Round(s),
           Round(s) > 0 => new.inputs = Inputs,
           \A h \in Has(new) : Taken(s, h[1], h[2]),
           \A i \in 1 .. Len(rest) : Follows(s, new, rest, i),
           Wait(s, case_idx[s], new)
    PROVE  SessInv'
<1>1. /\ InSession(s) /\ stms' = [stms EXCEPT ![s][case_idx[s]] = new]
      /\ deserialzed_msgs' = [deserialzed_msgs EXCEPT ![s] = rest]
      /\ UNCHANGED << startVars, clientVars, linkVars, case_idx, corrupted_clients, outputs, exited >>
  BY DEF Handle, Wait, clientVars, linkVars
<1>2. updating' = IF rest = << >> THEN updating \cup {s} ELSE updating
  <2>1. deserialzed_msgs'[s] = rest
    BY <1>1 DEF SessInv, TypeOK
  <2> QED BY <1>1, <2>1 DEF Handle
<1>3. /\ StmInv' /\ QueueInv' /\ stms' \in [Servers -> [Sids -> Stm]]
      /\ deserialzed_msgs' \in [Servers -> Seq(Deserialized)] /\ updating' \subseteq Servers
      /\ \A t \in Servers : Round(t)' = Round(t)
  BY <1>1, <1>2, StoreInv DEF linkVars
<1>4. TypeOK'
  BY <1>1, <1>3 DEF SessInv, TypeOK, startVars, clientVars, linkVars
<1>5. LogInv'
  BY <1>1, <1>3 DEF SessInv, LogInv, linkVars
<1>6. BlameInv' /\ OutputsAgree'
  BY <1>1, <1>3 DEF SessInv, BlameInv, Checked, OutputsAgree
<1> QED BY <1>1, <1>3, <1>4, <1>5, <1>6, ClientFrame, ReadFrame DEF SessInv, clientVars, linkVars

\* A server that sends round r + 1 continues its log, and when that is round 3
\* it has marked the malformed inputs of the session.
LEMMA AdvanceInv ==
    ASSUME SessInv, NEW s \in Servers, Handle(s),
           NEW stm \in Stm, NEW rest \in Seq(Deserialized),
           rest = Tail(deserialzed_msgs[s]), stm.round = Round(s),
           Round(s) > 0 => stm.inputs = Inputs,
           \A h \in Has(stm) : Taken(s, h[1], h[2]),
           \A i \in 1 .. Len(rest) : Follows(s, stm, rest, i),
           Complete(stm), stm.round < 4, Advance(s, case_idx[s], stm)
    PROVE  SessInv'
<1>1. PICK c \in Sids, r \in 0 .. 3 : c = case_idx[s] /\ r = stm.round /\ c \in Nat /\ c < Sessions
  <2>1. case_idx[s] \in Sids /\ case_idx[s] \in Nat /\ case_idx[s] < Sessions
    BY Numbers DEF Handle, InSession
  <2>2. stm.round \in 0 .. 3
    BY Numbers
  <2> QED BY <2>1, <2>2
<1>2. PICK new \in Stm : new = [inputs |-> stm.inputs, round |-> r + 1,
                                got |-> stm.got \cup {<< r + 1, s >>}]
  <2>1. r + 1 \in 0 .. 4 /\ << r + 1, s >> \in (1 .. 4) \X Servers
    BY <1>1
  <2>2. stm.inputs \in SUBSET Inputs /\ stm.got \cup {<< r + 1, s >>} \in SUBSET ((1 .. 4) \X Servers)
    BY <2>1 DEF Stm
  <2>3. [inputs |-> stm.inputs, round |-> r + 1, got |-> stm.got \cup {<< r + 1, s >>}] \in Stm
    BY <2>1, <2>2 DEF Stm
  <2> QED BY <2>3
<1>3. /\ InSession(s) /\ stms' = [stms EXCEPT ![s][case_idx[s]] = new]
      /\ deserialzed_msgs' = [deserialzed_msgs EXCEPT ![s] = rest]
      /\ sent' = [sent EXCEPT ![s] = Append(@, [sid |-> c, round |-> r + 1])]
      /\ corrupted_clients' = IF r = 2
             THEN [corrupted_clients EXCEPT ![s] = @ \cup Malformed[c]] ELSE corrupted_clients
      /\ UNCHANGED << startVars, clientVars, inputs_read, reach, read, case_idx, outputs, exited >>
  <2>1. new = [inputs |-> stm.inputs, round |-> stm.round + 1,
               got |-> stm.got \cup {<< stm.round + 1, s >>}]
    BY <1>1, <1>2
  <2> QED BY <1>1, <2>1 DEF Handle, Advance, clientVars
<1>4. updating' = IF rest = << >> THEN updating \cup {s} ELSE updating
  <2>1. deserialzed_msgs'[s] = rest
    BY <1>3 DEF SessInv, TypeOK
  <2> QED BY <1>3, <2>1 DEF Handle
<1>5. new.inputs = Inputs
  BY <1>1, <1>2 DEF Complete
<1>6. \A h \in Has(new) : h \in Has(stm) \/ h = << r + 1, s >>
  BY <1>2 DEF Has
<1>7. \A h \in Has(new) : Taken(s, h[1], h[2])
  <2>1. Taken(s, r + 1, s)
    BY <1>1 DEF Taken
  <2> QED BY <1>6, <2>1
<1>8. ASSUME NEW i \in 1 .. Len(rest)
      PROVE  Follows(s, new, rest, i)
  <2>1. Follows(s, stm, rest, i) /\ rest[i] \in Deserialized
    OBVIOUS
  <2>2. InOrder(r + 1, s, rest[i].round, rest[i].from)
    BY <2>1 DEF Follows, InOrder
  <2> QED BY <1>6, <2>1, <2>2 DEF Follows
<1>9. /\ StmInv' /\ QueueInv' /\ stms' \in [Servers -> [Sids -> Stm]]
      /\ deserialzed_msgs' \in [Servers -> Seq(Deserialized)] /\ updating' \subseteq Servers
      /\ Round(s)' = r + 1 /\ \A t \in Servers : t # s => Round(t)' = Round(t)
  <2>1. UNCHANGED << case_idx, inputs_read, read >>
    BY <1>3
  <2>2. new.round = r + 1
    BY <1>2
  <2> QED BY <1>3, <1>4, <1>5, <1>7, <1>8, <2>1, <2>2, StoreInv
<1>10. sent \in [Servers -> Seq(Shares)] /\ [sid |-> c, round |-> r + 1] \in Shares
       /\ corrupted_clients \in [Servers -> SUBSET Inputs] /\ Malformed[c] \subseteq Inputs
  <2>1. r + 1 \in 1 .. 4
    BY <1>1
  <2>2. [sid |-> c, round |-> r + 1] \in Shares
    BY <2>1 DEF Shares
  <2>3. Malformed[c] \subseteq Inputs
    BY SessionsAssumption
  <2> QED BY <2>2, <2>3 DEF SessInv, TypeOK
<1>11. /\ sent' \in [Servers -> Seq(Shares)]
       /\ \A t \in Servers : t # s => sent'[t] = sent[t]
       /\ Len(sent'[s]) = Len(sent[s]) + 1
       /\ sent'[s][Len(sent[s]) + 1] = [sid |-> c, round |-> r + 1]
       /\ \A i \in 1 .. Len(sent[s]) : sent'[s][i] = sent[s][i]
       /\ Len(sent[s]) = 4 * c + r
  BY <1>1, <1>3, <1>10, Numbers
<1>12. TypeOK'
  <2>1. corrupted_clients' \in [Servers -> SUBSET Inputs]
    BY <1>3, <1>10
  <2> QED BY <1>3, <1>9, <1>11, <2>1 DEF SessInv, TypeOK, startVars, clientVars
<1>13. LogInv'
  <2>1. ASSUME NEW i \in 1 .. Len(sent'[s])
        PROVE  sent'[s][i] = [sid |-> (i - 1) \div 4, round |-> ((i - 1) % 4) + 1]
    <3>1. CASE i \in 1 .. Len(sent[s])
      BY <1>11, <3>1 DEF SessInv, LogInv
    <3>2. CASE i = Len(sent[s]) + 1
      <4>1. i - 1 = 4 * c + r
        BY <1>1, <1>11, <3>2
      <4>2. (i - 1) \div 4 = c /\ (i - 1) % 4 = r
        <5>1. (4 * c + r) \div 4 = c /\ (4 * c + r) % 4 = r
          BY <1>1, QuotientOfRound
        <5> QED BY <4>1, <5>1
      <4> QED BY <1>11, <3>2, <4>2
    <3>3. Len(sent[s]) \in Nat
      BY LogBound
    <3> QED BY <1>11, <3>1, <3>2, <3>3
  <2>2. Len(sent'[s]) = 4 * case_idx'[s] + Round(s)'
    <3>1. Len(sent'[s]) = 4 * c + r + 1 /\ case_idx'[s] = c /\ Round(s)' = r + 1
      BY <1>1, <1>3, <1>9, <1>11
    <3> QED BY <1>1, <3>1
  <2> QED BY <1>3, <1>9, <1>11, <2>1, <2>2 DEF SessInv, LogInv
<1>14. ReadInv'
  <2>1. \A p \in Servers : Len(sent[p]) \in Nat /\ Len(sent'[p]) \in Nat /\ Len(sent'[p]) >= Len(sent[p])
    BY <1>11, LogBound
  <2>2. \A t, p \in Servers : read[t][p] \in Nat
    BY Numbers
  <2>3. \A t, p \in Servers : t # p => read[t][p] <= Len(sent'[p])
    BY <2>1, <2>2 DEF SessInv, ReadInv
  <2> QED BY <1>3, <2>3 DEF SessInv, ReadInv, clientVars
<1>15. BlameInv' /\ OutputsAgree'
  <2>1. ASSUME NEW t \in Servers, NEW k \in Sids
        PROVE  Checked(t, k)' <=> Checked(t, k) \/ (t = s /\ k = c /\ r = 2)
    <3>1. CASE t = s /\ k = c
      BY <1>1, <1>3, <1>9, <3>1 DEF Checked
    <3>2. CASE ~ (t = s /\ k = c)
      BY <1>1, <1>3, <1>9, <3>2 DEF Checked
    <3> QED BY <3>1, <3>2
  <2>2. ASSUME NEW t \in Servers
        PROVE  corrupted_clients'[t] = UNION {Malformed[k] : k \in {j \in Sids : Checked(t, j)'}}
    <3>1. corrupted_clients[t] = UNION {Malformed[k] : k \in {j \in Sids : Checked(t, j)}}
      BY DEF SessInv, BlameInv
    <3>2. CASE t = s /\ r = 2
      <4>1. corrupted_clients'[t] = corrupted_clients[t] \cup Malformed[c]
        BY <1>3, <1>10, <3>2
      <4>2. {j \in Sids : Checked(t, j)'} = {j \in Sids : Checked(t, j)} \cup {c}
        BY <2>1, <3>2
      <4> QED BY <3>1, <4>1, <4>2
    <3>3. CASE ~ (t = s /\ r = 2)
      <4>1. corrupted_clients'[t] = corrupted_clients[t]
        BY <1>3, <1>10, <3>3
      <4>2. {j \in Sids : Checked(t, j)'} = {j \in Sids : Checked(t, j)}
        BY <2>1, <3>3
      <4> QED BY <3>1, <4>1, <4>2
    <3> QED BY <3>2, <3>3
  <2> QED BY <1>3, <2>2 DEF SessInv, BlameInv, OutputsAgree
<1> QED BY <1>3, <1>9, <1>12, <1>13, <1>14, <1>15, ClientFrame DEF SessInv, clientVars

\* A server that ends a session has handled everything of it: nothing is left
\* in the queue, and the next session finds its state as at the start.
LEMMA FinishInv ==
    ASSUME SessInv, NEW s \in Servers, Handle(s),
           NEW stm \in Stm, NEW rest \in Seq(Deserialized),
           rest = Tail(deserialzed_msgs[s]), stm.round = Round(s),
           Round(s) > 0 => stm.inputs = Inputs,
           \A h \in Has(stm) : Taken(s, h[1], h[2]),
           \A i \in 1 .. Len(rest) : Follows(s, stm, rest, i),
           Complete(stm), stm.round = 4, FinishSession(s, case_idx[s])
    PROVE  SessInv'
<1>1. PICK c \in Sids : c = case_idx[s] /\ c \in Nat /\ c < Sessions
  BY Numbers DEF Handle, InSession
<1>2. c = sid /\ sid \in Nat
  <2>1. Round(s) > 0
    OBVIOUS
  <2>2. case_idx[s] = sid
    BY <2>1, Begun
  <2>3. sid \in Nat
    BY DEF SessInv, TypeOK
  <2> QED BY <1>1, <2>2, <2>3
<1>3. Round(s) = 4 /\ stm.inputs = Inputs /\ \A p \in Servers : << 4, p >> \in stm.got
  BY DEF Complete
<1>4. /\ \A x \in Inputs : << 0, x >> \in Has(stm)
      /\ \A p \in Servers : << 4, p >> \in Has(stm)
  BY <1>3 DEF Has
<1>5. rest = << >>
  <2> SUFFICES ASSUME rest # << >> PROVE FALSE
    OBVIOUS
  <2>1. 1 \in 1 .. Len(rest) /\ rest[1] \in Deserialized
    OBVIOUS
  <2>2. Possible(rest[1].round, rest[1].from)
    BY <2>1, MessageTypes
  <2>3. \A h \in Has(stm) : InOrder(h[1], h[2], rest[1].round, rest[1].from)
    BY <2>1 DEF Follows
  <2>4. CASE rest[1].round = 0 /\ rest[1].from \in Inputs
    <3>1. InOrder(0, rest[1].from, 0, rest[1].from)
      BY <1>4, <2>3, <2>4
    <3>2. rest[1].from \in Nat
      BY <2>4, Times DEF Inputs
    <3> QED BY <3>1, <3>2 DEF InOrder
  <2>5. CASE rest[1].round \in 1 .. 4 /\ rest[1].from \in Servers
    <3>1. InOrder(4, rest[1].from, rest[1].round, rest[1].from)
      BY <1>4, <2>3, <2>5
    <3> QED BY <2>5, <3>1 DEF InOrder
  <2> QED BY <2>2, <2>4, <2>5 DEF Possible
<1>6. /\ N * c + N <= inputs_read[s]
      /\ \A p \in Servers : p # s => 4 * c + 4 <= read[s][p]
  <2>1. N - 1 \in Inputs
    BY SessionsAssumption DEF Inputs
  <2>2. N * c + (N - 1) < inputs_read[s]
    BY <1>1, <1>4, <2>1 DEF Taken
  <2>3. ASSUME NEW p \in Servers, p # s
        PROVE  4 * c + 4 <= read[s][p]
    <3>1. Taken(s, 4, p)
      BY <1>4
    <3> QED BY <1>1, <2>3, <3>1 DEF Taken
  <2>4. N * c + N <= inputs_read[s]
    <3> DEFINE a == N * c
    <3>1. a \in Nat /\ inputs_read[s] \in Nat /\ N \in Nat
      BY <1>1, Times, Numbers
    <3>2. a + (N - 1) < inputs_read[s]
      BY <2>2
    <3> HIDE DEF a
    <3>3. a + N <= inputs_read[s]
      BY <3>1, <3>2
    <3> QED BY <3>3 DEF a
  <2> QED BY <2>3, <2>4
<1>7. /\ stms' = [stms EXCEPT ![s][c] = NewStm]
      /\ deserialzed_msgs' = [deserialzed_msgs EXCEPT ![s] = << >>]
      /\ case_idx' = [case_idx EXCEPT ![s] = c + 1]
      /\ outputs' = [outputs EXCEPT ![s] = Append(@, Inputs \ corrupted_clients[s])]
      /\ responses' = [responses EXCEPT ![s] = Append(@, c)]
      /\ UNCHANGED << startVars, sid, submitted, completion_status, connected, inputs_read,
                      sent, reach, read, corrupted_clients, exited >>
  BY <1>1, <1>5 DEF Handle, FinishSession
<1>8. /\ case_idx \in [Servers -> 0 .. Sessions] /\ stms \in [Servers -> [Sids -> Stm]]
      /\ deserialzed_msgs \in [Servers -> Seq(Deserialized)]
      /\ outputs \in [Servers -> Seq(SUBSET Inputs)] /\ responses \in [Servers -> Seq(Sids)]
      /\ updating \subseteq Servers
  BY DEF SessInv, TypeOK
<1>9. updating' = updating \cup {s}
  <2>1. deserialzed_msgs'[s] = << >>
    BY <1>7, <1>8
  <2> QED BY <2>1 DEF Handle
<1>10. /\ case_idx'[s] = c + 1 /\ case_idx' \in [Servers -> 0 .. Sessions]
       /\ \A t \in Servers : t # s => case_idx'[t] = case_idx[t]
  <2>1. c + 1 \in 0 .. Sessions
    BY <1>1, Times
  <2> QED BY <1>7, <1>8, <2>1
<1>11. /\ \A k \in Sids : stms'[s][k] = NewStm
       /\ \A t \in Servers : t # s => stms'[t] = stms[t]
       /\ stms' \in [Servers -> [Sids -> Stm]]
  <2>1. \A k \in Sids : k # c => stms[s][k] = NewStm
    BY <1>1 DEF SessInv, StmInv
  <2>2. NewStm \in Stm
    BY DEF NewStm, Stm
  <2> QED BY <1>7, <1>8, <2>1, <2>2
<1>12. NewStm.round = 0 /\ Has(NewStm) = {}
  BY DEF NewStm, Has
<1>13. Round(s)' = 0 /\ \A t \in Servers : t # s => Round(t)' = Round(t)
  <2>1. c + 1 < Sessions => c + 1 \in Sids
    BY <1>1, Times DEF Sids
  <2>2. Round(s)' = 0
    BY <1>10, <1>11, <1>12, <2>1 DEF Round
  <2> QED BY <1>10, <1>11, <2>2 DEF Round
<1>14. /\ \A t \in Servers : t # s => /\ outputs'[t] = outputs[t] /\ responses'[t] = responses[t]
                                      /\ deserialzed_msgs'[t] = deserialzed_msgs[t]
       /\ deserialzed_msgs'[s] = << >>
       /\ outputs'[s] = Append(outputs[s], Inputs \ corrupted_clients[s])
       /\ responses'[s] = Append(responses[s], c)
  BY <1>7, <1>8
<1>15. TypeOK'
  <2>1. Append(outputs[s], Inputs \ corrupted_clients[s]) \in Seq(SUBSET Inputs)
        /\ Append(responses[s], c) \in Seq(Sids)
    BY <1>8
  <2>2. outputs' \in [Servers -> Seq(SUBSET Inputs)] /\ responses' \in [Servers -> Seq(Sids)]
    BY <1>7, <1>8, <2>1
  <2>3. deserialzed_msgs' \in [Servers -> Seq(Deserialized)]
    BY <1>7, <1>8
  <2>4. updating' \subseteq Servers
    BY <1>8, <1>9
  <2> QED BY <1>7, <1>10, <1>11, <2>2, <2>3, <2>4 DEF SessInv, TypeOK, startVars
<1>16. ClientInv'
  <2>1. \A i \in 1 .. Len(responses'[s]) : responses'[s][i] < c + 1
    <3>1. Len(responses[s]) \in Nat /\ \A i \in 1 .. Len(responses[s]) : responses[s][i] \in Nat
      BY <1>8, Times DEF Sids
    <3>2. \A i \in 1 .. Len(responses[s]) : responses[s][i] < c
      BY <1>1 DEF SessInv, ClientInv
    <3>3. /\ Len(responses'[s]) = Len(responses[s]) + 1
          /\ responses'[s][Len(responses[s]) + 1] = c
          /\ \A i \in 1 .. Len(responses[s]) : responses'[s][i] = responses[s][i]
      BY <1>8, <1>14
    <3>4. ASSUME NEW i \in 1 .. Len(responses[s])
          PROVE  responses'[s][i] < c + 1
      <4>1. responses'[s][i] \in Nat /\ responses'[s][i] < c
        BY <3>1, <3>2, <3>3
      <4> QED BY <1>1, <4>1
    <3>5. \A i \in 1 .. Len(responses'[s]) :
             i \in 1 .. Len(responses[s]) \/ i = Len(responses[s]) + 1
      BY <3>1, <3>3
    <3> QED BY <1>1, <3>3, <3>4, <3>5
  <2> QED BY <1>2, <1>7, <1>10, <1>14, <2>1 DEF SessInv, ClientInv
<1>17. LogInv'
  <2>1. Len(sent[s]) = 4 * (c + 1) + Round(s)'
    BY <1>1, <1>3, <1>13, Numbers
  <2> QED BY <1>7, <1>10, <1>13, <2>1 DEF SessInv, LogInv
<1>18. ReadInv'
  <2>1. N * (c + 1) <= inputs_read[s] /\ \A p \in Servers : p # s => 4 * (c + 1) <= read[s][p]
    <3>1. N * (c + 1) = N * c + N /\ 4 * (c + 1) = 4 * c + 4
      BY <1>1, Times
    <3> QED BY <1>6, <3>1
  <2> QED BY <1>7, <1>10, <2>1 DEF SessInv, ReadInv
<1>19. StmInv'
  <2>1. ASSUME NEW t \in Servers
        PROVE  /\ \A k \in Sids : k # case_idx'[t] => stms'[t][k] = NewStm
               /\ case_idx'[t] < Sessions =>
                     /\ Round(t)' > 0 => stms'[t][case_idx'[t]].inputs = Inputs
                     /\ \A h \in Has(stms'[t][case_idx'[t]]) : Taken(t, h[1], h[2])'
    <3>1. CASE t = s
      <4>1. c + 1 < Sessions => c + 1 \in Sids
        BY <1>1, Times DEF Sids
      <4> QED BY <1>10, <1>11, <1>12, <1>13, <3>1, <4>1
    <3>2. CASE t # s
      BY <1>7, <1>10, <1>11, <1>13, <3>2 DEF SessInv, StmInv, Taken
    <3> QED BY <3>1, <3>2
  <2> QED BY <2>1 DEF StmInv, Has
<1>20. QueueInv'
  <2>1. ASSUME NEW t \in Servers, t # s
        PROVE  /\ t \notin updating' => deserialzed_msgs'[t] # << >>
               /\ \A i \in 1 .. Len(deserialzed_msgs'[t]) : InTurn(t, i)'
    <3>1. \A r, p : Taken(t, r, p)' = Taken(t, r, p)
      BY <1>7, <1>10, <2>1 DEF Taken
    <3>2. \A i \in 1 .. Len(deserialzed_msgs[t]) : InTurn(t, i)
      BY DEF SessInv, QueueInv
    <3>3. t \notin updating => deserialzed_msgs[t] # << >>
      BY DEF SessInv, QueueInv
    <3>4. ASSUME NEW i \in 1 .. Len(deserialzed_msgs[t])
          PROVE  InTurn(t, i)'
      <4>1. stms'[t] = stms[t] /\ case_idx'[t] = case_idx[t]
            /\ deserialzed_msgs'[t] = deserialzed_msgs[t]
        BY <1>10, <1>11, <1>14, <2>1
      <4>2. InTurn(t, i)
        BY <3>2
      <4> QED BY <3>1, <4>1, <4>2 DEF InTurn, Follows, Has, InOrder
    <3> QED BY <1>9, <1>14, <2>1, <3>3, <3>4
  <2>2. s \in updating' /\ \A i \in 1 .. Len(deserialzed_msgs'[s]) : FALSE
    BY <1>9, <1>14
  <2> QED BY <2>1, <2>2 DEF QueueInv
<1>21. {j \in Sids : Checked(s, j)} = 0 .. c
  BY <1>1, <1>3, Times DEF Checked, Sids
<1>22. corrupted_clients[s] = UNION {Malformed[j] : j \in 0 .. c} /\ Len(outputs[s]) = c
  BY <1>1, <1>21 DEF SessInv, BlameInv
<1>23. /\ Len(outputs'[s]) = c + 1 /\ outputs'[s][c + 1] = Inputs \ corrupted_clients[s]
       /\ \A i \in 1 .. c : outputs'[s][i] = outputs[s][i]
  BY <1>1, <1>8, <1>14, <1>22
<1>24. BlameInv'
  <2>1. \A j \in Sids : Checked(s, j)' <=> j \in 0 .. c
    BY <1>1, <1>10, <1>13, Times DEF Checked, Sids
  <2>2. 0 .. c \subseteq Sids
    BY <1>1, Times DEF Sids
  <2>3. {j \in Sids : Checked(s, j)'} = 0 .. c
    BY <2>1, <2>2
  <2>4. ASSUME NEW t \in Servers, t # s
        PROVE  {j \in Sids : Checked(t, j)'} = {j \in Sids : Checked(t, j)}
    BY <1>10, <1>13, <2>4 DEF Checked
  <2> QED BY <1>7, <1>10, <1>14, <1>22, <1>23, <2>3, <2>4 DEF SessInv, BlameInv
<1>25. OutputsAgree'
  <2>1. ASSUME NEW t \in Servers, NEW i \in 1 .. Len(outputs'[t])
        PROVE  outputs'[t][i] = BlamedOutputs(i - 1)
    <3>1. CASE t # s
      BY <1>14, <3>1 DEF SessInv, OutputsAgree
    <3>2. CASE t = s /\ i = c + 1
      <4>1. i - 1 = c
        BY <1>1, <3>2
      <4> QED BY <1>22, <1>23, <3>2, <4>1 DEF BlamedOutputs
    <3>3. CASE t = s /\ i # c + 1
      <4>1. i \in 1 .. c /\ i \in 1 .. Len(outputs[s])
        BY <1>1, <1>22, <1>23, <3>3
      <4> QED BY <1>23, <3>3, <4>1 DEF SessInv, OutputsAgree
    <3> QED BY <3>1, <3>2, <3>3
  <2> QED BY <2>1 DEF OutputsAgree
<1> QED BY <1>15, <1>16, <1>17, <1>18, <1>19, <1>20, <1>24, <1>25 DEF SessInv

LEMMA HandleInv ==
    ASSUME SessInv, NEW s \in Servers, Handle(s)
    PROVE  SessInv'
<1>1. InSession(s) /\ s \notin updating
  BY DEF Handle
<1>2. PICK m \in Deserialized, stm \in Stm, rest \in Seq(Deserialized) :
              /\ m = Head(deserialzed_msgs[s]) /\ rest = Tail(deserialzed_msgs[s])
              /\ m.sid = case_idx[s]
              /\ stm = Received(stms[s][case_idx[s]], m)
              /\ stm.round = Round(s)
              /\ Round(s) > 0 => stm.inputs = Inputs
              /\ \A h \in Has(stm) : Taken(s, h[1], h[2])
              /\ \A i \in 1 .. Len(rest) : Follows(s, stm, rest, i)
  BY <1>1, HandledMessage
<1>3. IF ~ Complete(stm) THEN Wait(s, case_idx[s], stm)
      ELSE IF stm.round < 4 THEN Advance(s, case_idx[s], stm)
      ELSE FinishSession(s, case_idx[s])
  BY <1>2 DEF Handle
<1>4. stm.round \in 0 .. 4
  BY DEF Stm
<1>5. CASE ~ Complete(stm)
  BY <1>2, <1>3, <1>5, WaitInv
<1>6. CASE Complete(stm) /\ stm.round < 4
  BY <1>2, <1>3, <1>6, AdvanceInv
<1>7. CASE Complete(stm) /\ stm.round = 4
  <2>1. FinishSession(s, case_idx[s])
    BY <1>3, <1>7
  <2> QED BY <1>2, <1>7, <2>1, FinishInv
<1> QED BY <1>4, <1>5, <1>6, <1>7

LEMMA NextInv == SessInv /\ [Next]_vars => SessInv'
<1> SUFFICES ASSUME SessInv, [Next]_vars
             PROVE  SessInv'
  OBVIOUS
<1>1. CASE Connect(Client)
  BY <1>1, ConnectInv
<1>2. CASE Submit
  BY <1>2, SubmitInv
<1>3. CASE NextSession
  BY <1>3, NextSessionInv
<1>4. ASSUME NEW s \in Servers, PollCompletion(s)
      PROVE  SessInv'
  BY <1>4, PollCompletionInv
<1>5. ASSUME NEW s \in Servers, ServerStep(s)
      PROVE  SessInv'
  <2>1. CASE ListenThenConnect(s)
    <3>1. Listen(s) \/ Connect(s)
      BY <2>1 DEF ListenThenConnect
    <3> QED BY <3>1, ListenInv, ConnectInv
  <2>2. CASE TakeInput(s)
    BY <2>2, TakeInputInv
  <2>3. ASSUME NEW p \in Servers, TakeShares(s, p)
        PROVE  SessInv'
    BY <2>3, TakeSharesInv
  <2>4. CASE EndUpdate(s)
    BY <2>4, EndUpdateInv
  <2>5. CASE Handle(s)
    BY <2>5, HandleInv
  <2>6. CASE Exit(s)
    BY <2>6, ExitInv
  <2> QED BY <1>5, <2>1, <2>2, <2>3, <2>4, <2>5, <2>6 DEF ServerStep
<1>6. ASSUME NEW s \in Servers, ConnectionClosed(s)
      PROVE  SessInv'
  BY <1>6, ConnectionClosedInv
<1>7. CASE UNCHANGED vars
  <2>1. UNCHANGED << startVars, clientVars, linkVars, mainVars, exited >>
    BY <1>7 DEF vars
  <2>2. TypeOK'
    BY <2>1 DEF SessInv, TypeOK, startVars, clientVars, linkVars, mainVars
  <2> QED BY <2>1, <2>2, ClientFrame, LogFrame, ReadFrame, StmFrame, QueueFrame, BlameFrame
          DEF SessInv, clientVars, linkVars, mainVars
<1> QED BY <1>1, <1>2, <1>3, <1>4, <1>5, <1>6, <1>7 DEF Next
-----------------------------------------------------------------------------
\* No message is taken, stored or sent in a session that is not its own.
THEOREM SessionsInvariant == Spec => []SessInv
<1>1. Init => SessInv
  BY InitInv
<1>2. SessInv /\ [Next]_vars => SessInv'
  BY NextInv
<1> QED BY <1>1, <1>2, PTL DEF Spec

\* Every variable of the processes has its type.
THEOREM SessionTypes == Spec => []TypeOK
<1>1. SessInv => TypeOK
  BY DEF SessInv
<1> QED BY <1>1, SessionsInvariant, PTL

\* update() deserializes every message with the parameters of its session.
THEOREM OwnSessionHolds == Spec => []ReadUnderOwnSession
<1>1. SessInv => ReadUnderOwnSession
  BY DEF SessInv, QueueInv, InTurn, Follows, ReadUnderOwnSession
<1> QED BY <1>1, SessionsInvariant, PTL

\* A late message never makes the state machine of a session that is over.
THEOREM OneStateMachineHolds == Spec => []OneStateMachine
<1>1. SessInv => OneStateMachine
  BY DEF SessInv, StmInv, OneStateMachine
<1> QED BY <1>1, SessionsInvariant, PTL

\* A server is ahead of another one only between its end of a session and the
\* client's, and both have sent everything of that session.
THEOREM SessionsApartHolds == Spec => []SessionsApart
<1>1. ASSUME SessInv PROVE SessionsApart
  <2> SUFFICES ASSUME NEW s \in Servers
               PROVE  /\ case_idx[s] \in {sid, sid + 1}
                      /\ \A p \in Servers : case_idx[p] > case_idx[s] =>
                            Len(sent[p]) = 4 * case_idx[p] /\ Len(sent[s]) = Len(sent[p])
    BY DEF SessionsApart
  <2>1. case_idx[s] \in {sid, sid + 1}
    BY <1>1, Numbers
  <2>2. ASSUME NEW p \in Servers, case_idx[p] > case_idx[s]
        PROVE  Len(sent[p]) = 4 * case_idx[p] /\ Len(sent[s]) = Len(sent[p])
    BY <1>1, <2>2, Ahead
  <2> QED BY <2>1, <2>2
<1> QED BY <1>1, SessionsInvariant, PTL

\* All servers leave the same inputs out, those malformed in this session or
\* an earlier one.
THEOREM OutputsAgreeHolds == Spec => []OutputsAgree
<1>1. SessInv => OutputsAgree
  BY DEF SessInv
<1> QED BY <1>1, SessionsInvariant, PTL
=============================================================================

------------------------- MODULE Connection_proofs -------------------------
(***************************************************************************)
(* Proofs about Connection for any messages, with or without bodies and    *)
(* with any header sizes, and any bound on their number.                   *)
(***************************************************************************)
EXTENDS ConnectionInv, SequenceTheorems, TLAPS

USE MaxSendsAssumption

\* The numbers and parts that the invariant speaks of.
LEMMA Types ==
    ASSUME ConnInv
    PROVE  /\ Len(sent) \in Nat /\ popped \in Nat /\ posted \in Nat
           /\ Len(sent) <= MaxSends /\ popped <= Len(sent)
           /\ Len(stream) \in Nat /\ Len(incoming_queue) \in Nat
           /\ \A p \in Part : /\ p = << p[1], p[2] >>
                              /\ p[1] \in {"header", "body"}
                              /\ p[2] \in Nat /\ p[2] >= 1 /\ p[2] <= MaxSends
           /\ \A i \in 1 .. Len(sent) :
                 << "header", i >> \in Part /\ << "body", i >> \in Part
BY DEF ConnInv, TypeOK, WriteInv, Part

\* The single outstanding write.
LEMMA TheWrite ==
    ASSUME ConnInv, NEW p \in writes
    PROVE  /\ writes = {p} /\ p \in Part /\ already_writing_
           /\ p[2] = popped + 1 /\ popped + 1 <= Len(sent)
           /\ p = << p[1], popped + 1 >>
           /\ p[1] = "body" => Announced(popped + 1)
           /\ flushed \subseteq {p}
<1>1. p \in Part
  BY DEF ConnInv, TypeOK
<1> QED BY <1>1, Types DEF ConnInv, WriteInv, TypeOK

\* A message that is pushed changes nothing about the earlier ones.
LEMMA Earlier ==
    ASSUME ConnInv, PushBack
    PROVE  /\ sent' \in Seq(Message) /\ Len(sent') = Len(sent) + 1
           /\ \A i \in 1 .. Len(sent) :
                 /\ sent'[i] = sent[i]
                 /\ HasBody(i)' = HasBody(i)
                 /\ Announced(i)' = Announced(i)
<1>1. PICK m \in Message : sent' = Append(sent, m)
  BY DEF PushBack
<1>2. sent \in Seq(Message)
  BY DEF ConnInv, TypeOK
<1>3. sent' \in Seq(Message) /\ Len(sent') = Len(sent) + 1
      /\ \A i \in 1 .. Len(sent) : sent'[i] = sent[i]
  BY <1>1, <1>2
<1> QED BY <1>3 DEF HasBody, Announced

LEMMA InitInv == Init => ConnInv
<1> SUFFICES ASSUME Init PROVE ConnInv
  OBVIOUS
<1>1. TypeOK
  <2>1. sent \in Seq(Message) /\ Len(sent) = 0
    BY DEF Init
  <2>2. stream \in Seq(Part) /\ incoming_queue \in Seq([header : Part, body : Part \cup {NoPart}])
    BY DEF Init
  <2>3. temp_msg \in [header : Part \cup {NoPart}, body : Part \cup {NoPart}]
    BY DEF Init
  <2>4. popped \in 0 .. MaxSends /\ posted \in 0 .. MaxSends /\ Len(sent) <= MaxSends
    BY <2>1 DEF Init
  <2> QED BY <2>1, <2>2, <2>3, <2>4 DEF Init, TypeOK
<1>4. WriteInv /\ PostInv /\ NoStrandedMessage
  BY DEF Init, WriteInv, PostInv, NoStrandedMessage, is_empty
<1>5. ReaderInv
  BY DEF Init, ReaderInv, NoPart
<1>2. StreamInv
  BY DEF Init, StreamInv, NextWritten, Awaited
<1>3. OwnParts
  BY DEF Init, OwnParts
<1> QED BY <1>1, <1>2, <1>3, <1>4, <1>5 DEF ConnInv
-----------------------------------------------------------------------------
LEMMA CheckConnectedInv ==
    ASSUME ConnInv, CheckConnected
    PROVE  ConnInv'
BY Types DEF ConnInv, CheckConnected, TypeOK, WriteInv, PostInv, StreamInv, ReaderInv,
   NoStrandedMessage, OwnParts, senderVars, readerVars, is_empty, Announced, HasBody,
   ThereIs, NextWritten, Awaited, Following, AnnouncesBody

LEMMA PostWriteInv ==
    ASSUME ConnInv, PostWrite
    PROVE  ConnInv'
<1>1. posted' = posted + 1 /\ sending = "pushed" /\ sending' = "no"
      /\ UNCHANGED << sent, popped, already_writing_, writes, flushed, open, stream, up,
                      readerVars >>
  BY DEF PostWrite
<1>2. PostInv'
  BY <1>1, Types DEF ConnInv, PostInv
<1>3. TypeOK'
  BY <1>1, <1>2, Types DEF ConnInv, TypeOK, PostInv, readerVars
<1>4. WriteInv' /\ NoStrandedMessage'
  BY <1>1, Types DEF ConnInv, WriteInv, NoStrandedMessage, Announced, HasBody
<1>5. StreamInv'
  BY <1>1 DEF ConnInv, StreamInv, NextWritten, Awaited, Following, AnnouncesBody, Announced,
     HasBody, ThereIs, readerVars
<1>6. ReaderInv' /\ OwnParts'
  BY <1>1 DEF ConnInv, ReaderInv, OwnParts, Announced, HasBody, readerVars
<1> QED BY <1>2, <1>3, <1>4, <1>5, <1>6 DEF ConnInv

LEMMA PushBackInv ==
    ASSUME ConnInv, PushBack
    PROVE  ConnInv'
<1>1. UNCHANGED << senderVars, stream, up, readerVars >> /\ sending = "checked"
      /\ sending' = "pushed"
  BY DEF PushBack
<1>2. Len(sent) < MaxSends
  BY <1>1 DEF ConnInv, PostInv
<1>3. TypeOK'
  BY <1>1, <1>2, Earlier, Types DEF ConnInv, TypeOK, senderVars, readerVars
<1>4. WriteInv'
  BY <1>1, Earlier, Types, TheWrite DEF ConnInv, WriteInv, senderVars
<1>5. PostInv' /\ NoStrandedMessage'
  BY <1>1, Earlier, Types DEF ConnInv, PostInv, NoStrandedMessage, senderVars
<1>6. StreamInv'
  <2>1. ASSUME NEW p \in Part, p[2] <= Len(sent)
        PROVE  Following(p)' = Following(p) /\ ThereIs(p)' = ThereIs(p)
    BY <2>1, Earlier, Types DEF Following, AnnouncesBody, ThereIs
  <2>2. \A i \in 1 .. Len(stream) : stream[i] \in Part
    BY DEF ConnInv, TypeOK
  <2>3. \A w \in writes : w \in Part /\ w[2] <= Len(sent)
    BY TheWrite, Types
  <2>4. Awaited' = Awaited
    BY <1>1 DEF Awaited, readerVars
  <2>5. ASSUME NEW p PROVE NextWritten(p)' = NextWritten(p)
    BY <1>1, <2>1, <2>3 DEF NextWritten, senderVars
  <2>6. stream' = stream /\ up' = up /\ open' = open /\ reading' = reading
    BY <1>1 DEF senderVars, readerVars
  <2>7. \A i \in 1 .. Len(stream) :
           Following(stream[i])' = Following(stream[i]) /\ ThereIs(stream[i])' = ThereIs(stream[i])
    BY <2>1, <2>2, <2>6 DEF ConnInv, StreamInv
  <2>8. \A i \in 1 .. Len(stream) : stream[i][2] <= Len(sent) /\ ThereIs(stream[i])
    BY DEF ConnInv, StreamInv
  <2>9. \A i \in 1 .. Len(stream') : stream'[i][2] <= Len(sent') /\ ThereIs(stream[i])'
    <3> SUFFICES ASSUME NEW i \in 1 .. Len(stream)
                 PROVE  stream[i][2] <= Len(sent') /\ ThereIs(stream[i])'
      BY <2>6
    <3>1. stream[i][2] \in Nat
      BY <2>2, Types
    <3> QED BY <3>1, <2>7, <2>8, Earlier, Types
  <2>10. \A i \in 1 .. Len(stream') - 1 : stream'[i+1] = Following(stream[i])'
    <3> SUFFICES ASSUME NEW i \in 1 .. Len(stream) - 1
                 PROVE  stream[i+1] = Following(stream[i])'
      BY <2>6
    <3>1. i \in 1 .. Len(stream)
      BY Types
    <3> QED BY <3>1, <2>7 DEF ConnInv, StreamInv
  <2>11. reading' # "none" /\ stream' # << >> => stream'[1] = Awaited'
    BY <2>4, <2>6 DEF ConnInv, StreamInv
  <2>12. ASSUME up', open'
         PROVE  reading' # "none" /\
                NextWritten(IF stream = << >> THEN Awaited ELSE Following(stream[Len(stream)]))'
    <3>1. CASE stream = << >>
      BY <2>12, <3>1, <2>4, <2>5, <2>6 DEF ConnInv, StreamInv
    <3>2. CASE stream # << >>
      <4>1. Len(stream) \in 1 .. Len(stream)
        BY <3>2, <2>2 DEF ConnInv, TypeOK
      <4>2. NextWritten(Following(stream[Len(stream)])) /\ reading # "none"
        BY <2>12, <3>2, <2>6 DEF ConnInv, StreamInv
      <4>3. Following(stream[Len(stream)])' = Following(stream[Len(stream)])
        <5>1. stream[Len(stream)] \in Part /\ stream[Len(stream)][2] \in 1 .. Len(sent)
          BY <4>1, <2>2, <2>8, Types
        <5> QED BY <5>1, <2>6, Earlier DEF Following, AnnouncesBody, Announced, HasBody
      <4>4. \A w \in writes : Following(w)' = Following(w)
        BY <2>1, <2>3
      <4> QED BY <3>2, <4>2, <4>3, <4>4, <2>6, <1>1 DEF NextWritten, senderVars
    <3> QED BY <3>1, <3>2
  <2> QED BY <2>6, <2>9, <2>10, <2>11, <2>12 DEF StreamInv
<1>7. ReaderInv'
  BY <1>1, Earlier, Types DEF ConnInv, ReaderInv, readerVars
<1>8. OwnParts'
  <2>1. \A i \in 1 .. Len(incoming_queue) : i \in 1 .. Len(sent)
    BY Types DEF ConnInv, ReaderInv
  <2> QED BY <1>1, <2>1, Earlier DEF ConnInv, OwnParts, readerVars
<1> QED BY <1>3, <1>4, <1>5, <1>6, <1>7, <1>8 DEF ConnInv

\* What StreamInv says of the parts of the stream, and of its ends.
LEMMA TheStream ==
    ASSUME ConnInv
    PROVE  /\ stream \in Seq(Part)
           /\ \A i \in 1 .. Len(stream) :
                 stream[i] \in Part /\ stream[i][2] \in 1 .. Len(sent) /\ ThereIs(stream[i])
           /\ \A i \in 1 .. Len(stream) - 1 : stream[i+1] = Following(stream[i])
           /\ reading # "none" /\ stream # << >> => stream[1] = Awaited
           /\ stream # << >> => Len(stream) \in 1 .. Len(stream)
<1>1. stream \in Seq(Part) /\ \A i \in 1 .. Len(stream) : stream[i] \in Part
  BY DEF ConnInv, TypeOK
<1>2. \A i \in 1 .. Len(stream) : stream[i][2] <= Len(sent) /\ ThereIs(stream[i])
  BY DEF ConnInv, StreamInv
<1>3. \A i \in 1 .. Len(stream) : stream[i][2] \in 1 .. Len(sent)
  BY <1>1, <1>2, Types
<1> QED BY <1>1, <1>2, <1>3 DEF ConnInv, StreamInv
-----------------------------------------------------------------------------
(***************************************************************************)
(* The sender's io thread.                                                 *)
(***************************************************************************)
LEMMA RunPostedInv ==
    ASSUME ConnInv, RunPosted
    PROVE  ConnInv'
<1>1. posted > 0 /\ posted' = posted - 1
      /\ UNCHANGED << sent, popped, sending, flushed, open, stream, up, readerVars >>
  BY DEF RunPosted
<1>2. CASE already_writing_ \/ popped = Len(sent)
  <2>1. UNCHANGED << writes, already_writing_ >>
    BY <1>2 DEF RunPosted, write_header
  <2>2. TypeOK' /\ PostInv'
    BY <1>1, <2>1, Types DEF ConnInv, TypeOK, PostInv, readerVars
  <2>3. WriteInv'
    BY <1>1, <2>1 DEF ConnInv, WriteInv, Announced, HasBody
  <2>4. NoStrandedMessage'
    BY <1>1, <1>2, <2>1 DEF ConnInv, WriteInv, NoStrandedMessage, is_empty
  <2>5. StreamInv'
    BY <1>1, <2>1 DEF ConnInv, StreamInv, NextWritten, Awaited, Following, AnnouncesBody,
       Announced, HasBody, ThereIs, readerVars
  <2>6. ReaderInv' /\ OwnParts'
    BY <1>1 DEF ConnInv, ReaderInv, OwnParts, Announced, HasBody, readerVars
  <2> QED BY <2>2, <2>3, <2>4, <2>5, <2>6 DEF ConnInv
<1>3. CASE ~ already_writing_ /\ popped # Len(sent)
  <2> DEFINE h == << "header", popped + 1 >>
  <2>1. writes = {} /\ flushed = {}
    BY <1>3 DEF ConnInv, WriteInv, TypeOK
  <2>8. popped < Len(sent) /\ popped + 1 \in 1 .. Len(sent)
    BY <1>3, Types
  <2>9. h \in Part /\ h[1] = "header" /\ h[2] = popped + 1
    BY <2>8, Types
  <2>10. already_writing_' = TRUE /\ writes' = {h}
    BY <1>3, <2>1 DEF RunPosted, write_header
  <2> HIDE DEF h
  <2>2. already_writing_' = TRUE /\ writes' = {h} /\ popped < Len(sent) /\ h \in Part
    BY <2>8, <2>9, <2>10
  <2>3. TypeOK' /\ PostInv' /\ NoStrandedMessage'
    BY <1>1, <2>1, <2>2, Types DEF ConnInv, TypeOK, PostInv, NoStrandedMessage, readerVars
  <2>4. WriteInv'
    BY <1>1, <2>2, <2>9, Types DEF WriteInv
  <2>6. StreamInv'
    BY <1>1, <2>1, <2>2 DEF h, ConnInv, StreamInv, NextWritten, Awaited, Following, AnnouncesBody,
       Announced, HasBody, ThereIs, readerVars
  <2>7. ReaderInv' /\ OwnParts'
    BY <1>1 DEF ConnInv, ReaderInv, OwnParts, Announced, HasBody, readerVars
  <2> QED BY <2>3, <2>4, <2>6, <2>7 DEF ConnInv
<1> QED BY <1>2, <1>3, Types

LEMMA FlushInv ==
    ASSUME ConnInv, NEW p \in Part, Flush(p)
    PROVE  ConnInv'
<1>1. p \in writes /\ p \notin flushed /\ up /\ open /\ ThereIs(p)
      /\ stream' = Append(stream, p) /\ flushed' = flushed \cup {p}
      /\ UNCHANGED << sent, popped, sending, posted, already_writing_, writes, open, up,
                      readerVars >>
  BY DEF Flush
<1>2. writes = {p} /\ flushed = {} /\ p[2] \in 1 .. Len(sent)
  BY <1>1, TheWrite, Types
<1>3. p = IF stream = << >> THEN Awaited ELSE Following(stream[Len(stream)])
  BY <1>1, <1>2 DEF ConnInv, StreamInv, NextWritten
<1>4. stream' \in Seq(Part) /\ Len(stream') = Len(stream) + 1 /\ stream'[Len(stream) + 1] = p
      /\ stream' # << >> /\ \A i \in 1 .. Len(stream) : stream'[i] = stream[i]
  BY <1>1, TheStream
<1>5. TypeOK' /\ PostInv'
  BY <1>1, <1>4 DEF ConnInv, TypeOK, PostInv, readerVars
<1>6. WriteInv' /\ NoStrandedMessage'
  BY <1>1 DEF ConnInv, WriteInv, NoStrandedMessage, Announced, HasBody, is_empty
<1>7. StreamInv'
  <2>1. \A q : Following(q)' = Following(q) /\ ThereIs(q)' = ThereIs(q)
    BY <1>1 DEF Following, AnnouncesBody, Announced, HasBody, ThereIs
  <2>2. \A i \in 1 .. Len(stream') :
           stream'[i][2] <= Len(sent') /\ ThereIs(stream[i])'
    <3> SUFFICES ASSUME NEW i \in 1 .. Len(stream')
                 PROVE  stream'[i][2] <= Len(sent) /\ ThereIs(stream'[i])
      BY <1>1, <1>4 DEF ThereIs, HasBody
    <3>1. CASE i = Len(stream) + 1
      BY <3>1, <1>1, <1>2, <1>4
    <3>2. CASE i # Len(stream) + 1
      <4>1. i \in 1 .. Len(stream)
        BY <3>2, <1>4, Types
      <4>2. stream'[i] = stream[i] /\ stream[i][2] \in 1 .. Len(sent) /\ ThereIs(stream[i])
        BY <4>1, <1>4, TheStream
      <4> QED BY <4>2, Types
    <3> QED BY <3>1, <3>2
  <2>3. \A i \in 1 .. Len(stream') - 1 : stream'[i+1] = Following(stream'[i])
    <3> SUFFICES ASSUME NEW i \in 1 .. Len(stream)
                 PROVE  stream'[i+1] = Following(stream[i])
      BY <1>4, Types
    <3>1. CASE i = Len(stream)
      <4>1. stream # << >>
        BY <3>1
      <4> QED BY <3>1, <4>1, <1>3, <1>4
    <3>2. CASE i # Len(stream)
      <4>1. i \in 1 .. Len(stream) - 1 /\ i + 1 \in 1 .. Len(stream)
        BY <3>2, Types
      <4> QED BY <4>1, <1>4, TheStream
    <3> QED BY <3>1, <3>2
  <2>4. reading # "none" => stream'[1] = Awaited
    <3>1. CASE stream = << >>
      BY <3>1, <1>3, <1>4
    <3>2. CASE stream # << >>
      BY <3>2, <1>4, TheStream
    <3> QED BY <3>1, <3>2
  <2>5. NextWritten(Following(p))'
    BY <1>1, <1>2 DEF NextWritten, Following, AnnouncesBody, Announced, HasBody
  <2>6. Awaited' = Awaited /\ reading' # "none"
    BY <1>1 DEF Awaited, readerVars, ConnInv, StreamInv
  <2>7. stream'[Len(stream')] = p /\ Len(stream') = Len(stream) + 1
    BY <1>4
  <2>8. \A i \in 1 .. Len(stream') - 1 : stream'[i+1] = Following(stream[i])'
    BY <1>1, <2>3 DEF Following, AnnouncesBody, Announced, HasBody
  <2>9. NextWritten(Following(stream[Len(stream)]))'
    BY <1>1, <2>5, <2>7 DEF NextWritten, Following, AnnouncesBody, Announced, HasBody
  <2>10. reading' = reading
    BY <1>1 DEF readerVars
  <2> QED BY <1>4, <2>2, <2>4, <2>6, <2>8, <2>9, <2>10 DEF StreamInv
<1>8. ReaderInv' /\ OwnParts'
  BY <1>1 DEF ConnInv, ReaderInv, OwnParts, Announced, HasBody, readerVars
<1> QED BY <1>5, <1>6, <1>7, <1>8 DEF ConnInv

LEMMA WrittenInv ==
    ASSUME ConnInv, NEW p \in Part, Written(p)
    PROVE  ConnInv'
<1>1. p \in flushed /\ flushed' = flushed \ {p}
      /\ UNCHANGED << sent, sending, posted, open, stream, up, readerVars >>
  BY DEF Written
<1>2. p \in writes /\ writes = {p} /\ flushed = {p} /\ flushed' = {} /\ already_writing_
      /\ p = << p[1], popped + 1 >> /\ popped + 1 \in 1 .. Len(sent) /\ popped \in Nat
      /\ p[1] \in {"header", "body"}
  <2>1. p \in writes
    BY <1>1 DEF ConnInv, TypeOK
  <2> QED BY <1>1, <2>1, TheWrite, Types
<1>3. ReaderInv' /\ OwnParts' /\ PostInv'
  BY <1>1 DEF ConnInv, ReaderInv, OwnParts, PostInv, Announced, HasBody, readerVars
<1>4. CASE p[1] = "header" /\ Announced(popped + 1)
  <2> DEFINE b == << "body", popped + 1 >>
  <2>1. b \in Part /\ b[1] = "body" /\ b[2] = popped + 1 /\ b = Following(p)
    BY <1>2, <1>4, Types DEF Following, AnnouncesBody
  <2>2. writes' = {b} /\ popped' = popped /\ already_writing_' = already_writing_
    BY <1>2, <1>4 DEF Written
  <2> HIDE DEF b
  <2>3. TypeOK'
    BY <1>1, <1>2, <2>1, <2>2 DEF ConnInv, TypeOK, readerVars
  <2>4. WriteInv' /\ NoStrandedMessage'
    BY <1>1, <1>2, <1>4, <2>1, <2>2 DEF WriteInv, NoStrandedMessage, Announced, HasBody
  <2>5. StreamInv'
    BY <1>1, <1>2, <2>1, <2>2 DEF ConnInv, StreamInv, NextWritten, Awaited, Following,
       AnnouncesBody, Announced, HasBody, ThereIs, readerVars
  <2> QED BY <1>3, <2>3, <2>4, <2>5 DEF ConnInv
<1>5. CASE ~ (p[1] = "header" /\ Announced(popped + 1))
  <2> DEFINE h == << "header", popped + 2 >>
  <2>1. h[1] = "header" /\ h[2] = popped + 2 /\ h = Following(p)
    BY <1>2, <1>5 DEF Following, AnnouncesBody
  <2>2. popped' = popped + 1 /\ popped' \in 0 .. MaxSends /\ popped' <= Len(sent)
    <3>1. popped' = popped + 1
      BY <1>5 DEF Written
    <3> QED BY <3>1, <1>2, Types
  <2>5. write_header(popped + 1, {}, FALSE)
    <3>1. writes \ {p} = {}
      BY <1>2
    <3> QED BY <3>1, <1>5 DEF Written
  <2>3. CASE popped' = Len(sent)
    <3>1. writes' = {} /\ already_writing_' = FALSE
      BY <2>2, <2>3, <2>5 DEF write_header
    <3>2. TypeOK' /\ WriteInv' /\ NoStrandedMessage'
      BY <1>1, <1>2, <2>2, <2>3, <3>1
      DEF ConnInv, TypeOK, WriteInv, NoStrandedMessage, is_empty, readerVars
    <3>3. StreamInv'
      BY <1>1, <1>2, <2>1, <2>2, <3>1 DEF ConnInv, StreamInv, NextWritten, Awaited, Following,
         AnnouncesBody, Announced, HasBody, ThereIs, readerVars
    <3> QED BY <1>3, <3>2, <3>3 DEF ConnInv
  <2>4. CASE popped' # Len(sent)
    <3>1. writes' = {h} /\ already_writing_' = TRUE
      <4>1. (popped + 1) + 1 = popped + 2
        BY <1>2
      <4> QED BY <2>2, <2>4, <2>5, <4>1 DEF write_header
    <3>2. h \in Part /\ popped' < Len(sent) /\ h[2] = popped' + 1
      <4>1. popped' < Len(sent) /\ popped + 2 \in 1 .. Len(sent)
        BY <1>2, <2>2, <2>4, Types
      <4>2. h \in Part
        BY <4>1, Types
      <4> QED BY <1>2, <2>1, <2>2, <4>1, <4>2
    <3> HIDE DEF h
    <3>3. TypeOK' /\ NoStrandedMessage'
      BY <1>1, <1>2, <2>2, <3>1, <3>2
      DEF ConnInv, TypeOK, NoStrandedMessage, readerVars
    <3>4. WriteInv'
      BY <1>1, <2>1, <2>2, <3>1, <3>2 DEF WriteInv
    <3>5. StreamInv'
      BY <1>1, <1>2, <2>1, <2>2, <3>1 DEF ConnInv, StreamInv, NextWritten, Awaited, Following,
         AnnouncesBody, Announced, HasBody, ThereIs, readerVars
    <3> QED BY <1>3, <3>3, <3>4, <3>5 DEF ConnInv
  <2> QED BY <2>3, <2>4
<1> QED BY <1>4, <1>5

\* When the link fails the stream may lose parts at its end.
LEMMA LinkDown ==
    ASSUME ConnInv, ~ (up' /\ open'),
           UNCHANGED << sent, readerVars >>,
           NEW n \in 0 .. Len(stream), stream' = SubSeq(stream, 1, n)
    PROVE  /\ StreamInv' /\ ReaderInv' /\ OwnParts' /\ NoStrandedMessage'
           /\ stream' \in Seq(Part)
<1>9. stream \in Seq(Part) /\ Len(stream) \in Nat
  BY TheStream, Types
<1>10. \A i \in 1 .. n : stream[i] \in Part
  BY <1>9
<1>1. stream' \in Seq(Part) /\ Len(stream') = n /\ \A i \in 1 .. n : stream'[i] = stream[i]
  BY <1>9, <1>10
<1>2. \A i \in 1 .. n : i \in 1 .. Len(stream)
  BY Types
<1>3. \A i \in 1 .. n - 1 : i \in 1 .. Len(stream) - 1 /\ i \in 1 .. n /\ i + 1 \in 1 .. n
  BY Types
<1>4. \A i \in 1 .. n : stream'[i][2] <= Len(sent) /\ ThereIs(stream'[i])
  BY <1>1, <1>2, TheStream DEF ConnInv, StreamInv
<1>5. \A i \in 1 .. n - 1 : stream'[i+1] = Following(stream'[i])
  BY <1>1, <1>3, TheStream
<1>6. reading # "none" /\ stream' # << >> => stream'[1] = Awaited
  <2> SUFFICES ASSUME reading # "none", stream' # << >> PROVE stream'[1] = Awaited
    OBVIOUS
  <2>1. 1 \in 1 .. n /\ stream # << >>
    BY <1>1, <1>2
  <2> QED BY <2>1, <1>1, TheStream
<1>7. StreamInv'
  BY <1>1, <1>4, <1>5, <1>6 DEF StreamInv, Awaited, Following, AnnouncesBody, Announced, HasBody,
     ThereIs, readerVars
<1>8. ReaderInv' /\ OwnParts' /\ NoStrandedMessage'
  BY DEF ConnInv, ReaderInv, OwnParts, NoStrandedMessage, Announced, HasBody, readerVars
<1> QED BY <1>1, <1>7, <1>8

LEMMA WriteFailedInv ==
    ASSUME ConnInv, NEW p \in Part, WriteFailed(p)
    PROVE  ConnInv'
<1>1. p \in writes /\ p \notin flushed /\ writes' = writes \ {p} /\ open' = FALSE
      /\ UNCHANGED << sent, popped, sending, posted, already_writing_, flushed, stream, up,
                      readerVars >>
  BY DEF WriteFailed
<1>2. writes' = {} /\ flushed = {}
  BY <1>1, TheWrite
<1>3. stream' = SubSeq(stream, 1, Len(stream)) /\ Len(stream) \in 0 .. Len(stream)
  BY <1>1, TheStream
<1>4. TypeOK' /\ PostInv' /\ WriteInv'
  BY <1>1, <1>2 DEF ConnInv, TypeOK, PostInv, WriteInv, readerVars
<1> QED BY <1>1, <1>3, <1>4, LinkDown DEF ConnInv

LEMMA SenderReadFailedInv ==
    ASSUME ConnInv, SenderReadFailed
    PROVE  ConnInv'
<1>1. open' = FALSE
      /\ UNCHANGED << sent, popped, sending, posted, already_writing_, writes, flushed,
                      stream, up, readerVars >>
  BY DEF SenderReadFailed
<1>2. stream' = SubSeq(stream, 1, Len(stream)) /\ Len(stream) \in 0 .. Len(stream)
  BY <1>1, TheStream
<1>3. TypeOK' /\ PostInv' /\ WriteInv'
  BY <1>1 DEF ConnInv, TypeOK, PostInv, WriteInv, Announced, HasBody, readerVars
<1> QED BY <1>1, <1>2, <1>3, LinkDown DEF ConnInv

LEMMA BreakInv ==
    ASSUME ConnInv, Break
    PROVE  ConnInv'
<1>1. up' = FALSE /\ UNCHANGED << sent, sending, senderVars, readerVars >>
  BY DEF Break
<1>2. PICK n \in 0 .. Len(stream) : stream' = SubSeq(stream, 1, n)
  BY DEF Break
<1>3. StreamInv' /\ ReaderInv' /\ OwnParts' /\ NoStrandedMessage' /\ stream' \in Seq(Part)
  BY <1>1, <1>2, LinkDown
<1>4. TypeOK' /\ PostInv' /\ WriteInv'
  BY <1>1, <1>3 DEF ConnInv, TypeOK, PostInv, WriteInv, Announced, HasBody, senderVars, readerVars
<1> QED BY <1>3, <1>4 DEF ConnInv

LEMMA DisconnectInv ==
    ASSUME ConnInv, Disconnect
    PROVE  ConnInv'
<1>1. up' = FALSE /\ open' = FALSE /\ writes' = {} /\ flushed' = {} /\ posted' = 0
      /\ sending' = "gone" /\ UNCHANGED << sent, popped, already_writing_, readerVars >>
  BY DEF Disconnect
<1>2. PICK n \in 0 .. Len(stream) : stream' = SubSeq(stream, 1, n)
  BY DEF Disconnect
<1>3. StreamInv' /\ ReaderInv' /\ OwnParts' /\ NoStrandedMessage' /\ stream' \in Seq(Part)
  BY <1>1, <1>2, LinkDown
<1>4. PostInv' /\ WriteInv'
  BY <1>1, Types DEF ConnInv, PostInv, WriteInv
<1>5. TypeOK'
  <2>1. posted' \in 0 .. MaxSends /\ writes' \subseteq Part /\ flushed' \subseteq writes'
    BY <1>1
  <2>2. up' \in BOOLEAN /\ open' \in BOOLEAN /\ sending' \in {"no", "checked", "pushed", "gone"}
    BY <1>1
  <2> QED BY <1>1, <1>3, <2>1, <2>2 DEF ConnInv, TypeOK, readerVars
<1> QED BY <1>3, <1>4, <1>5 DEF ConnInv
-----------------------------------------------------------------------------
(***************************************************************************)
(* The reader's io thread.                                                 *)
(***************************************************************************)
LEMMA NotEmpty == \A s : Len(s) >= 1 => s # << >>
BY EmptySeq

\* Once the awaited part is taken, the next part of the stream is awaited.
LEMMA TakeAwaited ==
    ASSUME ConnInv, reading # "none", reading' # "none", stream # << >>,
           stream' = Tail(stream), Awaited' = Following(Awaited),
           UNCHANGED << sent, senderVars, up >>
    PROVE  StreamInv' /\ stream' \in Seq(Part)
<1>1. stream \in Seq(Part) /\ Len(stream) \in Nat /\ Len(stream) >= 1
  BY TheStream, Types
<1>2. stream' \in Seq(Part) /\ Len(stream') = Len(stream) - 1
      /\ \A i \in 1 .. Len(stream) - 1 : stream'[i] = stream[i+1]
  BY <1>1
<1>3. stream[1] = Awaited
  BY TheStream
<1>4. \A i \in 1 .. Len(stream') : stream'[i][2] <= Len(sent) /\ ThereIs(stream'[i])
  <2> SUFFICES ASSUME NEW i \in 1 .. Len(stream) - 1
               PROVE  stream'[i][2] <= Len(sent) /\ ThereIs(stream'[i])
    BY <1>2
  <2>1. i + 1 \in 1 .. Len(stream)
    BY <1>1
  <2> QED BY <2>1, <1>2 DEF ConnInv, StreamInv
<1>5. \A i \in 1 .. Len(stream') - 1 : stream'[i+1] = Following(stream'[i])
  <2> SUFFICES ASSUME NEW i \in 1 .. Len(stream) - 2
               PROVE  stream'[i+1] = Following(stream'[i])
    BY <1>1, <1>2
  <2>1. i \in 1 .. Len(stream) - 1 /\ i + 1 \in 1 .. Len(stream) - 1
    BY <1>1
  <2> QED BY <2>1, <1>2, TheStream
<1>6. stream' # << >> => stream'[1] = Awaited'
  <2> SUFFICES ASSUME stream' # << >> PROVE stream'[1] = Awaited'
    OBVIOUS
  <2>1. 1 \in 1 .. Len(stream) - 1
    BY <1>1, <1>2
  <2>2. stream'[1] = stream[2] /\ stream[2] = Following(stream[1])
    BY <2>1, <1>2, TheStream
  <2> QED BY <2>2, <1>3
<1>7. (IF stream' = << >> THEN Awaited' ELSE Following(stream'[Len(stream')]))
      = Following(stream[Len(stream)])
  <2>1. CASE Len(stream) = 1
    <3>1. stream' = << >>
      BY <2>1, <1>2
    <3> QED BY <2>1, <3>1, <1>3
  <2>2. CASE Len(stream) # 1
    <3>1. Len(stream') \in 1 .. Len(stream) - 1 /\ Len(stream') + 1 = Len(stream)
      BY <2>2, <1>1, <1>2
    <3>2. stream'[Len(stream')] = stream[Len(stream') + 1]
      BY <3>1, <1>2
    <3>3. stream' # << >>
      <4>1. Len(stream') >= 1
        BY <3>1, <1>1
      <4> QED BY <4>1, NotEmpty
    <3> QED BY <3>1, <3>2, <3>3
  <2> QED BY <2>1, <2>2
<1>8. up /\ open => NextWritten(Following(stream[Len(stream)]))
  BY DEF ConnInv, StreamInv
<1>9. up' /\ open' => NextWritten(IF stream = << >> THEN Awaited ELSE Following(stream[Len(stream)]))'
  BY <1>7, <1>8 DEF NextWritten, Following, AnnouncesBody, Announced, HasBody, senderVars
<1>10. \A i \in 1 .. Len(stream') : stream'[i][2] <= Len(sent') /\ ThereIs(stream[i])'
  BY <1>4 DEF ThereIs, HasBody
<1>11. \A i \in 1 .. Len(stream') - 1 : stream'[i+1] = Following(stream[i])'
  BY <1>5 DEF Following, AnnouncesBody, Announced, HasBody
<1> QED BY <1>2, <1>6, <1>9, <1>10, <1>11 DEF StreamInv

\* A message that is read is the next one.
LEMMA Enqueued ==
    ASSUME ConnInv, UNCHANGED sent,
           NEW i, i = Len(incoming_queue) + 1, i <= Len(sent),
           NEW body \in Part \cup {NoPart},
           IF HasBody(i) THEN body = << "body", i >> ELSE body[2] < i,
           incoming_queue' = Append(incoming_queue, [header |-> << "header", i >>, body |-> body])
    PROVE  /\ incoming_queue' \in Seq([header : Part, body : Part \cup {NoPart}])
           /\ Len(incoming_queue') = i /\ OwnParts'
<1> DEFINE Q == [header : Part, body : Part \cup {NoPart}]
           m == [header |-> << "header", i >>, body |-> body]
<1>1. i \in 1 .. Len(sent)
  BY Types
<1>2. m \in Q
  BY <1>1, Types
<1>3. incoming_queue \in Seq(Q)
  BY DEF ConnInv, TypeOK
<1> HIDE DEF m, Q
<1>4. incoming_queue' = Append(incoming_queue, m)
  BY DEF m
<1>5. incoming_queue' \in Seq(Q) /\ Len(incoming_queue') = i /\ incoming_queue'[i] = m
      /\ \A j \in 1 .. Len(incoming_queue) : incoming_queue'[j] = incoming_queue[j]
  BY <1>2, <1>3, <1>4
<1>6. m.header = << "header", i >> /\ m.body = body
  BY DEF m
<1>7. ASSUME NEW j \in 1 .. Len(incoming_queue')
      PROVE  /\ incoming_queue'[j].header = << "header", j >>
             /\ IF HasBody(j)' THEN incoming_queue'[j].body = << "body", j >>
                               ELSE incoming_queue'[j].body[2] < j
  <2>1. HasBody(j)' = HasBody(j)
    BY DEF HasBody
  <2>2. CASE j = i
    BY <2>1, <2>2, <1>5, <1>6
  <2>3. CASE j # i
    <3>1. j \in 1 .. Len(incoming_queue)
      BY <2>3, <1>5, Types
    <3> QED BY <2>1, <3>1, <1>5 DEF ConnInv, OwnParts
  <2> QED BY <2>2, <2>3
<1> QED BY <1>5, <1>7 DEF Q, OwnParts

LEMMA ReadHeaderInv ==
    ASSUME ConnInv, ReadHeader
    PROVE  ConnInv'
<1> DEFINE i == Len(incoming_queue) + 1
           h == << "header", i >>
<1>1. reading = "header" /\ stream # << >> /\ stream' = Tail(stream)
      /\ temp_msg' = [temp_msg EXCEPT !.header = Head(stream)]
      /\ UNCHANGED << sent, sending, senderVars, up >>
  BY DEF ReadHeader
<1>2. Head(stream) = h /\ i \in 1 .. Len(sent) /\ h \in Part
  <2>1. stream[1] = h /\ stream[1][2] \in 1 .. Len(sent)
    BY <1>1, TheStream DEF Awaited
  <2>2. i \in 1 .. Len(sent)
    BY <2>1
  <2>3. Head(stream) = stream[1]
    BY <1>1, TheStream
  <2> QED BY <2>1, <2>2, <2>3, Types
<1>3. temp_msg' \in [header : Part \cup {NoPart}, body : Part \cup {NoPart}]
      /\ temp_msg'.header = h /\ temp_msg'.body = temp_msg.body
      /\ temp_msg.body \in Part \cup {NoPart}
  BY <1>1, <1>2 DEF ConnInv, TypeOK
<1>4. PostInv' /\ WriteInv' /\ NoStrandedMessage'
  BY <1>1 DEF ConnInv, PostInv, WriteInv, NoStrandedMessage, is_empty, Announced, HasBody, senderVars
<1>5. (AnnouncesBody(h) <=> Announced(i)) /\ Awaited = h
  BY <1>1 DEF AnnouncesBody, Awaited
<1>6. temp_msg.body[2] <= Len(incoming_queue)
  BY DEF ConnInv, ReaderInv
<1>7. CASE Announced(i)
  <2>1. reading' = "body" /\ incoming_queue' = incoming_queue
    BY <1>2, <1>5, <1>7 DEF ReadHeader
  <2>2. Awaited' = Following(Awaited)
    BY <2>1, <1>5, <1>7 DEF Awaited, Following
  <2>3. StreamInv' /\ stream' \in Seq(Part)
    BY <1>1, <2>1, <2>2, TakeAwaited
  <2>4. TypeOK'
    BY <1>1, <1>3, <2>1, <2>3 DEF ConnInv, TypeOK, senderVars
  <2>5. ReaderInv'
    BY <1>1, <1>2, <1>3, <1>6, <1>7, <2>1, Types DEF ConnInv, ReaderInv, Announced, HasBody
  <2>6. OwnParts'
    BY <1>1, <2>1 DEF ConnInv, OwnParts, HasBody
  <2> QED BY <1>4, <2>3, <2>4, <2>5, <2>6 DEF ConnInv
<1>8. CASE ~ Announced(i)
  <2>1. reading' = "header"
        /\ incoming_queue' = Append(incoming_queue, [header |-> h, body |-> temp_msg.body])
    BY <1>2, <1>5, <1>8 DEF ReadHeader, AddToIncomingQueue
  <2>2. ~ HasBody(i)
    BY <1>8 DEF Announced
  <2>3. temp_msg.body[2] < i
    <3>1. temp_msg.body[2] \in Nat
      BY <1>3, Types DEF NoPart
    <3> QED BY <3>1, <1>6, Types
  <2>4. incoming_queue' \in Seq([header : Part, body : Part \cup {NoPart}])
        /\ Len(incoming_queue') = i /\ OwnParts'
    <3>1. i = Len(incoming_queue) + 1 /\ i <= Len(sent) /\ sent' = sent
      BY <1>1, <1>2, Types
    <3>2. IF HasBody(i) THEN temp_msg.body = << "body", i >> ELSE temp_msg.body[2] < i
      BY <2>2, <2>3
    <3> HIDE DEF i
    <3> QED BY <1>3, <2>1, <3>1, <3>2, Enqueued
  <2>5. Awaited' = Following(Awaited)
    BY <2>1, <2>4, <1>5, <1>8 DEF Awaited, Following
  <2>6. StreamInv' /\ stream' \in Seq(Part)
    BY <1>1, <2>1, <2>5, TakeAwaited
  <2>7. TypeOK'
    BY <1>1, <1>3, <2>1, <2>4, <2>6 DEF ConnInv, TypeOK, senderVars
  <2>8. ReaderInv'
    BY <1>1, <1>2, <1>3, <1>6, <2>1, <2>3, <2>4, Types DEF ReaderInv, NoPart
  <2> QED BY <1>4, <2>4, <2>6, <2>7, <2>8 DEF ConnInv
<1> QED BY <1>7, <1>8

LEMMA ReadBodyInv ==
    ASSUME ConnInv, ReadBody
    PROVE  ConnInv'
<1> DEFINE i == Len(incoming_queue) + 1
           b == << "body", i >>
<1>1. reading = "body" /\ stream # << >> /\ stream' = Tail(stream)
      /\ temp_msg' = [temp_msg EXCEPT !.body = Head(stream)] /\ reading' = "header"
      /\ UNCHANGED << sent, sending, senderVars, up >>
  BY DEF ReadBody, AddToIncomingQueue
<1>2. stream[1] = b /\ Head(stream) = b /\ i \in 1 .. Len(sent) /\ b \in Part /\ HasBody(i)
  <2>1. stream[1] = b /\ stream[1][2] \in 1 .. Len(sent) /\ ThereIs(stream[1])
    BY <1>1, TheStream DEF Awaited
  <2>2. i \in 1 .. Len(sent) /\ HasBody(i)
    BY <2>1 DEF ThereIs
  <2>3. Head(stream) = stream[1]
    BY <1>1, TheStream
  <2> QED BY <2>1, <2>2, <2>3, Types
<1>3. temp_msg' \in [header : Part \cup {NoPart}, body : Part \cup {NoPart}]
      /\ temp_msg'.body = b /\ temp_msg.header = << "header", i >>
  BY <1>1, <1>2 DEF ConnInv, TypeOK, ReaderInv
<1>4. PostInv' /\ WriteInv' /\ NoStrandedMessage'
  BY <1>1 DEF ConnInv, PostInv, WriteInv, NoStrandedMessage, is_empty, Announced, HasBody, senderVars
<1>5. incoming_queue' = Append(incoming_queue, [header |-> << "header", i >>, body |-> b])
  BY <1>2, <1>3 DEF ReadBody, AddToIncomingQueue
<1>6. incoming_queue' \in Seq([header : Part, body : Part \cup {NoPart}])
      /\ Len(incoming_queue') = i /\ OwnParts'
  <2>1. i = Len(incoming_queue) + 1 /\ i <= Len(sent) /\ sent' = sent
    BY <1>1, <1>2, Types
  <2>2. IF HasBody(i) THEN b = << "body", i >> ELSE b[2] < i
    BY <1>2
  <2> HIDE DEF i
  <2> QED BY <1>2, <1>5, <2>1, <2>2, Enqueued
<1>7. Awaited' = Following(Awaited)
  BY <1>1, <1>6 DEF Awaited, Following, AnnouncesBody
<1>8. StreamInv' /\ stream' \in Seq(Part)
  BY <1>1, <1>7, TakeAwaited
<1>9. TypeOK'
  BY <1>1, <1>3, <1>6, <1>8 DEF ConnInv, TypeOK, senderVars
<1>10. ReaderInv'
  BY <1>1, <1>2, <1>3, <1>6 DEF ReaderInv
<1> QED BY <1>4, <1>6, <1>8, <1>9, <1>10 DEF ConnInv

LEMMA ReadFailedInv ==
    ASSUME ConnInv, ReadFailed
    PROVE  ConnInv'
<1>1. reading' = "none" /\ ~ (up /\ open) /\ stream = << >>
      /\ UNCHANGED << sent, sending, senderVars, stream, up, temp_msg, incoming_queue >>
  BY DEF ReadFailed
<1>2. TypeOK' /\ PostInv' /\ WriteInv' /\ NoStrandedMessage'
  BY <1>1 DEF ConnInv, TypeOK, PostInv, WriteInv, NoStrandedMessage, is_empty, Announced,
     HasBody, senderVars
<1>3. ReaderInv' /\ OwnParts'
  BY <1>1 DEF ConnInv, ReaderInv, OwnParts, HasBody
<1>4. StreamInv'
  BY <1>1 DEF StreamInv, senderVars
<1> QED BY <1>2, <1>3, <1>4 DEF ConnInv

LEMMA StutterInv ==
    ASSUME ConnInv, UNCHANGED vars
    PROVE  ConnInv'
<1>1. UNCHANGED << sent, sending, popped, posted, already_writing_, writes, flushed, open,
                   stream, up, reading, temp_msg, incoming_queue >>
  BY DEF vars, senderVars, readerVars
<1>2. TypeOK' /\ PostInv' /\ WriteInv' /\ NoStrandedMessage'
  BY <1>1 DEF ConnInv, TypeOK, PostInv, WriteInv, NoStrandedMessage, is_empty, Announced, HasBody
<1>3. StreamInv'
  BY <1>1 DEF ConnInv, StreamInv, NextWritten, Awaited, Following, AnnouncesBody, Announced,
     HasBody, ThereIs
<1>4. ReaderInv' /\ OwnParts'
  BY <1>1 DEF ConnInv, ReaderInv, OwnParts, Announced, HasBody
<1> QED BY <1>2, <1>3, <1>4 DEF ConnInv
-----------------------------------------------------------------------------
\* Every step preserves the invariant.
LEMMA NextInv == ConnInv /\ [Next]_vars => ConnInv'
<1> SUFFICES ASSUME ConnInv, [Next]_vars PROVE ConnInv'
  OBVIOUS
<1>1. CASE MainThread
  BY <1>1, CheckConnectedInv, PushBackInv, PostWriteInv, DisconnectInv DEF MainThread
<1>2. CASE SenderThread
  BY <1>2, RunPostedInv, FlushInv, WrittenInv, WriteFailedInv, SenderReadFailedInv
  DEF SenderThread
<1>3. CASE Break
  BY <1>3, BreakInv
<1>4. CASE ReaderThread
  BY <1>4, ReadHeaderInv, ReadBodyInv, ReadFailedInv DEF ReaderThread
<1>5. CASE UNCHANGED vars
  BY <1>5, StutterInv
<1> QED BY <1>1, <1>2, <1>3, <1>4, <1>5 DEF Next

\* No part is lost, repeated or out of order between outgoing_queue and
\* incoming_queue while the connection holds (network_connection.hpp).
THEOREM InvariantHolds == Spec => []ConnInv
BY InitInv, NextInv, PTL DEF Spec

\* Every variable has its type.
THEOREM TypesHold == Spec => []TypeOK
<1>1. ConnInv => TypeOK
  BY DEF ConnInv
<1> QED BY <1>1, InvariantHolds, PTL

\* A message that send_message pushed while another was being written is
\* never left in outgoing_queue with nothing to write it.
THEOREM NothingStranded == Spec => []NoStrandedMessage
<1>1. ConnInv => NoStrandedMessage
  BY DEF ConnInv
<1> QED BY <1>1, InvariantHolds, PTL

\* One async_write at a time, of the front of outgoing_queue.
THEOREM WritesOneAtATime == Spec => []OneWriteAtATime
<1>1. ConnInv => OneWriteAtATime
  BY DEF ConnInv, WriteInv, OneWriteAtATime
<1> QED BY <1>1, InvariantHolds, PTL

\* Every message that is read has its own header and its own body.
THEOREM MessagesKeepTheirParts == Spec => []OwnParts
<1>1. ConnInv => OwnParts
  BY DEF ConnInv
<1> QED BY <1>1, InvariantHolds, PTL
-----------------------------------------------------------------------------
(***************************************************************************)
(* A connection implements the safety part of a FIFO channel.              *)
(***************************************************************************)
Delivered == [i \in 1 .. Len(incoming_queue) |-> sent[incoming_queue[i].header[2]]]

\* The messages delivered are the first ones sent.
LEMMA DeliveredInOrder ==
    ASSUME ConnInv
    PROVE  /\ Delivered = SubSeq(sent, 1, Len(incoming_queue))
           /\ Len(Delivered) = Len(incoming_queue)
           /\ Len(incoming_queue) \in Nat /\ Len(incoming_queue) <= Len(sent)
<1>1. Len(incoming_queue) \in Nat /\ Len(incoming_queue) <= Len(sent) /\ sent \in Seq(Message)
  BY DEF ConnInv, TypeOK, ReaderInv
<1>2. ASSUME NEW i \in 1 .. Len(incoming_queue)
      PROVE  incoming_queue[i].header[2] = i
  BY DEF ConnInv, OwnParts
<1>3. Delivered = [i \in 1 .. Len(incoming_queue) |-> sent[i]]
  BY <1>2 DEF Delivered
<1> QED BY <1>1, <1>3

\* What a step does to the variables that the channel sees.
LEMMA StepKinds ==
    ASSUME ConnInv, [Next]_vars
    PROVE  \/ UNCHANGED << sent, incoming_queue, up >>
           \/ PushBack
           \/ up' = FALSE /\ UNCHANGED << sent, incoming_queue >>
           \/ Len(incoming_queue') = Len(incoming_queue) + 1 /\ UNCHANGED << sent, up >>
<1>1. CASE CheckConnected \/ PostWrite
  BY <1>1 DEF CheckConnected, PostWrite, readerVars
<1>2. CASE PushBack
  BY <1>2
<1>3. CASE Disconnect \/ Break
  BY <1>3 DEF Disconnect, Break, readerVars
<1>4. CASE SenderThread
  BY <1>4 DEF SenderThread, RunPosted, Flush, Written, WriteFailed, SenderReadFailed, readerVars
<1>5. CASE ReaderThread
  <2>1. \A q : Len(Append(incoming_queue, q)) = Len(incoming_queue) + 1
    <3>1. incoming_queue \in Seq([header : Part, body : Part \cup {NoPart}])
      BY DEF ConnInv, TypeOK
    <3> QED BY <3>1
  <2> QED BY <1>5, <2>1 DEF ReaderThread, ReadHeader, ReadBody, ReadFailed, AddToIncomingQueue
<1>6. CASE UNCHANGED vars
  BY <1>6 DEF vars, readerVars
<1> QED BY <1>1, <1>2, <1>3, <1>4, <1>5, <1>6 DEF Next, MainThread

LEMMA StepRefines ==
    ASSUME ConnInv, ConnInv', [Next]_vars
    PROVE  [Channel!Next]_Channel!vars
<1>1. CASE UNCHANGED << sent, incoming_queue, up >>
  BY <1>1 DEF Channel!vars
<1>2. CASE PushBack
  <2>1. (\E m \in Message : sent' = Append(sent, m))
        /\ UNCHANGED << incoming_queue, up >>
    BY <1>2 DEF PushBack, readerVars
  <2>2. \A i \in 1 .. Len(incoming_queue) :
           incoming_queue[i].header[2] = i /\ sent'[i] = sent[i]
    <3>1. \A i \in 1 .. Len(incoming_queue) : i \in 1 .. Len(sent)
      BY DeliveredInOrder, Types
    <3> QED BY <1>2, <3>1, Earlier DEF ConnInv, OwnParts
  <2>3. Delivered' = Delivered
    BY <2>1, <2>2 DEF Delivered
  <2> QED BY <2>1, <2>3 DEF Channel!Next, Channel!Send, Delivered
<1>3. CASE up' = FALSE /\ UNCHANGED << sent, incoming_queue >>
  BY <1>3 DEF Channel!Next, Channel!Break
<1>4. CASE Len(incoming_queue') = Len(incoming_queue) + 1 /\ UNCHANGED << sent, up >>
  <2>1. Delivered' = SubSeq(sent, 1, Len(incoming_queue) + 1)
    <3>1. ASSUME NEW i \in 1 .. Len(incoming_queue')
          PROVE  incoming_queue'[i].header[2] = i
      BY DEF ConnInv, OwnParts
    <3>2. Delivered' = [i \in 1 .. Len(incoming_queue') |-> sent'[i]]
      BY <3>1 DEF Delivered
    <3>3. Len(incoming_queue') <= Len(sent) /\ sent \in Seq(Message)
      BY <1>4 DEF ConnInv, TypeOK, ReaderInv
    <3> QED BY <1>4, <3>2, <3>3, DeliveredInOrder
  <2>2. Len(Delivered) = Len(incoming_queue) /\ Len(incoming_queue) < Len(sent)
    <3>1. Len(incoming_queue') <= Len(sent')
      BY DEF ConnInv, ReaderInv
    <3> QED BY <3>1, <1>4, DeliveredInOrder, Types
  <2> QED BY <1>4, <2>1, <2>2 DEF Channel!Next, Channel!Deliver, Delivered
<1> QED BY <1>1, <1>2, <1>3, <1>4, StepKinds

\* The messages given to send_message come out of incoming_queue once each and
\* in the order they were sent, and whatever the sockets do, none is made up.
THEOREM ConnectionIsFifo == Spec => ChannelSafety
<1>1. Init => Channel!Init
  BY DEF Init, Channel!Init
<1>2. ConnInv /\ ConnInv' /\ [Next]_vars => [Channel!Next]_Channel!vars
  BY StepRefines
<1> QED BY <1>1, <1>2, InvariantHolds, PTL DEF Spec, ChannelSafety
=============================================================================

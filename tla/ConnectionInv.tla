--------------------------- MODULE ConnectionInv ---------------------------
(***************************************************************************)
(* The inductive invariant of Connection: what the sender has outstanding, *)
(* the stream and what the reader holds are consecutive parts.             *)
(***************************************************************************)
EXTENDS Connection

\* At most one write is outstanding, of the message at the front of the
\* queue, and the flag stays up only if a write is, or has failed.
WriteInv ==
    /\ popped <= Len(sent)
    /\ \A p \in writes :
          /\ writes = {p}
          /\ already_writing_
          /\ p[2] = popped + 1
          /\ popped < Len(sent)
          /\ p[1] = "body" => Announced(popped + 1)
    /\ open /\ already_writing_ => writes # {}

\* Every push is followed by a post.
PostInv ==
    /\ sending = "checked" => Len(sent) < MaxSends
    /\ IF sending = "pushed" THEN posted < Len(sent) ELSE posted <= Len(sent)

\* The part that follows p.
Following(p) == IF AnnouncesBody(p) THEN << "body", p[2] >> ELSE << "header", p[2] + 1 >>

\* The part that enters the stream next, as long as the socket is open.
NextWritten(p) ==
    /\ writes = {} => p = << "header", popped + 1 >>
    /\ \A w \in writes : p = IF w \in flushed THEN Following(w) ELSE w

\* The part that the reader waits for.
Awaited == << reading, Len(incoming_queue) + 1 >>

\* The stream holds consecutive parts of messages that were sent, from the one
\* the reader waits for to the one before the next one written.
StreamInv ==
    /\ \A i \in 1 .. Len(stream) : stream[i][2] <= Len(sent) /\ ThereIs(stream[i])
    /\ \A i \in 1 .. Len(stream) - 1 : stream[i+1] = Following(stream[i])
    /\ reading # "none" /\ stream # << >> => stream[1] = Awaited
    /\ up /\ open =>
          /\ reading # "none"
          /\ NextWritten(IF stream = << >> THEN Awaited ELSE Following(stream[Len(stream)]))

\* The reader has the messages in order, and the header of the one whose body
\* it waits for.
ReaderInv ==
    /\ Len(incoming_queue) <= Len(sent)
    /\ temp_msg.body[2] <= Len(incoming_queue)
    /\ reading = "body" =>
          /\ Len(incoming_queue) < Len(sent)
          /\ temp_msg.header = << "header", Len(incoming_queue) + 1 >>
          /\ Announced(Len(incoming_queue) + 1)

\* The inductive invariant: no part is lost, repeated or out of order between
\* outgoing_queue and incoming_queue while the connection holds.
ConnInv ==
    /\ TypeOK /\ WriteInv /\ PostInv /\ StreamInv /\ ReaderInv
    /\ NoStrandedMessage /\ OwnParts

\* The safety part of ChannelSpec: whatever the sockets do, the messages come
\* out once each and in order.
ChannelSafety == Channel!Init /\ [][Channel!Next]_Channel!vars
=============================================================================

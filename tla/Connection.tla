---------------------------- MODULE Connection -----------------------------
(***************************************************************************)
(* One direction of a connection (network_connection.hpp): a main thread   *)
(* that sends, the io thread that writes, the TCP stream, and the io       *)
(* thread at the other end that reads.  A message is two parts, a header   *)
(* and, unless header.size is 0, a body; each is one async_write and one   *)
(* async_read.  The handlers of one io_context run in one thread, so a     *)
(* handler is one action; the main thread runs between any two of them.    *)
(* The connection has been opened, and connect_to_client or                *)
(* connect_to_server has posted the first read_header.                     *)
(*                                                                         *)
(* sent is every message pushed to outgoing_queue, and pop_front is        *)
(* counted, so that the queue is the tail of sent.  A part is named by its *)
(* kind and the index of its message in sent.                              *)
(*                                                                         *)
(* The COMPLETED response is the one message without a body, and its       *)
(* header.size is never assigned (rm_server_stm.hpp:780): it is a message  *)
(* of Bodiless, and of Garbled when the size happens not to be 0.          *)
(***************************************************************************)
EXTENDS Naturals, Sequences

CONSTANTS
    Message,
    Bodiless,   \* the messages whose body is empty
    Garbled,    \* those of them whose header.size is not 0
    MaxSends    \* bound: the messages the main thread sends

ASSUME MaxSendsAssumption == MaxSends \in Nat

Part == {"header", "body"} \X (1 .. MaxSends)
NoPart == << "none", 0 >>

VARIABLES
    sent,               \* what the main thread pushed
    popped,             \* how many pop_front() took from outgoing_queue
    sending,            \* where the main thread is in send_message
    posted,             \* write_header handlers waiting in the io_context
    already_writing_,
    writes,             \* the outstanding async_writes
    flushed,            \* those of them whose bytes are in the stream
    open,               \* the sender's socket.is_open()
    stream,             \* the parts between the sockets
    up,                 \* the TCP connection has not failed
    reading,            \* the outstanding async_read: "header", "body" or none
    temp_msg,           \* header and body read last
    incoming_queue

senderVars == << popped, posted, already_writing_, writes, flushed, open >>
readerVars == << reading, temp_msg, incoming_queue >>
vars == << sent, sending, senderVars, stream, up, readerVars >>

Init ==
    /\ sent = << >>
    /\ popped = 0
    /\ sending = "no"
    /\ posted = 0
    /\ already_writing_ = FALSE
    /\ writes = {}
    /\ flushed = {}
    /\ open = TRUE
    /\ stream = << >>
    /\ up = TRUE
    /\ reading = "header"
    /\ temp_msg = [header |-> NoPart, body |-> NoPart]
    /\ incoming_queue = << >>
-----------------------------------------------------------------------------
(***************************************************************************)
(* The main thread: client_interface::send_message asks is_connected(),    *)
(* then connection::send_message pushes and posts a write_header.          *)
(***************************************************************************)
CheckConnected ==
    /\ sending = "no"
    /\ Len(sent) < MaxSends
    /\ open
    /\ sending' = "checked"
    /\ UNCHANGED << sent, senderVars, stream, up, readerVars >>

PushBack ==
    /\ sending = "checked"
    /\ \E m \in Message : sent' = Append(sent, m)
    /\ sending' = "pushed"
    /\ UNCHANGED << senderVars, stream, up, readerVars >>

PostWrite ==
    /\ sending = "pushed"
    /\ posted' = posted + 1
    /\ sending' = "no"
    /\ UNCHANGED << sent, popped, already_writing_, writes, flushed, open, stream,
                    up, readerVars >>

\* The destructor of client_interface or server_interface, when the process
\* exits: disconnect() posts a close, but stop() discards it with every other
\* handler, and the socket is destroyed.  TCP may or may not still deliver
\* what was written.
Disconnect ==
    /\ sending = "no"
    /\ sending' = "gone"
    /\ posted' = 0
    /\ writes' = {} /\ flushed' = {}
    /\ open' = FALSE
    /\ up' = FALSE
    /\ \E n \in 0 .. Len(stream) : stream' = SubSeq(stream, 1, n)
    /\ UNCHANGED << sent, popped, already_writing_, readerVars >>
-----------------------------------------------------------------------------
(***************************************************************************)
(* The sender's io thread.                                                 *)
(***************************************************************************)
is_empty == popped = Len(sent)

\* (Variant: the message before the front is written.)
WriteHeaderOfPopped(n, w, writing) ==
    IF writing \/ n = Len(sent)
    THEN already_writing_' = writing /\ writes' = w
    ELSE already_writing_' = TRUE /\ writes' = w \cup {<< "header", n >>}

\* (Variant: already_writing_ is not asked.)
WriteHeaderAnyway(n, w, writing) ==
    IF n = Len(sent)
    THEN already_writing_' = writing /\ writes' = w
    ELSE already_writing_' = TRUE /\ writes' = w \cup {<< "header", n + 1 >>}

\* write_header, when outgoing_queue has lost n more messages and the
\* async_writes w are outstanding.
write_header(n, w, writing) ==
    IF writing \/ n = Len(sent)
    THEN already_writing_' = writing /\ writes' = w
    ELSE already_writing_' = TRUE /\ writes' = w \cup {<< "header", n + 1 >>}

RunPosted ==
    /\ posted > 0
    /\ posted' = posted - 1
    /\ write_header(popped, writes, already_writing_)
    /\ UNCHANGED << sent, popped, sending, flushed, open, stream, up, readerVars >>

HasBody(i) == sent[i] \notin Bodiless
Announced(i) == HasBody(i) \/ sent[i] \in Garbled  \* header.size > 0
ThereIs(p) == p[1] = "body" => HasBody(p[2])

\* The bytes of a part go to the stream before its handler runs.
Flush(p) ==
    /\ p \in writes \ flushed
    /\ up
    /\ open
    /\ ThereIs(p)
    /\ stream' = Append(stream, p)
    /\ flushed' = flushed \cup {p}
    /\ UNCHANGED << sent, popped, sending, posted, already_writing_, writes, open,
                    up, readerVars >>

\* (Variant: the next message is left to the write_header posted for it.)
WrittenAndDone(p) ==
    /\ p \in flushed
    /\ flushed' = flushed \ {p}
    /\ IF p[1] = "header" /\ Announced(popped + 1)
       THEN /\ writes' = (writes \ {p}) \cup {<< "body", popped + 1 >>}
            /\ UNCHANGED << popped, already_writing_ >>
       ELSE /\ popped' = popped + 1
            /\ already_writing_' = FALSE
            /\ writes' = writes \ {p}
    /\ UNCHANGED << sent, sending, posted, open, stream, up, readerVars >>

\* The handlers of write_header and write_body.
Written(p) ==
    /\ p \in flushed
    /\ flushed' = flushed \ {p}
    /\ IF p[1] = "header" /\ Announced(popped + 1)
       THEN /\ writes' = (writes \ {p}) \cup {<< "body", popped + 1 >>}
            /\ UNCHANGED << popped, already_writing_ >>
       ELSE /\ popped' = popped + 1
            /\ write_header(popped + 1, writes \ {p}, FALSE)
    /\ UNCHANGED << sent, sending, posted, open, stream, up, readerVars >>

\* A write that fails closes the socket; already_writing_ stays true.  One of
\* a body that is not there, at body.data() = nullptr, fails at once.
WriteFailed(p) ==
    /\ p \in writes \ flushed
    /\ ~ up \/ ~ open \/ ~ ThereIs(p)
    /\ writes' = writes \ {p}
    /\ open' = FALSE
    /\ UNCHANGED << sent, popped, sending, posted, already_writing_, flushed, stream,
                    up, readerVars >>

\* The sender reads its end too; that read fails, and closes the socket.
SenderReadFailed ==
    /\ ~ up
    /\ open
    /\ open' = FALSE
    /\ UNCHANGED << sent, popped, sending, posted, already_writing_, writes, flushed,
                    stream, up, readerVars >>
-----------------------------------------------------------------------------
(***************************************************************************)
(* The TCP connection may fail at any time, and then loses any of the last *)
(* parts that were not read yet.                                           *)
(***************************************************************************)
Break ==
    /\ up
    /\ up' = FALSE
    /\ \E n \in 0 .. Len(stream) : stream' = SubSeq(stream, 1, n)
    /\ UNCHANGED << sent, sending, senderVars, readerVars >>
-----------------------------------------------------------------------------
(***************************************************************************)
(* The reader's io thread: the handlers of read_header and read_body.      *)
(* Whatever the stream holds next is taken for the part that is read.      *)
(* temp_msg.body is not cleared for a message without a body.              *)
(***************************************************************************)
AnnouncesBody(p) == p[1] = "header" /\ Announced(p[2])

\* (Variant: nothing is read after the message.)
AddAndRest(header, body) ==
    /\ incoming_queue' = Append(incoming_queue, [header |-> header, body |-> body])
    /\ reading' = "none"

\* Add_to_Incoming_Queue, and read_header again.
AddToIncomingQueue(header, body) ==
    /\ incoming_queue' = Append(incoming_queue, [header |-> header, body |-> body])
    /\ reading' = "header"

ReadHeader ==
    /\ reading = "header"
    /\ stream # << >>
    /\ stream' = Tail(stream)
    /\ temp_msg' = [temp_msg EXCEPT !.header = Head(stream)]
    /\ IF AnnouncesBody(Head(stream))
       THEN reading' = "body" /\ UNCHANGED incoming_queue
       ELSE AddToIncomingQueue(Head(stream), temp_msg.body)
    /\ UNCHANGED << sent, sending, senderVars, up >>

ReadBody ==
    /\ reading = "body"
    /\ stream # << >>
    /\ stream' = Tail(stream)
    /\ temp_msg' = [temp_msg EXCEPT !.body = Head(stream)]
    /\ AddToIncomingQueue(temp_msg.header, Head(stream))
    /\ UNCHANGED << sent, sending, senderVars, up >>

\* A read that fails closes the socket, and nothing is read again.
ReadFailed ==
    /\ reading # "none"
    /\ stream = << >>
    /\ ~ up \/ ~ open
    /\ reading' = "none"
    /\ UNCHANGED << sent, sending, senderVars, stream, up, temp_msg, incoming_queue >>
-----------------------------------------------------------------------------
MainThread == CheckConnected \/ PushBack \/ PostWrite \/ Disconnect

SenderThread ==
    \/ RunPosted
    \/ \E p \in Part : Flush(p) \/ Written(p) \/ WriteFailed(p)
    \/ SenderReadFailed

ReaderThread == ReadHeader \/ ReadBody \/ ReadFailed

Next == MainThread \/ SenderThread \/ Break \/ ReaderThread

Spec == Init /\ [][Next]_vars

\* Nobody promises that the main thread sends; once it has begun it goes on.
\* The io threads run, and TCP delivers while it is up.
Fairness ==
    /\ WF_vars(PushBack) /\ WF_vars(PostWrite)
    /\ WF_vars(RunPosted)
    /\ WF_vars(\E p \in Part : Flush(p) \/ Written(p))
    /\ WF_vars(ReadHeader) /\ WF_vars(ReadBody)

FairSpec == Spec /\ Fairness
-----------------------------------------------------------------------------
\* Every variable has its type.
TypeOK ==
    /\ sent \in Seq(Message) /\ Len(sent) <= MaxSends
    /\ popped \in 0 .. MaxSends
    /\ sending \in {"no", "checked", "pushed", "gone"}
    /\ posted \in 0 .. MaxSends
    /\ already_writing_ \in BOOLEAN
    /\ writes \subseteq Part
    /\ flushed \subseteq writes
    /\ open \in BOOLEAN
    /\ stream \in Seq(Part)
    /\ up \in BOOLEAN
    /\ reading \in {"header", "body", "none"}
    /\ temp_msg \in [header : Part \cup {NoPart}, body : Part \cup {NoPart}]
    /\ incoming_queue \in Seq([header : Part, body : Part \cup {NoPart}])

\* write_header returns at once when a write is under way, so the call that
\* send_message posts may come to nothing.  Still no message is stranded: as
\* long as the connection holds, a queued message has a write or a
\* write_header of its own or of an earlier message still to come.
NoStrandedMessage ==
    up /\ open /\ ~ is_empty => writes # {} \/ posted > 0 \/ sending = "pushed"

\* Two async_writes on one socket would mix their bytes: there is never more
\* than one, and it writes the message at the front of outgoing_queue, which
\* pop_front has not freed.
OneWriteAtATime ==
    \A p \in writes :
        /\ writes = {p}
        /\ already_writing_
        /\ p[2] = popped + 1
        /\ popped < Len(sent)

\* Every message comes with its own header and, if it has one, its own body.
\* One without gets what temp_msg holds: the body of an earlier message.
OwnParts ==
    \A i \in 1 .. Len(incoming_queue) :
        LET m == incoming_queue[i] IN
        /\ m.header = << "header", i >>
        /\ IF HasBody(i) THEN m.body = << "body", i >> ELSE m.body[2] < i

\* A connection is a FIFO channel (send_message to Add_to_Incoming_Queue).
Channel == INSTANCE FifoChannel
    WITH delivered <- [i \in 1 .. Len(incoming_queue) |-> sent[incoming_queue[i].header[2]]]
ChannelSpec == Channel!Spec

\* header.size is the "message body size in bytes" (network_message.hpp:50),
\* by which write_header decides whether a body follows: a message that was
\* pushed arrives unless TCP fails.
SentArrives ==
    \A i \in 1 .. MaxSends : Len(sent) >= i ~> Len(incoming_queue) >= i \/ ~ up
=============================================================================

---------------------------- MODULE FifoChannel ----------------------------
(***************************************************************************)
(* What a connection promises to the two programs at its ends              *)
(* (network_connection.hpp): the accepted messages come out once each and  *)
(* in order, and all of them do while the connection is up.  When it       *)
(* breaks, what was sent last may be lost, and nobody is told.             *)
(***************************************************************************)
EXTENDS Naturals, Sequences

CONSTANT Message

VARIABLES sent, delivered, up

vars == << sent, delivered, up >>

Init == sent = << >> /\ delivered = << >> /\ up = TRUE

Send ==
    /\ \E m \in Message : sent' = Append(sent, m)
    /\ UNCHANGED << delivered, up >>

Deliver ==
    /\ Len(delivered) < Len(sent)
    /\ delivered' = SubSeq(sent, 1, Len(delivered) + 1)
    /\ UNCHANGED << sent, up >>

Break ==
    /\ up' = FALSE
    /\ UNCHANGED << sent, delivered >>

Next == Send \/ Deliver \/ Break

Spec == Init /\ [][Next]_vars /\ WF_vars(up /\ Deliver)
=============================================================================

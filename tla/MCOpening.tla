----------------------------- MODULE MCOpening -----------------------------
(* Opening with the five servers of localtest.bash over the field Z_7. *)
EXTENDS OpeningInv

\* Zero, a constant, one with the secret 0, and one with two shares 0.
MCSharings == {<<>>, <<3>>, <<0, 0, 5>>, <<2, 4, 1>>}

\* None, each of the servers, and a pair, one more than is tolerated.
MCFaultySets == {{}} \cup {{s} : s \in Servers} \cup {{2, 5}}
=============================================================================

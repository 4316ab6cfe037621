---------------------------- MODULE MCSessions -----------------------------
(* Values of the constants for checking Sessions.                          *)
EXTENDS SessionsInv

\* Session 0 has the malformed input 1, later ones have none.
FirstMalformed == [k \in Sids |-> IF k = 0 THEN {1} ELSE {}]
NoneMalformed == [k \in Sids |-> {}]
=============================================================================

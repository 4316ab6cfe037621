--------------------------- MODULE MCRootFinding ---------------------------
(* RootFinding over the field Z_97, 97 = 3 * 2^5 + 1. *)
EXTENDS RootFindingInv

\* Messages that are and are not 0, opposite messages, messages sent twice; a
\* batch of degree 6, for which the loop on ell stops early, and one of
\* degree 12, which is left to NTL.
MCBatches ==
    {<<0, 1>>, <<0, 5>>, <<1, 96>>, <<3, 3>>, <<0, 0, 4>>, <<2, 7, 11>>,
     <<0, 22, 48, 50>>, <<1, 2, 4, 9, 33, 60>>,
     [k \in 1 .. 12 |-> 7 * k]}
=============================================================================

---------------------------- MODULE OpeningInv -----------------------------
(***************************************************************************)
(* The inductive invariant of Opening: what the server has opened and      *)
(* reconstructed when it works on block i.                                 *)
(***************************************************************************)
EXTENDS Opening

\* With at most t faulty servers no block is left out: element b is block b.
LengthInv ==
    /\ opened \in Seq(Field) /\ output \in Seq(Field)
    /\ phase \in {"open", "decode"} => Len(opened) = i - 1 /\ output = <<>>
    /\ phase = "return" => Len(opened) <= Blocks
    /\ phase = "reconstruct" => opened = <<>>
    /\ phase \in {"return", "reconstruct"} => Len(output) <= i - 1
    /\ Tolerated =>
          /\ phase \in {"return", "reconstruct"} => Len(output) = i - 1
          /\ phase = "check" => Len(output) = Blocks

\* The shares of the servers that are not faulty are those of the block.
SharesInv ==
    \A x \in Servers \ faulty :
        /\ phase = "decode" => shares[x] = Evaluate(sharing[i], x)
        /\ phase = "reconstruct" /\ Tolerated => shares[x] = Secret(i)

\* The inductive invariant: a server keeps the blocks in step with what it
\* decodes, so that block b's secret is at place b and none is missing.
BlocksInStep ==
    /\ TypeOK /\ LengthInv /\ SharesInv
    /\ OpenedRight /\ ReconstructedRight /\ NoOverread
=============================================================================

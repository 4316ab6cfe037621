-------------------------- MODULE InputEncodingInv -------------------------
(***************************************************************************)
(* The inductive invariant of InputEncoding: where pos is in each of the   *)
(* fifteen loops, and what is in transit in each phase.                    *)
(***************************************************************************)
EXTENDS InputEncoding

\* How many elements the loops before loop k write.
Before(n, k) ==
    CASE k = 1  -> 0
      [] k = 2  -> n
      [] k = 3  -> 2*n
      [] k = 4  -> 3*n*n + 2*n
      [] k = 5  -> 4*n*n + 3*n - 1
      [] k = 6  -> 6*n*n + 4*n - 1
      [] k = 7  -> 6*n*n + 5*n
      [] k = 8  -> 6*n*n + 6*n
      [] k = 9  -> 9*n*n + 6*n
      [] k = 10 -> 9*n*n + 7*n
      [] k = 11 -> 10*n*n + 7*n - 1
      [] k = 12 -> 10*n*n + 8*n
      [] k = 13 -> 10*n*n + 9*n
      [] k = 14 -> 13*n*n + 9*n
      [] k = 15 -> 13*n*n + 10*n
      [] OTHER  -> NumMessages(n)

\* The copy that loop 4 has left out.
LeftOut(k, o, i) == IF k = 4 /\ (o > 0 \/ i > 0) THEN 1 ELSE 0

\* pos, when o iterations of loop k are done and i of the loop in it.
Position(n, k, o, i) == Before(n, k) + o * Inner(n, k) + i - LeftOut(k, o, i)

Early == phase \in {"encode", "submit", "take", "verify"}
Late == phase \in {"open", "return", "done"}

\* Where the counters and pos are.
CountInv ==
    /\ Early => loop = 1 /\ outer = 0 /\ inner = 0 /\ pos = 0
    /\ phase = "decompress" => loop \in Loops /\ pos = Position(L, loop, outer, inner)
    /\ loop \in Loops /\ outer = Outer(L, loop) => inner = 0
    /\ Late /\ ~corrupted => pos = NumMessages(L)

\* What the packet holds.
PacketInv ==
    /\ phase = "take" => packet = Serialize(code, 7*L + 5)
    /\ phase = "return" => packet = Serialize(decompressed, NumMessages(L))
    /\ phase = "done" => row = Deserialize(Serialize(decompressed, NumMessages(L)))

\* What is known of the input and written of its powers.
PowersInv ==
    /\ phase = "decompress" => ~corrupted
    /\ phase = "decompress" \/ Late =>
          /\ corrupted <=> input # Encoding(L, input[0])
          /\ ~corrupted => \A q \in 0 .. pos-1 : decompressed[q] = input[0] * (q + 1)

\* The inductive invariant.
EncodingInv == TypeOK /\ CountInv /\ PacketInv /\ PowersInv
=============================================================================

--------------------------- MODULE InputEncoding ---------------------------
(***************************************************************************)
(* What happens to one client message: the client encodes it in an         *)
(* additive 2-basis (rm_additive2basis.h) and serialises the encoding      *)
(* (network_message.hpp); a server reads it back, verifies its format and  *)
(* decompresses it to the N powers that the session sums                   *)
(* (additive2basis.h), and serialises a vector of N elements to its peers. *)
(*                                                                         *)
(* A field element is represented by a discrete logarithm: e stands for    *)
(* g^e, with g a generator of the field.  power multiplies logarithms by   *)
(* the exponent, a product of elements adds them, and two elements are     *)
(* equal when their logarithms are.  Logarithms are not reduced modulo     *)
(* p-1, which is larger than every exponent used.  The element 0, which    *)
(* has no logarithm, is ZERO.  A share behaves as the element it shares.   *)
(*                                                                         *)
(* The circuits are index arithmetic over a vector of 7L+5 elements; that  *)
(* arithmetic, not the field, is what the properties are about.            *)
(***************************************************************************)
EXTENDS Integers, FiniteSets

CONSTANTS
    Lengths,    \* the values of the mixing parameter L
    Messages,   \* logarithms of the message a client may hold
    Offsets,    \* by how much a corrupted client's element may be off
    MaxOff,     \* bound: how many elements of one encoding are off
    Word        \* 2^16 in the code, where num_ZZ_p is a uint16_t

ASSUME LengthsAssumption == Lengths \subseteq Nat \ {0}
ASSUME MessagesAssumption == Messages \subseteq Nat \ {0}
ASSUME OffsetsAssumption == Offsets \subseteq Nat
ASSUME WordAssumption == Word \in Nat /\ \A n \in Lengths : 7*n + 5 < Word

VARIABLES
    L,              \* info.L
    msg,            \* input_msgs[i], the client's message
    phase,          \* what is done next to the message
    code,           \* the client's msg_encoding
    packet,         \* the message in transit: header field num_ZZ_p and body
    input,          \* the server's client_input[i]
    corrupted,      \* corr_clients->at(i)
    loop,           \* which loop of opt_decompress_encoding runs
    outer, inner,   \* its counters, from 0
    pos,            \* its pos
    decompressed,   \* the server's decompressed[i]
    row             \* the vector a peer reads back

vars == <<L, msg, phase, code, packet, input, corrupted, loop, outer, inner,
          pos, decompressed, row>>

ZERO == -1

\* info.N, the number of messages of a session and of powers of each.
NumMessages(n) == 14*n*n + 10*n - 1

\* The indexes of an encoding, input[0] to input[7L+4].
Indexes(n) == 0 .. 7*n + 4

\* add2basis_encode: the exponent of the element at index j, from the five
\* progressions S_1 to S_5 that the loops append and the set S_6 after them.
Exponent(n, j) ==
    CASE j < n                   -> j + 1
      [] j \in n .. 4*n-1        -> n + (j - n + 1) * n
      [] j \in 4*n .. 5*n-1      -> 3*n*n + n - 1 + (j - 4*n + 1) * (n + 1)
      [] j \in 5*n .. 6*n        -> 6*n*n + 4*n - 1 + (j - 5*n + 1)
      [] j \in 6*n+1 .. 7*n+1    -> 10*n*n + 7*n - 1 + (j - 6*n)
      [] j = 7*n + 2             -> n + 1
      [] j = 7*n + 3             -> 6*n*n + 4*n - 1
      [] OTHER                   -> 10*n*n + 7*n - 1

\* The encoding of a message.
Encoding(n, m) == [j \in Indexes(n) |-> m * Exponent(n, j)]

(***************************************************************************)
(* Serialisation.  Elements are pushed from the last to the first and      *)
(* popped from the end of the body; the header tells how many there are,   *)
(* in a uint16_t.                                                          *)
(***************************************************************************)
\* serialize_from_vec_ZZ_p.
Serialize(vec, len) ==
    [num_ZZ_p |-> len % Word,
     size     |-> len,
     body     |-> [b \in 0 .. len-1 |-> vec[len - 1 - b]]]

\* deserialize_to_vec_ZZ_p.
Deserialize(pkt) ==
    [j \in 0 .. pkt.num_ZZ_p - 1 |-> pkt.body[pkt.size - 1 - j]]

(***************************************************************************)
(* verify_format: each equation input[lhs] = input[a] * input[b] has a     *)
(* coin of its own, and the predicate is the sum of the differences        *)
(* weighted by the coins.  The coins are random, so the sum is 0 only when *)
(* every difference is; the chance of another sum of 0 is left out.        *)
(***************************************************************************)
Equation(lhs, a, b) == [lhs |-> lhs, a |-> a, b |-> b]

\* (Variant: the fifth loop stops one short.)
EquationsButOne(n) ==
    {Equation(i+1, i, 0)       : i \in 0 .. n-2}
      \cup {Equation(i+1, i, n-1)     : i \in n .. 4*n-2}
      \cup {Equation(i+1, i, 7*n+2)   : i \in 4*n .. 5*n-2}
      \cup {Equation(i+1, 0, i)       : i \in 5*n .. 6*n-1}
      \cup {Equation(i+1, 0, i)       : i \in 6*n+1 .. 7*n-1}
      \cup {Equation(7*n+2, 0, n-1),
            Equation(n, n-1, n-1),
            Equation(4*n, 4*n-1, n-1),
            Equation(5*n, 7*n+3, 0),
            Equation(7*n+3, 3*n, 5*n-1),
            Equation(6*n+1, 7*n+4, 0),
            Equation(7*n+4, 5*n-1, 6*n)}

\* The equations of verify_format, in loops of the code's ranges.
Equations(n) ==
    {Equation(i+1, i, 0)       : i \in 0 .. n-2}
      \cup {Equation(i+1, i, n-1)     : i \in n .. 4*n-2}
      \cup {Equation(i+1, i, 7*n+2)   : i \in 4*n .. 5*n-2}
      \cup {Equation(i+1, 0, i)       : i \in 5*n .. 6*n-1}
      \cup {Equation(i+1, 0, i)       : i \in 6*n+1 .. 7*n}
      \cup {Equation(7*n+2, 0, n-1),
            Equation(n, n-1, n-1),
            Equation(4*n, 4*n-1, n-1),
            Equation(5*n, 7*n+3, 0),
            Equation(7*n+3, 3*n, 5*n-1),
            Equation(6*n+1, 7*n+4, 0),
            Equation(7*n+4, 5*n-1, 6*n)}

\* verify_format opens to 0.
FormatHolds(n, in) ==
    \A e \in Equations(n) : in[e.lhs] = in[e.a] + in[e.b]

(***************************************************************************)
(* opt_decompress_encoding: fifteen loops, each of which writes the next   *)
(* element of decompressed.  A loop is given by the number of iterations   *)
(* of its outer and inner loop, counted from 0, and by the indexes of the  *)
(* elements its body multiplies.                                           *)
(***************************************************************************)
Loops == 1 .. 15

\* Iterations of the (outer) loop.
Outer(n, k) ==
    CASE k \in {1, 2, 4, 7, 9, 12, 14} -> n
      [] k \in {3, 8, 13}              -> 3 * n
      [] k = 5                         -> 2 * n + 1
      [] k \in {6, 11}                 -> n + 1
      [] OTHER                         -> n - 1

\* (Variant: the inner loop of loop 5 starts one early.)
InnerLonger(n, k) ==
    CASE k \in {3, 8, 13}     -> n
      [] k \in {4, 5, 10, 15} -> n + 1
      [] OTHER                -> 1

\* Iterations of the loop nested in it, 1 when there is none.  Loop 4
\* copies an element before its inner loop: iteration 0.
Inner(n, k) ==
    CASE k \in {3, 5, 8, 13}  -> n
      [] k \in {4, 10, 15}    -> n + 1
      [] OTHER                -> 1

\* (Variant: without the test j > 4*L.)
NeverSkipped(k, o, i) == FALSE

\* (Variant: loop 4 skips its copy every time.)
AlwaysSkipped(k, o, i) == k = 4 /\ i = 0

\* The copy of loop 4 is skipped the first time, by its test j > 4*L.
Skipped(k, o, i) == k = 4 /\ o = 0 /\ i = 0

\* The elements the body multiplies: one or two indexes of input.
Factors(n, k, o, i) ==
    CASE k = 1  -> <<o>>
      [] k = 2  -> <<n - 1, o>>
      [] k = 3  -> <<i, n + o>>
      [] k = 4  -> IF i = 0 THEN <<4*n + o>> ELSE <<i - 1, 4*n + o>>
      [] k = 5  -> <<(2*n - 1) + (o + 1) - (i + 1), 4*n + i>>
      [] k = 6  -> <<5*n + o>>
      [] k = 7  -> <<o, 6*n>>
      [] k = 8  -> <<n + o, 5*n + 1 + i>>
      [] k = 9  -> <<4*n, 5*n + 1 + o>>
      [] k = 10 -> <<4*n + 1 + o, 5*n + i>>
      [] k = 11 -> <<6*n + 1 + o>>
      [] k = 12 -> <<o, 7*n + 1>>
      [] k = 13 -> <<n + o, 6*n + 2 + i>>
      [] k = 14 -> <<4*n, 6*n + 2 + o>>
      [] OTHER  -> <<4*n + 1 + o, 6*n + 1 + i>>

\* The value the body writes.
Product(in, factors) ==
    IF factors = <<factors[1]>> THEN in[factors[1]]
    ELSE in[factors[1]] + in[factors[2]]

-----------------------------------------------------------------------------
(***************************************************************************)
(* The steps.                                                              *)
(***************************************************************************)
Phases == {"encode", "submit", "take", "verify", "decompress", "open",
           "return", "done"}

NoVector == [j \in {} |-> ZERO]
NoPacket == [num_ZZ_p |-> 0, size |-> 0, body |-> NoVector]

Init ==
    /\ L \in Lengths
    /\ msg \in Messages
    /\ phase = "encode"
    /\ code = NoVector
    /\ packet = NoPacket
    /\ input = NoVector
    /\ corrupted = FALSE
    /\ loop = 1 /\ outer = 0 /\ inner = 0 /\ pos = 0
    /\ decompressed = NoVector
    /\ row = NoVector

counters == <<loop, outer, inner, pos>>

\* The client encodes its message.
Encode ==
    /\ phase = "encode"
    /\ code' = Encoding(L, msg)
    /\ phase' = "submit"
    /\ UNCHANGED <<L, msg, packet, input, corrupted, counters, decompressed,
                   row>>

\* A corrupted client changes an element of its encoding.
Misencode(j, d) ==
    /\ phase = "submit"
    /\ code[j] = Encoding(L, msg)[j]
    /\ Cardinality({i \in Indexes(L) : code[i] # Encoding(L, msg)[i]}) < MaxOff
    /\ code' = [code EXCEPT ![j] = @ + d]
    /\ UNCHANGED <<L, msg, phase, packet, input, corrupted, counters,
                   decompressed, row>>

\* submit_message.
Submit ==
    /\ phase = "submit"
    /\ packet' = Serialize(code, 7*L + 5)
    /\ phase' = "take"
    /\ UNCHANGED <<L, msg, code, input, corrupted, counters, decompressed, row>>

\* The server takes the message out of its queue and stores it: a wrong
\* length is only reported.
Take ==
    /\ phase = "take"
    /\ input' = Deserialize(packet)
    /\ phase' = "verify"
    /\ UNCHANGED <<L, msg, code, packet, corrupted, counters, decompressed, row>>

\* The session has opened the predicate of this input: the client is blamed
\* when it is not 0, and decompress_input_encodings leaves zeros for it.
Verify ==
    /\ phase = "verify"
    /\ corrupted' = ~FormatHolds(L, input)
    /\ decompressed' = [q \in 0 .. NumMessages(L) - 1 |-> ZERO]
    /\ phase' = IF corrupted' THEN "open" ELSE "decompress"
    /\ UNCHANGED <<L, msg, code, packet, input, counters, row>>

\* One execution of the body of an inner loop.
WriteNext ==
    /\ phase = "decompress"
    /\ loop \in Loops /\ outer < Outer(L, loop) /\ inner < Inner(L, loop)
    /\ IF Skipped(loop, outer, inner)
       THEN UNCHANGED <<decompressed, pos>>
       ELSE /\ decompressed' = [decompressed EXCEPT ![pos] =
                                  Product(input, Factors(L, loop, outer, inner))]
            /\ pos' = pos + 1
    /\ inner' = inner + 1
    /\ UNCHANGED <<L, msg, phase, code, packet, input, corrupted, loop, outer,
                   row>>

\* The inner loop ends, and the next iteration of the outer one starts.
NextOuter ==
    /\ phase = "decompress"
    /\ loop \in Loops /\ outer < Outer(L, loop) /\ inner = Inner(L, loop)
    /\ outer' = outer + 1
    /\ inner' = 0
    /\ UNCHANGED <<L, msg, phase, code, packet, input, corrupted, loop, pos,
                   decompressed, row>>

\* A loop ends, and the next one starts, or the vector is returned and summed.
NextLoop ==
    /\ phase = "decompress"
    /\ loop \in Loops /\ outer = Outer(L, loop)
    /\ loop' = loop + 1 /\ outer' = 0 /\ inner' = 0
    /\ phase' = IF loop' \in Loops THEN "decompress" ELSE "open"
    /\ UNCHANGED <<L, msg, code, packet, input, corrupted, pos, decompressed, row>>

\* (Variant: one element less.)
OpenOneShort ==
    /\ phase = "open"
    /\ packet' = Serialize(decompressed, NumMessages(L) - 1)
    /\ phase' = "return"
    /\ UNCHANGED <<L, msg, code, input, corrupted, counters, decompressed, row>>

\* send_vector of a vector as long as the session has messages: the rounds
\* that open the sums send one share of each.
Open ==
    /\ phase = "open"
    /\ packet' = Serialize(decompressed, NumMessages(L))
    /\ phase' = "return"
    /\ UNCHANGED <<L, msg, code, input, corrupted, counters, decompressed, row>>

\* A peer reads the vector back.
Return ==
    /\ phase = "return"
    /\ row' = Deserialize(packet)
    /\ phase' = "done"
    /\ UNCHANGED <<L, msg, code, packet, input, corrupted, counters,
                   decompressed>>

\* The input has been used.
Done == phase = "done" /\ UNCHANGED vars

Next ==
    \/ Encode
    \/ \E j \in Indexes(L), d \in Offsets : Misencode(j, d)
    \/ Submit
    \/ Take
    \/ Verify
    \/ WriteNext
    \/ NextOuter
    \/ NextLoop
    \/ Open
    \/ Return
    \/ Done

Spec == Init /\ [][Next]_vars

-----------------------------------------------------------------------------
(***************************************************************************)
(* Properties.                                                             *)
(***************************************************************************)
Elements == Nat \cup {ZERO}

\* Every variable has its type; the loop counters stay in their ranges, so
\* that every index read is one of input, and pos never passes the end of
\* decompressed, which SetLength sized before the loops.
TypeOK ==
    /\ L \in Lengths
    /\ msg \in Messages
    /\ phase \in Phases
    /\ corrupted \in BOOLEAN
    /\ phase # "encode" => code \in [Indexes(L) -> Nat]
    /\ phase \notin {"encode", "submit", "take"} =>
          /\ input \in [Indexes(L) -> Nat]
    /\ phase \in {"decompress", "open", "return", "done"} =>
          decompressed \in [0 .. NumMessages(L)-1 -> Elements]
    /\ loop \in 1 .. 16
    /\ loop \in Loops => outer \in 0 .. Outer(L, loop)
    /\ loop \in Loops => inner \in 0 .. Inner(L, loop)
    /\ pos \in 0 .. NumMessages(L)

\* The equations accept exactly the encodings: an input passes verify_format
\* if and only if it is what add2basis_encode makes of the message in its
\* first element, whatever elements a client changed.  An equation that is
\* missing, or that two elements share, would leave an element unchecked.
VerdictIsRight ==
    phase \in {"decompress", "open", "return", "done"} =>
        (~corrupted <=> input = Encoding(L, input[0]))

\* What opt_decompress_encoding has written is, at every position q, power
\* q+1 of the message: fifteen loops over three progressions cover every
\* exponent once and in order, so that the session's sum number q+1 adds up
\* the same power of every message.
DecompressedPowers ==
    phase = "decompress" \/ (phase = "open" /\ ~corrupted) =>
        \A q \in 0 .. pos-1 : decompressed[q] = input[0] * (q + 1)

\* When the loops are done every position of the vector has been written.
AllWritten ==
    phase \in {"open", "return", "done"} /\ ~corrupted => pos = NumMessages(L)

\* A vector of the length of a session reaches a peer as it was sent exactly
\* when its length fits the header field num_ZZ_p: the peer reads N elements
\* whatever the header says.
RowArrivesWhole ==
    phase = "done" => (row = decompressed <=> NumMessages(L) < Word)

=============================================================================

------------------------------ MODULE Opening ------------------------------
(***************************************************************************)
(* How one server opens a batch of secret-shared values (rm_server_stm.hpp)*)
(* with the Reed-Solomon decoder of secretsharing.h.                       *)
(*                                                                         *)
(* Round one: the server receives a share of every block from every server *)
(* and open_exp_shares_to_all decodes each block, a polynomial of degree   *)
(* 2t.  Round two: the servers exchange what they decoded, and             *)
(* reconstruct_batched_shares decodes each block again, now as a constant, *)
(* since the packing l is 1 (rm_server_main.cpp:107).                      *)
(*                                                                         *)
(* A faulty server sends any share.  The model follows one server that is  *)
(* not faulty; the others that are not are copies of it.                   *)
(***************************************************************************)
EXTENDS Polynomials, FiniteSets

CONSTANTS
    n,          \* info.n, the number of servers; xvals is 1, ..., n
    t,          \* info.t, the number of faulty servers it tolerates
    Blocks,     \* num_blocks1
    Sharings,   \* the polynomials a block may be shared with
    FaultySets, \* the sets of servers that may be faulty
    Answers     \* what a peer may have decoded when more than t are faulty

Servers == 1 .. n

\* rm_server_main.cpp derives t from n; the shares of a product of two
\* values, of degree 2t, must be decodable (secretsharing.h:79).
ASSUME OpeningAssumption ==
    /\ n \in 1 .. p-1
    /\ t = IF n % 4 # 0 THEN n \div 4 ELSE (n - 1) \div 4
    /\ Blocks \in Nat \ {0}
    /\ Sharings \subseteq {f \in Polys : Deg(f) <= 2*t}
    /\ FaultySets \subseteq SUBSET Servers
    /\ Answers \subseteq Field

VARIABLES
    sharing,    \* the polynomial each block is shared with
    faulty,     \* the servers that send any share
    phase,      \* what the server does next
    i,          \* the loops' counter: the block it works on
    shares,     \* the n shares of that block
    opened,     \* opened_shares, local to round one: what it decoded
    errors,     \* the vector errors of reconstruct_batched_shares
    output      \* output_secrets

vars == <<sharing, faulty, phase, i, shares, opened, errors, output>>

\* gen_xvals.
xvals == [x \in Servers |-> x]

\* BuildFromRoots(xvals), rm_server_main.cpp:149.
g0 == FromRoots(xvals)

Secret(b) == Coeff(sharing[b], 0)

(***************************************************************************)
(* rs_decode.                                                              *)
(***************************************************************************)
\* The x values where the shares are not those of q.
WrongAt(q, ys) == {x \in Servers : Evaluate(q, x) # ys[x]}

\* (Variant: the target degree is one more.)
BelowTargetPlusOne(f, d) == 2 * Deg(f) < n + d + 3

\* deg < target_deg, which is (n + d + 1) / 2.
BelowTarget(f, d) == 2 * Deg(f) < n + d + 1

\* Step 2, the partial GCD of g0 and the interpolation g1: it stops at the
\* first remainder below the target degree.
PartialGcd(g1, d) ==
    LET step[k \in Nat] ==
          IF k = 0 THEN [a |-> g0, b |-> g1, t0 |-> <<>>, t1 |-> <<1>>]
          ELSE LET prev == step[k-1]
                   div == DivRem(prev.a, prev.b)
               IN IF BelowTarget(prev.b, d) THEN prev
                  ELSE [a |-> prev.b, b |-> div.r, t0 |-> prev.t1,
                        t1 |-> Minus(prev.t0, Times(div.q, prev.t1))]
    IN step[n + 1]

\* (Variant: one coefficient too many.)
DecodedLonger(q, ys, ell) ==
    [ok |-> TRUE, secrets |-> [k \in 1 .. ell+1 |-> Coeff(q, k-1)],
     errors |-> WrongAt(q, ys)]

Decoded(q, ys, ell) ==
    [ok |-> TRUE, secrets |-> [k \in 1 .. ell |-> Coeff(q, k-1)],
     errors |-> WrongAt(q, ys)]

NotDecoded == [ok |-> FALSE, secrets |-> <<>>, errors |-> {}]

\* (Variant: without step 0.)
rs_decode_no_shortcut(ys, d, ell) ==
    LET gcd == PartialGcd(Interpolate(xvals, ys), d)
        div == DivRem(gcd.b, gcd.t1)
    IN IF div.r = <<>> /\ Deg(div.q) \in 0 .. d
       THEN Decoded(div.q, ys, ell)
       ELSE NotDecoded

\* (Variant: step 0 allows n - d shares that are not 0.)
rs_decode_wide_shortcut(ys, d, ell) ==
    LET gcd == PartialGcd(Interpolate(xvals, ys), d)
        div == DivRem(gcd.b, gcd.t1)
    IN IF Cardinality(WrongAt(<<>>, ys)) <= n - d
       THEN Decoded(<<>>, ys, ell)
       ELSE IF div.r = <<>> /\ Deg(div.q) \in 0 .. d
            THEN Decoded(div.q, ys, ell)
            ELSE NotDecoded

\* Step 0 answers for the zero polynomial; the test deg(q) < d+1 of step 3 is
\* unsigned, so that it fails for it.
rs_decode(ys, d, ell) ==
    LET gcd == PartialGcd(Interpolate(xvals, ys), d)
        div == DivRem(gcd.b, gcd.t1)
    IN IF Cardinality(WrongAt(<<>>, ys)) <= (n - d) \div 2
       THEN Decoded(<<>>, ys, ell)
       ELSE IF div.r = <<>> /\ Deg(div.q) \in 0 .. d
            THEN Decoded(div.q, ys, ell)
            ELSE NotDecoded

-----------------------------------------------------------------------------
Phases == {"open", "decode", "return", "reconstruct", "check", "aborted",
           "overread", "done"}

Init ==
    /\ sharing \in [1 .. Blocks -> Sharings]
    /\ faulty \in FaultySets
    /\ phase = "open"
    /\ i = 1
    /\ shares = <<>>
    /\ opened = <<>>
    /\ errors = {}
    /\ output = <<>>

\* rec_exp_shares1[i]: with l = 1 the expanded share of a block is the
\* share itself, the same for every receiver.
ReceiveShares ==
    /\ phase = "open"
    /\ \E wrong \in [faulty -> Field] :
          shares' = [x \in Servers |->
                       IF x \in faulty THEN wrong[x]
                       ELSE Evaluate(sharing[i], x)]
    /\ phase' = "decode"
    /\ UNCHANGED <<sharing, faulty, i, opened, errors, output>>

\* An iteration of open_exp_shares_to_all; a block that cannot be decoded is
\* opened to 0.
OpenBlock ==
    /\ phase = "decode"
    /\ \E decoded \in {rs_decode(shares, 2*t, 1)} :
          opened' = Append(opened, IF decoded.ok THEN decoded.secrets[1] ELSE 0)
    /\ shares' = <<>>
    /\ IF i < Blocks
       THEN phase' = "open" /\ i' = i + 1
       ELSE phase' = "return" /\ i' = 1
    /\ UNCHANGED <<sharing, faulty, errors, output>>

\* ret_open_exp_shares[i]: what the servers opened block i to.  A server that
\* is not faulty opened it to the secret (OpenedRight, which holds for each
\* of them) unless more than t are faulty.
ReceiveOpenings ==
    /\ phase = "return"
    /\ \E wrong \in [faulty -> Field], other \in [Servers \ faulty -> Answers] :
          shares' = [x \in Servers |->
                       IF x \in faulty THEN wrong[x]
                       ELSE IF Cardinality(faulty) <= t THEN Secret(i)
                       ELSE other[x]]
    /\ phase' = "reconstruct"
    /\ opened' = <<>>
    /\ UNCHANGED <<sharing, faulty, i, errors, output>>

\* The assertion of rs_decode at the start of an iteration.
AssertFails ==
    /\ phase = "reconstruct"
    /\ errors # {}
    /\ phase' = "aborted"
    /\ UNCHANGED <<sharing, faulty, i, shares, opened, errors, output>>

\* An iteration of reconstruct_batched_shares: it keeps errors, and appends
\* nothing for a block that cannot be decoded.
ReconstructBlock ==
    /\ phase = "reconstruct"
    /\ errors = {}
    /\ \E decoded \in {rs_decode(shares, 0, 1)} :
          /\ output' = output \o decoded.secrets
          /\ errors' = decoded.errors
    /\ shares' = <<>>
    /\ IF i < Blocks
       THEN phase' = "return" /\ i' = i + 1
       ELSE phase' = "check" /\ i' = i
    /\ UNCHANGED <<sharing, faulty, opened>>

\* OPEN_CHECK_WF_PREDICATES reads one element per message, before it asserts
\* that there are as many.
Check ==
    /\ phase = "check"
    /\ phase' = IF Len(output) < Blocks THEN "overread" ELSE "done"
    /\ UNCHANGED <<sharing, faulty, i, shares, opened, errors, output>>

Stopped ==
    /\ phase \in {"aborted", "overread", "done"}
    /\ UNCHANGED vars

Next ==
    \/ ReceiveShares
    \/ OpenBlock
    \/ ReceiveOpenings
    \/ AssertFails
    \/ ReconstructBlock
    \/ Check
    \/ Stopped

Spec == Init /\ [][Next]_vars

-----------------------------------------------------------------------------
(***************************************************************************)
(* Properties.                                                             *)
(***************************************************************************)
Tolerated == Cardinality(faulty) <= t

\* Every variable has its type.
TypeOK ==
    /\ sharing \in [1 .. Blocks -> Sharings]
    /\ faulty \in FaultySets
    /\ phase \in Phases
    /\ i \in 1 .. Blocks
    /\ phase \in {"decode", "reconstruct"} => shares \in [Servers -> Field]
    /\ errors \subseteq Servers
    /\ Len(opened) <= Blocks /\ Len(output) <= Blocks

\* The polynomials of degree at most d within the decoding radius of ys.
Close(ys, d) ==
    {q \in {Poly(v, d) : v \in [0 .. d -> Field]} :
        2 * Cardinality(WrongAt(q, ys)) <= n - d - 1}

\* For n - d even the shortcut of step 0 goes one share further than the radius.
ShortcutOnly(decoded, ys, d) ==
    2 * Cardinality(WrongAt(<<>>, ys)) = n - d /\ decoded = Decoded(<<>>, ys, 1)

\* rs_decode does what a search through all polynomials would.
MatchesSearch(d) ==
    \A decoded \in {rs_decode(shares, d, 1)} :
        LET close == Close(shares, d)
        IN IF close = {} THEN decoded.ok => ShortcutOnly(decoded, shares, d)
           ELSE \A q \in close : decoded = Decoded(q, shares, 1)

\* Gao's decoder with its shortcut for the zero polynomial fails only when no
\* polynomial of the degree is within the decoding radius of the shares the
\* server received, and otherwise returns the secret of the one that is and
\* the x values where its shares are wrong.
DecodesWithinRadius ==
    /\ phase = "decode" => MatchesSearch(2*t)
    /\ phase = "reconstruct" => MatchesSearch(0)

\* At most t faulty servers, wherever they are and whatever they send, do not
\* change what a block opens to in round one.
OpenedRight ==
    Tolerated => \A b \in 1 .. Len(opened) : opened[b] = Secret(b)

\* Nor do they change what round two reconstructs: block b's secret is element
\* b of output, so that every server blames the same clients.
ReconstructedRight ==
    Tolerated => \A b \in 1 .. Len(output) : output[b] = Secret(b)

\* No element is read that reconstruct_batched_shares did not append.
NoOverread == Tolerated => phase # "overread"

\* secretsharing.h:105 asserts that errors is empty when a block is decoded.
ErrorsEmptyAtCall == phase # "aborted"

=============================================================================

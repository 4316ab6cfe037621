---------------------------- MODULE RootFinding ----------------------------
(***************************************************************************)
(* The last step of a session (COMPUTE_NEWTON_ID_AND_FIND_ROOTS in         *)
(* rm_server_stm.hpp, root_finding.h): the N power sums of the messages    *)
(* give, by Newton's identities, the polynomial whose roots the messages   *)
(* are, and find_roots finds them with tangent Graeffe transforms.         *)
(*                                                                         *)
(* find_roots calls itself on what is left of the polynomial.  A call, the *)
(* action FindRoots, draws a random shift tau; what it finds depends on    *)
(* tau, and it may find some of the roots or none.                         *)
(***************************************************************************)
EXTENDS Polynomials, FiniteSets

CONSTANTS
    zeta,           \* a generator of the field's multiplicative group
    two_exponent,
    odd_factor,     \* p = odd_factor * 2^two_exponent + 1
    Batches         \* the sequences of messages a session may mix

\* power2_ZZ.
power2[k \in Nat] == IF k = 0 THEN 1 ELSE 2 * power2[k-1]

\* The primes of the table in rm_common.hpp are of this form, with zeta of
\* order p-1; there are far fewer clients than elements of the field.
ASSUME FftPrimeAssumption ==
    /\ odd_factor \in Nat /\ two_exponent \in Nat
    /\ p = odd_factor * power2[two_exponent] + 1
    /\ zeta \in 1 .. p-1
    /\ {Power(zeta, k) : k \in 1 .. p-1} = 1 .. p-1
ASSUME BatchesAssumption == Batches \subseteq {b \in Seq(Field) : Len(b) < p}

VARIABLES
    batch,      \* the messages of the session
    phase,      \* "newton", "roots" or "done"
    f,          \* the argument of the current call of find_roots
    Z,          \* what the calls have appended to the output
    unlucky     \* history: "root" when some tau was a root, "degree" when some
                \* tau made hbar lose its degree

vars == <<batch, phase, f, Z, unlucky>>

N == Len(batch)

Neg(a) == (p - a) % p

\* The power sum of index k: what the session opens as sums_of_powers[k-1].
PowerSum(k) == SumFrom([m \in 1 .. N |-> Power(batch[m], k)], 1, N)

(***************************************************************************)
(* newton_to_polynomial.  e is output[degree], output[degree-1], ...: each *)
(* step appends output[degree - k].                                        *)
(***************************************************************************)
\* (Variant: the division by degree - i is forgotten.)
newton_undivided(newton_sums, degree) ==
    LET product(e, k) == [j \in 1 .. k-1 |-> newton_sums[j] * e[k-j+1]]
        next(e, k) == Neg((newton_sums[k] + SumFrom(product(e, k), 1, k-1)) % p)
        e[k \in 0 .. degree] ==
          IF k = 0 THEN <<1>> ELSE Append(e[k-1], next(e[k-1], k))
        top == e[degree]
    IN Poly([i \in 0 .. degree |-> top[degree - i + 1]], degree)

newton_to_polynomial(newton_sums, degree) ==
    LET product(e, k) == [j \in 1 .. k-1 |-> newton_sums[j] * e[k-j+1]]
        next(e, k) ==
          (Neg((newton_sums[k] + SumFrom(product(e, k), 1, k-1)) % p)
             * inv[k]) % p
        e[k \in 0 .. degree] ==
          IF k = 0 THEN <<1>> ELSE Append(e[k-1], next(e[k-1], k))
        top == e[degree]
    IN Poly([i \in 0 .. degree |-> top[degree - i + 1]], degree)

(***************************************************************************)
(* The tangent Graeffe transform.                                          *)
(***************************************************************************)
\* initial_linear_expansion: the Taylor coefficients of f at -tau, and those
\* of its derivative.
initial_linear_expansion(g, neg_tau) ==
    LET derived[i \in Nat] == IF i = 0 THEN g ELSE Derivative(derived[i-1])
        factorial[i \in Nat] == IF i = 0 THEN 1 ELSE (i * factorial[i-1]) % p
        taylor(i) == Evaluate(derived[i], neg_tau)
    IN [h    |-> Poly([i \in 0 .. Deg(g) |->
                        (taylor(i) * inv[factorial[i]]) % p], Deg(g)),
        hbar |-> Poly([i \in 0 .. Deg(g) - 1 |->
                        (taylor(i+1) * inv[factorial[i]]) % p], Deg(g) - 1)]

\* The terms of g with an exponent of the given parity.
Terms(g, parity) ==
    Poly([i \in 0 .. Deg(g) |-> IF i % 2 = parity THEN g[i+1] ELSE 0], Deg(g))

\* The polynomial of the even coefficients of g, up to the degree d.
EvenCoeffs(g, d) == Poly([i \in 0 .. d |-> Coeff(g, 2*i)], d)

\* update_linear_expansion: one squaring of the roots.
update_linear_expansion(hs) ==
    LET hbarneg == Minus(Terms(hs.hbar, 0), Terms(hs.hbar, 1))
        a == Minus(Times(Terms(hs.h, 0), Terms(hs.h, 0)),
                   Times(Terms(hs.h, 1), Terms(hs.h, 1)))
        b == Scale(2, Times(hs.h, hbarneg))
    IN [h |-> EvenCoeffs(a, Deg(hs.h)), hbar |-> EvenCoeffs(b, Deg(hs.hbar))]

\* tangent_graeffe_transform, with rho = 2^ell.
tangent_graeffe_transform(g, ell, tau) ==
    LET hs[k \in Nat] == IF k = 0 THEN initial_linear_expansion(g, Neg(tau))
                         ELSE update_linear_expansion(hs[k-1])
    IN hs[ell]

\* Some squaring but the last lowers the degree of hbar: the next ones then
\* copy fewer coefficients than hbar has.
LosesDegree(g, ell, tau) ==
    \E k \in 0 .. ell-1 :
        \E hs \in {tangent_graeffe_transform(g, k, tau)} :
            Deg(hs.hbar) < Deg(g) - 1

(***************************************************************************)
(* The choice of the order chi of the roots of unity.                      *)
(***************************************************************************)
\* odd_factor << (two_exponent - 2 - ell), the chi_zz of the code.
ChiZZ(ell) == odd_factor * power2[two_exponent - 2 - ell]

\* The two cases of find_roots.
SmallDegree(d) == two_exponent > 3 /\ d < ChiZZ(1)

\* The loop on ell: it stops at the first ell whose chi_zz the degree
\* reaches.
ChooseEll(d) ==
    LET stops == {ell \in 1 .. two_exponent - 2 :
                    d >= ChiZZ(ell) \/ ell = two_exponent - 2}
    IN CHOOSE ell \in stops : \A k \in stops : ell <= k

\* batch_eval: the values of g at the chi powers of w^2, with w of order
\* 2*chi.  powers_of_w[i] is w^(i^2).
batch_eval(g, w, chi) ==
    LET powers == [i \in 0 .. chi-1 |-> Power(w, i*i)]
        scaled == Poly([i \in 0 .. chi-1 |-> (Coeff(g, i) * powers[i]) % p], chi-1)
        tmp == Times(scaled, Poly([i \in 0 .. chi-1 |-> inv[powers[i]]], chi-1))
    IN [i \in 0 .. chi-1 |->
          ((Coeff(tmp, i) + Coeff(tmp, i+chi)) * powers[i]) % p]

\* (Variant: the subtraction of tau is not one of the field.)
RootsUnreduced(hs, tau, ell) ==
    LET chi == 4 * ChiZZ(ell)
        z == Power(zeta, power2[ell])
        w == Power(zeta, power2[ell-1])
        h_eval == batch_eval(hs.h, w, chi)
        hbar_eval == batch_eval(hs.hbar, w, chi)
        hprime_eval == batch_eval(Derivative(hs.h), w, chi)
        root(i) == ((Power(2, ell) * Power(z, i) * hprime_eval[i] * inv[hbar_eval[i]]) % p)
                     - tau
        found[i \in 0 .. chi] ==
          IF i = 0 THEN <<>>
          ELSE IF h_eval[i-1] = 0 /\ hbar_eval[i-1] # 0
               THEN Append(found[i-1], root(i-1)) ELSE found[i-1]
    IN found[chi]

\* The roots the loop over the chi-th roots of unity y appends: a y with
\* h(y) = 0 and hbar(y) # 0 gives one.
RootsFromValues(hs, tau, ell) ==
    LET chi == 4 * ChiZZ(ell)
        z == Power(zeta, power2[ell])
        w == Power(zeta, power2[ell-1])
        h_eval == batch_eval(hs.h, w, chi)
        hbar_eval == batch_eval(hs.hbar, w, chi)
        hprime_eval == batch_eval(Derivative(hs.h), w, chi)
        root(i) == (Power(2, ell) * Power(z, i) * hprime_eval[i] * inv[hbar_eval[i]]
                      + Neg(tau)) % p
        found[i \in 0 .. chi] ==    \* after i rounds
          IF i = 0 THEN <<>>
          ELSE IF h_eval[i-1] = 0 /\ hbar_eval[i-1] # 0
               THEN Append(found[i-1], root(i-1)) ELSE found[i-1]
    IN found[chi]

-----------------------------------------------------------------------------
Init ==
    /\ batch \in Batches
    /\ phase = "newton"
    /\ f = <<>>
    /\ Z = <<>>
    /\ unlucky = {}

\* The polynomial of the session.
Newton ==
    /\ phase = "newton"
    /\ f' = newton_to_polynomial([k \in 1 .. N |-> PowerSum(k)], N)
    /\ phase' = "roots"
    /\ UNCHANGED <<batch, Z, unlucky>>

\* (Variant: what is appended after the loop is -tau, the root that the loop
\* misses.)
AppendedNegated(hs, tau, ell) ==
    RootsFromValues(hs, tau, ell)
      \o (IF Evaluate(f, tau) = 0 THEN <<Neg(tau)>> ELSE <<>>)

\* What a call appends when it has drawn tau: the roots of the loop, and tau
\* itself when f(tau) = 0.
Appended(hs, tau, ell) ==
    RootsFromValues(hs, tau, ell)
      \o (IF Evaluate(f, tau) = 0 THEN <<tau>> ELSE <<>>)

\* What goes wrong in a call that draws tau.
Mishaps(tau, ell) ==
    {m \in {"root", "degree"} :
        \/ m = "root" /\ Evaluate(f, tau) = 0
        \/ m = "degree" /\ LosesDegree(f, ell, tau)}

\* A call of find_roots that draws tau.  It calls itself on the quotient when
\* it has found fewer roots than the degree and their product divides f.
FindRoots(tau) ==
    /\ phase = "roots" /\ SmallDegree(Deg(f))
    /\ \E ell \in {ChooseEll(Deg(f))} :
       \E hs \in {tangent_graeffe_transform(f, ell, tau)} :
       \E found \in {Appended(hs, tau, ell)} :
       \E div \in {DivRem(f, FromRoots(found))} :
          /\ Z' = Z \o found
          /\ unlucky' = unlucky \cup Mishaps(tau, ell)
          /\ IF Len(found) < Deg(f) /\ div.r = <<>>
             THEN f' = div.q /\ phase' = phase
             ELSE f' = f /\ phase' = "done"
    /\ UNCHANGED batch

\* NTL's FindRoots, for a polynomial of large degree: its roots, once each.
AllRoots(g) ==
    LET found[x \in 0 .. p] ==    \* those below x
          IF x = 0 THEN <<>>
          ELSE IF Evaluate(g, x-1) = 0 THEN Append(found[x-1], x-1) ELSE found[x-1]
    IN found[p]

FindRootsNTL ==
    /\ phase = "roots" /\ ~SmallDegree(Deg(f))
    /\ Z' = Z \o AllRoots(f)
    /\ phase' = "done"
    /\ UNCHANGED <<batch, f, unlucky>>

Done == phase = "done" /\ UNCHANGED vars

Next ==
    \/ Newton
    \/ \E tau \in Field : FindRoots(tau)
    \/ FindRootsNTL
    \/ Done

Spec == Init /\ [][Next]_vars

-----------------------------------------------------------------------------
(***************************************************************************)
(* Properties.                                                             *)
(***************************************************************************)
Count(x, s) == Cardinality({i \in DOMAIN s : s[i] = x})

\* A message that two clients sent is a root twice.
Simple == \A x \in Field : Count(x, batch) <= 1

\* Every variable has its type.
TypeOK ==
    /\ batch \in Batches
    /\ phase \in {"newton", "roots", "done"}
    /\ f \in Seq(Field) /\ Deg(f) <= N
    /\ Z \in Seq(Field)
    /\ unlucky \in SUBSET {"root", "degree"}

\* The polynomial of Newton's identities is the product of x - m over the
\* messages m, and every call that goes on keeps it the product of what it
\* leaves to find and what has been found, also after an unlucky tau.
FactorsKept ==
    phase = "roots" => Times(f, FromRoots(Z)) = FromRoots(batch)

\* What find_roots returns is the messages, each as often as it was sent.
\* (NTL's FindRoots, to which a large batch goes, is for simple roots only.)
ReturnsMessages ==
    phase = "done" /\ unlucky = {} /\ (Simple \/ SmallDegree(N)) =>
        \A x \in Field : Count(x, Z) = Count(x, batch)

\* Nothing is returned that is not a message, whatever the batch and also when
\* some tau was a root: the test of f(tau) after the loop can append a message
\* a second time, but never another value.
OnlyMessages ==
    "degree" \notin unlucky => \A i \in DOMAIN Z : Count(Z[i], batch) > 0

\* No call of find_roots is hopeless while the messages differ from each
\* other, whatever the calls before it have drawn: some shift tau that is not
\* unlucky separates a root from the others.  random_ZZ_p draws that tau with
\* a positive probability in every call, and each call it is drawn in leaves
\* a polynomial of smaller degree, so that find_roots returns with
\* probability 1.
CanProgress ==
    phase = "roots" /\ Simple /\ SmallDegree(Deg(f)) /\ Deg(f) > 0 =>
        \E tau \in Field, ell \in {ChooseEll(Deg(f))} :
           /\ Evaluate(f, tau) # 0
           /\ ~LosesDegree(f, ell, tau)
           /\ \E hs \in {tangent_graeffe_transform(f, ell, tau)} :
                 RootsFromValues(hs, tau, ell) # <<>>

=============================================================================

---------------------------- MODULE Polynomials ----------------------------
(***************************************************************************)
(* The prime field Z_p and its polynomials, as the code uses them through  *)
(* NTL's ZZ_p and ZZ_pX.                                                   *)
(*                                                                         *)
(* A polynomial is the sequence of its coefficients, lowest first, without *)
(* a leading zero: <<>> is the zero polynomial, of degree -1.              *)
(***************************************************************************)
EXTENDS Integers, Sequences

CONSTANT p    \* the prime

\* Both programs initialise ZZ_p with a prime of rm_common.hpp.
ASSUME PrimeAssumption ==
    /\ p \in Nat /\ p > 1
    /\ \A a, b \in 2 .. p-1 : a * b # p

Field == 0 .. p-1

\* The polynomials.
Polys == {f \in Seq(Field) : f = <<>> \/ f[Len(f)] # 0}

\* a^k in the field, by squaring.
Power(a, k) ==
    LET pow[i \in Nat] ==
          LET half == pow[i \div 2]
          IN IF i = 0 THEN 1
             ELSE (((half * half) % p) * (IF i % 2 = 0 THEN 1 ELSE a)) % p
    IN pow[k]

\* The inverses of the nonzero elements.
inv == [a \in 1 .. p-1 |-> CHOOSE b \in 1 .. p-1 : (a * b) % p = 1]

\* The sum of v[lo] .. v[hi] in the field.
SumFrom(v, lo, hi) ==
    LET sum[i \in lo-1 .. hi] == IF i < lo THEN 0 ELSE (v[i] + sum[i-1]) % p
    IN sum[hi]

Deg(f) == Len(f) - 1

\* coeff(f, i), 0 beyond the degree.
Coeff(f, i) == IF i \in 0 .. Deg(f) THEN f[i+1] ELSE 0

\* The polynomial with coefficients v[0] .. v[d].
Poly(v, d) ==
    LET top[i \in Int] == IF i < 0 \/ v[i] # 0 THEN i ELSE top[i-1]
    IN [i \in 1 .. top[d] + 1 |-> v[i-1]]

Maximum(a, b) == IF a < b THEN b ELSE a

Plus(f, g) ==
    LET d == Maximum(Deg(f), Deg(g))
    IN Poly([i \in 0 .. d |-> (Coeff(f, i) + Coeff(g, i)) % p], d)

Scale(c, f) == Poly([i \in 0 .. Deg(f) |-> (c * f[i+1]) % p], Deg(f))

Minus(f, g) == Plus(f, Scale(p-1, g))

Times(f, g) ==
    LET d == Deg(f) + Deg(g)
    IN IF f = <<>> \/ g = <<>> THEN <<>>
       ELSE Poly([k \in 0 .. d |->
                    SumFrom([i \in 0 .. k |-> Coeff(f, i) * Coeff(g, k-i)], 0, k)],
                 d)

\* eval(f, x), by Horner's rule.
Evaluate(f, x) ==
    LET val[i \in Nat] == IF i > Len(f) THEN 0 ELSE (f[i] + x * val[i+1]) % p
    IN val[1]

\* diff(f).
Derivative(f) ==
    Poly([i \in 0 .. Deg(f) - 1 |-> ((i+1) * f[i+2]) % p], Deg(f) - 1)

\* c * x^k.
Monomial(c, k) == [i \in 1 .. k+1 |-> IF i = k+1 THEN c ELSE 0]

\* DivRem(q, r, a, b), with b not zero.
DivRem(a, b) ==
    LET lead == inv[b[Len(b)]]
        step[k \in Nat] ==    \* after the k highest coefficients
          IF k = 0 THEN [q |-> <<>>, r |-> a]
          ELSE LET prev == step[k-1]
                   d == Deg(prev.r) - Deg(b)
                   m == Monomial((prev.r[Len(prev.r)] * lead) % p, d)
               IN IF d < 0 THEN prev
                  ELSE [q |-> Plus(prev.q, m), r |-> Minus(prev.r, Times(m, b))]
    IN step[Maximum(0, Deg(a) - Deg(b) + 1)]

\* BuildFromRoots(xs): the product of x - xs[i].
FromRoots(xs) ==
    LET prod[i \in 0 .. Len(xs)] ==
          IF i = 0 THEN <<1>>
          ELSE Times(prod[i-1], <<(p - xs[i]) % p, 1>>)
    IN prod[Len(xs)]

\* interpolate(xs, ys): the polynomial of degree below Len(xs) with value
\* ys[i] at xs[i], in Lagrange's form.
Interpolate(xs, ys) ==
    LET others(i) == [j \in 1 .. Len(xs) - 1 |-> IF j < i THEN xs[j] ELSE xs[j+1]]
        base(i) == FromRoots(others(i))
        term(i) == Scale((ys[i] * inv[Evaluate(base(i), xs[i])]) % p, base(i))
        sum[i \in 0 .. Len(xs)] == IF i = 0 THEN <<>> ELSE Plus(sum[i-1], term(i))
    IN sum[Len(xs)]

=============================================================================

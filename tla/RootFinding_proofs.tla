------------------------ MODULE RootFinding_proofs -------------------------
(***************************************************************************)
(* Proofs about RootFinding for any prime p, any generator zeta and any    *)
(* batches: Newton's identities, what the parts of find_roots compute, and *)
(* the invariant that nothing is lost between its calls.                   *)
(***************************************************************************)
EXTENDS RootFindingInv, Polynomials_proofs

-----------------------------------------------------------------------------
(***************************************************************************)
(* Calculating modulo p.                                                   *)
(***************************************************************************)
\* Congruent numbers have congruent sums.
LEMMA CongPlus ==
    \A a, b, c, d \in Int : Mod(a) = Mod(c) /\ Mod(b) = Mod(d) => Mod(a + b) = Mod(c + d)
<1> SUFFICES ASSUME NEW a \in Int, NEW b \in Int, NEW c \in Int, NEW d \in Int,
                    Mod(a) = Mod(c), Mod(b) = Mod(d)
             PROVE  Mod(a + b) = Mod(c + d)
  OBVIOUS
<1>1. Mod(Mod(a) + Mod(b)) = Mod(a + b) /\ Mod(Mod(c) + Mod(d)) = Mod(c + d)
  BY ModPlus2
<1> QED BY <1>1

\* Congruent numbers have congruent products.
LEMMA CongTimes ==
    \A a, b, c, d \in Int : Mod(a) = Mod(c) /\ Mod(b) = Mod(d) => Mod(a * b) = Mod(c * d)
<1> SUFFICES ASSUME NEW a \in Int, NEW b \in Int, NEW c \in Int, NEW d \in Int,
                    Mod(a) = Mod(c), Mod(b) = Mod(d)
             PROVE  Mod(a * b) = Mod(c * d)
  OBVIOUS
<1>1. Mod(a * Mod(b)) = Mod(a * b) /\ Mod(a * Mod(d)) = Mod(a * d)
  BY ModTimes
<1>2. Mod(d * Mod(a)) = Mod(d * a) /\ Mod(d * Mod(c)) = Mod(d * c)
  BY ModTimes
<1>3. d * a = a * d /\ d * c = c * d
  OBVIOUS
<1> QED BY <1>1, <1>2, <1>3

\* Under a product.
LEMMA TimesRight ==
    ASSUME NEW a \in Int, NEW b \in Int, NEW c \in Int, Mod(b) = Mod(c)
    PROVE  Mod(a * b) = Mod(a * c)
<1>1. Mod(a * Mod(b)) = Mod(a * b) /\ Mod(a * Mod(c)) = Mod(a * c)
  BY ModTimes
<1> QED BY <1>1

\* Under a difference.
LEMMA MinusRight ==
    ASSUME NEW a \in Int, NEW b \in Int, NEW c \in Int, Mod(b) = Mod(c)
    PROVE  Mod(a - b) = Mod(a - c)
<1>1. PICK b1 \in Int : b1 = -b
  OBVIOUS
<1>2. PICK c1 \in Int : c1 = -c
  OBVIOUS
<1>3. Mod(b1) = Mod(c1)
  <2>1. PICK m \in Int : m = -1
    OBVIOUS
  <2>2. Mod(m * b) = Mod(m * c)
    BY TimesRight, ZenonT(30)
  <2>3. m * b = b1 /\ m * c = c1
    BY <1>1, <1>2, <2>1
  <2> QED BY <2>2, <2>3
<1>4. Mod(a + Mod(b1)) = Mod(a + b1) /\ Mod(a + Mod(c1)) = Mod(a + c1)
  BY ModPlus
<1>5. a + b1 = a - b /\ a + c1 = a - c
  BY <1>1, <1>2
<1> QED BY <1>3, <1>4, <1>5

\* And congruent differences.
LEMMA CongMinus ==
    \A a, b, c, d \in Int : Mod(a) = Mod(c) /\ Mod(b) = Mod(d) => Mod(a - b) = Mod(c - d)
<1> SUFFICES ASSUME NEW a \in Int, NEW b \in Int, NEW c \in Int, NEW d \in Int,
                    Mod(a) = Mod(c), Mod(b) = Mod(d)
             PROVE  Mod(a - b) = Mod(c - d)
  OBVIOUS
<1>1. PICK e \in Int : e = -d
  OBVIOUS
<1>2. Mod(a - b) = Mod(a - d)
  BY MinusRight, ZenonT(30)
<1>3. Mod(e + Mod(a)) = Mod(e + a) /\ Mod(e + Mod(c)) = Mod(e + c)
  BY ModPlus
<1>4. a - d = e + a /\ e + c = c - d
  BY <1>1
<1> QED BY <1>2, <1>3, <1>4

\* The same rules in a form that the provers find by their names.
SameSum(a, b, c) == Mod(a + b) = Mod(a + c)
\* The same for a difference.
SameDifference(a, b, c) == Mod(a - b) = Mod(a - c)

\* With the left operand left alone.
LEMMA SameRight ==
    ASSUME NEW a \in Int, NEW b \in Int, NEW c \in Int, Mod(b) = Mod(c)
    PROVE  SameSum(a, b, c) /\ SameDifference(a, b, c)
<1>1. Mod(a + Mod(b)) = Mod(a + b) /\ Mod(a + Mod(c)) = Mod(a + c)
  BY ModPlus
<1>2. Mod(a - b) = Mod(a - c)
  BY MinusRight
<1> QED BY <1>1, <1>2 DEF SameSum, SameDifference

\* Under a product, on the left.
LEMMA TimesLeft ==
    ASSUME NEW a \in Int, NEW b \in Int, NEW c \in Int, Mod(b) = Mod(c)
    PROVE  Mod(b * a) = Mod(c * a)
<1>1. a * b = b * a /\ a * c = c * a
  OBVIOUS
<1>2. Mod(a * b) = Mod(a * c)
  BY TimesRight, ZenonT(30)
<1> QED BY <1>1, <1>2

\* Polynomials of degree below p with the same values are the same.
LEMMA SameValues ==
    ASSUME NEW f1 \in Polys, NEW f2 \in Polys, Deg(f1) < p, Deg(f2) < p,
           \A x \in Field : Evaluate(f1, x) = Evaluate(f2, x)
    PROVE  f1 = f2
<1>1. f1 \in Seq(Field) /\ f2 \in Seq(Field) /\ Len(f1) \in Nat /\ Len(f2) \in Nat
  BY DEF Polys
<1>2. PICK e : e = Minus(f1, f2)
  OBVIOUS
<1>3. e \in Polys /\ Len(e) <= Maximum(Len(f1), Len(f2))
  BY <1>1, <1>2, MinusIs
<1>4. Len(e) \in Nat /\ (Len(e) <= Len(f1) \/ Len(e) <= Len(f2))
  BY <1>3, <1>1 DEF Maximum, Polys
<1>5. Len(f1) <= p /\ Len(f2) <= p
  BY <1>1, PrimeSize DEF Deg
<1>6. Deg(e) < p
  BY <1>4, <1>5, <1>1, PrimeSize DEF Deg
<1>7. ASSUME NEW x \in Field PROVE Evaluate(e, x) = 0
  <2>1. x \in Int
    BY FieldInt
  <2>2. PICK u \in Int : u = Evaluate(f1, x) /\ u = Evaluate(f2, x)
    BY <2>1, <1>1, EvalType
  <2>3. Evaluate(e, x) = Mod(u - u)
    BY <1>1, <1>2, <2>1, <2>2, EvalMinus
  <2>4. u - u = 0
    OBVIOUS
  <2> QED BY <2>3, <2>4, ModSmall
<1>8. Cardinality(Field) = p
  <2>1. 0 \in Int /\ p-1 \in Int /\ p-1 - 0 + 1 = p /\ ~ (0 > p-1)
    BY PrimeSize
  <2> QED BY <2>1, FS_Interval DEF Field
<1>9. Field \in SUBSET Field
  OBVIOUS
<1>10. e = <<>>
  BY <1>3, <1>6, <1>7, <1>8, <1>9, ManyRoots
<1> QED BY <1>2, <1>10, MinusZero

(***************************************************************************)
(* FromRoots, factor by factor.                                            *)
(***************************************************************************)
\* g holds the products of the first factors of FromRoots(xs).
IsRootsTable(g, xs) ==
    /\ g[0] = <<1>>
    /\ \A k \in 0 .. Len(xs) - 1 : g[k+1] = Times(g[k], <<(p - xs[k+1]) % p, 1>>)

\* Each of them is a polynomial of its degree.
LEMMA RootsTableType ==
    ASSUME NEW xs \in Seq(Field), NEW g, IsRootsTable(g, xs), NEW k \in 0 .. Len(xs)
    PROVE  g[k] \in Polys /\ g[k] # <<>> /\ Deg(g[k]) = k
<1> DEFINE Has(m) == g[m] \in Polys /\ g[m] # <<>> /\ Deg(g[m]) = m
           S == {m \in Nat : m <= Len(xs) => Has(m)}
<1>1. 0 \in S
  BY OnePoly DEF IsRootsTable
<1>2. ASSUME NEW m \in Nat, m \in S PROVE m+1 \in S
  <2> SUFFICES ASSUME m+1 <= Len(xs) PROVE Has(m+1)
    OBVIOUS
  <2>1. Has(m) /\ m \in 0 .. Len(xs) - 1 /\ m+1 \in 1 .. Len(xs)
    BY <1>2
  <2>2. PICK a \in Field : a = xs[m+1]
    BY <2>1
  <2>3. PICK e : e = <<(p - a) % p, 1>>
    OBVIOUS
  <2>4. e \in Polys /\ e # <<>> /\ Deg(e) = 1
    BY <2>3, FactorIs
  <2>5. PICK h : h = g[m]
    OBVIOUS
  <2>6. h \in Polys /\ h # <<>> /\ Deg(h) = m
    BY <2>1, <2>5
  <2>7. h \in Seq(Field) /\ e \in Seq(Field)
    BY <2>4, <2>6 DEF Polys
  <2>8. g[m+1] = Times(h, e)
    BY <2>1, <2>2, <2>3, <2>5 DEF IsRootsTable
  <2>9. Times(h, e) \in Polys /\ Times(h, e) # <<>> /\ Deg(Times(h, e)) = m + 1
    BY <2>4, <2>6, <2>7, TimesIs, TimesDegree
  <2> QED BY <2>8, <2>9
<1>3. k \in Nat /\ k <= Len(xs)
  OBVIOUS
<1>4. k \in S
  <2> HIDE DEF S
  <2> QED BY <1>1, <1>2, <1>3, Induct
<1> QED BY <1>3, <1>4

\* There is such a table, and FromRoots is its last entry.
LEMMA RootsTableExists ==
    ASSUME NEW xs \in Seq(Field)
    PROVE  \E g : IsRootsTable(g, xs) /\ FromRoots(xs) = g[Len(xs)]
<1>1. PICK g : g = (CHOOSE s : IsProd(s, xs))
  OBVIOUS
<1>2. Len(xs) \in Nat /\ \A i \in 1 .. Len(xs) : xs[i] \in Field
  OBVIOUS
<1>3. IsProd(g, xs)
  BY <1>1, <1>2, ProdExists
<1>4. FromRoots(xs) = g[Len(xs)]
  BY <1>1 DEF FromRoots, IsProd
<1>5. \A i \in 0 .. Len(xs) : g[i] = IF i = 0 THEN <<1>> ELSE Times(g[i-1], <<(p - xs[i]) % p, 1>>)
  BY <1>3 DEF IsProd
<1>6. g[0] = <<1>>
  <2>1. 0 \in 0 .. Len(xs)
    BY <1>2
  <2> QED BY <2>1, <1>5
<1>7. ASSUME NEW k \in 0 .. Len(xs) - 1
      PROVE  g[k+1] = Times(g[k], <<(p - xs[k+1]) % p, 1>>)
  <2>1. k+1 \in 0 .. Len(xs) /\ k+1 # 0 /\ (k+1)-1 = k
    BY <1>2
  <2> QED BY <2>1, <1>5
<1> QED BY <1>4, <1>6, <1>7 DEF IsRootsTable

\* All tables agree.
LEMMA RootsTableIs ==
    ASSUME NEW xs \in Seq(Field), NEW g, IsRootsTable(g, xs)
    PROVE  FromRoots(xs) = g[Len(xs)]
<1>1. PICK h : IsRootsTable(h, xs) /\ FromRoots(xs) = h[Len(xs)]
  BY RootsTableExists
<1> DEFINE S == {m \in Nat : m <= Len(xs) => g[m] = h[m]}
<1>2. 0 \in S
  BY <1>1 DEF IsRootsTable
<1>3. ASSUME NEW m \in Nat, m \in S PROVE m+1 \in S
  <2>1. CASE m+1 <= Len(xs)
    <3>1. m \in 0 .. Len(xs) - 1 /\ g[m] = h[m]
      BY <2>1, <1>3
    <3>2. /\ g[m+1] = Times(g[m], <<(p - xs[m+1]) % p, 1>>)
          /\ h[m+1] = Times(h[m], <<(p - xs[m+1]) % p, 1>>)
      BY <3>1, <1>1 DEF IsRootsTable
    <3> QED BY <3>1, <3>2
  <2> QED BY <2>1
<1>4. Len(xs) \in S
  <2>1. Len(xs) \in Nat
    OBVIOUS
  <2> HIDE DEF S
  <2> QED BY <1>2, <1>3, <2>1, Induct
<1> QED BY <1>1, <1>4

\* The value of the product of k+1 factors.
LEMMA RootsTableStep ==
    ASSUME NEW xs \in Seq(Field), NEW g, IsRootsTable(g, xs), NEW k \in 0 .. Len(xs) - 1,
           NEW y \in Int
    PROVE  /\ xs[k+1] \in Field /\ Evaluate(g[k], y) \in Field
           /\ Evaluate(g[k+1], y) = Mod(Evaluate(g[k], y) * (y - xs[k+1]))
<1>1. k \in 0 .. Len(xs) /\ k+1 \in 1 .. Len(xs)
  OBVIOUS
<1>2. PICK a \in Field : a = xs[k+1]
  BY <1>1
<1>3. PICK e : e = <<(p - a) % p, 1>>
  OBVIOUS
<1>4. e \in Polys /\ Evaluate(e, y) = Mod(y - a)
  BY <1>3, FactorIs
<1>5. PICK h : h = g[k]
  OBVIOUS
<1>6. h \in Polys
  BY <1>1, <1>5, RootsTableType
<1>7. h \in Seq(Field) /\ e \in Seq(Field)
  BY <1>4, <1>6 DEF Polys
<1>8. g[k+1] = Times(h, e)
  BY <1>2, <1>3, <1>5 DEF IsRootsTable
<1>9. Evaluate(Times(h, e), y) = Mod(Evaluate(h, y) * Mod(y - a))
  BY <1>4, <1>7, EvalTimes
<1>10. Evaluate(h, y) \in Int /\ Evaluate(h, y) \in Field /\ y - a \in Int
  <2>1. Evaluate(h, y) \in Int /\ Evaluate(h, y) \in Field
    BY <1>7, EvalType
  <2>2. a \in Int
    BY FieldInt
  <2> QED BY <2>1, <2>2
<1>11. Mod(Evaluate(h, y) * Mod(y - a)) = Mod(Evaluate(h, y) * (y - a))
  BY <1>10, ModTimes
<1> QED BY <1>2, <1>5, <1>8, <1>9, <1>10, <1>11

\* No factors.
LEMMA FromRootsEmpty == FromRoots(<<>>) = <<1>>
<1>1. PICK xs : xs = <<>>
  OBVIOUS
<1>2. xs \in Seq(Field) /\ Len(xs) = 0
  BY <1>1
<1>3. PICK g : IsRootsTable(g, xs) /\ FromRoots(xs) = g[Len(xs)]
  BY <1>2, RootsTableExists
<1> QED BY <1>1, <1>2, <1>3 DEF IsRootsTable

\* The values of the product over two lists.
LEMMA FromRootsConcat ==
    ASSUME NEW s \in Seq(Field), NEW u \in Seq(Field), NEW y \in Int
    PROVE  Evaluate(FromRoots(s \o u), y)
             = Mod(Evaluate(FromRoots(s), y) * Evaluate(FromRoots(u), y))
<1>1. PICK xs \in Seq(Field) : xs = s \o u
  <2>1. s \o u \in Seq(Field)
    OBVIOUS
  <2> QED BY <2>1
<1>2. PICK m \in Nat : m = Len(s)
  OBVIOUS
<1>3. PICK n \in Nat : n = Len(u)
  OBVIOUS
<1>4. /\ Len(xs) = m + n
      /\ \A i \in 1 .. m : xs[i] = s[i]
      /\ \A i \in 1 .. n : xs[m + i] = u[i]
  BY <1>1, <1>2, <1>3
<1>5. PICK g : IsRootsTable(g, xs) /\ FromRoots(xs) = g[Len(xs)]
  BY RootsTableExists
<1>6. PICK h : IsRootsTable(h, u) /\ FromRoots(u) = h[Len(u)]
  BY RootsTableExists
<1>7. IsRootsTable(g, s)
  <2>1. ASSUME NEW k \in 0 .. Len(s) - 1
        PROVE  g[k+1] = Times(g[k], <<(p - s[k+1]) % p, 1>>)
    <3>1. k \in 0 .. Len(xs) - 1 /\ k+1 \in 1 .. m
      BY <1>2, <1>3, <1>4
    <3>2. g[k+1] = Times(g[k], <<(p - xs[k+1]) % p, 1>>)
      BY <3>1, <1>5 DEF IsRootsTable
    <3>3. xs[k+1] = s[k+1]
      BY <3>1, <1>4
    <3> QED BY <3>2, <3>3
  <2> QED BY <2>1, <1>5 DEF IsRootsTable
<1>8. PICK c : c = Evaluate(FromRoots(s), y)
  OBVIOUS
<1>9. c \in Int /\ c = Evaluate(g[m], y) /\ Mod(c) = c
  <2>1. FromRoots(s) = g[m]
    BY <1>2, <1>7, RootsTableIs
  <2>2. g[m] \in Polys
    BY <1>2, <1>7, RootsTableType
  <2>3. g[m] \in Seq(Field)
    BY <2>2 DEF Polys
  <2>4. Evaluate(g[m], y) \in Field
    BY <2>3, EvalType
  <2> QED BY <2>1, <2>4, <1>8, ModOf
<1> DEFINE Has(k) == Evaluate(g[m+k], y) = Mod(c * Evaluate(h[k], y))
           S == {k \in Nat : k <= n => Has(k)}
<1>10. 0 \in S
  <2>1. h[0] = <<1>>
    BY <1>6 DEF IsRootsTable
  <2>2. Evaluate(h[0], y) = 1
    BY <2>1, OnePoly
  <2>3. c * 1 = c /\ m + 0 = m
    BY <1>9
  <2> QED BY <2>2, <2>3, <1>9
<1>11. ASSUME NEW k \in Nat, k \in S PROVE k+1 \in S
  <2> SUFFICES ASSUME k+1 <= n PROVE Has(k+1)
    OBVIOUS
  <2>1. Has(k)
    BY <1>11
  <2>2. m+k \in 0 .. Len(xs) - 1 /\ k \in 0 .. Len(u) - 1 /\ (m+k)+1 = m + (k+1) /\ k+1 \in 1 .. n
    BY <1>3, <1>4
  <2>3. /\ xs[(m+k)+1] \in Field /\ Evaluate(g[m+k], y) \in Field
        /\ Evaluate(g[(m+k)+1], y) = Mod(Evaluate(g[m+k], y) * (y - xs[(m+k)+1]))
    BY <2>2, <1>5, RootsTableStep
  <2>4. /\ Evaluate(h[k], y) \in Field
        /\ Evaluate(h[k+1], y) = Mod(Evaluate(h[k], y) * (y - u[k+1]))
    BY <2>2, <1>6, RootsTableStep
  <2>5. PICK a \in Int : a = xs[(m+k)+1] /\ a = u[k+1]
    BY <2>2, <2>3, <1>4, FieldInt
  <2>6. PICK v \in Int : v = Evaluate(h[k], y)
    BY <2>4, FieldInt
  <2>7. Evaluate(g[m+(k+1)], y) = Mod(Mod(c * v) * (y - a))
    BY <2>1, <2>2, <2>3, <2>5, <2>6
  <2>8. Mod((y - a) * Mod(c * v)) = Mod((y - a) * (c * v)) /\ Mod(c * Mod(v * (y - a))) = Mod(c * (v * (y - a)))
    <3>1. y - a \in Int /\ c * v \in Int /\ v * (y - a) \in Int
      BY <1>9
    <3> QED BY <3>1, <1>9, ModTimes
  <2>9. (y - a) * (c * v) = c * (v * (y - a))
    BY <1>9
  <2>10. Mod(c * v) * (y - a) = (y - a) * Mod(c * v)
    <3>1. PICK b \in Int : b = Mod(c * v)
      BY <1>9, ModType
    <3> QED BY <3>1
  <2>11. Evaluate(h[k+1], y) = Mod(v * (y - a))
    BY <2>4, <2>5, <2>6
  <2> HIDE DEF S
  <2> QED BY <2>7, <2>8, <2>9, <2>10, <2>11
<1>12. n \in S
  <2> HIDE DEF S
  <2> QED BY <1>10, <1>11, Induct
<1>13. Has(n)
  BY <1>12
<1> HIDE DEF S
<1> QED BY <1>1, <1>3, <1>4, <1>5, <1>6, <1>8, <1>13

\* 1 is neutral.
LEMMA TimesOne ==
    ASSUME NEW e \in Polys, Deg(e) < p
    PROVE  Times(e, <<1>>) = e
<1>1. PICK o : o = <<1>>
  OBVIOUS
<1>2. o \in Polys /\ o # <<>> /\ Deg(o) = 0 /\ \A x \in Int : Evaluate(o, x) = 1
  BY <1>1, OnePoly
<1>3. e \in Seq(Field) /\ o \in Seq(Field)
  BY <1>2 DEF Polys
<1>4. Times(e, o) \in Polys
  BY <1>3, TimesIs
<1>5. Deg(Times(e, o)) < p
  <2>1. CASE e = <<>>
    <3>1. Times(e, o) = <<>>
      BY <2>1 DEF Times
    <3> QED BY <3>1, <2>1
  <2>2. CASE e # <<>>
    <3>1. Deg(Times(e, o)) = Deg(e) + 0 /\ Deg(e) \in Nat
      BY <2>2, <1>2, TimesDegree, Leading
    <3> QED BY <3>1
  <2> QED BY <2>1, <2>2
<1>6. ASSUME NEW x \in Field PROVE Evaluate(Times(e, o), x) = Evaluate(e, x)
  <2>1. x \in Int
    BY FieldInt
  <2>2. PICK v \in Int : v = Evaluate(e, x) /\ Mod(v) = v
    BY <2>1, <1>3, EvalType, ModOf
  <2>3. Evaluate(Times(e, o), x) = Mod(v * 1)
    BY <2>1, <2>2, <1>2, <1>3, EvalTimes
  <2> QED BY <2>2, <2>3
<1> QED BY <1>1, <1>4, <1>5, <1>6, SameValues

-----------------------------------------------------------------------------
(***************************************************************************)
(* Power.                                                                  *)
(***************************************************************************)
\* w is the table that Power computes.
IsPow(w, a) ==
    w = [i \in Nat |-> LET half == w[i \div 2]
                       IN IF i = 0 THEN 1
                          ELSE (((half * half) % p) * (IF i % 2 = 0 THEN 1 ELSE a)) % p]

\* g holds the powers of a, each a times the one before.
Powers(g, a) == g \in [Nat -> Field] /\ g[0] = 1 /\ \A k \in Nat : g[k+1] = Mod(a * g[k])

\* There are such powers.
LEMMA PowersExist == ASSUME NEW a \in Int PROVE \E g : Powers(g, a)
<1> DEFINE step == [kx \in Nat \X Field |-> Mod(a * kx[2])]
<1>1. \A kx \in Nat \X Field : Mod(a * kx[2]) \in Field
  <2> SUFFICES ASSUME NEW kx \in Nat \X Field PROVE Mod(a * kx[2]) \in Field
    OBVIOUS
  <2>1. PICK b \in Int : b = kx[2]
    BY FieldInt
  <2>2. a * b \in Int
    OBVIOUS
  <2> QED BY <2>1, <2>2, ModType
<1>2. IsStep(step, Field)
  BY <1>1 DEF IsStep
<1>3. 1 \in Field
  BY ModSmall
<1>4. PICK g : Follows(g, Field, 1, step)
  <2> HIDE DEF step
  <2> QED BY <1>2, <1>3, Recursion
<1>5. g \in [Nat -> Field] /\ g[0] = 1 /\ \A k \in Nat : g[k+1] = step[<<k, g[k]>>]
  <2> HIDE DEF step
  <2> QED BY <1>4 DEF Follows
<1>6. \A k \in Nat : g[k+1] = Mod(a * g[k])
  <2> SUFFICES ASSUME NEW k \in Nat PROVE g[k+1] = Mod(a * g[k])
    OBVIOUS
  <2>1. <<k, g[k]>> \in Nat \X Field
    BY <1>5
  <2>2. step[<<k, g[k]>>] = Mod(a * g[k])
    BY <2>1
  <2> HIDE DEF step
  <2> QED BY <2>2, <1>5
<1> QED BY <1>5, <1>6 DEF Powers

\* Exponents add up.
LEMMA PowersPlus ==
    ASSUME NEW a \in Int, NEW g, Powers(g, a), NEW m \in Nat, NEW n \in Nat
    PROVE  g[m + n] = Mod(g[m] * g[n])
<1> DEFINE S == {k \in Nat : g[k + n] = Mod(g[k] * g[n])}
<1>1. \A k \in Nat : g[k] \in Int /\ Mod(g[k]) = g[k]
  BY ModOf DEF Powers
<1>2. 0 \in S
  <2>1. PICK b \in Int : b = g[n] /\ Mod(b) = b
    BY <1>1
  <2>2. 1 * b = b /\ 0 + n = n
    OBVIOUS
  <2> QED BY <2>1, <2>2 DEF Powers
<1>3. ASSUME NEW k \in Nat, k \in S PROVE k+1 \in S
  <2>1. g[k + n] = Mod(g[k] * g[n])
    BY <1>3
  <2>2. PICK b \in Int : b = g[n]
    BY <1>1
  <2>3. PICK c \in Int : c = g[k]
    BY <1>1
  <2>4. g[(k+n)+1] = Mod(a * g[k+n]) /\ g[k+1] = Mod(a * c) /\ (k+n)+1 = (k+1)+n
    <3>1. k+n \in Nat /\ (k+n)+1 = (k+1)+n
      OBVIOUS
    <3> QED BY <3>1, <2>3 DEF Powers
  <2>5. Mod(a * Mod(c * b)) = Mod(a * (c * b)) /\ Mod(b * Mod(a * c)) = Mod(b * (a * c))
    <3>1. c * b \in Int /\ a * c \in Int
      OBVIOUS
    <3> QED BY <3>1, ModTimes
  <2>6. a * (c * b) = b * (a * c)
    OBVIOUS
  <2>7. PICK e \in Int : e = Mod(a * c)
    <3>1. a * c \in Int
      OBVIOUS
    <3> QED BY <3>1, ModType
  <2>8. b * e = e * b
    OBVIOUS
  <2>9. g[(k+1)+n] = Mod(g[k+1] * g[n])
    <3> HIDE DEF S
    <3> QED BY <2>1, <2>2, <2>3, <2>4, <2>5, <2>6, <2>7, <2>8
  <2> QED BY <2>9
<1>4. m \in S
  <2> HIDE DEF S
  <2> QED BY <1>2, <1>3, Induct
<1> QED BY <1>4

\* The powers satisfy the equation of squaring.
LEMMA PowersSquare ==
    ASSUME NEW a \in Int, NEW g, Powers(g, a)
    PROVE  IsPow(g, a)
<1>1. ASSUME NEW i \in Nat
      PROVE  g[i] = IF i = 0 THEN 1
                    ELSE (((g[i \div 2] * g[i \div 2]) % p) * (IF i % 2 = 0 THEN 1 ELSE a)) % p
  <2>1. CASE i = 0
    BY <2>1 DEF Powers
  <2>2. CASE i # 0
    <3>1. PICK k \in Nat : k = i \div 2
      OBVIOUS
    <3>2. PICK b \in Int : b = g[k] /\ b \in Field
      BY FieldInt DEF Powers
    <3>3. g[k + k] = Mod(b * b)
      BY <3>2, PowersPlus
    <3>4. PICK c \in Int : c = Mod(b * b) /\ Mod(c) = c
      <4>1. b * b \in Int
        OBVIOUS
      <4> QED BY <4>1, ModType
    <3>5. CASE i % 2 = 0
      <4>1. i = k + k
        BY <3>1, <3>5
      <4>2. c * 1 = c
        OBVIOUS
      <4> QED BY <2>2, <3>1, <3>2, <3>3, <3>4, <3>5, <4>1, <4>2 DEF Mod
    <3>6. CASE i % 2 # 0
      <4>1. i = (k + k) + 1 /\ k + k \in Nat
        BY <3>1, <3>6
      <4>2. g[i] = Mod(a * c)
        BY <4>1, <3>3, <3>4 DEF Powers
      <4>3. a * c = c * a
        OBVIOUS
      <4> QED BY <2>2, <3>1, <3>2, <3>4, <3>6, <4>2, <4>3 DEF Mod
    <3> QED BY <3>5, <3>6
  <2> QED BY <2>1, <2>2
<1>2. g = [i \in Nat |-> g[i]]
  BY DEF Powers
<1> QED BY <1>1, <1>2 DEF IsPow

\* Power gives the powers.
LEMMA PowerIs ==
    ASSUME NEW a \in Int, NEW g, Powers(g, a), NEW k \in Nat
    PROVE  Power(a, k) = g[k]
<1>1. PICK w : w = (CHOOSE v : IsPow(v, a))
  OBVIOUS
<1>2. IsPow(w, a) /\ IsPow(g, a)
  BY <1>1, PowersSquare
<1>3. Power(a, k) = w[k]
  BY <1>1 DEF Power, IsPow
<1>4. ASSUME w[k] # g[k] PROVE FALSE
  <2> DEFINE T == {i \in Nat : w[i] # g[i]}
  <2>1. T \in SUBSET Nat /\ T # {}
    BY <1>4
  <2>2. PICK i \in T : \A j \in T : i <= j
    <3> HIDE DEF T
    <3> QED BY <2>1, Least
  <2>3. i \in Nat /\ w[i] # g[i]
    OBVIOUS
  <2>4. w[0] = 1 /\ g[0] = 1
    BY <1>2 DEF IsPow
  <2>5. i # 0
    BY <2>3, <2>4
  <2>6. PICK m \in Nat : m = i \div 2 /\ m < i
    BY <2>3, <2>5
  <2>7. ~ (m \in T)
    BY <2>2, <2>3, <2>6
  <2>8. w[m] = g[m]
    BY <2>7
  <2>9. /\ w[i] = (((w[m] * w[m]) % p) * (IF i % 2 = 0 THEN 1 ELSE a)) % p
        /\ g[i] = (((g[m] * g[m]) % p) * (IF i % 2 = 0 THEN 1 ELSE a)) % p
    BY <1>2, <2>3, <2>5, <2>6 DEF IsPow
  <2> QED BY <2>3, <2>8, <2>9
<1> QED BY <1>3, <1>4

\* The powers of a number, as recursion on the exponent.
LEMMA PowerUnfold ==
    ASSUME NEW a \in Int
    PROVE  /\ Power(a, 0) = 1
           /\ \A k \in Nat : /\ Power(a, k) \in Field
                             /\ Power(a, k+1) = Mod(a * Power(a, k))
           /\ \A m, n \in Nat : Power(a, m + n) = Mod(Power(a, m) * Power(a, n))
<1>1. PICK g : Powers(g, a)
  BY PowersExist
<1>2. \A k \in Nat : Power(a, k) = g[k]
  BY <1>1, PowerIs
<1>3. \A m, n \in Nat : g[m + n] = Mod(g[m] * g[n]) /\ m + n \in Nat
  BY <1>1, PowersPlus
<1>4. \A k \in Nat : k+1 \in Nat
  OBVIOUS
<1> QED BY <1>1, <1>2, <1>3, <1>4 DEF Powers

\* A power of an element that is not 0 is not 0.
LEMMA PowerNonzero ==
    ASSUME NEW a \in 1 .. p-1, NEW k \in Nat
    PROVE  Power(a, k) \in 1 .. p-1
<1> DEFINE S == {i \in Nat : Power(a, i) # 0}
<1>1. a \in Int /\ a \in Field /\ a # 0
  BY DEF Field
<1>2. 0 \in S
  BY <1>1, PowerUnfold
<1>3. ASSUME NEW i \in Nat, i \in S PROVE i+1 \in S
  <2>1. PICK b \in Field : b = Power(a, i) /\ b # 0
    BY <1>1, <1>3, PowerUnfold
  <2>2. Power(a, i+1) = Mod(a * b)
    BY <1>1, <2>1, PowerUnfold
  <2>3. Mod(a) = a /\ Mod(b) = b /\ b \in Int
    BY <1>1, <2>1, ModOf
  <2>4. ASSUME Mod(a * b) = 0 PROVE FALSE
    BY <1>1, <2>1, <2>3, <2>4, NoZeroDivisors
  <2> QED BY <2>2, <2>4
<1>4. k \in S
  <2> HIDE DEF S
  <2> QED BY <1>2, <1>3, Induct
<1>5. Power(a, k) \in Field
  BY <1>1, PowerUnfold
<1> QED BY <1>4, <1>5, PrimeSize DEF Field

-----------------------------------------------------------------------------
(***************************************************************************)
(* Newton's identities.                                                    *)
(***************************************************************************)
\* Sums of the same terms.
LEMMA SumSame ==
    ASSUME NEW v, NEW w, NEW lo \in Int, NEW hi \in Int, lo - 1 <= hi,
           \A i \in lo .. hi : v[i] \in Int /\ w[i] = v[i]
    PROVE  SumFrom(w, lo, hi) = SumFrom(v, lo, hi)
<1>1. PICK g : IsSum(g, v, lo, hi) /\ SumFrom(v, lo, hi) = g[hi]
  BY SumTable
<1>2. g[lo-1] = 0
  <2>1. lo-1 \in lo-1 .. hi /\ lo-1 < lo
    OBVIOUS
  <2> QED BY <2>1, <1>1 DEF IsSum
<1>3. \A i \in lo .. hi : w[i] \in Int /\ g[i] = Mod(w[i] + g[i-1])
  <2> SUFFICES ASSUME NEW i \in lo .. hi PROVE w[i] \in Int /\ g[i] = Mod(w[i] + g[i-1])
    OBVIOUS
  <2>1. i \in lo-1 .. hi /\ ~ (i < lo)
    OBVIOUS
  <2>2. g[i] = (v[i] + g[i-1]) % p
    BY <2>1, <1>1 DEF IsSum
  <2> QED BY <2>2 DEF Mod
<1>4. SumFrom(w, lo, hi) = g[hi]
  BY <1>2, <1>3, SumIs
<1> QED BY <1>1, <1>4

\* A sum of zeros.
LEMMA SumZero ==
    ASSUME NEW v, NEW lo \in Int, NEW hi \in Int, lo - 1 <= hi,
           \A i \in lo .. hi : v[i] = 0
    PROVE  SumFrom(v, lo, hi) = 0
<1>1. PICK g : g = [i \in lo-1 .. hi |-> 0]
  OBVIOUS
<1>2. \A i \in lo-1 .. hi : g[i] = 0
  BY <1>1
<1>3. lo-1 \in lo-1 .. hi /\ hi \in lo-1 .. hi
  OBVIOUS
<1>4. g[lo-1] = 0 /\ g[hi] = 0
  BY <1>2, <1>3
<1>5. \A i \in lo .. hi : v[i] \in Int /\ g[i] = Mod(v[i] + g[i-1])
  <2> SUFFICES ASSUME NEW i \in lo .. hi PROVE v[i] \in Int /\ g[i] = Mod(v[i] + g[i-1])
    OBVIOUS
  <2>1. i \in lo-1 .. hi /\ i-1 \in lo-1 .. hi
    OBVIOUS
  <2>2. g[i] = 0 /\ g[i-1] = 0 /\ v[i] = 0
    BY <2>1, <1>2
  <2>3. 0 + 0 = 0
    OBVIOUS
  <2> QED BY <2>2, <2>3, ModSmall
<1>6. SumFrom(v, lo, hi) = g[hi]
  BY <1>4, <1>5, SumIs
<1> QED BY <1>4, <1>6

\* The terms s[j] * c[k-j] of Newton's identity number k, for j up to m.
NewtonTerms(s, c, k, m) == [j \in 1 .. m |-> s[j] * c[k-j]]

\* Newton's identity number k.
Newtonian(s, c, k) == Mod(k * c[k] + SumFrom(NewtonTerms(s, c, k, k), 1, k)) = 0

\* The sum of the first terms of the identity for one root more.
NewtonTail(a, A, B, ck, w, x) == A - a * B + a * ck - a * (w * x)

\* What one more term does to the two sums A and B of NewtonStep.
OneMore(a, A0, A1, B0, B1, s, w0, w1, x, y, r, d) ==
    /\ w1 = Mod(a * w0) /\ r = Mod(w1 + s) /\ d = Mod(x - a * y)
    /\ A1 = Mod(s * x + A0) /\ B1 = Mod(s * y + B0)

\* Subtraction, for the provers to match.
Sub(a, b) == a - b

\* The t are congruent to the z.
Reduced(t1, t2, t3, t4, t5, z1, z2, z3, z5, e) ==
    t5 = z5 - t3 /\ Mod(t1) = Mod(z1) /\ Mod(t2) = Mod(z2) /\ Mod(t3) = Mod(z3)

\* What NewtonArith rewrites.
Rewritten(t1, t2, t3, t4, t5, z1, z2, z3, z5, e) ==
    /\ Mod(t1 + t5) = Mod(z1 + (z5 - z3))
    /\ Mod(t2 + (e - t4)) = Mod(z2 + (e - t4))

\* The sums are congruent, too.
LEMMA Rewrites ==
    ASSUME NEW t1 \in Int, NEW t2 \in Int, NEW t3 \in Int, NEW t4 \in Int, NEW t5 \in Int,
           NEW z1 \in Int, NEW z2 \in Int, NEW z3 \in Int, NEW z5 \in Int, NEW e \in Int,
           Reduced(t1, t2, t3, t4, t5, z1, z2, z3, z5, e)
    PROVE  Rewritten(t1, t2, t3, t4, t5, z1, z2, z3, z5, e)
<1>1. PICK u \in Int : u = e - t4
  OBVIOUS
<1> USE DEF Reduced
<1>2. Mod(u + Mod(t2)) = Mod(u + t2) /\ Mod(u + Mod(z2)) = Mod(u + z2)
  BY ModPlus
<1>3. \A a, b, c \in Int : Mod(b) = Mod(c) => Mod(Sub(a, b)) = Mod(Sub(a, c))
  BY MinusRight DEF Sub
<1>4. Mod(Sub(z5, t3)) = Mod(Sub(z5, z3))
  BY <1>3
<1>5. PICK w \in Int : w = z5 - z3
  OBVIOUS
<1>7. Mod(t5) = Mod(w)
  BY <1>4, <1>5 DEF Sub
<1>8. Mod(Mod(t1) + Mod(t5)) = Mod(t1 + t5) /\ Mod(Mod(z1) + Mod(w)) = Mod(z1 + w)
  BY ModPlus2
<1>9. Mod(t1 + t5) = Mod(z1 + w)
  BY <1>7, <1>8
<1>10. t2 + u = u + t2 /\ z2 + u = u + z2
  OBVIOUS
<1> QED BY <1>1, <1>2, <1>5, <1>9, <1>10 DEF Rewritten

\* One term more, with the root a added to both c and s.
LEMMA NewtonArith ==
    ASSUME NEW a \in Int, NEW A0 \in Int, NEW A1 \in Int, NEW B0 \in Int, NEW B1 \in Int,
           NEW s \in Int, NEW w0 \in Int, NEW w1 \in Int, NEW x \in Int, NEW y \in Int,
           NEW ck \in Int, NEW r \in Int, NEW d \in Int,
           OneMore(a, A0, A1, B0, B1, s, w0, w1, x, y, r, d)
    PROVE  Mod(NewtonTail(a, A1, B1, ck, w1, y)) = Mod(r * d + Mod(NewtonTail(a, A0, B0, ck, w0, x)))
<1>1. PICK t1 \in Int : t1 = r * d /\ Mod(t1) = Mod((w1 + s) * (x - a * y))
  <2>1. PICK u \in Int : u = w1 + s
    OBVIOUS
  <2>2. PICK v \in Int : v = x - a * y
    OBVIOUS
  <2>3. Mod(r) = Mod(u) /\ Mod(d) = Mod(v)
    BY <2>1, <2>2, ModType DEF OneMore
  <2>4. Mod(r * d) = Mod(u * v)
    BY <2>3, CongTimes
  <2> QED BY <2>1, <2>2, <2>4
<1>2. PICK t2 \in Int : t2 = A1 - a * B1 /\ Mod(t2) = Mod((s * x + A0) - a * (s * y + B0))
  <2>1. PICK u \in Int : u = s * x + A0
    OBVIOUS
  <2>2. PICK v \in Int : v = s * y + B0
    OBVIOUS
  <2>3. Mod(A1) = Mod(u) /\ Mod(B1) = Mod(v)
    BY <2>1, <2>2, ModType DEF OneMore
  <2>4. Mod(a * B1) = Mod(a * v)
    BY <2>3, CongTimes
  <2>5. PICK b \in Int : b = a * B1
    OBVIOUS
  <2>6. PICK c \in Int : c = a * v
    OBVIOUS
  <2>7. Mod(A1 - b) = Mod(u - c)
    BY <2>3, <2>4, <2>5, <2>6, CongMinus
  <2>8. A1 - b \in Int
    OBVIOUS
  <2> QED BY <2>1, <2>2, <2>5, <2>6, <2>7, <2>8
<1>3. PICK t3 \in Int : t3 = a * (w0 * x) /\ Mod(t3) = Mod(w1 * x)
  <2>1. PICK u \in Int : u = a * w0
    OBVIOUS
  <2>2. Mod(w1) = Mod(u)
    BY <2>1, ModType DEF OneMore
  <2>3. Mod(w1 * x) = Mod(u * x)
    BY <2>2, CongTimes
  <2>4. u * x = a * (w0 * x)
    BY <2>1
  <2> QED BY <2>3, <2>4
<1>4. PICK e \in Int : e = a * ck
  OBVIOUS
<1>5. PICK t4 \in Int : t4 = a * (w1 * y)
  OBVIOUS
<1>6. PICK t5 \in Int : t5 = A0 - a * B0 + e - t3
  OBVIOUS
<1>7. Mod(t1 + Mod(t5)) = Mod(t1 + t5)
  BY ModPlus
<1>8. PICK z1 \in Int : z1 = (w1 + s) * (x - a * y)
  OBVIOUS
<1>9. PICK z2 \in Int : z2 = (s * x + A0) - a * (s * y + B0)
  OBVIOUS
<1>10. PICK z3 \in Int : z3 = w1 * x
  OBVIOUS
<1>11. PICK z5 \in Int : z5 = A0 - a * B0 + e
  OBVIOUS
<1>12. t5 = z5 - t3
  BY <1>6, <1>11
<1>13. Mod(t1) = Mod(z1) /\ Mod(t3) = Mod(z3) /\ Mod(t2) = Mod(z2)
  BY <1>1, <1>2, <1>3, <1>8, <1>9, <1>10
<1>14. /\ Mod(t1 + t5) = Mod(z1 + (z5 - z3))
       /\ Mod(t2 + (e - t4)) = Mod(z2 + (e - t4))
  <2>1. Reduced(t1, t2, t3, t4, t5, z1, z2, z3, z5, e)
    BY <1>12, <1>13 DEF Reduced
  <2>2. Rewritten(t1, t2, t3, t4, t5, z1, z2, z3, z5, e)
    BY <2>1, Rewrites
  <2> QED BY <2>2 DEF Rewritten
<1>15. z2 + (e - t4) = z1 + (z5 - z3)
  <2>1. PICK ay \in Int : ay = a * y
    OBVIOUS
  <2>2. z1 = w1 * x - w1 * ay + s * x - s * ay
    BY <1>8, <2>1
  <2>3. w1 * ay = t4 /\ s * ay = a * (s * y)
    BY <1>5, <2>1
  <2>4. PICK sx \in Int : sx = s * x
    OBVIOUS
  <2>5. PICK sy \in Int : sy = s * y
    OBVIOUS
  <2>6. a * (sy + B0) = a * sy + a * B0
    OBVIOUS
  <2>7. PICK asy \in Int : asy = a * sy
    OBVIOUS
  <2>8. PICK aB \in Int : aB = a * B0
    OBVIOUS
  <2>9. z1 = z3 - t4 + sx - asy
    BY <1>10, <2>2, <2>3, <2>4, <2>5, <2>7
  <2>10. z2 = (sx + A0) - (asy + aB)
    BY <1>9, <2>4, <2>5, <2>6, <2>7, <2>8
  <2>11. z5 = A0 - aB + e
    BY <1>11, <2>8
  <2> QED BY <2>9, <2>10, <2>11
<1>16. A1 - a * B1 + a * ck - a * (w1 * y) = t2 + (e - t4)
  <2>1. PICK b \in Int : b = a * B1
    OBVIOUS
  <2> QED BY <1>2, <1>4, <1>5, <2>1
<1>17. r * d + Mod(A0 - a * B0 + a * ck - a * (w0 * x)) = t1 + Mod(t5)
  BY <1>1, <1>3, <1>4, <1>6
<1> QED BY <1>7, <1>14, <1>15, <1>16, <1>17 DEF NewtonTail

\* The sums A and B belong to two identities that follow each other.
Follow(k, ck, cl, A, B) == Mod(k * ck + A) = 0 /\ Mod((k-1) * cl + B) = 0

\* Two of the identities give the end of the next one.
LEMMA NewtonEnd ==
    ASSUME NEW a \in Int, NEW k \in Int, NEW A \in Int, NEW B \in Int,
           NEW ck \in Int, NEW cl \in Int, NEW w \in Int,
           Follow(k, ck, cl, A, B)
    PROVE  Mod(k * Mod(ck - a * cl) + Mod(NewtonTail(a, A, B, cl, w, 0))) = 0
<1>1. PICK u \in Int : u = k * ck + A
  OBVIOUS
<1>2. PICK v \in Int : v = (k-1) * cl + B
  OBVIOUS
<1>3. PICK b \in Int : b = -a
  OBVIOUS
<1>4. Mod(u + b * Mod(v)) = Mod(u + b * v)
  BY ModHorner
<1>5. Mod(v) = 0 /\ Mod(u) = 0 /\ u + b * 0 = u
  BY <1>1, <1>2 DEF Follow
<1>6. Mod(u + b * v) = 0
  BY <1>4, <1>5
<1>7. PICK e \in Int : e = NewtonTail(a, A, B, cl, w, 0)
  BY DEF NewtonTail
<1>8. PICK d \in Int : d = ck - a * cl
  OBVIOUS
<1>9. Mod(e + k * Mod(d)) = Mod(e + k * d)
  BY ModHorner
<1>10. PICK h \in Int : h = k * Mod(d)
  <2>1. Mod(d) \in Int
    BY ModType
  <2> QED BY <2>1
<1>11. Mod(h + Mod(e)) = Mod(h + e)
  BY ModPlus
<1>12. e + k * d = u + b * v
  <2>1. PICK x \in Int : x = a * cl
    OBVIOUS
  <2>2. PICK y \in Int : y = a * B
    OBVIOUS
  <2>3. w * 0 = 0 /\ a * 0 = 0
    OBVIOUS
  <2>4. e = A - y + x
    BY <1>7, <2>1, <2>2, <2>3 DEF NewtonTail
  <2>5. d = ck - x /\ k * (ck - x) = k * ck - k * x
    BY <1>8, <2>1
  <2>6. v = k * cl - cl + B
    BY <1>2
  <2>7. a * (k * cl - cl + B) = k * x - x + y
    BY <2>1, <2>2
  <2>8. b * v = -(a * v)
    BY <1>3
  <2> QED BY <1>1, <2>4, <2>5, <2>6, <2>7, <2>8
<1>13. h + e = e + h
  OBVIOUS
<1> QED BY <1>6, <1>7, <1>8, <1>9, <1>10, <1>11, <1>12, <1>13

\* The partial sums of integers.
PartialSums(g, v, hi) ==
    /\ g[0] = 0 /\ g[hi] \in Int
    /\ \A i \in 1 .. hi : g[i] \in Int /\ g[i-1] \in Int /\ g[i] = Mod(v[i] + g[i-1])

\* There are such.
LEMMA PartialSumsExist ==
    ASSUME NEW v, NEW hi \in Nat, \A i \in 1 .. hi : v[i] \in Int
    PROVE  \E g : PartialSums(g, v, hi) /\ SumFrom(v, 1, hi) = g[hi]
<1>1. PICK g : IsSum(g, v, 1, hi) /\ SumFrom(v, 1, hi) = g[hi]
  BY SumTable
<1>2. \A i \in 0 .. hi : g[i] = IF i < 1 THEN 0 ELSE Mod(v[i] + g[i-1])
  BY <1>1 DEF IsSum, Mod
<1>3. g[0] = 0
  BY <1>2
<1> DEFINE S == {k \in Nat : k <= hi => g[k] \in Int}
<1>4. 0 \in S
  BY <1>3
<1>5. ASSUME NEW k \in Nat, k \in S PROVE k+1 \in S
  <2>1. CASE k+1 <= hi
    <3>1. k+1 \in 1 .. hi /\ k+1 \in 0 .. hi /\ ~ (k+1 < 1) /\ (k+1)-1 = k
      BY <2>1
    <3>2. PICK e \in Int : e = g[k]
      BY <2>1, <1>5
    <3>3. PICK x \in Int : x = v[k+1]
      BY <3>1
    <3>4. g[k+1] = Mod(x + e)
      BY <3>1, <3>2, <3>3, <1>2
    <3>5. x + e \in Int
      OBVIOUS
    <3> QED BY <3>4, <3>5, ModType
  <2> QED BY <2>1
<1>6. \A k \in Nat : k \in S
  <2> HIDE DEF S
  <2> QED BY <1>4, <1>5, Induct
<1>7. \A k \in 0 .. hi : g[k] \in Int
  BY <1>6
<1>8. ASSUME NEW i \in 1 .. hi PROVE g[i] \in Int /\ g[i-1] \in Int /\ g[i] = Mod(v[i] + g[i-1])
  <2>1. i \in 0 .. hi /\ i-1 \in 0 .. hi /\ ~ (i < 1)
    OBVIOUS
  <2> QED BY <2>1, <1>2, <1>7
<1>9. hi \in 0 .. hi
  OBVIOUS
<1> QED BY <1>1, <1>3, <1>7, <1>8, <1>9 DEF PartialSums

\* They end with the sum.
LEMMA PartialSumsAre ==
    ASSUME NEW v, NEW hi \in Nat, \A i \in 1 .. hi : v[i] \in Int, NEW g, PartialSums(g, v, hi)
    PROVE  SumFrom(v, 1, hi) = g[hi]
<1>1. g[1-1] = 0 /\ \A i \in 1 .. hi : g[i] = Mod(v[i] + g[i-1])
  BY DEF PartialSums
<1> QED BY <1>1, SumIs

\* Power sums s and coefficients c, and what they become when the root a is added.
OneRootMore(a, pw, s, c, r, d) ==
    /\ s \in [Nat -> Int] /\ c \in [Int -> Int] /\ \A i \in Int : i < 0 => c[i] = 0
    /\ pw \in [Nat -> Int] /\ pw[0] = 1 /\ \A l \in Nat : pw[l+1] = Mod(a * pw[l])
    /\ r \in [Nat -> Int] /\ \A j \in Nat : r[j] = Mod(pw[j] + s[j])
    /\ d \in [Int -> Int] /\ \A i \in Int : d[i] = Mod(c[i] - a * c[i-1])

\* Newton's identities hold with one root more.
LEMMA NewtonStep ==
    ASSUME NEW a \in Int, NEW pw, NEW s, NEW c, NEW r, NEW d, OneRootMore(a, pw, s, c, r, d),
           NEW k \in Nat, Newtonian(s, c, k), k = 0 \/ Newtonian(s, c, k-1)
    PROVE  Newtonian(r, d, k)
<1>0. /\ s \in [Nat -> Int] /\ c \in [Int -> Int] /\ \A i \in Int : i < 0 => c[i] = 0
      /\ pw \in [Nat -> Int] /\ pw[0] = 1 /\ \A l \in Nat : pw[l+1] = Mod(a * pw[l])
      /\ r \in [Nat -> Int] /\ \A j \in Nat : r[j] = Mod(pw[j] + s[j])
      /\ d \in [Int -> Int] /\ \A i \in Int : d[i] = Mod(c[i] - a * c[i-1])
  BY DEF OneRootMore
<1>1. CASE k = 0
  <2>1. PICK v : v = NewtonTerms(r, d, k, k)
    OBVIOUS
  <2>2. SumFrom(v, 1, 0) = 0
    BY SumZero
  <2>3. k * d[k] + 0 = 0
    BY <1>0, <1>1
  <2> QED BY <2>1, <2>2, <2>3, <1>1, ModSmall DEF Newtonian
<1>2. CASE k # 0
  <2>0. k \in Nat /\ k >= 1 /\ k-1 \in Nat
    BY <1>2
  <2>1. PICK vA : vA = NewtonTerms(s, c, k, k)
    OBVIOUS
  <2>2. PICK vB : vB = NewtonTerms(s, c, k-1, k)
    OBVIOUS
  <2>3. PICK vR : vR = NewtonTerms(r, d, k, k)
    OBVIOUS
  <2>4. \A j \in 1 .. k : /\ vA[j] = s[j] * c[k-j] /\ vA[j] \in Int
                          /\ vB[j] = s[j] * c[k-1-j] /\ vB[j] \in Int
                          /\ vR[j] = r[j] * d[k-j] /\ vR[j] \in Int
    <3> SUFFICES ASSUME NEW j \in 1 .. k
                 PROVE  /\ vA[j] = s[j] * c[k-j] /\ vA[j] \in Int
                        /\ vB[j] = s[j] * c[k-1-j] /\ vB[j] \in Int
                        /\ vR[j] = r[j] * d[k-j] /\ vR[j] \in Int
      OBVIOUS
    <3>1. j \in Nat /\ k-j \in Int /\ k-1-j \in Int
      OBVIOUS
    <3>2. s[j] \in Int /\ r[j] \in Int /\ c[k-j] \in Int /\ c[k-1-j] \in Int /\ d[k-j] \in Int
      BY <3>1, <1>0
    <3>3. vA[j] = s[j] * c[k-j] /\ vB[j] = s[j] * c[k-1-j] /\ vR[j] = r[j] * d[k-j]
      BY <2>1, <2>2, <2>3 DEF NewtonTerms
    <3>4. \A x, y \in Int : x * y \in Int
      OBVIOUS
    <3> QED BY <3>2, <3>3, <3>4
  <2>5. PICK gA : PartialSums(gA, vA, k) /\ SumFrom(vA, 1, k) = gA[k]
    BY <2>4, PartialSumsExist
  <2>6. PICK gB : PartialSums(gB, vB, k)
    BY <2>4, PartialSumsExist
  <2>7. PICK ck \in Int : ck = c[k-1]
    BY <1>0
  <2> DEFINE tail(l) == NewtonTail(a, gA[l], gB[l], ck, pw[l], c[k-l-1])
             t == [l \in 0 .. k |-> Mod(tail(l))]
  <2>8. \A l \in 0 .. k : gA[l] \in Int /\ gB[l] \in Int /\ tail(l) \in Int
    <3> SUFFICES ASSUME NEW l \in 0 .. k PROVE gA[l] \in Int /\ gB[l] \in Int /\ tail(l) \in Int
      OBVIOUS
    <3>1. gA[l] \in Int /\ gB[l] \in Int
      <4>1. CASE l = 0
        BY <4>1, <2>5, <2>6 DEF PartialSums
      <4>2. CASE l # 0
        <5>1. l \in 1 .. k
          BY <4>2
        <5> QED BY <5>1, <2>5, <2>6 DEF PartialSums
      <4> QED BY <4>1, <4>2
    <3>2. pw[l] \in Int /\ c[k-l-1] \in Int
      <4>1. l \in Nat /\ k-l-1 \in Int
        OBVIOUS
      <4> QED BY <4>1, <1>0
    <3> QED BY <3>1, <3>2 DEF NewtonTail
  <2>9. t[0] = 0
    <3>1. gA[0] = 0 /\ gB[0] = 0
      BY <2>5, <2>6 DEF PartialSums
    <3>2. k - 0 - 1 = k-1
      OBVIOUS
    <3>3. tail(0) = 0
      <4>1. tail(0) = NewtonTail(a, 0, 0, ck, 1, ck)
        BY <3>1, <3>2, <2>7, <1>0
      <4>2. a * 0 = 0 /\ 1 * ck = ck
        OBVIOUS
      <4> QED BY <4>1, <4>2 DEF NewtonTail
    <3>4. t[0] = Mod(tail(0))
      OBVIOUS
    <3> QED BY <3>3, <3>4, ModSmall
  <2>10. ASSUME NEW i \in 1 .. k PROVE t[i] = Mod(vR[i] + t[i-1])
    <3>0. i \in Nat /\ i-1 \in Nat /\ (i-1)+1 = i /\ i \in 0 .. k /\ i-1 \in 0 .. k
      OBVIOUS
    <3>1. k-(i-1)-1 = k-i /\ k-1-i = k-i-1 /\ k-i \in Int /\ k-i-1 \in Int
      OBVIOUS
    <3>2. PICK A0 \in Int : A0 = gA[i-1]
      BY <3>0, <2>8
    <3>3. PICK A1 \in Int : A1 = gA[i]
      BY <3>0, <2>8
    <3>4. PICK B0 \in Int : B0 = gB[i-1]
      BY <3>0, <2>8
    <3>5. PICK B1 \in Int : B1 = gB[i]
      BY <3>0, <2>8
    <3>6. PICK si \in Int : si = s[i]
      BY <3>0, <1>0
    <3>7. PICK w0 \in Int : w0 = pw[i-1]
      BY <3>0, <1>0
    <3>8. PICK w1 \in Int : w1 = pw[i]
      BY <3>0, <1>0
    <3>9. PICK x \in Int : x = c[k-i]
      BY <1>0
    <3>10. PICK y \in Int : y = c[k-i-1]
      BY <1>0
    <3>11. PICK ri \in Int : ri = r[i]
      BY <3>0, <1>0
    <3>12. PICK di \in Int : di = d[k-i]
      BY <1>0
    <3>13. w1 = Mod(a * w0)
      BY <3>0, <3>7, <3>8, <1>0
    <3>14. ri = Mod(w1 + si)
      BY <3>0, <3>6, <3>8, <3>11, <1>0
    <3>15. di = Mod(x - a * y)
      BY <3>1, <3>9, <3>10, <3>12, <1>0
    <3>16. A1 = Mod(si * x + A0)
      BY <2>4, <2>5, <3>2, <3>3, <3>6, <3>9 DEF PartialSums
    <3>17. B1 = Mod(si * y + B0)
      BY <2>4, <2>6, <3>1, <3>4, <3>5, <3>6, <3>10 DEF PartialSums
    <3>18. OneMore(a, A0, A1, B0, B1, si, w0, w1, x, y, ri, di)
      BY <3>13, <3>14, <3>15, <3>16, <3>17 DEF OneMore
    <3>19. Mod(NewtonTail(a, A1, B1, ck, w1, y)) = Mod(ri * di + Mod(NewtonTail(a, A0, B0, ck, w0, x)))
      BY <3>18, NewtonArith
    <3>20. tail(i) = NewtonTail(a, A1, B1, ck, w1, y) /\ tail(i-1) = NewtonTail(a, A0, B0, ck, w0, x)
      BY <3>1, <3>2, <3>3, <3>4, <3>5, <3>7, <3>8, <3>9, <3>10
    <3>21. t[i] = Mod(tail(i)) /\ t[i-1] = Mod(tail(i-1))
      BY <3>0
    <3>22. vR[i] = ri * di
      BY <2>4, <3>11, <3>12
    <3> HIDE DEF t, tail
    <3> QED BY <3>19, <3>20, <3>21, <3>22
  <2>11. SumFrom(vR, 1, k) = t[k]
    <3>1. PartialSums(t, vR, k)
      <4>1. \A l \in 0 .. k : t[l] \in Int
        <5> SUFFICES ASSUME NEW l \in 0 .. k PROVE t[l] \in Int
          OBVIOUS
        <5>1. t[l] = Mod(tail(l)) /\ tail(l) \in Int
          BY <2>8
        <5> HIDE DEF t, tail
        <5> QED BY <5>1, ModType
      <4>2. k \in 0 .. k /\ \A i \in 1 .. k : i \in 0 .. k /\ i-1 \in 0 .. k
        OBVIOUS
      <4> HIDE DEF t, tail
      <4> QED BY <4>1, <4>2, <2>9, <2>10 DEF PartialSums
    <3> HIDE DEF t, tail
    <3> QED BY <3>1, <2>4, PartialSumsAre
  <2>12. PICK A \in Int : A = gA[k]
    BY <2>5 DEF PartialSums
  <2>13. PICK B \in Int : B = gB[k]
    BY <2>6 DEF PartialSums
  <2>14. PICK x \in Int : x = c[k]
    BY <1>0
  <2>15. Mod(k * x + A) = 0
    BY <2>1, <2>5, <2>12, <2>14 DEF Newtonian
  <2>16. Mod((k-1) * ck + B) = 0
    <3>1. PICK v : v = NewtonTerms(s, c, k-1, k-1)
      OBVIOUS
    <3>2. \A j \in 1 .. k-1 : j \in 1 .. k /\ v[j] = vB[j] /\ v[j] \in Int
      <4> SUFFICES ASSUME NEW j \in 1 .. k-1 PROVE j \in 1 .. k /\ v[j] = vB[j] /\ v[j] \in Int
        OBVIOUS
      <4>1. j \in 1 .. k /\ v[j] = s[j] * c[k-1-j]
        BY <3>1, <2>0 DEF NewtonTerms
      <4> QED BY <4>1, <2>4
    <3>3. PartialSums(gB, v, k-1)
      <4>1. ASSUME NEW i \in 1 .. k-1
            PROVE  gB[i] \in Int /\ gB[i-1] \in Int /\ gB[i] = Mod(v[i] + gB[i-1])
        BY <3>2, <2>6 DEF PartialSums
      <4>2. k-1 \in 0 .. k
        BY <2>0
      <4> QED BY <4>1, <4>2, <2>6, <2>8 DEF PartialSums
    <3>4. SumFrom(v, 1, k-1) = gB[k-1]
      BY <3>2, <3>3, <2>0, PartialSumsAre
    <3>5. Mod((k-1) * ck + gB[k-1]) = 0
      BY <3>1, <3>4, <2>7, <1>2 DEF Newtonian
    <3>6. B = gB[k-1]
      <4>1. k \in 1 .. k /\ k-1-k = -1 /\ k-1 \in 0 .. k
        BY <2>0
      <4>2. gB[k] = Mod(vB[k] + gB[k-1])
        BY <4>1, <2>6 DEF PartialSums
      <4>3. vB[k] = s[k] * c[k-1-k] /\ c[k-1-k] = 0 /\ s[k] \in Int
        BY <4>1, <2>4, <1>0
      <4>4. PICK e \in Int : e = s[k]
        BY <4>3
      <4>5. e * 0 = 0
        OBVIOUS
      <4>6. vB[k] = 0
        BY <4>3, <4>4, <4>5
      <4>7. PICK h \in Int : h = gB[k-1]
        BY <4>1, <2>8
      <4>8. Mod(h) = h
        <5>1. CASE k-1 = 0
          BY <5>1, <4>7, <2>6, ModSmall DEF PartialSums
        <5>2. CASE k-1 # 0
          <6>1. k-1 \in 1 .. k
            BY <5>2, <2>0
          <6>2. gB[k-1] = Mod(vB[k-1] + gB[k-1-1]) /\ vB[k-1] \in Int /\ gB[k-1-1] \in Int
            BY <6>1, <2>4, <2>6 DEF PartialSums
          <6>3. vB[k-1] + gB[k-1-1] \in Int
            BY <6>2
          <6> QED BY <6>2, <6>3, <4>7, ModType
        <5> QED BY <5>1, <5>2
      <4>9. 0 + h = h
        OBVIOUS
      <4> QED BY <4>2, <4>6, <4>7, <4>8, <4>9, <2>13
    <3> QED BY <3>5, <3>6
  <2>17. PICK w \in Int : w = pw[k]
    BY <1>0
  <2>18. Mod(k * Mod(x - a * ck) + Mod(NewtonTail(a, A, B, ck, w, 0))) = 0
    <3>1. Follow(k, x, ck, A, B)
      BY <2>15, <2>16 DEF Follow
    <3> QED BY <3>1, NewtonEnd
  <2>19. t[k] = Mod(NewtonTail(a, A, B, ck, w, 0))
    <3>1. c[k-k-1] = 0 /\ k \in 0 .. k
      <4>1. k-k-1 \in Int /\ k-k-1 < 0
        OBVIOUS
      <4> QED BY <4>1, <1>0
    <3> QED BY <3>1, <2>12, <2>13, <2>17
  <2>20. d[k] = Mod(x - a * ck)
    BY <2>7, <2>14, <1>0
  <2> HIDE DEF t, tail
  <2> QED BY <2>3, <2>11, <2>18, <2>19, <2>20 DEF Newtonian
<1> QED BY <1>1, <1>2

\* The coefficients are integers.
LEMMA CoeffInt ==
    ASSUME NEW h \in Seq(Field), NEW m \in Int
    PROVE  Coeff(h, m) \in Field /\ Coeff(h, m) \in Int
<1>1. CASE m \in Nat
  BY <1>1, CoeffType, FieldInt
<1>2. CASE m < 0
  <2>1. ~ (m \in 0 .. Deg(h))
    BY <1>2
  <2> QED BY <2>1, ModSmall DEF Coeff
<1> QED BY <1>1, <1>2

\* The coefficients of a product with x - a.
LEMMA CoeffFactor ==
    ASSUME NEW h \in Seq(Field), NEW a \in Field, NEW m \in Int
    PROVE  Coeff(Times(h, << (p - a) % p, 1 >>), m) = Mod(Coeff(h, m-1) - a * Coeff(h, m))
<1>1. PICK e : e = <<(p - a) % p, 1>>
  OBVIOUS
<1>2. e \in Polys
  BY <1>1, FactorIs
<1>3. e \in Seq(Field)
  BY <1>2 DEF Polys
<1>4. PICK A \in Int : A = a
  BY FieldInt
<1>5. Len(e) = 2 /\ e[1] = Mod(p - A) /\ e[2] = 1
  BY <1>1, <1>4 DEF Mod
<1>6. \A i \in Nat : Coeff(e, i) = IF i = 0 THEN Mod(p - A) ELSE IF i = 1 THEN 1 ELSE 0
  <2>1. Deg(e) = 1
    BY <1>5 DEF Deg
  <2> QED BY <2>1, <1>5 DEF Coeff
<1>7. PICK x \in Int : x = Coeff(h, m)
  BY CoeffInt
<1>8. PICK y \in Int : y = Coeff(h, m-1)
  BY CoeffInt
<1>9. CASE m < 0
  <2>1. ~ (m \in 0 .. Deg(h)) /\ ~ (m-1 \in 0 .. Deg(h)) /\ ~ (m \in 0 .. Deg(Times(h, e)))
    BY <1>9
  <2>2. x = 0 /\ y = 0 /\ Coeff(Times(h, e), m) = 0
    BY <2>1, <1>7, <1>8 DEF Coeff
  <2>3. 0 - A * 0 = 0
    OBVIOUS
  <2> QED BY <2>2, <2>3, <1>1, <1>4, <1>7, <1>8, ModSmall
<1>10. CASE m \in Nat
  <2>1. PICK v : v = Product(h, e, m)
    OBVIOUS
  <2>2. Coeff(Times(h, e), m) = SumFrom(v, 0, m)
    BY <2>1, <1>3, <1>10, TimesIs
  <2>3. \A i \in 0 .. m : v[i] \in Int /\ v[i] = Coeff(h, i) * Coeff(e, m-i)
    BY <2>1, <1>3, <1>10, ProductType
  <2>4. SumFrom(v, 0, m) = Mod(v[m] + SumFrom(v, 0, m-1))
    BY <2>3, <1>10, SumUnfold
  <2>5. v[m] = x * Mod(p - A)
    <3>1. m \in 0 .. m /\ m - m = 0
      BY <1>10
    <3> QED BY <3>1, <2>3, <1>6, <1>7
  <2>6. SumFrom(v, 0, m-1) = Mod(y)
    <3>1. CASE m = 0
      <4>1. ~ (m-1 \in 0 .. Deg(h))
        BY <3>1
      <4>2. y = 0
        BY <4>1, <1>8 DEF Coeff
      <4>3. m-1 = -1 /\ SumFrom(v, 0, -1) = 0
        BY <3>1, SumZero
      <4> QED BY <4>2, <4>3, ModSmall
    <3>2. CASE m # 0
      <4>1. m-1 \in Nat /\ m-1 \in 0 .. m /\ m - (m-1) = 1 /\ ~ (m-1 < 0) /\ (m-1)-1 = m-2
        BY <3>2, <1>10
      <4>2. \A i \in 0 .. m-1 : v[i] \in Int
        BY <2>3, <1>10
      <4>3. SumFrom(v, 0, m-1) = Mod(v[m-1] + SumFrom(v, 0, m-2))
        BY <4>1, <4>2, SumUnfold
      <4>4. v[m-1] = y
        <5>1. y * 1 = y
          OBVIOUS
        <5> QED BY <5>1, <4>1, <2>3, <1>6, <1>8
      <4>5. \A i \in 0 .. m-2 : v[i] = 0
        <5> SUFFICES ASSUME NEW i \in 0 .. m-2 PROVE v[i] = 0
          OBVIOUS
        <5>1. i \in 0 .. m /\ m-i \in Nat /\ m-i # 0 /\ m-i # 1 /\ i \in Int
          BY <1>10
        <5>2. PICK z \in Int : z = Coeff(h, i)
          BY <5>1, CoeffInt
        <5>3. v[i] = z * 0
          BY <5>1, <5>2, <2>3, <1>6
        <5> QED BY <5>3
      <4>6. SumFrom(v, 0, m-2) = 0
        BY <4>1, <4>5, SumZero
      <4>7. y + 0 = y
        OBVIOUS
      <4> QED BY <4>3, <4>4, <4>6, <4>7
    <3> QED BY <3>1, <3>2
  <2>7. PICK z \in Int : z = p - A
    BY PrimeSize
  <2>8. Mod(Mod(y) + x * Mod(z)) = Mod(y + x * z)
    BY ModHorner2
  <2>9. y + x * z = (y - A * x) + p * x
    BY <2>7, PrimeSize
  <2>10. PICK u \in Int : u = y - A * x
    OBVIOUS
  <2>11. Mod(u + p * x) = Mod(u)
    BY ModShift
  <2>12. x * Mod(z) + Mod(y) = Mod(y) + x * Mod(z)
    <3>1. Mod(z) \in Int /\ Mod(y) \in Int
      BY ModType
    <3>2. PICK mz \in Int : mz = Mod(z)
      BY <3>1
    <3> QED BY <3>1, <3>2
  <2>13. Coeff(Times(h, e), m) = Mod(y - A * x)
    BY <2>2, <2>4, <2>5, <2>6, <2>7, <2>8, <2>9, <2>10, <2>11, <2>12
  <2> QED BY <2>13, <1>1, <1>4, <1>7, <1>8
<1> QED BY <1>9, <1>10

\* The power sums of the first i of xs.
Sums(xs, i) == [j \in Nat |-> SumFrom([m \in 1 .. Len(xs) |-> Power(xs[m], j)], 1, i)]

\* The coefficients of g from the one of x^i down.
Lowered(g, i) == [k \in Int |-> Coeff(g, i-k)]

\* They are sums of integers.
LEMMA SumsType ==
    ASSUME NEW xs \in Seq(Field), NEW i \in 0 .. Len(xs), NEW j \in Nat
    PROVE  /\ Sums(xs, i)[j] \in Field
           /\ i < Len(xs) => xs[i+1] \in Int /\ Sums(xs, i+1)[j] = Mod(Power(xs[i+1], j) + Sums(xs, i)[j])
           /\ i = 0 => Sums(xs, i)[j] = 0
<1>1. PICK v : v = [m \in 1 .. Len(xs) |-> Power(xs[m], j)]
  OBVIOUS
<1>2. \A m \in 1 .. Len(xs) : xs[m] \in Int /\ v[m] = Power(xs[m], j) /\ v[m] \in Int
  <2> SUFFICES ASSUME NEW m \in 1 .. Len(xs)
               PROVE  xs[m] \in Int /\ v[m] = Power(xs[m], j) /\ v[m] \in Int
    OBVIOUS
  <2>1. xs[m] \in Field
    OBVIOUS
  <2>2. PICK a \in Int : a = xs[m]
    BY <2>1, FieldInt
  <2>3. Power(a, j) \in Int
    BY PowerUnfold, FieldInt
  <2> QED BY <1>1, <2>2, <2>3
<1>3. \A k \in 0 .. Len(xs) : Sums(xs, k)[j] = SumFrom(v, 1, k)
  BY <1>1 DEF Sums
<1>4. \A m \in 1 .. i : v[m] \in Int
  BY <1>2
<1>5. i \in Nat /\ 1 - 1 <= i
  OBVIOUS
<1>6. SumFrom(v, 1, i) \in Field /\ SumFrom(v, 1, i) = IF i < 1 THEN 0 ELSE Mod(v[i] + SumFrom(v, 1, i-1))
  BY <1>4, <1>5, SumUnfold
<1>7. ASSUME i < Len(xs)
      PROVE  xs[i+1] \in Int /\ Sums(xs, i+1)[j] = Mod(Power(xs[i+1], j) + Sums(xs, i)[j])
  <2>1. i+1 \in 1 .. Len(xs) /\ i+1 \in 0 .. Len(xs) /\ ~ (i+1 < 1) /\ (i+1)-1 = i /\ 1 - 1 <= i+1
    BY <1>7
  <2>2. \A m \in 1 .. i+1 : v[m] \in Int
    BY <2>1, <1>2
  <2>3. SumFrom(v, 1, i+1) = Mod(v[i+1] + SumFrom(v, 1, i))
    BY <2>1, <2>2, SumUnfold
  <2> QED BY <2>1, <2>3, <1>2, <1>3
<1>8. i \in 0 .. Len(xs)
  OBVIOUS
<1> QED BY <1>3, <1>5, <1>6, <1>7, <1>8

\* Newton's identities, for the first i of xs.
LEMMA NewtonIdentities ==
    ASSUME NEW xs \in Seq(Field), NEW g, IsRootsTable(g, xs), NEW n \in 0 .. Len(xs)
    PROVE  \A k \in Nat : Newtonian(Sums(xs, n), Lowered(g[n], n), k)
<1> DEFINE Has(i) == \A k \in Nat : Newtonian(Sums(xs, i), Lowered(g[i], i), k)
           S == {i \in Nat : i <= Len(xs) => Has(i)}
<1>1. 0 \in S
  <2> SUFFICES ASSUME NEW k \in Nat PROVE Newtonian(Sums(xs, 0), Lowered(g[0], 0), k)
    OBVIOUS
  <2>1. PICK s : s = Sums(xs, 0)
    OBVIOUS
  <2>2. PICK c : c = Lowered(g[0], 0)
    OBVIOUS
  <2>3. 0 \in 0 .. Len(xs)
    OBVIOUS
  <2>4. \A j \in Nat : s[j] = 0
    BY <2>1, <2>3, SumsType
  <2>5. PICK h : h = g[0]
    OBVIOUS
  <2>6. h = <<1>>
    BY <2>5 DEF IsRootsTable
  <2>7. h \in Seq(Field) /\ Len(h) = 1
    BY <2>6, ModSmall
  <2>8. \A i \in Int : c[i] \in Int
    <3> SUFFICES ASSUME NEW i \in Int PROVE c[i] \in Int
      OBVIOUS
    <3>1. c[i] = Coeff(h, 0-i) /\ 0-i \in Int
      BY <2>2, <2>5 DEF Lowered
    <3> QED BY <3>1, <2>7, CoeffInt
  <2>9. k * c[k] = 0
    <3>1. CASE k = 0
      BY <3>1, <2>8
    <3>2. CASE k # 0
      <4>1. ~ (0-k \in 0 .. Deg(h))
        BY <3>2
      <4>2. c[k] = Coeff(h, 0-k)
        BY <2>2, <2>5 DEF Lowered
      <4>3. c[k] = 0
        BY <4>1, <4>2 DEF Coeff
      <4> QED BY <4>3
    <3> QED BY <3>1, <3>2
  <2>10. PICK v : v = NewtonTerms(s, c, k, k)
    OBVIOUS
  <2>11. \A j \in 1 .. k : v[j] = 0
    <3> SUFFICES ASSUME NEW j \in 1 .. k PROVE v[j] = 0
      OBVIOUS
    <3>1. v[j] = s[j] * c[k-j] /\ j \in Nat /\ k-j \in Int
      BY <2>10 DEF NewtonTerms
    <3>2. PICK y \in Int : y = c[k-j]
      BY <3>1, <2>8
    <3>3. 0 * y = 0
      OBVIOUS
    <3> QED BY <3>1, <3>2, <3>3, <2>4
  <2>12. SumFrom(v, 1, k) = 0
    BY <2>11, SumZero
  <2>13. 0 + 0 = 0
    OBVIOUS
  <2> QED BY <2>1, <2>2, <2>9, <2>10, <2>12, <2>13, ModSmall DEF Newtonian
<1>2. ASSUME NEW i \in Nat, i \in S PROVE i+1 \in S
  <2> SUFFICES ASSUME i+1 <= Len(xs), NEW k \in Nat
               PROVE  Newtonian(Sums(xs, i+1), Lowered(g[i+1], i+1), k)
    OBVIOUS
  <2>1. \A m \in Nat : Newtonian(Sums(xs, i), Lowered(g[i], i), m)
    BY <1>2
  <2>2. i \in 0 .. Len(xs) - 1 /\ i \in 0 .. Len(xs) /\ i+1 \in 0 .. Len(xs) /\ i < Len(xs) /\ i+1 \in 1 .. Len(xs)
    OBVIOUS
  <2>3. PICK a \in Field : a = xs[i+1]
    BY <2>2
  <2>4. PICK s : s = Sums(xs, i)
    OBVIOUS
  <2>5. PICK c : c = Lowered(g[i], i)
    OBVIOUS
  <2>6. PICK r : r = Sums(xs, i+1)
    OBVIOUS
  <2>7. PICK d : d = Lowered(g[i+1], i+1)
    OBVIOUS
  <2>8. PICK pw : pw = [l \in Nat |-> Power(a, l)]
    OBVIOUS
  <2>9. a \in Int
    BY FieldInt
  <2>10. pw \in [Nat -> Int] /\ pw[0] = 1 /\ \A l \in Nat : pw[l+1] = Mod(a * pw[l])
    <3>1. Power(a, 0) = 1 /\ \A l \in Nat : Power(a, l) \in Field /\ Power(a, l+1) = Mod(a * Power(a, l))
      BY <2>9, PowerUnfold
    <3>2. \A l \in Nat : Power(a, l) \in Int /\ l+1 \in Nat
      BY <3>1, FieldInt
    <3> QED BY <3>1, <3>2, <2>8
  <2>11. s \in [Nat -> Int] /\ r \in [Nat -> Int]
    <3>1. \A j \in Nat : s[j] \in Int /\ r[j] \in Int
      BY <2>2, <2>4, <2>6, SumsType, FieldInt
    <3>2. s = [j \in Nat |-> s[j]] /\ r = [j \in Nat |-> r[j]]
      BY <2>4, <2>6 DEF Sums
    <3> QED BY <3>1, <3>2
  <2>12. \A j \in Nat : r[j] = Mod(pw[j] + s[j])
    BY <2>2, <2>3, <2>4, <2>6, <2>8, SumsType
  <2>13. PICK h : h = g[i]
    OBVIOUS
  <2>14. h \in Polys /\ Deg(h) = i
    BY <2>2, <2>13, RootsTableType
  <2>15. h \in Seq(Field)
    BY <2>14 DEF Polys
  <2>16. PICK t : t = g[i+1]
    OBVIOUS
  <2>17. t \in Polys
    BY <2>2, <2>16, RootsTableType
  <2>18. t \in Seq(Field)
    BY <2>17 DEF Polys
  <2>19. t = Times(h, <<(p - a) % p, 1>>)
    BY <2>2, <2>3, <2>13, <2>16 DEF IsRootsTable
  <2>20. \A m \in Int : c[m] = Coeff(h, i-m) /\ d[m] = Coeff(t, i+1-m)
    BY <2>5, <2>7, <2>13, <2>16 DEF Lowered
  <2>21. c \in [Int -> Int] /\ d \in [Int -> Int]
    <3>1. \A m \in Int : i-m \in Int /\ i+1-m \in Int
      OBVIOUS
    <3>2. \A m \in Int : c[m] \in Int /\ d[m] \in Int
      BY <3>1, <2>15, <2>18, <2>20, CoeffInt
    <3>3. c = [m \in Int |-> c[m]] /\ d = [m \in Int |-> d[m]]
      BY <2>5, <2>7 DEF Lowered
    <3> QED BY <3>2, <3>3
  <2>22. \A m \in Int : m < 0 => c[m] = 0
    <3> SUFFICES ASSUME NEW m \in Int, m < 0 PROVE c[m] = 0
      OBVIOUS
    <3>1. ~ (i-m \in 0 .. Deg(h))
      BY <2>14
    <3> QED BY <3>1, <2>20 DEF Coeff
  <2>23. \A m \in Int : d[m] = Mod(c[m] - a * c[m-1])
    <3> SUFFICES ASSUME NEW m \in Int PROVE d[m] = Mod(c[m] - a * c[m-1])
      OBVIOUS
    <3>1. PICK n1 \in Int : n1 = i+1-m
      OBVIOUS
    <3>2. n1-1 = i-m /\ n1 = i-(m-1) /\ m-1 \in Int
      BY <3>1
    <3>3. Coeff(t, n1) = Mod(Coeff(h, n1-1) - a * Coeff(h, n1))
      BY <2>15, <2>19, CoeffFactor
    <3> QED BY <3>1, <3>2, <3>3, <2>20
  <2>24. OneRootMore(a, pw, s, c, r, d)
    BY <2>10, <2>11, <2>12, <2>21, <2>22, <2>23 DEF OneRootMore
  <2>25. Newtonian(s, c, k) /\ (k = 0 \/ Newtonian(s, c, k-1))
    <3>1. CASE k = 0
      BY <3>1, <2>1, <2>4, <2>5
    <3>2. CASE k # 0
      <4>1. k-1 \in Nat
        BY <3>2
      <4> QED BY <4>1, <2>1, <2>4, <2>5
    <3> QED BY <3>1, <3>2
  <2>26. Newtonian(r, d, k)
    BY <2>9, <2>24, <2>25, NewtonStep
  <2> QED BY <2>26, <2>6, <2>7
<1>3. n \in S
  <2>1. n \in Nat
    OBVIOUS
  <2> HIDE DEF S
  <2> QED BY <1>1, <1>2, <2>1, Induct
<1>4. n <= Len(xs)
  OBVIOUS
<1> QED BY <1>3, <1>4

\* The step of newton_to_polynomial that computes the coefficient k from those before it.
NewtonNext(sums, e, k) ==
    (Neg((sums[k] + SumFrom([j \in 1 .. k-1 |-> sums[j] * e[k-j+1]], 1, k-1)) % p) * inv[k]) % p

\* e holds the beginnings of the list it computes.
IsNewton(e, sums, degree) ==
    e = [k \in 0 .. degree |-> IF k = 0 THEN <<1>> ELSE Append(e[k-1], NewtonNext(sums, e[k-1], k))]

\* newton_to_polynomial with these names.
LEMMA NewtonFolded ==
    ASSUME NEW sums, NEW degree
    PROVE  newton_to_polynomial(sums, degree)
             = LET e == CHOOSE e : IsNewton(e, sums, degree)
               IN Poly([i \in 0 .. degree |-> e[degree][degree - i + 1]], degree)
BY DEF newton_to_polynomial, NewtonNext, IsNewton

\* Solving an identity for its last coefficient.
LEMMA NewtonSolve ==
    ASSUME NEW k \in 1 .. p-1, NEW ck \in Field, NEW s \in Int, Mod(k * ck + s) = 0
    PROVE  (Neg(Mod(s)) * inv[k]) % p = ck
<1>1. inv[k] \in 1 .. p-1 /\ Mod(k * inv[k]) = 1
  BY InverseOf DEF Mod
<1>2. PICK v \in Int : v = inv[k]
  BY <1>1, PrimeSize
<1>3. PICK c \in Int : c = ck /\ Mod(c) = c
  BY ModOf
<1>4. PICK m \in Int : m = Mod(s)
  BY ModType
<1>5. PICK n \in Int : n = Neg(m) /\ n = Mod(p - m)
  <2>1. p - m \in Int
    BY PrimeSize
  <2> QED BY <2>1, ModType DEF Neg, Mod
<1>6. PICK u \in Int : u = k * c
  BY PrimeSize
<1>7. Mod(n) = Mod(u)
  <2>1. PICK z \in Int : z = p - m
    BY PrimeSize
  <2>2. PICK y \in Int : y = -1
    OBVIOUS
  <2>3. Mod(p + y * Mod(s)) = Mod(p + y * s)
    BY PrimeSize, ModHorner
  <2>4. p + y * m = z
    BY <2>1, <2>2, PrimeSize
  <2>5. PICK b \in Int : b = y * s
    OBVIOUS
  <2>6. Mod(b + p * 1) = Mod(b)
    BY ModShift
  <2>7. p + y * s = b + p * 1
    BY <2>5, PrimeSize
  <2>8. Mod(z) = Mod(b)
    BY <2>3, <2>4, <2>6, <2>7, <1>4
  <2>9. PICK w \in Int : w = u + s
    OBVIOUS
  <2>10. Mod(w) = 0
    BY <2>9, <1>3, <1>6
  <2>11. Mod(b + Mod(w)) = Mod(b + w)
    BY ModPlus
  <2>12. b + 0 = b /\ b + w = u
    BY <2>2, <2>5, <2>9
  <2>13. Mod(n) = n
    BY <1>5, <2>1, ModType
  <2> QED BY <1>5, <2>1, <2>8, <2>10, <2>11, <2>12, <2>13
<1>8. Mod(v * Mod(n)) = Mod(v * n) /\ Mod(v * Mod(u)) = Mod(v * u)
  BY ModTimes
<1>9. PICK q \in Int : q = k * v
  BY PrimeSize
<1>10. Mod(c * Mod(q)) = Mod(c * q)
  BY ModTimes
<1>11. v * u = c * q /\ v * n = n * v /\ c * 1 = c
  <2>1. k \in Int
    BY PrimeSize
  <2> QED BY <2>1, <1>6, <1>9
<1>12. Mod(n * v) = c
  BY <1>1, <1>2, <1>3, <1>7, <1>8, <1>9, <1>10, <1>11
<1> QED BY <1>2, <1>3, <1>4, <1>5, <1>12 DEF Mod

\* newton_to_polynomial finds the coefficients that satisfy the identities.
LEMMA NewtonFinds ==
    ASSUME NEW degree \in Nat, degree < p, NEW sums, \A j \in 1 .. degree : sums[j] \in Int,
           NEW c, c[0] = 1, \A k \in 0 .. degree : c[k] \in Field,
           \A k \in 1 .. degree : Newtonian(sums, c, k)
    PROVE  newton_to_polynomial(sums, degree) = Poly([i \in 0 .. degree |-> c[degree - i]], degree)
<1> DEFINE w == [k \in 0 .. degree |-> [j \in 1 .. k+1 |-> c[j-1]]]
<1>1. ASSUME NEW k \in 1 .. degree, NEW b, b = [j \in 1 .. k |-> c[j-1]]
      PROVE  NewtonNext(sums, b, k) = c[k]
  <2>1. PICK v : v = [j \in 1 .. k-1 |-> sums[j] * b[k-j+1]]
    OBVIOUS
  <2>2. PICK u : u = NewtonTerms(sums, c, k, k)
    OBVIOUS
  <2>3. \A j \in 1 .. k : u[j] \in Int /\ u[j] = sums[j] * c[k-j]
    <3> SUFFICES ASSUME NEW j \in 1 .. k PROVE u[j] \in Int /\ u[j] = sums[j] * c[k-j]
      OBVIOUS
    <3>1. u[j] = sums[j] * c[k-j] /\ j \in 1 .. degree /\ k-j \in 0 .. degree
      BY <2>2 DEF NewtonTerms
    <3>2. sums[j] \in Int /\ c[k-j] \in Int
      BY <3>1, FieldInt
    <3> QED BY <3>1, <3>2
  <2>4. \A j \in 1 .. k-1 : u[j] \in Int /\ v[j] = u[j]
    <3> SUFFICES ASSUME NEW j \in 1 .. k-1 PROVE u[j] \in Int /\ v[j] = u[j]
      OBVIOUS
    <3>1. j \in 1 .. k /\ k-j+1 \in 1 .. k /\ (k-j+1)-1 = k-j
      OBVIOUS
    <3>2. b[k-j+1] = c[k-j]
      BY <3>1, <1>1
    <3>3. v[j] = sums[j] * c[k-j]
      BY <3>2, <2>1
    <3> QED BY <3>1, <3>3, <2>3
  <2>5. k-1 \in Int /\ 1-1 <= k-1 /\ 1 - 1 <= k /\ ~ (k < 1) /\ k \in 1 .. k /\ k \in 0 .. degree /\ k-k = 0 /\ k \in Int
    OBVIOUS
  <2>6. SumFrom(v, 1, k-1) = SumFrom(u, 1, k-1)
    BY <2>4, <2>5, SumSame
  <2>7. SumFrom(u, 1, k) = Mod(u[k] + SumFrom(u, 1, k-1))
    BY <2>3, <2>5, SumUnfold
  <2>8. SumFrom(u, 1, k-1) \in Field
    BY <2>4, <2>5, SumUnfold
  <2>9. PICK y \in Int : y = SumFrom(u, 1, k-1)
    BY <2>8, FieldInt
  <2>10. PICK z \in Int : z = sums[k]
    OBVIOUS
  <2>11. u[k] = z
    <3>1. z * 1 = z
      OBVIOUS
    <3> QED BY <3>1, <2>3, <2>5, <2>10
  <2>12. Mod(k * c[k] + Mod(z + y)) = 0
    BY <2>2, <2>7, <2>9, <2>11 DEF Newtonian
  <2>13. PICK s \in Int : s = z + y
    OBVIOUS
  <2>14. PICK ck \in Field : ck = c[k]
    BY <2>5
  <2>15. PICK m \in Int : m = k * ck
    BY <2>5, FieldInt
  <2>16. Mod(m + Mod(s)) = Mod(m + s)
    BY ModPlus
  <2>17. Mod(k * ck + s) = 0
    BY <2>12, <2>13, <2>14, <2>15, <2>16
  <2>18. k \in 1 .. p-1
    BY PrimeSize
  <2>19. (Neg(Mod(s)) * inv[k]) % p = ck
    BY <2>17, <2>18, NewtonSolve
  <2> QED BY <2>1, <2>6, <2>9, <2>10, <2>13, <2>14, <2>19 DEF NewtonNext, Mod
<1>2. IsNewton(w, sums, degree)
  <2>1. ASSUME NEW k \in 0 .. degree
        PROVE  w[k] = IF k = 0 THEN <<1>> ELSE Append(w[k-1], NewtonNext(sums, w[k-1], k))
    <3>1. CASE k = 0
      <4>1. w[0] = [j \in 1 .. 1 |-> c[j-1]]
        OBVIOUS
      <4>2. w[0] = <<1>>
        BY <4>1
      <4> QED BY <4>2, <3>1
    <3>2. CASE k # 0
      <4>1. k \in 1 .. degree /\ k-1 \in 0 .. degree /\ (k-1)+1 = k
        BY <3>2
      <4>2. PICK b : b = w[k-1]
        OBVIOUS
      <4>3. b = [j \in 1 .. k |-> c[j-1]]
        BY <4>1, <4>2
      <4>4. NewtonNext(sums, b, k) = c[k]
        BY <4>1, <4>3, <1>1
      <4>5. w[k] = [j \in 1 .. k+1 |-> c[j-1]]
        OBVIOUS
      <4>6. b \in Seq(Field) /\ Len(b) = k
        <5>1. \A j \in 1 .. k : c[j-1] \in Field
          OBVIOUS
        <5> QED BY <4>1, <4>3, <5>1
      <4>7. Append(b, c[k]) = [j \in 1 .. k+1 |-> c[j-1]]
        <5>1. c[k] \in Field
          OBVIOUS
        <5> QED BY <4>1, <4>3, <4>6, <5>1
      <4> HIDE DEF w
      <4> QED BY <3>2, <4>2, <4>4, <4>5, <4>7
    <3> QED BY <3>1, <3>2
  <2>2. w = [k \in 0 .. degree |-> w[k]]
    OBVIOUS
  <2> HIDE DEF w
  <2> QED BY <2>1, <2>2 DEF IsNewton
<1>3. PICK e : e = (CHOOSE x : IsNewton(x, sums, degree))
  OBVIOUS
<1>4. IsNewton(e, sums, degree)
  <2> HIDE DEF w
  <2> QED BY <1>2, <1>3
<1>5. \A k \in 0 .. degree : /\ e[k] = IF k = 0 THEN <<1>> ELSE Append(e[k-1], NewtonNext(sums, e[k-1], k))
                             /\ w[k] = IF k = 0 THEN <<1>> ELSE Append(w[k-1], NewtonNext(sums, w[k-1], k))
  <2> HIDE DEF w
  <2> QED BY <1>2, <1>4 DEF IsNewton
<1> DEFINE S == {k \in Nat : k <= degree => e[k] = w[k]}
<1>6. 0 \in S
  <2>1. 0 \in 0 .. degree
    OBVIOUS
  <2>2. e[0] = w[0]
    <3> HIDE DEF w
    <3> QED BY <2>1, <1>5
  <2> HIDE DEF w
  <2> QED BY <2>2
<1>7. ASSUME NEW k \in Nat, k \in S PROVE k+1 \in S
  <2>1. CASE k+1 <= degree
    <3>1. k+1 \in 0 .. degree /\ k+1 # 0 /\ (k+1)-1 = k /\ e[k] = w[k]
      <4> HIDE DEF w
      <4> QED BY <2>1, <1>7
    <3>2. e[k+1] = w[k+1]
      <4> HIDE DEF w
      <4> QED BY <3>1, <1>5
    <3> HIDE DEF w
    <3> QED BY <3>2
  <2> HIDE DEF w
  <2> QED BY <2>1
<1>8. degree \in S
  <2> HIDE DEF S
  <2> QED BY <1>6, <1>7, Induct
<1>9. e[degree] = w[degree]
  <2> HIDE DEF w
  <2> QED BY <1>8
<1>10. \A i \in 0 .. degree : e[degree][degree - i + 1] = c[degree - i]
  <2> SUFFICES ASSUME NEW i \in 0 .. degree PROVE w[degree][degree - i + 1] = c[degree - i]
    BY <1>9
  <2>1. degree - i + 1 \in 1 .. degree + 1 /\ (degree - i + 1) - 1 = degree - i /\ degree \in 0 .. degree
    OBVIOUS
  <2> QED BY <2>1
<1>11. [i \in 0 .. degree |-> e[degree][degree - i + 1]] = [i \in 0 .. degree |-> c[degree - i]]
  BY <1>10
<1> QED BY <1>3, <1>11, NewtonFolded

\* The products are monic.
LEMMA RootsTableMonic ==
    ASSUME NEW xs \in Seq(Field), NEW g, IsRootsTable(g, xs), NEW n \in 0 .. Len(xs)
    PROVE  Coeff(g[n], n) = 1
<1> DEFINE S == {i \in Nat : i <= Len(xs) => Coeff(g[i], i) = 1}
<1>1. 0 \in S
  <2>1. g[0] = <<1>>
    BY DEF IsRootsTable
  <2>2. PICK h : h = g[0]
    OBVIOUS
  <2>3. Coeff(h, 0) = 1
    BY <2>1, <2>2 DEF Coeff, Deg
  <2> QED BY <2>2, <2>3
<1>2. ASSUME NEW i \in Nat, i \in S PROVE i+1 \in S
  <2> SUFFICES ASSUME i+1 <= Len(xs) PROVE Coeff(g[i+1], i+1) = 1
    OBVIOUS
  <2>1. i \in 0 .. Len(xs) - 1 /\ i \in 0 .. Len(xs) /\ i+1 \in 1 .. Len(xs) /\ i+1 \in Int /\ (i+1)-1 = i
    OBVIOUS
  <2>2. PICK h : h = g[i]
    OBVIOUS
  <2>3. h \in Polys /\ Deg(h) = i /\ Coeff(h, i) = 1
    BY <2>1, <2>2, <1>2, RootsTableType
  <2>4. h \in Seq(Field)
    BY <2>3 DEF Polys
  <2>5. PICK a \in Field : a = xs[i+1]
    BY <2>1
  <2>6. g[i+1] = Times(h, <<(p - a) % p, 1>>)
    BY <2>1, <2>2, <2>5 DEF IsRootsTable
  <2>7. Coeff(g[i+1], i+1) = Mod(Coeff(h, i) - a * Coeff(h, i+1))
    BY <2>1, <2>4, <2>6, CoeffFactor
  <2>8. Coeff(h, i+1) = 0
    <3>1. ~ (i+1 \in 0 .. Deg(h))
      BY <2>3
    <3> QED BY <3>1 DEF Coeff
  <2>9. 1 - a * 0 = 1
    BY FieldInt
  <2> QED BY <2>3, <2>7, <2>8, <2>9, ModSmall
<1>3. n \in S
  <2>1. n \in Nat
    OBVIOUS
  <2> HIDE DEF S
  <2> QED BY <1>1, <1>2, <2>1, Induct
<1>4. n <= Len(xs)
  OBVIOUS
<1> QED BY <1>3, <1>4

\* newton_to_polynomial makes of the power sums of fewer than p elements of the field the
\* product of x minus each of them.
THEOREM NewtonIs ==
    ASSUME NEW xs \in Seq(Field), Len(xs) < p, NEW sums,
           \A j \in 1 .. Len(xs) :
               sums[j] = SumFrom([m \in 1 .. Len(xs) |-> Power(xs[m], j)], 1, Len(xs))
    PROVE  newton_to_polynomial(sums, Len(xs)) = FromRoots(xs)
<1>1. PICK g : IsRootsTable(g, xs) /\ FromRoots(xs) = g[Len(xs)]
  BY RootsTableExists
<1>2. PICK n \in Nat : n = Len(xs)
  OBVIOUS
<1>3. n \in 0 .. Len(xs)
  BY <1>2
<1>4. PICK h : h = g[n]
  OBVIOUS
<1>5. h \in Polys /\ Deg(h) = n
  BY <1>1, <1>3, <1>4, RootsTableType
<1>6. h \in Seq(Field)
  BY <1>5 DEF Polys
<1>7. Coeff(h, n) = 1
  BY <1>1, <1>3, <1>4, RootsTableMonic
<1>8. PICK c : c = Lowered(h, n)
  OBVIOUS
<1>9. PICK s : s = Sums(xs, n)
  OBVIOUS
<1>10. \A k \in Nat : Newtonian(s, c, k)
  BY <1>1, <1>3, <1>4, <1>8, <1>9, NewtonIdentities
<1>11. \A k \in Int : c[k] = Coeff(h, n-k) /\ c[k] \in Field
  <2> SUFFICES ASSUME NEW k \in Int PROVE c[k] = Coeff(h, n-k) /\ c[k] \in Field
    OBVIOUS
  <2>1. n-k \in Int
    OBVIOUS
  <2> QED BY <2>1, <1>6, <1>8, CoeffInt DEF Lowered
<1>12. c[0] = 1
  <2>1. n-0 = n
    OBVIOUS
  <2> QED BY <2>1, <1>7, <1>11
<1>13. \A j \in 1 .. n : sums[j] = s[j] /\ sums[j] \in Int
  <2> SUFFICES ASSUME NEW j \in 1 .. n PROVE sums[j] = s[j] /\ sums[j] \in Int
    OBVIOUS
  <2>1. j \in Nat
    OBVIOUS
  <2>2. s[j] \in Field
    BY <2>1, <1>3, <1>9, SumsType
  <2>3. s[j] = sums[j]
    BY <2>1, <1>2, <1>9 DEF Sums
  <2> QED BY <2>2, <2>3, FieldInt
<1>14. \A k \in 1 .. n : Newtonian(sums, c, k)
  <2> SUFFICES ASSUME NEW k \in 1 .. n PROVE Newtonian(sums, c, k)
    OBVIOUS
  <2>1. \A j \in 1 .. k : sums[j] * c[k-j] = s[j] * c[k-j]
    BY <1>13
  <2>2. NewtonTerms(sums, c, k, k) = NewtonTerms(s, c, k, k)
    BY <2>1 DEF NewtonTerms
  <2>3. Newtonian(s, c, k)
    BY <1>10
  <2> QED BY <2>2, <2>3 DEF Newtonian
<1>15. \A k \in 0 .. n : c[k] \in Field
  BY <1>11
<1>16. PICK v : v = [i \in 0 .. n |-> c[n - i]]
  OBVIOUS
<1>17. n < p
  BY <1>2
<1>18. newton_to_polynomial(sums, n) = Poly(v, n)
  BY <1>12, <1>13, <1>14, <1>15, <1>16, <1>17, NewtonFinds
<1>19. \A i \in 0 .. n : v[i] \in Field /\ v[i] = Coeff(h, i)
  <2> SUFFICES ASSUME NEW i \in 0 .. n PROVE v[i] \in Field /\ v[i] = Coeff(h, i)
    OBVIOUS
  <2>1. n-i \in Int /\ n-(n-i) = i
    OBVIOUS
  <2> QED BY <2>1, <1>11, <1>16
<1>20. Poly(v, n) \in Polys /\ \A i \in Nat : Coeff(Poly(v, n), i) = IF i <= n THEN v[i] ELSE 0
  BY <1>19, PolyIs
<1>21. \A i \in Nat : Coeff(Poly(v, n), i) = Coeff(h, i)
  <2> SUFFICES ASSUME NEW i \in Nat PROVE Coeff(Poly(v, n), i) = Coeff(h, i)
    OBVIOUS
  <2>1. CASE i <= n
    <3>1. i \in 0 .. n
      BY <2>1
    <3> QED BY <3>1, <2>1, <1>19, <1>20
  <2>2. CASE i > n
    <3>1. ~ (i \in 0 .. Deg(h)) /\ ~ (i <= n)
      BY <2>2, <1>5
    <3> QED BY <3>1, <1>20 DEF Coeff
  <2> QED BY <2>1, <2>2
<1>22. Poly(v, n) = h
  BY <1>5, <1>20, <1>21, SameCoeffs
<1> QED BY <1>1, <1>2, <1>4, <1>18, <1>22

-----------------------------------------------------------------------------
(***************************************************************************)
(* Derivatives.                                                            *)
(***************************************************************************)
\* No coefficients at all give 0.
LEMMA PolyNone == ASSUME NEW v PROVE Poly(v, -2) = <<>>
<1>1. PICK t : t = (CHOOSE s : IsTop(s, v))
  OBVIOUS
<1>2. IsTop(t, v)
  BY <1>1, TopExists
<1>3. Poly(v, -2) = [i \in 1 .. t[-2] + 1 |-> v[i-1]]
  BY <1>1 DEF Poly, IsTop
<1>4. t[-2] = -2
  BY <1>2 DEF IsTop
<1>5. 1 .. -2 + 1 = {}
  OBVIOUS
<1>6. [i \in 1 .. -2 + 1 |-> v[i-1]] = <<>>
  BY <1>5
<1> QED BY <1>3, <1>4, <1>6

\* The coefficients of a derivative.
LEMMA DerivIs ==
    ASSUME NEW e \in Seq(Field)
    PROVE  /\ Derivative(e) \in Polys /\ Deg(Derivative(e)) <= Maximum(-1, Deg(e) - 1)
           /\ \A i \in Nat : Coeff(Derivative(e), i) = Mod((i+1) * Coeff(e, i+1))
<1>1. PICK v : v = [i \in 0 .. Deg(e) - 1 |-> ((i+1) * e[i+2]) % p]
  OBVIOUS
<1>2. Derivative(e) = Poly(v, Deg(e) - 1)
  BY <1>1 DEF Derivative
<1>3. Len(e) \in Nat /\ Deg(e) = Len(e) - 1
  BY DEF Deg
<1>4. CASE e = <<>>
  <2>1. Derivative(e) = <<>>
    <3>1. Deg(e) - 1 = -2
      BY <1>4 DEF Deg
    <3> QED BY <3>1, <1>2, PolyNone
  <2>2. Deg(Derivative(e)) = -1 /\ Derivative(e) \in Polys
    BY <2>1, ZeroPoly
  <2>3. ASSUME NEW i \in Nat
        PROVE  Coeff(Derivative(e), i) = Mod((i+1) * Coeff(e, i+1))
    <3>1. ~ (i \in 0 .. -1) /\ ~ (i+1 \in 0 .. -1)
      OBVIOUS
    <3>2. Coeff(Derivative(e), i) = 0 /\ Coeff(e, i+1) = 0
      BY <3>1, <2>1, <1>4, ZeroPoly DEF Coeff
    <3>3. (i+1) * 0 = 0
      OBVIOUS
    <3> QED BY <3>2, <3>3, ModSmall
  <2>4. Maximum(-1, Deg(e) - 1) = -1
    BY <1>4, ZeroPoly DEF Maximum
  <2> QED BY <2>2, <2>3, <2>4
<1>5. CASE e # <<>>
  <2>1. PICK d \in Int : d = Deg(e) - 1 /\ d >= -1
    BY <1>3, <1>5
  <2>2. \A i \in 0 .. d : v[i] \in Field /\ v[i] = Mod((i+1) * Coeff(e, i+1))
    <3> SUFFICES ASSUME NEW i \in 0 .. d PROVE v[i] \in Field /\ v[i] = Mod((i+1) * Coeff(e, i+1))
      OBVIOUS
    <3>1. i \in 0 .. Deg(e) - 1 /\ i+1 \in 0 .. Deg(e) /\ i+2 \in 1 .. Len(e) /\ (i+1)+1 = i+2
      BY <2>1, <1>3
    <3>2. v[i] = Mod((i+1) * e[i+2]) /\ Coeff(e, i+1) = e[i+2]
      BY <3>1, <1>1 DEF Coeff, Mod
    <3>3. PICK x \in Int : x = e[i+2]
      BY <3>1, FieldInt
    <3>4. (i+1) * x \in Int
      OBVIOUS
    <3> QED BY <3>2, <3>3, <3>4, ModType
  <2>3. /\ Poly(v, d) \in Polys /\ Len(Poly(v, d)) <= d+1
        /\ \A i \in Nat : Coeff(Poly(v, d), i) = IF i <= d THEN v[i] ELSE 0
    BY <2>1, <2>2, PolyIs
  <2>4. ASSUME NEW i \in Nat
        PROVE  Coeff(Poly(v, d), i) = Mod((i+1) * Coeff(e, i+1))
    <3>1. CASE i <= d
      <4>1. i \in 0 .. d
        BY <3>1, <2>1
      <4> QED BY <4>1, <3>1, <2>2, <2>3
    <3>2. CASE ~ (i <= d)
      <4>1. ~ (i+1 \in 0 .. Deg(e))
        BY <3>2, <2>1, <1>3
      <4>2. Coeff(e, i+1) = 0
        BY <4>1 DEF Coeff
      <4>3. (i+1) * 0 = 0
        OBVIOUS
      <4> QED BY <4>2, <4>3, <3>2, <2>3, ModSmall
    <3> QED BY <3>1, <3>2
  <2>5. Deg(Poly(v, d)) <= Maximum(-1, d)
    <3>1. PICK n \in Nat : n = Len(Poly(v, d))
      BY <2>3 DEF Polys
    <3>2. n - 1 <= d
      BY <3>1, <2>1, <2>3
    <3>3. Maximum(-1, d) = d
      BY <2>1 DEF Maximum
    <3> QED BY <3>1, <3>2, <3>3 DEF Deg
  <2> QED BY <2>1, <2>3, <2>4, <2>5, <1>2
<1> QED BY <1>4, <1>5

\* d holds the derivatives of g.
Derivatives(d, g) ==
    d \in [Nat -> Polys] /\ d[0] = g /\ \A i \in Nat : d[i+1] = Derivative(d[i])

\* q holds the factorials modulo p.
Factorials(q) ==
    q \in [Nat -> Field] /\ q[0] = 1 /\ \A i \in Nat : q[i+1] = Mod((i+1) * q[i])

\* The tables of initial_linear_expansion.
IsDerived(d, g) == d = [i \in Nat |-> IF i = 0 THEN g ELSE Derivative(d[i-1])]

\* The table of the factorials.
IsFactorial(q) == q = [i \in Nat |-> IF i = 0 THEN 1 ELSE (i * q[i-1]) % p]

\* The first holds the derivatives.
LEMMA DerivedIs ==
    ASSUME NEW g \in Polys
    PROVE  Derivatives(CHOOSE d : IsDerived(d, g), g)
<1> DEFINE next == [e \in Polys |-> Derivative(e)]
<1>1. next \in [Polys -> Polys]
  <2>1. \A e \in Polys : Derivative(e) \in Polys
    BY DerivIs DEF Polys
  <2> QED BY <2>1
<1>2. PICK r : r = [k \in Nat |-> IF k = 0 THEN g ELSE next[r[k-1]]]
  <2> HIDE DEF next
  <2> QED BY <1>1, Iterate
<1>3. r \in [Nat -> Polys]
  <2> DEFINE S == {k \in Nat : r[k] \in Polys}
  <2>1. 0 \in S
    BY <1>2
  <2>2. ASSUME NEW k \in Nat, k \in S PROVE k+1 \in S
    <3>1. r[k+1] = next[r[k]] /\ r[k] \in Polys
      <4>1. k+1 # 0 /\ (k+1)-1 = k /\ k+1 \in Nat
        OBVIOUS
      <4> HIDE DEF next
      <4> QED BY <4>1, <2>2, <1>2
    <3>2. r[k+1] \in Polys
      <4> HIDE DEF next
      <4> QED BY <3>1, <1>1
    <3> QED BY <3>2
  <2>3. \A k \in Nat : r[k] \in Polys
    <3>1. \A k \in Nat : k \in S
      <4> HIDE DEF S, next
      <4> QED BY <2>1, <2>2, Induct
    <3> QED BY <3>1
  <2>4. r = [k \in Nat |-> r[k]]
    BY <1>2
  <2> QED BY <2>3, <2>4
<1>4. ASSUME NEW k \in Nat PROVE r[k] = IF k = 0 THEN g ELSE Derivative(r[k-1])
  <2>1. CASE k = 0
    BY <2>1, <1>2
  <2>2. CASE k # 0
    <3>1. k-1 \in Nat
      BY <2>2
    <3>2. r[k-1] \in Polys
      BY <3>1, <1>3
    <3>3. r[k] = next[r[k-1]]
      <4> HIDE DEF next
      <4> QED BY <2>2, <1>2
    <3> QED BY <3>2, <3>3, <2>2
  <2> QED BY <2>1, <2>2
<1>5. IsDerived(r, g)
  <2>1. r = [k \in Nat |-> r[k]]
    BY <1>3
  <2> QED BY <1>4, <2>1 DEF IsDerived
<1>6. PICK d : d = (CHOOSE x : IsDerived(x, g))
  OBVIOUS
<1>7. IsDerived(d, g)
  BY <1>5, <1>6
<1>8. d[0] = g /\ \A k \in Nat : d[k+1] = Derivative(d[k])
  <2>1. \A k \in Nat : k+1 \in Nat /\ k+1 # 0 /\ (k+1)-1 = k
    OBVIOUS
  <2> QED BY <2>1, <1>7 DEF IsDerived
<1>9. \A k \in Nat : d[k] \in Polys
  <2> DEFINE S == {k \in Nat : d[k] \in Polys}
  <2>1. 0 \in S
    BY <1>8
  <2>2. ASSUME NEW k \in Nat, k \in S PROVE k+1 \in S
    <3>1. d[k] \in Seq(Field) /\ d[k+1] = Derivative(d[k])
      BY <2>2, <1>8 DEF Polys
    <3>2. d[k+1] \in Polys
      BY <3>1, DerivIs
    <3> QED BY <3>2
  <2>3. \A k \in Nat : k \in S
    <3> HIDE DEF S
    <3> QED BY <2>1, <2>2, Induct
  <2> QED BY <2>3
<1>10. d = [k \in Nat |-> d[k]]
  BY <1>7 DEF IsDerived
<1> QED BY <1>6, <1>8, <1>9, <1>10 DEF Derivatives

\* The second holds the factorials.
LEMMA FactorialIs == Factorials(CHOOSE q : IsFactorial(q))
<1> DEFINE step == [kx \in Nat \X Field |-> Mod((kx[1] + 1) * kx[2])]
<1>1. IsStep(step, Field)
  <2>1. \A kx \in Nat \X Field : Mod((kx[1] + 1) * kx[2]) \in Field
    <3> SUFFICES ASSUME NEW kx \in Nat \X Field PROVE Mod((kx[1] + 1) * kx[2]) \in Field
      OBVIOUS
    <3>1. PICK b \in Int : b = kx[2]
      BY FieldInt
    <3>2. PICK k \in Nat : k = kx[1]
      OBVIOUS
    <3>3. (k + 1) * b \in Int
      OBVIOUS
    <3> QED BY <3>1, <3>2, <3>3, ModType
  <2> QED BY <2>1 DEF IsStep
<1>2. PICK r : Follows(r, Field, 1, step)
  <2> HIDE DEF step
  <2> QED BY <1>1, ModSmall, Recursion
<1>3. r \in [Nat -> Field] /\ r[0] = 1 /\ \A k \in Nat : r[k+1] = step[<<k, r[k]>>]
  <2> HIDE DEF step
  <2> QED BY <1>2 DEF Follows
<1>4. ASSUME NEW i \in Nat PROVE r[i] = IF i = 0 THEN 1 ELSE (i * r[i-1]) % p
  <2>1. CASE i = 0
    BY <2>1, <1>3
  <2>2. CASE i # 0
    <3>1. i-1 \in Nat /\ (i-1)+1 = i
      BY <2>2
    <3>2. <<i-1, r[i-1]>> \in Nat \X Field
      BY <3>1, <1>3
    <3>3. step[<<i-1, r[i-1]>>] = Mod(i * r[i-1])
      BY <3>1, <3>2
    <3>4. r[i] = step[<<i-1, r[i-1]>>]
      <4> HIDE DEF step
      <4> QED BY <3>1, <1>3
    <3> HIDE DEF step
    <3> QED BY <2>2, <3>3, <3>4 DEF Mod
  <2> QED BY <2>1, <2>2
<1>5. IsFactorial(r)
  <2>1. r = [i \in Nat |-> r[i]]
    BY <1>3
  <2> QED BY <1>4, <2>1 DEF IsFactorial
<1>6. PICK q : q = (CHOOSE x : IsFactorial(x))
  OBVIOUS
<1>7. IsFactorial(q)
  BY <1>5, <1>6
<1>8. q[0] = 1 /\ \A k \in Nat : q[k+1] = Mod((k+1) * q[k])
  <2>1. \A k \in Nat : k+1 \in Nat /\ k+1 # 0 /\ (k+1)-1 = k
    OBVIOUS
  <2> QED BY <2>1, <1>7 DEF IsFactorial, Mod
<1>9. \A k \in Nat : q[k] \in Field
  <2> DEFINE S == {k \in Nat : q[k] \in Field}
  <2>1. 0 \in S
    BY <1>8, ModSmall
  <2>2. ASSUME NEW k \in Nat, k \in S PROVE k+1 \in S
    <3>1. PICK b \in Int : b = q[k]
      BY <2>2, FieldInt
    <3>2. (k+1) * b \in Int
      OBVIOUS
    <3>3. q[k+1] \in Field
      BY <3>1, <3>2, <1>8, ModType
    <3> QED BY <3>3
  <2>3. \A k \in Nat : k \in S
    <3> HIDE DEF S
    <3> QED BY <2>1, <2>2, Induct
  <2> QED BY <2>3
<1>10. q = [k \in Nat |-> q[k]]
  BY <1>7 DEF IsFactorial
<1> QED BY <1>6, <1>8, <1>9, <1>10 DEF Factorials

\* Below p they are not 0.
LEMMA FactorialNonzero ==
    ASSUME NEW q, Factorials(q), NEW k \in 0 .. p-1
    PROVE  q[k] \in 1 .. p-1
<1> DEFINE S == {i \in Nat : i <= p-1 => q[i] # 0}
<1>1. 0 \in S
  BY DEF Factorials
<1>2. ASSUME NEW i \in Nat, i \in S PROVE i+1 \in S
  <2> SUFFICES ASSUME i+1 <= p-1 PROVE q[i+1] # 0
    OBVIOUS
  <2>1. i <= p-1 /\ i+1 \in Field /\ i+1 # 0 /\ i+1 \in Int
    BY PrimeSize DEF Field
  <2>2. PICK b \in Field : b = q[i] /\ b # 0
    BY <2>1, <1>2 DEF Factorials
  <2>3. PICK c \in Int : c = i+1
    BY <2>1
  <2>4. Mod(c) = c /\ Mod(b) = b /\ b \in Int
    BY <2>1, <2>3, ModOf
  <2>5. q[i+1] = Mod(c * b)
    BY <2>2, <2>3 DEF Factorials
  <2>6. ASSUME Mod(c * b) = 0 PROVE FALSE
    BY <2>1, <2>2, <2>3, <2>4, <2>6, NoZeroDivisors
  <2> QED BY <2>5, <2>6
<1>3. k \in S
  <2>1. k \in Nat
    BY PrimeSize
  <2> HIDE DEF S
  <2> QED BY <1>1, <1>2, <2>1, Induct
<1>4. q[k] \in Field /\ q[k] # 0
  BY <1>3, PrimeSize DEF Factorials
<1> QED BY <1>4, PrimeSize DEF Field

-----------------------------------------------------------------------------
(***************************************************************************)
(* The types of the transforms.                                            *)
(***************************************************************************)
\* The pairs of polynomials of degree at most n and n-1.
Pairs(n) == {hs \in [h : Polys, hbar : Polys] : Deg(hs.h) <= n /\ Deg(hs.hbar) <= n-1}

\* The two polynomials that the tables d and q give.
Expand(g, c, d, q) ==
    [h    |-> Poly([i \in 0 .. Deg(g) |-> (Evaluate(d[i], c) * inv[q[i]]) % p], Deg(g)),
     hbar |-> Poly([i \in 0 .. Deg(g) - 1 |-> (Evaluate(d[i+1], c) * inv[q[i]]) % p], Deg(g) - 1)]

\* initial_linear_expansion in these terms.
LEMMA ExpansionFolded ==
    ASSUME NEW g, NEW c
    PROVE  initial_linear_expansion(g, c)
             = Expand(g, c, CHOOSE x : IsDerived(x, g), CHOOSE x : IsFactorial(x))
BY DEF initial_linear_expansion, IsDerived, IsFactorial, Expand

\* The coefficients of the two polynomials.
ExpansionOf(hs, d, q, c, n) ==
    \A i \in Nat :
        /\ Coeff(hs.h, i) = IF i <= n THEN Mod(Evaluate(d[i], c) * inv[q[i]]) ELSE 0
        /\ Coeff(hs.hbar, i) = IF i <= n-1 THEN Mod(Evaluate(d[i+1], c) * inv[q[i]]) ELSE 0

\* They are those of the Taylor expansion.
LEMMA ExpansionIs ==
    ASSUME NEW g \in Polys, g # <<>>, Deg(g) < p, NEW c \in Int, NEW hs,
           hs = initial_linear_expansion(g, c)
    PROVE  /\ hs \in Pairs(Deg(g))
           /\ \E d, q : Derivatives(d, g) /\ Factorials(q) /\ ExpansionOf(hs, d, q, c, Deg(g))
<1>1. PICK d : d = (CHOOSE x : IsDerived(x, g))
  OBVIOUS
<1>2. PICK q : q = (CHOOSE x : IsFactorial(x))
  OBVIOUS
<1>3. Derivatives(d, g) /\ Factorials(q)
  BY <1>1, <1>2, DerivedIs, FactorialIs
<1>4. PICK n \in Nat : n = Deg(g)
  BY Leading
<1>5. PICK v : v = [i \in 0 .. n |-> (Evaluate(d[i], c) * inv[q[i]]) % p]
  OBVIOUS
<1>6. PICK w : w = [i \in 0 .. n - 1 |-> (Evaluate(d[i+1], c) * inv[q[i]]) % p]
  OBVIOUS
<1>7. hs = [h |-> Poly(v, n), hbar |-> Poly(w, n-1)]
  <2>1. hs = Expand(g, c, d, q)
    BY <1>1, <1>2, ExpansionFolded
  <2> QED BY <2>1, <1>4, <1>5, <1>6 DEF Expand
<1>8. \A i \in Nat : Evaluate(d[i], c) \in Int
  <2> SUFFICES ASSUME NEW i \in Nat PROVE Evaluate(d[i], c) \in Int
    OBVIOUS
  <2>1. d[i] \in Polys
    BY <1>3 DEF Derivatives
  <2>2. d[i] \in Seq(Field)
    BY <2>1 DEF Polys
  <2> QED BY <2>2, EvalType
<1>9. \A i \in 0 .. n : inv[q[i]] \in Int
  <2> SUFFICES ASSUME NEW i \in 0 .. n PROVE inv[q[i]] \in Int
    OBVIOUS
  <2>1. i \in 0 .. p-1
    BY <1>4, PrimeSize
  <2>2. q[i] \in 1 .. p-1
    BY <2>1, <1>3, FactorialNonzero
  <2>3. inv[q[i]] \in 1 .. p-1
    BY <2>2, InverseOf
  <2> QED BY <2>3, PrimeSize
<1>10. \A x, y \in Int : x * y \in Int
  OBVIOUS
<1>11. \A i \in 0 .. n : v[i] \in Field /\ v[i] = Mod(Evaluate(d[i], c) * inv[q[i]])
  <2> SUFFICES ASSUME NEW i \in 0 .. n
               PROVE  v[i] \in Field /\ v[i] = Mod(Evaluate(d[i], c) * inv[q[i]])
    OBVIOUS
  <2>1. v[i] = Mod(Evaluate(d[i], c) * inv[q[i]])
    BY <1>5 DEF Mod
  <2>2. Evaluate(d[i], c) * inv[q[i]] \in Int
    BY <1>8, <1>9, <1>10
  <2> QED BY <2>1, <2>2, ModType
<1>12. \A i \in 0 .. n-1 : w[i] \in Field /\ w[i] = Mod(Evaluate(d[i+1], c) * inv[q[i]])
  <2> SUFFICES ASSUME NEW i \in 0 .. n-1
               PROVE  w[i] \in Field /\ w[i] = Mod(Evaluate(d[i+1], c) * inv[q[i]])
    OBVIOUS
  <2>1. w[i] = Mod(Evaluate(d[i+1], c) * inv[q[i]])
    BY <1>6 DEF Mod
  <2>2. i \in 0 .. n /\ i+1 \in Nat
    OBVIOUS
  <2>3. Evaluate(d[i+1], c) * inv[q[i]] \in Int
    BY <2>2, <1>8, <1>9, <1>10
  <2> QED BY <2>1, <2>3, ModType
<1>13. /\ Poly(v, n) \in Polys /\ Len(Poly(v, n)) <= n+1
       /\ \A i \in Nat : Coeff(Poly(v, n), i) = IF i <= n THEN v[i] ELSE 0
  BY <1>11, PolyIs
<1>14. /\ Poly(w, n-1) \in Polys /\ Len(Poly(w, n-1)) <= n
       /\ \A i \in Nat : Coeff(Poly(w, n-1), i) = IF i <= n-1 THEN w[i] ELSE 0
  <2>1. n-1 \in Int /\ n-1 >= -1 /\ (n-1)+1 = n
    OBVIOUS
  <2> QED BY <2>1, <1>12, PolyIs
<1>15. hs.h = Poly(v, n) /\ hs.hbar = Poly(w, n-1)
  BY <1>7
<1>16. hs \in [h : Polys, hbar : Polys]
  BY <1>7, <1>13, <1>14
<1>17. Deg(hs.h) <= n /\ Deg(hs.hbar) <= n-1
  <2>1. PICK k \in Nat : k = Len(Poly(v, n))
    BY <1>13 DEF Polys
  <2>2. PICK m \in Nat : m = Len(Poly(w, n-1))
    BY <1>14 DEF Polys
  <2>3. k - 1 <= n /\ m - 1 <= n - 1
    BY <2>1, <2>2, <1>13, <1>14
  <2> QED BY <2>1, <2>2, <2>3, <1>15 DEF Deg
<1>18. ExpansionOf(hs, d, q, c, n)
  <2> SUFFICES ASSUME NEW i \in Nat
               PROVE  /\ Coeff(hs.h, i) = IF i <= n THEN Mod(Evaluate(d[i], c) * inv[q[i]]) ELSE 0
                      /\ Coeff(hs.hbar, i)
                           = IF i <= n-1 THEN Mod(Evaluate(d[i+1], c) * inv[q[i]]) ELSE 0
    BY DEF ExpansionOf
  <2>1. (i <= n => i \in 0 .. n) /\ (i <= n-1 => i \in 0 .. n-1)
    OBVIOUS
  <2> QED BY <2>1, <1>11, <1>12, <1>13, <1>14, <1>15
<1> QED BY <1>3, <1>4, <1>16, <1>17, <1>18 DEF Pairs

\* The terms of one parity.
LEMMA TermsIs ==
    ASSUME NEW g \in Seq(Field), NEW r \in {0, 1}
    PROVE  /\ Terms(g, r) \in Polys /\ Len(Terms(g, r)) <= Len(g)
           /\ \A i \in Nat : Coeff(Terms(g, r), i) = IF i % 2 = r THEN Coeff(g, i) ELSE 0
<1>1. PICK v : v = [i \in 0 .. Deg(g) |-> IF i % 2 = r THEN g[i+1] ELSE 0]
  OBVIOUS
<1>2. Terms(g, r) = Poly(v, Deg(g))
  BY <1>1 DEF Terms
<1>3. Len(g) \in Nat /\ Deg(g) = Len(g) - 1 /\ Deg(g) >= -1 /\ Deg(g) \in Int
  BY DEF Deg
<1>4. \A i \in 0 .. Deg(g) : v[i] \in Field /\ v[i] = IF i % 2 = r THEN Coeff(g, i) ELSE 0
  <2> SUFFICES ASSUME NEW i \in 0 .. Deg(g)
               PROVE  v[i] \in Field /\ v[i] = IF i % 2 = r THEN Coeff(g, i) ELSE 0
    OBVIOUS
  <2>1. i+1 \in 1 .. Len(g)
    BY <1>3
  <2>2. g[i+1] \in Field /\ Coeff(g, i) = g[i+1]
    BY <2>1 DEF Coeff
  <2> QED BY <2>2, <1>1, ModSmall
<1>5. /\ Poly(v, Deg(g)) \in Polys /\ Len(Poly(v, Deg(g))) <= Deg(g) + 1
      /\ \A i \in Nat : Coeff(Poly(v, Deg(g)), i) = IF i <= Deg(g) THEN v[i] ELSE 0
  BY <1>3, <1>4, PolyIs
<1>6. ASSUME NEW i \in Nat
      PROVE  Coeff(Terms(g, r), i) = IF i % 2 = r THEN Coeff(g, i) ELSE 0
  <2>1. CASE i <= Deg(g)
    <3>1. i \in 0 .. Deg(g)
      BY <2>1, <1>3
    <3> QED BY <3>1, <2>1, <1>2, <1>4, <1>5
  <2>2. CASE ~ (i <= Deg(g))
    <3>1. Coeff(g, i) = 0
      BY <2>2, <1>3 DEF Coeff
    <3> QED BY <3>1, <2>2, <1>2, <1>5
  <2> QED BY <2>1, <2>2
<1>7. Deg(g) + 1 = Len(g)
  BY <1>3
<1> QED BY <1>2, <1>5, <1>6, <1>7

\* The even coefficients.
LEMMA EvenIs ==
    ASSUME NEW g \in Seq(Field), NEW d \in Int, d >= -1
    PROVE  /\ EvenCoeffs(g, d) \in Polys /\ Deg(EvenCoeffs(g, d)) <= d
           /\ \A i \in Nat : Coeff(EvenCoeffs(g, d), i) = IF i <= d THEN Coeff(g, 2*i) ELSE 0
<1>1. PICK v : v = [i \in 0 .. d |-> Coeff(g, 2*i)]
  OBVIOUS
<1>2. EvenCoeffs(g, d) = Poly(v, d)
  BY <1>1 DEF EvenCoeffs
<1>3. \A i \in 0 .. d : v[i] \in Field /\ v[i] = Coeff(g, 2*i)
  <2> SUFFICES ASSUME NEW i \in 0 .. d PROVE v[i] \in Field /\ v[i] = Coeff(g, 2*i)
    OBVIOUS
  <2>1. 2*i \in Int
    OBVIOUS
  <2> QED BY <2>1, <1>1, CoeffInt
<1>4. /\ Poly(v, d) \in Polys /\ Len(Poly(v, d)) <= d+1
      /\ \A i \in Nat : Coeff(Poly(v, d), i) = IF i <= d THEN v[i] ELSE 0
  BY <1>3, PolyIs
<1>5. Deg(Poly(v, d)) <= d
  <2>1. PICK n \in Nat : n = Len(Poly(v, d))
    BY <1>4 DEF Polys
  <2> QED BY <2>1, <1>4 DEF Deg
<1>6. \A i \in Nat : i <= d => i \in 0 .. d
  OBVIOUS
<1> QED BY <1>2, <1>3, <1>4, <1>5, <1>6

\* The polynomials that update_linear_expansion works with.
NegTerms(e) == Minus(Terms(e, 0), Terms(e, 1))
\* The transform of h: the square of its even terms minus that of its odd ones.
NextH(e) == Minus(Times(Terms(e, 0), Terms(e, 0)), Times(Terms(e, 1), Terms(e, 1)))
\* The transform of hbar.
NextHbar(hs) == Scale(2, Times(hs.h, NegTerms(hs.hbar)))

\* update_linear_expansion in these terms.
LEMMA UpdateFolded ==
    ASSUME NEW hs
    PROVE  update_linear_expansion(hs)
             = [h    |-> EvenCoeffs(NextH(hs.h), Deg(hs.h)),
                hbar |-> EvenCoeffs(NextHbar(hs), Deg(hs.hbar))]
BY DEF update_linear_expansion, NegTerms, NextH, NextHbar

\* They are polynomials.
LEMMA NextTypes ==
    ASSUME NEW hs \in [h : Polys, hbar : Polys]
    PROVE  /\ hs.h \in Polys /\ hs.hbar \in Polys /\ hs.h \in Seq(Field) /\ hs.hbar \in Seq(Field)
           /\ NegTerms(hs.h) \in Polys /\ NegTerms(hs.hbar) \in Polys
           /\ NextH(hs.h) \in Polys /\ NextHbar(hs) \in Polys
<1>0. \A e \in Polys : e \in Seq(Field)
  BY DEF Polys
<1>1. hs.h \in Polys /\ hs.hbar \in Polys /\ hs.h \in Seq(Field) /\ hs.hbar \in Seq(Field)
  BY <1>0
<1>2. \A e \in Seq(Field) : Terms(e, 0) \in Seq(Field) /\ Terms(e, 1) \in Seq(Field)
  BY <1>0, TermsIs
<1>3. \A e \in Seq(Field) : NegTerms(e) \in Polys
  BY <1>2, MinusIs DEF NegTerms
<1>4. \A e \in Seq(Field) : NextH(e) \in Polys
  <2> SUFFICES ASSUME NEW e \in Seq(Field) PROVE NextH(e) \in Polys
    OBVIOUS
  <2>1. PICK a \in Seq(Field) : a = Terms(e, 0)
    BY <1>2
  <2>2. PICK b \in Seq(Field) : b = Terms(e, 1)
    BY <1>2
  <2>3. Times(a, a) \in Seq(Field) /\ Times(b, b) \in Seq(Field)
    BY <1>0, TimesIs
  <2> QED BY <2>1, <2>2, <2>3, MinusIs DEF NextH
<1>5. NextHbar(hs) \in Polys
  <2>1. NegTerms(hs.hbar) \in Seq(Field)
    BY <1>0, <1>1, <1>3
  <2>2. Times(hs.h, NegTerms(hs.hbar)) \in Seq(Field)
    BY <2>1, <1>0, <1>1, TimesIs
  <2> QED BY <2>2, ScaleIs DEF NextHbar
<1> QED BY <1>1, <1>3, <1>4, <1>5

\* A squaring of the roots keeps the degrees bounded.
LEMMA UpdateIs ==
    ASSUME NEW n \in Nat, NEW hs \in Pairs(n)
    PROVE  /\ update_linear_expansion(hs) \in Pairs(n)
           /\ Deg(update_linear_expansion(hs).hbar) <= Deg(hs.hbar)
<1>1. hs \in [h : Polys, hbar : Polys] /\ Deg(hs.h) <= n /\ Deg(hs.hbar) <= n-1
  BY DEF Pairs
<1>2. PICK a : a = NextH(hs.h)
  OBVIOUS
<1>3. PICK b : b = NextHbar(hs)
  OBVIOUS
<1>4. a \in Seq(Field) /\ b \in Seq(Field) /\ hs.h \in Seq(Field) /\ hs.hbar \in Seq(Field)
  <2>1. a \in Polys /\ b \in Polys /\ hs.h \in Seq(Field) /\ hs.hbar \in Seq(Field)
    BY <1>1, <1>2, <1>3, NextTypes
  <2> QED BY <2>1 DEF Polys
<1>0. Len(hs.h) \in Nat /\ Len(hs.hbar) \in Nat
  BY <1>4
<1>5. PICK d \in Int : d = Deg(hs.h) /\ d >= -1
  BY <1>0, SMTT(30) DEF Deg
<1>6. PICK m \in Int : m = Deg(hs.hbar) /\ m >= -1
  BY <1>0, SMTT(30) DEF Deg
<1>7. /\ EvenCoeffs(a, d) \in Polys /\ Deg(EvenCoeffs(a, d)) <= d
      /\ EvenCoeffs(b, m) \in Polys /\ Deg(EvenCoeffs(b, m)) <= m
  BY <1>4, <1>5, <1>6, EvenIs
<1>8. PICK u : u = update_linear_expansion(hs)
  OBVIOUS
<1>9. u = [h |-> EvenCoeffs(a, d), hbar |-> EvenCoeffs(b, m)]
  BY <1>2, <1>3, <1>5, <1>6, <1>8, UpdateFolded
<1>10. u \in [h : Polys, hbar : Polys] /\ u.h = EvenCoeffs(a, d) /\ u.hbar = EvenCoeffs(b, m)
  BY <1>7, <1>9
<1>11. Deg(u.h) \in Int /\ Deg(u.hbar) \in Int
  <2>1. \A e \in Polys : Len(e) \in Nat
    BY DEF Polys
  <2>2. Len(u.h) \in Nat /\ Len(u.hbar) \in Nat
    BY <2>1, <1>7, <1>10
  <2> QED BY <2>2 DEF Deg
<1>12. Deg(u.h) <= n /\ Deg(u.hbar) <= n-1 /\ Deg(u.hbar) <= m
  BY <1>1, <1>5, <1>6, <1>7, <1>10, <1>11
<1> QED BY <1>6, <1>8, <1>10, <1>12 DEF Pairs

\* t holds the transforms of g.
Transforms(t, g, tau) ==
    /\ t \in [Nat -> Pairs(Deg(g))]
    /\ t[0] = initial_linear_expansion(g, Neg(tau))
    /\ \A k \in Nat : t[k+1] = update_linear_expansion(t[k])

\* The table of tangent_graeffe_transform.
IsTransform(t, g, tau) ==
    t = [k \in Nat |-> IF k = 0 THEN initial_linear_expansion(g, Neg(tau))
                       ELSE update_linear_expansion(t[k-1])]

\* tangent_graeffe_transform in these terms.
LEMMA TransformFolded ==
    ASSUME NEW g, NEW ell, NEW tau
    PROVE  tangent_graeffe_transform(g, ell, tau) = (CHOOSE t : IsTransform(t, g, tau))[ell]
BY DEF tangent_graeffe_transform, IsTransform

\* tangent_graeffe_transform gives the transforms.
LEMMA TransformIs ==
    ASSUME NEW g \in Polys, g # <<>>, Deg(g) < p, NEW tau \in Field
    PROVE  \E t : /\ Transforms(t, g, tau)
                  /\ \A ell \in Nat : tangent_graeffe_transform(g, ell, tau) = t[ell]
<1>1. PICK n \in Nat : n = Deg(g)
  BY Leading
<1>2. PICK c \in Int : c = Neg(tau)
  <2>1. p - tau \in Int
    BY PrimeSize, FieldInt
  <2>2. Mod(p - tau) \in Int
    BY <2>1, ModType
  <2> QED BY <2>2 DEF Neg, Mod
<1>3. PICK first : first = initial_linear_expansion(g, c)
  OBVIOUS
<1>4. first \in Pairs(n)
  BY <1>1, <1>3, ExpansionIs
<1> DEFINE next == [hs \in Pairs(n) |-> update_linear_expansion(hs)]
<1>5. next \in [Pairs(n) -> Pairs(n)]
  BY UpdateIs
<1>6. PICK r : r = [k \in Nat |-> IF k = 0 THEN first ELSE next[r[k-1]]]
  <2> HIDE DEF next
  <2> QED BY <1>4, <1>5, Iterate
<1>7. \A k \in Nat : r[k] \in Pairs(n)
  <2> DEFINE S == {k \in Nat : r[k] \in Pairs(n)}
  <2>1. 0 \in S
    BY <1>4, <1>6
  <2>2. ASSUME NEW k \in Nat, k \in S PROVE k+1 \in S
    <3>1. k+1 # 0 /\ (k+1)-1 = k /\ k+1 \in Nat
      OBVIOUS
    <3>2. r[k+1] = next[r[k]] /\ r[k] \in Pairs(n)
      <4> HIDE DEF next
      <4> QED BY <3>1, <2>2, <1>6
    <3>3. r[k+1] \in Pairs(n)
      <4> HIDE DEF next
      <4> QED BY <3>2, <1>5
    <3> QED BY <3>3
  <2>3. \A k \in Nat : k \in S
    <3> HIDE DEF S, next
    <3> QED BY <2>1, <2>2, Induct
  <2> QED BY <2>3
<1>8. ASSUME NEW k \in Nat
      PROVE  r[k] = IF k = 0 THEN first ELSE update_linear_expansion(r[k-1])
  <2>1. CASE k = 0
    BY <2>1, <1>6
  <2>2. CASE k # 0
    <3>1. k-1 \in Nat
      BY <2>2
    <3>2. r[k-1] \in Pairs(n)
      BY <3>1, <1>7
    <3>3. r[k] = next[r[k-1]]
      <4> HIDE DEF next
      <4> QED BY <2>2, <1>6
    <3> QED BY <3>2, <3>3, <2>2
  <2> QED BY <2>1, <2>2
<1>9. IsTransform(r, g, tau)
  <2>1. r = [k \in Nat |-> r[k]]
    BY <1>6
  <2> QED BY <2>1, <1>2, <1>3, <1>8 DEF IsTransform
<1>10. PICK t : t = (CHOOSE x : IsTransform(x, g, tau))
  OBVIOUS
<1>11. IsTransform(t, g, tau)
  BY <1>9, <1>10
<1>12. t[0] = first /\ \A k \in Nat : t[k+1] = update_linear_expansion(t[k])
  <2>1. \A k \in Nat : k+1 \in Nat /\ k+1 # 0 /\ (k+1)-1 = k
    OBVIOUS
  <2> QED BY <2>1, <1>2, <1>3, <1>11 DEF IsTransform
<1>13. \A k \in Nat : t[k] \in Pairs(n)
  <2> DEFINE S == {k \in Nat : t[k] \in Pairs(n)}
  <2>1. 0 \in S
    BY <1>4, <1>12
  <2>2. ASSUME NEW k \in Nat, k \in S PROVE k+1 \in S
    <3>1. t[k+1] \in Pairs(n)
      BY <2>2, <1>12, UpdateIs
    <3> QED BY <3>1
  <2>3. \A k \in Nat : k \in S
    <3> HIDE DEF S
    <3> QED BY <2>1, <2>2, Induct
  <2> QED BY <2>3
<1>14. t = [k \in Nat |-> t[k]]
  BY <1>11 DEF IsTransform
<1>15. Transforms(t, g, tau)
  BY <1>1, <1>2, <1>3, <1>12, <1>13, <1>14 DEF Transforms
<1>16. \A ell \in Nat : tangent_graeffe_transform(g, ell, tau) = t[ell]
  BY <1>10, TransformFolded
<1> QED BY <1>15, <1>16

-----------------------------------------------------------------------------
(***************************************************************************)
(* The loops that append what they find.                                   *)
(***************************************************************************)
\* What a sequence holds, and that it holds nothing twice.
Values(s) == {s[j] : j \in 1 .. Len(s)}
\* A sequence of different elements.
NoRepeats(s) == \A j, k \in 1 .. Len(s) : s[j] = s[k] => j = k

\* w[k] holds what k rounds of a loop append: val[i] in the rounds i of T.
IsPicked(w, n, T, val) ==
    w = [i \in 0 .. n |-> IF i = 0 THEN <<>>
                          ELSE IF i-1 \in T THEN Append(w[i-1], val[i-1]) ELSE w[i-1]]

\* Appending a value.
LEMMA AppendValues ==
    ASSUME NEW s \in Seq(Field), NEW x \in Field
    PROVE  /\ Append(s, x) \in Seq(Field)
           /\ Values(Append(s, x)) = Values(s) \cup {x}
           /\ NoRepeats(s) /\ x \notin Values(s) => NoRepeats(Append(s, x))
<1>1. PICK m \in Nat : m = Len(s)
  OBVIOUS
<1>2. PICK r : r = Append(s, x)
  OBVIOUS
<1>3. r \in Seq(Field) /\ Len(r) = m+1 /\ r[m+1] = x /\ \A j \in 1 .. m : r[j] = s[j]
  BY <1>1, <1>2
<1>4. Values(r) = Values(s) \cup {x}
  <2>1. ASSUME NEW y \in Values(r) PROVE y \in Values(s) \cup {x}
    <3>1. PICK j \in 1 .. m+1 : y = r[j]
      BY <1>3 DEF Values
    <3>2. CASE j = m+1
      BY <3>1, <3>2, <1>3
    <3>3. CASE j # m+1
      <4>1. j \in 1 .. m
        BY <3>3
      <4> QED BY <4>1, <3>1, <1>1, <1>3 DEF Values
    <3> QED BY <3>2, <3>3
  <2>2. ASSUME NEW y \in Values(s) PROVE y \in Values(r)
    <3>1. PICK j \in 1 .. m : y = s[j]
      BY <1>1 DEF Values
    <3>2. j \in 1 .. m+1 /\ y = r[j]
      BY <3>1, <1>3
    <3> QED BY <3>2, <1>3 DEF Values
  <2>3. x \in Values(r)
    <3>1. m+1 \in 1 .. m+1
      OBVIOUS
    <3> QED BY <3>1, <1>3 DEF Values
  <2> QED BY <2>1, <2>2, <2>3
<1>5. ASSUME NoRepeats(s), x \notin Values(s) PROVE NoRepeats(r)
  <2> SUFFICES ASSUME NEW j \in 1 .. m+1, NEW k \in 1 .. m+1, r[j] = r[k] PROVE j = k
    BY <1>3 DEF NoRepeats
  <2>1. \A i \in 1 .. m : r[i] # x
    BY <1>1, <1>3, <1>5 DEF Values
  <2>2. CASE j = m+1 /\ k # m+1
    <3>1. k \in 1 .. m
      BY <2>2
    <3> QED BY <3>1, <2>1, <2>2, <1>3
  <2>3. CASE k = m+1 /\ j # m+1
    <3>1. j \in 1 .. m
      BY <2>3
    <3> QED BY <3>1, <2>1, <2>3, <1>3
  <2>4. CASE j # m+1 /\ k # m+1
    <3>1. j \in 1 .. m /\ k \in 1 .. m
      BY <2>4
    <3> QED BY <3>1, <1>1, <1>3, <1>5 DEF NoRepeats
  <2> QED BY <2>2, <2>3, <2>4
<1> QED BY <1>2, <1>3, <1>4, <1>5

\* The table of such a loop exists.
LEMMA PickedExists ==
    ASSUME NEW n \in Nat, NEW T, NEW val, \A i \in 0 .. n-1 : i \in T => val[i] \in Field
    PROVE  \E w : IsPicked(w, n, T, val)
<1> DEFINE step == [ks \in Nat \X Seq(Field) |->
                      IF ks[1] < n /\ ks[1] \in T THEN Append(ks[2], val[ks[1]]) ELSE ks[2]]
<1>1. PICK r : Follows(r, Seq(Field), <<>>, step)
  <2>1. step \in [Nat \X Seq(Field) -> Seq(Field)]
    <3> SUFFICES ASSUME NEW k \in Nat, NEW s \in Seq(Field), k < n, k \in T
                 PROVE  Append(s, val[k]) \in Seq(Field)
      OBVIOUS
    <3>1. val[k] \in Field
      OBVIOUS
    <3> QED BY <3>1
  <2>2. IsStep(step, Seq(Field)) /\ <<>> \in Seq(Field)
    <3> HIDE DEF step
    <3> QED BY <2>1 DEF IsStep
  <2> HIDE DEF step
  <2> QED BY <2>2, Recursion
<1>2. r \in [Nat -> Seq(Field)] /\ r[0] = <<>> /\ \A k \in Nat : r[k+1] = step[<<k, r[k]>>]
  <2> HIDE DEF step
  <2> QED BY <1>1 DEF Follows
<1>3. \A k \in Nat : k < n => r[k+1] = IF k \in T THEN Append(r[k], val[k]) ELSE r[k]
  <2> SUFFICES ASSUME NEW k \in Nat, k < n
               PROVE  r[k+1] = IF k \in T THEN Append(r[k], val[k]) ELSE r[k]
    OBVIOUS
  <2>1. <<k, r[k]>> \in Nat \X Seq(Field)
    BY <1>2
  <2>2. step[<<k, r[k]>>] = IF k \in T THEN Append(r[k], val[k]) ELSE r[k]
    BY <2>1
  <2> HIDE DEF step
  <2> QED BY <2>2, <1>2
<1> HIDE DEF step
<1> DEFINE u == [k \in 0 .. n |-> r[k]]
<1>4. IsPicked(u, n, T, val)
  <2>1. ASSUME NEW i \in 0 .. n
        PROVE  u[i] = IF i = 0 THEN <<>>
                      ELSE IF i-1 \in T THEN Append(u[i-1], val[i-1]) ELSE u[i-1]
    <3>1. CASE i = 0
      BY <3>1, <1>2
    <3>2. CASE i # 0
      <4>1. i-1 \in Nat /\ i-1 < n /\ (i-1)+1 = i /\ i-1 \in 0 .. n
        BY <3>2
      <4> QED BY <4>1, <3>2, <1>3
    <3> QED BY <3>1, <3>2
  <2>2. u = [i \in 0 .. n |-> u[i]]
    OBVIOUS
  <2> HIDE DEF u
  <2> QED BY <2>1, <2>2 DEF IsPicked
<1> HIDE DEF u
<1> QED BY <1>4

\* What the loop has appended in the end.
LEMMA PickedIs ==
    ASSUME NEW n \in Nat, NEW T, NEW val, \A i \in 0 .. n-1 : i \in T => val[i] \in Field,
           NEW w, IsPicked(w, n, T, val)
    PROVE  /\ w[n] \in Seq(Field)
           /\ Values(w[n]) = {val[i] : i \in T \cap (0 .. n-1)}
           /\ (\A i, j \in T \cap (0 .. n-1) : val[i] = val[j] => i = j) => NoRepeats(w[n])
<1>6. w[0] = <<>> /\ \A k \in 0 .. n-1 : w[k+1] = IF k \in T THEN Append(w[k], val[k]) ELSE w[k]
  <2>1. \A i \in 0 .. n : w[i] = IF i = 0 THEN <<>>
                                ELSE IF i-1 \in T THEN Append(w[i-1], val[i-1]) ELSE w[i-1]
    BY DEF IsPicked
  <2>2. w[0] = <<>>
    <3>1. 0 \in 0 .. n
      OBVIOUS
    <3> QED BY <3>1, <2>1
  <2>3. ASSUME NEW k \in 0 .. n-1
        PROVE  w[k+1] = IF k \in T THEN Append(w[k], val[k]) ELSE w[k]
    <3>1. k+1 \in 0 .. n /\ k+1 # 0 /\ (k+1)-1 = k
      OBVIOUS
    <3> QED BY <3>1, <2>1
  <2> QED BY <2>2, <2>3
<1> DEFINE Inj == \A i, j \in T \cap (0 .. n-1) : val[i] = val[j] => i = j
           Has(k) == /\ w[k] \in Seq(Field)
                     /\ Values(w[k]) = {val[i] : i \in T \cap (0 .. k-1)}
                     /\ Inj => NoRepeats(w[k])
           S == {k \in Nat : k <= n => Has(k)}
<1>7. 0 \in S
  <2>1. PICK e : e = w[0]
    OBVIOUS
  <2>0. e = <<>>
    BY <2>1, <1>6
  <2>2. e = <<>> /\ e \in Seq(Field) /\ 1 .. Len(e) = {}
    BY <2>0
  <2>3. Values(e) = {} /\ NoRepeats(e)
    BY <2>2 DEF Values, NoRepeats
  <2>4. {val[i] : i \in T \cap (0 .. 0-1)} = {}
    OBVIOUS
  <2> QED BY <2>1, <2>2, <2>3, <2>4
<1>8. ASSUME NEW k \in Nat, k \in S PROVE k+1 \in S
  <2> SUFFICES ASSUME k+1 <= n PROVE Has(k+1)
    <3> HIDE DEF Has
    <3> QED OBVIOUS
  <2>0. Has(k)
    <3> HIDE DEF Has
    <3> QED BY <1>8
  <2>1. Has(k) /\ k \in 0 .. n-1 /\ (k+1)-1 = k /\ 0 .. k = (0 .. k-1) \cup {k} /\ k \notin 0 .. k-1
    <3>1. k \in 0 .. n-1 /\ (k+1)-1 = k /\ 0 .. k = (0 .. k-1) \cup {k} /\ k \notin 0 .. k-1
      OBVIOUS
    <3> HIDE DEF Has
    <3> QED BY <2>0, <3>1
  <2>2. PICK s \in Seq(Field) : s = w[k]
    BY <2>1
  <2>3. CASE k \in T
    <3>1. w[k+1] = Append(s, val[k])
      BY <2>1, <2>2, <2>3, <1>6
    <3>2. PICK x \in Field : x = val[k]
      BY <2>1, <2>3
    <3>3. Values(w[k+1]) = Values(s) \cup {x} /\ w[k+1] \in Seq(Field)
      BY <3>1, <3>2, AppendValues
    <3>4. Values(w[k+1]) = {val[i] : i \in T \cap (0 .. (k+1)-1)}
      <4>1. {val[i] : i \in T \cap (0 .. k)} = {val[i] : i \in T \cap (0 .. k-1)} \cup {val[k]}
        BY <2>1, <2>3
      <4> QED BY <4>1, <3>2, <3>3, <2>1, <2>2
    <3>5. ASSUME Inj PROVE NoRepeats(w[k+1])
      <4>1. x \notin Values(s)
        <5> SUFFICES ASSUME x \in Values(s) PROVE FALSE
          OBVIOUS
        <5>1. PICK i \in T \cap (0 .. k-1) : x = val[i]
          BY <2>1, <2>2
        <5>2. i \in T \cap (0 .. n-1) /\ k \in T \cap (0 .. n-1) /\ i # k
          BY <2>1, <2>3
        <5> QED BY <5>1, <5>2, <3>2, <3>5
      <4>2. NoRepeats(s)
        BY <2>1, <2>2, <3>5
      <4> QED BY <4>1, <4>2, <3>1, <3>2, AppendValues
    <3> QED BY <3>3, <3>4, <3>5
  <2>4. CASE k \notin T
    <3>1. w[k+1] = s
      BY <2>1, <2>2, <2>4, <1>6
    <3>2. T \cap (0 .. (k+1)-1) = T \cap (0 .. k-1)
      BY <2>1, <2>4
    <3> QED BY <3>1, <3>2, <2>1, <2>2
  <2> QED BY <2>3, <2>4
<1>9. Has(n)
  <2>1. \A k \in Nat : k \in S
    <3> HIDE DEF S
    <3> QED BY <1>7, <1>8, Induct
  <2>2. n \in S
    BY <2>1
  <2> HIDE DEF Has
  <2> QED BY <2>2
<1> QED BY <1>9

-----------------------------------------------------------------------------
(***************************************************************************)
(* The numbers of find_roots.                                              *)
(***************************************************************************)
\* The powers of two.
LEMMA Power2Is ==
    /\ power2[0] = 1
    /\ \A k \in Nat : power2[k] \in Nat /\ power2[k] >= 1 /\ power2[k+1] = 2 * power2[k]
<1> DEFINE step == [x \in Nat |-> 2 * x]
<1>1. step \in [Nat -> Nat]
  OBVIOUS
<1>2. PICK r : r = [k \in Nat |-> IF k = 0 THEN 1 ELSE step[r[k-1]]]
  <2>1. PICK T : T = Nat
    OBVIOUS
  <2>2. 1 \in T /\ step \in [T -> T]
    BY <1>1, <2>1
  <2> HIDE DEF step
  <2> QED BY <2>2, Iterate
<1>3. \A k \in Nat : r[k] \in Nat
  <2> DEFINE S == {k \in Nat : r[k] \in Nat}
  <2>1. 0 \in S
    BY <1>2
  <2>2. ASSUME NEW k \in Nat, k \in S PROVE k+1 \in S
    <3>1. k+1 # 0 /\ (k+1)-1 = k /\ k+1 \in Nat
      OBVIOUS
    <3>2. r[k+1] = step[r[k]] /\ r[k] \in Nat
      <4> HIDE DEF step
      <4> QED BY <3>1, <2>2, <1>2
    <3> QED BY <3>2
  <2>3. \A k \in Nat : k \in S
    <3> HIDE DEF S, step
    <3> QED BY <2>1, <2>2, Induct
  <2> QED BY <2>3
<1> DEFINE IsTwo(x) == x = [k \in Nat |-> IF k = 0 THEN 1 ELSE 2 * x[k-1]]
<1>4. IsTwo(r)
  <2>1. ASSUME NEW k \in Nat PROVE r[k] = IF k = 0 THEN 1 ELSE 2 * r[k-1]
    <3>1. CASE k = 0
      BY <3>1, <1>2
    <3>2. CASE k # 0
      <4>1. k-1 \in Nat
        BY <3>2
      <4>2. r[k-1] \in Nat
        BY <4>1, <1>3
      <4>3. r[k] = step[r[k-1]]
        <5> HIDE DEF step
        <5> QED BY <3>2, <1>2
      <4> QED BY <4>2, <4>3, <3>2
    <3> QED BY <3>1, <3>2
  <2>2. r = [k \in Nat |-> r[k]]
    BY <1>2
  <2> QED BY <2>1, <2>2
<1>5. power2 = CHOOSE x : IsTwo(x)
  BY DEF power2
<1>6. IsTwo(power2)
  <2> HIDE DEF IsTwo
  <2> QED BY <1>4, <1>5
<1>7. power2[0] = 1 /\ \A k \in Nat : power2[k+1] = 2 * power2[k]
  <2>1. \A k \in Nat : power2[k] = IF k = 0 THEN 1 ELSE 2 * power2[k-1]
    BY <1>6
  <2>2. \A k \in Nat : k+1 \in Nat /\ k+1 # 0 /\ (k+1)-1 = k
    OBVIOUS
  <2> HIDE DEF IsTwo
  <2> QED BY <2>1, <2>2
<1>8. \A k \in Nat : power2[k] \in Nat /\ power2[k] >= 1
  <2> DEFINE S == {k \in Nat : power2[k] \in Nat /\ power2[k] >= 1}
  <2>1. 0 \in S
    BY <1>7
  <2>2. ASSUME NEW k \in Nat, k \in S PROVE k+1 \in S
    <3>1. PICK x \in Nat : x = power2[k] /\ x >= 1
      BY <2>2
    <3>2. power2[k+1] = 2 * x
      BY <3>1, <1>7
    <3>3. 2 * x \in Nat /\ 2 * x >= 1
      BY <3>1
    <3> QED BY <3>2, <3>3
  <2>3. \A k \in Nat : k \in S
    <3> HIDE DEF S
    <3> QED BY <2>1, <2>2, Induct
  <2> QED BY <2>3
<1> QED BY <1>7, <1>8

\* Their exponents add up.
LEMMA Power2Plus ==
    ASSUME NEW m \in Nat, NEW n \in Nat
    PROVE  power2[m + n] = power2[m] * power2[n]
<1> DEFINE S == {k \in Nat : power2[k + n] = power2[k] * power2[n]}
<1>1. 0 \in S
  <2>1. PICK y \in Nat : y = power2[n]
    BY Power2Is
  <2>2. power2[0] = 1 /\ 0 + n = n /\ 1 * y = y
    BY Power2Is
  <2> QED BY <2>1, <2>2
<1>2. ASSUME NEW k \in Nat, k \in S PROVE k+1 \in S
  <2>1. PICK y \in Nat : y = power2[n]
    BY Power2Is
  <2>2. PICK x \in Nat : x = power2[k]
    BY Power2Is
  <2>3. power2[k + n] = x * y
    BY <2>1, <2>2, <1>2
  <2>4. power2[k+1] = 2 * x
    BY <2>2, Power2Is
  <2>5. k + n \in Nat /\ (k+1) + n = (k+n) + 1
    OBVIOUS
  <2>6. power2[(k+1) + n] = 2 * (x * y)
    BY <2>3, <2>5, Power2Is
  <2>7. 2 * (x * y) = (2 * x) * y
    OBVIOUS
  <2> QED BY <2>1, <2>4, <2>6, <2>7
<1>3. \A k \in Nat : k \in S
  <2> HIDE DEF S
  <2> QED BY <1>1, <1>2, Induct
<1> QED BY <1>3

\* The orders chi of find_roots: (p-1) / 2^(ell+2), and twice that one step before.
LEMMA ChiIs ==
    ASSUME NEW ell \in 1 .. two_exponent - 2
    PROVE  /\ ell \in Nat /\ ChiZZ(ell) \in Nat /\ ChiZZ(ell) >= 1
           /\ (4 * ChiZZ(ell)) * power2[ell] = p - 1
           /\ ell > 1 => ChiZZ(ell-1) = 2 * ChiZZ(ell)
<1>1. /\ odd_factor \in Nat /\ two_exponent \in Nat
      /\ p = odd_factor * power2[two_exponent] + 1
  BY FftPrimeAssumption
<1>2. PICK k \in Nat : k = two_exponent - 2 - ell
  BY <1>1
<1>3. PICK o \in Nat : o = odd_factor
  BY <1>1
<1>4. PICK x \in Nat : x = power2[k] /\ x >= 1
  BY Power2Is
<1>5. PICK y \in Nat : y = power2[ell] /\ y >= 1
  BY <1>1, Power2Is
<1>6. ell \in Nat /\ two_exponent = (k + ell) + 2
  BY <1>1, <1>2
<1>7. power2[two_exponent] = (x * y) * 4
  <2>1. power2[k + ell] = x * y
    BY <1>4, <1>5, <1>6, Power2Plus
  <2>2. power2[2] = 4
    <3>1. power2[0+1] = 2 * power2[0] /\ power2[1+1] = 2 * power2[1] /\ power2[0] = 1
      BY Power2Is
    <3> QED BY <3>1
  <2>3. PICK m \in Nat : m = k + ell
    BY <1>6
  <2>4. power2[m + 2] = power2[m] * power2[2]
    BY Power2Plus
  <2> QED BY <2>1, <2>2, <2>3, <2>4, <1>6
<1>8. ChiZZ(ell) = o * x
  BY <1>2, <1>3, <1>4 DEF ChiZZ
<1>9. p - 1 = o * ((x * y) * 4)
  <2>1. o * ((x * y) * 4) \in Nat
    OBVIOUS
  <2> QED BY <2>1, <1>1, <1>3, <1>7
<1>10. o >= 1
  <2>1. CASE o = 0
    BY <2>1, <1>9, PrimeSize
  <2> QED BY <2>1
<1>11. o * x \in Nat /\ o * x >= 1
  BY <1>4, <1>10
<1>12. (4 * (o * x)) * y = o * ((x * y) * 4)
  OBVIOUS
<1>13. ASSUME ell > 1 PROVE ChiZZ(ell-1) = 2 * ChiZZ(ell)
  <2>1. two_exponent - 2 - (ell-1) = k + 1
    BY <1>6
  <2>2. power2[k+1] = 2 * x
    BY <1>4, Power2Is
  <2>3. o * (2 * x) = 2 * (o * x)
    OBVIOUS
  <2> QED BY <2>1, <2>2, <2>3, <1>3, <1>8 DEF ChiZZ
<1> QED BY <1>5, <1>6, <1>8, <1>9, <1>11, <1>12, <1>13

\* find_roots chooses chi larger than the degree.
LEMMA ChooseIs ==
    ASSUME NEW d \in Nat, SmallDegree(d)
    PROVE  /\ ChooseEll(d) \in 1 .. two_exponent - 2
           /\ d < 2 * ChiZZ(ChooseEll(d)) /\ d < 4 * ChiZZ(ChooseEll(d)) /\ 8 * d < p - 1
<1>1. two_exponent \in Nat /\ two_exponent > 3 /\ d < ChiZZ(1)
  BY FftPrimeAssumption DEF SmallDegree
<1>2. PICK stops : stops = {ell \in 1 .. two_exponent - 2 :
                              d >= ChiZZ(ell) \/ ell = two_exponent - 2}
  OBVIOUS
<1>3. stops \in SUBSET Nat /\ stops # {}
  <2>1. two_exponent - 2 \in stops
    BY <1>1, <1>2
  <2>2. \A ell \in stops : ell \in Nat
    BY <1>1, <1>2
  <2> QED BY <2>1, <2>2
<1>4. \E ell \in stops : \A k \in stops : ell <= k
  BY <1>3, Least
<1>5. PICK e : e = ChooseEll(d)
  OBVIOUS
<1>6. e = CHOOSE ell \in stops : \A k \in stops : ell <= k
  BY <1>2, <1>5 DEF ChooseEll
<1>7. e \in stops /\ \A k \in stops : e <= k
  BY <1>4, <1>6
<1>8. e \in 1 .. two_exponent - 2
  BY <1>2, <1>7
<1>9. PICK c \in Nat : c = ChiZZ(e)
  BY <1>8, ChiIs
<1>10. d < 2 * c /\ d < 4 * c
  <2>1. CASE e = 1
    <3>1. d < c
      BY <2>1, <1>1, <1>9
    <3> QED BY <3>1
  <2>2. CASE e # 1
    <3>1. e-1 \in 1 .. two_exponent - 2 /\ e > 1 /\ ~ (e <= e-1)
      BY <2>2, <1>1, <1>8
    <3>2. e-1 \notin stops
      BY <3>1, <1>7
    <3>3. ~ (d >= ChiZZ(e-1))
      BY <3>1, <3>2, <1>2
    <3>4. ChiZZ(e-1) = 2 * c
      BY <3>1, <1>8, <1>9, ChiIs
    <3>5. d < 2 * c
      BY <3>3, <3>4
    <3> QED BY <3>5
  <2> QED BY <2>1, <2>2
<1>11. 8 * d < p - 1
  <2>1. 1 \in 1 .. two_exponent - 2
    BY <1>1
  <2>2. PICK x \in Nat : x = ChiZZ(1)
    BY <2>1, ChiIs
  <2>3. power2[1] = 2
    <3>1. power2[0+1] = 2 * power2[0] /\ power2[0] = 1
      BY Power2Is
    <3> QED BY <3>1
  <2>4. (4 * x) * 2 = p - 1
    BY <2>1, <2>2, <2>3, ChiIs
  <2> QED BY <2>2, <2>4, <1>1, PrimeSize
<1> QED BY <1>5, <1>8, <1>9, <1>10, <1>11

\* The table of AllRoots.
IsAll(w, g) ==
    w = [x \in 0 .. p |-> IF x = 0 THEN <<>>
                          ELSE IF Evaluate(g, x-1) = 0 THEN Append(w[x-1], x-1) ELSE w[x-1]]

\* AllRoots in these terms.
LEMMA AllRootsFolded == ASSUME NEW g PROVE AllRoots(g) = (CHOOSE w : IsAll(w, g))[p]
BY DEF AllRoots, IsAll

\* AllRoots has the roots, each once.
LEMMA AllRootsIs ==
    ASSUME NEW g
    PROVE  /\ AllRoots(g) \in Seq(Field)
           /\ Values(AllRoots(g)) = {x \in Field : Evaluate(g, x) = 0}
           /\ NoRepeats(AllRoots(g))
<1>1. PICK val : val = [x \in 0 .. p-1 |-> x]
  OBVIOUS
<1>2. PICK T : T = {x \in Field : Evaluate(g, x) = 0}
  OBVIOUS
<1>3. \A w : IsPicked(w, p, T, val) <=> IsAll(w, g)
  <2> SUFFICES ASSUME NEW w
               PROVE  [i \in 0 .. p |-> IF i = 0 THEN <<>>
                                        ELSE IF i-1 \in T THEN Append(w[i-1], val[i-1]) ELSE w[i-1]]
                    = [x \in 0 .. p |-> IF x = 0 THEN <<>>
                                        ELSE IF Evaluate(g, x-1) = 0 THEN Append(w[x-1], x-1) ELSE w[x-1]]
    BY DEF IsPicked, IsAll
  <2>1. ASSUME NEW i \in 0 .. p
        PROVE  (IF i = 0 THEN <<>> ELSE IF i-1 \in T THEN Append(w[i-1], val[i-1]) ELSE w[i-1])
             = (IF i = 0 THEN <<>> ELSE IF Evaluate(g, i-1) = 0 THEN Append(w[i-1], i-1) ELSE w[i-1])
    <3>1. CASE i = 0
      BY <3>1
    <3>2. CASE i # 0
      <4>1. i-1 \in 0 .. p-1
        BY <3>2, PrimeSize
      <4>2. i-1 \in T <=> Evaluate(g, i-1) = 0
        BY <4>1, <1>2 DEF Field
      <4>3. val[i-1] = i-1
        BY <4>1, <1>1
      <4> QED BY <3>2, <4>2, <4>3
    <3> QED BY <3>1, <3>2
  <2> QED BY <2>1
<1>4. p \in Nat /\ Field = 0 .. p-1
  BY PrimeSize DEF Field
<1>5. \A i \in 0 .. p-1 : i \in T => val[i] \in Field
  BY <1>1, <1>4
<1>6. \E w : IsAll(w, g)
  BY <1>3, <1>4, <1>5, PickedExists
<1>7. PICK w : w = (CHOOSE x : IsAll(x, g))
  OBVIOUS
<1>8. IsPicked(w, p, T, val)
  BY <1>3, <1>6, <1>7
<1>9. /\ w[p] \in Seq(Field)
      /\ Values(w[p]) = {val[i] : i \in T \cap (0 .. p-1)}
      /\ (\A i, j \in T \cap (0 .. p-1) : val[i] = val[j] => i = j) => NoRepeats(w[p])
  BY <1>4, <1>5, <1>8, PickedIs
<1>10. {val[i] : i \in T \cap (0 .. p-1)} = T
  BY <1>1, <1>2, <1>4
<1>11. \A i, j \in T \cap (0 .. p-1) : val[i] = val[j] => i = j
  BY <1>1
<1>12. AllRoots(g) = w[p]
  BY <1>7, AllRootsFolded
<1> QED BY <1>2, <1>9, <1>10, <1>11, <1>12

-----------------------------------------------------------------------------
(***************************************************************************)
(* The values that the loop of find_roots works with.                      *)
(***************************************************************************)
\* The numbers of batch_eval.
Chirps(w, chi) == [i \in 0 .. chi-1 |-> Power(w, i*i)]
\* What batch_eval convolves: the coefficients times the chirps.
Scaled(g, w, chi) == Poly([i \in 0 .. chi-1 |-> (Coeff(g, i) * Chirps(w, chi)[i]) % p], chi-1)
\* And the inverses of the chirps.
Inverses(w, chi) == Poly([i \in 0 .. chi-1 |-> inv[Chirps(w, chi)[i]]], chi-1)

\* batch_eval in these terms.
LEMMA BatchEvalFolded ==
    ASSUME NEW g, NEW w, NEW chi
    PROVE  batch_eval(g, w, chi)
             = [i \in 0 .. chi-1 |->
                  ((Coeff(Times(Scaled(g, w, chi), Inverses(w, chi)), i)
                      + Coeff(Times(Scaled(g, w, chi), Inverses(w, chi)), i+chi)) * Chirps(w, chi)[i]) % p]
BY DEF batch_eval, Scaled, Inverses, Chirps

\* They are polynomials.
LEMMA BatchEvalTypes ==
    ASSUME NEW g \in Seq(Field), NEW w \in 1 .. p-1, NEW chi \in Nat, chi >= 1
    PROVE  /\ \A i \in 0 .. chi-1 : Chirps(w, chi)[i] = Power(w, i*i) /\ Power(w, i*i) \in 1 .. p-1
           /\ Scaled(g, w, chi) \in Seq(Field) /\ Len(Scaled(g, w, chi)) <= chi
           /\ \A i \in Nat : Coeff(Scaled(g, w, chi), i)
                               = IF i < chi THEN Mod(Coeff(g, i) * Power(w, i*i)) ELSE 0
           /\ Inverses(w, chi) \in Seq(Field) /\ Len(Inverses(w, chi)) <= chi
           /\ \A i \in Nat : Coeff(Inverses(w, chi), i)
                               = IF i < chi THEN inv[Power(w, i*i)] ELSE 0
<1>1. ASSUME NEW i \in 0 .. chi-1
      PROVE  Chirps(w, chi)[i] = Power(w, i*i) /\ Power(w, i*i) \in 1 .. p-1
  <2>1. i*i \in Nat
    OBVIOUS
  <2> QED BY <2>1, PowerNonzero DEF Chirps
<1>2. PICK v : v = [i \in 0 .. chi-1 |-> (Coeff(g, i) * Chirps(w, chi)[i]) % p]
  OBVIOUS
<1>3. PICK u : u = [i \in 0 .. chi-1 |-> inv[Chirps(w, chi)[i]]]
  OBVIOUS
<1>4. \A i \in 0 .. chi-1 : v[i] \in Field /\ v[i] = Mod(Coeff(g, i) * Power(w, i*i))
  <2> SUFFICES ASSUME NEW i \in 0 .. chi-1
               PROVE  v[i] \in Field /\ v[i] = Mod(Coeff(g, i) * Power(w, i*i))
    OBVIOUS
  <2>1. PICK x \in Int : x = Power(w, i*i)
    <3>1. \A y \in 1 .. p-1 : y \in Int
      OBVIOUS
    <3> QED BY <3>1, <1>1
  <2>2. PICK y \in Int : y = Coeff(g, i)
    BY CoeffInt
  <2>3. v[i] = (y * x) % p
    BY <2>1, <2>2, <1>1, <1>2
  <2> QED BY <2>1, <2>2, <2>3, ModType DEF Mod
<1>5. \A i \in 0 .. chi-1 : u[i] \in Field /\ u[i] = inv[Power(w, i*i)]
  <2> SUFFICES ASSUME NEW i \in 0 .. chi-1 PROVE u[i] \in Field /\ u[i] = inv[Power(w, i*i)]
    OBVIOUS
  <2>1. PICK x \in 1 .. p-1 : x = Power(w, i*i)
    BY <1>1
  <2>2. inv[x] \in 1 .. p-1
    BY InverseOf
  <2> QED BY <2>1, <2>2, <1>1, <1>3, PrimeSize DEF Field
<1>6. Scaled(g, w, chi) = Poly(v, chi-1) /\ Inverses(w, chi) = Poly(u, chi-1)
  BY <1>2, <1>3 DEF Scaled, Inverses
<1>7. chi-1 \in Int /\ chi-1 >= -1 /\ (chi-1)+1 = chi
  OBVIOUS
<1>8. /\ Poly(v, chi-1) \in Polys /\ Len(Poly(v, chi-1)) <= chi
      /\ \A i \in Nat : Coeff(Poly(v, chi-1), i) = IF i <= chi-1 THEN v[i] ELSE 0
  BY <1>4, <1>7, PolyIs
<1>9. /\ Poly(u, chi-1) \in Polys /\ Len(Poly(u, chi-1)) <= chi
      /\ \A i \in Nat : Coeff(Poly(u, chi-1), i) = IF i <= chi-1 THEN u[i] ELSE 0
  BY <1>5, <1>7, PolyIs
<1>10. Scaled(g, w, chi) \in Seq(Field) /\ Inverses(w, chi) \in Seq(Field)
  BY <1>6, <1>8, <1>9 DEF Polys
<1>11. \A i \in Nat : Coeff(Scaled(g, w, chi), i)
                        = IF i < chi THEN Mod(Coeff(g, i) * Power(w, i*i)) ELSE 0
  <2> SUFFICES ASSUME NEW i \in Nat
               PROVE  Coeff(Poly(v, chi-1), i) = IF i < chi THEN Mod(Coeff(g, i) * Power(w, i*i)) ELSE 0
    BY <1>6
  <2>1. CASE i < chi
    <3>1. i \in 0 .. chi-1 /\ i <= chi-1
      BY <2>1
    <3> QED BY <2>1, <3>1, <1>4, <1>8
  <2>2. CASE ~ (i < chi)
    <3>1. ~ (i <= chi-1)
      BY <2>2
    <3> QED BY <2>2, <3>1, <1>8
  <2> QED BY <2>1, <2>2
<1>12. \A i \in Nat : Coeff(Inverses(w, chi), i) = IF i < chi THEN inv[Power(w, i*i)] ELSE 0
  <2> SUFFICES ASSUME NEW i \in Nat
               PROVE  Coeff(Poly(u, chi-1), i) = IF i < chi THEN inv[Power(w, i*i)] ELSE 0
    BY <1>6
  <2>1. CASE i < chi
    <3>1. i \in 0 .. chi-1 /\ i <= chi-1
      BY <2>1
    <3> QED BY <2>1, <3>1, <1>5, <1>9
  <2>2. CASE ~ (i < chi)
    <3>1. ~ (i <= chi-1)
      BY <2>2
    <3> QED BY <2>2, <3>1, <1>9
  <2> QED BY <2>1, <2>2
<1> QED BY <1>1, <1>6, <1>8, <1>9, <1>10, <1>11, <1>12

\* The values are in the field.
LEMMA BatchEvalType ==
    ASSUME NEW g \in Seq(Field), NEW w \in 1 .. p-1, NEW chi \in Nat, chi >= 1, NEW i \in 0 .. chi-1
    PROVE  batch_eval(g, w, chi)[i] \in Field /\ batch_eval(g, w, chi)[i] \in Int
<1>1. PICK s : s = Scaled(g, w, chi)
  OBVIOUS
<1>2. PICK u : u = Inverses(w, chi)
  OBVIOUS
<1>3. PICK e : e = Times(s, u)
  OBVIOUS
<1>4. s \in Seq(Field) /\ u \in Seq(Field)
  BY <1>1, <1>2, BatchEvalTypes
<1>5. e \in Seq(Field)
  BY <1>3, <1>4, TimesIs DEF Polys
<1>6. PICK x \in Int : x = Coeff(e, i)
  BY <1>5, CoeffInt
<1>7. PICK y \in Int : y = Coeff(e, i+chi)
  BY <1>5, CoeffInt
<1>8. PICK z \in Int : z = Chirps(w, chi)[i]
  <2>1. Chirps(w, chi)[i] = Power(w, i*i) /\ Power(w, i*i) \in 1 .. p-1
    BY BatchEvalTypes
  <2>2. \A b \in 1 .. p-1 : b \in Int
    OBVIOUS
  <2> QED BY <2>1, <2>2
<1>9. batch_eval(g, w, chi)[i] = ((x + y) * z) % p
  BY <1>1, <1>2, <1>3, <1>6, <1>7, <1>8, BatchEvalFolded
<1>10. (x + y) * z \in Int
  OBVIOUS
<1> QED BY <1>9, <1>10, ModMod

-----------------------------------------------------------------------------
(***************************************************************************)
(* What the loop of find_roots appends.                                    *)
(***************************************************************************)
\* Its numbers: the order chi, the roots of unity z and w, the value of a
\* polynomial at the i-th root of unity, and the root found there.
Chi(ell) == 4 * ChiZZ(ell)
\* A root of unity of order Chi(ell), as find_roots takes it.
UnityZ(ell) == Power(zeta, power2[ell])
\* Its square root, which batch_eval is called with.
UnityW(ell) == Power(zeta, power2[ell-1])
\* The i-th value of a transformed polynomial.
ValueAt(e, ell, i) == batch_eval(e, UnityW(ell), Chi(ell))[i]
\* The root that the i-th values give.
RootAt(hs, tau, ell, i) ==
    (Power(2, ell) * Power(UnityZ(ell), i) * ValueAt(Derivative(hs.h), ell, i)
       * inv[ValueAt(hs.hbar, ell, i)] + Neg(tau)) % p

\* The rounds that append a root.
Hits(hs, ell) ==
    {i \in 0 .. Chi(ell) - 1 : ValueAt(hs.h, ell, i) = 0 /\ ValueAt(hs.hbar, ell, i) # 0}

\* The table of the loop.
IsFound(w, hs, tau, ell) ==
    w = [i \in 0 .. Chi(ell) |->
           IF i = 0 THEN <<>>
           ELSE IF ValueAt(hs.h, ell, i-1) = 0 /\ ValueAt(hs.hbar, ell, i-1) # 0
                THEN Append(w[i-1], RootAt(hs, tau, ell, i-1)) ELSE w[i-1]]

\* RootsFromValues in these terms.
LEMMA FoundFolded ==
    ASSUME NEW hs, NEW tau, NEW ell
    PROVE  RootsFromValues(hs, tau, ell) = (CHOOSE w : IsFound(w, hs, tau, ell))[Chi(ell)]
BY DEF RootsFromValues, IsFound, RootAt, ValueAt, UnityZ, UnityW, Chi

\* Their types.
LEMMA RootAtType ==
    ASSUME NEW n \in Nat, NEW hs \in Pairs(n), NEW tau \in Field,
           NEW ell \in 1 .. two_exponent - 2
    PROVE  /\ ell \in Nat /\ Chi(ell) \in Nat /\ Chi(ell) >= 1
           /\ UnityW(ell) \in 1 .. p-1 /\ UnityZ(ell) \in 1 .. p-1
           /\ hs.h \in Polys /\ hs.hbar \in Polys /\ hs.h \in Seq(Field) /\ hs.hbar \in Seq(Field)
           /\ Derivative(hs.h) \in Seq(Field)
           /\ \A e \in Seq(Field) : \A i \in 0 .. Chi(ell) - 1 :
                 ValueAt(e, ell, i) \in Field /\ ValueAt(e, ell, i) \in Int
           /\ \A i \in Hits(hs, ell) : RootAt(hs, tau, ell, i) \in Field
<1>1. ell \in Nat /\ Chi(ell) \in Nat /\ Chi(ell) >= 1
  BY ChiIs DEF Chi
<1>2. zeta \in 1 .. p-1 /\ power2[ell] \in Nat /\ power2[ell-1] \in Nat
  <2>1. ell-1 \in Nat
    BY <1>1
  <2> QED BY <2>1, <1>1, FftPrimeAssumption, Power2Is
<1>3. UnityW(ell) \in 1 .. p-1 /\ UnityZ(ell) \in 1 .. p-1
  BY <1>2, PowerNonzero DEF UnityW, UnityZ
<1>4. hs \in [h : Polys, hbar : Polys]
  BY DEF Pairs
<1>5. hs.h \in Polys /\ hs.hbar \in Polys /\ hs.h \in Seq(Field) /\ hs.hbar \in Seq(Field)
  BY <1>4 DEF Polys
<1>6. Derivative(hs.h) \in Seq(Field)
  BY <1>5, DerivIs DEF Polys
<1>7. ASSUME NEW e \in Seq(Field), NEW i \in 0 .. Chi(ell) - 1
      PROVE  ValueAt(e, ell, i) \in Field /\ ValueAt(e, ell, i) \in Int
  <2>1. PICK w \in 1 .. p-1 : w = UnityW(ell)
    BY <1>3
  <2>2. PICK chi \in Nat : chi = Chi(ell) /\ chi >= 1
    BY <1>1
  <2>3. batch_eval(e, w, chi)[i] \in Field /\ batch_eval(e, w, chi)[i] \in Int
    BY <2>2, BatchEvalType
  <2> QED BY <2>1, <2>2, <2>3 DEF ValueAt
<1>8. ASSUME NEW i \in Hits(hs, ell) PROVE RootAt(hs, tau, ell, i) \in Field
  <2>1. i \in 0 .. Chi(ell) - 1 /\ ValueAt(hs.hbar, ell, i) # 0 /\ i \in Nat
    BY <1>1 DEF Hits
  <2>2. PICK v \in 1 .. p-1 : v = ValueAt(hs.hbar, ell, i)
    BY <2>1, <1>5, <1>7, PrimeSize DEF Field
  <2>3. PICK x \in Int : x = inv[v]
    <3>1. inv[v] \in 1 .. p-1
      BY InverseOf
    <3> QED BY <3>1
  <2>4. PICK y \in Int : y = ValueAt(Derivative(hs.h), ell, i)
    BY <2>1, <1>6, <1>7
  <2>5. \A b \in 1 .. p-1 : b \in Int
    OBVIOUS
  <2>6. PICK b \in Int : b = UnityZ(ell)
    BY <2>5, <1>3
  <2>7. PICK q \in Int : q = Power(UnityZ(ell), i)
    BY <2>1, <2>6, PowerUnfold, FieldInt
  <2>8. PICK r \in Int : r = Power(2, ell)
    <3>1. 2 \in Int
      OBVIOUS
    <3>2. Power(2, ell) \in Field
      BY <3>1, <1>1, PowerUnfold
    <3> QED BY <3>2, FieldInt
  <2>9. PICK m \in Int : m = Neg(tau)
    <3>1. tau \in Int /\ p \in Nat
      BY PrimeSize, FieldInt
    <3>2. (p - tau) % p \in Int
      BY <3>1, ModMod
    <3> QED BY <3>2 DEF Neg
  <2>10. RootAt(hs, tau, ell, i) = (r * q * y * x + m) % p
    BY <2>2, <2>3, <2>4, <2>7, <2>8, <2>9 DEF RootAt
  <2>11. r * q * y * x + m \in Int
    OBVIOUS
  <2> QED BY <2>10, <2>11, ModMod
<1> QED BY <1>1, <1>3, <1>5, <1>6, <1>7, <1>8

\* The loop appends the roots of these rounds.
LEMMA FoundIs ==
    ASSUME NEW n \in Nat, NEW hs \in Pairs(n), NEW tau \in Field,
           NEW ell \in 1 .. two_exponent - 2
    PROVE  /\ RootsFromValues(hs, tau, ell) \in Seq(Field)
           /\ Values(RootsFromValues(hs, tau, ell)) = {RootAt(hs, tau, ell, i) : i \in Hits(hs, ell)}
           /\ (\A i, j \in Hits(hs, ell) :
                  RootAt(hs, tau, ell, i) = RootAt(hs, tau, ell, j) => i = j)
                => NoRepeats(RootsFromValues(hs, tau, ell))
<1>1. PICK m \in Nat : m = Chi(ell)
  BY RootAtType
<1>2. PICK T : T = Hits(hs, ell)
  OBVIOUS
<1>3. PICK val : val = [i \in 0 .. m-1 |-> RootAt(hs, tau, ell, i)]
  OBVIOUS
<1>4. \A w : IsPicked(w, m, T, val) <=> IsFound(w, hs, tau, ell)
  <2> SUFFICES ASSUME NEW w
               PROVE  [i \in 0 .. m |-> IF i = 0 THEN <<>>
                                        ELSE IF i-1 \in T THEN Append(w[i-1], val[i-1]) ELSE w[i-1]]
                    = [i \in 0 .. m |->
                         IF i = 0 THEN <<>>
                         ELSE IF ValueAt(hs.h, ell, i-1) = 0 /\ ValueAt(hs.hbar, ell, i-1) # 0
                              THEN Append(w[i-1], RootAt(hs, tau, ell, i-1)) ELSE w[i-1]]
    BY <1>1 DEF IsPicked, IsFound
  <2>1. ASSUME NEW i \in 0 .. m
        PROVE  (IF i = 0 THEN <<>> ELSE IF i-1 \in T THEN Append(w[i-1], val[i-1]) ELSE w[i-1])
             = (IF i = 0 THEN <<>>
                ELSE IF ValueAt(hs.h, ell, i-1) = 0 /\ ValueAt(hs.hbar, ell, i-1) # 0
                     THEN Append(w[i-1], RootAt(hs, tau, ell, i-1)) ELSE w[i-1])
    <3>1. CASE i = 0
      BY <3>1
    <3>2. CASE i # 0
      <4>1. PICK k \in 0 .. m-1 : k = i-1
        BY <3>2
      <4>2. k \in T <=> (ValueAt(hs.h, ell, k) = 0 /\ ValueAt(hs.hbar, ell, k) # 0)
        BY <1>1, <1>2 DEF Hits
      <4>3. val[k] = RootAt(hs, tau, ell, k)
        BY <1>3
      <4> QED BY <3>2, <4>1, <4>2, <4>3
    <3> QED BY <3>1, <3>2
  <2> QED BY <2>1
<1>5. T \subseteq 0 .. m-1 /\ T \cap (0 .. m-1) = T
  BY <1>1, <1>2 DEF Hits
<1>6. \A i \in 0 .. m-1 : i \in T => val[i] \in Field
  <2> SUFFICES ASSUME NEW i \in 0 .. m-1, i \in T PROVE val[i] \in Field
    OBVIOUS
  <2>1. RootAt(hs, tau, ell, i) \in Field
    BY <1>2, RootAtType
  <2> QED BY <2>1, <1>3
<1>7. \E w : IsFound(w, hs, tau, ell)
  BY <1>4, <1>6, PickedExists
<1>8. PICK w : w = (CHOOSE x : IsFound(x, hs, tau, ell))
  OBVIOUS
<1>9. IsPicked(w, m, T, val)
  BY <1>4, <1>7, <1>8
<1>10. /\ w[m] \in Seq(Field)
       /\ Values(w[m]) = {val[i] : i \in T \cap (0 .. m-1)}
       /\ (\A i, j \in T \cap (0 .. m-1) : val[i] = val[j] => i = j) => NoRepeats(w[m])
  BY <1>6, <1>9, PickedIs
<1>11. {val[i] : i \in T} = {RootAt(hs, tau, ell, i) : i \in T}
  BY <1>3, <1>5
<1>12. (\A i, j \in T : RootAt(hs, tau, ell, i) = RootAt(hs, tau, ell, j) => i = j)
         => (\A i, j \in T : val[i] = val[j] => i = j)
  BY <1>3, <1>5
<1>13. RootsFromValues(hs, tau, ell) = w[m]
  BY <1>1, <1>8, FoundFolded
<1> QED BY <1>2, <1>5, <1>10, <1>11, <1>12, <1>13

-----------------------------------------------------------------------------
(***************************************************************************)
(* The inductive invariant.                                                *)
(***************************************************************************)
\* Two ways to take three factors together.
LEMMA ThreeFactors ==
    ASSUME NEW a \in Int, NEW b \in Int, NEW c \in Int
    PROVE  Mod(a * Mod(b * c)) = Mod(Mod(a * c) * b)
<1>1. PICK x \in Int : x = b * c
  OBVIOUS
<1>2. PICK y \in Int : y = a * c
  OBVIOUS
<1>3. Mod(a * Mod(x)) = Mod(a * x) /\ Mod(b * Mod(y)) = Mod(b * y)
  BY ModTimes
<1>4. a * x = b * y
  BY <1>1, <1>2
<1>5. Mod(y) * b = b * Mod(y)
  BY ModType
<1> QED BY <1>1, <1>2, <1>3, <1>4, <1>5

\* When found divides what is left, moving it to what has been found keeps
\* the product.
LEMMA MoveRoots ==
    ASSUME NEW g \in Polys, NEW q \in Polys, NEW s \in Seq(Field), NEW u \in Seq(Field),
           g # <<>>, q # <<>>, Deg(g) + Len(s) < p, Deg(q) + Len(u) = Deg(g),
           \A x \in Int : Evaluate(g, x) = Mod(Evaluate(q, x) * Evaluate(FromRoots(u), x) + 0)
    PROVE  Times(q, FromRoots(s \o u)) = Times(g, FromRoots(s))
<1>1. PICK su \in Seq(Field) : su = s \o u /\ Len(su) = Len(s) + Len(u)
  <2>1. s \o u \in Seq(Field)
    OBVIOUS
  <2>2. Len(s \o u) = Len(s) + Len(u)
    OBVIOUS
  <2> QED BY <2>1, <2>2
<1>2. \A xs \in Seq(Field) : /\ FromRoots(xs) \in Polys /\ FromRoots(xs) # <<>>
                             /\ Deg(FromRoots(xs)) = Len(xs) /\ FromRoots(xs) \in Seq(Field)
  <2> SUFFICES ASSUME NEW xs \in Seq(Field)
               PROVE  /\ FromRoots(xs) \in Polys /\ FromRoots(xs) # <<>>
                      /\ Deg(FromRoots(xs)) = Len(xs) /\ FromRoots(xs) \in Seq(Field)
    OBVIOUS
  <2>1. Len(xs) \in Nat /\ \A i \in 1 .. Len(xs) : xs[i] \in Field
    OBVIOUS
  <2> QED BY <2>1, FromRootsIs DEF Polys
<1>3. PICK rs \in Polys : rs = FromRoots(s) /\ rs # <<>> /\ Deg(rs) = Len(s) /\ rs \in Seq(Field)
  BY <1>2
<1>4. PICK rsu \in Polys : rsu = FromRoots(su) /\ rsu # <<>> /\ Deg(rsu) = Len(su) /\ rsu \in Seq(Field)
  BY <1>2
<1>5. g \in Seq(Field) /\ q \in Seq(Field) /\ FromRoots(u) \in Seq(Field)
  BY <1>2 DEF Polys
<1>6. /\ Deg(Times(q, rsu)) = Deg(q) + Len(su) /\ Deg(Times(g, rs)) = Deg(g) + Len(s)
      /\ Times(q, rsu) \in Polys /\ Times(g, rs) \in Polys
  <2>1. Times(q, rsu) \in Polys /\ Times(g, rs) \in Polys
    BY <1>3, <1>4, <1>5, TimesIs
  <2>2. Deg(Times(q, rsu)) = Deg(q) + Deg(rsu)
    BY <1>4, TimesDegree
  <2>3. Deg(Times(g, rs)) = Deg(g) + Deg(rs)
    BY <1>3, TimesDegree
  <2> QED BY <2>1, <2>2, <2>3, <1>3, <1>4
<1>7. Deg(Times(q, rsu)) < p /\ Deg(Times(g, rs)) < p
  <2>1. Len(s) \in Nat /\ Len(u) \in Nat /\ Deg(q) \in Int /\ Deg(g) \in Int /\ p \in Int
    BY <1>5, PrimeSize DEF Deg
  <2> QED BY <2>1, <1>1, <1>6
<1>8. ASSUME NEW x \in Field PROVE Evaluate(Times(q, rsu), x) = Evaluate(Times(g, rs), x)
  <2>0. x \in Int
    BY FieldInt
  <2>1. PICK a \in Int : a = Evaluate(q, x)
    BY <2>0, <1>5, EvalType
  <2>2. PICK b \in Int : b = Evaluate(rs, x)
    BY <2>0, <1>3, EvalType
  <2>3. PICK c \in Int : c = Evaluate(FromRoots(u), x)
    BY <2>0, <1>5, EvalType
  <2>4. Evaluate(rsu, x) = Mod(b * c)
    BY <2>0, <2>2, <2>3, <1>1, <1>3, <1>4, FromRootsConcat
  <2>5. PICK y \in Int : y = a * c
    OBVIOUS
  <2>6. y + 0 = y
    OBVIOUS
  <2>7. Evaluate(g, x) = Mod(a * c)
    BY <2>0, <2>1, <2>3, <2>5, <2>6
  <2>8. Evaluate(Times(q, rsu), x) = Mod(a * Mod(b * c))
    BY <2>0, <2>1, <2>4, <1>4, <1>5, EvalTimes
  <2>9. Evaluate(Times(g, rs), x) = Mod(Mod(a * c) * b)
    BY <2>0, <2>2, <2>7, <1>3, <1>5, EvalTimes
  <2> QED BY <2>8, <2>9, ThreeFactors
<1> QED BY <1>1, <1>3, <1>4, <1>6, <1>7, <1>8, SameValues

\* What a call appends.
LEMMA AppendedIs ==
    ASSUME NEW n \in Nat, NEW hs \in Pairs(n), NEW tau \in Field,
           NEW ell \in 1 .. two_exponent - 2
    PROVE  Appended(hs, tau, ell) \in Seq(Field)
<1>1. RootsFromValues(hs, tau, ell) \in Seq(Field)
  BY FoundIs
<1>2. PICK e \in Seq(Field) : e = (IF Evaluate(f, tau) = 0 THEN <<tau>> ELSE <<>>)
  <2>1. <<tau>> \in Seq(Field) /\ <<>> \in Seq(Field)
    OBVIOUS
  <2> QED BY <2>1
<1> QED BY <1>1, <1>2 DEF Appended

\* A call of find_roots works on a polynomial of the field.
LEMMA CallTypes ==
    ASSUME RootInv, phase = "roots"
    PROVE  /\ batch \in Seq(Field) /\ N \in Nat /\ N < p /\ Z \in Seq(Field)
           /\ f \in Polys /\ f # <<>> /\ Deg(f) \in Nat /\ Deg(f) + Len(Z) = N
           /\ Deg(f) <= N /\ Times(f, FromRoots(Z)) = FromRoots(batch)
           /\ SmallDegree(Deg(f)) => ChooseEll(Deg(f)) \in 1 .. two_exponent - 2
           /\ \A ell \in Nat : \A tau \in Field : tangent_graeffe_transform(f, ell, tau) \in Pairs(Deg(f))
<1>1. batch \in Seq(Field) /\ N \in Nat /\ N < p /\ Z \in Seq(Field)
  BY BatchesAssumption DEF RootInv, TypeOK, N
<1>2. f \in Polys /\ f # <<>> /\ Deg(f) \in Nat /\ Deg(f) + Len(Z) = N /\ Deg(f) <= N
  <2>1. f \in Polys /\ f # <<>> /\ Deg(f) + Len(Z) = N /\ Deg(f) <= N
    BY DEF RootInv, DegreeInv, TypeOK
  <2> QED BY <2>1, Leading
<1>3. Times(f, FromRoots(Z)) = FromRoots(batch)
  BY DEF RootInv, FactorsKept
<1>4. SmallDegree(Deg(f)) => ChooseEll(Deg(f)) \in 1 .. two_exponent - 2
  BY <1>2, ChooseIs
<1>5. Deg(f) < p
  BY <1>1, <1>2, PrimeSize
<1>6. ASSUME NEW ell \in Nat, NEW tau \in Field
      PROVE  tangent_graeffe_transform(f, ell, tau) \in Pairs(Deg(f))
  <2>1. PICK t : Transforms(t, f, tau) /\ \A k \in Nat : tangent_graeffe_transform(f, k, tau) = t[k]
    BY <1>2, <1>5, TransformIs
  <2>2. t[ell] \in Pairs(Deg(f))
    BY <2>1 DEF Transforms
  <2> QED BY <2>1, <2>2
<1> QED BY <1>1, <1>2, <1>3, <1>4, <1>6

\* It holds in the beginning.
LEMMA InitInv == Init => RootInv
<1> SUFFICES ASSUME Init PROVE RootInv
  OBVIOUS
<1>1. batch \in Batches /\ phase = "newton" /\ f = <<>> /\ Z = <<>> /\ unlucky = {}
  BY DEF Init
<1>2. batch \in Seq(Field)
  BY <1>1, BatchesAssumption
<1>3. f \in Seq(Field) /\ Z \in Seq(Field) /\ Deg(f) <= N
  <2>1. f = <<>> /\ Len(f) = 0 /\ N \in Nat
    BY <1>1, <1>2 DEF N
  <2> QED BY <2>1, <1>1 DEF Deg
<1> QED BY <1>1, <1>3 DEF RootInv, TypeOK, StartInv, DegreeInv, FactorsKept

\* Newton's identities give the polynomial of the batch.
LEMMA NewtonInv == RootInv /\ Newton => RootInv'
<1> SUFFICES ASSUME RootInv, Newton PROVE RootInv'
  OBVIOUS
<1>1. /\ phase = "newton" /\ phase' = "roots" /\ UNCHANGED <<batch, Z, unlucky>>
      /\ f' = newton_to_polynomial([k \in 1 .. N |-> PowerSum(k)], N)
  BY DEF Newton
<1>2. batch \in Batches /\ unlucky \in SUBSET {"root", "degree"} /\ Z = <<>>
  BY <1>1 DEF RootInv, TypeOK, StartInv
<1>3. batch \in Seq(Field) /\ Len(batch) < p /\ N = Len(batch) /\ Len(batch) \in Nat
  BY <1>2, BatchesAssumption DEF N
<1>4. PICK sums : sums = [k \in 1 .. N |-> PowerSum(k)]
  OBVIOUS
<1>5. \A j \in 1 .. Len(batch) :
         sums[j] = SumFrom([m \in 1 .. Len(batch) |-> Power(batch[m], j)], 1, Len(batch))
  BY <1>3, <1>4 DEF PowerSum
<1>6. f' = FromRoots(batch)
  BY <1>1, <1>3, <1>4, <1>5, NewtonIs
<1>7. PICK r \in Polys : r = FromRoots(batch) /\ r # <<>> /\ Deg(r) = Len(batch) /\ r \in Seq(Field)
  BY <1>3, FromRootsIs DEF Polys
<1>8. Times(r, FromRoots(<<>>)) = r
  <2>1. Deg(r) < p
    BY <1>3, <1>7
  <2> QED BY <2>1, TimesOne, FromRootsEmpty
<1>9. N' = N
  BY <1>1 DEF N
<1>10. TypeOK'
  <2>1. f' \in Seq(Field) /\ Deg(f') <= N'
    BY <1>3, <1>6, <1>7, <1>9
  <2>2. Deg(f)' = Deg(f')
    BY DEF Deg
  <2> QED BY <2>1, <2>2, <1>1, <1>2 DEF TypeOK
<1>11. DegreeInv'
  <2>1. Z' = <<>> /\ Len(Z') = 0
    BY <1>1, <1>2
  <2>2. f' \in Polys /\ f' # <<>> /\ Deg(f') + Len(Z') = N'
    BY <2>1, <1>3, <1>6, <1>7, <1>9
  <2> QED BY <2>2 DEF DegreeInv, Deg
<1>12. FactorsKept'
  <2>1. Z' = <<>>
    BY <1>1, <1>2
  <2>2. Times(f', FromRoots(Z')) = FromRoots(batch')
    BY <2>1, <1>1, <1>6, <1>7, <1>8
  <2> QED BY <2>2 DEF FactorsKept, Times, FromRoots
<1>13. StartInv'
  BY <1>1 DEF StartInv
<1> QED BY <1>10, <1>11, <1>12, <1>13 DEF RootInv

\* A call of find_roots leaves a quotient to the next one, or ends.
LEMMA FindRootsInv == ASSUME NEW tau \in Field PROVE RootInv /\ FindRoots(tau) => RootInv'
<1> SUFFICES ASSUME RootInv, FindRoots(tau) PROVE RootInv'
  OBVIOUS
<1>1. phase = "roots" /\ SmallDegree(Deg(f)) /\ UNCHANGED batch
  BY DEF FindRoots
<1>2. /\ batch \in Seq(Field) /\ N \in Nat /\ N < p /\ Z \in Seq(Field)
      /\ f \in Polys /\ f # <<>> /\ Deg(f) \in Nat /\ Deg(f) + Len(Z) = N
      /\ Deg(f) <= N /\ Times(f, FromRoots(Z)) = FromRoots(batch)
      /\ ChooseEll(Deg(f)) \in 1 .. two_exponent - 2
      /\ \A k \in Nat : tangent_graeffe_transform(f, k, tau) \in Pairs(Deg(f))
  BY <1>1, CallTypes
<1>3. PICK ell \in 1 .. two_exponent - 2 : ell = ChooseEll(Deg(f))
  BY <1>2
<1>4. ell \in Nat
  OBVIOUS
<1>5. PICK hs \in Pairs(Deg(f)) : hs = tangent_graeffe_transform(f, ell, tau)
  BY <1>2, <1>4
<1>6. PICK found \in Seq(Field) : found = Appended(hs, tau, ell)
  BY <1>2, AppendedIs
<1>7. PICK div : div = DivRem(f, FromRoots(found))
  OBVIOUS
<1>8. /\ Z' = Z \o found
      /\ unlucky' = unlucky \cup Mishaps(tau, ell)
      /\ IF Len(found) < Deg(f) /\ div.r = <<>>
         THEN f' = div.q /\ phase' = phase ELSE f' = f /\ phase' = "done"
  BY <1>3, <1>5, <1>6, <1>7 DEF FindRoots
<1>9. Z' \in Seq(Field) /\ Len(Z') = Len(Z) + Len(found) /\ Len(Z) \in Nat /\ Len(found) \in Nat
  <2>1. Z \o found \in Seq(Field)
    BY <1>2
  <2>2. Len(Z \o found) = Len(Z) + Len(found)
    BY <1>2
  <2> QED BY <2>1, <2>2, <1>2, <1>8
<1>10. batch' \in Batches /\ unlucky' \in SUBSET {"root", "degree"} /\ N' = N
  <2>1. batch \in Batches /\ unlucky \in SUBSET {"root", "degree"}
    BY DEF RootInv, TypeOK
  <2>2. Mishaps(tau, ell) \in SUBSET {"root", "degree"}
    BY DEF Mishaps
  <2> QED BY <2>1, <2>2, <1>1, <1>8 DEF N
<1>11. CASE ~ (Len(found) < Deg(f) /\ div.r = <<>>)
  <2>1. f' = f /\ phase' = "done"
    BY <1>8, <1>11
  <2>2. f \in Seq(Field)
    BY <1>2 DEF Polys
  <2>3. TypeOK'
    BY <2>1, <2>2, <1>2, <1>9, <1>10 DEF TypeOK, Deg
  <2>4. StartInv' /\ DegreeInv' /\ FactorsKept'
    BY <2>1 DEF StartInv, DegreeInv, FactorsKept
  <2> QED BY <2>3, <2>4 DEF RootInv
<1>12. CASE Len(found) < Deg(f) /\ div.r = <<>>
  <2>1. f' = div.q /\ phase' = phase
    BY <1>8, <1>12
  <2>2. PICK r \in Polys : r = FromRoots(found) /\ r # <<>> /\ Deg(r) = Len(found)
    <3>1. Len(found) \in Nat /\ \A i \in 1 .. Len(found) : found[i] \in Field
      OBVIOUS
    <3> QED BY <3>1, FromRootsIs
  <2>3. /\ div.q \in Polys /\ (Deg(f) >= Deg(r) => div.q # <<>> /\ Deg(div.q) = Deg(f) - Deg(r))
        /\ \A x \in Int : Evaluate(f, x) = Mod(Evaluate(div.q, x) * Evaluate(r, x) + Evaluate(div.r, x))
    BY <2>2, <1>2, <1>7, DivRemIs
  <2>4. Deg(f) >= Deg(r)
    BY <2>2, <1>2, <1>9, <1>12
  <2>5. PICK q \in Polys : q = div.q /\ q # <<>> /\ Deg(q) = Deg(f) - Len(found) /\ q \in Seq(Field)
    BY <2>2, <2>3, <2>4 DEF Polys
  <2>6. \A x \in Int : Evaluate(f, x) = Mod(Evaluate(q, x) * Evaluate(FromRoots(found), x) + 0)
    BY <2>2, <2>3, <2>5, <1>12, EvalZero
  <2>7. Deg(f) + Len(Z) < p /\ Deg(q) + Len(found) = Deg(f) /\ Deg(q) + Len(Z') = N /\ Deg(q) <= N
    BY <2>5, <1>2, <1>9, PrimeSize
  <2>8. Times(q, FromRoots(Z \o found)) = Times(f, FromRoots(Z))
    BY <2>5, <2>6, <2>7, <1>2, MoveRoots
  <2>9. f' = q
    BY <2>1, <2>5
  <2>10. TypeOK'
    BY <2>1, <2>5, <2>7, <2>9, <1>1, <1>9, <1>10 DEF TypeOK, Deg
  <2>11. StartInv'
    BY <2>1, <1>1 DEF StartInv
  <2>12. DegreeInv'
    <3>1. f' \in Polys /\ f' # <<>> /\ Deg(f') + Len(Z') = N'
      BY <2>5, <2>7, <2>9, <1>10
    <3> QED BY <3>1 DEF DegreeInv, Deg
  <2>13. FactorsKept'
    <3>1. Times(f', FromRoots(Z')) = FromRoots(batch')
      BY <2>8, <2>9, <1>1, <1>2, <1>8
    <3> QED BY <3>1 DEF FactorsKept, Times, FromRoots
  <2> QED BY <2>10, <2>11, <2>12, <2>13 DEF RootInv
<1> QED BY <1>11, <1>12

\* A large polynomial goes to NTL.
LEMMA FindRootsNTLInv == RootInv /\ FindRootsNTL => RootInv'
<1> SUFFICES ASSUME RootInv, FindRootsNTL PROVE RootInv'
  OBVIOUS
<1>1. /\ phase = "roots" /\ phase' = "done" /\ UNCHANGED <<batch, f, unlucky>>
      /\ Z' = Z \o AllRoots(f)
  BY DEF FindRootsNTL
<1>2. Z \in Seq(Field) /\ AllRoots(f) \in Seq(Field)
  BY <1>1, CallTypes, AllRootsIs
<1>3. Z' \in Seq(Field)
  <2>1. Z \o AllRoots(f) \in Seq(Field)
    BY <1>2
  <2> QED BY <2>1, <1>1
<1>4. TypeOK'
  BY <1>1, <1>3 DEF RootInv, TypeOK, N
<1> QED BY <1>1, <1>4 DEF RootInv, StartInv, DegreeInv, FactorsKept

\* What find_roots has found and what it has left make up the batch.
THEOREM KeepsBatch == Spec => []RootInv
<1>1. RootInv /\ [Next]_vars => RootInv'
  <2> SUFFICES ASSUME RootInv, [Next]_vars PROVE RootInv'
    OBVIOUS
  <2>1. CASE Newton
    BY <2>1, NewtonInv
  <2>2. CASE \E tau \in Field : FindRoots(tau)
    BY <2>2, FindRootsInv
  <2>3. CASE FindRootsNTL
    BY <2>3, FindRootsNTLInv
  <2>4. CASE Done \/ UNCHANGED vars
    <3>1. UNCHANGED <<batch, phase, f, Z, unlucky>>
      BY <2>4 DEF Done, vars
    <3> QED BY <3>1 DEF RootInv, TypeOK, StartInv, DegreeInv, FactorsKept, N
  <2> QED BY <2>1, <2>2, <2>3, <2>4 DEF Next
<1> QED BY <1>1, InitInv, PTL DEF Spec

\* Every variable has its type.
THEOREM TypeCorrect == Spec => []TypeOK
<1>1. RootInv => TypeOK
  BY DEF RootInv
<1> QED BY <1>1, KeepsBatch, PTL

\* Newton's identities give the polynomial of the batch, and no call of
\* find_roots that goes on loses one of its factors, whatever tau it drew.
THEOREM KeepsFactors == Spec => []FactorsKept
<1>1. RootInv => FactorsKept
  BY DEF RootInv
<1> QED BY <1>1, KeepsBatch, PTL

-----------------------------------------------------------------------------
(***************************************************************************)
(* batch_eval.                                                             *)
(***************************************************************************)
\* One more term of a sum of values, and Horner's rule.
EvalTerm(S, S2, P, P2, c, y, h1, h2, v) ==
    /\ Mod(v) = Mod(c * P) /\ P2 = Mod(y * P) /\ h1 = Mod(c + y * h2) /\ S2 = Mod(v + S)

\* What they add up to is the same.
EvalSame(S, S2, P, P2, c, y, h1, h2, v) == Mod(S + P * h1) = Mod(S2 + P2 * h2)

\* They agree.
LEMMA EvalTermIs ==
    ASSUME NEW S \in Int, NEW S2 \in Int, NEW P \in Int, NEW P2 \in Int, NEW c \in Int,
           NEW y \in Int, NEW h1 \in Int, NEW h2 \in Int, NEW v \in Int,
           EvalTerm(S, S2, P, P2, c, y, h1, h2, v)
    PROVE  EvalSame(S, S2, P, P2, c, y, h1, h2, v)
<1> USE DEF EvalTerm, EvalSame
<1>1. PICK u \in Int : u = c + y * h2
  OBVIOUS
<1>2. Mod(S + P * Mod(u)) = Mod(S + P * u)
  BY ModHorner
<1>3. PICK q \in Int : q = y * P
  OBVIOUS
<1>4. PICK b \in Int : b = v + S
  OBVIOUS
<1>5. Mod(Mod(b) + h2 * Mod(q)) = Mod(b + h2 * q)
  BY ModHorner2
<1>6. PICK e \in Int : e = c * P
  OBVIOUS
<1>7. PICK r \in Int : r = S + h2 * q
  OBVIOUS
<1>8. Mod(r + Mod(v)) = Mod(r + v) /\ Mod(r + Mod(e)) = Mod(r + e)
  BY ModPlus
<1>9. S + P * u = r + e
  BY <1>1, <1>3, <1>6, <1>7
<1>10. b + h2 * q = r + v
  BY <1>4, <1>7
<1>11. Mod(e) = Mod(v)
  BY <1>6
<1>12. h1 = Mod(u)
  BY <1>1
<1>13. S2 = Mod(b) /\ P2 = Mod(q)
  BY <1>3, <1>4
<1>14. P2 * h2 = h2 * P2
  OBVIOUS
<1>15. Mod(S + P * h1) = Mod(r + e)
  BY <1>2, <1>9, <1>12
<1>16. Mod(S2 + P2 * h2) = Mod(r + v)
  BY <1>5, <1>10, <1>13, <1>14
<1> QED BY <1>8, <1>11, <1>15, <1>16

\* A value is the sum of the terms of the polynomial.
LEMMA EvalSum ==
    ASSUME NEW g \in Seq(Field), NEW y \in Int, NEW D \in Nat, Len(g) <= D+1, NEW v,
           \A j \in 0 .. D : v[j] \in Int /\ Mod(v[j]) = Mod(Coeff(g, j) * Power(y, j))
    PROVE  Evaluate(g, y) = SumFrom(v, 0, D)
<1>1. PICK h : /\ Horner(g, y, h) /\ h[0] = Evaluate(g, y)
               /\ \A i \in Nat : i >= Len(g) => h[i] = 0
  BY EvalHorner
<1>2. h \in [Nat -> Field] /\ \A i \in Nat : h[i] = Mod(Coeff(g, i) + y * h[i+1])
  BY <1>1 DEF Horner
<1>3. \A i \in Nat : h[i] \in Int /\ Coeff(g, i) \in Int /\ Power(y, i) \in Int
  <2> SUFFICES ASSUME NEW i \in Nat PROVE h[i] \in Int /\ Coeff(g, i) \in Int /\ Power(y, i) \in Int
    OBVIOUS
  <2>1. h[i] \in Field /\ Coeff(g, i) \in Field /\ Power(y, i) \in Field
    BY <1>2, CoeffType, PowerUnfold
  <2> QED BY <2>1, FieldInt
<1>4. \A k \in 0 .. D : /\ SumFrom(v, 0, k) \in Int
                        /\ SumFrom(v, 0, k) = Mod(v[k] + SumFrom(v, 0, k-1))
  <2> SUFFICES ASSUME NEW k \in 0 .. D
               PROVE  /\ SumFrom(v, 0, k) \in Int
                      /\ SumFrom(v, 0, k) = Mod(v[k] + SumFrom(v, 0, k-1))
    OBVIOUS
  <2>1. k \in Int /\ 0 - 1 <= k /\ ~ (k < 0) /\ \A j \in 0 .. k : v[j] \in Int
    OBVIOUS
  <2>2. SumFrom(v, 0, k) \in Field /\ SumFrom(v, 0, k) = Mod(v[k] + SumFrom(v, 0, k-1))
    BY <2>1, SumUnfold
  <2> QED BY <2>2, FieldInt
<1>5. SumFrom(v, 0, -1) = 0
  BY SumZero
<1> DEFINE Has(k) == h[0] = Mod(SumFrom(v, 0, k-1) + Power(y, k) * h[k])
           T == {k \in Nat : k <= D+1 => Has(k)}
<1>6. 0 \in T
  <2>1. PICK x \in Int : x = h[0] /\ Mod(x) = x
    BY <1>2, ModOf
  <2>2. Power(y, 0) = 1 /\ 0 + 1 * x = x /\ 0-1 = -1
    BY PowerUnfold
  <2> QED BY <2>1, <2>2, <1>5
<1>7. ASSUME NEW k \in Nat, k \in T PROVE k+1 \in T
  <2> SUFFICES ASSUME k+1 <= D+1 PROVE Has(k+1)
    OBVIOUS
  <2>1. Has(k) /\ k \in 0 .. D /\ (k+1)-1 = k /\ k+1 \in Nat
    BY <1>7
  <2>2. PICK S \in Int : S = SumFrom(v, 0, k-1)
    <3>1. CASE k = 0
      BY <3>1, <1>5
    <3>2. CASE k # 0
      <4>1. k-1 \in 0 .. D
        BY <3>2, <2>1
      <4> QED BY <4>1, <1>4
    <3> QED BY <3>1, <3>2
  <2>3. PICK S2 \in Int : S2 = SumFrom(v, 0, k)
    BY <2>1, <1>4
  <2>4. PICK P \in Int : P = Power(y, k)
    BY <1>3
  <2>5. PICK P2 \in Int : P2 = Power(y, k+1)
    BY <2>1, <1>3
  <2>6. PICK c \in Int : c = Coeff(g, k)
    BY <1>3
  <2>7. PICK h1 \in Int : h1 = h[k]
    BY <1>3
  <2>8. PICK h2 \in Int : h2 = h[k+1]
    BY <2>1, <1>3
  <2>9. PICK x \in Int : x = v[k]
    BY <2>1
  <2>10. P2 = Mod(y * P)
    BY <2>4, <2>5, PowerUnfold
  <2>11. h1 = Mod(c + y * h2)
    BY <2>6, <2>7, <2>8, <1>2
  <2>12. S2 = Mod(x + S)
    BY <2>1, <2>2, <2>3, <2>9, <1>4
  <2>13. Mod(x) = Mod(c * P)
    BY <2>1, <2>4, <2>6, <2>9
  <2>14. EvalTerm(S, S2, P, P2, c, y, h1, h2, x)
    BY <2>10, <2>11, <2>12, <2>13 DEF EvalTerm
  <2>17. EvalSame(S, S2, P, P2, c, y, h1, h2, x)
    BY <2>14, EvalTermIs
  <2>15. Mod(S + P * h1) = Mod(S2 + P2 * h2)
    BY <2>17 DEF EvalSame
  <2>16. h[0] = Mod(S + P * h1)
    BY <2>1, <2>2, <2>4, <2>7
  <2> QED BY <2>1, <2>3, <2>5, <2>8, <2>15, <2>16
<1>8. Has(D+1)
  <2>1. D+1 \in Nat
    OBVIOUS
  <2>2. D+1 \in T
    <3> HIDE DEF T
    <3> QED BY <1>6, <1>7, <2>1, Induct
  <2> QED BY <2>2
<1>9. h[D+1] = 0
  BY <1>1
<1>10. PICK x \in Int : x = Power(y, D+1)
  BY <1>3
<1>11. PICK s \in Int : s = SumFrom(v, 0, D) /\ Mod(s) = s
  <2>1. D \in Int /\ 0 - 1 <= D
    OBVIOUS
  <2>2. SumFrom(v, 0, D) \in Field
    BY <2>1, SumUnfold
  <2> QED BY <2>2, ModOf
<1>12. x * 0 = 0 /\ s + 0 = s /\ (D+1)-1 = D
  OBVIOUS
<1> QED BY <1>1, <1>8, <1>9, <1>10, <1>11, <1>12

\* Powers of powers.
LEMMA PowerPower ==
    ASSUME NEW a \in Int, NEW m \in Nat, NEW j \in Nat
    PROVE  Power(Power(a, m), j) = Power(a, m * j)
<1>1. PICK b \in Int : b = Power(a, m)
  BY PowerUnfold, FieldInt
<1> DEFINE S == {k \in Nat : Power(b, k) = Power(a, m * k)}
<1>2. 0 \in S
  <2>1. m * 0 = 0
    OBVIOUS
  <2> QED BY <2>1, PowerUnfold
<1>3. ASSUME NEW k \in Nat, k \in S PROVE k+1 \in S
  <2>1. Power(b, k) = Power(a, m * k)
    BY <1>3
  <2>2. Power(b, k+1) = Mod(b * Power(b, k))
    BY PowerUnfold
  <2>3. PICK n \in Nat : n = m * k
    OBVIOUS
  <2>4. Power(a, m + n) = Mod(Power(a, m) * Power(a, n))
    BY PowerUnfold
  <2>5. m + n = m * (k+1)
    BY <2>3
  <2> QED BY <2>1, <2>2, <2>3, <2>4, <2>5, <1>1
<1>4. \A k \in Nat : k \in S
  <2> HIDE DEF S
  <2> QED BY <1>2, <1>3, Induct
<1> QED BY <1>1, <1>4

\* The numbers of a term of batch_eval.
ChirpTerm(g, a, b, q, d, v, s) ==
    Mod(d * v) = 1 /\ Mod(a * b) = Mod(q * d) /\ s = Mod(g * a)

\* The term of the value, as batch_eval has it.
ChirpSame(g, a, b, q, d, v, s) == Mod(g * q) = Mod(b * (s * v))

\* It is a term of the value.
LEMMA ChirpTermIs ==
    ASSUME NEW g \in Int, NEW a \in Int, NEW b \in Int, NEW q \in Int, NEW d \in Int,
           NEW v \in Int, NEW s \in Int, ChirpTerm(g, a, b, q, d, v, s)
    PROVE  ChirpSame(g, a, b, q, d, v, s)
<1> USE DEF ChirpTerm, ChirpSame
<1>1. PICK x \in Int : x = g * a
  OBVIOUS
<1>2. PICK bv \in Int : bv = b * v
  OBVIOUS
<1>3. Mod(bv * Mod(x)) = Mod(bv * x)
  BY ModTimes
<1>4. PICK ab \in Int : ab = a * b
  OBVIOUS
<1>5. PICK qd \in Int : qd = q * d
  OBVIOUS
<1>6. PICK gv \in Int : gv = g * v
  OBVIOUS
<1>7. Mod(gv * Mod(ab)) = Mod(gv * ab) /\ Mod(gv * Mod(qd)) = Mod(gv * qd)
  BY ModTimes
<1>8. PICK dv \in Int : dv = d * v
  OBVIOUS
<1>9. PICK gq \in Int : gq = g * q
  OBVIOUS
<1>10. Mod(gq * Mod(dv)) = Mod(gq * dv)
  BY ModTimes
<1>11. bv * s = b * (s * v)
  BY <1>2
<1>12. bv * x = gv * ab
  BY <1>1, <1>2, <1>4, <1>6
<1>13. gv * qd = gq * dv
  BY <1>5, <1>6, <1>8, <1>9
<1>14. gq * 1 = gq
  OBVIOUS
<1>15. s = Mod(x) /\ Mod(ab) = Mod(qd) /\ Mod(dv) = 1
  BY <1>1, <1>4, <1>5, <1>8
<1>16. Mod(bv * s) = Mod(gv * ab)
  BY <1>3, <1>12, <1>15
<1>17. Mod(gv * ab) = Mod(gq)
  BY <1>7, <1>10, <1>13, <1>14, <1>15
<1> QED BY <1>9, <1>11, <1>16, <1>17

\* Exponents that differ by multiples of P.
Turns(P, n1, n2, k1, k2) == n1 + P * k1 = n2 + P * k2

\* Powers whose exponents differ by multiples of a period.
LEMMA SamePower ==
    ASSUME NEW w \in Int, NEW P \in Nat, Power(w, P) = 1, NEW n1 \in Nat, NEW n2 \in Nat,
           NEW k1 \in Nat, NEW k2 \in Nat, Turns(P, n1, n2, k1, k2)
    PROVE  Power(w, n1) = Power(w, n2)
<1>1. ASSUME NEW n \in Nat, NEW k \in Nat PROVE Power(w, n + P * k) = Power(w, n)
  <2> DEFINE S == {i \in Nat : Power(1, i) = 1}
  <2>1. 0 \in S
    <3>1. 1 \in Int
      OBVIOUS
    <3> QED BY <3>1, PowerUnfold
  <2>2. ASSUME NEW i \in Nat, i \in S PROVE i+1 \in S
    <3>1. 1 \in Int /\ 1 * 1 = 1
      OBVIOUS
    <3>2. Power(1, i+1) = Mod(1 * Power(1, i))
      BY <3>1, PowerUnfold
    <3> QED BY <3>1, <3>2, <2>2, ModSmall
  <2>3. Power(1, k) = 1
    <3>1. k \in S
      <4> HIDE DEF S
      <4> QED BY <2>1, <2>2, Induct
    <3> QED BY <3>1
  <2>4. PICK m \in Nat : m = P * k
    OBVIOUS
  <2>5. Power(w, m) = 1
    BY <2>3, <2>4, PowerPower
  <2>6. Power(w, n + m) = Mod(Power(w, n) * Power(w, m))
    BY PowerUnfold
  <2>7. PICK x \in Field : x = Power(w, n)
    BY PowerUnfold
  <2>8. x * 1 = x /\ Mod(x) = x
    <3>1. x \in Int
      BY FieldInt
    <3> QED BY <3>1, ModOf
  <2> QED BY <2>4, <2>5, <2>6, <2>7, <2>8
<1>2. n1 + P * k1 = n2 + P * k2
  BY DEF Turns
<1>3. Power(w, n1 + P * k1) = Power(w, n1) /\ Power(w, n2 + P * k2) = Power(w, n2)
  BY <1>1
<1> QED BY <1>2, <1>3

\* A sum whose last terms are 0.
LEMMA SumShort ==
    ASSUME NEW v, NEW n \in Nat, NEW d \in Nat, \A j \in 0 .. n+d : v[j] \in Int,
           \A j \in 0 .. n+d : j > n => v[j] = 0
    PROVE  SumFrom(v, 0, n+d) = SumFrom(v, 0, n)
<1> DEFINE S == {k \in Nat : k <= d => SumFrom(v, 0, n+k) = SumFrom(v, 0, n)}
<1>1. 0 \in S
  BY DEF S
<1>2. ASSUME NEW k \in Nat, k \in S PROVE k+1 \in S
  <2> SUFFICES ASSUME k+1 <= d PROVE SumFrom(v, 0, n+(k+1)) = SumFrom(v, 0, n)
    OBVIOUS
  <2>1. SumFrom(v, 0, n+k) = SumFrom(v, 0, n)
    BY <1>2
  <2>2. PICK m \in Nat : m = n+(k+1) /\ m-1 = n+k /\ m <= n+d /\ m > n
    OBVIOUS
  <2>3. 0 \in Int /\ m \in Int /\ m-1 \in Int /\ 0 - 1 <= m /\ 0-1 <= m-1 /\ ~ (m < 0)
    BY <2>2
  <2>4. \A i \in 0 .. m : v[i] \in Int
    BY <2>2
  <2>5. SumFrom(v, 0, m) = IF m < 0 THEN 0 ELSE Mod(v[m] + SumFrom(v, 0, m-1))
    BY <2>3, <2>4, SumUnfold
  <2>6. v[m] = 0
    BY <2>2
  <2>7. \A i \in 0 .. m-1 : v[i] \in Int
    BY <2>2
  <2>8. PICK s \in Field : s = SumFrom(v, 0, m-1)
    BY <2>3, <2>7, SumUnfold
  <2>9. 0 + s = s /\ Mod(s) = s
    <3>1. s \in Int
      BY FieldInt
    <3> QED BY <3>1, ModOf
  <2> QED BY <2>1, <2>2, <2>3, <2>5, <2>6, <2>8, <2>9
<1>3. d \in S
  <2> HIDE DEF S
  <2> QED BY <1>1, <1>2, Induct
<1> QED BY <1>3

\* The exponents of a term of batch_eval, without and with the turn by chi.
LEMMA ChirpPowers ==
    ASSUME NEW w \in Int, NEW m \in Nat, Power(w, 4 * m) = 1, NEW i \in Nat, NEW j \in Nat
    PROVE  /\ j <= i => Mod(Power(w, j*j) * Power(w, i*i)) = Mod(Power(w, (2*i)*j) * Power(w, (i-j)*(i-j)))
           /\ j <= i + 2*m => Mod(Power(w, j*j) * Power(w, i*i))
                                = Mod(Power(w, (2*i)*j) * Power(w, (i+2*m-j)*(i+2*m-j)))
<1>1. PICK a \in Nat : a = j*j
  OBVIOUS
<1>2. PICK b \in Nat : b = i*i
  OBVIOUS
<1>3. PICK c \in Nat : c = (2*i)*j
  OBVIOUS
<1>4. \A x, y \in Nat : Power(w, x + y) = Mod(Power(w, x) * Power(w, y))
  BY PowerUnfold
<1>5. ASSUME j <= i PROVE Mod(Power(w, a) * Power(w, b)) = Mod(Power(w, c) * Power(w, (i-j)*(i-j)))
  <2>1. PICK k \in Nat : k = i-j
    BY <1>5
  <2>2. PICK d \in Nat : d = k*k
    OBVIOUS
  <2>3. i = j + k
    BY <2>1
  <2>4. a + b = c + d
    BY <1>1, <1>2, <1>3, <2>2, <2>3
  <2>5. Power(w, a + b) = Mod(Power(w, a) * Power(w, b))
    BY <1>4
  <2>6. Power(w, c + d) = Mod(Power(w, c) * Power(w, d))
    BY <1>4
  <2>7. (i-j)*(i-j) = d
    BY <2>1, <2>2
  <2> QED BY <2>4, <2>5, <2>6, <2>7
<1>6. ASSUME j <= i + 2*m
      PROVE  Mod(Power(w, a) * Power(w, b)) = Mod(Power(w, c) * Power(w, (i+2*m-j)*(i+2*m-j)))
  <2>1. PICK k \in Nat : k = i+2*m-j
    BY <1>6
  <2>2. PICK d \in Nat : d = k*k
    OBVIOUS
  <2>3. PICK P \in Nat : P = 4 * m
    OBVIOUS
  <2>4. i = j + k - 2*m
    BY <2>1
  <2>5. PICK ab \in Nat : ab = a + b
    OBVIOUS
  <2>6. PICK cd \in Nat : cd = c + d
    OBVIOUS
  <2>7. PICK k1 \in Nat : k1 = i + m
    OBVIOUS
  <2>8. cd + P * j = ab + P * k1
    <3>1. d = (i+2*m-j)*(i+2*m-j)
      BY <2>1, <2>2
    <3> QED BY <3>1, <1>1, <1>2, <1>3, <2>3, <2>5, <2>6, <2>7
  <2>9. Power(w, cd) = Power(w, ab)
    <3>1. Turns(P, cd, ab, j, k1)
      BY <2>8 DEF Turns
    <3>2. Power(w, P) = 1
      BY <2>3
    <3> QED BY <3>1, <3>2, SamePower
  <2>10. Power(w, ab) = Mod(Power(w, a) * Power(w, b))
    BY <1>4, <2>5
  <2>11. Power(w, cd) = Mod(Power(w, c) * Power(w, d))
    BY <1>4, <2>6
  <2>12. (i+2*m-j)*(i+2*m-j) = d
    BY <2>1, <2>2
  <2> QED BY <2>9, <2>10, <2>11, <2>12
<1> QED BY <1>1, <1>2, <1>3, <1>5, <1>6

\* A term of the product whose coefficients batch_eval adds.
BatchTerm(s, u, i, M, j) ==
    (IF j <= i THEN Coeff(s, j) * Coeff(u, i-j) ELSE 0) + Coeff(s, j) * Coeff(u, M-j)

\* It is a term of the value, but for the factor w^(i^2).
LEMMA BatchTermIs ==
    ASSUME NEW g \in Seq(Field), NEW w \in 1 .. p-1, NEW m \in Nat, m >= 1, Power(w, 4 * m) = 1,
           Len(g) <= 2*m, NEW i \in 0 .. 2*m - 1, NEW j \in 0 .. i + 2*m, NEW s, NEW u,
           s = Scaled(g, w, 2*m), u = Inverses(w, 2*m)
    PROVE  /\ BatchTerm(s, u, i, i + 2*m, j) \in Int
           /\ Mod(Coeff(g, j) * Power(Power(w, 2*i), j))
                = Mod(Power(w, i*i) * BatchTerm(s, u, i, i + 2*m, j))
<1>1. PICK chi \in Nat : chi = 2*m /\ chi >= 1
  OBVIOUS
<1>2. /\ s \in Seq(Field) /\ u \in Seq(Field)
      /\ \A k \in Nat : Coeff(s, k) = IF k < chi THEN Mod(Coeff(g, k) * Power(w, k*k)) ELSE 0
      /\ \A k \in Nat : Coeff(u, k) = IF k < chi THEN inv[Power(w, k*k)] ELSE 0
      /\ \A k \in 0 .. chi-1 : Power(w, k*k) \in 1 .. p-1
  <2>1. g \in Seq(Field) /\ w \in 1 .. p-1 /\ chi \in Nat /\ chi >= 1
    BY <1>1
  <2>2. s = Scaled(g, w, chi) /\ u = Inverses(w, chi)
    BY <1>1
  <2>3. \A k \in 0 .. chi-1 : Chirps(w, chi)[k] = Power(w, k*k) /\ Power(w, k*k) \in 1 .. p-1
    BY <2>1, BatchEvalTypes
  <2>4. /\ Scaled(g, w, chi) \in Seq(Field)
        /\ \A k \in Nat : Coeff(Scaled(g, w, chi), k)
                              = IF k < chi THEN Mod(Coeff(g, k) * Power(w, k*k)) ELSE 0
    BY <2>1, BatchEvalTypes
  <2>5. /\ Inverses(w, chi) \in Seq(Field)
        /\ \A k \in Nat : Coeff(Inverses(w, chi), k)
                              = IF k < chi THEN inv[Power(w, k*k)] ELSE 0
    BY <2>1, BatchEvalTypes
  <2> QED BY <2>2, <2>3, <2>4, <2>5
<1>3. i \in Nat /\ j \in Nat /\ i + chi - j \in Nat /\ i < chi /\ (j <= i => i - j \in Nat)
  BY <1>1
<1>4. w \in Int
  OBVIOUS
<1>5. PICK gj \in Int : gj = Coeff(g, j)
  <2>1. j \in Int
    BY <1>3
  <2> QED BY <2>1, CoeffInt
<1>6. PICK sj \in Int : sj = Coeff(s, j)
  <2>1. j \in Int
    BY <1>3
  <2> QED BY <2>1, <1>2, CoeffInt
<1>7. \A k \in Nat : k*k \in Nat
  OBVIOUS
<1>8. PICK b \in Int : b = Power(w, i*i)
  BY <1>3, <1>4, <1>7, PowerUnfold, FieldInt
<1>9. PICK a \in Int : a = Power(w, j*j)
  BY <1>3, <1>4, <1>7, PowerUnfold, FieldInt
<1>10. PICK q \in Int : q = Power(w, (2*i)*j) /\ q = Power(Power(w, 2*i), j)
  <2>1. 2*i \in Nat /\ (2*i)*j \in Nat
    BY <1>3
  <2>2. Power(w, (2*i)*j) = Power(Power(w, 2*i), j)
    BY <2>1, <1>3, <1>4, PowerPower
  <2>3. Power(w, (2*i)*j) \in Field
    BY <2>1, <1>4, PowerUnfold
  <2> QED BY <2>2, <2>3, FieldInt
<1>11. ASSUME NEW k \in 0 .. chi-1, j < chi, NEW d \in Int, d = Power(w, k*k), Mod(a * b) = Mod(q * d)
       PROVE  Coeff(u, k) \in Int /\ Mod(gj * q) = Mod(b * (sj * Coeff(u, k)))
  <2>1. d \in 1 .. p-1
    BY <1>2, <1>11
  <2>2. PICK v \in Int : v = inv[d] /\ Mod(d * v) = 1
    <3>1. inv[d] \in 1 .. p-1 /\ (d * inv[d]) % p = 1
      BY <2>1, InverseOf
    <3>2. \A y \in 1 .. p-1 : y \in Int
      OBVIOUS
    <3> QED BY <3>1, <3>2 DEF Mod
  <2>3. Coeff(u, k) = v
    BY <2>2, <1>2, <1>11
  <2>4. sj = Mod(gj * a)
    BY <1>2, <1>3, <1>5, <1>6, <1>9, <1>11
  <2>5. ChirpTerm(gj, a, b, q, d, v, sj)
    BY <2>2, <2>4, <1>11 DEF ChirpTerm
  <2>6. ChirpSame(gj, a, b, q, d, v, sj)
    BY <2>5, ChirpTermIs
  <2> QED BY <2>3, <2>6 DEF ChirpSame
<1>12. PICK t : t = BatchTerm(s, u, i, i + chi, j)
  OBVIOUS
<1>13. t = (IF j <= i THEN sj * Coeff(u, i-j) ELSE 0) + sj * Coeff(u, i + chi - j)
  BY <1>6, <1>12 DEF BatchTerm
<1>14. t \in Int /\ Mod(gj * q) = Mod(b * t)
  <2>1. CASE j >= chi
    <3>1. gj = 0
      BY <2>1, <1>1, <1>3, <1>5, CoeffType
    <3>2. sj = 0
      BY <2>1, <1>2, <1>3, <1>6
    <3>3. PICK x \in Int : x = Coeff(u, i + chi - j)
      <4>1. i + chi - j \in Int
        BY <1>3
      <4> QED BY <4>1, <1>2, CoeffInt
    <3>4. t = 0
      BY <2>1, <3>2, <3>3, <1>3, <1>13
    <3> QED BY <3>1, <3>4
  <2>2. CASE j <= i
    <3>1. PICK k \in 0 .. chi-1 : k = i-j
      BY <2>2, <1>3
    <3>2. Coeff(u, i + chi - j) = 0
      <4>1. ~ (i + chi - j < chi)
        BY <2>2, <1>3
      <4> QED BY <4>1, <1>2, <1>3
    <3>3. PICK d \in Int : d = Power(w, k*k)
      <4>1. \A y \in 1 .. p-1 : y \in Int
        OBVIOUS
      <4> QED BY <4>1, <1>2
    <3>4. Mod(a * b) = Mod(q * d)
      <4>1. Mod(Power(w, j*j) * Power(w, i*i)) = Mod(Power(w, (2*i)*j) * Power(w, (i-j)*(i-j)))
        BY <2>2, <1>3, <1>4, ChirpPowers
      <4> QED BY <4>1, <3>1, <3>3, <1>8, <1>9, <1>10
    <3>5. Coeff(u, k) \in Int /\ Mod(gj * q) = Mod(b * (sj * Coeff(u, k)))
      <4>1. j < chi
        BY <2>2, <1>3
      <4> QED BY <4>1, <3>3, <3>4, <1>11
    <3>6. t = sj * Coeff(u, k)
      BY <2>2, <3>1, <3>2, <3>5, <1>13
    <3> QED BY <3>5, <3>6
  <2>3. CASE i < j /\ j < chi
    <3>1. PICK k \in 0 .. chi-1 : k = i+chi-j
      BY <2>3, <1>3
    <3>3. PICK d \in Int : d = Power(w, k*k)
      <4>1. \A y \in 1 .. p-1 : y \in Int
        OBVIOUS
      <4> QED BY <4>1, <1>2
    <3>4. Mod(a * b) = Mod(q * d)
      <4>1. j <= i + 2*m
        BY <1>3, <1>1
      <4>2. Mod(Power(w, j*j) * Power(w, i*i))
              = Mod(Power(w, (2*i)*j) * Power(w, (i+2*m-j)*(i+2*m-j)))
        BY <4>1, <1>3, <1>4, ChirpPowers
      <4> QED BY <4>2, <3>1, <3>3, <1>1, <1>8, <1>9, <1>10
    <3>5. Coeff(u, k) \in Int /\ Mod(gj * q) = Mod(b * (sj * Coeff(u, k)))
      BY <2>3, <3>3, <3>4, <1>3, <1>11
    <3>6. t = sj * Coeff(u, k)
      BY <2>3, <3>1, <3>5, <1>3, <1>13
    <3> QED BY <3>5, <3>6
  <2> QED BY <2>1, <2>2, <2>3, <1>3
<1> QED BY <1>1, <1>5, <1>8, <1>10, <1>12, <1>14

\* v holds the terms of the value of g at y, M being at least the degree.
ValueTerms(v, g, y, M) ==
    /\ Len(g) <= M+1
    /\ \A j \in 0 .. M : v[j] \in Int /\ Mod(v[j]) = Mod(Coeff(g, j) * Power(y, j))

\* EvalSum for such terms.
LEMMA EvalOf ==
    ASSUME NEW g \in Seq(Field), NEW y \in Int, NEW M \in Nat, NEW v, ValueTerms(v, g, y, M)
    PROVE  Evaluate(g, y) = SumFrom(v, 0, M)
BY EvalSum DEF ValueTerms

\* batch_eval gives the values of g at the even powers of w.
THEOREM BatchEvalIs ==
    ASSUME NEW g \in Seq(Field), NEW w \in 1 .. p-1, NEW m \in Nat, m >= 1, Power(w, 4 * m) = 1,
           Len(g) <= 2*m, NEW i \in 0 .. 2*m - 1
    PROVE  batch_eval(g, w, 2*m)[i] = Evaluate(g, Power(w, 2*i))
<1>1. PICK chi \in Nat : chi = 2*m /\ chi >= 1
  OBVIOUS
<1>2. PICK s : s = Scaled(g, w, chi)
  OBVIOUS
<1>3. PICK u : u = Inverses(w, chi)
  OBVIOUS
<1>4. /\ s \in Seq(Field) /\ u \in Seq(Field) /\ Chirps(w, chi)[i] = Power(w, i*i)
  BY <1>1, <1>2, <1>3, BatchEvalTypes
<1>5. PICK M \in Nat : M = i + chi
  BY <1>1
<1>6. i \in Nat /\ i*i \in Nat /\ 2*i \in Nat /\ w \in Int /\ Power(w, 2*i) \in Int
  <2>1. i \in Nat /\ w \in Int
    BY <1>1
  <2>2. i*i \in Nat /\ 2*i \in Nat
    BY <2>1
  <2>3. Power(w, 2*i) \in Field
    BY <2>1, <2>2, PowerUnfold
  <2> QED BY <2>1, <2>2, <2>3, FieldInt
<1>7. PICK b \in Int : b = Power(w, i*i)
  BY <1>6, PowerUnfold, FieldInt
<1>8. PICK y \in Int : y = Power(w, 2*i)
  BY <1>6
<1> DEFINE t1 == [j \in 0 .. M |-> IF j <= i THEN Coeff(s, j) * Coeff(u, i-j) ELSE 0]
           t2 == Product(s, u, M)
           t  == [j \in 0 .. M |-> BatchTerm(s, u, i, M, j)]
           v  == [j \in 0 .. M |-> b * BatchTerm(s, u, i, M, j)]
<1>9. \A j \in 0 .. M : /\ t1[j] \in Int /\ t2[j] \in Int /\ t[j] = t1[j] + t2[j]
                        /\ t[j] = BatchTerm(s, u, i, M, j) /\ v[j] = b * t[j] /\ t[j] \in Int
  <2> SUFFICES ASSUME NEW j \in 0 .. M
               PROVE  /\ t1[j] \in Int /\ t2[j] \in Int /\ t[j] = t1[j] + t2[j]
                      /\ t[j] = BatchTerm(s, u, i, M, j) /\ v[j] = b * t[j] /\ t[j] \in Int
    OBVIOUS
  <2>1. i-j \in Int /\ M-j \in Int /\ j \in Int
    BY <1>6
  <2>2. PICK x \in Int : x = Coeff(s, j)
    BY <2>1, <1>4, CoeffInt
  <2>3. PICK z \in Int : z = Coeff(u, i-j)
    BY <2>1, <1>4, CoeffInt
  <2>4. PICK r \in Int : r = Coeff(u, M-j)
    BY <2>1, <1>4, CoeffInt
  <2>5. t1[j] = (IF j <= i THEN x * z ELSE 0) /\ t2[j] = x * r
    BY <2>2, <2>3, <2>4 DEF Product
  <2>6. t[j] = BatchTerm(s, u, i, M, j) /\ v[j] = b * t[j]
    OBVIOUS
  <2>7. BatchTerm(s, u, i, M, j) = (IF j <= i THEN x * z ELSE 0) + x * r
    BY <2>2, <2>3, <2>4 DEF BatchTerm
  <2> HIDE DEF t1, t2, t, v
  <2>8. t1[j] \in Int /\ t2[j] \in Int
    BY <2>5
  <2> QED BY <2>5, <2>6, <2>7, <2>8
<1>10. SumFrom(t1, 0, M) = Coeff(Times(s, u), i)
  <2>1. \A j \in 0 .. i : t1[j] \in Int /\ Product(s, u, i)[j] = t1[j]
    <3> SUFFICES ASSUME NEW j \in 0 .. i PROVE t1[j] \in Int /\ Product(s, u, i)[j] = t1[j]
      OBVIOUS
    <3>1. j \in 0 .. M /\ j <= i
      BY <1>1, <1>5, <1>6
    <3>2. t1[j] \in Int
      BY <3>1, <1>9
    <3>3. t1[j] = Coeff(s, j) * Coeff(u, i-j)
      BY <3>1
    <3> QED BY <3>2, <3>3 DEF Product
  <2>2. \A j \in 0 .. i+chi : j > i => t1[j] = 0
    <3> SUFFICES ASSUME NEW j \in 0 .. i+chi, j > i PROVE t1[j] = 0
      OBVIOUS
    <3>1. j \in 0 .. M /\ ~ (j <= i)
      BY <1>5, <1>6
    <3> QED BY <3>1
  <2>3. \A j \in 0 .. i+chi : t1[j] \in Int
    BY <1>5, <1>9
  <2> HIDE DEF t1
  <2>4. SumFrom(t1, 0, i+chi) = SumFrom(t1, 0, i)
    BY <2>2, <2>3, <1>6, SumShort
  <2>5. 0 \in Int /\ i \in Int /\ 0 - 1 <= i
    BY <1>6
  <2>6. SumFrom(Product(s, u, i), 0, i) = SumFrom(t1, 0, i)
    BY <2>1, <2>5, SumSame
  <2>7. Coeff(Times(s, u), i) = SumFrom(Product(s, u, i), 0, i)
    BY <1>4, <1>6, TimesIs
  <2> QED BY <2>4, <2>6, <2>7, <1>5
<1>11. SumFrom(t2, 0, M) = Coeff(Times(s, u), M)
  BY <1>4, TimesIs
<1> HIDE DEF t1, t2, t, v
<1>12. Times(s, u) \in Seq(Field)
  BY <1>4, TimesIs DEF Polys
<1>13. PICK A \in Int : A = Coeff(Times(s, u), i)
  BY <1>6, <1>12, CoeffInt
<1>14. PICK B \in Int : B = Coeff(Times(s, u), M)
  BY <1>12, CoeffInt
<1>15. SumFrom(t, 0, M) = Mod(A + 1 * B)
  <2>1. \A j \in 0 .. M : t1[j] \in Int /\ t2[j] \in Int /\ t[j] \in Int
    BY <1>9
  <2>2. \A j \in 0 .. M : Mod(t[j]) = Mod(t1[j] + 1 * t2[j])
    <3> SUFFICES ASSUME NEW j \in 0 .. M PROVE Mod(t[j]) = Mod(t1[j] + 1 * t2[j])
      OBVIOUS
    <3>1. t1[j] \in Int /\ t2[j] \in Int /\ t[j] = t1[j] + t2[j]
      BY <1>9
    <3>2. t1[j] + t2[j] = t1[j] + 1 * t2[j]
      BY <3>1
    <3> QED BY <3>1, <3>2
  <2>3. 1 \in Int
    OBVIOUS
  <2>4. SumFrom(t, 0, M) = Mod(SumFrom(t1, 0, M) + 1 * SumFrom(t2, 0, M))
    BY <2>1, <2>2, <2>3, SumLinear
  <2> QED BY <2>4, <1>10, <1>11, <1>13, <1>14
<1>16. PICK C \in Int : C = Mod(A + B) /\ SumFrom(t, 0, M) = C
  <2>1. A + 1 * B = A + B /\ A + B \in Int
    OBVIOUS
  <2>2. Mod(A + B) \in Int
    BY <2>1, ModType
  <2> QED BY <2>1, <2>2, <1>15
<1>17. SumFrom(v, 0, M) = Mod(C + (b-1) * C)
  <2>1. \A j \in 0 .. M : t[j] \in Int /\ v[j] \in Int
    <3> SUFFICES ASSUME NEW j \in 0 .. M PROVE t[j] \in Int /\ v[j] \in Int
      OBVIOUS
    <3>1. t[j] \in Int /\ v[j] = b * t[j]
      BY <1>9
    <3> QED BY <3>1
  <2>2. \A j \in 0 .. M : Mod(v[j]) = Mod(t[j] + (b-1) * t[j])
    <3> SUFFICES ASSUME NEW j \in 0 .. M PROVE Mod(v[j]) = Mod(t[j] + (b-1) * t[j])
      OBVIOUS
    <3>1. PICK x \in Int : x = t[j] /\ v[j] = b * x
      BY <1>9
    <3>2. b * x = x + (b-1) * x
      OBVIOUS
    <3> QED BY <3>1, <3>2
  <2>3. b-1 \in Int
    OBVIOUS
  <2>4. PICK b1 \in Int : b1 = b-1
    BY <2>3
  <2>5. \A j \in 0 .. M : Mod(v[j]) = Mod(t[j] + b1 * t[j])
    BY <2>2, <2>4
  <2>6. SumFrom(v, 0, M) = Mod(SumFrom(t, 0, M) + b1 * SumFrom(t, 0, M))
    BY <2>1, <2>5, SumLinear
  <2> QED BY <2>4, <2>6, <1>16
<1>18. Evaluate(g, y) = SumFrom(v, 0, M)
  <2>1. \A j \in 0 .. M : v[j] \in Int /\ Mod(v[j]) = Mod(Coeff(g, j) * Power(y, j))
    <3> SUFFICES ASSUME NEW j \in 0 .. M PROVE v[j] \in Int /\ Mod(v[j]) = Mod(Coeff(g, j) * Power(y, j))
      OBVIOUS
    <3>1. j \in 0 .. i + 2*m
      BY <1>1, <1>5
    <3>2. /\ BatchTerm(s, u, i, i + 2*m, j) \in Int
          /\ Mod(Coeff(g, j) * Power(Power(w, 2*i), j)) = Mod(Power(w, i*i) * BatchTerm(s, u, i, i + 2*m, j))
      BY <3>1, <1>1, <1>2, <1>3, BatchTermIs
    <3>3. t[j] = BatchTerm(s, u, i, i + 2*m, j) /\ v[j] = b * t[j] /\ t[j] \in Int
      BY <1>1, <1>5, <1>9
    <3> QED BY <3>2, <3>3, <1>7, <1>8
  <2>2. Len(g) <= M+1
    <3>1. Len(g) \in Nat
      OBVIOUS
    <3> QED BY <3>1, <1>1, <1>5, <1>6
  <2>3. y \in Int /\ M \in Nat
    OBVIOUS
  <2>4. ValueTerms(v, g, y, M)
    BY <2>1, <2>2 DEF ValueTerms
  <2> QED BY <2>3, <2>4, EvalOf
<1>19. C + (b-1) * C = C * b
  OBVIOUS
<1>20. Mod(C * b) = Mod((A + B) * b)
  <2>1. PICK D \in Int : D = A + B
    OBVIOUS
  <2>2. Mod(b * Mod(D)) = Mod(b * D)
    BY ModTimes
  <2>3. b * Mod(D) = Mod(D) * b /\ b * D = D * b
    BY ModType
  <2> QED BY <2>1, <2>2, <2>3, <1>16
<1>21. batch_eval(g, w, chi)[i] = ((A + B) * b) % p
  BY <1>1, <1>2, <1>3, <1>4, <1>5, <1>7, <1>13, <1>14, BatchEvalFolded
<1> QED BY <1>1, <1>8, <1>17, <1>18, <1>19, <1>20, <1>21 DEF Mod

-----------------------------------------------------------------------------
(***************************************************************************)
(* The roots of unity, powers of the generator zeta.                       *)
(***************************************************************************)
\* zeta is a nonzero integer.
LEMMA ZetaType == zeta \in 1 .. p-1 /\ zeta \in Int /\ p-1 \in Nat /\ p-1 >= 1
<1>1. zeta \in 1 .. p-1
  BY FftPrimeAssumption
<1>2. \A y \in 1 .. p-1 : y \in Int
  OBVIOUS
<1> QED BY <1>1, <1>2, PrimeSize

\* No two of the powers 1 .. p-1 of zeta are the same.
LEMMA ZetaInjective ==
    \A k, l \in 1 .. p-1 : Power(zeta, k) = Power(zeta, l) => k = l
<1> DEFINE S == 1 .. p-1
           g == [k \in S |-> Power(zeta, k)]
<1>1. {Power(zeta, k) : k \in S} = S
  BY FftPrimeAssumption
<1>2. g \in [S -> S]
  BY <1>1
<1>3. \A y \in S : \E k \in S : g[k] = y
  BY <1>1
<1>4. g \in Surjection(S, S)
  BY <1>2, <1>3 DEF Surjection
<1>5. IsFiniteSet(S)
  <2>1. 1 \in Int /\ p-1 \in Int
    BY PrimeSize
  <2> QED BY <2>1, FS_Interval
<1> HIDE DEF S
<1>6. g \in Injection(S, S)
  BY <1>4, <1>5, FS_Surjection
<1>7. \A k, l \in S : g[k] = g[l] => k = l
  BY <1>6 DEF Injection, IsInjective
<1>8. \A k \in S : g[k] = Power(zeta, k)
  OBVIOUS
<1> QED BY <1>7, <1>8 DEF S

\* The order of zeta is p-1.
LEMMA ZetaPeriod == Power(zeta, p-1) = 1
<1>1. 1 \in 1 .. p-1
  BY PrimeSize
<1>2. 1 \in {Power(zeta, k) : k \in 1 .. p-1}
  BY <1>1, FftPrimeAssumption
<1>3. PICK k \in 1 .. p-1 : Power(zeta, k) = 1
  BY <1>2
<1>4. k \in Nat /\ (k # p-1 => k+1 \in 1 .. p-1) /\ k >= 1
  BY PrimeSize
<1>5. ASSUME k # p-1 PROVE FALSE
  <2>1. Power(zeta, k+1) = Mod(zeta * Power(zeta, k))
    BY <1>4, ZetaType, PowerUnfold
  <2>2. Power(zeta, 0+1) = Mod(zeta * Power(zeta, 0)) /\ Power(zeta, 0) = 1
    <3>1. 0 \in Nat
      OBVIOUS
    <3> QED BY <3>1, ZetaType, PowerUnfold
  <2>3. Power(zeta, k+1) = Power(zeta, 1)
    BY <2>1, <2>2, <1>3
  <2>4. k+1 = 1
    BY <2>3, <1>1, <1>4, <1>5, ZetaInjective
  <2> QED BY <2>4, <1>4
<1> QED BY <1>3, <1>5

\* Nor are two of the powers 0 .. p-2 the same.
LEMMA ZetaExponents ==
    \A k, l \in 0 .. p-2 : Power(zeta, k) = Power(zeta, l) => k = l
<1> SUFFICES ASSUME NEW k \in 0 .. p-2, NEW l \in 0 .. p-2, Power(zeta, k) = Power(zeta, l)
             PROVE  k = l
  OBVIOUS
<1>1. k \in Nat /\ l \in Nat /\ k+1 \in 1 .. p-1 /\ l+1 \in 1 .. p-1
  BY PrimeSize
<1>2. Power(zeta, k+1) = Mod(zeta * Power(zeta, k)) /\ Power(zeta, l+1) = Mod(zeta * Power(zeta, l))
  BY <1>1, ZetaType, PowerUnfold
<1>3. k+1 = l+1
  BY <1>1, <1>2, ZetaInjective
<1> QED BY <1>1, <1>3

\* The values of batch_eval in the loop are those at the chi-th roots of
\* unity, which are different from each other.
LEMMA UnityIs ==
    ASSUME NEW ell \in 1 .. two_exponent - 2
    PROVE  /\ Power(UnityW(ell), 2 * Chi(ell)) = 1
           /\ \A i \in Nat : /\ Power(UnityZ(ell), i) = Power(zeta, power2[ell] * i)
                             /\ Power(UnityW(ell), 2*i) = Power(UnityZ(ell), i)
                             /\ Power(UnityZ(ell), i) \in 1 .. p-1
           /\ \A i, j \in 0 .. Chi(ell) - 1 :
                 Power(UnityZ(ell), i) = Power(UnityZ(ell), j) => i = j
<1>1. ell \in Nat /\ ell-1 \in Nat /\ (ell-1)+1 = ell
  <2>1. two_exponent \in Nat
    BY FftPrimeAssumption
  <2> QED BY <2>1
<1>2. PICK e \in Nat : e = power2[ell-1]
  BY <1>1, Power2Is
<1>3. PICK e2 \in Nat : e2 = power2[ell] /\ e2 = 2 * e /\ e2 >= 1
  <2>1. power2[(ell-1)+1] = 2 * power2[ell-1] /\ power2[ell] >= 1
    BY <1>1, Power2Is
  <2> QED BY <2>1, <1>1, <1>2
<1>4. PICK chi \in Nat : chi = Chi(ell) /\ chi * e2 = p-1
  <2>1. ChiZZ(ell) \in Nat /\ (4 * ChiZZ(ell)) * power2[ell] = p-1
    BY ChiIs
  <2>2. Chi(ell) \in Nat /\ Chi(ell) * power2[ell] = p-1
    BY <2>1 DEF Chi
  <2> QED BY <2>2, <1>3
<1>5. \A i \in Nat : i*e \in Nat /\ e2*i \in Nat /\ 2*i \in Nat /\ e * (2*i) = e2 * i
  <2> SUFFICES ASSUME NEW i \in Nat PROVE i*e \in Nat /\ e2*i \in Nat /\ 2*i \in Nat /\ e * (2*i) = e2 * i
    OBVIOUS
  <2>1. i*e \in Nat /\ e2*i \in Nat /\ 2*i \in Nat
    OBVIOUS
  <2>2. e * (2*i) = (2*e) * i
    OBVIOUS
  <2> QED BY <2>1, <2>2, <1>3
<1>6. ASSUME NEW i \in Nat
      PROVE  /\ Power(UnityZ(ell), i) = Power(zeta, power2[ell] * i)
             /\ Power(UnityW(ell), 2*i) = Power(UnityZ(ell), i)
             /\ Power(UnityZ(ell), i) \in 1 .. p-1
  <2>1. Power(Power(zeta, e2), i) = Power(zeta, e2 * i)
    BY <1>3, ZetaType, PowerPower
  <2>2. Power(Power(zeta, e), 2*i) = Power(zeta, e * (2*i))
    <3>1. 2*i \in Nat
      OBVIOUS
    <3> QED BY <3>1, <1>2, ZetaType, PowerPower
  <2>3. Power(zeta, e2 * i) \in 1 .. p-1
    BY <1>5, ZetaType, PowerNonzero
  <2> QED BY <2>1, <2>2, <2>3, <1>2, <1>3, <1>5 DEF UnityZ, UnityW
<1>7. Power(UnityW(ell), 2 * Chi(ell)) = 1
  <2>1. e2 * chi = chi * e2
    OBVIOUS
  <2>2. Power(UnityW(ell), 2 * chi) = Power(zeta, e2 * chi)
    BY <1>3, <1>6
  <2> QED BY <2>1, <2>2, <1>4, ZetaPeriod
<1>8. ASSUME NEW i \in 0 .. Chi(ell) - 1, NEW j \in 0 .. Chi(ell) - 1,
             Power(UnityZ(ell), i) = Power(UnityZ(ell), j)
      PROVE  i = j
  <2>1. i \in Nat /\ j \in Nat /\ i <= chi-1 /\ j <= chi-1
    BY <1>4
  <2>2. Power(zeta, e2 * i) = Power(zeta, e2 * j)
    BY <2>1, <1>3, <1>6, <1>8
  <2>3. \A k \in Nat : k <= chi-1 => e2 * k \in 0 .. p-2
    <3> SUFFICES ASSUME NEW k \in Nat, k <= chi-1 PROVE e2 * k \in 0 .. p-2
      OBVIOUS
    <3>1. PICK d \in Nat : k + 1 + d = chi
      <4>1. chi - 1 - k \in Nat /\ k + 1 + (chi - 1 - k) = chi
        OBVIOUS
      <4> QED BY <4>1
    <3>2. chi * e2 = e2 * k + e2 + e2 * d
      BY <3>1
    <3>3. e2 * d \in Nat /\ e2 * k \in Nat
      OBVIOUS
    <3> QED BY <3>2, <3>3, <1>3, <1>4, PrimeSize
  <2>4. e2 * i \in 0 .. p-2 /\ e2 * j \in 0 .. p-2
    BY <2>1, <2>3
  <2>5. e2 * i = e2 * j
    BY <2>2, <2>4, ZetaExponents
  <2>6. i <= j \/ j <= i
    BY <2>1
  <2>7. \A a, b \in Nat : a < b => e2 * a < e2 * b
    <3> SUFFICES ASSUME NEW a \in Nat, NEW b \in Nat, a < b PROVE e2 * a < e2 * b
      OBVIOUS
    <3>1. PICK d \in Nat : b = a + 1 + d
      <4>1. b - a - 1 \in Nat /\ b = a + 1 + (b - a - 1)
        OBVIOUS
      <4> QED BY <4>1
    <3>2. e2 * b = e2 * a + e2 + e2 * d
      BY <3>1
    <3>3. e2 * d \in Nat /\ e2 * a \in Nat
      OBVIOUS
    <3> QED BY <3>2, <3>3, <1>3
  <2>8. ~ (i < j) /\ ~ (j < i)
    <3>1. e2 * i \in Nat
      BY <2>1, <1>5
    <3> QED BY <2>1, <2>5, <2>7, <3>1
  <2> QED BY <2>1, <2>8
<1> QED BY <1>6, <1>7, <1>8

\* The value of a polynomial at the i-th root of unity.
LEMMA ValueAtIs ==
    ASSUME NEW ell \in 1 .. two_exponent - 2, NEW e \in Seq(Field), Len(e) <= Chi(ell),
           NEW i \in 0 .. Chi(ell) - 1
    PROVE  ValueAt(e, ell, i) = Evaluate(e, Power(UnityZ(ell), i))
<1>1. PICK c \in Nat : c = ChiZZ(ell) /\ c >= 1
  BY ChiIs
<1>2. PICK m \in Nat : m = 2*c
  BY <1>1
<1>3. m >= 1 /\ 2*m = Chi(ell) /\ 4*m = 2 * Chi(ell)
  BY <1>1, <1>2 DEF Chi
<1>4. UnityW(ell) \in 1 .. p-1
  <2>1. ell-1 \in Nat
    <3>1. two_exponent \in Nat
      BY FftPrimeAssumption
    <3> QED BY <3>1
  <2>2. power2[ell-1] \in Nat
    BY <2>1, Power2Is
  <2> QED BY <2>2, ZetaType, PowerNonzero DEF UnityW
<1>5. PICK w \in 1 .. p-1 : w = UnityW(ell)
  BY <1>4
<1>6. Power(w, 4*m) = 1
  BY <1>3, <1>5, UnityIs
<1>7. Len(e) <= 2*m /\ i \in 0 .. 2*m - 1
  BY <1>3
<1>8. batch_eval(e, w, 2*m)[i] = Evaluate(e, Power(w, 2*i))
  BY <1>3, <1>6, <1>7, BatchEvalIs
<1>9. i \in Nat
  BY <1>7, <1>2
<1>10. Power(w, 2*i) = Power(UnityZ(ell), i)
  BY <1>5, <1>9, UnityIs
<1> QED BY <1>3, <1>5, <1>8, <1>10 DEF ValueAt

-----------------------------------------------------------------------------
(***************************************************************************)
(* The derivative at a root.                                               *)
(***************************************************************************)
\* One row of Horner's rule for the derivative of (x-v)*e1 at v.
DerivRowIs(n, c, d, v, s) ==
    Mod(Mod((n+1) * Mod(c - v*d)) + v * Mod(s + (n+1)*d)) = Mod(Mod(c + v*s) + n*c)

\* Such a row.
LEMMA DerivRow ==
    ASSUME NEW n \in Int, NEW c \in Int, NEW d \in Int, NEW v \in Int, NEW s \in Int
    PROVE  DerivRowIs(n, c, d, v, s)
<1>1. PICK a \in Int : a = c - v*d
  OBVIOUS
<1>2. PICK b \in Int : b = s + (n+1)*d
  OBVIOUS
<1>3. PICK k \in Int : k = n+1
  OBVIOUS
<1>4. PICK r \in Int : r = c + v*s
  OBVIOUS
<1>5. Mod(k * Mod(a)) = Mod(k * a)
  BY ModTimes
<1>6. k * a \in Int /\ k * Mod(a) \in Int
  BY ModType
<1>7. Mod(Mod(k * a) + v * Mod(b)) = Mod(k * a + v * b)
  BY <1>6, ModHorner2
<1>8. k * a + v * b = r + n*c
  BY <1>1, <1>2, <1>3, <1>4
<1>9. Mod(Mod(r) + n*c) = Mod(r + n*c)
  <2>1. PICK z \in Int : z = n*c
    OBVIOUS
  <2>2. Mod(z + Mod(r)) = Mod(z + r)
    BY ModPlus
  <2>3. z + Mod(r) = Mod(r) + z /\ z + r = r + z
    BY ModType
  <2> QED BY <2>1, <2>2, <2>3
<1> QED BY <1>1, <1>2, <1>3, <1>4, <1>5, <1>7, <1>8, <1>9 DEF DerivRowIs

\* The derivative of (x-v)*e1 has the value of e1 at v.
LEMMA DerivAtRoot ==
    ASSUME NEW e1 \in Seq(Field), NEW v \in Field, NEW e \in Seq(Field),
           e = Times(e1, << (p - v) % p, 1 >>)
    PROVE  Evaluate(Derivative(e), v) = Evaluate(e1, v)
<1>1. v \in Int
  BY FieldInt
<1>2. PICK t : /\ Horner(e1, v, t) /\ t[0] = Evaluate(e1, v)
               /\ \A i \in Nat : i >= Len(e1) => t[i] = 0
  BY <1>1, EvalHorner
<1>3. t \in [Nat -> Field] /\ \A i \in Nat : t[i] = Mod(Coeff(e1, i) + v * t[i+1])
  BY <1>2 DEF Horner
<1>4. \A i \in Nat : Coeff(e1, i) \in Int /\ t[i] \in Int /\ i+1 \in Nat /\ i \in Int
  <2> SUFFICES ASSUME NEW i \in Nat PROVE Coeff(e1, i) \in Int /\ t[i] \in Int /\ i+1 \in Nat /\ i \in Int
    OBVIOUS
  <2>1. i \in Int /\ i+1 \in Nat
    OBVIOUS
  <2>2. Coeff(e1, i) \in Int
    BY <2>1, CoeffInt
  <2> QED BY <2>1, <2>2, <1>3, FieldInt
<1> DEFINE s == [i \in Nat |-> Mod(t[i] + i * Coeff(e1, i))]
<1>5. s \in [Nat -> Field]
  <2> SUFFICES ASSUME NEW i \in Nat PROVE Mod(t[i] + i * Coeff(e1, i)) \in Field
    OBVIOUS
  <2>1. t[i] + i * Coeff(e1, i) \in Int
    BY <1>4
  <2> QED BY <2>1, ModType
<1>6. \A i \in Nat : s[i] = Mod(t[i] + i * Coeff(e1, i))
  OBVIOUS
<1> HIDE DEF s
<1>7. Len(e1) \in Nat
  OBVIOUS
<1>8. \A i \in Nat : i >= Len(e1) => s[i] = 0
  <2> SUFFICES ASSUME NEW i \in Nat, i >= Len(e1) PROVE s[i] = 0
    OBVIOUS
  <2>1. Coeff(e1, i) = 0 /\ t[i] = 0
    BY <1>2, CoeffType
  <2>2. t[i] + i * Coeff(e1, i) = 0
    BY <2>1
  <2> QED BY <2>2, <1>6, ModSmall
<1>9. /\ Derivative(e) \in Polys
      /\ \A i \in Nat : Coeff(Derivative(e), i) = Mod((i+1) * Coeff(e, i+1))
  BY DerivIs
<1>10. \A i \in Nat : s[i] = Mod(Coeff(Derivative(e), i) + v * s[i+1])
  <2> SUFFICES ASSUME NEW i \in Nat PROVE s[i] = Mod(Coeff(Derivative(e), i) + v * s[i+1])
    OBVIOUS
  <2>1. i+1 \in Nat /\ i+1 \in Int /\ (i+1)-1 = i
    OBVIOUS
  <2>2. PICK c \in Int : c = Coeff(e1, i)
    BY <1>4
  <2>3. PICK d \in Int : d = Coeff(e1, i+1)
    BY <2>1, <1>4
  <2>4. PICK r \in Int : r = t[i+1]
    BY <2>1, <1>4
  <2>5. Coeff(e, i+1) = Mod(c - v * d)
    <3>1. PICK n \in Int : n = i+1 /\ n-1 = i
      BY <2>1
    <3>2. Coeff(e, n) = Mod(Coeff(e1, n-1) - v * Coeff(e1, n))
      BY CoeffFactor
    <3> QED BY <3>1, <3>2, <2>2, <2>3
  <2>6. Coeff(Derivative(e), i) = Mod((i+1) * Mod(c - v*d))
    BY <2>5, <1>9
  <2>7. s[i+1] = Mod(r + (i+1)*d)
    BY <2>1, <2>3, <2>4, <1>6
  <2>8. s[i] = Mod(Mod(c + v*r) + i*c)
    BY <2>2, <2>4, <1>3, <1>6
  <2>9. i \in Int
    OBVIOUS
  <2>10. Mod(Mod((i+1) * Mod(c - v*d)) + v * Mod(r + (i+1)*d)) = Mod(Mod(c + v*r) + i*c)
    <3>1. DerivRowIs(i, c, d, v, r)
      BY <2>9, <1>1, DerivRow
    <3> QED BY <3>1 DEF DerivRowIs
  <2> QED BY <2>6, <2>7, <2>8, <2>10
<1>11. Horner(Derivative(e), v, s)
  BY <1>5, <1>7, <1>8, <1>10 DEF Horner
<1>12. Derivative(e) \in Seq(Field)
  BY <1>9 DEF Polys
<1>13. Evaluate(Derivative(e), v) = s[0]
  BY <1>1, <1>11, <1>12, EvalIs
<1>14. s[0] = t[0]
  <2>1. t[0] + 0 * Coeff(e1, 0) = t[0] /\ t[0] \in Field
    <3>1. 0 \in Nat
      OBVIOUS
    <3>2. t[0] \in Field /\ t[0] \in Int /\ Coeff(e1, 0) \in Int
      BY <3>1, <1>3, <1>4
    <3> QED BY <3>2
  <2>2. s[0] = Mod(t[0] + 0 * Coeff(e1, 0))
    BY <1>6
  <2> QED BY <2>1, <2>2, ModOf
<1> QED BY <1>2, <1>13, <1>14

\* A polynomial with a root v is (x-v)*q, and q(v) is its derivative at v.
LEMMA RootFactor ==
    ASSUME NEW h \in Polys, h # <<>>, Deg(h) < p, NEW v \in Field, Evaluate(h, v) = 0
    PROVE  \E q \in Polys : /\ q # <<>> /\ Deg(q) < Deg(h)
                            /\ \A y \in Int : Evaluate(h, y) = Mod((y - v) * Evaluate(q, y))
                            /\ Evaluate(Derivative(h), v) = Evaluate(q, v)
<1>1. v \in Int /\ h \in Seq(Field) /\ Deg(h) \in Nat
  BY FieldInt, Leading
<1>2. PICK q \in Polys : /\ q # <<>> /\ Deg(q) < Deg(h)
                         /\ \A y \in Int : Evaluate(h, y) = Mod((y - v) * Evaluate(q, y))
  BY <1>1, RootSplits
<1>3. q \in Seq(Field) /\ Deg(q) \in Nat
  BY <1>2, Leading
<1>4. PICK b : b = << (p - v) % p, 1 >>
  OBVIOUS
<1>5. b \in Polys /\ b # <<>> /\ Deg(b) = 1 /\ \A y \in Int : Evaluate(b, y) = Mod(y - v)
  BY <1>4, FactorIs
<1>6. b \in Seq(Field)
  BY <1>5 DEF Polys
<1>7. PICK e \in Polys : e = Times(q, b) /\ Deg(e) = Deg(q) + 1
  <2>1. Times(q, b) \in Polys
    BY <1>3, <1>6, TimesIs
  <2>2. Deg(Times(q, b)) = Deg(q) + Deg(b)
    BY <1>2, <1>5, TimesDegree
  <2> QED BY <2>1, <2>2, <1>5
<1>8. e \in Seq(Field)
  BY <1>7 DEF Polys
<1>9. \A y \in Field : Evaluate(h, y) = Evaluate(e, y)
  <2> SUFFICES ASSUME NEW y \in Field PROVE Evaluate(h, y) = Evaluate(e, y)
    OBVIOUS
  <2>1. y \in Int
    BY FieldInt
  <2>2. PICK x \in Int : x = Evaluate(q, y)
    BY <2>1, <1>3, EvalType
  <2>3. Evaluate(e, y) = Mod(x * Mod(y - v))
    BY <2>1, <2>2, <1>3, <1>5, <1>6, <1>7, EvalTimes
  <2>4. PICK d \in Int : d = y - v
    BY <2>1, <1>1
  <2>5. Mod(x * Mod(d)) = Mod(x * d)
    BY ModTimes
  <2>6. x * d = d * x
    OBVIOUS
  <2> QED BY <2>1, <2>2, <2>3, <2>4, <2>5, <2>6, <1>2
<1>10. h = e
  <2>1. Deg(e) < p
    <3>1. PICK m \in Nat : m = Deg(q)
      BY <1>3
    <3>2. m < Deg(h) /\ Deg(e) = m + 1 /\ Deg(h) \in Nat
      BY <3>1, <1>1, <1>2, <1>7
    <3> QED BY <3>2, PrimeSize
  <2> QED BY <2>1, <1>9, SameValues
<1>11. Evaluate(Derivative(h), v) = Evaluate(q, v)
  <2>1. e = Times(q, << (p - v) % p, 1 >>)
    BY <1>4, <1>7
  <2>2. Evaluate(Derivative(e), v) = Evaluate(q, v)
    BY <2>1, <1>3, <1>8, DerivAtRoot
  <2> QED BY <2>2, <1>10
<1> QED BY <1>2, <1>11

-----------------------------------------------------------------------------
(***************************************************************************)
(* The values of the even and of the odd part of a polynomial.             *)
(***************************************************************************)
\* A factor that is not 0 can be cancelled.
LEMMA Cancel ==
    ASSUME NEW a \in Int, NEW b \in Int, NEW c \in Int, Mod(c) # 0, Mod(c * a) = Mod(c * b)
    PROVE  Mod(a) = Mod(b)
<1>1. PICK d \in Int : d = a - b
  OBVIOUS
<1>2. PICK x \in Int : x = c * a
  OBVIOUS
<1>3. PICK y \in Int : y = c * b
  OBVIOUS
<1>4. Mod(x - y) = Mod(y - y)
  BY <1>2, <1>3, CongMinus
<1>5. x - y = c * d /\ y - y = 0
  BY <1>1, <1>2, <1>3
<1>6. Mod(c * d) = 0
  BY <1>4, <1>5, ModSmall
<1>7. Mod(d) = 0
  BY <1>6, NoZeroDivisors
<1>8. 0 \in Int
  OBVIOUS
<1>9. Mod(d + b) = Mod(0 + b)
  BY <1>7, <1>8, ModSmall, CongPlus
<1>10. d + b = a /\ 0 + b = b
  BY <1>1
<1> QED BY <1>9, <1>10

\* Congruent arguments give the same value.
LEMMA EvalCong ==
    ASSUME NEW g \in Seq(Field), NEW x \in Int, NEW y \in Int, Mod(x) = Mod(y)
    PROVE  Evaluate(g, x) = Evaluate(g, y)
<1>1. PICK h : /\ Horner(g, x, h) /\ h[0] = Evaluate(g, x)
               /\ \A i \in Nat : i >= Len(g) => h[i] = 0
  BY EvalHorner
<1>2. h \in [Nat -> Field] /\ \A i \in Nat : h[i] = Mod(Coeff(g, i) + x * h[i+1])
  BY <1>1 DEF Horner
<1>3. \A i \in Nat : h[i] = Mod(Coeff(g, i) + y * h[i+1])
  <2> SUFFICES ASSUME NEW i \in Nat PROVE h[i] = Mod(Coeff(g, i) + y * h[i+1])
    OBVIOUS
  <2>1. i \in Int /\ i+1 \in Nat
    OBVIOUS
  <2>2. PICK c \in Int : c = Coeff(g, i)
    BY <2>1, CoeffInt
  <2>3. PICK r \in Int : r = h[i+1]
    BY <2>1, <1>2, FieldInt
  <2>4. PICK a \in Int : a = x * r
    OBVIOUS
  <2>5. PICK b \in Int : b = y * r
    OBVIOUS
  <2>6. Mod(a) = Mod(b)
    BY <2>4, <2>5, TimesLeft
  <2>7. Mod(c + a) = Mod(c + b)
    <3>1. Mod(c + Mod(a)) = Mod(c + a)
      BY ModPlus
    <3>2. Mod(c + Mod(b)) = Mod(c + b)
      BY ModPlus
    <3> QED BY <3>1, <3>2, <2>6
  <2> QED BY <2>2, <2>3, <2>4, <2>5, <2>7, <1>2
<1>4. Horner(g, y, h)
  BY <1>1, <1>2, <1>3 DEF Horner
<1> QED BY <1>1, <1>4, EvalIs

\* Two rows of Horner's rule are one with the square.
LEMMA TwoRows ==
    \A c, y, r \in Int : Mod(c + y * Mod(y * r)) = Mod(c + (y*y) * r)
<1> SUFFICES ASSUME NEW c \in Int, NEW y \in Int, NEW r \in Int
             PROVE  Mod(c + y * Mod(y * r)) = Mod(c + (y*y) * r)
  OBVIOUS
<1>1. PICK d \in Int : d = y * r
  OBVIOUS
<1>2. Mod(c + y * Mod(d)) = Mod(c + y * d)
  BY ModHorner
<1>3. y * d = (y*y) * r
  BY <1>1
<1> QED BY <1>1, <1>2, <1>3

\* Every number is even or odd.
LEMMA EvenOrOdd ==
    /\ \A j \in Nat : \E i \in Nat : j = 2*i \/ j = 2*i + 1
    /\ \A i \in Nat : /\ 2*i \in Nat /\ 2*i + 1 \in Nat
                      /\ (2*i) % 2 = 0 /\ (2*i + 1) % 2 = 1
                      /\ (2*i) \div 2 = i /\ (2*i + 1) \div 2 = i
<1>1. \A j \in Nat : \E i \in Nat : j = 2*i \/ j = 2*i + 1
  <2> SUFFICES ASSUME NEW j \in Nat PROVE \E i \in Nat : j = 2*i \/ j = 2*i + 1
    OBVIOUS
  <2>1. PICK i \in Int : i = j \div 2
    OBVIOUS
  <2>2. i \in Nat /\ (j = 2*i \/ j = 2*i + 1)
    BY <2>1
  <2> QED BY <2>2
<1>2. \A i \in Nat : /\ 2*i \in Nat /\ 2*i + 1 \in Nat
                     /\ (2*i) % 2 = 0 /\ (2*i + 1) % 2 = 1
                     /\ (2*i) \div 2 = i /\ (2*i + 1) \div 2 = i
  OBVIOUS
<1> QED BY <1>1, <1>2

\* A polynomial of even terms is one in the square.
LEMMA EvenValue ==
    ASSUME NEW g \in Seq(Field), NEW e \in Seq(Field), NEW y \in Int,
           \A i \in Nat : Coeff(g, 2*i) = Coeff(e, i) /\ Coeff(g, 2*i + 1) = 0
    PROVE  Evaluate(g, y) = Evaluate(e, y*y)
<1>1. PICK x \in Int : x = y*y
  OBVIOUS
<1>2. PICK h : /\ Horner(e, x, h) /\ h[0] = Evaluate(e, x)
               /\ \A i \in Nat : i >= Len(e) => h[i] = 0
  BY EvalHorner
<1>3. h \in [Nat -> Field] /\ \A i \in Nat : h[i] = Mod(Coeff(e, i) + x * h[i+1])
  BY <1>2 DEF Horner
<1>4. \A i \in Nat : i+1 \in Nat /\ h[i] \in Int /\ h[i+1] \in Int /\ Coeff(e, i) \in Int
  <2> SUFFICES ASSUME NEW i \in Nat PROVE i+1 \in Nat /\ h[i] \in Int /\ h[i+1] \in Int /\ Coeff(e, i) \in Int
    OBVIOUS
  <2>1. i \in Int /\ i+1 \in Nat
    OBVIOUS
  <2> QED BY <2>1, <1>3, FieldInt, CoeffInt
<1> DEFINE s == [j \in Nat |-> IF j % 2 = 0 THEN h[j \div 2] ELSE Mod(y * h[j \div 2 + 1])]
<1>5. \A i \in Nat : s[2*i] = h[i] /\ s[2*i + 1] = Mod(y * h[i+1])
  <2> SUFFICES ASSUME NEW i \in Nat PROVE s[2*i] = h[i] /\ s[2*i + 1] = Mod(y * h[i+1])
    OBVIOUS
  <2>1. PICK j \in Nat : j = 2*i /\ j % 2 = 0 /\ j \div 2 = i
    BY EvenOrOdd
  <2>2. PICK k \in Nat : k = 2*i + 1 /\ k % 2 = 1 /\ k \div 2 = i
    BY EvenOrOdd
  <2>3. s[j] = h[i]
    BY <2>1
  <2>4. s[k] = Mod(y * h[i+1])
    <3>1. s[k] = IF k % 2 = 0 THEN h[k \div 2] ELSE Mod(y * h[k \div 2 + 1])
      OBVIOUS
    <3>2. k % 2 # 0 /\ k \div 2 = i
      BY <2>2
    <3> QED BY <3>1, <3>2, Zenon
  <2> QED BY <2>1, <2>2, <2>3, <2>4
<1>6. DOMAIN s = Nat /\ s = [j \in Nat |-> s[j]]
  OBVIOUS
<1> HIDE DEF s
<1>7. s \in [Nat -> Field]
  <2>1. \A j \in Nat : s[j] \in Field
    <3> SUFFICES ASSUME NEW j \in Nat PROVE s[j] \in Field
      OBVIOUS
    <3>1. PICK i \in Nat : j = 2*i \/ j = 2*i + 1
      BY EvenOrOdd
    <3>2. PICK r \in Int : r = h[i+1]
      BY <1>4
    <3>3. Mod(y * r) \in Field
      BY ModType
    <3> QED BY <3>1, <3>2, <3>3, <1>3, <1>5
  <2> QED BY <2>1, <1>6
<1>8. \A j \in Nat : s[j] = Mod(Coeff(g, j) + y * s[j+1])
  <2> SUFFICES ASSUME NEW j \in Nat PROVE s[j] = Mod(Coeff(g, j) + y * s[j+1])
    OBVIOUS
  <2>1. PICK i \in Nat : j = 2*i \/ j = 2*i + 1
    BY EvenOrOdd
  <2>2. PICK r \in Int : r = h[i+1]
    BY <1>4
  <2>3. PICK c \in Int : c = Coeff(e, i)
    BY <1>4
  <2>4. CASE j = 2*i
    <3>1. s[j] = Mod(c + x * r) /\ s[j+1] = Mod(y * r) /\ Coeff(g, j) = c
      BY <2>2, <2>3, <2>4, <1>3, <1>5
    <3>2. Mod(c + y * Mod(y * r)) = Mod(c + (y*y) * r)
      BY TwoRows
    <3> QED BY <3>1, <3>2, <1>1
  <2>5. CASE j = 2*i + 1
    <3>1. i+1 \in Nat /\ j+1 = 2*(i+1)
      BY <2>5
    <3>2. s[j+1] = r
      <4>1. s[2*(i+1)] = h[i+1]
        BY <3>1, <1>5
      <4> QED BY <4>1, <3>1, <2>2
    <3>3. s[j] = Mod(y * r) /\ Coeff(g, j) = 0
      BY <2>2, <2>5, <1>5
    <3>4. 0 + y * r = y * r
      OBVIOUS
    <3> QED BY <3>2, <3>3, <3>4
  <2> QED BY <2>1, <2>4, <2>5
<1>9. \A j \in Nat : j >= 2 * Len(e) => s[j] = 0
  <2> SUFFICES ASSUME NEW j \in Nat, j >= 2 * Len(e) PROVE s[j] = 0
    OBVIOUS
  <2>1. PICK i \in Nat : j = 2*i \/ j = 2*i + 1
    BY EvenOrOdd
  <2>2. Len(e) \in Nat
    OBVIOUS
  <2>3. i >= Len(e) /\ i+1 >= Len(e) /\ i+1 \in Nat
    <3>1. PICK l \in Nat : l = Len(e)
      BY <2>2
    <3>2. i >= l
      BY <3>1, <2>1
    <3> QED BY <3>1, <3>2
  <2>4. h[i] = 0 /\ h[i+1] = 0
    BY <2>3, <1>2
  <2>5. y * 0 = 0
    OBVIOUS
  <2>6. s[2*i] = 0 /\ s[2*i + 1] = 0
    <3>1. s[2*i] = h[i] /\ s[2*i + 1] = Mod(y * h[i+1])
      BY <1>5
    <3> QED BY <3>1, <2>4, <2>5, ModSmall
  <2> QED BY <2>1, <2>6
<1>10. Horner(g, y, s)
  <2>1. 2 * Len(e) \in Nat
    OBVIOUS
  <2> QED BY <2>1, <1>7, <1>8, <1>9 DEF Horner
<1>11. s[0] = h[0]
  <2>1. 0 \in Nat /\ 2*0 = 0
    OBVIOUS
  <2> QED BY <2>1, <1>5
<1> QED BY <1>1, <1>2, <1>10, <1>11, EvalIs

\* A polynomial of even terms has the same value at y and at -y.
LEMMA EvenSame ==
    ASSUME NEW g \in Seq(Field), NEW y \in Int, \A i \in Nat : Coeff(g, 2*i + 1) = 0
    PROVE  Evaluate(g, -y) = Evaluate(g, y)
<1>1. PICK d \in Nat : d = Len(g)
  OBVIOUS
<1>2. PICK e : e = EvenCoeffs(g, d)
  OBVIOUS
<1>3. /\ e \in Polys
      /\ \A i \in Nat : Coeff(e, i) = IF i <= d THEN Coeff(g, 2*i) ELSE 0
  <2>1. d \in Int /\ d >= -1
    OBVIOUS
  <2> QED BY <2>1, <1>2, EvenIs
<1>4. e \in Seq(Field)
  BY <1>3 DEF Polys
<1>5. \A i \in Nat : Coeff(g, 2*i) = Coeff(e, i) /\ Coeff(g, 2*i + 1) = 0
  <2> SUFFICES ASSUME NEW i \in Nat PROVE Coeff(g, 2*i) = Coeff(e, i)
    OBVIOUS
  <2>1. CASE i <= d
    BY <2>1, <1>3
  <2>2. CASE ~ (i <= d)
    <3>1. 2*i \in Nat /\ 2*i >= Len(g)
      BY <2>2, <1>1
    <3>2. Coeff(g, 2*i) = 0
      BY <3>1, CoeffType
    <3> QED BY <3>2, <2>2, <1>3
  <2> QED BY <2>1, <2>2
<1>6. Evaluate(g, y) = Evaluate(e, y*y)
  BY <1>4, <1>5, EvenValue
<1>7. PICK z \in Int : z = -y
  OBVIOUS
<1>8. Evaluate(g, z) = Evaluate(e, z*z)
  BY <1>4, <1>5, EvenValue
<1>9. z*z = y*y
  BY <1>7
<1> QED BY <1>6, <1>7, <1>8, <1>9

\* One of odd terms has opposite values there.
LEMMA OddOpposite ==
    ASSUME NEW g \in Seq(Field), NEW y \in Int, Mod(y) # 0, \A i \in Nat : Coeff(g, 2*i) = 0
    PROVE  Evaluate(g, -y) = Mod(-Evaluate(g, y))
<1>1. 0 \in Field /\ 0 \in Int
  BY ModSmall
<1>2. PICK b : b = << (p - 0) % p, 1 >>
  OBVIOUS
<1>3. b \in Polys /\ \A x \in Int : Evaluate(b, x) = Mod(x - 0)
  BY <1>1, <1>2, FactorIs
<1>4. b \in Seq(Field)
  BY <1>3 DEF Polys
<1>5. PICK e \in Seq(Field) : e = Times(g, b)
  BY <1>4, TimesIs DEF Polys
<1>6. \A i \in Nat : Coeff(e, 2*i + 1) = 0
  <2> SUFFICES ASSUME NEW i \in Nat PROVE Coeff(e, 2*i + 1) = 0
    OBVIOUS
  <2>1. PICK n \in Int : n = 2*i + 1 /\ n-1 = 2*i
    OBVIOUS
  <2>2. Coeff(e, n) = Mod(Coeff(g, n-1) - 0 * Coeff(g, n))
    BY <1>1, <1>2, <1>5, CoeffFactor
  <2>3. PICK c \in Int : c = Coeff(g, n)
    BY CoeffInt
  <2>4. Coeff(g, n-1) = 0
    BY <2>1
  <2>5. 0 - 0 * c = 0
    OBVIOUS
  <2> QED BY <2>1, <2>2, <2>3, <2>4, <2>5, ModSmall
<1>7. PICK z \in Int : z = -y
  OBVIOUS
<1>8. \A x \in Int : Evaluate(g, x) \in Int /\ Evaluate(g, x) \in Field
                     /\ Evaluate(e, x) = Mod(Evaluate(g, x) * x)
  <2> SUFFICES ASSUME NEW x \in Int
               PROVE  Evaluate(g, x) \in Int /\ Evaluate(g, x) \in Field
                      /\ Evaluate(e, x) = Mod(Evaluate(g, x) * x)
    OBVIOUS
  <2>1. PICK a \in Int : a = Evaluate(g, x) /\ a \in Field
    BY EvalType
  <2>2. Evaluate(e, x) = Mod(a * Mod(x - 0))
    BY <2>1, <1>3, <1>4, <1>5, EvalTimes
  <2>3. x - 0 = x /\ Mod(a * Mod(x)) = Mod(a * x)
    BY ModTimes
  <2> QED BY <2>1, <2>2, <2>3
<1>9. Evaluate(e, z) = Evaluate(e, y)
  BY <1>6, <1>7, EvenSame
<1>10. PICK a \in Int : a = Evaluate(g, y)
  BY <1>8
<1>11. PICK c \in Int : c = Evaluate(g, z) /\ c \in Field
  BY <1>8
<1>12. Mod(c * z) = Mod(a * y)
  BY <1>8, <1>9, <1>10, <1>11
<1>13. PICK o \in Int : o = -a
  OBVIOUS
<1>14. y * o = -(a * y) /\ y * c = -(c * z)
  BY <1>7, <1>13
<1>15. Mod(y * c) = Mod(y * o)
  <2>1. PICK u \in Int : u = c * z
    OBVIOUS
  <2>2. PICK w \in Int : w = a * y
    OBVIOUS
  <2>3. Mod(0 - u) = Mod(0 - w)
    BY <2>1, <2>2, <1>1, <1>12, CongMinus
  <2>4. 0 - u = y * c /\ 0 - w = y * o
    BY <2>1, <2>2, <1>14
  <2> QED BY <2>3, <2>4
<1>16. Mod(c) = Mod(o)
  BY <1>15, Cancel
<1> QED BY <1>7, <1>10, <1>11, <1>13, <1>16, ModOf

\* The parts of the value of g at y and at -y.
LEMMA NegValue ==
    ASSUME NEW g \in Seq(Field), NEW y \in Int, Mod(y) # 0
    PROVE  \E a, b \in Int :
              /\ Evaluate(Terms(g, 0), y) = a /\ Evaluate(Terms(g, 1), y) = b
              /\ Evaluate(g, y) = Mod(a + b)
              /\ Evaluate(g, -y) = Mod(a - b)
              /\ Evaluate(NegTerms(g), y) = Mod(a - b)
              /\ Evaluate(NegTerms(g), -y) = Mod(a + b)
              /\ Evaluate(Terms(g, 0), -y) = a /\ Evaluate(Terms(g, 1), -y) = Mod(-b)
<1>1. PICK t0 : t0 = Terms(g, 0)
  OBVIOUS
<1>2. PICK t1 : t1 = Terms(g, 1)
  OBVIOUS
<1>3. /\ t0 \in Seq(Field) /\ t1 \in Seq(Field)
      /\ \A i \in Nat : Coeff(t0, i) = IF i % 2 = 0 THEN Coeff(g, i) ELSE 0
      /\ \A i \in Nat : Coeff(t1, i) = IF i % 2 = 1 THEN Coeff(g, i) ELSE 0
  BY <1>1, <1>2, TermsIs DEF Polys
<1>4. \A i \in Nat : Coeff(t0, 2*i + 1) = 0 /\ Coeff(t1, 2*i) = 0
  <2> SUFFICES ASSUME NEW i \in Nat PROVE Coeff(t0, 2*i + 1) = 0 /\ Coeff(t1, 2*i) = 0
    OBVIOUS
  <2>1. PICK j \in Nat : j = 2*i /\ j % 2 = 0
    BY EvenOrOdd
  <2>2. PICK k \in Nat : k = 2*i + 1 /\ k % 2 = 1
    BY EvenOrOdd
  <2>3. Coeff(t1, j) = 0
    BY <2>1, <1>3
  <2>4. Coeff(t0, k) = 0
    BY <2>2, <1>3
  <2> QED BY <2>1, <2>2, <2>3, <2>4
<1>5. PICK z \in Int : z = -y
  OBVIOUS
<1>6. PICK a \in Int : a = Evaluate(t0, y) /\ a = Evaluate(t0, z) /\ a \in Field
  BY <1>3, <1>4, <1>5, EvenSame, EvalType
<1>7. PICK b \in Int : b = Evaluate(t1, y) /\ Evaluate(t1, z) = Mod(-b) /\ b \in Field
  BY <1>3, <1>4, <1>5, OddOpposite, EvalType
<1>8. \A i \in Nat : Coeff(g, i) = Mod(Coeff(t0, i) + 1 * Coeff(t1, i))
  <2> SUFFICES ASSUME NEW i \in Nat PROVE Coeff(g, i) = Mod(Coeff(t0, i) + 1 * Coeff(t1, i))
    OBVIOUS
  <2>1. i \in Int
    OBVIOUS
  <2>2. PICK c \in Int : c = Coeff(g, i) /\ Mod(c) = c
    BY <2>1, CoeffInt, ModOf
  <2>3. i % 2 = 0 \/ i % 2 = 1
    OBVIOUS
  <2>4. \/ Coeff(t0, i) = c /\ Coeff(t1, i) = 0
        \/ Coeff(t0, i) = 0 /\ Coeff(t1, i) = c
    BY <2>2, <2>3, <1>3
  <2>5. c + 1 * 0 = c /\ 0 + 1 * c = c
    OBVIOUS
  <2> QED BY <2>2, <2>4, <2>5
<1>9. 1 \in Int
  OBVIOUS
<1>10. \A x \in Int : Evaluate(g, x) = Mod(Evaluate(t0, x) + 1 * Evaluate(t1, x))
  BY <1>3, <1>8, <1>9, EvalLinear
<1>11. Evaluate(g, y) = Mod(a + b)
  <2>1. a + 1 * b = a + b
    OBVIOUS
  <2> QED BY <2>1, <1>6, <1>7, <1>10
<1>12. PICK o \in Int : o = -b
  OBVIOUS
<1>13. Evaluate(g, z) = Mod(a - b)
  <2>1. Evaluate(g, z) = Mod(a + 1 * Mod(o))
    BY <1>6, <1>7, <1>10, <1>12
  <2>2. 1 * Mod(o) = Mod(o) /\ a + o = a - b
    BY <1>12, ModType
  <2>3. Mod(a + Mod(o)) = Mod(a + o)
    BY ModPlus
  <2> QED BY <2>1, <2>2, <2>3
<1>14. NegTerms(g) = Minus(t0, t1)
  BY <1>1, <1>2 DEF NegTerms
<1>15. Evaluate(NegTerms(g), y) = Mod(a - b)
  <2>1. Evaluate(Minus(t0, t1), y) = Mod(Evaluate(t0, y) - Evaluate(t1, y))
    BY <1>3, EvalMinus
  <2> QED BY <2>1, <1>6, <1>7, <1>14
<1>16. Evaluate(NegTerms(g), z) = Mod(a + b)
  <2>1. Evaluate(NegTerms(g), z) = Mod(a - Mod(o))
    BY <1>3, <1>5, <1>6, <1>7, <1>12, <1>14, EvalMinus
  <2>2. PICK m \in Int : m = Mod(o) /\ Mod(m) = Mod(o)
    BY ModType
  <2>3. Mod(a - m) = Mod(a - o)
    BY <2>2, CongMinus
  <2>4. a - o = a + b
    BY <1>12
  <2> QED BY <2>1, <2>2, <2>3, <2>4
<1> QED BY <1>1, <1>2, <1>5, <1>6, <1>7, <1>11, <1>13, <1>15, <1>16

\* Twice the value of the even coefficients.
LEMMA EvenCoeffsValue ==
    ASSUME NEW g \in Seq(Field), NEW y \in Int, Mod(y) # 0, NEW d \in Int, d >= -1,
           Deg(g) <= 2*d + 1
    PROVE  Mod(2 * Evaluate(EvenCoeffs(g, d), y*y)) = Mod(Evaluate(g, y) + Evaluate(g, -y))
<1>1. PICK e : e = EvenCoeffs(g, d)
  OBVIOUS
<1>2. e \in Polys /\ \A i \in Nat : Coeff(e, i) = IF i <= d THEN Coeff(g, 2*i) ELSE 0
  BY <1>1, EvenIs
<1>3. e \in Seq(Field)
  BY <1>2 DEF Polys
<1>4. PICK t : t = Terms(g, 0)
  OBVIOUS
<1>5. /\ t \in Polys
      /\ \A i \in Nat : Coeff(t, i) = IF i % 2 = 0 THEN Coeff(g, i) ELSE 0
  BY <1>4, TermsIs
<1>6. t \in Seq(Field)
  BY <1>5 DEF Polys
<1>7. \A i \in Nat : Coeff(t, 2*i) = Coeff(e, i) /\ Coeff(t, 2*i + 1) = 0
  <2> SUFFICES ASSUME NEW i \in Nat PROVE Coeff(t, 2*i) = Coeff(e, i) /\ Coeff(t, 2*i + 1) = 0
    OBVIOUS
  <2>1. PICK j \in Nat : j = 2*i /\ j % 2 = 0
    BY EvenOrOdd
  <2>2. PICK k \in Nat : k = 2*i + 1 /\ k % 2 = 1
    BY EvenOrOdd
  <2>3. Coeff(t, k) = 0
    BY <2>2, <1>5
  <2>4. Coeff(t, j) = Coeff(g, j)
    BY <2>1, <1>5
  <2>5. CASE i <= d
    BY <2>1, <2>2, <2>3, <2>4, <2>5, <1>2
  <2>6. CASE ~ (i <= d)
    <3>1. Len(g) \in Nat /\ Len(g) - 1 <= 2*d + 1
      BY DEF Deg
    <3>2. j >= Len(g)
      BY <3>1, <2>1, <2>6
    <3>3. Coeff(g, j) = 0
      BY <3>2, CoeffType
    <3> QED BY <3>3, <2>1, <2>2, <2>3, <2>4, <2>6, <1>2
  <2> QED BY <2>5, <2>6
<1>8. Evaluate(t, y) = Evaluate(e, y*y)
  BY <1>3, <1>6, <1>7, EvenValue
<1>9. PICK a \in Int, b \in Int :
              /\ Evaluate(t, y) = a
              /\ Evaluate(g, y) = Mod(a + b)
              /\ Evaluate(g, -y) = Mod(a - b)
  BY <1>4, NegValue
<1>10. PICK u \in Int : u = a + b
  OBVIOUS
<1>11. PICK w \in Int : w = a - b
  OBVIOUS
<1>12. Mod(Mod(u) + Mod(w)) = Mod(u + w)
  BY ModPlus2
<1>13. u + w = 2 * a
  BY <1>10, <1>11
<1> QED BY <1>1, <1>8, <1>9, <1>10, <1>11, <1>12, <1>13

\* 2 is not 0 in a field of more than two elements.
LEMMA HalfUnique ==
    ASSUME p > 2, NEW a \in Field, NEW b \in Int, Mod(2 * a) = Mod(2 * b)
    PROVE  a = Mod(b)
<1>1. 2 \in Int /\ a \in Int
  BY FieldInt
<1>2. 2 \in Field
  BY PrimeSize DEF Field
<1>3. Mod(2) # 0
  BY <1>2, ModOf
<1>4. Mod(a) = Mod(b)
  BY <1>1, <1>3, Cancel
<1> QED BY <1>4, ModOf

\* One squaring of the roots: the values of the transformed pair at y^2.
LEMMA GraeffeValues ==
    ASSUME p > 2, NEW n \in Nat, NEW hs \in Pairs(n), Deg(hs.hbar) = n-1, NEW y \in Int, Mod(y) # 0,
           NEW next, next = update_linear_expansion(hs)
    PROVE  /\ next.h \in Seq(Field) /\ next.hbar \in Seq(Field)
           /\ hs.h \in Seq(Field) /\ hs.hbar \in Seq(Field)
           /\ Evaluate(next.h, y*y) = Mod(Evaluate(hs.h, y) * Evaluate(hs.h, -y))
           /\ Evaluate(next.hbar, y*y) = Mod(Evaluate(hs.h, y) * Evaluate(hs.hbar, -y)
                                               + Evaluate(hs.h, -y) * Evaluate(hs.hbar, y))
<1>1. hs \in [h : Polys, hbar : Polys] /\ Deg(hs.h) <= n
  BY DEF Pairs
<1>2. PICK h \in Polys : h = hs.h
  BY <1>1
<1>3. PICK k \in Polys : k = hs.hbar
  BY <1>1
<1>4. h \in Seq(Field) /\ k \in Seq(Field)
  BY DEF Polys
<1>5. PICK a \in Seq(Field) : a = NextH(h)
  BY <1>1, <1>2, NextTypes DEF Polys
<1>6. PICK b \in Seq(Field) : b = NextHbar(hs)
  BY <1>1, NextTypes DEF Polys
<1>7. PICK d \in Int : d = Deg(h) /\ d >= -1 /\ d <= n /\ Len(h) = d+1
  <2>1. Len(h) \in Nat
    BY <1>4
  <2> QED BY <2>1, <1>1, <1>2 DEF Deg
<1>8. Deg(k) = n-1 /\ n-1 >= -1 /\ n-1 \in Int /\ Len(k) = n
  <2>1. Len(k) \in Nat
    BY <1>4
  <2> QED BY <2>1, <1>3 DEF Deg
<1>9. next = [h |-> EvenCoeffs(a, d), hbar |-> EvenCoeffs(b, n-1)]
  BY <1>2, <1>3, <1>5, <1>6, <1>7, <1>8, UpdateFolded
<1>10. next.h = EvenCoeffs(a, d) /\ next.hbar = EvenCoeffs(b, n-1)
  BY <1>9
<1>11. next.h \in Seq(Field) /\ next.hbar \in Seq(Field)
  BY <1>7, <1>8, <1>10, EvenIs DEF Polys
<1>12. Deg(a) <= 2*d + 1
  <2>1. PICK t0 \in Seq(Field) : t0 = Terms(h, 0) /\ Len(t0) <= d+1
    BY <1>4, <1>7, TermsIs DEF Polys
  <2>2. PICK t1 \in Seq(Field) : t1 = Terms(h, 1) /\ Len(t1) <= d+1
    BY <1>4, <1>7, TermsIs DEF Polys
  <2>3. PICK u \in Seq(Field) : u = Times(t0, t0) /\ Len(u) <= Maximum(0, Len(t0) + Len(t0) - 1)
    BY TimesIs DEF Polys
  <2>4. PICK w \in Seq(Field) : w = Times(t1, t1) /\ Len(w) <= Maximum(0, Len(t1) + Len(t1) - 1)
    BY TimesIs DEF Polys
  <2>5. Len(t0) \in Nat /\ Len(t1) \in Nat /\ Len(u) \in Nat /\ Len(w) \in Nat /\ Len(a) \in Nat
    OBVIOUS
  <2>6. Len(u) <= 2*d + 2 /\ Len(w) <= 2*d + 2
    <3>1. \A l, m \in Nat : l <= d+1 /\ m <= Maximum(0, l + l - 1) => m <= 2*d + 2
      <4> SUFFICES ASSUME NEW l \in Nat, NEW m \in Nat, l <= d+1, m <= Maximum(0, l + l - 1)
                   PROVE  m <= 2*d + 2
        OBVIOUS
      <4>1. CASE l = 0
        BY <4>1, <1>7, SMTT(30) DEF Maximum
      <4>2. CASE l >= 1
        <5>1. m <= l + l - 1
          BY <4>2 DEF Maximum
        <5> QED BY <5>1
      <4> QED BY <4>1, <4>2
    <3> QED BY <3>1, <2>1, <2>2, <2>3, <2>4, <2>5
  <2>7. a = Minus(u, w)
    BY <2>1, <2>2, <2>3, <2>4, <1>5 DEF NextH
  <2>8. Len(a) <= Maximum(Len(u), Len(w))
    BY <2>7, MinusIs
  <2> QED BY <2>5, <2>6, <2>8 DEF Maximum, Deg
<1>13. Deg(b) <= 2*(n-1) + 1
  <2>1. PICK t \in Seq(Field) : t = NegTerms(k) /\ Len(t) <= n
    <3>1. PICK t0 \in Seq(Field) : t0 = Terms(k, 0) /\ Len(t0) <= n
      BY <1>4, <1>8, TermsIs DEF Polys
    <3>2. PICK t1 \in Seq(Field) : t1 = Terms(k, 1) /\ Len(t1) <= n
      BY <1>4, <1>8, TermsIs DEF Polys
    <3>3. NegTerms(k) \in Seq(Field) /\ Len(NegTerms(k)) <= Maximum(Len(t0), Len(t1))
      BY <3>1, <3>2, MinusIs DEF NegTerms, Polys
    <3>4. Len(t0) \in Nat /\ Len(t1) \in Nat /\ Len(NegTerms(k)) \in Nat
      BY <3>3
    <3> QED BY <3>1, <3>2, <3>3, <3>4 DEF Maximum
  <2>2. PICK u \in Seq(Field) : u = Times(h, t) /\ Len(u) <= Maximum(0, Len(h) + Len(t) - 1)
    BY <1>4, TimesIs DEF Polys
  <2>3. Len(t) \in Nat /\ Len(u) \in Nat /\ Len(b) \in Nat
    OBVIOUS
  <2>4. Len(u) <= 2*n
    <3>1. \A l, m, j \in Nat : l <= n+1 /\ m <= n /\ j <= Maximum(0, l + m - 1) => j <= 2*n
      BY DEF Maximum
    <3>2. Len(h) \in Nat /\ Len(h) <= n+1
      BY <1>4, <1>7
    <3> QED BY <3>1, <3>2, <2>1, <2>2, <2>3
  <2>5. b = Scale(2, u)
    BY <2>1, <2>2, <1>2, <1>3, <1>6 DEF NextHbar
  <2>6. Len(b) <= Len(u)
    <3>1. 2 \in Int
      OBVIOUS
    <3> QED BY <3>1, <2>5, ScaleIs
  <2> QED BY <2>3, <2>4, <2>6 DEF Deg
<1>14. PICK z \in Int : z = -y
  OBVIOUS
<1>15. y*y \in Int
  OBVIOUS
<1>16. PICK x \in Int : x = Evaluate(next.h, y*y) /\ x \in Field
  BY <1>11, <1>15, EvalType
<1>17. PICK xb \in Int : xb = Evaluate(next.hbar, y*y) /\ xb \in Field
  BY <1>11, <1>15, EvalType
<1>18. Mod(2 * x) = Mod(Evaluate(a, y) + Evaluate(a, z))
  <2>1. Mod(2 * Evaluate(EvenCoeffs(a, d), y*y)) = Mod(Evaluate(a, y) + Evaluate(a, -y))
    BY <1>7, <1>12, EvenCoeffsValue
  <2> QED BY <2>1, <1>10, <1>14, <1>16
<1>19. Mod(2 * xb) = Mod(Evaluate(b, y) + Evaluate(b, z))
  <2>1. PICK m \in Int : m = n-1
    OBVIOUS
  <2>2. Mod(2 * Evaluate(EvenCoeffs(b, m), y*y)) = Mod(Evaluate(b, y) + Evaluate(b, -y))
    BY <2>1, <1>8, <1>13, EvenCoeffsValue
  <2> QED BY <2>1, <2>2, <1>10, <1>14, <1>17
<1>20. PICK A \in Int : A = Evaluate(h, y) /\ A \in Field
  BY <1>4, EvalType
<1>21. PICK B \in Int : B = Evaluate(h, z) /\ B \in Field
  BY <1>4, EvalType
<1>22. PICK C \in Int : C = Evaluate(k, y) /\ C \in Field
  BY <1>4, EvalType
<1>23. PICK D \in Int : D = Evaluate(k, z) /\ D \in Field
  BY <1>4, EvalType
<1>24. Evaluate(a, y) = Mod(A * B) /\ Evaluate(a, z) = Mod(A * B)
  <2>1. PICK t0 \in Seq(Field) : t0 = Terms(h, 0)
    BY <1>4, TermsIs DEF Polys
  <2>2. PICK t1 \in Seq(Field) : t1 = Terms(h, 1)
    BY <1>4, TermsIs DEF Polys
  <2>3. PICK u \in Int, v \in Int :
              /\ Evaluate(t0, y) = u /\ Evaluate(t1, y) = v
              /\ A = Mod(u + v) /\ B = Mod(u - v)
              /\ Evaluate(t0, z) = u /\ Evaluate(t1, z) = Mod(-v)
    BY <2>1, <2>2, <1>4, <1>14, <1>20, <1>21, NegValue
  <2>4. \A c \in Int : Evaluate(a, c) = Mod(Mod(Evaluate(t0, c) * Evaluate(t0, c))
                                              - Mod(Evaluate(t1, c) * Evaluate(t1, c)))
    <3> SUFFICES ASSUME NEW c \in Int
                 PROVE  Evaluate(a, c) = Mod(Mod(Evaluate(t0, c) * Evaluate(t0, c))
                                              - Mod(Evaluate(t1, c) * Evaluate(t1, c)))
      OBVIOUS
    <3>1. PICK q0 \in Seq(Field) : q0 = Times(t0, t0)
      BY TimesIs DEF Polys
    <3>2. PICK q1 \in Seq(Field) : q1 = Times(t1, t1)
      BY TimesIs DEF Polys
    <3>3. a = Minus(q0, q1)
      BY <3>1, <3>2, <2>1, <2>2, <1>5 DEF NextH
    <3>4. Evaluate(Minus(q0, q1), c) = Mod(Evaluate(q0, c) - Evaluate(q1, c))
      BY EvalMinus
    <3>5. Evaluate(q0, c) = Mod(Evaluate(t0, c) * Evaluate(t0, c))
      BY <3>1, EvalTimes
    <3>6. Evaluate(q1, c) = Mod(Evaluate(t1, c) * Evaluate(t1, c))
      BY <3>2, EvalTimes
    <3> QED BY <3>3, <3>4, <3>5, <3>6
  <2>5. PICK m \in Int : m = Mod(-v) /\ Mod(m) = Mod(-v)
    <3>1. -v \in Int
      OBVIOUS
    <3> QED BY <3>1, ModType
  <2>6. PICK o \in Int : o = -v
    OBVIOUS
  <2>7. Mod(m * m) = Mod(v * v)
    <3>1. Mod(m * m) = Mod(o * o)
      BY <2>5, <2>6, CongTimes
    <3>2. o * o = v * v
      BY <2>6
    <3> QED BY <3>1, <3>2
  <2>8. PICK uu \in Int : uu = u * u
    OBVIOUS
  <2>9. PICK vv \in Int : vv = v * v
    OBVIOUS
  <2>10. Mod(Mod(uu) - Mod(vv)) = Mod(uu - vv)
    <3>1. PICK r \in Int : r = Mod(uu) /\ Mod(r) = Mod(uu)
      BY ModType
    <3>2. PICK s \in Int : s = Mod(vv) /\ Mod(s) = Mod(vv)
      BY ModType
    <3>3. Mod(r - s) = Mod(uu - vv)
      BY <3>1, <3>2, CongMinus
    <3> QED BY <3>1, <3>2, <3>3
  <2>11. Mod(A * B) = Mod(uu - vv)
    <3>1. PICK r \in Int : r = u + v
      OBVIOUS
    <3>2. PICK s \in Int : s = u - v
      OBVIOUS
    <3>3. Mod(A) = Mod(r) /\ Mod(B) = Mod(s)
      BY <3>1, <3>2, <2>3, ModType
    <3>4. Mod(A * B) = Mod(r * s)
      BY <3>3, CongTimes
    <3>5. r * s = uu - vv
      BY <3>1, <3>2, <2>8, <2>9
    <3> QED BY <3>4, <3>5
  <2>12. Evaluate(a, y) = Mod(Mod(uu) - Mod(vv))
    BY <2>3, <2>4, <2>8, <2>9
  <2>13. Evaluate(a, z) = Mod(Mod(uu) - Mod(vv))
    BY <2>3, <2>4, <2>5, <2>7, <2>8, <2>9
  <2> QED BY <2>10, <2>11, <2>12, <2>13
<1>25. Evaluate(b, y) = Mod(2 * Mod(A * D)) /\ Evaluate(b, z) = Mod(2 * Mod(B * C))
  <2>1. PICK t \in Seq(Field) : t = NegTerms(k)
    BY <1>1, <1>3, NextTypes DEF Polys
  <2>2. PICK q \in Seq(Field) : q = Times(h, t)
    BY <1>4, TimesIs DEF Polys
  <2>3. b = Scale(2, q)
    BY <2>1, <2>2, <1>2, <1>3, <1>6 DEF NextHbar
  <2>4. Evaluate(t, y) = D /\ Evaluate(t, z) = C
    BY <2>1, <1>4, <1>14, <1>22, <1>23, NegValue
  <2>5. Evaluate(q, y) = Mod(A * D) /\ Evaluate(q, z) = Mod(B * C)
    <3>1. Evaluate(q, y) = Mod(Evaluate(h, y) * Evaluate(t, y))
      BY <2>2, <1>4, EvalTimes
    <3>2. Evaluate(q, z) = Mod(Evaluate(h, z) * Evaluate(t, z))
      BY <2>2, <1>4, EvalTimes
    <3> QED BY <3>1, <3>2, <2>4, <1>20, <1>21
  <2>6. 2 \in Int
    OBVIOUS
  <2> QED BY <2>3, <2>5, <2>6, EvalScale
<1>26. x = Mod(A * B)
  <2>1. PICK r \in Int : r = A * B
    OBVIOUS
  <2>2. Mod(2 * x) = Mod(2 * r)
    <3>1. Mod(Mod(r) + Mod(r)) = Mod(r + r)
      BY ModPlus2
    <3>2. r + r = 2 * r
      OBVIOUS
    <3> QED BY <3>1, <3>2, <2>1, <1>18, <1>24
  <2> QED BY <2>1, <2>2, <1>16, HalfUnique
<1>27. xb = Mod(A * D + B * C)
  <2>1. PICK r \in Int : r = A * D
    OBVIOUS
  <2>2. PICK s \in Int : s = B * C
    OBVIOUS
  <2>3. PICK u \in Int : u = r + s
    OBVIOUS
  <2>4. Mod(2 * Mod(r)) = Mod(2 * r) /\ Mod(2 * Mod(s)) = Mod(2 * s)
    <3>1. 2 \in Int
      OBVIOUS
    <3> QED BY <3>1, ModTimes
  <2>5. Mod(Mod(2 * r) + Mod(2 * s)) = Mod(2*r + 2*s)
    BY ModPlus2
  <2>6. 2*r + 2*s = 2 * u
    BY <2>3
  <2>7. Mod(2 * xb) = Mod(2 * u)
    BY <2>1, <2>2, <2>4, <2>5, <2>6, <1>19, <1>25
  <2> QED BY <2>1, <2>2, <2>3, <2>7, <1>17, HalfUnique
<1> QED BY <1>2, <1>3, <1>4, <1>11, <1>14, <1>16, <1>17, <1>20, <1>21, <1>22, <1>23, <1>26, <1>27

-----------------------------------------------------------------------------
(***************************************************************************)
(* One squaring of the roots, at a root.                                   *)
(***************************************************************************)
\* Two polynomials with the same values at more points than their degrees.
LEMMA SameValuesOn ==
    ASSUME NEW f1 \in Polys, NEW f2 \in Polys, NEW T \in SUBSET Field,
           Deg(f1) < Cardinality(T), Deg(f2) < Cardinality(T),
           \A x \in T : Evaluate(f1, x) = Evaluate(f2, x)
    PROVE  f1 = f2
<1>1. f1 \in Seq(Field) /\ f2 \in Seq(Field) /\ Len(f1) \in Nat /\ Len(f2) \in Nat
  BY DEF Polys
<1>2. PICK e : e = Minus(f1, f2)
  OBVIOUS
<1>3. e \in Polys /\ Len(e) <= Maximum(Len(f1), Len(f2))
  BY <1>1, <1>2, MinusIs
<1>4. Len(e) \in Nat /\ (Len(e) <= Len(f1) \/ Len(e) <= Len(f2))
  BY <1>3, <1>1 DEF Maximum, Polys
<1>5. PICK c \in Nat : c = Cardinality(T)
  BY FieldFinite, FS_CardinalityType
<1>6. Deg(e) < c
  BY <1>1, <1>4, <1>5 DEF Deg
<1>7. ASSUME NEW x \in T PROVE Evaluate(e, x) = 0
  <2>1. x \in Int
    BY FieldInt
  <2>2. PICK u \in Int : u = Evaluate(f1, x) /\ u = Evaluate(f2, x)
    BY <2>1, <1>1, EvalType
  <2>3. Evaluate(e, x) = Mod(u - u)
    BY <1>1, <1>2, <2>1, <2>2, EvalMinus
  <2>4. u - u = 0
    OBVIOUS
  <2> QED BY <2>3, <2>4, ModSmall
<1>8. c > Deg(e)
  <2>1. Deg(e) \in Int
    BY <1>4 DEF Deg
  <2> QED BY <2>1, <1>6
<1>9. e = <<>>
  BY <1>3, <1>5, <1>7, <1>8, ManyRoots
<1> QED BY <1>2, <1>9, MinusZero

\* The field without two of its elements.
LEMMA WithoutTwo ==
    ASSUME NEW a \in Field, NEW T, T = (1 .. p-1) \ {a}
    PROVE  T \in SUBSET Field /\ Cardinality(T) \in Nat /\ Cardinality(T) >= p-2
<1>1. T \in SUBSET Field
  BY DEF Field
<1>2. IsFiniteSet(1 .. p-1) /\ Cardinality(1 .. p-1) = p-1
  <2>1. 1 \in Int /\ p-1 \in Int /\ ~ (1 > p-1) /\ p-1 - 1 + 1 = p-1
    BY PrimeSize
  <2> QED BY <2>1, FS_Interval
<1>3. Cardinality(T) = IF a \in 1 .. p-1 THEN p-1 - 1 ELSE p-1
  BY <1>2, FS_RemoveElement
<1>4. Cardinality(T) \in Nat
  BY <1>1, FieldFinite, FS_CardinalityType
<1> QED BY <1>1, <1>3, <1>4, PrimeSize

\* RootFactor, also for the polynomial 0.
LEMMA AnyRootFactor ==
    ASSUME NEW h \in Polys, Deg(h) < p, NEW v \in Field, Evaluate(h, v) = 0
    PROVE  \E q \in Polys : /\ Len(q) <= Maximum(0, Len(h) - 1)
                            /\ \A y \in Int : Evaluate(h, y) = Mod((y - v) * Evaluate(q, y))
                            /\ Evaluate(Derivative(h), v) = Evaluate(q, v)
<1>1. CASE h # <<>>
  <2>1. PICK q \in Polys : /\ Deg(q) < Deg(h)
                            /\ \A y \in Int : Evaluate(h, y) = Mod((y - v) * Evaluate(q, y))
                            /\ Evaluate(Derivative(h), v) = Evaluate(q, v)
    BY <1>1, RootFactor
  <2>2. Len(q) \in Nat /\ Len(h) \in Nat
    BY DEF Polys
  <2>3. Len(q) <= Maximum(0, Len(h) - 1)
    BY <2>1, <2>2 DEF Maximum, Deg
  <2> QED BY <2>1, <2>3
<1>2. CASE h = <<>>
  <2>1. /\ <<>> \in Polys /\ Len(<<>>) <= Maximum(0, Len(h) - 1)
    BY <1>2, ZeroPoly DEF Maximum
  <2>2. \A y \in Int : Evaluate(h, y) = Mod((y - v) * Evaluate(<<>>, y))
    <3> SUFFICES ASSUME NEW y \in Int PROVE Evaluate(h, y) = Mod((y - v) * Evaluate(<<>>, y))
      OBVIOUS
    <3>1. (y - v) * 0 = 0
      BY FieldInt
    <3> QED BY <3>1, <1>2, EvalZero, ModSmall
  <2>3. Derivative(h) = <<>>
    <3>1. Len(<<>>) = 0
      OBVIOUS
    <3>2. Deg(h) = -1
      BY <1>2, <3>1 DEF Deg
    <3>3. Deg(h) - 1 = -2
      BY <3>2
    <3> QED BY <3>3, PolyNone DEF Derivative
  <2> QED BY <2>1, <2>2, <2>3, <1>2
<1> QED BY <1>1, <1>2

\* The polynomial e(x^2).
LEMMA SquareArgument ==
    ASSUME NEW e \in Polys
    PROVE  \E s \in Polys : /\ Len(s) <= Maximum(0, 2 * Len(e) - 1)
                            /\ \A y \in Int : Evaluate(s, y) = Evaluate(e, y*y)
<1>1. e \in Seq(Field) /\ Len(e) \in Nat
  BY DEF Polys
<1>2. PICK d \in Int : d = Maximum(0, 2 * Len(e) - 1) - 1 /\ d >= -1
                       /\ (Len(e) >= 1 => d = 2 * Len(e) - 2)
  BY <1>1 DEF Maximum
<1>3. PICK v : v = [i \in 0 .. d |-> IF i % 2 = 0 THEN Coeff(e, i \div 2) ELSE 0]
  OBVIOUS
<1>4. \A i \in 0 .. d : v[i] \in Field
  <2> SUFFICES ASSUME NEW i \in 0 .. d PROVE v[i] \in Field
    OBVIOUS
  <2>1. i \div 2 \in Int
    OBVIOUS
  <2>2. Coeff(e, i \div 2) \in Field
    BY <2>1, <1>1, CoeffInt
  <2> QED BY <2>2, <1>3, ModSmall
<1>5. PICK s : s = Poly(v, d)
  OBVIOUS
<1>6. s \in Polys /\ Len(s) <= d+1 /\ \A i \in Nat : Coeff(s, i) = IF i <= d THEN v[i] ELSE 0
  BY <1>2, <1>4, <1>5, PolyIs
<1>7. \A i \in Nat : Coeff(s, 2*i) = Coeff(e, i) /\ Coeff(s, 2*i + 1) = 0
  <2> SUFFICES ASSUME NEW i \in Nat PROVE Coeff(s, 2*i) = Coeff(e, i) /\ Coeff(s, 2*i + 1) = 0
    OBVIOUS
  <2>1. PICK j \in Nat : j = 2*i /\ j % 2 = 0 /\ j \div 2 = i
    BY EvenOrOdd
  <2>2. PICK k \in Nat : k = 2*i + 1 /\ k % 2 = 1
    BY EvenOrOdd
  <2>3. Coeff(s, k) = 0
    <3>1. CASE k <= d
      <4>1. k \in 0 .. d
        BY <3>1
      <4>2. v[k] = 0
        <5>1. k % 2 # 0
          BY <2>2
        <5> QED BY <4>1, <5>1, <1>3, Zenon
      <4> QED BY <4>2, <3>1, <1>6
    <3>2. CASE ~ (k <= d)
      BY <3>2, <1>6
    <3> QED BY <3>1, <3>2
  <2>4. Coeff(s, j) = Coeff(e, i)
    <3>1. CASE j <= d
      <4>1. j \in 0 .. d
        BY <3>1
      <4>2. v[j] = Coeff(e, i)
        BY <4>1, <2>1, <1>3, Zenon
      <4> QED BY <4>2, <3>1, <1>6
    <3>2. CASE ~ (j <= d)
      <4>1. i >= Len(e)
        BY <3>2, <2>1, <1>1, <1>2
      <4>2. Coeff(e, i) = 0
        BY <4>1, <1>1, CoeffType
      <4> QED BY <4>2, <3>2, <1>6
    <3> QED BY <3>1, <3>2
  <2> QED BY <2>1, <2>2, <2>3, <2>4
<1>8. s \in Seq(Field)
  BY <1>6 DEF Polys
<1>9. \A y \in Int : Evaluate(s, y) = Evaluate(e, y*y)
  BY <1>1, <1>7, <1>8, EvenValue
<1>10. Len(s) <= Maximum(0, 2 * Len(e) - 1)
  BY <1>2, <1>6, <1>1 DEF Maximum
<1> QED BY <1>6, <1>9, <1>10

\* One squaring at a root v of h: v^2 is a root of the next h, and so is the
\* square of -v.
THEOREM GraeffeAtRoot ==
    ASSUME NEW n \in Nat, 2*n < p-2, NEW hs \in Pairs(n), Deg(hs.hbar) = n-1,
           NEW v \in 1 .. p-1, Evaluate(hs.h, v) = 0,
           NEW next, next = update_linear_expansion(hs)
    PROVE  /\ Evaluate(next.h, v*v) = 0
           /\ Evaluate(next.hbar, v*v) = Mod(Evaluate(hs.h, -v) * Evaluate(hs.hbar, v))
           /\ Mod((2*v) * Evaluate(Derivative(next.h), Mod(v*v)))
                = Mod(Evaluate(Derivative(hs.h), v) * Evaluate(hs.h, -v))
<1>1. v \in Field /\ v \in Int /\ p > 2 /\ Mod(v) # 0
  <2>1. v \in Field /\ v # 0
    BY DEF Field
  <2>2. p > 2
    BY PrimeSize
  <2> QED BY <2>1, <2>2, FieldInt, ModOf
<1>2. PICK w \in Field : w = Mod(v*v)
  <2>1. v*v \in Int
    BY <1>1
  <2> QED BY <2>1, ModType
<1>3. next \in Pairs(n)
  BY UpdateIs
<1>4. PICK h \in Polys : h = hs.h /\ Len(h) <= n+1
  <2>1. hs.h \in Polys /\ Deg(hs.h) <= n
    BY DEF Pairs
  <2>2. Len(hs.h) \in Nat
    BY <2>1 DEF Polys
  <2> QED BY <2>1, <2>2 DEF Deg
<1>5. PICK g \in Polys : g = next.h /\ Len(g) <= n+1
  <2>1. next.h \in Polys /\ Deg(next.h) <= n
    BY <1>3 DEF Pairs
  <2>2. Len(next.h) \in Nat
    BY <2>1 DEF Polys
  <2> QED BY <2>1, <2>2 DEF Deg
<1>6. h \in Seq(Field) /\ g \in Seq(Field) /\ Len(h) \in Nat /\ Len(g) \in Nat
  BY DEF Polys
<1>7. \A y \in Int : Mod(y) # 0 => Evaluate(g, y*y) = Mod(Evaluate(h, y) * Evaluate(h, -y))
  BY <1>1, <1>4, <1>5, GraeffeValues
<1>8. PICK m \in Polys : m = NegTerms(h) /\ Len(m) <= n+1
  <2>1. PICK t0 \in Seq(Field) : t0 = Terms(h, 0) /\ Len(t0) <= Len(h)
    BY <1>6, TermsIs DEF Polys
  <2>2. PICK t1 \in Seq(Field) : t1 = Terms(h, 1) /\ Len(t1) <= Len(h)
    BY <1>6, TermsIs DEF Polys
  <2>3. NegTerms(h) \in Polys /\ Len(NegTerms(h)) <= Maximum(Len(t0), Len(t1))
    BY <2>1, <2>2, MinusIs DEF NegTerms
  <2>4. Len(t0) \in Nat /\ Len(t1) \in Nat /\ Len(NegTerms(h)) \in Nat
    BY <2>3 DEF Polys
  <2>5. \A k, l, r \in Nat : k <= n+1 /\ l <= n+1 /\ r <= Maximum(k, l) => r <= n+1
    BY DEF Maximum
  <2>6. Len(t0) <= n+1 /\ Len(t1) <= n+1
    BY <2>1, <2>2, <2>4, <1>4, <1>6
  <2> QED BY <2>3, <2>4, <2>5, <2>6
<1>9. m \in Seq(Field) /\ Len(m) \in Nat
  BY DEF Polys
<1>10. \A y \in Int : Mod(y) # 0 => Evaluate(m, y) = Evaluate(h, -y)
  BY <1>6, <1>8, NegValue
<1>11. PICK B \in Int : B = Evaluate(h, -v) /\ B = Evaluate(m, v)
  BY <1>1, <1>9, <1>10, EvalType
<1>12. PICK C \in Int : C = Evaluate(hs.hbar, v)
  BY <1>1, GraeffeValues, EvalType
<1>13. PICK D \in Int : D = Evaluate(hs.hbar, -v)
  <2>1. -v \in Int
    BY <1>1
  <2> QED BY <2>1, <1>1, GraeffeValues, EvalType
<1>14. Evaluate(g, v*v) = 0
  <2>1. Evaluate(g, v*v) = Mod(0 * B)
    BY <1>1, <1>4, <1>7, <1>11
  <2>2. 0 * B = 0
    OBVIOUS
  <2> QED BY <2>1, <2>2, ModSmall
<1>15. Evaluate(next.hbar, v*v) = Mod(B * C)
  <2>1. Evaluate(next.hbar, v*v) = Mod(Evaluate(hs.h, v) * Evaluate(hs.hbar, -v)
                                               + Evaluate(hs.h, -v) * Evaluate(hs.hbar, v))
    BY <1>1, GraeffeValues
  <2>2. Evaluate(next.hbar, v*v) = Mod(0 * D + B * C)
    BY <2>1, <1>4, <1>11, <1>12, <1>13
  <2>3. 0 * D + B * C = B * C
    OBVIOUS
  <2> QED BY <2>2, <2>3
<1>16. Evaluate(g, w) = 0
  <2>1. v*v \in Int /\ w \in Int /\ Mod(w) = Mod(v*v)
    BY <1>1, <1>2, ModType
  <2> QED BY <2>1, <1>6, <1>14, EvalCong
<1>17. Deg(h) < p /\ Deg(g) < p
  BY <1>4, <1>5, <1>6, PrimeSize DEF Deg
<1>18. PICK q1 \in Polys : /\ Len(q1) <= n
                           /\ \A y \in Int : Evaluate(h, y) = Mod((y - v) * Evaluate(q1, y))
                           /\ Evaluate(Derivative(h), v) = Evaluate(q1, v)
  <2>1. PICK q \in Polys : /\ Len(q) <= Maximum(0, Len(h) - 1)
                           /\ \A y \in Int : Evaluate(h, y) = Mod((y - v) * Evaluate(q, y))
                           /\ Evaluate(Derivative(h), v) = Evaluate(q, v)
    BY <1>1, <1>4, <1>17, AnyRootFactor
  <2>2. Len(q) \in Nat
    BY DEF Polys
  <2>3. Len(q) <= n
    <3>1. \A k, l \in Nat : k <= Maximum(0, l - 1) /\ l <= n+1 => k <= n
      BY DEF Maximum
    <3> QED BY <3>1, <2>1, <2>2, <1>4, <1>6
  <2> QED BY <2>1, <2>3
<1>19. PICK q2 \in Polys : /\ Len(q2) <= n
                           /\ \A y \in Int : Evaluate(g, y) = Mod((y - w) * Evaluate(q2, y))
                           /\ Evaluate(Derivative(g), w) = Evaluate(q2, w)
  <2>1. PICK q \in Polys : /\ Len(q) <= Maximum(0, Len(g) - 1)
                           /\ \A y \in Int : Evaluate(g, y) = Mod((y - w) * Evaluate(q, y))
                           /\ Evaluate(Derivative(g), w) = Evaluate(q, w)
    BY <1>16, <1>17, AnyRootFactor
  <2>2. Len(q) \in Nat
    BY DEF Polys
  <2>3. Len(q) <= n
    BY <2>1, <2>2, <1>5, <1>6 DEF Maximum
  <2> QED BY <2>1, <2>3
<1>20. q1 \in Seq(Field) /\ q2 \in Seq(Field) /\ Len(q1) \in Nat /\ Len(q2) \in Nat
  BY DEF Polys
<1>21. PICK s \in Polys : /\ Len(s) <= Maximum(0, 2 * Len(q2) - 1)
                          /\ \A y \in Int : Evaluate(s, y) = Evaluate(q2, y*y)
  BY SquareArgument
<1>22. PICK a \in Field : a = Mod(-v)
  <2>1. -v \in Int
    BY <1>1
  <2> QED BY <2>1, ModType
<1>23. PICK b : b = << (p - a) % p, 1 >>
  OBVIOUS
<1>24. b \in Polys /\ Deg(b) = 1 /\ \A y \in Int : Evaluate(b, y) = Mod(y - a)
  BY <1>23, FactorIs
<1>25. s \in Seq(Field) /\ b \in Seq(Field) /\ Len(s) \in Nat /\ Len(b) = 2
  <2>1. Len(b) \in Nat
    BY <1>24 DEF Polys
  <2> QED BY <2>1, <1>24 DEF Polys, Deg
<1>26. PICK U \in Polys : U = Times(b, s) /\ Deg(U) <= 2*n
  <2>1. Times(b, s) \in Polys /\ Len(Times(b, s)) <= Maximum(0, Len(b) + Len(s) - 1)
    BY <1>25, TimesIs
  <2>2. Len(Times(b, s)) \in Nat
    BY <2>1 DEF Polys
  <2>3. \A l, k, r \in Nat : l <= n /\ k <= Maximum(0, 2 * l - 1) /\ r <= Maximum(0, 2 + k - 1) => r - 1 <= 2*n
    BY DEF Maximum
  <2>4. Len(Times(b, s)) - 1 <= 2*n
    BY <2>1, <2>2, <2>3, <1>19, <1>20, <1>21, <1>25
  <2> QED BY <2>1, <2>4 DEF Deg
<1>27. PICK W \in Polys : W = Times(q1, m) /\ Deg(W) <= 2*n
  <2>1. Times(q1, m) \in Polys /\ Len(Times(q1, m)) <= Maximum(0, Len(q1) + Len(m) - 1)
    BY <1>9, <1>20, TimesIs
  <2>2. Len(Times(q1, m)) \in Nat
    BY <2>1 DEF Polys
  <2>3. \A l, k, r \in Nat : l <= n /\ k <= n+1 /\ r <= Maximum(0, l + k - 1) => r - 1 <= 2*n
    BY DEF Maximum
  <2>4. Len(Times(q1, m)) - 1 <= 2*n
    BY <2>1, <2>2, <2>3, <1>8, <1>9, <1>18, <1>20
  <2> QED BY <2>1, <2>4 DEF Deg
<1>28. \A y \in Int : /\ Evaluate(q1, y) \in Int /\ Evaluate(q2, y*y) \in Int /\ Evaluate(m, y) \in Int
                      /\ Evaluate(U, y) \in Field /\ Evaluate(W, y) \in Field
                      /\ Evaluate(U, y) = Mod((y + v) * Evaluate(q2, y*y))
                      /\ Evaluate(W, y) = Mod(Evaluate(q1, y) * Evaluate(m, y))
  <2> SUFFICES ASSUME NEW y \in Int
               PROVE  /\ Evaluate(q1, y) \in Int /\ Evaluate(q2, y*y) \in Int /\ Evaluate(m, y) \in Int
                      /\ Evaluate(U, y) \in Field /\ Evaluate(W, y) \in Field
                      /\ Evaluate(U, y) = Mod((y + v) * Evaluate(q2, y*y))
                      /\ Evaluate(W, y) = Mod(Evaluate(q1, y) * Evaluate(m, y))
    OBVIOUS
  <2>1. y*y \in Int
    OBVIOUS
  <2>2. Evaluate(q1, y) \in Int /\ Evaluate(m, y) \in Int
    BY <1>9, <1>20, EvalType
  <2>3. PICK x \in Int : x = Evaluate(q2, y*y) /\ x = Evaluate(s, y)
    BY <2>1, <1>20, <1>21, EvalType
  <2>4. Evaluate(W, y) = Mod(Evaluate(q1, y) * Evaluate(m, y))
    BY <1>9, <1>20, <1>27, EvalTimes
  <2>5. Evaluate(U, y) = Mod(Mod(y - a) * x)
    BY <2>3, <1>24, <1>25, <1>26, EvalTimes
  <2>6. PICK o \in Int : o = -v
    BY <1>1
  <2>7. Mod(y - a) = Mod(y - o)
    <3>1. PICK c \in Int : c = a /\ Mod(c) = Mod(o)
      BY <2>6, <1>22, FieldInt, ModType
    <3>2. SameDifference(y, c, o)
      BY <3>1, SameRight
    <3> QED BY <3>1, <3>2 DEF SameDifference
  <2>8. PICK r \in Int : r = y + v /\ r = y - o
    BY <2>6, <1>1
  <2>9. Mod(Mod(r) * x) = Mod(r * x)
    <3>1. Mod(x * Mod(r)) = Mod(x * r)
      BY ModTimes
    <3>2. x * Mod(r) = Mod(r) * x /\ x * r = r * x
      BY ModType
    <3> QED BY <3>1, <3>2
  <2>10. Evaluate(U, y) = Mod(r * x)
    BY <2>5, <2>7, <2>8, <2>9
  <2>11. Evaluate(U, y) \in Field /\ Evaluate(W, y) \in Field
    BY EvalType DEF Polys
  <2> QED BY <2>1, <2>2, <2>3, <2>4, <2>8, <2>10, <2>11
<1> DEFINE T == (1 .. p-1) \ {v}
<1>29. T \in SUBSET Field /\ Cardinality(T) \in Nat /\ Cardinality(T) >= p-2
  BY <1>1, WithoutTwo
<1>30. \A y \in T : Evaluate(U, y) = Evaluate(W, y)
  <2> SUFFICES ASSUME NEW y \in T PROVE Evaluate(U, y) = Evaluate(W, y)
    OBVIOUS
  <2>1. y \in Field /\ y \in Int /\ y # 0 /\ y # v /\ Mod(y) # 0
    <3>1. y \in Field /\ y # 0
      BY <1>29
    <3> QED BY <3>1, FieldInt, ModOf
  <2>2. PICK x1 \in Int : x1 = Evaluate(q1, y)
    BY <2>1, <1>28
  <2>3. PICK x2 \in Int : x2 = Evaluate(q2, y*y)
    BY <2>1, <1>28
  <2>4. PICK x3 \in Int : x3 = Evaluate(m, y) /\ x3 = Evaluate(h, -y)
    BY <2>1, <1>10, <1>28
  <2>5. PICK r \in Int : r = (y + v) * x2
    BY <2>1, <1>1
  <2>6. PICK t \in Int : t = x1 * x3
    OBVIOUS
  <2>7. PICK d \in Int : d = y - v
    BY <2>1, <1>1
  <2>8. Evaluate(U, y) = Mod(r) /\ Evaluate(W, y) = Mod(t)
    <3>1. Evaluate(U, y) = Mod((y + v) * Evaluate(q2, y*y))
      BY <2>1, <1>28
    <3>2. Evaluate(W, y) = Mod(Evaluate(q1, y) * Evaluate(m, y))
      BY <2>1, <1>28
    <3> QED BY <3>1, <3>2, <2>2, <2>3, <2>4, <2>5, <2>6
  <2>9. Evaluate(g, y*y) = Mod(d * t)
    <3>1. Evaluate(g, y*y) = Mod(Mod(d * x1) * x3)
      BY <2>1, <2>2, <2>4, <2>7, <1>7, <1>18
    <3>2. PICK z \in Int : z = d * x1
      OBVIOUS
    <3>3. Mod(x3 * Mod(z)) = Mod(x3 * z)
      BY ModTimes
    <3>4. x3 * Mod(z) = Mod(z) * x3 /\ x3 * z = d * t
      BY <3>2, <2>6, ModType
    <3> QED BY <3>1, <3>2, <3>3, <3>4
  <2>10. Evaluate(g, y*y) = Mod(d * r)
    <3>1. y*y \in Int /\ v*v \in Int /\ w \in Int
      BY <2>1, <1>1, FieldInt
    <3>2. Evaluate(g, y*y) = Mod((y*y - w) * x2)
      BY <2>3, <3>1, <1>19
    <3>3. PICK k \in Int : k = y*y
      BY <3>1
    <3>4. PICK l \in Int : l = v*v
      BY <3>1
    <3>5. Mod(k - w) = Mod(k - l)
      <4>1. PICK c \in Int : c = w /\ Mod(c) = Mod(l)
        BY <3>1, <3>4, <1>2, ModType
      <4>2. SameDifference(k, c, l)
        BY <4>1, SameRight
      <4> QED BY <4>1, <4>2 DEF SameDifference
    <3>6. PICK u1 \in Int : u1 = k - w
      BY <3>1
    <3>7. PICK u2 \in Int : u2 = k - l
      OBVIOUS
    <3>8. Mod(u1 * x2) = Mod(u2 * x2)
      <4>1. Mod(u1) = Mod(u2)
        BY <3>5, <3>6, <3>7
      <4> QED BY <4>1, TimesLeft
    <3>9. u2 * x2 = d * r
      <4>1. u2 = d * (y + v)
        BY <3>3, <3>4, <3>7, <2>1, <2>7, <1>1
      <4>2. PICK e \in Int : e = y + v
        BY <2>1, <1>1
      <4>3. (d * e) * x2 = d * (e * x2)
        OBVIOUS
      <4> QED BY <4>1, <4>2, <4>3, <2>5
    <3> QED BY <3>2, <3>3, <3>6, <3>8, <3>9
  <2>11. Mod(d) # 0
    <3>1. ASSUME Mod(d) = 0 PROVE FALSE
      BY <3>1, <2>1, <2>7, <1>1, DifferentMod
    <3> QED BY <3>1
  <2>12. Mod(r) = Mod(t)
    BY <2>9, <2>10, <2>11, Cancel
  <2> QED BY <2>8, <2>12
<1> HIDE DEF T
<1>31. U = W
  <2>1. Deg(U) < Cardinality(T) /\ Deg(W) < Cardinality(T)
    <3>1. Deg(U) \in Int /\ Deg(W) \in Int
      BY DEF Polys, Deg
    <3> QED BY <3>1, <1>26, <1>27, <1>29, PrimeSize
  <2> QED BY <2>1, <1>29, <1>30, SameValuesOn
<1>32. Mod((v + v) * Evaluate(q2, v*v)) = Mod(Evaluate(q1, v) * B)
  BY <1>1, <1>11, <1>28, <1>31
<1>33. Evaluate(q2, v*v) = Evaluate(q2, w)
  <2>1. v*v \in Int /\ w \in Int /\ Mod(w) = Mod(v*v)
    BY <1>1, <1>2, ModType
  <2> QED BY <2>1, <1>20, EvalCong
<1>34. v + v = 2*v
  BY <1>1
<1> QED BY <1>2, <1>4, <1>5, <1>11, <1>12, <1>14, <1>15, <1>18, <1>19, <1>32, <1>33, <1>34

=============================================================================

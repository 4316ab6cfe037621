--------------------------- MODULE Opening_proofs ---------------------------
(***************************************************************************)
(* Gao's decoder is right for every prime, every number of servers and     *)
(* every degree, and so is what a server opens with it.                    *)
(*                                                                         *)
(* The proof of the decoder compares values, never coefficients: the       *)
(* partial GCD keeps b(x) = t1(x) * share(x) at each server's x, with      *)
(* deg(t1) = n - deg(a), and a polynomial with more roots than its degree  *)
(* is 0 (ManyRoots).                                                       *)
(***************************************************************************)
EXTENDS OpeningInv, Polynomials_proofs

\* What the assumption gives on n and t: 4t + 1 servers, at least.
LEMMA Sizes ==
    /\ n \in Nat /\ n >= 1 /\ n < p
    /\ t \in Nat /\ 4*t + 1 <= n
    /\ Blocks \in Nat /\ Blocks >= 1
    /\ \A f \in Sharings : f \in Polys /\ Deg(f) <= 2*t
    /\ \A F \in FaultySets : F \in SUBSET Servers
    /\ Answers \subseteq Field
<1>1. n \in Nat /\ n >= 1 /\ n < p
  BY OpeningAssumption, PrimeSize
<1>2. t \in Nat /\ 4*t + 1 <= n
  <2>1. n = 4 * (n \div 4) + (n % 4) /\ (n % 4) \in 0 .. 3 /\ n \div 4 \in Int
    BY <1>1
  <2>2. CASE n % 4 # 0
    <3>1. t = n \div 4
      BY <2>2, OpeningAssumption
    <3> QED BY <3>1, <2>1, <2>2, <1>1
  <2>3. CASE n % 4 = 0
    <3>1. t = (n - 1) \div 4
      BY <2>3, OpeningAssumption
    <3> QED BY <3>1, <2>1, <2>3, <1>1
  <2> QED BY <2>2, <2>3
<1> QED BY <1>1, <1>2, OpeningAssumption

\* The servers as places of the field, and as many as there are.
LEMMA ServersIn ==
    /\ Servers \in SUBSET Field /\ IsFiniteSet(Servers) /\ Cardinality(Servers) = n
    /\ \A x \in Servers : x \in Int /\ x \in Field
    /\ \A T \in SUBSET Servers : /\ IsFiniteSet(T) /\ Cardinality(T) \in Nat
                                 /\ Cardinality(Servers \ T) = n - Cardinality(T)
                                 /\ T \in SUBSET Field
<1>1. n \in Nat /\ n >= 1 /\ n < p
  BY Sizes
<1>2. Servers \in SUBSET Field
  BY <1>1, PrimeSize DEF Servers, Field
<1>3. IsFiniteSet(Servers) /\ Cardinality(Servers) = n
  <2>1. 1 \in Int /\ n \in Int /\ n - 1 + 1 = n /\ ~ (1 > n)
    BY <1>1
  <2> QED BY <2>1, FS_Interval DEF Servers
<1>4. ASSUME NEW T \in SUBSET Servers
      PROVE  /\ IsFiniteSet(T) /\ Cardinality(T) \in Nat
             /\ Cardinality(Servers \ T) = n - Cardinality(T)
             /\ T \in SUBSET Field
  <2>1. IsFiniteSet(T) /\ Cardinality(T) \in Nat
    BY <1>3, FS_Subset, FS_CardinalityType
  <2>2. Cardinality(Servers \ T) = Cardinality(Servers) - Cardinality(Servers \cap T)
    BY <1>3, FS_Difference
  <2>3. Servers \cap T = T
    OBVIOUS
  <2> QED BY <1>2, <1>3, <2>1, <2>2, <2>3
<1> QED BY <1>2, <1>3, <1>4, FieldInt

\* WrongAt gives a set of servers.
LEMMA WrongAtType ==
    ASSUME NEW q, NEW ys
    PROVE  /\ WrongAt(q, ys) \in SUBSET Servers /\ IsFiniteSet(WrongAt(q, ys))
           /\ Cardinality(WrongAt(q, ys)) \in Nat
           /\ \A x \in Servers : x \notin WrongAt(q, ys) <=> Evaluate(q, x) = ys[x]
<1>1. PICK W : W = WrongAt(q, ys)
  OBVIOUS
<1>2. W \in SUBSET Servers /\ \A x \in Servers : x \notin W <=> Evaluate(q, x) = ys[x]
  BY <1>1 DEF WrongAt
<1>3. IsFiniteSet(W) /\ Cardinality(W) \in Nat
  BY <1>2, ServersIn
<1> QED BY <1>1, <1>2, <1>3

-----------------------------------------------------------------------------
(***************************************************************************)
(* The partial GCD.                                                        *)
(***************************************************************************)
\* A word of shares.
Words == [Servers -> Field]

\* The servers' places and shares are points that Interpolate takes.
LEMMA PointsAre ==
    ASSUME NEW ys \in Words
    PROVE  ArePoints(xvals, ys) /\ Len(xvals) = n /\ \A x \in Servers : xvals[x] = x
<1>1. n \in Nat /\ Servers = 1 .. n
  BY Sizes DEF Servers
<1>2. PICK xs : xs = xvals
  OBVIOUS
<1>3. xs = [x \in 1 .. n |-> x]
  BY <1>1, <1>2 DEF xvals
<1>4. \A x \in 1 .. n : xs[x] = x /\ xs[x] \in Field
  BY <1>1, <1>3, ServersIn
<1>5. Len(xs) = n
  <2>1. xs \in Seq(Field)
    BY <1>1, <1>3, <1>4
  <2> QED BY <2>1, <1>1, <1>3
<1>6. \A x \in 1 .. n : ys[x] \in Field
  BY <1>1 DEF Words
<1> QED BY <1>1, <1>2, <1>4, <1>5, <1>6 DEF ArePoints

\* The polynomial whose roots are the x values.
LEMMA G0Is ==
    /\ g0 \in Polys /\ g0 # <<>> /\ Deg(g0) = n
    /\ \A x \in Servers : Evaluate(g0, x) = 0
<1>1. PICK ys \in Words : TRUE
  <2>1. [x \in Servers |-> 0] \in Words
    BY ModSmall DEF Words
  <2> QED BY <2>1
<1>2. /\ Len(xvals) = n /\ n \in Nat
      /\ \A x \in Servers : xvals[x] = x
  BY <1>1, PointsAre, Sizes
<1>3. \A x \in 1 .. Len(xvals) : xvals[x] \in Field
  BY <1>2, ServersIn DEF Servers
<1>4. /\ FromRoots(xvals) \in Polys /\ FromRoots(xvals) # <<>> /\ Deg(FromRoots(xvals)) = Len(xvals)
      /\ \A y \in Field : Evaluate(FromRoots(xvals), y) = 0 <=> \E x \in 1 .. Len(xvals) : y = xvals[x]
  BY <1>2, <1>3, FromRootsIs
<1>5. ASSUME NEW x \in Servers PROVE Evaluate(FromRoots(xvals), x) = 0
  <2>1. x \in Field /\ x \in 1 .. Len(xvals) /\ x = xvals[x]
    BY <1>2, ServersIn DEF Servers
  <2> QED BY <2>1, <1>4
<1> QED BY <1>2, <1>4, <1>5 DEF g0

\* The rows of the Euclidean scheme of step 2.
Rows == [a : Polys, b : Polys, t0 : Polys, t1 : Polys]

\* One round of its loop.
GcdStep(s, d) ==
    IF BelowTarget(s.b, d) THEN s
    ELSE [a |-> s.b, b |-> DivRem(s.a, s.b).r, t0 |-> s.t1,
          t1 |-> Minus(s.t0, Times(DivRem(s.a, s.b).q, s.t1))]

\* g is the table that PartialGcd computes.
IsGcd(g, g1, d) ==
    g = [k \in Nat |-> IF k = 0 THEN [a |-> g0, b |-> g1, t0 |-> <<>>, t1 |-> <<1>>]
                       ELSE GcdStep(g[k-1], d)]

\* The zero polynomial is below every target.
LEMMA ZeroBelow == ASSUME NEW d \in Nat PROVE BelowTarget(<<>>, d)
BY ZeroPoly, Sizes DEF BelowTarget

\* PartialGcd has a table.
LEMMA GcdExists ==
    ASSUME NEW g1 \in Polys, NEW d \in Nat
    PROVE  \E g : IsGcd(g, g1, d)
<1> DEFINE next == [s \in Rows |-> GcdStep(s, d)]
<1>1. ASSUME NEW s \in Rows PROVE GcdStep(s, d) \in Rows
  <2>1. s.a \in Polys /\ s.b \in Polys /\ s.t0 \in Polys /\ s.t1 \in Polys
    BY DEF Rows
  <2>2. CASE BelowTarget(s.b, d)
    BY <2>2 DEF GcdStep
  <2>3. CASE ~ BelowTarget(s.b, d)
    <3>1. s.b # <<>>
      BY <2>3, ZeroBelow
    <3>2. PICK e : e = DivRem(s.a, s.b)
      OBVIOUS
    <3>3. e.q \in Polys /\ e.r \in Polys
      BY <2>1, <3>1, <3>2, DivRemIs
    <3>4. e.q \in Seq(Field) /\ s.t0 \in Seq(Field) /\ s.t1 \in Seq(Field)
      BY <2>1, <3>3 DEF Polys
    <3>5. Times(e.q, s.t1) \in Seq(Field)
      BY <3>4, TimesIs DEF Polys
    <3>6. Minus(s.t0, Times(e.q, s.t1)) \in Polys
      BY <3>4, <3>5, MinusIs
    <3> QED BY <2>1, <2>3, <3>2, <3>3, <3>6 DEF GcdStep, Rows
  <2> QED BY <2>2, <2>3
<1>2. next \in [Rows -> Rows]
  BY <1>1
<1>3. PICK z : z = [a |-> g0, b |-> g1, t0 |-> <<>>, t1 |-> <<1>>]
  OBVIOUS
<1>4. z \in Rows
  BY <1>3, G0Is, ZeroPoly, OnePoly DEF Rows
<1>5. PICK f : f = [k \in Nat |-> IF k = 0 THEN z ELSE next[f[k-1]]]
  <2> HIDE DEF next
  <2> QED BY <1>2, <1>4, Iterate
<1>6. \A k \in Nat : f[k] = IF k = 0 THEN z ELSE next[f[k-1]]
  <2> HIDE DEF next
  <2> QED BY <1>5
<1>7. \A k \in Nat : f[k] \in Rows
  <2> DEFINE S == {k \in Nat : f[k] \in Rows}
  <2>1. 0 \in S
    BY <1>4, <1>6
  <2>2. ASSUME NEW k \in Nat, k \in S PROVE k+1 \in S
    <3>1. f[k] \in Rows /\ k+1 \in Nat /\ k+1 # 0 /\ (k+1)-1 = k
      BY <2>2
    <3>2. f[k+1] = next[f[k]]
      <4> HIDE DEF next, S
      <4> QED BY <3>1, <1>6
    <3>3. f[k+1] \in Rows
      <4> HIDE DEF next, S
      <4> QED BY <3>1, <3>2, <1>2
    <3> QED BY <3>1, <3>3
  <2> HIDE DEF S
  <2>3. \A k \in Nat : k \in S
    BY <2>1, <2>2, Induct
  <2> QED BY <2>3 DEF S
<1>8. ASSUME NEW k \in Nat PROVE f[k] = IF k = 0 THEN z ELSE GcdStep(f[k-1], d)
  <2>1. CASE k = 0
    BY <2>1, <1>6
  <2>2. CASE k # 0
    <3>1. k-1 \in Nat
      BY <2>2
    <3>2. f[k-1] \in Rows
      BY <3>1, <1>7
    <3> QED BY <3>2, <2>2, <1>6
  <2> QED BY <2>1, <2>2
<1> HIDE DEF next
<1>9. f = [k \in Nat |-> f[k]]
  BY <1>5
<1>10. f = [k \in Nat |-> IF k = 0 THEN z ELSE GcdStep(f[k-1], d)]
  BY <1>8, <1>9
<1> QED BY <1>3, <1>10 DEF IsGcd

\* What each step of the partial GCD keeps.
GcdInv(s, ys, d, k) ==
    /\ s.a \in Polys /\ s.b \in Polys /\ s.t0 \in Polys /\ s.t1 \in Polys
    /\ s.a # <<>> /\ ~ BelowTarget(s.a, d) /\ Deg(s.b) < Deg(s.a)
    /\ s.t1 # <<>> /\ Deg(s.t1) = n - Deg(s.a) /\ Deg(s.t0) < Deg(s.t1)
    /\ BelowTarget(s.b, d) \/ Deg(s.b) <= n - 1 - k
    /\ \A x \in Servers : /\ Evaluate(s.a, x) = Mod(Evaluate(s.t0, x) * ys[x])
                          /\ Evaluate(s.b, x) = Mod(Evaluate(s.t1, x) * ys[x])

\* The first row has g0 and g1, with cofactors 0 and 1.
LEMMA GcdStart ==
    ASSUME NEW ys \in Words, NEW d \in Nat, d < n, NEW s,
           s = [a |-> g0, b |-> Interpolate(xvals, ys), t0 |-> <<>>, t1 |-> << 1 >>]
    PROVE  GcdInv(s, ys, d, 0)
<1>1. PICK g1 : g1 = Interpolate(xvals, ys)
  OBVIOUS
<1>2. s.a = g0 /\ s.b = g1 /\ s.t0 = <<>> /\ s.t1 = <<1>>
  BY <1>1
<1>3. n \in Nat /\ n >= 1 /\ Servers = 1 .. n
  BY Sizes DEF Servers
<1>4. g1 \in Polys /\ Len(g1) <= n /\ \A x \in Servers : Evaluate(g1, x) = ys[x]
  BY <1>1, <1>3, PointsAre, InterpolateIs
<1>5. Len(g1) \in Nat
  BY <1>4 DEF Polys
<1>6. Deg(g1) <= n - 1 - 0 /\ Deg(g1) < n /\ Deg(g1) \in Int
  BY <1>3, <1>4, <1>5 DEF Deg
<1>7. ~ BelowTarget(g0, d)
  BY <1>3, G0Is DEF BelowTarget
<1>8. ASSUME NEW x \in Servers
      PROVE  /\ Evaluate(g0, x) = Mod(Evaluate(<<>>, x) * ys[x])
             /\ Evaluate(g1, x) = Mod(Evaluate(<<1>>, x) * ys[x])
  <2>1. PICK u \in Field : u = ys[x]
    BY DEF Words
  <2>2. u \in Int /\ 0 * u = 0 /\ 1 * u = u
    BY FieldInt
  <2>3. Evaluate(<<>>, x) = 0 /\ Evaluate(<<1>>, x) = 1 /\ Evaluate(g0, x) = 0 /\ Evaluate(g1, x) = u
    BY <2>1, <1>4, ServersIn, EvalZero, OnePoly, G0Is
  <2> QED BY <2>1, <2>2, <2>3, ModSmall, ModOf
<1> QED BY <1>2, <1>3, <1>4, <1>6, <1>7, <1>8, G0Is, ZeroPoly, OnePoly DEF GcdInv

\* The values of two rows at a server's x: of a, b, t0 and t1, the quotient q
\* and the remainder v, where the share is y.
RowValues(a, b, u, w, q, v, y) ==
    /\ a = Mod(u * y) /\ b = Mod(w * y)
    /\ a = Mod(q * b + v) /\ v = Mod(v)

\* The next row has the values that RowValues names, if the last two have.
LEMMA GcdValues ==
    ASSUME NEW u \in Int, NEW w \in Int, NEW v \in Int, NEW q \in Int, NEW y \in Int,
           NEW a \in Int, NEW b \in Int, RowValues(a, b, u, w, q, v, y)
    PROVE  v = Mod(Mod(u - Mod(q * w)) * y)
<1>0. a = Mod(u * y) /\ b = Mod(w * y) /\ a = Mod(q * b + v) /\ v = Mod(v)
  BY DEF RowValues
<1>1. u * y \in Int /\ w * y \in Int /\ q * w \in Int /\ u - q * w \in Int /\ (q * w) * y \in Int
  OBVIOUS
<1>2. Mod(u * y) = Mod(v + q * (w * y))
  <2>1. Mod(v + q * Mod(w * y)) = Mod(v + q * (w * y))
    BY <1>1, ModHorner
  <2>2. q * b + v = v + q * b
    OBVIOUS
  <2> QED BY <2>1, <2>2, <1>0
<1>3. PICK e \in Int : e = v + q * (w * y)
  <2>1. v + q * (w * y) \in Int
    BY <1>1
  <2> QED BY <2>1
<1>4. PICK z \in Int : z = (-1) * (q * (w * y))
  <2>1. (-1) * (q * (w * y)) \in Int
    BY <1>1
  <2> QED BY <2>1
<1>5. Mod(z + Mod(u * y)) = Mod(z + u * y) /\ Mod(z + Mod(e)) = Mod(z + e)
  BY <1>1, ModPlus
<1>6. z + e = v
  BY <1>3, <1>4
<1>7. v = Mod(z + u * y)
  BY <1>0, <1>2, <1>3, <1>5, <1>6
<1>8. Mod(u - Mod(q * w)) = Mod(u - q * w)
  <2>1. Mod(u + (-1) * Mod(q * w)) = Mod(u + (-1) * (q * w))
    BY <1>1, ModHorner
  <2>2. PICK k \in Int : k = Mod(q * w)
    BY <1>1, ModType
  <2>3. u + (-1) * k = u - k /\ u + (-1) * (q * w) = u - q * w
    BY <1>1
  <2> QED BY <2>1, <2>2, <2>3
<1>9. Mod(Mod(u - q * w) * y) = Mod(y * (u - q * w))
  <2>1. Mod(y * Mod(u - q * w)) = Mod(y * (u - q * w))
    BY <1>1, ModTimes
  <2>2. PICK k \in Int : k = Mod(u - q * w)
    BY <1>1, ModType
  <2>3. k * y = y * k
    OBVIOUS
  <2> QED BY <2>1, <2>2, <2>3
<1>10. y * (u - q * w) = z + u * y
  <2>1. y * (u - q * w) = u * y - q * (w * y)
    BY <1>1
  <2> QED BY <2>1, <1>4
<1> QED BY <1>7, <1>8, <1>9, <1>10

\* A round of the loop keeps what holds of the rows.
LEMMA GcdStepKeeps ==
    ASSUME NEW ys \in Words, NEW d \in Nat, NEW k \in Nat, NEW s, GcdInv(s, ys, d, k)
    PROVE  GcdInv(GcdStep(s, d), ys, d, k+1)
<1>1. CASE BelowTarget(s.b, d)
  <2>1. GcdStep(s, d) = s
    BY <1>1 DEF GcdStep
  <2> QED BY <2>1, <1>1 DEF GcdInv
<1>2. CASE ~ BelowTarget(s.b, d)
  <2>1. PICK a, b, t0, t1 \in Polys : a = s.a /\ b = s.b /\ t0 = s.t0 /\ t1 = s.t1
    BY DEF GcdInv
  <2>2. b # <<>>
    BY <1>2, <2>1, ZeroBelow
  <2>3. PICK e : e = DivRem(a, b)
    OBVIOUS
  <2>4. PICK q : q = e.q
    OBVIOUS
  <2>5. PICK r : r = e.r
    OBVIOUS
  <2>6. /\ a # <<>> /\ Deg(b) < Deg(a) /\ t1 # <<>> /\ Deg(t1) = n - Deg(a) /\ Deg(t0) < Deg(t1)
        /\ Deg(b) <= n - 1 - k
    BY <1>2, <2>1 DEF GcdInv
  <2>7. Deg(a) \in Nat /\ Deg(b) \in Nat /\ Deg(t1) \in Nat /\ n \in Nat
    BY <2>2, <2>6, Leading, Sizes
  <2>8. /\ q \in Polys /\ r \in Polys /\ Deg(r) < Deg(b) /\ q # <<>> /\ Deg(q) = Deg(a) - Deg(b)
        /\ \A x \in Int : Evaluate(a, x) = Mod(Evaluate(q, x) * Evaluate(b, x) + Evaluate(r, x))
    BY <2>2, <2>3, <2>4, <2>5, <2>6, <2>7, DivRemIs
  <2>9. PICK g : g = Times(q, t1)
    OBVIOUS
  <2>10. q \in Seq(Field) /\ t0 \in Seq(Field) /\ t1 \in Seq(Field) /\ r \in Seq(Field)
         /\ Deg(r) \in Int /\ Deg(t0) \in Int
    BY <2>8 DEF Polys, Deg
  <2>11. g \in Polys /\ g # <<>> /\ Deg(g) = n - Deg(b)
    <3>1. Deg(g) = Deg(q) + Deg(t1)
      BY <2>6, <2>8, <2>9, TimesDegree
    <3>2. Deg(g) = n - Deg(b)
      BY <3>1, <2>6, <2>7, <2>8
    <3> QED BY <3>2, <2>6, <2>8, <2>9, <2>10, TimesIs, TimesDegree
  <2>12. g \in Seq(Field)
    BY <2>11 DEF Polys
  <2>13. PICK t2 : t2 = Minus(t0, g)
    OBVIOUS
  <2>14. t2 \in Polys /\ t2 # <<>> /\ Deg(t2) = n - Deg(b)
    <3>1. Deg(t0) < Deg(g)
      BY <2>6, <2>7, <2>10, <2>11
    <3> QED BY <3>1, <2>11, <2>13, MinusDegree
  <2>15. PICK z : z = [a |-> b, b |-> r, t0 |-> t1, t1 |-> t2]
    OBVIOUS
  <2>16. GcdStep(s, d) = z
    BY <1>2, <2>1, <2>3, <2>4, <2>5, <2>9, <2>13, <2>15 DEF GcdStep
  <2>17. z.a = b /\ z.b = r /\ z.t0 = t1 /\ z.t1 = t2
    BY <2>15
  <2>18. Deg(t1) < Deg(t2) /\ Deg(r) <= n - 1 - (k+1)
    BY <2>6, <2>7, <2>8, <2>10, <2>14
  <2>19. ~ BelowTarget(b, d)
    BY <1>2, <2>1
  <2>20. ASSUME NEW x \in Servers
         PROVE  /\ Evaluate(b, x) = Mod(Evaluate(t1, x) * ys[x])
                /\ Evaluate(r, x) = Mod(Evaluate(t2, x) * ys[x])
    <3>1. x \in Int
      BY ServersIn
    <3>2. /\ Evaluate(a, x) = Mod(Evaluate(t0, x) * ys[x])
          /\ Evaluate(b, x) = Mod(Evaluate(t1, x) * ys[x])
      BY <2>1 DEF GcdInv
    <3>3. PICK y \in Int : y = ys[x]
      BY FieldInt DEF Words
    <3>4. PICK u \in Int : u = Evaluate(t0, x)
      BY <3>1, <2>10, EvalType
    <3>5. PICK w \in Int : w = Evaluate(t1, x)
      BY <3>1, <2>10, EvalType
    <3>6. PICK v \in Int : v = Evaluate(r, x) /\ v = Mod(v)
      BY <3>1, <2>10, EvalType, ModOf
    <3>7. PICK c \in Int : c = Evaluate(q, x)
      BY <3>1, <2>10, EvalType
    <3>8. PICK av \in Int : av = Evaluate(a, x)
      BY <3>1, EvalType DEF Polys
    <3>9. PICK bv \in Int : bv = Evaluate(b, x)
      BY <3>1, EvalType DEF Polys
    <3>10. av = Mod(u * y) /\ bv = Mod(w * y)
      BY <3>2, <3>3, <3>4, <3>5, <3>8, <3>9
    <3>11. av = Mod(c * bv + v)
      BY <3>1, <3>6, <3>7, <3>8, <3>9, <2>8
    <3>12. v = Mod(Mod(u - Mod(c * w)) * y)
      <4>1. RowValues(av, bv, u, w, c, v, y)
        BY <3>6, <3>10, <3>11 DEF RowValues
      <4> QED BY <4>1, GcdValues
    <3>13. Evaluate(g, x) = Mod(c * w)
      BY <3>1, <3>5, <3>7, <2>9, <2>10, EvalTimes
    <3>14. Evaluate(t2, x) = Mod(u - Mod(c * w))
      BY <3>1, <3>4, <3>13, <2>10, <2>12, <2>13, EvalMinus
    <3> QED BY <3>2, <3>3, <3>6, <3>12, <3>14
  <2>21. GcdInv(z, ys, d, k+1)
    BY <2>2, <2>8, <2>14, <2>17, <2>18, <2>19, <2>20 DEF GcdInv
  <2> QED BY <2>16, <2>21
<1> QED BY <1>1, <1>2

\* The remainder at which the partial GCD stops, and its cofactor t1.
LEMMA PartialGcdIs ==
    ASSUME NEW ys \in Words, NEW d \in Nat, d < n,
           NEW s, s = PartialGcd(Interpolate(xvals, ys), d)
    PROVE  /\ s.b \in Polys /\ 2 * Deg(s.b) <= n + d
           /\ s.t1 \in Polys /\ s.t1 # <<>> /\ 2 * Deg(s.t1) <= n - d - 1
           /\ \A x \in Servers : Evaluate(s.b, x) = Mod(Evaluate(s.t1, x) * ys[x])
<1>1. PICK g1 : g1 = Interpolate(xvals, ys)
  OBVIOUS
<1>2. g1 \in Polys
  BY <1>1, PointsAre, InterpolateIs
<1>3. PICK g : g = (CHOOSE f : IsGcd(f, g1, d))
  OBVIOUS
<1>4. IsGcd(g, g1, d)
  BY <1>2, <1>3, GcdExists
<1>5. s = g[n + 1]
  BY <1>1, <1>3 DEF PartialGcd, IsGcd, GcdStep
<1>6. PICK z : z = [a |-> g0, b |-> g1, t0 |-> <<>>, t1 |-> <<1>>]
  OBVIOUS
<1>7. g[0] = z /\ \A k \in Nat : g[k+1] = GcdStep(g[k], d)
  <2>1. \A k \in Nat : g[k] = IF k = 0 THEN z ELSE GcdStep(g[k-1], d)
    BY <1>4, <1>6 DEF IsGcd
  <2>2. \A k \in Nat : k+1 \in Nat /\ k+1 # 0 /\ (k+1)-1 = k
    OBVIOUS
  <2> QED BY <2>1, <2>2
<1>8. \A k \in Nat : GcdInv(g[k], ys, d, k)
  <2> DEFINE S == {k \in Nat : GcdInv(g[k], ys, d, k)}
  <2>1. 0 \in S
    BY <1>1, <1>6, <1>7, GcdStart
  <2>2. ASSUME NEW k \in Nat, k \in S PROVE k+1 \in S
    BY <2>2, <1>7, GcdStepKeeps
  <2> HIDE DEF S
  <2>3. \A k \in Nat : k \in S
    BY <2>1, <2>2, Induct
  <2> QED BY <2>3 DEF S
<1>9. n \in Nat /\ n+1 \in Nat
  BY Sizes
<1>10. GcdInv(s, ys, d, n+1)
  BY <1>5, <1>8, <1>9
<1>11. Deg(s.b) \in Int /\ Deg(s.b) >= -1 /\ Deg(s.a) \in Int /\ Deg(s.t1) \in Int
  BY <1>10 DEF GcdInv, Polys, Deg
<1>12. BelowTarget(s.b, d)
  <2>1. ~ (Deg(s.b) <= n - 1 - (n+1))
    BY <1>9, <1>11
  <2> QED BY <2>1, <1>10 DEF GcdInv
<1>13. 2 * Deg(s.b) <= n + d
  BY <1>9, <1>11, <1>12 DEF BelowTarget
<1>14. 2 * Deg(s.a) >= n + d + 1
  <2>1. ~ BelowTarget(s.a, d)
    BY <1>10 DEF GcdInv
  <2> QED BY <2>1, <1>9, <1>11 DEF BelowTarget
<1>15. 2 * Deg(s.t1) <= n - d - 1
  <2>1. Deg(s.t1) = n - Deg(s.a)
    BY <1>10 DEF GcdInv
  <2> QED BY <2>1, <1>9, <1>11, <1>14
<1> QED BY <1>10, <1>13, <1>15 DEF GcdInv

-----------------------------------------------------------------------------
(***************************************************************************)
(* rs_decode.                                                              *)
(***************************************************************************)
\* f is within the decoding radius of ys.
Within(f, ys, d) ==
    /\ f \in Polys /\ Deg(f) <= d
    /\ 2 * Cardinality(WrongAt(f, ys)) <= n - d - 1

\* Close holds the polynomials within the radius, by their values.
LEMMA CloseIs ==
    ASSUME NEW ys, NEW d \in Nat
    PROVE  \A f : f \in Close(ys, d) <=> Within(f, ys, d)
BY PolysUpTo, Zenon DEF Close, Within

\* The condition of step 0.
Shortcut(ys, d) == Cardinality(WrongAt(<<>>, ys)) <= (n - d) \div 2

\* The quotient of step 3.
StepThree(ys, d) ==
    DivRem(PartialGcd(Interpolate(xvals, ys), d).b, PartialGcd(Interpolate(xvals, ys), d).t1)

\* The three ways out of rs_decode.
LEMMA DecodeCases ==
    ASSUME NEW ys, NEW d, NEW ell
    PROVE  rs_decode(ys, d, ell) =
             IF Shortcut(ys, d) THEN Decoded(<<>>, ys, ell)
             ELSE IF StepThree(ys, d).r = <<>> /\ Deg(StepThree(ys, d).q) \in 0 .. d
                  THEN Decoded(StepThree(ys, d).q, ys, ell)
                  ELSE NotDecoded
BY DEF rs_decode, Shortcut, StepThree

\* A polynomial within the radius is 0 when the shortcut is taken.
LEMMA ShortcutIsZero ==
    ASSUME NEW ys, NEW d \in Nat, d < n, NEW f, Within(f, ys, d), Shortcut(ys, d)
    PROVE  f = <<>>
<1>1. n \in Nat
  BY Sizes
<1>2. PICK W : W = WrongAt(f, ys)
  OBVIOUS
<1>3. PICK Z : Z = WrongAt(<<>>, ys)
  OBVIOUS
<1>4. /\ W \in SUBSET Servers /\ IsFiniteSet(W) /\ Cardinality(W) \in Nat
      /\ \A x \in Servers : x \notin W <=> Evaluate(f, x) = ys[x]
  BY <1>2, WrongAtType
<1>5. /\ Z \in SUBSET Servers /\ IsFiniteSet(Z) /\ Cardinality(Z) \in Nat
      /\ \A x \in Servers : x \notin Z <=> Evaluate(<<>>, x) = ys[x]
  BY <1>3, WrongAtType
<1>6. f \in Polys /\ Deg(f) <= d /\ 2 * Cardinality(W) <= n - d - 1
  BY <1>2 DEF Within
<1>7. 2 * Cardinality(Z) <= n - d
  <2>1. PICK z \in Nat : z = Cardinality(Z)
    BY <1>5
  <2>2. z <= (n - d) \div 2
    BY <1>3, <2>1 DEF Shortcut
  <2>3. 2 * z <= n - d
    BY <1>1, <2>2
  <2> QED BY <2>1, <2>3
<1>8. PICK U : U = W \cup Z
  OBVIOUS
<1>9. Cardinality(U) = Cardinality(W) + Cardinality(Z) - Cardinality(W \cap Z)
  BY <1>4, <1>5, <1>8, FS_Union
<1>10. U \in SUBSET Servers /\ W \cap Z \in SUBSET Servers
  BY <1>4, <1>5, <1>8
<1>11. Cardinality(W \cap Z) \in Nat /\ Cardinality(U) \in Nat
  BY <1>10, ServersIn
<1>12. Cardinality(U) <= n - d - 1
  BY <1>1, <1>4, <1>5, <1>6, <1>7, <1>9, <1>11
<1>13. PICK T : T = Servers \ U
  OBVIOUS
<1>14. Cardinality(T) = n - Cardinality(U)
  BY <1>10, <1>13, ServersIn
<1>15. T \in SUBSET Field
  BY <1>13, ServersIn
<1>16. Deg(f) \in Int
  BY <1>6 DEF Polys, Deg
<1>17. Cardinality(T) > Deg(f)
  BY <1>1, <1>6, <1>11, <1>12, <1>14, <1>16
<1>18. ASSUME NEW x \in T PROVE Evaluate(f, x) = 0
  <2>1. x \in Servers /\ x \notin W /\ x \notin Z /\ x \in Int
    BY <1>8, <1>13, ServersIn
  <2> QED BY <2>1, <1>4, <1>5, EvalZero
<1> QED BY <1>6, <1>15, <1>17, <1>18, ManyRoots

\* The product of t1 with a polynomial within the radius is the remainder.
LEMMA RemainderIs ==
    ASSUME NEW ys \in Words, NEW d \in Nat, d < n, NEW f, Within(f, ys, d),
           NEW s, s = PartialGcd(Interpolate(xvals, ys), d)
    PROVE  s.b = Times(s.t1, f)
<1>1. n \in Nat
  BY Sizes
<1>2. PICK b \in Polys : b = s.b
  BY PartialGcdIs
<1>3. PICK c \in Polys : c = s.t1 /\ c # <<>>
  BY PartialGcdIs
<1>4. /\ 2 * Deg(b) <= n + d /\ 2 * Deg(c) <= n - d - 1
      /\ \A x \in Servers : Evaluate(b, x) = Mod(Evaluate(c, x) * ys[x])
  BY <1>2, <1>3, PartialGcdIs
<1>5. f \in Polys /\ Deg(f) <= d /\ 2 * Cardinality(WrongAt(f, ys)) <= n - d - 1
  BY DEF Within
<1>6. /\ b \in Seq(Field) /\ c \in Seq(Field) /\ f \in Seq(Field)
      /\ Len(b) \in Nat /\ Len(c) \in Nat /\ Len(f) \in Nat
  BY <1>5 DEF Polys
<1>7. PICK g : g = Times(c, f)
  OBVIOUS
<1>8. g \in Polys /\ g \in Seq(Field) /\ Len(g) \in Nat
  BY <1>6, <1>7, TimesIs DEF Polys
<1>9. 2 * Deg(g) <= n + d
  <2>1. CASE f = <<>>
    <3>1. g = <<>>
      BY <2>1, <1>7 DEF Times
    <3> QED BY <3>1, <1>1, ZeroPoly
  <2>2. CASE f # <<>>
    <3>1. Deg(g) = Deg(c) + Deg(f)
      BY <2>2, <1>3, <1>5, <1>7, TimesDegree
    <3>2. Deg(c) \in Int /\ Deg(f) \in Int
      BY <1>6 DEF Deg
    <3> QED BY <3>1, <3>2, <1>1, <1>4, <1>5
  <2> QED BY <2>1, <2>2
<1>10. PICK h : h = Minus(b, g)
  OBVIOUS
<1>11. h \in Polys /\ Len(h) <= Maximum(Len(b), Len(g))
  BY <1>6, <1>8, <1>10, MinusIs
<1>12. Len(h) \in Nat
  BY <1>11 DEF Polys
<1>13. 2 * Deg(h) <= n + d
  <2>1. Len(h) <= Len(b) \/ Len(h) <= Len(g)
    BY <1>11 DEF Maximum
  <2> QED BY <2>1, <1>1, <1>4, <1>6, <1>8, <1>9, <1>12 DEF Deg
<1>14. PICK W : W = WrongAt(f, ys)
  OBVIOUS
<1>15. /\ W \in SUBSET Servers /\ Cardinality(W) \in Nat
       /\ \A x \in Servers : x \notin W <=> Evaluate(f, x) = ys[x]
  BY <1>14, WrongAtType
<1>16. PICK T : T = Servers \ W
  OBVIOUS
<1>17. Cardinality(T) = n - Cardinality(W) /\ T \in SUBSET Field
  BY <1>15, <1>16, ServersIn
<1>18. Cardinality(T) > Deg(h)
  <2>1. Deg(h) \in Int
    BY <1>12 DEF Deg
  <2> QED BY <2>1, <1>1, <1>5, <1>13, <1>14, <1>15, <1>17
<1>19. ASSUME NEW x \in T PROVE Evaluate(h, x) = 0
  <2>1. x \in Servers /\ x \in Int /\ Evaluate(f, x) = ys[x]
    BY <1>15, <1>16, ServersIn
  <2>2. PICK u \in Int : u = Evaluate(c, x)
    BY <2>1, <1>6, EvalType
  <2>3. PICK v \in Int : v = Evaluate(f, x)
    BY <2>1, <1>6, EvalType
  <2>4. Evaluate(b, x) = Mod(u * v)
    BY <2>1, <2>2, <2>3, <1>4
  <2>5. Evaluate(g, x) = Mod(u * v)
    BY <2>1, <2>2, <2>3, <1>6, <1>7, EvalTimes
  <2>6. Evaluate(h, x) = Mod(Evaluate(b, x) - Evaluate(g, x))
    BY <2>1, <1>6, <1>8, <1>10, EvalMinus
  <2>7. PICK z \in Int : z = Mod(u * v)
    BY ModType
  <2>8. z - z = 0
    OBVIOUS
  <2> QED BY <2>4, <2>5, <2>6, <2>7, <2>8, ModSmall
<1>20. h = <<>>
  BY <1>11, <1>17, <1>18, <1>19, ManyRoots
<1>21. b = g
  BY <1>8, <1>10, <1>20, MinusZero
<1> QED BY <1>2, <1>3, <1>7, <1>21

\* rs_decode finds the polynomial within the decoding radius, if there is one.
LEMMA DecodeFinds ==
    ASSUME NEW ys \in Words, NEW d \in Nat, d < n, NEW ell, NEW f, Within(f, ys, d)
    PROVE  rs_decode(ys, d, ell) = Decoded(f, ys, ell)
<1>1. CASE Shortcut(ys, d)
  <2>1. f = <<>>
    BY <1>1, ShortcutIsZero
  <2> QED BY <2>1, <1>1, DecodeCases
<1>2. CASE ~ Shortcut(ys, d)
  <2>1. n \in Nat
    BY Sizes
  <2>2. PICK s : s = PartialGcd(Interpolate(xvals, ys), d)
    OBVIOUS
  <2>3. PICK b \in Polys : b = s.b /\ 2 * Deg(b) <= n + d
    BY <2>2, PartialGcdIs
  <2>4. PICK c \in Polys : c = s.t1 /\ c # <<>> /\ 2 * Deg(c) <= n - d - 1
    BY <2>2, PartialGcdIs
  <2>5. b = Times(c, f)
    BY <2>2, <2>3, <2>4, RemainderIs
  <2>6. f \in Polys /\ Deg(f) <= d /\ 2 * Cardinality(WrongAt(f, ys)) <= n - d - 1
    BY DEF Within
  <2>7. /\ b \in Seq(Field) /\ c \in Seq(Field) /\ f \in Seq(Field)
        /\ Deg(b) \in Int /\ Deg(c) \in Int /\ Deg(f) \in Int /\ Deg(f) >= -1
    BY <2>6 DEF Polys, Deg
  <2>8. f # <<>>
    <3> SUFFICES ASSUME f = <<>> PROVE FALSE
      OBVIOUS
    <3>1. PICK z \in Nat : z = Cardinality(WrongAt(<<>>, ys))
      BY WrongAtType
    <3>2. 2 * z <= n - d - 1
      BY <3>1, <2>6
    <3>3. z <= (n - d) \div 2
      BY <3>2, <2>1
    <3> QED BY <3>1, <3>3, <1>2 DEF Shortcut
  <2>9. PICK e : e = DivRem(b, c)
    OBVIOUS
  <2>10. e.q = f /\ e.r = <<>>
    <3>1. Cardinality(Servers) = n /\ Servers \in SUBSET Field
      BY ServersIn
    <3>2. Deg(b) < Cardinality(Servers) /\ Deg(c) + Deg(f) < Cardinality(Servers)
      BY <3>1, <2>1, <2>3, <2>4, <2>6, <2>7
    <3>3. \A x \in Servers : Evaluate(b, x) = Mod(Evaluate(c, x) * Evaluate(f, x))
      BY <2>5, <2>7, ServersIn, EvalTimes
    <3> QED BY <3>1, <3>2, <3>3, <2>4, <2>6, <2>9, QuotientIs
  <2>11. StepThree(ys, d) = e
    BY <2>2, <2>3, <2>4, <2>9 DEF StepThree
  <2>12. Deg(f) \in 0 .. d
    BY <2>6, <2>7, <2>8, Leading
  <2> QED BY <2>10, <2>11, <2>12, <1>2, DecodeCases
<1> QED BY <1>1, <1>2

\* What rs_decode returns is within the radius, or is the shortcut's.
LEMMA DecodeSound ==
    ASSUME NEW ys \in Words, NEW d \in Nat, d < n, NEW ell, rs_decode(ys, d, ell).ok
    PROVE  \/ \E f : Within(f, ys, d)
           \/ /\ 2 * Cardinality(WrongAt(<<>>, ys)) = n - d
              /\ rs_decode(ys, d, ell) = Decoded(<<>>, ys, ell)
<1>1. n \in Nat
  BY Sizes
<1>2. CASE Shortcut(ys, d)
  <2>1. PICK z \in Nat : z = Cardinality(WrongAt(<<>>, ys))
    BY WrongAtType
  <2>2. z <= (n - d) \div 2
    BY <1>2, <2>1 DEF Shortcut
  <2>3. 2 * z = n - d \/ 2 * z <= n - d - 1
    BY <1>1, <2>2
  <2>4. CASE 2 * z = n - d
    BY <1>2, <2>1, <2>4, DecodeCases
  <2>5. CASE 2 * z <= n - d - 1
    <3>1. Within(<<>>, ys, d)
      BY <2>1, <2>5, ZeroPoly DEF Within
    <3> QED BY <3>1
  <2> QED BY <2>3, <2>4, <2>5
<1>3. CASE ~ Shortcut(ys, d)
  <2>1. PICK s : s = PartialGcd(Interpolate(xvals, ys), d)
    OBVIOUS
  <2>2. PICK b \in Polys : b = s.b
    BY <2>1, PartialGcdIs
  <2>3. PICK c \in Polys : c = s.t1 /\ c # <<>> /\ 2 * Deg(c) <= n - d - 1
    BY <2>1, PartialGcdIs
  <2>4. \A x \in Servers : Evaluate(b, x) = Mod(Evaluate(c, x) * ys[x])
    BY <2>1, <2>2, <2>3, PartialGcdIs
  <2>5. PICK e : e = DivRem(b, c)
    OBVIOUS
  <2>6. StepThree(ys, d) = e
    BY <2>1, <2>2, <2>3, <2>5 DEF StepThree
  <2>7. e.r = <<>> /\ Deg(e.q) \in 0 .. d
    <3>1. ~ NotDecoded.ok
      BY DEF NotDecoded
    <3> QED BY <3>1, <2>6, <1>3, DecodeCases
  <2>8. PICK f \in Polys : f = e.q
    BY <2>3, <2>5, DivRemIs
  <2>9. \A x \in Int : Evaluate(b, x) = Mod(Evaluate(f, x) * Evaluate(c, x) + Evaluate(<<>>, x))
    BY <2>3, <2>5, <2>7, <2>8, DivRemIs
  <2>10. f \in Seq(Field) /\ c \in Seq(Field)
    BY DEF Polys
  <2>11. PICK W : W = WrongAt(f, ys)
    OBVIOUS
  <2>12. /\ W \in SUBSET Servers /\ Cardinality(W) \in Nat
         /\ \A x \in Servers : x \notin W <=> Evaluate(f, x) = ys[x]
    BY <2>11, WrongAtType
  <2>13. ASSUME NEW x \in W PROVE Evaluate(c, x) = 0
    <3>1. x \in Servers /\ x \in Int /\ Evaluate(f, x) # ys[x]
      BY <2>12, ServersIn
    <3>2. PICK u \in Field : u = Evaluate(c, x)
      BY <3>1, <2>10, EvalType
    <3>3. PICK v \in Field : v = Evaluate(f, x)
      BY <3>1, <2>10, EvalType
    <3>4. PICK y \in Field : y = ys[x]
      BY <3>1 DEF Words
    <3>5. u \in Int /\ v \in Int /\ y \in Int /\ v - y \in Int /\ v # y
      BY <3>1, <3>3, <3>4, FieldInt
    <3>6. Evaluate(b, x) = Mod(u * y)
      BY <3>1, <3>2, <3>4, <2>4
    <3>7. Evaluate(b, x) = Mod(v * u + 0)
      BY <3>1, <3>2, <3>3, <2>9, EvalZero
    <3>8. v * u + 0 = u * v /\ u * v \in Int /\ u * y \in Int
      BY <3>5
    <3>9. Mod(u * y) = Mod(u * v)
      BY <3>6, <3>7, <3>8
    <3>10. PICK z \in Int : z = (-1) * (u * y)
      BY <3>8
    <3>11. Mod(z + Mod(u * v)) = Mod(z + u * v) /\ Mod(z + Mod(u * y)) = Mod(z + u * y)
      BY <3>8, ModPlus
    <3>12. z + u * v = u * (v - y) /\ z + u * y = 0
      BY <3>5, <3>10
    <3>13. Mod(u * (v - y)) = 0
      BY <3>9, <3>11, <3>12, ModSmall
    <3>14. Mod(v - y) # 0
      BY <3>5, DifferentMod
    <3>15. Mod(u) = 0
      BY <3>5, <3>13, <3>14, NoZeroDivisors
    <3> QED BY <3>2, <3>15, ModOf
  <2>14. Cardinality(W) <= Deg(c)
    <3> SUFFICES ASSUME ~ (Cardinality(W) <= Deg(c)) PROVE FALSE
      OBVIOUS
    <3>1. Deg(c) \in Nat
      BY <2>3, Leading
    <3>2. Cardinality(W) > Deg(c) /\ W \in SUBSET Field
      BY <3>1, <2>12, ServersIn
    <3>3. c = <<>>
      BY <3>2, <2>13, ManyRoots
    <3> QED BY <3>3, <2>3
  <2>15. Within(f, ys, d)
    <3>1. Deg(c) \in Nat
      BY <2>3, Leading
    <3>2. 2 * Cardinality(W) <= n - d - 1
      BY <3>1, <1>1, <2>3, <2>12, <2>14
    <3>3. Deg(f) <= d
      BY <2>7, <2>8
    <3> QED BY <3>2, <3>3, <2>11 DEF Within
  <2> QED BY <2>15
<1> QED BY <1>2, <1>3

-----------------------------------------------------------------------------
(***************************************************************************)
(* The decoder as it is used.                                              *)
(***************************************************************************)
\* Gao's decoder agrees with a search through all polynomials, for every word
\* of shares and every degree.
THEOREM GaoMatchesSearch ==
    ASSUME NEW ys \in Words, NEW d \in Nat, d < n
    PROVE  /\ \A f \in Close(ys, d) : rs_decode(ys, d, 1) = Decoded(f, ys, 1)
           /\ Close(ys, d) = {} /\ rs_decode(ys, d, 1).ok
                => ShortcutOnly(rs_decode(ys, d, 1), ys, d)
<1>1. \A f : f \in Close(ys, d) <=> Within(f, ys, d)
  BY CloseIs
<1>2. \A f \in Close(ys, d) : rs_decode(ys, d, 1) = Decoded(f, ys, 1)
  BY <1>1, DecodeFinds
<1>3. ASSUME Close(ys, d) = {}, rs_decode(ys, d, 1).ok
      PROVE  ShortcutOnly(rs_decode(ys, d, 1), ys, d)
  <2>1. ~ \E f : Within(f, ys, d)
    BY <1>1, <1>3
  <2> QED BY <2>1, <1>3, DecodeSound DEF ShortcutOnly
<1> QED BY <1>2, <1>3

\* What rs_decode returns for one secret has its type.
LEMMA DecodedType ==
    ASSUME NEW q \in Polys, NEW ys, NEW r, r = Decoded(q, ys, 1)
    PROVE  /\ r.ok /\ r.secrets \in Seq(Field) /\ Len(r.secrets) = 1
           /\ r.secrets[1] = Coeff(q, 0) /\ r.secrets[1] \in Field /\ r.errors \subseteq Servers
<1>1. q \in Seq(Field)
  BY DEF Polys
<1>2. PICK c \in Field : c = Coeff(q, 0)
  BY <1>1, CoeffType
<1>3. PICK s : s = [k \in 1 .. 1 |-> Coeff(q, k-1)]
  OBVIOUS
<1>4. s[1] = c /\ \A k \in 1 .. 1 : s[k] \in Field
  BY <1>2, <1>3
<1>5. s \in Seq(Field) /\ Len(s) = 1
  BY <1>3, <1>4
<1>6. r.ok /\ r.secrets = s /\ r.errors = WrongAt(q, ys)
  BY <1>3 DEF Decoded
<1> QED BY <1>2, <1>4, <1>5, <1>6, WrongAtType

\* rs_decode returns a record of its type.
LEMMA DecodeType ==
    ASSUME NEW ys \in Words, NEW d \in Nat, d < n, NEW r, r = rs_decode(ys, d, 1)
    PROVE  /\ r.secrets \in Seq(Field) /\ Len(r.secrets) \in 0 .. 1 /\ r.errors \subseteq Servers
           /\ r.ok => r.secrets[1] \in Field
<1>1. ASSUME NEW q \in Polys, r = Decoded(q, ys, 1)
      PROVE  /\ r.secrets \in Seq(Field) /\ Len(r.secrets) \in 0 .. 1 /\ r.errors \subseteq Servers
             /\ r.ok => r.secrets[1] \in Field
  BY <1>1, DecodedType
<1>2. CASE r = NotDecoded
  <2>1. <<>> \in Seq(Field) /\ Len(<<>>) = 0
    OBVIOUS
  <2>2. r.secrets = <<>> /\ r.ok = FALSE /\ r.errors = {}
    BY <1>2 DEF NotDecoded
  <2>3. 0 \in 0 .. 1
    OBVIOUS
  <2> QED BY <2>1, <2>2, <2>3
<1>3. StepThree(ys, d).q \in Polys
  BY PartialGcdIs, DivRemIs DEF StepThree
<1>4. r = NotDecoded \/ \E q \in Polys : r = Decoded(q, ys, 1)
  BY <1>3, ZeroPoly, DecodeCases
<1> QED BY <1>1, <1>2, <1>4

\* With at most t wrong shares a block opens to its secret.
LEMMA DecodesTolerated ==
    ASSUME NEW ys \in Words, NEW F \in SUBSET Servers, Cardinality(F) <= t,
           NEW d \in Nat, d <= 2*t, NEW f \in Polys, Deg(f) <= d,
           \A x \in Servers \ F : ys[x] = Evaluate(f, x),
           NEW r, r = rs_decode(ys, d, 1)
    PROVE  r.ok /\ r.secrets \in Seq(Field) /\ Len(r.secrets) = 1 /\ r.secrets[1] = Coeff(f, 0)
<1>1. n \in Nat /\ t \in Nat /\ 4*t + 1 <= n
  BY Sizes
<1>2. PICK W : W = WrongAt(f, ys)
  OBVIOUS
<1>3. /\ W \in SUBSET Servers /\ Cardinality(W) \in Nat
      /\ \A x \in Servers : x \notin W <=> Evaluate(f, x) = ys[x]
  BY <1>2, WrongAtType
<1>4. W \subseteq F
  BY <1>3
<1>5. Cardinality(W) <= Cardinality(F) /\ Cardinality(F) \in Nat
  BY <1>4, ServersIn, FS_Subset
<1>6. 2 * Cardinality(W) <= n - d - 1
  BY <1>1, <1>3, <1>5
<1>7. Within(f, ys, d)
  BY <1>2, <1>6 DEF Within
<1>8. d < n
  BY <1>1
<1>9. r = Decoded(f, ys, 1)
  BY <1>7, <1>8, DecodeFinds
<1> QED BY <1>9, DecodedType

\* A constant, as a polynomial.
LEMMA ConstantPoly ==
    ASSUME NEW c \in Field
    PROVE  \E f \in Polys : /\ Deg(f) <= 0 /\ Coeff(f, 0) = c
                            /\ \A x \in Int : Evaluate(f, x) = c
<1>1. PICK v : v = [k \in 0 .. 0 |-> c]
  OBVIOUS
<1>2. \A k \in 0 .. 0 : v[k] \in Field /\ v[k] = c
  BY <1>1
<1>3. 0 \in Int /\ 0 >= -1
  OBVIOUS
<1>4. PICK f : f = Poly(v, 0)
  OBVIOUS
<1>5. /\ f \in Polys /\ Len(f) <= 0+1
      /\ \A k \in Nat : Coeff(f, k) = IF k <= 0 THEN v[k] ELSE 0
  BY <1>2, <1>3, <1>4, PolyIs
<1>6. f \in Seq(Field) /\ Len(f) \in Nat
  BY <1>5 DEF Polys
<1>7. Coeff(f, 0) = c
  BY <1>2, <1>5
<1>8. ASSUME NEW x \in Int PROVE Evaluate(f, x) = c
  <2>1. PICK h : Horner(f, x, h) /\ h[0] = Evaluate(f, x) /\ \A k \in Nat : k >= Len(f) => h[k] = 0
    BY <1>6, EvalHorner
  <2>2. \A k \in Nat : h[k] = Mod(Coeff(f, k) + x * h[k+1])
    BY <2>1 DEF Horner
  <2>3. h[1] = 0
    BY <2>1, <1>5, <1>6
  <2>4. c + x * 0 = c /\ 0+1 = 1
    BY FieldInt
  <2>5. h[0] = Mod(c)
    BY <2>2, <2>3, <2>4, <1>7
  <2> QED BY <2>1, <2>5, ModOf
<1>9. Deg(f) <= 0
  BY <1>5, <1>6 DEF Deg
<1> QED BY <1>5, <1>7, <1>8, <1>9

-----------------------------------------------------------------------------
(***************************************************************************)
(* The inductive invariant.                                                *)
(***************************************************************************)
LEMMA SharingType ==
    ASSUME TypeOK, NEW b \in 1 .. Blocks
    PROVE  /\ sharing[b] \in Polys /\ sharing[b] \in Seq(Field) /\ Deg(sharing[b]) <= 2*t
           /\ Secret(b) \in Field
           /\ \A x \in Servers : Evaluate(sharing[b], x) \in Field
<1>1. sharing[b] \in Sharings
  BY DEF TypeOK
<1>2. sharing[b] \in Polys /\ Deg(sharing[b]) <= 2*t
  BY <1>1, Sizes
<1>3. sharing[b] \in Seq(Field)
  BY <1>2 DEF Polys
<1>4. Secret(b) \in Field
  BY <1>3, CoeffType DEF Secret
<1> QED BY <1>2, <1>3, <1>4, ServersIn, EvalType

\* BlocksInStep holds at first.
LEMMA InitInv == Init => BlocksInStep
<1> SUFFICES ASSUME Init PROVE BlocksInStep
  OBVIOUS
<1>1. Blocks \in Nat /\ Blocks >= 1
  BY Sizes
<1>2. TypeOK
  BY <1>1 DEF Init, TypeOK, Phases
<1>3. LengthInv
  BY DEF Init, LengthInv
<1>4. SharesInv
  BY DEF Init, SharesInv
<1>5. OpenedRight /\ ReconstructedRight /\ NoOverread
  BY DEF Init, OpenedRight, ReconstructedRight, NoOverread
<1> QED BY <1>2, <1>3, <1>4, <1>5 DEF BlocksInStep

\* The faulty servers are servers.
LEMMA FaultyType ==
    ASSUME TypeOK
    PROVE  faulty \in SUBSET Servers /\ Cardinality(faulty) \in Nat
BY Sizes, ServersIn DEF TypeOK

\* The shares of a block arrive.
LEMMA ReceiveSharesInv == BlocksInStep /\ ReceiveShares => BlocksInStep'
<1> SUFFICES ASSUME BlocksInStep, ReceiveShares PROVE BlocksInStep'
  OBVIOUS
<1>1. TypeOK /\ LengthInv /\ OpenedRight /\ ReconstructedRight
  BY DEF BlocksInStep
<1>2. /\ phase = "open" /\ phase' = "decode"
      /\ UNCHANGED <<sharing, faulty, i, opened, errors, output>>
  BY DEF ReceiveShares
<1>3. i \in 1 .. Blocks /\ faulty \in SUBSET Servers
  BY <1>1, FaultyType DEF TypeOK
<1>4. PICK wrong \in [faulty -> Field] :
        shares' = [x \in Servers |-> IF x \in faulty THEN wrong[x] ELSE Evaluate(sharing[i], x)]
  BY DEF ReceiveShares
<1>5. \A x \in Servers : Evaluate(sharing[i], x) \in Field
  BY <1>1, <1>3, SharingType
<1>6. shares' \in [Servers -> Field]
  BY <1>4, <1>5
<1>7. TypeOK'
  BY <1>1, <1>2, <1>6 DEF TypeOK, Phases
<1>8. LengthInv'
  BY <1>1, <1>2 DEF LengthInv, Tolerated
<1>9. SharesInv'
  BY <1>2, <1>4 DEF SharesInv
<1>10. OpenedRight' /\ ReconstructedRight' /\ NoOverread'
  BY <1>1, <1>2 DEF OpenedRight, ReconstructedRight, NoOverread, Tolerated, Secret
<1> QED BY <1>7, <1>8, <1>9, <1>10 DEF BlocksInStep

\* A block is opened.
LEMMA OpenBlockInv == BlocksInStep /\ OpenBlock => BlocksInStep'
<1> SUFFICES ASSUME BlocksInStep, OpenBlock PROVE BlocksInStep'
  OBVIOUS
<1>1. TypeOK /\ LengthInv /\ SharesInv /\ OpenedRight /\ ReconstructedRight
  BY DEF BlocksInStep
<1>2. /\ phase = "decode" /\ shares' = <<>>
      /\ IF i < Blocks THEN phase' = "open" /\ i' = i + 1 ELSE phase' = "return" /\ i' = 1
      /\ UNCHANGED <<sharing, faulty, errors, output>>
  BY DEF OpenBlock
<1>3. PICK r : r = rs_decode(shares, 2*t, 1)
  OBVIOUS
<1>4. PICK v : v = IF r.ok THEN r.secrets[1] ELSE 0
  OBVIOUS
<1>5. opened' = Append(opened, v)
  BY <1>3, <1>4 DEF OpenBlock
<1>6. /\ i \in 1 .. Blocks /\ Blocks \in Nat /\ i \in Nat
      /\ faulty \in SUBSET Servers /\ shares \in Words
      /\ opened \in Seq(Field) /\ Len(opened) = i - 1 /\ output = <<>>
  BY <1>1, <1>2, FaultyType, Sizes DEF TypeOK, LengthInv, Words
<1>7. 2*t \in Nat /\ 2*t < n /\ t \in Nat
  BY Sizes
<1>8. v \in Field
  <2>1. r.ok => r.secrets[1] \in Field
    BY <1>3, <1>6, <1>7, DecodeType
  <2> QED BY <2>1, <1>4, ModSmall
<1>9. opened' \in Seq(Field) /\ Len(opened') = i
  BY <1>5, <1>6, <1>8
<1>10. \A b \in 1 .. i-1 : opened'[b] = opened[b]
  BY <1>5, <1>6
<1>11. opened'[i] = v
  BY <1>5, <1>6
<1>12. ASSUME Tolerated PROVE v = Secret(i)
  <2>1. Cardinality(faulty) <= t
    BY <1>12 DEF Tolerated
  <2>2. sharing[i] \in Polys /\ Deg(sharing[i]) <= 2*t
    BY <1>1, <1>6, SharingType
  <2>3. \A x \in Servers \ faulty : shares[x] = Evaluate(sharing[i], x)
    BY <1>1, <1>2 DEF SharesInv
  <2>4. r.ok /\ r.secrets[1] = Coeff(sharing[i], 0)
    <3>1. 2*t <= 2*t
      BY <1>7
    <3> QED BY <3>1, <2>1, <2>2, <2>3, <1>3, <1>6, <1>7, DecodesTolerated
  <2> QED BY <2>4, <1>4 DEF Secret
<1>13. /\ i' \in 1 .. Blocks /\ phase' \in {"open", "return"}
       /\ phase' = "open" => i' = i + 1
       /\ phase' = "return" => i' = 1
  BY <1>2, <1>6
<1>14. TypeOK'
  <2>1. Len(opened') <= Blocks /\ Len(output') <= Blocks
    BY <1>2, <1>6, <1>9
  <2> QED BY <2>1, <1>1, <1>2, <1>13 DEF TypeOK, Phases
<1>15. LengthInv'
  <2>1. output' = <<>> /\ output' \in Seq(Field) /\ Len(output') = 0
    BY <1>2, <1>6
  <2>2. phase' = "open" => Len(opened') = i' - 1
    BY <1>6, <1>9, <1>13
  <2>3. phase' = "return" => Len(opened') <= Blocks /\ Len(output') = i' - 1 /\ Len(output') <= i' - 1
    BY <1>6, <1>9, <1>13, <2>1
  <2> QED BY <2>1, <2>2, <2>3, <1>9, <1>13 DEF LengthInv
<1>16. SharesInv'
  BY <1>13 DEF SharesInv
<1>17. OpenedRight'
  <2> SUFFICES ASSUME Tolerated', NEW b \in 1 .. Len(opened') PROVE opened'[b] = Secret(b)'
    BY DEF OpenedRight
  <2>1. Tolerated /\ Secret(b)' = Secret(b)
    BY <1>2 DEF Tolerated, Secret
  <2>2. CASE b = i
    BY <2>1, <2>2, <1>11, <1>12
  <2>3. CASE b # i
    <3>1. b \in 1 .. i-1 /\ b \in 1 .. Len(opened)
      BY <2>3, <1>6, <1>9
    <3> QED BY <3>1, <2>1, <1>1, <1>10 DEF OpenedRight
  <2> QED BY <2>2, <2>3
<1>18. ReconstructedRight' /\ NoOverread'
  <2>1. Len(output') = 0
    BY <1>2, <1>6
  <2> QED BY <2>1, <1>13 DEF ReconstructedRight, NoOverread
<1> QED BY <1>14, <1>15, <1>16, <1>17, <1>18 DEF BlocksInStep

\* What the servers opened arrives.
LEMMA ReceiveOpeningsInv == BlocksInStep /\ ReceiveOpenings => BlocksInStep'
<1> SUFFICES ASSUME BlocksInStep, ReceiveOpenings PROVE BlocksInStep'
  OBVIOUS
<1>1. TypeOK /\ LengthInv /\ ReconstructedRight
  BY DEF BlocksInStep
<1>2. /\ phase = "return" /\ phase' = "reconstruct" /\ opened' = <<>>
      /\ UNCHANGED <<sharing, faulty, i, errors, output>>
  BY DEF ReceiveOpenings
<1>3. i \in 1 .. Blocks /\ faulty \in SUBSET Servers /\ Blocks \in Nat
  BY <1>1, FaultyType, Sizes DEF TypeOK
<1>4. PICK wrong \in [faulty -> Field], other \in [Servers \ faulty -> Answers] :
        shares' = [x \in Servers |->
                     IF x \in faulty THEN wrong[x]
                     ELSE IF Cardinality(faulty) <= t THEN Secret(i)
                     ELSE other[x]]
  BY DEF ReceiveOpenings
<1>5. Secret(i) \in Field
  BY <1>1, <1>3, SharingType
<1>6. \A x \in Servers \ faulty : other[x] \in Field
  BY Sizes
<1>7. shares' \in [Servers -> Field]
  BY <1>4, <1>5, <1>6
<1>8. TypeOK'
  BY <1>1, <1>2, <1>3, <1>7 DEF TypeOK, Phases
<1>9. LengthInv'
  BY <1>1, <1>2 DEF LengthInv, Tolerated
<1>10. SharesInv'
  <2> SUFFICES ASSUME NEW x \in Servers, x \notin faulty, Tolerated PROVE shares'[x] = Secret(i)
    BY <1>2 DEF SharesInv, Tolerated, Secret
  <2> QED BY <1>4 DEF Tolerated
<1>11. OpenedRight' /\ ReconstructedRight' /\ NoOverread'
  <2>1. Len(opened') = 0
    BY <1>2
  <2> QED BY <2>1, <1>1, <1>2 DEF OpenedRight, ReconstructedRight, NoOverread, Tolerated, Secret
<1> QED BY <1>8, <1>9, <1>10, <1>11 DEF BlocksInStep

\* A block of openings is reconstructed.
LEMMA ReconstructBlockInv == BlocksInStep /\ ReconstructBlock => BlocksInStep'
<1> SUFFICES ASSUME BlocksInStep, ReconstructBlock PROVE BlocksInStep'
  OBVIOUS
<1>1. TypeOK /\ LengthInv /\ SharesInv /\ OpenedRight /\ ReconstructedRight
  BY DEF BlocksInStep
<1>2. /\ phase = "reconstruct" /\ shares' = <<>>
      /\ IF i < Blocks THEN phase' = "return" /\ i' = i + 1 ELSE phase' = "check" /\ i' = i
      /\ UNCHANGED <<sharing, faulty, opened>>
  BY DEF ReconstructBlock
<1>3. PICK r : r = rs_decode(shares, 0, 1)
  OBVIOUS
<1>4. output' = output \o r.secrets /\ errors' = r.errors
  BY <1>3 DEF ReconstructBlock
<1>5. /\ i \in 1 .. Blocks /\ Blocks \in Nat /\ i \in Nat
      /\ faulty \in SUBSET Servers /\ shares \in Words /\ opened = <<>>
      /\ output \in Seq(Field) /\ Len(output) \in Nat /\ Len(output) <= i - 1
  BY <1>1, <1>2, FaultyType, Sizes DEF TypeOK, LengthInv, Words
<1>6. 0 \in Nat /\ 0 < n /\ t \in Nat /\ 0 <= 2*t
  BY Sizes
<1>7. PICK s : s = r.secrets
  OBVIOUS
<1>8. s \in Seq(Field) /\ Len(s) \in 0 .. 1 /\ r.errors \subseteq Servers
  BY <1>3, <1>5, <1>6, <1>7, DecodeType
<1>9. /\ output' \in Seq(Field) /\ Len(output') = Len(output) + Len(s)
      /\ \A b \in 1 .. Len(output) : output'[b] = output[b]
      /\ \A b \in 1 .. Len(s) : output'[Len(output) + b] = s[b]
  BY <1>4, <1>5, <1>7, <1>8
<1>10. Len(output') \in Nat /\ Len(output') <= i
  BY <1>5, <1>8, <1>9
<1>11. ASSUME Tolerated PROVE Len(s) = 1 /\ s[1] = Secret(i) /\ Len(output) = i - 1
  <2>1. Cardinality(faulty) <= t
    BY <1>11 DEF Tolerated
  <2>2. Secret(i) \in Field
    BY <1>1, <1>5, SharingType
  <2>3. PICK f \in Polys : /\ Deg(f) <= 0 /\ Coeff(f, 0) = Secret(i)
                           /\ \A x \in Int : Evaluate(f, x) = Secret(i)
    BY <2>2, ConstantPoly
  <2>4. \A x \in Servers \ faulty : shares[x] = Evaluate(f, x)
    BY <2>3, <1>1, <1>2, <1>11, ServersIn DEF SharesInv
  <2>5. Len(s) = 1 /\ s[1] = Secret(i)
    BY <2>1, <2>3, <2>4, <1>3, <1>5, <1>6, <1>7, DecodesTolerated
  <2>6. Len(output) = i - 1
    BY <1>1, <1>2, <1>11 DEF LengthInv
  <2> QED BY <2>5, <2>6
<1>12. /\ i' \in 1 .. Blocks /\ phase' \in {"return", "check"}
       /\ phase' = "return" => i' = i + 1
       /\ phase' = "check" => i' = i /\ i = Blocks
  BY <1>2, <1>5
<1>13. TypeOK'
  <2>1. Len(opened') <= Blocks /\ Len(output') <= Blocks
    BY <1>2, <1>5, <1>10
  <2> QED BY <2>1, <1>1, <1>2, <1>4, <1>8, <1>12 DEF TypeOK, Phases
<1>14. LengthInv'
  <2>1. opened' = <<>> /\ opened' \in Seq(Field) /\ Len(opened') <= Blocks
    BY <1>2, <1>5
  <2>2. phase' = "return" => Len(output') <= i' - 1
    BY <1>5, <1>10, <1>12
  <2>3. Tolerated' => Len(output') = i
    <3>1. Tolerated' => Tolerated
      BY <1>2 DEF Tolerated
    <3>2. Tolerated => Len(s) = 1 /\ Len(output) = i - 1
      BY <1>11
    <3>3. Len(s) = 1 /\ Len(output) = i - 1 => Len(output') = i
      BY <1>5, <1>9
    <3> QED BY <3>1, <3>2, <3>3
  <2>4. Tolerated' /\ phase' = "return" => Len(output') = i' - 1
    BY <2>3, <1>5, <1>12
  <2>5. Tolerated' /\ phase' = "check" => Len(output') = Blocks
    BY <2>3, <1>5, <1>12
  <2> QED BY <2>1, <2>2, <2>4, <2>5, <1>9, <1>12 DEF LengthInv
<1>15. SharesInv'
  BY <1>12 DEF SharesInv
<1>16. ReconstructedRight'
  <2> SUFFICES ASSUME Tolerated', NEW b \in 1 .. Len(output') PROVE output'[b] = Secret(b)'
    BY DEF ReconstructedRight
  <2>1. Tolerated /\ Secret(b)' = Secret(b)
    BY <1>2 DEF Tolerated, Secret
  <2>2. Len(s) = 1 /\ s[1] = Secret(i) /\ Len(output) = i - 1
    BY <2>1, <1>11
  <2>3. CASE b = i
    <3>1. output'[Len(output) + 1] = s[1] /\ Len(output) + 1 = i
      BY <2>2, <1>5, <1>9
    <3> QED BY <3>1, <2>1, <2>2, <2>3
  <2>4. CASE b # i
    <3>1. b \in 1 .. Len(output)
      BY <2>2, <2>4, <1>5, <1>9
    <3> QED BY <3>1, <2>1, <1>1, <1>9 DEF ReconstructedRight
  <2> QED BY <2>3, <2>4
<1>17. OpenedRight' /\ NoOverread'
  <2>1. Len(opened') = 0
    BY <1>2, <1>5
  <2> QED BY <2>1, <1>12 DEF OpenedRight, NoOverread
<1> QED BY <1>13, <1>14, <1>15, <1>16, <1>17 DEF BlocksInStep

\* The steps that end the call.
LEMMA StopInv == BlocksInStep /\ (AssertFails \/ Check \/ UNCHANGED vars) => BlocksInStep'
<1> SUFFICES ASSUME BlocksInStep, AssertFails \/ Check \/ UNCHANGED vars PROVE BlocksInStep'
  OBVIOUS
<1>1. TypeOK /\ LengthInv /\ SharesInv /\ OpenedRight /\ ReconstructedRight /\ NoOverread
  BY DEF BlocksInStep
<1>2. CASE UNCHANGED vars
  <2>1. UNCHANGED <<sharing, faulty, phase, i, shares, opened, errors, output>>
    BY <1>2 DEF vars
  <2> QED BY <1>1, <2>1 DEF BlocksInStep, TypeOK, LengthInv, SharesInv, OpenedRight, ReconstructedRight,
                            NoOverread, Tolerated, Secret
<1>3. CASE AssertFails \/ Check
  <2>1. /\ UNCHANGED <<sharing, faulty, i, shares, opened, errors, output>>
        /\ phase' \in {"aborted", "overread", "done"}
    BY <1>3 DEF AssertFails, Check
  <2>2. TypeOK'
    BY <1>1, <2>1 DEF TypeOK, Phases
  <2>3. LengthInv' /\ SharesInv'
    BY <1>1, <2>1 DEF LengthInv, SharesInv
  <2>4. OpenedRight' /\ ReconstructedRight'
    BY <1>1, <2>1 DEF OpenedRight, ReconstructedRight, Tolerated, Secret
  <2>5. NoOverread'
    <3> SUFFICES ASSUME Tolerated', phase' = "overread" PROVE FALSE
      BY DEF NoOverread
    <3>1. Tolerated /\ Check
      BY <2>1, <1>3 DEF Tolerated, AssertFails
    <3>2. Len(output) < Blocks /\ phase = "check"
      BY <3>1 DEF Check
    <3>3. Len(output) = Blocks
      BY <3>1, <3>2, <1>1 DEF LengthInv
    <3> QED BY <3>2, <3>3, Sizes
  <2> QED BY <2>2, <2>3, <2>4, <2>5 DEF BlocksInStep
<1> QED BY <1>2, <1>3

\* A server keeps what it opens and reconstructs in step with the blocks.
THEOREM InStep == Spec => []BlocksInStep
<1>1. Init => BlocksInStep
  BY InitInv
<1>2. BlocksInStep /\ [Next]_vars => BlocksInStep'
  <2> SUFFICES ASSUME BlocksInStep, [Next]_vars PROVE BlocksInStep'
    OBVIOUS
  <2>1. CASE ReceiveShares
    BY <2>1, ReceiveSharesInv
  <2>2. CASE OpenBlock
    BY <2>2, OpenBlockInv
  <2>3. CASE ReceiveOpenings
    BY <2>3, ReceiveOpeningsInv
  <2>4. CASE ReconstructBlock
    BY <2>4, ReconstructBlockInv
  <2>5. CASE AssertFails \/ Check \/ Stopped \/ UNCHANGED vars
    BY <2>5, StopInv DEF Stopped
  <2> QED BY <2>1, <2>2, <2>3, <2>4, <2>5 DEF Next
<1> QED BY <1>1, <1>2, PTL DEF Spec

\* Every variable has its type.
THEOREM TypeCorrect == Spec => []TypeOK
<1>1. BlocksInStep => TypeOK
  BY DEF BlocksInStep
<1> QED BY <1>1, InStep, PTL

\* At most t faulty servers do not change what a server opens.
THEOREM OpensRight == Spec => []OpenedRight
<1>1. BlocksInStep => OpenedRight
  BY DEF BlocksInStep
<1> QED BY <1>1, InStep, PTL

\* Nor what it reconstructs of what the servers opened.
THEOREM ReconstructsRight == Spec => []ReconstructedRight
<1>1. BlocksInStep => ReconstructedRight
  BY DEF BlocksInStep
<1> QED BY <1>1, InStep, PTL

\* And then it reads no element that is not there.
THEOREM ReadsWithin == Spec => []NoOverread
<1>1. BlocksInStep => NoOverread
  BY DEF BlocksInStep
<1> QED BY <1>1, InStep, PTL

\* Whatever shares a server receives, the decoder returns what a search
\* through all polynomials would.
THEOREM DecodesRight == Spec => []DecodesWithinRadius
<1>1. ASSUME NEW d \in Nat, d < n, shares \in Words PROVE MatchesSearch(d)
  BY <1>1, GaoMatchesSearch DEF MatchesSearch
<1>2. TypeOK => DecodesWithinRadius
  <2> SUFFICES ASSUME TypeOK PROVE DecodesWithinRadius
    OBVIOUS
  <2>1. 2*t \in Nat /\ 2*t < n /\ 0 \in Nat /\ 0 < n
    BY Sizes
  <2>2. phase \in {"decode", "reconstruct"} => shares \in Words
    BY DEF TypeOK, Words
  <2> QED BY <2>1, <2>2, <1>1 DEF DecodesWithinRadius
<1> QED BY <1>2, TypeCorrect, PTL

=============================================================================

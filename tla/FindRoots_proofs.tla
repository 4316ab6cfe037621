------------------------- MODULE FindRoots_proofs --------------------------
(***************************************************************************)
(* Proofs about find_roots for any prime p, any generator zeta and any     *)
(* batches: what the expansion, the squarings and the transforms mean for  *)
(* a root of the polynomial, that a call appends nothing but its roots,    *)
(* that the calls together return the messages of the batch, and that in   *)
(* each of them some shift tau makes progress.                             *)
(***************************************************************************)
EXTENDS RootFinding_proofs

-----------------------------------------------------------------------------
(***************************************************************************)
(* The expansion at -tau: h is f(x - tau), and hbar is its derivative.     *)
(***************************************************************************)
\* A constant can be taken off a polynomial: the derivative stays the same.
LEMMA LessConstant ==
    ASSUME NEW e \in Polys, NEW a \in Int
    PROVE  \E m \in Polys : /\ Len(m) <= Maximum(1, Len(e))
                            /\ \A y \in Int : Evaluate(m, y) = Mod(Evaluate(e, y) - a)
                            /\ Derivative(m) = Derivative(e)
<1>1. e \in Seq(Field) /\ Len(e) \in Nat
  BY DEF Polys
<1>2. <<1>> \in Seq(Field) /\ Len(<<1>>) = 1
  BY OnePoly DEF Polys
<1>3. PICK k : k = Scale(a, <<1>>)
  OBVIOUS
<1>4. k \in Polys /\ Len(k) <= 1
  BY <1>2, <1>3, ScaleIs
<1>5. k \in Seq(Field) /\ Len(k) \in Nat
  BY <1>4 DEF Polys
<1>6. PICK m : m = Minus(e, k)
  OBVIOUS
<1>7. /\ m \in Polys /\ Len(m) <= Maximum(Len(e), Len(k))
      /\ \A i \in Nat : Coeff(m, i) = Mod(Coeff(e, i) - Coeff(k, i))
  BY <1>1, <1>5, <1>6, MinusIs
<1>8. m \in Seq(Field) /\ Len(m) \in Nat
  BY <1>7 DEF Polys
<1>9. Len(m) <= Maximum(1, Len(e))
  BY <1>1, <1>4, <1>5, <1>7, <1>8 DEF Maximum
<1>10. \A y \in Int : Evaluate(m, y) = Mod(Evaluate(e, y) - a)
  <2> SUFFICES ASSUME NEW y \in Int PROVE Evaluate(m, y) = Mod(Evaluate(e, y) - a)
    OBVIOUS
  <2>1. Evaluate(k, y) = Mod(a * 1)
    BY <1>2, <1>3, EvalScale, OnePoly
  <2>2. a * 1 = a
    OBVIOUS
  <2>3. PICK b \in Int : b = Mod(a) /\ Mod(b) = Mod(a)
    BY ModType
  <2>4. PICK x \in Int : x = Evaluate(e, y)
    BY <1>1, EvalType
  <2>5. Evaluate(m, y) = Mod(x - b)
    BY <2>1, <2>2, <2>3, <2>4, <1>1, <1>5, <1>6, EvalMinus
  <2>6. SameDifference(x, b, a)
    BY <2>3, SameRight
  <2> QED BY <2>4, <2>5, <2>6 DEF SameDifference
<1>11. Derivative(m) = Derivative(e)
  <2>1. /\ Derivative(e) \in Polys /\ Derivative(m) \in Polys
        /\ \A i \in Nat : Coeff(Derivative(e), i) = Mod((i+1) * Coeff(e, i+1))
        /\ \A i \in Nat : Coeff(Derivative(m), i) = Mod((i+1) * Coeff(m, i+1))
    BY <1>1, <1>8, DerivIs
  <2>2. \A i \in Nat : Coeff(m, i+1) = Coeff(e, i+1)
    <3> SUFFICES ASSUME NEW i \in Nat PROVE Coeff(m, i+1) = Coeff(e, i+1)
      OBVIOUS
    <3>1. PICK j \in Nat : j = i+1 /\ j >= Len(k)
      BY <1>4, <1>5
    <3>2. Coeff(k, j) = 0
      BY <3>1, <1>5, CoeffType
    <3>3. PICK c \in Int : c = Coeff(e, j) /\ Mod(c) = c
      <4>1. j \in Int
        OBVIOUS
      <4> QED BY <4>1, <1>1, CoeffInt, ModOf
    <3>4. c - 0 = c
      OBVIOUS
    <3> QED BY <3>1, <3>2, <3>3, <3>4, <1>7
  <2>3. \A i \in Nat : Coeff(Derivative(m), i) = Coeff(Derivative(e), i)
    BY <2>1, <2>2
  <2> QED BY <2>1, <2>3, SameCoeffs
<1> QED BY <1>7, <1>9, <1>10, <1>11

\* s is the polynomial e(x + c).
IsShift(s, e, c) ==
    s \in Polys /\ Len(s) <= Len(e) /\ \A y \in Int : Evaluate(s, y) = Evaluate(e, y + c)

\* There is one.
LEMMA ShiftExists ==
    ASSUME NEW c \in Int
    PROVE  \A e \in Polys : \E s : IsShift(s, e, c)
<1> DEFINE S == {k \in Nat : \A e \in Polys : Len(e) <= k => \E s : IsShift(s, e, c)}
<1>1. ASSUME NEW e \in Polys, e = <<>> PROVE \E s : IsShift(s, e, c)
  <2>1. \A y \in Int : Evaluate(e, y) = Evaluate(e, y + c)
    <3> SUFFICES ASSUME NEW y \in Int PROVE Evaluate(e, y) = Evaluate(e, y + c)
      OBVIOUS
    <3>1. PICK z \in Int : z = y + c
      OBVIOUS
    <3> QED BY <3>1, <1>1, EvalZero
  <2>2. Len(e) <= Len(e)
    <3>1. Len(e) \in Nat
      BY DEF Polys
    <3> QED BY <3>1
  <2>3. IsShift(e, e, c)
    BY <2>1, <2>2 DEF IsShift
  <2> QED BY <2>3
<1>2. 0 \in S
  <2> SUFFICES ASSUME NEW e \in Polys, Len(e) <= 0 PROVE \E s : IsShift(s, e, c)
    OBVIOUS
  <2>1. e \in Seq(Field)
    BY DEF Polys
  <2>2. e = <<>>
    BY <2>1
  <2> QED BY <2>2, <1>1
<1>3. ASSUME NEW k \in Nat, k \in S PROVE k+1 \in S
  <2>0. \A q \in Polys : Len(q) <= k => \E s : IsShift(s, q, c)
    BY <1>3
  <2> HIDE DEF S
  <2> SUFFICES ASSUME NEW e \in Polys, Len(e) <= k+1, e # <<>> PROVE \E s : IsShift(s, e, c)
    <3>1. \A e \in Polys : Len(e) <= k+1 => \E s : IsShift(s, e, c)
      BY <1>1
    <3>2. k+1 \in Nat
      OBVIOUS
    <3> QED BY <3>1, <3>2 DEF S
  <2>1. e \in Seq(Field) /\ Len(e) \in Nat /\ Len(e) >= 1
    BY Leading
  <2>2. PICK a \in Int : a = Evaluate(e, c)
    BY <2>1, EvalType
  <2>3. PICK m \in Polys : /\ Len(m) <= Maximum(1, Len(e))
                           /\ \A y \in Int : Evaluate(m, y) = Mod(Evaluate(e, y) - a)
    BY LessConstant
  <2>4. m \in Seq(Field) /\ Len(m) \in Nat /\ Len(m) <= Len(e)
    BY <2>1, <2>3 DEF Polys, Maximum
  <2>5. Evaluate(m, c) = 0
    <3>1. a - a = 0
      OBVIOUS
    <3> QED BY <3>1, <2>2, <2>3, ModSmall
  <2>6. PICK q \in Polys : /\ Len(q) < Len(e)
                           /\ \A y \in Int : Evaluate(m, y) = Mod((y - c) * Evaluate(q, y))
    <3>1. CASE m # <<>>
      <4>1. PICK q \in Polys : /\ Deg(q) < Deg(m)
                               /\ \A y \in Int : Evaluate(m, y) = Mod((y - c) * Evaluate(q, y))
        BY <3>1, <2>5, RootSplits
      <4>2. Len(q) \in Nat
        BY DEF Polys
      <4>3. Len(q) < Len(e)
        BY <4>1, <4>2, <2>1, <2>4 DEF Deg
      <4> QED BY <4>1, <4>3
    <3>2. CASE m = <<>>
      <4>1. \A y \in Int : Evaluate(m, y) = Mod((y - c) * Evaluate(<<>>, y))
        <5> SUFFICES ASSUME NEW y \in Int PROVE Evaluate(m, y) = Mod((y - c) * Evaluate(<<>>, y))
          OBVIOUS
        <5>1. (y - c) * 0 = 0
          OBVIOUS
        <5> QED BY <5>1, <3>2, EvalZero, ModSmall
      <4>2. Len(<<>>) = 0
        OBVIOUS
      <4>3. <<>> \in Polys /\ Len(<<>>) < Len(e)
        BY <4>2, <2>1, ZeroPoly
      <4> QED BY <4>1, <4>3
    <3> QED BY <3>1, <3>2
  <2>7. q \in Seq(Field) /\ Len(q) \in Nat
    BY DEF Polys
  <2>8. Len(q) <= k
    BY <2>1, <2>6, <2>7
  <2>9. PICK u : IsShift(u, q, c)
    BY <2>0, <2>8
  <2>10. u \in Polys /\ Len(u) <= Len(q) /\ \A y \in Int : Evaluate(u, y) = Evaluate(q, y + c)
    BY <2>9 DEF IsShift
  <2>11. u \in Seq(Field) /\ Len(u) \in Nat
    BY <2>10 DEF Polys
  <2>12. PICK b : b = << (p - 0) % p, 1 >>
    OBVIOUS
  <2>13. 0 \in Field
    BY ModSmall
  <2>14. b \in Polys /\ Deg(b) = 1 /\ \A y \in Int : Evaluate(b, y) = Mod(y - 0)
    BY <2>12, <2>13, FactorIs
  <2>15. b \in Seq(Field) /\ Len(b) = 2
    <3>1. Len(b) \in Nat
      BY <2>14 DEF Polys
    <3> QED BY <3>1, <2>14 DEF Polys, Deg
  <2>16. PICK t \in Polys : t = Times(u, b) /\ Len(t) <= Len(e)
    <3>1. Times(u, b) \in Polys /\ Len(Times(u, b)) <= Maximum(0, Len(u) + Len(b) - 1)
      BY <2>11, <2>15, TimesIs
    <3>2. Len(Times(u, b)) \in Nat
      BY <3>1 DEF Polys
    <3>3. \A l, j \in Nat : j <= Maximum(0, l + 2 - 1) /\ l < Len(e) => j <= Len(e)
      BY <2>1 DEF Maximum
    <3>4. Len(u) < Len(e)
      BY <2>1, <2>6, <2>7, <2>10, <2>11
    <3> QED BY <3>1, <3>2, <3>3, <3>4, <2>11, <2>15
  <2>17. PICK o \in Int : o = -a
    OBVIOUS
  <2>18. PICK s \in Polys : /\ Len(s) <= Maximum(1, Len(t))
                            /\ \A y \in Int : Evaluate(s, y) = Mod(Evaluate(t, y) - o)
    BY LessConstant
  <2>19. Len(s) <= Len(e)
    <3>1. Len(s) \in Nat /\ Len(t) \in Nat
      BY DEF Polys
    <3> QED BY <3>1, <2>1, <2>16, <2>18 DEF Maximum
  <2>20. \A y \in Int : Evaluate(s, y) = Evaluate(e, y + c)
    <3> SUFFICES ASSUME NEW y \in Int PROVE Evaluate(s, y) = Evaluate(e, y + c)
      OBVIOUS
    <3>1. PICK z \in Int : z = y + c
      OBVIOUS
    <3>2. PICK x \in Int : x = Evaluate(q, z) /\ x = Evaluate(u, y)
      BY <3>1, <2>7, <2>10, EvalType
    <3>3. PICK ez \in Int : ez = Evaluate(e, z) /\ ez \in Field
      BY <2>1, EvalType
    <3>4. PICK r \in Int : r = x * y
      OBVIOUS
    <3>5. Evaluate(t, y) = Mod(r)
      <4>1. Evaluate(t, y) = Mod(x * Mod(y - 0))
        BY <3>2, <2>11, <2>14, <2>15, <2>16, EvalTimes
      <4>2. y - 0 = y /\ Mod(x * Mod(y)) = Mod(x * y)
        BY ModTimes
      <4> QED BY <4>1, <4>2, <3>4
    <3>6. Mod(r) = Mod(ez - a)
      <4>1. z - c = y /\ y * x = r
        BY <3>1, <3>4
      <4> QED BY <4>1, <3>2, <3>3, <2>3, <2>6
    <3>7. Evaluate(s, y) = Mod(a + Mod(r))
      <4>1. PICK d \in Int : d = Mod(r)
        BY ModType
      <4>2. d - o = a + d
        BY <2>17
      <4> QED BY <4>1, <4>2, <3>5, <2>18
    <3>8. PICK d \in Int : d = ez - a
      OBVIOUS
    <3>9. Mod(a + Mod(d)) = Mod(a + d)
      BY ModPlus
    <3>10. a + d = ez
      BY <3>8
    <3> QED BY <3>1, <3>3, <3>6, <3>7, <3>8, <3>9, <3>10, ModOf
  <2>21. IsShift(s, e, c)
    BY <2>19, <2>20 DEF IsShift
  <2> QED BY <2>21
<1>4. \A k \in Nat : k \in S
  <2> HIDE DEF S
  <2> QED BY <1>2, <1>3, Induct
<1> SUFFICES ASSUME NEW e \in Polys PROVE \E s : IsShift(s, e, c)
  OBVIOUS
<1>5. Len(e) \in Nat
  BY DEF Polys
<1>6. Len(e) \in S /\ Len(e) <= Len(e)
  BY <1>4, <1>5
<1> QED BY <1>6

\* s has the values of e at a distance c.
Shifted(s, e, c) == \A y \in Int : Evaluate(s, y) = Evaluate(e, y + c)

\* The derivative of e(x + c) is e'(x + c).
LEMMA ShiftDerivative ==
    ASSUME NEW n \in Nat, 2*n < p-2, NEW e \in Polys, Len(e) <= n+1, NEW s \in Polys, Len(s) <= n+1,
           NEW c \in Int, Shifted(s, e, c)
    PROVE  Shifted(Derivative(s), Derivative(e), c)
<1> SUFFICES ASSUME NEW y \in Int
             PROVE  Evaluate(Derivative(s), y) = Evaluate(Derivative(e), y + c)
  BY DEF Shifted
<1>1. e \in Seq(Field) /\ s \in Seq(Field) /\ Len(e) \in Nat /\ Len(s) \in Nat
  BY DEF Polys
<1>2. PICK z \in Int : z = y + c
  OBVIOUS
<1>3. PICK a \in Field : a = Mod(y)
  BY ModType
<1>4. PICK b \in Field : b = Mod(z)
  BY ModType
<1>5. a \in Int /\ b \in Int /\ Mod(a) = Mod(y) /\ Mod(b) = Mod(z)
  BY <1>3, <1>4, FieldInt, ModType
<1>6. PICK v \in Int : v = Evaluate(s, y) /\ v = Evaluate(e, z)
  BY <1>1, <1>2, EvalType DEF Shifted
<1>7. Evaluate(s, a) = v /\ Evaluate(e, b) = v
  BY <1>1, <1>5, <1>6, EvalCong
<1>8. PICK m \in Polys : /\ Len(m) <= Maximum(1, Len(e))
                         /\ \A x \in Int : Evaluate(m, x) = Mod(Evaluate(e, x) - v)
                         /\ Derivative(m) = Derivative(e)
  BY LessConstant
<1>9. PICK l \in Polys : /\ Len(l) <= Maximum(1, Len(s))
                         /\ \A x \in Int : Evaluate(l, x) = Mod(Evaluate(s, x) - v)
                         /\ Derivative(l) = Derivative(s)
  BY LessConstant
<1>10. Len(m) \in Nat /\ Len(l) \in Nat /\ Len(m) <= n+1 /\ Len(l) <= n+1
  <2>1. Len(m) \in Nat /\ Len(l) \in Nat
    BY DEF Polys
  <2>2. \A k, j \in Nat : j <= Maximum(1, k) /\ k <= n+1 => j <= n+1
    BY DEF Maximum
  <2> QED BY <2>1, <2>2, <1>1, <1>8, <1>9
<1>11. Evaluate(m, b) = 0 /\ Evaluate(l, a) = 0
  <2>1. v - v = 0
    OBVIOUS
  <2> QED BY <2>1, <1>5, <1>7, <1>8, <1>9, ModSmall
<1>12. Deg(m) < p /\ Deg(l) < p
  BY <1>10, PrimeSize DEF Deg
<1>13. \A k, j \in Nat : j <= Maximum(0, k - 1) /\ k <= n+1 => j <= n
  BY DEF Maximum
<1>14. PICK q \in Polys : /\ Len(q) <= n
                          /\ \A x \in Int : Evaluate(m, x) = Mod((x - b) * Evaluate(q, x))
                          /\ Evaluate(Derivative(m), b) = Evaluate(q, b)
  <2>1. PICK q \in Polys : /\ Len(q) <= Maximum(0, Len(m) - 1)
                           /\ \A x \in Int : Evaluate(m, x) = Mod((x - b) * Evaluate(q, x))
                           /\ Evaluate(Derivative(m), b) = Evaluate(q, b)
    BY <1>11, <1>12, AnyRootFactor
  <2>2. Len(q) \in Nat
    BY DEF Polys
  <2>3. Len(q) <= n
    BY <2>1, <2>2, <1>10, <1>13
  <2> QED BY <2>1, <2>3
<1>15. PICK r \in Polys : /\ Len(r) <= n
                          /\ \A x \in Int : Evaluate(l, x) = Mod((x - a) * Evaluate(r, x))
                          /\ Evaluate(Derivative(l), a) = Evaluate(r, a)
  <2>1. PICK r \in Polys : /\ Len(r) <= Maximum(0, Len(l) - 1)
                           /\ \A x \in Int : Evaluate(l, x) = Mod((x - a) * Evaluate(r, x))
                           /\ Evaluate(Derivative(l), a) = Evaluate(r, a)
    BY <1>11, <1>12, AnyRootFactor
  <2>2. Len(r) \in Nat
    BY DEF Polys
  <2>3. Len(r) <= n
    BY <2>1, <2>2, <1>10, <1>13
  <2> QED BY <2>1, <2>3
<1>16. PICK u : IsShift(u, q, c)
  BY ShiftExists
<1>17. u \in Polys /\ Len(u) <= Len(q) /\ \A x \in Int : Evaluate(u, x) = Evaluate(q, x + c)
  BY <1>16 DEF IsShift
<1>18. /\ q \in Seq(Field) /\ r \in Seq(Field) /\ u \in Seq(Field)
       /\ Len(q) \in Nat /\ Len(r) \in Nat /\ Len(u) \in Nat
  <2>1. \A g \in Polys : g \in Seq(Field) /\ Len(g) \in Nat
    BY DEF Polys
  <2> QED BY <2>1, <1>17
<1> DEFINE T == (1 .. p-1) \ {a}
<1>19. T \in SUBSET Field /\ Cardinality(T) \in Nat /\ Cardinality(T) >= p-2
  BY WithoutTwo
<1>20. \A x \in T : Evaluate(r, x) = Evaluate(u, x)
  <2> SUFFICES ASSUME NEW x \in T PROVE Evaluate(r, x) = Evaluate(u, x)
    OBVIOUS
  <2>1. x \in Field /\ x # a
    BY <1>19
  <2>2. x \in Int
    BY <2>1, FieldInt
  <2>3. PICK w \in Int : w = x + c
    BY <2>2
  <2>4. PICK r1 \in Int : r1 = Evaluate(r, x) /\ r1 \in Field
    BY <2>2, <1>18, EvalType
  <2>5. PICK u1 \in Int : u1 = Evaluate(u, x) /\ u1 = Evaluate(q, w) /\ u1 \in Field
    BY <2>2, <2>3, <1>17, <1>18, EvalType
  <2>6. PICK s1 \in Int : s1 = Evaluate(s, x) /\ s1 = Evaluate(e, w)
    BY <2>2, <2>3, <1>1, EvalType DEF Shifted
  <2>7. PICK d \in Int : d = x - a
    BY <2>2, <1>5
  <2>8. PICK d2 \in Int : d2 = w - b
    BY <1>5
  <2>9. Mod(d * r1) = Mod(s1 - v)
    BY <2>2, <2>4, <2>6, <2>7, <1>9, <1>15
  <2>10. Mod(d2 * u1) = Mod(s1 - v)
    BY <2>5, <2>6, <2>8, <1>8, <1>14
  <2>11. Mod(d) = Mod(d2)
    <3>1. SameDifference(x, a, y) /\ SameDifference(w, b, z)
      BY <2>2, <1>5, SameRight
    <3>2. x - y = w - z
      BY <2>2, <2>3, <1>2
    <3> QED BY <3>1, <3>2, <2>7, <2>8 DEF SameDifference
  <2>12. Mod(d2 * u1) = Mod(d * u1)
    BY <2>11, TimesLeft
  <2>13. Mod(d) # 0
    <3>1. ASSUME Mod(d) = 0 PROVE FALSE
      BY <3>1, <2>1, <2>7, DifferentMod
    <3> QED BY <3>1
  <2>14. Mod(r1) = Mod(u1)
    BY <2>9, <2>10, <2>12, <2>13, Cancel
  <2> QED BY <2>4, <2>5, <2>14, ModOf
<1> HIDE DEF T
<1>21. r = u
  <2>1. Deg(r) < Cardinality(T) /\ Deg(u) < Cardinality(T)
    <3>1. Deg(r) \in Int /\ Deg(u) \in Int /\ Deg(r) <= n /\ Deg(u) <= n
      <4>1. Len(r) <= n /\ Len(u) <= n
        BY <1>14, <1>15, <1>17, <1>18
      <4> QED BY <4>1, <1>18 DEF Deg
    <3> QED BY <3>1, <1>19, PrimeSize
  <2> QED BY <2>1, <1>17, <1>19, <1>20, SameValuesOn
<1>22. Evaluate(r, a) = Evaluate(q, b)
  <2>1. PICK w \in Int : w = a + c
    BY <1>5
  <2>2. Mod(w) = Mod(b)
    <3>1. SameSum(c, a, y)
      BY <1>5, SameRight
    <3>2. c + a = w /\ c + y = z
      BY <2>1, <1>2, <1>5
    <3> QED BY <3>1, <3>2, <1>5 DEF SameSum
  <2>3. Evaluate(q, w) = Evaluate(q, b)
    BY <2>2, <1>5, <1>18, EvalCong
  <2> QED BY <2>1, <2>3, <1>5, <1>17, <1>21
<1>23. Evaluate(Derivative(s), a) = Evaluate(Derivative(e), b)
  BY <1>8, <1>9, <1>14, <1>15, <1>22
<1>24. Derivative(s) \in Seq(Field) /\ Derivative(e) \in Seq(Field)
  BY <1>1, DerivIs DEF Polys
<1>25. Evaluate(Derivative(s), a) = Evaluate(Derivative(s), y)
  BY <1>5, <1>24, EvalCong
<1>26. Evaluate(Derivative(e), b) = Evaluate(Derivative(e), z)
  BY <1>5, <1>24, EvalCong
<1> QED BY <1>2, <1>23, <1>25, <1>26

\* So it goes on for all derivatives.
LEMMA ShiftDerivatives ==
    ASSUME NEW n \in Nat, 2*n < p-2, NEW e \in Polys, Len(e) <= n+1, NEW s \in Polys, Len(s) <= n+1,
           NEW c \in Int, Shifted(s, e, c), NEW d, Derivatives(d, e), NEW t, Derivatives(t, s)
    PROVE  \A i \in Nat : Shifted(t[i], d[i], c)
<1> DEFINE S == {i \in Nat : Shifted(t[i], d[i], c) /\ Len(t[i]) <= n+1 /\ Len(d[i]) <= n+1}
<1>1. /\ d[0] = e /\ t[0] = s
      /\ \A i \in Nat : /\ d[i] \in Polys /\ t[i] \in Polys
                        /\ d[i+1] = Derivative(d[i]) /\ t[i+1] = Derivative(t[i])
  BY DEF Derivatives
<1>2. 0 \in S
  BY <1>1
<1>3. ASSUME NEW g \in Polys, Len(g) <= n+1 PROVE Len(Derivative(g)) <= n+1
  <2>1. g \in Seq(Field) /\ Len(g) \in Nat
    BY DEF Polys
  <2>2. Derivative(g) \in Polys /\ Deg(Derivative(g)) <= Maximum(-1, Deg(g) - 1)
    BY <2>1, DerivIs
  <2>3. Len(Derivative(g)) \in Nat
    BY <2>2 DEF Polys
  <2> QED BY <2>1, <2>2, <2>3, <1>3 DEF Maximum, Deg
<1>4. ASSUME NEW i \in Nat, i \in S PROVE i+1 \in S
  <2>1. Shifted(t[i], d[i], c) /\ Len(t[i]) <= n+1 /\ Len(d[i]) <= n+1
    BY <1>4
  <2>2. d[i] \in Polys /\ t[i] \in Polys /\ d[i+1] = Derivative(d[i]) /\ t[i+1] = Derivative(t[i])
    BY <1>1
  <2>3. Shifted(t[i+1], d[i+1], c)
    BY <2>1, <2>2, ShiftDerivative
  <2>4. Len(t[i+1]) <= n+1 /\ Len(d[i+1]) <= n+1
    BY <2>1, <2>2, <1>3
  <2>5. i+1 \in Nat
    OBVIOUS
  <2> QED BY <2>3, <2>4, <2>5
<1>5. \A i \in Nat : i \in S
  <2> HIDE DEF S
  <2> QED BY <1>2, <1>4, Induct
<1> QED BY <1>5

\* The coefficients of the derivatives.
LEMMA DerivedCoeffs ==
    ASSUME NEW s \in Polys, NEW t, Derivatives(t, s), NEW q, Factorials(q)
    PROVE  \A i \in Nat : \A m \in Nat : Mod(q[m] * Coeff(t[i], m)) = Mod(q[m+i] * Coeff(s, m+i))
<1> DEFINE S == {i \in Nat : \A m \in Nat : Mod(q[m] * Coeff(t[i], m)) = Mod(q[m+i] * Coeff(s, m+i))}
<1>1. t[0] = s /\ \A i \in Nat : t[i] \in Polys /\ t[i+1] = Derivative(t[i])
  BY DEF Derivatives
<1>2. 0 \in S
  <2> SUFFICES ASSUME NEW m \in Nat PROVE Mod(q[m] * Coeff(t[0], m)) = Mod(q[m+0] * Coeff(s, m+0))
    OBVIOUS
  <2>1. m+0 = m
    OBVIOUS
  <2> QED BY <2>1, <1>1
<1>3. ASSUME NEW i \in Nat, i \in S PROVE i+1 \in S
  <2>0. \A m \in Nat : Mod(q[m] * Coeff(t[i], m)) = Mod(q[m+i] * Coeff(s, m+i))
    BY <1>3
  <2> HIDE DEF S
  <2>1. \A m \in Nat : Mod(q[m] * Coeff(t[i+1], m)) = Mod(q[m+(i+1)] * Coeff(s, m+(i+1)))
    <3> SUFFICES ASSUME NEW m \in Nat
                 PROVE  Mod(q[m] * Coeff(t[i+1], m)) = Mod(q[m+(i+1)] * Coeff(s, m+(i+1)))
      OBVIOUS
    <3>1. t[i] \in Seq(Field) /\ t[i+1] = Derivative(t[i])
      BY <1>1 DEF Polys
    <3>2. m \in Int /\ m+1 \in Nat /\ m+1 \in Int /\ (m+1)+i = m+(i+1)
      OBVIOUS
    <3>3. PICK c \in Int : c = Coeff(t[i], m+1)
      BY <3>1, <3>2, CoeffInt
    <3>4. Coeff(t[i+1], m) = Mod((m+1) * c)
      BY <3>1, <3>3, DerivIs
    <3>5. PICK a \in Int : a = q[m]
      BY FieldInt DEF Factorials
    <3>6. PICK k \in Int : k = m+1
      BY <3>2
    <3>7. PICK b \in Int : b = q[m+1] /\ b = Mod(k * a)
      BY <3>2, <3>5, <3>6, FieldInt DEF Factorials
    <3>8. PICK x \in Int : x = k * c
      OBVIOUS
    <3>9. PICK y \in Int : y = k * a
      OBVIOUS
    <3>10. Mod(a * Mod(x)) = Mod(a * x)
      BY ModTimes
    <3>11. Mod(b * c) = Mod(y * c)
      <4>1. Mod(b) = Mod(y)
        BY <3>7, <3>9, ModType
      <4> QED BY <4>1, TimesLeft
    <3>12. a * x = y * c
      BY <3>8, <3>9
    <3>13. Mod(a * Coeff(t[i+1], m)) = Mod(b * c)
      BY <3>4, <3>6, <3>8, <3>10, <3>11, <3>12
    <3>14. Mod(q[m+1] * Coeff(t[i], m+1)) = Mod(q[(m+1)+i] * Coeff(s, (m+1)+i))
      BY <3>2, <2>0
    <3> QED BY <3>2, <3>3, <3>5, <3>7, <3>13, <3>14
  <2>2. i+1 \in Nat
    OBVIOUS
  <2> QED BY <2>1, <2>2 DEF S
<1>4. \A i \in Nat : i \in S
  <2> HIDE DEF S
  <2> QED BY <1>2, <1>3, Induct
<1> QED BY <1>4

\* The value at 0 is the lowest coefficient.
LEMMA EvalAtZero ==
    ASSUME NEW e \in Seq(Field)
    PROVE  Evaluate(e, 0) = Coeff(e, 0)
<1>1. 0 \in Int /\ 0 \in Nat /\ 0+1 \in Nat
  OBVIOUS
<1>2. PICK h : /\ Horner(e, 0, h) /\ h[0] = Evaluate(e, 0)
               /\ \A i \in Nat : i >= Len(e) => h[i] = 0
  BY <1>1, EvalHorner
<1>3. h[0] = Mod(Coeff(e, 0) + 0 * h[0+1]) /\ h[0+1] \in Field
  BY <1>1, <1>2 DEF Horner
<1>4. PICK c \in Int : c = Coeff(e, 0) /\ Mod(c) = c
  BY <1>1, CoeffInt, ModOf
<1>5. PICK x \in Int : x = h[0+1]
  BY <1>3, FieldInt
<1>6. c + 0 * x = c
  OBVIOUS
<1> QED BY <1>2, <1>3, <1>4, <1>5, <1>6

\* The first pair of the transform: the shifted polynomial and its
\* derivative.
THEOREM ExpansionShifts ==
    ASSUME NEW g \in Polys, g # <<>>, 2 * Deg(g) < p-2, NEW c \in Int, NEW hs,
           hs = initial_linear_expansion(g, c)
    PROVE  Shifted(hs.h, g, c) /\ hs.hbar = Derivative(hs.h)
<1>1. g \in Seq(Field) /\ Len(g) \in Nat /\ Deg(g) \in Nat
  BY Leading
<1>2. PICK n \in Nat : n = Deg(g) /\ Len(g) = n+1 /\ 2*n < p-2 /\ n < p
  <2>1. Deg(g) = Len(g) - 1
    BY DEF Deg
  <2> QED BY <2>1, <1>1, PrimeSize
<1>3. hs \in Pairs(n)
  BY <1>2, ExpansionIs
<1>4. PICK d, q : Derivatives(d, g) /\ Factorials(q) /\ ExpansionOf(hs, d, q, c, n)
  BY <1>2, ExpansionIs
<1>5. PICK s : IsShift(s, g, c)
  BY ShiftExists
<1>6. s \in Polys /\ Len(s) <= n+1 /\ Shifted(s, g, c)
  BY <1>2, <1>5 DEF IsShift, Shifted
<1>7. s \in Seq(Field) /\ Len(s) \in Nat
  BY <1>6 DEF Polys
<1>8. PICK t : Derivatives(t, s)
  BY <1>6, DerivedIs
<1>9. \A i \in Nat : d[i] \in Polys /\ t[i] \in Polys /\ t[i] \in Seq(Field)
  BY <1>4, <1>8 DEF Derivatives, Polys
<1>10. \A i \in Nat : Mod(Evaluate(d[i], c)) = Mod(q[i] * Coeff(s, i))
  <2> SUFFICES ASSUME NEW i \in Nat PROVE Mod(Evaluate(d[i], c)) = Mod(q[i] * Coeff(s, i))
    OBVIOUS
  <2>1. Shifted(t[i], d[i], c)
    <3>1. 2*n < p-2 /\ Len(g) <= n+1
      BY <1>2
    <3>2. \A j \in Nat : Shifted(t[j], d[j], c)
      BY <3>1, <1>4, <1>6, <1>8, ShiftDerivatives
    <3> QED BY <3>2
  <2>2. 0 \in Int /\ 0 + c = c
    OBVIOUS
  <2>3. Evaluate(t[i], 0) = Evaluate(d[i], c)
    BY <2>1, <2>2 DEF Shifted
  <2>4. Evaluate(t[i], 0) = Coeff(t[i], 0)
    BY <1>9, EvalAtZero
  <2>5. Mod(q[0] * Coeff(t[i], 0)) = Mod(q[0+i] * Coeff(s, 0+i))
    <3>1. \A j \in Nat : \A m \in Nat : Mod(q[m] * Coeff(t[j], m)) = Mod(q[m+j] * Coeff(s, m+j))
      BY <1>4, <1>6, <1>8, DerivedCoeffs
    <3>2. 0 \in Nat
      OBVIOUS
    <3> QED BY <3>1, <3>2
  <2>6. 0+i = i /\ q[0] = 1
    BY <1>4 DEF Factorials
  <2>7. PICK x \in Int : x = Coeff(t[i], 0)
    BY <2>2, <1>9, CoeffInt
  <2>8. 1 * x = x
    OBVIOUS
  <2> QED BY <2>3, <2>4, <2>5, <2>6, <2>7, <2>8
<1>11. ASSUME NEW x \in Int, NEW y \in Int, NEW k \in 0 .. p-1, Mod(x) = Mod(q[k] * y)
       PROVE  Mod(x * inv[q[k]]) = Mod(y)
  <2>1. q[k] \in 1 .. p-1
    BY <1>4, FactorialNonzero
  <2>2. PICK a \in Int : a = q[k]
    <3>1. \A z \in 1 .. p-1 : z \in Int
      OBVIOUS
    <3> QED BY <2>1, <3>1
  <2>3. PICK b \in Int : b = inv[q[k]] /\ Mod(a * b) = 1
    <3>1. inv[q[k]] \in 1 .. p-1 /\ (q[k] * inv[q[k]]) % p = 1
      BY <2>1, InverseOf
    <3>2. \A z \in 1 .. p-1 : z \in Int
      OBVIOUS
    <3> QED BY <3>1, <3>2, <2>2 DEF Mod
  <2>4. PICK r \in Int : r = a * y
    OBVIOUS
  <2>5. Mod(x * b) = Mod(r * b)
    <3>1. Mod(x) = Mod(r)
      BY <2>2, <2>4, <1>11
    <3> QED BY <3>1, TimesLeft
  <2>6. PICK u \in Int : u = a * b
    OBVIOUS
  <2>7. r * b = y * u
    BY <2>4, <2>6
  <2>8. Mod(y * Mod(u)) = Mod(y * u)
    BY ModTimes
  <2>9. y * 1 = y
    OBVIOUS
  <2> QED BY <2>3, <2>5, <2>6, <2>7, <2>8, <2>9
<1>12. \A i \in Nat : i > n => Coeff(s, i) = 0
  BY <1>6, <1>7, CoeffType
<1>13. \A i \in Nat : Coeff(s, i) \in Int /\ Coeff(s, i) \in Field /\ i \in Int /\ i+1 \in Nat /\ Evaluate(d[i], c) \in Int
  <2> SUFFICES ASSUME NEW i \in Nat
               PROVE  Coeff(s, i) \in Int /\ Coeff(s, i) \in Field /\ i \in Int /\ i+1 \in Nat /\ Evaluate(d[i], c) \in Int
    OBVIOUS
  <2>1. i \in Int /\ i+1 \in Nat
    OBVIOUS
  <2>2. d[i] \in Seq(Field)
    BY <1>9 DEF Polys
  <2> QED BY <2>1, <2>2, <1>7, CoeffInt, EvalType
<1>14. hs.h \in Polys /\ hs.hbar \in Polys
  BY <1>3 DEF Pairs
<1>15. \A i \in Nat : Coeff(hs.h, i) = Coeff(s, i)
  <2> SUFFICES ASSUME NEW i \in Nat PROVE Coeff(hs.h, i) = Coeff(s, i)
    OBVIOUS
  <2>1. Coeff(hs.h, i) = IF i <= n THEN Mod(Evaluate(d[i], c) * inv[q[i]]) ELSE 0
    BY <1>4 DEF ExpansionOf
  <2>2. CASE i <= n
    <3>1. i \in 0 .. p-1
      BY <2>2, <1>2, PrimeSize
    <3>2. Mod(Evaluate(d[i], c) * inv[q[i]]) = Mod(Coeff(s, i))
      <4>1. PICK x \in Int : x = Evaluate(d[i], c)
        BY <1>13
      <4>2. PICK y \in Int : y = Coeff(s, i)
        BY <1>13
      <4>3. Mod(x) = Mod(q[i] * y)
        BY <4>1, <4>2, <1>10
      <4>4. Mod(x * inv[q[i]]) = Mod(y)
        BY <4>3, <3>1, <1>11
      <4> QED BY <4>1, <4>2, <4>4
    <3> QED BY <3>2, <2>1, <2>2, <1>13, ModOf
  <2>3. CASE ~ (i <= n)
    BY <2>1, <2>3, <1>12
  <2> QED BY <2>2, <2>3
<1>16. hs.h = s
  BY <1>6, <1>14, <1>15, SameCoeffs
<1>17. Derivative(s) \in Polys /\ \A i \in Nat : Coeff(Derivative(s), i) = Mod((i+1) * Coeff(s, i+1))
  BY <1>7, DerivIs
<1>18. \A i \in Nat : Coeff(hs.hbar, i) = Coeff(Derivative(s), i)
  <2> SUFFICES ASSUME NEW i \in Nat PROVE Coeff(hs.hbar, i) = Coeff(Derivative(s), i)
    OBVIOUS
  <2>1. Coeff(hs.hbar, i) = IF i <= n-1 THEN Mod(Evaluate(d[i+1], c) * inv[q[i]]) ELSE 0
    BY <1>4 DEF ExpansionOf
  <2>2. PICK y \in Int : y = Coeff(s, i+1)
    BY <1>13
  <2>3. PICK k \in Int : k = i+1
    BY <1>13
  <2>4. Coeff(Derivative(s), i) = Mod(k * y)
    BY <2>2, <2>3, <1>17
  <2>5. CASE i <= n-1
    <3>1. i \in 0 .. p-1
      BY <2>5, <1>2, PrimeSize
    <3>2. PICK a \in Int : a = q[i]
      BY <1>4, FieldInt DEF Factorials
    <3>3. PICK b \in Int : b = q[i+1] /\ b = Mod(k * a)
      BY <3>2, <2>3, <1>4, <1>13, FieldInt DEF Factorials
    <3>4. PICK x \in Int : x = Evaluate(d[i+1], c)
      BY <1>13
    <3>5. Mod(x) = Mod(b * y)
      BY <3>3, <3>4, <2>2, <1>10, <1>13
    <3>6. PICK u \in Int : u = k * a
      OBVIOUS
    <3>7. PICK v \in Int : v = k * y
      OBVIOUS
    <3>8. Mod(b * y) = Mod(u * y)
      <4>1. Mod(b) = Mod(u)
        BY <3>3, <3>6, ModType
      <4> QED BY <4>1, TimesLeft
    <3>9. u * y = a * v
      BY <3>6, <3>7
    <3>10. Mod(x) = Mod(q[i] * v)
      BY <3>2, <3>5, <3>8, <3>9
    <3>11. Mod(x * inv[q[i]]) = Mod(v)
      BY <3>1, <3>10, <1>11
    <3> QED BY <3>4, <3>7, <3>11, <2>1, <2>4, <2>5
  <2>6. CASE ~ (i <= n-1)
    <3>1. i+1 > n
      BY <2>6
    <3>2. y = 0
      BY <3>1, <2>2, <1>12, <1>13
    <3>3. k * 0 = 0
      OBVIOUS
    <3> QED BY <3>2, <3>3, <2>1, <2>4, <2>6, ModSmall
  <2> QED BY <2>5, <2>6
<1>19. hs.hbar = Derivative(s)
  BY <1>14, <1>17, <1>18, SameCoeffs
<1> QED BY <1>6, <1>16, <1>19

-----------------------------------------------------------------------------
(***************************************************************************)
(* From a root of the last transform back to a root of the polynomial.     *)
(***************************************************************************)
\* -1 is a power of zeta, and of all the zeta^(2^k) that matter.
LEMMA MinusOne ==
    ASSUME NEW k \in Nat, k + 1 <= two_exponent
    PROVE  \E d \in Nat : Mod(-1) = Power(zeta, power2[k] * d)
<1>1. two_exponent \in Nat /\ odd_factor \in Nat /\ p = odd_factor * power2[two_exponent] + 1
  BY FftPrimeAssumption
<1>2. PICK r \in Nat : r = two_exponent - 1 - k
  BY <1>1
<1>3. PICK a \in Nat : a = power2[k]
  BY Power2Is
<1>4. PICK b \in Nat : b = power2[r]
  BY Power2Is
<1>5. power2[two_exponent] = 2 * (a * b)
  <2>1. k + r \in Nat /\ (k + r) + 1 = two_exponent
    BY <1>1, <1>2
  <2>2. power2[(k + r) + 1] = 2 * power2[k + r]
    BY <2>1, Power2Is
  <2>3. power2[k + r] = a * b
    BY <1>3, <1>4, Power2Plus
  <2> QED BY <2>1, <2>2, <2>3
<1>6. PICK d \in Nat : d = odd_factor * b
  BY <1>1
<1>7. PICK m \in Nat : m = a * d
  OBVIOUS
<1>8. 2 * m = p - 1
  <2>1. odd_factor * (2 * (a * b)) = 2 * (a * (odd_factor * b))
    BY <1>1
  <2>2. p = odd_factor * (2 * (a * b)) + 1
    BY <1>1, <1>5
  <2>3. m = a * (odd_factor * b)
    BY <1>6, <1>7
  <2> QED BY <2>1, <2>2, <2>3, <1>1
<1>9. m \in 0 .. p-2 /\ 0 \in 0 .. p-2 /\ m # 0 /\ m + m = p - 1
  BY <1>8, PrimeSize
<1>10. PICK x \in Int : x = Power(zeta, m) /\ x \in Field
  BY ZetaType, PowerUnfold, FieldInt
<1>11. Mod(x * x) = 1
  <2>1. Power(zeta, m + m) = Mod(x * x)
    BY <1>10, ZetaType, PowerUnfold
  <2> QED BY <2>1, <1>9, ZetaPeriod
<1>12. x # 1
  <2>1. ASSUME x = 1 PROVE FALSE
    <3>1. Power(zeta, 0) = 1
      BY ZetaType, PowerUnfold
    <3> QED BY <3>1, <2>1, <1>9, <1>10, ZetaExponents
  <2> QED BY <2>1
<1>13. Mod((x - 1) * (x + 1)) = 0
  <2>1. PICK y \in Int : y = x * x
    OBVIOUS
  <2>2. (x - 1) * (x + 1) = y - 1
    BY <2>1
  <2>3. 1 \in Int /\ Mod(1) = 1 /\ 1 - 1 = 0
    BY ModOf, PrimeSize DEF Field
  <2>4. Mod(y - 1) = Mod(1 - 1)
    <3>1. Mod(y) = Mod(1)
      BY <2>1, <2>3, <1>11
    <3>2. \A u, v, w, z \in Int : Mod(u) = Mod(w) /\ Mod(v) = Mod(z) => Mod(u - v) = Mod(w - z)
      BY CongMinus
    <3> QED BY <3>1, <3>2, <2>3
  <2> QED BY <2>2, <2>3, <2>4, ModSmall
<1>14. Mod(x - 1) # 0
  <2>1. 1 \in Field
    BY PrimeSize DEF Field
  <2>2. ASSUME Mod(x - 1) = 0 PROVE FALSE
    BY <2>1, <2>2, <1>10, <1>12, DifferentMod
  <2> QED BY <2>2
<1>15. Mod(x + 1) = 0
  <2>1. PICK u \in Int : u = x - 1
    OBVIOUS
  <2>2. PICK v \in Int : v = x + 1
    OBVIOUS
  <2>3. Mod(u * v) = 0
    BY <2>1, <2>2, <1>13
  <2> QED BY <2>1, <2>2, <2>3, <1>14, NoZeroDivisors
<1>16. Mod(-1) = x
  <2>1. PICK v \in Int : v = x + 1
    OBVIOUS
  <2>2. Mod(v) = Mod(0) /\ 0 \in Int /\ 1 \in Int
    BY <2>1, <1>15, ModSmall
  <2>3. Mod(v - 1) = Mod(0 - 1)
    <3>1. \A a1, b1, c1, d1 \in Int : Mod(a1) = Mod(c1) /\ Mod(b1) = Mod(d1) => Mod(a1 - b1) = Mod(c1 - d1)
      BY CongMinus
    <3> QED BY <3>1, <2>2
  <2>4. v - 1 = x /\ 0 - 1 = -1
    BY <2>1
  <2> QED BY <2>3, <2>4, <1>10, ModOf
<1> QED BY <1>3, <1>6, <1>7, <1>10, <1>16

\* Minus a power of zeta^(2^k) is one.
LEMMA MinusPower ==
    ASSUME NEW k \in Nat, k + 1 <= two_exponent, NEW e \in Nat
    PROVE  \E d \in Nat : Mod(-Power(zeta, power2[k] * e)) = Power(zeta, power2[k] * d)
<1>1. PICK d \in Nat : Mod(-1) = Power(zeta, power2[k] * d)
  BY MinusOne
<1>2. PICK a \in Nat : a = power2[k]
  BY Power2Is
<1>3. PICK m \in Nat : m = a * d
  OBVIOUS
<1>4. PICK n \in Nat : n = a * e
  OBVIOUS
<1>5. PICK x \in Int : x = Power(zeta, n)
  BY ZetaType, PowerUnfold, FieldInt
<1>6. PICK y \in Int : y = Power(zeta, m)
  BY ZetaType, PowerUnfold, FieldInt
<1>7. Power(zeta, m + n) = Mod(y * x)
  BY <1>5, <1>6, ZetaType, PowerUnfold
<1>8. Mod(y * x) = Mod(-x)
  <2>1. Mod(y) = Mod(-1) /\ -1 \in Int /\ (-1) * x = -x
    <3>1. y = Mod(-1) /\ -1 \in Int
      BY <1>1, <1>2, <1>3, <1>6
    <3> QED BY <3>1, ModType
  <2>2. Mod(y * x) = Mod((-1) * x)
    BY <2>1, TimesLeft
  <2> QED BY <2>1, <2>2
<1>9. m + n = a * (d + e) /\ d + e \in Nat
  BY <1>3, <1>4
<1> QED BY <1>2, <1>4, <1>5, <1>7, <1>8, <1>9

\* Power(2, k) is 2^k.
LEMMA PowerOfTwo == ASSUME NEW ell \in Nat PROVE Power(2, ell) = Mod(power2[ell])
<1> DEFINE S == {k \in Nat : Power(2, k) = Mod(power2[k])}
<1>1. 2 \in Int
  OBVIOUS
<1>2. 0 \in S
  <2>1. Power(2, 0) = 1 /\ power2[0] = 1
    BY <1>1, PowerUnfold, Power2Is
  <2>2. Mod(1) = 1
    BY ModOf, PrimeSize DEF Field
  <2> QED BY <2>1, <2>2
<1>3. ASSUME NEW k \in Nat, k \in S PROVE k+1 \in S
  <2>1. PICK b \in Int : b = power2[k]
    BY Power2Is
  <2>2. Power(2, k+1) = Mod(2 * Power(2, k)) /\ power2[k+1] = 2 * b
    BY <2>1, <1>1, PowerUnfold, Power2Is
  <2>3. Power(2, k) = Mod(b)
    BY <2>1, <1>3
  <2>4. Mod(2 * Mod(b)) = Mod(2 * b)
    BY <1>1, ModTimes
  <2>5. k+1 \in Nat
    OBVIOUS
  <2> QED BY <2>2, <2>3, <2>4, <2>5
<1>4. \A k \in Nat : k \in S
  <2> HIDE DEF S
  <2> QED BY <1>2, <1>3, Induct
<1> QED BY <1>4

\* What one squaring does to the ratio that the tangents give.
Steps(K, v, y, D, d, g, b, B) ==
    Mod(v * v) = Mod(y) /\ Mod((2*v) * D) = Mod(d * g) /\ Mod(B) = Mod(g * b)
\* The ratio of the values of the tangents, before and after it.
RatioKept(K, v, y, D, d, b, B, c) ==
    Mod((K * v) * d) = Mod(c * b) => Mod(((2*K) * y) * D) = Mod(c * B)

\* It is kept.
LEMMA RatioStep ==
    ASSUME NEW K \in Int, NEW v \in Int, NEW y \in Int, NEW D \in Int, NEW d \in Int, NEW g \in Int,
           NEW b \in Int, NEW B \in Int, NEW c \in Int, Steps(K, v, y, D, d, g, b, B)
    PROVE  RatioKept(K, v, y, D, d, b, B, c)
<1>0. SUFFICES ASSUME Mod((K * v) * d) = Mod(c * b) PROVE Mod(((2*K) * y) * D) = Mod(c * B)
  BY DEF RatioKept
<1>1. Mod(v * v) = Mod(y) /\ Mod((2*v) * D) = Mod(d * g) /\ Mod(B) = Mod(g * b)
  BY DEF Steps
<1>2. PICK kd \in Int : kd = (2*K) * D
  OBVIOUS
<1>3. PICK vv \in Int : vv = v * v
  OBVIOUS
<1>4. Mod(y * kd) = Mod(vv * kd)
  <2>1. Mod(y) = Mod(vv)
    BY <1>1, <1>3
  <2> QED BY <2>1, TimesLeft
<1>5. PICK kv \in Int : kv = K * v
  OBVIOUS
<1>6. PICK vd \in Int : vd = (2*v) * D
  OBVIOUS
<1>7. PICK dg \in Int : dg = d * g
  OBVIOUS
<1>8. Mod(vd * kv) = Mod(dg * kv)
  <2>1. Mod(vd) = Mod(dg)
    BY <1>1, <1>6, <1>7
  <2> QED BY <2>1, TimesLeft
<1>9. PICK kvd \in Int : kvd = kv * d
  OBVIOUS
<1>10. PICK cb \in Int : cb = c * b
  OBVIOUS
<1>11. Mod(kvd * g) = Mod(cb * g)
  <2>1. Mod(kvd) = Mod(cb)
    BY <1>0, <1>5, <1>9, <1>10
  <2> QED BY <2>1, TimesLeft
<1>12. PICK gb \in Int : gb = g * b
  OBVIOUS
<1>13. Mod(B * c) = Mod(gb * c)
  <2>1. Mod(B) = Mod(gb)
    BY <1>1, <1>12
  <2> QED BY <2>1, TimesLeft
<1>14. ((2*K) * y) * D = y * kd
  BY <1>2
<1>15. vv * kd = vd * kv
  BY <1>2, <1>3, <1>5, <1>6
<1>16. dg * kv = kvd * g
  BY <1>7, <1>9
<1>17. cb * g = gb * c /\ c * B = B * c
  BY <1>10, <1>12
<1> QED BY <1>4, <1>8, <1>11, <1>13, <1>14, <1>15, <1>16, <1>17

\* A nonzero root of the transform is the square of one of the pair before it,
\* and that one is a power of zeta too.
LEMMA RootBelow ==
    ASSUME p > 2, NEW n \in Nat, NEW hs \in Pairs(n), Deg(hs.hbar) = n-1,
           NEW next, next = update_linear_expansion(hs),
           NEW k \in Nat, k + 1 <= two_exponent, NEW e \in Nat,
           NEW y \in 1 .. p-1, y = Power(zeta, power2[k+1] * e), Evaluate(next.h, y) = 0
    PROVE  \E v \in 1 .. p-1 : /\ \E e2 \in Nat : v = Power(zeta, power2[k] * e2)
                               /\ Evaluate(hs.h, v) = 0 /\ Mod(v * v) = y
<1>1. PICK a \in Nat : a = power2[k] /\ power2[k+1] = 2 * a
  BY Power2Is
<1>2. PICK m \in Nat : m = a * e
  OBVIOUS
<1>3. PICK u \in 1 .. p-1 : u = Power(zeta, m)
  BY ZetaType, PowerNonzero
<1>4. u \in Int /\ u \in Field /\ Mod(u) = u /\ Mod(u) # 0 /\ y \in Int /\ Mod(y) = y
  <2>1. u \in Field /\ y \in Field /\ u # 0
    BY DEF Field
  <2> QED BY <2>1, FieldInt, ModOf
<1>5. Mod(u * u) = y
  <2>1. Power(zeta, m + m) = Mod(u * u)
    BY <1>3, ZetaType, PowerUnfold
  <2>2. m + m = (2 * a) * e
    BY <1>2
  <2> QED BY <2>1, <2>2, <1>1
<1>6. PICK z \in Int : z = -u
  BY <1>4
<1>7. /\ next.h \in Seq(Field) /\ hs.h \in Seq(Field)
      /\ Evaluate(next.h, u * u) = Mod(Evaluate(hs.h, u) * Evaluate(hs.h, z))
  BY <1>4, <1>6, GraeffeValues
<1>8. Evaluate(next.h, u * u) = 0
  <2>1. PICK w \in Int : w = u * u
    BY <1>4
  <2>2. Mod(w) = Mod(y)
    BY <2>1, <1>4, <1>5
  <2>3. Evaluate(next.h, w) = Evaluate(next.h, y)
    BY <2>2, <1>4, <1>7, EvalCong
  <2> QED BY <2>1, <2>3
<1>9. PICK r \in Int : r = Evaluate(hs.h, u) /\ Mod(r) = r
  BY <1>4, <1>7, EvalType, ModOf
<1>10. PICK s \in Int : s = Evaluate(hs.h, z) /\ Mod(s) = s
  BY <1>7, EvalType, ModOf
<1>11. r = 0 \/ s = 0
  <2>1. Mod(r * s) = 0
    BY <1>7, <1>8, <1>9, <1>10
  <2> QED BY <2>1, <1>9, <1>10, NoZeroDivisors
<1>12. CASE r = 0
  BY <1>1, <1>2, <1>3, <1>5, <1>9, <1>12
<1>13. CASE s = 0
  <2>1. PICK d \in Nat : Mod(-Power(zeta, power2[k] * e)) = Power(zeta, power2[k] * d)
    BY MinusPower
  <2>2. PICK v : v = Power(zeta, power2[k] * d)
    OBVIOUS
  <2>3. v = Mod(z)
    BY <2>1, <2>2, <1>1, <1>2, <1>3, <1>6
  <2>4. v \in 1 .. p-1
    <3>1. a * d \in Nat
      OBVIOUS
    <3> QED BY <3>1, <2>2, <1>1, ZetaType, PowerNonzero
  <2>5. v \in Int /\ v \in Field /\ Mod(v) = Mod(z)
    <3>1. v \in Field
      BY <2>4 DEF Field
    <3> QED BY <3>1, <2>3, FieldInt, ModType
  <2>6. Evaluate(hs.h, v) = 0
    <3>1. Evaluate(hs.h, v) = Evaluate(hs.h, z)
      BY <2>5, <1>7, EvalCong
    <3> QED BY <3>1, <1>10, <1>13
  <2>7. Mod(v * v) = Mod(u * u)
    <3>1. Mod(v * v) = Mod(z * z)
      <4>1. \A a1, b1, c1, d1 \in Int : Mod(a1) = Mod(c1) /\ Mod(b1) = Mod(d1) => Mod(a1 * b1) = Mod(c1 * d1)
        BY CongTimes
      <4> QED BY <4>1, <2>5
    <3>2. z * z = u * u
      BY <1>4, <1>6
    <3> QED BY <3>1, <3>2
  <2> QED BY <2>2, <2>4, <2>6, <2>7, <1>5
<1> QED BY <1>11, <1>12, <1>13

\* x is such a root of the k-th pair: it leads to the root y of the last one,
\* and the tangent at y is that at x.
Leads(t, k, ell, y, x) ==
    /\ x \in 1 .. p-1
    /\ \E e \in Nat : x = Power(zeta, power2[k] * e)
    /\ Evaluate(t[k].h, x) = 0 /\ Evaluate(t[k].hbar, x) # 0
    /\ Power(x, power2[ell-k]) = y
    /\ \A c \in Int :
          Mod((power2[k] * x) * Evaluate(Derivative(t[k].h), x)) = Mod(c * Evaluate(t[k].hbar, x))
            => Mod((power2[ell] * y) * Evaluate(Derivative(t[ell].h), y))
                 = Mod(c * Evaluate(t[ell].hbar, y))

\* One squaring back.
LEMMA LeadsDown ==
    ASSUME NEW g \in Polys, NEW n \in Nat, n = Deg(g), 2*n < p-2, NEW tau, NEW t, Transforms(t, g, tau),
           NEW ell \in Nat, NEW k \in Nat, k < ell, k + 1 <= two_exponent, Deg(t[k].hbar) = n-1,
           NEW y, NEW x, Leads(t, k+1, ell, y, x)
    PROVE  \E v : Leads(t, k, ell, y, v)
<1>1. t[k] \in Pairs(n) /\ t[k+1] = update_linear_expansion(t[k]) /\ t[k+1] \in Pairs(n)
  BY DEF Transforms
<1>2. PICK hs \in Pairs(n) : hs = t[k]
  BY <1>1
<1>3. PICK next \in Pairs(n) : next = t[k+1] /\ next = update_linear_expansion(hs)
  BY <1>1, <1>2
<1>4. p > 2 /\ Deg(hs.hbar) = n-1
  BY <1>2, PrimeSize
<1>5. x \in 1 .. p-1 /\ (\E e \in Nat : x = Power(zeta, power2[k+1] * e))
      /\ Evaluate(next.h, x) = 0 /\ Evaluate(next.hbar, x) # 0
      /\ Power(x, power2[ell-(k+1)]) = y
  BY <1>3 DEF Leads
<1>6. \A c \in Int :
         Mod((power2[k+1] * x) * Evaluate(Derivative(next.h), x)) = Mod(c * Evaluate(next.hbar, x))
           => Mod((power2[ell] * y) * Evaluate(Derivative(t[ell].h), y)) = Mod(c * Evaluate(t[ell].hbar, y))
  BY <1>3 DEF Leads
<1>7. PICK v \in 1 .. p-1 : /\ \E e2 \in Nat : v = Power(zeta, power2[k] * e2)
                            /\ Evaluate(hs.h, v) = 0 /\ Mod(v * v) = x
  <2>1. PICK e \in Nat : x = Power(zeta, power2[k+1] * e)
    BY <1>5
  <2> QED BY <2>1, <1>3, <1>4, <1>5, RootBelow
<1>8. v \in Int /\ x \in Int /\ Mod(x) = x
  <2>1. v \in Field /\ x \in Field
    BY <1>5 DEF Field
  <2> QED BY <2>1, FieldInt, ModOf
<1>9. /\ Evaluate(next.hbar, v*v) = Mod(Evaluate(hs.h, -v) * Evaluate(hs.hbar, v))
      /\ Mod((2*v) * Evaluate(Derivative(next.h), Mod(v*v)))
           = Mod(Evaluate(Derivative(hs.h), v) * Evaluate(hs.h, -v))
  BY <1>3, <1>4, <1>7, GraeffeAtRoot
<1>10. \A hh \in Pairs(n) : hh.h \in Seq(Field) /\ hh.hbar \in Seq(Field)
  BY DEF Pairs, Polys
<1>11. Derivative(hs.h) \in Seq(Field) /\ Derivative(next.h) \in Seq(Field)
  <2>1. hs.h \in Seq(Field) /\ next.h \in Seq(Field)
    BY <1>10
  <2> QED BY <2>1, DerivIs DEF Polys
<1>12. PICK b \in Int : b = Evaluate(hs.hbar, v)
  BY <1>8, <1>10, EvalType
<1>13. PICK d \in Int : d = Evaluate(Derivative(hs.h), v)
  BY <1>8, <1>11, EvalType
<1>14. PICK r \in Int : r = Evaluate(hs.h, -v)
  <2>1. -v \in Int
    BY <1>8
  <2> QED BY <2>1, <1>10, EvalType
<1>15. PICK D \in Int : D = Evaluate(Derivative(next.h), x)
  BY <1>8, <1>11, EvalType
<1>16. PICK B \in Int : B = Evaluate(next.hbar, x) /\ Mod(B) = B
  BY <1>8, <1>10, EvalType, ModOf
<1>17. B = Mod(r * b)
  <2>1. PICK w \in Int : w = v * v
    BY <1>8
  <2>2. Evaluate(next.hbar, w) = Evaluate(next.hbar, x)
    <3>1. Mod(w) = Mod(x)
      BY <2>1, <1>7, <1>8
    <3>2. next.hbar \in Seq(Field)
      BY <1>10
    <3> QED BY <3>1, <3>2, <1>8, EvalCong
  <2> QED BY <2>1, <2>2, <1>9, <1>12, <1>14, <1>16
<1>18. b # 0
  <2>1. ASSUME b = 0 PROVE FALSE
    <3>1. r * 0 = 0
      OBVIOUS
    <3> QED BY <3>1, <2>1, <1>5, <1>16, <1>17, ModSmall
  <2> QED BY <2>1
<1>19. PICK K \in Int : K = power2[k] /\ power2[k+1] = 2 * K
  BY Power2Is
<1>20. Steps(K, v, x, D, d, r, b, B)
  <2>1. Mod((2*v) * D) = Mod(d * r)
    BY <1>7, <1>9, <1>13, <1>14, <1>15
  <2> QED BY <2>1, <1>7, <1>8, <1>16, <1>17 DEF Steps
<1>21. ASSUME NEW c \in Int, Mod((power2[k] * v) * Evaluate(Derivative(t[k].h), v))
                               = Mod(c * Evaluate(t[k].hbar, v))
       PROVE  Mod((power2[ell] * y) * Evaluate(Derivative(t[ell].h), y)) = Mod(c * Evaluate(t[ell].hbar, y))
  <2>1. Mod((K * v) * d) = Mod(c * b)
    BY <1>2, <1>12, <1>13, <1>19, <1>21
  <2>2. RatioKept(K, v, x, D, d, b, B, c)
    BY <1>8, <1>20, RatioStep
  <2>3. Mod(((2*K) * x) * D) = Mod(c * B)
    BY <2>1, <2>2 DEF RatioKept
  <2> QED BY <2>3, <1>6, <1>15, <1>16, <1>19
<1>22. Power(v, power2[ell-k]) = y
  <2>1. PICK m \in Nat : m = ell - (k+1)
    OBVIOUS
  <2>2. ell - k = m + 1
    BY <2>1
  <2>3. PICK a \in Nat : a = power2[m] /\ power2[m+1] = 2 * a
    BY Power2Is
  <2>4. Power(Power(v, 2), a) = Power(v, 2 * a)
    <3>1. 2 \in Nat
      OBVIOUS
    <3> QED BY <3>1, <1>8, PowerPower
  <2>5. Power(v, 2) = x
    <3>1. 0 \in Nat /\ 1 \in Nat /\ 0+1 = 1 /\ 1+1 = 2
      OBVIOUS
    <3>2. Power(v, 0) = 1 /\ Power(v, 1) = Mod(v * 1)
      <4>1. Power(v, 0) = 1 /\ Power(v, 0+1) = Mod(v * Power(v, 0))
        BY <3>1, <1>8, PowerUnfold
      <4> QED BY <4>1, <3>1
    <3>3. v * 1 = v /\ Mod(v) = v
      <4>1. v \in Field
        BY DEF Field
      <4> QED BY <4>1, <1>8, ModOf
    <3>4. Power(v, 1+1) = Mod(v * Power(v, 1))
      BY <3>1, <1>8, PowerUnfold
    <3> QED BY <3>1, <3>2, <3>3, <3>4, <1>7
  <2> QED BY <2>1, <2>2, <2>3, <2>4, <2>5, <1>5
<1> QED BY <1>2, <1>7, <1>12, <1>18, <1>21, <1>22 DEF Leads

\* All squarings back.
LEMMA LeadsToFirst ==
    ASSUME NEW g \in Polys, NEW n \in Nat, n = Deg(g), 2*n < p-2, NEW tau, NEW t, Transforms(t, g, tau),
           NEW ell \in Nat, ell <= two_exponent, \A k \in 0 .. ell-1 : Deg(t[k].hbar) = n-1,
           NEW y \in 1 .. p-1, NEW e \in Nat, y = Power(zeta, power2[ell] * e),
           Evaluate(t[ell].h, y) = 0, Evaluate(t[ell].hbar, y) # 0
    PROVE  \E x : Leads(t, 0, ell, y, x)
<1> DEFINE S == {j \in Nat : j <= ell => \E x : Leads(t, ell-j, ell, y, x)}
<1>1. 0 \in S
  <2>1. Power(y, power2[ell-ell]) = y
    <3>1. ell - ell = 0 /\ 0 \in Nat /\ 0+1 = 1 /\ y \in Int /\ y \in Field /\ y * 1 = y
      BY DEF Field
    <3>2. Power(y, 0) = 1 /\ Power(y, 0+1) = Mod(y * Power(y, 0)) /\ Mod(y) = y
      BY <3>1, PowerUnfold, ModOf
    <3>3. power2[0] = 1
      BY Power2Is
    <3> QED BY <3>1, <3>2, <3>3
  <2>2. Leads(t, ell, ell, y, y)
    BY <2>1 DEF Leads
  <2>3. ell - 0 = ell /\ 0 \in Nat
    OBVIOUS
  <2> QED BY <2>2, <2>3
<1>2. ASSUME NEW j \in Nat, j \in S PROVE j+1 \in S
  <2>1. SUFFICES ASSUME j+1 <= ell PROVE \E x : Leads(t, ell-(j+1), ell, y, x)
    OBVIOUS
  <2>2. PICK k \in Nat : k = ell - (j+1)
    BY <2>1
  <2>3. ell - j = k+1 /\ j <= ell /\ k < ell /\ k+1 <= two_exponent /\ k \in 0 .. ell-1
    <3>1. two_exponent \in Nat
      BY FftPrimeAssumption
    <3> QED BY <3>1, <2>1, <2>2
  <2>4. PICK x : Leads(t, k+1, ell, y, x)
    BY <2>3, <1>2
  <2>5. Deg(t[k].hbar) = n-1
    BY <2>3
  <2>6. \E v : Leads(t, k, ell, y, v)
    BY <2>3, <2>4, <2>5, LeadsDown
  <2> QED BY <2>2, <2>6
<1>3. \A j \in Nat : j \in S
  <2> HIDE DEF S
  <2> QED BY <1>1, <1>2, Induct
<1>4. ell \in S /\ ell - ell = 0
  BY <1>3
<1> QED BY <1>4

\* A power depends on the residue only.
LEMMA PowerCong ==
    ASSUME NEW a \in Int, NEW b \in Int, Mod(a) = Mod(b)
    PROVE  \A k \in Nat : Power(a, k) = Power(b, k)
<1> DEFINE S == {k \in Nat : Power(a, k) = Power(b, k)}
<1>1. 0 \in S
  BY PowerUnfold
<1>2. ASSUME NEW k \in Nat, k \in S PROVE k+1 \in S
  <2>1. Power(a, k+1) = Mod(a * Power(a, k)) /\ Power(b, k+1) = Mod(b * Power(b, k))
    BY PowerUnfold
  <2>2. PICK c \in Int : c = Power(a, k)
    BY PowerUnfold, FieldInt
  <2>3. Mod(a * c) = Mod(b * c)
    BY TimesLeft
  <2>4. k+1 \in Nat
    OBVIOUS
  <2> QED BY <2>1, <2>2, <2>3, <2>4, <1>2
<1>3. \A k \in Nat : k \in S
  <2> HIDE DEF S
  <2> QED BY <1>1, <1>2, Induct
<1> QED BY <1>3

\* With the pair hs of f, what the loop appends for the i-th root of unity is
\* a root of f, and i can be told from it.
FoundRoot(g, tau, ell, i, a) ==
    /\ a \in Field /\ Evaluate(g, a) = 0
    /\ Power(a + tau, power2[ell]) = Power(UnityZ(ell), i)

\* It is.
LEMMA RootAtIs ==
    ASSUME NEW g \in Polys, g # <<>>, NEW n \in Nat, n = Deg(g), 2*n < p-2, NEW tau \in Field,
           NEW t, Transforms(t, g, tau), NEW ell \in 1 .. two_exponent - 2, n < Chi(ell),
           \A k \in 0 .. ell-1 : Deg(t[k].hbar) = n-1, NEW i \in Hits(t[ell], ell)
    PROVE  FoundRoot(g, tau, ell, i, RootAt(t[ell], tau, ell, i))
<1>1. ell \in Nat /\ ell <= two_exponent
  <2>1. two_exponent \in Nat
    BY FftPrimeAssumption
  <2> QED BY <2>1
<1>2. t[0] \in Pairs(n) /\ t[ell] \in Pairs(n) /\ t[0] = initial_linear_expansion(g, Neg(tau))
  BY <1>1 DEF Transforms
<1>3. PICK hs \in Pairs(n) : hs = t[ell]
  BY <1>2
<1>4. PICK fst \in Pairs(n) : fst = t[0] /\ fst = initial_linear_expansion(g, Neg(tau))
  BY <1>2
<1>5. \A hh \in Pairs(n) : /\ hh.h \in Seq(Field) /\ hh.hbar \in Seq(Field)
                           /\ Len(hh.h) \in Nat /\ Len(hh.hbar) \in Nat
                           /\ Len(hh.h) <= n+1 /\ Len(hh.hbar) <= n
  <2> SUFFICES ASSUME NEW hh \in Pairs(n)
               PROVE  /\ hh.h \in Seq(Field) /\ hh.hbar \in Seq(Field)
                      /\ Len(hh.h) \in Nat /\ Len(hh.hbar) \in Nat
                      /\ Len(hh.h) <= n+1 /\ Len(hh.hbar) <= n
    OBVIOUS
  <2>1. hh.h \in Polys /\ hh.hbar \in Polys /\ Deg(hh.h) <= n /\ Deg(hh.hbar) <= n-1
    BY DEF Pairs
  <2>2. \A e \in Polys : e \in Seq(Field) /\ Len(e) \in Nat
    BY DEF Polys
  <2> QED BY <2>1, <2>2 DEF Deg
<1>6. Derivative(hs.h) \in Seq(Field) /\ Len(Derivative(hs.h)) \in Nat /\ Len(Derivative(hs.h)) <= n+1
  <2>1. hs.h \in Seq(Field) /\ Len(hs.h) \in Nat /\ Len(hs.h) <= n+1
    BY <1>5
  <2>2. Derivative(hs.h) \in Polys /\ Deg(Derivative(hs.h)) <= Maximum(-1, Deg(hs.h) - 1)
    BY <2>1, DerivIs
  <2>3. Derivative(hs.h) \in Seq(Field) /\ Len(Derivative(hs.h)) \in Nat
    BY <2>2 DEF Polys
  <2> QED BY <2>1, <2>2, <2>3 DEF Deg, Maximum
<1>7. Chi(ell) \in Nat
  <2>1. ChiZZ(ell) \in Nat
    BY ChiIs
  <2> QED BY <2>1 DEF Chi
<1>8. i \in 0 .. Chi(ell) - 1 /\ i \in Nat /\ ValueAt(hs.h, ell, i) = 0 /\ ValueAt(hs.hbar, ell, i) # 0
  BY <1>3, <1>7 DEF Hits
<1>9. PICK y \in 1 .. p-1 : y = Power(UnityZ(ell), i) /\ y = Power(zeta, power2[ell] * i)
  <2>1. \A j \in Nat : /\ Power(UnityZ(ell), j) = Power(zeta, power2[ell] * j)
                       /\ Power(UnityZ(ell), j) \in 1 .. p-1
    BY UnityIs
  <2> QED BY <2>1, <1>8
<1>10. y \in Int
  OBVIOUS
<1>11. \A e \in Seq(Field) : Len(e) \in Nat /\ Len(e) <= n+1 => ValueAt(e, ell, i) = Evaluate(e, y)
  <2> SUFFICES ASSUME NEW e \in Seq(Field), Len(e) \in Nat, Len(e) <= n+1
               PROVE  ValueAt(e, ell, i) = Evaluate(e, y)
    OBVIOUS
  <2>1. Len(e) <= Chi(ell)
    BY <1>7
  <2>2. i \in 0 .. Chi(ell) - 1
    BY <1>8
  <2>3. ValueAt(e, ell, i) = Evaluate(e, Power(UnityZ(ell), i))
    BY <2>1, <2>2, ValueAtIs
  <2> QED BY <2>3, <1>9
<1>12. PICK b \in Int : b = Evaluate(hs.hbar, y) /\ b = ValueAt(hs.hbar, ell, i) /\ b \in Field /\ b # 0
  <2>1. hs.hbar \in Seq(Field) /\ Len(hs.hbar) \in Nat /\ Len(hs.hbar) <= n+1
    BY <1>5
  <2> QED BY <2>1, <1>8, <1>10, <1>11, EvalType
<1>13. PICK D \in Int : D = Evaluate(Derivative(hs.h), y) /\ D = ValueAt(Derivative(hs.h), ell, i)
  BY <1>6, <1>10, <1>11, EvalType
<1>14. Evaluate(hs.h, y) = 0
  <2>1. hs.h \in Seq(Field) /\ Len(hs.h) \in Nat /\ Len(hs.h) <= n+1
    BY <1>5
  <2> QED BY <2>1, <1>8, <1>11
<1>15. PICK x : Leads(t, 0, ell, y, x)
  <2>1. Evaluate(t[ell].h, y) = 0 /\ Evaluate(t[ell].hbar, y) # 0
    BY <1>3, <1>12, <1>14
  <2> QED BY <2>1, <1>1, <1>8, <1>9, LeadsToFirst
<1>16. /\ x \in 1 .. p-1 /\ Evaluate(fst.h, x) = 0 /\ Power(x, power2[ell-0]) = y
       /\ \A c \in Int :
             Mod((power2[0] * x) * Evaluate(Derivative(fst.h), x)) = Mod(c * Evaluate(fst.hbar, x))
               => Mod((power2[ell] * y) * D) = Mod(c * b)
  BY <1>3, <1>4, <1>12, <1>13, <1>15 DEF Leads
<1>17. x \in Int /\ x \in Field /\ Mod(x) = x
  <2>1. x \in Field
    BY <1>16 DEF Field
  <2> QED BY <2>1, FieldInt, ModOf
<1>18. Neg(tau) \in Int /\ Neg(tau) \in Field /\ Neg(tau) = Mod(p - tau) /\ tau \in Int
  <2>1. tau \in Int /\ p \in Int
    BY FieldInt, PrimeAssumption
  <2>2. PICK z \in Int : z = p - tau
    BY <2>1
  <2>3. Neg(tau) = Mod(z)
    BY <2>2 DEF Neg, Mod
  <2>4. Mod(z) \in Field
    BY ModType
  <2> QED BY <2>1, <2>2, <2>3, <2>4, FieldInt
<1>19. PICK nt \in Int : nt = Neg(tau)
  BY <1>18
<1>20. Shifted(fst.h, g, nt) /\ fst.hbar = Derivative(fst.h)
  BY <1>4, <1>19, ExpansionShifts
<1>21. Mod((power2[ell] * y) * D) = Mod(x * b)
  <2>1. power2[0] * x = x
    <3>1. power2[0] = 1
      BY Power2Is
    <3> QED BY <3>1, <1>17
  <2> QED BY <2>1, <1>16, <1>17, <1>20
<1>22. RootAt(hs, tau, ell, i) = Mod(x + nt)
  <2>1. PICK K \in Int : K = power2[ell]
    <3>1. \A k \in Nat : power2[k] \in Nat
      BY Power2Is
    <3> QED BY <3>1, <1>1
  <2>2. PICK P \in Int : P = Power(2, ell) /\ Mod(P) = Mod(K)
    <3>1. Power(2, ell) = Mod(K)
      BY <2>1, <1>1, PowerOfTwo
    <3>2. Mod(K) \in Int /\ Mod(Mod(K)) = Mod(K)
      BY ModType
    <3> QED BY <3>1, <3>2
  <2>3. PICK c \in Int : c = inv[b] /\ Mod(b * c) = 1
    <3>1. b \in 1 .. p-1
      BY <1>12 DEF Field
    <3>2. inv[b] \in 1 .. p-1 /\ (b * inv[b]) % p = 1
      BY <3>1, InverseOf
    <3>3. \A z \in 1 .. p-1 : z \in Int
      OBVIOUS
    <3> QED BY <3>2, <3>3 DEF Mod
  <2>4. PICK q \in Int : q = P * y * D * c
    BY <1>10
  <2>5. RootAt(hs, tau, ell, i) = Mod(q + nt)
    BY <2>2, <2>3, <2>4, <1>9, <1>12, <1>13, <1>19 DEF RootAt, Mod
  <2>6. Mod(q) = Mod(x)
    <3>1. PICK r \in Int : r = y * D * c
      BY <1>10
    <3>2. Mod(P * r) = Mod(K * r)
      BY <2>2, TimesLeft
    <3>3. PICK u \in Int : u = (K * y) * D
      BY <1>10
    <3>4. PICK w \in Int : w = x * b
      BY <1>17
    <3>5. Mod(u * c) = Mod(w * c)
      <4>1. Mod(u) = Mod(w)
        BY <3>3, <3>4, <2>1, <1>21
      <4> QED BY <4>1, TimesLeft
    <3>6. PICK bc \in Int : bc = b * c
      OBVIOUS
    <3>7. Mod(x * Mod(bc)) = Mod(x * bc)
      BY <1>17, ModTimes
    <3>8. P * r = q
      BY <3>1, <2>4, <1>10
    <3>9. K * r = u * c
      BY <3>1, <3>3, <1>10
    <3>10. w * c = x * bc
      BY <3>4, <3>6, <1>17
    <3>11. x * 1 = x
      BY <1>17
    <3> QED BY <3>2, <3>5, <3>6, <3>7, <3>8, <3>9, <3>10, <3>11, <2>3
  <2>7. SameSum(nt, q, x)
    BY <2>6, <1>17, SameRight
  <2>8. nt + q = q + nt /\ nt + x = x + nt
    BY <1>17
  <2> QED BY <2>5, <2>7, <2>8 DEF SameSum
<1>23. PICK s \in Int : s = x + nt
  BY <1>17
<1>24. PICK a \in Int : a = Mod(s) /\ a \in Field /\ Mod(a) = Mod(s)
  BY ModType
<1>25. g \in Seq(Field)
  BY DEF Polys
<1>26. Evaluate(g, a) = 0
  <2>1. Evaluate(g, a) = Evaluate(g, s)
    BY <1>24, <1>25, EvalCong
  <2>2. Evaluate(fst.h, x) = Evaluate(g, s)
    BY <1>17, <1>20, <1>23 DEF Shifted
  <2> QED BY <2>1, <2>2, <1>16
<1>27. Power(a + tau, power2[ell]) = y
  <2>1. PICK z \in Int : z = a + tau
    BY <1>18
  <2>2. Mod(z) = x
    <3>1. SameSum(tau, a, s)
      BY <1>18, <1>24, SameRight
    <3>2. PICK m \in Int : m = p - tau
      BY <1>18, PrimeAssumption
    <3>3. Mod(nt) = Mod(m)
      BY <3>2, <1>18, <1>19, ModType
    <3>4. SameSum(x + tau, nt, m)
      <4>1. x + tau \in Int
        BY <1>17, <1>18
      <4> QED BY <4>1, <3>3, SameRight
    <3>5. tau + a = z /\ tau + s = (x + tau) + nt /\ (x + tau) + m = x + p
      BY <2>1, <3>2, <1>17, <1>18, <1>23, PrimeAssumption
    <3>6. Mod(x + p) = Mod(x)
      <4>1. p \in Int
        BY PrimeAssumption
      <4>2. PICK u \in Int : u = x + p
        BY <4>1, <1>17
      <4>3. u = x + p * 1 /\ 1 \in Int
        BY <4>1, <4>2, <1>17
      <4>4. u % p = x % p <=> \E k \in Int : u = x + p*k
        BY <1>17, SameMod
      <4> QED BY <4>2, <4>3, <4>4 DEF Mod
    <3> QED BY <3>1, <3>4, <3>5, <3>6, <1>17 DEF SameSum
  <2>3. \A k \in Nat : Power(z, k) = Power(x, k)
    BY <2>2, <1>17, PowerCong
  <2>4. ell - 0 = ell /\ power2[ell] \in Nat
    <3>1. \A k \in Nat : power2[k] \in Nat
      BY Power2Is
    <3> QED BY <3>1, <1>1
  <2> QED BY <2>1, <2>3, <2>4, <1>16
<1> QED BY <1>3, <1>9, <1>22, <1>23, <1>24, <1>26, <1>27 DEF FoundRoot

\* What a call appends that was not unlucky: roots of its polynomial, all
\* different.
THEOREM FindsRoots ==
    ASSUME NEW g \in Polys, g # <<>>, SmallDegree(Deg(g)), NEW tau \in Field,
           NEW ell, ell = ChooseEll(Deg(g)), ~LosesDegree(g, ell, tau),
           NEW hs, hs = tangent_graeffe_transform(g, ell, tau),
           NEW found, found = RootsFromValues(hs, tau, ell)
    PROVE  /\ found \in Seq(Field) /\ NoRepeats(found)
           /\ \A x \in Values(found) : Evaluate(g, x) = 0
<1>1. PICK n \in Nat : n = Deg(g)
  BY Leading
<1>2. ell \in 1 .. two_exponent - 2 /\ n < Chi(ell) /\ 8 * n < p - 1
  BY <1>1, ChooseIs DEF Chi
<1>3. p - 1 >= 4
  <2>1. PICK a \in Nat : a = ChiZZ(ell) /\ a >= 1 /\ (4 * a) * power2[ell] = p - 1
    BY <1>2, ChiIs
  <2>2. PICK b \in Nat : b = power2[ell] /\ b >= 1
    <3>1. two_exponent \in Nat
      BY FftPrimeAssumption
    <3>2. ell \in Nat
      BY <3>1, <1>2
    <3> QED BY <3>2, Power2Is
  <2>3. PICK c \in Nat : c = a * b
    BY <2>1, <2>2
  <2>4. c >= 1
    BY <2>1, <2>2, <2>3
  <2>5. (4 * a) * b = 4 * c
    BY <2>3
  <2> QED BY <2>1, <2>2, <2>4, <2>5
<1>4. 2 * n < p - 2 /\ n < p
  BY <1>2, <1>3, PrimeSize
<1>5. PICK t : Transforms(t, g, tau) /\ \A k \in Nat : tangent_graeffe_transform(g, k, tau) = t[k]
  BY <1>1, <1>4, TransformIs
<1>6. ell \in Nat /\ \A k \in 0 .. ell-1 : k \in Nat
  <2>1. two_exponent \in Nat
    BY FftPrimeAssumption
  <2> QED BY <2>1, <1>2
<1>7. hs = t[ell] /\ t[ell] \in Pairs(n)
  BY <1>1, <1>5, <1>6 DEF Transforms
<1>8. \A k \in 0 .. ell-1 : Deg(t[k].hbar) = n-1
  <2> SUFFICES ASSUME NEW k \in 0 .. ell-1 PROVE Deg(t[k].hbar) = n-1
    OBVIOUS
  <2>1. k \in Nat
    BY <1>6
  <2>2. ~ (Deg(tangent_graeffe_transform(g, k, tau).hbar) < Deg(g) - 1)
    BY DEF LosesDegree
  <2>3. t[k] \in Pairs(n)
    BY <2>1, <1>1, <1>5 DEF Transforms
  <2>4. Deg(t[k].hbar) <= n-1 /\ Deg(t[k].hbar) \in Int
    <3>1. t[k].hbar \in Polys /\ Deg(t[k].hbar) <= n-1
      BY <2>3 DEF Pairs
    <3>2. \A e \in Polys : Len(e) \in Nat
      BY DEF Polys
    <3> QED BY <3>1, <3>2 DEF Deg
  <2> QED BY <2>1, <2>2, <2>4, <1>1, <1>5
<1>9. \A i \in Hits(hs, ell) : FoundRoot(g, tau, ell, i, RootAt(hs, tau, ell, i))
  BY <1>1, <1>2, <1>4, <1>5, <1>7, <1>8, RootAtIs
<1>10. \A i, j \in Hits(hs, ell) : RootAt(hs, tau, ell, i) = RootAt(hs, tau, ell, j) => i = j
  <2> SUFFICES ASSUME NEW i \in Hits(hs, ell), NEW j \in Hits(hs, ell),
                      RootAt(hs, tau, ell, i) = RootAt(hs, tau, ell, j)
               PROVE  i = j
    OBVIOUS
  <2>1. Power(UnityZ(ell), i) = Power(UnityZ(ell), j)
    BY <1>9 DEF FoundRoot
  <2>2. i \in 0 .. Chi(ell) - 1 /\ j \in 0 .. Chi(ell) - 1
    BY DEF Hits
  <2>3. \A k, l \in 0 .. Chi(ell) - 1 : Power(UnityZ(ell), k) = Power(UnityZ(ell), l) => k = l
    BY <1>2, UnityIs
  <2> QED BY <2>1, <2>2, <2>3
<1>11. /\ found \in Seq(Field)
       /\ Values(found) = {RootAt(hs, tau, ell, i) : i \in Hits(hs, ell)}
       /\ NoRepeats(found)
  BY <1>2, <1>7, <1>10, FoundIs
<1>12. \A x \in Values(found) : Evaluate(g, x) = 0
  BY <1>9, <1>11 DEF FoundRoot
<1> QED BY <1>11, <1>12

-----------------------------------------------------------------------------
(***************************************************************************)
(* What has been found divides the polynomial.                             *)
(***************************************************************************)
\* A sequence without repetitions has as many values as elements.
LEMMA ManyValues ==
    ASSUME NEW s \in Seq(Field), NoRepeats(s)
    PROVE  Values(s) \in SUBSET Field /\ Cardinality(Values(s)) = Len(s) /\ Len(s) \in Nat
<1> DEFINE S == 1 .. Len(s)
           T == Values(s)
           g == [j \in S |-> s[j]]
<1>1. Len(s) \in Nat /\ \A j \in S : s[j] \in Field
  OBVIOUS
<1>2. T \in SUBSET Field
  BY <1>1 DEF Values
<1>3. \A y \in T : \E j \in S : g[j] = y
  BY DEF Values
<1>4. g \in [S -> T]
  BY DEF Values
<1>5. \A j, k \in S : g[j] = g[k] => j = k
  BY DEF NoRepeats
<1>6. IsFiniteSet(S) /\ Cardinality(S) = Len(s)
  <2>1. 1 \in Int /\ Len(s) \in Int /\ (IF 1 > Len(s) THEN 0 ELSE Len(s) - 1 + 1) = Len(s)
    BY <1>1
  <2> QED BY <2>1, FS_Interval
<1> HIDE DEF S, T, g
<1>7. g \in Bijection(S, T)
  BY <1>3, <1>4, <1>5 DEF Bijection, Injection, Surjection, IsInjective
<1>8. ExistsBijection(S, T)
  BY <1>7 DEF ExistsBijection
<1>9. Cardinality(T) = Cardinality(S)
  BY <1>6, <1>8, FS_Bijection
<1> QED BY <1>1, <1>2, <1>6, <1>9 DEF T

\* Different roots divide their polynomial, and are at most its degree.
LEMMA RootsDivide ==
    ASSUME NEW g \in Polys, g # <<>>, NEW s \in Seq(Field), NoRepeats(s),
           \A x \in Values(s) : Evaluate(g, x) = 0, NEW d, d = DivRem(g, FromRoots(s))
    PROVE  Len(s) <= Deg(g) /\ d.r = <<>>
<1>1. Values(s) \in SUBSET Field /\ Cardinality(Values(s)) = Len(s) /\ Len(s) \in Nat
  BY ManyValues
<1>2. Deg(g) \in Nat
  BY Leading
<1>3. Len(s) <= Deg(g)
  <2>1. ASSUME Cardinality(Values(s)) > Deg(g) PROVE FALSE
    BY <2>1, <1>1, ManyRoots
  <2> QED BY <2>1, <1>1, <1>2
<1>4. PICK u \in Polys : u = FromRoots(s)
  <2>1. \A i \in 1 .. Len(s) : s[i] \in Field
    OBVIOUS
  <2> QED BY <2>1, <1>1, FromRootsIs
<1>5. u # <<>> /\ Deg(u) = Len(s) /\ \A x \in Values(s) : Evaluate(u, x) = 0
  <2>1. \A i \in 1 .. Len(s) : s[i] \in Field
    OBVIOUS
  <2>2. /\ FromRoots(s) # <<>> /\ Deg(FromRoots(s)) = Len(s)
        /\ \A y \in Field : Evaluate(FromRoots(s), y) = 0 <=> \E i \in 1 .. Len(s) : y = s[i]
    BY <2>1, <1>1, FromRootsIs
  <2> QED BY <2>1, <2>2, <1>4 DEF Values
<1>6. /\ d.q \in Polys /\ d.r \in Polys /\ Deg(d.r) < Deg(u)
      /\ \A x \in Int : Evaluate(g, x) = Mod(Evaluate(d.q, x) * Evaluate(u, x) + Evaluate(d.r, x))
  BY <1>4, <1>5, DivRemIs
<1>7. \A x \in Values(s) : Evaluate(d.r, x) = 0
  <2> SUFFICES ASSUME NEW x \in Values(s) PROVE Evaluate(d.r, x) = 0
    OBVIOUS
  <2>1. x \in Int
    BY <1>1, FieldInt
  <2>2. \A e \in Polys : e \in Seq(Field)
    BY DEF Polys
  <2>3. PICK a \in Int : a = Evaluate(d.q, x)
    BY <2>1, <2>2, <1>6, EvalType
  <2>4. PICK b \in Int : b = Evaluate(d.r, x) /\ Mod(b) = b
    BY <2>1, <2>2, <1>6, EvalType, ModOf
  <2>5. 0 = Mod(a * 0 + b)
    <3>1. Evaluate(g, x) = 0 /\ Evaluate(u, x) = 0
      BY <1>5
    <3> QED BY <3>1, <2>1, <2>3, <2>4, <1>6
  <2>6. a * 0 + b = b
    OBVIOUS
  <2> QED BY <2>4, <2>5, <2>6
<1>8. d.r = <<>>
  <2>1. Deg(d.r) \in Int
    <3>1. \A e \in Polys : Len(e) \in Nat
      BY DEF Polys
    <3> QED BY <3>1, <1>6 DEF Deg
  <2>2. Cardinality(Values(s)) > Deg(d.r)
    BY <2>1, <1>1, <1>5, <1>6
  <2> QED BY <2>2, <1>1, <1>6, <1>7, ManyRoots
<1> QED BY <1>3, <1>8

-----------------------------------------------------------------------------
(***************************************************************************)
(* How often a root occurs.                                                *)
(***************************************************************************)
\* The places of a value.
Places(x, s) == {i \in 1 .. Len(s) : s[i] = x}

\* Their number.
LEMMA CountIs ==
    ASSUME NEW s \in Seq(Field), NEW x
    PROVE  /\ Count(x, s) = Cardinality(Places(x, s)) /\ IsFiniteSet(Places(x, s))
           /\ Count(x, s) \in Nat /\ (Count(x, s) = 0 <=> x \notin Values(s))
<1>1. DOMAIN s = 1 .. Len(s) /\ Len(s) \in Nat
  OBVIOUS
<1>2. Count(x, s) = Cardinality(Places(x, s))
  BY <1>1 DEF Count, Places
<1>3. IsFiniteSet(1 .. Len(s))
  <2>1. 1 \in Int /\ Len(s) \in Int
    BY <1>1
  <2> QED BY <2>1, FS_Interval
<1>4. IsFiniteSet(Places(x, s))
  <2>1. Places(x, s) \in SUBSET (1 .. Len(s))
    BY DEF Places
  <2> QED BY <2>1, <1>3, FS_Subset
<1>5. Cardinality(Places(x, s)) \in Nat /\ (Cardinality(Places(x, s)) = 0 <=> Places(x, s) = {})
  BY <1>4, FS_CardinalityType, FS_EmptySet
<1>6. Places(x, s) = {} <=> x \notin Values(s)
  BY DEF Places, Values
<1> QED BY <1>2, <1>4, <1>5, <1>6

\* Without repetitions, once at most.
LEMMA CountOnce ==
    ASSUME NEW s \in Seq(Field), NoRepeats(s), NEW x
    PROVE  Count(x, s) = IF x \in Values(s) THEN 1 ELSE 0
<1>1. CASE x \notin Values(s)
  BY <1>1, CountIs
<1>2. CASE x \in Values(s)
  <2>1. PICK j \in 1 .. Len(s) : s[j] = x
    BY <1>2 DEF Values
  <2>2. Places(x, s) = {j}
    BY <2>1 DEF Places, NoRepeats
  <2>3. Cardinality({j}) = 1
    BY FS_Singleton
  <2> QED BY <2>2, <2>3, <1>2, CountIs
<1> QED BY <1>1, <1>2

\* The elements of a concatenation x of s and u, of length m and n.
Joins(x, s, u, m, n) ==
    /\ x \in Seq(Field) /\ Len(x) = m + n
    /\ \A i \in 1 .. m : x[i] = s[i]
    /\ \A i \in 1 .. n : x[m + i] = u[i]

\* They are these.
LEMMA Joined ==
    ASSUME NEW s \in Seq(Field), NEW u \in Seq(Field), NEW x, x = s \o u,
           NEW m, m = Len(s), NEW n, n = Len(u)
    PROVE  Joins(x, s, u, m, n)
<1>1. m \in Nat /\ m = Len(s)
  OBVIOUS
<1>2. n \in Nat /\ n = Len(u)
  OBVIOUS
<1>3. PICK xs \in Seq(Field) : xs = s \o u
  <2>1. s \o u \in Seq(Field)
    OBVIOUS
  <2> QED BY <2>1
<1>4. /\ Len(xs) = m + n
      /\ \A i \in 1 .. m : xs[i] = s[i]
      /\ \A i \in 1 .. n : xs[m + i] = u[i]
  BY <1>1, <1>2, <1>3
<1> QED BY <1>1, <1>2, <1>3, <1>4 DEF Joins

\* Sequences with the same elements.
LEMMA SameSequence ==
    ASSUME NEW s \in Seq(Field), NEW u \in Seq(Field), Len(s) = Len(u),
           \A i \in 1 .. Len(s) : s[i] = u[i]
    PROVE  s = u
OBVIOUS

\* s is r with an a somewhere in it, the polynomials and the counts tell.
OneMoreRoot(s, r, a) ==
    /\ r \in Seq(Field) /\ Len(s) = Len(r) + 1
    /\ \A y \in Int : Evaluate(FromRoots(s), y) = Mod(Evaluate(FromRoots(r), y) * (y - a))
    /\ \A x : Count(x, s) = Count(x, r) + (IF x = a THEN 1 ELSE 0)

\* Each element can be taken out.
LEMMA TakeOut ==
    ASSUME NEW s \in Seq(Field), NEW j \in 1 .. Len(s)
    PROVE  \E r : OneMoreRoot(s, r, s[j])
<1>1. Len(s) \in Nat /\ j \in Nat /\ j >= 1 /\ j <= Len(s)
  OBVIOUS
<1>2. PICK m \in Nat : m = j - 1
  BY <1>1
<1>3. PICK n \in Nat : n = Len(s) - j
  BY <1>1
<1>4. PICK l \in Nat : l = Len(s) /\ l = m + 1 + n /\ j = m + 1
  BY <1>1, <1>2, <1>3
<1>5. \A i \in 1 .. l : s[i] \in Field
  <2>1. \A i \in 1 .. Len(s) : s[i] \in Field
    OBVIOUS
  <2> QED BY <2>1, <1>4
<1>6. PICK a \in Int : a = s[j] /\ a \in Field
  BY <1>4, <1>5, FieldInt
<1>7. PICK u \in Seq(Field) : Len(u) = m /\ \A i \in 1 .. m : u[i] = s[i]
  <2>1. \A i \in 1 .. m : s[i] \in Field
    BY <1>4, <1>5
  <2>2. PICK v : v = [i \in 1 .. m |-> s[i]]
    OBVIOUS
  <2>3. v \in Seq(Field) /\ Len(v) = m /\ \A i \in 1 .. m : v[i] = s[i]
    BY <2>1, <2>2
  <2> QED BY <2>3
<1>8. PICK w \in Seq(Field) : Len(w) = n /\ \A i \in 1 .. n : w[i] = s[m+1+i]
  <2>1. \A i \in 1 .. n : s[m+1+i] \in Field
    BY <1>4, <1>5
  <2>2. PICK v : v = [i \in 1 .. n |-> s[m+1+i]]
    OBVIOUS
  <2>3. v \in Seq(Field) /\ Len(v) = n /\ \A i \in 1 .. n : v[i] = s[m+1+i]
    BY <2>1, <2>2
  <2> QED BY <2>3
<1>9. PICK c \in Seq(Field) : c = << a >> /\ Len(c) = 1 /\ c[1] = a
  <2>1. << a >> \in Seq(Field) /\ Len(<< a >>) = 1 /\ << a >>[1] = a
    BY <1>6
  <2> QED BY <2>1
<1>10. PICK r \in Seq(Field) : r = u \o w /\ Joins(r, u, w, m, n)
  <2>1. PICK r : r = u \o w
    OBVIOUS
  <2>2. Len(u) = m /\ Len(w) = n
    BY <1>7, <1>8
  <2>3. Joins(r, u, w, m, n)
    BY <2>1, <2>2, Joined
  <2> QED BY <2>1, <2>3 DEF Joins
<1>15. \A i \in 1 .. m+n : r[i] = IF i <= m THEN s[i] ELSE s[i+1]
  <2> SUFFICES ASSUME NEW i \in 1 .. m+n PROVE r[i] = IF i <= m THEN s[i] ELSE s[i+1]
    OBVIOUS
  <2>1. CASE i <= m
    <3>1. i \in 1 .. m
      BY <2>1
    <3> QED BY <3>1, <2>1, <1>7, <1>10 DEF Joins
  <2>2. CASE ~ (i <= m)
    <3>1. PICK k \in 1 .. n : i = m + k /\ m+1+k = i+1
      <4>1. i - m \in 1 .. n /\ i = m + (i-m) /\ m+1+(i-m) = i+1
        BY <2>2
      <4> QED BY <4>1
    <3>2. r[m + k] = w[k] /\ w[k] = s[m+1+k]
      BY <1>8, <1>10 DEF Joins
    <3> QED BY <3>1, <3>2, <2>2
  <2> QED BY <2>1, <2>2
<1>16. PICK v \in Seq(Field) : v = u \o c /\ Len(v) = m+1 /\ \A i \in 1 .. m+1 : v[i] = s[i]
  <2>1. PICK v \in Seq(Field) : v = u \o c /\ Joins(v, u, c, m, 1)
    <3>1. PICK v : v = u \o c
      OBVIOUS
    <3>2. Len(u) = m /\ Len(c) = 1
      BY <1>7, <1>9
    <3>3. Joins(v, u, c, m, 1)
      BY <3>1, <3>2, Joined
    <3> QED BY <3>1, <3>3 DEF Joins
  <2>2. ASSUME NEW i \in 1 .. m+1 PROVE v[i] = s[i]
    <3>1. CASE i \in 1 .. m
      BY <3>1, <2>1, <1>7 DEF Joins
    <3>2. CASE i = m+1
      <4>1. 1 \in 1 .. 1
        OBVIOUS
      <4>2. v[m+1] = c[1]
        BY <4>1, <2>1 DEF Joins
      <4> QED BY <4>2, <3>2, <1>4, <1>6, <1>9
    <3> QED BY <3>1, <3>2
  <2> QED BY <2>1, <2>2 DEF Joins
<1>11. s = v \o w
  <2>1. PICK x \in Seq(Field) : x = v \o w /\ Joins(x, v, w, m+1, n)
    <3>1. PICK x : x = v \o w
      OBVIOUS
    <3>2. Len(v) = m+1 /\ Len(w) = n
      BY <1>8, <1>16
    <3>3. Joins(x, v, w, m+1, n)
      BY <3>1, <3>2, Joined
    <3> QED BY <3>1, <3>3 DEF Joins
  <2>2. ASSUME NEW i \in 1 .. l PROVE x[i] = s[i]
    <3>1. CASE i \in 1 .. m+1
      BY <3>1, <2>1, <1>16 DEF Joins
    <3>2. CASE ~ (i <= m+1)
      <4>1. PICK k \in 1 .. n : i = (m+1) + k /\ m+1+k = i
        <5>1. i - (m+1) \in 1 .. n /\ i = (m+1) + (i - (m+1))
          BY <3>2, <1>4
        <5> QED BY <5>1
      <4>2. x[i] = w[k] /\ w[k] = s[i]
        BY <4>1, <2>1, <1>8 DEF Joins
      <4> QED BY <4>2
    <3> QED BY <3>1, <3>2
  <2>3. Len(x) = Len(s) /\ \A i \in 1 .. Len(x) : x[i] = s[i]
    <3>1. Len(x) = l
      BY <2>1, <1>4 DEF Joins
    <3> QED BY <3>1, <2>2, <1>4
  <2>4. x = s
    BY <2>3, SameSequence
  <2> QED BY <2>1, <2>4
<1>12. ASSUME NEW y \in Int
       PROVE  Evaluate(FromRoots(s), y) = Mod(Evaluate(FromRoots(r), y) * (y - a))
  <2>2. \A xs \in Seq(Field) : Evaluate(FromRoots(xs), y) \in Int
    <3> SUFFICES ASSUME NEW xs \in Seq(Field) PROVE Evaluate(FromRoots(xs), y) \in Int
      OBVIOUS
    <3>1. Len(xs) \in Nat /\ \A i \in 1 .. Len(xs) : xs[i] \in Field
      OBVIOUS
    <3>2. FromRoots(xs) \in Polys
      BY <3>1, FromRootsIs
    <3>3. FromRoots(xs) \in Seq(Field)
      BY <3>2 DEF Polys
    <3> QED BY <3>3, EvalType
  <2>3. PICK fu \in Int : fu = Evaluate(FromRoots(u), y)
    BY <2>2, <1>7
  <2>4. PICK fw \in Int : fw = Evaluate(FromRoots(w), y)
    BY <2>2, <1>8
  <2>5. PICK d \in Int : d = y - a
    BY <1>6
  <2>6. Evaluate(FromRoots(c), y) = Mod(d)
    <3>1. PICK xs \in Seq(Field) : xs = c
      BY <1>9
    <3>2. PICK g : IsRootsTable(g, xs) /\ FromRoots(xs) = g[Len(xs)]
      BY RootsTableExists
    <3>3. 0 \in 0 .. Len(xs) - 1 /\ 0+1 = 1 /\ Len(xs) = 1 /\ xs[1] = a
      BY <3>1, <1>9
    <3>4. Evaluate(g[0+1], y) = Mod(Evaluate(g[0], y) * (y - xs[0+1]))
      <4>1. \A k \in 0 .. Len(xs) - 1 : Evaluate(g[k+1], y) = Mod(Evaluate(g[k], y) * (y - xs[k+1]))
        BY <3>2, RootsTableStep
      <4> QED BY <4>1, <3>3
    <3>5. g[0] = <<1>>
      BY <3>2 DEF IsRootsTable
    <3>6. Evaluate(g[0], y) = 1
      BY <3>5, OnePoly
    <3>7. 1 * d = d
      OBVIOUS
    <3> QED BY <3>1, <3>2, <3>3, <3>4, <3>6, <3>7, <2>5
  <2>7. Evaluate(FromRoots(v), y) = Mod(fu * Mod(d))
    <3>1. Evaluate(FromRoots(u \o c), y) = Mod(Evaluate(FromRoots(u), y) * Evaluate(FromRoots(c), y))
      BY FromRootsConcat
    <3> QED BY <3>1, <1>16, <2>3, <2>6
  <2>8. Evaluate(FromRoots(s), y) = Mod(Evaluate(FromRoots(v), y) * fw)
    <3>1. Evaluate(FromRoots(v \o w), y) = Mod(Evaluate(FromRoots(v), y) * Evaluate(FromRoots(w), y))
      BY FromRootsConcat
    <3> QED BY <3>1, <1>16, <2>4, <1>11
  <2>9. Evaluate(FromRoots(r), y) = Mod(fu * fw)
    <3>1. Evaluate(FromRoots(u \o w), y) = Mod(Evaluate(FromRoots(u), y) * Evaluate(FromRoots(w), y))
      BY FromRootsConcat
    <3> QED BY <3>1, <1>10, <2>3, <2>4
  <2>10. PICK p1 \in Int : p1 = fu * d
    OBVIOUS
  <2>11. PICK p2 \in Int : p2 = fu * fw
    OBVIOUS
  <2>12. Mod(fu * Mod(d)) = Mod(p1)
    BY <2>10, ModTimes
  <2>13. Mod(p1) \in Int /\ Mod(p2) \in Int /\ Mod(fw * Mod(p1)) = Mod(fw * p1) /\ Mod(d * Mod(p2)) = Mod(d * p2)
    BY ModTimes, ModType
  <2>14. Mod(p1) * fw = fw * Mod(p1) /\ Mod(p2) * d = d * Mod(p2)
    <3>1. \A e1, e2 \in Int : e1 * e2 = e2 * e1
      OBVIOUS
    <3> QED BY <3>1, <2>13
  <2>15. fw * p1 = d * p2
    BY <2>10, <2>11
  <2> QED BY <2>5, <2>7, <2>8, <2>9, <2>11, <2>12, <2>13, <2>14, <2>15
<1>13. ASSUME NEW x PROVE Count(x, s) = Count(x, r) + (IF x = a THEN 1 ELSE 0)
  <2> DEFINE k == [i \in 1 .. m+n |-> IF i <= m THEN i ELSE i+1]
             S == Places(x, r)
             T == Places(x, s) \ {j}
  <2>1. \A i \in 1 .. m+n : k[i] \in 1 .. l /\ k[i] # j /\ r[i] = s[k[i]]
    BY <1>4, <1>10, <1>15 DEF Joins
  <2>2. \A i1, i2 \in 1 .. m+n : k[i1] = k[i2] => i1 = i2
    OBVIOUS
  <2>3. \A i2 \in 1 .. l : i2 # j => \E i \in 1 .. m+n : k[i] = i2
    <3> SUFFICES ASSUME NEW i2 \in 1 .. l, i2 # j PROVE \E i \in 1 .. m+n : k[i] = i2
      OBVIOUS
    <3>1. CASE i2 <= m
      <4>1. i2 \in 1 .. m+n
        BY <3>1
      <4> QED BY <4>1, <3>1
    <3>2. CASE ~ (i2 <= m)
      <4>1. i2 - 1 \in 1 .. m+n /\ ~ (i2 - 1 <= m) /\ (i2 - 1) + 1 = i2
        BY <3>2, <1>4
      <4> QED BY <4>1
    <3> QED BY <3>1, <3>2
  <2> HIDE DEF k
  <2>4. PICK kk : kk = [i \in S |-> k[i]]
    OBVIOUS
  <2>5. S \subseteq 1 .. m+n /\ \A i \in 1 .. m+n : i \in S <=> r[i] = x
    <3>1. Len(r) = m+n
      BY <1>10 DEF Joins
    <3> QED BY <3>1 DEF Places
  <2>6. \A i \in 1 .. l : i \in T <=> s[i] = x /\ i # j
    BY <1>4 DEF Places
  <2>7. T \subseteq 1 .. l
    BY <1>4 DEF Places
  <2> HIDE DEF S, T
  <2>8. kk \in [S -> T] /\ \A i \in S : kk[i] = k[i]
    BY <2>1, <2>4, <2>5, <2>6
  <2>9. \A i1, i2 \in S : kk[i1] = kk[i2] => i1 = i2
    BY <2>2, <2>5, <2>8
  <2>10. \A i2 \in T : \E i \in S : kk[i] = i2
    <3> SUFFICES ASSUME NEW i2 \in T PROVE \E i \in S : kk[i] = i2
      OBVIOUS
    <3>1. i2 \in 1 .. l /\ s[i2] = x /\ i2 # j
      BY <2>6, <2>7
    <3>2. PICK i \in 1 .. m+n : k[i] = i2
      BY <3>1, <2>3
    <3>3. i \in S
      BY <3>1, <3>2, <2>1, <2>5
    <3> QED BY <3>2, <3>3, <2>8
  <2>11. kk \in Bijection(S, T)
    BY <2>8, <2>9, <2>10 DEF Bijection, Injection, Surjection, IsInjective
  <2>12. ExistsBijection(S, T)
    BY <2>11 DEF ExistsBijection
  <2>13. IsFiniteSet(S) /\ Count(x, r) = Cardinality(S)
    BY <1>10, CountIs DEF S
  <2>14. Cardinality(T) = Cardinality(S)
    BY <2>12, <2>13, FS_Bijection
  <2>15. IsFiniteSet(Places(x, s)) /\ Count(x, s) = Cardinality(Places(x, s)) /\ Count(x, s) \in Nat
    BY CountIs
  <2>16. Cardinality(T) = IF j \in Places(x, s) THEN Cardinality(Places(x, s)) - 1 ELSE Cardinality(Places(x, s))
    BY <2>15, FS_RemoveElement DEF T
  <2>17. j \in Places(x, s) <=> x = a
    BY <1>6 DEF Places
  <2> QED BY <2>13, <2>14, <2>15, <2>16, <2>17
<1>14. OneMoreRoot(s, r, a)
  <2>1. Len(s) = Len(r) + 1
    BY <1>4, <1>10 DEF Joins
  <2> QED BY <2>1, <1>12, <1>13 DEF OneMoreRoot
<1> QED BY <1>6, <1>14

\* The field without an element.
LEMMA WithoutOne ==
    ASSUME NEW a \in Field, NEW T, T = Field \ {a}
    PROVE  T \in SUBSET Field /\ Cardinality(T) = p-1
<1>1. IsFiniteSet(Field) /\ Cardinality(Field) = p
  <2>1. 0 \in Int /\ p-1 \in Int /\ ~ (0 > p-1) /\ p-1 - 0 + 1 = p
    BY PrimeSize
  <2> QED BY <2>1, FS_Interval DEF Field
<1> QED BY <1>1, FS_RemoveElement

\* The product of g and the x - z, z in zs, is that of the x - b, b in bs.
MakesUp(g, zs, bs) ==
    /\ Len(zs) + Deg(g) = Len(bs) /\ Len(bs) < p
    /\ \A x \in Field : Mod(Evaluate(g, x) * Evaluate(FromRoots(zs), x))
                          = Evaluate(FromRoots(bs), x)

\* ys is what g has of bs.
IsLeft(ys, g, zs, bs) ==
    /\ ys \in Seq(Field) /\ Len(ys) = Deg(g)
    /\ \A x \in Field : Evaluate(g, x) = Evaluate(FromRoots(ys), x)
    /\ \A x : Count(x, ys) + Count(x, zs) = Count(x, bs)

\* The polynomial of roots, its degree and its values.
LEMMA RootsPoly ==
    ASSUME NEW xs \in Seq(Field)
    PROVE  /\ FromRoots(xs) \in Polys /\ FromRoots(xs) # <<>> /\ Deg(FromRoots(xs)) = Len(xs)
           /\ FromRoots(xs) \in Seq(Field) /\ Len(xs) \in Nat
           /\ \A y \in Field : Evaluate(FromRoots(xs), y) = 0 <=> y \in Values(xs)
           /\ \A y \in Int : Evaluate(FromRoots(xs), y) \in Int /\ Evaluate(FromRoots(xs), y) \in Field
<1>1. Len(xs) \in Nat /\ \A i \in 1 .. Len(xs) : xs[i] \in Field
  OBVIOUS
<1>2. /\ FromRoots(xs) \in Polys /\ FromRoots(xs) # <<>> /\ Deg(FromRoots(xs)) = Len(xs)
      /\ \A y \in Field : Evaluate(FromRoots(xs), y) = 0 <=> \E i \in 1 .. Len(xs) : y = xs[i]
  BY <1>1, FromRootsIs
<1>3. FromRoots(xs) \in Seq(Field)
  BY <1>2 DEF Polys
<1>4. \A y \in Int : Evaluate(FromRoots(xs), y) \in Int /\ Evaluate(FromRoots(xs), y) \in Field
  BY <1>3, EvalType
<1>5. \A y : y \in Values(xs) <=> \E i \in 1 .. Len(xs) : y = xs[i]
  BY DEF Values
<1> QED BY <1>1, <1>2, <1>3, <1>4, <1>5

\* Taking one of the roots out on both sides.
LEMMA LessOne ==
    ASSUME NEW g \in Polys, g # <<>>, NEW zs \in Seq(Field), NEW bs \in Seq(Field), MakesUp(g, zs, bs),
           NEW a \in Field, NEW r, OneMoreRoot(zs, r, a), NEW b, OneMoreRoot(bs, b, a)
    PROVE  MakesUp(g, r, b)
<1>1. r \in Seq(Field) /\ b \in Seq(Field) /\ Len(zs) = Len(r) + 1 /\ Len(bs) = Len(b) + 1
  BY DEF OneMoreRoot
<1>2. Len(r) \in Nat /\ Len(b) \in Nat /\ Deg(g) \in Nat /\ g \in Seq(Field)
  BY <1>1, Leading
<1>3. Len(r) + Deg(g) = Len(b) /\ Len(b) < p - 1 /\ Len(b) < p
  <2>1. Len(zs) + Deg(g) = Len(bs) /\ Len(bs) < p
    BY DEF MakesUp
  <2> QED BY <2>1, <1>1, <1>2, PrimeSize
<1>4. PICK fr \in Polys : fr = FromRoots(r) /\ fr # <<>> /\ Deg(fr) = Len(r) /\ fr \in Seq(Field)
  BY <1>1, RootsPoly
<1>5. PICK fb \in Polys : fb = FromRoots(b) /\ fb # <<>> /\ Deg(fb) = Len(b) /\ fb \in Seq(Field)
  BY <1>1, RootsPoly
<1>6. PICK e \in Polys : e = Times(g, fr) /\ Deg(e) = Deg(g) + Deg(fr)
  <2>1. Times(g, fr) \in Polys
    BY <1>2, <1>4, TimesIs
  <2>2. Deg(Times(g, fr)) = Deg(g) + Deg(fr)
    BY <1>4, TimesDegree
  <2> QED BY <2>1, <2>2
<1>7. \A x \in Int : Evaluate(e, x) = Mod(Evaluate(g, x) * Evaluate(fr, x))
  BY <1>2, <1>4, <1>6, EvalTimes
<1> DEFINE T == Field \ {a}
<1>8. T \in SUBSET Field /\ Cardinality(T) = p-1
  BY WithoutOne
<1>9. \A x \in T : Evaluate(e, x) = Evaluate(fb, x)
  <2> SUFFICES ASSUME NEW x \in T PROVE Evaluate(e, x) = Evaluate(fb, x)
    OBVIOUS
  <2>1. x \in Field /\ x # a
    OBVIOUS
  <2>2. x \in Int /\ a \in Int
    BY <2>1, FieldInt
  <2>3. PICK d \in Int : d = x - a
    BY <2>2
  <2>4. Mod(d) # 0
    <3>1. ASSUME Mod(d) = 0 PROVE FALSE
      BY <3>1, <2>1, <2>3, DifferentMod
    <3> QED BY <3>1
  <2>5. PICK gx \in Int : gx = Evaluate(g, x)
    BY <2>2, <1>2, EvalType
  <2>6. PICK rx \in Int : rx = Evaluate(fr, x)
    BY <2>2, <1>4, EvalType
  <2>7. PICK bx \in Int : bx = Evaluate(fb, x) /\ Mod(bx) = bx
    BY <2>2, <1>5, EvalType, ModOf
  <2>8. Evaluate(FromRoots(zs), x) = Mod(rx * d)
    BY <2>2, <2>3, <2>6, <1>4 DEF OneMoreRoot
  <2>9. Evaluate(FromRoots(bs), x) = Mod(bx * d)
    BY <2>2, <2>3, <2>7, <1>5 DEF OneMoreRoot
  <2>10. PICK rd \in Int : rd = rx * d
    OBVIOUS
  <2>11. Mod(gx * Mod(rd)) = Mod(bx * d)
    BY <2>1, <2>5, <2>8, <2>9, <2>10 DEF MakesUp
  <2>12. Mod(gx * Mod(rd)) = Mod(gx * rd)
    BY ModTimes
  <2>13. PICK gr \in Int : gr = gx * rx
    OBVIOUS
  <2>14. gx * rd = d * gr /\ bx * d = d * bx
    BY <2>10, <2>13
  <2>15. Mod(d * gr) = Mod(d * bx)
    BY <2>11, <2>12, <2>14
  <2>16. Mod(gr) = Mod(bx)
    BY <2>4, <2>15, Cancel
  <2>17. Evaluate(e, x) = Mod(gr)
    BY <2>2, <2>5, <2>6, <2>13, <1>7
  <2> QED BY <2>7, <2>16, <2>17
<1> HIDE DEF T
<1>10. e = fb
  <2>1. Deg(e) < Cardinality(T) /\ Deg(fb) < Cardinality(T)
    BY <1>2, <1>3, <1>4, <1>5, <1>6, <1>8
  <2> QED BY <2>1, <1>8, <1>9, SameValuesOn
<1>11. \A x \in Field : Mod(Evaluate(g, x) * Evaluate(FromRoots(r), x)) = Evaluate(FromRoots(b), x)
  <2> SUFFICES ASSUME NEW x \in Field
               PROVE  Mod(Evaluate(g, x) * Evaluate(FromRoots(r), x)) = Evaluate(FromRoots(b), x)
    OBVIOUS
  <2>1. x \in Int
    BY FieldInt
  <2> QED BY <2>1, <1>4, <1>5, <1>7, <1>10
<1> QED BY <1>3, <1>11 DEF MakesUp

\* All of them: what is left are the other elements of bs, each as often as
\* it has not been taken out.
LEMMA Leftover ==
    ASSUME NEW g \in Polys, g # <<>>, NEW zs \in Seq(Field), NEW bs \in Seq(Field), MakesUp(g, zs, bs)
    PROVE  \E ys : IsLeft(ys, g, zs, bs)
<1> DEFINE S == {k \in Nat : \A z, b \in Seq(Field) :
                                Len(z) = k /\ MakesUp(g, z, b) => \E ys : IsLeft(ys, g, z, b)}
<1>1. 0 \in S
  <2> SUFFICES ASSUME NEW z \in Seq(Field), NEW b \in Seq(Field), Len(z) = 0, MakesUp(g, z, b)
               PROVE  \E ys : IsLeft(ys, g, z, b)
    OBVIOUS
  <2>1. z = <<>>
    OBVIOUS
  <2>2. ASSUME NEW x \in Field PROVE Evaluate(g, x) = Evaluate(FromRoots(b), x)
    <3>1. x \in Int
      BY FieldInt
    <3>2. Evaluate(FromRoots(z), x) = 1
      BY <3>1, <2>1, FromRootsEmpty, OnePoly
    <3>3. g \in Seq(Field)
      BY DEF Polys
    <3>4. PICK v \in Int : v = Evaluate(g, x) /\ Mod(v) = v
      BY <3>1, <3>3, EvalType, ModOf
    <3>5. v * 1 = v
      OBVIOUS
    <3> QED BY <3>2, <3>4, <3>5 DEF MakesUp
  <2>3. ASSUME NEW x PROVE Count(x, b) + Count(x, z) = Count(x, b)
    <3>1. x \notin Values(z)
      BY DEF Values
    <3>2. Count(x, z) = 0 /\ Count(x, b) \in Nat
      BY <3>1, CountIs
    <3> QED BY <3>2
  <2>4. Len(b) = Deg(g)
    <3>1. Len(z) + Deg(g) = Len(b) /\ Deg(g) \in Nat
      BY Leading DEF MakesUp
    <3> QED BY <3>1
  <2>5. IsLeft(b, g, z, b)
    BY <2>2, <2>3, <2>4 DEF IsLeft
  <2> QED BY <2>5
<1>2. ASSUME NEW k \in Nat, k \in S PROVE k+1 \in S
  <2>0. \A z, b \in Seq(Field) : Len(z) = k /\ MakesUp(g, z, b) => \E ys : IsLeft(ys, g, z, b)
    BY <1>2
  <2>1. ASSUME NEW z \in Seq(Field), NEW b \in Seq(Field), Len(z) = k+1, MakesUp(g, z, b)
        PROVE  \E ys : IsLeft(ys, g, z, b)
    <3>1. 1 \in 1 .. Len(z)
      BY <2>1
    <3>2. PICK a \in Field : a = z[1]
      BY <3>1
    <3>3. PICK r : OneMoreRoot(z, r, a)
      BY <3>1, <3>2, TakeOut
    <3>4. a \in Int
      BY FieldInt
    <3>5. PICK ra \in Int : ra = Evaluate(FromRoots(r), a)
      <4>1. r \in Seq(Field)
        BY <3>3 DEF OneMoreRoot
      <4> QED BY <4>1, <3>4, RootsPoly
    <3>6. Evaluate(FromRoots(z), a) = 0
      <4>1. Evaluate(FromRoots(z), a) = Mod(ra * (a - a))
        BY <3>3, <3>4, <3>5 DEF OneMoreRoot
      <4>2. ra * (a - a) = 0
        BY <3>4
      <4> QED BY <4>1, <4>2, ModSmall
    <3>7. Evaluate(FromRoots(b), a) = 0
      <4>1. g \in Seq(Field)
        BY DEF Polys
      <4>2. PICK ga \in Int : ga = Evaluate(g, a)
        BY <4>1, <3>4, EvalType
      <4>3. Evaluate(FromRoots(b), a) = Mod(ga * 0)
        BY <4>2, <3>6, <2>1 DEF MakesUp
      <4>4. ga * 0 = 0
        OBVIOUS
      <4> QED BY <4>3, <4>4, ModSmall
    <3>8. PICK j \in 1 .. Len(b) : b[j] = a
      <4>1. a \in Values(b)
        BY <3>7, RootsPoly
      <4> QED BY <4>1 DEF Values
    <3>9. PICK c : OneMoreRoot(b, c, a)
      BY <3>8, TakeOut
    <3>10. MakesUp(g, r, c)
      BY <2>1, <3>3, <3>9, LessOne
    <3>11. r \in Seq(Field) /\ c \in Seq(Field) /\ Len(r) = k
      <4>1. r \in Seq(Field) /\ c \in Seq(Field) /\ Len(z) = Len(r) + 1
        BY <3>3, <3>9 DEF OneMoreRoot
      <4>2. Len(r) \in Nat
        BY <4>1
      <4> QED BY <4>1, <4>2, <2>1
    <3>12. PICK ys : IsLeft(ys, g, r, c)
      BY <3>10, <3>11, <2>0
    <3>13. ASSUME NEW x PROVE Count(x, ys) + Count(x, z) = Count(x, b)
      <4>1. /\ Count(x, z) = Count(x, r) + (IF x = a THEN 1 ELSE 0)
            /\ Count(x, b) = Count(x, c) + (IF x = a THEN 1 ELSE 0)
            /\ Count(x, ys) + Count(x, r) = Count(x, c)
        BY <3>3, <3>9, <3>12 DEF OneMoreRoot, IsLeft
      <4>2. Count(x, ys) \in Nat /\ Count(x, r) \in Nat
        <5>1. ys \in Seq(Field)
          BY <3>12 DEF IsLeft
        <5> QED BY <5>1, <3>11, CountIs
      <4> QED BY <4>1, <4>2
    <3>14. IsLeft(ys, g, z, b)
      BY <3>12, <3>13 DEF IsLeft
    <3> QED BY <3>14
  <2>2. k+1 \in Nat
    OBVIOUS
  <2> QED BY <2>1, <2>2
<1>3. \A k \in Nat : k \in S
  <2> HIDE DEF S
  <2> QED BY <1>1, <1>2, Induct
<1>4. Len(zs) \in S
  BY <1>3
<1> QED BY <1>4

-----------------------------------------------------------------------------
(***************************************************************************)
(* What find_roots returns.                                                *)
(***************************************************************************)
\* What it has found and what it has left make up the batch.
LEMMA BatchMadeUp ==
    ASSUME NEW g \in Polys, g # <<>>, NEW zs \in Seq(Field), NEW bs \in Seq(Field), Len(bs) < p,
           Deg(g) + Len(zs) = Len(bs), Times(g, FromRoots(zs)) = FromRoots(bs)
    PROVE  MakesUp(g, zs, bs)
<1>1. g \in Seq(Field) /\ FromRoots(zs) \in Seq(Field) /\ Deg(g) \in Nat /\ Len(zs) \in Nat
  BY Leading, RootsPoly
<1>2. \A x \in Int : Evaluate(FromRoots(bs), x) = Mod(Evaluate(g, x) * Evaluate(FromRoots(zs), x))
  BY <1>1, EvalTimes
<1>3. \A x \in Field : x \in Int
  BY FieldInt
<1>4. Len(zs) + Deg(g) = Len(bs)
  BY <1>1
<1> QED BY <1>2, <1>3, <1>4 DEF MakesUp

\* A call of find_roots that is the last one, and no call was unlucky, has
\* found all that was left.
LEMMA LastCall ==
    ASSUME NEW tau \in Field, RootInv, FindRoots(tau), phase' = "done", unlucky' = {}
    PROVE  \A x \in Field : Count(x, Z') = Count(x, batch)
<1>1. phase = "roots" /\ SmallDegree(Deg(f)) /\ UNCHANGED batch
  BY DEF FindRoots
<1>2. /\ batch \in Seq(Field) /\ N \in Nat /\ N < p /\ Z \in Seq(Field)
      /\ f \in Polys /\ f # <<>> /\ Deg(f) \in Nat /\ Deg(f) + Len(Z) = N
      /\ Deg(f) <= N /\ Times(f, FromRoots(Z)) = FromRoots(batch)
      /\ ChooseEll(Deg(f)) \in 1 .. two_exponent - 2
      /\ \A k \in Nat : tangent_graeffe_transform(f, k, tau) \in Pairs(Deg(f))
  BY <1>1, CallTypes
<1>3. PICK ell \in 1 .. two_exponent - 2 : ell = ChooseEll(Deg(f))
  BY <1>2
<1>4. ell \in Nat
  OBVIOUS
<1>5. PICK hs \in Pairs(Deg(f)) : hs = tangent_graeffe_transform(f, ell, tau)
  BY <1>2, <1>4
<1>6. PICK found \in Seq(Field) : found = Appended(hs, tau, ell)
  BY <1>2, AppendedIs
<1>7. PICK div : div = DivRem(f, FromRoots(found))
  OBVIOUS
<1>8. /\ Z' = Z \o found
      /\ unlucky' = unlucky \cup Mishaps(tau, ell)
      /\ IF Len(found) < Deg(f) /\ div.r = <<>>
         THEN f' = div.q /\ phase' = phase ELSE f' = f /\ phase' = "done"
  BY <1>3, <1>5, <1>6, <1>7 DEF FindRoots
<1>9. Evaluate(f, tau) # 0 /\ ~LosesDegree(f, ell, tau)
  <2>1. Mishaps(tau, ell) = {}
    BY <1>8
  <2>2. "root" \notin Mishaps(tau, ell) /\ "degree" \notin Mishaps(tau, ell)
    BY <2>1
  <2> QED BY <2>2 DEF Mishaps
<1>10. ~ (Len(found) < Deg(f) /\ div.r = <<>>)
  <2>1. "roots" # "done"
    OBVIOUS
  <2> QED BY <2>1, <1>1, <1>8
<1>11. found = RootsFromValues(hs, tau, ell)
  <2>1. Appended(hs, tau, ell) = RootsFromValues(hs, tau, ell) \o <<>>
    BY <1>9 DEF Appended
  <2>2. RootsFromValues(hs, tau, ell) \in Seq(Field)
    BY <1>2, FoundIs
  <2>3. \A s \in Seq(Field) : s \o <<>> = s
    OBVIOUS
  <2> QED BY <2>1, <2>2, <2>3, <1>6
<1>12. NoRepeats(found) /\ \A x \in Values(found) : Evaluate(f, x) = 0
  BY <1>1, <1>2, <1>3, <1>5, <1>9, <1>11, FindsRoots
<1>13. Len(found) <= Deg(f) /\ div.r = <<>>
  BY <1>2, <1>7, <1>12, RootsDivide
<1>14. Len(found) = Deg(f) /\ Len(found) \in Nat /\ Len(Z) \in Nat
  <2>1. Len(found) \in Nat /\ Len(Z) \in Nat
    BY <1>2
  <2> QED BY <2>1, <1>2, <1>10, <1>13
<1>15. PICK r \in Polys : r = FromRoots(found) /\ r # <<>> /\ Deg(r) = Deg(f)
  BY <1>14, RootsPoly
<1>16. /\ div.q \in Polys /\ (Deg(f) >= Deg(r) => div.q # <<>> /\ Deg(div.q) = Deg(f) - Deg(r))
       /\ \A x \in Int : Evaluate(f, x) = Mod(Evaluate(div.q, x) * Evaluate(r, x) + Evaluate(div.r, x))
  BY <1>2, <1>7, <1>15, DivRemIs
<1>17. PICK q \in Polys : q = div.q /\ q # <<>> /\ Deg(q) = 0
  <2>1. Deg(f) >= Deg(r) /\ Deg(f) - Deg(r) = 0
    BY <1>2, <1>15
  <2> QED BY <2>1, <1>16
<1>18. \A x \in Int : Evaluate(f, x) = Mod(Evaluate(q, x) * Evaluate(FromRoots(found), x) + 0)
  BY <1>13, <1>15, <1>16, <1>17, EvalZero
<1>19. Deg(f) + Len(Z) < p /\ Deg(q) + Len(found) = Deg(f)
  BY <1>2, <1>14, <1>17, PrimeSize
<1>20. Times(q, FromRoots(Z \o found)) = FromRoots(batch)
  <2>1. Times(q, FromRoots(Z \o found)) = Times(f, FromRoots(Z))
    BY <1>2, <1>17, <1>18, <1>19, MoveRoots
  <2> QED BY <2>1, <1>2
<1>21. PICK zs \in Seq(Field) : zs = Z \o found /\ Len(zs) = Len(Z) + Len(found)
  <2>1. Z \o found \in Seq(Field) /\ Len(Z \o found) = Len(Z) + Len(found)
    BY <1>2
  <2> QED BY <2>1
<1>22. MakesUp(q, zs, batch)
  <2>1. Deg(q) + Len(zs) = Len(batch) /\ Len(batch) < p
    BY <1>2, <1>14, <1>17, <1>21 DEF N
  <2> QED BY <2>1, <1>2, <1>17, <1>20, <1>21, BatchMadeUp
<1>23. PICK ys : IsLeft(ys, q, zs, batch)
  BY <1>2, <1>17, <1>22, Leftover
<1>24. ys \in Seq(Field) /\ Len(ys) = 0 /\ \A x : Count(x, ys) + Count(x, zs) = Count(x, batch)
  BY <1>17, <1>23 DEF IsLeft
<1>25. \A x : Count(x, ys) = 0 /\ Count(x, zs) \in Nat
  <2> SUFFICES ASSUME NEW x PROVE Count(x, ys) = 0 /\ Count(x, zs) \in Nat
    OBVIOUS
  <2>1. x \notin Values(ys)
    BY <1>24 DEF Values
  <2> QED BY <2>1, <1>24, CountIs
<1>26. \A x : Count(x, zs) = Count(x, batch)
  <2> SUFFICES ASSUME NEW x PROVE Count(x, zs) = Count(x, batch)
    OBVIOUS
  <2>1. Count(x, ys) + Count(x, zs) = Count(x, batch) /\ Count(x, ys) = 0 /\ Count(x, zs) \in Nat
    BY <1>24, <1>25
  <2> QED BY <2>1
<1> QED BY <1>8, <1>21, <1>26

\* A concatenation has the elements of both.
LEMMA CountJoined ==
    ASSUME NEW s \in Seq(Field), NEW u \in Seq(Field), NEW x
    PROVE  Count(x, s \o u) = Count(x, s) + Count(x, u)
<1>1. PICK m \in Nat : m = Len(s)
  OBVIOUS
<1>2. PICK n \in Nat : n = Len(u)
  OBVIOUS
<1>3. PICK w : w = s \o u
  OBVIOUS
<1>4. Joins(w, s, u, m, n)
  BY <1>1, <1>2, <1>3, Joined
<1>5. /\ w \in Seq(Field) /\ Len(w) = m + n
      /\ \A i \in 1 .. m : w[i] = s[i]
      /\ \A i \in 1 .. n : w[m + i] = u[i]
  BY <1>4 DEF Joins
<1> DEFINE A == Places(x, s)
           B == Places(x, u)
           g == [i \in B |-> m + i]
           C == {m + i : i \in B}
<1>6. A \subseteq 1 .. m /\ B \subseteq 1 .. n
  BY <1>1, <1>2 DEF Places
<1>7. Places(x, w) = A \cup C
  <2>1. ASSUME NEW k \in Places(x, w) PROVE k \in A \cup C
    <3>1. k \in 1 .. m+n /\ w[k] = x
      BY <1>5 DEF Places
    <3>2. CASE k \in 1 .. m
      BY <3>1, <3>2, <1>1, <1>5 DEF Places
    <3>3. CASE k \notin 1 .. m
      <4>1. PICK i \in 1 .. n : k = m + i
        <5>1. k - m \in 1 .. n /\ k = m + (k - m)
          BY <3>1, <3>3
        <5> QED BY <5>1
      <4>2. i \in B
        BY <4>1, <3>1, <1>2, <1>5 DEF Places
      <4> QED BY <4>1, <4>2
    <3> QED BY <3>2, <3>3
  <2>2. ASSUME NEW k \in A PROVE k \in Places(x, w)
    <3>1. k \in 1 .. m /\ s[k] = x
      BY <1>1 DEF Places
    <3>2. k \in 1 .. m+n
      BY <3>1
    <3> QED BY <3>1, <3>2, <1>5 DEF Places
  <2>3. ASSUME NEW i \in B PROVE m + i \in Places(x, w)
    <3>1. i \in 1 .. n /\ u[i] = x
      BY <1>2 DEF Places
    <3>2. m + i \in 1 .. m+n
      BY <3>1
    <3> QED BY <3>1, <3>2, <1>5 DEF Places
  <2> QED BY <2>1, <2>2, <2>3
<1>8. A \cap C = {}
  <2>1. ASSUME NEW i \in B PROVE m + i \notin A
    <3>1. i \in 1 .. n
      BY <1>6
    <3>2. m + i \notin 1 .. m
      BY <3>1
    <3> QED BY <3>2, <1>6
  <2> QED BY <2>1
<1>9. g \in [B -> C] /\ \A k \in C : \E i \in B : g[i] = k
  OBVIOUS
<1>10. \A i, j \in B : g[i] = g[j] => i = j
  <2>1. \A i \in B : i \in Int
    BY <1>6
  <2> QED BY <2>1
<1>11. /\ IsFiniteSet(A) /\ Count(x, s) = Cardinality(A)
       /\ IsFiniteSet(B) /\ Count(x, u) = Cardinality(B)
       /\ Count(x, w) = Cardinality(Places(x, w)) /\ Count(x, s) \in Nat /\ Count(x, u) \in Nat
  BY <1>5, CountIs
<1> HIDE DEF A, B, C, g
<1>12. g \in Bijection(B, C)
  BY <1>9, <1>10 DEF Bijection, Injection, Surjection, IsInjective
<1>13. ExistsBijection(B, C)
  BY <1>12 DEF ExistsBijection
<1>14. IsFiniteSet(C) /\ Cardinality(C) = Cardinality(B)
  BY <1>11, <1>13, FS_Bijection
<1>15. Cardinality(A \cup C) = Cardinality(A) + Cardinality(C) - Cardinality({})
  BY <1>8, <1>11, <1>14, FS_Union
<1>16. Cardinality({}) = 0
  BY FS_EmptySet
<1> QED BY <1>3, <1>7, <1>11, <1>14, <1>15, <1>16

\* So does NTL's FindRoots, when the messages differ.
LEMMA LargeCall ==
    ASSUME RootInv, FindRootsNTL, Simple \/ SmallDegree(N)
    PROVE  \A x \in Field : Count(x, Z') = Count(x, batch)
<1>1. phase = "roots" /\ ~SmallDegree(Deg(f)) /\ Z' = Z \o AllRoots(f)
  BY DEF FindRootsNTL
<1>2. /\ batch \in Seq(Field) /\ N \in Nat /\ N < p /\ Z \in Seq(Field)
      /\ f \in Polys /\ f # <<>> /\ Deg(f) \in Nat /\ Deg(f) + Len(Z) = N
      /\ Deg(f) <= N /\ Times(f, FromRoots(Z)) = FromRoots(batch)
  BY <1>1, CallTypes
<1>3. Simple
  <2>1. ASSUME SmallDegree(N) PROVE FALSE
    <3>1. two_exponent > 3 /\ N < ChiZZ(1)
      BY <2>1 DEF SmallDegree
    <3>2. ChiZZ(1) \in Nat
      <4>1. 1 \in 1 .. two_exponent - 2
        <5>1. two_exponent \in Nat
          BY FftPrimeAssumption
        <5> QED BY <5>1, <3>1
      <4> QED BY <4>1, ChiIs
    <3>3. Deg(f) < ChiZZ(1)
      BY <3>1, <3>2, <1>2
    <3> QED BY <3>1, <3>3, <1>1 DEF SmallDegree
  <2> QED BY <2>1
<1>4. PICK ys : IsLeft(ys, f, Z, batch)
  <2>1. Deg(f) + Len(Z) = Len(batch) /\ Len(batch) < p
    BY <1>2 DEF N
  <2>2. MakesUp(f, Z, batch)
    BY <2>1, <1>2, BatchMadeUp
  <2> QED BY <2>2, <1>2, Leftover
<1>5. /\ ys \in Seq(Field) /\ \A x \in Field : Evaluate(f, x) = Evaluate(FromRoots(ys), x)
      /\ \A x : Count(x, ys) + Count(x, Z) = Count(x, batch)
  BY <1>4 DEF IsLeft
<1>6. PICK u \in Seq(Field) : /\ u = AllRoots(f) /\ NoRepeats(u)
                              /\ Values(u) = {x \in Field : Evaluate(f, x) = 0}
  BY AllRootsIs
<1>7. ASSUME NEW x \in Field PROVE Count(x, Z \o u) = Count(x, batch)
  <2>1. Count(x, Z \o u) = Count(x, Z) + Count(x, u)
    BY <1>2, CountJoined
  <2>2. Count(x, ys) \in Nat /\ Count(x, Z) \in Nat /\ Count(x, u) \in Nat
    BY <1>2, <1>5, CountIs
  <2>3. Count(x, ys) + Count(x, Z) = Count(x, batch) /\ Count(x, batch) <= 1
    BY <1>3, <1>5 DEF Simple
  <2>4. Count(x, ys) <= 1
    BY <2>2, <2>3
  <2>5. x \in Values(ys) <=> x \in Values(u)
    <3>1. Evaluate(FromRoots(ys), x) = 0 <=> x \in Values(ys)
      BY <1>5, RootsPoly
    <3> QED BY <3>1, <1>5, <1>6
  <2>6. Count(x, u) = IF x \in Values(u) THEN 1 ELSE 0
    BY <1>6, CountOnce
  <2>7. Count(x, ys) = 0 <=> x \notin Values(ys)
    BY <1>5, CountIs
  <2>8. Count(x, ys) = Count(x, u)
    <3>1. CASE x \in Values(u)
      <4>1. Count(x, ys) # 0 /\ Count(x, u) = 1
        BY <3>1, <2>5, <2>6, <2>7
      <4> QED BY <4>1, <2>2, <2>4
    <3>2. CASE x \notin Values(u)
      BY <3>2, <2>5, <2>6, <2>7
    <3> QED BY <3>1, <3>2
  <2> QED BY <2>1, <2>2, <2>3, <2>8
<1> QED BY <1>1, <1>6, <1>7

\* Whoever's messages were mixed, and however often find_roots had to call
\* itself: what it returns is the messages, each as often as it was sent,
\* unless a tau was unlucky.
THEOREM ReturnsAll == Spec => []ReturnsMessages
<1>1. Init => ReturnsMessages
  <2> SUFFICES ASSUME Init PROVE ReturnsMessages
    OBVIOUS
  <2>1. phase # "done"
    BY DEF Init
  <2> QED BY <2>1 DEF ReturnsMessages
<1>2. RootInv /\ ReturnsMessages /\ [Next]_vars => ReturnsMessages'
  <2> SUFFICES ASSUME RootInv, ReturnsMessages, [Next]_vars PROVE ReturnsMessages'
    OBVIOUS
  <2>1. CASE Newton
    <3>1. phase' # "done"
      BY <2>1 DEF Newton
    <3> QED BY <3>1 DEF ReturnsMessages
  <2>2. CASE \E tau \in Field : FindRoots(tau)
    <3>1. PICK tau \in Field : FindRoots(tau)
      BY <2>2
    <3>2. phase' = "done" /\ unlucky' = {} => \A x \in Field : Count(x, Z') = Count(x, batch)
      BY <3>1, LastCall
    <3>3. batch' = batch
      BY <3>1 DEF FindRoots
    <3> QED BY <3>2, <3>3 DEF ReturnsMessages, Count
  <2>3. CASE FindRootsNTL
    <3>1. batch' = batch
      BY <2>3 DEF FindRootsNTL
    <3>2. Simple \/ SmallDegree(N) => \A x \in Field : Count(x, Z') = Count(x, batch)
      BY <2>3, LargeCall
    <3>3. (Simple \/ SmallDegree(N))' => Simple \/ SmallDegree(N)
      BY <3>1 DEF Simple, SmallDegree, N, ChiZZ, Count
    <3> QED BY <3>1, <3>2, <3>3 DEF ReturnsMessages, Count
  <2>4. CASE Done \/ UNCHANGED vars
    <3>1. UNCHANGED <<batch, phase, f, Z, unlucky>>
      BY <2>4 DEF Done, vars
    <3> QED BY <3>1 DEF ReturnsMessages, Simple, SmallDegree, N, Count
  <2> QED BY <2>1, <2>2, <2>3, <2>4 DEF Next
<1> QED BY <1>1, <1>2, KeepsBatch, PTL DEF Spec

\* The elements of s are messages.
Sent(s) == \A x \in Values(s) : x \in Field /\ Count(x, batch) > 0

\* The roots of the polynomial of a call are messages.
LEMMA RootSent ==
    ASSUME RootInv, phase = "roots", NEW x \in Field, Evaluate(f, x) = 0
    PROVE  Count(x, batch) > 0
<1>1. /\ batch \in Seq(Field) /\ N < p /\ Z \in Seq(Field) /\ f \in Polys /\ f # <<>>
      /\ Deg(f) \in Nat /\ Deg(f) + Len(Z) = N /\ Times(f, FromRoots(Z)) = FromRoots(batch)
  BY CallTypes
<1>2. MakesUp(f, Z, batch)
  BY <1>1, BatchMadeUp DEF N
<1>3. PICK ys : IsLeft(ys, f, Z, batch)
  BY <1>1, <1>2, Leftover
<1>4. /\ ys \in Seq(Field) /\ \A y \in Field : Evaluate(f, y) = Evaluate(FromRoots(ys), y)
      /\ \A y : Count(y, ys) + Count(y, Z) = Count(y, batch)
  BY <1>3 DEF IsLeft
<1>5. x \in Values(ys)
  <2>1. Evaluate(FromRoots(ys), x) = 0 <=> x \in Values(ys)
    BY <1>4, RootsPoly
  <2> QED BY <2>1, <1>4
<1>6. Count(x, ys) \in Nat /\ Count(x, Z) \in Nat /\ Count(x, ys) # 0
  BY <1>1, <1>4, <1>5, CountIs
<1>7. Count(x, ys) + Count(x, Z) = Count(x, batch)
  BY <1>4
<1> QED BY <1>6, <1>7

\* What is appended to messages is messages.
LEMMA SentJoined ==
    ASSUME NEW s \in Seq(Field), NEW u \in Seq(Field), Sent(s), Sent(u)
    PROVE  Sent(s \o u)
<1>1. PICK m \in Nat : m = Len(s)
  OBVIOUS
<1>2. PICK n \in Nat : n = Len(u)
  OBVIOUS
<1>3. PICK w : w = s \o u
  OBVIOUS
<1>4. Joins(w, s, u, m, n)
  BY <1>1, <1>2, <1>3, Joined
<1>5. /\ w \in Seq(Field) /\ Len(w) = m + n
      /\ \A i \in 1 .. m : w[i] = s[i]
      /\ \A i \in 1 .. n : w[m + i] = u[i]
  BY <1>4 DEF Joins
<1>6. ASSUME NEW x \in Values(w) PROVE x \in Values(s) \/ x \in Values(u)
  <2>1. PICK k \in 1 .. m + n : x = w[k]
    BY <1>5 DEF Values
  <2>2. CASE k \in 1 .. m
    BY <2>1, <2>2, <1>1, <1>5 DEF Values
  <2>3. CASE k \notin 1 .. m
    <3>1. PICK i \in 1 .. n : k = m + i
      <4>1. k - m \in 1 .. n /\ k = m + (k - m)
        BY <2>1, <2>3
      <4> QED BY <4>1
    <3> QED BY <3>1, <2>1, <1>2, <1>5 DEF Values
  <2> QED BY <2>2, <2>3
<1> QED BY <1>3, <1>6 DEF Sent

\* A call of find_roots that loses no degree appends messages only, also when
\* tau is a root.
LEMMA CallSends ==
    ASSUME NEW tau \in Field, RootInv, FindRoots(tau), "degree" \notin unlucky'
    PROVE  \E found \in Seq(Field) : Z' = Z \o found /\ Sent(found)
<1>1. phase = "roots" /\ SmallDegree(Deg(f)) /\ UNCHANGED batch
  BY DEF FindRoots
<1>2. /\ f \in Polys /\ f # <<>> /\ Deg(f) \in Nat
      /\ ChooseEll(Deg(f)) \in 1 .. two_exponent - 2
      /\ \A k \in Nat : tangent_graeffe_transform(f, k, tau) \in Pairs(Deg(f))
  BY <1>1, CallTypes
<1>3. PICK ell \in 1 .. two_exponent - 2 : ell = ChooseEll(Deg(f))
  BY <1>2
<1>4. PICK hs : hs = tangent_graeffe_transform(f, ell, tau)
  OBVIOUS
<1>5. hs \in Pairs(Deg(f))
  <2>1. ell \in Nat
    OBVIOUS
  <2> QED BY <2>1, <1>2, <1>4
<1>6. PICK found \in Seq(Field) : found = Appended(hs, tau, ell)
  BY <1>2, <1>5, AppendedIs
<1>7. Z' = Z \o found /\ unlucky' = unlucky \cup Mishaps(tau, ell)
  BY <1>3, <1>4, <1>6 DEF FindRoots
<1>8. ~LosesDegree(f, ell, tau)
  BY <1>7 DEF Mishaps
<1>9. PICK rs : rs = RootsFromValues(hs, tau, ell)
  OBVIOUS
<1>10. rs \in Seq(Field) /\ \A x \in Values(rs) : Evaluate(f, x) = 0
  BY <1>1, <1>2, <1>3, <1>4, <1>8, <1>9, FindsRoots
<1>11. Sent(rs)
  <2> SUFFICES ASSUME NEW x \in Values(rs) PROVE x \in Field /\ Count(x, batch) > 0
    BY DEF Sent
  <2>1. x \in Field
    BY <1>10 DEF Values
  <2> QED BY <2>1, <1>1, <1>10, RootSent
<1>12. Sent(found)
  <2>1. CASE Evaluate(f, tau) = 0
    <3>1. found = rs \o <<tau>>
      BY <2>1, <1>6, <1>9 DEF Appended
    <3>2. Count(tau, batch) > 0
      BY <2>1, <1>1, RootSent
    <3>3. <<tau>> \in Seq(Field) /\ Values(<<tau>>) = {tau}
      BY DEF Values
    <3>4. Sent(<<tau>>)
      BY <3>2, <3>3 DEF Sent
    <3> QED BY <3>1, <3>3, <3>4, <1>10, <1>11, SentJoined
  <2>2. CASE Evaluate(f, tau) # 0
    <3>1. found = rs \o <<>>
      BY <2>2, <1>6, <1>9 DEF Appended
    <3>2. rs \o <<>> = rs
      BY <1>10
    <3> QED BY <3>1, <3>2, <1>11
  <2> QED BY <2>1, <2>2
<1> QED BY <1>7, <1>12

\* A step that leaves messages in Z, and the batch alone.
LEMMA SentNext ==
    ASSUME NEW s, Sent(s), Z' = s, batch' = batch
    PROVE  Sent(Z)'
<1>1. \A x \in Values(Z') : x \in Field /\ Count(x, batch) > 0
  BY DEF Sent
<1>2. \A x : Count(x, batch') = Count(x, batch)
  OBVIOUS
<1>3. \A x \in Values(Z') : x \in Field /\ Count(x, batch') > 0
  BY <1>1, <1>2
<1> QED BY <1>3 DEF Sent

\* What the calls return are messages, for any batch, also when some tau was a
\* root.
THEOREM ReturnsOnlyMessages == Spec => []OnlyMessages
<1> DEFINE Inv == "degree" \notin unlucky => Sent(Z)
<1>1. Init => Inv
  <2> SUFFICES ASSUME Init PROVE Sent(Z)
    OBVIOUS
  <2>1. Values(Z) = {}
    BY DEF Init, Values
  <2> QED BY <2>1 DEF Sent
<1>2. RootInv /\ Inv /\ [Next]_vars => Inv'
  <2> SUFFICES ASSUME RootInv, Inv, [Next]_vars, "degree" \notin unlucky' PROVE Sent(Z)'
    OBVIOUS
  <2>1. Z \in Seq(Field)
    BY DEF RootInv, TypeOK
  <2>2. CASE Newton
    <3>1. UNCHANGED <<batch, Z, unlucky>>
      BY <2>2 DEF Newton
    <3> QED BY <3>1, SentNext
  <2>3. CASE \E tau \in Field : FindRoots(tau)
    <3>1. PICK tau \in Field : FindRoots(tau)
      BY <2>3
    <3>2. PICK found \in Seq(Field) : Z' = Z \o found /\ Sent(found)
      BY <3>1, CallSends
    <3>3. batch' = batch /\ "degree" \notin unlucky
      BY <3>1 DEF FindRoots
    <3>4. Sent(Z \o found)
      BY <2>1, <3>2, <3>3, SentJoined
    <3> QED BY <3>2, <3>3, <3>4, SentNext
  <2>4. CASE FindRootsNTL
    <3>1. phase = "roots" /\ UNCHANGED <<batch, unlucky>> /\ Z' = Z \o AllRoots(f)
      BY <2>4 DEF FindRootsNTL
    <3>2. f \in Polys
      BY <3>1, CallTypes
    <3>3. PICK u \in Seq(Field) : /\ u = AllRoots(f)
                                  /\ Values(u) = {x \in Field : Evaluate(f, x) = 0}
      BY <3>2, AllRootsIs
    <3>4. Sent(u)
      BY <3>1, <3>3, RootSent DEF Sent
    <3>5. Sent(Z \o u)
      BY <2>1, <3>1, <3>3, <3>4, SentJoined
    <3> QED BY <3>1, <3>3, <3>5, SentNext
  <2>5. CASE Done \/ UNCHANGED vars
    <3>1. UNCHANGED <<batch, phase, f, Z, unlucky>>
      BY <2>5 DEF Done, vars
    <3> QED BY <3>1, SentNext
  <2> QED BY <2>2, <2>3, <2>4, <2>5 DEF Next
<1>3. RootInv /\ Inv => OnlyMessages
  <2> SUFFICES ASSUME RootInv, Inv, "degree" \notin unlucky, NEW i \in DOMAIN Z
               PROVE  Count(Z[i], batch) > 0
    BY DEF OnlyMessages
  <2>1. Z \in Seq(Field)
    BY DEF RootInv, TypeOK
  <2>2. Z[i] \in Values(Z)
    BY <2>1 DEF Values
  <2> QED BY <2>2 DEF Sent
<1> QED BY <1>1, <1>2, <1>3, KeepsBatch, PTL DEF Spec

-----------------------------------------------------------------------------
(***************************************************************************)
(* The tangent of a product of factors: the sum over i of u[i] times the   *)
(* product without the factor x - v[i].                                    *)
(***************************************************************************)
\* rt holds the products of the first factors, g the sums over them.
IsTangentTable(g, u, v, rt) ==
    /\ g[0] = <<>>
    /\ \A k \in 0 .. Len(v) - 1 :
          g[k+1] = Plus(Times(g[k], <<(p - v[k+1]) % p, 1>>), Scale(u[k+1], rt[k]))

\* The factors, the weights and the two tables.
Tangents(g, rt, u, v, n) ==
    /\ u \in Seq(Field) /\ v \in Seq(Field) /\ Len(u) = n /\ Len(v) = n /\ n \in Nat
    /\ IsRootsTable(rt, v) /\ IsTangentTable(g, u, v, rt)

\* One more factor.
LEMMA TangentStep ==
    ASSUME NEW g, NEW rt, NEW u, NEW v, NEW n, Tangents(g, rt, u, v, n), NEW k \in 0 .. n-1,
           g[k] \in Polys
    PROVE  /\ g[k+1] \in Polys /\ rt[k] \in Polys /\ u[k+1] \in Field /\ v[k+1] \in Field
           /\ Len(g[k+1]) <= Maximum(Maximum(0, Len(g[k]) + 1), k+1)
           /\ Coeff(g[k+1], k) = Mod(Mod(Coeff(g[k], k-1) - v[k+1] * Coeff(g[k], k)) + u[k+1])
           /\ \A y \in Int : Evaluate(g[k+1], y)
                = Mod(Evaluate(g[k], y) * (y - v[k+1]) + u[k+1] * Evaluate(rt[k], y))
<1>1. /\ u \in Seq(Field) /\ v \in Seq(Field) /\ Len(u) = n /\ Len(v) = n /\ n \in Nat
      /\ IsRootsTable(rt, v)
      /\ g[k+1] = Plus(Times(g[k], <<(p - v[k+1]) % p, 1>>), Scale(u[k+1], rt[k]))
  BY DEF Tangents, IsTangentTable
<1>2. k+1 \in 1 .. n /\ k \in Nat /\ k \in 0 .. Len(v)
  BY <1>1
<1>3. PICK a \in Field : a = v[k+1]
  BY <1>1, <1>2
<1>4. PICK b \in Field : b = u[k+1]
  BY <1>1, <1>2
<1>5. PICK h : h = g[k]
  OBVIOUS
<1>6. PICK r : r = rt[k]
  OBVIOUS
<1>7. r \in Polys /\ r # <<>> /\ Deg(r) = k /\ Coeff(r, k) = 1
  BY <1>1, <1>2, <1>6, RootsTableType, RootsTableMonic
<1>8. h \in Seq(Field) /\ r \in Seq(Field) /\ h \in Polys /\ Len(r) = k+1 /\ Len(h) \in Nat
  <2>1. h \in Seq(Field) /\ r \in Seq(Field)
    BY <1>5, <1>7 DEF Polys
  <2> QED BY <2>1, <1>2, <1>5, <1>7 DEF Deg
<1>9. PICK e : e = <<(p - a) % p, 1>>
  OBVIOUS
<1>10. e \in Seq(Field) /\ Len(e) = 2 /\ \A y \in Int : Evaluate(e, y) = Mod(y - a)
  <2>1. e \in Polys /\ \A y \in Int : Evaluate(e, y) = Mod(y - a)
    BY <1>9, FactorIs
  <2> QED BY <2>1, <1>9 DEF Polys
<1>11. PICK m : m = Times(h, e)
  OBVIOUS
<1>12. m \in Polys /\ Len(m) <= Maximum(0, Len(h) + 2 - 1)
  BY <1>8, <1>10, <1>11, TimesIs
<1>13. PICK s : s = Scale(b, r)
  OBVIOUS
<1>14. b \in Int /\ a \in Int
  BY FieldInt
<1>15. s \in Polys /\ Len(s) <= Len(r) /\ \A i \in Nat : Coeff(s, i) = Mod(b * Coeff(r, i))
  BY <1>8, <1>13, <1>14, ScaleIs
<1>16. m \in Seq(Field) /\ s \in Seq(Field) /\ Len(m) \in Nat /\ Len(s) \in Nat
  <2>1. m \in Seq(Field) /\ s \in Seq(Field)
    BY <1>12, <1>15 DEF Polys
  <2> QED BY <2>1
<1>17. g[k+1] = Plus(m, s)
  BY <1>1, <1>3, <1>4, <1>5, <1>6, <1>9, <1>11, <1>13
<1>18. /\ Plus(m, s) \in Polys /\ Len(Plus(m, s)) <= Maximum(Len(m), Len(s))
       /\ \A i \in Nat : Coeff(Plus(m, s), i) = Mod(Coeff(m, i) + Coeff(s, i))
  BY <1>16, PlusIs
<1>19. Len(Plus(m, s)) <= Maximum(Maximum(0, Len(h) + 1), k+1)
  <2>1. Len(Plus(m, s)) \in Nat
    BY <1>18 DEF Polys
  <2> QED BY <2>1, <1>2, <1>8, <1>12, <1>15, <1>16, <1>18 DEF Maximum
<1>20. Coeff(Plus(m, s), k) = Mod(Mod(Coeff(h, k-1) - a * Coeff(h, k)) + b)
  <2>1. Coeff(m, k) = Mod(Coeff(h, k-1) - a * Coeff(h, k))
    <3>1. k \in Int
      BY <1>2
    <3>2. Coeff(Times(h, <<(p - a) % p, 1>>), k) = Mod(Coeff(h, k-1) - a * Coeff(h, k))
      BY <3>1, <1>8, CoeffFactor
    <3> QED BY <3>2, <1>9, <1>11
  <2>2. Coeff(s, k) = b
    <3>1. b * 1 = b /\ Mod(b) = b
      BY <1>14, ModOf
    <3> QED BY <3>1, <1>2, <1>7, <1>15
  <2> QED BY <2>1, <2>2, <1>2, <1>18
<1>21. ASSUME NEW y \in Int
       PROVE  Evaluate(Plus(m, s), y) = Mod(Evaluate(h, y) * (y - a) + b * Evaluate(r, y))
  <2>1. Evaluate(Plus(m, s), y) = Mod(Evaluate(m, y) + Evaluate(s, y))
    BY <1>16, EvalPlus
  <2>2. Evaluate(m, y) = Mod(Evaluate(h, y) * Mod(y - a))
    BY <1>8, <1>10, <1>11, EvalTimes
  <2>3. Evaluate(s, y) = Mod(b * Evaluate(r, y))
    BY <1>8, <1>13, <1>14, EvalScale
  <2>4. PICK hy \in Int : hy = Evaluate(h, y)
    BY <1>8, EvalType
  <2>5. PICK ry \in Int : ry = Evaluate(r, y)
    BY <1>8, EvalType
  <2>6. PICK d \in Int : d = y - a
    BY <1>14
  <2>7. Mod(hy * Mod(d)) = Mod(hy * d)
    BY ModTimes
  <2>8. Mod(Mod(hy * d) + Mod(b * ry)) = Mod(hy * d + b * ry)
    BY <1>14, ModPlus2
  <2> QED BY <2>1, <2>2, <2>3, <2>4, <2>5, <2>6, <2>7, <2>8
<1> QED BY <1>3, <1>4, <1>5, <1>6, <1>7, <1>17, <1>18, <1>19, <1>20, <1>21

\* The sums over the first k factors: polynomials of degree below k, whose
\* leading coefficients are the sums of the weights.
LEMMA TangentTableIs ==
    ASSUME NEW g, NEW rt, NEW u, NEW v, NEW n, Tangents(g, rt, u, v, n), NEW k \in 0 .. n
    PROVE  /\ g[k] \in Polys /\ Len(g[k]) <= k
           /\ Coeff(g[k], k-1) = SumFrom(u, 1, k)
<1> DEFINE S == {i \in Nat : i <= n => /\ g[i] \in Polys /\ Len(g[i]) <= i
                                       /\ Coeff(g[i], i-1) = SumFrom(u, 1, i)}
<1>1. n \in Nat /\ u \in Seq(Field) /\ Len(u) = n /\ g[0] = <<>>
  BY DEF Tangents, IsTangentTable
<1>2. \A i \in 1 .. n : u[i] \in Int
  <2>1. \A i \in 1 .. n : u[i] \in Field
    BY <1>1
  <2> QED BY <2>1, FieldInt
<1>3. \A m \in 0 .. n : SumFrom(u, 1, m) = IF m < 1 THEN 0 ELSE Mod(u[m] + SumFrom(u, 1, m-1))
  <2> SUFFICES ASSUME NEW m \in 0 .. n
               PROVE  SumFrom(u, 1, m) = IF m < 1 THEN 0 ELSE Mod(u[m] + SumFrom(u, 1, m-1))
    OBVIOUS
  <2>1. m \in Int /\ 1 \in Int /\ 1 - 1 <= m /\ \A i \in 1 .. m : u[i] \in Int
    BY <1>1, <1>2
  <2> QED BY <2>1, SumUnfold
<1>4. 0 \in S
  <2>1. PICK h : h = g[0]
    OBVIOUS
  <2>2. h \in Polys /\ Len(h) <= 0 /\ Coeff(h, 0-1) = 0
    <3>1. h = <<>> /\ Len(h) = 0
      BY <2>1, <1>1
    <3>2. ~ (0-1 \in 0 .. Deg(h))
      BY <3>1 DEF Deg
    <3> QED BY <3>1, <3>2, ZeroPoly DEF Coeff
  <2>3. SumFrom(u, 1, 0) = 0
    BY <1>1, <1>3
  <2> QED BY <2>1, <2>2, <2>3
<1>5. ASSUME NEW i \in Nat, i \in S PROVE i+1 \in S
  <2> SUFFICES ASSUME i+1 <= n
               PROVE  /\ g[i+1] \in Polys /\ Len(g[i+1]) <= i+1
                      /\ Coeff(g[i+1], (i+1)-1) = SumFrom(u, 1, i+1)
    OBVIOUS
  <2>1. PICK h : h = g[i]
    OBVIOUS
  <2>2. h \in Polys /\ Len(h) <= i /\ Coeff(h, i-1) = SumFrom(u, 1, i)
    BY <2>1, <1>1, <1>5
  <2>3. i \in 0 .. n-1 /\ i+1 \in 0 .. n /\ i \in 0 .. n /\ i+1 \in 1 .. n /\ (i+1)-1 = i
    BY <1>1
  <2>4. PICK a \in Field : a = v[i+1]
    BY <2>1, <2>2, <2>3, TangentStep
  <2>5. PICK b \in Field : b = u[i+1]
    BY <2>1, <2>2, <2>3, TangentStep
  <2>6. /\ g[i+1] \in Polys
        /\ Len(g[i+1]) <= Maximum(Maximum(0, Len(h) + 1), i+1)
        /\ Coeff(g[i+1], i) = Mod(Mod(Coeff(h, i-1) - a * Coeff(h, i)) + b)
    BY <2>1, <2>2, <2>3, <2>4, <2>5, TangentStep
  <2>7. h \in Seq(Field) /\ Len(h) \in Nat
    BY <2>2 DEF Polys
  <2>8. Len(g[i+1]) <= i+1
    <3>1. Len(g[i+1]) \in Nat
      BY <2>6 DEF Polys
    <3> QED BY <3>1, <2>2, <2>6, <2>7 DEF Maximum
  <2>9. Coeff(h, i) = 0
    BY <2>2, <2>7, CoeffType
  <2>10. PICK c \in Int : c = Coeff(h, i-1) /\ Mod(c) = c
    <3>1. i-1 \in Int
      OBVIOUS
    <3>2. Coeff(h, i-1) \in Field
      BY <3>1, <2>7, CoeffInt
    <3> QED BY <3>2, ModOf
  <2>11. c - a * 0 = c
    BY FieldInt
  <2>12. Coeff(g[i+1], i) = Mod(c + b)
    BY <2>6, <2>9, <2>10, <2>11
  <2>13. SumFrom(u, 1, i+1) = Mod(b + c)
    BY <1>3, <2>2, <2>3, <2>5, <2>10
  <2>14. b + c = c + b
    BY FieldInt
  <2> QED BY <2>3, <2>6, <2>8, <2>12, <2>13, <2>14
<1>6. k \in Nat /\ k <= n
  BY <1>1
<1>7. k \in S
  <2> HIDE DEF S
  <2> QED BY <1>4, <1>5, <1>6, Induct
<1> QED BY <1>6, <1>7

\* There are such tables.
LEMMA TangentsExist ==
    ASSUME NEW n \in Nat, NEW u \in Seq(Field), NEW v \in Seq(Field), Len(u) = n, Len(v) = n
    PROVE  \E g, rt : Tangents(g, rt, u, v, n)
<1>1. PICK rt : IsRootsTable(rt, v)
  BY RootsTableExists
<1>2. \A k \in 0 .. n : rt[k] \in Polys
  BY <1>1, RootsTableType
<1> DEFINE step == [ks \in Nat \X Polys |->
                      IF ks[1] < n
                      THEN Plus(Times(ks[2], <<(p - v[ks[1] + 1]) % p, 1>>),
                                Scale(u[ks[1] + 1], rt[ks[1]]))
                      ELSE <<>>]
<1>3. IsStep(step, Polys)
  <2>1. ASSUME NEW k \in Nat, NEW h \in Polys, k < n
        PROVE  Plus(Times(h, <<(p - v[k+1]) % p, 1>>), Scale(u[k+1], rt[k])) \in Polys
    <3>1. k+1 \in 1 .. n /\ k \in 0 .. n
      BY <2>1
    <3>2. v[k+1] \in Field /\ u[k+1] \in Field /\ u[k+1] \in Int
      BY <3>1, FieldInt
    <3>3. <<(p - v[k+1]) % p, 1>> \in Polys
      BY <3>2, FactorIs
    <3>4. Times(h, <<(p - v[k+1]) % p, 1>>) \in Polys
      BY <3>3, TimesIs DEF Polys
    <3>5. Scale(u[k+1], rt[k]) \in Polys
      <4>1. rt[k] \in Seq(Field)
        BY <3>1, <1>2 DEF Polys
      <4> QED BY <4>1, <3>2, ScaleIs
    <3>6. \A e \in Polys : e \in Seq(Field)
      BY DEF Polys
    <3> QED BY <3>4, <3>5, <3>6, PlusIs
  <2>2. \A ks \in Nat \X Polys : ks[1] \in Nat /\ ks[2] \in Polys
    OBVIOUS
  <2>3. step \in [Nat \X Polys -> Polys]
    BY <2>1, <2>2, ZeroPoly
  <2> HIDE DEF step
  <2> QED BY <2>3 DEF IsStep
<1>4. PICK g : Follows(g, Polys, <<>>, step)
  <2> HIDE DEF step
  <2> QED BY <1>3, ZeroPoly, Recursion
<1>5. g \in [Nat -> Polys] /\ g[0] = <<>> /\ \A i \in Nat : g[i+1] = step[<<i, g[i]>>]
  <2> HIDE DEF step
  <2> QED BY <1>4 DEF Follows
<1>6. ASSUME NEW k \in 0 .. n-1
      PROVE  g[k+1] = Plus(Times(g[k], <<(p - v[k+1]) % p, 1>>), Scale(u[k+1], rt[k]))
  <2>1. k \in Nat /\ k < n
    OBVIOUS
  <2>2. PICK h \in Polys : h = g[k]
    <3> HIDE DEF step
    <3> QED BY <2>1, <1>5
  <2>3. g[k+1] = step[<<k, h>>]
    <3> HIDE DEF step
    <3> QED BY <2>1, <2>2, <1>5
  <2>4. <<k, h>> \in Nat \X Polys /\ <<k, h>>[1] = k /\ <<k, h>>[2] = h
    BY <2>1
  <2> QED BY <2>1, <2>2, <2>3, <2>4
<1>7. IsTangentTable(g, u, v, rt)
  BY <1>5, <1>6 DEF IsTangentTable
<1> QED BY <1>1, <1>7 DEF Tangents

-----------------------------------------------------------------------------
(***************************************************************************)
(* The values of these products and sums before they are reduced: the      *)
(* squares of the factors.                                                 *)
(***************************************************************************)
\* One row of a table.
TableRow(h, a, b) == h * a + b

\* There is a table of integers, from a factor and a summand for each row.
HasTable(n, a, b, z) ==
    \E w \in [Nat -> Int] : /\ w[0] = z
                            /\ \A k \in 0 .. n-1 : w[k+1] = TableRow(w[k], a[k+1], b[k+1])

\* There is.
LEMMA IntTable ==
    ASSUME NEW n \in Nat, NEW a \in [1 .. n -> Int], NEW b \in [1 .. n -> Int], NEW z \in Int
    PROVE  HasTable(n, a, b, z)
<1> DEFINE step == [ks \in Nat \X Int |->
                      IF ks[1] < n THEN TableRow(ks[2], a[ks[1] + 1], b[ks[1] + 1]) ELSE 0]
<1>1. IsStep(step, Int)
  <2>1. ASSUME NEW k \in Nat, NEW h \in Int, k < n PROVE TableRow(h, a[k+1], b[k+1]) \in Int
    <3>1. k+1 \in 1 .. n
      BY <2>1
    <3>2. a[k+1] \in Int /\ b[k+1] \in Int
      BY <3>1
    <3> QED BY <3>2 DEF TableRow
  <2>2. \A ks \in Nat \X Int : ks[1] \in Nat /\ ks[2] \in Int
    OBVIOUS
  <2>3. step \in [Nat \X Int -> Int]
    BY <2>1, <2>2
  <2> HIDE DEF step
  <2> QED BY <2>3 DEF IsStep
<1>2. PICK w : Follows(w, Int, z, step)
  <2> HIDE DEF step
  <2> QED BY <1>1, Recursion
<1>3. w \in [Nat -> Int] /\ w[0] = z /\ \A i \in Nat : w[i+1] = step[<<i, w[i]>>]
  <2> HIDE DEF step
  <2> QED BY <1>2 DEF Follows
<1>4. ASSUME NEW k \in 0 .. n-1 PROVE w[k+1] = TableRow(w[k], a[k+1], b[k+1])
  <2>1. k \in Nat /\ k < n
    OBVIOUS
  <2>2. PICK h \in Int : h = w[k]
    <3> HIDE DEF step
    <3> QED BY <2>1, <1>3
  <2>3. w[k+1] = step[<<k, h>>]
    <3> HIDE DEF step
    <3> QED BY <2>1, <2>2, <1>3
  <2>4. <<k, h>> \in Nat \X Int /\ <<k, h>>[1] = k /\ <<k, h>>[2] = h
    BY <2>1
  <2> QED BY <2>1, <2>2, <2>3, <2>4
<1> QED BY <1>3, <1>4 DEF HasTable

\* F and T are the products and the sums at z, as integers.
Lift(F, T, u, v, z, n) ==
    /\ F \in [Nat -> Int] /\ T \in [Nat -> Int] /\ F[0] = 1 /\ T[0] = 0
    /\ \A k \in 0 .. n-1 : /\ F[k+1] = F[k] * (z - v[k+1])
                           /\ T[k+1] = T[k] * (z - v[k+1]) + u[k+1] * F[k]

\* They exist.
LEMMA LiftExists ==
    ASSUME NEW n \in Nat, NEW u \in [1 .. n -> Int], NEW v \in [1 .. n -> Int], NEW z \in Int
    PROVE  \E F, T : Lift(F, T, u, v, z, n)
<1>1. PICK a \in [1 .. n -> Int] : \A k \in 1 .. n : a[k] = z - v[k]
  <2>1. [k \in 1 .. n |-> z - v[k]] \in [1 .. n -> Int]
    OBVIOUS
  <2> QED BY <2>1
<1>2. PICK o \in [1 .. n -> Int] : \A k \in 1 .. n : o[k] = 0
  <2>1. [k \in 1 .. n |-> 0] \in [1 .. n -> Int]
    OBVIOUS
  <2> QED BY <2>1
<1>3. PICK F \in [Nat -> Int] : F[0] = 1 /\ \A k \in 0 .. n-1 : F[k+1] = TableRow(F[k], a[k+1], o[k+1])
  <2>1. 1 \in Int
    OBVIOUS
  <2>2. HasTable(n, a, o, 1)
    BY <2>1, IntTable
  <2> QED BY <2>2 DEF HasTable
<1>4. PICK b \in [1 .. n -> Int] : \A k \in 1 .. n : b[k] = u[k] * F[k-1]
  <2>1. \A k \in 1 .. n : u[k] * F[k-1] \in Int
    <3> SUFFICES ASSUME NEW k \in 1 .. n PROVE u[k] * F[k-1] \in Int
      OBVIOUS
    <3>1. k-1 \in Nat
      OBVIOUS
    <3>2. u[k] \in Int /\ F[k-1] \in Int
      BY <3>1
    <3> QED BY <3>2
  <2>2. [k \in 1 .. n |-> u[k] * F[k-1]] \in [1 .. n -> Int]
    BY <2>1
  <2> QED BY <2>2
<1>5. PICK T \in [Nat -> Int] : T[0] = 0 /\ \A k \in 0 .. n-1 : T[k+1] = TableRow(T[k], a[k+1], b[k+1])
  <2>1. 0 \in Int
    OBVIOUS
  <2>2. HasTable(n, a, b, 0)
    BY <2>1, IntTable
  <2> QED BY <2>2 DEF HasTable
<1>6. ASSUME NEW k \in 0 .. n-1
      PROVE  /\ F[k+1] = F[k] * (z - v[k+1])
             /\ T[k+1] = T[k] * (z - v[k+1]) + u[k+1] * F[k]
  <2>1. k+1 \in 1 .. n /\ (k+1)-1 = k /\ k \in Nat
    OBVIOUS
  <2>2. a[k+1] = z - v[k+1] /\ o[k+1] = 0 /\ b[k+1] = u[k+1] * F[k]
    BY <2>1, <1>1, <1>2, <1>4
  <2>3. F[k] \in Int /\ a[k+1] \in Int
    BY <2>1
  <2>4. F[k] * a[k+1] + 0 = F[k] * a[k+1]
    BY <2>3
  <2>5. F[k+1] = F[k] * a[k+1] + o[k+1] /\ T[k+1] = T[k] * a[k+1] + b[k+1]
    BY <1>3, <1>5 DEF TableRow
  <2> QED BY <2>2, <2>4, <2>5
<1>7. Lift(F, T, u, v, z, n)
  <2>1. F[0] = 1 /\ T[0] = 0
    BY <1>3, <1>5
  <2> QED BY <2>1, <1>6 DEF Lift
<1> QED BY <1>7

\* One row of them.
LiftRow(F, T, F2, T2, z, v, u) == F2 = F * (z - v) /\ T2 = T * (z - v) + u * F

\* The same row, reduced.
LiftRowMod(F, T, F2, T2, z, v, u) ==
    /\ Mod(F2) = Mod(Mod(F) * (z - Mod(v)))
    /\ Mod(T2) = Mod(Mod(T) * (z - Mod(v)) + Mod(u) * Mod(F))

\* It is.
LEMMA LiftRowIs ==
    ASSUME NEW F \in Int, NEW T \in Int, NEW F2 \in Int, NEW T2 \in Int, NEW z \in Int,
           NEW v \in Int, NEW u \in Int, LiftRow(F, T, F2, T2, z, v, u)
    PROVE  LiftRowMod(F, T, F2, T2, z, v, u)
<1>1. PICK a \in Int : a = z - v
  OBVIOUS
<1>2. PICK b \in Int : b = z - Mod(v)
  BY ModType
<1>3. Mod(b) = Mod(a)
  <2>1. Mod(z) = Mod(z) /\ Mod(Mod(v)) = Mod(v) /\ Mod(v) \in Int
    BY ModType
  <2>2. \A a1, b1, c1, d1 \in Int : Mod(a1) = Mod(c1) /\ Mod(b1) = Mod(d1) => Mod(a1 - b1) = Mod(c1 - d1)
    BY CongMinus
  <2>3. Mod(z - Mod(v)) = Mod(z - v)
    BY <2>1, <2>2
  <2> QED BY <2>3, <1>1, <1>2
<1>4. PICK G \in Int : G = Mod(F) /\ Mod(G) = Mod(F)
  BY ModType
<1>5. PICK H \in Int : H = Mod(T) /\ Mod(H) = Mod(T)
  BY ModType
<1>6. PICK w \in Int : w = Mod(u) /\ Mod(w) = Mod(u)
  BY ModType
<1>7. \A a1, b1, c1, d1 \in Int : Mod(a1) = Mod(c1) /\ Mod(b1) = Mod(d1) => Mod(a1 * b1) = Mod(c1 * d1)
  BY CongTimes
<1>8. Mod(G * b) = Mod(F * a) /\ Mod(H * b) = Mod(T * a) /\ Mod(w * G) = Mod(u * F)
  <2>1. Mod(G * b) = Mod(F * a)
    BY <1>3, <1>4, <1>7
  <2>2. Mod(H * b) = Mod(T * a)
    BY <1>3, <1>5, <1>7
  <2>3. Mod(w * G) = Mod(u * F)
    BY <1>4, <1>6, <1>7
  <2> QED BY <2>1, <2>2, <2>3
<1>9. PICK c1, c2, d1, d2 \in Int : c1 = H * b /\ c2 = w * G /\ d1 = T * a /\ d2 = u * F
  OBVIOUS
<1>10. Mod(c1 + c2) = Mod(d1 + d2)
  <2>1. Mod(c1) = Mod(d1) /\ Mod(c2) = Mod(d2)
    BY <1>8, <1>9
  <2> QED BY <2>1, CongPlus
<1>11. F2 = F * a /\ T2 = d1 + d2
  BY <1>1, <1>9 DEF LiftRow
<1> QED BY <1>2, <1>4, <1>5, <1>6, <1>8, <1>9, <1>10, <1>11 DEF LiftRowMod

\* uu and vv are u and v, reduced.
Reduces(u, v, uu, vv, n) == \A k \in 1 .. n : Mod(u[k]) = uu[k] /\ Mod(v[k]) = vv[k]

\* What they are before they are reduced.
LEMMA LiftIs ==
    ASSUME NEW g, NEW rt, NEW uu, NEW vv, NEW n, Tangents(g, rt, uu, vv, n), NEW z \in Int,
           NEW u \in [1 .. n -> Int], NEW v \in [1 .. n -> Int],
           Reduces(u, v, uu, vv, n),
           NEW F, NEW T, Lift(F, T, u, v, z, n)
    PROVE  Evaluate(rt[n], z) = Mod(F[n]) /\ Evaluate(g[n], z) = Mod(T[n])
<1> DEFINE S == {k \in Nat : k <= n => /\ Evaluate(rt[k], z) = Mod(F[k])
                                       /\ Evaluate(g[k], z) = Mod(T[k])}
<1>1. /\ n \in Nat /\ vv \in Seq(Field) /\ Len(vv) = n /\ IsRootsTable(rt, vv)
      /\ rt[0] = <<1>> /\ g[0] = <<>>
  BY DEF Tangents, IsTangentTable, IsRootsTable
<1>2. /\ F \in [Nat -> Int] /\ T \in [Nat -> Int] /\ F[0] = 1 /\ T[0] = 0
      /\ \A k \in 0 .. n-1 : LiftRow(F[k], T[k], F[k+1], T[k+1], z, v[k+1], u[k+1])
  BY DEF Lift, LiftRow
<1>3. 0 \in S
  <2>1. Evaluate(<<1>>, z) = 1 /\ Evaluate(<<>>, z) = 0
    BY OnePoly, EvalZero
  <2> QED BY <2>1, <1>1, <1>2, ModSmall
<1>4. ASSUME NEW k \in Nat, k \in S PROVE k+1 \in S
  <2> SUFFICES ASSUME k+1 <= n
               PROVE  Evaluate(rt[k+1], z) = Mod(F[k+1]) /\ Evaluate(g[k+1], z) = Mod(T[k+1])
    OBVIOUS
  <2>1. k \in 0 .. n-1 /\ k \in 0 .. n /\ k+1 \in 1 .. n /\ k \in 0 .. Len(vv) - 1 /\ k+1 \in Nat
    BY <1>1
  <2>2. Evaluate(rt[k], z) = Mod(F[k]) /\ Evaluate(g[k], z) = Mod(T[k])
    BY <1>1, <1>4
  <2>3. PICK a \in Int : a = v[k+1] /\ vv[k+1] = Mod(a)
    BY <2>1 DEF Reduces
  <2>4. PICK b \in Int : b = u[k+1] /\ uu[k+1] = Mod(b)
    BY <2>1 DEF Reduces
  <2>5. PICK c, d \in Int : c = F[k] /\ d = T[k]
    BY <2>1, <1>2
  <2>6. PICK c2, d2 \in Int : c2 = F[k+1] /\ d2 = T[k+1]
    BY <2>1, <1>2
  <2>7. LiftRow(c, d, c2, d2, z, a, b)
    BY <2>1, <2>3, <2>4, <2>5, <2>6, <1>2
  <2>8. /\ Mod(c2) = Mod(Mod(c) * (z - Mod(a)))
        /\ Mod(d2) = Mod(Mod(d) * (z - Mod(a)) + Mod(b) * Mod(c))
    <3>1. LiftRowMod(c, d, c2, d2, z, a, b)
      BY <2>7, LiftRowIs
    <3> QED BY <3>1 DEF LiftRowMod
  <2>9. Evaluate(rt[k+1], z) = Mod(Mod(c) * (z - Mod(a)))
    <3>1. Evaluate(rt[k+1], z) = Mod(Evaluate(rt[k], z) * (z - vv[k+1]))
      BY <2>1, <1>1, RootsTableStep
    <3> QED BY <3>1, <2>2, <2>3, <2>5
  <2>10. g[k] \in Polys
    BY <2>1, TangentTableIs
  <2>11. Evaluate(g[k+1], z) = Mod(Mod(d) * (z - Mod(a)) + Mod(b) * Mod(c))
    BY <2>1, <2>2, <2>3, <2>4, <2>5, <2>10, TangentStep
  <2> QED BY <2>6, <2>8, <2>9, <2>11
<1>5. n \in S
  <2> HIDE DEF S
  <2> QED BY <1>1, <1>3, <1>4, Induct
<1> QED BY <1>1, <1>5

\* Products and sums at x and at -x, those of the squares at x^2, and a sign.
SquareIs(j, j1, t, t1, q, s, e) == j * j1 = e * q /\ t1 * j + t * j1 = (2 * e) * s

\* The points -x and x^2, the square of a factor and its weight, and the other
\* sign.
Points(x, y, z) == y = -x /\ z = x*x
Squared(v, u, v2, u2) == v2 = v*v /\ u2 = u*v
Opposite(e, e2) == e2 = -e

\* Two sums with a further factor each, multiplied crosswise.
SplitSum(j, j1, t, t1, a, b, u) ==
    (t1 * b + u * j1) * (j * a) + (t * a + u * j) * (j1 * b)
      = (t1 * j + t * j1) * (a * b) + (u * (j * j1)) * (a + b)

\* This is so.
LEMMA SplitSumIs ==
    ASSUME NEW j \in Int, NEW j1 \in Int, NEW t \in Int, NEW t1 \in Int, NEW a \in Int,
           NEW b \in Int, NEW u \in Int
    PROVE  SplitSum(j, j1, t, t1, a, b, u)
BY DEF SplitSum

\* sg[k] is the sign of the product of k numbers -1.
Signs(sg) == sg \in [Nat -> Int] /\ sg[0] = 1 /\ \A k \in Nat : sg[k+1] = -sg[k]

\* The weights u2 and the factors v2 are those of the squares.
AllSquared(u, v, u2, v2, n) == \A k \in 1 .. n : Squared(v[k], u[k], v2[k], u2[k])

\* The tables at x, at y = -x, and at z = x^2 for the squares.
SquareTables(n, u, v, u2, v2, x, y, z, F, T, F1, T1, Q, S, sg) ==
    /\ n \in Nat /\ u \in [1 .. n -> Int] /\ v \in [1 .. n -> Int]
    /\ u2 \in [1 .. n -> Int] /\ v2 \in [1 .. n -> Int] /\ AllSquared(u, v, u2, v2, n)
    /\ x \in Int /\ y \in Int /\ z \in Int /\ Points(x, y, z)
    /\ Lift(F, T, u, v, x, n) /\ Lift(F1, T1, u, v, y, n) /\ Lift(Q, S, u2, v2, z, n) /\ Signs(sg)

\* All factors.
LEMMA SquareLift ==
    ASSUME NEW n, NEW u, NEW v, NEW u2, NEW v2, NEW x, NEW y, NEW z, NEW F, NEW T, NEW F1, NEW T1,
           NEW Q, NEW S, NEW sg, SquareTables(n, u, v, u2, v2, x, y, z, F, T, F1, T1, Q, S, sg)
    PROVE  SquareIs(F[n], F1[n], T[n], T1[n], Q[n], S[n], sg[n])
<1>0. /\ n \in Nat /\ u \in [1 .. n -> Int] /\ v \in [1 .. n -> Int]
      /\ u2 \in [1 .. n -> Int] /\ v2 \in [1 .. n -> Int] /\ AllSquared(u, v, u2, v2, n)
      /\ x \in Int /\ y \in Int /\ z \in Int /\ Points(x, y, z)
      /\ Lift(F, T, u, v, x, n) /\ Lift(F1, T1, u, v, y, n) /\ Lift(Q, S, u2, v2, z, n) /\ Signs(sg)
  BY DEF SquareTables
<1> DEFINE A == {k \in Nat : k <= n => SquareIs(F[k], F1[k], T[k], T1[k], Q[k], S[k], sg[k])}
<1>1. /\ F \in [Nat -> Int] /\ T \in [Nat -> Int] /\ F1 \in [Nat -> Int] /\ T1 \in [Nat -> Int]
      /\ Q \in [Nat -> Int] /\ S \in [Nat -> Int] /\ sg \in [Nat -> Int]
  BY <1>0 DEF Lift, Signs
<1>2. \A k \in 0 .. n-1 : /\ LiftRow(F[k], T[k], F[k+1], T[k+1], x, v[k+1], u[k+1])
                          /\ LiftRow(F1[k], T1[k], F1[k+1], T1[k+1], y, v[k+1], u[k+1])
                          /\ LiftRow(Q[k], S[k], Q[k+1], S[k+1], z, v2[k+1], u2[k+1])
  BY <1>0 DEF Lift, LiftRow
<1>3. 0 \in A
  <2>1. F[0] = 1 /\ F1[0] = 1 /\ T[0] = 0 /\ T1[0] = 0 /\ Q[0] = 1 /\ S[0] = 0 /\ sg[0] = 1
    BY <1>0 DEF Lift, Signs
  <2>2. SquareIs(1, 1, 0, 0, 1, 0, 1)
    BY DEF SquareIs
  <2> QED BY <2>1, <2>2
<1>4. ASSUME NEW k \in Nat, k \in A PROVE k+1 \in A
  <2> SUFFICES ASSUME k+1 <= n
               PROVE  SquareIs(F[k+1], F1[k+1], T[k+1], T1[k+1], Q[k+1], S[k+1], sg[k+1])
    OBVIOUS
  <2>1. k \in 0 .. n-1 /\ k+1 \in 1 .. n /\ k+1 \in Nat
    BY <1>0
  <2>2. SquareIs(F[k], F1[k], T[k], T1[k], Q[k], S[k], sg[k])
    BY <1>0, <1>4
  <2>3. /\ F[k] \in Int /\ T[k] \in Int /\ F1[k] \in Int /\ T1[k] \in Int /\ Q[k] \in Int /\ S[k] \in Int
        /\ sg[k] \in Int /\ F[k+1] \in Int /\ T[k+1] \in Int /\ F1[k+1] \in Int /\ T1[k+1] \in Int
        /\ Q[k+1] \in Int /\ S[k+1] \in Int
    BY <2>1, <1>1
  <2>4. /\ u[k+1] \in Int /\ v[k+1] \in Int /\ u2[k+1] \in Int /\ v2[k+1] \in Int
        /\ Squared(v[k+1], u[k+1], v2[k+1], u2[k+1])
    BY <2>1, <1>0 DEF AllSquared
  <2>5. /\ LiftRow(F[k], T[k], F[k+1], T[k+1], x, v[k+1], u[k+1])
        /\ LiftRow(F1[k], T1[k], F1[k+1], T1[k+1], y, v[k+1], u[k+1])
        /\ LiftRow(Q[k], S[k], Q[k+1], S[k+1], z, v2[k+1], u2[k+1])
    BY <2>1, <1>2
  <2>6. SquareIs(F[k+1], F1[k+1], T[k+1], T1[k+1], Q[k+1], S[k+1], sg[k+1])
    <3>1. PICK j \in Int : j = F[k]
      BY <2>3
    <3>2. PICK j1 \in Int : j1 = F1[k]
      BY <2>3
    <3>3. PICK t \in Int : t = T[k]
      BY <2>3
    <3>4. PICK t1 \in Int : t1 = T1[k]
      BY <2>3
    <3>5. PICK q \in Int : q = Q[k]
      BY <2>3
    <3>6. PICK s \in Int : s = S[k]
      BY <2>3
    <3>7. PICK e \in Int : e = sg[k]
      BY <2>3
    <3>8. PICK a \in Int : a = v[k+1]
      BY <2>4
    <3>9. PICK b \in Int : b = u[k+1]
      BY <2>4
    <3>10. PICK c \in Int : c = v2[k+1]
      BY <2>4
    <3>11. PICK d \in Int : d = u2[k+1]
      BY <2>4
    <3>12. PICK g \in Int : g = F[k+1]
      BY <2>3
    <3>13. PICK g1 \in Int : g1 = F1[k+1]
      BY <2>3
    <3>14. PICK w \in Int : w = T[k+1]
      BY <2>3
    <3>15. PICK w1 \in Int : w1 = T1[k+1]
      BY <2>3
    <3>16. PICK r \in Int : r = Q[k+1]
      BY <2>3
    <3>17. PICK h \in Int : h = S[k+1]
      BY <2>3
    <3>18. /\ SquareIs(j, j1, t, t1, q, s, e)
           /\ LiftRow(j, t, g, w, x, a, b) /\ LiftRow(j1, t1, g1, w1, y, a, b)
           /\ LiftRow(q, s, r, h, z, c, d) /\ Squared(a, b, c, d)
      BY <2>2, <2>4, <2>5, <3>1, <3>2, <3>3, <3>4, <3>5, <3>6, <3>7, <3>8, <3>9, <3>10, <3>11,
         <3>12, <3>13, <3>14, <3>15, <3>16, <3>17
    <3>19. PICK e2 \in Int : e2 = sg[k+1] /\ Opposite(e, e2)
      BY <2>1, <3>7, <1>0, <1>1 DEF Signs, Opposite
    <3>20. SquareIs(g, g1, w, w1, r, h, e2)
      <4>0. PICK xa \in Int : xa = x - a
        BY <1>0
      <4>1. PICK ya \in Int : ya = y - a
        BY <1>0
      <4>2. PICK zc \in Int : zc = z - c
        BY <1>0
      <4>3. xa * ya = -zc /\ xa + ya = -(2*a)
        <5>1. (x - a) * (-x - a) = a*a - x*x
          BY <1>0
        <5>2. xa + ya = -(2*a)
          BY <4>0, <4>1, <1>0 DEF Points
        <5> QED BY <5>1, <5>2, <4>0, <4>1, <4>2, <3>18, <1>0 DEF Points, Squared
      <4>4. PICK ff \in Int : ff = j * j1 /\ ff = e * q
        BY <3>18 DEF SquareIs
      <4>5. PICK tf \in Int : tf = t1 * j + t * j1 /\ tf = (2 * e) * s
        BY <3>18 DEF SquareIs
      <4>6. g = j * xa /\ g1 = j1 * ya /\ r = q * zc
        BY <4>0, <4>1, <4>2, <3>18 DEF LiftRow
      <4>7. w = t * xa + b * j /\ w1 = t1 * ya + b * j1 /\ h = s * zc + d * q
        BY <4>0, <4>1, <4>2, <3>18 DEF LiftRow
      <4>8. g * g1 = ff * (xa * ya)
        <5>1. (j * xa) * (j1 * ya) = (j * j1) * (xa * ya)
          OBVIOUS
        <5> QED BY <5>1, <4>4, <4>6
      <4>9. w1 * g + w * g1 = tf * (xa * ya) + (b * ff) * (xa + ya)
        <5>1. (t1 * ya + b * j1) * (j * xa) + (t * xa + b * j) * (j1 * ya)
                = (t1 * j + t * j1) * (xa * ya) + (b * (j * j1)) * (xa + ya)
          <6>1. SplitSum(j, j1, t, t1, xa, ya, b)
            BY SplitSumIs
          <6> QED BY <6>1 DEF SplitSum
        <5> QED BY <5>1, <4>4, <4>5, <4>6, <4>7
      <4>10. ff * (-zc) = (-e) * (q * zc)
        <5>1. (e * q) * (-zc) = (-e) * (q * zc)
          OBVIOUS
        <5> QED BY <5>1, <4>4
      <4>11. tf * (-zc) + (b * ff) * (-(2*a)) = (2 * (-e)) * (s * zc + d * q)
        <5>1. ((2 * e) * s) * (-zc) + (b * (e * q)) * (-(2*a)) = (2 * (-e)) * (s * zc + (b * a) * q)
          OBVIOUS
        <5> QED BY <5>1, <4>4, <4>5, <3>18 DEF Squared
      <4>12. g * g1 = (-e) * r
        BY <4>3, <4>6, <4>8, <4>10
      <4>13. w1 * g + w * g1 = (2 * (-e)) * h
        BY <4>3, <4>7, <4>9, <4>11
      <4> QED BY <4>12, <4>13, <3>19 DEF SquareIs, Opposite
    <3> QED BY <3>20, <3>19, <3>12, <3>13, <3>14, <3>15, <3>16, <3>17
  <2> QED BY <2>6
<1>5. n \in A
  <2> HIDE DEF A
  <2> QED BY <1>0, <1>3, <1>4, Induct
<1> QED BY <1>0, <1>5

\* The same, modulo p: a and b are the product and the sum at y, a1 and b1
\* those at -y, and q and s those of the squares at y^2.
CrossValues(a, a1, b, b1, q, s, e) ==
    Mod(a * a1) = Mod(e * q) /\ Mod(a * b1 + a1 * b) = Mod((2 * e) * s)

\* Two products are congruent.
SameTimes(a, b, c, d) == Mod(a * b) = Mod(c * d)

\* The product of congruent factors.
LEMMA SameProduct ==
    ASSUME NEW a \in Int, NEW b \in Int, NEW c \in Int, NEW d \in Int,
           Mod(a) = Mod(c), Mod(b) = Mod(d)
    PROVE  SameTimes(a, b, c, d)
<1>1. Mod(a * b) = Mod(c * b)
  BY TimesLeft, ZenonT(30)
<1>2. Mod(c * b) = Mod(c * d)
  BY TimesRight, ZenonT(30)
<1> QED BY <1>1, <1>2 DEF SameTimes

\* Reduced values.
LEMMA CrossReduced ==
    ASSUME NEW j \in Int, NEW j1 \in Int, NEW t \in Int, NEW t1 \in Int, NEW q \in Int, NEW s \in Int,
           NEW e \in Int, SquareIs(j, j1, t, t1, q, s, e)
    PROVE  CrossValues(Mod(j), Mod(j1), Mod(t), Mod(t1), Mod(q), Mod(s), e)
<1>2. PICK a \in Int : a = Mod(j) /\ Mod(a) = Mod(j)
  BY ModType
<1>3. PICK a1 \in Int : a1 = Mod(j1) /\ Mod(a1) = Mod(j1)
  BY ModType
<1>4. PICK b \in Int : b = Mod(t) /\ Mod(b) = Mod(t)
  BY ModType
<1>5. PICK b1 \in Int : b1 = Mod(t1) /\ Mod(b1) = Mod(t1)
  BY ModType
<1>6. Mod(a * a1) = Mod(j * j1)
  <2>1. SameTimes(a, a1, j, j1)
    BY <1>2, <1>3, SameProduct
  <2> QED BY <2>1 DEF SameTimes
<1>7. Mod(a * b1) = Mod(j * t1)
  <2>1. SameTimes(a, b1, j, t1)
    BY <1>2, <1>5, SameProduct
  <2> QED BY <2>1 DEF SameTimes
<1>8. Mod(a1 * b) = Mod(j1 * t)
  <2>1. SameTimes(a1, b, j1, t)
    BY <1>3, <1>4, SameProduct
  <2> QED BY <2>1 DEF SameTimes
<1>9. PICK c1 \in Int : c1 = a * b1
  OBVIOUS
<1>10. PICK c2 \in Int : c2 = a1 * b
  OBVIOUS
<1>11. PICK d1 \in Int : d1 = j * t1
  OBVIOUS
<1>12. PICK d2 \in Int : d2 = j1 * t
  OBVIOUS
<1>13. Mod(c1 + c2) = Mod(d1 + d2)
  <2>1. Mod(c1) = Mod(d1) /\ Mod(c2) = Mod(d2)
    BY <1>7, <1>8, <1>9, <1>10, <1>11, <1>12
  <2> QED BY <2>1, CongPlus
<1>14. d1 + d2 = (2 * e) * s /\ j * j1 = e * q
  <2>1. d1 + d2 = t1 * j + t * j1
    BY <1>11, <1>12
  <2> QED BY <2>1 DEF SquareIs
<1>15. Mod(e * Mod(q)) = Mod(e * q)
  BY ModTimes
<1>16. Mod((2 * e) * Mod(s)) = Mod((2 * e) * s)
  <2>1. PICK c \in Int : c = 2 * e
    OBVIOUS
  <2>2. Mod(c * Mod(s)) = Mod(c * s)
    BY ModTimes
  <2> QED BY <2>1, <2>2
<1>17. Mod(Mod(j) * Mod(j1)) = Mod(e * Mod(q))
  BY <1>2, <1>3, <1>6, <1>14, <1>15
<1>18. Mod(Mod(j) * Mod(t1) + Mod(j1) * Mod(t)) = Mod((2 * e) * Mod(s))
  BY <1>2, <1>3, <1>4, <1>5, <1>9, <1>10, <1>13, <1>14, <1>16
<1> QED BY <1>17, <1>18 DEF CrossValues

\* The values of the polynomials of the factors and of their squares.
LEMMA SquareTangents ==
    ASSUME NEW n, NEW g, NEW rt, NEW u, NEW v, Tangents(g, rt, u, v, n),
           NEW g2, NEW rt2, NEW u2, NEW v2, Tangents(g2, rt2, u2, v2, n),
           \A k \in 1 .. n : v2[k] = Mod(v[k] * v[k]) /\ u2[k] = Mod(u[k] * v[k]),
           NEW sg, Signs(sg), NEW x \in Int, NEW y \in Int, NEW z \in Int, Points(x, y, z)
    PROVE  CrossValues(Evaluate(rt[n], x), Evaluate(rt[n], y), Evaluate(g[n], x), Evaluate(g[n], y),
                       Evaluate(rt2[n], z), Evaluate(g2[n], z), sg[n])
<1>1. /\ n \in Nat /\ u \in Seq(Field) /\ v \in Seq(Field) /\ Len(u) = n /\ Len(v) = n
      /\ u2 \in Seq(Field) /\ v2 \in Seq(Field) /\ Len(u2) = n /\ Len(v2) = n
  BY DEF Tangents
<1>2. \A k \in 1 .. n : /\ u[k] \in Field /\ v[k] \in Field
                        /\ u[k] \in Int /\ v[k] \in Int /\ Mod(u[k]) = u[k] /\ Mod(v[k]) = v[k]
  <2>1. \A k \in 1 .. n : u[k] \in Field /\ v[k] \in Field
    BY <1>1
  <2> QED BY <2>1, ModOf
<1>3. PICK a \in [1 .. n -> Int] : \A k \in 1 .. n : a[k] = u[k]
  <2>1. [k \in 1 .. n |-> u[k]] \in [1 .. n -> Int]
    BY <1>2
  <2> QED BY <2>1
<1>4. PICK b \in [1 .. n -> Int] : \A k \in 1 .. n : b[k] = v[k]
  <2>1. [k \in 1 .. n |-> v[k]] \in [1 .. n -> Int]
    BY <1>2
  <2> QED BY <2>1
<1>5. \A k \in 1 .. n : u[k] * v[k] \in Int /\ v[k] * v[k] \in Int
  <2> SUFFICES ASSUME NEW k \in 1 .. n PROVE u[k] * v[k] \in Int /\ v[k] * v[k] \in Int
    OBVIOUS
  <2>1. PICK c \in Int : c = u[k]
    BY <1>2
  <2>2. PICK d \in Int : d = v[k]
    BY <1>2
  <2>3. c * d \in Int /\ d * d \in Int
    OBVIOUS
  <2> QED BY <2>1, <2>2, <2>3
<1>6. PICK a2 \in [1 .. n -> Int] : \A k \in 1 .. n : a2[k] = u[k] * v[k]
  <2>1. [k \in 1 .. n |-> u[k] * v[k]] \in [1 .. n -> Int]
    BY <1>5
  <2> QED BY <2>1
<1>7. PICK b2 \in [1 .. n -> Int] : \A k \in 1 .. n : b2[k] = v[k] * v[k]
  <2>1. [k \in 1 .. n |-> v[k] * v[k]] \in [1 .. n -> Int]
    BY <1>5
  <2> QED BY <2>1
<1>8. PICK F, T : Lift(F, T, a, b, x, n)
  BY <1>1, LiftExists
<1>9. PICK F1, T1 : Lift(F1, T1, a, b, y, n)
  BY <1>1, LiftExists
<1>10. PICK Q, S : Lift(Q, S, a2, b2, z, n)
  BY <1>1, LiftExists
<1>11. Reduces(a, b, u, v, n)
  BY <1>2, <1>3, <1>4 DEF Reduces
<1>12. Reduces(a2, b2, u2, v2, n)
  BY <1>6, <1>7 DEF Reduces
<1>13. Evaluate(rt[n], x) = Mod(F[n]) /\ Evaluate(g[n], x) = Mod(T[n])
  BY <1>8, <1>11, LiftIs
<1>14. Evaluate(rt[n], y) = Mod(F1[n]) /\ Evaluate(g[n], y) = Mod(T1[n])
  BY <1>9, <1>11, LiftIs
<1>15. Evaluate(rt2[n], z) = Mod(Q[n]) /\ Evaluate(g2[n], z) = Mod(S[n])
  BY <1>10, <1>12, LiftIs
<1>16. AllSquared(a, b, a2, b2, n)
  BY <1>3, <1>4, <1>6, <1>7 DEF Squared, AllSquared
<1>17. SquareIs(F[n], F1[n], T[n], T1[n], Q[n], S[n], sg[n])
  <2>1. SquareTables(n, a, b, a2, b2, x, y, z, F, T, F1, T1, Q, S, sg)
    BY <1>1, <1>8, <1>9, <1>10, <1>16 DEF SquareTables
  <2> QED BY <2>1, SquareLift
<1>18. /\ F[n] \in Int /\ F1[n] \in Int /\ T[n] \in Int /\ T1[n] \in Int /\ Q[n] \in Int /\ S[n] \in Int
       /\ sg[n] \in Int
  BY <1>1, <1>8, <1>9, <1>10 DEF Lift, Signs
<1>19. CrossValues(Mod(F[n]), Mod(F1[n]), Mod(T[n]), Mod(T1[n]), Mod(Q[n]), Mod(S[n]), sg[n])
  BY <1>17, <1>18, CrossReduced
<1> QED BY <1>13, <1>14, <1>15, <1>19

\* One coefficient of the derivative of (x-v)*e: c and d are two of e.
FactorRow(i, c, d, v) ==
    Mod(Mod(Mod(i*c) - v * Mod((i+1)*d)) + Mod(1*c)) = Mod((i+1) * Mod(c - v*d))

\* Such a coefficient.
LEMMA FactorRowIs ==
    ASSUME NEW i \in Int, NEW c \in Int, NEW d \in Int, NEW v \in Int
    PROVE  FactorRow(i, c, d, v)
<1>1. PICK a \in Int : a = i*c
  OBVIOUS
<1>2. PICK b \in Int : b = (i+1)*d
  OBVIOUS
<1>3. PICK m \in Int : m = -v
  OBVIOUS
<1>4. Mod(Mod(a) - v * Mod(b)) = Mod(a + m * b)
  <2>1. Mod(Mod(a) + m * Mod(b)) = Mod(a + m * b)
    BY ModHorner2
  <2>2. Mod(a) + m * Mod(b) = Mod(a) - v * Mod(b)
    BY <1>3, ModType
  <2> QED BY <2>1, <2>2
<1>5. PICK r \in Int : r = a + m * b
  OBVIOUS
<1>6. Mod(Mod(r) + Mod(1*c)) = Mod(r + c)
  <2>1. 1*c = c
    OBVIOUS
  <2> QED BY <2>1, ModPlus2
<1>7. PICK s \in Int : s = c - v*d
  OBVIOUS
<1>8. PICK j \in Int : j = i+1
  OBVIOUS
<1>9. Mod(j * Mod(s)) = Mod(j * s)
  BY ModTimes
<1>10. j * s = r + c
  <2>1. r = i*c - v*(j*d)
    BY <1>1, <1>2, <1>3, <1>5, <1>8
  <2>2. j * s = i*c + c - v*(j*d)
    BY <1>7, <1>8
  <2> QED BY <2>1, <2>2
<1> QED BY <1>1, <1>2, <1>4, <1>5, <1>6, <1>7, <1>8, <1>9, <1>10 DEF FactorRow

\* With every weight 1 the sums over the factors are the derivatives of the
\* products.
LEMMA DerivTangent ==
    ASSUME NEW g, NEW rt, NEW u, NEW v, NEW n, Tangents(g, rt, u, v, n),
           \A k \in 1 .. n : u[k] = 1, NEW k \in 0 .. n
    PROVE  g[k] = Derivative(rt[k])
<1> DEFINE S == {i \in Nat : i <= n => g[i] = Derivative(rt[i])}
<1>1. /\ n \in Nat /\ g[0] = <<>> /\ rt[0] = <<1>> /\ Len(v) = n /\ v \in Seq(Field)
      /\ IsRootsTable(rt, v)
      /\ \A m \in 0 .. n-1 : /\ g[m+1] = Plus(Times(g[m], <<(p - v[m+1]) % p, 1>>), Scale(u[m+1], rt[m]))
                             /\ rt[m+1] = Times(rt[m], <<(p - v[m+1]) % p, 1>>)
  BY DEF Tangents, IsTangentTable, IsRootsTable
<1>0. n \in Nat /\ Len(v) = n
  BY <1>1
<1>2. 0 \in S
  <2>0. 0 \in 0 .. Len(v)
    BY <1>0
  <2>1. PICK e : e = rt[0]
    OBVIOUS
  <2>2. e \in Seq(Field) /\ Deg(e) = 0
    <3>1. e \in Polys /\ Deg(e) = 0
      BY <1>1, <2>0, <2>1, RootsTableType
    <3> QED BY <3>1 DEF Polys
  <2>3. Derivative(e) \in Polys /\ Deg(Derivative(e)) <= Maximum(-1, Deg(e) - 1)
    BY <2>2, DerivIs
  <2>4. Len(Derivative(e)) \in Nat /\ Len(Derivative(e)) - 1 <= -1
    BY <2>2, <2>3 DEF Polys, Deg, Maximum
  <2>5. Derivative(e) = <<>>
    BY <2>3, <2>4 DEF Polys
  <2> QED BY <1>1, <2>1, <2>5
<1>3. ASSUME NEW m \in Nat, m \in S PROVE m+1 \in S
  <2> SUFFICES ASSUME m+1 <= n PROVE g[m+1] = Derivative(rt[m+1])
    OBVIOUS
  <2>1. m \in 0 .. n-1 /\ m \in 0 .. n /\ m+1 \in 1 .. n /\ m+1 \in 0 .. n /\ m <= n
    BY <1>0
  <2>2. PICK e : e = rt[m]
    OBVIOUS
  <2>3. e \in Polys /\ e \in Seq(Field)
    <3>1. e \in Polys
      BY <1>1, <2>1, <2>2, RootsTableType
    <3> QED BY <3>1 DEF Polys
  <2>4. PICK h : h = g[m]
    OBVIOUS
  <2>5. h = Derivative(e) /\ h \in Polys /\ h \in Seq(Field)
    <3>1. h = Derivative(e)
      BY <1>3, <2>1, <2>2, <2>4
    <3> QED BY <3>1, <2>3, DerivIs DEF Polys
  <2>6. PICK a \in Field : a = v[m+1]
    <3>1. v \in Seq(Field) /\ m+1 \in 1 .. Len(v)
      BY <1>0, <1>1, <2>1
    <3> QED BY <3>1
  <2>7. a \in Int
    BY FieldInt
  <2>8. PICK e2 : e2 = Times(e, << (p - a) % p, 1 >>)
    OBVIOUS
  <2>9. PICK h2 : h2 = Times(h, << (p - a) % p, 1 >>)
    OBVIOUS
  <2>10. << (p - a) % p, 1 >> \in Seq(Field)
    BY FactorIs DEF Polys
  <2>11. e2 \in Polys /\ h2 \in Polys /\ e2 \in Seq(Field) /\ h2 \in Seq(Field)
    <3>1. e2 \in Polys /\ h2 \in Polys
      BY <2>3, <2>5, <2>8, <2>9, <2>10, TimesIs
    <3> QED BY <3>1 DEF Polys
  <2>12. PICK s : s = Scale(1, e)
    OBVIOUS
  <2>13. s \in Seq(Field) /\ \A i \in Nat : Coeff(s, i) = Mod(1 * Coeff(e, i))
    BY <2>3, <2>12, ScaleIs DEF Polys
  <2>14. /\ Plus(h2, s) \in Polys
         /\ \A i \in Nat : Coeff(Plus(h2, s), i) = Mod(Coeff(h2, i) + Coeff(s, i))
    BY <2>11, <2>13, PlusIs
  <2>15. /\ Derivative(e2) \in Polys
         /\ \A i \in Nat : Coeff(Derivative(e2), i) = Mod((i+1) * Coeff(e2, i+1))
    BY <2>11, DerivIs
  <2>16. ASSUME NEW i \in Nat PROVE Coeff(Plus(h2, s), i) = Coeff(Derivative(e2), i)
    <3>1. i \in Int /\ i+1 \in Int /\ i-1 \in Int /\ (i+1)-1 = i /\ (i-1)+1 = i /\ i+1 \in Nat
      OBVIOUS
    <3>2. PICK c \in Int : c = Coeff(e, i)
      BY <2>3, <3>1, CoeffInt
    <3>3. PICK d \in Int : d = Coeff(e, i+1)
      BY <2>3, <3>1, CoeffInt
    <3>4. Coeff(h, i) = Mod((i+1) * d)
      BY <2>3, <2>5, <3>3, DerivIs
    <3>5. Coeff(h, i-1) = Mod(i * c)
      <4>1. CASE i = 0
        <5>1. ~ (i-1 \in 0 .. Deg(h))
          BY <4>1, <2>5 DEF Deg
        <5>2. Coeff(h, i-1) = 0
          BY <5>1 DEF Coeff
        <5>3. i * c = 0
          BY <4>1
        <5> QED BY <5>2, <5>3, ModSmall
      <4>2. CASE i # 0
        <5>1. i-1 \in Nat
          BY <4>2
        <5>2. Coeff(h, i-1) = Mod(((i-1)+1) * Coeff(e, (i-1)+1))
          BY <5>1, <2>3, <2>5, DerivIs
        <5> QED BY <5>2, <3>1, <3>2
      <4> QED BY <4>1, <4>2
    <3>6. Coeff(h2, i) = Mod(Mod(i*c) - a * Mod((i+1)*d))
      <4>1. Coeff(Times(h, << (p - a) % p, 1 >>), i) = Mod(Coeff(h, i-1) - a * Coeff(h, i))
        BY <3>1, <2>5, CoeffFactor
      <4> QED BY <4>1, <2>9, <3>4, <3>5
    <3>7. Coeff(e2, i+1) = Mod(c - a*d)
      <4>1. Coeff(Times(e, << (p - a) % p, 1 >>), i+1) = Mod(Coeff(e, (i+1)-1) - a * Coeff(e, i+1))
        BY <3>1, <2>3, CoeffFactor
      <4> QED BY <4>1, <2>8, <3>1, <3>2, <3>3
    <3>8. FactorRow(i, c, d, a)
      BY <2>7, <3>1, FactorRowIs
    <3> QED BY <2>13, <2>14, <2>15, <3>2, <3>6, <3>7, <3>8 DEF FactorRow
  <2>17. Plus(h2, s) = Derivative(e2)
    BY <2>14, <2>15, <2>16, SameCoeffs
  <2> QED BY <1>1, <2>1, <2>2, <2>4, <2>6, <2>8, <2>9, <2>12, <2>17
<1>4. k \in Nat /\ k <= n
  BY <1>0
<1>5. k \in S
  <2> HIDE DEF S
  <2> QED BY <1>2, <1>3, <1>4, Induct
<1> QED BY <1>4, <1>5

-----------------------------------------------------------------------------
(***************************************************************************)
(* The closed form: up to constants, k squarings make hs.h the product of  *)
(* the factors x - (r + tau)^(2^k) over the roots r of f, and hs.hbar the  *)
(* tangent of that product, with the weights (r + tau)^(2^k - 1).          *)
(***************************************************************************)
\* The roots rs, moved by tau.
MovedBy(xs, rs, tau) ==
    /\ xs \in Seq(Field) /\ rs \in Seq(Field) /\ Len(xs) = Len(rs)
    /\ \A i \in 1 .. Len(rs) : xs[i] = Mod(rs[i] + tau)

\* Moving every root by c moves the product.
LEMMA MovedRoots ==
    ASSUME NEW rs, NEW xs, NEW c \in Int, MovedBy(xs, rs, c), NEW y \in Int
    PROVE  Evaluate(FromRoots(xs), y) = Evaluate(FromRoots(rs), y - c)
<1>0. rs \in Seq(Field) /\ xs \in Seq(Field)
  BY DEF MovedBy
<1>1. PICK n \in Nat : /\ n = Len(rs) /\ n = Len(xs)
                       /\ \A k \in 1 .. n : xs[k] = Mod(rs[k] + c)
  BY <1>0 DEF MovedBy
<1>2. PICK g : IsRootsTable(g, rs) /\ FromRoots(rs) = g[n]
  BY <1>0, <1>1, RootsTableExists
<1>3. PICK h : IsRootsTable(h, xs) /\ FromRoots(xs) = h[n]
  BY <1>0, <1>1, RootsTableExists
<1>4. PICK z \in Int : z = y - c
  OBVIOUS
<1> DEFINE S == {k \in Nat : k <= n => Evaluate(h[k], y) = Evaluate(g[k], z)}
<1>5. 0 \in S
  <2>1. g[0] = <<1>> /\ h[0] = <<1>>
    BY <1>2, <1>3 DEF IsRootsTable
  <2>2. \A w \in Int : Evaluate(<<1>>, w) = 1
    BY OnePoly
  <2> QED BY <1>4, <2>1, <2>2
<1>6. ASSUME NEW k \in Nat, k \in S PROVE k+1 \in S
  <2> SUFFICES ASSUME k+1 <= n PROVE Evaluate(h[k+1], y) = Evaluate(g[k+1], z)
    OBVIOUS
  <2>1. k \in 0 .. n-1 /\ k+1 \in 1 .. n
    OBVIOUS
  <2>2. PICK a \in Field : a = rs[k+1]
    <3>1. k+1 \in 1 .. Len(rs)
      BY <1>1, <2>1
    <3> QED BY <3>1, <1>0
  <2>3. PICK b \in Field : b = xs[k+1]
    <3>1. k+1 \in 1 .. Len(xs)
      BY <1>1, <2>1
    <3> QED BY <3>1, <1>0
  <2>4. a \in Int /\ b \in Int
    BY FieldInt
  <2>5. PICK e \in Field : e = Evaluate(h[k], y) /\ e = Evaluate(g[k], z)
    <3>1. k \in 0 .. Len(xs) - 1
      BY <1>1, <2>1
    <3>2. Evaluate(h[k], y) \in Field
      BY <1>0, <1>3, <3>1, RootsTableStep
    <3> QED BY <3>2, <1>6, <2>1
  <2>6. e \in Int
    BY FieldInt
  <2>7. Evaluate(h[k+1], y) = Mod(e * (y - b))
    <3>1. k \in 0 .. Len(xs) - 1
      BY <1>1, <2>1
    <3>2. Evaluate(h[k+1], y) = Mod(Evaluate(h[k], y) * (y - xs[k+1]))
      BY <1>0, <1>3, <3>1, RootsTableStep
    <3> QED BY <3>2, <2>3, <2>5
  <2>8. Evaluate(g[k+1], z) = Mod(e * (z - a))
    <3>1. k \in 0 .. Len(rs) - 1
      BY <1>1, <2>1
    <3>2. Evaluate(g[k+1], z) = Mod(Evaluate(g[k], z) * (z - rs[k+1]))
      BY <1>0, <1>2, <3>1, RootsTableStep
    <3> QED BY <3>2, <2>2, <2>5
  <2>9. Mod(y - b) = Mod(z - a)
    <3>1. PICK s \in Int : s = a + c
      BY <2>4
    <3>2. b = Mod(s)
      BY <1>1, <2>1, <2>2, <2>3, <3>1
    <3>3. Mod(b) = Mod(s)
      BY <3>1, <3>2, ModType
    <3>4. Mod(y - b) = Mod(y - s)
      <4>1. y \in Int /\ b \in Int /\ s \in Int
        BY <2>4
      <4> QED BY <4>1, <3>3, MinusRight, ZenonT(30)
    <3>5. y - s = z - a
      BY <1>4, <2>4, <3>1
    <3> QED BY <3>4, <3>5
  <2>10. PICK d1 \in Int : d1 = y - b
    BY <2>4
  <2>11. PICK d2 \in Int : d2 = z - a
    BY <2>4
  <2>12. Mod(e * d1) = Mod(e * d2)
    <3>1. Mod(d1) = Mod(d2)
      BY <2>9, <2>10, <2>11
    <3> QED BY <3>1, <2>6, TimesRight
  <2> QED BY <2>7, <2>8, <2>10, <2>11, <2>12
<1>7. n \in S
  <2> HIDE DEF S
  <2> QED BY <1>5, <1>6, Induct
<1> QED BY <1>2, <1>3, <1>4, <1>7

\* There are more than n nonzero squares, when p is large enough.
LEMMA ManySquares ==
    ASSUME NEW n \in Nat, 2*n < p-2
    PROVE  \E T \in SUBSET Field : /\ Cardinality(T) = n+1
                                   /\ \A x \in T : \E y \in 1 .. p-1 : x = Mod(y*y)
<1>1. zeta \in 1 .. p-1 /\ zeta \in Int
  BY FftPrimeAssumption, PrimeSize
<1>2. \A k \in Nat : Power(zeta, k) \in 1 .. p-1
  BY <1>1, PowerNonzero
<1>3. 1 .. p-1 \subseteq Field
  BY PrimeSize DEF Field
<1>4. PICK s : s = [i \in 1 .. n+1 |-> Power(zeta, (i-1) + (i-1))]
  OBVIOUS
<1>5. \A i \in 1 .. n+1 : /\ i-1 \in Nat /\ (i-1) + (i-1) \in Nat /\ (i-1) + (i-1) \in 0 .. p-2
                          /\ s[i] = Power(zeta, (i-1) + (i-1))
  BY <1>4, PrimeSize
<1>6. s \in Seq(Field) /\ Len(s) = n+1
  <2>1. \A i \in 1 .. n+1 : s[i] \in Field
    BY <1>2, <1>3, <1>5
  <2>2. s \in [1 .. n+1 -> Field] /\ n+1 \in Nat
    BY <2>1, <1>4
  <2> QED BY <2>2
<1>7. NoRepeats(s)
  <2> SUFFICES ASSUME NEW i \in 1 .. n+1, NEW j \in 1 .. n+1, s[i] = s[j] PROVE i = j
    BY <1>6 DEF NoRepeats
  <2>1. PICK k \in 0 .. p-2 : k = (i-1) + (i-1)
    BY <1>5
  <2>2. PICK l \in 0 .. p-2 : l = (j-1) + (j-1)
    BY <1>5
  <2>3. k = l
    BY <2>1, <2>2, <1>5, ZetaExponents
  <2> QED BY <2>1, <2>2, <2>3
<1>8. Values(s) \in SUBSET Field /\ Cardinality(Values(s)) = n+1
  BY <1>6, <1>7, ManyValues
<1>9. ASSUME NEW x \in Values(s) PROVE \E y \in 1 .. p-1 : x = Mod(y*y)
  <2>1. PICK i \in 1 .. n+1 : x = s[i]
    BY <1>6 DEF Values
  <2>2. PICK j \in Nat : j = i-1
    BY <1>5
  <2>3. x = Power(zeta, j + j)
    BY <1>5, <2>1, <2>2
  <2>4. Power(zeta, j + j) = Mod(Power(zeta, j) * Power(zeta, j))
    BY <1>1, <2>2, PowerUnfold
  <2> QED BY <1>2, <2>2, <2>3, <2>4
<1> QED BY <1>8, <1>9

\* The pair hs is the product and the sum of the tables, each times a nonzero
\* constant.
Closed(hs, a, b) ==
    \E c, d \in 1 .. p-1 : hs.h = Scale(c, a) /\ hs.hbar = Scale(d, b)

\* What two values and the constants give.
TwoScaled(c, d, a, a1, b, b1, x, y, z, w) ==
    x = Mod(c*a) /\ y = Mod(c*a1) /\ z = Mod(d*b) /\ w = Mod(d*b1)
\* The values of the next pair.
NextScaled(c, d, q, s, e, x, y, z, w) ==
    /\ Mod(x * y) = Mod(((c*c)*e) * q)
    /\ Mod(x * w + y * z) = Mod(((c*d)*(2*e)) * s)

\* One squaring of the roots, at one place.
LEMMA ScaledStep ==
    ASSUME NEW c \in Int, NEW d \in Int, NEW a \in Int, NEW a1 \in Int, NEW b \in Int, NEW b1 \in Int,
           NEW x \in Int, NEW y \in Int, NEW z \in Int, NEW w \in Int,
           TwoScaled(c, d, a, a1, b, b1, x, y, z, w),
           NEW q \in Int, NEW s \in Int, NEW e \in Int, CrossValues(a, a1, b, b1, q, s, e)
    PROVE  NextScaled(c, d, q, s, e, x, y, z, w)
<1>1. /\ Mod(x) = Mod(c*a) /\ Mod(y) = Mod(c*a1) /\ Mod(z) = Mod(d*b) /\ Mod(w) = Mod(d*b1)
      /\ Mod(a * a1) = Mod(e * q) /\ Mod(a * b1 + a1 * b) = Mod((2 * e) * s)
  <2>1. \A k \in Int : Mod(Mod(k)) = Mod(k)
    BY ModType
  <2>2. c*a \in Int /\ c*a1 \in Int /\ d*b \in Int /\ d*b1 \in Int
    OBVIOUS
  <2> QED BY <2>1, <2>2 DEF TwoScaled, CrossValues
<1>2. PICK x1 \in Int : x1 = c*a
  OBVIOUS
<1>3. PICK y1 \in Int : y1 = c*a1
  OBVIOUS
<1>4. PICK z1 \in Int : z1 = d*b
  OBVIOUS
<1>5. PICK w1 \in Int : w1 = d*b1
  OBVIOUS
<1>0. Mod(x) = Mod(x1) /\ Mod(y) = Mod(y1) /\ Mod(z) = Mod(z1) /\ Mod(w) = Mod(w1)
  BY <1>1, <1>2, <1>3, <1>4, <1>5
<1>6. Mod(x * y) = Mod(x1 * y1)
  <2>1. SameTimes(x, y, x1, y1)
    BY <1>0, SameProduct
  <2> QED BY <2>1 DEF SameTimes
<1>7. PICK u \in Int : u = c*c
  OBVIOUS
<1>8. PICK v \in Int : v = c*d
  OBVIOUS
<1>9. PICK m \in Int : m = a * a1
  OBVIOUS
<1>10. x1 * y1 = u * m
  BY <1>2, <1>3, <1>7, <1>9
<1>11. PICK m1 \in Int : m1 = e * q
  OBVIOUS
<1>12. Mod(u * m) = Mod(u * m1)
  <2>1. Mod(m) = Mod(m1)
    BY <1>1, <1>9, <1>11
  <2>2. SameTimes(u, m, u, m1)
    BY <2>1, SameProduct
  <2> QED BY <2>2 DEF SameTimes
<1>13. u * m1 = (u*e) * q
  BY <1>11
<1>14. Mod(x * y) = Mod(((c*c)*e) * q)
  BY <1>6, <1>7, <1>10, <1>12, <1>13
<1>15. PICK k1 \in Int : k1 = x * w
  OBVIOUS
<1>16. PICK k2 \in Int : k2 = y * z
  OBVIOUS
<1>17. PICK l1 \in Int : l1 = x1 * w1
  OBVIOUS
<1>18. PICK l2 \in Int : l2 = y1 * z1
  OBVIOUS
<1>19. Mod(k1) = Mod(l1)
  <2>1. SameTimes(x, w, x1, w1)
    BY <1>0, SameProduct
  <2> QED BY <2>1, <1>15, <1>17 DEF SameTimes
<1>20. Mod(k2) = Mod(l2)
  <2>1. SameTimes(y, z, y1, z1)
    BY <1>0, SameProduct
  <2> QED BY <2>1, <1>16, <1>18 DEF SameTimes
<1>21. Mod(k1 + k2) = Mod(l1 + l2)
  BY <1>19, <1>20, CongPlus
<1>22. PICK r \in Int : r = a * b1 + a1 * b
  OBVIOUS
<1>23. l1 + l2 = v * r
  <2>1. l1 = v * (a * b1)
    BY <1>2, <1>5, <1>8, <1>17
  <2>2. l2 = v * (a1 * b)
    BY <1>3, <1>4, <1>8, <1>18
  <2> QED BY <2>1, <2>2, <1>22
<1>24. PICK r1 \in Int : r1 = (2 * e) * s
  OBVIOUS
<1>25. Mod(v * r) = Mod(v * r1)
  <2>1. Mod(r) = Mod(r1)
    BY <1>1, <1>22, <1>24
  <2>2. SameTimes(v, r, v, r1)
    BY <2>1, SameProduct
  <2> QED BY <2>2 DEF SameTimes
<1>26. v * r1 = (v * (2*e)) * s
  BY <1>24
<1> QED BY <1>8, <1>14, <1>15, <1>16, <1>21, <1>23, <1>25, <1>26 DEF NextScaled

\* The constants of the next pair are nonzero too.
LEMMA NonzeroProducts ==
    ASSUME p > 2, NEW c \in 1 .. p-1, NEW d \in 1 .. p-1, NEW e \in {1, -1}
    PROVE  Mod((c*c)*e) \in 1 .. p-1 /\ Mod((c*d)*(2*e)) \in 1 .. p-1
<1>1. c \in Int /\ d \in Int /\ e \in Int /\ c \in Field /\ d \in Field /\ c # 0 /\ d # 0
  BY DEF Field
<1>2. Mod(c) # 0 /\ Mod(d) # 0
  BY <1>1, ModOf
<1>3. Mod(e) # 0
  <2>1. CASE e = 1
    BY <2>1, ModSmall
  <2>2. CASE e = -1
    <3>1. Mod(-1) # 0
      <4>1. -1 + p*1 = p-1 /\ p-1 \in Field /\ p - 1 # 0
        BY PrimeSize DEF Field
      <4>2. Mod(-1 + p*1) = Mod(-1)
        BY ModShift
      <4> QED BY <4>1, <4>2, ModOf
    <3> QED BY <3>1, <2>2
  <2> QED BY <2>1, <2>2
<1>4. Mod(2) # 0
  <2>1. 2 \in Field
    BY PrimeSize DEF Field
  <2> QED BY <2>1, ModOf
<1>5. PICK u \in Int : u = c*c
  BY <1>1
<1>6. PICK v \in Int : v = c*d
  BY <1>1
<1>7. PICK w \in Int : w = 2*e
  BY <1>1
<1>8. Mod(u) # 0 /\ Mod(v) # 0 /\ Mod(w) # 0
  BY <1>1, <1>2, <1>3, <1>4, <1>5, <1>6, <1>7, NoZeroDivisors
<1>9. Mod(u * e) # 0 /\ Mod(v * w) # 0
  BY <1>1, <1>3, <1>8, NoZeroDivisors
<1>10. \A a \in Int : Mod(a) # 0 => Mod(a) \in 1 .. p-1
  <2>1. \A a \in Int : Mod(a) \in Field
    BY ModType
  <2>2. \A b \in Field : b # 0 => b \in 1 .. p-1
    BY PrimeSize DEF Field
  <2> QED BY <2>1, <2>2
<1>11. u * e \in Int /\ v * w \in Int
  BY <1>1
<1> QED BY <1>5, <1>6, <1>7, <1>9, <1>10, <1>11

\* The sign is 1 or -1.
LEMMA SignIs ==
    ASSUME NEW sg, Signs(sg), NEW n \in Nat
    PROVE  sg[n] \in {1, -1}
<1> DEFINE S == {k \in Nat : sg[k] \in {1, -1}}
<1>1. 0 \in S
  BY DEF Signs
<1>2. ASSUME NEW k \in Nat, k \in S PROVE k+1 \in S
  BY <1>2 DEF Signs
<1> HIDE DEF S
<1>3. n \in S
  BY <1>1, <1>2, Induct
<1> QED BY <1>3 DEF S

\* There are signs.
LEMMA SignsExist == \E sg : Signs(sg)
<1> DEFINE sg == [k \in Nat |-> IF k % 2 = 0 THEN 1 ELSE -1]
<1>1. sg \in [Nat -> Int] /\ sg[0] = 1
  OBVIOUS
<1>2. ASSUME NEW k \in Nat PROVE sg[k+1] = -sg[k]
  <2>1. PICK i \in Nat : k = 2*i \/ k = 2*i + 1
    BY EvenOrOdd
  <2>2. (2*i) % 2 = 0 /\ (2*i + 1) % 2 = 1 /\ (2*(i+1)) % 2 = 0 /\ 2*(i+1) = (2*i + 1) + 1
    BY EvenOrOdd
  <2>3. k+1 \in Nat
    OBVIOUS
  <2> QED BY <2>1, <2>2, <2>3
<1> QED BY <1>1, <1>2 DEF Signs

\* The factors and the weights of one squaring are those of the one before,
\* squared.
SquaredRow(u, v, u2, v2, n) ==
    \A k \in 1 .. n : v2[k] = Mod(v[k] * v[k]) /\ u2[k] = Mod(u[k] * v[k])

\* A value times a reduced constant.
LEMMA ReducedConstant ==
    ASSUME NEW c \in Int, NEW d \in Int, d = Mod(c), NEW q \in Int
    PROVE  Mod(d * q) = Mod(c * q)
<1>1. Mod(q * Mod(c)) = Mod(q * c)
  BY ModTimes
<1>2. q * d = d * q /\ q * c = c * q
  OBVIOUS
<1> QED BY <1>1, <1>2

\* A squaring keeps the closed form, when hbar has its full degree before it.
LEMMA ClosedStep ==
    ASSUME NEW n \in Nat, 2*n < p-2, NEW hs \in Pairs(n), Deg(hs.hbar) = n-1,
           NEW next, next = update_linear_expansion(hs),
           NEW g, NEW rt, NEW u, NEW v, Tangents(g, rt, u, v, n),
           NEW g2, NEW rt2, NEW u2, NEW v2, Tangents(g2, rt2, u2, v2, n),
           SquaredRow(u, v, u2, v2, n), Closed(hs, rt[n], g[n])
    PROVE  Closed(next, rt2[n], g2[n])
<1>1. p > 2 /\ p \in Nat
  BY PrimeSize
<1>2. PICK c \in 1 .. p-1, d \in 1 .. p-1 : hs.h = Scale(c, rt[n]) /\ hs.hbar = Scale(d, g[n])
  BY DEF Closed
<1>3. PICK a : a = rt[n]
  OBVIOUS
<1>4. PICK b : b = g[n]
  OBVIOUS
<1>5. PICK a2 : a2 = rt2[n]
  OBVIOUS
<1>6. PICK b2 : b2 = g2[n]
  OBVIOUS
<1>7. /\ a \in Seq(Field) /\ b \in Seq(Field) /\ a2 \in Seq(Field) /\ b2 \in Seq(Field)
      /\ Len(a2) = n+1 /\ Len(b2) <= n
  <2>1. n \in 0 .. n
    OBVIOUS
  <2>2. b \in Polys /\ b2 \in Polys /\ Len(b2) <= n
    BY <1>4, <1>6, <2>1, TangentTableIs
  <2>3. /\ IsRootsTable(rt, v) /\ IsRootsTable(rt2, v2) /\ v \in Seq(Field) /\ v2 \in Seq(Field)
        /\ Len(v) = n /\ Len(v2) = n
    BY DEF Tangents
  <2>4. a \in Polys /\ a2 \in Polys /\ Deg(a2) = n
    BY <1>3, <1>5, <2>1, <2>3, RootsTableType
  <2> QED BY <2>2, <2>4 DEF Polys, Deg
<1>8. PICK sg : Signs(sg)
  BY SignsExist
<1>9. PICK e \in {1, -1} : e = sg[n]
  BY <1>8, SignIs
<1>10. e \in Int /\ c \in Int /\ d \in Int
  OBVIOUS
<1>40. ASSUME NEW x \in Int
       PROVE  /\ Evaluate(hs.h, x) = Mod(c * Evaluate(a, x)) /\ Evaluate(hs.h, x) \in Int
              /\ Evaluate(hs.hbar, x) = Mod(d * Evaluate(b, x)) /\ Evaluate(hs.hbar, x) \in Int
  <2>1. hs.h = Scale(c, a) /\ hs.hbar = Scale(d, b)
    BY <1>2, <1>3, <1>4
  <2>2. Evaluate(Scale(c, a), x) = Mod(c * Evaluate(a, x)) /\ Evaluate(Scale(d, b), x) = Mod(d * Evaluate(b, x))
    BY <1>7, <1>10, EvalScale
  <2>3. PICK r \in Int : r = Evaluate(a, x)
    BY <1>7, EvalType
  <2>4. PICK s \in Int : s = Evaluate(b, x)
    BY <1>7, EvalType
  <2>5. c * r \in Int /\ d * s \in Int
    BY <1>10
  <2>6. Mod(c * r) \in Int /\ Mod(d * s) \in Int
    BY <2>5, ModType
  <2> QED BY <2>1, <2>2, <2>3, <2>4, <2>6
<1>11. PICK k \in Int : k = (c*c)*e
  BY <1>10
<1>12. PICK l \in Int : l = (c*d)*(2*e)
  BY <1>10
<1>13. PICK c2 \in 1 .. p-1 : c2 = Mod(k)
  BY <1>1, <1>11, NonzeroProducts
<1>14. PICK d2 \in 1 .. p-1 : d2 = Mod(l)
  BY <1>1, <1>12, NonzeroProducts
<1>15. c2 \in Int /\ d2 \in Int
  OBVIOUS
<1>16. next \in Pairs(n)
  BY UpdateIs
<1>17. next.h \in Polys /\ next.hbar \in Polys /\ Deg(next.h) <= n /\ Deg(next.hbar) <= n-1
  BY <1>16 DEF Pairs
<1>18. next.h \in Seq(Field) /\ next.hbar \in Seq(Field)
  BY <1>17 DEF Polys
<1>19. ASSUME NEW y \in 1 .. p-1
       PROVE  /\ Evaluate(next.h, y*y) = Mod(c2 * Evaluate(a2, y*y))
              /\ Evaluate(next.hbar, y*y) = Mod(d2 * Evaluate(b2, y*y))
  <2>1. y \in Int /\ Mod(y) # 0
    <3>1. y \in Field /\ y # 0 /\ y \in Int
      BY <1>1 DEF Field
    <3> QED BY <3>1, ModOf
  <2>2. PICK y1 \in Int : y1 = -y
    BY <2>1
  <2>3. PICK z \in Int : z = y*y
    BY <2>1
  <2>4. PICK x0 \in Int : x0 = Evaluate(hs.h, y) /\ x0 = Mod(c * Evaluate(a, y))
    BY <1>40, <2>1
  <2>5. PICK x1 \in Int : x1 = Evaluate(hs.h, y1) /\ x1 = Mod(c * Evaluate(a, y1))
    BY <1>40, <2>2
  <2>6. PICK w0 \in Int : w0 = Evaluate(hs.hbar, y) /\ w0 = Mod(d * Evaluate(b, y))
    BY <1>40, <2>1
  <2>7. PICK w1 \in Int : w1 = Evaluate(hs.hbar, y1) /\ w1 = Mod(d * Evaluate(b, y1))
    BY <1>40, <2>2
  <2>8. PICK a0 \in Int : a0 = Evaluate(a, y)
    BY <1>7, <2>1, EvalType
  <2>9. PICK a1 \in Int : a1 = Evaluate(a, y1)
    BY <1>7, <2>2, EvalType
  <2>10. PICK b0 \in Int : b0 = Evaluate(b, y)
    BY <1>7, <2>1, EvalType
  <2>11. PICK b1 \in Int : b1 = Evaluate(b, y1)
    BY <1>7, <2>2, EvalType
  <2>12. PICK q \in Int : q = Evaluate(a2, z)
    BY <1>7, <2>3, EvalType
  <2>13. PICK s \in Int : s = Evaluate(b2, z)
    BY <1>7, <2>3, EvalType
  <2>14. TwoScaled(c, d, a0, a1, b0, b1, x0, x1, w0, w1)
    BY <2>4, <2>5, <2>6, <2>7, <2>8, <2>9, <2>10, <2>11 DEF TwoScaled
  <2>15. CrossValues(a0, a1, b0, b1, q, s, e)
    <3>1. Points(y, y1, z)
      BY <2>2, <2>3 DEF Points
    <3>2. \A i \in 1 .. n : v2[i] = Mod(v[i] * v[i]) /\ u2[i] = Mod(u[i] * v[i])
      BY DEF SquaredRow
    <3>3. CrossValues(Evaluate(rt[n], y), Evaluate(rt[n], y1), Evaluate(g[n], y), Evaluate(g[n], y1),
                      Evaluate(rt2[n], z), Evaluate(g2[n], z), sg[n])
      BY <1>8, <2>1, <3>1, <3>2, SquareTangents
    <3> QED BY <3>3, <1>3, <1>4, <1>5, <1>6, <1>9, <2>8, <2>9, <2>10, <2>11, <2>12, <2>13
  <2>16. NextScaled(c, d, q, s, e, x0, x1, w0, w1)
    BY <1>10, <2>14, <2>15, ScaledStep
  <2>17. /\ Evaluate(next.h, y*y) = Mod(Evaluate(hs.h, y) * Evaluate(hs.h, -y))
         /\ Evaluate(next.hbar, y*y) = Mod(Evaluate(hs.h, y) * Evaluate(hs.hbar, -y)
                                             + Evaluate(hs.h, -y) * Evaluate(hs.hbar, y))
    BY <1>1, <2>1, GraeffeValues
  <2>18. Evaluate(next.h, z) = Mod(x0 * x1) /\ Evaluate(next.hbar, z) = Mod(x0 * w1 + x1 * w0)
    BY <2>2, <2>3, <2>4, <2>5, <2>6, <2>7, <2>17
  <2>19. Mod(x0 * x1) = Mod(k * q) /\ Mod(x0 * w1 + x1 * w0) = Mod(l * s)
    BY <2>16, <1>11, <1>12 DEF NextScaled
  <2>20. Mod(c2 * q) = Mod(k * q) /\ Mod(d2 * s) = Mod(l * s)
    BY <1>13, <1>14, <1>15, ReducedConstant
  <2> QED BY <2>3, <2>12, <2>13, <2>18, <2>19, <2>20
<1>20. PICK T \in SUBSET Field : /\ Cardinality(T) = n+1
                                 /\ \A x \in T : \E y \in 1 .. p-1 : x = Mod(y*y)
  BY ManySquares
<1>21. PICK h : h = Scale(c2, a2)
  OBVIOUS
<1>22. PICK hb : hb = Scale(d2, b2)
  OBVIOUS
<1>23. h \in Polys /\ hb \in Polys /\ Deg(h) <= n /\ Deg(hb) <= n-1
  <2>1. h \in Polys /\ Len(h) <= Len(a2) /\ hb \in Polys /\ Len(hb) <= Len(b2)
    BY <1>7, <1>15, <1>21, <1>22, ScaleIs
  <2>2. h \in Seq(Field) /\ hb \in Seq(Field)
    BY <2>1 DEF Polys
  <2>3. Len(h) \in Nat /\ Len(hb) \in Nat /\ Len(b2) \in Nat
    BY <2>2, <1>7
  <2> QED BY <1>7, <2>1, <2>3 DEF Deg
<1>24. ASSUME NEW x \in T
       PROVE  Evaluate(next.h, x) = Evaluate(h, x) /\ Evaluate(next.hbar, x) = Evaluate(hb, x)
  <2>1. PICK y \in 1 .. p-1 : x = Mod(y*y)
    BY <1>20
  <2>2. PICK z \in Int : z = y*y
    OBVIOUS
  <2>3. x \in Int /\ Mod(x) = Mod(z)
    BY <2>1, <2>2, ModType
  <2>4. Evaluate(next.h, x) = Mod(c2 * Evaluate(a2, z)) /\ Evaluate(next.hbar, x) = Mod(d2 * Evaluate(b2, z))
    <3>1. Evaluate(next.h, x) = Evaluate(next.h, z) /\ Evaluate(next.hbar, x) = Evaluate(next.hbar, z)
      BY <1>18, <2>3, EvalCong
    <3> QED BY <3>1, <1>19, <2>2
  <2>5. Evaluate(h, x) = Mod(c2 * Evaluate(a2, x)) /\ Evaluate(hb, x) = Mod(d2 * Evaluate(b2, x))
    BY <1>7, <1>15, <1>21, <1>22, <2>3, EvalScale
  <2>6. Evaluate(a2, x) = Evaluate(a2, z) /\ Evaluate(b2, x) = Evaluate(b2, z)
    BY <1>7, <2>3, EvalCong
  <2> QED BY <2>4, <2>5, <2>6
<1>25. Deg(next.h) \in Int /\ Deg(next.hbar) \in Int /\ Deg(h) \in Int /\ Deg(hb) \in Int
  <2>1. \A m \in Polys : Deg(m) \in Int
    BY DEF Polys, Deg
  <2> QED BY <2>1, <1>17, <1>23
<1>26. next.h = h
  <2>1. Deg(next.h) < Cardinality(T) /\ Deg(h) < Cardinality(T)
    BY <1>17, <1>20, <1>23, <1>25
  <2> QED BY <2>1, <1>17, <1>23, <1>24, SameValuesOn
<1>27. next.hbar = hb
  <2>1. Deg(next.hbar) < Cardinality(T) /\ Deg(hb) < Cardinality(T)
    BY <1>17, <1>20, <1>23, <1>25
  <2> QED BY <2>1, <1>17, <1>23, <1>24, SameValuesOn
<1> QED BY <1>5, <1>6, <1>21, <1>22, <1>26, <1>27 DEF Closed

\* The 2^k-th powers of the roots, and the powers one below.
IsRow(u, v, xs, k) ==
    /\ u \in Seq(Field) /\ v \in Seq(Field) /\ Len(u) = Len(xs) /\ Len(v) = Len(xs)
    /\ \A i \in 1 .. Len(xs) : /\ v[i] = Power(xs[i], power2[k])
                               /\ u[i] = Power(xs[i], power2[k] - 1)

\* There is such a row.
LEMMA RowExists ==
    ASSUME NEW xs \in Seq(Field), NEW k \in Nat
    PROVE  \E u, v : IsRow(u, v, xs, k)
<1>1. PICK n \in Nat : n = Len(xs)
  OBVIOUS
<1>2. PICK m \in Nat : m = power2[k] /\ m - 1 \in Nat
  <2>1. PICK m \in Nat : m = power2[k] /\ m >= 1
    BY Power2Is
  <2> QED BY <2>1
<1>3. \A i \in 1 .. n : xs[i] \in Int
  <2>1. \A i \in 1 .. n : xs[i] \in Field
    BY <1>1
  <2> QED BY <2>1, FieldInt
<1>4. PICK v : v = [i \in 1 .. n |-> Power(xs[i], m)]
  OBVIOUS
<1>5. PICK u : u = [i \in 1 .. n |-> Power(xs[i], m - 1)]
  OBVIOUS
<1>6. v \in [1 .. n -> Field] /\ u \in [1 .. n -> Field]
  <2>1. \A i \in 1 .. n : Power(xs[i], m) \in Field /\ Power(xs[i], m-1) \in Field
    BY <1>2, <1>3, PowerUnfold
  <2> QED BY <2>1, <1>4, <1>5
<1>7. u \in Seq(Field) /\ v \in Seq(Field) /\ Len(u) = n /\ Len(v) = n
  BY <1>6
<1>8. \A i \in 1 .. n : v[i] = Power(xs[i], power2[k]) /\ u[i] = Power(xs[i], power2[k] - 1)
  BY <1>2, <1>4, <1>5
<1> QED BY <1>1, <1>7, <1>8 DEF IsRow

\* The next row is the square of one.
LEMMA RowSquared ==
    ASSUME NEW xs \in Seq(Field), NEW k \in Nat, NEW u, NEW v, IsRow(u, v, xs, k),
           NEW u2, NEW v2, IsRow(u2, v2, xs, k+1)
    PROVE  SquaredRow(u, v, u2, v2, Len(xs))
<1> SUFFICES ASSUME NEW i \in 1 .. Len(xs)
             PROVE  v2[i] = Mod(v[i] * v[i]) /\ u2[i] = Mod(u[i] * v[i])
  BY DEF SquaredRow
<1>1. PICK x \in Int : x = xs[i]
  <2>1. xs[i] \in Field
    OBVIOUS
  <2> QED BY <2>1, FieldInt
<1>2. PICK m \in Nat : m = power2[k] /\ m - 1 \in Nat /\ power2[k+1] = 2*m
  <2>1. PICK m \in Nat : m = power2[k] /\ m >= 1 /\ power2[k+1] = 2*m
    BY Power2Is
  <2> QED BY <2>1
<1>3. 2*m = m + m /\ 2*m - 1 = (m-1) + m
  OBVIOUS
<1>4. Power(x, m + m) = Mod(Power(x, m) * Power(x, m))
  BY PowerUnfold
<1>5. Power(x, (m-1) + m) = Mod(Power(x, m-1) * Power(x, m))
  BY <1>2, PowerUnfold
<1>6. v[i] = Power(x, m) /\ u[i] = Power(x, m-1)
  BY <1>1, <1>2 DEF IsRow
<1>7. v2[i] = Power(x, m + m) /\ u2[i] = Power(x, (m-1) + m)
  BY <1>1, <1>2, <1>3 DEF IsRow
<1> QED BY <1>4, <1>5, <1>6, <1>7

\* hs has the closed form of the row k.
Formed(hs, xs, k) ==
    \A u, v, g, rt : IsRow(u, v, xs, k) /\ Tangents(g, rt, u, v, Len(xs))
                        => Closed(hs, rt[Len(xs)], g[Len(xs)])

\* A polynomial times 1.
LEMMA ScaleOne ==
    ASSUME NEW e \in Polys
    PROVE  Scale(1, e) = e
<1>1. e \in Seq(Field)
  BY DEF Polys
<1>2. Scale(1, e) \in Polys /\ \A i \in Nat : Coeff(Scale(1, e), i) = Mod(1 * Coeff(e, i))
  BY <1>1, ScaleIs
<1>3. ASSUME NEW i \in Nat PROVE Coeff(Scale(1, e), i) = Coeff(e, i)
  <2>1. PICK c \in Field : c = Coeff(e, i)
    BY <1>1, CoeffInt
  <2>2. 1 * c = c /\ Mod(c) = c
    BY ModOf
  <2> QED BY <1>2, <2>1, <2>2
<1> QED BY <1>2, <1>3, SameCoeffs

\* The expansion has the closed form.
LEMMA FormedFirst ==
    ASSUME NEW g \in Polys, g # <<>>, NEW n \in Nat, n = Deg(g), 2*n < p-2, NEW rs, NEW xs, NEW tau \in Field,
           MovedBy(xs, rs, tau), Len(rs) = n, \A y \in Field : Evaluate(g, y) = Evaluate(FromRoots(rs), y),
           NEW hs, hs = initial_linear_expansion(g, Neg(tau))
    PROVE  Formed(hs, xs, 0)
<1>1. rs \in Seq(Field) /\ xs \in Seq(Field) /\ Len(xs) = n /\ \A i \in 1 .. n : xs[i] = Mod(rs[i] + tau)
  BY DEF MovedBy
<1>2. tau \in Int /\ Neg(tau) \in Int /\ n < p /\ p \in Nat
  BY PrimeSize DEF Neg, Field
<1>3. FromRoots(rs) \in Polys /\ Deg(FromRoots(rs)) = n /\ FromRoots(xs) \in Polys /\ Deg(FromRoots(xs)) = n
  BY <1>1, RootsPoly
<1>4. g = FromRoots(rs)
  BY <1>2, <1>3, SameValues
<1>5. hs \in Pairs(n)
  BY <1>2, ExpansionIs
<1>6. hs.h \in Polys /\ Deg(hs.h) <= n
  BY <1>5 DEF Pairs
<1>7. Shifted(hs.h, g, Neg(tau)) /\ hs.hbar = Derivative(hs.h)
  BY <1>2, ExpansionShifts
<1>8. ASSUME NEW y \in Field PROVE Evaluate(hs.h, y) = Evaluate(FromRoots(xs), y)
  <2>1. y \in Int
    BY FieldInt
  <2>2. PICK a \in Int : a = y + Neg(tau)
    BY <1>2, <2>1
  <2>3. PICK b \in Int : b = y - tau
    BY <1>2, <2>1
  <2>4. Evaluate(hs.h, y) = Evaluate(g, a)
    BY <1>7, <2>1, <2>2 DEF Shifted
  <2>5. Mod(a) = Mod(b)
    <3>1. PICK c \in Int : c = p - tau
      BY <1>2
    <3>2. Neg(tau) = Mod(c)
      BY <3>1 DEF Neg, Mod
    <3>3. Mod(a) = Mod(y + c)
      BY <2>1, <2>2, <3>1, <3>2, ModPlus
    <3>4. y + c = b + p*1 /\ 1 \in Int
      BY <1>2, <2>1, <2>3, <3>1
    <3>5. Mod(b + p*1) = Mod(b)
      BY ModShift
    <3> QED BY <3>3, <3>4, <3>5
  <2>6. Evaluate(g, a) = Evaluate(g, b)
    <3>1. g \in Seq(Field)
      BY DEF Polys
    <3> QED BY <3>1, <2>5, EvalCong
  <2>7. Evaluate(FromRoots(xs), y) = Evaluate(FromRoots(rs), y - tau)
    BY <1>2, <2>1, MovedRoots
  <2> QED BY <1>4, <2>3, <2>4, <2>6, <2>7
<1>9. hs.h = FromRoots(xs)
  <2>1. Deg(hs.h) \in Int
    BY <1>6 DEF Polys, Deg
  <2>2. Deg(hs.h) < p /\ Deg(FromRoots(xs)) < p
    BY <2>1, <1>2, <1>3, <1>6
  <2> QED BY <2>2, <1>3, <1>6, <1>8, SameValues
<1>10. ASSUME NEW u, NEW v, NEW d, NEW rt, IsRow(u, v, xs, 0), Tangents(d, rt, u, v, n)
       PROVE  Closed(hs, rt[n], d[n])
  <2>1. /\ v \in Seq(Field) /\ Len(v) = n
        /\ \A i \in 1 .. n : v[i] = Power(xs[i], 1) /\ u[i] = Power(xs[i], 0)
    <3>1. power2[0] = 1 /\ 1 - 1 = 0
      BY Power2Is
    <3> QED BY <1>1, <1>10, <3>1 DEF IsRow
  <2>2. \A i \in 1 .. n : v[i] = xs[i] /\ u[i] = 1
    <3> SUFFICES ASSUME NEW i \in 1 .. n PROVE v[i] = xs[i] /\ u[i] = 1
      OBVIOUS
    <3>1. PICK x \in Field : x = xs[i]
      BY <1>1
    <3>2. x \in Int /\ Mod(x) = x
      BY ModOf
    <3>3. Power(x, 0) = 1 /\ Power(x, 0+1) = Mod(x * Power(x, 0))
      BY <3>2, PowerUnfold
    <3>4. x * 1 = x /\ 0 + 1 = 1
      BY <3>2
    <3> QED BY <2>1, <3>1, <3>2, <3>3, <3>4
  <2>3. v = xs
    BY <1>1, <2>1, <2>2, SameSequence
  <2>4. IsRootsTable(rt, xs) /\ n \in 0 .. n
    BY <1>10, <2>3 DEF Tangents
  <2>5. rt[n] = hs.h
    BY <1>1, <1>9, <2>4, RootsTableIs
  <2>6. d[n] = hs.hbar
    <3>1. d[n] = Derivative(rt[n])
      BY <1>10, <2>2, <2>4, DerivTangent
    <3> QED BY <3>1, <1>7, <2>5
  <2>7. hs.hbar \in Polys
    BY <1>5 DEF Pairs
  <2>8. hs.h = Scale(1, rt[n]) /\ hs.hbar = Scale(1, d[n])
    BY <1>6, <2>5, <2>6, <2>7, ScaleOne
  <2>9. 1 \in 1 .. p-1
    BY PrimeSize
  <2> QED BY <2>8, <2>9 DEF Closed
<1> QED BY <1>1, <1>10 DEF Formed

\* The closed form shows the degree of hbar: its leading coefficient is a
\* multiple of the sum of the weights.
LEMMA FullDegree ==
    ASSUME NEW n \in Nat, n > 0, NEW hs \in Pairs(n), NEW g, NEW rt, NEW u, NEW v, Tangents(g, rt, u, v, n),
           Closed(hs, rt[n], g[n]), SumFrom(u, 1, n) # 0
    PROVE  Deg(hs.hbar) = n-1
<1>1. PICK e : e = g[n]
  OBVIOUS
<1>2. e \in Polys /\ Coeff(e, n-1) = SumFrom(u, 1, n)
  <2>1. n \in 0 .. n
    OBVIOUS
  <2> QED BY <2>1, <1>1, TangentTableIs
<1>3. e \in Seq(Field) /\ n-1 \in Nat
  BY <1>2 DEF Polys
<1>4. PICK d \in 1 .. p-1 : hs.hbar = Scale(d, e)
  BY <1>1 DEF Closed
<1>5. d \in Int /\ Mod(d) # 0
  <2>1. d \in Field /\ d # 0
    BY DEF Field
  <2> QED BY <2>1, ModOf
<1>6. PICK c \in Field : c = Coeff(e, n-1)
  BY <1>3, CoeffType
<1>7. c \in Int /\ Mod(c) # 0
  <2>1. c # 0
    BY <1>2, <1>6
  <2> QED BY <2>1, ModOf
<1>8. Mod(d * c) # 0
  BY <1>5, <1>7, NoZeroDivisors
<1>9. Coeff(hs.hbar, n-1) = Mod(d * c)
  BY <1>3, <1>4, <1>5, <1>6, ScaleIs
<1>10. hs.hbar \in Polys /\ Deg(hs.hbar) <= n-1
  BY DEF Pairs
<1>11. Len(hs.hbar) > n-1
  BY <1>3, <1>8, <1>9, <1>10, DegAtLeast
<1>12. Len(hs.hbar) \in Nat
  BY <1>10 DEF Polys
<1> QED BY <1>10, <1>11, <1>12 DEF Deg

\* The weights of the first rows have nonzero sums.
Weighty(xs, ell) ==
    \A k \in 0 .. ell-1 : \A u, v : IsRow(u, v, xs, k) => SumFrom(u, 1, Len(xs)) # 0

\* Then every transform has the closed form, and the ones before the last the
\* full degree.
LEMMA AllFormed ==
    ASSUME NEW g \in Polys, g # <<>>, NEW n \in Nat, n = Deg(g), n > 0, 2*n < p-2, NEW rs, NEW xs,
           NEW tau \in Field, MovedBy(xs, rs, tau), Len(rs) = n,
           \A y \in Field : Evaluate(g, y) = Evaluate(FromRoots(rs), y),
           NEW t, Transforms(t, g, tau), NEW ell \in Nat, Weighty(xs, ell), NEW m \in 0 .. ell
    PROVE  Formed(t[m], xs, m) /\ (m < ell => Deg(t[m].hbar) = n-1)
<1>1. xs \in Seq(Field) /\ Len(xs) = n
  BY DEF MovedBy
<1>2. /\ t[0] = initial_linear_expansion(g, Neg(tau))
      /\ \A k \in Nat : t[k] \in Pairs(n) /\ t[k+1] = update_linear_expansion(t[k])
  BY DEF Transforms
<1>3. ASSUME NEW k \in Nat, k < ell, Formed(t[k], xs, k) PROVE Deg(t[k].hbar) = n-1
  <2>1. PICK u, v : IsRow(u, v, xs, k)
    BY <1>1, RowExists
  <2>2. PICK d, rt : Tangents(d, rt, u, v, n)
    BY <1>1, <2>1, TangentsExist DEF IsRow
  <2>3. Closed(t[k], rt[n], d[n])
    BY <1>1, <1>3, <2>1, <2>2 DEF Formed
  <2>4. SumFrom(u, 1, n) # 0
    BY <1>1, <1>3, <2>1 DEF Weighty
  <2> QED BY <1>2, <2>2, <2>3, <2>4, FullDegree
<1> DEFINE S == {k \in Nat : k <= ell => Formed(t[k], xs, k)}
<1>4. 0 \in S
  BY <1>2, FormedFirst
<1>5. ASSUME NEW k \in Nat, k \in S PROVE k+1 \in S
  <2> SUFFICES ASSUME k+1 <= ell PROVE Formed(t[k+1], xs, k+1)
    OBVIOUS
  <2>1. k < ell /\ Formed(t[k], xs, k)
    BY <1>5
  <2>2. Deg(t[k].hbar) = n-1
    BY <1>3, <2>1
  <2>3. PICK u, v : IsRow(u, v, xs, k)
    BY <1>1, RowExists
  <2>4. PICK d, rt : Tangents(d, rt, u, v, n)
    BY <1>1, <2>3, TangentsExist DEF IsRow
  <2>5. Closed(t[k], rt[n], d[n])
    BY <1>1, <2>1, <2>3, <2>4 DEF Formed
  <2>6. ASSUME NEW u2, NEW v2, NEW d2, NEW rt2, IsRow(u2, v2, xs, k+1), Tangents(d2, rt2, u2, v2, n)
        PROVE  Closed(t[k+1], rt2[n], d2[n])
    <3>1. SquaredRow(u, v, u2, v2, n)
      BY <1>1, <2>3, <2>6, RowSquared
    <3>2. t[k+1] = update_linear_expansion(t[k]) /\ t[k] \in Pairs(n)
      BY <1>2
    <3> QED BY <2>2, <2>4, <2>5, <2>6, <3>1, <3>2, ClosedStep
  <2> QED BY <1>1, <2>6 DEF Formed
<1>6. m \in Nat /\ m <= ell
  OBVIOUS
<1>7. m \in S
  <2> HIDE DEF S
  <2> QED BY <1>4, <1>5, <1>6, Induct
<1> QED BY <1>3, <1>6, <1>7

-----------------------------------------------------------------------------
(***************************************************************************)
(* A root whose 2^ell-th power differs from all the others is found.       *)
(***************************************************************************)
\* A product of factors with no root at y.
LEMMA NoRootYet ==
    ASSUME NEW v \in Seq(Field), NEW rt, IsRootsTable(rt, v), NEW m \in 0 .. Len(v),
           NEW y \in Field, \A j \in 1 .. m : v[j] # y
    PROVE  Evaluate(rt[m], y) # 0
<1>1. PICK n \in Nat : n = Len(v)
  OBVIOUS
<1>2. y \in Int
  BY FieldInt
<1> DEFINE S == {k \in Nat : k <= m => Evaluate(rt[k], y) # 0}
<1>3. 0 \in S
  <2>1. rt[0] = <<1>>
    BY DEF IsRootsTable
  <2> QED BY <1>2, <2>1, OnePoly
<1>4. ASSUME NEW k \in Nat, k \in S PROVE k+1 \in S
  <2> SUFFICES ASSUME k+1 <= m PROVE Evaluate(rt[k+1], y) # 0
    OBVIOUS
  <2>1. k \in 0 .. Len(v) - 1 /\ k+1 \in 1 .. m
    BY <1>1
  <2>2. PICK a \in Field : a = v[k+1]
    BY <1>2, <2>1, RootsTableStep
  <2>3. PICK e \in Field : e = Evaluate(rt[k], y)
    BY <1>2, <2>1, RootsTableStep
  <2>4. Evaluate(rt[k+1], y) = Mod(e * (y - a))
    BY <1>2, <2>1, <2>2, <2>3, RootsTableStep
  <2>5. a \in Int /\ e \in Int /\ Mod(e) # 0
    <3>1. e # 0
      BY <1>4, <2>3
    <3> QED BY <3>1, ModOf
  <2>6. Mod(y - a) # 0
    <3>1. a # y
      BY <2>1, <2>2
    <3> QED BY <3>1, DifferentMod
  <2>7. PICK d \in Int : d = y - a
    BY <1>2, <2>5
  <2>8. Mod(e * d) # 0
    BY <2>5, <2>6, <2>7, NoZeroDivisors
  <2> QED BY <2>4, <2>7, <2>8
<1>5. m \in Nat /\ m <= m
  BY <1>1
<1>6. m \in S
  <2> HIDE DEF S
  <2> QED BY <1>3, <1>4, <1>5, Induct
<1> QED BY <1>5, <1>6

\* The last factor is y, with a weight, and the others are not.
LastApart(u, v, n, y) == v[n] = y /\ u[n] # 0 /\ \A j \in 1 .. n-1 : v[j] # y

\* At a last factor that differs from the others the product is 0 and the sum
\* is not.
LEMMA LastFactor ==
    ASSUME NEW n \in Nat, n > 0, NEW g, NEW rt, NEW u, NEW v, Tangents(g, rt, u, v, n),
           NEW y \in Field, LastApart(u, v, n, y)
    PROVE  Evaluate(rt[n], y) = 0 /\ Evaluate(g[n], y) # 0
<1>0. v[n] = y /\ u[n] # 0 /\ \A j \in 1 .. n-1 : v[j] # y
  BY DEF LastApart
<1>1. v \in Seq(Field) /\ u \in Seq(Field) /\ Len(v) = n /\ Len(u) = n /\ IsRootsTable(rt, v)
  BY DEF Tangents
<1>2. PICK k \in Nat : k = n-1 /\ n = k+1
  OBVIOUS
<1>3. k \in 0 .. n-1 /\ k \in 0 .. n /\ k+1 \in 1 .. n
  BY <1>2
<1>4. y \in Int /\ y - y = 0
  BY FieldInt
<1>5. PICK e \in Field : e = Evaluate(rt[k], y)
  <2>1. k \in 0 .. Len(v) - 1
    BY <1>1, <1>3
  <2>2. Evaluate(rt[k], y) \in Field
    BY <1>1, <1>4, <2>1, RootsTableStep
  <2> QED BY <2>2
<1>6. e # 0
  <2>1. \A j \in 1 .. k : v[j] # y
    BY <1>0, <1>2
  <2> QED BY <2>1, <1>1, <1>3, <1>5, NoRootYet
<1>7. PICK b \in Field : b = u[n]
  BY <1>1, <1>2, <1>3
<1>8. e \in Int /\ b \in Int /\ Mod(e) # 0 /\ Mod(b) # 0
  BY <1>0, <1>6, <1>7, ModOf
<1>9. Evaluate(rt[n], y) = 0
  <2>1. Evaluate(rt[k+1], y) = Mod(e * (y - v[k+1]))
    BY <1>1, <1>3, <1>4, <1>5, RootsTableStep
  <2>2. e * 0 = 0
    BY <1>8
  <2> QED BY <1>0, <2>1, <2>2, <1>2, <1>4, ModSmall
<1>10. Evaluate(g[n], y) = Mod(b * e)
  <2>1. g[k] \in Polys
    BY <1>3, TangentTableIs
  <2>2. Evaluate(g[k+1], y) = Mod(Evaluate(g[k], y) * (y - v[k+1]) + u[k+1] * Evaluate(rt[k], y))
    BY <1>3, <1>4, <2>1, TangentStep
  <2>3. PICK d \in Int : d = Evaluate(g[k], y)
    <3>1. g[k] \in Seq(Field)
      BY <2>1 DEF Polys
    <3> QED BY <3>1, <1>4, EvalType
  <2>4. PICK c \in Int : c = b * e
    BY <1>8
  <2>5. d * 0 + c = c
    BY <2>3, <2>4
  <2> QED BY <1>0, <1>2, <1>4, <1>5, <1>7, <2>2, <2>3, <2>4, <2>5
<1>11. Mod(b * e) # 0
  BY <1>8, NoZeroDivisors
<1> QED BY <1>9, <1>10, <1>11

\* A power of order 2^ell is one of the roots of unity of find_roots.
LEMMA IsUnity ==
    ASSUME NEW ell \in 1 .. two_exponent - 2, NEW x \in 1 .. p-1
    PROVE  \E i \in 0 .. Chi(ell) - 1 : Power(UnityZ(ell), i) = Power(x, power2[ell])
<1>1. ell \in Nat /\ zeta \in Int /\ zeta \in 1 .. p-1
  BY FftPrimeAssumption, ChiIs
<1>2. PICK c \in Nat : c = Chi(ell) /\ c >= 1
  BY ChiIs DEF Chi
<1>3. PICK m \in Nat : m = power2[ell]
  BY <1>1, Power2Is
<1>4. PICK j \in 1 .. p-1 : Power(zeta, j) = x
  <2>1. x \in {Power(zeta, k) : k \in 1 .. p-1}
    BY FftPrimeAssumption
  <2> QED BY <2>1
<1>5. j \in Nat
  BY PrimeSize
<1>6. PICK z \in Int : z = UnityZ(ell)
  <2>1. Power(zeta, m) \in Field
    BY <1>1, <1>3, PowerUnfold
  <2> QED BY <1>3, <2>1, FieldInt DEF UnityZ
<1>7. Power(x, m) = Power(z, j)
  <2>1. Power(Power(zeta, j), m) = Power(zeta, j * m)
    BY <1>1, <1>3, <1>5, PowerPower
  <2>2. Power(z, j) = Power(zeta, m * j)
    BY <1>3, <1>5, <1>6, UnityIs
  <2>3. j * m = m * j
    BY <1>3, <1>5
  <2> QED BY <1>4, <2>1, <2>2, <2>3
<1>8. Power(z, c) = 1 /\ Power(z, 0) = 1
  <2>1. Power(UnityW(ell), 2 * c) = 1
    BY <1>2, UnityIs
  <2>2. Power(UnityW(ell), 2 * c) = Power(z, c)
    BY <1>2, <1>6, UnityIs
  <2> QED BY <1>6, <2>1, <2>2, PowerUnfold
<1> DEFINE S == {k \in Nat : \E i \in 0 .. c-1 : Power(z, k) = Power(z, i)}
<1>9. 0 \in S
  <2>1. 0 \in 0 .. c-1
    BY <1>2
  <2> QED BY <2>1
<1>10. ASSUME NEW k \in Nat, k \in S PROVE k+1 \in S
  <2>1. PICK i \in 0 .. c-1 : Power(z, k) = Power(z, i)
    BY <1>10
  <2>2. i \in Nat /\ i+1 \in Nat
    BY <1>2
  <2>3. Power(z, k+1) = Power(z, i+1)
    <3>1. Power(z, k+1) = Mod(z * Power(z, k)) /\ Power(z, i+1) = Mod(z * Power(z, i))
      BY <1>6, <2>2, PowerUnfold
    <3> QED BY <2>1, <3>1
  <2>4. CASE i+1 < c
    <3>1. i+1 \in 0 .. c-1
      BY <1>2, <2>2, <2>4
    <3> QED BY <2>3, <3>1
  <2>5. CASE ~ (i+1 < c)
    <3>1. i+1 = c /\ 0 \in 0 .. c-1
      BY <1>2, <2>1, <2>2, <2>5
    <3> QED BY <1>8, <2>3, <3>1
  <2> QED BY <2>4, <2>5
<1>11. j \in S
  <2> HIDE DEF S
  <2> QED BY <1>5, <1>9, <1>10, Induct
<1>12. PICK i \in 0 .. c-1 : Power(z, j) = Power(z, i)
  BY <1>11
<1> QED BY <1>2, <1>3, <1>6, <1>7, <1>12

\* The last root keeps apart from the others after ell squarings.
Apart(xs, ell) ==
    /\ xs[Len(xs)] \in 1 .. p-1
    /\ \A j \in 1 .. Len(xs) - 1 : Power(xs[j], power2[ell]) # Power(xs[Len(xs)], power2[ell])

\* A root that keeps apart is found.
LEMMA ApartFound ==
    ASSUME NEW n \in Nat, n > 0, NEW xs \in Seq(Field), Len(xs) = n, NEW ell \in 1 .. two_exponent - 2,
           NEW hs \in Pairs(n), Formed(hs, xs, ell), n < Chi(ell), Apart(xs, ell), NEW tau \in Field
    PROVE  RootsFromValues(hs, tau, ell) # <<>>
<1>1. ell \in Nat /\ Chi(ell) \in Nat
  BY ChiIs DEF Chi
<1>2. PICK u, v : IsRow(u, v, xs, ell)
  BY <1>1, RowExists
<1>3. PICK g, rt : Tangents(g, rt, u, v, n)
  BY <1>2, TangentsExist DEF IsRow
<1>4. Closed(hs, rt[n], g[n])
  BY <1>2, <1>3 DEF Formed
<1>5. PICK c \in 1 .. p-1, d \in 1 .. p-1 : hs.h = Scale(c, rt[n]) /\ hs.hbar = Scale(d, g[n])
  BY <1>4 DEF Closed
<1>6. PICK x \in 1 .. p-1 : x = xs[n]
  BY DEF Apart
<1>7. PICK m \in Nat : m = power2[ell] /\ m >= 1 /\ m - 1 \in Nat
  <2>1. PICK m \in Nat : m = power2[ell] /\ m >= 1
    BY <1>1, Power2Is
  <2> QED BY <2>1
<1>8. PICK y \in 1 .. p-1 : y = Power(x, m)
  BY <1>7, PowerNonzero
<1>9. y \in Field /\ y \in Int
  BY PrimeSize DEF Field
<1>10. n \in 1 .. n /\ n \in 0 .. n
  OBVIOUS
<1>11. v[n] = y /\ u[n] # 0
  <2>1. v[n] = Power(x, m) /\ u[n] = Power(x, m-1)
    BY <1>2, <1>6, <1>7, <1>10 DEF IsRow
  <2>2. Power(x, m-1) \in 1 .. p-1
    BY <1>7, PowerNonzero
  <2> QED BY <1>8, <2>1, <2>2
<1>12. ASSUME NEW j \in 1 .. n-1 PROVE v[j] # y
  <2>0. j \in 1 .. Len(xs) - 1
    OBVIOUS
  <2>1. j \in 1 .. n
    OBVIOUS
  <2>2. v[j] = Power(xs[j], power2[ell])
    BY <1>2, <2>1 DEF IsRow
  <2>3. Power(xs[j], power2[ell]) # Power(xs[n], power2[ell])
    BY <2>0 DEF Apart
  <2> QED BY <1>6, <1>7, <1>8, <2>2, <2>3
<1>13. Evaluate(rt[n], y) = 0 /\ Evaluate(g[n], y) # 0
  <2>1. \A j \in 1 .. n-1 : v[j] # y
    BY <1>12
  <2>2. LastApart(u, v, n, y)
    BY <1>11, <2>1 DEF LastApart
  <2> QED BY <1>3, <1>9, <2>2, LastFactor, ZenonT(60)
<1>14. rt[n] \in Seq(Field) /\ g[n] \in Seq(Field)
  <2>1. g[n] \in Polys
    BY <1>3, <1>10, TangentTableIs
  <2>2. IsRootsTable(rt, v) /\ v \in Seq(Field) /\ Len(v) = n
    BY <1>3 DEF Tangents
  <2>3. rt[n] \in Polys
    BY <1>10, <2>2, RootsTableType
  <2> QED BY <2>1, <2>3 DEF Polys
<1>15. c \in Int /\ d \in Int /\ Mod(d) # 0
  <2>1. d \in Field /\ d # 0
    BY DEF Field
  <2> QED BY <2>1, ModOf
<1>16. Evaluate(hs.h, y) = 0
  <2>1. Evaluate(Scale(c, rt[n]), y) = Mod(c * Evaluate(rt[n], y))
    BY <1>9, <1>14, <1>15, EvalScale
  <2>2. c * 0 = 0
    BY <1>15
  <2> QED BY <1>5, <1>13, <2>1, <2>2, ModSmall
<1>17. Evaluate(hs.hbar, y) # 0
  <2>1. Evaluate(Scale(d, g[n]), y) = Mod(d * Evaluate(g[n], y))
    BY <1>9, <1>14, <1>15, EvalScale
  <2>2. PICK e \in Field : e = Evaluate(g[n], y)
    BY <1>9, <1>14, EvalType
  <2>3. e \in Int /\ Mod(e) # 0
    BY <1>13, <2>2, ModOf
  <2>4. Mod(d * e) # 0
    BY <1>15, <2>3, NoZeroDivisors
  <2> QED BY <1>5, <2>1, <2>2, <2>4
<1>18. PICK i \in 0 .. Chi(ell) - 1 : Power(UnityZ(ell), i) = y
  BY <1>7, <1>8, IsUnity
<1>19. /\ hs.h \in Seq(Field) /\ hs.hbar \in Seq(Field) /\ Len(hs.h) <= Chi(ell) /\ Len(hs.hbar) <= Chi(ell)
  <2>1. hs.h \in Polys /\ hs.hbar \in Polys /\ Deg(hs.h) <= n /\ Deg(hs.hbar) <= n-1
    BY DEF Pairs
  <2>2. hs.h \in Seq(Field) /\ hs.hbar \in Seq(Field)
    BY <2>1 DEF Polys
  <2>3. PICK a \in Nat, b \in Nat : a = Len(hs.h) /\ b = Len(hs.hbar)
    BY <2>2
  <2>4. a - 1 <= n /\ b - 1 <= n-1
    BY <2>1, <2>3 DEF Deg
  <2>5. a <= Chi(ell) /\ b <= Chi(ell)
    BY <1>1, <2>4
  <2> QED BY <2>2, <2>3, <2>5
<1>20. ValueAt(hs.h, ell, i) = 0 /\ ValueAt(hs.hbar, ell, i) # 0
  BY <1>16, <1>17, <1>18, <1>19, ValueAtIs
<1>21. i \in Hits(hs, ell)
  BY <1>20 DEF Hits
<1>22. RootAt(hs, tau, ell, i) \in Values(RootsFromValues(hs, tau, ell))
  BY <1>21, FoundIs
<1>23. Values(<<>>) = {}
  BY DEF Values
<1> QED BY <1>22, <1>23

-----------------------------------------------------------------------------
(***************************************************************************)
(* The shifts for which nothing goes wrong: those at which some            *)
(* polynomials in tau do not vanish, which have fewer roots than there are *)
(* shifts.                                                                 *)
(***************************************************************************)
\* e is (x + r)^m.
IsShiftedPower(e, r, m) ==
    /\ e \in Polys /\ e # <<>> /\ Deg(e) = m /\ Coeff(e, m) = 1
    /\ \A y \in Int : Evaluate(e, y) = Power(r + y, m)

\* There is such a polynomial.
LEMMA ShiftedPower ==
    ASSUME NEW r \in Int, NEW m \in Nat
    PROVE  \E e : IsShiftedPower(e, r, m)
<1> DEFINE S == {k \in Nat : \E e : IsShiftedPower(e, r, k)}
<1>1. 0 \in S
  <2>1. PICK e : e = <<1>>
    OBVIOUS
  <2>2. e \in Polys /\ e # <<>> /\ Deg(e) = 0 /\ \A y \in Int : Evaluate(e, y) = 1
    BY <2>1, OnePoly
  <2>3. Coeff(e, 0) = 1
    <3>1. 0 \in 0 .. Deg(e) /\ e[0+1] = 1
      BY <2>1, <2>2
    <3> QED BY <3>1 DEF Coeff
  <2>4. \A y \in Int : Power(r + y, 0) = 1
    BY PowerUnfold
  <2> QED BY <2>2, <2>3, <2>4 DEF IsShiftedPower
<1>2. ASSUME NEW k \in Nat, k \in S PROVE k+1 \in S
  <2>1. PICK e : IsShiftedPower(e, r, k)
    BY <1>2
  <2>2. e \in Polys /\ e # <<>> /\ Deg(e) = k /\ Coeff(e, k) = 1 /\ \A y \in Int : Evaluate(e, y) = Power(r + y, k)
    BY <2>1 DEF IsShiftedPower
  <2>3. PICK a \in Field : a = Mod(-r)
    BY ModType
  <2>4. PICK q : q = <<(p - a) % p, 1>>
    OBVIOUS
  <2>5. q \in Polys /\ q # <<>> /\ Deg(q) = 1 /\ \A y \in Int : Evaluate(q, y) = Mod(y - a)
    BY <2>4, FactorIs
  <2>6. Coeff(q, 1) = 1
    <3>1. 1 \in 0 .. Deg(q) /\ q[1+1] = 1
      BY <2>4, <2>5
    <3> QED BY <3>1 DEF Coeff
  <2>7. PICK h : h = Times(q, e)
    OBVIOUS
  <2>8. h \in Polys /\ h # <<>> /\ Deg(h) = k+1 /\ Coeff(h, k+1) = 1
    <3>1. h # <<>> /\ Deg(h) = 1 + k /\ Coeff(h, 1 + k) = Mod(1 * 1)
      BY <2>2, <2>5, <2>6, <2>7, TimesDegree
    <3>2. h \in Polys
      BY <2>2, <2>5, <2>7, TimesIs DEF Polys
    <3>3. 1 + k = k+1 /\ 1 * 1 = 1
      OBVIOUS
    <3> QED BY <3>1, <3>2, <3>3, ModSmall
  <2>9. ASSUME NEW y \in Int PROVE Evaluate(h, y) = Power(r + y, k+1)
    <3>1. PICK s \in Int : s = r + y
      OBVIOUS
    <3>2. PICK w \in Int : w = Power(s, k)
      BY <3>1, PowerUnfold, FieldInt
    <3>3. PICK d \in Int : d = y - a
      BY FieldInt
    <3>4. Evaluate(h, y) = Mod(Evaluate(q, y) * Evaluate(e, y))
      BY <2>2, <2>5, <2>7, EvalTimes DEF Polys
    <3>5. Evaluate(q, y) = Mod(d) /\ Evaluate(e, y) = w
      BY <2>2, <2>5, <3>1, <3>2, <3>3
    <3>6. Mod(d) = Mod(s)
      <4>1. PICK b \in Int : b = -r
        OBVIOUS
      <4>2. Mod(a) = Mod(b)
        BY <2>3, <4>1, ModType
      <4>3. Mod(y - a) = Mod(y - b)
        <5>1. a \in Int
          BY FieldInt
        <5>2. SameDifference(y, a, b)
          BY <4>2, <5>1, SameRight
        <5> QED BY <5>2 DEF SameDifference
      <4>4. y - b = s
        BY <3>1, <4>1
      <4> QED BY <3>3, <4>3, <4>4
    <3>7. Mod(Mod(s) * w) = Mod(s * w)
      <4>1. Mod(w * Mod(s)) = Mod(w * s)
        BY ModTimes
      <4>2. w * Mod(s) = Mod(s) * w /\ w * s = s * w
        BY ModType
      <4> QED BY <4>1, <4>2
    <3>8. Power(s, k+1) = Mod(s * w)
      BY <3>1, <3>2, PowerUnfold
    <3> QED BY <3>1, <3>4, <3>5, <3>6, <3>7, <3>8
  <2>10. IsShiftedPower(h, r, k+1)
    BY <2>8, <2>9 DEF IsShiftedPower
  <2> QED BY <2>10
<1>3. m \in S
  <2> HIDE DEF S
  <2> QED BY <1>1, <1>2, Induct
<1> QED BY <1>3

\* A power of 0.
LEMMA PowerZero ==
    ASSUME NEW a \in Int, Mod(a) = 0, NEW m \in Nat, m >= 1
    PROVE  Power(a, m) = 0
<1>1. PICK k \in Nat : m = k+1
  <2>1. m - 1 \in Nat /\ m = (m-1) + 1
    OBVIOUS
  <2> QED BY <2>1
<1>2. Power(a, k+1) = Mod(a * Power(a, k))
  BY PowerUnfold
<1>3. PICK w \in Int : w = Power(a, k)
  BY PowerUnfold, FieldInt
<1>4. Mod(w * Mod(a)) = Mod(w * a)
  BY ModTimes
<1>5. w * 0 = 0 /\ w * a = a * w
  OBVIOUS
<1> QED BY <1>1, <1>2, <1>3, <1>4, <1>5, ModSmall

\* Where e is not 0 the m-th powers of r + y and s + y differ.
Separating(e, r, s, m) ==
    /\ e \in Polys /\ e # <<>> /\ Deg(e) <= m
    /\ \A y \in Field : Evaluate(e, y) # 0 => Power(r + y, m) # Power(s + y, m)

\* There is such a polynomial for different r and s.
LEMMA SeparatingExists ==
    ASSUME NEW r \in Field, NEW s \in Field, r # s, NEW m \in Nat, m >= 1
    PROVE  \E e : Separating(e, r, s, m)
<1>1. r \in Int /\ s \in Int
  BY FieldInt
<1>2. PICK e1 : IsShiftedPower(e1, r, m)
  BY <1>1, ShiftedPower
<1>3. PICK e2 : IsShiftedPower(e2, s, m)
  BY <1>1, ShiftedPower
<1>4. /\ e1 \in Polys /\ e2 \in Polys /\ Deg(e1) = m /\ Deg(e2) = m
      /\ \A y \in Int : Evaluate(e1, y) = Power(r + y, m) /\ Evaluate(e2, y) = Power(s + y, m)
  BY <1>2, <1>3 DEF IsShiftedPower
<1>5. e1 \in Seq(Field) /\ e2 \in Seq(Field)
  BY <1>4 DEF Polys
<1>6. PICK e : e = Minus(e1, e2)
  OBVIOUS
<1>7. e \in Polys /\ Len(e) <= Maximum(Len(e1), Len(e2))
  BY <1>5, <1>6, MinusIs
<1>8. e \in Seq(Field)
  BY <1>7 DEF Polys
<1>9. Deg(e) <= m
  <2>1. Len(e) \in Nat /\ Len(e1) \in Nat /\ Len(e2) \in Nat
    BY <1>5, <1>8
  <2> QED BY <2>1, <1>4, <1>7 DEF Deg, Maximum
<1>10. ASSUME NEW y \in Int PROVE Evaluate(e, y) = Mod(Power(r + y, m) - Power(s + y, m))
  BY <1>4, <1>5, <1>6, EvalMinus
<1>11. ASSUME NEW y \in Field, Evaluate(e, y) # 0 PROVE Power(r + y, m) # Power(s + y, m)
  <2>1. y \in Int
    BY FieldInt
  <2>2. PICK a \in Int : a = Power(r + y, m)
    <3>1. r + y \in Int
      BY <1>1, <2>1
    <3> QED BY <3>1, PowerUnfold, FieldInt
  <2>3. a - a = 0
    OBVIOUS
  <2> QED BY <1>10, <1>11, <2>1, <2>2, <2>3, ModSmall
<1>12. e # <<>>
  <2>1. PICK y \in Int : y = -s
    BY <1>1
  <2>2. PICK a \in Int : a = s + y /\ a = 0
    BY <1>1, <2>1
  <2>3. PICK b \in Int : b = r + y /\ b = r - s
    BY <1>1, <2>1
  <2>4. Power(a, m) = 0
    BY <2>2, ModSmall, PowerZero
  <2>5. PICK c \in 1 .. p-1 : c = Mod(b)
    <3>1. Mod(r - s) # 0
      BY DifferentMod
    <3>2. Mod(b) \in Field /\ Mod(b) # 0
      BY <2>3, <3>1, ModType
    <3> QED BY <3>2, PrimeSize DEF Field
  <2>6. c \in Int /\ Mod(c) = Mod(b)
    BY <2>5, ModType
  <2>7. Power(c, m) = Power(b, m)
    BY <2>6, PowerCong
  <2>8. PICK w \in 1 .. p-1 : w = Power(b, m)
    BY <2>7, PowerNonzero
  <2>9. Evaluate(e, y) = Mod(w - 0)
    BY <1>10, <2>2, <2>3, <2>4, <2>8
  <2>10. w - 0 = w /\ w \in Field /\ w # 0
    BY PrimeSize DEF Field
  <2>11. Evaluate(e, y) # 0
    BY <2>9, <2>10, ModOf
  <2> QED BY <2>11, EvalZero
<1> QED BY <1>7, <1>9, <1>11, <1>12 DEF Separating

\* Where e is not 0 neither are e1 and e2.
LEMMA BothNonzero ==
    ASSUME NEW e1 \in Polys, NEW e2 \in Polys, e1 # <<>>, e2 # <<>>
    PROVE  \E e \in Polys : /\ e # <<>> /\ Deg(e) = Deg(e1) + Deg(e2)
                            /\ \A y \in Field : Evaluate(e, y) # 0
                                   => Evaluate(e1, y) # 0 /\ Evaluate(e2, y) # 0
<1>1. e1 \in Seq(Field) /\ e2 \in Seq(Field)
  BY DEF Polys
<1>2. PICK e : e = Times(e1, e2)
  OBVIOUS
<1>3. e \in Polys /\ e # <<>> /\ Deg(e) = Deg(e1) + Deg(e2)
  BY <1>1, <1>2, TimesIs, TimesDegree
<1>4. ASSUME NEW y \in Field, Evaluate(e, y) # 0 PROVE Evaluate(e1, y) # 0 /\ Evaluate(e2, y) # 0
  <2>1. y \in Int
    BY FieldInt
  <2>2. Evaluate(e, y) = Mod(Evaluate(e1, y) * Evaluate(e2, y))
    BY <1>1, <1>2, <2>1, EvalTimes
  <2>3. PICK a \in Int : a = Evaluate(e1, y)
    BY <1>1, <2>1, EvalType
  <2>4. PICK b \in Int : b = Evaluate(e2, y)
    BY <1>1, <2>1, EvalType
  <2>5. a * 0 = 0 /\ 0 * b = 0
    OBVIOUS
  <2> QED BY <1>4, <2>2, <2>3, <2>4, <2>5, ModSmall
<1> QED BY <1>3, <1>4

\* The m-th powers of the first n of the rs, moved by y.
PowersAt(u, rs, y, m, n) == \A i \in 1 .. n : u[i] = Power(rs[i] + y, m)

\* e has the sum of the first k powers as its value.
PartialWeight(e, rs, m, k) ==
    /\ e \in Polys /\ Len(e) <= m+1 /\ Coeff(e, m) = Mod(k)
    /\ \A y \in Int : \A u : PowersAt(u, rs, y, m, k) => Evaluate(e, y) = SumFrom(u, 1, k)

\* There is such a polynomial for each k.
LEMMA PartialWeights ==
    ASSUME NEW rs \in Seq(Field), NEW m \in Nat, NEW n \in 0 .. Len(rs)
    PROVE  \E e : PartialWeight(e, rs, m, n)
<1>1. PICK l \in Nat : l = Len(rs)
  OBVIOUS
<1>2. n \in Nat /\ n <= l
  BY <1>1
<1>3. ASSUME NEW k \in 0 .. l, NEW y \in Int, NEW u, PowersAt(u, rs, y, m, k)
      PROVE  \A i \in 1 .. k : u[i] \in Int
  <2> SUFFICES ASSUME NEW i \in 1 .. k PROVE u[i] \in Int
    OBVIOUS
  <2>1. i \in 1 .. l
    BY <1>1
  <2>2. PICK r \in Field : r = rs[i]
    BY <1>1, <2>1
  <2>3. PICK s \in Int : s = r + y
    BY FieldInt
  <2>4. u[i] = Power(s, m)
    BY <1>3, <2>2, <2>3 DEF PowersAt
  <2> QED BY <2>4, PowerUnfold, FieldInt
<1> DEFINE S == {k \in Nat : k <= n => \E e : PartialWeight(e, rs, m, k)}
<1>4. 0 \in S
  <2>1. <<>> \in Polys /\ Len(<<>>) <= m+1 /\ Coeff(<<>>, m) = 0
    <3>1. ~ (m \in 0 .. Deg(<<>>))
      BY DEF Deg
    <3> QED BY <3>1, ZeroPoly DEF Coeff
  <2>2. ASSUME NEW y \in Int, NEW u PROVE Evaluate(<<>>, y) = SumFrom(u, 1, 0)
    <3>1. 1 \in Int /\ 0 \in Int /\ 1 - 1 <= 0 /\ 0 < 1 /\ \A i \in 1 .. 0 : u[i] \in Int
      OBVIOUS
    <3>2. SumFrom(u, 1, 0) = 0
      BY <3>1, SumUnfold
    <3> QED BY <3>2, EvalZero
  <2>3. PartialWeight(<<>>, rs, m, 0)
    BY <2>1, <2>2, ModSmall DEF PartialWeight
  <2> QED BY <2>3
<1>5. ASSUME NEW k \in Nat, k \in S PROVE k+1 \in S
  <2> SUFFICES ASSUME k+1 <= n PROVE \E e : PartialWeight(e, rs, m, k+1)
    OBVIOUS
  <2>1. PICK e : PartialWeight(e, rs, m, k)
    <3>1. k <= n
      BY <1>2
    <3> QED BY <3>1, <1>5
  <2>2. k+1 \in 1 .. l /\ k \in 0 .. l /\ k+1 \in 0 .. l
    BY <1>2
  <2>3. PICK r \in Field : r = rs[k+1]
    BY <1>1, <2>2
  <2>4. PICK q : IsShiftedPower(q, r, m)
    BY FieldInt, ShiftedPower
  <2>5. e \in Polys /\ e \in Seq(Field) /\ Len(e) <= m+1 /\ Len(e) \in Nat /\ Coeff(e, m) = Mod(k)
    <3>1. e \in Polys /\ Len(e) <= m+1 /\ Coeff(e, m) = Mod(k)
      BY <2>1 DEF PartialWeight
    <3>2. e \in Seq(Field)
      BY <3>1 DEF Polys
    <3> QED BY <3>1, <3>2
  <2>6. q \in Polys /\ q \in Seq(Field) /\ Len(q) = m+1 /\ Coeff(q, m) = 1
    <3>1. q \in Polys /\ Deg(q) = m /\ Coeff(q, m) = 1
      BY <2>4 DEF IsShiftedPower
    <3>2. q \in Seq(Field)
      BY <3>1 DEF Polys
    <3>3. Len(q) \in Nat
      BY <3>2
    <3> QED BY <3>1, <3>2, <3>3 DEF Deg
  <2>7. PICK h : h = Plus(q, e)
    OBVIOUS
  <2>8. /\ h \in Polys /\ Len(h) <= Maximum(Len(q), Len(e))
        /\ Coeff(h, m) = Mod(Coeff(q, m) + Coeff(e, m))
    BY <2>5, <2>6, <2>7, PlusIs
  <2>9. Len(h) <= m+1
    <3>1. h \in Seq(Field)
      BY <2>8 DEF Polys
    <3>2. Len(h) \in Nat
      BY <3>1
    <3> QED BY <2>5, <2>6, <2>8, <3>2 DEF Maximum
  <2>10. Coeff(h, m) = Mod(k+1)
    <3>1. Mod(1 + Mod(k)) = Mod(1 + k)
      BY ModPlus
    <3>2. 1 + k = k+1
      OBVIOUS
    <3> QED BY <2>5, <2>6, <2>8, <3>1, <3>2
  <2>11. ASSUME NEW y \in Int, NEW u, PowersAt(u, rs, y, m, k+1)
         PROVE  Evaluate(h, y) = SumFrom(u, 1, k+1)
    <3>1. PowersAt(u, rs, y, m, k)
      BY <2>11 DEF PowersAt
    <3>2. Evaluate(e, y) = SumFrom(u, 1, k)
      BY <2>1, <3>1 DEF PartialWeight
    <3>3. Evaluate(q, y) = u[k+1]
      <4>1. Evaluate(q, y) = Power(r + y, m)
        BY <2>4 DEF IsShiftedPower
      <4>2. k+1 \in 1 .. k+1
        OBVIOUS
      <4> QED BY <2>3, <2>11, <4>1, <4>2 DEF PowersAt
    <3>4. Evaluate(h, y) = Mod(Evaluate(q, y) + Evaluate(e, y))
      BY <2>5, <2>6, <2>7, EvalPlus
    <3>5. SumFrom(u, 1, k+1) = Mod(u[k+1] + SumFrom(u, 1, k))
      <4>1. \A i \in 1 .. k+1 : u[i] \in Int
        BY <1>3, <2>2, <2>11
      <4>2. 1 \in Int /\ k+1 \in Int /\ 1 - 1 <= k+1 /\ ~ (k+1 < 1) /\ (k+1) - 1 = k
        OBVIOUS
      <4>3. SumFrom(u, 1, k+1) = IF k+1 < 1 THEN 0 ELSE Mod(u[k+1] + SumFrom(u, 1, (k+1) - 1))
        BY <4>1, <4>2, SumUnfold
      <4> QED BY <4>2, <4>3
    <3> QED BY <3>2, <3>3, <3>4, <3>5
  <2>12. PartialWeight(h, rs, m, k+1)
    BY <2>8, <2>9, <2>10, <2>11 DEF PartialWeight
  <2> QED BY <2>12
<1>6. n \in S
  <2> HIDE DEF S
  <2> QED BY <1>2, <1>4, <1>5, Induct
<1> QED BY <1>2, <1>6

\* Where e is not 0 the sum of the weights of one row is not 0.
WeightPoly(e, rs, m) ==
    /\ e \in Polys /\ e # <<>> /\ Deg(e) <= m
    /\ \A y \in Field : Evaluate(e, y) # 0 =>
          \A u : PowersAt(u, rs, y, m, Len(rs)) => SumFrom(u, 1, Len(rs)) # 0

\* There is such a polynomial.
LEMMA WeightPolyExists ==
    ASSUME NEW rs \in Seq(Field), Len(rs) > 0, Len(rs) < p, NEW m \in Nat
    PROVE  \E e : WeightPoly(e, rs, m)
<1>1. PICK n \in Nat : n = Len(rs) /\ n > 0 /\ n < p /\ n \in 0 .. n
  OBVIOUS
<1>2. PICK e : PartialWeight(e, rs, m, n)
  BY <1>1, PartialWeights
<1>3. e \in Polys /\ Len(e) <= m+1 /\ Coeff(e, m) = Mod(n)
  BY <1>2 DEF PartialWeight
<1>4. Mod(n) # 0
  <2>1. n \in Field /\ n # 0
    BY <1>1, PrimeSize DEF Field
  <2> QED BY <2>1, ModOf
<1>5. e \in Seq(Field)
  BY <1>3 DEF Polys
<1>6. e # <<>> /\ Deg(e) <= m
  <2>1. e # <<>>
    BY <1>3, <1>4, DegAtLeast
  <2>2. Len(e) \in Nat
    BY <1>5
  <2> QED BY <1>3, <2>1, <2>2 DEF Deg
<1>7. ASSUME NEW y \in Field, Evaluate(e, y) # 0, NEW u, PowersAt(u, rs, y, m, n)
      PROVE  SumFrom(u, 1, n) # 0
  <2>1. y \in Int
    BY FieldInt
  <2> QED BY <1>2, <1>7, <2>1 DEF PartialWeight
<1> QED BY <1>1, <1>3, <1>6, <1>7 DEF WeightPoly

\* Where e is not 0 the sums of the weights of the first rows are not 0.
WeightsPoly(e, rs, ell) ==
    /\ e \in Polys /\ e # <<>> /\ Deg(e) <= power2[ell] - 1
    /\ \A y \in Field : Evaluate(e, y) # 0 =>
          \A k \in 0 .. ell-1 : \A u : PowersAt(u, rs, y, power2[k] - 1, Len(rs))
                                          => SumFrom(u, 1, Len(rs)) # 0

\* There is such a polynomial.
LEMMA WeightsPolyExists ==
    ASSUME NEW rs \in Seq(Field), Len(rs) > 0, Len(rs) < p, NEW ell \in Nat
    PROVE  \E e : WeightsPoly(e, rs, ell)
<1> DEFINE S == {k \in Nat : \E e : WeightsPoly(e, rs, k)}
<1>1. 0 \in S
  <2>1. <<1>> \in Polys /\ <<1>> # <<>> /\ Deg(<<1>>) = 0 /\ power2[0] - 1 = 0
    BY OnePoly, Power2Is
  <2>2. WeightsPoly(<<1>>, rs, 0)
    BY <2>1 DEF WeightsPoly
  <2> QED BY <2>2
<1>2. ASSUME NEW k \in Nat, k \in S PROVE k+1 \in S
  <2>1. PICK e1 : WeightsPoly(e1, rs, k)
    BY <1>2
  <2>2. PICK m \in Nat : m = power2[k] - 1 /\ power2[k+1] - 1 = 2*m + 1
    <3>1. PICK a \in Nat : a = power2[k] /\ a >= 1 /\ power2[k+1] = 2*a
      BY Power2Is
    <3>2. a - 1 \in Nat /\ 2*a - 1 = 2*(a-1) + 1
      BY <3>1
    <3> QED BY <3>1, <3>2
  <2>3. PICK e2 : WeightPoly(e2, rs, m)
    BY WeightPolyExists
  <2>4. /\ e1 \in Polys /\ e1 # <<>> /\ Deg(e1) <= m
        /\ e2 \in Polys /\ e2 # <<>> /\ Deg(e2) <= m
    BY <2>1, <2>2, <2>3 DEF WeightsPoly, WeightPoly
  <2>5. PICK e \in Polys : /\ e # <<>> /\ Deg(e) = Deg(e1) + Deg(e2)
                           /\ \A y \in Field : Evaluate(e, y) # 0
                                  => Evaluate(e1, y) # 0 /\ Evaluate(e2, y) # 0
    BY <2>4, BothNonzero
  <2>6. Deg(e) <= 2*m + 1
    <3>1. Deg(e1) \in Nat /\ Deg(e2) \in Nat
      BY <2>4, Leading
    <3> QED BY <2>4, <2>5, <3>1
  <2>7. ASSUME NEW y \in Field, Evaluate(e, y) # 0, NEW j \in 0 .. (k+1)-1, NEW u,
               PowersAt(u, rs, y, power2[j] - 1, Len(rs))
        PROVE  SumFrom(u, 1, Len(rs)) # 0
    <3>1. CASE j = k
      BY <2>2, <2>3, <2>5, <2>7, <3>1 DEF WeightPoly
    <3>2. CASE j # k
      <4>1. j \in 0 .. k-1
        BY <3>2
      <4> QED BY <2>1, <2>5, <2>7, <4>1 DEF WeightsPoly
    <3> QED BY <3>1, <3>2
  <2>8. WeightsPoly(e, rs, k+1)
    BY <2>2, <2>5, <2>6, <2>7 DEF WeightsPoly
  <2> QED BY <2>8
<1>3. ell \in S
  <2> HIDE DEF S
  <2> QED BY <1>1, <1>2, Induct
<1> QED BY <1>3

\* Where e is not 0 the power of the last root differs from those of the
\* first k.
ApartPoly(e, rs, m, k) ==
    /\ e \in Polys /\ e # <<>> /\ Deg(e) <= k * m
    /\ \A y \in Field : Evaluate(e, y) # 0 =>
          \A j \in 1 .. k : Power(rs[j] + y, m) # Power(rs[Len(rs)] + y, m)

\* There is such a polynomial when the roots differ.
LEMMA ApartPolyExists ==
    ASSUME NEW rs \in Seq(Field), NEW n \in Nat, n = Len(rs), n > 0, NoRepeats(rs), NEW m \in Nat, m >= 1
    PROVE  \E e : ApartPoly(e, rs, m, n-1)
<1>1. PICK b \in Field : b = rs[n]
  OBVIOUS
<1> DEFINE S == {k \in Nat : k <= n-1 => \E e : ApartPoly(e, rs, m, k)}
<1>2. 0 \in S
  <2>1. <<1>> \in Polys /\ <<1>> # <<>> /\ Deg(<<1>>) = 0 /\ 0 * m = 0
    BY OnePoly
  <2>2. ApartPoly(<<1>>, rs, m, 0)
    BY <2>1 DEF ApartPoly
  <2> QED BY <2>2
<1>3. ASSUME NEW k \in Nat, k \in S PROVE k+1 \in S
  <2> SUFFICES ASSUME k+1 <= n-1 PROVE \E e : ApartPoly(e, rs, m, k+1)
    OBVIOUS
  <2>1. PICK e1 : ApartPoly(e1, rs, m, k)
    BY <1>3
  <2>2. k+1 \in 1 .. n /\ n \in 1 .. n /\ k+1 # n
    OBVIOUS
  <2>3. PICK a \in Field : a = rs[k+1]
    BY <2>2
  <2>4. a # b
    BY <1>1, <2>2, <2>3 DEF NoRepeats
  <2>5. PICK e2 : Separating(e2, a, b, m)
    BY <2>4, SeparatingExists
  <2>6. PICK d \in Nat : d = k * m /\ (k+1) * m = d + m
    <3>1. k * m \in Nat /\ (k+1) * m = k * m + m
      OBVIOUS
    <3> QED BY <3>1
  <2>7. /\ e1 \in Polys /\ e1 # <<>> /\ Deg(e1) <= d
        /\ e2 \in Polys /\ e2 # <<>> /\ Deg(e2) <= m
    BY <2>1, <2>5, <2>6 DEF ApartPoly, Separating
  <2>8. PICK e \in Polys : /\ e # <<>> /\ Deg(e) = Deg(e1) + Deg(e2)
                           /\ \A y \in Field : Evaluate(e, y) # 0
                                  => Evaluate(e1, y) # 0 /\ Evaluate(e2, y) # 0
    BY <2>7, BothNonzero
  <2>9. Deg(e) <= d + m
    <3>1. Deg(e1) \in Nat /\ Deg(e2) \in Nat
      BY <2>7, Leading
    <3> QED BY <2>7, <2>8, <3>1
  <2>10. ASSUME NEW y \in Field, Evaluate(e, y) # 0, NEW j \in 1 .. k+1
         PROVE  Power(rs[j] + y, m) # Power(rs[n] + y, m)
    <3>1. CASE j = k+1
      BY <1>1, <2>3, <2>5, <2>8, <2>10, <3>1 DEF Separating
    <3>2. CASE j # k+1
      <4>1. j \in 1 .. k
        BY <3>2
      <4> QED BY <2>1, <2>8, <2>10, <4>1 DEF ApartPoly
    <3> QED BY <3>1, <3>2
  <2>11. ApartPoly(e, rs, m, k+1)
    BY <2>6, <2>8, <2>9, <2>10 DEF ApartPoly
  <2> QED BY <2>11
<1>4. n-1 \in Nat /\ n-1 <= n-1
  OBVIOUS
<1>5. n-1 \in S
  <2> HIDE DEF S
  <2> QED BY <1>2, <1>3, <1>4, Induct
<1> QED BY <1>4, <1>5

\* No root is tau, the last root keeps apart and the weights do not vanish.
GoodShift(g, rs, ell, tau) ==
    /\ Evaluate(g, tau) # 0
    /\ \A xs : MovedBy(xs, rs, tau) => Weighty(xs, ell) /\ Apart(xs, ell)

\* A power sees a root that has been moved, reduced or not.
LEMMA MovedPower ==
    ASSUME NEW xs, NEW rs, NEW tau \in Field, MovedBy(xs, rs, tau), NEW i \in 1 .. Len(rs), NEW m \in Nat
    PROVE  Power(xs[i], m) = Power(rs[i] + tau, m)
<1>1. PICK r \in Field : r = rs[i] /\ xs[i] = Mod(r + tau)
  BY DEF MovedBy
<1>2. PICK s \in Int : s = r + tau
  BY FieldInt
<1>3. PICK x \in Int : x = Mod(s) /\ Mod(x) = Mod(s)
  BY ModType
<1>4. Power(x, m) = Power(s, m)
  BY <1>3, PowerCong
<1> QED BY <1>1, <1>2, <1>3, <1>4

\* The three polynomials make the weights and the last root right.
LEMMA ShiftIsGood ==
    ASSUME NEW rs \in Seq(Field), Len(rs) > 0, NEW ell \in Nat, NEW m \in Nat, m = power2[ell],
           NEW e1, WeightsPoly(e1, rs, ell), NEW e2, ApartPoly(e2, rs, m, Len(rs) - 1),
           NEW e3, IsShiftedPower(e3, rs[Len(rs)], 1), NEW tau \in Field,
           Evaluate(e1, tau) # 0, Evaluate(e2, tau) # 0, Evaluate(e3, tau) # 0,
           NEW xs, MovedBy(xs, rs, tau)
    PROVE  Weighty(xs, ell) /\ Apart(xs, ell)
<1>1. PICK n \in Nat : n = Len(rs) /\ n > 0 /\ n \in 1 .. n
  OBVIOUS
<1>2. Len(xs) = n /\ xs \in Seq(Field)
  BY <1>1 DEF MovedBy
<1>3. ASSUME NEW k \in 0 .. ell-1, NEW u, NEW v, IsRow(u, v, xs, k) PROVE SumFrom(u, 1, n) # 0
  <2>1. PICK a \in Nat : a = power2[k] - 1
    <3>1. k \in Nat
      OBVIOUS
    <3>2. PICK b \in Nat : b = power2[k] /\ b >= 1
      BY <3>1, Power2Is
    <3>3. b - 1 \in Nat
      BY <3>2
    <3> QED BY <3>2, <3>3
  <2>2. ASSUME NEW i \in 1 .. n PROVE u[i] = Power(rs[i] + tau, a)
    <3>1. u[i] = Power(xs[i], a)
      BY <1>2, <1>3, <2>1 DEF IsRow
    <3> QED BY <1>1, <3>1, MovedPower
  <2>3. PowersAt(u, rs, tau, power2[k] - 1, n)
    BY <2>1, <2>2 DEF PowersAt
  <2> QED BY <1>1, <2>3 DEF WeightsPoly
<1>4. ASSUME NEW j \in 1 .. n-1 PROVE Power(xs[j], m) # Power(xs[n], m)
  <2>1. Power(rs[j] + tau, m) # Power(rs[n] + tau, m)
    BY <1>1 DEF ApartPoly
  <2>2. j \in 1 .. n
    BY <1>1
  <2> QED BY <1>1, <2>1, <2>2, MovedPower
<1>5. xs[n] \in 1 .. p-1
  <2>1. PICK r \in Field : r = rs[n] /\ xs[n] = Mod(r + tau)
    BY <1>1 DEF MovedBy
  <2>2. PICK s \in Int : s = r + tau
    BY FieldInt
  <2>3. tau \in Int
    BY FieldInt
  <2>4. Power(s, 1) # 0
    BY <1>1, <2>1, <2>2, <2>3 DEF IsShiftedPower
  <2>5. Mod(s) # 0
    BY <2>4, PowerZero
  <2>6. Mod(s) \in Field
    BY ModType
  <2> QED BY <2>1, <2>2, <2>5, <2>6, PrimeSize DEF Field
<1> QED BY <1>1, <1>2, <1>3, <1>4, <1>5 DEF Weighty, Apart

\* There is such a shift while the field is large enough.
LEMMA GoodShiftExists ==
    ASSUME NEW g \in Polys, g # <<>>, NEW n \in Nat, n = Deg(g), n > 0, NEW rs \in Seq(Field), Len(rs) = n,
           NoRepeats(rs), NEW ell \in Nat, n * power2[ell] + n < p - 1
    PROVE  \E tau \in Field : GoodShift(g, rs, ell, tau)
<1>1. PICK m \in Nat : m = power2[ell] /\ m >= 1
  BY Power2Is
<1>2. PICK d \in Nat : d = (n-1) * m /\ d + m + n < p - 1
  <2>1. n-1 \in Nat
    OBVIOUS
  <2>2. PICK d \in Nat : d = (n-1) * m
    BY <2>1
  <2>3. n * m = d + m
    BY <2>2
  <2> QED BY <1>1, <2>2, <2>3
<1>3. n < p /\ p \in Nat
  <2>1. PICK P \in Nat : P = p
    BY PrimeSize
  <2>2. d + m + n < P - 1
    BY <1>2, <2>1
  <2> QED BY <2>1, <2>2
<1>4. PICK e1 : WeightsPoly(e1, rs, ell)
  BY <1>3, WeightsPolyExists
<1>5. PICK e2 : ApartPoly(e2, rs, m, n-1)
  BY <1>1, ApartPolyExists
<1>6. rs[n] \in Int
  <2>1. n \in 1 .. Len(rs)
    OBVIOUS
  <2>2. rs[n] \in Field
    BY <2>1
  <2> QED BY <2>2, FieldInt
<1>7. PICK e3 : IsShiftedPower(e3, rs[n], 1)
  BY <1>6, ShiftedPower
<1>8. /\ e1 \in Polys /\ e1 # <<>> /\ Deg(e1) <= m - 1
      /\ e2 \in Polys /\ e2 # <<>> /\ Deg(e2) <= d
      /\ e3 \in Polys /\ e3 # <<>> /\ Deg(e3) = 1
  BY <1>1, <1>2, <1>4, <1>5, <1>7 DEF WeightsPoly, ApartPoly, IsShiftedPower
<1>9. PICK q1 \in Polys : /\ q1 # <<>> /\ Deg(q1) = Deg(e1) + Deg(e2)
                          /\ \A y \in Field : Evaluate(q1, y) # 0
                                 => Evaluate(e1, y) # 0 /\ Evaluate(e2, y) # 0
  BY <1>8, BothNonzero
<1>10. PICK q2 \in Polys : /\ q2 # <<>> /\ Deg(q2) = Deg(e3) + Deg(g)
                           /\ \A y \in Field : Evaluate(q2, y) # 0
                                  => Evaluate(e3, y) # 0 /\ Evaluate(g, y) # 0
  BY <1>8, BothNonzero
<1>11. PICK q \in Polys : /\ q # <<>> /\ Deg(q) = Deg(q1) + Deg(q2)
                          /\ \A y \in Field : Evaluate(q, y) # 0
                                 => Evaluate(q1, y) # 0 /\ Evaluate(q2, y) # 0
  BY <1>9, <1>10, BothNonzero
<1>12. Deg(q) < p - 1
  <2>1. Deg(e1) \in Nat /\ Deg(e2) \in Nat
    BY <1>8, Leading
  <2>2. Deg(q) = Deg(e1) + Deg(e2) + (1 + n)
    BY <1>8, <1>9, <1>10, <1>11, <2>1
  <2>3. Deg(e1) + Deg(e2) <= m - 1 + d
    BY <1>8, <2>1
  <2>4. PICK a \in Nat : a = Deg(e1) + Deg(e2)
    BY <2>1
  <2>5. Deg(q) = a + (1 + n) /\ a <= m - 1 + d
    BY <2>2, <2>3, <2>4
  <2>6. PICK P \in Nat : P = p
    BY <1>3
  <2>7. d + m + n < P - 1
    BY <1>2, <2>6
  <2> QED BY <2>5, <2>6, <2>7
<1>13. PICK T : T = Field \ {0} /\ T \in SUBSET Field /\ Cardinality(T) = p-1
  BY ModSmall, WithoutOne
<1>14. PICK tau \in Field : Evaluate(q, tau) # 0
  <2>1. Cardinality(T) > Deg(q)
    <3>1. Deg(q) \in Nat
      BY <1>11, Leading
    <3> QED BY <1>3, <1>12, <1>13, <3>1
  <2>2. ~ \A x \in T : Evaluate(q, x) = 0
    BY <1>11, <1>13, <2>1, ManyRoots
  <2> QED BY <1>13, <2>2
<1>15. /\ Evaluate(e1, tau) # 0 /\ Evaluate(e2, tau) # 0 /\ Evaluate(e3, tau) # 0
       /\ Evaluate(g, tau) # 0
  BY <1>9, <1>10, <1>11, <1>14
<1>16. ASSUME NEW xs, MovedBy(xs, rs, tau) PROVE Weighty(xs, ell) /\ Apart(xs, ell)
  BY <1>1, <1>4, <1>5, <1>7, <1>15, <1>16, ShiftIsGood
<1> QED BY <1>15, <1>16 DEF GoodShift

-----------------------------------------------------------------------------
(***************************************************************************)
(* Every call of find_roots can separate a root.                           *)
(***************************************************************************)
\* A sequence that has nothing twice repeats nothing.
LEMMA CountedOnce ==
    ASSUME NEW s \in Seq(Field), \A x \in Field : Count(x, s) <= 1
    PROVE  NoRepeats(s)
<1> SUFFICES ASSUME NEW j \in 1 .. Len(s), NEW k \in 1 .. Len(s), s[j] = s[k], j # k PROVE FALSE
  BY DEF NoRepeats
<1>1. PICK x \in Field : x = s[j] /\ x = s[k]
  OBVIOUS
<1>2. PICK P : P = Places(x, s)
  OBVIOUS
<1>3. IsFiniteSet(P) /\ Cardinality(P) <= 1
  BY <1>1, <1>2, CountIs
<1>4. {j} \cup {k} \in SUBSET P
  BY <1>1, <1>2 DEF Places
<1>5. IsFiniteSet({j}) /\ Cardinality({j}) = 1
  BY FS_Singleton
<1>6. Cardinality({j} \cup {k}) = 1 + 1
  <2>1. ~ (k \in {j})
    OBVIOUS
  <2>2. PICK S : S = {j}
    OBVIOUS
  <2>3. Cardinality(S \cup {k}) = IF k \in S THEN Cardinality(S) ELSE Cardinality(S) + 1
    BY <1>5, <2>2, FS_AddElement
  <2> QED BY <1>5, <2>1, <2>2, <2>3
<1>7. Cardinality({j} \cup {k}) <= Cardinality(P)
  BY <1>3, <1>4, FS_Subset
<1>8. Cardinality(P) \in Nat
  BY <1>3, FS_CardinalityType
<1>9. 1 + 1 = 2
  OBVIOUS
<1>10. PICK c \in Nat : c = Cardinality(P)
  BY <1>8
<1>11. c <= 1 /\ 2 <= c
  BY <1>3, <1>6, <1>7, <1>9, <1>10
<1> QED BY <1>11

\* There is room for such a shift in every call.
LEMMA EnoughShifts ==
    ASSUME NEW n \in Nat, SmallDegree(n), NEW ell, ell = ChooseEll(n)
    PROVE  n * power2[ell] + n < p - 1
<1>1. ell \in 1 .. two_exponent - 2 /\ n < 2 * ChiZZ(ell) /\ 8 * n < p - 1
  BY ChooseIs
<1>2. PICK c \in Nat : c = ChiZZ(ell) /\ (4 * c) * power2[ell] = p - 1
  BY <1>1, ChiIs
<1>3. PICK m \in Nat : m = power2[ell] /\ m >= 1
  BY <1>1, ChiIs, Power2Is
<1>4. PICK d \in Nat : 2 * c = n + 1 + d
  <2>1. 2 * c - n - 1 \in Nat /\ 2 * c = n + 1 + (2 * c - n - 1)
    BY <1>1, <1>2
  <2> QED BY <2>1
<1>5. PICK w \in Nat : w = n * m
  OBVIOUS
<1>6. PICK z \in Nat : z = d * m
  OBVIOUS
<1>7. (4 * c) * m = 2 * (w + m + z)
  <2>1. (2 * c) * m = (n + 1 + d) * m
    BY <1>4
  <2>2. (n + 1 + d) * m = n * m + m + d * m
    OBVIOUS
  <2>3. (4 * c) * m = 2 * ((2 * c) * m)
    OBVIOUS
  <2> QED BY <1>5, <1>6, <2>1, <2>2, <2>3
<1>8. PICK P \in Nat : P = p
  BY PrimeSize
<1>9. 2 * (w + m + z) = P - 1 /\ 8 * n < P - 1
  BY <1>1, <1>2, <1>3, <1>7, <1>8
<1>10. w + n < P - 1
  BY <1>3, <1>9
<1> QED BY <1>3, <1>5, <1>8, <1>10

\* The moved roots.
LEMMA MovedExists ==
    ASSUME NEW rs \in Seq(Field), NEW tau \in Field
    PROVE  \E xs : MovedBy(xs, rs, tau)
<1>1. PICK n \in Nat : n = Len(rs)
  OBVIOUS
<1>2. PICK xs : xs = [i \in 1 .. n |-> Mod(rs[i] + tau)]
  OBVIOUS
<1>3. \A i \in 1 .. n : Mod(rs[i] + tau) \in Field
  <2> SUFFICES ASSUME NEW i \in 1 .. n PROVE Mod(rs[i] + tau) \in Field
    OBVIOUS
  <2>1. PICK r \in Field : r = rs[i]
    BY <1>1
  <2>2. r + tau \in Int
    BY FieldInt
  <2> QED BY <2>1, <2>2, ModType
<1>4. xs \in [1 .. n -> Field]
  BY <1>2, <1>3
<1>5. xs \in Seq(Field) /\ Len(xs) = n
  BY <1>4
<1> QED BY <1>1, <1>2, <1>5 DEF MovedBy

\* A call with a good shift loses no degree and separates a root.
LEMMA GoodCall ==
    ASSUME NEW g \in Polys, g # <<>>, NEW n \in Nat, n = Deg(g), n > 0, SmallDegree(n), NEW rs \in Seq(Field),
           Len(rs) = n, \A y \in Field : Evaluate(g, y) = Evaluate(FromRoots(rs), y),
           NEW ell, ell = ChooseEll(n), NEW tau \in Field, GoodShift(g, rs, ell, tau)
    PROVE  /\ ~LosesDegree(g, ell, tau)
           /\ RootsFromValues(tangent_graeffe_transform(g, ell, tau), tau, ell) # <<>>
<1>1. ell \in 1 .. two_exponent - 2 /\ n < 4 * ChiZZ(ell) /\ 8 * n < p - 1
  BY ChooseIs
<1>2. ell \in Nat /\ n < Chi(ell) /\ Chi(ell) \in Nat
  BY <1>1, ChiIs DEF Chi
<1>3. 2*n < p-2 /\ n < p
  <2>1. PICK P \in Nat : P = p
    BY PrimeSize
  <2>2. 8 * n < P - 1
    BY <1>1, <2>1
  <2> QED BY <2>1, <2>2
<1>4. PICK xs : MovedBy(xs, rs, tau)
  BY MovedExists
<1>5. xs \in Seq(Field) /\ Len(xs) = n
  BY <1>4 DEF MovedBy
<1>6. Weighty(xs, ell) /\ Apart(xs, ell)
  BY <1>4 DEF GoodShift
<1>7. PICK t : /\ Transforms(t, g, tau)
               /\ \A k \in Nat : tangent_graeffe_transform(g, k, tau) = t[k]
  BY <1>3, TransformIs
<1>8. ASSUME NEW m \in 0 .. ell PROVE Formed(t[m], xs, m) /\ (m < ell => Deg(t[m].hbar) = n-1)
  BY <1>2, <1>3, <1>4, <1>6, <1>7, AllFormed
<1>9. ~LosesDegree(g, ell, tau)
  <2> SUFFICES ASSUME NEW k \in 0 .. ell-1, Deg(tangent_graeffe_transform(g, k, tau).hbar) < Deg(g) - 1
               PROVE  FALSE
    BY DEF LosesDegree
  <2>1. k \in Nat /\ k \in 0 .. ell /\ k < ell
    BY <1>2
  <2>2. Deg(t[k].hbar) = n-1
    BY <1>8, <2>1
  <2>3. tangent_graeffe_transform(g, k, tau) = t[k]
    BY <1>7, <2>1
  <2> QED BY <2>2, <2>3
<1>10. RootsFromValues(t[ell], tau, ell) # <<>>
  <2>1. ell \in 0 .. ell
    BY <1>2
  <2>2. Formed(t[ell], xs, ell)
    BY <1>8, <2>1
  <2>3. t[ell] \in Pairs(n)
    BY <1>2, <1>7 DEF Transforms
  <2> QED BY <1>1, <1>2, <1>5, <1>6, <2>2, <2>3, ApartFound
<1> QED BY <1>2, <1>7, <1>9, <1>10

\* No call is hopeless while the messages differ.
LEMMA ProgressCall ==
    ASSUME RootInv, phase = "roots", Simple, SmallDegree(Deg(f)), Deg(f) > 0
    PROVE  \E tau \in Field, ell \in {ChooseEll(Deg(f))} :
              /\ Evaluate(f, tau) # 0
              /\ ~LosesDegree(f, ell, tau)
              /\ \E hs \in {tangent_graeffe_transform(f, ell, tau)} :
                    RootsFromValues(hs, tau, ell) # <<>>
<1>1. /\ batch \in Seq(Field) /\ N < p /\ Z \in Seq(Field) /\ f \in Polys /\ f # <<>>
      /\ Deg(f) \in Nat /\ Deg(f) + Len(Z) = N /\ Times(f, FromRoots(Z)) = FromRoots(batch)
  BY CallTypes
<1>2. MakesUp(f, Z, batch)
  BY <1>1, BatchMadeUp DEF N
<1>3. PICK ys : IsLeft(ys, f, Z, batch)
  BY <1>1, <1>2, Leftover
<1>4. /\ ys \in Seq(Field) /\ Len(ys) = Deg(f)
      /\ \A y \in Field : Evaluate(f, y) = Evaluate(FromRoots(ys), y)
      /\ \A x : Count(x, ys) + Count(x, Z) = Count(x, batch)
  BY <1>3 DEF IsLeft
<1>5. NoRepeats(ys)
  <2>1. ASSUME NEW x \in Field PROVE Count(x, ys) <= 1
    <3>1. Count(x, ys) \in Nat /\ Count(x, Z) \in Nat /\ Count(x, batch) \in Nat
      BY <1>1, <1>4, CountIs
    <3>2. Count(x, batch) <= 1
      BY DEF Simple
    <3>3. Count(x, ys) + Count(x, Z) = Count(x, batch)
      BY <1>4
    <3> QED BY <3>1, <3>2, <3>3
  <2> QED BY <1>4, <2>1, CountedOnce
<1>6. PICK n \in Nat : n = Deg(f)
  BY <1>1
<1>7. PICK ell : ell = ChooseEll(n)
  OBVIOUS
<1>8. ell \in Nat /\ n * power2[ell] + n < p - 1
  <2>1. ell \in 1 .. two_exponent - 2
    BY <1>6, <1>7, ChooseIs
  <2> QED BY <2>1, <1>6, <1>7, EnoughShifts
<1>9. PICK tau \in Field : GoodShift(f, ys, ell, tau)
  BY <1>1, <1>4, <1>5, <1>6, <1>8, GoodShiftExists
<1>10. /\ ~LosesDegree(f, ell, tau)
       /\ RootsFromValues(tangent_graeffe_transform(f, ell, tau), tau, ell) # <<>>
  BY <1>1, <1>4, <1>6, <1>7, <1>9, GoodCall
<1>11. Evaluate(f, tau) # 0
  BY <1>9 DEF GoodShift
<1> QED BY <1>6, <1>7, <1>10, <1>11

\* In every call of find_roots with different messages some shift tau is not a
\* root, keeps the degree of every hbar but the last, and separates a root.
THEOREM SeparatesRoots == Spec => []CanProgress
<1>1. RootInv => CanProgress
  BY ProgressCall DEF CanProgress
<1> QED BY <1>1, KeepsBatch, PTL


=============================================================================

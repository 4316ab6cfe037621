------------------------ MODULE InputEncoding_proofs -----------------------
(***************************************************************************)
(* Proofs about InputEncoding for every value of L, any messages and any   *)
(* offsets: verify_format accepts exactly the encodings, and the fifteen   *)
(* loops of opt_decompress_encoding write every power once and in order.   *)
(***************************************************************************)
EXTENDS InputEncodingInv, WellFoundedInduction, TLAPS

USE LengthsAssumption, MessagesAssumption, OffsetsAssumption, WordAssumption
-----------------------------------------------------------------------------
(***************************************************************************)
(* Arithmetic.                                                             *)
(***************************************************************************)
\* A nonempty set of naturals has a least element.
LEMMA Least ==
    ASSUME NEW T \in SUBSET Nat, T # {}
    PROVE  \E x \in T : \A y \in T : x <= y
<1> DEFINE less == {ss \in Nat \X Nat : ss[1] < ss[2]}
<1>1. OpToRel(<, Nat) = less
  BY DEF OpToRel
<1>2. IsWellFoundedOn(less, Nat)
  BY <1>1, NatLessThanWellFounded, Zenon
<1> HIDE DEF less
<1>3. PICK x \in T : \A y \in T : ~ (<< y, x >> \in less)
  BY <1>2, WFMin
<1>4. \A y, z \in Nat : << y, z >> \in less <=> y < z
  BY DEF less
<1>5. ASSUME NEW y \in T PROVE x <= y
  <2>1. ~ (y < x)
    BY <1>3, <1>4
  <2>2. x \in Nat /\ y \in Nat
    OBVIOUS
  <2> QED BY <2>1, <2>2
<1> QED BY <1>5

\* From a to b, each element of f exceeds the one before it by d.
Rises(f, a, b, d) ==
    /\ a \in Nat /\ b \in Nat /\ d \in Nat
    /\ \A i \in a .. b : f[i] \in Nat
    /\ \A i \in a .. b-1 : f[i+1] = f[i] + d

\* Then f is an arithmetic progression: there is no first element that deviates.
LEMMA Progression ==
    ASSUME NEW f, NEW a, NEW b, NEW d, Rises(f, a, b, d)
    PROVE  \A i \in a .. b : f[i] = f[a] + (i - a) * d
<1> USE DEF Rises
<1> DEFINE T == {i \in a .. b : f[i] # f[a] + (i - a) * d}
<1>1. CASE T = {}
  BY <1>1
<1>2. CASE T # {}
  <2>1. T \in SUBSET Nat
    OBVIOUS
  <2>2. PICK x \in T : \A y \in T : x <= y
    <3> HIDE DEF T
    <3> QED BY <1>2, <2>1, Least
  <2>3. x # a
    <3>1. (a - a) * d = 0 /\ a \in a .. b
      OBVIOUS
    <3> QED BY <3>1
  <2>4. x - 1 \in a .. b-1 /\ x - 1 \notin T /\ x \in a .. b
    BY <2>2, <2>3
  <2>5. f[x] = f[x-1] + d /\ f[x-1] = f[a] + ((x - 1) - a) * d
    BY <2>4
  <2>6. ((x - 1) - a) * d + d = (x - a) * d
    BY <2>4
  <2>7. f[a] \in Nat /\ ((x - 1) - a) * d \in Int
    BY <2>4
  <2> QED BY <2>5, <2>6, <2>7
<1> QED BY <1>1, <1>2

\* The exponents of an encoding, by the progression they belong to.
LEMMA Exponents ==
    ASSUME NEW n \in Nat \ {0}
    PROVE  /\ \A j \in 0 .. n-1       : Exponent(n, j) = j + 1
           /\ \A j \in n .. 4*n-1     : Exponent(n, j) = n + (j - n + 1) * n
           /\ \A j \in 4*n .. 5*n-1   : Exponent(n, j) = 3*n*n + n - 1 + (j - 4*n + 1) * (n + 1)
           /\ \A j \in 5*n .. 6*n     : Exponent(n, j) = 6*n*n + 4*n - 1 + (j - 5*n + 1)
           /\ \A j \in 6*n+1 .. 7*n+1 : Exponent(n, j) = 10*n*n + 7*n - 1 + (j - 6*n)
           /\ Exponent(n, 7*n + 2) = n + 1
           /\ Exponent(n, 7*n + 3) = 6*n*n + 4*n - 1
           /\ Exponent(n, 7*n + 4) = 10*n*n + 7*n - 1
<1>1. \A j \in 0 .. n-1 : Exponent(n, j) = j + 1
  BY DEF Exponent
<1>2. \A j \in n .. 4*n-1 : Exponent(n, j) = n + (j - n + 1) * n
  BY DEF Exponent
<1>3. \A j \in 4*n .. 5*n-1 : Exponent(n, j) = 3*n*n + n - 1 + (j - 4*n + 1) * (n + 1)
  BY DEF Exponent
<1>4. \A j \in 5*n .. 6*n : Exponent(n, j) = 6*n*n + 4*n - 1 + (j - 5*n + 1)
  BY DEF Exponent
<1>5. \A j \in 6*n+1 .. 7*n+1 : Exponent(n, j) = 10*n*n + 7*n - 1 + (j - 6*n)
  BY DEF Exponent
<1>6. Exponent(n, 7*n + 2) = n + 1
  BY DEF Exponent
<1>7. Exponent(n, 7*n + 3) = 6*n*n + 4*n - 1
  BY DEF Exponent
<1>8. Exponent(n, 7*n + 4) = 10*n*n + 7*n - 1
  BY DEF Exponent
<1> QED BY <1>1, <1>2, <1>3, <1>4, <1>5, <1>6, <1>7, <1>8
-----------------------------------------------------------------------------
(***************************************************************************)
(* verify_format.                                                          *)
(***************************************************************************)
\* The equations, one loop or statement of verify_format at a time.
LEMMA FormatMeans ==
    ASSUME NEW n \in Nat \ {0}, NEW in
    PROVE  FormatHolds(n, in) <=>
           /\ \A i \in 0 .. n-2       : in[i+1] = in[i] + in[0]
           /\ \A i \in n .. 4*n-2     : in[i+1] = in[i] + in[n-1]
           /\ \A i \in 4*n .. 5*n-2   : in[i+1] = in[i] + in[7*n+2]
           /\ \A i \in 5*n .. 6*n-1   : in[i+1] = in[0] + in[i]
           /\ \A i \in 6*n+1 .. 7*n   : in[i+1] = in[0] + in[i]
           /\ in[7*n+2] = in[0] + in[n-1]
           /\ in[n] = in[n-1] + in[n-1]
           /\ in[4*n] = in[4*n-1] + in[n-1]
           /\ in[5*n] = in[7*n+3] + in[0]
           /\ in[7*n+3] = in[3*n] + in[5*n-1]
           /\ in[6*n+1] = in[7*n+4] + in[0]
           /\ in[7*n+4] = in[5*n-1] + in[6*n]
<1>1. ASSUME NEW lhs, NEW a, NEW b, FormatHolds(n, in), Equation(lhs, a, b) \in Equations(n)
      PROVE  in[lhs] = in[a] + in[b]
  BY <1>1 DEF FormatHolds, Equation
<1>2. ASSUME NEW lhs, NEW a, NEW b, NEW e, e = Equation(lhs, a, b), in[lhs] = in[a] + in[b]
      PROVE  in[e.lhs] = in[e.a] + in[e.b]
  BY <1>2 DEF Equation
<1>3. /\ \A i \in 0 .. n-2     : Equation(i+1, i, 0) \in Equations(n)
      /\ \A i \in n .. 4*n-2   : Equation(i+1, i, n-1) \in Equations(n)
      /\ \A i \in 4*n .. 5*n-2 : Equation(i+1, i, 7*n+2) \in Equations(n)
      /\ \A i \in 5*n .. 6*n-1 : Equation(i+1, 0, i) \in Equations(n)
      /\ \A i \in 6*n+1 .. 7*n : Equation(i+1, 0, i) \in Equations(n)
  BY DEF Equations
<1>4. {Equation(7*n+2, 0, n-1), Equation(n, n-1, n-1), Equation(4*n, 4*n-1, n-1),
       Equation(5*n, 7*n+3, 0), Equation(7*n+3, 3*n, 5*n-1), Equation(6*n+1, 7*n+4, 0),
       Equation(7*n+4, 5*n-1, 6*n)} \subseteq Equations(n)
  BY DEF Equations
<1>5. ASSUME FormatHolds(n, in)
      PROVE  /\ \A i \in 0 .. n-2       : in[i+1] = in[i] + in[0]
             /\ \A i \in n .. 4*n-2     : in[i+1] = in[i] + in[n-1]
             /\ \A i \in 4*n .. 5*n-2   : in[i+1] = in[i] + in[7*n+2]
             /\ \A i \in 5*n .. 6*n-1   : in[i+1] = in[0] + in[i]
             /\ \A i \in 6*n+1 .. 7*n   : in[i+1] = in[0] + in[i]
  BY <1>1, <1>3, <1>5
<1>6. ASSUME FormatHolds(n, in)
      PROVE  /\ in[7*n+2] = in[0] + in[n-1]
             /\ in[n] = in[n-1] + in[n-1]
             /\ in[4*n] = in[4*n-1] + in[n-1]
             /\ in[5*n] = in[7*n+3] + in[0]
             /\ in[7*n+3] = in[3*n] + in[5*n-1]
             /\ in[6*n+1] = in[7*n+4] + in[0]
             /\ in[7*n+4] = in[5*n-1] + in[6*n]
  BY <1>1, <1>4, <1>6
<1>7. ASSUME NEW e \in Equations(n)
      PROVE  \/ \E i \in 0 .. n-2     : e = Equation(i+1, i, 0)
             \/ \E i \in n .. 4*n-2   : e = Equation(i+1, i, n-1)
             \/ \E i \in 4*n .. 5*n-2 : e = Equation(i+1, i, 7*n+2)
             \/ \E i \in 5*n .. 6*n-1 : e = Equation(i+1, 0, i)
             \/ \E i \in 6*n+1 .. 7*n : e = Equation(i+1, 0, i)
             \/ e = Equation(7*n+2, 0, n-1)
             \/ e = Equation(n, n-1, n-1)
             \/ e = Equation(4*n, 4*n-1, n-1)
             \/ e = Equation(5*n, 7*n+3, 0)
             \/ e = Equation(7*n+3, 3*n, 5*n-1)
             \/ e = Equation(6*n+1, 7*n+4, 0)
             \/ e = Equation(7*n+4, 5*n-1, 6*n)
  BY DEF Equations
<1>8. ASSUME /\ \A i \in 0 .. n-2       : in[i+1] = in[i] + in[0]
             /\ \A i \in n .. 4*n-2     : in[i+1] = in[i] + in[n-1]
             /\ \A i \in 4*n .. 5*n-2   : in[i+1] = in[i] + in[7*n+2]
             /\ \A i \in 5*n .. 6*n-1   : in[i+1] = in[0] + in[i]
             /\ \A i \in 6*n+1 .. 7*n   : in[i+1] = in[0] + in[i]
             /\ in[7*n+2] = in[0] + in[n-1]
             /\ in[n] = in[n-1] + in[n-1]
             /\ in[4*n] = in[4*n-1] + in[n-1]
             /\ in[5*n] = in[7*n+3] + in[0]
             /\ in[7*n+3] = in[3*n] + in[5*n-1]
             /\ in[6*n+1] = in[7*n+4] + in[0]
             /\ in[7*n+4] = in[5*n-1] + in[6*n]
      PROVE  FormatHolds(n, in)
  <2> SUFFICES ASSUME NEW e \in Equations(n) PROVE in[e.lhs] = in[e.a] + in[e.b]
    BY DEF FormatHolds
  <2> QED BY <1>2, <1>7, <1>8
<1> QED BY <1>5, <1>6, <1>8

\* An input that satisfies the equations is the encoding of its first element:
\* no element is left unchecked, whatever L is.
LEMMA FormatForces ==
    ASSUME NEW n \in Nat \ {0}, NEW in \in [Indexes(n) -> Nat], FormatHolds(n, in)
    PROVE  in = Encoding(n, in[0])
<1> DEFINE m == in[0]
<1>0. /\ \A j \in 0 .. 7*n+4 : in[j] \in Nat
      /\ m \in Nat
  BY DEF Indexes
<1>1. \A j \in 0 .. n-1 : in[j] = m * (j + 1)
  <2>1. \A j \in 0 .. n-1 : in[j] = in[0] + (j - 0) * m
    <3>1. Rises(in, 0, n-1, m)
      BY <1>0, FormatMeans DEF Rises
    <3> HIDE DEF m
    <3> QED BY <3>1, Progression
  <2>2. \A j \in 0 .. n-1 : m + (j - 0) * m = m * (j + 1)
    BY <1>0
  <2> QED BY <2>1, <2>2
<1>2. in[n-1] = m * n
  BY <1>1
<1>3. in[7*n+2] = m * (n + 1)
  <2>1. in[7*n+2] = in[0] + in[n-1]
    BY FormatMeans
  <2>2. m + m * n = m * (n + 1)
    BY <1>0
  <2> QED BY <1>2, <2>1, <2>2
<1>4. \A j \in n .. 4*n-1 : in[j] = m * (n + (j - n + 1) * n)
  <2>1. \A j \in n .. 4*n-1 : in[j] = in[n] + (j - n) * in[n-1]
    <3>1. \A i \in n .. (4*n-1)-1 : in[i+1] = in[i] + in[n-1]
      <4>1. \A i \in n .. 4*n-2 : in[i+1] = in[i] + in[n-1]
        BY FormatMeans
      <4> QED BY <4>1
    <3>2. in[n-1] \in Nat /\ \A i \in n .. 4*n-1 : in[i] \in Nat
      BY <1>0
    <3>3. Rises(in, n, 4*n-1, in[n-1])
      BY <3>1, <3>2 DEF Rises
    <3> HIDE DEF m
    <3> QED BY <3>3, Progression
  <2>2. in[n] = m * n + m * n
    BY <1>2, FormatMeans
  <2>3. \A j \in n .. 4*n-1 : (m * n + m * n) + (j - n) * (m * n) = m * (n + (j - n + 1) * n)
    BY <1>0
  <2> QED BY <2>1, <2>2, <2>3, <1>2
<1>5. in[4*n] = m * (3*n*n + 2*n)
  <2>1. in[4*n-1] = m * (n + ((4*n-1) - n + 1) * n)
    BY <1>4
  <2>2. in[4*n] = in[4*n-1] + in[n-1]
    BY FormatMeans
  <2>3. m * (n + ((4*n-1) - n + 1) * n) + m * n = m * (3*n*n + 2*n)
    BY <1>0
  <2> QED BY <1>2, <2>1, <2>2, <2>3
<1>6. \A j \in 4*n .. 5*n-1 : in[j] = m * (3*n*n + n - 1 + (j - 4*n + 1) * (n + 1))
  <2>1. \A j \in 4*n .. 5*n-1 : in[j] = in[4*n] + (j - 4*n) * in[7*n+2]
    <3>1. Rises(in, 4*n, 5*n-1, in[7*n+2])
      BY <1>0, FormatMeans DEF Rises
    <3> HIDE DEF m
    <3> QED BY <3>1, Progression
  <2>2. \A j \in 4*n .. 5*n-1 :
           m * (3*n*n + 2*n) + (j - 4*n) * (m * (n + 1))
           = m * (3*n*n + n - 1 + (j - 4*n + 1) * (n + 1))
    BY <1>0
  <2> QED BY <2>1, <2>2, <1>3, <1>5
<1>7. in[5*n-1] = m * (4*n*n + 2*n - 1)
  <2>1. in[5*n-1] = m * (3*n*n + n - 1 + ((5*n-1) - 4*n + 1) * (n + 1))
    BY <1>6
  <2>2. m * (3*n*n + n - 1 + ((5*n-1) - 4*n + 1) * (n + 1)) = m * (4*n*n + 2*n - 1)
    BY <1>0
  <2> QED BY <2>1, <2>2
<1>8. in[7*n+3] = m * (6*n*n + 4*n - 1)
  <2>1. in[3*n] = m * (n + (3*n - n + 1) * n)
    BY <1>4
  <2>2. in[7*n+3] = in[3*n] + in[5*n-1]
    BY FormatMeans
  <2>3. m * (n + (3*n - n + 1) * n) + m * (4*n*n + 2*n - 1) = m * (6*n*n + 4*n - 1)
    BY <1>0
  <2> QED BY <1>7, <2>1, <2>2, <2>3
<1>9. \A j \in 5*n .. 6*n : in[j] = m * (6*n*n + 4*n - 1 + (j - 5*n + 1))
  <2>1. \A j \in 5*n .. 6*n : in[j] = in[5*n] + (j - 5*n) * m
    <3>1. Rises(in, 5*n, 6*n, m)
      BY <1>0, FormatMeans DEF Rises
    <3> HIDE DEF m
    <3> QED BY <3>1, Progression
  <2>2. in[5*n] = m * (6*n*n + 4*n - 1) + m
    BY <1>8, FormatMeans
  <2>3. \A j \in 5*n .. 6*n :
           (m * (6*n*n + 4*n - 1) + m) + (j - 5*n) * m
           = m * (6*n*n + 4*n - 1 + (j - 5*n + 1))
    BY <1>0
  <2> QED BY <2>1, <2>2, <2>3
<1>10. in[7*n+4] = m * (10*n*n + 7*n - 1)
  <2>1. in[6*n] = m * (6*n*n + 4*n - 1 + (6*n - 5*n + 1))
    BY <1>9
  <2>2. in[7*n+4] = in[5*n-1] + in[6*n]
    BY FormatMeans
  <2>3. m * (4*n*n + 2*n - 1) + m * (6*n*n + 4*n - 1 + (6*n - 5*n + 1)) = m * (10*n*n + 7*n - 1)
    BY <1>0
  <2> QED BY <1>7, <2>1, <2>2, <2>3
<1>11. \A j \in 6*n+1 .. 7*n+1 : in[j] = m * (10*n*n + 7*n - 1 + (j - 6*n))
  <2>1. \A j \in 6*n+1 .. 7*n+1 : in[j] = in[6*n+1] + (j - (6*n+1)) * m
    <3>1. Rises(in, 6*n+1, 7*n+1, m)
      BY <1>0, FormatMeans DEF Rises
    <3> HIDE DEF m
    <3> QED BY <3>1, Progression
  <2>2. in[6*n+1] = m * (10*n*n + 7*n - 1) + m
    BY <1>10, FormatMeans
  <2>3. \A j \in 6*n+1 .. 7*n+1 :
           (m * (10*n*n + 7*n - 1) + m) + (j - (6*n+1)) * m
           = m * (10*n*n + 7*n - 1 + (j - 6*n))
    BY <1>0
  <2> QED BY <2>1, <2>2, <2>3
<1>12. \A j \in Indexes(n) : in[j] = m * Exponent(n, j)
  <2> SUFFICES ASSUME NEW j \in 0 .. 7*n+4 PROVE in[j] = m * Exponent(n, j)
    BY DEF Indexes
  <2>1. \/ j \in 0 .. n-1 \/ j \in n .. 4*n-1 \/ j \in 4*n .. 5*n-1 \/ j \in 5*n .. 6*n
        \/ j \in 6*n+1 .. 7*n+1 \/ j = 7*n+2 \/ j = 7*n+3 \/ j = 7*n+4
    OBVIOUS
  <2>2. CASE j \in 0 .. n-1
    BY <2>2, <1>1, Exponents
  <2>3. CASE j \in n .. 4*n-1
    BY <2>3, <1>4, Exponents
  <2>4. CASE j \in 4*n .. 5*n-1
    BY <2>4, <1>6, Exponents
  <2>5. CASE j \in 5*n .. 6*n
    BY <2>5, <1>9, Exponents
  <2>6. CASE j \in 6*n+1 .. 7*n+1
    BY <2>6, <1>11, Exponents
  <2>7. CASE j = 7*n+2 \/ j = 7*n+3 \/ j = 7*n+4
    BY <2>7, <1>3, <1>8, <1>10, Exponents
  <2> QED BY <2>1, <2>2, <2>3, <2>4, <2>5, <2>6, <2>7
<1> QED BY <1>12 DEF Encoding

\* The elements of an encoding.
LEMMA Encoded ==
    ASSUME NEW n \in Nat \ {0}, NEW m \in Nat
    PROVE  /\ Encoding(n, m) \in [Indexes(n) -> Nat]
           /\ \A j \in Indexes(n) : Encoding(n, m)[j] = m * Exponent(n, j)
           /\ \A j \in Indexes(n) : Exponent(n, j) \in Nat
           /\ Encoding(n, m)[0] = m
<1>1. n * n \in Nat /\ n * n >= 1
  OBVIOUS
<1>2. \A j \in Indexes(n) : Exponent(n, j) \in Nat
  <2> SUFFICES ASSUME NEW j \in 0 .. 7*n+4 PROVE Exponent(n, j) \in Nat
    BY DEF Indexes
  <2>1. \/ j \in 0 .. n-1 \/ j \in n .. 4*n-1 \/ j \in 4*n .. 5*n-1 \/ j \in 5*n .. 6*n
        \/ j \in 6*n+1 .. 7*n+1 \/ j = 7*n+2 \/ j = 7*n+3 \/ j = 7*n+4
    OBVIOUS
  <2>2. CASE j \in 0 .. n-1
    BY <2>2, Exponents
  <2>3. CASE j \in n .. 4*n-1
    <3>1. (j - n + 1) * n \in Nat
      BY <2>3
    <3> QED BY <2>3, <3>1, Exponents
  <2>4. CASE j \in 4*n .. 5*n-1
    <3>1. (j - 4*n + 1) * (n + 1) \in Nat
      BY <2>4
    <3> QED BY <1>1, <2>4, <3>1, Exponents
  <2>5. CASE j \in 5*n .. 6*n
    BY <1>1, <2>5, Exponents
  <2>6. CASE j \in 6*n+1 .. 7*n+1
    BY <1>1, <2>6, Exponents
  <2>7. CASE j = 7*n+2
    BY <2>7, Exponents
  <2>8. CASE j = 7*n+3
    <3>1. 6*n*n + 4*n - 1 \in Nat
      BY <1>1
    <3> QED BY <2>8, <3>1, Exponents
  <2>9. CASE j = 7*n+4
    <3>1. 10*n*n + 7*n - 1 \in Nat
      BY <1>1
    <3> QED BY <2>9, <3>1, Exponents
  <2> QED BY <2>1, <2>2, <2>3, <2>4, <2>5, <2>6, <2>7, <2>8, <2>9
<1>3. \A j \in Indexes(n) : m * Exponent(n, j) \in Nat
  BY <1>2
<1>4. 0 \in Indexes(n) /\ Exponent(n, 0) = 1
  BY Exponents DEF Indexes
<1> QED BY <1>2, <1>3, <1>4 DEF Encoding

\* The exponents satisfy the equations.
LEMMA ExponentsAdd ==
    ASSUME NEW n \in Nat \ {0}
    PROVE  FormatHolds(n, [j \in Indexes(n) |-> Exponent(n, j)])
<1> DEFINE x == [j \in Indexes(n) |-> Exponent(n, j)]
<1>0. \A j \in 0 .. 7*n+4 : x[j] = Exponent(n, j)
  BY DEF Indexes
<1> HIDE DEF x
<1>1. \A j \in 0 .. n-1 : x[j] = j + 1
  <2>1. \A j \in 0 .. n-1 : j \in 0 .. 7*n+4
    OBVIOUS
  <2> QED BY <1>0, <2>1, Exponents
<1>2. \A j \in n .. 4*n-1 : x[j] = n + (j - n + 1) * n
  <2>1. \A j \in n .. 4*n-1 : j \in 0 .. 7*n+4
    OBVIOUS
  <2> QED BY <1>0, <2>1, Exponents
<1>3. \A j \in 4*n .. 5*n-1 : x[j] = 3*n*n + n - 1 + (j - 4*n + 1) * (n + 1)
  <2>1. \A j \in 4*n .. 5*n-1 : j \in 0 .. 7*n+4
    OBVIOUS
  <2>2. \A j \in 4*n .. 5*n-1 : x[j] = Exponent(n, j)
    BY <1>0, <2>1
  <2>3. \A j \in 4*n .. 5*n-1 : Exponent(n, j) = 3*n*n + n - 1 + (j - 4*n + 1) * (n + 1)
    BY Exponents
  <2> QED BY <2>2, <2>3
<1>4. \A j \in 5*n .. 6*n : x[j] = 6*n*n + 4*n - 1 + (j - 5*n + 1)
  <2>1. \A j \in 5*n .. 6*n : j \in 0 .. 7*n+4
    OBVIOUS
  <2> QED BY <1>0, <2>1, Exponents
<1>5. \A j \in 6*n+1 .. 7*n+1 : x[j] = 10*n*n + 7*n - 1 + (j - 6*n)
  <2>1. \A j \in 6*n+1 .. 7*n+1 : j \in 0 .. 7*n+4
    OBVIOUS
  <2> QED BY <1>0, <2>1, Exponents
<1>6. x[7*n+2] = n + 1
  <2>1. x[7*n+2] = Exponent(n, 7*n+2)
    BY <1>0
  <2> QED BY <2>1, Exponents
<1>7. x[7*n+3] = 6*n*n + 4*n - 1
  <2>1. x[7*n+3] = Exponent(n, 7*n+3)
    BY <1>0
  <2> QED BY <2>1, Exponents
<1>8. x[7*n+4] = 10*n*n + 7*n - 1
  <2>1. x[7*n+4] = Exponent(n, 7*n+4)
    BY <1>0
  <2> QED BY <2>1, Exponents
<1>9. x[0] = 1 /\ x[n-1] = n
  BY <1>1
<1>10. \A i \in 0 .. n-2 : x[i+1] = x[i] + x[0]
  BY <1>1
<1>11. \A i \in n .. 4*n-2 : x[i+1] = x[i] + x[n-1]
  <2> SUFFICES ASSUME NEW i \in n .. 4*n-2 PROVE x[i+1] = x[i] + n
    BY <1>9
  <2>1. i \in n .. 4*n-1 /\ i+1 \in n .. 4*n-1
    OBVIOUS
  <2>2. x[i] = n + (i - n + 1) * n /\ x[i+1] = n + ((i+1) - n + 1) * n
    BY <1>2, <2>1
  <2> QED BY <2>2
<1>12. \A i \in 4*n .. 5*n-2 : x[i+1] = x[i] + x[7*n+2]
  <2> SUFFICES ASSUME NEW i \in 4*n .. 5*n-2 PROVE x[i+1] = x[i] + (n + 1)
    BY <1>6
  <2>1. i \in 4*n .. 5*n-1 /\ i+1 \in 4*n .. 5*n-1
    OBVIOUS
  <2>2. /\ x[i] = 3*n*n + n - 1 + (i - 4*n + 1) * (n + 1)
        /\ x[i+1] = 3*n*n + n - 1 + ((i+1) - 4*n + 1) * (n + 1)
    BY <1>3, <2>1
  <2>3. ((i+1) - 4*n + 1) * (n + 1) = (i - 4*n + 1) * (n + 1) + (n + 1)
    OBVIOUS
  <2> QED BY <2>2, <2>3
<1>13. \A i \in 5*n .. 6*n-1 : x[i+1] = x[0] + x[i]
  BY <1>4, <1>9
<1>14. \A i \in 6*n+1 .. 7*n : x[i+1] = x[0] + x[i]
  BY <1>5, <1>9
<1>15. x[7*n+2] = x[0] + x[n-1]
  BY <1>6, <1>9
<1>16. x[n] = x[n-1] + x[n-1]
  <2>1. x[n] = n + (n - n + 1) * n
    BY <1>2
  <2> QED BY <1>9, <2>1
<1>17. x[5*n-1] = 4*n*n + 2*n - 1
  <2>1. x[5*n-1] = 3*n*n + n - 1 + ((5*n-1) - 4*n + 1) * (n + 1)
    BY <1>3
  <2> QED BY <2>1
<1>18. x[4*n] = x[4*n-1] + x[n-1]
  <2>1. x[4*n-1] = n + ((4*n-1) - n + 1) * n
    BY <1>2
  <2>2. x[4*n] = 3*n*n + n - 1 + (4*n - 4*n + 1) * (n + 1)
    BY <1>3
  <2> QED BY <1>9, <2>1, <2>2
<1>19. x[5*n] = x[7*n+3] + x[0]
  <2>1. x[5*n] = 6*n*n + 4*n - 1 + (5*n - 5*n + 1)
    BY <1>4
  <2> QED BY <1>7, <1>9, <2>1
<1>20. x[7*n+3] = x[3*n] + x[5*n-1]
  <2>1. x[3*n] = n + (3*n - n + 1) * n
    BY <1>2
  <2> QED BY <1>7, <1>17, <2>1
<1>21. x[6*n+1] = x[7*n+4] + x[0]
  <2>1. x[6*n+1] = 10*n*n + 7*n - 1 + ((6*n+1) - 6*n)
    BY <1>5
  <2> QED BY <1>8, <1>9, <2>1
<1>22. x[7*n+4] = x[5*n-1] + x[6*n]
  <2>1. x[6*n] = 6*n*n + 4*n - 1 + (6*n - 5*n + 1)
    BY <1>4
  <2> QED BY <1>8, <1>17, <2>1
<1>23. FormatHolds(n, x)
  BY <1>10, <1>11, <1>12, <1>13, <1>14, <1>15, <1>16, <1>18, <1>19, <1>20, <1>21, <1>22, FormatMeans
<1> QED BY <1>23 DEF x

\* Every encoding satisfies the equations.
LEMMA EncodingPasses ==
    ASSUME NEW n \in Nat \ {0}, NEW m \in Nat
    PROVE  FormatHolds(n, Encoding(n, m))
<1> SUFFICES ASSUME NEW e \in Equations(n)
             PROVE  Encoding(n, m)[e.lhs] = Encoding(n, m)[e.a] + Encoding(n, m)[e.b]
  BY DEF FormatHolds
<1>1. e.lhs \in Indexes(n) /\ e.a \in Indexes(n) /\ e.b \in Indexes(n)
  BY DEF Equations, Equation, Indexes
<1>2. Exponent(n, e.lhs) = Exponent(n, e.a) + Exponent(n, e.b)
  BY <1>1, ExponentsAdd DEF FormatHolds
<1>3. Exponent(n, e.a) \in Nat /\ Exponent(n, e.b) \in Nat
  BY <1>1, Encoded
<1>4. m * (Exponent(n, e.a) + Exponent(n, e.b)) = m * Exponent(n, e.a) + m * Exponent(n, e.b)
  BY <1>3
<1> QED BY <1>1, <1>2, <1>4, Encoded

\* verify_format accepts exactly the encodings.
LEMMA FormatIsEncoding ==
    ASSUME NEW n \in Nat \ {0}, NEW in \in [Indexes(n) -> Nat]
    PROVE  FormatHolds(n, in) <=> in = Encoding(n, in[0])
<1>1. in[0] \in Nat
  BY DEF Indexes
<1>2. in = Encoding(n, in[0]) => FormatHolds(n, in)
  BY <1>1, EncodingPasses
<1> QED BY <1>2, FormatForces
-----------------------------------------------------------------------------
(***************************************************************************)
(* opt_decompress_encoding.                                                *)
(***************************************************************************)
LEMMA LoopTypes ==
    ASSUME NEW n \in Nat \ {0}, NEW k \in Loops
    PROVE  Outer(n, k) \in Nat /\ Inner(n, k) \in Nat /\ Inner(n, k) >= 1
BY DEF Loops, Outer, Inner

LEMMA ProductOf ==
    ASSUME NEW n \in Nat \ {0}, NEW m \in Nat, NEW a \in Indexes(n), NEW b \in Indexes(n)
    PROVE  /\ Product(Encoding(n, m), << a >>) = m * Exponent(n, a)
           /\ Product(Encoding(n, m), << a, b >>) = m * (Exponent(n, a) + Exponent(n, b))
<1>1. Product(Encoding(n, m), << a >>) = Encoding(n, m)[a]
  BY DEF Product
<1>2. Product(Encoding(n, m), << a, b >>) = Encoding(n, m)[a] + Encoding(n, m)[b]
  BY DEF Product
<1>3. Exponent(n, a) \in Nat /\ Exponent(n, b) \in Nat
  BY Encoded
<1>4. m * Exponent(n, a) + m * Exponent(n, b) = m * (Exponent(n, a) + Exponent(n, b))
  BY <1>3
<1> QED BY <1>1, <1>2, <1>4, Encoded

\* What the body of loop k writes is the next power of the message.
LEMMA NextPower ==
    ASSUME NEW n \in Nat \ {0}, NEW m \in Nat, NEW k \in Loops,
           NEW o \in 0 .. Outer(n, k) - 1, NEW i \in 0 .. Inner(n, k) - 1,
           ~ Skipped(k, o, i)
    PROVE  Product(Encoding(n, m), Factors(n, k, o, i)) = m * (Position(n, k, o, i) + 1)
<1>1. CASE k = 1
  <2>1. o \in 0 .. n - 1 /\ i \in 0 .. 1 - 1
    BY <1>1 DEF Outer, Inner
  <2>2. Factors(n, k, o, i) = << o >>
    BY <1>1 DEF Factors
  <2>3. o \in 0 .. n-1
    BY <2>1
  <2>4. /\ Exponent(n, o) = o + 1
    BY <2>3, Exponents
  <2>5. o \in Indexes(n)
    BY <2>3 DEF Indexes
  <2>6. Product(Encoding(n, m), Factors(n, k, o, i)) = m * Exponent(n, o)
    BY <2>2, <2>5, ProductOf
  <2>7. Exponent(n, o) = Position(n, k, o, i) + 1
    BY <2>1, <2>4, <1>1 DEF Position, Before, LeftOut, Inner
  <2> QED BY <2>6, <2>7
<1>2. CASE k = 2
  <2>1. o \in 0 .. n - 1 /\ i \in 0 .. 1 - 1
    BY <1>2 DEF Outer, Inner
  <2>2. Factors(n, k, o, i) = << n - 1, o >>
    BY <1>2 DEF Factors
  <2>3. n - 1 \in 0 .. n-1 /\ o \in 0 .. n-1
    BY <2>1
  <2>4. /\ Exponent(n, n - 1) = (n - 1) + 1
      /\ Exponent(n, o) = o + 1
    BY <2>3, Exponents
  <2>5. n - 1 \in Indexes(n) /\ o \in Indexes(n)
    BY <2>3 DEF Indexes
  <2>6. Product(Encoding(n, m), Factors(n, k, o, i)) = m * (Exponent(n, n - 1) + Exponent(n, o))
    <3> DEFINE a == n - 1
               b == o
    <3>1. a \in Indexes(n) /\ b \in Indexes(n) /\ Factors(n, k, o, i) = << a, b >>
      BY <2>2, <2>5
    <3> HIDE DEF a, b
    <3>2. Product(Encoding(n, m), << a, b >>) = m * (Exponent(n, a) + Exponent(n, b))
      BY <3>1, ProductOf
    <3> QED BY <3>1, <3>2 DEF a, b
  <2>7. Exponent(n, n - 1) + Exponent(n, o) = Position(n, k, o, i) + 1
    BY <2>1, <2>4, <1>2 DEF Position, Before, LeftOut, Inner
  <2> QED BY <2>6, <2>7
<1>3. CASE k = 3
  <2>1. o \in 0 .. 3*n - 1 /\ i \in 0 .. n - 1
    BY <1>3 DEF Outer, Inner
  <2>2. Factors(n, k, o, i) = << i, n + o >>
    BY <1>3 DEF Factors
  <2>3. i \in 0 .. n-1 /\ n + o \in n .. 4*n-1
    BY <2>1
  <2>4. /\ Exponent(n, i) = i + 1
      /\ Exponent(n, n + o) = n + ((n + o) - n + 1) * n
    BY <2>3, Exponents
  <2>5. i \in Indexes(n) /\ n + o \in Indexes(n)
    BY <2>3 DEF Indexes
  <2>6. Product(Encoding(n, m), Factors(n, k, o, i)) = m * (Exponent(n, i) + Exponent(n, n + o))
    <3> DEFINE a == i
               b == n + o
    <3>1. a \in Indexes(n) /\ b \in Indexes(n) /\ Factors(n, k, o, i) = << a, b >>
      BY <2>2, <2>5
    <3> HIDE DEF a, b
    <3>2. Product(Encoding(n, m), << a, b >>) = m * (Exponent(n, a) + Exponent(n, b))
      BY <3>1, ProductOf
    <3> QED BY <3>1, <3>2 DEF a, b
  <2>7. Exponent(n, i) + Exponent(n, n + o) = Position(n, k, o, i) + 1
    BY <2>1, <2>4, <1>3 DEF Position, Before, LeftOut, Inner
  <2> QED BY <2>6, <2>7
<1>4. CASE k = 4
  <2>1. o > 0 \/ i > 0
    BY <1>4 DEF Skipped, Outer, Inner
  <2>2. CASE i = 0
    <3>1. o \in 0 .. n - 1 /\ i \in 0 .. (n+1) - 1
      BY <1>4, <2>1, <2>2 DEF Outer, Inner
    <3>2. Factors(n, k, o, i) = << 4*n + o >>
      BY <1>4, <2>1, <2>2 DEF Factors
    <3>3. 4*n + o \in 4*n .. 5*n-1
      BY <3>1
    <3>4. /\ Exponent(n, 4*n + o) = 3*n*n + n - 1 + ((4*n + o) - 4*n + 1) * (n + 1)
      BY <3>3, Exponents
    <3>5. 4*n + o \in Indexes(n)
      BY <3>3 DEF Indexes
    <3>6. Product(Encoding(n, m), Factors(n, k, o, i)) = m * Exponent(n, 4*n + o)
      BY <3>2, <3>5, ProductOf
    <3>7. Exponent(n, 4*n + o) = Position(n, k, o, i) + 1
      BY <3>1, <3>4, <1>4, <2>1, <2>2 DEF Position, Before, LeftOut, Inner
    <3> QED BY <3>6, <3>7
  <2>3. CASE i # 0
    <3>1. o \in 0 .. n - 1 /\ i \in 0 .. (n+1) - 1
      BY <1>4, <2>1, <2>3 DEF Outer, Inner
    <3>2. Factors(n, k, o, i) = << i - 1, 4*n + o >>
      BY <1>4, <2>1, <2>3 DEF Factors
    <3>3. i - 1 \in 0 .. n-1 /\ 4*n + o \in 4*n .. 5*n-1
      BY <3>1, <2>3
    <3>4. /\ Exponent(n, i - 1) = (i - 1) + 1
        /\ Exponent(n, 4*n + o) = 3*n*n + n - 1 + ((4*n + o) - 4*n + 1) * (n + 1)
      BY <3>3, Exponents
    <3>5. i - 1 \in Indexes(n) /\ 4*n + o \in Indexes(n)
      BY <3>3 DEF Indexes
    <3>6. Product(Encoding(n, m), Factors(n, k, o, i)) = m * (Exponent(n, i - 1) + Exponent(n, 4*n + o))
      <4> DEFINE a == i - 1
                 b == 4*n + o
      <4>1. a \in Indexes(n) /\ b \in Indexes(n) /\ Factors(n, k, o, i) = << a, b >>
        BY <3>2, <3>5
      <4> HIDE DEF a, b
      <4>2. Product(Encoding(n, m), << a, b >>) = m * (Exponent(n, a) + Exponent(n, b))
        BY <4>1, ProductOf
      <4> QED BY <4>1, <4>2 DEF a, b
    <3>7. Exponent(n, i - 1) + Exponent(n, 4*n + o) = Position(n, k, o, i) + 1
      BY <3>1, <3>4, <1>4, <2>1, <2>3 DEF Position, Before, LeftOut, Inner
    <3> QED BY <3>6, <3>7
  <2> QED BY <2>2, <2>3
<1>5. CASE k = 5
  <2>1. o \in 0 .. (2*n+1) - 1 /\ i \in 0 .. n - 1
    BY <1>5 DEF Outer, Inner
  <2>2. Factors(n, k, o, i) = << (2*n - 1) + (o + 1) - (i + 1), 4*n + i >>
    BY <1>5 DEF Factors
  <2>3. (2*n - 1) + (o + 1) - (i + 1) \in n .. 4*n-1 /\ 4*n + i \in 4*n .. 5*n-1
    BY <2>1
  <2>4. /\ Exponent(n, (2*n - 1) + (o + 1) - (i + 1)) = n + (((2*n - 1) + (o + 1) - (i + 1)) - n + 1) * n
      /\ Exponent(n, 4*n + i) = 3*n*n + n - 1 + ((4*n + i) - 4*n + 1) * (n + 1)
    BY <2>3, Exponents
  <2>5. (2*n - 1) + (o + 1) - (i + 1) \in Indexes(n) /\ 4*n + i \in Indexes(n)
    BY <2>3 DEF Indexes
  <2>6. Product(Encoding(n, m), Factors(n, k, o, i)) = m * (Exponent(n, (2*n - 1) + (o + 1) - (i + 1)) + Exponent(n, 4*n + i))
    <3> DEFINE a == (2*n - 1) + (o + 1) - (i + 1)
               b == 4*n + i
    <3>1. a \in Indexes(n) /\ b \in Indexes(n) /\ Factors(n, k, o, i) = << a, b >>
      BY <2>2, <2>5
    <3> HIDE DEF a, b
    <3>2. Product(Encoding(n, m), << a, b >>) = m * (Exponent(n, a) + Exponent(n, b))
      BY <3>1, ProductOf
    <3> QED BY <3>1, <3>2 DEF a, b
  <2>7. Exponent(n, (2*n - 1) + (o + 1) - (i + 1)) + Exponent(n, 4*n + i) = Position(n, k, o, i) + 1
    BY <2>1, <2>4, <1>5 DEF Position, Before, LeftOut, Inner
  <2> QED BY <2>6, <2>7
<1>6. CASE k = 6
  <2>1. o \in 0 .. (n+1) - 1 /\ i \in 0 .. 1 - 1
    BY <1>6 DEF Outer, Inner
  <2>2. Factors(n, k, o, i) = << 5*n + o >>
    BY <1>6 DEF Factors
  <2>3. 5*n + o \in 5*n .. 6*n
    BY <2>1
  <2>4. /\ Exponent(n, 5*n + o) = 6*n*n + 4*n - 1 + ((5*n + o) - 5*n + 1)
    BY <2>3, Exponents
  <2>5. 5*n + o \in Indexes(n)
    BY <2>3 DEF Indexes
  <2>6. Product(Encoding(n, m), Factors(n, k, o, i)) = m * Exponent(n, 5*n + o)
    BY <2>2, <2>5, ProductOf
  <2>7. Exponent(n, 5*n + o) = Position(n, k, o, i) + 1
    BY <2>1, <2>4, <1>6 DEF Position, Before, LeftOut, Inner
  <2> QED BY <2>6, <2>7
<1>7. CASE k = 7
  <2>1. o \in 0 .. n - 1 /\ i \in 0 .. 1 - 1
    BY <1>7 DEF Outer, Inner
  <2>2. Factors(n, k, o, i) = << o, 6*n >>
    BY <1>7 DEF Factors
  <2>3. o \in 0 .. n-1 /\ 6*n \in 5*n .. 6*n
    BY <2>1
  <2>4. /\ Exponent(n, o) = o + 1
      /\ Exponent(n, 6*n) = 6*n*n + 4*n - 1 + ((6*n) - 5*n + 1)
    BY <2>3, Exponents
  <2>5. o \in Indexes(n) /\ 6*n \in Indexes(n)
    BY <2>3 DEF Indexes
  <2>6. Product(Encoding(n, m), Factors(n, k, o, i)) = m * (Exponent(n, o) + Exponent(n, 6*n))
    <3> DEFINE a == o
               b == 6*n
    <3>1. a \in Indexes(n) /\ b \in Indexes(n) /\ Factors(n, k, o, i) = << a, b >>
      BY <2>2, <2>5
    <3> HIDE DEF a, b
    <3>2. Product(Encoding(n, m), << a, b >>) = m * (Exponent(n, a) + Exponent(n, b))
      BY <3>1, ProductOf
    <3> QED BY <3>1, <3>2 DEF a, b
  <2>7. Exponent(n, o) + Exponent(n, 6*n) = Position(n, k, o, i) + 1
    BY <2>1, <2>4, <1>7 DEF Position, Before, LeftOut, Inner
  <2> QED BY <2>6, <2>7
<1>8. CASE k = 8
  <2>1. o \in 0 .. 3*n - 1 /\ i \in 0 .. n - 1
    BY <1>8 DEF Outer, Inner
  <2>2. Factors(n, k, o, i) = << n + o, 5*n + 1 + i >>
    BY <1>8 DEF Factors
  <2>3. n + o \in n .. 4*n-1 /\ 5*n + 1 + i \in 5*n .. 6*n
    BY <2>1
  <2>4. /\ Exponent(n, n + o) = n + ((n + o) - n + 1) * n
      /\ Exponent(n, 5*n + 1 + i) = 6*n*n + 4*n - 1 + ((5*n + 1 + i) - 5*n + 1)
    BY <2>3, Exponents
  <2>5. n + o \in Indexes(n) /\ 5*n + 1 + i \in Indexes(n)
    BY <2>3 DEF Indexes
  <2>6. Product(Encoding(n, m), Factors(n, k, o, i)) = m * (Exponent(n, n + o) + Exponent(n, 5*n + 1 + i))
    <3> DEFINE a == n + o
               b == 5*n + 1 + i
    <3>1. a \in Indexes(n) /\ b \in Indexes(n) /\ Factors(n, k, o, i) = << a, b >>
      BY <2>2, <2>5
    <3> HIDE DEF a, b
    <3>2. Product(Encoding(n, m), << a, b >>) = m * (Exponent(n, a) + Exponent(n, b))
      BY <3>1, ProductOf
    <3> QED BY <3>1, <3>2 DEF a, b
  <2>7. Exponent(n, n + o) + Exponent(n, 5*n + 1 + i) = Position(n, k, o, i) + 1
    BY <2>1, <2>4, <1>8 DEF Position, Before, LeftOut, Inner
  <2> QED BY <2>6, <2>7
<1>9. CASE k = 9
  <2>1. o \in 0 .. n - 1 /\ i \in 0 .. 1 - 1
    BY <1>9 DEF Outer, Inner
  <2>2. Factors(n, k, o, i) = << 4*n, 5*n + 1 + o >>
    BY <1>9 DEF Factors
  <2>3. 4*n \in 4*n .. 5*n-1 /\ 5*n + 1 + o \in 5*n .. 6*n
    BY <2>1
  <2>4. /\ Exponent(n, 4*n) = 3*n*n + n - 1 + ((4*n) - 4*n + 1) * (n + 1)
      /\ Exponent(n, 5*n + 1 + o) = 6*n*n + 4*n - 1 + ((5*n + 1 + o) - 5*n + 1)
    BY <2>3, Exponents
  <2>5. 4*n \in Indexes(n) /\ 5*n + 1 + o \in Indexes(n)
    BY <2>3 DEF Indexes
  <2>6. Product(Encoding(n, m), Factors(n, k, o, i)) = m * (Exponent(n, 4*n) + Exponent(n, 5*n + 1 + o))
    <3> DEFINE a == 4*n
               b == 5*n + 1 + o
    <3>1. a \in Indexes(n) /\ b \in Indexes(n) /\ Factors(n, k, o, i) = << a, b >>
      BY <2>2, <2>5
    <3> HIDE DEF a, b
    <3>2. Product(Encoding(n, m), << a, b >>) = m * (Exponent(n, a) + Exponent(n, b))
      BY <3>1, ProductOf
    <3> QED BY <3>1, <3>2 DEF a, b
  <2>7. Exponent(n, 4*n) + Exponent(n, 5*n + 1 + o) = Position(n, k, o, i) + 1
    BY <2>1, <2>4, <1>9 DEF Position, Before, LeftOut, Inner
  <2> QED BY <2>6, <2>7
<1>10. CASE k = 10
  <2>1. o \in 0 .. (n-1) - 1 /\ i \in 0 .. (n+1) - 1
    BY <1>10 DEF Outer, Inner
  <2>2. Factors(n, k, o, i) = << 4*n + 1 + o, 5*n + i >>
    BY <1>10 DEF Factors
  <2>3. 4*n + 1 + o \in 4*n .. 5*n-1 /\ 5*n + i \in 5*n .. 6*n
    BY <2>1
  <2>4. /\ Exponent(n, 4*n + 1 + o) = 3*n*n + n - 1 + ((4*n + 1 + o) - 4*n + 1) * (n + 1)
      /\ Exponent(n, 5*n + i) = 6*n*n + 4*n - 1 + ((5*n + i) - 5*n + 1)
    BY <2>3, Exponents
  <2>5. 4*n + 1 + o \in Indexes(n) /\ 5*n + i \in Indexes(n)
    BY <2>3 DEF Indexes
  <2>6. Product(Encoding(n, m), Factors(n, k, o, i)) = m * (Exponent(n, 4*n + 1 + o) + Exponent(n, 5*n + i))
    <3> DEFINE a == 4*n + 1 + o
               b == 5*n + i
    <3>1. a \in Indexes(n) /\ b \in Indexes(n) /\ Factors(n, k, o, i) = << a, b >>
      BY <2>2, <2>5
    <3> HIDE DEF a, b
    <3>2. Product(Encoding(n, m), << a, b >>) = m * (Exponent(n, a) + Exponent(n, b))
      BY <3>1, ProductOf
    <3> QED BY <3>1, <3>2 DEF a, b
  <2>7. Exponent(n, 4*n + 1 + o) + Exponent(n, 5*n + i) = Position(n, k, o, i) + 1
    BY <2>1, <2>4, <1>10 DEF Position, Before, LeftOut, Inner
  <2> QED BY <2>6, <2>7
<1>11. CASE k = 11
  <2>1. o \in 0 .. (n+1) - 1 /\ i \in 0 .. 1 - 1
    BY <1>11 DEF Outer, Inner
  <2>2. Factors(n, k, o, i) = << 6*n + 1 + o >>
    BY <1>11 DEF Factors
  <2>3. 6*n + 1 + o \in 6*n+1 .. 7*n+1
    BY <2>1
  <2>4. /\ Exponent(n, 6*n + 1 + o) = 10*n*n + 7*n - 1 + ((6*n + 1 + o) - 6*n)
    BY <2>3, Exponents
  <2>5. 6*n + 1 + o \in Indexes(n)
    BY <2>3 DEF Indexes
  <2>6. Product(Encoding(n, m), Factors(n, k, o, i)) = m * Exponent(n, 6*n + 1 + o)
    BY <2>2, <2>5, ProductOf
  <2>7. Exponent(n, 6*n + 1 + o) = Position(n, k, o, i) + 1
    BY <2>1, <2>4, <1>11 DEF Position, Before, LeftOut, Inner
  <2> QED BY <2>6, <2>7
<1>12. CASE k = 12
  <2>1. o \in 0 .. n - 1 /\ i \in 0 .. 1 - 1
    BY <1>12 DEF Outer, Inner
  <2>2. Factors(n, k, o, i) = << o, 7*n + 1 >>
    BY <1>12 DEF Factors
  <2>3. o \in 0 .. n-1 /\ 7*n + 1 \in 6*n+1 .. 7*n+1
    BY <2>1
  <2>4. /\ Exponent(n, o) = o + 1
      /\ Exponent(n, 7*n + 1) = 10*n*n + 7*n - 1 + ((7*n + 1) - 6*n)
    BY <2>3, Exponents
  <2>5. o \in Indexes(n) /\ 7*n + 1 \in Indexes(n)
    BY <2>3 DEF Indexes
  <2>6. Product(Encoding(n, m), Factors(n, k, o, i)) = m * (Exponent(n, o) + Exponent(n, 7*n + 1))
    <3> DEFINE a == o
               b == 7*n + 1
    <3>1. a \in Indexes(n) /\ b \in Indexes(n) /\ Factors(n, k, o, i) = << a, b >>
      BY <2>2, <2>5
    <3> HIDE DEF a, b
    <3>2. Product(Encoding(n, m), << a, b >>) = m * (Exponent(n, a) + Exponent(n, b))
      BY <3>1, ProductOf
    <3> QED BY <3>1, <3>2 DEF a, b
  <2>7. Exponent(n, o) + Exponent(n, 7*n + 1) = Position(n, k, o, i) + 1
    BY <2>1, <2>4, <1>12 DEF Position, Before, LeftOut, Inner
  <2> QED BY <2>6, <2>7
<1>13. CASE k = 13
  <2>1. o \in 0 .. 3*n - 1 /\ i \in 0 .. n - 1
    BY <1>13 DEF Outer, Inner
  <2>2. Factors(n, k, o, i) = << n + o, 6*n + 2 + i >>
    BY <1>13 DEF Factors
  <2>3. n + o \in n .. 4*n-1 /\ 6*n + 2 + i \in 6*n+1 .. 7*n+1
    BY <2>1
  <2>4. /\ Exponent(n, n + o) = n + ((n + o) - n + 1) * n
      /\ Exponent(n, 6*n + 2 + i) = 10*n*n + 7*n - 1 + ((6*n + 2 + i) - 6*n)
    BY <2>3, Exponents
  <2>5. n + o \in Indexes(n) /\ 6*n + 2 + i \in Indexes(n)
    BY <2>3 DEF Indexes
  <2>6. Product(Encoding(n, m), Factors(n, k, o, i)) = m * (Exponent(n, n + o) + Exponent(n, 6*n + 2 + i))
    <3> DEFINE a == n + o
               b == 6*n + 2 + i
    <3>1. a \in Indexes(n) /\ b \in Indexes(n) /\ Factors(n, k, o, i) = << a, b >>
      BY <2>2, <2>5
    <3> HIDE DEF a, b
    <3>2. Product(Encoding(n, m), << a, b >>) = m * (Exponent(n, a) + Exponent(n, b))
      BY <3>1, ProductOf
    <3> QED BY <3>1, <3>2 DEF a, b
  <2>7. Exponent(n, n + o) + Exponent(n, 6*n + 2 + i) = Position(n, k, o, i) + 1
    BY <2>1, <2>4, <1>13 DEF Position, Before, LeftOut, Inner
  <2> QED BY <2>6, <2>7
<1>14. CASE k = 14
  <2>1. o \in 0 .. n - 1 /\ i \in 0 .. 1 - 1
    BY <1>14 DEF Outer, Inner
  <2>2. Factors(n, k, o, i) = << 4*n, 6*n + 2 + o >>
    BY <1>14 DEF Factors
  <2>3. 4*n \in 4*n .. 5*n-1 /\ 6*n + 2 + o \in 6*n+1 .. 7*n+1
    BY <2>1
  <2>4. /\ Exponent(n, 4*n) = 3*n*n + n - 1 + ((4*n) - 4*n + 1) * (n + 1)
      /\ Exponent(n, 6*n + 2 + o) = 10*n*n + 7*n - 1 + ((6*n + 2 + o) - 6*n)
    BY <2>3, Exponents
  <2>5. 4*n \in Indexes(n) /\ 6*n + 2 + o \in Indexes(n)
    BY <2>3 DEF Indexes
  <2>6. Product(Encoding(n, m), Factors(n, k, o, i)) = m * (Exponent(n, 4*n) + Exponent(n, 6*n + 2 + o))
    <3> DEFINE a == 4*n
               b == 6*n + 2 + o
    <3>1. a \in Indexes(n) /\ b \in Indexes(n) /\ Factors(n, k, o, i) = << a, b >>
      BY <2>2, <2>5
    <3> HIDE DEF a, b
    <3>2. Product(Encoding(n, m), << a, b >>) = m * (Exponent(n, a) + Exponent(n, b))
      BY <3>1, ProductOf
    <3> QED BY <3>1, <3>2 DEF a, b
  <2>7. Exponent(n, 4*n) + Exponent(n, 6*n + 2 + o) = Position(n, k, o, i) + 1
    BY <2>1, <2>4, <1>14 DEF Position, Before, LeftOut, Inner
  <2> QED BY <2>6, <2>7
<1>15. CASE k = 15
  <2>1. o \in 0 .. (n-1) - 1 /\ i \in 0 .. (n+1) - 1
    BY <1>15 DEF Outer, Inner
  <2>2. Factors(n, k, o, i) = << 4*n + 1 + o, 6*n + 1 + i >>
    BY <1>15 DEF Factors
  <2>3. 4*n + 1 + o \in 4*n .. 5*n-1 /\ 6*n + 1 + i \in 6*n+1 .. 7*n+1
    BY <2>1
  <2>4. /\ Exponent(n, 4*n + 1 + o) = 3*n*n + n - 1 + ((4*n + 1 + o) - 4*n + 1) * (n + 1)
      /\ Exponent(n, 6*n + 1 + i) = 10*n*n + 7*n - 1 + ((6*n + 1 + i) - 6*n)
    BY <2>3, Exponents
  <2>5. 4*n + 1 + o \in Indexes(n) /\ 6*n + 1 + i \in Indexes(n)
    BY <2>3 DEF Indexes
  <2>6. Product(Encoding(n, m), Factors(n, k, o, i)) = m * (Exponent(n, 4*n + 1 + o) + Exponent(n, 6*n + 1 + i))
    <3> DEFINE a == 4*n + 1 + o
               b == 6*n + 1 + i
    <3>1. a \in Indexes(n) /\ b \in Indexes(n) /\ Factors(n, k, o, i) = << a, b >>
      BY <2>2, <2>5
    <3> HIDE DEF a, b
    <3>2. Product(Encoding(n, m), << a, b >>) = m * (Exponent(n, a) + Exponent(n, b))
      BY <3>1, ProductOf
    <3> QED BY <3>1, <3>2 DEF a, b
  <2>7. Exponent(n, 4*n + 1 + o) + Exponent(n, 6*n + 1 + i) = Position(n, k, o, i) + 1
    BY <2>1, <2>4, <1>15 DEF Position, Before, LeftOut, Inner
  <2> QED BY <2>6, <2>7
<1> QED BY <1>1, <1>2, <1>3, <1>4, <1>5, <1>6, <1>7, <1>8, <1>9, <1>10, <1>11, <1>12, <1>13, <1>14, <1>15 DEF Loops

\* Position is a natural number, and moves on with the loops.
LEMMA NextInner ==
    ASSUME NEW n \in Nat \ {0}, NEW k \in Loops,
           NEW o \in 0 .. Outer(n, k) - 1, NEW i \in 0 .. Inner(n, k) - 1
    PROVE  Position(n, k, o, i + 1) =
               IF Skipped(k, o, i) THEN Position(n, k, o, i) ELSE Position(n, k, o, i) + 1
<1>1. LeftOut(k, o, i + 1) = IF Skipped(k, o, i) THEN LeftOut(k, o, i) + 1 ELSE LeftOut(k, o, i)
  BY LoopTypes DEF LeftOut, Skipped
<1>2. LeftOut(k, o, i) \in Nat /\ o * Inner(n, k) \in Nat
  BY LoopTypes DEF LeftOut
<1>3. Before(n, k) \in Int
  BY DEF Before, Loops
<1> QED BY <1>1, <1>2, <1>3 DEF Position

LEMMA NextOuterPosition ==
    ASSUME NEW n \in Nat \ {0}, NEW k \in Loops, NEW o \in 0 .. Outer(n, k) - 1
    PROVE  Position(n, k, o + 1, 0) = Position(n, k, o, Inner(n, k))
<1>1. o \in Nat /\ Inner(n, k) \in Nat /\ Inner(n, k) >= 1
  BY LoopTypes
<1>2. LeftOut(k, o + 1, 0) = LeftOut(k, o, Inner(n, k)) /\ LeftOut(k, o + 1, 0) \in Nat
  BY <1>1 DEF LeftOut
<1>3. (o + 1) * Inner(n, k) = o * Inner(n, k) + Inner(n, k) /\ o * Inner(n, k) \in Nat
  BY <1>1
<1>4. Before(n, k) \in Int
  BY DEF Before, Loops
<1> QED BY <1>1, <1>2, <1>3, <1>4 DEF Position

LEMMA NextLoopPosition ==
    ASSUME NEW n \in Nat \ {0}, NEW k \in Loops
    PROVE  /\ Position(n, k, Outer(n, k), 0) = Before(n, k + 1)
           /\ k < 15 => Before(n, k + 1) = Position(n, k + 1, 0, 0)
           /\ Before(n, 16) = NumMessages(n)
<1>1. Position(n, k, Outer(n, k), 0) = Before(n, k + 1)
  <2>1. CASE k = 1
    BY <2>1 DEF Position, Before, LeftOut, Outer, Inner
  <2>2. CASE k = 2
    BY <2>2 DEF Position, Before, LeftOut, Outer, Inner
  <2>3. CASE k = 3
    BY <2>3 DEF Position, Before, LeftOut, Outer, Inner
  <2>4. CASE k = 4
    BY <2>4 DEF Position, Before, LeftOut, Outer, Inner
  <2>5. CASE k = 5
    BY <2>5 DEF Position, Before, LeftOut, Outer, Inner
  <2>6. CASE k = 6
    BY <2>6 DEF Position, Before, LeftOut, Outer, Inner
  <2>7. CASE k = 7
    BY <2>7 DEF Position, Before, LeftOut, Outer, Inner
  <2>8. CASE k = 8
    BY <2>8 DEF Position, Before, LeftOut, Outer, Inner
  <2>9. CASE k = 9
    BY <2>9 DEF Position, Before, LeftOut, Outer, Inner
  <2>10. CASE k = 10
    BY <2>10 DEF Position, Before, LeftOut, Outer, Inner
  <2>11. CASE k = 11
    BY <2>11 DEF Position, Before, LeftOut, Outer, Inner
  <2>12. CASE k = 12
    BY <2>12 DEF Position, Before, LeftOut, Outer, Inner
  <2>13. CASE k = 13
    BY <2>13 DEF Position, Before, LeftOut, Outer, Inner
  <2>14. CASE k = 14
    BY <2>14 DEF Position, Before, LeftOut, Outer, Inner
  <2>15. CASE k = 15
    BY <2>15 DEF Position, Before, LeftOut, Outer, Inner, NumMessages
  <2> QED BY <2>1, <2>2, <2>3, <2>4, <2>5, <2>6, <2>7, <2>8, <2>9, <2>10, <2>11, <2>12, <2>13, <2>14, <2>15 DEF Loops
<1>2. k < 15 => Before(n, k + 1) = Position(n, k + 1, 0, 0)
  <2> SUFFICES ASSUME k < 15 PROVE Before(n, k + 1) = Position(n, k + 1, 0, 0)
    OBVIOUS
  <2>1. k + 1 \in Loops
    BY DEF Loops
  <2>2. Before(n, k + 1) \in Int
    BY DEF Before, Loops
  <2>3. 0 * Inner(n, k + 1) = 0
    BY <2>1, LoopTypes
  <2>4. LeftOut(k + 1, 0, 0) = 0
    BY DEF LeftOut
  <2> QED BY <2>2, <2>3, <2>4 DEF Position
<1>3. Before(n, 16) = NumMessages(n)
  BY DEF Before
<1> QED BY <1>1, <1>2, <1>3

\* The loops before loop k write no more than N elements.
LEMMA BeforeBounded ==
    ASSUME NEW n \in Nat \ {0}, NEW k \in 1 .. 16
    PROVE  Before(n, k) \in 0 .. NumMessages(n) /\ NumMessages(n) \in Nat
<1> DEFINE q == n * n
<1>1. q \in Nat /\ q >= n /\ n >= 1
  <2>1. n * n = n + n * (n - 1) /\ n * (n - 1) \in Nat
    OBVIOUS
  <2> QED BY <2>1
<1>2. NumMessages(n) = 14*q + 10*n - 1
  BY DEF NumMessages
<1>3. Before(n, k) \in {0, n, 2*n, 3*q + 2*n, 4*q + 3*n - 1, 6*q + 4*n - 1, 6*q + 5*n, 6*q + 6*n,
       9*q + 6*n, 9*q + 7*n, 10*q + 7*n - 1, 10*q + 8*n, 10*q + 9*n, 13*q + 9*n, 13*q + 10*n, 14*q + 10*n - 1}
  <2>1. CASE k = 1
    BY <2>1 DEF Before
  <2>2. CASE k = 2
    BY <2>2 DEF Before
  <2>3. CASE k = 3
    BY <2>3 DEF Before
  <2>4. CASE k = 4
    BY <2>4 DEF Before
  <2>5. CASE k = 5
    BY <2>5 DEF Before
  <2>6. CASE k = 6
    BY <2>6 DEF Before
  <2>7. CASE k = 7
    BY <2>7 DEF Before
  <2>8. CASE k = 8
    BY <2>8 DEF Before
  <2>9. CASE k = 9
    BY <2>9 DEF Before
  <2>10. CASE k = 10
    BY <2>10 DEF Before
  <2>11. CASE k = 11
    BY <2>11 DEF Before
  <2>12. CASE k = 12
    BY <2>12 DEF Before
  <2>13. CASE k = 13
    BY <2>13 DEF Before
  <2>14. CASE k = 14
    BY <2>14 DEF Before
  <2>15. CASE k = 15
    BY <2>15 DEF Before
  <2>16. CASE k = 16
    BY <2>16 DEF Before, NumMessages
  <2> QED BY <2>1, <2>2, <2>3, <2>4, <2>5, <2>6, <2>7, <2>8, <2>9, <2>10, <2>11, <2>12, <2>13, <2>14, <2>15, <2>16
<1> HIDE DEF q
<1> QED BY <1>1, <1>2, <1>3

\* Inside a loop there is room for one more element.
LEMMA RoomForOne ==
    ASSUME NEW n \in Nat \ {0}, NEW k \in Loops,
           NEW o \in 0 .. Outer(n, k) - 1, NEW i \in 0 .. Inner(n, k) - 1,
           ~ Skipped(k, o, i)
    PROVE  Position(n, k, o, i) + 1 <= NumMessages(n)
<1> DEFINE I == Inner(n, k)
           O == Outer(n, k)
<1>1. O \in Nat /\ I \in Nat /\ o \in Nat /\ i \in Nat /\ o + 1 <= O /\ i + 1 <= I
  BY LoopTypes
<1>2. O * I = o * I + I + (O - (o + 1)) * I /\ (O - (o + 1)) * I \in Nat /\ o * I \in Nat
  BY <1>1
<1>3. LeftOut(k, o, i) = LeftOut(k, O, 0) /\ LeftOut(k, o, i) \in Nat
  BY <1>1 DEF LeftOut, Skipped
<1>4. Before(n, k) \in Int
  BY DEF Before, Loops
<1> HIDE DEF I, O
<1>5. Before(n, k) + o * I + i + 1 - LeftOut(k, o, i) <= Before(n, k) + O * I + 0 - LeftOut(k, O, 0)
  BY <1>1, <1>2, <1>3, <1>4
<1>6. Position(n, k, o, i) + 1 <= Position(n, k, O, 0)
  BY <1>1, <1>2, <1>3, <1>4, <1>5 DEF Position, I
<1>7. Position(n, k, O, 0) = Before(n, k + 1) /\ k + 1 \in 1 .. 16
  BY NextLoopPosition DEF O, Loops
<1>8. Position(n, k, o, i) \in Int
  BY <1>1, <1>2, <1>3, <1>4 DEF Position, I
<1> QED BY <1>6, <1>7, <1>8, BeforeBounded
-----------------------------------------------------------------------------
(***************************************************************************)
(* Serialisation.                                                          *)
(***************************************************************************)
\* A vector arrives whole exactly when its length fits the header field.
LEMMA RoundTrip ==
    ASSUME NEW S, NEW len \in Nat, NEW v \in [0 .. len-1 -> S], Word > 0
    PROVE  Deserialize(Serialize(v, len)) = v <=> len < Word
<1> DEFINE w == Deserialize(Serialize(v, len))
<1>1. w = [j \in 0 .. (len % Word) - 1 |-> Serialize(v, len).body[len - 1 - j]]
  BY DEF Deserialize, Serialize
<1>2. len % Word \in 0 .. Word - 1
  OBVIOUS
<1> HIDE DEF w
<1>3. CASE len < Word
  <2>1. len % Word = len
    BY <1>3
  <2>2. \A j \in 0 .. len-1 : Serialize(v, len).body[len - 1 - j] = v[j]
    <3> SUFFICES ASSUME NEW j \in 0 .. len-1
                 PROVE  Serialize(v, len).body[len - 1 - j] = v[j]
      OBVIOUS
    <3>1. len - 1 - j \in 0 .. len-1 /\ len - 1 - (len - 1 - j) = j
      OBVIOUS
    <3>2. Serialize(v, len).body[len - 1 - j] = v[len - 1 - (len - 1 - j)]
      BY <3>1 DEF Serialize
    <3> QED BY <3>1, <3>2
  <2>3. w = v
    BY <1>1, <2>1, <2>2
  <2> QED BY <1>3, <2>3 DEF w
<1>4. CASE ~ (len < Word)
  <2>1. len - 1 \in DOMAIN v
    BY <1>4
  <2>2. len - 1 \notin DOMAIN w
    BY <1>1, <1>2, <1>4
  <2> QED BY <1>4, <2>1, <2>2 DEF w
<1> QED BY <1>3, <1>4

\* The length of a session, and of an encoding, as the assumptions give them.
LEMMA Sizes ==
    ASSUME EncodingInv
    PROVE  /\ L \in Nat \ {0} /\ 7*L + 5 \in Nat /\ 7*L + 5 < Word /\ Word \in Nat /\ Word > 0
           /\ msg \in Nat /\ NumMessages(L) \in Nat /\ 0 \in Indexes(L)
           /\ Indexes(L) = 0 .. (7*L + 5) - 1
           /\ loop \in Loops => Outer(L, loop) \in Nat /\ Inner(L, loop) \in Nat
                                 /\ Inner(L, loop) >= 1
<1>1. L \in Nat \ {0} /\ msg \in Nat /\ 7*L + 5 < Word
  BY DEF EncodingInv, TypeOK
<1>2. NumMessages(L) \in Nat
  BY <1>1, BeforeBounded
<1> QED BY <1>1, <1>2, LoopTypes DEF Indexes
-----------------------------------------------------------------------------
(***************************************************************************)
(* The steps.                                                              *)
(***************************************************************************)
LEMMA InitEncodingInv == Init => EncodingInv
<1> SUFFICES ASSUME Init PROVE EncodingInv
  OBVIOUS
<1>1. L \in Nat \ {0}
  BY DEF Init
<1>2. NumMessages(L) \in Nat
  BY <1>1, BeforeBounded
<1>3. Outer(L, 1) = L /\ Inner(L, 1) = 1 /\ loop = 1
  BY DEF Init, Outer, Inner
<1>4. TypeOK
  <2>1. pos \in 0 .. NumMessages(L) /\ loop \in 1 .. 16 /\ outer \in 0 .. Outer(L, loop)
        /\ inner \in 0 .. Inner(L, loop)
    BY <1>1, <1>2, <1>3 DEF Init
  <2> QED BY <2>1 DEF Init, TypeOK, Phases
<1>5. CountInv /\ PacketInv /\ PowersInv
  BY <1>1, <1>3 DEF Init, CountInv, PacketInv, PowersInv, Early, Late
<1> QED BY <1>4, <1>5 DEF EncodingInv

LEMMA EncodeInv ==
    ASSUME EncodingInv, Encode
    PROVE  EncodingInv'
<1>1. phase = "encode" /\ phase' = "submit" /\ code' = Encoding(L, msg)
      /\ UNCHANGED << L, msg, packet, input, corrupted, counters, decompressed, row >>
  BY DEF Encode
<1>2. code' \in [Indexes(L) -> Nat]
  BY <1>1, Sizes, Encoded
<1>3. TypeOK'
  BY <1>1, <1>2 DEF EncodingInv, TypeOK, Phases, counters
<1>4. CountInv' /\ PacketInv' /\ PowersInv'
  BY <1>1 DEF EncodingInv, CountInv, PacketInv, PowersInv, Early, Late, counters
<1> QED BY <1>3, <1>4 DEF EncodingInv

LEMMA MisencodeInv ==
    ASSUME EncodingInv, NEW j \in Indexes(L), NEW d \in Offsets, Misencode(j, d)
    PROVE  EncodingInv'
<1>1. phase = "submit" /\ code' = [code EXCEPT ![j] = @ + d]
      /\ UNCHANGED << L, msg, phase, packet, input, corrupted, counters, decompressed, row >>
  BY DEF Misencode
<1>2. code' \in [Indexes(L) -> Nat]
  BY <1>1 DEF EncodingInv, TypeOK
<1>3. TypeOK'
  BY <1>1, <1>2 DEF EncodingInv, TypeOK, counters
<1>4. CountInv' /\ PacketInv' /\ PowersInv'
  BY <1>1 DEF EncodingInv, CountInv, PacketInv, PowersInv, Early, Late, counters
<1> QED BY <1>3, <1>4 DEF EncodingInv

LEMMA SubmitInv ==
    ASSUME EncodingInv, Submit
    PROVE  EncodingInv'
<1>1. phase = "submit" /\ phase' = "take" /\ packet' = Serialize(code, 7*L + 5)
      /\ UNCHANGED << L, msg, code, input, corrupted, counters, decompressed, row >>
  BY DEF Submit
<1>2. TypeOK'
  BY <1>1 DEF EncodingInv, TypeOK, Phases, counters
<1>3. CountInv' /\ PacketInv' /\ PowersInv'
  BY <1>1 DEF EncodingInv, CountInv, PacketInv, PowersInv, Early, Late, counters, Serialize
<1> QED BY <1>2, <1>3 DEF EncodingInv

\* The server has the client's encoding as it was sent.
LEMMA TakeInv ==
    ASSUME EncodingInv, Take
    PROVE  EncodingInv' /\ input' = code
<1>1. phase = "take" /\ phase' = "verify" /\ input' = Deserialize(packet)
      /\ UNCHANGED << L, msg, code, packet, corrupted, counters, decompressed, row >>
  BY DEF Take
<1>2. packet = Serialize(code, 7*L + 5) /\ code \in [0 .. (7*L + 5) - 1 -> Nat]
  BY <1>1, Sizes DEF EncodingInv, TypeOK, PacketInv
<1>3. input' = code
  BY <1>1, <1>2, Sizes, RoundTrip
<1>4. TypeOK'
  BY <1>1, <1>2, <1>3, Sizes DEF EncodingInv, TypeOK, Phases, counters
<1>5. CountInv' /\ PacketInv' /\ PowersInv'
  BY <1>1 DEF EncodingInv, CountInv, PacketInv, PowersInv, Early, Late, counters
<1> QED BY <1>3, <1>4, <1>5 DEF EncodingInv

LEMMA VerifyInv ==
    ASSUME EncodingInv, Verify
    PROVE  EncodingInv'
<1>1. phase = "verify" /\ corrupted' = ~ FormatHolds(L, input)
      /\ decompressed' = [q \in 0 .. NumMessages(L) - 1 |-> ZERO]
      /\ phase' = (IF corrupted' THEN "open" ELSE "decompress")
      /\ UNCHANGED << L, msg, code, packet, input, counters, row >>
  BY DEF Verify
<1>2. input \in [Indexes(L) -> Nat] /\ loop = 1 /\ outer = 0 /\ inner = 0 /\ pos = 0
      /\ corrupted' \in BOOLEAN
  BY <1>1 DEF EncodingInv, TypeOK, CountInv, Early
<1>3. corrupted' <=> input # Encoding(L, input[0])
  BY <1>1, <1>2, Sizes, FormatIsEncoding
<1>4. Position(L, 1, 0, 0) = 0 /\ 1 \in Loops /\ Outer(L, 1) = L
  BY Sizes DEF Position, Before, LeftOut, Inner, Outer, Loops
<1>5. decompressed' \in [0 .. NumMessages(L) - 1 -> Elements]
  BY <1>1 DEF Elements
<1>6. TypeOK'
  BY <1>1, <1>2, <1>5 DEF EncodingInv, TypeOK, Phases, counters
<1>7. CountInv'
  BY <1>1, <1>2, <1>4, Sizes DEF CountInv, Early, Late, counters
<1>8. PacketInv'
  BY <1>1 DEF PacketInv
<1>9. PowersInv'
  BY <1>1, <1>2, <1>3 DEF PowersInv, Late, counters
<1> QED BY <1>6, <1>7, <1>8, <1>9 DEF EncodingInv

LEMMA WriteNextInv ==
    ASSUME EncodingInv, WriteNext
    PROVE  EncodingInv'
<1>1. phase = "decompress" /\ loop \in Loops /\ inner' = inner + 1
      /\ outer \in 0 .. Outer(L, loop) - 1 /\ inner \in 0 .. Inner(L, loop) - 1
      /\ UNCHANGED << L, msg, phase, code, packet, input, corrupted, loop, outer, row >>
  BY Sizes DEF WriteNext, EncodingInv, TypeOK
<1>2. pos = Position(L, loop, outer, inner) /\ ~ corrupted
  BY <1>1 DEF EncodingInv, CountInv, PowersInv
<1>3. input = Encoding(L, input[0]) /\ input[0] \in Nat
  BY <1>1, <1>2, Sizes DEF EncodingInv, PowersInv, TypeOK
<1>4. \A q \in 0 .. pos-1 : decompressed[q] = input[0] * (q + 1)
  BY <1>1, <1>2 DEF EncodingInv, PowersInv
<1>5. pos \in Nat /\ pos <= NumMessages(L) /\ decompressed \in [0 .. NumMessages(L)-1 -> Elements]
  BY <1>1 DEF EncodingInv, TypeOK
<1>6. inner' \in 0 .. Inner(L, loop)
  BY <1>1, Sizes
<1>7. PacketInv'
  BY <1>1 DEF PacketInv
<1>8. CASE Skipped(loop, outer, inner)
  <2>1. decompressed' = decompressed /\ pos' = pos
    BY <1>8 DEF WriteNext
  <2>2. TypeOK'
    BY <1>1, <1>5, <1>6, <2>1 DEF EncodingInv, TypeOK
  <2>3. pos' = Position(L, loop, outer, inner')
    BY <1>1, <1>2, <1>8, <2>1, NextInner, Sizes
  <2>4. CountInv'
    BY <1>1, <2>3 DEF CountInv, Early, Late
  <2>5. PowersInv'
    BY <1>1, <1>2, <1>3, <1>4, <2>1 DEF PowersInv, Late
  <2> QED BY <1>7, <2>2, <2>4, <2>5 DEF EncodingInv
<1>9. CASE ~ Skipped(loop, outer, inner)
  <2> DEFINE x == Product(input, Factors(L, loop, outer, inner))
  <2>1. decompressed' = [decompressed EXCEPT ![pos] = x] /\ pos' = pos + 1
    BY <1>9 DEF WriteNext
  <2>2. x = input[0] * (pos + 1)
    BY <1>1, <1>2, <1>3, <1>9, NextPower, Sizes
  <2>3. x \in Elements
    BY <1>3, <1>5, <2>2 DEF Elements
  <2>4. pos + 1 <= NumMessages(L)
    BY <1>1, <1>2, <1>9, RoomForOne, Sizes
  <2> HIDE DEF x
  <2>5. decompressed' \in [0 .. NumMessages(L)-1 -> Elements] /\ pos' \in 0 .. NumMessages(L)
    <3>1. decompressed' \in [0 .. NumMessages(L)-1 -> Elements]
      BY <1>5, <2>1, <2>3
    <3>2. pos' \in 0 .. NumMessages(L)
      BY <1>5, <2>1, <2>4, Sizes
    <3> QED BY <3>1, <3>2
  <2>6. TypeOK'
    BY <1>1, <1>6, <2>5 DEF EncodingInv, TypeOK
  <2>7. pos' = Position(L, loop, outer, inner')
    BY <1>1, <1>2, <1>9, <2>1, NextInner, Sizes
  <2>8. CountInv'
    BY <1>1, <2>7 DEF CountInv, Early, Late
  <2>9. \A q \in 0 .. pos'-1 : decompressed'[q] = input[0] * (q + 1)
    <3> SUFFICES ASSUME NEW q \in 0 .. pos PROVE decompressed'[q] = input[0] * (q + 1)
      BY <1>5, <2>1
    <3>1. pos \in 0 .. NumMessages(L)-1 /\ q \in 0 .. NumMessages(L)-1
      BY <1>5, <2>4, Sizes
    <3>2. CASE q = pos
      BY <1>5, <2>1, <2>2, <3>1, <3>2
    <3>3. CASE q # pos
      BY <1>4, <1>5, <2>1, <3>1, <3>3
    <3> QED BY <3>2, <3>3
  <2>10. PowersInv'
    BY <1>1, <1>2, <1>3, <2>9 DEF PowersInv, Late
  <2> QED BY <1>7, <2>6, <2>8, <2>10 DEF EncodingInv
<1> QED BY <1>8, <1>9

LEMMA NextOuterInv ==
    ASSUME EncodingInv, NextOuter
    PROVE  EncodingInv'
<1>1. phase = "decompress" /\ loop \in Loops /\ outer' = outer + 1 /\ inner' = 0
      /\ outer \in 0 .. Outer(L, loop) - 1 /\ inner = Inner(L, loop)
      /\ UNCHANGED << L, msg, phase, code, packet, input, corrupted, loop, pos, decompressed, row >>
  BY Sizes DEF NextOuter, EncodingInv, TypeOK
<1>2. outer' \in 0 .. Outer(L, loop) /\ inner' \in 0 .. Inner(L, loop)
  BY <1>1, Sizes
<1>3. TypeOK'
  BY <1>1, <1>2 DEF EncodingInv, TypeOK
<1>4. pos' = Position(L, loop, outer', inner')
  <2>1. pos = Position(L, loop, outer, Inner(L, loop))
    BY <1>1 DEF EncodingInv, CountInv
  <2> QED BY <1>1, <2>1, NextOuterPosition, Sizes
<1>5. CountInv'
  BY <1>1, <1>4 DEF CountInv, Early, Late
<1>6. PacketInv' /\ PowersInv'
  BY <1>1 DEF EncodingInv, PacketInv, PowersInv, Late
<1> QED BY <1>3, <1>5, <1>6 DEF EncodingInv

LEMMA NextLoopInv ==
    ASSUME EncodingInv, NextLoop
    PROVE  EncodingInv'
<1>1. phase = "decompress" /\ loop \in Loops /\ outer = Outer(L, loop)
      /\ loop' = loop + 1 /\ outer' = 0 /\ inner' = 0
      /\ phase' = (IF loop' \in Loops THEN "decompress" ELSE "open")
      /\ UNCHANGED << L, msg, code, packet, input, corrupted, pos, decompressed, row >>
  BY DEF NextLoop
<1>2. inner = 0 /\ pos = Position(L, loop, outer, inner) /\ ~ corrupted
  BY <1>1 DEF EncodingInv, CountInv, PowersInv
<1>3. pos = Before(L, loop')
  BY <1>1, <1>2, NextLoopPosition, Sizes
<1>4. CASE loop < 15
  <2>1. loop' \in Loops /\ phase' = "decompress"
    BY <1>1, <1>4 DEF Loops
  <2>2. 0 \in 0 .. Outer(L, loop') /\ 0 \in 0 .. Inner(L, loop')
    <3>1. L \in Nat \ {0}
      BY Sizes
    <3>2. Outer(L, loop') \in Nat /\ Inner(L, loop') \in Nat
      BY <2>1, <3>1, LoopTypes
    <3> QED BY <3>2
  <2>3. TypeOK'
    BY <1>1, <2>1, <2>2 DEF EncodingInv, TypeOK, Phases, Loops
  <2>4. pos' = Position(L, loop', outer', inner')
    BY <1>1, <1>3, <1>4, NextLoopPosition, Sizes
  <2>5. CountInv'
    BY <1>1, <2>1, <2>4 DEF CountInv, Early, Late
  <2>6. PacketInv' /\ PowersInv'
    BY <1>1, <2>1 DEF EncodingInv, PacketInv, PowersInv, Late
  <2> QED BY <2>3, <2>5, <2>6 DEF EncodingInv
<1>5. CASE ~ (loop < 15)
  <2>1. loop' = 16 /\ loop' \notin Loops /\ phase' = "open"
    BY <1>1, <1>5 DEF Loops
  <2>2. TypeOK'
    BY <1>1, <2>1 DEF EncodingInv, TypeOK, Phases
  <2>3. pos' = NumMessages(L)
    BY <1>1, <1>3, <2>1, NextLoopPosition, Sizes
  <2>4. CountInv'
    BY <1>1, <2>1, <2>3 DEF CountInv, Early, Late
  <2>5. PacketInv' /\ PowersInv'
    BY <1>1, <2>1 DEF EncodingInv, PacketInv, PowersInv, Late
  <2> QED BY <2>2, <2>4, <2>5 DEF EncodingInv
<1> QED BY <1>4, <1>5

LEMMA OpenInv ==
    ASSUME EncodingInv, Open
    PROVE  EncodingInv'
<1>1. phase = "open" /\ phase' = "return"
      /\ packet' = Serialize(decompressed, NumMessages(L))
      /\ UNCHANGED << L, msg, code, input, corrupted, counters, decompressed, row >>
  BY DEF Open
<1>2. TypeOK'
  BY <1>1 DEF EncodingInv, TypeOK, Phases, counters
<1>3. CountInv' /\ PowersInv'
  BY <1>1 DEF EncodingInv, CountInv, PowersInv, Early, Late, counters
<1>4. PacketInv'
  BY <1>1 DEF PacketInv, Serialize
<1> QED BY <1>2, <1>3, <1>4 DEF EncodingInv

LEMMA ReturnInv ==
    ASSUME EncodingInv, Return
    PROVE  EncodingInv'
<1>1. phase = "return" /\ phase' = "done" /\ row' = Deserialize(packet)
      /\ UNCHANGED << L, msg, code, packet, input, corrupted, counters, decompressed >>
  BY DEF Return
<1>2. TypeOK'
  BY <1>1 DEF EncodingInv, TypeOK, Phases, counters
<1>3. CountInv' /\ PowersInv'
  BY <1>1 DEF EncodingInv, CountInv, PowersInv, Early, Late, counters
<1>4. row' = Deserialize(Serialize(decompressed, NumMessages(L)))
  BY <1>1 DEF EncodingInv, PacketInv
<1>5. PacketInv'
  <2>1. row' = Deserialize(Serialize(decompressed, NumMessages(L)))'
    BY <1>1, <1>4
  <2> QED BY <1>1, <2>1 DEF PacketInv
<1> QED BY <1>2, <1>3, <1>5 DEF EncodingInv

LEMMA DoneInv ==
    ASSUME EncodingInv, UNCHANGED vars
    PROVE  EncodingInv'
<1>1. UNCHANGED << L, msg, phase, code, packet, input, corrupted, loop, outer, inner, pos,
                   decompressed, row >>
  BY DEF vars
<1>2. TypeOK'
  BY <1>1 DEF EncodingInv, TypeOK
<1>3. CountInv' /\ PowersInv'
  BY <1>1 DEF EncodingInv, CountInv, PowersInv, Early, Late
<1>4. PacketInv'
  BY <1>1 DEF EncodingInv, PacketInv, Serialize, Deserialize
<1> QED BY <1>2, <1>3, <1>4 DEF EncodingInv

\* Every step preserves the invariant.
LEMMA NextEncodingInv == EncodingInv /\ [Next]_vars => EncodingInv'
<1> SUFFICES ASSUME EncodingInv, [Next]_vars PROVE EncodingInv'
  OBVIOUS
<1>1. CASE \E j \in Indexes(L), d \in Offsets : Misencode(j, d)
  BY <1>1, MisencodeInv
<1>2. CASE Encode \/ Submit \/ Take \/ Verify
  BY <1>2, EncodeInv, SubmitInv, TakeInv, VerifyInv
<1>3. CASE WriteNext \/ NextOuter \/ NextLoop
  BY <1>3, WriteNextInv, NextOuterInv, NextLoopInv
<1>4. CASE Open \/ Return
  BY <1>4, OpenInv, ReturnInv
<1>5. CASE Done \/ UNCHANGED vars
  BY <1>5, DoneInv DEF Done
<1> QED BY <1>1, <1>2, <1>3, <1>4, <1>5 DEF Next
-----------------------------------------------------------------------------
(***************************************************************************)
(* The theorems, for every L.                                              *)
(***************************************************************************)
\* In each of the fifteen loops pos is where the loops before it and its own
\* counters put it (opt_decompress_encoding), and every packet is what the
\* phase before serialised.
THEOREM EncodingInvariant == Spec => []EncodingInv
BY InitEncodingInv, NextEncodingInv, PTL DEF Spec

\* Every index that opt_decompress_encoding reads or writes is in its vector.
THEOREM IndexesInRange == Spec => []TypeOK
<1>1. EncodingInv => TypeOK
  BY DEF EncodingInv
<1> QED BY <1>1, EncodingInvariant, PTL

\* verify_format accepts exactly what add2basis_encode makes of the message in
\* the first element.
THEOREM VerdictHolds == Spec => []VerdictIsRight
<1>1. EncodingInv => VerdictIsRight
  BY DEF EncodingInv, PowersInv, VerdictIsRight, Late
<1> QED BY <1>1, EncodingInvariant, PTL

\* opt_decompress_encoding writes power q+1 of the message at position q.
THEOREM PowersInOrder == Spec => []DecompressedPowers
<1>1. EncodingInv => DecompressedPowers
  BY DEF EncodingInv, PowersInv, DecompressedPowers, Late
<1> QED BY <1>1, EncodingInvariant, PTL

\* The fifteen loops write 14*L^2 + 10*L - 1 elements, the number of messages
\* of a session.
THEOREM PowersComplete == Spec => []AllWritten
<1>1. EncodingInv => AllWritten
  BY DEF EncodingInv, CountInv, AllWritten, Late
<1> QED BY <1>1, EncodingInvariant, PTL

\* A vector of a session arrives whole exactly when its length fits num_ZZ_p.
THEOREM RowsWholeIffTheyFit == Spec => []RowArrivesWhole
<1>1. EncodingInv => RowArrivesWhole
  <2> SUFFICES ASSUME EncodingInv, phase = "done"
               PROVE  row = decompressed <=> NumMessages(L) < Word
    BY DEF RowArrivesWhole
  <2>1. row = Deserialize(Serialize(decompressed, NumMessages(L)))
        /\ decompressed \in [0 .. NumMessages(L)-1 -> Elements]
    BY DEF EncodingInv, PacketInv, TypeOK
  <2> QED BY <2>1, Sizes, RoundTrip
<1> QED BY <1>1, EncodingInvariant, PTL

\* With the code's word of 16 bits that is up to L = 68.
THEOREM FitsUpTo68 ==
    ASSUME NEW n \in Nat \ {0}
    PROVE  NumMessages(n) < 65536 <=> n <= 68
<1>1. CASE n <= 68
  <2>1. n * n <= 68 * 68
    <3>1. 68 * 68 = n * n + n * (68 - n) + 68 * (68 - n) /\ n * (68 - n) \in Nat
      BY <1>1
    <3> QED BY <1>1, <3>1
  <2> QED BY <1>1, <2>1 DEF NumMessages
<1>2. CASE ~ (n <= 68)
  <2>1. n * n >= 69 * 69
    <3>1. n * n = 69 * 69 + 69 * (n - 69) + n * (n - 69) /\ n * (n - 69) \in Nat
      BY <1>2
    <3> QED BY <1>2, <3>1
  <2> QED BY <1>2, <2>1 DEF NumMessages
<1> QED BY <1>1, <1>2
=============================================================================

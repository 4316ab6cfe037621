------------------------- MODULE Polynomials_proofs -------------------------
(***************************************************************************)
(* What the operators of Polynomials compute, for every prime p: inverses, *)
(* values of sums and products, division with remainder, the number of     *)
(* roots, and interpolation.                                               *)
(*                                                                         *)
(* Every recursive function is handled the same way: a function with these *)
(* equations exists (Recursion), so it is what CHOOSE returns, and what is *)
(* true of all its values is shown with a least counterexample (Least).    *)
(***************************************************************************)
EXTENDS Polynomials, FiniteSetTheorems, WellFoundedInduction, TLAPS

-----------------------------------------------------------------------------
(***************************************************************************)
(* Arithmetic modulo p.                                                    *)
(***************************************************************************)
\* The part of PrimeAssumption that most proofs need.
LEMMA PrimeSize == p \in Nat /\ p > 1
BY PrimeAssumption

USE PrimeSize

\* A nonempty set of naturals has a least element.
LEMMA Least ==
    ASSUME NEW T \in SUBSET Nat, T # {}
    PROVE  \E x \in T : \A y \in T : x <= y
<1> DEFINE less == {ss \in Nat \X Nat : ss[1] < ss[2]}
<1>1. OpToRel(<, Nat) = less
  BY DEF OpToRel
<1>2. IsWellFoundedOn(less, Nat)
  BY <1>1, NatLessThanWellFounded, Zenon
<1> HIDE DEF less
<1>3. PICK x \in T : \A y \in T : ~ (<< y, x >> \in less)
  BY <1>2, WFMin
<1>4. \A y, z \in Nat : << y, z >> \in less <=> y < z
  BY DEF less
<1>5. ASSUME NEW y \in T PROVE x <= y
  <2>1. ~ (y < x)
    BY <1>3, <1>4
  <2>2. x \in Nat /\ y \in Nat
    OBVIOUS
  <2> QED BY <2>1, <2>2
<1> QED BY <1>5

\* Division with remainder by p.
LEMMA DivMod ==
    ASSUME NEW a \in Int
    PROVE  a % p \in Field /\ \E q \in Int : a = p*q + (a % p)
<1>1. a \div p \in Int /\ a = p * (a \div p) + (a % p)
  OBVIOUS
<1>2. a % p \in Field
  BY DEF Field
<1> QED BY <1>1, <1>2

\* The remainder is the only one in the field.
LEMMA ModIs ==
    ASSUME NEW q \in Int, NEW r \in Field
    PROVE  (p*q + r) % p = r
<1>1. r \in Int /\ 0 <= r /\ r < p
  BY DEF Field
<1> DEFINE w == p*q + r
           s == w % p
<1>2. w \in Int
  BY <1>1
<1>3. PICK m \in Int : w = p*m + s
  <2> HIDE DEF w
  <2> QED BY <1>2, DivMod
<1>4. s \in Int /\ 0 <= s /\ s < p
  <2>1. s \in Field
    <3> HIDE DEF w
    <3> QED BY <1>2, DivMod
  <2> QED BY <2>1 DEF Field
<1>5. p*q + r = p*m + s
  BY <1>3
<1> HIDE DEF s
<1>6. p*(q - m) = s - r
  BY <1>1, <1>4, <1>5
<1>7. q - m = 0
  <2>1. CASE q - m >= 1
    <3>1. p*(q - m) >= p
      BY <2>1
    <3> QED BY <3>1, <1>6, <1>4, <1>1
  <2>2. CASE q - m <= -1
    <3>1. p*(q - m) <= -p
      BY <2>2
    <3> QED BY <3>1, <1>6, <1>4, <1>1
  <2> QED BY <2>1, <2>2
<1> QED BY <1>6, <1>7, <1>1, <1>4 DEF s

\* Two integers have the same remainder when they differ by a multiple of p.
LEMMA SameMod ==
    ASSUME NEW a \in Int, NEW b \in Int
    PROVE  a % p = b % p <=> \E k \in Int : a = b + p*k
<1>1. PICK m \in Int : a = p*m + (a % p) /\ a % p \in Field
  BY DivMod
<1>2. PICK q \in Int : b = p*q + (b % p) /\ b % p \in Field
  BY DivMod
<1>3. ASSUME a % p = b % p PROVE \E k \in Int : a = b + p*k
  <2>1. a = b + p*(m - q)
    <3> DEFINE r == a % p
    <3>1. r \in Int /\ a = p*m + r /\ b = p*q + r
      BY <1>1, <1>2, <1>3 DEF Field
    <3> HIDE DEF r
    <3> QED BY <3>1
  <2> QED BY <2>1
<1>4. ASSUME NEW k \in Int, a = b + p*k PROVE a % p = b % p
  <2> DEFINE r == b % p
  <2>1. r \in Int /\ r \in Field /\ b = p*q + r
    BY <1>2 DEF Field
  <2> HIDE DEF r
  <2>2. a = p*(q + k) + r
    BY <2>1, <1>4
  <2>3. a % p = r
    BY <2>1, <2>2, ModIs
  <2> QED BY <2>3 DEF r
<1> QED BY <1>3, <1>4

\* An element of the field is its own remainder.
LEMMA ModField == ASSUME NEW a \in Field PROVE a % p = a /\ a \in Int
<1>1. a \in Int
  BY DEF Field
<1>2. p*0 + a = a
  BY <1>1
<1> QED BY <1>1, <1>2, ModIs

\* A remainder is reduced.
LEMMA ModMod == ASSUME NEW a \in Int PROVE (a % p) % p = a % p /\ a % p \in Field /\ a % p \in Int
BY DivMod, ModField

\* The provers compute modulo p with these rules, where Mod stays folded.
Mod(a) == a % p

\* Mod gives elements of the field, and gives them back.
LEMMA ModType == \A a \in Int : Mod(a) \in Field /\ Mod(a) \in Int /\ Mod(Mod(a)) = Mod(a)
BY ModMod DEF Mod

\* Mod leaves the field alone.
LEMMA ModOf == \A a \in Field : Mod(a) = a /\ a \in Int
BY ModField DEF Mod

\* The elements of the field are integers.
LEMMA FieldInt == \A a \in Field : a \in Int
BY DEF Field

\* 0 and 1 are in the field.
LEMMA ModSmall == Mod(0) = 0 /\ Mod(1) = 1 /\ 0 \in Field /\ 1 \in Field
BY ModField DEF Mod, Field

\* Adding a multiple of p changes nothing.
LEMMA ModShift == \A a, k \in Int : Mod(a + p*k) = Mod(a)
<1> SUFFICES ASSUME NEW a \in Int, NEW k \in Int PROVE (a + p*k) % p = a % p
  BY DEF Mod
<1>1. a + p*k \in Int
  OBVIOUS
<1> QED BY <1>1, SameMod

\* A factor may be reduced.
LEMMA ModTimes == \A a, b \in Int : Mod(a * Mod(b)) = Mod(a * b)
<1> SUFFICES ASSUME NEW a \in Int, NEW b \in Int PROVE Mod(a * Mod(b)) = Mod(a * b)
  OBVIOUS
<1>1. PICK q \in Int : b = p*q + Mod(b)
  BY DivMod DEF Mod
<1>2. Mod(b) \in Int /\ a * Mod(b) \in Int /\ a*q \in Int
  BY ModType
<1>3. a*b = a * Mod(b) + p*(a*q)
  BY <1>1, <1>2
<1>4. Mod(a * Mod(b) + p*(a*q)) = Mod(a * Mod(b))
  BY <1>2, ModShift
<1> QED BY <1>3, <1>4

\* A term may be reduced.
LEMMA ModPlus == \A a, b \in Int : Mod(a + Mod(b)) = Mod(a + b)
<1> SUFFICES ASSUME NEW a \in Int, NEW b \in Int PROVE Mod(a + Mod(b)) = Mod(a + b)
  OBVIOUS
<1>1. PICK q \in Int : b = p*q + Mod(b)
  BY DivMod DEF Mod
<1>2. Mod(b) \in Int /\ a + Mod(b) \in Int
  BY ModType
<1>3. a + b = (a + Mod(b)) + p*q
  BY <1>1, <1>2
<1>4. Mod((a + Mod(b)) + p*q) = Mod(a + Mod(b))
  BY <1>2, ModShift
<1> QED BY <1>3, <1>4

\* The value of the higher coefficients may be reduced.
LEMMA ModHorner == \A a, b, c \in Int : Mod(a + b * Mod(c)) = Mod(a + b * c)
<1> SUFFICES ASSUME NEW a \in Int, NEW b \in Int, NEW c \in Int
             PROVE  Mod(a + b * Mod(c)) = Mod(a + b * c)
  OBVIOUS
<1>1. b * Mod(c) \in Int /\ b * c \in Int
  BY ModType
<1>2. Mod(a + b * Mod(c)) = Mod(a + Mod(b * Mod(c)))
  BY <1>1, ModPlus
<1>3. Mod(a + Mod(b * c)) = Mod(a + b * c)
  BY <1>1, ModPlus
<1> QED BY <1>2, <1>3, ModTimes

\* Both terms may be reduced.
LEMMA ModPlus2 == \A a, b \in Int : Mod(Mod(a) + Mod(b)) = Mod(a + b)
<1> SUFFICES ASSUME NEW a \in Int, NEW b \in Int PROVE Mod(Mod(a) + Mod(b)) = Mod(a + b)
  OBVIOUS
<1>1. Mod(a) \in Int
  BY ModType
<1>2. Mod(Mod(a) + Mod(b)) = Mod(Mod(a) + b)
  BY <1>1, ModPlus
<1>3. Mod(b + Mod(a)) = Mod(b + a)
  BY ModPlus
<1>4. Mod(a) + b = b + Mod(a) /\ b + a = a + b
  BY <1>1
<1> QED BY <1>2, <1>3, <1>4

\* The first term and the value of the others may be reduced.
LEMMA ModHorner2 == \A a, b, c \in Int : Mod(Mod(a) + b * Mod(c)) = Mod(a + b * c)
<1> SUFFICES ASSUME NEW a \in Int, NEW b \in Int, NEW c \in Int
             PROVE  Mod(Mod(a) + b * Mod(c)) = Mod(a + b * c)
  OBVIOUS
<1>1. Mod(a) \in Int /\ b * c \in Int
  BY ModType
<1>2. Mod(Mod(a) + b * Mod(c)) = Mod(Mod(a) + b * c)
  BY <1>1, ModHorner
<1>3. Mod(b * c + Mod(a)) = Mod(b * c + a)
  BY <1>1, ModPlus
<1>4. Mod(a) + b * c = b * c + Mod(a) /\ b * c + a = a + b * c
  BY <1>1
<1> QED BY <1>2, <1>3, <1>4

\* Two elements of the field differ by a multiple of p only when they are equal.
LEMMA DifferentMod ==
    ASSUME NEW a \in Field, NEW b \in Field, Mod(a - b) = 0
    PROVE  a = b
<1>1. a \in Int /\ b \in Int /\ a - b \in Int
  BY FieldInt
<1>2. Mod(b + Mod(a - b)) = Mod(b + (a - b))
  BY <1>1, ModPlus
<1>3. b + (a - b) = a /\ b + 0 = b
  BY <1>1
<1> QED BY <1>2, <1>3, ModOf

\* Every element of the field but 0 has an inverse: the least multiple of it
\* modulo p, without 0, divides p.
THEOREM InverseOf ==
    ASSUME NEW a \in 1 .. p-1
    PROVE  inv[a] \in 1 .. p-1 /\ (a * inv[a]) % p = 1
<1> DEFINE T == {m \in 1 .. p-1 : \E k \in Nat : (a*k) % p = m}
<1>1. a \in T
  <2>1. a * 1 = a /\ a \in Field /\ 1 \in Nat
    BY DEF Field
  <2>2. (a * 1) % p = a
    BY <2>1, ModField
  <2> QED BY <2>1, <2>2
<1>2. T \in SUBSET Nat /\ T # {}
  <2>1. T \in SUBSET Nat
    OBVIOUS
  <2> HIDE DEF T
  <2> QED BY <1>1, <2>1
<1>3. PICK b \in T : \A m \in T : b <= m
  <2> HIDE DEF T
  <2> QED BY <1>2, Least
<1>4. b \in 1 .. p-1
  OBVIOUS
<1>5. PICK k \in Nat : (a*k) % p = b
  OBVIOUS
<1> DEFINE q == p \div b
           r == p % b
<1>6. q \in Nat /\ r \in Nat /\ r < b /\ p = b*q + r
  BY <1>4
<1> HIDE DEF q, r
<1>7. (a * (k*q*(p-1))) % p = r
  <2>1. a*k \in Int /\ q*(p-1) \in Int
    BY <1>4, <1>6
  <2>2. ((q*(p-1)) * (a*k)) % p = ((q*(p-1)) * b) % p
    BY <2>1, <1>5, ModTimes DEF Mod
  <2>3. (q*(p-1)) * b = p*(p-1-r) + r
    <3>1. b*q = p - r
      BY <1>6, <1>4
    <3>2. (q*(p-1)) * b = (b*q)*(p-1)
      BY <1>6, <1>4
    <3>3. (p - r)*(p-1) = p*(p-1-r) + r
      BY <1>6
    <3> QED BY <3>1, <3>2, <3>3
  <2>4. (p*(p-1-r) + r) % p = r
    <3>1. r \in Field /\ p-1-r \in Int
      BY <1>4, <1>6 DEF Field
    <3> QED BY <3>1, ModIs
  <2>5. a * (k*q*(p-1)) = (q*(p-1)) * (a*k)
    BY <1>6
  <2> QED BY <2>2, <2>3, <2>4, <2>5
<1>8. r = 0
  <2> SUFFICES ASSUME r # 0 PROVE FALSE
    OBVIOUS
  <2> DEFINE m == k*q*(p-1)
  <2>1. m \in Nat
    BY <1>6
  <2>2. (a * m) % p = r
    BY <1>7
  <2>3. r \in 1 .. p-1
    BY <1>4, <1>6
  <2> HIDE DEF m
  <2>4. r \in T
    BY <2>1, <2>2, <2>3
  <2> HIDE DEF T
  <2> QED BY <2>4, <1>3, <1>4, <1>6
<1>9. b = 1
  <2> SUFFICES ASSUME b # 1 PROVE FALSE
    OBVIOUS
  <2>1. b \in 2 .. p-1 /\ p = b*q
    BY <1>4, <1>6, <1>8
  <2>2. q # 0 /\ q # 1
    BY <2>1, <1>6
  <2>3. q <= p-1
    <3>1. CASE q >= p
      <4>1. b*q >= 2*q
        BY <2>1, <1>6
      <4> QED BY <4>1, <3>1, <2>1, <1>6
    <3> QED BY <3>1, <1>6
  <2>4. q \in 2 .. p-1
    BY <2>2, <2>3, <1>6
  <2> QED BY <2>1, <2>4, PrimeAssumption
<1>10. Mod(a * Mod(k)) = 1 /\ Mod(k) \in 1 .. p-1
  <2>1. a \in Int /\ Mod(k) \in Field
    BY ModType
  <2>2. Mod(a * Mod(k)) = 1
    BY <2>1, <1>5, <1>9, ModTimes DEF Mod
  <2>3. Mod(k) # 0
    <3> SUFFICES ASSUME Mod(k) = 0 PROVE FALSE
      OBVIOUS
    <3>1. a * Mod(k) = 0
      BY <2>1
    <3> QED BY <3>1, <2>2, ModSmall
  <2> QED BY <2>1, <2>2, <2>3 DEF Field
<1>11. \E m \in 1 .. p-1 : (a * m) % p = 1
  BY <1>10 DEF Mod
<1> QED BY <1>11 DEF inv

\* The field has no zero divisors.
LEMMA NoZeroDivisors ==
    ASSUME NEW a \in Int, NEW b \in Int, Mod(a * b) = 0
    PROVE  Mod(a) = 0 \/ Mod(b) = 0
<1> SUFFICES ASSUME Mod(a) # 0 PROVE Mod(b) = 0
  OBVIOUS
<1>1. Mod(a) \in 1 .. p-1
  BY ModType DEF Field
<1>2. PICK c \in Int : Mod(Mod(a) * c) = 1
  <2>1. inv[Mod(a)] \in Int /\ Mod(Mod(a) * inv[Mod(a)]) = 1
    BY <1>1, InverseOf DEF Mod
  <2> QED BY <2>1
<1>3. Mod(c * a) = 1
  <2>1. Mod(c * Mod(a)) = Mod(c * a)
    BY ModTimes
  <2> QED BY <2>1, <1>2, ModType
<1>4. Mod((c*a)*b) = Mod(b)
  <2>1. Mod(b * Mod(c*a)) = Mod(b * (c*a))
    BY ModTimes
  <2>2. b * (c*a) = (c*a)*b
    OBVIOUS
  <2> QED BY <2>1, <2>2, <1>3
<1>5. Mod((c*a)*b) = 0
  <2>1. Mod(c * Mod(a*b)) = Mod(c * (a*b))
    BY ModTimes
  <2>2. c * (a*b) = (c*a)*b /\ c * 0 = 0
    OBVIOUS
  <2> QED BY <2>1, <2>2, ModSmall
<1> QED BY <1>4, <1>5

-----------------------------------------------------------------------------
(***************************************************************************)
(* Recursion: a step function and a first value determine a function.      *)
(***************************************************************************)
\* The first k values.
Begins(g, k, T, z, step) ==
    /\ g \in [0 .. k -> T] /\ g[0] = z
    /\ \A i \in 0 .. k-1 : g[i+1] = step[<<i, g[i]>>]

\* There are first values of every length.
LEMMA BeginningsExist ==
    ASSUME NEW T, NEW z \in T, NEW step \in [Nat \X T -> T], NEW k \in Nat
    PROVE  \E g : Begins(g, k, T, z, step)
<1> DEFINE B == {m \in Nat : ~ \E g : Begins(g, m, T, z, step)}
<1> SUFFICES ASSUME B # {} PROVE FALSE
  OBVIOUS
<1>1. PICK m \in B : \A j \in B : m <= j
  <2>1. B \in SUBSET Nat
    OBVIOUS
  <2> HIDE DEF B
  <2> QED BY <2>1, Least
<1>2. m # 0
  <2> SUFFICES ASSUME m = 0 PROVE FALSE
    OBVIOUS
  <2>1. Begins([i \in 0 .. 0 |-> z], 0, T, z, step)
    BY DEF Begins
  <2> QED BY <2>1
<1>3. m-1 \in Nat /\ m-1 \notin B
  BY <1>1, <1>2
<1>4. PICK g : Begins(g, m-1, T, z, step)
  BY <1>3
<1> DEFINE h == [i \in 0 .. m |-> IF i < m THEN g[i] ELSE step[<<m-1, g[m-1]>>]]
<1>5. g \in [0 .. m-1 -> T] /\ g[0] = z /\ \A i \in 0 .. m-2 : g[i+1] = step[<<i, g[i]>>]
  BY <1>4, <1>3 DEF Begins
<1>6. step[<<m-1, g[m-1]>>] \in T
  BY <1>5, <1>3
<1>7. h \in [0 .. m -> T] /\ h[0] = z
  BY <1>5, <1>6, <1>3
<1>8. ASSUME NEW i \in 0 .. m-1 PROVE h[i+1] = step[<<i, h[i]>>]
  <2>1. CASE i < m-1
    BY <2>1, <1>5, <1>3
  <2>2. CASE i = m-1
    BY <2>2, <1>3
  <2> QED BY <2>1, <2>2, <1>3
<1>9. Begins(h, m, T, z, step)
  <2> HIDE DEF h
  <2> QED BY <1>7, <1>8 DEF Begins
<1> QED BY <1>9, <1>1

\* First values of two lengths agree where both are defined.
LEMMA BeginningsAgree ==
    ASSUME NEW T, NEW z \in T, NEW step, NEW k \in Nat, NEW m \in Nat,
           NEW g, NEW h, Begins(g, k, T, z, step), Begins(h, m, T, z, step),
           NEW i \in Nat, i <= k, i <= m
    PROVE  g[i] = h[i]
<1> DEFINE B == {j \in 0 .. i : g[j] # h[j]}
<1> SUFFICES ASSUME B # {} PROVE FALSE
  OBVIOUS
<1>1. PICK j \in B : \A l \in B : j <= l
  <2>1. B \in SUBSET Nat
    OBVIOUS
  <2> HIDE DEF B
  <2> QED BY <2>1, Least
<1>2. j # 0
  BY DEF Begins
<1>3. j-1 \in 0 .. i /\ j-1 \notin B
  BY <1>1, <1>2
<1>4. g[j-1] = h[j-1]
  BY <1>3
<1>5. j-1 \in 0 .. k-1 /\ j-1 \in 0 .. m-1 /\ (j-1)+1 = j
  BY <1>3
<1>6. g[(j-1)+1] = step[<<j-1, g[j-1]>>] /\ h[(j-1)+1] = step[<<j-1, h[j-1]>>]
  <2> HIDE DEF B
  <2> QED BY <1>5 DEF Begins
<1>7. g[j] = h[j]
  BY <1>4, <1>5, <1>6
<1> QED BY <1>7

\* step takes the index and value before to the next value.
IsStep(step, T) == step \in [Nat \X T -> T]

\* g has the first value z and then follows step.
Follows(g, T, z, step) ==
    g \in [Nat -> T] /\ g[0] = z /\ \A i \in Nat : g[i+1] = step[<<i, g[i]>>]

\* A first value and a step function have a function that follows them.
LEMMA Recursion ==
    ASSUME NEW T, NEW z \in T, NEW step, IsStep(step, T)
    PROVE  \E g : Follows(g, T, z, step)
<1>0. step \in [Nat \X T -> T]
  BY DEF IsStep
<1> DEFINE part(k) == CHOOSE g : Begins(g, k, T, z, step)
           G == [k \in Nat |-> part(k)[k]]
<1>1. \A k \in Nat : Begins(part(k), k, T, z, step)
  BY <1>0, BeginningsExist
<1> HIDE DEF part
<1>2. \A k \in Nat : part(k)[k] \in T
  BY <1>1 DEF Begins
<1>3. G[0] = z
  BY <1>1 DEF Begins
<1>4. ASSUME NEW i \in Nat PROVE G[i+1] = step[<<i, G[i]>>]
  <2>1. part(i+1)[i+1] = step[<<i, part(i+1)[i]>>]
    BY <1>1 DEF Begins
  <2>2. Begins(part(i+1), i+1, T, z, step) /\ Begins(part(i), i, T, z, step) /\ i+1 \in Nat
    BY <1>1
  <2>3. part(i+1)[i] = part(i)[i]
    BY <2>2, BeginningsAgree
  <2> QED BY <2>1, <2>3
<1>5. G \in [Nat -> T]
  BY <1>2
<1>6. Follows(G, T, z, step)
  <2> HIDE DEF G
  <2> QED BY <1>3, <1>4, <1>5 DEF Follows
<1> QED BY <1>6

-----------------------------------------------------------------------------
(***************************************************************************)
(* SumFrom.                                                                *)
(***************************************************************************)
\* g is the table of the partial sums.
IsSum(g, v, lo, hi) ==
    g = [i \in lo-1 .. hi |-> IF i < lo THEN 0 ELSE (v[i] + g[i-1]) % p]

\* The partial sums of integers have a table.
LEMMA SumTable ==
    ASSUME NEW v, NEW lo \in Int, NEW hi \in Int, lo - 1 <= hi,
           \A i \in lo .. hi : v[i] \in Int
    PROVE  /\ \E g \in [lo-1 .. hi -> Field] : IsSum(g, v, lo, hi)
           /\ \E g : IsSum(g, v, lo, hi) /\ SumFrom(v, lo, hi) = g[hi]
<1> DEFINE step == [ks \in Nat \X Field |->
                      IF lo + ks[1] <= hi THEN (v[lo + ks[1]] + ks[2]) % p ELSE 0]
<1>1. step \in [Nat \X Field -> Field]
  <2> SUFFICES ASSUME NEW k \in Nat, NEW s \in Field, lo + k <= hi
               PROVE  (v[lo + k] + s) % p \in Field
    BY ModSmall
  <2>1. v[lo + k] + s \in Int
    BY DEF Field
  <2> QED BY <2>1, DivMod
<1>2. PICK f : Follows(f, Field, 0, step)
  <2> HIDE DEF step
  <2> QED BY <1>1, ModSmall, Recursion DEF IsStep
<1>0. f \in [Nat -> Field] /\ f[0] = 0 /\ \A i \in Nat : f[i+1] = step[<<i, f[i]>>]
  <2> HIDE DEF step
  <2> QED BY <1>2 DEF Follows
<1> DEFINE g == [i \in lo-1 .. hi |-> f[i - lo + 1]]
<1>3. ASSUME NEW i \in lo-1 .. hi
      PROVE  g[i] = IF i < lo THEN 0 ELSE (v[i] + g[i-1]) % p
  <2>1. CASE i < lo
    <3>1. i = lo - 1 /\ (lo - 1) - lo + 1 = 0
      BY <2>1
    <3> QED BY <3>1, <2>1, <1>0
  <2>2. CASE i >= lo
    <3>1. i - lo \in Nat /\ (i - lo) + 1 = i - lo + 1 /\ lo + (i - lo) = i /\ i - 1 \in lo-1 .. hi
      BY <2>2
    <3>2. f[i - lo + 1] = step[<<i - lo, f[i - lo]>>]
      BY <1>0, <3>1
    <3>3. step[<<i - lo, f[i - lo]>>] = (v[i] + f[i - lo]) % p
      BY <1>0, <3>1
    <3>4. g[i-1] = f[i - lo]
      <4>1. (i - 1) - lo + 1 = i - lo
        OBVIOUS
      <4> QED BY <4>1, <3>1
    <3> QED BY <2>2, <3>2, <3>3, <3>4
  <2> QED BY <2>1, <2>2
<1>4. IsSum(g, v, lo, hi)
  <2>1. g = [i \in lo-1 .. hi |-> g[i]]
    OBVIOUS
  <2> HIDE DEF g
  <2> QED BY <1>3, <2>1 DEF IsSum
<1>8. g \in [lo-1 .. hi -> Field]
  <2>1. \A i \in lo-1 .. hi : i - lo + 1 \in Nat
    OBVIOUS
  <2> QED BY <2>1, <1>0
<1> HIDE DEF g
<1>5. PICK h : h = (CHOOSE s : IsSum(s, v, lo, hi))
  OBVIOUS
<1>6. IsSum(h, v, lo, hi)
  BY <1>4, <1>5
<1>7. SumFrom(v, lo, hi) = h[hi]
  BY <1>5 DEF SumFrom, IsSum
<1> QED BY <1>4, <1>6, <1>7, <1>8

\* Any table of the partial sums ends with the sum.
LEMMA SumIs ==
    ASSUME NEW v, NEW lo \in Int, NEW hi \in Int, lo - 1 <= hi,
           \A i \in lo .. hi : v[i] \in Int,
           NEW t, t[lo-1] = 0, \A i \in lo .. hi : t[i] = Mod(v[i] + t[i-1])
    PROVE  SumFrom(v, lo, hi) = t[hi]
<1>1. PICK g : IsSum(g, v, lo, hi) /\ SumFrom(v, lo, hi) = g[hi]
  BY SumTable
<1> DEFINE B == {k \in Nat : lo - 1 + k <= hi /\ g[lo - 1 + k] # t[lo - 1 + k]}
<1>2. CASE B = {}
  <2>1. PICK k \in Nat : lo - 1 + k = hi
    <3>1. hi - lo + 1 \in Nat /\ lo - 1 + (hi - lo + 1) = hi
      OBVIOUS
    <3> QED BY <3>1
  <2>2. k \notin B
    BY <1>2
  <2>3. g[lo - 1 + k] = t[lo - 1 + k]
    BY <2>1, <2>2
  <2> QED BY <1>1, <2>1, <2>3
<1>3. CASE B # {}
  <2>1. PICK k \in B : \A j \in B : k <= j
    <3>1. B \in SUBSET Nat
      OBVIOUS
    <3> HIDE DEF B
    <3> QED BY <1>3, <3>1, Least
  <2> DEFINE i == lo - 1 + k
  <2>2. i \in lo-1 .. hi /\ g[i] # t[i]
    OBVIOUS
  <2>3. g[i] = IF i < lo THEN 0 ELSE (v[i] + g[i-1]) % p
    <3> HIDE DEF i
    <3> QED BY <1>1, <2>2 DEF IsSum
  <2>4. k # 0
    BY <2>2, <2>3
  <2>5. k-1 \in Nat /\ k-1 \notin B /\ lo - 1 + (k-1) = i - 1
    BY <2>1, <2>4
  <2>6. g[i-1] = t[i-1]
    BY <2>2, <2>5
  <2>7. i \in lo .. hi
    BY <2>2, <2>4
  <2> HIDE DEF i, B
  <2>8. g[i] = (v[i] + g[i-1]) % p
    BY <2>3, <2>7
  <2>9. t[i] = (v[i] + t[i-1]) % p
    BY <2>7 DEF Mod
  <2> QED BY <2>2, <2>6, <2>8, <2>9
<1> QED BY <1>2, <1>3

\* A sum is in the field, and has its last term added to the sum of the others.
LEMMA SumUnfold ==
    ASSUME NEW v, NEW lo \in Int, NEW hi \in Int, lo - 1 <= hi,
           \A i \in lo .. hi : v[i] \in Int
    PROVE  /\ SumFrom(v, lo, hi) \in Field
           /\ SumFrom(v, lo, hi) = IF hi < lo THEN 0 ELSE Mod(v[hi] + SumFrom(v, lo, hi-1))
<1>1. PICK g \in [lo-1 .. hi -> Field] : IsSum(g, v, lo, hi)
  BY SumTable
<1>2. g[lo-1] = 0
  BY <1>1 DEF IsSum
<1>3. \A i \in lo .. hi : g[i] = Mod(v[i] + g[i-1])
  BY <1>1 DEF IsSum, Mod
<1>4. SumFrom(v, lo, hi) = g[hi] /\ g[hi] \in Field
  <2>1. SumFrom(v, lo, hi) = g[hi]
    <3>1. PICK t : t = g
      OBVIOUS
    <3>2. t[lo-1] = 0 /\ \A i \in lo .. hi : t[i] = Mod(v[i] + t[i-1])
      BY <1>2, <1>3, <3>1
    <3> HIDE <3>1
    <3>3. SumFrom(v, lo, hi) = t[hi]
      BY <3>2, SumIs
    <3> QED BY <3>1, <3>3
  <2>2. hi \in lo-1 .. hi
    OBVIOUS
  <2> QED BY <2>1, <2>2
<1>5. CASE hi < lo
  <2>1. hi = lo - 1
    BY <1>5
  <2> QED BY <2>1, <1>2, <1>4, <1>5
<1>6. CASE hi >= lo
  <2>1. hi-1 \in Int /\ lo - 1 <= hi-1 /\ \A i \in lo .. hi-1 : i \in lo .. hi
    BY <1>6
  <2>2. SumFrom(v, lo, hi-1) = g[hi-1]
    <3>1. \A i \in lo .. hi-1 : v[i] \in Int /\ g[i] = Mod(v[i] + g[i-1])
      BY <2>1, <1>3
    <3>2. PICK k \in Int : k = hi-1 /\ lo - 1 <= k
      BY <2>1
    <3>3. \A i \in lo .. k : v[i] \in Int /\ g[i] = Mod(v[i] + g[i-1])
      BY <3>1, <3>2
    <3>4. SumFrom(v, lo, k) = g[k]
      <4>1. PICK t : t = g
        OBVIOUS
      <4>2. t[lo-1] = 0 /\ \A i \in lo .. k : v[i] \in Int /\ t[i] = Mod(v[i] + t[i-1])
        BY <1>2, <3>3, <4>1
      <4> HIDE <4>1
      <4>3. SumFrom(v, lo, k) = t[k]
        BY <4>2, <3>2, SumIs
      <4> QED BY <4>1, <4>3
    <3> QED BY <3>2, <3>4
  <2>3. hi \in lo .. hi
    BY <1>6
  <2>4. g[hi] = Mod(v[hi] + g[hi-1])
    BY <2>3, <1>3
  <2> QED BY <1>4, <1>6, <2>2, <2>4
<1> QED BY <1>5, <1>6

\* Sums are linear.
LEMMA SumLinear ==
    ASSUME NEW u, NEW w, NEW v, NEW c \in Int, NEW hi \in Nat,
           \A i \in 0 .. hi : u[i] \in Int /\ w[i] \in Int /\ v[i] \in Int,
           \A i \in 0 .. hi : Mod(v[i]) = Mod(u[i] + c * w[i])
    PROVE  SumFrom(v, 0, hi) = Mod(SumFrom(u, 0, hi) + c * SumFrom(w, 0, hi))
<1> DEFINE t == [i \in -1 .. hi |-> Mod(SumFrom(u, 0, i) + c * SumFrom(w, 0, i))]
<1>1. ASSUME NEW i \in -1 .. hi
      PROVE  /\ SumFrom(u, 0, i) \in Field /\ SumFrom(w, 0, i) \in Field
             /\ SumFrom(u, 0, i) = IF i < 0 THEN 0 ELSE Mod(u[i] + SumFrom(u, 0, i-1))
             /\ SumFrom(w, 0, i) = IF i < 0 THEN 0 ELSE Mod(w[i] + SumFrom(w, 0, i-1))
  <2>1. i \in Int /\ 0 - 1 <= i /\ \A j \in 0 .. i : u[j] \in Int /\ w[j] \in Int
    OBVIOUS
  <2> QED BY <2>1, SumUnfold
<1>2. t[0-1] = 0
  <2>1. SumFrom(u, 0, -1) = 0 /\ SumFrom(w, 0, -1) = 0
    BY <1>1
  <2> QED BY <2>1, ModSmall
<1>3. ASSUME NEW i \in 0 .. hi PROVE t[i] = Mod(v[i] + t[i-1])
  <2>1. PICK a, b \in Int : a = SumFrom(u, 0, i-1) /\ b = SumFrom(w, 0, i-1)
    <3>1. SumFrom(u, 0, i-1) \in Field /\ SumFrom(w, 0, i-1) \in Field
      BY <1>1
    <3> QED BY <3>1 DEF Field
  <2>2. PICK ui, wi, vi \in Int : ui = u[i] /\ wi = w[i] /\ vi = v[i] /\ Mod(vi) = Mod(ui + c * wi)
    OBVIOUS
  <2>3. t[i] = Mod(Mod(ui + a) + c * Mod(wi + b))
    BY <1>1, <2>1, <2>2
  <2>4. t[i-1] = Mod(a + c * b)
    BY <2>1
  <2>5. Mod(Mod(ui + a) + c * Mod(wi + b)) = Mod(Mod(ui + c * wi) + Mod(a + c * b))
    <3>1. ui + a \in Int /\ wi + b \in Int /\ ui + c * wi \in Int /\ a + c * b \in Int
      OBVIOUS
    <3>2. Mod(Mod(ui + a) + c * Mod(wi + b)) = Mod((ui + a) + c * (wi + b))
      BY <3>1, ModHorner2
    <3>3. Mod(Mod(ui + c * wi) + Mod(a + c * b)) = Mod((ui + c * wi) + (a + c * b))
      BY <3>1, ModPlus2
    <3>4. (ui + a) + c * (wi + b) = (ui + c * wi) + (a + c * b)
      OBVIOUS
    <3> QED BY <3>2, <3>3, <3>4
  <2>6. Mod(Mod(vi) + Mod(a + c * b)) = Mod(vi + Mod(a + c * b))
    <3>1. Mod(Mod(vi) + Mod(a + c * b)) = Mod(vi + (a + c * b)) /\ Mod(vi + Mod(a + c * b)) = Mod(vi + (a + c * b))
      <4>1. a + c * b \in Int
        OBVIOUS
      <4> QED BY <4>1, ModPlus, ModPlus2
    <3> QED BY <3>1
  <2> QED BY <2>2, <2>3, <2>4, <2>5, <2>6
<1>4. SumFrom(v, 0, hi) = t[hi]
  <2> HIDE DEF t
  <2> QED BY <1>2, <1>3, SumIs
<1> QED BY <1>4

\* A sum with at most one term that is not 0.
LEMMA SumSingle ==
    ASSUME NEW v, NEW hi \in Nat, \A i \in 0 .. hi : v[i] \in Int,
           NEW m \in 0 .. hi, \A i \in 0 .. hi : i # m => Mod(v[i]) = 0
    PROVE  SumFrom(v, 0, hi) = Mod(v[m])
<1> DEFINE t == [i \in -1 .. hi |-> IF i < m THEN 0 ELSE Mod(v[m])]
<1>1. t[0-1] = 0
  OBVIOUS
<1>2. ASSUME NEW i \in 0 .. hi PROVE t[i] = Mod(v[i] + t[i-1])
  <2>1. CASE i < m
    <3>1. v[i] + 0 = v[i]
      OBVIOUS
    <3> QED BY <2>1, <3>1
  <2>2. CASE i = m
    <3>1. v[m] + 0 = v[m]
      OBVIOUS
    <3> QED BY <2>2, <3>1
  <2>3. CASE i > m
    <3>1. PICK a, b \in Int : a = v[i] /\ b = v[m] /\ Mod(a) = 0
      BY <2>3
    <3>2. Mod(b + Mod(a)) = Mod(b + a) /\ Mod(a + Mod(b)) = Mod(a + b)
      BY ModPlus
    <3>3. b + 0 = b /\ a + b = b + a
      OBVIOUS
    <3> QED BY <2>3, <3>1, <3>2, <3>3
  <2> QED BY <2>1, <2>2, <2>3
<1>3. SumFrom(v, 0, hi) = t[hi]
  <2> HIDE DEF t
  <2> QED BY <1>1, <1>2, SumIs
<1> QED BY <1>3


-----------------------------------------------------------------------------
(***************************************************************************)
(* Polynomials and their coefficients.                                     *)
(***************************************************************************)
IsTop(t, v) == t = [i \in Int |-> IF i < 0 \/ v[i] # 0 THEN i ELSE t[i-1]]

\* There is a table of the highest nonzero coefficients.
LEMMA TopExists == ASSUME NEW v PROVE \E t : IsTop(t, v)
<1> DEFINE step == [kj \in Nat \X Int |-> IF v[kj[1]] # 0 THEN kj[1] ELSE kj[2]]
<1>1. PICK f : Follows(f, Int, -1, step)
  <2>1. IsStep(step, Int)
    BY DEF IsStep
  <2> HIDE DEF step
  <2> QED BY <2>1, Recursion
<1>2. f \in [Nat -> Int] /\ f[0] = -1 /\ \A i \in Nat : f[i+1] = step[<<i, f[i]>>]
  <2> HIDE DEF step
  <2> QED BY <1>1 DEF Follows
<1> DEFINE t == [i \in Int |-> IF i < 0 THEN i ELSE f[i+1]]
<1>3. ASSUME NEW i \in Int PROVE t[i] = IF i < 0 \/ v[i] # 0 THEN i ELSE t[i-1]
  <2>1. CASE i < 0
    BY <2>1
  <2>2. CASE i >= 0
    <3>1. i \in Nat /\ (i-1)+1 = i
      BY <2>2
    <3>2. f[i+1] = IF v[i] # 0 THEN i ELSE f[i]
      BY <1>2, <3>1
    <3>3. t[i-1] = f[i]
      BY <1>2, <3>1
    <3> QED BY <2>2, <3>1, <3>2, <3>3
  <2> QED BY <2>1, <2>2
<1>4. IsTop(t, v)
  <2>1. t = [i \in Int |-> t[i]]
    OBVIOUS
  <2> HIDE DEF t
  <2> QED BY <1>3, <2>1 DEF IsTop
<1> QED BY <1>4

\* It finds the highest nonzero coefficient at or below i.
LEMMA TopIs ==
    ASSUME NEW v, NEW t, IsTop(t, v), NEW d \in Int, d >= -1
    PROVE  /\ t[d] \in -1 .. d
           /\ t[d] = -1 \/ v[t[d]] # 0
           /\ \A i \in t[d]+1 .. d : v[i] = 0
<1> DEFINE Good(i) == /\ t[i] \in -1 .. i
                      /\ t[i] = -1 \/ v[t[i]] # 0
                      /\ \A j \in t[i]+1 .. i : v[j] = 0
           B == {k \in Nat : ~ Good(k-1)}
<1>0. \A i \in Int : t[i] = IF i < 0 \/ v[i] # 0 THEN i ELSE t[i-1]
  BY DEF IsTop
<1>1. CASE B = {}
  <2>1. d+1 \in Nat /\ (d+1)-1 = d
    OBVIOUS
  <2>2. PICK k \in Nat : k = d+1 /\ k-1 = d
    BY <2>1
  <2>3. Good(k-1)
    BY <1>1
  <2> HIDE DEF Good
  <2>4. Good(d)
    BY <2>2, <2>3
  <2> QED BY <2>4 DEF Good
<1>2. CASE B # {}
  <2>1. PICK k \in B : \A j \in B : k <= j
    <3>1. B \in SUBSET Nat
      OBVIOUS
    <3> HIDE DEF B
    <3> QED BY <1>2, <3>1, Least
  <2>2. k # 0
    <3> SUFFICES ASSUME k = 0 PROVE FALSE
      OBVIOUS
    <3>1. t[-1] = -1
      BY <1>0
    <3>2. Good(-1)
      BY <3>1
    <3> HIDE DEF Good
    <3>3. 0-1 = -1 /\ ~Good(k-1)
      OBVIOUS
    <3> QED BY <3>2, <3>3
  <2>3. k \in Nat /\ k-1 \in Nat /\ k-1 \notin B
    BY <2>1, <2>2
  <2> DEFINE i == k-1
  <2>4. Good(i-1)
    BY <2>3
  <2>5. i \in Nat /\ t[i] = IF v[i] # 0 THEN i ELSE t[i-1]
    BY <2>3, <1>0
  <2> HIDE DEF i
  <2>6. Good(i)
    <3>1. CASE v[i] # 0
      BY <3>1, <2>5
    <3>2. CASE v[i] = 0
      BY <3>2, <2>4, <2>5
    <3> QED BY <3>1, <3>2
  <2> HIDE DEF Good
  <2> QED BY <2>6 DEF i
<1> QED BY <1>1, <1>2

\* A polynomial has the coefficients it is made from.
LEMMA PolyIs ==
    ASSUME NEW d \in Int, d >= -1, NEW v, \A i \in 0 .. d : v[i] \in Field
    PROVE  /\ Poly(v, d) \in Polys
           /\ Len(Poly(v, d)) <= d+1
           /\ \A i \in Nat : Coeff(Poly(v, d), i) = IF i <= d THEN v[i] ELSE 0
<1>1. PICK t : t = (CHOOSE s : IsTop(s, v))
  OBVIOUS
<1>2. IsTop(t, v)
  BY <1>1, TopExists
<1>3. PICK m : m = t[d] /\ m \in -1 .. d /\ (m = -1 \/ v[m] # 0) /\ \A i \in m+1 .. d : v[i] = 0
  BY <1>2, TopIs
<1>4. Poly(v, d) = [i \in 1 .. m+1 |-> v[i-1]]
  BY <1>1, <1>3 DEF Poly, IsTop
<1>5. PICK f : f = Poly(v, d) /\ f = [i \in 1 .. m+1 |-> v[i-1]]
  BY <1>4
<1>6. f \in Seq(Field) /\ Len(f) = m+1
  <2>1. \A i \in 1 .. m+1 : v[i-1] \in Field
    BY <1>3
  <2>2. m+1 \in Nat
    BY <1>3
  <2> QED BY <1>5, <2>1, <2>2
<1>7. f \in Polys
  <2>1. CASE m = -1
    <3>1. Len(f) = 0
      BY <2>1, <1>6
    <3> QED BY <3>1, <1>6 DEF Polys
  <2>2. CASE m # -1
    <3>1. f[m+1] = v[m] /\ v[m] # 0
      BY <2>2, <1>3, <1>5
    <3> QED BY <3>1, <1>6 DEF Polys
  <2> QED BY <2>1, <2>2
<1>8. ASSUME NEW i \in Nat PROVE Coeff(f, i) = IF i <= d THEN v[i] ELSE 0
  <2>1. CASE i <= m
    <3>1. Coeff(f, i) = f[i+1]
      BY <2>1, <1>6, <1>3 DEF Coeff, Deg
    <3>2. f[i+1] = v[i]
      BY <2>1, <1>5, <1>3
    <3> QED BY <3>1, <3>2, <2>1, <1>3
  <2>2. CASE i > m
    <3>1. Coeff(f, i) = 0
      BY <2>2, <1>6, <1>3 DEF Coeff, Deg
    <3>2. i <= d => v[i] = 0
      BY <2>2, <1>3
    <3> QED BY <3>1, <3>2
  <2> QED BY <2>1, <2>2, <1>3
<1> QED BY <1>3, <1>5, <1>6, <1>7, <1>8

\* Coefficients of polynomials are in the field.
LEMMA CoeffType ==
    ASSUME NEW f \in Seq(Field)
    PROVE  /\ \A i \in Nat : Coeff(f, i) \in Field /\ (i >= Len(f) => Coeff(f, i) = 0)
           /\ \A i \in 0 .. Len(f)-1 : Coeff(f, i) = f[i+1]
           /\ Len(f) \in Nat /\ Deg(f) = Len(f) - 1
BY ModSmall DEF Coeff, Deg

\* The leading coefficient is not 0.
LEMMA Leading ==
    ASSUME NEW f \in Polys, f # <<>>
    PROVE  /\ f \in Seq(Field) /\ Len(f) \in Nat /\ Len(f) >= 1 /\ Deg(f) \in Nat
           /\ Coeff(f, Deg(f)) = f[Len(f)] /\ Coeff(f, Deg(f)) \in 1 .. p-1
<1>1. f \in Seq(Field) /\ f[Len(f)] # 0 /\ Len(f) \in Nat /\ Len(f) >= 1
  BY DEF Polys
<1>2. f[Len(f)] \in Field
  BY <1>1
<1> QED BY <1>1, <1>2 DEF Deg, Coeff, Field

\* What bounds the degree.
LEMMA DegAtMost ==
    ASSUME NEW f \in Polys, NEW d \in Int, d >= -1,
           \A i \in Nat : i > d => Coeff(f, i) = 0
    PROVE  Len(f) <= d+1 /\ Deg(f) <= d
<1>1. CASE f = <<>>
  BY <1>1 DEF Deg
<1>2. CASE f # <<>>
  <2>1. Deg(f) \in Nat /\ Coeff(f, Deg(f)) # 0 /\ Len(f) \in Nat
    BY <1>2, Leading
  <2>2. ~ (Deg(f) > d)
    BY <2>1
  <2> QED BY <2>1, <2>2 DEF Deg
<1> QED BY <1>1, <1>2

\* Two polynomials with the same coefficients are equal.
LEMMA SameCoeffs ==
    ASSUME NEW f \in Polys, NEW g \in Polys, \A i \in Nat : Coeff(f, i) = Coeff(g, i)
    PROVE  f = g
<1>1. f \in Seq(Field) /\ g \in Seq(Field) /\ Len(f) \in Nat /\ Len(g) \in Nat
  BY DEF Polys
<1>2. Len(f) <= Len(g)
  <2>1. \A i \in Nat : i > Len(g) - 1 => Coeff(f, i) = 0
    BY <1>1, CoeffType
  <2> QED BY <1>1, <2>1, DegAtMost
<1>3. Len(g) <= Len(f)
  <2>1. \A i \in Nat : i > Len(f) - 1 => Coeff(g, i) = 0
    BY <1>1, CoeffType
  <2> QED BY <1>1, <2>1, DegAtMost
<1>4. ASSUME NEW i \in 1 .. Len(f) PROVE f[i] = g[i]
  <2>1. i-1 \in 0 .. Len(f)-1 /\ i-1 \in 0 .. Len(g)-1 /\ i-1 \in Nat /\ (i-1)+1 = i
    BY <1>1, <1>2, <1>3
  <2>2. Coeff(f, i-1) = f[(i-1)+1] /\ Coeff(g, i-1) = g[(i-1)+1]
    BY <1>1, <2>1, CoeffType
  <2> QED BY <2>1, <2>2
<1>5. Len(f) = Len(g)
  BY <1>1, <1>2, <1>3
<1> QED BY <1>1, <1>4, <1>5


-----------------------------------------------------------------------------
(***************************************************************************)
(* The coefficients of sums and products.                                  *)
(***************************************************************************)
LEMMA PlusIs ==
    ASSUME NEW f \in Seq(Field), NEW g \in Seq(Field)
    PROVE  /\ Plus(f, g) \in Polys
           /\ Len(Plus(f, g)) <= Maximum(Len(f), Len(g))
           /\ \A i \in Nat : Coeff(Plus(f, g), i) = Mod(Coeff(f, i) + Coeff(g, i))
<1> DEFINE d == Maximum(Deg(f), Deg(g))
           v == [i \in 0 .. d |-> (Coeff(f, i) + Coeff(g, i)) % p]
<1>1. Plus(f, g) = Poly(v, d)
  BY DEF Plus
<1>2. d \in Int /\ d >= -1 /\ d+1 = Maximum(Len(f), Len(g)) /\ d >= Deg(f) /\ d >= Deg(g)
  BY DEF Maximum, Deg
<1>3. \A i \in Nat : Coeff(f, i) \in Field /\ Coeff(g, i) \in Field
  BY CoeffType
<1>4. \A i \in 0 .. d : v[i] = Mod(Coeff(f, i) + Coeff(g, i))
  BY DEF Mod
<1>5. \A i \in Nat : Mod(Coeff(f, i) + Coeff(g, i)) \in Field
  <2> SUFFICES ASSUME NEW i \in Nat PROVE Mod(Coeff(f, i) + Coeff(g, i)) \in Field
    OBVIOUS
  <2>1. Coeff(f, i) + Coeff(g, i) \in Int
    BY <1>3 DEF Field
  <2> QED BY <2>1, ModType
<1>6. ASSUME NEW i \in Nat, i > d PROVE Mod(Coeff(f, i) + Coeff(g, i)) = 0
  <2>1. i >= Len(f) /\ i >= Len(g)
    <3> HIDE DEF d
    <3> QED BY <1>2, <1>6 DEF Deg
  <2>2. Coeff(f, i) = 0 /\ Coeff(g, i) = 0
    BY <2>1, CoeffType
  <2> QED BY <2>2, ModSmall
<1> HIDE DEF d, v
<1>7. \A i \in 0 .. d : v[i] \in Field
  BY <1>2, <1>4, <1>5
<1>8. /\ Poly(v, d) \in Polys
      /\ Len(Poly(v, d)) <= d+1
      /\ \A i \in Nat : Coeff(Poly(v, d), i) = IF i <= d THEN v[i] ELSE 0
  BY <1>2, <1>7, PolyIs
<1>9. \A i \in Nat : i <= d => i \in 0 .. d
  BY <1>2
<1> QED BY <1>1, <1>2, <1>4, <1>6, <1>8, <1>9

\* Scale gives a polynomial with every coefficient multiplied.
LEMMA ScaleIs ==
    ASSUME NEW f \in Seq(Field), NEW c \in Int
    PROVE  /\ Scale(c, f) \in Polys
           /\ Len(Scale(c, f)) <= Len(f)
           /\ \A i \in Nat : Coeff(Scale(c, f), i) = Mod(c * Coeff(f, i))
<1> DEFINE d == Deg(f)
           v == [i \in 0 .. d |-> (c * f[i+1]) % p]
<1>1. Scale(c, f) = Poly(v, d)
  BY DEF Scale
<1>2. d \in Int /\ d >= -1 /\ d+1 = Len(f)
  BY DEF Deg
<1>3. \A i \in Nat : Coeff(f, i) \in Field
  BY CoeffType
<1>4. \A i \in 0 .. d : v[i] = Mod(c * Coeff(f, i))
  BY DEF Mod, Coeff
<1>5. \A i \in Nat : Mod(c * Coeff(f, i)) \in Field
  <2> SUFFICES ASSUME NEW i \in Nat PROVE Mod(c * Coeff(f, i)) \in Field
    OBVIOUS
  <2>1. c * Coeff(f, i) \in Int
    BY <1>3 DEF Field
  <2> QED BY <2>1, ModType
<1>6. ASSUME NEW i \in Nat, i > d PROVE Mod(c * Coeff(f, i)) = 0
  <2>1. Coeff(f, i) = 0 /\ c * 0 = 0
    BY <1>2, <1>6 DEF Coeff
  <2> QED BY <2>1, ModSmall
<1> HIDE DEF d, v
<1>7. \A i \in 0 .. d : v[i] \in Field
  BY <1>2, <1>4, <1>5
<1>8. /\ Poly(v, d) \in Polys
      /\ Len(Poly(v, d)) <= d+1
      /\ \A i \in Nat : Coeff(Poly(v, d), i) = IF i <= d THEN v[i] ELSE 0
  BY <1>2, <1>7, PolyIs
<1>9. \A i \in Nat : i <= d => i \in 0 .. d
  BY <1>2
<1> QED BY <1>1, <1>2, <1>4, <1>6, <1>8, <1>9

\* Minus gives a polynomial with the differences of the coefficients.
LEMMA MinusIs ==
    ASSUME NEW f \in Seq(Field), NEW g \in Seq(Field)
    PROVE  /\ Minus(f, g) \in Polys
           /\ Len(Minus(f, g)) <= Maximum(Len(f), Len(g))
           /\ \A i \in Nat : Coeff(Minus(f, g), i) = Mod(Coeff(f, i) - Coeff(g, i))
<1> DEFINE s == Scale(p-1, g)
<1>1. /\ s \in Polys /\ Len(s) <= Len(g) /\ s \in Seq(Field)
      /\ \A i \in Nat : Coeff(s, i) = Mod((p-1) * Coeff(g, i))
  BY ScaleIs DEF Polys
<1> HIDE DEF s
<1>2. /\ Plus(f, s) \in Polys
      /\ Len(Plus(f, s)) <= Maximum(Len(f), Len(s))
      /\ \A i \in Nat : Coeff(Plus(f, s), i) = Mod(Coeff(f, i) + Coeff(s, i))
  BY <1>1, PlusIs
<1>3. Minus(f, g) = Plus(f, s)
  BY DEF Minus, s
<1>4. Maximum(Len(f), Len(s)) <= Maximum(Len(f), Len(g)) /\ Len(f) \in Nat /\ Len(g) \in Nat /\ Len(s) \in Nat
  BY <1>1 DEF Maximum
<1>5. ASSUME NEW i \in Nat PROVE Coeff(Minus(f, g), i) = Mod(Coeff(f, i) - Coeff(g, i))
  <2>1. PICK a, b \in Int : a = Coeff(f, i) /\ b = Coeff(g, i)
    <3>1. Coeff(f, i) \in Field /\ Coeff(g, i) \in Field
      BY CoeffType
    <3> QED BY <3>1 DEF Field
  <2>2. Coeff(Minus(f, g), i) = Mod(a + Mod((p-1) * b))
    BY <1>1, <1>2, <1>3, <2>1
  <2>3. Mod(a + Mod((p-1) * b)) = Mod(a + (p-1) * b)
    <3>1. (p-1) * b \in Int
      OBVIOUS
    <3> QED BY <3>1, ModPlus
  <2>4. Mod((a - b) + p*b) = Mod(a - b)
    <3>1. a - b \in Int
      OBVIOUS
    <3> QED BY <3>1, ModShift
  <2>5. a + (p-1) * b = (a - b) + p*b
    OBVIOUS
  <2> QED BY <2>1, <2>2, <2>3, <2>4, <2>5
<1>6. Maximum(Len(f), Len(s)) \in Nat /\ Maximum(Len(f), Len(g)) \in Nat /\ Len(Plus(f, s)) \in Nat
  BY <1>2, <1>4 DEF Maximum, Polys
<1> QED BY <1>2, <1>3, <1>4, <1>5, <1>6

\* Coefficient k of a product.
Product(f, g, k) == [i \in 0 .. k |-> Coeff(f, i) * Coeff(g, k-i)]

\* The terms of a coefficient of a product are integers.
LEMMA ProductType ==
    ASSUME NEW f \in Seq(Field), NEW g \in Seq(Field), NEW k \in Nat
    PROVE  /\ \A i \in 0 .. k : Product(f, g, k)[i] \in Int
           /\ \A i \in 0 .. k : Product(f, g, k)[i] = Coeff(f, i) * Coeff(g, k-i)
           /\ SumFrom(Product(f, g, k), 0, k) \in Field
<1>1. \A i \in 0 .. k : Product(f, g, k)[i] = Coeff(f, i) * Coeff(g, k-i)
  BY DEF Product
<1>2. ASSUME NEW i \in 0 .. k PROVE Product(f, g, k)[i] \in Int
  <2>1. i \in Nat /\ k-i \in Nat
    OBVIOUS
  <2>2. Coeff(f, i) \in Field /\ Coeff(g, k-i) \in Field
    BY <2>1, CoeffType
  <2>3. Coeff(f, i) \in Int /\ Coeff(g, k-i) \in Int
    BY <2>2 DEF Field
  <2> QED BY <1>1, <2>3
<1>3. SumFrom(Product(f, g, k), 0, k) \in Field
  BY <1>2, SumUnfold
<1> QED BY <1>1, <1>2, <1>3

\* The coefficients of a product are 0 beyond its degree.
LEMMA ProductBeyond ==
    ASSUME NEW f \in Seq(Field), NEW g \in Seq(Field), NEW k \in Nat,
           f = <<>> \/ g = <<>> \/ k >= Len(f) + Len(g) - 1
    PROVE  SumFrom(Product(f, g, k), 0, k) = 0
<1>0. Len(f) \in Nat /\ Len(g) \in Nat
  OBVIOUS
<1>1. ASSUME NEW i \in 0 .. k PROVE Mod(Product(f, g, k)[i]) = 0
  <2>1. i \in Nat /\ k-i \in Nat
    OBVIOUS
  <2>2. i >= Len(f) \/ k-i >= Len(g)
    BY <1>0, <2>1
  <2>3. PICK a, b \in Int : a = Coeff(f, i) /\ b = Coeff(g, k-i) /\ (a = 0 \/ b = 0)
    <3>1. Coeff(f, i) \in Field /\ Coeff(g, k-i) \in Field /\ (Coeff(f, i) = 0 \/ Coeff(g, k-i) = 0)
      BY <2>1, <2>2, CoeffType
    <3> QED BY <3>1 DEF Field
  <2>4. Product(f, g, k)[i] = a * b
    BY <2>3, ProductType
  <2>5. a * b = 0
    BY <2>3
  <2> QED BY <2>4, <2>5, ModSmall
<1>2. 0 \in 0 .. k
  OBVIOUS
<1>3. SumFrom(Product(f, g, k), 0, k) = Mod(Product(f, g, k)[0])
  BY <1>1, <1>2, ProductType, SumSingle
<1> QED BY <1>1, <1>2, <1>3

\* Times gives a polynomial with the sums of products as coefficients.
LEMMA TimesIs ==
    ASSUME NEW f \in Seq(Field), NEW g \in Seq(Field)
    PROVE  /\ Times(f, g) \in Polys
           /\ Len(Times(f, g)) <= Maximum(0, Len(f) + Len(g) - 1)
           /\ \A k \in Nat : Coeff(Times(f, g), k) = SumFrom(Product(f, g, k), 0, k)
<1>0. Len(f) \in Nat /\ Len(g) \in Nat
  OBVIOUS
<1>1. CASE f = <<>> \/ g = <<>>
  <2>1. Times(f, g) = <<>>
    BY <1>1 DEF Times
  <2>2. Len(<<>>) = 0 /\ <<>> \in Polys
    BY DEF Polys
  <2>3. \A k \in Nat : Coeff(<<>>, k) = 0
    BY DEF Coeff, Deg
  <2>4. \A k \in Nat : SumFrom(Product(f, g, k), 0, k) = 0
    BY <1>1, ProductBeyond
  <2> QED BY <1>0, <2>1, <2>2, <2>3, <2>4 DEF Maximum
<1>2. CASE f # <<>> /\ g # <<>>
  <2> DEFINE d == Deg(f) + Deg(g)
             v == [k \in 0 .. d |-> SumFrom([i \in 0 .. k |-> Coeff(f, i) * Coeff(g, k-i)], 0, k)]
  <2>1. Times(f, g) = Poly(v, d)
    BY <1>2 DEF Times
  <2>2. d \in Nat /\ d+1 = Len(f) + Len(g) - 1
    BY <1>0, <1>2 DEF Deg
  <2>3. \A k \in 0 .. d : v[k] = SumFrom(Product(f, g, k), 0, k)
    BY DEF Product
  <2> HIDE DEF d, v
  <2>4. ASSUME NEW k \in 0 .. d PROVE v[k] \in Field
    <3>1. k \in Nat
      BY <2>2
    <3> QED BY <3>1, <2>3, ProductType
  <2>5. /\ Poly(v, d) \in Polys
        /\ Len(Poly(v, d)) <= d+1
        /\ \A i \in Nat : Coeff(Poly(v, d), i) = IF i <= d THEN v[i] ELSE 0
    BY <2>2, <2>4, PolyIs
  <2>6. \A k \in Nat : k > d => SumFrom(Product(f, g, k), 0, k) = 0
    BY <1>0, <2>2, ProductBeyond
  <2>7. \A k \in Nat : k <= d => k \in 0 .. d
    BY <2>2
  <2>8. Maximum(0, Len(f) + Len(g) - 1) = d+1
    BY <2>2 DEF Maximum
  <2>9. ASSUME NEW k \in Nat PROVE Coeff(Times(f, g), k) = SumFrom(Product(f, g, k), 0, k)
    <3>1. CASE k <= d
      BY <3>1, <2>1, <2>3, <2>5, <2>7
    <3>2. CASE k > d
      BY <3>2, <2>1, <2>2, <2>5, <2>6
    <3> QED BY <3>1, <3>2, <2>2
  <2> QED BY <2>1, <2>5, <2>8, <2>9
<1> QED BY <1>1, <1>2


-----------------------------------------------------------------------------
(***************************************************************************)
(* Evaluate.  The values of Horner's rule from each coefficient on are a   *)
(* table with one equation per coefficient, and any such table gives the   *)
(* value of the polynomial: each law of evaluation is a table.             *)
(***************************************************************************)
\* h is a table of Horner's rule for f at x: row i is the value of the
\* coefficients from i on.
Horner(f, x, h) ==
    /\ h \in [Nat -> Field]
    /\ \E m \in Nat : \A i \in Nat : i >= m => h[i] = 0
    /\ \A i \in Nat : h[i] = Mod(Coeff(f, i) + x * h[i+1])

\* w is the table that Evaluate computes.
IsVal(w, f, x) ==
    w = [i \in Nat |-> IF i > Len(f) THEN 0 ELSE (f[i] + x * w[i+1]) % p]

\* Evaluate has a table.
LEMMA ValExists ==
    ASSUME NEW f \in Seq(Field), NEW x \in Int
    PROVE  \E w : IsVal(w, f, x)
<1> DEFINE n == Len(f)
           step == [kv \in Nat \X Field |->
                      IF kv[1] < n THEN (f[n - kv[1]] + x * kv[2]) % p ELSE 0]
<1>0. n \in Nat
  OBVIOUS
<1>1. step \in [Nat \X Field -> Field]
  <2> SUFFICES ASSUME NEW k \in Nat, NEW s \in Field, k < n
               PROVE  (f[n - k] + x * s) % p \in Field
    BY ModSmall
  <2>1. f[n - k] \in Field
    OBVIOUS
  <2>2. f[n - k] + x * s \in Int
    BY <2>1 DEF Field
  <2> QED BY <2>2, DivMod
<1>2. PICK r : Follows(r, Field, 0, step)
  <2> HIDE DEF step
  <2> QED BY <1>1, ModSmall, Recursion DEF IsStep
<1>3. r \in [Nat -> Field] /\ r[0] = 0 /\ \A i \in Nat : r[i+1] = step[<<i, r[i]>>]
  <2> HIDE DEF step
  <2> QED BY <1>2 DEF Follows
<1> DEFINE w == [i \in Nat |-> IF i > n THEN 0
                               ELSE IF i = 0 THEN (f[0] + x * r[n]) % p
                               ELSE r[n + 1 - i]]
<1>4. ASSUME NEW i \in Nat
      PROVE  w[i] = IF i > n THEN 0 ELSE (f[i] + x * w[i+1]) % p
  <2>1. w[i+1] = r[n - i] \/ i > n
    <3>1. CASE i = n
      <4>1. i+1 > n /\ n - i = 0 /\ i+1 \in Nat
        BY <3>1, <1>0
      <4>2. w[i+1] = 0
        BY <4>1
      <4> QED BY <4>1, <4>2, <1>3
    <3>2. CASE i < n
      <4>1. n + 1 - (i+1) = n - i /\ i+1 # 0 /\ ~(i+1 > n) /\ i+1 \in Nat
        BY <3>2, <1>0
      <4> QED BY <4>1
    <3> QED BY <3>1, <3>2, <1>0
  <2>2. CASE i > n
    BY <2>2
  <2>3. CASE i = 0
    BY <2>1, <2>3, <1>0
  <2>4. CASE i # 0 /\ i <= n
    <3>1. n - i \in Nat /\ n - i < n /\ n - (n - i) = i /\ (n - i) + 1 = n + 1 - i
      BY <2>4, <1>0
    <3>2. r[(n - i) + 1] = step[<<n - i, r[n - i]>>]
      BY <1>3, <3>1
    <3>3. r[(n - i) + 1] = (f[i] + x * r[n - i]) % p
      BY <3>1, <3>2, <1>3
    <3> QED BY <2>1, <2>4, <3>1, <3>3
  <2> QED BY <2>2, <2>3, <2>4, <1>0
<1>5. IsVal(w, f, x)
  <2>1. w = [i \in Nat |-> w[i]]
    OBVIOUS
  <2> HIDE DEF w
  <2> QED BY <1>4, <2>1 DEF IsVal
<1> QED BY <1>5

\* The table of Evaluate is one of Horner's rule, and row 0 is the value.
LEMMA EvalHorner ==
    ASSUME NEW f \in Seq(Field), NEW x \in Int
    PROVE  \E h : /\ Horner(f, x, h) /\ h[0] = Evaluate(f, x)
                  /\ \A i \in Nat : i >= Len(f) => h[i] = 0
<1>1. PICK w : w = (CHOOSE s : IsVal(s, f, x))
  OBVIOUS
<1>2. IsVal(w, f, x)
  BY <1>1, ValExists
<1>3. Evaluate(f, x) = w[1]
  BY <1>1 DEF Evaluate, IsVal
<1> DEFINE n == Len(f)
<1>4. n \in Nat /\ \A i \in Nat : w[i] = IF i > n THEN 0 ELSE (f[i] + x * w[i+1]) % p
  <2>1. n \in Nat
    OBVIOUS
  <2>2. w = [i \in Nat |-> IF i > n THEN 0 ELSE (f[i] + x * w[i+1]) % p]
    BY <1>2 DEF IsVal
  <2> HIDE DEF n
  <2>3. ASSUME NEW i \in Nat PROVE w[i] = IF i > n THEN 0 ELSE (f[i] + x * w[i+1]) % p
    BY <2>2
  <2> QED BY <2>1, <2>3
<1> HIDE DEF n
<1>5. ASSUME NEW i \in Nat PROVE w[i+1] \in Field
  <2> DEFINE B == {k \in Nat : k <= n /\ w[n + 1 - k] \notin Field}
  <2>1. B = {}
    <3> SUFFICES ASSUME B # {} PROVE FALSE
      OBVIOUS
    <3>1. PICK k \in B : \A j \in B : k <= j
      <4>1. B \in SUBSET Nat
        OBVIOUS
      <4> HIDE DEF B
      <4> QED BY <4>1, Least
    <3>2. CASE k = 0
      <4>1. n + 1 - 0 = n + 1 /\ n + 1 \in Nat /\ n + 1 > n
        BY <1>4
      <4> QED BY <4>1, <3>2, <1>4, ModSmall
    <3>3. CASE k # 0
      <4>1. k-1 \in Nat /\ k-1 <= n /\ k-1 \notin B
        <5>1. n \in Nat
          BY <1>4
        <5>2. k-1 \in Nat /\ k-1 <= n /\ k \in Nat
          BY <5>1, <3>3
        <5>3. k-1 \notin B
          <6> HIDE DEF B
          <6> QED BY <3>1, <5>2
        <5> QED BY <5>2, <5>3
      <4>2. PICK j \in 1 .. n : j = n + 1 - k /\ j+1 = n + 1 - (k-1)
        BY <3>3, <1>4
      <4>3. w[j+1] \in Field /\ w[j] \notin Field
        BY <4>1, <4>2
      <4> HIDE DEF B
      <4>4. j \in Nat /\ ~(j > n) /\ f[j] \in Field
        BY <1>4, <4>2 DEF n
      <4>5. f[j] + x * w[j+1] \in Int
        BY <4>3, <4>4 DEF Field
      <4>6. w[j] = (f[j] + x * w[j+1]) % p
        BY <1>4, <4>4
      <4> QED BY <4>3, <4>5, <4>6, DivMod
    <3> QED BY <3>2, <3>3
  <2>2. CASE i+1 > n
    BY <2>2, <1>4, ModSmall
  <2>3. CASE i+1 <= n
    <3>1. PICK k \in Nat : k = n - i /\ k <= n /\ n + 1 - k = i+1
      BY <2>3, <1>4
    <3> QED BY <2>1, <3>1
  <2> QED BY <2>2, <2>3, <1>4
<1> DEFINE h == [i \in Nat |-> w[i+1]]
<1>6. h \in [Nat -> Field]
  BY <1>5
<1>7. \A i \in Nat : i >= n => h[i] = 0
  BY <1>4
<1>8. ASSUME NEW i \in Nat PROVE h[i] = Mod(Coeff(f, i) + x * h[i+1])
  <2>1. CASE i >= n
    <3>1. h[i] = 0 /\ h[i+1] = 0 /\ Coeff(f, i) = 0
      <4>1. i+1 >= n /\ i+1 \in Nat
        BY <2>1, <1>4
      <4>2. Coeff(f, i) = 0
        BY <2>1, CoeffType DEF n
      <4> HIDE DEF h
      <4> QED BY <4>1, <4>2, <2>1, <1>7
    <3>2. 0 + x * 0 = 0
      OBVIOUS
    <3> QED BY <3>1, <3>2, ModSmall
  <2>2. CASE i < n
    <3>1. Coeff(f, i) = f[i+1]
      BY <2>2, <1>4, CoeffType DEF n
    <3>2. h[i] = (f[i+1] + x * w[(i+1)+1]) % p
      BY <2>2, <1>4
    <3>3. h[i+1] = w[(i+1)+1]
      OBVIOUS
    <3> QED BY <3>1, <3>2, <3>3 DEF Mod
  <2> QED BY <2>1, <2>2, <1>4
<1>9. h[0] = w[1]
  OBVIOUS
<1>10. Horner(f, x, h)
  <2> HIDE DEF h
  <2> QED BY <1>4, <1>6, <1>7, <1>8 DEF Horner
<1>11. \A i \in Nat : i >= Len(f) => h[i] = 0
  <2> HIDE DEF h
  <2> QED BY <1>7 DEF n
<1> HIDE DEF h
<1> QED BY <1>3, <1>9, <1>10, <1>11

\* All tables of Horner's rule are the same.
LEMMA HornerAgree ==
    ASSUME NEW f, NEW x, NEW g, NEW h, Horner(f, x, g), Horner(f, x, h)
    PROVE  g[0] = h[0]
<1>1. PICK k \in Nat : \A i \in Nat : i >= k => g[i] = 0
  BY DEF Horner
<1>2. PICK m \in Nat : \A i \in Nat : i >= m => h[i] = 0
  BY DEF Horner
<1>3. PICK n \in Nat : n = k + m
  OBVIOUS
<1> DEFINE B == {j \in Nat : j <= n /\ g[n - j] # h[n - j]}
<1> SUFFICES ASSUME g[0] # h[0] PROVE FALSE
  OBVIOUS
<1>4. n \in B
  <2>1. n - n = 0 /\ n <= n
    OBVIOUS
  <2> QED BY <2>1
<1>5. PICK j \in B : \A l \in B : j <= l
  <2>1. B \in SUBSET Nat
    OBVIOUS
  <2> HIDE DEF B
  <2> QED BY <2>1, <1>4, Least
<1>6. j # 0
  <2> SUFFICES ASSUME j = 0 PROVE FALSE
    OBVIOUS
  <2>1. g[n] = 0 /\ h[n] = 0 /\ n - 0 = n
    BY <1>1, <1>2, <1>3
  <2> QED BY <2>1
<1>7. j-1 \in Nat /\ j-1 <= n /\ j-1 \notin B
  BY <1>5, <1>6
<1>8. PICK i \in Nat : i = n - j /\ i+1 = n - (j-1)
  OBVIOUS
<1>9. g[i+1] = h[i+1] /\ g[i] # h[i]
  BY <1>7, <1>8
<1> HIDE DEF B
<1> QED BY <1>9 DEF Horner

\* A table of Horner's rule starts with the value.
LEMMA EvalIs ==
    ASSUME NEW f \in Seq(Field), NEW x \in Int, NEW h, Horner(f, x, h)
    PROVE  Evaluate(f, x) = h[0]
BY EvalHorner, HornerAgree

\* Values are in the field.
LEMMA EvalType ==
    ASSUME NEW f \in Seq(Field), NEW x \in Int
    PROVE  Evaluate(f, x) \in Field /\ Evaluate(f, x) \in Int
<1>1. PICK h : Horner(f, x, h) /\ h[0] = Evaluate(f, x)
  BY EvalHorner
<1>2. h[0] \in Field
  BY <1>1 DEF Horner
<1> QED BY <1>1, <1>2, FieldInt

\* Evaluation is linear.
LEMMA EvalLinear ==
    ASSUME NEW f \in Seq(Field), NEW g \in Seq(Field), NEW e \in Seq(Field),
           NEW c \in Int, NEW x \in Int,
           \A i \in Nat : Coeff(e, i) = Mod(Coeff(f, i) + c * Coeff(g, i))
    PROVE  Evaluate(e, x) = Mod(Evaluate(f, x) + c * Evaluate(g, x))
<1>1. PICK hf : Horner(f, x, hf) /\ hf[0] = Evaluate(f, x)
  BY EvalHorner
<1>2. PICK hg : Horner(g, x, hg) /\ hg[0] = Evaluate(g, x)
  BY EvalHorner
<1>3. \A i \in Nat : hf[i] \in Field /\ hg[i] \in Field /\ hf[i] \in Int /\ hg[i] \in Int
  <2>1. hf \in [Nat -> Field] /\ hg \in [Nat -> Field]
    BY <1>1, <1>2 DEF Horner
  <2> QED BY <2>1, FieldInt
<1> DEFINE h == [i \in Nat |-> Mod(hf[i] + c * hg[i])]
<1>4. h \in [Nat -> Field]
  <2> SUFFICES ASSUME NEW i \in Nat PROVE Mod(hf[i] + c * hg[i]) \in Field
    OBVIOUS
  <2>1. hf[i] + c * hg[i] \in Int
    BY <1>3
  <2> QED BY <2>1, ModType
<1>5. \E m \in Nat : \A i \in Nat : i >= m => h[i] = 0
  <2>1. PICK k \in Nat : \A i \in Nat : i >= k => hf[i] = 0
    BY <1>1 DEF Horner
  <2>2. PICK m \in Nat : \A i \in Nat : i >= m => hg[i] = 0
    BY <1>2 DEF Horner
  <2>3. ASSUME NEW i \in Nat, i >= k + m PROVE h[i] = 0
    <3>1. hf[i] = 0 /\ hg[i] = 0
      BY <2>1, <2>2, <2>3
    <3>2. 0 + c * 0 = 0
      OBVIOUS
    <3> QED BY <3>1, <3>2, ModSmall
  <2>4. k + m \in Nat
    OBVIOUS
  <2> HIDE DEF h
  <2> QED BY <2>3, <2>4
<1>6. ASSUME NEW i \in Nat PROVE h[i] = Mod(Coeff(e, i) + x * h[i+1])
  <2>1. PICK a, b, u, w \in Int : a = Coeff(f, i) /\ b = Coeff(g, i) /\ u = hf[i+1] /\ w = hg[i+1]
    <3>1. Coeff(f, i) \in Field /\ Coeff(g, i) \in Field /\ i+1 \in Nat
      BY CoeffType
    <3> QED BY <3>1, <1>3, FieldInt
  <2>2. hf[i] = Mod(a + x * u) /\ hg[i] = Mod(b + x * w)
    BY <1>1, <1>2, <2>1 DEF Horner
  <2>3. h[i] = Mod(Mod(a + x * u) + c * Mod(b + x * w))
    BY <2>2
  <2>4. h[i+1] = Mod(u + c * w)
    BY <2>1
  <2> HIDE DEF h
  <2>5. a + x * u \in Int /\ b + x * w \in Int /\ a + c * b \in Int /\ u + c * w \in Int
    OBVIOUS
  <2>6. Mod(Mod(a + x * u) + c * Mod(b + x * w)) = Mod((a + x * u) + c * (b + x * w))
    BY <2>5, ModHorner2
  <2>7. Mod(Mod(a + c * b) + x * Mod(u + c * w)) = Mod((a + c * b) + x * (u + c * w))
    BY <2>5, ModHorner2
  <2>8. (a + x * u) + c * (b + x * w) = (a + c * b) + x * (u + c * w)
    OBVIOUS
  <2> QED BY <2>1, <2>3, <2>4, <2>6, <2>7, <2>8
<1>7. h[0] = Mod(hf[0] + c * hg[0])
  OBVIOUS
<1>8. Horner(e, x, h)
  <2> HIDE DEF h
  <2> QED BY <1>4, <1>5, <1>6 DEF Horner
<1> HIDE DEF h
<1> QED BY <1>1, <1>2, <1>7, <1>8, EvalIs


\* The zero polynomial is 0 everywhere.
LEMMA EvalZero == ASSUME NEW x \in Int PROVE Evaluate(<<>>, x) = 0
<1> DEFINE h == [i \in Nat |-> 0]
<1>1. ASSUME NEW i \in Nat PROVE h[i] = Mod(Coeff(<<>>, i) + x * h[i+1])
  <2>1. Coeff(<<>>, i) = 0 /\ 0 + x * 0 = 0
    BY DEF Coeff, Deg
  <2> QED BY <2>1, ModSmall
<1>2. h \in [Nat -> Field] /\ 0 \in Nat /\ \A i \in Nat : i >= 0 => h[i] = 0
  BY ModSmall
<1>3. h[0] = 0
  OBVIOUS
<1> HIDE DEF h
<1>4. Horner(<<>>, x, h)
  BY <1>1, <1>2 DEF Horner
<1>5. <<>> \in Seq(Field)
  OBVIOUS
<1> QED BY <1>3, <1>4, <1>5, EvalIs

\* The value of a sum is the sum of the values.
LEMMA EvalPlus ==
    ASSUME NEW f \in Seq(Field), NEW g \in Seq(Field), NEW x \in Int
    PROVE  Evaluate(Plus(f, g), x) = Mod(Evaluate(f, x) + Evaluate(g, x))
<1>1. Plus(f, g) \in Seq(Field) /\ \A i \in Nat : Coeff(Plus(f, g), i) = Mod(Coeff(f, i) + Coeff(g, i))
  BY PlusIs DEF Polys
<1>2. ASSUME NEW i \in Nat PROVE Coeff(Plus(f, g), i) = Mod(Coeff(f, i) + 1 * Coeff(g, i))
  <2>1. Coeff(g, i) \in Int
    BY CoeffType, FieldInt
  <2>2. 1 * Coeff(g, i) = Coeff(g, i)
    BY <2>1
  <2> QED BY <1>1, <2>2
<1>3. Evaluate(Plus(f, g), x) = Mod(Evaluate(f, x) + 1 * Evaluate(g, x))
  BY <1>1, <1>2, EvalLinear
<1>4. Evaluate(g, x) \in Int
  BY EvalType
<1>5. 1 * Evaluate(g, x) = Evaluate(g, x)
  BY <1>4
<1> QED BY <1>3, <1>5

\* The value of a difference is the difference of the values.
LEMMA EvalMinus ==
    ASSUME NEW f \in Seq(Field), NEW g \in Seq(Field), NEW x \in Int
    PROVE  Evaluate(Minus(f, g), x) = Mod(Evaluate(f, x) - Evaluate(g, x))
<1>1. Minus(f, g) \in Seq(Field) /\ \A i \in Nat : Coeff(Minus(f, g), i) = Mod(Coeff(f, i) - Coeff(g, i))
  BY MinusIs DEF Polys
<1>2. ASSUME NEW i \in Nat PROVE Coeff(Minus(f, g), i) = Mod(Coeff(f, i) + (-1) * Coeff(g, i))
  <2>1. Coeff(f, i) \in Int /\ Coeff(g, i) \in Int
    BY CoeffType, FieldInt
  <2>2. Coeff(f, i) + (-1) * Coeff(g, i) = Coeff(f, i) - Coeff(g, i)
    BY <2>1
  <2> QED BY <1>1, <2>2
<1>3. Evaluate(Minus(f, g), x) = Mod(Evaluate(f, x) + (-1) * Evaluate(g, x))
  <2>1. -1 \in Int
    OBVIOUS
  <2> QED BY <1>1, <1>2, <2>1, EvalLinear
<1>4. Evaluate(f, x) \in Int /\ Evaluate(g, x) \in Int
  BY EvalType
<1>5. Evaluate(f, x) + (-1) * Evaluate(g, x) = Evaluate(f, x) - Evaluate(g, x)
  BY <1>4
<1> QED BY <1>3, <1>5

\* The value of a multiple is the multiple of the value.
LEMMA EvalScale ==
    ASSUME NEW f \in Seq(Field), NEW c \in Int, NEW x \in Int
    PROVE  Evaluate(Scale(c, f), x) = Mod(c * Evaluate(f, x))
<1>1. Scale(c, f) \in Seq(Field) /\ \A i \in Nat : Coeff(Scale(c, f), i) = Mod(c * Coeff(f, i))
  BY ScaleIs DEF Polys
<1>0. PICK z \in Seq(Field) : z = <<>>
  <2>1. <<>> \in Seq(Field)
    OBVIOUS
  <2> QED BY <2>1, Zenon
<1>2. ASSUME NEW i \in Nat PROVE Coeff(Scale(c, f), i) = Mod(Coeff(z, i) + c * Coeff(f, i))
  <2>1. Coeff(f, i) \in Int
    BY CoeffType, FieldInt
  <2>2. Coeff(z, i) = 0
    BY <1>0 DEF Coeff, Deg
  <2>3. 0 + c * Coeff(f, i) = c * Coeff(f, i)
    BY <2>1
  <2> QED BY <1>1, <2>2, <2>3
<1>3. Evaluate(Scale(c, f), x) = Mod(Evaluate(z, x) + c * Evaluate(f, x))
  BY <1>1, <1>2, EvalLinear
<1>4. Evaluate(f, x) \in Int /\ Evaluate(z, x) = 0
  BY <1>0, EvalType, EvalZero
<1>5. 0 + c * Evaluate(f, x) = c * Evaluate(f, x)
  BY <1>4
<1> QED BY <1>3, <1>4, <1>5

\* Row k of the table for a product: the coefficients of f below k times the
\* rows of g, and row k of f times the value of g.
Convolution(f, hg, k) == [i \in 0 .. k |-> Coeff(f, i) * hg[k-i]]

\* The terms of a row are integers.
LEMMA ConvolutionType ==
    ASSUME NEW f \in Seq(Field), NEW hg \in [Nat -> Field], NEW k \in Nat
    PROVE  /\ \A i \in 0 .. k : /\ Convolution(f, hg, k)[i] = Coeff(f, i) * hg[k-i]
                                /\ Convolution(f, hg, k)[i] \in Int
           /\ SumFrom(Convolution(f, hg, k), 0, k) \in Int
           /\ SumFrom(Convolution(f, hg, k), 0, k-1) \in Int
           /\ SumFrom(Convolution(f, hg, k), 0, k)
                = Mod(Coeff(f, k) * hg[0] + SumFrom(Convolution(f, hg, k), 0, k-1))
           /\ k = 0 => SumFrom(Convolution(f, hg, k), 0, k-1) = 0
<1>1. ASSUME NEW i \in 0 .. k
      PROVE  Convolution(f, hg, k)[i] = Coeff(f, i) * hg[k-i] /\ Convolution(f, hg, k)[i] \in Int
  <2>1. i \in Nat /\ k-i \in Nat
    OBVIOUS
  <2>2. Coeff(f, i) \in Int /\ hg[k-i] \in Int
    BY <2>1, CoeffType, FieldInt
  <2>3. Convolution(f, hg, k)[i] = Coeff(f, i) * hg[k-i]
    BY DEF Convolution
  <2> QED BY <2>2, <2>3
<1>2. \A i \in 0 .. k-1 : i \in 0 .. k
  OBVIOUS
<1>3. /\ SumFrom(Convolution(f, hg, k), 0, k) \in Field
      /\ SumFrom(Convolution(f, hg, k), 0, k)
           = Mod(Convolution(f, hg, k)[k] + SumFrom(Convolution(f, hg, k), 0, k-1))
  <2>1. \A i \in 0 .. k : Convolution(f, hg, k)[i] \in Int
    BY <1>1
  <2>2. ~ (k < 0) /\ 0 - 1 <= k /\ k \in Int
    OBVIOUS
  <2> QED BY <2>1, <2>2, SumUnfold
<1>4. /\ SumFrom(Convolution(f, hg, k), 0, k-1) \in Field
      /\ k-1 < 0 => SumFrom(Convolution(f, hg, k), 0, k-1) = 0
  <2>1. \A i \in 0 .. k-1 : Convolution(f, hg, k)[i] \in Int
    BY <1>1, <1>2
  <2>2. 0 - 1 <= k-1 /\ k-1 \in Int
    OBVIOUS
  <2> QED BY <2>1, <2>2, SumUnfold
<1>5. k \in 0 .. k /\ k-k = 0
  OBVIOUS
<1>6. Convolution(f, hg, k)[k] = Coeff(f, k) * hg[0]
  BY <1>1, <1>5
<1> QED BY <1>1, <1>3, <1>4, <1>6, FieldInt

\* v is u + c * w, entry by entry, modulo p, up to hi.
IsCombination(v, u, c, w, hi) ==
    /\ c \in Int /\ hi \in Nat
    /\ \A i \in 0 .. hi : u[i] \in Int /\ w[i] \in Int /\ v[i] \in Int
    /\ \A i \in 0 .. hi : Mod(v[i]) = Mod(u[i] + c * w[i])

\* Then the sum of v is that of u plus c times that of w.
LEMMA SumCombination ==
    ASSUME NEW v, NEW u, NEW c, NEW w, NEW hi, IsCombination(v, u, c, w, hi)
    PROVE  SumFrom(v, 0, hi) = Mod(SumFrom(u, 0, hi) + c * SumFrom(w, 0, hi))
BY SumLinear DEF IsCombination

\* From one row of the convolution to the next.
LEMMA ConvolutionStep ==
    ASSUME NEW f \in Seq(Field), NEW g \in Seq(Field), NEW x \in Int,
           NEW hg, Horner(g, x, hg), NEW k \in Nat
    PROVE  SumFrom(Convolution(f, hg, k), 0, k)
             = Mod(SumFrom(Product(f, g, k), 0, k) + x * SumFrom(Convolution(f, hg, k+1), 0, k))
<1> DEFINE v == Convolution(f, hg, k)
           w == Convolution(f, hg, k+1)
           u == Product(f, g, k)
<1>0. hg \in [Nat -> Field] /\ k+1 \in Nat
  BY DEF Horner
<1>1. \A i \in 0 .. k : v[i] = Coeff(f, i) * hg[k-i] /\ v[i] \in Int
  BY <1>0, ConvolutionType
<1>2. \A i \in 0 .. k+1 : w[i] = Coeff(f, i) * hg[k+1-i] /\ w[i] \in Int
  <2>1. PICK m \in Nat : m = k+1
    BY <1>0
  <2>2. \A i \in 0 .. m : /\ Convolution(f, hg, m)[i] = Coeff(f, i) * hg[m-i]
                         /\ Convolution(f, hg, m)[i] \in Int
    BY <1>0, ConvolutionType
  <2> QED BY <2>1, <2>2
<1>3. \A i \in 0 .. k : u[i] = Coeff(f, i) * Coeff(g, k-i) /\ u[i] \in Int
  BY ProductType
<1> HIDE DEF u, v, w
<1>4. ASSUME NEW i \in 0 .. k PROVE Mod(v[i]) = Mod(u[i] + x * w[i])
  <2>1. i \in Nat /\ k-i \in Nat /\ (k-i)+1 = k+1-i /\ i \in 0 .. k+1
    OBVIOUS
  <2>2. PICK a \in Int : a = Coeff(f, i)
    BY <2>1, CoeffType, FieldInt
  <2>3. PICK b \in Int : b = Coeff(g, k-i)
    BY <2>1, CoeffType, FieldInt
  <2>4. PICK c \in Int : c = hg[k+1-i]
    BY <1>0, <2>1, FieldInt
  <2>5. hg[k-i] = Mod(b + x * c)
    BY <2>1, <2>3, <2>4 DEF Horner
  <2>6. v[i] = a * Mod(b + x * c) /\ u[i] = a * b /\ w[i] = a * c
    BY <1>1, <1>2, <1>3, <2>1, <2>2, <2>3, <2>4, <2>5
  <2>7. Mod(a * Mod(b + x * c)) = Mod(a * (b + x * c))
    <3>1. b + x * c \in Int
      OBVIOUS
    <3> QED BY <3>1, ModTimes
  <2>8. a * (b + x * c) = a * b + x * (a * c)
    OBVIOUS
  <2> QED BY <2>6, <2>7, <2>8
<1>5. \A i \in 0 .. k : u[i] \in Int /\ w[i] \in Int /\ v[i] \in Int
  BY <1>1, <1>2, <1>3
<1>6. SumFrom(v, 0, k) = Mod(SumFrom(u, 0, k) + x * SumFrom(w, 0, k))
  <2>1. PICK r : r = u
    OBVIOUS
  <2>2. PICK s : s = v
    OBVIOUS
  <2>3. PICK t : t = w
    OBVIOUS
  <2>4. /\ \A i \in 0 .. k : r[i] \in Int /\ t[i] \in Int /\ s[i] \in Int
        /\ \A i \in 0 .. k : Mod(s[i]) = Mod(r[i] + x * t[i])
    BY <1>4, <1>5, <2>1, <2>2, <2>3
  <2> HIDE <2>1, <2>2, <2>3
  <2>5. IsCombination(s, r, x, t, k)
    BY <2>4 DEF IsCombination
  <2>6. SumFrom(s, 0, k) = Mod(SumFrom(r, 0, k) + x * SumFrom(t, 0, k))
    BY <2>5, SumCombination
  <2> QED BY <2>1, <2>2, <2>3, <2>6
<1> QED BY <1>6 DEF u, v, w

\* The value of a product is the product of the values (NTL's operator* of two
\* ZZ_pX, which rs_decode and find_roots compute with).
THEOREM EvalTimes ==
    ASSUME NEW f \in Seq(Field), NEW g \in Seq(Field), NEW x \in Int
    PROVE  Evaluate(Times(f, g), x) = Mod(Evaluate(f, x) * Evaluate(g, x))
<1>1. PICK hf : Horner(f, x, hf) /\ hf[0] = Evaluate(f, x)
  BY EvalHorner
<1>2. PICK hg : Horner(g, x, hg) /\ hg[0] = Evaluate(g, x)
  BY EvalHorner
<1>3. hf \in [Nat -> Field] /\ hg \in [Nat -> Field]
  BY <1>1, <1>2 DEF Horner
<1> DEFINE h == [k \in Nat |-> Mod(SumFrom(Convolution(f, hg, k), 0, k-1) + hf[k] * hg[0])]
<1>4. \A k \in Nat : hf[k] \in Int /\ hg[k] \in Int
  BY <1>3, FieldInt
<1>5. h \in [Nat -> Field]
  <2> SUFFICES ASSUME NEW k \in Nat
               PROVE  Mod(SumFrom(Convolution(f, hg, k), 0, k-1) + hf[k] * hg[0]) \in Field
    OBVIOUS
  <2>1. SumFrom(Convolution(f, hg, k), 0, k-1) + hf[k] * hg[0] \in Int
    <3>1. SumFrom(Convolution(f, hg, k), 0, k-1) \in Int
      BY <1>3, ConvolutionType
    <3>2. hf[k] * hg[0] \in Int
      BY <1>4
    <3> QED BY <3>1, <3>2
  <2> QED BY <2>1, ModType
<1>6. \E m \in Nat : \A k \in Nat : k >= m => h[k] = 0
  <2>1. PICK m1 \in Nat : \A i \in Nat : i >= m1 => hf[i] = 0
    BY <1>1 DEF Horner
  <2>2. PICK m2 \in Nat : \A i \in Nat : i >= m2 => hg[i] = 0
    BY <1>2 DEF Horner
  <2>3. PICK n \in Nat : n = Len(f)
    OBVIOUS
  <2>4. ASSUME NEW k \in Nat, k >= m1 + m2 + n + 1 PROVE h[k] = 0
    <3>1. hf[k] = 0
      BY <2>1, <2>4
    <3>2. ASSUME NEW i \in 0 .. k-1 PROVE Mod(Convolution(f, hg, k)[i]) = 0
      <4>1. i \in 0 .. k /\ i \in Nat /\ k-i \in Nat /\ (i >= n \/ k-i >= m2)
        BY <2>4
      <4>2. PICK a \in Int : a = Coeff(f, i)
        BY <4>1, CoeffType, FieldInt
      <4>3. PICK b \in Int : b = hg[k-i]
        BY <4>1, <1>4
      <4>4. a = 0 \/ b = 0
        BY <4>1, <4>2, <4>3, <2>2, <2>3, CoeffType
      <4>5. Convolution(f, hg, k)[i] = a * b
        BY <4>1, <4>2, <4>3, <1>3, ConvolutionType
      <4>6. a * b = 0
        BY <4>4
      <4> QED BY <4>5, <4>6, ModSmall
    <3>3. SumFrom(Convolution(f, hg, k), 0, k-1) = 0
      <4>1. k-1 \in Nat /\ 0 \in 0 .. k-1 /\ \A i \in 0 .. k-1 : i \in 0 .. k
        BY <2>4
      <4>2. \A i \in 0 .. k-1 : Convolution(f, hg, k)[i] \in Int
        BY <4>1, <1>3, ConvolutionType
      <4>3. SumFrom(Convolution(f, hg, k), 0, k-1) = Mod(Convolution(f, hg, k)[0])
        BY <4>1, <4>2, <3>2, SumSingle
      <4> QED BY <4>1, <4>3, <3>2
    <3>4. 0 + 0 * hg[0] = 0
      BY <1>4
    <3> QED BY <3>1, <3>3, <3>4, ModSmall
  <2>5. m1 + m2 + n + 1 \in Nat
    OBVIOUS
  <2> HIDE DEF h
  <2> QED BY <2>4, <2>5
<1>7. ASSUME NEW k \in Nat PROVE h[k] = Mod(Coeff(Times(f, g), k) + x * h[k+1])
  <2>1. PICK A \in Int : A = SumFrom(Convolution(f, hg, k), 0, k-1)
    BY <1>3, ConvolutionType
  <2>2. PICK S \in Int : S = SumFrom(Convolution(f, hg, k), 0, k)
    BY <1>3, ConvolutionType
  <2>3. PICK C \in Int : C = SumFrom(Product(f, g, k), 0, k)
    BY ProductType, FieldInt
  <2>4. k+1 \in Nat /\ (k+1)-1 = k
    OBVIOUS
  <2>5. PICK B \in Int : B = SumFrom(Convolution(f, hg, k+1), 0, k)
    <3>1. SumFrom(Convolution(f, hg, k+1), 0, (k+1)-1) \in Int
      BY <1>3, <2>4, ConvolutionType
    <3> QED BY <3>1, <2>4
  <2>6. PICK a \in Int : a = Coeff(f, k)
    BY CoeffType, FieldInt
  <2>7. PICK b \in Int : b = hg[0]
    BY <1>4
  <2>8. PICK c \in Int : c = hf[k+1]
    BY <1>4, <2>4
  <2>9. hf[k] = Mod(a + x * c)
    BY <1>1, <2>6, <2>8 DEF Horner
  <2>10. S = Mod(a * b + A) /\ S = Mod(C + x * B)
    <3>1. SumFrom(Convolution(f, hg, k), 0, k)
            = Mod(Coeff(f, k) * hg[0] + SumFrom(Convolution(f, hg, k), 0, k-1))
      BY <1>3, ConvolutionType
    <3>2. SumFrom(Convolution(f, hg, k), 0, k)
            = Mod(SumFrom(Product(f, g, k), 0, k) + x * SumFrom(Convolution(f, hg, k+1), 0, k))
      BY <1>2, ConvolutionStep
    <3> QED BY <3>1, <3>2, <2>1, <2>2, <2>3, <2>5, <2>6, <2>7
  <2>11. h[k] = Mod(A + b * Mod(a + x * c))
    <3>1. h[k] = Mod(A + Mod(a + x * c) * b)
      BY <2>1, <2>7, <2>9
    <3>2. Mod(a + x * c) \in Int
      <4>1. a + x * c \in Int
        OBVIOUS
      <4> QED BY <4>1, ModType
    <3>3. Mod(a + x * c) * b = b * Mod(a + x * c)
      BY <3>2
    <3> QED BY <3>1, <3>3
  <2>12. h[k+1] = Mod(B + c * b)
    BY <2>4, <2>5, <2>7, <2>8
  <2>13. Coeff(Times(f, g), k) = C
    BY <2>3, TimesIs
  <2> HIDE DEF h
  <2>14. Mod(A + b * Mod(a + x * c)) = Mod(A + b * (a + x * c))
    <3>1. a + x * c \in Int
      OBVIOUS
    <3> QED BY <3>1, ModHorner
  <2>15. Mod(C + x * Mod(B + c * b)) = Mod(C + x * (B + c * b))
    <3>1. B + c * b \in Int
      OBVIOUS
    <3> QED BY <3>1, ModHorner
  <2>16. Mod(x * (c * b) + Mod(a * b + A)) = Mod(x * (c * b) + (a * b + A))
    <3>1. x * (c * b) \in Int /\ a * b + A \in Int
      OBVIOUS
    <3> QED BY <3>1, ModPlus
  <2>17. Mod(x * (c * b) + Mod(C + x * B)) = Mod(x * (c * b) + (C + x * B))
    <3>1. x * (c * b) \in Int /\ C + x * B \in Int
      OBVIOUS
    <3> QED BY <3>1, ModPlus
  <2>18. A + b * (a + x * c) = x * (c * b) + (a * b + A)
    OBVIOUS
  <2>19. C + x * (B + c * b) = x * (c * b) + (C + x * B)
    OBVIOUS
  <2> QED BY <2>10, <2>11, <2>12, <2>13, <2>14, <2>15, <2>16, <2>17, <2>18, <2>19
<1>8. h[0] = Mod(hf[0] * hg[0])
  <2>1. SumFrom(Convolution(f, hg, 0), 0, 0-1) = 0
    BY <1>3, ConvolutionType
  <2>2. hf[0] * hg[0] \in Int
    BY <1>4
  <2>3. 0 + hf[0] * hg[0] = hf[0] * hg[0]
    BY <2>2
  <2> QED BY <2>1, <2>3
<1>9. Horner(Times(f, g), x, h)
  <2> HIDE DEF h
  <2> QED BY <1>5, <1>6, <1>7 DEF Horner
<1> HIDE DEF h
<1>10. Times(f, g) \in Seq(Field)
  BY TimesIs DEF Polys
<1> QED BY <1>1, <1>2, <1>8, <1>9, <1>10, EvalIs

-----------------------------------------------------------------------------
(***************************************************************************)
(* Degrees and roots.                                                      *)
(***************************************************************************)
LEMMA TimesDegree ==
    ASSUME NEW f \in Polys, NEW g \in Polys, f # <<>>, g # <<>>
    PROVE  /\ Times(f, g) # <<>>
           /\ Deg(Times(f, g)) = Deg(f) + Deg(g)
           /\ Coeff(Times(f, g), Deg(f) + Deg(g)) = Mod(Coeff(f, Deg(f)) * Coeff(g, Deg(g)))
<1>1. /\ f \in Seq(Field) /\ Len(f) \in Nat /\ Len(f) >= 1 /\ Deg(f) \in Nat
      /\ Coeff(f, Deg(f)) \in 1 .. p-1
  BY Leading
<1>2. /\ g \in Seq(Field) /\ Len(g) \in Nat /\ Len(g) >= 1 /\ Deg(g) \in Nat
      /\ Coeff(g, Deg(g)) \in 1 .. p-1
  BY Leading
<1>3. PICK m \in Nat : m = Deg(f)
  BY <1>1
<1>4. PICK n \in Nat : n = Deg(g)
  BY <1>2
<1>5. PICK k \in Nat : k = m + n
  OBVIOUS
<1>6. PICK h : h = Times(f, g)
  OBVIOUS
<1>7. /\ h \in Polys /\ Len(h) <= Maximum(0, Len(f) + Len(g) - 1)
      /\ \A i \in Nat : Coeff(h, i) = SumFrom(Product(f, g, i), 0, i)
  BY <1>1, <1>2, <1>6, TimesIs
<1>8. PICK a \in Int : a = Coeff(f, m) /\ a \in 1 .. p-1
  BY <1>1, <1>3
<1>9. PICK b \in Int : b = Coeff(g, n) /\ b \in 1 .. p-1
  BY <1>2, <1>4
<1>10. ASSUME NEW i \in 0 .. k, i # m PROVE Mod(Product(f, g, k)[i]) = 0
  <2>1. i \in Nat /\ k-i \in Nat /\ (i > m \/ k-i > n)
    BY <1>5, <1>10
  <2>2. PICK c \in Int : c = Coeff(f, i)
    BY <1>1, <2>1, CoeffType, FieldInt
  <2>3. PICK d \in Int : d = Coeff(g, k-i)
    BY <1>2, <2>1, CoeffType, FieldInt
  <2>4. i >= Len(f) \/ k-i >= Len(g)
    BY <1>1, <1>2, <1>3, <1>4, <2>1 DEF Deg
  <2>5. c = 0 \/ d = 0
    BY <1>1, <1>2, <2>1, <2>2, <2>3, <2>4, CoeffType
  <2>6. Product(f, g, k)[i] = c * d
    BY <1>1, <1>2, <2>2, <2>3, ProductType
  <2>7. c * d = 0
    BY <2>5
  <2> QED BY <2>6, <2>7, ModSmall
<1>11. m \in 0 .. k /\ k-m = n
  BY <1>5
<1>12. Product(f, g, k)[m] = a * b
  BY <1>1, <1>2, <1>8, <1>9, <1>11, ProductType
<1>13. SumFrom(Product(f, g, k), 0, k) = Mod(a * b)
  <2>1. \A i \in 0 .. k : Product(f, g, k)[i] \in Int
    BY <1>1, <1>2, ProductType
  <2> QED BY <1>10, <1>11, <1>12, <2>1, SumSingle
<1>14. Mod(a * b) # 0
  <2>1. a \in Field /\ b \in Field
    BY <1>8, <1>9 DEF Field
  <2>2. Mod(a) = a /\ Mod(b) = b
    BY <2>1, ModOf
  <2>3. ~ (Mod(a) = 0) /\ ~ (Mod(b) = 0)
    BY <2>2, <1>8, <1>9
  <2> QED BY <2>3, NoZeroDivisors
<1>15. Coeff(h, k) # 0
  BY <1>7, <1>13, <1>14
<1>16. h \in Seq(Field) /\ Len(h) \in Nat
  BY <1>7 DEF Polys
<1>17. Len(h) > k
  <2>1. ~ (k >= Len(h))
    BY <1>15, <1>16, CoeffType
  <2> QED BY <1>16, <2>1
<1>18. Len(h) <= k + 1
  BY <1>1, <1>2, <1>3, <1>4, <1>5, <1>7, <1>16 DEF Maximum, Deg
<1>19. h # <<>>
  BY <1>16, <1>17
<1>20. Len(h) = k + 1
  BY <1>16, <1>17, <1>18
<1>21. Coeff(h, k) = Mod(Coeff(f, m) * Coeff(g, n))
  BY <1>7, <1>8, <1>9, <1>13
<1>22. Deg(h) = k
  BY <1>20 DEF Deg
<1> QED BY <1>3, <1>4, <1>5, <1>6, <1>19, <1>21, <1>22

\* A root a of f splits off as a factor x - a, by synthetic division: the
\* rows of the table of f at a are the coefficients of the quotient.
LEMMA RootSplits ==
    ASSUME NEW f \in Polys, f # <<>>, NEW a \in Int, Evaluate(f, a) = 0
    PROVE  \E q \in Polys : /\ q # <<>> /\ Deg(q) < Deg(f)
                            /\ \A y \in Int : Evaluate(f, y) = Mod((y - a) * Evaluate(q, y))
<1>1. /\ f \in Seq(Field) /\ Len(f) \in Nat /\ Len(f) >= 1 /\ Deg(f) \in Nat
      /\ Coeff(f, Deg(f)) \in 1 .. p-1
  BY Leading
<1>2. PICK h : Horner(f, a, h) /\ h[0] = 0 /\ \A i \in Nat : i >= Len(f) => h[i] = 0
  BY <1>1, EvalHorner
<1>3. h \in [Nat -> Field] /\ \A i \in Nat : h[i] = Mod(Coeff(f, i) + a * h[i+1])
  BY <1>2 DEF Horner
<1>4. PICK d \in Int : d = Len(f) - 2 /\ d >= -1
  BY <1>1
<1> DEFINE v == [i \in 0 .. d |-> h[i+1]]
<1>5. \A i \in 0 .. d : v[i] \in Field /\ v[i] = h[i+1]
  BY <1>3
<1> HIDE DEF v
<1>6. PICK q : q = Poly(v, d)
  OBVIOUS
<1>7. /\ q \in Polys /\ Len(q) <= d+1
      /\ \A i \in Nat : Coeff(q, i) = IF i <= d THEN v[i] ELSE 0
  BY <1>4, <1>5, <1>6, PolyIs
<1>8. q \in Seq(Field) /\ Len(q) \in Nat
  BY <1>7 DEF Polys
<1>9. ASSUME NEW i \in Nat PROVE Coeff(q, i) = h[i+1]
  <2>1. CASE i <= d
    <3>1. i \in 0 .. d
      BY <2>1, <1>4
    <3>2. Coeff(q, i) = v[i]
      BY <2>1, <1>7
    <3> QED BY <3>1, <3>2, <1>5
  <2>2. CASE i > d
    <3>1. i+1 \in Nat /\ i+1 >= Len(f)
      BY <2>2, <1>1, <1>4
    <3>2. Coeff(q, i) = 0
      <4>1. ~ (i <= d)
        BY <2>2, <1>4
      <4> QED BY <4>1, <1>7
    <3>3. h[i+1] = 0
      BY <3>1, <1>2
    <3> QED BY <3>2, <3>3
  <2> QED BY <2>1, <2>2, <1>4
<1>10. q # <<>>
  <2> SUFFICES ASSUME q = <<>> PROVE FALSE
    OBVIOUS
  <2>1. \A i \in Nat : h[i+1] = 0
    <3>1. \A i \in Nat : Coeff(q, i) = 0
      BY DEF Coeff, Deg
    <3> QED BY <3>1, <1>9
  <2>2. ASSUME NEW i \in Nat PROVE Coeff(f, i) = h[i]
    <3>1. PICK c \in Field : c = Coeff(f, i)
      BY <1>1, CoeffType
    <3>2. c + a * 0 = c /\ Mod(c) = c
      BY ModOf
    <3> QED BY <3>1, <3>2, <2>1, <1>3
  <2>3. \A i \in Nat : i = 0 \/ (i-1 \in Nat /\ (i-1)+1 = i)
    OBVIOUS
  <2>4. \A i \in Nat : h[i] = 0
    BY <2>1, <2>3, <1>2
  <2> QED BY <2>2, <2>4, <1>1
<1>11. ASSUME NEW y \in Int PROVE Evaluate(f, y) = Mod((y - a) * Evaluate(q, y))
  <2>1. PICK r : Horner(q, y, r) /\ r[0] = Evaluate(q, y)
    BY <1>8, EvalHorner
  <2>2. r \in [Nat -> Field] /\ \A i \in Nat : r[i] = Mod(Coeff(q, i) + y * r[i+1])
    BY <2>1 DEF Horner
  <2>3. \A i \in Nat : h[i] \in Int /\ r[i] \in Int
    BY <1>3, <2>2, FieldInt
  <2> DEFINE t == [i \in Nat |-> Mod(h[i] + (y - a) * r[i])]
  <2>4. t \in [Nat -> Field]
    <3> SUFFICES ASSUME NEW i \in Nat PROVE Mod(h[i] + (y - a) * r[i]) \in Field
      OBVIOUS
    <3>1. h[i] + (y - a) * r[i] \in Int
      BY <2>3
    <3> QED BY <3>1, ModType
  <2>5. \E m \in Nat : \A i \in Nat : i >= m => t[i] = 0
    <3>1. PICK m \in Nat : \A i \in Nat : i >= m => r[i] = 0
      BY <2>1 DEF Horner
    <3>2. ASSUME NEW i \in Nat, i >= m + Len(f) PROVE t[i] = 0
      <4>1. h[i] = 0 /\ r[i] = 0
        BY <3>1, <3>2, <1>1, <1>2
      <4>2. 0 + (y - a) * 0 = 0
        OBVIOUS
      <4> QED BY <4>1, <4>2, ModSmall
    <3>3. m + Len(f) \in Nat
      BY <1>1
    <3> HIDE DEF t
    <3> QED BY <3>2, <3>3
  <2>6. ASSUME NEW i \in Nat PROVE t[i] = Mod(Coeff(f, i) + y * t[i+1])
    <3>1. PICK c \in Int : c = Coeff(f, i)
      BY <1>1, CoeffType, FieldInt
    <3>2. PICK u, w \in Int : u = h[i+1] /\ w = r[i+1]
      BY <2>3
    <3>3. h[i] = Mod(c + a * u) /\ r[i] = Mod(u + y * w)
      BY <1>3, <1>9, <2>2, <3>1, <3>2
    <3>4. t[i] = Mod(Mod(c + a * u) + (y - a) * Mod(u + y * w))
      BY <3>3
    <3>5. t[i+1] = Mod(u + (y - a) * w)
      BY <3>2
    <3> HIDE DEF t
    <3>6. c + a * u \in Int /\ u + y * w \in Int /\ u + (y - a) * w \in Int /\ y - a \in Int
      OBVIOUS
    <3>7. Mod(Mod(c + a * u) + (y - a) * Mod(u + y * w)) = Mod((c + a * u) + (y - a) * (u + y * w))
      BY <3>6, ModHorner2
    <3>8. Mod(c + y * Mod(u + (y - a) * w)) = Mod(c + y * (u + (y - a) * w))
      BY <3>6, ModHorner
    <3>9. (c + a * u) + (y - a) * (u + y * w) = c + y * (u + (y - a) * w)
      OBVIOUS
    <3> QED BY <3>1, <3>4, <3>5, <3>7, <3>8, <3>9
  <2>7. t[0] = Mod((y - a) * r[0])
    <3>1. 0 + (y - a) * r[0] = (y - a) * r[0]
      BY <2>3
    <3> QED BY <3>1, <1>2
  <2>8. Horner(f, y, t)
    <3> HIDE DEF t
    <3> QED BY <2>4, <2>5, <2>6 DEF Horner
  <2> HIDE DEF t
  <2> QED BY <1>1, <2>1, <2>7, <2>8, EvalIs
<1>12. Deg(q) < Deg(f)
  BY <1>1, <1>4, <1>7, <1>8 DEF Deg
<1> QED BY <1>7, <1>10, <1>11, <1>12

\* The roots of f in the field.
Roots(f) == {x \in Field : Evaluate(f, x) = 0}

\* The field is finite.
LEMMA FieldFinite == IsFiniteSet(Field) /\ \A T \in SUBSET Field : IsFiniteSet(T)
<1>1. IsFiniteSet(Field)
  <2>1. 0 \in Int /\ p-1 \in Int
    OBVIOUS
  <2> QED BY <2>1, FS_Interval DEF Field
<1> QED BY <1>1, FS_Subset

\* A polynomial other than 0 has no more roots than its degree.
LEMMA RootCount ==
    ASSUME NEW f \in Polys, f # <<>>
    PROVE  Cardinality(Roots(f)) <= Deg(f)
<1> DEFINE Bad(g) == g \in Polys /\ g # <<>> /\ ~ (Cardinality(Roots(g)) <= Deg(g))
           B == {m \in Nat : \E g : Bad(g) /\ Deg(g) = m}
<1> SUFFICES ASSUME Bad(f) PROVE FALSE
  OBVIOUS
<1>1. Deg(f) \in Nat
  BY Leading
<1>2. PICK m \in B : \A j \in B : m <= j
  <2>1. Deg(f) \in B
    BY <1>1
  <2>2. B \in SUBSET Nat
    OBVIOUS
  <2> HIDE DEF B
  <2> QED BY <2>1, <2>2, Least
<1>3. PICK g : Bad(g) /\ Deg(g) = m
  OBVIOUS
<1>4. m \in Nat
  OBVIOUS
<1>5. \A T \in SUBSET Field : IsFiniteSet(T) /\ Cardinality(T) \in Nat
  BY FieldFinite, FS_CardinalityType
<1>6. Roots(g) \in SUBSET Field
  BY DEF Roots
<1>7. Roots(g) # {}
  <2> SUFFICES ASSUME Roots(g) = {} PROVE FALSE
    OBVIOUS
  <2>1. Cardinality(Roots(g)) = 0
    BY FS_EmptySet
  <2>2. ~ (Cardinality(Roots(g)) <= m)
    BY <1>3
  <2> HIDE DEF B
  <2> QED BY <2>1, <2>2, <1>4
<1>8. PICK a \in Field : Evaluate(g, a) = 0
  BY <1>7 DEF Roots
<1>9. a \in Int
  BY FieldInt
<1>10. PICK q \in Polys : /\ q # <<>> /\ Deg(q) < Deg(g)
                          /\ \A y \in Int : Evaluate(g, y) = Mod((y - a) * Evaluate(q, y))
  BY <1>3, <1>8, <1>9, RootSplits
<1>11. Deg(q) \in Nat /\ q \in Seq(Field)
  BY <1>10, Leading
<1>12. Cardinality(Roots(q)) <= Deg(q)
  <2>1. Deg(q) \notin B
    <3> HIDE DEF B
    <3> QED BY <1>2, <1>3, <1>4, <1>10, <1>11
  <2> QED BY <2>1, <1>10, <1>11
<1>13. Roots(g) \subseteq Roots(q) \cup {a}
  <2> SUFFICES ASSUME NEW y \in Field, Evaluate(g, y) = 0, y # a PROVE Evaluate(q, y) = 0
    BY DEF Roots
  <2>1. y \in Int /\ y - a \in Int
    BY <1>9, FieldInt
  <2>2. Evaluate(q, y) \in Int /\ Mod(Evaluate(q, y)) = Evaluate(q, y)
    BY <2>1, <1>11, EvalType, ModOf
  <2>3. Mod((y - a) * Evaluate(q, y)) = 0
    BY <2>1, <1>10
  <2>4. Mod(y - a) # 0
    BY <1>9, <2>1, DifferentMod
  <2> QED BY <2>1, <2>2, <2>3, <2>4, NoZeroDivisors
<1>14. /\ Roots(q) \in SUBSET Field /\ IsFiniteSet(Roots(q)) /\ Cardinality(Roots(q)) \in Nat
       /\ Cardinality(Roots(g)) \in Nat
  BY <1>5, <1>6 DEF Roots
<1>15. /\ IsFiniteSet(Roots(q) \cup {a})
       /\ Cardinality(Roots(q) \cup {a}) <= Cardinality(Roots(q)) + 1
  <2>1. PICK S : S = Roots(q)
    OBVIOUS
  <2>2. IsFiniteSet(S) /\ Cardinality(S) \in Nat
    BY <2>1, <1>14
  <2>3. /\ IsFiniteSet(S \cup {a})
        /\ Cardinality(S \cup {a}) = Cardinality(S) \/ Cardinality(S \cup {a}) = Cardinality(S) + 1
    BY <2>2, FS_AddElement
  <2>4. Cardinality(S \cup {a}) <= Cardinality(S) + 1
    BY <2>2, <2>3
  <2> QED BY <2>1, <2>3, <2>4
<1>16. Cardinality(Roots(g)) <= Cardinality(Roots(q) \cup {a})
  BY <1>13, <1>15, FS_Subset
<1>17. Roots(q) \cup {a} \in SUBSET Field
  BY <1>14
<1>18. Cardinality(Roots(q) \cup {a}) \in Nat
  BY <1>5, <1>17
<1>19. Cardinality(Roots(g)) <= Deg(g)
  BY <1>10, <1>11, <1>12, <1>14, <1>15, <1>16, <1>18, <1>3, <1>4
<1> QED BY <1>3, <1>19

\* A polynomial with more roots than its degree is 0, which is why at most one
\* polynomial is within the decoding radius of rs_decode.
THEOREM ManyRoots ==
    ASSUME NEW f \in Polys, NEW T \in SUBSET Field, \A x \in T : Evaluate(f, x) = 0,
           Cardinality(T) > Deg(f)
    PROVE  f = <<>>
<1> SUFFICES ASSUME f # <<>> PROVE FALSE
  OBVIOUS
<1>1. Cardinality(Roots(f)) <= Deg(f) /\ Deg(f) \in Nat
  BY RootCount, Leading
<1>2. T \subseteq Roots(f) /\ Roots(f) \in SUBSET Field
  BY DEF Roots
<1>3. IsFiniteSet(Roots(f)) /\ Cardinality(Roots(f)) \in Nat /\ Cardinality(T) \in Nat
  BY <1>2, FieldFinite, FS_CardinalityType
<1>4. Cardinality(T) <= Cardinality(Roots(f))
  BY <1>2, <1>3, FS_Subset
<1> QED BY <1>1, <1>3, <1>4

-----------------------------------------------------------------------------
(***************************************************************************)
(* Division with remainder.                                                *)
(***************************************************************************)
\* A set that holds 0 and with every number the next one holds all of them.
LEMMA Induct ==
    ASSUME NEW S, 0 \in S, \A k \in Nat : k \in S => k+1 \in S
    PROVE  \A k \in Nat : k \in S
<1> DEFINE B == {k \in Nat : k \notin S}
<1> SUFFICES ASSUME B # {} PROVE FALSE
  OBVIOUS
<1>1. PICK m \in B : \A j \in B : m <= j
  <2>1. B \in SUBSET Nat
    OBVIOUS
  <2> HIDE DEF B
  <2> QED BY <2>1, Least
<1>2. m \in Nat /\ m \notin S /\ m # 0
  OBVIOUS
<1>3. m-1 \in Nat /\ (m-1)+1 = m
  BY <1>2
<1>4. m-1 \notin B
  <2> HIDE DEF B
  <2> QED BY <1>1, <1>2, <1>3
<1>5. m-1 \in S
  BY <1>3, <1>4
<1> QED BY <1>2, <1>3, <1>5

\* The values of a function that is iterated on z.
LEMMA Iterate ==
    ASSUME NEW T, NEW z \in T, NEW next, next \in [T -> T]
    PROVE  \E f : f = [k \in Nat |-> IF k = 0 THEN z ELSE next[f[k-1]]]
<1> DEFINE step == [ks \in Nat \X T |-> next[ks[2]]]
<1>1. IsStep(step, T)
  BY DEF IsStep
<1>2. PICK f : Follows(f, T, z, step)
  <2> HIDE DEF step
  <2> QED BY <1>1, Recursion
<1>3. f \in [Nat -> T] /\ f[0] = z /\ \A i \in Nat : f[i+1] = next[f[i]]
  <2>1. f \in [Nat -> T] /\ f[0] = z /\ \A i \in Nat : f[i+1] = step[<<i, f[i]>>]
    <3> HIDE DEF step
    <3> QED BY <1>2 DEF Follows
  <2> QED BY <2>1
<1>4. ASSUME NEW k \in Nat PROVE f[k] = IF k = 0 THEN z ELSE next[f[k-1]]
  <2>1. CASE k = 0
    BY <2>1, <1>3
  <2>2. CASE k # 0
    <3>1. k-1 \in Nat /\ (k-1)+1 = k
      BY <2>2
    <3> QED BY <3>1, <2>2, <1>3
  <2> QED BY <2>1, <2>2
<1>5. f = [k \in Nat |-> f[k]]
  BY <1>3
<1>6. f = [k \in Nat |-> IF k = 0 THEN z ELSE next[f[k-1]]]
  BY <1>4, <1>5
<1> QED BY <1>6

\* A monomial is a polynomial, of its degree and with its value.
LEMMA MonomialIs ==
    ASSUME NEW c \in 1 .. p-1, NEW k \in Nat
    PROVE  /\ Monomial(c, k) \in Polys /\ Monomial(c, k) # <<>>
           /\ Deg(Monomial(c, k)) = k /\ Coeff(Monomial(c, k), k) = c
<1>1. PICK m : m = Monomial(c, k)
  OBVIOUS
<1>2. m = [i \in 1 .. k+1 |-> IF i = k+1 THEN c ELSE 0]
  BY <1>1 DEF Monomial
<1>3. c \in Field /\ 0 \in Field /\ c # 0
  BY DEF Field
<1>4. k+1 \in Nat /\ \A i \in 1 .. k+1 : m[i] \in Field
  BY <1>2, <1>3
<1>5. m \in Seq(Field) /\ Len(m) = k+1 /\ m[k+1] = c
  BY <1>2, <1>4
<1>6. m # <<>>
  BY <1>5
<1>7. m \in Polys
  BY <1>3, <1>5 DEF Polys
<1>8. Deg(m) = k
  BY <1>5 DEF Deg
<1>9. Coeff(m, k) = c
  <2>1. k \in 0 .. Deg(m)
    BY <1>8
  <2> QED BY <2>1, <1>5 DEF Coeff
<1> QED BY <1>1, <1>6, <1>7, <1>8, <1>9

\* The next term of the quotient, with remainder r.
DivTerm(r, b) == Monomial((r[Len(r)] * inv[b[Len(b)]]) % p, Deg(r) - Deg(b))

\* One step of the division by b, from quotient and remainder s.
DivStep(s, b) ==
    IF Deg(s.r) - Deg(b) < 0 THEN s
    ELSE [q |-> Plus(s.q, DivTerm(s.r, b)), r |-> Minus(s.r, Times(DivTerm(s.r, b), b))]

\* The next term of the quotient has the leading term of the remainder.
LEMMA DivTermIs ==
    ASSUME NEW r \in Polys, NEW b \in Polys, b # <<>>, ~ (Deg(r) - Deg(b) < 0)
    PROVE  /\ DivTerm(r, b) \in Polys /\ DivTerm(r, b) # <<>>
           /\ Deg(DivTerm(r, b)) = Deg(r) - Deg(b)
           /\ Minus(r, Times(DivTerm(r, b), b)) \in Polys
           /\ Deg(Minus(r, Times(DivTerm(r, b), b))) < Deg(r)
<1>1. /\ b \in Seq(Field) /\ Deg(b) \in Nat
      /\ Coeff(b, Deg(b)) = b[Len(b)] /\ Coeff(b, Deg(b)) \in 1 .. p-1
  BY Leading
<1>2. r # <<>>
  <2> SUFFICES ASSUME r = <<>> PROVE FALSE
    OBVIOUS
  <2>1. Deg(r) = -1
    BY DEF Deg
  <2> QED BY <2>1, <1>1
<1>3. /\ r \in Seq(Field) /\ Deg(r) \in Nat
      /\ Coeff(r, Deg(r)) = r[Len(r)] /\ Coeff(r, Deg(r)) \in 1 .. p-1
  BY <1>2, Leading
<1>4. PICK u \in 1 .. p-1 : u = b[Len(b)]
  BY <1>1
<1>5. PICK w \in 1 .. p-1 : w = r[Len(r)]
  BY <1>3
<1>6. PICK e \in 1 .. p-1 : e = inv[u] /\ Mod(u * e) = 1
  BY InverseOf DEF Mod
<1>7. u \in Int /\ w \in Int /\ e \in Int /\ w * e \in Int
  OBVIOUS
<1>8. PICK c : c = Mod(w * e)
  OBVIOUS
<1>9. c \in Field /\ c \in Int
  BY <1>7, <1>8, ModType
<1>10. Mod(u * c) = w
  <2>1. Mod(u * Mod(w * e)) = Mod(u * (w * e))
    BY <1>7, ModTimes
  <2>2. u * e \in Int
    BY <1>7
  <2>3. Mod(w * Mod(u * e)) = Mod(w * (u * e))
    BY <1>7, <2>2, ModTimes
  <2>4. u * (w * e) = w * (u * e) /\ w * 1 = w
    BY <1>7
  <2>5. Mod(w) = w
    BY <1>5, ModOf DEF Field
  <2> QED BY <2>1, <2>3, <2>4, <2>5, <1>6, <1>8
<1>11. c # 0
  <2> SUFFICES ASSUME c = 0 PROVE FALSE
    OBVIOUS
  <2>1. u * c = 0 /\ w # 0
    BY <1>7
  <2> QED BY <2>1, <1>10, ModSmall
<1>12. c \in 1 .. p-1
  BY <1>9, <1>11 DEF Field
<1>13. PICK k \in Nat : k = Deg(r) - Deg(b)
  BY <1>1, <1>3
<1>14. PICK m : m = DivTerm(r, b)
  OBVIOUS
<1>15. m = Monomial(c, k)
  BY <1>4, <1>5, <1>6, <1>8, <1>13, <1>14 DEF DivTerm, Mod
<1>16. m \in Polys /\ m # <<>> /\ Deg(m) = k /\ Coeff(m, k) = c
  BY <1>12, <1>15, MonomialIs
<1>17. m \in Seq(Field)
  BY <1>16 DEF Polys
<1>18. PICK g : g = Times(m, b)
  OBVIOUS
<1>19. PICK d \in Nat : d = Deg(r)
  BY <1>3
<1>20. k + Deg(b) = d
  BY <1>1, <1>13, <1>19
<1>21. g \in Polys /\ g # <<>> /\ Deg(g) = d /\ Coeff(g, d) = Mod(c * u)
  <2>1. g \in Polys
    BY <1>1, <1>17, <1>18, TimesIs
  <2>2. /\ g # <<>> /\ Deg(g) = Deg(m) + Deg(b)
        /\ Coeff(g, Deg(m) + Deg(b)) = Mod(Coeff(m, Deg(m)) * Coeff(b, Deg(b)))
    BY <1>16, <1>18, TimesDegree
  <2>3. Deg(m) + Deg(b) = d /\ Coeff(m, Deg(m)) = c /\ Coeff(b, Deg(b)) = u
    BY <1>1, <1>4, <1>16, <1>20
  <2> QED BY <2>1, <2>2, <2>3
<1>22. Coeff(g, d) = w /\ Coeff(r, d) = w
  <2>1. c * u = u * c
    BY <1>7, <1>9
  <2> QED BY <2>1, <1>3, <1>5, <1>10, <1>19, <1>21
<1>23. g \in Seq(Field) /\ Len(g) = d+1 /\ Len(r) = d+1
  <2>1. g \in Seq(Field) /\ Len(g) \in Nat /\ Len(r) \in Nat
    BY <1>3, <1>21 DEF Polys
  <2> QED BY <2>1, <1>19, <1>21 DEF Deg
<1>24. PICK h : h = Minus(r, g)
  OBVIOUS
<1>25. /\ h \in Polys /\ Len(h) <= Maximum(Len(r), Len(g))
       /\ \A i \in Nat : Coeff(h, i) = Mod(Coeff(r, i) - Coeff(g, i))
  BY <1>3, <1>23, <1>24, MinusIs
<1>26. h \in Seq(Field) /\ Len(h) \in Nat /\ Len(h) <= d+1
  BY <1>23, <1>25 DEF Polys, Maximum
<1>27. Coeff(h, d) = 0
  <2>1. w - w = 0
    BY <1>7
  <2> QED BY <2>1, <1>22, <1>25, ModSmall
<1>28. Deg(h) < d
  <2>1. ASSUME NEW i \in Nat, i > d-1 PROVE Coeff(h, i) = 0
    <3>1. CASE i = d
      BY <3>1, <1>27
    <3>2. CASE i # d
      <4>1. i >= Len(h)
        BY <3>2, <2>1, <1>26
      <4> QED BY <4>1, <1>26, CoeffType
    <3> QED BY <3>1, <3>2
  <2>2. d-1 \in Int /\ d-1 >= -1
    OBVIOUS
  <2>3. Deg(h) <= d-1
    BY <2>1, <2>2, <1>25, DegAtMost
  <2>4. Deg(h) \in Int
    BY <1>26 DEF Deg
  <2> QED BY <2>3, <2>4
<1> QED BY <1>13, <1>14, <1>16, <1>18, <1>19, <1>24, <1>25, <1>28

\* Quotients and remainders.
QuotRem == [q : Polys, r : Polys]

\* g is the table that DivRem computes.
IsDiv(g, a, b) ==
    g = [k \in Nat |-> IF k = 0 THEN [q |-> <<>>, r |-> a] ELSE DivStep(g[k-1], b)]

\* The zero polynomial has degree -1.
LEMMA ZeroPoly == <<>> \in Polys /\ <<>> \in Seq(Field) /\ Deg(<<>>) = -1
BY DEF Polys, Deg

\* The polynomial 1.
LEMMA OnePoly == <<1>> \in Polys /\ <<1>> # <<>> /\ Deg(<<1>>) = 0 /\ \A x \in Int : Evaluate(<<1>>, x) = 1
<1>1. <<1>> \in Seq(Field) /\ <<1>> \in Polys /\ <<1>> # <<>> /\ Deg(<<1>>) = 0
  BY ModSmall DEF Polys, Deg
<1>2. ASSUME NEW x \in Int PROVE Evaluate(<<1>>, x) = 1
  <2>1. PICK h : Horner(<<1>>, x, h) /\ h[0] = Evaluate(<<1>>, x) /\ \A k \in Nat : k >= Len(<<1>>) => h[k] = 0
    BY <1>1, EvalHorner
  <2>2. \A k \in Nat : h[k] = Mod(Coeff(<<1>>, k) + x * h[k+1])
    BY <2>1 DEF Horner
  <2>3. h[1] = 0
    BY <2>1
  <2>4. Coeff(<<1>>, 0) = 1
    BY DEF Coeff, Deg
  <2>5. 1 + x * 0 = 1 /\ 0+1 = 1
    OBVIOUS
  <2>6. h[0] = 1
    BY <2>2, <2>3, <2>4, <2>5, ModSmall
  <2> QED BY <2>1, <2>6
<1> QED BY <1>1, <1>2

\* DivRem has a table.
LEMMA DivExists ==
    ASSUME NEW a \in Polys, NEW b \in Polys, b # <<>>
    PROVE  \E g : IsDiv(g, a, b)
<1> DEFINE next == [s \in QuotRem |-> DivStep(s, b)]
<1>1. ASSUME NEW s \in QuotRem PROVE DivStep(s, b) \in QuotRem
  <2>1. s.q \in Polys /\ s.r \in Polys
    BY DEF QuotRem
  <2>2. CASE Deg(s.r) - Deg(b) < 0
    BY <2>2 DEF DivStep
  <2>3. CASE ~ (Deg(s.r) - Deg(b) < 0)
    <3>1. /\ DivTerm(s.r, b) \in Polys
          /\ Minus(s.r, Times(DivTerm(s.r, b), b)) \in Polys
      BY <2>1, <2>3, DivTermIs
    <3>2. Plus(s.q, DivTerm(s.r, b)) \in Polys
      BY <2>1, <3>1, PlusIs DEF Polys
    <3> QED BY <2>3, <3>1, <3>2 DEF DivStep, QuotRem
  <2> QED BY <2>2, <2>3
<1>2. next \in [QuotRem -> QuotRem]
  BY <1>1
<1>3. PICK z : z = [q |-> <<>>, r |-> a]
  OBVIOUS
<1>4. z \in QuotRem
  BY <1>3, ZeroPoly DEF QuotRem
<1>5. PICK f : f = [k \in Nat |-> IF k = 0 THEN z ELSE next[f[k-1]]]
  <2> HIDE DEF next
  <2> QED BY <1>2, <1>4, Iterate
<1>6. \A k \in Nat : f[k] = IF k = 0 THEN z ELSE next[f[k-1]]
  <2> HIDE DEF next
  <2> QED BY <1>5
<1>7. \A k \in Nat : f[k] \in QuotRem
  <2> DEFINE S == {k \in Nat : f[k] \in QuotRem}
  <2>1. 0 \in S
    BY <1>4, <1>6
  <2>2. ASSUME NEW k \in Nat, k \in S PROVE k+1 \in S
    <3>1. f[k] \in QuotRem /\ k+1 \in Nat /\ k+1 # 0 /\ (k+1)-1 = k
      BY <2>2
    <3>2. f[k+1] = next[f[k]]
      <4> HIDE DEF next, S
      <4> QED BY <3>1, <1>6
    <3>3. f[k+1] \in QuotRem
      <4> HIDE DEF next, S
      <4> QED BY <3>1, <3>2, <1>2
    <3> QED BY <3>1, <3>3
  <2> HIDE DEF S
  <2>3. \A k \in Nat : k \in S
    BY <2>1, <2>2, Induct
  <2> QED BY <2>3 DEF S
<1>8. ASSUME NEW k \in Nat PROVE f[k] = IF k = 0 THEN z ELSE DivStep(f[k-1], b)
  <2>1. CASE k = 0
    BY <2>1, <1>6
  <2>2. CASE k # 0
    <3>1. k-1 \in Nat
      BY <2>2
    <3>2. f[k-1] \in QuotRem
      BY <3>1, <1>7
    <3> QED BY <3>2, <2>2, <1>6
  <2> QED BY <2>1, <2>2
<1> HIDE DEF next
<1>9. f = [k \in Nat |-> f[k]]
  BY <1>5
<1>10. f = [k \in Nat |-> IF k = 0 THEN z ELSE DivStep(f[k-1], b)]
  BY <1>8, <1>9
<1> QED BY <1>3, <1>10 DEF IsDiv

\* What each step of a division by b keeps.
DivInv(s, a, b, k) ==
    /\ s.q \in Polys /\ s.r \in Polys
    /\ Deg(s.r) < Deg(b) \/ Deg(s.r) <= Deg(a) - k
    /\ \/ s.q = <<>> /\ s.r = a
       \/ s.q # <<>> /\ Deg(s.q) = Deg(a) - Deg(b) /\ Deg(s.r) < Deg(a)
    /\ \A x \in Int : Evaluate(a, x) = Mod(Evaluate(s.q, x) * Evaluate(b, x) + Evaluate(s.r, x))

\* A nonzero coefficient bounds the degree from below.
LEMMA DegAtLeast ==
    ASSUME NEW f \in Polys, NEW d \in Nat, Coeff(f, d) # 0
    PROVE  f # <<>> /\ Len(f) > d
<1>1. f \in Seq(Field) /\ Len(f) \in Nat
  BY DEF Polys
<1>2. ~ (d >= Len(f))
  BY <1>1, CoeffType
<1> QED BY <1>1, <1>2

\* Adding a term of lower degree, or to 0, keeps the degree.
LEMMA PlusDegree ==
    ASSUME NEW f \in Polys, NEW m \in Polys, m # <<>>, NEW d \in Nat,
           \/ f = <<>> /\ Deg(m) = d
           \/ f # <<>> /\ Deg(f) = d /\ Deg(m) < d
    PROVE  /\ Plus(f, m) \in Polys /\ Plus(f, m) # <<>> /\ Deg(Plus(f, m)) = d
<1>1. f \in Seq(Field) /\ m \in Seq(Field) /\ Len(f) \in Nat /\ Len(m) \in Nat
  BY DEF Polys
<1>2. PICK h : h = Plus(f, m)
  OBVIOUS
<1>3. /\ h \in Polys /\ Len(h) <= Maximum(Len(f), Len(m))
      /\ \A i \in Nat : Coeff(h, i) = Mod(Coeff(f, i) + Coeff(m, i))
  BY <1>1, <1>2, PlusIs
<1>4. h \in Seq(Field) /\ Len(h) \in Nat
  BY <1>3 DEF Polys
<1>5. /\ Maximum(Len(f), Len(m)) = d+1
      /\ \E a, b \in Field : a = Coeff(f, d) /\ b = Coeff(m, d) /\ (a = 0 \/ b = 0) /\ a + b # 0
  <2>1. Coeff(f, d) \in Field /\ Coeff(m, d) \in Field
    BY <1>1, CoeffType
  <2>2. CASE f = <<>> /\ Deg(m) = d
    <3>1. Coeff(m, d) # 0
      BY <2>2, Leading
    <3>2. Len(f) = 0 /\ Len(m) = d+1
      BY <2>2, <1>1 DEF Deg
    <3>3. Coeff(f, d) = 0
      <4>1. d >= Len(f)
        BY <3>2
      <4> QED BY <4>1, <1>1, CoeffType
    <3>4. Maximum(Len(f), Len(m)) = d+1
      BY <3>2 DEF Maximum
    <3>5. PICK b \in Field : b = Coeff(m, d)
      BY <2>1
    <3>6. 0 + b # 0
      BY <3>1, <3>5, FieldInt
    <3> QED BY <2>1, <3>3, <3>4, <3>5, <3>6
  <2>3. CASE f # <<>> /\ Deg(f) = d /\ Deg(m) < d
    <3>1. Coeff(f, d) # 0
      BY <2>3, Leading
    <3>2. Len(m) <= d /\ Len(f) = d+1
      BY <2>3, <1>1 DEF Deg
    <3>3. Coeff(m, d) = 0
      BY <3>2, <1>1, CoeffType
    <3>4. Maximum(Len(f), Len(m)) = d+1
      BY <3>2, <1>1 DEF Maximum
    <3>5. PICK a \in Field : a = Coeff(f, d)
      BY <2>1
    <3>6. a + 0 # 0
      BY <3>1, <3>5, FieldInt
    <3> QED BY <2>1, <3>3, <3>4, <3>5, <3>6
  <2> QED BY <2>2, <2>3
<1>6. PICK a, b \in Field : a = Coeff(f, d) /\ b = Coeff(m, d) /\ (a = 0 \/ b = 0) /\ a + b # 0
  BY <1>5
<1>7. a + b \in Field
  <2>1. a \in Int /\ b \in Int
    BY FieldInt
  <2>2. a + b = a \/ a + b = b
    BY <1>6, <2>1
  <2> QED BY <2>2
<1>8. Coeff(h, d) # 0
  <2>1. Coeff(h, d) = a + b
    BY <1>3, <1>6, <1>7, ModOf
  <2> QED BY <2>1, <1>6
<1>9. h # <<>> /\ Len(h) > d
  BY <1>3, <1>8, DegAtLeast
<1>10. Len(h) = d+1
  BY <1>3, <1>4, <1>5, <1>9
<1> QED BY <1>2, <1>3, <1>9, <1>10 DEF Deg

\* The division starts with quotient 0 and remainder a.
LEMMA DivStart ==
    ASSUME NEW a \in Polys, NEW b \in Polys, NEW s, s = [q |-> <<>>, r |-> a]
    PROVE  DivInv(s, a, b, 0)
<1>1. s.q = <<>> /\ s.r = a
  OBVIOUS
<1>2. a \in Seq(Field) /\ b \in Seq(Field) /\ Deg(a) \in Int /\ Deg(a) <= Deg(a) - 0
  BY DEF Polys, Deg
<1>3. ASSUME NEW x \in Int
      PROVE  Evaluate(a, x) = Mod(Evaluate(<<>>, x) * Evaluate(b, x) + Evaluate(a, x))
  <2>1. PICK u \in Field : u = Evaluate(a, x)
    BY <1>2, EvalType
  <2>2. PICK w \in Field : w = Evaluate(b, x)
    BY <1>2, EvalType
  <2>3. u \in Int /\ w \in Int
    BY FieldInt
  <2>4. 0 * w + u = u
    BY <2>3
  <2> QED BY <2>1, <2>2, <2>4, EvalZero, ModOf
<1> QED BY <1>1, <1>2, <1>3, ZeroPoly DEF DivInv

\* A step of the division keeps DivInv.
LEMMA DivStepKeeps ==
    ASSUME NEW a \in Polys, NEW b \in Polys, b # <<>>, NEW k \in Nat,
           NEW s, DivInv(s, a, b, k)
    PROVE  DivInv(DivStep(s, b), a, b, k+1)
<1>1. /\ b \in Seq(Field) /\ Deg(b) \in Nat
  BY Leading
<1>2. /\ a \in Seq(Field) /\ Deg(a) \in Int
      /\ s.q \in Seq(Field) /\ s.r \in Seq(Field) /\ Deg(s.q) \in Int /\ Deg(s.r) \in Int
  BY DEF DivInv, Polys, Deg
<1>3. CASE Deg(s.r) - Deg(b) < 0
  <2>1. DivStep(s, b) = s
    BY <1>3 DEF DivStep
  <2>2. Deg(s.r) < Deg(b)
    BY <1>1, <1>2, <1>3
  <2> QED BY <2>1, <2>2 DEF DivInv
<1>4. CASE ~ (Deg(s.r) - Deg(b) < 0)
  <2>1. PICK m : m = DivTerm(s.r, b)
    OBVIOUS
  <2>2. PICK r : r = Minus(s.r, Times(m, b))
    OBVIOUS
  <2>3. PICK q : q = Plus(s.q, m)
    OBVIOUS
  <2>4. DivStep(s, b) = [q |-> q, r |-> r]
    BY <1>4, <2>1, <2>2, <2>3 DEF DivStep
  <2>5. /\ m \in Polys /\ m # <<>> /\ Deg(m) = Deg(s.r) - Deg(b)
        /\ r \in Polys /\ Deg(r) < Deg(s.r)
    BY <1>4, <2>1, <2>2, DivTermIs DEF DivInv
  <2>6. Deg(r) \in Int /\ Deg(m) \in Nat /\ m \in Seq(Field)
    BY <1>1, <1>2, <1>4, <2>5 DEF Polys, Deg
  <2>7. ~ (Deg(s.r) < Deg(b)) /\ Deg(s.r) <= Deg(a) - k
    <3>1. ~ (Deg(s.r) < Deg(b))
      BY <1>1, <1>2, <1>4
    <3> QED BY <3>1 DEF DivInv
  <2>8. Deg(r) <= Deg(a) - (k+1)
    BY <1>2, <2>5, <2>6, <2>7
  <2>9. PICK d \in Nat : d = Deg(a) - Deg(b)
    BY <1>1, <1>2, <2>7
  <2>10. \/ s.q = <<>> /\ Deg(m) = d
         \/ s.q # <<>> /\ Deg(s.q) = d /\ Deg(m) < d
    <3>1. CASE s.q = <<>> /\ s.r = a
      <4>1. Deg(s.r) = Deg(a)
        BY <3>1
      <4>2. Deg(m) = d
        BY <4>1, <2>5, <2>9
      <4> QED BY <4>2, <3>1
    <3>2. CASE s.q # <<>> /\ Deg(s.q) = Deg(a) - Deg(b) /\ Deg(s.r) < Deg(a)
      BY <3>2, <2>5, <2>9, <1>1, <1>2
    <3> QED BY <3>1, <3>2 DEF DivInv
  <2>11. q \in Polys /\ q # <<>> /\ Deg(q) = d
    <3>1. s.q \in Polys
      BY DEF DivInv
    <3> QED BY <3>1, <2>3, <2>5, <2>10, PlusDegree
  <2>12. Deg(r) < Deg(a)
    BY <1>2, <2>6, <2>8
  <2>13. ASSUME NEW x \in Int
         PROVE  Evaluate(a, x) = Mod(Evaluate(q, x) * Evaluate(b, x) + Evaluate(r, x))
    <3>1. PICK f \in Int : f = Evaluate(b, x)
      BY <1>1, EvalType
    <3>2. PICK u \in Int : u = Evaluate(s.q, x)
      BY <1>2, EvalType
    <3>3. PICK w \in Int : w = Evaluate(s.r, x)
      BY <1>2, EvalType
    <3>4. PICK e \in Int : e = Evaluate(m, x)
      BY <2>6, EvalType
    <3>5. Evaluate(a, x) = Mod(u * f + w)
      BY <3>1, <3>2, <3>3 DEF DivInv
    <3>6. Evaluate(q, x) = Mod(u + e)
      BY <1>2, <2>3, <2>6, <3>2, <3>4, EvalPlus
    <3>7. Times(m, b) \in Seq(Field)
      BY <1>1, <2>6, TimesIs DEF Polys
    <3>8. Evaluate(Times(m, b), x) = Mod(e * f)
      BY <1>1, <2>6, <3>1, <3>4, EvalTimes
    <3>9. Evaluate(r, x) = Mod(w - Mod(e * f))
      BY <1>2, <2>2, <3>3, <3>7, <3>8, EvalMinus
    <3>10. e * f \in Int /\ u + e \in Int /\ w - e * f \in Int /\ Mod(u + e) \in Int
           /\ f * (u + e) \in Int
      BY ModType
    <3>11. Mod(w - Mod(e * f)) = Mod(w - e * f)
      <4>1. Mod(w + (-1) * Mod(e * f)) = Mod(w + (-1) * (e * f))
        BY <3>10, ModHorner
      <4>2. PICK z \in Int : z = Mod(e * f)
        BY <3>10, ModType
      <4>3. w + (-1) * z = w - z /\ w + (-1) * (e * f) = w - e * f
        BY <3>10
      <4> QED BY <4>1, <4>2, <4>3
    <3>12. Mod(Mod(w - e * f) + f * Mod(u + e)) = Mod((w - e * f) + f * (u + e))
      BY <3>10, ModHorner2
    <3>13. (w - e * f) + f * (u + e) = u * f + w
      OBVIOUS
    <3>14. PICK z1, z2 \in Int : z1 = Mod(w - e * f) /\ z2 = Mod(u + e)
      BY <3>10, ModType
    <3>15. z2 * f + z1 = z1 + f * z2
      OBVIOUS
    <3> QED BY <3>1, <3>5, <3>6, <3>9, <3>11, <3>12, <3>13, <3>14, <3>15
  <2> QED BY <2>4, <2>5, <2>8, <2>9, <2>11, <2>12, <2>13 DEF DivInv
<1> QED BY <1>3, <1>4

\* DivRem divides: quotient and remainder of the right degrees, and the
\* values of a are those of q * b + r.
THEOREM DivRemIs ==
    ASSUME NEW a \in Polys, NEW b \in Polys, b # <<>>, NEW d, d = DivRem(a, b)
    PROVE  /\ d.q \in Polys /\ d.r \in Polys /\ Deg(d.r) < Deg(b)
           /\ Deg(a) >= Deg(b) => d.q # <<>> /\ Deg(d.q) = Deg(a) - Deg(b)
           /\ Deg(a) < Deg(b) => d.q = <<>> /\ d.r = a
           /\ \A x \in Int : Evaluate(a, x)
                               = Mod(Evaluate(d.q, x) * Evaluate(b, x) + Evaluate(d.r, x))
<1>1. PICK g : g = (CHOOSE s : IsDiv(s, a, b))
  OBVIOUS
<1>2. IsDiv(g, a, b)
  BY <1>1, DivExists
<1>3. d = g[Maximum(0, Deg(a) - Deg(b) + 1)]
  BY <1>1 DEF DivRem, IsDiv, DivStep, DivTerm
<1>4. PICK z : z = [q |-> <<>>, r |-> a]
  OBVIOUS
<1>5. g[0] = z /\ \A k \in Nat : g[k+1] = DivStep(g[k], b)
  <2>1. \A k \in Nat : g[k] = IF k = 0 THEN z ELSE DivStep(g[k-1], b)
    BY <1>2, <1>4 DEF IsDiv
  <2>2. \A k \in Nat : k+1 \in Nat /\ k+1 # 0 /\ (k+1)-1 = k
    OBVIOUS
  <2> QED BY <2>1, <2>2
<1>6. \A k \in Nat : DivInv(g[k], a, b, k)
  <2> DEFINE S == {k \in Nat : DivInv(g[k], a, b, k)}
  <2>1. 0 \in S
    BY <1>4, <1>5, DivStart
  <2>2. ASSUME NEW k \in Nat, k \in S PROVE k+1 \in S
    BY <2>2, <1>5, DivStepKeeps
  <2> HIDE DEF S
  <2>3. \A k \in Nat : k \in S
    BY <2>1, <2>2, Induct
  <2> QED BY <2>3 DEF S
<1>7. /\ b \in Seq(Field) /\ Deg(b) \in Nat /\ a \in Seq(Field) /\ Deg(a) \in Int /\ Deg(a) >= -1
  BY Leading DEF Polys, Deg
<1>8. PICK m \in Nat : m = Maximum(0, Deg(a) - Deg(b) + 1)
  BY <1>7 DEF Maximum
<1>9. d = g[m] /\ DivInv(d, a, b, m)
  BY <1>3, <1>6, <1>8
<1>10. Deg(d.r) \in Int
  BY <1>9 DEF DivInv, Polys, Deg
<1>11. Deg(d.r) < Deg(b)
  <2>1. Deg(a) - m < Deg(b)
    BY <1>7, <1>8 DEF Maximum
  <2> QED BY <2>1, <1>7, <1>9, <1>10 DEF DivInv
<1>12. ASSUME Deg(a) >= Deg(b) PROVE d.q # <<>> /\ Deg(d.q) = Deg(a) - Deg(b)
  <2>1. ~ (d.r = a)
    BY <1>7, <1>10, <1>11, <1>12
  <2> QED BY <2>1, <1>9 DEF DivInv
<1>13. ASSUME Deg(a) < Deg(b) PROVE d.q = <<>> /\ d.r = a
  <2>1. m = 0
    BY <1>7, <1>8, <1>13 DEF Maximum
  <2> QED BY <2>1, <1>4, <1>5, <1>9
<1> QED BY <1>9, <1>11, <1>12, <1>13 DEF DivInv

-----------------------------------------------------------------------------
(***************************************************************************)
(* BuildFromRoots and interpolate.                                         *)
(***************************************************************************)
\* The factor x - a, and its value.
LEMMA FactorIs ==
    ASSUME NEW a \in Field
    PROVE  /\ <<(p - a) % p, 1>> \in Polys /\ <<(p - a) % p, 1>> # <<>>
           /\ Deg(<<(p - a) % p, 1>>) = 1
           /\ \A y \in Int : Evaluate(<<(p - a) % p, 1>>, y) = Mod(y - a)
<1>1. PICK c : c = Mod(p - a)
  OBVIOUS
<1>2. a \in Int /\ p - a \in Int
  BY FieldInt
<1>3. c \in Field /\ c \in Int
  BY <1>1, <1>2, ModType
<1>4. PICK f : f = <<c, 1>>
  OBVIOUS
<1>5. f \in Seq(Field) /\ Len(f) = 2 /\ f[1] = c /\ f[2] = 1
  BY <1>3, <1>4, ModSmall
<1>6. f \in Polys /\ f # <<>>
  <2>1. f[Len(f)] # 0
    BY <1>5
  <2>2. f # <<>>
    <3>1. Len(<<>>) = 0
      OBVIOUS
    <3>2. Len(f) # 0
      BY <1>5
    <3> QED BY <3>1, <3>2
  <2> QED BY <2>1, <2>2, <1>5 DEF Polys
<1>7. Deg(f) = 1
  BY <1>5 DEF Deg
<1>8. ASSUME NEW y \in Int PROVE Evaluate(f, y) = Mod(y - a)
  <2>1. PICK h : Horner(f, y, h) /\ h[0] = Evaluate(f, y) /\ \A i \in Nat : i >= Len(f) => h[i] = 0
    BY <1>5, EvalHorner
  <2>2. \A i \in Nat : h[i] = Mod(Coeff(f, i) + y * h[i+1])
    BY <2>1 DEF Horner
  <2>3. h[2] = 0
    BY <2>1, <1>5
  <2>4. Coeff(f, 0) = c /\ Coeff(f, 1) = 1
    <3>1. 0 \in 0 .. 1 /\ 1 \in 0 .. 1 /\ 0+1 = 1 /\ 1+1 = 2
      OBVIOUS
    <3> QED BY <3>1, <1>5, <1>7 DEF Coeff
  <2>5. 1+1 = 2 /\ 0+1 = 1 /\ 1 + y * 0 = 1
    OBVIOUS
  <2>6. h[1] = 1
    BY <2>2, <2>3, <2>4, <2>5, ModSmall
  <2>7. h[0] = Mod(c + y * 1)
    BY <2>2, <2>4, <2>5, <2>6
  <2>8. c + y * 1 = y + c /\ y + (p - a) = (y - a) + p*1 /\ y - a \in Int
    BY <1>2, <1>3
  <2>9. Mod(y + Mod(p - a)) = Mod(y + (p - a))
    BY <1>2, ModPlus
  <2>10. Mod((y - a) + p*1) = Mod(y - a)
    BY <2>8, ModShift
  <2> QED BY <2>1, <2>7, <2>8, <2>9, <2>10, <1>1
<1> QED BY <1>1, <1>4, <1>6, <1>7, <1>8 DEF Mod

\* g is the table that FromRoots computes.
IsProd(g, xs) ==
    g = [i \in 0 .. Len(xs) |-> IF i = 0 THEN <<1>> ELSE Times(g[i-1], <<(p - xs[i]) % p, 1>>)]

\* FromRoots has a table.
LEMMA ProdExists ==
    ASSUME NEW xs, Len(xs) \in Nat, \A i \in 1 .. Len(xs) : xs[i] \in Field
    PROVE  \E g : IsProd(g, xs)
<1> DEFINE n == Len(xs)
           step == [kf \in Nat \X Polys |->
                      IF kf[1] + 1 <= n THEN Times(kf[2], <<(p - xs[kf[1] + 1]) % p, 1>>) ELSE <<>>]
<1>1. IsStep(step, Polys)
  <2>1. ASSUME NEW k \in Nat, NEW f \in Polys, k + 1 <= n
        PROVE  Times(f, <<(p - xs[k + 1]) % p, 1>>) \in Polys
    <3>1. xs[k + 1] \in Field
      BY <2>1
    <3>2. <<(p - xs[k + 1]) % p, 1>> \in Polys
      BY <3>1, FactorIs
    <3> HIDE DEF n
    <3> QED BY <3>2, TimesIs DEF Polys
  <2>2. \A ks \in Nat \X Polys : ks[1] \in Nat /\ ks[2] \in Polys
    OBVIOUS
  <2> HIDE DEF n
  <2>3. step \in [Nat \X Polys -> Polys]
    BY <2>1, <2>2, ZeroPoly
  <2> HIDE DEF step
  <2> QED BY <2>3 DEF IsStep
<1>2. <<1>> \in Polys
  BY ModSmall DEF Polys
<1>3. PICK f : Follows(f, Polys, <<1>>, step)
  <2> HIDE DEF step
  <2> QED BY <1>1, <1>2, Recursion
<1>4. f \in [Nat -> Polys] /\ f[0] = <<1>> /\ \A i \in Nat : f[i+1] = step[<<i, f[i]>>]
  <2> HIDE DEF step
  <2> QED BY <1>3 DEF Follows
<1>5. n \in Nat
  OBVIOUS
<1> HIDE DEF n
<1> DEFINE g == [i \in 0 .. n |-> f[i]]
<1>6. ASSUME NEW i \in 0 .. n
      PROVE  g[i] = IF i = 0 THEN <<1>> ELSE Times(g[i-1], <<(p - xs[i]) % p, 1>>)
  <2>1. CASE i = 0
    BY <2>1, <1>4
  <2>2. CASE i # 0
    <3>1. i-1 \in Nat /\ i-1 \in 0 .. n /\ (i-1)+1 = i /\ i <= n
      BY <2>2, <1>5
    <3>2. f[i-1] \in Polys
      BY <3>1, <1>4
    <3>3. f[(i-1)+1] = step[<<i-1, f[i-1]>>]
      <4> HIDE DEF step
      <4> QED BY <3>1, <1>4
    <3>4. step[<<i-1, f[i-1]>>] = Times(f[i-1], <<(p - xs[i]) % p, 1>>)
      BY <3>1, <3>2
    <3> QED BY <2>2, <3>1, <3>3, <3>4
  <2> QED BY <2>1, <2>2
<1>7. g = [i \in 0 .. n |-> g[i]]
  OBVIOUS
<1>8. IsProd(g, xs)
  <2> HIDE DEF g
  <2> QED BY <1>6, <1>7 DEF IsProd, n
<1> QED BY <1>8

\* The product of the factors x - xs[i] has their roots and no others.
LEMMA FromRootsIs ==
    ASSUME NEW xs, Len(xs) \in Nat, \A i \in 1 .. Len(xs) : xs[i] \in Field
    PROVE  /\ FromRoots(xs) \in Polys /\ FromRoots(xs) # <<>> /\ Deg(FromRoots(xs)) = Len(xs)
           /\ \A y \in Field : Evaluate(FromRoots(xs), y) = 0 <=> \E i \in 1 .. Len(xs) : y = xs[i]
<1>1. PICK g : g = (CHOOSE s : IsProd(s, xs))
  OBVIOUS
<1>2. IsProd(g, xs)
  BY <1>1, ProdExists
<1>3. FromRoots(xs) = g[Len(xs)]
  BY <1>1 DEF FromRoots, IsProd
<1>4. PICK n \in Nat : n = Len(xs)
  OBVIOUS
<1>5. g[0] = <<1>> /\ \A k \in Nat : k < n => g[k+1] = Times(g[k], <<(p - xs[k+1]) % p, 1>>)
  <2>1. \A i \in 0 .. n : g[i] = IF i = 0 THEN <<1>> ELSE Times(g[i-1], <<(p - xs[i]) % p, 1>>)
    BY <1>2, <1>4 DEF IsProd
  <2>2. 0 \in 0 .. n
    OBVIOUS
  <2>3. ASSUME NEW k \in Nat, k < n PROVE g[k+1] = Times(g[k], <<(p - xs[k+1]) % p, 1>>)
    <3>1. k+1 \in 0 .. n /\ k+1 # 0 /\ (k+1)-1 = k
      BY <2>3
    <3> QED BY <3>1, <2>1
  <2> QED BY <2>1, <2>2, <2>3
<1> DEFINE Has(k) == /\ g[k] \in Polys /\ g[k] # <<>> /\ Deg(g[k]) = k
                     /\ \A y \in Field : Evaluate(g[k], y) = 0 <=> \E i \in 1 .. k : y = xs[i]
           S == {k \in Nat : k <= n => Has(k)}
<1>6. 0 \in S
  <2>1. <<1>> \in Polys /\ <<1>> # <<>> /\ Deg(<<1>>) = 0
    BY ModSmall DEF Polys, Deg
  <2>2. ASSUME NEW y \in Field PROVE Evaluate(<<1>>, y) = 1
    <3>1. y \in Int /\ <<1>> \in Seq(Field)
      BY FieldInt, ModSmall
    <3>2. PICK h : Horner(<<1>>, y, h) /\ h[0] = Evaluate(<<1>>, y) /\ \A i \in Nat : i >= Len(<<1>>) => h[i] = 0
      BY <3>1, EvalHorner
    <3>3. \A i \in Nat : h[i] = Mod(Coeff(<<1>>, i) + y * h[i+1])
      BY <3>2 DEF Horner
    <3>4. h[1] = 0
      BY <3>2
    <3>5. Coeff(<<1>>, 0) = 1
      BY DEF Coeff, Deg
    <3>6. 1 + y * 0 = 1 /\ 0+1 = 1
      BY <3>1
    <3>7. h[0] = 1
      BY <3>3, <3>4, <3>5, <3>6, ModSmall
    <3> QED BY <3>2, <3>7
  <2>3. \A y \in Field : ~ \E i \in 1 .. 0 : y = xs[i]
    OBVIOUS
  <2>4. PICK g0 : g0 = g[0] /\ g0 = <<1>>
    BY <1>5
  <2>5. \A y \in Field : Evaluate(g0, y) = 1
    BY <2>2, <2>4
  <2>6. \A y \in Field : ~ (Evaluate(g0, y) = 0)
    BY <2>5
  <2>7. \A y \in Field : Evaluate(g0, y) = 0 <=> \E i \in 1 .. 0 : y = xs[i]
    BY <2>3, <2>6
  <2>8. g0 \in Polys /\ g0 # <<>> /\ Deg(g0) = 0
    BY <2>1, <2>4
  <2>9. Has(0)
    BY <2>4, <2>7, <2>8
  <2> HIDE DEF Has
  <2> QED BY <2>9
<1>7. ASSUME NEW k \in Nat, k \in S PROVE k+1 \in S
  <2> SUFFICES ASSUME k+1 <= n PROVE Has(k+1)
    OBVIOUS
  <2>1. Has(k) /\ k < n
    BY <1>7
  <2>2. k+1 \in 1 .. n
    OBVIOUS
  <2>3. PICK a \in Field : a = xs[k+1]
    BY <2>2, <1>4
  <2>4. PICK f : f = <<(p - a) % p, 1>>
    OBVIOUS
  <2>5. f \in Polys /\ f # <<>> /\ Deg(f) = 1 /\ \A y \in Int : Evaluate(f, y) = Mod(y - a)
    BY <2>4, FactorIs
  <2>6. g[k+1] = Times(g[k], f)
    BY <1>5, <2>1, <2>3, <2>4
  <2>7. g[k] \in Polys /\ g[k] # <<>> /\ Deg(g[k]) = k
    BY <2>1
  <2>8. g[k] \in Seq(Field) /\ f \in Seq(Field)
    BY <2>5, <2>7 DEF Polys
  <2>9. g[k+1] \in Polys /\ g[k+1] # <<>> /\ Deg(g[k+1]) = k+1
    <3> HIDE DEF Has, S
    <3> QED BY <2>5, <2>6, <2>7, <2>8, TimesIs, TimesDegree
  <2>10. ASSUME NEW y \in Field
         PROVE  Evaluate(g[k+1], y) = 0 <=> \E i \in 1 .. k+1 : y = xs[i]
    <3>1. y \in Int /\ a \in Int /\ y - a \in Int
      BY FieldInt
    <3>2. PICK u \in Int : u = Evaluate(g[k], y) /\ Mod(u) = u
      BY <3>1, <2>8, EvalType, ModOf
    <3>3. PICK w \in Int : w = Evaluate(f, y) /\ Mod(w) = w
      BY <3>1, <2>8, EvalType, ModOf
    <3>4. Evaluate(g[k+1], y) = Mod(u * w)
      <4> HIDE DEF Has, S
      <4> QED BY <2>6, <2>8, <3>1, <3>2, <3>3, EvalTimes
    <3>5. Mod(u * w) = 0 <=> (u = 0 \/ w = 0)
      <4>1. ASSUME Mod(u * w) = 0 PROVE u = 0 \/ w = 0
        BY <4>1, <3>2, <3>3, NoZeroDivisors
      <4>2. ASSUME u = 0 \/ w = 0 PROVE Mod(u * w) = 0
        <5>1. u * w = 0
          BY <4>2
        <5> QED BY <5>1, ModSmall
      <4> QED BY <4>1, <4>2
    <3>6. w = 0 <=> y = a
      <4>1. ASSUME w = 0 PROVE y = a
        BY <4>1, <2>5, <3>1, <3>3, DifferentMod
      <4>2. ASSUME y = a PROVE w = 0
        <5>1. y - a = 0
          BY <4>2, <3>1
        <5> QED BY <5>1, <2>5, <3>1, <3>3, ModSmall
      <4> QED BY <4>1, <4>2
    <3>7. u = 0 <=> \E i \in 1 .. k : y = xs[i]
      BY <2>1, <3>2
    <3>8. (\E i \in 1 .. k+1 : y = xs[i]) <=> (\E i \in 1 .. k : y = xs[i]) \/ y = xs[k+1]
      <4>1. \A i \in 1 .. k+1 : i \in 1 .. k \/ i = k+1
        OBVIOUS
      <4>2. \A i \in 1 .. k : i \in 1 .. k+1
        OBVIOUS
      <4>3. k+1 \in 1 .. k+1
        OBVIOUS
      <4> HIDE DEF Has, S
      <4> QED BY <4>1, <4>2, <4>3
    <3> HIDE DEF Has, S
    <3> QED BY <2>3, <3>4, <3>5, <3>6, <3>7, <3>8
  <2> QED BY <2>9, <2>10
<1>8. n \in S
  <2> HIDE DEF S
  <2> QED BY <1>6, <1>7, Induct
<1>9. Has(n)
  BY <1>8
<1> HIDE DEF S
<1> QED BY <1>3, <1>4, <1>9

\* Lagrange's polynomial for point i.
Others(xs, i) == [j \in 1 .. Len(xs) - 1 |-> IF j < i THEN xs[j] ELSE xs[j+1]]

\* It is 0 at all points but i, and there it is ys[i].
LagrangeTerm(xs, ys, i) ==
    Scale((ys[i] * inv[Evaluate(FromRoots(Others(xs, i)), xs[i])]) % p, FromRoots(Others(xs, i)))

\* n points of the field, at different places.
ArePoints(xs, ys) ==
    /\ Len(xs) \in Nat
    /\ \A i \in 1 .. Len(xs) : xs[i] \in Field /\ ys[i] \in Field
    /\ \A i, j \in 1 .. Len(xs) : i # j => xs[i] # xs[j]

\* LagrangeTerm is of degree below the number of points, and has these values.
LEMMA LagrangeTermIs ==
    ASSUME NEW xs, NEW ys, ArePoints(xs, ys), NEW i \in 1 .. Len(xs)
    PROVE  /\ LagrangeTerm(xs, ys, i) \in Polys
           /\ Len(LagrangeTerm(xs, ys, i)) <= Len(xs)
           /\ \A j \in 1 .. Len(xs) :
                 Evaluate(LagrangeTerm(xs, ys, i), xs[j]) = IF j = i THEN ys[i] ELSE 0
<1>1. PICK n \in Nat : n = Len(xs)
  BY DEF ArePoints
<1>2. n-1 \in Nat /\ i \in 1 .. n
  BY <1>1
<1>3. PICK v : v = Others(xs, i)
  OBVIOUS
<1>4. v = [j \in 1 .. n-1 |-> IF j < i THEN xs[j] ELSE xs[j+1]]
  BY <1>1, <1>3 DEF Others
<1>5. \A j \in 1 .. n : xs[j] \in Field /\ ys[j] \in Field
  BY <1>1 DEF ArePoints
<1>6. \A j \in 1 .. n-1 : v[j] \in Field
  BY <1>2, <1>4, <1>5
<1>7. Len(v) = n-1
  <2>1. v \in Seq(Field)
    BY <1>2, <1>4, <1>6
  <2> QED BY <1>2, <1>4, <2>1
<1>8. PICK f : f = FromRoots(v)
  OBVIOUS
<1>9. /\ f \in Polys /\ f # <<>> /\ Deg(f) = n-1
      /\ \A y \in Field : Evaluate(f, y) = 0 <=> \E j \in 1 .. n-1 : y = v[j]
  BY <1>2, <1>6, <1>7, <1>8, FromRootsIs
<1>10. f \in Seq(Field) /\ Len(f) = n
  <2>1. f \in Seq(Field) /\ Len(f) \in Nat
    BY <1>9 DEF Polys
  <2> QED BY <2>1, <1>2, <1>9 DEF Deg
<1>11. ASSUME NEW j \in 1 .. n, j # i PROVE Evaluate(f, xs[j]) = 0
  <2>1. \E l \in 1 .. n-1 : v[l] = xs[j]
    <3>1. CASE j < i
      <4>1. j \in 1 .. n-1 /\ v[j] = xs[j]
        BY <3>1, <1>2, <1>4
      <4> QED BY <4>1
    <3>2. CASE j > i
      <4>1. j-1 \in 1 .. n-1 /\ ~ (j-1 < i) /\ (j-1)+1 = j
        BY <3>2, <1>2
      <4>2. v[j-1] = xs[j]
        BY <4>1, <1>4
      <4> QED BY <4>1, <4>2
    <3> QED BY <3>1, <3>2, <1>11, <1>2
  <2> QED BY <2>1, <1>5, <1>9
<1>12. Evaluate(f, xs[i]) # 0
  <2>1. ASSUME NEW l \in 1 .. n-1 PROVE xs[i] # v[l]
    <3>1. CASE l < i
      <4>1. v[l] = xs[l] /\ l \in 1 .. n /\ l # i
        BY <3>1, <1>2, <1>4
      <4> QED BY <4>1, <1>1 DEF ArePoints
    <3>2. CASE ~ (l < i)
      <4>1. v[l] = xs[l+1] /\ l+1 \in 1 .. n /\ l+1 # i
        BY <3>2, <1>2, <1>4
      <4> QED BY <4>1, <1>1 DEF ArePoints
    <3> QED BY <3>1, <3>2
  <2> QED BY <2>1, <1>2, <1>5, <1>9
<1>13. xs[i] \in Field /\ xs[i] \in Int /\ ys[i] \in Field /\ ys[i] \in Int
  BY <1>2, <1>5, FieldInt
<1>14. PICK u \in Field : u = Evaluate(f, xs[i]) /\ u \in 1 .. p-1
  <2>1. Evaluate(f, xs[i]) \in Field
    BY <1>10, <1>13, EvalType
  <2> QED BY <2>1, <1>12 DEF Field
<1>15. PICK e \in 1 .. p-1 : e = inv[u] /\ Mod(u * e) = 1
  BY <1>14, InverseOf DEF Mod
<1>16. PICK b \in Field : b = ys[i]
  BY <1>13
<1>17. b \in Int /\ e \in Int /\ u \in Int /\ b * e \in Int
  BY FieldInt
<1>18. PICK c : c = Mod(b * e)
  OBVIOUS
<1>19. c \in Int
  BY <1>17, <1>18, ModType
<1>20. PICK h : h = LagrangeTerm(xs, ys, i)
  OBVIOUS
<1>21. h = Scale(c, f)
  BY <1>3, <1>8, <1>14, <1>15, <1>16, <1>18, <1>20 DEF LagrangeTerm, Mod
<1>22. h \in Polys /\ Len(h) <= n
  BY <1>10, <1>19, <1>21, ScaleIs
<1>23. ASSUME NEW j \in 1 .. n PROVE Evaluate(h, xs[j]) = Mod(c * Evaluate(f, xs[j]))
  <2>1. xs[j] \in Int
    BY <1>5, FieldInt
  <2> QED BY <2>1, <1>10, <1>19, <1>21, EvalScale
<1>24. Mod(c * u) = b
  <2>1. Mod(u * Mod(b * e)) = Mod(u * (b * e))
    BY <1>17, ModTimes
  <2>2. u * e \in Int
    BY <1>17
  <2>3. Mod(b * Mod(u * e)) = Mod(b * (u * e))
    BY <1>17, <2>2, ModTimes
  <2>4. u * (b * e) = b * (u * e) /\ b * 1 = b /\ c * u = u * c
    BY <1>17, <1>19
  <2>5. Mod(b) = b
    BY ModOf
  <2> QED BY <2>1, <2>3, <2>4, <2>5, <1>15, <1>18
<1>25. ASSUME NEW j \in 1 .. n PROVE Evaluate(h, xs[j]) = IF j = i THEN ys[i] ELSE 0
  <2>1. CASE j = i
    BY <2>1, <1>14, <1>16, <1>23, <1>24
  <2>2. CASE j # i
    <3>1. c * 0 = 0
      BY <1>19
    <3> QED BY <2>2, <3>1, <1>11, <1>23, ModSmall
  <2> QED BY <2>1, <2>2
<1> QED BY <1>1, <1>20, <1>22, <1>25

\* g is the table that Interpolate computes.
IsLagrange(g, xs, ys) ==
    g = [i \in 0 .. Len(xs) |-> IF i = 0 THEN <<>> ELSE Plus(g[i-1], LagrangeTerm(xs, ys, i))]

\* Interpolate has a table.
LEMMA LagrangeExists ==
    ASSUME NEW xs, NEW ys, ArePoints(xs, ys)
    PROVE  \E g : IsLagrange(g, xs, ys)
<1> DEFINE n == Len(xs)
           step == [kf \in Nat \X Polys |->
                      IF kf[1] + 1 <= n THEN Plus(kf[2], LagrangeTerm(xs, ys, kf[1] + 1)) ELSE <<>>]
<1>1. IsStep(step, Polys)
  <2>1. ASSUME NEW k \in Nat, NEW f \in Polys, k + 1 <= n
        PROVE  Plus(f, LagrangeTerm(xs, ys, k + 1)) \in Polys
    <3>1. k + 1 \in 1 .. Len(xs)
      BY <2>1 DEF ArePoints
    <3>2. LagrangeTerm(xs, ys, k + 1) \in Polys
      BY <3>1, LagrangeTermIs
    <3> QED BY <3>2, PlusIs DEF Polys
  <2>2. \A ks \in Nat \X Polys : ks[1] \in Nat /\ ks[2] \in Polys
    OBVIOUS
  <2> HIDE DEF n
  <2>3. step \in [Nat \X Polys -> Polys]
    BY <2>1, <2>2, ZeroPoly
  <2> HIDE DEF step
  <2> QED BY <2>3 DEF IsStep
<1>3. PICK f : Follows(f, Polys, <<>>, step)
  <2> HIDE DEF step
  <2> QED BY <1>1, ZeroPoly, Recursion
<1>4. f \in [Nat -> Polys] /\ f[0] = <<>> /\ \A i \in Nat : f[i+1] = step[<<i, f[i]>>]
  <2> HIDE DEF step
  <2> QED BY <1>3 DEF Follows
<1>5. n \in Nat
  BY DEF ArePoints
<1> HIDE DEF n
<1> DEFINE g == [i \in 0 .. n |-> f[i]]
<1>6. ASSUME NEW i \in 0 .. n
      PROVE  g[i] = IF i = 0 THEN <<>> ELSE Plus(g[i-1], LagrangeTerm(xs, ys, i))
  <2>1. CASE i = 0
    BY <2>1, <1>4
  <2>2. CASE i # 0
    <3>1. i-1 \in Nat /\ i-1 \in 0 .. n /\ (i-1)+1 = i /\ i <= n
      BY <2>2, <1>5
    <3>2. f[i-1] \in Polys
      BY <3>1, <1>4
    <3>3. f[(i-1)+1] = step[<<i-1, f[i-1]>>]
      <4> HIDE DEF step
      <4> QED BY <3>1, <1>4
    <3>4. step[<<i-1, f[i-1]>>] = Plus(f[i-1], LagrangeTerm(xs, ys, i))
      BY <3>1, <3>2
    <3> QED BY <2>2, <3>1, <3>3, <3>4
  <2> QED BY <2>1, <2>2
<1>7. g = [i \in 0 .. n |-> g[i]]
  OBVIOUS
<1>8. IsLagrange(g, xs, ys)
  <2> HIDE DEF g
  <2> QED BY <1>6, <1>7 DEF IsLagrange, n
<1> QED BY <1>8

\* interpolate returns a polynomial of degree below n through the n points.
THEOREM InterpolateIs ==
    ASSUME NEW xs, NEW ys, ArePoints(xs, ys)
    PROVE  /\ Interpolate(xs, ys) \in Polys
           /\ Len(Interpolate(xs, ys)) <= Len(xs)
           /\ \A j \in 1 .. Len(xs) : Evaluate(Interpolate(xs, ys), xs[j]) = ys[j]
<1>1. PICK g : g = (CHOOSE s : IsLagrange(s, xs, ys))
  OBVIOUS
<1>2. IsLagrange(g, xs, ys)
  BY <1>1, LagrangeExists
<1>3. Interpolate(xs, ys) = g[Len(xs)]
  BY <1>1 DEF Interpolate, IsLagrange, LagrangeTerm, Others
<1>4. PICK n \in Nat : n = Len(xs)
  BY DEF ArePoints
<1>5. g[0] = <<>> /\ \A k \in Nat : k < n => g[k+1] = Plus(g[k], LagrangeTerm(xs, ys, k+1))
  <2>1. \A i \in 0 .. n : g[i] = IF i = 0 THEN <<>> ELSE Plus(g[i-1], LagrangeTerm(xs, ys, i))
    BY <1>2, <1>4 DEF IsLagrange
  <2>2. 0 \in 0 .. n
    OBVIOUS
  <2>3. ASSUME NEW k \in Nat, k < n PROVE g[k+1] = Plus(g[k], LagrangeTerm(xs, ys, k+1))
    <3>1. k+1 \in 0 .. n /\ k+1 # 0 /\ (k+1)-1 = k
      BY <2>3
    <3> QED BY <3>1, <2>1
  <2> QED BY <2>1, <2>2, <2>3
<1>6. \A j \in 1 .. n : xs[j] \in Field /\ xs[j] \in Int /\ ys[j] \in Field
  BY <1>4, FieldInt DEF ArePoints
<1> DEFINE Has(k) == /\ g[k] \in Polys /\ Len(g[k]) <= n
                     /\ \A j \in 1 .. n : Evaluate(g[k], xs[j]) = IF j <= k THEN ys[j] ELSE 0
           S == {k \in Nat : k <= n => Has(k)}
<1>7. 0 \in S
  <2>1. \A j \in 1 .. n : Evaluate(<<>>, xs[j]) = IF j <= 0 THEN ys[j] ELSE 0
    BY <1>6, EvalZero
  <2>2. Len(<<>>) <= n
    OBVIOUS
  <2>3. Has(0)
    BY <2>1, <2>2, <1>5, ZeroPoly
  <2> HIDE DEF Has
  <2> QED BY <2>3
<1>8. ASSUME NEW k \in Nat, k \in S PROVE k+1 \in S
  <2> SUFFICES ASSUME k+1 <= n PROVE Has(k+1)
    OBVIOUS
  <2>1. Has(k) /\ k < n
    BY <1>8
  <2>2. k+1 \in 1 .. Len(xs)
    BY <1>4
  <2>3. PICK f : f = LagrangeTerm(xs, ys, k+1)
    OBVIOUS
  <2>4. /\ f \in Polys /\ Len(f) <= n
        /\ \A j \in 1 .. n : Evaluate(f, xs[j]) = IF j = k+1 THEN ys[k+1] ELSE 0
    BY <2>2, <2>3, <1>4, LagrangeTermIs
  <2>5. PICK u : u = g[k] /\ u \in Polys /\ Len(u) <= n
    BY <2>1
  <2>6. PICK w : w = g[k+1] /\ w = Plus(u, f)
    BY <2>1, <2>3, <2>5, <1>5
  <2>7. u \in Seq(Field) /\ f \in Seq(Field) /\ Len(u) \in Nat /\ Len(f) \in Nat
    BY <2>4, <2>5 DEF Polys
  <2>8. w \in Polys /\ Len(w) <= Maximum(Len(u), Len(f))
    BY <2>6, <2>7, PlusIs
  <2>9. Len(w) <= n
    <3>1. Len(w) \in Nat
      BY <2>8 DEF Polys
    <3> QED BY <3>1, <2>4, <2>5, <2>7, <2>8 DEF Maximum
  <2>10. ASSUME NEW j \in 1 .. n PROVE Evaluate(w, xs[j]) = IF j <= k+1 THEN ys[j] ELSE 0
    <3>1. PICK x \in Int : x = xs[j]
      BY <1>6
    <3>2. PICK b \in Field : b = ys[j]
      BY <1>6
    <3>3. Evaluate(w, x) = Mod(Evaluate(u, x) + Evaluate(f, x))
      BY <2>6, <2>7, EvalPlus
    <3>4. Evaluate(u, x) = IF j <= k THEN b ELSE 0
      <4>1. \A l \in 1 .. n : Evaluate(g[k], xs[l]) = IF l <= k THEN ys[l] ELSE 0
        BY <2>1
      <4> HIDE DEF S, Has
      <4> QED BY <4>1, <2>5, <3>1, <3>2
    <3>5. Evaluate(f, x) = IF j = k+1 THEN b ELSE 0
      BY <2>4, <3>1, <3>2
    <3> HIDE DEF S, Has
    <3>6. b + 0 = b /\ 0 + b = b /\ 0 + 0 = 0
      BY FieldInt
    <3>7. Mod(b) = b /\ Mod(0) = 0
      BY ModOf, ModSmall
    <3>8. CASE j <= k
      BY <3>1, <3>2, <3>3, <3>4, <3>5, <3>6, <3>7, <3>8
    <3>9. CASE j = k+1
      BY <3>1, <3>2, <3>3, <3>4, <3>5, <3>6, <3>7, <3>9
    <3>10. CASE j > k+1
      BY <3>1, <3>2, <3>3, <3>4, <3>5, <3>6, <3>7, <3>10
    <3> QED BY <3>8, <3>9, <3>10
  <2>11. Has(k+1)
    <3> HIDE DEF S
    <3> QED BY <2>6, <2>8, <2>9, <2>10
  <2> QED BY <2>11
<1>9. n \in S
  <2> HIDE DEF S
  <2> QED BY <1>7, <1>8, Induct
<1>10. Has(n)
  BY <1>9
<1> HIDE DEF S
<1>11. \A j \in 1 .. n : Evaluate(g[n], xs[j]) = ys[j]
  <2>1. \A j \in 1 .. n : Evaluate(g[n], xs[j]) = IF j <= n THEN ys[j] ELSE 0
    BY <1>10
  <2> QED BY <2>1
<1> QED BY <1>3, <1>4, <1>10, <1>11

-----------------------------------------------------------------------------
(***************************************************************************)
(* What a decoder needs.                                                   *)
(***************************************************************************)
LEMMA MinusZero ==
    ASSUME NEW f \in Polys, NEW g \in Polys, Minus(f, g) = <<>>
    PROVE  f = g
<1>1. f \in Seq(Field) /\ g \in Seq(Field)
  BY DEF Polys
<1>2. ASSUME NEW i \in Nat PROVE Coeff(f, i) = Coeff(g, i)
  <2>1. Coeff(f, i) \in Field /\ Coeff(g, i) \in Field
    BY <1>1, CoeffType
  <2>2. Coeff(<<>>, i) = Mod(Coeff(f, i) - Coeff(g, i))
    BY <1>1, MinusIs
  <2>3. Coeff(<<>>, i) = 0
    BY DEF Coeff, Deg
  <2> QED BY <2>1, <2>2, <2>3, DifferentMod
<1> QED BY <1>2, SameCoeffs

\* Subtracting a polynomial of higher degree.
LEMMA MinusDegree ==
    ASSUME NEW f \in Polys, NEW g \in Polys, g # <<>>, Deg(f) < Deg(g)
    PROVE  Minus(f, g) \in Polys /\ Minus(f, g) # <<>> /\ Deg(Minus(f, g)) = Deg(g)
<1>1. f \in Seq(Field) /\ g \in Seq(Field) /\ Len(f) \in Nat /\ Len(g) \in Nat
  BY DEF Polys
<1>2. PICK d \in Nat : d = Deg(g) /\ Coeff(g, d) \in 1 .. p-1
  BY Leading
<1>3. PICK h : h = Minus(f, g)
  OBVIOUS
<1>4. /\ h \in Polys /\ Len(h) <= Maximum(Len(f), Len(g))
      /\ \A i \in Nat : Coeff(h, i) = Mod(Coeff(f, i) - Coeff(g, i))
  BY <1>1, <1>3, MinusIs
<1>5. h \in Seq(Field) /\ Len(h) \in Nat
  BY <1>4 DEF Polys
<1>6. d >= Len(f) /\ Len(g) = d+1
  BY <1>1, <1>2 DEF Deg
<1>7. Coeff(f, d) = 0
  BY <1>1, <1>6, CoeffType
<1>8. PICK c \in Field : c = Coeff(g, d) /\ c # 0
  BY <1>2 DEF Field
<1>9. Coeff(h, d) # 0
  <2> SUFFICES ASSUME Coeff(h, d) = 0 PROVE FALSE
    OBVIOUS
  <2>1. Mod(0 - c) = 0
    BY <1>4, <1>7, <1>8
  <2>2. 0 = c
    BY <2>1, ModSmall, DifferentMod
  <2> QED BY <2>2, <1>8
<1>10. h # <<>> /\ Len(h) > d
  BY <1>4, <1>9, DegAtLeast
<1>11. Len(h) <= d+1
  BY <1>1, <1>4, <1>5, <1>6 DEF Maximum
<1>12. Deg(h) = d
  BY <1>5, <1>10, <1>11 DEF Deg
<1> QED BY <1>2, <1>3, <1>4, <1>10, <1>12

\* A quotient is found from the values at more points than the degrees.
THEOREM QuotientIs ==
    ASSUME NEW a \in Polys, NEW c \in Polys, c # <<>>, NEW f \in Polys,
           NEW T \in SUBSET Field, Deg(a) < Cardinality(T), Deg(c) + Deg(f) < Cardinality(T),
           \A x \in T : Evaluate(a, x) = Mod(Evaluate(c, x) * Evaluate(f, x)),
           NEW d, d = DivRem(a, c)
    PROVE  d.q = f /\ d.r = <<>>
<1>1. PICK m \in Nat : m = Cardinality(T)
  BY FieldFinite, FS_CardinalityType
<1>2. PICK q : q = d.q
  OBVIOUS
<1>3. PICK r : r = d.r
  OBVIOUS
<1>4. /\ q \in Polys /\ r \in Polys /\ Deg(r) < Deg(c)
      /\ Deg(a) >= Deg(c) => Deg(q) = Deg(a) - Deg(c)
      /\ Deg(a) < Deg(c) => q = <<>> /\ r = a
      /\ \A x \in Int : Evaluate(a, x) = Mod(Evaluate(q, x) * Evaluate(c, x) + Evaluate(r, x))
  BY <1>2, <1>3, DivRemIs
<1>5. /\ a \in Seq(Field) /\ c \in Seq(Field) /\ f \in Seq(Field)
      /\ q \in Seq(Field) /\ r \in Seq(Field)
      /\ Len(a) \in Nat /\ Len(c) \in Nat /\ Len(f) \in Nat /\ Len(q) \in Nat /\ Len(r) \in Nat
  BY <1>4 DEF Polys
<1>6. Len(c) >= 1
  BY Leading
<1>7. PICK e : e = Minus(q, f)
  OBVIOUS
<1>8. /\ e \in Polys /\ e \in Seq(Field) /\ Len(e) \in Nat
      /\ Len(e) <= Len(q) \/ Len(e) <= Len(f)
  BY <1>5, <1>7, MinusIs DEF Maximum, Polys
<1>9. PICK g : g = Times(e, c)
  OBVIOUS
<1>10. /\ g \in Polys /\ g \in Seq(Field) /\ Len(g) \in Nat
       /\ Len(g) <= Maximum(0, Len(e) + Len(c) - 1)
  BY <1>5, <1>8, <1>9, TimesIs DEF Polys
<1>11. PICK w : w = Plus(g, r)
  OBVIOUS
<1>12. /\ w \in Polys /\ w \in Seq(Field) /\ Len(w) \in Nat
       /\ Len(w) <= Len(g) \/ Len(w) <= Len(r)
       /\ \A i \in Nat : Coeff(w, i) = Mod(Coeff(g, i) + Coeff(r, i))
  <2>1. /\ w \in Polys /\ Len(w) <= Maximum(Len(g), Len(r))
        /\ \A i \in Nat : Coeff(w, i) = Mod(Coeff(g, i) + Coeff(r, i))
    <3>1. g \in Seq(Field) /\ r \in Seq(Field)
      BY <1>5, <1>10
    <3> QED BY <3>1, <1>11, PlusIs
  <2>2. w \in Seq(Field) /\ Len(w) \in Nat
    BY <2>1 DEF Polys
  <2>3. Len(w) <= Len(g) \/ Len(w) <= Len(r)
    BY <2>1 DEF Maximum
  <2> QED BY <2>1, <2>2, <2>3
<1>13. Len(r) <= m
  <2>1. CASE Deg(a) >= Deg(c)
    BY <2>1, <1>1, <1>4, <1>5 DEF Deg
  <2>2. CASE Deg(a) < Deg(c)
    BY <2>2, <1>1, <1>4, <1>5 DEF Deg
  <2> QED BY <2>1, <2>2, <1>5 DEF Deg
<1>14. Len(g) <= m
  <2>1. CASE e = <<>>
    <3>1. g = <<>>
      BY <2>1, <1>9 DEF Times
    <3> QED BY <3>1
  <2>2. CASE e # <<>>
    <3>1. Len(e) >= 1 /\ Len(g) <= Len(e) + Len(c) - 1
      BY <2>2, <1>5, <1>6, <1>8, <1>10 DEF Maximum
    <3>2. CASE Len(e) <= Len(f)
      <4>1. Len(f) + Len(c) - 2 < m
        BY <1>1, <1>5 DEF Deg
      <4> QED BY <3>1, <3>2, <4>1, <1>5, <1>8, <1>10
    <3>3. CASE Len(e) <= Len(q)
      <4>1. Deg(a) >= Deg(c)
        <5>1. q # <<>>
          BY <3>1, <3>3
        <5> QED BY <5>1, <1>4, <1>5 DEF Deg
      <4>2. Len(q) + Len(c) - 1 = Len(a) /\ Len(a) <= m
        BY <4>1, <1>1, <1>4, <1>5 DEF Deg
      <4> QED BY <3>1, <3>3, <4>2, <1>5, <1>8, <1>10
    <3> QED BY <3>2, <3>3, <1>8
  <2> QED BY <2>1, <2>2
<1>15. Deg(w) < m
  BY <1>5, <1>10, <1>12, <1>13, <1>14 DEF Deg
<1>16. ASSUME NEW x \in T PROVE Evaluate(w, x) = 0
  <2>1. x \in Int
    BY FieldInt
  <2>2. PICK u \in Int : u = Evaluate(c, x)
    BY <1>5, <2>1, EvalType
  <2>3. PICK v \in Int : v = Evaluate(f, x)
    BY <1>5, <2>1, EvalType
  <2>4. PICK y \in Int : y = Evaluate(q, x)
    BY <1>5, <2>1, EvalType
  <2>5. PICK z \in Int : z = Evaluate(r, x)
    BY <1>5, <2>1, EvalType
  <2>6. Mod(u * v) = Mod(y * u + z)
    BY <2>1, <2>2, <2>3, <2>4, <2>5, <1>4
  <2>7. Evaluate(e, x) = Mod(y - v)
    BY <2>1, <2>3, <2>4, <1>5, <1>7, EvalMinus
  <2>8. Evaluate(g, x) = Mod(Mod(y - v) * u)
    BY <2>1, <2>2, <2>7, <1>5, <1>8, <1>9, EvalTimes
  <2>9. Evaluate(w, x) = Mod(Mod(Mod(y - v) * u) + z)
    BY <2>1, <2>5, <2>8, <1>5, <1>10, <1>11, EvalPlus
  <2>10. PICK k \in Int : k = Mod(y - v)
    BY ModType
  <2>11. k * u \in Int /\ u * (y - v) \in Int /\ y * u + z \in Int /\ u * v \in Int
    OBVIOUS
  <2>12. Mod(k * u) = Mod(u * (y - v))
    <3>1. k * u = u * k
      OBVIOUS
    <3>2. y - v \in Int
      OBVIOUS
    <3> QED BY <3>1, <3>2, <2>10, ModTimes
  <2>13. Mod(z + Mod(u * (y - v))) = Mod(z + u * (y - v))
    BY <2>11, ModPlus
  <2>14. Mod(Mod(k * u) + z) = Mod(z + u * (y - v))
    <3>1. PICK s \in Int : s = Mod(u * (y - v))
      BY <2>11, ModType
    <3>2. s + z = z + s
      OBVIOUS
    <3> QED BY <3>1, <3>2, <2>12, <2>13
  <2>15. Mod((y * u + z) + (-1) * Mod(u * v)) = Mod((y * u + z) + (-1) * (u * v))
    BY <2>11, ModHorner
  <2>16. (y * u + z) + (-1) * (u * v) = z + u * (y - v)
    OBVIOUS
  <2>17. Mod((y * u + z) + (-1) * Mod(y * u + z)) = Mod((y * u + z) + (-1) * (y * u + z))
    BY <2>11, ModHorner
  <2>18. (y * u + z) + (-1) * (y * u + z) = 0
    OBVIOUS
  <2>19. Mod(z + u * (y - v)) = 0
    BY <2>6, <2>15, <2>16, <2>17, <2>18, ModSmall
  <2> QED BY <2>9, <2>10, <2>14, <2>19
<1>17. w = <<>>
  BY <1>1, <1>12, <1>15, <1>16, ManyRoots
<1>18. \A i \in Nat : Coeff(w, i) = 0
  BY <1>17 DEF Coeff, Deg
<1>19. e = <<>>
  <2> SUFFICES ASSUME e # <<>> PROVE FALSE
    OBVIOUS
  <2>1. Deg(e) \in Nat /\ Deg(c) \in Nat /\ Coeff(e, Deg(e)) \in 1 .. p-1 /\ Coeff(c, Deg(c)) \in 1 .. p-1
    BY <1>8, Leading
  <2>2. PICK k \in Nat : k = Deg(e) + Deg(c)
    BY <2>1
  <2>3. g # <<>> /\ Deg(g) = k
    BY <2>2, <1>8, <1>9, TimesDegree
  <2>4. Coeff(g, k) \in 1 .. p-1
    BY <2>3, <1>10, Leading
  <2>5. k >= Len(r)
    <3>1. Len(r) = Deg(r) + 1
      BY <1>5 DEF Deg
    <3>2. Deg(r) \in Int
      BY <1>5 DEF Deg
    <3> QED BY <3>1, <3>2, <2>1, <2>2, <1>4
  <2>6. Coeff(r, k) = 0
    BY <2>5, <1>5, CoeffType
  <2>7. PICK b \in 1 .. p-1 : b = Coeff(g, k)
    BY <2>4
  <2>8. Mod(b + 0) = b
    <3>1. b \in Field /\ b + 0 = b
      BY DEF Field
    <3> QED BY <3>1, ModOf
  <2>9. b = 0
    BY <2>6, <2>7, <2>8, <1>12, <1>18
  <2> QED BY <2>9
<1>20. q = f
  BY <1>4, <1>7, <1>19, MinusZero
<1>21. r = <<>>
  <2>1. g = <<>>
    BY <1>9, <1>19 DEF Times
  <2>2. ASSUME NEW i \in Nat PROVE Coeff(r, i) = Coeff(<<>>, i)
    <3>1. Coeff(g, i) = 0 /\ Coeff(<<>>, i) = 0
      BY <2>1 DEF Coeff, Deg
    <3>2. PICK b \in Field : b = Coeff(r, i)
      BY <1>5, CoeffType
    <3>3. 0 + b = b
      BY FieldInt
    <3> QED BY <3>1, <3>2, <3>3, <1>12, <1>18, ModOf
  <2> QED BY <2>2, <1>4, ZeroPoly, SameCoeffs
<1> QED BY <1>2, <1>3, <1>20, <1>21

\* The polynomials of a bounded degree, as they are enumerated.
LEMMA PolysUpTo ==
    ASSUME NEW d \in Nat
    PROVE  {Poly(v, d) : v \in [0 .. d -> Field]} = {f \in Polys : Deg(f) <= d}
<1>1. ASSUME NEW v \in [0 .. d -> Field] PROVE Poly(v, d) \in Polys /\ Deg(Poly(v, d)) <= d
  <2>1. d \in Int /\ d >= -1 /\ \A i \in 0 .. d : v[i] \in Field
    OBVIOUS
  <2>2. PICK f : f = Poly(v, d)
    OBVIOUS
  <2>3. f \in Polys /\ Len(f) <= d+1
    BY <2>1, <2>2, PolyIs
  <2>4. Len(f) \in Nat
    BY <2>3 DEF Polys
  <2> QED BY <2>2, <2>3, <2>4 DEF Deg
<1>2. ASSUME NEW f \in Polys, Deg(f) <= d PROVE \E v \in [0 .. d -> Field] : f = Poly(v, d)
  <2>1. f \in Seq(Field) /\ Len(f) \in Nat /\ Len(f) <= d+1
    BY <1>2 DEF Polys, Deg
  <2>2. PICK v : v = [i \in 0 .. d |-> Coeff(f, i)]
    OBVIOUS
  <2>3. \A i \in 0 .. d : v[i] = Coeff(f, i) /\ v[i] \in Field
    BY <2>1, <2>2, CoeffType
  <2>4. v \in [0 .. d -> Field]
    BY <2>2, <2>3
  <2>5. d \in Int /\ d >= -1
    OBVIOUS
  <2>6. /\ Poly(v, d) \in Polys
        /\ \A i \in Nat : Coeff(Poly(v, d), i) = IF i <= d THEN v[i] ELSE 0
    BY <2>3, <2>5, PolyIs
  <2>7. ASSUME NEW i \in Nat PROVE Coeff(f, i) = Coeff(Poly(v, d), i)
    <3>1. CASE i <= d
      <4>1. i \in 0 .. d
        BY <3>1
      <4> QED BY <3>1, <4>1, <2>3, <2>6
    <3>2. CASE ~ (i <= d)
      <4>1. i >= Len(f)
        BY <3>2, <2>1
      <4>2. Coeff(f, i) = 0
        BY <4>1, <2>1, CoeffType
      <4> QED BY <3>2, <4>2, <2>6
    <3> QED BY <3>1, <3>2
  <2>8. f = Poly(v, d)
    BY <2>6, <2>7, SameCoeffs
  <2> QED BY <2>4, <2>8
<1> QED BY <1>1, <1>2

=============================================================================

----------------------------- MODULE Inductions -----------------------------
(***************************************************************************)
(* Induction and recursion over the naturals for sets and functions, as    *)
(* the proofs about the recursive functions of the other modules use them, *)
(* powers of two, and division.                                            *)
(***************************************************************************)
EXTENDS Integers, TLAPS, WellFoundedInduction, NaturalsInduction, FiniteSetTheorems

\* A set of naturals that is not empty has a least element.
LEMMA LeastNatural ==
  ASSUME NEW T \in SUBSET Nat, T # {}
  PROVE  \E m \in T : \A n \in T : m <= n
<1>1. IsWellFoundedOn(OpToRel(<, Nat), Nat)
  BY NatLessThanWellFounded
<1>2. PICK m \in T : \A n \in T : ~(<<n, m>> \in OpToRel(<, Nat))
  BY <1>1, WFMin
<1>3. \A n \in T : ~(n < m)
  BY <1>2 DEF OpToRel
<1> QED BY <1>3

\* Induction for a set of naturals.
LEMMA SetInduction ==
  ASSUME NEW S, 0 \in S, \A n \in Nat : n \in S => n + 1 \in S
  PROVE  Nat \subseteq S
<1> SUFFICES ASSUME Nat \ S # {} PROVE FALSE
  OBVIOUS
<1>1. PICK m \in Nat \ S : \A n \in Nat \ S : m <= n
  BY LeastNatural
<1>2. m # 0 /\ m - 1 \in Nat /\ m - 1 \in S
  BY <1>1
<1> QED BY <1>1, <1>2

\* The sequences of results of a step function G along an interval.
Iterations(N, X, x0, G) ==
  {f \in [0 .. N -> X] : f[0] = x0 /\ \A k \in 1 .. N : f[k] = G[<<f[k - 1], k>>]}

\* Recursion along an interval: a step function has a sequence of results.
LEMMA Recursion ==
  ASSUME NEW N \in Nat, NEW X, NEW x0 \in X, NEW G \in [X \X (1 .. N) -> X]
  PROVE  Iterations(N, X, x0, G) # {}
<1> DEFINE Run(n) == {f \in [0 .. n -> X] :
                        f[0] = x0 /\ \A k \in 1 .. n : k <= N => f[k] = G[<<f[k - 1], k>>]}
           S == {n \in Nat : n <= N => Run(n) # {}}
<1>1. 0 \in S
  <2>1. [k \in 0 .. 0 |-> x0] \in Run(0)
    OBVIOUS
  <2> QED BY <2>1
<1>2. ASSUME NEW n \in Nat, n \in S PROVE n + 1 \in S
  <2> SUFFICES ASSUME n + 1 <= N PROVE Run(n + 1) # {}
    OBVIOUS
  <2>1. PICK f \in [0 .. n -> X] : f[0] = x0 /\ \A k \in 1 .. n : k <= N => f[k] = G[<<f[k - 1], k>>]
    BY <1>2
  <2> DEFINE g == [k \in 0 .. (n + 1) |-> IF k = n + 1 THEN G[<<f[n], n + 1>>] ELSE f[k]]
  <2>2. n \in 0 .. n /\ n + 1 \in 1 .. N /\ f[n] \in X
    BY <2>1
  <2>3. G[<<f[n], n + 1>>] \in X
    BY <2>2
  <2>4. g \in [0 .. (n + 1) -> X]
    BY <2>1, <2>3
  <2>5. g[0] = x0 /\ g[n + 1] = G[<<f[n], n + 1>>] /\ \A k \in 0 .. n : g[k] = f[k]
    BY <2>1
  <2>6. ASSUME NEW k \in 1 .. (n + 1), k <= N PROVE g[k] = G[<<g[k - 1], k>>]
    <3> HIDE DEF g
    <3>1. CASE k = n + 1
      BY <2>2, <2>5, <3>1
    <3>2. CASE k \in 1 .. n
      <4>1. k - 1 \in 0 .. n /\ k \in 0 .. n
        BY <3>2
      <4> QED BY <2>1, <2>5, <2>6, <3>2, <4>1
    <3> QED BY <3>1, <3>2
  <2> HIDE DEF g
  <2>7. g \in Run(n + 1)
    BY <2>4, <2>5, <2>6
  <2> QED BY <2>7
<1>3. N \in S
  <2> HIDE DEF S
  <2> QED BY <1>1, <1>2, SetInduction
<1>4. PICK f : f \in Run(N)
  BY <1>3
<1> QED BY <1>4 DEF Iterations

-----------------------------------------------------------------------------
(* Powers of two and division                                              *)

\* The powers of two count subsets.
LEMMA PowerCounts ==
  ASSUME NEW n \in Nat
  PROVE  IsFiniteSet(SUBSET (1 .. n)) /\ Cardinality(SUBSET (1 .. n)) = 2^n
<1>1. IsFiniteSet(1 .. n) /\ Cardinality(1 .. n) = n
  BY FS_Interval
<1> QED BY <1>1, FS_SUBSET

\* A power of two is a positive number, 2^0 is 1, and each is twice the one before.
LEMMA PowerFacts ==
  /\ 2^0 = 1
  /\ \A n \in Nat : 2^n \in Nat \ {0} /\ 2^(n + 1) = 2 * 2^n
<1>1. ASSUME NEW n \in Nat PROVE 2^n \in Nat \ {0}
  <2>1. PICK S : S = SUBSET (1 .. n)
    OBVIOUS
  <2>2. IsFiniteSet(S) /\ Cardinality(S) = 2^n /\ S # {}
    BY <2>1, PowerCounts
  <2>3. Cardinality(S) \in Nat
    BY <2>2, FS_CardinalityType
  <2>4. Cardinality(S) # 0
    BY <2>2, FS_EmptySet
  <2> QED BY <2>2, <2>3, <2>4
<1>2. ASSUME NEW n \in Nat PROVE 2^(n + 1) = 2 * 2^n
  <2> DEFINE S == SUBSET (1 .. n)
             T == {s \cup {n + 1} : s \in S}
             f == [s \in S |-> s \cup {n + 1}]
  <2>1. IsFiniteSet(S) /\ Cardinality(S) = 2^n
    BY PowerCounts
  <2>2. \A s \in S : n + 1 \notin s
    OBVIOUS
  <2>3. f \in Bijection(S, T)
    <3>1. \A s, t \in S : s \cup {n + 1} = t \cup {n + 1} => s = t
      BY <2>2
    <3>2. f \in [S -> T] /\ DOMAIN f = S /\ \A s \in S : f[s] = s \cup {n + 1}
      OBVIOUS
    <3>3. \A t \in T : \E s \in S : f[s] = t
      BY <3>2
    <3> HIDE DEF S, T, f
    <3>4. \A s, t \in S : f[s] = f[t] => s = t
      BY <3>1, <3>2
    <3> QED BY <3>2, <3>3, <3>4 DEF Bijection, Injection, Surjection, IsInjective
  <2>4. IsFiniteSet(T) /\ Cardinality(T) = Cardinality(S)
    BY <2>1, <2>3, FS_Bijection DEF ExistsBijection
  <2>5. S \cap T = {}
    BY <2>2
  <2>6. SUBSET (1 .. (n + 1)) = S \cup T
    <3>1. ASSUME NEW u \in SUBSET (1 .. (n + 1)) PROVE u \in S \cup T
      <4>1. CASE n + 1 \in u
        <5>1. u = (u \ {n + 1}) \cup {n + 1} /\ u \ {n + 1} \in S
          BY <3>1, <4>1
        <5> QED BY <5>1
      <4>2. CASE n + 1 \notin u
        <5> QED BY <3>1, <4>2
      <4> QED BY <4>1, <4>2
    <3>2. \A s \in S : s \subseteq 1 .. (n + 1) /\ s \cup {n + 1} \subseteq 1 .. (n + 1)
      OBVIOUS
    <3>3. S \cup T \subseteq SUBSET (1 .. (n + 1))
      BY <3>2
    <3> QED BY <3>1, <3>3
  <2> HIDE DEF S, T
  <2>7. Cardinality(S \cup T) = Cardinality(S) + Cardinality(T) - Cardinality({})
    BY <2>1, <2>4, <2>5, FS_Union
  <2>8. Cardinality({}) = 0 /\ Cardinality(S) \in Nat
    BY <2>1, FS_EmptySet, FS_CardinalityType
  <2>9. Cardinality(SUBSET (1 .. (n + 1))) = 2^(n + 1)
    <3>1. n + 1 \in Nat
      OBVIOUS
    <3> QED BY <3>1, PowerCounts
  <2>10. Cardinality(S \cup T) = Cardinality(S) + Cardinality(S)
    BY <2>4, <2>7, <2>8
  <2>11. 2^(n + 1) = Cardinality(S) + Cardinality(S)
    BY <2>6, <2>9, <2>10
  <2> QED BY <2>1, <2>8, <2>11
<1>3. 2^0 = 1
  OBVIOUS
<1> QED BY <1>1, <1>2, <1>3

\* Division with remainder.
LEMMA Divided ==
  ASSUME NEW a \in Int, NEW P \in Nat \ {0}
  PROVE  \E q \in Int, r \in 0 .. (P - 1) : a = P * q + r /\ a \div P = q /\ a % P = r
<1>1. a \div P \in Int /\ a % P \in 0 .. (P - 1) /\ a = P * (a \div P) + (a % P)
  BY SMT
<1> QED BY <1>1

\* Quotient and remainder are unique.
LEMMA DivisionUnique ==
  ASSUME NEW P \in Nat \ {0}, NEW q \in Int, NEW r \in 0 .. (P - 1), NEW a, a = P * q + r
  PROVE  a \div P = q /\ a % P = r
BY SMT

\* The power of a sum is the product of the powers.
LEMMA PowerSum ==
  ASSUME NEW m \in Nat, NEW n \in Nat
  PROVE  2^(m + n) = 2^m * 2^n
<1> DEFINE S == {k \in Nat : 2^(m + k) = 2^m * 2^k}
<1>1. 0 \in S
  <2>1. 2^m \in Nat
    BY PowerFacts
  <2>2. m + 0 = m
    OBVIOUS
  <2>3. 2^(m + 0) = 2^m /\ 2^0 = 1
    BY <2>2, PowerFacts
  <2> QED BY <2>1, <2>3
<1>2. ASSUME NEW k \in Nat, k \in S PROVE k + 1 \in S
  <2>1. PICK a \in Nat, b \in Nat : a = 2^m /\ b = 2^k
    BY PowerFacts
  <2>2. 2^(m + k) = a * b /\ 2^(k + 1) = 2 * b
    BY <1>2, <2>1, PowerFacts
  <2>3. m + (k + 1) = (m + k) + 1 /\ m + k \in Nat
    OBVIOUS
  <2>4. 2^(m + (k + 1)) = 2 * (a * b)
    BY <2>2, <2>3, PowerFacts
  <2>5. 2 * (a * b) = a * (2 * b)
    BY ONLY <2>1, SMT
  <2> QED BY <2>1, <2>2, <2>4, <2>5
<1> HIDE DEF S
<1>3. n \in S
  BY <1>1, <1>2, SetInduction
<1> QED BY <1>3 DEF S

\* Residues: a multiple of the modulus makes no difference, and, in the lemmas below, neither
\* does taking the residue of an operand first.
LEMMA ResidueShift ==
  ASSUME NEW P \in Nat \ {0}, NEW a \in Int, NEW k \in Int
  PROVE  (a + P * k) % P = a % P
<1>1. PICK q \in Int, r \in 0 .. (P - 1) : a = P * q + r /\ a % P = r
  BY Divided
<1>2. a + P * k = P * (q + k) + r
  BY <1>1
<1>3. PICK v : v = a + P * k
  OBVIOUS
<1>4. v % P = r
  <2>1. PICK u \in Int : u = q + k
    OBVIOUS
  <2>2. v = P * u + r
    BY <1>2, <1>3, <2>1
  <2> QED BY <2>2, DivisionUnique
<1> QED BY <1>1, <1>3, <1>4

\* A residue lies below the modulus, and differs from its number by a multiple of it.
LEMMA ResidueOf ==
  ASSUME NEW P \in Nat \ {0}, NEW a \in Int
  PROVE  a % P \in 0 .. (P - 1) /\ \E k \in Int : a % P = a + P * k
<1>1. PICK q \in Int, r \in 0 .. (P - 1) : a = P * q + r /\ a % P = r
  BY Divided
<1>2. a % P = a + P * (-q) /\ -q \in Int
  BY <1>1
<1> QED BY <1>1, <1>2

\* Of a sum.
LEMMA ResidueSum ==
  ASSUME NEW P \in Nat \ {0}, NEW a \in Int, NEW b \in Int
  PROVE  ((a % P) + b) % P = (a + b) % P /\ (b + (a % P)) % P = (b + a) % P
<1>1. PICK k \in Int : a % P = a + P * k
  BY ResidueOf
<1>2. (a + b + P * k) % P = (a + b) % P
  <2>1. PICK u \in Int : u = a + b
    OBVIOUS
  <2> QED BY <2>1, ResidueShift
<1>3. (a % P) + b = a + b + P * k /\ b + (a % P) = a + b + P * k /\ b + a = a + b
  BY <1>1
<1> QED BY <1>2, <1>3

\* Of a difference.
LEMMA ResidueDifference ==
  ASSUME NEW P \in Nat \ {0}, NEW a \in Int, NEW b \in Int
  PROVE  ((a % P) - b) % P = (a - b) % P /\ (b - (a % P)) % P = (b - a) % P
<1>1. PICK k \in Int : a % P = a + P * k
  BY ResidueOf
<1>2. (a - b + P * k) % P = (a - b) % P
  <2>1. PICK u \in Int : u = a - b
    OBVIOUS
  <2> QED BY <2>1, ResidueShift
<1>3. (b - a + P * (-k)) % P = (b - a) % P
  <2>1. PICK u \in Int, j \in Int : u = b - a /\ j = -k
    OBVIOUS
  <2> QED BY <2>1, ResidueShift
<1>4. P * (-k) = -(P * k)
  OBVIOUS
<1>5. (a % P) - b = a - b + P * k /\ b - (a % P) = b - a + P * (-k)
  BY <1>1, <1>4
<1> QED BY <1>2, <1>3, <1>5

\* Of a product.
LEMMA ResidueProduct ==
  ASSUME NEW P \in Nat \ {0}, NEW a \in Int, NEW b \in Int
  PROVE  ((a % P) * b) % P = (a * b) % P /\ (b * (a % P)) % P = (b * a) % P
<1>1. PICK k \in Int : a % P = a + P * k
  BY ResidueOf
<1>2. PICK u \in Int, j \in Int : u = a * b /\ j = k * b
  OBVIOUS
<1>3. (u + P * j) % P = u % P
  BY ResidueShift
<1>4. (a % P) * b = u + P * j /\ b * (a % P) = u + P * j /\ b * a = u
  <2>1. (a + P * k) * b = a * b + P * (k * b) /\ b * (a + P * k) = a * b + P * (k * b)
    OBVIOUS
  <2> QED BY <1>1, <1>2, <2>1
<1> QED BY <1>2, <1>3, <1>4

\* A residue of a residue, when one modulus divides the other.
LEMMA ResidueResidue ==
  ASSUME NEW P \in Nat \ {0}, NEW Q \in Nat \ {0}, NEW d \in Nat, Q = P * d, NEW a \in Int
  PROVE  (a % Q) % P = a % P
<1>1. PICK k \in Int : a % Q = a + Q * k
  BY ResidueOf
<1>2. PICK j \in Int : j = d * k
  OBVIOUS
<1>3. a % Q = a + P * j
  <2>1. (P * d) * k = P * (d * k)
    OBVIOUS
  <2> QED BY <1>1, <1>2, <2>1
<1> QED BY <1>3, ResidueShift

\* A residue is its own.
LEMMA ResidueSmall ==
  ASSUME NEW P \in Nat \ {0}, NEW a \in 0 .. (P - 1)
  PROVE  a % P = a
<1>1. a = P * 0 + a
  OBVIOUS
<1> QED BY <1>1, DivisionUnique
=============================================================================

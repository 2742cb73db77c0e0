-------------------------- MODULE ExclusivesProofs --------------------------
(***************************************************************************)
(* Proofs about Exclusives, for every number of threads, every width of a  *)
(* doubleword and every workload: each atomic, exclusive and pair access   *)
(* is one step of AtomicMemory, on whichever path the code carries it out. *)
(* The words come first: what the shifts, masks and bitwise operations of  *)
(* the generated code do to the bits of a datum.                           *)
(***************************************************************************)
EXTENDS Exclusives, Inductions, SequenceTheorems, FiniteSetTheorems

-----------------------------------------------------------------------------
(* Bits of words                                                           *)

\* A bit is 0 or 1.
LEMMA BitType ==
  ASSUME NEW a \in Nat, NEW i \in Nat
  PROVE  Bit(a, i) \in {0, 1}
<1>1. PICK P \in Nat \ {0} : P = 2^i
  BY PowerFacts
<1>2. PICK q : q = a \div P
  OBVIOUS
<1>3. q \in Int
  BY <1>1, <1>2, Divided
<1>4. q % 2 \in 0 .. 1
  BY <1>3
<1> QED BY <1>1, <1>2, <1>4 DEF Bit

\* The bits of a number put together from x below and u above.
LEMMA SplitBits ==
  ASSUME NEW h \in Nat, NEW x \in Word(h), NEW u \in Nat, NEW i \in Nat
  PROVE  Bit(x + 2^h * u, i) = IF i < h THEN Bit(x, i) ELSE Bit(u, i - h)
<1>1. PICK P \in Nat \ {0} : P = 2^h
  BY PowerFacts
<1>2. x \in 0 .. (P - 1)
  BY <1>1 DEF Word
<1>3. CASE i < h
  <2>1. PICK k \in Nat : h = i + (k + 1)
    <3>1. h - i - 1 \in Nat /\ h = i + ((h - i - 1) + 1)
      BY <1>3
    <3> QED BY <3>1
  <2>2. PICK R \in Nat \ {0}, S \in Nat : R = 2^i /\ S = 2^k
    BY PowerFacts
  <2>3. P = R * (2 * S)
    <3>1. 2^(k + 1) = 2 * S
      BY <2>2, PowerFacts
    <3>2. k + 1 \in Nat /\ 2^h = 2^(i + (k + 1))
      BY <2>1
    <3>3. 2^(i + (k + 1)) = 2^i * 2^(k + 1)
      BY <3>2, PowerSum
    <3> QED BY <1>1, <2>2, <3>1, <3>2, <3>3
  <2>4. PICK q \in Int, r \in 0 .. (R - 1) : x = R * q + r /\ x \div R = q
    BY <1>2, <2>2, Divided
  <2>5. PICK z \in Int : z = q + 2 * (S * u)
    BY <2>2
  <2>6. PICK y : y = x + P * u
    OBVIOUS
  <2>7. y = R * z + r
    BY ONLY <2>2, <2>3, <2>4, <2>5, <2>6, x \in Int, u \in Nat, SMT
  <2>9. y \div R = z
    BY <2>7, DivisionUnique
  <2>8. z % 2 = q % 2
    BY ONLY <2>2, <2>4, <2>5, u \in Nat, SMT
  <2> QED BY <1>1, <1>3, <2>2, <2>4, <2>6, <2>8, <2>9 DEF Bit
<1>4. CASE i >= h
  <2>1. PICK j \in Nat : i = h + j /\ j = i - h
    <3>1. i - h \in Nat /\ i = h + (i - h)
      BY <1>4
    <3> QED BY <3>1
  <2>2. PICK R \in Nat \ {0} : R = 2^j
    BY PowerFacts
  <2>3. 2^i = P * R
    BY <1>1, <2>1, <2>2, PowerSum
  <2>4. PICK q \in Int, r \in 0 .. (R - 1) : u = R * q + r /\ u \div R = q
    BY <2>2, Divided
  <2>5. PICK m \in Nat : m = P * r + x
    BY <1>1, <1>2, <2>2, <2>4
  <2>6. m <= P * R - 1
    BY ONLY <1>1, <1>2, <2>2, <2>4, <2>5, SMT
  <2>7. PICK y, Q : y = x + P * u /\ Q = P * R
    OBVIOUS
  <2>8. y = Q * q + m
    BY ONLY <1>1, <1>2, <2>2, <2>4, <2>5, <2>7, SMT
  <2>9. Q \in Nat \ {0} /\ m \in 0 .. (Q - 1)
    <3>1. P * R \in Nat \ {0}
      BY <1>1, <2>2
    <3> QED BY <2>5, <2>6, <2>7, <3>1
  <2>10. y \div Q = q
    BY <2>8, <2>9, DivisionUnique
  <2>11. Bit(x + 2^h * u, i) = q % 2
    BY <1>1, <2>3, <2>7, <2>10 DEF Bit
  <2>12. Bit(u, j) = q % 2
    BY <2>2, <2>4 DEF Bit
  <2> QED BY <1>4, <2>1, <2>11, <2>12
<1> QED BY <1>3, <1>4

\* A word has no bits above its width.
LEMMA HighBits ==
  ASSUME NEW h \in Nat, NEW x \in Word(h), NEW i \in Nat, i >= h
  PROVE  Bit(x, i) = 0
<1>1. x + 2^h * 0 = x
  <2>1. PICK P \in Nat : P = 2^h
    BY PowerFacts
  <2>2. x \in Int
    BY <2>1 DEF Word
  <2> QED BY <2>1, <2>2
<1>2. Bit(x, i) = Bit(0, i - h)
  BY <1>1, SplitBits
<1>3. PICK j \in Nat : j = i - h
  OBVIOUS
<1>4. PICK P \in Nat \ {0} : P = 2^j
  BY PowerFacts
<1>5. 0 \div P = 0
  BY <1>4
<1> QED BY <1>2, <1>3, <1>4, <1>5 DEF Bit

\* Not turns each bit of a word.
LEMMA NotBits ==
  ASSUME NEW w \in Nat, NEW v \in Word(w), NEW i \in 0 .. (w - 1)
  PROVE  Not(v, w) \in Word(w) /\ Bit(Not(v, w), i) = 1 - Bit(v, i)
<1>1. PICK k \in Nat : w = i + (k + 1)
  <2>1. w - i - 1 \in Nat /\ w = i + ((w - i - 1) + 1)
    OBVIOUS
  <2> QED BY <2>1
<1>2. PICK R \in Nat \ {0}, S \in Nat, P \in Nat \ {0} : R = 2^i /\ S = 2^k /\ P = 2^w
  BY PowerFacts
<1>3. P = R * (2 * S)
  <2>1. 2^(k + 1) = 2 * S
    BY <1>2, PowerFacts
  <2>2. i \in Nat /\ k + 1 \in Nat /\ 2^w = 2^(i + (k + 1))
    BY <1>1
  <2>3. 2^(i + (k + 1)) = 2^i * 2^(k + 1)
    BY <2>2, PowerSum
  <2> QED BY <1>2, <2>1, <2>2, <2>3
<1>4. v \in 0 .. (P - 1)
  BY <1>2 DEF Word
<1>5. PICK y \in 0 .. (P - 1) : y = P - 1 - v
  BY <1>4
<1>6. Not(v, w) = y
  <2>1. v % P = v
    BY <1>4
  <2> QED BY <1>2, <1>5, <2>1 DEF Not, Ones, Trunc
<1>7. PICK q \in Int, r \in 0 .. (R - 1) : v = R * q + r /\ v \div R = q
  BY <1>2, <1>4, Divided
<1>8. PICK z \in Int, m \in 0 .. (R - 1) : z = 2 * S - 1 - q /\ m = R - 1 - r
  BY <1>2, <1>7
<1>9. y = R * z + m
  BY ONLY <1>2, <1>3, <1>5, <1>7, <1>8, SMT
<1>10. y \div R = z
  BY <1>2, <1>9, DivisionUnique
<1>11. z % 2 = 1 - (q % 2)
  BY ONLY <1>2, <1>7, <1>8, SMT
<1>12. Bit(y, i) = z % 2 /\ Bit(v, i) = q % 2
  BY <1>2, <1>7, <1>10 DEF Bit
<1> QED BY <1>2, <1>5, <1>6, <1>11, <1>12 DEF Word

\* v is the number whose bit i is f[i].
Sums(w, f, v) ==
  \E h \in [0 .. w -> Nat] :
    h[0] = 0 /\ (\A n \in 1 .. w : h[n] = h[n - 1] + 2^(n - 1) * f[n - 1]) /\ v = h[w]

\* There is one for any bits.
LEMMA SumExists ==
  ASSUME NEW w \in Nat, NEW f \in [0 .. (w - 1) -> {0, 1}]
  PROVE  \E h \in [0 .. w -> Nat] :
           h[0] = 0 /\ \A n \in 1 .. w : h[n] = h[n - 1] + 2^(n - 1) * f[n - 1]
<1> DEFINE G == [e \in Nat \X (1 .. w) |-> e[1] + 2^(e[2] - 1) * f[e[2] - 1]]
<1>1. ASSUME NEW x \in Nat, NEW n \in 1 .. w
      PROVE  G[<<x, n>>] = x + 2^(n - 1) * f[n - 1] /\ G[<<x, n>>] \in Nat
  <2>1. n - 1 \in Nat /\ f[n - 1] \in {0, 1}
    OBVIOUS
  <2>2. PICK P \in Nat : P = 2^(n - 1)
    BY <2>1, PowerFacts
  <2>3. x + P * f[n - 1] \in Nat
    BY <2>1
  <2>4. <<x, n>> \in Nat \X (1 .. w)
    OBVIOUS
  <2> QED BY <2>2, <2>3, <2>4
<1>2. G \in [Nat \X (1 .. w) -> Nat]
  <2>1. \A e \in Nat \X (1 .. w) : e[1] \in Nat /\ e[2] \in 1 .. w /\ e = <<e[1], e[2]>>
    OBVIOUS
  <2>2. \A e \in Nat \X (1 .. w) : G[e] \in Nat
    BY <1>1, <2>1
  <2>3. G = [e \in Nat \X (1 .. w) |-> G[e]]
    OBVIOUS
  <2> HIDE DEF G
  <2> QED BY <2>2, <2>3
<1> HIDE DEF G
<1>3. PICK h : h \in Iterations(w, Nat, 0, G)
  <2>1. PICK z \in Nat : z = 0
    OBVIOUS
  <2>2. Iterations(w, Nat, z, G) # {}
    BY <1>2, Recursion
  <2> QED BY <2>1, <2>2
<1>4. h \in [0 .. w -> Nat] /\ h[0] = 0 /\ \A n \in 1 .. w : h[n] = G[<<h[n - 1], n>>]
  BY <1>3 DEF Iterations
<1>5. ASSUME NEW n \in 1 .. w PROVE h[n] = h[n - 1] + 2^(n - 1) * f[n - 1]
  <2>1. n - 1 \in 0 .. w
    OBVIOUS
  <2>2. h[n - 1] \in Nat
    BY <1>4, <2>1
  <2> QED BY <1>1, <1>4, <2>2
<1> QED BY <1>4, <1>5

\* Only one.
LEMMA SumUnique ==
  ASSUME NEW w \in Nat, NEW f, NEW v, NEW u, Sums(w, f, v), Sums(w, f, u)
  PROVE  v = u
<1>1. PICK g \in [0 .. w -> Nat] :
        g[0] = 0 /\ (\A n \in 1 .. w : g[n] = g[n - 1] + 2^(n - 1) * f[n - 1]) /\ v = g[w]
  BY DEF Sums
<1>2. PICK h \in [0 .. w -> Nat] :
        h[0] = 0 /\ (\A n \in 1 .. w : h[n] = h[n - 1] + 2^(n - 1) * f[n - 1]) /\ u = h[w]
  BY DEF Sums
<1> DEFINE S == {n \in Nat : n <= w => g[n] = h[n]}
<1>3. 0 \in S
  BY <1>1, <1>2
<1>4. ASSUME NEW n \in Nat, n \in S PROVE n + 1 \in S
  <2> SUFFICES ASSUME n + 1 <= w PROVE g[n + 1] = h[n + 1]
    OBVIOUS
  <2>1. n + 1 \in 1 .. w /\ (n + 1) - 1 = n /\ g[n] = h[n]
    BY <1>4
  <2> QED BY <1>1, <1>2, <2>1
<1>5. w \in S
  <2> HIDE DEF S
  <2> QED BY <1>3, <1>4, SetInduction
<1> QED BY <1>1, <1>2, <1>5

\* It is a word.
LEMMA SumType ==
  ASSUME NEW w \in Nat, NEW f \in [0 .. (w - 1) -> {0, 1}], NEW v, Sums(w, f, v)
  PROVE  v \in Word(w)
<1>1. PICK h \in [0 .. w -> Nat] :
        h[0] = 0 /\ (\A n \in 1 .. w : h[n] = h[n - 1] + 2^(n - 1) * f[n - 1]) /\ v = h[w]
  BY DEF Sums
<1> DEFINE S == {n \in Nat : n <= w => h[n] <= 2^n - 1}
<1>2. 0 \in S
  BY <1>1, PowerFacts
<1>3. ASSUME NEW n \in Nat, n \in S PROVE n + 1 \in S
  <2> SUFFICES ASSUME n + 1 <= w PROVE h[n + 1] <= 2^(n + 1) - 1
    OBVIOUS
  <2>1. n + 1 \in 1 .. w /\ (n + 1) - 1 = n /\ n \in 0 .. w /\ n \in 0 .. (w - 1)
    OBVIOUS
  <2>2. PICK P \in Nat : P = 2^n /\ 2^(n + 1) = 2 * P
    BY PowerFacts
  <2>3. h[n] \in Nat /\ h[n] <= P - 1 /\ f[n] \in {0, 1}
    BY <1>3, <2>1, <2>2
  <2>4. h[n + 1] = h[n] + P * f[n]
    BY <1>1, <2>1, <2>2
  <2>5. P * f[n] <= P
    BY <2>3
  <2> QED BY <2>2, <2>3, <2>4, <2>5
<1>4. w \in S
  <2> HIDE DEF S
  <2> QED BY <1>2, <1>3, SetInduction
<1>5. h[w] \in Nat
  OBVIOUS
<1>6. PICK P \in Nat : P = 2^w
  BY PowerFacts
<1> QED BY <1>1, <1>4, <1>5, <1>6 DEF Word

\* A word is the number of its bits.
LEMMA BitsOfWord ==
  ASSUME NEW w \in Nat, NEW x \in Word(w), NEW f, \A i \in 0 .. (w - 1) : f[i] = Bit(x, i)
  PROVE  Sums(w, f, x)
<1>1. PICK P \in Nat \ {0} : P = 2^w
  BY PowerFacts
<1>2. x \in 0 .. (P - 1)
  BY <1>1 DEF Word
<1> DEFINE h == [n \in 0 .. w |-> x % 2^n]
<1>3. h \in [0 .. w -> Nat]
  <2>1. ASSUME NEW n \in 0 .. w PROVE x % 2^n \in Nat
    <3>1. PICK Q \in Nat \ {0} : Q = 2^n
      BY PowerFacts
    <3> QED BY <1>2, <3>1, Divided
  <2> QED BY <2>1
<1>4. h[0] = 0
  <2>1. 2^0 = 1
    BY PowerFacts
  <2>2. x % 1 = 0
    BY <1>2
  <2> QED BY <2>1, <2>2
<1>5. ASSUME NEW n \in 1 .. w PROVE h[n] = h[n - 1] + 2^(n - 1) * f[n - 1]
  <2>1. PICK k \in 0 .. (w - 1) : k = n - 1 /\ n = k + 1
    <3>1. n - 1 \in 0 .. (w - 1) /\ n = (n - 1) + 1
      OBVIOUS
    <3> QED BY <3>1
  <2>2. k \in Nat
    BY <2>1
  <2>3. PICK Q \in Nat \ {0}, R \in Nat \ {0} : Q = 2^k /\ R = 2^n /\ R = 2 * Q
    BY <2>1, <2>2, PowerFacts
  <2>4. PICK q \in Int, r \in 0 .. (Q - 1) : x = Q * q + r /\ x \div Q = q /\ x % Q = r
    BY <1>2, <2>3, Divided
  <2>5. PICK s \in Int, b \in 0 .. 1 : q = 2 * s + b /\ q % 2 = b
    BY Divided
  <2>6. PICK m \in 0 .. (R - 1) : m = Q * b + r
    <3>1. Q * b \in Nat /\ Q * b <= Q
      BY <2>3, <2>5
    <3>2. Q * b + r \in 0 .. (R - 1)
      BY <2>3, <2>4, <3>1
    <3> QED BY <3>2
  <2>7. x = R * s + m
    BY ONLY <2>3, <2>4, <2>5, <2>6, SMT
  <2>8. x % R = m
    BY <2>7, DivisionUnique
  <2>9. f[k] = b
    BY <2>1, <2>3, <2>4, <2>5 DEF Bit
  <2>10. h[n] = m /\ h[k] = r
    BY <2>1, <2>3, <2>4, <2>8
  <2>11. m = r + Q * b
    BY <2>3, <2>4, <2>5, <2>6
  <2> HIDE DEF h
  <2> QED BY <2>1, <2>3, <2>9, <2>10, <2>11
<1>6. h[w] = x
  <2>1. x % P = x
    BY <1>2
  <2> QED BY <1>1, <2>1
<1> HIDE DEF h
<1> QED BY <1>3, <1>4, <1>5, <1>6 DEF Sums

\* FromBits, whatever the bits are.
LEMMA LowSums ==
  ASSUME NEW w \in Nat, NEW f \in [0 .. (w - 1) -> {0, 1}], NEW low,
         low = [n \in 0 .. w |-> IF n = 0 THEN 0 ELSE low[n - 1] + 2^(n - 1) * f[n - 1]]
  PROVE  Sums(w, f, low[w])
<1>1. PICK h \in [0 .. w -> Nat] :
        h[0] = 0 /\ \A n \in 1 .. w : h[n] = h[n - 1] + 2^(n - 1) * f[n - 1]
  BY SumExists
<1>2. low[0] = 0 /\ \A n \in 1 .. w : low[n] = low[n - 1] + 2^(n - 1) * f[n - 1]
  <2>1. PICK F : F = [n \in 0 .. w |-> IF n = 0 THEN 0 ELSE low[n - 1] + 2^(n - 1) * f[n - 1]]
    OBVIOUS
  <2>2. low = F
    BY <2>1
  <2>3. F[0] = 0 /\ \A n \in 1 .. w : F[n] = low[n - 1] + 2^(n - 1) * f[n - 1]
    BY <2>1
  <2> QED BY <2>2, <2>3
<1> DEFINE S == {n \in Nat : n <= w => low[n] = h[n]}
<1>3. 0 \in S
  BY <1>1, <1>2
<1>4. ASSUME NEW n \in Nat, n \in S PROVE n + 1 \in S
  <2> SUFFICES ASSUME n + 1 <= w PROVE low[n + 1] = h[n + 1]
    OBVIOUS
  <2>1. n + 1 \in 1 .. w /\ (n + 1) - 1 = n /\ low[n] = h[n]
    BY <1>4
  <2> QED BY <1>1, <1>2, <2>1
<1>5. w \in S
  <2> HIDE DEF S
  <2> QED BY <1>3, <1>4, SetInduction
<1>6. low[w] = h[w]
  BY <1>5
<1> QED BY <1>1, <1>6 DEF Sums

\* The function FromBits looks for.
Low(w, f) == CHOOSE low : low = [n \in 0 .. w |-> IF n = 0 THEN 0 ELSE low[n - 1] + 2^(n - 1) * f[n - 1]]

\* What FromBits yields is the number with the bits.
LEMMA FromSums ==
  ASSUME NEW w \in Nat, NEW f \in [0 .. (w - 1) -> {0, 1}]
  PROVE  Sums(w, f, Low(w, f)[w])
<1>1. PICK h \in [0 .. w -> Nat] :
        h[0] = 0 /\ \A n \in 1 .. w : h[n] = h[n - 1] + 2^(n - 1) * f[n - 1]
  BY SumExists
<1>2. h = [n \in 0 .. w |-> IF n = 0 THEN 0 ELSE h[n - 1] + 2^(n - 1) * f[n - 1]]
  BY <1>1
<1> DEFINE low == Low(w, f)
<1>3. low = [n \in 0 .. w |-> IF n = 0 THEN 0 ELSE low[n - 1] + 2^(n - 1) * f[n - 1]]
  BY <1>2 DEF Low
<1> QED BY <1>3, LowSums

\* So And, Or and Xor yield the numbers whose bits are those of their definitions.
LEMMA AndSums ==
  ASSUME NEW w \in Nat, NEW a \in Nat, NEW b \in Nat, NEW f,
         f = [i \in 0 .. (w - 1) |-> Bit(a, i) * Bit(b, i)]
  PROVE  Sums(w, f, And(a, b, w)) /\ f \in [0 .. (w - 1) -> {0, 1}]
<1>1. f \in [0 .. (w - 1) -> {0, 1}]
  <2>1. \A i \in 0 .. (w - 1) : Bit(a, i) * Bit(b, i) \in {0, 1}
    BY BitType
  <2> QED BY <2>1
<1>2. \A g : [n \in 0 .. w |-> IF n = 0 THEN 0 ELSE g[n - 1] + 2^(n - 1) * (Bit(a, n - 1) * Bit(b, n - 1))]
           = [n \in 0 .. w |-> IF n = 0 THEN 0 ELSE g[n - 1] + 2^(n - 1) * f[n - 1]]
  OBVIOUS
<1>3. And(a, b, w) = Low(w, f)[w]
  BY <1>2 DEF And, FromBits, Low
<1> QED BY <1>1, <1>3, FromSums

\* The bits of Or.
LEMMA OrSums ==
  ASSUME NEW w \in Nat, NEW a \in Nat, NEW b \in Nat, NEW f,
         f = [i \in 0 .. (w - 1) |-> IF Bit(a, i) + Bit(b, i) = 0 THEN 0 ELSE 1]
  PROVE  Sums(w, f, Or(a, b, w)) /\ f \in [0 .. (w - 1) -> {0, 1}]
<1>1. f \in [0 .. (w - 1) -> {0, 1}]
  OBVIOUS
<1>2. \A g : [n \in 0 .. w |-> IF n = 0 THEN 0
                ELSE g[n - 1] + 2^(n - 1) * (IF Bit(a, n - 1) + Bit(b, n - 1) = 0 THEN 0 ELSE 1)]
           = [n \in 0 .. w |-> IF n = 0 THEN 0 ELSE g[n - 1] + 2^(n - 1) * f[n - 1]]
  OBVIOUS
<1>3. Or(a, b, w) = Low(w, f)[w]
  BY <1>2 DEF Or, FromBits, Low
<1> QED BY <1>1, <1>3, FromSums

\* The bits of Xor.
LEMMA XorSums ==
  ASSUME NEW w \in Nat, NEW a \in Nat, NEW b \in Nat, NEW f,
         f = [i \in 0 .. (w - 1) |-> (Bit(a, i) + Bit(b, i)) % 2]
  PROVE  Sums(w, f, Xor(a, b, w)) /\ f \in [0 .. (w - 1) -> {0, 1}]
<1>1. f \in [0 .. (w - 1) -> {0, 1}]
  <2>1. \A i \in 0 .. (w - 1) : (Bit(a, i) + Bit(b, i)) % 2 \in {0, 1}
    <3>1. ASSUME NEW i \in 0 .. (w - 1) PROVE (Bit(a, i) + Bit(b, i)) % 2 \in {0, 1}
      <4>1. Bit(a, i) \in {0, 1} /\ Bit(b, i) \in {0, 1}
        BY BitType
      <4>2. PICK x \in {0, 1}, y \in {0, 1} : x = Bit(a, i) /\ y = Bit(b, i)
        BY <4>1
      <4> QED BY <4>2
    <3> QED BY <3>1
  <2> QED BY <2>1
<1>2. \A g : [n \in 0 .. w |-> IF n = 0 THEN 0 ELSE g[n - 1] + 2^(n - 1) * ((Bit(a, n - 1) + Bit(b, n - 1)) % 2)]
           = [n \in 0 .. w |-> IF n = 0 THEN 0 ELSE g[n - 1] + 2^(n - 1) * f[n - 1]]
  OBVIOUS
<1>3. Xor(a, b, w) = Low(w, f)[w]
  BY <1>2 DEF Xor, FromBits, Low
<1> QED BY <1>1, <1>3, FromSums

\* The lower bits of a number.
LEMMA LowBits ==
  ASSUME NEW h \in Nat, NEW a \in Nat
  PROVE  /\ Trunc(a, h) \in Word(h)
         /\ \A i \in 0 .. (h - 1) : Bit(Trunc(a, h), i) = Bit(a, i)
<1>1. PICK P \in Nat \ {0} : P = 2^h
  BY PowerFacts
<1>2. PICK q \in Int, r \in 0 .. (P - 1) : a = P * q + r /\ a \div P = q /\ a % P = r
  BY <1>1, a \in Int, Divided
<1>3. q \in Nat
  BY <1>1, <1>2
<1>4. r \in Word(h) /\ Trunc(a, h) = r
  BY <1>1, <1>2 DEF Word, Trunc
<1>5. a = r + 2^h * q
  BY <1>1, <1>2
<1>6. ASSUME NEW i \in 0 .. (h - 1) PROVE Bit(r, i) = Bit(a, i)
  <2>1. i \in Nat /\ i < h
    OBVIOUS
  <2>2. Bit(r + 2^h * q, i) = Bit(r, i)
    BY <1>3, <1>4, <2>1, SplitBits
  <2> QED BY <1>5, <2>2
<1> QED BY <1>4, <1>6

\* Masking with the ones of a width cuts a number off there.
LEMMA MaskFacts ==
  ASSUME NEW h \in Nat, NEW w \in Nat, h <= w, NEW a \in Nat
  PROVE  And(a, Ones(h), w) = Trunc(a, h)
<1>1. PICK P \in Nat \ {0}, Q \in Nat \ {0} : P = 2^h /\ Q = 2^w /\ P <= Q
  <2>1. PICK k \in Nat : w = h + k
    <3>1. w - h \in Nat /\ w = h + (w - h)
      OBVIOUS
    <3> QED BY <3>1
  <2>2. PICK P \in Nat \ {0}, R \in Nat \ {0} : P = 2^h /\ R = 2^k
    BY PowerFacts
  <2>3. 2^w = P * R
    BY <2>1, <2>2, PowerSum
  <2>4. P * R \in Nat \ {0} /\ P <= P * R
    BY ONLY <2>2, SMT
  <2> QED BY <2>2, <2>3, <2>4
<1>2. PICK x \in Word(h) : x = Trunc(a, h)
  BY LowBits
<1>3. x \in Word(w)
  BY <1>1, <1>2 DEF Word
<1>4. Ones(h) \in Word(h) /\ Ones(h) \in Nat
  BY <1>1 DEF Ones, Word
<1>5. ASSUME NEW i \in 0 .. (w - 1) PROVE Bit(a, i) * Bit(Ones(h), i) = Bit(x, i)
  <2>1. i \in Nat /\ Bit(a, i) \in {0, 1}
    BY BitType
  <2>2. CASE i < h
    <3>1. 0 \in Word(h) /\ Not(0, h) = Ones(h)
      <4>1. 0 % P = 0
        OBVIOUS
      <4> QED BY <1>1, <4>1 DEF Word, Not, Trunc, Ones
    <3>2. i \in 0 .. (h - 1)
      BY <2>1, <2>2
    <3>3. Bit(Ones(h), i) = 1 - Bit(0, i)
      BY <3>1, <3>2, NotBits
    <3>4. Bit(0, i) = 0
      <4>1. 0 \in Word(0)
        BY PowerFacts DEF Word
      <4> QED BY <2>1, <4>1, HighBits
    <3>5. Bit(x, i) = Bit(a, i)
      BY <1>2, <3>2, LowBits
    <3> QED BY <2>1, <3>3, <3>4, <3>5
  <2>3. CASE i >= h
    <3>1. Bit(Ones(h), i) = 0 /\ Bit(x, i) = 0
      BY <1>4, <2>1, <2>3, HighBits
    <3> QED BY <2>1, <3>1
  <2> QED BY <2>1, <2>2, <2>3
<1>6. PICK f : f = [i \in 0 .. (w - 1) |-> Bit(a, i) * Bit(Ones(h), i)]
  OBVIOUS
<1>7. Sums(w, f, And(a, Ones(h), w))
  BY <1>4, <1>6, AndSums
<1>8. Sums(w, f, x)
  BY <1>3, <1>5, <1>6, BitsOfWord
<1> QED BY <1>2, <1>7, <1>8, SumUnique

\* Or puts two halves together.
LEMMA OrFacts ==
  ASSUME NEW h \in Nat, NEW x \in Word(h), NEW u \in Word(h)
  PROVE  /\ Or(x, 2^h * u, 2 * h) = x + 2^h * u
         /\ x + 2^h * u \in Word(2 * h)
<1>1. PICK P \in Nat \ {0} : P = 2^h
  BY PowerFacts
<1>2. 2^(2 * h) = P * P
  <2>1. 2 * h = h + h
    OBVIOUS
  <2> QED BY <1>1, <2>1, PowerSum
<1>3. x \in 0 .. (P - 1) /\ u \in 0 .. (P - 1) /\ x \in Nat /\ u \in Nat
  BY <1>1 DEF Word
<1>4. PICK y, z : y = 2^h * u /\ z = x + y
  OBVIOUS
<1>5. y \in Nat /\ z \in 0 .. (P * P - 1)
  <2>1. P * u \in Nat /\ P * u <= P * (P - 1)
    BY ONLY <1>1, <1>3, SMT
  <2>2. P * (P - 1) = P * P - P
    BY ONLY <1>1, SMT
  <2>3. P * P \in Nat
    BY <1>1
  <2> QED BY <1>1, <1>3, <1>4, <2>1, <2>2, <2>3
<1>6. z \in Word(2 * h)
  BY <1>2, <1>5 DEF Word
<1>7. ASSUME NEW i \in 0 .. (2 * h - 1)
      PROVE  (IF Bit(x, i) + Bit(y, i) = 0 THEN 0 ELSE 1) = Bit(z, i)
  <2>1. i \in Nat /\ 0 \in Word(h) /\ y = 0 + 2^h * u /\ z = x + 2^h * u
    BY <1>1, <1>3, <1>4 DEF Word
  <2>2. Bit(z, i) = IF i < h THEN Bit(x, i) ELSE Bit(u, i - h)
    BY <1>3, <2>1, SplitBits
  <2>3. Bit(y, i) = IF i < h THEN Bit(0, i) ELSE Bit(u, i - h)
    BY <1>3, <2>1, SplitBits
  <2>4. Bit(0, i) = 0
    <3>1. 0 \in Word(0)
      BY PowerFacts DEF Word
    <3> QED BY <2>1, <3>1, HighBits
  <2>5. CASE i < h
    <3>1. Bit(x, i) \in {0, 1}
      BY <1>3, <2>1, BitType
    <3> QED BY <2>2, <2>3, <2>4, <2>5, <3>1
  <2>6. CASE i >= h
    <3>1. Bit(x, i) = 0
      BY <2>1, <2>6, HighBits
    <3>2. i - h \in Nat
      BY <2>1, <2>6
    <3>3. Bit(u, i - h) \in {0, 1}
      BY <1>3, <3>2, BitType
    <3> QED BY <2>1, <2>2, <2>3, <2>6, <3>1, <3>3
  <2> QED BY <2>1, <2>5, <2>6
<1>8. PICK f : f = [i \in 0 .. (2 * h - 1) |-> IF Bit(x, i) + Bit(y, i) = 0 THEN 0 ELSE 1]
  OBVIOUS
<1>9. Sums(2 * h, f, Or(x, y, 2 * h))
  BY <1>3, <1>5, <1>8, OrSums
<1>10. Sums(2 * h, f, z)
  BY <1>6, <1>7, <1>8, BitsOfWord
<1> QED BY <1>4, <1>6, <1>9, <1>10, SumUnique

-----------------------------------------------------------------------------
(* Registers, operations and translation                                   *)

\* The second element of a sequence.
LEMMA AppendPair ==
  ASSUME NEW S, NEW x \in S, NEW u \in S
  PROVE  Append(<<x>>, u) = <<x, u>> /\ Len(<<x>>) = 1 /\ 1 < 2
<1>1. <<x>> \in Seq(S) /\ Len(<<x>>) = 1 /\ <<x>>[1] = x
  OBVIOUS
<1>2. PICK s, q : s = Append(<<x>>, u) /\ q = <<x, u>>
  OBVIOUS
<1>3. s \in Seq(S) /\ Len(s) = 2 /\ s[1] = x /\ s[2] = u
  BY <1>1, <1>2, AppendProperties
<1>4. q \in Seq(S) /\ Len(q) = 2 /\ q[1] = x /\ q[2] = u
  BY <1>2
<1>5. \A i \in 1 .. 2 : s[i] = q[i]
  BY <1>3, <1>4
<1>6. s = q
  <2>1. Len(s) = Len(q) /\ \A i \in 1 .. Len(s) : s[i] = q[i]
    BY <1>3, <1>4, <1>5
  <2> QED BY <1>3, <1>4, <2>1, SeqEqual
<1>7. 1 < 2
  OBVIOUS
<1> QED BY <1>1, <1>2, <1>6, <1>7, Zenon

\* The width of a doubleword is positive and even, and a quadword's is another one.
LEMMA HalfFacts ==
  \E h \in Nat \ {0} : /\ Half = 2 * h /\ Half \div 2 = h /\ Half \in Nat \ {0}
                       /\ 2 * Half # Half /\ 2 * Half \in Nat \ {0}
<1>1. PICK H \in Nat \ {0} : H = Half /\ H % 2 = 0
  BY HalfAssumption
<1>2. PICK q \in Int, r \in 0 .. 1 : H = 2 * q + r /\ H \div 2 = q /\ H % 2 = r
  BY Divided
<1>3. q \in Nat \ {0} /\ H = 2 * q /\ 2 * H # H /\ 2 * H \in Nat \ {0}
  BY <1>1, <1>2
<1> QED BY <1>1, <1>2, <1>3

\* Words are naturals, and 0 is one of each width.
LEMMA WordFacts ==
  ASSUME NEW w \in Nat
  PROVE  /\ \E P \in Nat \ {0} : P = 2^w /\ Word(w) = 0 .. (P - 1)
         /\ Word(w) \subseteq Nat /\ 0 \in Word(w)
<1>1. PICK P \in Nat \ {0} : P = 2^w
  BY PowerFacts
<1> QED BY <1>1 DEF Word

\* Two doublewords make a quadword and are its halves.
LEMMA QuadFacts ==
  ASSUME NEW w \in Nat, NEW x \in Word(w), NEW u \in Word(w)
  PROVE  /\ x + 2^w * u \in Word(2 * w)
         /\ Trunc((x + 2^w * u) \div 2^(w * 0), w) = x
         /\ Trunc((x + 2^w * u) \div 2^(w * 1), w) = u
         /\ Trunc(x + 2^w * u, w) = x /\ (x + 2^w * u) \div 2^w = u
<1>1. x + 2^w * u \in Word(2 * w)
  BY OrFacts
<1>2. PICK P \in Nat \ {0} : P = 2^w /\ Word(w) = 0 .. (P - 1)
  BY WordFacts
<1>3. PICK v : v = x + P * u
  OBVIOUS
<1>4. v = P * u + x /\ u \in Int /\ x \in 0 .. (P - 1) /\ v \in Nat
  BY <1>2, <1>3
<1>5. v \div P = u /\ v % P = x
  BY <1>4, DivisionUnique
<1>6. w * 0 = 0 /\ w * 1 = w /\ 2^0 = 1
  BY PowerFacts
<1>7. v \div 1 = v
  BY <1>4
<1>8. u % P = u
  BY <1>2
<1> QED BY <1>1, <1>2, <1>3, <1>5, <1>6, <1>7, <1>8 DEF Trunc

\* The halves of a quadword are doublewords.
LEMMA HalvesType ==
  ASSUME NEW w \in Nat, NEW v \in Word(2 * w)
  PROVE  Trunc(v, w) \in Word(w) /\ v \div 2^w \in Word(w) /\ v = Trunc(v, w) + 2^w * (v \div 2^w)
<1>1. PICK P \in Nat \ {0} : P = 2^w /\ Word(w) = 0 .. (P - 1)
  BY WordFacts
<1>2. Word(2 * w) = 0 .. (P * P - 1)
  <2>1. 2 * w = w + w
    OBVIOUS
  <2>2. 2^(2 * w) = P * P
    BY <1>1, <2>1, PowerSum
  <2> QED BY <2>2 DEF Word
<1>3. v \in Nat /\ v <= P * P - 1
  BY <1>1, <1>2
<1>4. PICK q \in Int, r \in 0 .. (P - 1) : v = P * q + r /\ v \div P = q /\ v % P = r
  <2>1. v \in Int
    BY <1>3
  <2> QED BY <1>1, <2>1, Divided
<1>5. q \in 0 .. (P - 1)
  <2>1. q >= 0
    BY <1>1, <1>3, <1>4
  <2>2. ASSUME q >= P PROVE FALSE
    <3>1. P * q >= P * P /\ P * q \in Int /\ P * P \in Int
      BY ONLY <2>2, q \in Int, P \in Nat \ {0}, SMT
    <3> QED BY <1>3, <1>4, <3>1
  <2> QED BY <2>1, <2>2
<1>6. v = r + P * q
  BY <1>4
<1> QED BY <1>1, <1>4, <1>5, <1>6 DEF Trunc

\* The packed halves of two registers.
LEMMA HalvesPacked ==
  ASSUME NEW h \in Nat, NEW x \in Nat, NEW u \in Nat
  PROVE  /\ Or(And(x, Ones(h), 2 * h), Trunc(u * 2^h, 2 * h), 2 * h) = Trunc(x, h) + 2^h * Trunc(u, h)
         /\ Trunc(x, h) + 2^h * Trunc(u, h) \in Word(2 * h)
<1>1. PICK P \in Nat \ {0} : P = 2^h /\ Word(h) = 0 .. (P - 1)
  BY WordFacts
<1>2. And(x, Ones(h), 2 * h) = Trunc(x, h) /\ Trunc(x, h) \in Word(h) /\ Trunc(u, h) \in Word(h)
  <2>1. h <= 2 * h /\ 2 * h \in Nat
    OBVIOUS
  <2> QED BY <2>1, MaskFacts, LowBits
<1>3. Trunc(u * 2^h, 2 * h) = 2^h * Trunc(u, h)
  <2>1. PICK q \in Int, r \in 0 .. (P - 1) : u = P * q + r /\ u % P = r
    BY <1>1, u \in Int, Divided
  <2>2. PICK Q : Q = P * P
    OBVIOUS
  <2>3. 2^(2 * h) = Q
    <3>1. 2 * h = h + h
      OBVIOUS
    <3> QED BY <1>1, <2>2, <3>1, PowerSum
  <2>4. PICK m, n : m = P * r /\ n = u * P
    OBVIOUS
  <2>5. n = Q * q + m /\ Q \in Nat \ {0} /\ m \in 0 .. (Q - 1)
    <3>1. n = Q * q + m
      BY ONLY <1>1, <2>1, <2>2, <2>4, SMT
    <3>2. Q \in Nat \ {0} /\ m \in Nat
      BY ONLY <1>1, <2>1, <2>2, <2>4, SMT
    <3>3. P * r <= P * (P - 1) /\ P * (P - 1) = P * P - P
      BY ONLY <1>1, <2>1, SMT
    <3> QED BY <1>1, <2>2, <2>4, <3>1, <3>2, <3>3
  <2>6. n % Q = m
    BY <2>1, <2>5, DivisionUnique
  <2> QED BY <1>1, <2>1, <2>3, <2>4, <2>6 DEF Trunc
<1> QED BY <1>2, <1>3, OrFacts

-----------------------------------------------------------------------------
(* The operations on words                                                 *)

\* The operation of a node yields a word of its width.
LEMMA ApplyType ==
  ASSUME NEW n \in Nat, NEW op \in Operation, NEW old \in Word(n), NEW v \in Word(n), NEW e
  PROVE  Apply(op, n, old, v, e) \in Word(n)
<1>1. old \in Nat /\ v \in Nat
  BY WordFacts
<1>2. Trunc(old + v, n) \in Word(n)
  <2>1. old + v \in Nat
    BY <1>1
  <2> QED BY <2>1, LowBits
<1>3. Not(v, n) \in Nat
  <2>1. PICK P \in Nat \ {0} : P = 2^n /\ Word(n) = 0 .. (P - 1)
    BY WordFacts
  <2>2. v % P = v
    BY <2>1
  <2> QED BY <2>1, <2>2 DEF Not, Ones, Trunc
<1>4. And(old, Not(v, n), n) \in Word(n)
  <2>1. PICK f : f = [i \in 0 .. (n - 1) |-> Bit(old, i) * Bit(Not(v, n), i)]
    OBVIOUS
  <2> QED BY <1>1, <1>3, <2>1, AndSums, SumType
<1>5. Or(old, v, n) \in Word(n)
  <2>1. PICK f : f = [i \in 0 .. (n - 1) |-> IF Bit(old, i) + Bit(v, i) = 0 THEN 0 ELSE 1]
    OBVIOUS
  <2> QED BY <1>1, <2>1, OrSums, SumType
<1>6. Xor(old, v, n) \in Word(n)
  <2>1. PICK f : f = [i \in 0 .. (n - 1) |-> (Bit(old, i) + Bit(v, i)) % 2]
    OBVIOUS
  <2> QED BY <1>1, <2>1, XorSums, SumType
<1> HIDE DEF Operation
<1>7. PICK a, b, c, d : a = Trunc(old + v, n) /\ b = And(old, Not(v, n), n)
                      /\ c = Or(old, v, n) /\ d = Xor(old, v, n)
  OBVIOUS
<1>8. Apply(op, n, old, v, e) \in {a, b, c, d, old, v}
  BY <1>7 DEF Apply, Operation
<1> QED BY <1>2, <1>4, <1>5, <1>6, <1>7, <1>8

\* Signed values are integers.
LEMMA SignedType ==
  ASSUME NEW w \in Nat, NEW a \in Nat
  PROVE  Signed(a, w) \in Int
<1>1. PICK P \in Nat \ {0} : P = 2^w /\ Word(w) = 0 .. (P - 1)
  BY WordFacts
<1>2. Trunc(a, w) \in Nat
  BY LowBits, WordFacts
<1> QED BY <1>1, <1>2 DEF Signed

\* The retry loop computes what apply does.
LEMMA ComputedFacts ==
  ASSUME NEW op \in Operation \ {"Add", "Swp", "Cas"}, NEW old \in Nat, NEW v \in Nat, NEW e
  PROVE  Computed(op, old, v) = Apply(op, Half, old, v, e)
<1>1. Signed(old, Half) \in Int /\ Signed(v, Half) \in Int
  BY HalfFacts, SignedType
<1>2. PICK s \in Int, t \in Int : s = Signed(old, Half) /\ t = Signed(v, Half)
  BY <1>1
<1> QED BY <1>2 DEF Computed, Apply, Operation

\* And it is the A64 operation.
LEMMA RmwFacts ==
  ASSUME NEW op \in Operation \ {"Cas"}, NEW old \in Word(Half), NEW v \in Word(Half), NEW e
  PROVE  Apply(op, Half, old, v, e) = Abstract!Rmw(op, old, v, Half)
<1>1. PICK H \in Nat : H = Half
  BY HalfFacts
<1>2. old \in Nat /\ v \in Nat /\ old \in Word(H) /\ v \in Word(H)
  BY <1>1, WordFacts
<1>3. ASSUME NEW i \in 0 .. (H - 1)
      PROVE  /\ Bit(old, i) * Bit(Not(v, H), i) = IF Bit(v, i) = 1 THEN 0 ELSE Bit(old, i)
             /\ (Bit(old, i) + Bit(v, i)) % 2 = IF Bit(v, i) = Bit(old, i) THEN 0 ELSE 1
             /\ (IF Bit(old, i) + Bit(v, i) = 0 THEN 0 ELSE 1) = IF Bit(v, i) = 1 THEN 1 ELSE Bit(old, i)
  <2>1. PICK x \in {0, 1}, y \in {0, 1} : x = Bit(old, i) /\ y = Bit(v, i)
    <3>1. i \in Nat
      OBVIOUS
    <3> QED BY <1>2, <3>1, BitType
  <2>2. Bit(Not(v, H), i) = 1 - y
    BY <1>2, <2>1, NotBits
  <2> QED BY <2>1, <2>2
<1>4. CASE op = "Clr"
  <2>1. \A g : [n \in 0 .. H |-> IF n = 0 THEN 0 ELSE g[n - 1] + 2^(n - 1) * (Bit(old, n - 1) * Bit(Not(v, H), n - 1))]
             = [n \in 0 .. H |-> IF n = 0 THEN 0
                  ELSE g[n - 1] + 2^(n - 1) * (IF Bit(v, n - 1) = 1 THEN 0 ELSE Bit(old, n - 1))]
    BY <1>3
  <2>2. And(old, Not(v, H), H) = FromBits(H, LAMBDA i : IF Bit(v, i) = 1 THEN 0 ELSE Bit(old, i))
    BY <2>1 DEF And, FromBits
  <2> QED BY <1>1, <1>4, <2>2 DEF Apply, Abstract!Rmw, Abstract!FromBits, Abstract!Bit, FromBits, Bit
<1>5. CASE op = "Eor"
  <2>1. \A g : [n \in 0 .. H |-> IF n = 0 THEN 0 ELSE g[n - 1] + 2^(n - 1) * ((Bit(old, n - 1) + Bit(v, n - 1)) % 2)]
             = [n \in 0 .. H |-> IF n = 0 THEN 0
                  ELSE g[n - 1] + 2^(n - 1) * (IF Bit(v, n - 1) = Bit(old, n - 1) THEN 0 ELSE 1)]
    BY <1>3
  <2>2. Xor(old, v, H) = FromBits(H, LAMBDA i : IF Bit(v, i) = Bit(old, i) THEN 0 ELSE 1)
    BY <2>1 DEF Xor, FromBits
  <2> QED BY <1>1, <1>5, <2>2 DEF Apply, Abstract!Rmw, Abstract!FromBits, Abstract!Bit, FromBits, Bit
<1>6. CASE op = "Set"
  <2>1. \A g : [n \in 0 .. H |-> IF n = 0 THEN 0
                  ELSE g[n - 1] + 2^(n - 1) * (IF Bit(old, n - 1) + Bit(v, n - 1) = 0 THEN 0 ELSE 1)]
             = [n \in 0 .. H |-> IF n = 0 THEN 0
                  ELSE g[n - 1] + 2^(n - 1) * (IF Bit(v, n - 1) = 1 THEN 1 ELSE Bit(old, n - 1))]
    BY <1>3
  <2>2. Or(old, v, H) = FromBits(H, LAMBDA i : IF Bit(v, i) = 1 THEN 1 ELSE Bit(old, i))
    BY <2>1 DEF Or, FromBits
  <2> QED BY <1>1, <1>6, <2>2 DEF Apply, Abstract!Rmw, Abstract!FromBits, Abstract!Bit, FromBits, Bit
<1>7. CASE op \in {"Smax", "Smin"}
  <2>1. Signed(old, Half) \in Int /\ Signed(v, Half) \in Int
    BY <1>1, <1>2, SignedType
  <2>2. PICK s \in Int, t \in Int : s = Signed(old, Half) /\ t = Signed(v, Half)
    BY <2>1
  <2>3. s = Abstract!Signed(old, Half) /\ t = Abstract!Signed(v, Half)
    BY <2>2 DEF Signed, Msb, Bit, Trunc, Abstract!Signed, Abstract!Msb, Abstract!Bit, Abstract!Trunc
  <2> QED BY <1>7, <2>2, <2>3 DEF Apply, Abstract!Rmw, Abstract!FromBits
<1>8. CASE op \in {"Add", "Umax", "Umin", "Swp"}
  BY <1>2, <1>8 DEF Apply, Abstract!Rmw, Abstract!FromBits, Trunc, Abstract!Trunc
<1> QED BY <1>4, <1>5, <1>6, <1>7, <1>8 DEF Operation

-----------------------------------------------------------------------------
(* Translation                                                             *)

\* One register, or a pair packed as the node expects it, is the datum A64 means.
LEMMA PackedFacts ==
  ASSUME NEW i \in Instruction, NEW r \in Seq(Word(Half)), Len(r) \in {1, 2}, i.wide => Len(r) = 2
  PROVE  /\ Packed(i.wide, r) \in Word(IF i.wide THEN 2 * Half ELSE Half)
         /\ Packed(i.wide, r) = Abstract!Pair(i, r)
<1>1. PICK h \in Nat \ {0} : Half = 2 * h /\ Half \div 2 = h /\ Half \in Nat
  BY HalfFacts
<1>2. i.wide \in BOOLEAN
  BY DEF Instruction
<1>3. CASE Len(r) = 1
  <2>1. r[1] \in Word(Half) /\ ~i.wide
    BY <1>3
  <2> QED BY <1>3, <2>1 DEF Packed, Abstract!Pair
<1>4. CASE Len(r) = 2
  <2>1. PICK x \in Word(Half), u \in Word(Half) : r[1] = x /\ r[2] = u
    BY <1>4
  <2>2. CASE i.wide
    <3>1. x + 2^Half * u \in Word(2 * Half)
      BY <1>1, QuadFacts
    <3> QED BY <1>4, <2>1, <2>2, <3>1 DEF Packed, Abstract!Pair
  <2>3. CASE ~i.wide
    <3>1. x \in Nat /\ u \in Nat
      BY <1>1, WordFacts
    <3>2. /\ Or(And(x, Ones(h), Half), Trunc(u * 2^h, Half), Half) = Trunc(x, h) + 2^h * Trunc(u, h)
          /\ Trunc(x, h) + 2^h * Trunc(u, h) \in Word(Half)
      BY <1>1, <3>1, HalvesPacked
    <3> QED BY <1>1, <1>4, <2>1, <2>3, <3>2 DEF Packed, Abstract!Pair, Trunc, Abstract!Trunc
  <2> QED BY <1>2, <2>2, <2>3
<1> QED BY <1>3, <1>4

\* The node of each instruction.
LEMMA TranslateFacts ==
  ASSUME NEW i \in Instruction, NEW n, n = Translate(i)
  PROVE  /\ n \in Node /\ n.bits = (IF i.wide THEN 2 * Half ELSE Half)
         /\ n.op = "Load" <=> i.mn = "LDAR"
         /\ n.op = "LoadEx" <=> i.mn \in {"LDXR", "LDXP"}
         /\ n.op = "Store" <=> i.mn = "STLR"
         /\ n.op = "StoreEx" <=> i.mn \in {"STXR", "STXP"}
         /\ n.op = "AtomicRmw" <=> i.mn = "LSE"
         /\ n.op = "AtomicCas" <=> i.mn \in {"CAS", "CASP"}
         /\ n.op = "Clrex" <=> i.mn = "CLREX"
         /\ n.op # "Clrex" => n.at = i.at
         /\ n.rmw = (IF i.mn = "LSE" THEN i.op ELSE "Cas")
         /\ n.val \in Word(n.bits) /\ n.exp \in Word(n.bits)
         /\ Stored(i.mn) # 0 => n.val = Abstract!Pair(i, i.val)
         /\ Compared(i.mn) # 0 => n.exp = Abstract!Pair(i, i.exp)
<1>1. PICK b : b = IF i.wide THEN 2 * Half ELSE Half
  OBVIOUS
<1>2. b \in {Half, 2 * Half} /\ Half \in Nat /\ 2 * Half \in Nat
  BY <1>1, HalfFacts
<1>3. 0 \in Word(b) /\ Word(b) \subseteq Nat
  BY <1>2, WordFacts
<1>4. /\ i.mn \in Mnemonic /\ i.op \in Operation /\ i.wide \in BOOLEAN /\ i.at \in {0, 1}
      /\ i.val \in Seq(Word(Half)) /\ i.exp \in Seq(Word(Half))
      /\ i.wide => i.mn \in {"LDXP", "STXP", "CASP"}
      /\ i.op = "Cas" <=> i.mn # "LSE"
      /\ Len(i.val) = Stored(i.mn) /\ Len(i.exp) = Compared(i.mn)
  BY DEF Instruction
<1>5. Stored(i.mn) # 0 => /\ Packed(i.wide, i.val) \in Word(b)
                          /\ Packed(i.wide, i.val) = Abstract!Pair(i, i.val)
  <2> SUFFICES ASSUME Stored(i.mn) # 0 PROVE Len(i.val) \in {1, 2} /\ (i.wide => Len(i.val) = 2)
    BY <1>1, <1>4, PackedFacts
  <2> QED BY <1>4 DEF Stored, Mnemonic
<1>6. Compared(i.mn) # 0 => /\ Packed(i.wide, i.exp) \in Word(b)
                            /\ Packed(i.wide, i.exp) = Abstract!Pair(i, i.exp)
  <2> SUFFICES ASSUME Compared(i.mn) # 0 PROVE Len(i.exp) \in {1, 2} /\ (i.wide => Len(i.exp) = 2)
    BY <1>1, <1>4, PackedFacts
  <2> QED BY <1>4 DEF Compared, Mnemonic
<1>7. PICK v, e : v = Packed(i.wide, i.val) /\ e = Packed(i.wide, i.exp)
  OBVIOUS
<1>8. i.mn \in {"LSE", "CAS"} => v = i.val[1] /\ b = Half
  BY <1>1, <1>4, <1>7 DEF Packed, Stored, Mnemonic
<1>9. i.mn = "CAS" => e = i.exp[1]
  BY <1>4, <1>7 DEF Packed, Compared
<1>10. Stored(i.mn) # 0 <=> i.mn \in {"STXR", "STXP", "STLR", "LSE", "CAS", "CASP"}
  BY <1>4 DEF Stored, Mnemonic
<1>11. Compared(i.mn) # 0 <=> i.mn \in {"CAS", "CASP"}
  BY <1>4 DEF Compared, Mnemonic
<1>12. CASE i.mn \in {"LDXR", "LDXP", "STXR", "STXP", "LDAR", "STLR"}
  <2>1. n = [op |-> Kind(i.mn), bits |-> b, rmw |-> "Cas", at |-> i.at, exp |-> 0,
             val |-> IF i.mn \in {"STXR", "STXP", "STLR"} THEN v ELSE 0]
    BY <1>1, <1>7, <1>12 DEF Translate, TranslateExclusive
  <2>2. Kind(i.mn) = CASE i.mn \in {"LDXR", "LDXP"} -> "LoadEx" [] i.mn \in {"STXR", "STXP"} -> "StoreEx"
                       [] i.mn = "LDAR" -> "Load" [] i.mn = "STLR" -> "Store"
    BY DEF Kind
  <2> QED BY <1>1, <1>2, <1>3, <1>4, <1>5, <1>7, <1>10, <1>11, <1>12, <2>1, <2>2 DEF Node, Operation
<1>13. CASE i.mn \in {"LSE", "CAS"}
  <2>1. n = [op |-> IF i.mn = "CAS" THEN "AtomicCas" ELSE "AtomicRmw", bits |-> b,
             rmw |-> IF i.mn = "CAS" THEN "Cas" ELSE i.op, at |-> i.at,
             exp |-> IF i.mn = "CAS" THEN e ELSE 0, val |-> v]
    BY <1>8, <1>9, <1>13 DEF Translate, TranslateRmw
  <2> QED BY <1>1, <1>2, <1>3, <1>4, <1>5, <1>6, <1>7, <1>10, <1>11, <1>13, <2>1 DEF Node, Operation
<1>14. CASE i.mn = "CASP"
  <2>1. n = [op |-> "AtomicCas", bits |-> b, rmw |-> "Cas", at |-> i.at, exp |-> e, val |-> v]
    BY <1>1, <1>7, <1>14 DEF Translate, TranslateCasp
  <2> QED BY <1>1, <1>2, <1>3, <1>4, <1>5, <1>6, <1>7, <1>10, <1>11, <1>14, <2>1 DEF Node, Operation
<1>15. CASE i.mn = "CLREX"
  <2>1. b = Half /\ n = [op |-> "Clrex", bits |-> b, rmw |-> "Cas", at |-> 0, exp |-> 0, val |-> 0]
    BY <1>1, <1>4, <1>15 DEF Translate
  <2> QED BY <1>1, <1>2, <1>3, <1>4, <1>10, <1>11, <1>15, <2>1 DEF Node, Operation
<1> QED BY <1>4, <1>12, <1>13, <1>14, <1>15 DEF Mnemonic

-----------------------------------------------------------------------------
(* The datum of a node                                                     *)

\* A datum is a word of its width; putting one keeps the doublewords words, and putting
\* back what is there changes nothing.
LEMMA DatumFacts ==
  ASSUME TypeOK, NEW n \in Node
  PROVE  /\ Datum(n) \in Word(n.bits)
         /\ \A v \in Word(n.bits) : Put(n, v) => mem' \in [{0, 1} -> Word(Half)]
         /\ Put(n, Datum(n)) <=> mem' = mem
<1>1. PICK H \in Nat : H = Half /\ 2 * H # H
  BY HalfFacts
<1>2. n.at \in {0, 1} /\ n.bits \in {H, 2 * H}
  BY <1>1 DEF Node
<1>3. PICK m \in [{0, 1} -> Word(H)] : m = mem
  BY <1>1 DEF TypeOK
<1>4. m[0] \in Word(H) /\ m[1] \in Word(H)
  OBVIOUS
<1>5. PICK x \in Word(H), u \in Word(H) : x = m[0] /\ u = m[1]
  BY <1>4
<1>6. CASE n.bits = H
  <2>1. Datum(n) = m[n.at]
    BY <1>1, <1>3, <1>6 DEF Datum
  <2>2. \A v \in Word(H) : Put(n, v) => mem' = [m EXCEPT ![n.at] = v]
    BY <1>1, <1>3, <1>6 DEF Put
  <2>3. Put(n, Datum(n)) <=> mem' = [m EXCEPT ![n.at] = m[n.at]]
    BY <1>1, <1>3, <1>6, <2>1 DEF Put
  <2>4. [m EXCEPT ![n.at] = m[n.at]] = m
    OBVIOUS
  <2>5. \A v \in Word(H) : [m EXCEPT ![n.at] = v] \in [{0, 1} -> Word(H)]
    OBVIOUS
  <2> QED BY <1>1, <1>2, <1>3, <1>6, <2>1, <2>2, <2>3, <2>4, <2>5
<1>7. CASE n.bits = 2 * H
  <2>1. PICK d \in Word(2 * H) : d = x + 2^H * u /\ Datum(n) = d
    <3>1. x + 2^H * u \in Word(2 * H)
      BY QuadFacts
    <3>2. Datum(n) = x + 2^H * u
      BY <1>1, <1>3, <1>5, <1>7 DEF Datum
    <3> QED BY <3>1, <3>2
  <2>2. ASSUME NEW v, Put(n, v) PROVE mem' = [k \in {0, 1} |-> Trunc(v \div 2^(H * k), H)]
    BY <1>1, <1>7, <2>2 DEF Put
  <2>3. ASSUME NEW v \in Word(2 * H), NEW k \in {0, 1} PROVE Trunc(v \div 2^(H * k), H) \in Word(H)
    <3>1. v \in Nat /\ H * 0 = 0 /\ H * 1 = H /\ 2^0 = 1
      BY WordFacts, PowerFacts
    <3>2. v \div 1 = v /\ v \div 2^H \in Nat
      <4>1. v \div 2^H \in Word(H)
        BY HalvesType
      <4>2. v \div 1 = v
        BY <3>1
      <4>3. Word(H) \subseteq Nat
        BY WordFacts
      <4> QED BY <4>1, <4>2, <4>3
    <3>3. v \div 2^(H * k) \in Nat
      BY <3>1, <3>2
    <3> QED BY <3>3, LowBits
  <2>4. Trunc(d \div 2^(H * 0), H) = x /\ Trunc(d \div 2^(H * 1), H) = u
    <3>1. /\ Trunc((x + 2^H * u) \div 2^(H * 0), H) = x
          /\ Trunc((x + 2^H * u) \div 2^(H * 1), H) = u
      BY QuadFacts
    <3>2. d = x + 2^H * u
      BY <2>1
    <3> QED BY <3>1, <3>2 DEF Trunc
  <2>5. ASSUME NEW v \in Word(2 * H), Put(n, v) PROVE mem' \in [{0, 1} -> Word(H)]
    BY <2>2, <2>3, <2>5
  <2>6. Put(n, d) <=> mem' = m
    <3>1. Put(n, d) <=> mem' = [k \in {0, 1} |-> Trunc(d \div 2^(H * k), H)]
      BY <1>1, <1>7 DEF Put
    <3>2. \A k \in {0, 1} : Trunc(d \div 2^(H * k), H) = m[k]
      BY <1>5, <2>4
    <3> QED BY <3>1, <3>2
  <2> QED BY <1>1, <1>3, <1>7, <2>1, <2>5, <2>6
<1> QED BY <1>2, <1>6, <1>7

-----------------------------------------------------------------------------
(* One step of one thread                                                  *)

\* A step in the code of t's node: to there, with x and y in rax and r11.
Code(t, there, x, y, f, v) ==
  /\ pc' = [pc EXCEPT ![t] = there]
  /\ rax' = [rax EXCEPT ![t] = x] /\ r11' = [r11 EXCEPT ![t] = y]
  /\ fault' = [fault EXCEPT ![t] = f] /\ void' = [void EXCEPT ![t] = v]
  /\ UNCHANGED <<work, direct, insn, node, arg3, monitor, out>>

\* The lock is left, taken or released by t.
LockStep(t) == lock' = lock \/ (lock = Nobody /\ lock' = t) \/ (lock = t /\ lock' = Nobody)
\* No other thread is about to store what it has computed from the memory that changes.
MemStep(t) == mem' = mem \/ \A s \in Thread \ {t} : pc[s] # "write"

\* What the other threads have.
Others(t) ==
  \A s \in Thread \ {t} :
    /\ insn'[s] = insn[s] /\ node'[s] = node[s] /\ pc'[s] = pc[s]
    /\ arg3'[s] = arg3[s] /\ r11'[s] = r11[s] /\ rax'[s] = rax[s]
    /\ monitor'[s] = monitor[s] /\ fault'[s] = fault[s] /\ void'[s] = void[s]

\* The others keep their invariant.
LEMMA OthersKept ==
  ASSUME Inductive, NEW t \in Thread, Others(t), work' = work, LockStep(t), MemStep(t)
  PROVE  \A s \in Thread \ {t} : ThreadInv(s)'
<1> SUFFICES ASSUME NEW s \in Thread \ {t} PROVE ThreadInv(s)'
  OBVIOUS
<1>1. ThreadInv(s) /\ s # Nobody /\ t # Nobody
  BY ThreadAssumption DEF Inductive
<1>2. /\ insn'[s] = insn[s] /\ node'[s] = node[s] /\ pc'[s] = pc[s]
      /\ arg3'[s] = arg3[s] /\ r11'[s] = r11[s] /\ rax'[s] = rax[s]
      /\ monitor'[s] = monitor[s] /\ fault'[s] = fault[s] /\ void'[s] = void[s]
  BY DEF Others
<1>3. pc[s] # "idle" => (insn[s] \in work.insns[s] /\ OperandsInv(s) /\ PathInv(s))'
  BY <1>1, <1>2 DEF ThreadInv, OperandsInv, PathInv, MonitorMatches
<1>4. LockInv(s)'
  <2>1. lock' = s <=> lock = s
    BY <1>1 DEF LockStep
  <2>2. pc[s] = "write" => Datum(node[s])' = Datum(node[s])
    BY <1>2 DEF MemStep, Datum
  <2> QED BY <1>1, <1>2, <2>1, <2>2 DEF ThreadInv, LockInv
<1> QED BY <1>1, <1>2, <1>3, <1>4 DEF ThreadInv

\* What a step in a node's code does to its thread.
LEMMA CodeFacts ==
  ASSUME TypeOK, NEW t \in Thread, NEW there, NEW x, NEW y, NEW f, NEW v, Code(t, there, x, y, f, v)
  PROVE  /\ pc'[t] = there /\ rax'[t] = x /\ r11'[t] = y /\ fault'[t] = f /\ void'[t] = v
         /\ insn' = insn /\ node' = node /\ arg3' = arg3 /\ monitor' = monitor /\ work' = work
         /\ direct' = direct /\ out' = out /\ Others(t)
BY DEF Code, TypeOK, Others

\* The step keeps the invariant if it keeps its own thread's.
LEMMA CodeInv ==
  ASSUME Inductive, NEW t \in Thread, NEW there \in Pc, NEW x \in Nat, NEW y \in Nat,
         NEW f \in BOOLEAN, NEW v \in BOOLEAN, Code(t, there, x, y, f, v), LockStep(t), MemStep(t),
         mem' \in [{0, 1} -> Word(Half)], ThreadInv(t)'
  PROVE  Inductive'
<1>1. TypeOK
  BY DEF Inductive
<1>2. TypeOK'
  <2>1. pc' \in [Thread -> Pc] /\ rax' \in [Thread -> Nat] /\ r11' \in [Thread -> Nat]
        /\ fault' \in [Thread -> BOOLEAN] /\ void' \in [Thread -> BOOLEAN]
    BY <1>1 DEF Code, TypeOK
  <2>2. lock' \in Thread \cup {Nobody}
    BY <1>1 DEF LockStep, TypeOK
  <2> QED BY <1>1, <2>1, <2>2 DEF Code, TypeOK
<1>3. Others(t) /\ work' = work /\ direct' = direct
  BY <1>1, CodeFacts
<1>4. \A s \in Thread : ThreadInv(s)'
  BY <1>3, OthersKept
<1> QED BY <1>2, <1>3, <1>4 DEF Inductive

\* What holds of a running node.
LEMMA RunningFacts ==
  ASSUME Inductive, NEW t \in Thread, pc[t] # "idle"
  PROVE  /\ insn[t] \in Instruction /\ insn[t] \in work.insns[t] /\ node[t] = Translate(insn[t])
         /\ node[t] \in Node /\ ThreadInv(t) /\ OperandsInv(t) /\ PathInv(t) /\ LockInv(t)
         /\ pc[t] \in Pc /\ rax[t] \in Nat /\ r11[t] \in Nat
         /\ arg3[t] = node[t].val /\ node[t].val \in Word(node[t].bits) /\ node[t].exp \in Word(node[t].bits)
<1>1. TypeOK /\ ThreadInv(t)
  BY DEF Inductive
<1>2. insn[t] \in work.insns[t] /\ OperandsInv(t) /\ PathInv(t) /\ LockInv(t)
  BY <1>1 DEF ThreadInv
<1>3. insn[t] \in Instruction
  <2>1. work.insns \in [Thread -> SUBSET Instruction]
    BY <1>1, WorkloadAssumption DEF TypeOK
  <2> QED BY <1>2, <2>1
<1>4. node[t] = Translate(insn[t]) /\ arg3[t] = node[t].val
  BY <1>2 DEF OperandsInv
<1>5. node[t] \in Node /\ node[t].val \in Word(node[t].bits) /\ node[t].exp \in Word(node[t].bits)
  BY <1>3, <1>4, TranslateFacts
<1>6. pc[t] \in Pc /\ rax[t] \in Nat /\ r11[t] \in Nat
  BY <1>1 DEF TypeOK
<1> QED BY <1>1, <1>2, <1>3, <1>4, <1>5, <1>6

\* Where the memory is changed without the lock, nobody holds it.
LEMMA Undisturbed ==
  ASSUME Inductive, NEW t \in Thread, work.callback = "host" \/ direct \/ pc[t] \in {"store", "write"}
  PROVE  MemStep(t)
<1> SUFFICES ASSUME NEW s \in Thread \ {t}, pc[s] = "write" PROVE FALSE
  BY DEF MemStep
<1>1. ThreadInv(s) /\ ThreadInv(t) /\ TypeOK /\ (direct => work.direct)
  BY DEF Inductive
<1>2. lock = s /\ work.callback # "host"
  BY <1>1 DEF ThreadInv, LockInv
<1>3. ~work.direct /\ \A i \in work.insns[t] : i.mn # "STLR"
  BY <1>1, <1>2, FallbackApart DEF TypeOK
<1>4. pc[t] # "write"
  BY <1>1, <1>2 DEF ThreadInv, LockInv
<1>5. pc[t] # "store"
  <2> SUFFICES ASSUME pc[t] = "store" PROVE FALSE
    OBVIOUS
  <2>1. node[t].op = "Store" /\ insn[t] \in work.insns[t]
    BY <1>1 DEF ThreadInv, PathInv
  <2>2. insn[t].mn = "STLR"
    BY <2>1, RunningFacts, TranslateFacts
  <2> QED BY <1>3, <2>1, <2>2
<1> QED BY <1>1, <1>2, <1>3, <1>4, <1>5

-----------------------------------------------------------------------------
(* Steps of AtomicMemory                                                   *)

calls == [s \in Thread |-> CallOf(s)]
reservations == [s \in Thread |-> ReservationOf(s)]

\* A step of t changes the call and the reservation of t alone.
LEMMA CallsFacts ==
  ASSUME NEW t \in Thread, Others(t)
  PROVE  /\ calls' = [calls EXCEPT ![t] = CallOf(t)']
         /\ reservations' = [reservations EXCEPT ![t] = ReservationOf(t)']
<1>1. ASSUME NEW s \in Thread \ {t} PROVE CallOf(s)' = CallOf(s) /\ ReservationOf(s)' = ReservationOf(s)
  <2>1. /\ insn'[s] = insn[s] /\ node'[s] = node[s] /\ pc'[s] = pc[s]
        /\ rax'[s] = rax[s] /\ monitor'[s] = monitor[s] /\ void'[s] = void[s]
    BY DEF Others
  <2>2. Obtained(s)' = Obtained(s)
    BY <2>1 DEF Obtained
  <2>3. Got(s)' = Got(s)
    BY <2>1, <2>2 DEF Got
  <2> QED BY <2>1, <2>3 DEF CallOf, ReservationOf
<1>2. PICK c, r : c = CallOf(t)' /\ r = ReservationOf(t)'
  OBVIOUS
<1>3. calls' = [s \in Thread |-> IF s = t THEN c ELSE CallOf(s)]
  BY <1>1, <1>2 DEF calls
<1>4. reservations' = [s \in Thread |-> IF s = t THEN r ELSE ReservationOf(s)]
  BY <1>1, <1>2 DEF reservations
<1> QED BY <1>2, <1>3, <1>4 DEF calls, reservations

\* Inside a node its instruction and the monitor stay.
LEMMA CodeCalls ==
  ASSUME TypeOK, NEW t \in Thread, NEW there \in Pc \ {"idle"}, NEW x, NEW y, NEW f, NEW v,
         pc[t] # "idle", Code(t, there, x, y, f, v)
  PROVE  /\ calls[t] = [insn |-> insn[t], got |-> Got(t), void |-> void[t]]
         /\ calls' = [calls EXCEPT ![t] = [insn |-> insn[t], got |-> Got(t)', void |-> v]]
         /\ calls[t] # Abstract!None
         /\ reservations' = reservations /\ out' = out /\ fault' = [fault EXCEPT ![t] = f]
<1>1. /\ pc'[t] = there /\ void'[t] = v /\ insn' = insn /\ monitor' = monitor /\ out' = out /\ Others(t)
  BY CodeFacts
<1>2. CallOf(t) = [insn |-> insn[t], got |-> Got(t), void |-> void[t]]
  BY DEF CallOf
<1>3. CallOf(t)' = [insn |-> insn[t], got |-> Got(t)', void |-> v]
  BY <1>1 DEF CallOf
<1>4. calls[t] = CallOf(t)
  BY DEF calls
<1>5. ASSUME NEW i, NEW g, NEW w PROVE [insn |-> i, got |-> g, void |-> w] # Abstract!None
  <2>1. DOMAIN [insn |-> i, got |-> g, void |-> w] = {"insn", "got", "void"}
    OBVIOUS
  <2>2. DOMAIN Abstract!None = {"insn"}
    BY DEF Abstract!None
  <2>3. "got" \in {"insn", "got", "void"} /\ "got" \notin {"insn"}
    OBVIOUS
  <2> QED BY <2>1, <2>2, <2>3
<1>6. reservations' = reservations
  BY <1>1 DEF reservations, ReservationOf
<1> QED BY <1>1, <1>2, <1>3, <1>4, <1>5, <1>6, CallsFacts DEF Code

\* A step that obtains nothing and leaves memory alone is none of AtomicMemory.
LEMMA CodeStutters ==
  ASSUME TypeOK, NEW t \in Thread, NEW there \in Pc \ {"idle"}, NEW x, NEW y,
         pc[t] # "idle", Code(t, there, x, y, fault[t], void[t]), Got(t)' = Got(t), mem' = mem
  PROVE  UNCHANGED Abstract!avars
<1>1. /\ calls[t] = [insn |-> insn[t], got |-> Got(t), void |-> void[t]]
      /\ calls' = [calls EXCEPT ![t] = [insn |-> insn[t], got |-> Got(t), void |-> void[t]]]
      /\ reservations' = reservations /\ out' = out /\ fault' = [fault EXCEPT ![t] = fault[t]]
  BY CodeCalls
<1>2. calls' = calls
  <2>1. \A c : calls[t] = c => [calls EXCEPT ![t] = c] = calls
    BY DEF calls
  <2> QED BY <1>1, <2>1
<1>3. fault' = fault
  BY <1>1 DEF TypeOK
<1> QED BY <1>1, <1>2, <1>3 DEF Abstract!avars, calls, reservations

\* A step that faults or skips is AtomicMemory's Fault.
LEMMA CodeFaults ==
  ASSUME TypeOK, NEW t \in Thread, NEW there \in Pc \ {"idle"}, NEW x, NEW y,
         pc[t] # "idle", Code(t, there, x, y, TRUE, TRUE), Got(t)' = Got(t), mem' = mem
  PROVE  Abstract!Fault(t)
<1>1. /\ calls[t] = [insn |-> insn[t], got |-> Got(t), void |-> void[t]]
      /\ calls' = [calls EXCEPT ![t] = [insn |-> insn[t], got |-> Got(t), void |-> TRUE]]
      /\ calls[t] # Abstract!None
      /\ reservations' = reservations /\ out' = out /\ fault' = [fault EXCEPT ![t] = TRUE]
  <2>1. PICK b : b = TRUE
    OBVIOUS
  <2>2. Code(t, there, x, y, b, b)
    BY <2>1
  <2>3. /\ calls[t] = [insn |-> insn[t], got |-> Got(t), void |-> void[t]]
        /\ calls' = [calls EXCEPT ![t] = [insn |-> insn[t], got |-> Got(t)', void |-> b]]
        /\ calls[t] # Abstract!None
        /\ reservations' = reservations /\ out' = out /\ fault' = [fault EXCEPT ![t] = b]
    BY <2>2, CodeCalls
  <2> QED BY <2>1, <2>3
<1>2. calls' = [calls EXCEPT ![t].void = TRUE]
  <2>1. PICK c, i, g, w, b : c = calls[t] /\ i = insn[t] /\ g = Got(t) /\ w = void[t] /\ b = TRUE
    OBVIOUS
  <2>2. c = [insn |-> i, got |-> g, void |-> w]
    BY <1>1, <2>1
  <2>3. [c EXCEPT !.void = b] = [insn |-> i, got |-> g, void |-> b]
    BY <2>2
  <2> QED BY <1>1, <2>1, <2>3
<1> QED BY <1>1, <1>2 DEF Abstract!Fault, calls, reservations

\* A step that obtains the old datum is AtomicMemory's Effect.
LEMMA CodeEffects ==
  ASSUME TypeOK, NEW t \in Thread, NEW there \in Pc \ {"idle"}, NEW x, NEW y, NEW old,
         pc[t] # "idle", Code(t, there, x, y, fault[t], void[t]), Got(t)' = <<old>>
  PROVE  /\ Abstract!Effect(t, old, mem')
         /\ calls[t] # Abstract!None /\ calls[t].insn = insn[t] /\ calls[t].void = void[t]
         /\ calls[t].got = Got(t)
<1>1. /\ calls[t] = [insn |-> insn[t], got |-> Got(t), void |-> void[t]]
      /\ calls' = [calls EXCEPT ![t] = [insn |-> insn[t], got |-> <<old>>, void |-> void[t]]]
      /\ calls[t] # Abstract!None
      /\ reservations' = reservations /\ out' = out /\ fault' = [fault EXCEPT ![t] = fault[t]]
  BY CodeCalls
<1>2. calls' = [calls EXCEPT ![t].got = <<old>>]
  <2>1. PICK c, i, g, w, o : c = calls[t] /\ i = insn[t] /\ g = Got(t) /\ w = void[t] /\ o = <<old>>
    OBVIOUS
  <2>2. c = [insn |-> i, got |-> g, void |-> w]
    BY <1>1, <2>1
  <2>3. [c EXCEPT !.got = o] = [insn |-> i, got |-> o, void |-> w]
    BY <2>2
  <2> QED BY <1>1, <2>1, <2>3
<1>3. fault' = fault
  BY <1>1 DEF TypeOK
<1> QED BY <1>1, <1>2, <1>3 DEF Abstract!Effect, calls, reservations

\* The datum of an instruction is its node's.
LEMMA ValueFacts ==
  ASSUME NEW i \in Instruction, NEW n, n = Translate(i), i.mn # "CLREX"
  PROVE  /\ n.at = i.at /\ (Abstract!Quad(i) <=> n.bits # Half) /\ (i.wide <=> n.bits # Half)
         /\ Abstract!Bits(i) = n.bits /\ Abstract!Value(mem, i) = Datum(n)
         /\ \A v : Put(n, v) => mem' = Abstract!Updated(mem, i, v)
<1>1. n.bits = (IF i.wide THEN 2 * Half ELSE Half) /\ n.at = i.at
  BY TranslateFacts
<1>2. (i.wide <=> n.bits # Half) /\ (i.wide => i.mn \in {"LDXP", "STXP", "CASP"}) /\ i.wide \in BOOLEAN
  BY <1>1, HalfFacts DEF Instruction
<1>3. Abstract!Quad(i) <=> i.wide
  BY <1>2 DEF Abstract!Quad
<1>4. \A v : Put(n, v) => mem' = Abstract!Updated(mem, i, v)
  BY <1>1, <1>2, <1>3 DEF Put, Abstract!Updated, Trunc
<1>5. Abstract!Value(mem, i) = Datum(n)
  BY <1>1, <1>2, <1>3 DEF Datum, Abstract!Value
<1>6. Abstract!Bits(i) = n.bits
  BY <1>1, <1>3 DEF Abstract!Bits
<1> QED BY <1>1, <1>2, <1>3, <1>4, <1>5, <1>6

\* The actions of AtomicMemory, for its next-state relation.
LEMMA AbstractNext ==
  ASSUME NEW t \in Thread,
         \/ Abstract!Invoke(t) \/ Abstract!ReadHalf(t) \/ Abstract!Load(t) \/ Abstract!Store(t)
         \/ Abstract!ReadModifyWrite(t) \/ Abstract!CompareAndSwap(t) \/ Abstract!StoreExclusive(t)
         \/ Abstract!Fault(t) \/ Abstract!Complete(t) \/ Abstract!Leave(t)
  PROVE  Abstract!Next
BY DEF Abstract!Next

\* A read-modify-write of the datum as it is now is the instruction's effect.
LEMMA AtomicEffect ==
  ASSUME Inductive, NEW t \in Thread, NEW there \in {"finish", "unlock"}, NEW y,
         pc[t] \in {"locked_insn", "retry", "call", "cmpxchg16b", "read", "write"},
         Code(t, there, Datum(node[t]), y, fault[t], void[t]),
         Put(node[t], Apply(node[t].rmw, node[t].bits, Datum(node[t]), arg3[t], r11[t]))
  PROVE  Abstract!Next
<1>1. TypeOK /\ pc[t] # "idle" /\ there \in Pc \ {"idle"}
  BY DEF Inductive, Pc
<1>2. PICK i, n, d : i = insn[t] /\ n = node[t] /\ d = Datum(n)
  OBVIOUS
<1>3. /\ i \in Instruction /\ n = Translate(i) /\ n \in Node /\ PathInv(t) /\ OperandsInv(t) /\ ThreadInv(t)
      /\ arg3[t] = n.val /\ n.val \in Word(n.bits) /\ n.exp \in Word(n.bits)
  BY <1>1, <1>2, RunningFacts
<1>4. n.op \in Atomics /\ ~void[t] /\ Got(t) = <<>>
  <2>1. n.op \in Atomics
    BY <1>2, <1>3 DEF PathInv
  <2>2. ~void[t]
    BY <1>3 DEF ThreadInv
  <2> QED BY <2>1, <2>2 DEF Got
<1>5. /\ pc'[t] = there /\ rax'[t] = d /\ ~void'[t] /\ node'[t] = n /\ monitor' = monitor
  BY <1>1, <1>2, <1>4, CodeFacts
<1>6. /\ i.mn \in {"LSE", "CAS", "CASP", "STXR", "STXP"} /\ i.mn # "CLREX"
      /\ Stored(i.mn) # 0 /\ n.val = Abstract!Pair(i, i.val)
      /\ n.op = "AtomicRmw" <=> i.mn = "LSE"
      /\ n.op = "AtomicCas" <=> i.mn \in {"CAS", "CASP"}
      /\ n.op = "StoreEx" <=> i.mn \in {"STXR", "STXP"}
      /\ n.rmw = (IF i.mn = "LSE" THEN i.op ELSE "Cas")
      /\ Compared(i.mn) # 0 => n.exp = Abstract!Pair(i, i.exp)
  <2>1. i.mn \in {"LSE", "CAS", "CASP", "STXR", "STXP"}
    BY <1>3, <1>4, TranslateFacts DEF Atomics
  <2>2. Stored(i.mn) # 0
    BY <2>1 DEF Stored
  <2> QED BY <1>3, <2>1, <2>2, TranslateFacts
<1>7. /\ n.at = i.at /\ Abstract!Bits(i) = n.bits /\ Abstract!Value(mem, i) = d
      /\ \A v : Put(n, v) => mem' = Abstract!Updated(mem, i, v)
  BY <1>2, <1>3, <1>6, ValueFacts
<1>8. ASSUME NEW old, Got(t)' = <<old>>
      PROVE  /\ Abstract!Effect(t, old, mem')
             /\ calls[t] # Abstract!None /\ calls[t].insn = i /\ ~calls[t].void /\ calls[t].got = <<>>
  BY <1>1, <1>2, <1>4, <1>8, CodeEffects
<1>9. Got(t)' = Obtained(t)'
  BY <1>5 DEF Got
<1>10. d \in Word(n.bits)
  BY <1>1, <1>2, <1>3, DatumFacts
<1>11. PICK v : v = Apply(n.rmw, n.bits, d, n.val, r11[t]) /\ Put(n, v)
  BY <1>2, <1>3
<1>12. CASE n.op = "AtomicRmw"
  <2>1. Got(t)' = <<d>>
    BY <1>5, <1>9, <1>12 DEF Obtained
  <2>2. n.bits = Half /\ n.val = i.val[1] /\ n.rmw = i.op /\ i.op \in Operation \ {"Cas"}
    <3>1. n.bits = Half
      BY <1>3, <1>6, <1>12, TranslateFacts DEF Instruction
    <3>2. Len(i.val) = 1 /\ i.op \in Operation \ {"Cas"} /\ ~i.wide
      BY <1>3, <1>6, <1>12 DEF Instruction, Stored
    <3> QED BY <1>6, <1>12, <3>1, <3>2 DEF Abstract!Pair
  <2>3. v = Abstract!Rmw(i.op, d, i.val[1], Half)
    BY <1>3, <1>10, <1>11, <2>2, RmwFacts
  <2>4. Abstract!ReadModifyWrite(t)
    BY <1>6, <1>7, <1>8, <1>11, <1>12, <2>1, <2>3 DEF Abstract!ReadModifyWrite, calls
  <2> QED BY <2>4, AbstractNext
<1>13. CASE n.op = "AtomicCas"
  <2>1. Got(t)' = <<d>>
    BY <1>5, <1>9, <1>13 DEF Obtained
  <2>2. r11[t] = Abstract!Pair(i, i.exp) /\ n.val = Abstract!Pair(i, i.val)
    <3>1. Compared(i.mn) # 0
      BY <1>6, <1>13 DEF Compared
    <3> QED BY <1>2, <1>3, <1>6, <1>13, <3>1 DEF OperandsInv
  <2>3. v = IF d = Abstract!Pair(i, i.exp) THEN Abstract!Pair(i, i.val) ELSE d
    BY <1>6, <1>11, <1>13, <2>2 DEF Apply
  <2>4. mem' = IF d = Abstract!Pair(i, i.exp) THEN Abstract!Updated(mem, i, Abstract!Pair(i, i.val)) ELSE mem
    BY <1>1, <1>2, <1>3, <1>7, <1>11, <2>3, DatumFacts
  <2>5. Abstract!CompareAndSwap(t)
    BY <1>6, <1>7, <1>8, <1>13, <2>1, <2>4 DEF Abstract!CompareAndSwap, calls
  <2> QED BY <2>5, AbstractNext
<1>14. CASE n.op = "StoreEx"
  <2>1. PICK e : e = monitor[t].value
    OBVIOUS
  <2>2. Got(t)' = <<IF d = e THEN 0 ELSE 1>>
    BY <1>5, <1>9, <1>14, <2>1 DEF Obtained
  <2>3. monitor[t].addr = n.at /\ monitor[t].size = n.bits /\ r11[t] = e
    BY <1>2, <1>3, <1>14, <2>1 DEF PathInv, OperandsInv, MonitorMatches
  <2>4. n.bits # 0
    BY <1>3, HalfFacts DEF Node
  <2>5. reservations[t].size = n.bits /\ reservations[t].at = n.at /\ reservations[t].value = e
    BY <2>1, <2>3, <2>4 DEF reservations, ReservationOf
  <2>6. Abstract!Reserved(t, i)
    BY <1>7, <2>5 DEF Abstract!Reserved, reservations
  <2>7. v = IF d = e THEN Abstract!Pair(i, i.val) ELSE d
    BY <1>6, <1>11, <1>14, <2>3 DEF Apply
  <2>8. mem' = IF d = e THEN Abstract!Updated(mem, i, Abstract!Pair(i, i.val)) ELSE mem
    BY <1>1, <1>2, <1>3, <1>7, <1>11, <2>7, DatumFacts
  <2>9. Abstract!StoreExclusive(t)
    <3>1. CASE d = e
      BY <1>6, <1>7, <1>8, <1>14, <2>2, <2>5, <2>6, <2>8, <3>1 DEF Abstract!StoreExclusive, calls, reservations
    <3>2. CASE d # e
      BY <1>6, <1>7, <1>8, <1>14, <2>2, <2>5, <2>6, <2>8, <3>2 DEF Abstract!StoreExclusive, calls, reservations
    <3> QED BY <3>1, <3>2
  <2> QED BY <2>9, AbstractNext
<1> QED BY <1>4, <1>12, <1>13, <1>14 DEF Atomics

-----------------------------------------------------------------------------
(* Steps of three shapes                                                   *)

Simulated == Abstract!Next \/ UNCHANGED Abstract!avars

\* The values that stay.
LEMMA SameFacts ==
  ASSUME TypeOK, NEW t \in Thread
  PROVE  /\ [rax EXCEPT ![t] = rax[t]] = rax /\ [r11 EXCEPT ![t] = r11[t]] = r11
         /\ [fault EXCEPT ![t] = fault[t]] = fault /\ [void EXCEPT ![t] = void[t]] = void
         /\ [pc EXCEPT ![t] = pc[t]] = pc /\ fault[t] \in BOOLEAN /\ void[t] \in BOOLEAN
         /\ mem \in [{0, 1} -> Word(Half)]
BY DEF TypeOK

\* The width of what is observed at a place.
Width(t, here) == IF here \in {"load_high", "seed_high"} THEN Half ELSE node[t].bits

\* A thread's invariant after a step in the code of its node.
LEMMA CodeThread ==
  ASSUME Inductive, NEW t \in Thread, pc[t] # "idle", NEW there \in Pc \ {"idle"}, NEW x, NEW y,
         NEW f \in BOOLEAN, NEW v \in BOOLEAN, Code(t, there, x, y, f, v),
         x \in Word(Width(t, there)), node[t].op \in {"StoreEx", "AtomicCas"} => y = r11[t],
         PathInv(t)', LockInv(t)', v => f /\ there \in {"unlock", "finish"}
  PROVE  ThreadInv(t)' /\ x \in Nat
<1>1. /\ insn[t] \in work.insns[t] /\ node[t] = Translate(insn[t]) /\ OperandsInv(t)
      /\ node[t] \in Node /\ TypeOK
  BY RunningFacts DEF Inductive
<1>2. /\ pc'[t] = there /\ rax'[t] = x /\ r11'[t] = y /\ fault'[t] = f /\ void'[t] = v
      /\ insn' = insn /\ node' = node /\ arg3' = arg3 /\ monitor' = monitor /\ work' = work
  BY <1>1, CodeFacts
<1>3. OperandsInv(t)'
  BY <1>1, <1>2 DEF OperandsInv, Width
<1>4. x \in Nat
  <2>1. Width(t, there) \in Nat
    BY <1>1, HalfFacts DEF Width, Node
  <2> QED BY <2>1, WordFacts
<1> QED BY <1>1, <1>2, <1>3, <1>4 DEF ThreadInv

\* The places where nothing has been obtained yet.
Before == Pc \ {"idle", "mismatch", "load_high", "unlock", "finish"}

\* A step that only goes on.
LEMMA QuietStep ==
  ASSUME Inductive, NEW t \in Thread, pc[t] \in Before, NEW there \in Before, NEW x, NEW y \in Nat,
         Code(t, there, x, y, fault[t], void[t]), x \in Word(Width(t, there)),
         node[t].op \in {"StoreEx", "AtomicCas"} => y = r11[t],
         mem' = mem, LockStep(t), PathInv(t)', LockInv(t)'
  PROVE  Inductive' /\ Simulated
<1>1. TypeOK /\ pc[t] # "idle" /\ there \in Pc \ {"idle"}
  BY DEF Inductive, Before, Pc
<1>2. ThreadInv(t) /\ ~void[t] /\ fault[t] \in BOOLEAN /\ void[t] \in BOOLEAN
  BY <1>1, RunningFacts DEF ThreadInv, Before, TypeOK
<1>3. ThreadInv(t)' /\ x \in Nat
  BY <1>1, <1>2, CodeThread
<1>4. Inductive'
  BY <1>1, <1>2, <1>3, CodeInv, SameFacts DEF MemStep
<1>5. Got(t)' = Got(t)
  <2>1. pc'[t] = there /\ void'[t] = void[t]
    BY <1>1, CodeFacts
  <2> QED BY <2>1 DEF Got, Before
<1>6. UNCHANGED Abstract!avars
  BY <1>1, <1>5, CodeStutters
<1> QED BY <1>4, <1>6 DEF Simulated

\* A step that faults, or is skipped.
LEMMA FaultStep ==
  ASSUME Inductive, NEW t \in Thread, pc[t] \in Before, NEW there \in {"unlock", "finish"}, NEW x,
         Code(t, there, x, r11[t], TRUE, TRUE), x \in Word(node[t].bits),
         mem' = mem, LockStep(t), PathInv(t)', LockInv(t)'
  PROVE  Inductive' /\ Simulated
<1>1. TypeOK /\ pc[t] # "idle" /\ there \in Pc \ {"idle"}
  BY DEF Inductive, Before, Pc
<1>2. ThreadInv(t) /\ ~void[t] /\ r11[t] \in Nat
  BY <1>1, RunningFacts DEF ThreadInv, Before
<1>3. PICK b \in BOOLEAN : b = TRUE /\ Code(t, there, x, r11[t], b, b)
  OBVIOUS
<1>4. x \in Word(Width(t, there))
  BY DEF Width
<1>5. ThreadInv(t)' /\ x \in Nat
  BY <1>1, <1>3, <1>4, CodeThread
<1>6. Inductive'
  BY <1>1, <1>2, <1>3, <1>5, CodeInv, SameFacts DEF MemStep
<1>7. Got(t)' = Got(t)
  <2>1. pc'[t] = there /\ void'[t] = b
    BY <1>1, <1>3, CodeFacts
  <2> QED BY <1>3, <2>1 DEF Got, Before
<1>8. Abstract!Fault(t)
  BY <1>1, <1>7, CodeFaults
<1> QED BY <1>6, <1>8, AbstractNext DEF Simulated

\* A step that performs the operation.
LEMMA AtomicStep ==
  ASSUME Inductive, NEW t \in Thread, NEW there \in {"unlock", "finish"}, NEW y \in Nat,
         pc[t] \in {"locked_insn", "retry", "call", "cmpxchg16b", "read", "write"},
         Code(t, there, Datum(node[t]), y, fault[t], void[t]),
         node[t].op \in {"StoreEx", "AtomicCas"} => y = r11[t],
         Put(node[t], Apply(node[t].rmw, node[t].bits, Datum(node[t]), arg3[t], r11[t])),
         mem' = mem \/ MemStep(t), LockStep(t), PathInv(t)', LockInv(t)'
  PROVE  Inductive' /\ Simulated
<1>1. TypeOK /\ pc[t] # "idle" /\ there \in Pc \ {"idle"}
  BY DEF Inductive, Pc
<1>2. /\ ThreadInv(t) /\ ~void[t] /\ fault[t] \in BOOLEAN /\ void[t] \in BOOLEAN
      /\ node[t] \in Node /\ arg3[t] \in Word(node[t].bits)
  BY <1>1, RunningFacts, SameFacts DEF ThreadInv
<1>3. Datum(node[t]) \in Word(node[t].bits) /\ node[t].bits \in Nat /\ node[t].rmw \in Operation
  BY <1>1, <1>2, DatumFacts, HalfFacts DEF Node
<1>4. mem' \in [{0, 1} -> Word(Half)]
  BY <1>1, <1>2, <1>3, DatumFacts, ApplyType
<1>5. Datum(node[t]) \in Word(Width(t, there))
  BY <1>3 DEF Width
<1>6. ThreadInv(t)' /\ Datum(node[t]) \in Nat
  BY <1>1, <1>2, <1>5, CodeThread
<1>7. Inductive'
  BY <1>1, <1>2, <1>4, <1>6, CodeInv DEF MemStep
<1> QED BY <1>7, AtomicEffect DEF Simulated

-----------------------------------------------------------------------------
(* Generated code                                                          *)

\* The guard of fastmem.
LEMMA GuardStep ==
  ASSUME Inductive, NEW t \in Thread, Guard(t)
  PROVE  Inductive' /\ Simulated
<1>1. TypeOK /\ pc[t] = "guard" /\ pc[t] # "idle" /\ pc[t] \in Before
  BY DEF Inductive, Guard, At, Before, Pc
<1>2. PathInv(t) /\ OperandsInv(t) /\ LockInv(t) /\ rax[t] \in Nat /\ r11[t] \in Nat
  BY <1>1, RunningFacts
<1>3. PICK there \in {"call", "locked_insn", "seed"} :
        /\ Code(t, there, rax[t], r11[t], fault[t], void[t])
        /\ there = "locked_insn" => node[t].rmw \in {"Add", "Swp", "Cas"}
        /\ there = "seed" => node[t].rmw \notin {"Add", "Swp", "Cas"}
        /\ mem' = mem /\ lock' = lock
  BY <1>1, SameFacts DEF Guard, Goto, Code, regs
<1>4. there \in Before /\ pc'[t] = there /\ node' = node /\ monitor' = monitor /\ work' = work
  BY <1>1, <1>3, CodeFacts DEF Before, Pc
<1>5. PathInv(t)'
  BY <1>1, <1>2, <1>3, <1>4 DEF PathInv, MonitorMatches
<1>6. LockInv(t)'
  BY <1>1, <1>2, <1>3, <1>4 DEF LockInv
<1>7. rax[t] \in Word(Width(t, there))
  BY <1>1, <1>2, <1>3 DEF OperandsInv, Width
<1> QED BY <1>1, <1>2, <1>3, <1>4, <1>5, <1>6, <1>7, QuietStep DEF LockStep

\* The comparisons of a store-exclusive with the monitor.
LEMMA CheckMonitorStep ==
  ASSUME Inductive, NEW t \in Thread, CheckMonitor(t)
  PROVE  Inductive' /\ Simulated
<1>1. TypeOK /\ pc[t] = "monitor" /\ pc[t] # "idle" /\ pc[t] \in Before
  BY DEF Inductive, CheckMonitor, At, Before, Pc
<1>2. /\ PathInv(t) /\ OperandsInv(t) /\ LockInv(t) /\ ThreadInv(t) /\ rax[t] \in Nat /\ r11[t] \in Nat
      /\ node[t].op = "StoreEx" /\ insn[t] \in Instruction /\ node[t] = Translate(insn[t]) /\ node[t] \in Node
  BY <1>1, RunningFacts DEF PathInv
<1>3. PICK there \in {"mismatch", "call", "guard"} :
        /\ Code(t, there, rax[t], r11[t], fault[t], void[t])
        /\ there = "mismatch" <=> ~MonitorMatches(t, node[t])
        /\ there = "guard" => node[t].bits = Half
        /\ mem' = mem /\ lock' = lock
  BY <1>1, SameFacts DEF CheckMonitor, Goto, Code, regs
<1>4. there \in Pc \ {"idle"} /\ pc'[t] = there /\ node' = node /\ monitor' = monitor /\ work' = work
  BY <1>1, <1>3, CodeFacts DEF Pc
<1>5. PathInv(t)'
  BY <1>1, <1>2, <1>3, <1>4 DEF PathInv, MonitorMatches, Atomics
<1>6. LockInv(t)'
  BY <1>1, <1>2, <1>3, <1>4 DEF LockInv
<1>7. rax[t] \in Word(Width(t, there))
  BY <1>1, <1>2, <1>3 DEF OperandsInv, Width
<1>8. CASE there # "mismatch"
  <2>1. there \in Before
    BY <1>3, <1>8 DEF Before, Pc
  <2> QED BY <1>1, <1>2, <1>3, <1>5, <1>6, <1>7, <2>1, QuietStep DEF LockStep
<1>9. CASE there = "mismatch"
  <2>1. ~void[t] /\ fault[t] \in BOOLEAN /\ void[t] \in BOOLEAN /\ mem \in [{0, 1} -> Word(Half)]
    BY <1>1, <1>2, SameFacts DEF ThreadInv
  <2>2. ThreadInv(t)'
    BY <1>1, <1>2, <1>3, <1>4, <1>5, <1>6, <1>7, <2>1, CodeThread
  <2>3. Inductive'
    BY <1>1, <1>2, <1>3, <1>4, <2>1, <2>2, CodeInv DEF LockStep, MemStep
  <2>4. Got(t)' = <<1>> /\ Got(t) = <<>>
    BY <1>1, <1>4, <1>9 DEF Got
  <2>5. /\ Abstract!Effect(t, 1, mem')
        /\ calls[t] # Abstract!None /\ calls[t].insn = insn[t] /\ ~calls[t].void /\ calls[t].got = <<>>
    BY <1>1, <1>3, <1>4, <1>9, <2>1, <2>4, CodeEffects
  <2>6. insn[t].mn \in {"STXR", "STXP"} /\ insn[t].mn # "CLREX"
    BY <1>2, TranslateFacts
  <2>7. Abstract!Bits(insn[t]) = node[t].bits /\ node[t].at = insn[t].at
    BY <1>2, <2>6, ValueFacts
  <2>8. node[t].bits # 0
    BY <1>2, HalfFacts DEF Node
  <2>9. ~Abstract!Reserved(t, insn[t])
    <3>1. CASE monitor[t].size = 0
      <4>1. reservations[t].size = 0
        BY <3>1 DEF reservations, ReservationOf
      <4> QED BY <2>7, <2>8, <4>1 DEF Abstract!Reserved, reservations
    <3>2. CASE monitor[t].size # 0
      <4>1. reservations[t].size = monitor[t].size /\ reservations[t].at = monitor[t].addr
        BY <3>2 DEF reservations, ReservationOf
      <4> QED BY <1>3, <1>9, <2>7, <4>1 DEF Abstract!Reserved, reservations, MonitorMatches
    <3> QED BY <3>1, <3>2
  <2>10. Abstract!StoreExclusive(t)
    BY <1>3, <2>5, <2>6, <2>9 DEF Abstract!StoreExclusive, calls
  <2> QED BY <2>3, <2>10, AbstractNext DEF Simulated
<1> QED BY <1>8, <1>9

\* The diversion of a faulting direct access.
LEMMA DivertStep ==
  ASSUME Inductive, NEW t \in Thread, Divert(t)
  PROVE  Inductive' /\ Simulated
<1>1. TypeOK /\ pc[t] \in {"locked_insn", "seed", "retry"} /\ pc[t] # "idle" /\ pc[t] \in Before
  BY DEF Inductive, Divert, Before, Pc
<1>2. PathInv(t) /\ OperandsInv(t) /\ LockInv(t) /\ rax[t] \in Nat /\ r11[t] \in Nat
  BY <1>1, RunningFacts
<1>3. Code(t, "call", rax[t], r11[t], fault[t], void[t]) /\ mem' = mem /\ lock' = lock
  BY <1>1, SameFacts DEF Divert, Goto, Code, regs
<1>4. "call" \in Before /\ pc'[t] = "call" /\ node' = node /\ monitor' = monitor /\ work' = work
  BY <1>1, <1>3, CodeFacts DEF Before, Pc
<1>5. PathInv(t)'
  BY <1>1, <1>2, <1>3, <1>4 DEF PathInv, MonitorMatches
<1>6. LockInv(t)'
  BY <1>1, <1>2, <1>3, <1>4 DEF LockInv
<1>7. rax[t] \in Word(Width(t, "call"))
  BY <1>1, <1>2, <1>3 DEF OperandsInv, Width
<1> QED BY <1>1, <1>2, <1>3, <1>4, <1>5, <1>6, <1>7, QuietStep DEF LockStep

\* lock xadd, xchg and lock cmpxchg.
LEMMA LockedInsnStep ==
  ASSUME Inductive, NEW t \in Thread, LockedInsn(t)
  PROVE  Inductive' /\ Simulated
<1>1. TypeOK /\ pc[t] = "locked_insn" /\ pc[t] # "idle" /\ direct
  BY DEF Inductive, LockedInsn, At
<1>2. PathInv(t) /\ LockInv(t) /\ r11[t] \in Nat
  BY <1>1, RunningFacts
<1>3. Code(t, "finish", Datum(node[t]), r11[t], fault[t], void[t]) /\ lock' = lock
  BY <1>1, SameFacts DEF LockedInsn, Goto, Observe, Code
<1>4. node[t].bits = Half /\ node[t].rmw \in {"Add", "Swp", "Cas"}
  BY <1>1, <1>2 DEF PathInv
<1>5. Put(node[t], Apply(node[t].rmw, node[t].bits, Datum(node[t]), arg3[t], r11[t]))
  BY <1>1, <1>4 DEF LockedInsn, Apply
<1>6. pc'[t] = "finish" /\ node' = node /\ monitor' = monitor /\ work' = work
  BY <1>1, <1>3, CodeFacts
<1>7. PathInv(t)' /\ LockInv(t)'
  BY <1>1, <1>2, <1>3, <1>6 DEF PathInv, MonitorMatches, LockInv
<1>8. MemStep(t)
  BY <1>1, Undisturbed
<1> QED BY <1>1, <1>2, <1>3, <1>5, <1>7, <1>8, AtomicStep DEF LockStep

-----------------------------------------------------------------------------
(* The compare-exchange loop and the plain accesses                        *)

\* The first read of the retry loop.
LEMMA SeedStep ==
  ASSUME Inductive, NEW t \in Thread, Seed(t)
  PROVE  Inductive' /\ Simulated
<1>1. TypeOK /\ pc[t] = "seed" /\ pc[t] # "idle" /\ pc[t] \in Before
  BY DEF Inductive, Seed, At, Before, Pc
<1>2. PathInv(t) /\ LockInv(t) /\ r11[t] \in Nat /\ node[t] \in Node
  BY <1>1, RunningFacts
<1>3. Code(t, "retry", Datum(node[t]), r11[t], fault[t], void[t]) /\ mem' = mem /\ lock' = lock
  BY <1>1, SameFacts DEF Seed, Goto, Observe, Code
<1>4. "retry" \in Before /\ pc'[t] = "retry" /\ node' = node /\ monitor' = monitor /\ work' = work
  BY <1>1, <1>3, CodeFacts DEF Before, Pc
<1>5. PathInv(t)' /\ LockInv(t)'
  BY <1>1, <1>2, <1>3, <1>4 DEF PathInv, MonitorMatches, LockInv
<1>6. Datum(node[t]) \in Word(Width(t, "retry"))
  BY <1>1, <1>2, DatumFacts DEF Width
<1> QED BY <1>1, <1>2, <1>3, <1>4, <1>5, <1>6, QuietStep DEF LockStep

\* A round of the retry loop.
LEMMA RetryStep ==
  ASSUME Inductive, NEW t \in Thread, Retry(t)
  PROVE  Inductive' /\ Simulated
<1>1. TypeOK /\ pc[t] = "retry" /\ pc[t] # "idle" /\ pc[t] \in Before /\ direct
  BY DEF Inductive, Retry, At, Before, Pc
<1>2. /\ PathInv(t) /\ OperandsInv(t) /\ LockInv(t) /\ r11[t] \in Nat /\ node[t] \in Node
      /\ insn[t] \in Instruction /\ node[t] = Translate(insn[t])
      /\ rax[t] \in Nat /\ arg3[t] \in Word(node[t].bits)
  BY <1>1, RunningFacts
<1>3. node[t].bits = Half /\ node[t].rmw \in Operation \ {"Add", "Swp", "Cas"}
  BY <1>1, <1>2 DEF PathInv, Node
<1>4. node[t].op \notin {"StoreEx", "AtomicCas"}
  BY <1>2, <1>3, TranslateFacts
<1>5. rax[t] \in Word(Half) /\ arg3[t] \in Nat /\ Half \in Nat
  BY <1>1, <1>2, <1>3, HalfFacts, WordFacts DEF OperandsInv
<1>6. PICK y : /\ y = Computed(node[t].rmw, rax[t], arg3[t])
               /\ y = Apply(node[t].rmw, Half, rax[t], arg3[t], r11[t])
  BY <1>2, <1>3, <1>5, ComputedFacts
<1>7. y \in Nat
  BY <1>2, <1>3, <1>5, <1>6, ApplyType, WordFacts
<1>8. Datum(node[t]) \in Word(node[t].bits)
  BY <1>1, <1>2, DatumFacts
<1>9. CASE Datum(node[t]) = rax[t]
  <2>1. Code(t, "finish", Datum(node[t]), y, fault[t], void[t]) /\ lock' = lock
    BY <1>1, <1>6, <1>9, SameFacts DEF Retry, Goto, Code
  <2>2. r11'[t] = y /\ pc'[t] = "finish" /\ node' = node /\ monitor' = monitor /\ work' = work
    BY <1>1, <2>1, CodeFacts
  <2>3. Put(node[t], Apply(node[t].rmw, node[t].bits, Datum(node[t]), arg3[t], r11[t]))
    BY <1>3, <1>6, <1>9, <2>2 DEF Retry
  <2>4. PathInv(t)' /\ LockInv(t)'
    BY <1>1, <1>2, <2>1, <2>2 DEF PathInv, MonitorMatches, LockInv
  <2>5. MemStep(t)
    BY <1>1, Undisturbed
  <2> QED BY <1>1, <1>4, <1>7, <2>1, <2>3, <2>4, <2>5, AtomicStep DEF LockStep
<1>10. CASE Datum(node[t]) # rax[t]
  <2>1. Code(t, "retry", Datum(node[t]), y, fault[t], void[t]) /\ mem' = mem /\ lock' = lock
    BY <1>1, <1>6, <1>10, SameFacts DEF Retry, Observe, Code
  <2>2. "retry" \in Before /\ pc'[t] = "retry" /\ node' = node /\ monitor' = monitor /\ work' = work
    BY <1>1, <2>1, CodeFacts DEF Before, Pc
  <2>3. PathInv(t)' /\ LockInv(t)'
    BY <1>1, <1>2, <2>1, <2>2 DEF PathInv, MonitorMatches, LockInv
  <2>4. Datum(node[t]) \in Word(Width(t, "retry"))
    BY <1>8 DEF Width
  <2> QED BY <1>1, <1>4, <1>7, <2>1, <2>2, <2>3, <2>4, QuietStep DEF LockStep
<1> QED BY <1>9, <1>10

\* A load, or its lower half.
LEMMA LoadStep ==
  ASSUME Inductive, NEW t \in Thread, Load(t)
  PROVE  Inductive' /\ Simulated
<1>1. TypeOK /\ pc[t] = "load" /\ pc[t] # "idle"
  BY DEF Inductive, Load, At
<1>2. /\ PathInv(t) /\ OperandsInv(t) /\ LockInv(t) /\ ThreadInv(t) /\ r11[t] \in Nat /\ node[t] \in Node
      /\ insn[t] \in Instruction /\ node[t] = Translate(insn[t])
  BY <1>1, RunningFacts
<1>3. ~void[t] /\ fault[t] \in BOOLEAN /\ void[t] \in BOOLEAN /\ mem \in [{0, 1} -> Word(Half)] /\ Got(t) = <<>>
  BY <1>1, <1>2, SameFacts DEF ThreadInv, Got
<1>4. node[t].op \in {"Load", "LoadEx"}
  BY <1>1, <1>2 DEF PathInv
<1>5. PICK i, n, d : i = insn[t] /\ n = node[t] /\ d = Datum(n)
  OBVIOUS
<1>6. i \in Instruction /\ i.mn \in {"LDXR", "LDXP", "LDAR"} /\ i.mn # "CLREX"
  BY <1>2, <1>4, <1>5, TranslateFacts
<1>7. (Abstract!Quad(i) <=> n.bits # Half) /\ Abstract!Value(mem, i) = d /\ (i.wide <=> n.bits # Half)
  BY <1>2, <1>5, <1>6, ValueFacts
<1>8. CASE n.bits = Half
  <2>1. Code(t, "finish", d, r11[t], fault[t], void[t]) /\ mem' = mem /\ lock' = lock
    BY <1>1, <1>5, <1>8, SameFacts DEF Load, Goto, Observe, Code
  <2>2. /\ "finish" \in Pc \ {"idle"} /\ pc'[t] = "finish" /\ rax'[t] = d /\ ~void'[t]
        /\ node' = node /\ monitor' = monitor /\ work' = work
    BY <1>1, <1>3, <2>1, CodeFacts DEF Pc
  <2>3. PathInv(t)' /\ LockInv(t)'
    BY <1>1, <1>2, <2>1, <2>2 DEF PathInv, MonitorMatches, LockInv
  <2>4. d \in Word(Width(t, "finish"))
    BY <1>1, <1>2, <1>5, DatumFacts DEF Width
  <2>5. ThreadInv(t)' /\ d \in Nat
    BY <1>1, <1>3, <2>1, <2>2, <2>3, <2>4, CodeThread
  <2>6. Inductive'
    BY <1>1, <1>2, <1>3, <2>1, <2>2, <2>5, CodeInv DEF LockStep, MemStep
  <2>7. Got(t)' = <<d>>
    BY <1>4, <1>5, <1>8, <2>2 DEF Got, Obtained
  <2>8. /\ Abstract!Effect(t, d, mem')
        /\ calls[t] # Abstract!None /\ calls[t].insn = i /\ ~calls[t].void /\ calls[t].got = <<>>
    BY <1>1, <1>3, <1>5, <2>1, <2>2, <2>7, CodeEffects
  <2>9. Abstract!Load(t)
    BY <1>6, <1>7, <1>8, <2>1, <2>8 DEF Abstract!Load, calls
  <2> QED BY <2>6, <2>9, AbstractNext DEF Simulated
<1>9. CASE n.bits # Half
  <2>1. Code(t, "load_high", mem[0], r11[t], fault[t], void[t]) /\ mem' = mem /\ lock' = lock
    BY <1>1, <1>5, <1>9, SameFacts DEF Load, Goto, Observe, Code
  <2>2. /\ "load_high" \in Pc \ {"idle"} /\ pc'[t] = "load_high" /\ rax'[t] = mem[0]
        /\ node' = node /\ monitor' = monitor /\ work' = work
    BY <1>1, <2>1, CodeFacts DEF Pc
  <2>3. PathInv(t)' /\ LockInv(t)'
    BY <1>1, <1>2, <1>5, <1>9, <2>1, <2>2 DEF PathInv, MonitorMatches, LockInv
  <2>4. mem[0] \in Word(Width(t, "load_high"))
    BY <1>3 DEF Width
  <2>5. ThreadInv(t)' /\ mem[0] \in Nat
    BY <1>1, <1>3, <1>4, <2>1, <2>2, <2>3, <2>4, CodeThread
  <2>6. Inductive'
    BY <1>1, <1>2, <1>3, <2>1, <2>2, <2>5, CodeInv DEF LockStep, MemStep
  <2>7. Got(t)' = <<mem[0]>>
    BY <2>2 DEF Got
  <2>8. /\ calls[t] = [insn |-> i, got |-> <<>>, void |-> void[t]]
        /\ calls' = [calls EXCEPT ![t] = [insn |-> i, got |-> <<mem[0]>>, void |-> void[t]]]
        /\ calls[t] # Abstract!None
        /\ reservations' = reservations /\ out' = out /\ fault' = [fault EXCEPT ![t] = fault[t]]
    BY <1>1, <1>3, <1>5, <2>1, <2>2, <2>7, CodeCalls
  <2>9. i.mn = "LDXP" /\ Abstract!Quad(i)
    BY <1>6, <1>7, <1>9 DEF Instruction
  <2>10. Abstract!ReadHalf(t)
    <3>1. PICK c, w, m : c = calls[t] /\ w = void[t] /\ m = mem[0]
      OBVIOUS
    <3>2. Append(<<>>, m) = <<m>> /\ Len(<<>>) = 0 /\ 0 < 2
      OBVIOUS
    <3>3. c = [insn |-> i, got |-> <<>>, void |-> w]
      BY <2>8, <3>1
    <3>4. [c EXCEPT !.got = Append(@, mem[Len(@)])] = [insn |-> i, got |-> <<m>>, void |-> w]
      BY <3>1, <3>2, <3>3
    <3>5. c.insn = i /\ c.void = w /\ c.got = <<>>
      BY <3>3
    <3>6. calls' = [calls EXCEPT ![t].got = Append(@, mem[Len(@)])]
      BY <2>8, <3>1, <3>4
    <3>7. fault' = fault
      BY <1>1, <2>8, SameFacts
    <3> QED BY <1>3, <2>1, <2>8, <2>9, <3>1, <3>2, <3>5, <3>6, <3>7 DEF Abstract!ReadHalf, calls, reservations
  <2> QED BY <2>6, <2>10, AbstractNext DEF Simulated
<1> QED BY <1>8, <1>9

-----------------------------------------------------------------------------
(* The second half of a load, stores and faults                            *)

\* The upper half of a load.
LEMMA LoadHighStep ==
  ASSUME Inductive, NEW t \in Thread, LoadHigh(t)
  PROVE  Inductive' /\ Simulated
<1>1. TypeOK /\ pc[t] = "load_high" /\ pc[t] # "idle"
  BY DEF Inductive, LoadHigh, At
<1>2. /\ PathInv(t) /\ OperandsInv(t) /\ LockInv(t) /\ ThreadInv(t) /\ r11[t] \in Nat /\ node[t] \in Node
      /\ insn[t] \in Instruction /\ node[t] = Translate(insn[t])
  BY <1>1, RunningFacts
<1>3. /\ ~void[t] /\ fault[t] \in BOOLEAN /\ void[t] \in BOOLEAN /\ mem \in [{0, 1} -> Word(Half)]
      /\ Got(t) = <<rax[t]>>
  BY <1>1, <1>2, SameFacts DEF ThreadInv, Got
<1>4. node[t].op \in {"Load", "LoadEx"} /\ node[t].bits # Half /\ node[t].bits = 2 * Half
  BY <1>1, <1>2 DEF PathInv, Node
<1>5. PICK i, n : i = insn[t] /\ n = node[t]
  OBVIOUS
<1>6. i \in Instruction /\ i.mn \in {"LDXR", "LDXP", "LDAR"} /\ i.mn # "CLREX"
  BY <1>2, <1>4, <1>5, TranslateFacts
<1>7. Abstract!Quad(i) /\ i.mn = "LDXP" /\ n.op = "LoadEx"
  <2>1. Abstract!Quad(i) /\ i.wide
    BY <1>2, <1>4, <1>5, <1>6, ValueFacts
  <2>2. i.mn = "LDXP"
    BY <1>6, <2>1 DEF Instruction
  <2> QED BY <1>2, <1>5, <2>1, <2>2, TranslateFacts
<1>8. PICK x \in Word(Half), u \in Word(Half) : x = rax[t] /\ u = mem[1]
  BY <1>1, <1>2, <1>3 DEF OperandsInv
<1>9. PICK d \in Word(2 * Half) : d = x + 2^Half * u /\ Trunc(d, Half) = x /\ d \div 2^Half = u
  <2>1. Half \in Nat
    BY HalfFacts
  <2>2. PICK d : d = x + 2^Half * u
    OBVIOUS
  <2>3. d \in Word(2 * Half) /\ Trunc(d, Half) = x /\ d \div 2^Half = u
    BY <2>1, <2>2, QuadFacts
  <2> QED BY <2>2, <2>3
<1>10. Code(t, "finish", d, r11[t], fault[t], void[t]) /\ mem' = mem /\ lock' = lock
  BY <1>1, <1>8, <1>9, SameFacts DEF LoadHigh, Goto, Observe, Code
<1>11. /\ "finish" \in Pc \ {"idle"} /\ pc'[t] = "finish" /\ rax'[t] = d /\ ~void'[t]
       /\ node' = node /\ monitor' = monitor /\ work' = work
  BY <1>1, <1>3, <1>10, CodeFacts DEF Pc
<1>12. PathInv(t)' /\ LockInv(t)'
  BY <1>1, <1>2, <1>10, <1>11 DEF PathInv, MonitorMatches, LockInv
<1>13. d \in Word(Width(t, "finish"))
  BY <1>4 DEF Width
<1>14. ThreadInv(t)' /\ d \in Nat
  BY <1>1, <1>3, <1>10, <1>11, <1>12, <1>13, CodeThread
<1>15. Inductive'
  BY <1>1, <1>2, <1>3, <1>10, <1>11, <1>14, CodeInv DEF LockStep, MemStep
<1>16. Got(t)' = <<x, u>>
  <2>1. Got(t)' = <<Trunc(d, Half), d \div 2^Half>>
    BY <1>4, <1>5, <1>7, <1>11 DEF Got, Obtained
  <2> QED BY <1>9, <2>1
<1>17. /\ calls[t] = [insn |-> i, got |-> <<x>>, void |-> void[t]]
       /\ calls' = [calls EXCEPT ![t] = [insn |-> i, got |-> <<x, u>>, void |-> void[t]]]
       /\ calls[t] # Abstract!None
       /\ reservations' = reservations /\ out' = out /\ fault' = [fault EXCEPT ![t] = fault[t]]
  BY <1>1, <1>3, <1>5, <1>8, <1>10, <1>11, <1>16, CodeCalls
<1>18. Abstract!ReadHalf(t)
  <2>1. PICK c, w : c = calls[t] /\ w = void[t]
    OBVIOUS
  <2>2. Append(<<x>>, u) = <<x, u>> /\ Len(<<x>>) = 1 /\ 1 < 2
    BY AppendPair
  <2>3. c = [insn |-> i, got |-> <<x>>, void |-> w]
    BY <1>17, <2>1
  <2>4. [c EXCEPT !.got = Append(@, mem[Len(@)])] = [insn |-> i, got |-> <<x, u>>, void |-> w]
    BY <1>8, <2>2, <2>3
  <2>5. c.insn = i /\ c.void = w /\ c.got = <<x>>
    BY <2>3
  <2>6. calls' = [calls EXCEPT ![t].got = Append(@, mem[Len(@)])]
    BY <1>17, <2>1, <2>4
  <2>7. fault' = fault
    BY <1>1, <1>17, SameFacts
  <2> QED BY <1>3, <1>7, <1>10, <1>17, <2>1, <2>2, <2>5, <2>6, <2>7 DEF Abstract!ReadHalf, calls, reservations
<1> QED BY <1>15, <1>18, AbstractNext DEF Simulated

\* A store-release.
LEMMA StoreStep ==
  ASSUME Inductive, NEW t \in Thread, Store(t)
  PROVE  Inductive' /\ Simulated
<1>1. TypeOK /\ pc[t] = "store" /\ pc[t] # "idle"
  BY DEF Inductive, Store, At
<1>2. /\ PathInv(t) /\ OperandsInv(t) /\ LockInv(t) /\ ThreadInv(t) /\ r11[t] \in Nat /\ node[t] \in Node
      /\ insn[t] \in Instruction /\ node[t] = Translate(insn[t]) /\ rax[t] \in Nat
      /\ arg3[t] = node[t].val /\ arg3[t] \in Word(node[t].bits)
  BY <1>1, RunningFacts
<1>3. ~void[t] /\ fault[t] \in BOOLEAN /\ void[t] \in BOOLEAN /\ Got(t) = <<>>
  BY <1>1, <1>2, SameFacts DEF ThreadInv, Got
<1>4. node[t].op = "Store"
  BY <1>1, <1>2 DEF PathInv
<1>5. PICK i, n : i = insn[t] /\ n = node[t]
  OBVIOUS
<1>6. i.mn = "STLR" /\ i.mn # "CLREX"
  BY <1>2, <1>4, <1>5, TranslateFacts
<1>7. \A v : Put(n, v) => mem' = Abstract!Updated(mem, i, v)
  BY <1>2, <1>5, <1>6, ValueFacts
<1>8. Stored(i.mn) = 1 /\ Len(i.val) = 1 /\ ~i.wide
  BY <1>2, <1>5, <1>6 DEF Stored, Instruction
<1>9. arg3[t] = i.val[1]
  <2>1. n.val = Abstract!Pair(i, i.val)
    BY <1>2, <1>5, <1>8, TranslateFacts
  <2> QED BY <1>2, <1>5, <1>8, <2>1 DEF Abstract!Pair
<1>10. Put(n, arg3[t])
  BY <1>5 DEF Store
<1>11. mem' = Abstract!Updated(mem, i, i.val[1])
  BY <1>7, <1>9, <1>10
<1>12. mem' \in [{0, 1} -> Word(Half)]
  BY <1>1, <1>2, <1>5, <1>10, DatumFacts
<1>13. Code(t, "finish", rax[t], r11[t], fault[t], void[t]) /\ lock' = lock
  BY <1>1, SameFacts DEF Store, Goto, Code, regs
<1>14. /\ "finish" \in Pc \ {"idle"} /\ pc'[t] = "finish" /\ ~void'[t]
       /\ node' = node /\ monitor' = monitor /\ work' = work
  BY <1>1, <1>3, <1>13, CodeFacts DEF Pc
<1>15. PathInv(t)' /\ LockInv(t)'
  BY <1>1, <1>2, <1>13, <1>14 DEF PathInv, MonitorMatches, LockInv
<1>16. rax[t] \in Word(Width(t, "finish"))
  BY <1>1, <1>2 DEF Width, OperandsInv
<1>17. ThreadInv(t)'
  BY <1>1, <1>3, <1>13, <1>14, <1>15, <1>16, CodeThread
<1>18. MemStep(t)
  BY <1>1, Undisturbed
<1>19. Inductive'
  BY <1>1, <1>2, <1>3, <1>12, <1>13, <1>14, <1>17, <1>18, CodeInv DEF LockStep
<1>20. Got(t)' = <<0>>
  BY <1>4, <1>5, <1>14 DEF Got, Obtained
<1>21. /\ Abstract!Effect(t, 0, mem')
       /\ calls[t] # Abstract!None /\ calls[t].insn = i /\ ~calls[t].void /\ calls[t].got = <<>>
  BY <1>1, <1>3, <1>5, <1>13, <1>14, <1>20, CodeEffects
<1>22. Abstract!Store(t)
  BY <1>6, <1>11, <1>21 DEF Abstract!Store, calls
<1> QED BY <1>19, <1>22, AbstractNext DEF Simulated

\* A load or store that is skipped or faults.
LEMMA SkipOrFaultStep ==
  ASSUME Inductive, NEW t \in Thread, SkipOrFault(t)
  PROVE  Inductive' /\ Simulated
<1>1. TypeOK /\ pc[t] \in {"load", "store"} /\ pc[t] # "idle" /\ pc[t] \in Before
  BY DEF Inductive, SkipOrFault, Before, Pc
<1>2. PathInv(t) /\ OperandsInv(t) /\ LockInv(t)
  BY <1>1, RunningFacts
<1>3. Code(t, "finish", rax[t], r11[t], TRUE, TRUE) /\ mem' = mem /\ lock' = lock
  BY <1>1, SameFacts DEF SkipOrFault, Goto, Code, regs
<1>4. pc'[t] = "finish" /\ node' = node /\ monitor' = monitor /\ work' = work
  BY <1>1, SameFacts DEF SkipOrFault, Goto, TypeOK
<1>5. PathInv(t)' /\ LockInv(t)'
  BY <1>1, <1>2, <1>3, <1>4 DEF PathInv, MonitorMatches, LockInv
<1>6. rax[t] \in Word(node[t].bits)
  BY <1>1, <1>2 DEF OperandsInv
<1> QED BY <1>1, <1>3, <1>5, <1>6, FaultStep DEF LockStep

-----------------------------------------------------------------------------
(* mem_atomic                                                              *)

\* A host atomic.
LEMMA HostAtomicStep ==
  ASSUME Inductive, NEW t \in Thread, HostAtomic(t)
  PROVE  Inductive' /\ Simulated
<1>1. TypeOK /\ pc[t] = "call" /\ pc[t] # "idle" /\ work.callback = "host" /\ node[t].bits = Half
  BY DEF Inductive, HostAtomic, At
<1>2. PathInv(t) /\ LockInv(t) /\ r11[t] \in Nat
  BY <1>1, RunningFacts
<1>3. Code(t, "finish", Datum(node[t]), r11[t], fault[t], void[t]) /\ lock' = lock
  BY <1>1, SameFacts DEF HostAtomic, Goto, Observe, Code
<1>4. Put(node[t], Apply(node[t].rmw, node[t].bits, Datum(node[t]), arg3[t], r11[t]))
  BY <1>1 DEF HostAtomic
<1>5. pc'[t] = "finish" /\ node' = node /\ monitor' = monitor /\ work' = work
  BY <1>1, <1>3, CodeFacts
<1>6. PathInv(t)' /\ LockInv(t)'
  BY <1>1, <1>2, <1>3, <1>5 DEF PathInv, MonitorMatches, LockInv
<1>7. MemStep(t)
  BY <1>1, Undisturbed
<1> QED BY <1>1, <1>2, <1>3, <1>4, <1>6, <1>7, AtomicStep DEF LockStep

\* A callback that reports a fault.
LEMMA HostFaultStep ==
  ASSUME Inductive, NEW t \in Thread, HostFault(t)
  PROVE  Inductive' /\ Simulated
<1>1. TypeOK /\ pc[t] = "call" /\ pc[t] # "idle" /\ pc[t] \in Before
  BY DEF Inductive, HostFault, At, Before, Pc
<1>2. PathInv(t) /\ OperandsInv(t) /\ LockInv(t)
  BY <1>1, RunningFacts
<1>3. Code(t, "finish", rax[t], r11[t], TRUE, TRUE) /\ mem' = mem /\ lock' = lock
  BY <1>1, SameFacts DEF HostFault, Goto, Code, regs
<1>4. pc'[t] = "finish" /\ node' = node /\ monitor' = monitor /\ work' = work
  BY <1>1, SameFacts DEF HostFault, Goto, TypeOK
<1>5. PathInv(t)' /\ LockInv(t)'
  BY <1>1, <1>2, <1>3, <1>4 DEF PathInv, MonitorMatches, LockInv
<1>6. rax[t] \in Word(node[t].bits)
  BY <1>1, <1>2 DEF OperandsInv
<1> QED BY <1>1, <1>3, <1>5, <1>6, FaultStep DEF LockStep

\* The lower half of the read that seeds rmw_128.
LEMMA Rmw128SeedStep ==
  ASSUME Inductive, NEW t \in Thread, Rmw128Seed(t)
  PROVE  Inductive' /\ Simulated
<1>1. /\ TypeOK /\ pc[t] = "call" /\ pc[t] # "idle" /\ pc[t] \in Before
      /\ work.callback = "host" /\ node[t].bits # Half
  BY DEF Inductive, Rmw128Seed, At, Before, Pc
<1>2. PathInv(t) /\ OperandsInv(t) /\ LockInv(t) /\ r11[t] \in Nat
  BY <1>1, RunningFacts
<1>3. Code(t, "seed_high", mem[0], r11[t], fault[t], void[t]) /\ mem' = mem /\ lock' = lock
  BY <1>1, SameFacts DEF Rmw128Seed, Goto, Observe, Code
<1>4. "seed_high" \in Before /\ pc'[t] = "seed_high" /\ node' = node /\ monitor' = monitor /\ work' = work
  BY <1>1, <1>3, CodeFacts DEF Before, Pc
<1>5. PathInv(t)' /\ LockInv(t)'
  BY <1>1, <1>2, <1>3, <1>4 DEF PathInv, MonitorMatches, LockInv
<1>6. mem[0] \in Word(Width(t, "seed_high"))
  BY <1>1, SameFacts DEF Width
<1> QED BY <1>1, <1>2, <1>3, <1>4, <1>5, <1>6, QuietStep DEF LockStep

\* The upper half.
LEMMA Rmw128SeedHighStep ==
  ASSUME Inductive, NEW t \in Thread, Rmw128SeedHigh(t)
  PROVE  Inductive' /\ Simulated
<1>1. TypeOK /\ pc[t] = "seed_high" /\ pc[t] # "idle" /\ pc[t] \in Before
  BY DEF Inductive, Rmw128SeedHigh, At, Before, Pc
<1>2. PathInv(t) /\ OperandsInv(t) /\ LockInv(t) /\ r11[t] \in Nat /\ node[t] \in Node
  BY <1>1, RunningFacts
<1>3. PICK x : x = rax[t] + (2^Half) * mem[1]
  OBVIOUS
<1>4. Code(t, "cmpxchg16b", x, r11[t], fault[t], void[t]) /\ mem' = mem /\ lock' = lock
  BY <1>1, <1>3, SameFacts DEF Rmw128SeedHigh, Goto, Observe, Code
<1>5. "cmpxchg16b" \in Before /\ pc'[t] = "cmpxchg16b" /\ node' = node /\ monitor' = monitor /\ work' = work
  BY <1>1, <1>4, CodeFacts DEF Before, Pc
<1>6. PathInv(t)' /\ LockInv(t)'
  BY <1>1, <1>2, <1>4, <1>5 DEF PathInv, MonitorMatches, LockInv
<1>7. x \in Word(Width(t, "cmpxchg16b"))
  <2>1. node[t].bits = 2 * Half
    BY <1>1, <1>2 DEF PathInv, Node
  <2>2. rax[t] \in Word(Half) /\ mem[1] \in Word(Half) /\ Half \in Nat
    BY <1>1, <1>2, SameFacts, HalfFacts DEF OperandsInv
  <2> QED BY <1>3, <2>1, <2>2, QuadFacts DEF Width
<1> QED BY <1>1, <1>2, <1>4, <1>5, <1>6, <1>7, QuietStep DEF LockStep

\* A round of cmpxchg16b.
LEMMA Rmw128Step ==
  ASSUME Inductive, NEW t \in Thread, Rmw128(t)
  PROVE  Inductive' /\ Simulated
<1>1. TypeOK /\ pc[t] = "cmpxchg16b" /\ pc[t] # "idle" /\ pc[t] \in Before
  BY DEF Inductive, Rmw128, At, Before, Pc
<1>2. PathInv(t) /\ LockInv(t) /\ r11[t] \in Nat /\ node[t] \in Node /\ work.callback = "host"
  BY <1>1, RunningFacts DEF PathInv
<1>3. CASE Datum(node[t]) = rax[t]
  <2>1. Code(t, "finish", Datum(node[t]), r11[t], fault[t], void[t]) /\ lock' = lock
    BY <1>1, <1>3, SameFacts DEF Rmw128, Goto, Code
  <2>2. pc'[t] = "finish" /\ node' = node /\ monitor' = monitor /\ work' = work
    BY <1>1, <2>1, CodeFacts
  <2>3. Put(node[t], Apply(node[t].rmw, node[t].bits, Datum(node[t]), arg3[t], r11[t]))
    BY <1>3 DEF Rmw128
  <2>4. PathInv(t)' /\ LockInv(t)'
    BY <1>1, <1>2, <2>1, <2>2 DEF PathInv, MonitorMatches, LockInv
  <2>5. MemStep(t)
    BY <1>2, Undisturbed
  <2> QED BY <1>1, <1>2, <2>1, <2>3, <2>4, <2>5, AtomicStep DEF LockStep
<1>4. CASE Datum(node[t]) # rax[t]
  <2>1. Code(t, "cmpxchg16b", Datum(node[t]), r11[t], fault[t], void[t]) /\ mem' = mem /\ lock' = lock
    BY <1>1, <1>4, SameFacts DEF Rmw128, Observe, Code
  <2>2. "cmpxchg16b" \in Before /\ pc'[t] = "cmpxchg16b" /\ node' = node /\ monitor' = monitor /\ work' = work
    BY <1>1, <2>1, CodeFacts DEF Before, Pc
  <2>3. PathInv(t)' /\ LockInv(t)'
    BY <1>1, <1>2, <2>1, <2>2 DEF PathInv, MonitorMatches, LockInv
  <2>4. Datum(node[t]) \in Word(Width(t, "cmpxchg16b"))
    BY <1>1, <1>2, DatumFacts DEF Width
  <2> QED BY <1>1, <1>2, <2>1, <2>2, <2>3, <2>4, QuietStep DEF LockStep
<1> QED BY <1>3, <1>4

-----------------------------------------------------------------------------
(* The fallback lock                                                       *)

\* The lock is taken.
LEMMA AcquireStep ==
  ASSUME Inductive, NEW t \in Thread, Acquire(t)
  PROVE  Inductive' /\ Simulated
<1>1. /\ TypeOK /\ pc[t] = "call" /\ pc[t] # "idle" /\ pc[t] \in Before
      /\ work.callback # "host" /\ lock = Nobody /\ lock' = t /\ mem' = mem
  BY DEF Inductive, Acquire, At, Before, Pc
<1>2. PathInv(t) /\ OperandsInv(t) /\ r11[t] \in Nat
  BY <1>1, RunningFacts
<1>3. Code(t, "read", rax[t], r11[t], fault[t], void[t])
  BY <1>1, SameFacts DEF Acquire, Goto, Code, regs
<1>4. "read" \in Before /\ pc'[t] = "read" /\ node' = node /\ monitor' = monitor /\ work' = work
  BY <1>1, <1>3, CodeFacts DEF Before, Pc
<1>5. PathInv(t)' /\ LockInv(t)'
  BY <1>1, <1>2, <1>4 DEF PathInv, MonitorMatches, LockInv
<1>6. rax[t] \in Word(Width(t, "read"))
  BY <1>1, <1>2 DEF OperandsInv, Width
<1> QED BY <1>1, <1>2, <1>3, <1>4, <1>5, <1>6, QuietStep DEF LockStep

\* The read under the lock.
LEMMA FallbackReadStep ==
  ASSUME Inductive, NEW t \in Thread, FallbackRead(t)
  PROVE  Inductive' /\ Simulated
<1>1. TypeOK /\ pc[t] = "read" /\ pc[t] # "idle" /\ pc[t] \in Before
  BY DEF Inductive, FallbackRead, At, Before, Pc
<1>2. /\ PathInv(t) /\ LockInv(t) /\ ThreadInv(t) /\ r11[t] \in Nat /\ node[t] \in Node
      /\ insn[t] \in Instruction /\ node[t] = Translate(insn[t])
  BY <1>1, RunningFacts
<1>3. ~void[t] /\ fault[t] \in BOOLEAN /\ void[t] \in BOOLEAN
  BY <1>1, <1>2, SameFacts DEF ThreadInv
<1>4. Datum(node[t]) \in Word(node[t].bits)
  BY <1>1, <1>2, DatumFacts
<1>5. mem' = mem /\ lock' = lock
  BY DEF FallbackRead
<1>6. CASE work.callback = "default" /\ fault[t]
  <2>1. void'[t] = TRUE /\ void' = [void EXCEPT ![t] = TRUE]
    BY <1>1, <1>6 DEF FallbackRead, TypeOK
  <2>2. pc' = [pc EXCEPT ![t] = "unlock"]
    BY <2>1 DEF FallbackRead, Goto
  <2>3. fault' = [fault EXCEPT ![t] = TRUE]
    <3>1. fault' = fault /\ fault[t] = TRUE
      BY <1>3, <1>6 DEF FallbackRead
    <3> QED BY <1>1, <3>1 DEF TypeOK
  <2>4. Code(t, "unlock", Datum(node[t]), r11[t], TRUE, TRUE)
    BY <1>1, <2>1, <2>2, <2>3, SameFacts DEF FallbackRead, Observe, Code
  <2>5. pc'[t] = "unlock" /\ node' = node /\ monitor' = monitor /\ work' = work
    BY <1>1, <2>2 DEF FallbackRead, TypeOK
  <2>6. PathInv(t)' /\ LockInv(t)'
    BY <1>1, <1>2, <1>5, <2>5 DEF PathInv, MonitorMatches, LockInv
  <2> QED BY <1>1, <1>4, <1>5, <2>4, <2>6, FaultStep DEF LockStep
<1>7. CASE ~(work.callback = "default" /\ fault[t])
  <2>1. ~void'[t] /\ void' = [void EXCEPT ![t] = void[t]]
    <3>1. void' = [void EXCEPT ![t] = FALSE]
      BY <1>1, <1>7 DEF FallbackRead
    <3>2. void[t] = FALSE
      BY <1>3
    <3> QED BY <1>1, <3>1, <3>2 DEF TypeOK
  <2>2. PICK there : there = IF node[t].rmw = "Cas" /\ Datum(node[t]) # r11[t] THEN "unlock" ELSE "write"
    OBVIOUS
  <2>3. pc' = [pc EXCEPT ![t] = there]
    BY <2>1, <2>2 DEF FallbackRead, Goto
  <2>4. Code(t, there, Datum(node[t]), r11[t], fault[t], void[t])
    BY <1>1, <2>1, <2>3, SameFacts DEF FallbackRead, Observe, Code
  <2>5. /\ pc'[t] = there /\ rax'[t] = Datum(node[t]) /\ r11'[t] = r11[t]
        /\ node' = node /\ monitor' = monitor /\ work' = work
    BY <1>1, <2>4, CodeFacts
  <2>6. CASE there = "unlock"
    <3>1. PathInv(t)' /\ LockInv(t)'
      BY <1>1, <1>2, <1>5, <2>5, <2>6 DEF PathInv, MonitorMatches, LockInv
    <3>2. Apply(node[t].rmw, node[t].bits, Datum(node[t]), arg3[t], r11[t]) = Datum(node[t])
      BY <2>2, <2>6 DEF Apply
    <3>3. Put(node[t], Datum(node[t]))
      BY <1>1, <1>2, <1>5, DatumFacts
    <3> QED BY <1>1, <1>2, <1>5, <2>4, <2>6, <3>1, <3>2, <3>3, AtomicStep DEF LockStep
  <2>7. CASE there = "write"
    <3>1. Datum(node[t])' = Datum(node[t])
      BY <1>5, <2>5 DEF Datum
    <3>2. node[t].rmw = "Cas" => Datum(node[t]) = r11[t]
      BY <2>2, <2>7
    <3>3. PathInv(t)' /\ LockInv(t)'
      BY <1>1, <1>2, <1>5, <2>5, <2>7, <3>1, <3>2 DEF PathInv, MonitorMatches, LockInv
    <3>4. Datum(node[t]) \in Word(Width(t, there)) /\ there \in Before
      BY <1>4, <2>7 DEF Width, Before, Pc
    <3> QED BY <1>1, <1>2, <1>5, <2>4, <3>3, <3>4, QuietStep DEF LockStep
  <2> QED BY <2>2, <2>6, <2>7
<1> QED BY <1>6, <1>7

\* A fault under the lock.
LEMMA FallbackFaultStep ==
  ASSUME Inductive, NEW t \in Thread, FallbackFault(t)
  PROVE  Inductive' /\ Simulated
<1>1. TypeOK /\ pc[t] \in {"read", "write"} /\ pc[t] # "idle" /\ pc[t] \in Before
  BY DEF Inductive, FallbackFault, Before, Pc
<1>2. PathInv(t) /\ OperandsInv(t) /\ LockInv(t)
  BY <1>1, RunningFacts
<1>3. Code(t, "unlock", rax[t], r11[t], TRUE, TRUE) /\ mem' = mem /\ lock' = lock
  BY <1>1, SameFacts DEF FallbackFault, Goto, Code, regs
<1>4. pc'[t] = "unlock" /\ node' = node /\ monitor' = monitor /\ work' = work
  BY <1>1, SameFacts DEF FallbackFault, Goto, TypeOK
<1>5. PathInv(t)' /\ LockInv(t)'
  BY <1>1, <1>2, <1>3, <1>4 DEF PathInv, MonitorMatches, LockInv
<1>6. rax[t] \in Word(node[t].bits)
  BY <1>1, <1>2 DEF OperandsInv
<1> QED BY <1>1, <1>3, <1>5, <1>6, FaultStep DEF LockStep

\* The write under the lock: what it stores was computed from the datum that is still there.
LEMMA FallbackWriteStep ==
  ASSUME Inductive, NEW t \in Thread, FallbackWrite(t)
  PROVE  Inductive' /\ Simulated
<1>1. TypeOK /\ pc[t] = "write" /\ pc[t] # "idle"
  BY DEF Inductive, FallbackWrite, At
<1>2. PathInv(t) /\ LockInv(t) /\ r11[t] \in Nat
  BY <1>1, RunningFacts
<1>3. rax[t] = Datum(node[t])
  BY <1>1, <1>2 DEF LockInv
<1>4. Code(t, "unlock", Datum(node[t]), r11[t], fault[t], void[t]) /\ lock' = lock
  BY <1>1, <1>3, SameFacts DEF FallbackWrite, Goto, Code, regs
<1>5. Put(node[t], Apply(node[t].rmw, node[t].bits, Datum(node[t]), arg3[t], r11[t]))
  BY <1>3 DEF FallbackWrite
<1>6. pc'[t] = "unlock" /\ node' = node /\ monitor' = monitor /\ work' = work
  BY <1>1, <1>4, CodeFacts
<1>7. PathInv(t)' /\ LockInv(t)'
  BY <1>1, <1>2, <1>4, <1>6 DEF PathInv, MonitorMatches, LockInv
<1>8. MemStep(t)
  BY <1>1, Undisturbed
<1> QED BY <1>1, <1>2, <1>4, <1>5, <1>7, <1>8, AtomicStep DEF LockStep

\* The lock is given back.
LEMMA UnlockStep ==
  ASSUME Inductive, NEW t \in Thread, Unlock(t)
  PROVE  Inductive' /\ Simulated
<1>1. TypeOK /\ pc[t] = "unlock" /\ pc[t] # "idle" /\ lock' = Nobody /\ mem' = mem
  BY DEF Inductive, Unlock, At
<1>2. /\ PathInv(t) /\ OperandsInv(t) /\ LockInv(t) /\ ThreadInv(t)
      /\ r11[t] \in Nat /\ rax[t] \in Nat /\ node[t] \in Node
  BY <1>1, RunningFacts
<1>3. fault[t] \in BOOLEAN /\ void[t] \in BOOLEAN /\ mem \in [{0, 1} -> Word(Half)] /\ lock = t
      /\ (void[t] => fault[t]) /\ t # Nobody
  BY <1>1, <1>2, SameFacts, ThreadAssumption DEF ThreadInv, LockInv
<1>4. Code(t, "finish", rax[t], r11[t], fault[t], void[t])
  BY <1>1, SameFacts DEF Unlock, Goto, Code, regs
<1>5. /\ "finish" \in Pc \ {"idle"} /\ pc'[t] = "finish" /\ rax'[t] = rax[t] /\ void'[t] = void[t]
      /\ node' = node /\ monitor' = monitor /\ work' = work
  BY <1>1, <1>4, CodeFacts DEF Pc
<1>6. PathInv(t)' /\ LockInv(t)'
  BY <1>1, <1>2, <1>3, <1>5 DEF PathInv, MonitorMatches, LockInv
<1>7. rax[t] \in Word(Width(t, "finish"))
  BY <1>1, <1>2 DEF OperandsInv, Width
<1>8. ThreadInv(t)'
  BY <1>1, <1>3, <1>4, <1>5, <1>6, <1>7, CodeThread
<1>9. Inductive'
  BY <1>1, <1>2, <1>3, <1>4, <1>5, <1>8, CodeInv DEF LockStep, MemStep
<1>10. Got(t)' = Got(t)
  <2>1. Obtained(t)' = Obtained(t)
    BY <1>5 DEF Obtained
  <2> QED BY <1>1, <1>5, <2>1 DEF Got
<1>11. UNCHANGED Abstract!avars
  BY <1>1, <1>4, <1>5, <1>10, CodeStutters
<1> QED BY <1>9, <1>11 DEF Simulated

-----------------------------------------------------------------------------
(* Between nodes                                                           *)

\* The page is remapped.
LEMMA RemapStep ==
  ASSUME Inductive, Remap
  PROVE  Inductive' /\ Simulated
<1>1. TypeOK /\ work.direct
  BY DEF Inductive, Remap
<1>2. /\ UNCHANGED <<work, mem, lock, insn, node, pc, arg3, r11, rax, monitor, fault, void, out>>
      /\ direct' \in BOOLEAN
  BY <1>1 DEF Remap, regs, TypeOK
<1>3. TypeOK'
  BY <1>1, <1>2 DEF TypeOK
<1>4. ASSUME NEW t \in Thread PROVE ThreadInv(t)'
  <2>1. ThreadInv(t)
    BY DEF Inductive
  <2> QED BY <1>2, <2>1 DEF ThreadInv, OperandsInv, PathInv, LockInv, MonitorMatches, Datum
<1>5. Inductive'
  BY <1>1, <1>2, <1>3, <1>4 DEF Inductive
<1>6. calls' = calls /\ reservations' = reservations
  BY <1>2 DEF calls, reservations, CallOf, ReservationOf, Got, Obtained
<1>7. UNCHANGED Abstract!avars
  BY <1>2, <1>6 DEF Abstract!avars, calls, reservations
<1> QED BY <1>5, <1>7 DEF Simulated

\* The fault is reported and the next block entered.
LEMMA NextBlockStep ==
  ASSUME Inductive, NEW t \in Thread, NextBlock(t)
  PROVE  Inductive' /\ Simulated
<1>1. TypeOK /\ pc[t] = "idle" /\ ThreadInv(t)
  BY DEF Inductive, NextBlock, At
<1>2. /\ UNCHANGED <<work, mem, direct, lock, insn, node, pc, arg3, r11, rax, monitor, void, out>>
      /\ fault' = [fault EXCEPT ![t] = FALSE]
  BY DEF NextBlock, regs
<1>3. TypeOK'
  BY <1>1, <1>2 DEF TypeOK
<1>4. ASSUME NEW s \in Thread PROVE ThreadInv(s)'
  <2>1. ThreadInv(s) /\ (s # t => fault'[s] = fault[s])
    BY <1>1, <1>2 DEF Inductive, TypeOK
  <2> QED BY <1>1, <1>2, <2>1 DEF ThreadInv, OperandsInv, PathInv, LockInv, MonitorMatches, Datum
<1>5. Inductive'
  BY <1>1, <1>2, <1>3, <1>4 DEF Inductive
<1>6. calls' = calls /\ reservations' = reservations
  BY <1>2 DEF calls, reservations, CallOf, ReservationOf, Got, Obtained
<1>7. calls[t] = Abstract!None
  BY <1>1 DEF calls, CallOf, Abstract!None
<1>8. Abstract!Leave(t)
  BY <1>2, <1>6, <1>7 DEF Abstract!Leave, calls, reservations
<1> QED BY <1>5, <1>8, AbstractNext DEF Simulated

-----------------------------------------------------------------------------
(* The end of a node                                                       *)

\* The registers a node writes are those of the instruction.
LEMMA WrittenFacts ==
  ASSUME NEW i \in Instruction, NEW v \in Word(IF i.wide THEN 2 * Half ELSE Half)
  PROVE  /\ Written(i, v) \in Seq(Nat)
         /\ i.mn \notin {"STLR", "CLREX", "STXR", "STXP"} => Written(i, v) = Abstract!Unpair(i, v)
<1>1. PICK h \in Nat \ {0} : Half = 2 * h /\ Half \div 2 = h /\ Half \in Nat
  BY HalfFacts
<1>2. i.wide \in BOOLEAN /\ (i.wide => i.mn \in {"LDXP", "STXP", "CASP"})
  BY DEF Instruction
<1>3. v \in Nat
  <2>1. PICK w \in Nat : w = IF i.wide THEN 2 * Half ELSE Half
    BY <1>1
  <2> QED BY <2>1, WordFacts
<1>4. CASE i.mn \in {"STLR", "CLREX"}
  BY <1>4 DEF Written
<1>5. CASE i.mn \notin {"STLR", "CLREX", "LDXP", "CASP"}
  <2>1. Written(i, v) = <<v>>
    BY <1>5 DEF Written
  <2>2. i.mn # "STXP" => Abstract!Unpair(i, v) = <<v>>
    <3>1. i.mn # "STXP" => ~i.wide
      BY <1>2, <1>5
    <3> QED BY <1>5, <3>1 DEF Abstract!Unpair
  <2>3. <<v>> \in Seq(Nat)
    BY <1>3
  <2> QED BY <2>1, <2>2, <2>3
<1>6. CASE i.mn \in {"LDXP", "CASP"} /\ i.wide
  <2>1. Trunc(v, Half) \in Nat /\ v \div 2^Half \in Nat
    <3>1. v \in Word(2 * Half)
      BY <1>6
    <3> QED BY <1>1, <3>1, HalvesType, WordFacts
  <2>2. Written(i, v) = <<Trunc(v, Half), v \div 2^Half>>
    BY <1>6 DEF Written, Unpacked
  <2>3. Abstract!Unpair(i, v) = <<v % 2^Half, v \div 2^Half>>
    BY <1>6 DEF Abstract!Unpair
  <2> QED BY <2>1, <2>2, <2>3 DEF Trunc
<1>7. CASE i.mn \in {"LDXP", "CASP"} /\ ~i.wide
  <2>1. PICK P \in Nat \ {0} : P = 2^h /\ Word(h) = 0 .. (P - 1)
    BY WordFacts
  <2>2. v \in Word(2 * h)
    BY <1>1, <1>7
  <2>3. PICK x \in Word(h), u \in Word(h) : x = v % P /\ u = v \div P
    BY <2>1, <2>2, HalvesType DEF Trunc
  <2>4. u % P = u
    BY <2>1
  <2>5. Written(i, v) = <<x, u>>
    BY <1>1, <1>7, <2>1, <2>3, <2>4 DEF Written, Unpacked, Trunc
  <2>6. Abstract!Unpair(i, v) = <<x, u>>
    BY <1>1, <1>7, <2>1, <2>3 DEF Abstract!Unpair
  <2>7. x \in Nat /\ u \in Nat
    BY <2>1
  <2> QED BY <2>5, <2>6, <2>7
<1> QED BY <1>2, <1>4, <1>5, <1>6, <1>7

\* The end of a node with m in the monitor and o in the registers.
Ended(t, m, o) ==
  /\ End(t)
  /\ monitor' = [monitor EXCEPT ![t] = m] /\ out' = [out EXCEPT ![t] = o]
  /\ UNCHANGED <<work, mem, direct, lock, fault>>

\* It keeps the invariant, ends the call and leaves the reservation that m stands for.
LEMMA EndFacts ==
  ASSUME Inductive, NEW t \in Thread, pc[t] \in {"mismatch", "finish"},
         NEW m \in [size : {0, Half, 2 * Half}, addr : {0, 1}, value : Nat], NEW o \in Seq(Nat), Ended(t, m, o)
  PROVE  /\ Inductive'
         /\ calls' = [calls EXCEPT ![t] = Abstract!None] /\ calls[t] # Abstract!None
         /\ calls[t].insn = insn[t] /\ calls[t].got = Got(t) /\ calls[t].void = void[t]
         /\ reservations' = [reservations EXCEPT ![t] =
              IF m.size = 0 THEN Abstract!Free ELSE [size |-> m.size, at |-> m.addr, value |-> m.value]]
<1>1. TypeOK /\ ThreadInv(t) /\ pc[t] # "idle"
  BY DEF Inductive
<1>2. /\ pc' = [pc EXCEPT ![t] = "idle"] /\ arg3' = [arg3 EXCEPT ![t] = 0]
      /\ r11' = [r11 EXCEPT ![t] = 0] /\ rax' = [rax EXCEPT ![t] = 0]
      /\ insn' = [insn EXCEPT ![t] = [mn |-> "none"]] /\ node' = [node EXCEPT ![t] = [op |-> "none"]]
      /\ void' = [void EXCEPT ![t] = FALSE]
      /\ monitor' = [monitor EXCEPT ![t] = m] /\ out' = [out EXCEPT ![t] = o]
      /\ UNCHANGED <<work, mem, direct, lock, fault>>
  BY DEF Ended, End, Goto
<1>3. Others(t) /\ pc'[t] = "idle" /\ rax'[t] = 0 /\ ~void'[t] /\ monitor'[t] = m
  BY <1>1, <1>2 DEF TypeOK, Others
<1>4. TypeOK'
  <2>1. /\ insn' \in [Thread -> Instruction \cup {[mn |-> "none"]}]
        /\ node' \in [Thread -> Node \cup {[op |-> "none"]}]
    BY <1>1, <1>2 DEF TypeOK
  <2>2. /\ pc' \in [Thread -> Pc] /\ arg3' \in [Thread -> Nat] /\ r11' \in [Thread -> Nat] /\ rax' \in [Thread -> Nat]
        /\ void' \in [Thread -> BOOLEAN]
    BY <1>1, <1>2 DEF TypeOK, Pc
  <2>3. /\ monitor' \in [Thread -> [size : {0, Half, 2 * Half}, addr : {0, 1}, value : Nat]]
        /\ out' \in [Thread -> Seq(Nat)]
    BY <1>1, <1>2 DEF TypeOK
  <2> QED BY <1>1, <1>2, <2>1, <2>2, <2>3 DEF TypeOK
<1>5. ThreadInv(t)'
  <2>1. lock # t
    BY <1>1 DEF ThreadInv, LockInv
  <2> QED BY <1>2, <1>3, <2>1 DEF ThreadInv, LockInv
<1>6. \A s \in Thread \ {t} : ThreadInv(s)'
  BY <1>2, <1>3, OthersKept DEF LockStep, MemStep
<1>7. Inductive'
  BY <1>2, <1>4, <1>5, <1>6 DEF Inductive
<1>8. CallOf(t)' = Abstract!None
  BY <1>3 DEF CallOf, Abstract!None
<1>9. ReservationOf(t)' = IF m.size = 0 THEN Abstract!Free ELSE [size |-> m.size, at |-> m.addr, value |-> m.value]
  BY <1>3 DEF ReservationOf, Abstract!Free
<1>10. calls[t] = [insn |-> insn[t], got |-> Got(t), void |-> void[t]]
  BY <1>1 DEF calls, CallOf
<1>11. calls[t] # Abstract!None
  <2>1. DOMAIN calls[t] = {"insn", "got", "void"}
    BY <1>10
  <2>2. DOMAIN Abstract!None = {"insn"}
    BY DEF Abstract!None
  <2>3. "got" \in {"insn", "got", "void"} /\ "got" \notin {"insn"}
    OBVIOUS
  <2> QED BY <2>1, <2>2, <2>3
<1>12. calls[t].insn = insn[t] /\ calls[t].got = Got(t) /\ calls[t].void = void[t]
  <2>1. PICK i, g, w : i = insn[t] /\ g = Got(t) /\ w = void[t]
    OBVIOUS
  <2>2. calls[t] = [insn |-> i, got |-> g, void |-> w]
    BY <1>10, <2>1
  <2> QED BY <2>1, <2>2
<1> QED BY <1>3, <1>7, <1>8, <1>9, <1>11, <1>12, CallsFacts

\* The end of an instruction i that has obtained g: with the datum w, it writes the
\* registers o and leaves the reservation r.
Completion(t, i, g, w, o, r) ==
  /\ calls[t] # Abstract!None /\ calls[t].insn = i /\ calls[t].got = g /\ ~calls[t].void
  /\ calls' = [calls EXCEPT ![t] = Abstract!None] /\ out' = [out EXCEPT ![t] = o]
  /\ reservations' = [reservations EXCEPT ![t] = r] /\ mem' = mem /\ fault' = fault
  /\ i.mn = "CLREX" \/ Len(g) = (IF i.mn = "LDXP" /\ i.wide THEN 2 ELSE 1)
  /\ w = IF Len(g) = 2 THEN g[1] + 2^Half * g[2] ELSE g[1]
  /\ i.mn \in {"CLREX", "STLR"} => o = <<>>
  /\ i.mn \in {"STXR", "STXP"} => o = <<w>>
  /\ i.mn \notin {"CLREX", "STLR", "STXR", "STXP"} => o = Abstract!Unpair(i, w)
  /\ i.mn \in {"STXR", "STXP", "CLREX"} => r = Abstract!Free
  /\ i.mn \in {"LDXR", "LDXP"} =>
       r = IF fault[t] THEN Abstract!Free ELSE [size |-> Abstract!Bits(i), at |-> i.at, value |-> w]
  /\ i.mn \notin {"STXR", "STXP", "CLREX", "LDXR", "LDXP"} => r = reservations[t]

\* It is AtomicMemory's Complete.
LEMMA Completes ==
  ASSUME NEW t \in Thread, NEW i, NEW g, NEW w, NEW o, NEW r, Completion(t, i, g, w, o, r)
  PROVE  Abstract!Next
<1>1. Abstract!Return(t, o)
  BY DEF Abstract!Return, Completion, calls
<1>2. Abstract!Complete(t)
  BY <1>1 DEF Abstract!Complete, Completion, calls, reservations
<1> QED BY <1>2, AbstractNext

\* The end of an instruction whose access has faulted or was skipped.
VoidCompletion(t, i, o, r) ==
  /\ calls[t] # Abstract!None /\ calls[t].insn = i /\ calls[t].void /\ fault[t]
  /\ out \in [Thread -> Seq(Nat)] /\ o \in Seq(Nat)
  /\ calls' = [calls EXCEPT ![t] = Abstract!None] /\ out' = [out EXCEPT ![t] = o]
  /\ reservations' = [reservations EXCEPT ![t] = r] /\ mem' = mem /\ fault' = fault
  /\ r = IF i.mn \in {"STXR", "STXP", "CLREX", "LDXR", "LDXP"} THEN Abstract!Free ELSE reservations[t]

\* It is AtomicMemory's Complete as well.
LEMMA CompletesVoid ==
  ASSUME NEW t \in Thread, NEW i, NEW o, NEW r, VoidCompletion(t, i, o, r)
  PROVE  Abstract!Next
<1>1. out'[t] = o /\ Abstract!Return(t, out'[t])
  BY DEF Abstract!Return, VoidCompletion, calls
<1>2. Abstract!Complete(t)
  BY <1>1 DEF Abstract!Complete, VoidCompletion, calls, reservations
<1> QED BY <1>2, AbstractNext

\* The monitor does not match.
LEMMA MismatchStep ==
  ASSUME Inductive, NEW t \in Thread, Mismatch(t)
  PROVE  Inductive' /\ Simulated
<1>1. TypeOK /\ pc[t] = "mismatch" /\ pc[t] # "idle"
  BY DEF Inductive, Mismatch, At
<1>2. /\ PathInv(t) /\ ThreadInv(t) /\ insn[t] \in Instruction /\ node[t] = Translate(insn[t])
      /\ node[t].op = "StoreEx" /\ ~void[t]
  BY <1>1, RunningFacts DEF PathInv, ThreadInv
<1>3. PICK m : m = [monitor[t] EXCEPT !.size = 0]
  OBVIOUS
<1>4. m \in [size : {0, Half, 2 * Half}, addr : {0, 1}, value : Nat] /\ m.size = 0
  BY <1>1, <1>3 DEF TypeOK
<1>5. <<1>> \in Seq(Nat) /\ Len(<<1>>) = 1 /\ <<1>>[1] = 1
  OBVIOUS
<1>6. Ended(t, m, <<1>>)
  BY <1>3 DEF Ended, Mismatch
<1>7. Got(t) = <<1>>
  BY <1>1 DEF Got
<1>8. /\ Inductive'
      /\ calls' = [calls EXCEPT ![t] = Abstract!None] /\ calls[t] # Abstract!None
      /\ calls[t].insn = insn[t] /\ calls[t].got = <<1>> /\ ~calls[t].void
      /\ reservations' = [reservations EXCEPT ![t] = Abstract!Free]
  BY <1>1, <1>2, <1>4, <1>5, <1>6, <1>7, EndFacts
<1>9. insn[t].mn \in {"STXR", "STXP"}
  BY <1>2, TranslateFacts
<1>10. out' = [out EXCEPT ![t] = <<1>>] /\ mem' = mem /\ fault' = fault
  BY <1>6 DEF Ended
<1>11. Abstract!Next
  <2>1. PICK i, o, r, w : i = insn[t] /\ o = <<1>> /\ r = Abstract!Free /\ w = 1
    OBVIOUS
  <2>2. o \in Seq(Nat) /\ Len(o) = 1 /\ o[1] = w /\ o = <<w>>
    BY <1>5, <2>1
  <2>3. w = IF Len(o) = 2 THEN o[1] + 2^Half * o[2] ELSE o[1]
    BY <2>2
  <2>4. i \in Instruction /\ i.mn \in {"STXR", "STXP"}
    BY <1>2, <1>9, <2>1
  <2>5. /\ calls' = [calls EXCEPT ![t] = Abstract!None] /\ calls[t] # Abstract!None
        /\ calls[t].insn = i /\ calls[t].got = o /\ ~calls[t].void
        /\ reservations' = [reservations EXCEPT ![t] = r] /\ out' = [out EXCEPT ![t] = o]
    BY <1>8, <1>10, <2>1
  <2>6. Completion(t, i, o, w, o, r)
    BY <1>10, <2>1, <2>2, <2>3, <2>4, <2>5 DEF Completion
  <2> QED BY <2>6, Completes
<1> QED BY <1>8, <1>11 DEF Simulated

\* What a node that has obtained g leaves in the registers, and its datum w.
Finished(i, g, w, o) ==
  /\ i.mn = "CLREX" \/ Len(g) = (IF i.mn = "LDXP" /\ i.wide THEN 2 ELSE 1)
  /\ w = IF Len(g) = 2 THEN g[1] + 2^Half * g[2] ELSE g[1]
  /\ i.mn \in {"CLREX", "STLR"} => o = <<>>
  /\ i.mn \in {"STXR", "STXP"} => o = <<w>>
  /\ i.mn \notin {"CLREX", "STLR", "STXR", "STXP"} => o = Abstract!Unpair(i, w)

\* The node of t ends: the monitor is m, the registers are o, the reservation is r.
Ending(t, i, m, o, r, g, w) ==
  /\ pc[t] = "finish" /\ i = insn[t] /\ i \in Instruction
  /\ m \in [size : {0, Half, 2 * Half}, addr : {0, 1}, value : Nat] /\ o \in Seq(Nat) /\ Ended(t, m, o)
  /\ r = IF m.size = 0 THEN Abstract!Free ELSE [size |-> m.size, at |-> m.addr, value |-> m.value]
  /\ i.mn \in {"STXR", "STXP", "CLREX"} => r = Abstract!Free
  /\ i.mn \in {"LDXR", "LDXP"} =>
       r = IF fault[t] THEN Abstract!Free ELSE [size |-> Abstract!Bits(i), at |-> i.at, value |-> rax[t]]
  /\ i.mn \notin {"STXR", "STXP", "CLREX", "LDXR", "LDXP"} => r = reservations[t]
  /\ ~void[t] => Got(t) = g /\ Finished(i, g, w, o) /\ (i.mn \in {"LDXR", "LDXP"} => w = rax[t])

\* A node ends, in the concrete and in the abstract system.
LEMMA EndStep ==
  ASSUME Inductive, NEW t \in Thread, NEW i, NEW m, NEW o, NEW r, NEW g, NEW w, Ending(t, i, m, o, r, g, w)
  PROVE  Inductive' /\ Simulated
<1> USE DEF Ending
<1>1. /\ Inductive'
      /\ calls' = [calls EXCEPT ![t] = Abstract!None] /\ calls[t] # Abstract!None
      /\ calls[t].insn = insn[t] /\ calls[t].got = Got(t) /\ calls[t].void = void[t]
      /\ reservations' = [reservations EXCEPT ![t] =
           IF m.size = 0 THEN Abstract!Free ELSE [size |-> m.size, at |-> m.addr, value |-> m.value]]
  BY EndFacts
<1>2. /\ reservations' = [reservations EXCEPT ![t] = r] /\ out' = [out EXCEPT ![t] = o]
      /\ mem' = mem /\ fault' = fault /\ calls[t].insn = i
  BY <1>1 DEF Ended
<1>3. CASE void[t]
  <2>1. fault[t] /\ out \in [Thread -> Seq(Nat)]
    BY <1>3 DEF Inductive, ThreadInv, TypeOK
  <2>2. r = IF i.mn \in {"STXR", "STXP", "CLREX", "LDXR", "LDXP"} THEN Abstract!Free ELSE reservations[t]
    BY <2>1
  <2>3. calls[t].void
    BY <1>1, <1>3
  <2>4. Abstract!Next
    <3>1. VoidCompletion(t, i, o, r)
      BY <1>1, <1>2, <2>1, <2>2, <2>3 DEF VoidCompletion
    <3> QED BY <3>1, CompletesVoid
  <2> QED BY <1>1, <2>4 DEF Simulated
<1>4. CASE ~void[t]
  <2>1. Completion(t, i, g, w, o, r)
    <3>1. ~calls[t].void /\ calls[t].got = g
      BY <1>1, <1>4
    <3> QED BY <1>1, <1>2, <1>4, <3>1 DEF Completion, Finished
  <2>2. Abstract!Next
    BY <2>1, Completes
  <2> QED BY <1>1, <2>2 DEF Simulated
<1> QED BY <1>3, <1>4

\* The end of a node.
LEMMA FinishStep ==
  ASSUME Inductive, NEW t \in Thread, Finish(t)
  PROVE  Inductive' /\ Simulated
<1>1. TypeOK /\ pc[t] = "finish" /\ pc[t] # "idle"
  BY DEF Inductive, Finish, At
<1>2. PICK i, n, v, c : i = insn[t] /\ n = node[t] /\ v = rax[t] /\ c = monitor[t]
  OBVIOUS
<1>3. /\ i \in Instruction /\ n = Translate(i) /\ n \in Node /\ v \in Word(n.bits)
      /\ n.bits = (IF i.wide THEN 2 * Half ELSE Half)
      /\ c \in [size : {0, Half, 2 * Half}, addr : {0, 1}, value : Nat]
  <2>1. i \in Instruction /\ n = Translate(i) /\ OperandsInv(t)
    BY <1>1, <1>2, RunningFacts
  <2>2. v \in Word(n.bits)
    BY <1>1, <1>2, <2>1 DEF OperandsInv
  <2> QED BY <1>1, <1>2, <2>1, <2>2, TranslateFacts DEF TypeOK
<1>4. v \in Nat
  <2>1. n.bits \in Nat
    BY <1>3, HalfFacts DEF Node
  <2> QED BY <1>3, <2>1, WordFacts
<1>5. Written(i, v) \in Seq(Nat) /\ (i.mn \notin {"STLR", "CLREX", "STXR", "STXP"} => Written(i, v) = Abstract!Unpair(i, v))
  BY <1>3, WrittenFacts
<1>6. ~void[t] => Got(t) = Obtained(t)
  BY <1>1 DEF Got
<1>7. End(t) /\ UNCHANGED <<work, mem, direct, lock, fault>>
  BY DEF Finish
<1>8. PICK m : m = [c EXCEPT !.size = 0]
  OBVIOUS
<1>9. m \in [size : {0, Half, 2 * Half}, addr : {0, 1}, value : Nat] /\ m.size = 0
  BY <1>3, <1>8
<1>10. CASE n.op = "StoreEx"
  <2>1. i.mn \in {"STXR", "STXP"}
    BY <1>3, <1>10, TranslateFacts
  <2>2. PICK s \in {0, 1} : s = IF v = c.value THEN 0 ELSE 1
    OBVIOUS
  <2>3. PICK o : o = <<s>>
    OBVIOUS
  <2>4. o \in Seq(Nat) /\ Len(o) = 1 /\ o[1] = s
    BY <2>3
  <2>5. monitor' = [monitor EXCEPT ![t] = m] /\ out' = [out EXCEPT ![t] = o]
    BY <1>2, <1>8, <1>10, <2>2, <2>3 DEF Finish, StoreExEnd
  <2>6. Ended(t, m, o)
    BY <1>7, <2>5 DEF Ended
  <2>7. Obtained(t) = o
    BY <1>2, <1>10, <2>2, <2>3 DEF Obtained
  <2>8. Finished(i, o, s, o)
    BY <2>1, <2>3, <2>4 DEF Finished
  <2>9. PICK r : r = Abstract!Free
    OBVIOUS
  <2>20. Ending(t, i, m, o, r, o, s)
    BY <1>1, <1>2, <1>3, <1>6, <1>9, <2>1, <2>4, <2>6, <2>7, <2>8, <2>9 DEF Ending
  <2> QED BY <2>20, EndStep
<1>11. CASE n.op = "Clrex"
  <2>1. i.mn = "CLREX"
    BY <1>3, <1>11, TranslateFacts
  <2>2. PICK o : o = <<>>
    OBVIOUS
  <2>3. o \in Seq(Nat)
    BY <2>2
  <2>4. monitor' = [monitor EXCEPT ![t] = m] /\ out' = [out EXCEPT ![t] = o]
    BY <1>2, <1>8, <1>11, <2>2 DEF Finish
  <2>5. Ended(t, m, o)
    BY <1>7, <2>4 DEF Ended
  <2>6. Obtained(t) = o
    BY <1>2, <1>11, <2>2 DEF Obtained
  <2>7. PICK w : w = IF Len(o) = 2 THEN o[1] + 2^Half * o[2] ELSE o[1]
    OBVIOUS
  <2>8. Finished(i, o, w, o)
    BY <2>1, <2>2, <2>7 DEF Finished
  <2>9. PICK r : r = Abstract!Free
    OBVIOUS
  <2>20. Ending(t, i, m, o, r, o, w)
    BY <1>1, <1>2, <1>3, <1>6, <1>9, <2>1, <2>3, <2>5, <2>6, <2>8, <2>9 DEF Ending
  <2> QED BY <2>20, EndStep
<1>12. CASE n.op = "LoadEx"
  <2>1. i.mn \in {"LDXR", "LDXP"} /\ (i.wide <=> n.bits # Half) /\ Abstract!Bits(i) = n.bits /\ n.at = i.at
    <3>1. i.mn \in {"LDXR", "LDXP"}
      BY <1>3, <1>12, TranslateFacts
    <3> QED BY <1>3, <3>1, ValueFacts
  <2>2. PICK z : z = IF fault[t] THEN 0 ELSE n.bits
    OBVIOUS
  <2>3. PICK k : k = [size |-> z, addr |-> n.at, value |-> v]
    OBVIOUS
  <2>4. /\ k \in [size : {0, Half, 2 * Half}, addr : {0, 1}, value : Nat]
        /\ k.size = z /\ k.addr = i.at /\ k.value = v
    BY <1>3, <1>4, <2>1, <2>2, <2>3 DEF Node
  <2>5. PICK o : o = Written(i, v)
    OBVIOUS
  <2>6. monitor' = [monitor EXCEPT ![t] = k] /\ out' = [out EXCEPT ![t] = o]
    BY <1>2, <1>12, <2>2, <2>3, <2>5 DEF Finish, LoadExEnd
  <2>7. Ended(t, k, o)
    BY <1>7, <2>6 DEF Ended
  <2>8. PICK r : r = IF fault[t] THEN Abstract!Free ELSE [size |-> Abstract!Bits(i), at |-> i.at, value |-> v]
    OBVIOUS
  <2>9. r = IF k.size = 0 THEN Abstract!Free ELSE [size |-> k.size, at |-> k.addr, value |-> k.value]
    <3>1. n.bits # 0
      BY <1>3, HalfFacts DEF Node
    <3>2. CASE fault[t]
      BY <2>2, <2>4, <2>8, <3>2
    <3>3. CASE ~fault[t]
      BY <2>1, <2>2, <2>4, <2>8, <3>1, <3>3
    <3> QED BY <3>2, <3>3
  <2>10. PICK g : g = Obtained(t)
    OBVIOUS
  <2>11. Finished(i, g, v, o)
    <3>1. CASE n.bits = Half
      <4>1. g = <<v>>
        BY <1>2, <1>12, <2>10, <3>1 DEF Obtained
      <4>2. Len(g) = 1 /\ g[1] = v
        BY <1>4, <4>1
      <4> QED BY <1>5, <2>1, <2>5, <3>1, <4>2 DEF Finished
    <3>2. CASE n.bits # Half
      <4>1. PICK h \in Nat : h = Half
        BY HalfFacts
      <4>2. v \in Word(2 * h)
        BY <1>3, <2>1, <3>2, <4>1
      <4>3. PICK x \in Word(h), u \in Word(h) : x = Trunc(v, h) /\ u = v \div 2^h /\ v = x + 2^h * u
        BY <4>2, HalvesType
      <4>4. g = <<x, u>>
        BY <1>2, <1>12, <2>10, <3>2, <4>1, <4>3 DEF Obtained
      <4>5. Len(g) = 2 /\ g[1] = x /\ g[2] = u
        BY <4>4
      <4>6. i.mn = "LDXP" /\ i.wide
        BY <1>3, <2>1, <3>2 DEF Instruction
      <4> QED BY <1>5, <2>5, <4>1, <4>3, <4>5, <4>6 DEF Finished
    <3> QED BY <3>1, <3>2
  <2>20. Ending(t, i, k, o, r, g, v)
    BY <1>1, <1>2, <1>3, <1>5, <1>6, <2>1, <2>4, <2>5, <2>7, <2>8, <2>9, <2>10, <2>11 DEF Ending
  <2> QED BY <2>20, EndStep
<1>13. CASE n.op \notin {"StoreEx", "LoadEx", "Clrex"}
  <2>1. i.mn \in {"LDAR", "STLR", "LSE", "CAS", "CASP"} /\ (n.op = "Store" <=> i.mn = "STLR")
    BY <1>3, <1>13, TranslateFacts DEF Node
  <2>2. PICK o : o = Written(i, v)
    OBVIOUS
  <2>3. monitor' = [monitor EXCEPT ![t] = c] /\ out' = [out EXCEPT ![t] = o]
    <3>1. monitor' = monitor /\ out' = [out EXCEPT ![t] = o]
      BY <1>2, <1>13, <2>2 DEF Finish
    <3> QED BY <1>1, <1>2, <3>1 DEF TypeOK
  <2>4. Ended(t, c, o)
    BY <1>7, <2>3 DEF Ended
  <2>5. PICK r : r = reservations[t]
    OBVIOUS
  <2>6. r = IF c.size = 0 THEN Abstract!Free ELSE [size |-> c.size, at |-> c.addr, value |-> c.value]
    BY <1>2, <2>5 DEF reservations, ReservationOf, Abstract!Free
  <2>7. PICK g : g = Obtained(t)
    OBVIOUS
  <2>8. PICK w : w = IF n.op = "Store" THEN 0 ELSE v
    OBVIOUS
  <2>9. g = <<w>>
    BY <1>2, <1>13, <2>7, <2>8 DEF Obtained
  <2>10. Len(g) = 1 /\ g[1] = w
    BY <1>4, <2>8, <2>9
  <2>11. Finished(i, g, w, o)
    <3>1. i.mn = "STLR" => o = <<>>
      BY <2>2 DEF Written
    <3>2. i.mn # "STLR" => o = Abstract!Unpair(i, w)
      BY <1>5, <2>1, <2>2, <2>8
    <3> QED BY <2>1, <2>10, <3>1, <3>2 DEF Finished
  <2>20. Ending(t, i, c, o, r, g, w)
    BY <1>1, <1>2, <1>3, <1>5, <1>6, <2>1, <2>2, <2>4, <2>5, <2>6, <2>7, <2>11 DEF Ending
  <2> QED BY <2>20, EndStep
<1> QED BY <1>10, <1>11, <1>12, <1>13

-----------------------------------------------------------------------------
(* The specification                                                       *)

\* The start of a node.
LEMMA IssueStep ==
  ASSUME Inductive, NEW t \in Thread, Issue(t)
  PROVE  Inductive' /\ Simulated
<1>1. TypeOK /\ pc[t] = "idle" /\ ThreadInv(t)
  BY DEF Inductive, Issue, At
<1>2. PICK i \in work.insns[t] :
        /\ insn' = [insn EXCEPT ![t] = i] /\ node' = [node EXCEPT ![t] = Translate(i)]
        /\ pc' = [pc EXCEPT ![t] = Entry(Translate(i))] /\ arg3' = [arg3 EXCEPT ![t] = Translate(i).val]
        /\ r11' = [r11 EXCEPT ![t] = IF Translate(i).op = "StoreEx" THEN monitor[t].value ELSE Translate(i).exp]
  BY DEF Issue, Goto
<1>3. PICK n, e, y : /\ n = Translate(i) /\ e = Entry(n)
                     /\ y = IF n.op = "StoreEx" THEN monitor[t].value ELSE n.exp
  OBVIOUS
<1>4. /\ UNCHANGED <<work, mem, direct, lock, rax, monitor, fault, void>>
      /\ out' = [out EXCEPT ![t] = <<>>]
  BY DEF Issue
<1>5. i \in Instruction /\ work \in Workload /\ i \in Insns
  <2>1. work \in Workload /\ work.insns \in [Thread -> SUBSET Instruction]
    BY <1>1, WorkloadAssumption DEF TypeOK
  <2> QED BY <2>1 DEF Insns
<1>6. /\ n \in Node /\ n.val \in Word(n.bits) /\ n.exp \in Word(n.bits) /\ n.bits \in {Half, 2 * Half} /\ n.bits \in Nat
      /\ n.op = "AtomicCas" => n.op # "StoreEx"
  BY <1>3, <1>5, TranslateFacts, HalfFacts DEF Node
<1>7. /\ insn' = [insn EXCEPT ![t] = i] /\ node' = [node EXCEPT ![t] = n] /\ pc' = [pc EXCEPT ![t] = e]
      /\ arg3' = [arg3 EXCEPT ![t] = n.val] /\ r11' = [r11 EXCEPT ![t] = y]
  BY <1>2, <1>3
<1>8. y \in Nat /\ n.val \in Nat
  BY <1>1, <1>3, <1>6 DEF TypeOK, Node
<1>9. /\ e \in {"finish", "load", "store", "monitor", "guard", "call"}
      /\ e = "finish" => n.op = "Clrex"
      /\ e = "load" => n.op \in {"Load", "LoadEx"}
      /\ e = "store" => n.op = "Store"
      /\ e = "monitor" <=> n.op = "StoreEx"
      /\ e = "guard" => n.op \in {"AtomicRmw", "AtomicCas"} /\ n.bits = Half
      /\ e = "call" => n.op \in {"AtomicRmw", "AtomicCas"}
  BY <1>3, <1>6 DEF Entry, Node
<1>10. /\ pc'[t] = e /\ insn'[t] = i /\ node'[t] = n /\ arg3'[t] = n.val /\ r11'[t] = y
       /\ Others(t) /\ e \in Pc \ {"idle"}
  <2>1. /\ pc'[t] = e /\ insn'[t] = i /\ node'[t] = n /\ arg3'[t] = n.val /\ r11'[t] = y
    BY <1>1, <1>7 DEF TypeOK
  <2>2. Others(t)
    BY <1>1, <1>4, <1>7 DEF TypeOK, Others
  <2> QED BY <1>9, <2>1, <2>2 DEF Pc
<1>11. TypeOK'
  <2>1. insn' \in [Thread -> Instruction \cup {[mn |-> "none"]}] /\ node' \in [Thread -> Node \cup {[op |-> "none"]}]
    BY <1>1, <1>5, <1>6, <1>7 DEF TypeOK
  <2>2. pc' \in [Thread -> Pc] /\ arg3' \in [Thread -> Nat] /\ r11' \in [Thread -> Nat]
    BY <1>1, <1>7, <1>8, <1>10 DEF TypeOK
  <2>3. out' \in [Thread -> Seq(Nat)]
    BY <1>1, <1>4 DEF TypeOK
  <2> QED BY <1>1, <1>4, <2>1, <2>2, <2>3 DEF TypeOK
<1>12. ThreadInv(t)'
  <2>1. OperandsInv(t)'
    <3>1. 0 \in Word(n.bits)
      BY <1>6, WordFacts
    <3>2. rax'[t] = 0 /\ monitor' = monitor
      BY <1>1, <1>4 DEF ThreadInv
    <3> QED BY <1>3, <1>6, <1>9, <1>10, <3>1, <3>2 DEF OperandsInv
  <2>2. PathInv(t)'
    BY <1>9, <1>10 DEF PathInv, Atomics
  <2>3. LockInv(t)'
    BY <1>1, <1>4, <1>9, <1>10 DEF ThreadInv, LockInv
  <2>4. ~void[t]
    BY <1>1 DEF ThreadInv
  <2> QED BY <1>4, <1>10, <2>1, <2>2, <2>3, <2>4 DEF ThreadInv
<1>13. \A s \in Thread \ {t} : ThreadInv(s)'
  BY <1>4, <1>10, OthersKept DEF LockStep, MemStep
<1>14. Inductive'
  BY <1>4, <1>11, <1>12, <1>13 DEF Inductive
<1>15. Got(t)' = <<>>
  <2>1. CASE e = "finish"
    <3>1. Obtained(t)' = <<>>
      BY <1>9, <1>10, <2>1 DEF Obtained
    <3> QED BY <1>10, <2>1, <3>1 DEF Got
  <2>2. CASE e # "finish"
    BY <1>9, <1>10, <2>2 DEF Got
  <2> QED BY <2>1, <2>2
<1>16. PICK b \in BOOLEAN : b = FALSE /\ void'[t] = b
  BY <1>1, <1>4 DEF ThreadInv, TypeOK
<1>17. PICK g : g = <<>>
  OBVIOUS
<1>18. CallOf(t)' = [insn |-> i, got |-> g, void |-> b] /\ ReservationOf(t)' = ReservationOf(t)
  BY <1>4, <1>10, <1>15, <1>16, <1>17 DEF CallOf, ReservationOf
<1>19. calls' = [calls EXCEPT ![t] = [insn |-> i, got |-> g, void |-> b]]
  BY <1>10, <1>18, CallsFacts
<1>20. reservations' = reservations /\ calls[t] = Abstract!None
  BY <1>1, <1>4 DEF reservations, ReservationOf, calls, CallOf, Abstract!None
<1>21. Abstract!Invoke(t)
  <2>1. calls' = [calls EXCEPT ![t] = [insn |-> i, got |-> <<>>, void |-> FALSE]]
    BY <1>16, <1>17, <1>19
  <2>2. \E k \in Insns : calls' = [calls EXCEPT ![t] = [insn |-> k, got |-> <<>>, void |-> FALSE]]
    BY <1>5, <2>1
  <2> QED BY <1>4, <1>20, <2>2 DEF Abstract!Invoke, calls, reservations
<1> QED BY <1>14, <1>21, AbstractNext DEF Simulated

\* The initial states.
LEMMA InitFacts ==
  ASSUME Init
  PROVE  Inductive /\ Abstract!Init
<1> USE DEF Init
<1>1. 0 \in Word(Half)
  <2>1. PICK w \in Nat : w = Half
    BY HalfFacts
  <2> QED BY <2>1, WordFacts
<1>2. work.direct \in BOOLEAN
  BY WorkloadAssumption
<1>3. TypeOK
  <2>1. monitor \in [Thread -> [size : {0, Half, 2 * Half}, addr : {0, 1}, value : Nat]]
    OBVIOUS
  <2>2. /\ arg3 \in [Thread -> Nat] /\ r11 \in [Thread -> Nat] /\ rax \in [Thread -> Nat]
        /\ fault \in [Thread -> BOOLEAN] /\ void \in [Thread -> BOOLEAN]
        /\ out \in [Thread -> Seq(Nat)] /\ pc \in [Thread -> Pc]
    BY DEF Pc
  <2>3. mem \in [{0, 1} -> Word(Half)]
    BY <1>1
  <2> QED BY <1>2, <2>1, <2>2, <2>3 DEF TypeOK
<1>4. ASSUME NEW t \in Thread PROVE ThreadInv(t)
  <2>1. pc[t] = "idle" /\ rax[t] = 0 /\ ~void[t] /\ lock # t
    BY ThreadAssumption
  <2> QED BY <2>1 DEF ThreadInv, LockInv
<1>5. Inductive
  BY <1>3, <1>4 DEF Inductive
<1>6. ASSUME NEW t \in Thread PROVE CallOf(t) = Abstract!None /\ ReservationOf(t) = Abstract!Free
  BY DEF CallOf, ReservationOf, Abstract!None, Abstract!Free
<1>7. Abstract!Init
  BY <1>6 DEF Abstract!Init
<1> QED BY <1>5, <1>7

\* Every step keeps the invariant and is a step of AtomicMemory or none.
LEMMA NextFacts ==
  ASSUME Inductive, [Next]_vars
  PROVE  Inductive' /\ Simulated
<1>1. CASE Remap
  BY <1>1, RemapStep
<1>2. ASSUME NEW t \in Thread, Issue(t) \/ NextBlock(t) PROVE Inductive' /\ Simulated
  BY <1>2, IssueStep, NextBlockStep
<1>3. ASSUME NEW t \in Thread, Step(t) PROVE Inductive' /\ Simulated
  <2>1. CASE CheckMonitor(t) \/ Guard(t) \/ Divert(t) \/ LockedInsn(t) \/ Seed(t) \/ Retry(t)
    BY <2>1, CheckMonitorStep, GuardStep, DivertStep, LockedInsnStep, SeedStep, RetryStep
  <2>2. CASE Load(t) \/ LoadHigh(t) \/ Store(t) \/ SkipOrFault(t)
    BY <2>2, LoadStep, LoadHighStep, StoreStep, SkipOrFaultStep
  <2>3. CASE HostAtomic(t) \/ HostFault(t) \/ Rmw128Seed(t) \/ Rmw128SeedHigh(t) \/ Rmw128(t)
    BY <2>3, HostAtomicStep, HostFaultStep, Rmw128SeedStep, Rmw128SeedHighStep, Rmw128Step
  <2>4. CASE Acquire(t) \/ FallbackRead(t) \/ FallbackFault(t) \/ FallbackWrite(t) \/ Unlock(t)
    BY <2>4, AcquireStep, FallbackReadStep, FallbackFaultStep, FallbackWriteStep, UnlockStep
  <2>5. CASE Mismatch(t) \/ Finish(t)
    BY <2>5, MismatchStep, FinishStep
  <2> QED BY <1>3, <2>1, <2>2, <2>3, <2>4, <2>5 DEF Step
<1>4. CASE UNCHANGED vars
  <2>1. Inductive'
    BY <1>4 DEF vars, Inductive, TypeOK, ThreadInv, OperandsInv, PathInv, LockInv, MonitorMatches, Datum
  <2>2. UNCHANGED Abstract!avars
    BY <1>4 DEF vars, Abstract!avars, CallOf, ReservationOf, Got, Obtained
  <2> QED BY <2>1, <2>2 DEF Simulated
<1> QED BY <1>1, <1>2, <1>3, <1>4 DEF Next

\* The invariant of the exclusives' code is inductive: what a thread has tested on its
\* way (monitor, guard, lock) still holds where the code relies on it.
THEOREM ExclusivesInductive == Spec => []Inductive
<1>1. Init => Inductive
  BY InitFacts
<1>2. Inductive /\ [Next]_vars => Inductive'
  BY NextFacts
<1> QED BY <1>1, <1>2, PTL DEF Spec

\* The generated code, mem_atomic and the fallback lock implement AtomicMemory: each
\* atomic, exclusive and pair access takes effect in one step on its whole datum.
THEOREM AtomicMemoryImplemented == Spec => ImplementsAtomicMemory
<1>1. Init => Abstract!Init
  BY InitFacts
<1>2. Inductive /\ [Next]_vars => [Abstract!Next]_(Abstract!avars)
  BY NextFacts DEF Simulated
<1> QED BY <1>1, <1>2, ExclusivesInductive, PTL DEF Spec, ImplementsAtomicMemory, Abstract!Spec
=============================================================================

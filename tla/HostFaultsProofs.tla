-------------------------- MODULE HostFaultsProofs --------------------------
(***************************************************************************)
(* Proofs about HostFaults, for every number of threads, Jits and slots,   *)
(* every set of blocks and every size of page and table: a table in use is *)
(* committed or described by exactly one slot, every fault of an access of *)
(* generated code is resolved, and every access keeps its own slow path.   *)
(* They rest on the registry of direct accesses (SiteRegistry): what       *)
(* `register` builds is sorted and holds the old and the new accesses, and *)
(* the binary search of `find` finds what a sorted registry holds.         *)
(***************************************************************************)
EXTENDS HostFaults, Inductions, SequenceTheorems, FiniteSetTheorems

-----------------------------------------------------------------------------
(* The registry of direct accesses                                         *)

Middle(lo, hi) == (lo + hi) \div 2

\* The middle of two positions lies between them.
LEMMA MiddleFacts ==
  ASSUME NEW lo \in Nat, NEW hi \in Nat, lo <= hi
  PROVE  Middle(lo, hi) \in lo .. hi
BY SMT DEF Middle

\* The binary search as it recurs, for any function p of the two ends.
Probe(p, s, offset, w) ==
  IF w[1] > w[2] THEN NONE
  ELSE IF s[Middle(w[1], w[2])].offset = offset THEN Middle(w[1], w[2])
  ELSE IF s[Middle(w[1], w[2])].offset < offset THEN p[<<Middle(w[1], w[2]) + 1, w[2]>>]
  ELSE p[<<w[1], Middle(w[1], w[2]) - 1>>]

Ends(s) == (1 .. Len(s) + 1) \X (0 .. Len(s))

\* What the search is to return for the entries between two positions.
Position(s, offset, w) ==
  IF \E n \in w[1] .. w[2] : s[n].offset = offset
    THEN CHOOSE n \in w[1] .. w[2] : s[n].offset = offset ELSE NONE

\* An access is found at most once.
LEMMA PositionFacts ==
  ASSUME NEW s \in Seq(Site), Sorted(s), NEW offset, NEW w \in Ends(s)
  PROVE  /\ \A n \in w[1] .. w[2] : s[n].offset = offset => Position(s, offset, w) = n
         /\ (\A n \in w[1] .. w[2] : s[n].offset # offset) => Position(s, offset, w) = NONE
<1>1. \A n \in w[1] .. w[2] : n \in DOMAIN s /\ s[n].offset \in Nat /\ n \in Nat
  <2>1. DOMAIN s = 1 .. Len(s) /\ Len(s) \in Nat
    BY LenProperties
  <2>2. w[1] .. w[2] \subseteq 1 .. Len(s)
    BY <2>1 DEF Ends
  <2>3. \A n \in 1 .. Len(s) : s[n] \in Site
    BY ElementOfSeq
  <2> QED BY <2>1, <2>2, <2>3 DEF Site
<1>2. \A m, n \in w[1] .. w[2] : s[m].offset = offset /\ s[n].offset = offset => m = n
  BY <1>1 DEF Sorted
<1>3. ASSUME NEW n \in w[1] .. w[2], s[n].offset = offset PROVE Position(s, offset, w) = n
  <2>1. PICK m \in w[1] .. w[2] : s[m].offset = offset /\ m = Position(s, offset, w)
    BY <1>3 DEF Position
  <2> QED BY <1>2, <1>3, <2>1
<1> QED BY <1>3 DEF Position

\* Halving the interval on the side of the offset keeps what is to be found.
LEMMA PositionStep ==
  ASSUME NEW s \in Seq(Site), Sorted(s), NEW offset \in Nat, NEW w \in Ends(s), w[1] <= w[2]
  PROVE  LET mid == Middle(w[1], w[2])
             left == <<w[1], mid - 1>>
             right == <<mid + 1, w[2]>>
         IN  /\ mid \in w[1] .. w[2] /\ left \in Ends(s) /\ right \in Ends(s)
             /\ s[mid].offset = offset => Position(s, offset, w) = mid
             /\ s[mid].offset < offset => Position(s, offset, w) = Position(s, offset, right)
             /\ s[mid].offset # offset /\ ~(s[mid].offset < offset) =>
                  Position(s, offset, w) = Position(s, offset, left)
<1> DEFINE mid == Middle(w[1], w[2])
           left == <<w[1], mid - 1>>
           right == <<mid + 1, w[2]>>
<1>1. Len(s) \in Nat /\ DOMAIN s = 1 .. Len(s)
  BY LenProperties
<1>2. w[1] \in 1 .. (Len(s) + 1) /\ w[2] \in 0 .. Len(s)
  BY DEF Ends
<1>3. mid \in w[1] .. w[2]
  <2>1. w[1] \in Nat /\ w[2] \in Nat
    BY <1>1, <1>2
  <2> QED BY <2>1, MiddleFacts
<1> HIDE DEF mid
<1>4. left \in Ends(s) /\ right \in Ends(s)
  <2>1. mid \in Nat /\ 1 <= mid /\ mid <= Len(s)
    BY <1>1, <1>2, <1>3
  <2>2. mid - 1 \in 0 .. Len(s) /\ mid + 1 \in 1 .. (Len(s) + 1)
    BY <1>1, <2>1
  <2> QED BY <1>2, <2>2 DEF Ends
<1>5. \A n \in w[1] .. w[2] : n \in DOMAIN s /\ n \in Nat /\ s[n].offset \in Nat
  <2>1. w[1] .. w[2] \subseteq 1 .. Len(s)
    BY <1>1, <1>2
  <2>2. \A n \in 1 .. Len(s) : s[n] \in Site
    BY ElementOfSeq
  <2> QED BY <1>1, <2>1, <2>2 DEF Site
<1>6. s[mid].offset = offset => Position(s, offset, w) = mid
  BY <1>3, PositionFacts
<1>7. ASSUME s[mid].offset < offset PROVE Position(s, offset, w) = Position(s, offset, right)
  <2>1. \A n \in w[1] .. w[2] : s[n].offset = offset => n \in (mid + 1) .. w[2]
    <3> SUFFICES ASSUME NEW n \in w[1] .. w[2], s[n].offset = offset, n <= mid PROVE FALSE
      BY <1>3, <1>5
    <3>1. n = mid \/ s[n].offset < s[mid].offset
      BY <1>3, <1>5 DEF Sorted
    <3> QED BY <1>3, <1>5, <1>7, <3>1
  <2>2. (mid + 1) .. w[2] \subseteq w[1] .. w[2]
    BY <1>2, <1>3
  <2>3. right[1] = mid + 1 /\ right[2] = w[2]
    OBVIOUS
  <2>4. CASE \E n \in w[1] .. w[2] : s[n].offset = offset
    BY <1>4, <2>1, <2>3, <2>4, PositionFacts
  <2>5. CASE \A n \in w[1] .. w[2] : s[n].offset # offset
    BY <1>4, <2>2, <2>3, <2>5, PositionFacts
  <2> QED BY <2>4, <2>5
<1>8. ASSUME s[mid].offset # offset, ~(s[mid].offset < offset)
      PROVE  Position(s, offset, w) = Position(s, offset, left)
  <2>1. \A n \in w[1] .. w[2] : s[n].offset = offset => n \in w[1] .. (mid - 1)
    <3> SUFFICES ASSUME NEW n \in w[1] .. w[2], s[n].offset = offset, n >= mid PROVE FALSE
      BY <1>3, <1>5
    <3>1. n = mid \/ s[mid].offset < s[n].offset
      BY <1>3, <1>5 DEF Sorted
    <3> QED BY <1>3, <1>5, <1>8, <3>1
  <2>2. w[1] .. (mid - 1) \subseteq w[1] .. w[2]
    BY <1>2, <1>3
  <2>3. left[1] = w[1] /\ left[2] = mid - 1
    OBVIOUS
  <2>4. CASE \E n \in w[1] .. w[2] : s[n].offset = offset
    BY <1>4, <2>1, <2>3, <2>4, PositionFacts
  <2>5. CASE \A n \in w[1] .. w[2] : s[n].offset # offset
    BY <1>4, <2>2, <2>3, <2>5, PositionFacts
  <2> QED BY <2>4, <2>5
<1> QED BY <1>3, <1>4, <1>6, <1>7, <1>8 DEF mid

\* find of a sorted registry: the position of the access at an offset, or NONE.
LEMMA FindCorrect ==
  ASSUME NEW s \in Seq(Site), Sorted(s), NEW offset \in Nat
  PROVE  /\ \A n \in DOMAIN s : s[n].offset = offset => Find(s, offset) = n
         /\ (\A n \in DOMAIN s : s[n].offset # offset) => Find(s, offset) = NONE
<1> DEFINE probe == CHOOSE p : p = [w \in Ends(s) |-> Probe(p, s, offset, w)]
           g == [w \in Ends(s) |-> Position(s, offset, w)]
<1>1. Find(s, offset) = IF s = <<>> THEN NONE ELSE probe[<<1, Len(s)>>]
  BY DEF Find, Probe, Middle, Ends
<1>2. Len(s) \in Nat /\ DOMAIN s = 1 .. Len(s)
  BY LenProperties
<1>3. \A w \in Ends(s) : w[1] \in 1 .. (Len(s) + 1) /\ w[2] \in 0 .. Len(s)
  BY DEF Ends
<1>4. \A w \in Ends(s) : g[w] = Probe(g, s, offset, w)
  <2> SUFFICES ASSUME NEW w \in Ends(s) PROVE Position(s, offset, w) = Probe(g, s, offset, w)
    OBVIOUS
  <2>1. CASE w[1] > w[2]
    <3>1. w[1] .. w[2] = {}
      BY <1>2, <1>3, <2>1
    <3> QED BY <2>1, <3>1 DEF Position, Probe
  <2>2. CASE w[1] <= w[2]
    <3> DEFINE mid == Middle(w[1], w[2])
               left == <<w[1], mid - 1>>
               right == <<mid + 1, w[2]>>
    <3>1. /\ left \in Ends(s) /\ right \in Ends(s)
          /\ s[mid].offset = offset => Position(s, offset, w) = mid
          /\ s[mid].offset < offset => Position(s, offset, w) = Position(s, offset, right)
          /\ s[mid].offset # offset /\ ~(s[mid].offset < offset) =>
               Position(s, offset, w) = Position(s, offset, left)
      BY <2>2, PositionStep
    <3>2. g[left] = Position(s, offset, left) /\ g[right] = Position(s, offset, right)
      BY <3>1
    <3>3. ~(w[1] > w[2])
      BY <1>2, <1>3, <2>2
    <3> HIDE DEF g
    <3> QED BY <3>1, <3>2, <3>3 DEF Probe
  <2> QED BY <1>2, <1>3, <2>1, <2>2
<1>5. g = [w \in Ends(s) |-> Probe(g, s, offset, w)]
  <2> DEFINE h == [w \in Ends(s) |-> Probe(g, s, offset, w)]
  <2>1. \A w \in Ends(s) : g[w] = h[w]
    BY <1>4
  <2> QED BY <2>1
<1>6. probe = [w \in Ends(s) |-> Probe(probe, s, offset, w)]
  <2> HIDE DEF g
  <2> QED BY <1>5
<1>7. \A w \in Ends(s) : probe[w] = g[w]
  <2> DEFINE T == {d \in Nat : \E w \in Ends(s) : d = w[2] + 1 - w[1] /\ probe[w] # g[w]}
  <2> HIDE DEF probe, g
  <2>1. ASSUME NEW w \in Ends(s), probe[w] # g[w]
        PROVE  w[2] + 1 - w[1] \in T /\ \E d \in T : d < w[2] + 1 - w[1]
    <3>1. probe[w] = Probe(probe, s, offset, w) /\ g[w] = Probe(g, s, offset, w)
      BY <1>4, <1>6
    <3>2. w[1] <= w[2]
      BY <1>2, <1>3, <2>1, <3>1 DEF Probe
    <3> DEFINE mid == Middle(w[1], w[2])
               left == <<w[1], mid - 1>>
               right == <<mid + 1, w[2]>>
    <3>3. mid \in w[1] .. w[2] /\ left \in Ends(s) /\ right \in Ends(s)
      BY <3>2, PositionStep
    <3>4. probe[left] # g[left] \/ probe[right] # g[right]
      BY <2>1, <3>1, <3>2 DEF Probe
    <3> HIDE DEF mid
    <3>7. /\ w[2] + 1 - w[1] \in Nat
          /\ mid - w[1] < w[2] + 1 - w[1] /\ w[2] - mid < w[2] + 1 - w[1]
      BY <1>2, <1>3, <3>2, <3>3
    <3>8. w[2] + 1 - w[1] \in T
      BY <2>1, <3>7
    <3>5. CASE probe[left] # g[left]
      <4>1. left[2] + 1 - left[1] = mid - w[1] /\ mid - w[1] \in Nat
        BY <1>3, <3>3
      <4>2. mid - w[1] \in T
        BY <3>3, <3>5, <4>1
      <4> QED BY <3>7, <3>8, <4>2
    <3>6. CASE probe[right] # g[right]
      <4>1. right[2] + 1 - right[1] = w[2] - mid /\ w[2] - mid \in Nat
        BY <1>3, <3>3
      <4>2. w[2] - mid \in T
        BY <3>3, <3>6, <4>1
      <4> QED BY <3>7, <3>8, <4>2
    <3> QED BY <3>4, <3>5, <3>6
  <2>2. \A d \in T : \E c \in T : c < d
    BY <2>1
  <2>3. T = {}
    <3>1. T \in SUBSET Nat
      OBVIOUS
    <3> HIDE DEF T
    <3> SUFFICES ASSUME T # {} PROVE FALSE
      OBVIOUS
    <3>2. PICK m \in T : \A n \in T : m <= n
      BY <3>1, LeastNatural
    <3>3. PICK c \in T : c < m
      BY <2>2
    <3> QED BY <3>1, <3>2, <3>3
  <2> HIDE DEF T
  <2> QED BY <2>1, <2>3
<1>8. CASE s = <<>>
  BY <1>1, <1>2, <1>8
<1>9. CASE s # <<>>
  <2>1. <<1, Len(s)>> \in Ends(s)
    BY <1>2 DEF Ends
  <2>2. Find(s, offset) = Position(s, offset, <<1, Len(s)>>)
    BY <1>1, <1>7, <1>9, <2>1
  <2> QED BY <1>2, <2>1, <2>2, PositionFacts
<1> QED BY <1>8, <1>9
-----------------------------------------------------------------------------
(* register.                                                               *)

\* The numbers of a registered access.
LEMMA SiteFacts ==
  ASSUME NEW q \in Seq(Site)
  PROVE  /\ Len(q) \in Nat /\ DOMAIN q = 1 .. Len(q)
         /\ \A n \in 1 .. Len(q) : /\ q[n] \in Site /\ q[n].offset \in Nat
                                  /\ q[n].slow \in Nat /\ q[n].len \in Nat
<1>1. Len(q) \in Nat /\ DOMAIN q = 1 .. Len(q)
  BY LenProperties
<1>2. \A n \in 1 .. Len(q) : q[n] \in Site
  BY ElementOfSeq
<1> QED BY <1>1, <1>2 DEF Site

\* One round of `register`.
Inserted(q, e) ==
  IF q # <<>> /\ q[Len(q)].offset >= e.offset
    THEN InsertAt(q, Cardinality({n \in DOMAIN q : q[n].offset < e.offset}) + 1, e)
    ELSE Append(q, e)

\* In a sorted registry the accesses below an offset are the first ones (partition_point).
LEMMA PartitionPoint ==
  ASSUME NEW q \in Seq(Site), Sorted(q), NEW o \in Nat
  PROVE  LET m == Cardinality({n \in DOMAIN q : q[n].offset < o})
         IN  /\ m \in 0 .. Len(q)
             /\ \A n \in DOMAIN q : q[n].offset < o <=> n <= m
<1>1. DOMAIN q = 1 .. Len(q) /\ Len(q) \in Nat
  BY LenProperties
<1>2. \A n \in 1 .. Len(q) : q[n].offset \in Nat
  BY SiteFacts
<1> DEFINE T == {n \in 1 .. Len(q) : ~(q[n].offset < o)} \cup {Len(q) + 1}
<1>3. PICK c \in T : \A n \in T : c <= n
  <2>1. T \in SUBSET Nat /\ T # {}
    BY <1>1
  <2> HIDE DEF T
  <2> QED BY <2>1, LeastNatural
<1>4. c \in 1 .. (Len(q) + 1)
  BY <1>1
<1>5. \A n \in 1 .. Len(q) : q[n].offset < o <=> n <= c - 1
  <2> SUFFICES ASSUME NEW n \in 1 .. Len(q) PROVE q[n].offset < o <=> n < c
    BY <1>1, <1>4
  <2>1. n < c => q[n].offset < o
    BY <1>1, <1>3, <1>4
  <2>2. ASSUME c <= n PROVE ~(q[n].offset < o)
    <3>1. c \in 1 .. Len(q) /\ ~(q[c].offset < o)
      BY <1>1, <1>3, <1>4, <2>2
    <3>2. c = n \/ q[c].offset < q[n].offset
      BY <1>1, <2>2, <3>1 DEF Sorted
    <3> QED BY <1>2, <3>1, <3>2
  <2> QED BY <1>1, <1>4, <2>1, <2>2
<1>6. PICK d \in 0 .. Len(q) : d = c - 1
  BY <1>1, <1>4
<1>7. {n \in DOMAIN q : q[n].offset < o} = 1 .. d
  <2> HIDE DEF T
  <2> QED BY <1>1, <1>5, <1>6
<1>8. Cardinality(1 .. d) = d
  <2>1. Cardinality(1 .. d) = IF 1 > d THEN 0 ELSE d - 1 + 1
    BY FS_Interval
  <2> QED BY <1>1, <2>1
<1> QED BY <1>1, <1>5, <1>6, <1>7, <1>8

\* Inserting an access with an offset of its own keeps the registry sorted and everything
\* that was in it.
LEMMA InsertedCorrect ==
  ASSUME NEW q \in Seq(Site), Sorted(q), NEW e \in Site, \A n \in DOMAIN q : q[n].offset # e.offset
  PROVE  /\ Inserted(q, e) \in Seq(Site) /\ Sorted(Inserted(q, e))
         /\ \A x : (\E n \in DOMAIN Inserted(q, e) : Inserted(q, e)[n] = x) <=>
                     x = e \/ \E n \in DOMAIN q : q[n] = x
<1> DEFINE r == Inserted(q, e)
           m == Cardinality({n \in DOMAIN q : q[n].offset < e.offset})
<1>1. DOMAIN q = 1 .. Len(q) /\ Len(q) \in Nat /\ e.offset \in Nat
  BY LenProperties DEF Site
<1>2. \A n \in 1 .. Len(q) : q[n] \in Site /\ q[n].offset \in Nat
  BY SiteFacts
<1>3. /\ m \in 0 .. Len(q)
      /\ \A n \in 1 .. Len(q) : q[n].offset < e.offset <=> n <= m
  BY <1>1, PartitionPoint
<1> HIDE DEF m
<1>9. m \in Nat /\ Len(q) \in Nat /\ m <= Len(q) /\ Len(q) - m \in Nat
  BY <1>1, <1>3
<1>4. /\ r \in Seq(Site) /\ Len(r) = Len(q) + 1 /\ r[m + 1] = e
      /\ \A n \in 1 .. m : r[n] = q[n]
      /\ \A n \in (m + 1) .. Len(q) : r[n + 1] = q[n]
  <2>1. CASE q # <<>> /\ q[Len(q)].offset >= e.offset
    <3> DEFINE a == SubSeq(q, 1, m)
               b == SubSeq(q, m + 1, Len(q))
    <3>1. r = (a \o <<e>>) \o b
      <4>1. (m + 1) - 1 = m
        BY <1>1, <1>3
      <4> QED BY <2>1, <4>1 DEF Inserted, InsertAt, m
    <3>2. a \in Seq(Site) /\ Len(a) = m /\ \A n \in 1 .. m : a[n] = q[n]
      <4>1. 1 \in Int /\ m \in Int /\ \A n \in 1 .. m : q[n] \in Site
        BY <1>1, <1>2, <1>3
      <4>2. /\ a \in Seq(Site) /\ Len(a) = IF 1 <= m THEN m - 1 + 1 ELSE 0
            /\ \A n \in 1 .. m - 1 + 1 : a[n] = q[1 + n - 1]
        BY <4>1, SubSeqProperties
      <4> QED BY <1>1, <1>3, <4>2
    <3>3. /\ b \in Seq(Site) /\ Len(b) = Len(q) - m
          /\ \A n \in 1 .. (Len(q) - m) : b[n] = q[m + n]
      <4>1. m + 1 \in Int /\ Len(q) \in Int /\ \A n \in (m + 1) .. Len(q) : q[n] \in Site
        BY <1>1, <1>2, <1>3
      <4>2. /\ b \in Seq(Site) /\ Len(b) = IF m + 1 <= Len(q) THEN Len(q) - (m + 1) + 1 ELSE 0
            /\ \A n \in 1 .. Len(q) - (m + 1) + 1 : b[n] = q[(m + 1) + n - 1]
        BY <4>1, SubSeqProperties
      <4>3. \A n \in 1 .. (Len(q) - m) : n \in 1 .. Len(q) - (m + 1) + 1 /\ (m + 1) + n - 1 = m + n
        BY <1>9
      <4>4. Len(b) = Len(q) - m
        BY <1>9, <4>2
      <4> QED BY <4>2, <4>3, <4>4
    <3> HIDE DEF a, b, r
    <3>4. <<e>> \in Seq(Site) /\ Len(<<e>>) = 1 /\ <<e>>[1] = e
      OBVIOUS
    <3> DEFINE c == a \o <<e>>
    <3>5. /\ c \in Seq(Site) /\ Len(c) = m + 1
          /\ \A n \in 1 .. (m + 1) : c[n] = IF n <= m THEN a[n] ELSE <<e>>[n - m]
      BY <3>2, <3>4, ConcatProperties
    <3>10. r = c \o b
      BY <3>1
    <3> HIDE DEF c
    <3>6. /\ r \in Seq(Site) /\ Len(r) = (m + 1) + (Len(q) - m)
          /\ \A n \in 1 .. (m + 1) + (Len(q) - m) :
               r[n] = IF n <= m + 1 THEN c[n] ELSE b[n - (m + 1)]
      <4>1. /\ r \in Seq(Site) /\ Len(r) = Len(c) + Len(b)
            /\ \A n \in 1 .. Len(c) + Len(b) : r[n] = IF n <= Len(c) THEN c[n] ELSE b[n - Len(c)]
        BY <3>3, <3>5, <3>10, ConcatProperties
      <4> QED BY <3>3, <3>5, <4>1
    <3>7. Len(r) = Len(q) + 1 /\ r[m + 1] = e
      <4>1. /\ m + 1 \in 1 .. (m + 1) + (Len(q) - m) /\ m + 1 \in 1 .. (m + 1)
            /\ m + 1 <= m + 1 /\ ~(m + 1 <= m) /\ (m + 1) - m = 1
            /\ (m + 1) + (Len(q) - m) = Len(q) + 1
        BY <1>9
      <4>2. r[m + 1] = c[m + 1] /\ c[m + 1] = <<e>>[(m + 1) - m]
        BY <3>5, <3>6, <4>1
      <4> QED BY <3>4, <3>6, <4>1, <4>2
    <3>8. \A n \in 1 .. m : r[n] = q[n]
      <4>1. \A n \in 1 .. m : /\ n \in 1 .. (m + 1) + (Len(q) - m) /\ n \in 1 .. (m + 1)
                              /\ n <= m + 1 /\ n <= m
        BY <1>9
      <4> QED BY <3>2, <3>5, <3>6, <4>1
    <3>9. ASSUME NEW n \in (m + 1) .. Len(q) PROVE r[n + 1] = q[n]
      <4>1. /\ n + 1 \in 1 .. (m + 1) + (Len(q) - m) /\ ~(n + 1 <= m + 1)
            /\ (n + 1) - (m + 1) \in 1 .. (Len(q) - m) /\ m + ((n + 1) - (m + 1)) = n
        BY <1>9
      <4>2. r[n + 1] = b[(n + 1) - (m + 1)]
        BY <3>6, <4>1
      <4>3. b[(n + 1) - (m + 1)] = q[m + ((n + 1) - (m + 1))]
        BY <3>3, <4>1
      <4> QED BY <4>1, <4>2, <4>3
    <3> QED BY <3>6, <3>7, <3>8, <3>9
  <2>2. CASE ~(q # <<>> /\ q[Len(q)].offset >= e.offset)
    <3>1. r = Append(q, e)
      BY <2>2 DEF Inserted
    <3>2. m = Len(q)
      <4>1. CASE Len(q) = 0
        BY <1>1, <1>3, <4>1
      <4>2. CASE Len(q) # 0
        <5>1. Len(q) \in 1 .. Len(q) /\ q # <<>>
          BY <1>1, <4>2
        <5>2. q[Len(q)].offset < e.offset
          BY <1>1, <1>2, <2>2, <5>1
        <5>3. Len(q) <= m
          BY <1>3, <5>1, <5>2
        <5> QED BY <1>9, <5>3
      <4> QED BY <4>1, <4>2
    <3> HIDE DEF r
    <3> QED BY <1>1, <3>1, <3>2, AppendProperties
  <2> QED BY <2>1, <2>2
<1> HIDE DEF r
<1>5. DOMAIN r = 1 .. (Len(q) + 1)
  BY <1>4, LenProperties
<1>6. \A n \in 1 .. (Len(q) + 1) : \/ n \in 1 .. m /\ r[n] = q[n]
                                   \/ n = m + 1 /\ r[n] = e
                                   \/ n - 1 \in (m + 1) .. Len(q) /\ r[n] = q[n - 1]
  <2> SUFFICES ASSUME NEW n \in 1 .. (Len(q) + 1), n > m + 1
               PROVE  n - 1 \in (m + 1) .. Len(q) /\ r[n] = q[n - 1]
    BY <1>1, <1>3, <1>4
  <2>1. n - 1 \in (m + 1) .. Len(q) /\ (n - 1) + 1 = n
    BY <1>1, <1>3
  <2> QED BY <1>4, <2>1
<1>7. Sorted(r)
  <2> SUFFICES ASSUME NEW i \in 1 .. (Len(q) + 1), NEW k \in 1 .. (Len(q) + 1), i < k
               PROVE  r[i].offset < r[k].offset
    BY <1>5 DEF Sorted
  <2>1. \A a, b \in 1 .. Len(q) : a < b => q[a].offset < q[b].offset
    BY <1>1 DEF Sorted
  <2>2. \A n \in 1 .. Len(q) : n > m => e.offset < q[n].offset
    BY <1>1, <1>2, <1>3
  <2>3. CASE i \in 1 .. m /\ r[i] = q[i]
    BY <1>1, <1>3, <1>6, <2>1, <2>3
  <2>4. CASE i = m + 1 /\ r[i] = e
    <3>1. k - 1 \in (m + 1) .. Len(q) /\ r[k] = q[k - 1]
      BY <1>1, <1>3, <1>6, <2>4
    <3> QED BY <1>1, <1>3, <2>2, <2>4, <3>1
  <2>5. CASE i - 1 \in (m + 1) .. Len(q) /\ r[i] = q[i - 1]
    <3>1. k - 1 \in (m + 1) .. Len(q) /\ r[k] = q[k - 1]
      BY <1>1, <1>3, <1>6, <2>5
    <3>2. i - 1 \in 1 .. Len(q) /\ k - 1 \in 1 .. Len(q) /\ i - 1 < k - 1
      BY <1>1, <1>3, <2>5, <3>1
    <3> QED BY <2>1, <2>5, <3>1, <3>2
  <2> QED BY <1>6, <2>3, <2>4, <2>5
<1>8. ASSUME NEW x
      PROVE  (\E n \in DOMAIN r : r[n] = x) <=> x = e \/ \E n \in DOMAIN q : q[n] = x
  <2>1. ASSUME NEW n \in DOMAIN r, r[n] = x PROVE x = e \/ \E k \in DOMAIN q : q[k] = x
    <3>1. \A k \in 1 .. m : k \in 1 .. Len(q)
      BY <1>1, <1>3
    <3>2. \A k \in (m + 1) .. Len(q) : k \in 1 .. Len(q)
      BY <1>1, <1>3
    <3> QED BY <1>1, <1>5, <1>6, <2>1, <3>1, <3>2
  <2>2. ASSUME x = e PROVE \E n \in DOMAIN r : r[n] = x
    <3>1. m + 1 \in 1 .. (Len(q) + 1)
      BY <1>1, <1>3
    <3> QED BY <1>4, <1>5, <2>2, <3>1
  <2>3. ASSUME NEW k \in DOMAIN q, q[k] = x PROVE \E n \in DOMAIN r : r[n] = x
    <3>1. k \in 1 .. m \/ k \in (m + 1) .. Len(q)
      BY <1>1, <1>3
    <3>2. k \in 1 .. (Len(q) + 1) /\ k + 1 \in 1 .. (Len(q) + 1)
      BY <1>1
    <3> QED BY <1>4, <1>5, <2>3, <3>1, <3>2
  <2> QED BY <2>1, <2>2, <2>3
<1> QED BY <1>4, <1>7, <1>8 DEF r

\* Inserting an access into a registry gives a registry.
LEMMA InsertedType ==
  ASSUME NEW q \in Seq(Site), NEW e \in Site
  PROVE  Inserted(q, e) \in Seq(Site)
<1> DEFINE T == {n \in DOMAIN q : q[n].offset < e.offset}
<1>1. Len(q) \in Nat /\ DOMAIN q = 1 .. Len(q) /\ \A n \in 1 .. Len(q) : q[n] \in Site
  BY SiteFacts
<1>2. IsFiniteSet(1 .. Len(q)) /\ Cardinality(1 .. Len(q)) = Len(q)
  <2>1. IsFiniteSet(1 .. Len(q)) /\ Cardinality(1 .. Len(q)) = IF 1 > Len(q) THEN 0 ELSE Len(q) - 1 + 1
    BY <1>1, FS_Interval
  <2> QED BY <1>1, <2>1
<1>3. Cardinality(T) \in Nat /\ Cardinality(T) <= Len(q)
  <2>1. T \in SUBSET (1 .. Len(q))
    BY <1>1
  <2> HIDE DEF T
  <2>2. IsFiniteSet(T) /\ Cardinality(T) <= Len(q)
    BY <1>2, <2>1, FS_Subset
  <2> QED BY <2>2, FS_CardinalityType
<1>4. PICK m \in 0 .. Len(q) : m = Cardinality(T)
  <2> HIDE DEF T
  <2> QED BY <1>1, <1>3
<1>5. SubSeq(q, 1, m) \in Seq(Site) /\ SubSeq(q, m + 1, Len(q)) \in Seq(Site)
  <2>1. /\ 1 \in Int /\ m \in Int /\ m + 1 \in Int /\ Len(q) \in Int
        /\ \A n \in 1 .. m : q[n] \in Site
        /\ \A n \in (m + 1) .. Len(q) : q[n] \in Site
    <3>1. \A n \in 1 .. m : n \in 1 .. Len(q)
      BY <1>1
    <3>2. \A n \in (m + 1) .. Len(q) : n \in 1 .. Len(q)
      BY <1>1
    <3> QED BY <1>1, <3>1, <3>2
  <2>2. SubSeq(q, 1, m) \in Seq(Site)
    BY <2>1, SubSeqProperties
  <2>3. SubSeq(q, m + 1, Len(q)) \in Seq(Site)
    BY <2>1, SubSeqProperties
  <2> QED BY <2>2, <2>3
<1>6. (SubSeq(q, 1, m) \o <<e>>) \o SubSeq(q, m + 1, Len(q)) \in Seq(Site)
  <2>1. SubSeq(q, 1, m) \o <<e>> \in Seq(Site)
    BY <1>5, ConcatProperties
  <2> QED BY <1>5, <2>1, ConcatProperties
<1>7. InsertAt(q, m + 1, e) \in Seq(Site)
  <2>1. (m + 1) - 1 = m
    BY <1>1, <1>4
  <2> QED BY <1>6, <2>1 DEF InsertAt
<1>8. Append(q, e) \in Seq(Site)
  OBVIOUS
<1> QED BY <1>4, <1>7, <1>8 DEF Inserted

\* Two distances from the same place.
LEMMA Cancel ==
  ASSUME NEW c \in Nat, NEW m \in Nat, NEW n \in Nat, c + m = c + n
  PROVE  m = n
OBVIOUS

\* The entry of the k-th access of a block placed at `at`.
Entry(at, b, k) == [offset |-> at + b.sites[k].offset, slow |-> at + b.sites[k].slow,
                    len |-> b.sites[k].len]

\* The block has one access at an offset, and none where the registry has one.
Fresh(s, at, b) ==
  /\ \A k, m \in DOMAIN b.sites : k # m => b.sites[k].offset # b.sites[m].offset
  /\ \A k \in DOMAIN b.sites, n \in DOMAIN s : s[n].offset # at + b.sites[k].offset

\* What a registry q holds that was s before the first k accesses of the block were entered.
Holds(q, s, at, b, k) ==
  \A x : (\E n \in DOMAIN q : q[n] = x) <=>
           \/ \E n \in DOMAIN s : s[n] = x
           \/ \E i \in 1 .. k : x = Entry(at, b, i)

\* register: the registry stays sorted and holds the old accesses and those of the block.
LEMMA RegisterCorrect ==
  ASSUME NEW s \in Seq(Site), Sorted(s), NEW at \in Nat, NEW b, b.sites \in Seq(Site),
         Fresh(s, at, b)
  PROVE  /\ Register(s, at, b) \in Seq(Site) /\ Sorted(Register(s, at, b))
         /\ Holds(Register(s, at, b), s, at, b, Len(b.sites))
<1> DEFINE N == Len(b.sites)
           put == CHOOSE p : p = [k \in 0 .. N |->
                    IF k = 0 THEN s ELSE Inserted(p[k - 1], Entry(at, b, k))]
<1>1. Register(s, at, b) = put[N]
  BY Zenon DEF Register, Inserted, Entry
<1>2. N \in Nat /\ DOMAIN b.sites = 1 .. N
  BY SiteFacts
<1>3. \A k \in 1 .. N : Entry(at, b, k) \in Site /\ Entry(at, b, k).offset = at + b.sites[k].offset
  <2> SUFFICES ASSUME NEW k \in 1 .. N
               PROVE  Entry(at, b, k) \in Site /\ Entry(at, b, k).offset = at + b.sites[k].offset
    OBVIOUS
  <2>1. b.sites[k].offset \in Nat /\ b.sites[k].slow \in Nat /\ b.sites[k].len \in Nat
    BY SiteFacts
  <2>2. at + b.sites[k].offset \in Nat /\ at + b.sites[k].slow \in Nat
    BY <2>1
  <2> QED BY <2>1, <2>2 DEF Entry, Site
<1> HIDE DEF N
<1>4. PICK g \in [0 .. N -> Seq(Site)] :
        g[0] = s /\ \A k \in 1 .. N : g[k] = Inserted(g[k - 1], Entry(at, b, k))
  <2> DEFINE X == Seq(Site)
             G == [w \in X \X (1 .. N) |-> Inserted(w[1], Entry(at, b, w[2]))]
  <2>1. G \in [X \X (1 .. N) -> X]
    BY <1>3, InsertedType
  <2>2. \A q \in X, k \in 1 .. N : G[<<q, k>>] = Inserted(q, Entry(at, b, k))
    OBVIOUS
  <2>3. s \in X
    OBVIOUS
  <2> HIDE DEF G, X
  <2>4. Iterations(N, X, s, G) # {}
    BY <1>2, <2>1, <2>3, Recursion
  <2>5. PICK f \in [0 .. N -> X] : f[0] = s /\ \A k \in 1 .. N : f[k] = G[<<f[k - 1], k>>]
    BY <2>4 DEF Iterations
  <2>6. \A k \in 1 .. N : f[k - 1] \in X
    BY <1>2, <2>5
  <2> QED BY <2>2, <2>5, <2>6 DEF X
<1>5. g = [k \in 0 .. N |-> IF k = 0 THEN s ELSE Inserted(g[k - 1], Entry(at, b, k))]
  <2> DEFINE h == [k \in 0 .. N |-> IF k = 0 THEN s ELSE Inserted(g[k - 1], Entry(at, b, k))]
  <2>1. \A k \in 0 .. N : k = 0 \/ k \in 1 .. N
    BY <1>2
  <2>2. \A k \in 0 .. N : g[k] = h[k]
    BY <1>4, <2>1
  <2> QED BY <1>4, <2>2
<1>6. put = [k \in 0 .. N |-> IF k = 0 THEN s ELSE Inserted(put[k - 1], Entry(at, b, k))]
  BY <1>5
<1> HIDE DEF put
<1>7. put[0] = s /\ \A k \in 1 .. N : put[k] = Inserted(put[k - 1], Entry(at, b, k))
  <2>1. 0 \in 0 .. N /\ \A k \in 1 .. N : k \in 0 .. N /\ k # 0
    BY <1>2
  <2> QED BY <1>6, <2>1
<1> DEFINE Good(k) == put[k] \in Seq(Site) /\ Sorted(put[k]) /\ Holds(put[k], s, at, b, k)
           S == {k \in Nat : k <= N => Good(k)}
<1>8. 0 \in S
  BY <1>7 DEF Holds
<1>9. ASSUME NEW k \in Nat, k \in S PROVE k + 1 \in S
  <2> SUFFICES ASSUME k + 1 <= N PROVE Good(k + 1)
    OBVIOUS
  <2>1. Good(k) /\ k + 1 \in 1 .. N /\ (k + 1) - 1 = k
    BY <1>2, <1>9
  <2>2. PICK e \in Site : e = Entry(at, b, k + 1) /\ e.offset = at + b.sites[k + 1].offset
    BY <1>3, <2>1
  <2>3. PICK q \in Seq(Site) : q = put[k] /\ Sorted(q) /\ Holds(q, s, at, b, k)
    BY <2>1
  <2>4. put[k + 1] = Inserted(q, e)
    BY <1>7, <2>1, <2>2, <2>3
  <2>5. \A n \in DOMAIN q : q[n].offset # e.offset
    <3> SUFFICES ASSUME NEW n \in DOMAIN q, q[n].offset = e.offset PROVE FALSE
      OBVIOUS
    <3>1. (\E i \in DOMAIN s : s[i] = q[n]) \/ \E i \in 1 .. k : q[n] = Entry(at, b, i)
      BY <2>3 DEF Holds
    <3>2. CASE \E i \in DOMAIN s : s[i] = q[n]
      <4>1. PICK i \in DOMAIN s : s[i] = q[n]
        BY <3>2
      <4>2. s[i].offset # at + b.sites[k + 1].offset
        BY <1>2, <2>1 DEF Fresh
      <4> QED BY <2>2, <4>1, <4>2
    <3>3. CASE \E i \in 1 .. k : q[n] = Entry(at, b, i)
      <4>1. PICK i \in 1 .. k : q[n] = Entry(at, b, i)
        BY <3>3
      <4>2. i \in 1 .. N /\ k + 1 \in 1 .. N /\ i # k + 1
        BY <1>2, <2>1
      <4>3. at + b.sites[i].offset = at + b.sites[k + 1].offset
        BY <1>3, <2>2, <4>1, <4>2
      <4>4. b.sites[i].offset \in Nat /\ b.sites[k + 1].offset \in Nat
        BY <4>2, SiteFacts DEF N
      <4>5. b.sites[i].offset = b.sites[k + 1].offset
        BY <4>3, <4>4, Cancel
      <4> QED BY <1>2, <4>2, <4>5 DEF Fresh
    <3> QED BY <3>1, <3>2, <3>3
  <2>6. /\ Inserted(q, e) \in Seq(Site) /\ Sorted(Inserted(q, e))
        /\ \A x : (\E n \in DOMAIN Inserted(q, e) : Inserted(q, e)[n] = x) <=>
                    x = e \/ \E n \in DOMAIN q : q[n] = x
    BY <2>3, <2>5, InsertedCorrect
  <2>7. ASSUME NEW x
        PROVE  (\E i \in 1 .. (k + 1) : x = Entry(at, b, i)) <=>
                 x = e \/ \E i \in 1 .. k : x = Entry(at, b, i)
    <3>1. \A i \in 1 .. (k + 1) : i \in 1 .. k \/ i = k + 1
      OBVIOUS
    <3>2. k + 1 \in 1 .. (k + 1) /\ \A i \in 1 .. k : i \in 1 .. (k + 1)
      OBVIOUS
    <3> QED BY <2>2, <3>1, <3>2
  <2>8. Holds(Inserted(q, e), s, at, b, k + 1)
    <3> SUFFICES ASSUME NEW x
                 PROVE  (\E n \in DOMAIN Inserted(q, e) : Inserted(q, e)[n] = x) <=>
                          \/ \E n \in DOMAIN s : s[n] = x
                          \/ \E i \in 1 .. (k + 1) : x = Entry(at, b, i)
      BY DEF Holds
    <3>1. (\E n \in DOMAIN q : q[n] = x) <=>
            \/ \E n \in DOMAIN s : s[n] = x
            \/ \E i \in 1 .. k : x = Entry(at, b, i)
      BY <2>3 DEF Holds
    <3>2. (\E n \in DOMAIN Inserted(q, e) : Inserted(q, e)[n] = x) <=>
            x = e \/ \E n \in DOMAIN q : q[n] = x
      BY <2>6
    <3> QED BY <2>7, <3>1, <3>2
  <2> QED BY <2>4, <2>6, <2>8
<1>10. N \in S
  <2> HIDE DEF S
  <2> QED BY <1>2, <1>8, <1>9, SetInduction
<1>11. Good(N)
  BY <1>2, <1>10
<1> QED BY <1>1, <1>11 DEF N

-----------------------------------------------------------------------------
(* Pages.                                                                  *)

\* Division with remainder by a positive number.
LEMMA Division ==
  ASSUME NEW a \in Int, NEW P \in Nat \ {0}
  PROVE  /\ a \div P \in Int /\ a % P \in 0 .. (P - 1)
         /\ a = P * (a \div P) + (a % P)
BY SMT

\* A multiple leaves no remainder.
LEMMA MultipleModulo ==
  ASSUME NEW q \in Int, NEW P \in Nat \ {0}
  PROVE  (P * q) % P = 0
BY SMT

\* Rounding down to a multiple keeps the order.
LEMMA QuotientMonotonic ==
  ASSUME NEW P \in Nat \ {0}, NEW q \in Int, NEW r \in Int, NEW m \in 0 .. (P - 1),
         NEW n \in 0 .. (P - 1), P * q + m <= P * r + n
  PROVE  P * q <= P * r
<1>1. q <= r
  BY SMT
<1> QED BY <1>1, SMT

\* The page of an address is a page, and pages are in the order of the addresses.
LEMMA PageFacts ==
  ASSUME NEW a \in Int
  PROVE  /\ PageOf(a) \in Int /\ PageOf(a) <= a /\ PageOf(a) % PAGE = 0
         /\ a % PAGE = 0 => PageOf(a) = a
         /\ \A b \in Int : a <= b => PageOf(a) <= PageOf(b)
<1>1. PAGE \in Nat \ {0}
  BY HostFaultsAssumption
<1>2. \A b \in Int : PageOf(b) = PAGE * (b \div PAGE) /\ b \div PAGE \in Int
  BY <1>1, Division DEF PageOf
<1>3. \A b \in Int : PageOf(b) \in Int /\ PageOf(b) <= b /\ (b % PAGE = 0 => PageOf(b) = b)
  <2>1. TAKE b \in Int
  <2>2. b % PAGE \in 0 .. (PAGE - 1)
    BY <1>1, Division
  <2>3. PageOf(b) = b - (b % PAGE)
    BY DEF PageOf
  <2> HIDE DEF PageOf
  <2> QED BY <1>1, <2>2, <2>3
<1>4. PageOf(a) % PAGE = 0
  BY <1>1, <1>2, MultipleModulo
<1>5. ASSUME NEW b \in Int, a <= b PROVE PageOf(a) <= PageOf(b)
  <2>1. PAGE * (a \div PAGE) + (a % PAGE) <= PAGE * (b \div PAGE) + (b % PAGE)
    BY <1>1, <1>5, Division
  <2>2. PAGE * (a \div PAGE) <= PAGE * (b \div PAGE)
    BY <1>1, <2>1, Division, QuotientMonotonic
  <2> QED BY <1>2, <2>2
<1> QED BY <1>3, <1>4, <1>5

\* Every byte of a range lies in one of its pages, a range has a page, and a range that
\* begins with a page has that one.
LEMMA PagesFacts ==
  ASSUME NEW a \in Nat, NEW n \in Nat \ {0}
  PROVE  /\ \A b \in a .. (a + n - 1) : PageOf(b) \in PagesOf(a, n)
         /\ a % PAGE = 0 => a \in PagesOf(a, n)
<1>1. ASSUME NEW b \in a .. (a + n - 1) PROVE PageOf(b) \in PagesOf(a, n)
  <2>1. a \in Int /\ b \in Int /\ a + n - 1 \in Int /\ a <= b /\ b <= a + n - 1
    OBVIOUS
  <2>2. PageOf(a) <= PageOf(b) /\ PageOf(b) <= PageOf(a + n - 1) /\ PageOf(b) % PAGE = 0
        /\ PageOf(b) \in Int /\ PageOf(a) \in Int /\ PageOf(a + n - 1) \in Int
    BY <2>1, PageFacts
  <2> QED BY <2>2 DEF PagesOf
<1>2. a \in a .. (a + n - 1) /\ a \in Int
  OBVIOUS
<1>3. a % PAGE = 0 => PageOf(a) = a
  BY <1>2, PageFacts
<1> QED BY <1>1, <1>2, <1>3

\* Two reserved tables begin at different addresses, which are no marks of a slot.
LEMMA TablesApart ==
  ASSUME TypeOK, RangesInv
  PROVE  /\ \A j \in Reserved : /\ table[j].at \in Nat \ {0, MAXADDR} /\ TableLen[j] \in Nat \ {0}
                                /\ table[j].at \in TablePages(j)
         /\ \A j, k \in Reserved : table[j].at = table[k].at => j = k
<1>1. ASSUME NEW j \in Reserved
      PROVE  /\ table[j].at \in Nat \ {0, MAXADDR} /\ TableLen[j] \in Nat \ {0}
             /\ table[j].at \in TablePages(j)
  <2>1. j \in Tabled /\ table[j].at \in TableBases
    BY <1>1 DEF Reserved, RangesInv
  <2>2. /\ table[j].at \in Nat /\ table[j].at > 0 /\ table[j].at < MAXADDR
        /\ table[j].at % PAGE = 0 /\ TableLen[j] \in Nat \ {0}
    BY <2>1, HostFaultsAssumption
  <2>3. table[j].at \in TablePages(j)
    BY <2>2, PagesFacts DEF TablePages
  <2> QED BY <2>2, <2>3 DEF MAXADDR
<1>2. ASSUME NEW j \in Reserved, NEW k \in Reserved, table[j].at = table[k].at, j # k
      PROVE  FALSE
  <2>1. TablePages(j) \cap TablePages(k) = {}
    BY <1>2 DEF RangesInv
  <2> QED BY <1>1, <1>2, <2>1
<1> QED BY <1>1, <1>2
-----------------------------------------------------------------------------
(* Frames of the stacks.                                                   *)

\* A Jit has direct accesses or a table, never both, and is never NONE.
LEMMA JitFacts ==
  /\ \A j \in Direct : j \in Jit /\ j \notin Tabled /\ j # NONE
  /\ \A j \in Tabled : j \in Jit /\ j \notin Direct /\ j # NONE
BY HostFaultsAssumption DEF Jit

\* The innermost run of a thread that has one.
LEMMA TopFacts ==
  ASSUME Inductive, NEW t \in Thread, stack[t] # <<>>
  PROVE  /\ stack[t] \in Seq(Frame) /\ Len(stack[t]) \in Nat \ {0}
         /\ Len(stack[t]) \in DOMAIN stack[t] /\ DOMAIN stack[t] = 1 .. Len(stack[t])
         /\ Top(t) = stack[t][Len(stack[t])] /\ Top(t) \in Frame /\ RunInv(Top(t))
<1>1. stack[t] \in Seq(Frame)
  BY DEF Inductive, TypeOK
<1>2. Len(stack[t]) \in Nat \ {0} /\ DOMAIN stack[t] = 1 .. Len(stack[t])
  BY <1>1, EmptySeq, LenProperties
<1>3. Len(stack[t]) \in DOMAIN stack[t] /\ stack[t][Len(stack[t])] \in Frame
  BY <1>1, <1>2, ElementOfSeq
<1>4. RunInv(stack[t][Len(stack[t])])
  BY <1>3 DEF Inductive, RunsInv
<1> QED BY <1>1, <1>2, <1>3, <1>4 DEF Top

\* A step of one run changes nothing of the runs around it or of other threads.
LEMMA TopReplaced ==
  ASSUME Inductive, NEW t \in Thread, stack[t] # <<>>, NEW g \in Frame,
         stack' = [stack EXCEPT ![t][Len(stack[t])] = g]
  PROVE  /\ stack' \in [Thread -> Seq(Frame)]
         /\ \A u \in Thread : /\ Len(stack'[u]) = Len(stack[u])
                              /\ DOMAIN stack'[u] = DOMAIN stack[u]
                              /\ stack'[u] = <<>> <=> stack[u] = <<>>
         /\ \A u \in Thread \ {t} : stack'[u] = stack[u]
         /\ \A k \in DOMAIN stack[t] :
              stack'[t][k] = IF k = Len(stack[t]) THEN g ELSE stack[t][k]
<1> DEFINE n == Len(stack[t])
<1>1. stack \in [Thread -> Seq(Frame)]
  BY DEF Inductive, TypeOK
<1>2. stack[t] \in Seq(Frame) /\ n \in 1 .. Len(stack[t])
  BY TopFacts
<1>3. stack'[t] = [stack[t] EXCEPT ![n] = g] /\ \A u \in Thread \ {t} : stack'[u] = stack[u]
  BY <1>1
<1>4. /\ stack'[t] \in Seq(Frame) /\ Len(stack'[t]) = n
      /\ \A k \in 1 .. n : stack'[t][k] = IF k = n THEN g ELSE stack[t][k]
  BY <1>2, <1>3, ExceptSeq
<1>5. DOMAIN stack[t] = 1 .. n /\ DOMAIN stack'[t] = 1 .. n
  BY <1>2, <1>4, LenProperties
<1>6. stack'[t] # <<>>
  BY <1>2, <1>4
<1>7. stack' \in [Thread -> Seq(Frame)]
  BY <1>1, <1>3, <1>4
<1> QED BY <1>3, <1>4, <1>5, <1>6, <1>7

\* A step of a run keeps what is published and the invariant of every run if the run it
\* makes is well placed and the others still are.
LEMMA FrameStep ==
  ASSUME Inductive, NEW t \in Thread, stack[t] # <<>>, NEW g \in Frame,
         stack' = [stack EXCEPT ![t][Len(stack[t])] = g], current' = current,
         g.jit = Top(t).jit, g.prev = Top(t).prev, RunInv(g)',
         \A f \in Frame : RunInv(f) => RunInv(f)'
  PROVE  stack' \in [Thread -> Seq(Frame)] /\ PublishedInv' /\ RunsInv'
<1>1. /\ stack' \in [Thread -> Seq(Frame)]
      /\ \A u \in Thread : /\ Len(stack'[u]) = Len(stack[u])
                           /\ DOMAIN stack'[u] = DOMAIN stack[u]
                           /\ stack'[u] = <<>> <=> stack[u] = <<>>
      /\ \A u \in Thread \ {t} : stack'[u] = stack[u]
      /\ \A k \in DOMAIN stack[t] :
           stack'[t][k] = IF k = Len(stack[t]) THEN g ELSE stack[t][k]
  BY TopReplaced
<1>2. stack[t][Len(stack[t])] = Top(t) /\ Len(stack[t]) \in DOMAIN stack[t]
  BY TopFacts
<1>3. \A u \in Thread : \A k \in DOMAIN stack[u] :
        /\ stack'[u][k].jit = stack[u][k].jit /\ stack'[u][k].prev = stack[u][k].prev
        /\ After(stack'[u][k]) = After(stack[u][k])
  BY <1>1, <1>2 DEF After
<1>4. PublishedInv'
  <2> SUFFICES ASSUME NEW u \in Thread
               PROVE  /\ current'[u] = IF stack'[u] = <<>> THEN NONE
                                       ELSE After(stack'[u][Len(stack'[u])])
                      /\ \A k \in DOMAIN stack'[u] : stack'[u][k].prev =
                           IF k = 1 THEN NONE ELSE After(stack'[u][k - 1])
    BY DEF PublishedInv, Top, After
  <2>1. /\ current[u] = IF stack[u] = <<>> THEN NONE ELSE After(stack[u][Len(stack[u])])
        /\ \A k \in DOMAIN stack[u] :
             stack[u][k].prev = IF k = 1 THEN NONE ELSE After(stack[u][k - 1])
    BY DEF Inductive, PublishedInv, Top
  <2>2. stack[u] # <<>> => Len(stack[u]) \in DOMAIN stack[u]
    BY TopFacts
  <2>3. DOMAIN stack[u] = 1 .. Len(stack[u]) /\ Len(stack[u]) \in Nat
    BY LenProperties DEF Inductive, TypeOK
  <2>4. \A k \in DOMAIN stack[u] : k # 1 => k - 1 \in DOMAIN stack[u]
    BY <2>3
  <2> QED BY <1>1, <1>3, <2>1, <2>2, <2>4
<1>5. RunsInv'
  <2> SUFFICES ASSUME NEW u \in Thread, NEW k \in DOMAIN stack[u]
               PROVE  RunInv(stack[u][k])'
    BY <1>1 DEF RunsInv
  <2>1. stack[u][k] \in Frame /\ RunInv(stack[u][k])
    BY LenProperties, ElementOfSeq DEF Inductive, TypeOK, RunsInv
  <2>2. \A f \in Frame : f = stack[u][k] => RunInv(f)'
    BY <2>1
  <2>3. stack'[u][k] = g \/ stack'[u][k] = stack[u][k]
    BY <1>1
  <2>4. \A f \in Frame : f = stack'[u][k] => RunInv(f)'
    BY <2>2, <2>3
  <2>5. stack'[u][k] \in Frame
    BY <2>1, <2>3
  <2> QED BY <2>4, <2>5 DEF RunInv, DirectRun, TableRun, Describes
<1> QED BY <1>1, <1>4, <1>5
-----------------------------------------------------------------------------
(* Tables and slots.                                                       *)

\* Steps that only commit pages keep everything about tables and slots.
LEMMA TablesKept ==
  ASSUME Inductive, UNCHANGED <<table, base, len, embed>>, pages \subseteq pages'
  PROVE  RangesInv' /\ OperationsInv' /\ SlotsInv' /\ SlotsExact'
<1>1. RangesInv' /\ OperationsInv' /\ SlotsInv'
  BY DEF Inductive, RangesInv, OperationsInv, OperationInv, SlotsInv, SlotInv, Reserved, TablePages
<1>2. SlotsExact'
  BY DEF Inductive, SlotsExact, TablePages
<1> QED BY <1>1, <1>2

\* A run keeps its place when its registry and its table are as they were.
LEMMA RunKept ==
  ASSUME UNCHANGED <<sites, table, base, len>>, NEW f, RunInv(f)
  PROVE  RunInv(f)'
BY DEF RunInv, DirectRun, TableRun, Describes

\* Steps that leave the runs alone keep them well placed if the registries of the running
\* Jits, their tables and the slots of those are as they were.
LEMMA RunsKept ==
  ASSUME Inductive, UNCHANGED <<stack, current>>,
         \A f \in Frame : f.jit \in Direct /\ Running(f.jit) => sites'[f.jit] = sites[f.jit],
         \A f \in Frame : f.jit \in Tabled /\ Running(f.jit) => table'[f.jit] = table[f.jit],
         \A j \in Tabled : Running(j) => \A s \in Slot : Describes(s, j) => Describes(s, j)'
  PROVE  PublishedInv' /\ RunsInv'
<1>1. PublishedInv'
  BY DEF Inductive, PublishedInv, Top, After
<1>2. RunsInv'
  <2> SUFFICES ASSUME NEW u \in Thread, NEW k \in DOMAIN stack[u]
               PROVE  RunInv(stack[u][k])'
    BY DEF RunsInv
  <2> DEFINE f == stack[u][k]
  <2>1. f \in Frame /\ RunInv(f)
    BY LenProperties, ElementOfSeq DEF Inductive, TypeOK, RunsInv
  <2>2. Running(f.jit)
    BY DEF Running
  <2>3. f' = f
    OBVIOUS
  <2>4. f.jit \in Direct => DirectRun(f)'
    <3> SUFFICES ASSUME f.jit \in Direct PROVE DirectRun(f)'
      OBVIOUS
    <3>1. sites'[f.jit] = sites[f.jit]
      BY <2>1, <2>2
    <3> QED BY <2>1, <2>3, <3>1 DEF RunInv, DirectRun
  <2>5. f.jit \in Tabled => TableRun(f)'
    <3> SUFFICES ASSUME f.jit \in Tabled PROVE TableRun(f)'
      OBVIOUS
    <3>1. table'[f.jit] = table[f.jit]
      BY <2>1, <2>2
    <3>2. \A s \in Slot : Describes(s, f.jit) => Describes(s, f.jit)'
      BY <2>2
    <3>3. TableRun(f)
      BY <2>1 DEF RunInv
    <3> QED BY <2>3, <3>1, <3>2, <3>3 DEF TableRun
  <2> QED BY <2>3, <2>4, <2>5 DEF RunInv
<1> QED BY <1>1, <1>2

\* A running Jit with a table has it in use, so no operation is under way on it.
LEMMA RunningReady ==
  ASSUME Inductive, NEW j \in Tabled, Running(j)
  PROVE  table[j].ready /\ \A t \in Thread : embed[t].jit # j
<1>1. PICK t \in Thread : \E k \in DOMAIN stack[t] : stack[t][k].jit = j
  BY DEF Running
<1>2. table[j].ready
  BY <1>1 DEF Inductive, RunsInv, RunInv, TableRun
<1>3. ASSUME NEW u \in Thread, embed[u].jit = j PROVE FALSE
  <2>1. OperationInv(u)
    BY DEF Inductive, OperationsInv
  <2>2. embed[u].op # "none"
    BY <2>1, <1>3, JitFacts DEF OperationInv, Idle
  <2> QED BY <1>2, <1>3, <2>1, <2>2 DEF OperationInv
<1> QED BY <1>2, <1>3

\* The slot an operation fills or empties describes no table in use, and no slot describes
\* a table that is being reserved.
LEMMA SlotFacts ==
  ASSUME Inductive
  PROVE  /\ \A s \in Slot : base[s] = 0 \/ base[s] = MAXADDR =>
              \A j \in Reserved : base[s] # table[j].at
         /\ \A t \in Thread : embed[t].op \in {"claim", "length", "publish"} =>
              \A s \in Slot : base[s] # embed[t].at
<1>1. TypeOK /\ RangesInv
  BY DEF Inductive
<1>2. \A s \in Slot : base[s] = 0 \/ base[s] = MAXADDR =>
        \A j \in Reserved : base[s] # table[j].at
  BY <1>1, TablesApart
<1>3. ASSUME NEW t \in Thread, embed[t].op \in {"claim", "length", "publish"},
             NEW s \in Slot, base[s] = embed[t].at
      PROVE  FALSE
  <2> DEFINE e == embed[t]
  <2>1. OperationInv(t) /\ SlotInv(s)
    BY DEF Inductive, OperationsInv, SlotsInv
  <2>2. /\ e.jit \in Reserved /\ table[e.jit].at = e.at /\ ~table[e.jit].ready
        /\ \A u \in Thread \ {t} : embed[u].jit # e.jit
    <3>1. e.op # "none"
      BY <1>3
    <3>2. /\ e.jit \in Tabled /\ table[e.jit].at = e.at /\ ~table[e.jit].ready
          /\ \A u \in Thread \ {t} : embed[u].jit # e.jit /\ e.at \in TableBases
      BY <2>1, <3>1 DEF OperationInv
    <3>3. e.at # NONE
      BY <2>1, <3>1, HostFaultsAssumption DEF OperationInv, NONE
    <3> QED BY <3>2, <3>3 DEF Reserved
  <2>3. base[s] \notin {0, MAXADDR}
    BY <1>1, <1>3, <2>2, TablesApart
  <2>4. PICK j \in Tabled : /\ table[j].at = base[s]
                            /\ table[j].ready \/ \E u \in Thread : embed[u].jit = j
                                                   /\ embed[u].op \in Releasing
    BY <2>1, <2>3 DEF SlotInv
  <2>5. j = e.jit
    <3>1. j \in Reserved
      BY <2>3, <2>4 DEF Reserved, NONE
    <3> QED BY <1>1, <1>3, <2>2, <2>4, <3>1, TablesApart
  <2>6. PICK u \in Thread : embed[u].jit = j /\ embed[u].op \in Releasing
    BY <2>2, <2>4, <2>5
  <2>7. u = t
    BY <2>2, <2>5, <2>6
  <2> QED BY <1>3, <2>6, <2>7 DEF Releasing
<1> QED BY <1>2, <1>3

\* A table in use is a reserved one; its address marks no slot as free or being filled.
LEMMA ReadyFacts ==
  ASSUME Inductive, NEW j \in Tabled, table[j].ready
  PROVE  j \in Reserved /\ table[j].at \in Nat \ {0, MAXADDR}
<1>1. j \in Reserved
  BY DEF Inductive, RangesInv, Reserved
<1> QED BY <1>1, TablesApart DEF Inductive

\* What a thread in an operation on a table may rely on.
LEMMA OperationFacts ==
  ASSUME Inductive, NEW t \in Thread, embed[t].op # "none"
  PROVE  /\ embed[t] \in Operation /\ embed[t].jit \in Reserved /\ embed[t].slot >= 1
         /\ table[embed[t].jit].at = embed[t].at /\ ~table[embed[t].jit].ready
         /\ embed[t].at \in Nat \ {0, MAXADDR} /\ embed[t].at \in TableBases
         /\ \A u \in Thread \ {t} : embed[u].jit # embed[t].jit
         /\ \A j \in Reserved : j # embed[t].jit => table[j].at # embed[t].at
         /\ ~Running(embed[t].jit)
         /\ embed[t].op \in Filling =>
              /\ embed[t].slot \in Slot /\ base[embed[t].slot] = MAXADDR
              /\ \A u \in Thread \ {t} : embed[u].op \in Filling => embed[u].slot # embed[t].slot
<1>1. OperationInv(t) /\ TypeOK /\ RangesInv
  BY DEF Inductive, OperationsInv
<1>2. embed[t] \in Operation
  BY <1>1 DEF TypeOK
<1>3. /\ embed[t].jit \in Tabled /\ table[embed[t].jit].at = embed[t].at
      /\ ~table[embed[t].jit].ready /\ embed[t].at \in TableBases /\ embed[t].slot >= 1
      /\ \A u \in Thread \ {t} : embed[u].jit # embed[t].jit
      /\ embed[t].op \in Filling =>
           /\ embed[t].slot \in Slot /\ base[embed[t].slot] = MAXADDR
           /\ \A u \in Thread \ {t} : embed[u].op \in Filling => embed[u].slot # embed[t].slot
  BY <1>1 DEF OperationInv
<1>4. embed[t].jit \in Reserved
  BY <1>3, HostFaultsAssumption DEF Reserved, NONE
<1>5. embed[t].at \in Nat \ {0, MAXADDR}
  BY <1>1, <1>3, <1>4, TablesApart
<1>6. \A j \in Reserved : j # embed[t].jit => table[j].at # embed[t].at
  BY <1>1, <1>3, <1>4, TablesApart
<1>7. ~Running(embed[t].jit)
  BY <1>3, RunningReady
<1> QED BY <1>2, <1>3, <1>4, <1>5, <1>6, <1>7

\* The description of a table survives a step on a slot that never described it.
LEMMA DescribesKept ==
  ASSUME NEW j \in Tabled, table'[j].at = table[j].at, NEW s0,
         s0 \in Slot => base[s0] # table[j].at /\ base'[s0] # table[j].at,
         \A s \in Slot \ {s0} : base'[s] = base[s] /\ len'[s] = len[s]
  PROVE  \A s \in Slot : Describes(s, j) => Describes(s, j)'
BY DEF Describes

\* The operations of the other threads are kept by a step that leaves their tables and
\* their slots alone.
LEMMA OperationsStep ==
  ASSUME Inductive, NEW t \in Thread, OperationInv(t)',
         \A u \in Thread \ {t} :
           /\ embed'[u] = embed[u]
           /\ embed[u].jit \in Tabled => /\ embed'[t].jit # embed[u].jit
                                         /\ table'[embed[u].jit] = table[embed[u].jit]
           /\ embed[u].op \in Filling =>
                /\ base'[embed[u].slot] = base[embed[u].slot]
                /\ len'[embed[u].slot] = len[embed[u].slot]
                /\ embed'[t].op \in Filling => embed'[t].slot # embed[u].slot
  PROVE  OperationsInv'
<1> SUFFICES ASSUME NEW u \in Thread \ {t} PROVE OperationInv(u)'
  BY DEF OperationsInv
<1>1. OperationInv(u)
  BY DEF Inductive, OperationsInv
<1>2. embed[u].op = "publish" => embed[u].op \in Filling
  BY DEF Filling
<1> QED BY <1>1, <1>2 DEF OperationInv

\* A step that touches, of tables not being run, j0 only and, of slots that describe no other
\* table, s0 only; if j0 is in use after the step, it is committed or described.
Touches(j0, s0) ==
  /\ UNCHANGED <<direct, stack>> /\ ~Running(j0)
  /\ \A j \in Tabled \ {j0} :
       /\ table'[j] = table[j]
       /\ table[j].ready => /\ s0 \in Slot => base[s0] # table[j].at /\ base'[s0] # table[j].at
                            /\ TablePages(j) \subseteq pages => TablePages(j) \subseteq pages'
  /\ \A s \in Slot \ {s0} : base'[s] = base[s] /\ len'[s] = len[s]
  /\ table'[j0].ready => TablePages(j0)' \subseteq pages' \/ \E s \in Slot : Describes(s, j0)'

\* What remains to be shown of such a step.
LEMMA TableStep ==
  ASSUME Inductive, TypeOK', NEW j0 \in Tabled, NEW s0, Touches(j0, s0),
         RangesInv', OperationsInv', SlotsInv'
  PROVE  Inductive'
<1>0. /\ UNCHANGED <<direct, stack>> /\ ~Running(j0)
      /\ \A j \in Tabled \ {j0} :
           /\ table'[j] = table[j]
           /\ table[j].ready => /\ s0 \in Slot => base[s0] # table[j].at /\ base'[s0] # table[j].at
                                /\ TablePages(j) \subseteq pages => TablePages(j) \subseteq pages'
      /\ \A s \in Slot \ {s0} : base'[s] = base[s] /\ len'[s] = len[s]
      /\ table'[j0].ready => TablePages(j0)' \subseteq pages' \/ \E s \in Slot : Describes(s, j0)'
  BY DEF Touches
<1>1. RegistriesInv'
  BY <1>0 DEF Inductive, RegistriesInv, direct
<1>2. \A j \in Tabled \ {j0} : table[j].ready =>
        \A s \in Slot : Describes(s, j) => Describes(s, j)'
  BY <1>0, DescribesKept
<1>3. PublishedInv' /\ RunsInv'
  <2>1. \A j \in Tabled : Running(j) =>
          table'[j] = table[j] /\ \A s \in Slot : Describes(s, j) => Describes(s, j)'
    BY <1>0, <1>2, RunningReady
  <2>2. UNCHANGED <<stack, current, sites>>
    BY <1>0 DEF direct
  <2> QED BY <2>1, <2>2, RunsKept
<1>4. SlotsExact'
  <2> SUFFICES ASSUME NEW j \in Tabled, table'[j].ready
               PROVE  TablePages(j)' \subseteq pages' \/ \E s \in Slot : Describes(s, j)'
    BY DEF SlotsExact, Describes
  <2>1. CASE j = j0
    BY <1>0, <2>1
  <2>2. CASE j # j0
    <3>1. table'[j] = table[j] /\ table[j].ready
      BY <1>0, <2>2
    <3>2. TablePages(j) \subseteq pages \/ \E s \in Slot : Describes(s, j)
      BY <3>1 DEF Inductive, SlotsExact, Describes
    <3>3. TablePages(j)' = TablePages(j)
      BY <3>1 DEF TablePages
    <3> QED BY <1>0, <1>2, <2>2, <3>1, <3>2, <3>3
  <2> QED BY <2>1, <2>2
<1> QED BY <1>1, <1>3, <1>4 DEF Inductive

\* reserve is handed a range of its own.
LEMMA ReserveInv ==
  ASSUME Inductive, NEW t \in Thread, NEW j \in Tabled, Reserve(t, j)
  PROVE  Inductive'
<1>1. PICK a \in TableBases :
        /\ \A q \in Reserved : PagesOf(a, TableLen[j]) \cap TablePages(q) = {}
        /\ table' = [table EXCEPT ![j] = [at |-> a, ready |-> FALSE]]
        /\ embed' = [embed EXCEPT ![t] = [op |-> "claim", jit |-> j, at |-> a, slot |-> 1]]
  BY DEF Reserve
<1>2. /\ embed[t] = Idle /\ ~Running(j) /\ table[j] = NoTable
      /\ \A u \in Thread : embed[u].jit # j
      /\ UNCHANGED <<direct, stack, mapped, pages, base, len, uses>>
  BY DEF Reserve, Outside
<1>3. a \in Nat \ {0, MAXADDR}
  BY HostFaultsAssumption DEF MAXADDR
<1>4. TypeOK'
  <2>1. table' \in [Tabled -> Reservation]
    BY <1>1, <1>3 DEF Inductive, TypeOK, Reservation
  <2>2. [op |-> "claim", jit |-> j, at |-> a, slot |-> 1] \in Operation
    BY <1>3 DEF Operation
  <2>3. embed' \in [Thread -> Operation]
    BY <1>1, <2>2 DEF Inductive, TypeOK
  <2> QED BY <1>2, <2>1, <2>3 DEF Inductive, TypeOK, direct
<1>5. /\ table'[j] = [at |-> a, ready |-> FALSE] /\ \A q \in Tabled \ {j} : table'[q] = table[q]
      /\ embed'[t] = [op |-> "claim", jit |-> j, at |-> a, slot |-> 1]
      /\ \A u \in Thread \ {t} : embed'[u] = embed[u]
  BY <1>1 DEF Inductive, TypeOK
<1>6. table[j].at = 0 /\ ~table[j].ready
  BY <1>2 DEF NoTable, NONE
<1>7. RangesInv'
  <2>1. Reserved' = Reserved \cup {j} /\ j \notin Reserved
    BY <1>3, <1>5, <1>6 DEF Reserved, NONE
  <2>2. TablePages(j)' = PagesOf(a, TableLen[j]) /\ \A q \in Reserved : TablePages(q)' = TablePages(q)
    BY <1>5, <2>1 DEF TablePages, Reserved
  <2>3. \A q, r \in Reserved' : q # r => TablePages(q)' \cap TablePages(r)' = {}
    BY <1>1, <2>1, <2>2 DEF Inductive, RangesInv
  <2>4. \A q \in Tabled : /\ table'[q].at # NONE => table'[q].at \in TableBases
                          /\ table'[q].ready => table'[q].at # NONE
    BY <1>5 DEF Inductive, RangesInv
  <2> QED BY <2>3, <2>4 DEF RangesInv, TablePages
<1>8. OperationsInv'
  <2>1. OperationInv(t)'
    BY <1>2, <1>5 DEF OperationInv, Filling
  <2> QED BY <1>2, <1>5, <2>1, OperationsStep DEF Filling
<1>9. SlotsInv'
  <2> SUFFICES ASSUME NEW s \in Slot, base[s] \notin {0, MAXADDR} PROVE SlotInv(s)'
    BY <1>2 DEF SlotsInv, SlotInv
  <2>1. PICK q \in Tabled : /\ table[q].at = base[s]
                            /\ table[q].ready \/ \E u \in Thread :
                                 /\ embed[u].jit = q /\ embed[u].op \in Releasing
                                 /\ embed[u].slot <= s /\ (embed[u].op # "drop" => embed[u].slot < s)
    BY DEF Inductive, SlotsInv, SlotInv
  <2>2. q # j /\ table'[q] = table[q]
    BY <1>5, <1>6, <2>1
  <2>3. \A u \in Thread : embed[u].op \in Releasing => embed'[u] = embed[u]
    BY <1>2, <1>5 DEF Releasing, Idle
  <2> QED BY <1>2, <2>1, <2>2, <2>3 DEF SlotInv
<1>10. Touches(j, NONE)
  BY <1>2, <1>5, <1>6 DEF Touches, Slot, NONE
<1> QED BY <1>4, <1>7, <1>8, <1>9, <1>10, TableStep

\* Nothing is reserved or given back.
LEMMA RangesKept ==
  ASSUME RangesInv, \A j \in Tabled : /\ table'[j].at = table[j].at
                                      /\ table'[j].ready => j \in Reserved
  PROVE  RangesInv'
<1>1. Reserved' = Reserved
  BY DEF Reserved
<1>2. \A j \in Reserved : TablePages(j)' = TablePages(j)
  BY DEF TablePages, Reserved
<1>3. \A j, k \in Reserved' : j # k => TablePages(j)' \cap TablePages(k)' = {}
  BY <1>1, <1>2 DEF RangesInv
<1>4. \A j \in Tabled : /\ table'[j].at # NONE => table'[j].at \in TableBases
                        /\ table'[j].ready => table'[j].at # NONE
  BY DEF RangesInv, Reserved
<1> QED BY <1>3, <1>4 DEF RangesInv, TablePages

\* The reservation of t takes a step: the other operations keep their tables, and a slot
\* that describes a table does so after the step.
LEMMA ReserveStepSlots ==
  ASSUME Inductive, NEW t \in Thread, embed[t].op \in {"claim", "length", "publish"},
         \A u \in Thread \ {t} : embed'[u] = embed[u],
         \A j \in Tabled : table'[j].at = table[j].at /\ (table[j].ready => table'[j].ready),
         NEW s \in Slot, base'[s] = base[s]
  PROVE  SlotInv(s)'
<1> SUFFICES ASSUME base[s] \notin {0, MAXADDR} PROVE SlotInv(s)'
  BY DEF SlotInv
<1>1. PICK j \in Tabled :
        /\ table[j].at = base[s]
        /\ table[j].ready \/ \E u \in Thread :
             /\ embed[u].jit = j /\ embed[u].op \in Releasing
             /\ embed[u].slot <= s /\ (embed[u].op # "drop" => embed[u].slot < s)
  BY DEF Inductive, SlotsInv, SlotInv
<1>2. \A u \in Thread : embed[u].op \in Releasing => u # t
  BY DEF Releasing
<1> QED BY <1>1, <1>2 DEF SlotInv

\* Every step of page_table.rs `reserve` keeps the invariant.
LEMMA ReserveStepInv ==
  ASSUME Inductive, NEW t \in Thread, ReserveStep(t)
  PROVE  Inductive'
<1>0. PICK e : e = embed[t]
  OBVIOUS
<1> USE <1>0
<1> DEFINE j == e.jit
<1>1. /\ e \in Operation /\ e.op \in {"claim", "length", "publish"}
      /\ UNCHANGED <<direct, stack, mapped, uses>>
  BY DEF ReserveStep, Inductive, TypeOK
<1>2. /\ j \in Reserved /\ j \in Tabled /\ e.slot >= 1 /\ e.slot \in Nat
      /\ table[j].at = e.at /\ ~table[j].ready
      /\ e.at \in Nat \ {0, MAXADDR} /\ e.at \in TableBases
      /\ \A u \in Thread \ {t} : embed[u].jit # j
      /\ \A q \in Reserved : q # j => table[q].at # e.at
      /\ ~Running(j)
  BY <1>1, OperationFacts DEF Reserved, Operation
<1>3. e.op \in Filling =>
        /\ e.slot \in Slot /\ base[e.slot] = MAXADDR
        /\ \A u \in Thread \ {t} : embed[u].op \in Filling => embed[u].slot # e.slot
  BY <1>1, OperationFacts
<1>4. OperationInv(t) /\ TypeOK /\ RangesInv
  BY DEF Inductive, OperationsInv
<1>5. \A q \in Tabled : table[q].ready => /\ q \in Reserved /\ table[q].at \in Nat \ {0, MAXADDR}
                                          /\ q # j /\ table[q].at # e.at
  BY <1>2, ReadyFacts
<1>6. \A u \in Thread : embed[u].op \in Filling =>
        embed[u].slot \in Slot /\ base[embed[u].slot] = MAXADDR
  BY OperationFacts DEF Filling
<1>7. MAXADDR # 0 /\ MAXADDR \in Nat
  BY DEF MAXADDR
<1>8. CASE /\ e.op = "claim" /\ e.slot \in Slot /\ base[e.slot] = 0
           /\ base' = [base EXCEPT ![e.slot] = MAXADDR]
           /\ embed' = [embed EXCEPT ![t].op = "length"]
           /\ UNCHANGED <<len, pages, table>>
  <2>1. /\ embed'[t] = [e EXCEPT !.op = "length"] /\ \A u \in Thread \ {t} : embed'[u] = embed[u]
        /\ base'[e.slot] = MAXADDR /\ \A s \in Slot \ {e.slot} : base'[s] = base[s]
    BY <1>4, <1>8 DEF TypeOK
  <2>2. TypeOK'
    <3>1. embed'[t] \in Operation
      BY <1>1, <2>1 DEF Operation, Filling
    <3> QED BY <1>1, <1>4, <1>7, <1>8, <3>1 DEF TypeOK, direct
  <2>3. RangesInv'
    BY <1>4, <1>8 DEF RangesInv, Reserved, TablePages
  <2>4. \A u \in Thread : embed[u].op \in Filling => embed[u].slot # e.slot
    BY <1>6, <1>7, <1>8
  <2>5. OperationInv(t)'
    BY <1>1, <1>2, <1>4, <1>8, <2>1, <2>4 DEF OperationInv, Filling, Operation
  <2>6. OperationsInv'
    BY <1>2, <1>6, <1>8, <2>1, <2>4, <2>5, OperationsStep DEF Operation
  <2>7. SlotsInv'
    <3>1. \A s \in Slot \ {e.slot} : SlotInv(s)'
      BY <1>1, <1>8, <2>1, ReserveStepSlots
    <3> QED BY <2>1, <3>1 DEF SlotsInv, SlotInv
  <2>8. Touches(j, e.slot)
    BY <1>1, <1>2, <1>5, <1>8, <2>1 DEF Touches
  <2> QED BY <1>2, <2>2, <2>3, <2>6, <2>7, <2>8, TableStep
<1>9. CASE /\ e.op = "claim" /\ e.slot \in Slot
           /\ embed' = [embed EXCEPT ![t].slot = @ + 1]
           /\ UNCHANGED <<base, len, pages, table>>
  <2>1. /\ embed'[t] = [e EXCEPT !.slot = e.slot + 1]
        /\ \A u \in Thread \ {t} : embed'[u] = embed[u]
    BY <1>4, <1>9 DEF TypeOK
  <2>2. TypeOK'
    <3>1. embed'[t] \in Operation
      BY <1>1, <1>2, <2>1 DEF Operation
    <3> QED BY <1>1, <1>4, <1>9, <3>1 DEF TypeOK, direct
  <2>3. RangesInv'
    BY <1>4, <1>9 DEF RangesInv, Reserved, TablePages
  <2>4. OperationInv(t)'
    BY <1>1, <1>2, <1>4, <1>9, <2>1 DEF OperationInv, Filling, Operation
  <2>5. OperationsInv'
    BY <1>1, <1>2, <1>9, <2>1, <2>4, OperationsStep DEF Operation, Filling
  <2>6. SlotsInv'
    BY <1>1, <1>9, <2>1, ReserveStepSlots DEF SlotsInv
  <2>7. Touches(j, NONE)
    BY <1>1, <1>2, <1>9 DEF Touches, Slot, NONE
  <2> QED BY <1>2, <2>2, <2>3, <2>5, <2>6, <2>7, TableStep
<1>10. CASE /\ e.op = "length"
            /\ len' = [len EXCEPT ![e.slot] = TableLen[e.jit]]
            /\ embed' = [embed EXCEPT ![t].op = "publish"]
            /\ UNCHANGED <<base, pages, table>>
  <2>0. e.op \in Filling
    BY <1>10 DEF Filling
  <2>1. /\ embed'[t] = [e EXCEPT !.op = "publish"] /\ \A u \in Thread \ {t} : embed'[u] = embed[u]
        /\ len'[e.slot] = TableLen[j] /\ \A s \in Slot \ {e.slot} : len'[s] = len[s]
    BY <1>3, <1>4, <1>10, <2>0 DEF TypeOK
  <2>2. TypeOK'
    <3>1. embed'[t] \in Operation
      BY <1>1, <2>1 DEF Operation, Filling
    <3>2. TableLen[j] \in Nat
      BY <1>2, HostFaultsAssumption
    <3> QED BY <1>1, <1>3, <1>4, <1>10, <2>0, <3>1, <3>2 DEF TypeOK, direct
  <2>3. RangesInv'
    BY <1>4, <1>10 DEF RangesInv, Reserved, TablePages
  <2>4. OperationInv(t)'
    BY <1>1, <1>2, <1>3, <1>4, <1>10, <2>0, <2>1 DEF OperationInv, Filling, Operation
  <2>5. OperationsInv'
    BY <1>2, <1>3, <1>6, <1>10, <2>0, <2>1, <2>4, OperationsStep DEF Operation
  <2>6. SlotsInv'
    BY <1>1, <1>10, <2>1, ReserveStepSlots DEF SlotsInv
  <2>7. Touches(j, e.slot)
    BY <1>1, <1>2, <1>3, <1>5, <1>10, <2>0, <2>1 DEF Touches
  <2> QED BY <1>2, <2>2, <2>3, <2>5, <2>6, <2>7, TableStep
<1>11. CASE /\ e.op = "publish"
            /\ base' = [base EXCEPT ![e.slot] = e.at]
            /\ table' = [table EXCEPT ![e.jit].ready = TRUE]
            /\ embed' = [embed EXCEPT ![t] = Idle]
            /\ UNCHANGED <<len, pages>>
  <2>0. e.op \in Filling
    BY <1>11 DEF Filling
  <2>1. /\ embed'[t] = Idle /\ \A u \in Thread \ {t} : embed'[u] = embed[u]
        /\ base'[e.slot] = e.at /\ \A s \in Slot \ {e.slot} : base'[s] = base[s]
        /\ table'[j].at = e.at /\ table'[j].ready
        /\ \A q \in Tabled \ {j} : table'[q] = table[q]
    BY <1>2, <1>3, <1>4, <1>11, <2>0 DEF TypeOK
  <2>2. TypeOK'
    <3>1. embed' \in [Thread -> Operation]
      BY <1>4, <1>11 DEF TypeOK, Operation, Idle, NONE
    <3>2. table' \in [Tabled -> Reservation]
      BY <1>4, <1>11 DEF TypeOK, Reservation
    <3> QED BY <1>1, <1>2, <1>3, <1>4, <1>11, <2>0, <3>1, <3>2 DEF TypeOK, direct
  <2>3. RangesInv'
    <3>1. \A q \in Tabled : table'[q].at = table[q].at
      BY <1>2, <2>1
    <3>2. \A q \in Tabled : table'[q].ready => q \in Reserved
      BY <1>2, <1>5, <2>1
    <3> QED BY <1>4, <3>1, <3>2, RangesKept
  <2>4. OperationInv(t)'
    BY <2>1 DEF OperationInv, Filling, Idle
  <2>5. OperationsInv'
    BY <1>2, <1>3, <1>6, <1>11, <2>0, <2>1, <2>4, JitFacts, OperationsStep DEF Operation, Idle, Filling
  <2>6. SlotsInv'
    <3>1. \A q \in Tabled : table'[q].at = table[q].at /\ (table[q].ready => table'[q].ready)
      BY <1>2, <2>1
    <3>2. \A s \in Slot \ {e.slot} : SlotInv(s)'
      BY <1>1, <2>1, <3>1, ReserveStepSlots
    <3>3. SlotInv(e.slot)'
      BY <1>2, <2>1 DEF SlotInv
    <3> QED BY <3>2, <3>3 DEF SlotsInv
  <2>7. Describes(e.slot, j)'
    <3>1. len'[e.slot] = TableLen[j]
      BY <1>4, <1>11 DEF OperationInv
    <3>2. \A s \in Slot \ {e.slot} : base'[s] # table'[j].at
      BY <1>1, <2>1, SlotFacts
    <3> QED BY <2>1, <3>1, <3>2 DEF Describes
  <2>8. Touches(j, e.slot)
    BY <1>1, <1>2, <1>3, <1>5, <1>11, <2>0, <2>1, <2>7 DEF Touches
  <2> QED BY <1>2, <2>2, <2>3, <2>5, <2>6, <2>8, TableStep
<1>12. CASE /\ e.op = "claim" /\ e.slot > SLOTS
            /\ pages' = pages \cup TablePages(e.jit)
            /\ table' = [table EXCEPT ![e.jit].ready = TRUE]
            /\ embed' = [embed EXCEPT ![t] = Idle]
            /\ UNCHANGED <<base, len>>
  <2>1. /\ embed'[t] = Idle /\ \A u \in Thread \ {t} : embed'[u] = embed[u]
        /\ table'[j].at = e.at /\ table'[j].ready
        /\ \A q \in Tabled \ {j} : table'[q] = table[q]
    BY <1>2, <1>4, <1>12 DEF TypeOK
  <2>2. TypeOK'
    <3>1. embed' \in [Thread -> Operation]
      BY <1>4, <1>12 DEF TypeOK, Operation, Idle, NONE
    <3>2. table' \in [Tabled -> Reservation]
      BY <1>4, <1>12 DEF TypeOK, Reservation
    <3> QED BY <1>1, <1>4, <1>12, <3>1, <3>2 DEF TypeOK, direct
  <2>3. \A q \in Tabled : table'[q].at = table[q].at
    BY <1>2, <2>1
  <2>4. RangesInv'
    <3>1. \A q \in Tabled : table'[q].ready => q \in Reserved
      BY <1>2, <1>5, <2>1
    <3> QED BY <1>4, <2>3, <3>1, RangesKept
  <2>5. OperationInv(t)'
    BY <2>1 DEF OperationInv, Filling, Idle
  <2>6. OperationsInv'
    BY <1>2, <1>12, <2>1, <2>5, JitFacts, OperationsStep DEF Idle, Filling
  <2>7. SlotsInv'
    BY <1>1, <1>2, <1>12, <2>1, <2>3, ReserveStepSlots DEF SlotsInv
  <2>8. Touches(j, NONE)
    <3>1. TablePages(j)' \subseteq pages'
      BY <1>2, <1>12, <2>1 DEF TablePages
    <3> QED BY <1>1, <1>2, <1>12, <2>1, <3>1 DEF Touches, Slot, NONE
  <2> QED BY <1>2, <2>2, <2>4, <2>6, <2>7, <2>8, TableStep
<1> QED BY <1>8, <1>9, <1>10, <1>11, <1>12 DEF ReserveStep, Claimable

\* A table is taken out of use before its slots are emptied.
LEMMA ReleaseInv ==
  ASSUME Inductive, NEW t \in Thread, NEW j \in Tabled, Release(t, j)
  PROVE  Inductive'
<1> DEFINE a == table[j].at
<1>1. /\ embed[t] = Idle /\ ~Running(j) /\ table[j].ready
      /\ table' = [table EXCEPT ![j].ready = FALSE]
      /\ embed' = [embed EXCEPT ![t] = [op |-> "drop", jit |-> j, at |-> a, slot |-> 1]]
      /\ UNCHANGED <<direct, stack, mapped, pages, base, len, uses>>
  BY DEF Release, Outside
<1>2. TypeOK /\ RangesInv
  BY DEF Inductive
<1>3. j \in Reserved /\ a \in Nat \ {0, MAXADDR} /\ a \in TableBases
  BY <1>1, <1>2, ReadyFacts DEF RangesInv, Reserved
<1>4. /\ table'[j].at = a /\ ~table'[j].ready /\ \A q \in Tabled \ {j} : table'[q] = table[q]
      /\ embed'[t] = [op |-> "drop", jit |-> j, at |-> a, slot |-> 1]
      /\ \A u \in Thread \ {t} : embed'[u] = embed[u]
  BY <1>1, <1>2 DEF TypeOK
<1>5. \A u \in Thread : embed[u].jit # j
  <2> SUFFICES ASSUME NEW u \in Thread, embed[u].jit = j PROVE FALSE
    OBVIOUS
  <2>1. embed[u].op # "none"
    BY JitFacts DEF Inductive, OperationsInv, OperationInv, Idle
  <2> QED BY <1>1, <2>1, OperationFacts
<1>6. TypeOK'
  <2>1. table' \in [Tabled -> Reservation]
    BY <1>1, <1>2 DEF TypeOK, Reservation
  <2>2. embed' \in [Thread -> Operation]
    BY <1>1, <1>2, <1>3 DEF TypeOK, Operation
  <2> QED BY <1>1, <1>2, <2>1, <2>2 DEF TypeOK, direct
<1>7. RangesInv'
  <2>1. \A q \in Tabled : table'[q].at = table[q].at /\ (table'[q].ready => q \in Reserved)
    BY <1>3, <1>4, ReadyFacts
  <2> QED BY <1>2, <2>1, RangesKept
<1>8. OperationsInv'
  <2>1. OperationInv(t)'
    BY <1>3, <1>4, <1>5 DEF OperationInv, Filling
  <2> QED BY <1>1, <1>4, <1>5, <2>1, OperationsStep DEF Filling
<1>9. SlotsInv'
  <2> SUFFICES ASSUME NEW s \in Slot, base[s] \notin {0, MAXADDR} PROVE SlotInv(s)'
    BY <1>1 DEF SlotsInv, SlotInv
  <2>1. PICK q \in Tabled : /\ table[q].at = base[s]
                            /\ table[q].ready \/ \E u \in Thread :
                                 /\ embed[u].jit = q /\ embed[u].op \in Releasing
                                 /\ embed[u].slot <= s /\ (embed[u].op # "drop" => embed[u].slot < s)
    BY DEF Inductive, SlotsInv, SlotInv
  <2>2. CASE q = j
    <3>1. 1 <= s
      BY DEF Slot
    <3> QED BY <1>1, <1>4, <2>1, <2>2, <3>1 DEF SlotInv, Releasing
  <2>3. CASE q # j
    <3>1. \A u \in Thread : embed[u].op \in Releasing => embed'[u] = embed[u]
      BY <1>1, <1>4 DEF Releasing, Idle
    <3> QED BY <1>1, <1>4, <2>1, <2>3, <3>1 DEF SlotInv
  <2> QED BY <2>2, <2>3
<1>10. Touches(j, NONE)
  BY <1>1, <1>4 DEF Touches, Slot, NONE
<1> QED BY <1>6, <1>7, <1>8, <1>9, <1>10, TableStep

\* The release of t goes on: a slot it has not reached still describes its table, and a slot
\* of another table is none of its business.
LEMMA ReleaseStepSlots ==
  ASSUME Inductive, NEW t \in Thread, NEW e, e = embed[t], e.op \in Releasing,
         \A u \in Thread \ {t} : embed'[u] = embed[u],
         \A j \in Tabled \ {e.jit} : table'[j] = table[j],
         NEW s \in Slot, base'[s] = base[s],
         base[s] = e.at =>
           /\ embed'[t].jit = e.jit /\ embed'[t].op \in Releasing /\ table'[e.jit].at = e.at
           /\ e.slot <= s /\ (e.op # "drop" => e.slot < s) =>
                embed'[t].slot <= s /\ (embed'[t].op # "drop" => embed'[t].slot < s)
  PROVE  SlotInv(s)'
<1> SUFFICES ASSUME base[s] \notin {0, MAXADDR} PROVE SlotInv(s)'
  BY DEF SlotInv
<1>1. PICK j \in Tabled :
        /\ table[j].at = base[s]
        /\ table[j].ready \/ \E u \in Thread :
             /\ embed[u].jit = j /\ embed[u].op \in Releasing
             /\ embed[u].slot <= s /\ (embed[u].op # "drop" => embed[u].slot < s)
  BY DEF Inductive, SlotsInv, SlotInv
<1>2. /\ \A u \in Thread \ {t} : embed[u].jit # e.jit
      /\ table[e.jit].at = e.at /\ ~table[e.jit].ready /\ e.jit \in Tabled
  BY OperationFacts DEF Releasing, Reserved
<1>3. CASE j = e.jit
  BY <1>1, <1>2, <1>3 DEF SlotInv
<1>4. CASE j # e.jit
  BY <1>1, <1>2, <1>4 DEF SlotInv
<1> QED BY <1>3, <1>4

\* Every step of page_table.rs `release` and `drop` keeps the invariant.
LEMMA ReleaseStepInv ==
  ASSUME Inductive, NEW t \in Thread, ReleaseStep(t)
  PROVE  Inductive'
<1>0. PICK e : e = embed[t]
  OBVIOUS
<1> USE <1>0
<1> DEFINE j == e.jit
<1>1. /\ e \in Operation /\ e.op \in Releasing /\ e.op # "none"
      /\ UNCHANGED <<direct, stack, mapped, uses>>
  BY DEF ReleaseStep, Inductive, TypeOK, Releasing
<1>2. /\ j \in Reserved /\ j \in Tabled /\ e.slot >= 1 /\ e.slot \in Nat
      /\ table[j].at = e.at /\ ~table[j].ready
      /\ e.at \in Nat \ {0, MAXADDR} /\ e.at \in TableBases
      /\ \A u \in Thread \ {t} : embed[u].jit # j
      /\ ~Running(j)
  BY <1>1, OperationFacts DEF Reserved, Operation
<1>3. e.op \in Filling =>
        /\ e.slot \in Slot /\ base[e.slot] = MAXADDR
        /\ \A u \in Thread \ {t} : embed[u].op \in Filling => embed[u].slot # e.slot
  BY <1>1, OperationFacts
<1>4. OperationInv(t) /\ TypeOK /\ RangesInv
  BY DEF Inductive, OperationsInv
<1>5. \A q \in Tabled : table[q].ready => /\ q \in Reserved /\ table[q].at \in Nat \ {0, MAXADDR}
                                          /\ q # j /\ table[q].at # e.at
  BY <1>1, <1>2, ReadyFacts, OperationFacts
<1>6. \A u \in Thread : embed[u].op \in Filling =>
        embed[u].slot \in Slot /\ base[embed[u].slot] = MAXADDR
  BY OperationFacts DEF Filling
<1>7. MAXADDR # 0 /\ MAXADDR \in Nat
  BY DEF MAXADDR
<1>8. CASE /\ e.op = "drop" /\ e.slot \in Slot /\ base[e.slot] = e.at
           /\ base' = [base EXCEPT ![e.slot] = MAXADDR]
           /\ embed' = [embed EXCEPT ![t].op = "unlength"]
           /\ UNCHANGED <<len, pages, table>>
  <2>1. /\ embed'[t] = [e EXCEPT !.op = "unlength"] /\ \A u \in Thread \ {t} : embed'[u] = embed[u]
        /\ base'[e.slot] = MAXADDR /\ \A s \in Slot \ {e.slot} : base'[s] = base[s]
    BY <1>4, <1>8 DEF TypeOK
  <2>2. TypeOK'
    <3>1. embed'[t] \in Operation
      BY <1>1, <2>1 DEF Operation, Filling
    <3> QED BY <1>1, <1>4, <1>7, <1>8, <3>1 DEF TypeOK, direct
  <2>3. RangesInv'
    BY <1>4, <1>8 DEF RangesInv, Reserved, TablePages
  <2>4. \A u \in Thread : embed[u].op \in Filling => embed[u].slot # e.slot
    BY <1>2, <1>6, <1>8
  <2>5. OperationInv(t)'
    BY <1>1, <1>2, <1>4, <1>8, <2>1, <2>4 DEF OperationInv, Filling, Operation
  <2>6. OperationsInv'
    BY <1>2, <1>6, <1>8, <2>1, <2>4, <2>5, OperationsStep DEF Operation
  <2>7. SlotsInv'
    <3>1. ASSUME NEW s \in Slot \ {e.slot} PROVE SlotInv(s)'
      <4>1. e.slot <= s => embed'[t].slot <= s /\ embed'[t].slot < s
        BY <1>2, <2>1 DEF Slot, Operation
      <4> QED BY <1>1, <1>2, <1>8, <2>1, <4>1, ReleaseStepSlots DEF Releasing, Operation
    <3> QED BY <2>1, <3>1 DEF SlotsInv, SlotInv
  <2>8. Touches(j, e.slot)
    BY <1>1, <1>2, <1>5, <1>8, <2>1 DEF Touches
  <2> QED BY <1>2, <2>2, <2>3, <2>6, <2>7, <2>8, TableStep
<1>9. CASE /\ e.op = "drop" /\ e.slot \in Slot /\ base[e.slot] # e.at
           /\ embed' = [embed EXCEPT ![t] = [e EXCEPT !.op = "drop", !.slot = e.slot + 1]]
           /\ UNCHANGED <<base, len, pages, table>>
  <2>1. /\ embed'[t] = [e EXCEPT !.op = "drop", !.slot = e.slot + 1]
        /\ \A u \in Thread \ {t} : embed'[u] = embed[u]
    BY <1>4, <1>9 DEF TypeOK
  <2>2. TypeOK'
    <3>0. e \in Operation /\ e.slot + 1 \in Nat
      BY <1>1, <1>2
    <3>1. embed'[t] \in Operation
      BY <2>1, <3>0 DEF Operation
    <3> QED BY <1>1, <1>4, <1>9, <2>1, <3>1 DEF TypeOK, direct
  <2>3. RangesInv'
    BY <1>4, <1>9 DEF RangesInv, Reserved, TablePages
  <2>4. OperationInv(t)'
    BY <1>1, <1>2, <1>4, <1>9, <2>1 DEF OperationInv, Filling, Operation
  <2>5. OperationsInv'
    BY <1>1, <1>2, <1>9, <2>1, <2>4, OperationsStep DEF Operation, Filling
  <2>6. SlotsInv'
    <3>1. ASSUME NEW s \in Slot PROVE SlotInv(s)'
      <4>1. base[s] = e.at /\ e.slot <= s => embed'[t].slot <= s
        BY <1>2, <1>9, <2>1 DEF Slot, Operation
      <4> QED BY <1>1, <1>2, <1>9, <2>1, <4>1, ReleaseStepSlots DEF Releasing, Operation
    <3> QED BY <3>1 DEF SlotsInv
  <2>7. Touches(j, NONE)
    BY <1>1, <1>2, <1>9 DEF Touches, Slot, NONE
  <2> QED BY <1>2, <2>2, <2>3, <2>5, <2>6, <2>7, TableStep
<1>10. CASE /\ e.op = "unlength"
            /\ len' = [len EXCEPT ![e.slot] = 0]
            /\ embed' = [embed EXCEPT ![t].op = "empty"]
            /\ UNCHANGED <<base, pages, table>>
  <2>0. e.op \in Filling
    BY <1>10 DEF Filling
  <2>1. /\ embed'[t] = [e EXCEPT !.op = "empty"] /\ \A u \in Thread \ {t} : embed'[u] = embed[u]
        /\ \A s \in Slot \ {e.slot} : len'[s] = len[s]
    BY <1>3, <1>4, <1>10, <2>0 DEF TypeOK
  <2>2. TypeOK'
    <3>1. embed'[t] \in Operation
      BY <1>1, <2>1 DEF Operation, Filling
    <3> QED BY <1>1, <1>3, <1>4, <1>10, <2>0, <3>1 DEF TypeOK, direct
  <2>3. RangesInv'
    BY <1>4, <1>10 DEF RangesInv, Reserved, TablePages
  <2>4. OperationInv(t)'
    BY <1>1, <1>2, <1>3, <1>4, <1>10, <2>0, <2>1 DEF OperationInv, Filling, Operation
  <2>5. OperationsInv'
    BY <1>2, <1>3, <1>6, <1>10, <2>0, <2>1, <2>4, OperationsStep DEF Operation
  <2>6. SlotsInv'
    BY <1>1, <1>2, <1>10, <2>1, ReleaseStepSlots DEF SlotsInv, Operation, Releasing
  <2>7. Touches(j, e.slot)
    BY <1>1, <1>2, <1>3, <1>5, <1>10, <2>0, <2>1 DEF Touches
  <2> QED BY <1>2, <2>2, <2>3, <2>5, <2>6, <2>7, TableStep
<1>11. CASE /\ e.op = "empty"
            /\ base' = [base EXCEPT ![e.slot] = 0]
            /\ embed' = [embed EXCEPT ![t] = [e EXCEPT !.op = "drop", !.slot = e.slot + 1]]
            /\ UNCHANGED <<len, pages, table>>
  <2>0. e.op \in Filling
    BY <1>11 DEF Filling
  <2>1. /\ embed'[t] = [e EXCEPT !.op = "drop", !.slot = e.slot + 1]
        /\ \A u \in Thread \ {t} : embed'[u] = embed[u]
        /\ base'[e.slot] = 0 /\ \A s \in Slot \ {e.slot} : base'[s] = base[s]
    BY <1>3, <1>4, <1>11, <2>0 DEF TypeOK
  <2>2. TypeOK'
    <3>0. e \in Operation /\ e.slot + 1 \in Nat
      BY <1>1, <1>2
    <3>1. embed'[t] \in Operation
      BY <2>1, <3>0 DEF Operation
    <3> QED BY <1>1, <1>4, <1>11, <2>1, <3>1 DEF TypeOK, direct
  <2>3. RangesInv'
    BY <1>4, <1>11 DEF RangesInv, Reserved, TablePages
  <2>4. OperationInv(t)'
    <3>1. /\ embed'[t].op = "drop" /\ embed'[t].jit = j /\ embed'[t].at = e.at
          /\ embed'[t].slot = e.slot + 1 /\ e.slot + 1 >= 1
      BY <1>1, <1>2, <2>1 DEF Operation
    <3>2. /\ table'[j].at = e.at /\ ~table'[j].ready
          /\ \A u \in Thread \ {t} : embed'[u].jit # j
      BY <1>2, <1>11, <2>1
    <3> QED BY <1>2, <3>1, <3>2 DEF OperationInv, Filling
  <2>5. OperationsInv'
    BY <1>2, <1>3, <1>6, <1>11, <2>0, <2>1, <2>4, OperationsStep DEF Operation, Filling
  <2>6. SlotsInv'
    <3>1. ASSUME NEW s \in Slot \ {e.slot} PROVE SlotInv(s)'
      <4>1. e.slot < s => embed'[t].slot <= s
        BY <1>2, <2>1 DEF Slot, Operation
      <4> QED BY <1>1, <1>2, <1>11, <2>1, <4>1, ReleaseStepSlots DEF Releasing, Operation
    <3> QED BY <2>1, <3>1 DEF SlotsInv, SlotInv
  <2>7. Touches(j, e.slot)
    BY <1>1, <1>2, <1>3, <1>5, <1>11, <2>0, <2>1 DEF Touches
  <2> QED BY <1>2, <2>2, <2>3, <2>5, <2>6, <2>7, TableStep
<1>12. CASE /\ e.op = "drop" /\ e.slot > SLOTS
            /\ pages' = pages \ TablePages(e.jit)
            /\ table' = [table EXCEPT ![e.jit] = NoTable]
            /\ embed' = [embed EXCEPT ![t] = Idle]
            /\ UNCHANGED <<base, len>>
  <2>1. /\ embed'[t] = Idle /\ \A u \in Thread \ {t} : embed'[u] = embed[u]
        /\ table'[j] = NoTable /\ \A q \in Tabled \ {j} : table'[q] = table[q]
    BY <1>2, <1>4, <1>12 DEF TypeOK
  <2>2. TypeOK'
    <3>1. embed' \in [Thread -> Operation]
      BY <1>4, <1>12 DEF TypeOK, Operation, Idle, NONE
    <3>2. table' \in [Tabled -> Reservation]
      BY <1>4, <1>12 DEF TypeOK, Reservation, NoTable, NONE
    <3> QED BY <1>1, <1>4, <1>12, <3>1, <3>2 DEF TypeOK, direct
  <2>3. RangesInv'
    <3>1. Reserved' = Reserved \ {j}
      BY <1>2, <2>1 DEF Reserved, NoTable
    <3>2. \A q \in Reserved \ {j} : TablePages(q)' = TablePages(q)
      BY <2>1 DEF TablePages, Reserved
    <3>3. \A q, r \in Reserved' : q # r => TablePages(q)' \cap TablePages(r)' = {}
      BY <1>4, <3>1, <3>2 DEF RangesInv
    <3>4. \A q \in Tabled : /\ table'[q].at # NONE => table'[q].at \in TableBases
                            /\ table'[q].ready => table'[q].at # NONE
      BY <1>4, <2>1 DEF RangesInv, NoTable
    <3> QED BY <3>3, <3>4 DEF RangesInv, TablePages
  <2>4. OperationInv(t)'
    BY <2>1 DEF OperationInv, Filling, Idle
  <2>5. OperationsInv'
    BY <1>2, <1>12, <2>1, <2>4, JitFacts, OperationsStep DEF Idle, Filling
  <2>6. SlotsInv'
    <3>1. ASSUME NEW s \in Slot PROVE SlotInv(s)'
      <4>1. base[s] # e.at
        <5> SUFFICES ASSUME base[s] = e.at PROVE FALSE
          OBVIOUS
        <5>1. PICK q \in Tabled : /\ table[q].at = base[s]
                                  /\ table[q].ready \/ \E u \in Thread :
                                       embed[u].jit = q /\ embed[u].slot <= s
          BY <1>2 DEF Inductive, SlotsInv, SlotInv
        <5>2. q = j
          BY <1>1, <1>2, <5>1, OperationFacts DEF Reserved
        <5>3. e.slot <= s
          BY <1>2, <5>1, <5>2
        <5> QED BY <1>2, <1>12, <5>3, HostFaultsAssumption DEF Slot
      <4> QED BY <1>1, <1>2, <1>12, <2>1, <4>1, ReleaseStepSlots
    <3> QED BY <3>1 DEF SlotsInv
  <2>7. Touches(j, NONE)
    <3>1. \A q \in Tabled \ {j} : table[q].ready => TablePages(q) \cap TablePages(j) = {}
      BY <1>2, <1>4, <1>5 DEF RangesInv
    <3> QED BY <1>1, <1>2, <1>12, <2>1, <3>1 DEF Touches, Slot, NONE, NoTable
  <2> QED BY <1>2, <2>2, <2>3, <2>5, <2>6, <2>7, TableStep
<1> QED BY <1>8, <1>9, <1>10, <1>11, <1>12 DEF ReleaseStep

\* prepare_write only commits pages.
LEMMA PrepareWriteInv ==
  ASSUME Inductive, NEW j, NEW from, NEW n, PrepareWrite(j, from, n)
  PROVE  Inductive'
<1>1. /\ UNCHANGED <<direct, stack, mapped, table, base, len, embed, uses>>
      /\ pages \subseteq pages'
  BY DEF PrepareWrite
<1>2. TypeOK' /\ RegistriesInv' /\ PublishedInv' /\ RunsInv'
  BY <1>1 DEF Inductive, TypeOK, RegistriesInv, PublishedInv, RunsInv, RunInv, DirectRun, TableRun,
              Describes, direct, Top
<1>3. RangesInv' /\ OperationsInv' /\ SlotsInv' /\ SlotsExact'
  BY <1>1, TablesKept
<1> QED BY <1>2, <1>3 DEF Inductive

-----------------------------------------------------------------------------
(* Generated code and the handlers.                                        *)

\* A step of the innermost run of t keeps the invariant if the run it makes is well placed and
\* the registries still describe the code.
LEMMA RunStep ==
  ASSUME Inductive, NEW t \in Thread, stack[t] # <<>>, NEW g \in Frame,
         stack' = [stack EXCEPT ![t][Len(stack[t])] = g],
         g.jit = Top(t).jit, g.prev = Top(t).prev, RunInv(g),
         UNCHANGED <<cursor, sites, current, mapped, table, base, len, embed, uses>>,
         pages \subseteq pages',
         text' \in [Direct -> [0 .. (CodeSize - 1) -> Byte]], RegistriesInv'
  PROVE  Inductive'
<1>1. RunInv(g)' /\ \A f \in Frame : RunInv(f) => RunInv(f)'
  BY RunKept
<1>2. stack' \in [Thread -> Seq(Frame)] /\ PublishedInv' /\ RunsInv'
  BY <1>1, FrameStep
<1>3. TypeOK'
  BY <1>2 DEF Inductive, TypeOK
<1>4. RangesInv' /\ OperationsInv' /\ SlotsInv' /\ SlotsExact'
  BY TablesKept
<1> QED BY <1>2, <1>3, <1>4 DEF Inductive

\* Most steps leave the code alone.
LEMMA CodeKept ==
  ASSUME Inductive, UNCHANGED <<text, cursor, sites>>
  PROVE  text' \in [Direct -> [0 .. (CodeSize - 1) -> Byte]] /\ RegistriesInv'
BY DEF Inductive, TypeOK, RegistriesInv

\* Goto changes the innermost run.
LEMMA GotoFacts ==
  ASSUME Inductive, NEW t \in Thread, stack[t] # <<>>, NEW pc, NEW at, Goto(t, pc, at)
  PROVE  stack' = [stack EXCEPT ![t][Len(stack[t])] = [Top(t) EXCEPT !.pc = pc, !.at = at]]
<1>1. /\ stack \in [Thread -> Seq(Frame)] /\ Len(stack[t]) \in DOMAIN stack[t]
      /\ Top(t) = stack[t][Len(stack[t])]
  BY TopFacts DEF Inductive, TypeOK
<1> QED BY <1>1 DEF Goto

\* The access a run with direct accesses is in, and the code there.
LEMMA DirectFacts ==
  ASSUME Inductive, NEW t \in Thread, stack[t] # <<>>, Top(t).pc \in {"at", "fault", "callback"}
  PROVE  /\ Top(t).jit \in Direct
         /\ \E n \in DOMAIN sites[Top(t).jit], s \in Site :
              /\ s = sites[Top(t).jit][n] /\ Top(t).home = s.slow
              /\ Top(t).pc = "at" => Top(t).at \in {s.offset, s.slow}
              /\ Top(t).pc = "fault" => Top(t).at = s.offset
              /\ Top(t).pc = "callback" => Top(t).at = s.slow
              /\ SiteInv(s, text[Top(t).jit], cursor[Top(t).jit])
<1> DEFINE j == Top(t).jit
<1>1. Top(t) \in Frame /\ RunInv(Top(t))
  BY TopFacts
<1>2. j \in Direct
  <2>1. j \in Direct \/ j \in Tabled
    BY <1>1 DEF Frame, Jit
  <2>2. j \in Tabled => Top(t).pc \in {"code", "load", "base", "len"}
    BY <1>1 DEF RunInv, TableRun
  <2> QED BY <2>1, <2>2
<1>3. PICK n \in DOMAIN sites[j] :
        LET s == sites[j][n]
        IN  /\ Top(t).home = s.slow
            /\ Top(t).pc = "at" => Top(t).at \in {s.offset, s.slow}
            /\ Top(t).pc = "fault" => Top(t).at = s.offset
            /\ Top(t).pc = "callback" => Top(t).at = s.slow
  BY <1>1, <1>2 DEF RunInv, DirectRun
<1>4. sites[j] \in Seq(Site)
  BY <1>2 DEF Inductive, TypeOK
<1>5. sites[j][n] \in Site
  BY <1>4, SiteFacts
<1>6. SiteInv(sites[j][n], text[j], cursor[j])
  BY <1>2 DEF Inductive, RegistriesInv, RegistryInv
<1> QED BY <1>2, <1>3, <1>5, <1>6

\* The run of t goes somewhere else within the access it is in.
LEMMA DirectStep ==
  ASSUME Inductive, NEW t \in Thread, stack[t] # <<>>, Top(t).jit \in Direct,
         NEW n \in DOMAIN sites[Top(t).jit], NEW s \in Site, s = sites[Top(t).jit][n],
         Top(t).home = s.slow, NEW pc, NEW at, Goto(t, pc, at),
         \/ pc = "code" /\ at = Top(t).at
         \/ pc = "at" /\ at \in {s.offset, s.slow}
         \/ pc = "fault" /\ at = s.offset
         \/ pc = "callback" /\ at = s.slow,
         UNCHANGED <<cursor, sites, current, mapped, tables, embed, uses>>,
         text' \in [Direct -> [0 .. (CodeSize - 1) -> Byte]], RegistriesInv'
  PROVE  Inductive'
<1>1. PICK g : g = [Top(t) EXCEPT !.pc = pc, !.at = at]
  OBVIOUS
<1>2. Top(t) \in Frame /\ s.offset \in Nat /\ s.slow \in Nat
  BY TopFacts DEF Site
<1>3. at \in Nat /\ pc \in {"code", "at", "fault", "callback"}
  BY <1>2 DEF Frame
<1>4. /\ g \in Frame /\ g.jit = Top(t).jit /\ g.prev = Top(t).prev /\ g.home = s.slow
      /\ g.pc = pc /\ g.at = at
  BY <1>1, <1>2, <1>3 DEF Frame
<1>5. RunInv(g)
  BY <1>3, <1>4, JitFacts DEF RunInv, DirectRun
<1>6. stack' = [stack EXCEPT ![t][Len(stack[t])] = g]
  <2>1. stack' = [stack EXCEPT ![t][Len(stack[t])] = [Top(t) EXCEPT !.pc = pc, !.at = at]]
    BY ONLY Inductive, t \in Thread, stack[t] # <<>>, Goto(t, pc, at), GotoFacts, Zenon
  <2> QED BY <1>1, <2>1
<1> QED BY <1>4, <1>5, <1>6, RunStep DEF tables

\* An access done inline, a fault, the patched jump, the call of the embedder and its return.
LEMMA AccessInv ==
  ASSUME Inductive, NEW t \in Thread,
         AccessDirect(t) \/ Fault(t) \/ ShortJump(t) \/ SlowPath(t) \/ Return(t)
  PROVE  Inductive'
<1>1. /\ stack[t] # <<>> /\ Top(t).pc \in {"at", "fault", "callback"}
      /\ UNCHANGED <<direct, mapped, tables, embed, uses>>
  BY DEF AccessDirect, Fault, ShortJump, SlowPath, Return, InCode
<1>2. Top(t).jit \in Direct
  BY <1>1, DirectFacts
<1>3. PICK n \in DOMAIN sites[Top(t).jit], s \in Site :
        /\ s = sites[Top(t).jit][n] /\ Top(t).home = s.slow
        /\ Top(t).pc = "at" => Top(t).at \in {s.offset, s.slow}
        /\ SiteInv(s, text[Top(t).jit], cursor[Top(t).jit])
        /\ Top(t).pc = "callback" => Top(t).at = s.slow
  BY <1>1, DirectFacts
<1>4. /\ Top(t).pc = "at" /\ Here(t).is \in {"access", "jmp"} => Top(t).at = s.offset
      /\ Top(t).pc = "at" /\ Here(t).is = "slow" => Top(t).at = s.slow
      /\ Top(t).pc = "at" /\ Here(t).is = "jmp" => Here(t).to = s.slow - (s.offset + 2)
  BY <1>3 DEF SiteInv, Here
<1>5. text' \in [Direct -> [0 .. (CodeSize - 1) -> Byte]] /\ RegistriesInv'
  BY <1>1, CodeKept DEF direct
<1>6. UNCHANGED <<cursor, sites, current, mapped, tables, embed, uses>>
  BY <1>1 DEF direct
<1>7. CASE AccessDirect(t) \/ Return(t)
  <2>1. Goto(t, "code", Top(t).at)
    BY <1>7 DEF AccessDirect, Return
  <2> QED BY <1>1, <1>2, <1>3, <1>5, <1>6, <2>1, DirectStep
<1>8. CASE Fault(t)
  <2>1. Goto(t, "fault", Top(t).at) /\ Top(t).at = s.offset
    BY <1>4, <1>8 DEF Fault
  <2> QED BY <1>1, <1>2, <1>3, <1>5, <1>6, <2>1, DirectStep
<1>9. CASE ShortJump(t)
  <2>1. /\ Goto(t, "at", Top(t).at + 2 + Here(t).to) /\ Top(t).at = s.offset
        /\ Here(t).to = s.slow - (s.offset + 2)
    BY <1>4, <1>9 DEF ShortJump
  <2>2. s.offset \in Nat /\ s.slow \in Nat
    BY DEF Site
  <2>3. Goto(t, "at", s.slow)
    <3>1. s.offset + 2 + (s.slow - (s.offset + 2)) = s.slow
      BY <2>2
    <3> QED BY <2>1, <3>1
  <2> QED BY <1>1, <1>2, <1>3, <1>5, <1>6, <2>3, DirectStep
<1>10. CASE SlowPath(t)
  <2>1. Goto(t, "callback", Top(t).at) /\ Top(t).at = s.slow
    BY <1>4, <1>10 DEF SlowPath
  <2> QED BY <1>1, <1>2, <1>3, <1>5, <1>6, <2>1, DirectStep
<1> QED BY <1>7, <1>8, <1>9, <1>10

\* Where an access and its slow path lie in a code cache of C bytes, and an access next to it.
LEMMA Placement ==
  ASSUME NEW C \in Nat, NEW end \in Nat, end <= C, NEW o \in Nat, NEW l \in Nat, NEW w \in Nat,
         l >= 2, o + l <= end, w < end
  PROVE  /\ o \in 0 .. (C - 1) /\ w \in 0 .. (C - 1)
         /\ \A p, n \in Nat : o + l <= p \/ p + n <= o => o < p \/ o >= p + n
OBVIOUS

\* A patched access jumps to its slow path, and the patch reaches no other access and no slow
\* path.
LEMMA PatchCorrect ==
  ASSUME NEW end \in 0 .. CodeSize, NEW code \in [0 .. (CodeSize - 1) -> Byte],
         NEW q \in Seq(Site), RegistryInv(q, code, end), NEW n \in DOMAIN q,
         NEW s \in Site, s = q[n], NEW after,
         after = write_patch(code, s.offset, s.len, s.slow - (s.offset + 2))
  PROVE  after \in [0 .. (CodeSize - 1) -> Byte] /\ RegistryInv(q, after, end)
<1>1. /\ s.offset \in Nat /\ s.slow \in Nat /\ s.len \in Nat /\ s.len >= 2
      /\ s.offset + s.len <= end /\ end <= CodeSize /\ CodeSize \in Nat /\ end \in Nat
  <2>1. s.offset \in Nat /\ s.slow \in Nat /\ s.len \in Nat
    BY DEF Site
  <2>2. s.len >= 2 /\ s.offset + s.len <= end
    BY DEF RegistryInv, SiteInv
  <2>3. CodeSize \in Nat
    BY HostFaultsAssumption
  <2> QED BY <2>1, <2>2, <2>3
<1>2. DOMAIN code = 0 .. (CodeSize - 1)
  OBVIOUS
<1>3. s.slow - (s.offset + 2) \in Int
  BY <1>1
<1>4. after \in [0 .. (CodeSize - 1) -> Byte]
  <2>1. /\ [is |-> "jmp", to |-> s.slow - (s.offset + 2)] \in Byte
        /\ [is |-> "rel", to |-> 0] \in Byte /\ [is |-> "nop", to |-> 0] \in Byte
    BY <1>3 DEF Byte
  <2> QED BY <1>2, <2>1 DEF write_patch
<1>5. s.offset \in DOMAIN code /\ after[s.offset] = [is |-> "jmp", to |-> s.slow - (s.offset + 2)]
  <2>1. s.offset \in DOMAIN code
    BY <1>1, <1>2
  <2> QED BY <2>1 DEF write_patch
<1>6. \A o \in DOMAIN code : o < s.offset \/ o >= s.offset + s.len => after[o] = code[o]
  <2> SUFFICES ASSUME NEW o \in DOMAIN code, o < s.offset \/ o >= s.offset + s.len
               PROVE  after[o] = code[o]
    OBVIOUS
  <2>1. o # s.offset /\ o # s.offset + 1 /\ ~(o > s.offset + 1 /\ o < s.offset + s.len)
    BY <1>1, <1>2
  <2> QED BY <2>1 DEF write_patch
<1>7. ASSUME NEW m \in DOMAIN q PROVE SiteInv(q[m], after, end)
  <2>1. q[m] \in Site /\ q[m].offset \in Nat /\ q[m].slow \in Nat /\ q[m].len \in Nat
    BY SiteFacts
  <2>2. SiteInv(q[m], code, end)
    BY DEF RegistryInv
  <2>3. q[m].slow \in DOMAIN code /\ q[m].offset \in DOMAIN code
    <3>1. q[m].len >= 2 /\ q[m].offset + q[m].len <= end /\ q[m].slow < end
      BY <2>2 DEF SiteInv
    <3>2. PICK o \in Nat, w \in Nat, l \in Nat : o = q[m].offset /\ w = q[m].slow /\ l = q[m].len
      BY <2>1
    <3>3. l >= 2 /\ o + l <= end /\ w < end
      BY <3>1, <3>2
    <3>4. end \in Nat /\ CodeSize \in Nat /\ end <= CodeSize
      BY <1>1
    <3>5. o < CodeSize /\ w < CodeSize
      BY ONLY <3>2, <3>3, <3>4, SMT
    <3>6. o \in 0 .. (CodeSize - 1) /\ w \in 0 .. (CodeSize - 1)
      BY ONLY <3>2, <3>4, <3>5, SMT
    <3> QED BY <1>2, <3>2, <3>6
  <2>4. q[m].slow < s.offset \/ q[m].slow >= s.offset + s.len
    BY DEF RegistryInv, Separate, SiteInv
  <2>5. after[q[m].slow] = code[q[m].slow]
    BY <1>6, <2>3, <2>4
  <2>6. CASE m = n
    BY <1>5, <2>2, <2>5, <2>6 DEF SiteInv
  <2>7. CASE m # n
    <3>1. q[m].offset + q[m].len <= s.offset \/ s.offset + s.len <= q[m].offset
      BY <2>7 DEF RegistryInv, Separate
    <3>2. q[m].offset < s.offset \/ q[m].offset >= s.offset + s.len
      <4>1. q[m].len >= 2 /\ q[m].offset + q[m].len <= end /\ q[m].slow < end
        BY <2>2 DEF SiteInv
      <4> QED BY <1>1, <2>1, <3>1, <4>1, Placement
    <3>3. after[q[m].offset] = code[q[m].offset]
      BY <1>6, <2>3, <3>2
    <3> QED BY <2>2, <2>5, <3>3 DEF SiteInv
  <2> QED BY <2>6, <2>7
<1> QED BY <1>4, <1>7 DEF RegistryInv

\* on_fault finds the access in the registry the thread has published and resumes it at the
\* patched instruction or at its slow path; it never passes the fault on.
LEMMA DivertInv ==
  ASSUME Inductive, NEW t \in Thread, Divert(t)
  PROVE  Inductive'
<1>1. /\ stack[t] # <<>> /\ Top(t).pc = "fault"
      /\ UNCHANGED <<cursor, sites, current, mapped, tables, embed, uses>>
  BY DEF Divert, InCode
<1>2. PICK j : j = Top(t).jit
  OBVIOUS
<1>3. PICK n \in DOMAIN sites[j], s \in Site :
        /\ s = sites[j][n] /\ Top(t).home = s.slow /\ Top(t).at = s.offset
  BY <1>1, <1>2, DirectFacts
<1>4. j \in Direct /\ j # NONE
  BY <1>1, <1>2, DirectFacts, JitFacts
<1>5. current[t] = j
  BY <1>1, <1>2, <1>4 DEF Inductive, PublishedInv, After
<1>6. /\ sites[j] \in Seq(Site) /\ cursor[j] \in 0 .. CodeSize
      /\ text \in [Direct -> [0 .. (CodeSize - 1) -> Byte]]
      /\ text[j] \in [0 .. (CodeSize - 1) -> Byte] /\ RegistryInv(sites[j], text[j], cursor[j])
  BY <1>4 DEF Inductive, TypeOK, RegistriesInv
<1>7. Find(sites[j], s.offset) = n /\ n # NONE
  <2>1. Sorted(sites[j]) /\ s.offset \in Nat
    BY <1>6 DEF RegistryInv, Site
  <2>2. Find(sites[j], s.offset) = n
    BY <1>3, <1>6, <2>1, FindCorrect
  <2>3. n \in 1 .. Len(sites[j])
    BY <1>6, SiteFacts
  <2> QED BY <2>2, <2>3 DEF NONE
<1>8. \/ /\ Goto(t, "at", s.offset)
         /\ text' = [text EXCEPT ![j] =
                       write_patch(text[j], s.offset, s.len, s.slow - (s.offset + 2))]
      \/ Goto(t, "at", s.slow) /\ UNCHANGED text
  BY <1>2, <1>3, <1>4, <1>5, <1>7 DEF Divert
<1>9. CASE /\ Goto(t, "at", s.offset)
           /\ text' = [text EXCEPT ![j] =
                         write_patch(text[j], s.offset, s.len, s.slow - (s.offset + 2))]
  <2>1. PICK after : after = write_patch(text[j], s.offset, s.len, s.slow - (s.offset + 2))
    OBVIOUS
  <2>2. after \in [0 .. (CodeSize - 1) -> Byte] /\ RegistryInv(sites[j], after, cursor[j])
    BY <1>3, <1>6, <2>1, PatchCorrect
  <2>3. text' = [text EXCEPT ![j] = after]
    BY <1>9, <2>1
  <2>4. /\ text' \in [Direct -> [0 .. (CodeSize - 1) -> Byte]]
        /\ text'[j] = after /\ \A i \in Direct \ {j} : text'[i] = text[i]
    BY <1>4, <1>6, <2>2, <2>3
  <2>5. RegistriesInv'
    BY <1>1, <2>2, <2>4 DEF Inductive, RegistriesInv
  <2> QED BY <1>1, <1>2, <1>3, <1>4, <1>9, <2>4, <2>5, DirectStep
<1>10. CASE Goto(t, "at", s.slow) /\ UNCHANGED text
  <2>1. text' \in [Direct -> [0 .. (CodeSize - 1) -> Byte]] /\ RegistriesInv'
    BY <1>1, <1>10, CodeKept
  <2> QED BY <1>1, <1>2, <1>3, <1>4, <1>10, <2>1, DirectStep
<1> QED BY <1>8, <1>9, <1>10

-----------------------------------------------------------------------------
(* Compiling.                                                              *)

\* A block emitted at the end of the code, and its registry.
LEMMA EmittedCorrect ==
  ASSUME NEW at \in Nat, NEW code \in [0 .. (CodeSize - 1) -> Byte], NEW q \in Seq(Site),
         RegistryInv(q, code, at), NEW b \in Blocks, Patchable(b), at + b.size <= CodeSize
  PROVE  /\ Emitted(code, at, b) \in [0 .. (CodeSize - 1) -> Byte]
         /\ Register(q, at, b) \in Seq(Site)
         /\ RegistryInv(Register(q, at, b), Emitted(code, at, b), at + b.size)
<1>1. b.size \in Nat /\ CodeSize \in Nat /\ b.sites \in Seq(Site)
  <2>1. b.sites \in Seq([offset : Nat, slow : Nat, len : Nat \ {0}])
    BY BlocksAssumption
  <2>2. [offset : Nat, slow : Nat, len : Nat \ {0}] \subseteq Site
    BY DEF Site
  <2>4. b.sites \in Seq(Site)
    BY <2>1, <2>2, SeqMonotonic
  <2> QED BY <2>4, BlocksAssumption, HostFaultsAssumption
<1>2. DOMAIN code = 0 .. (CodeSize - 1)
  OBVIOUS
<1>3. PICK N \in Nat : N = Len(b.sites) /\ DOMAIN b.sites = 1 .. N
  BY <1>1, SiteFacts
<1>4. \A k \in 1 .. N :
        LET e == Entry(at, b, k)
        IN  /\ e \in Site /\ e.len >= 3 /\ e.offset >= at /\ e.slow >= at
            /\ e.offset + e.len <= at + b.size /\ e.slow < at + b.size
            /\ e.offset = at + b.sites[k].offset /\ e.slow = at + b.sites[k].slow
  <2> SUFFICES ASSUME NEW k \in 1 .. N
               PROVE  LET e == Entry(at, b, k)
                      IN  /\ e \in Site /\ e.len >= 3 /\ e.offset >= at /\ e.slow >= at
                          /\ e.offset + e.len <= at + b.size /\ e.slow < at + b.size
                          /\ e.offset = at + b.sites[k].offset /\ e.slow = at + b.sites[k].slow
    OBVIOUS
  <2>1. PICK o \in Nat, w \in Nat, l \in Nat :
          o = b.sites[k].offset /\ w = b.sites[k].slow /\ l = b.sites[k].len
    BY <1>1, <1>3, SiteFacts
  <2>2. o + l <= b.size /\ w < b.size
    BY <1>3, <2>1, BlocksAssumption
  <2>3. l >= 3
    BY <1>3, <2>1 DEF Patchable
  <2>4. Entry(at, b, k) = [offset |-> at + o, slow |-> at + w, len |-> l]
    BY <2>1 DEF Entry
  <2>5. /\ at + o \in Nat /\ at + w \in Nat /\ at + o >= at /\ at + w >= at
        /\ (at + o) + l <= at + b.size /\ at + w < at + b.size
    BY <1>1, <2>2
  <2> QED BY <2>1, <2>3, <2>4, <2>5 DEF Site
<1>5. \A k, m \in 1 .. N :
        LET e == Entry(at, b, k)
            r == Entry(at, b, m)
        IN  /\ r.slow < e.offset \/ r.slow >= e.offset + e.len
            /\ k = m \/ r.offset + r.len <= e.offset \/ e.offset + e.len <= r.offset
  <2> SUFFICES ASSUME NEW k \in 1 .. N, NEW m \in 1 .. N
               PROVE  LET e == Entry(at, b, k)
                          r == Entry(at, b, m)
                      IN  /\ r.slow < e.offset \/ r.slow >= e.offset + e.len
                          /\ k = m \/ r.offset + r.len <= e.offset \/ e.offset + e.len <= r.offset
    OBVIOUS
  <2>1. PICK o \in Nat, w \in Nat, l \in Nat :
          o = b.sites[k].offset /\ w = b.sites[k].slow /\ l = b.sites[k].len
    BY <1>1, <1>3, SiteFacts
  <2>2. PICK o2 \in Nat, w2 \in Nat, l2 \in Nat :
          o2 = b.sites[m].offset /\ w2 = b.sites[m].slow /\ l2 = b.sites[m].len
    BY <1>1, <1>3, SiteFacts
  <2>3. w2 < o \/ w2 >= o + l
    BY <1>3, <2>1, <2>2, BlocksAssumption
  <2>4. k = m \/ o2 + l2 <= o \/ o + l <= o2
    BY <1>3, <2>1, <2>2, BlocksAssumption
  <2>5. /\ at + w2 < at + o \/ at + w2 >= (at + o) + l
        /\ k = m \/ (at + o2) + l2 <= at + o \/ (at + o) + l <= at + o2
    BY <2>3, <2>4
  <2> QED BY <2>1, <2>2, <2>5 DEF Entry
<1>6. \A n \in DOMAIN q : /\ q[n] \in Site /\ SiteInv(q[n], code, at)
                          /\ q[n].offset < at /\ q[n].slow < at
                          /\ q[n].offset + q[n].len <= at /\ q[n].offset \in Nat
                          /\ q[n].slow \in Nat /\ q[n].len \in Nat
  <2> SUFFICES ASSUME NEW n \in DOMAIN q
               PROVE  /\ q[n] \in Site /\ SiteInv(q[n], code, at)
                      /\ q[n].offset < at /\ q[n].slow < at
                      /\ q[n].offset + q[n].len <= at /\ q[n].offset \in Nat
                      /\ q[n].slow \in Nat /\ q[n].len \in Nat
    OBVIOUS
  <2>1. q[n] \in Site /\ q[n].offset \in Nat /\ q[n].slow \in Nat /\ q[n].len \in Nat
    BY SiteFacts
  <2>2. SiteInv(q[n], code, at)
    BY DEF RegistryInv
  <2>3. q[n].len >= 2 /\ q[n].offset + q[n].len <= at /\ q[n].slow < at
    BY <2>2 DEF SiteInv
  <2> QED BY <2>1, <2>2, <2>3
<1>7. Fresh(q, at, b)
  <2>1. ASSUME NEW k \in 1 .. N, NEW m \in 1 .. N, k # m
        PROVE  b.sites[k].offset # b.sites[m].offset
    <3>1. /\ Entry(at, b, k).offset = at + b.sites[k].offset
          /\ Entry(at, b, m).offset = at + b.sites[m].offset
      BY <1>4
    <3>2. PICK e \in Site, r \in Site : e = Entry(at, b, k) /\ r = Entry(at, b, m)
      BY <1>4
    <3>3. r.offset + r.len <= e.offset \/ e.offset + e.len <= r.offset
      BY <1>5, <2>1, <3>2
    <3>4. e.len >= 3 /\ r.len >= 3 /\ e.offset \in Nat /\ r.offset \in Nat /\ e.len \in Nat /\ r.len \in Nat
      BY <1>4, <3>2 DEF Site
    <3>5. e.offset # r.offset
      BY <3>3, <3>4
    <3> QED BY <3>1, <3>2, <3>5
  <2>2. ASSUME NEW k \in 1 .. N, NEW n \in DOMAIN q PROVE q[n].offset # at + b.sites[k].offset
    <3>1. PICK e \in Site : e = Entry(at, b, k) /\ e.offset >= at /\ e.offset = at + b.sites[k].offset
      BY <1>4
    <3>2. q[n].offset < at /\ q[n].offset \in Nat /\ e.offset \in Nat
      BY <1>6 DEF Site
    <3>3. q[n].offset # e.offset
      BY <3>1, <3>2
    <3> QED BY <3>1, <3>3
  <2> QED BY <1>3, <2>1, <2>2 DEF Fresh
<1>8. PICK r \in Seq(Site) : r = Register(q, at, b) /\ Sorted(r) /\ Holds(r, q, at, b, N)
  <2>1. Sorted(q)
    BY DEF RegistryInv
  <2> QED BY <1>1, <1>3, <1>7, <2>1, RegisterCorrect
<1>9. PICK c : c = Emitted(code, at, b)
  OBVIOUS
<1>10. c \in [0 .. (CodeSize - 1) -> Byte]
  <2>1. /\ [is |-> "access", to |-> 0] \in Byte /\ [is |-> "slow", to |-> 0] \in Byte
        /\ [is |-> "code", to |-> 0] \in Byte
    BY DEF Byte
  <2> QED BY <1>2, <1>9, <2>1 DEF Emitted
<1>11. \A o \in DOMAIN code : o < at => c[o] = code[o]
  BY <1>9 DEF Emitted
<1>12. \A o \in DOMAIN code : o >= at /\ o < at + b.size =>
         c[o] = IF \E k \in 1 .. N : at + b.sites[k].offset = o THEN [is |-> "access", to |-> 0]
                ELSE IF \E k \in 1 .. N : at + b.sites[k].slow = o THEN [is |-> "slow", to |-> 0]
                ELSE [is |-> "code", to |-> 0]
  <2> SUFFICES ASSUME NEW o \in DOMAIN code, o >= at, o < at + b.size
               PROVE  c[o] = IF \E k \in 1 .. N : at + b.sites[k].offset = o
                               THEN [is |-> "access", to |-> 0]
                             ELSE IF \E k \in 1 .. N : at + b.sites[k].slow = o
                               THEN [is |-> "slow", to |-> 0]
                             ELSE [is |-> "code", to |-> 0]
    OBVIOUS
  <2>1. ~(o < at \/ o >= at + b.size)
    BY <1>1, <1>2
  <2> QED BY <1>3, <1>9, <2>1, Zenon DEF Emitted
<1>13. ASSUME NEW k \in 1 .. N PROVE SiteInv(Entry(at, b, k), c, at + b.size)
  <2>1. PICK e \in Site : e = Entry(at, b, k)
    BY <1>4
  <2>2. /\ e.len >= 3 /\ e.offset >= at /\ e.slow >= at
        /\ e.offset + e.len <= at + b.size /\ e.slow < at + b.size
        /\ e.offset = at + b.sites[k].offset /\ e.slow = at + b.sites[k].slow
    BY <1>4, <2>1
  <2>3. e.slow < e.offset \/ e.slow >= e.offset + e.len
    BY <1>5, <2>1
  <2>4. e.offset \in Nat /\ e.slow \in Nat /\ e.len \in Nat
    BY DEF Site
  <2>5. e.offset < at + b.size /\ e.offset \in 0 .. (CodeSize - 1) /\ e.slow \in 0 .. (CodeSize - 1)
    <3>1. PICK end \in Nat, o \in Nat, w \in Nat, l \in Nat :
            end = at + b.size /\ o = e.offset /\ w = e.slow /\ l = e.len
      BY <1>1, <2>4
    <3>2. l >= 2 /\ o + l <= end /\ w < end /\ end <= CodeSize
      BY <2>2, <3>1
    <3>3. o \in 0 .. (CodeSize - 1) /\ w \in 0 .. (CodeSize - 1) /\ o < end
      BY <1>1, <3>2
    <3> QED BY <3>1, <3>3
  <2>6. c[e.offset] = [is |-> "access", to |-> 0]
    BY <1>2, <1>12, <2>2, <2>5
  <2>7. \A m \in 1 .. N : at + b.sites[m].offset # e.slow
    <3> SUFFICES ASSUME NEW m \in 1 .. N, at + b.sites[m].offset = e.slow PROVE FALSE
      OBVIOUS
    <3>1. PICK f \in Site : f = Entry(at, b, m) /\ f.offset = at + b.sites[m].offset /\ f.len >= 3
      BY <1>4
    <3>2. e.slow < f.offset \/ e.slow >= f.offset + f.len
      BY <1>5, <2>1, <3>1
    <3>3. f.offset \in Nat /\ f.len \in Nat /\ f.offset = e.slow
      BY <3>1 DEF Site
    <3> QED BY <2>4, <3>1, <3>2, <3>3
  <2>8. c[e.slow] = [is |-> "slow", to |-> 0]
    BY <1>2, <1>12, <2>2, <2>5, <2>7
  <2>9. e.len >= 2
    BY <2>2, <2>4
  <2> QED BY <2>1, <2>2, <2>3, <2>6, <2>8, <2>9 DEF SiteInv
<1>14. ASSUME NEW n \in DOMAIN q PROVE SiteInv(q[n], c, at + b.size)
  <2>1. PICK s \in Site : s = q[n] /\ SiteInv(s, code, at) /\ s.offset < at /\ s.slow < at
    BY <1>6
  <2>2. s.offset \in Nat /\ s.slow \in Nat /\ s.len \in Nat
    BY DEF Site
  <2>3. s.offset \in 0 .. (CodeSize - 1) /\ s.slow \in 0 .. (CodeSize - 1)
    BY <1>1, <2>1, <2>2
  <2>4. c[s.offset] = code[s.offset] /\ c[s.slow] = code[s.slow]
    BY <1>2, <1>11, <2>1, <2>3
  <2>5. s.offset + s.len <= at + b.size /\ s.slow < at + b.size
    <3>1. s.offset + s.len <= at
      BY <2>1 DEF SiteInv
    <3>2. PICK o \in Nat, w \in Nat, l \in Nat, d \in Nat :
            o = s.offset /\ w = s.slow /\ l = s.len /\ d = b.size
      BY <1>1, <2>2
    <3>3. o + l <= at /\ w < at
      BY <2>1, <3>1, <3>2
    <3>4. o + l <= at + d /\ w < at + d
      BY ONLY <3>3, at \in Nat, o \in Nat, w \in Nat, l \in Nat, d \in Nat
    <3> QED BY <3>2, <3>4
  <2> QED BY <2>1, <2>4, <2>5 DEF SiteInv
<1>15. \A n \in DOMAIN r : (\E i \in DOMAIN q : r[n] = q[i]) \/ \E k \in 1 .. N : r[n] = Entry(at, b, k)
  BY <1>8 DEF Holds
<1>16. \A n \in DOMAIN r : SiteInv(r[n], c, at + b.size)
  BY <1>13, <1>14, <1>15
<1>17. ASSUME NEW i \in DOMAIN q, NEW k \in 1 .. N
       PROVE  Separate(q[i], Entry(at, b, k)) /\ Separate(Entry(at, b, k), q[i])
  <2>1. PICK s \in Site : /\ s = q[i] /\ s.offset < at /\ s.slow < at /\ s.offset + s.len <= at
    BY <1>6
  <2>2. PICK e \in Site : e = Entry(at, b, k) /\ e.offset >= at /\ e.slow >= at
    BY <1>4
  <2>3. /\ s.offset \in Nat /\ s.slow \in Nat /\ s.len \in Nat
        /\ e.offset \in Nat /\ e.slow \in Nat /\ e.len \in Nat
    BY DEF Site
  <2>4. s.slow < e.offset /\ e.slow >= s.offset + s.len /\ s.offset + s.len <= e.offset
    BY <2>1, <2>2, <2>3
  <2> QED BY <2>1, <2>2, <2>4 DEF Separate
<1>18. ASSUME NEW m \in DOMAIN r, NEW n \in DOMAIN r, m # n PROVE Separate(r[m], r[n])
  <2>1. r[m] # r[n]
    <3>1. /\ m \in Nat /\ n \in Nat /\ r[m].offset \in Nat /\ r[n].offset \in Nat
      BY SiteFacts
    <3>2. m < n \/ n < m
      BY <1>18, <3>1
    <3>3. r[m].offset < r[n].offset \/ r[n].offset < r[m].offset
      BY <1>8, <3>2 DEF Sorted
    <3> QED BY <3>1, <3>3
  <2>2. CASE \E i \in DOMAIN q, k \in DOMAIN q : r[m] = q[i] /\ r[n] = q[k]
    BY <2>1, <2>2 DEF RegistryInv
  <2>3. CASE \E i \in DOMAIN q, k \in 1 .. N : r[m] = q[i] /\ r[n] = Entry(at, b, k)
    BY <1>17, <2>3
  <2>4. CASE \E i \in DOMAIN q, k \in 1 .. N : r[n] = q[i] /\ r[m] = Entry(at, b, k)
    BY <1>17, <2>4
  <2>5. CASE \E i \in 1 .. N, k \in 1 .. N : r[m] = Entry(at, b, i) /\ r[n] = Entry(at, b, k)
    <3>1. PICK i \in 1 .. N, k \in 1 .. N : r[m] = Entry(at, b, i) /\ r[n] = Entry(at, b, k) /\ i # k
      BY <2>1, <2>5
    <3> QED BY <1>5, <3>1 DEF Separate
  <2> QED BY <1>15, <2>2, <2>3, <2>4, <2>5
<1> QED BY <1>8, <1>9, <1>10, <1>16, <1>18 DEF RegistryInv

\* compile and install_block of a Jit that is not running.
LEMMA CompileInv ==
  ASSUME Inductive, NEW j \in Direct, NEW b \in Blocks, Compile(j, b)
  PROVE  Inductive'
<1>1. ~Running(j) /\ Patchable(b) /\ UNCHANGED <<current, stack, mapped, tables, embed, uses>>
  BY DEF Compile
<1>2. /\ text \in [Direct -> [0 .. (CodeSize - 1) -> Byte]] /\ sites \in [Direct -> Seq(Site)]
      /\ cursor \in [Direct -> 0 .. CodeSize]
  BY DEF Inductive, TypeOK
<1>3. CodeSize \in Nat /\ b.size \in Nat
  BY BlocksAssumption, HostFaultsAssumption
<1>4. Blank \in [0 .. (CodeSize - 1) -> Byte]
  BY DEF Blank, Byte
<1>5. RegistryInv(<<>>, Blank, 0) /\ <<>> \in Seq(Site)
  BY DEF RegistryInv, Sorted
<1>6. PICK at \in 0 .. CodeSize, code \in [0 .. (CodeSize - 1) -> Byte], known \in Seq(Site) :
        /\ RegistryInv(known, code, at)
        /\ IF at + b.size <= CodeSize
             THEN /\ text' = [text EXCEPT ![j] = Emitted(code, at, b)]
                  /\ sites' = [sites EXCEPT ![j] = Register(known, at, b)]
                  /\ cursor' = [cursor EXCEPT ![j] = at + b.size]
             ELSE /\ text' = [text EXCEPT ![j] = code]
                  /\ sites' = [sites EXCEPT ![j] = known]
                  /\ cursor' = [cursor EXCEPT ![j] = at]
  <2>1. CASE cursor[j] + b.size > CodeSize
    <3>1. IF 0 + b.size <= CodeSize
            THEN /\ text' = [text EXCEPT ![j] = Emitted(Blank, 0, b)]
                 /\ sites' = [sites EXCEPT ![j] = Register(<<>>, 0, b)]
                 /\ cursor' = [cursor EXCEPT ![j] = 0 + b.size]
            ELSE /\ text' = [text EXCEPT ![j] = Blank]
                 /\ sites' = [sites EXCEPT ![j] = <<>>]
                 /\ cursor' = [cursor EXCEPT ![j] = 0]
      BY <2>1 DEF Compile
    <3>2. 0 \in 0 .. CodeSize
      BY <1>3
    <3> QED BY <1>4, <1>5, <3>1, <3>2
  <2>2. CASE ~(cursor[j] + b.size > CodeSize)
    <3>1. IF cursor[j] + b.size <= CodeSize
            THEN /\ text' = [text EXCEPT ![j] = Emitted(text[j], cursor[j], b)]
                 /\ sites' = [sites EXCEPT ![j] = Register(sites[j], cursor[j], b)]
                 /\ cursor' = [cursor EXCEPT ![j] = cursor[j] + b.size]
            ELSE /\ text' = [text EXCEPT ![j] = text[j]]
                 /\ sites' = [sites EXCEPT ![j] = sites[j]]
                 /\ cursor' = [cursor EXCEPT ![j] = cursor[j]]
      BY <2>2 DEF Compile
    <3>2. RegistryInv(sites[j], text[j], cursor[j])
      BY DEF Inductive, RegistriesInv
    <3> QED BY <1>2, <3>1, <3>2
  <2> QED BY <2>1, <2>2
<1>7. PICK code2 \in [0 .. (CodeSize - 1) -> Byte], q \in Seq(Site), end \in 0 .. CodeSize :
        /\ RegistryInv(q, code2, end)
        /\ text' = [text EXCEPT ![j] = code2] /\ sites' = [sites EXCEPT ![j] = q]
        /\ cursor' = [cursor EXCEPT ![j] = end]
  <2>1. CASE at + b.size <= CodeSize
    <3>1. at \in Nat /\ at + b.size \in 0 .. CodeSize
      BY <1>3, <2>1
    <3>2. /\ Emitted(code, at, b) \in [0 .. (CodeSize - 1) -> Byte]
          /\ Register(known, at, b) \in Seq(Site)
          /\ RegistryInv(Register(known, at, b), Emitted(code, at, b), at + b.size)
      BY <1>1, <1>6, <2>1, <3>1, EmittedCorrect
    <3>3. /\ text' = [text EXCEPT ![j] = Emitted(code, at, b)]
          /\ sites' = [sites EXCEPT ![j] = Register(known, at, b)]
          /\ cursor' = [cursor EXCEPT ![j] = at + b.size]
      BY <1>6, <2>1
    <3> QED BY <3>1, <3>2, <3>3
  <2>2. CASE ~(at + b.size <= CodeSize)
    BY <1>6, <2>2
  <2> QED BY <2>1, <2>2
<1>8. /\ text' \in [Direct -> [0 .. (CodeSize - 1) -> Byte]] /\ sites' \in [Direct -> Seq(Site)]
      /\ cursor' \in [Direct -> 0 .. CodeSize]
      /\ text'[j] = code2 /\ sites'[j] = q /\ cursor'[j] = end
      /\ \A i \in Direct \ {j} :
           text'[i] = text[i] /\ sites'[i] = sites[i] /\ cursor'[i] = cursor[i]
  BY <1>2, <1>7
<1>9. TypeOK'
  BY <1>1, <1>8 DEF Inductive, TypeOK, tables
<1>10. RegistriesInv'
  BY <1>7, <1>8 DEF Inductive, RegistriesInv
<1>11. PublishedInv' /\ RunsInv'
  <2>1. \A f \in Frame : f.jit \in Direct /\ Running(f.jit) => sites'[f.jit] = sites[f.jit]
    BY <1>1, <1>8
  <2>2. \A i \in Tabled : \A s \in Slot : Describes(s, i) => Describes(s, i)'
    BY <1>1 DEF Describes, tables
  <2> QED BY <1>1, <2>1, <2>2, RunsKept DEF tables
<1>12. RangesInv' /\ OperationsInv' /\ SlotsInv' /\ SlotsExact'
  BY <1>1, TablesKept DEF tables
<1> QED BY <1>9, <1>10, <1>11, <1>12 DEF Inductive

-----------------------------------------------------------------------------
(* Runs begin and end.                                                     *)

\* What a thread with the runs q publishes, and that its runs are in order.
Published(q) == IF q = <<>> THEN NONE ELSE After(q[Len(q)])
Nested(q) == \A k \in 1 .. Len(q) :
  q[k].prev = (IF k = 1 THEN NONE ELSE After(q[k - 1])) /\ RunInv(q[k])

\* A step of the stack of t that keeps what is published, its runs and everything else.
LEMMA StackStep ==
  ASSUME Inductive, NEW t \in Thread, NEW q \in Seq(Frame), NEW c \in Direct \cup {NONE},
         stack' = [stack EXCEPT ![t] = q], current' = [current EXCEPT ![t] = c],
         UNCHANGED <<text, cursor, sites, mapped, tables, embed, uses>>,
         c = Published(q), Nested(q)
  PROVE  Inductive'
<1>1. stack \in [Thread -> Seq(Frame)] /\ current \in [Thread -> Direct \cup {NONE}]
  BY DEF Inductive, TypeOK
<1>2. /\ stack'[t] = q /\ current'[t] = c
      /\ \A u \in Thread \ {t} : stack'[u] = stack[u] /\ current'[u] = current[u]
      /\ stack' \in [Thread -> Seq(Frame)] /\ current' \in [Thread -> Direct \cup {NONE}]
  BY <1>1
<1>3. TypeOK' /\ RegistriesInv'
  BY <1>2 DEF Inductive, TypeOK, RegistriesInv, tables
<1>4. RangesInv' /\ OperationsInv' /\ SlotsInv' /\ SlotsExact'
  BY TablesKept DEF tables
<1>5. /\ DOMAIN q = 1 .. Len(q) /\ c = IF q = <<>> THEN NONE ELSE After(q[Len(q)])
      /\ \A k \in 1 .. Len(q) : /\ q[k].prev = IF k = 1 THEN NONE ELSE After(q[k - 1])
                                /\ RunInv(q[k])
  BY LenProperties DEF Published, Nested
<1>6. PublishedInv' 
  <2>1. ASSUME NEW u \in Thread
        PROVE  /\ current'[u] = IF stack'[u] = <<>> THEN NONE ELSE After(stack'[u][Len(stack'[u])])
               /\ \A k \in DOMAIN stack'[u] :
                    stack'[u][k].prev = IF k = 1 THEN NONE ELSE After(stack'[u][k - 1])
    <3>1. CASE u = t
      BY <1>2, <1>5, <3>1
    <3>2. CASE u # t
      BY <1>2, <3>2 DEF Inductive, PublishedInv, Top
    <3> QED BY <3>1, <3>2
  <2> QED BY <2>1 DEF PublishedInv, Top, After
<1>7. RunsInv'
  <2> SUFFICES ASSUME NEW u \in Thread, NEW k \in DOMAIN stack'[u]
               PROVE  RunInv(stack[u][k])'
    BY DEF RunsInv
  <2>1. stack'[u][k] \in Frame
    BY <1>2, LenProperties, ElementOfSeq
  <2>2. RunInv(stack'[u][k])
    BY <1>2, <1>5 DEF Inductive, RunsInv
  <2>3. \A f \in Frame : f = stack'[u][k] => RunInv(f)'
    BY <2>2, RunKept DEF tables
  <2> QED BY <2>1, <2>3 DEF RunInv, DirectRun, TableRun, Describes
<1> QED BY <1>3, <1>4, <1>6, <1>7 DEF Inductive

\* Entered::new publishes the registry of a direct run.
LEMMA EnterInv ==
  ASSUME Inductive, NEW t \in Thread, NEW j \in Jit, Enter(t, j)
  PROVE  Inductive'
<1>1. PICK g : g = [jit |-> j, prev |-> current[t], pc |-> "code", at |-> 0, home |-> 0, scan |-> 0]
  OBVIOUS
<1>2. /\ stack' = [stack EXCEPT ![t] = Append(stack[t], g)]
      /\ current' = IF j \in Direct THEN [current EXCEPT ![t] = j] ELSE current
      /\ UNCHANGED <<text, cursor, sites, mapped, tables, embed, uses>>
      /\ j \in Tabled => table[j].ready
  BY <1>1 DEF Enter
<1>3. stack[t] \in Seq(Frame) /\ current[t] \in Direct \cup {NONE}
      /\ current \in [Thread -> Direct \cup {NONE}]
  BY DEF Inductive, TypeOK
<1>4. g \in Frame
  BY <1>1, <1>3 DEF Frame
<1>5. RunInv(g)
  BY <1>1, <1>2 DEF RunInv, DirectRun, TableRun
<1>6. PICK q \in Seq(Frame) :
        /\ q = Append(stack[t], g) /\ Len(q) = Len(stack[t]) + 1 /\ q[Len(q)] = g
        /\ \A k \in 1 .. Len(stack[t]) : q[k] = stack[t][k]
  <2>1. PICK s \in Seq(Frame) : s = stack[t]
    BY <1>3
  <2>2. /\ Append(s, g) \in Seq(Frame) /\ Len(Append(s, g)) = Len(s) + 1
        /\ \A k \in 1 .. Len(s) : Append(s, g)[k] = s[k]
        /\ Append(s, g)[Len(s) + 1] = g
    BY <1>4, AppendProperties
  <2> QED BY <2>1, <2>2
<1>7. PICK c \in Direct \cup {NONE} : c = After(g) /\ current' = [current EXCEPT ![t] = c]
  BY <1>1, <1>2, <1>3 DEF After
<1>8. /\ Len(stack[t]) \in Nat /\ DOMAIN stack[t] = 1 .. Len(stack[t])
      /\ stack[t] = <<>> <=> Len(stack[t]) = 0
  BY <1>3, LenProperties, EmptySeq
<1>9. /\ current[t] = IF stack[t] = <<>> THEN NONE ELSE After(stack[t][Len(stack[t])])
      /\ \A k \in 1 .. Len(stack[t]) :
           /\ stack[t][k].prev = IF k = 1 THEN NONE ELSE After(stack[t][k - 1])
           /\ RunInv(stack[t][k])
  BY <1>8 DEF Inductive, PublishedInv, RunsInv, Top
<1>10. q # <<>>
  BY <1>6, <1>8
<1>11. ASSUME NEW k \in 1 .. Len(q)
       PROVE  q[k].prev = (IF k = 1 THEN NONE ELSE After(q[k - 1])) /\ RunInv(q[k])
  <2>1. CASE k \in 1 .. Len(stack[t])
    <3>1. k # 1 => k - 1 \in 1 .. Len(stack[t])
      BY <1>8, <2>1
    <3> QED BY <1>6, <1>9, <2>1, <3>1
  <2>2. CASE k = Len(q)
    <3>1. q[k] = g /\ g.prev = current[t]
      BY <1>1, <1>6, <2>2
    <3>2. k = 1 <=> stack[t] = <<>>
      BY <1>6, <1>8, <2>2
    <3>3. k # 1 => k - 1 = Len(stack[t]) /\ k - 1 \in 1 .. Len(stack[t])
      BY <1>6, <1>8, <2>2
    <3> QED BY <1>5, <1>6, <1>9, <3>1, <3>2, <3>3
  <2> QED BY <1>6, <1>8, <2>1, <2>2
<1>12. c = Published(q) /\ Nested(q)
  BY <1>6, <1>7, <1>10, <1>11 DEF Published, Nested
<1>13. stack' = [stack EXCEPT ![t] = q] /\ UNCHANGED <<text, cursor, sites, mapped, tables, embed, uses>>
  BY <1>2, <1>6
<1> QED BY <1>7, <1>12, <1>13, StackStep

\* Dropping Entered publishes what was published before.
LEMMA LeaveInv ==
  ASSUME Inductive, NEW t \in Thread, Leave(t)
  PROVE  Inductive'
<1>1. /\ stack[t] # <<>> /\ current' = [current EXCEPT ![t] = Restored(Top(t), current[t])]
      /\ stack' = [stack EXCEPT ![t] = Front(stack[t])]
      /\ UNCHANGED <<text, cursor, sites, mapped, tables, embed, uses>>
  BY DEF Leave, InCode, Inductive, TypeOK
<1>2. PICK n \in Nat \ {0} : /\ n = Len(stack[t]) /\ stack[t] \in Seq(Frame)
                             /\ DOMAIN stack[t] = 1 .. n /\ Top(t) = stack[t][n]
                             /\ Top(t) \in Frame
  BY <1>1, TopFacts
<1>3. PICK q \in Seq(Frame) :
        q = Front(stack[t]) /\ Len(q) = n - 1 /\ \A k \in 1 .. (n - 1) : q[k] = stack[t][k]
  <2>1. Front(stack[t]) = SubSeq(stack[t], 1, n - 1)
    BY <1>2 DEF Front
  <2>2. 1 \in Int /\ n - 1 \in Int /\ \A k \in 1 .. (n - 1) : stack[t][k] \in Frame
    <3>1. \A k \in 1 .. (n - 1) : k \in 1 .. Len(stack[t])
      BY <1>2
    <3> QED BY <1>2, <3>1, ElementOfSeq
  <2>3. /\ SubSeq(stack[t], 1, n - 1) \in Seq(Frame)
        /\ Len(SubSeq(stack[t], 1, n - 1)) = IF 1 <= n - 1 THEN (n - 1) - 1 + 1 ELSE 0
        /\ \A k \in 1 .. (n - 1) - 1 + 1 : SubSeq(stack[t], 1, n - 1)[k] = stack[t][1 + k - 1]
    BY <2>2, SubSeqProperties
  <2>4. /\ (IF 1 <= n - 1 THEN (n - 1) - 1 + 1 ELSE 0) = n - 1
        /\ \A k \in 1 .. (n - 1) : k \in 1 .. (n - 1) - 1 + 1 /\ 1 + k - 1 = k
    OBVIOUS
  <2> QED BY <2>1, <2>3, <2>4
<1>4. /\ current[t] = After(Top(t))
      /\ \A k \in 1 .. n : /\ stack[t][k].prev = IF k = 1 THEN NONE ELSE After(stack[t][k - 1])
                           /\ RunInv(stack[t][k])
  BY <1>1, <1>2 DEF Inductive, PublishedInv, RunsInv
<1>5. Restored(Top(t), current[t]) = Top(t).prev
  BY <1>4 DEF Restored, After
<1>6. PICK c \in Direct \cup {NONE} : c = Top(t).prev
  BY <1>2 DEF Frame
<1>7. q = <<>> <=> n = 1
  BY <1>3, EmptySeq
<1>8. c = IF q = <<>> THEN NONE ELSE After(q[Len(q)])
  <2>1. n # 1 => n - 1 \in 1 .. (n - 1)
    OBVIOUS
  <2>2. n \in 1 .. n
    OBVIOUS
  <2> QED BY <1>2, <1>3, <1>4, <1>6, <1>7, <2>1, <2>2
<1>9. ASSUME NEW k \in 1 .. Len(q)
      PROVE  q[k].prev = (IF k = 1 THEN NONE ELSE After(q[k - 1])) /\ RunInv(q[k])
  <2>1. k \in 1 .. (n - 1) /\ k \in 1 .. n /\ (k # 1 => k - 1 \in 1 .. (n - 1))
    BY <1>3
  <2> QED BY <1>3, <1>4, <2>1
<1>10. c = Published(q) /\ Nested(q)
  BY <1>8, <1>9 DEF Published, Nested
<1>11. stack' = [stack EXCEPT ![t] = q] /\ current' = [current EXCEPT ![t] = c]
       /\ UNCHANGED <<text, cursor, sites, mapped, tables, embed, uses>>
  BY <1>1, <1>3, <1>5, <1>6
<1> QED BY <1>10, <1>11, StackStep

-----------------------------------------------------------------------------
(* Arriving at an access, and the page tables.                             *)

\* An access begins inline or at its slow path.
LEMMA ArriveInv ==
  ASSUME Inductive, NEW t \in Thread, Arrive(t)
  PROVE  Inductive'
<1>1. /\ stack[t] # <<>> /\ Top(t).jit \in Direct
      /\ UNCHANGED <<direct, mapped, tables, embed, uses>>
  BY DEF Arrive, InCode
<1>2. PICK n \in DOMAIN sites[Top(t).jit], inside \in BOOLEAN :
        stack' = [stack EXCEPT ![t][Len(stack[t])] =
                    [@ EXCEPT !.pc = "at",
                              !.at = IF inside THEN sites[Top(t).jit][n].offset
                                     ELSE sites[Top(t).jit][n].slow,
                              !.home = sites[Top(t).jit][n].slow]]
  BY DEF Arrive
<1>3. PICK s \in Site : s = sites[Top(t).jit][n]
  <2>1. sites[Top(t).jit] \in Seq(Site)
    BY <1>1 DEF Inductive, TypeOK
  <2> QED BY <2>1, SiteFacts
<1>4. PICK at \in Nat : at = (IF inside THEN s.offset ELSE s.slow)
  BY DEF Site
<1>5. PICK g : g = [Top(t) EXCEPT !.pc = "at", !.at = at, !.home = s.slow]
  OBVIOUS
<1>6. /\ stack \in [Thread -> Seq(Frame)] /\ Len(stack[t]) \in DOMAIN stack[t]
      /\ Top(t) = stack[t][Len(stack[t])] /\ Top(t) \in Frame
  BY <1>1, TopFacts DEF Inductive, TypeOK
<1>7. stack' = [stack EXCEPT ![t][Len(stack[t])] = g]
  BY <1>2, <1>3, <1>4, <1>5, <1>6
<1>8. /\ g \in Frame /\ g.jit = Top(t).jit /\ g.prev = Top(t).prev
      /\ g.pc = "at" /\ g.at = at /\ g.home = s.slow
  BY <1>5, <1>6 DEF Frame, Site
<1>9. RunInv(g)
  BY <1>1, <1>3, <1>4, <1>8, JitFacts DEF RunInv, DirectRun
<1>10. text' \in [Direct -> [0 .. (CodeSize - 1) -> Byte]] /\ RegistriesInv'
  BY <1>1, CodeKept DEF direct
<1> QED BY <1>1, <1>7, <1>8, <1>9, <1>10, RunStep DEF direct, tables

\* The table of a run that is in one of the page table steps.
LEMMA TableFacts ==
  ASSUME Inductive, NEW t \in Thread, stack[t] # <<>>, Top(t).pc \in {"load", "base", "len"}
  PROVE  Top(t).jit \in Tabled /\ TableRun(Top(t)) /\ Top(t) \in Frame
<1>1. Top(t) \in Frame /\ RunInv(Top(t))
  BY TopFacts
<1>2. Top(t).jit \in Direct => Top(t).pc \in {"code", "at", "fault", "callback"}
  BY <1>1 DEF RunInv, DirectRun
<1>3. Top(t).jit \in Direct \/ Top(t).jit \in Tabled
  BY <1>1 DEF Frame, Jit
<1> QED BY <1>1, <1>2, <1>3 DEF RunInv

\* Where a run with the table of j may be.
TablePlace(j, pc, at, home, scan) ==
  /\ table[j].ready
  /\ pc # "code" => at >= table[j].at /\ at < table[j].at + TableLen[j]
  /\ pc \in {"base", "len"} => scan >= 1 /\ \E s \in Slot :
       /\ Describes(s, j) /\ scan <= s
       /\ pc = "len" /\ scan = s => home = table[j].at

\* A step of a run with a table.
LEMMA TableRunStep ==
  ASSUME Inductive, NEW t \in Thread, stack[t] # <<>>, Top(t).jit \in Tabled,
         NEW pc \in {"code", "load", "base", "len"}, NEW at \in Nat, NEW home \in Nat,
         NEW scan \in Nat,
         stack' = [stack EXCEPT ![t][Len(stack[t])] =
                     [Top(t) EXCEPT !.pc = pc, !.at = at, !.home = home, !.scan = scan]],
         UNCHANGED <<direct, mapped, table, base, len, embed, uses>>, pages \subseteq pages',
         TablePlace(Top(t).jit, pc, at, home, scan)
  PROVE  Inductive'
<1>1. PICK g : g = [Top(t) EXCEPT !.pc = pc, !.at = at, !.home = home, !.scan = scan]
  OBVIOUS
<1>2. Top(t) \in Frame
  BY TopFacts
<1>3. /\ g \in Frame /\ g.jit = Top(t).jit /\ g.prev = Top(t).prev
      /\ g.pc = pc /\ g.at = at /\ g.home = home /\ g.scan = scan
  BY <1>1, <1>2 DEF Frame
<1>4. TableRun(g)
  BY <1>3 DEF TableRun, TablePlace
<1>5. RunInv(g)
  BY <1>3, <1>4, JitFacts DEF RunInv
<1>6. text' \in [Direct -> [0 .. (CodeSize - 1) -> Byte]] /\ RegistriesInv'
  BY CodeKept DEF direct
<1>7. stack' = [stack EXCEPT ![t][Len(stack[t])] = g]
  BY <1>1
<1>8. UNCHANGED <<cursor, sites, current, mapped, table, base, len, embed, uses>>
  BY DEF direct
<1> QED BY <1>3, <1>5, <1>6, <1>7, <1>8, RunStep

\* The guard of generated code reads an entry of its own table.
LEMMA TouchInv ==
  ASSUME Inductive, NEW t \in Thread, Touch(t)
  PROVE  Inductive'
<1>1. /\ stack[t] # <<>> /\ Top(t).jit \in Tabled
      /\ UNCHANGED <<direct, mapped, tables, embed, uses>>
  BY DEF Touch, InCode
<1>2. PICK o \in 0 .. (TableLen[Top(t).jit] - 1) :
        stack' = [stack EXCEPT ![t][Len(stack[t])] =
                    [@ EXCEPT !.pc = "load", !.at = table[Top(t).jit].at + o]]
  BY DEF Touch
<1>3. /\ stack \in [Thread -> Seq(Frame)] /\ Len(stack[t]) \in DOMAIN stack[t]
      /\ Top(t) = stack[t][Len(stack[t])] /\ Top(t) \in Frame /\ RunInv(Top(t))
  BY <1>1, TopFacts DEF Inductive, TypeOK
<1>4. table[Top(t).jit].ready /\ table[Top(t).jit].at \in Nat /\ TableLen[Top(t).jit] \in Nat
  BY <1>1, <1>3, HostFaultsAssumption DEF RunInv, TableRun, Inductive, TypeOK, Reservation
<1>5. PICK at \in Nat : /\ at = table[Top(t).jit].at + o /\ at >= table[Top(t).jit].at
                        /\ at < table[Top(t).jit].at + TableLen[Top(t).jit]
  BY <1>4
<1>6. PICK home \in Nat, scan \in Nat : home = Top(t).home /\ scan = Top(t).scan
  BY <1>3 DEF Frame
<1>7. stack' = [stack EXCEPT ![t][Len(stack[t])] =
                  [Top(t) EXCEPT !.pc = "load", !.at = at, !.home = home, !.scan = scan]]
  BY <1>2, <1>3, <1>5, <1>6 DEF Frame
<1>8. TablePlace(Top(t).jit, "load", at, home, scan)
  BY <1>4, <1>5 DEF TablePlace
<1> QED BY <1>1, <1>7, <1>8, TableRunStep, Zenon DEF tables

\* A load of a page that is not committed is one of a table that a slot describes.
LEMMA LoadEntryInv ==
  ASSUME Inductive, NEW t \in Thread, LoadEntry(t)
  PROVE  Inductive'
<1>1. /\ stack[t] # <<>> /\ Top(t).pc = "load"
      /\ UNCHANGED <<direct, mapped, tables, embed, uses>>
  BY DEF LoadEntry, InCode
<1>2. PICK j : j = Top(t).jit
  OBVIOUS
<1>3. j \in Tabled /\ TableRun(Top(t)) /\ Top(t) \in Frame
  BY <1>1, <1>2, TableFacts
<1>4. /\ stack \in [Thread -> Seq(Frame)] /\ Len(stack[t]) \in DOMAIN stack[t]
      /\ Top(t) = stack[t][Len(stack[t])]
  BY <1>1, TopFacts DEF Inductive, TypeOK
<1>5. PICK at \in Nat, home \in Nat, scan \in Nat :
        at = Top(t).at /\ home = Top(t).home /\ scan = Top(t).scan
  BY <1>3 DEF Frame
<1>6. /\ table[j].ready /\ at >= table[j].at /\ at < table[j].at + TableLen[j]
      /\ table[j].at \in Nat /\ TableLen[j] \in Nat \ {0}
  BY <1>1, <1>2, <1>3, <1>5, HostFaultsAssumption DEF TableRun, Inductive, TypeOK, Reservation
<1>7. CASE PageOf(at) \in pages
  <2>1. Goto(t, "code", at)
    BY <1>5, <1>7 DEF LoadEntry
  <2>2. stack' = [stack EXCEPT ![t][Len(stack[t])] = [Top(t) EXCEPT !.pc = "code", !.at = at]]
    BY ONLY Inductive, t \in Thread, <1>1, <2>1, GotoFacts, Zenon
  <2>3. [Top(t) EXCEPT !.pc = "code", !.at = at] =
          [Top(t) EXCEPT !.pc = "code", !.at = at, !.home = home, !.scan = scan]
    BY <1>3, <1>5 DEF Frame
  <2>4. stack' = [stack EXCEPT ![t][Len(stack[t])] =
                    [Top(t) EXCEPT !.pc = "code", !.at = at, !.home = home, !.scan = scan]]
    BY <2>2, <2>3
  <2>5. TablePlace(Top(t).jit, "code", at, home, scan)
    BY <1>2, <1>6 DEF TablePlace
  <2> QED BY <1>1, <1>2, <1>3, <2>4, <2>5, TableRunStep, Zenon DEF tables
<1>8. CASE PageOf(at) \notin pages
  <2>1. stack' = [stack EXCEPT ![t][Len(stack[t])] = [@ EXCEPT !.pc = "base", !.scan = 1]]
    BY <1>5, <1>8 DEF LoadEntry
  <2>2. stack' = [stack EXCEPT ![t][Len(stack[t])] =
                    [Top(t) EXCEPT !.pc = "base", !.at = at, !.home = home, !.scan = 1]]
    BY <1>3, <1>4, <1>5, <2>1 DEF Frame
  <2>3. PageOf(at) \in TablePages(j)
    <3>1. at \in table[j].at .. (table[j].at + TableLen[j] - 1)
      BY <1>6
    <3> QED BY <1>6, <3>1, PagesFacts DEF TablePages
  <2>4. PICK s \in Slot : Describes(s, j)
    BY <1>3, <1>6, <1>8, <2>3 DEF Inductive, SlotsExact, Describes
  <2>5. 1 <= s /\ 1 \in Nat /\ 1 >= 1
    BY DEF Slot
  <2>6. TablePlace(Top(t).jit, "base", at, home, 1)
    BY <1>2, <1>6, <2>4, <2>5 DEF TablePlace
  <2> QED BY <1>1, <1>2, <1>3, <2>2, <2>5, <2>6, TableRunStep, Zenon DEF tables
<1> QED BY <1>5, <1>7, <1>8

\* on_fault of the page tables reaches the slot of the table and recognises it.
LEMMA HandlerStepInv ==
  ASSUME Inductive, NEW t \in Thread, HandlerStep(t)
  PROVE  Inductive'
<1>1. /\ stack[t] # <<>> /\ Top(t).pc \in {"base", "len"}
      /\ UNCHANGED <<direct, mapped, table, base, len, embed, uses>> /\ pages \subseteq pages'
  BY DEF HandlerStep, InCode
<1>2. PICK j, f : j = Top(t).jit /\ f = Top(t)
  OBVIOUS
<1>3. j \in Tabled /\ TableRun(f) /\ f \in Frame
  BY <1>1, <1>2, TableFacts
<1>4. PICK at \in Nat, home \in Nat, scan \in Nat : at = f.at /\ home = f.home /\ scan = f.scan
  BY <1>3 DEF Frame
<1>5. /\ table[j].ready /\ at >= table[j].at /\ at < table[j].at + TableLen[j] /\ scan >= 1
  BY <1>1, <1>2, <1>3, <1>4 DEF TableRun
<1>6. PICK s \in Slot : /\ Describes(s, j) /\ scan <= s
                        /\ f.pc = "len" /\ scan = s => home = table[j].at
  BY <1>1, <1>2, <1>3, <1>4 DEF TableRun
<1>7. s \in Nat /\ s <= SLOTS /\ SLOTS \in Nat /\ base \in [Slot -> Nat]
  BY HostFaultsAssumption DEF Slot, Inductive, TypeOK
<1>8. CASE /\ f.pc = "base" /\ scan \in Slot
           /\ stack' = [stack EXCEPT ![t][Len(stack[t])] =
                          [f EXCEPT !.pc = "len", !.home = base[scan]]]
  <2>1. PICK h \in Nat : h = base[scan] /\ (scan = s => h = table[j].at)
    BY <1>6, <1>7, <1>8 DEF Describes
  <2>2. [f EXCEPT !.pc = "len", !.home = base[scan]] =
          [Top(t) EXCEPT !.pc = "len", !.at = at, !.home = h, !.scan = scan]
    BY <1>2, <1>3, <1>4, <2>1 DEF Frame
  <2>3. stack' = [stack EXCEPT ![t][Len(stack[t])] =
                    [Top(t) EXCEPT !.pc = "len", !.at = at, !.home = h, !.scan = scan]]
    BY <1>8, <2>2
  <2>4. TablePlace(Top(t).jit, "len", at, h, scan)
    BY <1>2, <1>5, <1>6, <2>1 DEF TablePlace
  <2> QED BY <1>1, <1>2, <1>3, <2>3, <2>4, TableRunStep, Zenon
<1>9. ~(f.pc = "base" /\ scan > SLOTS)
  BY <1>6, <1>7
<1>10. CASE /\ f.pc = "len" /\ WithinSlot(at, home, len[scan])
            /\ stack' = [stack EXCEPT ![t][Len(stack[t])] =
                           [f EXCEPT !.pc = "load", !.scan = 0, !.home = 0]]
  <2>1. [f EXCEPT !.pc = "load", !.scan = 0, !.home = 0] =
          [Top(t) EXCEPT !.pc = "load", !.at = at, !.home = 0, !.scan = 0]
    BY <1>2, <1>3, <1>4 DEF Frame
  <2>2. stack' = [stack EXCEPT ![t][Len(stack[t])] =
                    [Top(t) EXCEPT !.pc = "load", !.at = at, !.home = 0, !.scan = 0]]
    BY <1>10, <2>1
  <2>3. TablePlace(Top(t).jit, "load", at, 0, 0) /\ 0 \in Nat
    BY <1>2, <1>5 DEF TablePlace
  <2> QED BY <1>1, <1>2, <1>3, <2>2, <2>3, TableRunStep, Zenon
<1>11. CASE /\ f.pc = "len" /\ ~WithinSlot(at, home, len[scan])
            /\ stack' = [stack EXCEPT ![t][Len(stack[t])] =
                           [f EXCEPT !.pc = "base", !.scan = f.scan + 1, !.home = 0]]
  <2>1. scan # s
    <3> SUFFICES ASSUME scan = s PROVE WithinSlot(at, home, len[scan])
      BY <1>11
    <3>1. home = table[j].at /\ len[scan] = TableLen[j]
      BY <1>6, <1>11 DEF Describes
    <3>2. table[j].at # 0
      BY <1>3, <1>5, ReadyFacts
    <3> QED BY <1>5, <3>1, <3>2 DEF WithinSlot
  <2>2. PICK n \in Nat : n = scan + 1 /\ n <= s /\ n >= 1
    BY <1>5, <1>6, <1>7, <2>1
  <2>3. [f EXCEPT !.pc = "base", !.scan = f.scan + 1, !.home = 0] =
          [Top(t) EXCEPT !.pc = "base", !.at = at, !.home = 0, !.scan = n]
    BY <1>2, <1>3, <1>4, <2>2 DEF Frame
  <2>4. stack' = [stack EXCEPT ![t][Len(stack[t])] =
                    [Top(t) EXCEPT !.pc = "base", !.at = at, !.home = 0, !.scan = n]]
    BY <1>11, <2>3
  <2>5. TablePlace(Top(t).jit, "base", at, 0, n) /\ 0 \in Nat
    BY <1>2, <1>5, <1>6, <2>2 DEF TablePlace
  <2> QED BY <1>1, <1>2, <1>3, <2>4, <2>5, TableRunStep, Zenon
<1> QED BY <1>2, <1>4, <1>8, <1>9, <1>10, <1>11 DEF HandlerStep

-----------------------------------------------------------------------------
(* The specification.                                                      *)

\* Before anything is compiled, run or reserved.
LEMMA InitInv == Init => Inductive
<1> SUFFICES ASSUME Init PROVE Inductive
  OBVIOUS
<1>1. CodeSize \in Nat /\ \A j \in Jit : j # NONE
  BY HostFaultsAssumption
<1>2. TypeOK
  <2>1. Blank \in [0 .. (CodeSize - 1) -> Byte]
    BY DEF Blank, Byte
  <2>2. text \in [Direct -> [0 .. (CodeSize - 1) -> Byte]] /\ cursor \in [Direct -> 0 .. CodeSize]
    BY <1>1, <2>1 DEF Init
  <2>3. sites \in [Direct -> Seq(Site)] /\ stack \in [Thread -> Seq(Frame)]
    BY DEF Init
  <2>4. table \in [Tabled -> Reservation] /\ embed \in [Thread -> Operation]
    BY DEF Init, NoTable, Idle, NONE, Reservation, Operation
  <2>5. base \in [Slot -> Nat] /\ len \in [Slot -> Nat] /\ uses \in [Thread -> SUBSET Jit]
    BY HostFaultsAssumption DEF Init
  <2>6. current \in [Thread -> Direct \cup {NONE}] /\ mapped \in BOOLEAN
    BY DEF Init
  <2> QED BY <2>2, <2>3, <2>4, <2>5, <2>6 DEF TypeOK
<1>3. RegistriesInv
  BY DEF Init, RegistriesInv, RegistryInv, Sorted
<1>4. PublishedInv /\ RunsInv
  BY DEF Init, PublishedInv, RunsInv
<1>5. RangesInv
  BY DEF Init, RangesInv, Reserved, NoTable
<1>6. OperationsInv
  BY DEF Init, OperationsInv, OperationInv, Idle, Filling
<1>7. SlotsInv /\ SlotsExact
  BY DEF Init, SlotsInv, SlotInv, SlotsExact, NoTable
<1> QED BY <1>2, <1>3, <1>4, <1>5, <1>6, <1>7 DEF Inductive

\* The embedder may map or unmap the guest page at any time.
LEMMA RemapInv ==
  ASSUME Inductive, Remap
  PROVE  Inductive'
<1>1. mapped' \in BOOLEAN /\ UNCHANGED <<direct, stack, tables, embed, uses>>
  BY DEF Remap
<1>2. TypeOK' /\ RegistriesInv' /\ PublishedInv' /\ RunsInv'
  BY <1>1 DEF Inductive, TypeOK, RegistriesInv, PublishedInv, RunsInv, RunInv, DirectRun, TableRun,
              Describes, direct, tables, Top
<1>3. RangesInv' /\ OperationsInv' /\ SlotsInv' /\ SlotsExact'
  BY <1>1, TablesKept DEF tables
<1> QED BY <1>2, <1>3 DEF Inductive

\* Every step of every thread keeps the invariant.
LEMMA NextInv == Inductive /\ [Next]_vars => Inductive'
<1> SUFFICES ASSUME Inductive, [Next]_vars PROVE Inductive'
  OBVIOUS
<1>1. ASSUME UNCHANGED vars PROVE Inductive'
  <2>1. UNCHANGED <<direct, stack, tables, mapped, embed, uses>>
    BY <1>1 DEF vars, direct, tables
  <2>2. TypeOK' /\ RegistriesInv' /\ PublishedInv' /\ RunsInv'
    BY <2>1 DEF Inductive, TypeOK, RegistriesInv, PublishedInv, RunsInv, RunInv, DirectRun, TableRun,
                Describes, direct, tables, Top
  <2>3. RangesInv' /\ OperationsInv' /\ SlotsInv' /\ SlotsExact'
    BY <2>1, TablesKept DEF tables
  <2> QED BY <2>2, <2>3 DEF Inductive
<1>2. ASSUME NEW t \in Thread, Proceed(t) PROVE Inductive'
  BY <1>2, AccessInv, DivertInv, LoadEntryInv, HandlerStepInv, ReserveStepInv, ReleaseStepInv
     DEF Proceed
<1>3. ASSUME NEW t \in Thread, Return(t) \/ Leave(t) \/ Arrive(t) \/ Touch(t) PROVE Inductive'
  BY <1>3, AccessInv, LeaveInv, ArriveInv, TouchInv
<1>4. \A t \in Thread : uses[t] \in SUBSET Jit
  BY DEF Inductive, TypeOK
<1>5. ASSUME NEW t \in Thread, NEW j \in uses[t] \cap Direct, NEW b \in Blocks, Compile(j, b)
      PROVE  Inductive'
  BY <1>5, CompileInv
<1>6. ASSUME NEW t \in Thread, NEW j \in uses[t], Enter(t, j) PROVE Inductive'
  BY <1>4, <1>6, EnterInv
<1>7. ASSUME NEW t \in Thread, NEW j \in uses[t] \cap Tabled,
             Reserve(t, j) \/ Release(t, j) \/ PrepareWrite(j, 0, 1)
      PROVE  Inductive'
  BY <1>7, ReserveInv, ReleaseInv, PrepareWriteInv
<1> QED BY <1>1, <1>2, <1>3, <1>5, <1>6, <1>7, RemapInv DEF Next

\* The invariant holds in every state: registries describe the code, each thread has published
\* the registry of its innermost direct run, runs are in accesses the registries know and in
\* tables the slots describe, and operations on tables do not disturb each other.
THEOREM HostFaultsInductive == Spec => []Inductive
<1> QED BY InitInv, NextInv, PTL DEF Spec

\* Type correctness of the state of code caches, registries, threads, tables and slots.
THEOREM TypeCorrect == Spec => []TypeOK
<1>1. Inductive => TypeOK
  BY DEF Inductive
<1> QED BY <1>1, HostFaultsInductive, PTL

\* page_table.rs, reserve and release: a table in use is committed as a whole or described by
\* exactly one slot, with its own length, whatever operations race for the slots.
THEOREM SlotsCorrect == Spec => []SlotsExact
<1>1. Inductive => SlotsExact
  BY DEF Inductive
<1> QED BY <1>1, HostFaultsInductive, PTL

\* The two on_fault handlers: no fault of an access of generated code is passed on to the
\* handler installed before them.
THEOREM FaultsCorrect == Spec => []FaultsResolved
<1>1. ASSUME Inductive PROVE FaultsResolved
  <2> SUFFICES ASSUME NEW t \in Thread, NEW k \in DOMAIN stack[t]
               PROVE  stack[t][k].pc # "chained"
    BY DEF FaultsResolved
  <2>1. stack[t][k] \in Frame
    BY <1>1, LenProperties, ElementOfSeq DEF Inductive, TypeOK
  <2> QED BY <2>1 DEF Frame
<1> QED BY <1>1, HostFaultsInductive, PTL

\* fastmem_direct.rs, divert_current and write_patch: an access that leaves the inline code
\* arrives at its own slow path, after any number of faults, patches and rollovers.
THEOREM SlowPathCorrect == Spec => []OwnSlowPath
<1>1. ASSUME Inductive PROVE OwnSlowPath
  <2> SUFFICES ASSUME NEW t \in Thread, NEW k \in DOMAIN stack[t], NEW f \in Frame,
                      f = stack[t][k], f.jit \in Direct, f.pc \in {"at", "callback"}
               PROVE  LET c == text[f.jit][f.at].is
                      IN  /\ c \in {"access", "jmp", "slow"}
                          /\ c = "slow" => f.at = f.home
                          /\ c = "jmp" => f.at + 2 + text[f.jit][f.at].to = f.home
    <3>1. \A t \in Thread : \A k \in DOMAIN stack[t] : stack[t][k] \in Frame
      BY <1>1, LenProperties, ElementOfSeq DEF Inductive, TypeOK
    <3> QED BY <3>1 DEF OwnSlowPath
  <2>1. DirectRun(f)
    BY <1>1 DEF Inductive, RunsInv, RunInv
  <2>2. PICK n \in DOMAIN sites[f.jit] :
          /\ f.home = sites[f.jit][n].slow
          /\ f.at \in {sites[f.jit][n].offset, sites[f.jit][n].slow}
          /\ f.pc = "callback" => f.at = sites[f.jit][n].slow
    BY <2>1 DEF DirectRun
  <2>3. PICK s \in Site : s = sites[f.jit][n] /\ SiteInv(s, text[f.jit], cursor[f.jit])
    <3>1. sites[f.jit] \in Seq(Site) /\ RegistryInv(sites[f.jit], text[f.jit], cursor[f.jit])
      BY <1>1 DEF Inductive, TypeOK, RegistriesInv
    <3> QED BY <3>1, SiteFacts DEF RegistryInv
  <2>4. s.offset \in Nat /\ s.slow \in Nat /\ s.offset + 2 + (s.slow - (s.offset + 2)) = s.slow
    BY DEF Site
  <2>5. CASE f.at = s.slow
    BY <2>2, <2>3, <2>5 DEF SiteInv
  <2>6. CASE f.at = s.offset
    <3>1. CASE text[f.jit][s.offset].is = "access"
      BY <2>6, <3>1
    <3>2. CASE text[f.jit][s.offset] = [is |-> "jmp", to |-> s.slow - (s.offset + 2)]
      <4>1. PICK b : b = text[f.jit][f.at]
        OBVIOUS
      <4>2. b.is = "jmp" /\ b.to = s.slow - (s.offset + 2)
        BY <2>6, <3>2, <4>1
      <4>3. f.at + 2 + b.to = f.home
        <5>1. f.home = s.slow
          BY <2>2, <2>3
        <5> QED BY <2>4, <2>6, <4>2, <5>1
      <4> QED BY <4>1, <4>2, <4>3
    <3> QED BY <2>3, <3>1, <3>2 DEF SiteInv
  <2> QED BY <2>2, <2>3, <2>5, <2>6
<1> QED BY <1>1, HostFaultsInductive, PTL

=============================================================================

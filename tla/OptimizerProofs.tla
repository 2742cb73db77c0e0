---------------------------- MODULE OptimizerProofs ----------------------------
(***************************************************************************)
(* Proofs about Optimizer and Terminals: the backward pass leaves every    *)
(* operand defined and keeps what the block does, the combined constant of *)
(* the forward pass yields what the two operations would have, and a       *)
(* branch fused with its compare goes where the compare and the branch     *)
(* would have gone.                                                        *)
(***************************************************************************)
EXTENDS Pipeline, Inductions, SequenceTheorems, FiniteSetTheorems

-----------------------------------------------------------------------------
(* Nodes and blocks as records.                                            *)

\* A function on 1 .. n is a sequence.
LEMMA FunctionIsSequence ==
  ASSUME NEW n \in Nat, NEW f, f = [i \in 1 .. n |-> f[i]]
  PROVE  /\ f \in Seq({f[i] : i \in 1 .. n})
         /\ Len(f) = n /\ DOMAIN f = 1 .. n
<1>1. f \in [1 .. n -> {f[i] : i \in 1 .. n}]
  OBVIOUS
<1>2. f \in Seq({f[i] : i \in 1 .. n})
  BY <1>1, SeqDef
<1>3. DOMAIN f = 1 .. n
  OBVIOUS
<1>4. Len(f) \in Nat /\ DOMAIN f = 1 .. Len(f)
  BY <1>2, LenProperties
<1>5. Len(f) = n
  BY <1>3, <1>4
<1> QED BY <1>2, <1>3, <1>5

\* The number of nodes of a block.
LEMMA CodeDomain ==
  ASSUME NEW b, Shaped(b)
  PROVE  Len(b.code) \in Nat /\ DOMAIN b.code = 1 .. Len(b.code)
<1>1. Len(b.code) \in Nat /\ b.code = [i \in 1 .. Len(b.code) |-> b.code[i]]
  BY DEF Shaped
<1> QED BY <1>1

\* What two nodes with the same operation share.
LEMMA SameOperation ==
  ASSUME NEW a, NEW c, Operation(a) = Operation(c)
  PROVE  a.op = c.op /\ a.w = c.w /\ a.ty = c.ty /\ a.args = c.args /\ a.imm = c.imm
<1>1. Operation(a).op = a.op /\ Operation(a).w = a.w /\ Operation(a).ty = a.ty
      /\ Operation(a).args = a.args /\ Operation(a).imm = a.imm
  BY DEF Operation
<1>2. Operation(c).op = c.op /\ Operation(c).w = c.w /\ Operation(c).ty = c.ty
      /\ Operation(c).args = c.args /\ Operation(c).imm = c.imm
  BY DEF Operation
<1> QED BY <1>1, <1>2

\* The links of a list of nodes, with the operations as they were but at x.
Relinked(c, d, N, x) ==
  /\ d = [j \in 1 .. N |-> d[j]]
  /\ \A j \in 1 .. N : Filled(d[j])
  /\ \A j \in 1 .. N : j # x => Operation(d[j]) = Operation(c[j])

\* A node i of a block, between p and q.
Between(b, i, p, q) ==
  /\ Shaped(b) /\ i \in 1 .. Len(b.code) /\ p \in 0 .. Len(b.code) /\ q \in 0 .. Len(b.code)
  /\ p = b.code[i].prev /\ q = b.code[i].next /\ p # i /\ q # i
\* The block d without node i.
Without(d, b, i, p, q) ==
  /\ Shaped(d) /\ Len(d.code) = Len(b.code) /\ d.terminal = b.terminal
  /\ d.head = (IF p = NONE THEN q ELSE b.head)
  /\ d.tail = (IF q = NONE THEN p ELSE b.tail)
  /\ \A j \in 1 .. Len(b.code) : j # i =>
       /\ Operation(d.code[j]) = Operation(b.code[j])
       /\ d.code[j].next = (IF j = p THEN q ELSE b.code[j].next)
       /\ d.code[j].prev = (IF j = q THEN p ELSE b.code[j].prev)

\* Unlinking a node.
LEMMA UnlinkFacts ==
  ASSUME NEW b, NEW i, NEW p, NEW q, Between(b, i, p, q)
  PROVE  Without(Unlink(b, i), b, i, p, q)
<1>0. /\ Shaped(b) /\ i \in 1 .. Len(b.code) /\ p \in 0 .. Len(b.code) /\ q \in 0 .. Len(b.code)
      /\ p = b.code[i].prev /\ q = b.code[i].next /\ p # i /\ q # i
  BY DEF Between
<1>1. PICK N \in Nat : N = Len(b.code)
  BY <1>0, CodeDomain
<1>2. /\ b = [code |-> b.code, head |-> b.head, tail |-> b.tail, terminal |-> b.terminal]
      /\ b.code = [j \in 1 .. N |-> b.code[j]]
      /\ \A j \in 1 .. N : Filled(b.code[j]) /\ b.code[j].args \in Seq(1 .. N)
  BY <1>0, <1>1, CodeDomain DEF Shaped
<1>3. PICK c0 : c0 = b.code
  OBVIOUS
<1>4. PICK c1 : c1 = IF p = NONE THEN c0 ELSE [c0 EXCEPT ![p].next = q]
  OBVIOUS
<1>5. /\ Relinked(c0, c1, N, 0)
      /\ \A j \in 1 .. N : c1[j].next = (IF j = p THEN q ELSE c0[j].next) /\ c1[j].prev = c0[j].prev
  <2>1. CASE p = NONE
    <3>1. c1 = c0 /\ \A j \in 1 .. N : j # p
      BY <2>1, <1>4 DEF NONE
    <3> QED BY <3>1, <1>2, <1>3 DEF Relinked
  <2>2. CASE p # NONE
    <3>1. c1 = [j \in 1 .. N |-> IF j = p THEN [c0[p] EXCEPT !.next = q] ELSE c0[j]]
      BY <2>2, <1>1, <1>2, <1>3, <1>4
    <3>2. \A j \in 1 .. N : c1[j] = IF j = p THEN [c0[p] EXCEPT !.next = q] ELSE c0[j]
      BY <3>1
    <3>3. p \in 1 .. N
      BY <2>2, <1>0, <1>1 DEF NONE
    <3>4. PICK n : n = [c0[p] EXCEPT !.next = q]
      OBVIOUS
    <3>5. Filled(c0[p])
      BY <3>3, <1>2, <1>3
    <3>6. n = [op |-> c0[p].op, w |-> c0[p].w, ty |-> c0[p].ty, args |-> c0[p].args,
               imm |-> c0[p].imm, prev |-> c0[p].prev, next |-> q]
      BY <3>4, <3>5 DEF Filled
    <3>7. Filled(n) /\ Operation(n) = Operation(c0[p]) /\ n.prev = c0[p].prev /\ n.next = q
      BY <3>6 DEF Filled, Operation
    <3> QED BY <3>1, <3>2, <3>4, <3>7, <1>2, <1>3 DEF Relinked
  <2> QED BY <2>1, <2>2
<1>6. PICK c2 : c2 = IF q = NONE THEN c1 ELSE [c1 EXCEPT ![q].prev = p]
  OBVIOUS
<1>7. /\ Relinked(c0, c2, N, 0)
      /\ \A j \in 1 .. N : c2[j].prev = (IF j = q THEN p ELSE c0[j].prev) /\ c2[j].next = c1[j].next
  <2>1. CASE q = NONE
    BY <2>1, <1>5, <1>6 DEF NONE
  <2>2. CASE q # NONE
    <3>1. c2 = [j \in 1 .. N |-> IF j = q THEN [c1[q] EXCEPT !.prev = p] ELSE c1[j]]
      BY <2>2, <1>1, <1>5, <1>6 DEF Relinked
    <3>2. \A j \in 1 .. N : c2[j] = IF j = q THEN [c1[q] EXCEPT !.prev = p] ELSE c1[j]
      BY <3>1
    <3>3. q \in 1 .. N
      BY <2>2, <1>0, <1>1 DEF NONE
    <3>4. Filled(c1[q])
      BY <3>3, <1>5 DEF Relinked
    <3>5. PICK n : n = [c1[q] EXCEPT !.prev = p]
      OBVIOUS
    <3>6. n = [op |-> c1[q].op, w |-> c1[q].w, ty |-> c1[q].ty, args |-> c1[q].args,
               imm |-> c1[q].imm, prev |-> p, next |-> c1[q].next]
      BY <3>4, <3>5 DEF Filled
    <3>7. Filled(n) /\ Operation(n) = Operation(c1[q]) /\ n.prev = p /\ n.next = c1[q].next
      BY <3>6 DEF Filled, Operation
    <3>8. \A j \in 1 .. N : Operation(c1[j]) = Operation(c0[j])
      BY <1>5 DEF Relinked
    <3> QED BY <3>1, <3>2, <3>3, <3>5, <3>7, <3>8, <1>5 DEF Relinked
  <2> QED BY <2>1, <2>2
<1>8. PICK n : n = c0[i]
  OBVIOUS
<1>9. PICK v : v = [n EXCEPT !.op = "Void", !.args = <<>>, !.prev = NONE, !.next = NONE]
  OBVIOUS
<1>10. Filled(v) /\ v.args = <<>>
  <2>1. n = [op |-> n.op, w |-> n.w, ty |-> n.ty, args |-> n.args, imm |-> n.imm,
             prev |-> n.prev, next |-> n.next]
    BY <1>0, <1>1, <1>2, <1>3, <1>8 DEF Filled
  <2>2. v = [op |-> "Void", w |-> n.w, ty |-> n.ty, args |-> <<>>, imm |-> n.imm,
             prev |-> NONE, next |-> NONE]
    BY <2>1, <1>9
  <2> QED BY <2>2 DEF Filled
<1>11. PICK c3 : c3 = [c2 EXCEPT ![i] = v]
  OBVIOUS
<1>12. PICK b2 : b2 = Unlink(b, i)
  OBVIOUS
<1>13. b2 = [b EXCEPT !.code = c3, !.head = IF p = NONE THEN q ELSE @,
                      !.tail = IF q = NONE THEN p ELSE @]
  <2>1. b2 = [b EXCEPT !.code = [c2 EXCEPT ![i] = [n EXCEPT !.op = "Void", !.args = <<>>, !.prev = NONE, !.next = NONE]],
                       !.head = IF p = NONE THEN q ELSE @, !.tail = IF q = NONE THEN p ELSE @]
    BY <1>0, <1>3, <1>4, <1>6, <1>8, <1>12 DEF Unlink
  <2> QED BY <2>1, <1>9, <1>11
<1>14. b2 = [code |-> c3, head |-> IF p = NONE THEN q ELSE b.head,
             tail |-> IF q = NONE THEN p ELSE b.tail, terminal |-> b.terminal]
  BY <1>13, <1>2
<1>15. c3 = [j \in 1 .. N |-> IF j = i THEN v ELSE c2[j]]
  BY <1>7, <1>11 DEF Relinked
<1>16. c3 = [j \in 1 .. N |-> c3[j]] /\ \A j \in 1 .. N : c3[j] = IF j = i THEN v ELSE c2[j]
  BY <1>15
<1>17. Len(c3) = N
  BY <1>16, FunctionIsSequence
<1>18. ASSUME NEW j \in 1 .. N, j # i
       PROVE  /\ Filled(c3[j]) /\ Operation(c3[j]) = Operation(c0[j])
              /\ c3[j].next = (IF j = p THEN q ELSE c0[j].next)
              /\ c3[j].prev = (IF j = q THEN p ELSE c0[j].prev)
  BY <1>5, <1>7, <1>16, <1>18 DEF Relinked
<1>19. \A j \in 1 .. N : Filled(c3[j]) /\ c3[j].args \in Seq(1 .. N)
  <2> SUFFICES ASSUME NEW j \in 1 .. N
               PROVE  Filled(c3[j]) /\ c3[j].args \in Seq(1 .. N)
    OBVIOUS
  <2>1. CASE j = i
    BY <2>1, <1>10, <1>16, EmptySeq
  <2>2. CASE j # i
    <3>1. c3[j].args = c0[j].args
      BY <2>2, <1>18, SameOperation
    <3> QED BY <3>1, <2>2, <1>18, <1>2, <1>3
  <2> QED BY <2>1, <2>2
<1>20. Shaped(b2)
  <2>1. b2.code = c3 /\ b2 = [code |-> b2.code, head |-> b2.head, tail |-> b2.tail, terminal |-> b2.terminal]
    BY <1>14
  <2> QED BY <2>1, <1>16, <1>17, <1>19 DEF Shaped
<1> QED BY <1>1, <1>3, <1>12, <1>14, <1>17, <1>18, <1>20 DEF Without

-----------------------------------------------------------------------------
(* The list of a block.                                                    *)

\* One step of iter_live.
Walk(b, s) ==
  IF s.cursor = NONE THEN s
  ELSE [cursor |-> b.code[s.cursor].next, seen |-> Append(s.seen, s.cursor)]
WalkFrom(b) == [cursor |-> b.head, seen |-> <<>>]
\* The function LiveSeq looks for.
Walks(b, n) == CHOOSE go : go = [k \in 0 .. n |-> IF k = 0 THEN WalkFrom(b) ELSE Walk(b, go[k - 1])]

\* It exists.
LEMMA WalksExist ==
  ASSUME NEW b, NEW n \in Nat
  PROVE  Walks(b, n)[0] = WalkFrom(b) /\ \A k \in 1 .. n : Walks(b, n)[k] = Walk(b, Walks(b, n)[k - 1])
<1> DEFINE S == {m \in Nat : \E g : g = [k \in 0 .. m |-> IF k = 0 THEN WalkFrom(b) ELSE Walk(b, g[k - 1])]}
<1>1. 0 \in S
  <2>1. PICK g : g = [k \in 0 .. 0 |-> WalkFrom(b)]
    OBVIOUS
  <2>2. g = [k \in 0 .. 0 |-> IF k = 0 THEN WalkFrom(b) ELSE Walk(b, g[k - 1])]
    BY <2>1
  <2> QED BY <2>2
<1>2. ASSUME NEW m \in Nat, m \in S PROVE m + 1 \in S
  <2>1. PICK g : g = [k \in 0 .. m |-> IF k = 0 THEN WalkFrom(b) ELSE Walk(b, g[k - 1])]
    BY <1>2
  <2>2. PICK h : h = [k \in 0 .. (m + 1) |-> IF k <= m THEN g[k] ELSE Walk(b, g[m])]
    OBVIOUS
  <2>3. \A k \in 0 .. m : h[k] = g[k]
    BY <2>2
  <2>4. \A k \in 0 .. m : g[k] = IF k = 0 THEN WalkFrom(b) ELSE Walk(b, g[k - 1])
    BY <2>1
  <2>5. ASSUME NEW k \in 0 .. (m + 1) PROVE h[k] = IF k = 0 THEN WalkFrom(b) ELSE Walk(b, h[k - 1])
    <3>1. CASE k = 0
      BY <3>1, <2>3, <2>4
    <3>2. CASE k \in 1 .. m
      <4>1. k - 1 \in 0 .. m /\ k \in 0 .. m /\ k # 0
        BY <3>2
      <4> QED BY <4>1, <2>3, <2>4
    <3>3. CASE k = m + 1
      <4>1. k - 1 = m /\ k # 0 /\ m \in 0 .. m /\ h[k] = Walk(b, g[m])
        BY <3>3, <2>2
      <4> QED BY <4>1, <2>3
    <3> QED BY <3>1, <3>2, <3>3
  <2>6. h = [k \in 0 .. (m + 1) |-> IF k = 0 THEN WalkFrom(b) ELSE Walk(b, h[k - 1])]
    BY <2>2, <2>5, Zenon
  <2> QED BY <2>6
<1>3. n \in S
  <2> HIDE DEF S
  <2> QED BY <1>1, <1>2, SetInduction
<1>4. PICK g : g = [k \in 0 .. n |-> IF k = 0 THEN WalkFrom(b) ELSE Walk(b, g[k - 1])]
  BY <1>3
<1>5. Walks(b, n) = [k \in 0 .. n |-> IF k = 0 THEN WalkFrom(b) ELSE Walk(b, Walks(b, n)[k - 1])]
  BY <1>4 DEF Walks
<1>6. \A k \in 0 .. n : Walks(b, n)[k] = IF k = 0 THEN WalkFrom(b) ELSE Walk(b, Walks(b, n)[k - 1])
  BY <1>5
<1> QED BY <1>6

\* The live list is that of the last walk.
LEMMA LiveSeqWalks ==
  ASSUME NEW b
  PROVE  LiveSeq(b) = Walks(b, Len(b.code))[Len(b.code)].seen
BY DEF LiveSeq, Walks, Walk, WalkFrom

\* What a listing says of the length of the list.
LEMMA ListingLength ==
  ASSUME NEW b, NEW L, Shaped(b), Listing(b, L)
  PROVE  /\ Len(L) \in Nat /\ DOMAIN L = 1 .. Len(L) /\ Len(L) <= Len(b.code)
         /\ \A k \in 1 .. Len(L) : L[k] \in 1 .. Len(b.code)
<1>1. L \in Seq(1 .. Len(b.code)) /\ Len(b.code) \in Nat
  BY CodeDomain DEF Listing
<1>2. Len(L) \in Nat /\ DOMAIN L = 1 .. Len(L) /\ L \in [1 .. Len(L) -> 1 .. Len(b.code)]
  BY <1>1, LenProperties
<1>3. L \in Injection(1 .. Len(L), 1 .. Len(b.code))
  BY <1>2 DEF Injection, IsInjective, Listing
<1>4. \A n \in Nat : IsFiniteSet(1 .. n) /\ Cardinality(1 .. n) = n
  BY FS_Interval
<1>5. Cardinality(1 .. Len(L)) <= Cardinality(1 .. Len(b.code))
  BY <1>1, <1>3, <1>4, FS_Injection
<1> QED BY <1>1, <1>2, <1>4, <1>5

\* The state of the walk after k nodes of L.
Walked(s, L, k, N) ==
  /\ s.cursor = At(L, k + 1) /\ s.seen \in Seq(1 .. N) /\ Len(s.seen) = k
  /\ \A j \in 1 .. k : s.seen[j] = L[j]

\* The nodes the walk visits are those of the listing.
LEMMA ListingLive ==
  ASSUME NEW b, NEW L, Shaped(b), Listing(b, L)
  PROVE  LiveSeq(b) = L
<1>1. PICK N \in Nat, n \in Nat : N = Len(b.code) /\ n = Len(L) /\ n <= N
  BY CodeDomain, ListingLength
<1>2. /\ DOMAIN L = 1 .. n /\ L \in Seq(1 .. N) /\ b.head = At(L, 1)
      /\ \A k \in 1 .. n : L[k] \in 1 .. N /\ b.code[L[k]].next = At(L, k + 1)
  BY <1>1, ListingLength DEF Listing
<1>3. PICK go : go = Walks(b, N)
  OBVIOUS
<1>4. go[0] = WalkFrom(b) /\ \A k \in 1 .. N : go[k] = Walk(b, go[k - 1])
  BY <1>1, <1>3, WalksExist
<1> DEFINE S == {k \in Nat : k <= N => Walked(go[k], L, IF k <= n THEN k ELSE n, N)}
<1>5. 0 \in S
  <2>1. go[0].cursor = b.head /\ go[0].seen = <<>>
    BY <1>4 DEF WalkFrom
  <2>2. go[0].seen \in Seq(1 .. N) /\ Len(go[0].seen) = 0
    BY <2>1, EmptySeq
  <2>3. Walked(go[0], L, 0, N)
    BY <2>1, <2>2, <1>2 DEF Walked
  <2> QED BY <2>3
<1>6. ASSUME NEW k \in Nat, k \in S PROVE k + 1 \in S
  <2> SUFFICES ASSUME k + 1 <= N
               PROVE  Walked(go[k + 1], L, IF k + 1 <= n THEN k + 1 ELSE n, N)
    OBVIOUS
  <2>1. PICK s, t : s = go[k] /\ t = go[k + 1]
    OBVIOUS
  <2>2. t = Walk(b, s)
    <3>1. k + 1 \in 1 .. N /\ (k + 1) - 1 = k
      OBVIOUS
    <3> QED BY <3>1, <2>1, <1>4
  <2>3. CASE k < n
    <3>1. Walked(s, L, k, N)
      BY <2>1, <2>3, <1>6
    <3>2. s.cursor = L[k + 1] /\ L[k + 1] \in 1 .. N /\ b.code[L[k + 1]].next = At(L, k + 2)
      BY <2>3, <3>1, <1>2 DEF Walked, At
    <3>3. s.cursor # NONE
      BY <3>2 DEF NONE
    <3>4. t.cursor = At(L, k + 2) /\ t.seen = Append(s.seen, L[k + 1])
      BY <3>2, <3>3, <2>2 DEF Walk
    <3>5. PICK q \in Seq(1 .. N), e \in 1 .. N : q = s.seen /\ e = L[k + 1]
      BY <3>1, <3>2 DEF Walked
    <3>6. /\ Append(q, e) \in Seq(1 .. N) /\ Len(Append(q, e)) = Len(q) + 1
          /\ \A i \in 1 .. Len(q) : Append(q, e)[i] = q[i]
          /\ Append(q, e)[Len(q) + 1] = e
      BY AppendProperties
    <3>7. Len(q) = k /\ \A j \in 1 .. k : q[j] = L[j]
      BY <3>1, <3>5 DEF Walked
    <3>8. \A j \in 1 .. (k + 1) : t.seen[j] = L[j]
      <4> SUFFICES ASSUME NEW j \in 1 .. (k + 1) PROVE t.seen[j] = L[j]
        OBVIOUS
      <4>1. j \in 1 .. k \/ j = k + 1
        OBVIOUS
      <4> QED BY <4>1, <3>4, <3>5, <3>6, <3>7
    <3>9. Walked(t, L, k + 1, N)
      BY <3>4, <3>5, <3>6, <3>7, <3>8 DEF Walked
    <3> QED BY <2>1, <2>3, <3>9
  <2>4. CASE k >= n
    <3>1. Walked(s, L, n, N)
      BY <2>1, <2>4, <1>1, <1>6
    <3>2. s.cursor = NONE
      BY <3>1, <1>1, <1>2 DEF Walked, At
    <3>3. t = s
      BY <3>2, <2>2 DEF Walk
    <3> QED BY <2>1, <2>4, <3>1, <3>3, <1>1
  <2> QED BY <2>3, <2>4, <1>1
<1>7. N \in S
  <2> HIDE DEF S
  <2> QED BY <1>5, <1>6, SetInduction
<1>8. Walked(go[N], L, n, N)
  BY <1>7, <1>1
<1>9. PICK q \in Seq(1 .. N) : q = go[N].seen /\ Len(q) = n /\ \A j \in 1 .. n : q[j] = L[j]
  BY <1>8 DEF Walked
<1>10. q = L
  BY <1>1, <1>2, <1>9, SeqEqual
<1> QED BY <1>1, <1>3, <1>9, <1>10, LiveSeqWalks

-----------------------------------------------------------------------------
(* Unlinking a node takes it and what its link back skips out of the list. *)

\* The list without the nodes behind the p-th up to the c-th.
Cut(L, p, c) == [k \in 1 .. (Len(L) - (c - p)) |-> IF k <= p THEN L[k] ELSE L[k + (c - p)]]

\* A list of n nodes below N with two places in it, and the list M cut between them.
Places(L, p, c, n, N) ==
  /\ N \in Nat /\ n \in Nat /\ L \in Seq(1 .. N) /\ Len(L) = n /\ c \in 1 .. n /\ p \in 0 .. (c - 1)
IsCut(M, L, p, c, n, N) ==
  /\ M \in Seq(1 .. N) /\ Len(M) = n - (c - p) /\ DOMAIN M = 1 .. (n - (c - p))
  /\ \A k \in 1 .. (n - (c - p)) :
       /\ k <= p => M[k] = L[k] /\ k \in 1 .. n
       /\ k > p => M[k] = L[k + (c - p)] /\ k + (c - p) \in (c + 1) .. n
  /\ \A k \in 0 .. p : At(M, k) = At(L, k)
  /\ \A k \in (p + 1) .. (n + 1) : At(M, k) = At(L, k + (c - p))

\* Cut does what its name says.
LEMMA CutFacts ==
  ASSUME NEW L, NEW p, NEW c, NEW n, NEW N, Places(L, p, c, n, N)
  PROVE  IsCut(Cut(L, p, c), L, p, c, n, N)
<1>1. /\ N \in Nat /\ n \in Nat /\ L \in Seq(1 .. N) /\ Len(L) = n /\ c \in 1 .. n /\ p \in 0 .. (c - 1)
      /\ DOMAIN L = 1 .. n /\ L \in [1 .. n -> 1 .. N]
  BY LenProperties DEF Places
<1>2. PICK m \in Nat, g \in Nat : m = n - g /\ g = c - p
  BY <1>1
<1>3. PICK f : f = Cut(L, p, c)
  OBVIOUS
<1>4. f = [k \in 1 .. m |-> IF k <= p THEN L[k] ELSE L[k + g]]
  BY <1>1, <1>2, <1>3 DEF Cut
<1>5. \A k \in 1 .. m : /\ k <= p => f[k] = L[k] /\ k \in 1 .. n
                        /\ k > p => f[k] = L[k + g] /\ k + g \in (c + 1) .. n
  BY <1>1, <1>2, <1>4
<1>6. \A k \in 1 .. m : f[k] \in 1 .. N
  BY <1>1, <1>2, <1>5
<1>7. f \in [1 .. m -> 1 .. N]
  BY <1>4, <1>6
<1>8. f \in Seq(1 .. N)
  BY <1>7, SeqDef
<1>9. Len(f) = m /\ DOMAIN f = 1 .. m
  BY <1>7, FunctionIsSequence
<1>10. \A k \in 0 .. p : At(f, k) = At(L, k)
  BY <1>1, <1>2, <1>5, <1>9 DEF At
<1>11. \A k \in (p + 1) .. (n + 1) : At(f, k) = At(L, k + g)
  BY <1>1, <1>2, <1>5, <1>9 DEF At
<1> QED BY <1>2, <1>3, <1>5, <1>8, <1>9, <1>10, <1>11 DEF IsCut

\* A node that may be unlinked: its link back leads to the p-th of the list.
Links(b, L, p, c) ==
  /\ Shaped(b) /\ Listing(b, L) /\ c \in 1 .. Len(L) /\ p \in 0 .. (c - 1)
  /\ b.code[L[c]].prev = At(L, p)

\* What unlinking it does to the other nodes.
Relisted(d, b, L, p, c) ==
  /\ Shaped(d) /\ Len(d.code) = Len(b.code) /\ d.terminal = b.terminal
  /\ d.head = (IF p = 0 THEN At(L, c + 1) ELSE b.head)
  /\ d.tail = (IF c = Len(L) THEN At(L, p) ELSE b.tail)
  /\ \A k \in 1 .. Len(L) : k # c =>
       /\ Operation(d.code[L[k]]) = Operation(b.code[L[k]])
       /\ d.code[L[k]].next = (IF k = p THEN At(L, c + 1) ELSE b.code[L[k]].next)
       /\ d.code[L[k]].prev = (IF k = c + 1 THEN At(L, p) ELSE b.code[L[k]].prev)

\* Unlink (ir/mod.rs) changes no operation and only the links around what goes.
LEMMA UnlinkListed ==
  ASSUME NEW b, NEW L, NEW p, NEW c, Links(b, L, p, c)
  PROVE  Relisted(Unlink(b, L[c]), b, L, p, c)
<1>0. PICK d : d = Unlink(b, L[c])
  OBVIOUS
<1>1. /\ Len(b.code) \in Nat /\ Len(L) \in Nat /\ DOMAIN L = 1 .. Len(L)
      /\ \A k \in 1 .. Len(L) : L[k] \in 1 .. Len(b.code)
  BY CodeDomain, ListingLength DEF Links
<1>2. /\ Shaped(b) /\ c \in 1 .. Len(L) /\ p \in 0 .. (c - 1) /\ b.code[L[c]].prev = At(L, p)
      /\ b.code[L[c]].next = At(L, c + 1) /\ \A j, k \in 1 .. Len(L) : L[j] = L[k] => j = k
  BY <1>1 DEF Links, Listing
<1>3. PICK i \in 1 .. Len(b.code) : i = L[c]
  BY <1>1, <1>2
<1>4. PICK x, y : x = At(L, p) /\ y = At(L, c + 1)
  OBVIOUS
<1>5. x \in 0 .. Len(b.code) /\ y \in 0 .. Len(b.code)
  BY <1>1, <1>4 DEF At, NONE
<1>6. x # i /\ y # i
  BY <1>1, <1>2, <1>3, <1>4 DEF At, NONE
<1>7. x = b.code[i].prev /\ y = b.code[i].next
  BY <1>2, <1>3, <1>4
<1>8. Without(d, b, i, x, y)
  <2>1. Between(b, i, x, y)
    BY <1>2, <1>5, <1>6, <1>7 DEF Between
  <2> QED BY <2>1, <1>0, <1>3, UnlinkFacts
<1>9. /\ p = 0 => x = NONE
      /\ p # 0 => x = L[p] /\ p \in 1 .. Len(L) /\ x # NONE
      /\ c = Len(L) => y = NONE
      /\ c # Len(L) => y = L[c + 1] /\ c + 1 \in 1 .. Len(L) /\ y # NONE
  <2>1. p = 0 \/ p \in 1 .. Len(L)
    BY <1>1, <1>2
  <2>2. /\ c = Len(L) => c + 1 \notin 1 .. Len(L)
        /\ c # Len(L) => c + 1 \in 1 .. Len(L)
    <3>1. PICK n \in Nat : n = Len(L)
      BY <1>1
    <3>2. c \in 1 .. n
      BY <3>1, <1>2
    <3> QED BY ONLY <3>1, <3>2
  <2>3. \A k \in 1 .. Len(L) : L[k] # NONE
    BY <1>1 DEF NONE
  <2> QED BY <2>1, <2>2, <2>3, <1>1, <1>4 DEF At
<1>10. ASSUME NEW k \in 1 .. Len(L)
       PROVE  (L[k] = i <=> k = c) /\ (L[k] = x <=> k = p) /\ (L[k] = y <=> k = c + 1)
  <2>1. L[k] # NONE
    BY <1>1 DEF NONE
  <2>2. L[k] = i <=> k = c
    BY <1>2, <1>3
  <2>3. L[k] = x <=> k = p
    BY <2>1, <1>2, <1>9
  <2>4. L[k] = y <=> k = c + 1
    <3>1. c = Len(L) => k # c + 1
      BY <1>1
    <3> QED BY <3>1, <2>1, <1>2, <1>9
  <2> QED BY <2>2, <2>3, <2>4
<1>11. ASSUME NEW k \in 1 .. Len(L), k # c
       PROVE  /\ Operation(d.code[L[k]]) = Operation(b.code[L[k]])
              /\ d.code[L[k]].next = (IF k = p THEN y ELSE b.code[L[k]].next)
              /\ d.code[L[k]].prev = (IF k = c + 1 THEN x ELSE b.code[L[k]].prev)
  <2>1. PICK j \in 1 .. Len(b.code) : j = L[k]
    BY <1>1
  <2>2. j # i /\ (j = x <=> k = p) /\ (j = y <=> k = c + 1)
    BY <2>1, <1>10, <1>11
  <2> QED BY <2>1, <2>2, <1>8 DEF Without
<1>12. (x = NONE <=> p = 0) /\ (y = NONE <=> c = Len(L))
  BY <1>9
<1> QED BY <1>0, <1>4, <1>8, <1>11, <1>12 DEF Without, Relisted

\* What is left is listed in the same order, without the places the stale link skips.
LEMMA CutListing ==
  ASSUME NEW b, NEW L, NEW p, NEW c, Links(b, L, p, c)
  PROVE  Listing(Unlink(b, L[c]), Cut(L, p, c))
<1>1. PICK N \in Nat, n \in Nat : /\ N = Len(b.code) /\ n = Len(L) /\ DOMAIN L = 1 .. n
                                  /\ L \in Seq(1 .. N)
  BY CodeDomain, ListingLength DEF Links, Listing
<1>2. /\ c \in 1 .. n /\ p \in 0 .. (c - 1) /\ b.head = At(L, 1) /\ b.tail = At(L, n)
      /\ \A j, k \in 1 .. n : L[j] = L[k] => j = k
      /\ \A k \in 1 .. n : b.code[L[k]].next = At(L, k + 1)
  BY <1>1 DEF Links, Listing
<1>3. PICK d, M, m : d = Unlink(b, L[c]) /\ M = Cut(L, p, c) /\ m = n - (c - p)
  OBVIOUS
<1>4. IsCut(M, L, p, c, n, N)
  <2>1. Places(L, p, c, n, N)
    BY <1>1, <1>2 DEF Places
  <2> QED BY <2>1, <1>3, CutFacts
<1>5. /\ M \in Seq(1 .. N) /\ Len(M) = m /\ DOMAIN M = 1 .. m
      /\ \A k \in 1 .. m : /\ k <= p => M[k] = L[k] /\ k \in 1 .. n
                           /\ k > p => M[k] = L[k + (c - p)] /\ k + (c - p) \in (c + 1) .. n
      /\ \A k \in 0 .. p : At(M, k) = At(L, k)
      /\ \A k \in (p + 1) .. (n + 1) : At(M, k) = At(L, k + (c - p))
  BY <1>3, <1>4 DEF IsCut
<1>6. /\ Len(d.code) = N
      /\ d.head = (IF p = 0 THEN At(L, c + 1) ELSE At(L, 1))
      /\ d.tail = (IF c = n THEN At(L, p) ELSE At(L, n))
      /\ \A k \in 1 .. n : k # c =>
           d.code[L[k]].next = (IF k = p THEN At(L, c + 1) ELSE At(L, k + 1))
  <2>1. Relisted(d, b, L, p, c)
    BY <1>3, UnlinkListed
  <2> QED BY <2>1, <1>1, <1>2 DEF Relisted
<1>7. ASSUME NEW j \in 1 .. m, NEW k \in 1 .. m, M[j] = M[k] PROVE j = k
  <2>1. PICK x \in 1 .. n : M[j] = L[x] /\ x = (IF j <= p THEN j ELSE j + (c - p))
    <3>1. CASE j <= p
      BY <3>1, <1>5
    <3>2. CASE ~(j <= p)
      <4>1. j > p
        BY <3>2, <1>2
      <4>2. M[j] = L[j + (c - p)] /\ j + (c - p) \in (c + 1) .. n
        BY <4>1, <1>5
      <4>3. j + (c - p) \in 1 .. n
        BY <4>2, <1>2
      <4> QED BY <4>2, <4>3, <3>2
    <3> QED BY <3>1, <3>2
  <2>2. PICK y \in 1 .. n : M[k] = L[y] /\ y = (IF k <= p THEN k ELSE k + (c - p))
    <3>1. CASE k <= p
      BY <3>1, <1>5
    <3>2. CASE ~(k <= p)
      <4>1. k > p
        BY <3>2, <1>2
      <4>2. M[k] = L[k + (c - p)] /\ k + (c - p) \in (c + 1) .. n
        BY <4>1, <1>5
      <4>3. k + (c - p) \in 1 .. n
        BY <4>2, <1>2
      <4> QED BY <4>2, <4>3, <3>2
    <3> QED BY <3>1, <3>2
  <2>3. x = y
    BY <2>1, <2>2, <1>2, <1>7
  <2>4. p \in Int /\ c \in Int /\ p < c /\ j \in Int /\ k \in Int
    BY <1>2
  <2> QED BY <2>1, <2>2, <2>3, <2>4
<1>8. d.head = At(M, 1)
  <2>1. p = 0 => 1 \in (p + 1) .. (n + 1) /\ 1 + (c - p) = c + 1
    BY <1>2
  <2>2. p # 0 => 1 \in 0 .. p
    BY <1>2
  <2> QED BY <2>1, <2>2, <1>2, <1>5, <1>6
<1>9. d.tail = At(M, m)
  <2>1. c = n => m = p /\ m \in 0 .. p
    BY <1>2, <1>3
  <2>2. c # n => m \in (p + 1) .. (n + 1) /\ m + (c - p) = n
    BY <1>2, <1>3
  <2> QED BY <2>1, <2>2, <1>2, <1>5, <1>6
<1>10. ASSUME NEW k \in 1 .. m PROVE d.code[M[k]].next = At(M, k + 1)
  <2>1. CASE k < p
    <3>0. k \in Nat /\ k >= 1 /\ k <= p /\ p <= n
      BY <2>1, <1>2
    <3>1. M[k] = L[k] /\ k \in 1 .. n /\ k # c /\ k # p /\ k + 1 \in 0 .. p
      <4>1. M[k] = L[k]
        BY <3>0, <1>5
      <4>2. k \in 1 .. n /\ k # c /\ k # p /\ k + 1 \in 0 .. p
        BY <2>1, <3>0, <1>2
      <4> QED BY <4>1, <4>2
    <3> QED BY <3>1, <1>5, <1>6
  <2>2. CASE k = p
    <3>1. M[k] = L[k] /\ k \in 1 .. n
      BY <2>2, <1>2, <1>5
    <3>2. k # c /\ k + 1 \in (p + 1) .. (n + 1) /\ (k + 1) + (c - p) = c + 1
      BY <2>2, <1>2
    <3> QED BY <3>1, <3>2, <2>2, <1>5, <1>6
  <2>3. CASE k > p
    <3>1. PICK j \in (c + 1) .. n : j = k + (c - p) /\ M[k] = L[j]
      BY <2>3, <1>2, <1>3, <1>5
    <3>2. j \in 1 .. n /\ j # c /\ j # p /\ k + 1 \in (p + 1) .. (n + 1) /\ (k + 1) + (c - p) = j + 1
      BY <2>3, <3>1, <1>2, <1>3
    <3> QED BY <3>1, <3>2, <1>5, <1>6
  <2> QED BY <2>1, <2>2, <2>3, <1>2
<1> QED BY <1>1, <1>3, <1>5, <1>6, <1>7, <1>8, <1>9, <1>10 DEF Listing

\* The places of the nodes that are left.
LEMMA CutPlaces ==
  ASSUME NEW M, NEW L, NEW p, NEW c, NEW n, NEW N, Places(L, p, c, n, N), IsCut(M, L, p, c, n, N)
  PROVE  /\ DOMAIN M = 1 .. (n - (c - p)) /\ Len(M) = n - (c - p)
         /\ \A k \in DOMAIN M :
              /\ k <= p => M[k] = L[k] /\ k \in 1 .. n /\ k # c
              /\ k > p => \E i \in (c + 1) .. n : i = k + (c - p) /\ M[k] = L[i]
         /\ \A i \in 1 .. p : i \in DOMAIN M /\ M[i] = L[i]
         /\ \A i \in (c + 1) .. n : i - (c - p) \in DOMAIN M /\ M[i - (c - p)] = L[i]
<1>1. N \in Nat /\ n \in Nat /\ c \in 1 .. n /\ p \in 0 .. (c - 1)
  BY DEF Places
<1>2. PICK g \in Nat, m \in Nat : g = c - p /\ m = n - g
  BY <1>1
<1>3. /\ DOMAIN M = 1 .. m /\ Len(M) = m
      /\ \A k \in 1 .. m : /\ k <= p => M[k] = L[k] /\ k \in 1 .. n
                           /\ k > p => M[k] = L[k + g] /\ k + g \in (c + 1) .. n
  BY <1>2 DEF IsCut
<1>4. ASSUME NEW k \in 1 .. m
      PROVE  /\ k <= p => M[k] = L[k] /\ k \in 1 .. n /\ k # c
             /\ k > p => \E i \in (c + 1) .. n : i = k + g /\ M[k] = L[i]
  BY <1>1, <1>3
<1>5. ASSUME NEW i \in 1 .. p PROVE i \in 1 .. m /\ M[i] = L[i]
  <2>1. i \in 1 .. m /\ i <= p
    BY <1>1, <1>2
  <2> QED BY <2>1, <1>3
<1>6. ASSUME NEW i \in (c + 1) .. n PROVE i - g \in 1 .. m /\ M[i - g] = L[i]
  <2>1. i - g \in 1 .. m /\ i - g > p /\ (i - g) + g = i
    BY <1>1, <1>2
  <2> QED BY <2>1, <1>3
<1> QED BY <1>2, <1>3, <1>4, <1>5, <1>6

\* The nodes behind the p-th up to the c-th have no effects and serve none of the others.
Dead(b, L, p, c) == \A j \in (p + 1) .. c : Within(b, L, j, c)

\* A cut of a block, with everything that is known of it.
CutOf(d, M, b, L, p, c, n, N) ==
  /\ n = Len(L) /\ N = Len(b.code) /\ Places(L, p, c, n, N) /\ DOMAIN L = 1 .. n
  /\ \A j, k \in 1 .. n : L[j] = L[k] => j = k
  /\ d = Unlink(b, L[c]) /\ M = Cut(L, p, c)
  /\ IsCut(M, L, p, c, n, N) /\ Relisted(d, b, L, p, c) /\ Listing(d, M)

\* Unlinking a listed node is a cut of the list.
LEMMA CutExists ==
  ASSUME NEW b, NEW L, NEW p, NEW c, Links(b, L, p, c)
  PROVE  CutOf(Unlink(b, L[c]), Cut(L, p, c), b, L, p, c, Len(L), Len(b.code))
<1>1. /\ Len(b.code) \in Nat /\ Len(L) \in Nat /\ DOMAIN L = 1 .. Len(L) /\ L \in Seq(1 .. Len(b.code))
      /\ \A j, k \in 1 .. Len(L) : L[j] = L[k] => j = k
  BY CodeDomain, ListingLength DEF Links, Listing
<1>2. Places(L, p, c, Len(L), Len(b.code))
  BY <1>1 DEF Places, Links
<1> QED BY <1>1, <1>2, CutFacts, UnlinkListed, CutListing DEF CutOf

\* The operands of the nodes that are left.
LEMMA CutOperands ==
  ASSUME NEW d, NEW M, NEW b, NEW L, NEW p, NEW c, NEW n, NEW N, CutOf(d, M, b, L, p, c, n, N)
  PROVE  /\ \A i \in 1 .. n : i # c =>
              /\ d.code[L[i]].op = b.code[L[i]].op
              /\ d.code[L[i]].args = b.code[L[i]].args
              /\ Operands(d, L[i]) = Operands(b, L[i])
         /\ TerminalOperands(d) = TerminalOperands(b)
<1>1. d.terminal = b.terminal /\ \A i \in 1 .. n : i # c => Operation(d.code[L[i]]) = Operation(b.code[L[i]])
  BY DEF CutOf, Relisted
<1>2. ASSUME NEW i \in 1 .. n, i # c
      PROVE  d.code[L[i]].op = b.code[L[i]].op /\ d.code[L[i]].args = b.code[L[i]].args
  BY <1>1, <1>2, SameOperation
<1> QED BY <1>1, <1>2 DEF Operands, TerminalOperands

\* Operands stay in front of their uses.
LEMMA CutOrdered ==
  ASSUME NEW d, NEW M, NEW b, NEW L, NEW p, NEW c, NEW n, NEW N, CutOf(d, M, b, L, p, c, n, N),
         Ordered(b, L), Dead(b, L, p, c)
  PROVE  Ordered(d, M)
<1>1. /\ n = Len(L) /\ n \in Nat /\ c \in 1 .. n /\ p \in 0 .. (c - 1) /\ DOMAIN L = 1 .. n
  BY DEF CutOf, Places
<1>2. PICK g \in Nat, m \in Nat : g = c - p /\ m = n - g
  <2>1. c - p \in Nat /\ n - (c - p) \in Nat
    BY <1>1
  <2> QED BY <2>1
<1>3. /\ DOMAIN M = 1 .. m /\ Len(M) = m
      /\ \A k \in 1 .. m : /\ k <= p => M[k] = L[k] /\ k \in 1 .. n /\ k # c
                           /\ k > p => \E i \in (c + 1) .. n : i = k + g /\ M[k] = L[i]
      /\ \A i \in 1 .. p : i \in 1 .. m /\ M[i] = L[i]
      /\ \A i \in (c + 1) .. n : i - g \in 1 .. m /\ M[i - g] = L[i]
  <2>1. Places(L, p, c, n, N) /\ IsCut(M, L, p, c, n, N)
    BY DEF CutOf
  <2>2. /\ DOMAIN M = 1 .. (n - (c - p)) /\ Len(M) = n - (c - p)
        /\ \A k \in DOMAIN M :
             /\ k <= p => M[k] = L[k] /\ k \in 1 .. n /\ k # c
             /\ k > p => \E i \in (c + 1) .. n : i = k + (c - p) /\ M[k] = L[i]
        /\ \A i \in 1 .. p : i \in DOMAIN M /\ M[i] = L[i]
        /\ \A i \in (c + 1) .. n : i - (c - p) \in DOMAIN M /\ M[i - (c - p)] = L[i]
    BY <2>1, CutPlaces
  <2>3. c - p = g /\ n - (c - p) = m
    BY <1>2
  <2>4. DOMAIN M = 1 .. m
    BY <2>2, <2>3, Zenon
  <2>5. ASSUME NEW k \in 1 .. m, k > p PROVE \E i \in (c + 1) .. n : i = k + g /\ M[k] = L[i]
    <3>1. PICK i \in (c + 1) .. n : i = k + (c - p) /\ M[k] = L[i]
      BY <2>2, <2>4, <2>5
    <3> QED BY <2>3, <3>1
  <2>6. ASSUME NEW i \in (c + 1) .. n PROVE i - g \in 1 .. m /\ M[i - g] = L[i]
    <3>1. i - (c - p) \in 1 .. m /\ M[i - (c - p)] = L[i]
      BY <2>2, <2>4
    <3> QED BY <2>3, <3>1
  <2>7. \A k \in 1 .. m : k <= p => M[k] = L[k] /\ k \in 1 .. n /\ k # c
    BY <2>2, <2>4
  <2>8. \A i \in 1 .. p : i \in 1 .. m /\ M[i] = L[i]
    BY <2>2, <2>4
  <2>9. Len(M) = m
    BY <2>2, <2>3
  <2> QED BY <2>4, <2>5, <2>6, <2>7, <2>8, <2>9
<1>4. /\ \A i \in 1 .. n : i # c => Operands(d, L[i]) = Operands(b, L[i])
      /\ TerminalOperands(d) = TerminalOperands(b)
  BY CutOperands
<1>5. /\ \A k \in 1 .. n : Operands(b, L[k]) \subseteq {L[j] : j \in 1 .. (k - 1)}
      /\ TerminalOperands(b) \subseteq {L[j] : j \in 1 .. n}
  <2>1. \A k \in 1 .. n : Operands(b, L[k]) \subseteq {L[j] : j \in 1 .. (k - 1)}
    BY <1>1 DEF Ordered
  <2>2. TerminalOperands(b) \subseteq {L[j] : j \in 1 .. ((n + 1) - 1)}
    BY <1>1 DEF Ordered
  <2>3. (n + 1) - 1 = n
    BY <1>1
  <2> QED BY <2>1, <2>2, <2>3
<1>6. /\ \A j \in (p + 1) .. c : \A i \in 1 .. n : L[j] \in Operands(b, L[i]) => i <= c
      /\ \A j \in (p + 1) .. c : L[j] \notin TerminalOperands(b)
  BY <1>1 DEF Dead, Within
<1>7. ASSUME NEW k \in 1 .. m, NEW v \in Operands(d, M[k])
      PROVE  v \in {M[j] : j \in 1 .. (k - 1)}
  <2>1. CASE k <= p
    <3>1. k \in 1 .. n /\ k # c /\ v \in Operands(b, L[k])
      BY <2>1, <1>3, <1>4, <1>7
    <3>2. PICK j \in 1 .. (k - 1) : v = L[j]
      BY <3>1, <1>5
    <3>3. j \in 1 .. p
      BY <2>1, <1>1
    <3> QED BY <3>2, <3>3, <1>3
  <2>2. CASE k > p
    <3>1. PICK i \in (c + 1) .. n : i = k + g /\ M[k] = L[i]
      BY <2>2, <1>3
    <3>2. i \in 1 .. n /\ i # c
      BY <1>1
    <3>3. v \in Operands(b, L[i])
      BY <3>1, <3>2, <1>4, <1>7
    <3>4. PICK j \in 1 .. (i - 1) : v = L[j]
      BY <3>2, <3>3, <1>5
    <3>5. j \notin (p + 1) .. c
      <4>1. j \in (p + 1) .. c => i <= c
        BY <3>2, <3>3, <3>4, <1>6
      <4> QED BY <4>1, <1>1
    <3>6. CASE j <= p
      <4>1. j \in 1 .. p /\ j \in 1 .. (k - 1)
        BY <3>6, <2>2, <1>1
      <4> QED BY <4>1, <3>4, <1>3
    <3>7. CASE j > p
      <4>1. j \in (c + 1) .. n /\ j - g \in 1 .. (k - 1)
        BY <3>7, <3>5, <3>1, <1>1, <1>2
      <4> QED BY <4>1, <3>4, <1>3
    <3> QED BY <3>6, <3>7, <1>1
  <2> QED BY <2>1, <2>2, <1>1
<1>8. ASSUME NEW v \in TerminalOperands(d) PROVE v \in {M[j] : j \in 1 .. m}
  <2>1. PICK j \in 1 .. n : v = L[j]
    BY <1>4, <1>5, <1>8
  <2>2. j \notin (p + 1) .. c
    BY <2>1, <1>4, <1>6, <1>8
  <2>3. j \in 1 .. p \/ j \in (c + 1) .. n
    BY <2>2, <1>1
  <2> QED BY <2>1, <2>3, <1>3
<1>9. \A k \in 1 .. m : Operands(d, M[k]) \subseteq {M[j] : j \in 1 .. (k - 1)}
  BY <1>7
<1>10. (m + 1) - 1 = m
  OBVIOUS
<1> QED BY <1>3, <1>8, <1>9, <1>10 DEF Ordered

\* Links back from the nodes in front of the cut stay good.
LEMMA CutLinkBack ==
  ASSUME NEW d, NEW M, NEW b, NEW L, NEW p, NEW c, NEW n, NEW N, CutOf(d, M, b, L, p, c, n, N),
         NEW k \in 1 .. p, LinkBack(b, L, k)
  PROVE  LinkBack(d, M, k)
<1>1. /\ n = Len(L) /\ n \in Nat /\ c \in 1 .. n /\ p \in 0 .. (c - 1) /\ DOMAIN L = 1 .. n
  BY DEF CutOf, Places
<1>2. PICK q \in 0 .. (k - 1) : /\ b.code[L[k]].prev = At(L, q)
                                /\ \A j \in (q + 1) .. (k - 1) : Within(b, L, j, k)
  BY DEF LinkBack
<1>3. /\ \A i \in 1 .. p : i \in DOMAIN M /\ M[i] = L[i]
      /\ At(M, q) = At(L, q)
  <2>1. q \in 0 .. p
    BY <1>1, <1>2
  <2> QED BY <2>1, CutPlaces DEF CutOf, IsCut
<1>4. d.code[M[k]].prev = At(M, q)
  <2>1. k \in 1 .. n /\ k # c /\ k # c + 1
    BY <1>1
  <2> QED BY <2>1, <1>1, <1>2, <1>3 DEF CutOf, Relisted
<1>5. ASSUME NEW j \in (q + 1) .. (k - 1) PROVE Within(d, M, j, k)
  <2>1. Within(b, L, j, k)
    BY <1>2
  <2>2. j \in 1 .. p /\ j \in 1 .. n /\ j # c
    BY <1>1
  <2>3. M[j] = L[j] /\ d.code[L[j]].op = b.code[L[j]].op
    BY <2>2, <1>3, CutOperands
  <2>4. ASSUME NEW i \in DOMAIN M, M[j] \in Operands(d, M[i]) PROVE i <= k
    <3>1. CASE i <= p
      <4>1. M[i] = L[i] /\ i \in 1 .. n /\ i # c
        BY <3>1, CutPlaces DEF CutOf
      <4>2. L[j] \in Operands(b, L[i])
        BY <4>1, <2>3, <2>4, CutOperands
      <4> QED BY <4>1, <4>2, <2>1, <1>1 DEF Within
    <3>2. CASE i > p
      <4>1. PICK h \in (c + 1) .. n : h = i + (c - p) /\ M[i] = L[h]
        BY <3>2, CutPlaces DEF CutOf
      <4>2. h \in 1 .. n /\ h # c
        BY <1>1
      <4>3. L[j] \in Operands(b, L[h])
        BY <4>1, <4>2, <2>3, <2>4, CutOperands
      <4>4. h <= k
        BY <4>2, <4>3, <2>1, <1>1 DEF Within
      <4> QED BY <4>4, <1>1
    <3>3. i \in Int
      BY CutPlaces DEF CutOf
    <3> QED BY <3>1, <3>2, <3>3, <1>1
  <2>5. M[j] \notin TerminalOperands(d)
    BY <2>1, <2>3, CutOperands DEF Within
  <2> QED BY <2>1, <2>3, <2>4, <2>5 DEF Within
<1> QED BY <1>4, <1>5, <1>2 DEF LinkBack

-----------------------------------------------------------------------------
(* The use counts.                                                         *)

\* The places of v among operands.
Occurs(args, v, k) == {q \in 1 .. k : args[q] = v}

\* Their number grows by one where v is.
LEMMA OccursCount ==
  ASSUME NEW args, NEW v, NEW k \in Nat
  PROVE  /\ IsFiniteSet(Occurs(args, v, k)) /\ Cardinality(Occurs(args, v, k)) \in Nat
         /\ Cardinality(Occurs(args, v, 0)) = 0
         /\ Cardinality(Occurs(args, v, k + 1)) =
              Cardinality(Occurs(args, v, k)) + (IF args[k + 1] = v THEN 1 ELSE 0)
<1>1. IsFiniteSet(1 .. k)
  BY FS_Interval
<1>2. Occurs(args, v, k) \in SUBSET (1 .. k)
  BY DEF Occurs
<1>3. IsFiniteSet(Occurs(args, v, k))
  BY <1>1, <1>2, FS_Subset
<1>4. Cardinality(Occurs(args, v, k)) \in Nat
  BY <1>3, FS_CardinalityType
<1>5. Occurs(args, v, 0) = {}
  BY DEF Occurs
<1>6. CASE args[k + 1] = v
  <2>1. Occurs(args, v, k + 1) = Occurs(args, v, k) \cup {k + 1}
    BY <1>6 DEF Occurs
  <2>2. k + 1 \notin Occurs(args, v, k)
    BY DEF Occurs
  <2>3. Cardinality(Occurs(args, v, k) \cup {k + 1}) = Cardinality(Occurs(args, v, k)) + 1
    BY <1>3, <2>2, FS_AddElement
  <2> QED BY <1>3, <1>4, <1>5, <1>6, <2>1, <2>3, FS_EmptySet
<1>7. CASE args[k + 1] # v
  <2>1. Occurs(args, v, k + 1) = Occurs(args, v, k)
    <3>1. \A q \in 1 .. (k + 1) : q \in 1 .. k \/ q = k + 1
      OBVIOUS
    <3>2. \A q \in 1 .. k : q \in 1 .. (k + 1)
      OBVIOUS
    <3> QED BY <3>1, <3>2, <1>7 DEF Occurs
  <2> QED BY <1>3, <1>4, <1>5, <1>7, <2>1, FS_EmptySet
<1> QED BY <1>6, <1>7

\* The counts for the values 1 .. N.
Counts(N) == [1 .. N -> 0 .. UsesMax]

\* One use more and one less.
More(u, v) == [u EXCEPT ![v] = SatInc(@)]
Less(u, v) == [u EXCEPT ![v] = SatDec(@)]

\* The functions AddUses and DropUses look for.
Added(u, args, n) == CHOOSE go : go = [k \in 0 .. n |-> IF k = 0 THEN u ELSE More(go[k - 1], args[k])]
Dropped(u, args, n) == CHOOSE go : go = [k \in 0 .. n |-> IF k = 0 THEN u ELSE Less(go[k - 1], args[k])]

\* They exist.
LEMMA AddedExists ==
  ASSUME NEW u, NEW args, NEW n \in Nat
  PROVE  /\ Added(u, args, n)[0] = u
         /\ \A k \in 1 .. n : Added(u, args, n)[k] = More(Added(u, args, n)[k - 1], args[k])
<1> DEFINE S == {m \in Nat : \E g : g = [k \in 0 .. m |-> IF k = 0 THEN u ELSE More(g[k - 1], args[k])]}
<1>1. 0 \in S
  <2>1. PICK g : g = [k \in 0 .. 0 |-> u]
    OBVIOUS
  <2>2. g = [k \in 0 .. 0 |-> IF k = 0 THEN u ELSE More(g[k - 1], args[k])]
    BY <2>1
  <2> QED BY <2>2
<1>2. ASSUME NEW m \in Nat, m \in S PROVE m + 1 \in S
  <2>1. PICK g : g = [k \in 0 .. m |-> IF k = 0 THEN u ELSE More(g[k - 1], args[k])]
    BY <1>2
  <2>2. PICK h : h = [k \in 0 .. (m + 1) |-> IF k <= m THEN g[k] ELSE More(g[m], args[k])]
    OBVIOUS
  <2>3. \A k \in 0 .. m : h[k] = g[k]
    BY <2>2
  <2>4. \A k \in 0 .. m : g[k] = IF k = 0 THEN u ELSE More(g[k - 1], args[k])
    BY <2>1
  <2>5. ASSUME NEW k \in 0 .. (m + 1) PROVE h[k] = IF k = 0 THEN u ELSE More(h[k - 1], args[k])
    <3>1. CASE k = 0
      BY <3>1, <2>3, <2>4
    <3>2. CASE k \in 1 .. m
      <4>1. k - 1 \in 0 .. m /\ k \in 0 .. m /\ k # 0
        BY <3>2
      <4> QED BY <4>1, <2>3, <2>4
    <3>3. CASE k = m + 1
      <4>1. k - 1 = m /\ k # 0 /\ m \in 0 .. m /\ h[k] = More(g[m], args[k])
        BY <3>3, <2>2
      <4> QED BY <4>1, <2>3
    <3> QED BY <3>1, <3>2, <3>3
  <2>6. h = [k \in 0 .. (m + 1) |-> IF k = 0 THEN u ELSE More(h[k - 1], args[k])]
    BY <2>2, <2>5, Zenon
  <2> QED BY <2>6
<1>3. n \in S
  <2> HIDE DEF S
  <2> QED BY <1>1, <1>2, SetInduction
<1>4. PICK g : g = [k \in 0 .. n |-> IF k = 0 THEN u ELSE More(g[k - 1], args[k])]
  BY <1>3
<1>5. Added(u, args, n) = [k \in 0 .. n |-> IF k = 0 THEN u ELSE More(Added(u, args, n)[k - 1], args[k])]
  BY <1>4 DEF Added
<1>6. \A k \in 0 .. n : Added(u, args, n)[k] = IF k = 0 THEN u ELSE More(Added(u, args, n)[k - 1], args[k])
  BY <1>5
<1> QED BY <1>6

\* They exist.
LEMMA DroppedExists ==
  ASSUME NEW u, NEW args, NEW n \in Nat
  PROVE  /\ Dropped(u, args, n)[0] = u
         /\ \A k \in 1 .. n : Dropped(u, args, n)[k] = Less(Dropped(u, args, n)[k - 1], args[k])
<1> DEFINE S == {m \in Nat : \E g : g = [k \in 0 .. m |-> IF k = 0 THEN u ELSE Less(g[k - 1], args[k])]}
<1>1. 0 \in S
  <2>1. PICK g : g = [k \in 0 .. 0 |-> u]
    OBVIOUS
  <2>2. g = [k \in 0 .. 0 |-> IF k = 0 THEN u ELSE Less(g[k - 1], args[k])]
    BY <2>1
  <2> QED BY <2>2
<1>2. ASSUME NEW m \in Nat, m \in S PROVE m + 1 \in S
  <2>1. PICK g : g = [k \in 0 .. m |-> IF k = 0 THEN u ELSE Less(g[k - 1], args[k])]
    BY <1>2
  <2>2. PICK h : h = [k \in 0 .. (m + 1) |-> IF k <= m THEN g[k] ELSE Less(g[m], args[k])]
    OBVIOUS
  <2>3. \A k \in 0 .. m : h[k] = g[k]
    BY <2>2
  <2>4. \A k \in 0 .. m : g[k] = IF k = 0 THEN u ELSE Less(g[k - 1], args[k])
    BY <2>1
  <2>5. ASSUME NEW k \in 0 .. (m + 1) PROVE h[k] = IF k = 0 THEN u ELSE Less(h[k - 1], args[k])
    <3>1. CASE k = 0
      BY <3>1, <2>3, <2>4
    <3>2. CASE k \in 1 .. m
      <4>1. k - 1 \in 0 .. m /\ k \in 0 .. m /\ k # 0
        BY <3>2
      <4> QED BY <4>1, <2>3, <2>4
    <3>3. CASE k = m + 1
      <4>1. k - 1 = m /\ k # 0 /\ m \in 0 .. m /\ h[k] = Less(g[m], args[k])
        BY <3>3, <2>2
      <4> QED BY <4>1, <2>3
    <3> QED BY <3>1, <3>2, <3>3
  <2>6. h = [k \in 0 .. (m + 1) |-> IF k = 0 THEN u ELSE Less(h[k - 1], args[k])]
    BY <2>2, <2>5, Zenon
  <2> QED BY <2>6
<1>3. n \in S
  <2> HIDE DEF S
  <2> QED BY <1>1, <1>2, SetInduction
<1>4. PICK g : g = [k \in 0 .. n |-> IF k = 0 THEN u ELSE Less(g[k - 1], args[k])]
  BY <1>3
<1>5. Dropped(u, args, n) = [k \in 0 .. n |-> IF k = 0 THEN u ELSE Less(Dropped(u, args, n)[k - 1], args[k])]
  BY <1>4 DEF Dropped
<1>6. \A k \in 0 .. n : Dropped(u, args, n)[k] = IF k = 0 THEN u ELSE Less(Dropped(u, args, n)[k - 1], args[k])
  BY <1>5
<1> QED BY <1>6

\* Counting the operands of a node is the last of the counts.
LEMMA AddUsesAdded ==
  ASSUME NEW u, NEW args
  PROVE  AddUses(u, args) = Added(u, args, Len(args))[Len(args)]
BY DEF AddUses, Added, More

\* And so is dropping them.
LEMMA DropUsesDropped ==
  ASSUME NEW u, NEW args
  PROVE  DropUses(u, args) = Dropped(u, args, Len(args))[Len(args)]
BY DEF DropUses, Dropped, Less

\* Counts and operands of a block with N nodes.
Countable(u, args, N) == N \in Nat /\ u \in Counts(N) /\ args \in Seq(1 .. N)

\* A use more or less is a count again.
LEMMA OneUse ==
  ASSUME NEW N, NEW u \in Counts(N), NEW v \in 1 .. N
  PROVE  /\ More(u, v) \in Counts(N) /\ Less(u, v) \in Counts(N)
         /\ \A w \in 1 .. N : /\ More(u, v)[w] = IF w = v THEN SatInc(u[w]) ELSE u[w]
                              /\ Less(u, v)[w] = IF w = v THEN SatDec(u[w]) ELSE u[w]
<1>1. \A k \in 0 .. UsesMax : SatInc(k) \in 0 .. UsesMax /\ SatDec(k) \in 0 .. UsesMax
  BY UsesMaxAssumption DEF SatInc, SatDec
<1>2. u[v] \in 0 .. UsesMax
  BY DEF Counts
<1> QED BY <1>1, <1>2 DEF More, Less, Counts

\* Counting operands: a count grows by the number of places of the value, or is at the limit.
LEMMA AddUsesCounts ==
  ASSUME NEW u, NEW args, NEW N, Countable(u, args, N)
  PROVE  /\ AddUses(u, args) \in Counts(N)
         /\ \A v \in 1 .. N : \/ AddUses(u, args)[v] = UsesMax
                              \/ AddUses(u, args)[v] >= u[v] + Cardinality(Occurs(args, v, Len(args)))
<1>1. PICK n \in Nat : n = Len(args) /\ \A k \in 1 .. n : args[k] \in 1 .. N
  <2>1. args \in Seq(1 .. N)
    BY DEF Countable
  <2> QED BY <2>1, LenProperties, ElementOfSeq
<1>2. N \in Nat /\ u \in Counts(N)
  BY DEF Countable
<1>3. PICK g : g = Added(u, args, n)
  OBVIOUS
<1>4. g[0] = u /\ \A k \in 1 .. n : g[k] = More(g[k - 1], args[k])
  BY <1>3, AddedExists
<1> DEFINE S == {k \in Nat : k <= n =>
                   /\ g[k] \in Counts(N)
                   /\ \A v \in 1 .. N : \/ g[k][v] = UsesMax
                                        \/ g[k][v] >= u[v] + Cardinality(Occurs(args, v, k))}
<1>5. 0 \in S
  <2>1. \A v \in 1 .. N : u[v] \in Int /\ Cardinality(Occurs(args, v, 0)) = 0
    BY <1>2, OccursCount DEF Counts
  <2>2. \A v \in 1 .. N : g[0][v] >= u[v] + Cardinality(Occurs(args, v, 0))
    BY <1>4, <2>1
  <2> QED BY <1>2, <1>4, <2>2
<1>6. ASSUME NEW k \in Nat, k \in S PROVE k + 1 \in S
  <2> SUFFICES ASSUME k + 1 <= n
               PROVE  /\ g[k + 1] \in Counts(N)
                      /\ \A v \in 1 .. N : \/ g[k + 1][v] = UsesMax
                                           \/ g[k + 1][v] >= u[v] + Cardinality(Occurs(args, v, k + 1))
    OBVIOUS
  <2>1. k + 1 \in 1 .. n /\ (k + 1) - 1 = k
    OBVIOUS
  <2>0. PICK f : f = g[k]
    OBVIOUS
  <2>2. PICK x \in 1 .. N : f = g[k] /\ x = args[k + 1] /\ g[k + 1] = More(f, x)
    BY <2>0, <2>1, <1>1, <1>4
  <2>3. f \in Counts(N) /\ \A v \in 1 .. N : f[v] = UsesMax \/ f[v] >= u[v] + Cardinality(Occurs(args, v, k))
    BY <1>6, <2>2
  <2>4. /\ More(f, x) \in Counts(N)
        /\ \A w \in 1 .. N : More(f, x)[w] = IF w = x THEN SatInc(f[w]) ELSE f[w]
    BY <2>3, OneUse
  <2>5. ASSUME NEW v \in 1 .. N
        PROVE  \/ g[k + 1][v] = UsesMax
               \/ g[k + 1][v] >= u[v] + Cardinality(Occurs(args, v, k + 1))
    <3>1. PICK o \in Nat, o2 \in Nat : /\ o = Cardinality(Occurs(args, v, k))
                                       /\ o2 = Cardinality(Occurs(args, v, k + 1))
                                       /\ o2 = o + (IF x = v THEN 1 ELSE 0)
      BY <2>2, OccursCount
    <3>2. f[v] \in 0 .. UsesMax /\ u[v] \in 0 .. UsesMax
      BY <2>3, <1>2 DEF Counts
    <3>3. f[v] = UsesMax \/ f[v] >= u[v] + o
      BY <2>3, <3>1
    <3>4. g[k + 1][v] = IF v = x THEN SatInc(f[v]) ELSE f[v]
      BY <2>2, <2>4
    <3>5. g[k + 1][v] = UsesMax \/ g[k + 1][v] >= u[v] + o2
      BY <3>1, <3>2, <3>3, <3>4, UsesMaxAssumption DEF SatInc
    <3> QED BY <3>1, <3>5
  <2> QED BY <2>2, <2>4, <2>5
<1>7. n \in S
  <2> HIDE DEF S
  <2> QED BY <1>5, <1>6, SetInduction
<1> QED BY <1>1, <1>3, <1>7, AddUsesAdded

\* Dropping operands: a count shrinks by no more than the number of places of the value.
LEMMA DropUsesCounts ==
  ASSUME NEW u, NEW args, NEW N, Countable(u, args, N)
  PROVE  /\ DropUses(u, args) \in Counts(N)
         /\ \A v \in 1 .. N : DropUses(u, args)[v] >= u[v] - Cardinality(Occurs(args, v, Len(args)))
<1>1. PICK n \in Nat : n = Len(args) /\ \A k \in 1 .. n : args[k] \in 1 .. N
  <2>1. args \in Seq(1 .. N)
    BY DEF Countable
  <2> QED BY <2>1, LenProperties, ElementOfSeq
<1>2. N \in Nat /\ u \in Counts(N)
  BY DEF Countable
<1>3. PICK g : g = Dropped(u, args, n)
  OBVIOUS
<1>4. g[0] = u /\ \A k \in 1 .. n : g[k] = Less(g[k - 1], args[k])
  BY <1>3, DroppedExists
<1> DEFINE S == {k \in Nat : k <= n =>
                   /\ g[k] \in Counts(N)
                   /\ \A v \in 1 .. N : g[k][v] >= u[v] - Cardinality(Occurs(args, v, k))}
<1>5. 0 \in S
  <2>1. \A v \in 1 .. N : u[v] \in Int /\ Cardinality(Occurs(args, v, 0)) = 0
    BY <1>2, OccursCount DEF Counts
  <2>2. \A v \in 1 .. N : g[0][v] >= u[v] - Cardinality(Occurs(args, v, 0))
    BY <1>4, <2>1
  <2> QED BY <1>2, <1>4, <2>2
<1>6. ASSUME NEW k \in Nat, k \in S PROVE k + 1 \in S
  <2> SUFFICES ASSUME k + 1 <= n
               PROVE  /\ g[k + 1] \in Counts(N)
                      /\ \A v \in 1 .. N : g[k + 1][v] >= u[v] - Cardinality(Occurs(args, v, k + 1))
    OBVIOUS
  <2>1. k + 1 \in 1 .. n /\ (k + 1) - 1 = k
    OBVIOUS
  <2>0. PICK f : f = g[k]
    OBVIOUS
  <2>2. PICK x \in 1 .. N : f = g[k] /\ x = args[k + 1] /\ g[k + 1] = Less(f, x)
    BY <2>0, <2>1, <1>1, <1>4
  <2>3. f \in Counts(N) /\ \A v \in 1 .. N : f[v] >= u[v] - Cardinality(Occurs(args, v, k))
    BY <1>6, <2>2
  <2>4. /\ Less(f, x) \in Counts(N)
        /\ \A w \in 1 .. N : Less(f, x)[w] = IF w = x THEN SatDec(f[w]) ELSE f[w]
    BY <2>3, OneUse
  <2>5. ASSUME NEW v \in 1 .. N
        PROVE  g[k + 1][v] >= u[v] - Cardinality(Occurs(args, v, k + 1))
    <3>1. PICK o \in Nat, o2 \in Nat : /\ o = Cardinality(Occurs(args, v, k))
                                       /\ o2 = Cardinality(Occurs(args, v, k + 1))
                                       /\ o2 = o + (IF x = v THEN 1 ELSE 0)
      BY <2>2, OccursCount
    <3>2. f[v] \in 0 .. UsesMax /\ u[v] \in 0 .. UsesMax
      BY <2>3, <1>2 DEF Counts
    <3>3. f[v] >= u[v] - o
      BY <2>3, <3>1
    <3>4. g[k + 1][v] = IF v = x THEN SatDec(f[v]) ELSE f[v]
      BY <2>2, <2>4
    <3>5. SatDec(f[v]) \in Int /\ SatDec(f[v]) >= f[v] - 1
      BY <3>2, UsesMaxAssumption DEF SatDec
    <3>6. CASE v = x
      <4>1. o2 = o + 1 /\ g[k + 1][v] = SatDec(f[v])
        BY <3>1, <3>4, <3>6
      <4> QED BY <4>1, <3>1, <3>2, <3>3, <3>5, UsesMaxAssumption
    <3>7. CASE v # x
      BY <3>1, <3>2, <3>3, <3>4, <3>7, UsesMaxAssumption
    <3> QED BY <3>6, <3>7
  <2> QED BY <2>2, <2>4, <2>5
<1>7. n \in S
  <2> HIDE DEF S
  <2> QED BY <1>5, <1>6, SetInduction
<1> QED BY <1>1, <1>3, <1>7, DropUsesDropped

\* The places of v among the operands of the nodes of X.
SitesIn(b, X, v) ==
  {u \in UNION {{i} \X DOMAIN b.code[i].args : i \in X} : b.code[u[1]].args[u[2]] = v}

\* One node more.
Another(b, X, i, v, N) == i \notin X /\ b.code[i].args \in Seq(N) /\ IsFiniteSet(SitesIn(b, X, v))

\* The sites of a value grow by its occurrences among the operands of the node.
LEMMA SitesMore ==
  ASSUME NEW b, NEW X, NEW i, NEW v, NEW N, Another(b, X, i, v, N)
  PROVE  /\ IsFiniteSet(SitesIn(b, X \cup {i}, v))
         /\ Cardinality(SitesIn(b, X \cup {i}, v)) =
              Cardinality(SitesIn(b, X, v)) + Cardinality(Occurs(b.code[i].args, v, Len(b.code[i].args)))
<1> USE DEF Another
<1>0. PICK args : args = b.code[i].args
  OBVIOUS
<1>1. PICK n \in Nat : args = b.code[i].args /\ n = Len(args) /\ DOMAIN args = 1 .. n
  BY <1>0, LenProperties
<1>2. PICK A, O, B : A = SitesIn(b, X, v) /\ O = Occurs(args, v, n) /\ B = {i} \X O
  OBVIOUS
<1>3. SitesIn(b, X \cup {i}, v) = A \cup B
  <2>1. ASSUME NEW u \in SitesIn(b, X \cup {i}, v) PROVE u \in A \cup B
    <3>1. PICK j \in X \cup {i} : u \in {j} \X DOMAIN b.code[j].args /\ b.code[u[1]].args[u[2]] = v
      BY <2>1 DEF SitesIn
    <3>2. CASE j \in X
      BY <3>1, <3>2, <1>2 DEF SitesIn
    <3>3. CASE j = i
      <4>1. u[1] = i /\ u[2] \in 1 .. n /\ args[u[2]] = v /\ u = <<i, u[2]>>
        BY <3>1, <3>3, <1>1
      <4>2. u[2] \in O
        BY <4>1, <1>2 DEF Occurs
      <4> QED BY <4>1, <4>2, <1>2
    <3> QED BY <3>1, <3>2, <3>3
  <2>2. ASSUME NEW u \in A PROVE u \in SitesIn(b, X \cup {i}, v)
    BY <2>2, <1>2 DEF SitesIn
  <2>3. ASSUME NEW u \in B PROVE u \in SitesIn(b, X \cup {i}, v)
    <3>1. u[1] = i /\ u[2] \in O /\ u = <<i, u[2]>>
      BY <2>3, <1>2
    <3>2. u[2] \in 1 .. n /\ args[u[2]] = v
      BY <3>1, <1>2 DEF Occurs
    <3>3. u \in {i} \X DOMAIN b.code[i].args
      BY <3>1, <3>2, <1>1
    <3> QED BY <3>1, <3>2, <3>3, <1>1 DEF SitesIn
  <2> QED BY <2>1, <2>2, <2>3
<1>4. A \cap B = {}
  <2>1. ASSUME NEW u \in A, u \in B PROVE FALSE
    <3>1. u[1] = i
      BY <2>1, <1>2
    <3>2. PICK j \in X : u \in {j} \X DOMAIN b.code[j].args
      BY <2>1, <1>2 DEF SitesIn
    <3>3. u[1] = j
      BY <3>2
    <3> QED BY <3>1, <3>2, <3>3
  <2> QED BY <2>1
<1>5. IsFiniteSet(O) /\ Cardinality(O) \in Nat
  BY <1>2, OccursCount
<1>6. IsFiniteSet({i}) /\ Cardinality({i}) = 1
  BY FS_Singleton
<1>7. IsFiniteSet(B) /\ Cardinality(B) = 1 * Cardinality(O)
  BY <1>2, <1>5, <1>6, FS_Product
<1>8. IsFiniteSet(A) /\ Cardinality(A) \in Nat
  BY <1>2, FS_CardinalityType
<1>9. /\ IsFiniteSet(A \cup B)
      /\ Cardinality(A \cup B) = Cardinality(A) + Cardinality(B) - Cardinality(A \cap B)
  BY <1>7, <1>8, FS_Union
<1>10. Cardinality(A \cap B) = 0
  BY <1>4, FS_EmptySet
<1>11. Cardinality(A \cup B) = Cardinality(A) + Cardinality(O)
  <2>1. PICK x \in Nat, y \in Nat : x = Cardinality(A) /\ y = Cardinality(O)
    BY <1>5, <1>8
  <2>2. Cardinality(B) = y
    BY <2>1, <1>7
  <2>3. Cardinality(A \cup B) = (x + y) - 0
    BY <2>1, <2>2, <1>9, <1>10
  <2> QED BY <2>1, <2>3
<1>12. Occurs(b.code[i].args, v, Len(b.code[i].args)) = O
  BY <1>1, <1>2
<1> QED BY <1>2, <1>3, <1>9, <1>11, <1>12, Zenon

\* The function UsesOfNodes looks for.
CountStep(b, L, u, k) == AddUses(u, b.code[L[k]].args)
ZeroCounts(b) == [i \in 1 .. Len(b.code) |-> 0]
Counted(b, L, n) ==
  CHOOSE go : go = [k \in 0 .. n |-> IF k = 0 THEN ZeroCounts(b) ELSE CountStep(b, L, go[k - 1], k)]

\* It exists.
LEMMA CountedExists ==
  ASSUME NEW b, NEW L, NEW n \in Nat
  PROVE  /\ Counted(b, L, n)[0] = ZeroCounts(b)
         /\ \A k \in 1 .. n : Counted(b, L, n)[k] = CountStep(b, L, Counted(b, L, n)[k - 1], k)
<1> DEFINE S == {m \in Nat : \E g : g = [k \in 0 .. m |-> IF k = 0 THEN ZeroCounts(b) ELSE CountStep(b, L, g[k - 1], k)]}
<1>1. 0 \in S
  <2>1. PICK g : g = [k \in 0 .. 0 |-> ZeroCounts(b)]
    OBVIOUS
  <2>2. g = [k \in 0 .. 0 |-> IF k = 0 THEN ZeroCounts(b) ELSE CountStep(b, L, g[k - 1], k)]
    BY <2>1
  <2> QED BY <2>2
<1>2. ASSUME NEW m \in Nat, m \in S PROVE m + 1 \in S
  <2>1. PICK g : g = [k \in 0 .. m |-> IF k = 0 THEN ZeroCounts(b) ELSE CountStep(b, L, g[k - 1], k)]
    BY <1>2
  <2>2. PICK h : h = [k \in 0 .. (m + 1) |-> IF k <= m THEN g[k] ELSE CountStep(b, L, g[m], k)]
    OBVIOUS
  <2>3. \A k \in 0 .. m : h[k] = g[k]
    BY <2>2
  <2>4. \A k \in 0 .. m : g[k] = IF k = 0 THEN ZeroCounts(b) ELSE CountStep(b, L, g[k - 1], k)
    BY <2>1
  <2>5. ASSUME NEW k \in 0 .. (m + 1) PROVE h[k] = IF k = 0 THEN ZeroCounts(b) ELSE CountStep(b, L, h[k - 1], k)
    <3>1. CASE k = 0
      BY <3>1, <2>3, <2>4
    <3>2. CASE k \in 1 .. m
      <4>1. k - 1 \in 0 .. m /\ k \in 0 .. m /\ k # 0
        BY <3>2
      <4> QED BY <4>1, <2>3, <2>4
    <3>3. CASE k = m + 1
      <4>1. k - 1 = m /\ k # 0 /\ m \in 0 .. m /\ h[k] = CountStep(b, L, g[m], k)
        BY <3>3, <2>2
      <4> QED BY <4>1, <2>3
    <3> QED BY <3>1, <3>2, <3>3
  <2>6. h = [k \in 0 .. (m + 1) |-> IF k = 0 THEN ZeroCounts(b) ELSE CountStep(b, L, h[k - 1], k)]
    BY <2>2, <2>5, Zenon
  <2> QED BY <2>6
<1>3. n \in S
  <2> HIDE DEF S
  <2> QED BY <1>1, <1>2, SetInduction
<1>4. PICK g : g = [k \in 0 .. n |-> IF k = 0 THEN ZeroCounts(b) ELSE CountStep(b, L, g[k - 1], k)]
  BY <1>3
<1>5. Counted(b, L, n) = [k \in 0 .. n |-> IF k = 0 THEN ZeroCounts(b) ELSE CountStep(b, L, Counted(b, L, n)[k - 1], k)]
  BY <1>4 DEF Counted
<1>6. \A k \in 0 .. n : Counted(b, L, n)[k] = IF k = 0 THEN ZeroCounts(b) ELSE CountStep(b, L, Counted(b, L, n)[k - 1], k)
  BY <1>5
<1> QED BY <1>6

\* The use counts of a block are the last of the counts.
LEMMA UsesOfNodesCounted ==
  ASSUME NEW b
  PROVE  UsesOfNodes(b) = Counted(b, LiveSeq(b), Len(LiveSeq(b)))[Len(LiveSeq(b))]
BY DEF UsesOfNodes, Counted, CountStep, ZeroCounts

\* Before the backward pass no count is below the number of uses.
LEMMA UsesEnough ==
  ASSUME NEW b, Removable(b)
  PROVE  /\ Uses(b) \in Counts(Len(b.code))
         /\ \A v \in 1 .. Len(b.code) : /\ IsFiniteSet(Sites(b, LiveSeq(b), v))
                                         /\ Uses(b)[v] >= UseCount(b, LiveSeq(b), v)
<1>1. PICK L : L = LiveSeq(b)
  OBVIOUS
<1>2. /\ Shaped(b) /\ Listing(b, L) /\ Ordered(b, L)
      /\ \A v \in DOMAIN b.code : UseCount(b, L, v) <= UsesMax
  BY <1>1 DEF Removable
<1>3. PICK N \in Nat, n \in Nat : N = Len(b.code) /\ n = Len(L)
  BY <1>2, CodeDomain, ListingLength
<1>4. /\ DOMAIN b.code = 1 .. N /\ DOMAIN L = 1 .. n /\ \A k \in 1 .. n : L[k] \in 1 .. N
      /\ \A i \in 1 .. N : b.code[i].args \in Seq(1 .. N)
      /\ \A j, k \in 1 .. n : L[j] = L[k] => j = k
  BY <1>2, <1>3, CodeDomain, ListingLength DEF Shaped, Listing
<1>5. PICK g : g = Counted(b, L, n)
  OBVIOUS
<1>6. g[0] = ZeroCounts(b) /\ \A k \in 1 .. n : g[k] = CountStep(b, L, g[k - 1], k)
  BY <1>5, CountedExists
<1> DEFINE X(k) == {L[j] : j \in 1 .. k}
           S == {k \in Nat : k <= n =>
                   /\ g[k] \in Counts(N)
                   /\ \A v \in 1 .. N : /\ IsFiniteSet(SitesIn(b, X(k), v))
                                        /\ \/ g[k][v] = UsesMax
                                           \/ g[k][v] >= Cardinality(SitesIn(b, X(k), v))}
<1>7. 0 \in S
  <2>1. X(0) = {}
    OBVIOUS
  <2>2. \A v : SitesIn(b, {}, v) = {}
    BY DEF SitesIn
  <2>3. \A v : IsFiniteSet(SitesIn(b, X(0), v)) /\ Cardinality(SitesIn(b, X(0), v)) = 0
    BY <2>1, <2>2, FS_EmptySet
  <2>4. g[0] \in Counts(N) /\ \A v \in 1 .. N : g[0][v] = 0
    BY <1>3, <1>6, UsesMaxAssumption DEF ZeroCounts, Counts
  <2> QED BY <2>3, <2>4
<1>8. ASSUME NEW k \in Nat, k \in S PROVE k + 1 \in S
  <2> SUFFICES ASSUME k + 1 <= n
               PROVE  /\ g[k + 1] \in Counts(N)
                      /\ \A v \in 1 .. N : /\ IsFiniteSet(SitesIn(b, X(k + 1), v))
                                           /\ \/ g[k + 1][v] = UsesMax
                                              \/ g[k + 1][v] >= Cardinality(SitesIn(b, X(k + 1), v))
    OBVIOUS
  <2>1. k + 1 \in 1 .. n /\ (k + 1) - 1 = k
    OBVIOUS
  <2>2. PICK i \in 1 .. N : i = L[k + 1]
    BY <2>1, <1>4
  <2>3. PICK f, args : f = g[k] /\ args = b.code[i].args
    OBVIOUS
  <2>4. g[k + 1] = AddUses(f, args)
    BY <2>1, <2>2, <2>3, <1>6 DEF CountStep
  <2>5. /\ f \in Counts(N)
        /\ \A v \in 1 .. N : /\ IsFiniteSet(SitesIn(b, X(k), v))
                             /\ f[v] = UsesMax \/ f[v] >= Cardinality(SitesIn(b, X(k), v))
    BY <1>8, <2>3
  <2>6. Countable(f, args, N)
    BY <2>3, <2>5, <1>4 DEF Countable
  <2>7. /\ AddUses(f, args) \in Counts(N)
        /\ \A v \in 1 .. N : \/ AddUses(f, args)[v] = UsesMax
                             \/ AddUses(f, args)[v] >= f[v] + Cardinality(Occurs(args, v, Len(args)))
    BY <2>6, AddUsesCounts
  <2>8. X(k + 1) = X(k) \cup {i} /\ i \notin X(k)
    <3>1. \A j \in 1 .. (k + 1) : j \in 1 .. k \/ j = k + 1
      OBVIOUS
    <3>2. \A j \in 1 .. k : j \in 1 .. (k + 1) /\ j \in 1 .. n /\ j # k + 1
      OBVIOUS
    <3> QED BY <3>1, <3>2, <2>1, <2>2, <1>4
  <2>9. ASSUME NEW v \in 1 .. N
        PROVE  /\ IsFiniteSet(SitesIn(b, X(k + 1), v))
               /\ \/ g[k + 1][v] = UsesMax
                  \/ g[k + 1][v] >= Cardinality(SitesIn(b, X(k + 1), v))
    <3> HIDE DEF X
    <3>1. IsFiniteSet(SitesIn(b, X(k), v)) /\ i \notin X(k) /\ b.code[i].args \in Seq(1 .. N)
      BY <2>5, <2>8, <1>4
    <3>0. PICK Y : Y = X(k)
      OBVIOUS
    <3>2. /\ IsFiniteSet(SitesIn(b, Y \cup {i}, v))
          /\ Cardinality(SitesIn(b, Y \cup {i}, v)) =
               Cardinality(SitesIn(b, Y, v)) + Cardinality(Occurs(b.code[i].args, v, Len(b.code[i].args)))
      <4>1. i \notin Y /\ IsFiniteSet(SitesIn(b, Y, v))
        BY <3>0, <3>1
      <4>2. Another(b, Y, i, v, 1 .. N)
        BY <4>1, <3>1 DEF Another
      <4> QED BY <4>2, SitesMore
    <3>3. Len(args) \in Nat
      BY <2>6, LenProperties DEF Countable
    <3>4. PICK s \in Nat, o \in Nat : /\ s = Cardinality(SitesIn(b, X(k), v))
                                      /\ o = Cardinality(Occurs(args, v, Len(args)))
      BY <3>1, <3>3, FS_CardinalityType, OccursCount
    <3>5. Cardinality(SitesIn(b, X(k + 1), v)) = s + o
      BY <3>0, <3>2, <3>4, <2>3, <2>8
    <3>6. f[v] \in 0 .. UsesMax /\ AddUses(f, args)[v] \in 0 .. UsesMax
      BY <2>5, <2>7 DEF Counts
    <3>7. f[v] = UsesMax \/ f[v] >= s
      BY <2>5, <3>4
    <3>8. AddUses(f, args)[v] = UsesMax \/ AddUses(f, args)[v] >= f[v] + o
      BY <2>7, <3>4
    <3>9. AddUses(f, args)[v] = UsesMax \/ AddUses(f, args)[v] >= s + o
      BY <3>4, <3>6, <3>7, <3>8, UsesMaxAssumption
    <3> QED BY <2>4, <2>8, <3>0, <3>2, <3>5, <3>9
  <2> QED BY <2>4, <2>7, <2>9
<1>9. n \in S
  <2> HIDE DEF S
  <2> QED BY <1>7, <1>8, SetInduction
<1>10. PICK u : u = UsesOfNodes(b)
  OBVIOUS
<1>11. /\ u \in Counts(N)
       /\ \A v \in 1 .. N : /\ IsFiniteSet(Sites(b, L, v))
                            /\ u[v] = UsesMax \/ u[v] >= Cardinality(Sites(b, L, v))
  <2>1. u = g[n]
    BY <1>1, <1>3, <1>5, <1>10, UsesOfNodesCounted
  <2>2. \A v : Sites(b, L, v) = SitesIn(b, X(n), v)
    BY <1>4 DEF Sites, SitesIn
  <2>3. PICK Y : Y = X(n)
    OBVIOUS
  <2>4. \A v \in 1 .. N : /\ IsFiniteSet(SitesIn(b, Y, v))
                          /\ g[n][v] = UsesMax \/ g[n][v] >= Cardinality(SitesIn(b, Y, v))
    BY <1>9, <2>3
  <2>5. g[n] \in Counts(N)
    BY <1>9
  <2>6. \A v : Sites(b, L, v) = SitesIn(b, Y, v)
    BY <2>2, <2>3
  <2> HIDE DEF S, X
  <2> QED BY <2>1, <2>4, <2>5, <2>6
<1>12. PICK t : t = TerminalUses(b)
  OBVIOUS
<1>13. t \in Seq(1 .. N) /\ \A v : Occurs(t, v, Len(t)) = {1} \cap {q \in {1} : v \in TerminalOperands(b)}
  <2>1. TerminalOperands(b) \subseteq 1 .. N
    <3>1. TerminalOperands(b) \subseteq {L[j] : j \in 1 .. ((n + 1) - 1)}
      BY <1>2, <1>3 DEF Ordered
    <3>2. (n + 1) - 1 = n
      OBVIOUS
    <3> QED BY <3>1, <3>2, <1>4
  <2>2. CASE "value" \in DOMAIN b.terminal
    <3>1. TerminalOperands(b) = {b.terminal.value} /\ t = <<b.terminal.value>>
      BY <2>2, <1>12 DEF TerminalOperands, TerminalUses
    <3>2. PICK x \in 1 .. N : x = b.terminal.value
      BY <2>1, <3>1
    <3>3. <<x>> \in Seq(1 .. N) /\ Len(<<x>>) = 1 /\ <<x>>[1] = x
      OBVIOUS
    <3>4. \A v : Occurs(<<x>>, v, 1) = {q \in {1} : v = x}
      BY <3>3 DEF Occurs
    <3> QED BY <3>1, <3>2, <3>3, <3>4
  <2>3. CASE "value" \notin DOMAIN b.terminal
    <3>1. TerminalOperands(b) = {} /\ t = <<>>
      BY <2>3, <1>12 DEF TerminalOperands, TerminalUses
    <3>2. \A v : Occurs(<<>>, v, 0) = {}
      BY DEF Occurs
    <3> QED BY <3>1, <3>2, EmptySeq
  <2> QED BY <2>2, <2>3
<1>14. ASSUME NEW v \in 1 .. N
       PROVE  /\ Cardinality(Occurs(t, v, Len(t))) \in Nat
              /\ Cardinality(Occurs(t, v, Len(t))) = Cardinality({v} \cap TerminalOperands(b))
  <2>1. CASE v \in TerminalOperands(b)
    <3>1. Occurs(t, v, Len(t)) = {1} /\ {v} \cap TerminalOperands(b) = {v}
      BY <2>1, <1>13
    <3>2. Cardinality({1}) = 1 /\ Cardinality({v}) = 1
      BY FS_Singleton
    <3>3. /\ Cardinality(Occurs(t, v, Len(t))) = 1
          /\ Cardinality({v} \cap TerminalOperands(b)) = 1
      BY <3>1, <3>2, Zenon
    <3> QED BY <3>3
  <2>2. CASE v \notin TerminalOperands(b)
    <3>1. Occurs(t, v, Len(t)) = {} /\ {v} \cap TerminalOperands(b) = {}
      BY <2>2, <1>13
    <3> QED BY <3>1, FS_EmptySet
  <2> QED BY <2>1, <2>2
<1>15. /\ AddUses(u, t) \in Counts(N)
       /\ \A v \in 1 .. N : \/ AddUses(u, t)[v] = UsesMax
                            \/ AddUses(u, t)[v] >= u[v] + Cardinality(Occurs(t, v, Len(t)))
  <2>1. Countable(u, t, N)
    BY <1>11, <1>13 DEF Countable
  <2> QED BY <2>1, AddUsesCounts
<1>16. ASSUME NEW v \in 1 .. N PROVE AddUses(u, t)[v] >= UseCount(b, L, v)
  <2>1. PICK s \in Nat, o \in Nat : /\ s = Cardinality(Sites(b, L, v))
                                    /\ o = Cardinality(Occurs(t, v, Len(t)))
    BY <1>11, <1>14, FS_CardinalityType
  <2>2. UseCount(b, L, v) = s + o /\ s + o <= UsesMax
    BY <2>1, <1>2, <1>4, <1>14 DEF UseCount
  <2>3. u[v] \in 0 .. UsesMax /\ AddUses(u, t)[v] \in 0 .. UsesMax
    BY <1>11, <1>15 DEF Counts
  <2>4. u[v] = UsesMax \/ u[v] >= s
    BY <1>11, <2>1
  <2>5. AddUses(u, t)[v] = UsesMax \/ AddUses(u, t)[v] >= u[v] + o
    BY <1>15, <2>1
  <2>6. AddUses(u, t)[v] >= s + o
    BY <2>1, <2>2, <2>3, <2>4, <2>5, UsesMaxAssumption
  <2> QED BY <2>2, <2>6
<1>17. Uses(b) = AddUses(u, t)
  BY <1>10, <1>12 DEF Uses
<1> QED BY <1>1, <1>3, <1>11, <1>15, <1>16, <1>17

\* The terminal uses a value at most once.
LEMMA TerminalOnce ==
  ASSUME NEW b, NEW v
  PROVE  /\ Cardinality({v} \cap TerminalOperands(b)) \in 0 .. 1
         /\ Cardinality({v} \cap TerminalOperands(b)) = 0 => v \notin TerminalOperands(b)
<1>1. CASE v \in TerminalOperands(b)
  <2>1. {v} \cap TerminalOperands(b) = {v}
    BY <1>1
  <2>2. Cardinality({v}) = 1
    BY FS_Singleton
  <2>3. Cardinality({v} \cap TerminalOperands(b)) = 1
    BY <2>1, <2>2, Zenon
  <2> QED BY <2>3
<1>2. CASE v \notin TerminalOperands(b)
  <2>1. {v} \cap TerminalOperands(b) = {}
    BY <1>2
  <2>2. Cardinality({v} \cap TerminalOperands(b)) = 0
    BY <2>1, FS_EmptySet, Zenon
  <2> QED BY <1>2, <2>2
<1> QED BY <1>1, <1>2

\* A cut takes away the uses by the node, and some more if it skips others.
LEMMA CutUses ==
  ASSUME NEW d, NEW M, NEW b, NEW L, NEW p, NEW c, NEW n, NEW N, CutOf(d, M, b, L, p, c, n, N),
         Shaped(b), NEW v, IsFiniteSet(Sites(b, L, v))
  PROVE  /\ IsFiniteSet(Sites(d, M, v)) /\ UseCount(d, M, v) \in Nat /\ UseCount(b, L, v) \in Nat
         /\ UseCount(d, M, v) + Cardinality(Occurs(b.code[L[c]].args, v, Len(b.code[L[c]].args)))
              <= UseCount(b, L, v)
<1>1. /\ n \in Nat /\ c \in 1 .. n /\ p \in 0 .. (c - 1) /\ DOMAIN L = 1 .. n
      /\ \A j, k \in 1 .. n : L[j] = L[k] => j = k
      /\ N = Len(b.code) /\ \A k \in 1 .. n : L[k] \in 1 .. N
  <2>1. L \in Seq(1 .. N) /\ Len(L) = n
    BY DEF CutOf, Places
  <2> QED BY <2>1, ElementOfSeq DEF CutOf, Places
<1>2. PICK X, i : X = {M[k] : k \in DOMAIN M} /\ i = L[c]
  OBVIOUS
<1>3. \A k \in DOMAIN M : \E j \in 1 .. n : j # c /\ M[k] = L[j]
  <2> SUFFICES ASSUME NEW k \in DOMAIN M PROVE \E j \in 1 .. n : j # c /\ M[k] = L[j]
    OBVIOUS
  <2>1. k \in Int
    BY CutPlaces DEF CutOf
  <2>2. CASE k <= p
    BY <2>2, CutPlaces DEF CutOf
  <2>3. CASE k > p
    <3>1. PICK h \in (c + 1) .. n : M[k] = L[h]
      BY <2>3, CutPlaces DEF CutOf
    <3>2. h \in 1 .. n /\ h # c
      BY <1>1
    <3> QED BY <3>1, <3>2
  <2> QED BY <2>1, <2>2, <2>3, <1>1
<1>4. i \notin X /\ i \in 1 .. N
  BY <1>1, <1>2, <1>3
<1>5. Sites(d, M, v) = SitesIn(b, X, v)
  <2>1. \A k \in DOMAIN M : d.code[M[k]].args = b.code[M[k]].args
    BY <1>3, CutOperands
  <2>2. ASSUME NEW u \in Sites(d, M, v) PROVE u \in SitesIn(b, X, v)
    <3>1. PICK k \in DOMAIN M : u \in {M[k]} \X DOMAIN d.code[M[k]].args /\ d.code[u[1]].args[u[2]] = v
      BY <2>2 DEF Sites
    <3>2. M[k] \in X /\ u[1] = M[k]
      BY <3>1, <1>2
    <3> QED BY <3>1, <3>2, <2>1 DEF SitesIn
  <2>3. ASSUME NEW u \in SitesIn(b, X, v) PROVE u \in Sites(d, M, v)
    <3>1. PICK j \in X : u \in {j} \X DOMAIN b.code[j].args /\ b.code[u[1]].args[u[2]] = v
      BY <2>3 DEF SitesIn
    <3>2. PICK k \in DOMAIN M : j = M[k] /\ u[1] = M[k]
      BY <3>1, <1>2
    <3> QED BY <3>1, <3>2, <2>1 DEF Sites
  <2> QED BY <2>2, <2>3
<1>6. PICK Y : Y = X \cup {i}
  OBVIOUS
<1>7. SitesIn(b, Y, v) \subseteq Sites(b, L, v)
  <2> SUFFICES ASSUME NEW u \in SitesIn(b, Y, v) PROVE u \in Sites(b, L, v)
    OBVIOUS
  <2>1. PICK j \in Y : u \in {j} \X DOMAIN b.code[j].args /\ b.code[u[1]].args[u[2]] = v
    BY DEF SitesIn
  <2>2. PICK k \in DOMAIN L : j = L[k]
    <3>1. CASE j = i
      BY <3>1, <1>1, <1>2
    <3>2. CASE j \in X
      <4>1. PICK h \in DOMAIN M : j = M[h]
        BY <3>2, <1>2
      <4> QED BY <4>1, <1>1, <1>3
    <3> QED BY <3>1, <3>2, <1>6
  <2> QED BY <2>1, <2>2 DEF Sites
<1>8. SitesIn(b, X, v) \subseteq SitesIn(b, Y, v)
  BY <1>6 DEF SitesIn
<1>9. /\ IsFiniteSet(SitesIn(b, Y, v))
      /\ Cardinality(SitesIn(b, Y, v)) <= Cardinality(Sites(b, L, v))
  BY <1>7, FS_Subset
<1>10. IsFiniteSet(SitesIn(b, X, v))
  BY <1>8, <1>9, FS_Subset
<1>11. b.code[i].args \in Seq(1 .. N)
  BY <1>1, <1>4, CodeDomain DEF Shaped
<1>12. Cardinality(SitesIn(b, X \cup {i}, v)) =
         Cardinality(SitesIn(b, X, v)) + Cardinality(Occurs(b.code[i].args, v, Len(b.code[i].args)))
  <2>1. Another(b, X, i, v, 1 .. N)
    BY <1>4, <1>10, <1>11 DEF Another
  <2> QED BY <2>1, SitesMore
<1>13. PICK o \in Nat : o = Cardinality(Occurs(b.code[i].args, v, Len(b.code[i].args)))
  <2>1. Len(b.code[i].args) \in Nat
    BY <1>11, LenProperties
  <2> QED BY <2>1, OccursCount
<1>14. PICK x \in Nat, y \in Nat, z \in Nat : /\ x = Cardinality(SitesIn(b, X, v))
                                             /\ y = Cardinality(SitesIn(b, Y, v))
                                             /\ z = Cardinality(Sites(b, L, v))
  BY <1>9, <1>10, FS_CardinalityType
<1>15. y = x + o /\ y <= z
  BY <1>6, <1>9, <1>12, <1>13, <1>14
<1>16. PICK t \in 0 .. 1 : t = Cardinality({v} \cap TerminalOperands(b))
  BY TerminalOnce
<1>17. UseCount(b, L, v) = z + t /\ UseCount(d, M, v) = x + t
  <2>1. TerminalOperands(d) = TerminalOperands(b)
    BY CutOperands
  <2> QED BY <2>1, <1>5, <1>14, <1>16 DEF UseCount
<1>18. (x + t) + o <= z + t /\ x + t \in Nat /\ z + t \in Nat
  BY <1>15
<1>19. IsFiniteSet(Sites(d, M, v))
  BY <1>5, <1>10
<1> QED BY <1>2, <1>13, <1>17, <1>18, <1>19

-----------------------------------------------------------------------------
(* The backward pass.                                                      *)

\* The pass at the c-th node of L: a use count is at least the number of uses, and every
\* link back from here on is good.
Removing(s, L, c, N) ==
  /\ s = [b |-> s.b, uses |-> s.uses, cursor |-> s.cursor]
  /\ Shaped(s.b) /\ Len(s.b.code) = N /\ Listing(s.b, L) /\ Ordered(s.b, L) /\ Supplied(s.b, L)
  /\ c \in 0 .. Len(L) /\ s.cursor = At(L, c)
  /\ \A k \in 1 .. c : LinkBack(s.b, L, k)
  /\ s.uses \in Counts(N)
  /\ \A v \in 1 .. N : IsFiniteSet(Sites(s.b, L, v)) /\ s.uses[v] >= UseCount(s.b, L, v)

\* What the nodes that are left need, they keep.
LEMMA CutSupplied ==
  ASSUME NEW d, NEW M, NEW b, NEW L, NEW p, NEW c, NEW n, NEW N, CutOf(d, M, b, L, p, c, n, N),
         Supplied(b, L)
  PROVE  Supplied(d, M)
<1>1. DOMAIN L = 1 .. n /\ n \in Nat /\ c \in 1 .. n /\ p \in 0 .. (c - 1)
  BY DEF CutOf, Places
<1>2. ASSUME NEW k \in DOMAIN M, d.code[M[k]].op \in Producers
      PROVE  {1, IF d.code[M[k]].op = "LogicFlags" THEN 1 ELSE 2} \subseteq DOMAIN d.code[M[k]].args
  <2>1. \E j \in 1 .. n : j # c /\ M[k] = L[j]
    <3>1. k \in Int
      BY CutPlaces DEF CutOf
    <3>2. CASE k <= p
      BY <3>2, CutPlaces DEF CutOf
    <3>3. CASE k > p
      <4>1. PICK h \in (c + 1) .. n : M[k] = L[h]
        BY <3>3, CutPlaces DEF CutOf
      <4>2. h \in 1 .. n /\ h # c
        BY <1>1
      <4> QED BY <4>1, <4>2
    <3> QED BY <3>1, <3>2, <3>3, <1>1
  <2>2. PICK j \in 1 .. n : j # c /\ M[k] = L[j]
    BY <2>1
  <2>3. d.code[L[j]].op = b.code[L[j]].op /\ d.code[L[j]].args = b.code[L[j]].args
    BY <2>2, CutOperands
  <2> QED BY <2>2, <2>3, <1>1, <1>2 DEF Supplied
<1>3. d.terminal = b.terminal
  BY DEF CutOf, Relisted
<1> QED BY <1>2, <1>3 DEF Supplied

\* A node nobody uses is dead, and what its link back skips as well.
LEMMA UnusedDead ==
  ASSUME NEW s, NEW L, NEW c, NEW N, NEW p, Removing(s, L, c, N), c \in 1 .. Len(L),
         p \in 0 .. (c - 1), \A j \in (p + 1) .. (c - 1) : Within(s.b, L, j, c),
         ~HasSideEffects(s.b.code[L[c]].op), s.uses[L[c]] = 0
  PROVE  Dead(s.b, L, p, c)
<1>1. PICK b : b = s.b
  OBVIOUS
<1>2. /\ Shaped(b) /\ Len(b.code) = N /\ Listing(b, L) /\ s.uses \in Counts(N)
      /\ \A v \in 1 .. N : IsFiniteSet(Sites(b, L, v)) /\ s.uses[v] >= UseCount(b, L, v)
  BY <1>1 DEF Removing
<1>3. Len(L) \in Nat /\ DOMAIN L = 1 .. Len(L) /\ \A k \in DOMAIN L : L[k] \in 1 .. N
  BY <1>2, CodeDomain, ListingLength
<1>4. PICK v \in 1 .. N : v = L[c]
  BY <1>3
<1>5. PICK x \in Nat, t \in 0 .. 1 : /\ x = Cardinality(Sites(b, L, v))
                                     /\ t = Cardinality({v} \cap TerminalOperands(b))
  BY <1>2, FS_CardinalityType, TerminalOnce
<1>6. x = 0 /\ t = 0
  <2>1. 0 >= x + t
    BY <1>2, <1>4, <1>5 DEF UseCount
  <2> QED BY <2>1
<1>7. Sites(b, L, v) = {} /\ v \notin TerminalOperands(b)
  BY <1>2, <1>5, <1>6, FS_EmptySet, TerminalOnce
<1>8. ASSUME NEW i \in DOMAIN L, v \in Operands(b, L[i]) PROVE FALSE
  <2>1. PICK q \in DOMAIN b.code[L[i]].args : v = b.code[L[i]].args[q]
    BY <1>8 DEF Operands
  <2>2. PICK u : u = <<L[i], q>>
    OBVIOUS
  <2>3. u \in {L[i]} \X DOMAIN b.code[L[i]].args /\ u[1] = L[i] /\ u[2] = q
    BY <2>2
  <2>4. u \in Sites(b, L, v)
    BY <2>1, <2>3 DEF Sites
  <2> QED BY <2>4, <1>7
<1>9. Within(b, L, c, c)
  BY <1>1, <1>4, <1>7, <1>8 DEF Within
<1>10. ASSUME NEW j \in (p + 1) .. c PROVE Within(b, L, j, c)
  <2>1. j \in (p + 1) .. (c - 1) \/ j = c
    BY <1>3
  <2> QED BY <2>1, <1>1, <1>9
<1> QED BY <1>1, <1>10 DEF Dead

\* The use counts after the operands were dropped are still large enough.
LEMMA DroppedEnough ==
  ASSUME NEW d, NEW M, NEW b, NEW L, NEW p, NEW c, NEW n, NEW N, CutOf(d, M, b, L, p, c, n, N),
         Shaped(b), NEW u \in Counts(N),
         \A v \in 1 .. N : IsFiniteSet(Sites(b, L, v)) /\ u[v] >= UseCount(b, L, v)
  PROVE  /\ DropUses(u, b.code[L[c]].args) \in Counts(N)
         /\ \A v \in 1 .. N : /\ IsFiniteSet(Sites(d, M, v))
                              /\ DropUses(u, b.code[L[c]].args)[v] >= UseCount(d, M, v)
<1>1. PICK args : args = b.code[L[c]].args
  OBVIOUS
<1>2. args \in Seq(1 .. N) /\ N \in Nat
  <2>1. N \in Nat /\ N = Len(b.code) /\ L \in Seq(1 .. N) /\ Len(L) = n /\ c \in 1 .. n
    BY DEF CutOf, Places
  <2>2. L[c] \in 1 .. N
    BY <2>1, ElementOfSeq
  <2> QED BY <2>1, <2>2, <1>1, CodeDomain DEF Shaped
<1>3. Countable(u, args, N)
  BY <1>2 DEF Countable
<1>4. PICK w : w = DropUses(u, args)
  OBVIOUS
<1>5. /\ w \in Counts(N)
      /\ \A v \in 1 .. N : w[v] >= u[v] - Cardinality(Occurs(args, v, Len(args)))
  BY <1>3, <1>4, DropUsesCounts
<1>6. ASSUME NEW v \in 1 .. N PROVE IsFiniteSet(Sites(d, M, v)) /\ w[v] >= UseCount(d, M, v)
  <2>1. Len(args) \in Nat
    BY <1>2, LenProperties
  <2>2. PICK o \in Nat : o = Cardinality(Occurs(args, v, Len(args)))
    BY <2>1, OccursCount
  <2>3. PICK x \in Nat, y \in Nat : x = UseCount(d, M, v) /\ y = UseCount(b, L, v) /\ x + o <= y
    BY <2>2, <1>1, CutUses
  <2>4. w[v] \in Int /\ u[v] \in Int
    BY <1>5 DEF Counts
  <2>5. w[v] >= u[v] - o /\ u[v] >= y
    BY <1>5, <2>2, <2>3
  <2>6. w[v] >= x
    BY <2>3, <2>4, <2>5, UsesMaxAssumption
  <2> QED BY <2>3, <2>6, CutUses
<1> QED BY <1>1, <1>4, <1>5, <1>6

\* What a step of the pass does to the block.
CutDead(d, M, b, L) ==
  \/ d = b /\ M = L
  \/ \E p, c : CutOf(d, M, b, L, p, c, Len(L), Len(b.code)) /\ Dead(b, L, p, c)
\* The state after a step.
Stepped(t, s, L, N) == \E M, e : Removing(t, M, e, N) /\ CutDead(t.b, M, s.b, L)

\* A step of the pass removes only what is dead.
LEMMA RemoveStepDead ==
  ASSUME NEW s, NEW L, NEW c, NEW N, Removing(s, L, c, N)
  PROVE  Stepped(RemoveStep(s), s, L, N)
<1>1. PICK b, u, cursor : b = s.b /\ u = s.uses /\ cursor = s.cursor
  OBVIOUS
<1>2. /\ s = [b |-> b, uses |-> u, cursor |-> cursor]
      /\ Shaped(b) /\ Len(b.code) = N /\ Listing(b, L) /\ Ordered(b, L) /\ Supplied(b, L)
      /\ c \in 0 .. Len(L) /\ cursor = At(L, c)
      /\ \A k \in 1 .. c : LinkBack(b, L, k)
      /\ u \in Counts(N)
      /\ \A v \in 1 .. N : IsFiniteSet(Sites(b, L, v)) /\ u[v] >= UseCount(b, L, v)
  BY <1>1 DEF Removing
<1>3. PICK n \in Nat : n = Len(L) /\ DOMAIN L = 1 .. n /\ \A k \in 1 .. n : L[k] \in 1 .. N
  BY <1>2, CodeDomain, ListingLength
<1>4. CASE c = 0
  <2>1. cursor = NONE
    BY <1>2, <1>3, <1>4 DEF At
  <2>2. RemoveStep(s) = s
    BY <2>1, <1>1 DEF RemoveStep
  <2> QED BY <2>2 DEF Stepped, CutDead
<1>5. CASE c # 0
  <2>1. c \in 1 .. n /\ cursor = L[c] /\ cursor # NONE
    BY <1>2, <1>3, <1>5 DEF At, NONE
  <2>2. PICK p \in 0 .. (c - 1) : /\ b.code[L[c]].prev = At(L, p)
                                  /\ \A j \in (p + 1) .. (c - 1) : Within(b, L, j, c)
    BY <1>2, <2>1 DEF LinkBack
  <2>3. PICK t : t = RemoveStep(s)
    OBVIOUS
  <2>4. CASE HasSideEffects(b.code[cursor].op) \/ u[cursor] > 0
    <3>1. t = [b |-> b, uses |-> u, cursor |-> At(L, p)]
      BY <1>1, <1>2, <2>1, <2>2, <2>3, <2>4 DEF RemoveStep
    <3>2. t.b = b /\ t.uses = u /\ t.cursor = At(L, p)
      BY <3>1
    <3>3. p \in 0 .. Len(L) /\ \A k \in 1 .. p : k \in 1 .. c
      BY <2>1, <1>3
    <3>4. Removing(t, L, p, N)
      BY <3>1, <3>2, <3>3, <1>2 DEF Removing
    <3> QED BY <3>2, <3>4, <1>1, <2>3 DEF Stepped, CutDead
  <2>5. CASE ~(HasSideEffects(b.code[cursor].op) \/ u[cursor] > 0)
    <3>1. PICK d, M, w : d = Unlink(b, L[c]) /\ M = Cut(L, p, c) /\ w = DropUses(u, b.code[L[c]].args)
      OBVIOUS
    <3>2. t = [b |-> d, uses |-> w, cursor |-> At(L, p)]
      BY <1>1, <1>2, <2>1, <2>2, <2>3, <2>5, <3>1 DEF RemoveStep
    <3>3. t.b = d /\ t.uses = w /\ t.cursor = At(L, p)
      BY <3>2
    <3>4. u[L[c]] = 0
      BY <1>2, <1>3, <2>1, <2>5, UsesMaxAssumption DEF Counts
    <3>5. Dead(b, L, p, c)
      BY <1>1, <1>3, <2>1, <2>2, <2>5, <3>4, UnusedDead
    <3>6. CutOf(d, M, b, L, p, c, n, N)
      <4>1. Links(b, L, p, c)
        BY <1>2, <1>3, <2>1, <2>2 DEF Links
      <4> QED BY <4>1, <1>2, <1>3, <3>1, CutExists
    <3>7. Shaped(d) /\ Len(d.code) = N /\ Listing(d, M)
      BY <3>6 DEF CutOf, Relisted
    <3>8. Ordered(d, M) /\ Supplied(d, M)
      BY <3>5, <3>6, <1>2, CutOrdered, CutSupplied
    <3>9. p \in 0 .. Len(M) /\ At(L, p) = At(M, p)
      <4>1. Len(M) = n - (c - p) /\ \A k \in 0 .. p : At(M, k) = At(L, k)
        BY <3>6 DEF CutOf, IsCut
      <4> QED BY <4>1, <2>1, <1>3
    <3>10. \A k \in 1 .. p : LinkBack(d, M, k)
      <4> SUFFICES ASSUME NEW k \in 1 .. p PROVE LinkBack(d, M, k)
        OBVIOUS
      <4>1. LinkBack(b, L, k)
        BY <1>2, <2>1
      <4> QED BY <4>1, <3>6, CutLinkBack
    <3>11. /\ w \in Counts(N)
           /\ \A v \in 1 .. N : IsFiniteSet(Sites(d, M, v)) /\ w[v] >= UseCount(d, M, v)
      BY <3>1, <3>6, <1>2, DroppedEnough
    <3>12. Removing(t, M, p, N)
      BY <3>2, <3>3, <3>7, <3>8, <3>9, <3>10, <3>11 DEF Removing
    <3>13. CutDead(t.b, M, s.b, L)
      BY <1>1, <1>2, <1>3, <3>3, <3>5, <3>6 DEF CutDead
    <3> QED BY <3>12, <3>13, <2>3 DEF Stepped
  <2> QED BY <2>4, <2>5
<1> QED BY <1>4, <1>5

\* The state the pass starts in, and the function RemoveUnused looks for.
RemoveFrom(b) == [b |-> b, uses |-> Uses(b), cursor |-> b.tail]
Removals(b, n) ==
  CHOOSE back : back = [k \in 0 .. n |-> IF k = 0 THEN RemoveFrom(b) ELSE RemoveStep(back[k - 1])]

\* It exists.
LEMMA RemovalsExist ==
  ASSUME NEW b, NEW n \in Nat
  PROVE  /\ Removals(b, n)[0] = RemoveFrom(b)
         /\ \A k \in 1 .. n : Removals(b, n)[k] = RemoveStep(Removals(b, n)[k - 1])
<1> DEFINE S == {m \in Nat : \E g : g = [k \in 0 .. m |-> IF k = 0 THEN RemoveFrom(b) ELSE RemoveStep(g[k - 1])]}
<1>1. 0 \in S
  <2>1. PICK g : g = [k \in 0 .. 0 |-> RemoveFrom(b)]
    OBVIOUS
  <2>2. g = [k \in 0 .. 0 |-> IF k = 0 THEN RemoveFrom(b) ELSE RemoveStep(g[k - 1])]
    BY <2>1
  <2> QED BY <2>2
<1>2. ASSUME NEW m \in Nat, m \in S PROVE m + 1 \in S
  <2>1. PICK g : g = [k \in 0 .. m |-> IF k = 0 THEN RemoveFrom(b) ELSE RemoveStep(g[k - 1])]
    BY <1>2
  <2>2. PICK h : h = [k \in 0 .. (m + 1) |-> IF k <= m THEN g[k] ELSE RemoveStep(g[m])]
    OBVIOUS
  <2>3. \A k \in 0 .. m : h[k] = g[k]
    BY <2>2
  <2>4. \A k \in 0 .. m : g[k] = IF k = 0 THEN RemoveFrom(b) ELSE RemoveStep(g[k - 1])
    BY <2>1
  <2>5. ASSUME NEW k \in 0 .. (m + 1) PROVE h[k] = IF k = 0 THEN RemoveFrom(b) ELSE RemoveStep(h[k - 1])
    <3>1. CASE k = 0
      BY <3>1, <2>3, <2>4
    <3>2. CASE k \in 1 .. m
      <4>1. k - 1 \in 0 .. m /\ k \in 0 .. m /\ k # 0
        BY <3>2
      <4> QED BY <4>1, <2>3, <2>4
    <3>3. CASE k = m + 1
      <4>1. k - 1 = m /\ k # 0 /\ m \in 0 .. m /\ h[k] = RemoveStep(g[m])
        BY <3>3, <2>2
      <4> QED BY <4>1, <2>3
    <3> QED BY <3>1, <3>2, <3>3
  <2>6. h = [k \in 0 .. (m + 1) |-> IF k = 0 THEN RemoveFrom(b) ELSE RemoveStep(h[k - 1])]
    BY <2>2, <2>5, Zenon
  <2> QED BY <2>6
<1>3. n \in S
  <2> HIDE DEF S
  <2> QED BY <1>1, <1>2, SetInduction
<1>4. PICK g : g = [k \in 0 .. n |-> IF k = 0 THEN RemoveFrom(b) ELSE RemoveStep(g[k - 1])]
  BY <1>3
<1>5. Removals(b, n) = [k \in 0 .. n |-> IF k = 0 THEN RemoveFrom(b) ELSE RemoveStep(Removals(b, n)[k - 1])]
  BY <1>4 DEF Removals
<1>6. \A k \in 0 .. n : Removals(b, n)[k] = IF k = 0 THEN RemoveFrom(b) ELSE RemoveStep(Removals(b, n)[k - 1])
  BY <1>5
<1> QED BY <1>6

\* The block the backward pass returns is that of its last step.
LEMMA RemoveUnusedRemovals ==
  ASSUME NEW b
  PROVE  RemoveUnused(b) = Removals(b, Len(b.code))[Len(b.code)].b
BY DEF RemoveUnused, Removals, RemoveFrom

\* The pass starts at the tail with what Removable says.
LEMMA RemovingStarts ==
  ASSUME NEW b, Removable(b)
  PROVE  Removing(RemoveFrom(b), LiveSeq(b), Len(LiveSeq(b)), Len(b.code))
<1>1. PICK L, s : L = LiveSeq(b) /\ s = RemoveFrom(b)
  OBVIOUS
<1>2. /\ Shaped(b) /\ Listing(b, L) /\ Ordered(b, L) /\ Supplied(b, L)
      /\ \A k \in DOMAIN L : LinkBack(b, L, k)
  BY <1>1 DEF Removable
<1>3. PICK n \in Nat : n = Len(L) /\ DOMAIN L = 1 .. n
  BY <1>2, CodeDomain, ListingLength
<1>4. /\ Uses(b) \in Counts(Len(b.code))
      /\ \A v \in 1 .. Len(b.code) : IsFiniteSet(Sites(b, L, v)) /\ Uses(b)[v] >= UseCount(b, L, v)
  BY <1>1, UsesEnough
<1>5. s = [b |-> b, uses |-> Uses(b), cursor |-> At(L, n)]
  BY <1>1, <1>2, <1>3 DEF RemoveFrom, Listing
<1>6. s.b = b /\ s.uses = Uses(b) /\ s.cursor = At(L, n)
  BY <1>5
<1> QED BY <1>1, <1>2, <1>3, <1>4, <1>5, <1>6 DEF Removing

-----------------------------------------------------------------------------
(* What a node does to the machine.                                        *)

\* A machine that can tell whether the registers of the other values stay intact.
IsMachine(m) ==
  m = [f \in DOMAIN m |-> m[f]] /\ "intact" \in DOMAIN m /\ m.intact \in BOOLEAN
\* The machine t after m: it has the same fields, and registers that were lost stay lost.
Onward(t, m) == IsMachine(t) /\ DOMAIN t = DOMAIN m /\ (t.intact => m.intact)

\* An operation keeps a machine one, and none gives back a register that was lost.
LEMMA EvaluateOnward ==
  ASSUME NEW a, NEW val, NEW src, NEW m, IsMachine(m)
  PROVE  Onward(Evaluate(a, val, src, m).m, m)
<1>1. Onward(m, m)
  BY DEF Onward
<1>2. ASSUME NEW f \in {"x", "sp", "nzcv", "v", "tpidr", "trace"}, NEW y
      PROVE  Onward([m EXCEPT ![f] = y], m)
  <2>1. f # "intact"
    OBVIOUS
  <2>2. PICK t : t = [m EXCEPT ![f] = y]
    OBVIOUS
  <2>3. DOMAIN t = DOMAIN m /\ t = [g \in DOMAIN t |-> t[g]] /\ t.intact = m.intact
    BY <2>1, <2>2 DEF IsMachine
  <2> QED BY <2>2, <2>3 DEF Onward, IsMachine
<1>3. \A v : Pure(v, m).m = m /\ Effects(m).m = m
  BY DEF Pure, Effects
<1>4. \A v : emit_op_identity(a, v, m).m = m
  BY <1>3 DEF emit_op_identity
<1>5. emit_getter(a, m).m = m /\ emit_get_v(a, m).m = m /\ emit_mrs(a, m).m = m
  BY <1>3 DEF emit_getter, emit_get_v, emit_mrs
<1>6. \A x, y, z : emit_csel(a, x, y, z, m).m = m
  BY <1>3 DEF emit_csel
<1>7. \A t : Effects(t).m = t
  BY DEF Effects
<1>8. ASSUME NEW v, a.op \in Setters \ {"SetV"} PROVE Onward(emit_setter(a, v, m).m, m)
  <2>1. CASE a.op = "SetX"
    <3>1. emit_setter(a, v, m) = Effects([m EXCEPT !.x = [m.x EXCEPT ![a.imm] = v]])
      BY <2>1 DEF emit_setter
    <3> QED BY <3>1, <1>2, <1>7
  <2>2. CASE a.op = "SetW"
    <3>1. emit_setter(a, v, m) = Effects([m EXCEPT !.x = [m.x EXCEPT ![a.imm] = Trunc(v, WBits)]])
      BY <2>2 DEF emit_setter
    <3> QED BY <3>1, <1>2, <1>7
  <2>3. CASE a.op = "SetSp"
    <3>1. emit_setter(a, v, m) = Effects([m EXCEPT !.sp = v])
      BY <2>3 DEF emit_setter
    <3> QED BY <3>1, <1>2, <1>7
  <2>4. CASE a.op = "SetNzcv"
    <3>1. emit_setter(a, v, m) = Effects([m EXCEPT !.nzcv = v])
      BY <2>4 DEF emit_setter
    <3> QED BY <3>1, <1>2, <1>7
  <2> QED BY <1>8, <2>1, <2>2, <2>3, <2>4 DEF Setters
<1>9. \A v : Onward(emit_set_v(a, v, src, m).m, m)
  BY <1>2, <1>7 DEF emit_set_v
<1>10. \A x, y : Onward(emit_flagged_addsub(a, x, y, m).m, m)
  BY <1>2 DEF emit_flagged_addsub
<1>11. \A x : Onward(emit_logic_flags(a, x, m).m, m)
  BY <1>2, <1>7 DEF emit_logic_flags
<1>12. \A x, y, z : Onward(emit_adc_sbc(a, x, y, z, m).m, m)
  BY <1>1, <1>2 DEF emit_adc_sbc
<1>13. \A x : Onward(emit_load(a, x, m).m, m)
  BY <1>2 DEF emit_load
<1>14. ASSUME NEW x, NEW y PROVE Onward(emit_store(a, x, y, m).m, m)
  <2>1. PICK v : emit_store(a, x, y, m) = Effects([m EXCEPT !.trace = v])
    BY DEF emit_store
  <2> QED BY <2>1, <1>2, <1>7
<1>15. \A v : Onward(emit_msr(a, v, m).m, m)
  BY <1>2, <1>7 DEF emit_msr
<1>16. Onward(emit_vector(a, val, m).m, m)
  <2>1. PICK r : emit_vector(a, val, m) = Stored(r, m)
    BY DEF emit_vector
  <2>2. PICK t : t = Stored(r, m).m
    OBVIOUS
  <2>3. t = [m EXCEPT !.intact = m.intact /\ r.intact]
    BY <2>2 DEF Stored
  <2>4. PICK q \in BOOLEAN : q = (m.intact /\ r.intact)
    OBVIOUS
  <2>5. t = [m EXCEPT !.intact = q]
    BY <2>3, <2>4
  <2>6. DOMAIN t = DOMAIN m /\ t = [g \in DOMAIN t |-> t[g]] /\ t.intact = q
    BY <2>5 DEF IsMachine
  <2>7. q => m.intact
    BY <2>4
  <2> QED BY <2>1, <2>2, <2>6, <2>7 DEF Onward, IsMachine
<1> QED BY <1>1, <1>3, <1>4, <1>5, <1>6, <1>8, <1>9, <1>10, <1>11, <1>12, <1>13, <1>14, <1>15, <1>16
        DEF Evaluate

\* An operation without side effects leaves the machine alone, or a register was lost.
LEMMA EvaluatePure ==
  ASSUME NEW a, NEW val, NEW src, NEW m, IsMachine(m), ~HasSideEffects(a.op)
  PROVE  Evaluate(a, val, src, m).m.intact => Evaluate(a, val, src, m).m = m
<1>1. /\ a.op \notin Setters /\ a.op \notin FlagOps /\ a.op \notin MemoryOps
      /\ a.op \notin SystemOps
  BY DEF HasSideEffects
<1>2. \A v : Pure(v, m).m = m /\ Effects(m).m = m
  BY DEF Pure, Effects
<1>3. \A v : emit_op_identity(a, v, m).m = m
  BY <1>2 DEF emit_op_identity
<1>4. emit_getter(a, m).m = m /\ emit_get_v(a, m).m = m /\ emit_mrs(a, m).m = m
  BY <1>2 DEF emit_getter, emit_get_v, emit_mrs
<1>5. \A x, y, z : emit_csel(a, x, y, z, m).m = m
  BY <1>2 DEF emit_csel
<1>6. ASSUME a.op \in {"Adc", "Adcs", "Sbc", "Sbcs"}
      PROVE  \A x, y, z : emit_adc_sbc(a, x, y, z, m).m = m
  <2>1. a.op \in {"Adc", "Sbc"}
    BY <1>1, <1>6 DEF FlagOps
  <2> QED BY <2>1 DEF emit_adc_sbc
<1>7. ASSUME emit_vector(a, val, m).m.intact PROVE emit_vector(a, val, m).m = m
  <2>1. PICK r : emit_vector(a, val, m) = Stored(r, m)
    BY DEF emit_vector
  <2>2. PICK t : t = Stored(r, m).m
    OBVIOUS
  <2>3. t = [m EXCEPT !.intact = m.intact /\ r.intact]
    BY <2>2 DEF Stored
  <2>4. PICK q \in BOOLEAN : q = (m.intact /\ r.intact)
    OBVIOUS
  <2>5. t = [m EXCEPT !.intact = q]
    BY <2>3, <2>4
  <2>6. t.intact = q
    BY <2>5 DEF IsMachine
  <2>7. q = TRUE
    BY <2>1, <2>2, <2>6, <1>7
  <2>8. m.intact = q
    BY <2>4, <2>7 DEF IsMachine
  <2>9. t = m
    BY <2>5, <2>8 DEF IsMachine
  <2> QED BY <2>1, <2>2, <2>9
<1>8. /\ a.op # "SetV" /\ a.op \notin Setters \ {"SetV"} /\ a.op \notin {"AddsFlags", "SubsFlags"}
      /\ a.op \notin {"LogicFlags", "Load", "Store", "Mrs", "Msr"}
  BY <1>1 DEF Setters, FlagOps, MemoryOps, SystemOps
<1>9. Evaluate(a, val, src, m).m = m \/ Evaluate(a, val, src, m).m = emit_vector(a, val, m).m
  <2>1. CASE a.op \in {"Adc", "Adcs", "Sbc", "Sbcs"}
    <3>1. \A x, y, z : emit_adc_sbc(a, x, y, z, m).m = m
      BY <1>6, <2>1
    <3> QED BY <1>2, <1>3, <1>4, <1>5, <1>8, <3>1 DEF Evaluate
  <2>2. CASE a.op \notin {"Adc", "Adcs", "Sbc", "Sbcs"}
    BY <1>2, <1>3, <1>4, <1>5, <1>8, <2>2 DEF Evaluate
  <2> QED BY <2>1, <2>2
<1> QED BY <1>7, <1>9

-----------------------------------------------------------------------------
(* Running a block.                                                        *)

\* The state a run starts in, and the function Run looks for.
RunFrom(b, m) == [env |-> [i \in 1 .. Len(b.code) |-> 0], m |-> m]
Runs(b, L, m, n) ==
  CHOOSE go : go = [k \in 0 .. n |-> IF k = 0 THEN RunFrom(b, m) ELSE emit_armlet(b, L[k], go[k - 1])]

\* It exists.
LEMMA RunsExist ==
  ASSUME NEW b, NEW L, NEW r, NEW n \in Nat
  PROVE  /\ Runs(b, L, r, n)[0] = RunFrom(b, r)
         /\ \A k \in 1 .. n : Runs(b, L, r, n)[k] = emit_armlet(b, L[k], Runs(b, L, r, n)[k - 1])
<1> DEFINE S == {m \in Nat : \E g : g = [k \in 0 .. m |-> IF k = 0 THEN RunFrom(b, r) ELSE emit_armlet(b, L[k], g[k - 1])]}
<1>1. 0 \in S
  <2>1. PICK g : g = [k \in 0 .. 0 |-> RunFrom(b, r)]
    OBVIOUS
  <2>2. g = [k \in 0 .. 0 |-> IF k = 0 THEN RunFrom(b, r) ELSE emit_armlet(b, L[k], g[k - 1])]
    BY <2>1
  <2> QED BY <2>2
<1>2. ASSUME NEW m \in Nat, m \in S PROVE m + 1 \in S
  <2>1. PICK g : g = [k \in 0 .. m |-> IF k = 0 THEN RunFrom(b, r) ELSE emit_armlet(b, L[k], g[k - 1])]
    BY <1>2
  <2>2. PICK h : h = [k \in 0 .. (m + 1) |-> IF k <= m THEN g[k] ELSE emit_armlet(b, L[k], g[m])]
    OBVIOUS
  <2>3. \A k \in 0 .. m : h[k] = g[k]
    BY <2>2
  <2>4. \A k \in 0 .. m : g[k] = IF k = 0 THEN RunFrom(b, r) ELSE emit_armlet(b, L[k], g[k - 1])
    BY <2>1
  <2>5. ASSUME NEW k \in 0 .. (m + 1) PROVE h[k] = IF k = 0 THEN RunFrom(b, r) ELSE emit_armlet(b, L[k], h[k - 1])
    <3>1. CASE k = 0
      BY <3>1, <2>3, <2>4
    <3>2. CASE k \in 1 .. m
      <4>1. k - 1 \in 0 .. m /\ k \in 0 .. m /\ k # 0
        BY <3>2
      <4> QED BY <4>1, <2>3, <2>4
    <3>3. CASE k = m + 1
      <4>1. k - 1 = m /\ k # 0 /\ m \in 0 .. m /\ h[k] = emit_armlet(b, L[k], g[m])
        BY <3>3, <2>2
      <4> QED BY <4>1, <2>3
    <3> QED BY <3>1, <3>2, <3>3
  <2>6. h = [k \in 0 .. (m + 1) |-> IF k = 0 THEN RunFrom(b, r) ELSE emit_armlet(b, L[k], h[k - 1])]
    BY <2>2, <2>5, Zenon
  <2> QED BY <2>6
<1>3. n \in S
  <2> HIDE DEF S
  <2> QED BY <1>1, <1>2, SetInduction
<1>4. PICK g : g = [k \in 0 .. n |-> IF k = 0 THEN RunFrom(b, r) ELSE emit_armlet(b, L[k], g[k - 1])]
  BY <1>3
<1>5. Runs(b, L, r, n) = [k \in 0 .. n |-> IF k = 0 THEN RunFrom(b, r) ELSE emit_armlet(b, L[k], Runs(b, L, r, n)[k - 1])]
  BY <1>4 DEF Runs
<1>6. \A k \in 0 .. n : Runs(b, L, r, n)[k] = IF k = 0 THEN RunFrom(b, r) ELSE emit_armlet(b, L[k], Runs(b, L, r, n)[k - 1])
  BY <1>5
<1> QED BY <1>6

\* The states of a run.
IsRun(g, b, L, m, n) ==
  g[0] = RunFrom(b, m) /\ \A k \in 1 .. n : g[k] = emit_armlet(b, L[k], g[k - 1])

\* The states of a run exist.
LEMMA RunsAre ==
  ASSUME NEW b, NEW L, NEW m, NEW n \in Nat
  PROVE  IsRun(Runs(b, L, m, n), b, L, m, n)
BY RunsExist DEF IsRun

\* A run ends in the last of its states.
LEMMA RunOfRuns ==
  ASSUME NEW b, NEW m
  PROVE  Run(b, m) = Ended(b, Runs(b, LiveSeq(b), m, Len(LiveSeq(b)))[Len(LiveSeq(b))])
BY DEF Run, Runs, RunFrom

\* A state of a run of a block of N nodes.
IsState(s, N) ==
  s = [env |-> s.env, m |-> s.m] /\ s.env = [i \in 1 .. N |-> s.env[i]] /\ IsMachine(s.m)

\* The state t after node i: only its value is bound, no lost register is given back, and
\* the machine is the same if the node has no side effects and no register was lost.
After(t, b, i, s, N) ==
  /\ IsState(t, N) /\ DOMAIN t.m = DOMAIN s.m /\ (t.m.intact => s.m.intact)
  /\ \A v \in 1 .. N : v # i => t.env[v] = s.env[v]
  /\ ~HasSideEffects(b.code[i].op) /\ t.m.intact => t.m = s.m

\* That is what a node does.
LEMMA NodeState ==
  ASSUME NEW b, NEW N, NEW s, IsState(s, N), NEW i \in 1 .. N
  PROVE  After(emit_armlet(b, i, s), b, i, s, N)
<1>1. PICK val, src : emit_armlet(b, i, s) = Bound(s, i, Evaluate(Operation(b.code[i]), val, src, s.m))
  BY Zenon DEF emit_armlet
<1>2. PICK a, e, t : /\ a = Operation(b.code[i]) /\ e = Evaluate(a, val, src, s.m)
                     /\ t = emit_armlet(b, i, s)
  OBVIOUS
<1>3. t = [env |-> [s.env EXCEPT ![i] = e.v], m |-> e.m]
  BY <1>1, <1>2 DEF Bound
<1>4. t.m = e.m /\ t.env = [s.env EXCEPT ![i] = e.v]
  BY <1>3
<1>5. Onward(e.m, s.m)
  BY <1>2, EvaluateOnward DEF IsState
<1>6. t.env = [j \in 1 .. N |-> t.env[j]] /\ \A v \in 1 .. N : v # i => t.env[v] = s.env[v]
  BY <1>4 DEF IsState
<1>7. t = [env |-> t.env, m |-> t.m]
  BY <1>3, <1>4
<1>8. ~HasSideEffects(b.code[i].op) /\ t.m.intact => t.m = s.m
  <2>1. a.op = b.code[i].op
    BY <1>2 DEF Operation
  <2>2. IsMachine(s.m)
    BY DEF IsState
  <2> QED BY <1>2, <1>4, <2>1, <2>2, EvaluatePure
<1> QED BY <1>2, <1>4, <1>5, <1>6, <1>7, <1>8 DEF Onward, IsState, After

\* Two states that agree on the machine and on all values but those of D.
Alike(s, t, D, N) ==
  IsState(s, N) /\ IsState(t, N) /\ s.m = t.m /\ \A v \in (1 .. N) \ D : s.env[v] = t.env[v]
\* A node that is the same in two blocks and uses no value of D.
Shared(b, d, i, D, N) ==
  /\ i \in 1 .. N /\ b.code[i].args \in Seq(1 .. N) /\ Operation(b.code[i]) = Operation(d.code[i])
  /\ \A v \in Operands(b, i) : v \in (1 .. N) \ D /\ b.code[v].ty = d.code[v].ty

\* Such a node does the same.
LEMMA NodeAlike ==
  ASSUME NEW b, NEW d, NEW i, NEW D, NEW N, Shared(b, d, i, D, N), NEW s, NEW t, Alike(s, t, D, N)
  PROVE  Alike(emit_armlet(b, i, s), emit_armlet(d, i, t), D, N)
<1>1. /\ i \in 1 .. N /\ b.code[i].args \in Seq(1 .. N) /\ Operation(b.code[i]) = Operation(d.code[i])
      /\ \A v \in Operands(b, i) : v \in (1 .. N) \ D /\ b.code[v].ty = d.code[v].ty
  BY DEF Shared
<1>2. PICK args : args = b.code[i].args /\ args = d.code[i].args
  BY <1>1, SameOperation
<1>3. \A j \in DOMAIN args : args[j] \in Operands(b, i)
  BY <1>2 DEF Operands
<1>4. \A j \in DOMAIN args : s.env[args[j]] = t.env[args[j]]
  BY <1>1, <1>3 DEF Alike
<1>5. PICK val : val = [j \in DOMAIN args |-> s.env[args[j]]]
  OBVIOUS
<1>6. val = [j \in DOMAIN args |-> t.env[args[j]]]
  BY <1>4, <1>5
<1>7. PICK src : src = (IF args = <<>> THEN "Void" ELSE b.code[args[1]].ty)
  OBVIOUS
<1>8. src = (IF args = <<>> THEN "Void" ELSE d.code[args[1]].ty)
  <2>1. CASE args = <<>>
    BY <2>1, <1>7
  <2>2. CASE args # <<>>
    <3>1. 1 \in DOMAIN args
      <4>1. PICK n \in Nat : n = Len(args) /\ DOMAIN args = 1 .. n
        BY <1>1, <1>2, LenProperties
      <4>2. n # 0
        BY <4>1, <2>2, <1>1, <1>2, EmptySeq
      <4> QED BY <4>1, <4>2
    <3> QED BY <3>1, <1>1, <1>3, <1>7, <2>2
  <2> QED BY <2>1, <2>2
<1>9. PICK e : e = Evaluate(Operation(b.code[i]), val, src, s.m)
  OBVIOUS
<1>10. s.m = t.m
  BY DEF Alike
<1>11. emit_armlet(b, i, s) = Bound(s, i, e)
  BY <1>2, <1>5, <1>7, <1>9, Zenon DEF emit_armlet
<1>12. emit_armlet(d, i, t) = Bound(t, i, e)
  <2>1. e = Evaluate(Operation(d.code[i]), val, src, t.m)
    BY <1>1, <1>9, <1>10
  <2> QED BY <2>1, <1>2, <1>6, <1>8, Zenon DEF emit_armlet
<1>13. PICK x, y : x = emit_armlet(b, i, s) /\ y = emit_armlet(d, i, t)
  OBVIOUS
<1>14. IsState(x, N) /\ IsState(y, N)
  <2>1. After(x, b, i, s, N) /\ After(y, d, i, t, N)
    BY <1>1, <1>13, NodeState DEF Alike
  <2> QED BY <2>1 DEF After
<1>15. /\ x.env = [s.env EXCEPT ![i] = e.v] /\ x.m = e.m
       /\ y.env = [t.env EXCEPT ![i] = e.v] /\ y.m = e.m
  BY <1>11, <1>12, <1>13 DEF Bound
<1>16. ASSUME NEW v \in (1 .. N) \ D PROVE x.env[v] = y.env[v]
  <2>1. s.env[v] = t.env[v] /\ s.env = [j \in 1 .. N |-> s.env[j]] /\ t.env = [j \in 1 .. N |-> t.env[j]]
    BY DEF Alike, IsState
  <2> QED BY <2>1, <1>1, <1>15
<1> QED BY <1>13, <1>14, <1>15, <1>16 DEF Alike

\* The values of the nodes behind the p-th up to the c-th.
CutValues(L, p, c) == {L[j] : j \in (p + 1) .. c}
\* How far the run of the cut block is when that of the block is at k.
CutPlace(p, c, k) == IF k <= p THEN k ELSE IF k <= c THEN p ELSE k - (c - p)

\* A cut of a block at nodes that are dead, and a run of the block that loses no register.
CutRunning(d, M, b, L, p, c, n, N, m) ==
  /\ CutOf(d, M, b, L, p, c, n, N) /\ Shaped(b) /\ Ordered(b, L) /\ Dead(b, L, p, c)
  /\ IsMachine(m) /\ Runs(b, L, m, n)[n].m.intact

\* The states of a run are states, and no register was lost before the end if none is there.
LEMMA RunStates ==
  ASSUME NEW b, NEW L, NEW n \in Nat, NEW N, N = Len(b.code), N \in Nat, NEW m, IsMachine(m),
         \A k \in 1 .. n : L[k] \in 1 .. N
  PROVE  /\ \A k \in 0 .. n : IsState(Runs(b, L, m, n)[k], N)
         /\ Runs(b, L, m, n)[n].m.intact => \A k \in 0 .. n : Runs(b, L, m, n)[k].m.intact
<1>1. PICK g : g = Runs(b, L, m, n)
  OBVIOUS
<1>2. g[0] = RunFrom(b, m) /\ \A k \in 1 .. n : g[k] = emit_armlet(b, L[k], g[k - 1])
  BY <1>1, RunsAre DEF IsRun
<1> DEFINE S == {k \in Nat : k <= n => IsState(g[k], N)}
<1>3. 0 \in S
  <2>1. g[0] = [env |-> [i \in 1 .. N |-> 0], m |-> m]
    BY <1>2 DEF RunFrom
  <2>2. g[0].env = [i \in 1 .. N |-> 0] /\ g[0].m = m
    BY <2>1
  <2>3. g[0] = [env |-> g[0].env, m |-> g[0].m] /\ g[0].env = [i \in 1 .. N |-> g[0].env[i]]
    BY <2>1, <2>2
  <2> QED BY <2>2, <2>3 DEF IsState
<1>4. ASSUME NEW k \in Nat, k \in S PROVE k + 1 \in S
  <2> SUFFICES ASSUME k + 1 <= n PROVE IsState(g[k + 1], N)
    OBVIOUS
  <2>1. k + 1 \in 1 .. n /\ (k + 1) - 1 = k
    OBVIOUS
  <2>2. g[k + 1] = emit_armlet(b, L[k + 1], g[k]) /\ L[k + 1] \in 1 .. N
    BY <2>1, <1>2
  <2>3. IsState(g[k], N)
    BY <1>4
  <2>4. After(g[k + 1], b, L[k + 1], g[k], N)
    BY <2>2, <2>3, NodeState
  <2> QED BY <2>4 DEF After
<1>5. \A k \in Nat : k \in S
  <2> HIDE DEF S
  <2> QED BY <1>3, <1>4, NatInduction, SetInduction
<1>6. \A k \in 0 .. n : IsState(g[k], N)
  BY <1>5
<1> DEFINE T == {j \in Nat : j <= n => g[n - j].m.intact}
<1>7. ASSUME g[n].m.intact PROVE \A k \in 0 .. n : g[k].m.intact
  <2>1. 0 \in T
    BY <1>7
  <2>2. ASSUME NEW j \in Nat, j \in T PROVE j + 1 \in T
    <3> SUFFICES ASSUME j + 1 <= n PROVE g[n - (j + 1)].m.intact
      OBVIOUS
    <3>1. PICK k \in 0 .. n : k = n - (j + 1)
      OBVIOUS
    <3>2. k + 1 \in 1 .. n /\ (k + 1) - 1 = k /\ n - j = k + 1
      BY <3>1
    <3>3. g[k + 1] = emit_armlet(b, L[k + 1], g[k]) /\ L[k + 1] \in 1 .. N
      BY <3>2, <1>2
    <3>4. g[k + 1].m.intact
      BY <2>2, <3>2
    <3>5. IsState(g[k], N)
      BY <1>6
    <3>6. g[k].m.intact
      <4>1. After(g[k + 1], b, L[k + 1], g[k], N)
        BY <3>3, <3>5, NodeState
      <4> QED BY <4>1, <3>4 DEF After
    <3> QED BY <3>1, <3>6
  <2>3. ASSUME NEW k \in 0 .. n PROVE g[k].m.intact
    <3>1. n - k \in Nat /\ n - k <= n /\ n - (n - k) = k
      OBVIOUS
    <3>2. n - k \in T
      <4> HIDE DEF T
      <4> QED BY <3>1, <2>1, <2>2, SetInduction
    <3> QED BY <3>1, <3>2
  <2> QED BY <2>3
<1> QED BY <1>1, <1>6, <1>7

\* A node that is left uses no value of a dead one.
LEMMA CutShared ==
  ASSUME NEW d, NEW M, NEW b, NEW L, NEW p, NEW c, NEW n, NEW N, CutOf(d, M, b, L, p, c, n, N),
         Shaped(b), Ordered(b, L), Dead(b, L, p, c), NEW k \in 1 .. n, k <= p \/ k > c
  PROVE  Shared(b, d, L[k], CutValues(L, p, c), N)
<1>1. /\ n = Len(L) /\ n \in Nat /\ c \in 1 .. n /\ p \in 0 .. (c - 1) /\ DOMAIN L = 1 .. n
      /\ N = Len(b.code) /\ \A j, i \in 1 .. n : L[j] = L[i] => j = i
  BY DEF CutOf, Places
<1>2. \A i \in 1 .. n : L[i] \in 1 .. N
  <2>1. L \in Seq(1 .. N) /\ Len(L) = n
    BY DEF CutOf, Places
  <2> QED BY <2>1, <1>1, ElementOfSeq
<1>3. b.code[L[k]].args \in Seq(1 .. N)
  BY <1>1, <1>2, CodeDomain DEF Shaped
<1>4. \A i \in 1 .. n : i # c => Operation(d.code[L[i]]) = Operation(b.code[L[i]])
  BY <1>1 DEF CutOf, Relisted
<1>5. ASSUME NEW v \in Operands(b, L[k])
      PROVE  v \in (1 .. N) \ CutValues(L, p, c) /\ b.code[v].ty = d.code[v].ty
  <2>1. v \in {L[j] : j \in 1 .. (k - 1)}
    BY <1>1, <1>5 DEF Ordered
  <2>2. PICK j \in 1 .. (k - 1) : v = L[j]
    BY <2>1
  <2>3. j \in 1 .. n
    BY <1>1
  <2>4. j \notin (p + 1) .. c
    <3>1. ASSUME j \in (p + 1) .. c PROVE k <= c
      BY <3>1, <2>2, <1>1, <1>5 DEF Dead, Within
    <3> QED BY <3>1, <1>1
  <2>5. v \notin CutValues(L, p, c)
    <3>1. ASSUME NEW h \in (p + 1) .. c, v = L[h] PROVE FALSE
      <4>1. h \in 1 .. n
        BY <1>1
      <4> QED BY <4>1, <3>1, <2>2, <2>3, <2>4, <1>1
    <3> QED BY <3>1 DEF CutValues
  <2>6. j # c
    BY <2>4, <1>1
  <2>7. b.code[v].ty = d.code[v].ty
    BY <2>2, <2>3, <2>6, <1>4, SameOperation
  <2> QED BY <2>2, <2>3, <2>5, <2>7, <1>2
<1>6. k # c
  BY <1>1
<1> QED BY <1>2, <1>3, <1>4, <1>5, <1>6 DEF Shared

\* The run of the cut block goes along.
LEMMA CutRuns ==
  ASSUME NEW d, NEW M, NEW b, NEW L, NEW p, NEW c, NEW n, NEW N, NEW m,
         CutRunning(d, M, b, L, p, c, n, N, m)
  PROVE  Alike(Runs(b, L, m, n)[n], Runs(d, M, m, n - (c - p))[n - (c - p)], CutValues(L, p, c), N)
<1>1. /\ CutOf(d, M, b, L, p, c, n, N) /\ Shaped(b) /\ Ordered(b, L) /\ Dead(b, L, p, c)
      /\ IsMachine(m) /\ Runs(b, L, m, n)[n].m.intact
  BY DEF CutRunning
<1>2. /\ n \in Nat /\ c \in 1 .. n /\ p \in 0 .. (c - 1) /\ DOMAIN L = 1 .. n
      /\ N \in Nat /\ N = Len(b.code) /\ N = Len(d.code)
  BY <1>1 DEF CutOf, Places, Relisted
<1>3. \A k \in 1 .. n : L[k] \in 1 .. N
  <2>1. L \in Seq(1 .. N) /\ Len(L) = n
    BY <1>1 DEF CutOf, Places
  <2> QED BY <2>1, <1>2, ElementOfSeq
<1>4. PICK q \in Nat : q = n - (c - p)
  BY <1>2
<1>5. PICK g, h, D : g = Runs(b, L, m, n) /\ h = Runs(d, M, m, q) /\ D = CutValues(L, p, c)
  OBVIOUS
<1>6. g[0] = RunFrom(b, m) /\ \A k \in 1 .. n : g[k] = emit_armlet(b, L[k], g[k - 1])
  <2>1. IsRun(g, b, L, m, n)
    BY <1>2, <1>5, RunsAre
  <2> QED BY <2>1 DEF IsRun
<1>7. h[0] = RunFrom(d, m) /\ \A k \in 1 .. q : h[k] = emit_armlet(d, M[k], h[k - 1])
  <2>1. IsRun(h, d, M, m, q)
    BY <1>4, <1>5, RunsAre
  <2> QED BY <2>1 DEF IsRun
<1>8. \A k \in 0 .. n : IsState(g[k], N) /\ g[k].m.intact
  BY <1>1, <1>2, <1>3, <1>5, RunStates
<1> DEFINE S == {k \in Nat : k <= n => Alike(g[k], h[CutPlace(p, c, k)], D, N)}
<1>9. 0 \in S
  <2>1. CutPlace(p, c, 0) = 0
    BY <1>2 DEF CutPlace
  <2>2. RunFrom(b, m) = RunFrom(d, m)
    BY <1>2 DEF RunFrom
  <2>3. IsState(g[0], N)
    BY <1>8, <1>2
  <2>4. Alike(g[0], h[0], D, N)
    BY <2>2, <2>3, <1>6, <1>7 DEF Alike
  <2> QED BY <2>1, <2>4
<1>10. ASSUME NEW k \in Nat, k \in S PROVE k + 1 \in S
  <2> SUFFICES ASSUME k + 1 <= n PROVE Alike(g[k + 1], h[CutPlace(p, c, k + 1)], D, N)
    OBVIOUS
  <2>1. k + 1 \in 1 .. n /\ (k + 1) - 1 = k
    OBVIOUS
  <2>2. g[k + 1] = emit_armlet(b, L[k + 1], g[k]) /\ L[k + 1] \in 1 .. N
    BY <2>1, <1>3, <1>6
  <2>3. PICK x : x = CutPlace(p, c, k) /\ Alike(g[k], h[x], D, N)
    <3>1. k <= n => Alike(g[k], h[CutPlace(p, c, k)], D, N)
      BY <1>10
    <3>2. k <= n
      BY <1>2
    <3> QED BY <3>1, <3>2
  <2>4. CASE k + 1 <= p \/ k + 1 > c
    <3>1. x \in 0 .. (q - 1) /\ CutPlace(p, c, k + 1) = x + 1
      BY <2>3, <2>4, <1>2, <1>4 DEF CutPlace
    <3>2. M[x + 1] = L[k + 1]
      <4>1. CASE k + 1 <= p
        <5>1. x + 1 = k + 1 /\ k + 1 \in 1 .. p
          BY <4>1, <2>3, <1>2 DEF CutPlace
        <5> QED BY <5>1, <1>1, CutPlaces DEF CutOf
      <4>2. CASE k + 1 > c
        <5>1. x + 1 = (k + 1) - (c - p) /\ k + 1 \in (c + 1) .. n
          BY <4>2, <2>3, <1>2 DEF CutPlace
        <5> QED BY <5>1, <1>1, CutPlaces DEF CutOf
      <4> QED BY <2>4, <4>1, <4>2
    <3>3. x + 1 \in 1 .. q /\ (x + 1) - 1 = x
      BY <3>1
    <3>4. h[x + 1] = emit_armlet(d, L[k + 1], h[x])
      BY <3>2, <3>3, <1>7
    <3>5. Shared(b, d, L[k + 1], D, N)
      BY <2>1, <2>4, <1>1, <1>5, CutShared
    <3>6. Alike(emit_armlet(b, L[k + 1], g[k]), emit_armlet(d, L[k + 1], h[x]), D, N)
      BY <3>5, <2>3, NodeAlike
    <3> QED BY <3>1, <3>4, <3>6, <2>2
  <2>5. CASE ~(k + 1 <= p \/ k + 1 > c)
    <3>1. CutPlace(p, c, k + 1) = x /\ k + 1 \in (p + 1) .. c
      BY <2>3, <2>5, <1>2 DEF CutPlace
    <3>2. ~HasSideEffects(b.code[L[k + 1]].op) /\ L[k + 1] \in D
      BY <3>1, <1>1, <1>5 DEF Dead, Within, CutValues
    <3>3. PICK s, t, i : s = g[k] /\ t = g[k + 1] /\ i = L[k + 1]
      OBVIOUS
    <3>4. IsState(s, N) /\ IsState(t, N) /\ t.m.intact
      <4>1. k \in 0 .. n /\ k + 1 \in 0 .. n
        BY <2>1, <1>2
      <4>2. IsState(g[k], N) /\ IsState(g[k + 1], N) /\ g[k + 1].m.intact
        BY <4>1, <1>8
      <4> QED BY <4>2, <3>3
    <3>5. t = emit_armlet(b, i, s) /\ i \in 1 .. N
      BY <3>3, <2>2
    <3>6. /\ \A v \in 1 .. N : v # i => t.env[v] = s.env[v]
          /\ ~HasSideEffects(b.code[i].op) /\ t.m.intact => t.m = s.m
      <4>1. After(t, b, i, s, N)
        BY <3>4, <3>5, NodeState
      <4> QED BY <4>1 DEF After
    <3>7. t.m = s.m /\ \A v \in (1 .. N) \ D : t.env[v] = s.env[v]
      BY <3>2, <3>3, <3>4, <3>6
    <3>8. Alike(t, h[x], D, N)
      BY <3>3, <3>4, <3>7, <2>3 DEF Alike
    <3> QED BY <3>1, <3>3, <3>8
  <2> QED BY <2>4, <2>5
<1>11. n \in S
  <2> HIDE DEF S
  <2> QED BY <1>2, <1>9, <1>10, SetInduction
<1>12. CutPlace(p, c, n) = q
  BY <1>2, <1>4 DEF CutPlace
<1> QED BY <1>4, <1>5, <1>11, <1>12, <1>2

\* An operation without side effects keeps the flags and does not set them.
LEMMA PurePreserves ==
  ASSUME NEW op, ~HasSideEffects(op)
  PROVE  op_preserves_nzcv(op) /\ op \notin Producers
<1>1. op \notin Producers
  BY DEF HasSideEffects, Producers, FlagOps
<1> QED BY <1>1 DEF op_preserves_nzcv, IsPure

\* The places of the nodes that may write the flags, and the last of them.
Writers(b, L) ==
  {k \in DOMAIN L : b.code[L[k]].op \in Producers \/ ~op_preserves_nzcv(b.code[L[k]].op)}
LastOf(W) == CHOOSE k \in W : \A j \in W : j <= k
Fused(b, L) ==
  IF b.terminal.t # "ConditionalBranch" \/ Writers(b, L) = {}
    THEN NONE
  ELSE IF /\ b.code[L[LastOf(Writers(b, L))]].op \in Producers
          /\ fused_jcc_kind(b.code[L[LastOf(Writers(b, L))]].op, b.terminal.cond) # "none"
    THEN L[LastOf(Writers(b, L))] ELSE NONE

\* The compare that is executed again is the last node that writes the flags.
LEMMA ProducerFused ==
  ASSUME NEW b
  PROVE  fusable_flag_producer(b) = Fused(b, LiveSeq(b))
BY DEF fusable_flag_producer, Fused, Writers, LastOf

\* A set of places that is not empty has a last one.
LEMMA LastExists ==
  ASSUME NEW n \in Nat, NEW W, W \subseteq 1 .. n, W # {}
  PROVE  LastOf(W) \in W /\ \A j \in W : j <= LastOf(W)
<1> DEFINE S == {h \in Nat : (h <= n /\ \E w \in W : w >= n - h) => \E k \in W : \A j \in W : j <= k}
<1>1. 0 \in S
  <2>1. ASSUME NEW w \in W, w >= n PROVE \A j \in W : j <= w
    BY <2>1
  <2> QED BY <2>1
<1>2. ASSUME NEW h \in Nat, h \in S PROVE h + 1 \in S
  <2> SUFFICES ASSUME h + 1 <= n, NEW w \in W, w >= n - (h + 1)
               PROVE  \E k \in W : \A j \in W : j <= k
    OBVIOUS
  <2>1. CASE \E x \in W : x >= n - h
    BY <2>1, <1>2
  <2>2. CASE ~\E x \in W : x >= n - h
    <3>1. \A x \in W : x < n - h /\ x \in Int
      BY <2>2
    <3>2. \A x \in W : x <= w
      BY <3>1
    <3> QED BY <3>2
  <2> QED BY <2>1, <2>2
<1>3. n \in S
  <2> HIDE DEF S
  <2> QED BY <1>1, <1>2, SetInduction
<1>4. \E k \in W : \A j \in W : j <= k
  <2>1. PICK w \in W : w \in 1 .. n
    OBVIOUS
  <2>2. w >= n - n
    BY <2>1
  <2> QED BY <1>3, <2>2
<1> QED BY <1>4 DEF LastOf

\* The branch fuses with the same node after a cut.
LEMMA CutFused ==
  ASSUME NEW d, NEW M, NEW b, NEW L, NEW p, NEW c, NEW n, NEW N, CutOf(d, M, b, L, p, c, n, N),
         Dead(b, L, p, c)
  PROVE  /\ Fused(d, M) = Fused(b, L)
         /\ Fused(b, L) # NONE =>
              \E k \in 1 .. n : /\ k <= p \/ k > c
                                /\ Fused(b, L) = L[k] /\ b.code[L[k]].op \in Producers
<1>1. /\ n \in Nat /\ c \in 1 .. n /\ p \in 0 .. (c - 1) /\ DOMAIN L = 1 .. n
      /\ d.terminal = b.terminal
  BY DEF CutOf, Places, Relisted
<1>2. PICK g \in Nat, m \in Nat : g = c - p /\ m = n - g
  <2>1. c - p \in Nat /\ n - (c - p) \in Nat
    BY <1>1
  <2> QED BY <2>1
<1>3. /\ DOMAIN M = 1 .. m /\ Len(M) = m
      /\ \A k \in 1 .. m : /\ k <= p => M[k] = L[k] /\ k \in 1 .. n /\ k # c
                           /\ k > p => \E i \in (c + 1) .. n : i = k + g /\ M[k] = L[i]
      /\ \A i \in 1 .. p : i \in 1 .. m /\ M[i] = L[i]
      /\ \A i \in (c + 1) .. n : i - g \in 1 .. m /\ M[i - g] = L[i]
  BY <1>2, CutPlaces DEF CutOf
<1>4. \A i \in 1 .. n : i # c => d.code[L[i]].op = b.code[L[i]].op
  BY CutOperands
<1>5. \A j \in (p + 1) .. c : op_preserves_nzcv(b.code[L[j]].op) /\ b.code[L[j]].op \notin Producers
  BY PurePreserves DEF Dead, Within
<1>6. PICK U, V : U = Writers(b, L) /\ V = Writers(d, M)
  OBVIOUS
<1>7. U \subseteq 1 .. n /\ V \subseteq 1 .. m
  BY <1>1, <1>3, <1>6 DEF Writers
<1>8. ASSUME NEW i \in U PROVE i \notin (p + 1) .. c
  BY <1>5, <1>6, <1>8 DEF Writers
<1>9. ASSUME NEW i \in U
      PROVE  /\ i <= p => i \in V /\ M[i] = L[i]
             /\ i > p => i > c /\ i - g \in V /\ M[i - g] = L[i]
  <2>1. i \in 1 .. n /\ i \notin (p + 1) .. c
    BY <1>7, <1>8
  <2>2. i # c /\ d.code[L[i]].op = b.code[L[i]].op
    BY <2>1, <1>1, <1>4
  <2>3. CASE i <= p
    <3>1. i \in 1 .. m /\ M[i] = L[i]
      BY <2>1, <2>3, <1>3
    <3> QED BY <3>1, <2>1, <2>2, <2>3, <1>1, <1>3, <1>6 DEF Writers
  <2>4. CASE i > p
    <3>1. i \in (c + 1) .. n
      BY <2>1, <2>4, <1>1
    <3>2. i - g \in 1 .. m /\ M[i - g] = L[i]
      BY <3>1, <1>3
    <3> QED BY <3>1, <3>2, <2>1, <2>2, <2>4, <1>1, <1>3, <1>6 DEF Writers
  <2> QED BY <2>1, <2>3, <2>4, <1>1
<1>10. ASSUME NEW k \in V
       PROVE  /\ k <= p => k \in U
              /\ k > p => k + g \in U
  <2>1. k \in 1 .. m
    BY <1>7
  <2>2. CASE k <= p
    <3>1. M[k] = L[k] /\ k \in 1 .. n /\ k # c
      BY <2>1, <2>2, <1>3
    <3> QED BY <3>1, <2>2, <1>1, <1>4, <1>6, <1>10 DEF Writers
  <2>3. CASE k > p
    <3>1. k + g \in (c + 1) .. n /\ M[k] = L[k + g]
      BY <2>1, <2>3, <1>3
    <3>2. k + g \in 1 .. n /\ k + g # c
      BY <3>1, <1>1
    <3>3. PICK h \in 1 .. n : h = k + g /\ M[k] = L[h] /\ d.code[L[h]].op = b.code[L[h]].op
      BY <3>1, <3>2, <1>4
    <3>4. d.code[L[h]].op \in Producers \/ ~op_preserves_nzcv(d.code[L[h]].op)
      BY <3>3, <1>6, <1>10 DEF Writers
    <3>5. h \in U
      BY <3>3, <3>4, <1>1, <1>6 DEF Writers
    <3> QED BY <3>3, <3>5, <2>1, <2>3, <1>1
  <2> QED BY <2>1, <2>2, <2>3, <1>1
<1>11. CASE U = {}
  <2>1. V = {}
    BY <1>7, <1>10, <1>11, <1>1
  <2> QED BY <2>1, <1>6, <1>11, <1>1 DEF Fused
<1>12. CASE U # {}
  <2>1. PICK x \in U : x = LastOf(U) /\ \A j \in U : j <= x
    BY <1>1, <1>7, <1>12, LastExists
  <2>2. PICK y \in 1 .. m : y \in V /\ M[y] = L[x] /\ y = (IF x <= p THEN x ELSE x - g)
    <3>1. x \in 1 .. n
      BY <2>1, <1>7
    <3>2. /\ x <= p => x \in V /\ M[x] = L[x]
          /\ x > p => x - g \in V /\ M[x - g] = L[x]
      BY <1>9
    <3> QED BY <3>1, <3>2, <1>1, <1>7
  <2>3. ASSUME NEW k \in V PROVE k <= y
    <3>1. k \in 1 .. m /\ x \in 1 .. n
      BY <1>7, <2>1
    <3>2. k <= p => k <= x
      BY <1>10, <2>1, <2>3
    <3>3. k > p => k + g <= x
      BY <1>10, <2>1, <2>3
    <3>4. x > p => x > c
      BY <1>9, <2>1
    <3> QED BY <3>1, <3>2, <3>3, <3>4, <2>2, <1>1, <1>2
  <2>4. PICK z \in V : z = LastOf(V) /\ \A j \in V : j <= z
    <3>1. V # {}
      BY <2>2
    <3> QED BY <3>1, <1>2, <1>7, LastExists
  <2>5. z = y
    <3>1. z <= y /\ y <= z /\ z \in Int /\ y \in Int
      BY <2>2, <2>3, <2>4, <1>7
    <3> QED BY <3>1
  <2>6. M[LastOf(V)] = L[x] /\ V # {}
    BY <2>2, <2>4, <2>5
  <2>7. x \in 1 .. n /\ (x <= p \/ x > c) /\ x # c
    BY <2>1, <1>1, <1>7, <1>8
  <2>8. d.code[L[x]].op = b.code[L[x]].op
    BY <2>7, <1>4
  <2>9. PICK i, o : i = L[x] /\ o = b.code[L[x]].op
    OBVIOUS
  <2>10. Fused(b, L) = IF b.terminal.t # "ConditionalBranch" THEN NONE
                       ELSE IF o \in Producers /\ fused_jcc_kind(o, b.terminal.cond) # "none"
                         THEN i ELSE NONE
    BY <2>1, <2>9, <1>6, <1>12 DEF Fused
  <2>11. Fused(d, M) = IF b.terminal.t # "ConditionalBranch" THEN NONE
                       ELSE IF o \in Producers /\ fused_jcc_kind(o, b.terminal.cond) # "none"
                         THEN i ELSE NONE
    BY <2>6, <2>8, <2>9, <1>1, <1>6 DEF Fused
  <2> QED BY <2>7, <2>9, <2>10, <2>11
<1> QED BY <1>11, <1>12

\* The fused branch looks at the operands of its producer only.
LEMMA FusedAlike ==
  ASSUME NEW x, NEW y, Operation(x) = Operation(y), NEW cond, NEW e, NEW f,
         e[x.args[1]] = f[x.args[1]], x.op # "LogicFlags" => e[x.args[2]] = f[x.args[2]]
  PROVE  FusedTaken(x, cond, e) = FusedTaken(y, cond, f)
<1>1. PICK op, w, args : /\ op = x.op /\ w = x.w /\ args = x.args
                         /\ op = y.op /\ w = y.w /\ args = y.args
  BY SameOperation
<1>2. PICK u, v : u = Trunc(e[args[1]], w) /\ v = (IF op = "LogicFlags" THEN 0 ELSE Trunc(e[args[2]], w))
  OBVIOUS
<1>3. u = Trunc(f[args[1]], w) /\ v = (IF op = "LogicFlags" THEN 0 ELSE Trunc(f[args[2]], w))
  BY <1>1, <1>2
<1>4. FusedTaken(x, cond, e) = emit_fused_jcc(fused_jcc_kind(op, cond), emit_fused_flags(op, u, v, w))
  BY <1>1, <1>2, Zenon DEF FusedTaken
<1>5. FusedTaken(y, cond, f) = emit_fused_jcc(fused_jcc_kind(op, cond), emit_fused_flags(op, u, v, w))
  BY <1>1, <1>3, Zenon DEF FusedTaken
<1> QED BY <1>4, <1>5

\* The address a block continues at depends on the terminal, on the node its branch fuses
\* with and on the values these use.
SameEnd(b, d, q, e, f) ==
  /\ b.terminal = d.terminal
  /\ b.terminal.t \in OnValue \cup {"LinkBlock", "DirectBranch", "ConditionalBranch", "Exception"}
  /\ b.terminal.t \in OnValue => e[b.terminal.value] = f[b.terminal.value]
  /\ q # NONE => FusedTaken(b.code[q], b.terminal.cond, e) = FusedTaken(d.code[q], b.terminal.cond, f)

\* Blocks with the same end leave for the same address.
LEMMA NextPcAlike ==
  ASSUME NEW b, NEW d, NEW q, NEW e, NEW f, SameEnd(b, d, q, e, f), NEW z
  PROVE  NextPc(b, q, e, z) = NextPc(d, q, f, z)
<1> USE DEF SameEnd
<1>1. PICK t : t = b.terminal /\ t = d.terminal
  OBVIOUS
<1>2. CASE t.t \in {"LinkBlock", "DirectBranch"}
  BY <1>1, <1>2 DEF NextPc
<1>3. CASE t.t = "ConditionalBranch"
  BY <1>1, <1>3 DEF NextPc
<1>4. CASE t.t \in OnValue
  <2>1. PICK v : v = e[t.value] /\ v = f[t.value]
    BY <1>1, <1>4
  <2> QED BY <1>1, <1>4, <2>1 DEF NextPc, OnValue
<1>5. CASE t.t = "Exception"
  BY <1>1, <1>5 DEF NextPc
<1> QED BY <1>1, <1>2, <1>3, <1>4, <1>5

\* The cut block does what the block does.
LEMMA CutRun ==
  ASSUME NEW d, NEW b, NEW L, NEW M, NEW m, L = LiveSeq(b), M = LiveSeq(d), Shaped(b), Ordered(b, L),
         Supplied(b, L), NEW p, NEW c, CutOf(d, M, b, L, p, c, Len(L), Len(b.code)), Dead(b, L, p, c),
         IsMachine(m), Run(b, m).m.intact
  PROVE  Run(d, m) = Run(b, m)
<1>1. PICK n, N, q : n = Len(L) /\ N = Len(b.code) /\ q = n - (c - p)
  BY Zenon
<1>2. CutOf(d, M, b, L, p, c, n, N)
  BY <1>1, Zenon
<1>3. /\ n \in Nat /\ N \in Nat /\ c \in 1 .. n /\ p \in 0 .. (c - 1) /\ DOMAIN L = 1 .. n
      /\ d.terminal = b.terminal /\ \A j, k \in 1 .. n : L[j] = L[k] => j = k
  <2>1. Places(L, p, c, n, N) /\ Relisted(d, b, L, p, c)
    BY <1>2, Zenon DEF CutOf
  <2>2. DOMAIN L = 1 .. n /\ \A j, k \in 1 .. n : L[j] = L[k] => j = k
    BY <1>2, Zenon DEF CutOf
  <2>3. n \in Nat /\ N \in Nat /\ c \in 1 .. n /\ p \in 0 .. (c - 1)
    BY <2>1, Zenon DEF Places
  <2>4. d.terminal = b.terminal
    BY <2>1, Zenon DEF Relisted
  <2> QED BY <2>2, <2>3, <2>4, Zenon
<1>4. Len(M) = q
  BY <1>1, <1>2, CutPlaces DEF CutOf
<1>5. PICK s, t, D : /\ s = Runs(b, L, m, n)[n] /\ t = Runs(d, M, m, q)[q]
                     /\ D = CutValues(L, p, c)
  OBVIOUS
<1>6. Run(b, m) = Ended(b, s) /\ Run(d, m) = Ended(d, t)
  BY <1>1, <1>4, <1>5, RunOfRuns
<1>7. s.m.intact
  BY <1>6 DEF Ended
<1>8. Alike(s, t, D, N)
  <2>1. CutRunning(d, M, b, L, p, c, n, N, m)
    BY <1>2, <1>5, <1>7 DEF CutRunning
  <2> QED BY <2>1, <1>1, <1>5, CutRuns
<1>9. s.m = t.m /\ \A v \in (1 .. N) \ D : s.env[v] = t.env[v]
  BY <1>8 DEF Alike
<1>10. PICK r : r = Fused(b, L) /\ r = Fused(d, M)
  BY <1>2, CutFused
<1>11. fusable_flag_producer(b) = r /\ fusable_flag_producer(d) = r
  BY <1>10, ProducerFused
<1>12. ASSUME r # NONE
       PROVE  FusedTaken(b.code[r], b.terminal.cond, s.env) = FusedTaken(d.code[r], b.terminal.cond, t.env)
  <2>1. PICK k \in 1 .. n : (k <= p \/ k > c) /\ r = L[k] /\ b.code[r].op \in Producers
    BY <1>2, <1>10, <1>12, CutFused
  <2>2. /\ Operation(b.code[r]) = Operation(d.code[r])
        /\ \A v \in Operands(b, r) : v \in (1 .. N) \ D
    BY <2>1, <1>2, <1>5, CutShared DEF Shared
  <2>3. {1, IF b.code[r].op = "LogicFlags" THEN 1 ELSE 2} \subseteq DOMAIN b.code[r].args
    BY <2>1, <1>3 DEF Supplied
  <2>4. s.env[b.code[r].args[1]] = t.env[b.code[r].args[1]]
    <3>1. b.code[r].args[1] \in Operands(b, r)
      BY <2>3 DEF Operands
    <3> QED BY <3>1, <2>2, <1>9
  <2>5. ASSUME b.code[r].op # "LogicFlags"
        PROVE  s.env[b.code[r].args[2]] = t.env[b.code[r].args[2]]
    <3>1. b.code[r].args[2] \in Operands(b, r)
      BY <2>3, <2>5 DEF Operands
    <3> QED BY <3>1, <2>2, <1>9
  <2> QED BY <2>2, <2>4, <2>5, FusedAlike
<1>13. ASSUME b.terminal.t \in OnValue
       PROVE  s.env[b.terminal.value] = t.env[b.terminal.value]
  <2>1. PICK v : v = b.terminal.value
    OBVIOUS
  <2>2. v \in TerminalOperands(b)
    BY <2>1, <1>13 DEF Supplied, TerminalOperands
  <2>3. v \in {L[j] : j \in 1 .. ((n + 1) - 1)}
    BY <2>2, <1>1 DEF Ordered
  <2>4. PICK j \in 1 .. n : v = L[j]
    BY <2>3, <1>3
  <2>5. j \notin (p + 1) .. c
    BY <2>2, <2>4 DEF Dead, Within
  <2>6. v \notin D
    <3>1. ASSUME NEW h \in (p + 1) .. c, v = L[h] PROVE FALSE
      <4>1. h \in 1 .. n
        BY <1>3
      <4> QED BY <4>1, <3>1, <2>4, <2>5, <1>3
    <3> QED BY <3>1, <1>5 DEF CutValues
  <2>7. v \in 1 .. N
    <3>1. L \in Seq(1 .. N) /\ Len(L) = n
      BY <1>2 DEF CutOf, Places
    <3> QED BY <3>1, <2>4, ElementOfSeq
  <2> QED BY <2>1, <2>6, <2>7, <1>9
<1>14. b.terminal.t \in OnValue \cup {"LinkBlock", "DirectBranch", "ConditionalBranch", "Exception"}
  BY DEF Supplied
<1>15. NextPc(b, r, s.env, s.m.nzcv) = NextPc(d, r, t.env, s.m.nzcv)
  <2>1. SameEnd(b, d, r, s.env, t.env)
    BY <1>3, <1>12, <1>13, <1>14 DEF SameEnd
  <2> QED BY <2>1, NextPcAlike
<1> QED BY <1>6, <1>9, <1>11, <1>15 DEF Ended

-----------------------------------------------------------------------------
(* The backward pass.                                                      *)

\* Block d does what b does where that leaves the machine intact.
SameRun(d, b) == \A m : IsMachine(m) /\ Run(b, m).m.intact => Run(d, m) = Run(b, m)
\* What holds of the pass after any number of its steps.
Reached(s, b, N) == (\E L, c : Removing(s, L, c, N)) /\ SameRun(s.b, b)

\* A step of the pass keeps what the block does.
LEMMA StepReached ==
  ASSUME NEW s, NEW b, NEW N, Reached(s, b, N)
  PROVE  Reached(RemoveStep(s), b, N)
<1>1. PICK L, c : Removing(s, L, c, N)
  BY DEF Reached
<1>2. PICK t : t = RemoveStep(s)
  OBVIOUS
<1>3. PICK M, e : Removing(t, M, e, N) /\ CutDead(t.b, M, s.b, L)
  BY <1>1, <1>2, RemoveStepDead DEF Stepped
<1>4. /\ Shaped(s.b) /\ Ordered(s.b, L) /\ Supplied(s.b, L) /\ L = LiveSeq(s.b) /\ M = LiveSeq(t.b)
  BY <1>1, <1>3, ListingLive DEF Removing
<1>5. ASSUME NEW m, IsMachine(m), Run(b, m).m.intact
      PROVE  Run(t.b, m) = Run(b, m)
  <2>1. Run(s.b, m) = Run(b, m)
    BY <1>5 DEF Reached, SameRun
  <2>2. Run(s.b, m).m.intact
    BY <1>5, <2>1
  <2>3. CASE t.b = s.b
    BY <2>1, <2>3
  <2>4. CASE t.b # s.b
    <3>1. PICK p, d : CutOf(t.b, M, s.b, L, p, d, Len(L), Len(s.b.code)) /\ Dead(s.b, L, p, d)
      BY <1>3, <2>4 DEF CutDead
    <3>2. Run(t.b, m) = Run(s.b, m)
      BY <1>4, <1>5, <2>2, <3>1, CutRun
    <3> QED BY <2>1, <3>2
  <2> QED BY <2>3, <2>4
<1> QED BY <1>2, <1>3, <1>5 DEF Reached, SameRun

\* What the backward pass leaves.
LEMMA RemoveUnusedReached ==
  ASSUME NEW b, Removable(b)
  PROVE  \E s : s.b = RemoveUnused(b) /\ Reached(s, b, Len(b.code))
<1>1. PICK N \in Nat : N = Len(b.code)
  BY DEF Removable, Shaped
<1>2. PICK g : g = Removals(b, N)
  OBVIOUS
<1>3. g[0] = RemoveFrom(b) /\ \A k \in 1 .. N : g[k] = RemoveStep(g[k - 1])
  BY <1>1, <1>2, RemovalsExist
<1> DEFINE S == {k \in Nat : k <= N => Reached(g[k], b, N)}
<1>4. 0 \in S
  <2>1. Removing(RemoveFrom(b), LiveSeq(b), Len(LiveSeq(b)), N)
    BY <1>1, RemovingStarts
  <2>2. RemoveFrom(b).b = b
    BY DEF RemoveFrom
  <2>3. SameRun(b, b)
    BY DEF SameRun
  <2>4. Reached(RemoveFrom(b), b, N)
    BY <2>1, <2>2, <2>3 DEF Reached
  <2> QED BY <1>3, <2>4
<1>5. ASSUME NEW k \in Nat, k \in S PROVE k + 1 \in S
  <2>1. CASE k + 1 <= N
    <3>1. k + 1 \in 1 .. N /\ (k + 1) - 1 = k /\ k <= N
      BY <1>1, <2>1
    <3>2. g[k + 1] = RemoveStep(g[k])
      BY <1>3, <3>1
    <3>3. Reached(g[k], b, N)
      BY <1>5, <3>1
    <3>4. Reached(g[k + 1], b, N)
      BY <3>2, <3>3, StepReached
    <3> QED BY <3>4
  <2> QED BY <2>1
<1>6. N \in S
  <2> HIDE DEF S
  <2> QED BY <1>4, <1>5, SetInduction
<1>7. g[N].b = RemoveUnused(b)
  BY <1>1, <1>2, RemoveUnusedRemovals
<1> QED BY <1>1, <1>6, <1>7

\* pass.rs:340-384: where the stale links skip nothing but what goes with the node that has
\* them and no use count saturates, the pass leaves a well formed list whose every node, and
\* the terminal, has its operands listed before it.
THEOREM RemovedOrdered ==
  ASSUME NEW b, Removable(b)
  PROVE  LET d == RemoveUnused(b)
         IN  /\ Shaped(d) /\ Listing(d, LiveSeq(d))
             /\ Ordered(d, LiveSeq(d)) /\ Supplied(d, LiveSeq(d))
<1>1. PICK s : s.b = RemoveUnused(b) /\ Reached(s, b, Len(b.code))
  BY RemoveUnusedReached
<1>2. PICK L, c : Removing(s, L, c, Len(b.code))
  BY <1>1 DEF Reached
<1>3. Shaped(s.b) /\ Listing(s.b, L) /\ Ordered(s.b, L) /\ Supplied(s.b, L) /\ LiveSeq(s.b) = L
  BY <1>2, ListingLive DEF Removing
<1> QED BY <1>1, <1>3

\* And the block does the same without the nodes: the same registers, flags, memory and
\* accesses, and the same next address, from every machine whose registers the block
\* leaves intact.
THEOREM RemovalFaithful ==
  ASSUME NEW b, Removable(b), NEW m, IsMachine(m), Run(b, m).m.intact
  PROVE  Run(RemoveUnused(b), m) = Run(b, m)
<1>1. PICK s : s.b = RemoveUnused(b) /\ Reached(s, b, Len(b.code))
  BY RemoveUnusedReached
<1> QED BY <1>1 DEF Reached, SameRun

\* The optimized block is what the optimizer makes of the translated one.
OptimizedBlock == stage = "optimized" => opt = optimize(block)
\* It is, in every reachable state.
LEMMA BlockOptimized == Spec => []OptimizedBlock
<1>1. Init => OptimizedBlock
  BY DEF Init, OptimizedBlock
<1>2. OptimizedBlock /\ [Next]_vars => OptimizedBlock'
  <2> USE DEF OptimizedBlock
  <2> SUFFICES ASSUME OptimizedBlock, [Next]_vars PROVE OptimizedBlock'
    OBVIOUS
  <2>1. CASE TranslateInsn
    BY <2>1 DEF TranslateInsn
  <2>2. CASE Refuse
    BY <2>2 DEF Refuse
  <2>3. CASE LinkNext
    BY <2>3 DEF LinkNext
  <2>4. CASE Optimize
    BY <2>4, Zenon DEF Optimize
  <2>5. CASE Done \/ UNCHANGED vars
    BY <2>5, Zenon DEF Done, vars
  <2> QED BY <2>1, <2>2, <2>3, <2>4, <2>5 DEF Next
<1> QED BY <1>1, <1>2, PTL DEF Spec

\* pass.rs:340-384, of every guest program: whatever block the translators made, the
\* optimized one has every operand of a listed node, and the value of the terminal, listed
\* before its use (OperandsDefined), where the backward pass starts from a block whose
\* stale links skip nothing in use and whose use counts do not saturate (RemovalSafe).
THEOREM OptimizedOrdered == Spec => [](RemovalSafe => OperandsDefined)
<1>1. OptimizedBlock => (RemovalSafe => OperandsDefined)
  <2> SUFFICES ASSUME OptimizedBlock, RemovalSafe, stage = "optimized" PROVE OperandsDefined
    BY DEF OperandsDefined
  <2>1. opt = optimize(block) /\ Removable(Given(block))
    BY DEF RemovalSafe, OptimizedBlock
  <2>2. PICK L : L = LiveSeq(opt)
    OBVIOUS
  <2>3. Ordered(opt, L)
    <3>1. CASE block.code = <<>>
      <4>1. opt = block /\ Given(block) = block
        BY <2>1, <3>1, Zenon DEF optimize, Given
      <4> QED BY <2>1, <2>2, <4>1 DEF Removable
    <3>2. CASE block.code # <<>>
      <4>1. opt = RemoveUnused(Given(block))
        BY <2>1, <3>2, Zenon DEF optimize, Given
      <4> QED BY <2>1, <2>2, <4>1, RemovedOrdered
    <3> QED BY <3>1, <3>2
  <2> DEFINE Before(k) == {L[j] : j \in 1 .. (k - 1)}
  <2>4. ASSUME NEW k \in DOMAIN L, NEW q \in DOMAIN opt.code[L[k]].args
        PROVE  opt.code[L[k]].args[q] \in Before(k)
    <3>1. opt.code[L[k]].args[q] \in Operands(opt, L[k])
      BY DEF Operands
    <3> QED BY <2>3, <3>1 DEF Ordered
  <2>5. ASSUME "value" \in DOMAIN opt.terminal
        PROVE  opt.terminal.value \in Before(Len(L) + 1)
    <3>1. opt.terminal.value \in TerminalOperands(opt)
      BY <2>5 DEF TerminalOperands
    <3> QED BY <2>3, <3>1 DEF Ordered
  <2> QED BY <2>2, <2>4, <2>5 DEF OperandsDefined
<1> QED BY <1>1, BlockOptimized, PTL

\* The block the backward pass starts from leaves the registers of other values intact.
LeftIntact == stage = "optimized" => \A m \in Machines : Run(Given(block), m).m.intact

\* The optimized block does what the translated one does (OptimizerFaithful), for every
\* guest program and every set of machines, exactly where the forward pass keeps what the
\* block does (ForwardFaithful): the backward pass neither breaks a block nor hides what
\* the forward pass broke, as long as RemovalSafe holds of what it starts from.
THEOREM OptimizedFaithful ==
  ASSUME \A m \in Machines : IsMachine(m)
  PROVE  Spec => [](RemovalSafe /\ LeftIntact => (OptimizerFaithful <=> ForwardFaithful))
<1>1. OptimizedBlock => (RemovalSafe /\ LeftIntact => (OptimizerFaithful <=> ForwardFaithful))
  <2> SUFFICES ASSUME OptimizedBlock, RemovalSafe, LeftIntact, stage = "optimized",
                      NEW m \in Machines
               PROVE  Run(opt, m) = Run(Given(block), m)
    BY DEF OptimizerFaithful, ForwardFaithful
  <2>1. PICK b : b = Given(block) /\ Removable(b)
    BY DEF RemovalSafe
  <2>2. IsMachine(m) /\ Run(b, m).m.intact
    BY <2>1 DEF LeftIntact
  <2>3. CASE block.code = <<>>
    <3>1. opt = block /\ b = block
      BY <2>1, <2>3, Zenon DEF optimize, Given, OptimizedBlock
    <3> QED BY <2>1, <3>1
  <2>4. CASE block.code # <<>>
    <3>1. opt = RemoveUnused(b)
      BY <2>1, <2>4, Zenon DEF optimize, Given, OptimizedBlock
    <3> QED BY <2>1, <2>2, <3>1, RemovalFaithful
  <2> QED BY <2>3, <2>4
<1> QED BY <1>1, BlockOptimized, PTL

-----------------------------------------------------------------------------
(* The values the forward pass simplifies.                                 *)

\* What a binary node yields (dispatch_op).
Value(op, x, y, w) == Binary(op, Trunc(x, w), Trunc(y, w), w)

\* The widths of operands: the modulus of the smaller divides that of the larger.
LEMMA Widths ==
  ASSUME NEW w \in {WBits, XBits}
  PROVE  /\ w \in Nat \ {0} /\ 2^w \in Nat \ {0} /\ 2^XBits \in Nat \ {0} /\ w < 2^w
         /\ \E d \in Nat : 2^XBits = 2^w * d
<1>1. 2^0 = 1 /\ \A n \in Nat : 2^n \in Nat \ {0} /\ 2^(n + 1) = 2 * 2^n
  BY PowerFacts
<1>2. 2^1 = 2 /\ 2^2 = 4 /\ 2^3 = 8 /\ 2^4 = 16
  <2>1. 2^(0 + 1) = 2 * 2^0 /\ 2^(1 + 1) = 2 * 2^1 /\ 2^(2 + 1) = 2 * 2^2 /\ 2^(3 + 1) = 2 * 2^3
    BY <1>1
  <2> QED BY <2>1, <1>1
<1>3. 2^8 = 256
  <2>1. 2^(4 + 1) = 2 * 2^4 /\ 2^(5 + 1) = 2 * 2^5 /\ 2^(6 + 1) = 2 * 2^6 /\ 2^(7 + 1) = 2 * 2^7
    BY <1>1
  <2> QED BY <2>1, <1>2
<1>4. CASE w = WBits
  <2>1. w = 4 /\ 2^w = 16 /\ 2^XBits = 256
    BY <1>2, <1>3, <1>4 DEF WBits, XBits
  <2>2. 256 = 16 * 16
    OBVIOUS
  <2> QED BY <2>1, <2>2
<1>5. CASE w = XBits
  <2>1. w = 8 /\ 2^w = 256 /\ 2^XBits = 256
    BY <1>3, <1>5 DEF XBits
  <2>2. 256 = 256 * 1
    OBVIOUS
  <2> QED BY <2>1, <2>2
<1> QED BY <1>4, <1>5

\* A value cut to the width, or to 64 bits, has the residue it had.
LEMMA CutResidue ==
  ASSUME NEW w \in {WBits, XBits}, NEW v \in Int, NEW u,
         u = Trunc(v, XBits) \/ u = v \/ u = Trunc(v, w)
  PROVE  /\ u \in Int /\ Trunc(u, w) = Trunc(v, w) /\ Trunc(v, w) \in Word(w)
         /\ (IF w = WBits THEN Trunc(u, WBits) ELSE Trunc(u, XBits)) \in Nat
         /\ Trunc(IF w = WBits THEN Trunc(u, WBits) ELSE Trunc(u, XBits), w) = Trunc(v, w)
<1>1. PICK P \in Nat \ {0}, Q \in Nat \ {0}, d \in Nat : P = 2^w /\ Q = 2^XBits /\ Q = P * d
  BY Widths
<1>2. ASSUME NEW z \in Int PROVE /\ z % P \in Int /\ z % Q \in Int /\ (z % P) % P = z % P
                                 /\ z % P \in 0 .. (P - 1) /\ z % Q \in 0 .. (Q - 1)
                                 /\ (z % Q) % P = z % P
  <2>1. z % P \in 0 .. (P - 1) /\ z % Q \in 0 .. (Q - 1)
    BY ResidueOf
  <2>2. (z % P) % P = z % P
    BY <2>1, ResidueSmall
  <2>3. (z % Q) % P = z % P
    BY <1>1, ResidueResidue
  <2> QED BY <2>1, <2>2, <2>3
<1>3. u \in Int /\ u % P = v % P
  <2>1. CASE u = v
    BY <2>1
  <2>2. CASE u = Trunc(v, XBits)
    BY <2>2, <1>1, <1>2 DEF Trunc
  <2>3. CASE u = Trunc(v, w)
    BY <2>3, <1>1, <1>2 DEF Trunc
  <2> QED BY <2>1, <2>2, <2>3
<1>4. PICK t : t = IF w = WBits THEN Trunc(u, WBits) ELSE Trunc(u, XBits)
  OBVIOUS
<1>5. t = u % P \/ t = u % Q
  BY <1>1, <1>4 DEF Trunc
<1>6. t \in Nat /\ t % P = u % P
  <2>1. /\ u % P \in 0 .. (P - 1) /\ u % Q \in 0 .. (Q - 1)
        /\ (u % P) % P = u % P /\ (u % Q) % P = u % P
    BY <1>2, <1>3
  <2> QED BY <2>1, <1>5
<1> QED BY <1>1, <1>2, <1>3, <1>4, <1>6 DEF Trunc, Word

\* Residues in words of w bits.
LEMMA TruncType ==
  ASSUME NEW w \in Nat, NEW a \in Int
  PROVE  Trunc(a, w) \in Int /\ Trunc(a, w) \in Word(w) /\ Trunc(Trunc(a, w), w) = Trunc(a, w)
<1>1. PICK P \in Nat \ {0} : P = 2^w
  BY PowerFacts
<1>2. PICK r \in 0 .. (P - 1) : r = a % P
  BY ResidueOf
<1>3. r % P = r
  BY ResidueSmall
<1>4. r \in Int /\ r \in Word(w)
  BY <1>1 DEF Word
<1> QED BY <1>1, <1>2, <1>3, <1>4, Zenon DEF Trunc

\* A word is its own residue.
LEMMA WordTrunc ==
  ASSUME NEW w \in Nat, NEW a \in Word(w)
  PROVE  a \in Int /\ Trunc(a, w) = a
<1>1. PICK P \in Nat \ {0} : P = 2^w
  BY PowerFacts
<1>2. a \in 0 .. (P - 1)
  BY <1>1 DEF Word
<1>3. a % P = a
  BY <1>2, ResidueSmall
<1>4. a \in Int
  BY <1>2
<1> QED BY <1>1, <1>3, <1>4, Zenon DEF Trunc

\* A sum of words.
LEMMA TruncSum ==
  ASSUME NEW w \in Nat, NEW a \in Int, NEW b \in Int
  PROVE  Trunc(Trunc(a, w) + b, w) = Trunc(a + b, w) /\ Trunc(b + Trunc(a, w), w) = Trunc(b + a, w)
<1>1. PICK P \in Nat \ {0} : P = 2^w
  BY PowerFacts
<1>2. ((a % P) + b) % P = (a + b) % P /\ (b + (a % P)) % P = (b + a) % P
  BY ResidueSum
<1> QED BY <1>1, <1>2, Zenon DEF Trunc

\* A difference of words.
LEMMA TruncDifference ==
  ASSUME NEW w \in Nat, NEW a \in Int, NEW b \in Int
  PROVE  Trunc(Trunc(a, w) - b, w) = Trunc(a - b, w) /\ Trunc(b - Trunc(a, w), w) = Trunc(b - a, w)
<1>1. PICK P \in Nat \ {0} : P = 2^w
  BY PowerFacts
<1>2. ((a % P) - b) % P = (a - b) % P /\ (b - (a % P)) % P = (b - a) % P
  BY ResidueDifference
<1> QED BY <1>1, <1>2, Zenon DEF Trunc

\* A product of words.
LEMMA TruncProduct ==
  ASSUME NEW w \in Nat, NEW a \in Int, NEW b \in Int
  PROVE  Trunc(Trunc(a, w) * b, w) = Trunc(a * b, w) /\ Trunc(b * Trunc(a, w), w) = Trunc(b * a, w)
<1>1. PICK P \in Nat \ {0} : P = 2^w
  BY PowerFacts
<1>2. ((a % P) * b) % P = (a * b) % P /\ (b * (a % P)) % P = (b * a) % P
  BY ResidueProduct
<1> QED BY <1>1, <1>2, Zenon DEF Trunc

\* Sums, differences and products are those of the values, cut to the width.
LEMMA SumValues ==
  ASSUME NEW w \in {WBits, XBits}, NEW x \in Int, NEW y \in Int
  PROVE  /\ Value("Add", x, y, w) = Trunc(x + y, w) /\ Value("Sub", x, y, w) = Trunc(x - y, w)
         /\ Value("Mul", x, y, w) = Trunc(x * y, w)
<1>1. w \in Nat
  BY Widths
<1>2. PICK a \in Int, b \in Int : a = Trunc(x, w) /\ b = Trunc(y, w)
  BY <1>1, TruncType
<1>3. Trunc(a + b, w) = Trunc(x + y, w)
  <2>1. Trunc(Trunc(x, w) + b, w) = Trunc(x + b, w)
    BY <1>1, TruncSum, Zenon
  <2>2. Trunc(x + Trunc(y, w), w) = Trunc(x + y, w)
    BY <1>1, TruncSum, Zenon
  <2> QED BY <1>2, <2>1, <2>2
<1>4. Trunc(a - b, w) = Trunc(x - y, w)
  <2>1. Trunc(Trunc(x, w) - b, w) = Trunc(x - b, w)
    BY <1>1, TruncDifference, Zenon
  <2>2. Trunc(x - Trunc(y, w), w) = Trunc(x - y, w)
    BY <1>1, TruncDifference, Zenon
  <2> QED BY <1>2, <2>1, <2>2
<1>5. Trunc(a * b, w) = Trunc(x * y, w)
  <2>1. Trunc(Trunc(x, w) * b, w) = Trunc(x * b, w)
    BY <1>1, TruncProduct, Zenon
  <2>2. Trunc(x * Trunc(y, w), w) = Trunc(x * y, w)
    BY <1>1, TruncProduct, Zenon
  <2> QED BY <1>2, <2>1, <2>2
<1>6. /\ Value("Add", x, y, w) = Trunc(a + b, w) /\ Value("Sub", x, y, w) = Trunc(a - b, w)
      /\ Value("Mul", x, y, w) = Trunc(a * b, w)
  BY <1>2 DEF Value, Binary
<1> QED BY <1>3, <1>4, <1>5, <1>6

\* Two operations with constants as one, with their sum, difference or product.
OffsetsAgree(w, x, c, d, u) ==
  /\ Trunc(u, w) = Trunc(c + d, w) =>
       Value("Add", x, u, w) = Value("Add", Value("Add", x, c, w), d, w)
  /\ Trunc(u, w) = Trunc(-(c + d), w) =>
       Value("Add", x, u, w) = Value("Sub", Value("Sub", x, c, w), d, w)
  /\ Trunc(u, w) = Trunc(d - c, w) =>
       Value("Add", x, u, w) = Value("Add", Value("Sub", x, c, w), d, w)
  /\ Trunc(u, w) = Trunc(c - d, w) =>
       Value("Add", x, u, w) = Value("Sub", Value("Add", x, c, w), d, w)
  /\ Trunc(u, w) = Trunc(c * d, w) =>
       Value("Mul", x, u, w) = Value("Mul", Value("Mul", x, c, w), d, w)

\* An operation of two constants is the first operation with their sum, difference or
\* product.
LEMMA OffsetsCombined ==
  ASSUME NEW w \in {WBits, XBits}, NEW x \in Int, NEW c \in Int, NEW d \in Int, NEW u
  PROVE  OffsetsAgree(w, x, c, d, u)
<1>1. w \in Nat
  BY Widths
<1>2. ASSUME NEW op, NEW z \in Int, NEW y, y = Trunc(z, w)
      PROVE  Value(op, y, d, w) = Value(op, z, d, w)
  BY <1>1, <1>2, TruncType DEF Value
<1>3. ASSUME NEW op, NEW z, Trunc(u, w) = Trunc(z, w) PROVE Value(op, x, u, w) = Value(op, x, z, w)
  BY <1>3 DEF Value
<1>4. PICK f, g, h : f = x + c /\ g = x - c /\ h = x * c
  OBVIOUS
<1>5. /\ f \in Int /\ g \in Int /\ h \in Int
      /\ Value("Add", x, c, w) = Trunc(f, w) /\ Value("Sub", x, c, w) = Trunc(g, w)
      /\ Value("Mul", x, c, w) = Trunc(h, w)
  <2>1. f \in Int /\ g \in Int /\ h \in Int
    BY <1>4
  <2>2. Value("Add", x, c, w) = Trunc(x + c, w) /\ Value("Sub", x, c, w) = Trunc(x - c, w)
        /\ Value("Mul", x, c, w) = Trunc(x * c, w)
    BY SumValues, Zenon
  <2> QED BY <1>4, <2>1, <2>2, Zenon
<1>6. ASSUME Trunc(u, w) = Trunc(c + d, w)
      PROVE  Value("Add", x, u, w) = Value("Add", Value("Add", x, c, w), d, w)
  <2>1. PICK z \in Int : z = c + d
    OBVIOUS
  <2>2. Value("Add", x, u, w) = Value("Add", x, z, w)
    BY <1>6, <1>3, <2>1
  <2>3. Value("Add", x, z, w) = Trunc(x + z, w)
    BY SumValues
  <2>4. Value("Add", Value("Add", x, c, w), d, w) = Value("Add", f, d, w)
    BY <1>2, <1>5
  <2>5. Value("Add", f, d, w) = Trunc(f + d, w)
    BY <1>5, SumValues
  <2>6. x + z = f + d
    BY <1>4, <2>1
  <2> QED BY <2>2, <2>3, <2>4, <2>5, <2>6
<1>7. ASSUME Trunc(u, w) = Trunc(-(c + d), w)
      PROVE  Value("Add", x, u, w) = Value("Sub", Value("Sub", x, c, w), d, w)
  <2>1. PICK z \in Int : z = -(c + d)
    OBVIOUS
  <2>2. Value("Add", x, u, w) = Value("Add", x, z, w)
    BY <1>7, <1>3, <2>1
  <2>3. Value("Add", x, z, w) = Trunc(x + z, w)
    BY SumValues
  <2>4. Value("Sub", Value("Sub", x, c, w), d, w) = Value("Sub", g, d, w)
    BY <1>2, <1>5
  <2>5. Value("Sub", g, d, w) = Trunc(g - d, w)
    BY <1>5, SumValues
  <2>6. x + z = g - d
    BY <1>4, <2>1
  <2> QED BY <2>2, <2>3, <2>4, <2>5, <2>6
<1>8. ASSUME Trunc(u, w) = Trunc(d - c, w)
      PROVE  Value("Add", x, u, w) = Value("Add", Value("Sub", x, c, w), d, w)
  <2>1. PICK z \in Int : z = d - c
    OBVIOUS
  <2>2. Value("Add", x, u, w) = Value("Add", x, z, w)
    BY <1>8, <1>3, <2>1
  <2>3. Value("Add", x, z, w) = Trunc(x + z, w)
    BY SumValues
  <2>4. Value("Add", Value("Sub", x, c, w), d, w) = Value("Add", g, d, w)
    BY <1>2, <1>5
  <2>5. Value("Add", g, d, w) = Trunc(g + d, w)
    BY <1>5, SumValues
  <2>6. x + z = g + d
    BY <1>4, <2>1
  <2> QED BY <2>2, <2>3, <2>4, <2>5, <2>6
<1>9. ASSUME Trunc(u, w) = Trunc(c - d, w)
      PROVE  Value("Add", x, u, w) = Value("Sub", Value("Add", x, c, w), d, w)
  <2>1. PICK z \in Int : z = c - d
    OBVIOUS
  <2>2. Value("Add", x, u, w) = Value("Add", x, z, w)
    BY <1>9, <1>3, <2>1
  <2>3. Value("Add", x, z, w) = Trunc(x + z, w)
    BY SumValues
  <2>4. Value("Sub", Value("Add", x, c, w), d, w) = Value("Sub", f, d, w)
    BY <1>2, <1>5
  <2>5. Value("Sub", f, d, w) = Trunc(f - d, w)
    BY <1>5, SumValues
  <2>6. x + z = f - d
    BY <1>4, <2>1
  <2> QED BY <2>2, <2>3, <2>4, <2>5, <2>6
<1>10. ASSUME Trunc(u, w) = Trunc(c * d, w)
      PROVE  Value("Mul", x, u, w) = Value("Mul", Value("Mul", x, c, w), d, w)
  <2>1. PICK z \in Int : z = c * d
    OBVIOUS
  <2>2. Value("Mul", x, u, w) = Value("Mul", x, z, w)
    BY <1>10, <1>3, <2>1
  <2>3. Value("Mul", x, z, w) = Trunc(x * z, w)
    BY SumValues
  <2>4. Value("Mul", Value("Mul", x, c, w), d, w) = Value("Mul", h, d, w)
    BY <1>2, <1>5
  <2>5. Value("Mul", h, d, w) = Trunc(h * d, w)
    BY <1>5, SumValues
  <2>6. x * z = h * d
    BY <1>4, <2>1
  <2> QED BY <2>2, <2>3, <2>4, <2>5, <2>6
<1> QED BY <1>6, <1>7, <1>8, <1>9, <1>10 DEF OffsetsAgree

\* A quotient of a quotient.
LEMMA DividedTwice ==
  ASSUME NEW A \in Nat \ {0}, NEW B \in Nat \ {0}, NEW a \in Int
  PROVE  A * B \in Nat \ {0} /\ (a \div A) \div B = a \div (A * B)
<1>1. PICK q \in Int, r \in 0 .. (A - 1) : a = A * q + r /\ a \div A = q
  BY Divided
<1>2. PICK t \in Int, s \in 0 .. (B - 1) : q = B * t + s /\ q \div B = t
  BY Divided
<1>3. PICK C \in Nat \ {0} : C = A * B
  <2>1. A * B \in Nat /\ A * B # 0
    OBVIOUS
  <2> QED BY <2>1
<1>4. PICK u \in 0 .. (C - 1) : u = A * s + r
  <2>1. A * s + r \in Nat
    OBVIOUS
  <2>2. A * s <= A * (B - 1)
    OBVIOUS
  <2>3. A * (B - 1) = C - A
    BY <1>3
  <2>4. A * s + r <= C - 1
    BY <2>1, <2>2, <2>3
  <2> QED BY <2>1, <2>4
<1>5. a = C * t + u
  <2>1. A * (B * t + s) + r = (A * B) * t + (A * s + r)
    OBVIOUS
  <2> QED BY <2>1, <1>1, <1>2, <1>3, <1>4
<1>6. a \div C = t
  BY <1>5, DivisionUnique
<1> QED BY <1>1, <1>2, <1>3, <1>6

\* The shift by a count below the width is by that count.
LEMMA ShiftCount ==
  ASSUME NEW w \in {WBits, XBits}, NEW c \in 0 .. (w - 1)
  PROVE  Trunc(c, w) % w = c
<1>1. PICK P \in Nat \ {0} : P = 2^w /\ w < P /\ w \in Nat \ {0}
  BY Widths
<1>2. c \in 0 .. (P - 1)
  BY <1>1
<1>3. c % P = c /\ c % w = c
  BY <1>1, <1>2, ResidueSmall
<1> QED BY <1>1, <1>3, Zenon DEF Trunc

\* The powers of shift counts.
LEMMA ShiftPowers ==
  ASSUME NEW c \in Nat, NEW d \in Nat
  PROVE  2^c \in Nat \ {0} /\ 2^d \in Nat \ {0} /\ 2^(c + d) = 2^c * 2^d
<1>1. 2^c \in Nat \ {0} /\ 2^d \in Nat \ {0}
  BY PowerFacts, Zenon
<1>2. 2^(c + d) = 2^c * 2^d
  BY PowerSum, Zenon
<1> QED BY <1>1, <1>2

\* A quotient of a word is a word.
LEMMA QuotientWord ==
  ASSUME NEW w \in Nat, NEW a \in Word(w), NEW A \in Nat \ {0}
  PROVE  a \div A \in Word(w)
<1>1. PICK P \in Nat \ {0} : P = 2^w
  BY PowerFacts
<1>2. a \in 0 .. (P - 1)
  BY <1>1 DEF Word
<1>3. PICK q \in Int, r \in 0 .. (A - 1) : a = A * q + r /\ a \div A = q
  BY <1>2, Divided
<1>4. q >= 0
  <2>1. CASE q <= -1
    <3>1. A * q <= -A
      BY <2>1
    <3> QED BY <3>1, <1>2, <1>3
  <2> QED BY <2>1
<1>5. q <= A * q
  BY <1>4
<1>6. q \in 0 .. (P - 1)
  BY <1>2, <1>3, <1>4, <1>5
<1> QED BY <1>1, <1>3, <1>6 DEF Word

\* Two shifts to the left, or two to the right.
LEMMA LogicalShiftsCombined ==
  ASSUME NEW w \in {WBits, XBits}, NEW x \in Int, NEW c \in 0 .. (w - 1), NEW d \in 0 .. (w - 1),
         c + d <= w - 1
  PROVE  /\ Value("Lsl", x, c + d, w) = Value("Lsl", Value("Lsl", x, c, w), d, w)
         /\ Value("Lsr", x, c + d, w) = Value("Lsr", Value("Lsr", x, c, w), d, w)
<1>1. w \in Nat
  BY Widths
<1>2. PICK n \in 0 .. (w - 1) : n = c + d
  BY <1>1
<1>3. Trunc(c, w) % w = c /\ Trunc(d, w) % w = d /\ Trunc(n, w) % w = n
  BY ShiftCount
<1>4. PICK A \in Nat \ {0}, B \in Nat \ {0} : A = 2^c /\ B = 2^d /\ A * B = 2^n
  <2>1. c \in Nat /\ d \in Nat
    BY <1>1
  <2>2. 2^c \in Nat \ {0} /\ 2^d \in Nat \ {0} /\ 2^(c + d) = 2^c * 2^d
    BY <2>1, ShiftPowers, Zenon
  <2> QED BY <1>2, <2>2, Zenon
<1>5. PICK a \in Int : a = Trunc(x, w) /\ a \in Word(w)
  BY <1>1, TruncType
<1>6. Value("Lsl", x, c + d, w) = Value("Lsl", Value("Lsl", x, c, w), d, w)
  <2>1. PICK p \in Int : p = a * A
    OBVIOUS
  <2>2. Value("Lsl", x, n, w) = Trunc(a * (A * B), w)
    BY <1>3, <1>4, <1>5, Zenon DEF Value, Binary, ShiftLeft
  <2>3. Value("Lsl", x, c, w) = Trunc(p, w)
    BY <1>3, <1>4, <1>5, <2>1, Zenon DEF Value, Binary, ShiftLeft
  <2>4. Trunc(Trunc(p, w), w) = Trunc(p, w)
    BY <1>1, TruncType
  <2>5. Value("Lsl", Value("Lsl", x, c, w), d, w) = Trunc(Trunc(p, w) * B, w)
    BY <1>3, <1>4, <2>3, <2>4, Zenon DEF Value, Binary, ShiftLeft
  <2>6. Trunc(Trunc(p, w) * B, w) = Trunc(p * B, w)
    <3>1. B \in Int
      OBVIOUS
    <3> QED BY <1>1, <3>1, TruncProduct, Zenon
  <2>7. p * B = a * (A * B)
    BY <2>1
  <2> QED BY <1>2, <2>2, <2>5, <2>6, <2>7, Zenon
<1>7. Value("Lsr", x, c + d, w) = Value("Lsr", Value("Lsr", x, c, w), d, w)
  <2>1. PICK p : p = a \div A
    OBVIOUS
  <2>2. Value("Lsr", x, n, w) = a \div (A * B)
    BY <1>3, <1>4, <1>5, Zenon DEF Value, Binary, ShiftRight
  <2>3. Value("Lsr", x, c, w) = p
    BY <1>3, <1>4, <1>5, <2>1, Zenon DEF Value, Binary, ShiftRight
  <2>4. p \in Word(w)
    BY <1>1, <1>5, <2>1, QuotientWord
  <2>5. Trunc(p, w) = p
    BY <1>1, <2>4, WordTrunc
  <2>6. Value("Lsr", Value("Lsr", x, c, w), d, w) = p \div B
    BY <1>3, <1>4, <2>3, <2>5, Zenon DEF Value, Binary, ShiftRight
  <2>7. (a \div A) \div B = a \div (A * B)
    BY DividedTwice
  <2> QED BY <1>2, <2>1, <2>2, <2>6, <2>7, Zenon
<1> QED BY <1>6, <1>7

\* The signed words of w bits.
SignedWord(w) == (-(2^(w - 1))) .. (2^(w - 1) - 1)

\* The moduli of words and signed words.
LEMMA SignedWidth ==
  ASSUME NEW w \in Nat \ {0}
  PROVE  \E H \in Nat \ {0} : H = 2^(w - 1) /\ 2^w = 2 * H
<1>1. w - 1 \in Nat /\ (w - 1) + 1 = w
  OBVIOUS
<1>2. 2^(w - 1) \in Nat \ {0} /\ 2^((w - 1) + 1) = 2 * 2^(w - 1)
  BY <1>1, PowerFacts, Zenon
<1> QED BY <1>1, <1>2, Zenon

\* A word stands for a signed word, and a signed word for the one it was cut to.
LEMMA SignedFacts ==
  ASSUME NEW w \in Nat \ {0}
  PROVE  /\ \A a \in Word(w) : Signed(a, w) \in SignedWord(w)
         /\ \A v \in SignedWord(w) : Signed(Trunc(v, w), w) = v
<1>1. PICK H \in Nat \ {0} : H = 2^(w - 1) /\ 2^w = 2 * H
  BY SignedWidth
<1>2. PICK P \in Nat \ {0} : P = 2 * H /\ P = 2^w
  BY <1>1
<1>3. ASSUME NEW a, a \in 0 .. (P - 1)
      PROVE  /\ a < H => Signed(a, w) = a
             /\ a >= H => Signed(a, w) = a - P
  <2>1. a % P = a
    BY <1>3, ResidueSmall
  <2>2. CASE a < H
    <3>1. a = H * 0 + a /\ a \in 0 .. (H - 1)
      BY <1>3, <2>2
    <3>2. a \div H = 0
      BY <3>1, DivisionUnique
    <3>3. Msb(a, w) = 0
      <4>1. 0 % 2 = 0
        OBVIOUS
      <4> QED BY <1>1, <3>2, <4>1, Zenon DEF Msb, Bit
    <3>4. Signed(a, w) = Trunc(a, w)
      BY <3>3 DEF Signed
    <3>5. Trunc(a, w) = a
      BY <1>2, <2>1, Zenon DEF Trunc
    <3> QED BY <1>3, <2>2, <3>4, <3>5
  <2>3. CASE a >= H
    <3>1. a = H * 1 + (a - H) /\ a - H \in 0 .. (H - 1)
      BY <1>2, <1>3, <2>3
    <3>2. a \div H = 1
      BY <3>1, DivisionUnique
    <3>3. Msb(a, w) = 1
      <4>1. 1 % 2 = 1
        OBVIOUS
      <4> QED BY <1>1, <3>2, <4>1, Zenon DEF Msb, Bit
    <3>4. Signed(a, w) = Trunc(a, w) - 2^w
      BY <3>3 DEF Signed
    <3>5. Trunc(a, w) = a
      BY <1>2, <2>1, Zenon DEF Trunc
    <3>6. Signed(a, w) = a - P
      BY <1>2, <3>4, <3>5, Zenon
    <3> QED BY <1>3, <2>3, <3>6
  <2> QED BY <1>3, <2>2, <2>3
<1>4. Word(w) = 0 .. (P - 1) /\ SignedWord(w) = (-H) .. (H - 1)
  BY <1>1, <1>2, Zenon DEF Word, SignedWord
<1>5. ASSUME NEW a \in Word(w) PROVE Signed(a, w) \in SignedWord(w)
  BY <1>2, <1>3, <1>4
<1>6. ASSUME NEW v \in SignedWord(w) PROVE Signed(Trunc(v, w), w) = v
  <2>1. v \in (-H) .. (H - 1)
    BY <1>4
  <2>2. PICK r \in 0 .. (P - 1) : r = (IF v < 0 THEN v + P ELSE v)
    BY <1>2, <2>1
  <2>3. PICK q \in Int : q = IF v < 0 THEN -1 ELSE 0
    OBVIOUS
  <2>4. v = P * q + r
    BY <2>1, <2>2, <2>3
  <2>5. v % P = r
    BY <2>3, <2>4, DivisionUnique
  <2>6. Trunc(v, w) = r
    BY <1>2, <2>5, Zenon DEF Trunc
  <2>7. Signed(r, w) = v
    BY <1>2, <1>3, <2>1, <2>2
  <2> QED BY <2>6, <2>7
<1> QED BY <1>5, <1>6

\* A quotient of a signed word is a signed word.
LEMMA SignedQuotient ==
  ASSUME NEW w \in Nat \ {0}, NEW v \in SignedWord(w), NEW A \in Nat \ {0}
  PROVE  v \div A \in SignedWord(w)
<1>1. PICK H \in Nat \ {0} : H = 2^(w - 1)
  BY SignedWidth
<1>2. SignedWord(w) = (-H) .. (H - 1)
  BY <1>1, Zenon DEF SignedWord
<1>3. PICK q \in Int, r \in 0 .. (A - 1) : v = A * q + r /\ v \div A = q
  <2>1. v \in Int
    BY <1>2
  <2> QED BY <2>1, Divided
<1>4. q >= -H
  <2>1. CASE q <= -H - 1
    <3>1. A * q <= A * (-H - 1)
      BY <2>1
    <3>2. A * (-H - 1) = -(A * H) - A
      OBVIOUS
    <3>3. A * H >= H
      OBVIOUS
    <3>4. v <= -H - 1
      BY <3>1, <3>2, <3>3, <1>3
    <3> QED BY <3>4, <1>2
  <2> QED BY <2>1
<1>5. q <= H - 1
  <2>1. CASE q >= H
    <3>1. A * q >= q
      BY <2>1
    <3> QED BY <3>1, <2>1, <1>2, <1>3
  <2> QED BY <2>1
<1> QED BY <1>2, <1>3, <1>4, <1>5

\* Two arithmetic shifts to the right.
LEMMA ArithShiftsCombined ==
  ASSUME NEW w \in {WBits, XBits}, NEW x \in Int, NEW c \in 0 .. (w - 1), NEW d \in 0 .. (w - 1),
         c + d <= w - 1
  PROVE  Value("Asr", x, c + d, w) = Value("Asr", Value("Asr", x, c, w), d, w)
<1>1. w \in Nat /\ w \in Nat \ {0}
  BY Widths
<1>2. PICK n \in 0 .. (w - 1) : n = c + d
  BY <1>1
<1>3. Trunc(c, w) % w = c /\ Trunc(d, w) % w = d /\ Trunc(n, w) % w = n
  BY ShiftCount
<1>4. PICK A \in Nat \ {0}, B \in Nat \ {0} : A = 2^c /\ B = 2^d /\ A * B = 2^n
  <2>1. c \in Nat /\ d \in Nat
    BY <1>1
  <2>2. 2^c \in Nat \ {0} /\ 2^d \in Nat \ {0} /\ 2^(c + d) = 2^c * 2^d
    BY <2>1, ShiftPowers, Zenon
  <2> QED BY <1>2, <2>2, Zenon
<1>5. PICK a : a = Trunc(x, w) /\ a \in Word(w)
  BY <1>1, TruncType
<1>6. PICK v \in SignedWord(w) : v = Signed(a, w)
  BY <1>1, <1>5, SignedFacts
<1>7. PICK p \in SignedWord(w) : p = v \div A
  BY <1>1, SignedQuotient
<1>8. p \in Int /\ v \in Int
  <2>1. PICK H \in Nat \ {0} : H = 2^(w - 1)
    BY <1>1, SignedWidth
  <2>2. SignedWord(w) = (-H) .. (H - 1)
    BY <2>1, Zenon DEF SignedWord
  <2> QED BY <2>2
<1>9. Value("Asr", x, n, w) = Trunc(v \div (A * B), w)
  BY <1>3, <1>4, <1>5, <1>6, Zenon DEF Value, Binary, ShiftArith
<1>10. Value("Asr", x, c, w) = Trunc(p, w)
  BY <1>3, <1>4, <1>5, <1>6, <1>7, Zenon DEF Value, Binary, ShiftArith
<1>11. Trunc(Trunc(p, w), w) = Trunc(p, w) /\ Signed(Trunc(p, w), w) = p
  BY <1>1, <1>8, TruncType, SignedFacts
<1>12. Value("Asr", Value("Asr", x, c, w), d, w) = Trunc(p \div B, w)
  BY <1>3, <1>4, <1>10, <1>11, Zenon DEF Value, Binary, ShiftArith
<1>13. (v \div A) \div B = v \div (A * B)
  BY <1>8, DividedTwice
<1> QED BY <1>2, <1>7, <1>9, <1>12, <1>13, Zenon

\* A word rotated by n, its lower n bits in front of the others.
Halves(a, n, w, l, h) ==
  /\ l \in 0 .. (2^n - 1) /\ h \in 0 .. (2^(w - n) - 1) /\ a = 2^n * h + l

\* A rotation swaps the halves.
LEMMA Rotated ==
  ASSUME NEW w \in {WBits, XBits}, NEW n \in 0 .. (w - 1), NEW a, NEW l, NEW h, Halves(a, n, w, l, h)
  PROVE  RotateRight(a, n, w) = 2^(w - n) * l + h
<1>1. PICK P \in Nat \ {0} : w \in Nat \ {0} /\ P = 2^w
  BY Widths
<1>2. PICK A \in Nat \ {0}, B \in Nat \ {0} : A = 2^n /\ B = 2^(w - n) /\ A * B = P
  <2>1. n \in Nat /\ w - n \in Nat /\ n + (w - n) = w
    BY <1>1
  <2>2. 2^n \in Nat \ {0} /\ 2^(w - n) \in Nat \ {0} /\ 2^(n + (w - n)) = 2^n * 2^(w - n)
    BY <2>1, ShiftPowers, Zenon
  <2> QED BY <1>1, <2>1, <2>2, Zenon
<1>3. l \in 0 .. (A - 1) /\ h \in 0 .. (B - 1) /\ a = A * h + l
  BY <1>2, Zenon DEF Halves
<1>4. n % w = n
  BY <1>1, ResidueSmall
<1>5. CASE n = 0
  <2>1. RotateRight(a, n, w) = a
    BY <1>4, <1>5, Zenon DEF RotateRight
  <2>2. A = 1
    BY <1>2, <1>5, PowerFacts
  <2>3. l = 0
    BY <1>3, <2>2
  <2>4. a = h /\ B * l + h = h
    BY <1>3, <2>2, <2>3
  <2> QED BY <1>2, <2>1, <2>4, Zenon
<1>6. CASE n # 0
  <2>1. PICK k \in 0 .. (w - 1) : k = w - n
    BY <1>1, <1>6
  <2>2. k % w = k
    BY <1>1, ResidueSmall
  <2>3. a \div A = h
    <3>1. h \in Int /\ l \in 0 .. (A - 1) /\ a = A * h + l
      BY <1>3
    <3> QED BY <3>1, DivisionUnique
  <2>4. (a * B) % P = B * l
    <3>1. PICK r \in 0 .. (P - 1) : r = B * l
      <4>1. B * l \in Nat
        BY <1>3
      <4>2. B * l <= B * (A - 1)
        BY <1>3
      <4>3. B * (A - 1) = P - B
        BY <1>2
      <4> QED BY <4>1, <4>2, <4>3
    <3>2. PICK v : v = a * B
      OBVIOUS
    <3>3. (A * h + l) * B = (A * B) * h + B * l
      BY <1>3
    <3>4. v = P * h + r
      BY <1>2, <1>3, <3>1, <3>2, <3>3
    <3>5. v % P = r
      <4>1. h \in Int
        BY <1>3
      <4> QED BY <3>4, <4>1, DivisionUnique
    <3> QED BY <3>1, <3>2, <3>5, Zenon
  <2>5. RotateRight(a, n, w) = ShiftRight(a, n, w) + ShiftLeft(a, k, w)
    BY <1>4, <1>6, <2>1, Zenon DEF RotateRight
  <2>6. ShiftRight(a, n, w) = h
    BY <1>2, <1>4, <2>3, Zenon DEF ShiftRight
  <2>7. ShiftLeft(a, k, w) = B * l
    BY <1>1, <1>2, <2>1, <2>2, <2>4, Zenon DEF ShiftLeft, Trunc
  <2>8. h + B * l = B * l + h
    BY <1>3
  <2> QED BY <1>2, <2>5, <2>6, <2>7, <2>8, Zenon
<1> QED BY <1>5, <1>6

\* Every word has its halves.
LEMMA HalvesExist ==
  ASSUME NEW w \in {WBits, XBits}, NEW n \in 0 .. (w - 1), NEW a \in Word(w)
  PROVE  \E l, h : Halves(a, n, w, l, h)
<1>1. PICK P \in Nat \ {0} : w \in Nat \ {0} /\ P = 2^w
  BY Widths
<1>2. PICK A \in Nat \ {0}, B \in Nat \ {0} : A = 2^n /\ B = 2^(w - n) /\ A * B = P
  <2>1. n \in Nat /\ w - n \in Nat /\ n + (w - n) = w
    BY <1>1
  <2>2. 2^n \in Nat \ {0} /\ 2^(w - n) \in Nat \ {0} /\ 2^(n + (w - n)) = 2^n * 2^(w - n)
    BY <2>1, ShiftPowers, Zenon
  <2> QED BY <1>1, <2>1, <2>2, Zenon
<1>3. a \in 0 .. (P - 1)
  BY <1>1, Zenon DEF Word
<1>4. PICK h \in Int, l \in 0 .. (A - 1) : a = A * h + l
  <2>1. a \in Int
    BY <1>3
  <2> QED BY <2>1, Divided
<1>5. h >= 0
  <2>1. CASE h <= -1
    <3>1. A * h <= -A
      BY <2>1
    <3> QED BY <3>1, <1>3, <1>4
  <2> QED BY <2>1
<1>6. h <= B - 1
  <2>1. CASE h >= B
    <3>1. A * h >= A * B
      BY <2>1
    <3> QED BY <3>1, <1>2, <1>3, <1>4
  <2> QED BY <2>1
<1>7. l \in 0 .. (2^n - 1) /\ h \in 0 .. (2^(w - n) - 1) /\ a = 2^n * h + l
  <2>1. h \in 0 .. (B - 1)
    BY <1>5, <1>6
  <2> QED BY <1>2, <1>4, <2>1, Zenon
<1> QED BY <1>7, Zenon DEF Halves

\* A rotation behind another.
LEMMA RotatedTwice ==
  ASSUME NEW w \in {WBits, XBits}, NEW i \in 0 .. (w - 1), NEW j \in 0 .. (w - 1), i + j <= w - 1,
         NEW a \in Word(w)
  PROVE  RotateRight(RotateRight(a, i, w), j, w) = RotateRight(a, i + j, w)
<1>1. w \in Nat
  BY Widths
<1>2. PICK k \in 0 .. (w - 1) : k = i + j
  BY <1>1
<1>3. PICK E \in Nat \ {0}, F \in Nat \ {0}, G \in Nat \ {0} :
        /\ E = 2^i /\ F = 2^j /\ G = 2^(w - k)
        /\ E * F = 2^k /\ F * G = 2^(w - i) /\ E * G = 2^(w - j)
  <2>1. i \in Nat /\ j \in Nat /\ w - k \in Nat /\ j + (w - k) = w - i /\ i + (w - k) = w - j
    BY <1>1, <1>2
  <2>2. 2^i \in Nat \ {0} /\ 2^j \in Nat \ {0} /\ 2^(i + j) = 2^i * 2^j
    BY <2>1, ShiftPowers, Zenon
  <2>3. 2^(w - k) \in Nat \ {0} /\ 2^(j + (w - k)) = 2^j * 2^(w - k)
    BY <2>1, ShiftPowers, Zenon
  <2>4. 2^(i + (w - k)) = 2^i * 2^(w - k)
    BY <2>1, ShiftPowers, Zenon
  <2> QED BY <1>2, <2>1, <2>2, <2>3, <2>4, Zenon
<1>4. PICK u, h : Halves(a, k, w, u, h)
  BY HalvesExist
<1>5. u \in 0 .. (E * F - 1) /\ h \in 0 .. (G - 1) /\ a = (E * F) * h + u
  BY <1>3, <1>4, Zenon DEF Halves
<1>6. PICK g \in Int, l \in 0 .. (E - 1) : u = E * g + l
  <2>1. u \in Int
    BY <1>5
  <2> QED BY <2>1, Divided
<1>7. g \in 0 .. (F - 1)
  <2>1. CASE g <= -1
    <3>1. E * g <= -E
      BY <2>1
    <3> QED BY <3>1, <1>5, <1>6
  <2>2. CASE g >= F
    <3>1. E * g >= E * F
      BY <2>2
    <3> QED BY <3>1, <1>5, <1>6
  <2> QED BY <2>1, <2>2
<1>8. l \in Nat /\ h \in Nat /\ g \in Nat /\ u \in Nat /\ g <= F - 1 /\ l <= E - 1 /\ h <= G - 1
  BY <1>5, <1>6, <1>7
<1>9. PICK p, q : p = F * h + g /\ q = G * l + h
  OBVIOUS
<1>10. p \in 0 .. (F * G - 1)
  <2>1. F * h >= 0 /\ F * h <= F * (G - 1)
    BY <1>8
  <2>2. F * (G - 1) = F * G - F
    OBVIOUS
  <2> QED BY <2>1, <2>2, <1>8, <1>9
<1>11. q \in 0 .. (E * G - 1)
  <2>1. G * l >= 0 /\ G * l <= G * (E - 1)
    BY <1>8
  <2>2. G * (E - 1) = E * G - G
    OBVIOUS
  <2> QED BY <2>1, <2>2, <1>8, <1>9
<1>12. a = E * p + l
  <2>1. (E * F) * h + (E * g + l) = E * (F * h + g) + l
    BY <1>8
  <2> QED BY <2>1, <1>5, <1>6, <1>9
<1>13. RotateRight(a, i, w) = (F * G) * l + p
  <2>1. Halves(a, i, w, l, p)
    BY <1>3, <1>6, <1>10, <1>12, Zenon DEF Halves
  <2> QED BY <2>1, <1>3, Rotated
<1>14. (F * G) * l + p = F * q + g
  <2>1. (F * G) * l + (F * h + g) = F * (G * l + h) + g
    BY <1>8
  <2> QED BY <2>1, <1>9
<1>15. RotateRight(F * q + g, j, w) = (E * G) * g + q
  <2>1. Halves(F * q + g, j, w, g, q)
    BY <1>3, <1>7, <1>11, Zenon DEF Halves
  <2> QED BY <2>1, <1>3, Rotated
<1>16. RotateRight(a, k, w) = G * u + h
  BY <1>3, <1>4, Rotated
<1>17. (E * G) * g + q = G * u + h
  <2>1. (E * G) * g + (G * l + h) = G * (E * g + l) + h
    BY <1>8
  <2> QED BY <2>1, <1>6, <1>9
<1> QED BY <1>2, <1>13, <1>14, <1>15, <1>16, <1>17, Zenon

\* A rotation, and the one that takes it back.
LEMMA RotatedBack ==
  ASSUME NEW w \in {WBits, XBits}, NEW i \in 1 .. (w - 1), NEW a \in Word(w)
  PROVE  RotateRight(RotateRight(a, i, w), w - i, w) = a
<1>1. w \in Nat
  BY Widths
<1>2. PICK j \in 1 .. (w - 1) : j = w - i /\ i = w - j
  BY <1>1
<1>3. i \in 0 .. (w - 1) /\ j \in 0 .. (w - 1)
  BY <1>1
<1>4. PICK l, h : Halves(a, i, w, l, h)
  BY <1>3, HalvesExist
<1>5. RotateRight(a, i, w) = 2^j * l + h
  BY <1>2, <1>3, <1>4, Rotated
<1>6. Halves(2^j * l + h, j, w, h, l)
  BY <1>2, <1>4, Zenon DEF Halves
<1>7. RotateRight(2^j * l + h, j, w) = 2^i * h + l
  BY <1>2, <1>3, <1>6, Rotated
<1>8. a = 2^i * h + l
  BY <1>4, Zenon DEF Halves
<1> QED BY <1>2, <1>5, <1>7, <1>8, Zenon

\* A rotated word is a word.
LEMMA RotatedWord ==
  ASSUME NEW w \in {WBits, XBits}, NEW i \in 0 .. (w - 1), NEW a \in Word(w)
  PROVE  RotateRight(a, i, w) \in Word(w)
<1>1. PICK P \in Nat \ {0} : w \in Nat \ {0} /\ P = 2^w
  BY Widths
<1>2. PICK A \in Nat \ {0}, B \in Nat \ {0} : A = 2^i /\ B = 2^(w - i) /\ A * B = P
  <2>1. i \in Nat /\ w - i \in Nat /\ i + (w - i) = w
    BY <1>1
  <2>2. 2^i \in Nat \ {0} /\ 2^(w - i) \in Nat \ {0} /\ 2^(i + (w - i)) = 2^i * 2^(w - i)
    BY <2>1, ShiftPowers, Zenon
  <2> QED BY <1>1, <2>1, <2>2, Zenon
<1>3. PICK l, h : Halves(a, i, w, l, h)
  BY HalvesExist
<1>4. l \in 0 .. (A - 1) /\ h \in 0 .. (B - 1)
  BY <1>2, <1>3, Zenon DEF Halves
<1>5. RotateRight(a, i, w) = B * l + h
  BY <1>2, <1>3, Rotated
<1>6. B * l + h \in 0 .. (P - 1)
  <2>1. B * l >= 0 /\ B * l <= B * (A - 1)
    BY <1>4
  <2>2. B * (A - 1) = P - B
    BY <1>2
  <2>3. B * l \in Int
    BY <1>4
  <2> QED BY <2>1, <2>2, <2>3, <1>4
<1> QED BY <1>1, <1>5, <1>6, Zenon DEF Word

\* Two rotations are one by the sum of the counts, reduced by the width.
LEMMA RotationsCombined ==
  ASSUME NEW w \in {WBits, XBits}, NEW i \in 0 .. (w - 1), NEW j \in 0 .. (w - 1), NEW a \in Word(w)
  PROVE  RotateRight(RotateRight(a, i, w), j, w) = RotateRight(a, (i + j) % w, w)
<1>1. w \in Nat \ {0}
  BY Widths
<1>2. CASE i + j <= w - 1
  <2>1. PICK k \in 0 .. (w - 1) : k = i + j
    BY <1>1, <1>2
  <2>2. k % w = k
    BY <1>1, ResidueSmall
  <2> QED BY <1>2, <2>1, <2>2, RotatedTwice
<1>3. CASE i + j >= w
  <2>1. PICK k \in 0 .. (w - 1), f \in 1 .. (w - 1) : k = i + j - w /\ f = w - j
    BY <1>1, <1>3
  <2>2. f \in 0 .. (w - 1) /\ k + f = i /\ k + f <= w - 1 /\ j = w - f
    BY <1>1, <2>1
  <2>3. (i + j) % w = k
    <3>1. PICK v : v = i + j
      OBVIOUS
    <3>2. v = w * 1 + k
      BY <1>1, <2>1, <3>1
    <3>3. v % w = k
      BY <1>1, <3>2, DivisionUnique
    <3> QED BY <3>1, <3>3
  <2>4. PICK b \in Word(w) : b = RotateRight(a, k, w)
    BY RotatedWord
  <2>5. RotateRight(b, f, w) = RotateRight(a, i, w)
    BY <2>2, <2>4, RotatedTwice
  <2>6. RotateRight(RotateRight(b, f, w), j, w) = b
    BY <2>2, RotatedBack
  <2> QED BY <2>3, <2>4, <2>5, <2>6, Zenon
<1> QED BY <1>1, <1>2, <1>3

\* The count of a rotation counts up to the width.
LEMMA RotationCount ==
  ASSUME NEW w \in {WBits, XBits}, NEW c \in Nat
  PROVE  /\ c % w \in 0 .. (w - 1) /\ Trunc(c, w) % w = c % w /\ Trunc(c, XBits) % w = c % w
         /\ Trunc(c % w, w) % w = c % w
<1>1. 2^0 = 1 /\ \A n \in Nat : 2^n \in Nat \ {0} /\ 2^(n + 1) = 2 * 2^n
  BY PowerFacts
<1>2. 2^1 = 2 /\ 2^2 = 4 /\ 2^3 = 8 /\ 2^4 = 16
  <2>1. 2^(0 + 1) = 2 * 2^0 /\ 2^(1 + 1) = 2 * 2^1 /\ 2^(2 + 1) = 2 * 2^2 /\ 2^(3 + 1) = 2 * 2^3
    BY <1>1
  <2> QED BY <2>1, <1>1
<1>3. 2^8 = 256
  <2>1. 2^(4 + 1) = 2 * 2^4 /\ 2^(5 + 1) = 2 * 2^5 /\ 2^(6 + 1) = 2 * 2^6 /\ 2^(7 + 1) = 2 * 2^7
    BY <1>1
  <2> QED BY <2>1, <1>2
<1>4. \E d \in Nat, e \in Nat : 2^w = w * d /\ 2^XBits = w * e
  <2>1. CASE w = WBits
    <3>1. w = 4 /\ 2^w = 16 /\ 2^XBits = 256 /\ 16 = 4 * 4 /\ 256 = 4 * 64
      BY <1>2, <1>3, <2>1 DEF WBits, XBits
    <3>2. 2^w = w * 4 /\ 2^XBits = w * 64
      BY <3>1
    <3> QED BY <3>2
  <2>2. CASE w = XBits
    <3>1. w = 8 /\ 2^w = 256 /\ 2^XBits = 256 /\ 256 = 8 * 32
      BY <1>3, <2>2 DEF XBits
    <3>2. 2^w = w * 32 /\ 2^XBits = w * 32
      BY <3>1
    <3> QED BY <3>2
  <2> QED BY <2>1, <2>2
<1>5. w \in Nat \ {0}
  BY Widths
<1>6. PICK r \in 0 .. (w - 1) : r = c % w
  BY <1>5, ResidueOf
<1>7. (c % 2^w) % w = c % w /\ (c % 2^XBits) % w = c % w
  <2>1. PICK P \in Nat \ {0}, Q \in Nat \ {0} : P = 2^w /\ Q = 2^XBits
    BY Widths
  <2>2. PICK d \in Nat, e \in Nat : P = w * d /\ Q = w * e
    BY <1>4, <2>1
  <2>3. c \in Int
    OBVIOUS
  <2>4. (c % P) % w = c % w
    BY <1>5, <2>2, <2>3, ResidueResidue
  <2>5. (c % Q) % w = c % w
    BY <1>5, <2>2, <2>3, ResidueResidue
  <2> QED BY <2>1, <2>4, <2>5, Zenon
<1>8. Trunc(r, w) % w = r
  BY ShiftCount
<1> QED BY <1>6, <1>7, <1>8, Zenon DEF Trunc

\* Two rotations by constants as one, by the sum of their counts.
RotationsAgree(w, x, c, d) ==
  Value("Ror", x, Trunc(c + d, XBits) % w, w) = Value("Ror", Value("Ror", x, c, w), d, w)

\* Two rotations of a value by constants.
LEMMA RotationValues ==
  ASSUME NEW w \in {WBits, XBits}, NEW x \in Int, NEW c \in Nat, NEW d \in Nat
  PROVE  RotationsAgree(w, x, c, d)
<1>1. w \in Nat \ {0} /\ w \in Nat
  BY Widths
<1>2. PICK a \in Word(w) : a = Trunc(x, w)
  BY <1>1, TruncType
<1>3. ASSUME NEW z, NEW n, NEW k, n % w = k, k % w = k PROVE RotateRight(z, n, w) = RotateRight(z, k, w)
  BY <1>3, Zenon DEF RotateRight, ShiftRight
<1>4. PICK i \in 0 .. (w - 1), j \in 0 .. (w - 1) : i = c % w /\ j = d % w
  BY RotationCount
<1>5. i % w = i /\ j % w = j
  BY <1>1, ResidueSmall
<1>6. Value("Ror", x, c, w) = RotateRight(a, i, w)
  <2>1. Trunc(c, w) % w = i
    BY <1>4, RotationCount
  <2>2. Value("Ror", x, c, w) = RotateRight(a, Trunc(c, w), w)
    BY <1>2 DEF Value, Binary
  <2> QED BY <2>1, <2>2, <1>3, <1>5, Zenon
<1>7. PICK b \in Word(w) : b = RotateRight(a, i, w)
  BY RotatedWord
<1>8. Value("Ror", b, d, w) = RotateRight(b, j, w)
  <2>1. Trunc(d, w) % w = j
    BY <1>4, RotationCount
  <2>2. Trunc(b, w) = b
    BY <1>1, WordTrunc
  <2>3. Value("Ror", b, d, w) = RotateRight(b, Trunc(d, w), w)
    BY <2>2 DEF Value, Binary
  <2> QED BY <2>1, <2>3, <1>3, <1>5, Zenon
<1>9. RotateRight(b, j, w) = RotateRight(a, (i + j) % w, w)
  BY <1>7, RotationsCombined
<1>10. PICK e \in Nat : e = c + d
  OBVIOUS
<1>11. PICK k \in 0 .. (w - 1) : k = Trunc(e, XBits) % w /\ k = e % w /\ Trunc(k, w) % w = k /\ k % w = k
  <2>1. PICK k \in 0 .. (w - 1) : k = e % w
    BY RotationCount
  <2>2. Trunc(e, XBits) % w = k /\ Trunc(k, w) % w = k
    BY <2>1, RotationCount
  <2>3. k % w = k
    BY <1>1, ResidueSmall
  <2> QED BY <2>1, <2>2, <2>3
<1>12. (i + j) % w = k
  <2>0. c \in Int /\ d \in Int /\ j \in Int
    BY <1>1
  <2>1. ((c % w) + j) % w = (c + j) % w
    BY <1>1, <2>0, ResidueSum, Zenon
  <2>2. (c + (d % w)) % w = (c + d) % w
    BY <1>1, <2>0, ResidueSum, Zenon
  <2> QED BY <1>4, <1>10, <1>11, <2>1, <2>2
<1>13. Value("Ror", x, k, w) = RotateRight(a, k, w)
  <2>1. Value("Ror", x, k, w) = RotateRight(a, Trunc(k, w), w)
    BY <1>2 DEF Value, Binary
  <2> QED BY <2>1, <1>3, <1>11, Zenon
<1>14. Value("Ror", x, k, w) = Value("Ror", Value("Ror", x, c, w), d, w)
  BY <1>6, <1>7, <1>8, <1>9, <1>12, <1>13, Zenon
<1> QED BY <1>10, <1>11, <1>14, Zenon DEF RotationsAgree

\* A constant of the width.
CutTo(v, w) == IF w = WBits THEN Trunc(v, WBits) ELSE Trunc(v, XBits)

\* The pairs that combine, bitwise operations aside.
Combines(outer, inner, op, c, c1, c2, w) ==
  LET sum == Trunc(c1 + c2, XBits)
  IN  \/ outer = "Add" /\ inner = "Add" /\ op = "Add" /\ c = CutTo(sum, w)
      \/ outer = "Sub" /\ inner = "Sub" /\ op = "Add" /\ c = CutTo(-sum, w)
      \/ outer = "Mul" /\ inner = "Mul" /\ op = "Mul" /\ c = CutTo(c1 * c2, w)
      \/ outer = "Add" /\ inner = "Sub" /\ op = "Add" /\ c = CutTo(c2 - c1, w)
      \/ outer = "Sub" /\ inner = "Add" /\ op = "Add" /\ c = CutTo(c1 - c2, w)
      \/ outer \in {"Lsl", "Lsr", "Asr"} /\ inner = outer /\ op = outer /\ c = sum /\ sum <= w - 1
      \/ outer = "Ror" /\ inner = "Ror" /\ op = "Ror" /\ c = sum % w

\* A combination that succeeds is one of them.
LEMMA CombineCases ==
  ASSUME NEW s, NEW a, NEW inner, NEW c1, NEW c2, NEW r,
         a.op \notin {"And", "Or", "Eor"}, inner = s.b.code[Arg(a, 1)],
         c1 = ConstOf(s, Arg(inner, 2)), c2 = ConstOf(s, Arg(a, 2)),
         r = try_combine_const(s, a), r.c # Unknown, Trunc(c1 + c2, XBits) \in Int, a.w \in Int
  PROVE  Combines(a.op, inner.op, r.op, r.c, c1, c2, a.w)
<1>1. PICK sum \in Int : sum = Trunc(c1 + c2, XBits)
  OBVIOUS
<1>2. Arg(a, 1) # NONE
  BY Zenon DEF try_combine_const
<1>3. PICK o, i, w : o = a.op /\ i = inner.op /\ w = a.w /\ w \in Int
  OBVIOUS
<1>4. CASE <<o, i>> \in {<<"Lsl", "Lsl">>, <<"Lsr", "Lsr">>, <<"Asr", "Asr">>}
  <2>1. CASE o = "Lsl" /\ i = "Lsl"
    BY <1>1, <1>2, <1>3, <2>1 DEF try_combine_const, Combines
  <2>2. CASE o = "Lsr" /\ i = "Lsr"
    BY <1>1, <1>2, <1>3, <2>2 DEF try_combine_const, Combines
  <2>3. CASE o = "Asr" /\ i = "Asr"
    BY <1>1, <1>2, <1>3, <2>3 DEF try_combine_const, Combines
  <2> QED BY <1>4, <2>1, <2>2, <2>3
<1>5. CASE <<o, i>> \in {<<"Add", "Add">>, <<"Sub", "Sub">>, <<"Mul", "Mul">>, <<"Add", "Sub">>,
                         <<"Sub", "Add">>, <<"Ror", "Ror">>}
  BY <1>1, <1>2, <1>3, <1>5 DEF try_combine_const, Combines, CutTo
<1>6. CASE <<o, i>> \notin {<<"Lsl", "Lsl">>, <<"Lsr", "Lsr">>, <<"Asr", "Asr">>, <<"Add", "Add">>,
                            <<"Sub", "Sub">>, <<"Mul", "Mul">>, <<"Add", "Sub">>, <<"Sub", "Add">>,
                            <<"Ror", "Ror">>}
  BY <1>2, <1>3, <1>6 DEF try_combine_const
<1> QED BY <1>4, <1>5, <1>6

\* What a pair that combines yields.
LEMMA CombinedValues ==
  ASSUME NEW w \in {WBits, XBits}, NEW c1 \in Word(XBits), NEW c2 \in Word(XBits), NEW x \in Int,
         NEW o, NEW i, NEW op, NEW c, Combines(o, i, op, c, c1, c2, w),
         o \in {"Lsl", "Lsr", "Asr"} => c1 + c2 \in Word(XBits)
  PROVE  Value(op, x, c, w) = Value(o, Value(i, x, c1, w), c2, w)
<1>1. PICK Q \in Nat \ {0} : Q = 2^XBits
  BY Widths
<1>2. c1 \in 0 .. (Q - 1) /\ c2 \in 0 .. (Q - 1)
  BY <1>1, Zenon DEF Word
<1>3. c1 \in Nat /\ c2 \in Nat
  BY <1>2
<1>4. OffsetsAgree(w, x, c1, c2, c) /\ RotationsAgree(w, x, c1, c2)
  <2>1. c1 \in Int /\ c2 \in Int
    BY <1>3
  <2>2. OffsetsAgree(w, x, c1, c2, c)
    BY <2>1, OffsetsCombined
  <2>3. RotationsAgree(w, x, c1, c2)
    BY <1>3, RotationValues
  <2> QED BY <2>2, <2>3
<1>5. PICK e \in Int, sum \in Int : e = c1 + c2 /\ sum = Trunc(e, XBits)
  <2>1. c1 + c2 \in Int /\ XBits \in Nat
    BY <1>3 DEF XBits
  <2> QED BY <2>1, TruncType
<1>6. ASSUME NEW v \in Int, NEW u, u = v \/ u = Trunc(v, XBits)
      PROVE  Trunc(CutTo(u, w), w) = Trunc(v, w)
  <2>1. u = Trunc(v, XBits) \/ u = v \/ u = Trunc(v, w)
    BY <1>6
  <2>2. Trunc(IF w = WBits THEN Trunc(u, WBits) ELSE Trunc(u, XBits), w) = Trunc(v, w)
    BY <1>6, <2>1, CutResidue
  <2> QED BY <2>2 DEF CutTo
<1>7. CASE o = "Add" /\ i = "Add" /\ op = "Add" /\ c = CutTo(sum, w)
  <2>1. Trunc(c, w) = Trunc(c1 + c2, w)
    BY <1>5, <1>6, <1>7
  <2> QED BY <1>4, <1>7, <2>1 DEF OffsetsAgree
<1>8. CASE o = "Sub" /\ i = "Sub" /\ op = "Add" /\ c = CutTo(-sum, w)
  <2>1. Trunc(-sum, w) = Trunc(-e, w)
    <3>1. PICK k \in Nat : k = w
      BY Widths
    <3>2. Trunc(sum, k) = Trunc(e, k)
      BY <1>5, <3>1, CutResidue
    <3>3. PICK z \in Int : z = 0
      OBVIOUS
    <3>4. Trunc(z - Trunc(sum, k), k) = Trunc(z - sum, k)
      BY TruncDifference, Zenon
    <3>5. Trunc(z - Trunc(e, k), k) = Trunc(z - e, k)
      BY TruncDifference, Zenon
    <3>6. Trunc(z - sum, k) = Trunc(z - e, k)
      BY <3>2, <3>4, <3>5, Zenon
    <3>7. z - sum = -sum /\ z - e = -e
      BY <3>3
    <3> QED BY <3>1, <3>6, <3>7
  <2>2. -sum \in Int
    OBVIOUS
  <2>3. Trunc(c, w) = Trunc(-(c1 + c2), w)
    BY <1>5, <1>6, <1>8, <2>1, <2>2
  <2> QED BY <1>4, <1>8, <2>3 DEF OffsetsAgree
<1>9. CASE o = "Mul" /\ i = "Mul" /\ op = "Mul" /\ c = CutTo(c1 * c2, w)
  <2>1. c1 * c2 \in Int
    BY <1>3
  <2>2. Trunc(c, w) = Trunc(c1 * c2, w)
    BY <1>6, <1>9, <2>1
  <2> QED BY <1>4, <1>9, <2>2 DEF OffsetsAgree
<1>10. CASE o = "Add" /\ i = "Sub" /\ op = "Add" /\ c = CutTo(c2 - c1, w)
  <2>1. c2 - c1 \in Int
    BY <1>3
  <2>2. Trunc(c, w) = Trunc(c2 - c1, w)
    BY <1>6, <1>10, <2>1
  <2> QED BY <1>4, <1>10, <2>2 DEF OffsetsAgree
<1>11. CASE o = "Sub" /\ i = "Add" /\ op = "Add" /\ c = CutTo(c1 - c2, w)
  <2>1. c1 - c2 \in Int
    BY <1>3
  <2>2. Trunc(c, w) = Trunc(c1 - c2, w)
    BY <1>6, <1>11, <2>1
  <2> QED BY <1>4, <1>11, <2>2 DEF OffsetsAgree
<1>12. CASE o \in {"Lsl", "Lsr", "Asr"} /\ i = o /\ op = o /\ c = sum /\ sum <= w - 1
  <2>1. sum = e
    <3>1. c1 + c2 \in Word(XBits) /\ XBits \in Nat
      BY <1>12 DEF XBits
    <3> QED BY <1>5, <3>1, WordTrunc
  <2>2. w \in Nat
    BY Widths
  <2>3. c1 \in 0 .. (w - 1) /\ c2 \in 0 .. (w - 1) /\ c1 + c2 <= w - 1
    BY <1>3, <1>5, <1>12, <2>1, <2>2
  <2>4. c = c1 + c2
    BY <1>5, <1>12, <2>1
  <2> QED BY <1>12, <2>3, <2>4, LogicalShiftsCombined, ArithShiftsCombined
<1>13. CASE o = "Ror" /\ i = "Ror" /\ op = "Ror" /\ c = sum % w
  <2>1. c = Trunc(c1 + c2, XBits) % w
    BY <1>5, <1>13, Zenon
  <2> QED BY <1>4, <1>13, <2>1, Zenon DEF RotationsAgree
<1>14. sum = Trunc(c1 + c2, XBits)
  BY <1>5
<1> QED BY <1>7, <1>8, <1>9, <1>10, <1>11, <1>12, <1>13, <1>14 DEF Combines

\* pass.rs:500-569: whatever x is, the operation with the combined constant yields what the
\* two operations would have, one after the other; for shifts as long as the sum of the
\* counts does not wrap (pass.rs:554).  The bitwise operations are left to the runs.
THEOREM CombinedFaithful ==
  ASSUME NEW s, NEW a, NEW inner, NEW c1 \in Word(XBits), NEW c2 \in Word(XBits), NEW x \in Int,
         a.w \in {WBits, XBits}, a.op \notin {"And", "Or", "Eor"},
         inner = s.b.code[Arg(a, 1)], c1 = ConstOf(s, Arg(inner, 2)), c2 = ConstOf(s, Arg(a, 2)),
         a.op \in {"Lsl", "Lsr", "Asr"} => c1 + c2 \in Word(XBits),
         try_combine_const(s, a).c # Unknown
  PROVE  LET r == try_combine_const(s, a)
         IN  Value(r.op, x, r.c, a.w) = Value(a.op, Value(inner.op, x, c1, a.w), c2, a.w)
<1>1. PICK r, w : r = try_combine_const(s, a) /\ w = a.w
  OBVIOUS
<1>2. w \in {WBits, XBits} /\ w \in Int
  BY <1>1, Widths
<1>3. Trunc(c1 + c2, XBits) \in Int
  <2>1. c1 \in Int /\ c2 \in Int /\ XBits \in Nat
    BY Widths DEF Word, XBits
  <2>2. c1 + c2 \in Int
    BY <2>1
  <2> QED BY <2>1, <2>2, TruncType
<1>4. Combines(a.op, inner.op, r.op, r.c, c1, c2, w)
  BY <1>1, <1>2, <1>3, CombineCases
<1>5. Value(r.op, x, r.c, w) = Value(a.op, Value(inner.op, x, c1, w), c2, w)
  BY <1>2, <1>4, CombinedValues
<1> QED BY <1>1, <1>5

-----------------------------------------------------------------------------
(* The branch fused with its compare (Terminals).                          *)

\* The flags of a flag word.
LEMMA BitsOfFlags ==
  ASSUME NEW n \in BOOLEAN, NEW z \in BOOLEAN, NEW c \in BOOLEAN, NEW v \in BOOLEAN
  PROVE  LET word == Nzcv(B2N(n), B2N(z), B2N(c), B2N(v))
         IN  /\ (Bit(word, 3) = 1) <=> n
             /\ (Bit(word, 2) = 1) <=> z
             /\ (Bit(word, 1) = 1) <=> c
             /\ (Bit(word, 0) = 1) <=> v
<1>1. 2^0 = 1 /\ 2^1 = 2 /\ 2^2 = 4 /\ 2^3 = 8
  <2>1. 0 + 1 = 1 /\ 1 + 1 = 2 /\ 2 + 1 = 3
    OBVIOUS
  <2> QED BY <2>1, PowerFacts
<1>2. PICK i \in {0, 1}, j \in {0, 1}, k \in {0, 1}, l \in {0, 1} :
        /\ i = B2N(n) /\ j = B2N(z) /\ k = B2N(c) /\ l = B2N(v)
        /\ (i = 1) <=> n
        /\ (j = 1) <=> z
        /\ (k = 1) <=> c
        /\ (l = 1) <=> v
  BY DEF B2N
<1>3. PICK word \in Nat : word = 8 * i + 4 * j + 2 * k + l /\ word = Nzcv(B2N(n), B2N(z), B2N(c), B2N(v))
  <2>1. 8 * i + 4 * j + 2 * k + l \in Nat
    OBVIOUS
  <2>2. Nzcv(B2N(n), B2N(z), B2N(c), B2N(v)) = 8 * i + 4 * j + 2 * k + l
    BY <1>2, Zenon DEF Nzcv
  <2> QED BY <2>1, <2>2, Zenon
<1>4. (word \div 8) % 2 = i /\ (word \div 4) % 2 = j /\ (word \div 2) % 2 = k /\ (word \div 1) % 2 = l
  <2>1. word = 8 * i + (4 * j + 2 * k + l) /\ 4 * j + 2 * k + l \in 0 .. 7
    BY <1>3
  <2>2. word = 4 * (2 * i + j) + (2 * k + l) /\ 2 * k + l \in 0 .. 3
    BY <1>3
  <2>3. word = 2 * (4 * i + 2 * j + k) + l
    BY <1>3
  <2>4. word \div 8 = i /\ i % 2 = i
    BY <2>1
  <2>5. word \div 4 = 2 * i + j /\ (2 * i + j) % 2 = j
    BY <2>2
  <2>6. word \div 2 = 2 * (2 * i + j) + k /\ (2 * (2 * i + j) + k) % 2 = k
    BY <2>3
  <2>7. word \div 1 = word /\ word % 2 = l
    BY <2>3
  <2> QED BY <2>4, <2>5, <2>6, <2>7
<1> QED BY <1>1, <1>2, <1>3, <1>4 DEF Bit

\* What the conditions ask of the flags.
Asked(cond, n, z, c, v) ==
  \/ cond = 0 /\ z
  \/ cond = 1 /\ ~z
  \/ cond = 2 /\ c
  \/ cond = 3 /\ ~c
  \/ cond = 4 /\ n
  \/ cond = 5 /\ ~n
  \/ cond = 6 /\ v
  \/ cond = 7 /\ ~v
  \/ cond = 8 /\ c /\ ~z
  \/ cond = 9 /\ ~(c /\ ~z)
  \/ cond = 10 /\ (n <=> v)
  \/ cond = 11 /\ ~(n <=> v)
  \/ cond = 12 /\ (n <=> v) /\ ~z
  \/ cond = 13 /\ ~((n <=> v) /\ ~z)

\* CondHolds finds in a flag word what the condition asks of the flags.
LEMMA AskedOfFlags ==
  ASSUME NEW n \in BOOLEAN, NEW z \in BOOLEAN, NEW c \in BOOLEAN, NEW v \in BOOLEAN, NEW cond \in 0 .. 13
  PROVE  CondHolds(cond, Nzcv(B2N(n), B2N(z), B2N(c), B2N(v))) <=> Asked(cond, n, z, c, v)
<1>1. PICK word : word = Nzcv(B2N(n), B2N(z), B2N(c), B2N(v))
  OBVIOUS
<1>2. /\ (Bit(word, 3) = 1) <=> n
      /\ (Bit(word, 2) = 1) <=> z
      /\ (Bit(word, 1) = 1) <=> c
      /\ (Bit(word, 0) = 1) <=> v
  BY <1>1, BitsOfFlags
<1>3. PICK h \in 0 .. 6, o \in {0, 1} : cond \div 2 = h /\ cond % 2 = o /\ cond = 2 * h + o
  OBVIOUS
<1>4. CondHolds(cond, word) <=> Asked(cond, n, z, c, v)
  BY <1>2, <1>3 DEF CondHolds, Asked
<1> QED BY <1>1, <1>4

\* The flags a producer writes for operands x and y.
FlagsWritten(op, x, y, w) ==
  CASE op = "AddsFlags" -> FlagsOfAdd(x, y, 0, w)
    [] op = "SubsFlags" -> FlagsOfSub(x, y, 0, w)
    [] op = "LogicFlags" -> Nzcv(Msb(x, w), B2N(x = 0), 0, 0)

\* The top bit of a number is one.
LEMMA TopBit ==
  ASSUME NEW a \in Int, NEW w \in Nat \ {0}
  PROVE  \E n \in BOOLEAN : Msb(a, w) = B2N(n) /\ ((Msb(a, w) = 1) <=> n)
<1>1. w - 1 \in Nat
  OBVIOUS
<1>2. PICK p \in Nat \ {0} : p = 2^(w - 1)
  BY <1>1, PowerFacts
<1>3. PICK q \in Int : q = a \div p
  BY <1>2, Divided
<1>4. Msb(a, w) = q % 2 /\ q % 2 \in {0, 1}
  BY <1>2, <1>3 DEF Msb, Bit
<1>5. CASE q % 2 = 0
  BY <1>4, <1>5 DEF B2N
<1>6. CASE q % 2 = 1
  BY <1>4, <1>6 DEF B2N
<1> QED BY <1>4, <1>5, <1>6

\* A truncated number is a natural one.
LEMMA TruncInt ==
  ASSUME NEW a \in Int, NEW w \in Nat
  PROVE  Trunc(a, w) \in Nat
<1>1. PICK p \in Nat \ {0} : p = 2^w
  BY PowerFacts
<1> QED BY <1>1, Divided DEF Trunc

\* The flags n, z, c and v are those a producer writes, and the host has them when it does
\* the same again: the carry negated after a subtraction.
SameFlags(op, x, y, w, n, z, c, v) ==
  /\ FlagsWritten(op, x, y, w) = Nzcv(B2N(n), B2N(z), B2N(c), B2N(v))
  /\ emit_fused_flags(op, x, y, w) =
       [cf |-> IF op = "SubsFlags" THEN ~c ELSE c, zf |-> z, sf |-> n, of |-> v]
  /\ op = "LogicFlags" => ~c /\ ~v

\* There are such flags.
LEMMA FlagsAgain ==
  ASSUME NEW op \in Producers, NEW x \in Int, NEW y \in Int, NEW w \in Nat \ {0}
  PROVE  \E n, z, c, v \in BOOLEAN : SameFlags(op, x, y, w, n, z, c, v)
<1>1. CASE op = "AddsFlags"
  <2>1. PICK r \in Int : r = Trunc(x + y, w)
    BY TruncInt
  <2>2. PICK n \in BOOLEAN : Msb(r, w) = B2N(n) /\ ((Msb(r, w) = 1) <=> n)
    BY <2>1, TopBit
  <2>3. PICK z \in BOOLEAN : z = (r = 0)
    OBVIOUS
  <2>4. PICK c \in BOOLEAN : c <=> (x + y >= 2^w)
    OBVIOUS
  <2>5. PICK v \in BOOLEAN : v = (Msb(x, w) = Msb(y, w) /\ Msb(r, w) # Msb(x, w))
    OBVIOUS
  <2>6. z = (r = 0) /\ (c <=> (x + y >= 2^w)) /\ v = (Msb(x, w) = Msb(y, w) /\ Msb(r, w) # Msb(x, w)) /\ B2N(x + y >= 2^w) = B2N(c)
    BY <2>3, <2>4, <2>5 DEF B2N
  <2>7. x + y + 0 = x + y
    OBVIOUS
  <2>8. FlagsOfAdd(x, y, 0, w) = Nzcv(B2N(n), B2N(z), B2N(c), B2N(v))
    BY <2>1, <2>2, <2>6, <2>7, Zenon DEF FlagsOfAdd
  <2>9. emit_fused_flags(op, x, y, w) = [cf |-> c, zf |-> z, sf |-> (Msb(r, w) = 1), of |-> v]
    BY <1>1, <2>1, <2>6 DEF emit_fused_flags
  <2>10. (Msb(r, w) = 1) = n
    BY <2>2
  <2>11. FlagsWritten(op, x, y, w) = FlagsOfAdd(x, y, 0, w)
    BY <1>1 DEF FlagsWritten
  <2>12. op # "SubsFlags" /\ op # "LogicFlags"
    BY <1>1
  <2>13. emit_fused_flags(op, x, y, w) = [cf |-> IF op = "SubsFlags" THEN ~c ELSE c, zf |-> z, sf |-> n, of |-> v]
    <3>1. (IF op = "SubsFlags" THEN ~c ELSE c) = c
      BY <2>12, Zenon
    <3> QED BY <2>9, <2>10, <3>1, Zenon
  <2>14. FlagsWritten(op, x, y, w) = Nzcv(B2N(n), B2N(z), B2N(c), B2N(v))
    BY <2>8, <2>11, Zenon
  <2>15. SameFlags(op, x, y, w, n, z, c, v)
    BY <2>12, <2>13, <2>14, Zenon DEF SameFlags
  <2> QED BY <2>15
<1>2. CASE op = "SubsFlags"
  <2>1. PICK r \in Int : r = Trunc(x - y, w)
    BY TruncInt
  <2>2. PICK n \in BOOLEAN : Msb(r, w) = B2N(n) /\ ((Msb(r, w) = 1) <=> n)
    BY <2>1, TopBit
  <2>3. PICK z \in BOOLEAN : z = (r = 0)
    OBVIOUS
  <2>4. PICK h \in BOOLEAN : h <=> (x < y)
    OBVIOUS
  <2>5. PICK v \in BOOLEAN : v = (Msb(x, w) # Msb(y, w) /\ Msb(r, w) # Msb(x, w))
    OBVIOUS
  <2>6. z = (r = 0) /\ (h <=> (x < y)) /\ v = (Msb(x, w) # Msb(y, w) /\ Msb(r, w) # Msb(x, w)) /\ B2N(x < y) = B2N(h)
    BY <2>3, <2>4, <2>5 DEF B2N
  <2>7. x - y - 0 = x - y /\ y + 0 = y
    OBVIOUS
  <2>8. 1 - B2N(h) = B2N(~h)
    BY DEF B2N
  <2>9. FlagsOfSub(x, y, 0, w) = Nzcv(B2N(n), B2N(z), B2N(~h), B2N(v))
    BY <2>1, <2>2, <2>6, <2>7, <2>8, Zenon DEF FlagsOfSub
  <2>10. emit_fused_flags(op, x, y, w) = [cf |-> h, zf |-> z, sf |-> (Msb(r, w) = 1), of |-> v]
    BY <1>2, <2>1, <2>6 DEF emit_fused_flags
  <2>11. (Msb(r, w) = 1) = n
    BY <2>2
  <2>12. FlagsWritten(op, x, y, w) = FlagsOfSub(x, y, 0, w)
    BY <1>2 DEF FlagsWritten
  <2>13. PICK c \in BOOLEAN : c = ~h /\ h = ~c
    OBVIOUS
  <2>14. op # "LogicFlags"
    BY <1>2
  <2>15. emit_fused_flags(op, x, y, w) = [cf |-> IF op = "SubsFlags" THEN ~c ELSE c, zf |-> z, sf |-> n, of |-> v]
    <3>1. (IF op = "SubsFlags" THEN ~c ELSE c) = h
      BY <1>2, <2>13, Zenon
    <3> QED BY <2>10, <2>11, <3>1, Zenon
  <2>16. FlagsWritten(op, x, y, w) = Nzcv(B2N(n), B2N(z), B2N(c), B2N(v))
    BY <2>9, <2>12, <2>13, Zenon
  <2>17. SameFlags(op, x, y, w, n, z, c, v)
    BY <2>14, <2>15, <2>16, Zenon DEF SameFlags
  <2> QED BY <2>17
<1>3. CASE op = "LogicFlags"
  <2>1. PICK n \in BOOLEAN : Msb(x, w) = B2N(n) /\ ((Msb(x, w) = 1) <=> n)
    BY TopBit
  <2>2. PICK z \in BOOLEAN : z = (x = 0)
    OBVIOUS
  <2>3. B2N(FALSE) = 0
    BY DEF B2N
  <2>4. FlagsWritten(op, x, y, w) = Nzcv(B2N(n), B2N(z), B2N(FALSE), B2N(FALSE))
    BY <1>3, <2>1, <2>2, <2>3, Zenon DEF FlagsWritten
  <2>5. emit_fused_flags(op, x, y, w) = [cf |-> FALSE, zf |-> z, sf |-> (Msb(x, w) = 1), of |-> FALSE]
    BY <1>3, <2>2 DEF emit_fused_flags
  <2>6. (Msb(x, w) = 1) = n
    BY <2>1
  <2>7. PICK c \in BOOLEAN, v \in BOOLEAN : c = FALSE /\ v = FALSE
    OBVIOUS
  <2>8. emit_fused_flags(op, x, y, w) = [cf |-> IF op = "SubsFlags" THEN ~c ELSE c, zf |-> z, sf |-> n, of |-> v]
    <3>1. (IF op = "SubsFlags" THEN ~c ELSE c) = FALSE
      BY <1>3, <2>7, Zenon
    <3> QED BY <2>5, <2>6, <2>7, <3>1, Zenon
  <2>9. SameFlags(op, x, y, w, n, z, c, v)
    BY <2>4, <2>7, <2>8, Zenon DEF SameFlags
  <2> QED BY <2>9
<1> QED BY <1>1, <1>2, <1>3 DEF Producers

\* The jump asks of the host's flags what the condition asks of the guest's.
LEMMA JumpAsks ==
  ASSUME NEW op \in Producers, NEW cond \in 0 .. 15, fused_jcc_kind(op, cond) # "none",
         NEW n \in BOOLEAN, NEW z \in BOOLEAN, NEW c \in BOOLEAN, NEW v \in BOOLEAN,
         op = "LogicFlags" => ~c /\ ~v,
         NEW f, f = [cf |-> IF op = "SubsFlags" THEN ~c ELSE c, zf |-> z, sf |-> n, of |-> v]
  PROVE  /\ cond \in 0 .. 13
         /\ emit_fused_jcc(fused_jcc_kind(op, cond), f) <=> Asked(cond, n, z, c, v)
<1>1. cond \in 0 .. 13
  BY DEF fused_jcc_kind
<1>2. PICK h \in BOOLEAN : f = [cf |-> h, zf |-> z, sf |-> n, of |-> v] /\ (h <=> IF op = "SubsFlags" THEN ~c ELSE c)
  OBVIOUS
<1>3. (f.cf <=> h) /\ (f.zf <=> z) /\ (f.sf <=> n) /\ (f.of <=> v) /\ ((f.sf = f.of) <=> (n <=> v))
  BY <1>2
<1>4. PICK kind : kind = fused_jcc_kind(op, cond)
  OBVIOUS
<1>5. kind \in {"E", "Ne", "B", "Ae", "S", "Ns", "O", "No", "A", "Be", "Ge", "L", "G", "Le"} =>
        (emit_fused_jcc(kind, f) <=>
           \/ kind = "E" /\ z
           \/ kind = "Ne" /\ ~z
           \/ kind = "B" /\ h
           \/ kind = "Ae" /\ ~h
           \/ kind = "S" /\ n
           \/ kind = "Ns" /\ ~n
           \/ kind = "O" /\ v
           \/ kind = "No" /\ ~v
           \/ kind = "A" /\ ~h /\ ~z
           \/ kind = "Be" /\ (h \/ z)
           \/ kind = "Ge" /\ (n <=> v)
           \/ kind = "L" /\ ~(n <=> v)
           \/ kind = "G" /\ ~z /\ (n <=> v)
           \/ kind = "Le" /\ (z \/ ~(n <=> v)))
  BY <1>3 DEF emit_fused_jcc
<1>6. CASE cond = 0
  <2>1. kind = "E"
    BY <1>4, <1>6 DEF fused_jcc_kind, Jccs
  <2> QED BY <1>2, <1>4, <1>5, <1>6, <2>1 DEF Asked, Producers
<1>7. CASE cond = 1
  <2>1. kind = "Ne"
    BY <1>4, <1>7 DEF fused_jcc_kind, Jccs
  <2> QED BY <1>2, <1>4, <1>5, <1>7, <2>1 DEF Asked, Producers
<1>8. CASE cond = 2
  <2>1. kind = IF op = "SubsFlags" THEN "Ae" ELSE "B"
    BY <1>4, <1>8 DEF fused_jcc_kind, SwapCarry, Jccs, Producers
  <2> QED BY <1>2, <1>4, <1>5, <1>8, <2>1 DEF Asked, Producers
<1>9. CASE cond = 3
  <2>1. kind = IF op = "SubsFlags" THEN "B" ELSE "Ae"
    BY <1>4, <1>9 DEF fused_jcc_kind, SwapCarry, Jccs, Producers
  <2> QED BY <1>2, <1>4, <1>5, <1>9, <2>1 DEF Asked, Producers
<1>10. CASE cond = 4
  <2>1. kind = "S"
    BY <1>4, <1>10 DEF fused_jcc_kind, Jccs
  <2> QED BY <1>2, <1>4, <1>5, <1>10, <2>1 DEF Asked, Producers
<1>11. CASE cond = 5
  <2>1. kind = "Ns"
    BY <1>4, <1>11 DEF fused_jcc_kind, Jccs
  <2> QED BY <1>2, <1>4, <1>5, <1>11, <2>1 DEF Asked, Producers
<1>12. CASE cond = 6
  <2>1. kind = "O"
    BY <1>4, <1>12 DEF fused_jcc_kind, Jccs
  <2> QED BY <1>2, <1>4, <1>5, <1>12, <2>1 DEF Asked, Producers
<1>13. CASE cond = 7
  <2>1. kind = "No"
    BY <1>4, <1>13 DEF fused_jcc_kind, Jccs
  <2> QED BY <1>2, <1>4, <1>5, <1>13, <2>1 DEF Asked, Producers
<1>14. CASE cond = 8
  <2>1. op # "AddsFlags" /\ kind = IF op = "LogicFlags" THEN "B" ELSE "A"
    BY <1>4, <1>14 DEF fused_jcc_kind, Jccs, Producers
  <2> QED BY <1>2, <1>4, <1>5, <1>14, <2>1 DEF Asked, Producers
<1>15. CASE cond = 9
  <2>1. op # "AddsFlags" /\ kind = IF op = "LogicFlags" THEN "Ae" ELSE "Be"
    BY <1>4, <1>15 DEF fused_jcc_kind, Jccs, Producers
  <2> QED BY <1>2, <1>4, <1>5, <1>15, <2>1 DEF Asked, Producers
<1>16. CASE cond = 10
  <2>1. kind = "Ge"
    BY <1>4, <1>16 DEF fused_jcc_kind, Jccs
  <2> QED BY <1>2, <1>4, <1>5, <1>16, <2>1 DEF Asked, Producers
<1>17. CASE cond = 11
  <2>1. kind = "L"
    BY <1>4, <1>17 DEF fused_jcc_kind, Jccs
  <2> QED BY <1>2, <1>4, <1>5, <1>17, <2>1 DEF Asked, Producers
<1>18. CASE cond = 12
  <2>1. kind = "G"
    BY <1>4, <1>18 DEF fused_jcc_kind, Jccs
  <2> QED BY <1>2, <1>4, <1>5, <1>18, <2>1 DEF Asked, Producers
<1>19. CASE cond = 13
  <2>1. kind = "Le"
    BY <1>4, <1>19 DEF fused_jcc_kind, Jccs
  <2> QED BY <1>2, <1>4, <1>5, <1>19, <2>1 DEF Asked, Producers
<1> QED BY <1>1, <1>6, <1>7, <1>8, <1>9, <1>10, <1>11, <1>12, <1>13, <1>14, <1>15, <1>16, <1>17, <1>18, <1>19

\* A branch fused with its compare is taken where the condition holds of the flags the
\* compare writes.
LEMMA FusedTakes ==
  ASSUME NEW op \in Producers, NEW x \in Int, NEW y \in Int, NEW w \in Nat \ {0},
         NEW cond \in 0 .. 15, fused_jcc_kind(op, cond) # "none"
  PROVE  emit_fused_jcc(fused_jcc_kind(op, cond), emit_fused_flags(op, x, y, w)) <=>
           CondHolds(cond, FlagsWritten(op, x, y, w))
<1>1. PICK n \in BOOLEAN, z \in BOOLEAN, c \in BOOLEAN, v \in BOOLEAN :
        SameFlags(op, x, y, w, n, z, c, v)
  BY FlagsAgain
<1>2. PICK f : f = emit_fused_flags(op, x, y, w)
  OBVIOUS
<1>3. cond \in 0 .. 13 /\ (emit_fused_jcc(fused_jcc_kind(op, cond), f) <=> Asked(cond, n, z, c, v))
  BY <1>1, <1>2, JumpAsks DEF SameFlags
<1>4. CondHolds(cond, FlagsWritten(op, x, y, w)) <=> Asked(cond, n, z, c, v)
  BY <1>1, <1>3, AskedOfFlags DEF SameFlags
<1> QED BY <1>2, <1>3, <1>4

\* A machine with flags.
HasFlags(m) == IsMachine(m) /\ "nzcv" \in DOMAIN m
\* The machines t and m have the same ones.
FlagsKept(t, m) == t.nzcv = m.nzcv

\* An operation known not to write the flags does not.
LEMMA EvaluateKeepsFlags ==
  ASSUME NEW a, NEW val, NEW src, NEW m, HasFlags(m), op_preserves_nzcv(a.op), a.op \notin Producers
  PROVE  FlagsKept(Evaluate(a, val, src, m).m, m)
<1>1. /\ a.op \notin FlagOps /\ a.op # "SetNzcv" /\ a.op # "Msr"
  BY DEF op_preserves_nzcv, IsPure, HasSideEffects, FlagOps, Setters, SystemOps, Getters, MemoryOps,
         BranchOps
<1>2. ASSUME NEW f \in {"x", "sp", "v", "tpidr", "trace"}, NEW y
      PROVE  FlagsKept([m EXCEPT ![f] = y], m)
  <2>1. f # "nzcv"
    OBVIOUS
  <2>2. PICK t : t = [m EXCEPT ![f] = y]
    OBVIOUS
  <2>3. t.nzcv = m.nzcv
    BY <2>1, <2>2 DEF IsMachine, HasFlags
  <2> QED BY <2>2, <2>3 DEF FlagsKept
<1>3. \A t : Effects(t).m = t
  BY DEF Effects
<1>4. \A v : Pure(v, m).m = m
  BY DEF Pure
<1>5. \A v : emit_op_identity(a, v, m).m = m
  BY <1>4 DEF emit_op_identity
<1>6. emit_getter(a, m).m = m /\ emit_get_v(a, m).m = m /\ emit_mrs(a, m).m = m
  BY <1>4 DEF emit_getter, emit_get_v, emit_mrs
<1>7. \A x, y, z : emit_csel(a, x, y, z, m).m = m
  BY <1>4 DEF emit_csel
<1>8. ASSUME NEW v, a.op \in Setters \ {"SetV"} PROVE FlagsKept(emit_setter(a, v, m).m, m)
  <2>1. CASE a.op = "SetX"
    <3>1. emit_setter(a, v, m) = Effects([m EXCEPT !.x = [m.x EXCEPT ![a.imm] = v]])
      BY <2>1 DEF emit_setter
    <3> QED BY <3>1, <1>2, <1>3
  <2>2. CASE a.op = "SetW"
    <3>1. emit_setter(a, v, m) = Effects([m EXCEPT !.x = [m.x EXCEPT ![a.imm] = Trunc(v, WBits)]])
      BY <2>2 DEF emit_setter
    <3> QED BY <3>1, <1>2, <1>3
  <2>3. CASE a.op = "SetSp"
    <3>1. emit_setter(a, v, m) = Effects([m EXCEPT !.sp = v])
      BY <2>3 DEF emit_setter
    <3> QED BY <3>1, <1>2, <1>3
  <2> QED BY <1>1, <1>8, <2>1, <2>2, <2>3 DEF Setters
<1>9. \A v : FlagsKept(emit_set_v(a, v, src, m).m, m)
  BY <1>2, <1>3 DEF emit_set_v
<1>10. ASSUME a.op \in {"Adc", "Adcs", "Sbc", "Sbcs"}
       PROVE  \A x, y, z : emit_adc_sbc(a, x, y, z, m).m = m
  <2>1. a.op \in {"Adc", "Sbc"}
    BY <1>1, <1>10 DEF FlagOps
  <2> QED BY <2>1 DEF emit_adc_sbc
<1>11. \A x : FlagsKept(emit_load(a, x, m).m, m)
  BY <1>2 DEF emit_load
<1>12. ASSUME NEW x, NEW y PROVE FlagsKept(emit_store(a, x, y, m).m, m)
  <2>1. PICK v : emit_store(a, x, y, m) = Effects([m EXCEPT !.trace = v])
    BY DEF emit_store
  <2> QED BY <2>1, <1>2, <1>3
<1>13. FlagsKept(emit_vector(a, val, m).m, m)
  <2>1. PICK r : emit_vector(a, val, m) = Stored(r, m)
    BY DEF emit_vector
  <2>2. PICK t, q : t = Stored(r, m).m /\ t = [m EXCEPT !.intact = q]
    BY DEF Stored
  <2>3. t.nzcv = m.nzcv
    BY <2>2 DEF IsMachine, HasFlags
  <2> QED BY <2>1, <2>2, <2>3 DEF FlagsKept
<1>14. FlagsKept(m, m)
  BY DEF FlagsKept
<1>15. a.op \notin {"AddsFlags", "SubsFlags"} /\ a.op # "LogicFlags"
  BY <1>1 DEF FlagOps
<1>16. \/ FlagsKept(Evaluate(a, val, src, m).m, m)
       \/ \E x, y, z : /\ a.op \in {"Adc", "Adcs", "Sbc", "Sbcs"}
                       /\ Evaluate(a, val, src, m).m = emit_adc_sbc(a, x, y, z, m).m
  BY <1>1, <1>3, <1>4, <1>5, <1>6, <1>7, <1>8, <1>9, <1>11, <1>12, <1>13, <1>14, <1>15 DEF Evaluate
<1> QED BY <1>10, <1>14, <1>16

\* The operands of a producer, as it and the fused branch take them, and its flags.
FirstOperand(a, e) == Trunc(e[a.args[1]], a.w)
SecondOperand(a, e) == IF a.op = "LogicFlags" THEN 0 ELSE Trunc(e[a.args[2]], a.w)

\* A producer writes the flags of its operands.
LEMMA ProducerWrites ==
  ASSUME NEW b, NEW i, NEW s, HasFlags(s.m), b.code[i].op \in Producers,
         {1, IF b.code[i].op = "LogicFlags" THEN 1 ELSE 2} \subseteq DOMAIN b.code[i].args
  PROVE  LET a == b.code[i]
         IN  emit_armlet(b, i, s).m.nzcv = FlagsWritten(a.op, FirstOperand(a, s.env), SecondOperand(a, s.env), a.w)
<1>1. PICK x, a, val, src : /\ x = b.code[i] /\ a = Operation(x)
                            /\ val = [j \in DOMAIN x.args |-> s.env[x.args[j]]]
                            /\ emit_armlet(b, i, s) = Bound(s, i, Evaluate(a, val, src, s.m))
  BY Zenon DEF emit_armlet
<1>2. a.op = x.op /\ a.w = x.w
  BY <1>1 DEF Operation
<1>3. emit_armlet(b, i, s).m = Evaluate(a, val, src, s.m).m
  BY <1>1 DEF Bound
<1>4. Trunc(val[1], a.w) = FirstOperand(x, s.env)
  BY <1>1, <1>2 DEF FirstOperand
<1>5. PICK m : m = s.m /\ m = [f \in DOMAIN m |-> m[f]] /\ "nzcv" \in DOMAIN m
  BY DEF HasFlags, IsMachine
<1>6. \A v : [m EXCEPT !.nzcv = v].nzcv = v
  BY <1>5
<1>7. x.op \notin VecOps /\ x.op \notin Setters \cup Getters \cup BinaryOps \cup UnaryOps
  <2>1. DOMAIN MinMax = {"VecSmin", "VecSmax", "VecUmin", "VecUmax"}
    BY DEF MinMax
  <2> QED BY <1>1, <2>1 DEF Producers, VecOps, WideningOps, Setters, Getters, BinaryOps, UnaryOps
<1>8. CASE x.op = "LogicFlags"
  <2>1. Evaluate(a, val, src, m) = emit_logic_flags(a, FirstOperand(x, s.env), m)
    BY <1>2, <1>4, <1>7, <1>8 DEF Evaluate
  <2>2. emit_logic_flags(a, FirstOperand(x, s.env), m).m.nzcv =
          Nzcv(Msb(FirstOperand(x, s.env), x.w), B2N(FirstOperand(x, s.env) = 0), 0, 0)
    BY <1>2, <1>6 DEF emit_logic_flags, Effects
  <2> QED BY <1>1, <1>3, <1>5, <1>8, <2>1, <2>2 DEF FlagsWritten
<1>9. CASE x.op \in {"AddsFlags", "SubsFlags"}
  <2>1. Trunc(val[2], a.w) = SecondOperand(x, s.env)
    BY <1>1, <1>2, <1>9 DEF SecondOperand
  <2>2. Evaluate(a, val, src, m) = emit_flagged_addsub(a, FirstOperand(x, s.env), SecondOperand(x, s.env), m)
    BY <1>2, <1>4, <1>7, <1>9, <2>1 DEF Evaluate
  <2>3. emit_flagged_addsub(a, FirstOperand(x, s.env), SecondOperand(x, s.env), m).m.nzcv =
          IF x.op = "AddsFlags" THEN FlagsOfAdd(FirstOperand(x, s.env), SecondOperand(x, s.env), 0, x.w)
                                ELSE FlagsOfSub(FirstOperand(x, s.env), SecondOperand(x, s.env), 0, x.w)
    BY <1>2, <1>6 DEF emit_flagged_addsub
  <2> QED BY <1>1, <1>3, <1>5, <1>9, <2>2, <2>3 DEF FlagsWritten
<1> QED BY <1>1, <1>8, <1>9 DEF Producers

\* A run of the nodes L of block b from a machine with flags.
Running(g, b, L, m, n, N) ==
  /\ n \in Nat /\ N \in Nat /\ N = Len(b.code) /\ \A k \in 1 .. n : L[k] \in 1 .. N
  /\ \A j, k \in 1 .. n : L[j] = L[k] => j = k
  /\ IsRun(g, b, L, m, n) /\ HasFlags(m)

\* Its states are states, of machines with flags.
LEMMA RunningStates ==
  ASSUME NEW g, NEW b, NEW L, NEW m, NEW n, NEW N, Running(g, b, L, m, n, N)
  PROVE  \A k \in 0 .. n : IsState(g[k], N) /\ HasFlags(g[k].m)
<1>1. /\ n \in Nat /\ N \in Nat /\ N = Len(b.code) /\ \A k \in 1 .. n : L[k] \in 1 .. N
      /\ g[0] = RunFrom(b, m) /\ \A k \in 1 .. n : g[k] = emit_armlet(b, L[k], g[k - 1])
  BY DEF Running, IsRun
<1> DEFINE S == {k \in Nat : k <= n => IsState(g[k], N) /\ HasFlags(g[k].m)}
<1>2. 0 \in S
  <2>1. g[0] = [env |-> [i \in 1 .. N |-> 0], m |-> m]
    BY <1>1 DEF RunFrom
  <2>2. g[0].env = [i \in 1 .. N |-> 0] /\ g[0].m = m
    BY <2>1
  <2>3. g[0] = [env |-> g[0].env, m |-> g[0].m] /\ g[0].env = [i \in 1 .. N |-> g[0].env[i]]
    BY <2>1, <2>2
  <2> QED BY <2>2, <2>3 DEF IsState, HasFlags, Running
<1>3. ASSUME NEW k \in Nat, k \in S PROVE k + 1 \in S
  <2> SUFFICES ASSUME k + 1 <= n PROVE IsState(g[k + 1], N) /\ HasFlags(g[k + 1].m)
    OBVIOUS
  <2>1. k + 1 \in 1 .. n /\ (k + 1) - 1 = k
    OBVIOUS
  <2>2. g[k + 1] = emit_armlet(b, L[k + 1], g[k]) /\ L[k + 1] \in 1 .. N
    BY <2>1, <1>1
  <2>3. IsState(g[k], N) /\ HasFlags(g[k].m)
    <3>1. k <= n
      BY <1>1
    <3> QED BY <1>3, <3>1, Zenon
  <2>4. After(g[k + 1], b, L[k + 1], g[k], N)
    BY <2>2, <2>3, NodeState
  <2> QED BY <2>3, <2>4 DEF After, HasFlags, IsState
<1>4. \A k \in Nat : k \in S
  <2> HIDE DEF S
  <2> QED BY <1>2, <1>3, SetInduction
<1> QED BY <1>4

\* Behind the last node that writes the flags they stay, and so do the values in front of it.
Stays(t, s, r, L, x) == FlagsKept(t.m, s.m) /\ \A j \in 1 .. (x - 1) : t.env[L[j]] = r.env[L[j]]
\* The last writer of the flags has nothing behind it that changes them.
LEMMA RunningStays ==
  ASSUME NEW g, NEW b, NEW L, NEW m, NEW n, NEW N, Running(g, b, L, m, n, N), NEW x \in 1 .. n,
         \A k \in (x + 1) .. n : op_preserves_nzcv(b.code[L[k]].op) /\ b.code[L[k]].op \notin Producers
  PROVE  Stays(g[n], g[x], g[x - 1], L, x)
<1>1. /\ n \in Nat /\ N \in Nat /\ \A k \in 1 .. n : L[k] \in 1 .. N
      /\ \A j, k \in 1 .. n : L[j] = L[k] => j = k
      /\ \A k \in 1 .. n : g[k] = emit_armlet(b, L[k], g[k - 1])
      /\ x \in Nat /\ x >= 1 /\ x <= n
  BY DEF Running, IsRun
<1>2. \A k \in 0 .. n : IsState(g[k], N) /\ HasFlags(g[k].m)
  BY RunningStates
<1>3. ASSUME NEW k \in x .. n, NEW j \in 1 .. (x - 1) PROVE g[k].env[L[j]] = g[k - 1].env[L[j]]
  <2>1. k \in 1 .. n /\ k - 1 \in 0 .. n /\ j \in 1 .. n /\ j # k
    BY <1>1
  <2>2. L[j] \in 1 .. N /\ L[k] \in 1 .. N /\ L[j] # L[k]
    BY <1>1, <2>1
  <2>3. After(g[k], b, L[k], g[k - 1], N)
    BY <1>1, <1>2, <2>1, <2>2, NodeState
  <2> QED BY <2>2, <2>3 DEF After
<1> DEFINE S == {h \in Nat : x + h <= n => Stays(g[x + h], g[x], g[x - 1], L, x)}
<1>4. 0 \in S
  <2>1. x + 0 = x /\ x \in x .. n
    BY <1>1
  <2> QED BY <2>1, <1>3 DEF Stays, FlagsKept
<1>5. ASSUME NEW h \in Nat, h \in S PROVE h + 1 \in S
  <2> SUFFICES ASSUME x + (h + 1) <= n PROVE Stays(g[x + (h + 1)], g[x], g[x - 1], L, x)
    OBVIOUS
  <2>1. PICK k : k = x + (h + 1) /\ k \in (x + 1) .. n /\ k \in 1 .. n /\ k \in x .. n /\ k - 1 = x + h
                 /\ k - 1 \in 0 .. n /\ x + h <= n
    BY <1>1
  <2>2. Stays(g[k - 1], g[x], g[x - 1], L, x)
    BY <1>5, <2>1
  <2>3. FlagsKept(g[k].m, g[k - 1].m)
    <3>1. HasFlags(g[k - 1].m) /\ g[k] = emit_armlet(b, L[k], g[k - 1])
      BY <1>1, <1>2, <2>1
    <3>2. PICK a, val, src : /\ a = Operation(b.code[L[k]])
                             /\ g[k] = Bound(g[k - 1], L[k], Evaluate(a, val, src, g[k - 1].m))
      BY <3>1, Zenon DEF emit_armlet
    <3>3. a.op = b.code[L[k]].op
      BY <3>2 DEF Operation
    <3>4. op_preserves_nzcv(a.op) /\ a.op \notin Producers
      BY <2>1, <3>3
    <3>5. g[k].m = Evaluate(a, val, src, g[k - 1].m).m
      BY <3>2 DEF Bound
    <3> QED BY <3>1, <3>4, <3>5, EvaluateKeepsFlags
  <2>4. ASSUME NEW j \in 1 .. (x - 1) PROVE g[k].env[L[j]] = g[x - 1].env[L[j]]
    BY <1>3, <2>1, <2>2 DEF Stays
  <2> QED BY <2>1, <2>2, <2>3, <2>4 DEF Stays, FlagsKept
<1>6. n - x \in S /\ x + (n - x) = n
  <2> HIDE DEF S
  <2>1. n - x \in Nat /\ x + (n - x) = n
    BY <1>1
  <2> QED BY <2>1, <1>4, <1>5, SetInduction
<1> QED BY <1>6

\* A run of the block whose terminal tests the flags the guest has, whatever set them.
RunUnfused(b, m) ==
  LET s == Runs(b, LiveSeq(b), m, Len(LiveSeq(b)))[Len(LiveSeq(b))]
  IN  [m |-> s.m, pc |-> NextPc(b, NONE, s.env, s.m.nzcv)]

\* The operands of every flag producer are numbers, its width and the condition ones of the
\* instruction set.
Numbers(b, L, m) ==
  /\ b.terminal.t = "ConditionalBranch" => b.terminal.cond \in 0 .. 15
  /\ \A x \in DOMAIN L : b.code[L[x]].op \in Producers =>
       /\ b.code[L[x]].w \in Nat \ {0}
       /\ \A v \in Operands(b, L[x]) : Runs(b, L, m, Len(L))[x - 1].env[v] \in Int

\* emit.rs (fusable_flag_producer, emit_fused_jcc): a conditional branch that is fused with
\* the compare in front of it, which it executes again on the host's flags, goes where it
\* would on the guest's flags, for every well formed block, operand width, condition and
\* machine: no node between the two changes the flags or an operand, and the jump undoes
\* the negated carry of a subtraction.
THEOREM FusionFaithful ==
  ASSUME NEW b, Shaped(b), Listing(b, LiveSeq(b)), Ordered(b, LiveSeq(b)), Supplied(b, LiveSeq(b)),
         NEW m, HasFlags(m), Numbers(b, LiveSeq(b), m)
  PROVE  Run(b, m) = RunUnfused(b, m)
<1>1. PICK L, n, N : L = LiveSeq(b) /\ n = Len(L) /\ N = Len(b.code)
  OBVIOUS
<1>2. Shaped(b) /\ Listing(b, L) /\ Ordered(b, L) /\ Supplied(b, L) /\ Numbers(b, L, m)
  BY <1>1
<1>3. /\ n \in Nat /\ N \in Nat /\ DOMAIN L = 1 .. n /\ L \in Seq(1 .. N)
      /\ \A k \in 1 .. n : L[k] \in 1 .. N
      /\ \A j, k \in 1 .. n : L[j] = L[k] => j = k
  <2>1. N \in Nat
    BY <1>1, <1>2, CodeDomain
  <2>2. n \in Nat /\ DOMAIN L = 1 .. n /\ \A k \in 1 .. n : L[k] \in 1 .. N
    BY <1>1, <1>2, ListingLength
  <2> QED BY <1>1, <1>2, <2>1, <2>2 DEF Listing
<1>4. PICK g, s : g = Runs(b, L, m, n) /\ s = g[n]
  OBVIOUS
<1>5. Running(g, b, L, m, n, N)
  BY <1>1, <1>3, <1>4, RunsAre DEF Running
<1>6. PICK r : r = Fused(b, L) /\ r = fusable_flag_producer(b)
  BY <1>1, ProducerFused
<1>7. Run(b, m) = [m |-> s.m, pc |-> NextPc(b, r, s.env, s.m.nzcv)]
  <2>1. Run(b, m) = Ended(b, s)
    BY <1>1, <1>4, RunOfRuns
  <2> QED BY <2>1, <1>6 DEF Ended
<1>8. RunUnfused(b, m) = [m |-> s.m, pc |-> NextPc(b, NONE, s.env, s.m.nzcv)]
  BY <1>1, <1>4 DEF RunUnfused
<1>9. CASE r = NONE
  BY <1>7, <1>8, <1>9
<1>10. CASE r # NONE
  <2>1. PICK x : x = LastOf(Writers(b, L))
    OBVIOUS
  <2>2. /\ b.terminal.t = "ConditionalBranch" /\ Writers(b, L) # {} /\ r = L[x]
        /\ b.code[L[x]].op \in Producers
        /\ fused_jcc_kind(b.code[L[x]].op, b.terminal.cond) # "none"
    BY <1>6, <1>10, <2>1 DEF Fused
  <2>3. x \in 1 .. n /\ \A k \in Writers(b, L) : k <= x
    <3>1. Writers(b, L) \subseteq 1 .. n
      BY <1>3 DEF Writers
    <3> QED BY <1>3, <2>1, <2>2, <3>1, LastExists
  <2>4. ASSUME NEW k \in (x + 1) .. n
        PROVE  op_preserves_nzcv(b.code[L[k]].op) /\ b.code[L[k]].op \notin Producers
    <3>1. k \in 1 .. n /\ ~(k <= x)
      BY <1>3, <2>3
    <3> QED BY <1>3, <2>3, <3>1 DEF Writers
  <2>5. Stays(s, g[x], g[x - 1], L, x)
    BY <1>4, <1>5, <2>3, <2>4, RunningStays
  <2>6. PICK a : a = b.code[L[x]]
    OBVIOUS
  <2>7. a.w \in Nat \ {0} /\ \A v \in Operands(b, L[x]) : g[x - 1].env[v] \in Int
    BY <1>2, <1>1, <1>3, <1>4, <2>2, <2>3, <2>6 DEF Numbers
  <2>8. {1, IF a.op = "LogicFlags" THEN 1 ELSE 2} \subseteq DOMAIN a.args
    BY <1>2, <1>3, <2>2, <2>3, <2>6 DEF Supplied
  <2>9. ASSUME NEW v \in Operands(b, L[x]) PROVE s.env[v] = g[x - 1].env[v]
    <3>1. v \in {L[j] : j \in 1 .. (x - 1)}
      BY <1>2, <1>3, <2>3 DEF Ordered
    <3> QED BY <3>1, <2>5 DEF Stays
  <2>10. FirstOperand(a, s.env) = FirstOperand(a, g[x - 1].env) /\ FirstOperand(a, s.env) \in Int
    <3>1. PICK v : v = a.args[1] /\ v \in Operands(b, L[x])
      BY <2>6, <2>8 DEF Operands
    <3>2. s.env[v] = g[x - 1].env[v] /\ g[x - 1].env[v] \in Int
      BY <2>7, <2>9, <3>1
    <3>3. /\ FirstOperand(a, s.env) = Trunc(s.env[v], a.w)
          /\ FirstOperand(a, g[x - 1].env) = Trunc(g[x - 1].env[v], a.w)
      BY <3>1, Zenon DEF FirstOperand
    <3>4. Trunc(s.env[v], a.w) \in Nat
      BY <2>7, <3>2, TruncInt
    <3> QED BY <3>2, <3>3, <3>4
  <2>11. SecondOperand(a, s.env) = SecondOperand(a, g[x - 1].env) /\ SecondOperand(a, s.env) \in Int
    <3>1. CASE a.op = "LogicFlags"
      BY <3>1 DEF SecondOperand
    <3>2. CASE a.op # "LogicFlags"
      <4>1. PICK v : v = a.args[2] /\ v \in Operands(b, L[x])
        BY <2>6, <2>8, <3>2 DEF Operands
      <4>2. s.env[v] = g[x - 1].env[v] /\ g[x - 1].env[v] \in Int
        BY <2>7, <2>9, <4>1
      <4>3. /\ SecondOperand(a, s.env) = Trunc(s.env[v], a.w)
            /\ SecondOperand(a, g[x - 1].env) = Trunc(g[x - 1].env[v], a.w)
        BY <3>2, <4>1, Zenon DEF SecondOperand
      <4>4. Trunc(s.env[v], a.w) \in Nat
        BY <2>7, <4>2, TruncInt
      <4> QED BY <4>2, <4>3, <4>4
    <3> QED BY <3>1, <3>2
  <2>12. s.m.nzcv = FlagsWritten(a.op, FirstOperand(a, s.env), SecondOperand(a, s.env), a.w)
    <3>1. x - 1 \in 0 .. n
      BY <1>3, <2>3
    <3>2. HasFlags(g[x - 1].m) /\ g[x] = emit_armlet(b, L[x], g[x - 1])
      <4>1. HasFlags(g[x - 1].m)
        BY <1>5, <3>1, RunningStates
      <4> QED BY <1>5, <2>3, <4>1 DEF Running, IsRun
    <3>3. g[x].m.nzcv = FlagsWritten(a.op, FirstOperand(a, g[x - 1].env), SecondOperand(a, g[x - 1].env), a.w)
      BY <2>2, <2>6, <2>8, <3>2, ProducerWrites
    <3> QED BY <2>5, <2>10, <2>11, <3>3 DEF Stays, FlagsKept
  <2>13. PICK cond : cond = b.terminal.cond /\ cond \in 0 .. 15
    BY <1>2, <2>2 DEF Numbers
  <2>14. FusedTaken(a, cond, s.env) <=> CondHolds(cond, s.m.nzcv)
    <3>1. FusedTaken(a, cond, s.env) =
            emit_fused_jcc(fused_jcc_kind(a.op, cond),
                           emit_fused_flags(a.op, FirstOperand(a, s.env), SecondOperand(a, s.env), a.w))
      BY Zenon DEF FusedTaken, FirstOperand, SecondOperand
    <3>2. fused_jcc_kind(a.op, cond) # "none" /\ a.op \in Producers
      BY <2>2, <2>6, <2>13
    <3>3. emit_fused_jcc(fused_jcc_kind(a.op, cond),
                         emit_fused_flags(a.op, FirstOperand(a, s.env), SecondOperand(a, s.env), a.w))
            <=> CondHolds(cond, FlagsWritten(a.op, FirstOperand(a, s.env), SecondOperand(a, s.env), a.w))
      BY <2>7, <2>10, <2>11, <2>13, <3>2, FusedTakes
    <3> QED BY <2>12, <3>1, <3>3
  <2>15. NextPc(b, r, s.env, s.m.nzcv) = NextPc(b, NONE, s.env, s.m.nzcv)
    <3>1. NextPc(b, r, s.env, s.m.nzcv) =
            IF FusedTaken(a, cond, s.env) THEN b.terminal.taken ELSE b.terminal.fall
      BY <1>10, <2>2, <2>6, <2>13 DEF NextPc
    <3>2. NextPc(b, NONE, s.env, s.m.nzcv) =
            IF CondHolds(cond, s.m.nzcv) THEN b.terminal.taken ELSE b.terminal.fall
      BY <2>2, <2>13 DEF NextPc
    <3> QED BY <2>14, <3>1, <3>2
  <2> QED BY <1>7, <1>8, <2>15
<1> QED BY <1>9, <1>10
=============================================================================

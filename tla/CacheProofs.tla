----------------------------- MODULE CacheProofs -----------------------------
(***************************************************************************)
(* What the operations of the code cache preserve, as lemmas about cache   *)
(* values: each takes a cache that satisfies CacheInv to one that does.    *)
(* CodeCacheProofs and DispatcherProofs both rest on them.                 *)
(***************************************************************************)
EXTENDS CodeCacheOps, TLAPS

\* The empty cache, with its stubs installed, satisfies the invariant.
LEMMA NewCacheInv == CacheInv(NewCache)
<1> DEFINE c == NewCache
<1>1. c \in CacheRec
  BY AddrAssumption, SizeAssumption
  DEF NewCache, CacheRec, Entry, NoEntry, CappedEntry, NoCapped, DispatchSlot,
      EmptySlot, ThunkKind, Unit, MissStub, StubsEnd, Base, GuestRange, EMPTY_PC
<1>2. DispatchInv(c) /\ LinkInv(c)
  BY DEF NewCache, DispatchInv, LinkInv, NoEntry, Present
<1>3. TableInv(c) /\ CappedInv(c)
  BY DEF NewCache, TableInv, CappedInv, NoEntry, NoCapped, Present
<1>4. StubsEnd <= c.cursor /\ \A h \in Unit : NoWrap(c.image[h].src)
  BY SizeAssumption DEF NewCache, NoWrap, StubsEnd, MissStub, Base
<1>5. QED
  BY <1>1, <1>2, <1>3, <1>4 DEF CacheInv

\* append_raw writes above every block that can be entered, so it preserves
\* the invariant, and the block it wrote belongs to nobody yet.
LEMMA AppendInv ==
  ASSUME NEW c, CacheInv(c), NEW b \in BlockRec, NoWrap(b.src), Fits(c, b.size)
  PROVE  LET d == AppendRaw(c, b)  h == c.cursor IN
         /\ CacheInv(d)
         /\ d.table = c.table /\ d.capped = c.capped
         /\ h \in Unit /\ StubsEnd <= h /\ h + b.size <= d.cursor
         /\ h \in d.fresh /\ d.image[h] = [src |-> b.src, size |-> b.size]
         /\ \A p \in Pc : d.table[p].host # h
         /\ \A e \in Pc \X Cap : d.capped[e].host # h
         /\ \A k \in Chain : d.rel[<<h, k>>] = 0
<1> DEFINE d == AppendRaw(c, b)
           h == c.cursor
<1>0. c \in CacheRec /\ h \in Unit /\ StubsEnd <= h /\ b.size \in Nat \ {0}
      /\ h + b.size \in Unit /\ b.src \in SUBSET GuestRange
  BY SizeAssumption
  DEF CacheInv, CacheRec, BlockRec, Fits, Unit, StubsEnd, MissStub, Base
<1>1. /\ d.cursor = h + b.size
      /\ d.table = c.table /\ d.capped = c.capped /\ d.links = c.links
      /\ d.dispatch = c.dispatch /\ d.meta = c.meta
      /\ d.rel = [s \in Site |-> IF s[1] = h THEN 0 ELSE c.rel[s]]
      /\ d.image = [c.image EXCEPT ![h] = [src |-> b.src, size |-> b.size]]
      /\ d.fresh = {g \in c.fresh : \/ g + c.image[g].size <= h
                                    \/ g >= h + b.size} \cup {h}
  BY <1>0 DEF AppendRaw, CacheRec
<1>2. d \in CacheRec
  <2>1. d.rel \in [Site -> Unit]
    BY <1>0, <1>1, SizeAssumption DEF CacheRec, Unit
  <2>2. d.image \in [Unit -> [src : SUBSET GuestRange, size : Nat]]
    BY <1>0, <1>1 DEF CacheRec
  <2>3. d.fresh \in SUBSET Unit
    BY <1>0, <1>1 DEF CacheRec
  <2>4. d = [c EXCEPT !.cursor = d.cursor, !.rel = d.rel, !.image = d.image,
                      !.fresh = d.fresh]
    BY <1>0, <1>1 DEF AppendRaw, CacheRec
  <2> QED BY <1>0, <1>1, <2>1, <2>2, <2>3, <2>4 DEF CacheRec
<1>3. \A g \in Unit : g # h => d.image[g] = c.image[g]
  BY <1>0, <1>1 DEF CacheRec
<1>4. d.image[h] = [src |-> b.src, size |-> b.size]
  BY <1>0, <1>1 DEF CacheRec
<1>5. \A s \in Site : s[1] # h => d.rel[s] = c.rel[s]
  BY <1>1
<1>6. \A k \in Chain : d.rel[<<h, k>>] = 0
  BY <1>0, <1>1 DEF Site
<1>7. \A p \in Pc : c.table[p].host \in Unit
  BY <1>0 DEF CacheRec, Entry
<1>8. \A e \in Pc \X Cap : c.capped[e].host \in Unit
  BY <1>0 DEF CacheRec, CappedEntry
<1>8a. \A g \in Unit : c.image[g].size \in Nat /\ g \in Nat
  BY <1>0, SizeAssumption DEF CacheRec, Unit
<1>8b. h # 0
  BY <1>0, SizeAssumption DEF Unit, StubsEnd, MissStub, Base
<1>9. \A p \in Pc : c.table[p].host # h
  <2> SUFFICES ASSUME NEW p \in Pc, Present(c, p) PROVE c.table[p].host # h
    BY <1>8b DEF Present
  <2>1. LET g == c.table[p].host IN c.image[g].size > 0 /\ g + c.image[g].size <= h
    BY DEF CacheInv, TableInv
  <2> QED BY <1>0, <1>7, <1>8a, <2>1
<1>10. \A e \in Pc \X Cap : c.capped[e].host # h
  <2> SUFFICES ASSUME NEW e \in Pc \X Cap, c.capped[e].host # 0 PROVE c.capped[e].host # h
    BY <1>8b
  <2>1. LET g == c.capped[e].host IN c.image[g].size > 0 /\ g + c.image[g].size <= h
    BY DEF CacheInv, CappedInv
  <2> QED BY <1>0, <1>8, <1>8a, <2>1
<1>11. \A g \in Unit : NoWrap(d.image[g].src)
  BY <1>3, <1>4 DEF CacheInv
<1>12. DispatchInv(d)
  BY <1>1 DEF CacheInv, DispatchInv, Present
<1>13. LinkInv(d)
  BY <1>1, <1>5, <1>9 DEF CacheInv, LinkInv, Present
<1>14. TableInv(d)
  <2> SUFFICES ASSUME NEW p \in Pc, Present(d, p)
               PROVE  LET g == d.table[p].host IN
                 /\ StubsEnd <= g /\ d.image[g].size > 0
                 /\ g + d.image[g].size <= d.cursor
                 /\ g \in d.fresh
                 /\ d.table[p].ranges = Normalise(d.image[g].src)
                 /\ \A q \in Pc : d.table[q].host = g => q = p
                 /\ \A k \in Chain : d.rel[<<g, k>>] # 0 =>
                      \E t \in Pc : <<t, <<g, k>>>> \in d.table[p].out
    BY DEF TableInv
  <2> DEFINE g == c.table[p].host
  <2>1. g \in Unit /\ g # h /\ Present(c, p) /\ d.table[p].host = g
    BY <1>1, <1>7, <1>9 DEF Present
  <2>2. /\ StubsEnd <= g /\ c.image[g].size > 0 /\ g + c.image[g].size <= h
        /\ g \in c.fresh /\ c.table[p].ranges = Normalise(c.image[g].src)
        /\ \A q \in Pc : c.table[q].host = g => q = p
        /\ \A k \in Chain : c.rel[<<g, k>>] # 0 =>
             \E t \in Pc : <<t, <<g, k>>>> \in c.table[p].out
    BY <2>1 DEF CacheInv, TableInv
  <2>3. d.image[g] = c.image[g] /\ c.image[g].size \in Nat
    BY <1>0, <1>3, <2>1 DEF CacheRec
  <2>4. \A k \in Chain : d.rel[<<g, k>>] = c.rel[<<g, k>>]
    BY <1>5, <2>1 DEF Site
  <2>5. g + d.image[g].size <= d.cursor
    BY <1>0, <1>1, <2>1, <2>2, <2>3 DEF Unit
  <2> QED BY <1>1, <2>1, <2>2, <2>3, <2>4, <2>5
<1>15. CappedInv(d)
  <2> SUFFICES ASSUME NEW e \in Pc \X Cap, d.capped[e].host # 0
               PROVE  LET g == d.capped[e].host IN
                 /\ StubsEnd <= g /\ d.image[g].size > 0
                 /\ g + d.image[g].size <= d.cursor
                 /\ g \in d.fresh
                 /\ d.capped[e].ranges = Normalise(d.image[g].src)
                 /\ \A q \in Pc : d.table[q].host # g
                 /\ \A k \in Chain : d.rel[<<g, k>>] = 0
    BY DEF CappedInv
  <2> DEFINE g == c.capped[e].host
  <2>1. g \in Unit /\ g # h /\ d.capped[e].host = g /\ g # 0
    BY <1>1, <1>8, <1>10
  <2>2. /\ StubsEnd <= g /\ c.image[g].size > 0 /\ g + c.image[g].size <= h
        /\ g \in c.fresh /\ c.capped[e].ranges = Normalise(c.image[g].src)
        /\ \A q \in Pc : c.table[q].host # g
        /\ \A k \in Chain : c.rel[<<g, k>>] = 0
    BY <2>1 DEF CacheInv, CappedInv
  <2>3. d.image[g] = c.image[g] /\ c.image[g].size \in Nat
    BY <1>0, <1>3, <2>1 DEF CacheRec
  <2>4. \A k \in Chain : d.rel[<<g, k>>] = c.rel[<<g, k>>]
    BY <1>5, <2>1 DEF Site
  <2>5. g + d.image[g].size <= d.cursor
    BY <1>0, <1>1, <2>1, <2>2, <2>3 DEF Unit
  <2> QED BY <1>1, <2>1, <2>2, <2>3, <2>4, <2>5
<1>16. CacheInv(d)
  BY SizeAssumption, <1>0, <1>1, <1>2, <1>11, <1>12, <1>13, <1>14, <1>15
  DEF CacheInv, Unit, StubsEnd, MissStub, Base
<1>17. h + b.size <= d.cursor /\ h \in d.fresh
  BY <1>0, <1>1 DEF Unit
<1> HIDE DEF d
<1>18. QED
  BY <1>0, <1>1, <1>4, <1>6, <1>9, <1>10, <1>16, <1>17 DEF d

\* remove_block, called for any set of cached blocks in any order, preserves
\* the invariant: every site that led to a removed block and belongs to a
\* remaining one is unlinked, and nothing else changes for those that remain.
LEMMA RemoveInv ==
  ASSUME NEW c, CacheInv(c), NEW D \in SUBSET Pc, \A p \in D : Present(c, p),
         NEW ord \in [Pc -> Nat]
  PROVE  LET d == RemoveBlocks(c, D, ord) IN
         /\ CacheInv(d)
         /\ d.table = [p \in Pc |-> IF p \in D THEN NoEntry ELSE c.table[p]]
         /\ d.capped = c.capped /\ d.cursor = c.cursor
         /\ d.image = c.image /\ d.fresh = c.fresh
         /\ \A s \in Site : c.rel[s] = 0 => d.rel[s] = 0
<1> DEFINE d == RemoveBlocks(c, D, ord)
<1>0. c \in CacheRec
  BY DEF CacheInv
<1>1. /\ d.cursor = c.cursor /\ d.capped = c.capped /\ d.meta = c.meta
      /\ d.image = c.image /\ d.fresh = c.fresh
      /\ d.table = [p \in Pc |-> IF p \in D THEN NoEntry ELSE c.table[p]]
      /\ d.links = ForgetSites(c, D)
      /\ d.dispatch = ClearSlots(c, D)
      /\ d.rel = [s \in Site |-> IF Unlinks(c, D, ord, s) THEN 0 ELSE c.rel[s]]
  BY DEF RemoveBlocks
<1>2. NoEntry \in Entry /\ EmptySlot \in DispatchSlot /\ 0 \in Unit
  BY SizeAssumption DEF NoEntry, Entry, EmptySlot, DispatchSlot, ThunkKind, Unit,
                        MissStub, Base
<1>3. d \in CacheRec
  <2>1. d.table \in [Pc -> Entry]
    BY <1>0, <1>1, <1>2 DEF CacheRec
  <2>2. d.links \in [Pc -> SUBSET Site]
    BY <1>0, <1>1 DEF CacheRec, ForgetSites
  <2>3. d.dispatch \in [Slot -> DispatchSlot]
    BY <1>0, <1>1, <1>2 DEF CacheRec, ClearSlots
  <2>4. d.rel \in [Site -> Unit]
    BY <1>0, <1>1, <1>2 DEF CacheRec
  <2> QED BY <1>0, <1>1, <2>1, <2>2, <2>3, <2>4 DEF CacheRec, RemoveBlocks
<1>4. \A p \in Pc : p \in D => d.table[p] = NoEntry
  BY <1>1
<1>5. \A p \in Pc : p \notin D => d.table[p] = c.table[p]
  BY <1>1
<1>6. \A p \in Pc : Present(d, p) <=> Present(c, p) /\ p \notin D
  BY <1>4, <1>5 DEF Present, NoEntry
<1>7. \A s \in Site : d.rel[s] = 0 \/ d.rel[s] = c.rel[s]
  BY <1>1
<1>8. \* Two cached blocks that own the same site are the same block.
      ASSUME NEW p \in Pc, NEW q \in Pc, NEW t \in Pc, NEW u \in Pc, NEW s \in Site,
             <<t, s>> \in c.table[p].out, <<u, s>> \in c.table[q].out
      PROVE  p = q /\ t = u
  <2>1. /\ Present(c, p) /\ Present(c, q)
        /\ s[1] = c.table[p].host /\ s[1] = c.table[q].host
    BY <1>8 DEF CacheInv, LinkInv
  <2>2. p = q
    BY <2>1 DEF CacheInv, TableInv
  <2> QED BY <1>8, <2>2 DEF CacheInv, LinkInv
<1>9. DispatchInv(d)
  <2> SUFFICES ASSUME NEW s \in Slot, d.dispatch[s] # EmptySlot
               PROVE  /\ d.dispatch[s].pc \in Pc /\ Index[d.dispatch[s].pc] = s
                      /\ Present(d, d.dispatch[s].pc)
                      /\ d.dispatch[s].host = d.table[d.dispatch[s].pc].host
                      /\ d.meta[s] = d.table[d.dispatch[s].pc].thunk
    BY DEF DispatchInv
  <2>1. d.dispatch[s] = c.dispatch[s] /\ c.dispatch[s].pc \notin D
    BY <1>1 DEF ClearSlots
  <2>2. /\ c.dispatch[s].pc \in Pc /\ Index[c.dispatch[s].pc] = s
        /\ Present(c, c.dispatch[s].pc)
        /\ c.dispatch[s].host = c.table[c.dispatch[s].pc].host
        /\ c.meta[s] = c.table[c.dispatch[s].pc].thunk
    BY <2>1 DEF CacheInv, DispatchInv
  <2> QED BY <1>1, <1>5, <1>6, <2>1, <2>2
<1>10. \A p, t \in Pc, s \in Site : <<t, s>> \in d.table[p].out
         <=> <<t, s>> \in c.table[p].out /\ p \notin D
  BY <1>4, <1>5 DEF NoEntry
<1>11. ASSUME NEW t \in Pc, NEW s \in Site
       PROVE  (s \in d.links[t]) <=> (\E p \in Pc : <<t, s>> \in d.table[p].out)
  <2>1. (s \in c.links[t]) <=> (\E p \in Pc : <<t, s>> \in c.table[p].out)
    BY DEF CacheInv, LinkInv
  <2>2. s \in d.links[t] <=> s \in c.links[t] /\ \A p \in D : <<t, s>> \notin c.table[p].out
    BY <1>1 DEF ForgetSites
  <2> QED BY <1>8, <1>10, <2>1, <2>2
<1>12. ASSUME NEW p \in Pc, NEW t \in Pc, NEW s \in Site, <<t, s>> \in d.table[p].out
       PROVE  Present(d, p) /\ s[1] = d.table[p].host /\ d.rel[s] = d.table[t].host
  <2>1. <<t, s>> \in c.table[p].out /\ p \notin D
    BY <1>10, <1>12
  <2>2. Present(c, p) /\ s[1] = c.table[p].host /\ c.rel[s] = c.table[t].host
        /\ s \in c.links[t]
    BY <2>1 DEF CacheInv, LinkInv
  <2>3. CASE t \in D
    <3>1. \A q \in D : <<t, s>> \notin c.table[q].out
      BY <1>8, <2>1
    <3>2. Unlinks(c, D, ord, s)
      BY <2>2, <2>3, <3>1 DEF Unlinks
    <3> QED BY <1>1, <1>4, <1>5, <1>6, <2>1, <2>2, <2>3, <3>2 DEF NoEntry
  <2>4. CASE t \notin D
    <3>1. ASSUME NEW q \in D, s \in c.links[q] PROVE FALSE
      <4>1. PICK r \in Pc : <<q, s>> \in c.table[r].out
        BY <3>1 DEF CacheInv, LinkInv
      <4> QED BY <1>8, <2>1, <2>4, <4>1
    <3>2. ~Unlinks(c, D, ord, s)
      BY <3>1 DEF Unlinks
    <3> QED BY <1>1, <1>5, <1>6, <2>1, <2>2, <2>4, <3>2
  <2> QED BY <2>3, <2>4
<1>13. LinkInv(d)
  <2>1. \A p, t, u \in Pc, s \in Site :
          <<t, s>> \in d.table[p].out /\ <<u, s>> \in d.table[p].out => t = u
    BY <1>8, <1>10
  <2> QED BY <1>11, <1>12, <2>1 DEF LinkInv
<1>14. TableInv(d)
  <2> SUFFICES ASSUME NEW p \in Pc, Present(d, p)
               PROVE  LET g == d.table[p].host IN
                 /\ StubsEnd <= g /\ d.image[g].size > 0
                 /\ g + d.image[g].size <= d.cursor
                 /\ g \in d.fresh
                 /\ d.table[p].ranges = Normalise(d.image[g].src)
                 /\ \A q \in Pc : d.table[q].host = g => q = p
                 /\ \A k \in Chain : d.rel[<<g, k>>] # 0 =>
                      \E t \in Pc : <<t, <<g, k>>>> \in d.table[p].out
    BY DEF TableInv
  <2> DEFINE g == c.table[p].host
  <2>1. Present(c, p) /\ p \notin D /\ d.table[p] = c.table[p] /\ g # 0 /\ g \in Unit
    BY <1>0, <1>5, <1>6 DEF Present, CacheRec, Entry
  <2>2. /\ StubsEnd <= g /\ c.image[g].size > 0 /\ g + c.image[g].size <= c.cursor
        /\ g \in c.fresh /\ c.table[p].ranges = Normalise(c.image[g].src)
        /\ \A q \in Pc : c.table[q].host = g => q = p
        /\ \A k \in Chain : c.rel[<<g, k>>] # 0 =>
             \E t \in Pc : <<t, <<g, k>>>> \in c.table[p].out
    BY <2>1 DEF CacheInv, TableInv
  <2>3. \A q \in Pc : d.table[q].host = g => q = p
    BY <1>4, <1>5, <2>1, <2>2 DEF NoEntry
  <2>4. \A k \in Chain : d.rel[<<g, k>>] # 0 => c.rel[<<g, k>>] # 0
    BY <1>7, <2>1 DEF Site
  <2> QED BY <1>1, <2>1, <2>2, <2>3, <2>4
<1>15. CappedInv(d)
  <2> SUFFICES ASSUME NEW e \in Pc \X Cap, d.capped[e].host # 0
               PROVE  LET g == d.capped[e].host IN
                 /\ StubsEnd <= g /\ d.image[g].size > 0
                 /\ g + d.image[g].size <= d.cursor
                 /\ g \in d.fresh
                 /\ d.capped[e].ranges = Normalise(d.image[g].src)
                 /\ \A q \in Pc : d.table[q].host # g
                 /\ \A k \in Chain : d.rel[<<g, k>>] = 0
    BY DEF CappedInv
  <2> DEFINE g == c.capped[e].host
  <2>1. d.capped[e] = c.capped[e] /\ g # 0 /\ g \in Unit
    BY <1>0, <1>1 DEF CacheRec, CappedEntry
  <2>2. /\ StubsEnd <= g /\ c.image[g].size > 0 /\ g + c.image[g].size <= c.cursor
        /\ g \in c.fresh /\ c.capped[e].ranges = Normalise(c.image[g].src)
        /\ \A q \in Pc : c.table[q].host # g
        /\ \A k \in Chain : c.rel[<<g, k>>] = 0
    BY <2>1 DEF CacheInv, CappedInv
  <2>3. \A q \in Pc : d.table[q].host # g
    BY <1>4, <1>5, <2>1, <2>2 DEF NoEntry
  <2>4. \A k \in Chain : d.rel[<<g, k>>] = 0
    BY <1>7, <2>1, <2>2 DEF Site
  <2> QED BY <1>1, <2>1, <2>2, <2>3, <2>4
<1>16. CacheInv(d)
  <2>1. StubsEnd <= d.cursor /\ \A g \in Unit : NoWrap(d.image[g].src)
    BY <1>1 DEF CacheInv
  <2> QED BY <1>3, <1>9, <1>13, <1>14, <1>15, <2>1 DEF CacheInv
<1> HIDE DEF d
<1>17. QED
  BY <1>1, <1>7, <1>16 DEF d

\* The owner of the unit h is nobody: what append_raw establishes for the block
\* it wrote and install_block relies on when it publishes it.
Unowned(c, h, b) ==
  /\ h \in Unit /\ StubsEnd <= h /\ h + b.size <= c.cursor
  /\ h \in c.fresh /\ c.image[h] = [src |-> b.src, size |-> b.size]
  /\ \A p \in Pc : c.table[p].host # h
  /\ \A e \in Pc \X Cap : c.capped[e].host # h
  /\ \A k \in Chain : c.rel[<<h, k>>] = 0

\* Publishing a block at a PC that has none preserves the invariant: its sites
\* lead to the cached targets, and every registered site for its PC leads to
\* it.
LEMMA PublishInv ==
  ASSUME NEW c, CacheInv(c), NEW p \in Pc, ~Present(c, p),
         NEW b \in BlockRec, NEW h, Unowned(c, h, b)
  PROVE  CacheInv(Publish(c, p, h, b))
<1> DEFINE d == Publish(c, p, h, b)
<1>0. c \in CacheRec /\ h \in Unit /\ h # 0 /\ 0 \in Unit
  BY SizeAssumption DEF CacheInv, Unowned, Unit, StubsEnd, MissStub, Base
<1>1. /\ d.cursor = c.cursor /\ d.capped = c.capped
      /\ d.image = c.image /\ d.fresh = c.fresh
      /\ d.table = [c.table EXCEPT ![p] = NewEntry(h, b)]
      /\ d.links = AddSites(c, h, b)
      /\ d.dispatch = FillSlot(c, p, h)
      /\ d.meta = FillMeta(c, p, b.thunk)
      /\ d.rel = Relink(c, p, h, b)
  BY DEF Publish
<1>1a. b.targets \in [Chain -> Pc \cup {EMPTY_PC}] /\ b.size \in Nat \ {0}
       /\ b.src \in SUBSET GuestRange /\ b.thunk \in ThunkKind
  BY DEF BlockRec
<1>2. NewEntry(h, b) \in Entry
  <2>1. Normalise(b.src) \in SUBSET GuestRange
    BY <1>1a, AddrAssumption DEF Normalise, GuestRange, Addr
  <2> QED BY <1>0, <1>1a, <2>1 DEF NewEntry, Entry
<1>3. EMPTY_PC \notin Pc
  BY AddrAssumption DEF EMPTY_PC
<1>4. Index[p] \in Slot
  BY SlotAssumption
<1>5. d \in CacheRec
  <2>1. d.table \in [Pc -> Entry]
    BY <1>0, <1>1, <1>2 DEF CacheRec
  <2>2. d.links \in [Pc -> SUBSET Site]
    BY <1>0, <1>1 DEF CacheRec, AddSites
  <2>3. d.dispatch \in [Slot -> DispatchSlot]
    BY <1>0, <1>1, <1>4 DEF CacheRec, FillSlot, DispatchSlot
  <2>4. d.meta \in [Slot -> ThunkKind]
    BY <1>0, <1>1, <1>1a, <1>4 DEF CacheRec, FillMeta
  <2>5. d.rel \in [Site -> Unit]
    <3> SUFFICES ASSUME NEW s \in Site PROVE d.rel[s] \in Unit
      BY <1>1 DEF Relink
    <3>1. c.rel[s] \in Unit
      BY <1>0 DEF CacheRec
    <3>2. s[2] \in Chain
      BY DEF Site
    <3>3. b.targets[s[2]] # EMPTY_PC => c.table[b.targets[s[2]]].host \in Unit
      BY <1>0, <1>1a, <3>2 DEF CacheRec, Entry
    <3> QED BY <1>0, <1>1, <3>1, <3>3 DEF Relink
  <2> QED BY <1>0, <1>1, <2>1, <2>2, <2>3, <2>4, <2>5 DEF CacheRec, Publish
<1>6. d.table[p] = NewEntry(h, b) /\ \A q \in Pc : q # p => d.table[q] = c.table[q]
  BY <1>0, <1>1 DEF CacheRec
<1>7. d.table[p].host = h /\ Present(d, p)
  BY <1>0, <1>6 DEF NewEntry, Present
<1>8. \A q \in Pc : q # p => (Present(d, q) <=> Present(c, q))
  BY <1>6 DEF Present
<1>9. \* A registered site never lies in the new block.
      ASSUME NEW q \in Pc, NEW t \in Pc, NEW s \in Site, <<t, s>> \in c.table[q].out
      PROVE  /\ Present(c, q) /\ s[1] = c.table[q].host /\ s[1] # h /\ q # p
             /\ c.rel[s] = c.table[t].host
             /\ s \in c.links[t]
  <2>1. /\ Present(c, q) /\ s[1] = c.table[q].host
        /\ c.rel[s] = c.table[t].host /\ s \in c.links[t]
    BY <1>9 DEF CacheInv, LinkInv
  <2> QED BY <2>1 DEF Unowned
<1>10. \A t \in Pc, s \in Site : s \in c.links[t] => s[1] # h
  <2>1. \A t \in Pc, s \in Site :
          s \in c.links[t] => \E q \in Pc : <<t, s>> \in c.table[q].out
    BY DEF CacheInv, LinkInv
  <2> SUFFICES ASSUME NEW t \in Pc, NEW s \in Site, s \in c.links[t] PROVE s[1] # h
    OBVIOUS
  <2>2. PICK q \in Pc : <<t, s>> \in c.table[q].out
    BY <2>1
  <2> QED BY <1>9, <2>2
<1>11. \A t \in Pc, s \in Site :
         <<t, s>> \in d.table[p].out <=> s[1] = h /\ b.targets[s[2]] = t
  BY <1>6 DEF NewEntry
<1>12. \A t \in Pc, s \in Site :
         s \in d.links[t] <=> s \in c.links[t] \/ (s[1] = h /\ b.targets[s[2]] = t)
  BY <1>1 DEF AddSites
<1>13. \A s \in Site : d.rel[s] = IF s \in d.links[p] THEN h
                                  ELSE IF s[1] = h /\ b.targets[s[2]] # EMPTY_PC
                                       THEN c.table[b.targets[s[2]]].host
                                       ELSE c.rel[s]
  BY <1>1 DEF Relink
<1>14. DispatchInv(d)
  <2> SUFFICES ASSUME NEW s \in Slot, d.dispatch[s] # EmptySlot
               PROVE  /\ d.dispatch[s].pc \in Pc /\ Index[d.dispatch[s].pc] = s
                      /\ Present(d, d.dispatch[s].pc)
                      /\ d.dispatch[s].host = d.table[d.dispatch[s].pc].host
                      /\ d.meta[s] = d.table[d.dispatch[s].pc].thunk
    BY DEF DispatchInv
  <2>0. c.dispatch \in [Slot -> DispatchSlot] /\ c.meta \in [Slot -> ThunkKind]
    BY <1>0 DEF CacheRec
  <2>1. CASE s = Index[p]
    <3>1. d.dispatch[s] = [pc |-> p, host |-> h] /\ d.meta[s] = b.thunk
      BY <1>1, <1>4, <2>0, <2>1 DEF FillSlot, FillMeta
    <3> QED BY <1>6, <1>7, <2>1, <3>1 DEF NewEntry
  <2>2. CASE s # Index[p]
    <3>1. d.dispatch[s] = c.dispatch[s] /\ d.meta[s] = c.meta[s]
      BY <1>1, <1>4, <2>0, <2>2 DEF FillSlot, FillMeta
    <3>2. /\ c.dispatch[s].pc \in Pc /\ Index[c.dispatch[s].pc] = s
          /\ Present(c, c.dispatch[s].pc)
          /\ c.dispatch[s].host = c.table[c.dispatch[s].pc].host
          /\ c.meta[s] = c.table[c.dispatch[s].pc].thunk
      BY <3>1 DEF CacheInv, DispatchInv
    <3>3. c.dispatch[s].pc # p
      BY <2>2, <3>2
    <3> QED BY <1>6, <1>8, <3>1, <3>2, <3>3
  <2> QED BY <2>1, <2>2
<1>15. ASSUME NEW t \in Pc, NEW s \in Site
       PROVE  (s \in d.links[t]) <=> (\E q \in Pc : <<t, s>> \in d.table[q].out)
  <2>1. (s \in c.links[t]) <=> (\E q \in Pc : <<t, s>> \in c.table[q].out)
    BY DEF CacheInv, LinkInv
  <2> QED BY <1>6, <1>9, <1>11, <1>12, <2>1
<1>16. ASSUME NEW q \in Pc, NEW t \in Pc, NEW s \in Site, <<t, s>> \in d.table[q].out
       PROVE  Present(d, q) /\ s[1] = d.table[q].host /\ d.rel[s] = d.table[t].host
  <2>1. CASE q = p
    <3>1. s[1] = h /\ b.targets[s[2]] = t /\ s \notin c.links[p]
      BY <1>10, <1>11, <1>16, <2>1
    <3>2. d.rel[s] = d.table[t].host
      BY <1>3, <1>6, <1>7, <1>12, <1>13, <3>1
    <3> QED BY <1>7, <2>1, <3>1, <3>2
  <2>2. CASE q # p
    <3>1. <<t, s>> \in c.table[q].out
      BY <1>6, <1>16, <2>2
    <3>2. /\ Present(c, q) /\ s[1] = c.table[q].host /\ s[1] # h
          /\ c.rel[s] = c.table[t].host /\ s \in c.links[t]
      BY <1>9, <3>1
    <3>3. t # p => s \notin c.links[p]
      <4> SUFFICES ASSUME t # p, s \in c.links[p] PROVE FALSE
        OBVIOUS
      <4>1. PICK r \in Pc : <<p, s>> \in c.table[r].out
        BY DEF CacheInv, LinkInv
      <4>2. Present(c, r) /\ c.table[r].host = c.table[q].host
        BY <1>9, <3>2, <4>1
      <4>3. r = q
        BY <3>2, <4>2 DEF CacheInv, TableInv
      <4> QED BY <3>1, <4>1, <4>3 DEF CacheInv, LinkInv
    <3>4. d.rel[s] = d.table[t].host
      BY <1>6, <1>7, <1>12, <1>13, <3>2, <3>3
    <3> QED BY <1>6, <1>8, <2>2, <3>2, <3>4
  <2> QED BY <2>1, <2>2
<1>17. LinkInv(d)
  <2>1. \A q, t, u \in Pc, s \in Site :
          <<t, s>> \in d.table[q].out /\ <<u, s>> \in d.table[q].out => t = u
    BY <1>6, <1>11 DEF CacheInv, LinkInv
  <2> QED BY <1>15, <1>16, <2>1 DEF LinkInv
<1>18. TableInv(d)
  <2> SUFFICES ASSUME NEW q \in Pc, Present(d, q)
               PROVE  LET g == d.table[q].host IN
                 /\ StubsEnd <= g /\ d.image[g].size > 0
                 /\ g + d.image[g].size <= d.cursor
                 /\ g \in d.fresh
                 /\ d.table[q].ranges = Normalise(d.image[g].src)
                 /\ \A r \in Pc : d.table[r].host = g => r = q
                 /\ \A k \in Chain : d.rel[<<g, k>>] # 0 =>
                      \E t \in Pc : <<t, <<g, k>>>> \in d.table[q].out
    BY DEF TableInv
  <2>1. CASE q = p
    <3>1. /\ StubsEnd <= h /\ d.image[h].size > 0 /\ h + d.image[h].size <= d.cursor
          /\ h \in d.fresh /\ d.table[p].ranges = Normalise(d.image[h].src)
      BY <1>1, <1>1a, <1>6 DEF Unowned, NewEntry
    <3>2. \A r \in Pc : d.table[r].host = h => r = p
      BY <1>6 DEF Unowned
    <3>3. ASSUME NEW k \in Chain, d.rel[<<h, k>>] # 0
          PROVE  \E t \in Pc : <<t, <<h, k>>>> \in d.table[p].out
      <4> DEFINE s == <<h, k>>
      <4>1. s \in Site /\ s[1] = h /\ s[2] = k /\ c.rel[s] = 0
        BY <1>0 DEF Site, Unowned
      <4>2. s \notin c.links[p]
        BY <1>10, <4>1
      <4>3. b.targets[k] \in Pc
        BY <1>1a, <1>12, <1>13, <3>3, <4>1, <4>2
      <4> QED BY <1>11, <4>1, <4>3
    <3> QED BY <1>7, <2>1, <3>1, <3>2, <3>3
  <2>2. CASE q # p
    <3> DEFINE g == c.table[q].host
    <3>1. d.table[q] = c.table[q] /\ Present(c, q) /\ g \in Unit /\ g # h
      BY <1>0, <1>6, <1>8, <2>2 DEF CacheRec, Entry, Unowned
    <3>2. /\ StubsEnd <= g /\ c.image[g].size > 0 /\ g + c.image[g].size <= c.cursor
          /\ g \in c.fresh /\ c.table[q].ranges = Normalise(c.image[g].src)
          /\ \A r \in Pc : c.table[r].host = g => r = q
          /\ \A k \in Chain : c.rel[<<g, k>>] # 0 =>
               \E t \in Pc : <<t, <<g, k>>>> \in c.table[q].out
      BY <3>1 DEF CacheInv, TableInv
    <3>3. \A r \in Pc : d.table[r].host = g => r = q
      BY <1>6, <1>7, <3>1, <3>2
    <3>4. ASSUME NEW k \in Chain, d.rel[<<g, k>>] # 0
          PROVE  \E t \in Pc : <<t, <<g, k>>>> \in d.table[q].out
      <4> DEFINE s == <<g, k>>
      <4>1. s \in Site /\ s[1] = g
        BY <3>1 DEF Site
      <4>2. CASE s \in c.links[p]
        <5>1. PICK r \in Pc : <<p, s>> \in c.table[r].out
          BY <4>1, <4>2 DEF CacheInv, LinkInv
        <5>2. r = q
          BY <1>9, <3>2, <4>1, <5>1
        <5> QED BY <3>1, <5>1, <5>2
      <4>3. CASE s \notin c.links[p]
        <5>1. d.rel[s] = c.rel[s]
          BY <1>12, <1>13, <3>1, <4>1, <4>3
        <5> QED BY <3>1, <3>2, <3>4, <5>1
      <4> QED BY <4>2, <4>3
    <3> QED BY <1>1, <3>1, <3>2, <3>3, <3>4
  <2> QED BY <2>1, <2>2
<1>19. CappedInv(d)
  <2> SUFFICES ASSUME NEW e \in Pc \X Cap, d.capped[e].host # 0
               PROVE  LET g == d.capped[e].host IN
                 /\ StubsEnd <= g /\ d.image[g].size > 0
                 /\ g + d.image[g].size <= d.cursor
                 /\ g \in d.fresh
                 /\ d.capped[e].ranges = Normalise(d.image[g].src)
                 /\ \A q \in Pc : d.table[q].host # g
                 /\ \A k \in Chain : d.rel[<<g, k>>] = 0
    BY DEF CappedInv
  <2> DEFINE g == c.capped[e].host
  <2>1. d.capped[e] = c.capped[e] /\ g # 0 /\ g \in Unit /\ g # h
    BY <1>0, <1>1 DEF CacheRec, CappedEntry, Unowned
  <2>2. /\ StubsEnd <= g /\ c.image[g].size > 0 /\ g + c.image[g].size <= c.cursor
        /\ g \in c.fresh /\ c.capped[e].ranges = Normalise(c.image[g].src)
        /\ \A q \in Pc : c.table[q].host # g
        /\ \A k \in Chain : c.rel[<<g, k>>] = 0
    BY <2>1 DEF CacheInv, CappedInv
  <2>3. \A q \in Pc : d.table[q].host # g
    BY <1>6, <1>7, <2>1, <2>2
  <2>4. \A k \in Chain : d.rel[<<g, k>>] = 0
    <3> SUFFICES ASSUME NEW k \in Chain PROVE d.rel[<<g, k>>] = 0
      OBVIOUS
    <3>1. <<g, k>> \in Site /\ <<g, k>>[1] = g
      BY <2>1 DEF Site
    <3>2. <<g, k>> \notin c.links[p]
      <4> SUFFICES ASSUME <<g, k>> \in c.links[p] PROVE FALSE
        OBVIOUS
      <4>1. PICK r \in Pc : <<p, <<g, k>>>> \in c.table[r].out
        BY <3>1 DEF CacheInv, LinkInv
      <4> QED BY <1>9, <2>2, <3>1, <4>1
    <3> QED BY <1>12, <1>13, <2>1, <2>2, <3>1, <3>2
  <2> QED BY <1>1, <2>1, <2>2, <2>3, <2>4
<1>20. StubsEnd <= d.cursor /\ \A g \in Unit : NoWrap(d.image[g].src)
  BY <1>1 DEF CacheInv
<1> HIDE DEF d
<1>21. QED
  BY <1>5, <1>14, <1>17, <1>18, <1>19, <1>20 DEF CacheInv, d

\* Recording a block under a (pc, cap) key, replacing whatever was there,
\* preserves the invariant.
LEMMA AddCappedInv ==
  ASSUME NEW c, CacheInv(c), NEW p \in Pc, NEW cap \in Cap,
         NEW b \in BlockRec, NEW h, Unowned(c, h, b)
  PROVE  CacheInv(AddCapped(c, p, cap, h, b))
<1> DEFINE d == AddCapped(c, p, cap, h, b)
           new == [host |-> h, ranges |-> Normalise(b.src)]
<1>0. c \in CacheRec /\ h \in Unit /\ b.src \in SUBSET GuestRange /\ b.size \in Nat \ {0}
  BY DEF CacheInv, Unowned, BlockRec
<1>1. /\ d.cursor = c.cursor /\ d.table = c.table /\ d.links = c.links
      /\ d.dispatch = c.dispatch /\ d.meta = c.meta /\ d.rel = c.rel
      /\ d.image = c.image /\ d.fresh = c.fresh
      /\ d.capped = [c.capped EXCEPT ![<<p, cap>>] = new]
  BY DEF AddCapped
<1>2. new \in CappedEntry
  <2>1. Normalise(b.src) \in SUBSET GuestRange
    BY <1>0, AddrAssumption DEF Normalise, GuestRange, Addr
  <2> QED BY <1>0, <2>1 DEF CappedEntry
<1>3. d \in CacheRec
  <2>1. d.capped \in [Pc \X Cap -> CappedEntry]
    BY <1>0, <1>1, <1>2 DEF CacheRec
  <2> QED BY <1>0, <1>1, <2>1 DEF CacheRec, AddCapped
<1>4. DispatchInv(d) /\ LinkInv(d) /\ TableInv(d)
  <2> HIDE DEF d
  <2>0. DispatchInv(c) /\ LinkInv(c) /\ TableInv(c)
    BY DEF CacheInv
  <2>1. DispatchInv(d)
    BY <1>1, <2>0 DEF DispatchInv, Present
  <2>2. LinkInv(d)
    BY <1>1, <2>0 DEF LinkInv, Present
  <2>3. TableInv(d)
    <3> SUFFICES ASSUME NEW q \in Pc, Present(d, q)
                 PROVE  LET g == d.table[q].host IN
                   /\ StubsEnd <= g /\ d.image[g].size > 0
                   /\ g + d.image[g].size <= d.cursor
                   /\ g \in d.fresh
                   /\ d.table[q].ranges = Normalise(d.image[g].src)
                   /\ \A r \in Pc : d.table[r].host = g => r = q
                   /\ \A k \in Chain : d.rel[<<g, k>>] # 0 =>
                        \E t \in Pc : <<t, <<g, k>>>> \in d.table[q].out
      BY DEF TableInv
    <3>1. Present(c, q)
      BY <1>1 DEF Present
    <3> QED BY <1>1, <2>0, <3>1 DEF TableInv
  <2> QED BY <2>1, <2>2, <2>3
<1>5. CappedInv(d)
  <2> SUFFICES ASSUME NEW e \in Pc \X Cap, d.capped[e].host # 0
               PROVE  LET g == d.capped[e].host IN
                 /\ StubsEnd <= g /\ d.image[g].size > 0
                 /\ g + d.image[g].size <= d.cursor
                 /\ g \in d.fresh
                 /\ d.capped[e].ranges = Normalise(d.image[g].src)
                 /\ \A q \in Pc : d.table[q].host # g
                 /\ \A k \in Chain : d.rel[<<g, k>>] = 0
    BY DEF CappedInv
  <2>1. CASE e = <<p, cap>>
    <3>1. d.capped[e] = new
      BY <1>0, <1>1, <2>1 DEF CacheRec
    <3> QED BY <1>0, <1>1, <3>1 DEF Unowned
  <2>2. CASE e # <<p, cap>>
    <3>1. d.capped[e] = c.capped[e]
      BY <1>0, <1>1, <2>2 DEF CacheRec
    <3> QED BY <1>1, <3>1 DEF CacheInv, CappedInv
  <2> QED BY <2>1, <2>2
<1>6. StubsEnd <= d.cursor /\ \A g \in Unit : NoWrap(d.image[g].src)
  BY <1>1 DEF CacheInv
<1> HIDE DEF d
<1> QED BY <1>3, <1>4, <1>5, <1>6 DEF CacheInv, d

\* The interval test of invalidate_range finds every block one of whose guest
\* bytes was reported, the bytes around the top of the address space included.
LEMMA DoomedCoversModified ==
  ASSUME NEW src \in SUBSET GuestRange, NoWrap(src), NEW start \in Addr, NEW len \in Addr,
         Modified(src, start, len)
  PROVE  Doomed(Normalise(src), start, len)
<1> SUFFICES ASSUME ~DropsAll(start, len)
             PROVE  Overlaps(Normalise(src), start, start + len)
  BY DEF Doomed
<1>1. PICK r \in src : \E x \in Addr : ReadFrom(r, x) /\ Reported(start, len, x)
  BY DEF Modified
<1>2. PICK x \in Addr : ReadFrom(r, x) /\ Reported(start, len, x)
  BY <1>1
<1>3. r[1] \in Addr /\ r[2] \in Addr /\ (r[1] < r[2] \/ r[2] = 0)
  BY DEF GuestRange, NoWrap
<1>4. start + len <= MaxAddr /\ start <= x /\ x < start + len
  BY <1>2, AddrAssumption DEF Reported, DropsAll, Addr
<1> DEFINE e == IF r[2] <= r[1] THEN MaxAddr ELSE r[2]
<1>5. r[1] < start + len /\ e > start
  BY <1>2, <1>3, <1>4, AddrAssumption DEF ReadFrom, Addr
<1>6. <<r[1], e>> \in Normalise(src)
  BY DEF Normalise
<1> QED
  <2> DEFINE q == <<r[1], e>>
  <2>1. q \in Normalise(src) /\ q[1] < start + len /\ q[2] > start
    BY <1>5, <1>6
  <2> HIDE DEF q
  <2> QED BY <2>1 DEF Overlaps

\* invalidate_range preserves the invariant; in particular what stays
\* reachable was not translated from a reported byte.
LEMMA InvalidateInv ==
  ASSUME NEW c, CacheInv(c), NEW start \in Addr, NEW len \in Addr,
         NEW ord \in [Pc -> Nat]
  PROVE  CacheInv(InvalidateRange(c, start, len, ord))
<1> DEFINE D == {p \in Pc : Present(c, p) /\ Doomed(c.table[p].ranges, start, len)}
           m == RemoveBlocks(c, D, ord)
           d == DropReported(m, start, len)
<1>1. /\ CacheInv(m)
      /\ m.table = [p \in Pc |-> IF p \in D THEN NoEntry ELSE c.table[p]]
  <2> HIDE DEF D
  <2>1. D \in SUBSET Pc /\ \A p \in D : Present(c, p)
    BY DEF D
  <2> QED BY <2>1, RemoveInv
<1>2. \A p \in Pc : Present(m, p) => ~Doomed(m.table[p].ranges, start, len)
  BY <1>1 DEF Present, NoEntry
<1> HIDE DEF m
<1>3. /\ d.cursor = m.cursor /\ d.table = m.table /\ d.links = m.links
      /\ d.dispatch = m.dispatch /\ d.meta = m.meta /\ d.rel = m.rel
      /\ d.image = m.image
      /\ d.capped = [k \in Pc \X Cap |-> IF Doomed(m.capped[k].ranges, start, len)
                                         THEN NoCapped ELSE m.capped[k]]
      /\ d.fresh = {h \in m.fresh : ~Modified(m.image[h].src, start, len)}
  BY DEF DropReported
<1>4. m \in CacheRec /\ NoCapped \in CappedEntry
  BY <1>1, SizeAssumption DEF CacheInv, NoCapped, CappedEntry, Unit
<1>5. d \in CacheRec
  <2>1. d.capped \in [Pc \X Cap -> CappedEntry]
    BY <1>3, <1>4 DEF CacheRec
  <2>2. d.fresh \in SUBSET Unit
    BY <1>3, <1>4 DEF CacheRec
  <2> QED BY <1>3, <1>4, <2>1, <2>2 DEF CacheRec, DropReported
<1>6. \A h \in Unit : m.image[h].src \in SUBSET GuestRange /\ NoWrap(m.image[h].src)
  BY <1>1, <1>4 DEF CacheInv, CacheRec
<1>7. DispatchInv(d) /\ LinkInv(d)
  <2> HIDE DEF d
  <2>0. \A p : Present(d, p) <=> Present(m, p)
    BY <1>3 DEF Present
  <2>1. DispatchInv(d)
    <3>1. DispatchInv(m)
      BY <1>1 DEF CacheInv
    <3> QED BY <1>3, <2>0, <3>1 DEF DispatchInv
  <2>2. LinkInv(d)
    BY <1>1, <1>3 DEF CacheInv, LinkInv, Present
  <2> QED BY <2>1, <2>2
<1>8. TableInv(d)
  <2> SUFFICES ASSUME NEW p \in Pc, Present(d, p)
               PROVE  LET g == d.table[p].host IN
                 /\ StubsEnd <= g /\ d.image[g].size > 0
                 /\ g + d.image[g].size <= d.cursor
                 /\ g \in d.fresh
                 /\ d.table[p].ranges = Normalise(d.image[g].src)
                 /\ \A q \in Pc : d.table[q].host = g => q = p
                 /\ \A k \in Chain : d.rel[<<g, k>>] # 0 =>
                      \E t \in Pc : <<t, <<g, k>>>> \in d.table[p].out
    BY DEF TableInv
  <2> DEFINE g == m.table[p].host
  <2>1. Present(m, p) /\ g \in Unit /\ d.table[p].host = g
    BY <1>3, <1>4 DEF Present, CacheRec, Entry
  <2>2. /\ StubsEnd <= g /\ m.image[g].size > 0 /\ g + m.image[g].size <= m.cursor
        /\ g \in m.fresh /\ m.table[p].ranges = Normalise(m.image[g].src)
        /\ \A q \in Pc : m.table[q].host = g => q = p
        /\ \A k \in Chain : m.rel[<<g, k>>] # 0 =>
             \E t \in Pc : <<t, <<g, k>>>> \in m.table[p].out
    BY <1>1, <2>1 DEF CacheInv, TableInv
  <2>3. ~Modified(m.image[g].src, start, len)
    BY <1>2, <1>6, <2>1, <2>2, DoomedCoversModified
  <2> QED BY <1>3, <2>1, <2>2, <2>3
<1>9. CappedInv(d)
  <2> SUFFICES ASSUME NEW e \in Pc \X Cap, d.capped[e].host # 0
               PROVE  LET g == d.capped[e].host IN
                 /\ StubsEnd <= g /\ d.image[g].size > 0
                 /\ g + d.image[g].size <= d.cursor
                 /\ g \in d.fresh
                 /\ d.capped[e].ranges = Normalise(d.image[g].src)
                 /\ \A q \in Pc : d.table[q].host # g
                 /\ \A k \in Chain : d.rel[<<g, k>>] = 0
    BY DEF CappedInv
  <2> DEFINE g == m.capped[e].host
  <2>1. /\ d.capped[e] = m.capped[e] /\ ~Doomed(m.capped[e].ranges, start, len)
        /\ g # 0 /\ g \in Unit
    BY <1>3, <1>4 DEF NoCapped, CacheRec, CappedEntry
  <2>2. /\ StubsEnd <= g /\ m.image[g].size > 0 /\ g + m.image[g].size <= m.cursor
        /\ g \in m.fresh /\ m.capped[e].ranges = Normalise(m.image[g].src)
        /\ \A q \in Pc : m.table[q].host # g
        /\ \A k \in Chain : m.rel[<<g, k>>] = 0
    BY <1>1, <2>1 DEF CacheInv, CappedInv
  <2>3. ~Modified(m.image[g].src, start, len)
    BY <1>6, <2>1, <2>2, DoomedCoversModified
  <2> QED BY <1>3, <2>1, <2>2, <2>3
<1>10. StubsEnd <= d.cursor /\ \A g \in Unit : NoWrap(d.image[g].src)
  BY <1>1, <1>3 DEF CacheInv
<1>11. InvalidateRange(c, start, len, ord) = d
  BY DEF InvalidateRange, m
<1> HIDE DEF d
<1> QED BY <1>5, <1>7, <1>8, <1>9, <1>10, <1>11 DEF CacheInv

\* reset drops every block, so the invariant holds of what is left.
LEMMA ResetInv ==
  ASSUME NEW c, CacheInv(c)
  PROVE  CacheInv(Reset(c))
<1> DEFINE d == Reset(c)
<1>1. d \in CacheRec
  BY AddrAssumption, SizeAssumption
  DEF CacheInv, Reset, CacheRec, Entry, NoEntry, CappedEntry, NoCapped, DispatchSlot,
      EmptySlot, ThunkKind, Unit, MissStub, StubsEnd, Base
<1>2. DispatchInv(d) /\ LinkInv(d)
  BY DEF Reset, DispatchInv, LinkInv, NoEntry, Present
<1>3. TableInv(d) /\ CappedInv(d)
  BY DEF Reset, TableInv, CappedInv, NoEntry, NoCapped, Present
<1>4. StubsEnd <= d.cursor /\ \A h \in Unit : NoWrap(d.image[h].src)
  BY SizeAssumption DEF CacheInv, Reset, StubsEnd, MissStub, Base
<1> QED BY <1>1, <1>2, <1>3, <1>4 DEF CacheInv

\* Refilling a dispatch slot from the table preserves the invariant.
LEMMA LookupInv ==
  ASSUME NEW c, CacheInv(c), NEW p \in Pc, Present(c, p)
  PROVE  CacheInv(AfterLookup(c, p))
<1> DEFINE d == AfterLookup(c, p)
<1>0. c \in CacheRec /\ Index[p] \in Slot
  BY SlotAssumption DEF CacheInv
<1>1. /\ d.cursor = c.cursor /\ d.table = c.table /\ d.links = c.links
      /\ d.capped = c.capped /\ d.rel = c.rel
      /\ d.image = c.image /\ d.fresh = c.fresh
      /\ d.dispatch = [c.dispatch EXCEPT ![Index[p]] = [pc |-> p, host |-> c.table[p].host]]
      /\ d.meta = [c.meta EXCEPT ![Index[p]] = c.table[p].thunk]
  BY DEF AfterLookup, FillSlot, FillMeta
<1>2. d \in CacheRec
  <2>1. d.dispatch \in [Slot -> DispatchSlot]
    BY <1>0, <1>1 DEF CacheRec, DispatchSlot, Entry
  <2>2. d.meta \in [Slot -> ThunkKind]
    BY <1>0, <1>1 DEF CacheRec, Entry
  <2> QED BY <1>0, <1>1, <2>1, <2>2 DEF CacheRec, AfterLookup
<1>3. DispatchInv(d)
  <2> SUFFICES ASSUME NEW s \in Slot, d.dispatch[s] # EmptySlot
               PROVE  /\ d.dispatch[s].pc \in Pc /\ Index[d.dispatch[s].pc] = s
                      /\ Present(d, d.dispatch[s].pc)
                      /\ d.dispatch[s].host = d.table[d.dispatch[s].pc].host
                      /\ d.meta[s] = d.table[d.dispatch[s].pc].thunk
    BY DEF DispatchInv
  <2>0. c.dispatch \in [Slot -> DispatchSlot] /\ c.meta \in [Slot -> ThunkKind]
    BY <1>0 DEF CacheRec
  <2>1. CASE s = Index[p]
    BY <1>0, <1>1, <2>0, <2>1 DEF Present
  <2>2. CASE s # Index[p]
    <3>1. d.dispatch[s] = c.dispatch[s] /\ d.meta[s] = c.meta[s]
      BY <1>1, <2>0, <2>2
    <3> QED BY <1>1, <3>1 DEF CacheInv, DispatchInv, Present
  <2> QED BY <2>1, <2>2
<1>4. LinkInv(d) /\ TableInv(d) /\ CappedInv(d)
  <2> HIDE DEF d
  <2>1. LinkInv(d)
    BY <1>1 DEF CacheInv, LinkInv, Present
  <2>2. TableInv(d)
    BY <1>1 DEF CacheInv, TableInv, Present
  <2>3. CappedInv(d)
    BY <1>1 DEF CacheInv, CappedInv
  <2> QED BY <2>1, <2>2, <2>3
<1>5. StubsEnd <= d.cursor /\ \A h \in Unit : NoWrap(d.image[h].src)
  BY <1>1 DEF CacheInv
<1> HIDE DEF d
<1> QED BY <1>2, <1>3, <1>4, <1>5 DEF CacheInv, d

\* Both forms of install_block preserve the invariant for code that fits.
LEMMA InstallInv ==
  ASSUME NEW c, CacheInv(c), NEW p \in Pc, NEW b \in BlockRec, NoWrap(b.src),
         Fits(c, b.size)
  PROVE  /\ CacheInv(InstallCached(c, p, b))
         /\ \A cap \in Cap : CacheInv(InstallCapped(c, p, cap, b))
<1> DEFINE c1 == AppendRaw(c, b)
           D  == {q \in {p} : Present(c1, q)}
           c2 == RemoveBlocks(c1, D, [q \in Pc |-> 0])
<1>1. CacheInv(c1) /\ Unowned(c1, c.cursor, b)
  BY AppendInv DEF Unowned
<1>2. \A cap \in Cap : CacheInv(InstallCapped(c, p, cap, b))
  BY <1>1, AddCappedInv DEF InstallCapped
<1>3. D \in SUBSET Pc /\ (\A q \in D : Present(c1, q)) /\ [q \in Pc |-> 0] \in [Pc -> Nat]
  OBVIOUS
<1>4. /\ CacheInv(c2)
      /\ c2.table = [q \in Pc |-> IF q \in D THEN NoEntry ELSE c1.table[q]]
      /\ c2.capped = c1.capped /\ c2.cursor = c1.cursor
      /\ c2.image = c1.image /\ c2.fresh = c1.fresh
      /\ \A s \in Site : c1.rel[s] = 0 => c2.rel[s] = 0
  <2> HIDE DEF c1, D
  <2> QED BY <1>1, <1>3, RemoveInv
<1>5. ~Present(c2, p)
  <2> HIDE DEF c1, c2
  <2> QED BY <1>4 DEF Present, NoEntry
<1>6. Unowned(c2, c.cursor, b)
  <2> HIDE DEF c1, c2, D
  <2>1. c.cursor \in Unit /\ StubsEnd <= c.cursor /\ c.cursor # 0
    BY <1>1, SizeAssumption DEF Unowned, Unit, StubsEnd, MissStub, Base
  <2>2. \A q \in Pc : c2.table[q].host # c.cursor
    BY <1>1, <1>4, <2>1 DEF Unowned, NoEntry
  <2>3. \A k \in Chain : c2.rel[<<c.cursor, k>>] = 0
    BY <1>1, <1>4, <2>1 DEF Unowned, Site
  <2> QED BY <1>1, <1>4, <2>2, <2>3 DEF Unowned
<1>7. CacheInv(Publish(c2, p, c.cursor, b))
  <2> HIDE DEF c1, c2, D
  <2> QED BY <1>4, <1>5, <1>6, PublishInv
<1> QED BY <1>2, <1>7 DEF InstallCached
=============================================================================

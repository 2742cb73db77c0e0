--------------------------- MODULE CodeCacheProofs ---------------------------
(***************************************************************************)
(* Proofs about the code cache for every set of PCs, every dispatch-table  *)
(* geometry, every translator and every cache size.                        *)
(***************************************************************************)
EXTENDS CodeCache, CacheProofs

\* No block the translator or the embedder produces wraps past the top of the
\* address space to a non-zero address.
NoWrappedBlocks == \A p \in Pc : \A b \in Xlat[p] \cup Foreign[p] : NoWrap(b.src)

\* The invariant is inductive.
LEMMA InductiveStep ==
  ASSUME NoWrappedBlocks, Inductive, [Next]_vars
  PROVE  Inductive'
<1>0. CacheInv(cache)
  BY DEF Inductive
<1>1. ASSUME NEW p \in Pc, NEW b \in Xlat[p] \cup Foreign[p] PROVE b \in BlockRec /\ NoWrap(b.src)
  BY <1>1, XlatAssumption DEF NoWrappedBlocks
<1>2. ASSUME NEW p \in Pc, NEW b \in Xlat[p], Compile(p, b) PROVE CacheInv(cache')
  <2> DEFINE c == Room(cache, b.size)
  <2>1. CacheInv(c)
    BY <1>0, ResetInv DEF Room
  <2>2. cache' = IF Fits(c, b.size) THEN InstallCached(c, p, b) ELSE c
    BY <1>2 DEF Compile
  <2> HIDE DEF c
  <2> QED BY <1>1, <2>1, <2>2, InstallInv
<1>3. ASSUME NEW p \in Pc, NEW cap \in Cap, NEW b \in Xlat[p], CompileCapped(p, cap, b)
      PROVE  CacheInv(cache')
  <2> DEFINE c == Room(cache, b.size)
  <2>1. CacheInv(c)
    BY <1>0, ResetInv DEF Room
  <2>2. cache' = IF Fits(c, b.size) THEN InstallCapped(c, p, cap, b) ELSE c
    BY <1>3 DEF CompileCapped
  <2> HIDE DEF c
  <2> QED BY <1>1, <2>1, <2>2, InstallInv
<1>4. ASSUME NEW p \in Pc, Lookup(p) PROVE CacheInv(cache')
  BY <1>0, <1>4, LookupInv DEF Lookup
<1>5. ASSUME NEW p \in Pc, NEW b \in Foreign[p], Install(p, b) PROVE CacheInv(cache')
  BY <1>0, <1>1, <1>5, InstallInv DEF Install
<1>6. ASSUME NEW p \in Pc, NEW b \in Foreign[p], InstallTransient(p, b)
      PROVE  CacheInv(cache')
  BY <1>0, <1>1, <1>6, AppendInv DEF InstallTransient
<1>7. ASSUME NEW a \in InvalidateArgs, NEW ord \in Order, Invalidate(a[1], a[2], ord)
      PROVE  CacheInv(cache')
  <2>1. a[1] \in Addr /\ a[2] \in Addr /\ ord \in [Pc -> Nat]
    BY InvalidateAssumption
  <2> QED BY <1>0, <1>7, <2>1, InvalidateInv DEF Invalidate
<1>8. ASSUME UNCHANGED vars PROVE CacheInv(cache')
  <2>1. cache' = cache
    BY <1>8 DEF vars
  <2> QED BY <1>0, <2>1
<1>9. CacheInv(cache')
  <2>1. ASSUME Next PROVE CacheInv(cache')
    BY <1>2, <1>3, <1>4, <1>5, <1>6, <1>7, <2>1, Zenon DEF Next
  <2> QED BY <1>8, <2>1
<1> QED BY <1>9 DEF Inductive

\* Every state of the cache satisfies the inductive invariant.
THEOREM InductiveCorrect ==
  ASSUME NoWrappedBlocks PROVE Spec => []Inductive
<1>1. Init => Inductive
  BY NewCacheInv DEF Init, Inductive
<1>2. Inductive /\ [Next]_vars => Inductive'
  BY InductiveStep
<1> QED BY <1>1, <1>2, PTL DEF Spec

\* The cache stays well formed (type correctness of CodeCache's maps).
THEOREM TypeCorrect ==
  ASSUME NoWrappedBlocks PROVE Spec => []TypeOK
<1>1. Inductive => TypeOK
  BY DEF Inductive, CacheInv, TypeOK
<1> QED BY <1>1, InductiveCorrect, PTL

\* A dispatch slot always agrees with the table (lookup_dispatch_meta,
\* install_block, remove_block and reset keep them in step).
THEOREM DispatchCorrect ==
  ASSUME NoWrappedBlocks PROVE Spec => []DispatchCoherent
<1>1. Inductive => DispatchCoherent
  BY DEF Inductive, CacheInv, DispatchInv, DispatchCoherent
<1> QED BY <1>1, InductiveCorrect, PTL

\* Chain sites of cached blocks are linked exactly while their target is
\* cached (publish and unlink_incoming keep the host code in step).
THEOREM LinksCorrect ==
  ASSUME NoWrappedBlocks PROVE Spec => []LinkedExactly
<1>1. Inductive => LinkedExactly
  <2> SUFFICES ASSUME Inductive, NEW p \in Pc, NEW x \in cache.table[p].out
               PROVE  cache.rel[x[2]] = cache.table[x[1]].host
    BY DEF LinkedExactly
  <2>1. x \in Pc \X Site
    BY DEF Inductive, CacheInv, CacheRec, Entry
  <2>2. x = <<x[1], x[2]>> /\ x[1] \in Pc /\ x[2] \in Site
    BY <2>1
  <2> QED BY <2>2 DEF Inductive, CacheInv, LinkInv
<1> QED BY <1>1, InductiveCorrect, PTL

\* `links` registers exactly the chain sites of cached blocks: a removed or
\* replaced block leaves none behind (remove_block, reset).
THEOREM RegistryCorrect ==
  ASSUME NoWrappedBlocks PROVE Spec => []LinksRegistered
<1>1. Inductive => LinksRegistered
  BY DEF Inductive, CacheInv, LinkInv, LinksRegistered
<1> QED BY <1>1, InductiveCorrect, PTL

\* Whatever a dispatch slot leads to, other than the miss stub, is cached.
LEMMA SlotsInTable ==
  ASSUME Inductive PROVE SlotHosts \subseteq TableHosts
<1> SUFFICES ASSUME NEW s \in Slot, cache.dispatch[s].host # MissStub
             PROVE  cache.dispatch[s].host \in TableHosts
  BY DEF SlotHosts
<1>1. DispatchInv(cache)
  BY DEF Inductive, CacheInv
<1>2. /\ cache.dispatch[s].pc \in Pc /\ Present(cache, cache.dispatch[s].pc)
      /\ cache.dispatch[s].host = cache.table[cache.dispatch[s].pc].host
  BY <1>1 DEF DispatchInv, EmptySlot
<1> QED BY <1>2 DEF TableHosts

\* A capped block is never entered by a dispatch slot, a lookup or a chain
\* site, and none of its own sites is ever patched.
THEOREM CappedCorrect ==
  ASSUME NoWrappedBlocks PROVE Spec => []CappedIsolated
<1>1. Inductive => CappedIsolated
  <2> SUFFICES ASSUME Inductive, NEW h \in CappedHosts
               PROVE  /\ h \notin TableHosts \cup SlotHosts
                      /\ \A k \in Chain : cache.rel[<<h, k>>] = 0
    BY DEF CappedIsolated
  <2>1. PICK e \in Pc \X Cap : h = cache.capped[e].host /\ h # 0
    BY DEF CappedHosts
  <2>2. /\ \A q \in Pc : cache.table[q].host # h
        /\ \A k \in Chain : cache.rel[<<h, k>>] = 0
    BY <2>1 DEF Inductive, CacheInv, CappedInv
  <2>3. h \notin TableHosts
    BY <2>2 DEF TableHosts
  <2>4. h \notin SlotHosts
    BY <2>3, SlotsInTable
  <2> QED BY <2>2, <2>3, <2>4
<1> QED BY <1>1, InductiveCorrect, PTL

\* Every block that can be entered was written by append_raw between the
\* runtime stubs and the cursor.
THEOREM CursorCorrect ==
  ASSUME NoWrappedBlocks PROVE Spec => []BelowCursor
<1>1. Inductive => BelowCursor
  <2> SUFFICES ASSUME Inductive, NEW h \in TableHosts \cup CappedHosts
               PROVE  StubsEnd <= h /\ h + cache.image[h].size <= cache.cursor
    BY SlotsInTable DEF BelowCursor
  <2>1. CASE h \in TableHosts
    <3>1. PICK p \in Pc : Present(cache, p) /\ h = cache.table[p].host
      BY <2>1 DEF TableHosts
    <3> QED BY <3>1 DEF Inductive, CacheInv, TableInv
  <2>2. CASE h \in CappedHosts
    <3>1. PICK e \in Pc \X Cap : cache.capped[e].host # 0 /\ h = cache.capped[e].host
      BY <2>2 DEF CappedHosts
    <3> QED BY <3>1 DEF Inductive, CacheInv, CappedInv
  <2> QED BY <2>1, <2>2
<1> QED BY <1>1, InductiveCorrect, PTL

\* After invalidate_range no code translated from the reported guest bytes can
\* be reached: not by lookup, dispatch slot or capped key, and not over the
\* chain sites of the blocks that can.
THEOREM StaleCorrect ==
  ASSUME NoWrappedBlocks PROVE Spec => []NoStaleCode
<1>1. Inductive => NoStaleCode
  <2> SUFFICES ASSUME Inductive, NEW h \in TableHosts \cup CappedHosts
               PROVE  /\ h \in cache.fresh
                      /\ \A k \in Chain : cache.rel[<<h, k>>] # 0 =>
                           cache.rel[<<h, k>>] \in TableHosts
    BY SlotsInTable DEF NoStaleCode
  <2>1. CASE h \in TableHosts
    <3>1. PICK p \in Pc : Present(cache, p) /\ h = cache.table[p].host
      BY <2>1 DEF TableHosts
    <3>2. /\ h \in cache.fresh /\ h \in Unit
          /\ \A k \in Chain : cache.rel[<<h, k>>] # 0 =>
               \E t \in Pc : <<t, <<h, k>>>> \in cache.table[p].out
      BY <3>1 DEF Inductive, CacheInv, CacheRec, Entry, TableInv
    <3>3. ASSUME NEW k \in Chain, cache.rel[<<h, k>>] # 0
          PROVE  cache.rel[<<h, k>>] \in TableHosts
      <4>1. PICK t \in Pc : <<t, <<h, k>>>> \in cache.table[p].out
        BY <3>2, <3>3
      <4>2. <<h, k>> \in Site
        BY <3>2 DEF Site
      <4>3. cache.rel[<<h, k>>] = cache.table[t].host
        BY <4>1, <4>2 DEF Inductive, CacheInv, LinkInv
      <4> QED BY <3>3, <4>3 DEF TableHosts, Present
    <3> QED BY <3>2, <3>3
  <2>2. CASE h \in CappedHosts
    <3>1. PICK e \in Pc \X Cap : cache.capped[e].host # 0 /\ h = cache.capped[e].host
      BY <2>2 DEF CappedHosts
    <3> QED BY <3>1 DEF Inductive, CacheInv, CappedInv
  <2> QED BY <2>1, <2>2
<1> QED BY <1>1, InductiveCorrect, PTL
=============================================================================

------------------------------ MODULE CodeCache ------------------------------
(***************************************************************************)
(* The code cache as its callers drive it: the dispatcher compiles blocks  *)
(* it did not find (rolling the cache over when it is full) and compiles   *)
(* budget-capped ones, every lookup may refill a dispatch slot, and the    *)
(* embedder reports modified guest code and may install code of its own.   *)
(* No generated code is on the stack during any of these calls.            *)
(***************************************************************************)
EXTENDS CodeCacheOps

CONSTANTS
  Xlat,             \* Xlat[p]: the blocks the translator may produce at p
  Foreign,          \* Foreign[p]: the blocks an embedder passes to install
  InvalidateArgs,   \* the (start, len) pairs the embedder reports
  Order             \* iteration orders of the hash table

ASSUME XlatAssumption ==
  /\ Xlat \in [Pc -> SUBSET BlockRec]
  /\ Foreign \in [Pc -> SUBSET BlockRec]
ASSUME ForeignAssumption ==      \* `install` passes no chain sites
  \A p \in Pc : \A b \in Foreign[p] : \A k \in Chain : b.targets[k] = EMPTY_PC
ASSUME InvalidateAssumption ==
  InvalidateArgs \subseteq Addr \X Addr /\ Order \subseteq [Pc -> Nat]

VARIABLE cache

vars == <<cache>>

Init == cache = NewCache

\* Jit::compile(pc, None), reached when lookup_dispatch_meta returned None:
\* on CodeCacheFull one reset and one retry, whose error is returned.
Compile(p, b) ==
  /\ Found(cache, p).host = 0
  /\ LET c == Room(cache, b.size) IN
     cache' = IF Fits(c, b.size) THEN InstallCached(c, p, b) ELSE c

\* Jit::compile(pc, Some(cap)), reached when the block at pc refused to run
\* and lookup_capped returned None.
CompileCapped(p, cap, b) ==
  /\ Found(cache, p).host # 0
  /\ cache.capped[<<p, cap>>].host = 0
  /\ LET c == Room(cache, b.size) IN
     cache' = IF Fits(c, b.size) THEN InstallCapped(c, p, cap, b) ELSE c

\* lookup / lookup_meta / lookup_dispatch_meta that misses its slot.
Lookup(p) ==
  /\ ~SlotHit(cache, p)
  /\ Present(cache, p)
  /\ cache' = AfterLookup(cache, p)

\* CodeCache::install called by an embedder: no retry when the cache is full,
\* and a block already cached at this PC is replaced.
Install(p, b) ==
  /\ Fits(cache, b.size)
  /\ cache' = InstallCached(cache, p, b)

\* CodeCache::install with cache_block = false: published, never looked up.
InstallTransient(p, b) ==
  /\ Fits(cache, b.size)
  /\ cache' = AppendRaw(cache, b)

Invalidate(start, len, ord) == cache' = InvalidateRange(cache, start, len, ord)

Next ==
  \/ \E p \in Pc : \E b \in Xlat[p] : Compile(p, b)
  \/ \E p \in Pc, cap \in Cap : \E b \in Xlat[p] : CompileCapped(p, cap, b)
  \/ \E p \in Pc : Lookup(p)
  \/ \E p \in Pc : \E b \in Foreign[p] : Install(p, b)
  \/ \E p \in Pc : \E b \in Foreign[p] : InstallTransient(p, b)
  \/ \E a \in InvalidateArgs, ord \in Order : Invalidate(a[1], a[2], ord)

Spec == Init /\ [][Next]_vars

\* Jit::compile when the host refuses a page-protection change inside the
\* reset: the first stub to fail leaves `written` units of stubs behind.
CompileResetFails(p, b, written) ==
  /\ Found(cache, p).host = 0
  /\ ~Fits(cache, b.size)
  /\ cache' = ResetFailed(cache, written)

NextProtectFails ==
  \/ Next
  \/ \E p \in Pc, written \in {0, ThunkSize} : \E b \in Xlat[p] :
       CompileResetFails(p, b, written)

SpecProtectFails == Init /\ [][NextProtectFails]_vars

-----------------------------------------------------------------------------
(* Properties.                                                             *)

\* The cache is well formed: every map has its domain and every host address
\* lies in host memory.
TypeOK == cache \in CacheRec

\* A dispatch slot, which generated code follows for indirect branches and
\* lookup_dispatch_meta returns without looking further, is either empty and
\* leads to the miss stub, or carries the host address and the thunk kind of
\* the block cached in the table at the same PC.
DispatchCoherent ==
  \A s \in Slot :
    LET d == cache.dispatch[s] IN
    \/ d = EmptySlot
    \/ /\ d.pc \in Pc /\ Index[d.pc] = s
       /\ Present(cache, d.pc)
       /\ d.host = cache.table[d.pc].host
       /\ cache.meta[s] = cache.table[d.pc].thunk

\* "A site is linked exactly while its target is in `table`" (the comment on
\* CodeCache::links): a chain site of a cached block jumps to the block now
\* cached at its target PC, and falls through while there is none.
LinkedExactly ==
  \A p \in Pc : \A x \in cache.table[p].out :
    cache.rel[x[2]] = cache.table[x[1]].host

\* `links` holds the chain sites of the cached blocks and nothing else, so no
\* patch is ever written into memory that a rollover gave to another block.
LinksRegistered ==
  \A t \in Pc : \A s \in Site :
    (s \in cache.links[t]) <=> (\E p \in Pc : <<t, s>> \in cache.table[p].out)

TableHosts == {cache.table[p].host : p \in {q \in Pc : Present(cache, q)}}
CappedHosts == {cache.capped[k].host : k \in Pc \X Cap} \ {0}
SlotHosts == {cache.dispatch[s].host : s \in Slot} \ {MissStub}

\* No code translated from guest bytes reported as modified since is reachable:
\* not by lookup, not as a capped block, not through a dispatch slot, and not
\* over the chain sites of code reachable in one of these ways, which lead to
\* cached blocks only.
NoStaleCode ==
  LET entered == TableHosts \cup CappedHosts \cup SlotHosts IN
  /\ entered \subseteq cache.fresh
  /\ \A h \in entered, k \in Chain :
       cache.rel[<<h, k>>] # 0 => cache.rel[<<h, k>>] \in TableHosts

\* Capped blocks are "never linked to and never in the dispatch table" (the
\* comment on CodeCache::capped), and none of their own sites is patched.
CappedIsolated ==
  \A h \in CappedHosts :
    /\ h \notin TableHosts \cup SlotHosts
    /\ \A k \in Chain : cache.rel[<<h, k>>] = 0

\* Every block that can be entered lies between the runtime stubs and the
\* cursor, where the next append_raw will not write.
BelowCursor ==
  \A h \in TableHosts \cup CappedHosts \cup SlotHosts :
    StubsEnd <= h /\ h + cache.image[h].size <= cache.cursor

\* The inductive invariant.
Inductive == CacheInv(cache)

=============================================================================

---------------------------- MODULE CodeCacheOps ----------------------------
(***************************************************************************)
(* The code cache of the JIT (src/src/jit/code_cache.rs) as operators on a *)
(* cache value: each `&mut self` method of CodeCache becomes an operator   *)
(* from the cache before the call to the cache after it.  The methods run  *)
(* one at a time (the cache is behind `&mut Jit`), so a call is one step   *)
(* of every specification that uses this module.                           *)
(*                                                                         *)
(* Host memory is counted in 16-byte units, the alignment append_raw gives *)
(* every block, numbered from 1.  A block is known by the unit it starts   *)
(* at; 0 is no block, and the rel32 of a chain site that is not linked     *)
(* (its jump falls through to the exit).                                   *)
(***************************************************************************)
EXTENDS GuestCode

CONSTANTS
  Slot, Index,  \* the dispatch table's slots, and dispatch_index as a function
  Chain,        \* labels of the chain sites one block may have
  Cap,          \* the instruction caps run_bounded may ask for
  Capacity,     \* units of host memory
  ThunkSize     \* units taken by the entry thunk(s)

ASSUME SlotAssumption == Index \in [Pc -> Slot]
ASSUME SizeAssumption ==
  /\ Capacity \in Nat
  /\ ThunkSize \in Nat \ {0}
  /\ ThunkSize + 1 <= Capacity        \* with_rwx fails otherwise

Unit == 0 .. (Capacity + 1)
Site == Unit \X Chain
ThunkKind == {"Full", "XmmFree"}
GuestRange == Addr \X Addr

\* What translation and emission hand to install_block: the guest ranges the
\* block was translated from (`end` wraps past MaxAddr), the target of each
\* chain site (EMPTY_PC: no such site), the size of the code, and the thunk it may be entered by.
BlockRec == [src     : SUBSET GuestRange,
             targets : [Chain -> Pc \cup {EMPTY_PC}],
             size    : Nat \ {0},
             thunk   : ThunkKind]

-----------------------------------------------------------------------------
(* The state of the cache.                                                 *)

Entry == [host   : Unit,                  \* 0: no entry under this key
          ranges : SUBSET GuestRange,
          out    : SUBSET (Pc \X Site),   \* out_sites
          thunk  : ThunkKind]

NoEntry == [host |-> 0, ranges |-> {}, out |-> {}, thunk |-> "Full"]

CappedEntry == [host : Unit, ranges : SUBSET GuestRange]

NoCapped == [host |-> 0, ranges |-> {}]

DispatchSlot == [pc : Pc \cup {EMPTY_PC}, host : Unit]

\* `image` and `fresh` are the bookkeeping of the properties.  image[h] says
\* what was last written at h.  h is fresh from the moment a block is written
\* at h until the embedder reports one of its guest bytes as modified, the
\* cache is reset, or its host bytes are overwritten.
CacheRec == [cursor   : Unit,
             table    : [Pc -> Entry],
             capped   : [Pc \X Cap -> CappedEntry],
             links    : [Pc -> SUBSET Site],
             dispatch : [Slot -> DispatchSlot],
             meta     : [Slot -> ThunkKind],        \* dispatch_meta
             rel      : [Site -> Unit],             \* the rel32 of each site
             image    : [Unit -> [src : SUBSET GuestRange, size : Nat]],
             fresh    : SUBSET Unit]

\* install_runtime_stubs puts the thunk first and the miss stub after it.
Base == 1
MissStub == Base + ThunkSize
StubsEnd == MissStub + 1
EmptySlot == [pc |-> EMPTY_PC, host |-> MissStub]

NewCache ==
  [cursor   |-> StubsEnd,
   table    |-> [p \in Pc |-> NoEntry],
   capped   |-> [k \in Pc \X Cap |-> NoCapped],
   links    |-> [p \in Pc |-> {}],
   dispatch |-> [s \in Slot |-> EmptySlot],
   meta     |-> [s \in Slot |-> "Full"],
   rel      |-> [s \in Site |-> 0],
   image    |-> [h \in Unit |-> [src |-> {}, size |-> 0]],
   fresh    |-> {}]

Present(c, p) == c.table[p].host # 0

-----------------------------------------------------------------------------
(* Lookup.                                                                 *)

SlotHit(c, p) == c.dispatch[Index[p]].pc = p

\* The block lookup_dispatch_meta returns, [host |-> 0, ...] for None.
Found(c, p) ==
  IF SlotHit(c, p)
  THEN [host |-> c.dispatch[Index[p]].host, thunk |-> c.meta[Index[p]]]
  ELSE [host |-> c.table[p].host, thunk |-> c.table[p].thunk]

\* The slot of p filled with (p, h, thunk), and the cache with that slot.
FillSlot(c, p, h) == [c.dispatch EXCEPT ![Index[p]] = [pc |-> p, host |-> h]]
FillMeta(c, p, thunk) == [c.meta EXCEPT ![Index[p]] = thunk]

\* lookup_meta_miss refills the slot from the table.
AfterLookup(c, p) ==
  [cursor   |-> c.cursor,
   table    |-> c.table,
   capped   |-> c.capped,
   links    |-> c.links,
   dispatch |-> FillSlot(c, p, c.table[p].host),
   meta     |-> FillMeta(c, p, c.table[p].thunk),
   rel      |-> c.rel,
   image    |-> c.image,
   fresh    |-> c.fresh]

-----------------------------------------------------------------------------
(* Publication.                                                            *)

\* Mutant of Fits: a bound that is off by one.
FitsPastEnd(c, size) == c.cursor + size <= Capacity + 2

Fits(c, size) == c.cursor + size <= Capacity + 1

\* append_raw of a block: writes it at the cursor, its chain sites unlinked.
AppendRaw(c, b) ==
  LET h == c.cursor IN
  [cursor   |-> h + b.size,
   table    |-> c.table,
   capped   |-> c.capped,
   links    |-> c.links,
   dispatch |-> c.dispatch,
   meta     |-> c.meta,
   rel      |-> [s \in Site |-> IF s[1] = h THEN 0 ELSE c.rel[s]],
   image    |-> [c.image EXCEPT ![h] = [src |-> b.src, size |-> b.size]],
   fresh    |-> {g \in c.fresh : \/ g + c.image[g].size <= h
                                 \/ g >= h + b.size} \cup {h}]

\* Mutant of Normalise: stores the wrapped end as it is.
NormaliseNothing(src) == src

\* install_block stores a range whose end wrapped as one that reaches the end
\* of the address space.
Normalise(src) == {<<r[1], IF r[2] <= r[1] THEN MaxAddr ELSE r[2]>> : r \in src}

\* Calls of remove_block for the PCs of D, all cached, in the order `ord`,
\* followed by flush_patches.  Each call unlinks the sites registered for its
\* PC and then forgets the block's own sites; so a site of a removed block
\* that leads to a block removed later is no longer registered by then, and
\* stays patched.
ClearSlotsNever(c, D) == c.dispatch      \* mutant: leaves the slots filled
ClearSlots(c, D) ==
  [s \in Slot |-> IF c.dispatch[s].pc \in D THEN EmptySlot ELSE c.dispatch[s]]

UnlinksNever(c, D, ord, s) == FALSE      \* mutant: leaves inbound sites patched
Unlinks(c, D, ord, s) ==
  \E q \in D : /\ s \in c.links[q]
              /\ \A p \in D : <<q, s>> \in c.table[p].out => ord[q] <= ord[p]

ForgetNoSites(c, D) == c.links           \* mutant: leaves the block's own sites
ForgetSites(c, D) ==
  [t \in Pc |-> {s \in c.links[t] : \A p \in D : <<t, s>> \notin c.table[p].out}]

RemoveBlocks(c, D, ord) ==
  [cursor   |-> c.cursor,
   table    |-> [p \in Pc |-> IF p \in D THEN NoEntry ELSE c.table[p]],
   capped   |-> c.capped,
   links    |-> ForgetSites(c, D),
   dispatch |-> ClearSlots(c, D),
   meta     |-> c.meta,
   rel      |-> [s \in Site |-> IF Unlinks(c, D, ord, s) THEN 0 ELSE c.rel[s]],
   image    |-> c.image,
   fresh    |-> c.fresh]

\* The rest of install_block without a cap, once the code is at h and no older
\* block of this PC is left: register the chain sites and link those whose
\* target is cached, publish in the table and the dispatch slot, link every
\* inbound site.  The patches are written by the flush_patches at the end.
AddSites(c, h, b) ==
  [t \in Pc |-> c.links[t] \cup {s \in Site : s[1] = h /\ b.targets[s[2]] = t}]

\* Mutant of Relink: links the new block's own sites, not the inbound ones.
RelinkOutbound(c, p, h, b) ==
  [s \in Site |-> IF s[1] = h /\ b.targets[s[2]] \in Pc \ {p}
                  THEN c.table[b.targets[s[2]]].host ELSE c.rel[s]]

Relink(c, p, h, b) ==
  [s \in Site |->
     IF s \in AddSites(c, h, b)[p] THEN h
     ELSE IF s[1] = h /\ b.targets[s[2]] # EMPTY_PC
          THEN c.table[b.targets[s[2]]].host
          ELSE c.rel[s]]

NewEntry(h, b) ==
  [host   |-> h,
   ranges |-> Normalise(b.src),
   out    |-> {x \in Pc \X Site : x[2][1] = h /\ b.targets[x[2][2]] = x[1]},
   thunk  |-> b.thunk]

Publish(c, p, h, b) ==
  [cursor   |-> c.cursor,
   table    |-> [c.table EXCEPT ![p] = NewEntry(h, b)],
   capped   |-> c.capped,
   links    |-> AddSites(c, h, b),
   dispatch |-> FillSlot(c, p, h),
   meta     |-> FillMeta(c, p, b.thunk),
   rel      |-> Relink(c, p, h, b),
   image    |-> c.image,
   fresh    |-> c.fresh]

\* install_block without a cap, for code that fits: append, remove the older
\* block of this PC if there is one, publish.  Where a site is queued for
\* unlinking and then for linking, the later patch is written last.
InstallCached(c, p, b) ==
  LET c1 == AppendRaw(c, b)
      D  == {q \in {p} : Present(c1, q)}
  IN Publish(RemoveBlocks(c1, D, [q \in Pc |-> 0]), p, c.cursor, b)

\* Mutant of AddCapped: the block is published in its dispatch slot too.
AddCappedPublished(c, p, cap, h, b) ==
  [c EXCEPT !.capped = [@ EXCEPT ![<<p, cap>>] =
                          [host |-> h, ranges |-> Normalise(b.src)]],
            !.dispatch = FillSlot(c, p, h)]

\* install_block with a cap: reusable for this (pc, cap) only, never linked
\* and never in the dispatch table.
AddCapped(c, p, cap, h, b) ==
  [cursor   |-> c.cursor,
   table    |-> c.table,
   capped   |-> [c.capped EXCEPT ![<<p, cap>>] =
                   [host |-> h, ranges |-> Normalise(b.src)]],
   links    |-> c.links,
   dispatch |-> c.dispatch,
   meta     |-> c.meta,
   rel      |-> c.rel,
   image    |-> c.image,
   fresh    |-> c.fresh]

InstallCapped(c, p, cap, b) == AddCapped(AppendRaw(c, b), p, cap, c.cursor, b)

-----------------------------------------------------------------------------
(* Invalidation and rollover.                                              *)

Overlaps(ranges, start, end) == \E r \in ranges : r[1] < end /\ r[2] > start

\* The blocks invalidate_range(start, len) drops: `start + len` is checked,
\* and everything goes when it overflows or spans the whole address space.
DropsAll(start, len) == start + len > MaxAddr \/ (start = 0 /\ len = MaxAddr)
Doomed(ranges, start, len) ==
  DropsAll(start, len) \/ Overlaps(ranges, start, start + len)

\* The guest bytes the embedder reports, wrapping at the top of the address
\* space, and the bytes a translated range was read from.
Reported(start, len, x) ==
  IF start + len <= MaxAddr + 1
  THEN start <= x /\ x < start + len
  ELSE start <= x \/ x < start + len - (MaxAddr + 1)
ReadFrom(r, x) ==
  IF r[1] < r[2] THEN r[1] <= x /\ x < r[2] ELSE r[1] <= x \/ x < r[2]
Modified(src, start, len) ==
  \E r \in src : \E x \in Addr : ReadFrom(r, x) /\ Reported(start, len, x)

\* invalidate_range: remove the doomed blocks, keep the capped blocks that are
\* not doomed.
DropReported(c, start, len) ==
  [cursor   |-> c.cursor,
   table    |-> c.table,
   capped   |-> [k \in Pc \X Cap |-> IF Doomed(c.capped[k].ranges, start, len)
                                     THEN NoCapped ELSE c.capped[k]],
   links    |-> c.links,
   dispatch |-> c.dispatch,
   meta     |-> c.meta,
   rel      |-> c.rel,
   image    |-> c.image,
   fresh    |-> {h \in c.fresh : ~Modified(c.image[h].src, start, len)}]

InvalidateRange(c, start, len, ord) ==
  LET D == {p \in Pc : Present(c, p) /\ Doomed(c.table[p].ranges, start, len)}
  IN DropReported(RemoveBlocks(c, D, ord), start, len)

\* Mutant of Reset: forgets to drop the capped blocks.
ResetKeepsCapped(c) == [NewCache EXCEPT !.capped = c.capped, !.meta = c.meta,
                                        !.rel = c.rel, !.image = c.image]

\* reset.  The code bytes and their rel32s stay in host memory.
Reset(c) ==
  [cursor   |-> StubsEnd,
   table    |-> [p \in Pc |-> NoEntry],
   capped   |-> [k \in Pc \X Cap |-> NoCapped],
   links    |-> [p \in Pc |-> {}],
   dispatch |-> [s \in Slot |-> EmptySlot],
   meta     |-> c.meta,
   rel      |-> c.rel,
   image    |-> c.image,
   fresh    |-> {}]

\* reset whose install_runtime_stubs returned an error from append_raw, with
\* `written` units of stubs published: the `?` skips clear_dispatch.
ResetFailed(c, written) ==
  [[Reset(c) EXCEPT !.cursor = Base + written] EXCEPT !.dispatch = c.dispatch]

\* The cache in which Jit::compile's install succeeds or finally fails: on
\* CodeCacheFull it resets and retries once.
Room(c, size) == IF Fits(c, size) THEN c ELSE Reset(c)

-----------------------------------------------------------------------------
(* The inductive invariant, in parts, for any cache value c.               *)

\* Dispatch slots agree with the table.
DispatchInv(c) ==
  \A s \in Slot :
    \/ c.dispatch[s] = EmptySlot
    \/ /\ c.dispatch[s].pc \in Pc /\ Index[c.dispatch[s].pc] = s
       /\ Present(c, c.dispatch[s].pc)
       /\ c.dispatch[s].host = c.table[c.dispatch[s].pc].host
       /\ c.meta[s] = c.table[c.dispatch[s].pc].thunk

\* Registered sites are those of cached blocks, lie in their own block, have
\* one target, and jump to the block cached there.
LinkInv(c) ==
  /\ \A t \in Pc, s \in Site :
       (s \in c.links[t]) <=> (\E p \in Pc : <<t, s>> \in c.table[p].out)
  /\ \A p, t \in Pc, s \in Site :
       <<t, s>> \in c.table[p].out =>
         Present(c, p) /\ s[1] = c.table[p].host /\ c.rel[s] = c.table[t].host
  /\ \A p, t, u \in Pc, s \in Site :
       <<t, s>> \in c.table[p].out /\ <<u, s>> \in c.table[p].out => t = u

\* A cached block's host memory is its own, holds the block its entry
\* describes, and jumps nowhere except over registered sites.
TableInv(c) ==
  \A p \in Pc : Present(c, p) =>
    LET h == c.table[p].host IN
    /\ StubsEnd <= h /\ c.image[h].size > 0 /\ h + c.image[h].size <= c.cursor
    /\ h \in c.fresh
    /\ c.table[p].ranges = Normalise(c.image[h].src)
    /\ \A q \in Pc : c.table[q].host = h => q = p
    /\ \A k \in Chain : c.rel[<<h, k>>] # 0 =>
         \E t \in Pc : <<t, <<h, k>>>> \in c.table[p].out

\* The same for a capped block, which jumps nowhere.
CappedInv(c) ==
  \A e \in Pc \X Cap : c.capped[e].host # 0 =>
    LET h == c.capped[e].host IN
    /\ StubsEnd <= h /\ c.image[h].size > 0 /\ h + c.image[h].size <= c.cursor
    /\ h \in c.fresh
    /\ c.capped[e].ranges = Normalise(c.image[h].src)
    /\ \A q \in Pc : c.table[q].host # h
    /\ \A k \in Chain : c.rel[<<h, k>>] = 0

\* Translation never runs past the top of the address space to a non-zero
\* address: the condition under which a block's ranges cover its source.
NoWrap(src) == \A r \in src : r[1] < r[2] \/ r[2] = 0

CacheInv(c) ==
  /\ c \in CacheRec
  /\ StubsEnd <= c.cursor
  /\ \A h \in Unit : NoWrap(c.image[h].src)
  /\ DispatchInv(c)
  /\ LinkInv(c)
  /\ TableInv(c)
  /\ CappedInv(c)

=============================================================================

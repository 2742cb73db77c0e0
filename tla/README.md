# rustarmic: TLA+ models, checks and proofs

rustarmic is a dynamic recompiler: it translates AArch64 guest code into x86-64
host code block by block, keeps the blocks in a code cache, links them to each
other and runs them for an embedder (an emulator) that supplies guest memory.
This directory models its run-time system and its compiler in TLA+: the code
cache, the dispatcher, translation, optimization, instruction selection and
register allocation of a block, the atomic accesses of several guest threads
and the host faults that memory accesses take. TLC checks small instances, and
TLAPS proves for every instance that the run-time system (code cache,
translation of a block, dispatcher) implements a guest that executes one
instruction at a time, that the register allocator and the handling of host
faults are correct, and that the optimizer's backward pass and the fusion of
compares with branches keep what a block does.

## 1. Inventory

| Component | State | Operations | Talks to |
|---|---|---|---|
| Code cache (`jit/code_cache.rs`) | `table` of blocks by PC, `capped` blocks by (PC, cap), `links` (chain sites by target), dispatch slots and their metadata, host memory and its cursor, patch queue | `lookup*`, `install*`, `install_block`, `invalidate_range`, `remove_block`, `flush_patches`, `reset` | called by the dispatcher and the embedder; the dispatch slots and the `rel32` of chain sites are read by generated code |
| Dispatcher (`jit/mod.rs`) | `CpuContext`, locals of `run_bounded` | `run_bounded`, `compile`, `fault_resume_pc`, `translation_stop` | code cache, translator, emitter, generated code; `should_halt` is written by other threads or callbacks |
| Block translation (`frontend/translator.rs`) | the `Block` being built, the last followed branch | `translate_block_into` | fetches through the embedder's memory |
| Instruction translators (`frontend/translate/`) | none | one function per instruction class, word to IR | IR emitter |
| IR (`ir/`) | SSA values, use counts, terminal, ranges | `push`, `mark`, `rollback` | optimizer, register allocation |
| Optimizer (`optimizer/`) | reaching register, flag and vector values | `optimize_with_scratch`, `simplify_terminal` | rewrites the block |
| Register allocation (`backend/regalloc.rs`) | live ranges, active set, spill slots | `compute_live_ranges_with`, `linear_scan` | clobber masks of `backend/clobbers.rs` |
| Emission (`backend/emit.rs`, `thunk.rs`, `prologue.rs`) | assembler | `emit_block`, `resolve_direct_sites` | register allocation, instruction selection |
| Instruction selection (`backend/isel.rs` and siblings) | none | one emitter per IR operation; slow paths that call the embedder | `mem_fault`, `mem_fault_skip_pc` |
| Atomics and exclusives (`jit/atomic.rs`, `isel.rs`) | fallback lock, exclusive value | `host_atomic`, `rmw_128`, LDXR/STXR | guest memory shared with other threads |
| Direct fastmem (`jit/fastmem_direct.rs`) | site registry, per-thread registration | `register`, `clear`, `find`, `divert` | host fault handler |
| Page table memory (`jit/page_table.rs`) | process-wide slots | `reserve`, `release`, `on_fault` | host fault handler |
| Engine (`engine.rs`) | mappings, generation | `map_owned`, `unmap` | several engines share it |
| Software helpers (`interp/`, `arch.rs`) | none | pure functions called from generated code | |

What is hard here:

- **Stale pointers.** A block's host address is copied into the dispatch slots,
  the metadata beside them, the `rel32` of every inbound chain site and the
  locals of `run_bounded`. Invalidation, replacement and rollover must find
  every copy, and the code bytes themselves stay where they are.
- **Bounded execution of chained code.** Blocks jump to each other without the
  dispatcher: the halt flag, the fault flag and the budget are only seen by the
  entry of a block, and a block that does not fit the budget refuses.
- **Faults inside a block.** The block runs to its end after a fault, with the
  later callback accesses skipped; the PC left for the embedder is reassembled
  from three places.
- **Translation that fails half way** behind a followed branch.
- **Concurrency**: halt requests, guest threads that share memory through
  exclusives, fault handlers that run on any thread.
- **Numeric edges**: ranges at the top of the address space, sentinel PCs,
  budget arithmetic.

Correctness, per component: the cache never leads to code that was dropped or is
stale, and links exactly what is cached; the dispatcher is indistinguishable
from a guest that executes one instruction at a time; translation records every
byte it read; registers allocated to live values are disjoint and survive
clobbers; forwarding in the optimizer keeps the block's meaning; a successful
STXR is an atomic update; a mapping is visible under its generation. The code
behind each hazard is listed line by line in `PROJECT.json`.

## 2. Plan

| Order | Module | State |
|---|---|---|
| 1 | `CodeCacheOps`, `CodeCache`, `CacheProofs`, `CodeCacheProofs` | done, proved |
| 2 | `Translator`, `GuestMachine` (abstract), `Dispatcher` (composes cache, translator and generated code), `DispatcherProofs` | done, proved, refinement included |
| 3 | `LinearScan`, `LinearScanProofs`: live ranges, register and spill assignment, execution of the emitted code | done, proved |
| 4 | `Exclusives` implements `AtomicMemory`: guest threads with exclusives and atomics; `ExclusivesProofs` | done, proved |
| 5 | `HostFaults`: direct fastmem and page tables; `HostFaultsProofs` | done, proved |
| 6 | `Words`, `HostVectors`, `VecSelect`, `Ir`, `Emitter`, `TranslateVec`, `Translate`, `Optimizer`, `Terminals`, composed by `Pipeline` and compared with `A64`, `A64Vectors`; `OptimizerProofs` | done, checked, partly proved |
| 7 | The bit matrices of `optimizer/affine.rs`; saturating arithmetic, variable shifts, table lookup, LD3/ST3 in `Pipeline` | left |
| 8 | `Engine`, `publication_range` | left |

## 3. Modules

**GuestCode** - addresses that wrap at `MaxAddr + 1` and instruction classes:
everything that neither branches nor calls out is `alu`; `ld` is an access
through a memory callback; `udf` is what no translator supports.

**CodeCacheOps** - every `&mut self` method of `CodeCache` as an operator from
the cache before to the cache after. Host memory is counted in the 16-byte units
`append_raw` aligns to. The field `rel` is the displacement of each chain site
as the block it leads to (0: falls through). `image` and `fresh` are history:
what was written where, and which of it is still translated from unmodified
guest bytes. The module ends with the invariants of a cache (`CacheInv` and its
parts), stated of a value, because both `CodeCache` and `Dispatcher` keep one. A
removal of several blocks takes the iteration order of the hash
table as a parameter, because the sites of a block that is removed first are no
longer unlinked afterwards; `Order` of `Dispatcher` is the set of orders, and the
theorems are about any set.

| Operator | Code |
|---|---|
| `Found`, `AfterLookup` | `lookup_dispatch_meta`, `lookup_meta_miss` |
| `AppendRaw`, `Fits` | `append_raw` |
| `RemoveBlocks` (`ClearSlots`, `Unlinks`, `ForgetSites`) | `remove_block`, `flush_patches` |
| `Publish` (`AddSites`, `Relink`, `NewEntry`), `InstallCached`, `AddCapped` | `install_block` |
| `InvalidateRange` (`Doomed`, `DropReported`) | `invalidate_range` |
| `Reset`, `Room` | `reset`, the retry in `Jit::compile` |

**CodeCache** - the cache as its callers may drive it: compile, compile capped,
lookup, install, install without caching, invalidate, in any order. The methods
take `&mut self`, so each call is one step. `SpecProtectFails` adds a reset in
which the host refuses a page-protection change.

**Translator** - `translate_block_into` iteration by iteration, with the
instructions and ranges recorded at the last followed branch, and the halving
of `max_insts` in `Jit::compile`. A block of more than `SpillLimit` instructions
stands for one whose values overflow the spill frame; one of a single
instruction never does. The module ends with what the rest of the system relies
on: a `Block` holds the instructions of memory along the control flow (`Path`),
its ranges cover them, and it is left where its last instruction says; a
`Failure` is an instruction without translation that the line reaches.

**GuestMachine** - what `run_bounded` promises, without blocks: the guest
executes the instruction at its PC, at most `budget` of them, drains a few more
once a halt or a fault is pending, and returns the number executed. A
translation error may be returned only for an address the guest would come to
without branching (`Untranslatable`).

**Dispatcher** - `run_bounded`, `compile` and generated code. `run.at` is where
the runner is: `idle` (not called), `loop` (top of the dispatcher loop), `entry`
(first instructions of a block), `body` (instruction `run.ip`), `exit` (back in
the dispatcher). `body[h]` is what the host code at `h` does, kept until it is
overwritten, so that a jump to a stale address executes stale instructions.
Registers and flags are nondeterministic: they choose the direction of a
conditional branch and the target of an indirect one. `RequestHalt` may happen
between any two steps. `due`, `done` and `late` are history variables.

**LinearScan** - `compute_live_ranges_with` and `linear_scan`, one action per
way an interval is treated (`Skip`, `Rematerialise`, `PlaceVector`, `Inherit`,
`Place`), followed by `Run`, the code emitted with the result: a node loads its
operands, destroys the registers it clobbers and stores its result. A block is
the list of its live nodes; a node is its kind (what `linear_scan` tells apart),
its arguments and the registers `clobbers_for_op` names. A location is the set
of cells it occupies, so that 8-byte and 16-byte spill slots can overlap. The
choice among free registers (a stack of general ones, the lowest vector one) is
left open. `holds` is the values of which each cell holds a copy; `emit_op_identity`
copies them.

**AtomicMemory** - what atomic instructions promise: an operation is invoked,
takes effect on its whole datum in one step and completes; a 16-byte
load-exclusive may be read in two halves, and a store-exclusive stores only over
the value its own load-exclusive saw. A faulting access leaves memory alone.

**Exclusives** - the same instructions as the program performs them: the
translators of `ldstexcl.rs` and `lse_atomic.rs`, the code of the atomic nodes
in `isel.rs` step by step, and `jit/atomic.rs`. `pc[t]` is where in the code of
its node a thread is:

| Steps | Code |
|---|---|
| `Issue`, `CheckMonitor`, `Guard` | prologues of `emit_atomic_rmw`, `emit_atomic_cas`, `emit_store_ex`; `emit_fastmem_guard` |
| `LockedInsn`, `Seed`, `Retry` | `emit_atomic_core`: `lock xadd`, `xchg`, `lock cmpxchg`, the retry loop |
| `Load`, `LoadHigh`, `Store`, `SkipOrFault` | `emit_load`, `emit_store`, their slow paths |
| `HostAtomic`, `HostFault`, `Rmw128*` | `host_atomic`, `rmw_128` |
| `Acquire` ... `Unlock` | `fallback_guard`, `default_mem_atomic`, misaligned `host_atomic` |
| `Mismatch`, `Finish`, `Divert`, `NextBlock`, `Remap` | the end of a node, a diverted fault, the next block, the embedder |

The value a 16-byte seed read delivers may be torn: it is read in two steps.
`FallbackApart` restricts the workloads: what the fallback lock serialises is
"atomic only against other fallback users" and "not with respect to plain stores"
(`jit/atomic.rs:8-11`, `156-159`), so under the misaligned or the default callback
the page is not direct and no thread stores to it with STLR. The registers of a
node are set to 0 when it ends: nothing reads them before the next node sets them.

**HostFaults** - `fastmem_direct.rs` and `page_table.rs`. `text[j]` is what each
byte of a code cache holds, so that a patch is a two-byte jump over part of an
access and a stale patch would be executed; `sites[j]` is the registry,
`current[t]` the thread-local `CURRENT`, `stack[t]` the runs of a thread, nested
by memory callbacks. Slots are claimed, filled, emptied and read by the handler
one field at a time. `Compile` and its reset wait until nobody runs the Jit, as
`&mut self` demands; a block that does not fit even after the reset leaves an
empty cache behind.

**Ir** - nodes, the doubly linked block, and what the emitted code makes of
each operation. Everything from here on is in the scale 1/8: a byte is one bit,
a W register 4 bits, an X register 8 and a vector register 16, and shift
amounts and element sizes keep their ratios. Truncation, sign extension,
reduction of shift counts by the host, and carries then happen at the same
places as in the program, in a state space TLC can enumerate. A `GetW`
coalesced with the X value it was forwarded from keeps the upper bits
(`coalesce` of a machine says whether the allocator did that).

**Emitter**, **Translate**, **TranslateVec** - the constructors of
`ir/emitter.rs` and one operator per translator, from the decoded fields of an
instruction to the nodes pushed. `Refused` is a translator that returns an
error.

**Optimizer** - `optimize_with_scratch`: the forward pass (one operator per arm
of its match), `simplify_terminal`, the use counts and the backward pass.
`UsesMax` is where the use counts saturate: 255, and a block has at most 64
instructions (`engine.rs` refuses more), so a saturated count never returns to 0.

**VecSelect** over **HostVectors** - the host instructions each vector operation
becomes, given where the allocator put operands and result, executed on a model
of the host's vector instructions. The host instructions are external and are
marked so in the map. `host.place` chooses the placement: all in registers with
the operands from XMM6 on, or with the result in XMM6 and the operands above it
(XMM6 and XMM7 are allocatable and saved and restored by one of the sequences),
all on the stack, or only the result or only operands in registers.

**Terminals** - the end of a block, with the branch that executes the compare
again on the host's flags, and `Run`, what a whole block does to a machine.

**Pipeline** - `Jit::compile` for one block: translate, refuse or link,
optimize. **A64** and **A64Vectors** are the architecture, written from the
instruction set and not from the program. The composition is

    Words - HostVectors - VecSelect - Ir - Emitter - TranslateVec - Translate - Pipeline
                                        \- Optimizer, Terminals -------------/   |
    Words - A64Vectors - A64 --------------------------------------- (INSTANCE) -/

## 4. Runs

| Run | Result | What it shows |
|---|---|---|
| `codecache` | holds, 173,069 states | seven invariants of the cache over every sequence of calls |
| `codecache_protect` | violation | a failed page-protection change inside `reset` skips `clear_dispatch`: slots keep dropped blocks |
| `dispatcher` | holds, 546,840 states | with block linking, the dispatcher implements `GuestMachine`; only live code runs, and behind a thunk that saves what it uses; halts and faults are seen at the next block entry; bounded and halted runs return |
| `dispatcher_lines` | holds, 180,727 states | without linking: entry thunks, rollback of translation, PC after faults |
| `dispatcher_retry` | violation | with `resume_after_fault = false` the PC after a fault may lie behind the access that faulted |
| `linearscan` | holds, 111,126 states | operands are intact when the emitted code reads them; live values never share a location |
| `linearscan_copy` | violation | a copy inherits a vector register without looking at the clobbers of its own range |
| `exclusives` | holds, 172,786 states | `Exclusives` implements `AtomicMemory`; some instruction always completes |
| `hostfaults` | holds, 281,297 states | every fault of generated code is resolved, accesses end, slots describe their tables |
| `pipeline` | holds, 164,054 states | translated and optimized blocks do what the architecture says |
| `pipeline_links` | violation | the optimizer writes nodes back with stale `prev` links |
| `pipeline_result` | violation | a comparison of 64-bit lanes loses a result that is in XMM6 |

The invariants of the cache:
`DispatchCoherent` (a slot carries the host address *and* thunk of the block in
the table at its PC), `LinkedExactly` and `LinksRegistered` (a site jumps to the
block cached at its target or falls through; only sites of cached blocks are
ever patched), `NoStaleCode` (nothing reachable by lookup, slot, capped key or
link was translated from bytes reported as modified since), `CappedIsolated`,
`BelowCursor` (nothing that can be entered lies where the next block is
written).

Of the dispatcher: `ImplementsGuest` is the refinement. It says at once that
stale code never runs, that a chain never exceeds the budget, that the retired
count is the number of instructions executed and that a translation error is
reported at a PC the guest has reached. `FaultPcExact` compares the PC left by a
fault with `due`, the first instruction that has not had its effect. `VectorsSaved`
is asked with linking, where a chain may reach a block the entered one knew nothing
of, and without, where every block is entered through the thunk of its own.
`RunReturns` is the liveness property.

Of the allocator: `NoSharing` is about the assignment, `OperandsIntact` about
running the code: it is violated by two values in one register, by a slot used
twice and by a call that destroys a register. The blocks of `linearscan` are
those forwarding leaves: arguments are resolved through copies, so only the
terminal reads one, and then the copy is the last node. `linearscan_copy` starts
from the exception: `try_mul_fold` turns an addition into the copy of a product
with a larger index, which the resolution does not follow. On those blocks
`Survives` fails, and `OperandsIntact` with it.

Of the atomics: `ImplementsAtomicMemory` is a refinement: whichever path carries
an operation out, there is one step at which it happens, and a store-exclusive
succeeds only over the value its load saw. It does not promise that the location
was not written in between with the same value: the program compares values, and
so does `AtomicMemory`. `LockFree` is liveness: a failed round of a retry loop
means that another thread's succeeded, and the lock is given back, faults
included.

Of host faults: `FaultsResolved` (no fault of generated code reaches the handler
installed before), `OwnSlowPath` (diverted, patched or guarded, an access arrives
at its own slow path in the current code), `SlotsExact` and the liveness property
`AccessesEnd`.

Of the compiler: `TranslationFaithful` compares the translated block, run through
instruction selection, with the architecture: registers, flags, memory accesses
in order with width and value, next address; and an encoding is refused exactly
if it is undefined. `OptimizerFaithful` compares the optimized block with the
translated one, `OperandsDefined` says that removal and insertion leave every
operand listed before its use. `RemovalSafe` is what the backward pass relies on:
stale links skip nothing in use, and no use count saturates; the theorems about
that pass start from it. `pipeline_links` is about the list itself.

**Bounds.** `codecache`: three PCs, two of which share one of the two dispatch
slots, in a 16-byte address space, so a block at the top of it wraps; four units
of host memory for blocks, so at most four are written before a rollover and a
block of two units may not fit; one capped length; blocks with two sites to one
target, a self loop, two ranges. A violation of any of the invariants needs two
blocks, one link or slot, and one removal or rollover, which all fit several
times. Dispatcher runs:
three words of code and one unmapped one, blocks of up to three instructions of
which three-instruction ones overflow the spill frame in run `dispatcher`, budgets of
1 (shorter than a block), that of a longest block (2 or 3) and unlimited; counters of
an unlimited run saturate at `Limit`; blocks are removed in the order of their
PCs or the opposite one. `linearscan`: one general and one vector register,
so that the third live value is spilled and the second is in a register that
calls destroy (the System V set of `CALLER_SAVED_XMMS`); blocks of four nodes
of every kind, and of five without vectors and constants, reach every
combination of a definition, a clobber before, at and after the last use, and a
successor that takes over the register. `exclusives`: two threads and a quadword
of two 2-bit doublewords, so that words and their pairs exist and a value can be
written, overwritten and written back; eight workloads, each a callback, whether
the page may be direct, whether the embedder may fault, and the instructions each
thread repeats in any order; a torn read or a lost update needs two threads and
two doublewords. `hostfaults`: two threads, two direct Jits one of which is
nested in the other, three page tables for two slots, code caches of 12 bytes
that hold one block of two accesses or two of one before they roll over. Its
blocks satisfy what the emitter guarantees (`BlocksAssumption`): accesses do not
overlap, and no slow path begins inside one.
`pipeline`: every instruction alone over its fields, all pairs of a pool in which
values, flags and constants of one instruction reach the next, all triples of two
smaller pools, and compares, an instruction between and every condition of a
branch; five machines that differ in registers, flags, host features and
placement. `Excluded` names the machine with results in XMM6, on which
`TranslationFaithful` is not asked of blocks with comparisons of 64-bit lanes; run
`pipeline_result` asks it of one. Triples reach two forwardings through each other; longer chains of
them are not reached.

**Fairness.** `FairSpec` assumes only that the thread in `run_bounded` keeps
being scheduled (`Scheduled`, weak fairness of `Runner`, written out because
`Runner` is enabled exactly while `run.at # "idle"`). Nothing is assumed of the
embedder, of halt requests or of the direction of branches. In `Exclusives`
weak fairness of `Step(t)` says that the host keeps running a thread that is
inside the code of a node or holds the lock; no thread has to issue another
instruction. In `HostFaults` weak fairness of `Proceed(t)` says the same of
generated code, fault handlers and table operations; mapping, remapping and
returning from callbacks are left to the embedder.

**Mutants.** Every property of a passing run is shown to be breakable: an
operator named in `PROJECT.json` replaces a mapped definition by the form a
plausible bug would give it, for example `ClearSlotsNever`, `ForgetNoSites`,
`BailsOnBudget`, `EnterOwn`,
`RetryStale`, `write_patchLost`, `WriteFlagsKept`.

## 5. Proofs

Every safety property of the runs of the code cache, the dispatcher, the
register allocator and the host faults is a theorem for all values of the
constants, and so are the two refinements, of the guest machine by the dispatcher
and of atomic memory by the exclusives. Of the compiler, the backward pass, the
combination of constants and the fusion of compares are proved. The proofs are in
eight modules:

    CacheProofs ------ CodeCacheProofs
              \------- DispatcherProofs
    Inductions - DispatcherProofs
              |- HostFaultsProofs
              |- ExclusivesProofs
              \- OptimizerProofs
    LinearScanProofs

The named assumptions on constants beside the `CONSTANTS` declarations are
evaluated by TLC on every run. They stand for facts about the code's environment
(host memory has room for the runtime stubs, the ranges of a reservation are
aligned). Some theorems have a hypothesis of their own, named below.

### Code cache

`CacheProofs` has one lemma per operator of `CodeCacheOps` (`AppendInv`,
`RemoveInv`, `PublishInv`, `AddCappedInv`, `InvalidateInv`, `ResetInv`,
`LookupInv`, `InstallInv`): each keeps `CacheInv`. None of the invariants of run
`codecache` is inductive alone. That a link leads to a live block needs that
`links` registers exactly the sites of cached blocks, that a site belongs to one
block and has one target, and that host memory of live blocks is disjoint from
what the next `append_raw` writes; that nothing is stale needs that each entry's
ranges are the normalised ranges its host code was translated from, and
`DoomedCoversModified`: the overlap test of `invalidate_range` finds every block
with a modified byte. `CacheInv` is the conjunction of `DispatchInv`, `LinkInv`,
`TableInv`, `CappedInv`, the type and the cursor bound.

`CodeCacheProofs` draws the conclusions for the cache on its own, under every
sequence of calls: `InductiveCorrect`, and `TypeCorrect`, `DispatchCorrect`,
`LinksCorrect` (links lead exactly to what is cached), `RegistryCorrect` (only
sites of cached blocks are registered), `CappedCorrect`, `CursorCorrect` and
`StaleCorrect`. They have one hypothesis, `NoWrappedBlocks`: no block is
translated past the top of the address space to an address other than 0. Such a
block is stored with the range (start, `u64::MAX`) (`code_cache.rs:693`), and
invalidating its lower part does not find it. In the dispatcher the hypothesis
is not needed: there `TranslatorAssumption` says that no guest code lies in the
last word of the address space, and so no range wraps.

### Translation

The first part of `DispatcherProofs` shows that the translator's loop, a recursive
function of the number of instructions, returns a `Block` or a `Failure` (`TranslateBlockFacts`),
and that `Jit::compile`'s halving of `max_insts` ends with one of the two
(`EmittedFacts`). The invariant of the loop (`TranslationReached`) relates the
instructions so far, the ranges closed so far and the open one, the state at the
last followed branch, to which a failure behind it returns, and the `Line` from
the last followed branch to the current PC, on which nothing branches.

### Dispatcher

The rest of `DispatcherProofs` composes the lemmas of `CacheProofs` with `EmittedFacts`.
`Inductive` (in `Dispatcher`) says:

- `CodeInv`: every block the cache holds, in the table, a dispatch slot or under
  a cap, is a `Block` of guest memory *as it is now*, starts at the PC it is held
  under, has the certificate of its thunk and chain sites with the targets its
  last instruction names. This is what invalidation, replacement, rollover and
  capped blocks must keep (`RewriteCode`, `InstallCode`, `ResetCode`);
- `HostInv`, `BodyInv`: the block being run is held by the cache, and was entered
  through a thunk it may be entered by;
- `CountInv`: charged minus executed instructions is what is left of the block,
  and the charge never exceeds the slice; `SliceInv`, `LoopInv`: what `ctx.pc`
  and the budget are outside generated code;
- `LateInv`: instructions executed with a halt or fault pending are at most those
  before the current one in its block;
- `ResumeInv`: after a fault, `due` is the skipped access, or the instruction the
  runner stands at; `ExitInv`, `IdleInv`.

There is one lemma per action. The theorems are `TypeCorrect`, `LiveCodeCorrect`,
`LatencyCorrect`, `VectorsCorrect`, `FaultPcCorrect` and `GuestImplemented`.

`FaultPcCorrect` assumes `ResumeAfterFault`; without it the property is false
(run `dispatcher_retry`).

`GuestImplemented` is the refinement `Spec => ImplementsGuest`. The guest's PC is
`GuestPc`, its count `done`. `Call`, `Rewrite`, `SetPc` and `RequestHalt` map to
the guest's own actions; a return of `run_bounded` maps to the guest's return,
where `CountInv` turns the retired count into the number executed
(`LoopCount`), and `Failure` turns a translation error into one the guest may
report; `Execute` maps to one guest instruction, because the block executed is a
`Block` of memory and the next instruction, the chained block, the probed slot or
the exit PC is the successor (`ExecutesFacts`, `GoesFields`, `GuestMoves`), and
because the charge of an entered block keeps `done` below the budget; entering,
refusing, looking up and compiling are stutters (`EntrySimulated`,
`LookupSimulated`, `CompileSimulated`). Its hypothesis `FitsEmpty` says that every
block fits the cache when it is empty: otherwise `compile` returns an error for
want of host memory, which a guest has no reason for. The default cache of
256 MiB (`jit/mod.rs:65`) holds any block of 64 instructions; TLC evaluates `FitsEmpty` on the
instances (`MCFits`).

### Register allocation

`LinearScanProofs` proves for every set of blocks, every pool of registers,
every clobber table and every choice among free registers:

- `ScanTypeOK` and `ScanNoSharing`, without hypothesis on the blocks;
- `ScanOperandsIntact`, under `CleanBlocks`.

The invariant `Inductive` (in `LinearScan`) adds to `NoSharing` the scan's
bookkeeping: each register of a live value has an entry in `active` (`Tracked`),
each entry describes its value and no free register (`Entries`), no register has
two entries (`Owned`), and the frame is used up to the cursor (`Frame`). A
register that is free after the dead values retired therefore belongs to no live
value (`FreedFacts`), and a slot above the cursor to none at all. There is one
lemma per action. For the emitted code `Survives` (no location is clobbered
inside its value's range) and `Kept` (values that are read later are where they
were put) are added. `CleanBlocks` says that no copy is live across a clobber,
that no two-address node is live across a clobber of a general register of the
pool (true of `clobbers_for_op`, whose general registers are all caller-saved and
`ALLOCATABLE_GPRS` are not), and that the last node does not disturb what the
terminal reads. TLC evaluates it on the blocks of `linearscan` (`MCClean`); run
`linearscan_copy` shows what happens without it. `EndMax`, that the last use of
a value exists and is the maximum of its uses, rests on the well-foundedness of
the naturals.

### Host faults

`HostFaultsProofs` begins with what the two recursive functions of the registry
compute: `register` keeps the registry sorted and holds exactly the old and the
new accesses (`RegisterCorrect`), and the binary search `find` finds the access at
an offset, or that there is none (`FindCorrect`). It then proves
`HostFaultsInductive` for every number of threads, Jits, blocks, tables and slots,
and from it `TypeCorrect`, `SlotsCorrect`, `FaultsCorrect` and `SlowPathCorrect`. `Inductive` (in `HostFaults`) has two
halves.

- For direct fastmem: `RegistriesInv` (a registered access is intact or jumps to
  its own slow path, and no patch reaches another access or slow path),
  `PublishedInv` (`CURRENT` is the registry of the innermost direct run, and each
  run restores that of the run around it) and `DirectRun` (a run in an access is
  in one its registry knows). `PatchCorrect` and `EmittedCorrect` show that
  patching an access and placing a block keep `RegistriesInv`; that a rollover
  does not pull the code from under a run is `&mut self` (the guard of `Compile`).
- For page tables: `RangesInv` (reservations do not overlap), `OperationsInv` (an
  operation on a table has the table, and the slot it fills or empties, to
  itself), `SlotsInv` (a slot in use describes a table in use or one whose release
  has not reached it), and `TableRun`: a handler that has not yet read past the
  slot of its table still will, and once it has read the base of that slot, the
  length it reads next is the table's own. Slots are read and written field by
  field, so each step of `reserve`, `release` and the handler is its own lemma.

`BlocksAssumption` and `HostFaultsAssumption` state what the emitter and the host
guarantee: accesses are disjoint instructions, reservations begin at a page.

### Atomics and exclusives

`ExclusivesProofs` proves `ExclusivesInductive` and, from it,
`AtomicMemoryImplemented`: `Spec => ImplementsAtomicMemory`, for every set of
threads, every even width of a doubleword and every workload that satisfies the
assumptions of `Exclusives`.

`Inductive` says for each thread what its code relies on at the place where it is.
`OperandsInv`: the operand registers hold what the translated node says, and the
observed value is a word of the width accessed. `PathInv`: only nodes that belong
there reach a place, and a store-exclusive past the comparison still matches the
monitor. `LockInv`: the fallback lock is held for the whole read-modify-write, so
that the datum a thread is about to overwrite is the one it has read. `MemStep`,
that a step that changes memory leaves no other thread with a stale datum under
the lock, is where `FallbackApart` is needed. Without `OperandsInv` the compare and
exchange of a node has nothing to do with the instruction of the guest; without
`PathInv` a store-exclusive could store over a value nobody has reserved.

Every step is then one of three shapes (`QuietStep`, `FaultStep`, `AtomicStep`), a
read of a load, or the end of a node (`EndStep`). A step maps to an action of
`AtomicMemory` when it obtains the value of the datum: the locked instruction, the
successful round of a compare-exchange loop (not its seed read), the host atomic,
the write under the lock, or its read when a compare-and-swap stores nothing.
`AtomicEffect` shows once for all of them that what is stored is what A64 says.

That the data agree is arithmetic of words of any width. The installed provers know
nothing of 2^n for a variable n; `Inductions` derives it from the number of subsets
of a set with n members (`PowerFacts`), and the law of exponents by induction
(`PowerSum`). The first section of `ExclusivesProofs` shows that And, Or, Xor and
Not of `Words` do to the bits what their names say, and that the masks, shifts and
ors of the translators pack a pair of registers into the datum `AtomicMemory` means
(`HalvesPacked`, `PackedFacts`).

### Optimizer

`OptimizerProofs` is about blocks of any length and machines of any contents, at
the scale of `Ir`.

*The backward pass* (`pass.rs:340-384`) walks the links back from the tail,
unlinks every node without side effects that nothing uses, and takes its operands'
use counts down. It follows `prev`, and the forward pass leaves some of those stale
(run `pipeline_links`), so the list it sees back to front is not the list the
emitter sees front to back. `Removable` says what it needs of the block it starts
from: a well formed list with every operand listed before its use, a `prev` that
skips only nodes without effects that nothing behind the node uses (`LinkBack`), and
no use count beyond `UsesMax`. From it:

- `RemovedOrdered`: what is left is a well formed list, and every operand in it,
  the terminal's value included, is listed before its use.
- `RemovalFaithful`: it runs as the block did, to the same registers, flags,
  memory, accesses and next address, from every machine whose registers the block
  leaves intact.

The invariant of the walk (`Removing`) relates the block so far to the list that is
left, the node the walk is at, and the use counts: each is at least the number of
uses in what is left, so a count of 0 means that nothing uses the node. That a removed node
may be dropped from a run is a second induction, over the list (`Run` without it
agrees on every value but its own).

Every reachable optimized block is the backward pass of the block the forward pass
leaves (`Given`), which gives two theorems about the specification. They are
conditional on `RemovalSafe`, which says that `Given` is `Removable` and is an
invariant of run `pipeline`:

- `OptimizedOrdered`: `RemovalSafe` implies `OperandsDefined`.
- `OptimizedFaithful`: under `RemovalSafe`, and where `Given` leaves the registers
  of other values intact (`LeftIntact`), `OptimizerFaithful` holds exactly if
  `ForwardFaithful` does. It assumes that every machine is one (`IsMachine`: the
  fields a block reads have their types).

The condition cannot be dropped: there are programs, described in section 6, on
which the stale links skip a node in use, and there neither property holds.

*Combined constants* (`pass.rs:500-569`). `CombinedFaithful`: for every value of the
operand, the operation with the constant that `try_combine_const` computes yields
what the two operations yielded, in both widths. Additions, subtractions and
products need that cutting to the width commutes with them (the residue lemmas of
`Inductions`), shifts that quotients by powers of two compose, also of signed words,
and rotations that the halves of a word may be swapped twice. For shifts the
hypothesis is that the sum of the two amounts does not wrap; section 6 has what
happens when it does. Pairs of bitwise operations are left to the runs.

*Fusion* (`emit.rs`). A conditional branch behind a compare is emitted as the compare
once more and a jump on the host's flags. `FusionFaithful`: `Run` of a block with
the fusion equals `RunUnfused`, which branches on the guest's flags. No node
between the producer and the branch writes the flags or an operand, the four host
flags agree with the guest's up to the carry of a subtraction, and the jump that is
chosen takes that into account.

### Induction over data

The library's induction theorems cannot be instantiated by the installed
provers, so the modules argue over sets and functions instead: `Inductions`
derives from the well-foundedness of the naturals that a set containing 0 and
closed under successor contains them all (`SetInduction`), and that a step
function has a sequence of results (`Recursion`), which gives the existence of
the functions that the recursive definitions choose.

### Only model-checked

- `TranslationFaithful` of `Pipeline`, which computes with bits of a fixed width: its
  runs are exhaustive over the fields of the instructions, not inductive. Its
  reference `A64` is a second definition of each instruction, and a proof would be
  one of equality per instruction and field.
- That the forward pass keeps what the block does (`ForwardFaithful`, and with it
  `OptimizerFaithful`) and that it leaves the backward pass a block it can work on
  (`RemovalSafe`): both fail for programs outside those of the run (section 6), so
  no invariant of the code implies them; combined constants are the part proved.
- The liveness properties `RunReturns`, `LockFree` and `AccessesEnd`: liveness
  under fairness is outside the prover's reach.

## 6. Known divergences and what is not modelled

Where the compiler departs from the architecture, the instructions are left out
of the programs of run `pipeline` (`Diverges` and the pools of `MCPipeline`):

- CCMP, MSR NZCV, then a read of the flags: the read is forwarded from the CCMP
  (`pass.rs:122`; MSR NZCV falls into the default arm, `pass.rs:251-259`, which
  does not reset `reach_nzcv`).
- FMOV of a W register that was forwarded from an X value moves the upper bits.
- ADDS and SUBS (immediate and extended) with Rn = 31 read zero, not SP.
- The sum of two constant shift amounts wraps (`pass.rs:554`; a 64-bit MOVN as the
  amount of LSLV, then LSL #1).
- ADD WSP, Wn, #0 keeps the upper half of the X register it was coalesced with:
  `set_gpr_or_sp` does not zero-extend a write of SP.
- CMGT, CMGE, CMHI and CMHS of 64-bit lanes whose result the allocator put in XMM6
  or XMM7: `emit_pcmpgtq_sse41` restores the register over the result
  (`isel.rs:1574-1576`; run `pipeline_result`).
- The stale links of run `pipeline_links`; they can empty a block whose load
  writes its own base, which the architecture calls unpredictable. They can also
  drop a value in use: in MOV X1, #3; MADD X2, X0, X1, X0; MADD W0, W2, W1, W2;
  MOV X2, #3 the sum of the first MADD becomes the copy of a product that is
  inserted in front of it, but keeps its old `prev`; the second MADD takes the
  product as its base; once X2 is overwritten the copy is unlinked, and the node
  its `prev` skips, the product, with it.
- Reserved encodings that are accepted: DUP and ZIP/UZP/TRN on `.1D`, UMOV and
  SMOV with a reserved Q.

Further behaviour the models found or assume away:

- More than 20 patches in one flush: `sort_unstable_by_key` need not keep the
  order of the unlinking and the linking of one site (`code_cache.rs:589`), so
  the site may stay unlinked; execution then goes through the dispatcher.
- With `resume_after_fault = true` the block runs on after the skipped access,
  and re-entering at it executes the instructions behind it again
  (`mod.rs:445`).
- An atomic behind a faulted access of its block still calls `mem_atomic`
  (`isel.rs:4820`): the slow path of `emit_atomic_core`, and `emit_cas128_call`, do
  not test `mem_fault` first, as loads and stores do, although "nothing after the
  fault reaches the embedder" (`isel.rs:4488-4490`). `default_mem_atomic` still
  reads memory then, and stores nothing. `AtomicMemory` lets an access behind a
  fault take effect, so the refinement is silent about it.
- A page-table fault handler that read the base of a released slot and the
  larger length of the table that reuses it may commit a page of another
  mapping; the fault itself is still resolved.
- Guest code at address 0 (the sentinel of `mem_fault_skip_pc`) and guest PCs
  that look like exit codes.

Not modelled:

- Instructions: floating point, cryptography, TBL/TBX, saturating arithmetic,
  variable shifts, CNT and RBIT of vectors, the across-lane operations other
  than ADDV `.4S`, LD3/ST3, the aliases of `ldst_alias.rs`, system registers
  other than TPIDR and NZCV. Those that are defined but not supported inline
  (ABS `.2D`, other ADDV) go to the out-of-line helpers of `interp::plan`
  (`translator.rs:114-124`), which are pure functions covered by the
  repository's differential tests; the programs contain no encoding a helper
  exists for.
- `optimizer/affine.rs`, and the paths of instruction selection for AVX2,
  AVX-512 and GFNI; immediates folded into operands and the extended live ranges
  of fused compares (`emit.rs:197-206`); `load_elements` is one access.
- Following of branches is in `Translator`, not in `Pipeline`.
- Page permissions other than the failing step of `reset`, a protection change
  that fails inside `with_writable`, and commits that fail: the calls are the
  host's.
- The engine: a list of mappings and a generation that no decision of the
  program reads. The classification and wording of `StopReason`.
- The other components marked `not_modelled` in `PROJECT.json`, each with its
  reason.

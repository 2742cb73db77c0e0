------------------------------ MODULE HostFaults ------------------------------
(***************************************************************************)
(* Host faults as part of guest memory accesses: direct fastmem, whose     *)
(* faulting accesses are diverted to their slow path and patched           *)
(* (jit/fastmem_direct.rs), and page tables whose pages are committed when *)
(* they are first touched (jit/page_table.rs).  Threads run Jits, nested   *)
(* when a memory callback runs another one, while other threads reserve    *)
(* and release tables and the embedder maps and unmaps guest memory.       *)
(***************************************************************************)
EXTENDS Integers, Sequences, FiniteSets, SequencesExt

CONSTANTS
  Thread,
  Direct,       \* the Jits with fastmem_direct_bits
  Tabled,       \* the Jits with fastmem_page_bits: each has a page table
  Blocks,       \* blocks that can be emitted: [size, sites]
  CodeSize,     \* bytes of a code cache
  SLOTS,        \* table reservations the fault handler knows
  PAGE,         \* bytes of a host page
  TableLen,     \* TableLen[j]: bytes of the table of j
  TableBases,   \* addresses a reservation may be given
  Embeddings    \* which Jits each thread of the embedder uses

Jit == Direct \cup Tabled
NONE == 0
MAXADDR == 1000000        \* usize::MAX: a slot that is being filled or emptied

ASSUME HostFaultsAssumption ==
  /\ Direct \cap Tabled = {}
  /\ NONE \notin Jit
  /\ SLOTS \in Nat /\ PAGE \in Nat \ {0} /\ CodeSize \in Nat
  /\ TableLen \in [Tabled -> Nat \ {0}]
  /\ \A a \in TableBases : a \in Nat /\ a > 0 /\ a < MAXADDR /\ (a % PAGE) = 0
  /\ Embeddings \subseteq [Thread -> SUBSET Jit]

\* The accesses of a block are instructions of it: they do not overlap, and a slow path,
\* which begins with an instruction of its own, begins in none of them.
ASSUME BlocksAssumption ==
  \A b \in Blocks :
    /\ b.size \in Nat
    /\ b.sites \in Seq([offset : Nat, slow : Nat, len : Nat \ {0}])
    /\ \A k \in DOMAIN b.sites :
         LET s == b.sites[k]
         IN  /\ s.offset + s.len <= b.size /\ s.slow < b.size
             /\ \A m \in DOMAIN b.sites :
                  LET r == b.sites[m]
                  IN  /\ r.slow < s.offset \/ r.slow >= s.offset + s.len
                      /\ \/ k = m
                         \/ r.offset + r.len <= s.offset
                         \/ s.offset + s.len <= r.offset

VARIABLES
  text,      \* text[j]: what each byte of the code cache of j holds
  cursor,    \* cursor[j]: the first free byte of it
  sites,     \* sites[j]: SiteRegistry::sites
  current,   \* CURRENT of each thread
  stack,     \* stack[t]: the runs of t, the innermost last
  mapped,    \* whether the guest page of the direct accesses is mapped
  table,     \* table[j]: the reservation of Jit j
  pages,     \* the committed host pages
  base, len, \* BASE and LEN of each slot
  embed,     \* embed[t]: the table operation thread t is in
  uses       \* uses[t]: the Jits thread t uses; it never changes

vars == <<text, cursor, sites, current, stack, mapped, table, pages, base, len, embed, uses>>
direct == <<text, cursor, sites, current>>
tables == <<table, pages, base, len>>

Slot == 1 .. SLOTS
NoTable == [at |-> NONE, ready |-> FALSE]
Idle == [op |-> "none", jit |-> NONE, at |-> NONE, slot |-> NONE]
\* A code cache that holds nothing.
Blank == [o \in 0 .. (CodeSize - 1) |-> [is |-> "free", to |-> 0]]

Init ==
  /\ text = [j \in Direct |-> Blank]
  /\ cursor = [j \in Direct |-> 0]
  /\ sites = [j \in Direct |-> <<>>]
  /\ current = [t \in Thread |-> NONE]
  /\ stack = [t \in Thread |-> <<>>]
  /\ mapped = TRUE
  /\ table = [j \in Tabled |-> NoTable]
  /\ pages = {}
  /\ base = [s \in Slot |-> 0]
  /\ len = [s \in Slot |-> 0]
  /\ embed = [t \in Thread |-> Idle]
  /\ uses \in Embeddings

Running(j) == \E t \in Thread : \E k \in DOMAIN stack[t] : stack[t][k].jit = j
Top(t) == stack[t][Len(stack[t])]
\* Thread t executes code of the embedder: outside any run, or in a memory callback.
Outside(t) == embed[t] = Idle /\ IF stack[t] = <<>> THEN TRUE ELSE Top(t).pc = "callback"
InCode(t) == stack[t] # <<>> /\ embed[t] = Idle

-----------------------------------------------------------------------------
(* The registry.                                                           *)

\* register: each site of a block placed at `at` goes to the end, or before the first entry
\* that is not below it.
Register(s, at, b) ==
  LET Entry(k) == [offset |-> at + b.sites[k].offset, slow |-> at + b.sites[k].slow,
                   len |-> b.sites[k].len]
      Below(q, e) == Cardinality({n \in DOMAIN q : q[n].offset < e.offset})
      put[k \in 0 .. Len(b.sites)] ==
        IF k = 0 THEN s
        ELSE LET q == put[k - 1]
                 e == Entry(k)
             IN  IF q # <<>> /\ q[Len(q)].offset >= e.offset
                   THEN InsertAt(q, Below(q, e) + 1, e) ELSE Append(q, e)
  IN  put[Len(b.sites)]

\* find: a binary search by offset; the position of the entry, or NONE.
Find(s, offset) ==
  LET probe[w \in (1 .. Len(s) + 1) \X (0 .. Len(s))] ==
        LET lo == w[1]
            hi == w[2]
            mid == (lo + hi) \div 2
        IN  IF lo > hi THEN NONE
            ELSE IF s[mid].offset = offset THEN mid
            ELSE IF s[mid].offset < offset THEN probe[<<mid + 1, hi>>]
            ELSE probe[<<lo, mid - 1>>]
  IN  IF s = <<>> THEN NONE ELSE probe[<<1, Len(s)>>]

\* Mutants of write_patch: one byte too many; and the write is lost.
write_patchLong(code, at, n, rel) ==
  [o \in DOMAIN code |-> CASE o = at -> [is |-> "jmp", to |-> rel]
                           [] o = at + 1 -> [is |-> "rel", to |-> 0]
                           [] o > at + 1 /\ o <= at + n -> [is |-> "nop", to |-> 0]
                           [] OTHER -> code[o]]
write_patchLost(code, at, n, rel) == code

\* write_patch: a short jump to the slow path, the rest of the instruction no operation.
write_patch(code, at, n, rel) ==
  [o \in DOMAIN code |-> CASE o = at -> [is |-> "jmp", to |-> rel]
                           [] o = at + 1 -> [is |-> "rel", to |-> 0]
                           [] o > at + 1 /\ o < at + n -> [is |-> "nop", to |-> 0]
                           [] OTHER -> code[o]]

\* The bytes of an emitted block: its accesses, their slow paths and everything else.
Emitted(code, at, b) ==
  [o \in DOMAIN code |->
     IF o < at \/ o >= at + b.size THEN code[o]
     ELSE IF \E k \in DOMAIN b.sites : at + b.sites[k].offset = o THEN [is |-> "access", to |-> 0]
     ELSE IF \E k \in DOMAIN b.sites : at + b.sites[k].slow = o THEN [is |-> "slow", to |-> 0]
     ELSE [is |-> "code", to |-> 0]]

\* resolve_direct_sites accepts only accesses a short jump fits in.
Patchable(b) == \A k \in DOMAIN b.sites :
  /\ b.sites[k].len >= 3
  /\ b.sites[k].slow - (b.sites[k].offset + 2) \in -128 .. 127

\* compile and install_block, between two blocks of a run or before it; reset when the cache
\* is full drops the code and clears the registry, and the second attempt may fail as well.
Compile(j, b) ==
  /\ ~Running(j) /\ Patchable(b)
  /\ LET full == cursor[j] + b.size > CodeSize
         at == IF full THEN 0 ELSE cursor[j]
         code == IF full THEN Blank ELSE text[j]
         known == IF full THEN <<>> ELSE sites[j]
     IN  IF at + b.size <= CodeSize
           THEN /\ text' = [text EXCEPT ![j] = Emitted(code, at, b)]
                /\ sites' = [sites EXCEPT ![j] = Register(known, at, b)]
                /\ cursor' = [cursor EXCEPT ![j] = at + b.size]
           ELSE /\ text' = [text EXCEPT ![j] = code]
                /\ sites' = [sites EXCEPT ![j] = known]
                /\ cursor' = [cursor EXCEPT ![j] = at]
  /\ UNCHANGED <<current, stack, mapped, tables, embed, uses>>

-----------------------------------------------------------------------------
(* Running.                                                                *)

\* Entered::new around the call of generated code; a Jit without direct fastmem publishes
\* nothing.  Inside a memory callback it is a nested run.
Enter(t, j) ==
  /\ Outside(t) /\ ~Running(j)
  /\ j \in Tabled => table[j].ready
  /\ stack' = [stack EXCEPT ![t] = Append(@, [jit |-> j, prev |-> current[t], pc |-> "code",
                                              at |-> 0, home |-> 0, scan |-> 0])]
  /\ current' = IF j \in Direct THEN [current EXCEPT ![t] = j] ELSE current
  /\ UNCHANGED <<text, cursor, sites, mapped, tables, embed, uses>>

\* Mutant of Restored: dropping Entered publishes no registry.
RestoredNull(f, now) == IF f.jit \in Direct THEN NONE ELSE now

\* Drop of Entered.
Restored(f, now) == IF f.jit \in Direct THEN f.prev ELSE now

Leave(t) ==
  /\ InCode(t) /\ Top(t).pc = "code"
  /\ current' = [current EXCEPT ![t] = Restored(Top(t), @)]
  /\ stack' = [stack EXCEPT ![t] = Front(@)]
  /\ UNCHANGED <<text, cursor, sites, mapped, tables, embed, uses>>

Goto(t, pc, at) == stack' = [stack EXCEPT ![t][Len(stack[t])].pc = pc, ![t][Len(stack[t])].at = at]

\* Control reaches an access; the guard jumps to the slow path when the address is outside
\* the direct range.  `home` is the slow path of the access, wherever it ends up.
Arrive(t) ==
  /\ InCode(t) /\ Top(t).pc = "code" /\ Top(t).jit \in Direct
  /\ \E k \in DOMAIN sites[Top(t).jit], inside \in BOOLEAN :
       LET s == sites[Top(t).jit][k]
       IN  stack' = [stack EXCEPT ![t][Len(stack[t])] =
                       [@ EXCEPT !.pc = "at", !.at = IF inside THEN s.offset ELSE s.slow,
                                 !.home = s.slow]]
  /\ UNCHANGED <<direct, mapped, tables, embed, uses>>

Here(t) == text[Top(t).jit][Top(t).at]

\* A mapped page: the access is done.
AccessDirect(t) ==
  /\ InCode(t) /\ Top(t).jit \in Direct /\ Top(t).pc = "at"
  /\ Here(t).is = "access" /\ mapped
  /\ Goto(t, "code", Top(t).at)
  /\ UNCHANGED <<direct, mapped, tables, embed, uses>>

\* An unmapped page: the host raises a fault.
Fault(t) ==
  /\ InCode(t) /\ Top(t).jit \in Direct /\ Top(t).pc = "at"
  /\ Here(t).is = "access" /\ ~mapped
  /\ Goto(t, "fault", Top(t).at)
  /\ UNCHANGED <<direct, mapped, tables, embed, uses>>

\* on_fault and divert_current: the registry of the innermost run is asked for the faulting
\* instruction.  A site is patched, unless the host refuses to make the page writable, and the
\* thread resumes at it or at its slow path.
Divert(t) ==
  /\ InCode(t) /\ Top(t).pc = "fault"
  /\ LET j == current[t]
         rip == Top(t).at
         k == IF j = NONE \/ j # Top(t).jit THEN NONE ELSE Find(sites[j], rip)
         s == sites[j][k]
     IN  \/ k = NONE /\ Goto(t, "chained", rip) /\ UNCHANGED text
         \/ k # NONE /\ Goto(t, "at", rip)
            /\ text' = [text EXCEPT ![j] = write_patch(@, rip, s.len, s.slow - (rip + 2))]
         \/ k # NONE /\ Goto(t, "at", s.slow) /\ UNCHANGED text
  /\ UNCHANGED <<cursor, sites, current, mapped, tables, embed, uses>>

\* The patched access.
ShortJump(t) ==
  /\ InCode(t) /\ Top(t).jit \in Direct /\ Top(t).pc = "at" /\ Here(t).is = "jmp"
  /\ Goto(t, "at", Top(t).at + 2 + Here(t).to)
  /\ UNCHANGED <<direct, mapped, tables, embed, uses>>

\* The slow path calls the embedder, which may run another Jit before it returns.
SlowPath(t) ==
  /\ InCode(t) /\ Top(t).jit \in Direct /\ Top(t).pc = "at" /\ Here(t).is = "slow"
  /\ Goto(t, "callback", Top(t).at)
  /\ UNCHANGED <<direct, mapped, tables, embed, uses>>

Return(t) ==
  /\ InCode(t) /\ Top(t).pc = "callback"
  /\ Goto(t, "code", Top(t).at)
  /\ UNCHANGED <<direct, mapped, tables, embed, uses>>

\* The embedder of a direct Jit maps or unmaps the guest page at any time.
Remap ==
  /\ \E t \in Thread : uses[t] \cap Direct # {}
  /\ mapped' = ~mapped
  /\ UNCHANGED <<direct, stack, tables, embed, uses>>

-----------------------------------------------------------------------------
(* Page tables.                                                            *)

PageOf(a) == a - (a % PAGE)
PagesOf(a, n) == {p \in PageOf(a) .. PageOf(a + n - 1) : (p % PAGE) = 0}
Reserved == {j \in Tabled : table[j].at # NONE}
TablePages(j) == PagesOf(table[j].at, TableLen[j])

\* reserve: the host hands out a free range, then the first free slot is claimed; the slot's
\* length is written before its base.
Reserve(t, j) ==
  /\ Outside(t)
  /\ ~Running(j) /\ table[j] = NoTable
  /\ \A u \in Thread : embed[u].jit # j
  /\ \E a \in TableBases :
       /\ \A q \in Reserved : PagesOf(a, TableLen[j]) \cap TablePages(q) = {}
       /\ table' = [table EXCEPT ![j] = [at |-> a, ready |-> FALSE]]
       /\ embed' = [embed EXCEPT ![t] = [op |-> "claim", jit |-> j, at |-> a, slot |-> 1]]
  /\ UNCHANGED <<direct, stack, mapped, pages, base, len, uses>>

\* Mutant of Claimable: a slot another thread is filling counts as free.
ClaimableBusy(s) == base[s] \in {0, MAXADDR}

\* The compare_exchange of a slot.
Claimable(s) == base[s] = 0

ReserveStep(t) ==
  LET e == embed[t]
  IN  /\ \/ /\ e.op = "claim" /\ e.slot \in Slot /\ Claimable(e.slot)
            /\ base' = [base EXCEPT ![e.slot] = MAXADDR]
            /\ embed' = [embed EXCEPT ![t].op = "length"]
            /\ UNCHANGED <<len, pages, table>>
         \/ /\ e.op = "claim" /\ e.slot \in Slot /\ ~Claimable(e.slot)
            /\ embed' = [embed EXCEPT ![t].slot = @ + 1]
            /\ UNCHANGED <<base, len, pages, table>>
         \/ /\ e.op = "length"
            /\ len' = [len EXCEPT ![e.slot] = TableLen[e.jit]]
            /\ embed' = [embed EXCEPT ![t].op = "publish"]
            /\ UNCHANGED <<base, pages, table>>
         \/ /\ e.op = "publish"
            /\ base' = [base EXCEPT ![e.slot] = e.at]
            /\ table' = [table EXCEPT ![e.jit].ready = TRUE]
            /\ embed' = [embed EXCEPT ![t] = Idle]
            /\ UNCHANGED <<len, pages>>
         \/ /\ e.op = "claim" /\ e.slot > SLOTS
            /\ pages' = pages \cup TablePages(e.jit)
            /\ table' = [table EXCEPT ![e.jit].ready = TRUE]
            /\ embed' = [embed EXCEPT ![t] = Idle]
            /\ UNCHANGED <<base, len>>
      /\ UNCHANGED <<direct, stack, mapped, uses>>

\* release: every slot of the table is emptied, then the range is given back.
Release(t, j) ==
  /\ Outside(t)
  /\ ~Running(j) /\ table[j].ready
  /\ table' = [table EXCEPT ![j].ready = FALSE]
  /\ embed' = [embed EXCEPT ![t] = [op |-> "drop", jit |-> j, at |-> table[j].at, slot |-> 1]]
  /\ UNCHANGED <<direct, stack, mapped, pages, base, len, uses>>

ReleaseStep(t) ==
  LET e == embed[t]
      next == [e EXCEPT !.op = "drop", !.slot = e.slot + 1]
  IN  /\ \/ /\ e.op = "drop" /\ e.slot \in Slot /\ base[e.slot] = e.at
            /\ base' = [base EXCEPT ![e.slot] = MAXADDR]
            /\ embed' = [embed EXCEPT ![t].op = "unlength"]
            /\ UNCHANGED <<len, pages, table>>
         \/ /\ e.op = "drop" /\ e.slot \in Slot /\ base[e.slot] # e.at
            /\ embed' = [embed EXCEPT ![t] = next]
            /\ UNCHANGED <<base, len, pages, table>>
         \/ /\ e.op = "unlength"
            /\ len' = [len EXCEPT ![e.slot] = 0]
            /\ embed' = [embed EXCEPT ![t].op = "empty"]
            /\ UNCHANGED <<base, pages, table>>
         \/ /\ e.op = "empty"
            /\ base' = [base EXCEPT ![e.slot] = 0]
            /\ embed' = [embed EXCEPT ![t] = next]
            /\ UNCHANGED <<len, pages, table>>
         \/ /\ e.op = "drop" /\ e.slot > SLOTS
            /\ pages' = pages \ TablePages(e.jit)
            /\ table' = [table EXCEPT ![e.jit] = NoTable]
            /\ embed' = [embed EXCEPT ![t] = Idle]
            /\ UNCHANGED <<base, len>>
      /\ UNCHANGED <<direct, stack, mapped, uses>>

\* prepare_write.
PrepareWrite(j, from, n) ==
  /\ table[j].ready
  /\ pages' = pages \cup PagesOf(table[j].at + from, n)
  /\ UNCHANGED <<direct, stack, mapped, table, base, len, embed, uses>>

\* The guard of generated code reads the entry of a guest page.
Touch(t) ==
  /\ InCode(t) /\ Top(t).jit \in Tabled /\ Top(t).pc = "code"
  /\ \E o \in 0 .. (TableLen[Top(t).jit] - 1) :
       stack' = [stack EXCEPT ![t][Len(stack[t])] =
                   [@ EXCEPT !.pc = "load", !.at = table[Top(t).jit].at + o]]
  /\ UNCHANGED <<direct, mapped, tables, embed, uses>>

\* The load itself, or the fault: the handler of fastmem_direct does not know the
\* instruction and passes the fault on to on_fault of page_table, which goes through the slots.
LoadEntry(t) ==
  /\ InCode(t) /\ Top(t).pc = "load"
  /\ IF PageOf(Top(t).at) \in pages
       THEN Goto(t, "code", Top(t).at)
       ELSE stack' = [stack EXCEPT ![t][Len(stack[t])] = [@ EXCEPT !.pc = "base", !.scan = 1]]
  /\ UNCHANGED <<direct, mapped, tables, embed, uses>>

WithinSlot(addr, b, n) == b # 0 /\ addr >= b /\ addr < b + n

\* on_fault loads BASE and LEN of a slot one after the other; `home` holds the base.
HandlerStep(t) ==
  LET f == Top(t)
      Now(g) == stack' = [stack EXCEPT ![t][Len(stack[t])] = g]
  IN  /\ InCode(t)
      /\ \/ /\ f.pc = "base" /\ f.scan \in Slot
            /\ Now([f EXCEPT !.pc = "len", !.home = base[f.scan]])
            /\ UNCHANGED pages
         \/ /\ f.pc = "base" /\ f.scan > SLOTS
            /\ Now([f EXCEPT !.pc = "chained"])
            /\ UNCHANGED pages
         \/ /\ f.pc = "len" /\ WithinSlot(f.at, f.home, len[f.scan])
            /\ Now([f EXCEPT !.pc = "load", !.scan = 0, !.home = 0])
            /\ pages' = pages \cup {PageOf(f.at)}
         \/ /\ f.pc = "len" /\ ~WithinSlot(f.at, f.home, len[f.scan])
            /\ Now([f EXCEPT !.pc = "base", !.scan = f.scan + 1, !.home = 0])
            /\ UNCHANGED pages
      /\ UNCHANGED <<direct, mapped, table, base, len, embed, uses>>

-----------------------------------------------------------------------------

\* What a thread does on its own once it has begun: generated code, handlers and the
\* operations on tables do not wait for anybody.
Proceed(t) ==
  \/ AccessDirect(t) \/ Fault(t) \/ Divert(t) \/ ShortJump(t) \/ SlowPath(t)
  \/ LoadEntry(t) \/ HandlerStep(t) \/ ReserveStep(t) \/ ReleaseStep(t)

Next ==
  \/ \E t \in Thread :
       \/ Proceed(t) \/ Return(t) \/ Leave(t) \/ Arrive(t) \/ Touch(t)
       \/ \E j \in uses[t] \cap Direct, b \in Blocks : Compile(j, b)
       \/ \E j \in uses[t] : Enter(t, j)
       \/ \E j \in uses[t] \cap Tabled : Reserve(t, j) \/ Release(t, j) \/ PrepareWrite(j, 0, 1)
  \/ Remap

Spec == Init /\ [][Next]_vars

\* The host schedules a thread that has something to do.
FairSpec == Spec /\ \A t \in Thread : WF_vars(Proceed(t))

-----------------------------------------------------------------------------

\* A table in use is either committed as a whole or described by exactly one slot, with its
\* own length, whatever reservations and releases race for the slots.
SlotsExact ==
  \A j \in Tabled : table[j].ready =>
    \/ TablePages(j) \subseteq pages
    \/ \E s \in Slot : /\ base[s] = table[j].at /\ len[s] = TableLen[j]
                      /\ \A q \in Slot \ {s} : base[q] # table[j].at

\* No fault of an access of generated code reaches the handler that was installed before:
\* every direct access is known to the registry the thread has published, also after a
\* nested run and after a rollover of the cache (fastmem_direct.rs), and every page of a
\* table in use is known to a slot whatever other threads do to theirs (page_table.rs).
FaultsResolved == \A t \in Thread : \A k \in DOMAIN stack[t] : stack[t][k].pc # "chained"

\* Whichever way an access leaves the inline code (the guard, a diverted fault, the patched
\* jump), it arrives at its own slow path and at an instruction of the current code.
OwnSlowPath ==
  \A t \in Thread : \A k \in DOMAIN stack[t] :
    LET f == stack[t][k]
        c == text[f.jit][f.at].is
    IN  f.jit \in Direct /\ f.pc \in {"at", "callback"} =>
          /\ c \in {"access", "jmp", "slow"}
          /\ c = "slow" => f.at = f.home
          /\ c = "jmp" => f.at + 2 + text[f.jit][f.at].to = f.home

\* An access that has begun is performed inline or handed to the embedder, whatever faults,
\* patches and remappings come in between.
AccessesEnd ==
  \A t \in Thread :
    (stack[t] # <<>> /\ Top(t).pc \in {"at", "fault", "load"}) ~>
      (stack[t] # <<>> /\ Top(t).pc \in {"code", "callback"})
-----------------------------------------------------------------------------
(* The inductive invariant, in parts.                                      *)

Site == [offset : Nat, slow : Nat, len : Nat]
Byte == [is : {"free", "code", "access", "slow", "jmp", "rel", "nop"}, to : Int]
Frame == [jit : Jit, prev : Direct \cup {NONE}, at : Nat, home : Nat, scan : Nat,
          pc : {"code", "at", "fault", "callback", "load", "base", "len"}]
Reservation == [at : Nat, ready : BOOLEAN]
\* The steps of reserve and release in which a thread has a slot to itself.
Filling == {"length", "publish", "unlength", "empty"}
Releasing == {"drop", "unlength", "empty"}
Operation == [op : {"none", "claim", "drop"} \cup Filling, jit : Tabled \cup {NONE},
              at : Nat, slot : Nat]

TypeOK ==
  /\ text \in [Direct -> [0 .. (CodeSize - 1) -> Byte]]
  /\ cursor \in [Direct -> 0 .. CodeSize]
  /\ sites \in [Direct -> Seq(Site)]
  /\ current \in [Thread -> Direct \cup {NONE}]
  /\ stack \in [Thread -> Seq(Frame)]
  /\ mapped \in BOOLEAN
  /\ table \in [Tabled -> Reservation]
  /\ base \in [Slot -> Nat] /\ len \in [Slot -> Nat]
  /\ embed \in [Thread -> Operation]
  /\ uses \in [Thread -> SUBSET Jit]

\* Two accesses, as find and write_patch rely on them: neither patch reaches the other or
\* the slow path of the other.
Separate(r, s) ==
  /\ r.slow < s.offset \/ r.slow >= s.offset + s.len
  /\ s.slow < r.offset \/ s.slow >= r.offset + r.len
  /\ r.offset + r.len <= s.offset \/ s.offset + s.len <= r.offset

Sorted(q) == \A m, n \in DOMAIN q : m < n => q[m].offset < q[n].offset

\* A registered access lies in the code, is intact or jumps to its slow path.
SiteInv(s, code, end) ==
  /\ s.len >= 2 /\ s.offset + s.len <= end /\ s.slow < end
  /\ s.slow < s.offset \/ s.slow >= s.offset + s.len
  /\ code[s.slow].is = "slow"
  /\ \/ code[s.offset].is = "access"
     \/ code[s.offset] = [is |-> "jmp", to |-> s.slow - (s.offset + 2)]

RegistryInv(q, code, end) ==
  /\ Sorted(q)
  /\ \A n \in DOMAIN q : SiteInv(q[n], code, end)
  /\ \A m, n \in DOMAIN q : m # n => Separate(q[m], q[n])

\* What a thread has published while f is its innermost run.
After(f) == IF f.jit \in Direct THEN f.jit ELSE f.prev

\* CURRENT is the registry of the innermost direct run, and each run will restore that of
\* the run around it.
PublishedInv ==
  \A t \in Thread :
    /\ current[t] = IF stack[t] = <<>> THEN NONE ELSE After(Top(t))
    /\ \A k \in DOMAIN stack[t] :
         stack[t][k].prev = IF k = 1 THEN NONE ELSE After(stack[t][k - 1])

\* A run of generated code with direct accesses: where it is and which access it is in.
DirectRun(f) ==
  /\ f.pc \in {"code", "at", "fault", "callback"}
  /\ f.pc # "code" => \E n \in DOMAIN sites[f.jit] :
       LET s == sites[f.jit][n]
       IN  /\ f.home = s.slow
           /\ f.pc = "at" => f.at \in {s.offset, s.slow}
           /\ f.pc = "fault" => f.at = s.offset
           /\ f.pc = "callback" => f.at = s.slow

\* A table described by the slot s and no other.
Describes(s, j) ==
  /\ base[s] = table[j].at /\ len[s] = TableLen[j]
  /\ \A q \in Slot \ {s} : base[q] # table[j].at

\* A run with a table: the table is in use, and the handler has not yet passed its slot.
TableRun(f) ==
  /\ f.pc \in {"code", "load", "base", "len"}
  /\ table[f.jit].ready
  /\ f.pc # "code" => f.at >= table[f.jit].at /\ f.at < table[f.jit].at + TableLen[f.jit]
  /\ f.pc \in {"base", "len"} => f.scan >= 1 /\ \E s \in Slot :
       /\ Describes(s, f.jit) /\ f.scan <= s
       /\ f.pc = "len" /\ f.scan = s => f.home = table[f.jit].at

RunInv(f) == (f.jit \in Direct => DirectRun(f)) /\ (f.jit \in Tabled => TableRun(f))

\* Reserved ranges have no page in common, and only they are in use.
RangesInv ==
  /\ \A j \in Tabled : table[j].at # NONE => table[j].at \in TableBases
  /\ \A j \in Tabled : table[j].ready => table[j].at # NONE
  /\ \A j, k \in Reserved : j # k => TablePages(j) \cap TablePages(k) = {}

\* An operation on a table has it, and the slot it fills or empties, to itself.
OperationInv(t) ==
  LET e == embed[t]
  IN  /\ e.op = "none" => e = Idle
      /\ e.op # "none" =>
           /\ e.jit \in Tabled /\ table[e.jit].at = e.at /\ ~table[e.jit].ready
           /\ e.at \in TableBases /\ e.slot >= 1
           /\ \A u \in Thread \ {t} : embed[u].jit # e.jit
      /\ e.op \in Filling =>
           /\ e.slot \in Slot /\ base[e.slot] = MAXADDR
           /\ \A u \in Thread \ {t} : embed[u].op \in Filling => embed[u].slot # e.slot
      /\ e.op = "publish" => len[e.slot] = TableLen[e.jit]

\* A slot in use describes a table in use, or one whose release has not reached it.
SlotInv(s) ==
  base[s] \in {0, MAXADDR} \/ \E j \in Tabled :
    /\ table[j].at = base[s]
    /\ table[j].ready \/ \E t \in Thread :
         /\ embed[t].jit = j /\ embed[t].op \in Releasing
         /\ embed[t].slot <= s /\ (embed[t].op # "drop" => embed[t].slot < s)

RegistriesInv == \A j \in Direct : RegistryInv(sites[j], text[j], cursor[j])
RunsInv == \A t \in Thread : \A k \in DOMAIN stack[t] : RunInv(stack[t][k])
OperationsInv == \A t \in Thread : OperationInv(t)
SlotsInv == \A s \in Slot : SlotInv(s)

Inductive == /\ TypeOK
             /\ RegistriesInv /\ PublishedInv /\ RunsInv
             /\ RangesInv /\ OperationsInv /\ SlotsInv /\ SlotsExact
=============================================================================

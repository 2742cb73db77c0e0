----------------------------- MODULE Exclusives -----------------------------
(***************************************************************************)
(* Atomics and exclusives as the JIT performs them: the translation of the *)
(* A64 instructions (frontend/translate/ldstexcl.rs, lse_atomic.rs), the   *)
(* code emitted for the atomic nodes (backend/isel.rs) and the host side   *)
(* of CpuContext::mem_atomic (jit/atomic.rs).  Several guest threads share *)
(* a quadword made of two doublewords.  A page is accessed directly or     *)
(* through the callbacks, and the embedder may remap it at any time; a     *)
(* direct access that then faults is diverted to the callback.             *)
(***************************************************************************)
EXTENDS Words, Sequences

CONSTANTS
  Thread,
  Half,       \* bits of a doubleword; a word has Half / 2
  Workload    \* the embedder's callback and the instructions of each thread

Nobody == "nobody"

ASSUME ThreadAssumption == Nobody \notin Thread
ASSUME HalfAssumption == Half \in Nat \ {0} /\ Half % 2 = 0

\* The instructions: the registers they compare with and store, the doubleword they
\* address; wide, a pair of doublewords.
Mnemonic == {"LDXR", "LDXP", "STXR", "STXP", "LDAR", "STLR", "LSE", "CAS", "CASP", "CLREX"}
Operation == {"Add", "Clr", "Eor", "Set", "Smax", "Smin", "Umax", "Umin", "Swp", "Cas"}
Stored(mn) == CASE mn \in {"STXP", "CASP"} -> 2
                [] mn \in {"STXR", "STLR", "LSE", "CAS"} -> 1
                [] mn \in {"LDXR", "LDXP", "LDAR", "CLREX"} -> 0
Compared(mn) == CASE mn = "CASP" -> 2 [] mn = "CAS" -> 1 [] mn \notin {"CAS", "CASP"} -> 0
Instruction ==
  {i \in [mn : Mnemonic, op : Operation, wide : BOOLEAN, at : {0, 1},
          exp : Seq(Word(Half)), val : Seq(Word(Half))] :
     /\ i.wide => i.mn \in {"LDXP", "STXP", "CASP"}
     /\ i.op = "Cas" <=> i.mn # "LSE"
     /\ Len(i.val) = Stored(i.mn) /\ Len(i.exp) = Compared(i.mn)}

ASSUME WorkloadAssumption ==
  Workload \subseteq [callback : {"host", "misaligned", "default"}, direct : BOOLEAN,
                      faults : BOOLEAN, insns : [Thread -> SUBSET Instruction]]

\* What the fallback lock serialises is atomic only against other users of the lock
\* (atomic.rs): the page is not accessed directly as well, and has no plain stores.
ASSUME FallbackApart ==
  \A w \in Workload : w.callback # "host" =>
    ~w.direct /\ \A t \in Thread : \A i \in w.insns[t] : i.mn # "STLR"

VARIABLES
  work,     \* the workload, fixed at the start
  mem,      \* the two doublewords
  direct,   \* the guard admits the page for direct accesses
  lock,     \* FALLBACK_LOCK
  insn,     \* the instruction a thread executes
  node,     \* the IR node it was translated to
  pc,       \* where in the node's code the thread is
  arg3,     \* ARG3_REG: operand, or new value of a Cas
  r11,      \* expected value of a Cas
  rax,      \* the value the code has observed
  monitor,  \* ctx.exclusive_addr, exclusive_size and exclusive_value
  fault,    \* ctx.mem_fault
  void,     \* history: the running node's access was skipped or has faulted
  out       \* the guest registers the node has just written

vars == <<work, mem, direct, lock, insn, node, pc, arg3, r11, rax, monitor, fault, void, out>>
regs == <<arg3, r11, rax>>

-----------------------------------------------------------------------------
(* Translation                                                             *)

\* The registers lo and hi of a pair as one value: vec_build_q of two 64-bit
\* registers, or and, lsl and or of their 32-bit halves.
Packed(wide, r) ==
  LET h == Half \div 2 IN
  CASE Len(r) = 1 -> r[1]
    [] wide -> r[1] + (2^Half) * r[2]
    [] OTHER -> Or(And(r[1], Ones(h), Half), Trunc(r[2] * 2^h, Half), Half)

\* What set_x, set_w and the extraction of the halves leave in rt and rt2.
Unpacked(wide, v) ==
  LET h == Half \div 2 IN
  IF wide THEN <<Trunc(v, Half), v \div 2^Half>>
          ELSE <<Trunc(v, h), Trunc(v \div 2^h, h)>>

\* The Kind of an instruction; its acquire and release variants have the same one.
Kind(mn) ==
  CASE mn \in {"LDXR", "LDXP"} -> "LoadEx"
    [] mn \in {"STXR", "STXP"} -> "StoreEx"
    [] mn = "LDAR" -> "Load"
    [] mn = "STLR" -> "Store"

\* The node of a Kind; bits is the number of bits accessed.
TranslateExclusive(i) ==
  [op |-> Kind(i.mn), bits |-> IF i.wide THEN 2 * Half ELSE Half,
   rmw |-> "Cas", at |-> i.at, exp |-> 0,
   val |-> IF i.mn \in {"STXR", "STXP", "STLR"} THEN Packed(i.wide, i.val) ELSE 0]

\* atomic_rmw: one node per instruction.
TranslateRmw(i) ==
  [op |-> IF i.mn = "CAS" THEN "AtomicCas" ELSE "AtomicRmw", bits |-> Half,
   rmw |-> IF i.mn = "CAS" THEN "Cas" ELSE i.op, at |-> i.at,
   exp |-> IF i.mn = "CAS" THEN i.exp[1] ELSE 0, val |-> i.val[1]]

TranslateCasp(i) ==
  [op |-> "AtomicCas", bits |-> IF i.wide THEN 2 * Half ELSE Half, rmw |-> "Cas", at |-> i.at,
   exp |-> Packed(i.wide, i.exp), val |-> Packed(i.wide, i.val)]

Translate(i) ==
  CASE i.mn \in {"LDXR", "LDXP", "STXR", "STXP", "LDAR", "STLR"} -> TranslateExclusive(i)
    [] i.mn \in {"LSE", "CAS"} -> TranslateRmw(i)
    [] i.mn = "CASP" -> TranslateCasp(i)
    [] i.mn = "CLREX" -> [op |-> "Clrex", bits |-> Half, rmw |-> "Cas", at |-> 0, exp |-> 0, val |-> 0]

\* The guest registers an instruction writes, from the value of its node.
Written(i, v) ==
  CASE i.mn \in {"STLR", "CLREX"} -> <<>>
    [] i.mn \in {"LDXP", "CASP"} -> Unpacked(i.wide, v)
    [] OTHER -> <<v>>

-----------------------------------------------------------------------------
(* The operations                                                          *)

\* apply: the value stored, or the old one for a Cas that fails.
Apply(op, n, old, operand, expected) ==
  CASE op = "Add" -> Trunc(old + operand, n)
    [] op = "Clr" -> And(old, Not(operand, n), n)
    [] op = "Eor" -> Xor(old, operand, n)
    [] op = "Set" -> Or(old, operand, n)
    [] op = "Smax" -> IF Signed(old, n) >= Signed(operand, n) THEN old ELSE operand
    [] op = "Smin" -> IF Signed(old, n) <= Signed(operand, n) THEN old ELSE operand
    [] op = "Umax" -> IF old >= operand THEN old ELSE operand
    [] op = "Umin" -> IF old <= operand THEN old ELSE operand
    [] op = "Swp" -> operand
    [] op = "Cas" -> IF old = expected THEN operand ELSE old

\* The value the retry loop of emit_atomic_core computes in r11 from rax: cmovl,
\* cmovg, cmovb and cmova take the operand when it wins the comparison.
Computed(op, old, operand) ==
  CASE op = "Clr" -> And(old, Not(operand, Half), Half)
    [] op = "Eor" -> Xor(old, operand, Half)
    [] op = "Set" -> Or(old, operand, Half)
    [] op = "Smax" -> IF Signed(old, Half) < Signed(operand, Half) THEN operand ELSE old
    [] op = "Smin" -> IF Signed(old, Half) > Signed(operand, Half) THEN operand ELSE old
    [] op = "Umax" -> IF old < operand THEN operand ELSE old
    [] op = "Umin" -> IF old > operand THEN operand ELSE old

Datum(n) == IF n.bits = Half THEN mem[n.at] ELSE mem[0] + (2^Half) * mem[1]
Put(n, v) ==
  mem' = IF n.bits = Half THEN [mem EXCEPT ![n.at] = v]
                          ELSE [h \in {0, 1} |-> Trunc(v \div 2^(Half * h), Half)]

-----------------------------------------------------------------------------
(* Generated code                                                          *)

Init ==
  /\ work \in Workload
  /\ mem = [h \in {0, 1} |-> 0]
  /\ direct = work.direct
  /\ lock = Nobody
  /\ insn = [t \in Thread |-> [mn |-> "none"]]
  /\ node = [t \in Thread |-> [op |-> "none"]]
  /\ pc = [t \in Thread |-> "idle"]
  /\ arg3 = [t \in Thread |-> 0] /\ r11 = [t \in Thread |-> 0] /\ rax = [t \in Thread |-> 0]
  /\ monitor = [t \in Thread |-> [size |-> 0, addr |-> 0, value |-> 0]]
  /\ fault = [t \in Thread |-> FALSE] /\ void = [t \in Thread |-> FALSE]
  /\ out = [t \in Thread |-> <<>>]

At(t, here) == pc[t] = here
Goto(t, there) == pc' = [pc EXCEPT ![t] = there]
Observe(t, v) == rax' = [rax EXCEPT ![t] = v]

\* Mutant of MonitorMatches: compares the address only.
MonitorMatchesAddr(t, n) == monitor[t].addr = n.at /\ monitor[t].size # 0

\* The two comparisons at the head of emit_store_ex.
MonitorMatches(t, n) == monitor[t].addr = n.at /\ monitor[t].size = n.bits

\* Where the code of a node starts.  A 16-byte compare-and-swap always calls
\* mem_atomic; a narrower one tries the guard first.
Entry(n) ==
  CASE n.op = "Clrex" -> "finish"
    [] n.op \in {"Load", "LoadEx"} -> "load"
    [] n.op = "Store" -> "store"
    [] n.op = "StoreEx" -> "monitor"
    [] OTHER -> IF n.bits = Half THEN "guard" ELSE "call"

\* The prologue of a node: emit_atomic_rmw, emit_atomic_cas, emit_atomic_cas128
\* and emit_store_ex load the operand and the expected value.
Issue(t) ==
  /\ At(t, "idle")
  /\ \E i \in work.insns[t] :
       LET n == Translate(i) IN
       /\ insn' = [insn EXCEPT ![t] = i]
       /\ node' = [node EXCEPT ![t] = n]
       /\ Goto(t, Entry(n))
       /\ arg3' = [arg3 EXCEPT ![t] = n.val]
       /\ r11' = [r11 EXCEPT ![t] = IF n.op = "StoreEx" THEN monitor[t].value ELSE n.exp]
  /\ out' = [out EXCEPT ![t] = <<>>]
  /\ UNCHANGED <<work, mem, direct, lock, rax, monitor, fault, void>>

CheckMonitor(t) ==
  /\ At(t, "monitor")
  /\ Goto(t, IF ~MonitorMatches(t, node[t]) THEN "mismatch"
             ELSE IF node[t].bits = Half THEN "guard" ELSE "call")
  /\ UNCHANGED <<work, mem, direct, lock, insn, node, regs, monitor, fault, void, out>>

\* emit_fastmem_guard
Guard(t) ==
  /\ At(t, "guard")
  /\ Goto(t, IF ~direct THEN "call"
             ELSE IF node[t].rmw \in {"Add", "Swp", "Cas"} THEN "locked_insn" ELSE "seed")
  /\ UNCHANGED <<work, mem, direct, lock, insn, node, regs, monitor, fault, void, out>>

\* A direct site whose page is gone is diverted to the slow path of its node.
Divert(t) ==
  /\ pc[t] \in {"locked_insn", "seed", "retry"} /\ ~direct
  /\ Goto(t, "call")
  /\ UNCHANGED <<work, mem, direct, lock, insn, node, regs, monitor, fault, void, out>>

\* lock xadd, xchg or lock cmpxchg
LockedInsn(t) ==
  LET n == node[t] IN
  /\ At(t, "locked_insn") /\ direct
  /\ Observe(t, Datum(n))
  /\ CASE n.rmw = "Add" -> Put(n, Trunc(Datum(n) + arg3[t], Half))
       [] n.rmw = "Swp" -> Put(n, arg3[t])
       [] n.rmw = "Cas" -> Put(n, IF Datum(n) = r11[t] THEN arg3[t] ELSE Datum(n))
  /\ Goto(t, "finish")
  /\ UNCHANGED <<work, direct, lock, insn, node, arg3, r11, monitor, fault, void, out>>

Seed(t) ==
  /\ At(t, "seed") /\ direct
  /\ Observe(t, Datum(node[t]))
  /\ Goto(t, "retry")
  /\ UNCHANGED <<work, mem, direct, lock, insn, node, arg3, r11, monitor, fault, void, out>>

\* Mutant of Retry: a failed round does not take up the value it has seen.
RetryStale(t) ==
  LET n == node[t] IN
  /\ At(t, "retry") /\ direct
  /\ r11' = [r11 EXCEPT ![t] = Computed(n.rmw, rax[t], arg3[t])]
  /\ IF Datum(n) = rax[t] THEN Put(n, r11'[t]) /\ Goto(t, "finish") ELSE UNCHANGED <<mem, pc>>
  /\ UNCHANGED <<work, direct, lock, insn, node, arg3, rax, monitor, fault, void, out>>

\* One round of the loop: compute, lock cmpxchg, jne retry.
Retry(t) ==
  LET n == node[t] IN
  /\ At(t, "retry") /\ direct
  /\ r11' = [r11 EXCEPT ![t] = Computed(n.rmw, rax[t], arg3[t])]
  /\ IF Datum(n) = rax[t]
       THEN Put(n, r11'[t]) /\ Goto(t, "finish") /\ UNCHANGED rax
       ELSE Observe(t, Datum(n)) /\ UNCHANGED <<mem, pc>>
  /\ UNCHANGED <<work, direct, lock, insn, node, arg3, monitor, fault, void, out>>

\* emit_load: direct, or mem_read unless an earlier access faulted.  A quadword
\* is read in two halves by either.
Load(t) ==
  /\ At(t, "load") /\ (direct \/ ~fault[t])
  /\ IF node[t].bits = Half
       THEN Observe(t, Datum(node[t])) /\ Goto(t, "finish")
       ELSE Observe(t, mem[0]) /\ Goto(t, "load_high")
  /\ UNCHANGED <<work, mem, direct, lock, insn, node, arg3, r11, monitor, fault, void, out>>

LoadHigh(t) ==
  /\ At(t, "load_high")
  /\ Observe(t, rax[t] + (2^Half) * mem[1])
  /\ Goto(t, "finish")
  /\ UNCHANGED <<work, mem, direct, lock, insn, node, arg3, r11, monitor, fault, void, out>>

\* emit_store
Store(t) ==
  /\ At(t, "store") /\ (direct \/ ~fault[t])
  /\ Put(node[t], arg3[t])
  /\ Goto(t, "finish")
  /\ UNCHANGED <<work, direct, lock, insn, node, regs, monitor, fault, void, out>>

\* emit_skip_if_faulted, or a callback that reports a fault.
SkipOrFault(t) ==
  /\ pc[t] \in {"load", "store"} /\ ~direct
  /\ fault[t] \/ work.faults
  /\ fault' = [fault EXCEPT ![t] = TRUE] /\ void' = [void EXCEPT ![t] = TRUE]
  /\ Goto(t, "finish")
  /\ UNCHANGED <<work, mem, direct, lock, insn, node, regs, monitor, out>>

-----------------------------------------------------------------------------
(* mem_atomic                                                              *)

\* host_atomic on an aligned doubleword: one host atomic.
HostAtomic(t) ==
  LET n == node[t] IN
  /\ At(t, "call") /\ work.callback = "host" /\ n.bits = Half
  /\ Observe(t, Datum(n))
  /\ Put(n, Apply(n.rmw, Half, Datum(n), arg3[t], r11[t]))
  /\ Goto(t, "finish")
  /\ UNCHANGED <<work, direct, lock, insn, node, arg3, r11, monitor, fault, void, out>>

\* The embedder's callback finds no mapping and reports a fault.
HostFault(t) ==
  /\ At(t, "call") /\ work.callback = "host" /\ work.faults
  /\ fault' = [fault EXCEPT ![t] = TRUE] /\ void' = [void EXCEPT ![t] = TRUE]
  /\ Goto(t, "finish")
  /\ UNCHANGED <<work, mem, direct, lock, insn, node, regs, monitor, out>>

\* rmw_128: the plain read that seeds cur, one half at a time.
Rmw128Seed(t) ==
  /\ At(t, "call") /\ work.callback = "host" /\ node[t].bits # Half
  /\ Observe(t, mem[0])
  /\ Goto(t, "seed_high")
  /\ UNCHANGED <<work, mem, direct, lock, insn, node, arg3, r11, monitor, fault, void, out>>

Rmw128SeedHigh(t) ==
  /\ At(t, "seed_high")
  /\ Observe(t, rax[t] + (2^Half) * mem[1])
  /\ Goto(t, "cmpxchg16b")
  /\ UNCHANGED <<work, mem, direct, lock, insn, node, arg3, r11, monitor, fault, void, out>>

\* One round: cmpxchg16b of the new value, or of cur with itself for a Cas that
\* fails; the value seen is the next cur.
Rmw128(t) ==
  LET n == node[t]
      new == Apply(n.rmw, n.bits, rax[t], arg3[t], r11[t]) IN
  /\ At(t, "cmpxchg16b")
  /\ IF Datum(n) = rax[t]
       THEN Put(n, new) /\ Goto(t, "finish") /\ UNCHANGED rax
       ELSE Observe(t, Datum(n)) /\ UNCHANGED <<mem, pc>>
  /\ UNCHANGED <<work, direct, lock, insn, node, arg3, r11, monitor, fault, void, out>>

\* fallback_guard, for the misaligned or 128-bit host_atomic and for
\* default_mem_atomic.
Acquire(t) ==
  /\ At(t, "call") /\ work.callback # "host"
  /\ lock = Nobody
  /\ lock' = t
  /\ Goto(t, "read")
  /\ UNCHANGED <<work, mem, direct, insn, node, regs, monitor, fault, void, out>>

\* The copy into buf, or mem_read; apply decides whether anything is stored.
FallbackRead(t) ==
  LET n == node[t] IN
  /\ At(t, "read")
  /\ Observe(t, Datum(n))
  /\ void' = [void EXCEPT ![t] = work.callback = "default" /\ fault[t]]
  /\ Goto(t, IF void'[t] \/ (n.rmw = "Cas" /\ Datum(n) # r11[t]) THEN "unlock" ELSE "write")
  /\ UNCHANGED <<work, mem, direct, lock, insn, node, arg3, r11, monitor, fault, out>>

\* default_mem_atomic: mem_read or mem_write faults and nothing is stored.
FallbackFault(t) ==
  /\ pc[t] \in {"read", "write"} /\ work.callback = "default" /\ work.faults
  /\ fault' = [fault EXCEPT ![t] = TRUE] /\ void' = [void EXCEPT ![t] = TRUE]
  /\ Goto(t, "unlock")
  /\ UNCHANGED <<work, mem, direct, lock, insn, node, regs, monitor, out>>

FallbackWrite(t) ==
  LET n == node[t] IN
  /\ At(t, "write")
  /\ Put(n, Apply(n.rmw, n.bits, rax[t], arg3[t], r11[t]))
  /\ Goto(t, "unlock")
  /\ UNCHANGED <<work, direct, lock, insn, node, regs, monitor, fault, void, out>>

Unlock(t) ==
  /\ At(t, "unlock")
  /\ lock' = Nobody
  /\ Goto(t, "finish")
  /\ UNCHANGED <<work, mem, direct, insn, node, regs, monitor, fault, void, out>>

-----------------------------------------------------------------------------
(* The end of a node                                                       *)

\* The node is over, and its registers are dead.
End(t) ==
  /\ Goto(t, "idle")
  /\ arg3' = [arg3 EXCEPT ![t] = 0] /\ r11' = [r11 EXCEPT ![t] = 0] /\ rax' = [rax EXCEPT ![t] = 0]
  /\ insn' = [insn EXCEPT ![t] = [mn |-> "none"]] /\ node' = [node EXCEPT ![t] = [op |-> "none"]]
  /\ void' = [void EXCEPT ![t] = FALSE]

\* The monitor does not match: status 1, and the monitor is cleared.
Mismatch(t) ==
  /\ At(t, "mismatch")
  /\ out' = [out EXCEPT ![t] = <<1>>]
  /\ monitor' = [monitor EXCEPT ![t].size = 0]
  /\ End(t)
  /\ UNCHANGED <<work, mem, direct, lock, fault>>

\* emit_load_ex: arm the monitor, and disarm it after a fault.
LoadExEnd(t) ==
  monitor' = [monitor EXCEPT ![t] =
    [size |-> IF fault[t] THEN 0 ELSE node[t].bits, addr |-> node[t].at, value |-> rax[t]]]

\* emit_store_ex: the status, and the monitor cleared either way.
StoreExEnd(t) ==
  /\ out' = [out EXCEPT ![t] = <<IF rax[t] = monitor[t].value THEN 0 ELSE 1>>]
  /\ monitor' = [monitor EXCEPT ![t].size = 0]

\* The result, what the node does to the monitor, and its end.
Finish(t) ==
  /\ At(t, "finish")
  /\ CASE node[t].op = "StoreEx" -> StoreExEnd(t)
       [] node[t].op = "LoadEx" -> LoadExEnd(t) /\ out' = [out EXCEPT ![t] = Written(insn[t], rax[t])]
       [] node[t].op = "Clrex" -> monitor' = [monitor EXCEPT ![t].size = 0] /\ out' = [out EXCEPT ![t] = <<>>]
       [] OTHER -> UNCHANGED monitor /\ out' = [out EXCEPT ![t] = Written(insn[t], rax[t])]
  /\ End(t)
  /\ UNCHANGED <<work, mem, direct, lock, fault>>

\* The run returned the fault; the embedder's next one clears it and enters the next block.
NextBlock(t) ==
  /\ At(t, "idle") /\ fault[t]
  /\ fault' = [fault EXCEPT ![t] = FALSE]
  /\ UNCHANGED <<work, mem, direct, lock, insn, node, pc, regs, monitor, void, out>>

\* The embedder admits the page for direct accesses or takes it away.
Remap ==
  /\ work.direct
  /\ direct' = ~direct
  /\ UNCHANGED <<work, mem, lock, insn, node, pc, regs, monitor, fault, void, out>>

\* The steps of the code of a node, as opposed to its start.
Step(t) ==
  \/ CheckMonitor(t) \/ Guard(t) \/ Divert(t) \/ LockedInsn(t) \/ Seed(t) \/ Retry(t)
  \/ Load(t) \/ LoadHigh(t) \/ Store(t) \/ SkipOrFault(t)
  \/ HostAtomic(t) \/ HostFault(t) \/ Rmw128Seed(t) \/ Rmw128SeedHigh(t) \/ Rmw128(t)
  \/ Acquire(t) \/ FallbackRead(t) \/ FallbackFault(t) \/ FallbackWrite(t) \/ Unlock(t)
  \/ Mismatch(t) \/ Finish(t)

Next == Remap \/ \E t \in Thread : Issue(t) \/ Step(t) \/ NextBlock(t)

Spec == Init /\ [][Next]_vars

\* A host thread inside a node keeps running; nothing makes the guest issue
\* another instruction or the embedder remap a page.
FairSpec == Spec /\ \A t \in Thread : WF_vars(Step(t))

-----------------------------------------------------------------------------
(* Invariants                                                              *)

Pc == {"idle", "finish", "load", "load_high", "store", "monitor", "mismatch", "guard",
       "locked_insn", "seed", "retry", "call", "seed_high", "cmpxchg16b", "read", "write", "unlock"}

Node == [op : {"Load", "LoadEx", "Store", "StoreEx", "AtomicRmw", "AtomicCas", "Clrex"},
         bits : {Half, 2 * Half}, rmw : Operation, at : {0, 1}, exp : Nat, val : Nat]

TypeOK ==
  /\ work \in Workload
  /\ mem \in [{0, 1} -> Word(Half)]
  /\ direct \in BOOLEAN /\ lock \in Thread \cup {Nobody}
  /\ insn \in [Thread -> Instruction \cup {[mn |-> "none"]}]
  /\ node \in [Thread -> Node \cup {[op |-> "none"]}]
  /\ pc \in [Thread -> Pc]
  /\ arg3 \in [Thread -> Nat] /\ r11 \in [Thread -> Nat] /\ rax \in [Thread -> Nat]
  /\ monitor \in [Thread -> [size : {0, Half, 2 * Half}, addr : {0, 1}, value : Nat]]
  /\ fault \in [Thread -> BOOLEAN] /\ void \in [Thread -> BOOLEAN]
  /\ out \in [Thread -> Seq(Nat)]

\* The operand registers of a running node.
OperandsInv(t) ==
  /\ node[t] = Translate(insn[t]) /\ arg3[t] = node[t].val
  /\ node[t].op = "StoreEx" => r11[t] = monitor[t].value
  /\ node[t].op = "AtomicCas" => r11[t] = node[t].exp
  /\ rax[t] \in Word(IF pc[t] \in {"load_high", "seed_high"} THEN Half ELSE node[t].bits)

\* Where the code of which nodes goes; what has been tested on the way there still holds.
Atomics == {"AtomicRmw", "AtomicCas", "StoreEx"}
PathInv(t) ==
  LET n == node[t]
      simple == n.rmw \in {"Add", "Swp", "Cas"} IN
  /\ pc[t] \in {"load", "load_high"} => n.op \in {"Load", "LoadEx"}
  /\ pc[t] = "store" => n.op = "Store"
  /\ pc[t] \in {"monitor", "mismatch"} => n.op = "StoreEx"
  /\ pc[t] \in {"guard", "locked_insn", "seed", "retry"} => n.op \in Atomics /\ n.bits = Half
  /\ pc[t] \in {"call", "seed_high", "cmpxchg16b", "read", "write", "unlock"} => n.op \in Atomics
  /\ pc[t] = "locked_insn" => simple
  /\ pc[t] \in {"seed", "retry"} => ~simple
  /\ pc[t] \in {"load_high", "seed_high", "cmpxchg16b"} => n.bits # Half
  /\ pc[t] \in {"seed_high", "cmpxchg16b"} => work.callback = "host"
  /\ n.op = "StoreEx" /\ pc[t] \notin {"monitor", "mismatch"} => MonitorMatches(t, n)

\* The lock is held for the whole read-modify-write, so its datum is still the one read.
LockInv(t) ==
  /\ lock = t <=> pc[t] \in {"read", "write", "unlock"}
  /\ lock = t => work.callback # "host"
  /\ pc[t] = "write" => /\ rax[t] = Datum(node[t])
                        /\ node[t].rmw = "Cas" => rax[t] = r11[t]

ThreadInv(t) ==
  /\ pc[t] # "idle" => insn[t] \in work.insns[t] /\ OperandsInv(t) /\ PathInv(t)
  /\ pc[t] = "idle" => rax[t] = 0
  /\ LockInv(t)
  /\ void[t] => pc[t] \in {"unlock", "finish"} /\ fault[t]

Inductive ==
  /\ TypeOK
  /\ direct => work.direct
  /\ \A t \in Thread : ThreadInv(t)

-----------------------------------------------------------------------------
(* Properties                                                              *)

\* What a thread's code has obtained so far, as AtomicMemory counts it.
Obtained(t) ==
  CASE node[t].op = "StoreEx" -> <<IF rax[t] = monitor[t].value THEN 0 ELSE 1>>
    [] node[t].op = "Store" -> <<0>>
    [] node[t].op = "Clrex" -> <<>>
    [] node[t].op = "LoadEx" /\ node[t].bits # Half -> <<Trunc(rax[t], Half), rax[t] \div 2^Half>>
    [] OTHER -> <<rax[t]>>
Got(t) ==
  CASE pc[t] = "mismatch" -> <<1>>
    [] pc[t] = "load_high" -> <<rax[t]>>
    [] pc[t] \in {"unlock", "finish"} /\ ~void[t] -> Obtained(t)
    [] OTHER -> <<>>
CallOf(t) == IF pc[t] = "idle" THEN [insn |-> "none"]
             ELSE [insn |-> insn[t], got |-> Got(t), void |-> void[t]]
ReservationOf(t) ==
  IF monitor[t].size = 0 THEN [size |-> 0, at |-> 0, value |-> 0]
  ELSE [size |-> monitor[t].size, at |-> monitor[t].addr, value |-> monitor[t].value]

\* The instructions of all workloads.
Insns == UNION {w.insns[t] : w \in Workload, t \in Thread}

Abstract == INSTANCE AtomicMemory WITH
  Insn <- Insns,
  call <- [t \in Thread |-> CallOf(t)],
  reservation <- [t \in Thread |-> ReservationOf(t)]

\* Every atomic, exclusive and pair access takes effect in one step on its
\* whole datum, whichever of the paths (locked instruction, compare-exchange
\* loop, host atomic, cmpxchg16b loop, fallback lock) carries it out and
\* whatever remapping, diversion or fault interrupts it; a store-exclusive
\* stores only over the value its own load-exclusive saw.
ImplementsAtomicMemory == Abstract!Spec

\* While some thread is inside an instruction, instructions keep completing:
\* a compare-exchange round (isel.rs lbl_retry, rmw_128) fails only because
\* another thread's store succeeded, and the fallback lock is given back.
LockFree ==
  []<>(\A t \in Thread : pc[t] = "idle") \/ []<><<\E t \in Thread : Mismatch(t) \/ Finish(t)>>_vars
=============================================================================

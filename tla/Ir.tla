--------------------------------- MODULE Ir ---------------------------------
(***************************************************************************)
(* The intermediate representation (ir/) and what the emitted host code    *)
(* makes of each of its operations (backend/isel.rs).                      *)
(*                                                                         *)
(* Widths are those of the program divided by 8: a byte of the guest is    *)
(* one bit here, an X register 8 bits, a W register 4 and a vector         *)
(* register 16.  Every width, extension and shift count keeps its ratio to *)
(* the others, so that truncation, extension and the reduction of shift    *)
(* counts by the host happen at the same places.                           *)
(***************************************************************************)
EXTENDS VecSelect, FiniteSets

XBits == 8
WBits == 4
QBits == 16
ZR == 31
NONE == 0

\* Ty::bits, in this scale.
TyBits == [Void |-> 0, U8 |-> 1, U16 |-> 2, U32 |-> WBits, U64 |-> XBits, U128 |-> QBits,
           Nzcv |-> 4]

-----------------------------------------------------------------------------
(* Nodes and blocks.                                                       *)

\* An armlet.  Op::Add32 and Op::Add64 are op "Add" with w = 4 and 8, as base() and
\* size_bits() split them; imm is a register, a constant, a condition or a system register.
Armlet(op, w, ty, args, imm) ==
  [op |-> op, w |-> w, ty |-> ty, args |-> args, imm |-> imm, prev |-> NONE, next |-> NONE]

Arg(a, k) == IF k <= Len(a.args) THEN a.args[k] ELSE NONE

\* What is emitted of a node: all of it but its links.
Operation(a) == [op |-> a.op, w |-> a.w, ty |-> a.ty, args |-> a.args, imm |-> a.imm]

\* A block; code[0], the void node, stands for no value and is left out.
NewBlock == [code |-> <<>>, head |-> NONE, tail |-> NONE,
             terminal |-> [t |-> "Invalid"]]

\* push appends a node to the list.
Push(b, a) ==
  LET idx == Len(b.code) + 1
      linked == IF b.tail = NONE THEN b.code ELSE [b.code EXCEPT ![b.tail].next = idx]
  IN  [b EXCEPT !.code = Append(linked, [a EXCEPT !.prev = b.tail, !.next = NONE]),
                !.head = IF b.tail = NONE THEN idx ELSE @,
                !.tail = idx]

\* insert_before links a new node in front of node i; the new node's index is the largest.
InsertBefore(b, i, a) ==
  LET idx == Len(b.code) + 1
      prev == b.code[i].prev
      back == [b.code EXCEPT ![i].prev = idx]
      linked == IF prev = NONE THEN back ELSE [back EXCEPT ![prev].next = idx]
  IN  [b EXCEPT !.code = Append(linked, [a EXCEPT !.prev = prev, !.next = i]),
                !.head = IF prev = NONE THEN idx ELSE @]

\* Mutant of Unlink: the node behind keeps its link back.
UnlinkAhead(b, i) ==
  LET n == b.code[i]
      c1 == IF n.prev = NONE THEN b.code ELSE [b.code EXCEPT ![n.prev].next = n.next]
  IN  [b EXCEPT !.code = [c1 EXCEPT ![i] = [n EXCEPT !.op = "Void", !.args = <<>>,
                                                     !.prev = NONE, !.next = NONE]],
                !.head = IF n.prev = NONE THEN n.next ELSE @,
                !.tail = IF n.next = NONE THEN n.prev ELSE @]

\* unlink takes node i out of the list and voids it.
Unlink(b, i) ==
  LET n == b.code[i]
      c1 == IF n.prev = NONE THEN b.code ELSE [b.code EXCEPT ![n.prev].next = n.next]
      c2 == IF n.next = NONE THEN c1 ELSE [c1 EXCEPT ![n.next].prev = n.prev]
  IN  [b EXCEPT !.code = [c2 EXCEPT ![i] = [n EXCEPT !.op = "Void", !.args = <<>>,
                                                     !.prev = NONE, !.next = NONE]],
                !.head = IF n.prev = NONE THEN n.next ELSE @,
                !.tail = IF n.next = NONE THEN n.prev ELSE @]

\* The nodes in list order, as iter_live visits them.
LiveSeq(b) ==
  LET go[k \in 0 .. Len(b.code)] ==
        IF k = 0
          THEN [cursor |-> b.head, seen |-> <<>>]
          ELSE LET s == go[k - 1]
               IN  IF s.cursor = NONE THEN s
                   ELSE [cursor |-> b.code[s.cursor].next, seen |-> Append(s.seen, s.cursor)]
  IN  go[Len(b.code)].seen

-----------------------------------------------------------------------------
(* Classification of operations (ir/opcode.rs).                            *)

Setters == {"SetX", "SetW", "SetSp", "SetNzcv", "SetV"}
Getters == {"GetX", "GetW", "GetSp", "GetNzcv", "GetV"}
FlagOps == {"AddsFlags", "SubsFlags", "LogicFlags", "Adcs", "Sbcs"}
MemoryOps == {"Load", "Store"}
SystemOps == {"Mrs", "Msr", "Hint", "MemoryBarrier", "Clrex", "CallHelper"}
BranchOps == {"Branch", "BranchLink", "BranchIndirect", "BranchIndirectLink", "Ret",
              "BranchCond", "CbZ", "CbNz", "TbZ", "TbNz", "Brk", "Svc", "Hvc"}

HasSideEffects(op) ==
  op \in Setters \cup FlagOps \cup MemoryOps \cup SystemOps \cup BranchOps
IsPure(op) == ~HasSideEffects(op) /\ op \notin Getters

-----------------------------------------------------------------------------
(* Conditions (arch.rs): a flag word is 8 N + 4 Z + 2 C + V.               *)

Nzcv(n, z, c, v) == 8 * n + 4 * z + 2 * c + v
B2N(p) == IF p THEN 1 ELSE 0

\* emit_csel and the conditional terminal test bit nzcv of COND_TRUTH[cond], which is this
\* set of flag words: conditions come in pairs, the odd one the negation of the even one.
CondHolds(cond, nzcv) ==
  LET n == Bit(nzcv, 3) = 1
      z == Bit(nzcv, 2) = 1
      c == Bit(nzcv, 1) = 1
      v == Bit(nzcv, 0) = 1
      base == CASE cond \div 2 = 0 -> z
                [] cond \div 2 = 1 -> c
                [] cond \div 2 = 2 -> n
                [] cond \div 2 = 3 -> v
                [] cond \div 2 = 4 -> c /\ ~z
                [] cond \div 2 = 5 -> n = v
                [] cond \div 2 = 6 -> n = v /\ ~z
                [] OTHER -> TRUE
  IN  IF cond % 2 = 1 /\ cond # 15 THEN ~base ELSE base

-----------------------------------------------------------------------------
(* What the emitted code computes.                                         *)

\* emit_shift: the host reduces the count by the width of the operand.
ShiftLeft(a, n, w) == Trunc(a * 2^(n % w), w)
ShiftRight(a, n, w) == a \div 2^(n % w)
ShiftArith(a, n, w) == Trunc(Signed(a, w) \div 2^(n % w), w)
RotateRight(a, n, w) ==
  IF (n % w) = 0 THEN a ELSE ShiftRight(a, n, w) + ShiftLeft(a, w - (n % w), w)

\* emit_div: 0 for a zero divisor, and the dividend itself for the overflow MIN / -1.
DivUnsigned(a, b) == IF b = 0 THEN 0 ELSE a \div b
DivSigned(a, b, w) ==
  LET x == Signed(a, w)
      y == Signed(b, w)
      q == (IF x < 0 THEN -x ELSE x) \div (IF y < 0 THEN -y ELSE y)
  IN  CASE b = 0 -> 0
        [] b # 0 /\ y = -1 /\ x = -(2^(w - 1)) -> a
        [] OTHER -> Trunc(IF (x < 0) = (y < 0) THEN q ELSE -q, w)

\* emit_clz, with lzcnt or with bsr and its fallback for 0, and emit_cls, which counts the
\* leading zeroes of a ^ (a >>s 1) that follow the sign bit.
HighestBit(a, w) == CHOOSE i \in 0 .. (w - 1) : 2^i <= a /\ a < 2^(i + 1)
LeadingZeros(a, w, lzcnt) ==
  IF lzcnt
    THEN IF a = 0 THEN w ELSE w - 1 - HighestBit(a, w)
    ELSE BitXor(IF a = 0 THEN 2 * w - 1 ELSE HighestBit(a, w), w - 1)
LeadingSigns(a, w, lzcnt) == LeadingZeros(Xor(a, ShiftArith(a, 1, w), w), w, lzcnt) - 1

\* emit_rbit, emit_rev16, emit_rev32 and emit_bswap.  A byte is one bit.
Reversed(a, w) == FromBits(w, LAMBDA i : Bit(a, w - 1 - i))
ReversedIn(a, w, group) ==
  FromBits(w, LAMBDA i : Bit(a, (i \div group) * group + group - 1 - (i % group)))

\* emit_flagged_addsub and emit_adc_sbc read the host's flags after the operation: the
\* host's carry of a subtraction is a borrow and is inverted.
FlagsOfAdd(a, b, cin, w) ==
  LET r == Trunc(a + b + cin, w)
  IN  Nzcv(Msb(r, w), B2N(r = 0), B2N(a + b + cin >= 2^w),
           B2N(Msb(a, w) = Msb(b, w) /\ Msb(r, w) # Msb(a, w)))
FlagsOfSub(a, b, borrow, w) ==
  LET r == Trunc(a - b - borrow, w)
  IN  Nzcv(Msb(r, w), B2N(r = 0), 1 - B2N(a < b + borrow),
           B2N(Msb(a, w) # Msb(b, w) /\ Msb(r, w) # Msb(a, w)))

\* The result of an operation without effects on operands of its width.
Binary(op, a, b, w) ==
  CASE op \in {"Add", "AddsFlags"} -> Trunc(a + b, w)
    [] op \in {"Sub", "SubsFlags"} -> Trunc(a - b, w)
    [] op = "And" -> BitAnd(a, b)
    [] op = "Or" -> BitOr(a, b)
    [] op = "Eor" -> BitXor(a, b)
    [] op = "Mul" -> Trunc(a * b, w)
    [] op = "Lsl" -> ShiftLeft(a, b, w)
    [] op = "Lsr" -> ShiftRight(a, b, w)
    [] op = "Asr" -> ShiftArith(a, b, w)
    [] op = "Ror" -> RotateRight(a, b, w)
    [] op = "UMulH" -> (a * b) \div 2^w
    [] op = "SMulH" -> Trunc((Signed(a, w) * Signed(b, w)) \div 2^w, w)
    [] op = "UDiv" -> DivUnsigned(a, b)
    [] op = "SDiv" -> DivSigned(a, b, w)
BinaryOps == {"Add", "Sub", "And", "Or", "Eor", "Mul", "Lsl", "Lsr", "Asr", "Ror",
              "UMulH", "SMulH", "UDiv", "SDiv"}

Unary(op, a, w, lzcnt) ==
  CASE op = "Clz" -> LeadingZeros(a, w, lzcnt)
    [] op = "Cls" -> LeadingSigns(a, w, lzcnt)
    [] op = "Rbit" -> Reversed(a, w)
    [] op = "Rev16" -> ReversedIn(a, w, 2)
    [] op = "Rev32" -> ReversedIn(a, w, 4)
    [] op = "Rev64" -> ReversedIn(a, w, w)
UnaryOps == {"Clz", "Cls", "Rbit", "Rev16", "Rev32", "Rev64"}

-----------------------------------------------------------------------------
(* Running a block.  A machine is the guest context, what the embedder was *)
(* asked (the trace of its memory accesses, whose answers it chooses), the *)
(* features of the host, where the allocator puts values, and whether the  *)
(* registers of the other values stay intact.                              *)

Answer(m, addr, w) == Trunc(m.seed + 7 * addr + 3 * Len(m.trace), w)
Access(kind, addr, w, value) == [kind |-> kind, addr |-> addr, w |-> w, value |-> value]

Carry(nzcv) == Bit(nzcv, 1)

\* A node yields a value and a machine.
Pure(v, m) == [v |-> v, m |-> m]
Effects(m) == [v |-> 0, m |-> m]

\* emit_identity copies 32 or 64 bits unless the allocator gave both the same location.
emit_op_identity(a, v, m) ==
  Pure(IF m.coalesce \/ TyBits[a.ty] > WBits THEN v ELSE Trunc(v, WBits), m)

emit_getter(a, m) ==
  Pure(CASE a.op = "GetX" -> m.x[a.imm]
         [] a.op = "GetW" -> Trunc(m.x[a.imm], WBits)
         [] a.op = "GetSp" -> m.sp
         [] a.op = "GetNzcv" -> m.nzcv, m)
emit_setter(a, v, m) ==
  Effects(CASE a.op = "SetX" -> [m EXCEPT !.x[a.imm] = v]
            [] a.op = "SetW" -> [m EXCEPT !.x[a.imm] = Trunc(v, WBits)]
            [] a.op = "SetSp" -> [m EXCEPT !.sp = v]
            [] a.op = "SetNzcv" -> [m EXCEPT !.nzcv = v])
\* A narrow write of a vector register clears its upper part.
emit_get_v(a, m) == Pure(Trunc(m.v[a.imm], TyBits[a.ty]), m)
emit_set_v(a, v, src, m) == Effects([m EXCEPT !.v[a.imm] = Trunc(v, TyBits[src])])

emit_flagged_addsub(a, x, y, m) ==
  [v |-> Binary(a.op, x, y, a.w),
   m |-> [m EXCEPT !.nzcv = IF a.op = "AddsFlags" THEN FlagsOfAdd(x, y, 0, a.w)
                                                  ELSE FlagsOfSub(x, y, 0, a.w)]]
emit_logic_flags(a, x, m) ==
  Effects([m EXCEPT !.nzcv = Nzcv(Msb(x, a.w), B2N(x = 0), 0, 0)])
emit_adc_sbc(a, x, y, carry, m) ==
  LET add == a.op \in {"Adc", "Adcs"}
  IN  [v |-> Trunc(IF add THEN x + y + carry ELSE x - y - (1 - carry), a.w),
       m |-> IF a.op \in {"Adc", "Sbc"} THEN m
             ELSE [m EXCEPT !.nzcv = IF add THEN FlagsOfAdd(x, y, carry, a.w)
                                            ELSE FlagsOfSub(x, y, 1 - carry, a.w)]]
emit_csel(a, x, y, nzcv, m) == Pure(IF CondHolds(a.imm, nzcv) THEN x ELSE y, m)

emit_load(a, addr, m) ==
  LET got == Answer(m, addr, a.w)
  IN  [v |-> got, m |-> [m EXCEPT !.trace = Append(@, Access("r", addr, a.w, got))]]
emit_store(a, addr, v, m) ==
  Effects([m EXCEPT !.trace = Append(@, Access("w", addr, a.w, v))])

\* The flags are bits 31 .. 28 of NZCV, all of W in this scale.
emit_mrs(a, m) == Pure(IF a.imm = "NZCV" THEN m.nzcv ELSE m.tpidr, m)
emit_msr(a, v, m) ==
  Effects(IF a.imm = "NZCV" THEN [m EXCEPT !.nzcv = Trunc(v, WBits)]
                            ELSE [m EXCEPT !.tpidr = v])

\* The vector operations, and the two that leave their result in a general register.
Stored(r, m) == [v |-> r.v, m |-> [m EXCEPT !.intact = @ /\ r.intact]]
emit_vector(a, val, m) ==
  Stored(VecResult(a, val, m.host, [v \in Word(WBits) |-> LeadingZeros(v, WBits, m.host.lzcnt)]), m)

\* dispatch_op: val[k] is the host value of operand k, src the type of its first operand.
Evaluate(a, val, src, m) ==
  LET A(k) == Trunc(val[k], a.w)
  IN  CASE a.op \in {"ConstU32", "ConstU64"} -> Pure(a.imm, m)
        [] a.op = "Identity" -> emit_op_identity(a, val[1], m)
        [] a.op = "GetV" -> emit_get_v(a, m)
        [] a.op = "SetV" -> emit_set_v(a, val[1], src, m)
        [] a.op \in Getters \ {"GetV"} -> emit_getter(a, m)
        [] a.op \in Setters \ {"SetV"} -> emit_setter(a, val[1], m)
        [] a.op \in BinaryOps -> Pure(Binary(a.op, A(1), A(2), a.w), m)
        [] a.op \in UnaryOps -> Pure(Unary(a.op, A(1), a.w, m.host.lzcnt), m)
        [] a.op \in {"AddsFlags", "SubsFlags"} -> emit_flagged_addsub(a, A(1), A(2), m)
        [] a.op = "LogicFlags" -> emit_logic_flags(a, A(1), m)
        [] a.op \in {"Adc", "Adcs", "Sbc", "Sbcs"} -> emit_adc_sbc(a, A(1), A(2), Carry(val[3]), m)
        [] a.op = "Csel" -> emit_csel(a, A(1), A(2), val[3], m)
        [] a.op = "Load" -> emit_load(a, val[1], m)
        [] a.op = "Store" -> emit_store(a, val[1], A(2), m)
        [] a.op = "Mrs" -> emit_mrs(a, m)
        [] a.op = "Msr" -> emit_msr(a, val[1], m)
        [] a.op = "VecExtract" -> Pure(Lane(val[1], a.imm, a.w), m)
        [] a.op \in VecOps -> emit_vector(a, val, m)
        [] OTHER -> Effects(m)
=============================================================================

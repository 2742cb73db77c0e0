--------------------------------- MODULE A64 ---------------------------------
(***************************************************************************)
(* The architecture's meaning of the instructions that Translate handles,  *)
(* written from the A64 instruction set and not from the program, in the   *)
(* scale of Ir: what the translators, the optimizer and the emitted code   *)
(* together have to achieve.  A machine is the same record as in Ir.       *)
(***************************************************************************)
EXTENDS A64Vectors

SizeBits(size) == IF size = "X" THEN 8 ELSE 4

\* Registers: 31 is the zero register or the stack pointer.
X(m, r) == IF r = 31 THEN 0 ELSE m.x[r]
XSP(m, r) == IF r = 31 THEN m.sp ELSE m.x[r]
Reg(m, r, w) == Trunc(X(m, r), w)
WithX(m, r, v) == IF r = 31 THEN m ELSE [m EXCEPT !.x[r] = v]
WithXSP(m, r, v) == IF r = 31 THEN [m EXCEPT !.sp = v] ELSE [m EXCEPT !.x[r] = v]

\* AddWithCarry: the sum and its flags.
AddWithCarry(a, b, c, w) ==
  LET u == a + b + c
      s == Signed(a, w) + Signed(b, w) + c
      r == u % 2^w
  IN  [r |-> r, f |-> 8 * Msb(r, w) + (IF r = 0 THEN 4 ELSE 0) + (IF u # r THEN 2 ELSE 0)
                      + (IF s # Signed(r, w) THEN 1 ELSE 0)]

AddSub(a, b, sub, w) == IF sub THEN AddWithCarry(a, Not(b, w), 1, w) ELSE AddWithCarry(a, b, 0, w)

Flag(f, name) == Bit(f, CASE name = "N" -> 3 [] name = "Z" -> 2 [] name = "C" -> 1 [] name = "V" -> 0) = 1

\* ConditionHolds.
Holds(cond, f) ==
  LET N == Flag(f, "N")
      Z == Flag(f, "Z")
      C == Flag(f, "C")
      V == Flag(f, "V")
      table == <<Z, ~Z, C, ~C, N, ~N, V, ~V, C /\ ~Z, ~C \/ Z, N = V, N # V,
                 N = V /\ ~Z, N # V \/ Z, TRUE, TRUE>>
  IN  table[cond + 1]

\* ShiftReg and ExtendReg, bit by bit.
Shift(a, kind, n, w) ==
  CASE kind = 0 -> FromBits(w, LAMBDA j : IF j < n THEN 0 ELSE Bit(a, j - n))
    [] kind = 1 -> FromBits(w, LAMBDA j : IF j + n < w THEN Bit(a, j + n) ELSE 0)
    [] kind = 2 -> FromBits(w, LAMBDA j : IF j + n < w THEN Bit(a, j + n) ELSE Bit(a, w - 1))
    [] kind = 3 -> FromBits(w, LAMBDA j : Bit(a, (j + n) % w))
Extend(a, option, n, w) ==
  LET from == 2^(option % 4)
      e == IF option >= 4 THEN Signed(Trunc(a, from), from) ELSE Trunc(a, from)
  IN  Trunc(e * 2^n, w)

\* The field of w bits that UBFM, SBFM and BFM move: destination bit j takes source bit
\* Src(j), or no bit of the field.
FieldSource(i, w, j) ==
  IF i.imms >= i.immr
    THEN (IF j <= i.imms - i.immr THEN j + i.immr ELSE -1)
    ELSE (IF j >= w - i.immr /\ j <= i.imms + w - i.immr THEN j - (w - i.immr) ELSE -1)
FieldTop(i, w) == IF i.imms >= i.immr THEN i.imms - i.immr ELSE i.imms + w - i.immr
Bitfield(i, src, dst, w) ==
  FromBits(w, LAMBDA j :
    LET from == FieldSource(i, w, j)
    IN  CASE from # -1 -> Bit(src, from)
          [] from = -1 /\ i.kind = "Ubfm" -> 0
          [] from = -1 /\ i.kind = "Bfm" -> Bit(dst, j)
          [] from = -1 /\ i.kind = "Sbfm" -> IF j > FieldTop(i, w) THEN Bit(src, i.imms) ELSE 0)

\* Bitmask immediates: a run of s + 1 ones rotated right by r in each element of e bits.
Esize(n, imms) == IF n = 1 THEN 8 ELSE IF imms < 4 THEN 4 ELSE IF imms < 6 THEN 2 ELSE 1
ValidMask(i) ==
  LET e == Esize(i.n, i.imms)
  IN  e >= 2 /\ e <= SizeBits(i.size) /\ (i.imms % e) # e - 1
BitMask(i) ==
  LET e == Esize(i.n, i.imms)
  IN  FromBits(SizeBits(i.size), LAMBDA j : IF ((j + i.immr) % e) <= (i.imms % e) THEN 1 ELSE 0)

Undefined(i) ==
  CASE i.k = "addsub_shift" -> i.shift = 3 \/ i.amount >= SizeBits(i.size)
    [] i.k = "log_shift" -> i.amount >= SizeBits(i.size)
    [] i.k = "addsub_ext" -> i.amount > 4
    [] i.k = "bitfield" -> \/ (i.size = "X") # (i.n = 1)
                           \/ i.immr >= SizeBits(i.size)
                           \/ i.imms >= SizeBits(i.size)
    [] i.k = "extract" -> (i.size = "X") # (i.n = 1) \/ i.imms >= SizeBits(i.size)
    [] i.k = "log_imm" -> ~ValidMask(i)
    [] i.k = "movewide" -> 2 * i.hw >= SizeBits(i.size)
    [] i.k = "dp_1src" -> i.kind = "Rev32" /\ i.size = "W"
    [] i.k = "ldst_regoff" -> i.option \notin {2, 3, 6, 7}
    [] i.k \in VKinds -> VUndefined(i)
    [] OTHER -> FALSE

-----------------------------------------------------------------------------
(* Data processing.                                                        *)

\* Writes result r with flags f, if the instruction sets them, to rd.
Result(m, i, r, f) ==
  LET n == IF i.s THEN [m EXCEPT !.nzcv = f] ELSE m
  IN  IF "sp" \in DOMAIN i /\ ~i.s THEN WithXSP(n, i.rd, r) ELSE WithX(n, i.rd, r)

LogicFlags(r, w) == 8 * Msb(r, w) + (IF r = 0 THEN 4 ELSE 0)

Logic(op, a, b, w) ==
  FromBits(w, LAMBDA j :
    LET p == Bit(a, j)
        q == IF op \in {"Bic", "Bics", "Orn", "Eon"} THEN 1 - Bit(b, j) ELSE Bit(b, j)
    IN  CASE op \in {"And", "Ands", "Bic", "Bics"} -> p * q
          [] op \in {"Orr", "Orn"} -> IF p + q > 0 THEN 1 ELSE 0
          [] op \in {"Eor", "Eon"} -> IF p # q THEN 1 ELSE 0)

LeadingSame(a, w, b) ==
  LET ok(n) == \A j \in 0 .. (w - 1) : j >= w - n => Bit(a, j) = b
  IN  CHOOSE n \in 0 .. w : ok(n) /\ (n = w \/ ~ok(n + 1))

OneSource(kind, a, w) ==
  CASE kind = "Clz" -> LeadingSame(a, w, 0)
    [] kind = "Cls" -> LeadingSame(a, w, Msb(a, w)) - 1
    [] kind = "Rbit" -> FromBits(w, LAMBDA j : Bit(a, w - 1 - j))
    [] kind = "Rev16" -> FromBits(w, LAMBDA j : Bit(a, IF (j % 2) = 0 THEN j + 1 ELSE j - 1))
    [] kind = "Rev32" -> FromBits(w, LAMBDA j : Bit(a, IF j < 4 THEN 3 - j ELSE 11 - j))
    [] kind = "Rev64" -> FromBits(w, LAMBDA j : Bit(a, w - 1 - j))

Quotient(a, b) == LET q == (IF a < 0 THEN -a ELSE a) \div (IF b < 0 THEN -b ELSE b)
                  IN  IF (a < 0) = (b < 0) THEN q ELSE -q
TwoSource(op, a, b, w) ==
  CASE op = "Lsl" -> Shift(a, 0, b % w, w)
    [] op = "Lsr" -> Shift(a, 1, b % w, w)
    [] op = "Asr" -> Shift(a, 2, b % w, w)
    [] op = "Ror" -> Shift(a, 3, b % w, w)
    [] op = "UDiv" -> IF b = 0 THEN 0 ELSE a \div b
    [] op = "SDiv" -> IF b = 0 THEN 0 ELSE Trunc(Quotient(Signed(a, w), Signed(b, w)), w)

ThreeSource(m, i) ==
  CASE i.kind = "Mul" ->
         LET p == Reg(m, i.rn, SizeBits(i.size)) * Reg(m, i.rm, SizeBits(i.size))
         IN  Trunc(IF i.sub THEN X(m, i.ra) - p ELSE X(m, i.ra) + p, SizeBits(i.size))
    [] i.kind = "High" ->
         IF i.signed THEN Trunc((Signed(X(m, i.rn), 8) * Signed(X(m, i.rm), 8)) \div 2^8, 8)
                     ELSE (X(m, i.rn) * X(m, i.rm)) \div 2^8
    [] i.kind = "Long" ->
         LET n == Reg(m, i.rn, 4)
             k == Reg(m, i.rm, 4)
             p == IF i.signed THEN Signed(n, 4) * Signed(k, 4) ELSE n * k
         IN  Trunc(IF i.sub THEN X(m, i.ra) - p ELSE X(m, i.ra) + p, 8)

Data(m, i, pc) ==
  LET w == SizeBits(i.size)
      a == Reg(m, i.rn, w)
      b == Reg(m, i.rm, w)
  IN  CASE i.k = "addsub_imm" ->
             LET s == AddSub(Trunc(XSP(m, i.rn), w), Trunc(i.imm * 4^i.sh, w), i.sub, w)
             IN  Result(m, i, s.r, s.f)
        [] i.k = "addsub_shift" ->
             LET s == AddSub(a, Shift(b, i.shift, i.amount, w), i.sub, w)
             IN  Result(m, i, s.r, s.f)
        [] i.k = "addsub_ext" ->
             LET s == AddSub(Trunc(XSP(m, i.rn), w),
                             Extend(X(m, i.rm), i.option, i.amount, w), i.sub, w)
             IN  Result(m, i, s.r, s.f)
        [] i.k = "addsub_carry" ->
             LET c == Bit(m.nzcv, 1)
                 s == IF i.sub THEN AddWithCarry(a, Not(b, w), c, w) ELSE AddWithCarry(a, b, c, w)
             IN  Result(m, i, s.r, s.f)
        [] i.k = "bitfield" -> WithX(m, i.rd, Bitfield(i, a, Reg(m, i.rd, w), w))
        [] i.k = "condcmp" ->
             [m EXCEPT !.nzcv = IF Holds(i.cond, m.nzcv)
                                  THEN AddSub(a, IF i.reg THEN b ELSE i.imm, i.sub, w).f
                                  ELSE i.nzcv]
        [] i.k = "condsel" ->
             WithX(m, i.rd, IF Holds(i.cond, m.nzcv) THEN a
                            ELSE CASE i.kind = "Csel" -> b
                                   [] i.kind = "Csinc" -> Trunc(b + 1, w)
                                   [] i.kind = "Csinv" -> Not(b, w)
                                   [] i.kind = "Csneg" -> Trunc(-b, w))
        [] i.k = "dp_1src" -> IF i.kind = "Pac" THEN m ELSE WithX(m, i.rd, OneSource(i.kind, a, w))
        [] i.k = "dp_2src" -> WithX(m, i.rd, TwoSource(i.op, a, b, w))
        [] i.k = "dp_3src" -> WithX(m, i.rd, ThreeSource(m, i))
        [] i.k = "extract" ->
             WithX(m, i.rd, FromBits(w, LAMBDA j : IF j + i.imms < w THEN Bit(b, j + i.imms)
                                                   ELSE Bit(a, j + i.imms - w)))
        [] i.k = "log_imm" ->
             LET r == Logic(i.op, a, BitMask(i), w) IN Result(m, i, r, LogicFlags(r, w))
        [] i.k = "log_shift" ->
             LET r == Logic(i.op, a, Shift(b, i.shift, i.amount, w), w)
             IN  Result(m, i, r, LogicFlags(r, w))
        [] i.k = "movewide" ->
             WithX(m, i.rd,
               CASE i.kind = "Z" -> i.imm * 4^i.hw
                 [] i.kind = "N" -> Not(i.imm * 4^i.hw, w)
                 [] i.kind = "K" ->
                      LET old == Reg(m, i.rd, w)
                      IN  old - ((old \div 4^i.hw) % 4) * 4^i.hw + i.imm * 4^i.hw)
        [] i.k = "pcreladdr" ->
             WithX(m, i.rd, Trunc(IF i.page THEN (pc \div 16) * 16 + 16 * i.off ELSE pc + i.off, 8))
        [] i.k = "fmov" ->
             IF i.to_v THEN [m EXCEPT !.v[i.rd] = a] ELSE WithX(m, i.rd, Trunc(m.v[i.rn], w))

-----------------------------------------------------------------------------
(* Memory: the embedder answers a read, and sees every access in order.    *)

Read(m, addr, n) ==
  LET got == Trunc(m.seed + 7 * addr + 3 * Len(m.trace), n)
  IN  [v |-> got,
       m |-> [m EXCEPT !.trace = Append(@, [kind |-> "r", addr |-> addr, w |-> n, value |-> got])]]
Write(m, addr, n, v) ==
  [m EXCEPT !.trace = Append(@, [kind |-> "w", addr |-> addr, w |-> n, value |-> Trunc(v, n)])]

\* One access of register rt.
Transfer(m, i, rt, addr) ==
  LET n == i.bytes
      rd == Read(m, addr, n)
  IN  CASE i.kind = "Store" -> Write(m, addr, n, X(m, rt))
        [] i.kind = "FpStore" -> Write(m, addr, n, m.v[rt])
        [] i.kind \in {"Load", "LoadU", "Gpr"} -> WithX(rd.m, rt, rd.v)
        [] i.kind \in {"LoadSw", "Sw"} -> WithX(rd.m, rt, Sext(rd.v, n, 8))
        [] i.kind = "LoadS" -> WithX(rd.m, rt, Sext(rd.v, n, IF i.target_x THEN 8 ELSE 4))
        [] i.kind \in {"FpLoad", "Fp"} -> [rd.m EXCEPT !.v[rt] = rd.v]

Memory(m, i, pc) ==
  LET base == XSP(m, i.rn)
  IN  CASE i.k = "ldst_imm" ->
             LET ea == Trunc(base + (IF i.mode = "pos" THEN i.imm * i.bytes ELSE i.imm), 8)
                 n == Transfer(m, i, i.rt, IF i.mode = "post" THEN base ELSE ea)
             IN  IF i.mode \in {"pre", "post"} THEN WithXSP(n, i.rn, ea) ELSE n
        [] i.k = "ldst_regoff" ->
             LET scale == CHOOSE s \in 0 .. 4 : 2^s = i.bytes
                 off == Extend(X(m, i.rm), i.option, IF i.scaled THEN scale ELSE 0, 8)
             IN  Transfer(m, i, i.rt, Trunc(base + off, 8))
        [] i.k = "ldstpair" ->
             LET ea == Trunc(base + i.imm * i.bytes, 8)
                 at == IF i.mode = "post" THEN base ELSE ea
                 n == Transfer(Transfer(m, i, i.rt, at), i, i.rt2, Trunc(at + i.bytes, 8))
             IN  IF i.mode = "off" THEN n ELSE WithXSP(n, i.rn, ea)
        [] i.k = "loadlit" -> Transfer(m, i, i.rt, Trunc(pc + i.off, 8))

\* Accesses of the given widths from addr on.
ReadAll(m, addr, widths) ==
  LET go[k \in 0 .. Len(widths)] ==
        IF k = 0 THEN [m |-> m, at |-> addr, got |-> <<>>]
        ELSE LET s == go[k - 1]
                 r == Read(s.m, s.at, widths[k])
             IN  [m |-> r.m, at |-> Trunc(s.at + widths[k], 8), got |-> Append(s.got, r.v)]
  IN  go[Len(widths)]
WriteAll(m, addr, widths, V(_)) ==
  LET go[k \in 0 .. Len(widths)] ==
        IF k = 0 THEN [m |-> m, at |-> addr]
        ELSE [m |-> Write(go[k - 1].m, go[k - 1].at, widths[k], V(k)),
              at |-> Trunc(go[k - 1].at + widths[k], 8)]
  IN  go[Len(widths)].m

WithRegisters(m, i, n, F(_)) ==
  [m EXCEPT !.v = [r \in DOMAIN m.v |->
     IF \E s \in 0 .. (n - 1) : (i.rt + s) % 32 = r
       THEN F(CHOOSE s \in 0 .. (n - 1) : (i.rt + s) % 32 = r) ELSE m.v[r]]]

Multiple(m, i) ==
  LET count == StructureSize[i.opcode]
      regs == RegisterCount[i.opcode]
      bytes == Size(i)
      w == 2^i.lane
      piece == IF count = 1 THEN bytes ELSE 16
      total == regs * bytes
      widths == [k \in 1 .. ((total + piece - 1) \div piece) |->
                   IF total - piece * (k - 1) < piece THEN 8 ELSE piece]
      got == ReadAll(m, XSP(m, i.rn), widths)
      \* Memory element g is element g div count of register g mod count of its structure.
      Of(g) == IF count = 1 THEN Elem(m.v[(i.rt + (g * w) \div bytes) % 32], g % (bytes \div w), w)
               ELSE Elem(m.v[(i.rt + (g % count)) % 32], g \div count, w)
  IN  IF i.load
        THEN WithRegisters(got.m, i, regs, LAMBDA s :
               Vec(bytes, w, LAMBDA e :
                 Piece(got.got, piece, IF count = 1 THEN s * bytes + e * w ELSE (e * count + s) * w, w)))
        ELSE WriteAll(m, XSP(m, i.rn), widths, LAMBDA k :
               Vec(widths[k], w, LAMBDA e : Of((piece \div w) * (k - 1) + e)))

OneElement(m, i) ==
  LET n == 2 * (i.opcode % 2) + i.r + 1
      w == 2^SingleLane(i)
      e == SingleElem(i)
      got == ReadAll(m, XSP(m, i.rn), [k \in 1 .. n |-> w])
  IN  CASE i.opcode >= 6 ->
             WithRegisters(got.m, i, n, LAMBDA s : Vec(Size(i), w, LAMBDA k : got.got[s + 1]))
        [] i.opcode < 6 /\ i.load ->
             WithRegisters(got.m, i, n, LAMBDA s : Insert(m.v[(i.rt + s) % 32], e, got.got[s + 1], w))
        [] i.opcode < 6 /\ ~i.load ->
             WriteAll(m, XSP(m, i.rn), [k \in 1 .. n |-> w],
                      LAMBDA k : Elem(m.v[(i.rt + k - 1) % 32], e, w))

Structure(m, i) ==
  LET after == IF i.k = "ld_multiple" THEN Multiple(m, i) ELSE OneElement(m, i)
      bytes == IF i.k = "ld_multiple" THEN RegisterCount[i.opcode] * Size(i)
               ELSE (2 * (i.opcode % 2) + i.r + 1) * 2^SingleLane(i)
  IN  IF ~i.post THEN after
      ELSE WithXSP(after, i.rn, Trunc(XSP(m, i.rn) + (IF i.rm = 31 THEN bytes ELSE X(m, i.rm)), 8))

\* The vector instructions.
Vector(m, i) ==
  CASE i.k \in {"ld_multiple", "ld_single"} -> Structure(m, i)
    [] i.k = "asimd_ins" /\ i.kind \in {"Umov", "Smov"} -> WithX(m, i.rd, Moved(m, i))
    [] OTHER -> [m EXCEPT !.v[i.rd] = VData(m, i)]

System(m, i) ==
  CASE i.op = "Mrs" -> WithX(m, i.rt, IF i.reg = "NZCV" THEN m.nzcv ELSE m.tpidr)
    [] i.op = "Msr" -> IF i.reg = "NZCV" THEN [m EXCEPT !.nzcv = Trunc(X(m, i.rt), 4)]
                       ELSE [m EXCEPT !.tpidr = X(m, i.rt)]
    [] i.op = "DcZva" ->
         LET line == (X(m, i.rt) \div 64) * 64
             go[n \in 0 .. 8] == IF n = 0 THEN m ELSE Write(go[n - 1], line + 8 * (n - 1), 8, 0)
         IN  go[8]
    [] OTHER -> m

\* The machine after instruction i at pc and the address of the next one.
Exec(m, i, pc) ==
  LET fall == Trunc(pc + 4, 8)
      target == Trunc(pc + i.off, 8)
      linked == IF i.link THEN WithX(m, 30, fall) ELSE m
  IN  CASE i.k = "b" -> [m |-> linked, pc |-> target]
        [] i.k = "br" -> [m |-> linked, pc |-> X(m, i.rn)]
        [] i.k = "bcond" -> [m |-> m, pc |-> IF Holds(i.cond, m.nzcv) THEN target ELSE fall]
        [] i.k = "cbz" -> [m |-> m, pc |-> IF (Reg(m, i.rt, SizeBits(i.size)) = 0) # i.inverse
                                             THEN target ELSE fall]
        [] i.k = "tbz" -> [m |-> m, pc |-> IF (Bit(X(m, i.rt), i.bit) = 0) # i.inverse
                                             THEN target ELSE fall]
        [] i.k = "exc" -> [m |-> m, pc |-> IF i.kind = "Brk" THEN Trunc(pc, 8) ELSE fall]
        [] i.k = "prfm" -> [m |-> m, pc |-> fall]
        [] i.k = "ic_system" -> [m |-> System(m, i), pc |-> fall]
        [] i.k \in {"ldst_imm", "ldst_regoff", "ldstpair", "loadlit"} ->
             [m |-> Memory(m, i, pc), pc |-> fall]
        [] i.k \in VKinds -> [m |-> Vector(m, i), pc |-> fall]
        [] OTHER -> [m |-> Data(m, i, pc), pc |-> fall]

\* The instructions of prog from pc on, one after the other.
ExecAll(prog, m, pc) ==
  LET go[k \in 0 .. Len(prog)] ==
        IF k = 0 THEN [m |-> m, pc |-> pc] ELSE Exec(go[k - 1].m, prog[k], pc + 4 * (k - 1))
  IN  go[Len(prog)]
=============================================================================

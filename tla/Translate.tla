------------------------------ MODULE Translate ------------------------------
(***************************************************************************)
(* The translators of the integer, memory, system and branch instructions  *)
(* (frontend/translate/) on top of the emitter, in the scale of Ir, and    *)
(* the dispatch to all translators.  An instruction is a record of its     *)
(* decoded fields; its translation is the sequence of nodes that the       *)
(* translator pushes.                                                      *)
(***************************************************************************)
EXTENDS TranslateVec

-----------------------------------------------------------------------------
(* Data processing.                                                        *)

AddSubOp(i) == IF i.s THEN (IF i.sub THEN "SubsFlags" ELSE "AddsFlags")
                      ELSE (IF i.sub THEN "Sub" ELSE "Add")

addsub_imm(i) ==
  LET imm == i.imm * 4^i.sh
  IN  <<get_x_or_sp("a", i.rn, ~i.s), const_u64("b", BitAnd(imm, Mask(i.size))),
        binary("r", AddSubOp(i), i.size, "a", "b")>>
      \o set_gpr_or_sp(i.rd, "r", i.size, ~i.s)

ShiftOps == <<"Lsl", "Lsr", "Asr", "Ror">>

\* The shifted register operand: its nodes and the label of its value.
Shifted(i) ==
  IF i.amount = 0 THEN [nodes |-> <<>>, v |-> "m"]
  ELSE [nodes |-> <<const_u64("k", i.amount),
                    binary("b", ShiftOps[i.shift + 1], i.size, "m", "k")>>, v |-> "b"]

addsub_shift(i) ==
  LET b == Shifted(i)
  IN  <<get_gpr("a", i.rn, i.size), get_gpr("m", i.rm, i.size)>> \o b.nodes
      \o <<binary("r", AddSubOp(i), i.size, "a", b.v)>> \o set_gpr(i.rd, "r", i.size)

\* Zero or sign extension of X value m from w bits to a value labelled e.
Extended(w, signed) ==
  IF w = XBits THEN [nodes |-> <<>>, v |-> "m"]
  ELSE [nodes |-> <<const_u64("em", Ones(w)), binary("z", "And", "X", "m", "em")>>
                  \o IF signed THEN sign_extend_from("e", "z", w) ELSE <<>>,
        v |-> IF signed THEN "e" ELSE "z"]

ExtendBits(option) == 2^(option % 4)

addsub_ext(i) ==
  LET e == Extended(ExtendBits(i.option), i.option >= 4)
      sh == IF i.amount = 0 THEN <<>>
            ELSE <<const_u64("k", i.amount), binary("s", "Lsl", "X", e.v, "k")>>
      b1 == IF i.amount = 0 THEN e.v ELSE "s"
      cut == IF i.size = "X" THEN <<>>
             ELSE <<const_u64("w", Ones(WBits)), binary("t", "And", "X", b1, "w")>>
      b == IF i.size = "X" THEN b1 ELSE "t"
  IN  <<get_x_or_sp("a", i.rn, ~i.s), get_x("m", i.rm)>> \o e.nodes \o sh \o cut
      \o <<binary("r", AddSubOp(i), i.size, "a", b)>>
      \o set_gpr_or_sp(i.rd, "r", i.size, ~i.s)

addsub_carry(i) ==
  LET op == IF i.s THEN (IF i.sub THEN "Sbcs" ELSE "Adcs") ELSE (IF i.sub THEN "Sbc" ELSE "Adc")
  IN  <<get_gpr("n", i.rn, i.size), get_gpr("m", i.rm, i.size), get_nzcv("f"),
        Node("r", op, Bits(i.size), TyOf(i.size), <<"n", "m", "f">>, 0)>>
      \o set_gpr(i.rd, "r", i.size)

\* UBFM, SBFM and BFM.
bitfield(i) ==
  LET w == Bits(i.size)
      up == i.imms < i.immr
      n == IF up THEN i.imms + 1 ELSE i.imms - i.immr + 1
      field == IF up
        THEN <<const_u64("fm", Ones(n)), binary("fa", "And", i.size, "src", "fm"),
               const_u64("fs", w - i.immr), binary("bot", "Lsl", i.size, "fa", "fs")>>
        ELSE <<const_u64("fs", i.immr), binary("fa", "Lsr", i.size, "src", "fs"),
               const_u64("fm", Ones(n)), binary("bot", "And", i.size, "fa", "fm")>>
      high == IF up THEN i.imms + w - i.immr ELSE i.imms - i.immr
      mask == IF up THEN Trunc(Ones(n) * 2^(w - i.immr), XBits) ELSE Ones(n)
      clear == BitAnd(Ones(XBits) - mask, Mask(i.size))
      result == CASE i.kind = "Ubfm" -> <<>>
                  [] i.kind = "Sbfm" ->
                       <<const_u64("k", w - 1 - high), binary("l", "Lsl", i.size, "bot", "k"),
                         const_u64("j", w - 1 - high), binary("r", "Asr", i.size, "l", "j")>>
                  [] i.kind = "Bfm" ->
                       <<get_gpr("d", i.rd, i.size), const_u64("cm", clear),
                         binary("c", "And", i.size, "d", "cm"),
                         binary("r", "Or", i.size, "c", "bot")>>
  IN  <<get_gpr("src", i.rn, i.size)>> \o field \o result
      \o set_gpr(i.rd, IF i.kind = "Ubfm" THEN "bot" ELSE "r", i.size)

\* CCMP and CCMN: b is the node of the second operand.
CondCompare(i, b) ==
  <<get_nzcv("old"), get_gpr("a", i.rn, i.size), b,
    binary("r", IF i.sub THEN "SubsFlags" ELSE "AddsFlags", i.size, "a", "b"),
    get_nzcv("cmp"), const_u32("imm", i.nzcv),
    Node("sel", "Csel", WBits, "U32", <<"cmp", "imm", "old">>, i.cond)>>
  \o set_nzcv("sel")
condcmp_imm(i) == CondCompare(i, const_u64("b", i.imm))
condcmp_reg(i) == CondCompare(i, get_gpr("b", i.rm, i.size))

condsel(i) ==
  LET other == CASE i.kind = "Csel" -> <<>>
                 [] i.kind = "Csinc" -> <<binary("o", "Add", i.size, "f", "one")>>
                 [] i.kind = "Csinv" -> <<binary("o", "Eor", i.size, "f", "ones")>>
                 [] i.kind = "Csneg" -> <<const_u64("zero", 0),
                                          binary("o", "Sub", i.size, "zero", "f")>>
  IN  <<get_gpr("t", i.rn, i.size), get_gpr("f", i.rm, i.size), const_u64("one", 1),
        const_u64("ones", Mask(i.size))>> \o other
      \o <<get_nzcv("n"),
           Node("r", "Csel", Bits(i.size), TyOf(i.size),
                <<"t", IF i.kind = "Csel" THEN "f" ELSE "o", "n">>, i.cond)>>
      \o set_gpr(i.rd, "r", i.size)

\* CLZ, CLS, RBIT, REV*, and the pointer authentication codes, which leave the value.
dp_1src(i) ==
  IF i.kind = "Pac"
    THEN <<get_x("a", i.rd), Node("r", "Identity", XBits, "U64", <<"a">>, 0)>> \o set_x(i.rd, "r")
    ELSE <<get_gpr("a", i.rn, i.size),
           Node("r", i.kind, Bits(i.size), TyOf(i.size), <<"a">>, 0)>>
         \o set_gpr(i.rd, "r", i.size)

\* LSLV, LSRV, ASRV, RORV, UDIV, SDIV: the shift count is passed as it is.
dp_2src(i) ==
  <<get_gpr("n", i.rn, i.size), get_gpr("m", i.rm, i.size),
    binary("r", i.op, i.size, "n", "m")>> \o set_gpr(i.rd, "r", i.size)

widen_w_to_x(x, v, signed) ==
  <<const_u64(x \o "m", Ones(WBits)), binary(x \o "z", "And", "X", v, x \o "m")>>
  \o IF signed THEN sign_extend_from(x, x \o "z", WBits) ELSE <<>>

dp_3src(i) ==
  CASE i.kind = "Mul" ->
         <<get_gpr("n", i.rn, i.size), get_gpr("m", i.rm, i.size), get_gpr("a", i.ra, i.size),
           binary("p", "Mul", i.size, "n", "m"),
           binary("r", IF i.sub THEN "Sub" ELSE "Add", i.size, "a", "p")>>
         \o set_gpr(i.rd, "r", i.size)
    [] i.kind = "High" ->
         <<get_x("n", i.rn), get_x("m", i.rm),
           binary("r", IF i.signed THEN "SMulH" ELSE "UMulH", "X", "n", "m")>> \o set_x(i.rd, "r")
    [] i.kind = "Long" ->
         LET n == IF i.signed THEN "n" ELSE "nz"
             m == IF i.signed THEN "m" ELSE "mz"
         IN  <<get_w("nw", i.rn), get_w("mw", i.rm), get_x("a", i.ra)>>
             \o widen_w_to_x("n", "nw", i.signed) \o widen_w_to_x("m", "mw", i.signed)
             \o <<binary("p", "Mul", "X", n, m),
                  binary("r", IF i.sub THEN "Sub" ELSE "Add", "X", "a", "p")>>
             \o set_x(i.rd, "r")

extract(i) ==
  LET w == Bits(i.size)
  IN  (IF i.imms = 0 THEN <<get_gpr("r", i.rm, i.size)>>
       ELSE IF i.rn = i.rm
         THEN <<get_gpr("v", i.rn, i.size), const_u64("k", i.imms),
                binary("r", "Ror", i.size, "v", "k")>>
         ELSE <<get_gpr("hi", i.rn, i.size), get_gpr("lo", i.rm, i.size),
                const_u64("hk", w - i.imms), const_u64("lk", i.imms),
                binary("h", "Lsl", i.size, "hi", "hk"), binary("l", "Lsr", i.size, "lo", "lk"),
                binary("r", "Or", i.size, "h", "l")>>)
      \o set_gpr(i.rd, "r", i.size)

\* decode_bit_masks: the immediate, or -1 for a reserved encoding.  A 64-bit immediate has
\* 6 bits of imms and immr in the program, 3 in this scale.
decode_bit_masks(n, imms, immr, width) ==
  LET combined == 8 * n + (7 - imms)
      len == CHOOSE k \in 0 .. 3 : 2^k <= combined /\ combined < 2^(k + 1)
      esize == 2^len
      s == imms % esize
      r == immr % esize
      welem == Ones(s + 1)
      rotated == (welem \div 2^r) + Trunc(welem * 2^(esize - r), esize) * B2N(r # 0)
      copies == {k \in 0 .. 7 : esize * k < width}
      filled[k \in 0 .. 8] ==
        IF k = 0 THEN 0
        ELSE filled[k - 1] + (IF (k - 1) \in copies THEN rotated * 2^(esize * (k - 1)) ELSE 0)
  IN  IF combined < 2 THEN -1
      ELSE IF width < esize \/ s = esize - 1 THEN -1
      ELSE filled[8]

LogOp(op) == CASE op \in {"And", "Ands", "Bic", "Bics"} -> "And"
               [] op \in {"Orr", "Orn"} -> "Or"
               [] op \in {"Eor", "Eon"} -> "Eor"
SetsFlags(op) == op \in {"Ands", "Bics"}

log_imm(i) ==
  <<get_gpr("a", i.rn, i.size),
    const_u64("b", decode_bit_masks(i.n, i.imms, i.immr, Bits(i.size))),
    binary("r", LogOp(i.op), i.size, "a", "b")>>
  \o (IF SetsFlags(i.op) THEN logic_flags("r", i.size) ELSE <<>>)
  \o set_gpr_or_sp(i.rd, "r", i.size, ~SetsFlags(i.op))

log_shift(i) ==
  LET b == Shifted(i)
      inv == i.op \in {"Bic", "Bics", "Orn", "Eon"}
  IN  <<get_gpr("a", i.rn, i.size), get_gpr("m", i.rm, i.size)>> \o b.nodes
      \o (IF inv THEN <<const_u64("ones", Mask(i.size)), binary("i", "Eor", i.size, b.v, "ones")>>
                 ELSE <<>>)
      \o <<binary("r", LogOp(i.op), i.size, "a", IF inv THEN "i" ELSE b.v)>>
      \o (IF SetsFlags(i.op) THEN logic_flags("r", i.size) ELSE <<>>)
      \o set_gpr(i.rd, "r", i.size)

\* MOVZ, MOVN, MOVK; a half word has 2 bits in this scale.
movewide(i) ==
  LET shifted == i.imm * 4^i.hw
      keep == BitAnd(Ones(XBits) - 3 * 4^i.hw, Mask(i.size))
  IN  CASE i.kind = "Z" -> <<const_u64("c", shifted)>> \o set_gpr(i.rd, "c", i.size)
        [] i.kind = "N" -> <<const_u64("c", BitAnd(Ones(XBits) - shifted, Mask(i.size)))>>
                           \o set_gpr(i.rd, "c", i.size)
        [] i.kind = "K" -> <<get_gpr("p", i.rd, i.size), const_u64("m", keep),
                             binary("c", "And", i.size, "p", "m"), const_u64("h", shifted),
                             binary("r", "Or", i.size, "c", "h")>>
                           \o set_gpr(i.rd, "r", i.size)

\* ADR and ADRP; a page has PageBits address bits.
PageBits == 4
pcreladdr(i, pc) ==
  LET base == IF i.page THEN pc - (pc % 2^PageBits) ELSE pc
      off == IF i.page THEN i.off * 2^PageBits ELSE i.off
  IN  <<const_u64("c", Trunc(base + off, XBits))>> \o set_x(i.rd, "c")

-----------------------------------------------------------------------------
(* Loads and stores.                                                       *)

\* The access itself at the address labelled addr: the common part of ldst_pos,
\* ldst_unscaled, ldst_imm9 and ldst_regoff.
MemoryAccess(i, addr) ==
  LET n == i.bytes
  IN  CASE i.kind = "Store" ->
             <<get_gpr("v", i.rt, IF n = 8 THEN "X" ELSE "W")>> \o store(addr, "v", n)
        [] i.kind = "LoadU" ->
             <<load("v", addr, n)>> \o (IF n <= 4 THEN set_w(i.rt, "v") ELSE set_x(i.rt, "v"))
        [] i.kind = "LoadS" ->
             <<load("v", addr, n)>> \o sign_extend_from("sx", "v", n)
             \o (IF i.target_x THEN set_x(i.rt, "sx") ELSE set_w(i.rt, "sx"))
        [] i.kind = "FpLoad" ->
             <<load("v", addr, n)>>
             \o (IF n < 4
                   THEN <<const_u32("fm", Ones(n)), binary("fv", "And", "W", "v", "fm")>>
                        \o set_v(i.rt, "fv")
                   ELSE set_v(i.rt, "v"))
        [] i.kind = "FpStore" ->
             <<get_v("v", i.rt, IF n = 16 THEN "U128" ELSE IF n = 8 THEN "U64" ELSE "U32")>>
             \o store(addr, "v", n)

\* The base and the sum of the base and an immediate.
BasePlus(i, off) ==
  <<get_x_or_sp("base", i.rn, TRUE), const_u64("off", Trunc(off, XBits)),
    binary("ea", "Add", "X", "base", "off")>>

\* Scaled and unsigned; unscaled; before or after the write-back of the base.
ldst_pos(i) == BasePlus(i, i.imm * i.bytes) \o MemoryAccess(i, "ea")
ldst_unscaled(i) == BasePlus(i, i.imm) \o MemoryAccess(i, "ea")
ldst_imm9(i) ==
  BasePlus(i, i.imm) \o MemoryAccess(i, IF i.mode = "post" THEN "base" ELSE "ea")
  \o set_x_or_sp(i.rn, "ea")

Log2 == [n \in {1, 2, 4, 8, 16} |-> CHOOSE k \in 0 .. 4 : 2^k = n]

ldst_regoff(i) ==
  LET e == Extended(ExtendBits(i.option), i.option >= 4)
      sh == IF i.scaled THEN <<const_u64("k", Log2[i.bytes]), binary("s", "Lsl", "X", e.v, "k")>>
            ELSE <<>>
  IN  <<get_x_or_sp("base", i.rn, TRUE), get_x("m", i.rm)>> \o e.nodes \o sh
      \o <<binary("ea", "Add", "X", "base", IF i.scaled THEN "s" ELSE e.v)>>
      \o MemoryAccess(i, "ea")

\* A pair of accesses, with no write-back, before or after it.
PairAccess(i) ==
  LET size == IF i.bytes = 4 THEN "W" ELSE "X"
      ty == TyOfBytes[i.bytes]
      a1 == IF i.mode = "post" THEN "base" ELSE "wb"
      halves == <<load("lo", a1, i.bytes), load("hi", "a2", i.bytes)>>
      access ==
        CASE i.kind = "Load" -> halves \o set_gpr(i.rt, "lo", size) \o set_gpr(i.rt2, "hi", size)
          [] i.kind = "FpLoad" /\ i.bytes < 16 -> halves \o set_v(i.rt, "lo") \o set_v(i.rt2, "hi")
          [] i.kind = "FpLoad" /\ i.bytes = 16 ->
               <<load("lo", a1, 16)>> \o set_v(i.rt, "lo")
               \o <<load("hi", "a2", 16)>> \o set_v(i.rt2, "hi")
          [] i.kind = "LoadSw" ->
               halves \o <<const_u64("sh", WBits), binary("l1", "Lsl", "X", "lo", "sh"),
                           binary("ls", "Asr", "X", "l1", "sh"),
                           binary("h1", "Lsl", "X", "hi", "sh"),
                           binary("hs", "Asr", "X", "h1", "sh")>>
               \o set_x(i.rt, "ls") \o set_x(i.rt2, "hs")
          [] i.kind = "Store" ->
               <<get_gpr("lo", i.rt, size), get_gpr("hi", i.rt2, size)>>
               \o store(a1, "lo", i.bytes) \o store("a2", "hi", i.bytes)
          [] i.kind = "FpStore" /\ i.bytes < 16 ->
               <<get_v("lo", i.rt, ty), get_v("hi", i.rt2, ty)>>
               \o store(a1, "lo", i.bytes) \o store("a2", "hi", i.bytes)
          [] i.kind = "FpStore" /\ i.bytes = 16 ->
               <<get_v("lo", i.rt, ty)>> \o store(a1, "lo", 16)
               \o <<get_v("hi", i.rt2, ty)>> \o store("a2", "hi", 16)
  IN  <<get_x_or_sp("base", i.rn, TRUE), const_u64("off", Trunc(i.imm * i.bytes, XBits)),
        binary("wb", "Add", "X", "base", "off"),
        const_u64("one", i.bytes), binary("a2", "Add", "X", a1, "one")>>
      \o access
\* LDP, STP, LDNP, STNP and LDPSW.
ldstpair_off(i) == PairAccess(i)
ldstpair_indexed(i) == PairAccess(i) \o set_x_or_sp(i.rn, "wb")

loadlit(i, pc) ==
  <<const_u64("addr", Trunc(pc + i.off, XBits)), load("v", "addr", i.bytes)>>
  \o (CASE i.kind = "Fp" -> set_v(i.rt, "v")
        [] i.kind = "Gpr" -> set_gpr(i.rt, "v", IF i.bytes = 8 THEN "X" ELSE "W")
        [] i.kind = "Sw" -> sign_extend_from("sx", "v", WBits) \o set_x(i.rt, "sx"))

-----------------------------------------------------------------------------
(* System, moves between the register files, and branches.                 *)

Digits == <<"1", "2", "3", "4", "5", "6", "7">>
ic_system(i) ==
  CASE i.op \in {"Clrex", "Hint", "MemoryBarrier"} -> Effect(i.op, 0, <<>>, 0)
    [] i.op = "Mrs" -> <<Node("v", "Mrs", XBits, "U64", <<>>, i.reg)>> \o set_x(i.rt, "v")
    [] i.op = "Msr" -> <<get_x("v", i.rt)>> \o Effect("Msr", XBits, <<"v">>, i.reg)
    [] i.op = "DcZva" ->
         LET line[n \in 0 .. 7] ==
               IF n = 0 THEN store("al", "zero", 8)
               ELSE line[n - 1]
                    \o <<const_u64("d" \o Digits[n], 8 * n),
                         binary("p" \o Digits[n], "Add", "X", "al", "d" \o Digits[n])>>
                    \o store("p" \o Digits[n], "zero", 8)
         IN  <<get_x("base", i.rt), const_u64("m", Ones(XBits) - 63),
               binary("al", "And", "X", "base", "m"), const_u64("zero", 0)>> \o line[7]

\* FMOV between a general and a vector register (fp_conv).
fmov(i) ==
  IF i.to_v THEN <<get_gpr("v", i.rn, i.size)>> \o set_v(i.rd, "v")
            ELSE <<get_v("v", i.rn, TyOf(i.size))>> \o set_gpr(i.rd, "v", i.size)

Branches == {"b", "br", "bcond", "cbz", "tbz", "exc"}

\* What a branch pushes and the terminal it leaves in the block.
Ending(nodes, terminal) == [nodes |-> nodes, terminal |-> terminal]
NextInsn(pc) == Trunc(pc + 4, XBits)
Target(i, pc) == Trunc(pc + i.off, XBits)
LinkTo(i, pc) ==
  IF i.link THEN <<const_u64("ret", NextInsn(pc))>> \o set_x(30, "ret") ELSE <<>>

branch_imm(i, pc) ==
  Ending(LinkTo(i, pc) \o Effect(IF i.link THEN "BranchLink" ELSE "Branch", 0, <<>>, Target(i, pc)),
         [t |-> "DirectBranch", pc |-> Target(i, pc)])
branch_reg(i, pc) ==
  LET op == IF i.ret THEN "Ret" ELSE IF i.link THEN "BranchIndirectLink" ELSE "BranchIndirect"
  IN  Ending(<<get_x("t", i.rn)>> \o LinkTo(i, pc) \o Effect(op, 0, <<"t">>, 0),
             [t |-> "IndirectBranch", value |-> "t"])
condbranch(i, pc) ==
  Ending(<<get_nzcv("n")>> \o Effect("BranchCond", 0, <<"n">>, Target(i, pc)),
         [t |-> "ConditionalBranch", value |-> "n", cond |-> i.cond, taken |-> Target(i, pc),
          fall |-> NextInsn(pc)])
compbranch(i, pc) ==
  Ending(<<get_gpr("v", i.rt, i.size)>>
         \o Effect(IF i.inverse THEN "CbNz" ELSE "CbZ", 0, <<"v">>, Target(i, pc)),
         [t |-> "CompareBranchZero", value |-> "v", inverse |-> i.inverse, w |-> Bits(i.size),
          taken |-> Target(i, pc), fall |-> NextInsn(pc)])
testbranch(i, pc) ==
  Ending(<<get_x("v", i.rt)>> \o Effect(IF i.inverse THEN "TbNz" ELSE "TbZ", 0, <<"v">>, Target(i, pc)),
         [t |-> "TestBranchBit", value |-> "v", bit |-> i.bit, inverse |-> i.inverse,
          taken |-> Target(i, pc), fall |-> NextInsn(pc)])
exception(i, pc) ==
  Ending(Effect(i.kind, 0, <<>>, i.imm),
         [t |-> "Exception", kind |-> i.kind, imm |-> i.imm, end |-> NextInsn(pc)])

branch(i, pc) ==
  CASE i.k = "b" -> branch_imm(i, pc)
    [] i.k = "br" -> branch_reg(i, pc)
    [] i.k = "bcond" -> condbranch(i, pc)
    [] i.k = "cbz" -> compbranch(i, pc)
    [] i.k = "tbz" -> testbranch(i, pc)
    [] i.k = "exc" -> exception(i, pc)

-----------------------------------------------------------------------------
(* Encodings a translator refuses with Error::Decode.                      *)

AddsubShiftRefused(i) == i.shift = 3 \/ i.amount >= Bits(i.size)
LogShiftRefused(i) == i.amount >= Bits(i.size)
AddsubExtRefused(i) == i.amount > 4
BitfieldRefused(i) ==
  i.n # B2N(i.size = "X") \/ (i.size = "W" /\ (i.immr >= WBits \/ i.imms >= WBits))
ExtractRefused(i) == i.n # B2N(i.size = "X") \/ i.imms >= Bits(i.size)
LogImmRefused(i) ==
  (i.size = "W" /\ i.n # 0) \/ decode_bit_masks(i.n, i.imms, i.immr, Bits(i.size)) = -1
MovewideRefused(i) == i.size = "W" /\ i.hw >= 2
Dp1srcRefused(i) == i.kind = "Rev32" /\ i.size = "W"
RegoffRefused(i) == (i.option % 4) \in {0, 1}

\* translate_instruction: the error of the translator the encoding goes to.
Refused(i) ==
  CASE i.k = "addsub_shift" -> AddsubShiftRefused(i)
    [] i.k = "log_shift" -> LogShiftRefused(i)
    [] i.k = "addsub_ext" -> AddsubExtRefused(i)
    [] i.k = "bitfield" -> BitfieldRefused(i)
    [] i.k = "extract" -> ExtractRefused(i)
    [] i.k = "log_imm" -> LogImmRefused(i)
    [] i.k = "movewide" -> MovewideRefused(i)
    [] i.k = "dp_1src" -> Dp1srcRefused(i)
    [] i.k = "ldst_regoff" -> RegoffRefused(i)
    [] i.k \in VectorKinds -> VectorRefused(i)
    [] OTHER -> FALSE

\* The nodes of an instruction that is no branch.
Nodes(i, pc) ==
  CASE i.k = "addsub_imm" -> addsub_imm(i)
    [] i.k = "addsub_shift" -> addsub_shift(i)
    [] i.k = "addsub_ext" -> addsub_ext(i)
    [] i.k = "addsub_carry" -> addsub_carry(i)
    [] i.k = "bitfield" -> bitfield(i)
    [] i.k = "condcmp" -> IF i.reg THEN condcmp_reg(i) ELSE condcmp_imm(i)
    [] i.k = "condsel" -> condsel(i)
    [] i.k = "dp_1src" -> dp_1src(i)
    [] i.k = "dp_2src" -> dp_2src(i)
    [] i.k = "dp_3src" -> dp_3src(i)
    [] i.k = "extract" -> extract(i)
    [] i.k = "log_imm" -> log_imm(i)
    [] i.k = "log_shift" -> log_shift(i)
    [] i.k = "movewide" -> movewide(i)
    [] i.k = "pcreladdr" -> pcreladdr(i, pc)
    [] i.k = "ldst_imm" /\ i.mode = "pos" -> ldst_pos(i)
    [] i.k = "ldst_imm" /\ i.mode = "unscaled" -> ldst_unscaled(i)
    [] i.k = "ldst_imm" /\ i.mode \in {"pre", "post"} -> ldst_imm9(i)
    [] i.k = "ldst_regoff" -> ldst_regoff(i)
    [] i.k = "ldstpair" -> IF i.mode = "off" THEN ldstpair_off(i) ELSE ldstpair_indexed(i)
    [] i.k = "loadlit" -> loadlit(i, pc)
    [] i.k = "ic_system" -> ic_system(i)
    [] i.k = "fmov" -> fmov(i)
    [] i.k = "prfm" -> <<>>
    [] i.k \in VectorKinds -> VectorNodes(i)

\* Appends nodes to the block, their labels resolved.
Emit(b, nodes) ==
  LET base == Len(b.code)
      at(x) == base + CHOOSE j \in DOMAIN nodes : nodes[j].x = x
      go[j \in 0 .. Len(nodes)] ==
        IF j = 0 THEN b
        ELSE LET n == nodes[j]
             IN  Push(go[j - 1], Armlet(n.op, n.w, n.ty, [q \in DOMAIN n.args |-> at(n.args[q])],
                                        n.imm))
  IN  go[Len(nodes)]

\* The block after instruction i at address pc.
Translated(b, i, pc) ==
  IF i.k \in Branches
    THEN LET r == branch(i, pc)
             c == Emit(b, r.nodes)
             at(x) == Len(b.code) + CHOOSE j \in DOMAIN r.nodes : r.nodes[j].x = x
         IN  [c EXCEPT !.terminal =
                IF "value" \in DOMAIN r.terminal
                  THEN [r.terminal EXCEPT !.value = at(r.terminal.value)] ELSE r.terminal]
    ELSE Emit(b, Nodes(i, pc))
=============================================================================

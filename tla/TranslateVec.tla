----------------------------- MODULE TranslateVec -----------------------------
(***************************************************************************)
(* The translators of the integer vector instructions                      *)
(* (frontend/translate/asimd_*.rs, asisd_ldst.rs), in the scale of Ir: an  *)
(* immediate that counts bits is divided by 8, one that counts bytes or    *)
(* elements is as it is.  Floating point, table lookup, saturation,        *)
(* variable shifts and counts within bytes are left out.                   *)
(***************************************************************************)
EXTENDS Emitter, TLC

Digit == <<"a", "b", "c", "d", "e", "f", "g", "h", "i", "j", "k", "l", "m", "n", "o", "p">>
Label(x, i) == x \o Digit[i + 1]
get_v_q(x, reg) == get_v(x, reg, "U128")
get_v_d(x, reg) == get_v(x, reg, "U64")

\* The nodes F(i) of i = 0 .. n - 1, one after the other.
Each(n, F(_)) ==
  LET go[k \in 0 .. n] == IF k = 0 THEN <<>> ELSE go[k - 1] \o F(k - 1)
  IN  go[n]

-----------------------------------------------------------------------------
(* Three registers (asimd_same.rs).                                        *)

Pairwise == [Addp |-> "VecAdd", Smaxp |-> "VecSmax", Sminp |-> "VecSmin", Umaxp |-> "VecUmax",
             Uminp |-> "VecUmin"]

asimd_same(i) ==
  <<get_v_q("n", i.rn), get_v_q("m", i.rm)>>
  \o (CASE i.kind \in {"Mla", "Mls"} ->
             <<get_v_q("d", i.rd), vec_binary("p", "VecMul", "n", "m", i.lane, i.q),
               vec_binary("r", IF i.kind = "Mls" THEN "VecSub" ELSE "VecAdd", "d", "p", i.lane, i.q)>>
        [] i.kind \in {"Bit", "Bif", "Bsl"} ->
             <<get_v_q("d", i.rd), vec_select("r", "Vec" \o i.kind, "d", "n", "m", i.q)>>
        [] i.kind \in DOMAIN Pairwise ->
             <<vec_binary("u", "VecUzp1", "n", "m", i.lane, i.q),
               vec_binary("v", "VecUzp2", "n", "m", i.lane, i.q),
               vec_binary("r", Pairwise[i.kind], "u", "v", i.lane, i.q)>>
        [] OTHER -> <<vec_binary("r", "Vec" \o i.kind, "n", "m", i.lane, i.q)>>)
  \o set_v(i.rd, "r")

\* Reserved arrangements; logic and selection have no lanes.
No64 == {"Smin", "Smax", "Umin", "Umax", "Smaxp", "Sminp", "Umaxp", "Uminp", "Mul", "Mla", "Mls"}
Lanes64 == {"Add", "Sub", "Cmeq", "Cmgt", "Cmge", "Cmhi", "Cmhs", "Addp"}
SameRefused(i) == i.lane = 3 /\ (i.kind \in No64 \/ (i.kind \in Lanes64 /\ ~i.q))

translate_cmtst(i) ==
  <<get_v_q("n", i.rn), get_v_q("m", i.rm), vec_logic("x", "VecAnd", "n", "m", i.q)>>
  \o vec_zero("0")
  \o <<vec_binary("e", "VecCmeq", "x", "0", i.lane, i.q), vec_unary("r", "VecNot", "e", 0, i.q)>>
  \o set_v(i.rd, "r")
CmtstRefused(i) == IF i.scalar THEN i.lane # 3 ELSE i.lane = 3 /\ ~i.q

-----------------------------------------------------------------------------
(* Shifts by an immediate (asimd_shf.rs).  The highest bit of the          *)
(* immediate is the lane width.                                            *)

ShiftLaneOf(imm) == IF imm >= 8 THEN 3 ELSE IF imm >= 4 THEN 2 ELSE IF imm >= 2 THEN 1 ELSE 0
LeftBy(i) == i.imm - 2^ShiftLaneOf(i.imm)
RightBy(i) == 2 * 2^ShiftLaneOf(i.imm) - i.imm

asimd_shf(i) ==
  LET lane == ShiftLaneOf(i.imm)
      narrow == <<vec_shift_imm("s", "VecUshrImm", "n", lane + 1, RightBy(i), TRUE)>>
  IN  <<get_v_q("n", i.rn)>>
      \o (CASE i.kind = "Shl" -> <<vec_shift_imm("r", "VecShlImm", "n", lane, LeftBy(i), i.q)>>
            [] i.kind = "Ushr" -> <<vec_shift_imm("r", "VecUshrImm", "n", lane, RightBy(i), i.q)>>
            [] i.kind = "Sshr" -> <<vec_shift_imm("r", "VecSshrImm", "n", lane, RightBy(i), i.q)>>
            [] i.kind = "Shrn" -> narrow \o <<vec_xtn("r", "s", lane + 1)>>
            [] i.kind = "Shrn2" ->
                 narrow \o <<get_v_q("d", i.rd), vec_xtn2("r", "d", "s", lane + 1)>>)
      \o set_v(i.rd, "r")

\* SHL of a scalar.
scalar_shl(i) ==
  <<get_v_d("n", i.rn), const_u64("k", i.imm - XBits), binary("r", "Lsl", "X", "n", "k")>>
  \o set_v(i.rd, "r")

\* SLI and SRI keep the bits of the destination that the shift leaves free.
translate_insert(i) ==
  LET left == i.kind = "Sli"
      lane == ShiftLaneOf(i.imm)
      w == 2^lane
      shift == IF left THEN LeftBy(i) ELSE RightBy(i)
      preserved == IF left THEN Ones(shift)
                   ELSE IF shift = XBits THEN Ones(XBits)
                   ELSE BitXor(Ones(w), Ones(w) \div 2^shift)
  IN  IF i.scalar
        THEN <<get_v_d("n", i.rn), get_v_d("d", i.rd)>>
             \o (IF ~left /\ shift = XBits THEN <<const_u64("s", 0)>>
                 ELSE <<const_u64("k", shift), binary("s", IF left THEN "Lsl" ELSE "Lsr", "X", "n", "k")>>)
             \o <<const_u64("m", preserved), binary("t", "And", "X", "d", "m"),
                  binary("r", "Or", "X", "s", "t")>> \o set_v(i.rd, "r")
        ELSE <<get_v_q("n", i.rn), get_v_q("d", i.rd),
               vec_shift_imm("s", IF left THEN "VecShlImm" ELSE "VecUshrImm", "n", lane, shift, i.q),
               const_u64("m", preserved), vec_dup_gpr("mm", "m", lane, i.q),
               vec_logic("t", "VecAnd", "d", "mm", i.q), vec_logic("r", "VecOrr", "s", "t", i.q)>>
             \o set_v(i.rd, "r")

\* SSHR to URSRA: rounding adds the last bit shifted out.
RightKinds == {"Sshr", "Ushr", "Ssra", "Usra", "Srshr", "Urshr", "Srsra", "Ursra"}
translate_right(i) ==
  LET signed == i.kind \in {"Sshr", "Ssra", "Srshr", "Srsra"}
      rounded == i.kind \in {"Srshr", "Urshr", "Srsra", "Ursra"}
      accumulate == i.kind \in {"Ssra", "Usra", "Srsra", "Ursra"}
      lane == ShiftLaneOf(i.imm)
      shift == RightBy(i)
      value == IF rounded THEN "t" ELSE "s"
      result == IF accumulate THEN "r" ELSE value
      scalar ==
        (IF signed
           THEN <<const_u64("k", IF shift > XBits - 1 THEN XBits - 1 ELSE shift),
                  binary("s", "Asr", "X", "n", "k")>>
           ELSE IF shift = XBits THEN <<const_u64("s", 0)>>
                ELSE <<const_u64("k", shift), binary("s", "Lsr", "X", "n", "k")>>)
        \o (IF rounded
              THEN <<const_u64("l", shift - 1), binary("x", "Lsr", "X", "n", "l"),
                     const_u64("1", 1), binary("b", "And", "X", "x", "1"),
                     binary("t", "Add", "X", "s", "b")>> ELSE <<>>)
        \o (IF accumulate THEN <<binary("r", "Add", "X", "d", value)>> ELSE <<>>)
      vector ==
        <<vec_shift_imm("s", IF signed THEN "VecSshrImm" ELSE "VecUshrImm", "n", lane, shift, i.q)>>
        \o (IF rounded
              THEN <<vec_shift_imm("x", "VecUshrImm", "n", lane, shift - 1, i.q),
                     const_u64("1", 1), vec_dup_gpr("11", "1", lane, i.q),
                     vec_logic("b", "VecAnd", "x", "11", i.q),
                     vec_binary("t", "VecAdd", "s", "b", lane, i.q)>> ELSE <<>>)
        \o (IF accumulate THEN <<vec_binary("r", "VecAdd", "d", value, lane, i.q)>> ELSE <<>>)
      Get(x, reg) == IF i.scalar THEN get_v_d(x, reg) ELSE get_v_q(x, reg)
  IN  <<Get("n", i.rn)>> \o (IF accumulate THEN <<Get("d", i.rd)>> ELSE <<>>)
      \o (IF i.scalar THEN scalar ELSE vector) \o set_v(i.rd, result)

\* SSHLL and USHLL: the sum with zero widens.
translate_widen_shift(i) ==
  LET lane == ShiftLaneOf(i.imm)
  IN  <<get_v_q("n", i.rn)>> \o vec_zero("0")
      \o <<vec_long("w", IF i.kind = "Sshll" THEN "VecSaddl" ELSE "VecUaddl", "n", "0", lane, i.q),
           vec_shift_imm("r", "VecShlImm", "w", lane + 1, LeftBy(i), TRUE)>>
      \o set_v(i.rd, "r")

ShiftNodes(i) ==
  CASE i.kind \in {"Sli", "Sri"} -> translate_insert(i)
    [] i.kind \in {"Sshll", "Ushll"} -> translate_widen_shift(i)
    [] i.kind = "Shl" /\ i.scalar -> scalar_shl(i)
    [] i.kind \in RightKinds /\ (i.scalar \/ i.kind \notin {"Sshr", "Ushr"}) -> translate_right(i)
    [] OTHER -> asimd_shf(i)
ShiftRefused(i) ==
  LET wide == i.imm >= 8
  IN  CASE i.kind \in {"Sshll", "Ushll", "Shrn", "Shrn2"} -> i.imm = 0 \/ wide
        [] OTHER -> i.imm = 0 \/ (IF i.scalar THEN ~wide ELSE wide /\ ~i.q)

-----------------------------------------------------------------------------
(* Elements (asimd_ins.rs, asimd_elem.rs), immediates (asimd_imm.rs) and   *)
(* permutations (asimd_perm.rs).                                           *)

\* The lowest bit set is the lane, the bits above it the element.
decode_imm5(imm5) ==
  LET lane == CHOOSE k \in 0 .. 3 : Bit(imm5, k) = 1 /\ \A j \in 0 .. (k - 1) : Bit(imm5, j) = 0
  IN  [lane |-> lane, index |-> imm5 \div 2^(lane + 1)]
Imm5Reserved(imm5) == \A k \in 0 .. 3 : Bit(imm5, k) = 0

asimd_ins(i) ==
  LET e == decode_imm5(i.imm5)
      gpr == get_gpr("g", i.rn, IF e.lane = 3 THEN "X" ELSE "W")
      element == <<get_v_q("n", i.rn), vec_extract("g", "n", e.lane, e.index)>>
      dst == IF i.q THEN "X" ELSE "W"
      by == Bits(dst) - 2^e.lane
  IN  CASE i.kind = "DupGpr" -> <<gpr, vec_dup_gpr("r", "g", e.lane, i.q)>> \o set_v(i.rd, "r")
        [] i.kind = "DupElem" -> element \o <<vec_dup_gpr("r", "g", e.lane, i.q)>> \o set_v(i.rd, "r")
        [] i.kind = "DupScalar" -> element \o set_v(i.rd, "g")
        [] i.kind = "Umov" -> element \o set_gpr(i.rd, "g", IF e.lane = 3 THEN "X" ELSE "W")
        [] i.kind = "Smov" ->
             element \o <<const_u64("k", by), binary("l", "Lsl", dst, "g", "k"),
                          const_u64("j", by), binary("r", "Asr", dst, "l", "j")>>
             \o set_gpr(i.rd, "r", dst)
        [] i.kind = "InsGpr" ->
             <<gpr, get_v_q("d", i.rd), vec_ins_gpr("r", "d", "g", e.lane, e.index)>> \o set_v(i.rd, "r")
        [] i.kind = "InsElem" ->
             <<get_v_q("n", i.rn), vec_extract("g", "n", e.lane, i.imm4 \div 2^e.lane),
               get_v_q("d", i.rd), vec_ins_gpr("r", "d", "g", e.lane, e.index)>> \o set_v(i.rd, "r")
InsRefused(i) ==
  IF Imm5Reserved(i.imm5) THEN TRUE
  ELSE LET lane == decode_imm5(i.imm5).lane
       IN  lane = 3 /\ (i.kind = "Smov" \/ (i.kind = "Umov" /\ ~i.q))

\* Multiplication by an element: the bits H, L and M of the encoding are its index.
asimd_elem(i) ==
  LET index == IF i.lane = 1 THEN 4 * i.h + 2 * i.l + i.m ELSE 2 * i.h + i.l
      rm == IF i.lane = 1 THEN i.rm ELSE 16 * i.m + i.rm
  IN  <<get_v_q("m", rm), vec_extract("g", "m", i.lane, index), vec_dup_gpr("b", "g", i.lane, i.q),
        get_v_q("n", i.rn), vec_binary("p", "VecMul", "n", "b", i.lane, i.q)>>
      \o (IF i.kind = "Mul" THEN <<>>
          ELSE <<get_v_q("d", i.rd),
                 vec_binary("r", IF i.kind = "Mls" THEN "VecSub" ELSE "VecAdd", "d", "p", i.lane, i.q)>>)
      \o set_v(i.rd, IF i.kind = "Mul" THEN "p" ELSE "r")

replicate_lane(v, w) ==
  LET go[k \in 0 .. (XBits \div w)] == IF k = 0 THEN 0 ELSE go[k - 1] + Trunc(v, w) * 2^(w * (k - 1))
  IN  go[XBits \div w]

\* An immediate byte is one bit; that of the 64-bit mask has a bit for every byte.
adv_simd_expand_imm(imm, cmode, op) ==
  LET form == cmode \div 2
  IN  CASE form <= 3 -> replicate_lane(imm * 2^form, WBits)
        [] form \in {4, 5} -> replicate_lane(imm * 2^(form - 4), 2)
        [] form = 6 -> IF (cmode % 2) = 0 THEN replicate_lane(2 * imm + 1, WBits)
                                          ELSE replicate_lane(4 * imm + 3, WBits)
        [] form = 7 -> IF op = 0 THEN replicate_lane(imm, 1) ELSE imm

asimd_imm(i) ==
  LET expanded == adv_simd_expand_imm(i.imm, i.cmode, i.op)
      lane64 == IF i.kind = "Mvni" THEN Ones(XBits) - expanded ELSE expanded
      use == i.kind \in {"Orr", "Bic"}
  IN  <<const_u64("lo", lane64), const_u64("hi", IF i.q THEN lane64 ELSE 0),
        vec_build_q("i", "lo", "hi")>>
      \o (IF use THEN <<get_v_q("d", i.rd), vec_logic("r", "Vec" \o i.kind, "d", "i", i.q)>> ELSE <<>>)
      \o set_v(i.rd, IF use THEN "r" ELSE "i")

translate_ext(i) ==
  <<get_v_q("n", i.rn), get_v_q("m", i.rm), vec_ext("r", "n", "m", i.imm4, i.q)>> \o set_v(i.rd, "r")
ExtRefused(i) == ~i.q /\ i.imm4 >= 8
translate_perm(i) ==
  <<get_v_q("n", i.rn), get_v_q("m", i.rm), vec_binary("r", "Vec" \o i.kind, "n", "m", i.lane, i.q)>>
  \o set_v(i.rd, "r")

-----------------------------------------------------------------------------
(* Widening (asimd_diff.rs), one register (asimd_misc.rs), across lanes    *)
(* (asimd_all.rs, asimd_scalar_pair.rs).                                   *)

asimd_diff(i) ==
  LET signed == i.kind \in {"Saddw", "Ssubw", "Smlal", "Smlsl"}
  IN  <<get_v_q("n", i.rn), get_v_q("m", i.rm)>>
      \o (CASE i.kind \in {"Saddw", "Uaddw", "Ssubw", "Usubw"} ->
                 vec_zero("0")
                 \o <<vec_long("w", IF signed THEN "VecSaddl" ELSE "VecUaddl", "m", "0", i.lane, i.q),
                      vec_binary("r", IF i.kind \in {"Ssubw", "Usubw"} THEN "VecSub" ELSE "VecAdd",
                                 "n", "w", i.lane + 1, TRUE)>>
            [] i.kind \in {"Smlal", "Umlal", "Smlsl", "Umlsl"} ->
                 <<get_v_q("d", i.rd),
                   vec_long("p", IF signed THEN "VecSmull" ELSE "VecUmull", "n", "m", i.lane, i.q),
                   vec_binary("r", IF i.kind \in {"Smlsl", "Umlsl"} THEN "VecSub" ELSE "VecAdd",
                              "d", "p", i.lane + 1, TRUE)>>
            [] OTHER -> <<vec_long("r", "Vec" \o i.kind, "n", "m", i.lane, i.q)>>)
      \o set_v(i.rd, "r")

ZeroCompare == [Cmeq0 |-> "VecCmeq", Cmgt0 |-> "VecCmgt", Cmge0 |-> "VecCmge", Cmle0 |-> "VecCmge",
                Cmlt0 |-> "VecCmgt"]
Containers == [Rev16 |-> 1, Rev32 |-> 2, Rev64 |-> 3]

\* CLZ of bytes and CLS: element by element through a general register.
translate_leading_count(i) ==
  LET signed == i.kind = "Cls"
      w == 2^i.lane
      src == IF signed THEN "e" ELSE "n"
      count == (IF i.q THEN QBits ELSE XBits) \div w
      sum(k) == IF k = 0 THEN "0" ELSE Label("r", k - 1)
  IN  CASE i.lane = 1 /\ ~signed -> <<vec_unary("r", "VecClz16", "n", 1, i.q)>> \o set_v(i.rd, "r")
        [] i.lane = 2 /\ ~signed -> <<vec_unary("r", "VecClz32", "n", 2, i.q)>> \o set_v(i.rd, "r")
        [] OTHER ->
             (IF signed
                THEN <<vec_shift_imm("s", "VecSshrImm", "n", i.lane, w - 1, i.q),
                       vec_logic("e", "VecEor", "n", "s", i.q)>> ELSE <<>>)
             \o vec_zero("0") \o <<const_u64("adj", WBits - w + B2N(signed))>>
             \o Each(count, LAMBDA k :
                  <<vec_extract(Label("x", k), src, i.lane, k),
                    Node(Label("z", k), "Clz", WBits, "U32", <<Label("x", k)>>, 0),
                    binary(Label("c", k), "Sub", "W", Label("z", k), "adj"),
                    vec_ins_gpr(Label("r", k), sum(k), Label("c", k), i.lane, k)>>)
             \o set_v(i.rd, sum(count))

translate_shift_left_width(i) ==
  vec_zero("0")
  \o <<vec_long("w", "VecUaddl", "n", "0", i.lane, i.q),
       vec_shift_imm("r", "VecShlImm", "w", i.lane + 1, 2^i.lane, TRUE)>> \o set_v(i.rd, "r")

asimd_misc(i) ==
  <<get_v_q("n", i.rn)>>
  \o (CASE i.kind \in {"Neg", "Abs", "Not"} ->
             <<vec_unary("r", "Vec" \o i.kind, "n", i.lane, i.q)>> \o set_v(i.rd, "r")
        [] i.kind = "Xtn" ->
             (IF i.q THEN <<get_v_q("d", i.rd), vec_xtn2("r", "d", "n", i.lane + 1)>>
                     ELSE <<vec_xtn("r", "n", i.lane + 1)>>) \o set_v(i.rd, "r")
        [] i.kind \in DOMAIN Containers ->
             <<vec_rev("r", "n", i.lane, Containers[i.kind], i.q)>> \o set_v(i.rd, "r")
        [] i.kind \in DOMAIN ZeroCompare ->
             LET swap == i.kind \in {"Cmle0", "Cmlt0"}
             IN  <<const_u64("zlo", 0), const_u64("zhi", 0), vec_build_q("0", "zlo", "zhi"),
                   vec_binary("r", ZeroCompare[i.kind], IF swap THEN "0" ELSE "n",
                              IF swap THEN "n" ELSE "0", i.lane, i.q)>> \o set_v(i.rd, "r")
        [] i.kind = "Shll" -> translate_shift_left_width(i)
        [] i.kind \in {"Clz", "Cls"} -> translate_leading_count(i))
MiscRefused(i) ==
  CASE i.kind \in DOMAIN ZeroCompare \cup {"Neg"} -> i.lane = 3 /\ ~i.q
    [] i.kind = "Not" -> i.lane # 0
    [] i.kind \in {"Abs", "Xtn", "Shll", "Clz", "Cls"} -> i.lane = 3
    [] i.kind \in DOMAIN Containers -> i.lane >= Containers[i.kind]

translate_addv(i) == <<get_v_q("n", i.rn), vec_addv32("r", "n")>> \o set_v(i.rd, "r")
AddvRefused(i) == ~(i.q /\ i.lane = 2)
scalar_addp(i) ==
  <<get_v_q("n", i.rn), vec_extract("l", "n", 3, 0), vec_extract("h", "n", 3, 1),
    binary("r", "Add", "X", "l", "h")>> \o set_v(i.rd, "r")

-----------------------------------------------------------------------------
(* Structure loads and stores (asisd_ldst.rs) of 1, 2 and 4 elements; the  *)
(* three-element forms look bytes up in a table and are left out.          *)

Register(i, k) == (i.rt + k) % 32
base_address(i) == get_x_or_sp("base", i.rn, TRUE)
writeback(i, bytes) ==
  <<IF i.rm = 31 THEN const_u64("woff", bytes) ELSE get_x("woff", i.rm),
    binary("wb", "Add", "X", "base", "woff")>> \o set_x_or_sp(i.rn, "wb")
\* The label of the address at an offset, and its nodes.
addr_at(k, off) ==
  IF off = 0 THEN <<>>
  ELSE <<const_u64(Label("o", k), off), binary(Label("a", k), "Add", "X", "base", Label("o", k))>>
AddrLabel(k, off) == IF off = 0 THEN "base" ELSE Label("a", k)

\* The number of registers and how many of them one structure spans.
Structures == (0 :> <<1, 4>>) @@ (2 :> <<4, 1>>) @@ (7 :> <<1, 1>>) @@ (8 :> <<1, 2>>)
              @@ (10 :> <<2, 1>>)

\* Memory in chunks of 16 bytes, the last of which may have 8.
ChunkLoads(total) ==
  Each((total + 15) \div 16, LAMBDA k :
    addr_at(k, 16 * k)
    \o (IF total - 16 * k >= 16 THEN <<load(Label("c", k), AddrLabel(k, 16 * k), 16)>>
        ELSE <<load(Label("h", k), AddrLabel(k, 16 * k), 8), const_u64(Label("z", k), 0),
               vec_build_q(Label("c", k), Label("h", k), Label("z", k))>>))

load_interleaved(i, selem) ==
  LET Perm(x, op, a, b) == vec_binary(x, op, a, b, i.lane, TRUE)
      total == (IF i.q THEN 16 ELSE 8) * selem
      out == IF selem = 2
               THEN <<Perm("ra", "VecUzp1", "ca", IF i.q THEN "cb" ELSE "ca"),
                      Perm("rb", "VecUzp2", "ca", IF i.q THEN "cb" ELSE "ca")>>
               ELSE <<Perm("t0", "VecUzp1", "ca", "cb"), Perm("t1", "VecUzp2", "ca", "cb")>>
                    \o (IF i.q THEN <<Perm("t2", "VecUzp1", "cc", "cd"), Perm("t3", "VecUzp2", "cc", "cd")>>
                        ELSE <<>>)
                    \o <<Perm("ra", "VecUzp1", "t0", IF i.q THEN "t2" ELSE "t0"),
                         Perm("rb", "VecUzp1", "t1", IF i.q THEN "t3" ELSE "t1"),
                         Perm("rc", "VecUzp2", "t0", IF i.q THEN "t2" ELSE "t0"),
                         Perm("rd", "VecUzp2", "t1", IF i.q THEN "t3" ELSE "t1")>>
  IN  ChunkLoads(total) \o out
      \o Each(selem, LAMBDA k :
           IF i.q THEN set_v(Register(i, k), Label("r", k))
           ELSE <<vec_extract(Label("l", k), Label("r", k), 3, 0)>> \o set_v(Register(i, k), Label("l", k)))

store_interleaved(i, selem) ==
  LET Perm(x, op, a, b) == vec_binary(x, op, a, b, i.lane, TRUE)
      total == (IF i.q THEN 16 ELSE 8) * selem
      chunks == IF selem = 2
        THEN <<Perm("ca", "VecZip1", "sa", "sb")>>
             \o (IF i.q THEN <<Perm("cb", "VecZip2", "sa", "sb")>> ELSE <<>>)
        ELSE <<Perm("p", "VecZip1", "sa", "sc"), Perm("r", "VecZip1", "sb", "sd"),
               Perm("ca", "VecZip1", "p", "r"), Perm("cb", "VecZip2", "p", "r")>>
             \o (IF i.q THEN <<Perm("p2", "VecZip2", "sa", "sc"), Perm("r2", "VecZip2", "sb", "sd"),
                               Perm("cc", "VecZip1", "p2", "r2"), Perm("cd", "VecZip2", "p2", "r2")>>
                 ELSE <<>>)
  IN  Each(selem, LAMBDA k : <<get_v_q(Label("s", k), Register(i, k))>>) \o chunks
      \o Each((total + 15) \div 16, LAMBDA k :
           addr_at(k, 16 * k)
           \o (IF total - 16 * k >= 16 THEN store(AddrLabel(k, 16 * k), Label("c", k), 16)
               ELSE <<vec_extract(Label("l", k), Label("c", k), 3, 0)>>
                    \o store(AddrLabel(k, 16 * k), Label("l", k), 8)))

translate_multiple(i) ==
  LET rpt == Structures[i.opcode][1]
      selem == Structures[i.opcode][2]
      bytes == IF i.q THEN 16 ELSE 8
      nregs == rpt * selem
      Whole(x, k) == get_v(x, Register(i, k), IF i.q THEN "U128" ELSE "U64")
      whole == IF i.load
        THEN Each(nregs, LAMBDA k : addr_at(k, bytes * k)
                                    \o <<load(Label("v", k), AddrLabel(k, bytes * k), bytes)>>)
             \o Each(nregs, LAMBDA k : set_v(Register(i, k), Label("v", k)))
        ELSE Each(nregs, LAMBDA k : <<Whole(Label("v", k), k)>> \o addr_at(k, bytes * k)
                                    \o store(AddrLabel(k, bytes * k), Label("v", k), bytes))
  IN  <<base_address(i)>>
      \o (IF selem = 1 THEN whole
          ELSE IF i.load THEN load_interleaved(i, selem) ELSE store_interleaved(i, selem))
      \o (IF i.post THEN writeback(i, bytes * nregs) ELSE <<>>)
MultipleRefused(i) == i.lane = 3 /\ ~i.q /\ Structures[i.opcode][2] # 1

\* Single structures: the lane and the element from opcode, S, size and Q.
SingleOf(i) ==
  LET scale == i.opcode \div 2
      q == B2N(i.q)
  IN  CASE scale = 0 -> [lane |-> 0, index |-> 8 * q + 4 * i.s + i.size, replicate |-> FALSE]
        [] scale = 1 -> [lane |-> 1, index |-> 4 * q + 2 * i.s + (i.size \div 2), replicate |-> FALSE]
        [] scale = 2 -> IF (i.size % 2) = 0
                          THEN [lane |-> 2, index |-> 2 * q + i.s, replicate |-> FALSE]
                          ELSE [lane |-> 3, index |-> q, replicate |-> FALSE]
        [] scale = 3 -> [lane |-> i.size, index |-> 0, replicate |-> TRUE]
SingleRefused(i) ==
  CASE i.opcode \div 2 = 0 -> FALSE
    [] i.opcode \div 2 = 1 -> (i.size % 2) = 1
    [] i.opcode \div 2 = 2 -> i.size >= 2 \/ (i.size = 1 /\ i.s # 0)
    [] i.opcode \div 2 = 3 -> ~i.load \/ i.s # 0
SingleSelem(i) == 2 * (i.opcode % 2) + i.r + 1

translate_single(i) ==
  LET f == SingleOf(i)
      eb == 2^f.lane
      selem == SingleSelem(i)
      loads == Each(selem, LAMBDA k : addr_at(k, eb * k) \o <<load(Label("v", k), AddrLabel(k, eb * k), eb)>>)
  IN  <<base_address(i)>>
      \o (CASE f.replicate ->
                 loads \o Each(selem, LAMBDA k :
                   <<vec_dup_gpr(Label("d", k), Label("v", k), f.lane, i.q)>>
                   \o set_v(Register(i, k), Label("d", k)))
            [] ~f.replicate /\ i.load ->
                 loads \o Each(selem, LAMBDA k :
                   <<get_v_q(Label("g", k), Register(i, k)),
                     vec_ins_gpr(Label("d", k), Label("g", k), Label("v", k), f.lane, f.index)>>
                   \o set_v(Register(i, k), Label("d", k)))
            [] ~f.replicate /\ ~i.load ->
                 Each(selem, LAMBDA k :
                   <<get_v_q(Label("g", k), Register(i, k)),
                     vec_extract(Label("e", k), Label("g", k), f.lane, f.index)>>
                   \o addr_at(k, eb * k) \o store(AddrLabel(k, eb * k), Label("e", k), eb)))
      \o (IF i.post THEN writeback(i, selem * eb) ELSE <<>>)

-----------------------------------------------------------------------------

VectorKinds == {"asimd_same", "cmtst", "asimd_shf", "asimd_ins", "asimd_elem", "asimd_imm", "ext",
                "perm", "asimd_diff", "asimd_misc", "addv", "addp", "ld_multiple", "ld_single"}

VectorNodes(i) ==
  CASE i.k = "asimd_same" -> asimd_same(i)
    [] i.k = "cmtst" -> translate_cmtst(i)
    [] i.k = "asimd_shf" -> ShiftNodes(i)
    [] i.k = "asimd_ins" -> asimd_ins(i)
    [] i.k = "asimd_elem" -> asimd_elem(i)
    [] i.k = "asimd_imm" -> asimd_imm(i)
    [] i.k = "ext" -> translate_ext(i)
    [] i.k = "perm" -> translate_perm(i)
    [] i.k = "asimd_diff" -> asimd_diff(i)
    [] i.k = "asimd_misc" -> asimd_misc(i)
    [] i.k = "addv" -> translate_addv(i)
    [] i.k = "addp" -> scalar_addp(i)
    [] i.k = "ld_multiple" -> translate_multiple(i)
    [] i.k = "ld_single" -> translate_single(i)

VectorRefused(i) ==
  CASE i.k = "asimd_same" -> SameRefused(i)
    [] i.k = "cmtst" -> CmtstRefused(i)
    [] i.k = "asimd_shf" -> ShiftRefused(i)
    [] i.k = "asimd_ins" -> InsRefused(i)
    [] i.k = "asimd_elem" -> i.lane \notin {1, 2}
    [] i.k = "ext" -> ExtRefused(i)
    [] i.k = "asimd_diff" -> i.lane = 3
    [] i.k = "asimd_misc" -> MiscRefused(i)
    [] i.k = "addv" -> AddvRefused(i)
    [] i.k = "ld_multiple" -> MultipleRefused(i)
    [] i.k = "ld_single" -> SingleRefused(i)
    [] OTHER -> FALSE
=============================================================================

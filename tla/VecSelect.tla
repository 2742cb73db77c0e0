------------------------------ MODULE VecSelect ------------------------------
(***************************************************************************)
(* Instruction selection for the integer vector operations                 *)
(* (backend/isel.rs emit_op_vec_*, backend/operand.rs): the host           *)
(* instructions each operation becomes, given where the allocator put its  *)
(* operands and its result.  The paths for hosts with AVX-512, GFNI or a   *)
(* preferred AVX2 sequence are left out.                                   *)
(*                                                                         *)
(* An operation a has the lane width a.w and, in a.imm, q (128 and not 64  *)
(* bits) and what else its immediate holds.  Locations 0 .. 15 are the XMM *)
(* registers, of which the allocator hands out Allocatable; the others are *)
(* the stack: what a sequence saves, and the homes of spilled values.      *)
(***************************************************************************)
EXTENDS HostVectors

Allocatable == 6 .. 15
Saved(k) == 16 + k
SpillOf(k) == 22 + k
SpilledResult == 26
Locations == 0 .. SpilledResult

Mov(d, s) == <<"movdqa", 16, d, s>>

-----------------------------------------------------------------------------
(* Operands (operand.rs): p.a[k] is the location of operand k, p.d that of *)
(* the result.                                                             *)

into_xmm_q(p, k, target) == IF p.a[k] = target THEN <<>> ELSE <<Mov(target, p.a[k])>>
\* The register an operand is read from, and its load when it is spilled.
get_xmm_q(p, k, fallback) ==
  IF p.a[k] <= 15 THEN [c |-> <<>>, r |-> p.a[k]]
  ELSE [c |-> <<Mov(fallback, p.a[k])>>, r |-> fallback]
working_xmm_for(p) == IF p.d <= 15 THEN p.d ELSE 0
store_xmm_q(p, s) == IF p.d = s THEN <<>> ELSE <<Mov(p.d, s)>>

\* A 64-bit form clears the upper half; then the result goes to its location.
Finish(a, p, r) == (IF a.imm.q THEN <<>> ELSE <<<<"movq", 16, r, r>>>>) \o store_xmm_q(p, r)

\* The usual shape: operand j into the working register, operand k read, Body on both.
Working(a, p, j, k, Body(_, _)) ==
  LET wk == working_xmm_for(p)
      o == get_xmm_q(p, k, 1)
  IN  into_xmm_q(p, j, wk) \o o.c \o Body(wk, o.r) \o Finish(a, p, wk)
Unary1(a, p, Body(_)) ==
  LET wk == working_xmm_for(p)
  IN  into_xmm_q(p, 1, wk) \o Body(wk) \o Finish(a, p, wk)

AllOnes(r) == <<"pcmpeq", 4, r, r>>
Zero(r) == <<"pxor", 16, r, r>>

-----------------------------------------------------------------------------
(* Arithmetic and logic.                                                   *)

emit_vec_binop(a, p) ==
  LET bic == a.op = "VecBic"
  IN  Working(a, p, IF bic THEN 2 ELSE 1, IF bic THEN 1 ELSE 2, LAMBDA wk, o :
        CASE a.op = "VecAdd" -> <<<<"padd", a.w, wk, o>>>>
          [] a.op = "VecSub" -> <<<<"psub", a.w, wk, o>>>>
          [] a.op = "VecAnd" -> <<<<"pand", 16, wk, o>>>>
          [] a.op = "VecOrr" -> <<<<"por", 16, wk, o>>>>
          [] a.op = "VecEor" -> <<<<"pxor", 16, wk, o>>>>
          [] a.op = "VecBic" -> <<<<"pandn", 16, wk, o>>>>
          [] a.op = "VecOrn" -> <<AllOnes(2), <<"pxor", 16, 2, o>>, <<"por", 16, wk, 2>>>>)

emit_op_vec_neg(a, p) ==
  LET wk == working_xmm_for(p)
      s == get_xmm_q(p, 1, 1)
  IN  <<Zero(wk)>> \o s.c \o <<<<"psub", a.w, wk, s.r>>>> \o Finish(a, p, wk)

emit_op_vec_abs(a, p) ==
  LET wk == working_xmm_for(p)
      s == get_xmm_q(p, 1, 1)
  IN  s.c \o <<<<"pabs", a.w, wk, s.r>>>> \o Finish(a, p, wk)

emit_op_vec_not(a, p) == Unary1(a, p, LAMBDA wk : <<AllOnes(1), <<"pxor", 16, wk, 1>>>>)

\* 64-bit products from the 32-bit multiplication, modulo 2^64.
emit_mul64_into(wk, o) ==
  (IF o = 1 THEN <<>> ELSE <<Mov(1, o)>>)
  \o <<<<"pshufd", <<1, 0, 3, 2>>, 2, wk>>, <<"pmuludq", 8, 2, 1>>,
       <<"pshufd", <<1, 0, 3, 2>>, 3, 1>>, <<"pmuludq", 8, 3, wk>>, <<"padd", 8, 2, 3>>,
       <<"psll", 8, 2, 4>>, <<"pmuludq", 8, wk, 1>>, <<"padd", 8, wk, 2>>>>

\* Bytes are multiplied as the halves of words.
emit_op_vec_mul(a, p) ==
  Working(a, p, 1, 2, LAMBDA wk, o :
    IF a.w = 1
      THEN <<Mov(2, wk), <<"psrl", 2, 2, 1>>, Mov(3, o), <<"psrl", 2, 3, 1>>, <<"pmull", 2, 2, 3>>,
             <<"psll", 2, 2, 1>>, <<"pmull", 2, wk, o>>, <<"psll", 2, wk, 1>>,
             <<"psrl", 2, wk, 1>>, <<"por", 16, wk, 2>>>>
      ELSE <<<<"pmull", a.w, wk, o>>>>)

\* The leading zeroes of each lane through a general register; clz[v] counts them in 32 bits.
emit_op_vec_clz16(a, p, x, clz) ==
  LET go[k \in 0 .. (IF a.imm.q THEN 8 ELSE 4)] ==
        IF k = 0 THEN <<Zero(1)>>
        ELSE Append(go[k - 1], <<"pinsr", 2, 1, <<k - 1, clz[Lane(x, k - 1, 2)] - 2>>>>)
  IN  into_xmm_q(p, 1, 0) \o go[IF a.imm.q THEN 8 ELSE 4] \o <<Mov(0, 1)>> \o Finish(a, p, 0)

emit_op_vec_clz32(a, p, x, clz) ==
  LET go[k \in 0 .. (IF a.imm.q THEN 4 ELSE 2)] ==
        IF k = 0 THEN <<Zero(1)>>
        ELSE go[k - 1] \o <<<<"movg", 4, 2, clz[Lane(x, k - 1, 4)]>>>>
             \o (IF k = 1 THEN <<>> ELSE <<<<"pslldq", 16, 2, 4 * (k - 1)>>>>)
             \o <<<<"por", 16, 1, 2>>, <<"psrldq", 16, 0, 4>>>>
  IN  into_xmm_q(p, 1, 0) \o go[IF a.imm.q THEN 4 ELSE 2] \o <<Mov(0, 1)>> \o Finish(a, p, 0)

-----------------------------------------------------------------------------
(* Comparisons.                                                            *)

\* Mutant of LowHalves: takes the high ones.
HighHalves == <<1, 1, 3, 3>>

\* pshufd 0xA0: the low 32 bits of each 64-bit lane in both its halves.
LowHalves == <<0, 0, 2, 2>>

\* There is no signed 64-bit compare in SSE4.1: the halves are compared apart.  The four
\* registers it works in are saved and restored around it, also when d is one of them: the
\* allocator hands out two of the four.
emit_pcmpgtq_sse41(d, s) ==
  <<Mov(Saved(0), 4), Mov(Saved(1), 5), Mov(Saved(2), 6), Mov(Saved(3), 7),
    Mov(Saved(4), d), Mov(Saved(5), s),
    Mov(4, d), Mov(5, s), <<"psrl", 8, 4, 4>>, <<"psrl", 8, 5, 4>>,
    Mov(7, 4), <<"pcmpeq", 4, 7, 5>>, <<"pcmpgt", 4, 4, 5>>,
    <<"pshufd", LowHalves, 4, 4>>, <<"pshufd", LowHalves, 7, 7>>,
    AllOnes(6), <<"psll", 4, 6, 3>>,
    Mov(d, Saved(4)), Mov(5, Saved(5)), <<"pxor", 16, d, 6>>, <<"pxor", 16, 5, 6>>,
    <<"pcmpgt", 4, d, 5>>, <<"pshufd", LowHalves, d, d>>,
    <<"pand", 16, 7, d>>, <<"por", 16, 4, 7>>, Mov(d, 4),
    Mov(4, Saved(0)), Mov(5, Saved(1)), Mov(6, Saved(2)), Mov(7, Saved(3))>>

Greater(w, d, s) == IF w = 8 THEN emit_pcmpgtq_sse41(d, s) ELSE <<<<"pcmpgt", w, d, s>>>>

emit_op_vec_cmeq(a, p) == Working(a, p, 1, 2, LAMBDA wk, o : <<<<"pcmpeq", a.w, wk, o>>>>)
emit_op_vec_cmgt(a, p) == Working(a, p, 1, 2, LAMBDA wk, o : Greater(a.w, wk, o))
emit_op_vec_cmge(a, p) ==
  Working(a, p, 2, 1, LAMBDA wk, o : Greater(a.w, wk, o) \o <<AllOnes(2), <<"pxor", 16, wk, 2>>>>)

\* CMHI, and CMHS as the inverse with the operands exchanged: bytes by a saturating
\* subtraction, the others signed with the sign bits flipped.
emit_unsigned_cmp(a, p) ==
  LET invert == a.op = "VecCmhs"
      j == IF invert THEN 2 ELSE 1
      k == IF invert THEN 1 ELSE 2
      wk == working_xmm_for(p)
      o == get_xmm_q(p, k, 1)
  IN  (IF a.w = 1
         THEN into_xmm_q(p, j, wk) \o o.c
              \o <<<<"psubus", 1, wk, o.r>>, Zero(2), <<"pcmpeq", 1, wk, 2>>>>
              \o (IF invert THEN <<>> ELSE <<AllOnes(1), <<"pxor", 16, wk, 1>>>>)
         ELSE <<AllOnes(2), <<"psll", a.w, 2, a.w - 1>>>>
              \o into_xmm_q(p, j, wk) \o <<<<"pxor", 16, wk, 2>>>>
              \o o.c \o (IF o.r = 1 THEN <<>> ELSE <<Mov(1, o.r)>>) \o <<<<"pxor", 16, 1, 2>>>>
              \o Greater(a.w, wk, 1)
              \o (IF invert THEN <<AllOnes(2), <<"pxor", 16, wk, 2>>>> ELSE <<>>))
      \o Finish(a, p, wk)

MinMax == [VecSmin |-> "pmins", VecSmax |-> "pmaxs", VecUmin |-> "pminu", VecUmax |-> "pmaxu"]
emit_vec_minmax(a, p) == Working(a, p, 1, 2, LAMBDA wk, o : <<<<MinMax[a.op], a.w, wk, o>>>>)

-----------------------------------------------------------------------------
(* Bitwise selection: operands are the old destination, Vn and Vm.  Both   *)
(* reads may load the same fallback register.                              *)

Select(a, p, mask, yes, no) ==
  LET wk == working_xmm_for(p)
      y == get_xmm_q(p, yes, 1)
      n == get_xmm_q(p, no, 1)
  IN  into_xmm_q(p, mask, wk) \o y.c \o <<Mov(2, wk), <<"pand", 16, 2, y.r>>>>
      \o n.c \o <<<<"pandn", 16, wk, n.r>>, <<"por", 16, wk, 2>>>> \o Finish(a, p, wk)
emit_op_vec_bit(a, p) == Select(a, p, 3, 2, 1)
emit_op_vec_bif(a, p) == Select(a, p, 3, 1, 2)
emit_op_vec_bsl(a, p) == Select(a, p, 1, 2, 3)

-----------------------------------------------------------------------------
(* Shifts by an immediate.                                                 *)

\* Every byte the same: the mask that keeps a word shift inside its bytes.
broadcast_byte_mask(b) == <<<<"movg", 16, 1, IF b = 1 THEN 65535 ELSE 0>>>>

emit_op_vec_shl_imm(a, p) ==
  Unary1(a, p, LAMBDA wk :
    IF a.w = 1
      THEN <<<<"psll", 2, wk, a.imm.n>>>> \o broadcast_byte_mask(Trunc(2^a.imm.n, 1))
           \o <<<<"pand", 16, wk, 1>>>>
      ELSE <<<<"psll", a.w, wk, a.imm.n>>>>)

emit_op_vec_ushr_imm(a, p) ==
  Unary1(a, p, LAMBDA wk :
    IF a.w = 1
      THEN <<<<"psrl", 2, wk, a.imm.n>>>> \o broadcast_byte_mask(1 \div 2^a.imm.n)
           \o <<<<"pand", 16, wk, 1>>>>
      ELSE <<<<"psrl", a.w, wk, a.imm.n>>>>)

emit_op_vec_sshr_imm(a, p) ==
  Unary1(a, p, LAMBDA wk :
    CASE a.w = 1 ->
           <<<<"pmovsx", 1, 1, wk>>, <<"psra", 2, 1, a.imm.n>>>>
           \o (IF a.imm.q
                 THEN <<<<"psrldq", 16, wk, 8>>, <<"pmovsx", 1, 2, wk>>, <<"psra", 2, 2, a.imm.n>>,
                        <<"packss", 1, 1, 2>>>>
                 ELSE <<<<"packss", 1, 1, 1>>>>)
           \o <<Mov(wk, 1)>>
      [] a.w \in {2, 4} -> <<<<"psra", a.w, wk, a.imm.n>>>>
      [] a.w = 8 ->
           <<Zero(1)>> \o emit_pcmpgtq_sse41(1, wk)
           \o <<<<"psll", 8, 1, 8 - a.imm.n>>, <<"psrl", 8, wk, a.imm.n>>, <<"por", 16, wk, 1>>>>)

-----------------------------------------------------------------------------
(* Moving, rearranging, widening and narrowing lanes.                      *)

emit_op_vec_build_q(a, p, lo, hi) ==
  LET wk == working_xmm_for(p)
  IN  <<<<"movg", 8, wk, lo>>, <<"pinsr", 8, wk, <<1, hi>>>>>> \o store_xmm_q(p, wk)

emit_op_vec_dup_gpr(a, p, v) ==
  LET wk == working_xmm_for(p)
      spread == CASE a.w = 1 -> <<<<"control", 16, 1, [i \in 0 .. 15 |-> 0]>>, <<"pshufb", 1, wk, 1>>>>
                  [] a.w = 2 -> <<<<"pshuflw", <<0, 0, 0, 0>>, wk, wk>>,
                                  <<"pshufd", <<0, 0, 0, 0>>, wk, wk>>>>
                  [] a.w = 4 -> <<<<"pshufd", <<0, 0, 0, 0>>, wk, wk>>>>
                  [] a.w = 8 -> <<<<"punpckl", 8, wk, wk>>>>
  IN  <<<<"movg", IF a.w = 8 THEN 8 ELSE 4, wk, v>>>> \o spread \o Finish(a, p, wk)

emit_op_vec_ins_gpr(a, p, v) ==
  LET wk == working_xmm_for(p)
  IN  into_xmm_q(p, 1, wk) \o <<<<"pinsr", a.w, wk, <<a.imm.n, v>>>>>> \o store_xmm_q(p, wk)

emit_op_vec_ext(a, p) ==
  into_xmm_q(p, 1, 0) \o into_xmm_q(p, 2, 1)
  \o (IF a.imm.q
        THEN <<<<"palignr", a.imm.n, 1, 0>>>> \o store_xmm_q(p, 1)
        ELSE <<<<"punpckl", 8, 0, 1>>, <<"psrldq", 16, 0, a.imm.n>>>> \o Finish(a, p, 0))

emit_op_vec_zip1(a, p) == Working(a, p, 1, 2, LAMBDA wk, o : <<<<"punpckl", a.w, wk, o>>>>)
emit_op_vec_zip2(a, p) ==
  Working(a, p, 1, 2, LAMBDA wk, o :
    IF a.imm.q THEN <<<<"punpckh", a.w, wk, o>>>>
    ELSE <<<<"psrldq", 16, wk, 4>>, Mov(2, o), <<"psrldq", 16, 2, 4>>, <<"punpckl", a.w, wk, 2>>>>)

\* The two controls of pshufb: result byte i comes from Vn or from Vm.
perm_masks(kind, w, q) ==
  LET lanes == (IF q THEN 16 ELSE 8) \div w
      half == lanes \div 2
      odd == IF kind \in {"VecUzp2", "VecTrn2"} THEN 1 ELSE 0
      UseVm(r) == IF kind \in {"VecUzp1", "VecUzp2"} THEN r >= half ELSE r % 2 = 1
      From(r) == IF kind \in {"VecUzp1", "VecUzp2"}
                   THEN 2 * (IF r < half THEN r ELSE r - half) + odd ELSE r - (r % 2) + odd
      Mask(vm) == [i \in 0 .. 15 |->
                     LET r == i \div w
                     IN  IF r < lanes /\ UseVm(r) = vm THEN From(r) * w + (i % w) ELSE -1]
  IN  [n |-> Mask(FALSE), m |-> Mask(TRUE)]

emit_uzp_trn(a, p) ==
  LET wk == working_xmm_for(p)
      masks == perm_masks(a.op, a.w, a.imm.q)
      vm == get_xmm_q(p, 2, 2)
  IN  IF a.w = 8
        THEN Working(a, p, 1, 2, LAMBDA r, o :
               <<<<IF a.op \in {"VecUzp1", "VecTrn1"} THEN "punpckl" ELSE "punpckh", 8, r, o>>>>)
        ELSE into_xmm_q(p, 1, wk) \o <<<<"control", 16, 1, masks.n>>, <<"pshufb", 1, wk, 1>>>>
             \o vm.c \o (IF vm.r = 2 THEN <<>> ELSE <<Mov(2, vm.r)>>)
             \o <<<<"control", 16, 1, masks.m>>, <<"pshufb", 1, 2, 1>>, <<"por", 16, wk, 2>>>>
             \o Finish(a, p, wk)

\* REV16, REV32 and REV64: the lanes of each container in reverse, by pshufb or, on a host
\* without it, by swapping bytes and shuffling words as the same control says.
RevMask(container, w) ==
  [i \in 0 .. 15 |-> (i \div container) * container
                     + (container \div w - 1 - ((i % container) \div w)) * w + (i % w)]
emit_rev_with_mask(a, p, ssse3) ==
  LET mask == RevMask(a.imm.n, a.w)
      words == [k \in 1 .. 4 |-> mask[2 * (k - 1)] \div 2]
  IN  Unary1(a, p, LAMBDA wk :
        IF ssse3
          THEN <<<<"movg", 8, 2, 0>>, <<"control", 16, 1, mask>>, <<"pshufb", 1, wk, 1>>>>
          ELSE (IF a.w = 1 THEN <<Mov(1, wk), <<"psll", 2, wk, 1>>, <<"psrl", 2, 1, 1>>,
                                  <<"por", 16, wk, 1>>>> ELSE <<>>)
               \o <<<<"pshuflw", words, wk, wk>>, <<"pshufhw", words, wk, wk>>>>)

\* SADDL, UADDL, SSUBL, USUBL, SMULL and UMULL: one half of each source, widened.
WideningOps == {"VecSaddl", "VecUaddl", "VecSsubl", "VecUsubl", "VecSmull", "VecUmull"}
emit_widening_op(a, p) ==
  LET wk == working_xmm_for(p)
      o == get_xmm_q(p, 2, 1)
      move == IF a.op \in {"VecSaddl", "VecSsubl", "VecSmull"} THEN "pmovsx" ELSE "pmovzx"
  IN  into_xmm_q(p, 1, wk) \o o.c \o (IF o.r = 1 THEN <<>> ELSE <<Mov(1, o.r)>>)
      \o (IF a.imm.high THEN <<<<"psrldq", 16, wk, 8>>, <<"psrldq", 16, 1, 8>>>> ELSE <<>>)
      \o <<<<move, a.w, wk, wk>>, <<move, a.w, 1, 1>>>>
      \o (CASE a.op \in {"VecSaddl", "VecUaddl"} -> <<<<"padd", 2 * a.w, wk, 1>>>>
            [] a.op \in {"VecSsubl", "VecUsubl"} -> <<<<"psub", 2 * a.w, wk, 1>>>>
            [] a.op \in {"VecSmull", "VecUmull"} ->
                 IF a.w = 4 THEN emit_mul64_into(wk, 1) ELSE <<<<"pmull", 2 * a.w, wk, 1>>>>)
      \o store_xmm_q(p, wk)

\* Lanes of w bits to half their width, into the low half of register r.
emit_narrow_into(r, w) ==
  IF w = 8 THEN <<<<"pshufd", <<0, 2, 0, 0>>, r, r>>>>
  ELSE <<AllOnes(1), <<"psrl", w, 1, w \div 2>>, <<"pand", 16, r, 1>>, <<"packus", w \div 2, r, r>>>>
emit_op_vec_xtn(a, p) ==
  LET wk == working_xmm_for(p)
  IN  into_xmm_q(p, 1, wk) \o emit_narrow_into(wk, a.w) \o <<<<"movq", 16, wk, wk>>>>
      \o store_xmm_q(p, wk)
emit_op_vec_xtn2(a, p) ==
  LET wk == working_xmm_for(p)
      n == get_xmm_q(p, 2, 2)
  IN  into_xmm_q(p, 1, wk) \o <<<<"movq", 16, wk, wk>>>>
      \o n.c \o (IF n.r = 2 THEN <<>> ELSE <<Mov(2, n.r)>>) \o emit_narrow_into(2, a.w)
      \o <<<<"movq", 16, 2, 2>>, <<"pslldq", 16, 2, 8>>, <<"por", 16, wk, 2>>>> \o store_xmm_q(p, wk)

\* The sum of the four 32-bit lanes, in the low lane of XMM0.
emit_op_vec_addv32(p) ==
  into_xmm_q(p, 1, 0) \o <<<<"phaddd", 4, 0, 0>>, <<"phaddd", 4, 0, 0>>>>

-----------------------------------------------------------------------------

\* dispatch_op: the code of a vector operation on values x, y of its operands.
VecCode(a, p, x, y, host, clz) ==
  CASE a.op \in {"VecAdd", "VecSub", "VecAnd", "VecOrr", "VecEor", "VecBic", "VecOrn"} ->
         emit_vec_binop(a, p)
    [] a.op = "VecNeg" -> emit_op_vec_neg(a, p)
    [] a.op = "VecAbs" -> emit_op_vec_abs(a, p)
    [] a.op = "VecNot" -> emit_op_vec_not(a, p)
    [] a.op = "VecMul" -> emit_op_vec_mul(a, p)
    [] a.op = "VecClz16" -> emit_op_vec_clz16(a, p, x, clz)
    [] a.op = "VecClz32" -> emit_op_vec_clz32(a, p, x, clz)
    [] a.op = "VecCmeq" -> emit_op_vec_cmeq(a, p)
    [] a.op = "VecCmgt" -> emit_op_vec_cmgt(a, p)
    [] a.op = "VecCmge" -> emit_op_vec_cmge(a, p)
    [] a.op \in {"VecCmhi", "VecCmhs"} -> emit_unsigned_cmp(a, p)
    [] a.op \in DOMAIN MinMax -> emit_vec_minmax(a, p)
    [] a.op = "VecBit" -> emit_op_vec_bit(a, p)
    [] a.op = "VecBif" -> emit_op_vec_bif(a, p)
    [] a.op = "VecBsl" -> emit_op_vec_bsl(a, p)
    [] a.op = "VecShlImm" -> emit_op_vec_shl_imm(a, p)
    [] a.op = "VecUshrImm" -> emit_op_vec_ushr_imm(a, p)
    [] a.op = "VecSshrImm" -> emit_op_vec_sshr_imm(a, p)
    [] a.op = "VecBuildQ" -> emit_op_vec_build_q(a, p, x, y)
    [] a.op = "VecDupGpr" -> emit_op_vec_dup_gpr(a, p, x)
    [] a.op = "VecInsGpr" -> emit_op_vec_ins_gpr(a, p, y)
    [] a.op = "VecExt" -> emit_op_vec_ext(a, p)
    [] a.op = "VecZip1" -> emit_op_vec_zip1(a, p)
    [] a.op = "VecZip2" -> emit_op_vec_zip2(a, p)
    [] a.op \in {"VecUzp1", "VecUzp2", "VecTrn1", "VecTrn2"} -> emit_uzp_trn(a, p)
    [] a.op = "VecRev" -> emit_rev_with_mask(a, p, host.ssse3)
    [] a.op \in WideningOps -> emit_widening_op(a, p)
    [] a.op = "VecXtn" -> emit_op_vec_xtn(a, p)
    [] a.op = "VecXtn2" -> emit_op_vec_xtn2(a, p)
    [] a.op = "VecAddv32" -> emit_op_vec_addv32(p)

VecOps == {"VecAdd", "VecSub", "VecAnd", "VecOrr", "VecEor", "VecBic", "VecOrn", "VecNeg", "VecAbs",
           "VecNot", "VecMul", "VecClz16", "VecClz32", "VecCmeq", "VecCmgt", "VecCmge", "VecCmhi",
           "VecCmhs", "VecBit", "VecBif", "VecBsl", "VecShlImm", "VecUshrImm", "VecSshrImm",
           "VecBuildQ", "VecDupGpr", "VecInsGpr", "VecExt", "VecZip1", "VecZip2", "VecUzp1",
           "VecUzp2", "VecTrn1", "VecTrn2", "VecRev", "VecXtn", "VecXtn2", "VecAddv32"}
          \cup DOMAIN MinMax \cup WideningOps

\* Where the allocator puts n operands and their result: the lowest registers of the pool
\* in the order of their definitions, the result below operands defined before others that
\* are dead by now, the stack, or some of each.
Placement(place, n) ==
  CASE place = "registers" -> [a |-> [k \in 1 .. n |-> 5 + k], d |-> 6 + n]
    [] place = "below" -> [a |-> [k \in 1 .. n |-> 7 + k], d |-> 6]
    [] place = "stack" -> [a |-> [k \in 1 .. n |-> SpillOf(k)], d |-> SpilledResult]
    [] place = "result" -> [a |-> [k \in 1 .. n |-> IF k = 2 THEN 14 ELSE SpillOf(k)], d |-> 15]
    [] place = "operands" -> [a |-> [k \in 1 .. n |-> IF k = 2 THEN SpillOf(k) ELSE 12 + k],
                              d |-> SpilledResult]

\* The value an operation leaves at its result's location, and whether every other
\* register the allocator hands out is as it was.
Left(a, d, before, after) ==
  [v |-> IF a.op = "VecAddv32" THEN Lane(after[0], 0, 4) ELSE after[d],
   intact |-> \A r \in Allocatable \ {d} : after[r] = before[r]]
VecResult(a, val, host, clz) ==
  LET n == Len(a.args)
      p == Placement(host.place, n)
      at(r) == {k \in 1 .. n : p.a[k] = r}
      before == [r \in Locations |-> IF at(r) = {} THEN 43690 - r ELSE val[CHOOSE k \in at(r) : TRUE]]
      code == VecCode(a, p, val[1], IF n > 1 THEN val[2] ELSE 0, host, clz)
  IN  Left(a, p.d, before, RunHost(before, code))
=============================================================================

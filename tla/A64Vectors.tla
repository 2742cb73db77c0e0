------------------------------ MODULE A64Vectors ------------------------------
(***************************************************************************)
(* The architecture's meaning of the vector instructions that TranslateVec *)
(* handles, lane by lane, written from the A64 instruction set and not     *)
(* from the program, in the scale of Ir.                                   *)
(***************************************************************************)
EXTENDS Words, Sequences

VKinds == {"asimd_same", "cmtst", "asimd_shf", "asimd_ins", "asimd_elem", "asimd_imm", "ext",
           "perm", "asimd_diff", "asimd_misc", "addv", "addp", "ld_multiple", "ld_single"}

\* Element e of w bits, and the vector of n bits whose element e is F(e).
Elem(v, e, w) == (v \div 2^(e * w)) % 2^w
SElem(v, e, w) == Signed(Elem(v, e, w), w)
Vec(n, w, F(_)) ==
  LET go[e \in 0 .. (n \div w)] ==
        IF e = 0 THEN 0 ELSE go[e - 1] + Trunc(F(e - 1), w) * 2^(w * (e - 1))
  IN  go[n \div w]
Size(i) == IF i.q THEN 16 ELSE 8
Low(v, n) == v % 2^n

Minimum(a, b) == IF a <= b THEN a ELSE b
Maximum(a, b) == IF a >= b THEN a ELSE b
AllOnesIf(p) == IF p THEN -1 ELSE 0

\* One lane of a three-register instruction: a and b unsigned, d the old destination.
SameLane(kind, a, b, d, w) ==
  LET sa == Signed(a, w)
      sb == Signed(b, w)
  IN  CASE kind \in {"Add", "Addp"} -> a + b
        [] kind = "Sub" -> a - b
        [] kind = "Mul" -> a * b
        [] kind = "Mla" -> d + a * b
        [] kind = "Mls" -> d - a * b
        [] kind = "Cmeq" -> AllOnesIf(a = b)
        [] kind = "Cmgt" -> AllOnesIf(sa > sb)
        [] kind = "Cmge" -> AllOnesIf(sa >= sb)
        [] kind = "Cmhi" -> AllOnesIf(a > b)
        [] kind = "Cmhs" -> AllOnesIf(a >= b)
        [] kind \in {"Smin", "Sminp"} -> Minimum(sa, sb)
        [] kind \in {"Smax", "Smaxp"} -> Maximum(sa, sb)
        [] kind \in {"Umin", "Uminp"} -> Minimum(a, b)
        [] kind \in {"Umax", "Umaxp"} -> Maximum(a, b)

\* One bit of a bitwise instruction.
BitwiseKinds == {"And", "Orr", "Eor", "Bic", "Orn", "Bit", "Bif", "Bsl"}
BitLane(kind, n, m, d) ==
  CASE kind = "And" -> n * m
    [] kind = "Orr" -> Maximum(n, m)
    [] kind = "Eor" -> (n + m) % 2
    [] kind = "Bic" -> n * (1 - m)
    [] kind = "Orn" -> Maximum(n, 1 - m)
    [] kind = "Bit" -> IF m = 1 THEN n ELSE d
    [] kind = "Bif" -> IF m = 0 THEN n ELSE d
    [] kind = "Bsl" -> IF d = 1 THEN n ELSE m

PairKinds == {"Addp", "Smaxp", "Sminp", "Umaxp", "Uminp"}
Same(i, n, m, d) ==
  LET w == 2^i.lane
      half == Size(i) \div (2 * w)
      P(e, k) == IF e < half THEN Elem(n, 2 * e + k, w) ELSE Elem(m, 2 * (e - half) + k, w)
  IN  CASE i.kind \in BitwiseKinds ->
             Vec(Size(i), 1, LAMBDA e : BitLane(i.kind, Bit(n, e), Bit(m, e), Bit(d, e)))
        [] i.kind \in PairKinds ->
             Vec(Size(i), w, LAMBDA e : SameLane(i.kind, P(e, 0), P(e, 1), 0, w))
        [] OTHER ->
             Vec(Size(i), w, LAMBDA e : SameLane(i.kind, Elem(n, e, w), Elem(m, e, w), Elem(d, e, w), w))

Cmtst(i, n, m) ==
  LET w == 2^i.lane
  IN  Vec(Size(i), w, LAMBDA e : AllOnesIf(\E k \in (e * w) .. (e * w + w - 1) : Bit(n, k) * Bit(m, k) = 1))

\* Shifts by an immediate, on the integers that the lanes stand for.
ImmLane(imm) == CHOOSE l \in 0 .. 3 : 2^l <= imm /\ imm < 2^(l + 1)
ShiftedElem(i, a, d, w) ==
  LET left == i.imm - w
      right == 2 * w - i.imm
      value == IF i.kind \in {"Sshr", "Ssra", "Srshr", "Srsra"} THEN Signed(a, w) ELSE a
      round == (value + 2^(right - 1)) \div 2^right
      down == value \div 2^right
  IN  CASE i.kind = "Shl" -> a * 2^left
        [] i.kind = "Sli" -> a * 2^left + (d % 2^left)
        [] i.kind = "Sri" -> a \div 2^right + (d \div 2^(w - right)) * 2^(w - right)
        [] i.kind \in {"Sshr", "Ushr"} -> down
        [] i.kind \in {"Ssra", "Usra"} -> d + down
        [] i.kind \in {"Srshr", "Urshr"} -> round
        [] i.kind \in {"Srsra", "Ursra"} -> d + round
ShiftImm(i, n, d) ==
  LET w == 2^ImmLane(i.imm)
      upper == (8 \div w) * (IF i.q THEN 1 ELSE 0)
      narrowed == Vec(8, w, LAMBDA e : Elem(n, e, 2 * w) \div 2^(2 * w - i.imm))
  IN  CASE i.kind \in {"Sshll", "Ushll"} ->
             Vec(16, 2 * w, LAMBDA e :
               (IF i.kind = "Sshll" THEN SElem(n, e + upper, w) ELSE Elem(n, e + upper, w)) * 2^(i.imm - w))
        [] i.kind = "Shrn" -> narrowed
        [] i.kind = "Shrn2" -> Low(d, 8) + 2^8 * narrowed
        [] OTHER -> Vec(IF i.scalar THEN 8 ELSE Size(i), w,
                        LAMBDA e : ShiftedElem(i, Elem(n, e, w), Elem(d, e, w), w))

\* imm5 is xxxx1, xxx10, xx100 or x1000.
ElemLane(imm5) == IF imm5 % 2 = 1 THEN 0 ELSE IF imm5 % 4 = 2 THEN 1 ELSE IF imm5 % 8 = 4 THEN 2 ELSE 3
Insert(d, e, v, w) == Vec(16, w, LAMBDA k : IF k = e THEN v ELSE Elem(d, k, w))

ByElement(i, n, m, d) ==
  LET w == 2^i.lane
      e == IF i.lane = 1 THEN 4 * i.h + 2 * i.l + i.m ELSE 2 * i.h + i.l
  IN  Vec(Size(i), w, LAMBDA k : SameLane(i.kind, Elem(n, k, w), Elem(m, e, w), Elem(d, k, w), w))

\* AdvSIMDExpandImm.
ExpandImm(i) ==
  LET form == i.cmode \div 2
      Rep(v, w) == Vec(8, w, LAMBDA e : v)
  IN  CASE form < 4 -> Rep(i.imm * 2^form, 4)
        [] form = 4 -> Rep(i.imm, 2)
        [] form = 5 -> Rep(i.imm * 2, 2)
        [] form = 6 -> Rep(IF i.cmode = 12 THEN i.imm * 2 + 1 ELSE i.imm * 4 + 3, 4)
        [] form = 7 -> IF i.op = 0 THEN Rep(i.imm, 1) ELSE i.imm
Immediate(i, d) ==
  LET v == ExpandImm(i)
      full == IF i.q THEN v + 2^8 * v ELSE v
  IN  CASE i.kind = "Movi" -> full
        [] i.kind = "Mvni" -> Vec(Size(i), 1, LAMBDA e : 1 - Bit(full, e))
        [] i.kind \in {"Orr", "Bic"} ->
             Vec(Size(i), 1, LAMBDA e : BitLane(i.kind, Bit(d, e), Bit(full, e), 0))

Perm(i, n, m) ==
  LET w == 2^i.lane
      half == Size(i) \div (2 * w)
      odd == IF i.kind \in {"Zip2", "Uzp2", "Trn2"} THEN 1 ELSE 0
      Concat(e) == IF e < 2 * half THEN Elem(n, e, w) ELSE Elem(m, e - 2 * half, w)
  IN  Vec(Size(i), w, LAMBDA e :
        CASE i.kind \in {"Zip1", "Zip2"} ->
               Elem(IF e % 2 = 0 THEN n ELSE m, (e \div 2) + odd * half, w)
          [] i.kind \in {"Uzp1", "Uzp2"} -> Concat(2 * e + odd)
          [] i.kind \in {"Trn1", "Trn2"} -> Elem(IF e % 2 = 0 THEN n ELSE m, 2 * (e \div 2) + odd, w))

\* The widening instructions: element e of the chosen half of each narrow operand.
Widening(i, n, m, d) ==
  LET w == 2^i.lane
      from == IF i.q THEN 8 \div w ELSE 0
      signed == i.kind \in {"Saddl", "Ssubl", "Saddw", "Ssubw", "Smull", "Smlal", "Smlsl"}
      Narrow(v, e) == IF signed THEN SElem(v, e + from, w) ELSE Elem(v, e + from, w)
      Wide(v, e) == Elem(v, e, 2 * w)
  IN  Vec(16, 2 * w, LAMBDA e :
        CASE i.kind \in {"Saddl", "Uaddl"} -> Narrow(n, e) + Narrow(m, e)
          [] i.kind \in {"Ssubl", "Usubl"} -> Narrow(n, e) - Narrow(m, e)
          [] i.kind \in {"Saddw", "Uaddw"} -> Wide(n, e) + Narrow(m, e)
          [] i.kind \in {"Ssubw", "Usubw"} -> Wide(n, e) - Narrow(m, e)
          [] i.kind \in {"Smull", "Umull"} -> Narrow(n, e) * Narrow(m, e)
          [] i.kind \in {"Smlal", "Umlal"} -> Wide(d, e) + Narrow(n, e) * Narrow(m, e)
          [] i.kind \in {"Smlsl", "Umlsl"} -> Wide(d, e) - Narrow(n, e) * Narrow(m, e))

\* The number of top bits of an element that equal b.
Leading(a, w, b) ==
  CHOOSE c \in 0 .. w :
    (\A k \in (w - c) .. (w - 1) : Bit(a, k) = b) /\ (c < w => Bit(a, w - c - 1) # b)

Misc(i, n, d) ==
  LET w == 2^i.lane
      from == IF i.q THEN 8 \div w ELSE 0
      narrowed == Vec(8, w, LAMBDA e : Elem(n, e, 2 * w))
      container == (CASE i.kind = "Rev16" -> 2 [] i.kind = "Rev32" -> 4 [] i.kind = "Rev64" -> 8
                      [] OTHER -> w) \div w
      Each1(F(_)) == Vec(Size(i), w, F)
  IN  CASE i.kind = "Neg" -> Each1(LAMBDA e : -Elem(n, e, w))
        [] i.kind = "Abs" -> Each1(LAMBDA e : Maximum(SElem(n, e, w), -SElem(n, e, w)))
        [] i.kind = "Not" -> Vec(Size(i), 1, LAMBDA e : 1 - Bit(n, e))
        [] i.kind = "Xtn" -> IF i.q THEN Low(d, 8) + 2^8 * narrowed ELSE narrowed
        [] i.kind \in {"Rev16", "Rev32", "Rev64"} ->
             Each1(LAMBDA e : Elem(n, e - (e % container) + (container - 1 - (e % container)), w))
        [] i.kind = "Cmeq0" -> Each1(LAMBDA e : AllOnesIf(SElem(n, e, w) = 0))
        [] i.kind = "Cmgt0" -> Each1(LAMBDA e : AllOnesIf(SElem(n, e, w) > 0))
        [] i.kind = "Cmge0" -> Each1(LAMBDA e : AllOnesIf(SElem(n, e, w) >= 0))
        [] i.kind = "Cmle0" -> Each1(LAMBDA e : AllOnesIf(SElem(n, e, w) <= 0))
        [] i.kind = "Cmlt0" -> Each1(LAMBDA e : AllOnesIf(SElem(n, e, w) < 0))
        [] i.kind = "Shll" -> Vec(16, 2 * w, LAMBDA e : Elem(n, e + from, w) * 2^w)
        [] i.kind = "Clz" -> Each1(LAMBDA e : Leading(Elem(n, e, w), w, 0))
        [] i.kind = "Cls" -> Each1(LAMBDA e : Leading(Elem(n, e, w), w, Elem(n, e, w) \div 2^(w - 1)) - 1)

-----------------------------------------------------------------------------
(* Reserved encodings.                                                     *)

VUndefined(i) ==
  CASE i.k = "asimd_same" ->
         /\ i.kind \notin BitwiseKinds
         /\ i.lane = 3
         /\ ~i.q \/ i.kind \notin {"Add", "Sub", "Cmeq", "Cmgt", "Cmge", "Cmhi", "Cmhs", "Addp"}
    [] i.k = "cmtst" -> (i.scalar /\ i.lane # 3) \/ (~i.scalar /\ i.lane = 3 /\ ~i.q)
    [] i.k = "asimd_shf" ->
         \/ i.imm = 0
         \/ i.kind \in {"Shrn", "Shrn2", "Sshll", "Ushll"} /\ i.imm >= 8
         \/ i.kind \notin {"Shrn", "Shrn2", "Sshll", "Ushll"} /\ i.scalar /\ i.imm < 8
         \/ i.kind \notin {"Shrn", "Shrn2", "Sshll", "Ushll"} /\ ~i.scalar /\ i.imm >= 8 /\ ~i.q
    [] i.k = "asimd_ins" ->
         \/ (i.imm5 % 16) = 0
         \/ ElemLane(i.imm5) = 3 /\ (i.kind = "Smov" \/ (i.kind = "Umov" /\ ~i.q))
    [] i.k = "asimd_elem" -> i.lane \in {0, 3}
    [] i.k = "ext" -> ~i.q /\ i.imm4 > 7
    [] i.k = "asimd_diff" -> i.lane = 3
    [] i.k = "asimd_misc" ->
         CASE i.kind = "Not" -> i.lane # 0
           [] i.kind = "Rev16" -> i.lane > 0
           [] i.kind = "Rev32" -> i.lane > 1
           [] i.kind = "Rev64" -> i.lane > 2
           [] i.kind \in {"Xtn", "Shll", "Clz", "Cls"} -> i.lane = 3
           [] OTHER -> i.lane = 3 /\ ~i.q
    [] i.k = "ld_multiple" -> i.lane = 3 /\ ~i.q /\ i.opcode \in {0, 8}
    [] i.k = "ld_single" ->
         \/ i.opcode \in {2, 3} /\ i.size % 2 = 1
         \/ i.opcode \in {4, 5} /\ (i.size > 1 \/ (i.size = 1 /\ i.s = 1))
         \/ i.opcode \in {6, 7} /\ (~i.load \/ i.s = 1)
    [] OTHER -> FALSE

\* The new value of register rd of an instruction that only writes that.
VData(m, i) ==
  LET n == m.v[i.rn]
      d == m.v[i.rd]
      w5 == 2^ElemLane(i.imm5)
      e5 == i.imm5 \div (2 * w5)
      gpr == IF i.rn = 31 THEN 0 ELSE m.x[i.rn]
  IN  CASE i.k = "asimd_same" -> Same(i, n, m.v[i.rm], d)
        [] i.k = "cmtst" -> Cmtst(i, n, m.v[i.rm])
        [] i.k = "asimd_shf" -> ShiftImm(i, n, d)
        [] i.k = "asimd_elem" -> ByElement(i, n, m.v[i.rm], d)
        [] i.k = "asimd_imm" -> Immediate(i, d)
        [] i.k = "ext" ->
             Vec(Size(i), 1, LAMBDA e : IF e + i.imm4 < Size(i) THEN Bit(n, e + i.imm4)
                                        ELSE Bit(m.v[i.rm], e + i.imm4 - Size(i)))
        [] i.k = "perm" -> Perm(i, n, m.v[i.rm])
        [] i.k = "asimd_diff" -> Widening(i, n, m.v[i.rm], d)
        [] i.k = "asimd_misc" -> Misc(i, n, d)
        [] i.k = "addv" -> (Elem(n, 0, 4) + Elem(n, 1, 4) + Elem(n, 2, 4) + Elem(n, 3, 4)) % 2^4
        [] i.k = "addp" -> (Elem(n, 0, 8) + Elem(n, 1, 8)) % 2^8
        [] i.k = "asimd_ins" /\ i.kind = "DupGpr" -> Vec(Size(i), w5, LAMBDA e : gpr)
        [] i.k = "asimd_ins" /\ i.kind = "DupElem" -> Vec(Size(i), w5, LAMBDA e : Elem(n, e5, w5))
        [] i.k = "asimd_ins" /\ i.kind = "DupScalar" -> Elem(n, e5, w5)
        [] i.k = "asimd_ins" /\ i.kind = "InsGpr" -> Insert(d, e5, gpr, w5)
        [] i.k = "asimd_ins" /\ i.kind = "InsElem" -> Insert(d, e5, Elem(n, i.imm4 \div w5, w5), w5)

\* UMOV and SMOV, into a general register.
Moved(m, i) ==
  LET w == 2^ElemLane(i.imm5)
      e == i.imm5 \div (2 * w)
  IN  IF i.kind = "Umov" THEN Elem(m.v[i.rn], e, w)
      ELSE Trunc(SElem(m.v[i.rn], e, w), IF i.q THEN 8 ELSE 4)

\* Structures: element e of register s is memory element e * count + s.  Memory is
\* transferred in ascending order, in accesses of 16 bytes and a rest of 8, or of a whole
\* register when a structure has one element.
StructureSize == [o \in {0, 2, 7, 8, 10} |-> IF o = 0 THEN 4 ELSE IF o = 8 THEN 2 ELSE 1]
RegisterCount == [o \in {0, 2, 7, 8, 10} |-> IF o \in {0, 2} THEN 4 ELSE IF o = 7 THEN 1 ELSE 2]

\* Bits at .. at + w - 1 of a sequence of pieces of p bits each.
Piece(pieces, p, at, w) == (pieces[(at \div p) + 1] \div 2^(at % p)) % 2^w

\* Single structures: the lane and the element.
SingleLane(i) ==
  CASE i.opcode < 2 -> 0
    [] i.opcode \in {2, 3} -> 1
    [] i.opcode \in {4, 5} -> 2 + (i.size % 2)
    [] i.opcode >= 6 -> i.size
SingleElem(i) == (8 * (IF i.q THEN 1 ELSE 0) + 4 * i.s + i.size) \div 2^SingleLane(i)
=============================================================================

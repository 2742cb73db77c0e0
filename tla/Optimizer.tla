------------------------------ MODULE Optimizer ------------------------------
(***************************************************************************)
(* The optimizer (optimizer/pass.rs) on blocks of Ir: one forward pass     *)
(* that forwards register values, removes overwritten register writes and  *)
(* simplifies values, the simplification of the terminal, and one backward *)
(* pass that removes the values nobody uses.  The part of the forward pass *)
(* that composes affine maps of vectors (optimizer/affine.rs) is left out. *)
(***************************************************************************)
EXTENDS Ir

CONSTANTS UsesMax,    \* the largest use count, u8::MAX in the program
          Gprs        \* the general registers in use

ASSUME UsesMaxAssumption == UsesMax \in Nat \ {0}

Unknown == -1         \* no known constant: None
None(S) == [r \in S |-> NONE]

\* The state of the forward pass: the block, the known constants, the value each register
\* was last given (reach), the last write that nothing has observed yet (last) and the
\* first read since the last write (first_getx).  The constants grow with the block: they
\* are a sequence from the start.
Scratch(b) ==
  [b |-> b, consts |-> <<>> \o [i \in 1 .. Len(b.code) |-> Unknown],
   reach_x |-> None(Gprs), reach_sp |-> NONE, reach_nzcv |-> NONE,
   last_setx |-> None(Gprs), first_getx |-> None(Gprs),
   last_set_sp |-> NONE, last_set_nzcv |-> NONE]

ConstOf(s, v) == IF v = NONE THEN Unknown ELSE s.consts[v]

\* An operand is replaced by what it copies, as long as that has a smaller index.
Resolved(b, v) ==
  LET chase[i \in 1 .. Len(b.code)] ==
        LET src == Arg(b.code[i], 1)
        IN  IF b.code[i].op = "Identity" /\ src # NONE /\ src < i THEN chase[src] ELSE i
  IN  chase[v]

become_identity(a, v) == [a EXCEPT !.op = "Identity", !.args = <<v>>, !.imm = 0]
become_const(a, v) ==
  [a EXCEPT !.op = IF a.ty = "U32" THEN "ConstU32" ELSE "ConstU64", !.args = <<>>, !.imm = v]
Kill(b, v) == IF v = NONE THEN b ELSE Unlink(b, v)

-----------------------------------------------------------------------------
(* Forwarding.  Each takes the state and node a, the i-th, and returns the *)
(* state and what the node becomes.                                        *)

ForwardGetX(s, i, a) ==
  LET r == a.imm
  IN  CASE s.reach_x[r] # NONE -> [s |-> s, a |-> become_identity(a, s.reach_x[r])]
        [] s.reach_x[r] = NONE /\ s.first_getx[r] # NONE ->
             [s |-> s, a |-> become_identity(a, s.first_getx[r])]
        [] OTHER -> [s |-> [s EXCEPT !.last_setx[r] = NONE, !.first_getx[r] = i], a |-> a]

ForwardGetW(s, a) ==
  IF s.reach_x[a.imm] # NONE
    THEN [s |-> s, a |-> [become_identity(a, s.reach_x[a.imm]) EXCEPT !.ty = "U32"]]
    ELSE [s |-> [s EXCEPT !.last_setx[a.imm] = NONE], a |-> a]

ForwardGetSp(s, a) ==
  IF s.reach_sp # NONE THEN [s |-> s, a |-> become_identity(a, s.reach_sp)]
  ELSE [s |-> [s EXCEPT !.last_set_sp = NONE], a |-> a]

ForwardGetNzcv(s, a) ==
  IF s.reach_nzcv # NONE THEN [s |-> s, a |-> become_identity(a, s.reach_nzcv)]
  ELSE [s |-> [s EXCEPT !.last_set_nzcv = NONE], a |-> a]

\* An operation with another effect may leave the block, so the writes before it stay.
Observed(s) ==
  [s EXCEPT !.last_setx = None(Gprs), !.last_set_sp = NONE, !.last_set_nzcv = NONE]

\* The upper half of what SetW stores is zero whatever its operand holds: its value is not
\* forwarded.
WriteGpr(s, i, a) ==
  [s EXCEPT !.b = Kill(s.b, s.last_setx[a.imm]),
            !.reach_x[a.imm] = IF a.op = "SetX" THEN Arg(a, 1) ELSE NONE,
            !.last_setx[a.imm] = i, !.first_getx[a.imm] = NONE]
WriteSp(s, i, a) ==
  [s EXCEPT !.b = Kill(s.b, s.last_set_sp), !.reach_sp = Arg(a, 1), !.last_set_sp = i]
WriteNzcv(s, i, a) ==
  [s EXCEPT !.b = Kill(s.b, s.last_set_nzcv), !.reach_nzcv = Arg(a, 1), !.last_set_nzcv = i]
\* Mutant of WriteFlags: an instruction that sets the flags leaves the forwarded ones in place.
WriteFlagsKept(s) == [s EXCEPT !.b = Kill(s.b, s.last_set_nzcv), !.last_set_nzcv = NONE]
WriteFlags(s) ==
  [s EXCEPT !.b = Kill(s.b, s.last_set_nzcv), !.reach_nzcv = NONE, !.last_set_nzcv = NONE]

-----------------------------------------------------------------------------
(* Simplification of a value.                                              *)

\* try_fold: the result on known operands; an operation it does not list stays.
Foldable == {"Add", "Sub", "And", "Or", "Eor", "Lsl", "Lsr", "Asr", "Ror", "Mul"}
try_fold(a, x, y) ==
  LET w == a.w
      c == Trunc(x, w)
      d == Trunc(y, w)
      n == Trunc(y, w) % w
  IN  CASE x = Unknown -> Unknown
        [] x # Unknown /\ a.op = "Identity" -> x
        [] x # Unknown /\ a.op # "Identity" /\ (y = Unknown \/ a.op \notin Foldable) -> Unknown
        [] OTHER ->
             CASE a.op = "Add" -> Trunc(c + d, w)
               [] a.op = "Sub" -> Trunc(c - d, w)
               [] a.op = "And" -> BitAnd(c, d)
               [] a.op = "Or" -> BitOr(c, d)
               [] a.op = "Eor" -> BitXor(c, d)
               [] a.op = "Lsl" -> Trunc(c * 2^n, w)
               [] a.op = "Lsr" -> c \div 2^n
               [] a.op = "Asr" -> Trunc(Signed(c, w) \div 2^n, w)
               [] a.op = "Ror" -> (c \div 2^n) + Trunc(c * 2^(w - n), w)
               [] a.op = "Mul" -> Trunc(c * d, w)

\* try_strength_reduce: a constant, the operand the node copies, or neither.
Same(v) == [to |-> "identity", v |-> v]
Const(v) == [to |-> "const", v |-> v]
Keep == [to |-> "keep", v |-> 0]
try_strength_reduce(a, c0, c1) ==
  LET v0 == Arg(a, 1)
      v1 == Arg(a, 2)
      ones == Ones(a.w)
      equal == v0 = v1 /\ v0 # NONE
      zero == c0 = 0 \/ c1 = 0
      full == c0 = ones \/ c1 = ones
      dual(n) == Same(IF c0 = n THEN v1 ELSE v0)
  IN  CASE a.op = "Add" -> IF zero THEN dual(0) ELSE Keep
        [] a.op = "Sub" -> IF c1 = 0 THEN Same(v0) ELSE IF equal THEN Const(0) ELSE Keep
        [] a.op = "And" -> IF zero THEN Const(0) ELSE IF full THEN dual(ones)
                           ELSE IF equal THEN Same(v0) ELSE Keep
        [] a.op = "Or" -> IF zero THEN dual(0) ELSE IF full THEN Const(ones)
                          ELSE IF equal THEN Same(v0) ELSE Keep
        [] a.op = "Eor" -> IF zero THEN dual(0) ELSE IF equal THEN Const(0) ELSE Keep
        [] a.op = "Mul" -> IF zero THEN Const(0) ELSE IF c0 = 1 \/ c1 = 1 THEN dual(1) ELSE Keep
        [] a.op \in {"Lsl", "Lsr", "Asr", "Ror"} -> IF c1 = 0 THEN Same(v0) ELSE Keep
        [] OTHER -> Keep

\* try_combine_const: (base op c1) op c2 as one operation, with c1 and c2 of 64 bits.  c is
\* Unknown when the two do not combine.
try_combine_const(s, a) ==
  LET c2 == ConstOf(s, Arg(a, 2))
      inner == IF Arg(a, 1) = NONE THEN a ELSE s.b.code[Arg(a, 1)]
      c1 == ConstOf(s, Arg(inner, 2))
      fits == inner.w = a.w /\ Arg(inner, 1) # NONE
      cut(v) == IF a.w = WBits THEN Trunc(v, WBits) ELSE Trunc(v, XBits)
      sum == Trunc(c1 + c2, XBits)
      Into(op, c) == [c |-> c, base |-> Arg(inner, 1), op |-> op]
      no == [c |-> Unknown, base |-> NONE, op |-> a.op]
      p == <<a.op, inner.op>>
  IN  CASE c1 = Unknown \/ c2 = Unknown \/ Arg(a, 1) = NONE \/ ~fits -> no
        [] OTHER ->
             CASE p = <<"Add", "Add">> -> Into("Add", cut(sum))
               [] p = <<"Sub", "Sub">> -> Into("Add", cut(-sum))
               [] p = <<"And", "And">> -> Into("And", cut(BitAnd(c1, c2)))
               [] p = <<"Or", "Or">> -> Into("Or", cut(BitOr(c1, c2)))
               [] p = <<"Eor", "Eor">> -> Into("Eor", cut(BitXor(c1, c2)))
               [] p = <<"Mul", "Mul">> -> Into("Mul", cut(c1 * c2))
               [] p = <<"Add", "Sub">> -> Into("Add", cut(c2 - c1))
               [] p = <<"Sub", "Add">> -> Into("Add", cut(c1 - c2))
               [] p \in {<<"Lsl", "Lsl">>, <<"Lsr", "Lsr">>, <<"Asr", "Asr">>} ->
                    IF sum > a.w - 1 THEN no ELSE Into(a.op, sum)
               [] p = <<"Ror", "Ror">> -> Into("Ror", sum % a.w)
               [] OTHER -> no

\* A new constant in front of node i.
WithConst(s, i, w, ty, c) ==
  [s EXCEPT !.b = InsertBefore(s.b, i, Armlet(IF w = WBits THEN "ConstU32" ELSE "ConstU64",
                                              w, ty, <<>>, c)),
            !.consts = Append(@, c)]

\* The first of the three that succeeds decides what the node becomes.
Simplified(s, i, a, folded, reduced, combined) ==
  LET const == Len(s.b.code) + 1
  IN  CASE folded # Unknown -> [s |-> s, a |-> become_const(a, Trunc(folded, TyBits[a.ty]))]
        [] folded = Unknown /\ reduced.to = "const" -> [s |-> s, a |-> become_const(a, reduced.v)]
        [] folded = Unknown /\ reduced.to = "identity" ->
             [s |-> s, a |-> become_identity(a, reduced.v)]
        [] folded = Unknown /\ reduced.to = "keep" /\ combined.c # Unknown ->
             [s |-> WithConst(s, i, a.w, IF a.w = WBits THEN "U32" ELSE "U64", combined.c),
              a |-> [a EXCEPT !.op = combined.op, !.args = <<combined.base, const>>]]
        [] OTHER -> [s |-> s, a |-> a]

SimplifyPure(s, i, a) ==
  LET c0 == ConstOf(s, Arg(a, 1))
      c1 == ConstOf(s, Arg(a, 2))
  IN  Simplified(s, i, a, try_fold(a, c0, c1), try_strength_reduce(a, c0, c1),
                 try_combine_const(s, a))

-----------------------------------------------------------------------------
(* k x + l x as (k + l) x.                                                 *)

\* extract_term: value v as coeff * base in w bits.
extract_term(s, v, w) ==
  LET code == s.b.code
      Whole(i) == [base |-> i, coeff |-> 1, has_mul |-> FALSE]
      term[i \in 1 .. Len(code)] ==
        LET a == code[i]
            c0 == ConstOf(s, Arg(a, 1))
            c1 == ConstOf(s, Arg(a, 2))
            Times(j, c) == [base |-> term[j].base, coeff |-> Trunc(term[j].coeff * c, XBits),
                            has_mul |-> TRUE]
        IN  CASE a.op = "Mul" /\ a.w = w /\ c0 # Unknown -> Times(Arg(a, 2), c0)
              [] a.op = "Mul" /\ a.w = w /\ c0 = Unknown /\ c1 # Unknown -> Times(Arg(a, 1), c1)
              [] a.op = "Lsl" /\ a.w = w /\ c1 # Unknown ->
                   [term[Arg(a, 1)] EXCEPT !.coeff = Trunc(@ * 2^(c1 % w), XBits)]
              [] a.op = "Identity" -> term[Arg(a, 1)]
              [] OTHER -> Whole(i)
  IN  term[v]

\* try_mul_fold: the constant, or Unknown.
TermsCombined(a, l, r) ==
  LET c == Trunc(IF a.op = "Sub" THEN l.coeff - r.coeff ELSE l.coeff + r.coeff, a.w)
  IN  IF l.base # r.base \/ ~(l.has_mul \/ r.has_mul) \/ c \in {0, 1}
        THEN [c |-> Unknown, base |-> NONE] ELSE [c |-> c, base |-> l.base]
try_mul_fold(s, a) ==
  TermsCombined(a, extract_term(s, Arg(a, 1), a.w), extract_term(s, Arg(a, 2), a.w))

\* The node becomes a copy of a new product in front of it.
ByProduct(s, i, a, f) ==
  LET const == Len(s.b.code) + 1
      s1 == WithConst(s, i, a.w, a.ty, f.c)
      s2 == [s1 EXCEPT !.b = InsertBefore(s1.b, i, Armlet("Mul", a.w, a.ty, <<f.base, const>>, 0)),
                       !.consts = Append(@, Unknown)]
  IN  IF f.c = Unknown THEN [s |-> s, a |-> a]
      ELSE [s |-> s2, a |-> become_identity(a, const + 1)]
FoldMul(r, i) ==
  IF r.a.op \in {"Add", "Sub"} THEN ByProduct(r.s, i, r.a, try_mul_fold(r.s, r.a)) ELSE r

-----------------------------------------------------------------------------
(* The forward pass.                                                       *)

Rewritten(s, i, a) ==
  CASE a.op = "GetX" -> ForwardGetX(s, i, a)
    [] a.op = "GetW" -> ForwardGetW(s, a)
    [] a.op = "GetSp" -> ForwardGetSp(s, a)
    [] a.op = "GetNzcv" -> ForwardGetNzcv(s, a)
    [] a.op = "SetV" -> [s |-> Observed(s), a |-> a]
    [] a.op \in {"SetX", "SetW"} -> [s |-> WriteGpr(s, i, a), a |-> a]
    [] a.op = "SetSp" -> [s |-> WriteSp(s, i, a), a |-> a]
    [] a.op = "SetNzcv" -> [s |-> WriteNzcv(s, i, a), a |-> a]
    [] a.op \in FlagOps -> [s |-> WriteFlags(s), a |-> a]
    [] a.op \in {"ConstU32", "ConstU64"} -> [s |-> s, a |-> a]
    [] IsPure(a.op) /\ a.op \notin {"ConstU32", "ConstU64"} -> SimplifyPure(s, i, a)
    [] OTHER -> [s |-> IF HasSideEffects(a.op) THEN Observed(s) ELSE s, a |-> a]

\* The node and its constant, if it is one now, are written back.
WriteBack(r, i) ==
  LET known == CASE r.a.op = "ConstU32" -> Trunc(r.a.imm, WBits)
                 [] r.a.op = "ConstU64" -> r.a.imm
                 [] r.a.op = "Identity" -> ConstOf(r.s, Arg(r.a, 1))
                 [] OTHER -> r.s.consts[i]
  IN  [r.s EXCEPT !.consts[i] = known, !.b.code[i] = r.a]

\* One node.  a is a copy taken before the list changes around the node, and it is written
\* back as a whole: its links are those of the copy.
Visit(s, i) ==
  LET node == s.b.code[i]
      a == [node EXCEPT !.args = [k \in DOMAIN node.args |-> Resolved(s.b, node.args[k])]]
  IN  WriteBack(FoldMul(Rewritten(s, i, a), i), i)

\* Nodes are inserted in front of the cursor and removed behind it, so that the pass visits
\* the nodes of the translated block in the order they were pushed.
Forward(b) ==
  LET go[k \in 0 .. Len(b.code)] == IF k = 0 THEN Scratch(b) ELSE Visit(go[k - 1], k)
  IN  go[Len(b.code)]

-----------------------------------------------------------------------------
(* The terminal and the backward pass.                                     *)

\* simplify_terminal: a branch on a constant, or always taken, becomes direct and the node
\* of the branch goes.
simplify_terminal(s) ==
  LET t == s.b.terminal
      c == IF "value" \in DOMAIN t THEN ConstOf(s, t.value) ELSE Unknown
      Direct(take) ==
        LET b == [s.b EXCEPT !.terminal = [t |-> "DirectBranch",
                                           pc |-> IF take THEN t.taken ELSE t.fall]]
        IN  IF b.tail # NONE /\ b.code[b.tail].op \in {"CbZ", "CbNz", "TbZ", "TbNz", "BranchCond"}
              THEN Unlink(b, b.tail) ELSE b
  IN  CASE t.t = "CompareBranchZero" /\ c # Unknown -> Direct((Trunc(c, t.w) = 0) # t.inverse)
        [] t.t = "TestBranchBit" /\ c # Unknown -> Direct((Bit(c, t.bit) = 0) # t.inverse)
        [] t.t = "ConditionalBranch" /\ t.cond >= 14 -> Direct(TRUE)
        [] t.t = "ConditionalBranch" /\ t.cond < 14 /\ c # Unknown -> Direct(CondHolds(t.cond, c))
        [] OTHER -> s.b

SatInc(n) == IF n = UsesMax THEN n ELSE n + 1
SatDec(n) == IF n = 0 THEN n ELSE n - 1

\* The use counts: the operands of the listed nodes and the value of the terminal.
AddUses(u, args) ==
  LET go[k \in 0 .. Len(args)] == IF k = 0 THEN u ELSE [go[k - 1] EXCEPT ![args[k]] = SatInc(@)]
  IN  go[Len(args)]
UsesOfNodes(b) ==
  LET live == LiveSeq(b)
      count[k \in 0 .. Len(live)] ==
        IF k = 0 THEN [i \in 1 .. Len(b.code) |-> 0]
        ELSE AddUses(count[k - 1], b.code[live[k]].args)
  IN  count[Len(live)]
\* Mutant of TerminalUses: the value of the terminal is not counted.
NoTerminalUses(b) == <<>>
TerminalUses(b) == IF "value" \in DOMAIN b.terminal THEN <<b.terminal.value>> ELSE <<>>

Uses(b) == AddUses(UsesOfNodes(b), TerminalUses(b))

DropUses(u, args) ==
  LET go[k \in 0 .. Len(args)] == IF k = 0 THEN u ELSE [go[k - 1] EXCEPT ![args[k]] = SatDec(@)]
  IN  go[Len(args)]

\* Backward from the tail: a node without effects that nobody uses goes, and its operands
\* lose a use.
RemoveStep(s) ==
  LET a == s.b.code[s.cursor]
  IN  CASE s.cursor = NONE -> s
        [] s.cursor # NONE /\ (HasSideEffects(a.op) \/ s.uses[s.cursor] > 0) ->
             [s EXCEPT !.cursor = a.prev]
        [] OTHER -> [b |-> Unlink(s.b, s.cursor), uses |-> DropUses(s.uses, a.args),
                     cursor |-> a.prev]
RemoveUnused(b) ==
  LET back[k \in 0 .. Len(b.code)] ==
        IF k = 0 THEN [b |-> b, uses |-> Uses(b), cursor |-> b.tail]
        ELSE RemoveStep(back[k - 1])
  IN  back[Len(b.code)].b

optimize(b) == IF b.code = <<>> THEN b ELSE RemoveUnused(simplify_terminal(Forward(b)))
=============================================================================

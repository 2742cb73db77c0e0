------------------------------ MODULE Terminals ------------------------------
(***************************************************************************)
(* The end of an emitted block (backend/emit.rs): where it continues, with *)
(* the conditional branch that re-executes the compare in front of it on   *)
(* the flags of the host, and what running a whole block does.             *)
(***************************************************************************)
EXTENDS Ir

-----------------------------------------------------------------------------
(* Fusion of a compare and the branch.                                     *)

Producers == {"AddsFlags", "SubsFlags", "LogicFlags"}

\* The operations known not to write the flags of the guest.
op_preserves_nzcv(op) ==
  IsPure(op) \/ op \in BranchOps \cup Getters \cup MemoryOps \cup {"SetX", "SetW", "SetSp", "SetV"}

\* The jump of the host that is taken when cond holds after the producer was executed
\* again: the carry of the guest is the negated one of the host after a subtraction.
Jccs == <<"E", "Ne", "B", "Ae", "S", "Ns", "O", "No", "A", "Be", "Ge", "L", "G", "Le">>
SwapCarry == [B |-> "Ae", Ae |-> "B"]
fused_jcc_kind(op, cond) ==
  CASE cond >= 14 -> "none"
    [] cond \in {2, 3} /\ op = "SubsFlags" -> SwapCarry[Jccs[cond + 1]]
    [] cond \in {8, 9} /\ op = "LogicFlags" -> Jccs[cond - 5]
    [] cond \in {8, 9} /\ op = "AddsFlags" -> "none"
    [] OTHER -> Jccs[cond + 1]

\* The last node of a block that may write the flags, when the branch can execute it again.
fusable_flag_producer(b) ==
  LET live == LiveSeq(b)
      Op(k) == b.code[live[k]].op
      writers == {k \in DOMAIN live : Op(k) \in Producers \/ ~op_preserves_nzcv(Op(k))}
      last == CHOOSE k \in writers : \A j \in writers : j <= k
  IN  IF b.terminal.t # "ConditionalBranch" \/ writers = {}
        THEN NONE
      ELSE IF Op(last) \in Producers /\ fused_jcc_kind(Op(last), b.terminal.cond) # "none"
        THEN live[last] ELSE NONE

\* emit_fused_flags: the flags of the host after ADD, CMP or TEST of the operands.
emit_fused_flags(op, x, y, w) ==
  LET r == CASE op = "AddsFlags" -> Trunc(x + y, w)
             [] op = "SubsFlags" -> Trunc(x - y, w)
             [] op = "LogicFlags" -> x
  IN  [cf |-> CASE op = "AddsFlags" -> x + y >= 2^w
                [] op = "SubsFlags" -> x < y
                [] op = "LogicFlags" -> FALSE,
       zf |-> r = 0,
       sf |-> Msb(r, w) = 1,
       of |-> CASE op = "AddsFlags" -> Msb(x, w) = Msb(y, w) /\ Msb(r, w) # Msb(x, w)
                [] op = "SubsFlags" -> Msb(x, w) # Msb(y, w) /\ Msb(r, w) # Msb(x, w)
                [] op = "LogicFlags" -> FALSE]

\* Whether the host takes the jump.
emit_fused_jcc(kind, f) ==
  CASE kind = "E" -> f.zf
    [] kind = "Ne" -> ~f.zf
    [] kind = "B" -> f.cf
    [] kind = "Ae" -> ~f.cf
    [] kind = "S" -> f.sf
    [] kind = "Ns" -> ~f.sf
    [] kind = "O" -> f.of
    [] kind = "No" -> ~f.of
    [] kind = "A" -> ~f.cf /\ ~f.zf
    [] kind = "Be" -> f.cf \/ f.zf
    [] kind = "Ge" -> f.sf = f.of
    [] kind = "L" -> f.sf # f.of
    [] kind = "G" -> ~f.zf /\ f.sf = f.of
    [] kind = "Le" -> f.zf \/ f.sf # f.of

\* The fused branch on the values env of the producer's operands.
FusedTaken(p, cond, env) ==
  LET x == Trunc(env[p.args[1]], p.w)
      y == IF p.op = "LogicFlags" THEN 0 ELSE Trunc(env[p.args[2]], p.w)
  IN  emit_fused_jcc(fused_jcc_kind(p.op, cond), emit_fused_flags(p.op, x, y, p.w))

-----------------------------------------------------------------------------

\* emit_block: the address the block continues at.  Without fusion the flags are those of
\* the context, not the value the terminal names.
NextPc(b, producer, env, nzcv) ==
  LET t == b.terminal
      Branch(taken) == IF taken THEN t.taken ELSE t.fall
  IN  CASE t.t \in {"LinkBlock", "DirectBranch"} -> t.pc
        [] t.t = "ConditionalBranch" ->
             Branch(IF producer = NONE THEN CondHolds(t.cond, nzcv)
                    ELSE FusedTaken(b.code[producer], t.cond, env))
        [] t.t = "CompareBranchZero" -> Branch((Trunc(env[t.value], t.w) = 0) # t.inverse)
        [] t.t = "TestBranchBit" -> Branch((Bit(env[t.value], t.bit) = 0) # t.inverse)
        [] t.t = "IndirectBranch" -> env[t.value]
        [] t.t = "Exception" -> Trunc(IF t.kind = "Brk" THEN t.end - 4 ELSE t.end, XBits)

\* One node: it binds its value and may change the machine.
Bound(s, i, e) == [env |-> [s.env EXCEPT ![i] = e.v], m |-> e.m]
emit_armlet(b, i, s) ==
  LET a == b.code[i]
      val == [j \in DOMAIN a.args |-> s.env[a.args[j]]]
      src == IF a.args = <<>> THEN "Void" ELSE b.code[a.args[1]].ty
  IN  Bound(s, i, Evaluate(Operation(a), val, src, s.m))

\* The machine and the next address after the whole block.
Ended(b, s) ==
  [m |-> s.m, pc |-> NextPc(b, fusable_flag_producer(b), s.env, s.m.nzcv)]
Run(b, m) ==
  LET live == LiveSeq(b)
      go[k \in 0 .. Len(live)] ==
        IF k = 0
          THEN [env |-> [i \in 1 .. Len(b.code) |-> 0], m |-> m]
          ELSE emit_armlet(b, live[k], go[k - 1])
  IN  Ended(b, go[Len(live)])
=============================================================================

------------------------------- MODULE Pipeline -------------------------------
(***************************************************************************)
(* The compilation of one block (Jit::compile): the translators push the   *)
(* nodes of each instruction, the optimizer rewrites the block.  What the  *)
(* block does at each stage is compared with what the architecture says    *)
(* its instructions do.                                                    *)
(***************************************************************************)
EXTENDS Translate, Optimizer, Terminals

CONSTANTS Programs,   \* the guest code a block may be translated from
          Machines,   \* the guest states a block may start in
          Excluded,   \* the machines on which 64-bit comparisons are not asked about
          StartPc

VARIABLES prog,       \* the guest code
          next,       \* the number of the next instruction to translate
          block,      \* the block as translated
          opt,        \* the block as optimized
          stage

vars == <<prog, next, block, opt, stage>>

Arch == INSTANCE A64

Pc(k) == StartPc + 4 * (k - 1)

Init ==
  /\ prog \in Programs
  /\ next = 1
  /\ block = NewBlock
  /\ opt = NewBlock
  /\ stage = "translating"

\* translate_block_into: one instruction.
TranslateInsn ==
  /\ stage = "translating" /\ next <= Len(prog)
  /\ ~Refused(prog[next])
  /\ block' = Translated(block, prog[next], Pc(next))
  /\ next' = next + 1
  /\ stage' = IF prog[next].k \in Branches THEN "translated" ELSE stage
  /\ UNCHANGED <<prog, opt>>

\* A translator that returns an error: there is no block.
Refuse ==
  /\ stage = "translating" /\ next <= Len(prog)
  /\ Refused(prog[next])
  /\ stage' = "refused"
  /\ UNCHANGED <<prog, next, block, opt>>

\* The block is full: it continues at the next address.
LinkNext ==
  /\ stage = "translating" /\ next > Len(prog)
  /\ block' = [block EXCEPT !.terminal = [t |-> "LinkBlock", pc |-> Trunc(Pc(next), XBits)]]
  /\ stage' = "translated"
  /\ UNCHANGED <<prog, next, opt>>

Optimize ==
  /\ stage = "translated"
  /\ opt' = optimize(block)
  /\ stage' = "optimized"
  /\ UNCHANGED <<prog, next, block>>

Done == stage \in {"refused", "optimized"} /\ UNCHANGED vars

Next == TranslateInsn \/ Refuse \/ LinkNext \/ Optimize \/ Done

Spec == Init /\ [][Next]_vars

-----------------------------------------------------------------------------

\* A comparison for order of 64-bit lanes.
Compares64(b) ==
  \E i \in DOMAIN b.code : b.code[i].op \in {"VecCmgt", "VecCmge", "VecCmhi", "VecCmhs"} /\ b.code[i].w = 8

\* Every translated block does what the architecture says of its instructions: the same
\* registers and flags, the same accesses in the same order with the same widths and
\* values, and the same next address; and a translator refuses exactly the encodings that
\* are undefined.
TranslationFaithful ==
  /\ stage = "translated" =>
       /\ \A k \in DOMAIN prog : ~Arch!Undefined(prog[k])
       /\ \A m \in Machines : \/ Run(block, m) = Arch!ExecAll(prog, m, StartPc)
                              \/ m \in Excluded /\ Compares64(block)
  /\ stage = "refused" => Arch!Undefined(prog[next])

\* The optimized block does what the translated one does.
OptimizerFaithful ==
  stage = "optimized" => \A m \in Machines : Run(opt, m) = Run(block, m)

\* What the backward pass starts from.
Given(b) == IF b.code = <<>> THEN b ELSE simplify_terminal(Forward(b))

\* Before the backward pass: L lists the nodes of b from the head to the tail, each once.
At(L, k) == IF k \in DOMAIN L THEN L[k] ELSE NONE
Listing(b, L) ==
  /\ L \in Seq(1 .. Len(b.code))
  /\ \A j, k \in DOMAIN L : L[j] = L[k] => j = k
  /\ b.head = At(L, 1) /\ b.tail = At(L, Len(L))
  /\ \A k \in DOMAIN L : b.code[L[k]].next = At(L, k + 1)

Operands(b, i) == {b.code[i].args[q] : q \in DOMAIN b.code[i].args}
TerminalOperands(b) == IF "value" \in DOMAIN b.terminal THEN {b.terminal.value} ELSE {}

\* Every operand is listed before its use.
Ordered(b, L) ==
  LET Before(k) == {L[j] : j \in 1 .. (k - 1)}
  IN  /\ \A k \in DOMAIN L : Operands(b, L[k]) \subseteq Before(k)
      /\ TerminalOperands(b) \subseteq Before(Len(L) + 1)

\* Node j has no effect and no value that a node behind the k-th or the terminal uses.
Within(b, L, j, k) ==
  /\ ~HasSideEffects(b.code[L[j]].op)
  /\ \A i \in DOMAIN L : L[j] \in Operands(b, L[i]) => i <= k
  /\ L[j] \notin TerminalOperands(b)

\* The link back from a node leads to one in front of it, and what it skips serves the
\* node alone.
LinkBack(b, L, k) ==
  \E p \in 0 .. (k - 1) :
    /\ b.code[L[k]].prev = At(L, p)
    /\ \A j \in (p + 1) .. (k - 1) : Within(b, L, j, k)

\* The uses of a value among the listed nodes, and those of the terminal as well.
Sites(b, L, v) ==
  {u \in UNION {{L[k]} \X DOMAIN b.code[L[k]].args : k \in DOMAIN L} : b.code[u[1]].args[u[2]] = v}
UseCount(b, L, v) == Cardinality(Sites(b, L, v)) + Cardinality({v} \cap TerminalOperands(b))

\* A block and its nodes have the fields of one.
Filled(a) == a = [op |-> a.op, w |-> a.w, ty |-> a.ty, args |-> a.args, imm |-> a.imm,
                  prev |-> a.prev, next |-> a.next]
Shaped(b) ==
  /\ b = [code |-> b.code, head |-> b.head, tail |-> b.tail, terminal |-> b.terminal]
  /\ Len(b.code) \in Nat /\ b.code = [i \in 1 .. Len(b.code) |-> b.code[i]]
  /\ \A i \in DOMAIN b.code : Filled(b.code[i]) /\ b.code[i].args \in Seq(1 .. Len(b.code))

\* A node that sets the flags has its operands, and the block ends with a terminal, which
\* names the value it takes.
OnValue == {"CompareBranchZero", "TestBranchBit", "IndirectBranch"}
Supplied(b, L) ==
  /\ \A k \in DOMAIN L :
       LET a == b.code[L[k]]
       IN  a.op \in Producers => {1, IF a.op = "LogicFlags" THEN 1 ELSE 2} \subseteq DOMAIN a.args
  /\ b.terminal.t \in OnValue \cup {"LinkBlock", "DirectBranch", "ConditionalBranch", "Exception"}
  /\ b.terminal.t \in OnValue => "value" \in DOMAIN b.terminal

Removable(b) ==
  LET L == LiveSeq(b)
  IN  /\ Shaped(b) /\ Listing(b, L) /\ Ordered(b, L) /\ Supplied(b, L)
      /\ \A k \in DOMAIN L : LinkBack(b, L, k)
      /\ \A v \in DOMAIN b.code : UseCount(b, L, v) <= UsesMax

\* What the backward pass relies on: the stale links skip nothing but what goes with the
\* node that has them, and no use count saturates.
RemovalSafe == stage = "optimized" => Removable(Given(block))

\* The forward pass and the simplification of the terminal keep what the block does.
ForwardFaithful ==
  stage = "optimized" => \A m \in Machines : Run(Given(block), m) = Run(block, m)

\* Forwarding, removal and insertion leave every operand of a listed node, and the value
\* of the terminal, listed before its use.
OperandsDefined ==
  stage = "optimized" =>
    LET live == LiveSeq(opt)
        Before(k) == {live[j] : j \in 1 .. (k - 1)}
    IN  /\ \A k \in DOMAIN live : \A q \in DOMAIN opt.code[live[k]].args :
             opt.code[live[k]].args[q] \in Before(k)
        /\ "value" \in DOMAIN opt.terminal => opt.terminal.value \in Before(Len(live) + 1)

\* optimizer/affine/tests.rs:20-23 asserts of an optimized block that the walk from the
\* tail visits the nodes of the walk from the head: every node is the next of its previous.
LinksAgree ==
  stage = "optimized" =>
    LET live == LiveSeq(opt)
    IN  /\ opt.tail = IF live = <<>> THEN NONE ELSE live[Len(live)]
        /\ \A k \in DOMAIN live :
             opt.code[live[k]].prev = IF k = 1 THEN NONE ELSE live[k - 1]
=============================================================================

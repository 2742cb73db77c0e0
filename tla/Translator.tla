----------------------------- MODULE Translator -----------------------------
(***************************************************************************)
(* Translation of guest code to blocks (src/src/frontend/translator.rs)    *)
(* and the retries of Jit::compile that shorten a block whose values do    *)
(* not fit the spill frame.  A block is the list of its instructions, as   *)
(* fetched, with the guest ranges they came from and its terminal.         *)
(***************************************************************************)
EXTENDS GuestCode, Sequences

CONSTANTS
  Word,         \* the addresses fetch_inst knows: mapped guest code
  Multiblock,   \* TranslateOptions::multiblock
  MaxInsts,     \* TranslateOptions::max_insts
  SpillLimit    \* blocks of more instructions overflow the spill frame

ASSUME TranslatorAssumption ==
  /\ Word \subseteq Pc
  /\ \A w \in Word : w + 4 \in Pc   \* no code in the last word below MaxAddr
  /\ Multiblock \in BOOLEAN
  /\ MaxInsts \in Nat \ {0}
  /\ SpillLimit \in Nat \ {0}

Code == [Word -> Insn]

\* One translated instruction.
Step == [pc : Pc, insn : Insn]

\* The loop's state before its first iteration.  `followed` is the block as
\* it was right after the last followed branch, without it the empty block.
Opened(pc) ==
  [pc |-> pc, seg |-> pc, insns |-> <<>>, ranges |-> {}, status |-> "open",
   followed |-> [insns |-> <<>>, ranges |-> {}]]

\* covered: pc is already part of the block.
Covered(ranges, pc) == \E r \in ranges : r[1] <= pc /\ pc < r[2]

Followed(i, ranges, insns, max) ==
  /\ i.op = "b" /\ Multiblock
  /\ Len(insns) < max
  /\ i.to % 4 = 0
  /\ ~Covered(ranges, i.to)

\* One iteration: fetch and translate the instruction at t.pc.
Advance(code, t, max) ==
  IF t.pc \notin Word THEN [t EXCEPT !.status = "unmapped"]
  ELSE IF code[t.pc].op = "udf" THEN [t EXCEPT !.status = "unsupported"]
  ELSE LET i      == code[t.pc]
           insns  == Append(t.insns, [pc |-> t.pc, insn |-> i])
           ranges == t.ranges \cup {<<t.seg, After(t.pc)>>}
       IN IF ~Terminator(i)
          THEN [t EXCEPT !.pc = After(t.pc), !.insns = insns]
          ELSE IF Followed(i, ranges, insns, max)
          THEN [t EXCEPT !.pc = i.to, !.seg = i.to, !.insns = insns, !.ranges = ranges,
                         !.followed = [insns |-> insns, ranges |-> ranges]]
          ELSE [t EXCEPT !.insns = insns, !.ranges = ranges, !.status = "terminated"]

\* The state after at most max iterations; each one adds one instruction.
Translation(code, pc, max) ==
  LET loop[n \in 0 .. max] ==
        IF n = 0 THEN Opened(pc)
        ELSE IF loop[n - 1].status # "open" THEN loop[n - 1]
        ELSE Advance(code, loop[n - 1], max)
  IN loop[max]

NoBlock(status, at) ==
  [status |-> status, at |-> at, insns |-> <<>>, ranges |-> {}, next |-> EMPTY_PC]
\* `next` is the PC of a LinkBlock terminal, EMPTY_PC when the last instruction
\* is the terminal.
ABlock(insns, ranges, next) ==
  [status |-> "ok", at |-> EMPTY_PC, insns |-> insns, ranges |-> ranges, next |-> next]

\* Mutant of RollBack: the error ends the block even behind a followed branch.
RollBackNever(t) == NoBlock(t.status, t.pc)

\* Rolls back to the last followed branch when anything after it cannot be
\* translated; without one the error is returned with the PC it occurred at.
RollBack(t) == IF t.followed.insns = <<>> THEN NoBlock(t.status, t.pc)
               ELSE ABlock(t.followed.insns, t.followed.ranges, EMPTY_PC)

\* translate_block_into
TranslateBlock(code, pc, max) ==
  LET t == Translation(code, pc, max) IN
  CASE t.status = "terminated" -> ABlock(t.insns, t.ranges, EMPTY_PC)
    [] t.status = "open"       ->
         ABlock(t.insns,
                IF t.pc # t.seg \/ t.ranges = {} THEN t.ranges \cup {<<t.seg, t.pc>>}
                ELSE t.ranges,
                t.pc)
    [] OTHER                   -> RollBack(t)

\* Jit::compile up to the install: max_insts is halved while emission reports
\* BlockTooLarge.
Emitted(code, pc, max) ==
  LET attempt[m \in 1 .. max] ==
        LET b == TranslateBlock(code, pc, m) IN
        IF Len(b.insns) > SpillLimit /\ m > 1 THEN attempt[m \div 2] ELSE b
  IN attempt[max]

-----------------------------------------------------------------------------
(* What a block is.                                                        *)

Ranges == Addr \X Addr

\* The address control passes to after an instruction that does not end a block.
Following(s) == IF s.insn.op = "b" THEN s.insn.to ELSE s.pc + 4

\* The instructions of a block at pc are those of memory, each one following
\* the one before it.
Path(code, pc, insns) ==
  /\ insns \in Seq(Step)
  /\ \A n \in 1 .. Len(insns) :
       insns[n].pc \in Word /\ insns[n].insn = code[insns[n].pc] /\ insns[n].insn.op # "udf"
  /\ Len(insns) > 0 => insns[1].pc = pc
  /\ \A n \in 1 .. (Len(insns) - 1) :
       /\ ~Terminator(insns[n].insn) \/ insns[n].insn.op = "b"
       /\ insns[n + 1].pc = Following(insns[n])

\* A range holds the four bytes at an address.
In(r, pc) == r[1] <= pc /\ pc + 4 <= r[2]
Covers(ranges, insns) == \A n \in 1 .. Len(insns) : \E r \in ranges : In(r, insns[n].pc)
Proper(ranges) == ranges \in SUBSET Ranges /\ \A r \in ranges : r[1] < r[2]

\* A block of at most max instructions, as Jit::compile installs it: it is left
\* by its last instruction, or continues at `next`.
Block(code, pc, max, b) ==
  /\ Path(code, pc, b.insns) /\ Len(b.insns) \in 1 .. max
  /\ Proper(b.ranges) /\ Covers(b.ranges, b.insns)
  /\ b.next \in Pc \cup {EMPTY_PC}
  /\ IF b.next = EMPTY_PC THEN Terminator(b.insns[Len(b.insns)].insn)
     ELSE ~Terminator(b.insns[Len(b.insns)].insn) /\ b.next = b.insns[Len(b.insns)].pc + 4

\* The line from pc to `at` is executable.
Line(code, pc, at) ==
  /\ at >= pc /\ (at - pc) % 4 = 0
  /\ \A q \in Pc : pc <= q /\ q < at /\ (q - pc) % 4 = 0 => q \in Word /\ ~Terminator(code[q])

\* Why there is no block at pc.
Failure(code, pc, status) ==
  \E q \in Pc : /\ Line(code, pc, q)
                /\ \/ status = "unmapped" /\ q \notin Word
                   \/ status = "unsupported" /\ q \in Word /\ code[q].op = "udf"

=============================================================================

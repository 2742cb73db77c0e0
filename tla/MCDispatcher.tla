---------------------------- MODULE MCDispatcher ----------------------------
(***************************************************************************)
(* Three words of guest code at 4, 8 and 12, and the unmapped 16, in two   *)
(* dispatch slots.                                                         *)
(***************************************************************************)
EXTENDS Dispatcher, Bitwise, TLC

MCPc == {4, 8, 12, 16}
MCWord == {4, 8, 12}
MCSlot == {0, 1}
MCIndex == [p \in Pc |-> ((p \div 4) ^^ (p \div 8)) % 2]
MCCap == {1, 2}
MCOrder == {[p \in Pc |-> p], [p \in Pc |-> MaxAddr - p]}
MCBudgets == {1, 3, Unlimited}
\* For blocks of up to two instructions.
MCShortBudgets == {1, 2, Unlimited}
MCHostSize == [n \in 1 .. MaxInsts |-> IF n = 3 THEN 2 ELSE 1]

Plain(op) == [op |-> op, to |-> EMPTY_PC]
Branch(op, to) == [op |-> op, to |-> to]
Words(a, b, c) == (4 :> a) @@ (8 :> b) @@ (12 :> c)

\* A loop of two instructions that may leave to an indirect branch, which may
\* re-enter it anywhere; and the same code after the guest replaced the loop's
\* branch by an access that faults.
MCPrograms == {Words(Plain("alu"), Branch("bcond", 4), Plain("br")),
               Words(Plain("alu"), Plain("ld"), Plain("br"))}

\* Lines that end in a call, and in a call, a breakpoint, an unsupported
\* instruction or unmapped memory behind a followed branch.
MCLines == {Words(Plain("ld"), Plain("ld"), Plain("svc")),
            Words(Plain("ld"), Branch("b", 12), Plain("svc")),
            Words(Plain("ld"), Branch("b", 12), Plain("brk")),
            Words(Plain("ld"), Branch("b", 12), Plain("udf")),
            Words(Branch("b", 12), Plain("ld"), Plain("alu"))}

\* The hypothesis under which run_bounded implements GuestMachine.
ASSUME MCFits == FitsEmpty
=============================================================================

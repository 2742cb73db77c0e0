------------------------------ MODULE GuestCode ------------------------------
(***************************************************************************)
(* The guest program as the JIT sees it: byte addresses that wrap, and     *)
(* four-byte instructions told apart by what they do to control flow.      *)
(***************************************************************************)
EXTENDS Integers

CONSTANTS
  MaxAddr,      \* u64::MAX: the largest guest address
  Pc            \* guest addresses at which blocks may start

ASSUME AddrAssumption == MaxAddr \in Nat /\ Pc \subseteq 0 .. (MaxAddr - 1)

Addr == 0 .. MaxAddr

\* EMPTY_PC, never a 4-byte aligned PC; also "there is no such address".
EMPTY_PC == MaxAddr

\* pc.wrapping_add(4)
After(pc) == (pc + 4) % (MaxAddr + 1)

\* The operation classes that differ in what translation and generated code
\* do: "alu" stands for everything that neither branches nor calls out, "ld"
\* for an access through a memory callback, "udf" for what no translator and
\* no helper implements.
Insn == [op : {"alu", "ld", "br", "svc", "brk", "udf"}, to : {EMPTY_PC}]
        \cup [op : {"b", "bcond"}, to : Pc]

\* InstStatus::Terminator
Terminator(i) == i.op \in {"b", "bcond", "br", "svc", "brk"}

\* The address of the instruction the guest executes after i at pc, when its
\* flags send a conditional branch in direction `dir` and its registers an
\* indirect branch to t.  A breakpoint's return address is its own.
GuestNext(i, pc, dir, t) ==
  CASE i.op = "b"                         -> i.to
    [] i.op = "bcond" /\ dir = "taken"    -> i.to
    [] i.op = "br"                        -> t
    [] i.op = "brk"                       -> pc
    [] OTHER                              -> After(pc)

=============================================================================

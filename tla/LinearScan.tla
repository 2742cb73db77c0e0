----------------------------- MODULE LinearScan -----------------------------
(***************************************************************************)
(* Register allocation (src/src/backend/regalloc.rs) and the execution of  *)
(* the code emitted with its result.  A block is the list of its live      *)
(* nodes; a value is the position of the node that defines it.  A location *)
(* is the set of cells it occupies: a general register, a vector register, *)
(* one or two 8-byte cells of the spill frame, or none at all for a        *)
(* constant, which is rematerialised at each use.                          *)
(***************************************************************************)
EXTENDS Integers, Sequences, FiniteSets

CONSTANTS
  Gpr,          \* the pool of linear_scan: ALLOCATABLE_GPRS
  Xmm,          \* SPILL_XMMS
  MaxLen,       \* nodes of a block
  Blocks        \* the blocks the optimizer may leave

\* SAVED_SIZE, in 8-byte cells: the frame cells below the spill area.
Saved == 5
Slot == 1 .. (Saved + 3 * MaxLen)
RegCell == ({"gpr"} \X Gpr) \cup ({"xmm"} \X Xmm)
Cell == RegCell \cup ({"slot"} \X Slot)
Pos == 1 .. MaxLen

\* What linear_scan tells apart: "void" has no result, "const" is ConstU32 or
\* ConstU64, "vec" has a 128-bit result, "two" prefers its first operand's
\* register, "id" is a copy.  `clobbers` is clobbers_for_op.
Kind == {"void", "const", "vec", "two", "id", "op"}
Node == [kind : Kind, args : Seq(Pos), clobbers : SUBSET RegCell]

\* `term` holds the values the terminal reads.
Block == [nodes : Seq(Node), term : SUBSET Pos]

Operands(n) == {n.args[i] : i \in DOMAIN n.args}

ASSUME ScanAssumption ==
  /\ Gpr \subseteq Nat /\ Xmm \subseteq Nat /\ MaxLen \in Nat
  /\ Blocks \subseteq Block
  /\ \A b \in Blocks :
       /\ Len(b.nodes) <= MaxLen
       /\ b.term \subseteq 1 .. Len(b.nodes)
       /\ \A v \in 1 .. Len(b.nodes) : Operands(b.nodes[v]) \subseteq 1 .. (v - 1)

VARIABLES
  block,   \* the block being compiled
  at,      \* the next interval of linear_scan
  loc,     \* Allocation::locs
  free,    \* the cells in `free` and `xmm_free`
  active,  \* `active` and `xmm_active`: the cell each live value occupies
  cursor,  \* spill_cursor, in cells
  ip,      \* the next node whose emitted code runs
  holds    \* the values each cell holds a copy of

vars == <<block, at, loc, free, active, cursor, ip, holds>>

Range(b) == 1 .. Len(b.nodes)
Size == Len(block.nodes)

-----------------------------------------------------------------------------
(* compute_live_ranges_with                                                *)

\* The positions up to which a value is live: its own, its users', and the
\* last one if the terminal reads it.
Uses(b, v) == {v} \cup {u \in Range(b) : v \in Operands(b.nodes[u])}
                  \cup {u \in Range(b) : v \in b.term /\ u = Len(b.nodes)}

\* LiveRange::end
End(b, v) == CHOOSE e \in Uses(b, v) : \A u \in Uses(b, v) : u <= e

\* Mutant of Interior: looks at the nodes after the first one only.
InteriorLate(b, v) == UNION {b.nodes[u].clobbers : u \in (v + 2) .. (End(b, v) - 1)}

\* interior_clobber_mask and interior_xmm_clobber_mask
Interior(b, v) == UNION {b.nodes[u].clobbers : u \in (v + 1) .. (End(b, v) - 1)}

-----------------------------------------------------------------------------
(* linear_scan                                                             *)

Init ==
  /\ block \in Blocks
  /\ at = 1 /\ ip = 1
  /\ loc = [v \in Pos |-> {}]
  /\ free = RegCell
  /\ active = {}
  /\ cursor = Saved
  /\ holds = [c \in Cell |-> {}]

\* Mutant of Expired: a register is given back at its value's last use.
ExpiredEarly == {e \in active : e.end <= at}

\* The entries that are retired before the interval at `at` is placed.
Expired == {e \in active : e.end < at}
Alive == active \ Expired
Freed == free \cup {e.cell : e \in Expired}

Entry(c) == [end |-> End(block, at), cell |-> c, value |-> at]

\* The interval takes the cell c, or the cells s of the spill frame.
Take(c) ==
  /\ loc' = [loc EXCEPT ![at] = {c}]
  /\ free' = Freed \ {c}
  /\ active' = Alive \cup {Entry(c)}
  /\ UNCHANGED cursor

\* alloc_spill_slot and alloc_spill_slot_16
TakeSlot ==
  /\ loc' = [loc EXCEPT ![at] = {<<"slot", cursor + 1>>}]
  /\ cursor' = cursor + 1
  /\ free' = Freed /\ active' = Alive

\* Mutant of TakeSlot16: takes the cursor for a number of bytes.
TakeSlot16Bytes ==
  /\ loc' = [loc EXCEPT ![at] = {<<"slot", 8 * cursor + 1>>, <<"slot", 8 * cursor + 2>>}]
  /\ cursor' = cursor + 2
  /\ free' = Freed /\ active' = Alive

TakeSlot16 ==
  LET aligned == cursor + (cursor % 2) IN
  /\ loc' = [loc EXCEPT ![at] = {<<"slot", aligned + 1>>, <<"slot", aligned + 2>>}]
  /\ cursor' = aligned + 2
  /\ free' = Freed /\ active' = Alive

Safe(class) == {c \in Freed : c[1] = class /\ c \notin Interior(block, at)}

\* A node without a result is no interval.
Skip ==
  /\ at \in Range(block) /\ block.nodes[at].kind = "void"
  /\ at' = at + 1
  /\ UNCHANGED <<block, loc, free, active, cursor, ip, holds>>

Rematerialise ==
  /\ at \in Range(block) /\ block.nodes[at].kind = "const"
  /\ at' = at + 1
  /\ free' = Freed /\ active' = Alive
  /\ UNCHANGED <<block, loc, cursor, ip, holds>>

\* A vector register, or 16 bytes of the frame.
PlaceVector ==
  /\ at \in Range(block) /\ block.nodes[at].kind = "vec"
  /\ at' = at + 1
  /\ IF Safe("xmm") # {} THEN \E c \in Safe("xmm") : Take(c) ELSE TakeSlot16
  /\ UNCHANGED <<block, ip, holds>>

\* The first operand ends here, and its location may be taken over: a register
\* by a two-address node or a copy, any location by a copy.
Source == block.nodes[at].args[1]
Inherits ==
  /\ block.nodes[at].kind \in {"two", "id"}
  /\ block.nodes[at].args # <<>>
  /\ End(block, Source) = at
  /\ \/ block.nodes[at].kind = "id"
     \/ \E r \in Gpr : loc[Source] = {<<"gpr", r>>}

Inherit ==
  /\ at \in Range(block) /\ Inherits
  /\ at' = at + 1
  /\ loc' = [loc EXCEPT ![at] = loc[Source]]
  /\ free' = Freed
  /\ active' = {IF e.value = Source THEN Entry(e.cell) ELSE e : e \in Alive}
  /\ UNCHANGED <<block, cursor, ip, holds>>

\* A general register that no node inside the range clobbers, else a vector
\* register of that kind, else 8 bytes of the frame.
Place ==
  /\ at \in Range(block) /\ block.nodes[at].kind \in {"two", "id", "op"} /\ ~Inherits
  /\ at' = at + 1
  /\ IF Safe("gpr") # {} THEN \E c \in Safe("gpr") : Take(c)
     ELSE IF Safe("xmm") # {} THEN \E c \in Safe("xmm") : Take(c)
     ELSE TakeSlot
  /\ UNCHANGED <<block, ip, holds>>

-----------------------------------------------------------------------------
(* The emitted code.  A node loads its operands, does what it does to the  *)
(* registers it clobbers, and stores its result.                           *)

\* What the cells of a value all hold.
Held(v) == {u \in Pos : loc[v] # {} /\ \A c \in loc[v] : u \in holds[c]}

Result == IF block.nodes[ip].kind = "id" /\ block.nodes[ip].args # <<>>
          THEN {ip} \cup Held(block.nodes[ip].args[1]) ELSE {ip}

Run ==
  /\ at = Size + 1 /\ ip \in Range(block)
  /\ holds' = [c \in Cell |-> CASE c \in loc[ip] -> Result
                                [] c \notin loc[ip] /\ c \in block.nodes[ip].clobbers -> {}
                                [] OTHER -> holds[c]]
  /\ ip' = ip + 1
  /\ UNCHANGED <<block, at, loc, free, active, cursor>>

Done == ip = Size + 1 /\ UNCHANGED vars

Next == Skip \/ Rematerialise \/ PlaceVector \/ Inherit \/ Place \/ Run \/ Done

Spec == Init /\ [][Next]_vars

-----------------------------------------------------------------------------
(* Properties.                                                             *)

ActiveEntry == [end : Pos, cell : RegCell, value : Pos]

\* Locations are cells of the register files and the frame, and the scan and
\* the emitted code stay within the block.
TypeOK ==
  /\ block \in Block
  /\ at \in 1 .. (Size + 1) /\ ip \in 1 .. (Size + 1)
  /\ loc \in [Pos -> SUBSET Cell]
  /\ free \subseteq RegCell /\ active \subseteq ActiveEntry
  /\ cursor \in Nat
  /\ holds \in [Cell -> SUBSET Pos]

\* Every operand a node or the terminal reads is, at that moment, still in the
\* location the allocator gave it: neither a later value nor a call has
\* overwritten it ("Values have one fixed location in current emitter").
Reads == IF ip \in Range(block) THEN Operands(block.nodes[ip]) ELSE block.term
OperandsIntact ==
  at = Size + 1 => \A v \in Reads : \A c \in loc[v] : v \in holds[c]

\* Two values share cells only if the first is dead when the second is defined,
\* or ends there as its first operand and is taken over.
NoSharing ==
  \A v, w \in 1 .. (at - 1) : v < w /\ loc[v] \cap loc[w] # {} =>
    \/ End(block, v) < w
    \/ /\ End(block, v) = w /\ block.nodes[w].kind \in {"two", "id"}
       /\ block.nodes[w].args # <<>> /\ block.nodes[w].args[1] = v

-----------------------------------------------------------------------------
(* The inductive invariant, in parts.                                      *)

Placed == 1 .. (at - 1)

\* Values that were not reached yet have no location.
Unplaced == \A v \in Pos \ Placed : loc[v] = {}

\* Each register of a value that is still live has its entry in `active`,
Tracked == \A v \in Placed : \A c \in loc[v] \cap RegCell : End(block, v) >= at =>
             [end |-> End(block, v), cell |-> c, value |-> v] \in active

\* every entry is about a register its value has, and that is not free,
Entries == \A e \in active : /\ e.value \in Placed /\ e.end = End(block, e.value)
                             /\ loc[e.value] = {e.cell}
                             /\ e.cell \in RegCell \ free

\* and no register has two entries.
Owned == \A e, f \in active : e.cell = f.cell => e = f

\* The spill frame is used up to the cursor, which advances by at most three
\* cells (an alignment gap and 16 bytes).
Frame ==
  /\ \A v \in Placed : \A c \in loc[v] \ RegCell : c[2] <= cursor
  /\ Saved <= cursor /\ cursor <= Saved + 3 * (at - 1)

ScanInv == Unplaced /\ Tracked /\ Entries /\ Owned /\ Frame

\* A value that is live across a node never has a register the node clobbers
\* ("val crosses a shift that clobbers RCX, so it cannot live in RCX").
Survives == \A v \in Placed : loc[v] \cap Interior(block, v) = {}

\* The values that are read later are where the allocator put them.
Kept ==
  \A v \in 1 .. (ip - 1) : End(block, v) >= ip \/ v \in block.term =>
    \A c \in loc[v] : v \in holds[c]

Inductive ==
  /\ TypeOK
  /\ ip > 1 => at = Size + 1
  /\ ScanInv
  /\ NoSharing

\* What the argument needs of a block: a copy, or a node that takes over its
\* first operand's register, is not live across a node that clobbers the
\* register; and the last node leaves alone what the terminal reads.
Clean(b) ==
  /\ \A v \in Range(b) : b.nodes[v].kind = "id" => Interior(b, v) = {}
  /\ \A v \in Range(b) : b.nodes[v].kind = "two" =>
       Interior(b, v) \cap ({"gpr"} \X Gpr) = {}
  /\ \A v \in b.term : v < Len(b.nodes) =>
       b.nodes[Len(b.nodes)].clobbers = {} /\ b.nodes[Len(b.nodes)].kind # "two"

=============================================================================

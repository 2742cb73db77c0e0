-------------------------- MODULE LinearScanProofs --------------------------
(***************************************************************************)
(* Proofs about LinearScan, for every pool of registers and every set of   *)
(* blocks: the allocator keeps values apart, and, for the blocks that are  *)
(* Clean, the emitted code reads every operand intact.                     *)
(***************************************************************************)
EXTENDS LinearScan, TLAPS, WellFoundedInduction, NaturalsInduction

-----------------------------------------------------------------------------
(* Blocks, live ranges and cells.                                          *)

\* A block is short, its nodes are nodes, and a value is defined before it is
\* used (the node order of Block::iter_live).
LEMMA BlockFacts ==
  ASSUME NEW b \in Blocks
  PROVE  /\ Len(b.nodes) \in 0 .. MaxLen
         /\ Range(b) \subseteq Pos
         /\ \A v \in Range(b) : /\ b.nodes[v] \in Node
                                /\ Operands(b.nodes[v]) \subseteq 1 .. (v - 1)
         /\ b.term \subseteq Range(b)
<1>1. b \in Block /\ Len(b.nodes) <= MaxLen /\ b.term \subseteq 1 .. Len(b.nodes)
  BY ScanAssumption
<1>2. \A v \in 1 .. Len(b.nodes) : Operands(b.nodes[v]) \subseteq 1 .. (v - 1)
  BY ScanAssumption
<1>3. b.nodes \in Seq(Node)
  BY <1>1 DEF Block
<1>4. Len(b.nodes) \in Nat /\ \A v \in 1 .. Len(b.nodes) : b.nodes[v] \in Node
  BY <1>3
<1>5. MaxLen \in Nat
  BY ScanAssumption
<1>6. QED
  BY <1>1, <1>2, <1>4, <1>5 DEF Range, Pos

\* LiveRange::end is the last use: the definition, a user or, for a value the
\* terminal reads, the end of the block.
LEMMA EndMax ==
  ASSUME NEW b \in Blocks, NEW v \in Range(b)
  PROVE  /\ End(b, v) \in Uses(b, v)
         /\ \A u \in Uses(b, v) : u <= End(b, v)
         /\ End(b, v) \in v .. Len(b.nodes)
         /\ \A u \in Range(b) : v \in Operands(b.nodes[u]) => u <= End(b, v)
         /\ v \in b.term => End(b, v) = Len(b.nodes)
<1> DEFINE L == Len(b.nodes)
<1> DEFINE T == {L - u : u \in Uses(b, v)}
<1>1. L \in Nat /\ v \in 1 .. L
  BY BlockFacts DEF Range
<1>2. Uses(b, v) \subseteq 1 .. L /\ v \in Uses(b, v)
  BY <1>1 DEF Uses, Range
<1>3. T \subseteq Nat /\ T # {}
  BY <1>1, <1>2
<1>4. PICK m \in T : \A y \in T : ~(<<y, m>> \in OpToRel(<, Nat))
  <2>1. IsWellFoundedOn(OpToRel(<, Nat), Nat)
    BY NatLessThanWellFounded
  <2> HIDE DEF T
  <2>2. QED
    BY <1>3, <2>1, WFMin
<1>5. \A y \in T : ~(y < m)
  <2> HIDE DEF T
  <2>1. QED
    BY <1>3, <1>4 DEF OpToRel
<1>6. PICK e \in Uses(b, v) : m = L - e
  BY <1>4
<1>7. \A u \in Uses(b, v) : u <= e
  <2>1. TAKE u \in Uses(b, v)
  <2>2. L - u \in T
    OBVIOUS
  <2>3. ~(L - u < L - e)
    BY <2>2, <1>5, <1>6
  <2>4. QED
    BY <2>3, <1>1, <1>2, <1>6
<1>8. End(b, v) \in Uses(b, v) /\ \A u \in Uses(b, v) : u <= End(b, v)
  BY <1>6, <1>7 DEF End
<1>9. \A u \in Range(b) : v \in Operands(b.nodes[u]) => u \in Uses(b, v)
  BY DEF Uses
<1>10. v \in b.term => L \in Uses(b, v)
  BY <1>1 DEF Uses, Range
<1>11. QED
  BY <1>1, <1>2, <1>8, <1>9, <1>10

\* Interior clobbers are registers; a node inside the range contributes.
LEMMA InteriorFacts ==
  ASSUME NEW b \in Blocks, NEW v \in Range(b)
  PROVE  /\ Interior(b, v) \subseteq RegCell
         /\ \A u \in Range(b) : v < u /\ u < End(b, v) =>
              b.nodes[u].clobbers \subseteq Interior(b, v)
<1>1. Len(b.nodes) \in Nat /\ v \in 1 .. Len(b.nodes) /\ End(b, v) \in v .. Len(b.nodes)
  BY BlockFacts, EndMax DEF Range
<1>2. (v + 1) .. (End(b, v) - 1) \subseteq Range(b)
  BY <1>1 DEF Range
<1>3. \A u \in Range(b) : b.nodes[u].clobbers \subseteq RegCell
  BY BlockFacts DEF Node
<1>4. \A u \in Range(b) : v < u /\ u < End(b, v) => u \in (v + 1) .. (End(b, v) - 1)
  BY <1>1 DEF Range
<1>5. QED
  BY <1>2, <1>3, <1>4 DEF Interior

\* Registers and frame cells are different cells.
LEMMA Cells ==
  /\ RegCell \subseteq Cell
  /\ \A s \in Slot : /\ <<"slot", s>> \in Cell \ RegCell
                     /\ <<"slot", s>>[2] = s
  /\ \A c \in Cell \ RegCell : c[2] \in Slot
BY DEF Cell, RegCell

-----------------------------------------------------------------------------
(* The allocator.                                                          *)

\* The inductive invariant, for the block being one of Blocks.
Inv == block \in Blocks /\ Inductive

\* Before the first step every value is free to be placed: the invariant holds.
LEMMA InitInv == Init => Inv
<1> SUFFICES ASSUME Init PROVE Inv
  OBVIOUS
<1>1. block \in Blocks /\ block \in Block /\ Size \in Nat
  BY BlockFacts, ScanAssumption DEF Init, Size
<1>2. TypeOK
  BY <1>1, Cells DEF Init, TypeOK, Saved
<1>3. ip > 1 => at = Size + 1
  BY DEF Init
<1>4. ScanInv
  BY DEF Init, ScanInv, Unplaced, Tracked, Entries, Owned, Frame, Placed, Saved
<1>5. NoSharing
  BY DEF Init, NoSharing
<1>6. QED
  BY <1>1, <1>2, <1>3, <1>4, <1>5 DEF Inv, Inductive

\* What the invariant says of the interval about to be placed: it has no
\* location yet, and a cell that is free once the dead values have retired
\* belongs to no value that is still live.
LEMMA FreedFacts ==
  ASSUME Inv, at \in Range(block)
  PROVE  /\ Freed \subseteq RegCell
         /\ \A v \in Placed : \A c \in Freed : c \in loc[v] => End(block, v) < at
         /\ \A e \in Alive : e.cell \notin Freed
         /\ \A v \in Placed : v \in Range(block) /\ v < at /\ End(block, v) \in Nat
<1> USE DEF Inv, Inductive
<1>1. at \in Nat /\ Placed \subseteq Range(block)
  BY BlockFacts DEF Range, Placed
<1>2. \A v \in Placed : v \in Range(block) /\ v < at /\ End(block, v) \in Nat
  <2>1. TAKE v \in Placed
  <2>2. v \in Range(block) /\ v < at /\ v \in Nat
    BY <1>1 DEF Placed
  <2>3. Len(block.nodes) \in Nat /\ End(block, v) \in v .. Len(block.nodes)
    BY <2>2, BlockFacts, EndMax
  <2>4. QED
    BY <2>2, <2>3
<1>3. Freed \subseteq RegCell
  BY DEF Freed, Expired, TypeOK, ScanInv, Entries
<1>4. \A e \in Alive : e.cell \notin Freed
  BY DEF Alive, Freed, Expired, ScanInv, Entries, Owned
<1>5. ASSUME NEW v \in Placed, NEW c \in Freed, c \in loc[v], End(block, v) >= at
      PROVE  FALSE
  <2> DEFINE e == [end |-> End(block, v), cell |-> c, value |-> v]
  <2>1. e \in active
    BY <1>3, <1>5 DEF ScanInv, Tracked
  <2>2. e \in Alive
    BY <2>1, <1>1, <1>2, <1>5 DEF Alive, Expired
  <2>3. QED
    BY <2>2, <1>4
<1>6. \A v \in Placed : \A c \in Freed : c \in loc[v] => End(block, v) < at
  <2>1. SUFFICES ASSUME NEW v \in Placed, NEW c \in Freed, c \in loc[v]
                 PROVE  End(block, v) < at
    OBVIOUS
  <2>2. QED
    BY <2>1, <1>1, <1>2, <1>5
<1>7. QED
  BY <1>2, <1>3, <1>4, <1>6

\* The scan moves on by one position.
LEMMA Advance ==
  ASSUME Inv, at \in Range(block), at' = at + 1
  PROVE  /\ at \in Nat /\ Size \in Nat /\ at <= Size /\ at >= 1 /\ at \in Pos
         /\ End(block, at) \in Pos /\ End(block, at) \in Nat /\ End(block, at) >= at
         /\ Placed' = Placed \cup {at} /\ at \notin Placed
         /\ Placed \subseteq Pos /\ Placed \subseteq Nat
<1>1. block \in Blocks
  BY DEF Inv
<1>2. /\ Len(block.nodes) \in 0 .. MaxLen /\ MaxLen \in Nat
      /\ at \in 1 .. Len(block.nodes) /\ End(block, at) \in at .. Len(block.nodes)
  BY <1>1, BlockFacts, EndMax, ScanAssumption DEF Range
<1>3. QED
  BY <1>2 DEF Placed, Pos, Size

\* The interval takes a free register: Take(c).
LEMMA TakeStep ==
  ASSUME Inv, at \in Range(block), NEW c \in Freed, Take(c), at' = at + 1,
         UNCHANGED <<block, ip, holds>>
  PROVE  Inv'
<1> USE DEF Inv, Inductive
<1>1. /\ Freed \subseteq RegCell
      /\ \A v \in Placed : c \in loc[v] => End(block, v) < at
      /\ \A e \in Alive : e.cell \notin Freed
      /\ \A v \in Placed : v \in Range(block) /\ v < at /\ End(block, v) \in Nat
  BY FreedFacts
<1>2. /\ at \in Nat /\ Size \in Nat /\ at <= Size /\ at >= 1 /\ at \in Pos
      /\ End(block, at) \in Pos /\ End(block, at) \in Nat
  BY Advance
<1>3. Placed' = Placed \cup {at} /\ at \notin Placed /\ Placed \subseteq Pos \cap Nat
  BY Advance
<1>4. /\ loc' = [loc EXCEPT ![at] = {c}] /\ loc \in [Pos -> SUBSET Cell]
      /\ free' = Freed \ {c} /\ active' = Alive \cup {Entry(c)} /\ cursor' = cursor
  BY DEF Take, TypeOK
<1>5. loc'[at] = {c} /\ \A v \in Pos \ {at} : loc'[v] = loc[v]
  BY <1>2, <1>4
<1>6. Entry(c) = [end |-> End(block, at), cell |-> c, value |-> at]
  BY DEF Entry
<1>7. TypeOK'
  <2>1. Entry(c) \in ActiveEntry /\ Alive \subseteq ActiveEntry
    BY <1>1, <1>2, <1>6 DEF ActiveEntry, Alive, TypeOK
  <2>2. loc' \in [Pos -> SUBSET Cell]
    BY <1>1, <1>4, Cells
  <2>3. QED
    BY <1>1, <1>2, <1>4, <2>1, <2>2 DEF TypeOK, Size
<1>8. (ip > 1 => at = Size + 1)'
  BY <1>2 DEF Size, TypeOK
<1>9. ScanInv'
  <2>1. Unplaced'
    BY <1>3, <1>5 DEF ScanInv, Unplaced
  <2>2. Tracked'
    <3>1. SUFFICES ASSUME NEW v \in Placed', NEW d \in loc'[v] \cap RegCell,
                          End(block, v) >= at + 1
                   PROVE  [end |-> End(block, v), cell |-> d, value |-> v] \in active'
      BY DEF Tracked
    <3>2. CASE v = at
      BY <3>1, <3>2, <1>4, <1>5, <1>6
    <3>3. CASE v \in Placed
      <4>1. [end |-> End(block, v), cell |-> d, value |-> v] \in active
        BY <3>1, <3>3, <1>1, <1>2, <1>3, <1>5 DEF ScanInv, Tracked
      <4>2. [end |-> End(block, v), cell |-> d, value |-> v] \in Alive
        BY <4>1, <3>1, <3>3, <1>1, <1>2 DEF Alive, Expired
      <4>3. QED
        BY <4>2, <1>4
    <3>4. QED
      BY <3>2, <3>3, <1>3
  <2>3. Entries'
    BY <1>1, <1>3, <1>4, <1>5, <1>6 DEF ScanInv, Entries, Alive, Freed
  <2>4. Owned'
    BY <1>1, <1>4, <1>6 DEF ScanInv, Owned, Alive
  <2>5. Frame'
    <3>1. \A v \in Placed' : \A d \in loc'[v] \ RegCell : d[2] <= cursor
      BY <1>1, <1>3, <1>5 DEF ScanInv, Frame
    <3>2. QED
      BY <3>1, <1>2, <1>4 DEF ScanInv, Frame, TypeOK, Saved
  <2>6. QED
    BY <2>1, <2>2, <2>3, <2>4, <2>5 DEF ScanInv
<1>10. NoSharing'
  <2>1. SUFFICES ASSUME NEW v \in Placed', NEW w \in Placed', v < w,
                        loc'[v] \cap loc'[w] # {}
                 PROVE  \/ End(block, v) < w
                        \/ /\ End(block, v) = w /\ block.nodes[w].kind \in {"two", "id"}
                           /\ block.nodes[w].args # <<>> /\ block.nodes[w].args[1] = v
    BY DEF NoSharing, Placed
  <2>2. v \in Placed
    <3>1. v \in Placed \cup {at} /\ w \in Placed \cup {at} /\ v < w
      BY <2>1, <1>3
    <3>2. \A u \in Placed : u < at /\ u \in Nat
      BY <1>1, <1>3
    <3>3. v # at
      BY <3>1, <3>2, <1>2
    <3>4. QED
      BY <3>1, <3>3
  <2>3. CASE w = at
    BY <2>1, <2>2, <2>3, <1>1, <1>2, <1>3, <1>5
  <2>4. CASE w \in Placed
    BY <2>1, <2>2, <2>4, <1>3, <1>5 DEF NoSharing, Placed
  <2>5. QED
    BY <2>3, <2>4, <1>3
<1>11. QED
  BY <1>7, <1>8, <1>9, <1>10

\* The interval takes frame cells S above the cursor, or none.
LEMMA FrameStep ==
  ASSUME Inv, at \in Range(block), NEW S, NEW k \in Nat,
         cursor' = k, cursor <= k, k <= cursor + 3,
         S \subseteq Cell \ RegCell, \A s \in S : cursor < s[2] /\ s[2] <= k,
         loc' = [loc EXCEPT ![at] = S], free' = Freed, active' = Alive, at' = at + 1,
         UNCHANGED <<block, ip, holds>>
  PROVE  Inv'
<1> USE DEF Inv, Inductive
<1>1. /\ Freed \subseteq RegCell
      /\ \A e \in Alive : e.cell \notin Freed
      /\ \A v \in Placed : v \in Range(block) /\ v < at /\ End(block, v) \in Nat
  BY FreedFacts
<1>2. /\ at \in Nat /\ Size \in Nat /\ at <= Size /\ at >= 1 /\ at \in Pos
  BY Advance
<1>3. Placed' = Placed \cup {at} /\ at \notin Placed /\ Placed \subseteq Pos \cap Nat
  BY Advance
<1>4. loc \in [Pos -> SUBSET Cell] /\ cursor \in Nat
  BY DEF TypeOK
<1>5. loc'[at] = S /\ \A v \in Pos \ {at} : loc'[v] = loc[v]
  BY <1>2, <1>4
<1>6. TypeOK'
  <2>1. loc' \in [Pos -> SUBSET Cell]
    BY <1>4
  <2>2. QED
    BY <1>1, <1>2, <2>1 DEF TypeOK, Size, Alive
<1>7. (ip > 1 => at = Size + 1)'
  BY <1>2 DEF Size, TypeOK
<1>8. ScanInv'
  <2>1. Unplaced'
    BY <1>3, <1>5 DEF ScanInv, Unplaced
  <2>2. Tracked'
    <3>1. SUFFICES ASSUME NEW v \in Placed', NEW d \in loc'[v] \cap RegCell,
                          End(block, v) >= at + 1
                   PROVE  [end |-> End(block, v), cell |-> d, value |-> v] \in active'
      BY DEF Tracked
    <3>2. v \in Placed /\ loc'[v] = loc[v]
      BY <3>1, <1>3, <1>5
    <3>3. [end |-> End(block, v), cell |-> d, value |-> v] \in active
      BY <3>1, <3>2, <1>1, <1>2 DEF ScanInv, Tracked
    <3>4. QED
      BY <3>1, <3>2, <3>3, <1>1, <1>2 DEF Alive, Expired
  <2>3. Entries'
    BY <1>1, <1>3, <1>5 DEF ScanInv, Entries, Alive, Freed
  <2>4. Owned'
    BY DEF ScanInv, Owned, Alive
  <2>5. Frame'
    <3>1. \A v \in Placed : \A d \in loc'[v] \ RegCell : d[2] <= k
      <4>1. SUFFICES ASSUME NEW v \in Placed, NEW d \in loc'[v] \ RegCell
                     PROVE  d[2] <= k
        OBVIOUS
      <4>2. d \in loc[v] /\ d \in Cell
        BY <1>3, <1>4, <1>5
      <4>3. d[2] <= cursor /\ d[2] \in Nat
        BY <4>1, <4>2, Cells DEF ScanInv, Frame, Slot
      <4>4. QED
        BY <4>3, <1>4
    <3>2. \A v \in Placed' : \A d \in loc'[v] \ RegCell : d[2] <= cursor'
      BY <3>1, <1>3, <1>5
    <3>3. QED
      BY <3>2, <1>2, <1>4 DEF ScanInv, Frame, Saved
  <2>6. QED
    BY <2>1, <2>2, <2>3, <2>4, <2>5 DEF ScanInv
<1>9. NoSharing'
  <2>1. SUFFICES ASSUME NEW v \in Placed', NEW w \in Placed', v < w,
                        loc'[v] \cap loc'[w] # {}
                 PROVE  \/ End(block, v) < w
                        \/ /\ End(block, v) = w /\ block.nodes[w].kind \in {"two", "id"}
                           /\ block.nodes[w].args # <<>> /\ block.nodes[w].args[1] = v
    BY DEF NoSharing, Placed
  <2>2. v \in Placed /\ loc'[v] = loc[v] /\ v \in Pos
    <3>1. v \in Placed \cup {at} /\ w \in Placed \cup {at} /\ v < w
      BY <2>1, <1>3
    <3>2. \A u \in Placed : u < at /\ u \in Nat
      BY <1>1, <1>3
    <3>3. v # at
      BY <3>1, <3>2, <1>2
    <3>4. QED
      BY <3>1, <3>3, <1>3, <1>5
  <2>3. CASE w = at
    <3>1. PICK d \in S : d \in loc[v]
      BY <2>1, <2>2, <2>3, <1>5
    <3>2. d[2] <= cursor /\ d[2] \in Nat
      BY <3>1, <2>2, Cells DEF ScanInv, Frame, Slot
    <3>3. QED
      BY <3>1, <3>2, <1>4
  <2>4. CASE w \in Placed
    BY <2>1, <2>2, <2>4, <1>3, <1>5 DEF NoSharing, Placed
  <2>5. QED
    BY <2>3, <2>4, <1>3
<1>10. QED
  BY <1>6, <1>7, <1>8, <1>9

\* The first operand of a node is a value that was placed.
LEMMA SourceFacts ==
  ASSUME Inv, at \in Range(block), Inherits
  PROVE  /\ Source \in Placed /\ Source \in Pos \cap Nat /\ Source < at
         /\ End(block, Source) = at
         /\ block.nodes[at].kind \in {"two", "id"}
         /\ block.nodes[at].args # <<>> /\ block.nodes[at].args[1] = Source
<1>1. block \in Blocks /\ at \in 1 .. Len(block.nodes) /\ Len(block.nodes) \in 0 .. MaxLen
  BY BlockFacts DEF Inv, Range
<1>2. /\ block.nodes[at] \in Node
      /\ Operands(block.nodes[at]) \subseteq 1 .. (at - 1)
  BY <1>1, BlockFacts
<1>3. block.nodes[at].args \in Seq(Pos) /\ block.nodes[at].args # <<>>
  BY <1>2 DEF Node, Inherits
<1>4. 1 \in DOMAIN block.nodes[at].args
  BY <1>3
<1>5. Source \in Operands(block.nodes[at])
  BY <1>4 DEF Source, Operands
<1>6. MaxLen \in Nat
  BY ScanAssumption
<1>7. QED
  BY <1>1, <1>2, <1>5, <1>6 DEF Placed, Pos, Inherits, Source

\* A value that inherits its operand's register keeps the invariant.
LEMMA InheritStep ==
  ASSUME Inv, Inherit
  PROVE  Inv'
<1> USE DEF Inv, Inductive
<1> DEFINE s == Source
<1>a. /\ at \in Range(block) /\ Inherits /\ at' = at + 1 /\ block' = block
      /\ loc' = [loc EXCEPT ![at] = loc[s]] /\ free' = Freed /\ cursor' = cursor
      /\ active' = {IF e.value = s THEN Entry(e.cell) ELSE e : e \in Alive}
      /\ ip' = ip /\ holds' = holds
  BY DEF Inherit
<1>b. /\ s \in Placed /\ s \in Pos \cap Nat /\ s < at /\ End(block, s) = at
      /\ block.nodes[at].kind \in {"two", "id"}
      /\ block.nodes[at].args # <<>> /\ block.nodes[at].args[1] = s
  BY <1>a, SourceFacts
<1>1. /\ Freed \subseteq RegCell
      /\ \A e \in Alive : e.cell \notin Freed
      /\ \A v \in Placed : v \in Range(block) /\ v < at /\ End(block, v) \in Nat
  BY <1>a, FreedFacts
<1>2. /\ at \in Nat /\ Size \in Nat /\ at <= Size /\ at >= 1 /\ at \in Pos
      /\ End(block, at) \in Pos /\ End(block, at) \in Nat
  BY <1>a, Advance
<1>3. Placed' = Placed \cup {at} /\ at \notin Placed /\ Placed \subseteq Pos \cap Nat
  BY <1>a, Advance
<1>4. loc \in [Pos -> SUBSET Cell] /\ cursor \in Nat
  BY DEF TypeOK
<1> HIDE DEF s
<1>5. loc'[at] = loc[s] /\ loc[s] \subseteq Cell /\ \A v \in Pos \ {at} : loc'[v] = loc[v]
  BY <1>a, <1>b, <1>2, <1>4
<1>6. \A d : Entry(d) = [end |-> End(block, at), cell |-> d, value |-> at]
  BY DEF Entry
<1>7. \A e \in active' : \/ e \in Alive /\ e.value # s
                         \/ \E f \in Alive : f.value = s /\ e = Entry(f.cell)
  BY <1>a
<1>8. /\ \A e \in Alive : e.value # s => e \in active'
      /\ \A e \in Alive : e.value = s => Entry(e.cell) \in active'
  BY <1>a
<1>9. TypeOK'
  <2>1. Alive \subseteq ActiveEntry
    BY DEF Alive, TypeOK
  <2>2. \A d \in RegCell : Entry(d) \in ActiveEntry
    BY <1>2, <1>6 DEF ActiveEntry
  <2>3. active' \subseteq ActiveEntry
    BY <1>7, <2>1, <2>2 DEF ActiveEntry
  <2>4. loc' \in [Pos -> SUBSET Cell]
    BY <1>a, <1>4, <1>5
  <2>5. QED
    BY <1>a, <1>1, <1>2, <1>4, <2>3, <2>4 DEF TypeOK, Size
<1>10. (ip > 1 => at = Size + 1)'
  BY <1>a, <1>2 DEF Size, TypeOK
<1>11. ScanInv'
  <2>1. Unplaced'
    BY <1>3, <1>5 DEF ScanInv, Unplaced
  <2>2. Tracked'
    <3>1. SUFFICES ASSUME NEW v \in Placed', NEW d \in loc'[v] \cap RegCell,
                          End(block, v) >= at + 1
                   PROVE  [end |-> End(block, v), cell |-> d, value |-> v] \in active'
      BY <1>a DEF Tracked
    <3>2. CASE v = at
      <4> DEFINE e == [end |-> End(block, s), cell |-> d, value |-> s]
      <4>1. e \in active
        BY <3>1, <3>2, <1>b, <1>2, <1>5 DEF ScanInv, Tracked
      <4>2. e \in Alive
        BY <4>1, <1>b, <1>2 DEF Alive, Expired
      <4>3. Entry(d) \in active'
        BY <4>2, <1>8
      <4>4. QED
        BY <4>3, <3>2, <1>6
    <3>3. CASE v \in Placed
      <4> DEFINE e == [end |-> End(block, v), cell |-> d, value |-> v]
      <4>1. v # s
        BY <3>1, <1>b, <1>2
      <4>2. e \in active
        BY <3>1, <3>3, <1>1, <1>2, <1>3, <1>5 DEF ScanInv, Tracked
      <4>3. e \in Alive
        BY <4>2, <3>1, <3>3, <1>1, <1>2 DEF Alive, Expired
      <4>4. QED
        BY <4>1, <4>3, <1>8
    <3>4. QED
      BY <3>2, <3>3, <1>3
  <2>3. Entries'
    <3>1. SUFFICES ASSUME NEW e \in active'
                   PROVE  /\ e.value \in Placed' /\ e.end = End(block, e.value)
                          /\ loc'[e.value] = {e.cell} /\ e.cell \in RegCell \ Freed
      BY <1>a DEF Entries
    <3>2. CASE e \in Alive /\ e.value # s
      BY <3>2, <1>1, <1>3, <1>5 DEF ScanInv, Entries, Alive
    <3>3. CASE \E f \in Alive : f.value = s /\ e = Entry(f.cell)
      <4>1. PICK f \in Alive : f.value = s /\ e = Entry(f.cell)
        BY <3>3
      <4>2. loc[s] = {f.cell} /\ f.cell \in RegCell \ Freed
        BY <4>1, <1>1 DEF ScanInv, Entries, Alive
      <4>3. e.value = at /\ e.end = End(block, at) /\ e.cell = f.cell
        BY <4>1, <1>6
      <4>4. QED
        BY <4>2, <4>3, <1>3, <1>5
    <3>4. QED
      BY <3>2, <3>3, <1>7
  <2>4. Owned'
    <3>1. SUFFICES ASSUME NEW e \in active', NEW f \in active', e.cell = f.cell
                   PROVE  e = f
      BY DEF Owned
    <3>2. PICK e0 \in Alive : /\ e0.cell = e.cell
                              /\ e = IF e0.value = s THEN Entry(e0.cell) ELSE e0
      BY <1>6, <1>7
    <3>3. PICK f0 \in Alive : /\ f0.cell = f.cell
                              /\ f = IF f0.value = s THEN Entry(f0.cell) ELSE f0
      BY <1>6, <1>7
    <3>4. e0 = f0
      BY <3>1, <3>2, <3>3 DEF ScanInv, Owned, Alive
    <3>5. QED
      BY <3>2, <3>3, <3>4
  <2>5. Frame'
    <3>1. \A v \in Placed' : \A d \in loc'[v] \ RegCell : d[2] <= cursor
      BY <1>b, <1>3, <1>5 DEF ScanInv, Frame
    <3>2. QED
      BY <3>1, <1>a, <1>2, <1>4 DEF ScanInv, Frame, Saved
  <2>6. QED
    BY <2>1, <2>2, <2>3, <2>4, <2>5 DEF ScanInv
<1>12. NoSharing'
  <2>1. SUFFICES ASSUME NEW v \in Placed', NEW w \in Placed', v < w,
                        loc'[v] \cap loc'[w] # {}
                 PROVE  \/ End(block, v) < w
                        \/ /\ End(block, v) = w /\ block.nodes[w].kind \in {"two", "id"}
                           /\ block.nodes[w].args # <<>> /\ block.nodes[w].args[1] = v
    BY <1>a DEF NoSharing, Placed
  <2>2. v \in Placed /\ v \in Nat /\ v < at /\ loc'[v] = loc[v] /\ End(block, v) \in Nat
    <3>1. v \in Placed \cup {at} /\ w \in Placed \cup {at} /\ v < w
      BY <2>1, <1>3
    <3>2. \A u \in Placed : u < at /\ u \in Nat
      BY <1>1, <1>3
    <3>3. v # at
      BY <3>1, <3>2, <1>2
    <3>4. QED
      BY <3>1, <3>2, <3>3, <1>1, <1>3, <1>5
  <2>3. CASE w = at
    <3>1. loc[v] \cap loc[s] # {}
      BY <2>1, <2>2, <2>3, <1>5
    <3>2. CASE v = s
      BY <3>2, <2>3, <1>b
    <3>3. CASE v < s
      <4>1. End(block, v) < s \/ End(block, v) = s
        BY <3>1, <3>3, <2>2, <1>b DEF NoSharing, Placed
      <4>2. QED
        BY <4>1, <2>2, <2>3, <1>b, <1>2
    <3>4. CASE s < v
      <4>1. End(block, s) < v \/ End(block, s) = v
        BY <3>1, <3>4, <2>2, <1>b DEF NoSharing, Placed
      <4>2. QED
        BY <4>1, <2>2, <1>b, <1>2
    <3>5. QED
      BY <3>2, <3>3, <3>4, <2>2, <1>b
  <2>4. CASE w \in Placed
    BY <2>1, <2>2, <2>4, <1>3, <1>5 DEF NoSharing, Placed
  <2>5. QED
    BY <2>3, <2>4, <1>3
<1>13. QED
  BY <1>a, <1>9, <1>10, <1>11, <1>12

\* Frame cells up to three above the cursor exist.
LEMMA FrameRoom ==
  ASSUME Inv, at \in Range(block)
  PROVE  /\ cursor \in Nat
         /\ \A i \in 1 .. 3 : <<"slot", cursor + i>> \in Cell \ RegCell
<1>1. /\ at \in 1 .. Len(block.nodes) /\ Len(block.nodes) \in 0 .. MaxLen /\ MaxLen \in Nat
  BY BlockFacts, ScanAssumption DEF Inv, Range
<1>2. cursor \in Nat /\ cursor <= Saved + 3 * (at - 1)
  BY DEF Inv, Inductive, TypeOK, ScanInv, Frame
<1>3. \A i \in 1 .. 3 : cursor + i \in Slot
  BY <1>1, <1>2 DEF Slot, Saved
<1>4. QED
  BY <1>2, <1>3, Cells

\* alloc_spill_slot and alloc_spill_slot_16 hand out fresh cells.
LEMMA TakeSlotStep ==
  ASSUME Inv, at \in Range(block), TakeSlot, at' = at + 1, UNCHANGED <<block, ip, holds>>
  PROVE  Inv'
<1> DEFINE S == {<<"slot", cursor + 1>>}
<1> DEFINE k == cursor + 1
<1>1. cursor \in Nat /\ S \subseteq Cell \ RegCell
  BY FrameRoom
<1>2. \A s \in S : cursor < s[2] /\ s[2] <= k
  BY <1>1
<1>3. k \in Nat /\ cursor' = k /\ cursor <= k /\ k <= cursor + 3
  BY <1>1 DEF TakeSlot
<1>4. loc' = [loc EXCEPT ![at] = S] /\ free' = Freed /\ active' = Alive
  BY DEF TakeSlot
<1> HIDE DEF S, k
<1>5. QED
  BY <1>1, <1>2, <1>3, <1>4, FrameStep

\* Taking an aligned spill slot of 16 bytes keeps the invariant.
LEMMA TakeSlot16Step ==
  ASSUME Inv, at \in Range(block), TakeSlot16, at' = at + 1, UNCHANGED <<block, ip, holds>>
  PROVE  Inv'
<1> DEFINE a == cursor + (cursor % 2)
<1> DEFINE S == {<<"slot", a + 1>>, <<"slot", a + 2>>}
<1> DEFINE k == a + 2
<1>1. cursor \in Nat /\ \A i \in 1 .. 3 : <<"slot", cursor + i>> \in Cell \ RegCell
  BY FrameRoom
<1>2. a \in Nat /\ (a = cursor \/ a = cursor + 1)
  BY <1>1
<1>3. S \subseteq Cell \ RegCell
  <2>1. CASE a = cursor
    BY <2>1, <1>1
  <2>2. CASE a = cursor + 1
    <3>1. a + 1 = cursor + 2 /\ a + 2 = cursor + 3
      BY <2>2, <1>1
    <3>2. QED
      BY <3>1, <1>1
  <2>3. QED
    BY <2>1, <2>2, <1>2
<1>4. /\ loc' = [loc EXCEPT ![at] = S] /\ free' = Freed /\ active' = Alive
      /\ cursor' = k
  BY DEF TakeSlot16
<1> HIDE DEF a
<1>5. \A s \in S : cursor < s[2] /\ s[2] <= k
  BY <1>1, <1>2
<1>6. k \in Nat /\ cursor <= k /\ k <= cursor + 3
  BY <1>1, <1>2
<1> HIDE DEF S, k
<1>7. QED
  BY <1>3, <1>4, <1>5, <1>6, FrameStep

\* An instruction that needs no location keeps the invariant.
LEMMA SkipStep == ASSUME Inv, Skip PROVE Inv'
<1> USE DEF Inv, Inductive
<1>1. /\ at \in Range(block) /\ at' = at + 1 /\ block' = block /\ loc' = loc /\ free' = free
      /\ active' = active /\ cursor' = cursor /\ ip' = ip /\ holds' = holds
  BY DEF Skip
<1>2. /\ at \in Nat /\ Size \in Nat /\ at <= Size /\ at >= 1 /\ at \in Pos
      /\ Placed' = Placed \cup {at} /\ at \notin Placed /\ Placed \subseteq Pos \cap Nat
  BY <1>1, Advance
<1>3. \A v \in Placed : v < at /\ End(block, v) \in Nat
  BY <1>1, FreedFacts
<1>4. loc[at] = {}
  BY <1>2 DEF ScanInv, Unplaced
<1>5. TypeOK'
  BY <1>1, <1>2 DEF TypeOK, Size
<1>6. (ip > 1 => at = Size + 1)'
  BY <1>1, <1>2 DEF Size, TypeOK
<1>7. ScanInv'
  <2>1. Unplaced'
    BY <1>1, <1>2 DEF ScanInv, Unplaced
  <2>2. Tracked'
    BY <1>1, <1>2, <1>3, <1>4 DEF ScanInv, Tracked
  <2>3. Entries' /\ Owned'
    BY <1>1, <1>2 DEF ScanInv, Entries, Owned
  <2>4. Frame'
    <3>1. \A v \in Placed' : \A d \in loc[v] \ RegCell : d[2] <= cursor
      BY <1>2, <1>4 DEF ScanInv, Frame
    <3>2. QED
      BY <3>1, <1>1, <1>2 DEF ScanInv, Frame, TypeOK, Saved
  <2>5. QED
    BY <2>1, <2>2, <2>3, <2>4 DEF ScanInv
<1>8. NoSharing'
  <2>1. \A v, w \in Placed' : loc[v] \cap loc[w] # {} => v \in Placed /\ w \in Placed
    BY <1>2, <1>4
  <2>2. QED
    BY <2>1, <1>1 DEF NoSharing, Placed
<1>9. QED
  BY <1>1, <1>5, <1>6, <1>7, <1>8

\* A constant that is rebuilt at its uses keeps the invariant.
LEMMA RematerialiseStep == ASSUME Inv, Rematerialise PROVE Inv'
<1>1. /\ at \in Range(block) /\ at' = at + 1 /\ UNCHANGED <<block, ip, holds>> /\ loc' = loc
      /\ cursor' = cursor /\ free' = Freed /\ active' = Alive
  BY DEF Rematerialise
<1>2. at \in Pos /\ at \notin Placed
  BY <1>1, Advance
<1>3. loc[at] = {} /\ loc \in [Pos -> SUBSET Cell] /\ cursor \in Nat
  BY <1>2 DEF Inv, Inductive, ScanInv, Unplaced, TypeOK
<1>4. loc' = [loc EXCEPT ![at] = {}]
  BY <1>1, <1>2, <1>3
<1> DEFINE S == {}
<1>5. S \subseteq Cell \ RegCell /\ \A s \in S : cursor < s[2] /\ s[2] <= cursor
  OBVIOUS
<1>6. cursor <= cursor /\ cursor <= cursor + 3
  BY <1>3
<1>7. QED
  BY <1>1, <1>3, <1>4, <1>5, <1>6, FrameStep

\* A value given a register or a spill slot keeps the invariant.
LEMMA PlaceStep == ASSUME Inv, PlaceVector \/ Place PROVE Inv'
<1>1. at \in Range(block) /\ at' = at + 1 /\ UNCHANGED <<block, ip, holds>>
  BY DEF PlaceVector, Place
<1>2. \/ \E c \in Freed : Take(c)
      \/ TakeSlot
      \/ TakeSlot16
  BY DEF PlaceVector, Place, Safe
<1>3. CASE \E c \in Freed : Take(c)
  BY <1>1, <1>3, TakeStep
<1>4. CASE TakeSlot
  BY <1>1, <1>4, TakeSlotStep
<1>5. CASE TakeSlot16
  BY <1>1, <1>5, TakeSlot16Step
<1>6. QED
  BY <1>2, <1>3, <1>4, <1>5

\* The emitted code changes no bookkeeping of the allocator.
LEMMA RunStep == ASSUME Inv, Run PROVE Inv'
<1> USE DEF Inv, Inductive
<1>1. /\ at = Size + 1 /\ ip \in Range(block) /\ ip' = ip + 1
      /\ UNCHANGED <<block, at, loc, free, active, cursor>>
      /\ holds' = [c \in Cell |-> CASE c \in loc[ip] -> Result
                                    [] c \notin loc[ip] /\ c \in block.nodes[ip].clobbers -> {}
                                    [] OTHER -> holds[c]]
  BY DEF Run
<1>2. ip \in 1 .. Size /\ Size \in Nat /\ ip \in Pos
  BY <1>1, BlockFacts DEF Range, Size, Pos
<1>3. Result \subseteq Pos
  BY <1>2 DEF Result, Held
<1>4. holds' \in [Cell -> SUBSET Pos]
  <2>1. ASSUME NEW c \in Cell
        PROVE  (CASE c \in loc[ip] -> Result
                  [] c \notin loc[ip] /\ c \in block.nodes[ip].clobbers -> {}
                  [] OTHER -> holds[c]) \in SUBSET Pos
    BY <1>3 DEF TypeOK
  <2>2. QED
    BY <1>1, <2>1
<1>5. TypeOK'
  BY <1>1, <1>2, <1>4 DEF TypeOK, Size
<1>6. ScanInv' /\ NoSharing'
  BY <1>1 DEF ScanInv, Unplaced, Tracked, Entries, Owned, Frame, Placed, NoSharing
<1>7. QED
  BY <1>1, <1>5, <1>6 DEF Size

\* Every step of the scan keeps the invariant.
LEMMA NextInv == Inv /\ [Next]_vars => Inv'
<1> SUFFICES ASSUME Inv, [Next]_vars PROVE Inv'
  OBVIOUS
<1>1. CASE Skip
  BY <1>1, SkipStep
<1>2. CASE Rematerialise
  BY <1>2, RematerialiseStep
<1>3. CASE PlaceVector \/ Place
  BY <1>3, PlaceStep
<1>4. CASE Inherit
  BY <1>4, InheritStep
<1>5. CASE Run
  BY <1>5, RunStep
<1>6. CASE UNCHANGED vars
  BY <1>6 DEF vars, Inv, Inductive, TypeOK, Size, ScanInv, Unplaced, Tracked, Entries, Owned,
             Frame, Placed, NoSharing
<1>7. QED
  BY <1>1, <1>2, <1>3, <1>4, <1>5, <1>6 DEF Next, Done

\* Every behaviour of linear_scan and of the code emitted from it keeps the
\* types: locations are registers of the pools or cells of the frame.
THEOREM ScanTypeOK == Spec => []TypeOK
<1>1. Inv => TypeOK
  BY DEF Inv, Inductive
<1>2. QED
  BY <1>1, InitInv, NextInv, PTL DEF Spec

\* linear_scan never lets two live values share a register or a spill slot,
\* whatever the block, the pools and the clobbers.
THEOREM ScanNoSharing == Spec => []NoSharing
<1>1. Inv => NoSharing
  BY DEF Inv, Inductive
<1>2. QED
  BY <1>1, InitInv, NextInv, PTL DEF Spec

-----------------------------------------------------------------------------
(* The emitted code.                                                       *)

\* What forwarding leaves, and the clobber table: see Clean.
CleanBlocks == \A b \in Blocks : Clean(b)

InvRun == Inv /\ Survives /\ Kept

\* Before the scan nothing is held that could be lost.
LEMMA InitRun == Init => InvRun
<1> SUFFICES ASSUME Init PROVE InvRun
  OBVIOUS
<1>1. Inv
  BY InitInv
<1>2. Survives /\ Kept
  BY DEF Init, Survives, Kept, Placed
<1>3. QED
  BY <1>1, <1>2 DEF InvRun

\* No location is given to a value that its interior clobbers destroy: a
\* register is checked, a frame cell is no register, and what a copy or a
\* two-address node takes over is safe in a Clean block.
LEMMA PlacedSurvives ==
  ASSUME CleanBlocks, Inv, Survives,
         Skip \/ Rematerialise \/ PlaceVector \/ Inherit \/ Place
  PROVE  Survives'
<1>1. /\ at \in Range(block) /\ at' = at + 1 /\ block' = block /\ block \in Blocks
  BY DEF Skip, Rematerialise, PlaceVector, Inherit, Place, Inv
<1>2. /\ at \in Pos /\ Placed' = Placed \cup {at} /\ at \notin Placed /\ Placed \subseteq Pos
  BY <1>1, Advance
<1>3. loc \in [Pos -> SUBSET Cell] /\ loc[at] = {}
  BY <1>2 DEF Inv, Inductive, TypeOK, ScanInv, Unplaced
<1>4. Interior(block, at) \subseteq RegCell
  BY <1>1, InteriorFacts
<1>5. SUFFICES /\ loc'[at] \cap Interior(block, at) = {}
               /\ \A v \in Placed : loc'[v] = loc[v]
  BY <1>1, <1>2 DEF Survives
<1>6. CASE Skip \/ Rematerialise
  BY <1>3, <1>6 DEF Skip, Rematerialise
<1>7. CASE PlaceVector \/ Place
  <2>1. \/ \E c \in Freed : c \notin Interior(block, at) /\ Take(c)
        \/ TakeSlot
        \/ TakeSlot16
    BY <1>7 DEF PlaceVector, Place, Safe
  <2>2. CASE \E c \in Freed : c \notin Interior(block, at) /\ Take(c)
    BY <2>2, <1>2, <1>3 DEF Take
  <2>3. CASE TakeSlot \/ TakeSlot16
    <3>1. /\ \A c \in loc'[at] : c[1] = "slot"
          /\ \A v \in Placed : loc'[v] = loc[v]
      BY <2>3, <1>2, <1>3 DEF TakeSlot, TakeSlot16
    <3>2. \A c \in RegCell : c[1] # "slot"
      BY DEF RegCell
    <3>3. QED
      BY <3>1, <3>2, <1>4
  <2>4. QED
    BY <2>1, <2>2, <2>3
<1>8. CASE Inherit
  <2>1. loc' = [loc EXCEPT ![at] = loc[Source]] /\ Inherits
    BY <1>8 DEF Inherit
  <2>2. loc'[at] = loc[Source] /\ \A v \in Placed : loc'[v] = loc[v]
    BY <2>1, <1>2, <1>3
  <2>3. Clean(block)
    BY <1>1 DEF CleanBlocks
  <2>4. CASE block.nodes[at].kind = "id"
    BY <2>2, <2>3, <2>4, <1>1 DEF Clean
  <2>5. CASE block.nodes[at].kind = "two"
    <3>1. PICK r \in Gpr : loc[Source] = {<<"gpr", r>>}
      BY <2>1, <2>5 DEF Inherits
    <3>2. Interior(block, at) \cap ({"gpr"} \X Gpr) = {}
      BY <2>3, <2>5, <1>1 DEF Clean
    <3>3. QED
      BY <3>1, <3>2, <2>2
  <2>6. QED
    BY <2>1, <2>4, <2>5 DEF Inherits
<1>9. QED
  BY <1>6, <1>7, <1>8

\* One node of the emitted code keeps the values that are read after it.
LEMMA RunKept ==
  ASSUME CleanBlocks, InvRun, Run
  PROVE  Kept'
<1> USE DEF InvRun, Inv, Inductive
<1>1. /\ at = Size + 1 /\ ip \in Range(block) /\ ip' = ip + 1
      /\ block' = block /\ loc' = loc
      /\ holds' = [c \in Cell |-> CASE c \in loc[ip] -> Result
                                    [] c \notin loc[ip] /\ c \in block.nodes[ip].clobbers -> {}
                                    [] OTHER -> holds[c]]
  BY DEF Run
<1>2. /\ ip \in 1 .. Size /\ Size \in Nat /\ Size = Len(block.nodes)
      /\ Range(block) = 1 .. Size /\ Range(block) \subseteq Pos /\ Placed = 1 .. Size
  BY <1>1, BlockFacts DEF Range, Size, Placed
<1>3. loc \in [Pos -> SUBSET Cell] /\ Clean(block)
  BY DEF TypeOK, CleanBlocks
<1>4. SUFFICES ASSUME NEW v \in 1 .. ip, End(block, v) >= ip + 1 \/ v \in block.term,
                      NEW c \in loc[v]
               PROVE  v \in holds'[c]
  <2>1. 1 .. (ip' - 1) = 1 .. ip
    BY <1>1, <1>2
  <2>2. QED
    BY <2>1, <1>1, <1>4 DEF Kept
<1>5. v \in Range(block) /\ v \in Pos /\ c \in Cell /\ ip \in Pos
  BY <1>2, <1>3
<1>6. /\ End(block, v) \in v .. Size
      /\ v \in block.term => End(block, v) = Size
  BY <1>2, <1>5, EndMax
<1>7. /\ c \in loc[ip] => holds'[c] = Result
      /\ c \notin loc[ip] /\ c \in block.nodes[ip].clobbers => holds'[c] = {}
      /\ c \notin loc[ip] /\ c \notin block.nodes[ip].clobbers => holds'[c] = holds[c]
  BY <1>1, <1>5
<1>8. CASE v = ip
  BY <1>4, <1>7, <1>8 DEF Result
<1>9. CASE v < ip
  <2>1. End(block, v) > ip \/ (End(block, v) = ip /\ v \in block.term /\ ip = Size)
    BY <1>2, <1>4, <1>6
  <2>2. \A d \in loc[v] : v \in holds[d]
    BY <2>1, <1>2, <1>5, <1>6, <1>9 DEF Kept
  <2>3. CASE c \in loc[ip]
    <3>1. /\ End(block, v) = ip /\ block.nodes[ip].kind \in {"two", "id"}
          /\ block.nodes[ip].args # <<>> /\ block.nodes[ip].args[1] = v
      BY <2>1, <2>3, <1>2, <1>4, <1>5, <1>6, <1>9 DEF NoSharing, Placed
    <3>2. block.nodes[ip].kind = "id"
      BY <2>1, <3>1, <1>2, <1>3, <1>6, <1>9 DEF Clean
    <3>3. v \in Held(v)
      BY <2>2, <1>4, <1>5 DEF Held
    <3>4. v \in Result
      BY <3>1, <3>2, <3>3 DEF Result
    <3>5. QED
      BY <3>4, <2>3, <1>7
  <2>4. CASE c \notin loc[ip] /\ c \in block.nodes[ip].clobbers
    <3>1. End(block, v) > ip
      BY <2>1, <2>4, <1>2, <1>3, <1>6, <1>9 DEF Clean
    <3>2. block.nodes[ip].clobbers \subseteq Interior(block, v)
      BY <3>1, <1>1, <1>2, <1>5, <1>6, <1>9, InteriorFacts
    <3>3. loc[v] \cap Interior(block, v) = {}
      BY <1>2, <1>5 DEF Survives
    <3>4. QED
      BY <3>2, <3>3, <2>4, <1>4
  <2>5. CASE c \notin loc[ip] /\ c \notin block.nodes[ip].clobbers
    BY <2>2, <2>5, <1>4, <1>7
  <2>6. QED
    BY <2>3, <2>4, <2>5
<1>10. QED
  BY <1>2, <1>8, <1>9

\* For blocks whose operands are defined, every step of scan and run keeps what later
\* operands read.
LEMMA NextRun ==
  ASSUME CleanBlocks, InvRun, [Next]_vars
  PROVE  InvRun'
<1>1. Inv' /\ Inv
  BY NextInv DEF InvRun
<1>2. CASE Skip \/ Rematerialise \/ PlaceVector \/ Inherit \/ Place
  <2>1. Survives'
    BY <1>1, <1>2, PlacedSurvives DEF InvRun
  <2>2. at \in Range(block) /\ ip' = ip
    BY <1>2 DEF Skip, Rematerialise, PlaceVector, Inherit, Place
  <2>3. ip = 1
    <3>1. Len(block.nodes) \in Nat /\ at \in 1 .. Len(block.nodes)
      BY <2>2, BlockFacts, <1>1 DEF Inv, Range
    <3>2. ip \in 1 .. (Len(block.nodes) + 1) /\ (ip > 1 => at = Len(block.nodes) + 1)
      BY <1>1 DEF Inv, Inductive, TypeOK, Size
    <3>3. QED
      BY <3>1, <3>2
  <2>4. Kept'
    BY <2>2, <2>3 DEF Kept
  <2>5. QED
    BY <2>1, <2>4, <1>1 DEF InvRun
<1>3. CASE Run
  <2>1. Kept'
    BY <1>3, RunKept
  <2>2. Survives'
    BY <1>3 DEF InvRun, Run, Survives, Placed
  <2>3. QED
    BY <2>1, <2>2, <1>1 DEF InvRun
<1>4. CASE UNCHANGED vars
  <2>1. Survives' /\ Kept'
    BY <1>4 DEF vars, InvRun, Survives, Kept, Placed
  <2>2. QED
    BY <2>1, <1>1 DEF InvRun
<1>5. QED
  BY <1>2, <1>3, <1>4 DEF Next, Done

\* What the instructions read is still held where the scan placed it.
LEMMA RunReads == InvRun => OperandsIntact
<1> SUFFICES ASSUME InvRun, at = Size + 1, NEW v \in Reads, NEW c \in loc[v]
             PROVE  v \in holds[c]
  BY DEF OperandsIntact
<1>1. /\ block \in Blocks /\ Size \in Nat /\ Range(block) = 1 .. Size
      /\ ip \in 1 .. (Size + 1) /\ Size = Len(block.nodes)
  BY BlockFacts DEF InvRun, Inv, Inductive, TypeOK, Size, Range
<1>2. CASE ip \in Range(block)
  <2>1. v \in Operands(block.nodes[ip])
    BY <1>2 DEF Reads
  <2>2. v \in 1 .. (ip - 1)
    BY <2>1, <1>1, <1>2, BlockFacts
  <2>3. v \in Range(block) /\ ip \in Nat
    BY <2>2, <1>1, <1>2
  <2>4. ip <= End(block, v) /\ End(block, v) \in v .. Size
    BY <2>1, <2>3, <1>1, <1>2, EndMax
  <2>5. End(block, v) >= ip
    BY <2>2, <2>3, <2>4, <1>1
  <2>6. QED
    BY <2>2, <2>5 DEF InvRun, Kept
<1>3. CASE ip \notin Range(block)
  <2>1. v \in block.term /\ ip = Size + 1
    BY <1>1, <1>3 DEF Reads
  <2>2. v \in 1 .. (ip - 1)
    BY <2>1, <1>1, BlockFacts
  <2>3. QED
    BY <2>1, <2>2 DEF InvRun, Kept
<1>4. QED
  BY <1>2, <1>3

\* Where every block is Clean, the code emitted with the result of linear_scan
\* reads each operand intact, whatever the pools, the clobber table and the
\* choice among free registers.
THEOREM ScanOperandsIntact ==
  ASSUME CleanBlocks
  PROVE  Spec => []OperandsIntact
<1>1. Init => InvRun
  BY InitRun
<1>2. InvRun /\ [Next]_vars => InvRun'
  BY NextRun
<1>3. InvRun => OperandsIntact
  BY RunReads
<1>4. QED
  BY <1>1, <1>2, <1>3, PTL DEF Spec
=============================================================================

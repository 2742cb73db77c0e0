---------------------------- MODULE MCCodeCache ----------------------------
(***************************************************************************)
(* Three block addresses in a 16-byte address space (PCs are multiples of  *)
(* 4), two dispatch slots, so two of the PCs collide.                      *)
(***************************************************************************)
EXTENDS CodeCache, Bitwise

MCPc == {0, 4, 8}
MCSlot == {0, 1}
\* dispatch_index with DISPATCH_BITS = 1: (pc >> 2) ^ (pc >> 3), masked.
MCIndex == [p \in Pc |-> ((p \div 4) ^^ (p \div 8)) % 2]

Targets(a, b) == [k \in Chain |-> IF k = "taken" THEN a ELSE b]

Blk(src, targets, size, thunk) ==
  [src |-> src, targets |-> targets, size |-> size, thunk |-> thunk]

\* At 0: a conditional branch to 8 or 4.  At 4: a followed branch to the top word
\* of the address space (two ranges), whose end wraps to 0, and both chain sites
\* lead to 8.  At 8: a branch back to 0 or to itself.
MCXlat ==
  [p \in Pc |->
     CASE p = 0 -> {Blk({<<0, 4>>}, Targets(8, 4), 1, "XmmFree")}
       [] p = 4 -> {Blk({<<4, 8>>, <<12, 0>>}, Targets(8, 8), 1, "Full")}
       [] p = 8 -> {Blk({<<8, 12>>}, Targets(0, 8), 1, "XmmFree")}]

\* What the embedder installs at 8 is longer and has no chain sites.
MCForeign ==
  [p \in Pc |-> IF p = 8 THEN {Blk({<<8, 12>>}, Targets(EMPTY_PC, EMPTY_PC), 2, "Full")}
                ELSE {}]

\* One word, one byte, two words, a range that overflows u64, and an empty
\* range inside a block.
MCInvalidateArgs == {<<0, 4>>, <<13, 1>>, <<7, 5>>, <<12, 4>>, <<6, 0>>}

\* The hash table visits the PCs upwards or downwards.
MCOrder == {[p \in Pc |-> p], [p \in Pc |-> MaxAddr - p]}

=============================================================================

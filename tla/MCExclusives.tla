---------------------------- MODULE MCExclusives ----------------------------
(***************************************************************************)
(* Two threads and a quadword of two 2-bit doublewords.  A workload names  *)
(* the callback, whether the page may be direct, whether the embedder may  *)
(* fault, and the instructions each thread repeats in any order.           *)
(***************************************************************************)
EXTENDS Exclusives

CONSTANTS a, b

I(mn, op, wide, at, exp, val) ==
  [mn |-> mn, op |-> op, wide |-> wide, at |-> at, exp |-> exp, val |-> val]

Ldxr(at) == I("LDXR", "Cas", FALSE, at, <<>>, <<>>)
Stxr(at, v) == I("STXR", "Cas", FALSE, at, <<>>, <<v>>)
Ldar(at) == I("LDAR", "Cas", FALSE, at, <<>>, <<>>)
Stlr(at, v) == I("STLR", "Cas", FALSE, at, <<>>, <<v>>)
Lse(op, at, v) == I("LSE", op, FALSE, at, <<>>, <<v>>)
Cas(at, e, v) == I("CAS", "Cas", FALSE, at, <<e>>, <<v>>)
Ldxp(wide) == I("LDXP", "Cas", wide, 0, <<>>, <<>>)
Stxp(wide, v, w) == I("STXP", "Cas", wide, 0, <<>>, <<v, w>>)
Casp(wide, e, f, v, w) == I("CASP", "Cas", wide, 0, <<e, f>>, <<v, w>>)
Clrex == I("CLREX", "Cas", FALSE, 0, <<>>, <<>>)

W(callback, dir, faults, x, y) ==
  [callback |-> callback, direct |-> dir, faults |-> faults,
   insns |-> [t \in {a, b} |-> IF t = a THEN x ELSE y]]

MCWorkload == {
  \* retry loops, exclusives and plain stores on one doubleword, page remapped
  W("host", TRUE, FALSE, {Ldxr(0), Stxr(0, 2), Lse("Smax", 0, 1)}, {Lse("Eor", 0, 3), Stlr(0, 3)}),
  W("host", TRUE, FALSE, {Lse("Add", 0, 1), Lse("Umin", 0, 2)}, {Lse("Clr", 0, 1), Lse("Set", 0, 2), Cas(0, 1, 3)}),
  W("host", TRUE, FALSE, {Lse("Smin", 0, 2), Ldxp(FALSE), Stxp(FALSE, 3, 1)}, {Lse("Umax", 0, 1), Casp(FALSE, 2, 3, 1, 2)}),
  \* a quadword and its halves
  W("host", TRUE, FALSE, {Ldxp(TRUE), Stxp(TRUE, 1, 2), Ldxr(0), Stxr(0, 3)}, {Lse("Eor", 1, 3), Casp(TRUE, 1, 2, 3, 0)}),
  \* the lock, with and without faults
  W("misaligned", FALSE, FALSE, {Ldxp(TRUE), Stxp(TRUE, 1, 2)}, {Casp(TRUE, 1, 2, 3, 0), Lse("Swp", 1, 1)}),
  W("default", FALSE, TRUE, {Ldxr(0), Stxr(0, 1), Clrex}, {Lse("Smin", 0, 3), Cas(0, 3, 0)}),
  W("default", FALSE, TRUE, {Ldxr(0), Stxr(0, 1), Ldar(1)}, {Ldxp(TRUE), Stxp(TRUE, 2, 2)}),
  W("host", TRUE, TRUE, {Ldxr(0), Stxr(0, 1), Stlr(0, 2)}, {Lse("Add", 0, 3)}) }
=============================================================================

------------------------------- MODULE Words -------------------------------
(***************************************************************************)
(* Machine words of w bits as the naturals 0 .. 2^w - 1, with the bitwise  *)
(* and signed views that Rust's integer operators and the x86 instructions *)
(* give them.                                                              *)
(***************************************************************************)
EXTENDS Integers

Word(w) == 0 .. (2^w - 1)
Ones(w) == 2^w - 1
Trunc(a, w) == a % 2^w
Bit(a, i) == (a \div 2^i) % 2
Msb(a, w) == Bit(a, w - 1)

\* The word whose bit i is F(i).
FromBits(w, F(_)) ==
  LET low[n \in 0 .. w] == IF n = 0 THEN 0 ELSE low[n - 1] + 2^(n - 1) * F(n - 1)
  IN  low[w]

And(a, b, w) == FromBits(w, LAMBDA i : Bit(a, i) * Bit(b, i))
Or(a, b, w) == FromBits(w, LAMBDA i : IF Bit(a, i) + Bit(b, i) = 0 THEN 0 ELSE 1)
Xor(a, b, w) == FromBits(w, LAMBDA i : (Bit(a, i) + Bit(b, i)) % 2)
Not(a, w) == Ones(w) - Trunc(a, w)

\* Two's complement.
Signed(a, w) == IF Msb(a, w) = 1 THEN Trunc(a, w) - 2^w ELSE Trunc(a, w)
Sext(a, from, to) == Trunc(Signed(a, from), to)
=============================================================================

----------------------------- MODULE HostVectors -----------------------------
(***************************************************************************)
(* The vector instructions of the host that the emitted code uses, in the  *)
(* scale of Ir: a byte is one bit, so that an XMM register has 16 bits and *)
(* lanes of 1, 2, 4 and 8 bits.  They are external to the program.         *)
(*                                                                         *)
(* An instruction is <<op, w, d, s>>: it writes register d from d and s.   *)
(* w is its lane width, or the order of a shuffle or the count of palignr; *)
(* for an op of Immediates s is a value and no register.                   *)
(***************************************************************************)
EXTENDS Words, Sequences

\* Nibble tables: TLC computes them once.
Pairs == Word(4) \X Word(4)
AndTable == [p \in Pairs |-> And(p[1], p[2], 4)]
XorTable == [p \in Pairs |-> Xor(p[1], p[2], 4)]
BitAnd(a, b) == 16 * AndTable[a \div 16, b \div 16] + AndTable[a % 16, b % 16]
BitXor(a, b) == 16 * XorTable[a \div 16, b \div 16] + XorTable[a % 16, b % 16]
BitOr(a, b) == a + b - BitAnd(a, b)
And128(a, b) == 256 * BitAnd(a \div 256, b \div 256) + BitAnd(a % 256, b % 256)
Xor128(a, b) == 256 * BitXor(a \div 256, b \div 256) + BitXor(a % 256, b % 256)

Lane(v, i, w) == (v \div 2^(i * w)) % 2^w
Lanes(w, F(_)) ==
  LET sum[i \in 0 .. (16 \div w)] == IF i = 0 THEN 0 ELSE sum[i - 1] + F(i - 1) * 2^((i - 1) * w)
  IN  sum[16 \div w]

Immediates == {"psll", "psrl", "psra", "pslldq", "psrldq", "movg", "pinsr", "control"}

\* One lane of an instruction that treats every lane alike.
Lanewise == {"padd", "psub", "psubus", "pmull", "pcmpeq", "pcmpgt", "pabs", "pmins", "pmaxs",
             "pminu", "pmaxu"}
OnLane(op, a, b, w) ==
  CASE op = "padd" -> Trunc(a + b, w)
    [] op = "psub" -> Trunc(a - b, w)
    [] op = "psubus" -> IF a < b THEN 0 ELSE a - b
    [] op = "pmull" -> Trunc(a * b, w)
    [] op = "pcmpeq" -> IF a = b THEN Ones(w) ELSE 0
    [] op = "pcmpgt" -> IF Signed(a, w) > Signed(b, w) THEN Ones(w) ELSE 0
    [] op = "pabs" -> IF Signed(b, w) < 0 THEN Trunc(-Signed(b, w), w) ELSE b
    [] op = "pmins" -> IF Signed(a, w) < Signed(b, w) THEN a ELSE b
    [] op = "pmaxs" -> IF Signed(a, w) > Signed(b, w) THEN a ELSE b
    [] op = "pminu" -> IF a < b THEN a ELSE b
    [] op = "pmaxu" -> IF a > b THEN a ELSE b

\* A count of the lane width or more shifts everything out.
Shifts == {"psll", "psrl", "psra"}
ShiftLane(op, a, n, w) ==
  CASE op = "psll" -> IF n >= w THEN 0 ELSE Trunc(a * 2^n, w)
    [] op = "psrl" -> IF n >= w THEN 0 ELSE a \div 2^n
    [] op = "psra" -> Trunc(Signed(a, w) \div 2^(IF n >= w THEN w - 1 ELSE n), w)

Clamp(v, low, high) == IF v < low THEN low ELSE IF v > high THEN high ELSE v
\* Lane i of the pair x, y that the pack instructions narrow: lanes of 2 w to lanes of w.
Half(w) == 16 \div (2 * w)
PackLane(x, y, i, w) == Signed(IF i < Half(w) THEN Lane(x, i, 2 * w)
                               ELSE Lane(y, i - Half(w), 2 * w), 2 * w)

Host(op, w, x, y) ==
  CASE op \in Lanewise -> Lanes(w, LAMBDA i : OnLane(op, Lane(x, i, w), Lane(y, i, w), w))
    [] op \in Shifts -> Lanes(w, LAMBDA i : ShiftLane(op, Lane(x, i, w), y, w))
    [] op = "movdqa" -> y
    [] op = "movq" -> y % 256
    [] op = "movg" -> Trunc(y, w)                          \* movd and movq from a register
    [] op = "pinsr" -> Lanes(w, LAMBDA i : IF i = y[1] THEN Trunc(y[2], w) ELSE Lane(x, i, w))
    [] op = "pxor" -> Xor128(x, y)
    [] op = "pand" -> And128(x, y)
    [] op = "pandn" -> And128(65535 - x, y)
    [] op = "por" -> x + y - And128(x, y)
    [] op = "pmuludq" -> Lanes(8, LAMBDA i : Lane(x, 2 * i, 4) * Lane(y, 2 * i, 4))
    [] op = "phaddd" ->
         Lanes(4, LAMBDA i : LET z == IF i < 2 THEN x ELSE y
                             IN  Trunc(Lane(z, 2 * (i % 2), 4) + Lane(z, 2 * (i % 2) + 1, 4), 4))
    [] op = "pslldq" -> Trunc(x * 2^y, 16)
    [] op = "psrldq" -> x \div 2^y
    [] op = "palignr" -> IF w = 0 THEN y ELSE (y \div 2^w) + Trunc(x * 2^(16 - w), 16)
    [] op = "punpckl" -> Lanes(w, LAMBDA i : Lane(IF i % 2 = 0 THEN x ELSE y, i \div 2, w))
    [] op = "punpckh" -> Lanes(w, LAMBDA i : Lane(IF i % 2 = 0 THEN x ELSE y, Half(w) + (i \div 2), w))
    [] op = "pshufd" -> Lanes(4, LAMBDA i : Lane(y, w[i + 1], 4))
    [] op = "pshuflw" -> Lanes(2, LAMBDA i : IF i < 4 THEN Lane(y, w[i + 1], 2) ELSE Lane(y, i, 2))
    [] op = "pshufhw" -> Lanes(2, LAMBDA i : IF i < 4 THEN Lane(y, i, 2) ELSE Lane(y, 4 + w[i - 3], 2))
    [] op = "control" -> y                                 \* the control operand of pshufb
    [] op = "pshufb" -> Lanes(1, LAMBDA i : IF y[i] < 0 THEN 0 ELSE Lane(x, y[i], 1))
    [] op = "pmovsx" -> Lanes(2 * w, LAMBDA i : Sext(Lane(y, i, w), w, 2 * w))
    [] op = "pmovzx" -> Lanes(2 * w, LAMBDA i : Lane(y, i, w))
    [] op = "packss" -> Lanes(w, LAMBDA i : Trunc(Clamp(PackLane(x, y, i, w), -(2^(w - 1)), 2^(w - 1) - 1), w))
    [] op = "packus" -> Lanes(w, LAMBDA i : Clamp(PackLane(x, y, i, w), 0, Ones(w)))

\* The register file after the instructions of code.
RunHost(regs, code) ==
  LET go[k \in 0 .. Len(code)] ==
        IF k = 0 THEN regs
        ELSE LET op == code[k][1]
                 d == code[k][3]
                 s == code[k][4]
                 R == go[k - 1]
             IN  [R EXCEPT ![d] = Host(op, code[k][2], R[d],
                                       IF op \in Immediates THEN s ELSE R[s])]
  IN  go[Len(code)]
=============================================================================

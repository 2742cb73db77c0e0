------------------------------ MODULE MCPipeline ------------------------------
(***************************************************************************)
(* Guest code for Pipeline: every instruction alone over small fields, and *)
(* sequences over a pool in which the values, flags and constants of one   *)
(* instruction reach the next.                                             *)
(***************************************************************************)
EXTENDS Pipeline

Sizes == {"W", "X"}
Low == {0, 1, 2}
LowZ == {1, 31}

-----------------------------------------------------------------------------
(* Instructions alone.                                                     *)

\* SUBS and ADDS read register 31 as zero where the architecture says SP, and a W write of
\* SP of an unchanged W value keeps the upper half: see the README.
Diverges(i) ==
  \/ i.k \in {"addsub_imm", "addsub_ext"} /\ i.s /\ i.rn = 31
  \/ i.k = "addsub_imm" /\ i.size = "W" /\ i.rd = 31 /\ ~i.s /\ i.imm = 0
  \/ i.k = "addsub_ext" /\ i.size = "W" /\ i.rd = 31 /\ ~i.s /\ i.rm = 31

AddSubImm == [k : {"addsub_imm"}, sp : {TRUE}, s : BOOLEAN, sub : BOOLEAN, size : Sizes,
              rn : {0, 31}, rd : LowZ, imm : {0, 1, 3}, sh : {0, 1}]
AddSubShift == [k : {"addsub_shift"}, s : BOOLEAN, sub : BOOLEAN, size : Sizes, rn : {0, 31},
                rd : LowZ, rm : {1}, shift : 0 .. 3, amount : {0, 1, 3, 4, 7, 8}]
AddSubExt == [k : {"addsub_ext"}, sp : {TRUE}, s : BOOLEAN, sub : BOOLEAN, size : Sizes,
              rn : {0, 31}, rd : LowZ, rm : LowZ, option : 0 .. 7, amount : {0, 2, 4, 5}]
AddSubCarry == [k : {"addsub_carry"}, s : BOOLEAN, sub : BOOLEAN, size : Sizes, rn : {0, 31},
                rd : LowZ, rm : {1, 31}]
Bitfields == [k : {"bitfield"}, kind : {"Ubfm", "Sbfm", "Bfm"}, size : Sizes, n : {0, 1},
              rn : {0}, rd : {1}, immr : {0, 1, 3, 4, 7}, imms : {0, 2, 3, 5, 7}]
CondCmps == [k : {"condcmp"}, reg : BOOLEAN, sub : BOOLEAN, size : Sizes, rn : {0}, rm : {1},
             imm : {3}, nzcv : {0, 5, 10}, cond : 0 .. 15]
CondSels == [k : {"condsel"}, kind : {"Csel", "Csinc", "Csinv", "Csneg"}, size : Sizes,
             rn : {0}, rm : {1, 31}, rd : {2}, cond : 0 .. 15]
Dp1 == [k : {"dp_1src"}, kind : {"Clz", "Cls", "Rbit", "Rev16", "Rev32", "Rev64", "Pac"},
        size : Sizes, rn : {0, 1, 31}, rd : {1}]
Dp2 == [k : {"dp_2src"}, op : {"Lsl", "Lsr", "Asr", "Ror", "UDiv", "SDiv"}, size : Sizes,
        rn : {0, 1}, rm : {1, 2, 31}, rd : {0}]
Dp3 == {i \in [k : {"dp_3src"}, kind : {"Mul", "High", "Long"}, size : Sizes, sub : BOOLEAN,
               signed : BOOLEAN, rn : {0}, rm : {1}, ra : {2, 31}, rd : {0}] :
          i.size = "W" => i.kind = "Mul"}
Extracts == [k : {"extract"}, size : Sizes, n : {0, 1}, imms : {0, 1, 3, 5, 7}, rn : {0, 1},
             rm : {1}, rd : {2}]
LogImms == {[k |-> "log_imm", sp |-> TRUE, s |-> o = "Ands", op |-> o, size |-> z, n |-> n,
             imms |-> p, immr |-> q, rn |-> r, rd |-> d] :
               o \in {"And", "Ands", "Orr", "Eor"}, z \in Sizes, n \in {0, 1}, p \in 0 .. 7,
               q \in {0, 1, 3, 6}, r \in {0, 31}, d \in LowZ}
LogShifts == {[k |-> "log_shift", s |-> o \in {"Ands", "Bics"}, op |-> o, size |-> z, rn |-> r,
               rm |-> 1, rd |-> 2, shift |-> h, amount |-> a] :
                 o \in {"And", "Ands", "Bic", "Bics", "Orr", "Orn", "Eor", "Eon"}, z \in Sizes,
                 r \in {0, 31}, h \in 0 .. 3, a \in {0, 1, 3, 4, 7}}
MoveWides == [k : {"movewide"}, kind : {"Z", "N", "K"}, size : Sizes, imm : {0, 1, 3},
              hw : 0 .. 3, rd : LowZ]
PcRels == [k : {"pcreladdr"}, page : BOOLEAN, off : {-3, 0, 5}, rd : LowZ]

\* Store and load of every width and kind; a load that also writes its base is
\* unpredictable in the architecture.
Accesses == {[kind |-> "Store", bytes |-> b, x |-> FALSE] : b \in {1, 2, 4, 8}}
            \cup {[kind |-> "LoadU", bytes |-> b, x |-> FALSE] : b \in {1, 2, 4, 8}}
            \cup {[kind |-> "LoadS", bytes |-> b, x |-> x] : b \in {1, 2, 4}, x \in BOOLEAN}
            \cup {[kind |-> o, bytes |-> b, x |-> FALSE] :
                    o \in {"FpLoad", "FpStore"}, b \in {1, 2, 4, 8, 16}}
LdStImm == {[k |-> "ldst_imm", mode |-> o, kind |-> a.kind, bytes |-> a.bytes, target_x |-> a.x,
             rt |-> t, rn |-> n, imm |-> v] :
               o \in {"pos", "unscaled", "pre", "post"},
               a \in {a \in Accesses : ~(a.kind = "LoadS" /\ a.bytes = 4 /\ ~a.x)},
               t \in {1}, n \in {0, 31}, v \in {0, 3, -5}}
LdStReg == {[k |-> "ldst_regoff", option |-> o, scaled |-> s, kind |-> a.kind,
             bytes |-> a.bytes, target_x |-> a.x, rt |-> 1, rn |-> n, rm |-> m] :
               o \in 0 .. 7, s \in BOOLEAN,
               a \in {a \in Accesses : a.kind # "LoadS" /\ a.bytes \in {1, 8, 16}},
               n \in {0, 31}, m \in {0, 31}}
LdStPair == {i \in [k : {"ldstpair"}, mode : {"off", "pre", "post"},
                    kind : {"Load", "FpLoad", "LoadSw", "Store", "FpStore"},
                    bytes : {4, 8, 16}, rt : {0}, rt2 : {1}, rn : {2, 31}, imm : {-1, 2}] :
               /\ i.kind \in {"Load", "Store"} => i.bytes < 16
               /\ i.kind = "LoadSw" => i.bytes = 4}
LoadLits == {i \in [k : {"loadlit"}, kind : {"Fp", "Gpr", "Sw"}, bytes : {4, 8, 16},
                    off : {-4, 8}, rt : {0, 1}] :
               /\ i.kind = "Gpr" => i.bytes < 16
               /\ i.kind = "Sw" => i.bytes = 4}
Systems == [k : {"ic_system"}, op : {"Mrs", "Msr"}, reg : {"NZCV", "TPIDR"}, rt : {0, 31}]
           \cup [k : {"ic_system"}, op : {"Clrex", "Hint", "MemoryBarrier"}]
           \cup [k : {"ic_system"}, op : {"DcZva"}, rt : {0, 31}]
Fmovs == [k : {"fmov"}, to_v : BOOLEAN, size : Sizes, rn : {0, 1}, rd : {0, 1}]

Bs == [k : {"b"}, link : BOOLEAN, off : {-8, 16}]
      \cup [k : {"br"}, rn : {0, 30}, link : BOOLEAN, ret : {FALSE}, off : {0}]
      \cup [k : {"br"}, rn : {30}, link : {FALSE}, ret : {TRUE}, off : {0}]
      \cup [k : {"exc"}, kind : {"Brk", "Svc", "Hvc"}, imm : {7}]
BConds == [k : {"bcond"}, cond : 0 .. 15, off : {16}]
Cbzs == [k : {"cbz"}, size : Sizes, inverse : BOOLEAN, rt : {0, 1, 31}, off : {16}]
Tbzs == [k : {"tbz"}, rt : {0, 1}, bit : {0, 3, 4, 7}, inverse : BOOLEAN, off : {-12}]
Branching == Bs \cup BConds \cup Cbzs \cup Tbzs

Single ==
  UNION {AddSubImm, AddSubShift, AddSubExt, AddSubCarry, Bitfields, CondCmps, CondSels, Dp1, Dp2,
         Dp3, Extracts, LogImms, LogShifts, MoveWides, PcRels, LdStImm, LdStReg, LdStPair,
         LoadLits, Systems, Fmovs, Branching, [k : {"prfm"}]}
Singles == {<<i>> : i \in {i \in Single : ~Diverges(i)}}

-----------------------------------------------------------------------------
(* Vector instructions alone, on registers 0 and 1 into 0 and 2.  Encodings *)
(* that are reserved but accepted, and defined but not supported, are left  *)
(* out (see the README), and so are those byte lanes on which the optimizer *)
(* composes bit matrices.                                                   *)

Same3 == [k : {"asimd_same"}, lane : 0 .. 3, q : BOOLEAN, rn : {0}, rm : {1}, rd : {0, 2},
          kind : {"Add", "Sub", "Mul", "Mla", "Mls", "And", "Orr", "Eor", "Bic", "Orn", "Cmeq", "Cmgt",
                  "Cmge", "Cmhi", "Cmhs", "Bit", "Bif", "Bsl", "Smin", "Smax", "Umin", "Umax",
                  "Addp", "Smaxp", "Sminp", "Umaxp", "Uminp"}]
Tests == {i \in [k : {"cmtst"}, scalar : BOOLEAN, lane : 0 .. 3, q : BOOLEAN, rn : {0}, rm : {1},
                 rd : {2}] : i.scalar => ~i.q}
InByteMatrix(i) == i.imm = 1 /\ i.kind \notin {"Shl", "Ushr", "Sshr"}
VectorShifts ==
  {i \in [k : {"asimd_shf"}, scalar : {FALSE}, q : BOOLEAN, imm : 0 .. 15, rn : {0}, rd : {0, 2},
          kind : {"Shl", "Ushr", "Sshr", "Sli", "Sri", "Ssra", "Usra", "Srshr", "Urshr", "Srsra",
                  "Ursra", "Sshll", "Ushll"}] : ~InByteMatrix(i)}
  \cup [k : {"asimd_shf"}, scalar : {FALSE}, q : {FALSE}, imm : 0 .. 15, rn : {0}, rd : {2},
        kind : {"Shrn"}]
  \cup [k : {"asimd_shf"}, scalar : {FALSE}, q : {TRUE}, imm : 0 .. 15, rn : {0}, rd : {2},
        kind : {"Shrn2"}]
ScalarShifts ==
  [k : {"asimd_shf"}, scalar : {TRUE}, q : {TRUE}, imm : 0 .. 15, rn : {0}, rd : {2},
   kind : {"Shl", "Ushr", "Sshr", "Sli", "Sri", "Ssra", "Usra", "Srshr", "Urshr", "Srsra", "Ursra"}]
LaneOf5(i) == IF Imm5Reserved(i.imm5) THEN 4 ELSE decode_imm5(i.imm5).lane
ElementMoves ==
  {i \in [k : {"asimd_ins"}, imm5 : 0 .. 31, imm4 : {0, 10}, q : BOOLEAN, rn : {0}, rd : {1},
          kind : {"DupGpr", "DupElem", "DupScalar", "Umov", "Smov", "InsGpr", "InsElem"}] :
     /\ i.kind \in {"InsGpr", "InsElem", "DupScalar"} => i.q
     /\ i.kind # "InsElem" => i.imm4 = 0
     /\ i.kind \in {"DupGpr", "DupElem"} => i.q \/ LaneOf5(i) # 3
     /\ i.kind = "Umov" => (i.q => LaneOf5(i) >= 3)
     /\ i.kind = "Smov" => (~i.q => LaneOf5(i) # 2)}
ByElements ==
  {i \in [k : {"asimd_elem"}, kind : {"Mul", "Mla", "Mls"}, lane : 0 .. 3, h : {0, 1}, l : {0, 1},
          m : {0, 1}, q : BOOLEAN, rn : {0}, rm : {1}, rd : {2}] : i.m = 1 => i.lane = 1}
Immediates3 ==
  [k : {"asimd_imm"}, kind : {"Movi"}, op : {0}, cmode : {0, 2, 4, 6, 8, 10, 12, 13, 14},
   imm : {0, 1}, q : BOOLEAN, rd : {0}]
  \cup [k : {"asimd_imm"}, kind : {"Movi"}, op : {1}, cmode : {14}, imm : {0, 1, 90, 255},
        q : BOOLEAN, rd : {0}]
  \cup [k : {"asimd_imm"}, kind : {"Mvni"}, op : {1}, cmode : {0, 2, 4, 6, 8, 10, 12, 13},
        imm : {0, 1}, q : BOOLEAN, rd : {0}]
  \cup [k : {"asimd_imm"}, kind : {"Orr", "Bic"}, op : {0}, cmode : {1, 3, 5, 7, 9, 11}, imm : {0, 1},
        q : BOOLEAN, rd : {0}]
Permutes ==
  [k : {"ext"}, imm4 : 0 .. 15, q : BOOLEAN, rn : {0}, rm : {1}, rd : {0}]
  \cup {i \in [k : {"perm"}, kind : {"Zip1", "Zip2", "Uzp1", "Uzp2", "Trn1", "Trn2"}, lane : 0 .. 3,
               q : BOOLEAN, rn : {0}, rm : {1}, rd : {2}] : i.lane = 3 => i.q}
Diffs == [k : {"asimd_diff"}, lane : 0 .. 3, q : BOOLEAN, rn : {0}, rm : {1}, rd : {0, 2},
          kind : {"Saddl", "Uaddl", "Ssubl", "Usubl", "Saddw", "Uaddw", "Ssubw", "Usubw", "Smull",
                  "Umull", "Smlal", "Umlal", "Smlsl", "Umlsl"}]
Miscs ==
  {i \in [k : {"asimd_misc"}, lane : 0 .. 3, q : BOOLEAN, rn : {0}, rd : {0, 2},
          kind : {"Neg", "Abs", "Not", "Xtn", "Rev16", "Rev32", "Rev64", "Cmeq0", "Cmgt0", "Cmge0",
                  "Cmle0", "Cmlt0", "Shll", "Clz", "Cls"}] : ~(i.kind = "Abs" /\ i.lane = 3 /\ i.q)}
Across == [k : {"addv"}, lane : {2}, q : {TRUE}, rn : {0}, rd : {1}]
          \cup [k : {"addp"}, rn : {0}, rd : {0, 1}]
Structured ==
  {i \in [k : {"ld_multiple"}, load : BOOLEAN, opcode : {0, 2, 7, 8, 10}, lane : 0 .. 3, q : BOOLEAN,
          post : BOOLEAN, rt : {0, 31}, rn : {0, 31}, rm : {1, 31}] :
     /\ ~i.post => i.rm = 31
     /\ i.rn = 31 => i.post /\ i.rt = 0 /\ i.lane = 2}
  \cup {i \in [k : {"ld_single"}, load : BOOLEAN, r : {0, 1}, opcode : 0 .. 7, s : {0, 1},
               size : 0 .. 3, q : BOOLEAN, post : BOOLEAN, rt : {0}, rn : {0}, rm : {1, 31}] :
           /\ ~i.post => i.rm = 31
           /\ i.post => i.opcode \in {1, 7}}
SingleVector ==
  UNION {Same3, Tests, VectorShifts, ScalarShifts, ElementMoves, ByElements, Immediates3, Permutes,
         Diffs, Miscs, Across, Structured}

-----------------------------------------------------------------------------
(* Sequences.                                                              *)

Imm(s, sub, size, rn, rd, imm) ==
  [k |-> "addsub_imm", sp |-> TRUE, s |-> s, sub |-> sub, size |-> size, rn |-> rn, rd |-> rd,
   imm |-> imm, sh |-> 0]
Shl(kind, size, rd, n) == [k |-> "bitfield", kind |-> kind, size |-> size, n |-> B2N(size = "X"),
                           rn |-> rd, rd |-> rd, immr |-> n, imms |-> Bits(size) - 1]
Shr(size, rn, rm, rd, op) ==
  [k |-> "dp_2src", op |-> op, size |-> size, rn |-> rn, rm |-> rm, rd |-> rd]
MovImm(kind, size, rd, imm, hw) ==
  [k |-> "movewide", kind |-> kind, size |-> size, imm |-> imm, hw |-> hw, rd |-> rd]
Reg2(op, size, rn, rm, rd) ==
  [k |-> "log_shift", s |-> op \in {"Ands", "Bics"}, op |-> op, size |-> size, rn |-> rn,
   rm |-> rm, rd |-> rd, shift |-> 0, amount |-> 0]
Add2(s, sub, size, rn, rm, rd, shift, amount) ==
  [k |-> "addsub_shift", s |-> s, sub |-> sub, size |-> size, rn |-> rn, rm |-> rm, rd |-> rd,
   shift |-> shift, amount |-> amount]
Mul2(sub, size, rn, rm, ra, rd) ==
  [k |-> "dp_3src", kind |-> "Mul", size |-> size, sub |-> sub, signed |-> FALSE, rn |-> rn,
   rm |-> rm, ra |-> ra, rd |-> rd]
Sel(kind, size, rn, rm, rd, cond) ==
  [k |-> "condsel", kind |-> kind, size |-> size, rn |-> rn, rm |-> rm, rd |-> rd, cond |-> cond]
Mem(mode, kind, bytes, rt, rn, imm) ==
  [k |-> "ldst_imm", mode |-> mode, kind |-> kind, bytes |-> bytes, target_x |-> FALSE,
   rt |-> rt, rn |-> rn, imm |-> imm]
Ccmp(rn, imm, cond) ==
  [k |-> "condcmp", reg |-> FALSE, sub |-> TRUE, size |-> "X", rn |-> rn, rm |-> 0, imm |-> imm,
   nzcv |-> 5, cond |-> cond]
Carried(s, sub, size) ==
  [k |-> "addsub_carry", s |-> s, sub |-> sub, size |-> size, rn |-> 0, rm |-> 1, rd |-> 0]

\* Instructions on registers 0 and 1 in which a constant, a value, a flag or a copy of one
\* meets the next one.
Pool ==
  {Imm(s, sub, size, rn, 0, imm) : s \in {FALSE}, sub \in BOOLEAN, size \in Sizes, rn \in {0},
                                   imm \in {0, 1}}
  \cup {Imm(TRUE, TRUE, size, 0, rd, 1) : size \in Sizes, rd \in {0, 31}}
  \cup {Imm(FALSE, FALSE, "X", 31, 0, 1), Imm(FALSE, TRUE, "X", 0, 31, 2)}
  \cup {MovImm("Z", size, 0, imm, 0) : size \in Sizes, imm \in {0, 1, 3}}
  \cup {MovImm("N", "X", 1, 0, 0), MovImm("K", "X", 0, 1, 3), MovImm("N", "W", 0, 1, 1)}
  \cup {Reg2(op, size, 0, 1, 0) : op \in {"And", "Orr", "Eor", "Bics"}, size \in Sizes}
  \cup {Reg2("Orr", size, 31, 0, 1) : size \in Sizes} \cup {Reg2("Eor", "X", 0, 0, 0)}
  \cup {Add2(FALSE, sub, size, 0, 0, 0, 0, n) : sub \in BOOLEAN, size \in Sizes, n \in {0, 1}}
  \cup {Add2(TRUE, TRUE, "W", 0, 1, 31, 0, 0)}
  \cup {Mul2(sub, size, 0, 1, 0, 0) : sub \in BOOLEAN, size \in Sizes}
  \cup {Shl("Ubfm", size, 0, 1) : size \in Sizes} \cup {Shl("Sbfm", "W", 0, 1)}
  \cup {Shr(size, 0, 1, 0, op) : size \in Sizes, op \in {"Lsl", "Ror"}}
  \cup {Shr("X", 0, 1, 0, op) : op \in {"Asr", "UDiv", "SDiv"}}
  \cup {Sel("Csinc", "X", 0, 1, 0, 1), Sel("Csneg", "W", 0, 31, 1, 11)}
  \cup {Ccmp(0, 1, 0), Ccmp(1, 0, 3), Carried(TRUE, FALSE, "X"), Carried(FALSE, TRUE, "W")}
  \cup {Mem("pre", "LoadU", 8, 0, 1, 3), Mem("post", "Store", 4, 0, 31, 8),
        Mem("pos", "LoadU", 4, 1, 0, 1), Mem("pos", "FpStore", 8, 0, 1, 0),
        Mem("unscaled", "FpLoad", 4, 1, 31, -1)}
  \cup {[k |-> "fmov", to_v |-> FALSE, size |-> "W", rn |-> 1, rd |-> 0],
        [k |-> "fmov", to_v |-> TRUE, size |-> "X", rn |-> 0, rd |-> 1],
        [k |-> "ic_system", op |-> "Mrs", reg |-> "NZCV", rt |-> 1],
        [k |-> "ldstpair", mode |-> "post", kind |-> "LoadSw", bytes |-> 4, rt |-> 0, rt2 |-> 1,
         rn |-> 31, imm |-> 1],
        [k |-> "dp_1src", kind |-> "Pac", size |-> "X", rn |-> 0, rd |-> 0],
        [k |-> "dp_1src", kind |-> "Clz", size |-> "W", rn |-> 0, rd |-> 1]}
\* Vector instructions whose operands are written by the one before, with moves between the
\* two register files.
Ins(kind, imm5, rn, rd) ==
  [k |-> "asimd_ins", kind |-> kind, imm5 |-> imm5, imm4 |-> 0, q |-> kind # "Umov", rn |-> rn, rd |-> rd]
OnLanes(kind, lane, q, rd) ==
  [k |-> "asimd_same", kind |-> kind, lane |-> lane, q |-> q, rn |-> 0, rm |-> 1, rd |-> rd]
VectorPool ==
  {Ins("DupGpr", 4, 0, 0), Ins("InsGpr", 12, 0, 0), Ins("InsGpr", 24, 1, 1), Ins("Umov", 20, 0, 0),
   OnLanes("Add", 2, TRUE, 0), OnLanes("Cmgt", 3, TRUE, 1), OnLanes("Bsl", 0, TRUE, 0),
   OnLanes("Mla", 2, FALSE, 0), OnLanes("Umaxp", 1, TRUE, 1),
   [k |-> "asimd_shf", scalar |-> FALSE, q |-> TRUE, imm |-> 13, rn |-> 0, rd |-> 0, kind |-> "Sshr"],
   [k |-> "asimd_misc", lane |-> 1, q |-> TRUE, rn |-> 0, rd |-> 1, kind |-> "Xtn"],
   [k |-> "asimd_imm", kind |-> "Movi", op |-> 0, cmode |-> 8, imm |-> 1, q |-> TRUE, rd |-> 0],
   [k |-> "addp", rn |-> 0, rd |-> 0],
   [k |-> "ld_multiple", load |-> TRUE, opcode |-> 8, lane |-> 2, q |-> TRUE, post |-> TRUE, rt |-> 0,
    rn |-> 31, rm |-> 0],
   [k |-> "ld_multiple", load |-> FALSE, opcode |-> 8, lane |-> 1, q |-> FALSE, post |-> FALSE, rt |-> 0,
    rn |-> 0, rm |-> 31]}
Mixed == VectorPool \cup {Imm(FALSE, FALSE, "W", 0, 0, 1), MovImm("Z", "X", 0, 3, 0),
                          Imm(TRUE, TRUE, "X", 0, 31, 1), Mem("pos", "FpStore", 8, 0, 1, 0),
                          [k |-> "fmov", to_v |-> FALSE, size |-> "W", rn |-> 1, rd |-> 0],
                          [k |-> "fmov", to_v |-> TRUE, size |-> "X", rn |-> 0, rd |-> 1]}
Ends ==
  {[k |-> "bcond", cond |-> 1, off |-> 16], [k |-> "bcond", cond |-> 14, off |-> 16],
   [k |-> "cbz", size |-> "W", inverse |-> FALSE, rt |-> 0, off |-> 16],
   [k |-> "tbz", rt |-> 0, bit |-> 7, inverse |-> TRUE, off |-> 16],
   [k |-> "br", rn |-> 0, link |-> TRUE, ret |-> FALSE, off |-> 0]}

\* A part of the pool for longer sequences: arithmetic on constants, the flags, and writes
\* that a later one may make unobservable.
Small ==
  {Imm(FALSE, sub, size, 0, 0, 1) : sub \in BOOLEAN, size \in Sizes}
  \cup {MovImm("Z", "X", 0, 3, 0), MovImm("Z", "W", 1, 1, 0), Add2(FALSE, FALSE, "X", 0, 0, 0, 0, 1),
        Mul2(FALSE, "W", 0, 1, 0, 0), Shl("Ubfm", "X", 0, 1), Shr("X", 0, 1, 0, "Lsl"),
        Reg2("Orr", "W", 31, 0, 1), Imm(TRUE, TRUE, "X", 0, 31, 1), Ccmp(0, 1, 0),
        Mem("post", "Store", 4, 0, 31, 8), Sel("Csinc", "X", 0, 1, 0, 1)}

\* A branch behind instructions that set the flags, with others in between that keep, use
\* or set them.
Compares ==
  {Imm(TRUE, sub, size, 0, 31, 1) : sub \in BOOLEAN, size \in Sizes}
  \cup {Add2(TRUE, sub, size, rn, 1 - rn, 31, 0, 0) : sub \in BOOLEAN, size \in Sizes, rn \in {0, 1}}
  \cup {Reg2("Ands", size, 0, 1, 31) : size \in Sizes} \cup {Reg2("Bics", "X", 1, 0, 0)}
  \cup {Ccmp(0, 1, 0), Carried(TRUE, TRUE, "W"), Add2(TRUE, TRUE, "X", 0, 0, 31, 0, 0)}
Between ==
  {Imm(FALSE, FALSE, "X", 0, 0, 1), Mem("post", "Store", 4, 0, 31, 8), Ccmp(1, 0, 3),
   Carried(TRUE, FALSE, "X"), Carried(FALSE, TRUE, "W"), Sel("Csinc", "X", 0, 1, 0, 1),
   [k |-> "ic_system", op |-> "Mrs", reg |-> "NZCV", rt |-> 1]}
MsrFlags == [k |-> "ic_system", op |-> "Msr", reg |-> "NZCV", rt |-> 0]

MCPrograms ==
  Singles
  \cup {<<i, j>> : i \in Compares, j \in BConds}
  \cup {<<i, j, k>> : i \in Compares, j \in Between, k \in BConds}
  \cup {<<i, MsrFlags, k>> : i \in Compares \ {Ccmp(0, 1, 0)}, k \in BConds}
  \cup {<<i>> : i \in SingleVector}
  \cup {<<i, j>> : i \in Pool, j \in Pool \cup Ends}
  \cup {<<i, j>> : i \in Mixed, j \in Mixed}
  \cup {<<i, j, k>> : i \in Small, j \in Small, k \in Small \cup Ends}
  \cup {<<i, j, k>> : i \in Mixed, j \in Mixed, k \in Mixed}

\* A load that also writes its base, alone and between other instructions.
LoadBase == Mem("post", "LoadU", 8, 0, 0, 3)
MCLinkPrograms ==
  {<<i>> : i \in Small} \cup {<<i, j>> : i \in Small, j \in Small}
  \cup {<<i, LoadBase>> : i \in Small}

\* Behind the sum of two registers, a comparison of it: the first operand of the sum is dead.
MCResultPrograms == {<<OnLanes("Add", 2, TRUE, 0), OnLanes("Cmgt", 3, TRUE, 1)>>}

-----------------------------------------------------------------------------
(* Machines.                                                               *)

\* Two general registers, the flags, two vector registers and the host.
Machine(x0, x1, x2, nzcv, coalesce, v0, v1, lzcnt, ssse3, place) ==
  [x |-> [r \in {0, 1, 2, 30} |-> CASE r = 0 -> x0 [] r = 1 -> x1 [] r = 2 -> x2 [] r = 30 -> 77],
   sp |-> 200, nzcv |-> nzcv,
   v |-> [r \in {0, 1, 2, 3, 31} |->
            CASE r = 0 -> v0 [] r = 1 -> v1 [] r = 2 -> 23130 [] r = 3 -> 58007 [] r = 31 -> 9029],
   tpidr |-> 99, trace |-> <<>>, seed |-> 37, coalesce |-> coalesce, intact |-> TRUE,
   host |-> [lzcnt |-> lzcnt, ssse3 |-> ssse3, place |-> place]]
ResultBelow == Machine(2, 77, 6, 0, TRUE, 4368, 8467, TRUE, TRUE, "below")
MCMachines ==
  {Machine(0, 1, 255, 6, FALSE, 51966, 4660, TRUE, TRUE, "registers"),
   Machine(128, 255, 3, 9, TRUE, 32769, 51071, FALSE, FALSE, "stack"),
   Machine(183, 8, 17, 2, TRUE, 255, 65280, TRUE, FALSE, "result"),
   Machine(248, 15, 90, 4, FALSE, 24481, 21417, FALSE, TRUE, "operands"),
   ResultBelow}
\* The machine with results in XMM6, where 64-bit compares lose theirs (run pipeline_result).
MCExcluded == {ResultBelow}
MCResultMachines == {ResultBelow}
MCGprs == {0, 1, 2, 30}
=============================================================================

------------------------------- MODULE Emitter -------------------------------
(***************************************************************************)
(* The emitter (ir/emitter.rs): the nodes the translators push.  A node    *)
(* names its value and its operands by labels, which Emit turns into       *)
(* indices of the block.                                                   *)
(***************************************************************************)
EXTENDS Ir

Bits(size) == IF size = "X" THEN XBits ELSE WBits
TyOf(size) == IF size = "X" THEN "U64" ELSE "U32"
Mask(size) == Ones(Bits(size))

\* A node that defines label x.
Node(x, op, w, ty, args, imm) ==
  [x |-> x, op |-> op, w |-> w, ty |-> ty, args |-> args, imm |-> imm]

-----------------------------------------------------------------------------
(* The emitter.                                                            *)

const_u32(x, v) == Node(x, "ConstU32", WBits, "U32", <<>>, v)
const_u64(x, v) == Node(x, "ConstU64", XBits, "U64", <<>>, v)

get_x(x, reg) == IF reg = ZR THEN const_u64(x, 0) ELSE Node(x, "GetX", XBits, "U64", <<>>, reg)
get_w(x, reg) == IF reg = ZR THEN const_u32(x, 0) ELSE Node(x, "GetW", WBits, "U32", <<>>, reg)
get_gpr(x, reg, size) == IF size = "X" THEN get_x(x, reg) ELSE get_w(x, reg)
get_sp(x) == Node(x, "GetSp", XBits, "U64", <<>>, 0)
get_x_or_sp(x, reg, sp) == IF reg = ZR /\ sp THEN get_sp(x) ELSE get_x(x, reg)
get_v(x, reg, ty) == Node(x, "GetV", TyBits[ty], ty, <<>>, reg)
get_nzcv(x) == Node(x, "GetNzcv", 4, "Nzcv", <<>>, 0)

Effect(op, w, args, imm) == <<Node("", op, w, "Void", args, imm)>>
set_x(reg, v) == IF reg = ZR THEN <<>> ELSE Effect("SetX", XBits, <<v>>, reg)
set_w(reg, v) == IF reg = ZR THEN <<>> ELSE Effect("SetW", WBits, <<v>>, reg)
set_gpr(reg, v, size) == IF size = "X" THEN set_x(reg, v) ELSE set_w(reg, v)
set_sp(v) == Effect("SetSp", XBits, <<v>>, 0)
set_x_or_sp(reg, v) == IF reg = ZR THEN set_sp(v) ELSE set_x(reg, v)
set_gpr_or_sp(reg, v, size, sp) == IF reg = ZR /\ sp THEN set_sp(v) ELSE set_gpr(reg, v, size)
set_v(reg, v) == Effect("SetV", QBits, <<v>>, reg)
set_nzcv(v) == Effect("SetNzcv", 4, <<v>>, 0)

binary(x, op, size, a, b) == Node(x, op, Bits(size), TyOf(size), <<a, b>>, 0)
logic_flags(v, size) == Effect("LogicFlags", Bits(size), <<v>>, 0)

TyOfBytes == [n \in {1, 2, 4, 8, 16} |->
                IF n = 1 THEN "U8" ELSE IF n = 2 THEN "U16" ELSE
                IF n = 4 THEN "U32" ELSE IF n = 8 THEN "U64" ELSE "U128"]
load(x, addr, bytes) == Node(x, "Load", bytes, TyOfBytes[bytes], <<addr>>, 0)
store(addr, v, bytes) == Effect("Store", bytes, <<addr, v>>, 0)

\* Sign extension from w bits by two shifts, as the translators write it.
sign_extend_from(x, v, w) ==
  <<const_u64(x \o "k", XBits - w), binary(x \o "l", "Lsl", "X", v, x \o "k"),
    const_u64(x \o "j", XBits - w), binary(x, "Asr", "X", x \o "l", x \o "j")>>

-----------------------------------------------------------------------------
(* Vector operations: lane is the logarithm of the lane's bytes, q selects *)
(* the 128-bit form.                                                       *)

vec_node(x, op, lane, args, imm) == Node(x, op, 2^lane, "U128", args, imm)
vec_binary(x, op, a, b, lane, q) == vec_node(x, op, lane, <<a, b>>, [q |-> q])
vec_logic(x, op, a, b, q) == vec_node(x, op, 0, <<a, b>>, [q |-> q])
vec_unary(x, op, a, lane, q) == vec_node(x, op, lane, <<a>>, [q |-> q])
vec_shift_imm(x, op, a, lane, n, q) == vec_node(x, op, lane, <<a>>, [q |-> q, n |-> n])
vec_select(x, op, d, n, m, q) == vec_node(x, op, 0, <<d, n, m>>, [q |-> q])
vec_build_q(x, lo, hi) == vec_node(x, "VecBuildQ", 3, <<lo, hi>>, [q |-> TRUE])
vec_zero(x) == <<const_u64(x \o "z", 0), vec_build_q(x, x \o "z", x \o "z")>>
vec_dup_gpr(x, v, lane, q) == vec_node(x, "VecDupGpr", lane, <<v>>, [q |-> q])
vec_ins_gpr(x, d, v, lane, n) == vec_node(x, "VecInsGpr", lane, <<d, v>>, [n |-> n])
vec_extract(x, v, lane, n) ==
  Node(x, "VecExtract", 2^lane, IF lane = 3 THEN "U64" ELSE "U32", <<v>>, n)
vec_ext(x, n, m, bytes, q) == vec_node(x, "VecExt", 0, <<n, m>>, [q |-> q, n |-> bytes])
vec_long(x, op, n, m, lane, high) == vec_node(x, op, lane, <<n, m>>, [high |-> high])
vec_xtn(x, v, lane) == vec_node(x, "VecXtn", lane, <<v>>, 0)
vec_xtn2(x, d, v, lane) == vec_node(x, "VecXtn2", lane, <<d, v>>, 0)
vec_rev(x, v, lane, container, q) ==
  vec_node(x, "VecRev", lane, <<v>>, [q |-> q, n |-> 2^container])
vec_addv32(x, v) == Node(x, "VecAddv32", WBits, "U32", <<v>>, 0)

=============================================================================

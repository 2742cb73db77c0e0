---------------------------- MODULE AtomicMemory ----------------------------
(***************************************************************************)
(* What the guest may rely on: the A64 exclusives, the LSE atomics and the *)
(* acquire and release accesses on two adjacent doublewords shared by the  *)
(* guest threads.  An instruction is invoked, takes effect on the whole of *)
(* its datum in one step, and returns its destination registers.           *)
(***************************************************************************)
EXTENDS Words, Sequences

CONSTANTS
  Thread,
  Half,    \* bits of a doubleword, half of a quadword; a word has Half / 2
  Insn     \* the instructions the threads issue

VARIABLES
  mem,          \* the two doublewords
  call,         \* the instruction a thread is in, and how far it got
  reservation,  \* the local monitor
  fault,        \* an access of the running block has faulted
  out           \* the registers an instruction has just written

avars == <<mem, call, reservation, fault, out>>

None == [insn |-> "none"]
Quad(i) == i.wide /\ i.mn \in {"LDXP", "STXP", "CASP"}
Bits(i) == IF Quad(i) THEN 2 * Half ELSE Half
Value(m, i) == IF Quad(i) THEN m[0] + 2^Half * m[1] ELSE m[i.at]
Updated(m, i, v) ==
  IF Quad(i) THEN [h \in {0, 1} |-> (v \div 2^(Half * h)) % 2^Half]
             ELSE [m EXCEPT ![i.at] = v]

\* A register pair as one datum: two whole registers, or their low halves.
Pair(i, r) ==
  CASE Len(r) = 1 -> r[1]
    [] i.wide -> r[1] + (2^Half) * r[2]
    [] OTHER -> Trunc(r[1], Half \div 2) + 2^(Half \div 2) * Trunc(r[2], Half \div 2)
Unpair(i, v) ==
  CASE i.mn \notin {"LDXP", "CASP"} -> <<v>>
    [] i.wide -> <<v % 2^Half, v \div 2^Half>>
    [] OTHER -> <<v % 2^(Half \div 2), v \div 2^(Half \div 2)>>

\* The A64 atomic operations on data of n bits.
Rmw(op, old, v, n) ==
  CASE op = "Add" -> Trunc(old + v, n)
    [] op = "Clr" -> FromBits(n, LAMBDA i : IF Bit(v, i) = 1 THEN 0 ELSE Bit(old, i))
    [] op = "Eor" -> FromBits(n, LAMBDA i : IF Bit(v, i) = Bit(old, i) THEN 0 ELSE 1)
    [] op = "Set" -> FromBits(n, LAMBDA i : IF Bit(v, i) = 1 THEN 1 ELSE Bit(old, i))
    [] op = "Smax" -> IF Signed(old, n) < Signed(v, n) THEN v ELSE old
    [] op = "Smin" -> IF Signed(old, n) > Signed(v, n) THEN v ELSE old
    [] op = "Umax" -> IF old < v THEN v ELSE old
    [] op = "Umin" -> IF old > v THEN v ELSE old
    [] op = "Swp" -> v

Free == [size |-> 0, at |-> 0, value |-> 0]
Reserved(t, i) == reservation[t].size = Bits(i) /\ reservation[t].at = i.at

Init ==
  /\ mem = [h \in {0, 1} |-> 0]
  /\ call = [t \in Thread |-> None]
  /\ reservation = [t \in Thread |-> Free]
  /\ fault = [t \in Thread |-> FALSE]
  /\ out = [t \in Thread |-> <<>>]

Invoke(t) ==
  /\ call[t] = None
  /\ \E i \in Insn : call' = [call EXCEPT ![t] = [insn |-> i, got |-> <<>>, void |-> FALSE]]
  /\ out' = [out EXCEPT ![t] = <<>>]
  /\ UNCHANGED <<mem, reservation, fault>>

\* The registers r are written and the instruction is over.
Return(t, r) ==
  /\ out' = [out EXCEPT ![t] = r]
  /\ call' = [call EXCEPT ![t] = None]

Effect(t, old, new) ==
  /\ mem' = new
  /\ call' = [call EXCEPT ![t].got = <<old>>]
  /\ UNCHANGED <<reservation, fault, out>>

\* A load reads its datum in one step; the two halves of a quadword may be read
\* one after the other, which is what A64 grants a load-exclusive pair.
ReadHalf(t) ==
  LET i == call[t].insn IN
  /\ call[t] # None /\ ~call[t].void /\ Quad(i) /\ i.mn = "LDXP" /\ Len(call[t].got) < 2
  /\ call' = [call EXCEPT ![t].got = Append(@, mem[Len(@)])]
  /\ UNCHANGED <<mem, reservation, fault, out>>

Load(t) ==
  LET i == call[t].insn IN
  /\ call[t] # None /\ ~call[t].void /\ i.mn \in {"LDXR", "LDXP", "LDAR"} /\ ~Quad(i) /\ call[t].got = <<>>
  /\ Effect(t, Value(mem, i), mem)

Store(t) ==
  LET i == call[t].insn IN
  /\ call[t] # None /\ ~call[t].void /\ i.mn = "STLR" /\ call[t].got = <<>>
  /\ Effect(t, 0, Updated(mem, i, i.val[1]))

ReadModifyWrite(t) ==
  LET i == call[t].insn IN
  /\ call[t] # None /\ ~call[t].void /\ i.mn = "LSE" /\ call[t].got = <<>>
  /\ Effect(t, Value(mem, i), Updated(mem, i, Rmw(i.op, Value(mem, i), i.val[1], Half)))

CompareAndSwap(t) ==
  LET i == call[t].insn IN
  /\ call[t] # None /\ ~call[t].void /\ i.mn \in {"CAS", "CASP"} /\ call[t].got = <<>>
  /\ Effect(t, Value(mem, i),
            IF Value(mem, i) = Pair(i, i.exp) THEN Updated(mem, i, Pair(i, i.val)) ELSE mem)

\* Only a store-exclusive whose datum is still the one its own load-exclusive
\* saw may store; it reports 0 if it did and 1 if it did not.
StoreExclusive(t) ==
  LET i == call[t].insn IN
  /\ call[t] # None /\ ~call[t].void /\ i.mn \in {"STXR", "STXP"} /\ call[t].got = <<>>
  /\ IF Reserved(t, i) /\ Value(mem, i) = reservation[t].value
       THEN Effect(t, 0, Updated(mem, i, Pair(i, i.val)))
       ELSE Effect(t, 1, mem)

\* An access that faults, or is skipped behind one, leaves memory alone and its
\* destination registers arbitrary.
Fault(t) ==
  /\ call[t] # None
  /\ fault' = [fault EXCEPT ![t] = TRUE]
  /\ call' = [call EXCEPT ![t].void = TRUE]
  /\ UNCHANGED <<mem, reservation, out>>

Complete(t) ==
  LET i == call[t].insn
      g == call[t].got
      all == IF Len(g) = 2 THEN g[1] + 2^Half * g[2] ELSE g[1]
      whole == IF i.mn = "LDXP" /\ i.wide THEN 2 ELSE 1 IN
  /\ call[t] # None
  /\ i.mn = "CLREX" \/ call[t].void \/ Len(g) = whole
  /\ IF call[t].void
       THEN Return(t, out'[t]) /\ out'[t] \in Seq(Nat)
       ELSE Return(t, CASE i.mn \in {"CLREX", "STLR"} -> <<>>
                        [] i.mn \in {"STXR", "STXP"} -> <<all>>
                        [] OTHER -> Unpair(i, all))
  /\ reservation' = [reservation EXCEPT ![t] =
       CASE i.mn \in {"STXR", "STXP", "CLREX"} -> Free
         [] i.mn \in {"LDXR", "LDXP"} /\ ~fault[t] -> [size |-> Bits(i), at |-> i.at, value |-> all]
         [] i.mn \in {"LDXR", "LDXP"} /\ fault[t] -> Free
         [] OTHER -> reservation[t]]
  /\ UNCHANGED <<mem, fault>>

\* The block is left; the fault has been reported.
Leave(t) ==
  /\ call[t] = None
  /\ fault' = [fault EXCEPT ![t] = FALSE]
  /\ UNCHANGED <<mem, call, reservation, out>>

Next ==
  \E t \in Thread :
    \/ Invoke(t) \/ ReadHalf(t) \/ Load(t) \/ Store(t) \/ ReadModifyWrite(t)
    \/ CompareAndSwap(t) \/ StoreExclusive(t) \/ Fault(t) \/ Complete(t) \/ Leave(t)

Spec == Init /\ [][Next]_avars
=============================================================================

-------------------------- MODULE DispatcherProofs --------------------------
(***************************************************************************)
(* Proofs about run_bounded, for every guest program, budget, cache size   *)
(* and dispatch table: it implements the guest that executes one           *)
(* instruction at a time, runs only code the cache holds, stops soon after *)
(* a halt or a fault, saves the vector registers, and leaves the PC of a   *)
(* fault exact.  The translator comes first, for every guest program: a    *)
(* translated block is the instructions guest memory holds along one path  *)
(* from the block's PC, covered by the block's ranges; and where there is  *)
(* none, the straight line from the PC ends at an address that holds       *)
(* nothing executable.                                                     *)
(***************************************************************************)
EXTENDS Dispatcher, CacheProofs, Inductions, SequenceTheorems

-----------------------------------------------------------------------------
(* The loop of translate_block_into.                                       *)

State == [pc : Pc, seg : Pc, insns : Seq(Step), ranges : SUBSET Ranges,
          status : {"open", "unmapped", "unsupported", "terminated"},
          followed : [insns : Seq(Step), ranges : SUBSET Ranges]]

\* Addresses behind fetched words.
LEMMA AfterWord ==
  ASSUME NEW w \in Word
  PROVE  /\ w \in Pc /\ w \in Nat /\ w + 4 \in Pc /\ After(w) = w + 4 /\ After(w) \in Pc
         /\ w + 4 < MaxAddr /\ MaxAddr \in Nat
<1>1. /\ w \in Pc /\ w + 4 \in Pc /\ MaxAddr \in Nat
      /\ Pc \subseteq 0 .. (MaxAddr - 1)
  BY AddrAssumption, TranslatorAssumption
<1>2. w \in Nat /\ w + 4 \in Nat /\ w + 4 < MaxAddr
  BY <1>1
<1>3. (w + 4) % (MaxAddr + 1) = w + 4
  BY <1>1, <1>2
<1> QED BY <1>1, <1>2, <1>3 DEF After

\* One iteration gives a state of the loop.
LEMMA AdvanceType ==
  ASSUME NEW guest \in Code, NEW t \in State, NEW max \in Nat
  PROVE  Advance(guest, t, max) \in State
<1>1. CASE t.pc \notin Word \/ guest[t.pc].op = "udf"
  <2>1. Advance(guest, t, max) = [t EXCEPT !.status = "unmapped"] \/ Advance(guest, t, max) = [t EXCEPT !.status = "unsupported"]
    BY <1>1 DEF Advance
  <2> QED BY <2>1 DEF State
<1>2. CASE t.pc \in Word /\ guest[t.pc].op # "udf"
  <2> DEFINE i == guest[t.pc]
             insns == Append(t.insns, [pc |-> t.pc, insn |-> i])
             ranges == t.ranges \cup {<<t.seg, After(t.pc)>>}
  <2>1. i \in Insn /\ After(t.pc) \in Pc /\ Pc \subseteq Addr /\ t.pc \in Pc /\ t.seg \in Pc
    BY <1>2, AfterWord, AddrAssumption DEF Code, Addr, State
  <2>2. insns \in Seq(Step)
    <3>1. [pc |-> t.pc, insn |-> i] \in Step
      BY <2>1 DEF Step
    <3> QED BY <3>1, AppendProperties DEF State
  <2>3. ranges \in SUBSET Ranges
    BY <2>1 DEF Ranges, State
  <2>4. i.op = "b" => i.to \in Pc
    BY <2>1 DEF Insn
  <2>5. CASE Advance(guest, t, max) = [t EXCEPT !.pc = After(t.pc), !.insns = insns]
    <3> HIDE DEF insns, ranges, i
    <3> QED BY <2>1, <2>2, <2>5 DEF State
  <2>6. CASE /\ i.op = "b"
             /\ Advance(guest, t, max) =
                  [t EXCEPT !.pc = i.to, !.seg = i.to, !.insns = insns, !.ranges = ranges,
                            !.followed = [insns |-> insns, ranges |-> ranges]]
    <3> HIDE DEF insns, ranges, i
    <3>1. [insns |-> insns, ranges |-> ranges] \in [insns : Seq(Step), ranges : SUBSET Ranges]
      BY <2>2, <2>3
    <3> QED BY <2>1, <2>2, <2>3, <2>4, <2>6, <3>1 DEF State
  <2>7. CASE Advance(guest, t, max) =
               [t EXCEPT !.insns = insns, !.ranges = ranges, !.status = "terminated"]
    <3> HIDE DEF insns, ranges, i
    <3> QED BY <2>1, <2>2, <2>3, <2>7 DEF State
  <2> QED BY <1>2, <2>5, <2>6, <2>7 DEF Advance, Followed
<1> QED BY <1>1, <1>2

\* Control reaches an address behind the instructions of a path.
Reaches(pc, insns, at) ==
  IF insns = <<>> THEN at = pc
  ELSE /\ at = Following(insns[Len(insns)])
       /\ ~Terminator(insns[Len(insns)].insn) \/ insns[Len(insns)].insn.op = "b"

\* A path goes on with the instruction it reaches.
LEMMA PathStep ==
  ASSUME NEW guest \in Code, NEW pc, NEW insns, Path(guest, pc, insns), NEW at \in Word,
         Reaches(pc, insns, at), guest[at].op # "udf"
  PROVE  LET more == Append(insns, [pc |-> at, insn |-> guest[at]]) IN
         /\ Path(guest, pc, more) /\ Len(more) = Len(insns) + 1
         /\ more[Len(more)] = [pc |-> at, insn |-> guest[at]]
         /\ \A n \in 1 .. Len(insns) : more[n] = insns[n]
<1> DEFINE e == [pc |-> at, insn |-> guest[at]]
           more == Append(insns, e)
           l == Len(insns)
<1>1. insns \in Seq(Step) /\ l \in Nat /\ e \in Step
  <2>1. at \in Pc /\ guest[at] \in Insn
    BY AfterWord DEF Code
  <2> QED BY <2>1, LenProperties DEF Path, Step
<1>2. /\ more \in Seq(Step) /\ Len(more) = l + 1 /\ more[l + 1] = e
      /\ \A n \in 1 .. l : more[n] = insns[n]
  BY <1>1, AppendProperties
<1>3. insns = <<>> <=> l = 0
  BY <1>1, EmptySeq
<1> HIDE DEF more
<1>4. \A n \in 1 .. (l + 1) :
        more[n].pc \in Word /\ more[n].insn = guest[more[n].pc] /\ more[n].insn.op # "udf"
  <2>1. \A n \in 1 .. (l + 1) : n \in 1 .. l \/ n = l + 1
    BY <1>1
  <2>2. e.pc \in Word /\ e.insn = guest[e.pc] /\ e.insn.op # "udf"
    OBVIOUS
  <2> HIDE DEF l, e
  <2>3. \A n \in 1 .. l : insns[n].pc \in Word /\ insns[n].insn = guest[insns[n].pc] /\ insns[n].insn.op # "udf"
    BY DEF Path, l
  <2> QED BY ONLY <1>2, <2>1, <2>2, <2>3
<1>5. more[1].pc = pc
  BY <1>1, <1>2, <1>3 DEF Path, Reaches
<1>6. \A n \in 1 .. l : /\ ~Terminator(more[n].insn) \/ more[n].insn.op = "b"
                       /\ more[n + 1].pc = Following(more[n])
  <2> SUFFICES ASSUME NEW n \in 1 .. l
               PROVE  /\ ~Terminator(more[n].insn) \/ more[n].insn.op = "b"
                      /\ more[n + 1].pc = Following(more[n])
    OBVIOUS
  <2>1. CASE n = l
    BY <1>2, <1>3, <2>1 DEF Reaches
  <2>2. CASE n # l
    <3>1. n \in 1 .. (l - 1) /\ n + 1 \in 1 .. l
      BY <1>1, <2>2
    <3>2. more[n] = insns[n] /\ more[n + 1] = insns[n + 1]
      BY <1>2, <3>1
    <3> QED BY <3>1, <3>2 DEF Path
  <2> QED BY <2>1, <2>2
<1>7. (l + 1) - 1 = l
  BY <1>1
<1> QED BY <1>2, <1>4, <1>5, <1>6, <1>7 DEF Path, more

\* The block as it was after a followed branch, in at most k instructions.
Chosen(guest, pc, f, k) ==
  \/ f.insns = <<>>
  \/ /\ Path(guest, pc, f.insns) /\ Len(f.insns) \in 1 .. k
     /\ f.insns[Len(f.insns)].insn.op = "b"
     /\ Proper(f.ranges) /\ Covers(f.ranges, f.insns)

\* What holds of a loop that goes on: every instruction so far lies in a closed
\* range or in the segment that is still open.
Open(guest, pc, max, t, k) ==
  /\ Len(t.insns) = k /\ t.seg <= t.pc
  /\ Reaches(pc, t.insns, t.pc)
  /\ k > 0 /\ t.insns[k].insn.op = "b" => k < max
  /\ \A n \in 1 .. k : \/ In(<<t.seg, t.pc>>, t.insns[n].pc)
                      \/ \E r \in t.ranges : In(r, t.insns[n].pc)

\* The loop after k iterations.
Reached(guest, pc, max, t, k) ==
  /\ t \in State
  /\ Path(guest, pc, t.insns) /\ Len(t.insns) <= k
  /\ Proper(t.ranges) /\ Chosen(guest, pc, t.followed, k)
  /\ t.status = "open" => Open(guest, pc, max, t, k)
  /\ t.status = "terminated" =>
       /\ Len(t.insns) > 0 /\ Terminator(t.insns[Len(t.insns)].insn)
       /\ Covers(t.ranges, t.insns)
  /\ t.status # "terminated" /\ t.followed.insns = <<>> => Line(guest, pc, t.pc)
  /\ t.status = "unmapped" => t.pc \notin Word
  /\ t.status = "unsupported" => t.pc \in Word /\ guest[t.pc].op = "udf"

\* The loop before its first iteration.
LEMMA OpenedReached ==
  ASSUME NEW guest \in Code, NEW pc \in Pc, NEW max \in Nat \ {0}
  PROVE  Reached(guest, pc, max, Opened(pc), 0)
<1>1. pc \in Nat
  BY AddrAssumption
<1>2. <<>> \in Seq(Step) /\ Len(<<>>) = 0
  OBVIOUS
<1>3. Opened(pc) \in State
  BY <1>2 DEF Opened, State
<1>4. Path(guest, pc, <<>>)
  BY <1>2 DEF Path
<1>5. Line(guest, pc, pc)
  <2>1. Pc \subseteq Nat
    BY AddrAssumption
  <2>2. (pc - pc) % 4 = 0
    BY <1>1
  <2> QED BY <1>1, <2>1, <2>2 DEF Line
<1>6. Open(guest, pc, max, Opened(pc), 0)
  BY <1>1, <1>2 DEF Open, Opened, Reaches
<1> QED BY <1>1, <1>2, <1>3, <1>4, <1>5, <1>6 DEF Reached, Opened, Chosen, Proper

\* The line to an address goes on over an executable instruction there.
LEMMA LineStep ==
  ASSUME NEW guest \in Code, NEW pc \in Pc, NEW at \in Word, Line(guest, pc, at), ~Terminator(guest[at])
  PROVE  Line(guest, pc, at + 4)
<1>1. pc \in Nat /\ at \in Nat /\ Pc \subseteq Nat
  BY AddrAssumption, AfterWord
<1>2. at + 4 >= pc /\ (at + 4 - pc) % 4 = 0
  BY <1>1 DEF Line
<1>3. ASSUME NEW q \in Pc, pc <= q, q < at + 4, (q - pc) % 4 = 0 PROVE q < at \/ q = at
  BY <1>1, <1>3 DEF Line
<1> QED BY <1>1, <1>2, <1>3 DEF Line

\* The range of the segment that is open, closed behind the instruction at t.pc.
LEMMA ProperStep ==
  ASSUME NEW ranges, Proper(ranges), NEW seg \in Pc, NEW at \in Word, seg <= at
  PROVE  Proper(ranges \cup {<<seg, at + 4>>})
<1>1. seg \in Addr /\ at + 4 \in Addr /\ seg < at + 4
  BY AddrAssumption, AfterWord DEF Addr
<1> QED BY <1>1 DEF Proper, Ranges

\* The first iteration that finds nothing to execute ends the loop.
LEMMA FailedStep ==
  ASSUME NEW guest \in Code, NEW pc \in Pc, NEW max \in Nat \ {0}, NEW k \in Nat, NEW t,
         Reached(guest, pc, max, t, k), t.status = "open",
         t.pc \notin Word \/ guest[t.pc].op = "udf"
  PROVE  Reached(guest, pc, max, Advance(guest, t, max), k + 1)
<1> DEFINE t2 == Advance(guest, t, max)
<1>1. t \in State /\ Path(guest, pc, t.insns) /\ Proper(t.ranges) /\ Len(t.insns) \in Nat
      /\ Len(t.insns) <= k /\ Chosen(guest, pc, t.followed, k)
      /\ (t.followed.insns = <<>> => Line(guest, pc, t.pc))
  BY LenProperties DEF Reached, Path
<1>2. \/ t.pc \notin Word /\ t2 = [t EXCEPT !.status = "unmapped"]
      \/ t.pc \in Word /\ guest[t.pc].op = "udf" /\ t2 = [t EXCEPT !.status = "unsupported"]
  BY DEF Advance
<1>3. /\ t2.pc = t.pc /\ t2.insns = t.insns /\ t2.ranges = t.ranges /\ t2.followed = t.followed
      /\ \/ t.pc \notin Word /\ t2.status = "unmapped"
         \/ t.pc \in Word /\ guest[t.pc].op = "udf" /\ t2.status = "unsupported"
  BY <1>1, <1>2 DEF State
<1>4. t2 \in State
  BY <1>1, AdvanceType
<1>5. Chosen(guest, pc, t.followed, k + 1) /\ Len(t.insns) <= k + 1
  BY <1>1 DEF Chosen
<1> QED BY <1>1, <1>3, <1>4, <1>5 DEF Reached

\* An iteration that adds an instruction keeps the loop's invariant.
LEMMA AddedStep ==
  ASSUME NEW guest \in Code, NEW pc \in Pc, NEW max \in Nat \ {0}, NEW k \in Nat, NEW t,
         Reached(guest, pc, max, t, k), t.status = "open",
         t.pc \in Word, guest[t.pc].op # "udf"
  PROVE  Reached(guest, pc, max, Advance(guest, t, max), k + 1)
<1> DEFINE t2 == Advance(guest, t, max)
           i == guest[t.pc]
           more == Append(t.insns, [pc |-> t.pc, insn |-> i])
           ranges == t.ranges \cup {<<t.seg, t.pc + 4>>}
<1>1. /\ t \in State /\ Path(guest, pc, t.insns) /\ Proper(t.ranges)
      /\ Len(t.insns) = k /\ Chosen(guest, pc, t.followed, k)
      /\ (t.followed.insns = <<>> => Line(guest, pc, t.pc))
      /\ Open(guest, pc, max, t, k)
  BY DEF Reached, Open
<1>2. /\ t.seg \in Pc /\ t.seg <= t.pc /\ t.seg \in Nat /\ t.pc \in Nat /\ After(t.pc) = t.pc + 4
      /\ t.pc + 4 \in Pc
  <2>1. t.seg \in Pc /\ t.seg \in Nat
    <3>1. t.seg \in Pc
      BY <1>1 DEF State
    <3>2. Pc \subseteq Nat
      BY AddrAssumption
    <3> QED BY <3>1, <3>2
  <2>2. t.seg <= t.pc
    BY <1>1 DEF Open
  <2> QED BY <2>1, <2>2, AfterWord
<1>3. /\ Path(guest, pc, more) /\ Len(more) = k + 1
      /\ more[k + 1] = [pc |-> t.pc, insn |-> i] /\ more[k + 1].pc = t.pc /\ more[k + 1].insn = i
      /\ \A n \in 1 .. k : more[n] = t.insns[n]
      /\ more # <<>>
  <2>1. Reaches(pc, t.insns, t.pc)
    BY <1>1 DEF Open
  <2>2. /\ Path(guest, pc, more) /\ Len(more) = Len(t.insns) + 1
        /\ more[Len(more)] = [pc |-> t.pc, insn |-> i]
        /\ \A n \in 1 .. Len(t.insns) : more[n] = t.insns[n]
    BY <1>1, <2>1, PathStep
  <2>3. Len(t.insns) = k
    BY <1>1
  <2>4. Path(guest, pc, more) /\ more[k + 1] = [pc |-> t.pc, insn |-> i] /\ Len(more) = k + 1
    BY <2>2, <2>3
  <2>5. more[k + 1].pc = t.pc /\ more[k + 1].insn = i
    BY <2>4
  <2> HIDE DEF more, i, t2, ranges
  <2>6. \A n \in 1 .. k : more[n] = t.insns[n]
    BY <2>2, <2>3
  <2>7. more # <<>>
    <3>1. Len(more) = k + 1 /\ k + 1 # 0 /\ Len(<<>>) = 0
      BY <2>4
    <3> QED BY <3>1
  <2> QED BY <2>4, <2>5, <2>6, <2>7
<1>4. t2 \in State
  BY <1>1, AdvanceType
<1>5. Proper(ranges)
  BY <1>1, <1>2, ProperStep
<1>6. \A n \in 1 .. (k + 1) : \/ In(<<t.seg, t.pc + 4>>, more[n].pc)
                             \/ \E r \in t.ranges : In(r, more[n].pc)
  <2> SUFFICES ASSUME NEW n \in 1 .. (k + 1)
               PROVE  \/ In(<<t.seg, t.pc + 4>>, more[n].pc)
                      \/ \E r \in t.ranges : In(r, more[n].pc)
    OBVIOUS
  <2> HIDE DEF more
  <2>0. n = k + 1 \/ n \in 1 .. k
    OBVIOUS
  <2>1. CASE n = k + 1
    BY <1>2, <1>3, <2>1 DEF In
  <2>2. CASE n \in 1 .. k
    <3>1. more[n] = t.insns[n] /\ t.insns[n].pc \in Nat
      BY <1>1, <1>3, <2>2, AfterWord DEF Path
    <3>2. \/ In(<<t.seg, t.pc>>, t.insns[n].pc)
          \/ \E r \in t.ranges : In(r, t.insns[n].pc)
      BY <1>1, <2>2 DEF Open
    <3>3. In(<<t.seg, t.pc>>, t.insns[n].pc) => In(<<t.seg, t.pc + 4>>, t.insns[n].pc)
      BY <1>2, <3>1 DEF In
    <3> QED BY <3>1, <3>2, <3>3
  <2> QED BY <2>0, <2>1, <2>2
<1>7. Covers(ranges, more)
  <2> HIDE DEF more
  <2> QED BY <1>3, <1>6 DEF Covers
<1>8. Chosen(guest, pc, t.followed, k + 1)
  BY <1>1 DEF Chosen
<1>9. t2 = IF ~Terminator(i) THEN [t EXCEPT !.pc = t.pc + 4, !.insns = more]
           ELSE IF Followed(i, ranges, more, max)
           THEN [t EXCEPT !.pc = i.to, !.seg = i.to, !.insns = more, !.ranges = ranges,
                          !.followed = [insns |-> more, ranges |-> ranges]]
           ELSE [t EXCEPT !.insns = more, !.ranges = ranges, !.status = "terminated"]
  BY <1>2 DEF Advance
<1>10. k + 1 \in Nat /\ k + 1 > 0 /\ k + 1 \in 1 .. (k + 1) /\ k + 1 <= k + 1
  OBVIOUS
<1> SUFFICES Reached(guest, pc, max, t2, k + 1)
  OBVIOUS
<1> HIDE DEF t2, more, ranges
<1>11. CASE ~Terminator(i)
  <2>1. /\ t2.pc = t.pc + 4 /\ t2.seg = t.seg /\ t2.insns = more /\ t2.ranges = t.ranges
        /\ t2.status = "open" /\ t2.followed = t.followed
    BY <1>1, <1>9, <1>11 DEF State
  <2>2. i.op # "b"
    BY <1>11 DEF Terminator
  <2>3. Open(guest, pc, max, t2, k + 1)
    <3>1. Reaches(pc, more, t.pc + 4)
      BY <1>3, <1>11, <2>2 DEF Reaches, Following
    <3>2. t.seg <= t.pc + 4
      BY <1>2
    <3>3. Len(t2.insns) = k + 1 /\ t2.insns[k + 1].insn.op # "b" /\ t2.seg <= t2.pc
          /\ Reaches(pc, t2.insns, t2.pc)
          /\ \A n \in 1 .. (k + 1) : \/ In(<<t2.seg, t2.pc>>, t2.insns[n].pc)
                                   \/ \E r \in t2.ranges : In(r, t2.insns[n].pc)
      BY <1>3, <1>6, <2>1, <2>2, <3>1, <3>2
    <3> QED BY ONLY <3>3 DEF Open
  <2>4. t.followed.insns = <<>> => Line(guest, pc, t.pc + 4)
    BY <1>1, <1>11, LineStep
  <2>5. /\ Path(guest, pc, t2.insns) /\ Len(t2.insns) <= k + 1 /\ Proper(t2.ranges)
        /\ Chosen(guest, pc, t2.followed, k + 1)
        /\ t2.followed.insns = <<>> => Line(guest, pc, t2.pc)
    BY <1>1, <1>3, <1>8, <1>10, <2>1, <2>4
  <2> QED BY ONLY <1>4, <2>1, <2>3, <2>5 DEF Reached
<1>12. CASE Terminator(i) /\ Followed(i, ranges, more, max)
  <2>1. /\ t2.pc = i.to /\ t2.seg = i.to /\ t2.insns = more /\ t2.ranges = ranges
        /\ t2.status = "open"
        /\ t2.followed.insns = more /\ t2.followed.ranges = ranges
    BY <1>1, <1>9, <1>12 DEF State
  <2>2. i.op = "b" /\ k + 1 < max
    BY <1>3, <1>12 DEF Followed
  <2>3. Open(guest, pc, max, t2, k + 1)
    <3>1. Reaches(pc, more, i.to)
      BY <1>3, <2>2 DEF Reaches, Following
    <3>2. i.to <= i.to
      <4>1. i.to \in Nat
        <5>1. i.to \in Pc
          BY <1>4, <2>1 DEF State
        <5>2. Pc \subseteq Nat
          BY AddrAssumption
        <5> QED BY <5>1, <5>2
      <4> QED BY <4>1
    <3>3. \A n \in 1 .. (k + 1) : \E r \in ranges : In(r, more[n].pc)
      BY <1>3, <1>7 DEF Covers
    <3>4. Len(t2.insns) = k + 1 /\ t2.seg <= t2.pc /\ Reaches(pc, t2.insns, t2.pc)
          /\ \A n \in 1 .. (k + 1) : \E r \in t2.ranges : In(r, t2.insns[n].pc)
      BY <1>3, <2>1, <2>2, <3>1, <3>2, <3>3
    <3> QED BY ONLY <2>2, <3>4 DEF Open
  <2>4. Chosen(guest, pc, t2.followed, k + 1)
    BY <1>3, <1>5, <1>7, <1>10, <2>1, <2>2 DEF Chosen
  <2>5. /\ Path(guest, pc, t2.insns) /\ Len(t2.insns) <= k + 1 /\ Proper(t2.ranges)
        /\ t2.followed.insns # <<>>
    BY <1>3, <1>5, <1>10, <2>1
  <2> QED BY ONLY <1>4, <2>1, <2>3, <2>4, <2>5 DEF Reached
<1>13. CASE Terminator(i) /\ ~Followed(i, ranges, more, max)
  <2>1. /\ t2.insns = more /\ t2.ranges = ranges /\ t2.status = "terminated"
        /\ t2.followed = t.followed
    BY <1>1, <1>9, <1>13 DEF State
  <2>2. /\ Path(guest, pc, t2.insns) /\ Len(t2.insns) <= k + 1 /\ Proper(t2.ranges)
        /\ Chosen(guest, pc, t2.followed, k + 1)
        /\ Len(t2.insns) > 0 /\ Terminator(t2.insns[Len(t2.insns)].insn)
        /\ Covers(t2.ranges, t2.insns)
    BY <1>3, <1>5, <1>7, <1>8, <1>10, <1>13, <2>1
  <2> QED BY ONLY <1>4, <2>1, <2>2 DEF Reached
<1> QED BY <1>11, <1>12, <1>13

\* A loop that has ended stays as it is.
LEMMA EndedStep ==
  ASSUME NEW guest \in Code, NEW pc \in Pc, NEW max \in Nat \ {0}, NEW k \in Nat, NEW t,
         Reached(guest, pc, max, t, k), t.status # "open"
  PROVE  Reached(guest, pc, max, t, k + 1)
<1>1. Len(t.insns) \in Nat /\ Len(t.insns) <= k + 1
  BY LenProperties DEF Reached, Path
<1>2. Chosen(guest, pc, t.followed, k + 1)
  BY DEF Reached, Chosen
<1> QED BY <1>1, <1>2 DEF Reached

\* One iteration of the loop, which does nothing once the block has ended.
Iterated(guest, t, max) == IF t.status # "open" THEN t ELSE Advance(guest, t, max)

\* After max iterations the loop's invariant holds.
LEMMA TranslationReached ==
  ASSUME NEW guest \in Code, NEW pc \in Pc, NEW max \in Nat \ {0}
  PROVE  Reached(guest, pc, max, Translation(guest, pc, max), max)
<1> DEFINE loop == CHOOSE loop : loop = [n \in 0 .. max |->
                     IF n = 0 THEN Opened(pc)
                     ELSE IF loop[n - 1].status # "open" THEN loop[n - 1]
                     ELSE Advance(guest, loop[n - 1], max)]
           G == [e \in State \X (1 .. max) |-> Iterated(guest, e[1], max)]
<1>1. Translation(guest, pc, max) = loop[max]
  BY DEF Translation
<1>2. \A t \in State : Iterated(guest, t, max) \in State
  BY AdvanceType DEF Iterated
<1>3. PICK g \in [0 .. max -> State] :
        g[0] = Opened(pc) /\ \A k \in 1 .. max : g[k] = Iterated(guest, g[k - 1], max)
  <2>1. G \in [State \X (1 .. max) -> State]
    BY <1>2
  <2>2. Opened(pc) \in State
    BY OpenedReached DEF Reached
  <2>3. \A t \in State, k \in 1 .. max : G[<<t, k>>] = Iterated(guest, t, max)
    OBVIOUS
  <2> HIDE DEF G
  <2>4. Iterations(max, State, Opened(pc), G) # {}
    BY <2>1, <2>2, Recursion
  <2>5. PICK f \in [0 .. max -> State] :
          f[0] = Opened(pc) /\ \A k \in 1 .. max : f[k] = G[<<f[k - 1], k>>]
    BY <2>4 DEF Iterations
  <2>6. \A k \in 1 .. max : f[k - 1] \in State
    BY <2>5
  <2> QED BY <2>3, <2>5, <2>6
<1>4. g = [n \in 0 .. max |-> IF n = 0 THEN Opened(pc)
                             ELSE IF g[n - 1].status # "open" THEN g[n - 1]
                             ELSE Advance(guest, g[n - 1], max)]
  <2> DEFINE h == [n \in 0 .. max |-> IF n = 0 THEN Opened(pc)
                             ELSE IF g[n - 1].status # "open" THEN g[n - 1]
                             ELSE Advance(guest, g[n - 1], max)]
  <2>1. \A n \in 0 .. max : n = 0 \/ n \in 1 .. max
    OBVIOUS
  <2>2. \A n \in 0 .. max : g[n] = h[n]
    BY <1>3, <2>1 DEF Iterated
  <2> QED BY <1>3, <2>2
<1>5. loop = [n \in 0 .. max |-> IF n = 0 THEN Opened(pc)
                                ELSE IF loop[n - 1].status # "open" THEN loop[n - 1]
                                ELSE Advance(guest, loop[n - 1], max)]
  BY <1>4
<1> HIDE DEF loop
<1>6. loop[0] = Opened(pc) /\ \A k \in 1 .. max : loop[k] = Iterated(guest, loop[k - 1], max)
  <2>1. 0 \in 0 .. max /\ \A k \in 1 .. max : k \in 0 .. max /\ k # 0
    OBVIOUS
  <2> QED BY <1>5, <2>1 DEF Iterated
<1> DEFINE S == {k \in Nat : k <= max => Reached(guest, pc, max, loop[k], k)}
<1>7. 0 \in S
  BY <1>6, OpenedReached
<1>8. ASSUME NEW k \in Nat, k \in S PROVE k + 1 \in S
  <2> SUFFICES ASSUME k + 1 <= max PROVE Reached(guest, pc, max, loop[k + 1], k + 1)
    OBVIOUS
  <2>1. Reached(guest, pc, max, loop[k], k)
    BY <1>8
  <2>2. loop[k + 1] = Iterated(guest, loop[k], max)
    <3>1. k + 1 \in 1 .. max /\ (k + 1) - 1 = k
      OBVIOUS
    <3> QED BY <1>6, <3>1
  <2> QED BY <2>1, <2>2, EndedStep, FailedStep, AddedStep DEF Iterated
<1> HIDE DEF S
<1>9. max \in S
  BY <1>7, <1>8, SetInduction
<1> QED BY <1>1, <1>9 DEF S

\* What translate_block_into returns.
LEMMA TranslateBlockFacts ==
  ASSUME NEW guest \in Code, NEW pc \in Pc, NEW max \in Nat \ {0}, NEW b,
         b = TranslateBlock(guest, pc, max)
  PROVE  \/ b.status = "ok" /\ Block(guest, pc, max, b)
         \/ b.status \in {"unmapped", "unsupported"} /\ Failure(guest, pc, b.status)
<1>1. PICK t : t = Translation(guest, pc, max)
  OBVIOUS
<1>2. Reached(guest, pc, max, t, max)
  BY <1>1, TranslationReached
<1>3. /\ t \in State /\ Path(guest, pc, t.insns) /\ Len(t.insns) <= max /\ Len(t.insns) \in Nat
      /\ Proper(t.ranges) /\ Chosen(guest, pc, t.followed, max) /\ t.pc \in Pc
      /\ t.status \in {"open", "unmapped", "unsupported", "terminated"}
  <2>1. t \in State /\ Path(guest, pc, t.insns) /\ Len(t.insns) <= max
        /\ Proper(t.ranges) /\ Chosen(guest, pc, t.followed, max)
    BY <1>2 DEF Reached
  <2>2. t.pc \in Pc /\ t.status \in {"open", "unmapped", "unsupported", "terminated"}
    BY <2>1 DEF State
  <2> QED BY <2>1, <2>2, LenProperties DEF Path
<1>4. EMPTY_PC \notin Pc
  BY AddrAssumption DEF EMPTY_PC
<1>5. CASE t.status = "terminated"
  <2>1. b = ABlock(t.insns, t.ranges, EMPTY_PC)
    BY <1>1, <1>5 DEF TranslateBlock
  <2>2. /\ b.status = "ok" /\ b.insns = t.insns /\ b.ranges = t.ranges /\ b.next = EMPTY_PC
    BY <2>1 DEF ABlock
  <2>3. /\ Len(t.insns) > 0 /\ Terminator(t.insns[Len(t.insns)].insn)
        /\ Covers(t.ranges, t.insns)
    BY <1>2, <1>5 DEF Reached
  <2>4. Len(t.insns) \in 1 .. max
    BY <1>3, <2>3
  <2> QED BY <1>3, <2>2, <2>3, <2>4 DEF Block
<1>6. CASE t.status = "open"
  <2> DEFINE ranges == IF t.pc # t.seg \/ t.ranges = {} THEN t.ranges \cup {<<t.seg, t.pc>>}
                       ELSE t.ranges
             last == t.insns[max]
  <2>1. b = ABlock(t.insns, ranges, t.pc)
    BY <1>1, <1>6 DEF TranslateBlock
  <2>2. b.status = "ok" /\ b.insns = t.insns /\ b.ranges = ranges /\ b.next = t.pc
    BY <2>1 DEF ABlock
  <2>3. Open(guest, pc, max, t, max)
    BY <1>2, <1>6 DEF Reached
  <2>4. Len(t.insns) = max /\ t.insns # <<>> /\ max \in 1 .. max /\ last.pc \in Word
    BY <1>3, <2>3 DEF Open, Path
  <2>5. ~Terminator(last.insn) /\ t.pc = last.pc + 4
    <3>1. last.insn.op # "b"
      BY <2>3 DEF Open
    <3>2. Reaches(pc, t.insns, t.pc)
      BY <2>3 DEF Open
    <3> QED BY <2>4, <3>1, <3>2 DEF Reaches, Following
  <2>6. t.seg \in Nat /\ t.pc \in Nat /\ t.seg <= t.pc /\ t.seg \in Addr /\ t.pc \in Addr
    <3>1. t.seg \in Pc /\ t.pc \in Pc
      BY <1>3 DEF State
    <3>2. t.seg <= t.pc
      BY <2>3 DEF Open
    <3>3. Pc \subseteq Nat /\ Pc \subseteq Addr
      BY AddrAssumption DEF Addr
    <3> QED BY <3>1, <3>2, <3>3
  <2>7. \A n \in 1 .. max : t.insns[n].pc \in Nat
    BY <1>3, <2>4, AfterWord DEF Path
  <2>8. \A n \in 1 .. max : \/ In(<<t.seg, t.pc>>, t.insns[n].pc)
                           \/ \E r \in t.ranges : In(r, t.insns[n].pc)
    BY <2>3 DEF Open
  <2>9. t.pc = t.seg => \A n \in 1 .. max : ~In(<<t.seg, t.pc>>, t.insns[n].pc)
    BY <2>6, <2>7 DEF In
  <2>10. Covers(ranges, t.insns)
    BY <2>4, <2>8, <2>9 DEF Covers
  <2>11. t.pc = t.seg => t.ranges # {}
    BY <2>4, <2>8, <2>9
  <2>12. Proper(ranges)
    BY <1>3, <2>6, <2>11 DEF Proper, Ranges
  <2> HIDE DEF ranges
  <2> QED BY <1>3, <1>4, <2>2, <2>4, <2>5, <2>10, <2>12 DEF Block
<1>7. CASE t.status \in {"unmapped", "unsupported"}
  <2>1. b = RollBack(t)
    BY <1>1, <1>7 DEF TranslateBlock
  <2>2. CASE t.followed.insns = <<>>
    <3>1. b.status = t.status
      BY <2>1, <2>2 DEF RollBack, NoBlock
    <3>2. Line(guest, pc, t.pc)
      BY <1>2, <1>7, <2>2 DEF Reached
    <3>3. \/ t.status = "unmapped" /\ t.pc \notin Word
          \/ t.status = "unsupported" /\ t.pc \in Word /\ guest[t.pc].op = "udf"
      BY <1>2, <1>7 DEF Reached
    <3> QED BY <1>3, <1>7, <3>1, <3>2, <3>3 DEF Failure
  <2>3. CASE t.followed.insns # <<>>
    <3>1. /\ b.status = "ok" /\ b.insns = t.followed.insns /\ b.ranges = t.followed.ranges
          /\ b.next = EMPTY_PC
      BY <2>1, <2>3 DEF RollBack, ABlock
    <3> QED BY <1>3, <2>3, <3>1 DEF Block, Chosen, Terminator
  <2> QED BY <2>2, <2>3
<1> QED BY <1>3, <1>5, <1>6, <1>7

-----------------------------------------------------------------------------
(* The retries of Jit::compile.                                            *)

\* The tables of results for lengths up to max in which the results for the
\* lengths in C are those of half the length.
Halved(max, C, B) ==
  {f \in [1 .. max -> {B[m] : m \in 1 .. max}] :
     \A m \in 1 .. max : f[m] = IF m \in C THEN f[m \div 2] ELSE B[m]}

\* Half of a length above 1 is a shorter length.
LEMMA HalfShorter ==
  ASSUME NEW m \in Nat, m > 1
  PROVE  m \div 2 \in 1 .. (m - 1)
BY SMT

\* Half of one of the first k + 1 lengths is one of the first k.
LEMMA HalfBelow ==
  ASSUME NEW k \in Nat, NEW max \in Nat, k + 1 <= max, NEW n \in Nat, n > 1, n <= k + 1
  PROVE  n \div 2 \in 1 .. max /\ n \div 2 # k + 1
<1>1. PICK h \in 1 .. (n - 1) : h = n \div 2
  BY HalfShorter
<1>2. h \in 1 .. max /\ h # k + 1
  OBVIOUS
<1> QED BY <1>1, <1>2

\* Such a table exists: it is filled from the shortest length up.
LEMMA HalvedExists ==
  ASSUME NEW max \in Nat \ {0}, NEW C \in SUBSET (2 .. max), NEW B
  PROVE  Halved(max, C, B) # {}
<1> DEFINE V == {B[m] : m \in 1 .. max}
           X == [1 .. max -> V]
           Fill(f, k) == [f EXCEPT ![k] = IF k \in C THEN f[k \div 2] ELSE B[k]]
           G == [e \in X \X (1 .. max) |-> Fill(e[1], e[2])]
           x0 == [m \in 1 .. max |-> B[m]]
<1>1. x0 \in X
  OBVIOUS
<1>2. ASSUME NEW f \in X, NEW k \in 1 .. max PROVE Fill(f, k) \in X
  <2>1. k \in C => k \div 2 \in 1 .. max
    <3> SUFFICES ASSUME k \in C PROVE k \div 2 \in 1 .. max
      OBVIOUS
    <3>1. k \in Nat /\ k > 1
      OBVIOUS
    <3>2. k \div 2 \in 1 .. (k - 1)
      BY <3>1, HalfShorter
    <3> QED BY <3>2
  <2>2. B[k] \in V
    OBVIOUS
  <2> HIDE DEF V
  <2>3. (IF k \in C THEN f[k \div 2] ELSE B[k]) \in V
    BY <2>1, <2>2
  <2> QED BY <2>3
<1>3. G \in [X \X (1 .. max) -> X]
  <2> HIDE DEF X, Fill
  <2> QED BY <1>2
<1>4. \A f \in X, k \in 1 .. max : G[<<f, k>>] = Fill(f, k)
  <2> HIDE DEF X, Fill
  <2> QED OBVIOUS
<1>5. PICK g \in [0 .. max -> X] : \A k \in 1 .. max : g[k] = Fill(g[k - 1], k)
  <2> HIDE DEF X, G, Fill, x0
  <2>1. Iterations(max, X, x0, G) # {}
    BY <1>1, <1>3, Recursion
  <2>2. PICK f \in [0 .. max -> X] : \A k \in 1 .. max : f[k] = G[<<f[k - 1], k>>]
    BY <2>1 DEF Iterations
  <2>3. \A k \in 1 .. max : f[k - 1] \in X
    BY <2>2
  <2> QED BY <1>4, <2>2, <2>3
<1> DEFINE Right(f, m) == f[m] = IF m \in C THEN f[m \div 2] ELSE B[m]
           S == {k \in Nat : k <= max => \A m \in 1 .. k : Right(g[k], m)}
<1>6. 0 \in S
  OBVIOUS
<1>7. ASSUME NEW k \in Nat, k \in S PROVE k + 1 \in S
  <2> SUFFICES ASSUME k + 1 <= max, NEW m \in 1 .. (k + 1) PROVE Right(g[k + 1], m)
    OBVIOUS
  <2>1. k \in 0 .. max /\ k + 1 \in 1 .. max /\ (k + 1) - 1 = k
    OBVIOUS
  <2>2. g[k] \in X /\ g[k + 1] = Fill(g[k], k + 1)
    BY <1>5, <2>1
  <2>3. \A n \in 1 .. max : n # k + 1 => g[k + 1][n] = g[k][n]
    BY <2>2
  <2>4. g[k + 1][k + 1] = IF k + 1 \in C THEN g[k][(k + 1) \div 2] ELSE B[k + 1]
    BY <2>1, <2>2
  <2>5. \A n \in C : n \in 1 .. (k + 1) =>
            n \div 2 \in 1 .. max /\ n \div 2 # k + 1
    <3> SUFFICES ASSUME NEW n \in C, n \in 1 .. (k + 1)
                 PROVE  n \div 2 \in 1 .. max /\ n \div 2 # k + 1
      OBVIOUS
    <3>1. n \in Nat /\ n > 1
      OBVIOUS
    <3>2. n <= k + 1
      OBVIOUS
    <3> QED BY <3>1, <3>2, HalfBelow
  <2>6. CASE m = k + 1
    BY <2>3, <2>4, <2>5, <2>6
  <2>7. CASE m # k + 1
    <3>1. m \in 1 .. k /\ m \in 1 .. max
      BY <2>7
    <3>2. Right(g[k], m)
      <4> HIDE DEF Right, Fill, G, X, V, x0
      <4>1. k <= max => \A j \in 1 .. k : Right(g[k], j)
        BY <1>7, Zenon
      <4>2. k <= max
        BY <2>1
      <4> QED BY <4>1, <4>2, <3>1
    <3> HIDE DEF Fill
    <3> QED BY <2>3, <2>5, <2>7, <3>1, <3>2
  <2> QED BY <2>6, <2>7
<1> HIDE DEF S
<1>8. max \in S
  BY <1>6, <1>7, SetInduction
<1>9. g[max] \in X /\ \A m \in 1 .. max : Right(g[max], m)
  <2>1. max \in 0 .. max /\ max <= max
    OBVIOUS
  <2>2. g[max] \in X
    <3> HIDE DEF X
    <3> QED BY <1>5, <2>1
  <2> HIDE DEF X, Right
  <2> QED BY <1>8, <2>1, <2>2 DEF S
<1> QED BY <1>9 DEF Halved

\* What Jit::compile hands to the install: the block for some number of
\* instructions, or the failure to translate one.
LEMMA EmittedFacts ==
  ASSUME NEW guest \in Code, NEW pc \in Pc, NEW max \in Nat \ {0}, NEW b,
         b = Emitted(guest, pc, max)
  PROVE  \/ b.status = "ok" /\ Block(guest, pc, max, b)
         \/ b.status \in {"unmapped", "unsupported"} /\ Failure(guest, pc, b.status)
<1> DEFINE B == [m \in 1 .. max |-> TranslateBlock(guest, pc, m)]
           C == {m \in 2 .. max : Len(B[m].insns) > SpillLimit}
           attempt == CHOOSE attempt : attempt = [m \in 1 .. max |->
             IF Len(TranslateBlock(guest, pc, m).insns) > SpillLimit /\ m > 1
             THEN attempt[m \div 2] ELSE TranslateBlock(guest, pc, m)]
<1>1. b = attempt[max]
  BY DEF Emitted
<1>2. \A m \in 1 .. max :
        (m \in C <=> Len(TranslateBlock(guest, pc, m).insns) > SpillLimit /\ m > 1)
        /\ B[m] = TranslateBlock(guest, pc, m)
  OBVIOUS
<1>3. PICK g : g \in Halved(max, C, B)
  <2>1. C \in SUBSET (2 .. max)
    OBVIOUS
  <2> HIDE DEF C, B
  <2> QED BY <2>1, HalvedExists
<1>4. g = [m \in 1 .. max |->
             IF Len(TranslateBlock(guest, pc, m).insns) > SpillLimit /\ m > 1
             THEN g[m \div 2] ELSE TranslateBlock(guest, pc, m)]
  <2> HIDE DEF C, B
  <2> DEFINE h == [m \in 1 .. max |->
             IF Len(TranslateBlock(guest, pc, m).insns) > SpillLimit /\ m > 1
             THEN g[m \div 2] ELSE TranslateBlock(guest, pc, m)]
  <2>1. \A m \in 1 .. max : g[m] = h[m]
    BY <1>2, <1>3 DEF Halved
  <2>2. g \in [1 .. max -> {B[m] : m \in 1 .. max}]
    BY <1>3 DEF Halved
  <2> QED BY <2>1, <2>2
<1>5. attempt = [m \in 1 .. max |->
             IF Len(TranslateBlock(guest, pc, m).insns) > SpillLimit /\ m > 1
             THEN attempt[m \div 2] ELSE TranslateBlock(guest, pc, m)]
  BY <1>4
<1> HIDE DEF attempt
<1>6. \A m \in 1 .. max : \/ attempt[m] = TranslateBlock(guest, pc, m)
                          \/ m > 1 /\ attempt[m] = attempt[m \div 2]
  BY <1>5
<1> DEFINE Short(m) == \E j \in 1 .. m : attempt[m] = TranslateBlock(guest, pc, j)
           S == {k \in Nat : \A m \in 1 .. max : m <= k => Short(m)}
<1>7. 0 \in S
  OBVIOUS
<1>8. ASSUME NEW k \in Nat, k \in S PROVE k + 1 \in S
  <2> SUFFICES ASSUME NEW m \in 1 .. max, m <= k + 1 PROVE Short(m)
    OBVIOUS
  <2>1. CASE attempt[m] = TranslateBlock(guest, pc, m)
    <3>1. m \in 1 .. m
      OBVIOUS
    <3> QED BY <2>1, <3>1
  <2>2. CASE m > 1 /\ attempt[m] = attempt[m \div 2]
    <3>1. m \div 2 \in 1 .. (m - 1)
      BY <2>2, HalfShorter
    <3>2. m \div 2 \in 1 .. max /\ m \div 2 <= k
      BY <3>1
    <3>3. PICK j \in 1 .. (m \div 2) : attempt[m \div 2] = TranslateBlock(guest, pc, j)
      BY <1>8, <3>2
    <3>4. j \in 1 .. m
      BY <3>1, <3>3
    <3> QED BY <2>2, <3>3, <3>4
  <2> QED BY <1>6, <2>1, <2>2
<1>9. max \in S
  <2> HIDE DEF S
  <2> QED BY <1>7, <1>8, SetInduction
<1>10. PICK j \in 1 .. max : b = TranslateBlock(guest, pc, j)
  <2>1. max \in 1 .. max
    OBVIOUS
  <2> QED BY <1>1, <1>9, <2>1
<1>11. Block(guest, pc, j, b) => Block(guest, pc, max, b)
  <2>1. Len(b.insns) \in 1 .. j => Len(b.insns) \in 1 .. max
    OBVIOUS
  <2> QED BY <2>1 DEF Block
<1>12. j \in Nat \ {0}
  OBVIOUS
<1> QED BY <1>10, <1>11, <1>12, TranslateBlockFacts

-----------------------------------------------------------------------------
(* Addresses, counts and blocks.                                           *)

\* Guest addresses are numbers below EMPTY_PC and not NoSkip.
LEMMA Addresses ==
  /\ Pc \subseteq Nat /\ Pc \subseteq Addr /\ EMPTY_PC \notin Pc /\ NoSkip \notin Pc
  /\ MaxAddr \in Nat /\ Word \subseteq Pc /\ Word \subseteq Nat
  /\ \A w \in Word : w + 4 \in Pc /\ After(w) = w + 4 /\ (w + 4 - 4) % (MaxAddr + 1) = w
<1>1. /\ Pc \subseteq Nat /\ Pc \subseteq Addr /\ EMPTY_PC \notin Pc /\ NoSkip \notin Pc
      /\ MaxAddr \in Nat /\ Word \subseteq Pc
  BY AddrAssumption, TranslatorAssumption, DispatcherAssumption DEF Addr, EMPTY_PC
<1>2. ASSUME NEW w \in Word
      PROVE  w + 4 \in Pc /\ After(w) = w + 4 /\ (w + 4 - 4) % (MaxAddr + 1) = w
  <2>1. w \in Nat /\ w + 4 \in Pc /\ After(w) = w + 4 /\ w + 4 < MaxAddr /\ MaxAddr \in Nat
    BY AfterWord
  <2>2. w + 4 - 4 = w /\ w % (MaxAddr + 1) = w
    BY <2>1
  <2> QED BY <2>1, <2>2
<1> QED BY <1>1, <1>2

\* The constants that count instructions.
LEMMA Counts ==
  /\ Limit \in Nat /\ Limit > 0 /\ MaxInsts \in Nat /\ MaxInsts > 0
  /\ Unlimited \in Nat /\ Unlimited = 2 * Limit + MaxInsts
  /\ \A b \in Budgets : b \in Nat /\ (b # Unlimited => b <= Limit)
BY DispatcherAssumption, TranslatorAssumption DEF Unlimited

\* What a block consists of.
LEMMA BlockFacts ==
  ASSUME NEW m \in Code, NEW pc, NEW b, Block(m, pc, MaxInsts, b)
  PROVE  /\ b.insns \in Seq(Step) /\ b.insns \in Steps /\ Len(b.insns) \in 1 .. MaxInsts
         /\ DOMAIN b.insns = 1 .. Len(b.insns)
         /\ \A n \in 1 .. Len(b.insns) :
              /\ b.insns[n] \in Step /\ b.insns[n].pc \in Word
              /\ b.insns[n].insn = m[b.insns[n].pc] /\ b.insns[n].insn.op # "udf"
         /\ b.insns[1].pc = pc /\ pc \in Pc
         /\ Proper(b.ranges) /\ NoWrap(b.ranges) /\ b.ranges \in SUBSET GuestRange
<1>1. /\ b.insns \in Seq(Step) /\ Len(b.insns) \in 1 .. MaxInsts /\ MaxInsts \in Nat
      /\ Proper(b.ranges)
  BY Counts DEF Block, Path
<1>2. /\ DOMAIN b.insns = 1 .. Len(b.insns) /\ Len(b.insns) \in Nat
      /\ b.insns \in [1 .. Len(b.insns) -> Step]
      /\ \A n \in 1 .. Len(b.insns) : b.insns[n] \in Step
  BY <1>1, LenProperties, ElementOfSeq
<1>3. b.insns \in Steps
  <2>1. Len(b.insns) \in 0 .. MaxInsts
    BY <1>1
  <2> QED BY <1>2, <2>1 DEF Steps
<1>4. b.insns[1].pc = pc /\ pc \in Pc
  <2>1. 1 \in 1 .. Len(b.insns) /\ Len(b.insns) > 0
    BY <1>1
  <2> QED BY <2>1, Addresses DEF Block, Path
<1>5. NoWrap(b.ranges) /\ b.ranges \in SUBSET GuestRange
  BY <1>1 DEF Proper, NoWrap, Ranges, GuestRange
<1> QED BY <1>1, <1>2, <1>3, <1>4, <1>5 DEF Block, Path

\* The last instruction of a block, and where its chain sites lead.
LEMMA LastFacts ==
  ASSUME NEW m \in Code, NEW pc, NEW b, Block(m, pc, MaxInsts, b), NEW s,
         s = b.insns[Len(b.insns)]
  PROVE  /\ Len(b.insns) \in 1 .. Len(b.insns)
         /\ s.pc \in Word /\ s.insn = m[s.pc] /\ s.insn \in Insn /\ s.insn.op # "udf"
         /\ b.next # EMPTY_PC => b.next \in Pc /\ ~Terminator(s.insn) /\ b.next = s.pc + 4
         /\ b.next = EMPTY_PC => Terminator(s.insn)
         /\ \A k \in Chain : ChainTarget(b, k) \in Pc \cup {EMPTY_PC}
<1>1. Len(b.insns) \in 1 .. Len(b.insns)
  <2>1. Len(b.insns) \in 1 .. MaxInsts /\ MaxInsts \in Nat
    BY BlockFacts, Counts
  <2> QED BY <2>1
<1>2. s.pc \in Word /\ s.insn = m[s.pc] /\ s.insn.op # "udf"
  BY <1>1, BlockFacts
<1>3. s.insn \in Insn
  BY <1>2 DEF Code
<1>4. /\ b.next # EMPTY_PC => b.next \in Pc /\ ~Terminator(s.insn) /\ b.next = s.pc + 4
      /\ b.next = EMPTY_PC => Terminator(s.insn)
  BY DEF Block
<1>5. ASSUME NEW k \in Chain PROVE ChainTarget(b, k) \in Pc \cup {EMPTY_PC}
  <2>1. s.insn.to \in Pc \cup {EMPTY_PC} /\ After(s.pc) \in Pc
    BY <1>2, <1>3, Addresses DEF Insn
  <2> QED BY <1>4, <2>1, DispatcherAssumption DEF ChainTarget
<1> QED BY <1>1, <1>2, <1>3, <1>4, <1>5

\* What compile hands to install_block is a block.
LEMMA EmissionType ==
  ASSUME NEW m \in Code, NEW pc, NEW b, Block(m, pc, MaxInsts, b), NEW e, e = Emission(b)
  PROVE  /\ e \in BlockRec /\ NoWrap(e.src) /\ e.src = b.ranges
         /\ e.size = HostSize[Len(b.insns)] /\ e.thunk = Certificate(b)
         /\ \A k \in Chain : e.targets[k] = ChainTarget(b, k)
<1>1. Len(b.insns) \in 1 .. MaxInsts /\ NoWrap(b.ranges) /\ b.ranges \in SUBSET GuestRange
  BY BlockFacts
<1>2. HostSize[Len(b.insns)] \in Nat \ {0}
  BY <1>1, DispatcherAssumption
<1>3. \A k \in Chain : ChainTarget(b, k) \in Pc \cup {EMPTY_PC}
  BY LastFacts
<1>4. Certificate(b) \in ThunkKind
  BY DEF Certificate, ThunkKind
<1>5. [k \in Chain |-> ChainTarget(b, k)] \in [Chain -> Pc \cup {EMPTY_PC}]
  BY <1>3
<1> QED BY <1>1, <1>2, <1>4, <1>5 DEF Emission, BlockRec

-----------------------------------------------------------------------------
(* The cache, the code in it and guest memory.                             *)

\* The blocks the cache holds lie below the cursor.
LEMMA HeldFacts ==
  ASSUME NEW c, CacheInv(c)
  PROVE  /\ c \in CacheRec /\ c.cursor \in Unit
         /\ \A p \in Pc : c.table[p].host # 0 => c.table[p].host \in Unit /\ c.table[p].host # c.cursor
         /\ \A e \in Pc \X Cap :
              c.capped[e].host # 0 => c.capped[e].host \in Unit /\ c.capped[e].host # c.cursor
<1>1. c \in CacheRec /\ c.cursor \in Unit /\ Unit \subseteq Nat
  BY SizeAssumption DEF CacheInv, CacheRec, Unit
<1>2. ASSUME NEW h \in Unit, c.image[h].size > 0, h + c.image[h].size <= c.cursor
      PROVE  h # c.cursor
  <2>1. c.image[h].size \in Nat
    BY <1>1 DEF CacheRec
  <2> QED BY <1>1, <1>2, <2>1
<1>3. ASSUME NEW p \in Pc, c.table[p].host # 0
      PROVE  c.table[p].host \in Unit /\ c.table[p].host # c.cursor
  <2>1. c.table[p].host \in Unit
    BY <1>1 DEF CacheRec, Entry
  <2> QED BY <1>2, <1>3, <2>1 DEF CacheInv, TableInv, Present
<1>4. ASSUME NEW e \in Pc \X Cap, c.capped[e].host # 0
      PROVE  c.capped[e].host \in Unit /\ c.capped[e].host # c.cursor
  <2>1. c.capped[e].host \in Unit
    BY <1>1 DEF CacheRec, CappedEntry
  <2> QED BY <1>2, <1>4, <2>1 DEF CacheInv, CappedInv
<1> QED BY <1>1, <1>3, <1>4

\* What install_block changes in the tables.
LEMMA InstalledTables ==
  ASSUME NEW c, CacheInv(c), NEW p \in Pc, NEW e \in BlockRec, NEW cap
  PROVE  LET d == InstallCached(c, p, e)
             l == InstallCapped(c, p, cap, e)
         IN  /\ d.table = [c.table EXCEPT ![p] = NewEntry(c.cursor, e)] /\ d.capped = c.capped
             /\ l.table = c.table
             /\ l.capped = [c.capped EXCEPT ![<<p, cap>>] =
                              [host |-> c.cursor, ranges |-> Normalise(e.src)]]
             /\ d.image = [c.image EXCEPT ![c.cursor] = [src |-> e.src, size |-> e.size]]
             /\ l.image = d.image
<1>1. c.table = [q \in Pc |-> c.table[q]]
  BY DEF CacheInv, CacheRec
<1> DEFINE a == AppendRaw(c, e)
           D == {q \in {p} : Present(a, q)}
           r == RemoveBlocks(a, D, [q \in Pc |-> 0])
           d == Publish(r, p, c.cursor, e)
           l == AddCapped(a, p, cap, c.cursor, e)
<1>2. /\ a.table = c.table /\ a.capped = c.capped
      /\ a.image = [c.image EXCEPT ![c.cursor] = [src |-> e.src, size |-> e.size]]
  BY DEF AppendRaw
<1> HIDE DEF a
<1>3. r.table = [q \in Pc |-> IF q \in D THEN NoEntry ELSE c.table[q]]
      /\ r.capped = c.capped /\ r.image = a.image
  BY <1>2 DEF RemoveBlocks
<1>4. \A q \in Pc : q # p => q \notin D
  OBVIOUS
<1> HIDE DEF r, D
<1>5. d.table = [r.table EXCEPT ![p] = NewEntry(c.cursor, e)] /\ d.capped = r.capped
      /\ d.image = r.image
  BY DEF Publish
<1>6. [r.table EXCEPT ![p] = NewEntry(c.cursor, e)] = [c.table EXCEPT ![p] = NewEntry(c.cursor, e)]
  BY <1>1, <1>3, <1>4
<1>7. /\ l.table = a.table /\ l.image = a.image
      /\ l.capped = [a.capped EXCEPT ![<<p, cap>>] = [host |-> c.cursor, ranges |-> Normalise(e.src)]]
  BY DEF AddCapped
<1>8. InstallCached(c, p, e) = d /\ InstallCapped(c, p, cap, e) = l
  BY DEF InstallCached, InstallCapped, a, D, r
<1> HIDE DEF d, l
<1> QED BY <1>2, <1>3, <1>5, <1>6, <1>7, <1>8

\* The bodies of the blocks, b with the block bl from p written at h.
Compiled(b, h, p, bl) == [b EXCEPT ![h] = [start |-> p, insns |-> bl.insns, next |-> bl.next]]

\* The code in the cache after the install of a block of guest memory.
LEMMA InstallCode ==
  ASSUME NEW m \in Code, NEW c, CacheInv(c), NEW B, NEW b \in [Unit -> B], CodeInv(c, b, m),
         NEW p \in Pc, NEW bl, Block(m, p, MaxInsts, bl), NEW cap
  PROVE  LET d == InstallCached(c, p, Emission(bl))
             l == InstallCapped(c, p, cap, Emission(bl))
             b2 == Compiled(b, c.cursor, p, bl)
         IN  /\ CodeInv(d, b2, m) /\ CodeInv(l, b2, m)
             /\ d.table[p].host = c.cursor
             /\ cap \in Cap => l.capped[<<p, cap>>].host = c.cursor
             /\ c.cursor \in Unit /\ c.cursor # 0
<1> DEFINE d == InstallCached(c, p, Emission(bl))
           l == InstallCapped(c, p, cap, Emission(bl))
           b2 == Compiled(b, c.cursor, p, bl)
<1>1. PICK e : e = Emission(bl)
  OBVIOUS
<1>2. PICK z : z = c.cursor
  OBVIOUS
<1>3. /\ e \in BlockRec /\ e.src = bl.ranges /\ e.thunk = Certificate(bl)
      /\ \A k \in Chain : e.targets[k] = ChainTarget(bl, k)
  BY <1>1, EmissionType
<1>4. /\ z \in Unit /\ z # 0
      /\ c \in CacheRec
      /\ \A q \in Pc : c.table[q].host # 0 => c.table[q].host \in Unit /\ c.table[q].host # z
      /\ \A x \in Pc \X Cap : c.capped[x].host # 0 => c.capped[x].host \in Unit /\ c.capped[x].host # z
  <2>1. z # 0
    BY <1>2, SizeAssumption DEF CacheInv, CacheRec, Unit, StubsEnd, MissStub, Base
  <2> QED BY <1>2, <2>1, HeldFacts
<1>5. /\ d.table = [c.table EXCEPT ![p] = NewEntry(z, e)] /\ d.capped = c.capped
      /\ l.table = c.table
      /\ l.capped = [c.capped EXCEPT ![<<p, cap>>] = [host |-> z, ranges |-> Normalise(e.src)]]
      /\ d.image = [c.image EXCEPT ![z] = [src |-> e.src, size |-> e.size]]
      /\ l.image = d.image
  BY <1>1, <1>2, <1>3, InstalledTables
<1>6. /\ b2[z].start = p /\ b2[z].insns = bl.insns /\ b2[z].next = bl.next
      /\ \A h \in Unit : h # z => b2[h] = b[h]
  BY <1>2, <1>4 DEF Compiled
<1>7. /\ d.image[z].src = bl.ranges
      /\ \A h \in Unit : h # z => d.image[h] = c.image[h]
  BY <1>3, <1>4, <1>5 DEF CacheRec
<1> HIDE DEF d, l, b2
<1>8. \A h \in Unit : h # z /\ BlockAt(c, b, m, h) => BlockAt(d, b2, m, h) /\ BlockAt(l, b2, m, h)
  BY <1>5, <1>6, <1>7 DEF BlockAt
<1>9. BlockAt(d, b2, m, z) /\ BlockAt(l, b2, m, z)
  <2>1. PICK r : r = [insns |-> bl.insns, ranges |-> bl.ranges, next |-> bl.next]
    OBVIOUS
  <2>2. Block(m, p, MaxInsts, r)
    <3>1. r.insns = bl.insns /\ r.ranges = bl.ranges /\ r.next = bl.next
      BY <2>1
    <3> QED BY <3>1 DEF Block
  <2> QED BY <1>5, <1>6, <1>7, <2>1, <2>2 DEF BlockAt
<1>10. /\ c.table = [q \in Pc |-> c.table[q]] /\ c.capped = [x \in Pc \X Cap |-> c.capped[x]]
  BY <1>4 DEF CacheRec
<1>11. /\ d.table[p] = NewEntry(z, e) /\ \A q \in Pc : q # p => d.table[q] = c.table[q]
       /\ cap \in Cap => l.capped[<<p, cap>>].host = z
       /\ \A x \in Pc \X Cap : x # <<p, cap>> => l.capped[x] = c.capped[x]
  BY <1>5, <1>10
<1>12. ASSUME NEW q \in Pc, c.table[q].host # 0, NEW h, h = c.table[q].host
       PROVE  /\ BlockAt(d, b2, m, h) /\ BlockAt(l, b2, m, h) /\ b2[h].start = q
              /\ c.table[q].thunk = Certificate(b2[h])
              /\ \A t \in Pc, k \in Chain :
                   <<t, <<h, k>>>> \in c.table[q].out => ChainTarget(b2[h], k) = t
  <2>1. h \in Unit /\ h # z /\ b2[h] = b[h]
    BY <1>4, <1>6, <1>12
  <2>2. /\ BlockAt(c, b, m, h) /\ b[h].start = q /\ c.table[q].thunk = Certificate(b[h])
        /\ \A t \in Pc, k \in Chain :
             <<t, <<h, k>>>> \in c.table[q].out => ChainTarget(b[h], k) = t
    BY <1>12 DEF CodeInv
  <2> QED BY <1>8, <2>1, <2>2
<1>13. ASSUME NEW x \in Pc \X Cap, c.capped[x].host # 0, NEW h, h = c.capped[x].host
       PROVE  BlockAt(d, b2, m, h) /\ BlockAt(l, b2, m, h) /\ b2[h].start = x[1]
  <2>1. h \in Unit /\ h # z /\ b2[h] = b[h]
    BY <1>4, <1>6, <1>13
  <2>2. BlockAt(c, b, m, h) /\ b[h].start = x[1]
    BY <1>13 DEF CodeInv
  <2> QED BY <1>8, <2>1, <2>2
<1>14. /\ d.table[p].host = z /\ d.table[p].thunk = Certificate(b2[z])
       /\ \A t \in Pc, k \in Chain :
            <<t, <<z, k>>>> \in d.table[p].out => ChainTarget(b2[z], k) = t
  <2>1. Certificate(b2[z]) = Certificate(bl)
    BY <1>6 DEF Certificate
  <2>2. \A k \in Chain : ChainTarget(b2[z], k) = ChainTarget(bl, k)
    BY <1>6 DEF ChainTarget
  <2>3. \A t \in Pc, k \in Chain : <<t, <<z, k>>>> \in NewEntry(z, e).out => e.targets[k] = t
    BY DEF NewEntry
  <2> QED BY <1>3, <1>11, <2>1, <2>2, <2>3 DEF NewEntry
<1>15. CodeInv(d, b2, m)
  <2>1. ASSUME NEW q \in Pc, d.table[q].host # 0, NEW h, h = d.table[q].host
        PROVE  /\ BlockAt(d, b2, m, h) /\ b2[h].start = q
               /\ d.table[q].thunk = Certificate(b2[h])
               /\ \A t \in Pc, k \in Chain :
                    <<t, <<h, k>>>> \in d.table[q].out => ChainTarget(b2[h], k) = t
    <3>1. CASE q = p
      BY <1>6, <1>9, <1>14, <2>1, <3>1
    <3>2. CASE q # p
      BY <1>11, <1>12, <2>1, <3>2
    <3> QED BY <3>1, <3>2
  <2>2. ASSUME NEW x \in Pc \X Cap, d.capped[x].host # 0
        PROVE  BlockAt(d, b2, m, d.capped[x].host) /\ b2[d.capped[x].host].start = x[1]
    BY <1>5, <1>13, <2>2
  <2> QED BY <2>1, <2>2 DEF CodeInv
<1>16. CodeInv(l, b2, m)
  <2>1. ASSUME NEW q \in Pc, l.table[q].host # 0, NEW h, h = l.table[q].host
        PROVE  /\ BlockAt(l, b2, m, h) /\ b2[h].start = q
               /\ l.table[q].thunk = Certificate(b2[h])
               /\ \A t \in Pc, k \in Chain :
                    <<t, <<h, k>>>> \in l.table[q].out => ChainTarget(b2[h], k) = t
    BY <1>5, <1>12, <2>1
  <2>2. ASSUME NEW x \in Pc \X Cap, l.capped[x].host # 0
        PROVE  BlockAt(l, b2, m, l.capped[x].host) /\ b2[l.capped[x].host].start = x[1]
    <3>1. CASE x = <<p, cap>>
      BY <1>6, <1>9, <1>11, <3>1
    <3>2. CASE x # <<p, cap>>
      BY <1>11, <1>13, <2>2, <3>2
    <3> QED BY <3>1, <3>2
  <2> QED BY <2>1, <2>2 DEF CodeInv
<1> QED BY <1>2, <1>4, <1>11, <1>14, <1>15, <1>16 DEF d, l, b2

\* A block that does not lie in what was reported is still one of guest memory.
LEMMA Untouched ==
  ASSUME NEW m \in Code, NEW n \in Code, NEW pc, NEW bl, Block(m, pc, MaxInsts, bl),
         NEW start \in Word, NEW last \in Word, start <= last,
         \A w \in Word : n[w] # m[w] => start <= w /\ w <= last,
         ~Doomed(Normalise(bl.ranges), start, last + 4 - start)
  PROVE  Block(n, pc, MaxInsts, bl)
<1>1. /\ start \in Nat /\ last \in Nat /\ start + (last + 4 - start) = last + 4
  BY Addresses
<1>2. \A r \in Normalise(bl.ranges) : ~(r[1] < last + 4 /\ r[2] > start)
  BY <1>1 DEF Doomed, Overlaps
<1>3. ASSUME NEW i \in 1 .. Len(bl.insns)
      PROVE  n[bl.insns[i].pc] = m[bl.insns[i].pc]
  <2>1. PICK w : w = bl.insns[i].pc
    OBVIOUS
  <2>2. w \in Word /\ w \in Nat
    BY <2>1, BlockFacts, Addresses
  <2>3. PICK r \in bl.ranges : In(r, w)
    BY <2>1 DEF Block, Covers
  <2>4. r[1] < r[2] /\ r[1] \in Nat /\ r[2] \in Nat
    BY <2>3, AddrAssumption DEF Block, Proper, Ranges, Addr
  <2>5. <<r[1], r[2]>> \in Normalise(bl.ranges)
    <3>1. <<r[1], IF r[2] <= r[1] THEN MaxAddr ELSE r[2]>> \in Normalise(bl.ranges)
      BY <2>3 DEF Normalise
    <3> QED BY <2>4, <3>1
  <2>6. ~(r[1] < last + 4 /\ r[2] > start)
    <3>1. PICK x : x = <<r[1], r[2]>>
      OBVIOUS
    <3>2. x[1] = r[1] /\ x[2] = r[2] /\ ~(x[1] < last + 4 /\ x[2] > start)
      BY <1>2, <2>5, <3>1
    <3> QED BY <3>2
  <2>7. r[1] <= w /\ w + 4 <= r[2]
    BY <2>3 DEF In
  <2>8. ~(start <= w /\ w <= last)
    BY <1>1, <2>2, <2>4, <2>6, <2>7
  <2> QED BY <2>1, <2>2, <2>8
<1>4. Path(n, pc, bl.insns)
  BY <1>3 DEF Block, Path
<1> QED BY <1>4 DEF Block

\* Invalidation keeps the cache in step with guest memory.
LEMMA RewriteCode ==
  ASSUME NEW m \in Code, NEW n \in Code, NEW c, CacheInv(c), NEW b, CodeInv(c, b, m),
         NEW start \in Word, NEW last \in Word, start <= last,
         \A w \in Word : n[w] # m[w] => start <= w /\ w <= last,
         NEW ord \in [Pc -> Nat]
  PROVE  LET d == InvalidateRange(c, start, last + 4 - start, ord) IN
         CacheInv(d) /\ CodeInv(d, b, n)
<1> DEFINE d == InvalidateRange(c, start, last + 4 - start, ord)
<1>1. PICK len : len = last + 4 - start
  OBVIOUS
<1>2. start \in Addr /\ len \in Addr
  <2>1. start \in Nat /\ last \in Nat /\ last + 4 \in Addr /\ MaxAddr \in Nat /\ start \in Addr
    BY Addresses
  <2> QED BY <1>1, <2>1 DEF Addr
<1>3. CacheInv(d)
  BY <1>1, <1>2, InvalidateInv
<1>4. PICK D : D = {p \in Pc : Present(c, p) /\ Doomed(c.table[p].ranges, start, len)}
  OBVIOUS
<1>5. /\ d.table = [p \in Pc |-> IF p \in D THEN NoEntry ELSE c.table[p]]
      /\ d.capped = [k \in Pc \X Cap |-> IF Doomed(c.capped[k].ranges, start, len)
                                        THEN NoCapped ELSE c.capped[k]]
      /\ d.image = c.image
  BY <1>1, <1>4 DEF InvalidateRange, DropReported, RemoveBlocks
<1> HIDE DEF d
<1>6. ASSUME NEW h, BlockAt(c, b, m, h), ~Doomed(Normalise(c.image[h].src), start, len)
      PROVE  BlockAt(d, b, n, h)
  <2>1. PICK bl : bl = [insns |-> b[h].insns, ranges |-> c.image[h].src, next |-> b[h].next]
    OBVIOUS
  <2>2. Block(m, b[h].start, MaxInsts, bl) /\ bl.ranges = c.image[h].src
    BY <1>6, <2>1 DEF BlockAt
  <2>3. Block(n, b[h].start, MaxInsts, bl)
    BY <1>1, <1>6, <2>2, Untouched
  <2> QED BY <1>5, <2>1, <2>3 DEF BlockAt
<1>7. ASSUME NEW p \in Pc, d.table[p].host # 0, NEW h, h = d.table[p].host
      PROVE  /\ BlockAt(d, b, n, h) /\ b[h].start = p
             /\ d.table[p].thunk = Certificate(b[h])
             /\ \A t \in Pc, k \in Chain :
                  <<t, <<h, k>>>> \in d.table[p].out => ChainTarget(b[h], k) = t
  <2>1. p \notin D /\ d.table[p] = c.table[p]
    BY <1>5, <1>7 DEF NoEntry
  <2>2. c.table[p].ranges = Normalise(c.image[h].src)
    BY <1>7, <2>1 DEF CacheInv, TableInv, Present
  <2>3. ~Doomed(Normalise(c.image[h].src), start, len)
    BY <1>4, <1>7, <2>1, <2>2 DEF Present
  <2>4. /\ BlockAt(c, b, m, h) /\ b[h].start = p
        /\ c.table[p].thunk = Certificate(b[h])
        /\ \A t \in Pc, k \in Chain :
             <<t, <<h, k>>>> \in c.table[p].out => ChainTarget(b[h], k) = t
    BY <1>7, <2>1 DEF CodeInv
  <2> QED BY <1>6, <2>1, <2>3, <2>4
<1>8. ASSUME NEW e \in Pc \X Cap, d.capped[e].host # 0, NEW h, h = d.capped[e].host
      PROVE  BlockAt(d, b, n, h) /\ b[h].start = e[1]
  <2>1. d.capped[e] = c.capped[e] /\ ~Doomed(c.capped[e].ranges, start, len)
    BY <1>5, <1>8 DEF NoCapped
  <2>2. c.capped[e].ranges = Normalise(c.image[h].src)
    BY <1>8, <2>1 DEF CacheInv, CappedInv
  <2>3. BlockAt(c, b, m, h) /\ b[h].start = e[1]
    BY <1>8, <2>1 DEF CodeInv
  <2> QED BY <1>6, <2>1, <2>2, <2>3
<1>9. CodeInv(d, b, n)
  BY <1>7, <1>8 DEF CodeInv
<1> QED BY <1>3, <1>9 DEF d

-----------------------------------------------------------------------------
(* The block the runner is in, and the ways into one.                      *)

\* The cache holds a block at h.
Held(c, h) ==
  h # 0 /\ \/ \E p \in Pc : c.table[p].host = h
           \/ \E e \in Pc \X Cap : c.capped[e].host = h

\* What the code at h is, for bodies b and guest memory m.
Runs(b, m, h) ==
  /\ h \in Unit /\ b[h].start \in Pc
  /\ Len(b[h].insns) \in 1 .. MaxInsts /\ Len(b[h].insns) \in 1 .. Len(b[h].insns)
  /\ b[h].insns[1].pc = b[h].start
  /\ \A n \in 1 .. Len(b[h].insns) :
       LET s == b[h].insns[n] IN
       s \in Step /\ s.pc \in Word /\ s.insn = m[s.pc] /\ s.insn \in Insn /\ s.insn.op # "udf"
  /\ \A n \in 1 .. (Len(b[h].insns) - 1) :
       LET s == b[h].insns[n] IN
       (~Terminator(s.insn) \/ s.insn.op = "b") /\ b[h].insns[n + 1].pc = Following(s)
  /\ LET s == b[h].insns[Len(b[h].insns)] IN
     /\ b[h].next # EMPTY_PC => b[h].next \in Pc /\ ~Terminator(s.insn) /\ b[h].next = s.pc + 4
     /\ b[h].next = EMPTY_PC => Terminator(s.insn)

\* The code of a held block is a block of guest memory.
LEMMA HeldRuns ==
  ASSUME NEW m \in Code, NEW c, CacheInv(c), NEW b, CodeInv(c, b, m), NEW h, Held(c, h)
  PROVE  Runs(b, m, h)
<1>1. h \in Unit /\ BlockAt(c, b, m, h)
  <2>1. ASSUME NEW p \in Pc, c.table[p].host = h PROVE h \in Unit /\ BlockAt(c, b, m, h)
    BY <2>1, HeldFacts DEF Held, CodeInv
  <2>2. ASSUME NEW e \in Pc \X Cap, c.capped[e].host = h PROVE h \in Unit /\ BlockAt(c, b, m, h)
    BY <2>2, HeldFacts DEF Held, CodeInv
  <2> QED BY <2>1, <2>2 DEF Held
<1>2. PICK bl : bl = [insns |-> b[h].insns, ranges |-> c.image[h].src, next |-> b[h].next]
  OBVIOUS
<1>3. Block(m, b[h].start, MaxInsts, bl) /\ bl.insns = b[h].insns /\ bl.next = b[h].next
  BY <1>1, <1>2 DEF BlockAt
<1>4. /\ Len(bl.insns) \in 1 .. MaxInsts /\ bl.insns[1].pc = b[h].start /\ b[h].start \in Pc
      /\ \A n \in 1 .. Len(bl.insns) :
           /\ bl.insns[n] \in Step /\ bl.insns[n].pc \in Word
           /\ bl.insns[n].insn = m[bl.insns[n].pc] /\ bl.insns[n].insn.op # "udf"
  BY <1>3, BlockFacts
<1>5. /\ Len(bl.insns) \in 1 .. Len(bl.insns)
      /\ bl.next # EMPTY_PC => /\ bl.next \in Pc /\ ~Terminator(bl.insns[Len(bl.insns)].insn)
                               /\ bl.next = bl.insns[Len(bl.insns)].pc + 4
      /\ bl.next = EMPTY_PC => Terminator(bl.insns[Len(bl.insns)].insn)
  BY <1>3, LastFacts
<1>6. \A n \in 1 .. (Len(bl.insns) - 1) :
        /\ ~Terminator(bl.insns[n].insn) \/ bl.insns[n].insn.op = "b"
        /\ bl.insns[n + 1].pc = Following(bl.insns[n])
  BY <1>3 DEF Block, Path
<1>7. \A n \in 1 .. Len(bl.insns) : bl.insns[n].insn \in Insn
  BY <1>4 DEF Step
<1> QED BY <1>1, <1>3, <1>4, <1>5, <1>6, <1>7 DEF Runs

\* The block published under a PC is one from there.
LEMMA TableRuns ==
  ASSUME NEW m \in Code, NEW c, CacheInv(c), NEW b, CodeInv(c, b, m), NEW t \in Pc,
         NEW h, h = c.table[t].host, h # 0
  PROVE  Held(c, h) /\ b[h].start = t /\ c.table[t].thunk = Certificate(b[h])
BY DEF Held, CodeInv

\* A linked chain site leads to the block from its target.
LEMMA ChainFacts ==
  ASSUME NEW m \in Code, NEW c, CacheInv(c), NEW b, CodeInv(c, b, m), NEW h, Held(c, h),
         NEW k \in Chain, NEW g, g = c.rel[<<h, k>>], g # 0
  PROVE  Held(c, g) /\ b[g].start = ChainTarget(b[h], k) /\ LinkBlocks
<1>1. PICK p \in Pc : c.table[p].host = h
  BY DEF Held, CacheInv, CappedInv
<1>2. h \in Unit /\ Present(c, p)
  BY <1>1, HeldFacts DEF Held, Present
<1>3. PICK t \in Pc : <<t, <<h, k>>>> \in c.table[p].out
  BY <1>1, <1>2 DEF CacheInv, TableInv
<1>4. <<h, k>> \in Site
  BY <1>2 DEF Site
<1>5. c.rel[<<h, k>>] = c.table[t].host
  BY <1>3, <1>4 DEF CacheInv, LinkInv
<1>6. ChainTarget(b[h], k) = t
  BY <1>1, <1>2, <1>3 DEF CodeInv, Present
<1>7. Held(c, g) /\ b[g].start = t
  BY <1>5, TableRuns
<1>8. LinkBlocks
  BY <1>6, Addresses, DispatcherAssumption DEF ChainTarget
<1> QED BY <1>6, <1>7, <1>8

\* A dispatch slot that hits leads to the block from the PC it was probed with.
LEMMA ProbeFacts ==
  ASSUME NEW m \in Code, NEW c, CacheInv(c), NEW b, CodeInv(c, b, m), NEW t \in Pc,
         SlotHit(c, t), NEW g, g = c.dispatch[Index[t]].host
  PROVE  /\ g = c.table[t].host /\ c.meta[Index[t]] = Certificate(b[g])
         /\ Held(c, g) /\ b[g].start = t
<1>1. PICK s \in Slot : s = Index[t]
  BY SlotAssumption
<1>2. c.dispatch[s].pc = t /\ c.dispatch[s] # EmptySlot
  BY <1>1, Addresses DEF SlotHit, EmptySlot
<1>3. /\ Present(c, t) /\ g = c.table[t].host /\ c.meta[s] = c.table[t].thunk
  BY <1>1, <1>2 DEF CacheInv, DispatchInv
<1> QED BY <1>1, <1>3, TableRuns DEF Present

\* A lookup finds a block from the PC it was asked for, with its certificate.
LEMMA FoundFacts ==
  ASSUME NEW m \in Code, NEW c, CacheInv(c), NEW b, CodeInv(c, b, m), NEW t \in Pc,
         NEW f, f = Found(c, t), f.host # 0,
         NEW d, d = IF SlotHit(c, t) THEN c ELSE AfterLookup(c, t)
  PROVE  /\ CacheInv(d) /\ CodeInv(d, b, m)
         /\ Held(d, f.host) /\ b[f.host].start = t /\ f.thunk = Certificate(b[f.host])
<1>1. CASE SlotHit(c, t)
  BY <1>1, ProbeFacts DEF Found
<1>2. CASE ~SlotHit(c, t)
  <2>1. f.host = c.table[t].host /\ f.thunk = c.table[t].thunk
    BY <1>2 DEF Found
  <2>2. Held(c, f.host) /\ b[f.host].start = t /\ f.thunk = Certificate(b[f.host])
    BY <2>1, TableRuns
  <2>3. CacheInv(d)
    BY <1>2, <2>1, LookupInv DEF Present
  <2>4. d.table = c.table /\ d.capped = c.capped /\ d.image = c.image
    BY <1>2 DEF AfterLookup
  <2>5. CodeInv(d, b, m)
    BY <2>4 DEF CodeInv, BlockAt
  <2> QED BY <2>2, <2>3, <2>4, <2>5 DEF Held
<1> QED BY <1>1, <1>2

\* A cache that has been reset holds no block.
LEMMA ResetCode ==
  ASSUME NEW c, CacheInv(c), NEW b, NEW m
  PROVE  CacheInv(Reset(c)) /\ CodeInv(Reset(c), b, m)
<1>1. /\ \A p \in Pc : Reset(c).table[p].host = 0
      /\ \A e \in Pc \X Cap : Reset(c).capped[e].host = 0
  BY DEF Reset, NoEntry, NoCapped
<1> QED BY <1>1, ResetInv DEF CodeInv

-----------------------------------------------------------------------------
(* Compilation.                                                            *)

\* What translation gives: a block of guest memory of at most max instructions,
\* or the reason why there is none.
LEMMA TranslatedFacts ==
  ASSUME NEW m \in Programs, NEW p \in Pc, NEW max \in 1 .. MaxInsts, NEW b,
         b = Translated[<<m, p, max>>]
  PROVE  \/ b.status = "ok" /\ Block(m, p, MaxInsts, b) /\ Len(b.insns) <= max
         \/ b.status \in {"unmapped", "unsupported"} /\ Failure(m, p, b.status)
<1>1. m \in Code /\ max \in Nat \ {0} /\ MaxInsts \in Nat /\ max <= MaxInsts
  BY DispatcherAssumption, Counts
<1>2. b = Emitted(m, p, max)
  <2>1. PICK x : x = <<m, p, max>>
    OBVIOUS
  <2>2. x \in Programs \X Pc \X (1 .. MaxInsts) /\ x[1] = m /\ x[2] = p /\ x[3] = max
    BY <2>1
  <2> QED BY <2>1, <2>2 DEF Translated
<1>3. CASE b.status = "ok" /\ Block(m, p, max, b)
  <2>1. Len(b.insns) \in 1 .. max
    BY <1>3 DEF Block
  <2>2. Len(b.insns) \in 1 .. MaxInsts /\ Len(b.insns) <= max
    BY <1>1, <2>1
  <2>3. Block(m, p, MaxInsts, b)
    BY <1>3, <2>2 DEF Block
  <2> QED BY <1>3, <2>2, <2>3
<1> QED BY <1>1, <1>2, <1>3, EmittedFacts

\* Making room drops blocks at most, and succeeds when every block fits.
LEMMA RoomFacts ==
  ASSUME NEW c, CacheInv(c), NEW b, NEW m, CodeInv(c, b, m), NEW n \in 1 .. MaxInsts,
         NEW d, d = Room(c, HostSize[n])
  PROVE  CacheInv(d) /\ CodeInv(d, b, m) /\ (FitsEmpty => Fits(d, HostSize[n]))
<1>1. CASE Fits(c, HostSize[n])
  BY <1>1 DEF Room
<1>2. CASE ~Fits(c, HostSize[n])
  <2>1. d = Reset(c) /\ d.cursor = StubsEnd
    BY <1>2 DEF Room, Reset
  <2> QED BY <2>1, ResetCode DEF FitsEmpty, Fits
<1> QED BY <1>1, <1>2

Bodies == [Unit -> [start : Pc \cup {EMPTY_PC}, insns : Steps, next : Pc \cup {EMPTY_PC}]]

\* Jit::compile ends in a block from r.pc, or in a return.
LEMMA CompileStep ==
  ASSUME code \in Programs, CacheInv(cache), CodeInv(cache, body, code), body \in Bodies,
         NEW r, r.pc \in Pc, NEW cap \in 0 .. (MaxInsts - 1), Compile(r, cap)
  PROVE  /\ CacheInv(cache') /\ CodeInv(cache', body', code) /\ body' \in Bodies
         /\ \/ \E status \in {"unmapped", "unsupported"} :
                 Failure(code, r.pc, status) /\ Return(status, r.retired)
            \/ ~FitsEmpty /\ Return("error", r.retired)
            \/ /\ UNCHANGED <<outcome, due, done, late>>
               /\ \E h : /\ Held(cache', h) /\ body'[h].start = r.pc
                          /\ run' = Enter(r, h, Certificate(body'[h]))
<1>1. PICK max : max = IF cap = 0 \/ MaxInsts < cap THEN MaxInsts ELSE cap
  OBVIOUS
<1>2. PICK b : b = Translated[<<code, r.pc, max>>]
  OBVIOUS
<1>3. PICK e : e = Emission(b)
  OBVIOUS
<1>4. PICK c : c = Room(cache, e.size)
  OBVIOUS
<1>5. max \in 1 .. MaxInsts /\ code \in Code
  BY <1>1, Counts, DispatcherAssumption
<1>6. \/ b.status = "ok" /\ Block(code, r.pc, MaxInsts, b)
      \/ b.status \in {"unmapped", "unsupported"} /\ Failure(code, r.pc, b.status)
  BY <1>2, <1>5, TranslatedFacts
<1>7. CASE b.status # "ok"
  <2>1. Return(b.status, r.retired) /\ UNCHANGED <<cache, body>>
    BY <1>1, <1>2, <1>7 DEF Compile
  <2> QED BY <1>6, <1>7, <2>1
<1>8. CASE b.status = "ok"
  <2>1. Block(code, r.pc, MaxInsts, b)
    BY <1>6, <1>8
  <2>2. Len(b.insns) \in 1 .. MaxInsts /\ b.insns \in Steps /\ b.next \in Pc \cup {EMPTY_PC}
    BY <1>5, <2>1, BlockFacts DEF Block
  <2>3. e \in BlockRec /\ NoWrap(e.src) /\ e.size = HostSize[Len(b.insns)] /\ e.thunk = Certificate(b)
    BY <1>3, <1>5, <2>1, EmissionType
  <2>4. CacheInv(c) /\ CodeInv(c, body, code) /\ (FitsEmpty => Fits(c, e.size))
    BY <1>4, <2>2, <2>3, RoomFacts
  <2>5. CASE ~Fits(c, e.size)
    <3>1. Return("error", r.retired) /\ cache' = c /\ UNCHANGED body
      BY <1>1, <1>2, <1>3, <1>4, <1>8, <2>5 DEF Compile
    <3> QED BY <2>4, <2>5, <3>1
  <2>6. CASE Fits(c, e.size)
    <3>1. /\ cache' = IF cap = 0 THEN InstallCached(c, r.pc, e) ELSE InstallCapped(c, r.pc, cap, e)
          /\ body' = Compiled(body, c.cursor, r.pc, b)
          /\ run' = Enter(r, c.cursor, e.thunk)
          /\ UNCHANGED <<outcome, due, done, late>>
      BY <1>1, <1>2, <1>3, <1>4, <1>8, <2>6 DEF Compile, Compiled
    <3>2. cap # 0 => cap \in Cap
      BY Counts, DispatcherAssumption
    <3>3. CacheInv(cache')
      BY <2>3, <2>4, <2>6, <3>1, <3>2, InstallInv
    <3>4. LET d == InstallCached(c, r.pc, e)
              l == InstallCapped(c, r.pc, cap, e)
              b2 == Compiled(body, c.cursor, r.pc, b)
          IN  /\ CodeInv(d, b2, code) /\ CodeInv(l, b2, code)
              /\ d.table[r.pc].host = c.cursor
              /\ cap \in Cap => l.capped[<<r.pc, cap>>].host = c.cursor
              /\ c.cursor \in Unit /\ c.cursor # 0
      <4>1. PICK B : body \in [Unit -> B]
        BY DEF Bodies
      <4> QED BY <1>3, <1>5, <2>1, <2>4, <4>1, InstallCode
    <3>5. CodeInv(cache', body', code) /\ Held(cache', c.cursor) /\ c.cursor \in Unit
      BY <3>1, <3>2, <3>4 DEF Held
    <3>6. body' \in Bodies /\ body'[c.cursor].start = r.pc /\ Certificate(body'[c.cursor]) = Certificate(b)
      BY <2>2, <3>1, <3>5 DEF Bodies, Compiled, Certificate
    <3> QED BY <2>3, <3>1, <3>3, <3>5, <3>6
  <2> QED BY <2>5, <2>6
<1> QED BY <1>7, <1>8

-----------------------------------------------------------------------------
(* The invariant, taken apart and put together again.                      *)

CtxType == [pc : Pc, halt : BOOLEAN, fault : BOOLEAN, skip : Pc \cup {NoSkip}]
RunType == [at : {"idle", "loop", "entry", "body", "exit"}, budget : Counter,
            retired : Counter, pc : Pc \cup {EMPTY_PC}, slice : Counter,
            charged : Counter, host : Unit, thunk : ThunkKind, capped : BOOLEAN,
            ip : 0 .. MaxInsts, exit : {"none", "pc", "svc", "brk"},
            next : Pc \cup {EMPTY_PC}]

\* The cache c, the bodies b and guest memory m agree.
Sound(c, b, m) == m \in Programs /\ CacheInv(c) /\ CodeInv(c, b, m) /\ b \in Bodies

Typed ==
  /\ ctx \in CtxType /\ run \in RunType
  /\ due \in Pc \cup {EMPTY_PC} /\ done \in Counter /\ late \in 0 .. (MaxInsts + 1)

Parts ==
  IdleInv /\ LoopInv /\ SliceInv /\ HostInv /\ BodyInv /\ ExitInv /\ CountInv /\ LateInv
  /\ ResumeInv

\* What a state of the invariant consists of.
LEMMA Decompose ==
  ASSUME Inductive
  PROVE  Sound(cache, body, code) /\ Typed /\ Parts /\ code \in Code
BY DispatcherAssumption DEF Inductive, TypeOK, Sound, Typed, Parts, Bodies, CtxType, RunType

\* The state a step leads to, put together.
LEMMA Compose ==
  ASSUME Sound(cache', body', code'), Typed', Parts'
  PROVE  Inductive'
<1>1. code' \in Code /\ cache'.cursor \in Unit /\ DOMAIN cache'.table = Pc
  BY DispatcherAssumption DEF Sound, CacheInv, CacheRec
<1> QED BY <1>1 DEF Inductive, TypeOK, Sound, Typed, Parts, Bodies, CtxType, RunType

\* Sums of counts: with one more part moved from one side to the other.
LEMMA PlusFacts ==
  ASSUME NEW a \in Nat, NEW b \in Nat
  PROVE  /\ Plus(a, b) \in Nat /\ Plus(a, b) <= Limit /\ Plus(a, b) \in Counter
         /\ a + b > 0 => Plus(a, b) > 0
         /\ Plus(a, 0) = a \/ a > Limit
         /\ \A n \in Nat : /\ Plus(a, Plus(b, n)) = Plus(Plus(a, b), n)
                          /\ Plus(a, b + n) = Plus(Plus(a, b), n)
<1>1. Limit \in Nat /\ Limit > 0 /\ Unlimited \in Nat /\ Limit <= Unlimited
  BY Counts
<1>2. Plus(a, b) \in Nat /\ Plus(a, b) <= Limit /\ Plus(a, b) \in Counter
  BY <1>1 DEF Plus, Counter
<1>3. (a + b > 0 => Plus(a, b) > 0) /\ (Plus(a, 0) = a \/ a > Limit)
  BY <1>1 DEF Plus
<1>4. ASSUME NEW n \in Nat
      PROVE  /\ Plus(a, Plus(b, n)) = Plus(Plus(a, b), n)
             /\ Plus(a, b + n) = Plus(Plus(a, b), n)
  BY <1>1 DEF Plus
<1> QED BY <1>2, <1>3, <1>4

-----------------------------------------------------------------------------
(* The steps that end a run, or begin one.                                 *)

\* The runner between two runs.
LEMMA IdleFacts ==
  /\ Idle.at = "idle" /\ Idle.budget = 0 /\ Idle.retired = 0 /\ Idle.charged = 0
  /\ Idle.slice = 0 /\ Idle \in RunType
<1>1. 0 \in Counter /\ 0 \in Unit /\ 0 \in 0 .. MaxInsts
  BY Counts, SizeAssumption DEF Counter, Unit
<1> QED BY <1>1 DEF Idle, RunType, ThunkKind

\* Where a run has returned the invariant holds.
LEMMA ReturnInv ==
  ASSUME Sound(cache', body', code'), ctx' \in CtxType, NEW reason, NEW retired,
         Return(reason, retired)
  PROVE  Inductive'
<1>1. run' = Idle /\ due' = EMPTY_PC /\ done' = 0 /\ late' = 0
  BY DEF Return
<1>2. /\ Idle.at = "idle" /\ Idle.budget = 0 /\ Idle.retired = 0 /\ Idle.charged = 0
      /\ Idle.slice = 0 /\ Idle \in RunType
  BY IdleFacts
<1>3. Typed'
  BY <1>1, <1>2, Counts DEF Typed, Counter
<1>4. IdleInv' /\ LoopInv' /\ SliceInv' /\ HostInv' /\ BodyInv' /\ ExitInv'
  BY <1>1, <1>2 DEF IdleInv, LoopInv, SliceInv, HostInv, BodyInv, ExitInv
<1>5. CountInv'
  <2>1. Owed' = 0
    BY <1>1, <1>2 DEF Owed
  <2> QED BY <1>1, <1>2, <2>1, Counts DEF CountInv, Sum
<1>6. LateInv' /\ ResumeInv'
  BY <1>1, <1>2, Counts DEF LateInv, ResumeInv
<1> QED BY <1>3, <1>4, <1>5, <1>6, Compose DEF Parts

\* The initial states satisfy the invariant.
LEMMA InitInv == Init => Inductive
<1> SUFFICES ASSUME Init PROVE Inductive
  OBVIOUS
<1>1. CacheInv(cache) /\ code \in Programs /\ code \in Code
  BY NewCacheInv, DispatcherAssumption DEF Init
<1>2. CodeInv(cache, body, code)
  <2>1. (\A p \in Pc : cache.table[p].host = 0) /\ (\A e \in Pc \X Cap : cache.capped[e].host = 0)
    BY DEF Init, NewCache, NoEntry, NoCapped
  <2> QED BY <2>1 DEF CodeInv
<1>3. body \in [Unit -> [start : Pc \cup {EMPTY_PC}, insns : Steps, next : Pc \cup {EMPTY_PC}]]
  <2>1. <<>> \in Steps
    <3>1. 0 \in 0 .. MaxInsts /\ <<>> \in [1 .. 0 -> Step]
      BY Counts
    <3> QED BY <3>1 DEF Steps
  <2> QED BY <2>1 DEF Init
<1>4. /\ Idle.at = "idle" /\ Idle.budget = 0 /\ Idle.retired = 0 /\ Idle.charged = 0
      /\ Idle.slice = 0 /\ Idle \in RunType
  BY IdleFacts
<1>5. run = Idle /\ due = EMPTY_PC /\ done = 0 /\ late = 0 /\ ctx \in CtxType
  BY DEF Init, CtxType
<1>6. TypeOK
  <2>1. cache.cursor \in Unit /\ DOMAIN cache.table = Pc
    BY <1>1 DEF CacheInv, CacheRec
  <2>2. run \in RunType /\ done \in Counter /\ late \in 0 .. (MaxInsts + 1)
    BY <1>4, <1>5, Counts DEF Counter
  <2> QED BY <1>1, <1>3, <1>5, <2>1, <2>2 DEF TypeOK, CtxType, RunType
<1>7. IdleInv /\ LoopInv /\ SliceInv /\ HostInv /\ BodyInv /\ ExitInv
  BY <1>4, <1>5 DEF IdleInv, LoopInv, SliceInv, HostInv, BodyInv, ExitInv
<1>8. CountInv
  <2>1. Owed = 0
    BY <1>4, <1>5 DEF Owed
  <2> QED BY <1>4, <1>5, <2>1, Counts DEF CountInv, Sum
<1>9. LateInv /\ ResumeInv
  BY <1>4, <1>5, Counts DEF LateInv, ResumeInv
<1> QED BY <1>1, <1>2, <1>6, <1>7, <1>8, <1>9 DEF Inductive

\* Guest code is written between runs, and reported.
LEMMA RewriteInv ==
  ASSUME Inductive, NEW new \in Programs, NEW ord \in [Pc -> Nat], Rewrite(new, ord)
  PROVE  Inductive'
<1>1. Sound(cache, body, code) /\ Typed /\ Parts /\ code \in Code /\ new \in Code
  BY Decompose, DispatcherAssumption
<1> DEFINE changed == {w \in Word : new[w] # code[w]}
<1>2. PICK start : start = CHOOSE w \in changed : \A v \in changed : w <= v
  OBVIOUS
<1>3. PICK last : last = CHOOSE w \in changed : \A v \in changed : w >= v
  OBVIOUS
<1>4. /\ run.at = "idle" /\ changed # {} /\ code' = new
      /\ cache' = InvalidateRange(cache, start, last + 4 - start, ord)
      /\ body' = body /\ ctx' = ctx /\ run' = run /\ outcome' = outcome
      /\ due' = due /\ done' = done /\ late' = late
  BY <1>2, <1>3 DEF Rewrite
<1>5. start \in changed /\ \A v \in changed : start <= v
  <2>1. changed \in SUBSET Nat
    BY Addresses
  <2>2. \E w \in changed : \A v \in changed : w <= v
    BY <1>4, <2>1, LeastNatural
  <2> QED BY <1>2, <2>2
<1>6. last \in changed /\ \A v \in changed : last >= v
  <2>1. MaxAddr \in Nat /\ \A w \in changed : w \in Nat /\ w <= MaxAddr
    BY Addresses DEF Addr
  <2>2. PICK T : T = {MaxAddr - w : w \in changed}
    OBVIOUS
  <2>3. T \in SUBSET Nat /\ T # {}
    BY <1>4, <2>1, <2>2
  <2>4. PICK m \in T : \A n \in T : m <= n
    BY <2>3, LeastNatural
  <2>5. PICK w \in changed : m = MaxAddr - w
    BY <2>2, <2>4
  <2>6. ASSUME NEW v \in changed PROVE w >= v
    <3>1. MaxAddr - v \in T
      BY <2>2
    <3>2. MaxAddr - w <= MaxAddr - v
      BY <2>4, <2>5, <3>1
    <3>3. w \in Nat /\ v \in Nat
      BY <2>1
    <3> HIDE DEF changed
    <3> QED BY <2>1, <3>2, <3>3
  <2> QED BY <1>3, <2>6
<1>7. /\ start \in Word /\ last \in Word /\ start <= last
      /\ \A w \in Word : new[w] # code[w] => start <= w /\ w <= last
  <2>1. start \in Nat /\ last \in Nat /\ \A w \in Word : w \in Nat
    BY <1>5, <1>6, Addresses
  <2> QED BY <1>5, <1>6, <2>1
<1> HIDE DEF changed
<1>8. CacheInv(cache') /\ CodeInv(cache', body, new)
  BY <1>1, <1>4, <1>7, RewriteCode DEF Sound
<1>9. Sound(cache', body', code')
  BY <1>1, <1>4, <1>8 DEF Sound
<1>10. run = Idle /\ due = EMPTY_PC /\ done = 0 /\ late = 0 /\ ctx \in CtxType
  BY <1>1, <1>4 DEF Parts, IdleInv, LateInv, Typed
<1>11. Typed'
  BY <1>1, <1>4 DEF Typed
<1>12. IdleInv' /\ LoopInv' /\ SliceInv' /\ HostInv' /\ BodyInv' /\ ExitInv'
  BY <1>4, <1>10, IdleFacts DEF IdleInv, LoopInv, SliceInv, HostInv, BodyInv, ExitInv
<1>13. CountInv'
  <2>1. Owed' = 0
    BY <1>4 DEF Owed
  <2> QED BY <1>4, <1>10, <2>1, Counts, IdleFacts DEF CountInv, Sum
<1>14. LateInv' /\ ResumeInv'
  BY <1>4, <1>10, Counts DEF LateInv, ResumeInv
<1> QED BY <1>9, <1>11, <1>12, <1>13, <1>14, Compose DEF Parts

\* The embedder sets the PC, and a halt is requested: only ctx changes.
LEMMA ContextInv ==
  ASSUME Inductive, RequestHalt \/ \E p \in Pc : SetPc(p)
  PROVE  Inductive'
<1>1. Sound(cache, body, code) /\ Typed /\ Parts
  BY Decompose
<1>2. UNCHANGED <<code, cache, body, run, outcome, due, done, late>>
  BY DEF RequestHalt, SetPc
<1>3. Sound(cache', body', code')
  BY <1>1, <1>2 DEF Sound
<1>4. /\ ctx' \in CtxType /\ ctx'.fault = ctx.fault /\ ctx'.skip = ctx.skip
      /\ ctx.halt => ctx'.halt
      /\ run.at # "idle" => ctx'.pc = ctx.pc
  BY <1>1 DEF RequestHalt, SetPc, Typed, CtxType
<1>5. Typed'
  BY <1>1, <1>2, <1>4 DEF Typed
<1>6. IdleInv' /\ LoopInv' /\ SliceInv' /\ HostInv' /\ BodyInv'
  BY <1>1, <1>2, <1>4 DEF Parts, IdleInv, LoopInv, SliceInv, HostInv, BodyInv, LiveHosts
<1>7. ExitInv'
  BY <1>1, <1>2, <1>4 DEF Parts, ExitInv, Pending
<1>8. CountInv'
  BY <1>1, <1>2 DEF Parts, CountInv, Sum, Owed
<1>9. LateInv'
  BY <1>1, <1>2, <1>4 DEF Parts, LateInv, Pending
<1>10. ResumeInv'
  BY <1>1, <1>2, <1>4 DEF Parts, ResumeInv, Resume
<1> QED BY <1>3, <1>5, <1>6, <1>7, <1>8, <1>9, <1>10, Compose DEF Parts

\* run_bounded is called.
LEMMA CallInv ==
  ASSUME Inductive, NEW b \in Budgets, Call(b)
  PROVE  Inductive'
<1>1. Sound(cache, body, code) /\ Typed /\ Parts
  BY Decompose
<1>2. /\ UNCHANGED <<code, cache, body, due, done, late>>
      /\ run.at = "idle" /\ run' = [Idle EXCEPT !.at = "loop", !.budget = b]
      /\ ctx' = [ctx EXCEPT !.fault = FALSE, !.skip = NoSkip]
  BY DEF Call
<1>3. Sound(cache', body', code')
  BY <1>1, <1>2 DEF Sound
<1>4. /\ ctx' \in CtxType /\ ~ctx'.fault /\ ctx'.skip = NoSkip
  BY <1>1, <1>2 DEF Typed, CtxType
<1>5. b \in Counter /\ b \in Budgets
  BY Counts DEF Counter
<1>6. /\ run'.at = "loop" /\ run'.budget = b /\ run'.retired = 0 /\ run'.charged = 0
      /\ run'.slice = 0 /\ run' \in RunType
  BY <1>2, <1>5, IdleFacts DEF RunType
<1>7. run = Idle /\ due = EMPTY_PC /\ done = 0 /\ late = 0
  BY <1>1, <1>2 DEF Parts, IdleInv, LateInv
<1>8. Typed'
  BY <1>1, <1>2, <1>4, <1>6 DEF Typed
<1>9. IdleInv' /\ LoopInv' /\ SliceInv' /\ HostInv' /\ BodyInv' /\ ExitInv'
  BY <1>4, <1>5, <1>6 DEF IdleInv, LoopInv, SliceInv, HostInv, BodyInv, ExitInv
<1>10. CountInv'
  <2>1. Owed' = 0
    BY <1>6 DEF Owed
  <2> QED BY <1>2, <1>6, <1>7, <2>1, Counts DEF CountInv, Sum, Plus
<1>11. LateInv' /\ ResumeInv'
  BY <1>2, <1>4, <1>6, <1>7, Counts DEF LateInv, ResumeInv
<1> QED BY <1>3, <1>8, <1>9, <1>10, <1>11, Compose DEF Parts

-----------------------------------------------------------------------------
(* The dispatcher's steps into generated code.                             *)

\* What holds in run_bounded outside generated code, for the locals r.
Ready(r) ==
  /\ run.at # "idle" /\ run.charged = 0 /\ ~Pending
  /\ r \in RunType /\ r.pc = ctx.pc /\ r.budget = run.budget /\ r.retired = run.retired
  /\ r.retired < r.budget /\ r.slice = r.budget - r.retired

\* A block is entered from the dispatcher.
LEMMA EnterInv ==
  ASSUME Inductive, NEW r, Ready(r), run.at \in {"loop", "exit"},
         Sound(cache', body', code'), UNCHANGED <<code, ctx, due, done, late>>,
         NEW h, Held(cache', h), body'[h].start = r.pc,
         NEW thunk \in {"Full", Certificate(body'[h])}, run' = Enter(r, h, thunk)
  PROVE  Inductive'
<1>1. Sound(cache, body, code) /\ Typed /\ Parts
  BY Decompose
<1>2. code' \in Code /\ Runs(body', code', h)
  BY DispatcherAssumption, HeldRuns DEF Sound
<1>3. h \in Unit /\ thunk \in ThunkKind /\ h # 0
  BY <1>2 DEF Runs, Certificate, ThunkKind, Held
<1>4. /\ run'.at = "entry" /\ run'.charged = 0 /\ run'.host = h
      /\ run'.thunk = IF LinkBlocks THEN "Full" ELSE thunk
      /\ run'.pc = r.pc /\ run'.budget = r.budget /\ run'.retired = r.retired
      /\ run'.slice = r.slice /\ run' \in RunType
  <2>1. 0 \in Counter /\ "Full" \in ThunkKind
    BY Counts DEF Counter, ThunkKind
  <2> QED BY <1>3, <2>1 DEF Enter, Ready, RunType
<1>5. Typed'
  BY <1>1, <1>4 DEF Typed
<1>6. ctx' = ctx /\ ~ctx.fault /\ ~ctx.halt /\ ctx.pc \in Pc
  BY <1>1 DEF Ready, Pending, Typed, CtxType
<1>7. IdleInv'
  BY <1>1, <1>4, <1>6 DEF Parts, IdleInv, Ready
<1>8. SliceInv'
  BY <1>4, <1>6 DEF SliceInv, Ready
<1>9. HostInv'
  <2>1. h \in LiveHosts' \ {0}
    BY DEF Held, LiveHosts
  <2>2. run'.thunk = "Full" \/ Certificate(body'[run'.host]) = "XmmFree"
    BY <1>4 DEF Certificate
  <2> QED BY <1>4, <2>1, <2>2 DEF HostInv
<1>10. LoopInv' /\ BodyInv' /\ ExitInv' /\ ResumeInv'
  BY <1>4, <1>6 DEF LoopInv, BodyInv, ExitInv, ResumeInv
<1>11. CountInv'
  <2>1. Owed' = 0 /\ Owed = 0 /\ run.charged = 0
    BY <1>4 DEF Owed, Ready
  <2>2. run.retired \in Nat /\ run'.slice \in Nat
    BY <1>1, <1>4, Counts DEF Typed, RunType, Counter
  <2> QED BY <1>1, <1>4, <2>1, <2>2 DEF Parts, CountInv, Sum, Ready
<1>12. LateInv'
  BY <1>1, <1>4, <1>6 DEF Parts, LateInv, Ready, Pending
<1> QED BY <1>5, <1>7, <1>8, <1>9, <1>10, <1>11, <1>12, Compose DEF Parts

\* A compilation ends in a block, or in a return.
LEMMA CompileInv ==
  ASSUME Inductive, NEW r, Ready(r), run.at \in {"loop", "exit"},
         NEW cap \in 0 .. (MaxInsts - 1), Compile(r, cap), UNCHANGED <<code, ctx>>
  PROVE  Inductive'
<1>1. Sound(cache, body, code) /\ Typed /\ Parts
  BY Decompose
<1>2. r.pc \in Pc
  BY <1>1 DEF Ready, Typed, CtxType
<1>3. /\ CacheInv(cache') /\ CodeInv(cache', body', code) /\ body' \in Bodies
      /\ \/ \E status \in {"unmapped", "unsupported"} : Return(status, r.retired)
         \/ Return("error", r.retired)
         \/ /\ UNCHANGED <<outcome, due, done, late>>
            /\ \E h : /\ Held(cache', h) /\ body'[h].start = r.pc
                       /\ run' = Enter(r, h, Certificate(body'[h]))
  <2>1. code \in Programs /\ CacheInv(cache) /\ CodeInv(cache, body, code) /\ body \in Bodies
    BY <1>1 DEF Sound
  <2> QED BY <1>2, <2>1, CompileStep
<1>4. Sound(cache', body', code')
  BY <1>1, <1>3 DEF Sound
<1>5. ctx' \in CtxType
  BY <1>1 DEF Typed
<1>6. CASE \E reason : Return(reason, r.retired)
  BY <1>4, <1>5, <1>6, ReturnInv
<1>7. CASE /\ UNCHANGED <<outcome, due, done, late>>
           /\ \E h : /\ Held(cache', h) /\ body'[h].start = r.pc
                      /\ run' = Enter(r, h, Certificate(body'[h]))
  <2>1. PICK h : /\ Held(cache', h) /\ body'[h].start = r.pc
                 /\ run' = Enter(r, h, Certificate(body'[h]))
    BY <1>7
  <2> QED BY <1>4, <1>7, <2>1, EnterInv
<1> QED BY <1>3, <1>6, <1>7

\* The loop's returns.
LEMMA LoopReturnInv ==
  ASSUME Inductive, LoopHalted \/ LoopBudget
  PROVE  Inductive'
<1>1. Sound(cache, body, code) /\ Typed
  BY Decompose
<1>2. Sound(cache', body', code')
  BY <1>1 DEF LoopHalted, LoopBudget, Sound
<1>3. ctx' \in CtxType
  BY <1>1 DEF LoopHalted, LoopBudget, Typed, CtxType
<1>4. \E reason : Return(reason, run.retired)
  BY DEF LoopHalted, LoopBudget
<1> QED BY <1>2, <1>3, <1>4, ReturnInv

\* The locals with which the loop looks for a block.
Sliced == [run EXCEPT !.pc = ctx.pc, !.slice = run.budget - run.retired, !.capped = FALSE]

\* With these locals the loop may enter the block at ctx.pc, or compile it.
LEMMA SlicedReady ==
  ASSUME Inductive, run.at = "loop", ~ctx.halt, run.retired < run.budget
  PROVE  Ready(Sliced)
<1>1. Typed /\ Parts
  BY Decompose
<1>2. run \in RunType /\ ctx.pc \in Pc
  BY <1>1 DEF Typed, CtxType
<1>3. run.budget - run.retired \in Counter
  BY <1>2, Counts DEF RunType, Counter
<1>4. /\ Sliced \in RunType /\ Sliced.pc = ctx.pc /\ Sliced.budget = run.budget
      /\ Sliced.retired = run.retired /\ Sliced.slice = run.budget - run.retired
  BY <1>2, <1>3 DEF RunType, Sliced
<1>5. run.charged = 0 /\ ~Pending
  BY <1>1 DEF Parts, LoopInv, Pending
<1> QED BY <1>4, <1>5 DEF Ready

\* The block at ctx.pc is looked up, or compiled.
LEMMA LookupStepInv ==
  ASSUME Inductive, LoopLookup
  PROVE  Inductive'
<1>1. Sound(cache, body, code) /\ Typed /\ Parts /\ code \in Code
  BY Decompose
<1>2. /\ run.at = "loop" /\ ~ctx.halt /\ run.retired < run.budget /\ UNCHANGED <<code, ctx>>
      /\ LET f == Found(cache, ctx.pc)
         IN IF f.host = 0 THEN Compile(Sliced, 0)
            ELSE /\ run' = Enter(Sliced, f.host, f.thunk)
                 /\ cache' = IF SlotHit(cache, ctx.pc) THEN cache
                             ELSE AfterLookup(cache, ctx.pc)
                 /\ UNCHANGED <<body, outcome, due, done, late>>
  BY DEF LoopLookup, Sliced
<1>3. PICK r : r = Sliced
  OBVIOUS
<1>4. PICK f : f = Found(cache, ctx.pc)
  OBVIOUS
<1>5. Ready(r) /\ r.pc = ctx.pc /\ ctx.pc \in Pc
  BY <1>1, <1>2, <1>3, SlicedReady DEF Ready, Typed, CtxType
<1>6. CASE f.host = 0
  <2>1. Compile(r, 0) /\ 0 \in 0 .. (MaxInsts - 1)
    BY <1>2, <1>3, <1>4, <1>6, Counts
  <2> QED BY <1>2, <1>5, <2>1, CompileInv
<1>7. CASE f.host # 0
  <2>1. /\ run' = Enter(r, f.host, f.thunk)
        /\ cache' = IF SlotHit(cache, ctx.pc) THEN cache ELSE AfterLookup(cache, ctx.pc)
        /\ body' = body /\ UNCHANGED <<outcome, due, done, late>>
    BY <1>2, <1>3, <1>4, <1>7
  <2>2. /\ CacheInv(cache') /\ CodeInv(cache', body, code)
        /\ Held(cache', f.host) /\ body[f.host].start = ctx.pc /\ f.thunk = Certificate(body[f.host])
    <3>1. PICK d : d = cache'
      OBVIOUS
    <3>2. CacheInv(cache) /\ CodeInv(cache, body, code)
      BY <1>1 DEF Sound
    <3>3. d = IF SlotHit(cache, ctx.pc) THEN cache ELSE AfterLookup(cache, ctx.pc)
      BY <2>1, <3>1
    <3>4. /\ CacheInv(d) /\ CodeInv(d, body, code)
          /\ Held(d, f.host) /\ body[f.host].start = ctx.pc /\ f.thunk = Certificate(body[f.host])
      BY <1>1, <1>4, <1>5, <1>7, <3>2, <3>3, FoundFacts
    <3> QED BY <3>1, <3>4
  <2>3. Sound(cache', body', code')
    BY <1>1, <1>2, <2>1, <2>2 DEF Sound
  <2>4. Held(cache', f.host) /\ body'[f.host].start = r.pc /\ f.thunk = Certificate(body'[f.host])
    BY <1>5, <2>1, <2>2
  <2>5. PICK h, thunk : h = f.host /\ thunk = f.thunk
    OBVIOUS
  <2> QED BY <1>2, <1>5, <2>1, <2>3, <2>4, <2>5, EnterInv
<1> QED BY <1>6, <1>7

\* Back in the dispatcher without progress: the slice ends, or a capped block is
\* entered.
LEMMA RefusedInv ==
  ASSUME Inductive, ExitRefused
  PROVE  Inductive'
<1>1. Sound(cache, body, code) /\ Typed /\ Parts /\ code \in Code
  BY Decompose
<1>2. PICK r : r = [run EXCEPT !.capped = TRUE, !.exit = "none", !.next = EMPTY_PC]
  OBVIOUS
<1>3. PICK h : h = cache.capped[<<run.pc, run.slice>>].host
  OBVIOUS
<1>4. /\ run.at = "exit" /\ Refused /\ UNCHANGED <<code, ctx>>
      /\ IF run.retired > 0
         THEN Return("budget", run.retired) /\ UNCHANGED <<cache, body>>
         ELSE IF h = 0 THEN Compile(r, run.slice)
              ELSE /\ run' = Enter(r, h, "Full")
                   /\ UNCHANGED <<cache, body, outcome, due, done, late>>
  BY <1>2, <1>3 DEF ExitRefused
<1>5. /\ run.charged = 0 /\ run.exit = "pc" /\ run.next = run.pc /\ ~Pending
      /\ run.slice < MaxInsts
  BY <1>1, <1>4 DEF Refused, Pending, Parts, ExitInv
<1>6. /\ run.pc \in Pc /\ run.retired < run.budget /\ run.slice = run.budget - run.retired
      /\ ctx.pc = run.pc
  BY <1>1, <1>4, <1>5 DEF Parts, SliceInv
<1>7. /\ r \in RunType /\ r.pc = ctx.pc /\ r.budget = run.budget /\ r.retired = run.retired
      /\ r.slice = run.slice
  BY <1>1, <1>2, <1>6 DEF Typed, RunType
<1>8. Ready(r)
  BY <1>4, <1>5, <1>6, <1>7 DEF Ready
<1>9. run.slice \in 0 .. (MaxInsts - 1) /\ run.slice # 0 /\ run.slice \in Cap
  <2>1. run.slice \in Nat /\ run.slice # 0
    BY <1>1, <1>6, Counts DEF Typed, RunType, Counter
  <2> QED BY <1>5, <2>1, Counts, DispatcherAssumption
<1>10. CASE run.retired > 0
  <2>1. Sound(cache', body', code') /\ ctx' \in CtxType
    BY <1>1, <1>4, <1>10 DEF Sound, Typed
  <2> QED BY <1>4, <1>10, <2>1, ReturnInv
<1>11. CASE ~(run.retired > 0) /\ h = 0
  BY <1>4, <1>8, <1>9, <1>11, CompileInv
<1>12. CASE ~(run.retired > 0) /\ h # 0
  <2>1. /\ run' = Enter(r, h, "Full")
        /\ UNCHANGED <<cache, body, outcome, due, done, late>>
    BY <1>4, <1>12
  <2>2. Sound(cache', body', code')
    BY <1>1, <1>4, <2>1 DEF Sound
  <2>3. Held(cache, h) /\ body[h].start = run.pc
    <3>1. PICK e : e = <<run.pc, run.slice>>
      OBVIOUS
    <3>2. e \in Pc \X Cap /\ e[1] = run.pc /\ h = cache.capped[e].host
      BY <1>3, <1>6, <1>9, <3>1
    <3> QED BY <1>1, <1>12, <3>2 DEF Held, Sound, CodeInv
  <2>4. Held(cache', h) /\ body'[h].start = r.pc
    BY <1>6, <1>7, <2>1, <2>3
  <2> QED BY <1>4, <1>8, <2>1, <2>2, <2>4, EnterInv
<1> QED BY <1>10, <1>11, <1>12

-----------------------------------------------------------------------------
(* Generated code.                                                         *)

\* The block the runner is in, or about to enter.
LEMMA RunnerBlock ==
  ASSUME Inductive, run.at \in {"entry", "body"}
  PROVE  /\ Held(cache, run.host) /\ Runs(body, code, run.host)
         /\ run.thunk = "Full" \/ Certificate(body[run.host]) = "XmmFree"
         /\ LinkBlocks => run.thunk = "Full"
<1>1. Sound(cache, body, code) /\ Parts /\ code \in Code
  BY Decompose
<1>2. run.host \in LiveHosts \ {0}
  BY <1>1 DEF Parts, HostInv
<1>3. Held(cache, run.host)
  BY <1>2 DEF Held, LiveHosts
<1>4. Runs(body, code, run.host)
  BY <1>1, <1>3, HeldRuns DEF Sound
<1> QED BY <1>1, <1>3, <1>4 DEF Parts, HostInv

\* The numbers of a run that is going on.
LEMMA RunnerCounts ==
  ASSUME Inductive
  PROVE  /\ run.budget \in Nat /\ run.retired \in Nat /\ run.slice \in Nat
         /\ run.charged \in Nat /\ done \in Nat /\ late \in Nat /\ run.ip \in Nat
         /\ run.budget <= Unlimited /\ done <= Unlimited
         /\ Sum(run.retired, run.charged) = Sum(done, Owed)
         /\ run.budget = Unlimited => done <= Limit /\ run.retired <= Limit
         /\ run.budget # Unlimited => run.charged <= run.slice
BY Decompose, Counts DEF Typed, RunType, Counter, Parts, CountInv

\* An entry that bails out leaves everything as it is but the runner.
LEMMA BailsInv ==
  ASSUME Inductive, EntryBails
  PROVE  Inductive'
<1>1. Sound(cache, body, code) /\ Typed /\ Parts
  BY Decompose
<1>2. PICK p : p = body[run.host].start
  OBVIOUS
<1>3. /\ run.at = "entry" /\ Bails(run.host)
      /\ run' = [run EXCEPT !.at = "exit", !.exit = "pc", !.next = p]
      /\ UNCHANGED <<code, cache, body, ctx, outcome, due, done, late>>
  BY <1>2 DEF EntryBails
<1>4. Runs(body, code, run.host) /\ p \in Pc
  BY <1>2, <1>3, RunnerBlock DEF Runs
<1>5. /\ run'.at = "exit" /\ run'.exit = "pc" /\ run'.next = p /\ run' \in RunType
      /\ run'.budget = run.budget /\ run'.retired = run.retired /\ run'.slice = run.slice
      /\ run'.charged = run.charged /\ run'.pc = run.pc
  BY <1>1, <1>3, <1>4 DEF Typed, RunType
<1>6. Sound(cache', body', code') /\ Typed'
  BY <1>1, <1>3, <1>5 DEF Sound, Typed
<1>7. IdleInv' /\ LoopInv' /\ SliceInv' /\ HostInv' /\ BodyInv'
  BY <1>1, <1>3, <1>5 DEF Parts, IdleInv, LoopInv, SliceInv, HostInv, BodyInv
<1>8. ExitInv'
  <2>1. ASSUME run.charged = 0, ~Pending PROVE p = run.pc /\ run.slice < MaxInsts
    <3>1. p = run.pc
      BY <1>1, <1>2, <1>3, <2>1 DEF Parts, HostInv
    <3>2. Len(body[run.host].insns) \in 1 .. MaxInsts /\ run.slice \in Nat
      BY <1>4, RunnerCounts DEF Runs
    <3>3. 0 + Len(body[run.host].insns) > run.slice
      BY <1>3, <2>1 DEF Bails, Charge, Pending
    <3> QED BY <3>1, <3>2, <3>3, Counts
  <2>2. Pending' = Pending
    BY <1>3 DEF Pending
  <2> QED BY <1>4, <1>5, <2>1, <2>2 DEF ExitInv
<1>9. CountInv'
  <2>1. Owed' = 0 /\ Owed = 0
    BY <1>3, <1>5 DEF Owed
  <2> QED BY <1>1, <1>3, <1>5, <2>1 DEF Parts, CountInv, Sum
<1>10. LateInv'
  BY <1>1, <1>3, <1>5 DEF Parts, LateInv, Pending
<1>11. ResumeInv'
  BY <1>1, <1>2, <1>3, <1>5 DEF Parts, ResumeInv, Resume
<1> QED BY <1>6, <1>7, <1>8, <1>9, <1>10, <1>11, Compose DEF Parts

\* An entry that charges its block.
LEMMA RunsInv ==
  ASSUME Inductive, EntryRuns
  PROVE  Inductive'
<1>1. Sound(cache, body, code) /\ Typed /\ Parts
  BY Decompose
<1>2. PICK n : n = Len(body[run.host].insns)
  OBVIOUS
<1>3. PICK charged : charged = Sum(run.charged, n)
  OBVIOUS
<1>4. /\ run.at = "entry" /\ ~Pending /\ ~(run.charged + n > run.slice)
      /\ run' = [run EXCEPT !.at = "body", !.ip = 1, !.charged = charged]
      /\ UNCHANGED <<code, cache, body, ctx, outcome, due, done, late>>
  BY <1>2, <1>3 DEF EntryRuns, Bails, Charge, Pending, Sum
<1>5. n \in 1 .. MaxInsts /\ MaxInsts \in Nat /\ Limit \in Nat /\ Limit > 0
  BY <1>2, <1>4, RunnerBlock, Counts DEF Runs
<1>6. charged \in Counter /\ charged \in Nat /\ charged > 0
  <2>1. CASE run.budget = Unlimited
    <3>1. charged = Plus(run.charged, n) /\ run.charged \in Nat
      BY <1>3, <2>1, RunnerCounts DEF Sum
    <3>2. n \in Nat /\ run.charged + n > 0
      BY <1>5, <3>1
    <3>3. /\ Plus(run.charged, n) \in Nat /\ Plus(run.charged, n) \in Counter
          /\ run.charged + n > 0 => Plus(run.charged, n) > 0
      BY <3>1, <3>2, PlusFacts
    <3> QED BY <3>1, <3>2, <3>3
  <2>2. CASE run.budget # Unlimited
    <3>1. charged = run.charged + n /\ run.charged \in Nat /\ run.slice \in Nat
      BY <1>3, <2>2, RunnerCounts DEF Sum
    <3>2. run.slice <= Unlimited /\ Unlimited \in Nat
      BY <1>1, Counts DEF Typed, RunType, Counter
    <3>3. ~(charged > run.slice)
      BY <1>4, <3>1
    <3>4. charged \in Nat /\ charged > 0 /\ charged <= Unlimited
      BY ONLY <1>5, <3>1, <3>2, <3>3
    <3> QED BY <3>4, Counts DEF Counter
  <2> QED BY <2>1, <2>2
<1>7. /\ run'.at = "body" /\ run'.ip = 1 /\ run'.charged = charged /\ run' \in RunType
      /\ run'.budget = run.budget /\ run'.retired = run.retired /\ run'.slice = run.slice
      /\ run'.pc = run.pc /\ run'.host = run.host /\ run'.thunk = run.thunk
  <2>1. 1 \in 0 .. MaxInsts
    BY <1>5
  <2> QED BY <1>1, <1>4, <1>6, <2>1 DEF Typed, RunType
<1>8. Sound(cache', body', code') /\ Typed'
  BY <1>1, <1>4, <1>7 DEF Sound, Typed
<1>9. IdleInv' /\ LoopInv' /\ SliceInv' /\ ExitInv'
  BY <1>1, <1>4, <1>6, <1>7 DEF Parts, IdleInv, LoopInv, SliceInv, ExitInv
<1>10. HostInv' /\ BodyInv'
  BY <1>1, <1>2, <1>4, <1>5, <1>6, <1>7 DEF Parts, HostInv, BodyInv, LiveHosts
<1>11. CountInv'
  <2>1. Owed' = n /\ Owed = 0
    BY <1>2, <1>4, <1>5, <1>7 DEF Owed
  <2>2. CASE run.budget = Unlimited
    <3>1. /\ charged = Plus(run.charged, n) /\ run.charged \in Nat /\ run.retired \in Nat
          /\ done \in Nat /\ n \in Nat
      BY <1>3, <1>5, <2>2, RunnerCounts DEF Sum
    <3>2. Plus(run.retired, run.charged) = Plus(done, 0) /\ done <= Limit
      BY <2>1, <2>2, RunnerCounts DEF Sum
    <3>3. Plus(run.retired, charged) = Plus(Plus(run.retired, run.charged), n)
      BY <3>1, PlusFacts
    <3>4. Plus(done, 0 + n) = Plus(Plus(done, 0), n)
      BY <3>1, PlusFacts
    <3>5. 0 + n = n
      BY <3>1
    <3>6. run'.retired <= Limit /\ done' <= Limit /\ run'.budget = Unlimited /\ done' \in Nat
      BY <1>4, <1>7, <2>2, RunnerCounts
    <3> QED BY <1>4, <1>7, <2>1, <2>2, <3>1, <3>2, <3>3, <3>4, <3>5, <3>6 DEF CountInv, Sum
  <2>3. CASE run.budget # Unlimited
    <3>1. /\ charged = run.charged + n /\ run.charged \in Nat /\ run.retired \in Nat
          /\ done \in Nat /\ run.slice \in Nat
      BY <1>3, <2>3, RunnerCounts DEF Sum
    <3>2. run.retired + run.charged = done + 0
      BY <2>1, <2>3, RunnerCounts DEF Sum
    <3> QED BY <1>4, <1>5, <1>7, <2>1, <2>3, <3>1, <3>2 DEF CountInv, Sum
  <2> QED BY <2>2, <2>3
<1>12. LateInv' /\ ResumeInv'
  <2>1. late = 0 /\ ~ctx.fault
    BY <1>1, <1>4 DEF Parts, LateInv, Pending
  <2> QED BY <1>4, <1>7, <2>1, Counts DEF LateInv, ResumeInv
<1> QED BY <1>8, <1>9, <1>10, <1>11, <1>12, Compose DEF Parts

\* The instruction s is the one to execute next.
Executes(s) == run.at = "body" /\ s = body[run.host].insns[run.ip]

\* What the instruction to execute next is.
LEMMA ExecutesFacts ==
  ASSUME Inductive, NEW s, Executes(s)
  PROVE  /\ s.pc \in Word /\ s.pc \in Pc /\ s.insn = code[s.pc]
         /\ s.insn.op \in {"alu", "ld", "b", "bcond", "br", "svc", "brk"}
         /\ s.insn.op \in {"b", "bcond"} => s.insn.to \in Pc
         /\ After(s.pc) \in Pc /\ After(s.pc) = s.pc + 4 /\ s.pc + 4 - 4 = s.pc
         /\ s.pc # NoSkip /\ s.pc # EMPTY_PC
         /\ run.ip \in 1 .. Len(body[run.host].insns) /\ run.ip <= MaxInsts
<1>1. Runs(body, code, run.host) /\ Parts
  BY RunnerBlock, Decompose DEF Executes
<1>2. run.ip \in 1 .. Len(body[run.host].insns) /\ Len(body[run.host].insns) \in 1 .. MaxInsts
  BY <1>1 DEF Executes, Parts, BodyInv, Runs
<1>3. s.pc \in Word /\ s.insn = code[s.pc] /\ s.insn \in Insn /\ s.insn.op # "udf"
  BY <1>1, <1>2 DEF Executes, Runs
<1>4. /\ s.insn.op \in {"alu", "ld", "b", "bcond", "br", "svc", "brk"}
      /\ s.insn.op \in {"b", "bcond"} => s.insn.to \in Pc
  BY <1>3 DEF Insn
<1>5. /\ s.pc \in Pc /\ s.pc # NoSkip /\ s.pc # EMPTY_PC
      /\ After(s.pc) \in Pc /\ After(s.pc) = s.pc + 4 /\ s.pc + 4 - 4 = s.pc
  <2>1. s.pc \in Nat /\ s.pc \in Pc
    BY <1>3, Addresses
  <2> QED BY <1>3, <2>1, Addresses
<1>6. run.ip <= MaxInsts
  BY <1>2, Counts
<1> QED BY <1>2, <1>3, <1>4, <1>5, <1>6

\* The runner r behind a branch to target: in front of the block from there, or
\* on the way to the dispatcher.
Enters(r, target) ==
  \/ /\ r = [run EXCEPT !.at = "entry", !.host = r.host] /\ Held(cache, r.host)
     /\ r.host \in Unit /\ body[r.host].start = target /\ LinkBlocks
  \/ r = [run EXCEPT !.at = "exit", !.exit = "pc", !.next = target]

\* A chain site leads to the block from its target, or to the dispatcher.
LEMMA ChainedFacts ==
  ASSUME Inductive, run.at = "body", NEW k \in Chain, NEW target \in Pc,
         LinkBlocks => ChainTarget(body[run.host], k) = target,
         NEW r, r = Chained(k, target)
  PROVE  Enters(r, target)
<1>1. /\ code \in Code /\ CacheInv(cache) /\ CodeInv(cache, body, code) /\ run \in RunType
      /\ Held(cache, run.host)
  BY Decompose, RunnerBlock DEF Sound, Typed
<1>2. PICK h : h = cache.rel[<<run.host, k>>]
  OBVIOUS
<1>3. CASE h = 0
  BY <1>2, <1>3 DEF Chained, Enters
<1>4. CASE h # 0
  <2>1. Held(cache, h) /\ body[h].start = ChainTarget(body[run.host], k) /\ LinkBlocks
    BY <1>1, <1>2, <1>4, ChainFacts
  <2>2. h \in Unit
    BY <1>1, <2>1, HeldRuns DEF Runs
  <2>3. r = [run EXCEPT !.at = "entry", !.host = h] /\ r.host = h
    BY <1>1, <1>2, <1>4 DEF Chained, RunType
  <2> QED BY <2>1, <2>2, <2>3 DEF Enters
<1> QED BY <1>3, <1>4

\* The probe of an indirect branch leads to the block from its target, or to
\* the dispatcher.
LEMMA ProbedFacts ==
  ASSUME Inductive, run.at = "body", NEW target \in Pc, NEW r, r = Probed(target)
  PROVE  Enters(r, target)
<1>1. /\ code \in Code /\ CacheInv(cache) /\ CodeInv(cache, body, code) /\ run \in RunType
  BY Decompose DEF Sound, Typed
<1>2. PICK h : h = cache.dispatch[Index[target]].host
  OBVIOUS
<1>3. CASE LinkBlocks /\ SlotHit(cache, target)
  <2>1. Held(cache, h) /\ body[h].start = target
    BY <1>1, <1>2, <1>3, ProbeFacts
  <2>2. h \in Unit
    BY <1>1, <2>1, HeldRuns DEF Runs
  <2>3. r = [run EXCEPT !.at = "entry", !.host = h] /\ r.host = h
    BY <1>1, <1>2, <1>3 DEF Probed, RunType
  <2> QED BY <1>3, <2>1, <2>2, <2>3 DEF Enters
<1>4. CASE ~(LinkBlocks /\ SlotHit(cache, target))
  BY <1>4 DEF Probed, Enters
<1> QED BY <1>3, <1>4

\* The runner r after instruction s, where the guest goes on at `next`: in the
\* block, in the next block, in the dispatcher, or at an exception.
Goes(s, r, next) ==
  LET last == run.ip = Len(body[run.host].insns) IN
  \/ /\ run.ip < Len(body[run.host].insns) /\ r = [run EXCEPT !.ip = run.ip + 1]
     /\ body[run.host].insns[run.ip + 1].pc = next /\ s.insn.op \notin {"svc", "brk"}
  \/ /\ last /\ r = [run EXCEPT !.at = "entry", !.host = r.host] /\ Held(cache, r.host)
     /\ r.host \in Unit /\ body[r.host].start = next /\ LinkBlocks
     /\ s.insn.op \notin {"svc", "brk"}
  \/ /\ last /\ r = [run EXCEPT !.at = "exit", !.exit = "pc", !.next = next]
     /\ s.insn.op \notin {"svc", "brk"}
  \/ /\ last /\ r = [run EXCEPT !.at = "exit", !.exit = s.insn.op]
     /\ s.insn.op \in {"svc", "brk"}

\* Generated code goes on with the guest's next instruction.
LEMMA LeaveFacts ==
  ASSUME Inductive, NEW s, Executes(s), NEW dir \in Chain, NEW t \in Pc,
         s.insn.op # "bcond" => dir = "taken",
         NEW next, next = GuestNext(s.insn, s.pc, dir, t), NEW r, r = Leave(s, dir, t)
  PROVE  next \in Pc /\ Goes(s, r, next)
<1>1. /\ s.pc \in Word /\ s.pc \in Pc
      /\ s.insn.op \in {"alu", "ld", "b", "bcond", "br", "svc", "brk"}
      /\ s.insn.op \in {"b", "bcond"} => s.insn.to \in Pc
      /\ After(s.pc) \in Pc /\ After(s.pc) = s.pc + 4
      /\ run.ip \in 1 .. Len(body[run.host].insns)
  BY ExecutesFacts
<1>2. dir \in {"taken", "fall"} /\ "taken" \in Chain /\ "fall" \in Chain
  BY DispatcherAssumption
<1>3. next \in Pc
  BY <1>1 DEF GuestNext
<1>4. PICK b : b = body[run.host]
  OBVIOUS
<1>5. s = b.insns[run.ip] /\ run.at = "body" /\ Runs(body, code, run.host)
  BY <1>4, RunnerBlock DEF Executes
<1>8. run.ip \in Nat /\ run.ip > 0 /\ Len(b.insns) \in Nat /\ run.ip <= Len(b.insns)
  <2>1. Len(b.insns) \in 1 .. MaxInsts
    BY <1>4, <1>5 DEF Runs
  <2> QED BY <1>1, <1>4, <2>1, Counts
<1>9. ASSUME NEW k \in Chain, r = Chained(k, next), LinkBlocks => ChainTarget(b, k) = next,
             run.ip = Len(b.insns), s.insn.op \notin {"svc", "brk"}
      PROVE  Goes(s, r, next)
  <2>1. LinkBlocks => ChainTarget(body[run.host], k) = next
    BY <1>4, <1>9
  <2>2. Enters(r, next)
    BY <1>3, <1>5, <1>9, <2>1, ChainedFacts
  <2> QED BY <1>4, <1>9, <2>2 DEF Goes, Enters
<1>6. CASE run.ip < Len(b.insns)
  <2>1. run.ip \in 1 .. (Len(b.insns) - 1)
    BY ONLY <1>6, <1>8
  <2>2. (~Terminator(s.insn) \/ s.insn.op = "b") /\ b.insns[run.ip + 1].pc = Following(s)
    BY <1>4, <1>5, <2>1 DEF Runs
  <2>3. s.insn.op \notin {"svc", "brk"} /\ Following(s) = next
    BY <1>1, <2>2 DEF Terminator, Following, GuestNext
  <2>4. r = [run EXCEPT !.ip = run.ip + 1]
    BY <1>4, <1>6 DEF Leave
  <2> QED BY <1>3, <1>4, <1>6, <2>2, <2>3, <2>4 DEF Goes
<1>7. CASE ~(run.ip < Len(b.insns))
  <2>1. run.ip = Len(b.insns)
    BY <1>7, <1>8
  <2>2. /\ b.next # EMPTY_PC => b.next \in Pc /\ ~Terminator(s.insn) /\ b.next = s.pc + 4
        /\ b.next = EMPTY_PC => Terminator(s.insn)
    BY <1>4, <1>5, <2>1 DEF Runs
  <2>3. CASE b.next # EMPTY_PC
    <3>1. r = Chained("taken", b.next)
      BY <1>4, <1>7, <2>1, <2>3 DEF Leave
    <3>2. LinkBlocks => ChainTarget(b, "taken") = b.next
      BY <2>3 DEF ChainTarget
    <3>3. next = b.next /\ s.insn.op \notin {"svc", "brk"}
      BY <1>1, <2>2, <2>3 DEF Terminator, GuestNext
    <3>4. r = Chained("taken", next) /\ (LinkBlocks => ChainTarget(b, "taken") = next)
      BY <3>1, <3>2, <3>3
    <3> QED BY <1>2, <1>3, <1>9, <2>1, <3>3, <3>4
  <2>4. CASE b.next = EMPTY_PC
    <3>1. s.insn.op \in {"b", "bcond", "br", "svc", "brk"}
      BY <2>2, <2>4 DEF Terminator
    <3>2. b.insns[Len(b.insns)] = s
      BY <1>5, <2>1
    <3>3. CASE s.insn.op = "b" \/ (s.insn.op = "bcond" /\ dir = "taken")
      <4>1. r = Chained("taken", s.insn.to)
        BY <1>4, <1>7, <2>4, <3>3 DEF Leave
      <4>2. LinkBlocks => ChainTarget(b, "taken") = s.insn.to
        BY <2>4, <3>2 DEF ChainTarget
      <4>3. next = s.insn.to /\ s.insn.op \notin {"svc", "brk"}
        BY <3>3 DEF GuestNext
      <4>4. r = Chained("taken", next) /\ (LinkBlocks => ChainTarget(b, "taken") = next)
        BY <4>1, <4>2, <4>3
      <4> QED BY <1>2, <1>3, <1>9, <2>1, <4>3, <4>4
    <3>4. CASE s.insn.op = "bcond" /\ dir = "fall"
      <4>1. r = Chained("fall", After(s.pc))
        BY <1>4, <1>7, <2>4, <3>4 DEF Leave
      <4>2. LinkBlocks => ChainTarget(b, "fall") = After(s.pc)
        BY <2>4, <3>2, <3>4 DEF ChainTarget
      <4>3. next = After(s.pc) /\ s.insn.op \notin {"svc", "brk"}
        BY <3>4 DEF GuestNext
      <4>4. r = Chained("fall", next) /\ (LinkBlocks => ChainTarget(b, "fall") = next)
        BY <4>1, <4>2, <4>3
      <4> QED BY <1>2, <1>3, <1>9, <2>1, <4>3, <4>4
    <3>5. CASE s.insn.op = "br"
      <4>1. r = Probed(t)
        BY <1>4, <1>7, <2>4, <3>5 DEF Leave
      <4>2. next = t /\ s.insn.op \notin {"svc", "brk"}
        BY <3>5 DEF GuestNext
      <4> QED BY <1>3, <1>4, <1>5, <2>1, <4>1, <4>2, ProbedFacts DEF Goes, Enters
    <3>6. CASE s.insn.op \in {"svc", "brk"}
      <4>1. r = [run EXCEPT !.at = "exit", !.exit = s.insn.op]
        BY <1>4, <1>7, <2>4, <3>6 DEF Leave
      <4> QED BY <1>3, <1>4, <2>1, <3>6, <4>1 DEF Goes
    <3> QED BY <1>2, <3>1, <3>3, <3>4, <3>5, <3>6
  <2> QED BY <2>3, <2>4
<1> QED BY <1>6, <1>7

\* The same, field by field.
Went(s, r, next) ==
  LET len == Len(body[run.host].insns) IN
  \/ /\ run.ip < len /\ r.at = "body" /\ r.host = run.host /\ r.ip = run.ip + 1
     /\ body[run.host].insns[run.ip + 1].pc = next /\ s.insn.op \notin {"svc", "brk"}
  \/ /\ run.ip = len /\ r.at = "entry" /\ Held(cache, r.host) /\ body[r.host].start = next
     /\ LinkBlocks /\ s.insn.op \notin {"svc", "brk"}
  \/ /\ run.ip = len /\ r.at = "exit" /\ r.exit = "pc" /\ r.next = next
     /\ s.insn.op \notin {"svc", "brk"}
  \/ run.ip = len /\ r.at = "exit" /\ r.exit = s.insn.op /\ s.insn.op \in {"svc", "brk"}

\* Where the runner goes after an instruction decides each of its locals.
LEMMA GoesFields ==
  ASSUME Inductive, NEW s, Executes(s), NEW next \in Pc, NEW r, Goes(s, r, next)
  PROVE  /\ r \in RunType /\ Went(s, r, next)
         /\ r.budget = run.budget /\ r.retired = run.retired /\ r.slice = run.slice
         /\ r.charged = run.charged /\ r.pc = run.pc /\ r.thunk = run.thunk
<1>1. run \in RunType /\ run.at = "body" /\ Runs(body, code, run.host)
  BY Decompose, RunnerBlock DEF Typed, Executes
<1>2. run.ip \in Nat /\ run.ip > 0 /\ Len(body[run.host].insns) \in 1 .. MaxInsts /\ MaxInsts \in Nat
  BY <1>1, Counts, ExecutesFacts, RunnerCounts DEF Runs
<1>3. CASE /\ run.ip < Len(body[run.host].insns) /\ r = [run EXCEPT !.ip = run.ip + 1]
           /\ body[run.host].insns[run.ip + 1].pc = next /\ s.insn.op \notin {"svc", "brk"}
  <2>1. run.ip + 1 \in 0 .. MaxInsts
    BY ONLY <1>2, <1>3
  <2> QED BY <1>1, <1>3, <2>1 DEF Went, RunType
<1>4. CASE /\ run.ip = Len(body[run.host].insns)
           /\ r = [run EXCEPT !.at = "entry", !.host = r.host] /\ Held(cache, r.host)
           /\ r.host \in Unit /\ body[r.host].start = next /\ LinkBlocks
           /\ s.insn.op \notin {"svc", "brk"}
  <2>1. PICK h : h = r.host
    OBVIOUS
  <2>2. h \in Unit /\ r = [run EXCEPT !.at = "entry", !.host = h]
    BY <1>4, <2>1
  <2>3. /\ r \in RunType /\ r.at = "entry"
        /\ r.budget = run.budget /\ r.retired = run.retired /\ r.slice = run.slice
        /\ r.charged = run.charged /\ r.pc = run.pc /\ r.thunk = run.thunk
    BY <1>1, <2>2 DEF RunType
  <2> QED BY <1>4, <2>3 DEF Went
<1>5. CASE /\ run.ip = Len(body[run.host].insns)
           /\ r = [run EXCEPT !.at = "exit", !.exit = "pc", !.next = next]
           /\ s.insn.op \notin {"svc", "brk"}
  BY <1>1, <1>5 DEF Went, RunType
<1>6. CASE /\ run.ip = Len(body[run.host].insns)
           /\ r = [run EXCEPT !.at = "exit", !.exit = s.insn.op] /\ s.insn.op \in {"svc", "brk"}
  <2>1. PICK op \in {"svc", "brk"} : op = s.insn.op
    BY <1>6
  <2>2. r = [run EXCEPT !.at = "exit", !.exit = op]
    BY <1>6, <2>1
  <2>3. /\ r \in RunType /\ r.at = "exit" /\ r.exit = op
        /\ r.budget = run.budget /\ r.retired = run.retired /\ r.slice = run.slice
        /\ r.charged = run.charged /\ r.pc = run.pc /\ r.thunk = run.thunk
    BY <1>1, <2>1, <2>2 DEF RunType
  <2> QED BY <1>6, <2>1, <2>3 DEF Went
<1> QED BY <1>3, <1>4, <1>5, <1>6 DEF Goes

\* What instruction s does to the context.
LEMMA ContextAfter ==
  ASSUME Inductive, NEW s, Executes(s), NEW x, x = CtxAfter(s)
  PROVE  /\ x \in CtxType /\ x.halt = ctx.halt
         /\ x.fault = (ctx.fault \/ (s.insn.op = "ld" /\ s.pc \in Unmapped))
         /\ x.skip = IF ctx.fault /\ ctx.skip = NoSkip /\ s.insn.op = "ld" THEN s.pc ELSE ctx.skip
         /\ s.insn.op = "svc" => x.pc = s.pc + 4
         /\ s.insn.op = "brk" => x.pc = s.pc
<1>1. ctx \in CtxType /\ s.pc \in Pc /\ After(s.pc) \in Pc /\ After(s.pc) = s.pc + 4
  BY Decompose, ExecutesFacts DEF Typed
<1>2. CASE s.insn.op = "ld"
  <2>1. PICK f, k : /\ f = (ctx.fault \/ s.pc \in Unmapped)
                    /\ k = IF ctx.fault /\ ctx.skip = NoSkip THEN s.pc ELSE ctx.skip
    OBVIOUS
  <2>2. f \in BOOLEAN /\ k \in Pc \cup {NoSkip}
    BY <1>1, <2>1 DEF CtxType
  <2>3. x = [ctx EXCEPT !.pc = s.pc, !.fault = f, !.skip = k]
    BY <1>2, <2>1 DEF CtxAfter
  <2>4. x \in CtxType /\ x.halt = ctx.halt /\ x.fault = f /\ x.skip = k
    BY <1>1, <2>2, <2>3 DEF CtxType
  <2> QED BY <1>2, <2>1, <2>4
<1>3. CASE s.insn.op = "svc"
  <2>1. x = [ctx EXCEPT !.pc = After(s.pc)]
    BY <1>3 DEF CtxAfter
  <2>2. /\ x \in CtxType /\ x.halt = ctx.halt /\ x.fault = ctx.fault /\ x.skip = ctx.skip
        /\ x.pc = After(s.pc)
    BY <1>1, <2>1 DEF CtxType
  <2> QED BY <1>1, <1>3, <2>2 DEF CtxType
<1>4. CASE s.insn.op = "brk"
  <2>1. x = [ctx EXCEPT !.pc = s.pc]
    BY <1>4 DEF CtxAfter
  <2>2. /\ x \in CtxType /\ x.halt = ctx.halt /\ x.fault = ctx.fault /\ x.skip = ctx.skip
        /\ x.pc = s.pc
    BY <1>1, <2>1 DEF CtxType
  <2> QED BY <1>1, <1>4, <2>2 DEF CtxType
<1>5. CASE s.insn.op \notin {"ld", "svc", "brk"}
  BY <1>1, <1>5 DEF CtxAfter, CtxType
<1> QED BY <1>2, <1>3, <1>4, <1>5

\* After a fault, the place to re-enter the guest moves on with what takes effect.
LEMMA DueStep ==
  ASSUME Inductive, NEW s, Executes(s), ResumeAfterFault, NEW dir, NEW t,
         NEW next, next = GuestNext(s.insn, s.pc, dir, t),
         NEW x, x = CtxAfter(s), x.fault, NEW d, d = DueAfter(s, dir, t)
  PROVE  IF x.skip = NoSkip
         THEN d = IF s.insn.op \in {"svc", "brk"} THEN s.pc ELSE next
         ELSE d = x.skip /\ d \in Word /\ code[d].op = "ld"
<1>1. /\ s.pc \in Word /\ s.insn = code[s.pc] /\ s.pc # NoSkip
      /\ s.insn.op \in {"alu", "ld", "b", "bcond", "br", "svc", "brk"}
  BY ExecutesFacts
<1>2. /\ x.fault = (ctx.fault \/ (s.insn.op = "ld" /\ s.pc \in Unmapped))
      /\ x.skip = IF ctx.fault /\ ctx.skip = NoSkip /\ s.insn.op = "ld" THEN s.pc ELSE ctx.skip
  BY ContextAfter
<1>3. /\ IdleInv /\ run.at = "body"
      /\ ctx.fault => IF ctx.skip = NoSkip THEN due = s.pc
                      ELSE due = ctx.skip /\ due \in Word /\ code[due].op = "ld"
  BY Decompose DEF Parts, ResumeInv, Resume, Executes
<1>4. CASE ~ctx.fault
  <2>1. s.insn.op = "ld" /\ s.pc \in Unmapped /\ ctx.skip = NoSkip
    BY <1>2, <1>3, <1>4 DEF IdleInv
  <2>2. d = After(s.pc) /\ next = After(s.pc) /\ x.skip = NoSkip
    BY <1>2, <1>4, <2>1 DEF DueAfter, GuestNext
  <2> QED BY <2>1, <2>2
<1>5. CASE ctx.fault /\ ctx.skip # NoSkip
  <2>1. due = ctx.skip /\ due \in Word /\ code[due].op = "ld" /\ x.skip = ctx.skip
    BY <1>2, <1>3, <1>5
  <2>2. due = s.pc => s.insn.op = "ld"
    BY <1>1, <2>1
  <2>3. d = due
    BY <1>5, <2>2 DEF DueAfter
  <2> QED BY <1>5, <2>1, <2>3
<1>6. CASE ctx.fault /\ ctx.skip = NoSkip
  <2>1. due = s.pc
    BY <1>3, <1>6
  <2>2. CASE s.insn.op = "ld"
    <3>1. d = s.pc /\ x.skip = s.pc
      BY <1>2, <1>6, <2>1, <2>2 DEF DueAfter
    <3> QED BY <1>1, <2>2, <3>1
  <2>3. CASE s.insn.op \in {"svc", "brk"}
    BY <1>2, <1>6, <2>1, <2>3 DEF DueAfter
  <2>4. CASE s.insn.op \notin {"ld", "svc", "brk"}
    BY <1>2, <1>6, <2>1, <2>4 DEF DueAfter
  <2> QED BY <2>2, <2>3, <2>4
<1> QED BY <1>4, <1>5, <1>6

\* One instruction: the counts.
LEMMA ExecuteCount ==
  ASSUME Inductive, NEW s, Executes(s), NEW r, NEW next, Went(s, r, next),
         r.budget = run.budget, r.retired = run.retired, r.charged = run.charged, r.slice = run.slice,
         run' = r, body' = body, done' = Sum(done, 1)
  PROVE  CountInv' /\ done' \in Counter
<1>1. PICK o : o = Owed
  OBVIOUS
<1>2. PICK n : n = Len(body[run.host].insns)
  OBVIOUS
<1>3. /\ run.at = "body" /\ o = n + 1 - run.ip /\ n \in Nat /\ run.ip \in Nat /\ run.ip <= n
  <2>1. n \in 1 .. MaxInsts /\ MaxInsts \in Nat /\ run.ip \in 1 .. n
    BY <1>2, RunnerBlock, ExecutesFacts, Counts DEF Executes, Runs
  <2> QED BY <1>1, <1>2, <2>1 DEF Owed, Executes
<1>4. Owed' = o - 1 /\ o \in Nat /\ o - 1 \in Nat /\ o = 1 + (o - 1)
  <2>1. o \in Nat /\ o - 1 \in Nat /\ o = 1 + (o - 1)
    BY ONLY <1>3
  <2>2. CASE r.at = "body" /\ r.ip = run.ip + 1 /\ r.host = run.host
    <3>1. Owed' = n + 1 - (run.ip + 1)
      BY <1>2, <2>2 DEF Owed
    <3>2. n + 1 - (run.ip + 1) = o - 1
      BY ONLY <1>3
    <3> QED BY <2>1, <3>1, <3>2
  <2>3. CASE r.at # "body" /\ run.ip = n
    <3>1. Owed' = 0
      BY <2>3 DEF Owed
    <3>2. o - 1 = 0
      BY ONLY <1>3, <2>3
    <3> QED BY <2>1, <3>1, <3>2
  <2> QED BY <1>2, <2>2, <2>3 DEF Went
<1>5. PICK a, c, u : a = run.retired /\ c = run.charged /\ u = o - 1
  OBVIOUS
<1>6. a \in Nat /\ c \in Nat /\ u \in Nat /\ done \in Nat /\ run.slice \in Nat /\ run.budget \in Nat
  BY <1>4, <1>5, RunnerCounts
<1>7. CASE run.budget = Unlimited
  <2>1. Plus(a, c) = Plus(done, 1 + u) /\ done' = Plus(done, 1)
    BY <1>1, <1>4, <1>5, <1>7, RunnerCounts DEF Sum
  <2>2. Plus(done, 1 + u) = Plus(Plus(done, 1), u) /\ done' \in Nat /\ done' <= Limit /\ done' \in Counter
    BY <1>6, <2>1, PlusFacts
  <2>3. Sum(run.retired, run.charged)' = Plus(a, c) /\ Sum(done, Owed)' = Plus(done', u)
    BY <1>4, <1>5, <1>7 DEF Sum
  <2>4. run'.retired <= Limit /\ run'.budget = Unlimited
    BY <1>7, RunnerCounts
  <2> QED BY <2>1, <2>2, <2>3, <2>4 DEF CountInv
<1>8. CASE run.budget # Unlimited
  <2>1. a + c = done + (1 + u) /\ done' = done + 1 /\ c <= run.slice
    BY <1>1, <1>4, <1>5, <1>8, RunnerCounts DEF Sum
  <2>2. Sum(run.retired, run.charged)' = a + c /\ Sum(done, Owed)' = done' + u
    BY <1>4, <1>5, <1>8 DEF Sum
  <2>3. run.retired < run.budget /\ run.slice = run.budget - run.retired
    BY <1>3, Decompose DEF Parts, SliceInv
  <2>4. a + c = done' + u /\ done' <= run.budget /\ done' \in Nat
    BY ONLY <1>5, <1>6, <2>1, <2>3
  <2>5. done' \in Counter
    BY <2>4, <1>6, RunnerCounts, Counts DEF Counter
  <2> QED BY <1>5, <1>8, <2>1, <2>2, <2>4, <2>5 DEF CountInv
<1> QED BY <1>7, <1>8

\* One instruction of the block the runner is in.
LEMMA ExecuteInv ==
  ASSUME Inductive, NEW dir \in Chain, NEW t \in Pc, Execute(dir, t)
  PROVE  Inductive'
<1>1. Sound(cache, body, code) /\ Typed /\ Parts
  BY Decompose
<1>2. PICK s : s = body[run.host].insns[run.ip]
  OBVIOUS
<1>3. PICK r, x, d, next : r = run' /\ x = ctx' /\ d = due' /\ next = GuestNext(s.insn, s.pc, dir, t)
  OBVIOUS
<1>4. /\ Executes(s) /\ (s.insn.op # "bcond" => dir = "taken")
      /\ r = Leave(s, dir, t) /\ x = CtxAfter(s) /\ d = DueAfter(s, dir, t)
      /\ done' = Sum(done, 1)
      /\ late' = IF Pending /\ late <= MaxInsts THEN late + 1 ELSE late
      /\ UNCHANGED <<code, cache, body, outcome>>
  BY <1>2, <1>3 DEF Execute, Executes, Sum, Pending
<1>5. next \in Pc /\ Goes(s, r, next)
  BY <1>3, <1>4, LeaveFacts
<1>6. /\ r \in RunType /\ Went(s, r, next)
      /\ r.budget = run.budget /\ r.retired = run.retired /\ r.slice = run.slice
      /\ r.charged = run.charged /\ r.pc = run.pc /\ r.thunk = run.thunk
  BY <1>4, <1>5, GoesFields
<1>7. /\ x \in CtxType /\ x.halt = ctx.halt
      /\ x.fault = (ctx.fault \/ (s.insn.op = "ld" /\ s.pc \in Unmapped))
      /\ x.skip = IF ctx.fault /\ ctx.skip = NoSkip /\ s.insn.op = "ld" THEN s.pc ELSE ctx.skip
      /\ s.insn.op = "svc" => x.pc = s.pc + 4
      /\ s.insn.op = "brk" => x.pc = s.pc
  BY <1>4, ContextAfter
<1>8. /\ s.pc \in Word /\ s.pc \in Pc /\ s.insn = code[s.pc] /\ After(s.pc) \in Pc
      /\ s.pc + 4 - 4 = s.pc /\ run.ip <= MaxInsts
      /\ run.ip \in 1 .. Len(body[run.host].insns)
  BY <1>4, ExecutesFacts
<1>9. run.at = "body" /\ run.charged > 0 /\ run.pc \in Pc
  BY <1>1, <1>4 DEF Executes, Parts, BodyInv, SliceInv
<1>10. CountInv' /\ done' \in Counter
  BY <1>3, <1>4, <1>6, ExecuteCount
<1>11. late \in Nat /\ late <= run.ip - 1 /\ late' \in Nat /\ late' <= run.ip /\ late' <= MaxInsts
  <2>1. late \in Nat /\ late <= run.ip - 1 /\ run.ip \in Nat
    BY <1>1, <1>9, RunnerCounts DEF Parts, LateInv
  <2>2. late' = late \/ late' = late + 1
    BY <1>4
  <2> QED BY ONLY <1>8, <2>1, <2>2, Counts
<1>12. Sound(cache', body', code')
  BY <1>1, <1>4 DEF Sound
<1>13. Typed'
  <2>1. d \in Pc \cup {EMPTY_PC}
    <3>1. due \in Pc \cup {EMPTY_PC} /\ (s.insn.op \notin {"ld", "svc", "brk"} => next \in Pc)
      BY <1>1, <1>5 DEF Typed
    <3> QED BY <1>3, <1>4, <1>8, <3>1 DEF DueAfter
  <2>2. late' \in 0 .. (MaxInsts + 1)
    BY <1>11, Counts
  <2> QED BY <1>3, <1>6, <1>7, <1>10, <2>1, <2>2 DEF Typed
<1>14. IdleInv' /\ LoopInv' /\ SliceInv'
  <2>1. r.at \in {"body", "entry", "exit"}
    BY <1>6 DEF Went
  <2>2. run.budget \in Budgets /\ (~ctx.fault => ctx.skip = NoSkip)
    BY <1>1, <1>9 DEF Parts, IdleInv
  <2>3. ~x.fault => x.skip = NoSkip
    BY <1>7, <2>2
  <2> QED BY <1>1, <1>3, <1>6, <1>9, <2>1, <2>2, <2>3 DEF Parts, IdleInv, LoopInv, SliceInv
<1>15. HostInv' /\ BodyInv'
  <2>1. /\ Held(cache, run.host) /\ (LinkBlocks => run.thunk = "Full")
        /\ run.thunk = "Full" \/ Certificate(body[run.host]) = "XmmFree"
    BY <1>9, RunnerBlock
  <2>2. CASE r.at = "body" /\ r.host = run.host /\ r.ip = run.ip + 1 /\ run.ip < Len(body[run.host].insns)
    <3>1. run.ip + 1 \in 1 .. Len(body[run.host].insns)
      <4>1. Len(body[run.host].insns) \in Nat
        BY <1>9, RunnerBlock, Counts DEF Runs
      <4> QED BY <1>8, <2>2, <4>1
    <3>2. run.host \in LiveHosts' \ {0}
      BY <1>4, <2>1 DEF Held, LiveHosts
    <3> QED BY <1>3, <1>4, <1>6, <1>9, <2>1, <2>2, <3>1, <3>2 DEF HostInv, BodyInv
  <2>3. CASE r.at = "entry" /\ Held(cache, r.host) /\ LinkBlocks
    <3>1. r.host \in LiveHosts' \ {0}
      BY <1>4, <2>3 DEF Held, LiveHosts
    <3>2. run.charged # 0
      BY <1>9, RunnerCounts
    <3> QED BY <1>3, <1>4, <1>6, <2>1, <2>3, <3>1, <3>2 DEF HostInv, BodyInv
  <2>4. CASE r.at = "exit"
    BY <1>3, <2>4 DEF HostInv, BodyInv
  <2> QED BY <1>6, <2>2, <2>3, <2>4 DEF Went
<1>16. ExitInv'
  <2>1. run.charged # 0
    BY <1>9, RunnerCounts
  <2>2. CASE r.at # "exit"
    BY <1>3, <2>2 DEF ExitInv
  <2>3. CASE r.at = "exit" /\ r.exit = "pc" /\ r.next = next
    BY <1>3, <1>5, <1>6, <2>1, <2>3 DEF ExitInv
  <2>4. CASE r.at = "exit" /\ r.exit = s.insn.op /\ s.insn.op \in {"svc", "brk"}
    BY <1>3, <1>4, <1>6, <1>7, <1>8, <2>1, <2>4 DEF ExitInv
  <2> QED BY <1>6, <2>2, <2>3, <2>4 DEF Went
<1>17. LateInv'
  <2>1. ~Pending' => late' = 0
    <3>1. ~Pending' => ~Pending
      BY <1>3, <1>7 DEF Pending
    <3> QED BY <1>1, <1>4, <3>1 DEF Parts, LateInv
  <2>2. r.at = "body" => late' <= r.ip - 1
    <3>1. r.at = "body" => r.ip = run.ip + 1
      BY <1>6 DEF Went
    <3> QED BY <1>11, <3>1, RunnerCounts
  <2>3. r.at # "idle"
    BY <1>6 DEF Went
  <2> QED BY <1>3, <1>11, <2>1, <2>2, <2>3 DEF LateInv
<1>18. ResumeInv'
  <2> SUFFICES ASSUME ResumeAfterFault, x.fault
               PROVE  IF x.skip = NoSkip THEN d = Resume'
                      ELSE d = x.skip /\ d \in Word /\ code[d].op = "ld"
    BY <1>3, <1>4 DEF ResumeInv
  <2>1. IF x.skip = NoSkip
        THEN d = IF s.insn.op \in {"svc", "brk"} THEN s.pc ELSE next
        ELSE d = x.skip /\ d \in Word /\ code[d].op = "ld"
    BY <1>3, <1>4, DueStep
  <2>2. Resume' = IF s.insn.op \in {"svc", "brk"} THEN s.pc ELSE next
    <3>1. CASE /\ r.at = "body" /\ r.host = run.host /\ r.ip = run.ip + 1
               /\ body[run.host].insns[run.ip + 1].pc = next /\ s.insn.op \notin {"svc", "brk"}
      BY <1>3, <1>4, <3>1 DEF Resume
    <3>2. CASE r.at = "entry" /\ body[r.host].start = next /\ s.insn.op \notin {"svc", "brk"}
      BY <1>3, <1>4, <3>2 DEF Resume
    <3>3. CASE r.at = "exit" /\ r.exit = "pc" /\ r.next = next /\ s.insn.op \notin {"svc", "brk"}
      BY <1>3, <3>3 DEF Resume
    <3>4. CASE r.at = "exit" /\ r.exit = s.insn.op /\ s.insn.op \in {"svc", "brk"}
      <4>1. CASE s.insn.op = "svc"
        <5>1. Resume' = x.pc - 4
          BY <1>3, <3>4, <4>1 DEF Resume
        <5>2. x.pc = s.pc + 4
          BY <1>7, <4>1, Zenon
        <5>3. Resume' = s.pc
          <6>1. s.pc \in Nat
            BY <1>8, Addresses
          <6> QED BY ONLY <5>1, <5>2, <6>1
        <5> QED BY <4>1, <5>3
      <4>2. CASE s.insn.op = "brk"
        <5>1. Resume' = x.pc
          BY <1>3, <3>4, <4>2 DEF Resume
        <5> QED BY <1>7, <4>2, <5>1
      <4> QED BY <3>4, <4>1, <4>2
    <3> QED BY <1>6, <3>1, <3>2, <3>3, <3>4 DEF Went
  <2> QED BY <2>1, <2>2
<1> QED BY <1>10, <1>12, <1>13, <1>14, <1>15, <1>16, <1>17, <1>18, Compose DEF Parts

-----------------------------------------------------------------------------
(* The dispatcher, back from generated code.                               *)

\* The count a slice retired is the number of instructions executed.
LEMMA RetiredFacts ==
  ASSUME Inductive, run.at = "exit"
  PROVE  /\ Retired \in Counter /\ Sum(Retired, 0) = Sum(done, 0)
         /\ run.budget = Unlimited => Retired <= Limit
         /\ Retired = done /\ (run.budget # Unlimited => done <= run.budget)
<1>1. PICK a, c : a = run.retired /\ c = run.charged
  OBVIOUS
<1>2. /\ a \in Nat /\ c \in Nat /\ done \in Nat /\ run.slice \in Nat /\ run.budget \in Nat
      /\ run.budget <= Unlimited /\ Owed = 0
  BY <1>1, RunnerCounts DEF Owed
<1>3. CASE run.budget = Unlimited
  <2>1. Plus(a, c) = Plus(done, 0) /\ Retired = Plus(a, c) /\ done <= Limit
    BY <1>1, <1>2, <1>3, RunnerCounts DEF Sum, Retired
  <2>2. Plus(done, 0) = done
    BY <1>2, <2>1, Counts DEF Plus
  <2>3. Plus(a, c) \in Counter /\ Plus(a, c) <= Limit
    BY <1>2, PlusFacts
  <2> QED BY <1>3, <2>1, <2>2, <2>3 DEF Sum
<1>4. CASE run.budget # Unlimited
  <2>1. a + c = done + 0 /\ Retired = a + c /\ c <= run.slice
    BY <1>1, <1>2, <1>4, RunnerCounts DEF Sum, Retired
  <2>2. a < run.budget /\ run.slice = run.budget - a
    BY <1>1, Decompose DEF Parts, SliceInv
  <2>3. Retired = done /\ done <= run.budget
    BY ONLY <1>2, <2>1, <2>2
  <2>4. Retired \in Counter
    BY <1>2, <2>3, Counts DEF Counter
  <2> QED BY <1>4, <2>3, <2>4 DEF Sum
<1> QED BY <1>3, <1>4

\* An exit that leaves the dispatcher.
LEMMA ExitReturnInv ==
  ASSUME Inductive, ExitFault \/ ExitException
  PROVE  Inductive'
<1>1. Sound(cache, body, code) /\ Typed /\ Parts
  BY Decompose
<1>2. run.at = "exit" /\ UNCHANGED <<code, cache, body>>
  BY DEF ExitFault, ExitException
<1>3. Sound(cache', body', code')
  BY <1>1, <1>2 DEF Sound
<1>4. ctx' \in CtxType
  <2>1. CASE ExitException \/ ~ResumeAfterFault
    BY <1>1, <2>1 DEF ExitException, ExitFault, Typed
  <2>2. CASE ExitFault /\ ResumeAfterFault
    <3>1. ctx' = [ctx EXCEPT !.pc = FaultResumePc]
      BY <2>2 DEF ExitFault
    <3>2. FaultResumePc \in Pc
      <4>1. run.exit \in {"pc", "svc", "brk"} /\ (run.exit = "pc" => run.next \in Pc)
        BY <1>1, <1>2 DEF Parts, ExitInv
      <4>2. ctx.pc \in Pc /\ ctx.skip \in Pc \cup {NoSkip}
        BY <1>1 DEF Typed, CtxType
      <4>3. run.exit = "svc" => (ctx.pc - 4) % (MaxAddr + 1) \in Pc
        <5>1. run.exit = "svc" => \E p \in Word : ctx.pc = p + 4
          BY <1>1, <1>2 DEF Parts, ExitInv
        <5> QED BY <5>1, Addresses
      <4> QED BY <4>1, <4>2, <4>3 DEF FaultResumePc
    <3> QED BY <1>1, <3>1, <3>2 DEF Typed, CtxType
  <2> QED BY <2>1, <2>2 DEF ExitFault
<1>5. \E reason : Return(reason, Retired)
  BY DEF ExitFault, ExitException
<1> QED BY <1>3, <1>4, <1>5, ReturnInv

\* An exit that goes on in the loop.
LEMMA ContinueInv ==
  ASSUME Inductive, ExitContinue
  PROVE  Inductive'
<1>1. Sound(cache, body, code) /\ Typed /\ Parts
  BY Decompose
<1>2. PICK n : n = Retired
  OBVIOUS
<1>3. /\ run.at = "exit" /\ run.exit = "pc" /\ ~ctx.fault
      /\ ctx' = [ctx EXCEPT !.pc = run.next]
      /\ run' = [Idle EXCEPT !.at = "loop", !.budget = run.budget, !.retired = n]
      /\ UNCHANGED <<code, cache, body, outcome, due, done, late>>
  BY <1>2 DEF ExitContinue
<1>4. n \in Counter /\ Sum(n, 0) = Sum(done, 0) /\ (run.budget = Unlimited => n <= Limit)
  BY <1>2, <1>3, RetiredFacts
<1>5. /\ ctx' \in CtxType /\ ~ctx'.fault /\ ctx'.halt = ctx.halt /\ ctx'.skip = ctx.skip
  <2>1. run.next \in Pc
    BY <1>1, <1>3 DEF Parts, ExitInv
  <2> QED BY <1>1, <1>3, <2>1 DEF Typed, CtxType
<1>6. /\ run'.at = "loop" /\ run'.budget = run.budget /\ run'.retired = n /\ run'.charged = 0
      /\ run'.slice = 0 /\ run' \in RunType
  <2>1. run.budget \in Counter
    BY <1>1 DEF Typed, RunType
  <2> QED BY <1>3, <1>4, <2>1, IdleFacts DEF RunType
<1>7. Sound(cache', body', code') /\ Typed'
  BY <1>1, <1>3, <1>5, <1>6 DEF Sound, Typed
<1>8. IdleInv' /\ LoopInv' /\ SliceInv' /\ HostInv' /\ BodyInv' /\ ExitInv'
  BY <1>1, <1>3, <1>5, <1>6 DEF Parts, IdleInv, LoopInv, SliceInv, HostInv, BodyInv, ExitInv
<1>9. CountInv'
  <2>1. Owed' = 0
    BY <1>6 DEF Owed
  <2>2. Sum(run.retired, run.charged)' = Sum(done, Owed)'
    BY <1>3, <1>4, <1>6, <2>1 DEF Sum
  <2>3. done' \in Nat /\ IF run'.budget = Unlimited THEN done' <= Limit /\ run'.retired <= Limit
                        ELSE run'.charged <= run'.slice
    BY <1>3, <1>4, <1>6, RunnerCounts
  <2> QED BY <2>2, <2>3 DEF CountInv
<1>10. LateInv' /\ ResumeInv'
  BY <1>1, <1>3, <1>5, <1>6 DEF Parts, LateInv, ResumeInv, Pending
<1> QED BY <1>7, <1>8, <1>9, <1>10, Compose DEF Parts

\* Every step preserves the invariant.
LEMMA NextInv == Inductive /\ [Next]_vars => Inductive'
<1> SUFFICES ASSUME Inductive, [Next]_vars PROVE Inductive'
  OBVIOUS
<1>1. CASE UNCHANGED vars
  <2>1. Sound(cache, body, code) /\ Typed /\ Parts
    BY Decompose
  <2>2. /\ code' = code /\ cache' = cache /\ body' = body /\ ctx' = ctx /\ run' = run
        /\ due' = due /\ done' = done /\ late' = late
    BY <1>1 DEF vars
  <2>3. IdleInv' /\ LoopInv' /\ SliceInv' /\ HostInv' /\ BodyInv'
    BY <2>1, <2>2 DEF Parts, IdleInv, LoopInv, SliceInv, HostInv, BodyInv, LiveHosts
  <2>4. ExitInv' /\ CountInv' /\ LateInv' /\ ResumeInv'
    BY <2>1, <2>2
    DEF Parts, ExitInv, CountInv, LateInv, ResumeInv, Pending, Sum, Owed, Resume
  <2> QED BY <2>1, <2>2, <2>3, <2>4, Compose DEF Sound, Typed, Parts
<1>2. CASE \E new \in Programs, ord \in Order : Rewrite(new, ord)
  <2>1. Order \subseteq [Pc -> Nat]
    BY DispatcherAssumption
  <2> QED BY <1>2, <2>1, RewriteInv
<1>3. CASE (\E p \in Pc : SetPc(p)) \/ RequestHalt
  BY <1>3, ContextInv
<1>4. CASE \E b \in Budgets : Call(b)
  BY <1>4, CallInv
<1>5. CASE LoopHalted \/ LoopBudget
  BY <1>5, LoopReturnInv
<1>6. CASE LoopLookup
  BY <1>6, LookupStepInv
<1>7. CASE EntryBails
  BY <1>7, BailsInv
<1>8. CASE EntryRuns
  BY <1>8, RunsInv
<1>9. CASE \E dir \in Chain, t \in Pc : Execute(dir, t)
  BY <1>9, ExecuteInv
<1>10. CASE ExitRefused
  BY <1>10, RefusedInv
<1>11. CASE ExitFault \/ ExitException
  BY <1>11, ExitReturnInv
<1>12. CASE ExitContinue
  BY <1>12, ContinueInv
<1> QED BY <1>1, <1>2, <1>3, <1>4, <1>5, <1>6, <1>7, <1>8, <1>9, <1>10, <1>11, <1>12
        DEF Next, Runner

-----------------------------------------------------------------------------
(* What run_bounded guarantees.                                            *)

\* The invariant holds in every reachable state.
THEOREM DispatcherInductive == Spec => []Inductive
<1>1. Init => Inductive
  BY InitInv
<1>2. Inductive /\ [Next]_vars => Inductive'
  BY NextInv
<1> QED BY <1>1, <1>2, PTL DEF Spec

\* Guest code, cache, context and the runner's locals are always well formed.
THEOREM TypeCorrect == Spec => []TypeOK
<1>1. Inductive => TypeOK
  BY DEF Inductive
<1> QED BY <1>1, DispatcherInductive, PTL

\* Generated code runs only in blocks the cache holds: no pointer to a dropped
\* block survives in a link, a dispatch slot or run_bounded's locals.
THEOREM LiveCodeCorrect == Spec => []RunsLiveCode
<1>1. Inductive => RunsLiveCode
  BY DEF Inductive, HostInv, RunsLiveCode
<1> QED BY <1>1, DispatcherInductive, PTL

\* Once a halt or a fault is pending, at most the block that is running goes on.
THEOREM LatencyCorrect == Spec => []HaltLatency
<1>1. Inductive => HaltLatency
  BY DEF Inductive, LateInv, HaltLatency
<1> QED BY <1>1, DispatcherInductive, PTL

\* An instruction that uses the callee-saved vector registers runs only behind
\* the thunk that saves them.
THEOREM VectorsCorrect == Spec => []VectorsSaved
<1>1. ASSUME Inductive, run.at = "body", body[run.host].insns[run.ip].pc \in Vector
      PROVE  run.thunk = "Full"
  <2>1. PICK b : b = body[run.host]
    OBVIOUS
  <2>2. b.insns \in Steps /\ run.ip \in 1 .. Len(b.insns)
    <3>1. run.host \in Unit /\ body \in Bodies
      BY <1>1, Decompose, RunnerBlock DEF Sound, Runs
    <3>2. run.ip \in 1 .. Len(body[run.host].insns)
      BY <1>1, Decompose DEF Parts, BodyInv
    <3> QED BY <2>1, <3>1, <3>2 DEF Bodies
  <2>3. run.ip \in DOMAIN b.insns
    <3>1. PICK n \in 0 .. MaxInsts : b.insns \in [1 .. n -> Step]
      BY <2>2 DEF Steps
    <3>2. n \in Nat /\ b.insns \in Seq(Step) /\ DOMAIN b.insns = 1 .. n
      BY <3>1, Counts, SeqDef
    <3> QED BY <2>2, <3>2, LenProperties
  <2>4. Certificate(b) = "Full"
    BY <1>1, <2>1, <2>3 DEF Certificate
  <2> QED BY <1>1, <2>1, <2>4, RunnerBlock
<1>2. Inductive => VectorsSaved
  BY <1>1 DEF VectorsSaved
<1> QED BY <1>2, DispatcherInductive, PTL

\* A run that returns a fault and resumes after faults leaves in ctx.pc the first
\* instruction that has not had its effect.
THEOREM FaultPcCorrect ==
  ASSUME ResumeAfterFault
  PROVE  Spec => FaultPcExact
<1>1. ASSUME Inductive, ExitFault PROVE ctx'.pc = due
  <2>1. /\ run.at = "exit" /\ ctx.fault /\ ctx' = [ctx EXCEPT !.pc = FaultResumePc]
        /\ ctx \in CtxType
    BY <1>1, Decompose DEF ExitFault, Typed
  <2>2. IF ctx.skip = NoSkip THEN due = Resume ELSE due = ctx.skip
    BY <1>1, <2>1, Decompose DEF Parts, ResumeInv
  <2>3. run.exit \in {"pc", "svc", "brk"} /\ (run.exit = "svc" => \E p \in Word : ctx.pc = p + 4)
    BY <1>1, <2>1, Decompose DEF Parts, ExitInv
  <2>4. ctx'.pc = FaultResumePc
    BY <2>1 DEF CtxType
  <2>5. run.exit = "svc" => (ctx.pc - 4) % (MaxAddr + 1) = ctx.pc - 4
    <3>1. ASSUME NEW p \in Word, ctx.pc = p + 4
          PROVE  (ctx.pc - 4) % (MaxAddr + 1) = ctx.pc - 4
      <4>1. p \in Nat /\ (p + 4 - 4) % (MaxAddr + 1) = p
        BY Addresses
      <4> QED BY <3>1, <4>1
    <3> QED BY <2>3, <3>1
  <2>6. FaultResumePc = due
    BY <2>1, <2>2, <2>3, <2>5 DEF FaultResumePc, Resume
  <2> QED BY <2>4, <2>6
<1>2. Inductive /\ [Next]_vars => [ExitFault => ctx'.pc = due]_vars
  BY <1>1
<1> QED BY <1>2, DispatcherInductive, PTL DEF Spec, FaultPcExact

-----------------------------------------------------------------------------
(* run_bounded implements the guest that executes one instruction at a     *)
(* time.                                                                   *)

\* A step the guest does not see.
LEMMA Unseen ==
  ASSUME run.at # "idle", run'.at # "idle", GuestPc' = GuestPc,
         code' = code, run'.budget = run.budget, done' = done,
         ctx'.halt = ctx.halt, ctx'.fault = ctx.fault, outcome' = outcome
  PROVE  UNCHANGED Guest!vars
BY DEF Guest!vars

\* A return the guest can make.
LEMMA GuestReturns ==
  ASSUME Inductive, run.at # "idle", NEW reason \in Guest!Reason, Return(reason, done),
         Guest!Ends(reason), reason # "fault" => ~ctx.fault,
         code' = code, ctx'.fault = ctx.fault, ctx'.pc \in Pc,
         ctx'.halt = IF reason = "stopped" THEN FALSE ELSE ctx.halt,
         reason # "fault" => ctx'.pc = GuestPc
  PROVE  Guest!Return
<1>1. run' = Idle /\ done' = 0 /\ outcome' = [reason |-> reason, retired |-> done]
  BY DEF Return
<1>2. run'.at = "idle" /\ run'.budget = 0
  BY <1>1, IdleFacts
<1>3. GuestPc' = ctx'.pc
  BY <1>2 DEF GuestPc
<1> QED BY <1>1, <1>2, <1>3 DEF Guest!Return

\* In a return the counts agree.
LEMMA LoopCount ==
  ASSUME Inductive, run.at \in {"loop", "exit"}, run.charged = 0
  PROVE  run.retired = done
<1>1. Owed = 0
  BY DEF Owed
<1>2. run.retired \in Nat /\ done \in Nat /\ Sum(run.retired, 0) = Sum(done, 0)
  BY <1>1, RunnerCounts
<1>3. CASE run.budget = Unlimited
  <2>1. Plus(run.retired, 0) = Plus(done, 0) /\ run.retired <= Limit /\ done <= Limit
    BY <1>2, <1>3, RunnerCounts DEF Sum
  <2> QED BY <1>2, <2>1, Counts DEF Plus
<1>4. CASE run.budget # Unlimited
  BY <1>2, <1>4 DEF Sum
<1> QED BY <1>3, <1>4

\* The embedder's steps.
LEMMA EmbedderSimulated ==
  ASSUME Inductive, NEW ord,
         \/ \E new \in Programs : Rewrite(new, ord)
         \/ \E p \in Pc : SetPc(p)
         \/ RequestHalt
         \/ \E b \in Budgets : Call(b)
  PROVE  Guest!Next
<1>1. Typed /\ Parts
  BY Decompose
<1>2. CASE \E new \in Programs : Rewrite(new, ord)
  <2>1. run.at = "idle" /\ code' \in Programs /\ UNCHANGED <<ctx, run, outcome, done>>
    BY <1>2 DEF Rewrite
  <2>2. GuestPc = ctx.pc /\ GuestPc' = ctx'.pc
    BY <2>1 DEF GuestPc
  <2> QED BY <2>1, <2>2 DEF Guest!Next, Guest!Rewrite
<1>3. CASE \E p \in Pc : SetPc(p)
  <2>1. PICK p \in Pc : SetPc(p)
    BY <1>3
  <2>2. /\ run.at = "idle" /\ ctx' = [ctx EXCEPT !.pc = p] /\ ctx \in CtxType
        /\ UNCHANGED <<code, run, outcome, done>>
    BY <1>1, <2>1 DEF SetPc, Typed
  <2>3. ctx'.pc = p /\ ctx'.halt = ctx.halt /\ ctx'.fault = ctx.fault
    BY <2>2 DEF CtxType
  <2>4. GuestPc' = ctx'.pc
    BY <2>2 DEF GuestPc
  <2> QED BY <2>2, <2>3, <2>4 DEF Guest!Next, Guest!SetPc
<1>4. CASE RequestHalt
  <2>1. /\ ctx' = [ctx EXCEPT !.halt = TRUE] /\ ctx \in CtxType
        /\ UNCHANGED <<code, body, run, outcome, done>>
    BY <1>1, <1>4 DEF RequestHalt, Typed
  <2>2. ctx'.pc = ctx.pc /\ ctx'.halt = TRUE /\ ctx'.fault = ctx.fault
    BY <2>1 DEF CtxType
  <2>3. GuestPc' = GuestPc
    BY <2>1, <2>2 DEF GuestPc
  <2> QED BY <2>1, <2>2, <2>3 DEF Guest!Next, Guest!Halt
<1>5. CASE \E b \in Budgets : Call(b)
  <2>1. PICK b \in Budgets : Call(b)
    BY <1>5
  <2>2. /\ run.at = "idle" /\ run' = [Idle EXCEPT !.at = "loop", !.budget = b]
        /\ ctx' = [ctx EXCEPT !.fault = FALSE, !.skip = NoSkip] /\ ctx \in CtxType
        /\ outcome' = NoOutcome /\ UNCHANGED <<code, done>>
    BY <1>1, <2>1 DEF Call, Typed
  <2>3. ctx'.pc = ctx.pc /\ ctx'.halt = ctx.halt /\ ctx'.fault = FALSE
    BY <2>2 DEF CtxType
  <2>4. run'.at = "loop" /\ run'.budget = b
    BY <2>2 DEF Idle
  <2>5. done = 0
    BY <1>1, <2>2 DEF Parts, IdleInv
  <2>6. GuestPc = ctx.pc /\ GuestPc' = ctx'.pc
    BY <2>2, <2>4 DEF GuestPc
  <2> QED BY <2>2, <2>3, <2>4, <2>5, <2>6
          DEF Guest!Next, Guest!Start, NoOutcome, Guest!NoOutcome
<1> QED BY <1>2, <1>3, <1>4, <1>5

\* The loop's returns.
LEMMA LoopReturnSimulated ==
  ASSUME Inductive, LoopHalted \/ LoopBudget
  PROVE  Guest!Next
<1>1. Typed /\ Parts
  BY Decompose
<1>2. run.at = "loop" /\ code' = code
  BY DEF LoopHalted, LoopBudget
<1>3. ~ctx.fault /\ run.charged = 0 /\ run.retired = done /\ GuestPc = ctx.pc /\ ctx \in CtxType
  BY <1>1, <1>2, LoopCount DEF Parts, LoopInv, GuestPc, Typed
<1>4. CASE LoopHalted
  <2>1. ctx.halt /\ ctx' = [ctx EXCEPT !.halt = FALSE] /\ Return("stopped", done)
    BY <1>3, <1>4 DEF LoopHalted
  <2>2. ctx'.pc = ctx.pc /\ ctx'.halt = FALSE /\ ctx'.fault = ctx.fault /\ ctx.pc \in Pc
    BY <1>3, <2>1 DEF CtxType
  <2>3. "stopped" \in Guest!Reason /\ Guest!Ends("stopped")
    BY <2>1 DEF Guest!Reason, Guest!Ends
  <2>4. Guest!Return
    BY <1>2, <1>3, <2>1, <2>2, <2>3, GuestReturns
  <2> QED BY <2>4 DEF Guest!Next
<1>5. CASE LoopBudget
  <2>1. run.retired >= run.budget /\ ctx' = ctx /\ Return("budget", done)
    BY <1>3, <1>5 DEF LoopBudget
  <2>2. run.budget = 0 \/ done > 0
    BY <1>3, <2>1, RunnerCounts
  <2>3. "budget" \in Guest!Reason /\ Guest!Ends("budget")
    BY <2>2 DEF Guest!Reason, Guest!Ends
  <2>4. ctx.pc \in Pc
    BY <1>3 DEF CtxType
  <2>5. Guest!Return
    BY <1>2, <1>3, <2>1, <2>3, <2>4, GuestReturns
  <2> QED BY <2>5 DEF Guest!Next
<1> QED BY <1>4, <1>5

\* A compilation ends in a block from the guest's PC, or in a return for what
\* cannot be translated.
LEMMA CompileSimulated ==
  ASSUME FitsEmpty, Inductive, NEW r, Ready(r), run.at \in {"loop", "exit"}, GuestPc = ctx.pc,
         NEW cap \in 0 .. (MaxInsts - 1), Compile(r, cap), UNCHANGED <<code, ctx>>
  PROVE  [Guest!Next]_Guest!vars
<1>1. Sound(cache, body, code) /\ Typed
  BY Decompose
<1>2. ctx.pc \in Pc /\ r.pc = ctx.pc /\ ~ctx.fault /\ r.retired = done
  BY <1>1, LoopCount DEF Ready, Typed, CtxType, Pending
<1>3. \/ \E status \in {"unmapped", "unsupported"} :
           Failure(code, r.pc, status) /\ Return(status, r.retired)
      \/ /\ UNCHANGED <<outcome, due, done, late>>
         /\ \E h : /\ Held(cache', h) /\ body'[h].start = r.pc
                    /\ run' = Enter(r, h, Certificate(body'[h]))
  <2>1. code \in Programs /\ CacheInv(cache) /\ CodeInv(cache, body, code) /\ body \in Bodies
        /\ r.pc \in Pc
    BY <1>1, <1>2 DEF Sound
  <2> QED BY <2>1, CompileStep
<1>4. ASSUME NEW status \in {"unmapped", "unsupported"}, Failure(code, r.pc, status),
             Return(status, r.retired)
      PROVE  Guest!Next
  <2>1. PICK q \in Pc : /\ Line(code, ctx.pc, q)
                        /\ \/ status = "unmapped" /\ q \notin Word
                           \/ status = "unsupported" /\ q \in Word /\ code[q].op = "udf"
    BY <1>2, <1>4 DEF Failure
  <2>2. Guest!Untranslatable(GuestPc, q)
    BY <2>1 DEF Guest!Untranslatable, Line, Terminator, Guest!Terminator
  <2>3. Guest!Ends(status)
    BY <2>1, <2>2 DEF Guest!Ends
  <2>4. status \in Guest!Reason
    BY DEF Guest!Reason
  <2>5. run.at # "idle" /\ Return(status, done) /\ ctx' = ctx
    BY <1>2, <1>4
  <2>6. Guest!Return
    BY <1>2, <2>3, <2>4, <2>5, GuestReturns
  <2> QED BY <2>6 DEF Guest!Next
<1>5. ASSUME UNCHANGED <<outcome, due, done, late>>, NEW h, body'[h].start = r.pc,
             run' = Enter(r, h, Certificate(body'[h]))
      PROVE  UNCHANGED Guest!vars
  <2>1. r \in RunType /\ r.budget = run.budget
    BY DEF Ready
  <2>2. run'.at = "entry" /\ run'.host = h /\ run'.budget = run.budget
    BY <1>5, <2>1 DEF Enter, RunType
  <2>3. GuestPc' = GuestPc
    BY <1>2, <1>5, <2>2 DEF GuestPc
  <2> QED BY <1>5, <2>2, <2>3, Unseen
<1> QED BY <1>3, <1>4, <1>5

\* The loop finds a block from the guest's PC.
LEMMA LookupSimulated ==
  ASSUME FitsEmpty, Inductive, LoopLookup
  PROVE  [Guest!Next]_Guest!vars
<1>1. Sound(cache, body, code) /\ Typed /\ code \in Code
  BY Decompose
<1>2. /\ run.at = "loop" /\ ~ctx.halt /\ run.retired < run.budget /\ UNCHANGED <<code, ctx>>
      /\ LET f == Found(cache, ctx.pc)
         IN IF f.host = 0 THEN Compile(Sliced, 0)
            ELSE /\ run' = Enter(Sliced, f.host, f.thunk)
                 /\ cache' = IF SlotHit(cache, ctx.pc) THEN cache
                             ELSE AfterLookup(cache, ctx.pc)
                 /\ UNCHANGED <<body, outcome, due, done, late>>
  BY DEF LoopLookup, Sliced
<1>3. PICK r, f : r = Sliced /\ f = Found(cache, ctx.pc)
  OBVIOUS
<1>4. Ready(r) /\ GuestPc = ctx.pc /\ ctx.pc \in Pc
  BY <1>1, <1>2, <1>3, SlicedReady DEF GuestPc, Typed, CtxType
<1>5. CASE f.host = 0
  <2>1. Compile(r, 0) /\ 0 \in 0 .. (MaxInsts - 1)
    BY <1>2, <1>3, <1>5, Counts
  <2> QED BY <1>2, <1>4, <2>1, CompileSimulated
<1>6. CASE f.host # 0
  <2>1. run' = Enter(r, f.host, f.thunk) /\ UNCHANGED <<body, outcome, due, done, late>>
    BY <1>2, <1>3, <1>6
  <2>2. body[f.host].start = ctx.pc
    <3>1. CacheInv(cache) /\ CodeInv(cache, body, code)
      BY <1>1 DEF Sound
    <3>2. PICK d : d = IF SlotHit(cache, ctx.pc) THEN cache ELSE AfterLookup(cache, ctx.pc)
      OBVIOUS
    <3> QED BY <1>1, <1>3, <1>4, <1>6, <3>1, <3>2, FoundFacts
  <2>3. run'.at = "entry" /\ run'.host = f.host /\ run'.budget = run.budget
    BY <1>4, <2>1 DEF Enter, Ready, RunType
  <2>4. GuestPc' = GuestPc
    BY <1>4, <2>1, <2>2, <2>3 DEF GuestPc
  <2> QED BY <1>2, <2>1, <2>3, <2>4, Unseen
<1> QED BY <1>5, <1>6

\* A refused block ends the run, or a capped block is entered in its place.
LEMMA RefusedSimulated ==
  ASSUME FitsEmpty, Inductive, ExitRefused
  PROVE  [Guest!Next]_Guest!vars
<1>1. Sound(cache, body, code) /\ Typed /\ Parts
  BY Decompose
<1>2. PICK r : r = [run EXCEPT !.capped = TRUE, !.exit = "none", !.next = EMPTY_PC]
  OBVIOUS
<1>3. PICK h : h = cache.capped[<<run.pc, run.slice>>].host
  OBVIOUS
<1>4. /\ run.at = "exit" /\ Refused /\ code' = code /\ ctx' = ctx
      /\ IF run.retired > 0
         THEN Return("budget", run.retired) /\ UNCHANGED <<cache, body>>
         ELSE IF h = 0 THEN Compile(r, run.slice)
              ELSE /\ run' = Enter(r, h, "Full")
                   /\ UNCHANGED <<cache, body, outcome, due, done, late>>
  BY <1>2, <1>3 DEF ExitRefused
<1>5. /\ run.charged = 0 /\ run.exit = "pc" /\ run.next = run.pc /\ ~Pending
      /\ run.slice < MaxInsts
  BY <1>1, <1>4 DEF Refused, Pending, Parts, ExitInv
<1>6. /\ run.pc \in Pc /\ run.retired < run.budget /\ run.slice = run.budget - run.retired
      /\ ctx.pc = run.pc /\ run.retired = done
  BY <1>1, <1>4, <1>5, LoopCount DEF Parts, SliceInv
<1>7. /\ r \in RunType /\ r.pc = ctx.pc /\ r.budget = run.budget /\ r.retired = run.retired
      /\ r.slice = run.slice
  BY <1>1, <1>2, <1>6 DEF Typed, RunType
<1>8. Ready(r) /\ GuestPc = ctx.pc
  BY <1>4, <1>5, <1>6, <1>7 DEF Ready, GuestPc
<1>9. run.slice \in 0 .. (MaxInsts - 1) /\ run.slice \in Cap
  <2>1. run.slice \in Nat /\ run.slice # 0
    BY <1>1, <1>6, Counts DEF Typed, RunType, Counter
  <2> QED BY <1>5, <2>1, Counts, DispatcherAssumption
<1>10. CASE run.retired > 0
  <2>1. "budget" \in Guest!Reason /\ Guest!Ends("budget") /\ Return("budget", done)
    BY <1>4, <1>6, <1>10 DEF Guest!Reason, Guest!Ends
  <2>2. Guest!Return
    BY <1>4, <1>5, <1>6, <1>8, <2>1, GuestReturns DEF Pending
  <2> QED BY <2>2 DEF Guest!Next
<1>11. CASE ~(run.retired > 0) /\ h = 0
  BY <1>4, <1>8, <1>9, <1>11, CompileSimulated
<1>12. CASE ~(run.retired > 0) /\ h # 0
  <2>1. run' = Enter(r, h, "Full") /\ UNCHANGED <<body, outcome, due, done, late>>
    BY <1>4, <1>12
  <2>2. body[h].start = run.pc
    <3>1. PICK e : e = <<run.pc, run.slice>>
      OBVIOUS
    <3>2. e \in Pc \X Cap /\ e[1] = run.pc /\ h = cache.capped[e].host
      BY <1>3, <1>6, <1>9, <3>1
    <3> QED BY <1>1, <1>12, <3>2 DEF Sound, CodeInv
  <2>3. run'.at = "entry" /\ run'.host = h /\ run'.budget = run.budget
    BY <1>7, <2>1 DEF Enter, RunType
  <2>4. GuestPc' = GuestPc
    BY <1>6, <1>8, <2>1, <2>2, <2>3 DEF GuestPc
  <2> QED BY <1>4, <2>1, <2>3, <2>4, Unseen
<1> QED BY <1>10, <1>11, <1>12

\* The entry of a block is not seen.
LEMMA EntrySimulated ==
  ASSUME Inductive, EntryBails \/ EntryRuns
  PROVE  UNCHANGED Guest!vars
<1>1. run \in RunType
  BY Decompose DEF Typed
<1>2. /\ run.at = "entry" /\ UNCHANGED <<code, cache, body, ctx, outcome, due, done, late>>
      /\ Runs(body, code, run.host) /\ GuestPc = body[run.host].start
  BY RunnerBlock DEF EntryBails, EntryRuns, GuestPc
<1>3. CASE EntryBails
  <2>1. run' = [run EXCEPT !.at = "exit", !.exit = "pc", !.next = body[run.host].start]
    BY <1>3 DEF EntryBails
  <2>2. /\ run'.at = "exit" /\ run'.exit = "pc" /\ run'.next = body[run.host].start
        /\ run'.budget = run.budget
    BY <1>1, <2>1 DEF RunType
  <2>3. GuestPc' = GuestPc
    BY <1>2, <2>2 DEF GuestPc
  <2> QED BY <1>2, <2>2, <2>3, Unseen
<1>4. CASE EntryRuns
  <2>1. PICK c : run' = [run EXCEPT !.at = "body", !.ip = 1, !.charged = c]
    BY <1>4 DEF EntryRuns
  <2>2. run'.at = "body" /\ run'.ip = 1 /\ run'.host = run.host /\ run'.budget = run.budget
    BY <1>1, <2>1 DEF RunType
  <2>3. GuestPc' = GuestPc
    BY <1>2, <2>2 DEF GuestPc, Runs
  <2> QED BY <1>2, <2>2, <2>3, Unseen
<1> QED BY <1>3, <1>4

\* The guest's PC after an instruction of generated code.
LEMMA GuestMoves ==
  ASSUME Inductive, NEW s, Executes(s), NEW next, NEW r, Went(s, r, next),
         NEW dir, NEW t, next = GuestNext(s.insn, s.pc, dir, t),
         run' = r, body' = body, ctx' = CtxAfter(s)
  PROVE  GuestPc = s.pc /\ GuestPc' = next
<1>1. GuestPc = s.pc
  BY DEF Executes, GuestPc
<1>2. PICK x : x = ctx'
  OBVIOUS
<1>3. (s.insn.op = "svc" => x.pc = s.pc + 4) /\ (s.insn.op = "brk" => x.pc = s.pc)
  BY <1>2, ContextAfter
<1>4. After(s.pc) = s.pc + 4
  BY ExecutesFacts
<1>5. GuestPc' = next
  <2>1. CASE r.at = "body" /\ r.host = run.host /\ r.ip = run.ip + 1
             /\ body[run.host].insns[run.ip + 1].pc = next
    BY <2>1 DEF GuestPc
  <2>2. CASE r.at = "entry" /\ body[r.host].start = next
    BY <2>2 DEF GuestPc
  <2>3. CASE r.at = "exit" /\ r.exit = "pc" /\ r.next = next
    BY <2>3 DEF GuestPc
  <2>4. CASE r.at = "exit" /\ r.exit = s.insn.op /\ s.insn.op \in {"svc", "brk"}
    <3>1. GuestPc' = x.pc
      BY <1>2, <2>4 DEF GuestPc
    <3>2. CASE s.insn.op = "svc"
      BY <1>3, <1>4, <3>1, <3>2 DEF GuestNext
    <3>3. CASE s.insn.op = "brk"
      BY <1>3, <3>1, <3>3 DEF GuestNext
    <3> QED BY <2>4, <3>2, <3>3
  <2> QED BY <2>1, <2>2, <2>3, <2>4 DEF Went
<1> QED BY <1>1, <1>5

\* Every instruction of generated code is one of the guest, within its budget.
LEMMA ExecuteSimulated ==
  ASSUME Inductive, NEW dir \in Chain, NEW t \in Pc, Execute(dir, t)
  PROVE  Guest!Next
<1>1. Typed /\ Parts
  BY Decompose
<1>2. PICK s : s = body[run.host].insns[run.ip]
  OBVIOUS
<1>3. PICK r, x, next : r = run' /\ x = ctx' /\ next = GuestNext(s.insn, s.pc, dir, t)
  OBVIOUS
<1>4. /\ Executes(s) /\ (s.insn.op # "bcond" => dir = "taken") /\ run.at = "body"
      /\ r = Leave(s, dir, t) /\ x = CtxAfter(s) /\ done' = Sum(done, 1)
      /\ UNCHANGED <<code, cache, body, outcome>>
  BY <1>2, <1>3 DEF Execute, Executes, Sum
<1>5. next \in Pc /\ Goes(s, r, next)
  BY <1>3, <1>4, LeaveFacts
<1>6. r \in RunType /\ Went(s, r, next) /\ r.budget = run.budget
  BY <1>4, <1>5, GoesFields
<1>7. /\ x.halt = ctx.halt /\ x.fault \in BOOLEAN /\ ctx.fault \in BOOLEAN
      /\ x.fault = (ctx.fault \/ (s.insn.op = "ld" /\ s.pc \in Unmapped))
  BY <1>1, <1>4, ContextAfter DEF Typed, CtxType
<1>8. s.pc \in Word /\ s.insn = code[s.pc]
  BY <1>4, ExecutesFacts
<1>9. GuestPc = s.pc /\ GuestPc' = next
  BY <1>3, <1>4, <1>6, GuestMoves
<1>10. run.at # "idle" /\ run'.at # "idle" /\ run'.budget = run.budget
  BY <1>3, <1>4, <1>6 DEF Went
<1>11. done < run.budget /\ done' = Guest!Count(done)
  <2>1. PICK o : o = Owed
    OBVIOUS
  <2>2. o \in Nat /\ o > 0
    <3>1. Len(body[run.host].insns) \in 1 .. MaxInsts /\ run.ip \in 1 .. Len(body[run.host].insns)
      BY <1>4, RunnerBlock, ExecutesFacts DEF Runs
    <3>2. o = Len(body[run.host].insns) + 1 - run.ip
      BY <1>4, <2>1 DEF Owed
    <3> QED BY <3>1, <3>2, Counts
  <2>3. CASE run.budget = Unlimited
    <3>1. done \in Nat /\ done <= Limit /\ done' = Plus(done, 1)
      BY <1>4, <2>3, RunnerCounts DEF Sum
    <3> QED BY <2>3, <3>1, Counts DEF Plus, Guest!Count
  <2>4. CASE run.budget # Unlimited
    <3>1. /\ done \in Nat /\ done' = done + 1 /\ run.retired + run.charged = done + o
          /\ run.charged <= run.slice /\ run.charged \in Nat /\ run.retired \in Nat
          /\ run.budget \in Nat
      BY <1>4, <2>1, <2>4, RunnerCounts DEF Sum
    <3>2. run.slice = run.budget - run.retired /\ run.budget \in Budgets
      BY <1>1, <1>4 DEF Parts, SliceInv, IdleInv
    <3>3. run.budget <= Limit /\ Limit \in Nat
      BY <2>4, <3>2, Counts
    <3>4. done < run.budget /\ done + 1 <= Limit
      BY ONLY <2>2, <3>1, <3>2, <3>3
    <3> QED BY <3>1, <3>3, <3>4 DEF Guest!Count
  <2> QED BY <2>3, <2>4
<1>12. CASE ctx.fault
  <2>1. Guest!Drain
    BY <1>3, <1>4, <1>5, <1>7, <1>9, <1>10, <1>11, <1>12 DEF Guest!Drain
  <2> QED BY <2>1 DEF Guest!Next
<1>13. CASE ~ctx.fault /\ x.fault
  <2>1. s.insn.op = "ld"
    BY <1>7, <1>13
  <2>2. Guest!Fault
    BY <1>3, <1>4, <1>5, <1>7, <1>8, <1>9, <1>10, <1>11, <1>13, <2>1 DEF Guest!Fault
  <2> QED BY <2>2 DEF Guest!Next
<1>14. CASE ~ctx.fault /\ ~x.fault
  <2>1. next = Guest!GuestNext(code[GuestPc], GuestPc, dir, t)
    BY <1>3, <1>8, <1>9 DEF GuestNext, Guest!GuestNext, After, Guest!After
  <2>2. dir \in {"taken", "fall"}
    BY DispatcherAssumption
  <2>3. Guest!Execute
    <3>1. \E y \in {"taken", "fall"}, z \in Pc :
            GuestPc' = Guest!GuestNext(code[GuestPc], GuestPc, y, z)
      BY <1>9, <2>1, <2>2
    <3> QED BY <1>3, <1>4, <1>7, <1>8, <1>9, <1>10, <1>11, <1>14, <3>1 DEF Guest!Execute
  <2> QED BY <2>3 DEF Guest!Next
<1> QED BY <1>12, <1>13, <1>14

\* The exits: a fault or an exception ends the run, anything else is not seen.
LEMMA ExitSimulated ==
  ASSUME Inductive, Inductive', ExitFault \/ ExitException \/ ExitContinue
  PROVE  [Guest!Next]_Guest!vars
<1>1. Typed /\ Parts
  BY Decompose
<1>2. ctx \in CtxType /\ run.at = "exit" /\ run.at # "idle" /\ code' = code /\ body' = body
      /\ Retired = done
  BY <1>1, RetiredFacts DEF Typed, ExitFault, ExitException, ExitContinue
<1>3. CASE ExitFault
  <2>1. ctx.fault /\ Return("fault", done)
    BY <1>2, <1>3 DEF ExitFault
  <2>2. ctx' = ctx \/ ctx' = [ctx EXCEPT !.pc = FaultResumePc]
    BY <1>3 DEF ExitFault
  <2>3. ctx'.halt = ctx.halt /\ ctx'.fault = ctx.fault /\ ctx'.pc \in Pc
    <3>1. ctx'.halt = ctx.halt /\ ctx'.fault = ctx.fault
      BY <1>2, <2>2 DEF CtxType
    <3>2. ctx'.pc \in Pc
      BY DEF Inductive, TypeOK
    <3> QED BY <3>1, <3>2
  <2>4. "fault" \in Guest!Reason /\ Guest!Ends("fault")
    BY <2>1 DEF Guest!Reason, Guest!Ends
  <2>5. Guest!Return
    BY <1>2, <2>1, <2>3, <2>4, GuestReturns
  <2> QED BY <2>5 DEF Guest!Next
<1>4. CASE ExitException
  <2>1. run.exit # "pc" /\ ~ctx.fault /\ Return(run.exit, done) /\ ctx' = ctx
    BY <1>2, <1>4 DEF ExitException
  <2>2. /\ run.exit \in {"svc", "brk"}
        /\ run.exit = "svc" => \E p \in Word : code[p].op = "svc" /\ ctx.pc = p + 4
        /\ run.exit = "brk" => ctx.pc \in Word /\ code[ctx.pc].op = "brk"
    BY <1>1, <1>2, <2>1 DEF Parts, ExitInv
  <2>3. GuestPc = ctx.pc /\ ctx.pc \in Pc
    BY <1>2, <2>1 DEF GuestPc, CtxType
  <2>4. PICK reason : reason = run.exit
    OBVIOUS
  <2>5. Guest!Ends(reason)
    <3>1. CASE reason = "svc"
      <4>1. PICK p \in Word : code[p].op = "svc" /\ ctx.pc = p + 4
        BY <2>2, <2>4, <3>1
      <4>2. GuestPc = Guest!After(p)
        BY <2>3, <4>1, Addresses DEF After, Guest!After
      <4> QED BY <3>1, <4>1, <4>2 DEF Guest!Ends
    <3>2. CASE reason = "brk"
      BY <2>2, <2>3, <2>4, <3>2 DEF Guest!Ends
    <3> QED BY <2>2, <2>4, <3>1, <3>2
  <2>6. reason \in Guest!Reason /\ reason # "stopped" /\ reason # "fault"
    BY <2>2, <2>4 DEF Guest!Reason
  <2>7. Guest!Return
    BY <1>2, <2>1, <2>3, <2>4, <2>5, <2>6, GuestReturns
  <2> QED BY <2>7 DEF Guest!Next
<1>5. CASE ExitContinue
  <2>1. PICK n : n = Retired
    OBVIOUS
  <2>2. /\ run.exit = "pc" /\ ctx' = [ctx EXCEPT !.pc = run.next]
        /\ run' = [Idle EXCEPT !.at = "loop", !.budget = run.budget, !.retired = n]
        /\ outcome' = outcome /\ done' = done
    BY <1>5, <2>1 DEF ExitContinue
  <2>3. run'.at = "loop" /\ run'.budget = run.budget
    BY <2>2 DEF Idle
  <2>4. ctx'.pc = run.next /\ ctx'.halt = ctx.halt /\ ctx'.fault = ctx.fault
    BY <1>2, <2>2 DEF CtxType
  <2>5. GuestPc' = GuestPc
    BY <1>2, <2>2, <2>3, <2>4 DEF GuestPc
  <2>6. UNCHANGED Guest!vars
    BY <1>2, <2>2, <2>3, <2>4, <2>5, Unseen
  <2> QED BY <2>6
<1> QED BY <1>3, <1>4, <1>5

\* run_bounded implements the guest: every instruction its blocks execute is the
\* one guest memory holds at the guest's PC, no more than `budget` of them run,
\* and the outcome gives the number executed and a reason that holds.
THEOREM GuestImplemented ==
  ASSUME FitsEmpty
  PROVE  Spec => ImplementsGuest
<1>1. Init => Guest!Init
  <2> SUFFICES ASSUME Init PROVE Guest!Init
    OBVIOUS
  <2>1. PICK p \in Pc : ctx = [pc |-> p, halt |-> FALSE, fault |-> FALSE, skip |-> NoSkip]
    BY DEF Init
  <2>2. ctx.pc \in Pc /\ ctx.halt = FALSE /\ ctx.fault = FALSE
    BY <2>1
  <2>3. run.at = "idle" /\ run.budget = 0
    BY IdleFacts DEF Init
  <2>4. GuestPc = ctx.pc
    BY <2>3 DEF GuestPc
  <2> QED BY <2>2, <2>3, <2>4 DEF Init, Guest!Init, NoOutcome, Guest!NoOutcome
<1>2. Inductive /\ Inductive' /\ [Next]_vars => [Guest!Next]_Guest!vars
  <2> SUFFICES ASSUME Inductive, Inductive', [Next]_vars PROVE [Guest!Next]_Guest!vars
    OBVIOUS
  <2>1. CASE UNCHANGED vars
    BY <2>1 DEF vars, Guest!vars, GuestPc
  <2>2. CASE \E new \in Programs, ord \in Order : Rewrite(new, ord)
    BY <2>2, EmbedderSimulated
  <2>3. CASE (\E p \in Pc : SetPc(p)) \/ RequestHalt \/ \E b \in Budgets : Call(b)
    BY <2>3, EmbedderSimulated
  <2>4. CASE LoopHalted \/ LoopBudget
    BY <2>4, LoopReturnSimulated
  <2>5. CASE LoopLookup
    BY <2>5, LookupSimulated
  <2>6. CASE EntryBails \/ EntryRuns
    BY <2>6, EntrySimulated
  <2>7. CASE \E dir \in Chain, t \in Pc : Execute(dir, t)
    BY <2>7, ExecuteSimulated
  <2>8. CASE ExitRefused
    BY <2>8, RefusedSimulated
  <2>9. CASE ExitFault \/ ExitException \/ ExitContinue
    BY <2>9, ExitSimulated
  <2> QED BY <2>1, <2>2, <2>3, <2>4, <2>5, <2>6, <2>7, <2>8, <2>9 DEF Next, Runner
<1> QED BY <1>1, <1>2, DispatcherInductive, PTL DEF Spec, ImplementsGuest, Guest!Spec
=============================================================================

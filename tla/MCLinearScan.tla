---------------------------- MODULE MCLinearScan ----------------------------
(***************************************************************************)
(* Blocks of up to five nodes over one general and one vector register:    *)
(* four nodes of any kind and a last one that stores, or that the terminal *)
(* reads.                                                                  *)
(***************************************************************************)
EXTENDS LinearScan

MCGpr == {3}
MCXmm == {6}

N(kind, args, clobbers) == [kind |-> kind, args |-> args, clobbers |-> clobbers]

\* What a call of a helper or a memory callback destroys with the System V
\* convention: CALLER_SAVED_XMMS is every vector register.
SysV == {<<"xmm", 6>>}

Scalars(s) == {i \in DOMAIN s : s[i].kind \in {"const", "two", "id", "op"}}
Vectors(s) == {i \in DOMAIN s : s[i].kind = "vec"}

\* A guest register or vector register is read; a load; vector and two-address
\* arithmetic; a constant; a store.
Nodes(s, call) ==
  {N("op", <<>>, {}), N("vec", <<>>, {}), N("const", <<>>, {})}
  \cup {N("op", <<a>>, call) : a \in Scalars(s)}
  \cup {N("vec", <<a>>, {}) : a \in Vectors(s)}
  \cup {N("two", <<a, b>>, {}) : a, b \in Scalars(s)}
  \cup {N("void", <<a, b>>, call) : a \in Scalars(s), b \in Scalars(s) \cup Vectors(s)}

Copies(s) == {N("id", <<a>>, {}) : a \in Scalars(s)}

Then(S, more(_)) == UNION {{Append(s, n) : n \in more(s)} : s \in S}

Get == N("op", <<>>, {})

\* The last node: a store; a two-address node; or the copy the terminal reads,
\* alone or with an operand of a fused compare.
Closed(s, call) ==
  {[nodes |-> Append(s, n), term |-> {}] :
     n \in {m \in Nodes(s, call) : m.kind \in {"void", "two"}}}
  \cup {[nodes |-> Append(s, N("id", <<a>>, {})), term |-> {Len(s) + 1, b}] :
          a, b \in Scalars(s)}

ClosedBlocks(S, call) == UNION {Closed(s, call) : s \in S}

\* Every block of four nodes, and those of five without vectors and constants.
\* Forwarding leaves no copy with a user but the terminal.
MCBlocks ==
  LET more(s) == Nodes(s, SysV)
      some(s) == {n \in Nodes(s, SysV) : n.kind \in {"two", "void"}} \cup {Get}
  IN ClosedBlocks(Then(Then({<<Get>>}, more), more), SysV)
     \cup ClosedBlocks(Then(Then(Then({<<Get>>}, some), some), some), SysV)

\* The blocks of forwarding meet the condition the proofs put on them.
ASSUME MCClean == \A b \in MCBlocks : Clean(b)

\* try_mul_fold leaves a copy of the product it inserts, with users of its own.
MCCopies ==
  LET more(s) == Nodes(s, SysV)
  IN ClosedBlocks(Then({<<Get, N("two", <<1, 1>>, {}), N("id", <<2>>, {})>>}, more), SysV)
=============================================================================

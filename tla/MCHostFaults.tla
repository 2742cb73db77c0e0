----------------------------- MODULE MCHostFaults -----------------------------
EXTENDS HostFaults
CONSTANTS a, b, d1, d2, p1, p2, p3

\* One access, and two accesses that share a slow path as those of an atomic do.
MCBlocks == {[size |-> 6, sites |-> <<[offset |-> 1, len |-> 3, slow |-> 5]>>],
             [size |-> 9, sites |-> <<[offset |-> 1, len |-> 3, slow |-> 8],
                                      [offset |-> 4, len |-> 3, slow |-> 8]>>]}
MCTableLen == [j \in Tabled |-> IF j = p1 THEN 3 ELSE 2]

\* Two threads share a Jit and nest another in it; two threads with three tables for two
\* slots; a direct Jit whose callback runs one with a table.
MCEmbeddings == {(a :> {d1, d2} @@ b :> {d1}), (a :> {p1, p2} @@ b :> {p3}),
                 (a :> {d1, p1} @@ b :> {})}
=============================================================================

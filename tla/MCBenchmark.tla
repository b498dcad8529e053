---------------------------- MODULE MCBenchmark -----------------------------
(***************************************************************************)
(* A direct-mapped L1 of two blocks: lines a1, a2 and a3 share the first,  *)
(* b1 has the second to itself.                                            *)
(***************************************************************************)
EXTENDS Benchmark

CONSTANTS a1, a2, a3, b1

FourLines == {a1, a2, a3, b1}
DirectMapped == [l \in FourLines |-> IF l = b1 THEN {2} ELSE {1}]

W(l) == [IsWrite |-> TRUE, Addr |-> l]
R(l) == [IsWrite |-> FALSE, Addr |-> l]

\* smallTrace in small: fill the L1, read back, then let two lines push each
\* other out.
Thrash == <<W(a1), W(b1), R(a1), R(b1), W(a2), R(a1), W(a2), R(a1)>>

\* largeTrace in small: writes and reads of the two conflicting lines change
\* places.
Alternate == <<W(a1), W(a2), R(a1), W(a1), R(a2), W(b1)>>

\* Three lines through one block: the victim cache overflows as well.
Overflow == <<W(a1), W(a2), W(a3), R(a1), R(a2), W(a1), R(a3)>>

\* Nothing is ever dirty.
ReadOnly == <<R(a1), R(a2), R(b1), R(a1)>>

MCTraces == {Thrash, Alternate, Overflow, ReadOnly, <<>>}
=============================================================================

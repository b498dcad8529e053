-------------------------- MODULE MCWritebackCache --------------------------
(***************************************************************************)
(* Instances of WritebackCache: one set of ways, two or three lines.       *)
(***************************************************************************)
EXTENDS WritebackCache, TLC

CONSTANTS x1, x2, x3

TwoLines   == {x1, x2}
ThreeLines == {x1, x2, x3}

TwoLinesOneSet   == [l \in TwoLines |-> Slots]
ThreeLinesOneSet == [l \in ThreeLines |-> Slots]

\* A read, or a write of one of the given kinds.
Request(lines, full) ==
  [write : {TRUE}, full : full, line : lines]
    \cup [write : {FALSE}, full : {FALSE}, line : lines]

ThreeLinesAny   == [i \in ReqID |-> Request(ThreeLines, BOOLEAN)]

\* A write first, a read last, anything between.
WriteToRead ==
  [i \in ReqID |->
     {r \in Request(TwoLines, BOOLEAN) : /\ i = 1 => r.write
                                        /\ i = MaxReqs => ~r.write}]

\* A write, anything, then a read or a write of a whole line; of three lines
\* that are called x1, x2 and x3 in the order they come in.
InOrder ==
  <<{r \in Request({x1}, BOOLEAN) : r.write},
    Request({x1, x2}, BOOLEAN),
    {r \in Request(ThreeLines, BOOLEAN) : r.write => r.full}>>

\* Whole-line writes first, then reads.
WritesThenReads ==
  [i \in ReqID |-> [write : {i < 4}, full : {i < 4}, line : TwoLines]]

\* Jam: five whole lines are written, two lines fetched, one of the five read
\* twice, and the other four pushed out by whole-line writes.
JamLines == 1 .. 11
JamLinesOneSet == [l \in JamLines |-> Slots]
Jam ==
  LET write(l) == {[write |-> TRUE, full |-> TRUE, line |-> l]}
      read(l)  == {[write |-> FALSE, full |-> FALSE, line |-> l]}
  IN <<write(1), write(2), write(3), write(4), write(5), read(6), read(7),
       read(5), read(5), write(8), write(9), write(10), write(11)>>

TwoSymmetry   == Permutations(TwoLines)
ThreeSymmetry == Permutations(ThreeLines)
=============================================================================

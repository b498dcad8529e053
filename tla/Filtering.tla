------------------------------ MODULE Filtering ------------------------------
(***************************************************************************)
(* The elements of a sequence that belong to a set, in their order: what   *)
(* Array.prototype.filter does in the pages' code, and what the L1's loops *)
(* over its lists do in Go when they leave elements out.                   *)
(* SelectSeq of the standard module says the same, but to the prover it is *)
(* a name without a definition.                                            *)
(***************************************************************************)
EXTENDS Integers, Sequences

Filter(s, kept) ==
  LET upTo[i \in 0 .. Len(s)] ==
        IF i = 0 THEN <<>>
        ELSE IF s[i] \in kept THEN Append(upTo[i - 1], s[i]) ELSE upTo[i - 1]
  IN upTo[Len(s)]
==============================================================================

----------------------------- MODULE LruBuffer -----------------------------
(***************************************************************************)
(* What the victim cache alone promises: it serves requests one at a time, *)
(* in order; the lines it holds form one list, least recently put first;   *)
(* taking a line removes it, putting one moves it to the end; and the only *)
(* things sent below are the reads it cannot serve and the first line of a *)
(* full list when another must be put.                                     *)
(***************************************************************************)
EXTENDS Integers, Sequences, SequencesExt

CONSTANTS Lines, Data, NoData, Capacity

VARIABLES
  resident,  \* the lines held, least recently put first
  asked,     \* the requests not served yet, in order
  below      \* the requests sent below and not served there yet

vars == <<resident, asked, below>>

Request(kind, l, d) == [kind |-> kind, line |-> l, data |-> d]

Init == resident = <<>> /\ asked = <<>> /\ below = <<>>

Position(l) == SelectInSeq(resident, LAMBDA e : e.line = l)

Ask(kind, l, d) ==
  /\ asked' = Append(asked, Request(kind, l, d))
  /\ UNCHANGED <<resident, below>>

Take ==
  /\ asked # <<>> /\ Head(asked).kind = "ReadReq"
  /\ asked' = Tail(asked)
  /\ LET k == Position(Head(asked).line)
     IN \/ /\ k # 0
           /\ resident' = RemoveAt(resident, k)
           /\ UNCHANGED below
        \/ /\ k = 0
           /\ below' = Append(below, Head(asked))
           /\ UNCHANGED resident

Put ==
  /\ asked # <<>> /\ Head(asked).kind = "WriteReq"
  /\ asked' = Tail(asked)
  /\ LET new == [line |-> Head(asked).line, data |-> Head(asked).data]
         k == Position(new.line)
         oldest == Head(resident)
     IN \/ /\ k # 0
           /\ resident' = Append(RemoveAt(resident, k), new)
           /\ UNCHANGED below
        \/ /\ k = 0 /\ Len(resident) < Capacity
           /\ resident' = Append(resident, new)
           /\ UNCHANGED below
        \/ /\ k = 0 /\ Len(resident) = Capacity
           /\ resident' = Append(Tail(resident), new)
           /\ below' = Append(below, Request("WriteReq", oldest.line,
                                             oldest.data))

BelowServes(k) ==
  /\ below' = RemoveAt(below, k)
  /\ UNCHANGED <<resident, asked>>

Next ==
  \/ \E l \in Lines : Ask("ReadReq", l, NoData)
  \/ \E l \in Lines, d \in Data : Ask("WriteReq", l, d)
  \/ Take
  \/ Put
  \/ \E k \in DOMAIN below : BelowServes(k)

Spec == Init /\ [][Next]_vars
=============================================================================

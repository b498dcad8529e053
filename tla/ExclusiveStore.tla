--------------------------- MODULE ExclusiveStore ---------------------------
(***************************************************************************)
(* What the victim cache and the memory below it promise together to the   *)
(* level above: requests are served one at a time in the order they were   *)
(* asked.  Put stores a line among the Capacity most recently put ones and *)
(* moves the least recent one home when there is no room.  Take hands out  *)
(* a resident line and forgets it, or reads it at home.                    *)
(*                                                                         *)
(* No ports, no latencies, no clock, no pending table.                     *)
(***************************************************************************)
EXTENDS Integers, Sequences, SequencesExt

CONSTANTS Lines, Data, ZeroData, NoData, Capacity, IDs

VARIABLES
  resident,  \* the lines held, least recently put first
  home,      \* what each line's home in memory holds
  asked,     \* the requests not served yet, in order
  answers    \* every answer given so far

vars == <<resident, home, asked, answers>>

Init ==
  /\ resident = <<>>
  /\ home = [l \in Lines |-> ZeroData]
  /\ asked = <<>>
  /\ answers = {}

Position(l) == SelectInSeq(resident, LAMBDA e : e.line = l)

Answer(kind, d) ==
  /\ answers' = answers \cup {[kind |-> kind, rspTo |-> Head(asked).id,
                               data |-> d]}
  /\ asked' = Tail(asked)

Ask(kind, l, d) ==
  /\ \E id \in IDs :
       asked' = Append(asked, [kind |-> kind, id |-> id, line |-> l,
                               data |-> d])
  /\ UNCHANGED <<resident, home, answers>>

TakeResident ==
  /\ asked # <<>> /\ Head(asked).kind = "ReadReq"
  /\ LET k == Position(Head(asked).line)
     IN /\ k # 0
        /\ Answer("DataReadyRsp", resident[k].data)
        /\ resident' = RemoveAt(resident, k)
  /\ UNCHANGED home

TakeHome ==
  /\ asked # <<>> /\ Head(asked).kind = "ReadReq"
  /\ Position(Head(asked).line) = 0
  /\ Answer("DataReadyRsp", home[Head(asked).line])
  /\ UNCHANGED <<resident, home>>

Put ==
  /\ asked # <<>> /\ Head(asked).kind = "WriteReq"
  /\ LET new == [line |-> Head(asked).line, data |-> Head(asked).data]
         k == Position(new.line)
     IN \/ /\ k # 0
           /\ resident' = Append(RemoveAt(resident, k), new)
           /\ UNCHANGED home
        \/ /\ k = 0 /\ Len(resident) < Capacity
           /\ resident' = Append(resident, new)
           /\ UNCHANGED home
        \/ /\ k = 0 /\ Len(resident) = Capacity
           /\ resident' = Append(Tail(resident), new)
           /\ home' = [home EXCEPT ![Head(resident).line] =
                         Head(resident).data]
  /\ Answer("WriteDoneRsp", NoData)

Next ==
  \/ \E l \in Lines : Ask("ReadReq", l, NoData)
  \/ \E l \in Lines, d \in Data : Ask("WriteReq", l, d)
  \/ TakeResident
  \/ TakeHome
  \/ Put

Spec == Init /\ [][Next]_vars
=============================================================================

---------------------------- MODULE VictimCache ----------------------------
(***************************************************************************)
(* The victim cache of victimcache.go: a small fully associative buffer    *)
(* between the L1 cache and the memory.  It is a ticking component: the    *)
(* engine calls Tick, Tick runs four stages in a fixed order, and when no  *)
(* stage makes progress the component sleeps until a port notifies it.     *)
(*                                                                         *)
(* An address is abstracted to the line it is aligned to (L1 only ever     *)
(* fetches and evicts whole, aligned lines), a line's bytes to one datum.  *)
(* The two sides of the component are open: any read or write may arrive   *)
(* at the top port, and the low module answers what it was sent in any     *)
(* order and with any data.  VictimHierarchy closes both sides.            *)
(***************************************************************************)
EXTENDS Integers, Sequences, FiniteSets, SequencesExt

CONSTANTS
  Lines,      \* the aligned block addresses
  ZeroLine,   \* address 0: the Tag of a slot nothing was ever stored in
  Data,       \* what a whole line can hold
  ZeroData,   \* the zero bytes a fresh slot holds
  NoData,     \* the payload of a message that carries none
  NumBlocks,  \* spec.NumBlocks
  Latency,    \* spec.Latency
  PortCap,    \* the capacity of each port buffer (16 in the code)
  MaxReqs,    \* bound: requests the top side issues
  MaxClock    \* bound: the clock below which spare wake-ups still arrive

ASSUME LineAssumption == ZeroLine \in Lines
ASSUME DataAssumption == ZeroData \in Data /\ NoData \notin Data
ASSUME SizeAssumption ==
  /\ NumBlocks \in Nat \ {0}
  /\ Latency \in Nat
  /\ PortCap \in Nat \ {0}
  /\ MaxReqs \in Nat
  /\ MaxClock \in Nat

VARIABLES
  blocks,           \* Blocks
  topTransactions,  \* requests taken from the top port, oldest first
  pendingBottom,    \* what was sent below and not answered yet
  cycleCount,       \* the LRU clock (accesses, not cycles)
  VCHits, VCMisses, BottomSendCount,
  topIn, topOut, bottomIn, bottomOut,  \* the buffers of the two ports
  awake,            \* a tick event is scheduled
  stage,            \* the stage Tick runs next; "idle" between ticks
  progress,         \* Tick's local variable
  issued,           \* requests the upper side has sent so far
  answered,         \* the responses the upper side has collected
  lowReqs           \* requests the low module holds, in order of arrival

store   == <<blocks, cycleCount>>
stats   == <<VCHits, VCMisses, BottomSendCount>>
topPort == <<topIn, topOut>>
lowPort == <<bottomIn, bottomOut>>
outside == <<issued, answered, lowReqs>>
ticker  == <<awake, stage, progress>>
vars    == <<store, topTransactions, pendingBottom, stats, topPort, lowPort,
             ticker, outside>>

Slots == 1 .. NumBlocks

Block == [Tag : Lines, Valid : BOOLEAN, Dirty : BOOLEAN, Data : Data,
          LastAccessTime : Nat]

ReqID == 1 .. MaxReqs

TopReq == [kind : {"ReadReq"}, id : Nat, line : Lines, data : {NoData}]
            \cup [kind : {"WriteReq"}, id : Nat, line : Lines, data : Data]
TopRsp == [kind : {"DataReadyRsp"}, rspTo : Nat, data : Data]
            \cup [kind : {"WriteDoneRsp"}, rspTo : Nat, data : {NoData}]
Transaction ==
  [kind : {"ReadReq"}, id : Nat, line : Lines, data : {NoData},
   CycleLeft : Nat]
    \cup [kind : {"WriteReq"}, id : Nat, line : Lines, data : Data,
          CycleLeft : Nat]
PendingBottom == [BottomReqID : Nat, IsEviction : BOOLEAN, OrigReqID : Nat]

DataReady(r, d) == [kind |-> "DataReadyRsp", rspTo |-> r, data |-> d]
WriteDone(r)    == [kind |-> "WriteDoneRsp", rspTo |-> r, data |-> NoData]

(***************************************************************************)
(* Looking up the blocks.  Each loop of the code stops at the first slot   *)
(* that qualifies.                                                         *)
(***************************************************************************)
Holding(l) == {i \in Slots : blocks[i].Valid /\ blocks[i].Tag = l}
Empty      == {i \in Slots : ~blocks[i].Valid}

\* Mutant: the comparison of the victim search turned round.
MruIdx ==
  Min({i \in Slots : \A j \in Slots :
         blocks[i].LastAccessTime >= blocks[j].LastAccessTime})

LruIdx ==
  Min({i \in Slots : \A j \in Slots :
         blocks[i].LastAccessTime =< blocks[j].LastAccessTime})

CanSend(buffer) == Len(buffer) < PortCap

(***************************************************************************)
(* NewVictimCache.                                                         *)
(***************************************************************************)
Init ==
  /\ blocks = [i \in Slots |-> [Tag |-> ZeroLine, Valid |-> FALSE,
                                Dirty |-> FALSE, Data |-> ZeroData,
                                LastAccessTime |-> 0]]
  /\ topTransactions = <<>>
  /\ pendingBottom = <<>>
  /\ cycleCount = 0
  /\ VCHits = 0 /\ VCMisses = 0 /\ BottomSendCount = 0
  /\ topIn = <<>> /\ topOut = <<>> /\ bottomIn = <<>> /\ bottomOut = <<>>
  /\ awake = FALSE /\ stage = "idle" /\ progress = FALSE
  /\ issued = 0 /\ answered = {} /\ lowReqs = <<>>

(***************************************************************************)
(* Tick.  The engine starts it when a tick event is due; the four stages   *)
(* follow without anything else touching the component, because only       *)
(* connections touch a port from outside and they run as secondary events, *)
(* after every component's tick of the cycle.                              *)
(***************************************************************************)
Tick ==
  /\ stage = "idle" /\ awake
  /\ awake' = FALSE /\ progress' = FALSE /\ stage' = "bottom"
  /\ UNCHANGED <<store, topTransactions, pendingBottom, stats, topPort,
                 lowPort, outside>>

Step(next, made) ==
  /\ stage' = next
  /\ progress' = (progress \/ made)

\* Mutant: only the last stage keeps the component awake.
FinishForgetful(made) ==
  /\ stage' = "idle"
  /\ progress' = FALSE
  /\ awake' = (awake \/ made)

\* The last stage ends the tick: TickingComponent.Handle schedules another
\* tick when any stage made progress.
Finish(made) ==
  /\ stage' = "idle"
  /\ progress' = FALSE
  /\ awake' = (awake \/ progress \/ made)

(***************************************************************************)
(* processBottomResponse                                                   *)
(***************************************************************************)

\* The pending entry a response answers; 0, the code's panic, when none does.
Pending(rsp) ==
  SelectInSeq(pendingBottom, LAMBDA p : p.BottomReqID = rsp.rspTo)

CompleteBottomRead ==
  /\ stage = "bottom" /\ bottomIn # <<>>
  /\ Head(bottomIn).kind = "DataReadyRsp"
  /\ CanSend(topOut)
  /\ LET k == Pending(Head(bottomIn))
     IN /\ k # 0
        /\ topOut' = Append(topOut, DataReady(pendingBottom[k].OrigReqID,
                                              Head(bottomIn).data))
        /\ pendingBottom' = RemoveAt(pendingBottom, k)
  /\ bottomIn' = Tail(bottomIn)
  /\ Step("count", TRUE)
  /\ UNCHANGED <<store, topTransactions, stats, topIn, bottomOut, awake,
                 outside>>

\* handleWrite only sends evictions, whose answer goes no further up.
CompleteBottomWrite ==
  /\ stage = "bottom" /\ bottomIn # <<>>
  /\ Head(bottomIn).kind = "WriteDoneRsp"
  /\ LET k == Pending(Head(bottomIn))
     IN /\ k # 0
        /\ pendingBottom[k].IsEviction
        /\ pendingBottom' = RemoveAt(pendingBottom, k)
  /\ bottomIn' = Tail(bottomIn)
  /\ Step("count", TRUE)
  /\ UNCHANGED <<store, topTransactions, stats, topPort, bottomOut, awake,
                 outside>>

\* Nothing arrived, or a read's answer must wait for room in the top port.
NoBottomResponse ==
  /\ stage = "bottom"
  /\ \/ bottomIn = <<>>
     \/ /\ bottomIn # <<>> /\ Head(bottomIn).kind = "DataReadyRsp"
        /\ Pending(Head(bottomIn)) # 0
        /\ ~CanSend(topOut)
  /\ Step("count", FALSE)
  /\ UNCHANGED <<store, topTransactions, pendingBottom, stats, topPort,
                 lowPort, awake, outside>>

ProcessBottomResponse ==
  CompleteBottomRead \/ CompleteBottomWrite \/ NoBottomResponse

(***************************************************************************)
(* countDown and receiveTopRequest                                         *)
(***************************************************************************)
\* Mutant: the count-down does not stop at 0.
CountedBelowZero(t) == [t EXCEPT !.CycleLeft = @ - 1]

Counted(t) ==
  [t EXCEPT !.CycleLeft = IF t.CycleLeft > 0 THEN t.CycleLeft - 1 ELSE 0]

CountDown ==
  /\ stage = "count"
  /\ topTransactions' =
       [i \in DOMAIN topTransactions |-> Counted(topTransactions[i])]
  /\ Step("receive",
          \E i \in DOMAIN topTransactions : topTransactions[i].CycleLeft > 0)
  /\ UNCHANGED <<store, pendingBottom, stats, topPort, lowPort, awake,
                 outside>>

\* Mutant: a new request goes to the head of the queue.
ReceiveTopRequestInFront ==
  /\ stage = "receive"
  /\ \/ /\ topIn # <<>>
        /\ LET r == Head(topIn)
           IN topTransactions' =
                <<[kind |-> r.kind, id |-> r.id, line |-> r.line,
                   data |-> r.data, CycleLeft |-> Latency]>> \o topTransactions
        /\ topIn' = Tail(topIn)
        /\ Step("head", TRUE)
     \/ /\ topIn = <<>>
        /\ Step("head", FALSE)
        /\ UNCHANGED <<topIn, topTransactions>>
  /\ UNCHANGED <<store, pendingBottom, stats, topOut, lowPort, awake, outside>>

\* One message a tick, whatever the length of topTransactions.
ReceiveTopRequest ==
  /\ stage = "receive"
  /\ \/ /\ topIn # <<>>
        /\ LET r == Head(topIn)
           IN topTransactions' =
                Append(topTransactions,
                       [kind |-> r.kind, id |-> r.id, line |-> r.line,
                        data |-> r.data, CycleLeft |-> Latency])
        /\ topIn' = Tail(topIn)
        /\ Step("head", TRUE)
     \/ /\ topIn = <<>>
        /\ Step("head", FALSE)
        /\ UNCHANGED <<topIn, topTransactions>>
  /\ UNCHANGED <<store, pendingBottom, stats, topOut, lowPort, awake, outside>>

(***************************************************************************)
(* processHeadTransaction.  Only the head is ever looked at, so a request  *)
(* that cannot proceed holds back everything behind it.                    *)
(***************************************************************************)
HeadReady(kind) ==
  /\ stage = "head" /\ topTransactions # <<>>
  /\ Head(topTransactions).CycleLeft = 0
  /\ Head(topTransactions).kind = kind

FreshID == BottomSendCount + 1  \* GetIDGenerator().Generate()

Freed(b) ==
  [b EXCEPT !.Valid = FALSE, !.Dirty = FALSE, !.LastAccessTime = cycleCount]

\* Hit: the line leaves the victim cache with the answer, Dirty bit and all.
ReadHit ==
  /\ HeadReady("ReadReq")
  /\ Holding(Head(topTransactions).line) # {}
  /\ CanSend(topOut)
  /\ LET t == Head(topTransactions)
         i == Min(Holding(t.line))
     IN /\ blocks' = [blocks EXCEPT ![i] = Freed(blocks[i])]
        /\ topOut' = Append(topOut, DataReady(t.id, blocks[i].Data))
  /\ cycleCount' = cycleCount + 1
  /\ VCHits' = VCHits + 1
  /\ topTransactions' = Tail(topTransactions)
  /\ Finish(TRUE)
  /\ UNCHANGED <<pendingBottom, VCMisses, BottomSendCount, topIn, lowPort,
                 outside>>

SendReadBelow ==
  /\ CanSend(bottomOut)
  /\ LET t == Head(topTransactions)
     IN /\ bottomOut' = Append(bottomOut,
              [kind |-> "ReadReq", id |-> FreshID, line |-> t.line,
               data |-> NoData])
        /\ pendingBottom' = Append(pendingBottom,
              [BottomReqID |-> FreshID, IsEviction |-> FALSE,
               OrigReqID |-> t.id])
  /\ VCMisses' = VCMisses + 1
  /\ BottomSendCount' = BottomSendCount + 1
  /\ topTransactions' = Tail(topTransactions)
  /\ Finish(TRUE)
  /\ UNCHANGED <<store, VCHits, topPort, bottomIn, outside>>

\* Mutant: reads go below without a look at the blocks.
ReadMissUnchecked == HeadReady("ReadReq") /\ SendReadBelow

ReadMiss ==
  /\ HeadReady("ReadReq")
  /\ Holding(Head(topTransactions).line) = {}
  /\ SendReadBelow

\* Mutant: a stored line is not marked dirty.
FilledClean(t) ==
  [Tag |-> t.line, Valid |-> TRUE, Dirty |-> FALSE, Data |-> t.data,
   LastAccessTime |-> cycleCount]

\* Mutant: the block gets the advanced clock.
FilledAhead(t) ==
  [Tag |-> t.line, Valid |-> TRUE, Dirty |-> TRUE, Data |-> t.data,
   LastAccessTime |-> cycleCount + 1]

Filled(t) ==
  [Tag |-> t.line, Valid |-> TRUE, Dirty |-> TRUE, Data |-> t.data,
   LastAccessTime |-> cycleCount]

\* What every successful write does, whichever slot i it takes.
PutAndAck(i) ==
  LET t == Head(topTransactions)
  IN /\ blocks' = [blocks EXCEPT ![i] = Filled(t)]
     /\ cycleCount' = cycleCount + 1
     /\ topOut' = Append(topOut, WriteDone(t.id))
     /\ topTransactions' = Tail(topTransactions)
     /\ Finish(TRUE)
     /\ UNCHANGED <<VCHits, VCMisses, topIn, bottomIn, outside>>

WriteResident ==
  /\ HeadReady("WriteReq") /\ CanSend(topOut)
  /\ Holding(Head(topTransactions).line) # {}
  /\ PutAndAck(Min(Holding(Head(topTransactions).line)))
  /\ UNCHANGED <<pendingBottom, BottomSendCount, bottomOut>>

WriteEmpty ==
  /\ HeadReady("WriteReq") /\ CanSend(topOut)
  /\ Holding(Head(topTransactions).line) = {}
  /\ Empty # {}
  /\ PutAndAck(Min(Empty))
  /\ UNCHANGED <<pendingBottom, BottomSendCount, bottomOut>>

\* Full: the least recently used block makes room, and goes below if Dirty.
WriteFull ==
  /\ HeadReady("WriteReq") /\ CanSend(topOut)
  /\ Holding(Head(topTransactions).line) = {}
  /\ Empty = {}
  /\ LET victim == blocks[LruIdx]
     IN IF victim.Dirty
          THEN /\ CanSend(bottomOut)
               /\ bottomOut' = Append(bottomOut,
                     [kind |-> "WriteReq", id |-> FreshID,
                      line |-> victim.Tag, data |-> victim.Data])
               /\ pendingBottom' = Append(pendingBottom,
                     [BottomReqID |-> FreshID, IsEviction |-> TRUE,
                      OrigReqID |-> 0])
               /\ BottomSendCount' = BottomSendCount + 1
          ELSE UNCHANGED <<bottomOut, pendingBottom, BottomSendCount>>
  /\ PutAndAck(LruIdx)

\* The victim cannot be sent below.  The clock was advanced before the check.
WriteStalled ==
  /\ HeadReady("WriteReq") /\ CanSend(topOut)
  /\ Holding(Head(topTransactions).line) = {}
  /\ Empty = {}
  /\ blocks[LruIdx].Dirty /\ ~CanSend(bottomOut)
  /\ cycleCount' = cycleCount + 1
  /\ Finish(FALSE)
  /\ UNCHANGED <<blocks, topTransactions, pendingBottom, stats, topPort,
                 lowPort, outside>>

HeadWaits ==
  topTransactions # <<>> =>
    LET t == Head(topTransactions)
    IN \/ t.CycleLeft > 0
       \/ IF t.kind = "ReadReq" /\ Holding(t.line) = {}
            THEN ~CanSend(bottomOut)
            ELSE ~CanSend(topOut)

\* Mutant: a miss is counted also when it has to wait.
NothingHandledButCounted ==
  /\ stage = "head" /\ HeadWaits
  /\ VCMisses' = VCMisses + (IF topTransactions # <<>> THEN 1 ELSE 0)
  /\ Finish(FALSE)
  /\ UNCHANGED <<store, topTransactions, pendingBottom, VCHits,
                 BottomSendCount, topPort, lowPort, outside>>

NothingHandled ==
  /\ stage = "head" /\ HeadWaits
  /\ Finish(FALSE)
  /\ UNCHANGED <<store, topTransactions, pendingBottom, stats, topPort,
                 lowPort, outside>>

ProcessHeadTransaction ==
  \/ ReadHit \/ ReadMiss
  \/ WriteResident \/ WriteEmpty \/ WriteFull \/ WriteStalled
  \/ NothingHandled

(***************************************************************************)
(* The ports seen from the connection, between two ticks.  NotifyRecv      *)
(* comes only with a message that finds its buffer empty, NotifyPortFree   *)
(* only with the message that takes a buffer from full to one below.       *)
(***************************************************************************)
Between == stage = "idle" /\ UNCHANGED <<store, stats, topTransactions,
                                         pendingBottom, stage, progress>>

TopDeliver(kind, l, d) ==
  /\ Between
  /\ issued < MaxReqs /\ Len(topIn) < PortCap
  /\ issued' = issued + 1
  /\ topIn' = Append(topIn, [kind |-> kind, id |-> issued + 1, line |-> l,
                             data |-> d])
  /\ awake' = (awake \/ topIn = <<>>)
  /\ UNCHANGED <<topOut, lowPort, answered, lowReqs>>

TopCollect ==
  /\ Between
  /\ topOut # <<>>
  /\ answered' = answered \cup {Head(topOut)}
  /\ topOut' = Tail(topOut)
  /\ awake' = (awake \/ Len(topOut) = PortCap)
  /\ UNCHANGED <<topIn, lowPort, issued, lowReqs>>

BottomCollect ==
  /\ Between
  /\ bottomOut # <<>>
  /\ lowReqs' = Append(lowReqs, Head(bottomOut))
  /\ bottomOut' = Tail(bottomOut)
  /\ awake' = (awake \/ Len(bottomOut) = PortCap)
  /\ UNCHANGED <<topPort, bottomIn, issued, answered>>

BottomDeliver(k, d) ==
  /\ Between
  /\ k \in DOMAIN lowReqs /\ Len(bottomIn) < PortCap
  /\ bottomIn' = Append(bottomIn, IF lowReqs[k].kind = "ReadReq"
                                    THEN DataReady(lowReqs[k].id, d)
                                    ELSE WriteDone(lowReqs[k].id))
  /\ lowReqs' = RemoveAt(lowReqs, k)
  /\ awake' = (awake \/ bottomIn = <<>>)
  /\ UNCHANGED <<topPort, bottomOut, issued, answered>>

\* A buffer of some other component on the connection got room: the
\* connection tells every port, whether it has to do with them or not.
NotifyAvailable ==
  /\ Between
  /\ ~awake /\ cycleCount < MaxClock
  /\ awake' = TRUE
  /\ UNCHANGED <<topPort, lowPort, outside>>

Component ==
  \/ Tick
  \/ ProcessBottomResponse \/ CountDown \/ ReceiveTopRequest
  \/ ProcessHeadTransaction

Environment ==
  \/ \E l \in Lines : TopDeliver("ReadReq", l, NoData)
  \/ \E l \in Lines, d \in Data : TopDeliver("WriteReq", l, d)
  \/ TopCollect
  \/ BottomCollect
  \/ \E k \in DOMAIN lowReqs, d \in Data : BottomDeliver(k, d)
  \/ NotifyAvailable

Next == Component \/ Environment

Spec == Init /\ [][Next]_vars

\* The engine runs every scheduled tick to its end.  The connection has its
\* turn after the ticks of every cycle, so it empties a port it can empty
\* again and again (it cannot act inside a tick: strong fairness); the low
\* module answers everything it was sent.
Fairness ==
  /\ WF_vars(Component)
  /\ SF_vars(TopCollect)
  /\ SF_vars(BottomCollect)
  /\ SF_vars(\E k \in DOMAIN lowReqs, d \in Data : BottomDeliver(k, d))

FairSpec == Spec /\ Fairness

(***************************************************************************)
(* The requests that wait here and the requests that wait below, oldest    *)
(* first, wherever on their way they are.                                  *)
(***************************************************************************)
Request(t) == [kind |-> t.kind, id |-> t.id, line |-> t.line, data |-> t.data]

Asked ==
  LET queue == topTransactions \o topIn
  IN [k \in DOMAIN queue |-> Request(queue[k])]

Below == lowReqs \o bottomOut

(***************************************************************************)
(* Properties                                                              *)
(***************************************************************************)
TypeOK ==
  /\ blocks \in [Slots -> Block]
  /\ topTransactions \in Seq(Transaction)
  /\ pendingBottom \in Seq(PendingBottom)
  /\ cycleCount \in Nat
  /\ VCHits \in Nat /\ VCMisses \in Nat /\ BottomSendCount \in Nat
  /\ topIn \in Seq(TopReq) /\ topOut \in Seq(TopRsp)
  /\ bottomIn \in Seq(TopRsp) /\ bottomOut \in Seq(TopReq)
  /\ awake \in BOOLEAN /\ progress \in BOOLEAN
  /\ stage \in {"idle", "bottom", "count", "receive", "head"}
  /\ issued \in Nat /\ answered \in SUBSET TopRsp /\ lowReqs \in Seq(TopReq)

\* A line has at most one slot: the search for a resident block always runs
\* before a slot is filled, so the first match is the only match and a read
\* that invalidates it leaves no second, older copy behind.
UniqueTags ==
  \A i, j \in Slots :
    blocks[i].Valid /\ blocks[j].Valid /\ blocks[i].Tag = blocks[j].Tag
      => i = j

\* The LRU clock orders the resident lines strictly and is ahead of all of
\* them, also after writes that stalled and ran the clock for nothing: the
\* victim's choice never falls back on the order of the slots.
LruClockStrict ==
  \A i \in Slots : blocks[i].Valid =>
    /\ blocks[i].LastAccessTime < cycleCount
    /\ \A j \in Slots \ {i} :
         blocks[j].Valid => blocks[j].LastAccessTime # blocks[i].LastAccessTime

\* Every resident line is dirty (a clean one is never inserted), so a line
\* pushed out of a full cache is always sent below and never just dropped.
ResidentIsDirty == \A i \in Slots : blocks[i].Valid => blocks[i].Dirty

\* What a request finds in the slots: one place for a line, a victim that does
\* not depend on the order of the slots, and nothing that may be dropped.
DirectorySound == UniqueTags /\ LruClockStrict /\ ResidentIsDirty

ReadsBelow == {k \in DOMAIN pendingBottom : ~pendingBottom[k].IsEviction}

\* Every request taken from the upper side is in exactly one place: a buffer,
\* the transaction queue, waiting for the level below, or answered.  None is
\* dropped by a stalled stage, none is answered twice.
AnsweredOnce ==
  /\ {r.id : r \in ToSet(topIn) \cup ToSet(topTransactions)}
       \cup {pendingBottom[k].OrigReqID : k \in ReadsBelow}
       \cup {r.rspTo : r \in ToSet(topOut) \cup answered}
     = 1 .. issued
  /\ Len(topIn) + Len(topTransactions) + Cardinality(ReadsBelow)
       + Len(topOut) + Cardinality(answered)
     = issued

\* pendingBottom lists exactly what is on its way below or back, so the panic
\* of completeBottomRead and completeBottomWrite on an unknown response is
\* unreachable, and so is the reply of completeBottomWrite to the top port.
PendingMatchesBelow ==
  LET sent == ToSet(bottomOut) \cup ToSet(lowReqs)
      back == ToSet(bottomIn)
      waiting(evictions) ==
        {p.BottomReqID : p \in {q \in ToSet(pendingBottom) :
                                  q.IsEviction = evictions}}
  IN /\ waiting(TRUE) = {r.id : r \in {q \in sent : q.kind = "WriteReq"}}
          \cup {r.rspTo : r \in {q \in back : q.kind = "WriteDoneRsp"}}
     /\ waiting(FALSE) = {r.id : r \in {q \in sent : q.kind = "ReadReq"}}
          \cup {r.rspTo : r \in {q \in back : q.kind = "DataReadyRsp"}}
     /\ Len(pendingBottom) = Len(bottomOut) + Len(lowReqs) + Len(bottomIn)

\* Each read is counted exactly once, as a hit or a miss, however often it was
\* retried while a port was full.
ReadsCountedOnce ==
  VCHits + VCMisses =
    Cardinality(ReadsBelow)
      + Cardinality({k \in DOMAIN topOut : topOut[k].kind = "DataReadyRsp"})
      + Cardinality({r \in answered : r.kind = "DataReadyRsp"})

\* Every request is accounted for at any moment: on the upper side, on the
\* lower side and in the counters.
RequestsAccounted == AnsweredOnce /\ PendingMatchesBelow /\ ReadsCountedOnce

\* No stage sends into a full buffer.  The code ignores the error Send returns,
\* so such a send would lose an answer or an eviction.
SendsFit == Len(topOut) =< PortCap /\ Len(bottomOut) =< PortCap

\* The head transaction cannot go on before a buffer gets room.
Blocked(t) ==
  LET resident == Holding(t.line) # {}
  IN IF t.kind = "ReadReq"
       THEN ~CanSend(IF resident THEN topOut ELSE bottomOut)
       ELSE \/ ~CanSend(topOut)
            \/ ~resident /\ Empty = {} /\ ~CanSend(bottomOut)

BottomQuiet ==
  bottomIn # <<>> => Head(bottomIn).kind = "DataReadyRsp" /\ ~CanSend(topOut)

CountQuiet == \A i \in DOMAIN topTransactions : topTransactions[i].CycleLeft = 0

\* A component asleep has nothing it could do: the edge-triggered port
\* notifications (empty to non-empty, full to non-full) miss no wake-up.
NoLostWakeup ==
  stage = "idle" /\ ~awake =>
    /\ topIn = <<>>
    /\ CountQuiet
    /\ BottomQuiet
    /\ topTransactions # <<>> => Blocked(Head(topTransactions))

\* The ports are used as their buffers and their notifications allow: nothing
\* is sent into a full one, nothing is slept through.
PortsServed == SendsFit /\ NoLostWakeup

\* Every request is answered in the end, under a full victim cache, full ports
\* and a slow level below.
EveryRequestAnswered ==
  \A r \in ReqID : issued >= r ~> \E a \in answered : a.rspTo = r

(***************************************************************************)
(* The clock and the slots implement the list of LruBuffer.                *)
(***************************************************************************)
Occupied == Slots \ Empty

ByAge ==
  CHOOSE s \in [1 .. Cardinality(Occupied) -> Occupied] :
    \A j, k \in DOMAIN s :
      j < k => blocks[s[j]].LastAccessTime < blocks[s[k]].LastAccessTime

Resident ==
  LET order == ByAge
  IN [k \in DOMAIN order |-> [line |-> blocks[order[k]].Tag,
                              data |-> blocks[order[k]].Data]]

Bare(queue) ==
  [k \in DOMAIN queue |-> [kind |-> queue[k].kind, line |-> queue[k].line,
                           data |-> queue[k].data]]

Lru == INSTANCE LruBuffer WITH
  Capacity <- NumBlocks,
  resident <- Resident,
  asked <- Bare(Asked),
  below <- Bare(Below)

\* Whatever was read, refreshed, stalled or retried before, the line a full
\* cache gives up is the one put longest ago, it goes below with its last
\* contents, and no request overtakes another.
ImplementsLruBuffer == Lru!Spec
=============================================================================

------------------------- MODULE VictimCacheProofs -------------------------
(***************************************************************************)
(* Proofs about VictimCache, for every size of the cache, latency, port    *)
(* capacity and set of lines.                                              *)
(***************************************************************************)
EXTENDS VictimCache, SequenceLemmas

(***************************************************************************)
(* Lemmas about the operators the module is built from                     *)
(***************************************************************************)
\* The least recently used slot exists, whatever the blocks hold, and no slot
\* was used longer ago.
LEMMA LruIdxIsOldest ==
  ASSUME blocks \in [Slots -> Block]
  PROVE  /\ LruIdx \in Slots
         /\ \A j \in Slots :
              blocks[LruIdx].LastAccessTime =< blocks[j].LastAccessTime
<1> DEFINE Times == {blocks[i].LastAccessTime : i \in Slots}
           Oldest == {i \in Slots : \A j \in Slots :
                        blocks[i].LastAccessTime =< blocks[j].LastAccessTime}
<1>1. Times \in SUBSET Nat /\ Times # {}
  <2>1. 1 \in Slots
    BY SizeAssumption DEF Slots
  <2> QED
    BY <2>1 DEF Block
<1>2. Min(Times) \in Times /\ \A t \in Times : Min(Times) =< t
  BY <1>1, MinInSet
<1>3. PICK i \in Slots : blocks[i].LastAccessTime = Min(Times)
  BY <1>2
<1>4. i \in Oldest
  BY <1>2, <1>3
<1>5. Oldest \in SUBSET Nat
  BY DEF Slots
<1>6. Min(Oldest) \in Oldest
  BY <1>4, <1>5, MinInSet
<1> QED
  BY <1>6 DEF LruIdx

\* The searches of handleRead and handleWrite end in a slot of the kind they
\* looked for.
LEMMA FirstHolding ==
  ASSUME NEW l, Holding(l) # {}
  PROVE  /\ Min(Holding(l)) \in Slots
         /\ blocks[Min(Holding(l))].Valid
         /\ blocks[Min(Holding(l))].Tag = l
<1>1. Holding(l) \in SUBSET Nat
  BY DEF Holding, Slots
<1>2. Min(Holding(l)) \in Holding(l)
  BY <1>1, MinInSet
<1> QED
  BY <1>2 DEF Holding

\* The same for a slot without a line.
LEMMA FirstEmpty ==
  ASSUME Empty # {}
  PROVE  Min(Empty) \in Slots /\ ~blocks[Min(Empty)].Valid
<1>1. Empty \in SUBSET Nat
  BY DEF Empty, Slots
<1>2. Min(Empty) \in Empty
  BY <1>1, MinInSet
<1> QED
  BY <1>2 DEF Empty

\* The entry the table search returns is the one the response answers.
LEMMA PendingAnswers ==
  ASSUME NEW rsp, pendingBottom \in Seq(PendingBottom), Pending(rsp) # 0
  PROVE  /\ Pending(rsp) \in 1 .. Len(pendingBottom)
         /\ pendingBottom[Pending(rsp)].BottomReqID = rsp.rspTo
<1> DEFINE I == {i \in 1 .. Len(pendingBottom) :
                   pendingBottom[i].BottomReqID = rsp.rspTo}
<1>1. Pending(rsp) = IF I # {} THEN Min(I) ELSE 0
  BY DEF Pending, SelectInSeq
<1>2. I \in SUBSET Nat
  OBVIOUS
<1>3. I # {}
  BY <1>1
<1>4. Min(I) \in I
  BY <1>2, <1>3, MinInSet
<1> QED
  BY <1>1, <1>3, <1>4

(***************************************************************************)
(* Type correctness                                                        *)
(***************************************************************************)
\* A fresh victim cache is well typed ...
LEMMA TypeInit == Init => TypeOK
<1> SUFFICES ASSUME Init PROVE TypeOK
  OBVIOUS
<1>1. blocks \in [Slots -> Block] /\ cycleCount \in Nat
  BY LineAssumption, DataAssumption DEF Init, Block
<1>2. /\ topTransactions \in Seq(Transaction)
      /\ pendingBottom \in Seq(PendingBottom)
      /\ topIn \in Seq(TopReq) /\ topOut \in Seq(TopRsp)
      /\ bottomIn \in Seq(TopRsp) /\ bottomOut \in Seq(TopReq)
      /\ lowReqs \in Seq(TopReq)
  BY EmptySeq DEF Init
<1> QED
  BY <1>1, <1>2 DEF Init, TypeOK

\* The head of a queue of requests is a request, and a write carries data.
LEMMA HeadTyped ==
  ASSUME TypeOK
  PROVE  /\ topTransactions # <<>> =>
              /\ Head(topTransactions) \in Transaction
              /\ Tail(topTransactions) \in Seq(Transaction)
         /\ topIn # <<>> =>
              Head(topIn) \in TopReq /\ Tail(topIn) \in Seq(TopReq)
         /\ topOut # <<>> =>
              Head(topOut) \in TopRsp /\ Tail(topOut) \in Seq(TopRsp)
         /\ bottomIn # <<>> =>
              Head(bottomIn) \in TopRsp /\ Tail(bottomIn) \in Seq(TopRsp)
         /\ bottomOut # <<>> =>
              Head(bottomOut) \in TopReq /\ Tail(bottomOut) \in Seq(TopReq)
  BY HeadTailProperties DEF TypeOK

\* ... a stored line is a block ...
LEMMA PutTyped ==
  ASSUME TypeOK, HeadReady("WriteReq"), NEW i \in Slots, PutAndAck(i)
  PROVE  /\ blocks' \in [Slots -> Block]
         /\ cycleCount' \in Nat
         /\ topOut' \in Seq(TopRsp)
         /\ topTransactions' \in Seq(Transaction)
         /\ awake' \in BOOLEAN /\ progress' \in BOOLEAN /\ stage' = "idle"
<1>1. /\ Head(topTransactions) \in Transaction
      /\ Head(topTransactions).kind = "WriteReq"
      /\ Tail(topTransactions) \in Seq(Transaction)
  BY HeadTyped DEF HeadReady
<1>2. /\ Head(topTransactions).line \in Lines
      /\ Head(topTransactions).data \in Data
      /\ Head(topTransactions).id \in Nat
  BY <1>1 DEF Transaction
<1>3. WriteDone(Head(topTransactions).id) \in TopRsp
  BY <1>2 DEF WriteDone, TopRsp
<1>4. blocks' \in [Slots -> Block] /\ cycleCount' \in Nat
  BY <1>2 DEF PutAndAck, Filled, TypeOK, Block
<1>5. topOut' \in Seq(TopRsp)
  BY <1>3, AppendProperties DEF PutAndAck, TypeOK
<1> QED
  BY <1>1, <1>4, <1>5 DEF PutAndAck, Finish, TypeOK

\* ... and every step keeps the types.
LEMMA TypeStep == TypeOK /\ [Next]_vars => TypeOK'
<1> SUFFICES ASSUME TypeOK, [Next]_vars PROVE TypeOK'
  OBVIOUS
<1> USE DEF store, stats, topPort, lowPort, outside, ticker
<1>1. CASE Tick
  BY <1>1 DEF Tick, TypeOK
<1>2. CASE CompleteBottomRead
  <2> DEFINE k == Pending(Head(bottomIn))
  <2>1. k \in 1 .. Len(pendingBottom)
    BY <1>2, PendingAnswers DEF CompleteBottomRead, TypeOK
  <2>2. pendingBottom[k].OrigReqID \in Nat
    <3>1. pendingBottom[k] \in PendingBottom
      BY <2>1, ElementOfSeq DEF TypeOK
    <3> QED
      BY <3>1 DEF PendingBottom
  <2>3. Head(bottomIn).data \in Data /\ Tail(bottomIn) \in Seq(TopRsp)
    BY <1>2, HeadTyped DEF CompleteBottomRead, TopRsp
  <2>4. DataReady(pendingBottom[k].OrigReqID, Head(bottomIn).data) \in TopRsp
    BY <2>2, <2>3 DEF DataReady, TopRsp
  <2>5. RemoveAt(pendingBottom, k) \in Seq(PendingBottom)
    BY <2>1, RemoveAtProps DEF TypeOK
  <2> QED
    BY <1>2, <2>3, <2>4, <2>5, AppendProperties
    DEF CompleteBottomRead, Step, TypeOK
<1>3. CASE CompleteBottomWrite
  <2> DEFINE k == Pending(Head(bottomIn))
  <2>1. k \in 1 .. Len(pendingBottom)
    BY <1>3, PendingAnswers DEF CompleteBottomWrite, TypeOK
  <2>2. RemoveAt(pendingBottom, k) \in Seq(PendingBottom)
    BY <2>1, RemoveAtProps DEF TypeOK
  <2>3. Tail(bottomIn) \in Seq(TopRsp)
    BY <1>3, HeadTyped DEF CompleteBottomWrite
  <2> QED
    BY <1>3, <2>2, <2>3 DEF CompleteBottomWrite, Step, TypeOK
<1>4. CASE NoBottomResponse
  BY <1>4 DEF NoBottomResponse, Step, TypeOK
<1>5. CASE CountDown
  <2>1. ASSUME NEW i \in DOMAIN topTransactions
        PROVE  Counted(topTransactions[i]) \in Transaction
    <3>1. topTransactions[i] \in Transaction
      BY ElementOfSeq DEF TypeOK
    <3> QED
      BY <3>1 DEF Counted, Transaction
  <2>2. topTransactions' \in Seq(Transaction)
    <3>1. /\ DOMAIN topTransactions = 1 .. Len(topTransactions)
          /\ Len(topTransactions) \in Nat
      BY LenProperties DEF TypeOK
    <3>2. topTransactions' = [i \in 1 .. Len(topTransactions) |->
                                Counted(topTransactions[i])]
      BY <1>5, <3>1 DEF CountDown
    <3>3. \A i \in 1 .. Len(topTransactions) :
            Counted(topTransactions[i]) \in Transaction
      BY <2>1, <3>1
    <3> QED
      BY <3>1, <3>2, <3>3, IsASeq
  <2> QED
    BY <1>5, <2>2 DEF CountDown, Step, TypeOK
<1>6. CASE ReceiveTopRequest
  <2>1. CASE topIn = <<>>
    BY <1>6, <2>1 DEF ReceiveTopRequest, Step, TypeOK
  <2>2. CASE topIn # <<>>
    <3> DEFINE r == Head(topIn)
               t == [kind |-> r.kind, id |-> r.id, line |-> r.line,
                     data |-> r.data, CycleLeft |-> Latency]
    <3>1. r \in TopReq /\ Tail(topIn) \in Seq(TopReq)
      BY <2>2, HeadTyped
    <3>2. t \in Transaction
      BY <3>1, SizeAssumption DEF TopReq, Transaction
    <3>3. topTransactions' = Append(topTransactions, t) /\ topIn' = Tail(topIn)
      BY <1>6, <2>2 DEF ReceiveTopRequest
    <3>4. topTransactions' \in Seq(Transaction)
      BY <3>2, <3>3, AppendProperties DEF TypeOK
    <3> QED
      BY <1>6, <3>1, <3>3, <3>4 DEF ReceiveTopRequest, Step, TypeOK
  <2> QED
    BY <2>1, <2>2
<1>7. CASE ReadHit
  <2> DEFINE t == Head(topTransactions)
             i == Min(Holding(t.line))
  <2>1. t \in Transaction /\ Tail(topTransactions) \in Seq(Transaction)
    BY <1>7, HeadTyped DEF ReadHit, HeadReady
  <2>2. i \in Slots
    BY <1>7, FirstHolding DEF ReadHit
  <2>3. blocks[i].Data \in Data /\ t.id \in Nat
    BY <2>1, <2>2 DEF TypeOK, Block, Transaction
  <2>4. topOut' \in Seq(TopRsp)
    <3>1. DataReady(t.id, blocks[i].Data) \in TopRsp
      BY <2>3 DEF DataReady, TopRsp
    <3> QED
      BY <1>7, <3>1, AppendProperties DEF ReadHit, TypeOK
  <2>5. blocks' \in [Slots -> Block] /\ cycleCount' \in Nat /\ VCHits' \in Nat
    <3>1. blocks' = [blocks EXCEPT ![i] =
                       [blocks[i] EXCEPT !.Valid = FALSE, !.Dirty = FALSE,
                                         !.LastAccessTime = cycleCount]]
      BY <1>7, <2>2 DEF ReadHit, Freed, TypeOK
    <3>2. [blocks[i] EXCEPT !.Valid = FALSE, !.Dirty = FALSE,
                            !.LastAccessTime = cycleCount] \in Block
      BY <2>2 DEF TypeOK, Block
    <3>3. blocks' \in [Slots -> Block]
      BY <3>1, <3>2 DEF TypeOK
    <3> QED
      BY <1>7, <3>3 DEF ReadHit, TypeOK
  <2> QED
    BY <1>7, <2>1, <2>4, <2>5 DEF ReadHit, Finish, TypeOK
<1>8. CASE ReadMiss
  <2> DEFINE t == Head(topTransactions)
             r == [kind |-> "ReadReq", id |-> FreshID, line |-> t.line,
                   data |-> NoData]
             p == [BottomReqID |-> FreshID, IsEviction |-> FALSE,
                   OrigReqID |-> t.id]
  <2>1. t \in Transaction /\ Tail(topTransactions) \in Seq(Transaction)
    BY <1>8, HeadTyped DEF ReadMiss, SendReadBelow, HeadReady
  <2>2. t.line \in Lines /\ t.id \in Nat /\ FreshID \in Nat
    BY <2>1 DEF Transaction, FreshID, TypeOK
  <2>3. r \in TopReq /\ p \in PendingBottom
    BY <2>2 DEF TopReq, PendingBottom
  <2>4. bottomOut' \in Seq(TopReq) /\ pendingBottom' \in Seq(PendingBottom)
    BY <1>8, <2>3, AppendProperties DEF ReadMiss, SendReadBelow, TypeOK
  <2>5. /\ UNCHANGED <<blocks, cycleCount, VCHits, topIn, topOut, bottomIn,
                       issued, answered, lowReqs>>
        /\ VCMisses' = VCMisses + 1 /\ BottomSendCount' = BottomSendCount + 1
        /\ topTransactions' = Tail(topTransactions)
        /\ Finish(TRUE)
    BY <1>8 DEF ReadMiss, SendReadBelow
  <2>6. VCMisses' \in Nat /\ BottomSendCount' \in Nat
    BY <2>5 DEF TypeOK
  <2> QED
    BY <2>1, <2>4, <2>5, <2>6 DEF Finish, TypeOK
<1>9. CASE WriteResident
  <2>1. Min(Holding(Head(topTransactions).line)) \in Slots
    BY <1>9, FirstHolding DEF WriteResident
  <2> QED
    BY <1>9, <2>1, PutTyped DEF WriteResident, PutAndAck, TypeOK
<1>10. CASE WriteEmpty
  <2>1. Min(Empty) \in Slots
    BY <1>10, FirstEmpty DEF WriteEmpty
  <2> QED
    BY <1>10, <2>1, PutTyped DEF WriteEmpty, PutAndAck, TypeOK
<1>11. CASE WriteFull
  <2> DEFINE v == blocks[LruIdx]
             r == [kind |-> "WriteReq", id |-> FreshID, line |-> v.Tag,
                   data |-> v.Data]
             p == [BottomReqID |-> FreshID, IsEviction |-> TRUE,
                   OrigReqID |-> 0]
  <2>1. LruIdx \in Slots
    BY LruIdxIsOldest DEF TypeOK
  <2>2. r \in TopReq /\ p \in PendingBottom
    BY <2>1 DEF TypeOK, Block, TopReq, PendingBottom, FreshID
  <2>3. /\ bottomOut' \in Seq(TopReq) /\ pendingBottom' \in Seq(PendingBottom)
        /\ BottomSendCount' \in Nat
    <3>1. CASE v.Dirty
      <4>1. /\ bottomOut' = Append(bottomOut, r)
            /\ pendingBottom' = Append(pendingBottom, p)
            /\ BottomSendCount' = BottomSendCount + 1
        BY <1>11, <3>1 DEF WriteFull
      <4> QED
        BY <2>2, <4>1, AppendProperties DEF TypeOK
    <3>2. CASE ~v.Dirty
      BY <1>11, <3>2 DEF WriteFull, TypeOK
    <3> QED
      BY <3>1, <3>2
  <2>4. HeadReady("WriteReq") /\ PutAndAck(LruIdx)
    BY <1>11 DEF WriteFull
  <2>5. UNCHANGED <<VCHits, VCMisses, topIn, bottomIn, issued, answered, lowReqs>>
    BY <2>4 DEF PutAndAck
  <2> QED
    BY <2>1, <2>3, <2>4, <2>5, PutTyped DEF TypeOK
<1>12. CASE WriteStalled
  <2>1. /\ UNCHANGED <<blocks, topTransactions, pendingBottom, VCHits, VCMisses,
                       BottomSendCount, topIn, topOut, bottomIn, bottomOut,
                       issued, answered, lowReqs>>
        /\ cycleCount' = cycleCount + 1
        /\ Finish(FALSE)
    BY <1>12 DEF WriteStalled
  <2>2. cycleCount' \in Nat
    BY <2>1 DEF TypeOK
  <2> QED
    BY <2>1, <2>2 DEF Finish, TypeOK
<1>13. CASE NothingHandled
  BY <1>13 DEF NothingHandled, Finish, TypeOK
<1>14. ASSUME NEW kind, NEW l \in Lines, NEW d,
              \/ kind = "ReadReq" /\ d = NoData
              \/ kind = "WriteReq" /\ d \in Data,
              TopDeliver(kind, l, d)
       PROVE  TypeOK'
  <2>1. [kind |-> kind, id |-> issued + 1, line |-> l, data |-> d] \in TopReq
    BY <1>14 DEF TopReq, TypeOK
  <2> QED
    BY <1>14, <2>1, AppendProperties DEF TopDeliver, Between, TypeOK
<1>15. CASE TopCollect
  <2>1. Head(topOut) \in TopRsp /\ Tail(topOut) \in Seq(TopRsp)
    BY <1>15, HeadTyped DEF TopCollect
  <2> QED
    BY <1>15, <2>1 DEF TopCollect, Between, TypeOK
<1>16. CASE BottomCollect
  <2>1. Head(bottomOut) \in TopReq /\ Tail(bottomOut) \in Seq(TopReq)
    BY <1>16, HeadTyped DEF BottomCollect
  <2> QED
    BY <1>16, <2>1, AppendProperties DEF BottomCollect, Between, TypeOK
<1>17. ASSUME NEW k \in DOMAIN lowReqs, NEW d \in Data, BottomDeliver(k, d)
       PROVE  TypeOK'
  <2>1. k \in 1 .. Len(lowReqs) /\ lowReqs[k] \in TopReq
    BY ElementOfSeq, LenProperties DEF TypeOK
  <2>2. (IF lowReqs[k].kind = "ReadReq" THEN DataReady(lowReqs[k].id, d)
                                        ELSE WriteDone(lowReqs[k].id))
          \in TopRsp
    BY <2>1 DEF TopReq, TopRsp, DataReady, WriteDone
  <2>3. RemoveAt(lowReqs, k) \in Seq(TopReq)
    BY <2>1, RemoveAtProps DEF TypeOK
  <2> QED
    BY <1>17, <2>2, <2>3, AppendProperties DEF BottomDeliver, Between, TypeOK
<1>18. CASE NotifyAvailable
  BY <1>18 DEF NotifyAvailable, Between, TypeOK
<1>19. CASE UNCHANGED vars
  BY <1>19 DEF vars, TypeOK
<1> QED
  BY <1>1, <1>2, <1>3, <1>4, <1>5, <1>6, <1>7, <1>8, <1>9, <1>10, <1>11,
     <1>12, <1>13, <1>14, <1>15, <1>16, <1>17, <1>18, <1>19
  DEF Next, Component, Environment, ProcessBottomResponse,
      ProcessHeadTransaction

\* Type correctness: whatever the sizes, no buffer, table or slot ever holds
\* anything but a message, entry or line of its kind.
THEOREM TypeCorrect == Spec => []TypeOK
  BY TypeInit, TypeStep, PTL DEF Spec

(***************************************************************************)
(* The slots.  Only three things ever change a slot or the clock: a hit    *)
(* that empties a slot, a put, and a stalled write.                        *)
(***************************************************************************)
SlotInv == UniqueTags /\ LruClockStrict /\ ResidentIsDirty

\* A put keeps the invariant when it goes to the slot of the same line or when
\* no slot holds the line: then the new tag is unique and the new time, the
\* clock before it advances, is later than every other.
LEMMA PutKeepsSlotInv ==
  ASSUME TypeOK, SlotInv, NEW i \in Slots, PutAndAck(i),
         \A j \in Slots \ {i} : blocks[j].Valid =>
           blocks[j].Tag # Head(topTransactions).line
  PROVE  SlotInv'
<1> DEFINE t == Head(topTransactions)
<1>1. /\ cycleCount' = cycleCount + 1 /\ cycleCount \in Nat
      /\ \A j \in Slots \ {i} : blocks'[j] = blocks[j]
      /\ blocks'[i] = [Tag |-> t.line, Valid |-> TRUE, Dirty |-> TRUE,
                       Data |-> t.data, LastAccessTime |-> cycleCount]
  BY DEF PutAndAck, Filled, TypeOK
<1>2. \A j \in Slots : blocks[j].LastAccessTime \in Nat
  BY DEF TypeOK, Block
<1>3. UniqueTags'
  BY <1>1 DEF SlotInv, UniqueTags
<1>4. LruClockStrict'
  BY <1>1, <1>2 DEF SlotInv, LruClockStrict
<1>5. ResidentIsDirty'
  BY <1>1 DEF SlotInv, ResidentIsDirty
<1> QED
  BY <1>3, <1>4, <1>5 DEF SlotInv

\* A step that leaves the slots alone and does not turn the clock back.
LEMMA ClockOnlyKeepsSlotInv ==
  ASSUME TypeOK, SlotInv, UNCHANGED blocks,
         cycleCount' = cycleCount \/ cycleCount' = cycleCount + 1
  PROVE  SlotInv'
<1>1. \A j \in Slots : blocks[j].LastAccessTime \in Nat
  BY DEF TypeOK, Block
<1>2. LruClockStrict'
  BY <1>1 DEF SlotInv, LruClockStrict, TypeOK
<1> QED
  BY <1>2 DEF SlotInv, UniqueTags, ResidentIsDirty

\* No step breaks the three facts about the slots.
LEMMA SlotInvStep == TypeOK /\ SlotInv /\ [Next]_vars => SlotInv'
<1> SUFFICES ASSUME TypeOK, SlotInv, [Next]_vars PROVE SlotInv'
  OBVIOUS
<1>1. CASE ReadHit
  <2> DEFINE i == Min(Holding(Head(topTransactions).line))
  <2>1. i \in Slots
    BY <1>1, FirstHolding DEF ReadHit, Freed
  <2>2. /\ cycleCount' = cycleCount + 1 /\ cycleCount \in Nat
        /\ \A j \in Slots \ {i} : blocks'[j] = blocks[j]
        /\ ~blocks'[i].Valid
    BY <1>1, <2>1 DEF ReadHit, Freed, TypeOK, Block
  <2>3. \A j \in Slots : blocks[j].LastAccessTime \in Nat
    BY DEF TypeOK, Block
  <2>4. \A j \in Slots : blocks'[j].Valid => j # i /\ blocks'[j] = blocks[j]
    BY <2>2
  <2> HIDE DEF i
  <2>5. UniqueTags'
    BY <2>4 DEF SlotInv, UniqueTags
  <2>6. LruClockStrict'
    BY <2>2, <2>3, <2>4 DEF SlotInv, LruClockStrict
  <2>7. ResidentIsDirty'
    BY <2>4 DEF SlotInv, ResidentIsDirty
  <2> QED
    BY <2>5, <2>6, <2>7 DEF SlotInv
<1>2. CASE WriteResident
  <2> DEFINE i == Min(Holding(Head(topTransactions).line))
  <2>1. /\ i \in Slots /\ blocks[i].Valid
        /\ blocks[i].Tag = Head(topTransactions).line
    BY <1>2, FirstHolding DEF WriteResident
  <2>2. \A j \in Slots \ {i} : blocks[j].Valid =>
          blocks[j].Tag # Head(topTransactions).line
    BY <2>1 DEF SlotInv, UniqueTags
  <2>3. PutAndAck(i)
    BY <1>2 DEF WriteResident
  <2> QED
    BY <2>1, <2>2, <2>3, PutKeepsSlotInv
<1>3. CASE WriteEmpty
  <2>1. Min(Empty) \in Slots
    BY <1>3, FirstEmpty DEF WriteEmpty
  <2>2. \A j \in Slots : blocks[j].Valid =>
          blocks[j].Tag # Head(topTransactions).line
    BY <1>3 DEF WriteEmpty, Holding
  <2>3. PutAndAck(Min(Empty))
    BY <1>3 DEF WriteEmpty
  <2> QED
    BY <2>1, <2>2, <2>3, PutKeepsSlotInv
<1>4. CASE WriteFull
  <2>1. LruIdx \in Slots
    BY LruIdxIsOldest DEF TypeOK
  <2>2. \A j \in Slots : blocks[j].Valid =>
          blocks[j].Tag # Head(topTransactions).line
    BY <1>4 DEF WriteFull, Holding
  <2>3. PutAndAck(LruIdx)
    BY <1>4 DEF WriteFull
  <2> QED
    BY <2>1, <2>2, <2>3, PutKeepsSlotInv
<1>5. CASE WriteStalled
  BY <1>5, ClockOnlyKeepsSlotInv DEF WriteStalled
<1>6. CASE UNCHANGED store
  BY <1>6, ClockOnlyKeepsSlotInv DEF store
<1>7. CASE Component
  <2>1. Tick \/ ProcessBottomResponse \/ CountDown \/ ReceiveTopRequest
          \/ ReadMiss \/ NothingHandled => UNCHANGED store
    BY DEF Tick, ProcessBottomResponse, CompleteBottomRead,
           CompleteBottomWrite, NoBottomResponse, CountDown,
           ReceiveTopRequest, ReadMiss, SendReadBelow, NothingHandled
  <2> QED
    BY <1>1, <1>2, <1>3, <1>4, <1>5, <1>6, <1>7, <2>1
    DEF Component, ProcessHeadTransaction
<1>8. CASE Environment
  <2>1. Environment => UNCHANGED store
    BY DEF Environment, TopDeliver, TopCollect, BottomCollect, BottomDeliver,
           NotifyAvailable, Between
  <2> QED
    BY <1>6, <1>8, <2>1
<1>9. CASE UNCHANGED vars
  BY <1>6, <1>9 DEF vars
<1> QED
  BY <1>7, <1>8, <1>9 DEF Next

\* An empty victim cache satisfies them.
LEMMA SlotInvInit == Init => SlotInv
  BY DEF Init, SlotInv, UniqueTags, LruClockStrict, ResidentIsDirty

\* The three facts about the slots hold together in every reachable state.
THEOREM SlotInvHolds == Spec => []SlotInv
  BY TypeInit, TypeStep, SlotInvInit, SlotInvStep, PTL DEF Spec

\* handleWrite never gives a line a second slot, for any number of slots.
THEOREM TagsUnique == Spec => []UniqueTags
<1>1. SlotInv => UniqueTags
  BY DEF SlotInv
<1> QED
  BY <1>1, SlotInvHolds, PTL

\* Stalled writes included, the LRU clock orders the resident lines strictly.
THEOREM LruClockIsStrict == Spec => []LruClockStrict
<1>1. SlotInv => LruClockStrict
  BY DEF SlotInv
<1> QED
  BY <1>1, SlotInvHolds, PTL

\* The Dirty test of handleWrite never lets a replaced line go unsent.
THEOREM ResidentLinesAreDirty == Spec => []ResidentIsDirty
<1>1. SlotInv => ResidentIsDirty
  BY DEF SlotInv
<1> QED
  BY <1>1, SlotInvHolds, PTL

(***************************************************************************)
(* The wake-up protocol.  NoLostWakeup alone is not inductive: it speaks   *)
(* of the end of a tick, and what the tick found is spread over its        *)
(* stages.  AwakeInv says what the stages run so far have established when *)
(* none of them made progress.                                             *)
(***************************************************************************)
AwakeInv ==
  /\ SendsFit
  /\ stage # "idle" => ~awake
  /\ stage \in {"count", "receive", "head"} /\ ~progress => BottomQuiet
  /\ stage \in {"receive", "head"} /\ ~progress => CountQuiet
  /\ stage = "head" /\ ~progress => topIn = <<>>
  /\ NoLostWakeup

\* A fresh component has nothing it could do.
LEMMA AwakeInvInit == Init => AwakeInv
<1> SUFFICES ASSUME Init PROVE AwakeInv
  OBVIOUS
<1>1. Len(topOut) = 0 /\ Len(bottomOut) = 0
  BY EmptySeq DEF Init
<1> QED
  BY <1>1, SizeAssumption
  DEF Init, AwakeInv, SendsFit, NoLostWakeup, BottomQuiet, CountQuiet

\* Lengths, for the capacity arithmetic below.
LEMMA Lengths ==
  ASSUME TypeOK
  PROVE  /\ Len(topOut) \in Nat /\ Len(bottomOut) \in Nat
         /\ \A m : Len(Append(topOut, m)) = Len(topOut) + 1
         /\ \A m : Len(Append(bottomOut, m)) = Len(bottomOut) + 1
         /\ topOut # <<>> => Len(Tail(topOut)) = Len(topOut) - 1
         /\ bottomOut # <<>> => Len(Tail(bottomOut)) = Len(bottomOut) - 1
  BY LenProperties, HeadTailProperties, SizeAssumption DEF TypeOK

\* A stage that made progress leaves nothing to show but that its sends fit.
LEMMA ProgressStage ==
  ASSUME NEW next \in {"count", "receive", "head"}, Step(next, TRUE),
         SendsFit', ~awake, UNCHANGED awake
  PROVE  AwakeInv'
  BY DEF Step, AwakeInv, NoLostWakeup

\* A tick that made progress ends with another tick scheduled.
LEMMA ProgressTick ==
  ASSUME Finish(TRUE), SendsFit'
  PROVE  AwakeInv'
  BY DEF Finish, AwakeInv, NoLostWakeup

\* The stages before the head transaction,
LEMMA AwakeInvStage ==
  ASSUME TypeOK, AwakeInv,
         Tick \/ ProcessBottomResponse \/ CountDown \/ ReceiveTopRequest
  PROVE  AwakeInv'
<1> USE DEF store, stats, topPort, lowPort, outside
<1>1. CASE Tick
  BY <1>1 DEF Tick, AwakeInv, SendsFit, NoLostWakeup
<1>2. CASE CompleteBottomRead
  <2>1. Step("count", TRUE) /\ UNCHANGED awake /\ ~awake
    BY <1>2 DEF CompleteBottomRead, AwakeInv
  <2>2. /\ \E m : topOut' = Append(topOut, m)
        /\ Len(topOut) < PortCap /\ UNCHANGED bottomOut
    BY <1>2 DEF CompleteBottomRead, CanSend
  <2>3. SendsFit'
    BY <2>2, Lengths, SizeAssumption DEF SendsFit, AwakeInv
  <2> QED
    BY <2>1, <2>3, ProgressStage
<1>3. CASE CompleteBottomWrite
  <2>1. Step("count", TRUE) /\ UNCHANGED awake /\ ~awake /\ SendsFit'
    BY <1>3 DEF CompleteBottomWrite, AwakeInv, SendsFit
  <2> QED
    BY <2>1, ProgressStage
<1>4. CASE NoBottomResponse
  BY <1>4 DEF NoBottomResponse, Step, AwakeInv, SendsFit, NoLostWakeup,
              BottomQuiet, CanSend
<1>5. CASE CountDown
  <2>1. /\ UNCHANGED <<bottomIn, topOut, bottomOut, awake>> /\ ~awake
        /\ stage = "count" /\ stage' = "receive"
        /\ progress' = (progress \/ ~CountQuiet)
    <3>1. CountQuiet <=>
            ~ \E i \in DOMAIN topTransactions : topTransactions[i].CycleLeft > 0
      <4>1. \A i \in DOMAIN topTransactions :
              topTransactions[i].CycleLeft \in Nat
        <5>1. \A i \in DOMAIN topTransactions :
                topTransactions[i] \in Transaction
          BY ElementOfSeq, LenProperties DEF TypeOK
        <5> QED
          BY <5>1 DEF Transaction
      <4> QED
        BY <4>1 DEF CountQuiet
    <3> QED
      BY <1>5, <3>1 DEF CountDown, Step, AwakeInv
  <2>2. CountQuiet => CountQuiet'
    <3>1. \A i \in DOMAIN topTransactions : topTransactions[i] \in Transaction
      BY ElementOfSeq, LenProperties DEF TypeOK
    <3>2. \A t \in Transaction :
            t.CycleLeft = 0 => Counted(t).CycleLeft = 0
      BY DEF Counted, Transaction
    <3>3. topTransactions' = [i \in DOMAIN topTransactions |->
                                Counted(topTransactions[i])]
      BY <1>5 DEF CountDown
    <3> QED
      BY <3>1, <3>2, <3>3 DEF CountQuiet
  <2> QED
    BY <2>1, <2>2 DEF AwakeInv, SendsFit, NoLostWakeup, BottomQuiet, CanSend
<1>6. CASE ReceiveTopRequest
  <2>1. CASE topIn # <<>>
    <3>1. Step("head", TRUE) /\ UNCHANGED awake /\ ~awake /\ SendsFit'
      BY <1>6, <2>1 DEF ReceiveTopRequest, AwakeInv, SendsFit
    <3> QED
      BY <3>1, ProgressStage
  <2>2. CASE topIn = <<>>
    BY <1>6, <2>2
    DEF ReceiveTopRequest, Step, AwakeInv, SendsFit, NoLostWakeup,
        BottomQuiet, CountQuiet, CanSend
  <2> QED
    BY <2>1, <2>2
<1> QED
  BY <1>1, <1>2, <1>3, <1>4, <1>5, <1>6 DEF ProcessBottomResponse

\* the last stage, which ends the tick,
LEMMA AwakeInvHead ==
  ASSUME TypeOK, AwakeInv, ProcessHeadTransaction
  PROVE  AwakeInv'
<1> USE DEF store, stats, topPort, lowPort, outside
<1>1. CASE ReadHit
  <2>1. /\ Finish(TRUE)
        /\ \E m : topOut' = Append(topOut, m)
        /\ Len(topOut) < PortCap /\ UNCHANGED bottomOut
    BY <1>1 DEF ReadHit, CanSend
  <2>2. SendsFit'
    BY <2>1, Lengths, SizeAssumption DEF SendsFit, AwakeInv
  <2> QED
    BY <2>1, <2>2, ProgressTick
<1>2. CASE ReadMiss
  <2>1. /\ Finish(TRUE)
        /\ \E m : bottomOut' = Append(bottomOut, m)
        /\ Len(bottomOut) < PortCap /\ UNCHANGED topOut
    BY <1>2 DEF ReadMiss, SendReadBelow, CanSend
  <2>2. SendsFit'
    BY <2>1, Lengths, SizeAssumption DEF SendsFit, AwakeInv
  <2> QED
    BY <2>1, <2>2, ProgressTick
<1>3. CASE WriteResident \/ WriteEmpty
  <2>1. /\ Finish(TRUE)
        /\ \E m : topOut' = Append(topOut, m)
        /\ Len(topOut) < PortCap /\ UNCHANGED bottomOut
    BY <1>3 DEF WriteResident, WriteEmpty, PutAndAck, CanSend
  <2>2. SendsFit'
    BY <2>1, Lengths, SizeAssumption DEF SendsFit, AwakeInv
  <2> QED
    BY <2>1, <2>2, ProgressTick
<1>4. CASE WriteFull
  <2>1. /\ Finish(TRUE)
        /\ \E m : topOut' = Append(topOut, m)
        /\ Len(topOut) < PortCap
        /\ \/ /\ Len(bottomOut) < PortCap
              /\ \E m : bottomOut' = Append(bottomOut, m)
           \/ UNCHANGED bottomOut
    BY <1>4 DEF WriteFull, PutAndAck, CanSend
  <2>2. SendsFit'
    BY <2>1, Lengths, SizeAssumption DEF SendsFit, AwakeInv
  <2> QED
    BY <2>1, <2>2, ProgressTick
<1>5. CASE WriteStalled
  <2>1. /\ UNCHANGED <<blocks, topTransactions, topIn, topOut, bottomIn,
                       bottomOut>>
        /\ stage = "head" /\ Finish(FALSE) /\ ~awake
        /\ Blocked(Head(topTransactions))
    BY <1>5 DEF WriteStalled, HeadReady, AwakeInv, Blocked
  <2>2. Blocked(Head(topTransactions))'
    BY <2>1 DEF Blocked, Holding, Empty, CanSend
  <2> QED
    BY <2>1, <2>2 DEF Finish, AwakeInv, SendsFit, NoLostWakeup, BottomQuiet,
                      CountQuiet, CanSend
<1>6. CASE NothingHandled
  <2>1. /\ UNCHANGED <<blocks, topTransactions, topIn, topOut, bottomIn,
                       bottomOut>>
        /\ stage = "head" /\ Finish(FALSE) /\ ~awake
    BY <1>6 DEF NothingHandled, AwakeInv
  <2>2. topTransactions # <<>> /\ CountQuiet =>
          Blocked(Head(topTransactions))'
    <3> SUFFICES ASSUME topTransactions # <<>>, CountQuiet
                 PROVE  Blocked(Head(topTransactions))'
      OBVIOUS
    <3>1. Head(topTransactions).CycleLeft = 0
      BY LenProperties, EmptySeq DEF CountQuiet, TypeOK
    <3>2. LET t == Head(topTransactions)
          IN IF t.kind = "ReadReq" /\ Holding(t.line) = {}
               THEN ~CanSend(bottomOut)
               ELSE ~CanSend(topOut)
      BY <1>6, <3>1 DEF NothingHandled, HeadWaits
    <3> QED
      BY <2>1, <3>2 DEF Blocked, Holding, Empty, CanSend
  <2> QED
    BY <2>1, <2>2 DEF Finish, AwakeInv, SendsFit, NoLostWakeup, BottomQuiet,
                      CountQuiet, CanSend
<1> QED
  BY <1>1, <1>2, <1>3, <1>4, <1>5, <1>6 DEF ProcessHeadTransaction

\* and the notifications of the ports keep the account of what was seen.
LEMMA AwakeInvOutside ==
  ASSUME TypeOK, AwakeInv, Environment
  PROVE  AwakeInv'
<1> USE DEF store, stats, topPort, lowPort, outside
<1>1. stage = "idle" /\ stage' = "idle"
  BY DEF Environment, TopDeliver, TopCollect, BottomCollect, BottomDeliver,
         NotifyAvailable, Between
<1>2. UNCHANGED <<blocks, topTransactions>>
  BY DEF Environment, TopDeliver, TopCollect, BottomCollect, BottomDeliver,
         NotifyAvailable, Between
<1>3. ASSUME NEW kind, NEW l, NEW d, TopDeliver(kind, l, d)
      PROVE  AwakeInv'
  <2>1. awake' = (awake \/ topIn = <<>>) /\ UNCHANGED <<topOut, bottomIn, bottomOut>>
    BY <1>3 DEF TopDeliver
  <2>2. awake'
    BY <1>1, <2>1 DEF AwakeInv, NoLostWakeup
  <2> QED
    BY <1>1, <2>1, <2>2 DEF AwakeInv, SendsFit, NoLostWakeup
<1>4. CASE TopCollect
  <2>1. /\ topOut # <<>> /\ topOut' = Tail(topOut)
        /\ awake' = (awake \/ Len(topOut) = PortCap)
        /\ UNCHANGED <<topIn, bottomIn, bottomOut>>
    BY <1>4 DEF TopCollect
  <2> DEFINE n == Len(topOut)
  <2>5. /\ n \in Nat /\ PortCap \in Nat /\ Len(topOut') = n - 1
        /\ n =< PortCap /\ Len(bottomOut') =< PortCap
    BY <2>1, Lengths, SizeAssumption DEF SendsFit, AwakeInv
  <2>2. SendsFit'
    BY <2>5 DEF SendsFit
  <2>6. ~awake' => ~awake /\ n # PortCap
    BY <2>1
  <2>3. ~awake' => CanSend(topOut) /\ ~awake
    BY <2>5, <2>6 DEF CanSend
  <2>4. ~awake' => /\ topIn = <<>> /\ CountQuiet /\ bottomIn = <<>>
                   /\ topTransactions # <<>> =>
                        Blocked(Head(topTransactions))'
    BY <1>1, <1>2, <2>1, <2>3
    DEF AwakeInv, NoLostWakeup, BottomQuiet, Blocked, Holding, Empty, CanSend
  <2> QED
    BY <1>1, <1>2, <2>1, <2>2, <2>4
    DEF AwakeInv, NoLostWakeup, BottomQuiet, CountQuiet
<1>5. CASE BottomCollect
  <2>1. /\ bottomOut # <<>> /\ bottomOut' = Tail(bottomOut)
        /\ awake' = (awake \/ Len(bottomOut) = PortCap)
        /\ UNCHANGED <<topIn, topOut, bottomIn>>
    BY <1>5 DEF BottomCollect
  <2> DEFINE n == Len(bottomOut)
  <2>5. /\ n \in Nat /\ PortCap \in Nat /\ Len(bottomOut') = n - 1
        /\ n =< PortCap /\ Len(topOut') =< PortCap
    BY <2>1, Lengths, SizeAssumption DEF SendsFit, AwakeInv
  <2>2. SendsFit'
    BY <2>5 DEF SendsFit
  <2>6. ~awake' => ~awake /\ n # PortCap
    BY <2>1
  <2>3. ~awake' => CanSend(bottomOut) /\ ~awake
    BY <2>5, <2>6 DEF CanSend
  <2>4. ~awake' => /\ topIn = <<>> /\ CountQuiet /\ BottomQuiet
                   /\ topTransactions # <<>> =>
                        Blocked(Head(topTransactions))'
    BY <1>1, <1>2, <2>1, <2>3
    DEF AwakeInv, NoLostWakeup, Blocked, Holding, Empty, CanSend
  <2> QED
    BY <1>1, <1>2, <2>1, <2>2, <2>4
    DEF AwakeInv, NoLostWakeup, BottomQuiet, CountQuiet, CanSend
<1>6. ASSUME NEW k, NEW d, BottomDeliver(k, d)
      PROVE  AwakeInv'
  <2>1. /\ awake' = (awake \/ bottomIn = <<>>)
        /\ bottomIn # <<>> => bottomIn' # <<>> /\ Head(bottomIn') = Head(bottomIn)
        /\ UNCHANGED <<topIn, topOut, bottomOut>>
    <3>1. \A m : bottomIn # <<>> => /\ Append(bottomIn, m) # <<>>
                                    /\ Head(Append(bottomIn, m)) = Head(bottomIn)
      <4>1. bottomIn \in Seq(TopRsp)
        BY DEF TypeOK
      <4> QED
        BY <4>1
    <3> QED
      BY <1>6, <3>1 DEF BottomDeliver
  <2> QED
    BY <1>1, <1>2, <2>1
    DEF AwakeInv, SendsFit, NoLostWakeup, BottomQuiet, CountQuiet, Blocked,
        Holding, Empty, CanSend
<1>7. CASE NotifyAvailable
  BY <1>1, <1>7 DEF NotifyAvailable, AwakeInv, SendsFit, NoLostWakeup
<1> QED
  BY <1>3, <1>4, <1>5, <1>6, <1>7 DEF Environment

\* All steps together.
LEMMA AwakeInvStep == TypeOK /\ AwakeInv /\ [Next]_vars => AwakeInv'
<1> SUFFICES ASSUME TypeOK, AwakeInv, [Next]_vars PROVE AwakeInv'
  OBVIOUS
<1>1. CASE Component
  BY <1>1, AwakeInvStage, AwakeInvHead DEF Component
<1>2. CASE Environment
  BY <1>2, AwakeInvOutside
<1>3. CASE UNCHANGED vars
  BY <1>3 DEF vars, store, topPort, lowPort, ticker, AwakeInv, SendsFit,
              NoLostWakeup, BottomQuiet, CountQuiet, Blocked, Holding, Empty,
              CanSend
<1> QED
  BY <1>1, <1>2, <1>3 DEF Next

\* Whatever the stages of the current tick have seen so far, it is accounted for
\* in progress or still true.
THEOREM AwakeInvHolds == Spec => []AwakeInv
  BY TypeInit, TypeStep, AwakeInvInit, AwakeInvStep, PTL DEF Spec

\* The victim cache never sleeps while it has something it could do, for every
\* port capacity and latency.
THEOREM NeverSleepsThroughWork == Spec => []NoLostWakeup
<1>1. AwakeInv => NoLostWakeup
  BY DEF AwakeInv
<1> QED
  BY <1>1, AwakeInvHolds, PTL

\* No answer and no eviction is ever sent into a full buffer and lost there.
THEOREM EverySendFits == Spec => []SendsFit
<1>1. AwakeInv => SendsFit
  BY DEF AwakeInv
<1> QED
  BY <1>1, AwakeInvHolds, PTL

\* The directory is sound for any number of slots and lines: one slot to a line,
\* a strict order of use among the residents, and nothing dropped unsent.
THEOREM DirectoryStaysSound == Spec => []DirectorySound
<1>1. SlotInv => DirectorySound
  BY DEF SlotInv, DirectorySound
<1> QED
  BY <1>1, SlotInvHolds, PTL

\* The ports are served for every capacity and latency: no message is sent into
\* a full buffer, and the component does not sleep while it could do something.
THEOREM PortsAreServed == Spec => []PortsServed
<1>1. AwakeInv => PortsServed
  BY DEF AwakeInv, PortsServed
<1> QED
  BY <1>1, AwakeInvHolds, PTL

(***************************************************************************)
(* How the steps move requests                                             *)
(***************************************************************************)
AskedOf(taken, waiting) ==
  [k \in DOMAIN (taken \o waiting) |-> Request((taken \o waiting)[k])]

\* Where a request is in the queue asked.
LEMMA AskedOfProps ==
  ASSUME NEW s \in Seq(Transaction), NEW t \in Seq(TopReq)
  PROVE  /\ AskedOf(s, t) \in Seq(TopReq)
         /\ Len(AskedOf(s, t)) = Len(s) + Len(t)
         /\ \A i \in 1 .. Len(s) : AskedOf(s, t)[i] = Request(s[i])
         /\ \A i \in 1 .. Len(t) : AskedOf(s, t)[Len(s) + i] = t[i]
<1> DEFINE U == Transaction \cup TopReq
           q == s \o t
           n == Len(s) + Len(t)
<1>1. s \in Seq(U) /\ t \in Seq(U)
  BY SeqMonotonic
<1>2. /\ Len(s) \in Nat /\ Len(t) \in Nat /\ q \in Seq(U) /\ Len(q) = n
      /\ DOMAIN q = 1 .. n
      /\ \A i \in 1 .. n : q[i] = IF i <= Len(s) THEN s[i] ELSE t[i - Len(s)]
  BY <1>1, ConcatProperties, LenProperties
<1>3. \A r \in TopReq : Request(r) = r
  BY DEF Request, TopReq
<1>4. \A r \in U : Request(r) \in TopReq
  BY DEF Request, Transaction, TopReq
<1>5. /\ \A i \in 1 .. Len(s) : s[i] \in Transaction
      /\ \A i \in 1 .. Len(t) : t[i] \in TopReq
      /\ \A i \in 1 .. n : q[i] \in U
  BY <1>2, ElementOfSeq
<1>6. AskedOf(s, t) = [k \in 1 .. n |-> Request(q[k])]
  BY <1>2 DEF AskedOf
<1> HIDE DEF q
<1>7. AskedOf(s, t) \in Seq(TopReq)
  <2>1. \A k \in 1 .. n : Request(q[k]) \in TopReq
    BY <1>4, <1>5
  <2> QED
    BY <1>2, <1>6, <2>1, IsASeq
<1>8. Len(AskedOf(s, t)) = n
  <2>1. DOMAIN AskedOf(s, t) = 1 .. n
    BY <1>6
  <2>2. /\ Len(AskedOf(s, t)) \in Nat
        /\ DOMAIN AskedOf(s, t) = 1 .. Len(AskedOf(s, t))
    BY <1>7, LenProperties
  <2> QED
    BY <1>2, <2>1, <2>2
<1>9. \A i \in 1 .. Len(s) : AskedOf(s, t)[i] = Request(s[i])
  BY <1>2, <1>6
<1>10. ASSUME NEW i \in 1 .. Len(t) PROVE AskedOf(s, t)[Len(s) + i] = t[i]
  <2>1. /\ Len(s) + i \in 1 .. n /\ ~(Len(s) + i <= Len(s))
        /\ (Len(s) + i) - Len(s) = i
    BY <1>2
  <2>2. q[Len(s) + i] = t[i]
    BY <1>2, <2>1
  <2> QED
    BY <1>3, <1>5, <1>6, <2>1, <2>2
<1> QED
  BY <1>7, <1>8, <1>9, <1>10

\* Asked is that queue.
LEMMA AskedIs == Asked = AskedOf(topTransactions, topIn)
  BY DEF Asked, AskedOf

\* A request that arrives is the last one asked ...
LEMMA AskedAppend ==
  ASSUME NEW s \in Seq(Transaction), NEW t \in Seq(TopReq), NEW r \in TopReq
  PROVE  AskedOf(s, Append(t, r)) = Append(AskedOf(s, t), r)
<1> DEFINE a == AskedOf(s, Append(t, r))
           b == Append(AskedOf(s, t), r)
<1>1. /\ Append(t, r) \in Seq(TopReq) /\ Len(Append(t, r)) = Len(t) + 1
      /\ \A i \in 1 .. Len(t) : Append(t, r)[i] = t[i]
      /\ Append(t, r)[Len(t) + 1] = r
      /\ Len(s) \in Nat /\ Len(t) \in Nat
  BY AppendProperties, LenProperties
<1>2. /\ a \in Seq(TopReq) /\ Len(a) = Len(s) + Len(t) + 1
      /\ \A i \in 1 .. Len(s) : a[i] = Request(s[i])
      /\ \A i \in 1 .. Len(t) : a[Len(s) + i] = t[i]
      /\ a[Len(s) + (Len(t) + 1)] = r
  <2>1. /\ a \in Seq(TopReq) /\ Len(a) = Len(s) + Len(Append(t, r))
        /\ \A i \in 1 .. Len(s) : a[i] = Request(s[i])
        /\ \A i \in 1 .. Len(Append(t, r)) : a[Len(s) + i] = Append(t, r)[i]
    BY <1>1, AskedOfProps
  <2> HIDE DEF a
  <2> QED
    BY <1>1, <2>1, SMTT(30)
<1>3. /\ b \in Seq(TopReq) /\ Len(b) = Len(s) + Len(t) + 1
      /\ \A i \in 1 .. Len(s) : b[i] = Request(s[i])
      /\ \A i \in 1 .. Len(t) : b[Len(s) + i] = t[i]
      /\ b[Len(s) + Len(t) + 1] = r
  BY <1>1, AskedOfProps, AppendProperties, SMTT(30)
<1> HIDE DEF a, b
<1>4. ASSUME NEW i \in 1 .. Len(a) PROVE a[i] = b[i]
  <2>1. CASE i <= Len(s)
    BY <1>1, <1>2, <1>3, <2>1
  <2>2. CASE i > Len(s) /\ i <= Len(s) + Len(t)
    <3>1. i - Len(s) \in 1 .. Len(t) /\ i = Len(s) + (i - Len(s))
      BY <1>1, <2>2
    <3> QED
      BY <1>2, <1>3, <3>1
  <2>3. CASE i = Len(s) + Len(t) + 1
    BY <1>1, <1>2, <1>3, <2>3
  <2> QED
    BY <1>1, <1>2, <2>1, <2>2, <2>3
<1>5. a = b
  BY <1>2, <1>3, <1>4, SeqEqual
<1> QED
  BY <1>5 DEF a, b

\* ... the one that is served is the first ...
LEMMA AskedTail ==
  ASSUME NEW s \in Seq(Transaction), NEW t \in Seq(TopReq), s # <<>>
  PROVE  /\ AskedOf(s, t) # <<>>
         /\ Head(AskedOf(s, t)) = Request(Head(s))
         /\ AskedOf(Tail(s), t) = Tail(AskedOf(s, t))
<1> DEFINE a == AskedOf(s, t)
           b == AskedOf(Tail(s), t)
<1>1. /\ Len(s) \in Nat \ {0} /\ Len(t) \in Nat
      /\ Tail(s) \in Seq(Transaction) /\ Len(Tail(s)) = Len(s) - 1
      /\ \A i \in 1 .. Len(s) - 1 : Tail(s)[i] = s[i + 1]
      /\ Head(s) = s[1]
  BY HeadTailProperties, LenProperties, EmptySeq
<1>2. /\ a \in Seq(TopReq) /\ Len(a) = Len(s) + Len(t)
      /\ \A i \in 1 .. Len(s) : a[i] = Request(s[i])
      /\ \A i \in 1 .. Len(t) : a[Len(s) + i] = t[i]
  BY AskedOfProps
<1>3. /\ b \in Seq(TopReq) /\ Len(b) = Len(s) - 1 + Len(t)
      /\ \A i \in 1 .. Len(s) - 1 : b[i] = Request(s[i + 1])
      /\ \A i \in 1 .. Len(t) : b[Len(s) - 1 + i] = t[i]
  <2>1. /\ b \in Seq(TopReq) /\ Len(b) = Len(Tail(s)) + Len(t)
        /\ \A i \in 1 .. Len(Tail(s)) : b[i] = Request(Tail(s)[i])
        /\ \A i \in 1 .. Len(t) : b[Len(Tail(s)) + i] = t[i]
    BY <1>1, AskedOfProps
  <2> HIDE DEF b
  <2> QED
    BY <1>1, <2>1
<1> HIDE DEF a, b
<1>4. a # <<>> /\ Head(a) = Request(Head(s))
  <2>1. a # <<>>
    BY <1>1, <1>2, EmptySeq
  <2>2. Head(a) = a[1]
    BY <1>2, <2>1, HeadTailProperties
  <2> QED
    BY <1>1, <1>2, <2>1, <2>2
<1>5. /\ Tail(a) \in Seq(TopReq) /\ Len(Tail(a)) = Len(a) - 1
      /\ \A i \in 1 .. Len(a) - 1 : Tail(a)[i] = a[i + 1]
  BY <1>2, <1>4, HeadTailProperties
<1>6. ASSUME NEW i \in 1 .. Len(b) PROVE b[i] = Tail(a)[i]
  <2>1. CASE i <= Len(s) - 1
    BY <1>1, <1>2, <1>3, <1>5, <2>1
  <2>2. CASE ~(i <= Len(s) - 1)
    <3>1. /\ i - (Len(s) - 1) \in 1 .. Len(t)
          /\ i = Len(s) - 1 + (i - (Len(s) - 1))
          /\ i + 1 = Len(s) + (i - (Len(s) - 1))
          /\ i \in 1 .. Len(a) - 1
      BY <1>1, <1>2, <1>3, <2>2
    <3> QED
      BY <1>2, <1>3, <1>5, <3>1
  <2> QED
    BY <2>1, <2>2
<1>7. b = Tail(a)
  <2>1. Len(b) = Len(Tail(a))
    BY <1>1, <1>2, <1>3, <1>5
  <2> QED
    BY <1>3, <1>5, <1>6, <2>1, SeqEqual
<1> QED
  BY <1>4, <1>7 DEF a, b

\* ... and the two stages in between change nothing but the countdowns.
LEMMA AskedUnmoved ==
  ASSUME TypeOK, TypeOK', CountDown \/ ReceiveTopRequest
  PROVE  Asked' = Asked
<1> USE AskedIs
<1>1. Asked' = AskedOf(topTransactions', topIn')
  BY DEF Asked, AskedOf
<1>2. /\ topTransactions \in Seq(Transaction) /\ topIn \in Seq(TopReq)
      /\ topTransactions' \in Seq(Transaction) /\ topIn' \in Seq(TopReq)
      /\ Len(topTransactions) \in Nat /\ Len(topIn) \in Nat
  BY LenProperties DEF TypeOK
<1>3. /\ Asked \in Seq(TopReq) /\ Len(Asked) = Len(topTransactions) + Len(topIn)
      /\ \A i \in 1 .. Len(topTransactions) :
           Asked[i] = Request(topTransactions[i])
      /\ \A i \in 1 .. Len(topIn) : Asked[Len(topTransactions) + i] = topIn[i]
  BY <1>2, AskedOfProps
<1>4. /\ Asked' \in Seq(TopReq)
      /\ Len(Asked') = Len(topTransactions') + Len(topIn')
      /\ \A i \in 1 .. Len(topTransactions') :
           Asked'[i] = Request(topTransactions'[i])
      /\ \A i \in 1 .. Len(topIn') : Asked'[Len(topTransactions') + i] = topIn'[i]
  BY <1>1, <1>2, AskedOfProps
<1>5. CASE CountDown
  <2>1. /\ topIn' = topIn
        /\ topTransactions' = [i \in 1 .. Len(topTransactions) |->
                                 Counted(topTransactions[i])]
    BY <1>2, <1>5, LenProperties DEF CountDown, topPort
  <2>2. Len(topTransactions') = Len(topTransactions)
    BY <1>2, <2>1, LenProperties
  <2>3. \A i \in 1 .. Len(topTransactions) : 
          Request(topTransactions'[i]) = Request(topTransactions[i])
    <3> SUFFICES ASSUME NEW i \in 1 .. Len(topTransactions)
                 PROVE  Request(topTransactions'[i]) = Request(topTransactions[i])
      OBVIOUS
    <3>1. topTransactions[i] \in Transaction
      BY <1>2, ElementOfSeq
    <3>2. \A x \in Transaction : Request(Counted(x)) = Request(x)
      BY DEF Request, Counted, Transaction
    <3> QED
      BY <2>1, <3>1, <3>2
  <2>4. ASSUME NEW i \in 1 .. Len(Asked) PROVE Asked'[i] = Asked[i]
    <3>1. CASE i <= Len(topTransactions)
      BY <1>2, <1>3, <1>4, <2>2, <2>3, <3>1
    <3>2. CASE i > Len(topTransactions)
      <4>1. /\ i - Len(topTransactions) \in 1 .. Len(topIn)
            /\ i = Len(topTransactions) + (i - Len(topTransactions))
        BY <1>2, <1>3, <3>2
      <4> QED
        BY <1>3, <1>4, <2>1, <2>2, <4>1
    <3> QED
      BY <1>2, <1>3, <3>1, <3>2
  <2> QED
    BY <1>3, <1>4, <2>1, <2>2, <2>4, SeqEqual
<1>6. CASE ReceiveTopRequest /\ topIn # <<>>
  <2> DEFINE r == Head(topIn)
             t == [kind |-> r.kind, id |-> r.id, line |-> r.line,
                   data |-> r.data, CycleLeft |-> Latency]
             n == Len(topTransactions)
  <2>1. topTransactions' = Append(topTransactions, t) /\ topIn' = Tail(topIn)
    BY <1>6 DEF ReceiveTopRequest
  <2>2. r \in TopReq /\ r = topIn[1] /\ t \in Transaction /\ Request(t) = r
    <3>1. r \in TopReq /\ r = topIn[1]
      BY <1>2, <1>6, HeadTailProperties
    <3> QED
      BY <3>1, SizeAssumption DEF Request, TopReq, Transaction
  <2> HIDE DEF r, t
  <2>3. /\ Len(topTransactions') = n + 1
        /\ \A i \in 1 .. n : topTransactions'[i] = topTransactions[i]
        /\ topTransactions'[n + 1] = t
    BY <1>2, <2>1, <2>2, AppendProperties
  <2>4. /\ Len(topIn') = Len(topIn) - 1
        /\ \A i \in 1 .. Len(topIn) - 1 : topIn'[i] = topIn[i + 1]
        /\ Len(topIn) \in Nat \ {0}
    BY <1>2, <1>6, <2>1, HeadTailProperties, EmptySeq
  <2>5. ASSUME NEW i \in 1 .. Len(Asked) PROVE Asked'[i] = Asked[i]
    <3>1. CASE i <= n
      BY <1>2, <1>3, <1>4, <2>3, <3>1
    <3>2. CASE i = n + 1
      <4>1. Asked'[i] = r
        BY <1>2, <1>4, <2>2, <2>3, <3>2
      <4>2. Asked[n + 1] = topIn[1]
        BY <1>3, <2>4
      <4> QED
        BY <2>2, <3>2, <4>1, <4>2
    <3>3. CASE i > n + 1
      <4> DEFINE j == i - (n + 1)
      <4>1. /\ j \in 1 .. Len(topIn) - 1 /\ i = (n + 1) + j /\ i = n + (j + 1)
            /\ j + 1 \in 1 .. Len(topIn)
        BY <1>2, <1>3, <2>4, <3>3
      <4> HIDE DEF j
      <4>2. Asked'[i] = topIn'[j]
        BY <1>4, <2>3, <2>4, <4>1
      <4>3. Asked[i] = topIn[j + 1]
        BY <1>3, <4>1
      <4> QED
        BY <2>4, <4>1, <4>2, <4>3
    <3> QED
      BY <1>2, <3>1, <3>2, <3>3
  <2>6. Len(Asked') = Len(Asked)
    BY <1>2, <1>3, <1>4, <2>3, <2>4
  <2> QED
    BY <1>3, <1>4, <2>5, <2>6, SeqEqual
<1>7. CASE ReceiveTopRequest /\ topIn = <<>>
  BY <1>1, <1>7 DEF ReceiveTopRequest
<1> QED
  BY <1>5, <1>6, <1>7

(***************************************************************************)
(* The lower side: what pendingBottom (P), the requests below (S) and the  *)
(* answers on their way back (B) have to do with each other when n         *)
(* requests were sent in all.                                              *)
(***************************************************************************)
Ledger(P, S, B, n) ==
  /\ \A p \in P : p.BottomReqID =< n
  /\ \A p, q \in P : p.BottomReqID = q.BottomReqID => p = q
  /\ \A r, q \in S : r.id = q.id => r = q
  /\ \A m, q \in B : m.rspTo = q.rspTo => m = q
  /\ \A r \in S, m \in B : r.id # m.rspTo
  /\ \A r \in S : \E p \in P : /\ p.BottomReqID = r.id
                               /\ p.IsEviction <=> r.kind = "WriteReq"
  /\ \A m \in B : \E p \in P : /\ p.BottomReqID = m.rspTo
                               /\ p.IsEviction <=> m.kind = "WriteDoneRsp"
  /\ \A p \in P : \/ \E r \in S : r.id = p.BottomReqID
                  \/ \E m \in B : m.rspTo = p.BottomReqID

\* Sending a request with a fresh ID and noting it keeps the ledger.
LEMMA LedgerSend ==
  ASSUME NEW P \in SUBSET PendingBottom, NEW S \in SUBSET TopReq,
         NEW B \in SUBSET TopRsp, NEW n \in Nat, Ledger(P, S, B, n),
         NEW p \in PendingBottom, NEW r \in TopReq,
         p.BottomReqID = n + 1, r.id = n + 1,
         p.IsEviction <=> r.kind = "WriteReq"
  PROVE  /\ p \notin P /\ r \notin S
         /\ Ledger(P \cup {p}, S \cup {r}, B, n + 1)
<1>1. \A q \in P : q.BottomReqID \in Nat /\ q.BottomReqID =< n
  BY DEF Ledger, PendingBottom
<1>2. /\ \A q \in S : q.id \in Nat /\ q.id =< n
      /\ \A m \in B : m.rspTo \in Nat /\ m.rspTo =< n
  BY <1>1 DEF Ledger
<1>3. p \notin P /\ r \notin S
  BY <1>1, <1>2
<1>4. \A q \in P \cup {p} : q.BottomReqID =< n + 1
  BY <1>1
<1>5. \A q, u \in P \cup {p} : q.BottomReqID = u.BottomReqID => q = u
  BY <1>1 DEF Ledger
<1>6. /\ \A q, u \in S \cup {r} : q.id = u.id => q = u
      /\ \A q \in S \cup {r}, m \in B : q.id # m.rspTo
  BY <1>2 DEF Ledger
<1> QED
  BY <1>3, <1>4, <1>5, <1>6 DEF Ledger

\* The answer takes the place of the request.
LEMMA LedgerServe ==
  ASSUME NEW P \in SUBSET PendingBottom, NEW S \in SUBSET TopReq,
         NEW B \in SUBSET TopRsp, NEW n \in Nat, Ledger(P, S, B, n),
         NEW r \in S, NEW m \in TopRsp, m.rspTo = r.id,
         m.kind = "WriteDoneRsp" <=> r.kind = "WriteReq"
  PROVE  m \notin B /\ Ledger(P, S \ {r}, B \cup {m}, n)
<1>1. m \notin B
  BY DEF Ledger
<1>2. \A u \in S \ {r}, q \in B \cup {m} : u.id # q.rspTo
  BY DEF Ledger
<1>3. \A q, u \in B \cup {m} : q.rspTo = u.rspTo => q = u
  BY DEF Ledger
<1>4. \A q \in B \cup {m} : \E p \in P : /\ p.BottomReqID = q.rspTo
                                         /\ p.IsEviction <=> q.kind = "WriteDoneRsp"
  BY DEF Ledger
<1>5. \A p \in P : \/ \E u \in S \ {r} : u.id = p.BottomReqID
                   \/ \E q \in B \cup {m} : q.rspTo = p.BottomReqID
  BY DEF Ledger
<1> QED
  BY <1>1, <1>2, <1>3, <1>4, <1>5 DEF Ledger

\* Striking out the entry an answer answers keeps it.
LEMMA LedgerDone ==
  ASSUME NEW P \in SUBSET PendingBottom, NEW S \in SUBSET TopReq,
         NEW B \in SUBSET TopRsp, NEW n \in Nat, Ledger(P, S, B, n),
         NEW p \in P, NEW m \in B, p.BottomReqID = m.rspTo
  PROVE  /\ Ledger(P \ {p}, S, B \ {m}, n)
         /\ p.IsEviction <=> m.kind = "WriteDoneRsp"
<1>1. p.IsEviction <=> m.kind = "WriteDoneRsp"
  BY DEF Ledger
<1>2. \A r \in S : \E q \in P \ {p} : /\ q.BottomReqID = r.id
                                      /\ q.IsEviction <=> r.kind = "WriteReq"
  BY DEF Ledger
<1>3. \A u \in B \ {m} : \E q \in P \ {p} :
        /\ q.BottomReqID = u.rspTo
        /\ q.IsEviction <=> u.kind = "WriteDoneRsp"
  BY DEF Ledger
<1>4. \A q \in P \ {p} : \/ \E r \in S : r.id = q.BottomReqID
                         \/ \E u \in B \ {m} : u.rspTo = q.BottomReqID
  BY DEF Ledger
<1> QED
  BY <1>1, <1>2, <1>3, <1>4 DEF Ledger

(***************************************************************************)
(* The upper side: of the n requests served so far, each is waiting for    *)
(* the level below (R), in the top port (O) or collected (A).              *)
(***************************************************************************)
Served(R, O, A, n) ==
  /\ \A p \in R : p.OrigReqID \in 1 .. n
  /\ \A m \in O \cup A : m.rspTo \in 1 .. n
  /\ \A p, q \in R : p.OrigReqID = q.OrigReqID => p = q
  /\ \A m, q \in O \cup A : m.rspTo = q.rspTo => m = q
  /\ O \cap A = {}
  /\ \A p \in R, m \in O \cup A : p.OrigReqID # m.rspTo
  /\ \A i \in 1 .. n : \/ \E p \in R : p.OrigReqID = i
                       \/ \E m \in O \cup A : m.rspTo = i

\* The next request in order is sent below, ...
LEMMA ServedMiss ==
  ASSUME NEW R, NEW O, NEW A, NEW n \in Nat, Served(R, O, A, n),
         NEW p, p.OrigReqID = n + 1
  PROVE  p \notin R /\ Served(R \cup {p}, O, A, n + 1)
<1>1. /\ 1 .. n + 1 = (1 .. n) \cup {n + 1} /\ n + 1 \notin 1 .. n
  OBVIOUS
<1>2. /\ \A q \in R : q.OrigReqID \in 1 .. n
      /\ \A m \in O \cup A : m.rspTo \in 1 .. n
  BY DEF Served
<1> QED
  BY <1>1, <1>2 DEF Served

\* ... or answered at once; ...
LEMMA ServedHit ==
  ASSUME NEW R, NEW O, NEW A, NEW n \in Nat, Served(R, O, A, n),
         NEW m, m.rspTo = n + 1
  PROVE  m \notin O /\ Served(R, O \cup {m}, A, n + 1)
<1>1. /\ 1 .. n + 1 = (1 .. n) \cup {n + 1} /\ n + 1 \notin 1 .. n
  OBVIOUS
<1>2. /\ \A q \in R : q.OrigReqID \in 1 .. n
      /\ \A q \in O \cup A : q.rspTo \in 1 .. n
  BY DEF Served
<1> QED
  BY <1>1, <1>2 DEF Served

\* ... what waited for the level below is answered; ...
LEMMA ServedLater ==
  ASSUME NEW R, NEW O, NEW A, NEW n \in Nat, Served(R, O, A, n),
         NEW p \in R, NEW m, m.rspTo = p.OrigReqID
  PROVE  m \notin O /\ Served(R \ {p}, O \cup {m}, A, n)
<1>1. m \notin O \cup A
  BY DEF Served
<1>2. m.rspTo \in 1 .. n
  BY DEF Served
<1>3. \A q \in R \ {p}, u \in O \cup {m} \cup A : q.OrigReqID # u.rspTo
  BY DEF Served
<1>4. \A i \in 1 .. n : \/ \E q \in R \ {p} : q.OrigReqID = i
                        \/ \E u \in O \cup {m} \cup A : u.rspTo = i
  BY DEF Served
<1>5. \A u, q \in O \cup {m} \cup A : u.rspTo = q.rspTo => u = q
  BY DEF Served
<1> QED
  BY <1>1, <1>2, <1>3, <1>4, <1>5 DEF Served

\* ... and an answer is collected.
LEMMA ServedCollected ==
  ASSUME NEW R, NEW O, NEW A, NEW n \in Nat, Served(R, O, A, n), NEW m \in O
  PROVE  m \notin A /\ Served(R, O \ {m}, A \cup {m}, n)
<1>1. m \notin A
  BY DEF Served
<1>2. (O \ {m}) \cup (A \cup {m}) = O \cup A /\ (O \ {m}) \cap (A \cup {m}) = {}
  BY DEF Served
<1> QED
  BY <1>1, <1>2 DEF Served

Waiting == {p \in ToSet(pendingBottom) : ~p.IsEviction}

Sent == ToSet(lowReqs) \cup ToSet(bottomOut)

DataOut == {k \in DOMAIN topOut : topOut[k].kind = "DataReadyRsp"}

Fetched(A) == {r \in A : r.kind = "DataReadyRsp"}

LowInv ==
  /\ IsInjective(pendingBottom) /\ IsInjective(lowReqs)
  /\ IsInjective(bottomOut) /\ IsInjective(bottomIn)
  /\ ToSet(lowReqs) \cap ToSet(bottomOut) = {}
  /\ Len(pendingBottom) = Len(lowReqs) + Len(bottomOut) + Len(bottomIn)
  /\ Ledger(ToSet(pendingBottom), Sent, ToSet(bottomIn), BottomSendCount)

UpInv ==
  /\ Len(Asked) =< issued
  /\ \A i \in 1 .. Len(Asked) : Asked[i].id = issued - Len(Asked) + i
  /\ IsInjective(topOut)
  /\ Served(Waiting, ToSet(topOut), answered, issued - Len(Asked))

CountInv ==
  /\ IsFiniteSet(answered)
  /\ Cardinality(ReadsBelow) + Len(topOut) + Cardinality(answered)
       = issued - Len(Asked)
  /\ ReadsCountedOnce

LedgerInv == LowInv /\ UpInv /\ CountInv

\* The sequences are over their types, and so are their sets of elements.
LEMMA LedgerTypes ==
  ASSUME TypeOK
  PROVE  /\ ToSet(pendingBottom) \in SUBSET PendingBottom
         /\ ToSet(lowReqs) \in SUBSET TopReq /\ ToSet(bottomOut) \in SUBSET TopReq
         /\ ToSet(bottomIn) \in SUBSET TopRsp /\ ToSet(topOut) \in SUBSET TopRsp
         /\ Sent \in SUBSET TopReq
         /\ Asked \in Seq(TopReq) /\ Len(Asked) \in Nat
         /\ Len(Asked) = Len(topTransactions) + Len(topIn)
<1>1. /\ ToSet(pendingBottom) \in SUBSET PendingBottom
      /\ ToSet(lowReqs) \in SUBSET TopReq /\ ToSet(bottomOut) \in SUBSET TopReq
      /\ ToSet(bottomIn) \in SUBSET TopRsp /\ ToSet(topOut) \in SUBSET TopRsp
  BY ElementOfSeq, LenProperties DEF TypeOK, ToSet
<1>2. /\ Asked \in Seq(TopReq) /\ Len(Asked) = Len(topTransactions) + Len(topIn)
  BY AskedOfProps, AskedIs DEF TypeOK
<1> QED
  BY <1>1, <1>2, LenProperties DEF Sent

NotEvicting == {p \in PendingBottom : ~p.IsEviction}
WithData == {m \in TopRsp : m.kind = "DataReadyRsp"}

\* The counts of RequestsAccounted are counts of positions.
LEMMA CountsArePositions ==
  ASSUME NEW pend \in Seq(PendingBottom), NEW out \in Seq(TopRsp)
  PROVE  /\ {k \in DOMAIN pend : ~pend[k].IsEviction}
              = Positions(pend, NotEvicting)
         /\ {k \in DOMAIN out : out[k].kind = "DataReadyRsp"}
              = Positions(out, WithData)
<1>1. /\ \A k \in DOMAIN pend : pend[k] \in PendingBottom
      /\ \A k \in DOMAIN out : out[k] \in TopRsp
  BY ElementOfSeq, LenProperties
<1> QED
  BY <1>1 DEF Positions, NotEvicting, WithData

\* What the counts are now and after the step.
LEMMA Counts ==
  ASSUME TypeOK, TypeOK'
  PROVE  /\ ReadsBelow = Positions(pendingBottom, NotEvicting)
         /\ ReadsBelow' = Positions(pendingBottom', NotEvicting)
         /\ DataOut = Positions(topOut, WithData)
         /\ DataOut' = Positions(topOut', WithData)
         /\ Cardinality(ReadsBelow) \in Nat /\ Cardinality(DataOut) \in Nat
<1>1. /\ pendingBottom \in Seq(PendingBottom) /\ topOut \in Seq(TopRsp)
      /\ pendingBottom' \in Seq(PendingBottom) /\ topOut' \in Seq(TopRsp)
  BY DEF TypeOK
<1>2. /\ ReadsBelow = Positions(pendingBottom, NotEvicting)
      /\ DataOut = Positions(topOut, WithData)
  BY <1>1, CountsArePositions DEF ReadsBelow, DataOut
<1>3. /\ ReadsBelow' = Positions(pendingBottom', NotEvicting)
      /\ DataOut' = Positions(topOut', WithData)
  BY <1>1, CountsArePositions DEF ReadsBelow, DataOut
<1> QED
  BY <1>1, <1>2, <1>3, PositionsFinite

\* The ledger starts empty.
LEMMA LedgerInvInit == Init => LedgerInv
<1> SUFFICES ASSUME Init PROVE LedgerInv
  OBVIOUS
<1>1. /\ DOMAIN pendingBottom = {} /\ DOMAIN lowReqs = {} /\ DOMAIN bottomOut = {}
      /\ DOMAIN bottomIn = {} /\ DOMAIN topOut = {}
      /\ Len(pendingBottom) = 0 /\ Len(lowReqs) = 0 /\ Len(bottomOut) = 0
      /\ Len(bottomIn) = 0 /\ Len(topOut) = 0 /\ Len(topTransactions) = 0
      /\ Len(topIn) = 0
  BY DEF Init
<1>2. /\ ToSet(pendingBottom) = {} /\ ToSet(lowReqs) = {} /\ ToSet(bottomOut) = {}
      /\ ToSet(bottomIn) = {} /\ ToSet(topOut) = {} /\ Waiting = {} /\ Sent = {}
      /\ ReadsBelow = {} /\ DataOut = {} /\ answered = {}
      /\ {r \in answered : r.kind = "DataReadyRsp"} = {}
  BY <1>1 DEF ToSet, Waiting, Sent, ReadsBelow, DataOut, Init
<1>3. Len(Asked) = 0 /\ issued = 0
  BY <1>1, LedgerTypes, TypeInit DEF Init
<1>4. LowInv
  BY <1>1, <1>2 DEF LowInv, Ledger, IsInjective
<1>5. UpInv
  BY <1>1, <1>2, <1>3 DEF UpInv, Served, IsInjective
<1>6. IsFiniteSet(answered) /\ Cardinality(answered) = 0
  BY <1>2, FS_EmptySet
<1>7. CountInv
  BY <1>1, <1>2, <1>3, <1>6 DEF CountInv, ReadsCountedOnce, Init, DataOut
<1> QED
  BY <1>4, <1>5, <1>7 DEF LedgerInv

\* A step that moves no request and counts none keeps the ledger.
LEMMA LedgerQuiet ==
  ASSUME LedgerInv, Asked' = Asked,
         UNCHANGED <<pendingBottom, VCHits, VCMisses, BottomSendCount, topOut,
                     lowPort, outside>>
  PROVE  LedgerInv'
  BY DEF LedgerInv, LowInv, UpInv, CountInv, ReadsCountedOnce, ReadsBelow, Sent,
         Waiting, lowPort, outside

\* The head of topTransactions is the oldest request asked.
LEMMA ServeHead ==
  ASSUME TypeOK, TypeOK', UpInv, topTransactions # <<>>,
         topTransactions' = Tail(topTransactions), topIn' = topIn,
         issued' = issued
  PROVE  /\ Asked # <<>> /\ Asked' = Tail(Asked)
         /\ Head(Asked) = Request(Head(topTransactions))
         /\ Len(Asked') = Len(Asked) - 1
         /\ Len(Asked) \in Nat \ {0}
         /\ Head(topTransactions).id = issued - Len(Asked) + 1
         /\ issued - Len(Asked) \in Nat
         /\ issued' - Len(Asked') = (issued - Len(Asked)) + 1
         /\ Len(Asked') =< issued'
         /\ \A i \in 1 .. Len(Asked') :
              Asked'[i].id = issued' - Len(Asked') + i
<1>1. Asked' = AskedOf(topTransactions', topIn')
  BY DEF Asked, AskedOf
<1>2. /\ Asked # <<>> /\ Head(Asked) = Request(Head(topTransactions))
      /\ Asked' = Tail(Asked)
  BY <1>1, AskedTail, AskedIs DEF TypeOK
<1>3. Asked \in Seq(TopReq)
  BY LedgerTypes
<1> HIDE DEF Asked
<1>4. /\ Len(Asked') = Len(Asked) - 1 /\ Len(Asked) \in Nat \ {0}
      /\ Head(Asked) = Asked[1]
      /\ \A i \in 1 .. Len(Asked) - 1 : Asked'[i] = Asked[i + 1]
  BY <1>2, <1>3, HeadTailProperties, LenProperties, EmptySeq
<1>5. issued \in Nat /\ Len(Asked) =< issued
  BY DEF TypeOK, UpInv
<1>6. Head(topTransactions).id = issued - Len(Asked) + 1
  <2>1. Asked[1].id = issued - Len(Asked) + 1
    BY <1>4 DEF UpInv
  <2> QED
    BY <1>2, <1>4, <2>1 DEF Request
<1>7. \A i \in 1 .. Len(Asked') : Asked'[i].id = issued' - Len(Asked') + i
  <2> SUFFICES ASSUME NEW i \in 1 .. Len(Asked) - 1
               PROVE  Asked'[i].id = issued - (Len(Asked) - 1) + i
    BY <1>4
  <2>1. i + 1 \in 1 .. Len(Asked) /\ Asked'[i] = Asked[i + 1]
    BY <1>4
  <2>2. Asked[i + 1].id = issued - Len(Asked) + (i + 1)
    BY <2>1 DEF UpInv
  <2> QED
    BY <1>4, <1>5, <2>1, <2>2
<1> QED
  BY <1>2, <1>4, <1>5, <1>6, <1>7

(***************************************************************************)
(* The lower side, effect by effect                                        *)
(***************************************************************************)
\* handleRead and handleWrite send a request with a fresh ID and note it.
LEMMA LowAfterSend ==
  ASSUME TypeOK, LowInv, NEW p \in PendingBottom, NEW r \in TopReq,
         p.BottomReqID = BottomSendCount + 1, r.id = BottomSendCount + 1,
         p.IsEviction <=> r.kind = "WriteReq",
         pendingBottom' = Append(pendingBottom, p),
         bottomOut' = Append(bottomOut, r),
         BottomSendCount' = BottomSendCount + 1,
         UNCHANGED <<lowReqs, bottomIn>>
  PROVE  LowInv' /\ p \notin ToSet(pendingBottom)
<1>1. /\ p \notin ToSet(pendingBottom) /\ r \notin Sent
      /\ Ledger(ToSet(pendingBottom) \cup {p}, Sent \cup {r}, ToSet(bottomIn),
                BottomSendCount + 1)
  <2>1. BottomSendCount \in Nat
          /\ Ledger(ToSet(pendingBottom), Sent, ToSet(bottomIn), BottomSendCount)
    BY DEF LowInv, TypeOK
  <2>2. /\ ToSet(pendingBottom) \in SUBSET PendingBottom
        /\ ToSet(bottomIn) \in SUBSET TopRsp /\ Sent \in SUBSET TopReq
    BY LedgerTypes
  <2> QED
    BY <2>1, <2>2, LedgerSend
<1>2. /\ ToSet(pendingBottom') = ToSet(pendingBottom) \cup {p}
      /\ IsInjective(pendingBottom') /\ Len(pendingBottom') = Len(pendingBottom) + 1
  <2>1. pendingBottom \in Seq(PendingBottom) /\ IsInjective(pendingBottom)
    BY DEF LowInv, TypeOK
  <2> QED
    BY <1>1, <2>1, ElementsAppended
<1>3. /\ ToSet(bottomOut') = ToSet(bottomOut) \cup {r}
      /\ IsInjective(bottomOut') /\ Len(bottomOut') = Len(bottomOut) + 1
  BY <1>1, ElementsAppended DEF LowInv, TypeOK, Sent
<1>4. Sent' = Sent \cup {r} /\ ToSet(lowReqs) \cap ToSet(bottomOut') = {}
  BY <1>1, <1>3 DEF Sent, LowInv
<1>5. Len(pendingBottom') = Len(lowReqs) + Len(bottomOut') + Len(bottomIn)
  <2>1. Len(bottomOut) \in Nat /\ Len(lowReqs) \in Nat /\ Len(bottomIn) \in Nat
    BY LenProperties DEF TypeOK
  <2>2. Len(pendingBottom) = Len(lowReqs) + Len(bottomOut) + Len(bottomIn)
    BY DEF LowInv
  <2> QED
    BY <1>2, <1>3, <2>1, <2>2
<1> QED
  BY <1>1, <1>2, <1>3, <1>4, <1>5 DEF LowInv

\* The connection carries a request down.
LEMMA LowAfterCollect ==
  ASSUME TypeOK, LowInv, BottomCollect
  PROVE  LowInv'
<1> DEFINE r == Head(bottomOut)
<1>1. /\ bottomOut # <<>> /\ bottomOut' = Tail(bottomOut)
      /\ lowReqs' = Append(lowReqs, r)
      /\ UNCHANGED <<pendingBottom, bottomIn, BottomSendCount>>
  BY DEF BottomCollect, Between, stats
<1>2. /\ r \in ToSet(bottomOut) /\ r \in TopReq
      /\ ToSet(bottomOut') = ToSet(bottomOut) \ {r}
      /\ IsInjective(bottomOut') /\ Len(bottomOut') = Len(bottomOut) - 1
  BY <1>1, ElementsAfterHead DEF LowInv, TypeOK
<1>3. r \notin ToSet(lowReqs)
  BY <1>2 DEF LowInv
<1>4. /\ ToSet(lowReqs') = ToSet(lowReqs) \cup {r}
      /\ IsInjective(lowReqs') /\ Len(lowReqs') = Len(lowReqs) + 1
  BY <1>1, <1>2, <1>3, ElementsAppended DEF LowInv, TypeOK
<1>5. Sent' = Sent /\ ToSet(lowReqs') \cap ToSet(bottomOut') = {}
  BY <1>2, <1>4 DEF Sent, LowInv
<1>6. Len(pendingBottom) = Len(lowReqs') + Len(bottomOut') + Len(bottomIn)
  BY <1>2, <1>4, LenProperties DEF LowInv, TypeOK
<1> QED
  BY <1>1, <1>2, <1>4, <1>5, <1>6 DEF LowInv

\* The low module answers a request.
LEMMA LowAfterDeliver ==
  ASSUME TypeOK, LowInv, NEW k \in DOMAIN lowReqs, NEW d \in Data,
         BottomDeliver(k, d)
  PROVE  LowInv'
<1> DEFINE r == lowReqs[k]
           m == IF r.kind = "ReadReq" THEN DataReady(r.id, d)
                                      ELSE WriteDone(r.id)
<1>1. /\ lowReqs' = RemoveAt(lowReqs, k) /\ bottomIn' = Append(bottomIn, m)
      /\ UNCHANGED <<pendingBottom, bottomOut, BottomSendCount>>
  BY DEF BottomDeliver, Between, stats
<1>2. k \in 1 .. Len(lowReqs) /\ r \in TopReq
  BY ElementOfSeq, LenProperties DEF TypeOK
<1>3. /\ m \in TopRsp /\ m.rspTo = r.id
      /\ m.kind = "WriteDoneRsp" <=> r.kind = "WriteReq"
  BY <1>2 DEF TopReq, TopRsp, DataReady, WriteDone
<1>4. /\ r \in ToSet(lowReqs)
      /\ ToSet(lowReqs') = ToSet(lowReqs) \ {r}
      /\ IsInjective(lowReqs') /\ Len(lowReqs') = Len(lowReqs) - 1
  BY <1>1, <1>2, ElementsRemoved DEF LowInv, TypeOK
<1> HIDE DEF r, m
<1>5. r \in Sent
  BY <1>4 DEF Sent
<1>6. /\ m \notin ToSet(bottomIn)
      /\ Ledger(ToSet(pendingBottom), Sent \ {r}, ToSet(bottomIn) \cup {m},
                BottomSendCount)
  <2>1. /\ ToSet(pendingBottom) \in SUBSET PendingBottom
        /\ Sent \in SUBSET TopReq /\ ToSet(bottomIn) \in SUBSET TopRsp
    BY LedgerTypes
  <2>2. BottomSendCount \in Nat
    BY DEF TypeOK
  <2>3. Ledger(ToSet(pendingBottom), Sent, ToSet(bottomIn), BottomSendCount)
    BY DEF LowInv
  <2> QED
    BY <1>3, <1>5, <2>1, <2>2, <2>3, LedgerServe, SMTT(30)
<1>7. /\ ToSet(bottomIn') = ToSet(bottomIn) \cup {m}
      /\ IsInjective(bottomIn') /\ Len(bottomIn') = Len(bottomIn) + 1
  BY <1>1, <1>3, <1>6, ElementsAppended DEF LowInv, TypeOK
<1>8. Sent' = Sent \ {r} /\ ToSet(lowReqs') \cap ToSet(bottomOut') = {}
  BY <1>1, <1>4 DEF Sent, LowInv
<1>9. Len(pendingBottom) = Len(lowReqs') + Len(bottomOut) + Len(bottomIn')
  BY <1>4, <1>7, LenProperties DEF LowInv, TypeOK
<1> QED
  BY <1>1, <1>4, <1>6, <1>7, <1>8, <1>9 DEF LowInv

\* completeBottomRead and completeBottomWrite strike out what was answered.
LEMMA LowAfterResponse ==
  ASSUME TypeOK, LowInv, bottomIn # <<>>, NEW k, k = Pending(Head(bottomIn)),
         k # 0, pendingBottom' = RemoveAt(pendingBottom, k),
         bottomIn' = Tail(bottomIn),
         UNCHANGED <<lowReqs, bottomOut, BottomSendCount>>
  PROVE  /\ LowInv'
         /\ pendingBottom[k].IsEviction <=> Head(bottomIn).kind = "WriteDoneRsp"
         /\ k \in 1 .. Len(pendingBottom) /\ pendingBottom[k] \in PendingBottom
         /\ pendingBottom[k] \in ToSet(pendingBottom)
         /\ ToSet(pendingBottom') = ToSet(pendingBottom) \ {pendingBottom[k]}
<1> DEFINE p == pendingBottom[k]
           m == Head(bottomIn)
<1>1. /\ k \in 1 .. Len(pendingBottom)
      /\ p.BottomReqID = m.rspTo /\ p \in PendingBottom
  BY PendingAnswers, ElementOfSeq DEF TypeOK
<1>2. /\ p \in ToSet(pendingBottom)
      /\ ToSet(pendingBottom') = ToSet(pendingBottom) \ {p}
      /\ IsInjective(pendingBottom') /\ Len(pendingBottom') = Len(pendingBottom) - 1
  BY <1>1, ElementsRemoved DEF LowInv, TypeOK
<1>3. /\ m \in ToSet(bottomIn)
      /\ ToSet(bottomIn') = ToSet(bottomIn) \ {m}
      /\ IsInjective(bottomIn') /\ Len(bottomIn') = Len(bottomIn) - 1
  BY ElementsAfterHead DEF LowInv, TypeOK
<1> HIDE DEF p, m
<1>4. /\ Ledger(ToSet(pendingBottom) \ {p}, Sent, ToSet(bottomIn) \ {m},
                BottomSendCount)
      /\ p.IsEviction <=> m.kind = "WriteDoneRsp"
  <2>1. BottomSendCount \in Nat
          /\ Ledger(ToSet(pendingBottom), Sent, ToSet(bottomIn), BottomSendCount)
    BY DEF LowInv, TypeOK
  <2>2. /\ ToSet(pendingBottom) \in SUBSET PendingBottom
        /\ Sent \in SUBSET TopReq /\ ToSet(bottomIn) \in SUBSET TopRsp
    BY LedgerTypes
  <2> QED
    BY <1>1, <1>2, <1>3, <2>1, <2>2, LedgerDone
<1>5. Len(pendingBottom') = Len(lowReqs) + Len(bottomOut) + Len(bottomIn')
  BY <1>2, <1>3, LenProperties DEF LowInv, TypeOK
<1>6. LowInv'
  BY <1>2, <1>3, <1>4, <1>5 DEF LowInv, Sent
<1> QED
  BY <1>1, <1>2, <1>4, <1>6 DEF p, m

(***************************************************************************)
(* The upper side and the counts, step by step                             *)
(***************************************************************************)
\* The head is answered at once, whatever eviction goes below with that.
LEMMA LedgerAnswered ==
  ASSUME TypeOK, TypeOK', LedgerInv, LowInv', topTransactions # <<>>,
         topTransactions' = Tail(topTransactions), UNCHANGED <<topIn, outside>>,
         NEW m \in TopRsp, m.rspTo = Head(topTransactions).id,
         topOut' = Append(topOut, m),
         \/ pendingBottom' = pendingBottom
         \/ \E p \in PendingBottom :
              p.IsEviction /\ pendingBottom' = Append(pendingBottom, p),
         VCHits' + VCMisses' = VCHits + VCMisses
                                 + (IF m.kind = "DataReadyRsp" THEN 1 ELSE 0)
  PROVE  LedgerInv'
<1> USE DEF outside
<1> DEFINE n == issued - Len(Asked)
<1>1. /\ n \in Nat /\ issued' - Len(Asked') = n + 1 /\ m.rspTo = n + 1
      /\ Len(Asked') =< issued'
      /\ \A i \in 1 .. Len(Asked') : Asked'[i].id = issued' - Len(Asked') + i
  BY ServeHead DEF LedgerInv
<1>2. Waiting' = Waiting /\ Cardinality(ReadsBelow') = Cardinality(ReadsBelow)
  <2>1. CASE pendingBottom' = pendingBottom
    BY <2>1 DEF Waiting, ReadsBelow
  <2>2. ASSUME NEW p \in PendingBottom, p.IsEviction,
               pendingBottom' = Append(pendingBottom, p)
        PROVE  /\ Waiting' = Waiting
               /\ Cardinality(ReadsBelow') = Cardinality(ReadsBelow)
    <3>1. ToSet(pendingBottom') = ToSet(pendingBottom) \cup {p}
      BY <2>2, SetAppended DEF TypeOK
    <3>2. Waiting' = Waiting
      BY <2>2, <3>1 DEF Waiting
    <3>3. Cardinality(ReadsBelow') = Cardinality(ReadsBelow)
      <4>1. Cardinality(Positions(pendingBottom', NotEvicting))
              = Cardinality(Positions(pendingBottom, NotEvicting)) + 0
        BY <2>2, CountAppended, SMTT(30) DEF TypeOK, NotEvicting
      <4> QED
        BY <4>1, Counts
    <3> QED
      BY <3>2, <3>3
  <2> QED
    BY <2>1, <2>2
<1>3. /\ m \notin ToSet(topOut)
      /\ Served(Waiting, ToSet(topOut) \cup {m}, answered, n + 1)
  BY <1>1, ServedHit DEF LedgerInv, UpInv
<1>4. /\ ToSet(topOut') = ToSet(topOut) \cup {m} /\ IsInjective(topOut')
      /\ Len(topOut') = Len(topOut) + 1
  BY <1>3, ElementsAppended, SMTT(30) DEF LedgerInv, UpInv, TypeOK
<1>5. UpInv'
  BY <1>1, <1>2, <1>3, <1>4 DEF UpInv
<1>6. Cardinality(DataOut') = Cardinality(DataOut)
                                + (IF m.kind = "DataReadyRsp" THEN 1 ELSE 0)
  <2>1. Cardinality(Positions(topOut', WithData))
          = Cardinality(Positions(topOut, WithData))
              + (IF m.kind = "DataReadyRsp" THEN 1 ELSE 0)
    BY CountAppended, SMTT(30) DEF TypeOK, WithData
  <2> QED
    BY <2>1, Counts
<1>7. CountInv'
  <2>1. /\ IsFiniteSet(answered) /\ Cardinality(answered) \in Nat
        /\ Cardinality(ReadsBelow) \in Nat /\ Cardinality(DataOut) \in Nat
        /\ Cardinality(ReadsBelow) + Len(topOut) + Cardinality(answered) = n
        /\ VCHits + VCMisses = Cardinality(ReadsBelow) + Cardinality(DataOut)
             + Cardinality({r \in answered : r.kind = "DataReadyRsp"})
        /\ Cardinality({r \in answered : r.kind = "DataReadyRsp"}) \in Nat
    BY Counts, FS_CardinalityType, FS_Subset
    DEF LedgerInv, CountInv, ReadsCountedOnce, DataOut
  <2>2. Cardinality(ReadsBelow') + Len(topOut') + Cardinality(answered') = n + 1
    <3>1. Len(topOut) \in Nat /\ answered' = answered
      BY LenProperties DEF TypeOK
    <3> QED
      BY <1>1, <1>2, <1>4, <2>1, <3>1
  <2>3. ReadsCountedOnce'
    <3>1. VCHits' + VCMisses' = Cardinality(ReadsBelow') + Cardinality(DataOut')
             + Cardinality({r \in answered : r.kind = "DataReadyRsp"})
      BY <1>2, <1>6, <2>1
    <3> QED
      BY <3>1 DEF ReadsCountedOnce, DataOut
  <2> QED
    BY <1>1, <2>1, <2>2, <2>3 DEF CountInv
<1> QED
  BY <1>5, <1>7 DEF LedgerInv

\* The head is a read and goes below.
LEMMA LedgerMissed ==
  ASSUME TypeOK, TypeOK', LedgerInv, LowInv', topTransactions # <<>>,
         topTransactions' = Tail(topTransactions),
         UNCHANGED <<topIn, topOut, outside>>,
         NEW p \in PendingBottom, p \notin ToSet(pendingBottom),
         p.OrigReqID = Head(topTransactions).id, ~p.IsEviction,
         pendingBottom' = Append(pendingBottom, p),
         VCHits' + VCMisses' = VCHits + VCMisses + 1
  PROVE  LedgerInv'
<1> USE DEF outside
<1> DEFINE n == issued - Len(Asked)
<1>1. /\ n \in Nat /\ issued' - Len(Asked') = n + 1 /\ p.OrigReqID = n + 1
      /\ Len(Asked') =< issued'
      /\ \A i \in 1 .. Len(Asked') : Asked'[i].id = issued' - Len(Asked') + i
  BY ServeHead DEF LedgerInv
<1>2. Waiting' = Waiting \cup {p}
  <2>1. ToSet(pendingBottom') = ToSet(pendingBottom) \cup {p}
    BY SetAppended DEF TypeOK
  <2> QED
    BY <2>1 DEF Waiting
<1>3. Served(Waiting \cup {p}, ToSet(topOut), answered, n + 1)
  BY <1>1, ServedMiss DEF LedgerInv, UpInv
<1>4. UpInv'
  BY <1>1, <1>2, <1>3 DEF UpInv, LedgerInv
<1>5. Cardinality(ReadsBelow') = Cardinality(ReadsBelow) + 1
  <2>1. Cardinality(Positions(pendingBottom', NotEvicting))
          = Cardinality(Positions(pendingBottom, NotEvicting)) + 1
    BY CountAppended, SMTT(30) DEF TypeOK, NotEvicting
  <2> QED
    BY <2>1, Counts
<1>6. CountInv'
  <2>1. /\ IsFiniteSet(answered) /\ Cardinality(answered) \in Nat
        /\ Cardinality(ReadsBelow) \in Nat /\ Cardinality(DataOut) \in Nat
        /\ Cardinality(ReadsBelow) + Len(topOut) + Cardinality(answered) = n
        /\ VCHits + VCMisses = Cardinality(ReadsBelow) + Cardinality(DataOut)
             + Cardinality({r \in answered : r.kind = "DataReadyRsp"})
        /\ Cardinality({r \in answered : r.kind = "DataReadyRsp"}) \in Nat
    BY Counts, FS_CardinalityType, FS_Subset
    DEF LedgerInv, CountInv, ReadsCountedOnce, DataOut
  <2>2. Cardinality(ReadsBelow') + Len(topOut') + Cardinality(answered') = n + 1
    <3>1. Len(topOut) \in Nat /\ answered' = answered /\ topOut' = topOut
      BY LenProperties DEF TypeOK
    <3> QED
      BY <1>1, <1>5, <2>1, <3>1
  <2>3. ReadsCountedOnce'
    <3>1. VCHits' + VCMisses' = Cardinality(ReadsBelow') + Cardinality(DataOut)
             + Cardinality({r \in answered : r.kind = "DataReadyRsp"})
      BY <1>5, <2>1
    <3> QED
      BY <3>1 DEF ReadsCountedOnce, DataOut
  <2> QED
    BY <1>1, <2>1, <2>2, <2>3 DEF CountInv
<1> QED
  BY <1>4, <1>6 DEF LedgerInv

\* What came back for a read is passed on.
LEMMA LedgerPassedOn ==
  ASSUME TypeOK, TypeOK', LedgerInv, LowInv', Asked' = Asked,
         NEW k \in 1 .. Len(pendingBottom), ~pendingBottom[k].IsEviction,
         pendingBottom[k] \in ToSet(pendingBottom),
         pendingBottom' = RemoveAt(pendingBottom, k),
         ToSet(pendingBottom') = ToSet(pendingBottom) \ {pendingBottom[k]},
         NEW m \in TopRsp, m.rspTo = pendingBottom[k].OrigReqID,
         m.kind = "DataReadyRsp", topOut' = Append(topOut, m),
         UNCHANGED <<VCHits, VCMisses, outside>>
  PROVE  LedgerInv'
<1> USE DEF outside
<1> DEFINE n == issued - Len(Asked)
           p == pendingBottom[k]
<1>1. n \in Nat /\ issued' - Len(Asked') = n
  BY LedgerTypes DEF TypeOK, LedgerInv, UpInv
<1>2. Waiting' = Waiting \ {p} /\ p \in Waiting
  BY DEF Waiting
<1>3. /\ m \notin ToSet(topOut)
      /\ Served(Waiting \ {p}, ToSet(topOut) \cup {m}, answered, n)
  BY <1>1, <1>2, ServedLater DEF LedgerInv, UpInv
<1>4. /\ ToSet(topOut') = ToSet(topOut) \cup {m} /\ IsInjective(topOut')
      /\ Len(topOut') = Len(topOut) + 1
  BY <1>3, ElementsAppended DEF LedgerInv, UpInv, TypeOK
<1>5. UpInv'
  BY <1>1, <1>2, <1>3, <1>4 DEF UpInv, LedgerInv
<1>6. Cardinality(ReadsBelow') = Cardinality(ReadsBelow) - 1
  <2>1. p \in NotEvicting
    BY ElementOfSeq DEF TypeOK, NotEvicting
  <2>2. Cardinality(Positions(pendingBottom', NotEvicting))
          = Cardinality(Positions(pendingBottom, NotEvicting)) - 1
    BY <2>1, CountRemoved DEF TypeOK
  <2> QED
    BY <2>2, Counts
<1>7. Cardinality(DataOut') = Cardinality(DataOut) + 1
  <2>1. Cardinality(Positions(topOut', WithData))
          = Cardinality(Positions(topOut, WithData)) + 1
    BY CountAppended, SMTT(30) DEF TypeOK, WithData
  <2> QED
    BY <2>1, Counts
<1>8. CountInv'
  <2>1. /\ IsFiniteSet(answered) /\ Cardinality(answered) \in Nat
        /\ Cardinality(ReadsBelow) \in Nat /\ Cardinality(DataOut) \in Nat
        /\ Cardinality(ReadsBelow) + Len(topOut) + Cardinality(answered) = n
        /\ VCHits + VCMisses = Cardinality(ReadsBelow) + Cardinality(DataOut)
             + Cardinality({r \in answered : r.kind = "DataReadyRsp"})
        /\ Cardinality({r \in answered : r.kind = "DataReadyRsp"}) \in Nat
    BY Counts, FS_CardinalityType, FS_Subset
    DEF LedgerInv, CountInv, ReadsCountedOnce, DataOut
  <2>2. Cardinality(ReadsBelow') + Len(topOut') + Cardinality(answered') = n
    <3>1. Len(topOut) \in Nat /\ answered' = answered
      BY LenProperties DEF TypeOK
    <3> QED
      BY <1>1, <1>4, <1>6, <2>1, <3>1
  <2>3. ReadsCountedOnce'
    <3>1. VCHits' + VCMisses' = Cardinality(ReadsBelow') + Cardinality(DataOut')
             + Cardinality({r \in answered : r.kind = "DataReadyRsp"})
      BY <1>6, <1>7, <2>1
    <3> QED
      BY <3>1 DEF ReadsCountedOnce, DataOut
  <2> QED
    BY <1>1, <2>1, <2>2, <2>3 DEF CountInv
<1> QED
  BY <1>5, <1>8 DEF LedgerInv

\* The answer to an eviction ends below.
LEMMA LedgerEvicted ==
  ASSUME TypeOK, TypeOK', LedgerInv, LowInv', Asked' = Asked,
         NEW k \in 1 .. Len(pendingBottom), pendingBottom[k].IsEviction,
         pendingBottom' = RemoveAt(pendingBottom, k),
         ToSet(pendingBottom') = ToSet(pendingBottom) \ {pendingBottom[k]},
         UNCHANGED <<VCHits, VCMisses, topOut, outside>>
  PROVE  LedgerInv'
<1> USE DEF outside
<1>1. Waiting' = Waiting
  BY DEF Waiting
<1>2. UpInv'
  BY <1>1 DEF UpInv, LedgerInv
<1>3. Cardinality(ReadsBelow') = Cardinality(ReadsBelow)
  <2>1. pendingBottom[k] \notin NotEvicting
    BY DEF NotEvicting
  <2>2. Cardinality(Positions(pendingBottom', NotEvicting))
          = Cardinality(Positions(pendingBottom, NotEvicting)) - 0
    BY <2>1, CountRemoved DEF TypeOK
  <2> QED
    BY <2>2, Counts
<1>4. CountInv'
  BY <1>3 DEF CountInv, LedgerInv, ReadsCountedOnce
<1> QED
  BY <1>2, <1>4 DEF LedgerInv

\* The upper side takes an answer out of the top port ...
LEMMA LedgerCollected ==
  ASSUME TypeOK, TypeOK', LedgerInv, TopCollect
  PROVE  LedgerInv'
<1> DEFINE n == issued - Len(Asked)
           m == Head(topOut)
<1>1. /\ topOut # <<>> /\ topOut' = Tail(topOut)
      /\ answered' = answered \cup {m}
      /\ UNCHANGED <<pendingBottom, VCHits, VCMisses, BottomSendCount, lowReqs,
                     bottomIn, bottomOut, issued, topTransactions, topIn>>
  BY DEF TopCollect, Between, stats, lowPort
<1>2. LowInv'
  BY <1>1 DEF LedgerInv, LowInv, Sent
<1>3. Asked' = Asked /\ Waiting' = Waiting /\ ReadsBelow' = ReadsBelow
  BY <1>1 DEF Asked, Waiting, ReadsBelow
<1>4. /\ m \in ToSet(topOut) /\ m \in TopRsp
      /\ ToSet(topOut') = ToSet(topOut) \ {m} /\ IsInjective(topOut')
      /\ Len(topOut') = Len(topOut) - 1
  BY <1>1, ElementsAfterHead DEF LedgerInv, UpInv, TypeOK
<1> HIDE DEF m
<1>5. /\ m \notin answered
      /\ Served(Waiting, ToSet(topOut) \ {m}, answered \cup {m}, n)
  <2>1. n \in Nat
    <3>1. Len(Asked) \in Nat /\ issued \in Nat /\ Len(Asked) =< issued
      BY LedgerTypes DEF TypeOK, LedgerInv, UpInv
    <3> QED
      BY <3>1
  <2> QED
    BY <1>4, <2>1, ServedCollected DEF LedgerInv, UpInv
<1>6. UpInv'
  BY <1>1, <1>3, <1>4, <1>5 DEF UpInv, LedgerInv
<1>7. /\ IsFiniteSet(answered) /\ Cardinality(answered) \in Nat
      /\ IsFiniteSet(Fetched(answered))
      /\ Cardinality(Fetched(answered)) \in Nat
      /\ Cardinality(ReadsBelow) \in Nat /\ Cardinality(DataOut) \in Nat
      /\ Cardinality(ReadsBelow) + Len(topOut) + Cardinality(answered) = n
      /\ VCHits + VCMisses = Cardinality(ReadsBelow) + Cardinality(DataOut)
           + Cardinality(Fetched(answered))
  BY Counts, FS_CardinalityType, FS_Subset
  DEF LedgerInv, CountInv, ReadsCountedOnce, DataOut, Fetched
<1>8. /\ IsFiniteSet(answered')
      /\ Cardinality(answered') = Cardinality(answered) + 1
  BY <1>1, <1>5, <1>7, FS_AddElement
<1>9. Cardinality(DataOut') = Cardinality(DataOut)
                                - (IF m.kind = "DataReadyRsp" THEN 1 ELSE 0)
  <2>1. 1 \in 1 .. Len(topOut) /\ topOut' = RemoveAt(topOut, 1) /\ m = topOut[1]
    BY <1>1, TailRemoves, HeadTailProperties DEF TypeOK, m
  <2>2. Cardinality(Positions(topOut', WithData))
          = Cardinality(Positions(topOut, WithData))
              - (IF topOut[1] \in WithData THEN 1 ELSE 0)
    BY <2>1, CountRemoved, SMTT(30) DEF TypeOK
  <2>3. topOut[1] \in WithData <=> m.kind = "DataReadyRsp"
    BY <1>4, <2>1 DEF WithData
  <2> QED
    BY <2>2, <2>3, Counts
<1>10. Cardinality(Fetched(answered')) = Cardinality(Fetched(answered))
                                + (IF m.kind = "DataReadyRsp" THEN 1 ELSE 0)
  <2>1. CASE m.kind = "DataReadyRsp"
    <3>1. /\ Fetched(answered') = Fetched(answered) \cup {m}
          /\ m \notin Fetched(answered)
      BY <1>1, <1>5, <2>1 DEF Fetched
    <3> QED
      BY <1>7, <2>1, <3>1, FS_AddElement
  <2>2. CASE m.kind # "DataReadyRsp"
    <3>1. Fetched(answered') = Fetched(answered)
      BY <1>1, <2>2 DEF Fetched
    <3> QED
      BY <1>7, <2>2, <3>1
  <2> QED
    BY <2>1, <2>2
<1>11. CountInv'
  <2>1. Cardinality(ReadsBelow') + Len(topOut') + Cardinality(answered') = n
    <3>1. Len(topOut) \in Nat
      BY LenProperties DEF TypeOK
    <3> QED
      BY <1>3, <1>4, <1>7, <1>8, <3>1
  <2>2. ReadsCountedOnce'
    <3>1. VCHits' + VCMisses' = Cardinality(ReadsBelow') + Cardinality(DataOut')
             + Cardinality(Fetched(answered'))
      BY <1>1, <1>3, <1>7, <1>9, <1>10
    <3> QED
      BY <3>1 DEF ReadsCountedOnce, DataOut, Fetched
  <2> QED
    BY <1>1, <1>3, <1>8, <2>1, <2>2 DEF CountInv
<1> QED
  BY <1>2, <1>6, <1>11 DEF LedgerInv

\* ... or puts the next request into it.
LEMMA LedgerAsked ==
  ASSUME TypeOK, TypeOK', LedgerInv, NEW kind, NEW l \in Lines, NEW d,
         \/ kind = "ReadReq" /\ d = NoData
         \/ kind = "WriteReq" /\ d \in Data,
         TopDeliver(kind, l, d)
  PROVE  LedgerInv'
<1> DEFINE r == [kind |-> kind, id |-> issued + 1, line |-> l, data |-> d]
<1>1. /\ topIn' = Append(topIn, r) /\ issued' = issued + 1
      /\ UNCHANGED <<pendingBottom, VCHits, VCMisses, BottomSendCount, lowReqs,
                     bottomIn, bottomOut, topTransactions, topOut, answered>>
  BY DEF TopDeliver, Between, stats, lowPort
<1>2. r \in TopReq
  BY SMTT(30) DEF TopReq, TypeOK
<1>3. Asked' = Append(Asked, r)
  <2>1. Asked' = AskedOf(topTransactions', topIn')
    BY DEF Asked, AskedOf
  <2> QED
    BY <1>1, <1>2, <2>1, AskedIs, AskedAppend DEF TypeOK
<1>4. Asked \in Seq(TopReq) /\ Len(Asked) \in Nat /\ issued \in Nat
  BY LedgerTypes DEF TypeOK
<1> HIDE DEF Asked
<1>5. /\ Len(Asked') = Len(Asked) + 1 /\ Asked'[Len(Asked) + 1] = r
      /\ \A i \in 1 .. Len(Asked) : Asked'[i] = Asked[i]
  BY <1>2, <1>3, <1>4, AppendProperties
<1>6. issued' - Len(Asked') = issued - Len(Asked)
  BY <1>1, <1>4, <1>5
<1>7. UpInv'
  <2>1. Len(Asked') =< issued'
    BY <1>1, <1>4, <1>5 DEF LedgerInv, UpInv
  <2>2. ASSUME NEW i \in 1 .. Len(Asked')
        PROVE  Asked'[i].id = issued' - Len(Asked') + i
    <3>1. CASE i = Len(Asked) + 1
      BY <1>1, <1>4, <1>5, <3>1
    <3>2. CASE i # Len(Asked) + 1
      <4>1. i \in 1 .. Len(Asked) /\ Asked'[i] = Asked[i]
        BY <1>4, <1>5, <3>2
      <4> QED
        BY <1>6, <4>1 DEF LedgerInv, UpInv
    <3> QED
      BY <3>1, <3>2
  <2> QED
    BY <1>1, <1>6, <2>1, <2>2 DEF UpInv, LedgerInv, Waiting
<1>8. LowInv'
  BY <1>1 DEF LedgerInv, LowInv, Sent
<1>9. CountInv'
  BY <1>1, <1>6 DEF LedgerInv, CountInv, ReadsBelow, ReadsCountedOnce
<1> QED
  BY <1>7, <1>8, <1>9 DEF LedgerInv

\* The stages before the head transaction keep the ledger.
LEMMA LedgerStage ==
  ASSUME TypeOK, TypeOK', LedgerInv,
         Tick \/ ProcessBottomResponse \/ CountDown \/ ReceiveTopRequest
  PROVE  LedgerInv'
<1> USE DEF store, stats, topPort, lowPort, outside
<1>1. CASE Tick \/ NoBottomResponse
  <2>1. UNCHANGED <<topTransactions, pendingBottom, stats, topPort, lowPort,
                    outside>>
    BY <1>1 DEF Tick, NoBottomResponse
  <2>2. Asked' = Asked
    BY <2>1 DEF Asked
  <2> QED
    BY <2>1, <2>2, LedgerQuiet
<1>2. CASE CountDown \/ ReceiveTopRequest
  <2>1. UNCHANGED <<pendingBottom, stats, topOut, lowPort, outside>>
    BY <1>2 DEF CountDown, ReceiveTopRequest
  <2>2. Asked' = Asked
    BY <1>2, AskedUnmoved
  <2> QED
    BY <2>1, <2>2, LedgerQuiet
<1>3. CASE CompleteBottomRead
  <2> DEFINE k == Pending(Head(bottomIn))
             m == DataReady(pendingBottom[k].OrigReqID, Head(bottomIn).data)
  <2>1. /\ bottomIn # <<>> /\ Head(bottomIn).kind = "DataReadyRsp" /\ k # 0
        /\ topOut' = Append(topOut, m)
        /\ pendingBottom' = RemoveAt(pendingBottom, k)
        /\ bottomIn' = Tail(bottomIn)
        /\ UNCHANGED <<topTransactions, topIn, VCHits, VCMisses,
                       BottomSendCount, bottomOut, outside>>
    BY <1>3 DEF CompleteBottomRead
  <2>2. Asked' = Asked
    BY <2>1 DEF Asked
  <2> HIDE DEF k
  <2>3. /\ LowInv'
        /\ pendingBottom[k].IsEviction <=> Head(bottomIn).kind = "WriteDoneRsp"
        /\ k \in 1 .. Len(pendingBottom) /\ pendingBottom[k] \in PendingBottom
        /\ pendingBottom[k] \in ToSet(pendingBottom)
        /\ ToSet(pendingBottom') = ToSet(pendingBottom) \ {pendingBottom[k]}
    BY <2>1, LowAfterResponse DEF LedgerInv, k
  <2>4. ~pendingBottom[k].IsEviction
    BY <2>1, <2>3
  <2>5. /\ m.rspTo = pendingBottom[k].OrigReqID /\ m.kind = "DataReadyRsp"
        /\ m \in TopRsp
    <3>1. Head(bottomIn).data \in Data
      BY <2>1, HeadTyped DEF TopRsp
    <3> QED
      BY <2>3, <3>1 DEF DataReady, TopRsp, PendingBottom
  <2> HIDE DEF m
  <2> QED
    BY <2>1, <2>2, <2>3, <2>4, <2>5, LedgerPassedOn
<1>4. CASE CompleteBottomWrite
  <2> DEFINE k == Pending(Head(bottomIn))
  <2>1. /\ bottomIn # <<>> /\ k # 0 /\ pendingBottom[k].IsEviction
        /\ pendingBottom' = RemoveAt(pendingBottom, k)
        /\ bottomIn' = Tail(bottomIn)
        /\ UNCHANGED <<topTransactions, topIn, topOut, VCHits, VCMisses,
                       BottomSendCount, bottomOut, outside>>
    BY <1>4 DEF CompleteBottomWrite
  <2>2. Asked' = Asked
    BY <2>1 DEF Asked
  <2> HIDE DEF k
  <2>3. /\ LowInv' /\ k \in 1 .. Len(pendingBottom)
        /\ ToSet(pendingBottom') = ToSet(pendingBottom) \ {pendingBottom[k]}
    BY <2>1, LowAfterResponse DEF LedgerInv, k
  <2> QED
    BY <2>1, <2>2, <2>3, LedgerEvicted
<1> QED
  BY <1>1, <1>2, <1>3, <1>4 DEF ProcessBottomResponse

\* A write is acknowledged at once.
LEMMA LedgerPut ==
  ASSUME TypeOK, TypeOK', LedgerInv, LowInv', NEW i, HeadReady("WriteReq"),
         PutAndAck(i),
         \/ pendingBottom' = pendingBottom
         \/ \E p \in PendingBottom :
              p.IsEviction /\ pendingBottom' = Append(pendingBottom, p)
  PROVE  LedgerInv'
<1> DEFINE m == WriteDone(Head(topTransactions).id)
<1>1. /\ topTransactions # <<>> /\ topTransactions' = Tail(topTransactions)
      /\ topOut' = Append(topOut, m)
      /\ UNCHANGED <<VCHits, VCMisses, topIn, outside>>
  BY DEF HeadReady, PutAndAck
<1>2. /\ m \in TopRsp /\ m.rspTo = Head(topTransactions).id
      /\ m.kind # "DataReadyRsp"
  <2>1. Head(topTransactions) \in Transaction
    BY <1>1, HeadTyped
  <2> QED
    BY <2>1 DEF WriteDone, TopRsp, Transaction
<1>3. VCHits' + VCMisses' = VCHits + VCMisses
                              + (IF m.kind = "DataReadyRsp" THEN 1 ELSE 0)
  BY <1>1, <1>2 DEF TypeOK
<1> HIDE DEF m
<1> QED
  BY <1>1, <1>2, <1>3, LedgerAnswered

\* Whatever happens to the head transaction keeps the ledger.
LEMMA LedgerHead ==
  ASSUME TypeOK, TypeOK', LedgerInv, ProcessHeadTransaction
  PROVE  LedgerInv'
<1> USE DEF store, stats, topPort, lowPort
<1>1. CASE ReadHit
  <2> DEFINE t == Head(topTransactions)
             m == DataReady(t.id, blocks[Min(Holding(t.line))].Data)
  <2>1. /\ topTransactions # <<>> /\ topTransactions' = Tail(topTransactions)
        /\ topOut' = Append(topOut, m)
        /\ VCHits' = VCHits + 1
        /\ UNCHANGED <<pendingBottom, VCMisses, BottomSendCount, topIn,
                       bottomIn, bottomOut, outside>>
    BY <1>1 DEF ReadHit, HeadReady
  <2>2. m \in TopRsp /\ m.rspTo = t.id /\ m.kind = "DataReadyRsp"
    <3>1. t.id \in Nat
      BY <2>1, HeadTyped DEF Transaction
    <3>2. blocks[Min(Holding(t.line))].Data \in Data
      BY <1>1, FirstHolding DEF ReadHit, TypeOK, Block
    <3> QED
      BY <3>1, <3>2 DEF DataReady, TopRsp
  <2>3. VCHits' + VCMisses' = VCHits + VCMisses
                                + (IF m.kind = "DataReadyRsp" THEN 1 ELSE 0)
    BY <2>1, <2>2 DEF TypeOK
  <2>4. LowInv'
    BY <2>1 DEF LedgerInv, LowInv, Sent, outside
  <2> HIDE DEF m
  <2> QED
    BY <2>1, <2>2, <2>3, <2>4, LedgerAnswered
<1>2. CASE ReadMiss
  <2> DEFINE t == Head(topTransactions)
             r == [kind |-> "ReadReq", id |-> FreshID, line |-> t.line,
                   data |-> NoData]
             p == [BottomReqID |-> FreshID, IsEviction |-> FALSE,
                   OrigReqID |-> t.id]
  <2>1. /\ topTransactions # <<>> /\ topTransactions' = Tail(topTransactions)
        /\ bottomOut' = Append(bottomOut, r)
        /\ pendingBottom' = Append(pendingBottom, p)
        /\ VCMisses' = VCMisses + 1 /\ BottomSendCount' = BottomSendCount + 1
        /\ UNCHANGED <<VCHits, topIn, topOut, bottomIn, outside>>
    BY <1>2 DEF ReadMiss, SendReadBelow, HeadReady
  <2>2. /\ r \in TopReq /\ p \in PendingBottom
        /\ p.BottomReqID = BottomSendCount + 1 /\ r.id = BottomSendCount + 1
        /\ ~p.IsEviction /\ r.kind # "WriteReq" /\ p.OrigReqID = t.id
    <3>1. t \in Transaction
      BY <2>1, HeadTyped
    <3>2. t.line \in Lines /\ t.id \in Nat /\ BottomSendCount + 1 \in Nat
      <4>1. BottomSendCount + 1 \in Nat
        BY DEF TypeOK
      <4> QED
        BY <3>1, <4>1 DEF Transaction
    <3>3. r \in TopReq /\ p \in PendingBottom
      BY <3>2 DEF TopReq, PendingBottom, FreshID
    <3> QED
      BY <3>3 DEF FreshID
  <2>3. VCHits' + VCMisses' = VCHits + VCMisses + 1
    BY <2>1 DEF TypeOK
  <2> HIDE DEF r, p
  <2>4. LowInv' /\ p \notin ToSet(pendingBottom)
    BY <2>1, <2>2, LowAfterSend DEF LedgerInv, outside
  <2> QED
    BY <2>1, <2>2, <2>3, <2>4, LedgerMissed
<1>3. CASE WriteResident \/ WriteEmpty
  <2>1. /\ HeadReady("WriteReq") /\ \E i \in Slots : PutAndAck(i)
        /\ UNCHANGED <<pendingBottom, BottomSendCount, bottomOut>>
    BY <1>3, FirstHolding, FirstEmpty DEF WriteResident, WriteEmpty
  <2>2. LowInv'
    BY <2>1 DEF LedgerInv, LowInv, Sent, outside, PutAndAck
  <2> QED
    BY <2>1, <2>2, LedgerPut
<1>4. CASE WriteFull
  <2> DEFINE v == blocks[LruIdx]
             r == [kind |-> "WriteReq", id |-> FreshID, line |-> v.Tag,
                   data |-> v.Data]
             p == [BottomReqID |-> FreshID, IsEviction |-> TRUE,
                   OrigReqID |-> 0]
  <2>1. HeadReady("WriteReq") /\ PutAndAck(LruIdx) /\ UNCHANGED <<bottomIn, lowReqs>>
    BY <1>4 DEF WriteFull, PutAndAck, outside
  <2>2. CASE v.Dirty
    <3>1. /\ bottomOut' = Append(bottomOut, r)
          /\ pendingBottom' = Append(pendingBottom, p)
          /\ BottomSendCount' = BottomSendCount + 1
      BY <1>4, <2>2 DEF WriteFull
    <3>2. /\ r \in TopReq /\ p \in PendingBottom
          /\ p.BottomReqID = BottomSendCount + 1 /\ r.id = BottomSendCount + 1
          /\ p.IsEviction /\ r.kind = "WriteReq"
      <4>1. v.Tag \in Lines /\ v.Data \in Data /\ BottomSendCount + 1 \in Nat
        <5>1. /\ blocks \in [Slots -> Block] /\ LruIdx \in Slots
              /\ BottomSendCount + 1 \in Nat
          BY LruIdxIsOldest, SMTT(30) DEF TypeOK
        <5> QED
          BY <5>1 DEF Block
      <4>2. r \in TopReq /\ p \in PendingBottom
        BY <4>1 DEF TopReq, PendingBottom, FreshID
      <4> QED
        BY <4>2 DEF FreshID
    <3> HIDE DEF r, p
    <3>3. LowInv'
      BY <2>1, <3>1, <3>2, LowAfterSend DEF LedgerInv
    <3> QED
      BY <2>1, <3>1, <3>2, <3>3, LedgerPut
  <2>3. CASE ~v.Dirty
    <3>1. UNCHANGED <<bottomOut, pendingBottom, BottomSendCount>>
      BY <1>4, <2>3 DEF WriteFull
    <3>2. LowInv'
      BY <2>1, <3>1 DEF LedgerInv, LowInv, Sent
    <3> QED
      BY <2>1, <3>1, <3>2, LedgerPut
  <2> QED
    BY <2>2, <2>3
<1>5. CASE WriteStalled \/ NothingHandled
  <2>1. UNCHANGED <<topTransactions, pendingBottom, stats, topPort, lowPort,
                    outside>>
    BY <1>5 DEF WriteStalled, NothingHandled
  <2>2. Asked' = Asked
    BY <2>1 DEF Asked
  <2> QED
    BY <2>1, <2>2, LedgerQuiet
<1> QED
  BY <1>1, <1>2, <1>3, <1>4, <1>5 DEF ProcessHeadTransaction

\* So does whatever happens at the ports.
LEMMA LedgerOutside ==
  ASSUME TypeOK, TypeOK', LedgerInv, Environment
  PROVE  LedgerInv'
<1> USE DEF store, stats, topPort, lowPort, outside
<1>1. ASSUME NEW l \in Lines, TopDeliver("ReadReq", l, NoData)
      PROVE  LedgerInv'
  BY <1>1, LedgerAsked
<1>2. ASSUME NEW l \in Lines, NEW d \in Data, TopDeliver("WriteReq", l, d)
      PROVE  LedgerInv'
  BY <1>2, LedgerAsked
<1>3. CASE TopCollect
  BY <1>3, LedgerCollected
<1>4. ASSUME LowInv',
             UNCHANGED <<topTransactions, pendingBottom, stats, topPort,
                         issued, answered>>
      PROVE  LedgerInv'
  <2>1. Asked' = Asked /\ Waiting' = Waiting /\ ReadsBelow' = ReadsBelow
    BY <1>4 DEF Asked, Waiting, ReadsBelow
  <2> QED
    BY <1>4, <2>1 DEF LedgerInv, UpInv, CountInv, ReadsCountedOnce
<1>5. CASE BottomCollect
  <2>1. LowInv'
    BY <1>5, LowAfterCollect DEF LedgerInv
  <2> QED
    BY <1>4, <1>5, <2>1 DEF BottomCollect, Between
<1>6. ASSUME NEW k \in DOMAIN lowReqs, NEW d \in Data, BottomDeliver(k, d)
      PROVE  LedgerInv'
  <2>1. LowInv'
    BY <1>6, LowAfterDeliver DEF LedgerInv
  <2> QED
    BY <1>4, <1>6, <2>1 DEF BottomDeliver, Between
<1>7. CASE NotifyAvailable
  <2>1. UNCHANGED <<topTransactions, pendingBottom, stats, topPort, lowPort,
                    outside>>
    BY <1>7 DEF NotifyAvailable, Between
  <2>2. Asked' = Asked
    BY <2>1 DEF Asked
  <2> QED
    BY <2>1, <2>2, LedgerQuiet
<1> QED
  BY <1>1, <1>2, <1>3, <1>5, <1>6, <1>7 DEF Environment

\* All steps together.
LEMMA LedgerInvStep ==
  TypeOK /\ TypeOK' /\ LedgerInv /\ [Next]_vars => LedgerInv'
<1> SUFFICES ASSUME TypeOK, TypeOK', LedgerInv, [Next]_vars PROVE LedgerInv'
  OBVIOUS
<1>1. CASE Component
  BY <1>1, LedgerStage, LedgerHead DEF Component
<1>2. CASE Environment
  BY <1>2, LedgerOutside
<1>3. CASE UNCHANGED vars
  <2>1. UNCHANGED <<topTransactions, pendingBottom, stats, topPort, lowPort,
                    outside>>
    BY <1>3 DEF vars
  <2>2. Asked' = Asked
    BY <2>1 DEF Asked, topPort
  <2> QED
    BY <2>1, <2>2, LedgerQuiet DEF stats, topPort
<1> QED
  BY <1>1, <1>2, <1>3 DEF Next

\* Both sides of the ledger balance in every reachable state.
THEOREM LedgerInvHolds == Spec => []LedgerInv
<1>1. TypeOK /\ [Next]_vars => TypeOK'
  BY TypeStep
<1>2. TypeOK /\ TypeOK' /\ LedgerInv /\ [Next]_vars => LedgerInv'
  BY LedgerInvStep
<1> QED
  BY <1>1, <1>2, TypeInit, LedgerInvInit, PTL DEF Spec

\* The ledger of the upper side is AnsweredOnce.
LEMMA LedgerAnsweredOnce ==
  ASSUME TypeOK, LedgerInv
  PROVE  AnsweredOnce
<1> DEFINE n == issued - Len(Asked)
           here == {r.id : r \in ToSet(topIn) \cup ToSet(topTransactions)}
           low == {pendingBottom[k].OrigReqID : k \in ReadsBelow}
           out == {r.rspTo : r \in ToSet(topOut) \cup answered}
<1>1. /\ Len(topTransactions) \in Nat /\ Len(topIn) \in Nat
      /\ Len(topOut) \in Nat /\ Cardinality(answered) \in Nat
      /\ topTransactions \in Seq(Transaction) /\ topIn \in Seq(TopReq)
      /\ DOMAIN topTransactions = 1 .. Len(topTransactions)
      /\ DOMAIN topIn = 1 .. Len(topIn)
  BY LenProperties, FS_CardinalityType DEF TypeOK, LedgerInv, CountInv
<1>2. /\ Len(Asked) = Len(topTransactions) + Len(topIn)
      /\ \A i \in 1 .. Len(topTransactions) :
           Asked[i] = Request(topTransactions[i])
      /\ \A i \in 1 .. Len(topIn) : Asked[Len(topTransactions) + i] = topIn[i]
  BY <1>1, AskedOfProps, AskedIs
<1> HIDE DEF Asked
<1>3. /\ n \in Nat /\ issued \in Nat
      /\ issued = n + Len(topTransactions) + Len(topIn)
      /\ \A i \in 1 .. Len(Asked) : Asked[i].id = n + i
  <2>1. /\ issued \in Nat /\ Len(Asked) =< issued
        /\ \A i \in 1 .. Len(Asked) : Asked[i].id = issued - Len(Asked) + i
    BY DEF TypeOK, LedgerInv, UpInv
  <2>2. Len(Asked) \in Nat
    BY <1>1, <1>2
  <2> QED
    BY <1>1, <1>2, <2>1, <2>2
<1>4. here = n + 1 .. issued
  <2>1. ASSUME NEW i \in 1 .. Len(topTransactions)
        PROVE  topTransactions[i].id = n + i
    <3>1. i \in 1 .. Len(Asked)
      BY <1>1, <1>2
    <3>2. Asked[i].id = topTransactions[i].id
      <4>1. Asked[i] = Request(topTransactions[i])
        BY <1>2
      <4> QED
        BY <4>1 DEF Request
    <3> QED
      BY <1>3, <3>1, <3>2
  <2>2. ASSUME NEW i \in 1 .. Len(topIn)
        PROVE  topIn[i].id = n + Len(topTransactions) + i
    <3>1. Len(topTransactions) + i \in 1 .. Len(Asked)
      BY <1>1, <1>2
    <3>2. Asked[Len(topTransactions) + i].id = n + (Len(topTransactions) + i)
      BY <1>3, <3>1
    <3> QED
      BY <1>1, <1>2, <1>3, <3>2
  <2>3. ASSUME NEW x \in here PROVE x \in n + 1 .. issued
    <3>1. CASE \E i \in 1 .. Len(topTransactions) : x = topTransactions[i].id
      BY <1>1, <1>2, <1>3, <2>1, <3>1
    <3>2. CASE \E i \in 1 .. Len(topIn) : x = topIn[i].id
      BY <1>1, <1>2, <1>3, <2>2, <3>2
    <3> QED
      BY <1>1, <3>1, <3>2 DEF ToSet
  <2>4. ASSUME NEW x \in n + 1 .. issued PROVE x \in here
    <3>1. CASE x =< n + Len(topTransactions)
      <4>1. /\ x - n \in 1 .. Len(topTransactions) /\ x = n + (x - n)
        <5>1. n \in Nat /\ x \in Int /\ n + 1 =< x
          BY <1>3
        <5> HIDE DEF n
        <5> QED
          BY <1>1, <3>1, <5>1
      <4>2. topTransactions[x - n].id = x
        BY <2>1, <4>1
      <4>3. topTransactions[x - n] \in ToSet(topTransactions)
        BY <1>1, <4>1 DEF ToSet
      <4> QED
        BY <4>2, <4>3
    <3>2. CASE ~(x =< n + Len(topTransactions))
      <4> DEFINE i == x - (n + Len(topTransactions))
      <4>1. i \in 1 .. Len(topIn) /\ x = n + Len(topTransactions) + i
        <5>1. /\ n \in Nat /\ x \in Int
              /\ x =< n + Len(topTransactions) + Len(topIn)
              /\ Len(topTransactions) \in Nat /\ Len(topIn) \in Nat
          BY <1>1, <1>3
        <5> HIDE DEF n
        <5> QED
          BY <3>2, <5>1
      <4> HIDE DEF i
      <4>2. topIn[i].id = x
        BY <2>2, <4>1
      <4>3. topIn[i] \in ToSet(topIn)
        BY <1>1, <4>1 DEF ToSet
      <4> QED
        BY <4>2, <4>3
    <3> QED
      BY <3>1, <3>2
  <2> QED
    BY <2>3, <2>4
<1>5. low = {p.OrigReqID : p \in Waiting}
  BY DEF ReadsBelow, Waiting, ToSet
<1>6. low \cup out = 1 .. n
  <2>1. Served(Waiting, ToSet(topOut), answered, n)
    BY DEF LedgerInv, UpInv
  <2> HIDE DEF n, low
  <2> QED
    BY <1>5, <2>1 DEF Served
<1>7. here \cup low \cup out = 1 .. issued
  <2>1. n =< issued
    BY <1>1, <1>2, <1>3
  <2> HIDE DEF here, low, out, n
  <2> QED
    BY <1>3, <1>4, <1>6, <2>1
<1>8. Len(topIn) + Len(topTransactions) + Cardinality(ReadsBelow)
        + Len(topOut) + Cardinality(answered) = issued
  <2>1. Cardinality(ReadsBelow) \in Nat
    BY CountsArePositions, PositionsFinite DEF TypeOK, ReadsBelow
  <2>2. Cardinality(ReadsBelow) + Len(topOut) + Cardinality(answered) = n
    BY DEF LedgerInv, CountInv
  <2>3. /\ n \in Nat /\ issued = n + Len(topTransactions) + Len(topIn)
        /\ Len(topTransactions) \in Nat /\ Len(topIn) \in Nat
        /\ Len(topOut) \in Nat /\ Cardinality(answered) \in Nat
    BY <1>1, <1>3
  <2> HIDE DEF n
  <2> QED
    BY <2>1, <2>2, <2>3
<1> QED
  BY <1>7, <1>8 DEF AnsweredOnce

\* The ledger of the lower side is PendingMatchesBelow.
LEMMA LedgerMatchesBelow ==
  ASSUME TypeOK, LedgerInv
  PROVE  PendingMatchesBelow
<1> DEFINE P == ToSet(pendingBottom)
           B == ToSet(bottomIn)
<1>1. /\ P \in SUBSET PendingBottom /\ Sent \in SUBSET TopReq
      /\ B \in SUBSET TopRsp
  BY LedgerTypes
<1>2. Ledger(P, Sent, B, BottomSendCount)
  BY DEF LedgerInv, LowInv
<1> HIDE DEF P, B
<1>3. {p.BottomReqID : p \in {q \in P : q.IsEviction = TRUE}}
        = {r.id : r \in {q \in Sent : q.kind = "WriteReq"}}
            \cup {r.rspTo : r \in {q \in B : q.kind = "WriteDoneRsp"}}
  <2>1. ASSUME NEW p \in P, p.IsEviction
        PROVE  \/ \E r \in Sent : r.kind = "WriteReq" /\ r.id = p.BottomReqID
               \/ \E r \in B : r.kind = "WriteDoneRsp" /\ r.rspTo = p.BottomReqID
    BY <1>2, <2>1 DEF Ledger
  <2>2. ASSUME NEW r \in Sent, r.kind = "WriteReq"
        PROVE  \E p \in P : p.IsEviction /\ r.id = p.BottomReqID
    BY <1>2, <2>2 DEF Ledger
  <2>3. ASSUME NEW r \in B, r.kind = "WriteDoneRsp"
        PROVE  \E p \in P : p.IsEviction /\ r.rspTo = p.BottomReqID
    BY <1>2, <2>3 DEF Ledger
  <2>4. \A p \in P : p.IsEviction = TRUE <=> p.IsEviction
    BY <1>1 DEF PendingBottom
  <2> QED
    BY <2>1, <2>2, <2>3, <2>4
<1>4. {p.BottomReqID : p \in {q \in P : q.IsEviction = FALSE}}
        = {r.id : r \in {q \in Sent : q.kind = "ReadReq"}}
            \cup {r.rspTo : r \in {q \in B : q.kind = "DataReadyRsp"}}
  <2>0. /\ \A r \in Sent : r.kind = "ReadReq" <=> r.kind # "WriteReq"
        /\ \A r \in B : r.kind = "DataReadyRsp" <=> r.kind # "WriteDoneRsp"
        /\ \A p \in P : p.IsEviction = FALSE <=> ~p.IsEviction
    BY <1>1 DEF TopReq, TopRsp, PendingBottom
  <2>1. ASSUME NEW p \in P, ~p.IsEviction
        PROVE  \/ \E r \in Sent : r.kind = "ReadReq" /\ r.id = p.BottomReqID
               \/ \E r \in B : r.kind = "DataReadyRsp" /\ r.rspTo = p.BottomReqID
    BY <1>2, <2>0, <2>1 DEF Ledger
  <2>2. ASSUME NEW r \in Sent, r.kind = "ReadReq"
        PROVE  \E p \in P : ~p.IsEviction /\ r.id = p.BottomReqID
    BY <1>2, <2>0, <2>2 DEF Ledger
  <2>3. ASSUME NEW r \in B, r.kind = "DataReadyRsp"
        PROVE  \E p \in P : ~p.IsEviction /\ r.rspTo = p.BottomReqID
    BY <1>2, <2>0, <2>3 DEF Ledger
  <2> QED
    BY <2>0, <2>1, <2>2, <2>3
<1>5. Len(pendingBottom) = Len(bottomOut) + Len(lowReqs) + Len(bottomIn)
  <2>1. Len(bottomOut) \in Nat /\ Len(lowReqs) \in Nat /\ Len(bottomIn) \in Nat
    BY LenProperties DEF TypeOK
  <2>2. Len(pendingBottom) = Len(lowReqs) + Len(bottomOut) + Len(bottomIn)
    BY DEF LedgerInv, LowInv
  <2> QED
    BY <2>1, <2>2
<1>6. Sent = ToSet(bottomOut) \cup ToSet(lowReqs)
  BY DEF Sent
<1> QED
  BY <1>3, <1>4, <1>5, <1>6 DEF PendingMatchesBelow, P, B

\* Whatever was stalled, retried or answered late, every request is in exactly
\* one place, the pending table lists exactly what is below, and every read is
\* counted once: for any number of requests and any sizes.
THEOREM RequestsStayAccounted == Spec => []RequestsAccounted
<1>1. TypeOK /\ LedgerInv => RequestsAccounted
  BY LedgerAnsweredOnce, LedgerMatchesBelow
  DEF LedgerInv, CountInv, RequestsAccounted
<1>2. Spec => []TypeOK
  BY TypeInit, TypeStep, PTL DEF Spec
<1> QED
  BY <1>1, <1>2, LedgerInvHolds, PTL

(***************************************************************************)
(* The refinement of LruBuffer                                             *)
(*                                                                         *)
(* LruClockStrict makes the order of the last access times strict, so the  *)
(* occupied slots have exactly one listing by age (ByAge), and each handler*)
(* changes that listing the way the list changes.  The pairs of queues of  *)
(* the component are one queue each: asked are the transactions followed by*)
(* the top port's buffer, below what the low module holds followed by the  *)
(* bottom port's buffer.                                                   *)
(***************************************************************************)
(***************************************************************************)
(* Sorted listings of a set                                                *)
(***************************************************************************)
\* Sequence s lists the set O, least time T first.
Sorts(s, O, T) ==
  /\ s \in [1 .. Cardinality(O) -> O]
  /\ \A j, k \in DOMAIN s : j < k => T[s[j]] < T[s[k]]

\* A sorted list is strictly increasing, so it repeats nothing; it is as long as
\* O has elements, so it leaves nothing out.
LEMMA SortsOnto ==
  ASSUME NEW O, IsFiniteSet(O), NEW T, \A o \in O : T[o] \in Nat,
         NEW s, Sorts(s, O, T)
  PROVE  /\ s \in Seq(O) /\ Len(s) = Cardinality(O) /\ Cardinality(O) \in Nat
         /\ \A j, k \in 1 .. Len(s) : s[j] = s[k] => j = k
         /\ \A o \in O : \E j \in 1 .. Len(s) : s[j] = o
         /\ \A j \in 1 .. Len(s) : s[j] \in O
         /\ \A j, k \in 1 .. Len(s) : j < k => T[s[j]] < T[s[k]]
<1> DEFINE n == Cardinality(O)
<1>1. n \in Nat
  BY FS_CardinalityType
<1>2. s \in [1 .. n -> O]
  BY DEF Sorts
<1> HIDE DEF n
<1>3. s \in Seq(O) /\ Len(s) = n
  <2>1. s \in Seq(O)
    BY <1>1, <1>2, SeqDef
  <2>2. Len(s) \in Nat /\ DOMAIN s = 1 .. Len(s)
    BY <2>1, LenProperties
  <2> QED
    BY <1>1, <1>2, <2>1, <2>2
<1>4. ASSUME NEW j \in 1 .. n, NEW k \in 1 .. n, s[j] = s[k] PROVE j = k
  <2>1. j \in DOMAIN s /\ k \in DOMAIN s
    BY <1>2
  <2>2. T[s[j]] \in Nat /\ T[s[k]] \in Nat
    BY <1>2
  <2>3. ~(T[s[j]] < T[s[k]]) /\ ~(T[s[k]] < T[s[j]])
    BY <1>4, <2>2
  <2>4. ~(j < k) /\ ~(k < j)
    BY <2>1, <2>3 DEF Sorts
  <2> QED
    BY <2>4
<1>5. Cardinality(1 .. n) = n
  BY <1>1, FS_Interval
<1>6. s \in Injection(1 .. n, O)
  BY <1>2, <1>4 DEF Injection, IsInjective
<1>7. s \in Surjection(1 .. n, O)
  BY <1>5, <1>6, FS_Injection DEF n
<1>8. \A o \in O : \E j \in 1 .. n : s[j] = o
  BY <1>7 DEF Surjection
<1>9. /\ \A j \in 1 .. n : s[j] \in O
      /\ \A j, k \in 1 .. n : j < k => T[s[j]] < T[s[k]]
  BY <1>2 DEF Sorts
<1> QED
  BY <1>1, <1>3, <1>4, <1>8, <1>9 DEF n

\* There is one sorted list only: at the first difference each of the two would
\* hold an element older than the other's.
LEMMA SortsUnique ==
  ASSUME NEW O, IsFiniteSet(O), NEW T, \A o \in O : T[o] \in Nat,
         NEW s, Sorts(s, O, T), NEW r, Sorts(r, O, T)
  PROVE  s = r
<1> DEFINE n == Len(s)
<1>1. /\ s \in Seq(O) /\ n \in Nat /\ n = Cardinality(O)
      /\ \A j, k \in 1 .. n : s[j] = s[k] => j = k
      /\ \A o \in O : \E j \in 1 .. n : s[j] = o
      /\ \A j \in 1 .. n : s[j] \in O
      /\ \A j, k \in 1 .. n : j < k => T[s[j]] < T[s[k]]
  <2>1. s \in Seq(O) /\ Len(s) = Cardinality(O) /\ Cardinality(O) \in Nat
    BY SortsOnto
  <2>2. /\ \A j, k \in 1 .. Len(s) : s[j] = s[k] => j = k
        /\ \A o \in O : \E j \in 1 .. Len(s) : s[j] = o
    BY SortsOnto
  <2>3. /\ \A j \in 1 .. Len(s) : s[j] \in O
        /\ \A j, k \in 1 .. Len(s) : j < k => T[s[j]] < T[s[k]]
    BY SortsOnto
  <2> QED
    BY <2>1, <2>2, <2>3
<1>2. /\ r \in Seq(O) /\ Len(r) = Cardinality(O)
      /\ \A j, k \in 1 .. Len(r) : r[j] = r[k] => j = k
      /\ \A o \in O : \E j \in 1 .. Len(r) : r[j] = o
      /\ \A j \in 1 .. Len(r) : r[j] \in O
      /\ \A j, k \in 1 .. Len(r) : j < k => T[r[j]] < T[r[k]]
  BY SortsOnto
<1> HIDE DEF n
<1>3. Len(r) = n
  BY <1>1, <1>2
<1> DEFINE D == {j \in 1 .. n : s[j] # r[j]}
<1>4. ASSUME D # {} PROVE FALSE
  <2> DEFINE m == Min(D)
  <2>1. m \in D /\ \A j \in D : m <= j
    BY <1>4, MinInSet
  <2> HIDE DEF m
  <2>2. m \in 1 .. n /\ s[m] # r[m] /\ s[m] \in O /\ r[m] \in O
    BY <1>1, <1>2, <1>3, <2>1
  <2>3. \A j \in 1 .. n : j < m => s[j] = r[j]
    BY <2>1
  <2>4. PICK j \in 1 .. n : r[j] = s[m]
    BY <1>2, <1>3, <2>2
  <2>5. PICK k \in 1 .. n : s[k] = r[m]
    BY <1>1, <2>2
  <2>6. m < j
    <3>1. j # m
      BY <2>2, <2>4
    <3>2. ~(j < m)
      BY <1>1, <2>2, <2>3, <2>4
    <3> QED
      BY <2>2, <3>1, <3>2
  <2>7. m < k
    <3>1. k # m
      BY <2>2, <2>5
    <3>2. ~(k < m)
      BY <1>2, <1>3, <2>2, <2>3, <2>5
    <3> QED
      BY <2>2, <3>1, <3>2
  <2>8. T[r[m]] < T[s[m]] /\ T[s[m]] < T[r[m]]
    BY <1>1, <1>2, <1>3, <2>2, <2>4, <2>5, <2>6, <2>7
  <2>9. T[r[m]] \in Nat /\ T[s[m]] \in Nat
    BY <2>2
  <2> QED
    BY <2>8, <2>9
<1>5. \A i \in 1 .. n : s[i] = r[i]
  BY <1>4
<1> QED
  BY <1>1, <1>2, <1>3, <1>5, SeqEqual DEF n

\* Only the times of the listed elements matter.
LEMMA SortsAgree ==
  ASSUME NEW O, NEW T, NEW U, \A o \in O : U[o] = T[o], NEW s, Sorts(s, O, T)
  PROVE  Sorts(s, O, U)
BY DEF Sorts

\* Without one of its elements the list stays sorted ...
LEMMA SortsRemove ==
  ASSUME NEW O, IsFiniteSet(O), NEW T, \A o \in O : T[o] \in Nat,
         NEW s, Sorts(s, O, T), NEW p \in 1 .. Len(s)
  PROVE  /\ Sorts(RemoveAt(s, p), O \ {s[p]}, T)
         /\ RemoveAt(s, p) \in Seq(O \ {s[p]})
<1> DEFINE n == Len(s)
           r == RemoveAt(s, p)
<1>0. s \in Seq(O) /\ Len(s) = Cardinality(O) /\ Cardinality(O) \in Nat
  BY SortsOnto
<1>1. /\ s \in Seq(O) /\ n = Cardinality(O) /\ n \in Nat
      /\ p \in 1 .. n
      /\ \A j, k \in 1 .. n : s[j] = s[k] => j = k
      /\ \A j, k \in 1 .. n : j < k => T[s[j]] < T[s[k]]
      /\ \A j \in 1 .. n : s[j] \in O
  <2>1. /\ \A j, k \in 1 .. Len(s) : s[j] = s[k] => j = k
        /\ \A j \in 1 .. Len(s) : s[j] \in O
    BY SortsOnto
  <2>2. \A j, k \in 1 .. Len(s) : j < k => T[s[j]] < T[s[k]]
    BY SortsOnto
  <2> QED
    BY <1>0, <2>1, <2>2
<1>2. Cardinality(O \ {s[p]}) = n - 1
  BY <1>1, FS_RemoveElement
<1>3. /\ r \in Seq(O) /\ Len(r) = n - 1
      /\ \A i \in 1 .. n - 1 : r[i] = IF i < p THEN s[i] ELSE s[i + 1]
  BY <1>1, RemoveAtProps
<1> HIDE DEF n, r
<1>4. DOMAIN r = 1 .. n - 1
  BY <1>3, LenProperties
<1> DEFINE f(i) == IF i < p THEN i ELSE i + 1
<1>5. /\ \A i \in 1 .. n - 1 : f(i) \in 1 .. n /\ f(i) # p /\ r[i] = s[f(i)]
      /\ \A j, k \in 1 .. n - 1 : j < k => f(j) < f(k)
  BY <1>1, <1>3
<1> HIDE DEF f
<1>6. ASSUME NEW i \in 1 .. n - 1 PROVE r[i] \in O \ {s[p]}
  <2>1. f(i) \in 1 .. n /\ f(i) # p /\ r[i] = s[f(i)]
    BY <1>5
  <2>2. s[f(i)] \in O /\ s[f(i)] # s[p]
    BY <1>1, <2>1
  <2> QED
    BY <2>1, <2>2
<1>7. \A j, k \in 1 .. n - 1 : j < k => T[r[j]] < T[r[k]]
  BY <1>1, <1>5, SMTT(30)
<1>8. r \in Seq(O \ {s[p]})
  <2>1. r = [i \in 1 .. n - 1 |-> r[i]]
    BY <1>3, <1>4, SeqDef
  <2>2. n - 1 \in Nat
    BY <1>1
  <2> QED
    BY <1>6, <2>1, <2>2, IsASeq
<1>9. r \in [1 .. n - 1 -> O \ {s[p]}]
  BY <1>4, <1>6, <1>8, SeqDef
<1> QED
  BY <1>2, <1>4, <1>7, <1>8, <1>9 DEF Sorts, r

\* ... and so it does with a newer element at its end.
LEMMA SortsAppend ==
  ASSUME NEW O, IsFiniteSet(O), NEW T, \A o \in O : T[o] \in Nat,
         NEW s, Sorts(s, O, T), NEW i, i \notin O, \A o \in O : T[o] < T[i]
  PROVE  Sorts(Append(s, i), O \cup {i}, T)
<1> DEFINE n == Len(s)
           r == Append(s, i)
<1>1. /\ s \in Seq(O) /\ n = Cardinality(O) /\ n \in Nat
      /\ \A j, k \in 1 .. n : j < k => T[s[j]] < T[s[k]]
      /\ \A j \in 1 .. n : s[j] \in O
  BY SortsOnto
<1>2. Cardinality(O \cup {i}) = n + 1
  BY <1>1, FS_AddElement
<1>3. /\ r \in Seq(O \cup {i}) /\ Len(r) = n + 1
      /\ \A j \in 1 .. n : r[j] = s[j]
      /\ r[n + 1] = i
  <2>1. s \in Seq(O \cup {i})
    BY <1>1, SeqMonotonic
  <2> QED
    BY <1>1, <2>1, AppendProperties
<1> HIDE DEF n, r
<1>4. DOMAIN r = 1 .. n + 1
  BY <1>3, LenProperties
<1>5. \A j, k \in 1 .. n + 1 : j < k => T[r[j]] < T[r[k]]
  <2> SUFFICES ASSUME NEW j \in 1 .. n + 1, NEW k \in 1 .. n + 1, j < k
               PROVE  T[r[j]] < T[r[k]]
    OBVIOUS
  <2>1. j \in 1 .. n
    BY <1>1
  <2>2. CASE k \in 1 .. n
    BY <1>1, <1>3, <2>1, <2>2
  <2>3. CASE k = n + 1
    BY <1>1, <1>3, <2>1, <2>3
  <2> QED
    BY <1>1, <2>2, <2>3
<1>6. r \in [1 .. n + 1 -> O \cup {i}]
  BY <1>3, <1>4, SeqDef
<1> QED
  BY <1>2, <1>4, <1>5, <1>6 DEF Sorts, r

(***************************************************************************)
(* The occupied slots by age                                               *)
(***************************************************************************)
ValidIn(b) == {i \in Slots : b[i].Valid}
Times(b) == [i \in Slots |-> b[i].LastAccessTime]
Entry == [line : Lines, data : Data]
EntryOf(x) == [line |-> x.Tag, data |-> x.Data]
Entries(b) == [i \in Slots |-> EntryOf(b[i])]

AgeOf(b) ==
  CHOOSE s \in [1 .. Cardinality(ValidIn(b)) -> ValidIn(b)] :
    \A j, k \in DOMAIN s :
      j < k => b[s[j]].LastAccessTime < b[s[k]].LastAccessTime

ResidentOf(b) == Mapped(AgeOf(b), Entries(b))

Aged(b) == Sorts(AgeOf(b), ValidIn(b), Times(b))

\* The occupied slots are finitely many, with a time and an entry each.
LEMMA SlotsTyped ==
  ASSUME NEW b \in [Slots -> Block]
  PROVE  /\ IsFiniteSet(ValidIn(b)) /\ ValidIn(b) \subseteq Slots
         /\ \A i \in ValidIn(b) : Times(b)[i] \in Nat
         /\ Maps(Entries(b), Slots, Entry)
<1>1. IsFiniteSet(Slots) /\ ValidIn(b) \in SUBSET Slots
  BY FS_Interval, SizeAssumption DEF Slots, ValidIn
<1>2. IsFiniteSet(ValidIn(b))
  BY <1>1, FS_Subset
<1>3. \A i \in Slots : b[i] \in Block
  OBVIOUS
<1>4. \A i \in Slots : Times(b)[i] \in Nat
  BY <1>3 DEF Times, Block
<1>5. \A x \in Block : EntryOf(x) \in Entry
  BY DEF EntryOf, Entry, Block
<1>6. Entries(b) \in [Slots -> Entry]
  BY <1>3, <1>5 DEF Entries
<1> QED
  BY <1>1, <1>2, <1>4, <1>6 DEF Maps

\* Whatever lists the occupied slots by age is what ByAge chooses.
LEMMA AgeOfIs ==
  ASSUME NEW b \in [Slots -> Block], NEW s, Sorts(s, ValidIn(b), Times(b))
  PROVE  AgeOf(b) = s /\ Aged(b)
<1> DEFINE V == ValidIn(b)
           n == Cardinality(V)
           R(r) == \A j, k \in DOMAIN r :
                     j < k => b[r[j]].LastAccessTime < b[r[k]].LastAccessTime
<1>1. V \subseteq Slots
  BY SlotsTyped
<1> HIDE DEF V
<1>2. ASSUME NEW r \in [1 .. n -> V] PROVE R(r) <=> Sorts(r, V, Times(b))
  <2>1. \A j \in DOMAIN r : Times(b)[r[j]] = b[r[j]].LastAccessTime
    BY <1>1 DEF Times
  <2> QED
    BY <2>1 DEF Sorts
<1>3. s \in [1 .. n -> V] /\ R(s)
  <2>1. s \in [1 .. n -> V]
    BY DEF Sorts, V
  <2> HIDE DEF n, R
  <2> QED
    BY <1>2, <2>1 DEF V
<1> HIDE DEF n, R
<1>4. AgeOf(b) = CHOOSE r \in [1 .. n -> V] : R(r)
  BY DEF AgeOf, R, n, V
<1>5. AgeOf(b) \in [1 .. n -> V] /\ R(AgeOf(b))
  BY <1>3, <1>4
<1>6. Aged(b)
  BY <1>2, <1>5 DEF Aged, V
<1>7. AgeOf(b) = s
  BY <1>6, SortsUnique, SlotsTyped DEF Aged
<1> QED
  BY <1>6, <1>7

\* Once a list by age exists, every occupied slot has one position in it and the
\* abstract list has its entry there.
LEMMA AgedProps ==
  ASSUME NEW b \in [Slots -> Block], Aged(b)
  PROVE  /\ AgeOf(b) \in Seq(ValidIn(b)) /\ AgeOf(b) \in Seq(Slots)
         /\ Len(AgeOf(b)) = Cardinality(ValidIn(b))
         /\ \A i \in ValidIn(b) : \E p \in 1 .. Len(AgeOf(b)) : AgeOf(b)[p] = i
         /\ \A p \in 1 .. Len(AgeOf(b)) : AgeOf(b)[p] \in ValidIn(b)
         /\ ResidentOf(b) \in Seq(Entry) /\ Len(ResidentOf(b)) = Len(AgeOf(b))
         /\ Len(AgeOf(b)) \in Nat
         /\ \A p \in 1 .. Len(AgeOf(b)) :
              ResidentOf(b)[p] = EntryOf(b[AgeOf(b)[p]])
<1> DEFINE a == AgeOf(b)
           V == ValidIn(b)
<1>1. /\ IsFiniteSet(V) /\ V \subseteq Slots
      /\ \A i \in V : Times(b)[i] \in Nat
      /\ Maps(Entries(b), Slots, Entry)
  BY SlotsTyped
<1>2. Sorts(a, V, Times(b))
  BY DEF Aged
<1> HIDE DEF a, V
<1>3. /\ a \in Seq(V) /\ Len(a) = Cardinality(V)
      /\ \A i \in V : \E p \in 1 .. Len(a) : a[p] = i
      /\ \A p \in 1 .. Len(a) : a[p] \in V
  BY <1>1, <1>2, SortsOnto
<1>4. a \in Seq(Slots)
  BY <1>1, <1>3, SeqMonotonic
<1>5. /\ Mapped(a, Entries(b)) \in Seq(Entry)
      /\ Len(Mapped(a, Entries(b))) = Len(a)
      /\ Len(a) \in Nat
      /\ \A p \in 1 .. Len(a) : Mapped(a, Entries(b))[p] = Entries(b)[a[p]]
  BY <1>1, <1>4, MappedProps
<1>6. \A p \in 1 .. Len(a) : Mapped(a, Entries(b))[p] = EntryOf(b[a[p]])
  BY <1>1, <1>3, <1>5 DEF Entries
<1>7. ResidentOf(b) = Mapped(a, Entries(b))
  BY DEF ResidentOf, a
<1> QED
  BY <1>3, <1>4, <1>5, <1>6, <1>7 DEF a, V

\* An invalidated slot leaves its position, the others close up (handleRead).
LEMMA TakeInOrder ==
  ASSUME NEW b \in [Slots -> Block], NEW c \in [Slots -> Block], Aged(b),
         NEW p \in 1 .. Len(AgeOf(b)), ~c[AgeOf(b)[p]].Valid,
         \A j \in Slots \ {AgeOf(b)[p]} : c[j] = b[j]
  PROVE  Aged(c) /\ ResidentOf(c) = RemoveAt(ResidentOf(b), p)
<1> DEFINE a == AgeOf(b)
           i == a[p]
           V == ValidIn(b)
           r == RemoveAt(a, p)
<1>1. /\ IsFiniteSet(V) /\ V \subseteq Slots
      /\ \A j \in V : Times(b)[j] \in Nat
      /\ Maps(Entries(b), Slots, Entry)
  BY SlotsTyped
<1>2. Sorts(a, V, Times(b)) /\ a \in Seq(Slots) /\ i \in V
  BY AgedProps DEF Aged
<1>3. p \in 1 .. Len(a) /\ ~c[i].Valid /\ \A j \in Slots \ {i} : c[j] = b[j]
  OBVIOUS
<1>4. ValidIn(c) = V \ {i}
  BY <1>3 DEF ValidIn
<1> HIDE DEF a, V
<1>5. Sorts(r, V \ {i}, Times(b)) /\ r \in Seq(V \ {i})
  BY <1>1, <1>2, <1>3, SortsRemove
<1> HIDE DEF r, i
<1>6. \A j \in V \ {i} :
        Times(c)[j] = Times(b)[j] /\ Entries(c)[j] = Entries(b)[j]
  BY <1>1, <1>3 DEF Times, Entries
<1>7. Sorts(r, ValidIn(c), Times(c))
  BY <1>4, <1>5, <1>6, SortsAgree
<1>8. AgeOf(c) = r /\ Aged(c)
  BY <1>7, AgeOfIs
<1>9. Mapped(r, Entries(c)) = Mapped(r, Entries(b))
  BY <1>5, <1>6, MappedAgree
<1>10. Mapped(RemoveAt(a, p), Entries(b)) = RemoveAt(Mapped(a, Entries(b)), p)
  BY <1>1, <1>2, <1>3, MappedRemove
<1> QED
  BY <1>8, <1>9, <1>10 DEF ResidentOf, r, a

\* A slot filled with the newest time comes last (handleWrite, empty slot).
LEMMA PutInOrder ==
  ASSUME NEW b \in [Slots -> Block], NEW c \in [Slots -> Block], Aged(b),
         NEW i \in Slots \ ValidIn(b), c[i].Valid,
         \A j \in ValidIn(b) : b[j].LastAccessTime < c[i].LastAccessTime,
         \A j \in Slots \ {i} : c[j] = b[j]
  PROVE  Aged(c) /\ ResidentOf(c) = Append(ResidentOf(b), EntryOf(c[i]))
<1> DEFINE a == AgeOf(b)
           V == ValidIn(b)
           r == Append(a, i)
<1>1. /\ IsFiniteSet(V) /\ V \subseteq Slots
      /\ \A j \in V : Times(b)[j] \in Nat
      /\ Maps(Entries(c), Slots, Entry)
  BY SlotsTyped
<1>2. Sorts(a, V, Times(b)) /\ a \in Seq(Slots) /\ a \in Seq(V)
  BY AgedProps DEF Aged
<1>3. ValidIn(c) = V \cup {i} /\ i \notin V
  BY DEF ValidIn
<1>4. /\ \A j \in V : Times(c)[j] = Times(b)[j] /\ Entries(c)[j] = Entries(b)[j]
      /\ \A j \in V : Times(c)[j] < Times(c)[i]
      /\ Entries(c)[i] = EntryOf(c[i])
  BY <1>1, <1>3 DEF Times, Entries
<1> HIDE DEF a, V
<1>5. /\ Sorts(a, V, Times(c))
      /\ \A j \in V : Times(c)[j] \in Nat
  BY <1>1, <1>2, <1>4, SortsAgree
<1>6. Sorts(r, ValidIn(c), Times(c))
  BY <1>1, <1>3, <1>4, <1>5, SortsAppend
<1> HIDE DEF r
<1>7. AgeOf(c) = r /\ Aged(c)
  BY <1>6, AgeOfIs
<1>8. Mapped(a, Entries(c)) = Mapped(a, Entries(b))
  BY <1>2, <1>4, MappedAgree
<1>9. Mapped(Append(a, i), Entries(c)) =
        Append(Mapped(a, Entries(c)), Entries(c)[i])
  BY <1>1, <1>2, MappedAppend
<1> QED
  BY <1>4, <1>7, <1>8, <1>9 DEF ResidentOf, r, a

\* A slot written again with the newest time moves from its position to the end
\* (handleWrite, resident block and replaced block).
LEMMA RefreshInOrder ==
  ASSUME NEW b \in [Slots -> Block], NEW c \in [Slots -> Block], Aged(b),
         NEW p \in 1 .. Len(AgeOf(b)), c[AgeOf(b)[p]].Valid,
         \A j \in ValidIn(b) :
           b[j].LastAccessTime < c[AgeOf(b)[p]].LastAccessTime,
         \A j \in Slots \ {AgeOf(b)[p]} : c[j] = b[j]
  PROVE  /\ Aged(c)
         /\ ResidentOf(c) = Append(RemoveAt(ResidentOf(b), p),
                                   EntryOf(c[AgeOf(b)[p]]))
<1> DEFINE i == AgeOf(b)[p]
           d == [b EXCEPT ![i].Valid = FALSE]
<1>1. i \in Slots /\ i \in ValidIn(b)
  BY AgedProps, SlotsTyped
<1> HIDE DEF i
<1>2. /\ d \in [Slots -> Block] /\ ~d[i].Valid
      /\ \A j \in Slots \ {i} : d[j] = b[j]
  BY <1>1 DEF Block
<1> HIDE DEF d
<1>3. Aged(d) /\ ResidentOf(d) = RemoveAt(ResidentOf(b), p)
  BY <1>2, TakeInOrder DEF i
<1>4. /\ i \in Slots \ ValidIn(d) /\ \A j \in Slots \ {i} : c[j] = d[j]
      /\ \A j \in ValidIn(d) : d[j].LastAccessTime < c[i].LastAccessTime
      /\ c[i].Valid
  BY <1>1, <1>2 DEF ValidIn, i
<1>5. Aged(c) /\ ResidentOf(c) = Append(ResidentOf(d), EntryOf(c[i]))
  BY <1>2, <1>3, <1>4, PutInOrder
<1> QED
  BY <1>3, <1>5 DEF i

(***************************************************************************)
(* The refinement mapping, before and after a step                         *)
(***************************************************************************)
Listed(b) ==
  [k \in DOMAIN AgeOf(b) |-> [line |-> b[AgeOf(b)[k]].Tag,
                              data |-> b[AgeOf(b)[k]].Data]]

\* The mapped list has one entry per occupied slot, in order of age ...
LEMMA ListedIs ==
  ASSUME NEW b \in [Slots -> Block], Aged(b)
  PROVE  Listed(b) = ResidentOf(b)
<1>1. \A k \in DOMAIN AgeOf(b) : AgeOf(b)[k] \in Slots
  BY AgedProps, ElementOfSeq, LenProperties
<1>2. Listed(b) = [k \in DOMAIN AgeOf(b) |-> EntryOf(b[AgeOf(b)[k]])]
  BY DEF Listed, EntryOf
<1>3. \A k \in DOMAIN AgeOf(b) :
        Entries(b)[AgeOf(b)[k]] = EntryOf(b[AgeOf(b)[k]])
  BY <1>1 DEF Entries
<1>4. ResidentOf(b) = [k \in DOMAIN AgeOf(b) |-> Entries(b)[AgeOf(b)[k]]]
  BY DEF ResidentOf, Mapped
<1> QED
  BY <1>2, <1>3, <1>4

\* ... before a step ...
LEMMA ResidentIs == Resident = Listed(blocks) /\ ByAge = AgeOf(blocks)
<1>1. Occupied = ValidIn(blocks)
  BY DEF Occupied, ValidIn, Empty
<1>2. ByAge = AgeOf(blocks)
  BY <1>1 DEF ByAge, AgeOf
<1> QED
  BY <1>2 DEF Resident, Listed

\* ... and after it.
LEMMA ResidentNext == Resident' = Listed(blocks')
<1>1. Occupied' = ValidIn(blocks')
  BY DEF Occupied, ValidIn, Empty
<1>2. ByAge' = AgeOf(blocks')
  BY <1>1 DEF ByAge, AgeOf
<1> QED
  BY <1>2 DEF Resident, Listed

BareReq(r) == [kind |-> r.kind, line |-> r.line, data |-> r.data]

\* Leaving the IDs out of a queue commutes with every operation on it.
LEMMA BareIs ==
  ASSUME NEW q \in Seq(TopReq)
  PROVE  /\ DOMAIN Bare(q) = 1 .. Len(q)
         /\ q # <<>> => /\ Bare(q) # <<>>
                        /\ Head(Bare(q)) = BareReq(Head(q))
                        /\ Bare(Tail(q)) = Tail(Bare(q))
         /\ \A r \in TopReq : Bare(Append(q, r)) = Append(Bare(q), BareReq(r))
         /\ \A k \in 1 .. Len(q) : Bare(RemoveAt(q, k)) = RemoveAt(Bare(q), k)
<1> DEFINE e == [r \in TopReq |-> BareReq(r)]
           E == {BareReq(r) : r \in TopReq}
<1>1. Maps(e, TopReq, E) /\ \A r \in TopReq : e[r] = BareReq(r)
  BY DEF Maps
<1>2. ASSUME NEW s \in Seq(TopReq) PROVE Bare(s) = Mapped(s, e)
  <2>1. \A k \in DOMAIN s : s[k] \in TopReq
    BY ElementOfSeq, LenProperties
  <2> QED
    BY <2>1 DEF Bare, Mapped, BareReq
<1> HIDE DEF e, E
<1>3. DOMAIN Bare(q) = 1 .. Len(q)
  BY LenProperties DEF Bare
<1>4. ASSUME q # <<>>
      PROVE  /\ Bare(q) # <<>>
             /\ Head(Bare(q)) = BareReq(Head(q))
             /\ Bare(Tail(q)) = Tail(Bare(q))
  <2>1. Head(q) \in TopReq /\ Tail(q) \in Seq(TopReq)
    BY <1>4, HeadTailProperties
  <2>2. /\ Mapped(q, e) # <<>> /\ Head(Mapped(q, e)) = e[Head(q)]
        /\ Mapped(Tail(q), e) = Tail(Mapped(q, e))
    BY <1>1, <1>4, MappedTail
  <2> QED
    BY <1>1, <1>2, <2>1, <2>2
<1>5. ASSUME NEW r \in TopReq
      PROVE  Bare(Append(q, r)) = Append(Bare(q), BareReq(r))
  <2>1. Append(q, r) \in Seq(TopReq)
    BY AppendProperties
  <2>2. Mapped(Append(q, r), e) = Append(Mapped(q, e), e[r])
    BY <1>1, MappedAppend
  <2> QED
    BY <1>1, <1>2, <2>1, <2>2
<1>6. ASSUME NEW k \in 1 .. Len(q)
      PROVE  Bare(RemoveAt(q, k)) = RemoveAt(Bare(q), k)
  <2>1. RemoveAt(q, k) \in Seq(TopReq)
    BY RemoveAtProps
  <2>2. Mapped(RemoveAt(q, k), e) = RemoveAt(Mapped(q, e), k)
    BY <1>1, MappedRemove
  <2> QED
    BY <1>2, <2>1, <2>2
<1> QED
  BY <1>3, <1>4, <1>5, <1>6

\* The search of the abstract list and the search of the slots find the same
\* line: no tag is in two slots.
LEMMA PositionIs ==
  ASSUME TypeOK, UniqueTags, Aged(blocks), NEW l \in Lines
  PROVE  /\ Holding(l) = {} => Lru!Position(l) = 0
         /\ Holding(l) # {} =>
              /\ Lru!Position(l) \in 1 .. Len(AgeOf(blocks))
              /\ AgeOf(blocks)[Lru!Position(l)] = Min(Holding(l))
<1> DEFINE a == AgeOf(blocks)
           I == {k \in 1 .. Len(Resident) : Resident[k].line = l}
<1>1. blocks \in [Slots -> Block]
  BY DEF TypeOK
<1>2. /\ Resident = ResidentOf(blocks)
      /\ Len(Resident) = Len(a) /\ Len(a) \in Nat
      /\ \A i \in ValidIn(blocks) : \E p \in 1 .. Len(a) : a[p] = i
      /\ \A p \in 1 .. Len(a) : a[p] \in ValidIn(blocks)
      /\ \A p \in 1 .. Len(a) : Resident[p] = EntryOf(blocks[a[p]])
  BY <1>1, AgedProps, ListedIs, ResidentIs
<1>3. Lru!Position(l) = IF I # {} THEN Min(I) ELSE 0
  <2>1. \A S : Lru!Min(S) = Min(S)
    BY DEF Lru!Min, Min
  <2> QED
    BY <2>1 DEF Lru!Position, Lru!SelectInSeq
<1> HIDE DEF a
<1>4. \A k \in 1 .. Len(a) : Resident[k].line = blocks[a[k]].Tag
  <2>1. \A x : EntryOf(x).line = x.Tag
    BY DEF EntryOf
  <2> QED
    BY <1>2, <2>1
<1>5. \A k \in I : k \in 1 .. Len(a) /\ a[k] \in Holding(l)
  BY <1>2, <1>4 DEF Holding, ValidIn
<1>6. ASSUME Holding(l) # {}
      PROVE  /\ Min(I) \in 1 .. Len(a) /\ I # {}
             /\ a[Min(I)] = Min(Holding(l))
  <2> DEFINE i == Min(Holding(l))
  <2>1. i \in Slots /\ blocks[i].Valid /\ blocks[i].Tag = l
    BY <1>6, FirstHolding
  <2> HIDE DEF i
  <2>2. PICK p \in 1 .. Len(a) : a[p] = i
    BY <1>2, <2>1 DEF ValidIn
  <2>3. p \in I
    BY <1>2, <1>4, <2>1, <2>2
  <2>4. Min(I) \in I
    BY <2>3, MinInSet
  <2>5. a[Min(I)] \in Holding(l)
    BY <1>5, <2>4
  <2>6. \A j \in Holding(l) : j = i
    BY <2>1 DEF UniqueTags, Holding
  <2> QED
    BY <1>5, <2>3, <2>4, <2>5, <2>6 DEF i
<1> QED
  BY <1>3, <1>5, <1>6 DEF a

(***************************************************************************)
(* The simulation, action by action                                        *)
(***************************************************************************)
\* The inductive invariant of the refinement: ByAge exists, that is, the
\* occupied slots can be listed strictly by age.
AgeInv == Aged(blocks)

\* An empty cache is an empty list.
LEMMA AgeInit == Init => AgeInv /\ Lru!Init
<1> SUFFICES ASSUME Init PROVE AgeInv /\ Lru!Init
  OBVIOUS
<1>1. blocks \in [Slots -> Block] /\ ValidIn(blocks) = {}
  BY TypeInit DEF TypeOK, Init, ValidIn
<1>2. Sorts(<<>>, {}, Times(blocks))
  <2>1. Cardinality({}) = 0
    BY FS_EmptySet
  <2>2. <<>> \in [1 .. 0 -> {}] /\ DOMAIN <<>> = {}
    OBVIOUS
  <2> QED
    BY <2>1, <2>2 DEF Sorts
<1>3. AgeOf(blocks) = <<>> /\ AgeInv
  BY <1>1, <1>2, AgeOfIs DEF AgeInv
<1>4. Resident = <<>>
  BY <1>3, ResidentIs DEF Listed
<1>5. Asked = <<>> /\ Below = <<>>
  BY ConcatEmptySeq DEF Init, Asked, Below
<1>6. Bare(<<>>) = <<>>
  BY DEF Bare
<1> QED
  BY <1>3, <1>4, <1>5, <1>6 DEF Lru!Init

\* Steps that leave the slots and both queues alone are stutters.
LEMMA LruQuiet ==
  ASSUME AgeInv, blocks' = blocks, Asked' = Asked, Below' = Below
  PROVE  AgeInv' /\ UNCHANGED Lru!vars
<1>1. Resident' = Resident
  BY ResidentIs, ResidentNext
<1> QED
  BY <1>1 DEF Lru!vars, AgeInv

\* The two queues hold requests.
LEMMA BelowTyped ==
  ASSUME TypeOK
  PROVE  /\ Below \in Seq(TopReq) /\ Asked \in Seq(TopReq)
         /\ Len(lowReqs) \in Nat
BY LedgerTypes, ConcatProperties, LenProperties DEF TypeOK, Below

\* Serving the head transaction takes the first request asked ...
LEMMA LruServed ==
  ASSUME TypeOK, topTransactions # <<>>,
         topTransactions' = Tail(topTransactions), topIn' = topIn
  PROVE  /\ Bare(Asked) # <<>>
         /\ Head(Bare(Asked)) = BareReq(Head(topTransactions))
         /\ Bare(Asked)' = Tail(Bare(Asked))
         /\ Head(topTransactions) \in Transaction
<1>1. /\ topTransactions \in Seq(Transaction) /\ topIn \in Seq(TopReq)
      /\ Asked \in Seq(TopReq)
  BY BelowTyped DEF TypeOK
<1>2. Asked' = AskedOf(Tail(topTransactions), topIn)
  BY DEF Asked, AskedOf
<1>3. /\ Asked # <<>> /\ Head(Asked) = Request(Head(topTransactions))
      /\ Asked' = Tail(Asked)
  BY <1>1, <1>2, AskedTail, AskedIs
<1>4. /\ Bare(Asked) # <<>> /\ Head(Bare(Asked)) = BareReq(Head(Asked))
      /\ Bare(Tail(Asked)) = Tail(Bare(Asked))
  BY <1>1, <1>3, BareIs
<1>5. BareReq(Head(Asked)) = BareReq(Head(topTransactions))
  BY <1>3 DEF BareReq, Request
<1>6. Bare(Asked)' = Bare(Asked')
  BY DEF Bare
<1> QED
  BY <1>1, <1>3, <1>4, <1>5, <1>6, HeadTailProperties

\* ... and sending one below makes it the last one below.
LEMMA LruSent ==
  ASSUME TypeOK, lowReqs' = lowReqs, NEW r \in TopReq,
         bottomOut' = Append(bottomOut, r)
  PROVE  Bare(Below)' = Append(Bare(Below), BareReq(r))
<1>1. Below' = Append(Below, r)
  BY ConcatAppend DEF Below, TypeOK
<1>2. Bare(Below)' = Bare(Below')
  BY DEF Bare
<1> QED
  BY <1>1, <1>2, BareIs, BelowTyped

\* A request delivered to the top port is asked.
LEMMA LruAsk ==
  ASSUME TypeOK, AgeInv, NEW kind, NEW l, NEW d, TopDeliver(kind, l, d),
         [kind |-> kind, id |-> issued + 1, line |-> l, data |-> d] \in TopReq
  PROVE  AgeInv' /\ Lru!Ask(kind, l, d)
<1> DEFINE r == [kind |-> kind, id |-> issued + 1, line |-> l, data |-> d]
<1>1. /\ blocks' = blocks /\ Below' = Below
      /\ topTransactions' = topTransactions /\ topIn' = Append(topIn, r)
  BY DEF TopDeliver, Between, store, lowPort, Below
<1>2. BareReq(r) = Lru!Request(kind, l, d)
  BY DEF BareReq, Lru!Request
<1>3. r \in TopReq
  OBVIOUS
<1> HIDE DEF r
<1>4. Asked' = Append(Asked, r)
  <2>1. Asked' = AskedOf(topTransactions, Append(topIn, r))
    BY <1>1 DEF Asked, AskedOf
  <2> QED
    BY <1>3, <2>1, AskedAppend, AskedIs DEF TypeOK
<1>5. Bare(Asked)' = Append(Bare(Asked), BareReq(r))
  <2>1. Bare(Asked)' = Bare(Asked')
    BY DEF Bare
  <2> QED
    BY <1>3, <1>4, <2>1, BareIs, BelowTyped
<1>6. Bare(Below)' = Bare(Below) /\ Resident' = Resident
  BY <1>1, ResidentIs, ResidentNext DEF Bare
<1> QED
  BY <1>1, <1>2, <1>5, <1>6 DEF Lru!Ask, AgeInv

\* A request the low module answers is served below, in any order.
LEMMA LruBelowServes ==
  ASSUME TypeOK, TypeOK', AgeInv, NEW k \in DOMAIN lowReqs, NEW d,
         BottomDeliver(k, d)
  PROVE  /\ AgeInv' /\ k \in DOMAIN Bare(Below)
         /\ Lru!BelowServes(k)
<1>1. /\ blocks' = blocks /\ topTransactions' = topTransactions
      /\ topIn' = topIn /\ lowReqs' = RemoveAt(lowReqs, k)
      /\ bottomOut' = bottomOut
  BY DEF BottomDeliver, Between, store, topPort
<1>2. k \in 1 .. Len(lowReqs)
  BY LenProperties DEF TypeOK
<1>3. k \in 1 .. Len(Below) /\ Below' = RemoveAt(Below, k)
  BY <1>1, <1>2, ConcatRemove DEF Below, TypeOK
<1>4. Bare(Below)' = RemoveAt(Bare(Below), k) /\ k \in DOMAIN Bare(Below)
  <2>1. Bare(Below)' = Bare(Below')
    BY DEF Bare
  <2> QED
    BY <1>3, <2>1, BareIs, BelowTyped
<1>5. Bare(Asked)' = Bare(Asked) /\ Resident' = Resident
  BY <1>1, ResidentIs, ResidentNext DEF Bare, Asked
<1>6. Lru!RemoveAt(Bare(Below), k) = RemoveAt(Bare(Below), k)
  BY DEF Lru!RemoveAt, RemoveAt
<1> QED
  BY <1>1, <1>4, <1>5, <1>6 DEF Lru!BelowServes, AgeInv

\* The abstract list before and after a step.
LEMMA LruResident ==
  ASSUME TypeOK, TypeOK', AgeInv
  PROVE  /\ blocks \in [Slots -> Block] /\ blocks' \in [Slots -> Block]
         /\ Resident = ResidentOf(blocks)
         /\ Aged(blocks') => AgeInv' /\ Resident' = ResidentOf(blocks')
<1>1. blocks \in [Slots -> Block] /\ blocks' \in [Slots -> Block]
  BY DEF TypeOK
<1> QED
  BY <1>1, ListedIs, ResidentIs, ResidentNext DEF AgeInv

\* handleRead on a hit takes the line out of the list ...
LEMMA LruTakes ==
  ASSUME TypeOK, TypeOK', SlotInv, AgeInv, ReadHit
  PROVE  AgeInv' /\ Lru!Take
<1> DEFINE t == Head(topTransactions)
           i == Min(Holding(t.line))
           p == Lru!Position(t.line)
<1>1. /\ topTransactions # <<>> /\ t.kind = "ReadReq" /\ Holding(t.line) # {}
      /\ topTransactions' = Tail(topTransactions) /\ topIn' = topIn
      /\ blocks' = [blocks EXCEPT ![i] = Freed(blocks[i])]
      /\ Below' = Below
  BY DEF ReadHit, HeadReady, lowPort, outside, Below
<1>2. /\ Bare(Asked) # <<>> /\ Head(Bare(Asked)) = BareReq(t)
      /\ Bare(Asked)' = Tail(Bare(Asked)) /\ t \in Transaction
  BY <1>1, LruServed
<1>3. t.line \in Lines
  BY <1>2 DEF Transaction
<1>4. p \in 1 .. Len(AgeOf(blocks)) /\ AgeOf(blocks)[p] = i
  BY <1>1, <1>3, PositionIs DEF SlotInv, AgeInv
<1>5. i \in Slots
  BY <1>1, FirstHolding
<1> HIDE DEF i, p, t
<1>6. ~blocks'[i].Valid /\ \A j \in Slots \ {i} : blocks'[j] = blocks[j]
  <2>1. blocks \in [Slots -> Block] /\ blocks[i] \in Block
    BY <1>5 DEF TypeOK
  <2>2. ~Freed(blocks[i]).Valid
    BY <2>1 DEF Freed, Block
  <2> QED
    BY <1>1, <1>5, <2>1, <2>2
<1>7. Aged(blocks') /\ ResidentOf(blocks') = RemoveAt(ResidentOf(blocks), p)
  BY <1>4, <1>6, LruResident, TakeInOrder DEF AgeInv
<1>8. AgeInv' /\ Resident' = RemoveAt(Resident, p)
  BY <1>7, LruResident
<1>9. /\ BareReq(t).kind = "ReadReq" /\ BareReq(t).line = t.line
      /\ Bare(Below)' = Bare(Below)
      /\ Lru!RemoveAt(Resident, p) = RemoveAt(Resident, p) /\ p # 0
  BY <1>1, <1>4 DEF BareReq, Bare, Lru!RemoveAt, RemoveAt
<1> QED
  BY <1>2, <1>8, <1>9 DEF Lru!Take, p

\* ... and on a miss passes the read on.
LEMMA LruPasses ==
  ASSUME TypeOK, TypeOK', SlotInv, AgeInv, ReadMiss
  PROVE  AgeInv' /\ Lru!Take
<1> DEFINE t == Head(topTransactions)
           r == [kind |-> "ReadReq", id |-> FreshID, line |-> t.line,
                 data |-> NoData]
<1>1. /\ topTransactions # <<>> /\ t.kind = "ReadReq" /\ Holding(t.line) = {}
      /\ topTransactions' = Tail(topTransactions) /\ topIn' = topIn
      /\ blocks' = blocks /\ lowReqs' = lowReqs
      /\ bottomOut' = Append(bottomOut, r)
  BY DEF ReadMiss, SendReadBelow, HeadReady, store, topPort, outside
<1>2. /\ Bare(Asked) # <<>> /\ Head(Bare(Asked)) = BareReq(t)
      /\ Bare(Asked)' = Tail(Bare(Asked)) /\ t \in Transaction
  BY <1>1, LruServed
<1>3. t.line \in Lines /\ t.data = NoData /\ FreshID \in Nat
  <2>1. BottomSendCount \in Nat
    BY DEF TypeOK
  <2> HIDE DEF t
  <2>2. t.line \in Lines /\ t.data = NoData
    BY <1>1, <1>2 DEF Transaction
  <2> QED
    BY <2>1, <2>2 DEF FreshID
<1>4. Lru!Position(t.line) = 0
  BY <1>1, <1>3, PositionIs DEF SlotInv, AgeInv
<1>5. r \in TopReq /\ BareReq(r) = BareReq(t)
  BY <1>1, <1>3 DEF TopReq, BareReq
<1>6. Bare(Below)' = Append(Bare(Below), BareReq(t))
  BY <1>1, <1>5, LruSent
<1>7. Resident' = Resident /\ AgeInv'
  BY <1>1, ResidentIs, ResidentNext DEF AgeInv
<1>8. BareReq(t).kind = "ReadReq" /\ BareReq(t).line = t.line
  BY <1>1 DEF BareReq
<1> QED
  BY <1>2, <1>4, <1>6, <1>7, <1>8 DEF Lru!Take

\* What the three ways of storing a line have in common.
LEMMA LruStored ==
  ASSUME TypeOK, TypeOK', SlotInv, AgeInv, NEW i \in Slots, PutAndAck(i),
         topTransactions # <<>>, Head(topTransactions).kind = "WriteReq"
  PROVE  LET t == Head(topTransactions)
             new == [line |-> t.line, data |-> t.data]
         IN  /\ Bare(Asked) # <<>> /\ Head(Bare(Asked)) = BareReq(t)
             /\ Bare(Asked)' = Tail(Bare(Asked))
             /\ t.line \in Lines /\ BareReq(t).kind = "WriteReq"
             /\ BareReq(t).line = t.line /\ BareReq(t).data = t.data
             /\ \/ /\ ~blocks[i].Valid
                   /\ AgeInv' /\ Resident' = Append(Resident, new)
                \/ /\ blocks[i].Valid
                   /\ AgeInv'
                   /\ \E p \in 1 .. Len(AgeOf(blocks)) :
                        AgeOf(blocks)[p] = i
                   /\ \A p \in 1 .. Len(AgeOf(blocks)) :
                        AgeOf(blocks)[p] = i =>
                          Resident' = Append(RemoveAt(Resident, p), new)
<1> DEFINE t == Head(topTransactions)
           new == [line |-> t.line, data |-> t.data]
<1>1. /\ topTransactions' = Tail(topTransactions) /\ topIn' = topIn
      /\ blocks' = [blocks EXCEPT ![i] = Filled(t)]
  BY DEF PutAndAck
<1>2. /\ Bare(Asked) # <<>> /\ Head(Bare(Asked)) = BareReq(t)
      /\ Bare(Asked)' = Tail(Bare(Asked)) /\ t \in Transaction
  BY <1>1, LruServed
<1>3. /\ t.line \in Lines /\ BareReq(t).kind = "WriteReq"
      /\ BareReq(t).line = t.line /\ BareReq(t).data = t.data
  BY <1>2 DEF Transaction, BareReq
<1> HIDE DEF t
<1>4. /\ blocks'[i] = Filled(t)
      /\ \A j \in Slots \ {i} : blocks'[j] = blocks[j]
  BY <1>1 DEF TypeOK
<1>5. /\ blocks'[i].Valid /\ EntryOf(blocks'[i]) = new
      /\ blocks'[i].LastAccessTime = cycleCount
  BY <1>4 DEF Filled, EntryOf
<1>6. \A j \in ValidIn(blocks) :
        blocks[j].LastAccessTime < blocks'[i].LastAccessTime
  BY <1>5 DEF ValidIn, SlotInv, LruClockStrict
<1> HIDE DEF new
<1>7. CASE ~blocks[i].Valid
  <2>1. i \in Slots \ ValidIn(blocks)
    BY <1>7 DEF ValidIn
  <2>2. Aged(blocks') /\ ResidentOf(blocks') = Append(ResidentOf(blocks), new)
    BY <1>4, <1>5, <1>6, <2>1, LruResident, PutInOrder DEF AgeInv
  <2>3. AgeInv' /\ Resident' = Append(Resident, new)
    BY <2>2, LruResident
  <2> QED
    BY <1>2, <1>3, <1>7, <2>3 DEF t, new
<1>8. CASE blocks[i].Valid
  <2>1. PICK p \in 1 .. Len(AgeOf(blocks)) : AgeOf(blocks)[p] = i
    BY <1>8, AgedProps DEF ValidIn, AgeInv, TypeOK
  <2>2. ASSUME NEW q \in 1 .. Len(AgeOf(blocks)), AgeOf(blocks)[q] = i
        PROVE  /\ Aged(blocks')
               /\ ResidentOf(blocks') =
                    Append(RemoveAt(ResidentOf(blocks), q), new)
    BY <1>4, <1>5, <1>6, <2>2, LruResident, RefreshInOrder DEF AgeInv
  <2>3. AgeInv'
    BY <2>1, <2>2, LruResident
  <2>4. ASSUME NEW q \in 1 .. Len(AgeOf(blocks)), AgeOf(blocks)[q] = i
        PROVE  Resident' = Append(RemoveAt(Resident, q), new)
    BY <2>2, <2>4, LruResident
  <2> QED
    BY <1>2, <1>3, <1>8, <2>1, <2>3, <2>4 DEF t, new
<1> QED
  BY <1>7, <1>8

\* handleWrite with the line resident: the entry moves to the end.
LEMMA LruRefreshes ==
  ASSUME TypeOK, TypeOK', SlotInv, AgeInv, WriteResident
  PROVE  AgeInv' /\ Lru!Put
<1> DEFINE t == Head(topTransactions)
           i == Min(Holding(t.line))
           p == Lru!Position(t.line)
           new == [line |-> t.line, data |-> t.data]
<1>1. /\ topTransactions # <<>> /\ t.kind = "WriteReq" /\ PutAndAck(i)
      /\ i \in Slots /\ blocks[i].Valid /\ Holding(t.line) # {}
      /\ bottomOut' = bottomOut /\ lowReqs' = lowReqs
  BY FirstHolding DEF WriteResident, HeadReady, PutAndAck, outside
<1>2. /\ Bare(Asked) # <<>> /\ Head(Bare(Asked)) = BareReq(t)
      /\ Bare(Asked)' = Tail(Bare(Asked))
      /\ t.line \in Lines /\ BareReq(t).kind = "WriteReq"
      /\ BareReq(t).line = t.line /\ BareReq(t).data = t.data
      /\ AgeInv'
      /\ \A q \in 1 .. Len(AgeOf(blocks)) :
           AgeOf(blocks)[q] = i =>
             Resident' = Append(RemoveAt(Resident, q), new)
  BY <1>1, LruStored
<1>3. p \in 1 .. Len(AgeOf(blocks)) /\ AgeOf(blocks)[p] = i
  BY <1>1, <1>2, PositionIs DEF SlotInv, AgeInv
<1> HIDE DEF i, p, t
<1>4. Resident' = Append(RemoveAt(Resident, p), new) /\ p # 0
  BY <1>2, <1>3
<1>5. Bare(Below)' = Bare(Below)
  BY <1>1 DEF Bare, Below
<1>6. Lru!RemoveAt(Resident, p) = RemoveAt(Resident, p)
  BY DEF Lru!RemoveAt, RemoveAt
<1> QED
  BY <1>2, <1>4, <1>5, <1>6 DEF Lru!Put, p

\* handleWrite with a free slot: the list is not full and grows.
LEMMA LruFills ==
  ASSUME TypeOK, TypeOK', SlotInv, AgeInv, WriteEmpty
  PROVE  AgeInv' /\ Lru!Put
<1> DEFINE t == Head(topTransactions)
           i == Min(Empty)
           new == [line |-> t.line, data |-> t.data]
<1>1. /\ topTransactions # <<>> /\ t.kind = "WriteReq" /\ PutAndAck(i)
      /\ i \in Slots /\ ~blocks[i].Valid /\ Holding(t.line) = {}
      /\ bottomOut' = bottomOut /\ lowReqs' = lowReqs
  BY FirstEmpty DEF WriteEmpty, HeadReady, PutAndAck, outside
<1>2. /\ Bare(Asked) # <<>> /\ Head(Bare(Asked)) = BareReq(t)
      /\ Bare(Asked)' = Tail(Bare(Asked))
      /\ t.line \in Lines /\ BareReq(t).kind = "WriteReq"
      /\ BareReq(t).line = t.line /\ BareReq(t).data = t.data
      /\ AgeInv' /\ Resident' = Append(Resident, new)
  BY <1>1, LruStored
<1>3. Lru!Position(t.line) = 0
  BY <1>1, <1>2, PositionIs DEF SlotInv, AgeInv
<1>4. Len(Resident) < NumBlocks
  <2>1. Len(Resident) = Cardinality(ValidIn(blocks))
    BY LruResident, AgedProps DEF AgeInv
  <2>2. IsFiniteSet(Slots) /\ Cardinality(Slots) = NumBlocks
    BY FS_Interval, SizeAssumption DEF Slots
  <2>3. ValidIn(blocks) \in SUBSET Slots /\ ValidIn(blocks) # Slots
    BY <1>1 DEF ValidIn
  <2>4. /\ Cardinality(ValidIn(blocks)) <= Cardinality(Slots)
        /\ Cardinality(ValidIn(blocks)) # Cardinality(Slots)
        /\ Cardinality(ValidIn(blocks)) \in Nat
    BY <2>2, <2>3, FS_Subset, FS_CardinalityType
  <2> QED
    BY <2>1, <2>2, <2>4, SizeAssumption
<1> HIDE DEF i, t
<1>5. Bare(Below)' = Bare(Below)
  BY <1>1 DEF Bare, Below
<1> QED
  BY <1>2, <1>3, <1>4, <1>5 DEF Lru!Put

\* handleWrite with every slot taken: the slot LruIdx finds is the first of the
\* list and dirty, so its line goes below and nothing else does.
LEMMA LruReplaces ==
  ASSUME TypeOK, TypeOK', SlotInv, AgeInv, WriteFull
  PROVE  AgeInv' /\ Lru!Put
<1> DEFINE t == Head(topTransactions)
           i == LruIdx
           new == [line |-> t.line, data |-> t.data]
           v == blocks[i]
           r == [kind |-> "WriteReq", id |-> FreshID, line |-> v.Tag,
                 data |-> v.Data]
           a == AgeOf(blocks)
<1>0. blocks \in [Slots -> Block]
  BY DEF TypeOK
<1>1. /\ i \in Slots
      /\ \A j \in Slots : v.LastAccessTime =< blocks[j].LastAccessTime
  BY <1>0, LruIdxIsOldest
<1>2. ValidIn(blocks) = Slots /\ v.Valid /\ v.Dirty
  BY <1>1 DEF WriteFull, Empty, ValidIn, SlotInv, ResidentIsDirty
<1>3. /\ topTransactions # <<>> /\ t.kind = "WriteReq" /\ PutAndAck(i)
      /\ Holding(t.line) = {}
      /\ bottomOut' = Append(bottomOut, r) /\ lowReqs' = lowReqs
  BY <1>2 DEF WriteFull, HeadReady, PutAndAck, outside
<1>4. /\ Bare(Asked) # <<>> /\ Head(Bare(Asked)) = BareReq(t)
      /\ Bare(Asked)' = Tail(Bare(Asked))
      /\ t.line \in Lines /\ BareReq(t).kind = "WriteReq"
      /\ BareReq(t).line = t.line /\ BareReq(t).data = t.data
      /\ AgeInv'
      /\ \A q \in 1 .. Len(a) :
           a[q] = i => Resident' = Append(RemoveAt(Resident, q), new)
  BY <1>1, <1>2, <1>3, LruStored
<1>5. Lru!Position(t.line) = 0
  BY <1>3, <1>4, PositionIs DEF SlotInv, AgeInv
<1>6. /\ Sorts(a, Slots, Times(blocks)) /\ a \in Seq(Slots)
      /\ Len(a) = NumBlocks
      /\ Resident \in Seq(Entry) /\ Len(Resident) = NumBlocks
      /\ \A p \in 1 .. NumBlocks : Resident[p] = EntryOf(blocks[a[p]])
      /\ \A j \in Slots : \E p \in 1 .. NumBlocks : a[p] = j
  <2>1. Cardinality(Slots) = NumBlocks
    BY FS_Interval, SizeAssumption DEF Slots
  <2>2. /\ a \in Seq(Slots) /\ Len(a) = Cardinality(ValidIn(blocks))
        /\ \A j \in ValidIn(blocks) : \E p \in 1 .. Len(a) : a[p] = j
    BY <1>0, AgedProps DEF AgeInv
  <2>3. /\ ResidentOf(blocks) \in Seq(Entry)
        /\ Len(ResidentOf(blocks)) = Len(a)
        /\ \A p \in 1 .. Len(a) : ResidentOf(blocks)[p] = EntryOf(blocks[a[p]])
    BY <1>0, AgedProps DEF AgeInv
  <2>4. Sorts(a, ValidIn(blocks), Times(blocks))
    BY DEF AgeInv, Aged
  <2>5. Resident = ResidentOf(blocks)
    BY LruResident
  <2> HIDE DEF a, i, v
  <2> QED
    BY <1>2, <2>1, <2>2, <2>3, <2>4, <2>5
<1>7. 1 \in 1 .. NumBlocks /\ a[1] \in Slots
  BY <1>6, SizeAssumption, ElementOfSeq
<1>8. a[1] = i
  <2>1. PICK p \in 1 .. NumBlocks : a[p] = i
    BY <1>1, <1>6
  <2>2. 1 < p => Times(blocks)[a[1]] < Times(blocks)[a[p]]
    <3>1. DOMAIN a = 1 .. NumBlocks
      BY <1>6, LenProperties
    <3> QED
      BY <1>6, <1>7, <3>1 DEF Sorts
  <2>3. /\ Times(blocks)[a[1]] = blocks[a[1]].LastAccessTime
        /\ Times(blocks)[a[p]] = v.LastAccessTime
    BY <1>1, <1>7, <2>1 DEF Times
  <2>4. blocks[a[1]].LastAccessTime \in Nat /\ v.LastAccessTime \in Nat
    BY <1>0, <1>1, <1>7 DEF Block
  <2>5. ~(1 < p)
    BY <1>1, <1>7, <2>2, <2>3, <2>4
  <2> QED
    BY <2>1, <2>5, SizeAssumption
<1> HIDE DEF i, a, t, v
<1>9. Resident' = Append(Tail(Resident), new)
  <2>1. Resident # <<>>
    BY <1>6, <1>7, EmptySeq
  <2>2. Tail(Resident) = RemoveAt(Resident, 1)
    BY <1>6, <2>1, TailRemoves
  <2> QED
    BY <1>4, <1>6, <1>7, <1>8, <2>2
<1>10. Head(Resident) = EntryOf(v)
  <2>1. Resident # <<>>
    BY <1>6, <1>7, EmptySeq
  <2>2. Head(Resident) = Resident[1]
    BY <1>6, <2>1, HeadTailProperties
  <2> QED
    BY <1>6, <1>7, <1>8, <2>2 DEF v
<1>11. /\ r \in TopReq
       /\ BareReq(r) = Lru!Request("WriteReq", Head(Resident).line,
                                   Head(Resident).data)
  <2>1. v.Tag \in Lines /\ v.Data \in Data
    BY <1>0, <1>1 DEF Block, v
  <2>2. FreshID \in Nat
    BY DEF FreshID, TypeOK
  <2>3. Head(Resident).line = v.Tag /\ Head(Resident).data = v.Data
    BY <1>10 DEF EntryOf
  <2> QED
    BY <2>1, <2>2, <2>3 DEF TopReq, BareReq, Lru!Request
<1> HIDE DEF r
<1>12. Bare(Below)' = Append(Bare(Below), BareReq(r))
  BY <1>3, <1>11, LruSent
<1> QED
  BY <1>4, <1>5, <1>6, <1>9, <1>11, <1>12 DEF Lru!Put

\* Every stage of Tick is a step of the list or a stutter ...
LEMMA LruComponent ==
  ASSUME TypeOK, TypeOK', SlotInv, AgeInv, Component
  PROVE  AgeInv' /\ [Lru!Next]_(Lru!vars)
<1>1. CASE Tick
  BY <1>1, LruQuiet
    DEF Tick, Asked, Below, store, topPort, lowPort, outside
<1>2. CASE ProcessBottomResponse
  <2>1. /\ blocks' = blocks /\ topTransactions' = topTransactions
        /\ topIn' = topIn /\ lowReqs' = lowReqs /\ bottomOut' = bottomOut
    BY <1>2 DEF ProcessBottomResponse, CompleteBottomRead, CompleteBottomWrite,
                NoBottomResponse, store, topPort, lowPort, outside
  <2> QED
    BY <2>1, LruQuiet DEF Asked, Below
<1>3. CASE CountDown \/ ReceiveTopRequest
  <2>1. blocks' = blocks /\ lowReqs' = lowReqs /\ bottomOut' = bottomOut
    BY <1>3 DEF CountDown, ReceiveTopRequest, store, lowPort, outside
  <2> QED
    BY <1>3, <2>1, AskedUnmoved, LruQuiet DEF Below
<1>4. CASE ReadHit
  BY <1>4, LruTakes DEF Lru!Next
<1>5. CASE ReadMiss
  BY <1>5, LruPasses DEF Lru!Next
<1>6. CASE WriteResident
  BY <1>6, LruRefreshes DEF Lru!Next
<1>7. CASE WriteEmpty
  BY <1>7, LruFills DEF Lru!Next
<1>8. CASE WriteFull
  BY <1>8, LruReplaces DEF Lru!Next
<1>9. CASE WriteStalled \/ NothingHandled
  BY <1>9, LruQuiet DEF WriteStalled, NothingHandled, Asked, Below, store,
                        topPort, lowPort, outside
<1> QED
  BY <1>1, <1>2, <1>3, <1>4, <1>5, <1>6, <1>7, <1>8, <1>9
    DEF Component, ProcessHeadTransaction

\* ... and so is every step of the ports.
LEMMA LruEnvironment ==
  ASSUME TypeOK, TypeOK', AgeInv, Environment
  PROVE  AgeInv' /\ [Lru!Next]_(Lru!vars)
<1>1. CASE \E l \in Lines : TopDeliver("ReadReq", l, NoData)
  <2>1. PICK l \in Lines : TopDeliver("ReadReq", l, NoData)
    BY <1>1
  <2>2. [kind |-> "ReadReq", id |-> issued + 1, line |-> l, data |-> NoData]
          \in TopReq
    BY DEF TypeOK, TopReq
  <2> QED
    BY <2>1, <2>2, LruAsk DEF Lru!Next
<1>2. CASE \E l \in Lines, d \in Data : TopDeliver("WriteReq", l, d)
  <2>1. PICK l \in Lines, d \in Data : TopDeliver("WriteReq", l, d)
    BY <1>2
  <2>2. [kind |-> "WriteReq", id |-> issued + 1, line |-> l, data |-> d]
          \in TopReq
    BY DEF TypeOK, TopReq
  <2> QED
    BY <2>1, <2>2, LruAsk DEF Lru!Next
<1>3. CASE TopCollect \/ NotifyAvailable
  BY <1>3, LruQuiet DEF TopCollect, NotifyAvailable, Between, Asked, Below,
                        store, topPort, lowPort, outside
<1>4. CASE BottomCollect
  <2>1. /\ blocks' = blocks /\ topTransactions' = topTransactions
        /\ topIn' = topIn /\ bottomOut # <<>>
        /\ lowReqs' = Append(lowReqs, Head(bottomOut))
        /\ bottomOut' = Tail(bottomOut)
    BY <1>4 DEF BottomCollect, Between, store, topPort
  <2>2. Below' = Below
    BY <2>1, ConcatShift DEF Below, TypeOK
  <2> QED
    BY <2>1, <2>2, LruQuiet DEF Asked
<1>5. CASE \E k \in DOMAIN lowReqs, d \in Data : BottomDeliver(k, d)
  BY <1>5, LruBelowServes DEF Lru!Next
<1> QED
  BY <1>1, <1>2, <1>3, <1>4, <1>5 DEF Environment

\* The victim cache implements LruBuffer: the slots, the LRU clock, the four
\* stages and the ports together behave like a list that is served one request
\* at a time, in order, and that gives up its least recently put line.
THEOREM ImplementsLru == Spec => ImplementsLruBuffer
<1>1. Init => AgeInv /\ Lru!Init
  BY AgeInit
<1>2. TypeOK /\ TypeOK' /\ SlotInv /\ AgeInv /\ [Next]_vars
        => AgeInv' /\ [Lru!Next]_(Lru!vars)
  <2>1. CASE UNCHANGED vars
    BY <2>1, LruQuiet DEF vars, store, topPort, lowPort, outside, Asked, Below
  <2> QED
    BY <2>1, LruComponent, LruEnvironment DEF Next
<1> QED
  BY <1>1, <1>2, TypeCorrect, SlotInvHolds, PTL
    DEF Spec, ImplementsLruBuffer, Lru!Spec

\* In every reachable state the clock orders the occupied slots strictly, so the
\* list of the refinement is well defined.
THEOREM ByAgeSorts == Spec => []AgeInv
<1>1. Init => AgeInv
  BY AgeInit
<1>2. TypeOK /\ TypeOK' /\ SlotInv /\ AgeInv /\ [Next]_vars => AgeInv'
  <2>1. CASE UNCHANGED vars
    BY <2>1, LruQuiet DEF vars, store, topPort, lowPort, outside, Asked, Below
  <2> QED
    BY <2>1, LruComponent, LruEnvironment DEF Next
<1> QED
  BY <1>1, <1>2, TypeCorrect, SlotInvHolds, PTL DEF Spec
=============================================================================

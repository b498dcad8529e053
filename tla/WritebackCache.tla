--------------------------- MODULE WritebackCache ---------------------------
(***************************************************************************)
(* The L1: the write-back cache of mem/cache/writeback, on the directory,  *)
(* MSHR and pipelines it is built from.                                    *)
(*                                                                         *)
(* A tick runs the stages from the last to the first, mshr stage, bank,    *)
(* write buffer, directory, top parser, one request per stage and tick     *)
(* (numReqPerCycle is 1), and the component sleeps when none of them made  *)
(* progress.  A transaction is named by the number of its request; the     *)
(* objects the Go code shares by pointer (transactions, MSHR entries, data *)
(* slices) are functions of that number.                                   *)
(*                                                                         *)
(* The contents of a line are the number of the last write that reached    *)
(* it; every write touches the bytes every read asks for, and covers the   *)
(* whole line when it is "full".  The low module serves its queue in order *)
(* and after any delay.  Flushing is not part of this module.              *)
(***************************************************************************)
EXTENDS Integers, Sequences, FiniteSets, SequencesExt, Pipelining

CONSTANTS
  Lines,                \* aligned addresses
  NumBlocks,            \* blocks of the directory
  SetOf,                \* the blocks of the set a line belongs to
  NumMSHREntry, WriteBufferCapacity, MaxInflightFetch, MaxInflightEviction,
  BankLatency,          \* stages of the bank pipeline
  PortCap,              \* numReqPerCycle * 2
  MaxReqs,              \* bound: requests the upper side sends
  Script,               \* what it may choose from for each of them
  NoLine                \* no address

Slots == 1 .. NumBlocks
LaneWidth == 2  \* buildBankStages: at least two lanes

ASSUME WritebackAssumption ==
  /\ NumBlocks \in Nat \ {0}
  /\ NoLine \notin Lines
  /\ SetOf \in [Lines -> (SUBSET Slots) \ {{}}]
  /\ {NumMSHREntry, WriteBufferCapacity, MaxInflightFetch,
      MaxInflightEviction, PortCap} \subseteq Nat \ {0}
  /\ BankLatency \in Nat /\ MaxReqs \in Nat
  /\ Script \in [1 .. MaxReqs ->
                   SUBSET [write : BOOLEAN, full : BOOLEAN, line : Lines]]

VARIABLES
  awake, stage, progress,
  topIn, topOut, bottomIn, bottomOut,
  dirStageBuffer, dirBuf, dirToBank, writeBufferToBank, mshrStageBuffer,
  writeBufferBuffer,           \* the buffers between the stages
  bankPipe, bankBuf,           \* the bank's pipeline and post-pipeline buffer
  downwardInflightTransCount,
  pendingEvictions, inflightFetch, inflightEviction,
  processingMSHREntry,         \* 0 when nil
  mshr,                        \* entries the MSHR lists, by creating request
  entry,                       \* every MSHR entry object, by creating request
  blocks, storage, lru,        \* the directory and the data array
  evictingList, inFlightTransactions,
  trans,                       \* the transactions, by request
  evictingData,                \* the slice a transaction evicts
  counted,                     \* how often a read was counted (2: or more)
  reqs,                        \* the requests sent by the upper side
  answers,                     \* the responses it received
  lowReqs, mem                 \* the low module

ticker == <<awake, stage, progress>>
top    == <<topIn, topOut>>
low    == <<bottomIn, bottomOut>>
dir    == <<dirStageBuffer, dirBuf, counted>>
bank   == <<bankPipe, bankBuf, downwardInflightTransCount>>
toBank == <<dirToBank, writeBufferToBank>>
buffer == <<pendingEvictions, inflightFetch, inflightEviction>>
misses == <<mshr, entry>>
respond == <<mshrStageBuffer, processingMSHREntry>>
array  == <<blocks, storage, lru>>
work   == <<evictingList, inFlightTransactions, trans, evictingData>>
outside == <<reqs, answers, lowReqs, mem>>

vars == <<ticker, top, low, dir, bank, toBank, buffer, misses, respond,
          array, work, writeBufferBuffer, outside>>

Actions == {"invalid", "bankReadHit", "bankWriteHit", "bankEvictAndWrite",
            "bankEvictAndFetch", "bankWriteFetched", "writeBufferFetch",
            "writeBufferEvictAndFetch", "writeBufferEvictAndWrite"}
Evicting == {"bankEvictAndWrite", "bankEvictAndFetch"}

ReqID == 1 .. MaxReqs

Init ==
  /\ awake = FALSE /\ stage = "idle" /\ progress = FALSE
  /\ topIn = <<>> /\ topOut = <<>> /\ bottomIn = <<>> /\ bottomOut = <<>>
  /\ dirStageBuffer = <<>> /\ dirBuf = <<>> /\ dirToBank = <<>>
  /\ writeBufferToBank = <<>> /\ mshrStageBuffer = <<>>
  /\ writeBufferBuffer = <<>>
  /\ bankPipe = EmptyPipeline(LaneWidth, BankLatency) /\ bankBuf = <<>>
  /\ downwardInflightTransCount = 0
  /\ pendingEvictions = <<>> /\ inflightFetch = {} /\ inflightEviction = <<>>
  /\ processingMSHREntry = 0 /\ mshr = {}
  /\ entry = [t \in ReqID |-> [block |-> 0, requests |-> <<>>, data |-> 0,
                               slice |-> 0]]
  /\ blocks = [b \in Slots |-> [Tag |-> NoLine, IsValid |-> FALSE,
                                IsLocked |-> FALSE, IsDirty |-> FALSE,
                                ReadCount |-> 0]]
  /\ storage = [b \in Slots |-> 0]
  /\ lru = [i \in Slots |-> i]
  /\ evictingList = {} /\ inFlightTransactions = {}
  /\ trans = [t \in ReqID |-> [action |-> "invalid", block |-> 0,
                               evictingAddr |-> NoLine, entry |-> 0]]
  /\ evictingData = [t \in ReqID |-> 0]
  /\ counted = [t \in ReqID |-> 0]
  /\ reqs = <<>> /\ answers = {} /\ lowReqs = <<>>
  /\ mem = [l \in Lines |-> 0]

(***************************************************************************)
(* The tick                                                                *)
(***************************************************************************)
Tick ==
  /\ stage = "idle" /\ awake
  /\ awake' = FALSE /\ progress' = FALSE /\ stage' = "mshr"
  /\ UNCHANGED <<top, low, dir, bank, toBank, buffer, misses, respond, array,
                 work, writeBufferBuffer, outside>>

Step(at, next, made) ==
  /\ stage = at
  /\ stage' = next
  /\ progress' = (progress \/ made)
  /\ UNCHANGED awake

\* Mutant: an off-by-one in the room of a buffer.
RoomOneMore(buf, cap) == Len(buf) =< cap

Room(buf, cap) == Len(buf) < cap
CanSend(buf) == Room(buf, PortCap)

Write(t) == reqs[t].write
Line(t)  == reqs[t].line
FullLine(t) == Write(t) /\ reqs[t].full  \* isWritingFullLine

\* finalizeReadHit, finalizeWriteHit, respondRead and respondWrite.
Respond(t, ver) ==
  /\ topOut' = Append(topOut, [rspTo |-> t, ver |-> ver])
  /\ inFlightTransactions' = inFlightTransactions \ {t}
  /\ UNCHANGED topIn

(***************************************************************************)
(* mshrStage: answers the requests of a filled entry, one a tick.          *)
(***************************************************************************)
CurrentEntry ==
  IF processingMSHREntry # 0 THEN processingMSHREntry
  ELSE IF mshrStageBuffer # <<>> THEN Head(mshrStageBuffer) ELSE 0

\* mshrEntry.Data may be the very slice of an eviction still on its way.
EntryData(e) ==
  IF entry[e].slice # 0 THEN evictingData[entry[e].slice] ELSE entry[e].data

MshrStage ==
  /\ mshrStageBuffer' = IF processingMSHREntry = 0 /\ mshrStageBuffer # <<>>
                          THEN Tail(mshrStageBuffer) ELSE mshrStageBuffer
  /\ IF CurrentEntry # 0 /\ CanSend(topOut)
       THEN LET e == CurrentEntry
                left == Tail(entry[e].requests)
            IN /\ Respond(Head(entry[e].requests), EntryData(e))
               /\ entry' = [entry EXCEPT ![e].requests = left]
               /\ processingMSHREntry' = IF left = <<>> THEN 0 ELSE e
               /\ Step("mshr", "finalize", TRUE)
       ELSE /\ processingMSHREntry' = CurrentEntry
            /\ Step("mshr", "finalize", FALSE)
            /\ UNCHANGED <<top, inFlightTransactions, entry>>
  /\ UNCHANGED <<low, dir, bank, toBank, buffer, mshr, array, evictingList,
                 trans, evictingData, writeBufferBuffer, outside>>

(***************************************************************************)
(* bankStage                                                               *)
(***************************************************************************)
CanFinalize(t) ==
  CASE trans[t].action \in {"bankReadHit", "bankWriteHit"} -> CanSend(topOut)
    [] trans[t].action = "bankWriteFetched" -> Room(mshrStageBuffer, 1)
    [] trans[t].action \in Evicting -> Room(writeBufferBuffer, 1)

FinalizeReadHit(t) ==
  /\ trans[t].action = "bankReadHit"
  /\ Respond(t, storage[trans[t].block])
  /\ blocks' = [blocks EXCEPT ![trans[t].block].ReadCount = @ - 1]
  /\ downwardInflightTransCount' = downwardInflightTransCount - 1
  /\ UNCHANGED <<storage, evictingList, trans, evictingData, mshrStageBuffer,
                 writeBufferBuffer>>

FinalizeWriteHit(t) ==
  /\ trans[t].action = "bankWriteHit"
  /\ Respond(t, t)
  /\ storage' = [storage EXCEPT ![trans[t].block] = t]
  /\ blocks' = [blocks EXCEPT ![trans[t].block] =
                  [@ EXCEPT !.IsValid = TRUE, !.IsLocked = FALSE,
                            !.IsDirty = TRUE]]
  /\ downwardInflightTransCount' = downwardInflightTransCount - 1
  /\ UNCHANGED <<evictingList, trans, evictingData, mshrStageBuffer,
                 writeBufferBuffer>>

FinalizeBankWriteFetched(t) ==
  /\ trans[t].action = "bankWriteFetched"
  /\ LET e == trans[t].entry
         b == entry[e].block
     IN /\ mshrStageBuffer' = Append(mshrStageBuffer, e)
        /\ storage' = [storage EXCEPT ![b] = EntryData(e)]
        /\ blocks' = [blocks EXCEPT ![b].IsLocked = FALSE,
                                    ![b].IsValid = TRUE]
  /\ UNCHANGED <<top, downwardInflightTransCount, work, writeBufferBuffer>>

Released(t) == evictingList \ {trans[t].evictingAddr}

FinalizeBankEviction(t) ==
  /\ trans[t].action \in Evicting
  /\ evictingData' = [evictingData EXCEPT ![t] = storage[trans[t].block]]
  /\ trans' = [trans EXCEPT ![t].action =
                 IF @ = "bankEvictAndFetch" THEN "writeBufferEvictAndFetch"
                                            ELSE "writeBufferEvictAndWrite"]
  /\ evictingList' = Released(t)
  /\ writeBufferBuffer' = Append(writeBufferBuffer, t)
  /\ downwardInflightTransCount' = downwardInflightTransCount - 1
  /\ UNCHANGED <<top, blocks, storage, inFlightTransactions, mshrStageBuffer>>

\* The first transaction of the post-pipeline buffer that can be finished.
FinalizeTrans ==
  /\ LET k == SelectInSeq(bankBuf, CanFinalize)
     IN IF k = 0
          THEN /\ Step("finalize", "bankPipeline", FALSE)
               /\ UNCHANGED <<top, blocks, storage, work, bankBuf,
                              downwardInflightTransCount, mshrStageBuffer,
                              writeBufferBuffer>>
          ELSE /\ \/ FinalizeReadHit(bankBuf[k])
                  \/ FinalizeWriteHit(bankBuf[k])
                  \/ FinalizeBankWriteFetched(bankBuf[k])
                  \/ FinalizeBankEviction(bankBuf[k])
               /\ bankBuf' = RemoveAt(bankBuf, k)
               /\ Step("finalize", "bankPipeline", TRUE)
  /\ UNCHANGED <<low, dir, bankPipe, toBank, buffer, misses,
                 processingMSHREntry, lru, outside>>

BankPipeline ==
  /\ LET moved == TickPipeline(bankPipe, bankBuf, LaneWidth)
     IN /\ bankPipe' = moved.pipe /\ bankBuf' = moved.post
        /\ Step("bankPipeline", "pull", moved.pipe # bankPipe)
  /\ UNCHANGED <<top, low, dir, downwardInflightTransCount, toBank, buffer,
                 misses, respond, array, work, writeBufferBuffer, outside>>

AcceptInBank(t) ==
  LET next == Accept(bankPipe, bankBuf, t)
  IN bankPipe' = next.pipe /\ bankBuf' = next.post

BankFree == CanAccept(bankPipe, bankBuf, LaneWidth)

\* What came back from the write buffer goes first; the directory's requests
\* only while the write buffer has room and a lane stays free for the former.
Downward ==
  /\ writeBufferToBank = <<>> /\ dirToBank # <<>>
  /\ Room(writeBufferBuffer, 1)
  /\ downwardInflightTransCount < LaneWidth - 1

PullFromBuf ==
  /\ \/ /\ BankFree /\ writeBufferToBank # <<>>
        /\ AcceptInBank(Head(writeBufferToBank))
        /\ writeBufferToBank' = Tail(writeBufferToBank)
        /\ Step("pull", "write", TRUE)
        /\ UNCHANGED <<dirToBank, downwardInflightTransCount,
                       writeBufferBuffer>>
     \/ /\ BankFree /\ Downward
        /\ dirToBank' = Tail(dirToBank)
        /\ LET t == Head(dirToBank)
           IN IF trans[t].action = "writeBufferFetch"
                THEN /\ writeBufferBuffer' = Append(writeBufferBuffer, t)
                     /\ UNCHANGED bank
                ELSE /\ AcceptInBank(t)
                     /\ downwardInflightTransCount' =
                          downwardInflightTransCount
                            + (IF trans[t].action \in Evicting THEN 1 ELSE 0)
                     /\ UNCHANGED writeBufferBuffer
        /\ Step("pull", "write", TRUE)
        /\ UNCHANGED writeBufferToBank
     \/ /\ ~BankFree \/ (writeBufferToBank = <<>> /\ ~Downward)
        /\ Step("pull", "write", FALSE)
        /\ UNCHANGED <<bank, toBank, writeBufferBuffer>>
  /\ UNCHANGED <<top, low, dir, buffer, misses, respond, array, work, outside>>

(***************************************************************************)
(* writeBufferStage                                                        *)
(***************************************************************************)
WriteBufferFull ==
  Len(pendingEvictions) + Len(inflightEviction) >= WriteBufferCapacity

\* The oldest eviction goes below, its data by reference.
WriteStage ==
  /\ IF /\ pendingEvictions # <<>>
        /\ Len(inflightEviction) < MaxInflightEviction
        /\ CanSend(bottomOut)
       THEN LET t == Head(pendingEvictions)
            IN /\ bottomOut' = Append(bottomOut,
                     [write |-> TRUE, of |-> t,
                      line |-> trans[t].evictingAddr])
               /\ pendingEvictions' = Tail(pendingEvictions)
               /\ inflightEviction' = Append(inflightEviction, t)
               /\ Step("write", "return", TRUE)
       ELSE /\ Step("write", "return", FALSE)
            /\ UNCHANGED <<bottomOut, pendingEvictions, inflightEviction>>
  /\ UNCHANGED <<top, bottomIn, dir, bank, toBank, inflightFetch, misses,
                 respond, array, work, writeBufferBuffer, outside>>

\* combineData: the writes that wait for the line, in order, over ver.
WaitingWrites(e) ==
  Filter(entry[e].requests, {t \in DOMAIN reqs : Write(t)})

\* Mutant: only the first waiting write is combined.
CombinedFirst(e, ver) ==
  IF WaitingWrites(e) = <<>> THEN ver ELSE Head(WaitingWrites(e))

Combined(e, ver) ==
  IF WaitingWrites(e) = <<>> THEN ver ELSE Last(WaitingWrites(e))

\* The line of transaction t is there: its entry leaves the MSHR and its block
\* is dirty if a write was waiting.
Fill(t, ver, slice) ==
  LET e == trans[t].entry
      b == entry[e].block
  IN /\ entry' = [entry EXCEPT ![e].data = Combined(e, ver),
                               ![e].slice = slice]
     /\ blocks' = [blocks EXCEPT ![b].IsDirty = @ \/ WaitingWrites(e) # <<>>]
     /\ mshr' = mshr \ {e}
     /\ trans' = [trans EXCEPT ![t].action = "bankWriteFetched"]
     /\ writeBufferToBank' = Append(writeBufferToBank, t)

ProcessDataReadyRsp ==
  /\ bottomIn # <<>> /\ ~Head(bottomIn).write
  /\ Room(writeBufferToBank, 1)
  /\ Fill(Head(bottomIn).of, Head(bottomIn).ver, 0)
  /\ inflightFetch' = inflightFetch \ {Head(bottomIn).of}
  /\ bottomIn' = Tail(bottomIn)
  /\ Step("return", "new", TRUE)
  /\ UNCHANGED inflightEviction

ProcessWriteDoneRsp ==
  /\ bottomIn # <<>> /\ Head(bottomIn).write
  /\ inflightEviction' = Filter(inflightEviction,
                                ReqID \ {Head(bottomIn).of})
  /\ bottomIn' = Tail(bottomIn)
  /\ Step("return", "new", TRUE)
  /\ UNCHANGED <<inflightFetch, entry, blocks, mshr, trans,
                 writeBufferToBank>>

NoReturnRsp ==
  /\ \/ bottomIn = <<>>
     \/ /\ bottomIn # <<>> /\ ~Head(bottomIn).write
        /\ ~Room(writeBufferToBank, 1)
  /\ Step("return", "new", FALSE)
  /\ UNCHANGED <<inflightEviction, inflightFetch, bottomIn, entry, blocks,
                 mshr, trans, writeBufferToBank>>

ProcessReturnRsp ==
  /\ stage = "return"
  /\ ProcessDataReadyRsp \/ ProcessWriteDoneRsp \/ NoReturnRsp
  /\ UNCHANGED <<top, bottomOut, dir, bank, dirToBank, pendingEvictions,
                 respond, storage, lru, evictingList, inFlightTransactions,
                 evictingData, writeBufferBuffer, outside>>

\* findDataLocally: the first eviction of the line, the ones sent before the
\* ones still waiting.
LocalEvictions(l) ==
  Filter(inflightEviction \o pendingEvictions,
         {t \in ReqID : trans[t].evictingAddr = l})

\* The fetched slice is the evicted one: combineData writes into both.
FetchLocally(t) ==
  /\ trans[t].action = "writeBufferFetch"
  /\ LocalEvictions(Line(t)) # <<>> /\ Room(writeBufferToBank, 1)
  /\ LET source == Head(LocalEvictions(Line(t)))
     IN /\ Fill(t, evictingData[source], source)
        /\ evictingData' = [evictingData EXCEPT ![source] =
                              Combined(trans[t].entry, @)]
  /\ writeBufferBuffer' = Tail(writeBufferBuffer)
  /\ UNCHANGED <<bottomOut, inflightFetch, pendingEvictions>>

FetchFromBottom(t) ==
  /\ trans[t].action = "writeBufferFetch"
  /\ LocalEvictions(Line(t)) = <<>>
  /\ Cardinality(inflightFetch) < MaxInflightFetch /\ CanSend(bottomOut)
  /\ bottomOut' = Append(bottomOut, [write |-> FALSE, of |-> t,
                                     line |-> Line(t)])
  /\ inflightFetch' = inflightFetch \cup {t}
  /\ writeBufferBuffer' = Tail(writeBufferBuffer)
  /\ UNCHANGED <<misses, blocks, trans, writeBufferToBank, evictingData,
                 pendingEvictions>>

EvictAndWrite(t) ==
  /\ trans[t].action = "writeBufferEvictAndWrite"
  /\ ~WriteBufferFull /\ Room(writeBufferToBank, 1)
  /\ trans' = [trans EXCEPT ![t].action = "bankWriteHit"]
  /\ writeBufferToBank' = Append(writeBufferToBank, t)
  /\ pendingEvictions' = Append(pendingEvictions, t)
  /\ writeBufferBuffer' = Tail(writeBufferBuffer)
  /\ UNCHANGED <<bottomOut, inflightFetch, misses, blocks, evictingData>>

\* The eviction is taken, the transaction stays at the head as a fetch.
EvictAndFetch(t) ==
  /\ trans[t].action = "writeBufferEvictAndFetch"
  /\ ~WriteBufferFull
  /\ trans' = [trans EXCEPT ![t].action = "writeBufferFetch"]
  /\ pendingEvictions' = Append(pendingEvictions, t)
  /\ UNCHANGED <<bottomOut, inflightFetch, misses, blocks, evictingData,
                 writeBufferBuffer, writeBufferToBank>>

NewWaits(t) ==
  CASE trans[t].action = "writeBufferFetch" ->
         IF LocalEvictions(Line(t)) # <<>>
           THEN ~Room(writeBufferToBank, 1)
           ELSE \/ Cardinality(inflightFetch) >= MaxInflightFetch
                \/ ~CanSend(bottomOut)
    [] trans[t].action = "writeBufferEvictAndWrite" ->
         WriteBufferFull \/ ~Room(writeBufferToBank, 1)
    [] trans[t].action = "writeBufferEvictAndFetch" -> WriteBufferFull

ProcessNewTransaction ==
  /\ \/ /\ stage = "new" /\ writeBufferBuffer # <<>>
        /\ LET t == Head(writeBufferBuffer)
           IN \/ FetchLocally(t) \/ FetchFromBottom(t)
              \/ EvictAndWrite(t) \/ EvictAndFetch(t)
        /\ Step("new", "accept", TRUE)
     \/ /\ writeBufferBuffer # <<>> => NewWaits(Head(writeBufferBuffer))
        /\ Step("new", "accept", FALSE)
        /\ UNCHANGED <<bottomOut, inflightFetch, misses, blocks, trans,
                       writeBufferToBank, evictingData, pendingEvictions,
                       writeBufferBuffer>>
  /\ UNCHANGED <<top, bottomIn, dir, bank, dirToBank, inflightEviction,
                 respond, storage, lru, evictingList, inFlightTransactions,
                 outside>>

(***************************************************************************)
(* directoryStage.  Its pipeline has no stage (main.go asks for a latency  *)
(* of 0), so what it accepts is processed in the same tick.                *)
(***************************************************************************)
AcceptNewTransaction ==
  /\ LET accepts == dirStageBuffer # <<>> /\ Room(dirBuf, 1)
     IN /\ dirBuf' = IF accepts THEN Append(dirBuf, Head(dirStageBuffer))
                                ELSE dirBuf
        /\ dirStageBuffer' = IF accepts THEN Tail(dirStageBuffer)
                                        ELSE dirStageBuffer
        /\ Step("accept", "dir", accepts)
  /\ UNCHANGED <<top, low, counted, bank, toBank, buffer, misses, respond,
                 array, work, writeBufferBuffer, outside>>

Lookup(l) == {b \in SetOf[l] : blocks[b].IsValid /\ blocks[b].Tag = l}

Query(l) == {e \in mshr : Line(e) = l}

\* LRUVictimFinder: the oldest invalid block, else the oldest, that is unlocked.
FindVictim(l) ==
  LET queue == Filter(lru, SetOf[l])
      unlocked == Filter(queue, {b \in Slots : ~blocks[b].IsLocked})
      empty == Filter(unlocked, {b \in Slots : ~blocks[b].IsValid})
  IN IF empty # <<>> THEN Head(empty)
     ELSE IF unlocked # <<>> THEN Head(unlocked)
     ELSE Head(queue)

Visit(b) == lru' = Append(Filter(lru, Slots \ {b}), b)

\* The transaction leaves the directory for the bank, with block b.
ToBank(t, b) ==
  /\ Room(dirToBank, 1)
  /\ dirToBank' = Append(dirToBank, t)
  /\ dirBuf' = Tail(dirBuf)
  /\ Visit(b)

\* Mutant: the transaction joins the entry but stays in the directory's buffer.
JoinEntryAgain(t) ==
  \E e \in Query(Line(t)) :
    /\ entry' = [entry EXCEPT ![e].requests = Append(@, t)]
    /\ trans' = [trans EXCEPT ![t].entry = e]
    /\ UNCHANGED <<dirBuf, dirToBank, mshr, blocks, lru, evictingList>>

JoinEntry(t) ==
  \E e \in Query(Line(t)) :
    /\ entry' = [entry EXCEPT ![e].requests = Append(@, t)]
    /\ trans' = [trans EXCEPT ![t].entry = e]
    /\ dirBuf' = Tail(dirBuf)
    /\ UNCHANGED <<dirToBank, mshr, blocks, lru, evictingList>>

ReadFromBank(t) ==
  /\ ~Write(t) /\ Query(Line(t)) = {}
  /\ \E b \in Lookup(Line(t)) :
       /\ ~blocks[b].IsLocked
       /\ ToBank(t, b)
       /\ blocks' = [blocks EXCEPT ![b].ReadCount = @ + 1]
       /\ trans' = [trans EXCEPT ![t].block = b, ![t].action = "bankReadHit"]
  /\ UNCHANGED <<misses, evictingList>>

\* Mutant: the lock is not looked at.
UnusedByReads(b) == blocks[b].ReadCount = 0

Unused(b) == ~blocks[b].IsLocked /\ blocks[b].ReadCount = 0

WriteToBank(t, b) ==
  /\ Unused(b)
  /\ ToBank(t, b)
  /\ blocks' = [blocks EXCEPT ![b] =
                  [@ EXCEPT !.IsLocked = TRUE, !.IsValid = TRUE,
                            !.Tag = Line(t)]]
  /\ trans' = [trans EXCEPT ![t].block = b, ![t].action = "bankWriteHit"]
  /\ UNCHANGED <<misses, evictingList>>

\* mshr.Add, with t as the entry's name and first request.
AddEntry(t, b) ==
  /\ Cardinality(mshr) < NumMSHREntry
  /\ mshr' = mshr \cup {t}
  /\ entry' = [entry EXCEPT ![t].block = b, ![t].requests = <<t>>]

NeedEviction(b) == blocks[b].IsValid /\ blocks[b].IsDirty

Evict(t, b) ==
  /\ Unused(b) /\ NeedEviction(b)
  /\ ToBank(t, b)
  /\ IF FullLine(t) THEN UNCHANGED misses ELSE AddEntry(t, b)
  /\ trans' = [trans EXCEPT ![t] =
       [action |-> IF FullLine(t) THEN "bankEvictAndWrite"
                                  ELSE "bankEvictAndFetch",
        block |-> b, evictingAddr |-> blocks[b].Tag, entry |-> t]]
  /\ blocks' = [blocks EXCEPT ![b] =
                  [@ EXCEPT !.Tag = Line(t), !.IsLocked = TRUE,
                            !.IsDirty = FALSE]]
  /\ evictingList' = evictingList \cup {blocks[b].Tag}

Fetch(t, b) ==
  /\ Unused(b) /\ ~NeedEviction(b)
  /\ ToBank(t, b)
  /\ AddEntry(t, b)
  /\ trans' = [trans EXCEPT ![t].block = b, ![t].entry = t,
                            ![t].action = "writeBufferFetch"]
  /\ blocks' = [blocks EXCEPT ![b] =
                  [@ EXCEPT !.Tag = Line(t), !.IsLocked = TRUE,
                            !.IsValid = TRUE]]
  /\ UNCHANGED evictingList

\* doRead and doWrite, when they succeed.
DirDone(t) ==
  LET l == Line(t)
      victim == FindVictim(l)
      hit  == Query(l) = {} /\ Lookup(l) # {}
      miss == Query(l) = {} /\ Lookup(l) = {}
  IN \/ JoinEntry(t)
     \/ ReadFromBank(t)
     \/ hit /\ Write(t) /\ \E b \in Lookup(l) : WriteToBank(t, b)
     \/ miss /\ Evict(t, victim)
     \/ miss /\ ~FullLine(t) /\ Fetch(t, victim)
     \/ miss /\ FullLine(t) /\ ~NeedEviction(victim) /\ WriteToBank(t, victim)

DirWaits(t) ==
  LET l == Line(t)
      b == FindVictim(l)
  IN /\ Query(l) = {}
     /\ \/ ~Room(dirToBank, 1)
        \/ \E h \in Lookup(l) :
             blocks[h].IsLocked \/ (Write(t) /\ blocks[h].ReadCount > 0)
        \/ /\ Lookup(l) = {}
           /\ \/ ~Unused(b)
              \/ ~FullLine(t) /\ Cardinality(mshr) >= NumMSHREntry

\* ReadHit or ReadMiss is incremented whenever the read is looked up.
Count(t) ==
  counted' = IF Write(t) \/ Query(Line(t)) # {} \/ counted[t] = 2
               THEN counted ELSE [counted EXCEPT ![t] = @ + 1]

ProcessTransaction ==
  /\ stage = "dir"
  /\ LET blocked == dirBuf = <<>> \/ Line(Head(dirBuf)) \in evictingList
     IN \/ /\ ~blocked
           /\ DirDone(Head(dirBuf))
           /\ Count(Head(dirBuf))
           /\ Step("dir", "parse", TRUE)
        \/ /\ ~blocked => DirWaits(Head(dirBuf))
           /\ IF blocked THEN UNCHANGED counted ELSE Count(Head(dirBuf))
           /\ Step("dir", "parse", FALSE)
           /\ UNCHANGED <<dirToBank, dirBuf, lru, misses, trans, blocks,
                          evictingList>>
  /\ UNCHANGED <<top, low, dirStageBuffer, bank, writeBufferToBank, buffer,
                 respond, storage, inFlightTransactions, evictingData,
                 writeBufferBuffer, outside>>

(***************************************************************************)
(* topParser, the last stage: TickingComponent.Handle schedules another    *)
(* tick when any stage made progress.                                      *)
(***************************************************************************)
\* Mutant: only the last stage keeps the cache awake.
KeepsTickingToParse(made) == awake \/ made

KeepsTicking(made) == awake \/ progress \/ made

TopParser ==
  /\ stage = "parse"
  /\ LET parses == topIn # <<>> /\ Room(dirStageBuffer, 1)
     IN /\ IF parses
             THEN /\ dirStageBuffer' = Append(dirStageBuffer, Head(topIn))
                  /\ topIn' = Tail(topIn)
                  /\ inFlightTransactions' =
                       inFlightTransactions \cup {Head(topIn)}
             ELSE UNCHANGED <<dirStageBuffer, topIn, inFlightTransactions>>
        /\ awake' = KeepsTicking(parses)
  /\ stage' = "idle" /\ progress' = FALSE
  /\ UNCHANGED <<topOut, low, dirBuf, counted, bank, toBank, buffer, misses,
                 respond, array, evictingList, trans, evictingData,
                 writeBufferBuffer, outside>>

Component ==
  \/ Tick
  \/ MshrStage
  \/ FinalizeTrans \/ BankPipeline \/ PullFromBuf
  \/ WriteStage \/ ProcessReturnRsp \/ ProcessNewTransaction
  \/ AcceptNewTransaction \/ ProcessTransaction
  \/ TopParser

(***************************************************************************)
(* The two sides, between ticks, with the edge-triggered notifications of  *)
(* the ports.                                                              *)
(***************************************************************************)
Between ==
  /\ stage = "idle"
  /\ UNCHANGED <<stage, progress, dir, bank, toBank, buffer, misses, respond,
                 array, evictingList, inFlightTransactions, trans,
                 evictingData, writeBufferBuffer>>

\* The last write to the line that is already acknowledged.
Acknowledged(l) ==
  Max({0} \cup {a.rspTo : a \in {x \in answers :
                                  Write(x.rspTo) /\ Line(x.rspTo) = l}})

TopDeliver(r) ==
  /\ Between
  /\ Len(reqs) < MaxReqs /\ Room(topIn, PortCap)
  /\ r \in Script[Len(reqs) + 1]
  /\ reqs' = Append(reqs, [write |-> r.write, full |-> r.full,
                           line |-> r.line, floor |-> Acknowledged(r.line)])
  /\ topIn' = Append(topIn, Len(reqs) + 1)
  /\ awake' = (awake \/ topIn = <<>>)
  /\ UNCHANGED <<topOut, low, answers, lowReqs, mem>>

TopCollect ==
  /\ Between
  /\ topOut # <<>>
  /\ answers' = answers \cup {Head(topOut)}
  /\ topOut' = Tail(topOut)
  /\ awake' = (awake \/ Len(topOut) = PortCap)
  /\ UNCHANGED <<topIn, low, reqs, lowReqs, mem>>

LowAccept ==
  /\ Between
  /\ bottomOut # <<>>
  /\ lowReqs' = Append(lowReqs, Head(bottomOut))
  /\ bottomOut' = Tail(bottomOut)
  /\ awake' = (awake \/ Len(bottomOut) = PortCap)
  /\ UNCHANGED <<top, bottomIn, reqs, answers, mem>>

LowRespond ==
  /\ Between
  /\ lowReqs # <<>> /\ Room(bottomIn, PortCap)
  /\ LET r == Head(lowReqs)
     IN /\ bottomIn' = Append(bottomIn, [write |-> r.write, of |-> r.of,
                           ver |-> IF r.write THEN 0 ELSE mem[r.line]])
        /\ mem' = IF r.write THEN [mem EXCEPT ![r.line] = evictingData[r.of]]
                             ELSE mem
  /\ lowReqs' = Tail(lowReqs)
  /\ awake' = (awake \/ bottomIn = <<>>)
  /\ UNCHANGED <<top, bottomOut, reqs, answers>>

Next ==
  \/ Component
  \/ \E i \in ReqID : \E r \in Script[i] : TopDeliver(r)
  \/ TopCollect
  \/ LowAccept
  \/ LowRespond

Spec == Init /\ [][Next]_vars

\* The engine runs scheduled ticks; the connection, which only acts between
\* ticks, empties the ports; the low module answers.
Fairness ==
  /\ WF_vars(Component)
  /\ SF_vars(TopCollect)
  /\ SF_vars(LowAccept)
  /\ SF_vars(LowRespond)

FairSpec == Spec /\ Fairness

(***************************************************************************)
(* Properties                                                              *)
(***************************************************************************)
InBank == ToSet(bankBuf) \cup InPipeline(bankPipe)

\* The transactions past the directory that are not answered or filled yet.
Busy == ToSet(dirToBank) \cup InBank \cup ToSet(writeBufferBuffer)
          \cup ToSet(writeBufferToBank) \cup inflightFetch

WTypeOK ==
  /\ awake \in BOOLEAN /\ progress \in BOOLEAN
  /\ \A buf \in {dirStageBuffer, dirBuf, dirToBank, writeBufferToBank,
                 writeBufferBuffer} : buf \in Seq(ReqID) /\ Len(buf) =< 1
  /\ mshrStageBuffer \in Seq(ReqID) /\ Len(mshrStageBuffer) =< 1
  /\ {Len(topIn), Len(topOut), Len(bottomIn), Len(bottomOut)}
       \subseteq 0 .. PortCap
  /\ Len(bankBuf) =< LaneWidth
  /\ mshr \subseteq ReqID /\ Cardinality(mshr) =< NumMSHREntry
  /\ inflightFetch \subseteq ReqID
  /\ Cardinality(inflightFetch) =< MaxInflightFetch
  /\ Len(inflightEviction) =< MaxInflightEviction
  /\ Len(pendingEvictions) + Len(inflightEviction) =< WriteBufferCapacity
  /\ blocks \in [Slots -> [Tag : Lines \cup {NoLine}, IsValid : BOOLEAN,
                          IsLocked : BOOLEAN, IsDirty : BOOLEAN,
                          ReadCount : Nat]]
  /\ trans \in [ReqID -> [action : Actions, block : 0 .. NumBlocks,
                          evictingAddr : Lines \cup {NoLine},
                          entry : 0 .. MaxReqs]]

\* A block is locked exactly while one transaction is on its way to fill or
\* overwrite it: no lock is forgotten (the set would be stuck for ever), and
\* no two transactions ever own the same block.
LockHasOwner ==
  \A b \in Slots :
    Cardinality({t \in Busy : trans[t].block = b
                               /\ trans[t].action # "bankReadHit"})
      = IF blocks[b].IsLocked THEN 1 ELSE 0

\* ReadCount is the number of reads of the block on their way to the bank, so
\* none of them finds its block replaced or rewritten when it gets there.
ReadsPinTheBlock ==
  \A b \in Slots :
    LET readers == {t \in Busy : trans[t].block = b
                                  /\ trans[t].action = "bankReadHit"}
    IN /\ blocks[b].ReadCount = Cardinality(readers)
       /\ \A t \in readers : blocks[b].Tag = Line(t) /\ ~blocks[b].IsLocked

\* A line is in at most one block, and an open MSHR entry has its block locked
\* and tagged for the line: the directory and the MSHR never disagree on who
\* has the line.
OneBlockPerLine ==
  /\ \A i, j \in Slots :
       blocks[i].IsValid /\ blocks[j].IsValid /\ blocks[i].Tag = blocks[j].Tag
         => i = j
  /\ \A e \in mshr : /\ blocks[entry[e].block].IsLocked
                     /\ blocks[entry[e].block].Tag = Line(e)
                     /\ \A f \in mshr \ {e} : Line(f) # Line(e)

\* A line is held back in the directory exactly while its old contents are on
\* their way from the block to the write buffer: not a tick longer, or its
\* requests would wait for ever, and not a tick less, or a fetch would miss
\* the newest contents in the write buffer.
EvictingListMatches ==
  LET leaving == {t \in ToSet(dirToBank) \cup InBank :
                    trans[t].action \in Evicting}
  IN /\ evictingList = {trans[t].evictingAddr : t \in leaving}
     /\ Cardinality(evictingList) = Cardinality(leaving)

\* Locks, read counts, tags, the MSHR and the list of lines being evicted tell
\* one story of every block.
BlocksHeld ==
  LockHasOwner /\ ReadsPinTheBlock /\ OneBlockPerLine /\ EvictingListMatches

\* Every request is in one place: waiting for the directory, on its way
\* through the bank, in the list of one MSHR entry, or answered.
Direct == {t \in Busy : trans[t].action \in {"bankReadHit", "bankWriteHit",
                           "bankEvictAndWrite", "writeBufferEvictAndWrite"}}

AnsweredOnce ==
  LET waiting == topIn \o dirStageBuffer \o dirBuf
      queued(t) == {e \in ReqID : t \in ToSet(entry[e].requests)}
      given == ToSet(topOut) \cup answers
  IN \A t \in DOMAIN reqs :
       Cardinality({i \in DOMAIN waiting : waiting[i] = t})
         + Cardinality(Direct \cap {t}) + Cardinality(queued(t))
         + Cardinality({x \in given : x.rspTo = t})
       = 1

\* A read never returns less than a write to the line that was acknowledged
\* before the read was sent.
ReadNotStale ==
  \A x \in ToSet(topOut) \cup answers :
    ~Write(x.rspTo) => x.ver >= reqs[x.rspTo].floor

\* When the cache sleeps and nothing is left in a port or below, everything is
\* answered: no stage waits for another one for ever, and no notification that
\* would have woken the cache was missed.
QuietMeansDone ==
  /\ stage = "idle" /\ ~awake
  /\ topIn = <<>> /\ topOut = <<>> /\ bottomIn = <<>> /\ bottomOut = <<>>
  /\ lowReqs = <<>>
  => \A t \in DOMAIN reqs : \E x \in answers : x.rspTo = t

\* Every request is answered in the end.
EveryRequestAnswered ==
  \A t \in ReqID : Len(reqs) >= t ~> \E x \in answers : x.rspTo = t

\* What the report promises of the counters: the outcome of each access is
\* recorded exactly (a read is counted once).
ReadsCountedOnce == \A t \in ReqID : counted[t] =< 1
=============================================================================

----------------------------- MODULE Benchmark ------------------------------
(***************************************************************************)
(* The program of main.go, runBenchmarkWithVC: the processor, the          *)
(* write-back L1, the victim cache and the memory on one connection.       *)
(*                                                                         *)
(* Each component is the module that models it, taken whole; what the      *)
(* modules leave open at their ports is closed here by the messages the    *)
(* connection moves from one component's buffer to the next one's.  The    *)
(* serial engine handles one event at a time, so a component's tick is not *)
(* interleaved with another's, and the connection has its turn in between. *)
(*                                                                         *)
(* A request of the L1 to the victim cache is named by its place in the    *)
(* order of sending.                                                       *)
(***************************************************************************)
EXTENDS TraceCPU, SequencesExt

CONSTANTS
  MaxAccesses,          \* bound: length of a trace
  NoLine, NoData, ZeroLine,
  L1NumBlocks, SetOf, NumMSHREntry, WriteBufferCapacity, MaxInflightFetch,
  MaxInflightEviction, BankLatency, L1PortCap,
  VCNumBlocks, Latency, VCPortCap, MaxClock

ASSUME BenchmarkAssumption ==
  \A tr \in Traces : Len(tr) =< MaxAccesses

VARIABLES
  \* the L1
  l1Awake, l1Stage, l1Progress, l1TopIn, l1TopOut, l1BottomIn, l1BottomOut,
  dirStageBuffer, dirBuf, dirToBank, writeBufferToBank, mshrStageBuffer,
  writeBufferBuffer, bankPipe, bankBuf, downwardInflightTransCount,
  pendingEvictions, inflightFetch, inflightEviction, processingMSHREntry,
  mshr, entry, l1Blocks, storage, lru, evictingList, inFlightTransactions,
  trans, evictingData, counted, reqs, answers,
  l1Sent,               \* what the L1 sent to the victim cache, in order
  \* the victim cache
  vcAwake, vcStage, vcProgress, vcTopIn, vcTopOut, vcBottomIn, vcBottomOut,
  vcBlocks, topTransactions, pendingBottom, cycleCount, VCHits, VCMisses,
  BottomSendCount, vcAnswered,
  \* the memory
  memReqs, mem

L1 == INSTANCE WritebackCache WITH
  NumBlocks <- L1NumBlocks, PortCap <- L1PortCap, MaxReqs <- MaxAccesses,
  Script <- [i \in 1 .. MaxAccesses |->
               [write : BOOLEAN, full : {FALSE}, line : Lines]],
  awake <- l1Awake, stage <- l1Stage, progress <- l1Progress,
  topIn <- l1TopIn, topOut <- l1TopOut,
  bottomIn <- l1BottomIn, bottomOut <- l1BottomOut,
  blocks <- l1Blocks, lowReqs <- l1Sent

VC == INSTANCE VictimCache WITH
  NumBlocks <- VCNumBlocks, PortCap <- VCPortCap, MaxReqs <- 2 * MaxAccesses,
  Data <- 0 .. MaxAccesses, ZeroData <- 0,
  awake <- vcAwake, stage <- vcStage, progress <- vcProgress,
  topIn <- vcTopIn, topOut <- vcTopOut,
  bottomIn <- vcBottomIn, bottomOut <- vcBottomOut,
  blocks <- vcBlocks,
  issued <- Len(l1Sent), answered <- vcAnswered, lowReqs <- memReqs

l1Top    == <<l1TopIn, l1TopOut>>
l1Ticker == <<l1Awake, l1Stage, l1Progress>>
l1Stages == <<dirStageBuffer, dirBuf, dirToBank, writeBufferToBank,
              mshrStageBuffer, writeBufferBuffer, bankPipe, bankBuf,
              downwardInflightTransCount, pendingEvictions, inflightFetch,
              inflightEviction, processingMSHREntry, mshr, entry, l1Blocks,
              storage, lru, evictingList, inFlightTransactions, trans,
              evictingData, counted>>
l1Vars   == <<l1Ticker, l1Top, l1BottomIn, l1BottomOut, l1Stages, reqs,
              answers, l1Sent>>
vcBottom == <<vcBottomIn, vcBottomOut>>
vcCounts == <<VCHits, VCMisses, BottomSendCount>>
vcTicker == <<vcAwake, vcStage, vcProgress>>
vcVars   == <<vcBlocks, cycleCount, topTransactions, pendingBottom, vcCounts,
              vcTopIn, vcTopOut, vcBottom, vcTicker, vcAnswered>>
memVars  == <<memReqs, mem>>
allVars  == <<cpuVars, l1Vars, vcVars, memVars>>

BInit == Init /\ L1!Init /\ VC!Init

(***************************************************************************)
(* The ticks                                                               *)
(***************************************************************************)
CpuStep ==
  /\ l1Stage = "idle" /\ vcStage = "idle"
  /\ Component
  /\ UNCHANGED <<l1Vars, vcVars, memVars>>

\* An eviction on its way to the victim cache's slots still shares the slice
\* the L1 keeps in its write buffer.
Shared(queue) ==
  [k \in DOMAIN queue |->
     IF queue[k].kind = "WriteReq"
       THEN [queue[k] EXCEPT !.data = evictingData'[l1Sent[queue[k].id].of]]
       ELSE queue[k]]

L1Step ==
  /\ stage = "idle" /\ vcStage = "idle"
  /\ L1!Component
  /\ vcTopIn' = Shared(vcTopIn)
  /\ topTransactions' = Shared(topTransactions)
  /\ UNCHANGED <<cpuVars, l1Sent, vcBlocks, cycleCount, pendingBottom, vcCounts,
                 vcTopOut, vcBottom, vcTicker, vcAnswered, memVars>>

VCStep ==
  /\ stage = "idle" /\ l1Stage = "idle"
  /\ UNCHANGED <<cpuVars, l1Vars, memVars>>
  /\ VC!Component \/ VC!NotifyAvailable

(***************************************************************************)
(* The connection                                                          *)
(***************************************************************************)
Turn == stage = "idle" /\ l1Stage = "idle" /\ vcStage = "idle"

CpuToL1 ==
  /\ Turn
  /\ MemCollect
  /\ L1!TopDeliver([write |-> Head(memOut).IsWrite, full |-> FALSE,
                    line |-> Head(memOut).Addr])
  /\ UNCHANGED <<vcVars, memReqs>>

\* Mutant: what was delivered stays in the outgoing buffer.
L1ToCpuKept ==
  /\ Turn
  /\ l1TopOut # <<>> /\ Len(memIn) < PortCap
  /\ LET id == Head(l1TopOut).rspTo
     IN /\ memIn' = Append(memIn, [rspTo |-> id, IsWrite |-> L1!Write(id)])
        /\ below' = {r \in below : r.id # id}
  /\ awake' = (awake \/ memIn = <<>>)
  /\ Between
  /\ UNCHANGED <<memOut, l1Vars, vcVars, memVars>>

\* The L1 numbers requests in the order they arrive, the processor in the
\* order it sends them: on one port these are the same.
L1ToCpu ==
  /\ Turn
  /\ L1!TopCollect
  /\ Len(memIn) < PortCap
  /\ LET id == Head(l1TopOut).rspTo
     IN /\ memIn' = Append(memIn, [rspTo |-> id, IsWrite |-> L1!Write(id)])
        /\ below' = {r \in below : r.id # id}
  /\ awake' = (awake \/ memIn = <<>>)
  /\ Between
  /\ UNCHANGED <<memOut, vcVars, memReqs>>

L1ToVC ==
  /\ Turn
  /\ L1!LowAccept
  /\ LET r == Head(l1BottomOut)
     IN IF r.write
          THEN VC!TopDeliver("WriteReq", r.line, evictingData[r.of])
          ELSE VC!TopDeliver("ReadReq", r.line, NoData)
  /\ UNCHANGED cpuVars

VCToL1 ==
  /\ Turn
  /\ L1!Room(l1BottomIn, L1PortCap)
  /\ l1Sent' = l1Sent
  /\ VC!TopCollect
  /\ LET rsp == Head(vcTopOut)
         r == l1Sent[rsp.rspTo]
     IN l1BottomIn' = Append(l1BottomIn,
                        [write |-> r.write, of |-> r.of,
                         ver |-> IF r.write THEN 0 ELSE rsp.data])
  /\ l1Awake' = (l1Awake \/ l1BottomIn = <<>>)
  /\ L1!Between
  /\ UNCHANGED <<cpuVars, l1Top, l1BottomOut, reqs, answers, mem>>

VCToMemory ==
  /\ Turn
  /\ UNCHANGED <<cpuVars, l1Vars, mem>>
  /\ VC!BottomCollect

\* The memory serves its requests in order and its answer is carried up.
MemoryToVC ==
  /\ Turn
  /\ UNCHANGED <<cpuVars, l1Vars>>
  /\ memReqs # <<>>
  /\ VC!BottomDeliver(1, mem[Head(memReqs).line])
  /\ mem' = IF Head(memReqs).kind = "WriteReq"
              THEN [mem EXCEPT ![Head(memReqs).line] = Head(memReqs).data]
              ELSE mem

BNext ==
  \/ CpuStep \/ L1Step \/ VCStep
  \/ CpuToL1 \/ L1ToCpu \/ L1ToVC \/ VCToL1 \/ VCToMemory \/ MemoryToVC

\* The engine runs every scheduled tick, whatever else is scheduled; the
\* connection, which runs after the ticks of a cycle, moves what it can; the
\* memory answers.
BFairness ==
  /\ SF_allVars(CpuStep) /\ SF_allVars(L1Step)
  /\ SF_allVars(VCStep /\ VC!Component)
  /\ SF_allVars(CpuToL1) /\ SF_allVars(L1ToCpu) /\ SF_allVars(L1ToVC)
  /\ SF_allVars(VCToL1) /\ SF_allVars(VCToMemory) /\ SF_allVars(MemoryToVC)

BSpec == BInit /\ [][BNext]_allVars
BFairSpec == BSpec /\ BFairness

(***************************************************************************)
(* Properties                                                              *)
(***************************************************************************)
\* To the processor, the three levels below are one memory that takes its
\* requests and answers each of them once.
ServesTheCpu == CpuSpec

\* A read returns the last write the processor saw acknowledged, as long as
\* the victim cache has not yet handed a line up (what it hands up it forgets,
\* and the L1 takes it for clean).
FreshUntilAHit ==
  VCHits = 0 =>
    \A x \in ToSet(l1TopOut) \cup answers :
      ~L1!Write(x.rspTo) => x.ver >= reqs[x.rspTo].floor

\* The hits and misses of the report are final: when it is printed no fetch is
\* on its way that would be counted afterwards.
CountsAreFinal ==
  [][finished => UNCHANGED <<VCHits, VCMisses, counted>>]_allVars

\* The program gets to its report: no component waits for another one for
\* ever, and none sleeps through the message that should wake it.
ReachesItsReport == <>finished
=============================================================================

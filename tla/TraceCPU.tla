------------------------------ MODULE TraceCPU ------------------------------
(***************************************************************************)
(* The processor of tracecpu.go: it replays a trace of accesses, one at a  *)
(* time, and prints its report once, when it believes all are done.        *)
(*                                                                         *)
(* What it believes rests on two counters it decrements when it sends and  *)
(* on the requests it holds pending; the trace position moves on whether   *)
(* or not the port took the request.                                       *)
(*                                                                         *)
(* The cache it is connected to is open: it takes the requests and answers *)
(* those it took, in any order and after any delay.  Data and latencies,   *)
(* which the processor only adds up, are left out.                         *)
(***************************************************************************)
EXTENDS Integers, Sequences, FiniteSets

CONSTANTS
  Lines,    \* what an access can address
  Traces,   \* the traces the program is run with
  PortCap   \* capacity of the port's buffers (4 in the code)

Access == [IsWrite : BOOLEAN, Addr : Lines]

ASSUME TraceAssumption ==
  /\ Traces \subseteq Seq(Access)
  /\ PortCap \in Nat \ {0}

VARIABLES
  trace, traceIndex,              \* traceIndex accesses are behind
  totalWrites, totalReads,        \* accesses not sent yet
  completedWrites, completedReads,
  pendingWrites, pendingReads,    \* requests sent and not answered, by ID
  finished,
  memIn, memOut,                  \* the buffers of the port
  awake, stage, progress,
  below                           \* the requests the cache holds

position == <<trace, traceIndex, totalWrites, totalReads>>
pending  == <<pendingWrites, pendingReads>>
done     == <<completedWrites, completedReads>>
cpuVars  == <<position, pending, done, finished, memIn, memOut, awake, stage,
              progress, below>>

\* The accesses of tr after its first i, and those of them of one kind.
Rest(tr, i) == (i + 1) .. Len(tr)
OfKind(tr, isWrite, i) == {k \in Rest(tr, i) : tr[k].IsWrite = isWrite}

Request == [id : Int, IsWrite : BOOLEAN, Addr : Lines]
Response == [rspTo : Int, IsWrite : BOOLEAN]

Answer(r) == [rspTo |-> r.id, IsWrite |-> r.IsWrite]

\* NewTraceCPU, and the TickLater of main.
Init ==
  /\ trace \in Traces /\ traceIndex = 0
  /\ totalWrites = Cardinality(OfKind(trace, TRUE, 0))
  /\ totalReads = Cardinality(OfKind(trace, FALSE, 0))
  /\ completedWrites = 0 /\ completedReads = 0
  /\ pendingWrites = {} /\ pendingReads = {}
  /\ finished = FALSE
  /\ memIn = <<>> /\ memOut = <<>>
  /\ awake = TRUE /\ stage = "idle" /\ progress = FALSE
  /\ below = {}

hasPendingRequest == pendingWrites # {} \/ pendingReads # {}

(***************************************************************************)
(* Tick                                                                    *)
(***************************************************************************)
Tick ==
  /\ stage = "idle" /\ awake
  /\ awake' = FALSE
  /\ stage' = IF finished THEN "idle" ELSE "respond"
  /\ UNCHANGED <<position, pending, done, finished, memIn, memOut, progress,
                 below>>

\* processResponses: one message a tick.
ProcessWriteDone ==
  /\ stage = "respond" /\ memIn # <<>> /\ Head(memIn).IsWrite
  /\ pendingWrites' = pendingWrites \ {Head(memIn).rspTo}
  /\ completedWrites' = completedWrites + 1
  /\ memIn' = Tail(memIn)
  /\ progress' = TRUE /\ stage' = "issue"
  /\ UNCHANGED <<position, pendingReads, completedReads, finished, memOut,
                 awake, below>>

ProcessDataReady ==
  /\ stage = "respond" /\ memIn # <<>> /\ ~Head(memIn).IsWrite
  /\ pendingReads' = pendingReads \ {Head(memIn).rspTo}
  /\ completedReads' = completedReads + 1
  /\ memIn' = Tail(memIn)
  /\ progress' = TRUE /\ stage' = "issue"
  /\ UNCHANGED <<position, pendingWrites, completedWrites, finished, memOut,
                 awake, below>>

NoResponse ==
  /\ stage = "respond" /\ memIn = <<>>
  /\ stage' = "issue"
  /\ UNCHANGED <<position, pending, done, finished, memIn, memOut, awake,
                 progress, below>>

CanSend == Len(memOut) < PortCap

\* Requests are numbered in the order they are sent.
FreshID == Len(trace) - totalWrites - totalReads + 1

\* sendWrite and sendRead, when the port takes the request.
Send(op) ==
  /\ memOut' = Append(memOut, [id |-> FreshID, IsWrite |-> op.IsWrite,
                               Addr |-> op.Addr])
  /\ IF op.IsWrite
       THEN /\ pendingWrites' = pendingWrites \cup {FreshID}
            /\ totalWrites' = totalWrites - 1
            /\ UNCHANGED <<pendingReads, totalReads>>
       ELSE /\ pendingReads' = pendingReads \cup {FreshID}
            /\ totalReads' = totalReads - 1
            /\ UNCHANGED <<pendingWrites, totalWrites>>
  /\ progress' = TRUE

\* The trace moves on also when the send was refused.
Issue ==
  /\ stage = "issue"
  /\ ~hasPendingRequest /\ traceIndex < Len(trace)
  /\ IF CanSend THEN Send(trace[traceIndex + 1])
                ELSE UNCHANGED <<memOut, pending, totalWrites, totalReads,
                                 progress>>
  /\ traceIndex' = traceIndex + 1
  /\ stage' = "report"
  /\ UNCHANGED <<trace, done, finished, memIn, awake, below>>

NothingToIssue ==
  /\ stage = "issue"
  /\ hasPendingRequest \/ traceIndex >= Len(trace)
  /\ stage' = "report"
  /\ UNCHANGED <<position, pending, done, finished, memIn, memOut, awake,
                 progress, below>>

\* Mutant: what is sent is taken for done.
AllSent == totalWrites = 0 /\ totalReads = 0

AllDone == totalWrites = 0 /\ totalReads = 0 /\ ~hasPendingRequest

\* The end of Tick: the report, printed when all is done, and Handle's choice
\* whether there is another tick.
Report ==
  /\ stage = "report"
  /\ finished' = AllDone
  /\ stage' = "idle" /\ progress' = FALSE
  /\ awake' = (awake \/ progress)
  /\ UNCHANGED <<position, pending, done, memIn, memOut, below>>

Component ==
  \/ Tick
  \/ ProcessWriteDone \/ ProcessDataReady \/ NoResponse
  \/ Issue \/ NothingToIssue
  \/ Report

(***************************************************************************)
(* The port seen from the connection, between two ticks                    *)
(***************************************************************************)
Between ==
  /\ stage = "idle"
  /\ UNCHANGED <<position, pending, done, finished, stage, progress>>

MemCollect ==
  /\ Between
  /\ memOut # <<>>
  /\ below' = below \cup {Head(memOut)}
  /\ memOut' = Tail(memOut)
  /\ awake' = (awake \/ Len(memOut) = PortCap)
  /\ UNCHANGED memIn

MemDeliver(r) ==
  /\ Between
  /\ r \in below /\ Len(memIn) < PortCap
  /\ memIn' = Append(memIn, Answer(r))
  /\ below' = below \ {r}
  /\ awake' = (awake \/ memIn = <<>>)
  /\ UNCHANGED memOut

CpuNext == Component \/ MemCollect \/ \E r \in below : MemDeliver(r)

CpuSpec == Init /\ [][CpuNext]_cpuVars

(***************************************************************************)
(* Properties                                                              *)
(***************************************************************************)
TypeOK ==
  /\ trace \in Traces /\ traceIndex \in 0 .. Len(trace)
  /\ totalWrites \in Int /\ totalReads \in Int
  /\ completedWrites \in Nat /\ completedReads \in Nat
  /\ pendingWrites \in SUBSET Int /\ pendingReads \in SUBSET Int
  /\ finished \in BOOLEAN /\ awake \in BOOLEAN /\ progress \in BOOLEAN
  /\ memIn \in Seq(Response) /\ memOut \in Seq(Request)
  /\ stage \in {"idle", "respond", "issue", "report"}
  /\ below \in SUBSET Request

\* No access of the trace is skipped: the position moves on after a refused
\* send too, so this rests on the port having room whenever nothing is
\* pending.
NoAccessSkipped ==
  /\ totalWrites = Cardinality(OfKind(trace, TRUE, traceIndex))
  /\ totalReads = Cardinality(OfKind(trace, FALSE, traceIndex))

\* The report is printed when every access of the trace was sent and answered,
\* and its counts are those of the trace.
ReportIsComplete ==
  finished =>
    /\ traceIndex = Len(trace)
    /\ completedWrites = Cardinality(OfKind(trace, TRUE, 0))
    /\ completedReads = Cardinality(OfKind(trace, FALSE, 0))
    /\ memOut = <<>> /\ below = {} /\ memIn = <<>>

\* The trace is replayed whole, and reported whole.
TraceReplayed == NoAccessSkipped /\ ReportIsComplete
=============================================================================

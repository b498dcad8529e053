--------------------------- MODULE TraceCPUProofs ---------------------------
(***************************************************************************)
(* Proofs about TraceCPU, for every trace and every port capacity.         *)
(***************************************************************************)
EXTENDS TraceCPU, FiniteSetTheorems, SequenceTheorems, TLAPS

(***************************************************************************)
(* Counting the accesses that are left                                     *)
(***************************************************************************)
\* What is left of a trace is finite, and empty of both kinds only at its end.
LEMMA RestFinite ==
  ASSUME NEW tr \in Seq(Access), NEW i \in 0 .. Len(tr), NEW w \in BOOLEAN
  PROVE  /\ IsFiniteSet(OfKind(tr, w, i))
         /\ Cardinality(OfKind(tr, w, i)) \in Nat
<1>1. Len(tr) \in Nat
  BY LenProperties
<1>2. IsFiniteSet(Rest(tr, i))
  BY <1>1, FS_Interval DEF Rest
<1>3. OfKind(tr, w, i) \in SUBSET Rest(tr, i)
  BY DEF OfKind
<1> QED
  BY <1>2, <1>3, FS_Subset, FS_CardinalityType

LEMMA NothingLeft ==
  ASSUME NEW tr \in Seq(Access), NEW i \in 0 .. Len(tr),
         Cardinality(OfKind(tr, TRUE, i)) = 0,
         Cardinality(OfKind(tr, FALSE, i)) = 0
  PROVE  i = Len(tr)
<1>1. OfKind(tr, TRUE, i) = {} /\ OfKind(tr, FALSE, i) = {}
  BY RestFinite, FS_EmptySet
<1> SUFFICES ASSUME i # Len(tr) PROVE FALSE
  OBVIOUS
<1>2. Len(tr) \in Nat /\ i + 1 \in Rest(tr, i) /\ i + 1 \in 1 .. Len(tr)
  BY LenProperties DEF Rest
<1>3. tr[i + 1].IsWrite \in BOOLEAN
  <2>1. tr[i + 1] \in Access
    BY <1>2, ElementOfSeq
  <2> QED
    BY <2>1 DEF Access
<1>4. i + 1 \in OfKind(tr, TRUE, i) \/ i + 1 \in OfKind(tr, FALSE, i)
  BY <1>2, <1>3 DEF OfKind
<1> QED
  BY <1>1, <1>4

\* One step along a trace takes one access off the count of its kind.
LEMMA StepAlong ==
  ASSUME NEW tr \in Seq(Access), NEW i \in 0 .. Len(tr), i < Len(tr),
         NEW w \in BOOLEAN
  PROVE  Cardinality(OfKind(tr, w, i + 1)) =
           Cardinality(OfKind(tr, w, i))
             - (IF tr[i + 1].IsWrite = w THEN 1 ELSE 0)
<1>1. Len(tr) \in Nat
  BY LenProperties
<1>2. OfKind(tr, w, i + 1) = OfKind(tr, w, i) \ {i + 1}
  BY <1>1 DEF OfKind, Rest
<1>3. i + 1 \in OfKind(tr, w, i) <=> tr[i + 1].IsWrite = w
  BY <1>1 DEF OfKind, Rest
<1>4. /\ IsFiniteSet(OfKind(tr, w, i))
      /\ Cardinality(OfKind(tr, w, i)) \in Nat
  BY RestFinite
<1>5. Cardinality(OfKind(tr, w, i) \ {i + 1}) =
        IF i + 1 \in OfKind(tr, w, i) THEN Cardinality(OfKind(tr, w, i)) - 1
                                      ELSE Cardinality(OfKind(tr, w, i))
  BY <1>4, FS_RemoveElement
<1>6. Cardinality(OfKind(tr, w, i + 1)) = Cardinality(OfKind(tr, w, i) \ {i + 1})
  BY <1>2
<1>7. CASE tr[i + 1].IsWrite = w
  <2>1. Cardinality(OfKind(tr, w, i + 1)) = Cardinality(OfKind(tr, w, i)) - 1
    BY <1>3, <1>5, <1>6, <1>7, Zenon
  <2> QED
    BY <2>1, <1>7, Zenon
<1>8. CASE tr[i + 1].IsWrite # w
  <2>1. Cardinality(OfKind(tr, w, i + 1)) = Cardinality(OfKind(tr, w, i))
    BY <1>3, <1>5, <1>6, <1>8, Zenon
  <2>2. Cardinality(OfKind(tr, w, i)) = Cardinality(OfKind(tr, w, i)) - 0
    BY <1>4
  <2> QED
    BY <2>1, <2>2, <1>8, Zenon
<1> QED
  BY <1>7, <1>8

(***************************************************************************)
(* Types                                                                   *)
(***************************************************************************)
\* The access that is issued next is one.
LEMMA NextAccess ==
  ASSUME TypeOK, traceIndex < Len(trace)
  PROVE  trace[traceIndex + 1] \in Access
<1>1. trace \in Seq(Access) /\ traceIndex \in 0 .. Len(trace)
  BY TraceAssumption DEF TypeOK
<1>2. Len(trace) \in Nat
  BY <1>1, LenProperties
<1>3. traceIndex + 1 \in 1 .. Len(trace)
  BY <1>1, <1>2
<1> QED
  BY <1>1, <1>3, ElementOfSeq

LEMMA InitType == Init => TypeOK
<1> SUFFICES ASSUME Init PROVE TypeOK
  OBVIOUS
<1>1. trace \in Seq(Access) /\ Len(trace) \in Nat
  BY TraceAssumption, LenProperties DEF Init
<1>2. /\ Cardinality(OfKind(trace, TRUE, 0)) \in Nat
      /\ Cardinality(OfKind(trace, FALSE, 0)) \in Nat
  <2>1. 0 \in 0 .. Len(trace) /\ TRUE \in BOOLEAN /\ FALSE \in BOOLEAN
    BY <1>1
  <2> QED
    BY <1>1, <2>1, RestFinite, Zenon
<1>3. totalWrites \in Int /\ totalReads \in Int
  <2>1. /\ totalWrites = Cardinality(OfKind(trace, TRUE, 0))
        /\ totalReads = Cardinality(OfKind(trace, FALSE, 0))
    BY Zenon DEF Init
  <2>2. \A n \in Nat : n \in Int
    OBVIOUS
  <2> QED
    BY <1>2, <2>1, <2>2, Zenon
<1>4. memIn \in Seq(Response) /\ memOut \in Seq(Request)
  BY EmptySeq, Zenon DEF Init
<1>5. /\ trace \in Traces /\ traceIndex = 0
      /\ completedWrites = 0 /\ completedReads = 0
      /\ pendingWrites = {} /\ pendingReads = {} /\ below = {}
      /\ finished = FALSE /\ awake = TRUE /\ progress = FALSE
      /\ stage = "idle"
  BY Zenon DEF Init
<1>6. finished \in BOOLEAN /\ awake \in BOOLEAN /\ progress \in BOOLEAN
  BY <1>5, Zenon
<1>7. traceIndex \in 0 .. Len(trace)
  BY <1>1, <1>5
<1> QED
  BY <1>3, <1>4, <1>5, <1>6, <1>7 DEF TypeOK

LEMMA NextType == TypeOK /\ [CpuNext]_cpuVars => TypeOK'
<1> SUFFICES ASSUME TypeOK, [CpuNext]_cpuVars PROVE TypeOK'
  OBVIOUS
<1> USE DEF TypeOK
<1>0. Len(trace) \in Nat
  BY TraceAssumption, LenProperties
<1>1. CASE Tick
  BY <1>1 DEF Tick, position, pending, done
<1>2. CASE ProcessWriteDone
  <2>1. memIn' \in Seq(Response)
    BY <1>2, HeadTailProperties DEF ProcessWriteDone
  <2>2. pendingWrites' \in SUBSET Int
    BY <1>2, Zenon DEF ProcessWriteDone
  <2>3. completedWrites' \in Nat
    BY <1>2 DEF ProcessWriteDone
  <2> QED
    BY <1>2, <2>1, <2>2, <2>3 DEF ProcessWriteDone, position
<1>3. CASE ProcessDataReady
  <2>1. memIn' \in Seq(Response)
    BY <1>3, HeadTailProperties DEF ProcessDataReady
  <2>2. pendingReads' \in SUBSET Int
    BY <1>3, Zenon DEF ProcessDataReady
  <2>3. completedReads' \in Nat
    BY <1>3 DEF ProcessDataReady
  <2> QED
    BY <1>3, <2>1, <2>2, <2>3 DEF ProcessDataReady, position
<1>4. CASE NoResponse
  BY <1>4 DEF NoResponse, position, pending, done
<1>5. CASE Issue
  <2>1. trace[traceIndex + 1] \in Access
    BY <1>5, NextAccess DEF Issue
  <2>2. traceIndex' \in 0 .. Len(trace') /\ trace' \in Traces
    BY <1>0, <1>5 DEF Issue
  <2>3. CASE CanSend
    <3>1. Send(trace[traceIndex + 1])
      BY <1>5, <2>3 DEF Issue
    <3>2. FreshID \in Int
      BY <1>0 DEF FreshID
    <3>3. [id |-> FreshID, IsWrite |-> trace[traceIndex + 1].IsWrite,
           Addr |-> trace[traceIndex + 1].Addr] \in Request
      BY <2>1, <3>2 DEF Access, Request
    <3>4. memOut' \in Seq(Request)
      BY <3>1, <3>3, AppendProperties DEF Send
    <3>5. totalWrites' \in Int /\ totalReads' \in Int
      BY <3>1 DEF Send
    <3>6. pendingWrites' \in SUBSET Int /\ pendingReads' \in SUBSET Int
      BY <3>1, <3>2 DEF Send
    <3>7. progress' \in BOOLEAN
      BY <3>1 DEF Send
    <3> QED
      BY <1>5, <2>2, <3>4, <3>5, <3>6, <3>7 DEF Issue, done
  <2>4. CASE ~CanSend
    BY <1>5, <2>2, <2>4 DEF Issue, pending, done
  <2> QED
    BY <2>3, <2>4
<1>6. CASE NothingToIssue
  BY <1>6 DEF NothingToIssue, position, pending, done
<1>7. CASE Report
  BY <1>7 DEF Report, AllDone, hasPendingRequest, position, pending, done
<1>8. CASE MemCollect
  BY <1>8, HeadTailProperties DEF MemCollect, Between, position, pending, done
<1>9. ASSUME NEW r \in below, MemDeliver(r) PROVE TypeOK'
  <2>1. Answer(r) \in Response
    BY DEF Answer, Request, Response
  <2>2. memIn' \in Seq(Response)
    BY <1>9, <2>1, AppendProperties DEF MemDeliver
  <2> QED
    BY <1>9, <2>2 DEF MemDeliver, Between, position, pending, done
<1>10. CASE UNCHANGED cpuVars
  BY <1>10 DEF cpuVars, position, pending, done
<1> QED
  BY <1>1, <1>2, <1>3, <1>4, <1>5, <1>6, <1>7, <1>8, <1>9, <1>10
  DEF CpuNext, Component

\* Every variable of the processor keeps its type.
THEOREM CpuTypeCorrect == CpuSpec => []TypeOK
BY InitType, NextType, PTL DEF CpuSpec

(***************************************************************************)
(* One request at a time                                                   *)
(***************************************************************************)
\* Nothing is pending and nothing on its way.
Quiet ==
  /\ pendingWrites = {} /\ pendingReads = {}
  /\ memOut = <<>> /\ below = {} /\ memIn = <<>>

\* Request r is the one pending, and it or its answer is in one place.
InFlight(r) ==
  /\ pendingWrites = IF r.IsWrite THEN {r.id} ELSE {}
  /\ pendingReads = IF r.IsWrite THEN {} ELSE {r.id}
  /\ \/ memOut = <<r>> /\ below = {} /\ memIn = <<>>
     \/ memOut = <<>> /\ below = {r} /\ memIn = <<>>
     \/ memOut = <<>> /\ below = {} /\ memIn = <<Answer(r)>>

OneAtATime == Quiet \/ \E r \in Request : InFlight(r)

LEMMA NextOneAtATime ==
  TypeOK /\ OneAtATime /\ [CpuNext]_cpuVars => OneAtATime'
<1> SUFFICES ASSUME TypeOK, OneAtATime, [CpuNext]_cpuVars PROVE OneAtATime'
  OBVIOUS
<1>1. ASSUME UNCHANGED <<pendingWrites, pendingReads, memOut, below, memIn>>
      PROVE  OneAtATime'
  BY <1>1 DEF OneAtATime, Quiet, InFlight
<1>2. CASE Tick \/ NoResponse \/ NothingToIssue \/ Report
             \/ UNCHANGED cpuVars
  BY <1>1, <1>2 DEF Tick, NoResponse, NothingToIssue, Report, cpuVars, pending
<1>3. CASE ProcessWriteDone \/ ProcessDataReady
  <2>1. PICK r \in Request : InFlight(r)
    BY <1>3 DEF OneAtATime, Quiet, ProcessWriteDone, ProcessDataReady
  <2>2. /\ memIn = <<Answer(r)>> /\ memOut = <<>> /\ below = {}
        /\ Head(memIn) = Answer(r) /\ Tail(memIn) = <<>>
    BY <1>3, <2>1 DEF InFlight, ProcessWriteDone, ProcessDataReady
  <2>3. pendingWrites' = {} /\ pendingReads' = {}
    BY <1>3, <2>1, <2>2
    DEF InFlight, Answer, ProcessWriteDone, ProcessDataReady
  <2> QED
    BY <1>3, <2>2, <2>3
    DEF OneAtATime, Quiet, ProcessWriteDone, ProcessDataReady
<1>4. CASE Issue
  <2>1. Quiet
    BY <1>4 DEF OneAtATime, InFlight, Issue, hasPendingRequest
  <2>2. CanSend
    BY <2>1, TraceAssumption DEF Quiet, CanSend
  <2> DEFINE op == trace[traceIndex + 1]
             r == [id |-> FreshID, IsWrite |-> op.IsWrite, Addr |-> op.Addr]
  <2>3. Send(op)
    BY <1>4, <2>2 DEF Issue
  <2>4. r \in Request /\ op.IsWrite \in BOOLEAN
    <3>1. Len(trace) \in Nat
      BY TraceAssumption, LenProperties DEF TypeOK
    <3>2. FreshID \in Int
      BY <3>1 DEF TypeOK, FreshID
    <3>3. op \in Access
      BY <1>4, NextAccess DEF Issue
    <3> QED
      BY <3>2, <3>3 DEF Access, Request
  <2>5. memOut' = <<r>> /\ below' = {} /\ memIn' = <<>>
    BY <1>4, <2>1, <2>3 DEF Send, Quiet, Issue
  <2>6. /\ pendingWrites' = IF r.IsWrite THEN {r.id} ELSE {}
        /\ pendingReads' = IF r.IsWrite THEN {} ELSE {r.id}
    BY <2>1, <2>3 DEF Send, Quiet
  <2> HIDE DEF r
  <2>7. PICK q \in Request : q = r
    BY <2>4
  <2>8. InFlight(q)'
    BY <2>5, <2>6, <2>7 DEF InFlight
  <2> QED
    BY <2>8 DEF OneAtATime
<1>5. CASE MemCollect
  <2>1. PICK r \in Request : InFlight(r)
    BY <1>5 DEF OneAtATime, Quiet, MemCollect
  <2>2. /\ memOut = <<r>> /\ below = {} /\ memIn = <<>>
        /\ Head(<<r>>) = r /\ Tail(<<r>>) = <<>>
    <3>1. memOut # <<>>
      BY <1>5 DEF MemCollect
    <3>2. memOut = <<r>> /\ below = {} /\ memIn = <<>>
      BY <2>1, <3>1, Zenon DEF InFlight
    <3> QED
      BY <3>2
  <2>3. memOut' = <<>> /\ below' = {r} /\ memIn' = <<>>
    BY <1>5, <2>2 DEF MemCollect
  <2>4. UNCHANGED <<pendingWrites, pendingReads>>
    BY <1>5 DEF MemCollect, Between, pending
  <2> QED
    BY <2>1, <2>3, <2>4 DEF InFlight, OneAtATime
<1>6. ASSUME NEW q \in below, MemDeliver(q) PROVE OneAtATime'
  <2>1. PICK r \in Request : InFlight(r)
    BY <1>6 DEF OneAtATime, Quiet
  <2>2. /\ memOut = <<>> /\ below = {r} /\ memIn = <<>> /\ q = r
    BY <1>6, <2>1 DEF InFlight
  <2>3. memOut' = <<>> /\ below' = {} /\ memIn' = <<Answer(r)>>
    BY <1>6, <2>2 DEF MemDeliver
  <2>4. UNCHANGED <<pendingWrites, pendingReads>>
    BY <1>6 DEF MemDeliver, Between, pending
  <2> QED
    BY <2>1, <2>3, <2>4 DEF InFlight, OneAtATime, Answer
<1> QED
  BY <1>2, <1>3, <1>4, <1>5, <1>6 DEF CpuNext, Component

(***************************************************************************)
(* Every access is issued, and counted when its answer comes               *)
(***************************************************************************)
Outstanding(ids) == IF ids = {} THEN 0 ELSE 1

\* Each access of the trace is still to come, pending or completed.
NothingUncounted ==
  /\ completedWrites + Outstanding(pendingWrites) + totalWrites
       = Cardinality(OfKind(trace, TRUE, 0))
  /\ completedReads + Outstanding(pendingReads) + totalReads
       = Cardinality(OfKind(trace, FALSE, 0))

\* The report stands: nothing starts again once it is printed.
ReportStands == finished => AllDone /\ stage = "idle"

\* The inductive invariant.
CpuInv == TypeOK /\ OneAtATime /\ NoAccessSkipped /\ NothingUncounted
            /\ ReportStands

LEMMA InitCpuInv == Init => CpuInv
<1> SUFFICES ASSUME Init PROVE CpuInv
  OBVIOUS
<1>1. TypeOK
  BY InitType
<1>2. OneAtATime
  BY Zenon DEF Init, OneAtATime, Quiet
<1>3. NoAccessSkipped
  BY Zenon DEF Init, NoAccessSkipped
<1>4. NothingUncounted
  <2>1. /\ completedWrites = 0 /\ completedReads = 0
        /\ Outstanding(pendingWrites) = 0 /\ Outstanding(pendingReads) = 0
        /\ totalWrites = Cardinality(OfKind(trace, TRUE, 0))
        /\ totalReads = Cardinality(OfKind(trace, FALSE, 0))
    BY Zenon DEF Init, Outstanding
  <2>2. \A n \in Int : 0 + 0 + n = n
    OBVIOUS
  <2>3. totalWrites \in Int /\ totalReads \in Int
    BY <1>1 DEF TypeOK
  <2> QED
    BY <2>1, <2>2, <2>3, Zenon DEF NothingUncounted
<1>5. ReportStands
  BY Zenon DEF Init, ReportStands
<1> QED
  BY <1>1, <1>2, <1>3, <1>4, <1>5 DEF CpuInv

\* Issuing finds room in the port, because nothing else is on its way.
LEMMA IssueSends ==
  ASSUME TypeOK, OneAtATime, Issue
  PROVE  /\ Quiet
         /\ Send(trace[traceIndex + 1])
         /\ trace' = trace /\ traceIndex' = traceIndex + 1
         /\ traceIndex \in 0 .. Len(trace) /\ traceIndex < Len(trace)
         /\ trace[traceIndex + 1].IsWrite \in BOOLEAN
<1>1. Quiet
  BY DEF OneAtATime, InFlight, Issue, hasPendingRequest
<1>2. CanSend
  BY <1>1, TraceAssumption DEF Quiet, CanSend
<1>3. trace[traceIndex + 1] \in Access
  BY NextAccess DEF Issue
<1>4. trace[traceIndex + 1].IsWrite \in BOOLEAN
  BY <1>3 DEF Access
<1>5. Send(trace[traceIndex + 1])
  BY <1>2, Zenon DEF Issue
<1> QED
  BY <1>1, <1>4, <1>5 DEF Issue, TypeOK

LEMMA NextNoAccessSkipped ==
  TypeOK /\ OneAtATime /\ NoAccessSkipped /\ [CpuNext]_cpuVars
    => NoAccessSkipped'
<1> SUFFICES ASSUME TypeOK, OneAtATime, NoAccessSkipped, [CpuNext]_cpuVars
             PROVE  NoAccessSkipped'
  OBVIOUS
<1>1. CASE Issue
  <2> DEFINE op == trace[traceIndex + 1]
             w  == Cardinality(OfKind(trace, TRUE, traceIndex))
             rd == Cardinality(OfKind(trace, FALSE, traceIndex))
  <2>1. /\ Send(op) /\ op.IsWrite \in BOOLEAN
        /\ trace' = trace /\ traceIndex' = traceIndex + 1
        /\ traceIndex \in 0 .. Len(trace) /\ traceIndex < Len(trace)
    BY <1>1, IssueSends
  <2>2. trace \in Seq(Access)
    BY TraceAssumption DEF TypeOK
  <2>3. /\ Cardinality(OfKind(trace, TRUE, traceIndex + 1)) =
             w - (IF op.IsWrite = TRUE THEN 1 ELSE 0)
        /\ Cardinality(OfKind(trace, FALSE, traceIndex + 1)) =
             rd - (IF op.IsWrite = FALSE THEN 1 ELSE 0)
    BY <2>1, <2>2, StepAlong
  <2>4. w \in Nat /\ rd \in Nat
    BY <2>1, <2>2, RestFinite
  <2>5. totalWrites = w /\ totalReads = rd
    BY Zenon DEF NoAccessSkipped
  <2> HIDE DEF w, rd
  <2>6. /\ totalWrites' = Cardinality(OfKind(trace, TRUE, traceIndex + 1))
        /\ totalReads' = Cardinality(OfKind(trace, FALSE, traceIndex + 1))
    <3>1. CASE op.IsWrite = TRUE
      <4>1. totalWrites' = totalWrites - 1 /\ totalReads' = totalReads
        BY <2>1, <3>1, Zenon DEF Send
      <4>2. /\ Cardinality(OfKind(trace, TRUE, traceIndex + 1)) = w - 1
            /\ Cardinality(OfKind(trace, FALSE, traceIndex + 1)) = rd - 0
        BY <2>3, <3>1, Zenon
      <4>3. w - 0 = w /\ rd - 0 = rd
        BY <2>4
      <4> QED
        BY <2>5, <4>1, <4>2, <4>3, Zenon
    <3>2. CASE op.IsWrite = FALSE
      <4>1. totalWrites' = totalWrites /\ totalReads' = totalReads - 1
        BY <2>1, <3>2, Zenon DEF Send
      <4>2. /\ Cardinality(OfKind(trace, TRUE, traceIndex + 1)) = w - 0
            /\ Cardinality(OfKind(trace, FALSE, traceIndex + 1)) = rd - 1
        BY <2>3, <3>2, Zenon
      <4>3. w - 0 = w /\ rd - 0 = rd
        BY <2>4
      <4> QED
        BY <2>5, <4>1, <4>2, <4>3, Zenon
    <3> QED
      BY <2>1, <3>1, <3>2
  <2> QED
    BY <2>1, <2>6, Zenon DEF NoAccessSkipped
<1>2. ASSUME UNCHANGED position PROVE NoAccessSkipped'
  BY <1>2, Zenon DEF position, NoAccessSkipped
<1>3. CASE Tick \/ ProcessWriteDone \/ ProcessDataReady \/ NoResponse
             \/ NothingToIssue \/ Report \/ MemCollect
             \/ (\E r \in below : MemDeliver(r)) \/ UNCHANGED cpuVars
  BY <1>2, <1>3, Zenon
  DEF Tick, ProcessWriteDone, ProcessDataReady, NoResponse, NothingToIssue,
      Report, MemCollect, MemDeliver, Between, cpuVars
<1> QED
  BY <1>1, <1>3 DEF CpuNext, Component

LEMMA NextNothingUncounted ==
  TypeOK /\ OneAtATime /\ NothingUncounted /\ [CpuNext]_cpuVars
    => NothingUncounted'
<1> SUFFICES ASSUME TypeOK, OneAtATime, NothingUncounted, [CpuNext]_cpuVars
             PROVE  NothingUncounted'
  OBVIOUS
<1> DEFINE W == Cardinality(OfKind(trace, TRUE, 0))
           R == Cardinality(OfKind(trace, FALSE, 0))
<1>1. /\ completedWrites + Outstanding(pendingWrites) + totalWrites = W
      /\ completedReads + Outstanding(pendingReads) + totalReads = R
  BY Zenon DEF NothingUncounted
<1>2. ASSUME trace' = trace,
             completedWrites' + Outstanding(pendingWrites') + totalWrites' = W,
             completedReads' + Outstanding(pendingReads') + totalReads' = R
      PROVE  NothingUncounted'
  BY <1>2, Zenon DEF NothingUncounted, Outstanding
<1> HIDE DEF W, R
<1>3. CASE Issue
  <2>1. /\ Quiet /\ Send(trace[traceIndex + 1]) /\ trace' = trace
        /\ trace[traceIndex + 1].IsWrite \in BOOLEAN
        /\ UNCHANGED <<completedWrites, completedReads>>
    BY <1>3, IssueSends DEF Issue, done
  <2> DEFINE op == trace[traceIndex + 1]
  <2>2. CASE op.IsWrite
    <3>1. /\ pendingWrites' = pendingWrites \cup {FreshID}
          /\ totalWrites' = totalWrites - 1
          /\ pendingReads' = pendingReads /\ totalReads' = totalReads
      BY <2>1, <2>2, Zenon DEF Send
    <3>2. Outstanding(pendingWrites) = 0 /\ Outstanding(pendingWrites') = 1
      BY <2>1, <3>1 DEF Quiet, Outstanding
    <3>3. completedWrites' + Outstanding(pendingWrites') + totalWrites' = W
      BY <1>1, <2>1, <3>1, <3>2 DEF TypeOK
    <3>4. completedReads' + Outstanding(pendingReads') + totalReads' = R
      BY <1>1, <2>1, <3>1, Zenon
    <3> QED
      BY <1>2, <2>1, <3>3, <3>4, Zenon
  <2>3. CASE ~op.IsWrite
    <3>1. /\ pendingReads' = pendingReads \cup {FreshID}
          /\ totalReads' = totalReads - 1
          /\ pendingWrites' = pendingWrites /\ totalWrites' = totalWrites
      BY <2>1, <2>3, Zenon DEF Send
    <3>2. Outstanding(pendingReads) = 0 /\ Outstanding(pendingReads') = 1
      BY <2>1, <3>1 DEF Quiet, Outstanding
    <3>3. completedReads' + Outstanding(pendingReads') + totalReads' = R
      BY <1>1, <2>1, <3>1, <3>2 DEF TypeOK
    <3>4. completedWrites' + Outstanding(pendingWrites') + totalWrites' = W
      BY <1>1, <2>1, <3>1, Zenon
    <3> QED
      BY <1>2, <2>1, <3>3, <3>4, Zenon
  <2> QED
    BY <2>2, <2>3
<1>4. ASSUME NEW r \in Request, InFlight(r), memIn # <<>>
      PROVE  Head(memIn) = Answer(r)
  <2>1. memIn = <<Answer(r)>>
    BY <1>4, Zenon DEF InFlight
  <2> QED
    BY <2>1
<1>5. CASE ProcessWriteDone
  <2>1. PICK r \in Request : InFlight(r)
    BY <1>5 DEF OneAtATime, Quiet, ProcessWriteDone
  <2>2. Head(memIn) = Answer(r) /\ Head(memIn).IsWrite
    BY <1>4, <1>5, <2>1 DEF ProcessWriteDone
  <2>3. r.IsWrite /\ Head(memIn).rspTo = r.id
    BY <2>2 DEF Answer
  <2>4. pendingWrites = {r.id} /\ pendingWrites' = {}
    <3>1. pendingWrites = {r.id}
      BY <2>1, <2>3, Zenon DEF InFlight
    <3>2. pendingWrites' = pendingWrites \ {r.id}
      BY <1>5, <2>3, Zenon DEF ProcessWriteDone
    <3> QED
      BY <3>1, <3>2
  <2>5. /\ completedWrites' = completedWrites + 1
        /\ UNCHANGED <<trace, totalWrites, totalReads, pendingReads,
                       completedReads>>
    BY <1>5, Zenon DEF ProcessWriteDone, position
  <2>6. completedWrites' + Outstanding(pendingWrites') + totalWrites' = W
    <3>1. Outstanding(pendingWrites) = 1 /\ Outstanding(pendingWrites') = 0
      BY <2>4 DEF Outstanding
    <3>2. totalWrites' = totalWrites
      BY <2>5
    <3>3. completedWrites \in Nat /\ totalWrites \in Int
      BY DEF TypeOK
    <3>4. completedWrites + 1 + totalWrites = W
      BY <1>1, <3>1, Zenon
    <3>5. (completedWrites + 1) + 0 + totalWrites = W
      BY <3>3, <3>4
    <3> QED
      BY <2>5, <3>1, <3>2, <3>5, Zenon
  <2>7. completedReads' + Outstanding(pendingReads') + totalReads' = R
    BY <1>1, <2>5, Zenon
  <2> QED
    BY <1>2, <2>5, <2>6, <2>7, Zenon
<1>6. CASE ProcessDataReady
  <2>1. PICK r \in Request : InFlight(r)
    BY <1>6 DEF OneAtATime, Quiet, ProcessDataReady
  <2>2. Head(memIn) = Answer(r) /\ ~Head(memIn).IsWrite
    BY <1>4, <1>6, <2>1 DEF ProcessDataReady
  <2>3. ~r.IsWrite /\ Head(memIn).rspTo = r.id
    BY <2>2 DEF Answer
  <2>4. pendingReads = {r.id} /\ pendingReads' = {}
    <3>1. pendingReads = {r.id}
      BY <2>1, <2>3, Zenon DEF InFlight
    <3>2. pendingReads' = pendingReads \ {r.id}
      BY <1>6, <2>3, Zenon DEF ProcessDataReady
    <3> QED
      BY <3>1, <3>2
  <2>5. /\ completedReads' = completedReads + 1
        /\ UNCHANGED <<trace, totalWrites, totalReads, pendingWrites,
                       completedWrites>>
    BY <1>6, Zenon DEF ProcessDataReady, position
  <2>6. completedReads' + Outstanding(pendingReads') + totalReads' = R
    <3>1. Outstanding(pendingReads) = 1 /\ Outstanding(pendingReads') = 0
      BY <2>4 DEF Outstanding
    <3>2. totalReads' = totalReads
      BY <2>5
    <3>3. completedReads \in Nat /\ totalReads \in Int
      BY DEF TypeOK
    <3>4. completedReads + 1 + totalReads = R
      BY <1>1, <3>1, Zenon
    <3>5. (completedReads + 1) + 0 + totalReads = R
      BY <3>3, <3>4
    <3> QED
      BY <2>5, <3>1, <3>2, <3>5, Zenon
  <2>7. completedWrites' + Outstanding(pendingWrites') + totalWrites' = W
    BY <1>1, <2>5, Zenon
  <2> QED
    BY <1>2, <2>5, <2>6, <2>7, Zenon
<1>7. ASSUME UNCHANGED <<position, pending, done>> PROVE NothingUncounted'
  BY <1>7, Zenon DEF position, pending, done, NothingUncounted
<1>8. CASE Tick \/ NoResponse \/ NothingToIssue \/ Report \/ MemCollect
             \/ (\E r \in below : MemDeliver(r)) \/ UNCHANGED cpuVars
  BY <1>7, <1>8, Zenon
  DEF Tick, NoResponse, NothingToIssue, Report, MemCollect, MemDeliver,
      Between, cpuVars
<1> QED
  BY <1>3, <1>5, <1>6, <1>8 DEF CpuNext, Component

LEMMA NextReportStands ==
  TypeOK /\ ReportStands /\ [CpuNext]_cpuVars => ReportStands'
<1> SUFFICES ASSUME TypeOK, ReportStands, [CpuNext]_cpuVars
             PROVE  ReportStands'
  OBVIOUS
<1> USE DEF ReportStands, AllDone, hasPendingRequest
<1>1. CASE Tick
  BY <1>1 DEF Tick, position, pending
<1>2. CASE ProcessWriteDone \/ ProcessDataReady \/ NoResponse \/ Issue
             \/ NothingToIssue
  BY <1>2 DEF ProcessWriteDone, ProcessDataReady, NoResponse, Issue,
              NothingToIssue
<1>3. CASE Report
  BY <1>3 DEF Report, position, pending
<1>4. CASE MemCollect \/ (\E r \in below : MemDeliver(r))
             \/ UNCHANGED cpuVars
  BY <1>4 DEF MemCollect, MemDeliver, Between, cpuVars, position, pending
<1> QED
  BY <1>1, <1>2, <1>3, <1>4 DEF CpuNext, Component

\* One request at a time, every access sent, every answer counted and the
\* report final: together these hold for ever.
THEOREM CpuInvHolds == CpuSpec => []CpuInv
<1>1. CpuInv /\ [CpuNext]_cpuVars => CpuInv'
  BY NextType, NextOneAtATime, NextNoAccessSkipped, NextNothingUncounted,
     NextReportStands, Zenon DEF CpuInv
<1> QED
  BY InitCpuInv, <1>1, PTL DEF CpuSpec

\* The processor never skips an access of its trace, though it moves on
\* without a look at what Send returned.
THEOREM EveryAccessIsSent == CpuSpec => []NoAccessSkipped
<1>1. CpuInv => NoAccessSkipped
  BY Zenon DEF CpuInv
<1> QED
  BY CpuInvHolds, <1>1, PTL

\* The report comes after the last answer and counts the whole trace.
THEOREM ReportCountsTheTrace == CpuSpec => []ReportIsComplete
<1>1. CpuInv => ReportIsComplete
  <2> SUFFICES ASSUME CpuInv, finished PROVE ReportIsComplete
    BY DEF ReportIsComplete
  <2>1. /\ totalWrites = 0 /\ totalReads = 0
        /\ pendingWrites = {} /\ pendingReads = {}
    BY DEF CpuInv, ReportStands, AllDone, hasPendingRequest
  <2>2. memOut = <<>> /\ below = {} /\ memIn = <<>>
    BY <2>1 DEF CpuInv, OneAtATime, Quiet, InFlight
  <2>3. traceIndex = Len(trace)
    <3>1. trace \in Seq(Access) /\ traceIndex \in 0 .. Len(trace)
      BY TraceAssumption DEF CpuInv, TypeOK
    <3>2. /\ Cardinality(OfKind(trace, TRUE, traceIndex)) = 0
          /\ Cardinality(OfKind(trace, FALSE, traceIndex)) = 0
      BY <2>1, Zenon DEF CpuInv, NoAccessSkipped
    <3> QED
      BY <3>1, <3>2, NothingLeft, Zenon
  <2>4. /\ completedWrites + 0 + 0 = Cardinality(OfKind(trace, TRUE, 0))
        /\ completedReads + 0 + 0 = Cardinality(OfKind(trace, FALSE, 0))
    BY <2>1, Zenon DEF CpuInv, NothingUncounted, Outstanding
  <2>5. /\ completedWrites = Cardinality(OfKind(trace, TRUE, 0))
        /\ completedReads = Cardinality(OfKind(trace, FALSE, 0))
    <3>1. completedWrites \in Nat /\ completedReads \in Nat
      BY DEF CpuInv, TypeOK
    <3>2. /\ completedWrites + 0 + 0 = completedWrites
          /\ completedReads + 0 + 0 = completedReads
      BY <3>1
    <3> QED
      BY <2>4, <3>2, Zenon
  <2> QED
    BY <2>2, <2>3, <2>5, Zenon DEF ReportIsComplete
<1> QED
  BY CpuInvHolds, <1>1, PTL

\* The trace is replayed whole, for every set of traces and port capacity: no
\* access is skipped, and the report counts them all.
THEOREM TraceIsReplayed == CpuSpec => []TraceReplayed
<1>1. NoAccessSkipped /\ ReportIsComplete => TraceReplayed
  BY DEF TraceReplayed
<1> QED
  BY EveryAccessIsSent, ReportCountsTheTrace, <1>1, PTL
=============================================================================

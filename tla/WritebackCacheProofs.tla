------------------------ MODULE WritebackCacheProofs ------------------------
(***************************************************************************)
(* The write-back cache (L1): its type invariant and the agreement of its  *)
(* blocks, locks, read counts, MSHR entries and eviction list with the     *)
(* transactions in flight, for every value of the constants.               *)
(*                                                                         *)
(* WInv is the inductive invariant: first its parts, then lemmas about the *)
(* operators it is built from (rows of the pipeline, the places of the     *)
(* transactions, the reads below), then one lemma for each action, and the *)
(* theorems at the end.                                                    *)
(***************************************************************************)
EXTENDS WritebackCache, SequenceLemmas

\* The buffers between the stages hold at most one transaction.
Single(buf) == buf \in Seq(ReqID) /\ Len(buf) =< 1

\* A request of the user, an answer, a block, a transaction and an MSHR entry.
Request == [write : BOOLEAN, full : BOOLEAN, line : Lines, floor : Nat]
Response == [rspTo : ReqID, ver : Nat]
BlockType == [Tag : Lines \cup {NoLine}, IsValid : BOOLEAN, IsLocked : BOOLEAN,
              IsDirty : BOOLEAN, ReadCount : Nat]
TransType == [action : Actions, block : 0 .. NumBlocks,
              evictingAddr : Lines \cup {NoLine}, entry : 0 .. MaxReqs]
EntryType == [block : 0 .. NumBlocks, requests : Seq(ReqID), data : Nat,
              slice : 0 .. MaxReqs]

\* The messages to the memory and its answers.
ReadMsg  == [write : {FALSE}, of : ReqID, line : Lines]
WriteMsg == [write : {TRUE}, of : ReqID, line : Lines \cup {NoLine}]
Answer   == [write : BOOLEAN, of : ReqID, ver : Nat]

\* The ports, the memory and what was asked and answered.
PortTypes ==
  /\ topIn \in Seq(ReqID) /\ Len(topIn) =< PortCap
  /\ topOut \in Seq(Response) /\ Len(topOut) =< PortCap
  /\ bottomIn \in Seq(Answer) /\ Len(bottomIn) =< PortCap
  /\ bottomOut \in Seq(ReadMsg \cup WriteMsg) /\ Len(bottomOut) =< PortCap
  /\ lowReqs \in Seq(ReadMsg \cup WriteMsg) /\ mem \in [Lines -> Nat]
  /\ reqs \in Seq(Request) /\ Len(reqs) =< MaxReqs
  /\ answers \in SUBSET Response

\* The buffers between the stages, and the stages' own counters.
StageTypes ==
  /\ Single(dirStageBuffer) /\ Single(dirBuf) /\ Single(dirToBank)
  /\ Single(writeBufferToBank) /\ Single(mshrStageBuffer)
  /\ Single(writeBufferBuffer)
  /\ processingMSHREntry \in 0 .. MaxReqs
  /\ counted \in [ReqID -> 0 .. 2]
  /\ downwardInflightTransCount \in Int

\* The lists of the write buffer, within their limits.
BufferTypes ==
  /\ pendingEvictions \in Seq(ReqID) /\ inflightEviction \in Seq(ReqID)
  /\ Len(inflightEviction) =< MaxInflightEviction
  /\ Len(pendingEvictions) + Len(inflightEviction) =< WriteBufferCapacity
  /\ inflightFetch \in SUBSET ReqID
  /\ Cardinality(inflightFetch) =< MaxInflightFetch
  /\ evictingData \in [ReqID -> Nat]

\* The arrays: MSHR, directory, storage, and the transactions.
ArrayTypes ==
  /\ mshr \in SUBSET ReqID /\ Cardinality(mshr) =< NumMSHREntry
  /\ entry \in [ReqID -> EntryType]
  /\ blocks \in [Slots -> BlockType] /\ storage \in [Slots -> Nat]
  /\ lru \in Seq(Slots) /\ ToSet(lru) = Slots
  /\ trans \in [ReqID -> TransType]

WTypes == PortTypes /\ StageTypes /\ BufferTypes /\ ArrayTypes

\* Awake and at work.
TickTypes == awake \in BOOLEAN /\ progress \in BOOLEAN

\* How many requests the directory has processed: those of rq without the ones in
\* the port and in its two buffers.
TakenOf(rq, ti, ds, db) == Len(rq) - Len(ti) - Len(ds) - Len(db)

\* The requests not processed are the last ones, in order.
Waits(rq, ti, ds, db) ==
  /\ TakenOf(rq, ti, ds, db) \in Nat
  /\ \A i \in 1 .. Len(ti) : ti[i] = Len(rq) - Len(ti) + i
  /\ ds # <<>> => ds[1] = Len(rq) - Len(ti)
  /\ db # <<>> => db[1] = TakenOf(rq, ti, ds, db) + 1

Taken == TakenOf(reqs, topIn, dirStageBuffer, dirBuf)
WaitInv == Waits(reqs, topIn, dirStageBuffer, dirBuf)

\* The bank.
Pipes == [1 .. LaneWidth -> [1 .. BankLatency -> 0 .. MaxReqs]]

\* The elements of a pipeline, one of a kind.
CellsApart(pipe) ==
  \A k, l \in 1 .. LaneWidth : \A i, j \in 1 .. BankLatency :
    pipe[k][i] = pipe[l][j] /\ pipe[k][i] # Hole => k = l /\ i = j

BankOf(pipe, buf) == ToSet(buf) \cup InPipeline(pipe)
BankOK(pipe, buf) ==
  /\ pipe \in Pipes
  /\ buf \in Seq(ReqID) /\ Len(buf) =< LaneWidth
  /\ IsInjective(buf)
  /\ ToSet(buf) \cap InPipeline(pipe) = {}
  /\ CellsApart(pipe)

BankInv == BankOK(bankPipe, bankBuf)

\* The places of the transactions the directory has processed: on the way to
\* the bank, in it, before the write buffer, on the way back, fetched from
\* below, and filled.  A transaction is in one of them at most.
Places(D, K, W, U, F, M, n) ==
  /\ D \cup K \cup W \cup U \cup F \cup M \subseteq 1 .. n
  /\ D \cap (K \cup W \cup U \cup F \cup M) = {}
  /\ K \cap (W \cup U \cup F \cup M) = {}
  /\ W \cap (U \cup F \cup M) = {}
  /\ U \cap (F \cup M) = {}
  /\ F \cap M = {}

AtBank == ToSet(dirToBank)
AtBuffer == ToSet(writeBufferBuffer)
GoingBack == ToSet(writeBufferToBank)
FilledOf(p, buf) == ToSet(buf) \cup ({p} \ {0})
Filled == FilledOf(processingMSHREntry, mshrStageBuffer)

\* The transactions that will fetch a line, and those that will fill an entry.
Fetching == {"bankEvictAndFetch", "writeBufferEvictAndFetch", "writeBufferFetch"}
Filling == Fetching \cup {"bankWriteFetched"}

\* What a transaction is to do fits the place where it is.
Fits(D, K, W, U, F, tr) ==
  /\ \A t \in D : tr[t].action \in
       {"bankReadHit", "bankWriteHit", "writeBufferFetch"} \cup Evicting
  /\ \A t \in K : tr[t].action \in
       {"bankReadHit", "bankWriteHit", "bankWriteFetched"} \cup Evicting
  /\ \A t \in W : tr[t].action \in
       {"writeBufferFetch", "writeBufferEvictAndFetch", "writeBufferEvictAndWrite"}
  /\ \A t \in U : tr[t].action \in {"bankWriteFetched", "bankWriteHit"}
  /\ \A t \in F : tr[t].action = "writeBufferFetch"

\* An entry that is or was filled still has somebody to answer.
Opens(B, M, tr, en) ==
  /\ \A t \in B : tr[t].action \in Filling => en[t].requests # <<>>
  /\ \A t \in M : en[t].requests # <<>>

\* The story of the blocks.
Reader(tr, t) == tr[t].action = "bankReadHit"
Readers(B, tr, b) == {t \in B : tr[t].block = b /\ Reader(tr, t)}
Leavers(B, tr) == {t \in B : tr[t].action \in Evicting}

\* A transaction in flight holds a valid block of its request's line, which is
\* locked unless the transaction only reads.
HoldsBlock(B, tr, bl, rq) ==
  \A t \in B :
    /\ tr[t].action # "invalid" /\ tr[t].block \in Slots
    /\ bl[tr[t].block].IsValid /\ bl[tr[t].block].Tag = rq[t].line
    /\ bl[tr[t].block].IsLocked <=> ~Reader(tr, t)

\* A block has one transaction in flight that does more than read.
OneOwner(B, tr) ==
  \A t, u \in B : /\ tr[t].block = tr[u].block
                  /\ ~Reader(tr, t) /\ ~Reader(tr, u)
                  => t = u

\* A locked block has an owner in flight, who will unlock it.
LocksOwned(B, tr, bl) ==
  \A b \in Slots : bl[b].IsLocked =>
    \E t \in B : tr[t].block = b /\ ~Reader(tr, t)

\* A block counts the reads in flight.
ReadsCounted(B, tr, bl) ==
  \A b \in Slots : bl[b].ReadCount = Cardinality(Readers(B, tr, b))

\* A transaction that fetches has its MSHR entry open, one that fills has it
\* filled for its own block, and an open entry has its fetch.
EntriesOpen(B, tr, en, ms) ==
  /\ \A t \in B : tr[t].action \in Fetching => t \in ms
  /\ \A t \in B : tr[t].action \in Filling =>
                   tr[t].entry = t /\ en[t].block = tr[t].block
  /\ \A t \in ms : t \in B /\ tr[t].action \in Fetching

\* A valid block is of its line's set, and no two hold one line.
TagsApart(bl) ==
  /\ \A b \in Slots : bl[b].IsValid => bl[b].Tag \in Lines /\ b \in SetOf[bl[b].Tag]
  /\ \A b, c \in Slots : bl[b].IsValid /\ bl[c].IsValid /\ bl[b].Tag = bl[c].Tag
                          => b = c

\* The lines on the eviction list are those of the evicting transactions, one
\* each, and no block holds one of them.
LeavingListed(B, tr, bl, ev) ==
  /\ ev = {tr[t].evictingAddr : t \in Leavers(B, tr)}
  /\ \A t, u \in Leavers(B, tr) : tr[t].evictingAddr = tr[u].evictingAddr => t = u
  /\ \A b \in Slots : bl[b].IsValid => bl[b].Tag \notin ev

\* The story of the blocks, whole.
Story(B, tr, bl, en, ms, ev, rq) ==
  /\ HoldsBlock(B, tr, bl, rq)
  /\ OneOwner(B, tr)
  /\ LocksOwned(B, tr, bl)
  /\ ReadsCounted(B, tr, bl)
  /\ EntriesOpen(B, tr, en, ms)
  /\ TagsApart(bl)
  /\ LeavingListed(B, tr, bl, ev)

\* The places of the transactions, what they are to do there, the entries and
\* the blocks.
All(D, K, W, U, F) == D \cup K \cup W \cup U \cup F

World(D, K, W, U, F, M, n, tr, bl, en, ms, ev, rq) ==
  /\ n \in 0 .. MaxReqs
  /\ Places(D, K, W, U, F, M, n)
  /\ Fits(D, K, W, U, F, tr)
  /\ Opens(All(D, K, W, U, F), M, tr, en)
  /\ Story(All(D, K, W, U, F), tr, bl, en, ms, ev, rq)

WorldInv == World(AtBank, InBank, AtBuffer, GoingBack, inflightFetch, Filled, Taken,
                  trans, blocks, entry, mshr, evictingList, reqs)

ApartInv == processingMSHREntry \notin ToSet(mshrStageBuffer)

\* The reads below: of what is fetched, each in one place.
ReadsOf(s) == {s[i].of : i \in {j \in DOMAIN s : ~s[j].write}}
AskedOnce(s) ==
  \A i, j \in DOMAIN s : ~s[i].write /\ ~s[j].write /\ s[i].of = s[j].of => i = j
Asks(bo, lr, bi, F) ==
  /\ AskedOnce(bo) /\ AskedOnce(lr) /\ AskedOnce(bi)
  /\ ReadsOf(bo) \cap (ReadsOf(lr) \cup ReadsOf(bi)) = {}
  /\ ReadsOf(lr) \cap ReadsOf(bi) = {}
  /\ ReadsOf(bo) \cup ReadsOf(lr) \cup ReadsOf(bi) \subseteq F

AskInv == Asks(bottomOut, lowReqs, bottomIn, inflightFetch)

WInv == WTypes /\ WaitInv /\ BankInv /\ WorldInv /\ ApartInv /\ AskInv

\* A lane of a bank's pipeline is a row of one cell for each cycle of latency.
LEMMA RowsAre ==
  ASSUME NEW pipe \in Pipes, NEW k \in 1 .. LaneWidth
  PROVE  /\ BankLatency \in Nat
         /\ pipe[k] \in Seq(0 .. MaxReqs) /\ Len(pipe[k]) = BankLatency
         /\ DOMAIN pipe[k] = 1 .. BankLatency /\ DOMAIN pipe = 1 .. LaneWidth
         /\ pipe[k] = <<>> <=> BankLatency = 0
<1>1. BankLatency \in Nat
  BY WritebackAssumption
<1>2. pipe[k] \in [1 .. BankLatency -> 0 .. MaxReqs] /\ DOMAIN pipe = 1 .. LaneWidth
  BY DEF Pipes
<1>3. pipe[k] \in Seq(0 .. MaxReqs)
  BY <1>1, <1>2, SeqDef
<1>4. DOMAIN pipe[k] = 1 .. Len(pipe[k]) /\ Len(pipe[k]) \in Nat
  BY <1>3, LenProperties
<1>5. Len(pipe[k]) = BankLatency
  BY <1>1, <1>2, <1>4, SameInterval
<1>6. pipe[k] = <<>> <=> Len(pipe[k]) = 0
  BY <1>3, EmptySeq
<1> QED
  BY <1>1, <1>2, <1>3, <1>5, <1>6

\* What a pipeline carries is what some cell of some lane holds.
LEMMA InPipelineIs ==
  ASSUME NEW pipe \in Pipes, NEW x
  PROVE  x \in InPipeline(pipe) <=>
           /\ x # Hole
           /\ \E k \in 1 .. LaneWidth : \E i \in 1 .. BankLatency : pipe[k][i] = x
<1>1. DOMAIN pipe = 1 .. LaneWidth /\ \A k \in 1 .. LaneWidth : DOMAIN pipe[k] = 1 .. BankLatency
  BY DEF Pipes
<1>2. x \in InPipeline(pipe) <=>
        x # Hole /\ \E k \in DOMAIN pipe : \E i \in DOMAIN pipe[k] : x = pipe[k][i]
  BY DEF InPipeline
<1> QED
  BY <1>1, <1>2

\* A pipeline that can accept takes the element, in a lane or in the buffer.
LEMMA BankAccepts ==
  ASSUME NEW pipe, NEW buf, BankOK(pipe, buf), CanAccept(pipe, buf, LaneWidth),
         NEW e \in ReqID, e \notin BankOf(pipe, buf)
  PROVE  LET next == Accept(pipe, buf, e)
         IN /\ BankOK(next.pipe, next.post)
            /\ BankOf(next.pipe, next.post) = BankOf(pipe, buf) \cup {e}
<1>0. 1 \in 1 .. LaneWidth /\ pipe \in Pipes
  BY DEF LaneWidth, BankOK
<1>1. pipe[1] = <<>> <=> BankLatency = 0
  BY <1>0, RowsAre
<1>2. CASE BankLatency = 0
  <2>1. Accept(pipe, buf, e) = [pipe |-> pipe, post |-> Append(buf, e)]
    BY <1>1, <1>2 DEF Accept
  <2>2. Len(buf) < LaneWidth
    BY <1>1, <1>2 DEF CanAccept
  <2>3. /\ ToSet(Append(buf, e)) = ToSet(buf) \cup {e}
        /\ IsInjective(Append(buf, e)) /\ Len(Append(buf, e)) = Len(buf) + 1
        /\ Append(buf, e) \in Seq(ReqID) /\ Len(buf) \in Nat
    BY ElementsAppended, AppendProperties, LenProperties DEF BankOK, BankOf
  <2>4. Len(buf) + 1 =< LaneWidth
    BY <2>2, <2>3 DEF LaneWidth
  <2> QED
    BY <2>1, <2>3, <2>4 DEF BankOK, BankOf
<1>3. CASE BankLatency # 0
  <2> DEFINE free == {k \in DOMAIN pipe : pipe[k][1] = Hole}
             lane == Min(free)
             next == [pipe EXCEPT ![lane][1] = e]
  <2>1. Accept(pipe, buf, e) = [pipe |-> next, post |-> buf]
    BY <1>1, <1>3 DEF Accept
  <2>2. free # {} /\ free \in SUBSET Nat /\ DOMAIN pipe = 1 .. LaneWidth
    BY <1>0, <1>1, <1>3, RowsAre DEF CanAccept, LaneWidth
  <2>3. lane \in 1 .. LaneWidth /\ pipe[lane][1] = Hole
    <3> HIDE DEF free
    <3>1. lane \in free
      BY <2>2, MinInSet
    <3> QED
      BY <2>2, <3>1 DEF free
  <2> HIDE DEF free, lane
  <2>4. 1 \in 1 .. BankLatency /\ e \in 0 .. MaxReqs /\ e # Hole
    BY <1>3, WritebackAssumption DEF ReqID, Hole
  <2>5. next \in Pipes
    BY <1>0, <2>3, <2>4 DEF Pipes
  <2>6. \A k \in 1 .. LaneWidth : \A i \in 1 .. BankLatency :
          next[k][i] = IF k = lane /\ i = 1 THEN e ELSE pipe[k][i]
    BY <1>0, <2>3, <2>4 DEF Pipes
  <2> HIDE DEF next
  <2>7. \A x : x \in InPipeline(next) <=> x \in InPipeline(pipe) \cup {e}
    <3>1. ASSUME NEW x, x \in InPipeline(next) PROVE x \in InPipeline(pipe) \cup {e}
      <4>1. PICK k \in 1 .. LaneWidth, i \in 1 .. BankLatency : next[k][i] = x /\ x # Hole
        BY <2>5, <3>1, InPipelineIs
      <4> QED
        BY <1>0, <2>6, <4>1, InPipelineIs
    <3>2. ASSUME NEW x \in InPipeline(pipe) PROVE x \in InPipeline(next)
      <4>1. PICK k \in 1 .. LaneWidth, i \in 1 .. BankLatency : pipe[k][i] = x /\ x # Hole
        BY <1>0, InPipelineIs
      <4>2. next[k][i] = x
        BY <2>3, <2>6, <4>1
      <4> QED
        BY <2>5, <4>1, <4>2, InPipelineIs
    <3>3. e \in InPipeline(next)
      BY <2>3, <2>4, <2>5, <2>6, InPipelineIs
    <3> QED
      BY <3>1, <3>2, <3>3
  <2>8. CellsApart(next)
    <3>1. \A k \in 1 .. LaneWidth : \A i \in 1 .. BankLatency : pipe[k][i] # e
      BY <1>0, <2>4, InPipelineIs DEF BankOf
    <3> QED
      BY <2>3, <2>6, <3>1 DEF BankOK, CellsApart
  <2>9. InPipeline(next) = InPipeline(pipe) \cup {e}
    BY <2>7
  <2> QED
    BY <2>1, <2>5, <2>8, <2>9 DEF BankOK, BankOf
<1> QED
  BY <1>2, <1>3, <1>0, RowsAre

\* A lane without its last element, if it is one of those that leave.
Left(row, k, out) ==
  IF k \in out THEN [row EXCEPT ![BankLatency] = Hole] ELSE row

\* A lane of the pipeline.
Row == [1 .. BankLatency -> 0 .. MaxReqs]
\* A lane after its last element left: the last cell is a hole, if it is one of
\* those that leave, and no other cell changes.
LEMMA LeftIs ==
  ASSUME NEW row \in Row, NEW k, NEW out
  PROVE  /\ Left(row, k, out) \in Row
         /\ \A i \in 1 .. BankLatency : Left(row, k, out)[i] =
              IF k \in out /\ i = BankLatency THEN Hole ELSE row[i]
<1>1. BankLatency \in Nat /\ MaxReqs \in Nat /\ Hole \in 0 .. MaxReqs
  BY WritebackAssumption DEF Hole
<1> QED
  BY <1>1 DEF Left, Row

\* A stage ahead of stage i is free.
FreeAhead(a, i) == \E j \in i + 1 .. BankLatency : a[j] = Hole

\* A lane one cycle on, cell by cell: an element moves where the way ahead of it
\* is free and stands where it is not.
LEMMA ShiftedIs ==
  ASSUME NEW row \in Row, NEW k, NEW out
  PROVE  LET a == Left(row, k, out)
             r == Shifted(row, k \in out)
         IN /\ r \in Row
            /\ \A i \in 1 .. BankLatency :
                 r[i] = IF i > 1 /\ FreeAhead(a, i - 1) THEN a[i - 1]
                        ELSE IF FreeAhead(a, i) THEN Hole ELSE a[i]
<1> DEFINE a == Left(row, k, out)
           r == Shifted(row, k \in out)
<1>1. BankLatency \in Nat /\ Hole \in 0 .. MaxReqs
  BY WritebackAssumption DEF Hole
<1>2. Len(row) = BankLatency
  <2>1. row \in Seq(0 .. MaxReqs) /\ DOMAIN row = 1 .. BankLatency
    BY <1>1, SeqDef DEF Row
  <2>2. DOMAIN row = 1 .. Len(row) /\ Len(row) \in Nat
    BY <2>1, LenProperties
  <2> QED
    BY <1>1, <2>1, <2>2, SameInterval
<1>3. r = [i \in 1 .. BankLatency |->
             IF i > 1 /\ FreeAhead(a, i - 1) THEN a[i - 1] ELSE IF FreeAhead(a, i) THEN Hole ELSE a[i]]
  BY <1>2 DEF Shifted, Left, FreeAhead
<1>4. a \in Row
  BY LeftIs
<1> HIDE DEF a, r
<1>5. \A i \in 1 .. BankLatency : a[i] \in 0 .. MaxReqs /\ (i > 1 => a[i - 1] \in 0 .. MaxReqs)
  BY <1>1, <1>4 DEF Row
<1>6. r \in Row
  BY <1>1, <1>3, <1>5 DEF Row
<1> QED
  BY <1>3, <1>6 DEF a, r

\* The elements of r are those of a: src tells where each comes from.
Moved(src, a, r) ==
  /\ src \in [1 .. BankLatency -> 1 .. BankLatency]
  /\ \A i \in 1 .. BankLatency : r[i] # Hole => r[i] = a[src[i]]
  /\ \A i, j \in 1 .. BankLatency :
       r[i] # Hole /\ r[j] # Hole /\ src[i] = src[j] => i = j
  /\ \A k \in 1 .. BankLatency : a[k] # Hole =>
       \E i \in 1 .. BankLatency : r[i] = a[k]

\* A cycle loses, doubles and invents no element of a lane.
LEMMA ShiftedKeeps ==
  ASSUME NEW row \in Row, NEW k, NEW out
  PROVE  \E src : Moved(src, Left(row, k, out), Shifted(row, k \in out))
<1> DEFINE a == Left(row, k, out)
           r == Shifted(row, k \in out)
           src == [i \in 1 .. BankLatency |-> IF i > 1 /\ FreeAhead(a, i - 1) THEN i - 1 ELSE i]
<1>1. BankLatency \in Nat
  BY WritebackAssumption
<1>2. \A i \in 1 .. BankLatency :
        r[i] = IF i > 1 /\ FreeAhead(a, i - 1) THEN a[i - 1] ELSE IF FreeAhead(a, i) THEN Hole ELSE a[i]
  BY ShiftedIs
<1> HIDE DEF a, r
<1>3. src \in [1 .. BankLatency -> 1 .. BankLatency]
  BY <1>1
<1>4. \A i \in 1 .. BankLatency : src[i] = IF i > 1 /\ FreeAhead(a, i - 1) THEN i - 1 ELSE i
  OBVIOUS
<1> HIDE DEF src
<1>5. ASSUME NEW i \in 1 .. BankLatency, r[i] # Hole PROVE r[i] = a[src[i]]
  BY <1>2, <1>4, <1>5
<1>6. ASSUME NEW i \in 1 .. BankLatency, NEW j \in 1 .. BankLatency,
             r[i] # Hole, r[j] # Hole, src[i] = src[j], i < j
      PROVE  FALSE
  <2>1. i = j - 1 /\ FreeAhead(a, j - 1) /\ ~(i > 1 /\ FreeAhead(a, i - 1))
    BY <1>1, <1>4, <1>6
  <2>2. r[i] = Hole
    BY <1>2, <2>1
  <2> QED
    BY <1>6, <2>2
<1>7. ASSUME NEW p \in 1 .. BankLatency, a[p] # Hole
      PROVE  \E i \in 1 .. BankLatency : r[i] = a[p]
  <2>1. CASE FreeAhead(a, p)
    <3>1. p + 1 \in 1 .. BankLatency /\ p + 1 > 1 /\ (p + 1) - 1 = p
      BY <1>1, <2>1 DEF FreeAhead
    <3>2. r[p + 1] = a[p]
      BY <1>2, <2>1, <3>1
    <3> QED
      BY <3>1, <3>2
  <2>2. CASE ~FreeAhead(a, p)
    <3>1. ~(p > 1 /\ FreeAhead(a, p - 1))
      BY <1>1, <1>7, <2>2 DEF FreeAhead
    <3>2. r[p] = a[p]
      BY <1>2, <2>2, <3>1
    <3> QED
      BY <3>2
  <2> QED
    BY <2>1, <2>2
<1>8. \A i, j \in 1 .. BankLatency : r[i] # Hole /\ r[j] # Hole /\ src[i] = src[j] => i = j
  BY <1>1, <1>6
<1> QED
  BY <1>3, <1>5, <1>7, <1>8 DEF a, r, Moved

Moving(pipe, out) == [k \in DOMAIN pipe |-> Shifted(pipe[k], k \in out)]

\* Every lane moves on, after the last elements of some have left.
LEMMA LanesShift ==
  ASSUME NEW pipe \in Pipes, CellsApart(pipe), NEW out \in SUBSET (1 .. LaneWidth)
  PROVE  LET next == Moving(pipe, out)
         IN /\ next \in Pipes /\ CellsApart(next)
            /\ \A x : x \in InPipeline(next) <=>
                 /\ x # Hole
                 /\ \E k \in 1 .. LaneWidth : \E i \in 1 .. BankLatency :
                      pipe[k][i] = x /\ ~(k \in out /\ i = BankLatency)
<1> DEFINE next == Moving(pipe, out)
<1>1. DOMAIN pipe = 1 .. LaneWidth /\ \A k \in 1 .. LaneWidth : pipe[k] \in Row
  BY DEF Pipes, Row
<1>2. \A k \in 1 .. LaneWidth : next[k] = Shifted(pipe[k], k \in out)
  BY <1>1 DEF Moving
<1>3. \A k \in 1 .. LaneWidth : next[k] \in Row
  BY <1>1, <1>2, ShiftedIs
<1>4. next \in Pipes
  BY <1>1, <1>3 DEF Pipes, Row, Moving
<1> HIDE DEF next
\* What comes from where.
<1>5. ASSUME NEW k \in 1 .. LaneWidth
      PROVE  /\ \E src : Moved(src, Left(pipe[k], k, out), next[k])
             /\ \A i \in 1 .. BankLatency : Left(pipe[k], k, out)[i] =
                  IF k \in out /\ i = BankLatency THEN Hole ELSE pipe[k][i]
  <2>1. pipe[k] \in Row /\ next[k] = Shifted(pipe[k], k \in out)
    BY <1>1, <1>2
  <2>2. \E src : Moved(src, Left(pipe[k], k, out), Shifted(pipe[k], k \in out))
    BY <2>1, ShiftedKeeps
  <2> QED
    BY <2>1, <2>2, LeftIs
<1>9. ASSUME NEW k \in 1 .. LaneWidth, NEW i \in 1 .. BankLatency, next[k][i] # Hole
      PROVE  \E p \in 1 .. BankLatency :
               next[k][i] = pipe[k][p] /\ ~(k \in out /\ p = BankLatency)
  <2> DEFINE a == Left(pipe[k], k, out)
             r == next[k]
  <2>1. /\ \E src : Moved(src, a, r)
        /\ \A j \in 1 .. BankLatency :
             a[j] = IF k \in out /\ j = BankLatency THEN Hole ELSE pipe[k][j]
    BY <1>5
  <2>2. r[i] # Hole
    BY <1>9
  <2> HIDE DEF a, r
  <2>3. PICK src : Moved(src, a, r)
    BY <2>1
  <2>4. src[i] \in 1 .. BankLatency /\ r[i] = a[src[i]]
    BY <2>2, <2>3 DEF Moved
  <2>5. r[i] = pipe[k][src[i]] /\ ~(k \in out /\ src[i] = BankLatency)
    BY <2>1, <2>2, <2>4
  <2> QED
    BY <2>4, <2>5 DEF r
<1>6. CellsApart(next)
  <2> SUFFICES ASSUME NEW k \in 1 .. LaneWidth, NEW l \in 1 .. LaneWidth,
                      NEW i \in 1 .. BankLatency, NEW j \in 1 .. BankLatency,
                      next[k][i] = next[l][j], next[k][i] # Hole
               PROVE  k = l /\ i = j
    BY DEF CellsApart
  <2>1. PICK p \in 1 .. BankLatency : next[k][i] = pipe[k][p]
    BY <1>9
  <2>2. PICK q \in 1 .. BankLatency : next[l][j] = pipe[l][q]
    BY <1>9
  <2>3. pipe[k][p] = pipe[l][q] /\ pipe[k][p] # Hole
    BY <2>1, <2>2
  <2>5. k = l
    BY <2>3 DEF CellsApart
  <2>4. i = j
    <3> DEFINE a == Left(pipe[k], k, out)
               r == next[k]
    <3>1. /\ \E src : Moved(src, a, r)
          /\ \A x \in 1 .. BankLatency :
               a[x] = IF k \in out /\ x = BankLatency THEN Hole ELSE pipe[k][x]
      BY <1>5
    <3>2. r[i] # Hole /\ r[j] = r[i]
      BY <2>5
    <3> HIDE DEF a, r
    <3>3. PICK src : Moved(src, a, r)
      BY <3>1
    <3>4. /\ src[i] \in 1 .. BankLatency /\ r[i] = a[src[i]]
          /\ src[j] \in 1 .. BankLatency /\ r[j] = a[src[j]]
          /\ src[i] = src[j] => i = j
      BY <3>2, <3>3 DEF Moved
    <3>5. pipe[k][src[i]] = pipe[k][src[j]] /\ pipe[k][src[i]] # Hole
      BY <3>1, <3>2, <3>4
    <3>6. src[i] = src[j]
      BY <3>4, <3>5 DEF CellsApart
    <3> QED
      BY <3>4, <3>6
  <2> QED
    BY <2>4, <2>5
<1>7. ASSUME NEW x, x \in InPipeline(next)
      PROVE  /\ x # Hole
             /\ \E k \in 1 .. LaneWidth : \E i \in 1 .. BankLatency :
                  pipe[k][i] = x /\ ~(k \in out /\ i = BankLatency)
  <2>1. PICK k \in 1 .. LaneWidth, i \in 1 .. BankLatency : next[k][i] = x /\ x # Hole
    BY <1>4, <1>7, InPipelineIs
  <2>2. \E p \in 1 .. BankLatency :
          next[k][i] = pipe[k][p] /\ ~(k \in out /\ p = BankLatency)
    BY <1>9, <2>1
  <2> QED
    BY <2>1, <2>2
<1>8. ASSUME NEW x, x # Hole, NEW k \in 1 .. LaneWidth, NEW j \in 1 .. BankLatency,
             pipe[k][j] = x, ~(k \in out /\ j = BankLatency)
      PROVE  x \in InPipeline(next)
  <2>1. \E i \in 1 .. BankLatency : next[k][i] = pipe[k][j]
    BY <1>5, <1>8 DEF Moved
  <2> QED
    BY <1>4, <1>8, <2>1, InPipelineIs
<1> QED
  BY <1>4, <1>6, <1>7, <1>8 DEF next

\* The lanes in order, those that leave only.
LEMMA LanesInOrder ==
  ASSUME NEW pipe \in Pipes, NEW out
  PROVE  Filter([lane \in DOMAIN pipe |-> lane], out) =
           IF 1 \in out THEN (IF 2 \in out THEN <<1, 2>> ELSE <<1>>)
                        ELSE (IF 2 \in out THEN <<2>> ELSE <<>>)
<1>1. DOMAIN pipe = 1 .. 2
  BY DEF Pipes, LaneWidth
<1>2. [lane \in DOMAIN pipe |-> lane] = Append(Append(<<>>, 1), 2)
  BY <1>1
<1>3. <<>> \in Seq(Nat) /\ Append(<<>>, 1) \in Seq(Nat)
  OBVIOUS
<1>4. Filter(<<>>, out) = <<>>
  BY FilterEmpty
<1>0. \A s \in Seq(Nat), n \in Nat :
        Filter(Append(s, n), out) =
          IF n \in out THEN Append(Filter(s, out), n) ELSE Filter(s, out)
  BY FilterAppended
<1>8. 1 \in Nat /\ 2 \in Nat
  OBVIOUS
<1>9. Append(<<>>, 1) = <<1>>
  OBVIOUS
<1>5. Filter(Append(<<>>, 1), out) = IF 1 \in out THEN <<1>> ELSE <<>>
  <2>1. Filter(Append(<<>>, 1), out) =
          IF 1 \in out THEN Append(Filter(<<>>, out), 1) ELSE Filter(<<>>, out)
    BY <1>0, <1>3, <1>8
  <2> QED
    BY <1>4, <1>9, <2>1
<1>6. Filter(Append(Append(<<>>, 1), 2), out) =
        IF 2 \in out THEN Append(Filter(Append(<<>>, 1), out), 2)
                     ELSE Filter(Append(<<>>, 1), out)
  BY <1>0, <1>3, <1>8
<1>7. Append(<<1>>, 2) = <<1, 2>>
  <2>1. ASSUME NEW x \in Nat, NEW y \in Nat PROVE <<x, y>> = Append(<<x>>, y)
    <3>1. <<x>> \in Seq(Nat) /\ <<x, y>> = Append(<<x>>, y)
      OBVIOUS
    <3> QED
      BY <3>1
  <2> QED
    BY <1>8, <2>1
<1>10. Append(<<>>, 2) = <<2>>
  OBVIOUS
<1> QED
  BY <1>2, <1>5, <1>6, <1>7, <1>10

\* An element leaves only when the buffer has room for it and those before it.
LEMMA LeavingIs ==
  ASSUME NEW pipe, NEW buf, BankOK(pipe, buf)
  PROVE  LET out == Leaving(pipe, buf, LaneWidth)
         IN /\ out \in SUBSET (1 .. LaneWidth)
            /\ \A k \in out : /\ BankLatency \in 1 .. BankLatency
                              /\ Last(pipe[k]) = pipe[k][BankLatency]
                              /\ pipe[k][BankLatency] # Hole
            /\ out # {} => Len(buf) =< 1
            /\ 1 \in out /\ 2 \in out => Len(buf) = 0
<1> DEFINE full == {k \in DOMAIN pipe : pipe[k] # <<>> /\ Last(pipe[k]) # Hole}
           before(k) == {j \in full : j < k}
           out == Leaving(pipe, buf, LaneWidth)
<1>1. pipe \in Pipes /\ DOMAIN pipe = 1 .. 2 /\ LaneWidth = 2 /\ Len(buf) \in Nat
  BY LenProperties DEF BankOK, Pipes, LaneWidth
<1>2. out = {k \in full : Len(buf) + Cardinality(before(k)) < 2}
  BY <1>1 DEF Leaving
<1>3. \A k \in full : /\ BankLatency \in 1 .. BankLatency
                      /\ Last(pipe[k]) = pipe[k][BankLatency]
                      /\ pipe[k][BankLatency] # Hole /\ k \in 1 .. 2
  <2> SUFFICES ASSUME NEW k \in full
               PROVE  /\ BankLatency \in 1 .. BankLatency
                      /\ Last(pipe[k]) = pipe[k][BankLatency]
                      /\ pipe[k][BankLatency] # Hole /\ k \in 1 .. 2
    OBVIOUS
  <2>1. k \in 1 .. 2 /\ pipe[k] # <<>> /\ Last(pipe[k]) # Hole
    BY <1>1
  <2>2. BankLatency \in Nat /\ BankLatency # 0 /\ Len(pipe[k]) = BankLatency
    BY <1>1, <2>1, RowsAre
  <2>3. Last(pipe[k]) = pipe[k][BankLatency]
    BY <2>2 DEF Last
  <2> QED
    BY <2>1, <2>2, <2>3
<1>4. full \in SUBSET (1 .. 2)
  BY <1>1
<1> HIDE DEF full
<1>5. \A k \in full : IsFiniteSet(before(k)) /\ Cardinality(before(k)) \in Nat
  <2>0. 1 \in Int /\ 2 \in Int
    OBVIOUS
  <2>1. IsFiniteSet(1 .. 2)
    BY <2>0, FS_Interval
  <2> QED
    BY <1>4, <2>1, FS_Subset, FS_CardinalityType
<1>6. 1 \in full => Cardinality(before(2)) = 1
  <2>1. ASSUME 1 \in full PROVE before(2) = {1}
    <3>1. ASSUME NEW j \in full, j < 2 PROVE j = 1
      BY <1>4, <3>1
    <3>2. 1 < 2
      OBVIOUS
    <3> QED
      BY <2>1, <3>1, <3>2
  <2> QED
    BY <2>1, FS_Singleton
<1> HIDE DEF before
<1>7. out # {} => Len(buf) =< 1
  BY <1>1, <1>2, <1>5
<1>8. 1 \in out /\ 2 \in out => Len(buf) = 0
  BY <1>1, <1>2, <1>6
<1>9. out \in SUBSET (1 .. LaneWidth)
  BY <1>1, <1>2, <1>4
<1> QED
  BY <1>2, <1>3, <1>7, <1>8, <1>9 DEF out

\* A tick moves the elements on, through the pipeline and into its buffer.
LEMMA BankTicks ==
  ASSUME NEW pipe, NEW buf, BankOK(pipe, buf)
  PROVE  LET moved == TickPipeline(pipe, buf, LaneWidth)
         IN /\ BankOK(moved.pipe, moved.post)
            /\ BankOf(moved.pipe, moved.post) = BankOf(pipe, buf)
<1> DEFINE out == Leaving(pipe, buf, LaneWidth)
           next == Moving(pipe, out)
           order == Filter([lane \in DOMAIN pipe |-> lane], out)
           add == [k \in DOMAIN order |-> Last(pipe[order[k]])]
           last(k) == pipe[k][BankLatency]
           gone == {last(k) : k \in out}
<1>1. TickPipeline(pipe, buf, LaneWidth) = [pipe |-> next, post |-> buf \o add]
  BY DEF TickPipeline, Moving
<1>2. /\ pipe \in Pipes /\ CellsApart(pipe) /\ LaneWidth = 2
      /\ buf \in Seq(ReqID) /\ IsInjective(buf)
      /\ ToSet(buf) \cap InPipeline(pipe) = {} /\ Len(buf) \in Nat /\ Len(buf) =< 2
  BY LenProperties DEF BankOK, LaneWidth
<1>3. /\ out \in SUBSET (1 .. 2)
      /\ \A k \in out : /\ BankLatency \in 1 .. BankLatency
                        /\ Last(pipe[k]) = last(k) /\ last(k) # Hole
      /\ out # {} => Len(buf) =< 1
      /\ 1 \in out /\ 2 \in out => Len(buf) = 0
  BY <1>2, LeavingIs
<1>4. order = IF 1 \in out THEN (IF 2 \in out THEN <<1, 2>> ELSE <<1>>)
                        ELSE (IF 2 \in out THEN <<2>> ELSE <<>>)
  BY <1>2, LanesInOrder
<1>5. /\ next \in Pipes /\ CellsApart(next)
      /\ \A x : x \in InPipeline(next) <=>
           /\ x # Hole
           /\ \E k \in 1 .. 2 : \E i \in 1 .. BankLatency :
                pipe[k][i] = x /\ ~(k \in out /\ i = BankLatency)
  <2>1. out \in SUBSET (1 .. LaneWidth)
    BY <1>2, <1>3
  <2> HIDE DEF out
  <2>2. /\ next \in Pipes /\ CellsApart(next)
        /\ \A x : x \in InPipeline(next) <=>
             /\ x # Hole
             /\ \E k \in 1 .. LaneWidth : \E i \in 1 .. BankLatency :
                  pipe[k][i] = x /\ ~(k \in out /\ i = BankLatency)
    BY <1>2, <2>1, LanesShift
  <2> HIDE DEF next
  <2> QED
    BY <1>2, <2>2
<1> HIDE DEF out, order, next
<1>6. \A k \in out : last(k) \in InPipeline(pipe) /\ last(k) \in ReqID
  <2> SUFFICES ASSUME NEW k \in out PROVE last(k) \in InPipeline(pipe) /\ last(k) \in ReqID
    OBVIOUS
  <2>1. k \in 1 .. LaneWidth /\ BankLatency \in 1 .. BankLatency /\ last(k) # Hole
    BY <1>2, <1>3
  <2>2. last(k) \in 0 .. MaxReqs
    BY <1>2, <2>1 DEF Pipes
  <2>3. last(k) \in ReqID
    BY <2>1, <2>2, WritebackAssumption DEF ReqID, Hole
  <2> QED
    BY <1>2, <2>1, <2>3, InPipelineIs
<1>7. \A x : x \in InPipeline(next) <=> x \in InPipeline(pipe) \ gone
  <2>1. ASSUME NEW x, x \in InPipeline(next) PROVE x \in InPipeline(pipe) \ gone
    <3>1. PICK k \in 1 .. 2, i \in 1 .. BankLatency :
            pipe[k][i] = x /\ ~(k \in out /\ i = BankLatency) /\ x # Hole
      BY <1>5, <2>1
    <3>2. x \in InPipeline(pipe)
      BY <1>2, <3>1, InPipelineIs
    <3>3. ASSUME NEW l \in out PROVE last(l) # x
      <4>1. BankLatency \in 1 .. BankLatency /\ l \in 1 .. 2
        BY <1>3
      <4> QED
        BY <1>2, <3>1, <4>1 DEF CellsApart
    <3> QED
      BY <3>2, <3>3
  <2>2. ASSUME NEW x, x \in InPipeline(pipe) \ gone PROVE x \in InPipeline(next)
    <3>1. PICK k \in 1 .. 2, i \in 1 .. BankLatency : pipe[k][i] = x /\ x # Hole
      BY <1>2, <2>2, InPipelineIs
    <3>2. ~(k \in out /\ i = BankLatency)
      BY <2>2, <3>1
    <3> QED
      BY <1>5, <3>1, <3>2
  <2> QED
    BY <2>1, <2>2
<1>8. \A k \in out : last(k) \notin ToSet(buf)
  BY <1>2, <1>6
<1>9. 1 \in out /\ 2 \in out => last(1) # last(2)
  BY <1>2, <1>3 DEF CellsApart
<1>10. \A k \in DOMAIN order : add[k] = last(order[k])
  BY <1>3, <1>4
<1>11. buf \o add = IF 1 \in out
                     THEN (IF 2 \in out THEN Append(Append(buf, last(1)), last(2))
                                        ELSE Append(buf, last(1)))
                     ELSE (IF 2 \in out THEN Append(buf, last(2)) ELSE buf)
  <2>1. add = IF 1 \in out THEN (IF 2 \in out THEN <<last(1), last(2)>> ELSE <<last(1)>>)
                        ELSE (IF 2 \in out THEN <<last(2)>> ELSE <<>>)
    BY <1>4, <1>3
  <2> HIDE DEF add, last
  <2>2. \A x \in ReqID : buf \o <<x>> = Append(buf, x)
    BY <1>2, AppendIsConcat
  <2>3. \A x, y \in ReqID : buf \o <<x, y>> = Append(Append(buf, x), y)
    <3> SUFFICES ASSUME NEW x \in ReqID, NEW y \in ReqID
                 PROVE  buf \o <<x, y>> = Append(Append(buf, x), y)
      OBVIOUS
    <3>1. <<x>> \in Seq(ReqID) /\ <<x, y>> = Append(<<x>>, y)
      OBVIOUS
    <3>2. buf \o Append(<<x>>, y) = Append(buf \o <<x>>, y)
      BY <1>2, <3>1, ConcatAppend
    <3> QED
      BY <2>2, <3>1, <3>2
  <2>4. buf \o <<>> = buf
    BY <1>2, ConcatEmptySeq
  <2> QED
    BY <1>6, <2>1, <2>2, <2>3, <2>4
<1> HIDE DEF add, last
<1> DEFINE post == buf \o add
<1>12. \A x \in ReqID \ ToSet(buf) :
         /\ Append(buf, x) \in Seq(ReqID) /\ ToSet(Append(buf, x)) = ToSet(buf) \cup {x}
         /\ IsInjective(Append(buf, x)) /\ Len(Append(buf, x)) = Len(buf) + 1
  BY <1>2, ElementsAppended, AppendProperties
<1>13. ASSUME 1 \in out, 2 \in out
       PROVE  LET p == Append(Append(buf, last(1)), last(2))
              IN /\ p \in Seq(ReqID) /\ ToSet(p) = ToSet(buf) \cup {last(1), last(2)}
                 /\ IsInjective(p) /\ Len(p) = Len(buf) + 2
  <2>1. /\ last(1) \in ReqID \ ToSet(buf) /\ last(2) \in ReqID \ ToSet(buf)
        /\ last(2) # last(1)
    BY <1>6, <1>8, <1>9, <1>13
  <2> DEFINE q == Append(buf, last(1))
  <2>2. /\ q \in Seq(ReqID) /\ ToSet(q) = ToSet(buf) \cup {last(1)} /\ IsInjective(q)
        /\ Len(q) = Len(buf) + 1
    BY <1>12, <2>1
  <2> HIDE DEF q
  <2>3. /\ Append(q, last(2)) \in Seq(ReqID) /\ IsInjective(Append(q, last(2)))
        /\ ToSet(Append(q, last(2))) = ToSet(q) \cup {last(2)}
        /\ Len(Append(q, last(2))) = Len(q) + 1
    <3>1. last(2) \in ReqID /\ last(2) \notin ToSet(q)
      BY <2>1, <2>2
    <3> QED
      BY <2>2, <3>1, ElementsAppended, AppendProperties
  <2>4. ToSet(Append(q, last(2))) = ToSet(buf) \cup {last(1), last(2)}
    BY <2>2, <2>3
  <2>5. Len(Append(q, last(2))) = Len(buf) + 2
    BY <1>2, <2>2, <2>3
  <2> QED
    BY <2>3, <2>4, <2>5 DEF q
<1>14. /\ post \in Seq(ReqID) /\ IsInjective(post) /\ Len(post) =< 2
       /\ ToSet(post) = ToSet(buf) \cup gone
  <2>1. CASE 1 \in out /\ 2 \in out
    <3>1. gone = {last(1), last(2)} /\ Len(buf) = 0
      BY <1>3, <2>1
    <3>2. post = Append(Append(buf, last(1)), last(2))
      BY <1>11, <2>1
    <3>3. /\ post \in Seq(ReqID) /\ ToSet(post) = ToSet(buf) \cup {last(1), last(2)}
          /\ IsInjective(post) /\ Len(post) = Len(buf) + 2
      BY <1>13, <2>1, <3>2
    <3> HIDE DEF post
    <3> QED
      BY <3>1, <3>3, SMTT(30)
  <2>2. CASE 1 \in out /\ 2 \notin out
    <3>1. gone = {last(1)} /\ last(1) \in ReqID \ ToSet(buf) /\ Len(buf) =< 1
      BY <1>3, <1>6, <1>8, <2>2
    <3> QED
      BY <1>2, <1>11, <1>12, <2>2, <3>1
  <2>3. CASE 1 \notin out /\ 2 \in out
    <3>1. gone = {last(2)} /\ last(2) \in ReqID \ ToSet(buf) /\ Len(buf) =< 1
      BY <1>3, <1>6, <1>8, <2>3
    <3> QED
      BY <1>2, <1>11, <1>12, <2>3, <3>1
  <2>4. CASE 1 \notin out /\ 2 \notin out
    <3>1. gone = {} /\ post = buf
      BY <1>3, <1>11, <2>4
    <3> QED
      BY <1>2, <3>1
  <2> QED
    BY <2>1, <2>2, <2>3, <2>4
<1>15. gone \subseteq InPipeline(pipe) /\ InPipeline(next) = InPipeline(pipe) \ gone
  BY <1>6, <1>7
<1> HIDE DEF gone, post
<1>16. BankOK(next, post) /\ BankOf(next, post) = BankOf(pipe, buf)
  BY <1>2, <1>5, <1>14, <1>15 DEF BankOK, BankOf
<1> QED
  BY <1>1, <1>16 DEF post

\* An element is taken from the buffer.
LEMMA BankGives ==
  ASSUME NEW pipe, NEW buf, BankOK(pipe, buf), NEW k \in 1 .. Len(buf)
  PROVE  /\ BankOK(pipe, RemoveAt(buf, k))
         /\ buf[k] \in BankOf(pipe, buf) /\ buf[k] \in ReqID
         /\ BankOf(pipe, RemoveAt(buf, k)) = BankOf(pipe, buf) \ {buf[k]}
<1>1. /\ buf \in Seq(ReqID) /\ IsInjective(buf) /\ pipe \in Pipes /\ CellsApart(pipe)
      /\ ToSet(buf) \cap InPipeline(pipe) = {} /\ Len(buf) \in Nat /\ Len(buf) =< LaneWidth
  BY LenProperties DEF BankOK
<1>2. /\ buf[k] \in ToSet(buf) /\ buf[k] \in ReqID
      /\ ToSet(RemoveAt(buf, k)) = ToSet(buf) \ {buf[k]}
      /\ IsInjective(RemoveAt(buf, k)) /\ Len(RemoveAt(buf, k)) = Len(buf) - 1
      /\ RemoveAt(buf, k) \in Seq(ReqID)
  BY <1>1, ElementsRemoved, RemoveAtProps, ElementOfSeq
<1>3. Len(RemoveAt(buf, k)) =< LaneWidth
  BY <1>1, <1>2 DEF LaneWidth
<1> QED
  BY <1>1, <1>2, <1>3 DEF BankOK, BankOf

\* It starts empty.
LEMMA BankEmpty == LET pipe == EmptyPipeline(LaneWidth, BankLatency)
                   IN BankOK(pipe, <<>>) /\ BankOf(pipe, <<>>) = {}
<1> DEFINE pipe == EmptyPipeline(LaneWidth, BankLatency)
<1>1. MaxReqs \in Nat /\ Hole = 0
  BY WritebackAssumption DEF Hole
<1>2. /\ pipe \in Pipes
      /\ \A k \in 1 .. LaneWidth : \A i \in 1 .. BankLatency : pipe[k][i] = Hole
  BY <1>1 DEF Pipes, EmptyPipeline
<1> HIDE DEF pipe
<1>3. InPipeline(pipe) = {}
  BY <1>2, InPipelineIs
<1>4. <<>> \in Seq(ReqID) /\ Len(<<>>) =< LaneWidth /\ IsInjective(<<>>) /\ ToSet(<<>>) = {}
  BY SetOfEmpty DEF LaneWidth, IsInjective
<1> QED
  BY <1>2, <1>3, <1>4 DEF BankOK, BankOf, CellsApart, pipe

\* A set of transactions is finite.
LEMMA RequestsFinite ==
  ASSUME NEW B \in SUBSET ReqID
  PROVE  IsFiniteSet(B) /\ Cardinality(B) \in Nat
<1>1. MaxReqs \in Int /\ 1 \in Int
  BY WritebackAssumption
<1>2. IsFiniteSet(ReqID)
  BY <1>1, FS_Interval DEF ReqID
<1> QED
  BY <1>2, FS_Subset, FS_CardinalityType

\* Two versions of a block that differ in nothing but data and readers.
Alike(x, y) ==
  /\ x.Tag = y.Tag
  /\ x.IsValid <=> y.IsValid
  /\ x.IsLocked <=> y.IsLocked

\* Block b can be read for line l, ...
Readable(b, l, bl) == bl[b].IsValid /\ ~bl[b].IsLocked /\ bl[b].Tag = l

\* ... or has been written by its owner.
Settled(b, bl, bl2) ==
  /\ \A c \in Slots : c # b => bl2[c] = bl[c]
  /\ bl2[b].IsValid /\ ~bl2[b].IsLocked
  /\ bl2[b].Tag = bl[b].Tag /\ bl2[b].ReadCount = bl[b].ReadCount

\* A read goes to the bank.
LEMMA StoryRead ==
  ASSUME NEW B \in SUBSET ReqID, NEW tr, NEW bl, NEW en, NEW ms, NEW ev, NEW rq,
         Story(B, tr, bl, en, ms, ev, rq),
         NEW t \in ReqID \ B, NEW b \in Slots, NEW tr2, NEW bl2,
         Readable(b, rq[t].line, bl),
         tr2[t].action = "bankReadHit", tr2[t].block = b,
         \A u \in B : tr2[u] = tr[u],
         \A c \in Slots :
           /\ Alike(bl2[c], bl[c])
           /\ bl2[c].ReadCount = bl[c].ReadCount + (IF c = b THEN 1 ELSE 0)
  PROVE  Story(B \cup {t}, tr2, bl2, en, ms, ev, rq)
<1> USE DEF Readable
<1> DEFINE C == B \cup {t}
<1>1. HoldsBlock(C, tr2, bl2, rq)
  BY DEF Story, HoldsBlock, Alike, Reader
<1>2. OneOwner(C, tr2)
  BY DEF Story, OneOwner, Reader
<1>3. LocksOwned(C, tr2, bl2)
  BY DEF Story, LocksOwned, Alike, Reader
<1>4. ReadsCounted(C, tr2, bl2)
  <2> SUFFICES ASSUME NEW c \in Slots PROVE bl2[c].ReadCount = Cardinality(Readers(C, tr2, c))
    BY DEF ReadsCounted
  <2>1. bl[c].ReadCount = Cardinality(Readers(B, tr, c))
    BY DEF Story, ReadsCounted
  <2>2. Readers(B, tr, c) \in SUBSET ReqID /\ t \notin Readers(B, tr, c)
    BY DEF Readers
  <2>3. IsFiniteSet(Readers(B, tr, c)) /\ Cardinality(Readers(B, tr, c)) \in Nat
    BY <2>2, RequestsFinite
  <2>4. CASE c = b
    <3>1. Readers(C, tr2, c) = Readers(B, tr, c) \cup {t}
      BY <2>4 DEF Readers, Reader
    <3>2. Cardinality(Readers(C, tr2, c)) = Cardinality(Readers(B, tr, c)) + 1
      <4> DEFINE R == Readers(B, tr, c)
      <4>1. IsFiniteSet(R) /\ t \notin R /\ Readers(C, tr2, c) = R \cup {t}
        BY <2>2, <2>3, <3>1
      <4> HIDE DEF R
      <4>2. Cardinality(R \cup {t}) = Cardinality(R) + 1
        BY <4>1, FS_AddElement
      <4> QED
        BY <4>1, <4>2 DEF R
    <3> QED
      BY <2>1, <2>4, <3>2
  <2>5. CASE c # b
    <3>1. Readers(C, tr2, c) = Readers(B, tr, c)
      BY <2>5 DEF Readers, Reader
    <3> QED
      BY <2>1, <2>3, <2>5, <3>1
  <2> QED
    BY <2>4, <2>5
<1>5. EntriesOpen(C, tr2, en, ms)
  BY DEF Story, EntriesOpen, Fetching, Filling
<1>6. TagsApart(bl2)
  BY DEF Story, TagsApart, Alike
<1>7. LeavingListed(C, tr2, bl2, ev)
  <2>1. Leavers(C, tr2) = Leavers(B, tr)
    BY DEF Leavers, Evicting
  <2>2. \A u \in Leavers(B, tr) : tr2[u] = tr[u]
    BY DEF Leavers
  <2> DEFINE L == Leavers(B, tr)
  <2>3. /\ ev = {tr[u].evictingAddr : u \in L}
        /\ \A u, v \in L : tr[u].evictingAddr = tr[v].evictingAddr => u = v
        /\ \A c \in Slots : bl2[c].IsValid => bl2[c].Tag \notin ev
    BY DEF Story, LeavingListed, Alike
  <2> HIDE DEF L
  <2>4. {tr[u].evictingAddr : u \in L} = {tr2[u].evictingAddr : u \in L}
    BY <2>2 DEF L
  <2>5. \A u, v \in L : tr2[u].evictingAddr = tr2[v].evictingAddr => u = v
    BY <2>2, <2>3 DEF L
  <2>6. Leavers(C, tr2) = L
    BY <2>1 DEF L
  <2> QED
    BY <2>3, <2>4, <2>5, <2>6 DEF LeavingListed
<1> QED
  BY <1>1, <1>2, <1>3, <1>4, <1>5, <1>6, <1>7 DEF Story

\* Block b can be claimed for line l, and is, ...
Unclaimed(b, bl) == ~bl[b].IsLocked /\ bl[b].ReadCount = 0
Claimable(b, l, bl, ev) ==
  /\ Unclaimed(b, bl)
  /\ l \in Lines /\ b \in SetOf[l] /\ l \notin ev
  /\ \A c \in Slots : bl[c].IsValid /\ bl[c].Tag = l => c = b
Claimed(b, l, bl, bl2) ==
  /\ \A c \in Slots \ {b} : bl2[c] = bl[c]
  /\ bl2[b].IsValid /\ bl2[b].IsLocked /\ bl2[b].Tag = l
  /\ bl2[b].ReadCount = bl[b].ReadCount

\* ... by transaction x, with an entry of its own if it has to fetch, ...
Claims(t, b, x, e) ==
  /\ x.block = b /\ x.action \in {"bankWriteHit", "writeBufferFetch"} \cup Evicting
  /\ x.action \in Filling => x.entry = t /\ e.block = b /\ e.requests # <<>>

\* ... and its old contents leave.
Leaves(x, l, o, ev, ev2) ==
  IF x.action \in Evicting
    THEN o.IsValid /\ o.Tag # l /\ x.evictingAddr = o.Tag /\ ev2 = ev \cup {o.Tag}
    ELSE ev2 = ev

\* Nobody is at a block that is unlocked and not read.
LEMMA BlockUnused ==
  ASSUME NEW B \in SUBSET ReqID, NEW tr, NEW bl, NEW rq,
         HoldsBlock(B, tr, bl, rq), ReadsCounted(B, tr, bl)
  PROVE  \A b \in Slots : Unclaimed(b, bl) => \A u \in B : tr[u].block # b
<1> SUFFICES ASSUME NEW b \in Slots, ~bl[b].IsLocked, bl[b].ReadCount = 0
             PROVE  \A u \in B : tr[u].block # b
  BY DEF Unclaimed
<1>1. Readers(B, tr, b) = {}
  <2>1. Cardinality(Readers(B, tr, b)) = 0 /\ Readers(B, tr, b) \in SUBSET ReqID
    BY DEF ReadsCounted, Readers
  <2> QED
    BY <2>1, RequestsFinite, FS_EmptySet
<1>2. ASSUME NEW u \in B, tr[u].block = b PROVE FALSE
  <2>1. Reader(tr, u)
    BY <1>2 DEF HoldsBlock
  <2> QED
    BY <1>1, <1>2, <2>1 DEF Readers
<1> QED
  BY <1>2

\* A transaction takes a block of its own, whose old contents may have to leave.
LEMMA StoryOwn ==
  ASSUME NEW B \in SUBSET ReqID, NEW tr, NEW bl, NEW en, NEW ms, NEW ev, NEW rq,
         Story(B, tr, bl, en, ms, ev, rq),
         NEW t \in ReqID \ B, NEW b \in Slots,
         NEW tr2, NEW bl2, NEW en2, NEW ms2, NEW ev2,
         Claimable(b, rq[t].line, bl, ev), Claimed(b, rq[t].line, bl, bl2),
         Claims(t, b, tr2[t], en2[t]), Leaves(tr2[t], rq[t].line, bl[b], ev, ev2),
         \A u \in B : tr2[u] = tr[u] /\ en2[u] = en[u],
         ms2 = ms \cup (IF tr2[t].action \in Fetching THEN {t} ELSE {})
  PROVE  Story(B \cup {t}, tr2, bl2, en2, ms2, ev2, rq)
<1>0. \A u \in B : tr[u].block # b
  <2>1. HoldsBlock(B, tr, bl, rq) /\ ReadsCounted(B, tr, bl)
    BY DEF Story
  <2>2. \A c \in Slots : Unclaimed(c, bl) => \A u \in B : tr[u].block # c
    BY <2>1, BlockUnused
  <2> QED
    BY <2>2 DEF Claimable
<1> USE DEF Unclaimed, Claimable, Claimed, Claims, Leaves
<1>a. tr2[t].action \notin {"invalid", "bankReadHit"}
  BY DEF Evicting
<1> USE <1>a
<1> DEFINE C == B \cup {t}
<1>1. HoldsBlock(C, tr2, bl2, rq)
  BY <1>0 DEF Story, HoldsBlock, Reader
<1>2. OneOwner(C, tr2)
  BY <1>0 DEF Story, OneOwner, Reader
<1>3. LocksOwned(C, tr2, bl2)
  <2> SUFFICES ASSUME NEW c \in Slots, bl2[c].IsLocked
               PROVE  \E u \in C : tr2[u].block = c /\ ~Reader(tr2, u)
    BY DEF LocksOwned
  <2>1. CASE c = b
    BY <2>1 DEF Reader
  <2>2. CASE c # b
    BY <2>2 DEF Story, LocksOwned, Reader
  <2> QED
    BY <2>1, <2>2
<1>4. ReadsCounted(C, tr2, bl2)
  <2> SUFFICES ASSUME NEW c \in Slots PROVE bl2[c].ReadCount = Cardinality(Readers(C, tr2, c))
    BY DEF ReadsCounted
  <2>1. bl[c].ReadCount = Cardinality(Readers(B, tr, c)) /\ bl2[c].ReadCount = bl[c].ReadCount
    BY DEF Story, ReadsCounted
  <2>2. Readers(C, tr2, c) = Readers(B, tr, c)
    BY DEF Readers, Reader
  <2> QED
    BY <2>1, <2>2
<1>5. EntriesOpen(C, tr2, en2, ms2)
  BY DEF Story, EntriesOpen, Fetching, Filling
<1>6. TagsApart(bl2)
  <2>1. \A c \in Slots : bl2[c].IsValid => bl2[c].Tag \in Lines /\ c \in SetOf[bl2[c].Tag]
    BY DEF Story, TagsApart
  <2>2. \A c, d \in Slots : bl2[c].IsValid /\ bl2[d].IsValid /\ bl2[c].Tag = bl2[d].Tag => c = d
    <3> SUFFICES ASSUME NEW c \in Slots, NEW d \in Slots, bl2[c].IsValid, bl2[d].IsValid,
                        bl2[c].Tag = bl2[d].Tag
                 PROVE  c = d
      OBVIOUS
    <3>1. CASE c = b
      BY <3>1
    <3>2. CASE d = b
      BY <3>2
    <3>3. CASE c # b /\ d # b
      BY <3>3 DEF Story, TagsApart
    <3> QED
      BY <3>1, <3>2, <3>3
  <2> QED
    BY <2>1, <2>2 DEF TagsApart
<1>7. LeavingListed(C, tr2, bl2, ev2)
  <2> DEFINE L == Leavers(B, tr)
  <2>0. /\ ev = {tr[u].evictingAddr : u \in L}
        /\ \A u, v \in L : tr[u].evictingAddr = tr[v].evictingAddr => u = v
        /\ \A c \in Slots : bl[c].IsValid => bl[c].Tag \notin ev
        /\ L \subseteq B
    BY DEF Story, LeavingListed, Leavers
  <2>1. CASE tr2[t].action \in Evicting
    <3>1. Leavers(C, tr2) = L \cup {t}
      BY <2>1 DEF Leavers
    <3> HIDE DEF L
    <3>2. \A u \in L : tr2[u].evictingAddr \in ev /\ tr2[u].evictingAddr = tr[u].evictingAddr
      BY <2>0
    <3>3. tr2[t].evictingAddr = bl[b].Tag /\ bl[b].Tag \notin ev /\ ev2 = ev \cup {bl[b].Tag}
      BY <2>0, <2>1
    <3>4. ev2 = {tr2[u].evictingAddr : u \in L \cup {t}}
      BY <2>0, <3>2, <3>3
    <3>5. \A u, v \in L \cup {t} : tr2[u].evictingAddr = tr2[v].evictingAddr => u = v
      BY <2>0, <3>2, <3>3
    <3>6. \A c \in Slots : bl2[c].IsValid => bl2[c].Tag \notin ev2
      <4> SUFFICES ASSUME NEW c \in Slots, bl2[c].IsValid PROVE bl2[c].Tag \notin ev2
        OBVIOUS
      <4>1. CASE c = b
        BY <2>1, <3>3, <4>1
      <4>2. CASE c # b
        <5>1. bl2[c] = bl[c] /\ bl[c].Tag \notin ev
          BY <2>0, <4>2
        <5>2. bl[c].Tag # bl[b].Tag
          BY <2>1, <4>2, <5>1 DEF Story, TagsApart
        <5> QED
          BY <3>3, <5>1, <5>2
      <4> QED
        BY <4>1, <4>2
    <3> QED
      BY <3>1, <3>4, <3>5, <3>6 DEF LeavingListed
  <2>2. CASE tr2[t].action \notin Evicting
    <3>1. Leavers(C, tr2) = L /\ ev2 = ev
      BY <2>2 DEF Leavers
    <3>2. \A u \in L : tr2[u] = tr[u]
      BY <2>0
    <3>3. \A c \in Slots : bl2[c].IsValid => bl2[c].Tag \notin ev
      BY <2>0
    <3> HIDE DEF L, C
    <3>4. {tr[u].evictingAddr : u \in L} = {tr2[u].evictingAddr : u \in L}
      BY <3>2
    <3>5. \A u, v \in L : tr2[u].evictingAddr = tr2[v].evictingAddr => u = v
      BY <2>0, <3>2
    <3> QED
      BY <2>0, <3>1, <3>3, <3>4, <3>5 DEF LeavingListed
  <2> QED
    BY <2>1, <2>2
<1> QED
  BY <1>1, <1>2, <1>3, <1>4, <1>5, <1>6, <1>7 DEF Story

\* A block that is read is counted.
LEMMA StoryReads ==
  ASSUME NEW B \in SUBSET ReqID, NEW tr, NEW bl, NEW en, NEW ms, NEW ev, NEW rq,
         Story(B, tr, bl, en, ms, ev, rq),
         NEW t \in B, tr[t].action = "bankReadHit"
  PROVE  tr[t].block \in Slots /\ bl[tr[t].block].ReadCount \in Nat \ {0}
<1> DEFINE b == tr[t].block
           R == Readers(B, tr, b)
<1>1. b \in Slots /\ bl[b].ReadCount = Cardinality(R)
  BY DEF Story, HoldsBlock, ReadsCounted
<1>2. R \in SUBSET ReqID /\ t \in R
  BY DEF Readers, Reader
<1>3. IsFiniteSet(R) /\ Cardinality(R) \in Nat
  BY <1>2, RequestsFinite
<1>4. Cardinality(R) # 0
  BY <1>2, <1>3, FS_EmptySet
<1> QED
  BY <1>1, <1>3, <1>4

\* A read leaves the bank.
LEMMA StoryReadDone ==
  ASSUME NEW B \in SUBSET ReqID, NEW tr, NEW bl, NEW en, NEW ms, NEW ev, NEW rq,
         Story(B, tr, bl, en, ms, ev, rq),
         NEW t \in B, tr[t].action = "bankReadHit", NEW bl2,
         \A c \in Slots :
           /\ Alike(bl2[c], bl[c])
           /\ bl2[c].ReadCount = bl[c].ReadCount - (IF c = tr[t].block THEN 1 ELSE 0)
  PROVE  /\ Story(B \ {t}, tr, bl2, en, ms, ev, rq)
         /\ tr[t].block \in Slots /\ bl[tr[t].block].ReadCount \in Nat \ {0}
<1> DEFINE C == B \ {t}
           b == tr[t].block
<1>0. b \in Slots
  BY DEF Story, HoldsBlock
<1>1. HoldsBlock(C, tr, bl2, rq)
  BY DEF Story, HoldsBlock, Alike, Reader
<1>2. OneOwner(C, tr)
  BY DEF Story, OneOwner, Reader
<1>3. LocksOwned(C, tr, bl2)
  BY DEF Story, LocksOwned, Alike, Reader
<1>4. ASSUME NEW c \in Slots
      PROVE  /\ bl2[c].ReadCount = Cardinality(Readers(C, tr, c))
             /\ c = b => bl[c].ReadCount \in Nat \ {0}
  <2>1. bl[c].ReadCount = Cardinality(Readers(B, tr, c))
    BY DEF Story, ReadsCounted
  <2>2. Readers(B, tr, c) \in SUBSET ReqID /\ Readers(C, tr, c) \in SUBSET ReqID
    BY DEF Readers
  <2>3. /\ IsFiniteSet(Readers(B, tr, c)) /\ Cardinality(Readers(B, tr, c)) \in Nat
        /\ IsFiniteSet(Readers(C, tr, c)) /\ Cardinality(Readers(C, tr, c)) \in Nat
    BY <2>2, RequestsFinite
  <2>4. CASE c = b
    <3>1. Readers(B, tr, c) = Readers(C, tr, c) \cup {t} /\ t \notin Readers(C, tr, c)
      BY <2>4 DEF Readers, Reader
    <3>2. Cardinality(Readers(B, tr, c)) = Cardinality(Readers(C, tr, c)) + 1
      BY <2>3, <3>1, FS_AddElement
    <3> QED
      BY <2>1, <2>3, <2>4, <3>2
  <2>5. CASE c # b
    <3>1. Readers(C, tr, c) = Readers(B, tr, c)
      BY <2>5 DEF Readers, Reader
    <3> QED
      BY <2>1, <2>3, <2>5, <3>1
  <2> QED
    BY <2>4, <2>5
<1>5. EntriesOpen(C, tr, en, ms)
  BY DEF Story, EntriesOpen, Fetching, Filling
<1>6. TagsApart(bl2)
  BY DEF Story, TagsApart, Alike
<1>7. LeavingListed(C, tr, bl2, ev)
  <2>1. Leavers(C, tr) = Leavers(B, tr)
    BY DEF Leavers, Evicting
  <2> QED
    BY <2>1 DEF Story, LeavingListed, Alike
<1> QED
  BY <1>0, <1>1, <1>2, <1>3, <1>4, <1>5, <1>6, <1>7 DEF Story, ReadsCounted

\* The owner of a block has written it.
LEMMA StoryOwnDone ==
  ASSUME NEW B \in SUBSET ReqID, NEW tr, NEW bl, NEW en, NEW ms, NEW ev, NEW rq,
         Story(B, tr, bl, en, ms, ev, rq),
         NEW t \in B, tr[t].action \in {"bankWriteHit", "bankWriteFetched"}, NEW bl2,
         Settled(tr[t].block, bl, bl2)
  PROVE  /\ Story(B \ {t}, tr, bl2, en, ms, ev, rq)
         /\ tr[t].block \in Slots
<1> USE DEF Settled
<1> DEFINE C == B \ {t}
           b == tr[t].block
<1>0. b \in Slots /\ ~Reader(tr, t) /\ bl[b].IsValid
  BY DEF Story, HoldsBlock, Reader
<1>8. \A u \in C : tr[u].block # b
  <2> SUFFICES ASSUME NEW u \in C, tr[u].block = b PROVE FALSE
    OBVIOUS
  <2>1. bl[b].IsLocked
    BY <1>0 DEF Story, HoldsBlock
  <2>2. ~Reader(tr, u)
    BY <2>1 DEF Story, HoldsBlock
  <2> QED
    BY <1>0, <2>2 DEF Story, OneOwner
<1>1. HoldsBlock(C, tr, bl2, rq)
  BY <1>8 DEF Story, HoldsBlock
<1>2. OneOwner(C, tr)
  BY DEF Story, OneOwner
<1>3. LocksOwned(C, tr, bl2)
  <2> SUFFICES ASSUME NEW c \in Slots, bl2[c].IsLocked
               PROVE  \E u \in C : tr[u].block = c /\ ~Reader(tr, u)
    BY DEF LocksOwned
  <2>1. c # b
    OBVIOUS
  <2>2. PICK u \in B : tr[u].block = c /\ ~Reader(tr, u)
    BY <2>1 DEF Story, LocksOwned
  <2> QED
    BY <2>1, <2>2
<1>4. ReadsCounted(C, tr, bl2)
  <2> SUFFICES ASSUME NEW c \in Slots PROVE bl2[c].ReadCount = Cardinality(Readers(C, tr, c))
    BY DEF ReadsCounted
  <2>1. bl[c].ReadCount = Cardinality(Readers(B, tr, c)) /\ bl2[c].ReadCount = bl[c].ReadCount
    BY DEF Story, ReadsCounted
  <2>2. Readers(C, tr, c) = Readers(B, tr, c)
    BY <1>0 DEF Readers
  <2> QED
    BY <2>1, <2>2
<1>5. EntriesOpen(C, tr, en, ms)
  BY DEF Story, EntriesOpen, Fetching, Filling
<1>6. TagsApart(bl2)
  <2>1. \A c \in Slots : /\ bl2[c].Tag = bl[c].Tag
                         /\ bl2[c].IsValid <=> bl[c].IsValid
    BY <1>0
  <2> QED
    BY <2>1 DEF Story, TagsApart
<1>7. LeavingListed(C, tr, bl2, ev)
  <2>1. Leavers(C, tr) = Leavers(B, tr)
    BY DEF Leavers, Evicting
  <2>2. \A c \in Slots : bl2[c].IsValid => bl[c].IsValid /\ bl2[c].Tag = bl[c].Tag
    BY <1>0
  <2> QED
    BY <2>1, <2>2 DEF Story, LeavingListed
<1> QED
  BY <1>0, <1>1, <1>2, <1>3, <1>4, <1>5, <1>6, <1>7 DEF Story

\* The owner of a block goes on to something else: what it evicts has left the
\* array, or its entry is filled.
LEMMA StoryGoesOn ==
  ASSUME NEW B \in SUBSET ReqID, NEW tr, NEW bl, NEW en, NEW ms, NEW ev, NEW rq,
         Story(B, tr, bl, en, ms, ev, rq),
         NEW t \in B, NEW tr2, NEW bl2, NEW en2, NEW ms2, NEW ev2,
         tr[t].action # "bankReadHit",
         tr2[t].action \notin {"invalid", "bankReadHit"} \cup Evicting,
         tr2[t].action \in Filling => tr[t].action \in Filling,
         tr2[t].action \in Fetching => tr[t].action \in Fetching,
         /\ tr2[t].block = tr[t].block /\ tr2[t].entry = tr[t].entry
         /\ tr2[t].evictingAddr = tr[t].evictingAddr,
         \A u \in B : u # t => tr2[u] = tr[u],
         \A u \in B : en2[u].block = en[u].block,
         \A c \in Slots : Alike(bl2[c], bl[c]) /\ bl2[c].ReadCount = bl[c].ReadCount,
         ms2 = IF tr2[t].action \in Fetching THEN ms ELSE ms \ {t},
         ev2 = IF tr[t].action \in Evicting THEN ev \ {tr[t].evictingAddr} ELSE ev
  PROVE  Story(B, tr2, bl2, en2, ms2, ev2, rq)
<1>0. /\ \A u \in B : tr2[u].block = tr[u].block /\ (Reader(tr2, u) <=> Reader(tr, u))
      /\ \A u \in B : tr2[u].evictingAddr = tr[u].evictingAddr
  BY DEF Reader
<1>1. HoldsBlock(B, tr2, bl2, rq)
  BY <1>0 DEF Story, HoldsBlock, Alike
<1>2. OneOwner(B, tr2)
  BY <1>0 DEF Story, OneOwner
<1>3. LocksOwned(B, tr2, bl2)
  BY <1>0 DEF Story, LocksOwned, Alike
<1>4. ReadsCounted(B, tr2, bl2)
  <2> SUFFICES ASSUME NEW c \in Slots PROVE bl2[c].ReadCount = Cardinality(Readers(B, tr2, c))
    BY DEF ReadsCounted
  <2>1. bl2[c].ReadCount = Cardinality(Readers(B, tr, c))
    BY DEF Story, ReadsCounted
  <2>2. Readers(B, tr2, c) = Readers(B, tr, c)
    BY <1>0 DEF Readers
  <2> QED
    BY <2>1, <2>2
<1>5. EntriesOpen(B, tr2, en2, ms2)
  <2>1. \A u \in B : tr2[u].action \in Fetching => u \in ms2
    BY DEF Story, EntriesOpen
  <2>2. \A u \in B : tr2[u].action \in Filling => tr2[u].entry = u /\ en2[u].block = tr2[u].block
    BY <1>0 DEF Story, EntriesOpen
  <2>3. \A u \in ms2 : u \in B /\ tr2[u].action \in Fetching
    BY DEF Story, EntriesOpen
  <2> QED
    BY <2>1, <2>2, <2>3 DEF EntriesOpen
<1>6. TagsApart(bl2)
  BY DEF Story, TagsApart, Alike
<1>7. LeavingListed(B, tr2, bl2, ev2)
  <2> DEFINE L == Leavers(B, tr)
  <2>0. /\ ev = {tr[u].evictingAddr : u \in L}
        /\ \A u, v \in L : tr[u].evictingAddr = tr[v].evictingAddr => u = v
        /\ \A c \in Slots : bl2[c].IsValid => bl2[c].Tag \notin ev
        /\ L \subseteq B /\ (t \in L <=> tr[t].action \in Evicting)
    BY DEF Story, LeavingListed, Leavers, Alike
  <2>1. Leavers(B, tr2) = L \ {t}
    BY DEF Leavers
  <2> HIDE DEF L
  <2>2. ev2 = {tr[u].evictingAddr : u \in L \ {t}}
    BY <2>0
  <2>3. ev2 = {tr2[u].evictingAddr : u \in L \ {t}}
    BY <1>0, <2>0, <2>2
  <2>4. \A u, v \in L \ {t} : tr2[u].evictingAddr = tr2[v].evictingAddr => u = v
    BY <1>0, <2>0
  <2>5. \A c \in Slots : bl2[c].IsValid => bl2[c].Tag \notin ev2
    BY <2>0
  <2> QED
    BY <2>1, <2>3, <2>4, <2>5 DEF LeavingListed
<1> QED
  BY <1>1, <1>2, <1>3, <1>4, <1>5, <1>6, <1>7 DEF Story

\* Whatever else changes.
LEMMA StoryKept ==
  ASSUME NEW B \in SUBSET ReqID, NEW tr, NEW bl, NEW en, NEW ms, NEW ev, NEW rq,
         Story(B, tr, bl, en, ms, ev, rq), NEW tr2, NEW en2, NEW rq2,
         \A u \in B : /\ tr2[u] = tr[u] /\ en2[u].block = en[u].block
                      /\ rq2[u].line = rq[u].line
  PROVE  Story(B, tr2, bl, en2, ms, ev, rq2)
<1>1. HoldsBlock(B, tr2, bl, rq2)
  BY DEF Story, HoldsBlock, Reader
<1>2. OneOwner(B, tr2)
  BY DEF Story, OneOwner, Reader
<1>3. LocksOwned(B, tr2, bl)
  BY DEF Story, LocksOwned, Reader
<1>4. ReadsCounted(B, tr2, bl)
  <2> SUFFICES ASSUME NEW c \in Slots PROVE bl[c].ReadCount = Cardinality(Readers(B, tr2, c))
    BY DEF ReadsCounted
  <2>1. bl[c].ReadCount = Cardinality(Readers(B, tr, c))
    BY DEF Story, ReadsCounted
  <2>2. Readers(B, tr2, c) = Readers(B, tr, c)
    BY DEF Readers, Reader
  <2> QED
    BY <2>1, <2>2
<1>5. EntriesOpen(B, tr2, en2, ms)
  BY DEF Story, EntriesOpen
<1>6. TagsApart(bl)
  BY DEF Story
<1>7. LeavingListed(B, tr2, bl, ev)
  <2>1. Leavers(B, tr2) = Leavers(B, tr) /\ \A u \in Leavers(B, tr) : tr2[u] = tr[u]
    BY DEF Leavers
  <2> QED
    BY <2>1 DEF Story, LeavingListed
<1> QED
  BY <1>1, <1>2, <1>3, <1>4, <1>5, <1>6, <1>7 DEF Story

\* Filtering makes no sequence longer, and keeps what is kept only.
LEMMA FilterShorter ==
  ASSUME NEW S, NEW s \in Seq(S), NEW kept
  PROVE  Len(Filter(s, kept)) =< Len(s)
<1> DEFINE f == UpTo(s, kept)
           Bad == {i \in 0 .. Len(s) : ~(f[i] \in Seq(S) /\ Len(f[i]) =< i)}
<1>1. Len(s) \in Nat /\ \A i \in 1 .. Len(s) : s[i] \in S
  BY LenProperties, ElementOfSeq
<1>2. /\ f[0] = <<>>
      /\ \A i \in 1 .. Len(s) :
           f[i] = IF s[i] \in kept THEN Append(f[i - 1], s[i]) ELSE f[i - 1]
  BY UpToSteps
<1> HIDE DEF f
<1>3. ASSUME Bad # {} PROVE FALSE
  <2>1. PICK m \in Bad : \A k \in Bad : m =< k
    <3>1. Bad \in SUBSET Nat
      BY <1>1
    <3> HIDE DEF Bad
    <3> QED
      BY <1>3, <3>1, MinInSet
  <2>2. <<>> \in Seq(S) /\ Len(<<>>) = 0
    OBVIOUS
  <2>3. m # 0
    <3>1. f[0] \in Seq(S) /\ Len(f[0]) =< 0
      BY <1>2, <2>2
    <3>2. 0 \notin Bad
      BY <3>1
    <3> HIDE DEF Bad
    <3> QED
      BY <2>1, <3>2
  <2>4. m \in 1 .. Len(s) /\ m - 1 \in 0 .. Len(s)
    BY <1>1, <2>3
  <2>5. m - 1 \notin Bad
    <3> HIDE DEF Bad
    <3> QED
      BY <1>1, <2>1, <2>4
  <2>6. f[m - 1] \in Seq(S) /\ Len(f[m - 1]) =< m - 1
    BY <2>4, <2>5
  <2>7. /\ Len(f[m - 1]) \in Nat /\ Append(f[m - 1], s[m]) \in Seq(S)
        /\ Len(Append(f[m - 1], s[m])) = Len(f[m - 1]) + 1
    BY <1>1, <2>4, <2>6, AppendProperties, LenProperties
  <2>8. f[m] \in Seq(S) /\ Len(f[m]) =< m
    <3>1. f[m] = IF s[m] \in kept THEN Append(f[m - 1], s[m]) ELSE f[m - 1]
      BY <1>2, <2>4
    <3>2. CASE s[m] \in kept
      <4>1. f[m] = Append(f[m - 1], s[m])
        BY <3>1, <3>2
      <4>2. Len(f[m]) = Len(f[m - 1]) + 1 /\ f[m] \in Seq(S)
        BY <2>7, <4>1
      <4> DEFINE p == Len(f[m - 1])
                 q == Len(f[m])
      <4>3. p \in Nat /\ q = p + 1 /\ p =< m - 1 /\ m \in Nat
        BY <1>1, <2>4, <2>6, <2>7, <4>2
      <4> HIDE DEF p, q
      <4>4. q =< m
        BY <4>3
      <4> QED
        BY <4>2, <4>4 DEF q
    <3>3. CASE s[m] \notin kept
      <4>1. f[m] = f[m - 1]
        BY <3>1, <3>3
      <4> DEFINE p == Len(f[m - 1])
      <4>2. p \in Nat /\ p =< m - 1 /\ m \in Nat
        BY <1>1, <2>4, <2>6, <2>7
      <4> HIDE DEF p
      <4>3. p =< m
        BY <4>2
      <4> QED
        BY <2>6, <4>1, <4>3 DEF p
    <3> QED
      BY <3>2, <3>3
  <2> QED
    BY <2>1, <2>8
<1>4. Len(f[Len(s)]) =< Len(s)
  BY <1>1, <1>3
<1> QED
  BY <1>4, FilterIsUpTo DEF f

\* The first element a filter keeps is one of the sequence, of the kept ones.
LEMMA FilterHead ==
  ASSUME NEW S, NEW s \in Seq(S), NEW kept, Filter(s, kept) # <<>>
  PROVE  Head(Filter(s, kept)) \in ToSet(s) \cap kept
<1>1. Filter(s, kept) \in Seq(S) /\ ToSet(Filter(s, kept)) = ToSet(s) \cap kept
  BY FilterSet
<1> DEFINE f == Filter(s, kept)
<1> HIDE DEF f
<1>2. f \in Seq(S) /\ f # <<>> => Head(f) = f[1] /\ 1 \in DOMAIN f
  BY HeadTailProperties, EmptySeq, LenProperties
<1>3. f \in Seq(S) /\ f # <<>> => Head(f) \in ToSet(f)
  BY <1>2 DEF ToSet
<1> QED
  BY <1>1, <1>3 DEF f

\* The largest of some numbers.
LEMMA MaxInSet ==
  ASSUME NEW N \in Nat, NEW S \in SUBSET (0 .. N), S # {}
  PROVE  Max(S) \in S
<1> DEFINE T == {n \in Nat : \A x \in S : x =< n}
<1>1. N \in T /\ T \in SUBSET Nat
  OBVIOUS
<1>2. PICK m \in T : \A n \in T : m =< n
  <2> HIDE DEF T
  <2> QED
    BY <1>1, MinInSet
<1>3. m \in S
  <2> SUFFICES ASSUME m \notin S PROVE FALSE
    OBVIOUS
  <2>1. \A x \in S : x =< m - 1
    BY <1>2
  <2>2. m - 1 \in Nat
    <3>1. PICK x \in S : TRUE
      OBVIOUS
    <3>2. x \in Nat /\ x =< m - 1 /\ m \in Nat
      BY <1>2, <2>1
    <3> QED
      BY <3>2
  <2>3. m - 1 \in T
    BY <2>1, <2>2
  <2> HIDE DEF T
  <2> QED
    BY <1>1, <1>2, <2>3
<1>4. \A x \in S : m >= x
  BY <1>2
<1> QED
  BY <1>3, <1>4 DEF Max

\* Sequences in a buffer.
LEMMA Added ==
  ASSUME NEW S, NEW s \in Seq(S), NEW e \in S, NEW c \in Int, Len(s) < c
  PROVE  /\ Append(s, e) \in Seq(S) /\ Len(Append(s, e)) = Len(s) + 1
         /\ Len(Append(s, e)) =< c /\ Len(s) \in Nat
         /\ ToSet(Append(s, e)) = ToSet(s) \cup {e}
BY AppendProperties, LenProperties, SetAppended

\* Taking the first element of a sequence.
LEMMA Taken1 ==
  ASSUME NEW S, NEW s \in Seq(S), s # <<>>
  PROVE  /\ Head(s) \in S /\ Tail(s) \in Seq(S) /\ Len(Tail(s)) = Len(s) - 1
         /\ Len(s) \in Nat \ {0} /\ Head(s) = s[1]
         /\ \A i \in 1 .. Len(Tail(s)) : Tail(s)[i] = s[i + 1]
BY HeadTailProperties, LenProperties, EmptySeq

\* A buffer of one.
LEMMA OneAdded ==
  ASSUME NEW buf, Single(buf), Room(buf, 1), NEW t \in ReqID
  PROVE  /\ buf = <<>> /\ ToSet(buf) = {} /\ Len(buf) = 0
         /\ Append(buf, t) = <<t>> /\ Single(<<t>>) /\ ToSet(<<t>>) = {t}
         /\ <<t>> # <<>> /\ Head(<<t>>) = t /\ Len(<<t>>) = 1 /\ <<t>>[1] = t
<1>1. buf \in Seq(ReqID) /\ Len(buf) \in Nat /\ Len(buf) < 1
  BY LenProperties DEF Single, Room
<1>2. buf = <<>> /\ Len(buf) = 0
  BY <1>1, EmptySeq
<1>3. Append(buf, t) = <<t>> /\ <<t>> \in Seq(ReqID) /\ Len(<<t>>) = 1
  BY <1>2
<1>4. ToSet(<<>>) = {} /\ ToSet(<<t>>) = {t}
  BY SetOfEmpty DEF ToSet
<1> QED
  BY <1>2, <1>3, <1>4 DEF Single

\* Taking the transaction of a buffer between two stages empties the buffer.
LEMMA OneTaken ==
  ASSUME NEW buf, Single(buf), buf # <<>>
  PROVE  /\ Head(buf) \in ReqID /\ ToSet(buf) = {Head(buf)} /\ Len(buf) = 1
         /\ Head(buf) = buf[1]
         /\ Tail(buf) = <<>> /\ ToSet(<<>>) = {} /\ Single(<<>>) /\ Len(<<>>) = 0
         /\ Tail(buf) \in Seq(ReqID)
<1>1. /\ buf \in Seq(ReqID) /\ Head(buf) \in ReqID /\ Tail(buf) \in Seq(ReqID)
      /\ Len(Tail(buf)) = Len(buf) - 1 /\ Len(buf) \in Nat \ {0}
      /\ Head(buf) = buf[1] /\ Len(buf) =< 1
  BY Taken1 DEF Single
<1>2. Len(buf) = 1 /\ Len(Tail(buf)) = 0
  BY <1>1
<1>3. Tail(buf) = <<>>
  BY <1>1, <1>2, EmptySeq
<1>4. DOMAIN buf = {1}
  BY <1>1, <1>2, LenProperties
<1>5. ToSet(buf) = {Head(buf)}
  BY <1>1, <1>4 DEF ToSet
<1>6. <<>> \in Seq(ReqID) /\ Len(<<>>) = 0
  OBVIOUS
<1> QED
  BY <1>1, <1>2, <1>3, <1>5, <1>6, SetOfEmpty DEF Single

(***************************************************************************)
(* The requests that wait                                                  *)
(***************************************************************************)
LEMMA WaitAccept ==
  ASSUME NEW rq \in Seq(Request), NEW ti \in Seq(ReqID), NEW ds, NEW db,
         Single(ds), Single(db), Waits(rq, ti, ds, db), ds # <<>>, Room(db, 1)
  PROVE  /\ Waits(rq, ti, Tail(ds), Append(db, Head(ds)))
         /\ TakenOf(rq, ti, Tail(ds), Append(db, Head(ds))) = TakenOf(rq, ti, ds, db)
<1> DEFINE t == Head(ds)
<1>1. t \in ReqID /\ Len(ds) = 1 /\ t = ds[1] /\ Tail(ds) = <<>> /\ Len(<<>>) = 0
  BY OneTaken
<1>2. db = <<>> /\ Len(db) = 0 /\ Append(db, t) = <<t>> /\ Len(<<t>>) = 1 /\ <<t>>[1] = t
  BY <1>1, OneAdded
<1>3. Len(rq) \in Nat /\ Len(ti) \in Nat
  BY LenProperties
<1>4. TakenOf(rq, ti, <<>>, <<t>>) = TakenOf(rq, ti, ds, db)
  BY <1>1, <1>2, <1>3 DEF TakenOf
<1>5. t = TakenOf(rq, ti, ds, db) + 1
  <2>1. t = Len(rq) - Len(ti)
    BY <1>1 DEF Waits
  <2>2. TakenOf(rq, ti, ds, db) = Len(rq) - Len(ti) - 1 - 0
    BY <1>1, <1>2 DEF TakenOf
  <2> HIDE DEF t
  <2> QED
    BY <1>3, <2>1, <2>2
<1> HIDE DEF t
<1>6. Waits(rq, ti, <<>>, <<t>>)
  BY <1>2, <1>4, <1>5 DEF Waits
<1> QED
  BY <1>1, <1>2, <1>4, <1>6 DEF t

\* The directory takes the oldest request that waits.
LEMMA WaitDone ==
  ASSUME NEW rq \in Seq(Request), NEW ti \in Seq(ReqID), NEW ds, NEW db,
         Single(ds), Single(db), Waits(rq, ti, ds, db), db # <<>>
  PROVE  /\ Waits(rq, ti, ds, Tail(db))
         /\ TakenOf(rq, ti, ds, Tail(db)) = TakenOf(rq, ti, ds, db) + 1
         /\ Head(db) = TakenOf(rq, ti, ds, db) + 1 /\ Head(db) \in 1 .. Len(rq)
<1>1. /\ Head(db) \in ReqID /\ Len(db) = 1 /\ Head(db) = db[1] /\ Tail(db) = <<>>
      /\ Len(<<>>) = 0
  BY OneTaken
<1>2. Len(rq) \in Nat /\ Len(ti) \in Nat /\ Len(ds) \in Nat
  BY LenProperties DEF Single
<1>3. Head(db) = TakenOf(rq, ti, ds, db) + 1 /\ TakenOf(rq, ti, ds, db) \in Nat
  BY <1>1 DEF Waits
<1>4. TakenOf(rq, ti, ds, Tail(db)) = TakenOf(rq, ti, ds, db) + 1
  <2>1. TakenOf(rq, ti, ds, Tail(db)) = Len(rq) - Len(ti) - Len(ds) - 0
    BY <1>1 DEF TakenOf
  <2>2. TakenOf(rq, ti, ds, db) = Len(rq) - Len(ti) - Len(ds) - 1
    BY <1>1 DEF TakenOf
  <2> QED
    BY <1>2, <2>1, <2>2
<1>5. Head(db) \in 1 .. Len(rq)
  BY <1>1, <1>2, <1>3 DEF TakenOf
<1>6. Waits(rq, ti, ds, Tail(db))
  BY <1>1, <1>3, <1>4 DEF Waits
<1> QED
  BY <1>3, <1>4, <1>5, <1>6

\* The top parser hands a request on: the requests still wait in their order.
LEMMA WaitParse ==
  ASSUME NEW rq \in Seq(Request), NEW ti \in Seq(ReqID), NEW ds, NEW db,
         Single(ds), Single(db), Waits(rq, ti, ds, db), ti # <<>>, Room(ds, 1)
  PROVE  /\ Waits(rq, Tail(ti), Append(ds, Head(ti)), db)
         /\ TakenOf(rq, Tail(ti), Append(ds, Head(ti)), db) = TakenOf(rq, ti, ds, db)
<1> DEFINE t == Head(ti)
           u == Tail(ti)
<1>1. /\ t \in ReqID /\ t = ti[1] /\ Len(u) = Len(ti) - 1 /\ Len(ti) \in Nat \ {0}
      /\ \A i \in 1 .. Len(u) : u[i] = ti[i + 1]
  BY Taken1
<1>2. ds = <<>> /\ Len(ds) = 0 /\ Append(ds, t) = <<t>> /\ Len(<<t>>) = 1 /\ <<t>>[1] = t
  BY <1>1, OneAdded
<1>3. Len(rq) \in Nat /\ Len(db) \in Nat
  BY LenProperties DEF Single
<1> HIDE DEF t, u
<1>4. TakenOf(rq, u, <<t>>, db) = TakenOf(rq, ti, ds, db)
  BY <1>1, <1>2, <1>3 DEF TakenOf
<1>5. \A i \in 1 .. Len(u) : u[i] = Len(rq) - Len(u) + i
  BY <1>1, <1>3 DEF Waits
<1>6. t = Len(rq) - Len(u)
  BY <1>1, <1>3 DEF Waits
<1> QED
  BY <1>2, <1>4, <1>5, <1>6 DEF Waits, t, u

\* A new request waits behind the others.
LEMMA WaitDeliver ==
  ASSUME NEW rq \in Seq(Request), NEW ti \in Seq(ReqID), NEW ds, NEW db,
         Single(ds), Single(db), Waits(rq, ti, ds, db), NEW r \in Request,
         Len(rq) + 1 \in ReqID
  PROVE  /\ Waits(Append(rq, r), Append(ti, Len(rq) + 1), ds, db)
         /\ TakenOf(Append(rq, r), Append(ti, Len(rq) + 1), ds, db) = TakenOf(rq, ti, ds, db)
<1> DEFINE p == Append(rq, r)
           u == Append(ti, Len(rq) + 1)
<1>1. Len(rq) \in Nat /\ Len(ti) \in Nat /\ Len(ds) \in Nat /\ Len(db) \in Nat
  BY LenProperties DEF Single
<1>2. Len(p) = Len(rq) + 1
  BY AppendProperties
<1>3. /\ Len(u) = Len(ti) + 1 /\ u[Len(ti) + 1] = Len(rq) + 1
      /\ \A i \in 1 .. Len(ti) : u[i] = ti[i]
  BY AppendProperties
<1> HIDE DEF p, u
<1>4. TakenOf(p, u, ds, db) = TakenOf(rq, ti, ds, db)
  BY <1>1, <1>2, <1>3 DEF TakenOf
<1>5. ASSUME NEW i \in 1 .. Len(u) PROVE u[i] = Len(p) - Len(u) + i
  <2>1. CASE i = Len(ti) + 1
    BY <1>1, <1>2, <1>3, <2>1
  <2>2. CASE i \in 1 .. Len(ti)
    <3>1. u[i] = Len(rq) - Len(ti) + i
      BY <1>3, <2>2 DEF Waits
    <3> QED
      BY <1>1, <1>2, <1>3, <2>2, <3>1
  <2> QED
    BY <1>1, <1>3, <2>1, <2>2
<1>6. Len(p) - Len(u) = Len(rq) - Len(ti)
  BY <1>1, <1>2, <1>3
<1> QED
  BY <1>4, <1>5, <1>6 DEF Waits, p, u

(***************************************************************************)
(* The reads below                                                         *)
(***************************************************************************)
LEMMA ReadAppended ==
  ASSUME NEW S, NEW s \in Seq(S), NEW m \in S, AskedOnce(s),
         m.write \/ m.of \notin ReadsOf(s)
  PROVE  /\ AskedOnce(Append(s, m))
         /\ ReadsOf(Append(s, m)) = ReadsOf(s) \cup (IF m.write THEN {} ELSE {m.of})
<1> DEFINE a == Append(s, m)
           n == Len(s) + 1
<1>1. /\ n \in Nat /\ Len(s) \in Nat /\ DOMAIN s = 1 .. Len(s)
      /\ DOMAIN a = 1 .. n /\ a[n] = m
      /\ \A i \in 1 .. Len(s) : a[i] = s[i]
  BY AppendProperties, LenProperties
<1> HIDE DEF a
<1>2. DOMAIN a = DOMAIN s \cup {n} /\ n \notin DOMAIN s
  BY <1>1
<1>3. \A i \in DOMAIN s : a[i] = s[i]
  BY <1>1
<1> HIDE DEF n
<1>4. AskedOnce(a)
  <2> SUFFICES ASSUME NEW i \in DOMAIN a, NEW j \in DOMAIN a, ~a[i].write, ~a[j].write,
                      a[i].of = a[j].of
               PROVE  i = j
    BY DEF AskedOnce
  <2>1. \A k \in DOMAIN s : ~s[k].write => s[k].of \in ReadsOf(s)
    BY DEF ReadsOf
  <2>2. CASE i = n /\ j # n
    BY <1>1, <1>2, <1>3, <2>1, <2>2
  <2>3. CASE i # n /\ j = n
    BY <1>1, <1>2, <1>3, <2>1, <2>3
  <2>4. CASE i # n /\ j # n
    BY <1>2, <1>3, <2>4 DEF AskedOnce
  <2> QED
    BY <2>2, <2>3, <2>4
<1>5. ASSUME NEW x PROVE x \in ReadsOf(a) <=> x \in ReadsOf(s) \/ (~m.write /\ x = m.of)
  BY <1>1, <1>2, <1>3 DEF ReadsOf
<1>6. ReadsOf(a) = ReadsOf(s) \cup (IF m.write THEN {} ELSE {m.of})
  BY <1>5
<1> QED
  BY <1>4, <1>6 DEF a

\* Taking the first message of a list in which no transaction's read is twice.
LEMMA ReadTaken ==
  ASSUME NEW S, NEW s \in Seq(S), s # <<>>, AskedOnce(s)
  PROVE  /\ AskedOnce(Tail(s))
         /\ ReadsOf(Tail(s)) = ReadsOf(s) \ (IF Head(s).write THEN {} ELSE {Head(s).of})
         /\ ~Head(s).write => Head(s).of \in ReadsOf(s)
<1> DEFINE r == Tail(s)
           h == Head(s)
<1>1. /\ Len(s) \in Nat /\ DOMAIN s = 1 .. Len(s) /\ DOMAIN r = 1 .. Len(s) - 1
      /\ 1 \in DOMAIN s /\ h = s[1]
      /\ \A i \in DOMAIN r : i + 1 \in DOMAIN s /\ r[i] = s[i + 1] /\ i + 1 # 1
  <2>1. /\ r \in Seq(S) /\ Len(r) = Len(s) - 1 /\ Len(s) \in Nat \ {0} /\ h = s[1]
        /\ \A i \in 1 .. Len(r) : r[i] = s[i + 1]
    BY Taken1
  <2>2. DOMAIN s = 1 .. Len(s) /\ DOMAIN r = 1 .. Len(r)
    BY <2>1, LenProperties
  <2> HIDE DEF r, h
  <2> QED
    BY <2>1, <2>2
<1> HIDE DEF r, h
<1>2. ~h.write => h.of \in ReadsOf(s)
  BY <1>1 DEF ReadsOf
<1>3. AskedOnce(r)
  <2> SUFFICES ASSUME NEW i \in DOMAIN r, NEW j \in DOMAIN r, ~r[i].write, ~r[j].write,
                      r[i].of = r[j].of
               PROVE  i = j
    BY DEF AskedOnce
  <2>1. i + 1 = j + 1
    BY <1>1 DEF AskedOnce
  <2> QED
    BY <1>1, <2>1
<1>4. ASSUME NEW x, x \in ReadsOf(r) PROVE x \in ReadsOf(s) /\ (~h.write => x # h.of)
  <2>1. PICK i \in DOMAIN r : ~r[i].write /\ x = r[i].of
    BY <1>4 DEF ReadsOf
  <2>2. i + 1 \in DOMAIN s /\ ~s[i + 1].write /\ x = s[i + 1].of /\ i + 1 # 1
    BY <1>1, <2>1
  <2>3. x \in ReadsOf(s)
    BY <2>2 DEF ReadsOf
  <2>4. ~h.write => x # h.of
    BY <1>1, <2>2 DEF AskedOnce
  <2> QED
    BY <2>3, <2>4
<1>5. ASSUME NEW x, x \in ReadsOf(s), h.write \/ x # h.of PROVE x \in ReadsOf(r)
  <2>1. PICK i \in DOMAIN s : ~s[i].write /\ x = s[i].of
    BY <1>5 DEF ReadsOf
  <2>2. i # 1
    BY <1>1, <1>5, <2>1
  <2>3. i - 1 \in DOMAIN r /\ (i - 1) + 1 = i
    BY <1>1, <2>2
  <2>4. r[i - 1] = s[i]
    BY <1>1, <2>3
  <2> QED
    BY <2>1, <2>3, <2>4 DEF ReadsOf
<1>6. ReadsOf(r) = ReadsOf(s) \ (IF h.write THEN {} ELSE {h.of})
  BY <1>4, <1>5
<1> QED
  BY <1>2, <1>3, <1>6 DEF r, h

\* A new read below, of a transaction that is not being fetched.
LEMMA AskRead ==
  ASSUME NEW S, NEW bo \in Seq(S), NEW lr, NEW bi, NEW F, Asks(bo, lr, bi, F),
         NEW m \in S, ~m.write, m.of \notin F
  PROVE  Asks(Append(bo, m), lr, bi, F \cup {m.of})
<1>1. /\ AskedOnce(Append(bo, m))
      /\ ReadsOf(Append(bo, m)) = ReadsOf(bo) \cup {m.of}
  BY ReadAppended DEF Asks
<1> QED
  BY <1>1 DEF Asks

\* An eviction sent below asks for no read.
LEMMA AskWrite ==
  ASSUME NEW S, NEW bo \in Seq(S), NEW lr, NEW bi, NEW F, Asks(bo, lr, bi, F),
         NEW m \in S, m.write
  PROVE  Asks(Append(bo, m), lr, bi, F)
<1>1. /\ AskedOnce(Append(bo, m))
      /\ ReadsOf(Append(bo, m)) = ReadsOf(bo)
  BY ReadAppended DEF Asks
<1> QED
  BY <1>1 DEF Asks

\* The memory takes a message: a read is still in one place.
LEMMA AskAccept ==
  ASSUME NEW S, NEW bo \in Seq(S), NEW lr \in Seq(S), NEW bi, NEW F, Asks(bo, lr, bi, F),
         bo # <<>>
  PROVE  Asks(Tail(bo), Append(lr, Head(bo)), bi, F)
<1> DEFINE m == Head(bo)
           R == IF m.write THEN {} ELSE {m.of}
<1>1. AskedOnce(bo) /\ AskedOnce(lr) /\ m \in S
  BY Taken1 DEF Asks
<1>2. /\ AskedOnce(Tail(bo)) /\ ReadsOf(Tail(bo)) = ReadsOf(bo) \ R
      /\ ~m.write => m.of \in ReadsOf(bo)
  BY <1>1, ReadTaken
<1> HIDE DEF m
<1>3. m.write \/ m.of \notin ReadsOf(lr)
  BY <1>2 DEF Asks
<1>4. AskedOnce(Append(lr, m)) /\ ReadsOf(Append(lr, m)) = ReadsOf(lr) \cup R
  BY <1>1, <1>3, ReadAppended
<1>5. R \subseteq ReadsOf(bo)
  BY <1>2
<1> HIDE DEF R
<1>6. Asks(Tail(bo), Append(lr, m), bi, F)
  BY <1>2, <1>4, <1>5 DEF Asks
<1> QED
  BY <1>6 DEF m

\* The memory answers a message: the read's answer takes the place of the read.
LEMMA AskRespond ==
  ASSUME NEW S, NEW Q, NEW bo, NEW lr \in Seq(S), NEW bi \in Seq(Q), NEW F,
         Asks(bo, lr, bi, F), lr # <<>>, NEW a \in Q,
         a.write <=> Head(lr).write, a.of = Head(lr).of
  PROVE  Asks(bo, Tail(lr), Append(bi, a), F)
<1> DEFINE m == Head(lr)
           R == IF m.write THEN {} ELSE {m.of}
<1>1. AskedOnce(lr) /\ AskedOnce(bi) /\ m \in S
  BY Taken1 DEF Asks
<1>2. /\ AskedOnce(Tail(lr)) /\ ReadsOf(Tail(lr)) = ReadsOf(lr) \ R
      /\ ~m.write => m.of \in ReadsOf(lr)
  BY <1>1, ReadTaken
<1>3. a.write \/ a.of \notin ReadsOf(bi)
  BY <1>2 DEF Asks
<1>4. AskedOnce(Append(bi, a)) /\ ReadsOf(Append(bi, a)) = ReadsOf(bi) \cup R
  BY <1>1, <1>3, ReadAppended
<1>5. R \subseteq ReadsOf(lr)
  BY <1>2
<1> HIDE DEF R, m
<1> QED
  BY <1>2, <1>4, <1>5 DEF Asks

\* The write buffer takes an answer: of an eviction, and nothing is asked less;
\* of a read, and the fetch it belongs to is over.
LEMMA AskDone ==
  ASSUME NEW S, NEW bo, NEW lr, NEW bi \in Seq(S), NEW F, Asks(bo, lr, bi, F), bi # <<>>
  PROVE  /\ Head(bi).write => Asks(bo, lr, Tail(bi), F)
         /\ ~Head(bi).write =>
              Head(bi).of \in F /\ Asks(bo, lr, Tail(bi), F \ {Head(bi).of})
<1> DEFINE m == Head(bi)
           R == IF m.write THEN {} ELSE {m.of}
<1>1. AskedOnce(bi)
  BY DEF Asks
<1>2. /\ AskedOnce(Tail(bi)) /\ ReadsOf(Tail(bi)) = ReadsOf(bi) \ R
      /\ ~m.write => m.of \in ReadsOf(bi)
  BY <1>1, ReadTaken
<1> HIDE DEF m
<1>3. m.write => Asks(bo, lr, Tail(bi), F)
  BY <1>2 DEF Asks
<1>4. ~m.write => m.of \in F /\ Asks(bo, lr, Tail(bi), F \ {m.of})
  BY <1>2 DEF Asks
<1> QED
  BY <1>3, <1>4 DEF m

(***************************************************************************)
(* A transaction goes from place to place                                  *)
(***************************************************************************)
LEMMA WorldTyped ==
  ASSUME NEW D, NEW K, NEW W, NEW U, NEW F, NEW M, NEW n, NEW tr, NEW bl, NEW en,
         NEW ms, NEW ev, NEW rq, World(D, K, W, U, F, M, n, tr, bl, en, ms, ev, rq)
  PROVE  /\ All(D, K, W, U, F) \in SUBSET ReqID /\ M \in SUBSET ReqID
         /\ All(D, K, W, U, F) \in SUBSET (1 .. n) /\ n \in Nat
         /\ \A t \in M : t \notin All(D, K, W, U, F)
         /\ \A t \in All(D, K, W, U, F) :
              /\ tr[t].action # "invalid" /\ tr[t].block \in Slots
              /\ tr[t].action \in Filling =>
                   /\ tr[t].entry = t /\ en[t].block = tr[t].block
                   /\ en[t].requests # <<>>
<1>1. 1 .. n \subseteq ReqID /\ n \in Nat
  <2>1. MaxReqs \in Nat
    BY WritebackAssumption
  <2> QED
    BY <2>1 DEF World, ReqID
<1>2. D \cup K \cup W \cup U \cup F \cup M \subseteq 1 .. n
  BY DEF World, Places
<1>3. M \cap All(D, K, W, U, F) = {}
  BY DEF World, Places, All
<1>4. HoldsBlock(All(D, K, W, U, F), tr, bl, rq) /\ EntriesOpen(All(D, K, W, U, F), tr, en, ms)
  BY DEF World, Story
<1>5. \A t \in All(D, K, W, U, F) :
              /\ tr[t].action # "invalid" /\ tr[t].block \in Slots
              /\ tr[t].action \in Filling => tr[t].entry = t /\ en[t].block = tr[t].block
  BY <1>4 DEF HoldsBlock, EntriesOpen
<1>6. \A t \in All(D, K, W, U, F) : tr[t].action \in Filling => en[t].requests # <<>>
  BY DEF World, Opens
<1> QED
  BY <1>1, <1>2, <1>3, <1>5, <1>6 DEF All

\* A read is answered.
LEMMA WorldRead ==
  ASSUME NEW D, NEW K, NEW W, NEW U, NEW F, NEW M, NEW n, NEW tr, NEW bl, NEW en,
         NEW ms, NEW ev, NEW rq, World(D, K, W, U, F, M, n, tr, bl, en, ms, ev, rq),
         NEW t \in K, tr[t].action = "bankReadHit", NEW bl2,
         \A c \in Slots :
           /\ Alike(bl2[c], bl[c])
           /\ bl2[c].ReadCount = bl[c].ReadCount - (IF c = tr[t].block THEN 1 ELSE 0)
  PROVE  /\ World(D, K \ {t}, W, U, F, M, n, tr, bl2, en, ms, ev, rq)
         /\ bl[tr[t].block].ReadCount \in Nat \ {0}
<1> DEFINE B == All(D, K, W, U, F)
<1>1. B \in SUBSET ReqID /\ t \in B
  BY WorldTyped DEF All
<1>2. All(D, K \ {t}, W, U, F) = B \ {t}
  <2>1. t \notin D /\ t \notin W /\ t \notin U /\ t \notin F
    BY DEF World, Places
  <2> QED
    BY <2>1 DEF All
<1>3. Places(D, K \ {t}, W, U, F, M, n)
  BY DEF World, Places
<1>4. Fits(D, K \ {t}, W, U, F, tr)
  BY DEF World, Fits
<1> HIDE DEF B
<1>5. Opens(B \ {t}, M, tr, en)
  BY DEF World, Opens, B
<1>6. Story(B, tr, bl, en, ms, ev, rq)
  BY DEF World, B
<1>7. Story(B \ {t}, tr, bl2, en, ms, ev, rq)
  BY <1>1, <1>6, StoryReadDone
<1>8. bl[tr[t].block].ReadCount \in Nat \ {0}
  BY <1>1, <1>6, StoryReads
<1> QED
  BY <1>2, <1>3, <1>4, <1>5, <1>7, <1>8 DEF World

\* A write is done.
LEMMA WorldWritten ==
  ASSUME NEW D, NEW K, NEW W, NEW U, NEW F, NEW M, NEW n, NEW tr, NEW bl, NEW en,
         NEW ms, NEW ev, NEW rq, World(D, K, W, U, F, M, n, tr, bl, en, ms, ev, rq),
         NEW t \in K, tr[t].action = "bankWriteHit", NEW bl2,
         Settled(tr[t].block, bl, bl2)
  PROVE  World(D, K \ {t}, W, U, F, M, n, tr, bl2, en, ms, ev, rq)
<1> DEFINE B == All(D, K, W, U, F)
<1>1. B \in SUBSET ReqID /\ t \in B
  BY WorldTyped DEF All
<1>2. All(D, K \ {t}, W, U, F) = B \ {t}
  <2>1. t \notin D /\ t \notin W /\ t \notin U /\ t \notin F
    BY DEF World, Places
  <2> QED
    BY <2>1 DEF All
<1>3. Places(D, K \ {t}, W, U, F, M, n)
  BY DEF World, Places
<1>4. Fits(D, K \ {t}, W, U, F, tr)
  BY DEF World, Fits
<1> HIDE DEF B
<1>5. Opens(B \ {t}, M, tr, en)
  BY DEF World, Opens, B
<1>6. Story(B, tr, bl, en, ms, ev, rq)
  BY DEF World, B
<1>7. tr[t].action \in {"bankWriteHit", "bankWriteFetched"}
  OBVIOUS
<1>8. Story(B \ {t}, tr, bl2, en, ms, ev, rq)
  BY <1>1, <1>6, <1>7, StoryOwnDone
<1> QED
  BY <1>2, <1>3, <1>4, <1>5, <1>8 DEF World

\* What was fetched is written.
LEMMA WorldFilled ==
  ASSUME NEW D, NEW K, NEW W, NEW U, NEW F, NEW M, NEW n, NEW tr, NEW bl, NEW en,
         NEW ms, NEW ev, NEW rq, World(D, K, W, U, F, M, n, tr, bl, en, ms, ev, rq),
         NEW t \in K, tr[t].action = "bankWriteFetched", NEW bl2,
         Settled(tr[t].block, bl, bl2)
  PROVE  World(D, K \ {t}, W, U, F, M \cup {t}, n, tr, bl2, en, ms, ev, rq)
<1> DEFINE B == All(D, K, W, U, F)
<1>1. B \in SUBSET ReqID /\ t \in B
  BY WorldTyped DEF All
<1>2. All(D, K \ {t}, W, U, F) = B \ {t}
  <2>1. t \notin D /\ t \notin W /\ t \notin U /\ t \notin F
    BY DEF World, Places
  <2> QED
    BY <2>1 DEF All
<1>3. Places(D, K \ {t}, W, U, F, M \cup {t}, n)
  BY DEF World, Places
<1>4. Fits(D, K \ {t}, W, U, F, tr)
  BY DEF World, Fits
<1> HIDE DEF B
<1>5. Opens(B \ {t}, M \cup {t}, tr, en)
  <2>1. Opens(B, M, tr, en)
    BY DEF World, B
  <2>2. tr[t].action \in Filling
    BY DEF Filling
  <2> QED
    BY <1>1, <2>1, <2>2 DEF Opens
<1>6. Story(B, tr, bl, en, ms, ev, rq)
  BY DEF World, B
<1>7. tr[t].action \in {"bankWriteHit", "bankWriteFetched"}
  OBVIOUS
<1>8. Story(B \ {t}, tr, bl2, en, ms, ev, rq)
  BY <1>1, <1>6, <1>7, StoryOwnDone
<1> QED
  BY <1>2, <1>3, <1>4, <1>5, <1>8 DEF World

\* The old contents of a block leave it.
LEMMA WorldEvicted ==
  ASSUME NEW D, NEW K, NEW W, NEW U, NEW F, NEW M, NEW n, NEW tr, NEW bl, NEW en,
         NEW ms, NEW ev, NEW rq, World(D, K, W, U, F, M, n, tr, bl, en, ms, ev, rq),
         NEW t \in K, tr[t].action \in Evicting, NEW tr2,
         \A u \in ReqID : u # t => tr2[u] = tr[u],
         tr2[t].action = IF tr[t].action = "bankEvictAndFetch" THEN "writeBufferEvictAndFetch"
                                                               ELSE "writeBufferEvictAndWrite",
         /\ tr2[t].block = tr[t].block /\ tr2[t].entry = tr[t].entry
         /\ tr2[t].evictingAddr = tr[t].evictingAddr
  PROVE  World(D, K \ {t}, W \cup {t}, U, F, M, n, tr2, bl, en, ms,
               ev \ {tr[t].evictingAddr}, rq)
<1> DEFINE B == All(D, K, W, U, F)
<1>1. B \in SUBSET ReqID /\ t \in B
  BY WorldTyped DEF All
<1>2. All(D, K \ {t}, W \cup {t}, U, F) = B
  BY DEF All
<1>3. Places(D, K \ {t}, W \cup {t}, U, F, M, n) /\ t \notin D /\ t \notin U /\ t \notin F
  BY DEF World, Places
<1>4. D \subseteq ReqID /\ K \subseteq ReqID /\ W \subseteq ReqID /\ U \subseteq ReqID /\ F \subseteq ReqID
  BY <1>1 DEF All
<1>5. tr2[t].action \in {"writeBufferFetch", "writeBufferEvictAndFetch", "writeBufferEvictAndWrite"}
  OBVIOUS
<1>6. Fits(D, K \ {t}, W \cup {t}, U, F, tr2)
  <2>1. Fits(D, K, W, U, F, tr)
    BY DEF World
  <2> QED
    BY <1>3, <1>4, <1>5, <2>1 DEF Fits
<1> HIDE DEF B
<1>7. /\ tr2[t].action \in Filling => tr[t].action \in Filling
      /\ tr2[t].action \in Fetching => tr[t].action \in Fetching
      /\ tr[t].action \in Fetching => tr2[t].action \in Fetching
      /\ tr2[t].action \notin {"invalid", "bankReadHit"} \cup Evicting
      /\ tr[t].action # "bankReadHit"
  BY DEF Filling, Fetching, Evicting
<1>8. Opens(B, M, tr2, en)
  <2>1. Opens(B, M, tr, en)
    BY DEF World, B
  <2> QED
    BY <1>1, <1>7, <2>1 DEF Opens
<1>9. Story(B, tr, bl, en, ms, ev, rq)
  BY DEF World, B
<1>10. ms = IF tr2[t].action \in Fetching THEN ms ELSE ms \ {t}
  <2>1. \A u \in ms : tr[u].action \in Fetching
    BY <1>9 DEF Story, EntriesOpen
  <2> QED
    BY <1>7, <2>1
<1>11. \A c \in Slots : Alike(bl[c], bl[c]) /\ bl[c].ReadCount = bl[c].ReadCount
  BY DEF Alike
<1>12. \A u \in B : u # t => tr2[u] = tr[u]
  BY <1>1
<1> DEFINE ev2 == ev \ {tr[t].evictingAddr}
<1>13. ev2 = IF tr[t].action \in Evicting THEN ev \ {tr[t].evictingAddr} ELSE ev
  OBVIOUS
<1> HIDE DEF ev2
<1>14. Story(B, tr2, bl, en, ms, ev2, rq)
  BY <1>1, <1>7, <1>9, <1>10, <1>11, <1>12, <1>13, StoryGoesOn
<1> QED
  BY <1>2, <1>3, <1>6, <1>8, <1>14 DEF World, ev2

\* From the way back into the bank ...
LEMMA WorldBack ==
  ASSUME NEW D, NEW K, NEW W, NEW U, NEW F, NEW M, NEW n, NEW tr, NEW bl, NEW en,
         NEW ms, NEW ev, NEW rq, World(D, K, W, U, F, M, n, tr, bl, en, ms, ev, rq),
         NEW t \in U
  PROVE  /\ World(D, K \cup {t}, W, U \ {t}, F, M, n, tr, bl, en, ms, ev, rq)
         /\ t \notin K
<1>1. All(D, K \cup {t}, W, U \ {t}, F) = All(D, K, W, U, F)
  BY DEF All
<1>2. Places(D, K \cup {t}, W, U \ {t}, F, M, n) /\ t \notin K
  BY DEF World, Places
<1>3. Fits(D, K \cup {t}, W, U \ {t}, F, tr)
  <2>1. Fits(D, K, W, U, F, tr)
    BY DEF World
  <2> QED
    BY <2>1 DEF Fits
<1> QED
  BY <1>1, <1>2, <1>3 DEF World

\* ... from the directory into the bank ...
LEMMA WorldDown ==
  ASSUME NEW D, NEW K, NEW W, NEW U, NEW F, NEW M, NEW n, NEW tr, NEW bl, NEW en,
         NEW ms, NEW ev, NEW rq, World(D, K, W, U, F, M, n, tr, bl, en, ms, ev, rq),
         NEW t \in D, tr[t].action # "writeBufferFetch"
  PROVE  /\ World(D \ {t}, K \cup {t}, W, U, F, M, n, tr, bl, en, ms, ev, rq)
         /\ t \notin K
<1>1. All(D \ {t}, K \cup {t}, W, U, F) = All(D, K, W, U, F)
  BY DEF All
<1>2. Places(D \ {t}, K \cup {t}, W, U, F, M, n) /\ t \notin K
  BY DEF World, Places
<1>3. Fits(D \ {t}, K \cup {t}, W, U, F, tr)
  <2>1. Fits(D, K, W, U, F, tr)
    BY DEF World
  <2>2. tr[t].action \in {"bankReadHit", "bankWriteHit", "bankWriteFetched"} \cup Evicting
    BY <2>1 DEF Fits
  <2> QED
    BY <2>1, <2>2 DEF Fits
<1> QED
  BY <1>1, <1>2, <1>3 DEF World

\* ... or past it, ...
LEMMA WorldPast ==
  ASSUME NEW D, NEW K, NEW W, NEW U, NEW F, NEW M, NEW n, NEW tr, NEW bl, NEW en,
         NEW ms, NEW ev, NEW rq, World(D, K, W, U, F, M, n, tr, bl, en, ms, ev, rq),
         NEW t \in D, tr[t].action = "writeBufferFetch"
  PROVE  World(D \ {t}, K, W \cup {t}, U, F, M, n, tr, bl, en, ms, ev, rq)
<1>1. All(D \ {t}, K, W \cup {t}, U, F) = All(D, K, W, U, F)
  BY DEF All
<1>2. Places(D \ {t}, K, W \cup {t}, U, F, M, n)
  BY DEF World, Places
<1>3. Fits(D \ {t}, K, W \cup {t}, U, F, tr)
  <2>1. Fits(D, K, W, U, F, tr)
    BY DEF World
  <2> QED
    BY <2>1 DEF Fits
<1> QED
  BY <1>1, <1>2, <1>3 DEF World

\* ... and from the write buffer to the memory below.
LEMMA WorldAsked ==
  ASSUME NEW D, NEW K, NEW W, NEW U, NEW F, NEW M, NEW n, NEW tr, NEW bl, NEW en,
         NEW ms, NEW ev, NEW rq, World(D, K, W, U, F, M, n, tr, bl, en, ms, ev, rq),
         NEW t \in W, tr[t].action = "writeBufferFetch"
  PROVE  /\ World(D, K, W \ {t}, U, F \cup {t}, M, n, tr, bl, en, ms, ev, rq)
         /\ t \notin F
<1>1. All(D, K, W \ {t}, U, F \cup {t}) = All(D, K, W, U, F)
  BY DEF All
<1>2. Places(D, K, W \ {t}, U, F \cup {t}, M, n) /\ t \notin F
  BY DEF World, Places
<1>3. Fits(D, K, W \ {t}, U, F \cup {t}, tr)
  <2>1. Fits(D, K, W, U, F, tr)
    BY DEF World
  <2> QED
    BY <2>1 DEF Fits
<1> QED
  BY <1>1, <1>2, <1>3 DEF World

\* What transaction t is to do next changes, and nothing else about it.
OnlyAction(t, tr, tr2) ==
  /\ \A u \in ReqID : u # t => tr2[u] = tr[u]
  /\ tr2[t].block = tr[t].block /\ tr2[t].entry = tr[t].entry
  /\ tr2[t].evictingAddr = tr[t].evictingAddr

\* How it goes on from the write buffer.
GoesOn(a, b) ==
  \/ b = "bankWriteFetched" /\ a = "writeBufferFetch"
  \/ b = "bankWriteHit" /\ a = "writeBufferEvictAndWrite"
  \/ b = "writeBufferFetch" /\ a = "writeBufferEvictAndFetch"

\* The entries keep their blocks and lists, the blocks all but their dirt.
SameEntries(en, en2) ==
  \A u \in ReqID : en2[u].block = en[u].block /\ en2[u].requests = en[u].requests
SameBlocks(bl, bl2) ==
  \A c \in Slots : Alike(bl2[c], bl[c]) /\ bl2[c].ReadCount = bl[c].ReadCount

\* The entry of a transaction is closed when it is filled.
Closed(t, tr2, ms) == IF tr2[t].action = "bankWriteFetched" THEN ms \ {t} ELSE ms

\* A block's owner goes on from the write buffer: its entry is filled, or the
\* old contents are taken.
LEMMA OwnerGoesOn ==
  ASSUME NEW D, NEW K, NEW W, NEW U, NEW F, NEW M, NEW n, NEW tr, NEW bl, NEW en,
         NEW ms, NEW ev, NEW rq, World(D, K, W, U, F, M, n, tr, bl, en, ms, ev, rq),
         NEW t \in W \cup F, NEW tr2, NEW bl2, NEW en2,
         OnlyAction(t, tr, tr2), GoesOn(tr[t].action, tr2[t].action),
         SameEntries(en, en2), SameBlocks(bl, bl2)
  PROVE  /\ Story(All(D, K, W, U, F), tr2, bl2, en2, Closed(t, tr2, ms), ev, rq)
         /\ Opens(All(D, K, W, U, F), M, tr2, en2)
         /\ \A u \in D \cup K \cup W \cup U \cup F : u # t => tr2[u] = tr[u]
<1> DEFINE B == All(D, K, W, U, F)
           ms2 == Closed(t, tr2, ms)
<1>1. B \in SUBSET ReqID /\ t \in B /\ M \in SUBSET ReqID
  BY WorldTyped DEF All
<1>2. \A u \in D \cup K \cup W \cup U \cup F : u # t => tr2[u] = tr[u]
  BY <1>1 DEF All, OnlyAction
<1> HIDE DEF B
<1>3. /\ tr2[t].action \in Filling => tr[t].action \in Filling
      /\ tr2[t].action \in Fetching => tr[t].action \in Fetching
      /\ tr2[t].action \notin {"invalid", "bankReadHit"} \cup Evicting
      /\ tr[t].action # "bankReadHit"
      /\ tr[t].action \notin Evicting
  BY DEF Filling, Fetching, Evicting, GoesOn
<1>4. Opens(B, M, tr2, en2)
  <2>1. Opens(B, M, tr, en)
    BY DEF World, B
  <2> QED
    BY <1>1, <1>3, <2>1 DEF Opens, OnlyAction, SameEntries
<1>5. Story(B, tr, bl, en, ms, ev, rq)
  BY DEF World, B
<1>6. ms2 = IF tr2[t].action \in Fetching THEN ms ELSE ms \ {t}
  <2>1. \A u \in ms : tr[u].action \in Fetching
    BY <1>5 DEF Story, EntriesOpen
  <2>2. CASE tr2[t].action = "bankWriteFetched"
    BY <2>2 DEF Fetching, Closed
  <2>3. CASE tr2[t].action = "bankWriteHit" /\ tr[t].action = "writeBufferEvictAndWrite"
    BY <2>1, <2>3 DEF Fetching, Closed
  <2>4. CASE tr2[t].action = "writeBufferFetch"
    BY <2>4 DEF Fetching, Closed
  <2> QED
    BY <2>2, <2>3, <2>4 DEF GoesOn
<1> HIDE DEF ms2
<1>7. \A u \in B : u # t => tr2[u] = tr[u]
  BY <1>1 DEF OnlyAction
<1>8. \A u \in B : en2[u].block = en[u].block
  BY <1>1 DEF SameEntries
<1>9. ev = IF tr[t].action \in Evicting THEN ev \ {tr[t].evictingAddr} ELSE ev
  BY <1>3
<1>10. \A c \in Slots : Alike(bl2[c], bl[c]) /\ bl2[c].ReadCount = bl[c].ReadCount
  BY DEF SameBlocks
<1>11. /\ tr2[t].block = tr[t].block /\ tr2[t].entry = tr[t].entry
       /\ tr2[t].evictingAddr = tr[t].evictingAddr
  BY DEF OnlyAction
<1>12. Story(B, tr2, bl2, en2, ms2, ev, rq)
  BY <1>1, <1>3, <1>5, <1>6, <1>7, <1>8, <1>9, <1>10, <1>11, StoryGoesOn
<1> QED
  BY <1>2, <1>4, <1>12 DEF B, ms2

\* What was fetched below comes back.
LEMMA WorldReturned ==
  ASSUME NEW D, NEW K, NEW W, NEW U, NEW F, NEW M, NEW n, NEW tr, NEW bl, NEW en,
         NEW ms, NEW ev, NEW rq, World(D, K, W, U, F, M, n, tr, bl, en, ms, ev, rq),
         NEW t \in F, NEW tr2, NEW bl2, NEW en2,
         OnlyAction(t, tr, tr2), tr2[t].action = "bankWriteFetched",
         SameEntries(en, en2), SameBlocks(bl, bl2)
  PROVE  World(D, K, W, U \cup {t}, F \ {t}, M, n, tr2, bl2, en2, ms \ {t}, ev, rq)
<1>1. Fits(D, K, W, U, F, tr)
  BY DEF World
<1>2. GoesOn(tr[t].action, tr2[t].action) /\ t \in W \cup F
  BY <1>1 DEF Fits, GoesOn
<1>3. ms \ {t} = Closed(t, tr2, ms)
  BY DEF Closed
<1>4. /\ Story(All(D, K, W, U, F), tr2, bl2, en2, Closed(t, tr2, ms), ev, rq)
      /\ Opens(All(D, K, W, U, F), M, tr2, en2)
      /\ \A u \in D \cup K \cup W \cup U \cup F : u # t => tr2[u] = tr[u]
  <2>1. Story(All(D, K, W, U, F), tr2, bl2, en2, Closed(t, tr2, ms), ev, rq)
    BY <1>2, OwnerGoesOn
  <2>2. Opens(All(D, K, W, U, F), M, tr2, en2)
    BY <1>2, OwnerGoesOn
  <2>3. \A u \in D \cup K \cup W \cup U \cup F : u # t => tr2[u] = tr[u]
    BY <1>2, OwnerGoesOn
  <2> QED
    BY <2>1, <2>2, <2>3
<1>5. All(D, K, W, U \cup {t}, F \ {t}) = All(D, K, W, U, F)
  BY DEF All
<1>6. Places(D, K, W, U \cup {t}, F \ {t}, M, n) /\ t \notin D /\ t \notin K /\ t \notin W
  BY DEF World, Places
<1>7. Fits(D, K, W, U \cup {t}, F \ {t}, tr2)
  BY <1>1, <1>4, <1>6 DEF Fits
<1> QED
  BY <1>3, <1>4, <1>5, <1>6, <1>7 DEF World

\* A transaction leaves the write buffer for the bank.
LEMMA WorldServed ==
  ASSUME NEW D, NEW K, NEW W, NEW U, NEW F, NEW M, NEW n, NEW tr, NEW bl, NEW en,
         NEW ms, NEW ev, NEW rq, World(D, K, W, U, F, M, n, tr, bl, en, ms, ev, rq),
         NEW t \in W, NEW tr2, NEW bl2, NEW en2,
         OnlyAction(t, tr, tr2), GoesOn(tr[t].action, tr2[t].action),
         tr2[t].action # "writeBufferFetch",
         SameEntries(en, en2), SameBlocks(bl, bl2)
  PROVE  World(D, K, W \ {t}, U \cup {t}, F, M, n, tr2, bl2, en2, Closed(t, tr2, ms), ev, rq)
<1>1. Fits(D, K, W, U, F, tr)
  BY DEF World
<1>2. t \in W \cup F
  OBVIOUS
<1>3. /\ Story(All(D, K, W, U, F), tr2, bl2, en2, Closed(t, tr2, ms), ev, rq)
      /\ Opens(All(D, K, W, U, F), M, tr2, en2)
      /\ \A u \in D \cup K \cup W \cup U \cup F : u # t => tr2[u] = tr[u]
  BY <1>2, OwnerGoesOn
<1>4. All(D, K, W \ {t}, U \cup {t}, F) = All(D, K, W, U, F)
  BY DEF All
<1>5. Places(D, K, W \ {t}, U \cup {t}, F, M, n) /\ t \notin D /\ t \notin K /\ t \notin F
  BY DEF World, Places
<1>6. tr2[t].action \in {"bankWriteFetched", "bankWriteHit"}
  BY DEF GoesOn
<1>7. Fits(D, K, W \ {t}, U \cup {t}, F, tr2)
  BY <1>1, <1>3, <1>5, <1>6 DEF Fits
<1> QED
  BY <1>3, <1>4, <1>5, <1>7 DEF World

\* Its eviction is taken; it stays, to be fetched.
LEMMA WorldStays ==
  ASSUME NEW D, NEW K, NEW W, NEW U, NEW F, NEW M, NEW n, NEW tr, NEW bl, NEW en,
         NEW ms, NEW ev, NEW rq, World(D, K, W, U, F, M, n, tr, bl, en, ms, ev, rq),
         NEW t \in W, NEW tr2,
         OnlyAction(t, tr, tr2), GoesOn(tr[t].action, tr2[t].action),
         tr2[t].action = "writeBufferFetch"
  PROVE  World(D, K, W, U, F, M, n, tr2, bl, en, ms, ev, rq)
<1>1. Fits(D, K, W, U, F, tr)
  BY DEF World
<1>2. t \in W \cup F
  OBVIOUS
<1>3. SameEntries(en, en) /\ SameBlocks(bl, bl) /\ ms = Closed(t, tr2, ms)
  BY DEF SameEntries, SameBlocks, Closed, Alike
<1>4. /\ Story(All(D, K, W, U, F), tr2, bl, en, Closed(t, tr2, ms), ev, rq)
      /\ Opens(All(D, K, W, U, F), M, tr2, en)
      /\ \A u \in D \cup K \cup W \cup U \cup F : u # t => tr2[u] = tr[u]
  BY <1>2, <1>3, OwnerGoesOn
<1>5. Places(D, K, W, U, F, M, n) /\ t \notin D /\ t \notin K /\ t \notin F /\ t \notin U
  BY DEF World, Places
<1>6. Fits(D, K, W, U, F, tr2)
  BY <1>1, <1>4, <1>5 DEF Fits
<1> QED
  BY <1>3, <1>4, <1>5, <1>6 DEF World

\* A request joins an entry.
LEMMA WorldJoined ==
  ASSUME NEW D, NEW K, NEW W, NEW U, NEW F, NEW M, NEW n, NEW tr, NEW bl, NEW en,
         NEW ms, NEW ev, NEW rq, World(D, K, W, U, F, M, n, tr, bl, en, ms, ev, rq),
         n + 1 \in ReqID, NEW tr2, NEW en2,
         \A u \in ReqID : u # n + 1 => tr2[u] = tr[u],
         \A u \in ReqID : /\ en2[u].block = en[u].block
                          /\ en[u].requests # <<>> => en2[u].requests # <<>>
  PROVE  World(D, K, W, U, F, M, n + 1, tr2, bl, en2, ms, ev, rq)
<1> DEFINE B == All(D, K, W, U, F)
<1>1. /\ B \in SUBSET ReqID /\ B \in SUBSET (1 .. n) /\ n \in Nat /\ M \in SUBSET ReqID
      /\ B = D \cup K \cup W \cup U \cup F
  BY WorldTyped DEF All
<1>2. n + 1 \in 0 .. MaxReqs /\ n + 1 \notin 1 .. n /\ 1 .. n \subseteq 1 .. n + 1
  BY <1>1, WritebackAssumption DEF ReqID
<1> HIDE DEF B
<1>3. \A u \in B : tr2[u] = tr[u]
  BY <1>1, <1>2
<1>4. Places(D, K, W, U, F, M, n + 1)
  BY <1>2 DEF World, Places
<1>5. Fits(D, K, W, U, F, tr2)
  BY <1>1, <1>3 DEF World, Fits
<1>6. Opens(B, M, tr2, en2)
  <2>1. Opens(B, M, tr, en)
    BY DEF World, B
  <2> QED
    BY <1>1, <1>3, <2>1 DEF Opens
<1>7. Story(B, tr, bl, en, ms, ev, rq)
  BY DEF World, B
<1>8. \A u \in B : tr2[u] = tr[u] /\ en2[u].block = en[u].block /\ rq[u].line = rq[u].line
  BY <1>1, <1>3
<1>9. Story(B, tr2, bl, en2, ms, ev, rq)
  BY <1>1, <1>7, <1>8, StoryKept
<1> QED
  BY <1>2, <1>4, <1>5, <1>6, <1>9 DEF World, B

\* A read leaves the directory.
LEMMA WorldLooked ==
  ASSUME NEW D, NEW K, NEW W, NEW U, NEW F, NEW M, NEW n, NEW tr, NEW bl, NEW en,
         NEW ms, NEW ev, NEW rq, World(D, K, W, U, F, M, n, tr, bl, en, ms, ev, rq),
         NEW t \in ReqID, t = n + 1, NEW b \in Slots, NEW tr2, NEW bl2,
         Readable(b, rq[t].line, bl),
         \A u \in ReqID : u # t => tr2[u] = tr[u],
         tr2[t].action = "bankReadHit", tr2[t].block = b,
         \A c \in Slots :
           /\ Alike(bl2[c], bl[c])
           /\ bl2[c].ReadCount = bl[c].ReadCount + (IF c = b THEN 1 ELSE 0)
  PROVE  World(D \cup {t}, K, W, U, F, M, n + 1, tr2, bl2, en, ms, ev, rq)
<1> DEFINE B == All(D, K, W, U, F)
<1>1. /\ B \in SUBSET ReqID /\ B \in SUBSET (1 .. n) /\ n \in Nat /\ M \in SUBSET ReqID
      /\ B = D \cup K \cup W \cup U \cup F /\ All(D \cup {t}, K, W, U, F) = B \cup {t}
  BY WorldTyped DEF All
<1>2. n + 1 \in 0 .. MaxReqs /\ t \notin 1 .. n /\ 1 .. n \subseteq 1 .. n + 1 /\ t \in 1 .. n + 1
  BY <1>1, WritebackAssumption DEF ReqID
<1> HIDE DEF B
<1>3. \A u \in B : tr2[u] = tr[u]
  BY <1>1, <1>2
<1>4. Places(D \cup {t}, K, W, U, F, M, n + 1)
  <2>1. Places(D, K, W, U, F, M, n)
    BY DEF World
  <2> QED
    BY <1>2, <2>1 DEF Places
<1>5. Fits(D \cup {t}, K, W, U, F, tr2)
  <2>1. Fits(D, K, W, U, F, tr)
    BY DEF World
  <2> QED
    BY <1>1, <1>3, <2>1 DEF Fits
<1>6. Opens(B \cup {t}, M, tr2, en)
  <2>1. Opens(B, M, tr, en)
    BY DEF World, B
  <2>2. tr2[t].action \notin Filling
    BY DEF Filling, Fetching
  <2> QED
    BY <1>3, <2>1, <2>2 DEF Opens
<1>7. Story(B, tr, bl, en, ms, ev, rq) /\ t \in ReqID \ B
  BY <1>1, <1>2 DEF World, B
<1>8. Story(B \cup {t}, tr2, bl2, en, ms, ev, rq)
  BY <1>1, <1>3, <1>7, StoryRead
<1> QED
  BY <1>1, <1>2, <1>4, <1>5, <1>6, <1>8 DEF World

\* A transaction leaves the directory with a block of its own.
LEMMA WorldOwned ==
  ASSUME NEW D, NEW K, NEW W, NEW U, NEW F, NEW M, NEW n, NEW tr, NEW bl, NEW en,
         NEW ms, NEW ev, NEW rq, World(D, K, W, U, F, M, n, tr, bl, en, ms, ev, rq),
         NEW t \in ReqID, t = n + 1, NEW b \in Slots,
         NEW tr2, NEW bl2, NEW en2, NEW ms2, NEW ev2,
         Claimable(b, rq[t].line, bl, ev), Claimed(b, rq[t].line, bl, bl2),
         Claims(t, b, tr2[t], en2[t]), Leaves(tr2[t], rq[t].line, bl[b], ev, ev2),
         \A u \in ReqID : u # t => tr2[u] = tr[u] /\ en2[u] = en[u],
         ms2 = ms \cup (IF tr2[t].action \in Fetching THEN {t} ELSE {})
  PROVE  World(D \cup {t}, K, W, U, F, M, n + 1, tr2, bl2, en2, ms2, ev2, rq)
<1> DEFINE B == All(D, K, W, U, F)
<1>1. /\ B \in SUBSET ReqID /\ B \in SUBSET (1 .. n) /\ n \in Nat /\ M \in SUBSET ReqID
      /\ B = D \cup K \cup W \cup U \cup F /\ All(D \cup {t}, K, W, U, F) = B \cup {t}
  BY WorldTyped DEF All
<1>2. n + 1 \in 0 .. MaxReqs /\ t \notin 1 .. n /\ 1 .. n \subseteq 1 .. n + 1 /\ t \in 1 .. n + 1
  BY <1>1, WritebackAssumption DEF ReqID
<1>3. M \in SUBSET (1 .. n)
  BY DEF World, Places
<1> HIDE DEF B
<1>4. \A u \in B : tr2[u] = tr[u] /\ en2[u] = en[u]
  BY <1>1, <1>2
<1>5. \A u \in M : en2[u] = en[u]
  BY <1>1, <1>2, <1>3
<1>6. Places(D \cup {t}, K, W, U, F, M, n + 1)
  <2>1. Places(D, K, W, U, F, M, n)
    BY DEF World
  <2> QED
    BY <1>2, <2>1 DEF Places
<1>7. Fits(D \cup {t}, K, W, U, F, tr2)
  <2>1. Fits(D, K, W, U, F, tr)
    BY DEF World
  <2>2. tr2[t].action \in {"bankReadHit", "bankWriteHit", "writeBufferFetch"} \cup Evicting
    BY DEF Claims
  <2> QED
    BY <1>1, <1>4, <2>1, <2>2 DEF Fits
<1>8. Opens(B \cup {t}, M, tr2, en2)
  <2>1. Opens(B, M, tr, en)
    BY DEF World, B
  <2> QED
    BY <1>4, <1>5, <2>1 DEF Opens, Claims
<1>9. Story(B, tr, bl, en, ms, ev, rq) /\ t \in ReqID \ B
  BY <1>1, <1>2 DEF World, B
<1>10. Story(B \cup {t}, tr2, bl2, en2, ms2, ev2, rq)
  <2>1. B \in SUBSET ReqID
    BY <1>1
  <2> QED
    BY <2>1, <1>4, <1>9, StoryOwn
<1> QED
  BY <1>1, <1>2, <1>6, <1>7, <1>8, <1>10 DEF World

\* A filled entry answers.
LEMMA WorldAnswers ==
  ASSUME NEW D, NEW K, NEW W, NEW U, NEW F, NEW M, NEW n, NEW tr, NEW bl, NEW en,
         NEW ms, NEW ev, NEW rq, World(D, K, W, U, F, M, n, tr, bl, en, ms, ev, rq),
         NEW M2 \in SUBSET M, NEW en2,
         \A u \in ReqID : u \notin M => en2[u] = en[u],
         \A u \in M2 : en2[u].requests # <<>>
  PROVE  World(D, K, W, U, F, M2, n, tr, bl, en2, ms, ev, rq)
<1> DEFINE B == All(D, K, W, U, F)
<1>1. B \in SUBSET ReqID /\ \A u \in M : u \notin B
  BY WorldTyped
<1> HIDE DEF B
<1>2. \A u \in B : en2[u] = en[u]
  BY <1>1
<1>3. Places(D, K, W, U, F, M2, n)
  BY DEF World, Places
<1>4. Opens(B, M2, tr, en2)
  <2>1. Opens(B, M, tr, en)
    BY DEF World, B
  <2> QED
    BY <1>2, <2>1 DEF Opens
<1>5. Story(B, tr, bl, en, ms, ev, rq)
  BY DEF World, B
<1>6. \A u \in B : tr[u] = tr[u] /\ en2[u].block = en[u].block /\ rq[u].line = rq[u].line
  BY <1>2
<1>7. Story(B, tr, bl, en2, ms, ev, rq)
  BY <1>1, <1>5, <1>6, StoryKept
<1> QED
  BY <1>3, <1>4, <1>7 DEF World, B

\* A request arrives.
LEMMA WorldArrives ==
  ASSUME NEW D, NEW K, NEW W, NEW U, NEW F, NEW M, NEW n, NEW tr, NEW bl, NEW en,
         NEW ms, NEW ev, NEW rq, World(D, K, W, U, F, M, n, tr, bl, en, ms, ev, rq),
         NEW rq2, \A u \in 1 .. n : rq2[u] = rq[u]
  PROVE  World(D, K, W, U, F, M, n, tr, bl, en, ms, ev, rq2)
<1> DEFINE B == All(D, K, W, U, F)
<1>1. B \in SUBSET ReqID /\ B \in SUBSET (1 .. n)
  BY WorldTyped
<1> HIDE DEF B
<1>2. Story(B, tr, bl, en, ms, ev, rq)
  BY DEF World, B
<1>3. \A u \in B : tr[u] = tr[u] /\ en[u].block = en[u].block /\ rq2[u].line = rq[u].line
  BY <1>1
<1>4. Story(B, tr, bl, en, ms, ev, rq2)
  BY <1>1, <1>2, <1>3, StoryKept
<1> QED
  BY <1>4 DEF World, B

(***************************************************************************)
(* What the operations compute                                             *)
(***************************************************************************)
\* A victim belongs to the set of the line.
LEMMA VictimInSet ==
  ASSUME lru \in Seq(Slots), ToSet(lru) = Slots, NEW l \in Lines
  PROVE  FindVictim(l) \in SetOf[l] /\ FindVictim(l) \in Slots
<1> DEFINE S == SetOf[l]
           queue == Filter(lru, S)
           free == {b \in Slots : ~blocks[b].IsLocked}
           void == {b \in Slots : ~blocks[b].IsValid}
           unlocked == Filter(queue, free)
           empty == Filter(unlocked, void)
<1>1. S \in SUBSET Slots /\ S # {}
  BY WritebackAssumption
<1>2. queue \in Seq(Slots) /\ ToSet(queue) = S
  <2> HIDE DEF S
  <2>1. queue \in Seq(Slots) /\ ToSet(queue) = ToSet(lru) \cap S
    BY FilterSet
  <2> QED
    BY <1>1, <2>1
<1>3. queue # <<>>
  BY <1>1, <1>2, SetOfEmpty
<1>4. FindVictim(l) = IF empty # <<>> THEN Head(empty)
                      ELSE IF unlocked # <<>> THEN Head(unlocked) ELSE Head(queue)
  BY DEF FindVictim
<1> HIDE DEF queue, free, void
<1>5. unlocked \in Seq(Slots) /\ ToSet(unlocked) \subseteq S
  BY <1>2, FilterSet
<1>6. unlocked # <<>> => Head(unlocked) \in S
  BY <1>2, FilterHead
<1>7. Head(queue) \in S
  <2>1. Head(queue) = queue[1] /\ Len(queue) \in Nat /\ Len(queue) # 0
    BY <1>2, <1>3, Taken1
  <2>2. 1 \in DOMAIN queue
    BY <1>2, <2>1, LenProperties
  <2> QED
    BY <1>2, <2>1, <2>2 DEF ToSet
<1> HIDE DEF unlocked
<1>8. empty # <<>> => Head(empty) \in S
  BY <1>5, FilterHead
<1> HIDE DEF empty
<1>9. FindVictim(l) \in S
  BY <1>4, <1>6, <1>7, <1>8
<1> QED
  BY <1>1, <1>9

\* A block is moved to the end of the queue.
LEMMA VisitKeeps ==
  ASSUME NEW q \in Seq(Slots), ToSet(q) = Slots, NEW b \in Slots
  PROVE  /\ Append(Filter(q, Slots \ {b}), b) \in Seq(Slots)
         /\ ToSet(Append(Filter(q, Slots \ {b}), b)) = Slots
<1> DEFINE f == Filter(q, Slots \ {b})
<1>1. f \in Seq(Slots) /\ ToSet(f) = Slots \cap (Slots \ {b})
  BY FilterSet
<1> HIDE DEF f
<1>2. Append(f, b) \in Seq(Slots) /\ ToSet(Append(f, b)) = ToSet(f) \cup {b}
  BY <1>1, AppendProperties, SetAppended
<1> QED
  BY <1>1, <1>2 DEF f

\* The newest of the acknowledged writes is a request, or none.
LEMMA AcknowledgedTyped ==
  ASSUME answers \in SUBSET Response, NEW l
  PROVE  Acknowledged(l) \in Nat
<1> DEFINE X == {x \in answers : Write(x.rspTo) /\ Line(x.rspTo) = l}
           S == {0} \cup {a.rspTo : a \in X}
<1>1. MaxReqs \in Nat
  BY WritebackAssumption
<1>2. S \in SUBSET (0 .. MaxReqs) /\ S # {}
  <2>1. \A a \in X : a.rspTo \in 1 .. MaxReqs
    BY DEF Response, ReqID
  <2> HIDE DEF X
  <2> QED
    BY <1>1, <2>1
<1>3. Acknowledged(l) = Max(S)
  BY DEF Acknowledged
<1> HIDE DEF S
<1> HIDE DEF X
<1>4. Max(S) \in S
  BY <1>1, <1>2, MaxInSet
<1>5. Max(S) \in 0 .. MaxReqs
  BY <1>2, <1>4
<1> DEFINE m == Max(S)
<1>6. m \in 0 .. MaxReqs /\ Acknowledged(l) = m
  BY <1>3, <1>5
<1> HIDE DEF m
<1> QED
  BY <1>1, <1>6

\* The newest of the writes that wait for an entry, or what was fetched.
LEMMA CombinedTyped ==
  ASSUME entry \in [ReqID -> EntryType], NEW e \in ReqID, NEW v \in Nat
  PROVE  Combined(e, v) \in Nat
<1>1. entry[e].requests \in Seq(ReqID)
  BY DEF EntryType
<1> DEFINE w == WaitingWrites(e)
<1>2. w \in Seq(ReqID)
  BY <1>1, FilterSet DEF WaitingWrites
<1>3. Combined(e, v) = IF w = <<>> THEN v ELSE Last(w)
  BY DEF Combined
<1> HIDE DEF w
<1>4. w # <<>> => Last(w) \in ReqID
  <2> SUFFICES ASSUME w # <<>> PROVE Last(w) \in ReqID
    OBVIOUS
  <2>1. Len(w) \in Nat \ {0}
    BY <1>2, Taken1
  <2>2. w[Len(w)] \in ReqID
    BY <1>2, <2>1, ElementOfSeq
  <2> QED
    BY <2>2 DEF Last
<1>5. ReqID \subseteq Nat
  BY WritebackAssumption DEF ReqID
<1> QED
  BY <1>3, <1>4, <1>5

\* The version an MSHR entry is filled with is a version.
LEMMA EntryDataTyped ==
  ASSUME entry \in [ReqID -> EntryType], evictingData \in [ReqID -> Nat], NEW e \in ReqID
  PROVE  EntryData(e) \in Nat
<1>1. entry[e].data \in Nat /\ entry[e].slice \in 0 .. MaxReqs
  BY DEF EntryType
<1>2. entry[e].slice # 0 => entry[e].slice \in ReqID
  BY <1>1, WritebackAssumption DEF ReqID
<1> QED
  BY <1>1, <1>2 DEF EntryData

(***************************************************************************)
(* Records that change                                                     *)
(***************************************************************************)
LEMMA ActionSet ==
  ASSUME NEW tr \in [ReqID -> TransType], NEW t \in ReqID, NEW a \in Actions
  PROVE  LET tr2 == [tr EXCEPT ![t].action = a]
         IN /\ tr2 \in [ReqID -> TransType] /\ tr2[t].action = a
            /\ OnlyAction(t, tr, tr2)
<1> DEFINE tr2 == [tr EXCEPT ![t].action = a]
           r == [tr[t] EXCEPT !.action = a]
<1>1. tr[t] \in TransType
  OBVIOUS
<1>2. /\ r \in TransType /\ r.action = a /\ r.block = tr[t].block
      /\ r.entry = tr[t].entry /\ r.evictingAddr = tr[t].evictingAddr
  BY <1>1 DEF TransType
<1>3. tr2 = [tr EXCEPT ![t] = r]
  OBVIOUS
<1> HIDE DEF r, tr2
<1>4. tr2[t] = r /\ \A u \in ReqID : u # t => tr2[u] = tr[u]
  BY <1>3
<1>5. tr2 \in [ReqID -> TransType]
  BY <1>2, <1>3
<1> QED
  BY <1>2, <1>4, <1>5 DEF OnlyAction, tr2

\* Marking a block dirty or clean changes none of what the story of the blocks is
\* about: tag, validity, lock and readers.
LEMMA DirtSet ==
  ASSUME NEW bl \in [Slots -> BlockType], NEW b \in Slots, NEW d \in BOOLEAN
  PROVE  LET bl2 == [bl EXCEPT ![b].IsDirty = d]
         IN bl2 \in [Slots -> BlockType] /\ SameBlocks(bl, bl2)
<1> DEFINE bl2 == [bl EXCEPT ![b].IsDirty = d]
           r == [bl[b] EXCEPT !.IsDirty = d]
<1>1. bl[b] \in BlockType
  OBVIOUS
<1>2. /\ r \in BlockType /\ r.Tag = bl[b].Tag /\ r.ReadCount = bl[b].ReadCount
      /\ r.IsValid = bl[b].IsValid /\ r.IsLocked = bl[b].IsLocked
  BY <1>1 DEF BlockType
<1>3. bl2 = [bl EXCEPT ![b] = r]
  OBVIOUS
<1> HIDE DEF r, bl2
<1>4. bl2[b] = r /\ \A c \in Slots : c # b => bl2[c] = bl[c]
  BY <1>3
<1>5. bl2 \in [Slots -> BlockType]
  BY <1>2, <1>3
<1>6. SameBlocks(bl, bl2)
  BY <1>2, <1>4 DEF SameBlocks, Alike
<1> QED
  BY <1>5, <1>6 DEF bl2

\* Filling an entry with data changes neither its block nor its requests.
LEMMA EntryFilled ==
  ASSUME NEW en \in [ReqID -> EntryType], NEW e \in ReqID, NEW d \in Nat,
         NEW s \in 0 .. MaxReqs
  PROVE  LET en2 == [en EXCEPT ![e].data = d, ![e].slice = s]
         IN en2 \in [ReqID -> EntryType] /\ SameEntries(en, en2)
<1> DEFINE en2 == [en EXCEPT ![e].data = d, ![e].slice = s]
           r == [en[e] EXCEPT !.data = d, !.slice = s]
<1>1. en[e] \in EntryType
  OBVIOUS
<1>2. r \in EntryType /\ r.block = en[e].block /\ r.requests = en[e].requests
  BY <1>1 DEF EntryType
<1>3. en2 = [en EXCEPT ![e] = r]
  BY <1>1 DEF EntryType
<1> HIDE DEF r, en2
<1>4. en2[e] = r /\ \A c \in ReqID : c # e => en2[c] = en[c]
  BY <1>3
<1>5. en2 \in [ReqID -> EntryType]
  BY <1>2, <1>3
<1>6. SameEntries(en, en2)
  BY <1>2, <1>4 DEF SameEntries
<1> QED
  BY <1>5, <1>6 DEF en2

\* Changing the requests of one entry.
LEMMA RequestsSet ==
  ASSUME NEW en \in [ReqID -> EntryType], NEW e \in ReqID, NEW q \in Seq(ReqID)
  PROVE  LET en2 == [en EXCEPT ![e].requests = q]
         IN /\ en2 \in [ReqID -> EntryType]
            /\ en2[e].requests = q /\ en2[e].block = en[e].block
            /\ \A u \in ReqID : u # e => en2[u] = en[u]
<1> DEFINE en2 == [en EXCEPT ![e].requests = q]
           r == [en[e] EXCEPT !.requests = q]
<1>1. en[e] \in EntryType
  OBVIOUS
<1>2. r \in EntryType /\ r.block = en[e].block /\ r.requests = q
  BY <1>1 DEF EntryType
<1>3. en2 = [en EXCEPT ![e] = r]
  OBVIOUS
<1> HIDE DEF r, en2
<1>4. en2[e] = r /\ \A c \in ReqID : c # e => en2[c] = en[c]
  BY <1>3
<1>5. en2 \in [ReqID -> EntryType]
  BY <1>2, <1>3
<1> QED
  BY <1>2, <1>4, <1>5 DEF en2

\* The line of a transaction is there.
LEMMA FillDoes ==
  ASSUME ArrayTypes, Single(writeBufferToBank), Room(writeBufferToBank, 1),
         NEW t \in ReqID, trans[t].entry = t, entry[t].block \in Slots,
         NEW v \in Nat, NEW s \in 0 .. MaxReqs, Fill(t, v, s)
  PROVE  /\ trans' \in [ReqID -> TransType] /\ OnlyAction(t, trans, trans')
         /\ trans'[t].action = "bankWriteFetched"
         /\ entry' \in [ReqID -> EntryType] /\ SameEntries(entry, entry')
         /\ blocks' \in [Slots -> BlockType] /\ SameBlocks(blocks, blocks')
         /\ mshr' = mshr \ {t}
         /\ writeBufferToBank' = <<t>> /\ Single(<<t>>)
         /\ ToSet(<<t>>) = {t} /\ ToSet(writeBufferToBank) = {}
<1> DEFINE b == entry[t].block
           a == "bankWriteFetched"
           d == Combined(t, v)
           k == blocks[b].IsDirty \/ WaitingWrites(t) # <<>>
<1>1. /\ trans \in [ReqID -> TransType] /\ entry \in [ReqID -> EntryType]
      /\ blocks \in [Slots -> BlockType] /\ b \in Slots
  BY DEF ArrayTypes
<1>2. /\ entry' = [entry EXCEPT ![t].data = d, ![t].slice = s]
      /\ blocks' = [blocks EXCEPT ![b].IsDirty = k]
      /\ mshr' = mshr \ {t}
      /\ trans' = [trans EXCEPT ![t].action = a]
      /\ writeBufferToBank' = Append(writeBufferToBank, t)
  BY DEF Fill
<1>3. d \in Nat /\ k \in BOOLEAN /\ a \in Actions
  <2>1. d \in Nat
    BY <1>1, CombinedTyped
  <2>2. k \in BOOLEAN
    OBVIOUS
  <2>3. a \in Actions
    BY DEF Actions
  <2> QED
    BY <2>1, <2>2, <2>3
<1>4. /\ writeBufferToBank' = <<t>> /\ Single(<<t>>)
      /\ ToSet(<<t>>) = {t} /\ ToSet(writeBufferToBank) = {}
  BY <1>2, OneAdded
<1> HIDE DEF d, k, b
<1>5. entry' \in [ReqID -> EntryType] /\ SameEntries(entry, entry')
  BY <1>1, <1>2, <1>3, EntryFilled
<1>6. blocks' \in [Slots -> BlockType] /\ SameBlocks(blocks, blocks')
  BY <1>1, <1>2, <1>3, DirtSet
<1> HIDE DEF a
<1>7. trans' \in [ReqID -> TransType] /\ OnlyAction(t, trans, trans') /\ trans'[t].action = a
  BY <1>1, <1>2, <1>3, ActionSet
<1> QED
  BY <1>2, <1>4, <1>5, <1>6, <1>7 DEF a

(***************************************************************************)
(* What keeps each part of the invariant                                   *)
(***************************************************************************)
ports == <<topIn, topOut, bottomIn, bottomOut, lowReqs, mem, reqs, answers>>
stages == <<dirStageBuffer, dirBuf, dirToBank, writeBufferToBank, mshrStageBuffer,
            writeBufferBuffer, processingMSHREntry, counted, downwardInflightTransCount>>
buffers == <<pendingEvictions, inflightEviction, inflightFetch, evictingData>>
arrays == <<mshr, entry, blocks, storage, lru, trans>>
upper == <<reqs, topIn, dirStageBuffer, dirBuf>>
places == <<dirToBank, writeBufferBuffer, writeBufferToBank, inflightFetch,
            processingMSHREntry, mshrStageBuffer>>
tales == <<trans, blocks, entry, mshr, evictingList, reqs>>
asked == <<bottomOut, lowReqs, bottomIn, inflightFetch>>

\* A step that changes no port keeps the ports' types.
LEMMA PortsKept == PortTypes /\ UNCHANGED ports => PortTypes'
BY DEF PortTypes, ports

\* A step that changes no stage keeps the stages' types.
LEMMA StagesKept == StageTypes /\ UNCHANGED stages => StageTypes'
BY DEF StageTypes, stages

\* A step that changes no list of the write buffer keeps their types.
LEMMA BuffersKept == BufferTypes /\ UNCHANGED buffers => BufferTypes'
BY DEF BufferTypes, buffers

\* A step that changes no array keeps the arrays' types.
LEMMA ArraysKept == ArrayTypes /\ UNCHANGED arrays => ArrayTypes'
BY DEF ArrayTypes, arrays

\* A step that moves no request above the directory keeps their order.
LEMMA WaitKept == WaitInv /\ UNCHANGED upper => WaitInv' /\ Taken' = Taken
BY DEF WaitInv, Taken, upper

\* A step that does not touch the bank keeps what is in it.
LEMMA BankKept == UNCHANGED bank => (BankInv => BankInv') /\ InBank' = InBank
BY DEF BankInv, InBank, bank

\* A step that moves no transaction keeps every place.
LEMMA PlacesKept ==
  UNCHANGED places => /\ AtBank' = AtBank /\ AtBuffer' = AtBuffer /\ GoingBack' = GoingBack
                      /\ inflightFetch' = inflightFetch /\ Filled' = Filled
                      /\ ApartInv => ApartInv'
BY DEF AtBank, AtBuffer, GoingBack, Filled, ApartInv, places

\* A step that moves no transaction and touches no block, entry or action keeps
\* the story.
LEMMA WorldKept ==
  /\ WorldInv /\ UNCHANGED places /\ UNCHANGED tales
  /\ InBank' = InBank /\ Taken' = Taken
  => WorldInv'
BY PlacesKept DEF WorldInv, tales

\* A step that moves no message below keeps each read in one place.
LEMMA AskKept == AskInv /\ UNCHANGED asked => AskInv'
BY DEF AskInv, asked

\* A step that changes nothing the invariant is about keeps it.
LEMMA AllKept ==
  ASSUME WInv, UNCHANGED <<ports, stages, buffers, arrays, upper, bank, places, tales, asked>>
  PROVE  WInv'
<1>1. PortTypes' /\ StageTypes' /\ BufferTypes' /\ ArrayTypes'
  BY PortsKept, StagesKept, BuffersKept, ArraysKept DEF WInv, WTypes
<1>2. WaitInv' /\ Taken' = Taken /\ BankInv' /\ InBank' = InBank /\ ApartInv' /\ AskInv'
  BY WaitKept, BankKept, PlacesKept, AskKept DEF WInv
<1>3. WorldInv'
  BY <1>2, WorldKept DEF WInv
<1> QED
  BY <1>1, <1>2, <1>3 DEF WInv, WTypes

\* The tick's own bookkeeping, awake and progress, keeps the invariant.
LEMMA TickKeeps == ASSUME WInv, Tick PROVE WInv'
<1>1. UNCHANGED <<ports, stages, buffers, arrays, upper, bank, places, tales, asked>>
  BY DEF Tick, top, low, dir, bank, toBank, buffer, misses, respond, array, work, outside,
         ports, stages, buffers, arrays, upper, places, tales, asked
<1> QED
  BY <1>1, AllKept

\* A cycle of the bank's pipeline keeps the invariant: the transactions in the
\* bank are the same, each in one cell or in the buffer behind the lanes.
LEMMA BankPipelineKeeps == ASSUME WInv, BankPipeline PROVE WInv'
<1> DEFINE moved == TickPipeline(bankPipe, bankBuf, LaneWidth)
<1>1. UNCHANGED <<ports, stages, buffers, arrays, upper, places, tales, asked>>
  BY DEF BankPipeline, top, low, dir, toBank, buffer, misses, respond, array, work, outside,
         ports, stages, buffers, arrays, upper, places, tales, asked
<1>2. bankPipe' = moved.pipe /\ bankBuf' = moved.post
  BY DEF BankPipeline
<1>3. BankOK(moved.pipe, moved.post) /\ BankOf(moved.pipe, moved.post) = InBank
  BY BankTicks DEF WInv, BankInv, InBank, BankOf
<1>4. BankInv' /\ InBank' = InBank
  BY <1>2, <1>3 DEF BankInv, InBank, BankOf
<1>5. PortTypes' /\ StageTypes' /\ BufferTypes' /\ ArrayTypes'
  BY <1>1, PortsKept, StagesKept, BuffersKept, ArraysKept DEF WInv, WTypes
<1>6. WaitInv' /\ Taken' = Taken /\ ApartInv' /\ AskInv'
  BY <1>1, WaitKept, PlacesKept, AskKept DEF WInv
<1>7. WorldInv'
  BY <1>1, <1>4, <1>6, WorldKept DEF WInv
<1> QED
  BY <1>4, <1>5, <1>6, <1>7 DEF WInv, WTypes

(***************************************************************************)
(* The bank takes a transaction                                            *)
(***************************************************************************)
LEMMA BankTakes ==
  ASSUME BankInv, BankFree, NEW t \in ReqID, t \notin InBank, AcceptInBank(t)
  PROVE  BankInv' /\ InBank' = InBank \cup {t}
<1> DEFINE next == Accept(bankPipe, bankBuf, t)
<1>1. bankPipe' = next.pipe /\ bankBuf' = next.post
  BY DEF AcceptInBank
<1>2. BankOK(bankPipe, bankBuf) /\ CanAccept(bankPipe, bankBuf, LaneWidth)
  BY DEF BankInv, BankFree
<1>3. InBank = BankOf(bankPipe, bankBuf) /\ InBank' = BankOf(bankPipe', bankBuf')
  BY DEF InBank, BankOf
<1>4. /\ BankOK(next.pipe, next.post)
      /\ BankOf(next.pipe, next.post) = BankOf(bankPipe, bankBuf) \cup {t}
  BY <1>2, <1>3, BankAccepts
<1> HIDE DEF next
<1> QED
  BY <1>1, <1>3, <1>4 DEF BankInv

PullRest == <<ports, buffers, arrays, upper, tales, asked, mshrStageBuffer,
              processingMSHREntry, dirStageBuffer, dirBuf, counted, inflightFetch>>

\* The bank stage takes a transaction that comes back from the write buffer.
LEMMA PullBack ==
  ASSUME WInv, UNCHANGED PullRest, BankFree, writeBufferToBank # <<>>,
         AcceptInBank(Head(writeBufferToBank)),
         writeBufferToBank' = Tail(writeBufferToBank),
         UNCHANGED <<dirToBank, downwardInflightTransCount, writeBufferBuffer>>
  PROVE  WInv'
<1> DEFINE t == Head(writeBufferToBank)
<1>1. StageTypes
  BY DEF WInv, WTypes
<1>2. /\ t \in ReqID /\ GoingBack = {t} /\ GoingBack' = {}
      /\ Single(writeBufferToBank')
  BY <1>1, OneTaken DEF StageTypes, GoingBack
<1> HIDE DEF t
<1>3. /\ World(AtBank, InBank \cup {t}, AtBuffer, GoingBack \ {t}, inflightFetch, Filled, Taken,
               trans, blocks, entry, mshr, evictingList, reqs)
      /\ t \notin InBank
  BY <1>2, WorldBack DEF WInv, WorldInv
<1>4. BankInv' /\ InBank' = InBank \cup {t}
  BY <1>2, <1>3, BankTakes DEF WInv, t
<1>5. /\ AtBank' = AtBank /\ AtBuffer' = AtBuffer /\ Filled' = Filled
      /\ inflightFetch' = inflightFetch /\ ApartInv'
      /\ UNCHANGED <<ports, buffers, arrays, upper, tales, asked>>
  BY DEF PullRest, AtBank, AtBuffer, Filled, ApartInv, WInv
<1>6. WaitInv' /\ Taken' = Taken /\ AskInv' /\ PortTypes' /\ BufferTypes' /\ ArrayTypes'
  BY <1>5, WaitKept, AskKept, PortsKept, BuffersKept, ArraysKept DEF WInv, WTypes
<1>7. StageTypes'
  BY <1>1, <1>2 DEF StageTypes, PullRest
<1>8. WorldInv'
  BY <1>2, <1>3, <1>4, <1>5, <1>6 DEF WorldInv, tales
<1> QED
  BY <1>4, <1>5, <1>6, <1>7, <1>8 DEF WInv, WTypes

\* The bank stage takes a transaction of the directory.
LEMMA PullDown ==
  ASSUME WInv, UNCHANGED PullRest, BankFree, dirToBank # <<>>,
         dirToBank' = Tail(dirToBank), trans[Head(dirToBank)].action # "writeBufferFetch",
         AcceptInBank(Head(dirToBank)), downwardInflightTransCount' \in Int,
         UNCHANGED <<writeBufferToBank, writeBufferBuffer>>
  PROVE  WInv'
<1> DEFINE t == Head(dirToBank)
<1>1. StageTypes
  BY DEF WInv, WTypes
<1>2. t \in ReqID /\ AtBank = {t} /\ AtBank' = {} /\ Single(dirToBank')
  BY <1>1, OneTaken DEF StageTypes, AtBank
<1>3. trans[t].action # "writeBufferFetch"
  OBVIOUS
<1> HIDE DEF t
<1>4. /\ World(AtBank \ {t}, InBank \cup {t}, AtBuffer, GoingBack, inflightFetch, Filled, Taken,
               trans, blocks, entry, mshr, evictingList, reqs)
      /\ t \notin InBank
  <2>1. World(AtBank, InBank, AtBuffer, GoingBack, inflightFetch, Filled, Taken,
              trans, blocks, entry, mshr, evictingList, reqs)
    BY DEF WInv, WorldInv
  <2>2. t \in AtBank
    BY <1>2
  <2>3. t \notin InBank
    BY <2>1, <2>2 DEF World, Places
  <2>4. World(AtBank \ {t}, InBank \cup {t}, AtBuffer, GoingBack, inflightFetch, Filled, Taken,
              trans, blocks, entry, mshr, evictingList, reqs)
    BY <1>3, <2>1, <2>2, WorldDown
  <2> QED
    BY <2>3, <2>4
<1>5. BankInv' /\ InBank' = InBank \cup {t}
  BY <1>2, <1>4, BankTakes DEF WInv, t
<1>6. /\ GoingBack' = GoingBack /\ AtBuffer' = AtBuffer /\ Filled' = Filled
      /\ inflightFetch' = inflightFetch /\ ApartInv'
      /\ UNCHANGED <<ports, buffers, arrays, upper, tales, asked>>
  BY DEF PullRest, GoingBack, AtBuffer, Filled, ApartInv, WInv
<1>7. WaitInv' /\ Taken' = Taken /\ AskInv' /\ PortTypes' /\ BufferTypes' /\ ArrayTypes'
  BY <1>6, WaitKept, AskKept, PortsKept, BuffersKept, ArraysKept DEF WInv, WTypes
<1>8. StageTypes'
  BY <1>1, <1>2 DEF StageTypes, PullRest
<1>9. WorldInv'
  BY <1>2, <1>4, <1>5, <1>6, <1>7 DEF WorldInv, tales
<1> QED
  BY <1>5, <1>6, <1>7, <1>8, <1>9 DEF WInv, WTypes

\* A fetch with nothing to evict goes past the bank to the write buffer.
LEMMA PullPast ==
  ASSUME WInv, UNCHANGED PullRest, dirToBank # <<>>, Room(writeBufferBuffer, 1),
         dirToBank' = Tail(dirToBank), trans[Head(dirToBank)].action = "writeBufferFetch",
         writeBufferBuffer' = Append(writeBufferBuffer, Head(dirToBank)),
         UNCHANGED <<bank, writeBufferToBank>>
  PROVE  WInv'
<1> DEFINE t == Head(dirToBank)
<1>1. StageTypes
  BY DEF WInv, WTypes
<1>2. t \in ReqID /\ AtBank = {t} /\ AtBank' = {} /\ Single(dirToBank')
  BY <1>1, OneTaken DEF StageTypes, AtBank
<1>3. writeBufferBuffer' = Append(writeBufferBuffer, t) /\ trans[t].action = "writeBufferFetch"
  OBVIOUS
<1> HIDE DEF t
<1>4. AtBuffer = {} /\ AtBuffer' = {t} /\ Single(writeBufferBuffer')
  <2>1. Single(writeBufferBuffer)
    BY <1>1 DEF StageTypes
  <2>2. /\ ToSet(writeBufferBuffer) = {} /\ Append(writeBufferBuffer, t) = <<t>>
        /\ Single(<<t>>) /\ ToSet(<<t>>) = {t}
    BY <1>2, <2>1, OneAdded
  <2> QED
    BY <1>3, <2>2 DEF AtBuffer
<1>5. World(AtBank \ {t}, InBank, AtBuffer \cup {t}, GoingBack, inflightFetch, Filled, Taken,
            trans, blocks, entry, mshr, evictingList, reqs)
  BY <1>2, <1>3, WorldPast DEF WInv, WorldInv
<1>6. /\ GoingBack' = GoingBack /\ Filled' = Filled
      /\ inflightFetch' = inflightFetch /\ ApartInv'
      /\ UNCHANGED <<ports, buffers, arrays, upper, tales, asked>>
  BY DEF PullRest, GoingBack, Filled, ApartInv, WInv
<1>7. WaitInv' /\ Taken' = Taken /\ AskInv' /\ PortTypes' /\ BufferTypes' /\ ArrayTypes'
      /\ BankInv' /\ InBank' = InBank
  BY <1>6, WaitKept, AskKept, PortsKept, BuffersKept, ArraysKept, BankKept DEF WInv, WTypes
<1>8. StageTypes'
  BY <1>1, <1>2, <1>4 DEF StageTypes, PullRest, bank
<1>9. AtBank \ {t} = {} /\ AtBuffer \cup {t} = {t}
  BY <1>2, <1>4
<1>10. WorldInv'
  BY <1>2, <1>4, <1>5, <1>6, <1>7, <1>9 DEF WorldInv, tales
<1> QED
  BY <1>6, <1>7, <1>8, <1>10 DEF WInv, WTypes

\* The bank stage's pullFromBuf keeps the invariant, whichever buffer it serves.
LEMMA PullKeeps == ASSUME WInv, PullFromBuf PROVE WInv'
<1>1. UNCHANGED PullRest
  BY DEF PullFromBuf, top, low, dir, buffer, misses, respond, array, work, outside, PullRest,
         ports, buffers, arrays, upper, tales, asked
<1>2. CASE /\ BankFree /\ writeBufferToBank # <<>>
           /\ AcceptInBank(Head(writeBufferToBank))
           /\ writeBufferToBank' = Tail(writeBufferToBank)
           /\ UNCHANGED <<dirToBank, downwardInflightTransCount, writeBufferBuffer>>
  BY <1>1, <1>2, PullBack
<1>3. CASE /\ BankFree /\ Downward /\ dirToBank' = Tail(dirToBank)
           /\ LET t == Head(dirToBank)
              IN IF trans[t].action = "writeBufferFetch"
                   THEN /\ writeBufferBuffer' = Append(writeBufferBuffer, t)
                        /\ UNCHANGED bank
                   ELSE /\ AcceptInBank(t)
                        /\ downwardInflightTransCount' =
                             downwardInflightTransCount
                               + (IF trans[t].action \in Evicting THEN 1 ELSE 0)
                        /\ UNCHANGED writeBufferBuffer
           /\ UNCHANGED writeBufferToBank
  <2>1. dirToBank # <<>> /\ Room(writeBufferBuffer, 1)
    BY <1>3 DEF Downward
  <2>2. CASE trans[Head(dirToBank)].action = "writeBufferFetch"
    <3>1. /\ writeBufferBuffer' = Append(writeBufferBuffer, Head(dirToBank))
          /\ UNCHANGED <<bank, writeBufferToBank>>
      BY <1>3, <2>2
    <3> QED
      BY <1>1, <1>3, <2>1, <2>2, <3>1, PullPast
  <2>3. CASE trans[Head(dirToBank)].action # "writeBufferFetch"
    <3>1. /\ AcceptInBank(Head(dirToBank))
          /\ UNCHANGED <<writeBufferToBank, writeBufferBuffer>>
          /\ downwardInflightTransCount' = downwardInflightTransCount
               + (IF trans[Head(dirToBank)].action \in Evicting THEN 1 ELSE 0)
      BY <1>3, <2>3
    <3>2. downwardInflightTransCount' \in Int
      <4>1. downwardInflightTransCount \in Int
        BY DEF WInv, WTypes, StageTypes
      <4> QED
        BY <3>1, <4>1
    <3> QED
      BY <1>1, <1>3, <2>1, <2>3, <3>1, <3>2, PullDown
  <2> QED
    BY <2>2, <2>3
<1>4. CASE UNCHANGED <<bank, toBank, writeBufferBuffer>>
  <2>1. UNCHANGED <<ports, stages, buffers, arrays, upper, bank, places, tales, asked>>
    BY <1>1, <1>4 DEF PullRest, bank, toBank, stages, places
  <2> QED
    BY <2>1, AllKept
<1> QED
  BY <1>2, <1>3, <1>4 DEF PullFromBuf

(***************************************************************************)
(* The write buffer sends an eviction, and the directory takes a request   *)
(***************************************************************************)
LEMMA WriteKeeps == ASSUME WInv, WriteStage PROVE WInv'
<1> DEFINE t == Head(pendingEvictions)
           m == [write |-> TRUE, of |-> t, line |-> trans[t].evictingAddr]
<1>1. UNCHANGED <<stages, arrays, upper, bank, places, tales, inflightFetch, evictingData,
                  topIn, topOut, bottomIn, lowReqs, mem, reqs, answers>>
  BY DEF WriteStage, top, dir, bank, toBank, misses, respond, array, work, outside,
         stages, arrays, upper, places, tales
<1>2. PortTypes /\ StageTypes /\ BufferTypes /\ ArrayTypes
  BY DEF WInv, WTypes
<1>3. CASE UNCHANGED <<bottomOut, pendingEvictions, inflightEviction>>
  <2>1. UNCHANGED <<ports, stages, buffers, arrays, upper, bank, places, tales, asked>>
    BY <1>1, <1>3 DEF ports, buffers, asked
  <2> QED
    BY <2>1, AllKept
<1>4. CASE /\ pendingEvictions # <<>>
           /\ Len(inflightEviction) < MaxInflightEviction
           /\ CanSend(bottomOut)
           /\ bottomOut' = Append(bottomOut, m)
           /\ pendingEvictions' = Tail(pendingEvictions)
           /\ inflightEviction' = Append(inflightEviction, t)
  <2>1. /\ pendingEvictions \in Seq(ReqID) /\ inflightEviction \in Seq(ReqID)
        /\ bottomOut \in Seq(ReadMsg \cup WriteMsg) /\ trans \in [ReqID -> TransType]
        /\ Len(bottomOut) < PortCap /\ PortCap \in Nat /\ MaxInflightEviction \in Nat
        /\ WriteBufferCapacity \in Nat
        /\ Len(pendingEvictions) + Len(inflightEviction) =< WriteBufferCapacity
    BY <1>2, <1>4, WritebackAssumption
       DEF PortTypes, BufferTypes, ArrayTypes, CanSend, Room
  <2>2. /\ t \in ReqID /\ Tail(pendingEvictions) \in Seq(ReqID)
        /\ Len(Tail(pendingEvictions)) = Len(pendingEvictions) - 1
        /\ Len(pendingEvictions) \in Nat
    BY <1>4, <2>1, Taken1
  <2>3. m \in ReadMsg \cup WriteMsg /\ m.write
    <3>1. trans[t].evictingAddr \in Lines \cup {NoLine}
      BY <2>1, <2>2 DEF TransType
    <3> HIDE DEF t
    <3> QED
      BY <2>2, <3>1 DEF WriteMsg
  <2> HIDE DEF t, m
  <2>4. /\ Append(bottomOut, m) \in Seq(ReadMsg \cup WriteMsg)
        /\ Len(Append(bottomOut, m)) =< PortCap
    BY <2>1, <2>3, Added
  <2>5. /\ Append(inflightEviction, t) \in Seq(ReqID)
        /\ Len(Append(inflightEviction, t)) = Len(inflightEviction) + 1
        /\ Len(Append(inflightEviction, t)) =< MaxInflightEviction
        /\ Len(inflightEviction) \in Nat
    BY <1>4, <2>1, <2>2, Added
  <2>6. PortTypes'
    BY <1>1, <1>2, <1>4, <2>4 DEF PortTypes
  <2>7. BufferTypes'
    <3>1. Len(pendingEvictions') + Len(inflightEviction') =< WriteBufferCapacity
      BY <1>4, <2>1, <2>2, <2>5
    <3> QED
      BY <1>1, <1>2, <1>4, <2>2, <2>5, <3>1 DEF BufferTypes
  <2>8. AskInv'
    <3>1. Asks(Append(bottomOut, m), lowReqs, bottomIn, inflightFetch)
      BY <2>1, <2>3, AskWrite DEF WInv, AskInv
    <3> QED
      BY <1>1, <1>4, <3>1 DEF AskInv
  <2>9. StageTypes' /\ ArrayTypes' /\ WaitInv' /\ Taken' = Taken /\ BankInv'
        /\ InBank' = InBank /\ ApartInv'
    BY <1>1, <1>2, StagesKept, ArraysKept, WaitKept, BankKept, PlacesKept DEF WInv
  <2>10. WorldInv'
    BY <1>1, <2>9, WorldKept DEF WInv
  <2> QED
    BY <2>6, <2>7, <2>8, <2>9, <2>10 DEF WInv, WTypes
<1> QED
  BY <1>3, <1>4 DEF WriteStage

\* The directory's pipeline of no stage, which hands a transaction on to its
\* buffer, keeps the invariant.
LEMMA AcceptKeeps == ASSUME WInv, AcceptNewTransaction PROVE WInv'
<1>1. UNCHANGED <<ports, buffers, arrays, bank, places, tales, asked, reqs, topIn, counted,
                  dirToBank, writeBufferToBank, mshrStageBuffer, writeBufferBuffer,
                  processingMSHREntry, downwardInflightTransCount>>
  BY DEF AcceptNewTransaction, top, low, bank, toBank, buffer, misses, respond, array, work,
         outside, ports, buffers, arrays, places, tales, asked
<1>2. PortTypes /\ StageTypes /\ BufferTypes /\ ArrayTypes /\ WaitInv
  BY DEF WInv, WTypes
<1>3. CASE UNCHANGED <<dirStageBuffer, dirBuf>>
  <2>1. UNCHANGED <<ports, stages, buffers, arrays, upper, bank, places, tales, asked>>
    BY <1>1, <1>3 DEF stages, upper
  <2> QED
    BY <2>1, AllKept
<1>4. CASE /\ dirStageBuffer # <<>> /\ Room(dirBuf, 1)
           /\ dirBuf' = Append(dirBuf, Head(dirStageBuffer))
           /\ dirStageBuffer' = Tail(dirStageBuffer)
  <2>1. Single(dirStageBuffer) /\ Single(dirBuf)
    BY <1>2 DEF StageTypes
  <2>2. Head(dirStageBuffer) \in ReqID /\ Single(dirStageBuffer')
    BY <1>4, <2>1, OneTaken
  <2>3. Single(dirBuf')
    <3>1. Append(dirBuf, Head(dirStageBuffer)) = <<Head(dirStageBuffer)>>
          /\ Single(<<Head(dirStageBuffer)>>)
      BY <1>4, <2>1, <2>2, OneAdded
    <3> QED
      BY <1>4, <3>1
  <2>4. /\ Waits(reqs, topIn, Tail(dirStageBuffer), Append(dirBuf, Head(dirStageBuffer)))
        /\ TakenOf(reqs, topIn, Tail(dirStageBuffer), Append(dirBuf, Head(dirStageBuffer)))
             = Taken
    BY <1>2, <1>4, <2>1, WaitAccept DEF PortTypes, WaitInv, Taken
  <2>5. WaitInv' /\ Taken' = Taken
    BY <1>1, <1>4, <2>4 DEF WaitInv, Taken
  <2>6. StageTypes'
    BY <1>1, <1>2, <2>2, <2>3 DEF StageTypes
  <2>7. PortTypes' /\ BufferTypes' /\ ArrayTypes' /\ BankInv' /\ InBank' = InBank
        /\ ApartInv' /\ AskInv'
    BY <1>1, <1>2, PortsKept, BuffersKept, ArraysKept, BankKept, PlacesKept, AskKept DEF WInv
  <2>8. WorldInv'
    BY <1>1, <2>5, <2>7, WorldKept DEF WInv
  <2> QED
    BY <2>5, <2>6, <2>7, <2>8 DEF WInv, WTypes
<1> QED
  BY <1>3, <1>4 DEF AcceptNewTransaction

\* The top parser keeps the invariant.
LEMMA TopParserKeeps == ASSUME WInv, TopParser PROVE WInv'
<1>1. UNCHANGED <<buffers, arrays, bank, places, tales, asked, reqs, dirBuf, counted,
                  dirToBank, writeBufferToBank, mshrStageBuffer, writeBufferBuffer,
                  processingMSHREntry, downwardInflightTransCount,
                  topOut, bottomIn, bottomOut, lowReqs, mem, answers>>
  BY DEF TopParser, low, bank, toBank, buffer, misses, respond, array,
         outside, buffers, arrays, places, tales, asked
<1>2. PortTypes /\ StageTypes /\ BufferTypes /\ ArrayTypes /\ WaitInv
  BY DEF WInv, WTypes
<1>3. CASE UNCHANGED <<dirStageBuffer, topIn>>
  <2>1. UNCHANGED <<ports, stages, buffers, arrays, upper, bank, places, tales, asked>>
    BY <1>1, <1>3 DEF stages, upper, ports
  <2> QED
    BY <2>1, AllKept
<1>4. CASE /\ topIn # <<>> /\ Room(dirStageBuffer, 1)
           /\ dirStageBuffer' = Append(dirStageBuffer, Head(topIn))
           /\ topIn' = Tail(topIn)
  <2>1. Single(dirStageBuffer) /\ Single(dirBuf) /\ topIn \in Seq(ReqID) /\ reqs \in Seq(Request)
    BY <1>2 DEF StageTypes, PortTypes
  <2>2. /\ Head(topIn) \in ReqID /\ Tail(topIn) \in Seq(ReqID)
        /\ Len(Tail(topIn)) = Len(topIn) - 1 /\ Len(topIn) \in Nat
    BY <1>4, <2>1, Taken1
  <2>3. Single(dirStageBuffer')
    <3>1. Append(dirStageBuffer, Head(topIn)) = <<Head(topIn)>> /\ Single(<<Head(topIn)>>)
      BY <1>4, <2>1, <2>2, OneAdded
    <3> QED
      BY <1>4, <3>1
  <2>4. /\ Waits(reqs, Tail(topIn), Append(dirStageBuffer, Head(topIn)), dirBuf)
        /\ TakenOf(reqs, Tail(topIn), Append(dirStageBuffer, Head(topIn)), dirBuf) = Taken
    BY <1>2, <1>4, <2>1, WaitParse DEF WaitInv, Taken
  <2>5. WaitInv' /\ Taken' = Taken
    BY <1>1, <1>4, <2>4 DEF WaitInv, Taken
  <2>6. StageTypes'
    BY <1>1, <1>2, <2>3 DEF StageTypes
  <2>7. Len(topIn') =< PortCap
    <3>1. Len(topIn) =< PortCap /\ PortCap \in Nat
      BY <1>2, WritebackAssumption DEF PortTypes
    <3> QED
      BY <1>4, <2>2, <3>1
  <2>8. PortTypes'
    BY <1>1, <1>2, <1>4, <2>2, <2>7 DEF PortTypes
  <2>9. BufferTypes' /\ ArrayTypes' /\ BankInv' /\ InBank' = InBank /\ ApartInv' /\ AskInv'
    BY <1>1, <1>2, BuffersKept, ArraysKept, BankKept, PlacesKept, AskKept DEF WInv
  <2>10. WorldInv'
    BY <1>1, <2>5, <2>9, WorldKept DEF WInv
  <2> QED
    BY <2>5, <2>6, <2>8, <2>9, <2>10 DEF WInv, WTypes
<1> QED
  BY <1>3, <1>4 DEF TopParser

(***************************************************************************)
(* The two sides                                                           *)
(***************************************************************************)
LEMMA DeliverKeeps == ASSUME WInv, NEW r, TopDeliver(r) PROVE WInv'
<1> DEFINE q == [write |-> r.write, full |-> r.full, line |-> r.line,
                 floor |-> Acknowledged(r.line)]
           n == Len(reqs)
<1>1. UNCHANGED <<stages, buffers, arrays, bank, places, asked, evictingList,
                  topOut, bottomIn, bottomOut, lowReqs, mem, answers, dirStageBuffer, dirBuf>>
  BY DEF TopDeliver, Between, low, dir, bank, toBank, buffer, misses, respond, array,
         stages, buffers, arrays, places, asked
<1>2. PortTypes /\ StageTypes /\ BufferTypes /\ ArrayTypes /\ WaitInv /\ WorldInv
  BY DEF WInv, WTypes
<1>3. /\ n < MaxReqs /\ Room(topIn, PortCap) /\ r \in Script[n + 1]
      /\ reqs' = Append(reqs, q) /\ topIn' = Append(topIn, n + 1)
  BY DEF TopDeliver
<1>4. /\ reqs \in Seq(Request) /\ topIn \in Seq(ReqID) /\ n \in Nat /\ MaxReqs \in Nat
      /\ Single(dirStageBuffer) /\ Single(dirBuf)
  BY <1>2, WritebackAssumption, LenProperties DEF PortTypes, StageTypes
<1>5. n + 1 \in ReqID
  BY <1>3, <1>4 DEF ReqID
<1>6. q \in Request
  <2>1. r \in [write : BOOLEAN, full : BOOLEAN, line : Lines]
    BY <1>3, <1>5, WritebackAssumption DEF ReqID
  <2>2. Acknowledged(r.line) \in Nat
    BY <1>2, AcknowledgedTyped DEF PortTypes
  <2> QED
    BY <2>1, <2>2 DEF Request
<1> HIDE DEF q
<1>7. /\ Append(reqs, q) \in Seq(Request) /\ Len(Append(reqs, q)) =< MaxReqs
      /\ Append(topIn, n + 1) \in Seq(ReqID) /\ Len(Append(topIn, n + 1)) =< PortCap
  <2>1. PortCap \in Int /\ Len(topIn) < PortCap
    BY <1>3, WritebackAssumption DEF Room
  <2> QED
    BY <1>3, <1>4, <1>5, <1>6, <2>1, Added
<1>8. PortTypes'
  BY <1>1, <1>2, <1>3, <1>7 DEF PortTypes
<1>9. /\ Waits(Append(reqs, q), Append(topIn, n + 1), dirStageBuffer, dirBuf)
      /\ TakenOf(Append(reqs, q), Append(topIn, n + 1), dirStageBuffer, dirBuf) = Taken
  BY <1>2, <1>4, <1>5, <1>6, WaitDeliver DEF WaitInv, Taken
<1>10. WaitInv' /\ Taken' = Taken
  BY <1>1, <1>3, <1>9 DEF WaitInv, Taken
<1>11. StageTypes' /\ BufferTypes' /\ ArrayTypes' /\ BankInv' /\ InBank' = InBank
       /\ ApartInv' /\ AskInv'
  BY <1>1, <1>2, StagesKept, BuffersKept, ArraysKept, BankKept, PlacesKept, AskKept DEF WInv
<1>12. \A u \in 1 .. Taken : reqs'[u] = reqs[u]
  <2>1. Taken \in Nat /\ Taken =< n
    <3>1. Taken = n - Len(topIn) - Len(dirStageBuffer) - Len(dirBuf) /\ Taken \in Nat
      BY <1>2 DEF WaitInv, Waits, Taken, TakenOf
    <3>2. Len(topIn) \in Nat /\ Len(dirStageBuffer) \in Nat /\ Len(dirBuf) \in Nat
      BY <1>4, LenProperties DEF Single
    <3> QED
      BY <1>4, <3>1, <3>2
  <2>2. \A u \in 1 .. n : Append(reqs, q)[u] = reqs[u]
    BY <1>4, <1>6, AppendProperties
  <2> QED
    BY <1>3, <1>4, <2>1, <2>2
<1>13. World(AtBank, InBank, AtBuffer, GoingBack, inflightFetch, Filled, Taken,
             trans, blocks, entry, mshr, evictingList, reqs')
  BY <1>2, <1>12, WorldArrives DEF WorldInv
<1>14. WorldInv'
  <2>1. /\ AtBank' = AtBank /\ AtBuffer' = AtBuffer /\ GoingBack' = GoingBack
        /\ inflightFetch' = inflightFetch /\ Filled' = Filled
    BY <1>1, PlacesKept
  <2>2. UNCHANGED <<trans, blocks, entry, mshr, evictingList>>
    BY <1>1 DEF arrays
  <2> QED
    BY <1>10, <1>11, <1>13, <2>1, <2>2 DEF WorldInv
<1> QED
  BY <1>8, <1>10, <1>11, <1>14 DEF WInv, WTypes

\* The user of the cache taking an answer keeps the invariant.
LEMMA CollectKeeps == ASSUME WInv, TopCollect PROVE WInv'
<1>1. UNCHANGED <<stages, buffers, arrays, upper, bank, places, tales, asked,
                  topIn, bottomIn, bottomOut, lowReqs, mem, reqs>>
  BY DEF TopCollect, Between, low, dir, bank, toBank, buffer, misses, respond, array,
         stages, buffers, arrays, upper, places, tales, asked
<1>2. PortTypes /\ StageTypes /\ BufferTypes /\ ArrayTypes
  BY DEF WInv, WTypes
<1>3. topOut # <<>> /\ answers' = answers \cup {Head(topOut)} /\ topOut' = Tail(topOut)
  BY DEF TopCollect
<1>4. /\ Head(topOut) \in Response /\ Tail(topOut) \in Seq(Response)
      /\ Len(Tail(topOut)) = Len(topOut) - 1 /\ Len(topOut) \in Nat
  BY <1>2, <1>3, Taken1 DEF PortTypes
<1>5. Len(topOut') =< PortCap
  <2>1. Len(topOut) =< PortCap /\ PortCap \in Nat
    BY <1>2, WritebackAssumption DEF PortTypes
  <2> QED
    BY <1>3, <1>4, <2>1
<1>6. PortTypes'
  BY <1>1, <1>2, <1>3, <1>4, <1>5 DEF PortTypes
<1>7. StageTypes' /\ BufferTypes' /\ ArrayTypes' /\ BankInv' /\ InBank' = InBank
      /\ WaitInv' /\ Taken' = Taken /\ ApartInv' /\ AskInv'
  BY <1>1, <1>2, StagesKept, BuffersKept, ArraysKept, BankKept, WaitKept, PlacesKept, AskKept
     DEF WInv
<1>8. WorldInv'
  BY <1>1, <1>7, WorldKept DEF WInv
<1> QED
  BY <1>6, <1>7, <1>8 DEF WInv, WTypes

\* The memory accepting a message keeps the invariant.
LEMMA LowAcceptKeeps == ASSUME WInv, LowAccept PROVE WInv'
<1>1. UNCHANGED <<stages, buffers, arrays, upper, bank, places, tales,
                  topIn, topOut, bottomIn, mem, reqs, answers, inflightFetch>>
  BY DEF LowAccept, Between, top, dir, bank, toBank, buffer, misses, respond, array,
         stages, buffers, arrays, upper, places, tales
<1>2. PortTypes /\ StageTypes /\ BufferTypes /\ ArrayTypes /\ AskInv
  BY DEF WInv, WTypes
<1>3. /\ bottomOut # <<>> /\ lowReqs' = Append(lowReqs, Head(bottomOut))
      /\ bottomOut' = Tail(bottomOut)
  BY DEF LowAccept
<1> DEFINE S == ReadMsg \cup WriteMsg
<1>4. bottomOut \in Seq(S) /\ lowReqs \in Seq(S)
  BY <1>2 DEF PortTypes
<1> HIDE DEF S
<1>5. /\ Head(bottomOut) \in S /\ Tail(bottomOut) \in Seq(S)
      /\ Len(Tail(bottomOut)) = Len(bottomOut) - 1 /\ Len(bottomOut) \in Nat
  BY <1>3, <1>4, Taken1
<1>6. Append(lowReqs, Head(bottomOut)) \in Seq(S)
  BY <1>4, <1>5, AppendProperties
<1>7. Len(bottomOut') =< PortCap
  <2>1. Len(bottomOut) =< PortCap /\ PortCap \in Nat
    BY <1>2, WritebackAssumption DEF PortTypes
  <2> QED
    BY <1>3, <1>5, <2>1
<1>8. PortTypes'
  BY <1>1, <1>2, <1>3, <1>5, <1>6, <1>7 DEF PortTypes, S
<1>9. Asks(Tail(bottomOut), Append(lowReqs, Head(bottomOut)), bottomIn, inflightFetch)
  BY <1>2, <1>3, <1>4, AskAccept DEF AskInv
<1>10. AskInv'
  BY <1>1, <1>3, <1>9 DEF AskInv
<1>11. StageTypes' /\ BufferTypes' /\ ArrayTypes' /\ BankInv' /\ InBank' = InBank
       /\ WaitInv' /\ Taken' = Taken /\ ApartInv'
  BY <1>1, <1>2, StagesKept, BuffersKept, ArraysKept, BankKept, WaitKept, PlacesKept DEF WInv
<1>12. WorldInv'
  BY <1>1, <1>11, WorldKept DEF WInv
<1> QED
  BY <1>8, <1>10, <1>11, <1>12 DEF WInv, WTypes

\* The memory answering a message keeps the invariant.
LEMMA LowRespondKeeps == ASSUME WInv, LowRespond PROVE WInv'
<1> DEFINE r == Head(lowReqs)
           a == [write |-> r.write, of |-> r.of, ver |-> IF r.write THEN 0 ELSE mem[r.line]]
<1>1. UNCHANGED <<stages, buffers, arrays, upper, bank, places, tales,
                  topIn, topOut, bottomOut, reqs, answers, inflightFetch>>
  BY DEF LowRespond, Between, top, dir, bank, toBank, buffer, misses, respond, array,
         stages, buffers, arrays, upper, places, tales
<1>2. PortTypes /\ StageTypes /\ BufferTypes /\ ArrayTypes /\ AskInv
  BY DEF WInv, WTypes
<1>3. /\ lowReqs # <<>> /\ Room(bottomIn, PortCap)
      /\ bottomIn' = Append(bottomIn, a) /\ lowReqs' = Tail(lowReqs)
      /\ mem' = IF r.write THEN [mem EXCEPT ![r.line] = evictingData[r.of]] ELSE mem
  BY DEF LowRespond
<1>4. /\ lowReqs \in Seq(ReadMsg \cup WriteMsg) /\ mem \in [Lines -> Nat]
      /\ evictingData \in [ReqID -> Nat] /\ bottomIn \in Seq(Answer)
  BY <1>2 DEF PortTypes, BufferTypes
<1>5. /\ r \in ReadMsg \cup WriteMsg /\ Tail(lowReqs) \in Seq(ReadMsg \cup WriteMsg)
  BY <1>3, <1>4, Taken1
<1> HIDE DEF r
<1>6. /\ r.write \in BOOLEAN /\ r.of \in ReqID
      /\ ~r.write => r.line \in Lines
  BY <1>5 DEF ReadMsg, WriteMsg
<1>7. a \in Answer
  <2>1. (IF r.write THEN 0 ELSE mem[r.line]) \in Nat
    BY <1>4, <1>6
  <2> QED
    BY <1>6, <2>1 DEF Answer
<1>8. mem' \in [Lines -> Nat]
  <2>1. evictingData[r.of] \in Nat
    BY <1>4, <1>6
  <2> QED
    BY <1>3, <1>4, <2>1
<1>9. a.write = r.write /\ a.of = r.of
  OBVIOUS
<1> HIDE DEF a
<1>10. Append(bottomIn, a) \in Seq(Answer) /\ Len(Append(bottomIn, a)) =< PortCap
  <2>1. PortCap \in Int /\ Len(bottomIn) < PortCap
    BY <1>3, WritebackAssumption DEF Room
  <2> QED
    BY <1>4, <1>7, <2>1, Added
<1>11. PortTypes'
  BY <1>1, <1>2, <1>3, <1>5, <1>8, <1>10 DEF PortTypes
<1>12. Asks(bottomOut, Tail(lowReqs), Append(bottomIn, a), inflightFetch)
  BY <1>2, <1>3, <1>4, <1>7, <1>9, AskRespond DEF AskInv, r
<1>13. AskInv'
  BY <1>1, <1>3, <1>12 DEF AskInv
<1>14. StageTypes' /\ BufferTypes' /\ ArrayTypes' /\ BankInv' /\ InBank' = InBank
       /\ WaitInv' /\ Taken' = Taken /\ ApartInv'
  BY <1>1, <1>2, StagesKept, BuffersKept, ArraysKept, BankKept, WaitKept, PlacesKept DEF WInv
<1>15. WorldInv'
  BY <1>1, <1>14, WorldKept DEF WInv
<1> QED
  BY <1>11, <1>13, <1>14, <1>15 DEF WInv, WTypes

(***************************************************************************)
(* The mshr stage, and the bank that finishes a transaction                *)
(***************************************************************************)
\* The entry the mshr stage works on is a filled one, and out of its buffer.
LEMMA MshrTakes ==
  ASSUME StageTypes, ApartInv,
         mshrStageBuffer' = IF processingMSHREntry = 0 /\ mshrStageBuffer # <<>>
                              THEN Tail(mshrStageBuffer) ELSE mshrStageBuffer,
         processingMSHREntry' \in {0, CurrentEntry}
  PROVE  /\ CurrentEntry = 0 \/ (CurrentEntry \in Filled /\ CurrentEntry \in ReqID)
         /\ Single(mshrStageBuffer') /\ processingMSHREntry' \in 0 .. MaxReqs
         /\ ApartInv' /\ Filled' \in SUBSET Filled
         /\ CurrentEntry \notin ToSet(mshrStageBuffer')
<1> DEFINE e == CurrentEntry
           p == processingMSHREntry
           buf == mshrStageBuffer
<1>1. /\ Single(buf) /\ p \in 0 .. MaxReqs /\ p \notin ToSet(buf)
      /\ MaxReqs \in Nat
  BY WritebackAssumption DEF StageTypes, ApartInv
<1>2. e = 0 \/ (e \in Filled /\ e \in ReqID)
  <2>1. CASE p # 0
    <3>1. e = p
      BY <2>1 DEF CurrentEntry
    <3> QED
      BY <1>1, <2>1, <3>1 DEF Filled, FilledOf, ReqID
  <2>2. CASE p = 0 /\ buf # <<>>
    <3>1. e = Head(buf)
      BY <2>2 DEF CurrentEntry
    <3>2. Head(buf) \in ReqID /\ ToSet(buf) = {Head(buf)}
      BY <1>1, <2>2, OneTaken
    <3> QED
      BY <3>1, <3>2 DEF Filled, FilledOf
  <2>3. CASE p = 0 /\ buf = <<>>
    BY <2>3 DEF CurrentEntry
  <2> QED
    BY <2>1, <2>2, <2>3
<1>3. /\ Single(mshrStageBuffer') /\ ToSet(mshrStageBuffer') \in SUBSET ToSet(buf)
      /\ e \notin ToSet(mshrStageBuffer') /\ 0 \notin ToSet(mshrStageBuffer')
  <2>1. CASE p = 0 /\ buf # <<>>
    <3>1. mshrStageBuffer' = Tail(buf)
      BY <2>1
    <3>2. Tail(buf) = <<>> /\ ToSet(<<>>) = {} /\ Single(<<>>)
      BY <1>1, <2>1, OneTaken
    <3> QED
      BY <3>1, <3>2
  <2>2. CASE ~(p = 0 /\ buf # <<>>)
    <3>1. mshrStageBuffer' = buf
      BY <2>2
    <3>2. 0 \notin ToSet(buf)
      BY <1>1, SetOfSeq DEF Single, ReqID
    <3>3. e \notin ToSet(buf)
      <4>1. CASE p # 0
        BY <1>1, <4>1 DEF CurrentEntry
      <4>2. CASE p = 0
        BY <2>2, <3>2, <4>2 DEF CurrentEntry
      <4> QED
        BY <4>1, <4>2
    <3> QED
      BY <1>1, <3>1, <3>2, <3>3
  <2> QED
    BY <2>1, <2>2
<1>4. processingMSHREntry' \in {0, e}
  OBVIOUS
<1> HIDE DEF e
<1>5. processingMSHREntry' \in 0 .. MaxReqs
  BY <1>1, <1>2, <1>4 DEF ReqID
<1>6. ApartInv'
  BY <1>3, <1>4 DEF ApartInv
<1>7. Filled' \in SUBSET Filled
  <2>1. ToSet(mshrStageBuffer') \in SUBSET Filled
    BY <1>3 DEF Filled, FilledOf
  <2>2. {processingMSHREntry'} \ {0} \in SUBSET Filled
    BY <1>2, <1>4
  <2>3. Filled' = ToSet(mshrStageBuffer') \cup ({processingMSHREntry'} \ {0})
    BY DEF Filled, FilledOf
  <2> QED
    BY <2>1, <2>2, <2>3
<1> QED
  BY <1>2, <1>3, <1>5, <1>6, <1>7 DEF e

\* The mshr stage preserves the invariant.
LEMMA MshrKeeps == ASSUME WInv, MshrStage PROVE WInv'
<1> DEFINE e == CurrentEntry
           left == Tail(entry[e].requests)
<1>1. /\ UNCHANGED <<buffers, upper, bank, asked, mshr, blocks, storage, lru, trans,
                     dirStageBuffer, dirBuf, dirToBank, writeBufferToBank, writeBufferBuffer,
                     counted, downwardInflightTransCount, inflightFetch, evictingList,
                     topIn, bottomIn, bottomOut, lowReqs, mem, reqs, answers>>
      /\ mshrStageBuffer' = IF processingMSHREntry = 0 /\ mshrStageBuffer # <<>>
                              THEN Tail(mshrStageBuffer) ELSE mshrStageBuffer
  BY DEF MshrStage, Respond, top, low, dir, bank, toBank, buffer, array, outside,
         buffers, upper, asked
<1>2. /\ PortTypes /\ StageTypes /\ BufferTypes /\ ArrayTypes /\ ApartInv
      /\ World(AtBank, InBank, AtBuffer, GoingBack, inflightFetch, Filled, Taken,
               trans, blocks, entry, mshr, evictingList, reqs)
  BY DEF WInv, WTypes, WorldInv
<1>3. \/ /\ e # 0 /\ CanSend(topOut)
         /\ Respond(Head(entry[e].requests), EntryData(e))
         /\ entry' = [entry EXCEPT ![e].requests = left]
         /\ processingMSHREntry' = IF left = <<>> THEN 0 ELSE e
      \/ processingMSHREntry' = e /\ UNCHANGED <<topIn, topOut, entry>>
  BY DEF MshrStage, top
<1> HIDE DEF left
<1>4. processingMSHREntry' \in {0, e}
  BY <1>3
<1>5. /\ e = 0 \/ (e \in Filled /\ e \in ReqID)
      /\ Single(mshrStageBuffer') /\ processingMSHREntry' \in 0 .. MaxReqs
      /\ ApartInv' /\ Filled' \in SUBSET Filled
      /\ e \notin ToSet(mshrStageBuffer')
  BY <1>1, <1>2, <1>4, MshrTakes
<1> HIDE DEF e
<1>6. /\ BufferTypes' /\ WaitInv' /\ Taken' = Taken /\ BankInv' /\ InBank' = InBank /\ AskInv'
  BY <1>1, <1>2, BuffersKept, WaitKept, BankKept, AskKept DEF WInv
<1>7. StageTypes'
  BY <1>1, <1>2, <1>5 DEF StageTypes
<1>8. /\ AtBank' = AtBank /\ AtBuffer' = AtBuffer /\ GoingBack' = GoingBack
  BY <1>1 DEF AtBank, AtBuffer, GoingBack
<1>9. /\ \A u \in Filled : entry[u].requests # <<>>
      /\ Filled \in SUBSET ReqID
  <2>1. \A u \in Filled : entry[u].requests # <<>>
    BY <1>2 DEF World, Opens
  <2>2. Filled \in SUBSET ReqID
    BY <1>2, WorldTyped
  <2> QED
    BY <2>1, <2>2
<1>10. entry \in [ReqID -> EntryType] /\ evictingData \in [ReqID -> Nat]
  BY <1>2 DEF ArrayTypes, BufferTypes
<1>11. CASE processingMSHREntry' = e /\ UNCHANGED <<topIn, topOut, entry>>
  <2>1. PortTypes' /\ ArrayTypes'
    <3>1. UNCHANGED <<ports, arrays>>
      BY <1>1, <1>11 DEF ports, arrays
    <3> QED
      BY <1>2, <3>1, PortsKept, ArraysKept
  <2>2. /\ \A u \in ReqID : u \notin Filled => entry'[u] = entry[u]
        /\ \A u \in Filled' : entry'[u].requests # <<>>
    BY <1>5, <1>9, <1>11
  <2>3. World(AtBank, InBank, AtBuffer, GoingBack, inflightFetch, Filled', Taken,
              trans, blocks, entry', mshr, evictingList, reqs)
    BY <1>2, <1>5, <2>2, WorldAnswers
  <2>4. WorldInv'
    BY <1>1, <1>6, <1>8, <2>3 DEF WorldInv
  <2> QED
    BY <1>5, <1>6, <1>7, <2>1, <2>4 DEF WInv, WTypes
<1>12. CASE /\ e # 0 /\ CanSend(topOut)
            /\ Respond(Head(entry[e].requests), EntryData(e))
            /\ entry' = [entry EXCEPT ![e].requests = left]
            /\ processingMSHREntry' = IF left = <<>> THEN 0 ELSE e
  <2>1. e \in ReqID /\ e \in Filled /\ entry[e].requests # <<>>
    BY <1>5, <1>9, <1>12
  <2>2. /\ entry[e].requests \in Seq(ReqID)
        /\ Head(entry[e].requests) \in ReqID /\ left \in Seq(ReqID)
    <3>1. entry[e].requests \in Seq(ReqID)
      BY <1>10, <2>1 DEF EntryType
    <3> QED
      BY <2>1, <3>1, Taken1 DEF left
  <2>3. EntryData(e) \in Nat
    BY <1>10, <2>1, EntryDataTyped
  <2>4. /\ entry' \in [ReqID -> EntryType] /\ entry'[e].requests = left
        /\ \A u \in ReqID : u # e => entry'[u] = entry[u]
    BY <1>10, <1>12, <2>1, <2>2, RequestsSet, SMTT(30)
  <2>5. PortTypes'
    <3> DEFINE x == [rspTo |-> Head(entry[e].requests), ver |-> EntryData(e)]
    <3>1. topOut' = Append(topOut, x)
      BY <1>12 DEF Respond
    <3>2. x \in Response
      BY <2>2, <2>3 DEF Response
    <3> HIDE DEF x
    <3>3. topOut \in Seq(Response) /\ PortCap \in Int /\ Len(topOut) < PortCap
      BY <1>2, <1>12, WritebackAssumption DEF PortTypes, CanSend, Room
    <3>4. Append(topOut, x) \in Seq(Response) /\ Len(Append(topOut, x)) =< PortCap
      BY <3>2, <3>3, Added
    <3> QED
      BY <1>1, <1>2, <3>1, <3>4 DEF PortTypes
  <2>6. ArrayTypes'
    BY <1>1, <1>2, <2>4 DEF ArrayTypes
  <2>7. \A u \in Filled' : entry'[u].requests # <<>>
    <3> SUFFICES ASSUME NEW u \in Filled' PROVE entry'[u].requests # <<>>
      OBVIOUS
    <3>1. u \in Filled /\ u \in ReqID
      BY <1>5, <1>9
    <3>2. CASE u # e
      BY <1>9, <2>4, <3>1, <3>2
    <3>3. CASE u = e
      <4>1. u \in ToSet(mshrStageBuffer') \/ u = processingMSHREntry'
        BY DEF Filled, FilledOf
      <4>2. processingMSHREntry' = e
        BY <1>5, <3>3, <4>1
      <4>3. left # <<>>
        BY <1>12, <4>2
      <4> QED
        BY <2>4, <3>3, <4>3
    <3> QED
      BY <3>2, <3>3
  <2>8. \A u \in ReqID : u \notin Filled => entry'[u] = entry[u]
    BY <2>1, <2>4
  <2>9. World(AtBank, InBank, AtBuffer, GoingBack, inflightFetch, Filled', Taken,
              trans, blocks, entry', mshr, evictingList, reqs)
    BY <1>2, <1>5, <2>7, <2>8, WorldAnswers
  <2>10. WorldInv'
    BY <1>1, <1>6, <1>8, <2>9 DEF WorldInv
  <2> QED
    BY <1>5, <1>6, <1>7, <2>5, <2>6, <2>10 DEF WInv, WTypes
<1> QED
  BY <1>3, <1>11, <1>12

(***************************************************************************)
(* The bank finishes a transaction                                         *)
(***************************************************************************)
GiveRest == <<topIn, bottomIn, bottomOut, lowReqs, mem, reqs, answers, dirStageBuffer,
              dirBuf, counted, bankPipe, dirToBank, writeBufferToBank, pendingEvictions,
              inflightFetch, inflightEviction, mshr, entry, processingMSHREntry, lru>>

\* The bank gives its k-th finished transaction.
Gives(k) ==
  /\ k \in 1 .. Len(bankBuf) /\ CanFinalize(bankBuf[k])
  /\ bankBuf' = RemoveAt(bankBuf, k) /\ UNCHANGED GiveRest

\* Whatever becomes of the transaction, the bank has one less.
LEMMA GiveKeeps ==
  ASSUME WInv, NEW k, Gives(k)
  PROVE  /\ bankBuf[k] \in InBank /\ bankBuf[k] \in ReqID
         /\ BankInv' /\ InBank' = InBank \ {bankBuf[k]}
         /\ WaitInv' /\ Taken' = Taken /\ AskInv'
         /\ AtBank' = AtBank /\ GoingBack' = GoingBack
<1>1. /\ k \in 1 .. Len(bankBuf) /\ BankOK(bankPipe, bankBuf)
      /\ bankBuf' = RemoveAt(bankBuf, k) /\ bankPipe' = bankPipe
  BY DEF WInv, BankInv, Gives, GiveRest
<1>2. /\ BankOK(bankPipe, RemoveAt(bankBuf, k))
      /\ bankBuf[k] \in BankOf(bankPipe, bankBuf) /\ bankBuf[k] \in ReqID
      /\ BankOf(bankPipe, RemoveAt(bankBuf, k)) = BankOf(bankPipe, bankBuf) \ {bankBuf[k]}
  BY <1>1, BankGives
<1>3. InBank = BankOf(bankPipe, bankBuf) /\ InBank' = BankOf(bankPipe', bankBuf')
  BY DEF InBank, BankOf
<1>4. BankInv' /\ InBank' = InBank \ {bankBuf[k]}
  BY <1>1, <1>2, <1>3 DEF BankInv
<1>5. WaitInv' /\ Taken' = Taken /\ AskInv'
  <2>1. UNCHANGED upper /\ UNCHANGED asked
    BY DEF Gives, GiveRest, upper, asked
  <2> QED
    BY <2>1, WaitKept, AskKept DEF WInv
<1>6. AtBank' = AtBank /\ GoingBack' = GoingBack
  BY DEF Gives, GiveRest, AtBank, GoingBack
<1> QED
  BY <1>2, <1>3, <1>4, <1>5, <1>6

\* A response to a request finds room in the port.
LEMMA RespondTyped ==
  ASSUME PortTypes, CanSend(topOut), NEW t \in ReqID, NEW v \in Nat, Respond(t, v),
         UNCHANGED <<bottomIn, bottomOut, lowReqs, mem, reqs, answers>>
  PROVE  PortTypes'
<1> DEFINE x == [rspTo |-> t, ver |-> v]
<1>1. topOut' = Append(topOut, x) /\ topIn' = topIn
  BY DEF Respond
<1>2. x \in Response
  BY DEF Response
<1> HIDE DEF x
<1>3. topOut \in Seq(Response) /\ PortCap \in Int /\ Len(topOut) < PortCap
  BY WritebackAssumption DEF PortTypes, CanSend, Room
<1>4. Append(topOut, x) \in Seq(Response) /\ Len(Append(topOut, x)) =< PortCap
  BY <1>2, <1>3, Added
<1> QED
  BY <1>1, <1>4 DEF PortTypes

\* A read that hit is answered, and pins its block no more.
LEMMA ReadHitKeeps ==
  ASSUME WInv, NEW k, Gives(k), FinalizeReadHit(bankBuf[k])
  PROVE  WInv'
<1> DEFINE t == bankBuf[k]
           b == trans[t].block
<1>1. /\ t \in InBank /\ t \in ReqID /\ BankInv' /\ InBank' = InBank \ {t}
      /\ WaitInv' /\ Taken' = Taken /\ AskInv' /\ AtBank' = AtBank /\ GoingBack' = GoingBack
  BY GiveKeeps
<1>2. /\ trans[t].action = "bankReadHit" /\ Respond(t, storage[b])
      /\ blocks' = [blocks EXCEPT ![b].ReadCount = @ - 1]
      /\ downwardInflightTransCount' = downwardInflightTransCount - 1
      /\ UNCHANGED <<storage, evictingList, trans, evictingData, mshrStageBuffer,
                     writeBufferBuffer>>
  BY DEF FinalizeReadHit
<1>3. UNCHANGED GiveRest /\ CanFinalize(t)
  BY DEF Gives
<1> HIDE DEF t
<1>4. /\ PortTypes /\ StageTypes /\ BufferTypes /\ ArrayTypes /\ ApartInv
      /\ World(AtBank, InBank, AtBuffer, GoingBack, inflightFetch, Filled, Taken,
               trans, blocks, entry, mshr, evictingList, reqs)
  BY DEF WInv, WTypes, WorldInv
<1>5. t \in All(AtBank, InBank, AtBuffer, GoingBack, inflightFetch)
  BY <1>1 DEF All
<1>6. b \in Slots
  BY <1>4, <1>5, WorldTyped
<1>7. /\ blocks \in [Slots -> BlockType] /\ storage \in [Slots -> Nat]
  BY <1>4 DEF ArrayTypes
<1> HIDE DEF b
<1>8. \A c \in Slots :
        /\ Alike(blocks'[c], blocks[c])
        /\ blocks'[c].ReadCount = blocks[c].ReadCount - (IF c = b THEN 1 ELSE 0)
  <2> SUFFICES ASSUME NEW c \in Slots
               PROVE  /\ Alike(blocks'[c], blocks[c])
                      /\ blocks'[c].ReadCount = blocks[c].ReadCount - (IF c = b THEN 1 ELSE 0)
    OBVIOUS
  <2>1. blocks[c] \in BlockType
    BY <1>7
  <2>2. blocks'[c] = IF c = b THEN [blocks[c] EXCEPT !.ReadCount = @ - 1] ELSE blocks[c]
    BY <1>2, <1>6, <1>7
  <2> QED
    BY <2>1, <2>2 DEF BlockType, Alike
<1>9. /\ World(AtBank, InBank \ {t}, AtBuffer, GoingBack, inflightFetch, Filled, Taken,
               trans, blocks', entry, mshr, evictingList, reqs)
      /\ blocks[b].ReadCount \in Nat \ {0}
  <2>1. t \in InBank /\ trans[t].action = "bankReadHit"
    BY <1>1, <1>2
  <2>2. \A c \in Slots :
          /\ Alike(blocks'[c], blocks[c])
          /\ blocks'[c].ReadCount = blocks[c].ReadCount - (IF c = trans[t].block THEN 1 ELSE 0)
    BY <1>8 DEF b
  <2>3. /\ World(AtBank, InBank \ {t}, AtBuffer, GoingBack, inflightFetch, Filled, Taken,
                 trans, blocks', entry, mshr, evictingList, reqs)
        /\ blocks[trans[t].block].ReadCount \in Nat \ {0}
    BY <1>4, <2>1, <2>2, WorldRead
  <2> QED
    BY <2>3 DEF b
<1>10. AtBuffer' = AtBuffer /\ Filled' = Filled /\ ApartInv'
  BY <1>2, <1>3, <1>4 DEF GiveRest, AtBuffer, Filled, ApartInv
<1>11. WorldInv'
  BY <1>1, <1>2, <1>3, <1>9, <1>10 DEF WorldInv, GiveRest
<1>12. ArrayTypes'
  <2>1. blocks' \in [Slots -> BlockType]
    <3>1. blocks[b] \in BlockType /\ blocks[b].ReadCount - 1 \in Nat
      BY <1>6, <1>7, <1>9
    <3>2. [blocks[b] EXCEPT !.ReadCount = @ - 1] \in BlockType
      BY <3>1 DEF BlockType
    <3> QED
      BY <1>2, <1>7, <3>2
  <2> QED
    BY <1>2, <1>3, <1>4, <2>1 DEF ArrayTypes, GiveRest
<1>13. PortTypes'
  <2>1. storage[b] \in Nat
    BY <1>6, <1>7
  <2>2. CanSend(topOut)
    BY <1>2, <1>3 DEF CanFinalize, Evicting
  <2>3. UNCHANGED <<bottomIn, bottomOut, lowReqs, mem, reqs, answers>>
    BY <1>3 DEF GiveRest
  <2> QED
    BY <1>1, <1>2, <1>4, <2>1, <2>2, <2>3, RespondTyped
<1>14. StageTypes' /\ BufferTypes'
  BY <1>2, <1>3, <1>4 DEF StageTypes, BufferTypes, GiveRest
<1> QED
  BY <1>1, <1>10, <1>11, <1>12, <1>13, <1>14 DEF WInv, WTypes

\* A write is in its block, and the lock is gone.
LEMMA WriteHitKeeps ==
  ASSUME WInv, NEW k, Gives(k), FinalizeWriteHit(bankBuf[k])
  PROVE  WInv'
<1> DEFINE t == bankBuf[k]
           b == trans[t].block
<1>1. /\ t \in InBank /\ t \in ReqID /\ BankInv' /\ InBank' = InBank \ {t}
      /\ WaitInv' /\ Taken' = Taken /\ AskInv' /\ AtBank' = AtBank /\ GoingBack' = GoingBack
  BY GiveKeeps
<1>2. /\ trans[t].action = "bankWriteHit" /\ Respond(t, t)
      /\ storage' = [storage EXCEPT ![b] = t]
      /\ blocks' = [blocks EXCEPT ![b] =
                      [@ EXCEPT !.IsValid = TRUE, !.IsLocked = FALSE, !.IsDirty = TRUE]]
      /\ downwardInflightTransCount' = downwardInflightTransCount - 1
      /\ UNCHANGED <<evictingList, trans, evictingData, mshrStageBuffer, writeBufferBuffer>>
  BY DEF FinalizeWriteHit
<1>3. UNCHANGED GiveRest /\ CanFinalize(t)
  BY DEF Gives
<1> HIDE DEF t
<1>4. /\ PortTypes /\ StageTypes /\ BufferTypes /\ ArrayTypes /\ ApartInv
      /\ World(AtBank, InBank, AtBuffer, GoingBack, inflightFetch, Filled, Taken,
               trans, blocks, entry, mshr, evictingList, reqs)
  BY DEF WInv, WTypes, WorldInv
<1>5. t \in All(AtBank, InBank, AtBuffer, GoingBack, inflightFetch)
  BY <1>1 DEF All
<1>6. b \in Slots
  BY <1>4, <1>5, WorldTyped
<1>7. /\ blocks \in [Slots -> BlockType] /\ storage \in [Slots -> Nat]
      /\ t \in Nat
  BY <1>1, <1>4 DEF ArrayTypes, ReqID
<1> HIDE DEF b
<1>8. Settled(b, blocks, blocks') /\ blocks' \in [Slots -> BlockType]
  <2>1. blocks[b] \in BlockType
    BY <1>6, <1>7
  <2>2. blocks'[b] = [blocks[b] EXCEPT !.IsValid = TRUE, !.IsLocked = FALSE, !.IsDirty = TRUE]
    BY <1>2, <1>6, <1>7
  <2>3. blocks'[b] \in BlockType
    BY <2>1, <2>2 DEF BlockType
  <2>4. Settled(b, blocks, blocks')
    <3>1. \A c \in Slots : c # b => blocks'[c] = blocks[c]
      BY <1>2, <1>7
    <3>2. /\ blocks'[b].IsValid /\ ~blocks'[b].IsLocked
          /\ blocks'[b].Tag = blocks[b].Tag
          /\ blocks'[b].ReadCount = blocks[b].ReadCount
      BY <2>1, <2>2 DEF BlockType
    <3> QED
      BY <3>1, <3>2 DEF Settled
  <2> QED
    BY <1>2, <1>7, <2>2, <2>3, <2>4
<1>9. World(AtBank, InBank \ {t}, AtBuffer, GoingBack, inflightFetch, Filled, Taken,
            trans, blocks', entry, mshr, evictingList, reqs)
  BY <1>1, <1>2, <1>4, <1>8, WorldWritten DEF b
<1>10. AtBuffer' = AtBuffer /\ Filled' = Filled /\ ApartInv'
  BY <1>2, <1>3, <1>4 DEF GiveRest, AtBuffer, Filled, ApartInv
<1>11. WorldInv'
  BY <1>1, <1>2, <1>3, <1>9, <1>10 DEF WorldInv, GiveRest
<1>12. ArrayTypes'
  <2>1. storage' \in [Slots -> Nat]
    BY <1>2, <1>7
  <2> QED
    BY <1>2, <1>3, <1>4, <1>8, <2>1 DEF ArrayTypes, GiveRest
<1>13. PortTypes'
  <2>1. CanSend(topOut)
    BY <1>2, <1>3 DEF CanFinalize, Evicting
  <2>2. UNCHANGED <<bottomIn, bottomOut, lowReqs, mem, reqs, answers>>
    BY <1>3 DEF GiveRest
  <2> QED
    BY <1>1, <1>2, <1>4, <1>7, <2>1, <2>2, RespondTyped
<1>14. StageTypes' /\ BufferTypes'
  BY <1>2, <1>3, <1>4 DEF StageTypes, BufferTypes, GiveRest
<1> QED
  BY <1>1, <1>10, <1>11, <1>12, <1>13, <1>14 DEF WInv, WTypes

\* The fetched line is in its block, and its entry goes to the mshr stage.
LEMMA WriteFetchedKeeps ==
  ASSUME WInv, NEW k, Gives(k), FinalizeBankWriteFetched(bankBuf[k])
  PROVE  WInv'
<1> DEFINE t == bankBuf[k]
           b == trans[t].block
<1>1. /\ t \in InBank /\ t \in ReqID /\ BankInv' /\ InBank' = InBank \ {t}
      /\ WaitInv' /\ Taken' = Taken /\ AskInv' /\ AtBank' = AtBank /\ GoingBack' = GoingBack
  BY GiveKeeps
<1>2. /\ trans[t].action = "bankWriteFetched"
      /\ mshrStageBuffer' = Append(mshrStageBuffer, trans[t].entry)
      /\ storage' = [storage EXCEPT ![entry[trans[t].entry].block] = EntryData(trans[t].entry)]
      /\ blocks' = [blocks EXCEPT ![entry[trans[t].entry].block].IsLocked = FALSE,
                                  ![entry[trans[t].entry].block].IsValid = TRUE]
      /\ UNCHANGED <<topOut, downwardInflightTransCount, evictingList, trans, evictingData,
                     writeBufferBuffer>>
  BY DEF FinalizeBankWriteFetched, top, work
<1>3. UNCHANGED GiveRest /\ CanFinalize(t)
  BY DEF Gives
<1> HIDE DEF t
<1>4. /\ PortTypes /\ StageTypes /\ BufferTypes /\ ArrayTypes /\ ApartInv
      /\ World(AtBank, InBank, AtBuffer, GoingBack, inflightFetch, Filled, Taken,
               trans, blocks, entry, mshr, evictingList, reqs)
  BY DEF WInv, WTypes, WorldInv
<1>5. t \in All(AtBank, InBank, AtBuffer, GoingBack, inflightFetch)
  BY <1>1 DEF All
<1>6. b \in Slots /\ trans[t].entry = t /\ entry[t].block = b
  <2>1. /\ trans[t].block \in Slots
        /\ trans[t].action \in Filling =>
             trans[t].entry = t /\ entry[t].block = trans[t].block
    BY <1>4, <1>5, WorldTyped
  <2>2. trans[t].action \in Filling
    BY <1>2 DEF Filling
  <2> QED
    BY <2>1, <2>2
<1>7. /\ blocks \in [Slots -> BlockType] /\ storage \in [Slots -> Nat]
      /\ entry \in [ReqID -> EntryType] /\ evictingData \in [ReqID -> Nat]
  BY <1>4 DEF ArrayTypes, BufferTypes
<1> HIDE DEF b
<1>8. Settled(b, blocks, blocks') /\ blocks' \in [Slots -> BlockType]
  <2>1. blocks[b] \in BlockType
    BY <1>6, <1>7
  <2>2. blocks' = [blocks EXCEPT ![b] = [blocks[b] EXCEPT !.IsLocked = FALSE, !.IsValid = TRUE]]
    BY <1>2, <1>6, <1>7
  <2>3. blocks'[b] = [blocks[b] EXCEPT !.IsLocked = FALSE, !.IsValid = TRUE]
    BY <1>6, <1>7, <2>2
  <2>4. blocks'[b] \in BlockType
    BY <2>1, <2>3 DEF BlockType
  <2>5. Settled(b, blocks, blocks')
    BY <1>7, <2>1, <2>2, <2>3 DEF BlockType, Settled
  <2> QED
    BY <1>7, <2>2, <2>3, <2>4, <2>5
<1>9. World(AtBank, InBank \ {t}, AtBuffer, GoingBack, inflightFetch, Filled \cup {t}, Taken,
            trans, blocks', entry, mshr, evictingList, reqs)
  BY <1>1, <1>2, <1>4, <1>8, WorldFilled DEF b
<1>10. /\ mshrStageBuffer = <<>> /\ ToSet(mshrStageBuffer) = {}
       /\ mshrStageBuffer' = <<t>> /\ Single(<<t>>) /\ ToSet(<<t>>) = {t}
  <2>1. Room(mshrStageBuffer, 1)
    BY <1>2, <1>3 DEF CanFinalize, Evicting
  <2>2. mshrStageBuffer' = Append(mshrStageBuffer, t) /\ Single(mshrStageBuffer)
    BY <1>2, <1>4, <1>6 DEF StageTypes
  <2> QED
    BY <1>1, <2>1, <2>2, OneAdded
<1>11. AtBuffer' = AtBuffer /\ Filled' = Filled \cup {t}
  BY <1>2, <1>3, <1>10 DEF GiveRest, AtBuffer, Filled, FilledOf
<1>12. ApartInv'
  <2>1. t \notin Filled
    BY <1>4, <1>5, WorldTyped
  <2>2. t # 0
    BY <1>1 DEF ReqID
  <2>3. processingMSHREntry # t
    BY <2>1, <2>2 DEF Filled, FilledOf
  <2> QED
    BY <1>3, <1>10, <2>3 DEF ApartInv, GiveRest
<1>13. WorldInv'
  BY <1>1, <1>2, <1>3, <1>9, <1>11 DEF WorldInv, GiveRest
<1>14. ArrayTypes'
  <2>1. EntryData(t) \in Nat
    BY <1>1, <1>7, EntryDataTyped
  <2>2. storage' \in [Slots -> Nat]
    BY <1>2, <1>6, <1>7, <2>1
  <2> QED
    BY <1>2, <1>3, <1>4, <1>8, <2>2 DEF ArrayTypes, GiveRest
<1>15. PortTypes' /\ StageTypes' /\ BufferTypes'
  BY <1>2, <1>3, <1>4, <1>10 DEF PortTypes, StageTypes, BufferTypes, GiveRest
<1> QED
  BY <1>1, <1>12, <1>13, <1>14, <1>15 DEF WInv, WTypes

\* The old contents of a block are out of it, and go to the write buffer.
LEMMA EvictionKeeps ==
  ASSUME WInv, NEW k, Gives(k), FinalizeBankEviction(bankBuf[k])
  PROVE  WInv'
<1> DEFINE t == bankBuf[k]
           b == trans[t].block
           a == IF trans[t].action = "bankEvictAndFetch" THEN "writeBufferEvictAndFetch"
                                                         ELSE "writeBufferEvictAndWrite"
<1>1. /\ t \in InBank /\ t \in ReqID /\ BankInv' /\ InBank' = InBank \ {t}
      /\ WaitInv' /\ Taken' = Taken /\ AskInv' /\ AtBank' = AtBank /\ GoingBack' = GoingBack
  BY GiveKeeps
<1>2. /\ trans[t].action \in Evicting
      /\ evictingData' = [evictingData EXCEPT ![t] = storage[b]]
      /\ trans' = [trans EXCEPT ![t].action =
                     IF @ = "bankEvictAndFetch" THEN "writeBufferEvictAndFetch"
                                                ELSE "writeBufferEvictAndWrite"]
      /\ evictingList' = evictingList \ {trans[t].evictingAddr}
      /\ writeBufferBuffer' = Append(writeBufferBuffer, t)
      /\ downwardInflightTransCount' = downwardInflightTransCount - 1
      /\ UNCHANGED <<topOut, blocks, storage, mshrStageBuffer>>
  BY DEF FinalizeBankEviction, Released, top
<1>3. UNCHANGED GiveRest /\ CanFinalize(t)
  BY DEF Gives
<1> HIDE DEF t
<1>4. /\ PortTypes /\ StageTypes /\ BufferTypes /\ ArrayTypes /\ ApartInv
      /\ World(AtBank, InBank, AtBuffer, GoingBack, inflightFetch, Filled, Taken,
               trans, blocks, entry, mshr, evictingList, reqs)
  BY DEF WInv, WTypes, WorldInv
<1>5. t \in All(AtBank, InBank, AtBuffer, GoingBack, inflightFetch)
  BY <1>1 DEF All
<1>6. b \in Slots
  BY <1>4, <1>5, WorldTyped
<1>7. /\ storage \in [Slots -> Nat] /\ trans \in [ReqID -> TransType]
      /\ evictingData \in [ReqID -> Nat]
  BY <1>4 DEF ArrayTypes, BufferTypes
<1> HIDE DEF b
<1>8. /\ trans' \in [ReqID -> TransType] /\ trans'[t].action = a
      /\ OnlyAction(t, trans, trans')
  <2>1. trans' = [trans EXCEPT ![t].action = a]
    BY <1>1, <1>2, <1>7
  <2>2. a \in Actions
    BY DEF Actions
  <2> HIDE DEF a
  <2> QED
    BY <1>1, <1>7, <2>1, <2>2, ActionSet
<1>9. World(AtBank, InBank \ {t}, AtBuffer \cup {t}, GoingBack, inflightFetch, Filled, Taken,
            trans', blocks, entry, mshr, evictingList \ {trans[t].evictingAddr}, reqs)
  <2>1. t \in InBank /\ trans[t].action \in Evicting
    BY <1>1, <1>2
  <2>2. trans'[t].action =
          IF trans[t].action = "bankEvictAndFetch" THEN "writeBufferEvictAndFetch"
                                                   ELSE "writeBufferEvictAndWrite"
    BY <1>8
  <2>3. /\ \A u \in ReqID : u # t => trans'[u] = trans[u]
        /\ trans'[t].block = trans[t].block /\ trans'[t].entry = trans[t].entry
        /\ trans'[t].evictingAddr = trans[t].evictingAddr
    BY <1>8 DEF OnlyAction
  <2>4. World(AtBank, InBank, AtBuffer, GoingBack, inflightFetch, Filled, Taken,
              trans, blocks, entry, mshr, evictingList, reqs)
    BY <1>4
  <2> HIDE DEF a
  <2> QED
    BY <2>1, <2>2, <2>3, <2>4, WorldEvicted
<1>10. /\ writeBufferBuffer' = <<t>> /\ Single(<<t>>)
       /\ AtBuffer' = AtBuffer \cup {t}
  <2>1. Room(writeBufferBuffer, 1)
    BY <1>2, <1>3 DEF CanFinalize, Evicting
  <2>2. writeBufferBuffer' = Append(writeBufferBuffer, t) /\ Single(writeBufferBuffer)
    BY <1>2, <1>4 DEF StageTypes
  <2>3. /\ writeBufferBuffer' = <<t>> /\ Single(<<t>>)
        /\ ToSet(<<t>>) = {t} /\ ToSet(writeBufferBuffer) = {}
    BY <1>1, <2>1, <2>2, OneAdded
  <2> QED
    BY <2>3 DEF AtBuffer
<1>11. Filled' = Filled /\ ApartInv'
  BY <1>2, <1>3, <1>4 DEF GiveRest, Filled, ApartInv
<1>12. WorldInv'
  BY <1>1, <1>2, <1>3, <1>9, <1>10, <1>11 DEF WorldInv, GiveRest
<1>13. BufferTypes'
  <2>1. evictingData' \in [ReqID -> Nat]
    BY <1>2, <1>6, <1>7
  <2> QED
    BY <1>3, <1>4, <2>1 DEF BufferTypes, GiveRest
<1>14. PortTypes' /\ StageTypes' /\ ArrayTypes'
  BY <1>2, <1>3, <1>4, <1>8, <1>10 DEF PortTypes, StageTypes, ArrayTypes, GiveRest
<1> QED
  BY <1>1, <1>11, <1>12, <1>13, <1>14 DEF WInv, WTypes

\* The first transaction of the post-pipeline buffer that can be finished is one
\* that is there, and can.
LEMMA FinalizeKeeps == ASSUME WInv, FinalizeTrans PROVE WInv'
<1> DEFINE k == SelectInSeq(bankBuf, CanFinalize)
<1>1. CASE k = 0
  <2>1. UNCHANGED <<ports, stages, buffers, arrays, upper, bank, places, tales, asked>>
    BY <1>1 DEF FinalizeTrans, top, low, dir, toBank, buffer, misses, work, outside, ports,
                stages, buffers, arrays, upper, bank, places, tales, asked
  <2> QED
    BY <2>1, AllKept
<1>2. CASE k # 0
  <2> DEFINE I == {i \in 1 .. Len(bankBuf) : CanFinalize(bankBuf[i])}
  <2>1. k = IF I # {} THEN Min(I) ELSE 0
    BY DEF SelectInSeq
  <2>2. I # {} /\ k = Min(I)
    BY <1>2, <2>1
  <2>3. I \in SUBSET Nat
    OBVIOUS
  <2>4. k \in I
    <3> HIDE DEF I, k
    <3> QED
      BY <2>2, <2>3, MinInSet
  <2>5. /\ bankBuf' = RemoveAt(bankBuf, k)
        /\ \/ FinalizeReadHit(bankBuf[k])
           \/ FinalizeWriteHit(bankBuf[k])
           \/ FinalizeBankWriteFetched(bankBuf[k])
           \/ FinalizeBankEviction(bankBuf[k])
    BY <1>2 DEF FinalizeTrans
  <2> HIDE DEF k
  <2>6. UNCHANGED <<topIn, GiveRest>>
    <3>1. UNCHANGED <<low, dir, bankPipe, toBank, buffer, misses, processingMSHREntry, lru,
                      outside>>
      BY DEF FinalizeTrans
    <3>2. topIn' = topIn
      BY <2>5 DEF FinalizeReadHit, FinalizeWriteHit, FinalizeBankWriteFetched,
                  FinalizeBankEviction, Respond, top
    <3> QED
      BY <3>1, <3>2 DEF low, dir, toBank, buffer, misses, outside, GiveRest
  <2>7. Gives(k)
    BY <2>4, <2>5, <2>6 DEF Gives
  <2> QED
    BY <2>5, <2>7, ReadHitKeeps, WriteHitKeeps, WriteFetchedKeeps, EvictionKeeps
<1> QED
  BY <1>1, <1>2

(***************************************************************************)
(* The write buffer takes a response, and a transaction                    *)
(***************************************************************************)
\* One request less, or one more, in a set of them.
LEMMA OneLess ==
  ASSUME NEW S \in SUBSET ReqID, NEW t, NEW c \in Int, Cardinality(S) =< c
  PROVE  S \ {t} \in SUBSET ReqID /\ Cardinality(S \ {t}) =< c
<1> DEFINE R == S \ {t}
<1>1. IsFiniteSet(S) /\ Cardinality(S) \in Nat
  BY RequestsFinite
<1>2. R \in SUBSET S /\ R \in SUBSET ReqID
  OBVIOUS
<1> HIDE DEF R
<1>3. Cardinality(R) =< Cardinality(S) /\ Cardinality(R) \in Nat
  BY <1>1, <1>2, FS_Subset, RequestsFinite
<1> QED
  BY <1>1, <1>2, <1>3 DEF R

\* Adding a fetch while fewer than the limit are in flight keeps the limit.
LEMMA OneMore ==
  ASSUME NEW S \in SUBSET ReqID, NEW t \in ReqID, NEW c \in Int, Cardinality(S) < c
  PROVE  S \cup {t} \in SUBSET ReqID /\ Cardinality(S \cup {t}) =< c
<1>1. IsFiniteSet(S) /\ Cardinality(S) \in Nat
  BY RequestsFinite
<1>2. CASE t \in S
  <2>1. S \cup {t} = S
    BY <1>2
  <2> QED
    BY <1>1, <2>1
<1>3. CASE t \notin S
  <2>1. Cardinality(S \cup {t}) = Cardinality(S) + 1
    BY <1>1, <1>3, FS_AddElement
  <2> QED
    BY <1>1, <2>1
<1> QED
  BY <1>2, <1>3

ReturnRest == <<topIn, topOut, bottomOut, lowReqs, mem, reqs, answers, dirStageBuffer,
                dirBuf, counted, bankPipe, bankBuf, downwardInflightTransCount, dirToBank,
                pendingEvictions, mshrStageBuffer, processingMSHREntry, writeBufferBuffer,
                storage, lru, evictingList, evictingData>>

\* What a response from below leaves as it is.
LEMMA ReturnRestKept ==
  ASSUME WInv, UNCHANGED ReturnRest
  PROVE  /\ WaitInv' /\ Taken' = Taken /\ BankInv' /\ InBank' = InBank /\ ApartInv'
         /\ AtBank' = AtBank /\ AtBuffer' = AtBuffer /\ Filled' = Filled
<1>1. UNCHANGED upper /\ UNCHANGED bank
  BY DEF ReturnRest, upper, bank
<1>2. WaitInv' /\ Taken' = Taken /\ BankInv' /\ InBank' = InBank
  BY <1>1, WaitKept, BankKept DEF WInv
<1>3. AtBank' = AtBank /\ AtBuffer' = AtBuffer /\ Filled' = Filled /\ ApartInv'
  BY DEF WInv, ReturnRest, AtBank, AtBuffer, Filled, ApartInv
<1> QED
  BY <1>2, <1>3

\* A write has been done below.
LEMMA WriteDoneKeeps ==
  ASSUME WInv, UNCHANGED ReturnRest, ProcessWriteDoneRsp
  PROVE  WInv'
<1> DEFINE m == Head(bottomIn)
           kept == ReqID \ {m.of}
<1>1. /\ bottomIn # <<>> /\ m.write /\ bottomIn' = Tail(bottomIn)
      /\ inflightEviction' = Filter(inflightEviction, kept)
      /\ UNCHANGED <<inflightFetch, entry, blocks, mshr, trans, writeBufferToBank>>
  BY DEF ProcessWriteDoneRsp
<1> HIDE DEF m, kept
<1>2. PortTypes /\ StageTypes /\ BufferTypes /\ ArrayTypes /\ AskInv
  BY DEF WInv, WTypes
<1>3. /\ WaitInv' /\ Taken' = Taken /\ BankInv' /\ InBank' = InBank /\ ApartInv'
  BY ReturnRestKept
<1>4. PortTypes'
  <2>1. bottomIn \in Seq(Answer) /\ Len(bottomIn) =< PortCap /\ PortCap \in Nat
    BY <1>2, WritebackAssumption DEF PortTypes
  <2>2. Tail(bottomIn) \in Seq(Answer) /\ Len(Tail(bottomIn)) =< PortCap
    BY <1>1, <2>1, Taken1
  <2> QED
    BY <1>1, <1>2, <2>2 DEF PortTypes, ReturnRest
<1>5. BufferTypes'
  <2>1. /\ inflightEviction \in Seq(ReqID) /\ Len(inflightEviction) =< MaxInflightEviction
        /\ pendingEvictions \in Seq(ReqID)
        /\ Len(pendingEvictions) + Len(inflightEviction) =< WriteBufferCapacity
        /\ {MaxInflightEviction, WriteBufferCapacity} \subseteq Nat
    BY <1>2, WritebackAssumption DEF BufferTypes
  <2>2. /\ Filter(inflightEviction, kept) \in Seq(ReqID)
        /\ Len(Filter(inflightEviction, kept)) =< Len(inflightEviction)
    BY <2>1, FilterSet, FilterShorter
  <2>3. /\ Len(inflightEviction) \in Nat /\ Len(Filter(inflightEviction, kept)) \in Nat
        /\ Len(pendingEvictions) \in Nat
    BY <2>1, <2>2, LenProperties
  <2>4. /\ Len(Filter(inflightEviction, kept)) =< MaxInflightEviction
        /\ Len(pendingEvictions) + Len(Filter(inflightEviction, kept)) =< WriteBufferCapacity
    BY <2>1, <2>2, <2>3
  <2> QED
    BY <1>1, <1>2, <2>2, <2>4 DEF BufferTypes, ReturnRest
<1>6. AskInv'
  <2>1. bottomIn \in Seq(Answer)
    BY <1>2 DEF PortTypes
  <2>2. Asks(bottomOut, lowReqs, Tail(bottomIn), inflightFetch)
    BY <1>1, <1>2, <2>1, AskDone DEF AskInv, m
  <2> QED
    BY <1>1, <2>2 DEF AskInv, ReturnRest
<1>7. StageTypes' /\ ArrayTypes'
  BY <1>1, <1>2 DEF StageTypes, ArrayTypes, ReturnRest
<1>8. WorldInv'
  <2>1. UNCHANGED places /\ UNCHANGED tales
    BY <1>1 DEF places, tales, ReturnRest
  <2> QED
    BY <1>3, <2>1, WorldKept DEF WInv
<1> QED
  BY <1>3, <1>4, <1>5, <1>6, <1>7, <1>8 DEF WInv, WTypes

\* A line has come from below.
LEMMA DataReadyKeeps ==
  ASSUME WInv, UNCHANGED ReturnRest, ProcessDataReadyRsp
  PROVE  WInv'
<1> DEFINE m == Head(bottomIn)
           t == m.of
<1>1. /\ bottomIn # <<>> /\ ~m.write /\ Room(writeBufferToBank, 1)
      /\ Fill(t, m.ver, 0)
      /\ inflightFetch' = inflightFetch \ {t} /\ bottomIn' = Tail(bottomIn)
      /\ inflightEviction' = inflightEviction
  BY DEF ProcessDataReadyRsp
<1>2. /\ PortTypes /\ StageTypes /\ BufferTypes /\ ArrayTypes /\ AskInv
      /\ World(AtBank, InBank, AtBuffer, GoingBack, inflightFetch, Filled, Taken,
               trans, blocks, entry, mshr, evictingList, reqs)
  BY DEF WInv, WTypes, WorldInv
<1>3. /\ WaitInv' /\ Taken' = Taken /\ BankInv' /\ InBank' = InBank /\ ApartInv'
      /\ AtBank' = AtBank /\ AtBuffer' = AtBuffer /\ Filled' = Filled
  BY ReturnRestKept
<1>4. /\ bottomIn \in Seq(Answer) /\ Len(bottomIn) =< PortCap /\ PortCap \in Nat
  BY <1>2, WritebackAssumption DEF PortTypes
<1>5. /\ t \in inflightFetch
      /\ Asks(bottomOut, lowReqs, Tail(bottomIn), inflightFetch \ {t})
  BY <1>1, <1>2, <1>4, AskDone DEF AskInv
<1>6. /\ m \in Answer /\ Tail(bottomIn) \in Seq(Answer) /\ Len(Tail(bottomIn)) =< PortCap
  BY <1>1, <1>4, Taken1
<1> HIDE DEF m
<1>7. t \in ReqID /\ m.ver \in Nat /\ 0 \in 0 .. MaxReqs
  BY <1>6, WritebackAssumption DEF Answer
<1> HIDE DEF t
<1>8. trans[t].entry = t /\ entry[t].block \in Slots
  <2>1. t \in All(AtBank, InBank, AtBuffer, GoingBack, inflightFetch)
    BY <1>5 DEF All
  <2>2. trans[t].action \in Filling
    BY <1>2, <1>5 DEF World, Fits, Filling, Fetching
  <2> QED
    BY <1>2, <2>1, <2>2, WorldTyped
<1>9. Single(writeBufferToBank)
  BY <1>2 DEF StageTypes
<1>10. /\ trans' \in [ReqID -> TransType] /\ OnlyAction(t, trans, trans')
       /\ trans'[t].action = "bankWriteFetched"
       /\ entry' \in [ReqID -> EntryType] /\ SameEntries(entry, entry')
       /\ blocks' \in [Slots -> BlockType] /\ SameBlocks(blocks, blocks')
       /\ mshr' = mshr \ {t}
       /\ writeBufferToBank' = <<t>> /\ Single(<<t>>)
       /\ ToSet(<<t>>) = {t} /\ ToSet(writeBufferToBank) = {}
  BY <1>1, <1>2, <1>7, <1>8, <1>9, FillDoes
<1>11. World(AtBank, InBank, AtBuffer, GoingBack \cup {t}, inflightFetch \ {t}, Filled, Taken,
             trans', blocks', entry', mshr \ {t}, evictingList, reqs)
  BY <1>2, <1>5, <1>10, WorldReturned
<1>12. GoingBack' = GoingBack \cup {t}
  BY <1>10 DEF GoingBack
<1>13. WorldInv'
  BY <1>1, <1>3, <1>10, <1>11, <1>12 DEF WorldInv, ReturnRest
<1>14. PortTypes'
  BY <1>1, <1>2, <1>6 DEF PortTypes, ReturnRest
<1>15. StageTypes'
  BY <1>2, <1>10 DEF StageTypes, ReturnRest
<1>16. BufferTypes'
  <2>1. /\ inflightFetch \in SUBSET ReqID /\ Cardinality(inflightFetch) =< MaxInflightFetch
        /\ MaxInflightFetch \in Int
    BY <1>2, WritebackAssumption DEF BufferTypes
  <2>2. inflightFetch' \in SUBSET ReqID /\ Cardinality(inflightFetch') =< MaxInflightFetch
    BY <1>1, <2>1, OneLess
  <2> QED
    BY <1>1, <1>2, <2>2 DEF BufferTypes, ReturnRest
<1>17. ArrayTypes'
  <2>1. /\ mshr \in SUBSET ReqID /\ Cardinality(mshr) =< NumMSHREntry
        /\ NumMSHREntry \in Int
    BY <1>2, WritebackAssumption DEF ArrayTypes
  <2>2. mshr' \in SUBSET ReqID /\ Cardinality(mshr') =< NumMSHREntry
    BY <1>10, <2>1, OneLess
  <2> QED
    BY <1>2, <1>10, <2>2 DEF ArrayTypes, ReturnRest
<1>18. AskInv'
  BY <1>1, <1>5 DEF AskInv, ReturnRest
<1> QED
  BY <1>3, <1>13, <1>14, <1>15, <1>16, <1>17, <1>18 DEF WInv, WTypes

\* The write buffer taking an answer of the memory keeps the invariant: an answer
\* to a read fills the entry of the one transaction that is being fetched and
\* sends it back to the bank, an answer to a write strikes its eviction.
LEMMA ReturnKeeps == ASSUME WInv, ProcessReturnRsp PROVE WInv'
<1>1. UNCHANGED ReturnRest
  BY DEF ProcessReturnRsp, top, dir, bank, respond, outside, ReturnRest
<1>2. CASE NoReturnRsp
  <2>1. UNCHANGED <<ports, stages, buffers, arrays, upper, bank, places, tales, asked>>
    BY <1>1, <1>2 DEF NoReturnRsp, ReturnRest, ports, stages, buffers, arrays, upper, bank,
                      places, tales, asked
  <2> QED
    BY <2>1, AllKept
<1> QED
  BY <1>1, <1>2, WriteDoneKeeps, DataReadyKeeps DEF ProcessReturnRsp

NewRest == <<topIn, topOut, bottomIn, lowReqs, mem, reqs, answers, dirStageBuffer, dirBuf,
             counted, bankPipe, bankBuf, downwardInflightTransCount, dirToBank,
             inflightEviction, mshrStageBuffer, processingMSHREntry, storage, lru,
             evictingList>>

\* What a new transaction in the write buffer leaves as it is.
LEMMA NewRestKept ==
  ASSUME WInv, UNCHANGED NewRest, writeBufferBuffer # <<>>
  PROVE  /\ WaitInv' /\ Taken' = Taken /\ BankInv' /\ InBank' = InBank /\ ApartInv'
         /\ AtBank' = AtBank /\ Filled' = Filled
         /\ Head(writeBufferBuffer) \in ReqID /\ Head(writeBufferBuffer) \in AtBuffer
         /\ Head(writeBufferBuffer) \in
              All(AtBank, InBank, AtBuffer, GoingBack, inflightFetch)
         /\ AtBuffer = {Head(writeBufferBuffer)}
         /\ Tail(writeBufferBuffer) = <<>> /\ ToSet(<<>>) = {} /\ Single(<<>>)
<1>1. UNCHANGED upper /\ UNCHANGED bank
  BY DEF NewRest, upper, bank
<1>2. WaitInv' /\ Taken' = Taken /\ BankInv' /\ InBank' = InBank
  BY <1>1, WaitKept, BankKept DEF WInv
<1>3. AtBank' = AtBank /\ Filled' = Filled /\ ApartInv'
  BY DEF WInv, NewRest, AtBank, Filled, ApartInv
<1>4. Single(writeBufferBuffer)
  BY DEF WInv, WTypes, StageTypes
<1>5. /\ Head(writeBufferBuffer) \in ReqID /\ AtBuffer = {Head(writeBufferBuffer)}
      /\ Tail(writeBufferBuffer) = <<>> /\ ToSet(<<>>) = {} /\ Single(<<>>)
  BY <1>4, OneTaken DEF AtBuffer
<1> QED
  BY <1>2, <1>3, <1>5 DEF All

\* The line is in an eviction the write buffer holds.
LEMMA FetchLocallyKeeps ==
  ASSUME WInv, UNCHANGED NewRest, writeBufferBuffer # <<>>,
         FetchLocally(Head(writeBufferBuffer))
  PROVE  WInv'
<1> DEFINE t == Head(writeBufferBuffer)
           source == Head(LocalEvictions(Line(t)))
<1>1. /\ WaitInv' /\ Taken' = Taken /\ BankInv' /\ InBank' = InBank /\ ApartInv'
      /\ AtBank' = AtBank /\ Filled' = Filled
      /\ t \in ReqID /\ t \in AtBuffer
      /\ t \in All(AtBank, InBank, AtBuffer, GoingBack, inflightFetch)
      /\ AtBuffer = {t} /\ Tail(writeBufferBuffer) = <<>> /\ ToSet(<<>>) = {} /\ Single(<<>>)
  BY NewRestKept
<1>2. /\ trans[t].action = "writeBufferFetch"
      /\ LocalEvictions(Line(t)) # <<>> /\ Room(writeBufferToBank, 1)
      /\ Fill(t, evictingData[source], source)
      /\ evictingData' = [evictingData EXCEPT ![source] = Combined(trans[t].entry, @)]
      /\ writeBufferBuffer' = Tail(writeBufferBuffer)
      /\ UNCHANGED <<bottomOut, inflightFetch, pendingEvictions>>
  BY DEF FetchLocally
<1> HIDE DEF t
<1>3. /\ PortTypes /\ StageTypes /\ BufferTypes /\ ArrayTypes /\ AskInv
      /\ World(AtBank, InBank, AtBuffer, GoingBack, inflightFetch, Filled, Taken,
               trans, blocks, entry, mshr, evictingList, reqs)
  BY DEF WInv, WTypes, WorldInv
<1>4. source \in ReqID
  <2> DEFINE q == inflightEviction \o pendingEvictions
             kept == {u \in ReqID : trans[u].evictingAddr = Line(t)}
  <2>1. q \in Seq(ReqID)
    BY <1>3, ConcatProperties DEF BufferTypes
  <2>2. LocalEvictions(Line(t)) = Filter(q, kept)
    BY DEF LocalEvictions
  <2>3. kept \in SUBSET ReqID
    OBVIOUS
  <2> HIDE DEF q, kept
  <2> QED
    BY <1>2, <2>1, <2>2, <2>3, FilterHead
<1> HIDE DEF source
<1>5. trans[t].entry = t /\ entry[t].block \in Slots
  BY <1>1, <1>2, <1>3, WorldTyped DEF Filling, Fetching
<1>6. /\ evictingData[source] \in Nat /\ source \in 0 .. MaxReqs
      /\ evictingData \in [ReqID -> Nat] /\ entry \in [ReqID -> EntryType]
  <2>1. evictingData \in [ReqID -> Nat] /\ entry \in [ReqID -> EntryType]
    BY <1>3 DEF BufferTypes, ArrayTypes
  <2>2. evictingData[source] \in Nat
    BY <1>4, <2>1
  <2>3. source \in 0 .. MaxReqs
    BY <1>4, WritebackAssumption DEF ReqID
  <2> QED
    BY <2>1, <2>2, <2>3
<1>7. Single(writeBufferToBank)
  BY <1>3 DEF StageTypes
<1>8. /\ trans' \in [ReqID -> TransType] /\ OnlyAction(t, trans, trans')
      /\ trans'[t].action = "bankWriteFetched"
      /\ entry' \in [ReqID -> EntryType] /\ SameEntries(entry, entry')
      /\ blocks' \in [Slots -> BlockType] /\ SameBlocks(blocks, blocks')
      /\ mshr' = mshr \ {t}
      /\ writeBufferToBank' = <<t>> /\ Single(<<t>>)
      /\ ToSet(<<t>>) = {t} /\ ToSet(writeBufferToBank) = {}
  <2> DEFINE v == evictingData[source]
  <2>1. v \in Nat /\ source \in 0 .. MaxReqs /\ t \in ReqID
    BY <1>1, <1>6
  <2>2. Fill(t, v, source) /\ Room(writeBufferToBank, 1)
    BY <1>2
  <2>3. ArrayTypes
    BY <1>3
  <2> HIDE DEF v
  <2> QED
    BY <1>5, <1>7, <2>1, <2>2, <2>3, FillDoes
<1>9. GoesOn(trans[t].action, trans'[t].action) /\ trans'[t].action # "writeBufferFetch"
  BY <1>2, <1>8 DEF GoesOn
<1>10. Closed(t, trans', mshr) = mshr \ {t}
  BY <1>8 DEF Closed
<1>11. World(AtBank, InBank, AtBuffer \ {t}, GoingBack \cup {t}, inflightFetch, Filled, Taken,
             trans', blocks', entry', Closed(t, trans', mshr), evictingList, reqs)
  BY <1>1, <1>3, <1>8, <1>9, WorldServed
<1>12. AtBuffer' = AtBuffer \ {t} /\ GoingBack' = GoingBack \cup {t}
  BY <1>1, <1>2, <1>8 DEF AtBuffer, GoingBack
<1>13. WorldInv'
  BY <1>1, <1>2, <1>8, <1>10, <1>11, <1>12 DEF WorldInv, NewRest
<1>14. PortTypes'
  BY <1>2, <1>3 DEF PortTypes, NewRest
<1>15. StageTypes'
  BY <1>1, <1>2, <1>3, <1>8 DEF StageTypes, NewRest
<1>16. BufferTypes'
  <2>1. Combined(trans[t].entry, evictingData[source]) \in Nat
    BY <1>1, <1>5, <1>6, CombinedTyped
  <2>2. evictingData' \in [ReqID -> Nat]
    BY <1>2, <1>6, <2>1
  <2> QED
    BY <1>2, <1>3, <2>2 DEF BufferTypes, NewRest
<1>17. ArrayTypes'
  <2>1. /\ mshr \in SUBSET ReqID /\ Cardinality(mshr) =< NumMSHREntry
        /\ NumMSHREntry \in Int
    BY <1>3, WritebackAssumption DEF ArrayTypes
  <2>2. mshr' \in SUBSET ReqID /\ Cardinality(mshr') =< NumMSHREntry
    BY <1>8, <2>1, OneLess
  <2> QED
    BY <1>3, <1>8, <2>2 DEF ArrayTypes, NewRest
<1>18. AskInv'
  BY <1>2, <1>3 DEF AskInv, NewRest
<1> QED
  BY <1>1, <1>13, <1>14, <1>15, <1>16, <1>17, <1>18 DEF WInv, WTypes

\* The line is asked of the low module.
LEMMA FetchFromBottomKeeps ==
  ASSUME WInv, UNCHANGED NewRest, writeBufferBuffer # <<>>,
         FetchFromBottom(Head(writeBufferBuffer))
  PROVE  WInv'
<1> DEFINE t == Head(writeBufferBuffer)
           m == [write |-> FALSE, of |-> t, line |-> Line(t)]
<1>1. /\ WaitInv' /\ Taken' = Taken /\ BankInv' /\ InBank' = InBank /\ ApartInv'
      /\ AtBank' = AtBank /\ Filled' = Filled
      /\ t \in ReqID /\ t \in AtBuffer
      /\ t \in All(AtBank, InBank, AtBuffer, GoingBack, inflightFetch)
      /\ AtBuffer = {t} /\ Tail(writeBufferBuffer) = <<>> /\ ToSet(<<>>) = {} /\ Single(<<>>)
  BY NewRestKept
<1>2. /\ trans[t].action = "writeBufferFetch"
      /\ Cardinality(inflightFetch) < MaxInflightFetch /\ CanSend(bottomOut)
      /\ bottomOut' = Append(bottomOut, m)
      /\ inflightFetch' = inflightFetch \cup {t}
      /\ writeBufferBuffer' = Tail(writeBufferBuffer)
      /\ UNCHANGED <<mshr, entry, blocks, trans, writeBufferToBank, evictingData,
                     pendingEvictions>>
  BY DEF FetchFromBottom, misses
<1> HIDE DEF t
<1>3. /\ PortTypes /\ StageTypes /\ BufferTypes /\ ArrayTypes /\ AskInv
      /\ World(AtBank, InBank, AtBuffer, GoingBack, inflightFetch, Filled, Taken,
               trans, blocks, entry, mshr, evictingList, reqs)
  BY DEF WInv, WTypes, WorldInv
<1>4. /\ World(AtBank, InBank, AtBuffer \ {t}, GoingBack, inflightFetch \cup {t}, Filled, Taken,
               trans, blocks, entry, mshr, evictingList, reqs)
      /\ t \notin inflightFetch
  BY <1>1, <1>2, <1>3, WorldAsked
<1>5. AtBuffer' = AtBuffer \ {t} /\ GoingBack' = GoingBack
  BY <1>1, <1>2 DEF AtBuffer, GoingBack
<1>6. WorldInv'
  BY <1>1, <1>2, <1>4, <1>5 DEF WorldInv, NewRest
<1>7. m \in ReadMsg \cup WriteMsg /\ ~m.write /\ m.of = t
  <2>1. t \in 1 .. Taken /\ Taken =< Len(reqs)
    <3>1. t \in 1 .. Taken
      BY <1>1, <1>3, WorldTyped
    <3>2. /\ topIn \in Seq(ReqID) /\ Single(dirStageBuffer) /\ Single(dirBuf)
          /\ reqs \in Seq(Request)
      BY <1>3 DEF PortTypes, StageTypes
    <3>3. /\ Len(topIn) \in Nat /\ Len(dirStageBuffer) \in Nat /\ Len(dirBuf) \in Nat
          /\ Len(reqs) \in Nat
      BY <3>2, LenProperties DEF Single
    <3> QED
      BY <3>1, <3>3 DEF Taken, TakenOf
  <2>2. reqs \in Seq(Request) /\ Len(reqs) \in Nat
    BY <1>3, LenProperties DEF PortTypes
  <2>3. t \in 1 .. Len(reqs)
    <3>1. Taken \in Nat
      BY <1>3, WorldTyped
    <3> QED
      BY <2>1, <2>2, <3>1
  <2>4. Line(t) \in Lines
    <3>1. reqs[t] \in Request
      BY <2>2, <2>3, ElementOfSeq
    <3> QED
      BY <3>1 DEF Request, Line
  <2> QED
    BY <1>1, <2>4 DEF ReadMsg
<1> HIDE DEF m
<1>8. /\ bottomOut \in Seq(ReadMsg \cup WriteMsg) /\ PortCap \in Int /\ Len(bottomOut) < PortCap
  BY <1>2, <1>3, WritebackAssumption DEF PortTypes, CanSend, Room
<1>9. PortTypes'
  <2>1. /\ Append(bottomOut, m) \in Seq(ReadMsg \cup WriteMsg)
        /\ Len(Append(bottomOut, m)) =< PortCap
    BY <1>7, <1>8, Added
  <2> QED
    BY <1>2, <1>3, <2>1 DEF PortTypes, NewRest
<1>10. StageTypes'
  BY <1>1, <1>2, <1>3 DEF StageTypes, NewRest
<1>11. BufferTypes'
  <2>1. /\ inflightFetch \in SUBSET ReqID /\ MaxInflightFetch \in Int
    BY <1>3, WritebackAssumption DEF BufferTypes
  <2>2. inflightFetch' \in SUBSET ReqID /\ Cardinality(inflightFetch') =< MaxInflightFetch
    BY <1>1, <1>2, <2>1, OneMore
  <2> QED
    BY <1>2, <1>3, <2>2 DEF BufferTypes, NewRest
<1>12. ArrayTypes'
  BY <1>2, <1>3 DEF ArrayTypes, NewRest
<1>13. AskInv'
  <2>1. Asks(Append(bottomOut, m), lowReqs, bottomIn, inflightFetch \cup {m.of})
    <3>1. m.of \notin inflightFetch
      BY <1>4, <1>7
    <3>2. Asks(bottomOut, lowReqs, bottomIn, inflightFetch)
      BY <1>3 DEF AskInv
    <3> QED
      BY <1>7, <1>8, <3>1, <3>2, AskRead
  <2> QED
    BY <1>2, <1>7, <2>1 DEF AskInv, NewRest
<1> QED
  BY <1>1, <1>6, <1>9, <1>10, <1>11, <1>12, <1>13 DEF WInv, WTypes

\* An eviction finds room in the write buffer.
LEMMA EvictionTaken ==
  ASSUME BufferTypes, NEW t \in ReqID, ~WriteBufferFull,
         pendingEvictions' = Append(pendingEvictions, t),
         UNCHANGED <<inflightEviction, inflightFetch, evictingData>>
  PROVE  BufferTypes'
<1>1. /\ pendingEvictions \in Seq(ReqID) /\ inflightEviction \in Seq(ReqID)
      /\ WriteBufferCapacity \in Nat
      /\ ~(Len(pendingEvictions) + Len(inflightEviction) >= WriteBufferCapacity)
  BY WritebackAssumption DEF BufferTypes, WriteBufferFull
<1>2. /\ Append(pendingEvictions, t) \in Seq(ReqID)
      /\ Len(Append(pendingEvictions, t)) = Len(pendingEvictions) + 1
  BY <1>1, AppendProperties
<1>3. Len(pendingEvictions) \in Nat /\ Len(inflightEviction) \in Nat
  BY <1>1, LenProperties
<1>4. Len(Append(pendingEvictions, t)) + Len(inflightEviction) =< WriteBufferCapacity
  BY <1>1, <1>2, <1>3
<1> QED
  BY <1>2, <1>4 DEF BufferTypes

\* The eviction of a full write is taken, and the write goes back to the bank.
LEMMA EvictAndWriteKeeps ==
  ASSUME WInv, UNCHANGED NewRest, writeBufferBuffer # <<>>,
         EvictAndWrite(Head(writeBufferBuffer))
  PROVE  WInv'
<1> DEFINE t == Head(writeBufferBuffer)
           a == "bankWriteHit"
<1>1. /\ WaitInv' /\ Taken' = Taken /\ BankInv' /\ InBank' = InBank /\ ApartInv'
      /\ AtBank' = AtBank /\ Filled' = Filled
      /\ t \in ReqID /\ t \in AtBuffer
      /\ t \in All(AtBank, InBank, AtBuffer, GoingBack, inflightFetch)
      /\ AtBuffer = {t} /\ Tail(writeBufferBuffer) = <<>> /\ ToSet(<<>>) = {} /\ Single(<<>>)
  BY NewRestKept
<1>2. /\ trans[t].action = "writeBufferEvictAndWrite"
      /\ ~WriteBufferFull /\ Room(writeBufferToBank, 1)
      /\ trans' = [trans EXCEPT ![t].action = a]
      /\ writeBufferToBank' = Append(writeBufferToBank, t)
      /\ pendingEvictions' = Append(pendingEvictions, t)
      /\ writeBufferBuffer' = Tail(writeBufferBuffer)
      /\ UNCHANGED <<bottomOut, inflightFetch, mshr, entry, blocks, evictingData>>
  BY DEF EvictAndWrite, misses
<1> HIDE DEF t
<1>3. /\ PortTypes /\ StageTypes /\ BufferTypes /\ ArrayTypes /\ AskInv
      /\ World(AtBank, InBank, AtBuffer, GoingBack, inflightFetch, Filled, Taken,
               trans, blocks, entry, mshr, evictingList, reqs)
  BY DEF WInv, WTypes, WorldInv
<1>4. /\ writeBufferToBank' = <<t>> /\ Single(<<t>>)
      /\ ToSet(<<t>>) = {t} /\ ToSet(writeBufferToBank) = {}
  <2>1. Single(writeBufferToBank)
    BY <1>3 DEF StageTypes
  <2> QED
    BY <1>1, <1>2, <2>1, OneAdded
<1>5. /\ trans' \in [ReqID -> TransType] /\ trans'[t].action = a
      /\ OnlyAction(t, trans, trans')
  <2>1. trans \in [ReqID -> TransType] /\ a \in Actions
    BY <1>3 DEF ArrayTypes, Actions
  <2> HIDE DEF a
  <2> QED
    BY <1>1, <1>2, <2>1, ActionSet
<1>6. GoesOn(trans[t].action, trans'[t].action) /\ trans'[t].action # "writeBufferFetch"
  BY <1>2, <1>5 DEF GoesOn
<1>7. SameEntries(entry, entry) /\ SameBlocks(blocks, blocks)
  BY DEF SameEntries, SameBlocks, Alike
<1>8. Closed(t, trans', mshr) = mshr
  BY <1>5 DEF Closed
<1>9. World(AtBank, InBank, AtBuffer \ {t}, GoingBack \cup {t}, inflightFetch, Filled, Taken,
            trans', blocks, entry, Closed(t, trans', mshr), evictingList, reqs)
  BY <1>1, <1>3, <1>5, <1>6, <1>7, WorldServed
<1>10. AtBuffer' = AtBuffer \ {t} /\ GoingBack' = GoingBack \cup {t}
  BY <1>1, <1>2, <1>4 DEF AtBuffer, GoingBack
<1>11. WorldInv'
  BY <1>1, <1>2, <1>8, <1>9, <1>10 DEF WorldInv, NewRest
<1>12. BufferTypes'
  <2>1. UNCHANGED <<inflightEviction, inflightFetch, evictingData>>
    BY <1>2 DEF NewRest
  <2> QED
    BY <1>1, <1>2, <1>3, <2>1, EvictionTaken
<1>13. PortTypes' /\ StageTypes' /\ ArrayTypes' /\ AskInv'
  BY <1>1, <1>2, <1>3, <1>4, <1>5 DEF PortTypes, StageTypes, ArrayTypes, AskInv, NewRest
<1> QED
  BY <1>1, <1>11, <1>12, <1>13 DEF WInv, WTypes

\* The eviction of a miss is taken, and the miss stays as a fetch.
LEMMA EvictAndFetchKeeps ==
  ASSUME WInv, UNCHANGED NewRest, writeBufferBuffer # <<>>,
         EvictAndFetch(Head(writeBufferBuffer))
  PROVE  WInv'
<1> DEFINE t == Head(writeBufferBuffer)
           a == "writeBufferFetch"
<1>1. /\ WaitInv' /\ Taken' = Taken /\ BankInv' /\ InBank' = InBank /\ ApartInv'
      /\ AtBank' = AtBank /\ Filled' = Filled
      /\ t \in ReqID /\ t \in AtBuffer
  BY NewRestKept
<1>2. /\ trans[t].action = "writeBufferEvictAndFetch" /\ ~WriteBufferFull
      /\ trans' = [trans EXCEPT ![t].action = a]
      /\ pendingEvictions' = Append(pendingEvictions, t)
      /\ UNCHANGED <<bottomOut, inflightFetch, mshr, entry, blocks, evictingData,
                     writeBufferBuffer, writeBufferToBank>>
  BY DEF EvictAndFetch, misses
<1> HIDE DEF t
<1>3. /\ PortTypes /\ StageTypes /\ BufferTypes /\ ArrayTypes /\ AskInv
      /\ World(AtBank, InBank, AtBuffer, GoingBack, inflightFetch, Filled, Taken,
               trans, blocks, entry, mshr, evictingList, reqs)
  BY DEF WInv, WTypes, WorldInv
<1>4. /\ trans' \in [ReqID -> TransType] /\ trans'[t].action = a
      /\ OnlyAction(t, trans, trans')
  <2>1. trans \in [ReqID -> TransType] /\ a \in Actions
    BY <1>3 DEF ArrayTypes, Actions
  <2> HIDE DEF a
  <2> QED
    BY <1>1, <1>2, <2>1, ActionSet
<1>5. GoesOn(trans[t].action, trans'[t].action) /\ trans'[t].action = "writeBufferFetch"
  BY <1>2, <1>4 DEF GoesOn
<1>6. World(AtBank, InBank, AtBuffer, GoingBack, inflightFetch, Filled, Taken,
            trans', blocks, entry, mshr, evictingList, reqs)
  BY <1>1, <1>3, <1>4, <1>5, WorldStays
<1>7. AtBuffer' = AtBuffer /\ GoingBack' = GoingBack
  BY <1>2 DEF AtBuffer, GoingBack
<1>8. WorldInv'
  BY <1>1, <1>2, <1>6, <1>7 DEF WorldInv, NewRest
<1>9. BufferTypes'
  <2>1. UNCHANGED <<inflightEviction, inflightFetch, evictingData>>
    BY <1>2 DEF NewRest
  <2> QED
    BY <1>1, <1>2, <1>3, <2>1, EvictionTaken
<1>10. PortTypes' /\ StageTypes' /\ ArrayTypes' /\ AskInv'
  BY <1>2, <1>3, <1>4 DEF PortTypes, StageTypes, ArrayTypes, AskInv, NewRest
<1> QED
  BY <1>1, <1>8, <1>9, <1>10 DEF WInv, WTypes

\* The write buffer's processNewTransaction keeps the invariant, for each of the
\* three kinds of transaction that reach it.
LEMMA NewKeeps == ASSUME WInv, ProcessNewTransaction PROVE WInv'
<1>1. UNCHANGED NewRest
  BY DEF ProcessNewTransaction, top, dir, bank, respond, outside, NewRest
<1>2. CASE UNCHANGED <<bottomOut, inflightFetch, misses, blocks, trans, writeBufferToBank,
                       evictingData, pendingEvictions, writeBufferBuffer>>
  <2>1. UNCHANGED <<ports, stages, buffers, arrays, upper, bank, places, tales, asked>>
    BY <1>1, <1>2 DEF NewRest, misses, ports, stages, buffers, arrays, upper, bank,
                      places, tales, asked
  <2> QED
    BY <2>1, AllKept
<1>3. CASE /\ writeBufferBuffer # <<>>
           /\ \/ FetchLocally(Head(writeBufferBuffer))
              \/ FetchFromBottom(Head(writeBufferBuffer))
              \/ EvictAndWrite(Head(writeBufferBuffer))
              \/ EvictAndFetch(Head(writeBufferBuffer))
  BY <1>1, <1>3, FetchLocallyKeeps, FetchFromBottomKeeps, EvictAndWriteKeeps,
     EvictAndFetchKeeps
<1> QED
  BY <1>2, <1>3 DEF ProcessNewTransaction

(***************************************************************************)
(* The directory processes a request                                       *)
(***************************************************************************)
DirRest == <<topIn, topOut, bottomIn, bottomOut, lowReqs, mem, reqs, answers, dirStageBuffer,
             bankPipe, bankBuf, downwardInflightTransCount, writeBufferToBank,
             pendingEvictions, inflightFetch, inflightEviction, mshrStageBuffer,
             processingMSHREntry, storage, evictingData, writeBufferBuffer>>

\* The directory is done with the request at the head of its buffer.
Takes(t) ==
  /\ dirBuf # <<>> /\ t = Head(dirBuf) /\ dirBuf' = Tail(dirBuf)
  /\ Line(t) \notin evictingList /\ Count(t) /\ UNCHANGED DirRest

\* The requests are taken in the order in which they were sent.
LEMMA DirTakes ==
  ASSUME WInv, NEW t, Takes(t)
  PROVE  /\ t \in ReqID /\ t = Taken + 1 /\ reqs[t] \in Request /\ Line(t) \in Lines
         /\ WaitInv' /\ Taken' = Taken + 1 /\ BankInv' /\ InBank' = InBank /\ ApartInv'
         /\ AtBuffer' = AtBuffer /\ GoingBack' = GoingBack /\ Filled' = Filled
         /\ AskInv' /\ PortTypes' /\ BufferTypes'
         /\ Single(dirBuf') /\ counted' \in [ReqID -> 0 .. 2]
<1>1. PortTypes /\ StageTypes /\ BufferTypes /\ WaitInv
  BY DEF WInv, WTypes
<1>2. dirBuf # <<>> /\ t = Head(dirBuf) /\ dirBuf' = Tail(dirBuf) /\ UNCHANGED DirRest
  BY DEF Takes
<1>3. /\ reqs \in Seq(Request) /\ topIn \in Seq(ReqID)
      /\ Single(dirStageBuffer) /\ Single(dirBuf)
      /\ Waits(reqs, topIn, dirStageBuffer, dirBuf)
  BY <1>1 DEF PortTypes, StageTypes, WaitInv
<1>4. /\ Waits(reqs, topIn, dirStageBuffer, Tail(dirBuf))
      /\ TakenOf(reqs, topIn, dirStageBuffer, Tail(dirBuf)) = Taken + 1
      /\ t = Taken + 1 /\ t \in 1 .. Len(reqs)
  BY <1>2, <1>3, WaitDone DEF Taken
<1>5. t \in ReqID /\ Single(dirBuf')
  BY <1>2, <1>3, OneTaken
<1>6. reqs[t] \in Request /\ Line(t) \in Lines
  <2>1. reqs[t] \in Request
    BY <1>3, <1>4, ElementOfSeq
  <2> QED
    BY <2>1 DEF Line, Request
<1>7. WaitInv' /\ Taken' = Taken + 1
  BY <1>2, <1>4 DEF WaitInv, Taken, DirRest
<1>8. UNCHANGED <<ports, buffers, bank, asked>>
  BY <1>2 DEF DirRest, ports, buffers, bank, asked
<1>9. BankInv' /\ InBank' = InBank /\ AskInv' /\ PortTypes' /\ BufferTypes'
  BY <1>1, <1>8, BankKept, AskKept, PortsKept, BuffersKept DEF WInv
<1>10. ApartInv' /\ AtBuffer' = AtBuffer /\ GoingBack' = GoingBack /\ Filled' = Filled
  BY <1>2 DEF WInv, DirRest, ApartInv, AtBuffer, GoingBack, Filled
<1>11. counted' \in [ReqID -> 0 .. 2]
  <2>1. counted \in [ReqID -> 0 .. 2]
    BY <1>1 DEF StageTypes
  <2>2. CASE counted' = counted
    BY <2>1, <2>2
  <2>3. CASE counted[t] # 2 /\ counted' = [counted EXCEPT ![t] = @ + 1]
    <3>1. counted[t] + 1 \in 0 .. 2
      BY <1>5, <2>1, <2>3
    <3> QED
      BY <2>1, <2>3, <3>1
  <2>4. Count(t)
    BY DEF Takes
  <2> QED
    BY <2>2, <2>3, <2>4 DEF Count
<1> QED
  BY <1>4, <1>5, <1>6, <1>7, <1>9, <1>10, <1>11

\* The request joins the entry of its line.
LEMMA JoinKeeps ==
  ASSUME WInv, NEW t, Takes(t), JoinEntry(t)
  PROVE  WInv'
<1>1. /\ t \in ReqID /\ t = Taken + 1
      /\ WaitInv' /\ Taken' = Taken + 1 /\ BankInv' /\ InBank' = InBank /\ ApartInv'
      /\ AtBuffer' = AtBuffer /\ GoingBack' = GoingBack /\ Filled' = Filled
      /\ AskInv' /\ PortTypes' /\ BufferTypes'
      /\ Single(dirBuf') /\ counted' \in [ReqID -> 0 .. 2]
  BY DirTakes
<1>2. PICK e \in Query(Line(t)) :
        /\ entry' = [entry EXCEPT ![e].requests = Append(@, t)]
        /\ trans' = [trans EXCEPT ![t].entry = e]
        /\ UNCHANGED <<dirToBank, mshr, blocks, lru, evictingList>>
  BY DEF JoinEntry
<1>3. /\ StageTypes /\ ArrayTypes
      /\ World(AtBank, InBank, AtBuffer, GoingBack, inflightFetch, Filled, Taken,
               trans, blocks, entry, mshr, evictingList, reqs)
  BY DEF WInv, WTypes, WorldInv
<1>4. /\ e \in ReqID /\ mshr \in SUBSET ReqID /\ entry \in [ReqID -> EntryType]
      /\ trans \in [ReqID -> TransType]
  BY <1>2, <1>3 DEF Query, ArrayTypes
<1> DEFINE q == Append(entry[e].requests, t)
<1>5. q \in Seq(ReqID) /\ q # <<>>
  <2>1. entry[e].requests \in Seq(ReqID)
    BY <1>4 DEF EntryType
  <2>2. q \in Seq(ReqID) /\ Len(q) = Len(entry[e].requests) + 1
    BY <1>1, <2>1, AppendProperties
  <2>3. Len(entry[e].requests) \in Nat
    BY <2>1, LenProperties
  <2> HIDE DEF q
  <2>4. q # <<>>
    BY <2>2, <2>3, EmptySeq
  <2> QED
    BY <2>2, <2>4
<1>6. entry' = [entry EXCEPT ![e].requests = q]
  BY <1>2, <1>4
<1> HIDE DEF q
<1>7. /\ entry' \in [ReqID -> EntryType]
      /\ entry'[e].requests = q /\ entry'[e].block = entry[e].block
      /\ \A u \in ReqID : u # e => entry'[u] = entry[u]
  BY <1>4, <1>5, <1>6, RequestsSet
<1>8. trans' \in [ReqID -> TransType] /\ \A u \in ReqID : u # t => trans'[u] = trans[u]
  <2>1. e \in 0 .. MaxReqs
    BY <1>4, WritebackAssumption DEF ReqID
  <2>2. trans[t] \in TransType
    BY <1>1, <1>4
  <2>3. [trans[t] EXCEPT !.entry = e] \in TransType
    BY <2>1, <2>2 DEF TransType
  <2> QED
    BY <1>1, <1>2, <1>4, <2>3
<1>9. \A u \in ReqID : /\ entry'[u].block = entry[u].block
                       /\ entry[u].requests # <<>> => entry'[u].requests # <<>>
  BY <1>5, <1>7
<1>10. Taken + 1 \in ReqID /\ \A u \in ReqID : u # Taken + 1 => trans'[u] = trans[u]
  BY <1>1, <1>8
<1>11. World(AtBank, InBank, AtBuffer, GoingBack, inflightFetch, Filled, Taken + 1,
             trans', blocks, entry', mshr, evictingList, reqs)
  BY <1>3, <1>9, <1>10, WorldJoined
<1>12. UNCHANGED DirRest
  BY DEF Takes
<1>13. WorldInv'
  <2>1. AtBank' = AtBank
    BY <1>2 DEF AtBank
  <2> QED
    BY <1>1, <1>2, <1>11, <1>12, <2>1 DEF WorldInv, DirRest
<1>14. StageTypes' /\ ArrayTypes'
  BY <1>1, <1>2, <1>3, <1>7, <1>8, <1>12 DEF StageTypes, ArrayTypes, DirRest
<1> QED
  BY <1>1, <1>13, <1>14 DEF WInv, WTypes

\* The transaction at the head of the buffer goes to the bank.
LEMMA ToBankDoes ==
  ASSUME WInv, NEW t, Takes(t), NEW b \in Slots, ToBank(t, b)
  PROVE  /\ StageTypes' /\ AtBank' = AtBank \cup {t}
         /\ lru' \in Seq(Slots) /\ ToSet(lru') = Slots
<1>1. StageTypes /\ ArrayTypes
  BY DEF WInv, WTypes
<1>2. /\ t \in ReqID /\ Single(dirBuf') /\ counted' \in [ReqID -> 0 .. 2]
  BY DirTakes
<1>3. /\ Room(dirToBank, 1) /\ dirToBank' = Append(dirToBank, t)
      /\ lru' = Append(Filter(lru, Slots \ {b}), b)
  BY DEF ToBank, Visit
<1>4. /\ dirToBank' = <<t>> /\ Single(<<t>>)
      /\ ToSet(<<t>>) = {t} /\ ToSet(dirToBank) = {}
  <2>1. Single(dirToBank)
    BY <1>1 DEF StageTypes
  <2> QED
    BY <1>2, <1>3, <2>1, OneAdded
<1>5. AtBank' = AtBank \cup {t}
  BY <1>4 DEF AtBank
<1>6. lru' \in Seq(Slots) /\ ToSet(lru') = Slots
  <2>1. lru \in Seq(Slots) /\ ToSet(lru) = Slots
    BY <1>1 DEF ArrayTypes
  <2> QED
    BY <1>3, <2>1, VisitKeeps
<1>7. UNCHANGED DirRest
  BY DEF Takes
<1>8. StageTypes'
  BY <1>1, <1>2, <1>4, <1>7 DEF StageTypes, DirRest
<1> QED
  BY <1>5, <1>6, <1>8

\* A read hits.
LEMMA ReadKeeps ==
  ASSUME WInv, NEW t, Takes(t), ReadFromBank(t)
  PROVE  WInv'
<1>1. /\ t \in ReqID /\ t = Taken + 1 /\ Line(t) \in Lines
      /\ WaitInv' /\ Taken' = Taken + 1 /\ BankInv' /\ InBank' = InBank /\ ApartInv'
      /\ AtBuffer' = AtBuffer /\ GoingBack' = GoingBack /\ Filled' = Filled
      /\ AskInv' /\ PortTypes' /\ BufferTypes'
  BY DirTakes
<1>2. PICK b \in Lookup(Line(t)) :
        /\ ~blocks[b].IsLocked /\ ToBank(t, b)
        /\ blocks' = [blocks EXCEPT ![b].ReadCount = @ + 1]
        /\ trans' = [trans EXCEPT ![t].block = b, ![t].action = "bankReadHit"]
        /\ UNCHANGED <<mshr, entry, evictingList>>
  BY DEF ReadFromBank, misses
<1>3. /\ StageTypes /\ ArrayTypes
      /\ World(AtBank, InBank, AtBuffer, GoingBack, inflightFetch, Filled, Taken,
               trans, blocks, entry, mshr, evictingList, reqs)
  BY DEF WInv, WTypes, WorldInv
<1>4. /\ blocks \in [Slots -> BlockType] /\ trans \in [ReqID -> TransType]
  BY <1>3 DEF ArrayTypes
<1>5. b \in Slots /\ b \in 0 .. NumBlocks
  <2>1. b \in Slots
    BY <1>1, <1>2, WritebackAssumption DEF Lookup
  <2> QED
    BY <2>1, WritebackAssumption DEF Slots
<1>6. Readable(b, reqs[t].line, blocks)
  BY <1>2 DEF Readable, Lookup, Line
<1>7. /\ StageTypes' /\ AtBank' = AtBank \cup {t}
      /\ lru' \in Seq(Slots) /\ ToSet(lru') = Slots
  BY <1>2, <1>5, ToBankDoes
<1>8. /\ trans' \in [ReqID -> TransType] /\ \A u \in ReqID : u # t => trans'[u] = trans[u]
      /\ trans'[t].action = "bankReadHit" /\ trans'[t].block = b
  <2>1. trans[t] \in TransType
    BY <1>1, <1>4
  <2>2. trans' = [trans EXCEPT ![t] = [trans[t] EXCEPT !.block = b, !.action = "bankReadHit"]]
    BY <1>1, <1>2, <1>4
  <2>3. [trans[t] EXCEPT !.block = b, !.action = "bankReadHit"] \in TransType
    BY <1>5, <2>1 DEF TransType, Actions
  <2>4. trans' \in [ReqID -> TransType]
    BY <1>4, <2>2, <2>3
  <2>5. trans'[t] = [trans[t] EXCEPT !.block = b, !.action = "bankReadHit"]
    BY <1>1, <1>4, <2>2
  <2>6. trans'[t].action = "bankReadHit" /\ trans'[t].block = b
    BY <2>1, <2>5 DEF TransType
  <2>7. \A u \in ReqID : u # t => trans'[u] = trans[u]
    BY <1>4, <2>2
  <2> QED
    BY <2>4, <2>6, <2>7
<1>9. \A c \in Slots :
        /\ Alike(blocks'[c], blocks[c])
        /\ blocks'[c].ReadCount = blocks[c].ReadCount + (IF c = b THEN 1 ELSE 0)
  <2> SUFFICES ASSUME NEW c \in Slots
               PROVE  /\ Alike(blocks'[c], blocks[c])
                      /\ blocks'[c].ReadCount = blocks[c].ReadCount + (IF c = b THEN 1 ELSE 0)
    OBVIOUS
  <2>1. blocks[c] \in BlockType
    BY <1>4
  <2>2. blocks'[c] = IF c = b THEN [blocks[c] EXCEPT !.ReadCount = @ + 1] ELSE blocks[c]
    BY <1>2, <1>4, <1>5
  <2> QED
    BY <2>1, <2>2 DEF BlockType, Alike
<1>10. blocks' \in [Slots -> BlockType]
  <2>1. [blocks[b] EXCEPT !.ReadCount = @ + 1] \in BlockType
    <3>1. blocks[b] \in BlockType
      BY <1>4, <1>5
    <3> QED
      BY <3>1 DEF BlockType
  <2> QED
    BY <1>2, <1>4, <2>1
<1>11. World(AtBank \cup {t}, InBank, AtBuffer, GoingBack, inflightFetch, Filled, Taken + 1,
             trans', blocks', entry, mshr, evictingList, reqs)
  BY <1>1, <1>3, <1>5, <1>6, <1>8, <1>9, WorldLooked
<1>12. UNCHANGED DirRest
  BY DEF Takes
<1>13. WorldInv'
  BY <1>1, <1>2, <1>7, <1>11, <1>12 DEF WorldInv, DirRest
<1>14. ArrayTypes'
  BY <1>2, <1>3, <1>7, <1>8, <1>10, <1>12 DEF ArrayTypes, DirRest
<1> QED
  BY <1>1, <1>7, <1>13, <1>14 DEF WInv, WTypes

\* A transaction takes a block as its own.
Owns(t, b) ==
  /\ ToBank(t, b)
  /\ Claimable(b, reqs[t].line, blocks, evictingList)
  /\ Claimed(b, reqs[t].line, blocks, blocks')
  /\ Claims(t, b, trans'[t], entry'[t])
  /\ Leaves(trans'[t], reqs[t].line, blocks[b], evictingList, evictingList')
  /\ \A u \in ReqID : u # t => trans'[u] = trans[u] /\ entry'[u] = entry[u]
  /\ mshr' = mshr \cup (IF trans'[t].action \in Fetching THEN {t} ELSE {})

\* What an owner changes, typed.
OwnTypes ==
  /\ mshr' \in SUBSET ReqID /\ Cardinality(mshr') =< NumMSHREntry
  /\ entry' \in [ReqID -> EntryType]
  /\ blocks' \in [Slots -> BlockType] /\ trans' \in [ReqID -> TransType]

\* The directory taking a request that comes to own a block, by a write hit, by a
\* fill or by an eviction, keeps the invariant: the block was neither locked nor
\* read by anyone.
LEMMA OwnKeeps ==
  ASSUME WInv, NEW t, Takes(t), NEW b \in Slots, Owns(t, b), OwnTypes
  PROVE  WInv'
<1>1. /\ t \in ReqID /\ t = Taken + 1
      /\ WaitInv' /\ Taken' = Taken + 1 /\ BankInv' /\ InBank' = InBank /\ ApartInv'
      /\ AtBuffer' = AtBuffer /\ GoingBack' = GoingBack /\ Filled' = Filled
      /\ AskInv' /\ PortTypes' /\ BufferTypes'
  BY DirTakes
<1>2. /\ StageTypes /\ ArrayTypes
      /\ World(AtBank, InBank, AtBuffer, GoingBack, inflightFetch, Filled, Taken,
               trans, blocks, entry, mshr, evictingList, reqs)
  BY DEF WInv, WTypes, WorldInv
<1>3. /\ StageTypes' /\ AtBank' = AtBank \cup {t}
      /\ lru' \in Seq(Slots) /\ ToSet(lru') = Slots
  BY ToBankDoes DEF Owns
<1>4. /\ Claimable(b, reqs[t].line, blocks, evictingList)
      /\ Claimed(b, reqs[t].line, blocks, blocks')
      /\ Claims(t, b, trans'[t], entry'[t])
      /\ Leaves(trans'[t], reqs[t].line, blocks[b], evictingList, evictingList')
      /\ \A u \in ReqID : u # t => trans'[u] = trans[u] /\ entry'[u] = entry[u]
      /\ mshr' = mshr \cup (IF trans'[t].action \in Fetching THEN {t} ELSE {})
  BY DEF Owns
<1>5. World(AtBank \cup {t}, InBank, AtBuffer, GoingBack, inflightFetch, Filled, Taken + 1,
            trans', blocks', entry', mshr', evictingList', reqs)
  <2>1. t \in ReqID /\ t = Taken + 1 /\ b \in Slots
    BY <1>1
  <2>2. World(AtBank, InBank, AtBuffer, GoingBack, inflightFetch, Filled, Taken,
              trans, blocks, entry, mshr, evictingList, reqs)
    BY <1>2
  <2> QED
    BY <1>4, <2>1, <2>2, WorldOwned
<1>6. UNCHANGED DirRest
  BY DEF Takes
<1>7. WorldInv'
  BY <1>1, <1>3, <1>5, <1>6 DEF WorldInv, DirRest
<1>8. ArrayTypes'
  BY <1>2, <1>3, <1>6 DEF ArrayTypes, OwnTypes, DirRest
<1> QED
  BY <1>1, <1>3, <1>7, <1>8 DEF WInv, WTypes

\* An unused block of the set of a line that is in no other block, and not
\* leaving, can be taken.
LEMMA MayOwn ==
  ASSUME WInv, NEW t, Takes(t), NEW b, Unused(b),
         b \in Lookup(Line(t)) \/ (Lookup(Line(t)) = {} /\ b \in SetOf[Line(t)])
  PROVE  b \in Slots /\ Claimable(b, reqs[t].line, blocks, evictingList)
<1> DEFINE l == reqs[t].line
<1>1. Line(t) = l /\ l \in Lines /\ l \notin evictingList
  BY DirTakes DEF Line, Takes
<1>2. TagsApart(blocks)
  BY DEF WInv, WorldInv, World, Story
<1>3. b \in SetOf[l] /\ SetOf[l] \in SUBSET Slots
  <2>1. SetOf[l] \in SUBSET Slots
    BY <1>1, WritebackAssumption
  <2> HIDE DEF l
  <2> QED
    BY <1>1, <2>1 DEF Lookup
<1> HIDE DEF l
<1>4. \A c \in Slots : blocks[c].IsValid /\ blocks[c].Tag = l => c = b
  <2> SUFFICES ASSUME NEW c \in Slots, blocks[c].IsValid, blocks[c].Tag = l
               PROVE  c = b
    OBVIOUS
  <2>1. c \in SetOf[l]
    BY <1>2 DEF TagsApart
  <2>2. c \in Lookup(l)
    BY <2>1 DEF Lookup
  <2>3. b \in Lookup(l)
    BY <1>1, <2>2
  <2>4. blocks[b].IsValid /\ blocks[b].Tag = l
    BY <2>3 DEF Lookup
  <2> QED
    BY <1>2, <1>3, <2>4 DEF TagsApart
<1>5. Unclaimed(b, blocks)
  BY DEF Unused, Unclaimed
<1>6. Claimable(b, l, blocks, evictingList)
  BY <1>1, <1>3, <1>4, <1>5 DEF Claimable
<1> QED
  BY <1>3, <1>6 DEF l

\* The block of an owner is locked and has the owner's line.
Held(x, l, o) == x.IsValid /\ x.IsLocked /\ x.Tag = l /\ x.ReadCount = o.ReadCount

\* Claiming a block for a line changes that block alone.
LEMMA BlockOwned ==
  ASSUME blocks \in [Slots -> BlockType], NEW b \in Slots, NEW l,
         NEW x \in BlockType, Held(x, l, blocks[b]),
         NEW bl2, bl2 = [blocks EXCEPT ![b] = x]
  PROVE  bl2 \in [Slots -> BlockType] /\ Claimed(b, l, blocks, bl2)
<1>1. bl2[b] = x /\ \A c \in Slots \ {b} : bl2[c] = blocks[c]
  OBVIOUS
<1>2. bl2 \in [Slots -> BlockType]
  OBVIOUS
<1> QED
  BY <1>1, <1>2 DEF Claimed, Held

\* A write, or a full write that finds nothing to evict, goes to the bank.
LEMMA OwnToWrite ==
  ASSUME WInv, NEW t, Takes(t), NEW b, WriteToBank(t, b),
         b \in Lookup(Line(t)) \/ (Lookup(Line(t)) = {} /\ b \in SetOf[Line(t)])
  PROVE  WInv' /\ b \in Slots /\ Owns(t, b) /\ OwnTypes
<1>1. t \in ReqID /\ Line(t) \in Lines /\ Line(t) = reqs[t].line
  BY DirTakes DEF Line
<1>2. /\ Unused(b) /\ ToBank(t, b)
      /\ blocks' = [blocks EXCEPT ![b] = [@ EXCEPT !.IsLocked = TRUE, !.IsValid = TRUE,
                                                   !.Tag = Line(t)]]
      /\ trans' = [trans EXCEPT ![t].block = b, ![t].action = "bankWriteHit"]
      /\ UNCHANGED <<mshr, entry, evictingList>>
  BY DEF WriteToBank, misses
<1>3. b \in Slots /\ Claimable(b, reqs[t].line, blocks, evictingList)
  BY <1>2, MayOwn
<1>4. /\ ArrayTypes /\ blocks \in [Slots -> BlockType] /\ trans \in [ReqID -> TransType]
      /\ b \in 0 .. NumBlocks
  BY <1>3, WritebackAssumption DEF WInv, WTypes, ArrayTypes, Slots
<1>5. blocks' \in [Slots -> BlockType] /\ Claimed(b, reqs[t].line, blocks, blocks')
  <2> DEFINE y == [blocks[b] EXCEPT !.IsLocked = TRUE, !.IsValid = TRUE, !.Tag = Line(t)]
  <2>1. blocks[b] \in BlockType
    BY <1>3, <1>4
  <2>2. y \in BlockType /\ Held(y, Line(t), blocks[b])
    BY <1>1, <2>1 DEF BlockType, Held
  <2>3. blocks' = [blocks EXCEPT ![b] = y]
    BY <1>2, <1>3, <1>4
  <2> HIDE DEF y
  <2> QED
    BY <1>1, <1>3, <1>4, <2>2, <2>3, BlockOwned
<1>6. /\ trans' \in [ReqID -> TransType] /\ \A u \in ReqID : u # t => trans'[u] = trans[u]
      /\ trans'[t].action = "bankWriteHit" /\ trans'[t].block = b
  <2> DEFINE x == [trans[t] EXCEPT !.block = b, !.action = "bankWriteHit"]
  <2>1. trans[t] \in TransType
    BY <1>1, <1>4
  <2>2. trans' = [trans EXCEPT ![t] = x]
    BY <1>1, <1>2, <1>4
  <2>3. x \in TransType /\ x.action = "bankWriteHit" /\ x.block = b
    BY <1>4, <2>1 DEF TransType, Actions
  <2> HIDE DEF x
  <2> QED
    BY <1>1, <1>4, <2>2, <2>3
<1>7. Claims(t, b, trans'[t], entry'[t])
  BY <1>6 DEF Claims, Filling, Fetching
<1>8. Leaves(trans'[t], reqs[t].line, blocks[b], evictingList, evictingList')
  BY <1>2, <1>6 DEF Leaves, Evicting
<1>9. mshr' = mshr \cup (IF trans'[t].action \in Fetching THEN {t} ELSE {})
  BY <1>2, <1>6 DEF Fetching
<1>10. Owns(t, b)
  BY <1>2, <1>3, <1>5, <1>6, <1>7, <1>8, <1>9 DEF Owns
<1>11. OwnTypes
  BY <1>2, <1>4, <1>5, <1>6 DEF OwnTypes, ArrayTypes
<1> QED
  BY <1>3, <1>10, <1>11, OwnKeeps

\* A new entry for the request.
LEMMA EntryAdded ==
  ASSUME ArrayTypes, NEW t \in ReqID, NEW b \in 0 .. NumBlocks, AddEntry(t, b)
  PROVE  /\ mshr' = mshr \cup {t} /\ mshr' \in SUBSET ReqID
         /\ Cardinality(mshr') =< NumMSHREntry
         /\ entry' \in [ReqID -> EntryType]
         /\ entry'[t].block = b /\ entry'[t].requests # <<>>
         /\ entry'[t].requests = <<t>>
         /\ \A u \in ReqID : u # t => entry'[u] = entry[u]
<1>1. /\ mshr \in SUBSET ReqID /\ entry \in [ReqID -> EntryType] /\ NumMSHREntry \in Int
      /\ Cardinality(mshr) < NumMSHREntry /\ mshr' = mshr \cup {t}
      /\ entry' = [entry EXCEPT ![t].block = b, ![t].requests = <<t>>]
  BY WritebackAssumption DEF ArrayTypes, AddEntry
<1>2. mshr' \in SUBSET ReqID /\ Cardinality(mshr') =< NumMSHREntry
  BY <1>1, OneMore
<1> DEFINE x == [entry[t] EXCEPT !.block = b, !.requests = <<t>>]
<1>3. entry[t] \in EntryType
  BY <1>1
<1>4. <<t>> \in Seq(ReqID) /\ <<t>> # <<>>
  OBVIOUS
<1>5. x \in EntryType /\ x.block = b /\ x.requests = <<t>>
  BY <1>3, <1>4 DEF EntryType
<1>6. entry' = [entry EXCEPT ![t] = x]
  BY <1>1
<1> HIDE DEF x
<1> QED
  BY <1>1, <1>2, <1>4, <1>5, <1>6

\* A miss takes a block whose contents are to be evicted.
LEMMA OwnToEvict ==
  ASSUME WInv, NEW t, Takes(t), NEW b, Evict(t, b),
         Lookup(Line(t)) = {}, b \in SetOf[Line(t)]
  PROVE  WInv' /\ b \in Slots /\ Owns(t, b) /\ OwnTypes
<1> DEFINE l == Line(t)
           a == IF FullLine(t) THEN "bankEvictAndWrite" ELSE "bankEvictAndFetch"
           x == [action |-> a, block |-> b, evictingAddr |-> blocks[b].Tag, entry |-> t]
<1>1. t \in ReqID /\ l \in Lines /\ l = reqs[t].line
  BY DirTakes DEF Line
<1>2. /\ Unused(b) /\ NeedEviction(b) /\ ToBank(t, b)
      /\ IF FullLine(t) THEN UNCHANGED <<mshr, entry>> ELSE AddEntry(t, b)
      /\ trans' = [trans EXCEPT ![t] = x]
      /\ blocks' = [blocks EXCEPT ![b] = [@ EXCEPT !.Tag = l, !.IsLocked = TRUE,
                                                   !.IsDirty = FALSE]]
      /\ evictingList' = evictingList \cup {blocks[b].Tag}
  BY DEF Evict, misses
<1>3. b \in Slots /\ Claimable(b, reqs[t].line, blocks, evictingList)
  BY <1>2, MayOwn
<1>4. /\ ArrayTypes /\ blocks \in [Slots -> BlockType] /\ trans \in [ReqID -> TransType]
      /\ entry \in [ReqID -> EntryType]
      /\ b \in 0 .. NumBlocks /\ t \in 0 .. MaxReqs
  <2>1. b \in 0 .. NumBlocks
    BY <1>3, WritebackAssumption DEF Slots
  <2>2. t \in 0 .. MaxReqs
    BY <1>1, WritebackAssumption DEF ReqID
  <2> QED
    BY <2>1, <2>2 DEF WInv, WTypes, ArrayTypes
<1>5. /\ blocks[b].IsValid /\ blocks[b].Tag # l /\ blocks[b].Tag \in Lines \cup {NoLine}
  <2>1. blocks[b].IsValid /\ b \notin Lookup(l)
    BY <1>2 DEF NeedEviction
  <2>2. blocks[b].Tag # l
    BY <2>1 DEF Lookup
  <2>3. blocks[b] \in BlockType
    BY <1>3, <1>4
  <2> QED
    BY <2>1, <2>2, <2>3 DEF BlockType
<1>6. blocks' \in [Slots -> BlockType] /\ Claimed(b, reqs[t].line, blocks, blocks')
  <2>1. blocks[b] \in BlockType
    BY <1>3, <1>4
  <2> DEFINE y == [blocks[b] EXCEPT !.Tag = l, !.IsLocked = TRUE, !.IsDirty = FALSE]
  <2> HIDE DEF l
  <2>2. y \in BlockType /\ Held(y, l, blocks[b])
    BY <1>1, <1>5, <2>1 DEF BlockType, Held
  <2>3. blocks' = [blocks EXCEPT ![b] = y]
    BY <1>2, <1>3, <1>4
  <2> HIDE DEF y
  <2> QED
    BY <1>1, <1>3, <1>4, <2>2, <2>3, BlockOwned
<1>7. a \in {"bankEvictAndWrite", "bankEvictAndFetch"} /\ (a = "bankEvictAndWrite" <=> FullLine(t))
  OBVIOUS
<1> HIDE DEF a
<1>8. x \in TransType /\ x.action = a /\ x.block = b /\ x.evictingAddr = blocks[b].Tag /\ x.entry = t
  <2>1. a \in Actions
    BY <1>7 DEF Actions
  <2> QED
    BY <1>4, <1>5, <2>1 DEF TransType
<1> HIDE DEF x, l
<1>9. /\ trans' \in [ReqID -> TransType] /\ \A u \in ReqID : u # t => trans'[u] = trans[u]
      /\ trans'[t] = x
  BY <1>1, <1>2, <1>4, <1>8
<1>10. /\ mshr' \in SUBSET ReqID /\ Cardinality(mshr') =< NumMSHREntry
       /\ entry' \in [ReqID -> EntryType]
       /\ \A u \in ReqID : u # t => entry'[u] = entry[u]
       /\ mshr' = mshr \cup (IF a = "bankEvictAndFetch" THEN {t} ELSE {})
       /\ a = "bankEvictAndFetch" => entry'[t].block = b /\ entry'[t].requests # <<>>
  <2>1. CASE FullLine(t)
    <3>1. a # "bankEvictAndFetch" /\ mshr' = mshr /\ entry' = entry
      BY <1>2, <1>7, <2>1
    <3> QED
      BY <1>4, <3>1 DEF ArrayTypes
  <2>2. CASE ~FullLine(t)
    <3>1. a = "bankEvictAndFetch" /\ AddEntry(t, b)
      BY <1>2, <1>7, <2>2
    <3>2. /\ mshr' = mshr \cup {t} /\ mshr' \in SUBSET ReqID
          /\ Cardinality(mshr') =< NumMSHREntry
          /\ entry' \in [ReqID -> EntryType]
          /\ entry'[t].block = b /\ entry'[t].requests # <<>>
          /\ \A u \in ReqID : u # t => entry'[u] = entry[u]
      BY <1>1, <1>4, <3>1, EntryAdded
    <3> QED
      BY <3>1, <3>2
  <2> QED
    BY <2>1, <2>2
<1>11. Claims(t, b, trans'[t], entry'[t])
  BY <1>7, <1>8, <1>9, <1>10 DEF Claims, Evicting, Filling, Fetching
<1>12. Leaves(trans'[t], reqs[t].line, blocks[b], evictingList, evictingList')
  BY <1>1, <1>2, <1>5, <1>7, <1>8, <1>9 DEF Leaves, Evicting
<1>13. mshr' = mshr \cup (IF trans'[t].action \in Fetching THEN {t} ELSE {})
  BY <1>7, <1>8, <1>9, <1>10 DEF Fetching
<1>14. Owns(t, b)
  BY <1>2, <1>3, <1>6, <1>9, <1>10, <1>11, <1>12, <1>13 DEF Owns
<1>15. OwnTypes
  BY <1>6, <1>9, <1>10 DEF OwnTypes
<1> QED
  BY <1>3, <1>14, <1>15, OwnKeeps

\* A miss takes a block that holds nothing to be evicted.
LEMMA OwnToFetch ==
  ASSUME WInv, NEW t, Takes(t), NEW b, Fetch(t, b),
         Lookup(Line(t)) = {}, b \in SetOf[Line(t)]
  PROVE  WInv' /\ b \in Slots /\ Owns(t, b) /\ OwnTypes
<1> DEFINE l == Line(t)
           x == [trans[t] EXCEPT !.block = b, !.entry = t, !.action = "writeBufferFetch"]
<1>1. t \in ReqID /\ l \in Lines /\ l = reqs[t].line
  BY DirTakes DEF Line
<1>2. /\ Unused(b) /\ ToBank(t, b) /\ AddEntry(t, b)
      /\ trans' = [trans EXCEPT ![t].block = b, ![t].entry = t,
                                ![t].action = "writeBufferFetch"]
      /\ blocks' = [blocks EXCEPT ![b] = [@ EXCEPT !.Tag = l, !.IsLocked = TRUE,
                                                   !.IsValid = TRUE]]
      /\ evictingList' = evictingList
  BY DEF Fetch
<1>3. b \in Slots /\ Claimable(b, reqs[t].line, blocks, evictingList)
  BY <1>2, MayOwn
<1>4. /\ ArrayTypes /\ blocks \in [Slots -> BlockType] /\ trans \in [ReqID -> TransType]
      /\ b \in 0 .. NumBlocks /\ t \in 0 .. MaxReqs
  <2>1. b \in 0 .. NumBlocks
    BY <1>3, WritebackAssumption DEF Slots
  <2>2. t \in 0 .. MaxReqs
    BY <1>1, WritebackAssumption DEF ReqID
  <2> QED
    BY <2>1, <2>2 DEF WInv, WTypes, ArrayTypes
<1>5. blocks' \in [Slots -> BlockType] /\ Claimed(b, reqs[t].line, blocks, blocks')
  <2> DEFINE y == [blocks[b] EXCEPT !.Tag = l, !.IsLocked = TRUE, !.IsValid = TRUE]
  <2>1. blocks[b] \in BlockType
    BY <1>3, <1>4
  <2> HIDE DEF l
  <2>2. y \in BlockType /\ Held(y, l, blocks[b])
    BY <1>1, <2>1 DEF BlockType, Held
  <2>3. blocks' = [blocks EXCEPT ![b] = y]
    BY <1>2, <1>3, <1>4
  <2> HIDE DEF y
  <2> QED
    BY <1>1, <1>3, <1>4, <2>2, <2>3, BlockOwned
<1>6. /\ trans' \in [ReqID -> TransType] /\ \A u \in ReqID : u # t => trans'[u] = trans[u]
      /\ trans'[t].action = "writeBufferFetch" /\ trans'[t].block = b /\ trans'[t].entry = t
  <2>1. trans[t] \in TransType
    BY <1>1, <1>4
  <2>2. trans' = [trans EXCEPT ![t] = x]
    BY <1>1, <1>2, <1>4
  <2>3. x \in TransType /\ x.action = "writeBufferFetch" /\ x.block = b /\ x.entry = t
    BY <1>4, <2>1 DEF TransType, Actions
  <2> HIDE DEF x
  <2> QED
    BY <1>1, <1>4, <2>2, <2>3
<1>7. /\ mshr' = mshr \cup {t} /\ mshr' \in SUBSET ReqID
      /\ Cardinality(mshr') =< NumMSHREntry
      /\ entry' \in [ReqID -> EntryType]
      /\ entry'[t].block = b /\ entry'[t].requests # <<>>
      /\ \A u \in ReqID : u # t => entry'[u] = entry[u]
  BY <1>1, <1>2, <1>4, EntryAdded
<1>8. Claims(t, b, trans'[t], entry'[t])
  BY <1>6, <1>7 DEF Claims, Filling, Fetching
<1>9. Leaves(trans'[t], reqs[t].line, blocks[b], evictingList, evictingList')
  BY <1>2, <1>6 DEF Leaves, Evicting
<1>10. mshr' = mshr \cup (IF trans'[t].action \in Fetching THEN {t} ELSE {})
  BY <1>6, <1>7 DEF Fetching
<1>11. Owns(t, b)
  BY <1>2, <1>3, <1>5, <1>6, <1>7, <1>8, <1>9, <1>10 DEF Owns
<1>12. OwnTypes
  BY <1>5, <1>6, <1>7 DEF OwnTypes
<1> QED
  BY <1>3, <1>11, <1>12, OwnKeeps

\* The directory preserves the invariant, whatever it finds.
LEMMA DirectoryKeeps == ASSUME WInv, ProcessTransaction PROVE WInv'
<1> DEFINE t == Head(dirBuf)
           v == FindVictim(Line(t))
<1>1. UNCHANGED DirRest
  BY DEF ProcessTransaction, top, low, bank, buffer, respond, outside, DirRest
<1>2. StageTypes /\ ArrayTypes /\ WaitInv /\ PortTypes
  BY DEF WInv, WTypes
<1>3. CASE /\ UNCHANGED <<dirToBank, dirBuf, lru, misses, trans, blocks, evictingList>>
           /\ dirBuf # <<>> /\ Line(t) \notin evictingList => Count(t)
           /\ dirBuf = <<>> \/ Line(t) \in evictingList => UNCHANGED counted
  <2>1. counted' \in [ReqID -> 0 .. 2]
    <3>1. CASE dirBuf = <<>> \/ Line(t) \in evictingList
      BY <1>2, <1>3, <3>1 DEF StageTypes
    <3>2. CASE dirBuf # <<>> /\ Line(t) \notin evictingList
      <4>1. counted \in [ReqID -> 0 .. 2] /\ Single(dirBuf)
        BY <1>2 DEF StageTypes
      <4>2. t \in ReqID
        BY <3>2, <4>1, OneTaken
      <4> HIDE DEF t
      <4>3. counted[t] \in 0 .. 2
        BY <4>1, <4>2
      <4>4. counted' = counted \/ (counted[t] # 2 /\ counted' = [counted EXCEPT ![t] = @ + 1])
        BY <1>3, <3>2 DEF Count
      <4>5. counted[t] # 2 => counted[t] + 1 \in 0 .. 2
        BY <4>3
      <4> QED
        BY <4>1, <4>2, <4>4, <4>5
    <3> QED
      BY <3>1, <3>2
  <2>2. StageTypes'
    BY <1>1, <1>2, <1>3, <2>1 DEF StageTypes, DirRest
  <2>3. UNCHANGED <<ports, buffers, arrays, upper, bank, places, tales, asked>>
    BY <1>1, <1>3 DEF DirRest, misses, ports, buffers, arrays, upper, bank, places, tales, asked
  <2>4. /\ PortTypes' /\ BufferTypes' /\ ArrayTypes' /\ WaitInv' /\ Taken' = Taken
        /\ BankInv' /\ InBank' = InBank /\ ApartInv' /\ AskInv'
    BY <2>3, PortsKept, BuffersKept, ArraysKept, WaitKept, BankKept, PlacesKept, AskKept
       DEF WInv, WTypes
  <2>5. WorldInv'
    BY <2>3, <2>4, WorldKept DEF WInv
  <2> QED
    BY <2>2, <2>4, <2>5 DEF WInv, WTypes
<1>4. CASE /\ dirBuf # <<>> /\ Line(t) \notin evictingList
           /\ DirDone(t) /\ Count(t)
  <2>1. dirBuf' = Tail(dirBuf)
    BY <1>4 DEF DirDone, JoinEntry, ReadFromBank, WriteToBank, Evict, Fetch, ToBank
  <2>2. Takes(t)
    BY <1>1, <1>4, <2>1 DEF Takes
  <2> HIDE DEF t
  <2>3. Line(t) \in Lines
    BY <2>2, DirTakes
  <2>4. v \in SetOf[Line(t)]
    BY <1>2, <2>3, VictimInSet DEF ArrayTypes
  <2> HIDE DEF v
  <2>5. CASE JoinEntry(t)
    BY <2>2, <2>5, JoinKeeps
  <2>6. CASE ReadFromBank(t)
    BY <2>2, <2>6, ReadKeeps
  <2>7. CASE \E b \in Lookup(Line(t)) : WriteToBank(t, b)
    BY <2>2, <2>7, OwnToWrite
  <2>8. CASE Lookup(Line(t)) = {} /\ Evict(t, v)
    BY <2>2, <2>4, <2>8, OwnToEvict
  <2>9. CASE Lookup(Line(t)) = {} /\ Fetch(t, v)
    BY <2>2, <2>4, <2>9, OwnToFetch
  <2>10. CASE Lookup(Line(t)) = {} /\ WriteToBank(t, v)
    BY <2>2, <2>4, <2>10, OwnToWrite
  <2>11. DirDone(t)
    BY <1>4
  <2> QED
    BY <2>5, <2>6, <2>7, <2>8, <2>9, <2>10, <2>11 DEF DirDone, v
<1> QED
  BY <1>3, <1>4 DEF ProcessTransaction

(***************************************************************************)
(* The theorems                                                            *)
(***************************************************************************)
\* The world of an empty cache.
LEMMA WorldBegins ==
  ASSUME NEW tr, NEW bl, NEW en, NEW rq,
         \A b \in Slots : ~bl[b].IsValid /\ ~bl[b].IsLocked /\ bl[b].ReadCount = 0
  PROVE  World({}, {}, {}, {}, {}, {}, 0, tr, bl, en, {}, {}, rq)
<1>1. 0 \in 0 .. MaxReqs
  BY WritebackAssumption
<1>2. All({}, {}, {}, {}, {}) = {}
  BY DEF All
<1>3. Places({}, {}, {}, {}, {}, {}, 0)
  BY DEF Places
<1>4. Fits({}, {}, {}, {}, {}, tr)
  BY DEF Fits
<1>5. Opens({}, {}, tr, en)
  BY DEF Opens
<1>6. ReadsCounted({}, tr, bl)
  <2>1. \A b \in Slots : Readers({}, tr, b) = {}
    BY DEF Readers
  <2>2. Cardinality({}) = 0
    BY FS_EmptySet
  <2> QED
    BY <2>1, <2>2 DEF ReadsCounted
<1>7. LeavingListed({}, tr, bl, {})
  <2>1. Leavers({}, tr) = {}
    BY DEF Leavers
  <2> QED
    BY <2>1 DEF LeavingListed
<1>8. /\ HoldsBlock({}, tr, bl, rq) /\ OneOwner({}, tr) /\ LocksOwned({}, tr, bl)
      /\ EntriesOpen({}, tr, en, {}) /\ TagsApart(bl)
  BY DEF HoldsBlock, OneOwner, LocksOwned, EntriesOpen, TagsApart
<1>9. Story({}, tr, bl, en, {}, {}, rq)
  BY <1>6, <1>7, <1>8 DEF Story
<1> QED
  BY <1>1, <1>2, <1>3, <1>4, <1>5, <1>9 DEF World

\* The cache begins in the invariant.
LEMMA WInvBegins == Init => WInv
<1> SUFFICES ASSUME Init PROVE WInv
  OBVIOUS
<1> DEFINE none == <<>>
<1>1. /\ topIn = none /\ topOut = none /\ bottomIn = none /\ bottomOut = none
      /\ dirStageBuffer = none /\ dirBuf = none /\ dirToBank = none
      /\ writeBufferToBank = none /\ mshrStageBuffer = none /\ writeBufferBuffer = none
      /\ bankPipe = EmptyPipeline(LaneWidth, BankLatency) /\ bankBuf = none
      /\ downwardInflightTransCount = 0
      /\ pendingEvictions = none /\ inflightFetch = {} /\ inflightEviction = none
      /\ processingMSHREntry = 0 /\ mshr = {} /\ evictingList = {}
      /\ reqs = none /\ answers = {} /\ lowReqs = none
  BY DEF Init
<1>2. /\ none \in Seq(ReqID) /\ none \in Seq(Response) /\ none \in Seq(Answer)
      /\ none \in Seq(ReadMsg \cup WriteMsg) /\ none \in Seq(Request)
      /\ Len(none) = 0 /\ ToSet(none) = {}
  <2>1. ToSet(none) = {}
    BY SetOfEmpty
  <2> QED
    BY <2>1
<1>3. Single(none)
  BY <1>2 DEF Single
<1>4. /\ blocks = [b \in Slots |-> [Tag |-> NoLine, IsValid |-> FALSE, IsLocked |-> FALSE,
                                    IsDirty |-> FALSE, ReadCount |-> 0]]
      /\ entry = [t \in ReqID |-> [block |-> 0, requests |-> none, data |-> 0, slice |-> 0]]
      /\ storage = [b \in Slots |-> 0] /\ lru = [i \in Slots |-> i]
      /\ trans = [t \in ReqID |-> [action |-> "invalid", block |-> 0,
                                   evictingAddr |-> NoLine, entry |-> 0]]
      /\ evictingData = [t \in ReqID |-> 0] /\ counted = [t \in ReqID |-> 0]
      /\ mem = [l \in Lines |-> 0]
  BY DEF Init
<1> HIDE DEF none
<1>5. /\ MaxReqs \in Nat /\ PortCap \in Nat /\ NumBlocks \in Nat /\ NumMSHREntry \in Nat
      /\ WriteBufferCapacity \in Nat /\ MaxInflightFetch \in Nat
      /\ MaxInflightEviction \in Nat
  BY WritebackAssumption
<1>6. PortTypes
  <2>1. mem \in [Lines -> Nat]
    BY <1>4
  <2> QED
    BY <1>1, <1>2, <1>5, <2>1 DEF PortTypes
<1>7. StageTypes
  <2>1. counted \in [ReqID -> 0 .. 2]
    BY <1>4
  <2>2. 0 \in 0 .. MaxReqs /\ 0 \in Int
    BY <1>5
  <2> QED
    BY <1>1, <1>3, <2>1, <2>2 DEF StageTypes
<1>8. Cardinality({}) = 0
  BY FS_EmptySet
<1>9. BufferTypes
  <2>1. evictingData \in [ReqID -> Nat]
    BY <1>4
  <2> QED
    BY <1>1, <1>2, <1>5, <1>8, <2>1 DEF BufferTypes
<1>10. ArrayTypes
  <2>1. entry \in [ReqID -> EntryType]
    BY <1>2, <1>4, <1>5 DEF EntryType
  <2>2. blocks \in [Slots -> BlockType] /\ storage \in [Slots -> Nat]
    BY <1>4 DEF BlockType
  <2>3. trans \in [ReqID -> TransType]
    BY <1>4, <1>5 DEF TransType, Actions
  <2>4. lru \in Seq(Slots)
    BY <1>4, <1>5, SeqDef DEF Slots
  <2>5. ToSet(lru) = Slots
    BY <1>4 DEF ToSet
  <2> QED
    BY <1>1, <1>5, <1>8, <2>1, <2>2, <2>3, <2>4, <2>5 DEF ArrayTypes
<1>11. WaitInv /\ Taken = 0
  <2>1. TakenOf(none, none, none, none) = 0
    BY <1>2 DEF TakenOf
  <2>2. Waits(none, none, none, none)
    BY <1>2, <2>1 DEF Waits, none
  <2> QED
    BY <1>1, <2>1, <2>2 DEF WaitInv, Taken
<1>12. BankInv /\ InBank = {}
  BY <1>1, BankEmpty DEF BankInv, InBank, BankOf, none
<1>13. /\ AtBank = {} /\ AtBuffer = {} /\ GoingBack = {} /\ Filled = {}
  BY <1>1, <1>2 DEF AtBank, AtBuffer, GoingBack, Filled, FilledOf
<1>14. WorldInv
  <2>1. \A b \in Slots : ~blocks[b].IsValid /\ ~blocks[b].IsLocked /\ blocks[b].ReadCount = 0
    BY <1>4
  <2>2. World({}, {}, {}, {}, {}, {}, 0, trans, blocks, entry, {}, {}, reqs)
    BY <2>1, WorldBegins
  <2> QED
    BY <1>1, <1>11, <1>12, <1>13, <2>2 DEF WorldInv
<1>15. ApartInv
  BY <1>1, <1>2 DEF ApartInv
<1>16. AskInv
  <2>1. AskedOnce(none) /\ ReadsOf(none) = {}
    BY DEF AskedOnce, ReadsOf, none
  <2> QED
    BY <1>1, <2>1 DEF AskInv, Asks
<1> QED
  BY <1>6, <1>7, <1>9, <1>10, <1>11, <1>12, <1>14, <1>15, <1>16 DEF WInv, WTypes

\* Every step preserves the invariant.
LEMMA WInvSteps == WInv /\ [Next]_vars => WInv'
<1> SUFFICES ASSUME WInv, [Next]_vars PROVE WInv'
  OBVIOUS
<1>1. CASE Component
  BY <1>1, TickKeeps, MshrKeeps, FinalizeKeeps, BankPipelineKeeps, PullKeeps, WriteKeeps,
     ReturnKeeps, NewKeeps, AcceptKeeps, DirectoryKeeps, TopParserKeeps DEF Component
<1>2. CASE \E i \in ReqID : \E r \in Script[i] : TopDeliver(r)
  BY <1>2, DeliverKeeps
<1>3. CASE TopCollect
  BY <1>3, CollectKeeps
<1>4. CASE LowAccept
  BY <1>4, LowAcceptKeeps
<1>5. CASE LowRespond
  BY <1>5, LowRespondKeeps
<1>6. CASE UNCHANGED vars
  <2>1. UNCHANGED <<ports, stages, buffers, arrays, upper, bank, places, tales, asked>>
    BY <1>6 DEF vars, top, low, dir, bank, toBank, buffer, misses, respond, array, work,
                outside, ports, stages, buffers, arrays, upper, places, tales, asked
  <2> QED
    BY <2>1, AllKept
<1> QED
  BY <1>1, <1>2, <1>3, <1>4, <1>5, <1>6 DEF Next

\* Every behaviour keeps the whole invariant, for every number of lines, blocks,
\* MSHR entries, cycles of latency and places in the write buffer: types; the
\* requests above the directory wait in order; a transaction is in one place of
\* the cache at most, with an action that fits the place; every locked block has
\* its one owner and every reader is counted; every open MSHR entry has its one
\* fetch; no two blocks hold one line, and no block holds a line that is leaving;
\* each read below is in one place.
THEOREM WInvHolds == Spec => []WInv
<1> QED
  BY WInvBegins, WInvSteps, PTL DEF Spec

\* A tick's notes are Booleans.
LEMMA TickTypesSteps == TickTypes /\ [Next]_vars => TickTypes'
<1> SUFFICES ASSUME TickTypes, [Next]_vars PROVE TickTypes'
  OBVIOUS
<1>1. \A at, next, made : Step(at, next, made) => TickTypes'
  BY Zenon DEF TickTypes, Step
<1>2. CASE Component
  <2>1. CASE Tick
    BY <2>1 DEF Tick, TickTypes
  <2>2. CASE TopParser
    BY <2>2 DEF TopParser, KeepsTicking, TickTypes
  <2>3. CASE MshrStage
    BY <1>1, <2>3 DEF MshrStage
  <2>4. CASE FinalizeTrans
    BY <1>1, <2>4 DEF FinalizeTrans
  <2>5. CASE BankPipeline
    BY <1>1, <2>5 DEF BankPipeline
  <2>6. CASE PullFromBuf
    BY <1>1, <2>6 DEF PullFromBuf
  <2>7. CASE WriteStage
    BY <1>1, <2>7 DEF WriteStage
  <2>8. CASE ProcessReturnRsp
    BY <1>1, <2>8 DEF ProcessReturnRsp, ProcessDataReadyRsp, ProcessWriteDoneRsp, NoReturnRsp
  <2>9. CASE ProcessNewTransaction
    BY <1>1, <2>9 DEF ProcessNewTransaction
  <2>10. CASE AcceptNewTransaction
    BY <1>1, <2>10 DEF AcceptNewTransaction
  <2>11. CASE ProcessTransaction
    BY <1>1, <2>11 DEF ProcessTransaction
  <2> QED
    BY <1>2, <2>1, <2>2, <2>3, <2>4, <2>5, <2>6, <2>7, <2>8, <2>9, <2>10, <2>11 DEF Component
<1>3. CASE \E i \in ReqID : \E r \in Script[i] : TopDeliver(r)
  BY <1>3 DEF TopDeliver, Between, TickTypes
<1>4. CASE TopCollect \/ LowAccept \/ LowRespond
  BY <1>4 DEF TopCollect, LowAccept, LowRespond, Between, TickTypes
<1>5. CASE UNCHANGED vars
  BY <1>5 DEF vars, ticker, TickTypes
<1> QED
  BY <1>2, <1>3, <1>4, <1>5 DEF Next

\* The type invariant of the specification is a part of the proved one.
LEMMA WTypeFollows == WInv /\ TickTypes => WTypeOK
<1> SUFFICES ASSUME WInv, TickTypes PROVE WTypeOK
  OBVIOUS
<1>1. PortTypes /\ StageTypes /\ BufferTypes /\ ArrayTypes
  BY DEF WInv, WTypes
<1>2. {Len(topIn), Len(topOut), Len(bottomIn), Len(bottomOut)} \subseteq 0 .. PortCap
  <2>1. /\ topIn \in Seq(ReqID) /\ topOut \in Seq(Response) /\ bottomIn \in Seq(Answer)
        /\ bottomOut \in Seq(ReadMsg \cup WriteMsg) /\ PortCap \in Nat
        /\ Len(topIn) =< PortCap /\ Len(topOut) =< PortCap
        /\ Len(bottomIn) =< PortCap /\ Len(bottomOut) =< PortCap
    BY <1>1, WritebackAssumption DEF PortTypes
  <2>2. Len(topIn) \in Nat /\ Len(topOut) \in Nat /\ Len(bottomIn) \in Nat /\ Len(bottomOut) \in Nat
    BY <2>1, LenProperties
  <2> QED
    BY <2>1, <2>2
<1>3. \A buf \in {dirStageBuffer, dirBuf, dirToBank, writeBufferToBank, writeBufferBuffer} :
        buf \in Seq(ReqID) /\ Len(buf) =< 1
  BY <1>1 DEF StageTypes, Single
<1>4. mshrStageBuffer \in Seq(ReqID) /\ Len(mshrStageBuffer) =< 1
  BY <1>1 DEF StageTypes, Single
<1>5. Len(bankBuf) =< LaneWidth
  BY DEF WInv, BankInv, BankOK
<1> QED
  BY <1>1, <1>2, <1>3, <1>4, <1>5
     DEF WTypeOK, TickTypes, BufferTypes, ArrayTypes, BlockType, TransType

\* The write-back cache's state is always of its types: the lists, buffers and
\* counters stay within the capacities the builder gives them, so no push meets a
\* full buffer, for which the code panics (sim/buffer.go).
THEOREM WritebackTyped == Spec => []WTypeOK
<1>1. Init => TickTypes
  BY DEF Init, TickTypes
<1> QED
  BY <1>1, TickTypesSteps, WInvHolds, WTypeFollows, PTL DEF Spec

\* The transactions past the directory are the world's.
LEMMA BlocksFollow == WInv => BlocksHeld
<1> SUFFICES ASSUME WInv PROVE BlocksHeld
  OBVIOUS
<1> DEFINE B == All(AtBank, InBank, AtBuffer, GoingBack, inflightFetch)
<1>1. /\ World(AtBank, InBank, AtBuffer, GoingBack, inflightFetch, Filled, Taken,
               trans, blocks, entry, mshr, evictingList, reqs)
      /\ blocks \in [Slots -> BlockType]
  BY DEF WInv, WTypes, ArrayTypes, WorldInv
<1>2. Busy = B
  BY DEF Busy, All, AtBank, AtBuffer, GoingBack
<1>3. B \in SUBSET ReqID
  BY <1>1, WorldTyped
<1>4. /\ HoldsBlock(B, trans, blocks, reqs) /\ OneOwner(B, trans)
      /\ LocksOwned(B, trans, blocks) /\ ReadsCounted(B, trans, blocks)
      /\ EntriesOpen(B, trans, entry, mshr) /\ TagsApart(blocks)
      /\ LeavingListed(B, trans, blocks, evictingList)
  BY <1>1 DEF World, Story
<1>5. Leavers(B, trans) = {t \in AtBank \cup InBank : trans[t].action \in Evicting}
  <2>1. Fits(AtBank, InBank, AtBuffer, GoingBack, inflightFetch, trans)
    BY <1>1 DEF World
  <2>2. \A t \in AtBuffer \cup GoingBack \cup inflightFetch : trans[t].action \notin Evicting
    BY <2>1 DEF Fits, Evicting
  <2> QED
    BY <2>2 DEF Leavers, All
<1> HIDE DEF B
<1>6. LockHasOwner
  <2> DEFINE O(b) == {t \in B : trans[t].block = b /\ trans[t].action # "bankReadHit"}
  <2> SUFFICES ASSUME NEW b \in Slots
               PROVE  Cardinality(O(b)) = IF blocks[b].IsLocked THEN 1 ELSE 0
    BY <1>2 DEF LockHasOwner
  <2>1. CASE blocks[b].IsLocked
    <3>1. PICK t \in B : trans[t].block = b /\ ~Reader(trans, t)
      BY <1>4, <2>1 DEF LocksOwned
    <3>2. O(b) = {t}
      BY <1>4, <3>1 DEF OneOwner, Reader
    <3>3. Cardinality({t}) = 1
      BY FS_Singleton
    <3> QED
      BY <2>1, <3>2, <3>3
  <2>2. CASE ~blocks[b].IsLocked
    <3>1. O(b) = {}
      BY <1>4, <2>2 DEF HoldsBlock, Reader
    <3>2. Cardinality({}) = 0
      BY FS_EmptySet
    <3> QED
      BY <2>2, <3>1, <3>2
  <2> QED
    BY <2>1, <2>2
<1>7. ReadsPinTheBlock
  <2> DEFINE R(b) == {t \in B : trans[t].block = b /\ trans[t].action = "bankReadHit"}
  <2> SUFFICES ASSUME NEW b \in Slots
               PROVE  /\ blocks[b].ReadCount = Cardinality(R(b))
                      /\ \A t \in R(b) : blocks[b].Tag = Line(t) /\ ~blocks[b].IsLocked
    BY <1>2 DEF ReadsPinTheBlock
  <2>1. R(b) = Readers(B, trans, b)
    BY DEF Readers, Reader
  <2>2. blocks[b].ReadCount = Cardinality(R(b))
    BY <1>4, <2>1 DEF ReadsCounted
  <2>3. \A t \in R(b) : blocks[b].Tag = Line(t) /\ ~blocks[b].IsLocked
    BY <1>4 DEF HoldsBlock, Reader, Line
  <2> QED
    BY <2>2, <2>3
<1>8. OneBlockPerLine
  <2>1. \A i, j \in Slots : blocks[i].IsValid /\ blocks[j].IsValid /\ blocks[i].Tag = blocks[j].Tag
                              => i = j
    BY <1>4 DEF TagsApart
  <2>2. \A e \in mshr : /\ e \in B /\ trans[e].block = entry[e].block
                        /\ trans[e].action # "bankReadHit"
    BY <1>4 DEF EntriesOpen, Filling, Fetching
  <2>3. \A e \in mshr : /\ entry[e].block \in Slots
                        /\ blocks[entry[e].block].IsLocked /\ blocks[entry[e].block].IsValid
                        /\ blocks[entry[e].block].Tag = Line(e)
    BY <1>4, <2>2 DEF HoldsBlock, Reader, Line
  <2>4. \A e \in mshr : \A f \in mshr \ {e} : Line(f) # Line(e)
    <3> SUFFICES ASSUME NEW e \in mshr, NEW f \in mshr, Line(f) = Line(e) PROVE f = e
      OBVIOUS
    <3>1. entry[f].block = entry[e].block
      BY <2>1, <2>3
    <3>2. trans[f].block = trans[e].block /\ ~Reader(trans, f) /\ ~Reader(trans, e)
      BY <2>2, <3>1 DEF Reader
    <3> QED
      BY <1>4, <2>2, <3>2 DEF OneOwner
  <2> QED
    BY <2>1, <2>3, <2>4 DEF OneBlockPerLine
<1>9. EvictingListMatches
  <2> DEFINE L == Leavers(B, trans)
             f == [t \in L |-> trans[t].evictingAddr]
  <2>1. /\ evictingList = {trans[t].evictingAddr : t \in L}
        /\ \A t, u \in L : trans[t].evictingAddr = trans[u].evictingAddr => t = u
    BY <1>4 DEF LeavingListed
  <2>2. L \in SUBSET ReqID
    BY <1>3 DEF Leavers
  <2>3. IsFiniteSet(L)
    BY <2>2, RequestsFinite
  <2> HIDE DEF L
  <2>4. f \in Bijection(L, evictingList)
    <3>1. f \in [L -> evictingList]
      BY <2>1
    <3>2. \A t, u \in L : f[t] = f[u] => t = u
      BY <2>1
    <3>3. \A x \in evictingList : \E t \in L : f[t] = x
      BY <2>1
    <3> HIDE DEF f
    <3> QED
      BY <3>1, <3>2, <3>3 DEF Bijection, Injection, Surjection, IsInjective
  <2>5. ExistsBijection(L, evictingList)
    BY <2>4 DEF ExistsBijection
  <2>6. Cardinality(evictingList) = Cardinality(L)
    BY <2>3, <2>5, FS_Bijection
  <2>7. {t \in ToSet(dirToBank) \cup InBank : trans[t].action \in Evicting} = L
    BY <1>5 DEF L, AtBank
  <2> QED
    BY <2>1, <2>6, <2>7 DEF EvictingListMatches
<1> QED
  BY <1>6, <1>7, <1>8, <1>9 DEF BlocksHeld

\* A block that is locked or being read is held by a transaction in flight, the
\* read counts are those of the transactions, no line is in two blocks, and the
\* eviction list is that of the transactions that evict: no interleaving of the
\* top parser, the directory, the bank, the write buffer, the MSHR stage and the
\* memory breaks it (directorystage.go, bankstage.go, writebufferstage.go,
\* mshrstage.go).
THEOREM BlocksStayHeld == Spec => []BlocksHeld
<1> QED
  BY WInvHolds, BlocksFollow, PTL
=============================================================================

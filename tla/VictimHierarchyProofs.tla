----------------------- MODULE VictimHierarchyProofs -----------------------
(***************************************************************************)
(* The L1, the victim cache and memory keep the copies of a line in order. *)
(*                                                                         *)
(* LevelsOrdered and AnswersAreFresh are not inductive: what keeps a read  *)
(* from overtaking an eviction of its line is that the L1 has a fetch or   *)
(* evictions open, never both, and that each open request is in one place. *)
(* HInv says so: OrderInv orders the copies (Chain), OpenInv counts the open*)
(* requests, AnswerInv bounds what comes up, LinkInv ties the IDs of the   *)
(* messages to their lines.                                                *)
(***************************************************************************)
EXTENDS VictimHierarchy, VictimCacheProofs

(***************************************************************************)
(* The order of the copies, and what each kind of step does to it          *)
(***************************************************************************)
\* The copies of line l on their way from the L1 down to memory, newest first: the
\* L1's version v, the writes asked (A), the versions H the victim cache stores,
\* the writes sent below (B), the version m in memory.
Chain(l, m, B, H, A, v) ==
  /\ m =< v
  /\ \A k \in WritesTo(l, B) : m =< B[k].data /\ B[k].data =< v
  /\ \A x \in H : m =< x /\ x =< v
  /\ \A k \in WritesTo(l, A) : m =< A[k].data /\ A[k].data =< v
  /\ \A j, k \in WritesTo(l, B) : j < k => B[j].data =< B[k].data
  /\ \A j, k \in WritesTo(l, A) : j < k => A[j].data =< A[k].data
  /\ \A j \in WritesTo(l, B), x \in H : B[j].data =< x
  /\ \A j \in WritesTo(l, B), k \in WritesTo(l, A) : B[j].data =< A[k].data
  /\ \A x \in H, k \in WritesTo(l, A) : x =< A[k].data

\* An appended request is the last write to its line.
LEMMA WritesAppended ==
  ASSUME NEW q \in Seq(TopReq), NEW r \in TopReq, NEW l
  PROVE  /\ \A k \in WritesTo(l, q) : k \in 1 .. Len(q)
         /\ \A k \in WritesTo(l, Append(q, r)) :
              \/ k \in WritesTo(l, q) /\ Append(q, r)[k] = q[k]
              \/ /\ k = Len(q) + 1 /\ Append(q, r)[k] = r
                 /\ r.kind = "WriteReq" /\ r.line = l
<1>1. /\ DOMAIN q = 1 .. Len(q) /\ Len(q) \in Nat
      /\ Append(q, r) \in Seq(TopReq) /\ Len(Append(q, r)) = Len(q) + 1
      /\ \A k \in 1 .. Len(q) : Append(q, r)[k] = q[k]
      /\ Append(q, r)[Len(q) + 1] = r
  BY AppendProperties, LenProperties
<1>2. DOMAIN Append(q, r) = 1 .. Len(q) + 1
  BY <1>1, LenProperties
<1> DEFINE a == Append(q, r)
<1> HIDE DEF a
<1>3. ASSUME NEW k \in WritesTo(l, a)
      PROVE  \/ k \in WritesTo(l, q) /\ a[k] = q[k]
             \/ k = Len(q) + 1 /\ a[k] = r /\ r.kind = "WriteReq" /\ r.line = l
  <2>1. k \in 1 .. Len(q) + 1 /\ a[k].kind = "WriteReq" /\ a[k].line = l
    BY <1>2 DEF WritesTo, a
  <2>2. CASE k \in 1 .. Len(q)
    BY <1>1, <2>1, <2>2 DEF WritesTo, a
  <2>3. CASE k = Len(q) + 1
    BY <1>1, <2>1, <2>3 DEF a
  <2> QED
    BY <1>1, <2>1, <2>2, <2>3
<1> QED
  BY <1>1, <1>3 DEF WritesTo, a

\* Without its head a queue holds the same writes one place earlier.
LEMMA WritesShifted ==
  ASSUME NEW q \in Seq(TopReq), q # <<>>, NEW l
  PROVE  \A k \in WritesTo(l, Tail(q)) :
           /\ k \in Nat /\ k + 1 \in WritesTo(l, q) /\ Tail(q)[k] = q[k + 1]
<1> DEFINE a == Tail(q)
<1>1. /\ DOMAIN q = 1 .. Len(q) /\ Len(q) \in Nat \ {0}
      /\ a \in Seq(TopReq) /\ Len(a) = Len(q) - 1
      /\ \A k \in 1 .. Len(q) - 1 : a[k] = q[k + 1]
  BY HeadTailProperties, LenProperties, EmptySeq
<1> HIDE DEF a
<1>2. DOMAIN a = 1 .. Len(q) - 1
  BY <1>1, LenProperties
<1>3. ASSUME NEW k \in WritesTo(l, a)
      PROVE  k \in Nat /\ k + 1 \in WritesTo(l, q) /\ a[k] = q[k + 1]
  <2>1. k \in 1 .. Len(q) - 1 /\ a[k].kind = "WriteReq" /\ a[k].line = l
    BY <1>2 DEF WritesTo
  <2>2. k + 1 \in 1 .. Len(q) /\ a[k] = q[k + 1]
    BY <1>1, <2>1
  <2> QED
    BY <1>1, <2>1, <2>2 DEF WritesTo
<1> QED
  BY <1>3 DEF a

\* The L1 evicts the version it holds: the newest write asked (sendEviction).
LEMMA ChainAsked ==
  ASSUME NEW l, NEW m, NEW B, NEW H, NEW A \in Seq(TopReq), NEW v \in Nat,
         Chain(l, m, B, H, A, v), NEW r \in TopReq,
         r.kind = "WriteReq" /\ r.line = l => r.data = v
  PROVE  Chain(l, m, B, H, Append(A, r), v)
<1> DEFINE a == Append(A, r)
<1>1. /\ \A k \in WritesTo(l, A) : k \in 1 .. Len(A)
      /\ \A k \in WritesTo(l, a) :
           \/ k \in WritesTo(l, A) /\ a[k] = A[k]
           \/ /\ k = Len(A) + 1 /\ a[k] = r
              /\ r.kind = "WriteReq" /\ r.line = l
  BY WritesAppended
<1>2. Len(A) \in Nat
  BY LenProperties
<1> HIDE DEF a
<1>3. \A k \in WritesTo(l, a) : \/ k \in WritesTo(l, A) /\ a[k] = A[k]
                                \/ a[k].data = v
  BY <1>1
<1>4. /\ \A k \in WritesTo(l, a) : m =< a[k].data /\ a[k].data =< v
      /\ \A j \in WritesTo(l, B), k \in WritesTo(l, a) : B[j].data =< a[k].data
      /\ \A x \in H, k \in WritesTo(l, a) : x =< a[k].data
  BY <1>3 DEF Chain
<1>5. ASSUME NEW j \in WritesTo(l, a), NEW k \in WritesTo(l, a), j < k
      PROVE  a[j].data =< a[k].data
  BY <1>1, <1>2, <1>5 DEF Chain
<1> QED
  BY <1>4, <1>5 DEF Chain, a

\* A request leaves the queue of the asked, and slots may be given up.
LEMMA ChainServed ==
  ASSUME NEW l, NEW m, NEW B, NEW H, NEW A \in Seq(TopReq), NEW v, A # <<>>,
         Chain(l, m, B, H, A, v), NEW I \in SUBSET H
  PROVE  Chain(l, m, B, I, Tail(A), v)
<1> DEFINE a == Tail(A)
<1>1. \A k \in WritesTo(l, a) : /\ k \in Nat /\ k + 1 \in WritesTo(l, A)
                                /\ a[k] = A[k + 1]
  BY WritesShifted
<1> HIDE DEF a
<1>2. ASSUME NEW j \in WritesTo(l, a), NEW k \in WritesTo(l, a), j < k
      PROVE  a[j].data =< a[k].data
  <2>1. j + 1 < k + 1
    BY <1>1, <1>2
  <2> QED
    BY <1>1, <2>1 DEF Chain
<1> QED
  BY <1>1, <1>2 DEF Chain, a

\* handleWrite: the oldest write asked becomes the stored version.
LEMMA ChainPut ==
  ASSUME NEW l, NEW m, NEW B, NEW H, NEW A \in Seq(TopReq), NEW v, A # <<>>,
         Chain(l, m, B, H, A, v), Head(A).kind = "WriteReq", Head(A).line = l
  PROVE  Chain(l, m, B, {Head(A).data}, Tail(A), v)
<1>1. 1 \in WritesTo(l, A) /\ A[1] = Head(A)
  BY HeadTailProperties, EmptySeq, LenProperties DEF WritesTo
<1>2. Chain(l, m, B, {}, Tail(A), v)
  BY ChainServed
<1>3. \A k \in WritesTo(l, Tail(A)) : A[1].data =< Tail(A)[k].data
  <2> SUFFICES ASSUME NEW k \in WritesTo(l, Tail(A))
               PROVE  A[1].data =< Tail(A)[k].data
    OBVIOUS
  <2>1. /\ k \in Nat /\ k + 1 \in WritesTo(l, A)
        /\ Tail(A)[k] = A[k + 1]
    BY WritesShifted
  <2>2. k # 0
    BY HeadTailProperties, LenProperties DEF WritesTo
  <2>3. 1 < k + 1
    BY <2>1, <2>2
  <2> QED
    BY <1>1, <2>1, <2>3 DEF Chain
<1>4. m =< A[1].data /\ A[1].data =< v
        /\ \A j \in WritesTo(l, B) : B[j].data =< A[1].data
  BY <1>1 DEF Chain
<1> QED
  BY <1>1, <1>2, <1>3, <1>4 DEF Chain

\* A replaced slot: the stored version becomes the newest write below; a request
\* that is no write to the line changes nothing.
LEMMA ChainSent ==
  ASSUME NEW l, NEW m, NEW B \in Seq(TopReq), NEW H, NEW A, NEW v,
         Chain(l, m, B, H, A, v), NEW r \in TopReq, NEW I \in SUBSET H,
         r.kind = "WriteReq" /\ r.line = l => r.data \in H /\ I = {}
  PROVE  Chain(l, m, Append(B, r), I, A, v)
<1> DEFINE b == Append(B, r)
<1>1. /\ \A k \in WritesTo(l, B) : k \in 1 .. Len(B)
      /\ \A k \in WritesTo(l, b) :
           \/ k \in WritesTo(l, B) /\ b[k] = B[k]
           \/ /\ k = Len(B) + 1 /\ b[k] = r
              /\ r.kind = "WriteReq" /\ r.line = l
  BY WritesAppended
<1>2. Len(B) \in Nat
  BY LenProperties
<1> HIDE DEF b
<1>3. \A k \in WritesTo(l, b) :
        \/ k \in WritesTo(l, B) /\ b[k] = B[k]
        \/ b[k].data \in H /\ I = {}
  BY <1>1
<1>4. /\ \A k \in WritesTo(l, b) : m =< b[k].data /\ b[k].data =< v
      /\ \A j \in WritesTo(l, b), x \in I : b[j].data =< x
      /\ \A j \in WritesTo(l, b), k \in WritesTo(l, A) : b[j].data =< A[k].data
  BY <1>3 DEF Chain
<1>5. ASSUME NEW j \in WritesTo(l, b), NEW k \in WritesTo(l, b), j < k
      PROVE  b[j].data =< b[k].data
  BY <1>1, <1>2, <1>5 DEF Chain
<1>6. /\ m =< v
      /\ \A x \in I : m =< x /\ x =< v
      /\ \A k \in WritesTo(l, A) : m =< A[k].data /\ A[k].data =< v
      /\ \A j, k \in WritesTo(l, A) : j < k => A[j].data =< A[k].data
      /\ \A x \in I, k \in WritesTo(l, A) : x =< A[k].data
  BY DEF Chain
<1> QED
  BY <1>4, <1>5, <1>6 DEF Chain, b

\* Memory serves the oldest request below.
LEMMA ChainStored ==
  ASSUME NEW l, NEW m, NEW B \in Seq(TopReq), NEW H, NEW A, NEW v, B # <<>>,
         Chain(l, m, B, H, A, v), NEW n,
         n = IF Head(B).kind = "WriteReq" /\ Head(B).line = l
               THEN Head(B).data ELSE m
  PROVE  Chain(l, n, Tail(B), H, A, v)
<1> DEFINE b == Tail(B)
<1>1. \A k \in WritesTo(l, b) : /\ k \in Nat /\ k + 1 \in WritesTo(l, B)
                                /\ b[k] = B[k + 1] /\ k # 0
  BY WritesShifted, HeadTailProperties, LenProperties DEF WritesTo
<1>2. \/ n = m
      \/ 1 \in WritesTo(l, B) /\ n = B[1].data
  BY HeadTailProperties, EmptySeq, LenProperties DEF WritesTo
<1> HIDE DEF b
<1>3. ASSUME NEW j \in WritesTo(l, b), NEW k \in WritesTo(l, b), j < k
      PROVE  b[j].data =< b[k].data
  <2>1. j + 1 < k + 1
    BY <1>1, <1>3
  <2> QED
    BY <1>1, <2>1 DEF Chain
<1>4. \A k \in WritesTo(l, b) : n =< b[k].data /\ b[k].data =< v
  <2> SUFFICES ASSUME NEW k \in WritesTo(l, b)
               PROVE  n =< b[k].data /\ b[k].data =< v
    OBVIOUS
  <2>1. 1 < k + 1
    BY <1>1
  <2> QED
    BY <1>1, <1>2, <2>1 DEF Chain
<1>5. /\ n =< v
      /\ \A x \in H : n =< x /\ x =< v
      /\ \A k \in WritesTo(l, A) : n =< A[k].data /\ A[k].data =< v
  BY <1>2 DEF Chain
<1>6. /\ \A j \in WritesTo(l, b), x \in H : b[j].data =< x
      /\ \A j \in WritesTo(l, b), k \in WritesTo(l, A) : b[j].data =< A[k].data
  BY <1>1 DEF Chain
<1>7. /\ \A j, k \in WritesTo(l, A) : j < k => A[j].data =< A[k].data
      /\ \A x \in H, k \in WritesTo(l, A) : x =< A[k].data
  BY DEF Chain
<1> QED
  BY <1>3, <1>4, <1>5, <1>6, <1>7 DEF Chain, b

(***************************************************************************)
(* Open requests, fresh answers, reads behind writes                       *)
(***************************************************************************)
\* The requests, answers and pending entries that have to do with a line, s being
\* the lines of the requests the L1 sent.
ReadTo(l)  == {r \in TopReq : r.kind = "ReadReq" /\ r.line = l}
WriteTo(l) == {r \in TopReq : r.kind = "WriteReq" /\ r.line = l}
DataFor(l, s) == {m \in TopRsp : m.kind = "DataReadyRsp" /\ s[m.rspTo] = l}
DoneFor(l, s) == {m \in TopRsp : m.kind = "WriteDoneRsp" /\ s[m.rspTo] = l}
WaitFor(l, s) ==
  {p \in PendingBottom : ~p.IsEviction /\ s[p.OrigReqID] = l}

\* How many entries of the queue are of the kind T.
Count(q, T) == Cardinality(Positions(q, T))

\* What Append, Tail and RemoveAt do to a count.
LEMMA CountTypes ==
  ASSUME NEW S, NEW q \in Seq(S), NEW T
  PROVE  /\ Count(q, T) \in Nat
         /\ \A e \in ToSet(q) : e \in T => Count(q, T) # 0
         /\ \A e \in S : Count(Append(q, e), T) =
                           Count(q, T) + (IF e \in T THEN 1 ELSE 0)
         /\ \A k \in 1 .. Len(q) : Count(RemoveAt(q, k), T) =
                           Count(q, T) - (IF q[k] \in T THEN 1 ELSE 0)
         /\ q # <<>> => Count(Tail(q), T) =
                           Count(q, T) - (IF Head(q) \in T THEN 1 ELSE 0)
<1>1. /\ IsFiniteSet(Positions(q, T)) /\ Count(q, T) \in Nat
  BY PositionsFinite DEF Count
<1>2. ASSUME NEW e \in ToSet(q), e \in T PROVE Count(q, T) # 0
  <2>1. PICK k \in DOMAIN q : q[k] = e
    BY DEF ToSet
  <2>2. k \in Positions(q, T)
    BY <1>2, <2>1 DEF Positions
  <2> QED
    BY <1>1, <2>2, FS_EmptySet DEF Count
<1>3. ASSUME NEW e \in S
      PROVE  Count(Append(q, e), T) = Count(q, T) + (IF e \in T THEN 1 ELSE 0)
  BY CountAppended DEF Count
<1>4. ASSUME NEW k \in 1 .. Len(q)
      PROVE  Count(RemoveAt(q, k), T) =
               Count(q, T) - (IF q[k] \in T THEN 1 ELSE 0)
  BY CountRemoved DEF Count
<1>5. ASSUME q # <<>>
      PROVE  Count(Tail(q), T) = Count(q, T) - (IF Head(q) \in T THEN 1 ELSE 0)
  <2>1. 1 \in 1 .. Len(q) /\ Tail(q) = RemoveAt(q, 1) /\ Head(q) = q[1]
    BY <1>5, TailRemoves, HeadTailProperties
  <2> QED
    BY <1>4, <2>1
<1> QED
  BY <1>1, <1>2, <1>3, <1>4, <1>5

\* A count depends on the entries of the queue only.
LEMMA CountSame ==
  ASSUME NEW S, NEW q \in Seq(S), NEW T, NEW U,
         \A e \in ToSet(q) : e \in T <=> e \in U
  PROVE  Count(q, T) = Count(q, U)
<1>1. Positions(q, T) = Positions(q, U)
  BY DEF Positions, ToSet
<1> QED
  BY <1>1 DEF Count

\* A request is answered at once.
LEMMA OpenAnswered ==
  ASSUME NEW l, NEW s, NEW A \in Seq(TopReq), A # <<>>, NEW O \in Seq(TopRsp),
         NEW m \in TopRsp, s[m.rspTo] = Head(A).line,
         m.kind = "WriteDoneRsp" <=> Head(A).kind = "WriteReq"
  PROVE  /\ Count(Tail(A), WriteTo(l)) + Count(Append(O, m), DoneFor(l, s)) =
              Count(A, WriteTo(l)) + Count(O, DoneFor(l, s))
         /\ Count(Tail(A), ReadTo(l)) + Count(Append(O, m), DataFor(l, s)) =
              Count(A, ReadTo(l)) + Count(O, DataFor(l, s))
<1> DEFINE h == Head(A)
<1>1. h \in TopReq
  BY HeadTailProperties
<1>2. /\ h \in WriteTo(l) <=> m \in DoneFor(l, s)
      /\ h \in ReadTo(l) <=> m \in DataFor(l, s)
  BY <1>1 DEF WriteTo, ReadTo, DoneFor, DataFor, TopReq, TopRsp
<1>3. /\ Count(Tail(A), WriteTo(l)) =
           Count(A, WriteTo(l)) - (IF h \in WriteTo(l) THEN 1 ELSE 0)
      /\ Count(Tail(A), ReadTo(l)) =
           Count(A, ReadTo(l)) - (IF h \in ReadTo(l) THEN 1 ELSE 0)
      /\ Count(A, WriteTo(l)) \in Nat /\ Count(A, ReadTo(l)) \in Nat
  BY CountTypes
<1>4. /\ Count(Append(O, m), DoneFor(l, s)) =
           Count(O, DoneFor(l, s)) + (IF m \in DoneFor(l, s) THEN 1 ELSE 0)
      /\ Count(Append(O, m), DataFor(l, s)) =
           Count(O, DataFor(l, s)) + (IF m \in DataFor(l, s) THEN 1 ELSE 0)
      /\ Count(O, DoneFor(l, s)) \in Nat /\ Count(O, DataFor(l, s)) \in Nat
  BY CountTypes
<1> HIDE DEF h
<1>5. Count(Tail(A), WriteTo(l)) + Count(Append(O, m), DoneFor(l, s)) =
        Count(A, WriteTo(l)) + Count(O, DoneFor(l, s))
  BY <1>2, <1>3, <1>4
<1>6. Count(Tail(A), ReadTo(l)) + Count(Append(O, m), DataFor(l, s)) =
        Count(A, ReadTo(l)) + Count(O, DataFor(l, s))
  BY <1>2, <1>3, <1>4
<1> QED
  BY <1>5, <1>6

\* A read is passed on.
LEMMA OpenPassed ==
  ASSUME NEW l, NEW s, NEW A \in Seq(TopReq), A # <<>>,
         NEW P \in Seq(PendingBottom), NEW p \in PendingBottom, ~p.IsEviction,
         s[p.OrigReqID] = Head(A).line, Head(A).kind = "ReadReq"
  PROVE  /\ Count(Tail(A), WriteTo(l)) = Count(A, WriteTo(l))
         /\ Count(Tail(A), ReadTo(l)) + Count(Append(P, p), WaitFor(l, s)) =
              Count(A, ReadTo(l)) + Count(P, WaitFor(l, s))
<1> DEFINE h == Head(A)
<1>1. h \in TopReq
  BY HeadTailProperties
<1>2. /\ h \notin WriteTo(l)
      /\ h \in ReadTo(l) <=> p \in WaitFor(l, s)
  BY <1>1 DEF WriteTo, ReadTo, WaitFor
<1>3. /\ Count(Tail(A), WriteTo(l)) =
           Count(A, WriteTo(l)) - (IF h \in WriteTo(l) THEN 1 ELSE 0)
      /\ Count(Tail(A), ReadTo(l)) =
           Count(A, ReadTo(l)) - (IF h \in ReadTo(l) THEN 1 ELSE 0)
      /\ Count(A, WriteTo(l)) \in Nat /\ Count(A, ReadTo(l)) \in Nat
  BY CountTypes
<1>4. /\ Count(Append(P, p), WaitFor(l, s)) =
           Count(P, WaitFor(l, s)) + (IF p \in WaitFor(l, s) THEN 1 ELSE 0)
      /\ Count(P, WaitFor(l, s)) \in Nat
  BY CountTypes
<1> HIDE DEF h
<1> QED
  BY <1>2, <1>3, <1>4

\* The answer to a read that was passed on goes up.
LEMMA OpenReturned ==
  ASSUME NEW l, NEW s, NEW P \in Seq(PendingBottom), NEW k \in 1 .. Len(P),
         ~P[k].IsEviction, NEW O \in Seq(TopRsp), NEW m \in TopRsp,
         m.kind = "DataReadyRsp", m.rspTo = P[k].OrigReqID
  PROVE  /\ Count(Append(O, m), DoneFor(l, s)) = Count(O, DoneFor(l, s))
         /\ Count(RemoveAt(P, k), WaitFor(l, s))
              + Count(Append(O, m), DataFor(l, s)) =
                Count(P, WaitFor(l, s)) + Count(O, DataFor(l, s))
<1> DEFINE p == P[k]
<1>1. p \in PendingBottom
  BY ElementOfSeq
<1>2. /\ m \notin DoneFor(l, s)
      /\ m \in DataFor(l, s) <=> p \in WaitFor(l, s)
  BY <1>1 DEF DoneFor, DataFor, WaitFor
<1>3. /\ Count(RemoveAt(P, k), WaitFor(l, s)) =
           Count(P, WaitFor(l, s)) - (IF p \in WaitFor(l, s) THEN 1 ELSE 0)
      /\ Count(P, WaitFor(l, s)) \in Nat
  BY CountTypes
<1>4. /\ Count(Append(O, m), DoneFor(l, s)) =
           Count(O, DoneFor(l, s)) + (IF m \in DoneFor(l, s) THEN 1 ELSE 0)
      /\ Count(Append(O, m), DataFor(l, s)) =
           Count(O, DataFor(l, s)) + (IF m \in DataFor(l, s) THEN 1 ELSE 0)
      /\ Count(O, DoneFor(l, s)) \in Nat /\ Count(O, DataFor(l, s)) \in Nat
  BY CountTypes
<1> HIDE DEF p
<1> QED
  BY <1>2, <1>3, <1>4

\* d is no older than memory and the writes on their way to it, no newer than v.
FreshIn(l, m, B, v, d) ==
  m =< d /\ d =< v /\ \A k \in WritesTo(l, B) : B[k].data =< d

\* Only a write to the line could make d stale ...
LEMMA FreshSent ==
  ASSUME NEW l, NEW m, NEW B \in Seq(TopReq), NEW v, NEW r \in TopReq,
         ~(r.kind = "WriteReq" /\ r.line = l), NEW d, FreshIn(l, m, B, v, d)
  PROVE  FreshIn(l, m, Append(B, r), v, d)
<1> DEFINE b == Append(B, r)
<1>1. \A k \in WritesTo(l, b) : k \in WritesTo(l, B) /\ b[k] = B[k]
  BY WritesAppended
<1> HIDE DEF b
<1> QED
  BY <1>1 DEF FreshIn, b

\* ... and a write that arrives in memory was older already.
LEMMA FreshStored ==
  ASSUME NEW l, NEW m, NEW B \in Seq(TopReq), B # <<>>, NEW v, NEW n,
         n = IF Head(B).kind = "WriteReq" /\ Head(B).line = l
               THEN Head(B).data ELSE m,
         NEW d, FreshIn(l, m, B, v, d)
  PROVE  FreshIn(l, n, Tail(B), v, d)
<1> DEFINE b == Tail(B)
<1>1. \A k \in WritesTo(l, b) : k + 1 \in WritesTo(l, B) /\ b[k] = B[k + 1]
  BY WritesShifted
<1>2. \/ n = m
      \/ 1 \in WritesTo(l, B) /\ n = B[1].data
  BY HeadTailProperties, EmptySeq, LenProperties DEF WritesTo
<1> HIDE DEF b
<1> QED
  BY <1>1, <1>2 DEF FreshIn, b

\* A read in B comes after all writes to its line.
BehindIn(l, B) ==
  \A k \in DOMAIN B : B[k].kind = "ReadReq" /\ B[k].line = l =>
    \A j \in WritesTo(l, B) : j < k

\* ... which stays so: a write is never sent behind a read of its line ...
LEMMA BehindSent ==
  ASSUME NEW l, NEW B \in Seq(TopReq), BehindIn(l, B), NEW r \in TopReq,
         r.kind = "WriteReq" /\ r.line = l =>
           \A q \in ToSet(B) : ~(q.kind = "ReadReq" /\ q.line = l)
  PROVE  BehindIn(l, Append(B, r))
<1> DEFINE b == Append(B, r)
<1>1. /\ \A k \in WritesTo(l, B) : k \in 1 .. Len(B)
      /\ \A k \in WritesTo(l, b) :
           \/ k \in WritesTo(l, B) /\ b[k] = B[k]
           \/ /\ k = Len(B) + 1 /\ b[k] = r
              /\ r.kind = "WriteReq" /\ r.line = l
  BY WritesAppended
<1>2. /\ DOMAIN B = 1 .. Len(B) /\ Len(B) \in Nat
      /\ b \in Seq(TopReq) /\ Len(b) = Len(B) + 1
      /\ \A k \in 1 .. Len(B) : b[k] = B[k]
      /\ b[Len(B) + 1] = r
  BY AppendProperties, LenProperties
<1> HIDE DEF b
<1>3. DOMAIN b = 1 .. Len(B) + 1
  BY <1>2, LenProperties
<1>4. ASSUME NEW k \in DOMAIN b, b[k].kind = "ReadReq", b[k].line = l,
             NEW j \in WritesTo(l, b)
      PROVE  j < k
  <2>1. CASE k \in 1 .. Len(B)
    <3>1. b[k] = B[k] /\ B[k] \in ToSet(B) /\ k \in DOMAIN B
      BY <1>2, <2>1 DEF ToSet
    <3>2. j \in WritesTo(l, B)
      BY <1>1, <1>4, <3>1
    <3> QED
      BY <1>4, <3>1, <3>2 DEF BehindIn
  <2>2. CASE k = Len(B) + 1
    <3>1. r.kind # "WriteReq"
      BY <1>2, <1>4, <2>2
    <3>2. j \in 1 .. Len(B)
      BY <1>1, <3>1
    <3> QED
      BY <1>2, <2>2, <3>2
  <2> QED
    BY <1>2, <1>3, <2>1, <2>2
<1> QED
  BY <1>4 DEF BehindIn, b

\* ... and memory takes the head; a read it takes has no write behind it.
LEMMA BehindStored ==
  ASSUME NEW l, NEW B \in Seq(TopReq), B # <<>>, BehindIn(l, B)
  PROVE  /\ BehindIn(l, Tail(B))
         /\ Head(B).kind = "ReadReq" /\ Head(B).line = l =>
              WritesTo(l, B) = {} /\ WritesTo(l, Tail(B)) = {}
<1> DEFINE b == Tail(B)
<1>1. /\ DOMAIN B = 1 .. Len(B) /\ Len(B) \in Nat \ {0} /\ Head(B) = B[1]
      /\ b \in Seq(TopReq) /\ Len(b) = Len(B) - 1
      /\ \A k \in 1 .. Len(B) - 1 : b[k] = B[k + 1]
  BY HeadTailProperties, LenProperties, EmptySeq
<1>2. \A k \in WritesTo(l, b) : k \in Nat /\ k + 1 \in WritesTo(l, B)
  BY WritesShifted
<1> HIDE DEF b
<1>3. DOMAIN b = 1 .. Len(B) - 1
  BY <1>1, LenProperties
<1>4. ASSUME NEW k \in DOMAIN b, b[k].kind = "ReadReq", b[k].line = l,
             NEW j \in WritesTo(l, b)
      PROVE  j < k
  <2>1. k + 1 \in DOMAIN B /\ B[k + 1] = b[k] /\ k \in Nat
    BY <1>1, <1>3
  <2>2. j + 1 < k + 1
    BY <1>2, <1>4, <2>1 DEF BehindIn
  <2> QED
    BY <1>2, <2>1, <2>2
<1>5. ASSUME Head(B).kind = "ReadReq", Head(B).line = l
      PROVE  WritesTo(l, B) = {}
  <2>1. \A j \in WritesTo(l, B) : j < 1
    BY <1>1, <1>5 DEF BehindIn
  <2>2. \A j \in WritesTo(l, B) : j \in 1 .. Len(B)
    BY <1>1 DEF WritesTo
  <2> QED
    BY <1>1, <2>1, <2>2
<1>6. WritesTo(l, B) = {} => WritesTo(l, b) = {}
  BY <1>2
<1> QED
  BY <1>4, <1>5, <1>6 DEF BehindIn, b

(***************************************************************************)
(* The inductive invariant                                                 *)
(***************************************************************************)
\* The L1's MSHR has an entry for the line.
Fetching(l) == l1[l].state = "fetching"

\* The versions the victim cache stores for the line.
HeldData(l) == {blocks[i].Data : i \in Holding(l)}

\* The open requests for the line: asked, waiting for memory, answered.
ReadsAsked(l)  == Count(Asked, ReadTo(l))
WritesAsked(l) == Count(Asked, WriteTo(l))
WaitBelow(l)   == Count(pendingBottom, WaitFor(l, sent))
DataBack(l)    == Count(topOut, DataFor(l, sent))
DoneBack(l)    == Count(topOut, DoneFor(l, sent))

\* What answers on their way up carry for the line.
ComingIn(l, O, B, P, s) ==
  {m.data : m \in ToSet(O) \cap DataFor(l, s)}
    \cup
  {q.data : q \in {b \in ToSet(B) :
              /\ b.kind = "DataReadyRsp"
              /\ \E p \in ToSet(P) \cap WaitFor(l, s) :
                   p.BottomReqID = b.rspTo}}

\* ... in the present state.
Coming(l) == ComingIn(l, topOut, bottomIn, pendingBottom, sent)

\* Nobody is waiting for the line: no answer for it is on its way.
LEMMA NothingComing ==
  ASSUME NEW l, NEW s, NEW O \in Seq(TopRsp), NEW B, NEW P \in Seq(PendingBottom),
         Count(O, DataFor(l, s)) = 0, Count(P, WaitFor(l, s)) = 0
  PROVE  ComingIn(l, O, B, P, s) = {}
<1>1. \A m \in ToSet(O) : m \notin DataFor(l, s)
  BY CountTypes
<1>2. \A p \in ToSet(P) : p \notin WaitFor(l, s)
  BY CountTypes
<1> QED
  BY <1>1, <1>2 DEF ComingIn

\* The copies are in order, and nobody has more than was written.
OrderInv(l) ==
  /\ Chain(l, mem[l], Below, HeldData(l), Asked, l1[l].ver)
  /\ l1[l].ver =< latest[l]

\* The L1 counts its evictions (evicting) and has one fetch open, and never both.
OpenInv(l) ==
  /\ evicting[l] = WritesAsked(l) + DoneBack(l)
  /\ ReadsAsked(l) + WaitBelow(l) + DataBack(l) = IF Fetching(l) THEN 1 ELSE 0
  /\ Fetching(l) => evicting[l] = 0

\* What comes up is fresh; a line being fetched is no longer stored once its read
\* was taken; below, a line is read after it is written.
AnswerInv(l) ==
  /\ \A d \in Coming(l) : FreshIn(l, mem[l], Below, l1[l].ver, d)
  /\ Fetching(l) /\ ReadsAsked(l) = 0 => Holding(l) = {}
  /\ BehindIn(l, Below)

\* All of it, for one line.
LineInv(l) == OrderInv(l) /\ OpenInv(l) /\ AnswerInv(l)

\* The request asked and the one sent below are for the line of the sequence number.
LinkInv ==
  /\ \A k \in DOMAIN Asked : Asked[k].line = sent[Asked[k].id]
  /\ \A p \in Waiting, r \in Sent :
       r.id = p.BottomReqID => r.line = sent[p.OrigReqID]

\* The inductive invariant, with the victim cache's own SlotInv and LedgerInv.
HInv == LinkInv /\ \A l \in Lines : LineInv(l)

\* The types the proofs below need.
LEMMA HierarchyTypes ==
  ASSUME HTypeOK
  PROVE  /\ TypeOK
         /\ Asked \in Seq(TopReq) /\ Below \in Seq(TopReq)
         /\ lowReqs \in Seq(TopReq) /\ bottomOut \in Seq(TopReq)
         /\ pendingBottom \in Seq(PendingBottom)
         /\ topOut \in Seq(TopRsp) /\ bottomIn \in Seq(TopRsp)
         /\ issued \in Nat /\ sent \in Seq(Lines) /\ Len(sent) = issued
         /\ DOMAIN sent = 1 .. issued
         /\ \A i \in 1 .. issued : sent[i] \in Lines
<1>1. TypeOK /\ sent \in Seq(Lines) /\ Len(sent) = issued
  BY DEF HTypeOK
<1>2. Asked \in Seq(TopReq)
  BY <1>1, LedgerTypes
<1>3. /\ lowReqs \in Seq(TopReq) /\ bottomOut \in Seq(TopReq)
      /\ pendingBottom \in Seq(PendingBottom)
      /\ topOut \in Seq(TopRsp) /\ bottomIn \in Seq(TopRsp) /\ issued \in Nat
  BY <1>1 DEF TypeOK
<1>4. Below \in Seq(TopReq)
  BY <1>3, ConcatProperties DEF Below
<1>5. DOMAIN sent = 1 .. issued /\ \A i \in 1 .. issued : sent[i] \in Lines
  BY <1>1, LenProperties, ElementOfSeq
<1> QED
  BY <1>1, <1>2, <1>3, <1>4, <1>5

\* The numbers of open requests are numbers.
LEMMA CountsNat ==
  ASSUME HTypeOK
  PROVE  \A l : /\ ReadsAsked(l) \in Nat /\ WritesAsked(l) \in Nat
                /\ WaitBelow(l) \in Nat /\ DataBack(l) \in Nat
                /\ DoneBack(l) \in Nat
<1>1. /\ Asked \in Seq(TopReq) /\ pendingBottom \in Seq(PendingBottom)
      /\ topOut \in Seq(TopRsp)
  BY HierarchyTypes
<1>2. \A l : Count(Asked, ReadTo(l)) \in Nat /\ Count(Asked, WriteTo(l)) \in Nat
  BY <1>1, CountTypes
<1>3. \A l : Count(pendingBottom, WaitFor(l, sent)) \in Nat
  BY <1>1, CountTypes
<1>4. \A l : /\ Count(topOut, DataFor(l, sent)) \in Nat
             /\ Count(topOut, DoneFor(l, sent)) \in Nat
  BY <1>1, CountTypes
<1> QED
  BY <1>2, <1>3, <1>4
  DEF ReadsAsked, WritesAsked, WaitBelow, DataBack, DoneBack

\* A request, entry or answer that is there is counted.
LEMMA Members ==
  ASSUME HTypeOK, NEW l
  PROVE  /\ \A m \in ToSet(topOut) : /\ m \in DataFor(l, sent) => DataBack(l) # 0
                                     /\ m \in DoneFor(l, sent) => DoneBack(l) # 0
         /\ \A p \in ToSet(pendingBottom) :
              p \in WaitFor(l, sent) => WaitBelow(l) # 0
         /\ \A r \in ToSet(Asked) : /\ r \in ReadTo(l) => ReadsAsked(l) # 0
                                    /\ r \in WriteTo(l) => WritesAsked(l) # 0
<1>1. /\ Asked \in Seq(TopReq) /\ pendingBottom \in Seq(PendingBottom)
      /\ topOut \in Seq(TopRsp)
  BY HierarchyTypes
<1>2. \A m \in ToSet(topOut) :
        /\ m \in DataFor(l, sent) => Count(topOut, DataFor(l, sent)) # 0
        /\ m \in DoneFor(l, sent) => Count(topOut, DoneFor(l, sent)) # 0
  BY <1>1, CountTypes
<1>3. \A p \in ToSet(pendingBottom) :
        p \in WaitFor(l, sent) => Count(pendingBottom, WaitFor(l, sent)) # 0
  BY <1>1, CountTypes
<1>4. \A r \in ToSet(Asked) : /\ r \in ReadTo(l) => Count(Asked, ReadTo(l)) # 0
                              /\ r \in WriteTo(l) => Count(Asked, WriteTo(l)) # 0
  BY <1>1, CountTypes
<1> QED
  BY <1>2, <1>3, <1>4
  DEF ReadsAsked, WritesAsked, WaitBelow, DataBack, DoneBack

\* What the numbers of open requests say.
LEMMA Opened ==
  ASSUME HTypeOK, NEW l \in Lines, LineInv(l)
  PROVE  /\ ~Fetching(l) => /\ ReadsAsked(l) = 0 /\ WaitBelow(l) = 0
                            /\ DataBack(l) = 0 /\ Coming(l) = {}
         /\ WaitBelow(l) # 0 \/ DataBack(l) # 0 =>
              /\ Fetching(l) /\ evicting[l] = 0 /\ ReadsAsked(l) = 0
              /\ WritesAsked(l) = 0 /\ Holding(l) = {}
              /\ WaitBelow(l) + DataBack(l) = 1
         /\ WritesAsked(l) # 0 \/ DoneBack(l) # 0 => ~Fetching(l)
         /\ Coming(l) # {} => WaitBelow(l) # 0 \/ DataBack(l) # 0
         /\ WritesAsked(l) = 0 => WritesTo(l, Asked) = {}
<1>1. /\ ReadsAsked(l) \in Nat /\ WritesAsked(l) \in Nat
      /\ WaitBelow(l) \in Nat /\ DataBack(l) \in Nat /\ DoneBack(l) \in Nat
  BY CountsNat
<1>2. /\ evicting[l] = WritesAsked(l) + DoneBack(l)
      /\ Fetching(l) => ReadsAsked(l) + WaitBelow(l) + DataBack(l) = 1
      /\ ~Fetching(l) => ReadsAsked(l) + WaitBelow(l) + DataBack(l) = 0
      /\ Fetching(l) => evicting[l] = 0
      /\ Fetching(l) /\ ReadsAsked(l) = 0 => Holding(l) = {}
  BY DEF LineInv, OpenInv, AnswerInv
<1>3. Coming(l) # {} => WaitBelow(l) # 0 \/ DataBack(l) # 0
  BY Members DEF Coming, ComingIn
<1>4. ~Fetching(l) => ReadsAsked(l) = 0 /\ WaitBelow(l) = 0 /\ DataBack(l) = 0
  BY <1>1, <1>2
<1>5. WaitBelow(l) # 0 \/ DataBack(l) # 0 =>
        /\ Fetching(l) /\ evicting[l] = 0 /\ ReadsAsked(l) = 0
        /\ WritesAsked(l) = 0 /\ WaitBelow(l) + DataBack(l) = 1
  BY <1>1, <1>2
<1>6. WritesAsked(l) # 0 \/ DoneBack(l) # 0 => ~Fetching(l)
  BY <1>1, <1>2
<1>7. ASSUME WritesAsked(l) = 0 PROVE WritesTo(l, Asked) = {}
  <2> SUFFICES ASSUME NEW k \in WritesTo(l, Asked) PROVE FALSE
    OBVIOUS
  <2>1. Asked \in Seq(TopReq)
    BY HierarchyTypes
  <2>2. k \in DOMAIN Asked /\ Asked[k].kind = "WriteReq" /\ Asked[k].line = l
    BY DEF WritesTo
  <2>3. Asked[k] \in TopReq /\ Asked[k] \in ToSet(Asked)
    BY <2>1, <2>2, ElementOfSeq, LenProperties DEF ToSet
  <2>4. Asked[k] \in WriteTo(l)
    BY <2>2, <2>3 DEF WriteTo
  <2> QED
    BY <1>7, <2>3, <2>4, Members
<1> QED
  BY <1>2, <1>3, <1>4, <1>5, <1>6, <1>7

\* What Below holds is what LedgerInv calls Sent.
LEMMA SentIsBelow ==
  ASSUME HTypeOK
  PROVE  ToSet(Below) = Sent
<1>1. lowReqs \in Seq(TopReq) /\ bottomOut \in Seq(TopReq)
  BY HierarchyTypes
<1> DEFINE s == lowReqs
           t == bottomOut
           u == s \o t
<1>2. /\ DOMAIN s = 1 .. Len(s) /\ DOMAIN t = 1 .. Len(t)
      /\ Len(s) \in Nat /\ Len(t) \in Nat
      /\ u \in Seq(TopReq) /\ Len(u) = Len(s) + Len(t)
      /\ \A i \in 1 .. Len(s) + Len(t) :
           u[i] = IF i <= Len(s) THEN s[i] ELSE t[i - Len(s)]
  BY <1>1, ConcatProperties, LenProperties
<1> HIDE DEF u
<1>3. DOMAIN u = 1 .. Len(s) + Len(t)
  BY <1>2, LenProperties
<1>4. ASSUME NEW i \in DOMAIN u
      PROVE  \/ \E j \in DOMAIN s : u[i] = s[j]
             \/ \E j \in DOMAIN t : u[i] = t[j]
  <2>1. CASE i <= Len(s)
    BY <1>2, <1>3, <2>1
  <2>2. CASE i > Len(s)
    <3>1. i - Len(s) \in 1 .. Len(t) /\ u[i] = t[i - Len(s)]
      BY <1>2, <1>3, <2>2
    <3> QED
      BY <1>2, <3>1
  <2> QED
    BY <1>2, <1>3, <2>1, <2>2
<1>5. ASSUME NEW j \in DOMAIN s PROVE \E i \in DOMAIN u : u[i] = s[j]
  BY <1>2, <1>3
<1>6. ASSUME NEW j \in DOMAIN t PROVE \E i \in DOMAIN u : u[i] = t[j]
  <2>1. Len(s) + j \in DOMAIN u /\ u[Len(s) + j] = t[(Len(s) + j) - Len(s)]
    BY <1>2, <1>3
  <2>2. (Len(s) + j) - Len(s) = j
    BY <1>2
  <2> QED
    BY <2>1, <2>2
<1>7. ToSet(u) = ToSet(s) \cup ToSet(t)
  BY <1>4, <1>5, <1>6 DEF ToSet
<1> QED
  BY <1>7 DEF u, Below, Sent

\* A fetch that is on its way to memory is waited for.
LEMMA ReadBelowWaits ==
  ASSUME HTypeOK, LowInv, LinkInv, NEW r \in Sent, r.kind = "ReadReq"
  PROVE  \E p \in ToSet(pendingBottom) : /\ p.BottomReqID = r.id
                                         /\ p \in WaitFor(r.line, sent)
<1>1. PICK p \in ToSet(pendingBottom) : /\ p.BottomReqID = r.id
                                        /\ p.IsEviction <=> r.kind = "WriteReq"
  BY DEF LowInv, Ledger
<1>2. p \in PendingBottom
  BY HierarchyTypes, LedgerTypes
<1>3. ~p.IsEviction
  BY <1>1
<1>4. sent[p.OrigReqID] = r.line
  BY <1>1, <1>3 DEF LinkInv, Waiting
<1> QED
  BY <1>1, <1>2, <1>3, <1>4 DEF WaitFor

\* The requests the L1 has not heard of yet were sent for some line.
LEMMA Issued ==
  ASSUME HTypeOK, UpInv
  PROVE  /\ \A m \in ToSet(topOut) : m.rspTo \in 1 .. issued
         /\ \A p \in Waiting : p.OrigReqID \in 1 .. issued
         /\ \A k \in DOMAIN Asked : Asked[k].id \in 1 .. issued
<1>1. /\ issued \in Nat /\ Len(Asked) \in Nat /\ Len(Asked) =< issued
      /\ DOMAIN Asked = 1 .. Len(Asked)
      /\ issued - Len(Asked) \in Nat /\ issued - Len(Asked) =< issued
  BY HierarchyTypes, LedgerTypes, LenProperties DEF UpInv
<1>2. /\ \A m \in ToSet(topOut) : m.rspTo \in 1 .. issued - Len(Asked)
      /\ \A p \in Waiting : p.OrigReqID \in 1 .. issued - Len(Asked)
  BY DEF UpInv, Served
<1>3. ASSUME NEW k \in DOMAIN Asked PROVE Asked[k].id \in 1 .. issued
  BY <1>1 DEF UpInv
<1> QED
  BY <1>1, <1>2, <1>3

(***************************************************************************)
(* What steps leave alone, and the types                                   *)
(***************************************************************************)
\* Every step of the hierarchy is a step of the victim cache, or none.
LEMMA HStepIsStep == HTypeOK /\ [HNext]_allVars => [Next]_vars
<1> SUFFICES ASSUME HTypeOK, [HNext]_allVars PROVE [Next]_vars
  OBVIOUS
<1>1. ASSUME NEW l \in Lines, L1Fetch(l) PROVE Next
  BY <1>1 DEF L1Fetch, Next, Environment
<1>2. ASSUME NEW l \in Lines, L1Refetch(l) \/ L1Write(l) \/ L1Drop(l)
      PROVE  UNCHANGED vars
  BY <1>2 DEF L1Refetch, L1Write, L1Drop
<1>3. ASSUME NEW l \in Lines, L1Evict(l) PROVE Next
  <2>1. l1[l].ver \in Data
    BY DEF HTypeOK
  <2> QED
    BY <1>3, <2>1 DEF L1Evict, Next, Environment
<1>4. ASSUME L1Receive PROVE Next
  BY <1>4 DEF L1Receive, Next, Environment
<1>5. ASSUME MemRespond PROVE Next
  <2>1. 1 \in DOMAIN lowReqs /\ BottomDeliver(1, mem[Head(lowReqs).line])
    BY <1>5 DEF MemRespond, BottomDeliver
  <2>2. Head(lowReqs) \in TopReq
    BY <1>5, HierarchyTypes, HeadTailProperties DEF MemRespond
  <2>3. mem[Head(lowReqs).line] \in Data
    BY <2>2 DEF HTypeOK, TopReq
  <2> QED
    BY <2>1, <2>3 DEF Next, Environment
<1>6. ASSUME VictimCacheStep PROVE Next
  BY <1>6 DEF VictimCacheStep, Next, Environment
<1>7. ASSUME UNCHANGED allVars PROVE UNCHANGED vars
  BY <1>7 DEF allVars
<1> QED
  BY <1>1, <1>2, <1>3, <1>4, <1>5, <1>6, <1>7 DEF HNext, L1

\* Every step keeps the types; evicting stays a number because an acknowledgement
\* answers an eviction that was counted.
LEMMA HTypeStep ==
  HTypeOK /\ UpInv /\ HInv /\ [HNext]_allVars => HTypeOK'
<1> SUFFICES ASSUME HTypeOK, UpInv, HInv, [HNext]_allVars PROVE HTypeOK'
  OBVIOUS
<1> USE DEF client
<1>1. TypeOK'
  BY HStepIsStep, TypeStep DEF HTypeOK
<1>2. /\ mem \in [Lines -> Data] /\ latest \in [Lines -> Data]
      /\ l1 \in [Lines -> [state : {"absent", "fetching", "clean", "dirty"},
                           ver : Data]]
      /\ evicting \in [Lines -> Nat]
      /\ sent \in Seq(Lines) /\ Len(sent) = issued
  BY DEF HTypeOK
<1> DEFINE OuterOK == /\ mem \in [Lines -> Data] /\ latest \in [Lines -> Data]
                      /\ l1 \in [Lines ->
                           [state : {"absent", "fetching", "clean", "dirty"},
                            ver : Data]]
                      /\ evicting \in [Lines -> Nat]
                      /\ sent \in Seq(Lines) /\ Len(sent) = issued
<1>3. ASSUME NEW l \in Lines, L1Fetch(l) PROVE OuterOK'
  <2>1. sent' \in Seq(Lines) /\ Len(sent') = issued'
    BY <1>2, <1>3, AppendProperties DEF L1Fetch, TopDeliver
  <2> QED
    BY <1>2, <1>3, <2>1 DEF L1Fetch
<1>4. ASSUME NEW l \in Lines, L1Refetch(l) PROVE OuterOK'
  BY <1>2, <1>4 DEF L1Refetch, vars, outside
<1>5. ASSUME NEW l \in Lines, L1Write(l) PROVE OuterOK'
  <2>1. latest[l] + 1 \in Data
    BY <1>2, <1>5, VersionAssumption DEF L1Write
  <2> QED
    BY <1>2, <1>5, <2>1 DEF L1Write, vars, outside
<1>6. ASSUME NEW l \in Lines, L1Evict(l) PROVE OuterOK'
  <2>1. sent' \in Seq(Lines) /\ Len(sent') = issued'
    BY <1>2, <1>6, AppendProperties DEF L1Evict, TopDeliver
  <2> QED
    BY <1>2, <1>6, <2>1, SMTT(30) DEF L1Evict
<1>7. ASSUME NEW l \in Lines, L1Drop(l) PROVE OuterOK'
  BY <1>2, <1>7 DEF L1Drop, vars, outside
<1>8. ASSUME L1Receive PROVE OuterOK'
  <2> DEFINE m == Head(topOut)
             l == sent[m.rspTo]
  <2>1. topOut # <<>> /\ UNCHANGED <<issued, mem, sent, latest>>
    BY <1>8 DEF L1Receive, TopCollect
  <2>2. m \in TopRsp /\ m \in ToSet(topOut)
    BY <2>1, HierarchyTypes, HeadTailProperties, LenProperties, EmptySeq
    DEF ToSet
  <2>3. l \in Lines
    BY <2>2, Issued, HierarchyTypes
  <2>4. CASE m.kind = "DataReadyRsp"
    <3>1. m.data \in Data
      BY <2>2, <2>4 DEF TopRsp
    <3>2. /\ l1' = [l1 EXCEPT ![l] = [state |-> "clean", ver |-> m.data]]
          /\ evicting' = evicting
      BY <1>8, <2>4 DEF L1Receive
    <3> HIDE DEF l, m
    <3>3. l1' \in [Lines -> [state : {"absent", "fetching", "clean", "dirty"},
                             ver : Data]]
      BY <1>2, <3>1, <3>2
    <3> QED
      BY <1>2, <2>1, <3>2, <3>3
  <2>5. CASE m.kind # "DataReadyRsp"
    <3>1. /\ evicting' = [evicting EXCEPT ![l] = @ - 1] /\ l1' = l1
      BY <1>8, <2>5 DEF L1Receive
    <3>2. m.kind = "WriteDoneRsp"
      BY <2>2, <2>5 DEF TopRsp
    <3>3. DoneBack(l) # 0
      BY <2>2, <3>2, Members DEF DoneFor
    <3>4. evicting[l] = WritesAsked(l) + DoneBack(l)
      BY <2>3 DEF HInv, LineInv, OpenInv
    <3>5. WritesAsked(l) \in Nat /\ DoneBack(l) \in Nat
      BY CountsNat
    <3> HIDE DEF l, m
    <3>6. evicting[l] - 1 \in Nat
      BY <3>3, <3>4, <3>5
    <3>7. evicting' \in [Lines -> Nat]
      BY <1>2, <3>1, <3>6
    <3> QED
      BY <1>2, <2>1, <3>1, <3>7
  <2> QED
    BY <2>4, <2>5
<1>9. ASSUME MemRespond PROVE OuterOK'
  <2>1. Head(lowReqs) \in TopReq
    BY <1>9, HierarchyTypes, HeadTailProperties DEF MemRespond
  <2>2. Head(lowReqs).kind = "WriteReq" => Head(lowReqs).data \in Data
    BY <2>1 DEF TopReq
  <2>3. mem' \in [Lines -> Data]
    BY <1>2, <1>9, <2>2 DEF MemRespond
  <2>4. issued' = issued
    BY <1>9 DEF MemRespond, BottomDeliver
  <2> QED
    BY <1>2, <1>9, <2>3, <2>4 DEF MemRespond
<1>10. ASSUME VictimCacheStep PROVE OuterOK'
  <2>1. issued' = issued
    <3>1. CASE ProcessBottomResponse
      BY <3>1 DEF ProcessBottomResponse, CompleteBottomRead,
                  CompleteBottomWrite, NoBottomResponse, outside
    <3>2. CASE ProcessHeadTransaction
      BY <3>2 DEF ProcessHeadTransaction, ReadHit, ReadMiss, SendReadBelow,
                  WriteResident, WriteEmpty, WriteFull, WriteStalled,
                  NothingHandled, PutAndAck, outside
    <3>3. CASE Tick \/ CountDown \/ ReceiveTopRequest
      BY <3>3 DEF Tick, CountDown, ReceiveTopRequest, outside
    <3>4. CASE BottomCollect \/ NotifyAvailable
      BY <3>4 DEF BottomCollect, NotifyAvailable, outside
    <3> QED
      BY <1>10, <3>1, <3>2, <3>3, <3>4 DEF VictimCacheStep, Component
  <2> QED
    BY <1>2, <1>10, <2>1 DEF VictimCacheStep
<1>11. ASSUME UNCHANGED allVars PROVE OuterOK'
  BY <1>2, <1>11 DEF allVars, vars, outside
<1>12. OuterOK'
  BY <1>3, <1>4, <1>5, <1>6, <1>7, <1>8, <1>9, <1>10, <1>11 DEF HNext, L1
<1> QED
  BY <1>1, <1>12 DEF HTypeOK

\* A line no step has to do with.
LEMMA LineUntouched ==
  ASSUME NEW l \in Lines, LineInv(l), Asked' = Asked, Below' = Below,
         HeldData(l)' = HeldData(l), Holding(l) = {} => Holding(l)' = {},
         mem'[l] = mem[l], l1'[l].ver = l1[l].ver,
         Fetching(l)' <=> Fetching(l), evicting'[l] = evicting[l],
         latest'[l] = latest[l], DoneBack(l)' = DoneBack(l),
         WaitBelow(l)' + DataBack(l)' = WaitBelow(l) + DataBack(l),
         ReadsAsked(l) \in Nat, WaitBelow(l) \in Nat, DataBack(l) \in Nat,
         WaitBelow(l)' \in Nat, DataBack(l)' \in Nat,
         Coming(l)' \subseteq Coming(l)
  PROVE  LineInv(l)'
<1>1. ReadsAsked(l)' = ReadsAsked(l) /\ WritesAsked(l)' = WritesAsked(l)
  BY DEF ReadsAsked, WritesAsked
<1>2. OrderInv(l)'
  BY DEF LineInv, OrderInv
<1>3. OpenInv(l)'
  <2>1. ReadsAsked(l)' + WaitBelow(l)' + DataBack(l)' =
          ReadsAsked(l) + WaitBelow(l) + DataBack(l)
    BY <1>1
  <2> QED
    BY <1>1, <2>1 DEF LineInv, OpenInv
<1>4. AnswerInv(l)'
  BY <1>1 DEF LineInv, AnswerInv
<1> QED
  BY <1>2, <1>3, <1>4 DEF LineInv

\* A step that moves no request, no answer and no copy.
LEMMA HierarchyQuiet ==
  ASSUME HTypeOK, HInv, Asked' = Asked, Below' = Below, Sent' = Sent,
         UNCHANGED <<blocks, pendingBottom, topOut, bottomIn>>,
         UNCHANGED <<mem, evicting, sent, latest>>,
         \A l \in Lines : /\ l1'[l].ver = l1[l].ver
                          /\ Fetching(l)' <=> Fetching(l)
  PROVE  HInv'
<1>1. LinkInv'
  BY DEF HInv, LinkInv, Waiting
<1>2. ASSUME NEW l \in Lines PROVE LineInv(l)'
  <2>1. /\ Holding(l)' = Holding(l) /\ HeldData(l)' = HeldData(l)
        /\ DoneBack(l)' = DoneBack(l) /\ DataBack(l)' = DataBack(l)
        /\ WaitBelow(l)' = WaitBelow(l) /\ Coming(l)' = Coming(l)
    BY DEF Holding, HeldData, DoneBack, DataBack, WaitBelow, Coming
  <2>2. LineInv(l) /\ ReadsAsked(l) \in Nat /\ WaitBelow(l) \in Nat
          /\ DataBack(l) \in Nat
    BY CountsNat DEF HInv
  <2> QED
    BY <2>1, <2>2, LineUntouched
<1> QED
  BY <1>1, <1>2 DEF HInv

(***************************************************************************)
(* The steps of the L1                                                     *)
(***************************************************************************)
\* The L1 may write what it holds: all copies below stay older.
LEMMA ChainRaised ==
  ASSUME NEW l, NEW m \in Int, NEW B \in Seq(TopReq), NEW H \in SUBSET Int,
         NEW A \in Seq(TopReq), NEW v \in Int, NEW w \in Int, v =< w,
         Chain(l, m, B, H, A, v)
  PROVE  Chain(l, m, B, H, A, w)
<1>1. /\ \A k \in WritesTo(l, B) : B[k].data \in Int
      /\ \A k \in WritesTo(l, A) : A[k].data \in Int
  <2>1. \A q \in Seq(TopReq) : \A k \in DOMAIN q : q[k] \in TopReq
    BY ElementOfSeq, LenProperties
  <2>2. \A r \in TopReq : r.kind = "WriteReq" => r.data \in Int
    BY VersionAssumption DEF TopReq
  <2> QED
    BY <2>1, <2>2 DEF WritesTo
<1>2. /\ m =< w
      /\ \A k \in WritesTo(l, B) : B[k].data =< w
      /\ \A x \in H : x =< w
      /\ \A k \in WritesTo(l, A) : A[k].data =< w
  BY <1>1 DEF Chain
<1> QED
  BY <1>2 DEF Chain

\* Versions are numbers.
LEMMA CopiesTyped ==
  ASSUME HTypeOK, NEW l \in Lines
  PROVE  /\ mem[l] \in Nat /\ l1[l].ver \in Nat /\ latest[l] \in Nat
         /\ HeldData(l) \in SUBSET Nat
         /\ l1[l].state \in {"absent", "fetching", "clean", "dirty"}
<1>1. Data \in SUBSET Nat
  BY VersionAssumption
<1>2. mem[l] \in Data /\ l1[l].ver \in Data /\ latest[l] \in Data
        /\ l1[l].state \in {"absent", "fetching", "clean", "dirty"}
  BY DEF HTypeOK
<1>3. \A i \in Slots : blocks[i].Data \in Data
  BY DEF HTypeOK, TypeOK, Block
<1>4. HeldData(l) \in SUBSET Data
  BY <1>3 DEF HeldData, Holding
<1> QED
  BY <1>1, <1>2, <1>4

\* The L1 writes a line it holds: every copy below stays older.
LEMMA HierarchyWrite ==
  ASSUME HTypeOK, HInv, NEW x \in Lines, L1Write(x)
  PROVE  HInv'
<1>1. /\ UNCHANGED vars /\ UNCHANGED <<mem, evicting, sent>>
      /\ Holds(x)
      /\ l1' = [l1 EXCEPT ![x] = [state |-> "dirty", ver |-> latest[x] + 1]]
      /\ latest' = [latest EXCEPT ![x] = @ + 1]
  BY DEF L1Write
<1>2. /\ UNCHANGED <<blocks, topTransactions, topIn, pendingBottom, topOut,
                     bottomIn, bottomOut, lowReqs>>
  BY <1>1 DEF vars, store, topPort, lowPort, outside
<1>3. Asked' = Asked /\ Below' = Below /\ Sent' = Sent
  BY <1>2 DEF Asked, Below, Sent
<1>4. LinkInv'
  BY <1>1, <1>2, <1>3 DEF HInv, LinkInv, Waiting
<1>5. ASSUME NEW l \in Lines
      PROVE  /\ Holding(l)' = Holding(l) /\ HeldData(l)' = HeldData(l)
             /\ DoneBack(l)' = DoneBack(l) /\ DataBack(l)' = DataBack(l)
             /\ WaitBelow(l)' = WaitBelow(l) /\ Coming(l)' = Coming(l)
             /\ ReadsAsked(l)' = ReadsAsked(l)
             /\ WritesAsked(l)' = WritesAsked(l)
             /\ LineInv(l)
             /\ ReadsAsked(l) \in Nat /\ WaitBelow(l) \in Nat
             /\ DataBack(l) \in Nat
  <2>1. LineInv(l) /\ ReadsAsked(l) \in Nat /\ WaitBelow(l) \in Nat
          /\ DataBack(l) \in Nat
    BY CountsNat DEF HInv
  <2> QED
    BY <1>1, <1>2, <1>3, <2>1
    DEF Holding, HeldData, DoneBack, DataBack, WaitBelow, Coming, ReadsAsked,
        WritesAsked
<1>6. ASSUME NEW l \in Lines, l # x PROVE LineInv(l)'
  <2>1. /\ l1'[l] = l1[l] /\ latest'[l] = latest[l]
    BY <1>1, <1>6 DEF HTypeOK
  <2>2. /\ l1'[l].ver = l1[l].ver /\ Fetching(l)' <=> Fetching(l)
    BY <2>1 DEF Fetching
  <2> QED
    BY <1>1, <1>3, <1>5, <2>1, <2>2, LineUntouched
<1>7. LineInv(x)'
  <2>1. /\ l1'[x] = [state |-> "dirty", ver |-> latest[x] + 1]
        /\ latest'[x] = latest[x] + 1
    BY <1>1 DEF HTypeOK
  <2>2. ~Fetching(x) /\ ~Fetching(x)' /\ Coming(x)' = {}
    <3>1. ~Fetching(x)
      BY <1>1 DEF Holds, Fetching
    <3>2. Coming(x) = {}
      BY <1>5, <3>1, Opened
    <3> QED
      BY <1>5, <2>1, <3>1, <3>2 DEF Fetching
  <2>3. /\ Chain(x, mem[x], Below, HeldData(x), Asked, l1[x].ver)
        /\ l1[x].ver =< latest[x]
    BY <1>5 DEF LineInv, OrderInv
  <2>4. /\ mem[x] \in Nat /\ l1[x].ver \in Nat /\ latest[x] \in Nat
        /\ HeldData(x) \in SUBSET Nat
    BY CopiesTyped
  <2>5. Chain(x, mem[x], Below, HeldData(x), Asked, latest[x] + 1)
    <3>1. /\ mem[x] \in Int /\ l1[x].ver \in Int /\ latest[x] + 1 \in Int
          /\ HeldData(x) \in SUBSET Int /\ l1[x].ver =< latest[x] + 1
      BY <2>3, <2>4
    <3>2. Asked \in Seq(TopReq) /\ Below \in Seq(TopReq)
      BY HierarchyTypes
    <3> QED
      BY <2>3, <3>1, <3>2, ChainRaised
  <2>6. OrderInv(x)'
    <3>1. l1'[x].ver = latest[x] + 1 /\ l1'[x].ver =< latest'[x]
      BY <2>1, <2>4
    <3> QED
      BY <1>1, <1>3, <1>5, <2>5, <3>1 DEF OrderInv
  <2>7. OpenInv(x)'
    BY <1>1, <1>5, <2>2 DEF LineInv, OpenInv
  <2>8. AnswerInv(x)'
    BY <1>3, <1>5, <2>2 DEF LineInv, AnswerInv
  <2> QED
    BY <2>6, <2>7, <2>8 DEF LineInv
<1> QED
  BY <1>4, <1>6, <1>7 DEF HInv

\* Sequence numbers that were given out keep their line.
LEMMA LinesKept ==
  ASSUME HTypeOK, LedgerInv, NEW x \in Lines, sent' = Append(sent, x),
         UNCHANGED <<topOut, pendingBottom, bottomIn>>
  PROVE  /\ sent'[issued + 1] = x
         /\ \A i \in 1 .. issued : sent'[i] = sent[i]
         /\ \A l : /\ DoneBack(l)' = DoneBack(l) /\ DataBack(l)' = DataBack(l)
                   /\ WaitBelow(l)' = WaitBelow(l) /\ Coming(l)' = Coming(l)
<1>1. /\ sent'[issued + 1] = x
      /\ \A i \in 1 .. issued : sent'[i] = sent[i]
  BY HierarchyTypes, AppendProperties
<1>2. /\ \A m \in ToSet(topOut) : m.rspTo \in 1 .. issued
      /\ \A p \in Waiting : p.OrigReqID \in 1 .. issued
  BY Issued DEF LedgerInv
<1>3. ASSUME NEW l
      PROVE  /\ \A m \in ToSet(topOut) :
                  /\ m \in DoneFor(l, sent') <=> m \in DoneFor(l, sent)
                  /\ m \in DataFor(l, sent') <=> m \in DataFor(l, sent)
             /\ \A p \in ToSet(pendingBottom) :
                  p \in WaitFor(l, sent') <=> p \in WaitFor(l, sent)
  BY <1>1, <1>2 DEF DoneFor, DataFor, WaitFor, Waiting
<1>4. topOut \in Seq(TopRsp) /\ pendingBottom \in Seq(PendingBottom)
  BY HierarchyTypes
<1>5. ASSUME NEW l
      PROVE  /\ DoneBack(l)' = DoneBack(l) /\ DataBack(l)' = DataBack(l)
             /\ WaitBelow(l)' = WaitBelow(l) /\ Coming(l)' = Coming(l)
  <2>1. Count(topOut, DoneFor(l, sent')) = Count(topOut, DoneFor(l, sent))
    BY <1>3, <1>4, CountSame
  <2>2. Count(topOut, DataFor(l, sent')) = Count(topOut, DataFor(l, sent))
    BY <1>3, <1>4, CountSame
  <2>3. Count(pendingBottom, WaitFor(l, sent')) =
          Count(pendingBottom, WaitFor(l, sent))
    BY <1>3, <1>4, CountSame
  <2>4. /\ ToSet(topOut) \cap DataFor(l, sent') = ToSet(topOut) \cap DataFor(l, sent)
        /\ ToSet(pendingBottom) \cap WaitFor(l, sent')
             = ToSet(pendingBottom) \cap WaitFor(l, sent)
    BY <1>3
  <2>5. Coming(l)' = Coming(l)
    BY <2>4 DEF Coming, ComingIn
  <2> QED
    BY <2>1, <2>2, <2>3, <2>5 DEF DoneBack, DataBack, WaitBelow
<1> QED
  BY <1>1, <1>5

\* The L1 sends a request for the line x.
LEMMA LineAsked ==
  ASSUME HTypeOK, LedgerInv, HInv, NEW kind, NEW x \in Lines, NEW d,
         TopDeliver(kind, x, d), sent' = Append(sent, x),
         NEW r, r = [kind |-> kind, id |-> issued + 1, line |-> x, data |-> d],
         r \in TopReq
  PROVE  /\ LinkInv'
         /\ Asked' = Append(Asked, r) /\ Below' = Below
         /\ \A l \in Lines :
              /\ Holding(l)' = Holding(l) /\ HeldData(l)' = HeldData(l)
              /\ DoneBack(l)' = DoneBack(l) /\ DataBack(l)' = DataBack(l)
              /\ WaitBelow(l)' = WaitBelow(l) /\ Coming(l)' = Coming(l)
              /\ ReadsAsked(l)' =
                   ReadsAsked(l) + (IF kind = "ReadReq" /\ l = x THEN 1 ELSE 0)
              /\ WritesAsked(l)' =
                   WritesAsked(l) + (IF kind = "WriteReq" /\ l = x THEN 1 ELSE 0)
<1>1. /\ topIn' = Append(topIn, r)
      /\ UNCHANGED <<blocks, topTransactions, pendingBottom, topOut, bottomIn,
                     bottomOut, lowReqs>>
  BY DEF TopDeliver, Between, store, lowPort
<1>2. Asked' = Append(Asked, r)
  <2>1. topTransactions \in Seq(Transaction) /\ topIn \in Seq(TopReq)
    BY HierarchyTypes DEF TypeOK
  <2>2. Asked' = AskedOf(topTransactions, Append(topIn, r))
    BY <1>1 DEF Asked, AskedOf
  <2> QED
    BY <2>1, <2>2, AskedAppend, AskedIs
<1>3. Below' = Below /\ Sent' = Sent /\ Waiting' = Waiting
  BY <1>1 DEF Below, Sent, Waiting
<1>4. /\ sent'[issued + 1] = x
      /\ \A i \in 1 .. issued : sent'[i] = sent[i]
      /\ \A l : /\ DoneBack(l)' = DoneBack(l) /\ DataBack(l)' = DataBack(l)
                /\ WaitBelow(l)' = WaitBelow(l) /\ Coming(l)' = Coming(l)
  BY <1>1, LinesKept
<1>5. LinkInv'
  <2>1. /\ \A p \in Waiting : p.OrigReqID \in 1 .. issued
        /\ \A k \in DOMAIN Asked : Asked[k].id \in 1 .. issued
    BY Issued DEF LedgerInv
  <2>2. /\ \A k \in DOMAIN Asked : Asked[k].line = sent[Asked[k].id]
        /\ \A p \in Waiting, q \in Sent :
             q.id = p.BottomReqID => q.line = sent[p.OrigReqID]
    BY DEF HInv, LinkInv
  <2> DEFINE a == Append(Asked, r)
  <2>3. /\ DOMAIN a = 1 .. Len(Asked) + 1 /\ DOMAIN Asked = 1 .. Len(Asked)
        /\ Len(Asked) \in Nat
        /\ \A k \in 1 .. Len(Asked) : a[k] = Asked[k]
        /\ a[Len(Asked) + 1] = r
    BY HierarchyTypes, AppendProperties, LenProperties
  <2> HIDE DEF a
  <2>4. ASSUME NEW k \in DOMAIN a PROVE a[k].line = sent'[a[k].id]
    <3>1. CASE k \in 1 .. Len(Asked)
      <4>1. a[k] = Asked[k] /\ k \in DOMAIN Asked
        BY <2>3, <3>1
      <4>2. sent'[Asked[k].id] = sent[Asked[k].id]
        BY <1>4, <2>1, <4>1
      <4> QED
        BY <2>2, <4>1, <4>2
    <3>2. CASE k = Len(Asked) + 1
      <4>1. a[k] = r
        BY <2>3, <3>2
      <4>2. r.line = x /\ r.id = issued + 1
        OBVIOUS
      <4> QED
        BY <1>4, <4>1, <4>2
    <3>3. k \in 1 .. Len(Asked) \/ k = Len(Asked) + 1
      BY <2>3
    <3> QED
      BY <3>1, <3>2, <3>3
  <2>5. \A p \in Waiting, q \in Sent :
          q.id = p.BottomReqID => q.line = sent'[p.OrigReqID]
    BY <1>4, <2>1, <2>2
  <2> QED
    BY <1>2, <1>3, <2>4, <2>5 DEF LinkInv, a
<1>6. ASSUME NEW l \in Lines
      PROVE  /\ Holding(l)' = Holding(l) /\ HeldData(l)' = HeldData(l)
             /\ ReadsAsked(l)' =
                  ReadsAsked(l) + (IF kind = "ReadReq" /\ l = x THEN 1 ELSE 0)
             /\ WritesAsked(l)' =
                  WritesAsked(l) + (IF kind = "WriteReq" /\ l = x THEN 1 ELSE 0)
  <2>1. Asked \in Seq(TopReq)
    BY HierarchyTypes
  <2>2. /\ Count(Append(Asked, r), ReadTo(l)) =
             Count(Asked, ReadTo(l)) + (IF r \in ReadTo(l) THEN 1 ELSE 0)
        /\ Count(Append(Asked, r), WriteTo(l)) =
             Count(Asked, WriteTo(l)) + (IF r \in WriteTo(l) THEN 1 ELSE 0)
    BY <2>1, CountTypes
  <2>3. /\ r \in ReadTo(l) <=> kind = "ReadReq" /\ l = x
        /\ r \in WriteTo(l) <=> kind = "WriteReq" /\ l = x
    BY DEF ReadTo, WriteTo
  <2> QED
    BY <1>1, <1>2, <2>2, <2>3 DEF Holding, HeldData, ReadsAsked, WritesAsked
<1> QED
  BY <1>2, <1>3, <1>4, <1>5, <1>6

\* The lines the request is not for.
LEMMA LineElsewhere ==
  ASSUME NEW l \in Lines, LineInv(l), NEW r \in TopReq, Asked \in Seq(TopReq),
         Asked' = Append(Asked, r), r.line # l, Below' = Below,
         Holding(l)' = Holding(l), HeldData(l)' = HeldData(l),
         DoneBack(l)' = DoneBack(l), DataBack(l)' = DataBack(l),
         WaitBelow(l)' = WaitBelow(l), Coming(l)' = Coming(l),
         ReadsAsked(l)' = ReadsAsked(l), WritesAsked(l)' = WritesAsked(l),
         mem'[l] = mem[l], l1'[l] = l1[l], evicting'[l] = evicting[l],
         latest'[l] = latest[l], l1[l].ver \in Nat
  PROVE  LineInv(l)'
<1>1. Chain(l, mem[l], Below, HeldData(l), Append(Asked, r), l1[l].ver)
  BY ChainAsked DEF LineInv, OrderInv
<1>2. OrderInv(l)'
  BY <1>1 DEF LineInv, OrderInv
<1>3. OpenInv(l)'
  BY DEF LineInv, OpenInv, Fetching
<1>4. AnswerInv(l)'
  BY DEF LineInv, AnswerInv, Fetching
<1> QED
  BY <1>2, <1>3, <1>4 DEF LineInv

\* The L1 asks for a line it does not have (MSHR entry, no eviction open).
LEMMA HierarchyFetch ==
  ASSUME HTypeOK, LedgerInv, HInv, NEW x \in Lines, L1Fetch(x)
  PROVE  HInv'
<1> DEFINE r == [kind |-> "ReadReq", id |-> issued + 1, line |-> x,
                 data |-> NoData]
<1>1. /\ l1[x].state = "absent" /\ evicting[x] = 0
      /\ TopDeliver("ReadReq", x, NoData)
      /\ l1' = [l1 EXCEPT ![x].state = "fetching"]
      /\ sent' = Append(sent, x)
      /\ UNCHANGED <<mem, evicting, latest>>
  BY DEF L1Fetch
<1>2. r \in TopReq
  BY HierarchyTypes DEF TopReq
<1>3. r.line = x /\ r.kind = "ReadReq"
  OBVIOUS
<1>4. /\ LinkInv'
      /\ Asked' = Append(Asked, r) /\ Below' = Below
      /\ \A l \in Lines :
           /\ Holding(l)' = Holding(l) /\ HeldData(l)' = HeldData(l)
           /\ DoneBack(l)' = DoneBack(l) /\ DataBack(l)' = DataBack(l)
           /\ WaitBelow(l)' = WaitBelow(l) /\ Coming(l)' = Coming(l)
           /\ ReadsAsked(l)' = ReadsAsked(l) + (IF l = x THEN 1 ELSE 0)
           /\ WritesAsked(l)' = WritesAsked(l) + 0
  BY <1>1, <1>2, LineAsked
<1> HIDE DEF r
<1>5. Asked \in Seq(TopReq)
  BY HierarchyTypes
<1>6. ASSUME NEW l \in Lines
      PROVE  /\ LineInv(l) /\ l1[l].ver \in Nat
             /\ ReadsAsked(l) \in Nat /\ WritesAsked(l) \in Nat
             /\ WritesAsked(l)' = WritesAsked(l)
  <2>1. /\ LineInv(l) /\ l1[l].ver \in Nat
        /\ ReadsAsked(l) \in Nat /\ WritesAsked(l) \in Nat
    BY CountsNat, CopiesTyped DEF HInv
  <2> QED
    BY <1>4, <2>1
<1>7. ASSUME NEW l \in Lines, l # x PROVE LineInv(l)'
  <2>1. l1'[l] = l1[l]
    BY <1>1, <1>7 DEF HTypeOK
  <2>2. ReadsAsked(l)' = ReadsAsked(l)
    BY <1>4, <1>6, <1>7
  <2>3. r.line # l
    BY <1>3, <1>7
  <2> QED
    BY <1>1, <1>2, <1>4, <1>5, <1>6, <2>1, <2>2, <2>3, LineElsewhere
<1>8. LineInv(x)'
  <2>1. l1'[x].state = "fetching" /\ l1'[x].ver = l1[x].ver
    BY <1>1 DEF HTypeOK
  <2>2. ~Fetching(x) /\ Fetching(x)'
    BY <1>1, <2>1 DEF Fetching
  <2>3. /\ ReadsAsked(x) = 0 /\ WaitBelow(x) = 0 /\ DataBack(x) = 0
        /\ Coming(x) = {}
    BY <1>6, <2>2, Opened
  <2>4. /\ ReadsAsked(x)' = 1 /\ WaitBelow(x)' = 0 /\ DataBack(x)' = 0
        /\ Coming(x)' = {}
    BY <1>4, <2>3
  <2>5. Chain(x, mem[x], Below, HeldData(x), Append(Asked, r), l1[x].ver)
    <3>1. Chain(x, mem[x], Below, HeldData(x), Asked, l1[x].ver)
      BY <1>6 DEF LineInv, OrderInv
    <3> QED
      BY <1>2, <1>3, <1>5, <1>6, <3>1, ChainAsked
  <2>6. OrderInv(x)'
    BY <1>1, <1>4, <1>6, <2>1, <2>5 DEF LineInv, OrderInv
  <2>7. OpenInv(x)'
    BY <1>1, <1>4, <1>6, <2>2, <2>4 DEF LineInv, OpenInv
  <2>8. AnswerInv(x)'
    BY <1>4, <1>6, <2>4 DEF LineInv, AnswerInv
  <2> QED
    BY <2>6, <2>7, <2>8 DEF LineInv
<1> QED
  BY <1>4, <1>7, <1>8 DEF HInv

\* The L1 evicts a dirty line.
LEMMA HierarchyEvict ==
  ASSUME HTypeOK, LedgerInv, HInv, NEW x \in Lines, L1Evict(x)
  PROVE  HInv'
<1> DEFINE r == [kind |-> "WriteReq", id |-> issued + 1, line |-> x,
                 data |-> l1[x].ver]
<1>1. /\ l1[x].state = "dirty"
      /\ TopDeliver("WriteReq", x, l1[x].ver)
      /\ l1' = [l1 EXCEPT ![x].state = "absent"]
      /\ evicting' = [evicting EXCEPT ![x] = @ + 1]
      /\ sent' = Append(sent, x)
      /\ UNCHANGED <<mem, latest>>
  BY DEF L1Evict
<1>2. r \in TopReq
  <2>1. l1[x].ver \in Data
    BY DEF HTypeOK
  <2> QED
    BY <2>1, HierarchyTypes DEF TopReq
<1>3. r.line = x /\ r.data = l1[x].ver
  OBVIOUS
<1>4. /\ LinkInv'
      /\ Asked' = Append(Asked, r) /\ Below' = Below
      /\ \A l \in Lines :
           /\ Holding(l)' = Holding(l) /\ HeldData(l)' = HeldData(l)
           /\ DoneBack(l)' = DoneBack(l) /\ DataBack(l)' = DataBack(l)
           /\ WaitBelow(l)' = WaitBelow(l) /\ Coming(l)' = Coming(l)
           /\ WritesAsked(l)' = WritesAsked(l) + (IF l = x THEN 1 ELSE 0)
           /\ ReadsAsked(l)' = ReadsAsked(l) + 0
  BY <1>1, <1>2, LineAsked
<1> HIDE DEF r
<1>5. Asked \in Seq(TopReq)
  BY HierarchyTypes
<1>6. ASSUME NEW l \in Lines
      PROVE  /\ LineInv(l) /\ l1[l].ver \in Nat
             /\ ReadsAsked(l) \in Nat /\ WritesAsked(l) \in Nat
             /\ DoneBack(l) \in Nat
             /\ ReadsAsked(l)' = ReadsAsked(l)
  <2>1. /\ LineInv(l) /\ l1[l].ver \in Nat /\ DoneBack(l) \in Nat
        /\ ReadsAsked(l) \in Nat /\ WritesAsked(l) \in Nat
    BY CountsNat, CopiesTyped DEF HInv
  <2> QED
    BY <1>4, <2>1
<1>7. ASSUME NEW l \in Lines, l # x PROVE LineInv(l)'
  <2>1. l1'[l] = l1[l] /\ evicting'[l] = evicting[l]
    BY <1>1, <1>7 DEF HTypeOK
  <2>2. WritesAsked(l)' = WritesAsked(l)
    BY <1>4, <1>6, <1>7
  <2>3. r.line # l
    BY <1>3, <1>7
  <2> QED
    BY <1>1, <1>2, <1>4, <1>5, <1>6, <2>1, <2>2, <2>3, LineElsewhere
<1>8. LineInv(x)'
  <2>1. /\ l1'[x].state = "absent" /\ l1'[x].ver = l1[x].ver
        /\ evicting'[x] = evicting[x] + 1
    BY <1>1 DEF HTypeOK
  <2>2. ~Fetching(x) /\ ~Fetching(x)'
    BY <1>1, <2>1 DEF Fetching
  <2>3. Coming(x)' = {}
    BY <1>4, <1>6, <2>2, Opened
  <2>4. Chain(x, mem[x], Below, HeldData(x), Append(Asked, r), l1[x].ver)
    <3>1. Chain(x, mem[x], Below, HeldData(x), Asked, l1[x].ver)
      BY <1>6 DEF LineInv, OrderInv
    <3> QED
      BY <1>2, <1>3, <1>5, <1>6, <3>1, ChainAsked
  <2>5. OrderInv(x)'
    BY <1>1, <1>4, <1>6, <2>1, <2>4 DEF LineInv, OrderInv
  <2>6. OpenInv(x)'
    BY <1>4, <1>6, <2>1, <2>2 DEF LineInv, OpenInv
  <2>7. AnswerInv(x)'
    BY <1>4, <1>6, <2>2, <2>3 DEF LineInv, AnswerInv
  <2> QED
    BY <2>5, <2>6, <2>7 DEF LineInv
<1> QED
  BY <1>4, <1>7, <1>8 DEF HInv

(***************************************************************************)
(* Answers: the L1 takes one, memory gives one                             *)
(***************************************************************************)
\* The L1 takes an answer: a line that is the newest copy there is below, or the
\* acknowledgement of an eviction.
LEMMA HierarchyReceive ==
  ASSUME HTypeOK, HTypeOK', LedgerInv, HInv, L1Receive
  PROVE  HInv'
<1> DEFINE m == Head(topOut)
<1>0. PICK x : x = sent[m.rspTo]
  OBVIOUS
<1>1. /\ topOut # <<>> /\ topOut' = Tail(topOut)
      /\ UNCHANGED <<blocks, topTransactions, topIn, pendingBottom, bottomIn,
                     bottomOut, lowReqs>>
      /\ UNCHANGED <<mem, sent, latest>>
      /\ m.kind = "DataReadyRsp" =>
           /\ l1' = [l1 EXCEPT ![x] = [state |-> "clean", ver |-> m.data]]
           /\ evicting' = evicting
      /\ m.kind # "DataReadyRsp" =>
           evicting' = [evicting EXCEPT ![x] = @ - 1] /\ l1' = l1
  BY <1>0 DEF L1Receive, TopCollect, Between, store, lowPort
<1>2. /\ topOut \in Seq(TopRsp) /\ topOut' \in Seq(TopRsp)
      /\ pendingBottom \in Seq(PendingBottom)
  BY HierarchyTypes DEF HTypeOK, TypeOK
<1>3. m \in TopRsp /\ m \in ToSet(topOut) /\ ToSet(topOut') \subseteq ToSet(topOut)
  <2>1. /\ m \in TopRsp /\ m = topOut[1] /\ 1 \in DOMAIN topOut
        /\ DOMAIN topOut = 1 .. Len(topOut)
        /\ DOMAIN Tail(topOut) = 1 .. Len(topOut) - 1
        /\ \A i \in 1 .. Len(topOut) - 1 : Tail(topOut)[i] = topOut[i + 1]
        /\ Len(topOut) \in Nat
    BY <1>1, <1>2, HeadTailProperties, LenProperties, EmptySeq
  <2>2. \A i \in 1 .. Len(topOut) - 1 : i + 1 \in 1 .. Len(topOut)
    BY <2>1
  <2> HIDE DEF m
  <2> QED
    BY <1>1, <2>1, <2>2 DEF ToSet
<1>4. x \in Lines
  BY <1>0, <1>3, Issued, HierarchyTypes DEF LedgerInv
<1>5. Asked' = Asked /\ Below' = Below /\ Sent' = Sent /\ Waiting' = Waiting
  BY <1>1 DEF Asked, Below, Sent, Waiting
<1>6. LinkInv'
  BY <1>1, <1>5 DEF HInv, LinkInv
<1>7. /\ m \in DataFor(x, sent) <=> m.kind = "DataReadyRsp"
      /\ m \in DoneFor(x, sent) <=> m.kind # "DataReadyRsp"
      /\ \A l \in Lines : l # x =>
           m \notin DataFor(l, sent) /\ m \notin DoneFor(l, sent)
  BY <1>0, <1>3 DEF DataFor, DoneFor, TopRsp
<1> HIDE DEF m
<1>8. ASSUME NEW l
      PROVE  /\ DataBack(l)' =
                  DataBack(l) - (IF m \in DataFor(l, sent) THEN 1 ELSE 0)
             /\ DoneBack(l)' =
                  DoneBack(l) - (IF m \in DoneFor(l, sent) THEN 1 ELSE 0)
             /\ WaitBelow(l)' = WaitBelow(l) /\ ReadsAsked(l)' = ReadsAsked(l)
             /\ WritesAsked(l)' = WritesAsked(l)
             /\ Coming(l)' \subseteq Coming(l)
             /\ Holding(l)' = Holding(l) /\ HeldData(l)' = HeldData(l)
  <2>1. /\ Count(Tail(topOut), DataFor(l, sent)) =
             Count(topOut, DataFor(l, sent))
               - (IF m \in DataFor(l, sent) THEN 1 ELSE 0)
        /\ Count(Tail(topOut), DoneFor(l, sent)) =
             Count(topOut, DoneFor(l, sent))
               - (IF m \in DoneFor(l, sent) THEN 1 ELSE 0)
    BY <1>1, <1>2, CountTypes DEF m
  <2>2. Coming(l)' \subseteq Coming(l)
    BY <1>1, <1>3 DEF Coming, ComingIn
  <2> QED
    BY <1>1, <1>5, <2>1, <2>2
    DEF DataBack, DoneBack, WaitBelow, ReadsAsked, WritesAsked, Holding, HeldData
<1>9. ASSUME NEW l \in Lines
      PROVE  /\ LineInv(l) /\ l1[l].ver \in Nat /\ latest[l] \in Nat
             /\ ReadsAsked(l) \in Nat /\ WritesAsked(l) \in Nat
             /\ WaitBelow(l) \in Nat /\ DataBack(l) \in Nat
             /\ DoneBack(l) \in Nat /\ mem[l] \in Nat
  BY CountsNat, CopiesTyped DEF HInv
<1>10. ASSUME NEW l \in Lines, l # x PROVE LineInv(l)'
  <2>1. l1'[l] = l1[l] /\ evicting'[l] = evicting[l]
    BY <1>1, <1>4, <1>10 DEF HTypeOK
  <2>2. DataBack(l)' = DataBack(l) /\ DoneBack(l)' = DoneBack(l)
    BY <1>7, <1>8, <1>9, <1>10
  <2>3. l1'[l].ver = l1[l].ver /\ (Fetching(l)' <=> Fetching(l))
    BY <2>1 DEF Fetching
  <2>4. /\ LineInv(l) /\ ReadsAsked(l) \in Nat /\ WaitBelow(l) \in Nat
        /\ DataBack(l) \in Nat /\ WaitBelow(l)' \in Nat /\ DataBack(l)' \in Nat
        /\ WaitBelow(l)' + DataBack(l)' = WaitBelow(l) + DataBack(l)
    BY <1>8, <1>9, <2>2
  <2>5. /\ mem'[l] = mem[l] /\ latest'[l] = latest[l] /\ HeldData(l)' = HeldData(l)
        /\ Coming(l)' \subseteq Coming(l) /\ Holding(l)' = Holding(l)
    BY <1>1, <1>8
  <2> QED
    BY <1>5, <2>1, <2>2, <2>3, <2>4, <2>5, LineUntouched
<1>11. CASE m.kind = "DataReadyRsp"
  <2>1. /\ l1'[x] = [state |-> "clean", ver |-> m.data]
        /\ evicting'[x] = evicting[x]
    BY <1>1, <1>4, <1>11 DEF HTypeOK
  <2>2. m \in DataFor(x, sent) /\ m \notin DoneFor(x, sent)
    BY <1>7, <1>11
  <2>3. m.data \in Coming(x)
    BY <1>3, <2>2 DEF Coming, ComingIn
  <2>4. /\ Fetching(x) /\ evicting[x] = 0 /\ ReadsAsked(x) = 0
        /\ WritesAsked(x) = 0 /\ Holding(x) = {}
        /\ WaitBelow(x) + DataBack(x) = 1 /\ DataBack(x) # 0
        /\ WritesTo(x, Asked) = {}
    <3>1. DataBack(x) # 0
      BY <1>3, <2>2, Members
    <3> QED
      BY <1>4, <1>9, <3>1, Opened
  <2>5. /\ DataBack(x)' = 0 /\ WaitBelow(x)' = 0 /\ ReadsAsked(x)' = 0
        /\ WritesAsked(x)' = 0 /\ DoneBack(x)' = 0 /\ DoneBack(x) = 0
    <3>1. evicting[x] = WritesAsked(x) + DoneBack(x)
      BY <1>4, <1>9 DEF LineInv, OpenInv
    <3> QED
      BY <1>4, <1>8, <1>9, <2>2, <2>4, <3>1
  <2>6. Coming(x)' = {}
    <3>1. Count(topOut', DataFor(x, sent)) = 0
      BY <1>1, <2>5 DEF DataBack
    <3>2. Count(pendingBottom, WaitFor(x, sent)) = 0
      BY <1>1, <2>5 DEF WaitBelow
    <3>3. ComingIn(x, topOut', bottomIn, pendingBottom, sent) = {}
      BY <1>2, <3>1, <3>2, NothingComing
    <3> QED
      BY <1>1, <3>3 DEF Coming
  <2>7. FreshIn(x, mem[x], Below, l1[x].ver, m.data)
    BY <1>4, <1>9, <2>3 DEF LineInv, AnswerInv
  <2>8. HeldData(x)' = {}
    BY <1>8, <2>4 DEF HeldData
  <2>9. Chain(x, mem[x], Below, {}, Asked, m.data)
    <3>1. Chain(x, mem[x], Below, HeldData(x), Asked, l1[x].ver)
      BY <1>4, <1>9 DEF LineInv, OrderInv
    <3> QED
      BY <2>4, <2>7, <3>1 DEF Chain, FreshIn
  <2>10. m.data =< latest[x]
    <3>1. m.data \in Nat
      BY <1>3, <1>11, VersionAssumption DEF TopRsp
    <3>2. m.data =< l1[x].ver /\ l1[x].ver =< latest[x]
      BY <1>4, <1>9, <2>7 DEF FreshIn, LineInv, OrderInv
    <3> QED
      BY <1>4, <1>9, <3>1, <3>2
  <2>11. OrderInv(x)'
    BY <1>1, <1>5, <2>1, <2>8, <2>9, <2>10 DEF OrderInv
  <2>12. ~Fetching(x)'
    BY <2>1 DEF Fetching
  <2>13. OpenInv(x)'
    BY <2>1, <2>4, <2>5, <2>12 DEF OpenInv
  <2>14. AnswerInv(x)'
    BY <1>4, <1>5, <1>9, <2>6, <2>12 DEF LineInv, AnswerInv
  <2>15. LineInv(x)'
    BY <2>11, <2>13, <2>14 DEF LineInv
  <2> QED
    BY <1>6, <1>10, <2>15 DEF HInv
<1>12. CASE m.kind # "DataReadyRsp"
  <2>1. evicting'[x] = evicting[x] - 1 /\ l1' = l1
    BY <1>1, <1>4, <1>12 DEF HTypeOK
  <2>2. m \notin DataFor(x, sent) /\ m \in DoneFor(x, sent)
    BY <1>7, <1>12
  <2>3. DoneBack(x) # 0
    BY <1>3, <2>2, Members
  <2>4. ~Fetching(x) /\ ~Fetching(x)' /\ Coming(x) = {}
    BY <1>4, <1>9, <2>1, <2>3, Opened DEF Fetching
  <2>5. DataBack(x)' = DataBack(x) /\ DoneBack(x)' = DoneBack(x) - 1
    BY <1>4, <1>8, <1>9, <2>2
  <2>6. OrderInv(x)'
    BY <1>1, <1>4, <1>5, <1>8, <1>9, <2>1 DEF LineInv, OrderInv
  <2>7. OpenInv(x)'
    <3>1. /\ evicting[x] = WritesAsked(x) + DoneBack(x)
          /\ ReadsAsked(x) + WaitBelow(x) + DataBack(x) = 0
      BY <1>4, <1>9, <2>4 DEF LineInv, OpenInv
    <3>2. evicting'[x] = WritesAsked(x)' + DoneBack(x)'
      BY <1>4, <1>8, <1>9, <2>1, <2>5, <3>1
    <3>3. ReadsAsked(x)' = ReadsAsked(x) /\ WaitBelow(x)' = WaitBelow(x)
      BY <1>8
    <3>4. ReadsAsked(x)' + WaitBelow(x)' + DataBack(x)' = 0
      BY <2>5, <3>1, <3>3
    <3> QED
      BY <2>4, <3>2, <3>4 DEF OpenInv
  <2>8. AnswerInv(x)'
    <3>1. Coming(x)' = {}
      <4>1. Coming(x)' \subseteq Coming(x)
        BY <1>8
      <4> QED
        BY <2>4, <4>1
    <3>2. BehindIn(x, Below')
      <4>1. LineInv(x)
        BY <1>4, <1>9
      <4> QED
        BY <1>5, <4>1 DEF LineInv, AnswerInv
    <3> QED
      BY <2>4, <3>1, <3>2 DEF AnswerInv
  <2>9. LineInv(x)'
    BY <2>6, <2>7, <2>8 DEF LineInv
  <2> QED
    BY <1>6, <1>10, <2>9 DEF HInv
<1> QED
  BY <1>11, <1>12

\* Memory serves the next request.
LEMMA HierarchyRespond ==
  ASSUME HTypeOK, HTypeOK', LedgerInv, HInv, MemRespond
  PROVE  HInv'
<1> DEFINE r == Head(lowReqs)
           y == mem[r.line]
           m == IF r.kind = "ReadReq" THEN DataReady(r.id, y)
                                      ELSE WriteDone(r.id)
<1>1. /\ lowReqs # <<>> /\ BottomDeliver(1, y)
      /\ mem' = IF r.kind = "WriteReq" THEN [mem EXCEPT ![r.line] = r.data]
                                       ELSE mem
      /\ UNCHANGED <<l1, evicting, sent, latest>>
  BY DEF MemRespond, client
<1>2. /\ lowReqs \in Seq(TopReq) /\ bottomOut \in Seq(TopReq)
      /\ bottomIn \in Seq(TopRsp) /\ Below \in Seq(TopReq)
  BY HierarchyTypes
<1>3. /\ 1 \in 1 .. Len(lowReqs) /\ lowReqs[1] = r /\ r \in TopReq
      /\ Tail(lowReqs) = RemoveAt(lowReqs, 1)
      /\ 1 \in DOMAIN lowReqs
  BY <1>1, <1>2, HeadTailProperties, LenProperties, TailRemoves
<1>4. /\ bottomIn' = Append(bottomIn, m) /\ lowReqs' = RemoveAt(lowReqs, 1)
      /\ UNCHANGED <<blocks, topTransactions, topIn, topOut, pendingBottom,
                     bottomOut>>
  BY <1>1, <1>3 DEF BottomDeliver, Between, store, topPort
<1>5. Below # <<>> /\ Head(Below) = r /\ Below' = Tail(Below)
  <2>1. /\ 1 \in 1 .. Len(Below) /\ Below[1] = lowReqs[1]
        /\ RemoveAt(lowReqs, 1) \o bottomOut = RemoveAt(Below, 1)
    <3>1. 1 \in 1 .. Len(lowReqs)
      BY <1>3
    <3> QED
      BY <1>2, <3>1, ConcatRemove DEF Below
  <2>2. Below # <<>>
    BY <1>2, <2>1, EmptySeq, LenProperties
  <2>3. Tail(Below) = RemoveAt(Below, 1) /\ Head(Below) = Below[1]
    BY <1>2, <2>2, TailRemoves, HeadTailProperties
  <2>4. Below' = RemoveAt(lowReqs, 1) \o bottomOut
    BY <1>4 DEF Below
  <2> QED
    BY <1>3, <2>1, <2>2, <2>3, <2>4
<1>6. r \in Sent /\ Sent' \subseteq Sent
  <2>1. r \in ToSet(lowReqs)
    BY <1>3 DEF ToSet
  <2>2. ToSet(lowReqs') \subseteq ToSet(lowReqs)
    BY <1>2, <1>3, <1>4, ElementsRemoved DEF LedgerInv, LowInv
  <2> QED
    BY <1>4, <2>1, <2>2 DEF Sent
<1>7. /\ m.rspTo = r.id /\ m \in TopRsp
      /\ m.kind = "DataReadyRsp" <=> r.kind = "ReadReq"
      /\ r.kind = "ReadReq" => m.data = mem[r.line]
  <2>1. y \in Data /\ r.id \in Nat
    BY <1>3 DEF HTypeOK, TopReq
  <2> QED
    BY <1>3, <2>1 DEF TopRsp, TopReq, DataReady, WriteDone
<1>8. ToSet(bottomIn') = ToSet(bottomIn) \cup {m}
  BY <1>2, <1>4, <1>7, SetAppended
<1>9. Asked' = Asked /\ Waiting' = Waiting
  BY <1>4 DEF Asked, Waiting
<1>10. LinkInv'
  BY <1>1, <1>6, <1>9 DEF HInv, LinkInv
<1>11. ASSUME NEW l \in Lines
       PROVE  /\ LineInv(l) /\ ReadsAsked(l)' = ReadsAsked(l)
              /\ WritesAsked(l)' = WritesAsked(l)
              /\ WaitBelow(l)' = WaitBelow(l) /\ DataBack(l)' = DataBack(l)
              /\ DoneBack(l)' = DoneBack(l)
              /\ Holding(l)' = Holding(l) /\ HeldData(l)' = HeldData(l)
              /\ l1'[l] = l1[l] /\ (Fetching(l)' <=> Fetching(l))
              /\ mem'[l] = IF r.kind = "WriteReq" /\ r.line = l THEN r.data
                                                               ELSE mem[l]
  <2>1. mem'[l] = IF r.kind = "WriteReq" /\ r.line = l THEN r.data ELSE mem[l]
    BY <1>1 DEF HTypeOK
  <2> QED
    BY <1>1, <1>4, <1>9, <2>1
    DEF HInv, ReadsAsked, WritesAsked, WaitBelow, DataBack, DoneBack, Holding,
        HeldData, Fetching
<1> HIDE DEF r, m, y
<1>12. ASSUME NEW l \in Lines, NEW d \in Coming(l)'
       PROVE  \/ d \in Coming(l)
              \/ r.kind = "ReadReq" /\ r.line = l /\ d = mem[l]
  <2>1. CASE \E q \in ToSet(topOut) \cap DataFor(l, sent) : d = q.data
    BY <2>1 DEF Coming, ComingIn
  <2>2. CASE \E q \in ToSet(bottomIn), p \in ToSet(pendingBottom) \cap WaitFor(l, sent) :
               q.kind = "DataReadyRsp" /\ p.BottomReqID = q.rspTo /\ d = q.data
    BY <2>2 DEF Coming, ComingIn
  <2>3. CASE \E p \in ToSet(pendingBottom) \cap WaitFor(l, sent) :
               m.kind = "DataReadyRsp" /\ p.BottomReqID = m.rspTo /\ d = m.data
    <3>1. PICK p \in ToSet(pendingBottom) \cap WaitFor(l, sent) :
               m.kind = "DataReadyRsp" /\ p.BottomReqID = m.rspTo /\ d = m.data
      BY <2>3
    <3>2. p \in Waiting /\ sent[p.OrigReqID] = l
      BY <3>1 DEF Waiting, WaitFor
    <3>3. r.line = l
      BY <1>6, <1>7, <3>1, <3>2 DEF HInv, LinkInv
    <3> QED
      BY <1>7, <3>1, <3>3
  <2> QED
    BY <1>1, <1>4, <1>8, <2>1, <2>2, <2>3 DEF Coming, ComingIn
<1>13. ASSUME NEW l \in Lines PROVE LineInv(l)'
  <2>1. /\ Chain(l, mem[l], Below, HeldData(l), Asked, l1[l].ver)
        /\ l1[l].ver =< latest[l] /\ BehindIn(l, Below)
        /\ \A d \in Coming(l) : FreshIn(l, mem[l], Below, l1[l].ver, d)
    BY <1>11 DEF LineInv, OrderInv, AnswerInv
  <2>2. Chain(l, mem'[l], Tail(Below), HeldData(l), Asked, l1[l].ver)
    BY <1>2, <1>5, <1>11, <2>1, ChainStored
  <2>3. OrderInv(l)'
    BY <1>1, <1>5, <1>9, <1>11, <2>1, <2>2 DEF OrderInv
  <2>4. OpenInv(l)'
    BY <1>1, <1>11 DEF LineInv, OpenInv
  <2>5. /\ BehindIn(l, Tail(Below))
        /\ r.kind = "ReadReq" /\ r.line = l => WritesTo(l, Tail(Below)) = {}
    BY <1>2, <1>5, <2>1, BehindStored
  <2>6. ASSUME NEW d \in Coming(l)'
        PROVE  FreshIn(l, mem'[l], Tail(Below), l1[l].ver, d)
    <3>1. CASE d \in Coming(l)
      BY <1>2, <1>5, <1>11, <2>1, <3>1, FreshStored
    <3>2. CASE r.kind = "ReadReq" /\ r.line = l /\ d = mem[l]
      <4>1. mem'[l] = mem[l] /\ mem[l] \in Nat
        BY <1>11, <3>2, CopiesTyped
      <4>2. mem[l] =< l1[l].ver
        BY <2>1 DEF Chain
      <4> QED
        BY <2>5, <3>2, <4>1, <4>2 DEF FreshIn
    <3> QED
      BY <1>12, <3>1, <3>2
  <2>7. AnswerInv(l)'
    BY <1>5, <1>11, <2>5, <2>6 DEF LineInv, AnswerInv
  <2> QED
    BY <2>3, <2>4, <2>7 DEF LineInv
<1> QED
  BY <1>10, <1>13 DEF HInv

(***************************************************************************)
(* The steps of the victim cache: hits                                     *)
(***************************************************************************)
\* The request at the head of the transaction queue.
LEMMA HeadAsked ==
  ASSUME HTypeOK, HTypeOK', LedgerInv, HInv, topTransactions # <<>>,
         topTransactions' = Tail(topTransactions),
         UNCHANGED <<topIn, issued, sent>>,
         NEW t, t = Head(topTransactions)
  PROVE  /\ Asked \in Seq(TopReq) /\ Asked # <<>> /\ Asked' = Tail(Asked)
         /\ Head(Asked) = Request(t) /\ Head(Asked) \in TopReq
         /\ Head(Asked).kind = t.kind /\ Head(Asked).line = t.line
         /\ Head(Asked).data = t.data /\ t.kind \in {"ReadReq", "WriteReq"}
         /\ t.id \in Nat /\ sent[t.id] = t.line /\ t.line \in Lines
         /\ t \in Transaction
         /\ \A k \in DOMAIN Asked' : Asked'[k].line = sent'[Asked'[k].id]
<1>1. /\ Asked # <<>> /\ Asked' = Tail(Asked) /\ Head(Asked) = Request(t)
      /\ Len(Asked') = Len(Asked) - 1 /\ Len(Asked) \in Nat \ {0}
  BY ServeHead DEF HTypeOK, LedgerInv
<1>2. Asked \in Seq(TopReq) /\ Head(Asked) = Asked[1] /\ Head(Asked) \in TopReq
  BY <1>1, HierarchyTypes, HeadTailProperties
<1>3. t \in Transaction
  BY HeadTyped DEF HTypeOK
<1>4. /\ Head(Asked).kind = t.kind /\ Head(Asked).line = t.line
      /\ Head(Asked).data = t.data /\ Head(Asked).id = t.id
      /\ t.kind \in {"ReadReq", "WriteReq"} /\ t.id \in Nat /\ t.line \in Lines
  BY <1>1, <1>3 DEF Request, Transaction
<1>5. \A k \in DOMAIN Asked : Asked[k].line = sent[Asked[k].id]
  BY DEF HInv, LinkInv
<1>6. 1 \in DOMAIN Asked /\ DOMAIN Asked = 1 .. Len(Asked)
  BY <1>1, <1>2, LenProperties
<1>7. sent[t.id] = t.line
  BY <1>2, <1>4, <1>5, <1>6
<1>8. ASSUME NEW k \in DOMAIN Asked' PROVE Asked'[k].line = sent'[Asked'[k].id]
  <2>1. /\ Tail(Asked) \in Seq(TopReq)
        /\ \A j \in 1 .. Len(Asked) - 1 : Tail(Asked)[j] = Asked[j + 1]
    BY <1>1, <1>2, HeadTailProperties
  <2>2. k \in 1 .. Len(Asked) - 1
    BY <1>1, <2>1, LenProperties
  <2>3. k + 1 \in DOMAIN Asked /\ Asked'[k] = Asked[k + 1]
    BY <1>1, <1>6, <2>1, <2>2
  <2> QED
    BY <1>5, <2>3
<1> QED
  BY <1>1, <1>2, <1>3, <1>4, <1>7, <1>8

\* The requests for a line when the head is answered.
LEMMA OpenAfterAnswer ==
  ASSUME NEW l \in Lines, HTypeOK, LineInv(l), Asked # <<>>,
         Asked' = Tail(Asked), NEW m \in TopRsp, topOut' = Append(topOut, m),
         sent[m.rspTo] = Head(Asked).line,
         m.kind = "WriteDoneRsp" <=> Head(Asked).kind = "WriteReq",
         UNCHANGED <<l1, evicting, sent>>, WaitBelow(l)' = WaitBelow(l),
         ReadsAsked(l)' \in Nat, WritesAsked(l)' \in Nat,
         DataBack(l)' \in Nat, DoneBack(l)' \in Nat
  PROVE  /\ OpenInv(l)'
         /\ ~(Head(Asked).kind = "ReadReq" /\ Head(Asked).line = l) =>
              ReadsAsked(l)' = ReadsAsked(l)
<1>1. Asked \in Seq(TopReq) /\ topOut \in Seq(TopRsp)
  BY HierarchyTypes
<1>2. /\ WritesAsked(l)' + DoneBack(l)' = WritesAsked(l) + DoneBack(l)
      /\ ReadsAsked(l)' + DataBack(l)' = ReadsAsked(l) + DataBack(l)
  <2>1. /\ Count(Tail(Asked), WriteTo(l)) + Count(Append(topOut, m), DoneFor(l, sent)) =
              Count(Asked, WriteTo(l)) + Count(topOut, DoneFor(l, sent))
        /\ Count(Tail(Asked), ReadTo(l)) + Count(Append(topOut, m), DataFor(l, sent)) =
              Count(Asked, ReadTo(l)) + Count(topOut, DataFor(l, sent))
    BY <1>1, OpenAnswered
  <2> QED
    BY <2>1 DEF WritesAsked, DoneBack, ReadsAsked, DataBack
<1>3. ReadsAsked(l)' = ReadsAsked(l) - (IF Head(Asked) \in ReadTo(l) THEN 1 ELSE 0)
  BY <1>1, CountTypes DEF ReadsAsked
<1>4. /\ ReadsAsked(l) \in Nat /\ WritesAsked(l) \in Nat
      /\ WaitBelow(l) \in Nat /\ DataBack(l) \in Nat /\ DoneBack(l) \in Nat
  BY CountsNat
<1>5. /\ evicting[l] = WritesAsked(l) + DoneBack(l)
      /\ ReadsAsked(l) + WaitBelow(l) + DataBack(l) = IF Fetching(l) THEN 1 ELSE 0
      /\ Fetching(l) => evicting[l] = 0
  BY DEF LineInv, OpenInv
<1>6. /\ evicting'[l] = WritesAsked(l)' + DoneBack(l)'
      /\ ReadsAsked(l)' + WaitBelow(l)' + DataBack(l)' = IF Fetching(l) THEN 1 ELSE 0
  <2>1. evicting'[l] = WritesAsked(l)' + DoneBack(l)'
    BY <1>2, <1>5
  <2>2. ReadsAsked(l)' + WaitBelow(l)' + DataBack(l)' =
          ReadsAsked(l) + WaitBelow(l) + DataBack(l)
    BY <1>2, <1>4, SMTT(30)
  <2> QED
    BY <1>5, <2>1, <2>2
<1>7. (Fetching(l)' <=> Fetching(l)) /\ evicting'[l] = evicting[l]
  BY DEF Fetching
<1>8. OpenInv(l)'
  BY <1>5, <1>6, <1>7 DEF OpenInv
<1>9. ~(Head(Asked).kind = "ReadReq" /\ Head(Asked).line = l) =>
        Head(Asked) \notin ReadTo(l)
  BY DEF ReadTo
<1> QED
  BY <1>3, <1>4, <1>8, <1>9

\* The counts after a step.
LEMMA NatAfter ==
  ASSUME HTypeOK', Asked' \in Seq(TopReq)
  PROVE  \A l : /\ ReadsAsked(l)' \in Nat /\ WritesAsked(l)' \in Nat
                /\ WaitBelow(l)' \in Nat /\ DataBack(l)' \in Nat
                /\ DoneBack(l)' \in Nat
<1>1. topOut' \in Seq(TopRsp) /\ pendingBottom' \in Seq(PendingBottom)
  BY DEF HTypeOK, TypeOK
<1>2. \A l : /\ Count(Asked', ReadTo(l)) \in Nat
             /\ Count(Asked', WriteTo(l)) \in Nat
  BY CountTypes
<1>3. \A l : /\ Count(topOut', DoneFor(l, sent')) \in Nat
             /\ Count(topOut', DataFor(l, sent')) \in Nat
  BY <1>1, CountTypes
<1>4. \A l : Count(pendingBottom', WaitFor(l, sent')) \in Nat
  BY <1>1, CountTypes
<1> QED
  BY <1>2, <1>3, <1>4
  DEF ReadsAsked, WritesAsked, WaitBelow, DataBack, DoneBack

\* What an answer adds to what is on its way up.
LEMMA ComingAppended ==
  ASSUME NEW l, NEW O \in Seq(TopRsp), NEW m \in TopRsp, NEW B, NEW P, NEW s
  PROVE  \A d \in ComingIn(l, Append(O, m), B, P, s) :
           \/ d \in ComingIn(l, O, B, P, s)
           \/ m.kind = "DataReadyRsp" /\ s[m.rspTo] = l /\ d = m.data
<1>1. ToSet(Append(O, m)) = ToSet(O) \cup {m}
  BY SetAppended
<1> QED
  BY <1>1 DEF ComingIn, DataFor

\* handleRead where the line is stored: it is given up and goes up.
LEMMA HierarchyHit ==
  ASSUME HTypeOK, HTypeOK', UniqueTags, LedgerInv, HInv, ReadHit,
         UNCHANGED <<mem, client>>
  PROVE  HInv'
<1> USE DEF client
<1>1. PICK t, x, i, m : /\ t = Head(topTransactions) /\ x = t.line
                        /\ i = Min(Holding(x))
                        /\ m = DataReady(t.id, blocks[i].Data)
  OBVIOUS
<1>2. /\ topTransactions # <<>> /\ topTransactions' = Tail(topTransactions)
      /\ t.kind = "ReadReq" /\ Holding(x) # {}
      /\ blocks' = [blocks EXCEPT ![i] = Freed(blocks[i])]
      /\ topOut' = Append(topOut, m)
      /\ UNCHANGED <<topIn, issued, sent, pendingBottom, bottomIn, bottomOut,
                     lowReqs, l1, evicting, latest>>
  BY <1>1 DEF ReadHit, HeadReady, lowPort, outside
<1>3. /\ Asked \in Seq(TopReq) /\ Asked # <<>> /\ Asked' = Tail(Asked)
      /\ Head(Asked).kind = "ReadReq" /\ Head(Asked).line = x
      /\ t.id \in Nat /\ sent[t.id] = x /\ x \in Lines
      /\ \A k \in DOMAIN Asked' : Asked'[k].line = sent'[Asked'[k].id]
  BY <1>1, <1>2, HeadAsked
<1>4. /\ i \in Slots /\ blocks[i].Valid /\ blocks[i].Tag = x
      /\ blocks \in [Slots -> Block]
  BY <1>1, <1>2, FirstHolding DEF HTypeOK, TypeOK
<1>5. /\ m \in TopRsp /\ m.kind = "DataReadyRsp" /\ m.rspTo = t.id
      /\ m.data = blocks[i].Data
  BY <1>1, <1>3, <1>4 DEF DataReady, TopRsp, Block
<1>6. ~blocks'[i].Valid /\ \A j \in Slots : j # i => blocks'[j] = blocks[j]
  BY <1>2, <1>4 DEF Freed
<1>7. \A j \in Slots : blocks[j].Valid /\ blocks[j].Tag = x => j = i
  BY <1>4 DEF UniqueTags
<1>8. /\ Holding(x)' = {} /\ HeldData(x)' = {}
      /\ \A l \in Lines : l # x => /\ Holding(l)' = Holding(l)
                                   /\ HeldData(l)' = HeldData(l)
  <2>1. Holding(x)' = {}
    BY <1>6, <1>7 DEF Holding
  <2>2. ASSUME NEW l \in Lines, l # x
        PROVE  Holding(l)' = Holding(l) /\ \A j \in Holding(l) : j # i /\ j \in Slots
    BY <1>4, <1>6, <2>2 DEF Holding
  <2>3. \A l \in Lines : l # x => HeldData(l)' = HeldData(l)
    BY <1>6, <2>2 DEF HeldData
  <2> QED
    BY <2>1, <2>2, <2>3 DEF HeldData
<1>9. Below' = Below /\ Sent' = Sent /\ Waiting' = Waiting
  BY <1>2 DEF Below, Sent, Waiting
<1>10. LinkInv'
  BY <1>2, <1>3, <1>9 DEF HInv, LinkInv
<1>11. Asked' \in Seq(TopReq)
  BY <1>3, HeadTailProperties
<1>12. ASSUME NEW l \in Lines PROVE LineInv(l)'
  <2>1. LineInv(l) /\ WaitBelow(l)' = WaitBelow(l)
    BY <1>2 DEF HInv, WaitBelow
  <2>2. /\ OpenInv(l)'
        /\ l # x => ReadsAsked(l)' = ReadsAsked(l)
    BY <1>2, <1>3, <1>5, <1>11, <2>1, NatAfter, OpenAfterAnswer
  <2>3. /\ Chain(l, mem[l], Below, HeldData(l), Asked, l1[l].ver)
        /\ l1[l].ver =< latest[l] /\ BehindIn(l, Below)
        /\ \A d \in Coming(l) : FreshIn(l, mem[l], Below, l1[l].ver, d)
        /\ Fetching(l) /\ ReadsAsked(l) = 0 => Holding(l) = {}
    BY <2>1 DEF LineInv, OrderInv, AnswerInv
  <2>4. HeldData(l)' \in SUBSET HeldData(l)
    BY <1>8
  <2>5. Chain(l, mem[l], Below, HeldData(l)', Tail(Asked), l1[l].ver)
    BY <1>3, <2>3, <2>4, ChainServed
  <2>6. OrderInv(l)'
    BY <1>2, <1>3, <1>9, <2>3, <2>5 DEF OrderInv
  <2>7. ASSUME NEW d \in Coming(l)'
        PROVE  FreshIn(l, mem[l], Below, l1[l].ver, d)
    <3>1. CASE d \in Coming(l)
      BY <2>3, <3>1
    <3>2. CASE l = x /\ d = m.data
      <4>1. blocks[i].Data \in HeldData(l)
        BY <1>4, <3>2 DEF HeldData, Holding
      <4> QED
        BY <1>5, <2>3, <3>2, <4>1 DEF Chain, FreshIn
    <3>3. d \in ComingIn(l, Append(topOut, m), bottomIn, pendingBottom, sent)
      BY <1>2, <2>7 DEF Coming
    <3>4. \/ d \in ComingIn(l, topOut, bottomIn, pendingBottom, sent)
          \/ sent[m.rspTo] = l /\ d = m.data
      BY <1>5, <3>3, ComingAppended, HierarchyTypes
    <3> QED
      BY <1>3, <1>5, <3>1, <3>2, <3>4 DEF Coming
  <2>8. Fetching(l)' /\ ReadsAsked(l)' = 0 => Holding(l)' = {}
    BY <1>2, <1>8, <2>2, <2>3 DEF Fetching
  <2>9. AnswerInv(l)'
    BY <1>2, <1>9, <2>3, <2>7, <2>8 DEF AnswerInv
  <2> QED
    BY <2>2, <2>6, <2>9 DEF LineInv
<1> QED
  BY <1>10, <1>12 DEF HInv

(***************************************************************************)
(* Misses and answers from below                                           *)
(***************************************************************************)
\* The ID a new request gets is on no request and no answer.
LEMMA IDsFresh ==
  ASSUME TypeOK, LowInv
  PROVE  /\ \A p \in ToSet(pendingBottom) : p.BottomReqID # FreshID
         /\ \A r \in Sent : r.id # FreshID
         /\ \A q \in ToSet(bottomIn) : q.rspTo # FreshID
<1>1. \A p \in ToSet(pendingBottom) : p.BottomReqID \in Nat
  BY LedgerTypes DEF PendingBottom
<1>2. \A p \in ToSet(pendingBottom) : p.BottomReqID =< BottomSendCount
  BY DEF LowInv, Ledger
<1>3. \A p \in ToSet(pendingBottom) : p.BottomReqID # BottomSendCount + 1
  BY <1>1, <1>2 DEF TypeOK
<1>4. /\ \A r \in Sent : \E p \in ToSet(pendingBottom) : p.BottomReqID = r.id
      /\ \A q \in ToSet(bottomIn) :
           \E p \in ToSet(pendingBottom) : p.BottomReqID = q.rspTo
  BY DEF LowInv, Ledger
<1> QED
  BY <1>3, <1>4 DEF FreshID

\* An entry whose request is not answered yet adds nothing.
LEMMA ComingNoted ==
  ASSUME NEW l, NEW O, NEW B, NEW P \in Seq(PendingBottom), NEW s,
         NEW p \in PendingBottom, \A q \in ToSet(B) : q.rspTo # p.BottomReqID
  PROVE  ComingIn(l, O, B, Append(P, p), s) = ComingIn(l, O, B, P, s)
<1>1. ToSet(Append(P, p)) = ToSet(P) \cup {p}
  BY SetAppended
<1>2. ASSUME NEW q \in ToSet(B)
      PROVE  (\E u \in ToSet(Append(P, p)) \cap WaitFor(l, s) :
                u.BottomReqID = q.rspTo)
               <=> \E u \in ToSet(P) \cap WaitFor(l, s) : u.BottomReqID = q.rspTo
  BY <1>1
<1> QED
  BY <1>2 DEF ComingIn

\* handleRead where the line is not stored: the read goes below, behind every
\* write to the line.
LEMMA HierarchyMiss ==
  ASSUME HTypeOK, HTypeOK', LedgerInv, HInv, ReadMiss, UNCHANGED <<mem, client>>
  PROVE  HInv'
<1> USE DEF client
<1>1. PICK t, x, r, p :
        /\ t = Head(topTransactions) /\ x = t.line
        /\ r = [kind |-> "ReadReq", id |-> FreshID, line |-> x, data |-> NoData]
        /\ p = [BottomReqID |-> FreshID, IsEviction |-> FALSE,
                OrigReqID |-> t.id]
  OBVIOUS
<1>2. /\ topTransactions # <<>> /\ topTransactions' = Tail(topTransactions)
      /\ Holding(x) = {}
      /\ bottomOut' = Append(bottomOut, r)
      /\ pendingBottom' = Append(pendingBottom, p)
      /\ UNCHANGED <<blocks, topIn, topOut, issued, sent, bottomIn, lowReqs, l1,
                     evicting, latest>>
      /\ t.kind = "ReadReq"
  BY <1>1 DEF ReadMiss, SendReadBelow, HeadReady, store, topPort, outside
<1>3. /\ Asked \in Seq(TopReq) /\ Asked # <<>> /\ Asked' = Tail(Asked)
      /\ Head(Asked).kind = "ReadReq" /\ Head(Asked).line = x
      /\ t.id \in Nat /\ sent[t.id] = x /\ x \in Lines
      /\ \A k \in DOMAIN Asked' : Asked'[k].line = sent'[Asked'[k].id]
  BY <1>1, <1>2, HeadAsked
<1>4. /\ topOut \in Seq(TopRsp) /\ pendingBottom \in Seq(PendingBottom)
      /\ bottomOut \in Seq(TopReq) /\ lowReqs \in Seq(TopReq)
      /\ Below \in Seq(TopReq) /\ TypeOK /\ LowInv
  BY HierarchyTypes DEF LedgerInv
<1>5. /\ r \in TopReq /\ p \in PendingBottom /\ ~p.IsEviction
      /\ p.OrigReqID = t.id /\ p.BottomReqID = FreshID
      /\ r.id = FreshID /\ r.kind = "ReadReq" /\ r.line = x
  <2>1. FreshID \in Nat
    BY <1>4 DEF FreshID, TypeOK
  <2> QED
    BY <1>1, <1>3, <2>1 DEF TopReq, PendingBottom
<1>6. /\ \A u \in ToSet(pendingBottom) : u.BottomReqID # FreshID
      /\ \A u \in Sent : u.id # FreshID
      /\ \A q \in ToSet(bottomIn) : q.rspTo # FreshID
  BY <1>4, IDsFresh
<1>7. Below' = Append(Below, r)
  BY <1>2, <1>4, <1>5, ConcatAppend DEF Below
<1>8. Sent' = Sent \cup {r} /\ Waiting' = Waiting \cup {p}
  <2>1. /\ ToSet(bottomOut') = ToSet(bottomOut) \cup {r}
        /\ ToSet(pendingBottom') = ToSet(pendingBottom) \cup {p}
    BY <1>2, <1>4, <1>5, SetAppended
  <2> QED
    BY <1>2, <1>5, <2>1 DEF Sent, Waiting
<1>9. LinkInv'
  <2>1. \A u \in Waiting, q \in Sent :
          q.id = u.BottomReqID => q.line = sent[u.OrigReqID]
    BY DEF HInv, LinkInv
  <2>2. \A u \in Waiting : u.BottomReqID # FreshID
    BY <1>6 DEF Waiting
  <2>3. \A u \in Waiting \cup {p}, q \in Sent \cup {r} :
          q.id = u.BottomReqID => q.line = sent[u.OrigReqID]
    BY <1>3, <1>5, <1>6, <2>1, <2>2
  <2> QED
    BY <1>2, <1>3, <1>8, <2>3 DEF LinkInv
<1>10. Asked' \in Seq(TopReq)
  BY <1>3, HeadTailProperties
<1>11. ASSUME NEW l \in Lines PROVE LineInv(l)'
  <2>1. /\ LineInv(l) /\ Holding(l)' = Holding(l) /\ HeldData(l)' = HeldData(l)
        /\ DoneBack(l)' = DoneBack(l) /\ DataBack(l)' = DataBack(l)
    BY <1>2 DEF HInv, Holding, HeldData, DoneBack, DataBack
  <2>2. /\ Chain(l, mem[l], Below, HeldData(l), Asked, l1[l].ver)
        /\ l1[l].ver =< latest[l] /\ BehindIn(l, Below)
        /\ \A d \in Coming(l) : FreshIn(l, mem[l], Below, l1[l].ver, d)
        /\ Fetching(l) /\ ReadsAsked(l) = 0 => Holding(l) = {}
    BY <2>1 DEF LineInv, OrderInv, AnswerInv
  <2>3. Chain(l, mem[l], Append(Below, r), HeldData(l), Asked, l1[l].ver)
    BY <1>4, <1>5, <2>2, ChainSent
  <2>4. Chain(l, mem[l], Append(Below, r), HeldData(l), Tail(Asked), l1[l].ver)
    BY <1>3, <2>3, ChainServed
  <2>5. OrderInv(l)'
    BY <1>2, <1>3, <1>7, <2>1, <2>2, <2>4 DEF OrderInv
  <2>6. /\ WritesAsked(l)' = WritesAsked(l)
        /\ ReadsAsked(l)' + WaitBelow(l)' = ReadsAsked(l) + WaitBelow(l)
    <3>1. /\ Count(Tail(Asked), WriteTo(l)) = Count(Asked, WriteTo(l))
          /\ Count(Tail(Asked), ReadTo(l))
               + Count(Append(pendingBottom, p), WaitFor(l, sent)) =
                 Count(Asked, ReadTo(l)) + Count(pendingBottom, WaitFor(l, sent))
      <4>1. sent[p.OrigReqID] = Head(Asked).line /\ Head(Asked).kind = "ReadReq"
        BY <1>3, <1>5
      <4>2. /\ Asked \in Seq(TopReq) /\ Asked # <<>>
            /\ pendingBottom \in Seq(PendingBottom)
            /\ p \in PendingBottom /\ ~p.IsEviction
        BY <1>3, <1>4, <1>5
      <4>3. Count(Tail(Asked), WriteTo(l)) = Count(Asked, WriteTo(l))
        BY <4>1, <4>2, OpenPassed
      <4>4. Count(Tail(Asked), ReadTo(l))
              + Count(Append(pendingBottom, p), WaitFor(l, sent)) =
                Count(Asked, ReadTo(l)) + Count(pendingBottom, WaitFor(l, sent))
        BY <4>1, <4>2, OpenPassed
      <4> QED
        BY <4>3, <4>4
    <3> QED
      BY <1>2, <1>3, <3>1 DEF WritesAsked, ReadsAsked, WaitBelow
  <2>7. OpenInv(l)'
    <3>1. /\ evicting[l] = WritesAsked(l) + DoneBack(l)
          /\ ReadsAsked(l) + WaitBelow(l) + DataBack(l) =
               IF Fetching(l) THEN 1 ELSE 0
          /\ Fetching(l) => evicting[l] = 0
      BY <2>1 DEF LineInv, OpenInv
    <3>2. /\ ReadsAsked(l)' \in Nat /\ WaitBelow(l)' \in Nat
          /\ ReadsAsked(l) \in Nat /\ WaitBelow(l) \in Nat /\ DataBack(l) \in Nat
      BY <1>10, NatAfter, CountsNat
    <3>3. ReadsAsked(l)' + WaitBelow(l)' + DataBack(l)' =
            ReadsAsked(l) + WaitBelow(l) + DataBack(l)
      BY <2>1, <2>6, <3>2
    <3>4. evicting' = evicting /\ (Fetching(l)' <=> Fetching(l))
      BY <1>2 DEF Fetching
    <3> QED
      BY <2>1, <2>6, <3>1, <3>3, <3>4 DEF OpenInv
  <2>8. Coming(l)' = Coming(l)
    <3>1. ComingIn(l, topOut, bottomIn, Append(pendingBottom, p), sent) =
            ComingIn(l, topOut, bottomIn, pendingBottom, sent)
      BY <1>4, <1>5, <1>6, ComingNoted
    <3> QED
      BY <1>2, <3>1 DEF Coming
  <2>9. \A d \in Coming(l) : FreshIn(l, mem[l], Append(Below, r), l1[l].ver, d)
    BY <1>4, <1>5, <2>2, FreshSent
  <2>10. BehindIn(l, Append(Below, r))
    BY <1>4, <1>5, <2>2, BehindSent
  <2>11. Fetching(l)' /\ ReadsAsked(l)' = 0 => Holding(l)' = {}
    <3>1. CASE l = x
      BY <1>2, <2>1, <3>1
    <3>2. CASE l # x
      <4>1. Head(Asked) \notin ReadTo(l)
        BY <1>3, <3>2 DEF ReadTo
      <4>2. ReadsAsked(l)' = ReadsAsked(l) - 0
        BY <1>3, <4>1, CountTypes DEF ReadsAsked
      <4>3. ReadsAsked(l)' = ReadsAsked(l)
        BY <4>2, CountsNat
      <4> QED
        BY <1>2, <2>1, <2>2, <4>3 DEF Fetching
    <3> QED
      BY <3>1, <3>2
  <2>12. AnswerInv(l)'
    BY <1>2, <1>7, <2>8, <2>9, <2>10, <2>11 DEF AnswerInv
  <2> QED
    BY <2>5, <2>7, <2>12 DEF LineInv
<1> QED
  BY <1>9, <1>11 DEF HInv

\* An answer from below is taken and, for a read, passed on.
LEMMA HierarchyStruck ==
  ASSUME HTypeOK, HTypeOK', LedgerInv, HInv,
         CompleteBottomRead \/ CompleteBottomWrite, UNCHANGED <<mem, client>>
  PROVE  HInv'
<1> USE DEF client
<1>1. PICK b, k : b = Head(bottomIn) /\ k = Pending(b)
  OBVIOUS
<1>2. PICK p : p = pendingBottom[k]
  OBVIOUS
<1>3. /\ bottomIn # <<>> /\ k # 0
      /\ bottomIn' = Tail(bottomIn) /\ pendingBottom' = RemoveAt(pendingBottom, k)
      /\ UNCHANGED <<blocks, topTransactions, topIn, issued, sent, bottomOut,
                     lowReqs, l1, evicting, latest, BottomSendCount>>
      /\ \/ /\ b.kind = "DataReadyRsp"
            /\ topOut' = Append(topOut, DataReady(p.OrigReqID, b.data))
         \/ b.kind = "WriteDoneRsp" /\ topOut' = topOut
  BY <1>1, <1>2
  DEF CompleteBottomRead, CompleteBottomWrite, store, stats, topPort, outside
<1>4. /\ topOut \in Seq(TopRsp) /\ pendingBottom \in Seq(PendingBottom)
      /\ bottomIn \in Seq(TopRsp) /\ b \in TopRsp /\ b \in ToSet(bottomIn)
      /\ ToSet(bottomIn') \subseteq ToSet(bottomIn) /\ TypeOK /\ LowInv
  <2>1. /\ topOut \in Seq(TopRsp) /\ pendingBottom \in Seq(PendingBottom)
        /\ bottomIn \in Seq(TopRsp) /\ TypeOK /\ LowInv
    BY HierarchyTypes DEF LedgerInv
  <2>2. IsInjective(bottomIn)
    BY <2>1 DEF LowInv
  <2>3. /\ Head(bottomIn) \in ToSet(bottomIn) /\ Head(bottomIn) \in TopRsp
        /\ ToSet(Tail(bottomIn)) = ToSet(bottomIn) \ {Head(bottomIn)}
    BY <1>3, <2>1, <2>2, ElementsAfterHead
  <2> QED
    BY <1>1, <1>3, <2>1, <2>3
<1>5. /\ p.IsEviction <=> b.kind = "WriteDoneRsp"
      /\ k \in 1 .. Len(pendingBottom) /\ p \in PendingBottom
      /\ p \in ToSet(pendingBottom) /\ p.BottomReqID = b.rspTo
      /\ ToSet(pendingBottom') \subseteq ToSet(pendingBottom)
  <2>1. /\ p.IsEviction <=> b.kind = "WriteDoneRsp"
        /\ k \in 1 .. Len(pendingBottom) /\ p \in PendingBottom
        /\ p \in ToSet(pendingBottom)
        /\ ToSet(pendingBottom') = ToSet(pendingBottom) \ {p}
    BY <1>1, <1>2, <1>3, <1>4, LowAfterResponse
  <2>2. p.BottomReqID = b.rspTo
    BY <1>1, <1>2, <1>3, <1>4, PendingAnswers
  <2> QED
    BY <2>1, <2>2
<1>6. /\ Asked' = Asked /\ Below' = Below /\ Sent' = Sent
      /\ Waiting' \subseteq Waiting
  BY <1>3, <1>5 DEF Asked, Below, Sent, Waiting
<1>7. LinkInv'
  BY <1>3, <1>6 DEF HInv, LinkInv
<1>8. Asked' \in Seq(TopReq)
  BY <1>6, HierarchyTypes
<1>9. ASSUME NEW l \in Lines
      PROVE  /\ LineInv(l) /\ Holding(l)' = Holding(l) /\ HeldData(l)' = HeldData(l)
             /\ (Fetching(l)' <=> Fetching(l)) /\ l1'[l].ver = l1[l].ver
             /\ mem'[l] = mem[l] /\ evicting'[l] = evicting[l]
             /\ latest'[l] = latest[l]
             /\ ReadsAsked(l) \in Nat /\ WaitBelow(l) \in Nat
             /\ DataBack(l) \in Nat /\ WaitBelow(l)' \in Nat
             /\ DataBack(l)' \in Nat
  <2>1. /\ ReadsAsked(l) \in Nat /\ WaitBelow(l) \in Nat
        /\ DataBack(l) \in Nat /\ WaitBelow(l)' \in Nat
        /\ DataBack(l)' \in Nat
    BY <1>8, NatAfter, CountsNat
  <2> QED
    BY <1>3, <2>1 DEF HInv, Holding, HeldData, Fetching
<1>10. CASE b.kind = "DataReadyRsp"
  <2>1. PICK m : m = DataReady(p.OrigReqID, b.data)
    OBVIOUS
  <2>2. /\ m \in TopRsp /\ m.kind = "DataReadyRsp" /\ m.rspTo = p.OrigReqID
        /\ m.data = b.data /\ topOut' = Append(topOut, m) /\ ~p.IsEviction
    BY <1>3, <1>4, <1>5, <1>10, <2>1 DEF TopRsp, DataReady, PendingBottom
  <2>3. ASSUME NEW l \in Lines PROVE LineInv(l)'
    <3>1. /\ DoneBack(l)' = DoneBack(l)
          /\ WaitBelow(l)' + DataBack(l)' = WaitBelow(l) + DataBack(l)
      <4>1. /\ Count(Append(topOut, m), DoneFor(l, sent)) =
                 Count(topOut, DoneFor(l, sent))
            /\ Count(RemoveAt(pendingBottom, k), WaitFor(l, sent))
                 + Count(Append(topOut, m), DataFor(l, sent)) =
                   Count(pendingBottom, WaitFor(l, sent))
                     + Count(topOut, DataFor(l, sent))
        BY <1>2, <1>4, <1>5, <2>2, OpenReturned
      <4> QED
        BY <1>3, <2>2, <4>1 DEF DoneBack, WaitBelow, DataBack
    <3>2. Coming(l)' \subseteq Coming(l)
      <4> SUFFICES ASSUME NEW d \in Coming(l)' PROVE d \in Coming(l)
        OBVIOUS
      <4>1. d \in ComingIn(l, Append(topOut, m), bottomIn', pendingBottom', sent)
        BY <1>3, <2>2 DEF Coming
      <4>2. \/ d \in ComingIn(l, topOut, bottomIn', pendingBottom', sent)
            \/ sent[m.rspTo] = l /\ d = m.data
        BY <1>4, <2>2, <4>1, ComingAppended
      <4>3. CASE d \in ComingIn(l, topOut, bottomIn', pendingBottom', sent)
        BY <1>4, <1>5, <4>3 DEF Coming, ComingIn
      <4>4. CASE sent[m.rspTo] = l /\ d = m.data
        <5>1. p \in ToSet(pendingBottom) \cap WaitFor(l, sent)
          BY <1>5, <2>2, <4>4 DEF WaitFor
        <5> QED
          BY <1>4, <1>5, <1>10, <2>2, <4>4, <5>1 DEF Coming, ComingIn
      <4> QED
        BY <4>2, <4>3, <4>4
    <3> QED
      BY <1>6, <1>9, <3>1, <3>2, LineUntouched
  <2> QED
    BY <1>7, <2>3 DEF HInv
<1>11. CASE b.kind = "WriteDoneRsp"
  <2>1. topOut' = topOut /\ p.IsEviction
    BY <1>3, <1>5, <1>11
  <2>2. ASSUME NEW l \in Lines PROVE LineInv(l)'
    <3>1. DoneBack(l)' = DoneBack(l) /\ DataBack(l)' = DataBack(l)
      BY <1>3, <2>1 DEF DoneBack, DataBack
    <3>2. WaitBelow(l)' = WaitBelow(l) - 0
      <4>1. p \notin WaitFor(l, sent)
        BY <2>1 DEF WaitFor
      <4>2. Count(RemoveAt(pendingBottom, k), WaitFor(l, sent)) =
              Count(pendingBottom, WaitFor(l, sent)) - 0
        BY <1>2, <1>4, <1>5, <4>1, CountTypes
      <4> QED
        BY <1>3, <4>2 DEF WaitBelow
    <3>3. WaitBelow(l)' = WaitBelow(l)
      BY <1>9, <3>2
    <3>4. Coming(l)' \subseteq Coming(l)
      BY <1>3, <1>4, <1>5, <2>1 DEF Coming, ComingIn
    <3> QED
      BY <1>6, <1>9, <3>1, <3>3, <3>4, LineUntouched
  <2> QED
    BY <1>7, <2>2 DEF HInv
<1> QED
  BY <1>3, <1>10, <1>11

(***************************************************************************)
(* Writes                                                                  *)
(***************************************************************************)
\* The slots after a write took slot i.
LEMMA PutSlots ==
  ASSUME blocks \in [Slots -> Block], UniqueTags, NEW i \in Slots, NEW t, NEW x,
         x = t.line, blocks' = [blocks EXCEPT ![i] = Filled(t)],
         Holding(x) \subseteq {i}
  PROVE  /\ HeldData(x)' = {t.data}
         /\ \A l : l # x => /\ Holding(l)' \subseteq Holding(l)
                            /\ HeldData(l)' \subseteq HeldData(l)
         /\ \A l : l # x /\ i \in Holding(l) => HeldData(l)' = {}
<1>1. /\ blocks'[i].Valid /\ blocks'[i].Tag = x /\ blocks'[i].Data = t.data
      /\ \A j \in Slots : j # i => blocks'[j] = blocks[j]
  BY DEF Filled
<1>2. Holding(x)' = {i}
  BY <1>1 DEF Holding
<1>3. HeldData(x)' = {t.data}
  BY <1>1, <1>2 DEF HeldData
<1>4. ASSUME NEW l, l # x
      PROVE  /\ Holding(l)' \subseteq Holding(l) \ {i}
             /\ HeldData(l)' \subseteq HeldData(l)
  <2>1. Holding(l)' \subseteq Holding(l) \ {i}
    BY <1>1, <1>4 DEF Holding
  <2>2. \A j \in Holding(l)' : blocks'[j].Data = blocks[j].Data
    BY <1>1, <2>1 DEF Holding
  <2> QED
    BY <2>1, <2>2 DEF HeldData
<1>5. ASSUME NEW l, l # x, i \in Holding(l) PROVE HeldData(l)' = {}
  <2>1. Holding(l) \subseteq {i}
    BY <1>5 DEF UniqueTags, Holding
  <2>2. Holding(l)' = {}
    BY <1>4, <1>5, <2>1
  <2> QED
    BY <2>2 DEF HeldData
<1> QED
  BY <1>3, <1>4, <1>5

\* What goes below when a write takes slot i leaves the order as it is.
BelowKept(l, I) ==
  /\ Chain(l, mem[l], Below', I, Asked, l1[l].ver)
  /\ \A d \in Coming(l) : FreshIn(l, mem[l], Below', l1[l].ver, d)
  /\ BehindIn(l, Below')

\* Nothing goes below.
LEMMA NothingSent ==
  ASSUME NEW l \in Lines, LineInv(l), Below' = Below, NEW I \in SUBSET HeldData(l)
  PROVE  BelowKept(l, I)
<1>1. /\ Chain(l, mem[l], Below, HeldData(l), Asked, l1[l].ver)
      /\ BehindIn(l, Below)
      /\ \A d \in Coming(l) : FreshIn(l, mem[l], Below, l1[l].ver, d)
  BY DEF LineInv, OrderInv, AnswerInv
<1>2. Chain(l, mem[l], Below, I, Asked, l1[l].ver)
  BY <1>1 DEF Chain
<1> QED
  BY <1>1, <1>2 DEF BelowKept

\* The stored version of the line goes below.
LEMMA VictimSent ==
  ASSUME HTypeOK, LedgerInv, HInv, NEW l \in Lines, NEW i \in Slots,
         blocks[i].Valid, NEW r \in TopReq, r.kind = "WriteReq",
         r.line = blocks[i].Tag, r.data = blocks[i].Data,
         Below' = Append(Below, r), NEW I \in SUBSET HeldData(l),
         r.line = l => I = {}
  PROVE  BelowKept(l, I)
<1>1. /\ LineInv(l) /\ Below \in Seq(TopReq)
      /\ Chain(l, mem[l], Below, HeldData(l), Asked, l1[l].ver)
      /\ BehindIn(l, Below)
      /\ \A d \in Coming(l) : FreshIn(l, mem[l], Below, l1[l].ver, d)
  BY HierarchyTypes DEF HInv, LineInv, OrderInv, AnswerInv
<1>2. r.line = l => i \in Holding(l) /\ r.data \in HeldData(l)
  BY DEF Holding, HeldData
<1>3. Chain(l, mem[l], Append(Below, r), I, Asked, l1[l].ver)
  BY <1>1, <1>2, ChainSent
<1>4. r.line = l => WaitBelow(l) = 0 /\ DataBack(l) = 0 /\ Coming(l) = {}
  BY <1>1, <1>2, Opened
<1>5. \A d \in Coming(l) : FreshIn(l, mem[l], Append(Below, r), l1[l].ver, d)
  <2>1. CASE r.line = l
    BY <1>4, <2>1
  <2>2. CASE r.line # l
    BY <1>1, <2>2, FreshSent
  <2> QED
    BY <2>1, <2>2
<1>6. BehindIn(l, Append(Below, r))
  <2>1. ASSUME r.line = l, NEW q \in ToSet(Below)
        PROVE  ~(q.kind = "ReadReq" /\ q.line = l)
    <3> SUFFICES ASSUME q.kind = "ReadReq", q.line = l PROVE FALSE
      OBVIOUS
    <3>1. q \in Sent
      BY SentIsBelow
    <3>2. PICK p \in ToSet(pendingBottom) : p \in WaitFor(l, sent)
      BY <3>1, ReadBelowWaits DEF HInv, LedgerInv
    <3>3. WaitBelow(l) # 0
      BY <3>2, Members
    <3> QED
      BY <1>4, <2>1, <3>3
  <2> QED
    BY <1>1, <2>1, BehindSent
<1> QED
  BY <1>3, <1>5, <1>6 DEF BelowKept

\* A write takes slot i and is acknowledged.
LEMMA HierarchyPut ==
  ASSUME HTypeOK, HTypeOK', UniqueTags, LedgerInv, HInv, HeadReady("WriteReq"),
         UNCHANGED <<mem, client>>, NEW i \in Slots, PutAndAck(i),
         NEW x, x = Head(topTransactions).line, Holding(x) \subseteq {i},
         LinkInv => \A p \in Waiting', r \in Sent' :
                      r.id = p.BottomReqID => r.line = sent[p.OrigReqID],
         \A l \in Lines : WaitBelow(l)' = WaitBelow(l),
         \A l \in Lines :
           ComingIn(l, topOut, bottomIn, pendingBottom', sent) = Coming(l),
         BelowKept(x, HeldData(x)),
         \A l \in Lines : l # x => BelowKept(l, HeldData(l)')
  PROVE  HInv'
<1> USE DEF client
<1>1. PICK t, m : t = Head(topTransactions) /\ m = WriteDone(t.id)
  OBVIOUS
<1>2. /\ topTransactions # <<>> /\ topTransactions' = Tail(topTransactions)
      /\ t.kind = "WriteReq" /\ x = t.line
      /\ blocks' = [blocks EXCEPT ![i] = Filled(t)]
      /\ topOut' = Append(topOut, m)
      /\ UNCHANGED <<topIn, issued, sent, bottomIn, lowReqs, l1, evicting, latest>>
  BY <1>1 DEF PutAndAck, HeadReady, outside
<1>3. /\ Asked \in Seq(TopReq) /\ Asked # <<>> /\ Asked' = Tail(Asked)
      /\ Head(Asked).kind = "WriteReq" /\ Head(Asked).line = x
      /\ Head(Asked).data = t.data /\ Head(Asked) \in TopReq
      /\ t.id \in Nat /\ sent[t.id] = x /\ x \in Lines
      /\ \A k \in DOMAIN Asked' : Asked'[k].line = sent'[Asked'[k].id]
  BY <1>1, <1>2, HeadAsked
<1>4. /\ m \in TopRsp /\ m.kind = "WriteDoneRsp" /\ m.rspTo = t.id
  BY <1>1, <1>3 DEF WriteDone, TopRsp
<1>5. blocks \in [Slots -> Block] /\ topOut \in Seq(TopRsp)
  BY HierarchyTypes DEF HTypeOK, TypeOK
<1>6. /\ HeldData(x)' = {t.data}
      /\ \A l : l # x => /\ Holding(l)' \subseteq Holding(l)
                         /\ HeldData(l)' \subseteq HeldData(l)
  BY <1>2, <1>5, PutSlots
<1>7. LinkInv'
  BY <1>2, <1>3 DEF HInv, LinkInv
<1>8. Asked' \in Seq(TopReq)
  BY <1>3, HeadTailProperties
<1>9. ~Fetching(x) /\ Coming(x) = {}
  <2>1. WritesAsked(x) # 0
    <3>1. Head(Asked) \in ToSet(Asked)
      BY <1>3, HeadTailProperties, LenProperties, EmptySeq DEF ToSet
    <3>2. Head(Asked) \in WriteTo(x)
      BY <1>3 DEF WriteTo
    <3> QED
      BY <3>1, <3>2, Members
  <2>2. LineInv(x)
    BY <1>3 DEF HInv
  <2> QED
    BY <1>3, <2>1, <2>2, Opened
<1>10. ASSUME NEW l \in Lines PROVE LineInv(l)'
  <2>1. LineInv(l) /\ WaitBelow(l)' = WaitBelow(l)
    BY DEF HInv
  <2>2. OpenInv(l)' /\ ReadsAsked(l)' = ReadsAsked(l)
    BY <1>2, <1>3, <1>4, <1>8, <2>1, NatAfter, OpenAfterAnswer
  <2>3. /\ l1[l].ver =< latest[l]
        /\ Fetching(l) /\ ReadsAsked(l) = 0 => Holding(l) = {}
    BY <2>1 DEF LineInv, OrderInv, AnswerInv
  <2>4. /\ \A d \in Coming(l) : FreshIn(l, mem[l], Below', l1[l].ver, d)
        /\ BehindIn(l, Below')
    BY DEF BelowKept
  <2>5. Chain(l, mem[l], Below', HeldData(l)', Tail(Asked), l1[l].ver)
    <3>1. CASE l = x
      <4>1. Chain(l, mem[l], Below', HeldData(l), Asked, l1[l].ver)
        BY <3>1 DEF BelowKept
      <4>2. Chain(l, mem[l], Below', {Head(Asked).data}, Tail(Asked), l1[l].ver)
        BY <1>3, <3>1, <4>1, ChainPut
      <4> QED
        BY <1>3, <1>6, <3>1, <4>2
    <3>2. CASE l # x
      <4>1. Chain(l, mem[l], Below', HeldData(l)', Asked, l1[l].ver)
        BY <3>2 DEF BelowKept
      <4> QED
        BY <1>3, <4>1, ChainServed
    <3> QED
      BY <3>1, <3>2
  <2>6. OrderInv(l)'
    BY <1>2, <1>3, <2>3, <2>5 DEF OrderInv
  <2>7. Coming(l)' \subseteq Coming(l)
    <3> SUFFICES ASSUME NEW d \in Coming(l)' PROVE d \in Coming(l)
      OBVIOUS
    <3>1. d \in ComingIn(l, Append(topOut, m), bottomIn, pendingBottom', sent)
      BY <1>2 DEF Coming
    <3>2. d \in ComingIn(l, topOut, bottomIn, pendingBottom', sent)
      BY <1>4, <1>5, <3>1, ComingAppended
    <3> QED
      BY <3>2
  <2>8. Fetching(l)' /\ ReadsAsked(l)' = 0 => Holding(l)' = {}
    <3>1. Fetching(l)' <=> Fetching(l)
      BY <1>2 DEF Fetching
    <3> QED
      BY <1>6, <1>9, <2>2, <2>3, <3>1
  <2>9. AnswerInv(l)'
    BY <1>2, <2>4, <2>7, <2>8 DEF AnswerInv
  <2> QED
    BY <2>2, <2>6, <2>9 DEF LineInv
<1> QED
  BY <1>7, <1>10 DEF HInv

\* handleWrite where there is room.
LEMMA HierarchyStore ==
  ASSUME HTypeOK, HTypeOK', UniqueTags, LedgerInv, HInv,
         WriteResident \/ WriteEmpty, UNCHANGED <<mem, client>>
  PROVE  HInv'
<1> USE DEF client
<1>1. PICK x : x = Head(topTransactions).line
  OBVIOUS
<1>2. PICK i : i = IF Holding(x) # {} THEN Min(Holding(x)) ELSE Min(Empty)
  OBVIOUS
<1>3. /\ HeadReady("WriteReq") /\ PutAndAck(i)
      /\ UNCHANGED <<pendingBottom, bottomOut>>
      /\ Holding(x) = {} => Empty # {}
  BY <1>1, <1>2 DEF WriteResident, WriteEmpty
<1>4. i \in Slots /\ Holding(x) \subseteq {i}
  <2>1. CASE Holding(x) # {}
    <3>1. i \in Slots /\ blocks[i].Valid /\ blocks[i].Tag = x
      BY <1>2, <2>1, FirstHolding
    <3> QED
      BY <3>1 DEF UniqueTags, Holding
  <2>2. CASE Holding(x) = {}
    BY <1>2, <1>3, <2>2, FirstEmpty
  <2> QED
    BY <2>1, <2>2
<1>5. /\ topTransactions # <<>> /\ topTransactions' = Tail(topTransactions)
      /\ blocks' = [blocks EXCEPT ![i] = Filled(Head(topTransactions))]
      /\ UNCHANGED <<lowReqs, sent, topIn, issued, bottomIn>>
  BY <1>3 DEF HeadReady, PutAndAck, outside
<1>6. x \in Lines
  BY <1>1, <1>5, HeadAsked
<1>7. Below' = Below /\ Sent' = Sent /\ Waiting' = Waiting
  BY <1>3, <1>5 DEF Below, Sent, Waiting
<1>8. ASSUME NEW l \in Lines
      PROVE  /\ WaitBelow(l)' = WaitBelow(l)
             /\ ComingIn(l, topOut, bottomIn, pendingBottom', sent) = Coming(l)
             /\ LineInv(l)
  BY <1>3, <1>5 DEF WaitBelow, Coming, HInv
<1>9. LinkInv => \A p \in Waiting', r \in Sent' :
                   r.id = p.BottomReqID => r.line = sent[p.OrigReqID]
  BY <1>7 DEF LinkInv
<1>10. \A l : l # x => HeldData(l)' \subseteq HeldData(l)
  BY <1>1, <1>4, <1>5, PutSlots DEF HTypeOK, TypeOK
<1>11. BelowKept(x, HeldData(x))
  BY <1>6, <1>7, <1>8, NothingSent
<1>12. \A l \in Lines : l # x => BelowKept(l, HeldData(l)')
  BY <1>7, <1>8, <1>10, NothingSent
<1> QED
  BY <1>1, <1>3, <1>4, <1>8, <1>9, <1>11, <1>12, HierarchyPut

\* handleWrite where the least recently used line makes room.
LEMMA HierarchyFull ==
  ASSUME HTypeOK, HTypeOK', UniqueTags, ResidentIsDirty, LedgerInv, HInv,
         WriteFull, UNCHANGED <<mem, client>>
  PROVE  HInv'
<1> USE DEF client
<1>1. PICK x, i, r, p :
        /\ x = Head(topTransactions).line /\ i = LruIdx
        /\ r = [kind |-> "WriteReq", id |-> FreshID,
                line |-> blocks[i].Tag, data |-> blocks[i].Data]
        /\ p = [BottomReqID |-> FreshID, IsEviction |-> TRUE, OrigReqID |-> 0]
  OBVIOUS
<1>2. /\ blocks \in [Slots -> Block] /\ i \in Slots /\ blocks[i].Valid
      /\ blocks[i].Dirty /\ blocks[i] \in Block /\ Holding(x) = {}
      /\ HeadReady("WriteReq") /\ PutAndAck(i)
  <2>1. blocks \in [Slots -> Block]
    BY DEF HTypeOK, TypeOK
  <2>2. i \in Slots
    BY <1>1, <2>1, LruIdxIsOldest
  <2>3. blocks[i].Valid
    BY <2>2 DEF WriteFull, Empty
  <2> QED
    BY <1>1, <2>1, <2>2, <2>3 DEF WriteFull, ResidentIsDirty
<1>3. /\ bottomOut' = Append(bottomOut, r)
      /\ pendingBottom' = Append(pendingBottom, p)
  BY <1>1, <1>2 DEF WriteFull
<1>4. /\ topTransactions # <<>> /\ topTransactions' = Tail(topTransactions)
      /\ blocks' = [blocks EXCEPT ![i] = Filled(Head(topTransactions))]
      /\ UNCHANGED <<lowReqs, sent, topIn, issued, bottomIn>>
  BY <1>2 DEF HeadReady, PutAndAck, outside
<1>5. x \in Lines
  BY <1>1, <1>4, HeadAsked
<1>6. /\ pendingBottom \in Seq(PendingBottom) /\ bottomOut \in Seq(TopReq)
      /\ lowReqs \in Seq(TopReq) /\ TypeOK /\ LowInv
  BY HierarchyTypes DEF LedgerInv
<1>7. /\ r \in TopReq /\ r.kind = "WriteReq" /\ r.id = FreshID
      /\ r.line = blocks[i].Tag /\ r.data = blocks[i].Data
      /\ p \in PendingBottom /\ p.IsEviction /\ p.BottomReqID = FreshID
  <2>1. FreshID \in Nat
    BY <1>6 DEF FreshID, TypeOK
  <2> QED
    BY <1>1, <1>2, <2>1 DEF TopReq, PendingBottom, Block
<1>8. /\ \A u \in ToSet(pendingBottom) : u.BottomReqID # FreshID
      /\ \A q \in ToSet(bottomIn) : q.rspTo # FreshID
  BY <1>6, IDsFresh
<1>9. Below' = Append(Below, r)
  BY <1>3, <1>4, <1>6, <1>7, ConcatAppend DEF Below
<1>10. Sent' = Sent \cup {r} /\ Waiting' = Waiting
  <2>1. /\ ToSet(bottomOut') = ToSet(bottomOut) \cup {r}
        /\ ToSet(pendingBottom') = ToSet(pendingBottom) \cup {p}
    BY <1>3, <1>6, <1>7, SetAppended
  <2> QED
    BY <1>4, <1>7, <2>1 DEF Sent, Waiting
<1>11. LinkInv => \A u \in Waiting', q \in Sent' :
                    q.id = u.BottomReqID => q.line = sent[u.OrigReqID]
  <2>1. \A u \in Waiting : u.BottomReqID # r.id
    BY <1>7, <1>8 DEF Waiting
  <2> QED
    BY <1>10, <2>1 DEF LinkInv
<1>12. ASSUME NEW l \in Lines
       PROVE  /\ WaitBelow(l)' = WaitBelow(l)
              /\ ComingIn(l, topOut, bottomIn, pendingBottom', sent) = Coming(l)
  <2>1. Count(Append(pendingBottom, p), WaitFor(l, sent)) =
          Count(pendingBottom, WaitFor(l, sent)) + 0
    BY <1>6, <1>7, CountTypes DEF WaitFor
  <2>2. WaitBelow(l)' = WaitBelow(l) + 0
    BY <1>3, <1>4, <2>1 DEF WaitBelow
  <2>3. ComingIn(l, topOut, bottomIn, Append(pendingBottom, p), sent) =
          ComingIn(l, topOut, bottomIn, pendingBottom, sent)
    BY <1>6, <1>7, <1>8, ComingNoted
  <2> QED
    BY <1>3, <2>2, <2>3, CountsNat DEF Coming
<1>13. /\ \A l : l # x => HeldData(l)' \subseteq HeldData(l)
       /\ \A l : l # x /\ i \in Holding(l) => HeldData(l)' = {}
  BY <1>1, <1>2, <1>4, PutSlots
<1>14. BelowKept(x, HeldData(x))
  <2>1. HeldData(x) = {}
    BY <1>2 DEF HeldData
  <2> QED
    BY <1>2, <1>5, <1>7, <1>9, <2>1, VictimSent
<1>15. ASSUME NEW l \in Lines, l # x PROVE BelowKept(l, HeldData(l)')
  <2>1. HeldData(l)' \in SUBSET HeldData(l)
    BY <1>13, <1>15
  <2>2. r.line = l => HeldData(l)' = {}
    BY <1>2, <1>7, <1>13, <1>15 DEF Holding
  <2> QED
    BY <1>2, <1>7, <1>9, <2>1, <2>2, VictimSent
<1>16. Holding(x) \subseteq {i}
  BY <1>2
<1> QED
  BY <1>1, <1>2, <1>11, <1>12, <1>14, <1>15, <1>16, HierarchyPut

(***************************************************************************)
(* The theorems                                                            *)
(***************************************************************************)
\* Every line is version 0 in memory and nowhere else.
LEMMA HierarchyInit == HInit => HTypeOK /\ HInv
<1> SUFFICES ASSUME HInit PROVE HTypeOK /\ HInv
  OBVIOUS
<1>1. HTypeOK
  <2>1. TypeOK /\ issued = 0
    BY TypeInit DEF HInit, Init
  <2>2. sent \in Seq(Lines) /\ Len(sent) = 0 /\ 0 \in Data
    BY EmptySeq, VersionAssumption DEF HInit
  <2> QED
    BY <2>1, <2>2 DEF HInit, HTypeOK
<1>2. /\ DOMAIN pendingBottom = {} /\ DOMAIN lowReqs = {} /\ DOMAIN bottomOut = {}
      /\ DOMAIN bottomIn = {} /\ DOMAIN topOut = {} /\ Len(topTransactions) = 0
      /\ Len(topIn) = 0 /\ lowReqs = <<>> /\ bottomOut = <<>>
  BY DEF HInit, Init
<1>3. /\ ToSet(pendingBottom) = {} /\ ToSet(topOut) = {} /\ ToSet(bottomIn) = {}
      /\ Waiting = {} /\ Sent = {}
  BY <1>2 DEF ToSet, Waiting, Sent
<1>4. Asked \in Seq(TopReq) /\ Len(Asked) = 0
  BY <1>1, <1>2, LedgerTypes DEF HTypeOK
<1>5. DOMAIN Asked = {} /\ DOMAIN Below = {}
  <2>1. Below = <<>>
    BY <1>2 DEF Below
  <2> QED
    BY <1>4, <2>1, LenProperties
<1>6. LinkInv
  BY <1>3, <1>5 DEF LinkInv
<1>7. ASSUME NEW l \in Lines PROVE LineInv(l)
  <2>1. Holding(l) = {} /\ HeldData(l) = {} /\ Coming(l) = {}
    BY <1>3 DEF HInit, Init, Holding, HeldData, Coming, ComingIn
  <2>2. WritesTo(l, Below) = {} /\ WritesTo(l, Asked) = {}
    BY <1>5 DEF WritesTo
  <2>3. /\ mem[l] = 0 /\ l1[l].ver = 0 /\ latest[l] = 0 /\ evicting[l] = 0
        /\ l1[l].state = "absent"
    BY DEF HInit
  <2>4. OrderInv(l)
    BY <2>1, <2>2, <2>3 DEF OrderInv, Chain
  <2>5. /\ ReadsAsked(l) = 0 /\ WritesAsked(l) = 0 /\ WaitBelow(l) = 0
        /\ DataBack(l) = 0 /\ DoneBack(l) = 0
    <3>1. \A T : /\ Positions(Asked, T) = {} /\ Positions(pendingBottom, T) = {}
                 /\ Positions(topOut, T) = {}
      BY <1>2, <1>5 DEF Positions
    <3> QED
      BY <3>1, FS_EmptySet
      DEF Count, ReadsAsked, WritesAsked, WaitBelow, DataBack, DoneBack
  <2>6. OpenInv(l)
    BY <2>3, <2>5 DEF OpenInv, Fetching
  <2>7. AnswerInv(l)
    BY <1>5, <2>1 DEF AnswerInv, BehindIn
  <2> QED
    BY <2>4, <2>6, <2>7 DEF LineInv
<1> QED
  BY <1>1, <1>6, <1>7 DEF HInv

\* The victim cache and the ports.
LEMMA HierarchyCache ==
  ASSUME HTypeOK, HTypeOK', SlotInv, LedgerInv, HInv, VictimCacheStep
  PROVE  HInv'
<1> USE DEF client
<1>1. /\ UNCHANGED <<mem, client>> /\ UniqueTags /\ ResidentIsDirty
      /\ TypeOK /\ TypeOK'
      /\ Component \/ BottomCollect \/ NotifyAvailable
  BY DEF VictimCacheStep, SlotInv, HTypeOK
<1>2. \A l \in Lines : /\ l1'[l].ver = l1[l].ver
                       /\ Fetching(l)' <=> Fetching(l)
  BY <1>1 DEF Fetching
<1>3. CASE Tick \/ NoBottomResponse \/ WriteStalled \/ NothingHandled
             \/ NotifyAvailable
  <2>1. UNCHANGED <<blocks, topTransactions, topIn, pendingBottom, topOut,
                    bottomIn, bottomOut, lowReqs>>
    BY <1>3 DEF Tick, NoBottomResponse, WriteStalled, NothingHandled,
                NotifyAvailable, Between, store, topPort, lowPort, outside
  <2>2. Asked' = Asked /\ Below' = Below /\ Sent' = Sent
    BY <2>1 DEF Asked, Below, Sent
  <2> QED
    BY <1>1, <1>2, <2>1, <2>2, HierarchyQuiet
<1>4. CASE CountDown \/ ReceiveTopRequest
  <2>1. UNCHANGED <<blocks, pendingBottom, topOut, bottomIn, bottomOut, lowReqs>>
    BY <1>4 DEF CountDown, ReceiveTopRequest, store, topPort, lowPort, outside
  <2>2. Asked' = Asked /\ Below' = Below /\ Sent' = Sent
    BY <1>1, <1>4, <2>1, AskedUnmoved DEF Below, Sent
  <2> QED
    BY <1>1, <1>2, <2>1, <2>2, HierarchyQuiet
<1>5. CASE BottomCollect
  <2>1. /\ UNCHANGED <<blocks, topTransactions, topIn, pendingBottom, topOut,
                       bottomIn>>
        /\ bottomOut # <<>> /\ lowReqs' = Append(lowReqs, Head(bottomOut))
        /\ bottomOut' = Tail(bottomOut)
    BY <1>5 DEF BottomCollect, Between, store, topPort
  <2>2. lowReqs \in Seq(TopReq) /\ bottomOut \in Seq(TopReq) /\ LowInv
    BY HierarchyTypes DEF LedgerInv
  <2>3. Below' = Below
    BY <2>1, <2>2, ConcatShift DEF Below
  <2>4. Sent' = Sent
    <3>1. /\ Head(bottomOut) \in ToSet(bottomOut) /\ Head(bottomOut) \in TopReq
          /\ ToSet(bottomOut') = ToSet(bottomOut) \ {Head(bottomOut)}
      BY <2>1, <2>2, ElementsAfterHead DEF LowInv
    <3>2. ToSet(lowReqs') = ToSet(lowReqs) \cup {Head(bottomOut)}
      BY <2>1, <2>2, <3>1, SetAppended
    <3> QED
      BY <3>1, <3>2 DEF Sent
  <2>5. Asked' = Asked
    BY <2>1 DEF Asked
  <2> QED
    BY <1>1, <1>2, <2>1, <2>3, <2>4, <2>5, HierarchyQuiet
<1>6. CASE CompleteBottomRead \/ CompleteBottomWrite
  BY <1>1, <1>6, HierarchyStruck
<1>7. CASE ReadHit
  BY <1>1, <1>7, HierarchyHit
<1>8. CASE ReadMiss
  BY <1>1, <1>8, HierarchyMiss
<1>9. CASE WriteResident \/ WriteEmpty
  BY <1>1, <1>9, HierarchyStore
<1>10. CASE WriteFull
  BY <1>1, <1>10, HierarchyFull
<1> QED
  BY <1>1, <1>3, <1>4, <1>5, <1>6, <1>7, <1>8, <1>9, <1>10
  DEF Component, ProcessBottomResponse, ProcessHeadTransaction

\* Every step of the hierarchy keeps HInv.
LEMMA HInvStep ==
  ASSUME HTypeOK, HTypeOK', SlotInv, LedgerInv, HInv, [HNext]_allVars
  PROVE  HInv'
<1>1. ASSUME NEW x \in Lines, L1Refetch(x) \/ L1Drop(x) PROVE HInv'
  <2>1. /\ UNCHANGED vars /\ UNCHANGED <<mem, evicting, sent, latest>>
        /\ l1[x].state \in {"absent", "clean"}
        /\ \/ l1' = [l1 EXCEPT ![x].state = "clean"]
           \/ l1' = [l1 EXCEPT ![x].state = "absent"]
    BY <1>1 DEF L1Refetch, L1Drop
  <2>2. UNCHANGED <<blocks, topTransactions, topIn, pendingBottom, topOut,
                    bottomIn, bottomOut, lowReqs>>
    BY <2>1 DEF vars, store, topPort, lowPort, outside
  <2>3. Asked' = Asked /\ Below' = Below /\ Sent' = Sent
    BY <2>2 DEF Asked, Below, Sent
  <2>4. l1 \in [Lines -> [state : {"absent", "fetching", "clean", "dirty"},
                          ver : Data]]
    BY DEF HTypeOK
  <2>5. \A l \in Lines : /\ l1'[l].ver = l1[l].ver
                         /\ Fetching(l)' <=> Fetching(l)
    BY <2>1, <2>4 DEF Fetching
  <2> QED
    BY <2>1, <2>2, <2>3, <2>5, HierarchyQuiet
<1>2. CASE UNCHANGED allVars
  <2>1. UNCHANGED vars /\ UNCHANGED <<mem, l1, evicting, sent, latest>>
    BY <1>2 DEF allVars, client
  <2>2. UNCHANGED <<blocks, topTransactions, topIn, pendingBottom, topOut,
                    bottomIn, bottomOut, lowReqs>>
    BY <2>1 DEF vars, store, topPort, lowPort, outside
  <2>3. Asked' = Asked /\ Below' = Below /\ Sent' = Sent
    BY <2>2 DEF Asked, Below, Sent
  <2>4. \A l \in Lines : /\ l1'[l].ver = l1[l].ver
                         /\ Fetching(l)' <=> Fetching(l)
    BY <2>1 DEF Fetching
  <2> QED
    BY <2>1, <2>2, <2>3, <2>4, HierarchyQuiet
<1>3. ASSUME NEW x \in Lines, L1Fetch(x) PROVE HInv'
  BY <1>3, HierarchyFetch
<1>4. ASSUME NEW x \in Lines, L1Write(x) PROVE HInv'
  BY <1>4, HierarchyWrite
<1>5. ASSUME NEW x \in Lines, L1Evict(x) PROVE HInv'
  BY <1>5, HierarchyEvict
<1>6. CASE L1Receive
  BY <1>6, HierarchyReceive
<1>7. CASE MemRespond
  BY <1>7, HierarchyRespond
<1>8. CASE VictimCacheStep
  BY <1>8, HierarchyCache
<1> QED
  BY <1>1, <1>2, <1>3, <1>4, <1>5, <1>6, <1>7, <1>8 DEF HNext, L1

\* The inductive invariant of the hierarchy.
HierarchyInv == HTypeOK /\ SlotInv /\ LedgerInv /\ HInv

\* The inductive invariant of the hierarchy holds in every reachable state.
THEOREM HierarchyInvHolds == HSpec => []HierarchyInv
<1>1. HInit => HierarchyInv
  BY HierarchyInit, SlotInvInit, LedgerInvInit DEF HInit, HierarchyInv
<1>2. HierarchyInv /\ [HNext]_allVars => HierarchyInv'
  <2> SUFFICES ASSUME HierarchyInv, [HNext]_allVars PROVE HierarchyInv'
    OBVIOUS
  <2>1. HTypeOK /\ SlotInv /\ LedgerInv /\ HInv /\ UpInv /\ TypeOK
    BY DEF HierarchyInv, LedgerInv, HTypeOK
  <2>2. HTypeOK' /\ TypeOK'
    <3>1. HTypeOK'
      BY <2>1, HTypeStep
    <3> QED
      BY <3>1 DEF HTypeOK
  <2>3. [Next]_vars
    BY <2>1, HStepIsStep
  <2>4. SlotInv' /\ LedgerInv'
    BY <2>1, <2>2, <2>3, SlotInvStep, LedgerInvStep
  <2>5. HInv'
    BY <2>1, <2>2, HInvStep
  <2> QED
    BY <2>2, <2>4, <2>5 DEF HierarchyInv
<1> QED
  BY <1>1, <1>2, PTL DEF HSpec

\* Where a copy of a line is.
LEMMA CopyIs ==
  ASSUME NEW l, NEW c \in Copies(l)
  PROVE  \/ c.level = 0 /\ c.pos = 0 /\ c.ver = mem[l]
         \/ c.level = 1 /\ c.pos \in WritesTo(l, Below) /\ c.ver = Below[c.pos].data
         \/ c.level = 2 /\ c.pos \in Holding(l) /\ c.ver = blocks[c.pos].Data
         \/ c.level = 3 /\ c.pos \in WritesTo(l, Asked) /\ c.ver = Asked[c.pos].data
         \/ c.level = 4 /\ c.pos = 0 /\ c.ver = l1[l].ver /\ Holds(l)
<1>1. CASE c = Copy(0, 0, mem[l])
  BY <1>1 DEF Copy
<1>2. CASE \E k \in WritesTo(l, Below) : c = Copy(1, k, Below[k].data)
  BY <1>2 DEF Copy
<1>3. CASE \E i \in Holding(l) : c = Copy(2, i, blocks[i].Data)
  BY <1>3 DEF Copy
<1>4. CASE \E k \in WritesTo(l, Asked) : c = Copy(3, k, Asked[k].data)
  BY <1>4 DEF Copy
<1>5. CASE c = Copy(4, 0, l1[l].ver) /\ Holds(l)
  BY <1>5 DEF Copy
<1> QED
  BY <1>1, <1>2, <1>3, <1>4, <1>5 DEF Copies

\* NewerAbove from OrderInv.
LEMMA OrderIsKept == HierarchyInv => NewerAbove
<1> SUFFICES ASSUME HierarchyInv, NEW l \in Lines, NEW c \in Copies(l),
                    NEW d \in Copies(l), Over(c, d)
             PROVE  d.ver =< c.ver
  BY DEF NewerAbove
<1>1. /\ Chain(l, mem[l], Below, HeldData(l), Asked, l1[l].ver) /\ UniqueTags
      /\ HTypeOK
  BY DEF HierarchyInv, HInv, LineInv, OrderInv, SlotInv
<1>2. \A i \in Holding(l) : blocks[i].Data \in HeldData(l)
  BY DEF HeldData
<1>3. \A i, j \in Holding(l) : i = j
  BY <1>1 DEF UniqueTags, Holding
<1>4. \A q : \A k \in WritesTo(l, q) : k \in DOMAIN q
  BY DEF WritesTo
<1>5. Asked \in Seq(TopReq) /\ Below \in Seq(TopReq)
  BY <1>1, HierarchyTypes
<1>6. /\ \A k \in WritesTo(l, Asked) : k \in Nat
      /\ \A k \in WritesTo(l, Below) : k \in Nat
  BY <1>4, <1>5, LenProperties
<1>7. /\ \A i \in Holding(l) : i \in Nat
  BY DEF Holding, Slots
<1>8. c.level > d.level \/ (c.level = d.level /\ c.pos > d.pos)
  BY DEF Over
<1>9. CASE c.level = 0
  BY <1>8, <1>9, CopyIs
<1>10. CASE c.level = 1 /\ c.pos \in WritesTo(l, Below)
              /\ c.ver = Below[c.pos].data
  <2>1. \/ d.level = 0 /\ d.ver = mem[l]
        \/ d.level = 1 /\ d.pos \in WritesTo(l, Below) /\ d.ver = Below[d.pos].data
    BY <1>8, <1>10, CopyIs
  <2> QED
    BY <1>1, <1>6, <1>8, <1>10, <2>1 DEF Chain
<1>11. CASE c.level = 2 /\ c.pos \in Holding(l) /\ c.ver = blocks[c.pos].Data
  <2>1. \/ d.level = 0 /\ d.ver = mem[l]
        \/ d.level = 1 /\ d.pos \in WritesTo(l, Below) /\ d.ver = Below[d.pos].data
        \/ d.level = 2 /\ d.pos \in Holding(l)
    BY <1>8, <1>11, CopyIs
  <2>2. ~(d.level = 2 /\ d.pos \in Holding(l))
    BY <1>3, <1>7, <1>8, <1>11
  <2>3. c.ver \in HeldData(l)
    BY <1>2, <1>11
  <2> QED
    BY <1>1, <2>1, <2>2, <2>3 DEF Chain
<1>12. CASE c.level = 3 /\ c.pos \in WritesTo(l, Asked)
              /\ c.ver = Asked[c.pos].data
  <2>1. \/ d.level = 0 /\ d.ver = mem[l]
        \/ d.level = 1 /\ d.pos \in WritesTo(l, Below) /\ d.ver = Below[d.pos].data
        \/ d.level = 2 /\ d.ver \in HeldData(l)
        \/ d.level = 3 /\ d.pos \in WritesTo(l, Asked) /\ d.ver = Asked[d.pos].data
    BY <1>2, <1>8, <1>12, CopyIs
  <2> QED
    BY <1>1, <1>6, <1>8, <1>12, <2>1 DEF Chain
<1>13. CASE c.level = 4 /\ c.pos = 0 /\ c.ver = l1[l].ver
  <2>1. \/ d.level = 0 /\ d.ver = mem[l]
        \/ d.level = 1 /\ d.pos \in WritesTo(l, Below) /\ d.ver = Below[d.pos].data
        \/ d.level = 2 /\ d.ver \in HeldData(l)
        \/ d.level = 3 /\ d.pos \in WritesTo(l, Asked) /\ d.ver = Asked[d.pos].data
    BY <1>2, <1>8, <1>13, CopyIs
  <2> QED
    BY <1>1, <1>13, <2>1 DEF Chain
<1> QED
  BY <1>9, <1>10, <1>11, <1>12, <1>13, CopyIs

\* Exclusive from AnswerInv.
LEMMA ExclusiveIsKept == HierarchyInv => Exclusive
<1> SUFFICES ASSUME HierarchyInv, NEW l \in Lines, l1[l].state = "fetching",
                    l \notin {r.line : r \in ToSet(topIn) \cup ToSet(topTransactions)}
             PROVE  Holding(l) = {}
  BY DEF Exclusive
<1>1. HTypeOK /\ LineInv(l)
  BY DEF HierarchyInv, HInv
<1>2. topTransactions \in Seq(Transaction) /\ topIn \in Seq(TopReq)
  BY <1>1 DEF HTypeOK, TypeOK
<1>3. /\ Asked \in Seq(TopReq) /\ Len(Asked) = Len(topTransactions) + Len(topIn)
      /\ \A i \in 1 .. Len(topTransactions) :
           Asked[i] = Request(topTransactions[i])
      /\ \A i \in 1 .. Len(topIn) : Asked[Len(topTransactions) + i] = topIn[i]
      /\ Len(topTransactions) \in Nat /\ Len(topIn) \in Nat
  BY <1>2, AskedOfProps, AskedIs, LenProperties
<1>4. \A r \in ToSet(topIn) \cup ToSet(topTransactions) : r.line # l
  OBVIOUS
<1>5. ASSUME NEW k \in DOMAIN Asked PROVE Asked[k].line # l
  <2>0. k \in 1 .. Len(topTransactions) + Len(topIn)
    BY <1>3, LenProperties
  <2>1. CASE k =< Len(topTransactions)
    <3>1. k \in 1 .. Len(topTransactions)
      BY <1>3, <2>0, <2>1
    <3>2. topTransactions[k] \in ToSet(topTransactions)
      BY <1>2, <3>1, LenProperties DEF ToSet
    <3>3. Asked[k] = Request(topTransactions[k])
      BY <1>3, <3>1
    <3>4. topTransactions[k].line # l
      BY <1>4, <3>2
    <3>5. Request(topTransactions[k]).line = topTransactions[k].line
      BY DEF Request
    <3> QED
      BY <3>3, <3>4, <3>5
  <2>2. CASE k > Len(topTransactions)
    <3>1. PICK j \in 1 .. Len(topIn) : k = Len(topTransactions) + j
      <4>1. /\ k - Len(topTransactions) \in 1 .. Len(topIn)
            /\ k = Len(topTransactions) + (k - Len(topTransactions))
        BY <1>3, <2>0, <2>2
      <4> QED
        BY <4>1
    <3>2. topIn[j] \in ToSet(topIn)
      BY <1>2, LenProperties DEF ToSet
    <3>3. Asked[k] = topIn[j]
      BY <1>3, <3>1
    <3> QED
      BY <1>4, <3>2, <3>3
  <2> QED
    BY <1>3, <2>0, <2>1, <2>2
<1>6. ReadsAsked(l) = 0
  <2>1. Positions(Asked, ReadTo(l)) = {}
    BY <1>5 DEF Positions, ReadTo
  <2> QED
    BY <2>1, FS_EmptySet DEF ReadsAsked, Count
<1> QED
  BY <1>1, <1>6 DEF LineInv, AnswerInv, Fetching

\* Of two copies of a line the one nearer the L1 is never the older one, and a
\* line the L1 waits for has no slot once the fetch was served: for any number of
\* lines, versions, slots and port buffers, whatever order the stages and the
\* ports take.  It is what the invalidation in handleRead and the write-back in
\* handleWrite (victimcache.go) are for.
THEOREM LevelsStayOrdered == HSpec => []LevelsOrdered
<1>1. HierarchyInv => LevelsOrdered
  BY OrderIsKept, ExclusiveIsKept DEF HierarchyInv, LevelsOrdered
<1> QED
  BY <1>1, HierarchyInvHolds, PTL

\* Answers that wait in a port buffer are among those on their way up.
LEMMA ReturningComes ==
  ASSUME HTypeOK, LowInv, NEW l, NEW d \in Returning(l)
  PROVE  d \in Coming(l)
<1>1. /\ topOut \in Seq(TopRsp) /\ pendingBottom \in Seq(PendingBottom)
      /\ ToSet(topOut) \in SUBSET TopRsp
  BY HierarchyTypes, LedgerTypes
<1>2. CASE \E q \in ToSet(topOut) :
             q.kind = "DataReadyRsp" /\ sent[q.rspTo] = l /\ d = q.data
  BY <1>1, <1>2 DEF Coming, ComingIn, DataFor
<1>3. ASSUME NEW q \in ToSet(bottomIn), q.kind = "DataReadyRsp",
             sent[pendingBottom[Pending(q)].OrigReqID] = l, d = q.data
      PROVE  d \in Coming(l)
  <2>1. PICK p \in ToSet(pendingBottom) :
          /\ p.BottomReqID = q.rspTo
          /\ p.IsEviction <=> q.kind = "WriteDoneRsp"
    BY DEF LowInv, Ledger
  <2>2. Pending(q) # 0
    <3> DEFINE I == {i \in 1 .. Len(pendingBottom) :
                       pendingBottom[i].BottomReqID = q.rspTo}
    <3>1. Pending(q) = IF I # {} THEN Min(I) ELSE 0
      BY DEF Pending, SelectInSeq
    <3>2. I # {}
      BY <1>1, <2>1, LenProperties DEF ToSet
    <3>3. Min(I) \in I
      BY <3>2, MinInSet
    <3> QED
      BY <3>1, <3>2, <3>3
  <2> DEFINE u == pendingBottom[Pending(q)]
  <2>3. /\ Pending(q) \in 1 .. Len(pendingBottom) /\ u.BottomReqID = q.rspTo
    BY <1>1, <2>2, PendingAnswers
  <2>4. u \in ToSet(pendingBottom) /\ u \in PendingBottom
    BY <1>1, <2>3, LenProperties, ElementOfSeq DEF ToSet
  <2>5. u = p
    BY <2>1, <2>3, <2>4 DEF LowInv, Ledger
  <2>6. u \in WaitFor(l, sent)
    BY <1>3, <2>1, <2>4, <2>5 DEF WaitFor
  <2> QED
    BY <1>3, <2>3, <2>4, <2>6 DEF Coming, ComingIn
<1> QED
  BY <1>2, <1>3 DEF Returning

\* No answer on its way to the L1 carries a version older than the one in memory
\* or in a write on its way to memory: a read that missed never overtakes the
\* eviction of its line.
THEOREM AnswersStayFresh == HSpec => []AnswersAreFresh
<1>1. HierarchyInv => AnswersAreFresh
  <2> SUFFICES ASSUME HierarchyInv, NEW l \in Lines, NEW d \in Returning(l),
                      NEW c \in Copies(l)
               PROVE  c.ver =< d
    BY DEF AnswersAreFresh
  <2>1. HTypeOK /\ LowInv /\ LineInv(l)
    BY DEF HierarchyInv, LedgerInv, HInv
  <2>2. d \in Coming(l)
    BY <2>1, ReturningComes
  <2>3. /\ Fetching(l) /\ Holding(l) = {} /\ WritesTo(l, Asked) = {}
    BY <2>1, <2>2, Opened
  <2>4. ~Holds(l)
    BY <2>3 DEF Fetching, Holds
  <2>5. \/ c.ver = mem[l]
        \/ c.pos \in WritesTo(l, Below) /\ c.ver = Below[c.pos].data
    BY <2>3, <2>4, CopyIs
  <2>6. FreshIn(l, mem[l], Below, l1[l].ver, d)
    BY <2>1, <2>2 DEF LineInv, AnswerInv
  <2> QED
    BY <2>5, <2>6 DEF FreshIn
<1> QED
  BY <1>1, HierarchyInvHolds, PTL
=============================================================================

------------------------- MODULE WritebackDataProofs -------------------------
(***************************************************************************)
(* What the write-back cache does with the requests it is sent, for any    *)
(* geometry, latency and capacity; on top of the inductive invariant of    *)
(* WritebackCacheProofs.                                                   *)
(*                                                                         *)
(* First where every request is at every time.  A ledger of three kinds of *)
(* places (on its way through the bank, in the list of one MSHR entry,     *)
(* answered) is shown to hold each processed request once, by what each    *)
(* stage does to the places.                                               *)
(*                                                                         *)
(* Then what a read returns.  The writes done to a line are those that     *)
(* reached its block, or the contents fetched for it; every copy of the    *)
(* line that a later read can be answered from (the block, what an entry   *)
(* was filled with, what is fetched from an eviction or from below) is     *)
(* shown to be as new as they are, step by step, where a step is one of a  *)
(* few kinds.                                                              *)
(***************************************************************************)
EXTENDS WritebackCacheProofs

(***************************************************************************)
(* Where every request is                                                  *)
(***************************************************************************)
\* What a transaction that is answered by the bank does.
DirectActions == {"bankReadHit", "bankWriteHit", "bankEvictAndWrite",
                  "writeBufferEvictAndWrite"}
DirectOf(B, tr) == {t \in B : tr[t].action \in DirectActions}

\* The requests each MSHR entry lists, as sets, and the answers given.
ListsOf(en) == [e \in ReqID |-> ToSet(en[e].requests)]
GivenOf(to, an) == ToSet(to) \cup an
Given == GivenOf(topOut, answers)

\* A list in the order of the requests.
Increasing(s) == \A i, j \in DOMAIN s : i < j => s[i] < s[j]

\* Of the first n requests each is on its way through the bank (D), in the list
\* of one entry (L), or answered (gv); the others are nowhere.
Ledger(D, n, L, gv) ==
  /\ \A t \in 1 .. n : \/ t \in D
                       \/ \E e \in ReqID : t \in L[e]
                       \/ \E x \in gv : x.rspTo = t
  /\ D \subseteq 1 .. n
  /\ \A e \in ReqID : L[e] \subseteq (1 .. n) \ D
  /\ \A e, f \in ReqID : e # f => L[e] \cap L[f] = {}
  /\ \A x \in gv : x.rspTo \in (1 .. n) \ D /\ \A e \in ReqID : x.rspTo \notin L[e]
  /\ \A x, y \in gv : x.rspTo = y.rspTo => x = y
  /\ \A e \in ReqID : e > n => L[e] = {}

ListsRise(en) == \A e \in ReqID : Increasing(en[e].requests)

LedgerInv == Ledger(DirectOf(Busy, trans), Taken, ListsOf(entry), Given) /\ ListsRise(entry)

\* A request listed is answered, ...
LEMMA LedgerAnswered ==
  ASSUME NEW D, NEW n, NEW L, NEW gv, Ledger(D, n, L, gv),
         NEW e \in ReqID, NEW x, x.rspTo \in L[e],
         NEW L2, L2[e] = L[e] \ {x.rspTo}, \A f \in ReqID : f # e => L2[f] = L[f]
  PROVE  Ledger(D, n, L2, gv \cup {x})
<1> DEFINE gv2 == gv \cup {x}
<1>1. /\ \A f \in ReqID : L2[f] \subseteq L[f]
      /\ \A f \in ReqID : x.rspTo \notin L2[f]
  BY DEF Ledger
<1>2. x.rspTo \in (1 .. n) \ D /\ \A y \in gv : y.rspTo # x.rspTo
  BY DEF Ledger
<1>3. \A t \in 1 .. n : t \in D \/ (\E f \in ReqID : t \in L2[f]) \/ \E y \in gv2 : y.rspTo = t
  <2> SUFFICES ASSUME NEW t \in 1 .. n
               PROVE  t \in D \/ (\E f \in ReqID : t \in L2[f]) \/ \E y \in gv2 : y.rspTo = t
    OBVIOUS
  <2>1. CASE t = x.rspTo
    BY <2>1
  <2>2. CASE t # x.rspTo
    <3>1. t \in D \/ (\E f \in ReqID : t \in L[f]) \/ \E y \in gv : y.rspTo = t
      BY DEF Ledger
    <3>2. \A f \in ReqID : t \in L[f] => t \in L2[f]
      BY <2>2
    <3> QED
      BY <3>1, <3>2
  <2> QED
    BY <2>1, <2>2
<1>4. /\ \A f \in ReqID : L2[f] \subseteq (1 .. n) \ D
      /\ \A f, g \in ReqID : f # g => L2[f] \cap L2[g] = {}
      /\ \A f \in ReqID : f > n => L2[f] = {}
      /\ D \subseteq 1 .. n
  <2>1. /\ \A f \in ReqID : L[f] \subseteq (1 .. n) \ D
        /\ \A f, g \in ReqID : f # g => L[f] \cap L[g] = {}
        /\ \A f \in ReqID : f > n => L[f] = {}
        /\ D \subseteq 1 .. n
    BY DEF Ledger
  <2> QED
    BY <1>1, <2>1
<1>5. /\ \A y \in gv2 : y.rspTo \in (1 .. n) \ D /\ \A f \in ReqID : y.rspTo \notin L2[f]
      /\ \A y, z \in gv2 : y.rspTo = z.rspTo => y = z
  <2>1. /\ \A y \in gv : y.rspTo \in (1 .. n) \ D /\ \A f \in ReqID : y.rspTo \notin L[f]
        /\ \A y, z \in gv : y.rspTo = z.rspTo => y = z
    BY DEF Ledger
  <2> QED
    BY <1>1, <1>2, <2>1
<1> HIDE DEF gv2
<1>6. Ledger(D, n, L2, gv2)
  BY <1>3, <1>4, <1>5 DEF Ledger
<1> QED
  BY <1>6 DEF gv2

\* ... one in the bank is answered, ...
LEMMA LedgerGiven ==
  ASSUME NEW D, NEW n, NEW L, NEW gv, Ledger(D, n, L, gv), NEW x, x.rspTo \in D
  PROVE  Ledger(D \ {x.rspTo}, n, L, gv \cup {x})
<1> DEFINE gv2 == gv \cup {x}
           D2 == D \ {x.rspTo}
<1>1. x.rspTo \in 1 .. n /\ \A y \in gv : y.rspTo # x.rspTo
  BY DEF Ledger
<1>2. \A e \in ReqID : x.rspTo \notin L[e]
  BY DEF Ledger
<1>3. \A t \in 1 .. n : t \in D2 \/ (\E f \in ReqID : t \in L[f]) \/ \E y \in gv2 : y.rspTo = t
  <2> SUFFICES ASSUME NEW t \in 1 .. n
               PROVE  t \in D2 \/ (\E f \in ReqID : t \in L[f]) \/ \E y \in gv2 : y.rspTo = t
    OBVIOUS
  <2>1. t \in D \/ (\E f \in ReqID : t \in L[f]) \/ \E y \in gv : y.rspTo = t
    BY DEF Ledger
  <2> QED
    BY <2>1
<1>4. /\ \A f \in ReqID : L[f] \subseteq (1 .. n) \ D2
      /\ \A f, g \in ReqID : f # g => L[f] \cap L[g] = {}
      /\ \A f \in ReqID : f > n => L[f] = {}
      /\ D2 \subseteq 1 .. n
  <2>1. /\ \A f \in ReqID : L[f] \subseteq (1 .. n) \ D
        /\ \A f, g \in ReqID : f # g => L[f] \cap L[g] = {}
        /\ \A f \in ReqID : f > n => L[f] = {}
        /\ D \subseteq 1 .. n
    BY DEF Ledger
  <2> QED
    BY <2>1
<1>5. /\ \A y \in gv2 : y.rspTo \in (1 .. n) \ D2 /\ \A f \in ReqID : y.rspTo \notin L[f]
      /\ \A y, z \in gv2 : y.rspTo = z.rspTo => y = z
  <2>1. /\ \A y \in gv : y.rspTo \in (1 .. n) \ D /\ \A f \in ReqID : y.rspTo \notin L[f]
        /\ \A y, z \in gv : y.rspTo = z.rspTo => y = z
    BY DEF Ledger
  <2> QED
    BY <1>1, <1>2, <2>1
<1> HIDE DEF gv2, D2
<1>6. Ledger(D2, n, L, gv2)
  BY <1>3, <1>4, <1>5 DEF Ledger
<1> QED
  BY <1>6 DEF gv2, D2

\* ... the next request is sent to the bank, ...
LEMMA LedgerSent ==
  ASSUME NEW D, NEW n \in Nat, NEW L, NEW gv, Ledger(D, n, L, gv)
  PROVE  Ledger(D \cup {n + 1}, n + 1, L, gv)
<1> DEFINE D2 == D \cup {n + 1}
<1>1. \A t \in 1 .. n + 1 : t \in 1 .. n \/ t = n + 1
  OBVIOUS
<1>2. n + 1 \notin 1 .. n /\ \A t \in 1 .. n : t \in 1 .. n + 1
  OBVIOUS
<1>3. n + 1 \in 1 .. n + 1
  OBVIOUS
<1>4. \A t \in 1 .. n + 1 : t \in D2 \/ (\E f \in ReqID : t \in L[f]) \/ \E y \in gv : y.rspTo = t
  BY <1>1 DEF Ledger
<1>5. /\ \A f \in ReqID : L[f] \subseteq (1 .. n + 1) \ D2
      /\ \A f, g \in ReqID : f # g => L[f] \cap L[g] = {}
      /\ D2 \subseteq 1 .. n + 1
  <2>1. /\ \A f \in ReqID : L[f] \subseteq (1 .. n) \ D
        /\ \A f, g \in ReqID : f # g => L[f] \cap L[g] = {}
        /\ D \subseteq 1 .. n
    BY DEF Ledger
  <2> QED
    BY <1>2, <1>3, <2>1
<1>6. \A f \in ReqID : f > n + 1 => L[f] = {}
  <2>1. \A f \in ReqID : f > n + 1 => f > n
    BY WritebackAssumption DEF ReqID
  <2> QED
    BY <2>1 DEF Ledger
<1>7. /\ \A y \in gv : y.rspTo \in (1 .. n + 1) \ D2 /\ \A f \in ReqID : y.rspTo \notin L[f]
      /\ \A y, z \in gv : y.rspTo = z.rspTo => y = z
  <2>1. /\ \A y \in gv : y.rspTo \in (1 .. n) \ D /\ \A f \in ReqID : y.rspTo \notin L[f]
        /\ \A y, z \in gv : y.rspTo = z.rspTo => y = z
    BY DEF Ledger
  <2> QED
    BY <1>2, <2>1
<1> HIDE DEF D2
<1>8. Ledger(D2, n + 1, L, gv)
  BY <1>4, <1>5, <1>6, <1>7 DEF Ledger
<1> QED
  BY <1>8 DEF D2

\* ... or put on the list of an entry.
LEMMA LedgerListed ==
  ASSUME NEW D, NEW n \in Nat, NEW L, NEW gv, Ledger(D, n, L, gv),
         NEW e \in ReqID, e =< n + 1,
         NEW L2, L2[e] = L[e] \cup {n + 1}, \A f \in ReqID : f # e => L2[f] = L[f]
  PROVE  Ledger(D, n + 1, L2, gv)
<1>1. \A t \in 1 .. n + 1 : t \in 1 .. n \/ t = n + 1
  OBVIOUS
<1>2. n + 1 \notin 1 .. n /\ \A t \in 1 .. n : t \in 1 .. n + 1
  OBVIOUS
<1>3. n + 1 \in 1 .. n + 1
  OBVIOUS
<1>4. \A t \in 1 .. n + 1 : t \in D \/ (\E f \in ReqID : t \in L2[f]) \/ \E y \in gv : y.rspTo = t
  <2> SUFFICES ASSUME NEW t \in 1 .. n + 1
               PROVE  t \in D \/ (\E f \in ReqID : t \in L2[f]) \/ \E y \in gv : y.rspTo = t
    OBVIOUS
  <2>1. CASE t = n + 1
    BY <2>1
  <2>2. CASE t \in 1 .. n
    <3>1. t \in D \/ (\E f \in ReqID : t \in L[f]) \/ \E y \in gv : y.rspTo = t
      BY <2>2 DEF Ledger
    <3>2. \A f \in ReqID : L[f] \subseteq L2[f]
      OBVIOUS
    <3> QED
      BY <3>1, <3>2
  <2> QED
    BY <1>1, <2>1, <2>2
<1>5. /\ \A f \in ReqID : L2[f] \subseteq (1 .. n + 1) \ D
      /\ \A f, g \in ReqID : f # g => L2[f] \cap L2[g] = {}
      /\ D \subseteq 1 .. n + 1
  <2>1. /\ \A f \in ReqID : L[f] \subseteq (1 .. n) \ D
        /\ \A f, g \in ReqID : f # g => L[f] \cap L[g] = {}
        /\ D \subseteq 1 .. n
    BY DEF Ledger
  <2>2. n + 1 \notin D /\ \A f \in ReqID : n + 1 \notin L[f]
    BY <1>2, <2>1
  <2>3. \A f \in ReqID : L2[f] \subseteq (1 .. n + 1) \ D
    BY <1>2, <1>3, <2>1, <2>2
  <2>4. \A f, g \in ReqID : f # g => L2[f] \cap L2[g] = {}
    BY <2>1, <2>2
  <2>5. D \subseteq 1 .. n + 1
    BY <1>2, <2>1
  <2> QED
    BY <2>3, <2>4, <2>5
<1>6. \A f \in ReqID : f > n + 1 => L2[f] = {}
  <2>1. \A f \in ReqID : f > n + 1 => f > n /\ f # e
    BY WritebackAssumption DEF ReqID
  <2> QED
    BY <2>1 DEF Ledger
<1>7. /\ \A y \in gv : y.rspTo \in (1 .. n + 1) \ D /\ \A f \in ReqID : y.rspTo \notin L2[f]
      /\ \A y, z \in gv : y.rspTo = z.rspTo => y = z
  <2>1. /\ \A y \in gv : y.rspTo \in (1 .. n) \ D /\ \A f \in ReqID : y.rspTo \notin L[f]
        /\ \A y, z \in gv : y.rspTo = z.rspTo => y = z
    BY DEF Ledger
  <2> QED
    BY <1>2, <2>1
<1> QED
  BY <1>4, <1>5, <1>6, <1>7 DEF Ledger

\* A list stays in order when the newest request joins it and when its head leaves.
LEMMA IncreasingAppended ==
  ASSUME NEW s \in Seq(ReqID), Increasing(s), NEW t \in ReqID, \A u \in ToSet(s) : u < t
  PROVE  Increasing(Append(s, t)) /\ ToSet(Append(s, t)) = ToSet(s) \cup {t}
<1> DEFINE q == Append(s, t)
<1>1. /\ DOMAIN q = 1 .. Len(s) + 1 /\ q[Len(s) + 1] = t
      /\ \A i \in 1 .. Len(s) : q[i] = s[i]
      /\ DOMAIN s = 1 .. Len(s) /\ Len(s) \in Nat
  BY LenProperties, AppendProperties
<1> HIDE DEF q
<1>2. ASSUME NEW i \in DOMAIN q, NEW j \in DOMAIN q, i < j PROVE q[i] < q[j]
  <2>1. i \in 1 .. Len(s) /\ q[i] = s[i]
    BY <1>1, <1>2
  <2>2. CASE j = Len(s) + 1
    <3>1. s[i] \in ToSet(s)
      BY <1>1, <2>1 DEF ToSet
    <3> QED
      BY <1>1, <2>1, <2>2, <3>1
  <2>3. CASE j \in 1 .. Len(s)
    BY <1>1, <1>2, <2>1, <2>3 DEF Increasing
  <2> QED
    BY <1>1, <2>2, <2>3
<1>3. Increasing(q)
  BY <1>2 DEF Increasing
<1>4. ToSet(q) = ToSet(s) \cup {t}
  BY SetAppended DEF q
<1> QED
  BY <1>3, <1>4 DEF q

\* ... and a list without its first request.
LEMMA IncreasingTaken ==
  ASSUME NEW s \in Seq(ReqID), Increasing(s), s # <<>>
  PROVE  /\ Increasing(Tail(s)) /\ Head(s) \in ToSet(s)
         /\ ToSet(Tail(s)) = ToSet(s) \ {Head(s)}
<1>1. /\ DOMAIN s = 1 .. Len(s) /\ Len(s) \in Nat
      /\ Tail(s) \in Seq(ReqID) /\ Len(Tail(s)) = Len(s) - 1
      /\ DOMAIN Tail(s) = 1 .. Len(s) - 1
      /\ \A i \in 1 .. Len(s) - 1 : Tail(s)[i] = s[i + 1]
  BY LenProperties, HeadTailProperties
<1>2. Increasing(Tail(s))
  <2> SUFFICES ASSUME NEW i \in DOMAIN Tail(s), NEW j \in DOMAIN Tail(s), i < j
               PROVE  Tail(s)[i] < Tail(s)[j]
    BY DEF Increasing
  <2>1. Tail(s)[i] = s[i + 1] /\ Tail(s)[j] = s[j + 1]
    BY <1>1
  <2>2. i + 1 \in DOMAIN s /\ j + 1 \in DOMAIN s /\ i + 1 < j + 1
    BY <1>1
  <2>3. s[i + 1] < s[j + 1]
    BY <2>2 DEF Increasing
  <2> QED
    BY <2>1, <2>3
<1>3. IsInjective(s)
  <2> SUFFICES ASSUME NEW i \in DOMAIN s, NEW j \in DOMAIN s, s[i] = s[j] PROVE i = j
    BY DEF IsInjective
  <2>1. s[i] \in ReqID /\ s[j] \in ReqID
    BY <1>1, ElementOfSeq
  <2>2. s[i] \in Int /\ s[j] \in Int
    BY <2>1, WritebackAssumption DEF ReqID
  <2>3. ~(i < j) /\ ~(j < i)
    BY <2>2 DEF Increasing
  <2> QED
    BY <1>1, <2>3
<1> QED
  BY <1>2, <1>3, ElementsAfterHead

(***************************************************************************)
(* What each action does to the places, the contents and the messages      *)
(***************************************************************************)
spots == <<AtBank, InBank, AtBuffer, GoingBack, inflightFetch, Filled, Taken>>
contents == <<trans, blocks, storage, entry, mshr, evictingData, evictingList>>
messages == <<bottomOut, lowReqs, bottomIn, pendingEvictions, inflightEviction, mem>>

\* The transactions past the directory, place by place.
LEMMA BusyIs == Busy = All(AtBank, InBank, AtBuffer, GoingBack, inflightFetch)
BY DEF Busy, All, AtBank, AtBuffer, GoingBack

\* The transactions at work are those of the places.
LEMMA BusyKept == UNCHANGED spots => Busy' = Busy
<1>1. Busy' = All(AtBank, InBank, AtBuffer, GoingBack, inflightFetch)'
  BY DEF Busy, All, AtBank, AtBuffer, GoingBack
<1> QED
  BY <1>1, BusyIs DEF spots

\* The places named one by one.
LEMMA SpotsKept == UNCHANGED bank /\ UNCHANGED places /\ Taken' = Taken => UNCHANGED spots
BY PlacesKept, BankKept DEF spots

\* The elements of a sequence are its head and those of its tail.
LEMMA HeadAndRest ==
  ASSUME NEW S, NEW s \in Seq(S), s # <<>>
  PROVE  ToSet(s) = {Head(s)} \cup ToSet(Tail(s))
<1>1. /\ DOMAIN s = 1 .. Len(s) /\ Len(s) \in Nat \ {0} /\ Head(s) = s[1]
      /\ DOMAIN Tail(s) = 1 .. Len(s) - 1
      /\ \A i \in 1 .. Len(s) - 1 : Tail(s)[i] = s[i + 1]
  BY LenProperties, HeadTailProperties, EmptySeq
<1>2. ASSUME NEW x \in ToSet(s) PROVE x = Head(s) \/ x \in ToSet(Tail(s))
  <2>1. PICK i \in 1 .. Len(s) : x = s[i]
    BY <1>1, <1>2 DEF ToSet
  <2>2. CASE i = 1
    BY <1>1, <2>1, <2>2
  <2>3. CASE i # 1
    <3>1. i - 1 \in 1 .. Len(s) - 1 /\ (i - 1) + 1 = i
      BY <1>1, <2>3
    <3>2. Tail(s)[i - 1] = x
      BY <1>1, <2>1, <3>1
    <3> QED
      BY <1>1, <3>1, <3>2 DEF ToSet
  <2> QED
    BY <2>2, <2>3
<1>3. Head(s) \in ToSet(s)
  BY <1>1 DEF ToSet
<1>4. ASSUME NEW x \in ToSet(Tail(s)) PROVE x \in ToSet(s)
  <2>1. PICK i \in 1 .. Len(s) - 1 : x = Tail(s)[i]
    BY <1>1, <1>4 DEF ToSet
  <2>2. x = s[i + 1] /\ i + 1 \in 1 .. Len(s)
    BY <1>1, <2>1
  <2> QED
    BY <1>1, <2>2 DEF ToSet
<1> QED
  BY <1>2, <1>3, <1>4

\* The steps that only hand a request on, or an answer out.
LEMMA TickIsQuiet ==
  ASSUME WInv, Tick PROVE UNCHANGED <<spots, contents, messages, reqs, Given>>
<1>1. UNCHANGED <<upper, bank, places, contents, messages, reqs, topOut, answers>>
  BY DEF Tick, top, low, dir, bank, toBank, buffer, misses, respond, array, work, outside,
         upper, places, contents, messages
<1> QED
  BY <1>1, SpotsKept, WaitKept DEF WInv, Given

\* A step of the bank's pipeline moves transactions within the bank.
LEMMA BankPipelineIsQuiet ==
  ASSUME WInv, BankPipeline PROVE UNCHANGED <<spots, contents, messages, reqs, Given>>
<1> DEFINE moved == TickPipeline(bankPipe, bankBuf, LaneWidth)
<1>1. UNCHANGED <<upper, places, contents, messages, reqs, topOut, answers>>
  BY DEF BankPipeline, top, low, dir, toBank, buffer, misses, respond, array, work, outside,
         upper, places, contents, messages
<1>2. bankPipe' = moved.pipe /\ bankBuf' = moved.post
  BY DEF BankPipeline
<1>3. BankOf(moved.pipe, moved.post) = InBank
  BY BankTicks DEF WInv, BankInv, InBank, BankOf
<1>4. InBank' = InBank
  BY <1>2, <1>3 DEF InBank, BankOf
<1> QED
  BY <1>1, <1>4, PlacesKept, WaitKept DEF WInv, Given, spots

\* A step that puts a transaction into the directory's buffer changes no place past it.
LEMMA AcceptIsQuiet ==
  ASSUME WInv, AcceptNewTransaction PROVE UNCHANGED <<spots, contents, messages, reqs, Given>>
<1>1. UNCHANGED <<bank, places, contents, messages, reqs, topOut, answers, topIn>>
  BY DEF AcceptNewTransaction, top, low, bank, toBank, buffer, misses, respond, array, work,
         outside, places, contents, messages
<1>2. Taken' = Taken
  <2>1. CASE UNCHANGED <<dirStageBuffer, dirBuf>>
    BY <1>1, <2>1 DEF Taken
  <2>2. CASE /\ dirStageBuffer # <<>> /\ Room(dirBuf, 1)
             /\ dirBuf' = Append(dirBuf, Head(dirStageBuffer))
             /\ dirStageBuffer' = Tail(dirStageBuffer)
    <3>1. TakenOf(reqs, topIn, Tail(dirStageBuffer), Append(dirBuf, Head(dirStageBuffer)))
            = Taken
      BY <2>2, WaitAccept DEF WInv, WTypes, PortTypes, StageTypes, WaitInv, Taken
    <3> QED
      BY <1>1, <2>2, <3>1 DEF Taken
  <2> QED
    BY <2>1, <2>2 DEF AcceptNewTransaction
<1> QED
  BY <1>1, <1>2, SpotsKept DEF Given

\* Parsing a request moves it within the queue of the waiting.
LEMMA TopParserIsQuiet ==
  ASSUME WInv, TopParser PROVE UNCHANGED <<spots, contents, messages, reqs, Given>>
<1>1. UNCHANGED <<bank, places, contents, messages, reqs, topOut, answers, dirBuf>>
  BY DEF TopParser, low, bank, toBank, buffer, misses, respond, array, outside, places,
         contents, messages
<1>2. Taken' = Taken
  <2>1. CASE UNCHANGED <<dirStageBuffer, topIn>>
    BY <1>1, <2>1 DEF Taken
  <2>2. CASE /\ topIn # <<>> /\ Room(dirStageBuffer, 1)
             /\ dirStageBuffer' = Append(dirStageBuffer, Head(topIn))
             /\ topIn' = Tail(topIn)
    <3>1. TakenOf(reqs, Tail(topIn), Append(dirStageBuffer, Head(topIn)), dirBuf) = Taken
      BY <2>2, WaitParse DEF WInv, WTypes, PortTypes, StageTypes, WaitInv, Taken
    <3> QED
      BY <1>1, <2>2, <3>1 DEF Taken
  <2> QED
    BY <2>1, <2>2 DEF TopParser
<1> QED
  BY <1>1, <1>2, SpotsKept DEF Given

\* The upper component takes an answer: it is given all the same.
LEMMA CollectIsQuiet ==
  ASSUME WInv, TopCollect PROVE UNCHANGED <<spots, contents, messages, reqs, Given>>
<1>1. UNCHANGED <<upper, bank, places, contents, messages, reqs>>
  BY DEF TopCollect, Between, low, dir, bank, toBank, buffer, misses, respond, array,
         upper, places, contents, messages
<1>2. topOut # <<>> /\ answers' = answers \cup {Head(topOut)} /\ topOut' = Tail(topOut)
  BY DEF TopCollect
<1>3. ToSet(topOut) = {Head(topOut)} \cup ToSet(Tail(topOut))
  BY <1>2, HeadAndRest DEF WInv, WTypes, PortTypes
<1>4. Given' = Given
  BY <1>2, <1>3 DEF Given, GivenOf
<1> QED
  BY <1>1, <1>4, SpotsKept, WaitKept DEF WInv

\* A new request comes, and those taken stay what they are.
LEMMA DeliverDoes ==
  ASSUME WInv, NEW r, TopDeliver(r)
  PROVE  /\ UNCHANGED <<spots, contents, messages, Given>>
         /\ Len(reqs) \in Nat /\ Taken =< Len(reqs)
         /\ reqs' \in Seq(Request) /\ Len(reqs') = Len(reqs) + 1
         /\ \A u \in 1 .. Len(reqs) : reqs'[u] = reqs[u]
         /\ reqs'[Len(reqs) + 1] = [write |-> r.write, full |-> r.full, line |-> r.line,
                                    floor |-> Acknowledged(r.line)]
<1> DEFINE q == [write |-> r.write, full |-> r.full, line |-> r.line,
                 floor |-> Acknowledged(r.line)]
           n == Len(reqs)
<1>1. UNCHANGED <<bank, places, contents, messages, topOut, answers, dirStageBuffer, dirBuf>>
  BY DEF TopDeliver, Between, low, dir, bank, toBank, buffer, misses, respond, array,
         places, contents, messages
<1>2. PortTypes /\ StageTypes /\ WaitInv
  BY DEF WInv, WTypes
<1>3. /\ n < MaxReqs /\ r \in Script[n + 1]
      /\ reqs' = Append(reqs, q) /\ topIn' = Append(topIn, n + 1)
  BY DEF TopDeliver
<1>4. /\ reqs \in Seq(Request) /\ topIn \in Seq(ReqID) /\ n \in Nat /\ MaxReqs \in Nat
      /\ Single(dirStageBuffer) /\ Single(dirBuf)
  BY <1>2, WritebackAssumption, LenProperties DEF PortTypes, StageTypes
<1>5. n + 1 \in ReqID
  BY <1>3, <1>4 DEF ReqID
<1>6. q \in Request
  <2>1. r \in [write : BOOLEAN, full : BOOLEAN, line : Lines]
    BY <1>3, <1>5, WritebackAssumption DEF ReqID
  <2>2. Acknowledged(r.line) \in Nat
    BY <1>2, AcknowledgedTyped DEF PortTypes
  <2> QED
    BY <2>1, <2>2 DEF Request
<1> HIDE DEF q
<1>7. /\ Append(reqs, q) \in Seq(Request) /\ Len(Append(reqs, q)) = n + 1
      /\ \A u \in 1 .. n : Append(reqs, q)[u] = reqs[u]
      /\ Append(reqs, q)[n + 1] = q
  BY <1>4, <1>6, AppendProperties
<1>8. TakenOf(Append(reqs, q), Append(topIn, n + 1), dirStageBuffer, dirBuf) = Taken
  BY <1>2, <1>4, <1>5, <1>6, WaitDeliver DEF WaitInv, Taken
<1>9. Taken' = Taken
  BY <1>1, <1>3, <1>8 DEF Taken
<1>10. Taken =< n
  <2>1. Taken = n - Len(topIn) - Len(dirStageBuffer) - Len(dirBuf)
    BY DEF Taken, TakenOf
  <2>2. Len(topIn) \in Nat /\ Len(dirStageBuffer) \in Nat /\ Len(dirBuf) \in Nat
    BY <1>4, LenProperties DEF Single
  <2> QED
    BY <1>4, <2>1, <2>2
<1> HIDE DEF n
<1>11. UNCHANGED <<spots, contents, messages, Given>>
  BY <1>1, <1>9, SpotsKept DEF Given
<1>12. reqs' \in Seq(Request) /\ Len(reqs') = n + 1 /\ \A u \in 1 .. n : reqs'[u] = reqs[u]
  BY <1>3, <1>7
<1>13. reqs'[n + 1] = q
  BY <1>3, <1>7
<1> QED
  BY <1>4, <1>10, <1>11, <1>12, <1>13 DEF n, q

\* The ports below: only messages move.
LEMMA BelowDoes ==
  ASSUME WInv, WriteStage \/ LowAccept \/ LowRespond
  PROVE  UNCHANGED <<spots, contents, reqs, Given>>
<1>1. UNCHANGED <<upper, bank, places, contents, reqs, topOut, answers>>
  <2>1. CASE WriteStage
    BY <2>1 DEF WriteStage, top, dir, bank, toBank, misses, respond, array, work, outside,
                upper, places, contents
  <2>2. CASE LowAccept
    BY <2>2 DEF LowAccept, Between, top, dir, bank, toBank, buffer, misses, respond, array,
                upper, places, contents
  <2>3. CASE LowRespond
    BY <2>3 DEF LowRespond, Between, top, dir, bank, toBank, buffer, misses, respond, array,
                upper, places, contents
  <2> QED
    BY <2>1, <2>2, <2>3
<1> QED
  BY <1>1, SpotsKept, WaitKept DEF WInv, Given

\* The transactions at work after a step.
LEMMA BusyNext == Busy' = All(AtBank', InBank', AtBuffer', GoingBack', inflightFetch')
BY DEF Busy, All, AtBank, AtBuffer, GoingBack

\* The bank takes a transaction, or a fetch passes it: none is lost on the way.
LEMMA PullDoes ==
  ASSUME WInv, PullFromBuf
  PROVE  /\ UNCHANGED <<contents, messages, reqs, Given, Taken, Filled, inflightFetch, Busy>>
         /\ \/ AtBank' = AtBank /\ AtBuffer' = AtBuffer
            \/ AtBuffer = {} /\ \A t \in AtBuffer' : trans[t].action = "writeBufferFetch"
<1>1. UNCHANGED <<upper, contents, messages, reqs, topOut, answers, inflightFetch,
                  processingMSHREntry, mshrStageBuffer>>
  BY DEF PullFromBuf, top, low, dir, buffer, misses, respond, array, work, outside,
         upper, contents, messages
<1>2. UNCHANGED <<contents, messages, reqs, Given, Taken, Filled, inflightFetch>>
  BY <1>1, WaitKept DEF WInv, Given, Filled
<1>3. /\ StageTypes /\ BankInv
      /\ World(AtBank, InBank, AtBuffer, GoingBack, inflightFetch, Filled, Taken,
               trans, blocks, entry, mshr, evictingList, reqs)
  BY DEF WInv, WTypes, WorldInv
<1>4. CASE /\ BankFree /\ writeBufferToBank # <<>>
           /\ AcceptInBank(Head(writeBufferToBank))
           /\ writeBufferToBank' = Tail(writeBufferToBank)
           /\ UNCHANGED <<dirToBank, downwardInflightTransCount, writeBufferBuffer>>
  <2> DEFINE t == Head(writeBufferToBank)
  <2>1. t \in ReqID /\ GoingBack = {t} /\ GoingBack' = {}
    BY <1>3, <1>4, OneTaken DEF StageTypes, GoingBack
  <2>2. t \notin InBank
    BY <1>3, <2>1 DEF World, Places
  <2>3. InBank' = InBank \cup {t}
    BY <1>3, <1>4, <2>1, <2>2, BankTakes
  <2>4. AtBank' = AtBank /\ AtBuffer' = AtBuffer
    BY <1>4 DEF AtBank, AtBuffer
  <2>5. Busy' = Busy
    BY <1>1, <2>1, <2>3, <2>4, BusyIs, BusyNext DEF All
  <2> QED
    BY <1>2, <2>4, <2>5
<1>5. CASE /\ BankFree /\ Downward /\ dirToBank' = Tail(dirToBank)
           /\ LET t == Head(dirToBank)
              IN IF trans[t].action = "writeBufferFetch"
                   THEN /\ writeBufferBuffer' = Append(writeBufferBuffer, t)
                        /\ UNCHANGED bank
                   ELSE /\ AcceptInBank(t)
                        /\ downwardInflightTransCount' =
                             downwardInflightTransCount
                               + (IF trans[t].action \in Evicting THEN 1 ELSE 0)
                        /\ UNCHANGED writeBufferBuffer
           /\ UNCHANGED writeBufferToBank
  <2> DEFINE t == Head(dirToBank)
  <2>1. t \in ReqID /\ AtBank = {t} /\ AtBank' = {}
    BY <1>3, <1>5, OneTaken DEF StageTypes, AtBank, Downward
  <2>2. GoingBack' = GoingBack
    BY <1>5 DEF GoingBack
  <2>3. AtBuffer = {} /\ Append(writeBufferBuffer, t) = <<t>> /\ ToSet(<<t>>) = {t}
    BY <1>3, <1>5, <2>1, OneAdded DEF AtBuffer, StageTypes, Downward
  <2>4. CASE trans[t].action = "writeBufferFetch"
    <3>1. writeBufferBuffer' = Append(writeBufferBuffer, t) /\ UNCHANGED bank
      BY <1>5, <2>4
    <3>2. AtBuffer' = {t} /\ InBank' = InBank
      BY <2>3, <3>1, BankKept DEF AtBuffer
    <3>3. Busy' = Busy
      BY <1>1, <2>1, <2>2, <2>3, <3>2, BusyIs, BusyNext DEF All
    <3> QED
      BY <1>2, <2>3, <2>4, <3>2, <3>3
  <2>5. CASE trans[t].action # "writeBufferFetch"
    <3>1. AcceptInBank(t) /\ UNCHANGED writeBufferBuffer /\ BankFree
      BY <1>5, <2>5
    <3>2. t \notin InBank
      BY <1>3, <2>1 DEF World, Places
    <3>3. InBank' = InBank \cup {t}
      BY <1>3, <2>1, <3>1, <3>2, BankTakes
    <3>4. AtBuffer' = AtBuffer
      BY <3>1 DEF AtBuffer
    <3>5. Busy' = Busy
      BY <1>1, <2>1, <2>2, <3>3, <3>4, BusyIs, BusyNext DEF All
    <3> QED
      BY <1>2, <2>3, <3>4, <3>5
  <2> QED
    BY <2>4, <2>5
<1>6. CASE UNCHANGED <<bank, toBank, writeBufferBuffer>>
  <2>1. UNCHANGED <<bank, places>>
    BY <1>1, <1>6 DEF bank, toBank, places
  <2>2. UNCHANGED spots
    BY <1>2, <2>1, SpotsKept
  <2>3. Busy' = Busy /\ AtBank' = AtBank /\ AtBuffer' = AtBuffer
    BY <2>2, BusyKept DEF spots
  <2> QED
    BY <1>2, <2>3
<1> QED
  BY <1>4, <1>5, <1>6 DEF PullFromBuf

\* What becomes of a transaction the bank gives.
Finishes(t) == \/ FinalizeReadHit(t)
               \/ FinalizeWriteHit(t)
               \/ FinalizeBankWriteFetched(t)
               \/ FinalizeBankEviction(t)

\* The bank finishes one transaction of its buffer or does nothing.
LEMMA FinalizeDoes ==
  ASSUME WInv, FinalizeTrans
  PROVE  \/ UNCHANGED <<spots, contents, messages, reqs, Given>>
         \/ \E k \in 1 .. Len(bankBuf) : Gives(k) /\ Finishes(bankBuf[k])
<1> DEFINE k == SelectInSeq(bankBuf, CanFinalize)
<1>1. CASE k = 0
  <2>1. UNCHANGED <<upper, bank, places, contents, messages, reqs, topOut, answers>>
    BY <1>1 DEF FinalizeTrans, top, low, dir, toBank, buffer, misses, work, outside,
                upper, bank, places, contents, messages
  <2> QED
    BY <2>1, SpotsKept, WaitKept DEF WInv, Given
<1>2. CASE k # 0
  <2> DEFINE I == {i \in 1 .. Len(bankBuf) : CanFinalize(bankBuf[i])}
  <2>1. k = IF I # {} THEN Min(I) ELSE 0
    BY DEF SelectInSeq
  <2>2. I # {} /\ k = Min(I)
    BY <1>2, <2>1
  <2>3. I \in SUBSET Nat
    OBVIOUS
  <2>4. k \in I
    <3> HIDE DEF I, k
    <3> QED
      BY <2>2, <2>3, MinInSet
  <2>5. bankBuf' = RemoveAt(bankBuf, k) /\ Finishes(bankBuf[k])
    BY <1>2 DEF FinalizeTrans, Finishes
  <2> HIDE DEF k
  <2>6. UNCHANGED <<topIn, GiveRest>>
    <3>1. UNCHANGED <<low, dir, bankPipe, toBank, buffer, misses, processingMSHREntry, lru,
                      outside>>
      BY DEF FinalizeTrans
    <3>2. topIn' = topIn
      BY <2>5 DEF Finishes, FinalizeReadHit, FinalizeWriteHit, FinalizeBankWriteFetched,
                  FinalizeBankEviction, Respond, top
    <3> QED
      BY <3>1, <3>2 DEF low, dir, toBank, buffer, misses, outside, GiveRest
  <2>7. Gives(k) /\ k \in 1 .. Len(bankBuf)
    BY <2>4, <2>5, <2>6 DEF Gives
  <2> QED
    BY <2>5, <2>7
<1> QED
  BY <1>1, <1>2

\* The transaction leaves the bank.
LEMMA GiveDoes ==
  ASSUME WInv, NEW k, Gives(k)
  PROVE  /\ bankBuf[k] \in InBank /\ bankBuf[k] \in ReqID /\ bankBuf[k] \in Busy
         /\ bankBuf[k] \in 1 .. Taken
         /\ Busy \ {bankBuf[k]} = All(AtBank, InBank \ {bankBuf[k]}, AtBuffer, GoingBack,
                                      inflightFetch)
         /\ InBank' = InBank \ {bankBuf[k]}
         /\ UNCHANGED <<Taken, AtBank, GoingBack, inflightFetch, entry, mshr, reqs, answers,
                        messages>>
<1> DEFINE t == bankBuf[k]
<1>1. /\ t \in InBank /\ t \in ReqID /\ InBank' = InBank \ {t}
      /\ Taken' = Taken /\ AtBank' = AtBank /\ GoingBack' = GoingBack
  BY GiveKeeps
<1>2. World(AtBank, InBank, AtBuffer, GoingBack, inflightFetch, Filled, Taken,
            trans, blocks, entry, mshr, evictingList, reqs)
  BY DEF WInv, WorldInv
<1> HIDE DEF t
<1>3. t \in Busy /\ t \in 1 .. Taken
  BY <1>1, <1>2, BusyIs, WorldTyped DEF All
<1>4. Busy \ {t} = All(AtBank, InBank \ {t}, AtBuffer, GoingBack, inflightFetch)
  <2>1. t \notin AtBank /\ t \notin AtBuffer /\ t \notin GoingBack /\ t \notin inflightFetch
    BY <1>1, <1>2 DEF World, Places
  <2> QED
    BY <2>1, BusyIs DEF All
<1>5. UNCHANGED <<inflightFetch, entry, mshr, reqs, answers, messages>>
  BY DEF Gives, GiveRest, messages
<1> QED
  BY <1>1, <1>3, <1>4, <1>5 DEF t

\* An answer more.
LEMMA GivenMore ==
  ASSUME topOut \in Seq(Response), NEW t \in ReqID, NEW v \in Nat, Respond(t, v),
         UNCHANGED answers
  PROVE  Given' = Given \cup {[rspTo |-> t, ver |-> v]}
<1> DEFINE x == [rspTo |-> t, ver |-> v]
<1>1. topOut' = Append(topOut, x)
  BY DEF Respond
<1>2. x \in Response
  BY DEF Response
<1> HIDE DEF x
<1>3. ToSet(Append(topOut, x)) = ToSet(topOut) \cup {x}
  BY <1>2, SetAppended
<1>4. Given' = Given \cup {x}
  BY <1>1, <1>3 DEF Given, GivenOf
<1> QED
  BY <1>4 DEF x

\* A read that hit is answered from its block, ...
LEMMA ReadHitDoes ==
  ASSUME WInv, NEW k, Gives(k), FinalizeReadHit(bankBuf[k])
  PROVE  LET t == bankBuf[k]
             b == trans[t].block
         IN /\ trans[t].action = "bankReadHit" /\ b \in Slots
            /\ Busy' = Busy \ {t} /\ AtBuffer' = AtBuffer /\ Filled' = Filled
            /\ UNCHANGED <<trans, storage, evictingData, evictingList>>
            /\ Given' = Given \cup {[rspTo |-> t, ver |-> storage[b]]}
            /\ storage[b] \in Nat
            /\ \A c \in Slots : Alike(blocks'[c], blocks[c])
<1> DEFINE t == bankBuf[k]
           b == trans[t].block
<1>1. /\ t \in InBank /\ t \in ReqID /\ t \in Busy /\ InBank' = InBank \ {t}
      /\ Busy \ {t} = All(AtBank, InBank \ {t}, AtBuffer, GoingBack, inflightFetch)
      /\ UNCHANGED <<AtBank, GoingBack, inflightFetch, answers>>
  BY GiveDoes
<1>2. /\ trans[t].action = "bankReadHit" /\ Respond(t, storage[b])
      /\ blocks' = [blocks EXCEPT ![b].ReadCount = @ - 1]
      /\ UNCHANGED <<storage, evictingList, trans, evictingData, mshrStageBuffer,
                     writeBufferBuffer>>
  BY DEF FinalizeReadHit
<1>3. UNCHANGED GiveRest
  BY DEF Gives
<1> HIDE DEF t
<1>4. b \in Slots
  BY <1>1, BusyIs, WorldTyped DEF WInv, WorldInv
<1>5. storage \in [Slots -> Nat] /\ blocks \in [Slots -> BlockType] /\ topOut \in Seq(Response)
  BY DEF WInv, WTypes, ArrayTypes, PortTypes
<1> HIDE DEF b
<1>6. storage[b] \in Nat
  BY <1>4, <1>5
<1>7. Given' = Given \cup {[rspTo |-> t, ver |-> storage[b]]}
  BY <1>1, <1>2, <1>5, <1>6, GivenMore
<1>8. AtBuffer' = AtBuffer /\ Filled' = Filled
  BY <1>2, <1>3 DEF GiveRest, AtBuffer, Filled
<1>9. Busy' = Busy \ {t}
  BY <1>1, <1>8, BusyNext
<1>10. \A c \in Slots : Alike(blocks'[c], blocks[c])
  <2> SUFFICES ASSUME NEW c \in Slots PROVE Alike(blocks'[c], blocks[c])
    OBVIOUS
  <2>1. blocks[c] \in BlockType
    BY <1>5
  <2>2. blocks'[c] = IF c = b THEN [blocks[c] EXCEPT !.ReadCount = @ - 1] ELSE blocks[c]
    BY <1>2, <1>4, <1>5
  <2> QED
    BY <2>1, <2>2 DEF BlockType, Alike
<1> QED
  BY <1>2, <1>4, <1>6, <1>7, <1>8, <1>9, <1>10 DEF b, t

\* ... a write into its block, ...
LEMMA WriteHitDoes ==
  ASSUME WInv, NEW k, Gives(k), FinalizeWriteHit(bankBuf[k])
  PROVE  LET t == bankBuf[k]
             b == trans[t].block
         IN /\ trans[t].action = "bankWriteHit" /\ b \in Slots
            /\ Busy' = Busy \ {t} /\ AtBuffer' = AtBuffer /\ Filled' = Filled
            /\ UNCHANGED <<trans, evictingData, evictingList>>
            /\ Given' = Given \cup {[rspTo |-> t, ver |-> t]}
            /\ storage'[b] = t /\ \A c \in Slots : c # b => storage'[c] = storage[c]
            /\ \A c \in Slots : c # b => blocks'[c] = blocks[c]
            /\ blocks'[b].IsValid /\ ~blocks'[b].IsLocked /\ blocks'[b].IsDirty
            /\ blocks'[b].Tag = blocks[b].Tag
<1> DEFINE t == bankBuf[k]
           b == trans[t].block
<1>1. /\ t \in InBank /\ t \in ReqID /\ t \in Busy /\ InBank' = InBank \ {t}
      /\ Busy \ {t} = All(AtBank, InBank \ {t}, AtBuffer, GoingBack, inflightFetch)
      /\ UNCHANGED <<AtBank, GoingBack, inflightFetch, answers>>
  BY GiveDoes
<1>2. /\ trans[t].action = "bankWriteHit" /\ Respond(t, t)
      /\ storage' = [storage EXCEPT ![b] = t]
      /\ blocks' = [blocks EXCEPT ![b] = [@ EXCEPT !.IsValid = TRUE, !.IsLocked = FALSE,
                                                   !.IsDirty = TRUE]]
      /\ UNCHANGED <<evictingList, trans, evictingData, mshrStageBuffer, writeBufferBuffer>>
  BY DEF FinalizeWriteHit
<1>3. UNCHANGED GiveRest
  BY DEF Gives
<1> HIDE DEF t
<1>4. b \in Slots
  BY <1>1, BusyIs, WorldTyped DEF WInv, WorldInv
<1>5. storage \in [Slots -> Nat] /\ blocks \in [Slots -> BlockType] /\ topOut \in Seq(Response)
  BY DEF WInv, WTypes, ArrayTypes, PortTypes
<1> HIDE DEF b
<1>6. t \in Nat
  BY <1>1, WritebackAssumption DEF ReqID
<1>7. Given' = Given \cup {[rspTo |-> t, ver |-> t]}
  BY <1>1, <1>2, <1>5, <1>6, GivenMore
<1>8. AtBuffer' = AtBuffer /\ Filled' = Filled
  BY <1>2, <1>3 DEF GiveRest, AtBuffer, Filled
<1>9. Busy' = Busy \ {t}
  BY <1>1, <1>8, BusyNext
<1>10. storage'[b] = t /\ \A c \in Slots : c # b => storage'[c] = storage[c]
  BY <1>2, <1>4, <1>5
<1>11. \A c \in Slots : c # b => blocks'[c] = blocks[c]
  BY <1>2, <1>4, <1>5
<1>12. /\ blocks'[b].IsValid /\ ~blocks'[b].IsLocked /\ blocks'[b].IsDirty
       /\ blocks'[b].Tag = blocks[b].Tag
  <2>1. blocks[b] \in BlockType
    BY <1>4, <1>5
  <2>2. blocks'[b] = [blocks[b] EXCEPT !.IsValid = TRUE, !.IsLocked = FALSE, !.IsDirty = TRUE]
    BY <1>2, <1>4, <1>5
  <2> QED
    BY <2>1, <2>2 DEF BlockType
<1> QED
  BY <1>2, <1>4, <1>7, <1>8, <1>9, <1>10, <1>11, <1>12 DEF b, t

\* ... a line that was fetched is put into its block, ...
LEMMA WriteFetchedDoes ==
  ASSUME WInv, NEW k, Gives(k), FinalizeBankWriteFetched(bankBuf[k])
  PROVE  LET t == bankBuf[k]
             b == trans[t].block
         IN /\ trans[t].action = "bankWriteFetched" /\ b \in Slots
            /\ Busy' = Busy \ {t} /\ AtBuffer' = AtBuffer /\ Filled' = Filled \cup {t}
            /\ UNCHANGED <<trans, evictingData, evictingList, Given>>
            /\ storage'[b] = EntryData(t) /\ \A c \in Slots : c # b => storage'[c] = storage[c]
            /\ \A c \in Slots : c # b => blocks'[c] = blocks[c]
            /\ blocks'[b].IsValid /\ ~blocks'[b].IsLocked
            /\ blocks'[b].IsDirty = blocks[b].IsDirty /\ blocks'[b].Tag = blocks[b].Tag
<1> DEFINE t == bankBuf[k]
           b == trans[t].block
<1>1. /\ t \in InBank /\ t \in ReqID /\ t \in Busy /\ InBank' = InBank \ {t}
      /\ Busy \ {t} = All(AtBank, InBank \ {t}, AtBuffer, GoingBack, inflightFetch)
      /\ UNCHANGED <<AtBank, GoingBack, inflightFetch, answers>>
  BY GiveDoes
<1>2. /\ trans[t].action = "bankWriteFetched"
      /\ mshrStageBuffer' = Append(mshrStageBuffer, trans[t].entry)
      /\ storage' = [storage EXCEPT ![entry[trans[t].entry].block] = EntryData(trans[t].entry)]
      /\ blocks' = [blocks EXCEPT ![entry[trans[t].entry].block].IsLocked = FALSE,
                                  ![entry[trans[t].entry].block].IsValid = TRUE]
      /\ UNCHANGED <<topOut, downwardInflightTransCount, evictingList, trans, evictingData,
                     writeBufferBuffer>>
  BY DEF FinalizeBankWriteFetched, top, work
<1>3. UNCHANGED GiveRest /\ CanFinalize(t)
  BY DEF Gives
<1> HIDE DEF t
<1>4. b \in Slots /\ trans[t].entry = t /\ entry[t].block = b
  <2>1. trans[t].action \in Filling
    BY <1>2 DEF Filling
  <2> QED
    BY <1>1, <2>1, BusyIs, WorldTyped DEF WInv, WorldInv
<1>5. /\ storage \in [Slots -> Nat] /\ blocks \in [Slots -> BlockType]
      /\ Single(mshrStageBuffer)
  BY DEF WInv, WTypes, ArrayTypes, StageTypes
<1> HIDE DEF b
<1>6. Filled' = Filled \cup {t}
  <2>1. Room(mshrStageBuffer, 1)
    BY <1>2, <1>3 DEF CanFinalize, Evicting
  <2>2. mshrStageBuffer' = <<t>> /\ ToSet(<<t>>) = {t} /\ ToSet(mshrStageBuffer) = {}
    BY <1>1, <1>2, <1>4, <1>5, <2>1, OneAdded
  <2>3. processingMSHREntry' = processingMSHREntry
    BY <1>3 DEF GiveRest
  <2> QED
    BY <2>2, <2>3 DEF Filled, FilledOf
<1>7. AtBuffer' = AtBuffer /\ Given' = Given
  BY <1>1, <1>2 DEF AtBuffer, Given
<1>8. Busy' = Busy \ {t}
  BY <1>1, <1>7, BusyNext
<1>9. storage'[b] = EntryData(t) /\ \A c \in Slots : c # b => storage'[c] = storage[c]
  BY <1>2, <1>4, <1>5
<1>10. \A c \in Slots : c # b => blocks'[c] = blocks[c]
  BY <1>2, <1>4, <1>5
<1>11. /\ blocks'[b].IsValid /\ ~blocks'[b].IsLocked
       /\ blocks'[b].IsDirty = blocks[b].IsDirty /\ blocks'[b].Tag = blocks[b].Tag
  <2>1. blocks[b] \in BlockType
    BY <1>4, <1>5
  <2>2. blocks' = [blocks EXCEPT ![b] = [blocks[b] EXCEPT !.IsLocked = FALSE, !.IsValid = TRUE]]
    BY <1>2, <1>4, <1>5
  <2>3. blocks'[b] = [blocks[b] EXCEPT !.IsLocked = FALSE, !.IsValid = TRUE]
    BY <1>4, <1>5, <2>2
  <2> QED
    BY <2>1, <2>3 DEF BlockType
<1> QED
  BY <1>2, <1>4, <1>6, <1>7, <1>8, <1>9, <1>10, <1>11 DEF b, t

\* ... and old contents are taken out of theirs.
LEMMA EvictionDoes ==
  ASSUME WInv, NEW k, Gives(k), FinalizeBankEviction(bankBuf[k])
  PROVE  LET t == bankBuf[k]
             b == trans[t].block
         IN /\ trans[t].action \in Evicting /\ b \in Slots
            /\ Busy' = Busy /\ AtBuffer = {} /\ AtBuffer' = {t} /\ Filled' = Filled
            /\ UNCHANGED <<blocks, storage, Given>>
            /\ OnlyAction(t, trans, trans')
            /\ trans'[t].action = (IF trans[t].action = "bankEvictAndFetch"
                                     THEN "writeBufferEvictAndFetch"
                                     ELSE "writeBufferEvictAndWrite")
            /\ evictingData'[t] = storage[b]
            /\ \A u \in ReqID : u # t => evictingData'[u] = evictingData[u]
<1> DEFINE t == bankBuf[k]
           b == trans[t].block
           a == IF trans[t].action = "bankEvictAndFetch" THEN "writeBufferEvictAndFetch"
                                                         ELSE "writeBufferEvictAndWrite"
<1>1. /\ t \in InBank /\ t \in ReqID /\ t \in Busy /\ InBank' = InBank \ {t}
      /\ Busy \ {t} = All(AtBank, InBank \ {t}, AtBuffer, GoingBack, inflightFetch)
      /\ UNCHANGED <<AtBank, GoingBack, inflightFetch, answers>>
  BY GiveDoes
<1>2. /\ trans[t].action \in Evicting
      /\ evictingData' = [evictingData EXCEPT ![t] = storage[b]]
      /\ trans' = [trans EXCEPT ![t].action =
                     IF @ = "bankEvictAndFetch" THEN "writeBufferEvictAndFetch"
                                                ELSE "writeBufferEvictAndWrite"]
      /\ writeBufferBuffer' = Append(writeBufferBuffer, t)
      /\ UNCHANGED <<topOut, blocks, storage, mshrStageBuffer>>
  BY DEF FinalizeBankEviction, Released, top
<1>3. UNCHANGED GiveRest /\ CanFinalize(t)
  BY DEF Gives
<1> HIDE DEF t
<1>4. b \in Slots
  BY <1>1, BusyIs, WorldTyped DEF WInv, WorldInv
<1>5. /\ evictingData \in [ReqID -> Nat] /\ trans \in [ReqID -> TransType]
      /\ Single(writeBufferBuffer)
  BY DEF WInv, WTypes, ArrayTypes, StageTypes, BufferTypes
<1> HIDE DEF b
<1>6. trans'[t].action = a /\ OnlyAction(t, trans, trans')
  <2>1. trans' = [trans EXCEPT ![t].action = a]
    BY <1>1, <1>2, <1>5
  <2>2. a \in Actions
    BY DEF Actions
  <2> HIDE DEF a
  <2> QED
    BY <1>1, <1>5, <2>1, <2>2, ActionSet
<1>7. AtBuffer = {} /\ AtBuffer' = {t}
  <2>1. Room(writeBufferBuffer, 1)
    BY <1>2, <1>3 DEF CanFinalize, Evicting
  <2> QED
    BY <1>1, <1>2, <1>5, <2>1, OneAdded DEF AtBuffer
<1>8. Filled' = Filled /\ Given' = Given
  BY <1>1, <1>2, <1>3 DEF GiveRest, Filled, Given
<1>9. Busy' = Busy
  <2>1. Busy' = (Busy \ {t}) \cup {t}
    BY <1>1, <1>7, BusyNext DEF All
  <2> QED
    BY <1>1, <2>1
<1>10. /\ evictingData'[t] = storage[b]
       /\ \A u \in ReqID : u # t => evictingData'[u] = evictingData[u]
  BY <1>1, <1>2, <1>5
<1> QED
  BY <1>2, <1>4, <1>6, <1>7, <1>8, <1>9, <1>10 DEF a, b, t

\* The entries keep their blocks and what they were filled with.
SameData(en, en2) ==
  \A u \in ReqID : /\ en2[u].block = en[u].block
                   /\ en2[u].data = en[u].data /\ en2[u].slice = en[u].slice

\* The list of one entry changes.
WithList(en, e, q) == [en EXCEPT ![e].requests = q]

\* What an array of entries with a new list in one of them is.
LEMMA ListSet ==
  ASSUME NEW en \in [ReqID -> EntryType], NEW e \in ReqID, NEW q \in Seq(ReqID),
         NEW en2, en2 = WithList(en, e, q)
  PROVE  /\ SameData(en, en2) /\ en2[e].requests = q
         /\ \A u \in ReqID : u # e => en2[u].requests = en[u].requests
<1> DEFINE r == [en[e] EXCEPT !.requests = q]
<1>1. en[e] \in EntryType
  OBVIOUS
<1>2. /\ r.block = en[e].block /\ r.data = en[e].data /\ r.slice = en[e].slice
      /\ r.requests = q
  BY <1>1 DEF EntryType
<1>3. en2[e] = r /\ \A u \in ReqID : u # e => en2[u] = en[u]
  BY DEF WithList
<1> HIDE DEF r
<1> QED
  BY <1>2, <1>3 DEF SameData

\* The mshr stage answers the first request of an entry that is filled.
AnswersOf(e) ==
  /\ e \in Filled /\ e \in ReqID /\ entry[e].requests \in Seq(ReqID) /\ entry[e].requests # <<>>
  /\ EntryData(e) \in Nat
  /\ SameData(entry, entry') /\ entry'[e].requests = Tail(entry[e].requests)
  /\ \A u \in ReqID : u # e => entry'[u].requests = entry[u].requests
  /\ Given' = Given \cup {[rspTo |-> Head(entry[e].requests), ver |-> EntryData(e)]}

\* The MSHR stage answers the first request of the list it serves or takes the next
\* list, and touches nothing else.
LEMMA MshrDoes ==
  ASSUME WInv, MshrStage
  PROVE  /\ UNCHANGED <<AtBank, InBank, AtBuffer, GoingBack, inflightFetch, Taken, Busy,
                        trans, blocks, storage, mshr, evictingData, evictingList, messages, reqs>>
         /\ Filled' \in SUBSET Filled
         /\ UNCHANGED <<entry, Given>> \/ \E e \in ReqID : AnswersOf(e)
<1> DEFINE e == CurrentEntry
           left == Tail(entry[e].requests)
           h == Head(entry[e].requests)
<1>1. /\ UNCHANGED <<upper, bank, trans, blocks, storage, mshr, evictingData, evictingList,
                     messages, reqs, answers, dirToBank, writeBufferToBank, writeBufferBuffer,
                     inflightFetch>>
      /\ mshrStageBuffer' = IF processingMSHREntry = 0 /\ mshrStageBuffer # <<>>
                              THEN Tail(mshrStageBuffer) ELSE mshrStageBuffer
  BY DEF MshrStage, Respond, top, low, dir, bank, toBank, buffer, array, outside,
         upper, messages
<1>2. \/ /\ e # 0 /\ CanSend(topOut)
         /\ Respond(h, EntryData(e))
         /\ entry' = [entry EXCEPT ![e].requests = left]
         /\ processingMSHREntry' = IF left = <<>> THEN 0 ELSE e
      \/ processingMSHREntry' = e /\ UNCHANGED <<topOut, entry>>
  BY DEF MshrStage, top
<1>3. /\ StageTypes /\ ApartInv /\ WaitInv /\ entry \in [ReqID -> EntryType]
      /\ evictingData \in [ReqID -> Nat] /\ topOut \in Seq(Response)
      /\ World(AtBank, InBank, AtBuffer, GoingBack, inflightFetch, Filled, Taken,
               trans, blocks, entry, mshr, evictingList, reqs)
  BY DEF WInv, WTypes, WorldInv, BufferTypes, ArrayTypes, PortTypes
<1> HIDE DEF left, h
<1>4. processingMSHREntry' \in {0, e}
  BY <1>2
<1>5. /\ e = 0 \/ (e \in Filled /\ e \in ReqID)
      /\ Filled' \in SUBSET Filled
  BY <1>1, <1>3, <1>4, MshrTakes
<1> HIDE DEF e
<1>6. Taken' = Taken /\ InBank' = InBank
  BY <1>1, <1>3, WaitKept, BankKept
<1>7. AtBank' = AtBank /\ AtBuffer' = AtBuffer /\ GoingBack' = GoingBack
  BY <1>1 DEF AtBank, AtBuffer, GoingBack
<1>8. Busy' = Busy
  BY <1>1, <1>6, <1>7, BusyIs, BusyNext
<1>9. CASE processingMSHREntry' = e /\ UNCHANGED <<topOut, entry>>
  <2>1. UNCHANGED <<entry, Given>>
    BY <1>1, <1>9 DEF Given
  <2> QED
    BY <1>1, <1>5, <1>6, <1>7, <1>8, <2>1
<1>10. CASE /\ e # 0 /\ CanSend(topOut)
            /\ Respond(h, EntryData(e))
            /\ entry' = [entry EXCEPT ![e].requests = left]
            /\ processingMSHREntry' = IF left = <<>> THEN 0 ELSE e
  <2>1. e \in ReqID /\ e \in Filled
    BY <1>5, <1>10
  <2>2. entry[e].requests \in Seq(ReqID) /\ entry[e].requests # <<>>
    <3>1. entry[e].requests # <<>>
      BY <1>3, <2>1 DEF World, Opens
    <3>2. entry[e] \in EntryType
      BY <1>3, <2>1
    <3> QED
      BY <3>1, <3>2 DEF EntryType
  <2>3. h \in ReqID /\ left \in Seq(ReqID)
    BY <2>2, Taken1 DEF left, h
  <2>4. EntryData(e) \in Nat
    BY <1>3, <2>1, EntryDataTyped
  <2>5. /\ SameData(entry, entry') /\ entry'[e].requests = left
        /\ \A u \in ReqID : u # e => entry'[u].requests = entry[u].requests
    <3>1. entry' = WithList(entry, e, left)
      BY <1>10 DEF WithList
    <3>2. entry \in [ReqID -> EntryType] /\ e \in ReqID /\ left \in Seq(ReqID)
      BY <1>3, <2>1, <2>3
    <3> QED
      BY <3>1, <3>2, ListSet
  <2>6. Given' = Given \cup {[rspTo |-> h, ver |-> EntryData(e)]}
    BY <1>1, <1>3, <1>10, <2>3, <2>4, GivenMore
  <2>7. AnswersOf(e)
    BY <2>1, <2>2, <2>4, <2>5, <2>6 DEF AnswersOf, left, h
  <2> QED
    BY <1>1, <1>5, <1>6, <1>7, <1>8, <2>1, <2>7
<1> QED
  BY <1>2, <1>9, <1>10

\* The line of transaction t is there: what its entry is filled with, and the dirt of
\* its block.
Fills(t, v, s) ==
  /\ OnlyAction(t, trans, trans') /\ trans'[t].action = "bankWriteFetched"
  /\ trans[t].entry = t /\ entry[t].block = trans[t].block /\ trans[t].block \in Slots
  /\ SameEntries(entry, entry') /\ SameBlocks(blocks, blocks')
  /\ entry'[t].data = Combined(t, v) /\ entry'[t].slice = s
  /\ \A u \in ReqID : u # t => entry'[u] = entry[u]
  /\ \A c \in Slots : c # trans[t].block => blocks'[c] = blocks[c]
  /\ blocks'[trans[t].block].IsDirty =
       (blocks[trans[t].block].IsDirty \/ WaitingWrites(t) # <<>>)
  /\ mshr' = mshr \ {t}

\* A line that arrives sends its transaction back to the bank.
LEMMA FillGives ==
  ASSUME WInv, Room(writeBufferToBank, 1), NEW t \in Busy, trans[t].action \in Fetching,
         NEW v \in Nat, NEW s \in 0 .. MaxReqs, Fill(t, v, s)
  PROVE  Fills(t, v, s) /\ GoingBack = {} /\ GoingBack' = {t} /\ t \in ReqID
<1> DEFINE b == trans[t].block
           d == Combined(t, v)
           k == blocks[b].IsDirty \/ WaitingWrites(t) # <<>>
<1>1. ArrayTypes /\ Single(writeBufferToBank)
  BY DEF WInv, WTypes, StageTypes
<1>2. t \in ReqID /\ trans[t].entry = t /\ entry[t].block = b /\ b \in Slots
  BY BusyIs, WorldTyped DEF WInv, WorldInv, Filling
<1>3. /\ OnlyAction(t, trans, trans')
      /\ trans'[t].action = "bankWriteFetched"
      /\ SameEntries(entry, entry') /\ SameBlocks(blocks, blocks')
      /\ mshr' = mshr \ {t}
      /\ writeBufferToBank' = <<t>>
      /\ ToSet(<<t>>) = {t} /\ ToSet(writeBufferToBank) = {}
  BY <1>1, <1>2, FillDoes
<1>4. /\ entry' = [entry EXCEPT ![t].data = d, ![t].slice = s]
      /\ blocks' = [blocks EXCEPT ![b].IsDirty = k]
  BY <1>2 DEF Fill
<1>5. /\ entry \in [ReqID -> EntryType] /\ blocks \in [Slots -> BlockType]
  BY <1>1 DEF ArrayTypes
<1> HIDE DEF d, k, b
<1>6. /\ entry'[t].data = d /\ entry'[t].slice = s
      /\ \A u \in ReqID : u # t => entry'[u] = entry[u]
  <2> DEFINE r == [entry[t] EXCEPT !.data = d, !.slice = s]
  <2>1. entry[t] \in EntryType
    BY <1>2, <1>5
  <2>2. r.data = d /\ r.slice = s
    BY <2>1 DEF EntryType
  <2>3. entry' = [entry EXCEPT ![t] = r]
    BY <1>2, <1>4, <1>5, <2>1 DEF EntryType
  <2> HIDE DEF r
  <2> QED
    BY <1>2, <1>5, <2>2, <2>3
<1>7. /\ blocks'[b].IsDirty = k
      /\ \A c \in Slots : c # b => blocks'[c] = blocks[c]
  <2> DEFINE r == [blocks[b] EXCEPT !.IsDirty = k]
  <2>1. blocks[b] \in BlockType
    BY <1>2, <1>5
  <2>2. r.IsDirty = k
    BY <2>1 DEF BlockType
  <2>3. blocks' = [blocks EXCEPT ![b] = r]
    BY <1>4
  <2> HIDE DEF r
  <2> QED
    BY <1>2, <1>5, <2>2, <2>3
<1>8. GoingBack = {} /\ GoingBack' = {t}
  BY <1>3 DEF GoingBack
<1> QED
  BY <1>2, <1>3, <1>6, <1>7, <1>8 DEF Fills, b, d, k

\* A line has come from below.
LEMMA DataReadyDoes ==
  ASSUME WInv, UNCHANGED ReturnRest, ProcessDataReadyRsp
  PROVE  LET m == Head(bottomIn)
             t == m.of
         IN /\ bottomIn # <<>> /\ ~m.write /\ bottomIn' = Tail(bottomIn) /\ m.ver \in Nat
            /\ t \in ReqID /\ t \in inflightFetch /\ t \in Busy
            /\ trans[t].action = "writeBufferFetch"
            /\ inflightFetch' = inflightFetch \ {t}
            /\ Fills(t, m.ver, 0)
            /\ Busy' = Busy /\ GoingBack' = {t}
            /\ UNCHANGED <<AtBank, InBank, AtBuffer, Filled, Taken, Given, storage,
                           evictingData, evictingList, reqs, inflightEviction,
                           pendingEvictions, bottomOut, lowReqs, mem>>
<1> DEFINE m == Head(bottomIn)
           t == m.of
<1>1. /\ bottomIn # <<>> /\ ~m.write /\ Room(writeBufferToBank, 1)
      /\ Fill(t, m.ver, 0)
      /\ inflightFetch' = inflightFetch \ {t} /\ bottomIn' = Tail(bottomIn)
      /\ inflightEviction' = inflightEviction
  BY DEF ProcessDataReadyRsp
<1>2. /\ PortTypes /\ AskInv
      /\ World(AtBank, InBank, AtBuffer, GoingBack, inflightFetch, Filled, Taken,
               trans, blocks, entry, mshr, evictingList, reqs)
  BY DEF WInv, WTypes, WorldInv
<1>3. /\ Taken' = Taken /\ InBank' = InBank
      /\ AtBank' = AtBank /\ AtBuffer' = AtBuffer /\ Filled' = Filled
  BY ReturnRestKept
<1>4. bottomIn \in Seq(Answer)
  BY <1>2 DEF PortTypes
<1>5. t \in inflightFetch
  BY <1>1, <1>2, <1>4, AskDone DEF AskInv
<1>6. m \in Answer
  BY <1>1, <1>4, Taken1
<1> HIDE DEF m
<1>7. m.ver \in Nat /\ 0 \in 0 .. MaxReqs
  BY <1>6, WritebackAssumption DEF Answer
<1> HIDE DEF t
<1>8. t \in Busy /\ trans[t].action = "writeBufferFetch"
  BY <1>2, <1>5, BusyIs DEF World, Fits, All
<1>9. Fills(t, m.ver, 0) /\ GoingBack = {} /\ GoingBack' = {t} /\ t \in ReqID
  <2>1. trans[t].action \in Fetching
    BY <1>8 DEF Fetching
  <2> QED
    BY <1>1, <1>7, <1>8, <2>1, FillGives
<1>10. Busy' = Busy
  BY <1>1, <1>3, <1>5, <1>9, BusyIs, BusyNext DEF All
<1>11. UNCHANGED <<Given, storage, evictingData, evictingList, reqs, pendingEvictions,
                   bottomOut, lowReqs, mem>>
  BY DEF ReturnRest, Given
<1> QED
  BY <1>1, <1>3, <1>5, <1>7, <1>8, <1>9, <1>10, <1>11 DEF m, t

\* A write has been done below.
LEMMA WriteDoneDoes ==
  ASSUME WInv, UNCHANGED ReturnRest, ProcessWriteDoneRsp
  PROVE  /\ bottomIn # <<>> /\ Head(bottomIn).write /\ bottomIn' = Tail(bottomIn)
         /\ inflightEviction' = Filter(inflightEviction, ReqID \ {Head(bottomIn).of})
         /\ UNCHANGED <<spots, contents, reqs, Given, pendingEvictions, bottomOut, lowReqs, mem>>
<1>1. /\ bottomIn # <<>> /\ Head(bottomIn).write /\ bottomIn' = Tail(bottomIn)
      /\ inflightEviction' = Filter(inflightEviction, ReqID \ {Head(bottomIn).of})
      /\ UNCHANGED <<inflightFetch, entry, blocks, mshr, trans, writeBufferToBank>>
  BY DEF ProcessWriteDoneRsp
<1>2. UNCHANGED <<bank, places, upper, contents, reqs, Given, pendingEvictions, bottomOut,
                  lowReqs, mem>>
  BY <1>1 DEF bank, places, upper, contents, ReturnRest, Given
<1>3. UNCHANGED spots
  BY <1>2, SpotsKept, WaitKept DEF WInv
<1> QED
  BY <1>1, <1>2, <1>3

\* Nothing comes back from below.
LEMMA NoReturnDoes ==
  ASSUME WInv, UNCHANGED ReturnRest, NoReturnRsp
  PROVE  UNCHANGED <<spots, contents, messages, reqs, Given>>
<1>1. UNCHANGED <<bank, places, upper, contents, messages, reqs, Given>>
  BY DEF NoReturnRsp, ReturnRest, bank, places, upper, contents, messages, Given
<1> QED
  BY <1>1, SpotsKept, WaitKept DEF WInv

\* What the write buffer leaves as it is.
NewKept == <<AtBank, InBank, Filled, Taken, Given, storage, evictingList, reqs,
             inflightEviction, bottomIn, lowReqs, mem>>

\* The transaction before the write buffer.
LEMMA NewDoes ==
  ASSUME WInv, UNCHANGED NewRest, writeBufferBuffer # <<>>
  PROVE  LET t == Head(writeBufferBuffer)
         IN /\ t \in ReqID /\ t \in Busy /\ AtBuffer = {t}
            /\ UNCHANGED NewKept
            /\ writeBufferBuffer' = Tail(writeBufferBuffer) => AtBuffer' = {}
<1> DEFINE t == Head(writeBufferBuffer)
<1>1. /\ Taken' = Taken /\ InBank' = InBank /\ AtBank' = AtBank /\ Filled' = Filled
      /\ t \in ReqID /\ t \in All(AtBank, InBank, AtBuffer, GoingBack, inflightFetch)
      /\ AtBuffer = {t} /\ Tail(writeBufferBuffer) = <<>> /\ ToSet(<<>>) = {}
  BY NewRestKept
<1>2. UNCHANGED <<Given, storage, evictingList, reqs, inflightEviction, bottomIn, lowReqs, mem>>
  BY DEF NewRest, Given
<1>3. UNCHANGED NewKept
  BY <1>1, <1>2 DEF NewKept
<1> QED
  BY <1>1, <1>3, BusyIs DEF AtBuffer

\* The line is in an eviction the write buffer holds.
LEMMA FetchLocallyDoes ==
  ASSUME WInv, UNCHANGED NewRest, writeBufferBuffer # <<>>,
         FetchLocally(Head(writeBufferBuffer))
  PROVE  LET t == Head(writeBufferBuffer)
             u == Head(LocalEvictions(Line(t)))
         IN /\ t \in ReqID /\ t \in Busy /\ AtBuffer = {t} /\ AtBuffer' = {}
            /\ trans[t].action = "writeBufferFetch"
            /\ u \in ReqID /\ LocalEvictions(Line(t)) # <<>>
            /\ Fills(t, evictingData[u], u) /\ evictingData[u] \in Nat
            /\ evictingData'[u] = Combined(t, evictingData[u])
            /\ \A x \in ReqID : x # u => evictingData'[x] = evictingData[x]
            /\ Busy' = Busy /\ GoingBack' = {t}
            /\ UNCHANGED NewKept
            /\ UNCHANGED <<bottomOut, inflightFetch, pendingEvictions>>
<1> DEFINE t == Head(writeBufferBuffer)
           u == Head(LocalEvictions(Line(t)))
<1>1. /\ t \in ReqID /\ t \in Busy /\ AtBuffer = {t} /\ UNCHANGED NewKept
      /\ writeBufferBuffer' = Tail(writeBufferBuffer) => AtBuffer' = {}
  BY NewDoes
<1>2. /\ trans[t].action = "writeBufferFetch"
      /\ LocalEvictions(Line(t)) # <<>> /\ Room(writeBufferToBank, 1)
      /\ Fill(t, evictingData[u], u)
      /\ evictingData' = [evictingData EXCEPT ![u] = Combined(trans[t].entry, @)]
      /\ writeBufferBuffer' = Tail(writeBufferBuffer)
      /\ UNCHANGED <<bottomOut, inflightFetch, pendingEvictions>>
  BY DEF FetchLocally
<1> HIDE DEF t
<1>3. BufferTypes
  BY DEF WInv, WTypes
<1>4. u \in ReqID
  <2> DEFINE q == inflightEviction \o pendingEvictions
             kept == {x \in ReqID : trans[x].evictingAddr = Line(t)}
  <2>1. q \in Seq(ReqID)
    BY <1>3, ConcatProperties DEF BufferTypes
  <2>2. LocalEvictions(Line(t)) = Filter(q, kept)
    BY DEF LocalEvictions
  <2>3. kept \in SUBSET ReqID
    OBVIOUS
  <2> HIDE DEF q, kept
  <2> QED
    BY <1>2, <2>1, <2>2, <2>3, FilterHead
<1> HIDE DEF u
<1>5. evictingData[u] \in Nat /\ u \in 0 .. MaxReqs /\ evictingData \in [ReqID -> Nat]
  BY <1>3, <1>4, WritebackAssumption DEF BufferTypes, ReqID
<1>6. Fills(t, evictingData[u], u) /\ GoingBack = {} /\ GoingBack' = {t}
  <2> DEFINE v == evictingData[u]
  <2>1. trans[t].action \in Fetching
    BY <1>2 DEF Fetching
  <2>2. v \in Nat /\ Fill(t, v, u) /\ Room(writeBufferToBank, 1)
    BY <1>2, <1>5
  <2> HIDE DEF v
  <2>3. Fills(t, v, u) /\ GoingBack = {} /\ GoingBack' = {t}
    BY <1>1, <1>5, <2>1, <2>2, FillGives
  <2> QED
    BY <2>3 DEF v
<1>7. Busy' = Busy
  BY <1>1, <1>2, <1>6, BusyIs, BusyNext DEF All, NewKept
<1>8. /\ evictingData'[u] = Combined(t, evictingData[u])
      /\ \A x \in ReqID : x # u => evictingData'[x] = evictingData[x]
  <2>1. trans[t].entry = t
    BY <1>6 DEF Fills
  <2> QED
    BY <1>2, <1>4, <1>5, <2>1
<1> QED
  BY <1>1, <1>2, <1>4, <1>5, <1>6, <1>7, <1>8 DEF t, u

\* The line is asked of the low module.
LEMMA FetchFromBottomDoes ==
  ASSUME WInv, UNCHANGED NewRest, writeBufferBuffer # <<>>,
         FetchFromBottom(Head(writeBufferBuffer))
  PROVE  LET t == Head(writeBufferBuffer)
         IN /\ t \in ReqID /\ t \in Busy /\ AtBuffer = {t} /\ AtBuffer' = {}
            /\ trans[t].action = "writeBufferFetch" /\ LocalEvictions(Line(t)) = <<>>
            /\ bottomOut' = Append(bottomOut, [write |-> FALSE, of |-> t, line |-> Line(t)])
            /\ inflightFetch' = inflightFetch \cup {t}
            /\ Busy' = Busy
            /\ UNCHANGED NewKept
            /\ UNCHANGED <<GoingBack, mshr, entry, blocks, trans, evictingData,
                           pendingEvictions>>
<1> DEFINE t == Head(writeBufferBuffer)
<1>1. /\ t \in ReqID /\ t \in Busy /\ AtBuffer = {t} /\ UNCHANGED NewKept
      /\ writeBufferBuffer' = Tail(writeBufferBuffer) => AtBuffer' = {}
  BY NewDoes
<1>2. /\ trans[t].action = "writeBufferFetch" /\ LocalEvictions(Line(t)) = <<>>
      /\ bottomOut' = Append(bottomOut, [write |-> FALSE, of |-> t, line |-> Line(t)])
      /\ inflightFetch' = inflightFetch \cup {t}
      /\ writeBufferBuffer' = Tail(writeBufferBuffer)
      /\ UNCHANGED <<mshr, entry, blocks, trans, writeBufferToBank, evictingData,
                     pendingEvictions>>
  BY DEF FetchFromBottom, misses
<1> HIDE DEF t
<1>3. GoingBack' = GoingBack
  BY <1>2 DEF GoingBack
<1>4. Busy' = Busy
  BY <1>1, <1>2, <1>3, BusyIs, BusyNext DEF All, NewKept
<1> QED
  BY <1>1, <1>2, <1>3, <1>4 DEF t

\* The eviction of a full write is taken, and the write goes back to the bank.
LEMMA EvictAndWriteDoes ==
  ASSUME WInv, UNCHANGED NewRest, writeBufferBuffer # <<>>,
         EvictAndWrite(Head(writeBufferBuffer))
  PROVE  LET t == Head(writeBufferBuffer)
         IN /\ t \in ReqID /\ t \in Busy /\ AtBuffer = {t} /\ AtBuffer' = {}
            /\ trans[t].action = "writeBufferEvictAndWrite"
            /\ OnlyAction(t, trans, trans') /\ trans'[t].action = "bankWriteHit"
            /\ pendingEvictions' = Append(pendingEvictions, t)
            /\ Busy' = Busy
            /\ UNCHANGED NewKept
            /\ UNCHANGED <<inflightFetch, mshr, entry, blocks, evictingData, bottomOut>>
<1> DEFINE t == Head(writeBufferBuffer)
           a == "bankWriteHit"
<1>1. /\ t \in ReqID /\ t \in Busy /\ AtBuffer = {t} /\ UNCHANGED NewKept
      /\ writeBufferBuffer' = Tail(writeBufferBuffer) => AtBuffer' = {}
  BY NewDoes
<1>2. /\ trans[t].action = "writeBufferEvictAndWrite" /\ Room(writeBufferToBank, 1)
      /\ trans' = [trans EXCEPT ![t].action = a]
      /\ writeBufferToBank' = Append(writeBufferToBank, t)
      /\ pendingEvictions' = Append(pendingEvictions, t)
      /\ writeBufferBuffer' = Tail(writeBufferBuffer)
      /\ UNCHANGED <<bottomOut, inflightFetch, mshr, entry, blocks, evictingData>>
  BY DEF EvictAndWrite, misses
<1> HIDE DEF t
<1>3. Single(writeBufferToBank) /\ trans \in [ReqID -> TransType] /\ a \in Actions
  BY DEF WInv, WTypes, StageTypes, ArrayTypes, Actions
<1>4. GoingBack = {} /\ GoingBack' = {t}
  BY <1>1, <1>2, <1>3, OneAdded DEF GoingBack
<1> HIDE DEF a
<1>5. OnlyAction(t, trans, trans') /\ trans'[t].action = a
  BY <1>1, <1>2, <1>3, ActionSet
<1>6. Busy' = Busy
  BY <1>1, <1>2, <1>4, BusyIs, BusyNext DEF All, NewKept
<1> QED
  BY <1>1, <1>2, <1>5, <1>6 DEF t, a

\* The eviction of a miss is taken, and the miss stays as a fetch.
LEMMA EvictAndFetchDoes ==
  ASSUME WInv, UNCHANGED NewRest, writeBufferBuffer # <<>>,
         EvictAndFetch(Head(writeBufferBuffer))
  PROVE  LET t == Head(writeBufferBuffer)
         IN /\ t \in ReqID /\ t \in Busy /\ AtBuffer = {t} /\ AtBuffer' = {t}
            /\ trans[t].action = "writeBufferEvictAndFetch"
            /\ OnlyAction(t, trans, trans') /\ trans'[t].action = "writeBufferFetch"
            /\ pendingEvictions' = Append(pendingEvictions, t)
            /\ Busy' = Busy
            /\ UNCHANGED NewKept
            /\ UNCHANGED <<GoingBack, inflightFetch, mshr, entry, blocks, evictingData, bottomOut>>
<1> DEFINE t == Head(writeBufferBuffer)
           a == "writeBufferFetch"
<1>1. /\ t \in ReqID /\ t \in Busy /\ AtBuffer = {t} /\ UNCHANGED NewKept
  BY NewDoes
<1>2. /\ trans[t].action = "writeBufferEvictAndFetch"
      /\ trans' = [trans EXCEPT ![t].action = a]
      /\ pendingEvictions' = Append(pendingEvictions, t)
      /\ UNCHANGED <<bottomOut, inflightFetch, mshr, entry, blocks, evictingData,
                     writeBufferBuffer, writeBufferToBank>>
  BY DEF EvictAndFetch, misses
<1> HIDE DEF t
<1>3. trans \in [ReqID -> TransType] /\ a \in Actions
  BY DEF WInv, WTypes, ArrayTypes, Actions
<1> HIDE DEF a
<1>4. OnlyAction(t, trans, trans') /\ trans'[t].action = a
  BY <1>1, <1>2, <1>3, ActionSet
<1>5. AtBuffer' = AtBuffer /\ GoingBack' = GoingBack
  BY <1>2 DEF AtBuffer, GoingBack
<1>6. Busy' = Busy
  BY <1>1, <1>2, <1>5, BusyIs, BusyNext DEF NewKept
<1> QED
  BY <1>1, <1>2, <1>4, <1>5, <1>6 DEF t, a

\* The write buffer takes nothing.
LEMMA NewWaitsDoes ==
  ASSUME WInv, UNCHANGED NewRest,
         UNCHANGED <<bottomOut, inflightFetch, misses, blocks, trans, writeBufferToBank,
                     evictingData, pendingEvictions, writeBufferBuffer>>
  PROVE  UNCHANGED <<spots, contents, messages, reqs, Given>>
<1>1. UNCHANGED <<bank, places, upper, contents, messages, reqs, Given>>
  BY DEF NewRest, misses, bank, places, upper, contents, messages, Given
<1> QED
  BY <1>1, SpotsKept, WaitKept DEF WInv

(***************************************************************************)
(* The directory                                                           *)
(***************************************************************************)
\* What the directory leaves as it is.
DirKept == <<InBank, AtBuffer, GoingBack, inflightFetch, Filled, Given, storage, reqs,
             evictingData, messages>>

\* The directory takes the next request and, at most, sends it to the bank.
LEMMA TakesDoes ==
  ASSUME WInv, NEW t, Takes(t)
  PROVE  /\ t \in ReqID /\ t = Taken + 1 /\ Taken' = t /\ Taken \in Nat /\ t \notin Busy
         /\ t =< Len(reqs) /\ reqs[t] \in Request
         /\ UNCHANGED DirKept
         /\ AtBank' = AtBank \cup {t} => Busy' = Busy \cup {t}
         /\ AtBank' = AtBank => Busy' = Busy
<1>1. /\ t \in ReqID /\ t = Taken + 1 /\ Taken' = Taken + 1 /\ InBank' = InBank
      /\ AtBuffer' = AtBuffer /\ GoingBack' = GoingBack /\ Filled' = Filled
      /\ reqs[t] \in Request
  BY DirTakes
<1>2. UNCHANGED DirRest
  BY DEF Takes
<1>3. UNCHANGED DirKept
  BY <1>1, <1>2 DEF DirKept, DirRest, messages, Given
<1>4. Taken \in Nat /\ t \notin Busy
  <2>1. Taken \in Nat /\ Busy \in SUBSET (1 .. Taken)
    BY BusyIs, WorldTyped DEF WInv, WorldInv
  <2>2. Taken + 1 \notin 1 .. Taken
    BY <2>1
  <2> QED
    BY <1>1, <2>1, <2>2
<1>5. t =< Len(reqs)
  <2>1. dirBuf # <<>>
    BY DEF Takes
  <2>2. Taken = Len(reqs) - Len(topIn) - Len(dirStageBuffer) - Len(dirBuf)
    BY DEF Taken, TakenOf
  <2>3. /\ topIn \in Seq(ReqID) /\ Single(dirStageBuffer) /\ Single(dirBuf)
        /\ reqs \in Seq(Request)
    BY DEF WInv, WTypes, PortTypes, StageTypes
  <2>4. /\ Len(topIn) \in Nat /\ Len(dirStageBuffer) \in Nat /\ Len(dirBuf) \in Nat \ {0}
        /\ Len(reqs) \in Nat
    BY <2>1, <2>3, LenProperties, EmptySeq DEF Single
  <2> QED
    BY <1>1, <2>2, <2>4
<1> QED
  BY <1>1, <1>3, <1>4, <1>5, BusyIs, BusyNext DEF DirKept, All

\* The request joins the entry of its line, ...
LEMMA JoinDoes ==
  ASSUME WInv, NEW t, Takes(t), JoinEntry(t)
  PROVE  /\ AtBank' = AtBank /\ Busy' = Busy
         /\ UNCHANGED <<blocks, mshr, evictingList>>
         /\ \A u \in ReqID : u # t => trans'[u] = trans[u]
         /\ \E e \in mshr : /\ Line(e) = Line(t) /\ e \in ReqID
                            /\ SameData(entry, entry')
                            /\ entry[e].requests \in Seq(ReqID)
                            /\ entry'[e].requests = Append(entry[e].requests, t)
                            /\ \A u \in ReqID : u # e =>
                                 entry'[u].requests = entry[u].requests
<1>1. PICK e \in Query(Line(t)) :
        /\ entry' = [entry EXCEPT ![e].requests = Append(@, t)]
        /\ trans' = [trans EXCEPT ![t].entry = e]
        /\ UNCHANGED <<dirToBank, mshr, blocks, lru, evictingList>>
  BY DEF JoinEntry
<1>2. /\ mshr \in SUBSET ReqID /\ entry \in [ReqID -> EntryType]
      /\ trans \in [ReqID -> TransType]
  BY DEF WInv, WTypes, ArrayTypes
<1>3. e \in mshr /\ Line(e) = Line(t) /\ e \in ReqID
  BY <1>2 DEF Query
<1>4. t \in ReqID
  BY TakesDoes
<1> DEFINE q == Append(entry[e].requests, t)
<1>5. q \in Seq(ReqID) /\ entry[e].requests \in Seq(ReqID)
  <2>1. entry[e].requests \in Seq(ReqID)
    BY <1>2, <1>3 DEF EntryType
  <2> QED
    BY <1>4, <2>1, AppendProperties
<1>6. entry' = WithList(entry, e, q)
  BY <1>1, <1>2 DEF WithList
<1> HIDE DEF q
<1>7. /\ SameData(entry, entry') /\ entry'[e].requests = q
      /\ \A u \in ReqID : u # e => entry'[u].requests = entry[u].requests
  BY <1>2, <1>3, <1>5, <1>6, ListSet
<1>8. AtBank' = AtBank
  BY <1>1 DEF AtBank
<1>9. Busy' = Busy
  BY <1>8, TakesDoes
<1>10. \A u \in ReqID : u # t => trans'[u] = trans[u]
  BY <1>1, <1>2
<1> QED
  BY <1>1, <1>3, <1>5, <1>7, <1>8, <1>9, <1>10 DEF q

\* ... reads a block that is there, ...
LEMMA ReadDoes ==
  ASSUME WInv, NEW t, Takes(t), ReadFromBank(t)
  PROVE  /\ AtBank' = AtBank \cup {t} /\ Busy' = Busy \cup {t}
         /\ UNCHANGED <<entry, mshr, evictingList>>
         /\ \A u \in ReqID : u # t => trans'[u] = trans[u]
         /\ trans'[t].action = "bankReadHit" /\ ~Write(t) /\ Query(Line(t)) = {}
         /\ trans'[t].block \in Lookup(Line(t)) /\ trans'[t].block \in Slots
         /\ ~blocks[trans'[t].block].IsLocked
         /\ \A c \in Slots : Alike(blocks'[c], blocks[c]) /\ blocks'[c].IsDirty = blocks[c].IsDirty
<1>1. PICK b \in Lookup(Line(t)) :
        /\ ~blocks[b].IsLocked /\ ToBank(t, b)
        /\ blocks' = [blocks EXCEPT ![b].ReadCount = @ + 1]
        /\ trans' = [trans EXCEPT ![t].block = b, ![t].action = "bankReadHit"]
        /\ UNCHANGED <<mshr, entry, evictingList>>
        /\ ~Write(t) /\ Query(Line(t)) = {}
  BY DEF ReadFromBank, misses
<1>2. t \in ReqID /\ Line(t) \in Lines
  BY DirTakes
<1>3. blocks \in [Slots -> BlockType] /\ trans \in [ReqID -> TransType]
  BY DEF WInv, WTypes, ArrayTypes
<1>4. b \in Slots
  BY <1>1, <1>2, WritebackAssumption DEF Lookup
<1>5. AtBank' = AtBank \cup {t}
  BY <1>1, <1>4, ToBankDoes
<1>6. Busy' = Busy \cup {t}
  BY <1>5, TakesDoes
<1>7. /\ \A u \in ReqID : u # t => trans'[u] = trans[u]
      /\ trans'[t].action = "bankReadHit" /\ trans'[t].block = b
  <2> DEFINE x == [trans[t] EXCEPT !.block = b, !.action = "bankReadHit"]
  <2>1. trans[t] \in TransType
    BY <1>2, <1>3
  <2>2. trans' = [trans EXCEPT ![t] = x]
    BY <1>1, <1>2, <1>3
  <2>3. x.action = "bankReadHit" /\ x.block = b
    BY <2>1 DEF TransType
  <2> HIDE DEF x
  <2> QED
    BY <1>2, <1>3, <2>2, <2>3
<1>8. \A c \in Slots : Alike(blocks'[c], blocks[c]) /\ blocks'[c].IsDirty = blocks[c].IsDirty
  <2> SUFFICES ASSUME NEW c \in Slots
               PROVE  Alike(blocks'[c], blocks[c]) /\ blocks'[c].IsDirty = blocks[c].IsDirty
    OBVIOUS
  <2>1. blocks[c] \in BlockType
    BY <1>3
  <2>2. blocks'[c] = IF c = b THEN [blocks[c] EXCEPT !.ReadCount = @ + 1] ELSE blocks[c]
    BY <1>1, <1>3, <1>4
  <2> QED
    BY <2>1, <2>2 DEF BlockType, Alike
<1> QED
  BY <1>1, <1>4, <1>5, <1>6, <1>7, <1>8

\* ... or takes a block as its own.
ForLine(t, b) ==
  b \in Lookup(Line(t)) \/ (Lookup(Line(t)) = {} /\ b \in SetOf[Line(t)])

\* A transaction takes a block: the block is claimed, its old line leaves, and a miss
\* opens its MSHR entry.
LEMMA OwnDoes ==
  ASSUME WInv, NEW t, Takes(t), NEW b \in Slots, Owns(t, b)
  PROVE  /\ AtBank' = AtBank \cup {t} /\ Busy' = Busy \cup {t}
         /\ \A u \in ReqID : u # t => trans'[u] = trans[u] /\ entry'[u] = entry[u]
         /\ trans'[t].block = b
         /\ trans'[t].action \in {"bankWriteHit", "writeBufferFetch"} \cup Evicting
         /\ Claimable(b, reqs[t].line, blocks, evictingList)
         /\ Claimed(b, reqs[t].line, blocks, blocks')
         /\ Leaves(trans'[t], reqs[t].line, blocks[b], evictingList, evictingList')
         /\ mshr' = mshr \cup (IF trans'[t].action \in Fetching THEN {t} ELSE {})
<1>1. AtBank' = AtBank \cup {t}
  BY ToBankDoes DEF Owns
<1>2. Busy' = Busy \cup {t}
  BY <1>1, TakesDoes
<1> QED
  BY <1>1, <1>2 DEF Owns, Claims

\* A write, or a full write that finds nothing to evict.
LEMMA WriteDoes ==
  ASSUME WInv, NEW t, Takes(t), NEW b, WriteToBank(t, b), ForLine(t, b)
  PROVE  /\ b \in Slots /\ Owns(t, b) /\ trans'[t].action = "bankWriteHit"
         /\ UNCHANGED <<entry, mshr, evictingList>>
<1>1. b \in Slots /\ Owns(t, b)
  BY OwnToWrite DEF ForLine
<1>2. /\ trans' = [trans EXCEPT ![t].block = b, ![t].action = "bankWriteHit"]
      /\ UNCHANGED <<entry, mshr, evictingList>>
  BY DEF WriteToBank, misses
<1>3. t \in ReqID /\ trans \in [ReqID -> TransType]
  BY DirTakes DEF WInv, WTypes, ArrayTypes
<1>4. trans'[t].action = "bankWriteHit"
  <2> DEFINE x == [trans[t] EXCEPT !.block = b, !.action = "bankWriteHit"]
  <2>1. trans[t] \in TransType
    BY <1>3
  <2>2. trans' = [trans EXCEPT ![t] = x]
    BY <1>2, <1>3
  <2>3. x.action = "bankWriteHit"
    BY <2>1 DEF TransType
  <2> HIDE DEF x
  <2> QED
    BY <1>3, <2>2, <2>3
<1> QED
  BY <1>1, <1>2, <1>4

\* A miss that evicts what its block holds.
LEMMA EvictDoes ==
  ASSUME WInv, NEW t, Takes(t), NEW b, Evict(t, b),
         Lookup(Line(t)) = {}, b \in SetOf[Line(t)]
  PROVE  /\ b \in Slots /\ Owns(t, b) /\ NeedEviction(b)
         /\ trans'[t].evictingAddr = blocks[b].Tag /\ ~blocks'[b].IsDirty
         /\ \/ /\ FullLine(t) /\ trans'[t].action = "bankEvictAndWrite" /\ UNCHANGED entry
            \/ /\ ~FullLine(t) /\ trans'[t].action = "bankEvictAndFetch"
               /\ entry'[t].requests = <<t>>
<1> DEFINE a == IF FullLine(t) THEN "bankEvictAndWrite" ELSE "bankEvictAndFetch"
           x == [action |-> a, block |-> b, evictingAddr |-> blocks[b].Tag, entry |-> t]
<1>1. b \in Slots /\ Owns(t, b)
  BY OwnToEvict
<1>2. /\ NeedEviction(b)
      /\ IF FullLine(t) THEN UNCHANGED <<mshr, entry>> ELSE AddEntry(t, b)
      /\ trans' = [trans EXCEPT ![t] = x]
      /\ blocks' = [blocks EXCEPT ![b] = [@ EXCEPT !.Tag = Line(t), !.IsLocked = TRUE,
                                                   !.IsDirty = FALSE]]
  BY DEF Evict, misses
<1>3. t \in ReqID /\ trans \in [ReqID -> TransType] /\ blocks \in [Slots -> BlockType] /\ ArrayTypes
  BY DirTakes DEF WInv, WTypes, ArrayTypes
<1>4. a = (IF FullLine(t) THEN "bankEvictAndWrite" ELSE "bankEvictAndFetch")
  OBVIOUS
<1>5. x.action = a /\ x.evictingAddr = blocks[b].Tag
  OBVIOUS
<1> HIDE DEF x, a
<1>6. trans'[t] = x
  BY <1>2, <1>3
<1>7. ~blocks'[b].IsDirty
  <2> DEFINE y == [blocks[b] EXCEPT !.Tag = Line(t), !.IsLocked = TRUE, !.IsDirty = FALSE]
  <2>1. blocks[b] \in BlockType
    BY <1>1, <1>3
  <2>2. ~y.IsDirty
    BY <2>1 DEF BlockType
  <2>3. blocks'[b] = y
    BY <1>1, <1>2, <1>3
  <2> HIDE DEF y
  <2> QED
    BY <2>2, <2>3
<1>8. ~FullLine(t) => entry'[t].requests = <<t>>
  <2> SUFFICES ASSUME ~FullLine(t) PROVE entry'[t].requests = <<t>>
    OBVIOUS
  <2>1. AddEntry(t, b)
    BY <1>2
  <2>2. b \in 0 .. NumBlocks
    BY <1>1, WritebackAssumption DEF Slots
  <2> QED
    BY <1>3, <2>1, <2>2, EntryAdded
<1>9. FullLine(t) => UNCHANGED entry
  BY <1>2
<1> QED
  BY <1>1, <1>2, <1>4, <1>5, <1>6, <1>7, <1>8, <1>9

\* A miss that finds nothing to evict.
LEMMA FetchDoes ==
  ASSUME WInv, NEW t, Takes(t), NEW b, Fetch(t, b),
         Lookup(Line(t)) = {}, b \in SetOf[Line(t)]
  PROVE  /\ b \in Slots /\ Owns(t, b) /\ ~NeedEviction(b)
         /\ trans'[t].action = "writeBufferFetch" /\ entry'[t].requests = <<t>>
         /\ UNCHANGED evictingList
<1>1. b \in Slots /\ Owns(t, b)
  BY OwnToFetch
<1>2. /\ ~NeedEviction(b) /\ AddEntry(t, b) /\ UNCHANGED evictingList
      /\ trans' = [trans EXCEPT ![t].block = b, ![t].entry = t,
                                ![t].action = "writeBufferFetch"]
  BY DEF Fetch
<1>3. t \in ReqID /\ trans \in [ReqID -> TransType] /\ ArrayTypes
  BY DirTakes DEF WInv, WTypes, ArrayTypes
<1>4. trans'[t].action = "writeBufferFetch"
  <2> DEFINE x == [trans[t] EXCEPT !.block = b, !.entry = t, !.action = "writeBufferFetch"]
  <2>1. trans[t] \in TransType
    BY <1>3
  <2>2. trans' = [trans EXCEPT ![t] = x]
    BY <1>2, <1>3
  <2>3. x.action = "writeBufferFetch"
    BY <2>1 DEF TransType
  <2> HIDE DEF x
  <2> QED
    BY <1>3, <2>2, <2>3
<1>5. b \in 0 .. NumBlocks
  BY <1>1, WritebackAssumption DEF Slots
<1>6. entry'[t].requests = <<t>>
  BY <1>2, <1>3, <1>5, EntryAdded
<1> QED
  BY <1>1, <1>2, <1>4, <1>6

\* A block that is given another line has nothing to evict.
Spares(t, b) == Lookup(Line(t)) = {} => ~NeedEviction(b)

\* What the directory finds for a request.
Finds(t) ==
  \/ JoinEntry(t)
  \/ ReadFromBank(t)
  \/ /\ Query(Line(t)) = {} /\ Write(t)
     /\ \E b \in Slots : ForLine(t, b) /\ Spares(t, b) /\ WriteToBank(t, b)
  \/ /\ Query(Line(t)) = {} /\ Lookup(Line(t)) = {}
     /\ \E b \in SetOf[Line(t)] : Evict(t, b) \/ (~FullLine(t) /\ Fetch(t, b))

\* A step of the directory finishes with the next request or does nothing.
LEMMA DirectoryDoes ==
  ASSUME WInv, ProcessTransaction
  PROVE  \/ UNCHANGED <<spots, contents, messages, reqs, Given>>
         \/ \E t \in ReqID : Takes(t) /\ Finds(t)
<1> DEFINE t == Head(dirBuf)
           v == FindVictim(Line(t))
<1>1. UNCHANGED DirRest
  BY DEF ProcessTransaction, top, low, bank, buffer, respond, outside, DirRest
<1>2. ArrayTypes
  BY DEF WInv, WTypes
<1>3. CASE UNCHANGED <<dirToBank, dirBuf, lru, misses, trans, blocks, evictingList>>
  <2>1. UNCHANGED <<bank, places, upper, contents, messages, reqs, Given>>
    BY <1>1, <1>3 DEF DirRest, misses, bank, places, upper, contents, messages, Given
  <2> QED
    BY <2>1, SpotsKept, WaitKept DEF WInv
<1>4. CASE /\ dirBuf # <<>> /\ Line(t) \notin evictingList
           /\ DirDone(t) /\ Count(t)
  <2>1. dirBuf' = Tail(dirBuf)
    BY <1>4 DEF DirDone, JoinEntry, ReadFromBank, WriteToBank, Evict, Fetch, ToBank
  <2>2. Takes(t)
    BY <1>1, <1>4, <2>1 DEF Takes
  <2> HIDE DEF t
  <2>3. Line(t) \in Lines /\ t \in ReqID
    BY <2>2, DirTakes
  <2>4. v \in SetOf[Line(t)] /\ SetOf[Line(t)] \in SUBSET Slots
    BY <1>2, <2>3, VictimInSet, WritebackAssumption DEF ArrayTypes
  <2>5. Lookup(Line(t)) \in SUBSET Slots
    BY <2>4 DEF Lookup
  <2>6. DirDone(t)
    BY <1>4
  <2>7. FullLine(t) => Write(t)
    BY DEF FullLine
  <2> HIDE DEF v
  <2>8. Finds(t)
    <3>1. \/ JoinEntry(t) \/ ReadFromBank(t)
          \/ /\ Query(Line(t)) = {} /\ Write(t)
             /\ \E b \in Lookup(Line(t)) : WriteToBank(t, b)
          \/ Query(Line(t)) = {} /\ Lookup(Line(t)) = {} /\ Evict(t, v)
          \/ Query(Line(t)) = {} /\ Lookup(Line(t)) = {} /\ ~FullLine(t) /\ Fetch(t, v)
          \/ /\ Query(Line(t)) = {} /\ Lookup(Line(t)) = {} /\ FullLine(t)
             /\ ~NeedEviction(v) /\ WriteToBank(t, v)
      BY <2>6 DEF DirDone, v
    <3>2. CASE JoinEntry(t) \/ ReadFromBank(t)
      BY <3>2 DEF Finds
    <3>3. CASE /\ Query(Line(t)) = {} /\ Write(t)
               /\ \E b \in Lookup(Line(t)) : WriteToBank(t, b)
      BY <2>5, <3>3 DEF Finds, ForLine, Spares
    <3>4. CASE /\ Query(Line(t)) = {} /\ Lookup(Line(t)) = {} /\ FullLine(t)
               /\ ~NeedEviction(v) /\ WriteToBank(t, v)
      BY <2>4, <2>7, <3>4 DEF Finds, ForLine, Spares
    <3>5. CASE \/ Query(Line(t)) = {} /\ Lookup(Line(t)) = {} /\ Evict(t, v)
               \/ Query(Line(t)) = {} /\ Lookup(Line(t)) = {} /\ ~FullLine(t) /\ Fetch(t, v)
      BY <2>4, <3>5 DEF Finds
    <3> QED
      BY <3>1, <3>2, <3>3, <3>4, <3>5
  <2> QED
    BY <2>2, <2>3, <2>8
<1> QED
  BY <1>3, <1>4 DEF ProcessTransaction

\* What the write buffer does for a transaction, and for an answer from below.
NewGoes(t) == FetchLocally(t) \/ FetchFromBottom(t) \/ EvictAndWrite(t) \/ EvictAndFetch(t)

\* A step of the write buffer's intake finishes with its head or does nothing.
LEMMA NewTransactionDoes ==
  ASSUME WInv, ProcessNewTransaction
  PROVE  \/ UNCHANGED <<spots, contents, messages, reqs, Given>>
         \/ /\ UNCHANGED NewRest /\ writeBufferBuffer # <<>>
            /\ NewGoes(Head(writeBufferBuffer))
<1>1. UNCHANGED NewRest
  BY DEF ProcessNewTransaction, top, dir, bank, respond, outside, NewRest
<1>2. CASE UNCHANGED <<bottomOut, inflightFetch, misses, blocks, trans, writeBufferToBank,
                       evictingData, pendingEvictions, writeBufferBuffer>>
  BY <1>1, <1>2, NewWaitsDoes
<1> QED
  BY <1>1, <1>2 DEF ProcessNewTransaction, NewGoes

\* What comes back from below is the answer to a write or to a read.
LEMMA ReturnDoes ==
  ASSUME WInv, ProcessReturnRsp
  PROVE  \/ UNCHANGED <<spots, contents, messages, reqs, Given>>
         \/ UNCHANGED ReturnRest /\ (ProcessWriteDoneRsp \/ ProcessDataReadyRsp)
<1>1. UNCHANGED ReturnRest
  BY DEF ProcessReturnRsp, top, dir, bank, respond, outside, ReturnRest
<1> QED
  BY <1>1, NoReturnDoes DEF ProcessReturnRsp

(***************************************************************************)
(* The ledger, step by step                                                *)
(***************************************************************************)
DirectNow == DirectOf(Busy, trans)

\* The transactions at work are requests the directory has processed.
LEMMA BusyTyped == WInv => Busy \in SUBSET ReqID /\ Busy \in SUBSET (1 .. Taken) /\ Taken \in Nat
BY BusyIs, WorldTyped DEF WInv, WorldInv

\* A step that answers, lists and sends nothing.
LEMMA LedgerStays ==
  ASSUME LedgerInv, DirectNow' = DirectNow, UNCHANGED <<Taken, Given>>,
         \A u \in ReqID : entry'[u].requests = entry[u].requests
  PROVE  LedgerInv'
<1>1. ListsOf(entry') = ListsOf(entry) /\ ListsRise(entry')
  BY DEF LedgerInv, ListsOf, ListsRise
<1> QED
  BY <1>1 DEF LedgerInv, DirectNow

\* A step that moves no transaction keeps the ledger.
LEMMA LedgerQuiet ==
  ASSUME LedgerInv, UNCHANGED <<spots, contents, Given>>
  PROVE  LedgerInv'
<1>1. Busy' = Busy /\ UNCHANGED <<trans, entry, Taken, Given>>
  BY BusyKept DEF spots, contents
<1> QED
  BY <1>1, LedgerStays DEF DirectNow

\* The transactions answered by the bank stay those when one of them, or one of the
\* others, goes on.
LEMMA DirectGoesOn ==
  ASSUME WInv, Busy' = Busy, NEW t, OnlyAction(t, trans, trans'),
         trans[t].action \in DirectActions <=> trans'[t].action \in DirectActions
  PROVE  DirectNow' = DirectNow
<1>1. Busy \in SUBSET ReqID
  BY BusyTyped
<1>2. \A u \in Busy : trans'[u].action \in DirectActions <=> trans[u].action \in DirectActions
  BY <1>1 DEF OnlyAction
<1>3. DirectOf(Busy, trans') = DirectOf(Busy, trans)
  BY <1>2 DEF DirectOf
<1> QED
  BY <1>3 DEF DirectNow

\* One that leaves the bank, ...
LEMMA DirectLeft ==
  ASSUME NEW t, Busy' = Busy \ {t}, trans' = trans
  PROVE  DirectNow' = DirectNow \ {t}
BY DEF DirectNow, DirectOf

\* ... and one that comes.
LEMMA DirectComes ==
  ASSUME WInv, NEW t, t \notin Busy, Busy' = Busy \cup {t},
         \A u \in ReqID : u # t => trans'[u] = trans[u]
  PROVE  DirectNow' = DirectNow \cup (IF trans'[t].action \in DirectActions THEN {t} ELSE {})
<1>1. Busy \in SUBSET ReqID
  BY BusyTyped
<1>2. \A u \in Busy : trans'[u] = trans[u]
  BY <1>1
<1>3. DirectOf(Busy \cup {t}, trans') =
        DirectOf(Busy, trans) \cup (IF trans'[t].action \in DirectActions THEN {t} ELSE {})
  BY <1>2 DEF DirectOf
<1> QED
  BY <1>3 DEF DirectNow

\* A line that arrives keeps the ledger: nobody is answered yet.
LEMMA FilledQuiet ==
  ASSUME WInv, LedgerInv, Busy' = Busy, NEW t, NEW v, NEW s, Fills(t, v, s),
         trans[t].action \in Fetching, UNCHANGED <<Taken, Given>>
  PROVE  LedgerInv'
<1>1. OnlyAction(t, trans, trans') /\ trans'[t].action = "bankWriteFetched"
  BY DEF Fills
<1>2. trans[t].action \notin DirectActions /\ trans'[t].action \notin DirectActions
  BY <1>1 DEF Fetching, DirectActions
<1>3. DirectNow' = DirectNow
  BY <1>1, <1>2, DirectGoesOn
<1>4. \A u \in ReqID : entry'[u].requests = entry[u].requests
  BY DEF Fills, SameEntries
<1> QED
  BY <1>3, <1>4, LedgerStays

\* The mshr stage takes an answer off a list.
LEMMA LedgerMshr ==
  ASSUME WInv, LedgerInv, MshrStage PROVE LedgerInv'
<1>1. /\ UNCHANGED <<Taken, Busy, trans>>
      /\ UNCHANGED <<entry, Given>> \/ \E e \in ReqID : AnswersOf(e)
  BY MshrDoes
<1>2. DirectNow' = DirectNow
  BY <1>1 DEF DirectNow
<1>3. CASE UNCHANGED <<entry, Given>>
  BY <1>1, <1>2, <1>3, LedgerStays
<1>4. CASE \E e \in ReqID : AnswersOf(e)
  <2>1. PICK e \in ReqID : AnswersOf(e)
    BY <1>4
  <2> DEFINE h == Head(entry[e].requests)
             x == [rspTo |-> h, ver |-> EntryData(e)]
             s == entry[e].requests
  <2>2. /\ s \in Seq(ReqID) /\ s # <<>> /\ entry'[e].requests = Tail(s)
        /\ \A u \in ReqID : u # e => entry'[u].requests = entry[u].requests
        /\ Given' = Given \cup {x}
    BY <2>1 DEF AnswersOf
  <2>3. Increasing(s)
    BY DEF LedgerInv, ListsRise
  <2>4. /\ Increasing(Tail(s)) /\ h \in ToSet(s) /\ ToSet(Tail(s)) = ToSet(s) \ {h}
    BY <2>2, <2>3, IncreasingTaken
  <2>5. x.rspTo = h
    OBVIOUS
  <2> DEFINE L == ListsOf(entry)
             L2 == ListsOf(entry')
  <2>6. /\ L[e] = ToSet(s) /\ L2[e] = ToSet(Tail(s))
        /\ \A f \in ReqID : f # e => L2[f] = L[f]
    BY <2>2 DEF ListsOf
  <2>7. Ledger(DirectNow, Taken, L, Given)
    BY DEF LedgerInv, DirectNow
  <2>8. ListsRise(entry')
    BY <2>2, <2>4 DEF LedgerInv, ListsRise
  <2> HIDE DEF L, L2, x, h, s
  <2>9. Ledger(DirectNow, Taken, L2, Given \cup {x})
    BY <2>4, <2>5, <2>6, <2>7, LedgerAnswered
  <2>10. Ledger(DirectNow', Taken', L2, Given')
    BY <1>1, <1>2, <2>2, <2>9
  <2> QED
    BY <2>8, <2>10 DEF LedgerInv, DirectNow, L2
<1> QED
  BY <1>1, <1>3, <1>4

\* The bank answers a transaction that it gives.
LEMMA LedgerAnswers ==
  ASSUME LedgerInv, NEW t \in Busy, trans[t].action \in DirectActions,
         Busy' = Busy \ {t}, NEW v, Given' = Given \cup {[rspTo |-> t, ver |-> v]},
         UNCHANGED <<trans, entry, Taken>>
  PROVE  LedgerInv'
<1> DEFINE x == [rspTo |-> t, ver |-> v]
<1>1. DirectNow' = DirectNow \ {t}
  BY DirectLeft
<1>2. t \in DirectNow /\ x.rspTo = t
  BY DEF DirectNow, DirectOf
<1>3. Ledger(DirectNow, Taken, ListsOf(entry), Given)
  BY DEF LedgerInv, DirectNow
<1> HIDE DEF x
<1>4. Ledger(DirectNow \ {t}, Taken, ListsOf(entry), Given \cup {x})
  BY <1>2, <1>3, LedgerGiven
<1>5. Ledger(DirectNow', Taken', ListsOf(entry'), Given')
  BY <1>1, <1>4 DEF x
<1> QED
  BY <1>5 DEF LedgerInv, DirectNow

\* The bank's last step keeps the ledger: an answer leaves with its transaction.
LEMMA LedgerFinalize ==
  ASSUME WInv, LedgerInv, FinalizeTrans PROVE LedgerInv'
<1>1. CASE UNCHANGED <<spots, contents, messages, reqs, Given>>
  BY <1>1, LedgerQuiet
<1>2. CASE \E k \in 1 .. Len(bankBuf) : Gives(k) /\ Finishes(bankBuf[k])
  <2>1. PICK k \in 1 .. Len(bankBuf) : Gives(k) /\ Finishes(bankBuf[k])
    BY <1>2
  <2> DEFINE t == bankBuf[k]
             b == trans[t].block
  <2>2. t \in Busy /\ t \in ReqID /\ UNCHANGED <<Taken, entry>>
    BY <2>1, GiveDoes
  <2>3. CASE FinalizeReadHit(t)
    <3>1. /\ trans[t].action = "bankReadHit" /\ Busy' = Busy \ {t} /\ trans' = trans
          /\ Given' = Given \cup {[rspTo |-> t, ver |-> storage[b]]}
      BY <2>1, <2>3, ReadHitDoes
    <3>2. trans[t].action \in DirectActions
      BY <3>1 DEF DirectActions
    <3> HIDE DEF t, b
    <3> QED
      BY <2>2, <3>1, <3>2, LedgerAnswers
  <2>4. CASE FinalizeWriteHit(t)
    <3>1. /\ trans[t].action = "bankWriteHit" /\ Busy' = Busy \ {t} /\ trans' = trans
          /\ Given' = Given \cup {[rspTo |-> t, ver |-> t]}
      BY <2>1, <2>4, WriteHitDoes
    <3>2. trans[t].action \in DirectActions
      BY <3>1 DEF DirectActions
    <3> HIDE DEF t, b
    <3> QED
      BY <2>2, <3>1, <3>2, LedgerAnswers
  <2>5. CASE FinalizeBankWriteFetched(t)
    <3>1. /\ trans[t].action = "bankWriteFetched" /\ Busy' = Busy \ {t} /\ trans' = trans
          /\ Given' = Given
      BY <2>1, <2>5, WriteFetchedDoes
    <3>2. t \notin DirectNow
      BY <3>1 DEF DirectNow, DirectOf, DirectActions
    <3>3. DirectNow' = DirectNow
      BY <3>1, <3>2, DirectLeft
    <3> QED
      BY <2>2, <3>1, <3>3, LedgerStays
  <2>6. CASE FinalizeBankEviction(t)
    <3>1. /\ trans[t].action \in Evicting /\ Busy' = Busy /\ Given' = Given
          /\ OnlyAction(t, trans, trans')
          /\ trans'[t].action = (IF trans[t].action = "bankEvictAndFetch"
                                   THEN "writeBufferEvictAndFetch"
                                   ELSE "writeBufferEvictAndWrite")
      BY <2>1, <2>6, EvictionDoes
    <3>2. trans[t].action \in DirectActions <=> trans'[t].action \in DirectActions
      BY <3>1 DEF Evicting, DirectActions
    <3>3. DirectNow' = DirectNow
      BY <3>1, <3>2, DirectGoesOn
    <3> QED
      BY <2>2, <3>1, <3>3, LedgerStays
  <2> QED
    BY <2>1, <2>3, <2>4, <2>5, <2>6 DEF Finishes
<1> QED
  BY <1>1, <1>2, FinalizeDoes

\* A transaction moves between the bank and the write buffer.
LEMMA LedgerPull ==
  ASSUME WInv, LedgerInv, PullFromBuf PROVE LedgerInv'
<1>1. UNCHANGED <<trans, entry, Given, Taken, Busy>>
  BY PullDoes DEF contents
<1> QED
  BY <1>1, LedgerStays DEF DirectNow

\* What comes back from below keeps the ledger.
LEMMA LedgerReturn ==
  ASSUME WInv, LedgerInv, ProcessReturnRsp PROVE LedgerInv'
<1>1. CASE UNCHANGED <<spots, contents, messages, reqs, Given>>
  BY <1>1, LedgerQuiet
<1>2. CASE UNCHANGED ReturnRest /\ ProcessWriteDoneRsp
  <2>1. UNCHANGED <<spots, contents, Given>>
    BY <1>2, WriteDoneDoes
  <2> QED
    BY <2>1, LedgerQuiet
<1>3. CASE UNCHANGED ReturnRest /\ ProcessDataReadyRsp
  <2> DEFINE m == Head(bottomIn)
             t == m.of
  <2>1. /\ trans[t].action = "writeBufferFetch" /\ Fills(t, m.ver, 0) /\ Busy' = Busy
        /\ UNCHANGED <<Taken, Given>>
    BY <1>3, DataReadyDoes
  <2>2. trans[t].action \in Fetching
    BY <2>1 DEF Fetching
  <2> HIDE DEF m, t
  <2> QED
    BY <2>1, <2>2, FilledQuiet
<1> QED
  BY <1>1, <1>2, <1>3, ReturnDoes

\* The write buffer's intake keeps the ledger.
LEMMA LedgerNew ==
  ASSUME WInv, LedgerInv, ProcessNewTransaction PROVE LedgerInv'
<1>1. CASE UNCHANGED <<spots, contents, messages, reqs, Given>>
  BY <1>1, LedgerQuiet
<1>2. CASE /\ UNCHANGED NewRest /\ writeBufferBuffer # <<>>
           /\ NewGoes(Head(writeBufferBuffer))
  <2> DEFINE t == Head(writeBufferBuffer)
  <2>1. CASE FetchLocally(t)
    <3> DEFINE u == Head(LocalEvictions(Line(t)))
               v == evictingData[u]
    <3>1. /\ trans[t].action = "writeBufferFetch" /\ Fills(t, v, u) /\ Busy' = Busy
          /\ UNCHANGED NewKept
      BY <1>2, <2>1, FetchLocallyDoes
    <3>2. trans[t].action \in Fetching /\ UNCHANGED <<Taken, Given>>
      BY <3>1 DEF Fetching, NewKept
    <3> HIDE DEF t, u, v
    <3> QED
      BY <3>1, <3>2, FilledQuiet
  <2>2. CASE FetchFromBottom(t)
    <3>1. Busy' = Busy /\ UNCHANGED NewKept /\ UNCHANGED <<trans, entry>>
      BY <1>2, <2>2, FetchFromBottomDoes
    <3> QED
      BY <3>1, LedgerStays DEF DirectNow, NewKept
  <2>3. CASE EvictAndWrite(t)
    <3>1. /\ trans[t].action = "writeBufferEvictAndWrite" /\ OnlyAction(t, trans, trans')
          /\ trans'[t].action = "bankWriteHit" /\ Busy' = Busy /\ UNCHANGED NewKept
          /\ UNCHANGED entry
      BY <1>2, <2>3, EvictAndWriteDoes
    <3>2. trans[t].action \in DirectActions <=> trans'[t].action \in DirectActions
      BY <3>1 DEF DirectActions
    <3>3. DirectNow' = DirectNow
      BY <3>1, <3>2, DirectGoesOn
    <3> QED
      BY <3>1, <3>3, LedgerStays DEF NewKept
  <2>4. CASE EvictAndFetch(t)
    <3>1. /\ trans[t].action = "writeBufferEvictAndFetch" /\ OnlyAction(t, trans, trans')
          /\ trans'[t].action = "writeBufferFetch" /\ Busy' = Busy /\ UNCHANGED NewKept
          /\ UNCHANGED entry
      BY <1>2, <2>4, EvictAndFetchDoes
    <3>2. trans[t].action \in DirectActions <=> trans'[t].action \in DirectActions
      BY <3>1 DEF DirectActions
    <3>3. DirectNow' = DirectNow
      BY <3>1, <3>2, DirectGoesOn
    <3> QED
      BY <3>1, <3>3, LedgerStays DEF NewKept
  <2> QED
    BY <1>2, <2>1, <2>2, <2>3, <2>4 DEF NewGoes
<1> QED
  BY <1>1, <1>2, NewTransactionDoes

\* A request that the bank will answer.
LEMMA LedgerToBank ==
  ASSUME WInv, LedgerInv, NEW t, Takes(t), Busy' = Busy \cup {t},
         \A u \in ReqID : u # t => trans'[u] = trans[u],
         trans'[t].action \in DirectActions, UNCHANGED entry
  PROVE  LedgerInv'
<1>1. /\ t = Taken + 1 /\ Taken' = t /\ Taken \in Nat /\ t \notin Busy
      /\ UNCHANGED DirKept
  BY TakesDoes
<1>2. DirectNow' = DirectNow \cup {t}
  BY <1>1, DirectComes
<1>3. Ledger(DirectNow, Taken, ListsOf(entry), Given)
  BY DEF LedgerInv, DirectNow
<1>4. Ledger(DirectNow \cup {Taken + 1}, Taken + 1, ListsOf(entry), Given)
  BY <1>1, <1>3, LedgerSent
<1>5. Ledger(DirectNow', Taken', ListsOf(entry'), Given')
  BY <1>1, <1>2, <1>4 DEF DirKept
<1> QED
  BY <1>5 DEF LedgerInv, DirectNow

\* A request that is put on the list of entry e.
LEMMA LedgerToEntry ==
  ASSUME WInv, LedgerInv, NEW t, Takes(t), DirectNow' = DirectNow,
         NEW e \in ReqID, e =< t,
         ToSet(entry'[e].requests) = ToSet(entry[e].requests) \cup {t},
         Increasing(entry'[e].requests),
         \A u \in ReqID : u # e => entry'[u].requests = entry[u].requests
  PROVE  LedgerInv'
<1>1. t = Taken + 1 /\ Taken' = t /\ Taken \in Nat /\ UNCHANGED DirKept
  BY TakesDoes
<1> DEFINE L == ListsOf(entry)
           L2 == ListsOf(entry')
<1>2. Ledger(DirectNow, Taken, L, Given)
  BY DEF LedgerInv, DirectNow
<1>3. /\ L2[e] = L[e] \cup {Taken + 1}
      /\ \A f \in ReqID : f # e => L2[f] = L[f]
  BY <1>1 DEF ListsOf
<1>4. ListsRise(entry')
  BY DEF LedgerInv, ListsRise
<1> HIDE DEF L, L2
<1>5. Ledger(DirectNow, Taken + 1, L2, Given)
  BY <1>1, <1>2, <1>3, LedgerListed
<1>6. Ledger(DirectNow', Taken', L2, Given')
  BY <1>1, <1>5 DEF DirKept
<1> QED
  BY <1>4, <1>6 DEF LedgerInv, DirectNow, L2

\* A miss puts the request on the list of its own entry.
LEMMA LedgerMiss ==
  ASSUME WInv, LedgerInv, NEW t, Takes(t), Busy' = Busy \cup {t},
         \A u \in ReqID : u # t => trans'[u] = trans[u] /\ entry'[u] = entry[u],
         trans'[t].action \notin DirectActions, entry'[t].requests = <<t>>
  PROVE  LedgerInv'
<1>1. t \in ReqID /\ t = Taken + 1 /\ Taken \in Nat /\ t \notin Busy
  BY TakesDoes
<1>2. DirectNow' = DirectNow
  BY <1>1, DirectComes
<1>3. ToSet(entry[t].requests) = {}
  <2>1. t > Taken
    BY <1>1
  <2>2. ListsOf(entry)[t] = {}
    BY <1>1, <2>1 DEF LedgerInv, Ledger
  <2> QED
    BY <1>1, <2>2 DEF ListsOf
<1>4. ToSet(<<t>>) = {t} /\ Increasing(<<t>>)
  <2>1. ToSet(<<t>>) = {t}
    BY DEF ToSet
  <2>2. Increasing(<<t>>)
    BY DEF Increasing
  <2> QED
    BY <2>1, <2>2
<1>5. /\ ToSet(entry'[t].requests) = ToSet(entry[t].requests) \cup {t}
      /\ Increasing(entry'[t].requests) /\ t =< t
  BY <1>1, <1>3, <1>4
<1>6. \A u \in ReqID : u # t => entry'[u].requests = entry[u].requests
  OBVIOUS
<1> QED
  BY <1>1, <1>2, <1>5, <1>6, LedgerToEntry

\* The directory keeps the ledger: the next request goes to the bank or joins a list.
LEMMA LedgerDirectory ==
  ASSUME WInv, LedgerInv, ProcessTransaction PROVE LedgerInv'
<1>1. CASE UNCHANGED <<spots, contents, messages, reqs, Given>>
  BY <1>1, LedgerQuiet
<1>2. CASE \E t \in ReqID : Takes(t) /\ Finds(t)
  <2>1. PICK t \in ReqID : Takes(t) /\ Finds(t)
    BY <1>2
  <2>2. CASE JoinEntry(t)
    <3>1. /\ Busy' = Busy /\ \A u \in ReqID : u # t => trans'[u] = trans[u]
      BY <2>1, <2>2, JoinDoes
    <3>2. PICK e \in mshr :
            /\ e \in ReqID /\ entry[e].requests \in Seq(ReqID)
            /\ entry'[e].requests = Append(entry[e].requests, t)
            /\ \A u \in ReqID : u # e => entry'[u].requests = entry[u].requests
      BY <2>1, <2>2, JoinDoes
    <3>3. t = Taken + 1 /\ Taken \in Nat /\ t \notin Busy
      BY <2>1, TakesDoes
    <3>4. DirectNow' = DirectNow
      <4>1. \A u \in Busy : trans'[u] = trans[u]
        BY <3>1, <3>3, BusyTyped
      <4> QED
        BY <3>1, <4>1 DEF DirectNow, DirectOf
    <3>5. e =< t
      <4>1. e \in Busy
        BY <3>2, BusyIs DEF WInv, WorldInv, World, Story, EntriesOpen
      <4>2. e \in 1 .. Taken
        BY <4>1, BusyTyped
      <4> QED
        BY <3>3, <4>2
    <3> DEFINE s == entry[e].requests
    <3>6. Increasing(s) /\ \A u \in ToSet(s) : u < t
      <4>1. Increasing(s)
        BY <3>2 DEF LedgerInv, ListsRise
      <4>2. ListsOf(entry)[e] \in SUBSET (1 .. Taken)
        BY <3>2 DEF LedgerInv, Ledger
      <4>3. ToSet(s) \in SUBSET (1 .. Taken)
        BY <3>2, <4>2 DEF ListsOf
      <4> HIDE DEF s
      <4>4. \A u \in 1 .. Taken : u < t
        BY <3>3
      <4> QED
        BY <4>1, <4>3, <4>4
    <3> HIDE DEF s
    <3>7. Increasing(Append(s, t)) /\ ToSet(Append(s, t)) = ToSet(s) \cup {t}
      <4>1. s \in Seq(ReqID)
        BY <3>2 DEF s
      <4> QED
        BY <2>1, <3>6, <4>1, IncreasingAppended
    <3> QED
      BY <2>1, <3>2, <3>4, <3>5, <3>7, LedgerToEntry DEF s
  <2>3. CASE ReadFromBank(t)
    <3>1. /\ Busy' = Busy \cup {t} /\ \A u \in ReqID : u # t => trans'[u] = trans[u]
          /\ trans'[t].action = "bankReadHit" /\ UNCHANGED entry
      BY <2>1, <2>3, ReadDoes
    <3>2. trans'[t].action \in DirectActions
      BY <3>1 DEF DirectActions
    <3> QED
      BY <2>1, <3>1, <3>2, LedgerToBank
  <2>4. CASE \E b \in Slots : ForLine(t, b) /\ WriteToBank(t, b)
    <3>1. PICK b \in Slots : ForLine(t, b) /\ WriteToBank(t, b)
      BY <2>4
    <3>2. Owns(t, b) /\ trans'[t].action = "bankWriteHit" /\ UNCHANGED entry
      BY <2>1, <3>1, WriteDoes
    <3>3. Busy' = Busy \cup {t} /\ \A u \in ReqID : u # t => trans'[u] = trans[u]
      BY <2>1, <3>2, OwnDoes
    <3>4. trans'[t].action \in DirectActions
      BY <3>2 DEF DirectActions
    <3> QED
      BY <2>1, <3>2, <3>3, <3>4, LedgerToBank
  <2>5. CASE Lookup(Line(t)) = {} /\ \E b \in SetOf[Line(t)] : Evict(t, b)
    <3>1. PICK b \in SetOf[Line(t)] : Evict(t, b)
      BY <2>5
    <3>2. /\ b \in Slots /\ Owns(t, b)
          /\ \/ trans'[t].action = "bankEvictAndWrite" /\ UNCHANGED entry
             \/ trans'[t].action = "bankEvictAndFetch" /\ entry'[t].requests = <<t>>
      BY <2>1, <2>5, <3>1, EvictDoes
    <3>3. /\ Busy' = Busy \cup {t}
          /\ \A u \in ReqID : u # t => trans'[u] = trans[u] /\ entry'[u] = entry[u]
      BY <2>1, <3>2, OwnDoes
    <3>4. CASE trans'[t].action = "bankEvictAndWrite" /\ UNCHANGED entry
      <4>1. trans'[t].action \in DirectActions
        BY <3>4 DEF DirectActions
      <4> QED
        BY <2>1, <3>3, <3>4, <4>1, LedgerToBank
    <3>5. CASE trans'[t].action = "bankEvictAndFetch" /\ entry'[t].requests = <<t>>
      <4>1. trans'[t].action \notin DirectActions
        BY <3>5 DEF DirectActions
      <4> QED
        BY <2>1, <3>3, <3>5, <4>1, LedgerMiss
    <3> QED
      BY <3>2, <3>4, <3>5
  <2>6. CASE Lookup(Line(t)) = {} /\ \E b \in SetOf[Line(t)] : Fetch(t, b)
    <3>1. PICK b \in SetOf[Line(t)] : Fetch(t, b)
      BY <2>6
    <3>2. /\ b \in Slots /\ Owns(t, b)
          /\ trans'[t].action = "writeBufferFetch" /\ entry'[t].requests = <<t>>
      BY <2>1, <2>6, <3>1, FetchDoes
    <3>3. /\ Busy' = Busy \cup {t}
          /\ \A u \in ReqID : u # t => trans'[u] = trans[u] /\ entry'[u] = entry[u]
      BY <2>1, <3>2, OwnDoes
    <3>4. trans'[t].action \notin DirectActions
      BY <3>2 DEF DirectActions
    <3> QED
      BY <2>1, <3>2, <3>3, <3>4, LedgerMiss
  <2> QED
    BY <2>1, <2>2, <2>3, <2>4, <2>5, <2>6 DEF Finds
<1> QED
  BY <1>1, <1>2, DirectoryDoes

\* The ledger at the beginning, and after every step.
LEMMA LedgerBegins == Init => LedgerInv
<1> SUFFICES ASSUME Init PROVE LedgerInv
  OBVIOUS
<1>1. /\ entry = [t \in ReqID |-> [block |-> 0, requests |-> <<>>, data |-> 0, slice |-> 0]]
      /\ reqs = <<>> /\ topIn = <<>> /\ dirStageBuffer = <<>> /\ dirBuf = <<>>
      /\ topOut = <<>> /\ answers = {}
  BY DEF Init
<1>2. Taken = 0
  <2> DEFINE none == <<>>
  <2>1. Len(none) = 0
    OBVIOUS
  <2>2. reqs = none /\ topIn = none /\ dirStageBuffer = none /\ dirBuf = none
    BY <1>1
  <2> HIDE DEF none
  <2>3. TakenOf(none, none, none, none) = 0
    BY <2>1 DEF TakenOf
  <2> QED
    BY <2>2, <2>3 DEF Taken
<1>3. Given = {}
  BY <1>1, SetOfEmpty DEF Given, GivenOf
<1>4. Busy = {}
  <2>1. Busy \in SUBSET (1 .. Taken)
    BY WInvBegins, BusyTyped
  <2> QED
    BY <1>2, <2>1
<1>5. \A e \in ReqID : entry[e].requests = <<>>
  BY <1>1
<1>6. \A e \in ReqID : ListsOf(entry)[e] = {}
  BY <1>5, SetOfEmpty DEF ListsOf
<1>7. ListsRise(entry)
  <2>1. Increasing(<<>>)
    BY DEF Increasing
  <2> QED
    BY <1>5, <2>1 DEF ListsRise
<1>8. Ledger({}, 0, ListsOf(entry), {})
  BY <1>6 DEF Ledger
<1>9. DirectOf(Busy, trans) = {}
  BY <1>4 DEF DirectOf
<1> QED
  BY <1>2, <1>3, <1>7, <1>8, <1>9 DEF LedgerInv

\* Every step keeps the ledger.
LEMMA LedgerSteps == WInv /\ LedgerInv /\ [Next]_vars => LedgerInv'
<1> SUFFICES ASSUME WInv, LedgerInv, [Next]_vars PROVE LedgerInv'
  OBVIOUS
<1>1. CASE Tick
  BY <1>1, TickIsQuiet, LedgerQuiet
<1>2. CASE BankPipeline
  BY <1>2, BankPipelineIsQuiet, LedgerQuiet
<1>3. CASE AcceptNewTransaction
  BY <1>3, AcceptIsQuiet, LedgerQuiet
<1>4. CASE TopParser
  BY <1>4, TopParserIsQuiet, LedgerQuiet
<1>5. CASE TopCollect
  BY <1>5, CollectIsQuiet, LedgerQuiet
<1>6. CASE WriteStage \/ LowAccept \/ LowRespond
  BY <1>6, BelowDoes, LedgerQuiet
<1>7. CASE \E i \in ReqID : \E r \in Script[i] : TopDeliver(r)
  BY <1>7, DeliverDoes, LedgerQuiet
<1>8. CASE UNCHANGED vars
  <2>1. UNCHANGED <<bank, places, upper, contents, Given>>
    BY <1>8 DEF vars, ticker, top, low, dir, bank, toBank, buffer, misses, respond, array, work,
                outside, places, upper, contents, Given
  <2>2. UNCHANGED spots
    BY <2>1, SpotsKept, WaitKept DEF WInv
  <2> QED
    BY <2>1, <2>2, LedgerQuiet
<1> QED
  BY <1>1, <1>2, <1>3, <1>4, <1>5, <1>6, <1>7, <1>8, LedgerMshr, LedgerFinalize, LedgerPull,
     LedgerReturn, LedgerNew, LedgerDirectory DEF Next, Component

\* The numbers n + 1 .. m, in w, of length k: the last a of them in order, and before
\* them one (b = 1) and another (c = 1).
Numbered(w, k, m, n, a, b, c) ==
  /\ k = a + b + c /\ n = m - a - b - c
  /\ \A i \in Nat : 1 =< i /\ i =< a => w[i] = m - a + i
  /\ b = 1 => w[a + 1] = m - a
  /\ c = 1 => w[a + b + 1] = n + 1

\* t is there at one index when it is above n, and nowhere when it is not.
OnceAbove(w, k, t, n) ==
  /\ t > n => \E p \in 1 .. k : w[p] = t /\ \A i \in 1 .. k : w[i] = t => i = p
  /\ t =< n => \A i \in 1 .. k : w[i] # t

IndicesOf(w, t) == {i \in DOMAIN w : w[i] = t}

\* Each of the numbers is there once, and no smaller one is.
LEMMA NumberedOnce ==
  ASSUME NEW m \in Nat, NEW n \in Nat, NEW a \in Nat, NEW b \in Nat, NEW c \in Nat,
         NEW k \in Nat, NEW w, b =< 1, c =< 1, Numbered(w, k, m, n, a, b, c),
         NEW t \in Nat, 1 =< t, t =< m
  PROVE  OnceAbove(w, k, t, n)
<1>0. /\ k = a + b + c /\ n = m - a - b - c
      /\ \A i \in Nat : 1 =< i /\ i =< a => w[i] = m - a + i
      /\ b = 1 => w[a + 1] = m - a
      /\ c = 1 => w[a + b + 1] = n + 1
  BY DEF Numbered
<1>1. \A i \in 1 .. k : i =< a \/ (b = 1 /\ i = a + 1) \/ (c = 1 /\ i = a + b + 1)
  BY <1>0
<1>2. \A i \in 1 .. k : i =< a => w[i] = m - a + i
  BY <1>0
<1>3. ASSUME t > n PROVE \E p \in 1 .. k : w[p] = t /\ \A i \in 1 .. k : w[i] = t => i = p
  <2>1. CASE t > m - a
    <3>1. PICK p \in 1 .. a : t = m - a + p
      <4>1. t - (m - a) \in 1 .. a /\ t = m - a + (t - (m - a))
        BY <1>0, <2>1
      <4> QED
        BY <1>0, <4>1
    <3>2. p \in 1 .. k /\ p =< a
      BY <1>0, <3>1
    <3>3. w[p] = t
      BY <1>0, <1>2, <3>1, <3>2
    <3>4. \A i \in 1 .. k : w[i] = t => i = p
      <4> SUFFICES ASSUME NEW i \in 1 .. k, w[i] = t PROVE i = p
        OBVIOUS
      <4>1. CASE i =< a
        <5>1. w[i] = m - a + i
          BY <1>0, <1>2, <4>1
        <5> QED
          BY <1>0, <3>1, <5>1
      <4>2. CASE b = 1 /\ i = a + 1
        BY <1>0, <2>1, <4>2
      <4>3. CASE c = 1 /\ i = a + b + 1
        BY <1>0, <2>1, <4>3
      <4> QED
        BY <1>0, <1>1, <4>1, <4>2, <4>3
    <3> QED
      BY <1>0, <3>2, <3>3, <3>4
  <2>2. CASE t =< m - a /\ b = 1 /\ t = m - a
    <3>1. a + 1 \in 1 .. k /\ w[a + 1] = t
      BY <1>0, <2>2
    <3>2. \A i \in 1 .. k : w[i] = t => i = a + 1
      <4> SUFFICES ASSUME NEW i \in 1 .. k, w[i] = t PROVE i = a + 1
        OBVIOUS
      <4>1. CASE i =< a
        <5>1. w[i] = m - a + i
          BY <1>0, <1>2, <4>1
        <5> QED
          BY <1>0, <2>2, <5>1
      <4>2. CASE c = 1 /\ i = a + b + 1
        BY <1>0, <2>2, <4>2
      <4> QED
        BY <1>0, <1>1, <4>1, <4>2
    <3> QED
      BY <1>0, <3>1, <3>2
  <2>3. CASE t =< m - a /\ ~(b = 1 /\ t = m - a)
    <3>1. c = 1 /\ t = n + 1
      BY <1>0, <1>3, <2>3
    <3>2. a + b + 1 \in 1 .. k /\ w[a + b + 1] = t
      BY <1>0, <3>1
    <3>3. \A i \in 1 .. k : w[i] = t => i = a + b + 1
      <4> SUFFICES ASSUME NEW i \in 1 .. k, w[i] = t PROVE i = a + b + 1
        OBVIOUS
      <4>1. CASE i =< a
        <5>1. w[i] = m - a + i
          BY <1>0, <1>2, <4>1
        <5> QED
          BY <1>0, <2>3, <5>1
      <4>2. CASE b = 1 /\ i = a + 1
        <5>1. w[i] = m - a
          BY <1>0, <4>2
        <5> QED
          BY <1>0, <2>3, <4>2, <5>1
      <4> QED
        BY <1>0, <1>1, <4>1, <4>2
    <3> QED
      BY <1>0, <3>2, <3>3
  <2> QED
    BY <1>0, <2>1, <2>2, <2>3
<1>4. ASSUME t =< n, NEW i \in 1 .. k PROVE w[i] # t
  <2>1. CASE i =< a
    <3>1. w[i] = m - a + i
      BY <1>0, <1>2, <2>1
    <3> QED
      BY <1>0, <1>4, <3>1
  <2>2. CASE b = 1 /\ i = a + 1
    <3>1. w[i] = m - a
      BY <1>0, <2>2
    <3> QED
      BY <1>0, <1>4, <2>2, <3>1
  <2>3. CASE c = 1 /\ i = a + b + 1
    <3>1. w[i] = n + 1
      BY <1>0, <2>3
    <3> QED
      BY <1>0, <1>4, <3>1
  <2> QED
    BY <1>0, <1>1, <2>1, <2>2, <2>3
<1> QED
  BY <1>3, <1>4 DEF OnceAbove

\* A buffer that holds one, after a queue.
LEMMA OneBehind ==
  ASSUME NEW S, NEW s \in Seq(S), NEW r \in Seq(S), Len(r) = 1
  PROVE  (s \o r)[Len(s) + 1] = r[1]
<1> DEFINE i == Len(s) + 1
<1>1. Len(s) \in Nat
  BY LenProperties
<1>2. \A j \in 1 .. (Len(s) + Len(r)) :
        (s \o r)[j] = IF j =< Len(s) THEN s[j] ELSE r[j - Len(s)]
  BY ConcatProperties
<1>3. i \in 1 .. (Len(s) + Len(r)) /\ ~(i =< Len(s)) /\ i - Len(s) = 1
  BY <1>1
<1> HIDE DEF i
<1>4. (s \o r)[i] = r[i - Len(s)]
  BY <1>2, <1>3
<1>5. (s \o r)[i] = r[1]
  BY <1>3, <1>4
<1> QED
  BY <1>5 DEF i

\* A request is waiting once when the directory has not processed it, and not at all
\* when it has.
LEMMA WaitingOnce ==
  ASSUME NEW S, NEW m \in Nat, NEW ti \in Seq(S), NEW ds \in Seq(S), NEW db \in Seq(S),
         Len(ds) =< 1, Len(db) =< 1, NEW rq, Len(rq) = m, Waits(rq, ti, ds, db),
         NEW t \in 1 .. m, NEW w, w = ti \o ds \o db,
         NEW n, n = TakenOf(rq, ti, ds, db)
  PROVE  /\ t > n => Cardinality(IndicesOf(w, t)) = 1
         /\ t =< n => Cardinality(IndicesOf(w, t)) = 0
<1>1. Len(ti) \in Nat /\ Len(ds) \in Nat /\ Len(db) \in Nat
  BY LenProperties
<1>2. n \in Nat /\ n = m - Len(ti) - Len(ds) - Len(db)
  BY DEF TakenOf, Waits
<1>3. w \in Seq(S) /\ Len(w) = Len(ti) + Len(ds) + Len(db)
  OBVIOUS
<1>4. \A i \in Nat : 1 =< i /\ i =< Len(ti) => w[i] = ti[i]
  <2> SUFFICES ASSUME NEW i \in Nat, 1 =< i, i =< Len(ti) PROVE w[i] = ti[i]
    OBVIOUS
  <2> QED
    BY <1>1
<1>5. \A i \in Nat : 1 =< i /\ i =< Len(ti) => w[i] = m - Len(ti) + i
  <2>1. \A i \in 1 .. Len(ti) : ti[i] = m - Len(ti) + i
    BY DEF Waits
  <2>2. \A i \in Nat : 1 =< i /\ i =< Len(ti) => i \in 1 .. Len(ti)
    BY <1>1
  <2> QED
    BY <1>4, <2>1, <2>2
<1>6. Len(ds) = 1 => w[Len(ti) + 1] = m - Len(ti)
  <2> HAVE Len(ds) = 1
  <2>1. ds # <<>>
    <3>1. ds = <<>> <=> Len(ds) = 0
      BY EmptySeq
    <3> QED
      BY <3>1
  <2>2. ds[1] = m - Len(ti)
    BY <2>1 DEF Waits
  <2>3. w[Len(ti) + 1] = ds[1]
    <3> DEFINE v == ti \o ds
               i == Len(ti) + 1
    <3>1. v \in Seq(S) /\ Len(v) = Len(ti) + Len(ds)
      BY ConcatProperties
    <3>2. v[i] = ds[1]
      BY OneBehind
    <3>3. i \in 1 .. Len(v)
      <4> HIDE DEF v
      <4> QED
        BY <1>1, <3>1
    <3> HIDE DEF v
    <3>4. (v \o db)[i] = v[i]
      <4> HIDE DEF i
      <4> QED
        BY <3>1, <3>3
    <3> QED
      BY <3>2, <3>4 DEF v
  <2> QED
    BY <2>2, <2>3
<1>7. Len(db) = 1 => w[Len(ti) + Len(ds) + 1] = n + 1
  <2> HAVE Len(db) = 1
  <2>1. db # <<>>
    <3>1. db = <<>> <=> Len(db) = 0
      BY EmptySeq
    <3> QED
      BY <3>1
  <2>2. db[1] = n + 1
    BY <2>1 DEF Waits
  <2>3. w[Len(ti) + Len(ds) + 1] = db[1]
    <3> DEFINE v == ti \o ds
    <3>1. v \in Seq(S) /\ Len(v) = Len(ti) + Len(ds)
      OBVIOUS
    <3> HIDE DEF v
    <3>2. (v \o db)[Len(v) + 1] = db[1]
      BY <3>1, OneBehind
    <3> QED
      BY <3>1, <3>2 DEF v
  <2> QED
    BY <2>2, <2>3
<1>8. DOMAIN w = 1 .. Len(w) /\ Len(w) \in Nat
  BY <1>3, LenProperties
<1>9. /\ t > n => \E p \in 1 .. Len(w) : w[p] = t /\ \A i \in 1 .. Len(w) : w[i] = t => i = p
      /\ t =< n => \A i \in 1 .. Len(w) : w[i] # t
  <2> DEFINE a == Len(ti)
             b == Len(ds)
             c == Len(db)
             k == Len(w)
  <2>1. /\ a \in Nat /\ b \in Nat /\ c \in Nat /\ k \in Nat /\ b =< 1 /\ c =< 1
        /\ n \in Nat /\ m \in Nat
    BY <1>1, <1>2, <1>8
  <2>3. Numbered(w, k, m, n, a, b, c)
    BY <1>2, <1>3, <1>5, <1>6, <1>7 DEF Numbered
  <2>2. t \in Nat /\ 1 =< t /\ t =< m
    OBVIOUS
  <2> HIDE DEF a, b, c, k
  <2>4. OnceAbove(w, k, t, n)
    BY <2>1, <2>2, <2>3, NumberedOnce
  <2> QED
    BY <2>4 DEF k, OnceAbove
<1> DEFINE H == IndicesOf(w, t)
<1>10. ASSUME t > n PROVE Cardinality(H) = 1
  <2>1. PICK p \in 1 .. Len(w) : w[p] = t /\ \A i \in 1 .. Len(w) : w[i] = t => i = p
    BY <1>9, <1>10
  <2>2. H = {p}
    BY <1>8, <2>1 DEF IndicesOf
  <2> HIDE DEF H
  <2> QED
    BY <2>2, FS_Singleton
<1>11. ASSUME t =< n PROVE Cardinality(H) = 0
  <2>1. H = {}
    BY <1>8, <1>9, <1>11 DEF IndicesOf
  <2> HIDE DEF H
  <2> QED
    BY <2>1, FS_EmptySet
<1> QED
  BY <1>10, <1>11

\* A request of the ledger is in one place of it, one outside the ledger in none.
LEMMA LedgerPlaces ==
  ASSUME NEW D, NEW n \in Nat, NEW L, NEW gv, Ledger(D, n, L, gv), NEW t \in Nat \ {0}
  PROVE  Cardinality(D \cap {t}) + Cardinality({e \in ReqID : t \in L[e]})
           + Cardinality({x \in gv : x.rspTo = t})
         = IF t > n THEN 0 ELSE 1
<1> DEFINE A == D \cap {t}
           Q == {e \in ReqID : t \in L[e]}
           G == {x \in gv : x.rspTo = t}
<1>1. Cardinality({}) = 0
  BY FS_EmptySet
<1>2. \A x : Cardinality({x}) = 1
  BY FS_Singleton
<1>3. CASE t > n
  <2>1. A = {} /\ Q = {} /\ G = {}
    BY <1>3 DEF Ledger
  <2> HIDE DEF A, Q, G
  <2>2. Cardinality(A) + Cardinality(Q) + Cardinality(G) = 0
    BY <1>1, <2>1
  <2> QED
    BY <1>3, <2>2 DEF A, Q, G
<1>4. CASE t =< n
  <2>1. \/ t \in D
        \/ \E e \in ReqID : t \in L[e]
        \/ \E x \in gv : x.rspTo = t
    BY <1>4 DEF Ledger
  <2>2. CASE t \in D
    <3>1. A = {t} /\ Q = {} /\ G = {}
      BY <2>2 DEF Ledger
    <3> HIDE DEF A, Q, G
    <3>2. Cardinality(A) + Cardinality(Q) + Cardinality(G) = 1
      BY <1>1, <1>2, <3>1
    <3> QED
      BY <1>4, <3>2 DEF A, Q, G
  <2>3. CASE \E e \in ReqID : t \in L[e]
    <3>1. PICK e \in ReqID : t \in L[e]
      BY <2>3
    <3>2. A = {} /\ G = {}
      BY <3>1 DEF Ledger
    <3>3. \A f \in ReqID : t \in L[f] => f = e
      BY <3>1 DEF Ledger
    <3>4. Q = {e}
      BY <3>1, <3>3
    <3> HIDE DEF A, Q, G
    <3>5. Cardinality(A) = 0 /\ Cardinality(Q) = 1 /\ Cardinality(G) = 0
      BY <1>1, <1>2, <3>2, <3>4
    <3>6. Cardinality(A) + Cardinality(Q) + Cardinality(G) = 1
      BY <3>5
    <3> QED
      BY <1>4, <3>6 DEF A, Q, G
  <2>4. CASE \E x \in gv : x.rspTo = t
    <3>1. PICK x \in gv : x.rspTo = t
      BY <2>4
    <3>2. A = {} /\ Q = {}
      BY <3>1 DEF Ledger
    <3>3. \A y \in gv : y.rspTo = t => y = x
      BY <3>1 DEF Ledger
    <3>4. G = {x}
      BY <3>1, <3>3
    <3> HIDE DEF A, Q, G
    <3>5. Cardinality(A) = 0 /\ Cardinality(Q) = 0 /\ Cardinality(G) = 1
      BY <1>1, <1>2, <3>2, <3>4
    <3>6. Cardinality(A) + Cardinality(Q) + Cardinality(G) = 1
      BY <3>5
    <3> QED
      BY <1>4, <3>6 DEF A, Q, G
  <2> QED
    BY <2>1, <2>2, <2>3, <2>4
<1> QED
  BY <1>3, <1>4

\* The ledger is AnsweredOnce.
LEMMA LedgerIsAnsweredOnce == WInv /\ LedgerInv => AnsweredOnce
<1> SUFFICES ASSUME WInv, LedgerInv, NEW t \in DOMAIN reqs
             PROVE  Cardinality({i \in DOMAIN (topIn \o dirStageBuffer \o dirBuf) :
                                   (topIn \o dirStageBuffer \o dirBuf)[i] = t})
                      + Cardinality(Direct \cap {t})
                      + Cardinality({e \in ReqID : t \in ToSet(entry[e].requests)})
                      + Cardinality({x \in ToSet(topOut) \cup answers : x.rspTo = t})
                    = 1
  BY DEF AnsweredOnce
<1> DEFINE w == topIn \o dirStageBuffer \o dirBuf
           m == Len(reqs)
           L == ListsOf(entry)
           D == DirectOf(Busy, trans)
           cw == Cardinality({i \in DOMAIN w : w[i] = t})
           ca == Cardinality(D \cap {t})
           cq == Cardinality({e \in ReqID : t \in L[e]})
           cg == Cardinality({x \in Given : x.rspTo = t})
<1>1. /\ m \in Nat /\ t \in 1 .. m
      /\ topIn \in Seq(ReqID) /\ dirStageBuffer \in Seq(ReqID) /\ dirBuf \in Seq(ReqID)
      /\ Len(dirStageBuffer) =< 1 /\ Len(dirBuf) =< 1
  BY LenProperties DEF WInv, WTypes, PortTypes, StageTypes, Single
<1>2. Waits(reqs, topIn, dirStageBuffer, dirBuf)
  BY DEF WInv, WaitInv
<1>3. Ledger(D, Taken, L, Given) /\ Taken \in Nat
  BY <1>2 DEF LedgerInv, Taken, Waits
<1>4. (t > Taken => cw = 1) /\ (t =< Taken => cw = 0)
  <2> HIDE DEF w
  <2>1. w = topIn \o dirStageBuffer \o dirBuf
    BY DEF w
  <2> HIDE DEF m
  <2>2. Len(reqs) = m
    BY DEF m
  <2> QED
    <3>1. Taken = TakenOf(reqs, topIn, dirStageBuffer, dirBuf)
      BY DEF Taken
    <3> HIDE DEF cw
    <3>2. /\ t > Taken => Cardinality(IndicesOf(w, t)) = 1
          /\ t =< Taken => Cardinality(IndicesOf(w, t)) = 0
      BY <1>1, <1>2, <2>1, <2>2, <3>1, WaitingOnce
    <3> QED
      BY <3>2 DEF cw, IndicesOf
<1>5. ca + cq + cg = IF t > Taken THEN 0 ELSE 1
  <2>1. t \in Nat \ {0}
    BY <1>1
  <2> HIDE DEF D, L
  <2> QED
    BY <1>3, <2>1, LedgerPlaces
<1>6. {e \in ReqID : t \in L[e]} = {e \in ReqID : t \in ToSet(entry[e].requests)}
  BY DEF ListsOf
<1>7. D = Direct
  BY DEF DirectOf, Direct, DirectActions
<1>8. cw + ca + cq + cg = 1
  <2>1. ca \in Nat /\ cq \in Nat /\ cg \in Nat
    <3>1. IsFiniteSet(D \cap {t})
      <4>1. IsFiniteSet({t})
        BY FS_Singleton
      <4>2. D \cap {t} \subseteq {t}
        OBVIOUS
      <4> QED
        BY <4>1, <4>2, FS_Subset
    <3>2. IsFiniteSet({e \in ReqID : t \in L[e]})
      <4>1. {e \in ReqID : t \in L[e]} \in SUBSET ReqID
        OBVIOUS
      <4> QED
        BY <4>1, RequestsFinite
    <3>3. IsFiniteSet({x \in Given : x.rspTo = t})
      <4> DEFINE G == {x \in Given : x.rspTo = t}
      <4>1. \A x, y \in G : x = y
        BY <1>3 DEF Ledger
      <4> HIDE DEF G
      <4>2. G = {} \/ \E x : G = {x}
        BY <4>1
      <4>3. IsFiniteSet(G)
        BY <4>2, FS_EmptySet, FS_Singleton
      <4> QED
        BY <4>3 DEF G
    <3> QED
      BY <3>1, <3>2, <3>3, FS_CardinalityType
  <2> HIDE DEF cw, ca, cq, cg
  <2>2. CASE t > Taken
    BY <1>4, <1>5, <2>1, <2>2
  <2>3. CASE ~(t > Taken)
    <3>1. t =< Taken
      BY <1>1, <1>3, <2>3
    <3>2. cw = 0 /\ ca + cq + cg = 1
      BY <1>4, <1>5, <2>3, <3>1
    <3> QED
      BY <2>1, <3>2
  <2> QED
    BY <2>2, <2>3
<1> QED
  BY <1>6, <1>7, <1>8 DEF Given, GivenOf

\* A request sent to the cache is waiting in the directory's queue, on its way through the
\* bank, in the list of one MSHR entry, or answered, and only one of these, once:
\* no interleaving of the stages, of hits and misses, of evictions and of requests
\* joining a miss already under way loses a request or answers it twice
\* (topparser.go, directorystage.go, bankstage.go, mshrstage.go).
THEOREM EveryRequestOnce == Spec => []AnsweredOnce
<1>1. Spec => [](WInv /\ LedgerInv)
  <2>1. Init => LedgerInv
    BY LedgerBegins
  <2>2. WInv /\ LedgerInv /\ [Next]_vars => LedgerInv'
    BY LedgerSteps
  <2> QED
    BY <2>1, <2>2, WInvHolds, PTL DEF Spec
<1> QED
  BY <1>1, LedgerIsAnsweredOnce, PTL

(***************************************************************************)
(* What a read returns                                                     *)
(***************************************************************************)
\* The write buffer never holds two evictions of one line, sent or waiting.
OneEviction ==
  \A t, u \in ToSet(inflightEviction) \cup ToSet(pendingEvictions) :
    trans[t].evictingAddr = trans[u].evictingAddr => t = u

\* The requests at work: those the bank will answer and those listed by an open entry.
Listed == UNION {ToSet(entry[e].requests) : e \in mshr}
UnderWay == DirectNow \cup Listed

\* The writes that reached their line, of one line, and what is as new as a set of them.
DoneOf(B, n, rq) == {w \in (1 .. n) \ B : rq[w].write}
Done == DoneOf(UnderWay, Taken, reqs)
OfLine(S, rq, l) == {w \in S : rq[w].line = l}
DoneFor(l) == OfLine(Done, reqs, l)
Above(v, S) == \A w \in S : w =< v

\* The writes of a line reach it in the order of the requests.
OrderInv == \A t \in UnderWay : \A w \in DoneFor(reqs[t].line) : w < t

\* An entry lists requests of its line.
LinesInv == \A e \in ReqID : \A t \in ToSet(entry[e].requests) : reqs[t].line = reqs[e].line

\* What a read must at least return is a write that reached its line.
FloorInv ==
  \A t \in 1 .. Len(reqs) : reqs[t].floor = 0 \/ reqs[t].floor \in DoneFor(reqs[t].line)

\* The evictions the write buffer holds, and those not written below yet.
Evs == ToSet(inflightEviction) \cup ToSet(pendingEvictions)
WritesOf(s) == {s[i].of : i \in {j \in DOMAIN s : s[j].write}}
Unwritten == ToSet(pendingEvictions) \cup WritesOf(bottomOut) \cup WritesOf(lowReqs)

\* The writes below: of the evictions sent, each in one place.
WrittenOnce(s) ==
  \A i, j \in DOMAIN s : s[i].write /\ s[j].write /\ s[i].of = s[j].of => i = j
WriteAsks(pe, bo, lr, bi, E) ==
  /\ IsInjective(pe) /\ ToSet(pe) \cap E = {}
  /\ WrittenOnce(bo) /\ WrittenOnce(lr) /\ WrittenOnce(bi)
  /\ WritesOf(bo) \cap (WritesOf(lr) \cup WritesOf(bi)) = {}
  /\ WritesOf(lr) \cap WritesOf(bi) = {}
  /\ WritesOf(bo) \cup WritesOf(lr) \cup WritesOf(bi) \subseteq E
WriteAskInv ==
  WriteAsks(pendingEvictions, bottomOut, lowReqs, bottomIn, ToSet(inflightEviction))

\* A message is about the line its transaction evicts or fetches.
LinesTold(s, tr, rq) ==
  \A i \in DOMAIN s :
    s[i].line = IF s[i].write THEN tr[s[i].of].evictingAddr ELSE rq[s[i].of].line
MessageInv == LinesTold(bottomOut, trans, reqs) /\ LinesTold(lowReqs, trans, reqs)

\* A transaction whose old line waits before the write buffer, and one that has nothing
\* to evict, or has handed it over.
Departs == {"writeBufferEvictAndFetch", "writeBufferEvictAndWrite"}
Past(tr, t) == tr[t].action \notin Evicting \cup Departs
EvsInv == \A t \in Evs : t \in 1 .. Taken /\ Past(trans, t)

\* The transactions that hold the old contents of a line: before the bank took them, ...
LeaversOf(l) == {t \in Leavers(Busy, trans) : trans[t].evictingAddr = l}
\* ... between the bank and the write buffer, ...
DepartsOf(l) == {t \in AtBuffer : trans[t].action \in Departs /\ trans[t].evictingAddr = l}
\* ... in the write buffer.
EvsOf(l) == {t \in Evs : trans[t].evictingAddr = l}
UnwrittenOf(l) == {t \in Unwritten : trans[t].evictingAddr = l}

\* A fetch of line l may find v.
Old(l, v) ==
  \/ \E t \in LeaversOf(l) : v = storage[trans[t].block]
  \/ \E t \in DepartsOf(l) : v = evictingData[t]
  \/ /\ LeaversOf(l) = {} /\ DepartsOf(l) = {}
     /\ \/ \E t \in EvsOf(l) : v = evictingData[t]
        \/ UnwrittenOf(l) = {} /\ v = mem[l]

\* A block holds, or is being given, what is newer than the contents below.
Newer(b) ==
  /\ blocks[b].IsValid /\ (~blocks[b].IsLocked => blocks[b].IsDirty)
  /\ \A t \in Busy : trans[t].block = b =>
       /\ trans[t].action \notin Fetching
       /\ trans[t].action = "bankWriteFetched" => blocks[b].IsDirty
Relied(l) == \A b \in Slots : Newer(b) => blocks[b].Tag # l

\* What is below, what is in the blocks and what is on its way to them is not older
\* than the writes that reached the line.
OldInv == \A l \in Lines : Relied(l) => \A v : Old(l, v) => Above(v, DoneFor(l))
StorageInv ==
  \A b \in Slots : blocks[b].IsValid /\ ~blocks[b].IsLocked =>
    Above(storage[b], DoneFor(blocks[b].Tag))
FetchedInv ==
  \A t \in Busy : trans[t].action = "bankWriteFetched" =>
    Above(EntryData(t), DoneFor(reqs[t].line))
AnswerInv ==
  \A i \in DOMAIN bottomIn : ~bottomIn[i].write =>
    Above(bottomIn[i].ver, DoneFor(reqs[bottomIn[i].of].line))

\* A line between the bank and the write buffer is not being fetched, read or written.
DepartInv ==
  \A u \in AtBuffer : trans[u].action \in Departs =>
    /\ \A b \in Slots : blocks[b].IsValid /\ blocks[b].Tag = trans[u].evictingAddr
                          => blocks[b].IsLocked
    /\ \A t \in Busy : reqs[t].line = trans[u].evictingAddr => t \in AtBank

\* A line asked of the low module is in no eviction.
FetchInv == \A t \in inflightFetch : \A u \in Evs : trans[u].evictingAddr # reqs[t].line

\* An entry that is filled from an eviction shares the contents of its line.
WithData == Filled \cup {t \in Busy : trans[t].action = "bankWriteFetched"}
SliceInv ==
  \A e \in WithData : entry[e].slice # 0 =>
    /\ entry[e].slice \in 1 .. Taken /\ Past(trans, entry[e].slice)
    /\ trans[entry[e].slice].evictingAddr = reqs[e].line

\* The reads listed by an entry that is filled will get what they must.
FilledInv ==
  \A e \in Filled : \A r \in ToSet(entry[e].requests) :
    ~reqs[r].write => EntryData(e) >= reqs[r].floor

GivenInv == \A x \in Given : ~reqs[x.rspTo].write => x.ver >= reqs[x.rspTo].floor

DataInv ==
  /\ OrderInv /\ LinesInv /\ FloorInv
  /\ WriteAskInv /\ MessageInv /\ EvsInv /\ FetchInv /\ DepartInv
  /\ OldInv /\ StorageInv /\ FetchedInv /\ AnswerInv
  /\ SliceInv /\ FilledInv /\ GivenInv

(***************************************************************************)
(* The kinds of steps, by what they do to requests, contents and messages  *)
(***************************************************************************)
\* Nothing but a request on its way to the directory, or an answer on its way out.
Still == UNCHANGED <<spots, contents, messages, reqs, Given>>

\* A new request, which names the write it must not be behind.
Comes(r) ==
  /\ UNCHANGED <<spots, contents, messages, Given>>
  /\ Len(reqs) \in Nat /\ Taken =< Len(reqs) /\ Len(reqs') = Len(reqs) + 1
  /\ \A u \in 1 .. Len(reqs) : reqs'[u] = reqs[u]
  /\ reqs'[Len(reqs) + 1] = [write |-> r.write, full |-> r.full, line |-> r.line,
                             floor |-> Acknowledged(r.line)]

\* The ports below: an eviction is sent, ...
EvictionSent ==
  LET t == Head(pendingEvictions)
  IN /\ pendingEvictions # <<>> /\ pendingEvictions' = Tail(pendingEvictions)
     /\ bottomOut' = Append(bottomOut, [write |-> TRUE, of |-> t,
                                        line |-> trans[t].evictingAddr])
     /\ inflightEviction' = Append(inflightEviction, t)
     /\ UNCHANGED <<lowReqs, bottomIn, mem>>
\* ... a message goes down, ...
MessageSent ==
  /\ bottomOut # <<>> /\ bottomOut' = Tail(bottomOut)
  /\ lowReqs' = Append(lowReqs, Head(bottomOut))
  /\ UNCHANGED <<bottomIn, mem, pendingEvictions, inflightEviction>>
\* ... is served, ...
MessageServed ==
  LET r == Head(lowReqs)
  IN /\ lowReqs # <<>> /\ lowReqs' = Tail(lowReqs)
     /\ bottomIn' = Append(bottomIn, [write |-> r.write, of |-> r.of,
                                      ver |-> IF r.write THEN 0 ELSE mem[r.line]])
     /\ mem' = IF r.write THEN [mem EXCEPT ![r.line] = evictingData[r.of]] ELSE mem
     /\ UNCHANGED <<bottomOut, pendingEvictions, inflightEviction>>
\* ... or a write is known to be done.
WriteDone ==
  /\ bottomIn # <<>> /\ Head(bottomIn).write /\ bottomIn' = Tail(bottomIn)
  /\ inflightEviction' = Filter(inflightEviction, ReqID \ {Head(bottomIn).of})
  /\ UNCHANGED <<pendingEvictions, bottomOut, lowReqs, mem>>
Below ==
  /\ UNCHANGED <<spots, contents, reqs, Given>>
  /\ EvictionSent \/ MessageSent \/ MessageServed \/ WriteDone

\* A transaction enters the bank.
Pulled ==
  /\ UNCHANGED <<contents, messages, reqs, Given, Taken, Filled, inflightFetch, Busy>>
  /\ \/ AtBank' = AtBank /\ AtBuffer' = AtBuffer
     \/ AtBuffer = {} /\ \A t \in AtBuffer' : trans[t].action = "writeBufferFetch"

\* A transaction leaves the bank: ...
LeavesBank(t) ==
  /\ t \in InBank /\ t \in Busy /\ trans[t].block \in Slots
  /\ UNCHANGED <<Taken, AtBank, inflightFetch, entry, mshr, reqs, messages>>
\* ... a read that hit, ...
ReadEnds(t) ==
  /\ LeavesBank(t) /\ trans[t].action = "bankReadHit"
  /\ Busy' = Busy \ {t} /\ AtBuffer' = AtBuffer /\ Filled' = Filled
  /\ UNCHANGED <<trans, storage, evictingData, evictingList>>
  /\ Given' = Given \cup {[rspTo |-> t, ver |-> storage[trans[t].block]]}
  /\ \A c \in Slots : Alike(blocks'[c], blocks[c]) /\ blocks'[c].IsDirty = blocks[c].IsDirty
\* ... a write that hit, ...
WriteEnds(t, b) ==
  /\ LeavesBank(t) /\ trans[t].action = "bankWriteHit" /\ b = trans[t].block
  /\ Busy' = Busy \ {t} /\ AtBuffer' = AtBuffer /\ Filled' = Filled
  /\ UNCHANGED <<trans, evictingData, evictingList>>
  /\ Given' = Given \cup {[rspTo |-> t, ver |-> t]}
  /\ storage'[b] = t /\ \A c \in Slots : c # b => storage'[c] = storage[c]
  /\ \A c \in Slots : c # b => blocks'[c] = blocks[c]
  /\ blocks'[b].IsValid /\ ~blocks'[b].IsLocked /\ blocks'[b].IsDirty
  /\ blocks'[b].Tag = blocks[b].Tag
\* ... a line that was fetched, ...
LineEnds(t, b) ==
  /\ LeavesBank(t) /\ trans[t].action = "bankWriteFetched" /\ b = trans[t].block
  /\ Busy' = Busy \ {t} /\ AtBuffer' = AtBuffer /\ Filled' = Filled \cup {t}
  /\ UNCHANGED <<trans, evictingData, evictingList, Given>>
  /\ storage'[b] = EntryData(t) /\ \A c \in Slots : c # b => storage'[c] = storage[c]
  /\ \A c \in Slots : c # b => blocks'[c] = blocks[c]
  /\ blocks'[b].IsValid /\ ~blocks'[b].IsLocked
  /\ blocks'[b].IsDirty = blocks[b].IsDirty /\ blocks'[b].Tag = blocks[b].Tag
\* ... or with the old contents of its block.
OldTaken(t) ==
  /\ LeavesBank(t) /\ trans[t].action \in Evicting
  /\ Busy' = Busy /\ AtBuffer = {} /\ AtBuffer' = {t} /\ Filled' = Filled
  /\ UNCHANGED <<blocks, storage, Given>>
  /\ OnlyAction(t, trans, trans')
  /\ trans'[t].action = (IF trans[t].action = "bankEvictAndFetch"
                           THEN "writeBufferEvictAndFetch"
                           ELSE "writeBufferEvictAndWrite")
  /\ evictingData'[t] = storage[trans[t].block]
  /\ \A u \in ReqID : u # t => evictingData'[u] = evictingData[u]

\* The mshr stage answers, or moves on.
Answering ==
  /\ UNCHANGED <<AtBank, InBank, AtBuffer, GoingBack, inflightFetch, Taken, Busy,
                 trans, blocks, storage, mshr, evictingData, evictingList, messages, reqs>>
  /\ Filled' \in SUBSET Filled
  /\ UNCHANGED <<entry, Given>> \/ \E e \in ReqID : AnswersOf(e)

\* A line comes from below for t, ...
LineComes(t, v) ==
  /\ bottomIn # <<>> /\ ~Head(bottomIn).write /\ bottomIn' = Tail(bottomIn)
  /\ t = Head(bottomIn).of /\ v = Head(bottomIn).ver /\ v \in Nat
  /\ t \in inflightFetch /\ t \in Busy
  /\ trans[t].action = "writeBufferFetch"
  /\ inflightFetch' = inflightFetch \ {t}
  /\ Fills(t, v, 0) /\ Busy' = Busy
  /\ UNCHANGED <<AtBank, InBank, AtBuffer, Filled, Taken, Given, storage,
                 evictingData, evictingList, reqs, inflightEviction,
                 pendingEvictions, bottomOut, lowReqs, mem>>
\* ... or from the write buffer, where u evicts it.
LineFound(t, u) ==
  /\ t \in Busy /\ AtBuffer = {t} /\ AtBuffer' = {}
  /\ trans[t].action = "writeBufferFetch"
  /\ u \in ReqID /\ u \in Evs /\ trans[u].evictingAddr = reqs[t].line
  /\ Fills(t, evictingData[u], u) /\ evictingData[u] \in Nat
  /\ evictingData'[u] = Combined(t, evictingData[u])
  /\ \A x \in ReqID : x # u => evictingData'[x] = evictingData[x]
  /\ Busy' = Busy
  /\ UNCHANGED NewKept
  /\ UNCHANGED <<bottomOut, inflightFetch, pendingEvictions>>
\* The line is asked of the low module.
LineAsked(t) ==
  /\ t \in Busy /\ AtBuffer = {t} /\ AtBuffer' = {}
  /\ trans[t].action = "writeBufferFetch"
  /\ \A u \in Evs : trans[u].evictingAddr # reqs[t].line
  /\ bottomOut' = Append(bottomOut, [write |-> FALSE, of |-> t, line |-> reqs[t].line])
  /\ inflightFetch' = inflightFetch \cup {t}
  /\ Busy' = Busy
  /\ UNCHANGED NewKept
  /\ UNCHANGED <<mshr, entry, blocks, trans, evictingData, pendingEvictions>>
\* The write buffer takes an eviction.
EvictionHeld(t) ==
  /\ t \in Busy /\ AtBuffer = {t} /\ AtBuffer' \subseteq {t}
  /\ OnlyAction(t, trans, trans')
  /\ \/ /\ trans[t].action = "writeBufferEvictAndWrite"
        /\ trans'[t].action = "bankWriteHit"
     \/ /\ trans[t].action = "writeBufferEvictAndFetch"
        /\ trans'[t].action = "writeBufferFetch"
  /\ pendingEvictions' = Append(pendingEvictions, t)
  /\ Busy' = Busy
  /\ UNCHANGED NewKept
  /\ UNCHANGED <<inflightFetch, mshr, entry, blocks, evictingData, bottomOut>>

\* The directory takes request t: ...
NextTaken(t) ==
  /\ t = Taken + 1 /\ Taken' = t /\ t \notin Busy /\ t =< Len(reqs)
  /\ UNCHANGED DirKept
  /\ \A u \in ReqID : u # t => trans'[u] = trans[u]
\* ... it joins an entry, ...
Joins(t, e) ==
  /\ NextTaken(t) /\ AtBank' = AtBank /\ Busy' = Busy
  /\ UNCHANGED <<blocks, mshr, evictingList>>
  /\ e \in mshr /\ reqs[e].line = reqs[t].line
  /\ SameData(entry, entry')
  /\ entry[e].requests \in Seq(ReqID)
  /\ entry'[e].requests = Append(entry[e].requests, t)
  /\ \A u \in ReqID : u # e => entry'[u].requests = entry[u].requests
\* ... reads block b, ...
ReadsBlock(t, b) ==
  /\ NextTaken(t) /\ AtBank' = AtBank \cup {t} /\ Busy' = Busy \cup {t}
  /\ UNCHANGED <<entry, mshr, evictingList>>
  /\ trans'[t].action = "bankReadHit" /\ ~reqs[t].write
  /\ trans'[t].block = b /\ b \in Slots
  /\ blocks[b].IsValid /\ blocks[b].Tag = reqs[t].line /\ ~blocks[b].IsLocked
  /\ \A c \in Slots : Alike(blocks'[c], blocks[c]) /\ blocks'[c].IsDirty = blocks[c].IsDirty
\* ... or owns it, for a write, for a fetch or for an eviction.
OwnsFor(t, b) ==
  \/ trans'[t].action = "bankWriteHit" /\ UNCHANGED entry /\ Spares(t, b)
  \/ /\ Lookup(Line(t)) = {} /\ NeedEviction(b)
     /\ \/ trans'[t].action = "bankEvictAndWrite" /\ UNCHANGED entry
        \/ trans'[t].action = "bankEvictAndFetch" /\ entry'[t].requests = <<t>>
  \/ /\ Lookup(Line(t)) = {} /\ ~NeedEviction(b)
     /\ trans'[t].action = "writeBufferFetch" /\ entry'[t].requests = <<t>>
OwnsBlock(t, b) ==
  /\ NextTaken(t) /\ AtBank' = AtBank \cup {t} /\ Busy' = Busy \cup {t}
  /\ \A u \in ReqID : u # t => entry'[u] = entry[u]
  /\ trans'[t].block = b /\ b \in Slots
  /\ Claimable(b, reqs[t].line, blocks, evictingList)
  /\ Claimed(b, reqs[t].line, blocks, blocks')
  /\ Leaves(trans'[t], reqs[t].line, blocks[b], evictingList, evictingList')
  /\ mshr' = mshr \cup (IF trans'[t].action \in Fetching THEN {t} ELSE {})
  /\ OwnsFor(t, b)

\* One of them.
OfBank(t) == ReadEnds(t) \/ (\E b \in Slots : WriteEnds(t, b) \/ LineEnds(t, b)) \/ OldTaken(t)
OfBuffer(t) ==
  \/ \E v \in Nat : LineComes(t, v)
  \/ \E u \in ReqID : LineFound(t, u)
  \/ LineAsked(t)
  \/ EvictionHeld(t)
OfDirectory(t) ==
  \/ \E e \in ReqID : Joins(t, e)
  \/ \E b \in Slots : ReadsBlock(t, b) \/ OwnsBlock(t, b)
StepOf == \E t \in ReqID : OfBank(t) \/ OfBuffer(t) \/ OfDirectory(t)
Kind == Still \/ (\E r : Comes(r)) \/ Below \/ Pulled \/ Answering \/ StepOf

\* What the bank does.
LEMMA BankKinds ==
  ASSUME WInv, FinalizeTrans PROVE Still \/ \E t \in ReqID : OfBank(t)
<1>1. CASE UNCHANGED <<spots, contents, messages, reqs, Given>>
  BY <1>1 DEF Still
<1>2. CASE \E k \in 1 .. Len(bankBuf) : Gives(k) /\ Finishes(bankBuf[k])
  <2>1. PICK k \in 1 .. Len(bankBuf) : Gives(k) /\ Finishes(bankBuf[k])
    BY <1>2
  <2> DEFINE t == bankBuf[k]
             b == trans[t].block
  <2>2. /\ t \in InBank /\ t \in ReqID /\ t \in Busy
        /\ UNCHANGED <<Taken, AtBank, inflightFetch, entry, mshr, reqs, messages>>
    BY <2>1, GiveDoes
  <2>3. CASE FinalizeReadHit(t)
    <3>1. /\ trans[t].action = "bankReadHit" /\ b \in Slots
          /\ Busy' = Busy \ {t} /\ AtBuffer' = AtBuffer /\ Filled' = Filled
          /\ UNCHANGED <<trans, storage, evictingData, evictingList>>
          /\ Given' = Given \cup {[rspTo |-> t, ver |-> storage[b]]}
          /\ \A c \in Slots : Alike(blocks'[c], blocks[c])
      BY <2>1, <2>3, ReadHitDoes
    <3>2. \A c \in Slots : blocks'[c].IsDirty = blocks[c].IsDirty
      <4>1. blocks \in [Slots -> BlockType]
        BY DEF WInv, WTypes, ArrayTypes
      <4>2. blocks' = [blocks EXCEPT ![b].ReadCount = @ - 1]
        BY <2>3 DEF FinalizeReadHit
      <4> HIDE DEF b
      <4>3. ASSUME NEW c \in Slots PROVE blocks'[c].IsDirty = blocks[c].IsDirty
        <5>1. blocks[c] \in BlockType
          BY <4>1
        <5> QED
          BY <4>1, <4>2, <5>1 DEF BlockType
      <4> QED
        BY <4>3
    <3> QED
      BY <2>2, <3>1, <3>2 DEF OfBank, ReadEnds, LeavesBank
  <2>4. CASE FinalizeWriteHit(t)
    <3>1. b \in Slots
      BY <2>1, <2>4, WriteHitDoes
    <3>2. WriteEnds(t, b)
      BY <2>1, <2>2, <2>4, WriteHitDoes DEF WriteEnds, LeavesBank
    <3> QED
      BY <2>2, <3>1, <3>2 DEF OfBank
  <2>5. CASE FinalizeBankWriteFetched(t)
    <3>1. b \in Slots
      BY <2>1, <2>5, WriteFetchedDoes
    <3>2. LineEnds(t, b)
      BY <2>1, <2>2, <2>5, WriteFetchedDoes DEF LineEnds, LeavesBank
    <3> QED
      BY <2>2, <3>1, <3>2 DEF OfBank
  <2>6. CASE FinalizeBankEviction(t)
    <3>1. OldTaken(t)
      BY <2>1, <2>2, <2>6, EvictionDoes DEF OldTaken, LeavesBank
    <3> QED
      BY <2>2, <3>1 DEF OfBank
  <2> QED
    BY <2>1, <2>3, <2>4, <2>5, <2>6 DEF Finishes
<1> QED
  BY <1>1, <1>2, FinalizeDoes

\* Where a line's first eviction is.
LEMMA LocalIs ==
  ASSUME WTypes, NEW l
  PROVE  /\ LocalEvictions(l) # <<>> =>
              /\ Head(LocalEvictions(l)) \in Evs
              /\ trans[Head(LocalEvictions(l))].evictingAddr = l
         /\ LocalEvictions(l) = <<>> => \A u \in Evs : trans[u].evictingAddr # l
<1> DEFINE s == inflightEviction \o pendingEvictions
           k == {t \in ReqID : trans[t].evictingAddr = l}
           f == Filter(s, k)
<1>1. inflightEviction \in Seq(ReqID) /\ pendingEvictions \in Seq(ReqID)
  BY DEF WTypes, BufferTypes
<1>2. s \in Seq(ReqID) /\ ToSet(s) = Evs
  BY <1>1, SetConcat DEF Evs
<1>3. Evs \in SUBSET ReqID
  BY <1>1, SetOfSeq DEF Evs
<1>4. LocalEvictions(l) = f
  BY DEF LocalEvictions
<1> HIDE DEF s
<1>5. f \in Seq(ReqID) /\ ToSet(f) = ToSet(s) \cap k
  BY <1>2, FilterSet
<1> HIDE DEF f
<1>6. f # <<>> => Head(f) \in ToSet(f)
  BY <1>5, HeadAndRest
<1>7. f = <<>> => ToSet(f) = {}
  BY SetOfEmpty
<1> QED
  BY <1>2, <1>3, <1>4, <1>5, <1>6, <1>7

\* What the write buffer does with what comes to it.
LEMMA BufferKinds ==
  ASSUME WInv, ProcessReturnRsp \/ ProcessNewTransaction
  PROVE  Still \/ Below \/ \E t \in ReqID : OfBuffer(t)
<1>0. WTypes
  BY DEF WInv
<1>1. CASE ProcessReturnRsp
  <2>1. CASE UNCHANGED ReturnRest /\ ProcessWriteDoneRsp
    <3>1. WriteDone /\ UNCHANGED <<spots, contents, reqs, Given>>
      BY <2>1, WriteDoneDoes DEF WriteDone
    <3> QED
      BY <3>1 DEF Below
  <2>2. CASE UNCHANGED ReturnRest /\ ProcessDataReadyRsp
    <3> DEFINE t == Head(bottomIn).of
               v == Head(bottomIn).ver
    <3>1. LineComes(t, v) /\ t \in ReqID /\ v \in Nat
      BY <2>2, DataReadyDoes DEF LineComes
    <3> QED
      BY <3>1 DEF OfBuffer
  <2> QED
    BY <1>1, <2>1, <2>2, ReturnDoes DEF Still
<1>2. CASE UNCHANGED NewRest /\ writeBufferBuffer # <<>> /\ NewGoes(Head(writeBufferBuffer))
  <2> DEFINE t == Head(writeBufferBuffer)
  <2>0. t \in ReqID /\ Line(t) = reqs[t].line
    BY <1>2, NewDoes DEF Line
  <2>1. CASE FetchLocally(t)
    <3> DEFINE u == Head(LocalEvictions(Line(t)))
    <3>1. /\ t \in ReqID /\ t \in Busy /\ AtBuffer = {t} /\ AtBuffer' = {}
          /\ trans[t].action = "writeBufferFetch"
          /\ u \in ReqID /\ LocalEvictions(Line(t)) # <<>>
          /\ Fills(t, evictingData[u], u) /\ evictingData[u] \in Nat
          /\ evictingData'[u] = Combined(t, evictingData[u])
          /\ \A x \in ReqID : x # u => evictingData'[x] = evictingData[x]
          /\ Busy' = Busy
          /\ UNCHANGED NewKept
          /\ UNCHANGED <<bottomOut, inflightFetch, pendingEvictions>>
      BY <1>2, <2>1, FetchLocallyDoes
    <3>2. u \in Evs /\ trans[u].evictingAddr = reqs[t].line
      BY <1>0, <2>0, <3>1, LocalIs
    <3> HIDE DEF u
    <3>3. LineFound(t, u)
      BY <3>1, <3>2 DEF LineFound
    <3> QED
      BY <2>0, <3>1, <3>3 DEF OfBuffer
  <2>2. CASE FetchFromBottom(t)
    <3>1. /\ t \in Busy /\ AtBuffer = {t} /\ AtBuffer' = {}
          /\ trans[t].action = "writeBufferFetch" /\ LocalEvictions(Line(t)) = <<>>
          /\ bottomOut' = Append(bottomOut, [write |-> FALSE, of |-> t, line |-> Line(t)])
          /\ inflightFetch' = inflightFetch \cup {t}
          /\ Busy' = Busy
          /\ UNCHANGED NewKept
          /\ UNCHANGED <<mshr, entry, blocks, trans, evictingData, pendingEvictions>>
      BY <1>2, <2>2, FetchFromBottomDoes
    <3>2. \A u \in Evs : trans[u].evictingAddr # reqs[t].line
      BY <1>0, <2>0, <3>1, LocalIs
    <3>3. LineAsked(t)
      BY <2>0, <3>1, <3>2 DEF LineAsked
    <3> QED
      BY <2>0, <3>3 DEF OfBuffer
  <2>3. CASE EvictAndWrite(t) \/ EvictAndFetch(t)
    <3>1. EvictionHeld(t)
      <4>1. CASE EvictAndWrite(t)
        BY <1>2, <4>1, EvictAndWriteDoes DEF EvictionHeld
      <4>2. CASE EvictAndFetch(t)
        BY <1>2, <4>2, EvictAndFetchDoes DEF EvictionHeld
      <4> QED
        BY <2>3, <4>1, <4>2
    <3> QED
      BY <2>0, <3>1 DEF OfBuffer
  <2> QED
    BY <1>2, <2>1, <2>2, <2>3 DEF NewGoes
<1> QED
  BY <1>1, <1>2, NewTransactionDoes DEF Still

\* What the directory does.
LEMMA DirectoryKinds ==
  ASSUME WInv, ProcessTransaction PROVE Still \/ \E t \in ReqID : OfDirectory(t)
<1>1. CASE \E t \in ReqID : Takes(t) /\ Finds(t)
  <2>1. PICK t \in ReqID : Takes(t) /\ Finds(t)
    BY <1>1
  <2>0. Line(t) = reqs[t].line /\ mshr \in SUBSET ReqID
    BY DEF Line, WInv, WTypes, ArrayTypes
  <2>2. /\ t = Taken + 1 /\ Taken' = t /\ t \notin Busy /\ t =< Len(reqs)
        /\ UNCHANGED DirKept
    BY <2>1, TakesDoes
  <2>3. CASE JoinEntry(t)
    <3>1. /\ AtBank' = AtBank /\ Busy' = Busy
          /\ UNCHANGED <<blocks, mshr, evictingList>>
          /\ \A u \in ReqID : u # t => trans'[u] = trans[u]
          /\ \E e \in mshr : /\ Line(e) = Line(t) /\ e \in ReqID
                             /\ SameData(entry, entry')
                             /\ entry[e].requests \in Seq(ReqID)
                             /\ entry'[e].requests = Append(entry[e].requests, t)
                             /\ \A u \in ReqID : u # e =>
                                  entry'[u].requests = entry[u].requests
      BY <2>1, <2>3, JoinDoes
    <3>2. PICK e \in mshr : /\ Line(e) = Line(t) /\ e \in ReqID
                            /\ SameData(entry, entry')
                            /\ entry[e].requests \in Seq(ReqID)
                            /\ entry'[e].requests = Append(entry[e].requests, t)
                            /\ \A u \in ReqID : u # e =>
                                 entry'[u].requests = entry[u].requests
      BY <3>1
    <3>3. reqs[e].line = reqs[t].line
      BY <3>2 DEF Line
    <3>4. Joins(t, e)
      BY <2>2, <3>1, <3>2, <3>3 DEF Joins, NextTaken
    <3> QED
      BY <3>2, <3>4 DEF OfDirectory
  <2>4. CASE ReadFromBank(t)
    <3> DEFINE b == trans'[t].block
    <3>1. /\ AtBank' = AtBank \cup {t} /\ Busy' = Busy \cup {t}
          /\ UNCHANGED <<entry, mshr, evictingList>>
          /\ \A u \in ReqID : u # t => trans'[u] = trans[u]
          /\ trans'[t].action = "bankReadHit" /\ ~Write(t)
          /\ b \in Lookup(Line(t)) /\ b \in Slots
          /\ ~blocks[b].IsLocked
          /\ \A c \in Slots : /\ Alike(blocks'[c], blocks[c])
                              /\ blocks'[c].IsDirty = blocks[c].IsDirty
      BY <2>1, <2>4, ReadDoes
    <3>2. blocks[b].IsValid /\ blocks[b].Tag = reqs[t].line /\ ~reqs[t].write
      BY <2>0, <3>1 DEF Lookup, Write
    <3>3. ReadsBlock(t, b)
      BY <2>2, <3>1, <3>2 DEF ReadsBlock, NextTaken
    <3> HIDE DEF b
    <3> QED
      BY <3>1, <3>3 DEF OfDirectory
  <2>5. ASSUME NEW b \in Slots, Owns(t, b), OwnsFor(t, b) PROVE OwnsBlock(t, b)
    <3>1. /\ AtBank' = AtBank \cup {t} /\ Busy' = Busy \cup {t}
          /\ \A u \in ReqID : u # t => trans'[u] = trans[u] /\ entry'[u] = entry[u]
          /\ trans'[t].block = b
          /\ Claimable(b, reqs[t].line, blocks, evictingList)
          /\ Claimed(b, reqs[t].line, blocks, blocks')
          /\ Leaves(trans'[t], reqs[t].line, blocks[b], evictingList, evictingList')
          /\ mshr' = mshr \cup (IF trans'[t].action \in Fetching THEN {t} ELSE {})
      BY <2>1, <2>5, OwnDoes
    <3> QED
      BY <2>2, <2>5, <3>1 DEF OwnsBlock, NextTaken
  <2>6. CASE \E b \in Slots : ForLine(t, b) /\ Spares(t, b) /\ WriteToBank(t, b)
    <3>1. PICK b \in Slots : ForLine(t, b) /\ Spares(t, b) /\ WriteToBank(t, b)
      BY <2>6
    <3>2. Owns(t, b) /\ OwnsFor(t, b)
      BY <2>1, <3>1, WriteDoes DEF OwnsFor
    <3> QED
      BY <2>5, <3>2 DEF OfDirectory
  <2>7. CASE /\ Lookup(Line(t)) = {}
             /\ \E b \in SetOf[Line(t)] : Evict(t, b) \/ (~FullLine(t) /\ Fetch(t, b))
    <3>1. PICK b \in SetOf[Line(t)] : Evict(t, b) \/ (~FullLine(t) /\ Fetch(t, b))
      BY <2>7
    <3>2. b \in Slots /\ Owns(t, b) /\ OwnsFor(t, b)
      <4>1. CASE Evict(t, b)
        BY <2>1, <2>7, <4>1, EvictDoes DEF OwnsFor
      <4>2. CASE Fetch(t, b)
        BY <2>1, <2>7, <4>2, FetchDoes DEF OwnsFor
      <4> QED
        BY <3>1, <4>1, <4>2
    <3> QED
      BY <2>5, <3>2 DEF OfDirectory
  <2> QED
    BY <2>1, <2>3, <2>4, <2>6, <2>7 DEF Finds
<1> QED
  BY <1>1, DirectoryDoes DEF Still

\* Every step is of one of the kinds.
LEMMA StepKinds == WInv /\ [Next]_vars => Kind
<1> SUFFICES ASSUME WInv, [Next]_vars PROVE Kind
  OBVIOUS
<1>1. CASE UNCHANGED vars
  <2>1. UNCHANGED <<spots, contents, messages, reqs, Given>>
    BY <1>1 DEF vars, ticker, top, low, dir, bank, toBank, buffer, misses, respond, array,
                work, outside, spots, contents, messages, Given, AtBank, InBank, AtBuffer,
                GoingBack, Filled, Taken
  <2> QED
    BY <2>1 DEF Still, Kind
<1>2. CASE Tick \/ BankPipeline \/ AcceptNewTransaction \/ TopParser \/ TopCollect
  BY <1>2, TickIsQuiet, BankPipelineIsQuiet, AcceptIsQuiet, TopParserIsQuiet, CollectIsQuiet
     DEF Still, Kind
<1>3. CASE MshrStage
  <2>1. Answering
    BY <1>3, MshrDoes DEF Answering
  <2> QED
    BY <2>1 DEF Kind
<1>4. CASE FinalizeTrans
  BY <1>4, BankKinds DEF Kind, StepOf
<1>5. CASE PullFromBuf
  <2>1. Pulled
    BY <1>5, PullDoes DEF Pulled
  <2> QED
    BY <2>1 DEF Kind
<1>6. CASE WriteStage \/ LowAccept \/ LowRespond
  <2>1. UNCHANGED <<spots, contents, reqs, Given>>
    BY <1>6, BelowDoes
  <2>2. CASE WriteStage
    <3>1. UNCHANGED messages \/ EvictionSent
      BY <2>2 DEF WriteStage, messages, EvictionSent, outside
    <3> QED
      BY <2>1, <3>1 DEF Kind, Still, Below
  <2>3. CASE LowAccept
    <3>1. MessageSent
      BY <2>3 DEF LowAccept, Between, buffer, MessageSent
    <3> QED
      BY <2>1, <3>1 DEF Kind, Below
  <2>4. CASE LowRespond
    <3>1. MessageServed
      BY <2>4 DEF LowRespond, Between, buffer, MessageServed
    <3> QED
      BY <2>1, <3>1 DEF Kind, Below
  <2> QED
    BY <1>6, <2>2, <2>3, <2>4
<1>7. CASE ProcessReturnRsp \/ ProcessNewTransaction
  BY <1>7, BufferKinds DEF Kind, StepOf
<1>8. CASE ProcessTransaction
  BY <1>8, DirectoryKinds DEF Kind, StepOf
<1>9. CASE \E i \in ReqID : \E r \in Script[i] : TopDeliver(r)
  <2>1. PICK r : TopDeliver(r)
    BY <1>9
  <2>2. Comes(r)
    BY <2>1, DeliverDoes DEF Comes
  <2> QED
    BY <2>2 DEF Kind
<1> QED
  BY <1>1, <1>2, <1>3, <1>4, <1>5, <1>6, <1>7, <1>8, <1>9 DEF Next, Component

(***************************************************************************)
(* The writes done, and who is alone with a line                           *)
(***************************************************************************)
\* The story of the blocks, with the transactions at work as one set.
LEMMA StoryNow ==
  WInv => /\ HoldsBlock(Busy, trans, blocks, reqs) /\ OneOwner(Busy, trans)
          /\ LocksOwned(Busy, trans, blocks) /\ ReadsCounted(Busy, trans, blocks)
          /\ EntriesOpen(Busy, trans, entry, mshr) /\ TagsApart(blocks)
          /\ LeavingListed(Busy, trans, blocks, evictingList)
BY BusyIs DEF WInv, WorldInv, World, Story

\* No transaction is in two places.
LEMMA PlacesNow ==
  WInv => /\ Busy \cap Filled = {} /\ mshr \cap Filled = {}
          /\ Filled \in SUBSET (1 .. Taken) /\ 1 .. Taken \in SUBSET ReqID
          /\ mshr \in SUBSET Busy
<1> SUFFICES ASSUME WInv
             PROVE  /\ Busy \cap Filled = {} /\ mshr \cap Filled = {}
                    /\ Filled \in SUBSET (1 .. Taken) /\ 1 .. Taken \in SUBSET ReqID
                    /\ mshr \in SUBSET Busy
  OBVIOUS
<1>1. /\ Taken \in 0 .. MaxReqs
      /\ Places(AtBank, InBank, AtBuffer, GoingBack, inflightFetch, Filled, Taken)
  BY DEF WInv, WorldInv, World
<1>2. Busy \cap Filled = {} /\ Filled \in SUBSET (1 .. Taken)
  BY <1>1, BusyIs DEF Places, All
<1>3. mshr \in SUBSET Busy
  BY StoryNow DEF EntriesOpen
<1>4. 1 .. Taken \in SUBSET ReqID
  BY <1>1, WritebackAssumption DEF ReqID
<1> QED
  BY <1>2, <1>3, <1>4

\* Requests and transactions keep their lines.
Ages ==
  /\ Taken \in Nat /\ Taken' \in {Taken, Taken + 1}
  /\ \A u \in 1 .. Taken : /\ reqs'[u] = reqs[u]
                           /\ trans'[u].evictingAddr = trans[u].evictingAddr
                           /\ Past(trans, u) => Past(trans', u)

\* Every step keeps them.
LEMMA StepAges == WInv /\ Kind => Ages
<1> SUFFICES ASSUME WInv, Kind PROVE Ages
  OBVIOUS
<1>0. Taken \in Nat /\ Busy \in SUBSET (1 .. Taken) /\ 1 .. Taken \in SUBSET ReqID
  BY BusyTyped, PlacesNow
<1>1. CASE Still \/ Below \/ Pulled \/ Answering
  <2>1. UNCHANGED <<Taken, reqs, trans>>
    BY <1>1 DEF Still, Below, Pulled, Answering, spots, contents
  <2> QED
    BY <1>0, <2>1 DEF Ages, Past
<1>2. CASE \E r : Comes(r)
  <2>1. UNCHANGED <<Taken, trans>> /\ \A u \in 1 .. Len(reqs) : reqs'[u] = reqs[u]
    BY <1>2 DEF Comes, spots, contents
  <2>2. Len(reqs) \in Nat /\ Taken =< Len(reqs)
    BY <1>2 DEF Comes
  <2>3. 1 .. Taken \in SUBSET (1 .. Len(reqs))
    BY <1>0, <2>2
  <2> QED
    BY <1>0, <2>1, <2>3 DEF Ages, Past
<1>3. CASE StepOf
  <2>1. PICK t \in ReqID : OfBank(t) \/ OfBuffer(t) \/ OfDirectory(t)
    BY <1>3 DEF StepOf
  <2>2. CASE OfBank(t)
    <3>1. UNCHANGED <<Taken, reqs>>
      BY <2>2 DEF OfBank, ReadEnds, WriteEnds, LineEnds, OldTaken, LeavesBank
    <3>2. CASE UNCHANGED trans
      BY <1>0, <3>1, <3>2 DEF Ages, Past
    <3>3. CASE OldTaken(t)
      <4>1. OnlyAction(t, trans, trans') /\ ~Past(trans, t)
        BY <3>3 DEF OldTaken, Past
      <4>2. \A u \in ReqID : /\ trans'[u].evictingAddr = trans[u].evictingAddr
                             /\ Past(trans, u) => Past(trans', u)
        BY <4>1 DEF OnlyAction, Past
      <4> QED
        BY <1>0, <3>1, <4>2 DEF Ages
    <3> QED
      BY <2>2, <3>2, <3>3 DEF OfBank, ReadEnds, WriteEnds, LineEnds
  <2>3. CASE OfBuffer(t)
    <3>1. UNCHANGED <<Taken, reqs>>
      BY <2>3 DEF OfBuffer, LineComes, LineFound, LineAsked, EvictionHeld, NewKept
    <3>2. CASE UNCHANGED trans
      BY <1>0, <3>1, <3>2 DEF Ages, Past
    <3>3. CASE /\ OnlyAction(t, trans, trans')
               /\ trans'[t].action \in {"bankWriteFetched", "bankWriteHit", "writeBufferFetch"}
      <4>1. Past(trans', t)
        BY <3>3 DEF Past, Evicting, Departs
      <4>2. \A u \in ReqID : /\ trans'[u].evictingAddr = trans[u].evictingAddr
                             /\ Past(trans, u) => Past(trans', u)
        BY <3>3, <4>1 DEF OnlyAction, Past
      <4> QED
        BY <1>0, <3>1, <4>2 DEF Ages
    <3> QED
      BY <2>3, <3>2, <3>3 DEF OfBuffer, LineComes, LineFound, LineAsked, EvictionHeld, Fills
  <2>4. CASE OfDirectory(t)
    <3>1. NextTaken(t)
      BY <2>4 DEF OfDirectory, Joins, ReadsBlock, OwnsBlock
    <3>2. /\ t = Taken + 1 /\ Taken' = t /\ reqs' = reqs
          /\ \A u \in ReqID : u # t => trans'[u] = trans[u]
      BY <3>1 DEF NextTaken, DirKept
    <3>3. \A u \in 1 .. Taken : trans'[u] = trans[u]
      BY <1>0, <3>2
    <3> QED
      BY <1>0, <3>2, <3>3 DEF Ages, Past
  <2> QED
    BY <2>1, <2>2, <2>3, <2>4
<1> QED
  BY <1>1, <1>2, <1>3 DEF Kind

\* A transaction that does more than read is alone with its line, ...
LEMMA SoleOfLine ==
  ASSUME WInv, NEW t \in Busy, ~Reader(trans, t), NEW u \in Busy,
         reqs[u].line = reqs[t].line
  PROVE  u = t
<1>1. /\ HoldsBlock(Busy, trans, blocks, reqs) /\ OneOwner(Busy, trans) /\ TagsApart(blocks)
  BY StoryNow
<1>2. trans[u].block = trans[t].block
  BY <1>1 DEF HoldsBlock, TagsApart
<1>3. ~Reader(trans, u)
  BY <1>1, <1>2 DEF HoldsBlock
<1> QED
  BY <1>1, <1>2, <1>3 DEF OneOwner

\* ... but for the requests its entry lists.
LEMMA SoleUnderWay ==
  ASSUME WInv, LinesInv, NEW t \in Busy, ~Reader(trans, t), NEW u \in UnderWay,
         reqs[u].line = reqs[t].line
  PROVE  u = t \/ (t \in mshr /\ u \in ToSet(entry[t].requests))
<1>1. CASE u \in DirectNow
  <2>1. u \in Busy
    BY <1>1 DEF DirectNow, DirectOf
  <2> QED
    BY <2>1, SoleOfLine
<1>2. CASE u \in Listed
  <2>1. PICK e \in mshr : u \in ToSet(entry[e].requests)
    BY <1>2 DEF Listed
  <2>2. e \in Busy /\ e \in ReqID
    BY PlacesNow, BusyTyped
  <2>3. reqs[e].line = reqs[t].line
    BY <2>1, <2>2 DEF LinesInv
  <2>4. e = t
    BY <2>2, <2>3, SoleOfLine
  <2> QED
    BY <2>1, <2>4
<1> QED
  BY <1>1, <1>2 DEF UnderWay

\* A read at the bank is a read.
ReadersInv == \A t \in Busy : Reader(trans, t) => ~reqs[t].write

\* The requests processed were sent.
LEMMA TakenSent ==
  WInv => /\ Taken =< Len(reqs) /\ Taken \in Nat /\ Len(reqs) \in Nat
          /\ DOMAIN reqs = 1 .. Len(reqs)
          /\ \A t \in 1 .. Len(reqs) : reqs[t] \in Request
          /\ 1 .. Taken \in SUBSET (1 .. Len(reqs))
<1> SUFFICES ASSUME WInv
             PROVE  /\ Taken =< Len(reqs) /\ Taken \in Nat /\ Len(reqs) \in Nat
                    /\ DOMAIN reqs = 1 .. Len(reqs)
                    /\ \A t \in 1 .. Len(reqs) : reqs[t] \in Request
                    /\ 1 .. Taken \in SUBSET (1 .. Len(reqs))
  OBVIOUS
<1>1. /\ reqs \in Seq(Request) /\ topIn \in Seq(ReqID) /\ dirBuf \in Seq(ReqID)
      /\ dirStageBuffer \in Seq(ReqID)
  BY DEF WInv, WTypes, PortTypes, StageTypes, Single
<1>2. Taken = Len(reqs) - Len(topIn) - Len(dirStageBuffer) - Len(dirBuf)
  BY DEF Taken, TakenOf
<1>3. /\ Len(reqs) \in Nat /\ Len(topIn) \in Nat /\ Len(dirStageBuffer) \in Nat
      /\ Len(dirBuf) \in Nat /\ DOMAIN reqs = 1 .. Len(reqs)
  BY <1>1, LenProperties
<1>4. \A t \in 1 .. Len(reqs) : reqs[t] \in Request
  BY <1>1, <1>3, ElementOfSeq
<1>5. Taken =< Len(reqs) /\ Taken \in Nat
  BY <1>2, <1>3, BusyTyped
<1>6. 1 .. Taken \in SUBSET (1 .. Len(reqs))
  BY <1>3, <1>5
<1> QED
  BY <1>3, <1>4, <1>5, <1>6

\* The writes an entry lists, as a set.
ListedWrites(t) == ToSet(WaitingWrites(t))
\* They are writes on the list, which the directory has taken.
LEMMA ListedWritesAre ==
  ASSUME WInv, LedgerInv, NEW t \in ReqID
  PROVE  /\ WaitingWrites(t) \in Seq(ReqID)
         /\ ListedWrites(t) = {w \in ToSet(entry[t].requests) : reqs[w].write}
         /\ ToSet(entry[t].requests) \in SUBSET (1 .. Taken)
         /\ WaitingWrites(t) = <<>> <=> ListedWrites(t) = {}
<1> DEFINE s == entry[t].requests
           k == {w \in DOMAIN reqs : Write(w)}
           f == Filter(s, k)
<1>1. s \in Seq(ReqID)
  BY DEF WInv, WTypes, ArrayTypes, EntryType
<1>2. WaitingWrites(t) = f
  BY DEF WaitingWrites
<1>3. ToSet(s) \in SUBSET (1 .. Taken)
  <2>1. Ledger(DirectOf(Busy, trans), Taken, ListsOf(entry), Given)
    BY DEF LedgerInv
  <2>2. ListsOf(entry)[t] = ToSet(s)
    BY DEF ListsOf
  <2> HIDE DEF s
  <2> QED
    BY <2>1, <2>2 DEF Ledger
<1>4. Taken =< Len(reqs) /\ DOMAIN reqs = 1 .. Len(reqs) /\ Len(reqs) \in Nat /\ Taken \in Nat
  BY TakenSent
<1> HIDE DEF s, k
<1>5. f \in Seq(ReqID) /\ ToSet(f) = ToSet(s) \cap k
  BY <1>1, FilterSet
<1> HIDE DEF f
<1>6. ToSet(f) = {w \in ToSet(s) : reqs[w].write}
  BY <1>3, <1>4, <1>5 DEF k, Write
<1>7. f = <<>> <=> ToSet(f) = {}
  <2>1. f # <<>> => Head(f) \in ToSet(f)
    BY <1>5, HeadAndRest
  <2> QED
    BY <2>1, SetOfEmpty
<1> QED
  BY <1>2, <1>3, <1>5, <1>6, <1>7 DEF s, ListedWrites

\* Writes are done when the bank has written them, or when the line they wait for comes.
DoneStays == Done' = Done /\ \A u \in UnderWay' : u \in UnderWay \/ u > Taken
DoneGrows(S) ==
  Done \subseteq Done' /\ Done' \subseteq Done \cup S /\ UnderWay' \subseteq UnderWay

\* Nothing is done when what is under way stays so.
LEMMA SameUnderWay ==
  ASSUME Ages, Taken' = Taken, UnderWay' = UnderWay PROVE DoneStays
BY DEF DoneStays, Ages, Done, DoneOf

\* The directory takes a request.
LEMMA OneMoreUnderWay ==
  ASSUME Ages, NEW t, t = Taken + 1, Taken' = t, UnderWay' = UnderWay \cup {t}
  PROVE  DoneStays
<1>1. Taken \in Nat /\ \A u \in 1 .. Taken : reqs'[u] = reqs[u]
  BY DEF Ages
<1>2. t > Taken
  BY <1>1
<1>3. 1 .. t = (1 .. Taken) \cup {t}
  BY <1>1
<1>4. (1 .. t) \ (UnderWay \cup {t}) = (1 .. Taken) \ UnderWay
  BY <1>1, <1>3
<1>5. DoneOf(UnderWay \cup {t}, t, reqs') = DoneOf(UnderWay, Taken, reqs)
  BY <1>1, <1>4 DEF DoneOf
<1> QED
  BY <1>2, <1>5 DEF DoneStays, Done

\* Every step does one of these.
LEMMA StepDone ==
  ASSUME WInv, LedgerInv, ReadersInv, Kind
  PROVE  \/ DoneStays
         \/ \E t \in ReqID, b \in Slots : WriteEnds(t, b) /\ DoneGrows({t})
         \/ \E t \in ReqID : /\ \/ \E v \in Nat : LineComes(t, v)
                                \/ \E u \in ReqID : LineFound(t, u)
                             /\ DoneGrows(ListedWrites(t))
<1>0. Ages
  BY StepAges
<1>a. /\ Taken \in Nat /\ Busy \in SUBSET (1 .. Taken) /\ 1 .. Taken \in SUBSET ReqID
      /\ mshr \in SUBSET Busy /\ mshr \cap Filled = {}
  BY BusyTyped, PlacesNow
<1>1. CASE Still \/ (\E r : Comes(r)) \/ Below \/ Pulled
  <2>1. UNCHANGED <<Taken, trans, entry, mshr>>
    BY <1>1 DEF Still, Comes, Below, Pulled, spots, contents
  <2>2. Busy' = Busy
    BY <1>1, BusyKept DEF Still, Comes, Below, Pulled
  <2>3. UnderWay' = UnderWay
    BY <2>1, <2>2 DEF UnderWay, DirectNow, Listed
  <2> QED
    BY <1>0, <2>1, <2>3, SameUnderWay
<1>2. CASE Answering
  <2>1. UNCHANGED <<Taken, trans, mshr, Busy>>
    BY <1>2 DEF Answering
  <2>2. \A e \in mshr : entry'[e].requests = entry[e].requests
    BY <1>2, <1>a DEF Answering, AnswersOf
  <2>3. Listed' = Listed
    BY <2>1, <2>2 DEF Listed
  <2>4. UnderWay' = UnderWay
    BY <2>1, <2>3 DEF UnderWay, DirectNow
  <2> QED
    BY <1>0, <2>1, <2>4, SameUnderWay
<1>3. ASSUME NEW t \in ReqID, ReadEnds(t) PROVE DoneStays
  <2>1. UNCHANGED <<Taken, reqs, entry, mshr, trans>> /\ Busy' = Busy \ {t} /\ t \in Busy
    BY <1>3 DEF ReadEnds, LeavesBank
  <2>2. DirectNow' = DirectNow \ {t} /\ Listed' = Listed
    BY <2>1, DirectLeft DEF Listed
  <2>3. ~reqs[t].write
    BY <1>3, <2>1 DEF ReadersInv, Reader, ReadEnds
  <2>4. UnderWay' \subseteq UnderWay /\ UnderWay \subseteq UnderWay' \cup {t}
    BY <2>2 DEF UnderWay
  <2>5. Done' = Done
    BY <2>1, <2>3, <2>4 DEF Done, DoneOf
  <2> QED
    BY <2>4, <2>5 DEF DoneStays
<1>4. ASSUME NEW t \in ReqID, NEW b \in Slots, WriteEnds(t, b) PROVE DoneGrows({t})
  <2>1. UNCHANGED <<Taken, reqs, entry, mshr, trans>> /\ Busy' = Busy \ {t} /\ t \in Busy
    BY <1>4 DEF WriteEnds, LeavesBank
  <2>2. DirectNow' = DirectNow \ {t} /\ Listed' = Listed
    BY <2>1, DirectLeft DEF Listed
  <2>3. UnderWay' \subseteq UnderWay /\ UnderWay \subseteq UnderWay' \cup {t}
    BY <2>2 DEF UnderWay
  <2> QED
    BY <2>1, <2>3 DEF DoneGrows, Done, DoneOf
<1>5. ASSUME NEW t \in ReqID, NEW b \in Slots, LineEnds(t, b) PROVE DoneStays
  <2>1. UNCHANGED <<Taken, reqs, entry, mshr, trans>> /\ Busy' = Busy \ {t} /\ t \in Busy
        /\ trans[t].action = "bankWriteFetched"
    BY <1>5 DEF LineEnds, LeavesBank
  <2>2. DirectNow' = DirectNow \ {t} /\ Listed' = Listed
    BY <2>1, DirectLeft DEF Listed
  <2>3. t \notin DirectNow
    BY <2>1 DEF DirectNow, DirectOf, DirectActions
  <2>4. UnderWay' = UnderWay
    BY <2>2, <2>3 DEF UnderWay
  <2> QED
    BY <1>0, <2>1, <2>4, SameUnderWay
<1>6. ASSUME NEW t \in ReqID, OldTaken(t) PROVE DoneStays
  <2>1. /\ UNCHANGED <<Taken, entry, mshr, Busy>> /\ OnlyAction(t, trans, trans')
        /\ trans[t].action \in Evicting
        /\ trans'[t].action = (IF trans[t].action = "bankEvictAndFetch"
                                 THEN "writeBufferEvictAndFetch"
                                 ELSE "writeBufferEvictAndWrite")
    BY <1>6 DEF OldTaken, LeavesBank
  <2>2. trans[t].action \in DirectActions <=> trans'[t].action \in DirectActions
    BY <2>1 DEF Evicting, DirectActions
  <2>3. DirectNow' = DirectNow
    BY <2>1, <2>2, DirectGoesOn
  <2>4. UnderWay' = UnderWay
    BY <2>1, <2>3 DEF UnderWay, Listed
  <2> QED
    BY <1>0, <2>1, <2>4, SameUnderWay
<1>7. ASSUME NEW t \in ReqID, NEW v, NEW s, Fills(t, v, s), trans[t].action = "writeBufferFetch",
             UNCHANGED <<Busy, Taken, reqs>>
      PROVE  DoneGrows(ListedWrites(t))
  <2>1. /\ OnlyAction(t, trans, trans') /\ trans'[t].action = "bankWriteFetched"
        /\ mshr' = mshr \ {t} /\ SameEntries(entry, entry')
    BY <1>7 DEF Fills
  <2>2. trans[t].action \in DirectActions <=> trans'[t].action \in DirectActions
    BY <1>7, <2>1 DEF DirectActions
  <2>3. DirectNow' = DirectNow
    BY <1>7, <2>1, <2>2, DirectGoesOn
  <2>4. mshr \in SUBSET ReqID
    BY <1>a
  <2>5. \A e \in mshr : entry'[e].requests = entry[e].requests
    BY <2>1, <2>4 DEF SameEntries
  <2>6. Listed' \subseteq Listed /\ Listed \subseteq Listed' \cup ToSet(entry[t].requests)
    BY <2>1, <2>5 DEF Listed
  <2>7. UnderWay' \subseteq UnderWay /\ UnderWay \subseteq UnderWay' \cup ToSet(entry[t].requests)
    BY <2>3, <2>6 DEF UnderWay
  <2>8. ListedWrites(t) = {w \in ToSet(entry[t].requests) : reqs[w].write}
    BY ListedWritesAre
  <2>9. Done \subseteq Done'
    BY <1>7, <2>7 DEF Done, DoneOf
  <2>10. Done' \subseteq Done \cup ListedWrites(t)
    BY <1>7, <2>7, <2>8 DEF Done, DoneOf
  <2> QED
    BY <2>7, <2>9, <2>10 DEF DoneGrows
<1>8. ASSUME NEW t \in ReqID, NEW v \in Nat, LineComes(t, v) PROVE DoneGrows(ListedWrites(t))
  <2>1. Fills(t, v, 0) /\ trans[t].action = "writeBufferFetch" /\ UNCHANGED <<Busy, Taken, reqs>>
    BY <1>8 DEF LineComes
  <2> QED
    BY <2>1, <1>7
<1>9. ASSUME NEW t \in ReqID, NEW u \in ReqID, LineFound(t, u) PROVE DoneGrows(ListedWrites(t))
  <2>1. /\ Fills(t, evictingData[u], u) /\ trans[t].action = "writeBufferFetch"
        /\ UNCHANGED <<Busy, Taken, reqs>>
    BY <1>9 DEF LineFound, NewKept
  <2> QED
    BY <2>1, <1>7
<1>10. ASSUME NEW t \in ReqID, LineAsked(t) PROVE DoneStays
  <2>1. UNCHANGED <<Busy, Taken, trans, entry, mshr>>
    BY <1>10 DEF LineAsked, NewKept
  <2>2. UnderWay' = UnderWay
    BY <2>1 DEF UnderWay, DirectNow, Listed
  <2> QED
    BY <1>0, <2>1, <2>2, SameUnderWay
<1>11. ASSUME NEW t \in ReqID, EvictionHeld(t) PROVE DoneStays
  <2>1. UNCHANGED <<Busy, Taken, entry, mshr>> /\ OnlyAction(t, trans, trans')
    BY <1>11 DEF EvictionHeld, NewKept
  <2>2. trans[t].action \in DirectActions <=> trans'[t].action \in DirectActions
    BY <1>11 DEF EvictionHeld, DirectActions
  <2>3. DirectNow' = DirectNow
    BY <2>1, <2>2, DirectGoesOn
  <2>4. UnderWay' = UnderWay
    BY <2>1, <2>3 DEF UnderWay, Listed
  <2> QED
    BY <1>0, <2>1, <2>4, SameUnderWay
<1>12. ASSUME NEW t \in ReqID, NextTaken(t), UnderWay' = UnderWay \cup {t} PROVE DoneStays
  <2>1. t = Taken + 1 /\ Taken' = t
    BY <1>12 DEF NextTaken
  <2> QED
    BY <1>0, <1>12, <2>1, OneMoreUnderWay
<1>13. ASSUME NEW t \in ReqID, NEW e \in ReqID, Joins(t, e) PROVE DoneStays
  <2>1. /\ NextTaken(t) /\ Busy' = Busy /\ mshr' = mshr /\ e \in mshr
        /\ entry[e].requests \in Seq(ReqID)
        /\ entry'[e].requests = Append(entry[e].requests, t)
        /\ \A u \in ReqID : u # e => entry'[u].requests = entry[u].requests
    BY <1>13 DEF Joins
  <2>2. t \notin Busy /\ \A u \in ReqID : u # t => trans'[u] = trans[u]
    BY <2>1 DEF NextTaken
  <2>3. \A u \in Busy : trans'[u] = trans[u]
    BY <1>a, <2>2
  <2>4. DirectNow' = DirectNow
    BY <2>1, <2>3 DEF DirectNow, DirectOf
  <2>5. ToSet(entry'[e].requests) = ToSet(entry[e].requests) \cup {t}
    BY <2>1, SetAppended
  <2>6. \A f \in mshr : f # e => entry'[f].requests = entry[f].requests
    BY <1>a, <2>1
  <2>7. Listed' = Listed \cup {t}
    <3>1. /\ Listed = UNION {ToSet(entry[f].requests) : f \in mshr}
          /\ Listed' = UNION {ToSet(entry'[f].requests) : f \in mshr}
      BY <2>1 DEF Listed
    <3>2. ASSUME NEW x PROVE x \in Listed' <=> x \in Listed \cup {t}
      <4>1. ASSUME x \in Listed' PROVE x \in Listed \cup {t}
        <5>1. PICK f \in mshr : x \in ToSet(entry'[f].requests)
          BY <3>1, <4>1
        <5>2. x \in ToSet(entry[f].requests) \cup {t}
          BY <2>5, <2>6, <5>1
        <5> QED
          BY <3>1, <5>1, <5>2
      <4>2. ASSUME x \in Listed PROVE x \in Listed'
        <5>1. PICK f \in mshr : x \in ToSet(entry[f].requests)
          BY <3>1, <4>2
        <5>2. x \in ToSet(entry'[f].requests)
          BY <2>5, <2>6, <5>1
        <5> QED
          BY <3>1, <5>1, <5>2
      <4>3. t \in ToSet(entry'[e].requests)
        BY <2>5
      <4>4. t \in Listed'
        BY <2>1, <3>1, <4>3
      <4> QED
        BY <4>1, <4>2, <4>4
    <3> QED
      BY <3>2
  <2>8. UnderWay' = UnderWay \cup {t}
    BY <2>4, <2>7 DEF UnderWay
  <2> QED
    BY <2>1, <2>8, <1>12
<1>14. ASSUME NEW t \in ReqID, NEW b \in Slots, ReadsBlock(t, b) PROVE DoneStays
  <2>1. /\ NextTaken(t) /\ Busy' = Busy \cup {t} /\ UNCHANGED <<entry, mshr>>
        /\ trans'[t].action = "bankReadHit"
    BY <1>14 DEF ReadsBlock
  <2>2. t \notin Busy /\ \A u \in ReqID : u # t => trans'[u] = trans[u]
    BY <2>1 DEF NextTaken
  <2>3. DirectNow' = DirectNow \cup {t}
    BY <2>1, <2>2, DirectComes DEF DirectActions
  <2>4. UnderWay' = UnderWay \cup {t}
    BY <2>1, <2>3 DEF UnderWay, Listed
  <2> QED
    BY <2>1, <2>4, <1>12
<1>15. ASSUME NEW t \in ReqID, NEW b \in Slots, OwnsBlock(t, b) PROVE DoneStays
  <2>1. /\ NextTaken(t) /\ Busy' = Busy \cup {t}
        /\ \A u \in ReqID : u # t => entry'[u] = entry[u]
        /\ mshr' = mshr \cup (IF trans'[t].action \in Fetching THEN {t} ELSE {})
        /\ OwnsFor(t, b)
    BY <1>15 DEF OwnsBlock
  <2>2. t \notin Busy /\ \A u \in ReqID : u # t => trans'[u] = trans[u]
    BY <2>1 DEF NextTaken
  <2>3. DirectNow' = DirectNow \cup (IF trans'[t].action \in DirectActions THEN {t} ELSE {})
    BY <2>1, <2>2, DirectComes
  <2>4. t \notin mshr /\ \A e \in mshr : entry'[e] = entry[e]
    BY <1>a, <2>1, <2>2
  <2>5. CASE trans'[t].action \in {"bankWriteHit", "bankEvictAndWrite"}
    <3>1. DirectNow' = DirectNow \cup {t} /\ mshr' = mshr
      BY <2>1, <2>3, <2>5 DEF DirectActions, Fetching
    <3>2. Listed' = Listed
      BY <2>4, <3>1 DEF Listed
    <3>3. UnderWay' = UnderWay \cup {t}
      BY <3>1, <3>2 DEF UnderWay
    <3> QED
      BY <2>1, <3>3, <1>12
  <2>6. CASE /\ trans'[t].action \in {"bankEvictAndFetch", "writeBufferFetch"}
             /\ entry'[t].requests = <<t>>
    <3>1. DirectNow' = DirectNow /\ mshr' = mshr \cup {t}
      BY <2>1, <2>3, <2>6 DEF DirectActions, Fetching
    <3>2. ToSet(entry'[t].requests) = {t}
      <4>1. <<t>> \in Seq(ReqID) /\ <<t>> # <<>> /\ Head(<<t>>) = t /\ Tail(<<t>>) = <<>>
        OBVIOUS
      <4>2. ToSet(<<t>>) = {t} \cup {}
        BY <4>1, HeadAndRest, SetOfEmpty
      <4> QED
        BY <2>6, <4>2
    <3>3. Listed' = Listed \cup {t}
      BY <2>4, <3>1, <3>2 DEF Listed
    <3>4. UnderWay' = UnderWay \cup {t}
      BY <3>1, <3>3 DEF UnderWay
    <3> QED
      BY <2>1, <3>4, <1>12
  <2> QED
    BY <2>1, <2>5, <2>6 DEF OwnsFor
<1>16. CASE StepOf
  <2>1. PICK t \in ReqID : OfBank(t) \/ OfBuffer(t) \/ OfDirectory(t)
    BY <1>16 DEF StepOf
  <2>2. CASE OfBank(t)
    BY <2>2, <1>3, <1>4, <1>5, <1>6 DEF OfBank
  <2>3. CASE OfBuffer(t)
    BY <2>3, <1>8, <1>9, <1>10, <1>11 DEF OfBuffer
  <2>4. CASE OfDirectory(t)
    BY <2>4, <1>13, <1>14, <1>15 DEF OfDirectory
  <2> QED
    BY <2>1, <2>2, <2>3, <2>4
<1> QED
  BY <1>1, <1>2, <1>16 DEF Kind

(***************************************************************************)
(* The writes below                                                        *)
(***************************************************************************)
\* A list of messages gets another one, which writes for a transaction none of it writes for.
LEMMA WriteAppended ==
  ASSUME NEW S, NEW s \in Seq(S), NEW m \in S, WrittenOnce(s),
         ~m.write \/ m.of \notin WritesOf(s)
  PROVE  /\ WrittenOnce(Append(s, m))
         /\ WritesOf(Append(s, m)) = WritesOf(s) \cup (IF m.write THEN {m.of} ELSE {})
<1> DEFINE a == Append(s, m)
           n == Len(s) + 1
<1>1. /\ n \in Nat /\ Len(s) \in Nat /\ DOMAIN s = 1 .. Len(s)
      /\ DOMAIN a = 1 .. n /\ a[n] = m
      /\ \A i \in 1 .. Len(s) : a[i] = s[i]
  BY AppendProperties, LenProperties
<1> HIDE DEF a
<1>2. DOMAIN a = DOMAIN s \cup {n} /\ n \notin DOMAIN s
  BY <1>1
<1>3. \A i \in DOMAIN s : a[i] = s[i]
  BY <1>1
<1> HIDE DEF n
<1>4. WrittenOnce(a)
  <2> SUFFICES ASSUME NEW i \in DOMAIN a, NEW j \in DOMAIN a, a[i].write, a[j].write,
                      a[i].of = a[j].of
               PROVE  i = j
    BY DEF WrittenOnce
  <2>1. \A k \in DOMAIN s : s[k].write => s[k].of \in WritesOf(s)
    BY DEF WritesOf
  <2>2. CASE i = n /\ j # n
    BY <1>1, <1>2, <1>3, <2>1, <2>2
  <2>3. CASE i # n /\ j = n
    BY <1>1, <1>2, <1>3, <2>1, <2>3
  <2>4. CASE i # n /\ j # n
    BY <1>2, <1>3, <2>4 DEF WrittenOnce
  <2> QED
    BY <2>2, <2>3, <2>4
<1>5. ASSUME NEW x PROVE x \in WritesOf(a) <=> x \in WritesOf(s) \/ (m.write /\ x = m.of)
  BY <1>1, <1>2, <1>3 DEF WritesOf
<1>6. WritesOf(a) = WritesOf(s) \cup (IF m.write THEN {m.of} ELSE {})
  BY <1>5
<1> QED
  BY <1>4, <1>6 DEF a

\* Taking the first message of a list in which no transaction's write is twice.
LEMMA WriteTaken ==
  ASSUME NEW S, NEW s \in Seq(S), s # <<>>, WrittenOnce(s)
  PROVE  /\ WrittenOnce(Tail(s))
         /\ WritesOf(Tail(s)) = WritesOf(s) \ (IF Head(s).write THEN {Head(s).of} ELSE {})
         /\ Head(s).write => Head(s).of \in WritesOf(s)
<1> DEFINE r == Tail(s)
           h == Head(s)
<1>1. /\ Len(s) \in Nat /\ DOMAIN s = 1 .. Len(s) /\ DOMAIN r = 1 .. Len(s) - 1
      /\ 1 \in DOMAIN s /\ h = s[1]
      /\ \A i \in DOMAIN r : i + 1 \in DOMAIN s /\ r[i] = s[i + 1] /\ i + 1 # 1
  <2>1. /\ r \in Seq(S) /\ Len(r) = Len(s) - 1 /\ Len(s) \in Nat \ {0} /\ h = s[1]
        /\ \A i \in 1 .. Len(r) : r[i] = s[i + 1]
    BY Taken1
  <2>2. DOMAIN s = 1 .. Len(s) /\ DOMAIN r = 1 .. Len(r)
    BY <2>1, LenProperties
  <2> HIDE DEF r, h
  <2> QED
    BY <2>1, <2>2
<1> HIDE DEF r, h
<1>2. h.write => h.of \in WritesOf(s)
  BY <1>1 DEF WritesOf
<1>3. WrittenOnce(r)
  <2> SUFFICES ASSUME NEW i \in DOMAIN r, NEW j \in DOMAIN r, r[i].write, r[j].write,
                      r[i].of = r[j].of
               PROVE  i = j
    BY DEF WrittenOnce
  <2>1. i + 1 = j + 1
    BY <1>1 DEF WrittenOnce
  <2> QED
    BY <1>1, <2>1
<1>4. ASSUME NEW x, x \in WritesOf(r) PROVE x \in WritesOf(s) /\ (h.write => x # h.of)
  <2>1. PICK i \in DOMAIN r : r[i].write /\ x = r[i].of
    BY <1>4 DEF WritesOf
  <2>2. i + 1 \in DOMAIN s /\ s[i + 1].write /\ x = s[i + 1].of /\ i + 1 # 1
    BY <1>1, <2>1
  <2>3. x \in WritesOf(s)
    BY <2>2 DEF WritesOf
  <2>4. h.write => x # h.of
    BY <1>1, <2>2 DEF WrittenOnce
  <2> QED
    BY <2>3, <2>4
<1>5. ASSUME NEW x, x \in WritesOf(s), ~h.write \/ x # h.of PROVE x \in WritesOf(r)
  <2>1. PICK i \in DOMAIN s : s[i].write /\ x = s[i].of
    BY <1>5 DEF WritesOf
  <2>2. i # 1
    BY <1>1, <1>5, <2>1
  <2>3. i - 1 \in DOMAIN r /\ (i - 1) + 1 = i
    BY <1>1, <2>2
  <2>4. r[i - 1] = s[i]
    BY <1>1, <2>3
  <2> QED
    BY <2>1, <2>3, <2>4 DEF WritesOf
<1>6. WritesOf(r) = WritesOf(s) \ (IF h.write THEN {h.of} ELSE {})
  BY <1>4, <1>5
<1> QED
  BY <1>2, <1>3, <1>6 DEF r, h

\* An eviction is sent: it leaves those that wait, and its write is below.
LEMMA WriteSent ==
  ASSUME NEW S, NEW pe \in Seq(ReqID), NEW bo \in Seq(S), NEW lr, NEW bi, NEW E,
         WriteAsks(pe, bo, lr, bi, E), pe # <<>>,
         NEW m \in S, m.write, m.of = Head(pe)
  PROVE  WriteAsks(Tail(pe), Append(bo, m), lr, bi, E \cup {Head(pe)})
<1> DEFINE h == Head(pe)
<1>1. IsInjective(pe) /\ WrittenOnce(bo)
  BY DEF WriteAsks
<1>2. /\ h \in ToSet(pe) /\ ToSet(Tail(pe)) = ToSet(pe) \ {h} /\ IsInjective(Tail(pe))
  BY <1>1, ElementsAfterHead
<1> HIDE DEF h
<1>3. h \notin E
  BY <1>2 DEF WriteAsks
<1>4. m.of \notin WritesOf(bo) /\ h \notin WritesOf(lr) /\ h \notin WritesOf(bi)
  BY <1>3 DEF WriteAsks, h
<1>5. WrittenOnce(Append(bo, m)) /\ WritesOf(Append(bo, m)) = WritesOf(bo) \cup {h}
  BY <1>1, <1>4, WriteAppended DEF h
<1>6. WriteAsks(Tail(pe), Append(bo, m), lr, bi, E \cup {h})
  BY <1>2, <1>3, <1>4, <1>5 DEF WriteAsks
<1> QED
  BY <1>6 DEF h

\* A read sent below writes nothing.
LEMMA WriteNotAsked ==
  ASSUME NEW S, NEW pe, NEW bo \in Seq(S), NEW lr, NEW bi, NEW E,
         WriteAsks(pe, bo, lr, bi, E), NEW m \in S, ~m.write
  PROVE  WriteAsks(pe, Append(bo, m), lr, bi, E) /\ WritesOf(Append(bo, m)) = WritesOf(bo)
<1>1. /\ WrittenOnce(Append(bo, m))
      /\ WritesOf(Append(bo, m)) = WritesOf(bo)
  BY WriteAppended DEF WriteAsks
<1> QED
  BY <1>1 DEF WriteAsks

\* The memory takes a message: a write is still in one place.
LEMMA WriteAccept ==
  ASSUME NEW S, NEW pe, NEW bo \in Seq(S), NEW lr \in Seq(S), NEW bi, NEW E,
         WriteAsks(pe, bo, lr, bi, E), bo # <<>>
  PROVE  /\ WriteAsks(pe, Tail(bo), Append(lr, Head(bo)), bi, E)
         /\ WritesOf(Tail(bo)) \cup WritesOf(Append(lr, Head(bo))) = WritesOf(bo) \cup WritesOf(lr)
<1> DEFINE m == Head(bo)
           R == IF m.write THEN {m.of} ELSE {}
<1>1. WrittenOnce(bo) /\ WrittenOnce(lr) /\ m \in S
  BY Taken1 DEF WriteAsks
<1>2. /\ WrittenOnce(Tail(bo)) /\ WritesOf(Tail(bo)) = WritesOf(bo) \ R
      /\ m.write => m.of \in WritesOf(bo)
  BY <1>1, WriteTaken
<1> HIDE DEF m
<1>3. ~m.write \/ m.of \notin WritesOf(lr)
  BY <1>2 DEF WriteAsks
<1>4. WrittenOnce(Append(lr, m)) /\ WritesOf(Append(lr, m)) = WritesOf(lr) \cup R
  BY <1>1, <1>3, WriteAppended
<1>5. R \subseteq WritesOf(bo)
  BY <1>2
<1> HIDE DEF R
<1>6. WriteAsks(pe, Tail(bo), Append(lr, m), bi, E)
  BY <1>2, <1>4, <1>5 DEF WriteAsks
<1>7. WritesOf(Tail(bo)) \cup WritesOf(Append(lr, m)) = WritesOf(bo) \cup WritesOf(lr)
  BY <1>2, <1>4, <1>5
<1> QED
  BY <1>6, <1>7 DEF m

\* The memory serves a message: the answer takes the place of the write.
LEMMA WriteRespond ==
  ASSUME NEW S, NEW Q, NEW pe, NEW bo, NEW lr \in Seq(S), NEW bi \in Seq(Q), NEW E,
         WriteAsks(pe, bo, lr, bi, E), lr # <<>>, NEW a \in Q,
         a.write <=> Head(lr).write, a.of = Head(lr).of
  PROVE  /\ WriteAsks(pe, bo, Tail(lr), Append(bi, a), E)
         /\ WritesOf(Tail(lr)) = WritesOf(lr) \ (IF Head(lr).write THEN {Head(lr).of} ELSE {})
         /\ Head(lr).write => Head(lr).of \in WritesOf(lr)
<1> DEFINE m == Head(lr)
           R == IF m.write THEN {m.of} ELSE {}
<1>1. WrittenOnce(lr) /\ WrittenOnce(bi) /\ m \in S
  BY Taken1 DEF WriteAsks
<1>2. /\ WrittenOnce(Tail(lr)) /\ WritesOf(Tail(lr)) = WritesOf(lr) \ R
      /\ m.write => m.of \in WritesOf(lr)
  BY <1>1, WriteTaken
<1>3. ~a.write \/ a.of \notin WritesOf(bi)
  BY <1>2 DEF WriteAsks
<1>4. R = IF a.write THEN {a.of} ELSE {}
  OBVIOUS
<1>5. WrittenOnce(Append(bi, a)) /\ WritesOf(Append(bi, a)) = WritesOf(bi) \cup R
  BY <1>1, <1>3, <1>4, WriteAppended
<1>6. R \subseteq WritesOf(lr)
  BY <1>2
<1>7. R = IF m.write THEN {m.of} ELSE {}
  OBVIOUS
<1> HIDE DEF R, m
<1>8. WriteAsks(pe, bo, Tail(lr), Append(bi, a), E)
  BY <1>2, <1>5, <1>6 DEF WriteAsks
<1> QED
  BY <1>2, <1>7, <1>8 DEF m

\* The first answer is taken, and the eviction it ends is given up.
LEMMA WriteEnded ==
  ASSUME NEW S, NEW pe, NEW bo, NEW lr, NEW bi \in Seq(S), NEW E,
         WriteAsks(pe, bo, lr, bi, E), bi # <<>>
  PROVE  LET R == IF Head(bi).write THEN {Head(bi).of} ELSE {}
         IN /\ WriteAsks(pe, bo, lr, Tail(bi), E \ R)
            /\ R \cap (ToSet(pe) \cup WritesOf(bo) \cup WritesOf(lr)) = {}
<1> DEFINE R == IF Head(bi).write THEN {Head(bi).of} ELSE {}
<1>1. /\ WrittenOnce(Tail(bi)) /\ WritesOf(Tail(bi)) = WritesOf(bi) \ R /\ R \subseteq WritesOf(bi)
  BY WriteTaken DEF WriteAsks
<1> HIDE DEF R
<1>2. WriteAsks(pe, bo, lr, Tail(bi), E \ R)
  BY <1>1 DEF WriteAsks
<1>3. R \cap (ToSet(pe) \cup WritesOf(bo) \cup WritesOf(lr)) = {}
  BY <1>1 DEF WriteAsks
<1> QED
  BY <1>2, <1>3 DEF R

\* An eviction is taken that was not there.
LEMMA WriteTakenUp ==
  ASSUME NEW pe \in Seq(ReqID), NEW bo, NEW lr, NEW bi, NEW E,
         WriteAsks(pe, bo, lr, bi, E), NEW t \in ReqID, t \notin ToSet(pe), t \notin E
  PROVE  WriteAsks(Append(pe, t), bo, lr, bi, E) /\ ToSet(Append(pe, t)) = ToSet(pe) \cup {t}
<1>1. ToSet(Append(pe, t)) = ToSet(pe) \cup {t} /\ IsInjective(Append(pe, t))
  BY ElementsAppended DEF WriteAsks
<1> QED
  BY <1>1 DEF WriteAsks

\* A list of messages about their lines stays one when a message of its line joins it, ...
LEMMA ToldAppended ==
  ASSUME NEW S, NEW s \in Seq(S), NEW m \in S, NEW tr, NEW rq, LinesTold(s, tr, rq),
         m.line = IF m.write THEN tr[m.of].evictingAddr ELSE rq[m.of].line
  PROVE  LinesTold(Append(s, m), tr, rq)
<1> DEFINE a == Append(s, m)
<1>1. /\ DOMAIN s = 1 .. Len(s) /\ DOMAIN a = 1 .. Len(s) + 1 /\ a[Len(s) + 1] = m
      /\ Len(s) \in Nat /\ \A i \in 1 .. Len(s) : a[i] = s[i]
  BY AppendProperties, LenProperties
<1> HIDE DEF a
<1>2. \A i \in DOMAIN a : (i \in DOMAIN s /\ a[i] = s[i]) \/ a[i] = m
  BY <1>1
<1>3. LinesTold(a, tr, rq)
  BY <1>2 DEF LinesTold
<1> QED
  BY <1>3 DEF a

\* ... when its first one leaves, ...
LEMMA ToldTaken ==
  ASSUME NEW S, NEW s \in Seq(S), s # <<>>, NEW tr, NEW rq, LinesTold(s, tr, rq)
  PROVE  /\ LinesTold(Tail(s), tr, rq)
         /\ Head(s).line = IF Head(s).write THEN tr[Head(s).of].evictingAddr
                                            ELSE rq[Head(s).of].line
<1> DEFINE r == Tail(s)
<1>1. /\ r \in Seq(S) /\ Len(r) = Len(s) - 1 /\ Len(s) \in Nat \ {0} /\ Head(s) = s[1]
      /\ \A i \in 1 .. Len(r) : r[i] = s[i + 1]
  BY Taken1
<1>2. DOMAIN s = 1 .. Len(s) /\ DOMAIN r = 1 .. Len(r)
  BY <1>1, LenProperties
<1> HIDE DEF r
<1>3. 1 \in DOMAIN s /\ \A i \in DOMAIN r : i + 1 \in DOMAIN s /\ r[i] = s[i + 1]
  BY <1>1, <1>2
<1>4. LinesTold(r, tr, rq)
  BY <1>3 DEF LinesTold
<1>5. s[1].line = IF s[1].write THEN tr[s[1].of].evictingAddr ELSE rq[s[1].of].line
  BY <1>3 DEF LinesTold
<1> QED
  BY <1>1, <1>4, <1>5 DEF r

\* ... and when those it is about keep their lines.
LEMMA ToldKept ==
  ASSUME NEW s, NEW tr, NEW rq, NEW tr2, NEW rq2, LinesTold(s, tr, rq),
         \A u \in WritesOf(s) : tr2[u].evictingAddr = tr[u].evictingAddr,
         \A u \in ReadsOf(s) : rq2[u].line = rq[u].line
  PROVE  LinesTold(s, tr2, rq2)
BY DEF LinesTold, WritesOf, ReadsOf

\* The evictions the write buffer holds, and the writes that are to come, stay.
EvsStay == Evs' = Evs /\ Unwritten' = Unwritten

\* What is sent, typed.
LEMMA MessagesTyped ==
  WInv => /\ pendingEvictions \in Seq(ReqID) /\ inflightEviction \in Seq(ReqID)
          /\ bottomOut \in Seq(ReadMsg \cup WriteMsg) /\ lowReqs \in Seq(ReadMsg \cup WriteMsg)
          /\ bottomIn \in Seq(Answer)
          /\ \A t \in ReqID : trans[t].evictingAddr \in Lines \cup {NoLine}
          /\ \A t \in Busy : reqs[t].line \in Lines
<1> SUFFICES ASSUME WInv
             PROVE  /\ pendingEvictions \in Seq(ReqID) /\ inflightEviction \in Seq(ReqID)
                    /\ bottomOut \in Seq(ReadMsg \cup WriteMsg)
                    /\ lowReqs \in Seq(ReadMsg \cup WriteMsg)
                    /\ bottomIn \in Seq(Answer)
                    /\ \A t \in ReqID : trans[t].evictingAddr \in Lines \cup {NoLine}
                    /\ \A t \in Busy : reqs[t].line \in Lines
  OBVIOUS
<1>1. /\ pendingEvictions \in Seq(ReqID) /\ inflightEviction \in Seq(ReqID)
      /\ bottomOut \in Seq(ReadMsg \cup WriteMsg) /\ lowReqs \in Seq(ReadMsg \cup WriteMsg)
      /\ bottomIn \in Seq(Answer) /\ trans \in [ReqID -> TransType]
  BY DEF WInv, WTypes, PortTypes, BufferTypes, ArrayTypes
<1>2. \A t \in ReqID : trans[t].evictingAddr \in Lines \cup {NoLine}
  BY <1>1 DEF TransType
<1>3. \A t \in Busy : reqs[t].line \in Lines
  BY BusyTyped, TakenSent DEF Request
<1> QED
  BY <1>1, <1>2, <1>3

\* The messages do not change.
LEMMA MessagesStay ==
  ASSUME WriteAskInv, UNCHANGED messages PROVE WriteAskInv' /\ EvsStay
BY DEF WriteAskInv, messages, EvsStay, Evs, Unwritten

\* The ports and the memory: the writes below stay in one place each, and a write that is
\* served is the only one that leaves those to come.
LEMMA BelowWrites ==
  ASSUME WInv, WriteAskInv, Below
  PROVE  /\ WriteAskInv'
         /\ \/ EvsStay /\ ~MessageServed
            \/ EvsStay /\ MessageServed /\ ~Head(lowReqs).write
            \/ LET r == Head(lowReqs)
               IN /\ MessageServed /\ r.write /\ r.of \in Evs /\ Evs' = Evs
                  /\ Unwritten' = Unwritten \ {r.of}
            \/ /\ ~MessageServed /\ Evs' \subseteq Evs /\ Unwritten' = Unwritten
               /\ Unwritten \cap Evs \subseteq Evs'
<1> DEFINE pe == pendingEvictions
           E == ToSet(inflightEviction)
           M == ReadMsg \cup WriteMsg
<1>0. /\ pe \in Seq(ReqID) /\ inflightEviction \in Seq(ReqID) /\ bottomOut \in Seq(M)
      /\ lowReqs \in Seq(M) /\ bottomIn \in Seq(Answer)
  BY MessagesTyped
<1>1. WriteAsks(pe, bottomOut, lowReqs, bottomIn, E)
  BY DEF WriteAskInv
<1>2. CASE EvictionSent
  <2> DEFINE t == Head(pe)
             m == [write |-> TRUE, of |-> t, line |-> trans[t].evictingAddr]
  <2>1. /\ pe # <<>> /\ pe' = Tail(pe) /\ bottomOut' = Append(bottomOut, m)
        /\ inflightEviction' = Append(inflightEviction, t) /\ UNCHANGED <<lowReqs, bottomIn>>
    BY <1>2 DEF EvictionSent
  <2>2. t \in ReqID /\ t \in ToSet(pe) /\ ToSet(pe) = {t} \cup ToSet(Tail(pe))
    BY <1>0, <2>1, Taken1, HeadAndRest
  <2>3. m \in WriteMsg /\ m.write /\ m.of = t /\ m \in M
    BY <2>2, MessagesTyped DEF WriteMsg
  <2>4. E' = E \cup {t}
    BY <1>0, <2>1, <2>2, SetAppended
  <2> HIDE DEF m
  <2>5. WriteAsks(Tail(pe), Append(bottomOut, m), lowReqs, bottomIn, E \cup {t})
    BY <1>0, <1>1, <2>1, <2>3, WriteSent
  <2>6. WriteAskInv'
    BY <2>1, <2>4, <2>5 DEF WriteAskInv
  <2>7. WrittenOnce(bottomOut) /\ m.of \notin WritesOf(bottomOut)
    BY <1>1, <2>2, <2>3 DEF WriteAsks
  <2>8. WritesOf(Append(bottomOut, m)) = WritesOf(bottomOut) \cup {t}
    BY <1>0, <2>3, <2>7, WriteAppended
  <2>9. EvsStay
    BY <2>1, <2>2, <2>4, <2>8 DEF EvsStay, Evs, Unwritten
  <2>10. ~MessageServed
    <3>1. pe' # pe
      <4>1. Len(pe') = Len(pe) - 1 /\ Len(pe) \in Nat
        BY <1>0, <2>1, Taken1
      <4> QED
        BY <4>1
    <3> QED
      BY <3>1 DEF MessageServed
  <2> QED
    BY <2>6, <2>9, <2>10
<1>3. CASE MessageSent
  <2>1. /\ bottomOut # <<>> /\ bottomOut' = Tail(bottomOut)
        /\ lowReqs' = Append(lowReqs, Head(bottomOut))
        /\ UNCHANGED <<bottomIn, pendingEvictions, inflightEviction>>
    BY <1>3 DEF MessageSent
  <2>2. /\ WriteAsks(pe, Tail(bottomOut), Append(lowReqs, Head(bottomOut)), bottomIn, E)
        /\ WritesOf(Tail(bottomOut)) \cup WritesOf(Append(lowReqs, Head(bottomOut)))
             = WritesOf(bottomOut) \cup WritesOf(lowReqs)
    BY <1>0, <1>1, <2>1, WriteAccept
  <2>3. WriteAskInv'
    BY <2>1, <2>2 DEF WriteAskInv
  <2>4. Evs' = Evs
    BY <2>1 DEF Evs
  <2>5. Unwritten' = Unwritten
    BY <2>1, <2>2 DEF Unwritten
  <2>6. ~MessageServed
    <3>1. bottomOut' # bottomOut
      <4>1. Len(bottomOut') = Len(bottomOut) - 1 /\ Len(bottomOut) \in Nat
        BY <1>0, <2>1, Taken1
      <4> QED
        BY <4>1
    <3> QED
      BY <3>1 DEF MessageServed
  <2> QED
    BY <2>3, <2>4, <2>5, <2>6 DEF EvsStay
<1>4. CASE MessageServed
  <2> DEFINE r == Head(lowReqs)
             a == [write |-> r.write, of |-> r.of,
                   ver |-> IF r.write THEN 0 ELSE mem[r.line]]
             R == IF r.write THEN {r.of} ELSE {}
  <2>1. /\ lowReqs # <<>> /\ lowReqs' = Tail(lowReqs) /\ bottomIn' = Append(bottomIn, a)
        /\ UNCHANGED <<bottomOut, pendingEvictions, inflightEviction>>
    BY <1>4 DEF MessageServed
  <2>2. r \in M /\ mem \in [Lines -> Nat]
    BY <1>0, <2>1, Taken1 DEF WInv, WTypes, PortTypes
  <2> HIDE DEF r
  <2>3. /\ r.write \in BOOLEAN /\ r.of \in ReqID
        /\ ~r.write => r.line \in Lines
    BY <2>2 DEF ReadMsg, WriteMsg
  <2>4. (IF r.write THEN 0 ELSE mem[r.line]) \in Nat
    <3>1. CASE r.write
      BY <3>1
    <3>2. CASE ~r.write
      BY <3>2, <2>2, <2>3
    <3> QED
      BY <3>1, <3>2
  <2>5. a \in Answer /\ a.write = r.write /\ a.of = r.of
    BY <2>3, <2>4 DEF Answer
  <2> HIDE DEF a
  <2> USE DEF r
  <2>6. /\ WriteAsks(pe, bottomOut, Tail(lowReqs), Append(bottomIn, a), E)
        /\ WritesOf(Tail(lowReqs)) = WritesOf(lowReqs) \ R
        /\ r.write => r.of \in WritesOf(lowReqs)
    BY <1>0, <1>1, <2>1, <2>5, WriteRespond
  <2>7. WriteAskInv'
    BY <2>1, <2>6 DEF WriteAskInv
  <2>8. Evs' = Evs
    BY <2>1 DEF Evs
  <2> HIDE DEF r
  <2>9. Unwritten' = Unwritten \ R
    BY <1>1, <2>1, <2>6 DEF Unwritten, WriteAsks
  <2>10. r.write => r.of \in Evs
    BY <1>1, <2>6 DEF WriteAsks, Evs
  <2>11. CASE r.write
    BY <1>4, <2>7, <2>8, <2>9, <2>10, <2>11 DEF r
  <2>12. CASE ~r.write
    BY <1>4, <2>7, <2>8, <2>9, <2>12 DEF r, EvsStay
  <2> QED
    BY <2>11, <2>12
<1>5. CASE WriteDone
  <2> DEFINE w == Head(bottomIn).of
  <2>1. /\ bottomIn # <<>> /\ Head(bottomIn).write /\ bottomIn' = Tail(bottomIn)
        /\ inflightEviction' = Filter(inflightEviction, ReqID \ {w})
        /\ UNCHANGED <<pendingEvictions, bottomOut, lowReqs>>
    BY <1>5 DEF WriteDone
  <2>2. /\ WriteAsks(pe, bottomOut, lowReqs, Tail(bottomIn), E \ {w})
        /\ {w} \cap (ToSet(pe) \cup WritesOf(bottomOut) \cup WritesOf(lowReqs)) = {}
    BY <1>0, <1>1, <2>1, WriteEnded
  <2>3. E' = E \ {w}
    <3>1. ToSet(Filter(inflightEviction, ReqID \ {w})) = E \cap (ReqID \ {w})
      BY <1>0, FilterSet
    <3>2. E \subseteq ReqID
      BY <1>0, SetOfSeq
    <3> QED
      BY <2>1, <3>1, <3>2
  <2>4. WriteAskInv'
    BY <2>1, <2>2, <2>3 DEF WriteAskInv
  <2> HIDE DEF w, E
  <2>5. Evs' \subseteq Evs /\ Evs \subseteq Evs' \cup {w}
    BY <2>1, <2>3 DEF Evs, E
  <2>6. Unwritten' = Unwritten /\ w \notin Unwritten
    BY <2>1, <2>2 DEF Unwritten
  <2>7. ~MessageServed
    <3>1. bottomIn' # bottomIn /\ Len(bottomIn') = Len(bottomIn) - 1 /\ Len(bottomIn) \in Nat
      <4>1. Len(bottomIn') = Len(bottomIn) - 1 /\ Len(bottomIn) \in Nat
        BY <1>0, <2>1, Taken1
      <4> QED
        BY <4>1
    <3>2. ASSUME MessageServed PROVE FALSE
      <4>1. lowReqs' = Tail(lowReqs) /\ lowReqs # <<>>
        BY <3>2 DEF MessageServed
      <4>2. Len(lowReqs') = Len(lowReqs) - 1 /\ Len(lowReqs) \in Nat
        BY <1>0, <4>1, Taken1
      <4> QED
        BY <2>1, <4>2
    <3> QED
      BY <3>2
  <2> QED
    BY <2>4, <2>5, <2>6, <2>7
<1> QED
  BY <1>2, <1>3, <1>4, <1>5 DEF Below

\* The writes below, and the evictions, after a step of the component.
LEMMA StepWrites ==
  ASSUME WInv, WriteAskInv, EvsInv, Kind, ~Below
  PROVE  /\ WriteAskInv'
         /\ \/ EvsStay
            \/ \E t \in ReqID : /\ EvictionHeld(t) /\ t \notin Evs /\ Evs' = Evs \cup {t}
                                /\ Unwritten' = Unwritten \cup {t}
<1> DEFINE pe == pendingEvictions
           E == ToSet(inflightEviction)
           M == ReadMsg \cup WriteMsg
<1>0. /\ pe \in Seq(ReqID) /\ bottomOut \in Seq(M)
      /\ lowReqs \in Seq(M) /\ bottomIn \in Seq(Answer)
  BY MessagesTyped
<1>1. WriteAsks(pe, bottomOut, lowReqs, bottomIn, E)
  BY DEF WriteAskInv
<1>2. CASE UNCHANGED messages
  BY <1>2, MessagesStay
<1>3. ASSUME NEW t \in ReqID, NEW v, LineComes(t, v) PROVE WriteAskInv' /\ EvsStay
  <2>1. /\ bottomIn # <<>> /\ ~Head(bottomIn).write /\ bottomIn' = Tail(bottomIn)
        /\ UNCHANGED <<inflightEviction, pendingEvictions, bottomOut, lowReqs>>
    BY <1>3 DEF LineComes
  <2>2. WriteAsks(pe, bottomOut, lowReqs, Tail(bottomIn), E \ {})
    BY <1>0, <1>1, <2>1, WriteEnded
  <2> QED
    BY <2>1, <2>2 DEF WriteAskInv, EvsStay, Evs, Unwritten
<1>4. ASSUME NEW t \in ReqID, LineAsked(t) PROVE WriteAskInv' /\ EvsStay
  <2> DEFINE m == [write |-> FALSE, of |-> t, line |-> reqs[t].line]
  <2>1. /\ bottomOut' = Append(bottomOut, m) /\ t \in Busy
        /\ UNCHANGED <<inflightEviction, pendingEvictions, bottomIn, lowReqs>>
    BY <1>4 DEF LineAsked, NewKept
  <2>0. reqs[t].line \in Lines
    BY <2>1, MessagesTyped
  <2>2. m \in ReadMsg /\ ~m.write /\ m \in M
    BY <2>0 DEF ReadMsg
  <2> HIDE DEF m, M, E, pe
  <2>3. /\ WriteAsks(pe, Append(bottomOut, m), lowReqs, bottomIn, E)
        /\ WritesOf(Append(bottomOut, m)) = WritesOf(bottomOut)
    BY <1>0, <1>1, <2>2, WriteNotAsked
  <2> USE DEF E, pe
  <2> QED
    BY <2>1, <2>3 DEF WriteAskInv, EvsStay, Evs, Unwritten
<1>5. ASSUME NEW t \in ReqID, EvictionHeld(t)
      PROVE  /\ WriteAskInv' /\ t \notin Evs /\ Evs' = Evs \cup {t}
             /\ Unwritten' = Unwritten \cup {t}
  <2>1. /\ pe' = Append(pe, t) /\ UNCHANGED <<inflightEviction, bottomIn, lowReqs, bottomOut>>
        /\ trans[t].action \in Departs
    BY <1>5 DEF EvictionHeld, NewKept, Departs
  <2>2. t \notin Evs
    BY <2>1 DEF EvsInv, Past
  <2>3. t \notin ToSet(pe) /\ t \notin E
    BY <2>2 DEF Evs
  <2>4. /\ WriteAsks(Append(pe, t), bottomOut, lowReqs, bottomIn, E)
        /\ ToSet(Append(pe, t)) = ToSet(pe) \cup {t}
    BY <1>0, <1>1, <2>3, WriteTakenUp
  <2> QED
    BY <2>1, <2>2, <2>4 DEF WriteAskInv, Evs, Unwritten
<1>6. CASE StepOf
  <2>1. PICK t \in ReqID : OfBank(t) \/ OfBuffer(t) \/ OfDirectory(t)
    BY <1>6 DEF StepOf
  <2>2. CASE OfBank(t) \/ OfDirectory(t)
    <3>1. UNCHANGED messages
      BY <2>2 DEF OfBank, ReadEnds, WriteEnds, LineEnds, OldTaken, LeavesBank, OfDirectory,
                  Joins, ReadsBlock, OwnsBlock, NextTaken, DirKept
    <3> QED
      BY <3>1, <1>2
  <2>3. CASE \E u \in ReqID : LineFound(t, u)
    <3>1. UNCHANGED messages
      BY <2>3 DEF LineFound, NewKept, messages
    <3> QED
      BY <3>1, <1>2
  <2> QED
    BY <2>1, <2>2, <2>3, <1>3, <1>4, <1>5 DEF OfBuffer
<1>7. CASE Still \/ (\E r : Comes(r)) \/ Pulled \/ Answering
  <2>1. UNCHANGED messages
    BY <1>7 DEF Still, Comes, Pulled, Answering
  <2> QED
    BY <2>1, <1>2
<1> QED
  BY <1>6, <1>7 DEF Kind

\* What becomes of the transactions at work: ...
Unchanged == Busy' = Busy /\ trans' = trans
\* ... one leaves the bank, ...
Ends(t) == t \in Busy /\ Busy' = Busy \ {t} /\ trans' = trans /\ Past(trans, t)
\* ... goes on, ...
GoesTo(t) ==
  /\ t \in Busy /\ Busy' = Busy /\ OnlyAction(t, trans, trans')
  /\ ~Reader(trans, t) /\ ~Reader(trans', t)
  /\ trans'[t].action \in Filling => trans[t].action \in Fetching
\* ... is known to an entry, or is taken by the directory.
IsTaken(t) ==
  /\ t = Taken + 1 /\ t \notin Busy /\ Busy' \in {Busy, Busy \cup {t}}
  /\ \A u \in ReqID : u # t => trans'[u] = trans[u]
Moves == Unchanged \/ \E t \in ReqID : Ends(t) \/ GoesTo(t) \/ IsTaken(t)

\* An eviction that is new is that of a transaction which the write buffer takes.
LEMMA NewEvs ==
  ASSUME WInv, WriteAskInv, EvsInv, Kind, NEW t \in Evs', t \notin Evs
  PROVE  t \in ReqID /\ EvictionHeld(t)
<1>1. CASE Below
  <2>1. Evs' \subseteq Evs
    BY <1>1, BelowWrites DEF EvsStay
  <2> QED
    BY <2>1
<1>2. CASE ~Below
  BY <1>2, StepWrites DEF EvsStay
<1> QED
  BY <1>1, <1>2

\* The evictions held are of transactions that have handed over what they evict.
LEMMA EvsStep ==
  ASSUME WInv, WriteAskInv, EvsInv, Kind PROVE EvsInv'
<1>0. Ages
  BY StepAges
<1>1. SUFFICES ASSUME NEW t \in Evs' PROVE t \in 1 .. Taken' /\ Past(trans', t)
  BY DEF EvsInv
<1>2. 1 .. Taken \subseteq 1 .. Taken'
  BY <1>0 DEF Ages
<1>3. CASE t \in Evs
  BY <1>0, <1>2, <1>3 DEF EvsInv, Ages
<1>4. CASE t \notin Evs
  <2>1. t \in ReqID /\ EvictionHeld(t)
    BY <1>4, NewEvs
  <2>2. t \in Busy /\ trans'[t].action \in {"bankWriteHit", "writeBufferFetch"}
    BY <2>1 DEF EvictionHeld
  <2>3. t \in 1 .. Taken
    BY <2>2, BusyTyped
  <2> QED
    BY <1>2, <2>2, <2>3 DEF Past, Evicting, Departs
<1> QED
  BY <1>3, <1>4

\* What is sent is about transactions that the directory has taken.
LEMMA AskedOf ==
  ASSUME WInv, WriteAskInv, EvsInv
  PROVE  /\ WritesOf(bottomOut) \cup WritesOf(lowReqs) \subseteq 1 .. Taken
         /\ ReadsOf(bottomOut) \cup ReadsOf(lowReqs) \cup ReadsOf(bottomIn) \subseteq inflightFetch
         /\ inflightFetch \subseteq Busy /\ inflightFetch \subseteq 1 .. Taken
<1>1. WritesOf(bottomOut) \cup WritesOf(lowReqs) \subseteq Evs
  BY DEF WriteAskInv, WriteAsks, Evs
<1>2. Evs \subseteq 1 .. Taken
  BY DEF EvsInv
<1>3. ReadsOf(bottomOut) \cup ReadsOf(lowReqs) \cup ReadsOf(bottomIn) \subseteq inflightFetch
  BY DEF WInv, AskInv, Asks
<1>4. inflightFetch \subseteq Busy
  BY DEF Busy
<1>5. Busy \subseteq 1 .. Taken
  BY BusyTyped
<1> QED
  BY <1>1, <1>2, <1>3, <1>4, <1>5

\* Messages are about their lines after every step.
LEMMA MessageStep ==
  ASSUME WInv, WriteAskInv, EvsInv, MessageInv, Kind PROVE MessageInv'
<1> DEFINE M == ReadMsg \cup WriteMsg
<1>0. bottomOut \in Seq(M) /\ lowReqs \in Seq(M)
  BY MessagesTyped
<1>1. LinesTold(bottomOut, trans', reqs') /\ LinesTold(lowReqs, trans', reqs')
  <2>1. LinesTold(bottomOut, trans, reqs) /\ LinesTold(lowReqs, trans, reqs)
    BY DEF MessageInv
  <2>2. \A u \in 1 .. Taken : trans'[u].evictingAddr = trans[u].evictingAddr
                              /\ reqs'[u].line = reqs[u].line
    BY StepAges DEF Ages
  <2>3. \A u \in WritesOf(bottomOut) \cup WritesOf(lowReqs) :
           trans'[u].evictingAddr = trans[u].evictingAddr
    BY <2>2, AskedOf
  <2>4. \A u \in ReadsOf(bottomOut) \cup ReadsOf(lowReqs) : reqs'[u].line = reqs[u].line
    BY <2>2, AskedOf
  <2> QED
    BY <2>1, <2>3, <2>4, ToldKept
<1> HIDE DEF M
<1>2. CASE UNCHANGED <<bottomOut, lowReqs>>
  BY <1>1, <1>2 DEF MessageInv
<1>3. CASE Below
  <2>0. UNCHANGED <<trans, reqs>>
    BY <1>3 DEF Below, contents
  <2>1. CASE EvictionSent
    <3> DEFINE t == Head(pendingEvictions)
               m == [write |-> TRUE, of |-> t, line |-> trans[t].evictingAddr]
    <3>1. /\ pendingEvictions # <<>> /\ bottomOut' = Append(bottomOut, m)
          /\ lowReqs' = lowReqs
      BY <2>1 DEF EvictionSent
    <3>2. t \in ReqID
      BY <3>1, MessagesTyped, Taken1
    <3>3. trans[t].evictingAddr \in Lines \cup {NoLine}
      BY <3>2, MessagesTyped
    <3>4. m \in M /\ m.write /\ m.line = trans[m.of].evictingAddr
      BY <3>2, <3>3 DEF M, WriteMsg
    <3> HIDE DEF m
    <3>5. m.line = IF m.write THEN trans'[m.of].evictingAddr ELSE reqs'[m.of].line
      BY <3>4, <2>0
    <3>6. LinesTold(Append(bottomOut, m), trans', reqs')
      BY <1>0, <1>1, <3>4, <3>5, ToldAppended
    <3> QED
      BY <1>1, <3>1, <3>6 DEF MessageInv
  <2>2. CASE MessageSent
    <3> DEFINE m == Head(bottomOut)
    <3>1. bottomOut # <<>> /\ bottomOut' = Tail(bottomOut) /\ lowReqs' = Append(lowReqs, m)
      BY <2>2 DEF MessageSent
    <3>2. m \in M
      BY <1>0, <3>1, Taken1
    <3>3. /\ LinesTold(Tail(bottomOut), trans', reqs')
          /\ m.line = IF m.write THEN trans'[m.of].evictingAddr ELSE reqs'[m.of].line
      BY <1>0, <1>1, <3>1, ToldTaken
    <3> HIDE DEF m
    <3>4. LinesTold(Append(lowReqs, m), trans', reqs')
      BY <1>0, <1>1, <3>2, <3>3, ToldAppended
    <3> QED
      BY <3>1, <3>3, <3>4 DEF MessageInv
  <2>3. CASE MessageServed
    <3>1. lowReqs # <<>> /\ lowReqs' = Tail(lowReqs) /\ bottomOut' = bottomOut
      BY <2>3 DEF MessageServed
    <3>2. LinesTold(Tail(lowReqs), trans', reqs')
      BY <1>0, <1>1, <3>1, ToldTaken
    <3> QED
      BY <1>1, <3>1, <3>2 DEF MessageInv
  <2>4. CASE WriteDone
    BY <2>4, <1>2 DEF WriteDone
  <2> QED
    BY <1>3, <2>1, <2>2, <2>3, <2>4 DEF Below
<1>4. ASSUME NEW t \in ReqID, LineAsked(t) PROVE MessageInv'
  <2> DEFINE m == [write |-> FALSE, of |-> t, line |-> reqs[t].line]
  <2>1. /\ bottomOut' = Append(bottomOut, m) /\ lowReqs' = lowReqs /\ t \in Busy /\ reqs' = reqs
    BY <1>4 DEF LineAsked, NewKept
  <2>2. reqs[t].line \in Lines
    BY <2>1, MessagesTyped
  <2>3. m \in M /\ ~m.write /\ m.line = reqs[m.of].line
    BY <2>2 DEF M, ReadMsg
  <2> HIDE DEF m
  <2>4. m.line = IF m.write THEN trans'[m.of].evictingAddr ELSE reqs'[m.of].line
    BY <2>1, <2>3
  <2>5. LinesTold(Append(bottomOut, m), trans', reqs')
    BY <1>0, <1>1, <2>3, <2>4, ToldAppended
  <2> QED
    BY <1>1, <2>1, <2>5 DEF MessageInv
<1>5. CASE StepOf
  <2>1. PICK t \in ReqID : OfBank(t) \/ OfBuffer(t) \/ OfDirectory(t)
    BY <1>5 DEF StepOf
  <2>2. CASE OfBank(t) \/ OfDirectory(t)
    <3>1. UNCHANGED messages
      BY <2>2 DEF OfBank, ReadEnds, WriteEnds, LineEnds, OldTaken, LeavesBank, OfDirectory,
                  Joins, ReadsBlock, OwnsBlock, NextTaken, DirKept
    <3> QED
      BY <3>1, <1>2 DEF messages
  <2>3. CASE \E v : LineComes(t, v)
    BY <2>3, <1>2 DEF LineComes
  <2>4. CASE \E u \in ReqID : LineFound(t, u)
    BY <2>4, <1>2 DEF LineFound, NewKept
  <2>5. CASE EvictionHeld(t)
    BY <2>5, <1>2 DEF EvictionHeld, NewKept
  <2> QED
    BY <2>1, <2>2, <2>3, <2>4, <2>5, <1>4 DEF OfBuffer
<1>6. CASE Still \/ (\E r : Comes(r)) \/ Pulled \/ Answering
  <2>1. UNCHANGED messages
    BY <1>6 DEF Still, Comes, Pulled, Answering
  <2> QED
    BY <2>1, <1>2 DEF messages
<1> QED
  BY <1>3, <1>5, <1>6 DEF Kind

\* The transactions at work, after a step.
LEMMA StepMoves == WInv /\ Kind => Moves
<1> SUFFICES ASSUME WInv, Kind PROVE Moves
  OBVIOUS
<1>1. CASE Still \/ (\E r : Comes(r)) \/ Below \/ Pulled \/ Answering
  <2>1. trans' = trans
    BY <1>1 DEF Still, Comes, Below, Pulled, Answering, contents
  <2>2. UNCHANGED spots \/ Busy' = Busy
    BY <1>1 DEF Still, Comes, Below, Pulled, Answering
  <2> QED
    BY <2>1, <2>2, BusyKept DEF Moves, Unchanged
<1>2. CASE StepOf
  <2>1. PICK t \in ReqID : OfBank(t) \/ OfBuffer(t) \/ OfDirectory(t)
    BY <1>2 DEF StepOf
  <2>2. CASE OfBank(t)
    <3>1. CASE OldTaken(t)
      BY <3>1 DEF OldTaken, LeavesBank, Moves, GoesTo, Reader, Filling, Fetching, Evicting
    <3>2. CASE ReadEnds(t)
      BY <3>2 DEF ReadEnds, LeavesBank, Moves, Ends, Past, Evicting, Departs
    <3>3. ASSUME NEW b, WriteEnds(t, b) PROVE Moves
      BY <3>3 DEF WriteEnds, LeavesBank, Moves, Ends, Past, Evicting, Departs
    <3>4. ASSUME NEW b, LineEnds(t, b) PROVE Moves
      BY <3>4 DEF LineEnds, LeavesBank, Moves, Ends, Past, Evicting, Departs
    <3> QED
      BY <2>2, <3>1, <3>2, <3>3, <3>4 DEF OfBank
  <2>3. CASE OfBuffer(t)
    <3>1. ASSUME NEW v, LineComes(t, v) PROVE Moves
      BY <3>1 DEF LineComes, Fills, Moves, GoesTo, Reader, Filling, Fetching
    <3>2. ASSUME NEW u, LineFound(t, u) PROVE Moves
      BY <3>2 DEF LineFound, Fills, Moves, GoesTo, Reader, Filling, Fetching
    <3>3. CASE LineAsked(t)
      BY <3>3 DEF LineAsked, Moves, Unchanged
    <3>4. CASE EvictionHeld(t)
      BY <3>4 DEF EvictionHeld, Moves, GoesTo, Reader, Filling, Fetching
    <3> QED
      BY <2>3, <3>1, <3>2, <3>3, <3>4 DEF OfBuffer
  <2>4. CASE OfDirectory(t)
    <3>1. NextTaken(t) /\ Busy' \in {Busy, Busy \cup {t}}
      BY <2>4 DEF OfDirectory, Joins, ReadsBlock, OwnsBlock
    <3> QED
      BY <3>1 DEF NextTaken, Moves, IsTaken
  <2> QED
    BY <2>1, <2>2, <2>3, <2>4
<1> QED
  BY <1>1, <1>2 DEF Kind

\* A transaction that is new at work goes to the bank, with a block to read or of its own.
LEMMA NewBusy ==
  ASSUME WInv, Kind, NEW u \in Busy', u \notin Busy
  PROVE  u \in ReqID /\ \E b \in Slots : ReadsBlock(u, b) \/ OwnsBlock(u, b)
<1>1. Busy' # Busy
  OBVIOUS
<1>2. ~(Still \/ (\E r : Comes(r)) \/ Below \/ Pulled \/ Answering)
  BY <1>1, BusyKept DEF Still, Comes, Below, Pulled, Answering
<1>3. PICK x \in ReqID : OfBank(x) \/ OfBuffer(x) \/ OfDirectory(x)
  BY <1>2 DEF Kind, StepOf
<1>4. ~(OfBank(x) \/ OfBuffer(x))
  BY <1>1 DEF OfBank, ReadEnds, WriteEnds, LineEnds, OldTaken, OfBuffer, LineComes, LineFound,
              LineAsked, EvictionHeld
<1>5. PICK b \in Slots : ReadsBlock(x, b) \/ OwnsBlock(x, b)
  BY <1>1, <1>3, <1>4 DEF OfDirectory, Joins
<1>6. Busy' = Busy \cup {x}
  BY <1>5 DEF ReadsBlock, OwnsBlock
<1>7. u = x
  BY <1>6
<1> QED
  BY <1>5, <1>7

\* One that stays at work is unchanged, or goes on.
LEMMA WorkMoves ==
  ASSUME WInv, Kind, NEW u \in Busy, u \in Busy'
  PROVE  u \in ReqID /\ (trans'[u] = trans[u] \/ GoesTo(u))
<1>1. Moves /\ u \in ReqID
  BY StepMoves, BusyTyped
<1>2. ASSUME NEW t \in ReqID, GoesTo(t) PROVE trans'[u] = trans[u] \/ GoesTo(u)
  BY <1>1, <1>2 DEF GoesTo, OnlyAction
<1>3. ASSUME NEW t \in ReqID, IsTaken(t) PROVE trans'[u] = trans[u]
  BY <1>1, <1>3 DEF IsTaken
<1> QED
  BY <1>1, <1>2, <1>3 DEF Moves, Unchanged, Ends

\* Who reads at the bank is a read after every step.
LEMMA ReadersStep ==
  ASSUME WInv, ReadersInv, Kind PROVE ReadersInv'
<1>0. Moves /\ Ages /\ Busy \in SUBSET (1 .. Taken) /\ Busy \in SUBSET ReqID
  BY StepMoves, StepAges, BusyTyped
<1>1. SUFFICES ASSUME NEW u \in Busy', Reader(trans', u) PROVE ~reqs'[u].write
  BY DEF ReadersInv
<1>2. CASE u \in Busy
  <2>1. reqs'[u] = reqs[u]
    BY <1>0, <1>2 DEF Ages
  <2>2. Reader(trans, u)
    BY <1>0, <1>1, <1>2 DEF Moves, Unchanged, Ends, GoesTo, IsTaken, OnlyAction, Reader
  <2> QED
    BY <1>2, <2>1, <2>2 DEF ReadersInv
<1>3. CASE u \notin Busy
  <2>1. PICK b \in Slots : ReadsBlock(u, b) \/ OwnsBlock(u, b)
    BY <1>3, NewBusy
  <2>2. reqs' = reqs
    BY <2>1 DEF ReadsBlock, OwnsBlock, NextTaken, DirKept
  <2>3. ~OwnsBlock(u, b)
    BY <1>1 DEF OwnsBlock, OwnsFor, Reader
  <2> QED
    BY <2>1, <2>2, <2>3 DEF ReadsBlock
<1> QED
  BY <1>2, <1>3

\* A request that is new in a list is one the directory takes.
LEMMA NewInList ==
  ASSUME WInv, Kind, NEW e \in ReqID, NEW t \in ToSet(entry'[e].requests),
         t \notin ToSet(entry[e].requests)
  PROVE  /\ t = Taken + 1 /\ t \in ReqID /\ reqs' = reqs /\ reqs[e].line = reqs[t].line
         /\ Joins(t, e) \/ e = t
<1>0. entry[e].requests \in Seq(ReqID)
  BY DEF WInv, WTypes, ArrayTypes, EntryType
<1>1. entry'[e].requests # entry[e].requests
  OBVIOUS
<1>2. ~Answering
  <2>1. ASSUME Answering PROVE FALSE
    <3>1. \E f \in ReqID : AnswersOf(f)
      BY <1>1, <2>1 DEF Answering
    <3>2. AnswersOf(e)
      BY <1>1, <3>1 DEF AnswersOf
    <3>3. entry[e].requests # <<>> /\ entry'[e].requests = Tail(entry[e].requests)
      BY <3>2 DEF AnswersOf
    <3>4. ToSet(entry'[e].requests) \subseteq ToSet(entry[e].requests)
      BY <1>0, <3>3, HeadAndRest
    <3> QED
      BY <3>4
  <2> QED
    BY <2>1
<1>3. ~(Still \/ (\E r : Comes(r)) \/ Below \/ Pulled)
  BY <1>1 DEF Still, Comes, Below, Pulled, contents
<1>4. PICK x \in ReqID : OfBank(x) \/ OfBuffer(x) \/ OfDirectory(x)
  BY <1>2, <1>3 DEF Kind, StepOf
<1>5. ~OfBank(x)
  BY <1>1 DEF OfBank, ReadEnds, WriteEnds, LineEnds, OldTaken, LeavesBank
<1>6. ~OfBuffer(x)
  BY <1>1 DEF OfBuffer, LineComes, LineFound, LineAsked, EvictionHeld, Fills, SameEntries
<1>7. OfDirectory(x)
  BY <1>4, <1>5, <1>6
<1>8. x = Taken + 1 /\ reqs' = reqs
  BY <1>7 DEF OfDirectory, Joins, ReadsBlock, OwnsBlock, NextTaken, DirKept
<1>9. ASSUME NEW f \in ReqID, Joins(x, f) PROVE t = x /\ e = f /\ reqs[e].line = reqs[t].line
  <2>1. e = f
    BY <1>1, <1>9 DEF Joins
  <2>2. entry'[e].requests = Append(entry[e].requests, x) /\ reqs[e].line = reqs[x].line
    BY <1>9, <2>1 DEF Joins
  <2>3. ToSet(entry'[e].requests) = ToSet(entry[e].requests) \cup {x}
    BY <1>0, <2>2, SetAppended
  <2> QED
    BY <2>1, <2>2, <2>3
<1>10. ASSUME NEW b \in Slots, OwnsBlock(x, b) PROVE t = x /\ e = x
  <2>1. e = x
    BY <1>1, <1>10 DEF OwnsBlock
  <2>2. entry'[e].requests = <<x>>
    BY <1>1, <1>10, <2>1 DEF OwnsBlock, OwnsFor
  <2>3. ToSet(<<x>>) = {x}
    BY DEF ToSet
  <2> QED
    BY <2>1, <2>2, <2>3
<1>11. ASSUME NEW b \in Slots, ReadsBlock(x, b) PROVE FALSE
  BY <1>1, <1>11 DEF ReadsBlock
<1> QED
  BY <1>7, <1>8, <1>9, <1>10, <1>11 DEF OfDirectory

\* Lists are of one line after every step.
LEMMA LinesStep ==
  ASSUME WInv, LedgerInv, LinesInv, Kind PROVE LinesInv'
<1>0. Ages
  BY StepAges
<1>1. SUFFICES ASSUME NEW e \in ReqID, NEW t \in ToSet(entry'[e].requests)
               PROVE  reqs'[t].line = reqs'[e].line
  BY DEF LinesInv
<1>2. CASE t \in ToSet(entry[e].requests)
  <2>1. t \in 1 .. Taken
    BY <1>2, ListedWritesAre
  <2>2. e \in 1 .. Taken
    <3>1. Ledger(DirectOf(Busy, trans), Taken, ListsOf(entry), Given)
      BY DEF LedgerInv
    <3>2. ListsOf(entry)[e] = ToSet(entry[e].requests)
      BY DEF ListsOf
    <3>3. ~(e > Taken)
      BY <1>2, <3>1, <3>2 DEF Ledger
    <3> QED
      BY <1>0, <3>3 DEF Ages, ReqID
  <2>3. reqs'[t] = reqs[t] /\ reqs'[e] = reqs[e]
    BY <1>0, <2>1, <2>2 DEF Ages
  <2> QED
    BY <1>2, <2>3 DEF LinesInv
<1>3. CASE t \notin ToSet(entry[e].requests)
  BY <1>3, NewInList
<1> QED
  BY <1>2, <1>3

\* A line is newly asked of the low module.
LEMMA NewFetch ==
  ASSUME WInv, Kind, NEW t \in inflightFetch', t \notin inflightFetch
  PROVE  t \in ReqID /\ LineAsked(t)
<1>1. ~(Still \/ (\E r : Comes(r)) \/ Below \/ Pulled \/ Answering)
  BY DEF Still, Comes, Below, Pulled, Answering, spots
<1>2. PICK x \in ReqID : OfBank(x) \/ OfBuffer(x) \/ OfDirectory(x)
  BY <1>1 DEF Kind, StepOf
<1>3. ~OfBank(x) /\ ~OfDirectory(x)
  BY DEF OfBank, ReadEnds, WriteEnds, LineEnds, OldTaken, LeavesBank, OfDirectory, Joins,
         ReadsBlock, OwnsBlock, NextTaken, DirKept
<1>4. LineAsked(x)
  BY <1>2, <1>3 DEF OfBuffer, LineComes, LineFound, EvictionHeld
<1> QED
  BY <1>4 DEF LineAsked

\* A transaction at the bank, in it, or before the write buffer is in one of them.
LEMMA Apart ==
  WInv => /\ AtBank \cap (InBank \cup AtBuffer \cup GoingBack \cup inflightFetch) = {}
          /\ InBank \cap (AtBuffer \cup GoingBack \cup inflightFetch) = {}
          /\ AtBuffer \cap (GoingBack \cup inflightFetch) = {}
          /\ AtBank \cup InBank \cup AtBuffer \cup GoingBack \cup inflightFetch = Busy
<1> SUFFICES ASSUME WInv
    PROVE /\ AtBank \cap (InBank \cup AtBuffer \cup GoingBack \cup inflightFetch) = {}
          /\ InBank \cap (AtBuffer \cup GoingBack \cup inflightFetch) = {}
          /\ AtBuffer \cap (GoingBack \cup inflightFetch) = {}
          /\ AtBank \cup InBank \cup AtBuffer \cup GoingBack \cup inflightFetch = Busy
  OBVIOUS
<1>1. Places(AtBank, InBank, AtBuffer, GoingBack, inflightFetch, Filled, Taken)
  BY DEF WInv, WorldInv, World
<1>2. AtBank \cup InBank \cup AtBuffer \cup GoingBack \cup inflightFetch = Busy
  BY BusyIs DEF All
<1>3. /\ AtBank \cap (InBank \cup AtBuffer \cup GoingBack \cup inflightFetch) = {}
      /\ InBank \cap (AtBuffer \cup GoingBack \cup inflightFetch) = {}
      /\ AtBuffer \cap (GoingBack \cup inflightFetch) = {}
  BY <1>1 DEF Places
<1> QED
  BY <1>2, <1>3

\* A line asked of the low module is in no eviction after every step: the transactions
\* that would evict it are held back with the line.
LEMMA FetchStep ==
  ASSUME WInv, WriteAskInv, EvsInv, DepartInv, FetchInv, Kind PROVE FetchInv'
<1>0. Ages
  BY StepAges
<1>1. SUFFICES ASSUME NEW t \in inflightFetch', NEW u \in Evs'
               PROVE  trans'[u].evictingAddr # reqs'[t].line
  BY DEF FetchInv
<1>2. t \in 1 .. Taken
  <2>1. t \notin inflightFetch => t \in Busy
    BY NewFetch DEF LineAsked
  <2> QED
    BY <2>1, AskedOf, BusyTyped
<1>3. u \in 1 .. Taken
  <2>1. u \notin Evs => u \in Busy
    BY NewEvs DEF EvictionHeld
  <2> QED
    BY <2>1, BusyTyped DEF EvsInv
<1>4. trans'[u].evictingAddr = trans[u].evictingAddr /\ reqs'[t] = reqs[t]
  BY <1>0, <1>2, <1>3 DEF Ages
<1>5. CASE t \in inflightFetch /\ u \in Evs
  BY <1>4, <1>5 DEF FetchInv
<1>6. CASE t \in inflightFetch /\ u \notin Evs
  <2>1. EvictionHeld(u)
    BY <1>6, NewEvs
  <2>2. u \in AtBuffer /\ trans[u].action \in Departs
    BY <2>1 DEF EvictionHeld, Departs
  <2>3. t \in Busy /\ t \notin AtBank
    BY <1>6, Apart
  <2> QED
    BY <1>4, <2>2, <2>3 DEF DepartInv
<1>7. CASE t \notin inflightFetch
  <2>1. LineAsked(t)
    BY <1>7, NewFetch
  <2>2. u \in Evs
    <3>1. u \notin Evs => EvictionHeld(u)
      BY NewEvs
    <3>2. EvictionHeld(u) => u = t
      BY <2>1 DEF LineAsked, EvictionHeld
    <3>3. ~EvictionHeld(t)
      BY <2>1 DEF LineAsked, EvictionHeld
    <3> QED
      BY <3>1, <3>2, <3>3
  <2> QED
    BY <1>4, <2>1, <2>2 DEF LineAsked
<1> QED
  BY <1>5, <1>6, <1>7

\* A transaction with the old contents of its block before the write buffer was there,
\* or comes from the bank.
LEMMA NewDepart ==
  ASSUME WInv, Kind, NEW u \in AtBuffer', trans'[u].action \in Departs
  PROVE  u \in ReqID /\ (OldTaken(u) \/ (u \in AtBuffer /\ trans'[u] = trans[u]))
<1>0. Busy \in SUBSET ReqID /\ AtBuffer \in SUBSET Busy
  BY BusyTyped, Apart
<1>1. CASE Still \/ (\E r : Comes(r)) \/ Below \/ Answering
  BY <1>0, <1>1 DEF Still, Comes, Below, Answering, spots, contents
<1>2. CASE Pulled
  <2>1. trans' = trans
    BY <1>2 DEF Pulled, contents
  <2>2. AtBuffer' = AtBuffer
    BY <1>2, <2>1 DEF Pulled, Departs
  <2> QED
    BY <1>0, <2>1, <2>2
<1>3. CASE StepOf
  <2>1. PICK x \in ReqID : OfBank(x) \/ OfBuffer(x) \/ OfDirectory(x)
    BY <1>3 DEF StepOf
  <2>2. CASE OfBank(x)
    <3>1. CASE OldTaken(x)
      BY <3>1 DEF OldTaken
    <3>2. CASE AtBuffer' = AtBuffer /\ trans' = trans
      BY <1>0, <3>2
    <3> QED
      BY <2>2, <3>1, <3>2 DEF OfBank, ReadEnds, WriteEnds, LineEnds
  <2>3. CASE OfBuffer(x)
    <3>1. ASSUME NEW v, LineComes(x, v) PROVE u \in AtBuffer /\ trans'[u] = trans[u]
      <4>1. AtBuffer' = AtBuffer /\ OnlyAction(x, trans, trans')
            /\ trans'[x].action = "bankWriteFetched"
        BY <3>1 DEF LineComes, Fills
      <4>2. u # x
        BY <4>1 DEF Departs
      <4> QED
        BY <1>0, <4>1, <4>2 DEF OnlyAction
    <3>2. CASE EvictionHeld(x)
      <4>1. u = x /\ trans'[x].action \in {"bankWriteHit", "writeBufferFetch"}
        BY <3>2 DEF EvictionHeld
      <4> QED
        BY <4>1 DEF Departs
    <3> QED
      BY <1>0, <2>3, <3>1, <3>2 DEF OfBuffer, LineFound, LineAsked
  <2>4. CASE OfDirectory(x)
    <3>1. NextTaken(x)
      BY <2>4 DEF OfDirectory, Joins, ReadsBlock, OwnsBlock
    <3>2. AtBuffer' = AtBuffer /\ x \notin Busy /\ \A w \in ReqID : w # x => trans'[w] = trans[w]
      BY <3>1 DEF NextTaken, DirKept
    <3> QED
      BY <1>0, <3>2
  <2> QED
    BY <2>1, <2>2, <2>3, <2>4
<1> QED
  BY <1>1, <1>2, <1>3 DEF Kind

\* A line is there for t.
LineIsThere(t) == (\E v \in Nat : LineComes(t, v)) \/ \E u \in ReqID : LineFound(t, u)

\* What becomes of a block: nothing, its owner is done with it, a line that writes wait
\* for is there, or it gets an owner.
SameBlock(b) == Alike(blocks'[b], blocks[b]) /\ blocks'[b].IsDirty = blocks[b].IsDirty
Dirtied(t, b) ==
  /\ LineIsThere(t) /\ b = trans[t].block /\ Alike(blocks'[b], blocks[b])
  /\ blocks'[b].IsDirty = (blocks[b].IsDirty \/ WaitingWrites(t) # <<>>)

\* A block does one of these in every step.
LEMMA BlockMoves ==
  ASSUME WInv, Kind, NEW b \in Slots
  PROVE  \/ SameBlock(b)
         \/ \E t \in ReqID : \/ WriteEnds(t, b) \/ LineEnds(t, b) \/ OwnsBlock(t, b)
                             \/ Dirtied(t, b)
<1>0. CASE blocks' = blocks
  BY <1>0 DEF SameBlock, Alike
<1>1. CASE Still \/ (\E r : Comes(r)) \/ Below \/ Pulled \/ Answering
  <2>1. blocks' = blocks
    BY <1>1 DEF Still, Comes, Below, Pulled, Answering, contents
  <2> QED
    BY <1>0, <2>1
<1>2. CASE StepOf
  <2>1. PICK t \in ReqID : OfBank(t) \/ OfBuffer(t) \/ OfDirectory(t)
    BY <1>2 DEF StepOf
  <2>2. CASE OfBank(t)
    <3>1. CASE ReadEnds(t)
      BY <3>1 DEF ReadEnds, SameBlock
    <3>2. CASE OldTaken(t)
      BY <1>0, <3>2 DEF OldTaken
    <3>3. ASSUME NEW c \in Slots, WriteEnds(t, c) PROVE c = b \/ SameBlock(b)
      BY <3>3 DEF WriteEnds, SameBlock, Alike
    <3>4. ASSUME NEW c \in Slots, LineEnds(t, c) PROVE c = b \/ SameBlock(b)
      BY <3>4 DEF LineEnds, SameBlock, Alike
    <3> QED
      BY <2>2, <3>1, <3>2, <3>3, <3>4 DEF OfBank
  <2>3. CASE OfBuffer(t)
    <3>1. ASSUME NEW v \in Nat, NEW s, Fills(t, v, s), LineIsThere(t)
          PROVE SameBlock(b) \/ Dirtied(t, b)
      <4>1. b # trans[t].block => blocks'[b] = blocks[b]
        BY <3>1 DEF Fills
      <4>2. Alike(blocks'[b], blocks[b])
        BY <3>1 DEF Fills, SameBlocks
      <4>3. b = trans[t].block =>
              blocks'[b].IsDirty = (blocks[b].IsDirty \/ WaitingWrites(t) # <<>>)
        BY <3>1 DEF Fills
      <4> QED
        BY <3>1, <4>1, <4>2, <4>3 DEF SameBlock, Dirtied
    <3>2. ASSUME NEW v \in Nat, LineComes(t, v) PROVE SameBlock(b) \/ Dirtied(t, b)
      BY <3>1, <3>2 DEF LineComes, LineIsThere
    <3>3. ASSUME NEW u \in ReqID, LineFound(t, u) PROVE SameBlock(b) \/ Dirtied(t, b)
      BY <3>1, <3>3 DEF LineFound, LineIsThere
    <3> QED
      BY <2>3, <1>0, <3>2, <3>3 DEF OfBuffer, LineAsked, EvictionHeld
  <2>4. CASE OfDirectory(t)
    <3>1. ASSUME NEW e, Joins(t, e) PROVE SameBlock(b)
      BY <1>0, <3>1 DEF Joins, SameBlock, Alike
    <3>2. ASSUME NEW c \in Slots, ReadsBlock(t, c) PROVE SameBlock(b)
      BY <3>2 DEF ReadsBlock, SameBlock
    <3>3. ASSUME NEW c \in Slots, OwnsBlock(t, c) PROVE c = b \/ SameBlock(b)
      BY <3>3 DEF OwnsBlock, Claimed, SameBlock, Alike
    <3> QED
      BY <2>4, <3>1, <3>2, <3>3 DEF OfDirectory
  <2> QED
    BY <2>1, <2>2, <2>3, <2>4
<1> QED
  BY <1>1, <1>2 DEF Kind

\* The bank takes nothing while the write buffer has something to take.
LEMMA AtBankStays ==
  ASSUME WInv, Kind, AtBuffer # {} PROVE AtBank \subseteq AtBank'
<1>1. CASE Still \/ (\E r : Comes(r)) \/ Below \/ Pulled \/ Answering
  BY <1>1 DEF Still, Comes, Below, Pulled, Answering, spots
<1>2. CASE StepOf
  BY <1>2 DEF StepOf, OfBank, ReadEnds, WriteEnds, LineEnds, OldTaken, LeavesBank,
              OfBuffer, LineComes, LineFound, LineAsked, EvictionHeld, NewKept,
              OfDirectory, Joins, ReadsBlock, OwnsBlock
<1> QED
  BY <1>1, <1>2 DEF Kind

\* A transaction has its block, of its line.
LEMMA BlockOf ==
  ASSUME WInv, NEW t \in Busy
  PROVE  /\ t \in ReqID /\ trans[t].block \in Slots /\ blocks[trans[t].block].IsValid
         /\ blocks[trans[t].block].Tag = reqs[t].line
         /\ blocks[trans[t].block].IsLocked <=> ~Reader(trans, t)
BY StoryNow, BusyTyped DEF HoldsBlock

\* A line between the bank and the write buffer is left alone.
LEMMA DepartStep ==
  ASSUME WInv, DepartInv, Kind PROVE DepartInv'
<1>0. Ages
  BY StepAges
<1> SUFFICES ASSUME NEW u \in AtBuffer', trans'[u].action \in Departs
             PROVE  /\ \A b \in Slots :
                         blocks'[b].IsValid /\ blocks'[b].Tag = trans'[u].evictingAddr
                           => blocks'[b].IsLocked
                    /\ \A t \in Busy' : reqs'[t].line = trans'[u].evictingAddr => t \in AtBank'
  BY DEF DepartInv
<1> DEFINE l == trans'[u].evictingAddr
<1>1. CASE OldTaken(u)
  <2>1. /\ u \in Busy /\ trans[u].action \in Evicting /\ UNCHANGED <<blocks, reqs>>
        /\ l = trans[u].evictingAddr /\ Busy' = Busy
    BY <1>1 DEF OldTaken, LeavesBank, OnlyAction
  <2>2. l \in evictingList
    BY <2>1, StoryNow DEF LeavingListed, Leavers
  <2>3. \A b \in Slots : blocks[b].IsValid => blocks[b].Tag # l
    BY <2>2, StoryNow DEF LeavingListed
  <2>4. \A t \in Busy : reqs[t].line # l
    BY <2>3, BlockOf
  <2> QED
    BY <2>1, <2>3, <2>4
<1>2. CASE u \in AtBuffer /\ trans'[u] = trans[u]
  <2>1. /\ \A b \in Slots : blocks[b].IsValid /\ blocks[b].Tag = l => blocks[b].IsLocked
        /\ \A t \in Busy : reqs[t].line = l => t \in AtBank
    BY <1>2 DEF DepartInv
  <2>2. ASSUME NEW b \in Slots, blocks'[b].IsValid, blocks'[b].Tag = l
        PROVE  blocks'[b].IsLocked
    <3>1. CASE SameBlock(b)
      BY <2>1, <2>2, <3>1 DEF SameBlock, Alike
    <3>2. ASSUME NEW t \in ReqID, WriteEnds(t, b) \/ LineEnds(t, b) PROVE FALSE
      <4>1. t \in InBank /\ t \in Busy /\ trans[t].block = b /\ blocks'[b].Tag = blocks[b].Tag
        BY <3>2 DEF WriteEnds, LineEnds, LeavesBank
      <4>2. reqs[t].line = l
        BY <2>2, <4>1, BlockOf
      <4>3. t \in AtBank
        BY <2>1, <4>1, <4>2
      <4> QED
        BY <4>1, <4>3, Apart
    <3>3. ASSUME NEW t \in ReqID, OwnsBlock(t, b) PROVE blocks'[b].IsLocked
      BY <3>3 DEF OwnsBlock, Claimed
    <3>4. ASSUME NEW t \in ReqID, Dirtied(t, b) PROVE blocks'[b].IsLocked
      BY <2>1, <2>2, <3>4 DEF Dirtied, Alike
    <3> QED
      BY <3>1, <3>2, <3>3, <3>4, BlockMoves
  <2>3. ASSUME NEW t \in Busy', reqs'[t].line = l PROVE t \in AtBank'
    <3>1. CASE t \in Busy
      <4>1. reqs'[t] = reqs[t]
        BY <1>0, <3>1, BusyTyped DEF Ages
      <4>2. t \in AtBank
        BY <2>1, <2>3, <3>1, <4>1
      <4> QED
        BY <1>2, <4>2, AtBankStays
    <3>2. CASE t \notin Busy
      BY <3>2, NewBusy DEF ReadsBlock, OwnsBlock
    <3> QED
      BY <3>1, <3>2
  <2> QED
    BY <2>2, <2>3
<1> QED
  BY <1>1, <1>2, NewDepart

\* A step that is over for a write at the bank, or for the writes that wait for a line.
WritesThrough(x) == (\E b \in Slots : WriteEnds(x, b)) \/ LineIsThere(x)
ThroughOf(x, S) ==
  \/ (\E b \in Slots : WriteEnds(x, b)) /\ S = {x}
  \/ LineIsThere(x) /\ S = ListedWrites(x)

\* Its transaction is at work, and more than a read.
LEMMA ThroughIs ==
  ASSUME WInv, NEW x \in ReqID, WritesThrough(x)
  PROVE  /\ x \in Busy /\ ~Reader(trans, x) /\ UNCHANGED <<reqs, Taken>>
         /\ mshr' = mshr \ {x} /\ Busy' \subseteq Busy
         /\ \A u \in ReqID : u # x => trans'[u] = trans[u]
         /\ \A u \in ReqID : entry'[u].requests = entry[u].requests
         /\ x \notin DirectNow'
<1>1. ASSUME NEW b \in Slots, WriteEnds(x, b)
      PROVE  /\ x \in Busy /\ ~Reader(trans, x) /\ UNCHANGED <<reqs, Taken, entry, mshr, trans>>
             /\ x \notin mshr /\ Busy' = Busy \ {x}
  <2>1. x \in Busy /\ trans[x].action = "bankWriteHit"
    BY <1>1 DEF WriteEnds, LeavesBank
  <2>2. x \notin mshr
    BY <2>1, StoryNow DEF EntriesOpen, Fetching
  <2> QED
    BY <1>1, <2>1, <2>2 DEF WriteEnds, LeavesBank, Reader
<1>2. ASSUME NEW v, NEW s, Fills(x, v, s), LineIsThere(x)
      PROVE  /\ x \in Busy /\ ~Reader(trans, x) /\ UNCHANGED <<reqs, Taken>>
             /\ mshr' = mshr \ {x} /\ Busy' = Busy
             /\ \A u \in ReqID : u # x => trans'[u] = trans[u]
             /\ \A u \in ReqID : entry'[u].requests = entry[u].requests
             /\ trans'[x].action = "bankWriteFetched"
  <2>1. x \in Busy /\ trans[x].action = "writeBufferFetch" /\ Busy' = Busy
        /\ UNCHANGED <<reqs, Taken>>
    BY <1>2 DEF LineIsThere, LineComes, LineFound, NewKept
  <2> QED
    BY <1>2, <2>1 DEF Reader, Fills, SameEntries, OnlyAction
<1>3. CASE LineIsThere(x)
  <2>1. \E v, s : Fills(x, v, s)
    BY <1>3 DEF LineIsThere, LineComes, LineFound
  <2>2. x \notin DirectNow'
    BY <1>2, <1>3, <2>1 DEF DirectNow, DirectOf, DirectActions
  <2> QED
    BY <1>2, <1>3, <2>1, <2>2
<1>4. ASSUME NEW b \in Slots, WriteEnds(x, b) PROVE x \notin DirectNow' /\ mshr' = mshr \ {x}
  BY <1>1, <1>4 DEF DirectNow, DirectOf
<1> QED
  BY <1>1, <1>3, <1>4 DEF WritesThrough

\* Then no request of the line is at work.
LEMMA NoneUnderWay ==
  ASSUME WInv, LinesInv, NEW x \in ReqID, WritesThrough(x), NEW t \in UnderWay'
  PROVE  reqs[t].line # reqs[x].line
<1> SUFFICES ASSUME reqs[t].line = reqs[x].line PROVE FALSE
  OBVIOUS
<1>0. /\ x \in Busy /\ ~Reader(trans, x) /\ mshr' = mshr \ {x} /\ Busy' \subseteq Busy
      /\ \A u \in ReqID : u # x => trans'[u] = trans[u]
      /\ \A u \in ReqID : entry'[u].requests = entry[u].requests
      /\ x \notin DirectNow'
  BY ThroughIs
<1>1. CASE t \in DirectNow'
  <2>1. t \in Busy
    BY <1>0, <1>1 DEF DirectNow, DirectOf
  <2>2. t = x
    BY <1>0, <2>1, SoleOfLine
  <2> QED
    BY <1>0, <1>1, <2>2
<1>2. CASE t \in Listed'
  <2>1. PICK e \in mshr' : t \in ToSet(entry'[e].requests)
    BY <1>2 DEF Listed
  <2>2. e \in Busy /\ e \in ReqID /\ e # x
    BY <1>0, <2>1, PlacesNow, BusyTyped
  <2>3. t \in ToSet(entry[e].requests)
    BY <1>0, <2>1, <2>2
  <2>4. reqs[e].line = reqs[x].line
    BY <2>2, <2>3 DEF LinesInv
  <2> QED
    BY <1>0, <2>2, <2>4, SoleOfLine
<1> QED
  BY <1>1, <1>2 DEF UnderWay

\* The writes that get through are those of its line.
LEMMA StepThrough ==
  ASSUME WInv, LedgerInv, ReadersInv, LinesInv, Kind
  PROVE  \/ DoneStays
         \/ \E x \in ReqID : \E S : /\ WritesThrough(x) /\ ThroughOf(x, S) /\ DoneGrows(S)
                                    /\ \A w \in S : reqs[w].line = reqs[x].line
<1>1. CASE \E t \in ReqID, b \in Slots : WriteEnds(t, b) /\ DoneGrows({t})
  <2>1. PICK t \in ReqID, b \in Slots : WriteEnds(t, b) /\ DoneGrows({t})
    BY <1>1
  <2>2. WritesThrough(t) /\ ThroughOf(t, {t})
    BY <2>1 DEF WritesThrough, ThroughOf
  <2> QED
    BY <2>1, <2>2
<1>2. CASE \E t \in ReqID : /\ \/ \E v \in Nat : LineComes(t, v)
                               \/ \E u \in ReqID : LineFound(t, u)
                            /\ DoneGrows(ListedWrites(t))
  <2>1. PICK t \in ReqID : LineIsThere(t) /\ DoneGrows(ListedWrites(t))
    BY <1>2 DEF LineIsThere
  <2>2. WritesThrough(t) /\ ThroughOf(t, ListedWrites(t))
    BY <2>1 DEF WritesThrough, ThroughOf
  <2>3. \A w \in ListedWrites(t) : reqs[w].line = reqs[t].line
    BY ListedWritesAre DEF LinesInv
  <2> QED
    BY <2>1, <2>2, <2>3
<1> QED
  BY <1>1, <1>2, StepDone

\* The requests at work, and the writes done, were taken by the directory.
LEMMA WorkTaken ==
  ASSUME WInv, LedgerInv
  PROVE  /\ UnderWay \subseteq 1 .. Taken /\ Done \subseteq 1 .. Taken
         /\ Done \cap UnderWay = {} /\ \A w \in Done : reqs[w].write
<1>1. DirectNow \subseteq 1 .. Taken
  BY BusyTyped DEF DirectNow, DirectOf
<1>2. Listed \subseteq 1 .. Taken
  <2>1. \A e \in mshr : ToSet(entry[e].requests) \subseteq 1 .. Taken
    BY ListedWritesAre, PlacesNow, BusyTyped
  <2> QED
    BY <2>1 DEF Listed
<1> QED
  BY <1>1, <1>2 DEF UnderWay, Done, DoneOf

\* The writes of a line reach it in order after every step.
LEMMA OrderStep ==
  ASSUME WInv, LedgerInv, ReadersInv, LinesInv, OrderInv, Kind PROVE OrderInv'
<1>0. Ages
  BY StepAges
<1>a. UnderWay \subseteq 1 .. Taken /\ Done \subseteq 1 .. Taken /\ Taken \in Nat
  BY WorkTaken, <1>0 DEF Ages
<1> SUFFICES ASSUME NEW t \in UnderWay', NEW w \in Done', reqs'[w].line = reqs'[t].line
             PROVE  w < t
  BY DEF OrderInv, DoneFor, OfLine
<1>1. ASSUME t \in UnderWay, w \in Done PROVE w < t
  <2>1. reqs'[t] = reqs[t] /\ reqs'[w] = reqs[w]
    BY <1>0, <1>a, <1>1 DEF Ages
  <2> QED
    BY <1>1, <2>1 DEF OrderInv, DoneFor, OfLine
<1>2. CASE DoneStays
  <2>1. w \in Done /\ (t \in UnderWay \/ t > Taken)
    BY <1>2 DEF DoneStays
  <2>2. t \in Int
    <3>1. t \in UnderWay => t \in Int
      BY <1>a
    <3>2. UnderWay' \subseteq UnderWay \cup ReqID
      <4>1. Busy' \subseteq ReqID /\ mshr' \subseteq ReqID
            /\ \A e \in mshr' : ToSet(entry'[e].requests) \subseteq ReqID
        <5>1. \A e \in ReqID : ToSet(entry[e].requests) \subseteq ReqID
          BY SetOfSeq DEF WInv, WTypes, ArrayTypes, EntryType
        <5>2. mshr' \subseteq ReqID
          <6>1. \A u \in mshr' : u \in mshr \/ \E x \in ReqID : u = x
            <7>1. CASE Still \/ (\E r : Comes(r)) \/ Below \/ Pulled \/ Answering
              BY <7>1 DEF Still, Comes, Below, Pulled, Answering, contents
            <7>2. CASE StepOf
              <8>1. PICK x \in ReqID : OfBank(x) \/ OfBuffer(x) \/ OfDirectory(x)
                BY <7>2 DEF StepOf
              <8>2. OfBank(x) => mshr' = mshr
                BY DEF OfBank, ReadEnds, WriteEnds, LineEnds, OldTaken, LeavesBank
              <8>3. OfBuffer(x) => mshr' \subseteq mshr
                BY DEF OfBuffer, LineComes, LineFound, LineAsked, EvictionHeld, Fills
              <8>4. OfDirectory(x) => mshr' \subseteq mshr \cup {x}
                BY DEF OfDirectory, Joins, ReadsBlock, OwnsBlock
              <8> QED
                BY <8>1, <8>2, <8>3, <8>4
            <7> QED
              BY <7>1, <7>2 DEF Kind
          <6> QED
            BY <6>1, PlacesNow, BusyTyped
        <5>3. \A e \in ReqID : ToSet(entry'[e].requests) \subseteq ReqID
          BY <5>1, NewInList
        <5>4. Busy' \subseteq ReqID
          BY NewBusy, BusyTyped
        <5> QED
          BY <5>2, <5>3, <5>4
      <4> QED
        BY <4>1 DEF UnderWay, DirectNow, DirectOf, Listed
    <3> QED
      BY <3>1, <3>2 DEF ReqID
  <2>3. t > Taken => w < t
    BY <1>a, <2>1, <2>2
  <2> QED
    BY <1>1, <2>1, <2>3
<1>3. ASSUME NEW x \in ReqID, NEW S, WritesThrough(x), DoneGrows(S),
             \A u \in S : reqs[u].line = reqs[x].line
      PROVE  w < t
  <2>1. t \in UnderWay /\ (w \in Done \/ w \in S)
    BY <1>3 DEF DoneGrows
  <2>2. reqs[t].line # reqs[x].line /\ reqs' = reqs
    BY <1>3, NoneUnderWay, ThroughIs
  <2>3. w \notin S
    BY <1>3, <2>2
  <2> QED
    BY <1>1, <2>1, <2>3
<1> QED
  BY <1>2, <1>3, StepThrough

\* The last write acknowledged to a line is done.
LEMMA AcknowledgedDone ==
  ASSUME WInv, LedgerInv, NEW l
  PROVE  Acknowledged(l) = 0 \/ Acknowledged(l) \in DoneFor(l)
<1> DEFINE X == {x \in answers : Write(x.rspTo) /\ Line(x.rspTo) = l}
           S == {0} \cup {a.rspTo : a \in X}
<1>0. answers \in SUBSET Response /\ MaxReqs \in Nat
  BY WritebackAssumption DEF WInv, WTypes, PortTypes
<1>1. S \in SUBSET (0 .. MaxReqs) /\ S # {}
  <2>1. \A a \in X : a.rspTo \in 1 .. MaxReqs
    BY <1>0 DEF Response, ReqID
  <2> HIDE DEF X
  <2> QED
    BY <1>0, <2>1
<1>2. Acknowledged(l) = Max(S)
  BY DEF Acknowledged
<1>3. \A x \in X : x.rspTo \in DoneFor(l)
  <2> SUFFICES ASSUME NEW x \in X PROVE x.rspTo \in DoneFor(l)
    OBVIOUS
  <2>1. Ledger(DirectOf(Busy, trans), Taken, ListsOf(entry), Given) /\ x \in Given
    BY DEF LedgerInv, Given, GivenOf
  <2>2. /\ x.rspTo \in 1 .. Taken /\ x.rspTo \notin DirectNow
        /\ \A e \in ReqID : x.rspTo \notin ListsOf(entry)[e]
    BY <2>1 DEF Ledger, DirectNow
  <2>3. \A e \in ReqID : x.rspTo \notin ToSet(entry[e].requests)
    BY <2>2 DEF ListsOf
  <2>4. x.rspTo \notin UnderWay
    BY <2>2, <2>3, PlacesNow, BusyTyped DEF UnderWay, Listed
  <2>5. reqs[x.rspTo].write /\ reqs[x.rspTo].line = l
    BY DEF Write, Line
  <2> QED
    BY <2>2, <2>4, <2>5 DEF DoneFor, OfLine, Done, DoneOf
<1>4. \A n \in S : n = 0 \/ n \in DoneFor(l)
  BY <1>3
<1> HIDE DEF S
<1>5. Max(S) \in S
  BY <1>0, <1>1, MaxInSet
<1> QED
  BY <1>2, <1>4, <1>5

\* A write that is done stays done.
DoneNext(l) == OfLine(Done', reqs', l)
\* Writes that are done stay done, of every line.
LEMMA DoneKept ==
  ASSUME WInv, LedgerInv, ReadersInv, LinesInv, Kind
  PROVE  Done \subseteq Done' /\ \A l : DoneFor(l) \subseteq DoneNext(l)
<1>1. Done \subseteq Done'
  BY StepThrough DEF DoneStays, DoneGrows
<1>2. \A w \in Done : reqs'[w] = reqs[w]
  BY WorkTaken, StepAges DEF Ages
<1> QED
  BY <1>1, <1>2 DEF DoneFor, DoneNext, OfLine

\* Requests stay what they are, and a new one names the last write acknowledged.
LEMMA StepRequests ==
  ASSUME WInv, Kind
  PROVE  \/ reqs' = reqs
         \/ /\ Len(reqs) \in Nat /\ Len(reqs') = Len(reqs) + 1
            /\ \A u \in 1 .. Len(reqs) : reqs'[u] = reqs[u]
            /\ reqs'[Len(reqs) + 1].floor = Acknowledged(reqs'[Len(reqs) + 1].line)
<1>1. CASE Still \/ Below \/ Pulled \/ Answering
  BY <1>1 DEF Still, Below, Pulled, Answering
<1>2. CASE \E r : Comes(r)
  BY <1>2 DEF Comes
<1>3. CASE StepOf
  BY <1>3 DEF StepOf, OfBank, ReadEnds, WriteEnds, LineEnds, OldTaken, LeavesBank,
              OfBuffer, LineComes, LineFound, LineAsked, EvictionHeld, NewKept,
              OfDirectory, Joins, ReadsBlock, OwnsBlock, NextTaken, DirKept
<1> QED
  BY <1>1, <1>2, <1>3 DEF Kind

\* What a read must return is a write done to its line, after every step.
LEMMA FloorStep ==
  ASSUME WInv, LedgerInv, ReadersInv, LinesInv, FloorInv, Kind PROVE FloorInv'
<1>1. SUFFICES ASSUME NEW t \in 1 .. Len(reqs')
               PROVE  reqs'[t].floor = 0 \/ reqs'[t].floor \in DoneNext(reqs'[t].line)
  BY DEF FloorInv, DoneFor, DoneNext
<1>2. \A l : DoneFor(l) \subseteq DoneNext(l)
  BY DoneKept
<1>3. CASE t \in 1 .. Len(reqs) /\ reqs'[t] = reqs[t]
  <2>1. reqs[t].floor = 0 \/ reqs[t].floor \in DoneFor(reqs[t].line)
    BY <1>3 DEF FloorInv
  <2> QED
    BY <1>2, <1>3, <2>1
<1>4. CASE reqs'[t].floor = Acknowledged(reqs'[t].line)
  BY <1>2, <1>4, AcknowledgedDone
<1> QED
  BY <1>1, <1>3, <1>4, StepRequests

(***************************************************************************)
(* What is newer than the contents below                                   *)
(***************************************************************************)
\* A write gets through to its line.
Through(x) ==
  \/ \E b \in Slots : WriteEnds(x, b)
  \/ LineIsThere(x) /\ ListedWrites(x) # {}

\* The writes done to a line stay so, unless some get through.
LEMMA DoneSame ==
  ASSUME WInv, LedgerInv, ReadersInv, LinesInv, Kind, NEW l
  PROVE  DoneNext(l) = DoneFor(l) \/ \E x \in ReqID : Through(x) /\ reqs[x].line = l
<1>0. \A w \in Done : reqs'[w] = reqs[w]
  BY WorkTaken, StepAges DEF Ages
<1>1. Done' = Done => DoneNext(l) = DoneFor(l)
  BY <1>0 DEF DoneNext, DoneFor, OfLine
<1>2. CASE DoneStays
  BY <1>1, <1>2 DEF DoneStays
<1>3. ASSUME NEW x \in ReqID, NEW S, WritesThrough(x), ThroughOf(x, S), DoneGrows(S),
             \A w \in S : reqs[w].line = reqs[x].line
      PROVE  DoneNext(l) = DoneFor(l) \/ (Through(x) /\ reqs[x].line = l)
  <2>1. reqs' = reqs /\ Done \subseteq Done' /\ Done' \subseteq Done \cup S
    BY <1>3, ThroughIs DEF DoneGrows
  <2>2. CASE reqs[x].line # l
    BY <1>3, <2>1, <2>2 DEF DoneNext, DoneFor, OfLine
  <2>3. CASE ~Through(x)
    <3>1. S = {}
      BY <1>3, <2>3 DEF ThroughOf, Through
    <3>2. Done' = Done
      BY <2>1, <3>1
    <3> QED
      BY <1>1, <3>2
  <2> QED
    BY <2>2, <2>3
<1> QED
  BY <1>2, <1>3, StepThrough

\* The writes that get through are the one the bank writes, or those the line waits with.
LEMMA ThroughWrites ==
  ASSUME WInv, LedgerInv, LinesInv, NEW x \in ReqID, WritesThrough(x),
         NEW w \in DoneNext(reqs[x].line), w \notin DoneFor(reqs[x].line)
  PROVE  /\ (\E b \in Slots : WriteEnds(x, b)) => w = x
         /\ LineIsThere(x) => w \in ListedWrites(x)
<1>0. /\ x \in Busy /\ ~Reader(trans, x) /\ UNCHANGED <<reqs, Taken>>
  BY ThroughIs
<1>1. w \in UnderWay /\ reqs[w].write /\ reqs[w].line = reqs[x].line
  BY <1>0 DEF DoneNext, DoneFor, OfLine, Done, DoneOf
<1>2. CASE w \in DirectNow
  <2>1. w \in Busy /\ trans[w].action \in DirectActions
    BY <1>2 DEF DirectNow, DirectOf
  <2>2. w = x
    BY <1>0, <1>1, <2>1, SoleOfLine
  <2>3. ~LineIsThere(x)
    BY <2>1, <2>2 DEF LineIsThere, LineComes, LineFound, DirectActions
  <2> QED
    BY <2>2, <2>3
<1>3. CASE w \in Listed
  <2>1. PICK e \in mshr : w \in ToSet(entry[e].requests)
    BY <1>3 DEF Listed
  <2>2. e \in Busy /\ e \in ReqID
    BY PlacesNow, BusyTyped
  <2>3. reqs[e].line = reqs[x].line
    BY <1>1, <2>1, <2>2 DEF LinesInv
  <2>4. e = x
    BY <1>0, <2>2, <2>3, SoleOfLine
  <2>5. w \in ListedWrites(x)
    BY <1>1, <2>1, <2>4, ListedWritesAre
  <2>6. ASSUME NEW b \in Slots, WriteEnds(x, b) PROVE FALSE
    <3>1. trans[x].action = "bankWriteHit"
      BY <2>6 DEF WriteEnds
    <3>2. trans[x].action \in Fetching
      BY <2>4, StoryNow DEF EntriesOpen
    <3> QED
      BY <3>1, <3>2 DEF Fetching
  <2> QED
    BY <2>5, <2>6
<1> QED
  BY <1>1, <1>2, <1>3 DEF UnderWay

\* The story after the step.
LEMMA StoryNext ==
  WInv' => /\ HoldsBlock(Busy', trans', blocks', reqs') /\ OneOwner(Busy', trans')
           /\ TagsApart(blocks')
<1> SUFFICES ASSUME WInv'
             PROVE  /\ HoldsBlock(Busy', trans', blocks', reqs') /\ OneOwner(Busy', trans')
                    /\ TagsApart(blocks')
  OBVIOUS
<1>1. Story(All(AtBank', InBank', AtBuffer', GoingBack', inflightFetch'),
            trans', blocks', entry', mshr', evictingList', reqs')
  BY DEF WInv, WorldInv, World
<1>2. Story(Busy', trans', blocks', entry', mshr', evictingList', reqs')
  BY <1>1, BusyNext
<1> QED
  BY <1>2 DEF Story

\* After it a block that is unlocked is at most read, ...
LEMMA UnlockedNext ==
  ASSUME WInv', NEW b \in Slots, ~blocks'[b].IsLocked, NEW t \in Busy', trans'[t].block = b
  PROVE  trans'[t].action = "bankReadHit"
<1>1. Reader(trans', t)
  BY StoryNext DEF HoldsBlock
<1> QED
  BY <1>1 DEF Reader

\* ... so that it is newer when it is dirty.
LEMMA NewerUnlocked ==
  ASSUME WInv', NEW b \in Slots, blocks'[b].IsValid, ~blocks'[b].IsLocked, blocks'[b].IsDirty
  PROVE  Newer(b)'
<1>1. \A t \in Busy' : trans'[t].block = b =>
         trans'[t].action \notin Fetching /\ trans'[t].action # "bankWriteFetched"
  BY UnlockedNext DEF Fetching
<1> QED
  BY <1>1 DEF Newer

\* One that is locked is newer when its owner does not fetch.
LEMMA NewerLocked ==
  ASSUME WInv', NEW b \in Slots, blocks'[b].IsValid, blocks'[b].IsLocked,
         NEW x \in Busy', trans'[x].block = b, ~Reader(trans', x),
         trans'[x].action \notin Fetching,
         trans'[x].action = "bankWriteFetched" => blocks'[b].IsDirty
  PROVE  Newer(b)'
<1>1. \A t \in Busy' : trans'[t].block = b => t = x
  BY StoryNext DEF HoldsBlock, OneOwner
<1> QED
  BY <1>1 DEF Newer

\* A line a write gets through to is newer in its block.
LEMMA NewerThrough ==
  ASSUME WInv, WInv', LedgerInv, NEW x \in ReqID, Through(x)
  PROVE  ~Relied(reqs[x].line)'
<1>0. x \in Busy /\ ~Reader(trans, x) /\ reqs' = reqs
  BY ThroughIs DEF Through, WritesThrough
<1>a. PICK b \in Slots : /\ b = trans[x].block /\ blocks[b].IsValid
                         /\ blocks[b].Tag = reqs[x].line /\ blocks[b].IsLocked
  BY <1>0, BlockOf
<1>1. CASE \E c \in Slots : WriteEnds(x, c)
  <2>1. WriteEnds(x, b)
    BY <1>1, <1>a DEF WriteEnds
  <2>2. Newer(b)'
    BY <1>a, <2>1, NewerUnlocked DEF WriteEnds
  <2>3. blocks'[b].Tag = reqs'[x].line
    BY <1>0, <1>a, <2>1 DEF WriteEnds
  <2> QED
    BY <1>a, <2>2, <2>3 DEF Relied
<1>2. ASSUME NEW v, NEW s, Fills(x, v, s), LineIsThere(x), ListedWrites(x) # {}
      PROVE  ~Relied(reqs[x].line)'
  <2>1. /\ trans'[x].action = "bankWriteFetched" /\ trans'[x].block = b
        /\ Alike(blocks'[b], blocks[b])
        /\ blocks'[b].IsDirty = (blocks[b].IsDirty \/ WaitingWrites(x) # <<>>)
    BY <1>2, <1>a DEF Fills, SameBlocks, OnlyAction
  <2>2. WaitingWrites(x) # <<>>
    BY <1>2, ListedWritesAre
  <2>3. x \in Busy'
    BY <1>0, <1>2 DEF LineIsThere, LineComes, LineFound
  <2>4. blocks'[b].IsValid /\ blocks'[b].IsLocked /\ blocks'[b].IsDirty
        /\ blocks'[b].Tag = reqs'[x].line
    BY <1>0, <1>a, <2>1, <2>2 DEF Alike
  <2>5. ~Reader(trans', x) /\ trans'[x].action \notin Fetching
    BY <2>1 DEF Reader, Fetching
  <2>6. Newer(b)'
    BY <1>a, <2>1, <2>3, <2>4, <2>5, NewerLocked
  <2> QED
    BY <1>a, <2>4, <2>6 DEF Relied
<1>3. CASE LineIsThere(x) /\ ListedWrites(x) # {}
  BY <1>2, <1>3 DEF LineIsThere, LineComes, LineFound
<1> QED
  BY <1>1, <1>3 DEF Through

\* A block is left for another line, and its old contents are to be evicted.
LineLeaves(t, b) ==
  /\ OwnsBlock(t, b) /\ trans'[t].action \in Evicting /\ NeedEviction(b)
  /\ Lookup(Line(t)) = {}

\* The owner of a block leaves its line there, or evicts it, ...
LEMMA OwnsHow ==
  ASSUME WInv, NEW t \in ReqID, NEW b \in Slots, OwnsBlock(t, b)
  PROVE  /\ t \in Busy' /\ t = Taken + 1 /\ t \notin Busy /\ ~blocks[b].IsLocked
         /\ trans'[t].block = b /\ blocks'[b].IsValid /\ blocks'[b].IsLocked
         /\ blocks'[b].Tag = reqs[t].line
         /\ \/ LineLeaves(t, b) /\ trans'[t].evictingAddr = blocks[b].Tag
            \/ /\ trans'[t].action = "bankWriteHit" /\ blocks[b].IsValid
               /\ blocks[b].Tag = reqs[t].line
            \/ trans'[t].action \in {"bankWriteHit", "writeBufferFetch"} /\ ~NeedEviction(b)
<1>1. /\ t \in Busy' /\ t = Taken + 1 /\ t \notin Busy /\ trans'[t].block = b
      /\ blocks'[b].IsValid /\ blocks'[b].IsLocked /\ blocks'[b].Tag = reqs[t].line
      /\ OwnsFor(t, b) /\ Claimable(b, reqs[t].line, blocks, evictingList)
      /\ Leaves(trans'[t], reqs[t].line, blocks[b], evictingList, evictingList')
  BY DEF OwnsBlock, NextTaken, Claimed
<1>2. ~blocks[b].IsLocked
  BY <1>1 DEF Claimable, Unclaimed
<1>3. CASE trans'[t].action \in Evicting
  <2>1. Lookup(Line(t)) = {} /\ NeedEviction(b)
    BY <1>1, <1>3 DEF OwnsFor, Evicting
  <2>2. trans'[t].evictingAddr = blocks[b].Tag
    BY <1>1, <1>3 DEF Leaves
  <2> QED
    BY <1>1, <1>2, <1>3, <2>1, <2>2 DEF LineLeaves
<1>4. CASE trans'[t].action = "bankWriteHit" /\ Spares(t, b)
  <2>1. CASE Lookup(Line(t)) = {}
    BY <1>1, <1>2, <1>4, <2>1 DEF Spares
  <2>2. CASE Lookup(Line(t)) # {}
    <3>1. PICK c \in Slots : blocks[c].IsValid /\ blocks[c].Tag = reqs[t].line
      <4>1. SetOf[Line(t)] \subseteq Slots
        BY <1>1, WritebackAssumption DEF Claimable, Line
      <4> QED
        BY <2>2, <4>1 DEF Lookup, Line
    <3>2. c = b
      BY <1>1, <3>1 DEF Claimable
    <3> QED
      BY <1>1, <1>2, <1>4, <3>1, <3>2
  <2> QED
    BY <2>1, <2>2
<1>5. CASE trans'[t].action = "writeBufferFetch"
  BY <1>1, <1>2, <1>5 DEF OwnsFor, Evicting
<1> QED
  BY <1>1, <1>3, <1>4, <1>5 DEF OwnsFor, Evicting

\* ... so that what is newer stays newer but in a block that is left.
LEMMA NewerStays ==
  ASSUME WInv, WInv', Kind, NEW b \in Slots, Newer(b)
  PROVE  \/ Newer(b)' /\ blocks'[b].Tag = blocks[b].Tag
         \/ \E t \in ReqID : LineLeaves(t, b)
<1>0. /\ blocks[b].IsValid /\ (~blocks[b].IsLocked => blocks[b].IsDirty)
      /\ \A t \in Busy : trans[t].block = b =>
           /\ trans[t].action \notin Fetching
           /\ trans[t].action = "bankWriteFetched" => blocks[b].IsDirty
  BY DEF Newer
<1>1. CASE SameBlock(b)
  <2>1. /\ blocks'[b].IsValid /\ (~blocks'[b].IsLocked => blocks'[b].IsDirty)
        /\ blocks'[b].IsDirty = blocks[b].IsDirty /\ blocks'[b].Tag = blocks[b].Tag
    BY <1>0, <1>1 DEF SameBlock, Alike
  <2>2. ASSUME NEW t \in Busy', trans'[t].block = b
        PROVE  /\ trans'[t].action \notin Fetching
               /\ trans'[t].action = "bankWriteFetched" => blocks'[b].IsDirty
    <3>1. CASE t \in Busy /\ trans'[t] = trans[t]
      BY <1>0, <2>1, <2>2, <3>1
    <3>2. CASE t \notin Busy
      <4>1. PICK c \in Slots : t \in ReqID /\ (ReadsBlock(t, c) \/ OwnsBlock(t, c))
        BY <3>2, NewBusy
      <4>2. trans'[t].block = c
        BY <4>1 DEF ReadsBlock, OwnsBlock
      <4>3. c = b
        BY <2>2, <4>2
      <4>4. ~OwnsBlock(t, b)
        BY <1>1, <4>1, OwnsHow DEF SameBlock, Alike
      <4> QED
        BY <4>1, <4>3, <4>4 DEF ReadsBlock, Fetching
    <3>3. CASE t \in Busy /\ GoesTo(t)
      <4>1. trans[t].action \notin Fetching
        BY <1>0, <2>2, <3>3 DEF GoesTo, OnlyAction
      <4>2. trans'[t].action \notin Filling
        BY <3>3, <4>1 DEF GoesTo
      <4> QED
        BY <4>2 DEF Filling
    <3> QED
      BY <3>1, <3>2, <3>3, WorkMoves
  <2> QED
    BY <2>1, <2>2 DEF Newer
<1>2. ASSUME NEW x \in ReqID, WriteEnds(x, b) PROVE Newer(b)' /\ blocks'[b].Tag = blocks[b].Tag
  BY <1>2, NewerUnlocked DEF WriteEnds
<1>3. ASSUME NEW x \in ReqID, LineEnds(x, b) PROVE Newer(b)' /\ blocks'[b].Tag = blocks[b].Tag
  <2>1. blocks[b].IsDirty
    BY <1>0, <1>3 DEF LineEnds, LeavesBank
  <2> QED
    BY <1>3, <2>1, NewerUnlocked DEF LineEnds
<1>4. ASSUME NEW x \in ReqID, OwnsBlock(x, b)
      PROVE  LineLeaves(x, b) \/ (Newer(b)' /\ blocks'[b].Tag = blocks[b].Tag)
  <2>1. CASE trans'[x].action = "bankWriteHit" /\ blocks[b].Tag = reqs[x].line
    <3>1. ~Reader(trans', x) /\ trans'[x].action \notin Fetching
          /\ trans'[x].action # "bankWriteFetched"
      BY <2>1 DEF Reader, Fetching
    <3> QED
      BY <1>4, <2>1, <3>1, OwnsHow, NewerLocked
  <2>2. ~blocks[b].IsLocked
    BY <1>4, OwnsHow
  <2>3. NeedEviction(b)
    BY <1>0, <2>2 DEF NeedEviction
  <2> QED
    BY <1>4, <2>1, <2>3, OwnsHow
<1>5. ASSUME NEW x \in ReqID, Dirtied(x, b) PROVE FALSE
  BY <1>0, <1>5 DEF Dirtied, LineIsThere, LineComes, LineFound, Fetching
<1> QED
  BY <1>1, <1>2, <1>3, <1>4, <1>5, BlockMoves

\* What a line loses is what its block is left with.
LEMMA ReliedBefore ==
  ASSUME WInv, WInv', Kind, NEW l, Relied(l)', ~Relied(l)
  PROVE  \E t \in ReqID, b \in Slots : LineLeaves(t, b) /\ blocks[b].Tag = l
<1>1. PICK b \in Slots : Newer(b) /\ blocks[b].Tag = l
  BY DEF Relied
<1>2. ~(Newer(b)' /\ blocks'[b].Tag = l)
  BY DEF Relied
<1> QED
  BY <1>1, <1>2, NewerStays

(***************************************************************************)
(* What a fetch may find, step by step                                     *)
(***************************************************************************)
\* A transaction at work that changes is given to the write buffer, taken by it, or gets
\* its line.
LEMMA ChangedHow ==
  ASSUME WInv, Kind, NEW t \in Busy, trans'[t] # trans[t]
  PROVE  t \in ReqID /\ (OldTaken(t) \/ LineIsThere(t) \/ EvictionHeld(t))
<1>0. t \in ReqID
  BY BusyTyped
<1>1. ~(Still \/ (\E r : Comes(r)) \/ Below \/ Pulled \/ Answering)
  BY DEF Still, Comes, Below, Pulled, Answering, contents
<1>2. PICK x \in ReqID : OfBank(x) \/ OfBuffer(x) \/ OfDirectory(x)
  BY <1>1 DEF Kind, StepOf
<1>3. ~OfDirectory(x)
  <2>1. NextTaken(x) => trans'[t] = trans[t]
    BY <1>0 DEF NextTaken
  <2> QED
    BY <2>1 DEF OfDirectory, Joins, ReadsBlock, OwnsBlock
<1>4. CASE OfBank(x)
  <2>1. OldTaken(x)
    BY <1>4 DEF OfBank, ReadEnds, WriteEnds, LineEnds
  <2>2. x = t
    BY <1>0, <2>1 DEF OldTaken, OnlyAction
  <2> QED
    BY <1>0, <2>1, <2>2
<1>5. CASE OfBuffer(x)
  <2>1. OnlyAction(x, trans, trans') => x = t
    BY <1>0 DEF OnlyAction
  <2>2. LineIsThere(x) \/ EvictionHeld(x)
    BY <1>5 DEF OfBuffer, LineAsked, LineIsThere
  <2>3. OnlyAction(x, trans, trans')
    BY <2>2 DEF LineIsThere, LineComes, LineFound, Fills, EvictionHeld
  <2> QED
    BY <1>0, <2>1, <2>2, <2>3
<1> QED
  BY <1>2, <1>3, <1>4, <1>5

\* The contents of a block change when its owner is done with it.
LEMMA StorageMoves ==
  ASSUME WInv, Kind, NEW b \in Slots
  PROVE  storage'[b] = storage[b] \/ \E x \in ReqID : WriteEnds(x, b) \/ LineEnds(x, b)
<1>1. CASE Still \/ (\E r : Comes(r)) \/ Below \/ Pulled \/ Answering
  BY <1>1 DEF Still, Comes, Below, Pulled, Answering, contents
<1>2. CASE StepOf
  <2>1. PICK x \in ReqID : OfBank(x) \/ OfBuffer(x) \/ OfDirectory(x)
    BY <1>2 DEF StepOf
  <2>2. CASE OfBank(x)
    <3>1. ASSUME NEW c \in Slots, WriteEnds(x, c) \/ LineEnds(x, c)
          PROVE  storage'[b] = storage[b] \/ c = b
      BY <3>1 DEF WriteEnds, LineEnds
    <3> QED
      BY <2>2, <3>1 DEF OfBank, ReadEnds, OldTaken
  <2>3. CASE OfBuffer(x) \/ OfDirectory(x)
    BY <2>3 DEF OfBuffer, LineComes, LineFound, LineAsked, EvictionHeld, NewKept,
                OfDirectory, Joins, ReadsBlock, OwnsBlock, NextTaken, DirKept
  <2> QED
    BY <2>1, <2>2, <2>3
<1> QED
  BY <1>1, <1>2 DEF Kind

\* What a transaction evicts changes when the bank takes it, or writes wait for it.
LEMMA DataMoves ==
  ASSUME WInv, Kind, NEW u \in ReqID
  PROVE  evictingData'[u] = evictingData[u] \/ OldTaken(u) \/ \E t \in ReqID : LineFound(t, u)
<1>1. CASE Still \/ (\E r : Comes(r)) \/ Below \/ Pulled \/ Answering
  BY <1>1 DEF Still, Comes, Below, Pulled, Answering, contents
<1>2. CASE StepOf
  <2>1. PICK x \in ReqID : OfBank(x) \/ OfBuffer(x) \/ OfDirectory(x)
    BY <1>2 DEF StepOf
  <2>2. CASE OfBank(x)
    BY <2>2 DEF OfBank, ReadEnds, WriteEnds, LineEnds, OldTaken
  <2>3. CASE OfBuffer(x)
    BY <2>3 DEF OfBuffer, LineComes, LineFound, LineAsked, EvictionHeld
  <2>4. CASE OfDirectory(x)
    BY <2>4 DEF OfDirectory, Joins, ReadsBlock, OwnsBlock, NextTaken, DirKept
  <2> QED
    BY <2>1, <2>2, <2>3, <2>4
<1> QED
  BY <1>1, <1>2 DEF Kind

\* The transactions that hold the old contents of a line in its block.
LEMMA LeaversMove ==
  ASSUME WInv, Kind, NEW l, NEW t \in LeaversOf(l)'
  PROVE  \/ t \in LeaversOf(l) /\ storage'[trans'[t].block] = storage[trans[t].block]
         \/ t \in ReqID /\ \E b \in Slots : LineLeaves(t, b) /\ blocks[b].Tag = l
<1>0. t \in Busy' /\ trans'[t].action \in Evicting /\ trans'[t].evictingAddr = l
  BY DEF LeaversOf, Leavers
<1>1. CASE t \in Busy
  <2>1. trans'[t] = trans[t]
    <3>1. ~OldTaken(t)
      BY <1>0 DEF OldTaken, Evicting
    <3>2. ~LineIsThere(t)
      BY <1>0 DEF LineIsThere, LineComes, LineFound, Fills, Evicting
    <3>3. ~EvictionHeld(t)
      BY <1>0 DEF EvictionHeld, Evicting
    <3> QED
      BY <1>1, <3>1, <3>2, <3>3, ChangedHow
  <2>2. t \in LeaversOf(l)
    BY <1>0, <1>1, <2>1 DEF LeaversOf, Leavers
  <2>3. trans[t].block \in Slots /\ ~Reader(trans, t)
    BY <1>0, <1>1, <2>1, BlockOf DEF Reader, Evicting
  <2>4. ASSUME NEW x \in ReqID, WriteEnds(x, trans[t].block) \/ LineEnds(x, trans[t].block)
        PROVE  FALSE
    <3>1. /\ x \in Busy /\ trans[x].action \in {"bankWriteHit", "bankWriteFetched"}
          /\ trans[x].block = trans[t].block
      BY <2>4 DEF WriteEnds, LineEnds, LeavesBank
    <3>2. x = t
      BY <1>1, <2>3, <3>1, StoryNow DEF OneOwner, Reader
    <3> QED
      BY <1>0, <2>1, <3>1, <3>2 DEF Evicting
  <2>5. storage'[trans[t].block] = storage[trans[t].block]
    BY <2>3, <2>4, StorageMoves
  <2> QED
    BY <2>1, <2>2, <2>5
<1>2. CASE t \notin Busy
  <2>1. PICK b \in Slots : t \in ReqID /\ (ReadsBlock(t, b) \/ OwnsBlock(t, b))
    BY <1>0, <1>2, NewBusy
  <2>2. OwnsBlock(t, b)
    BY <1>0, <2>1 DEF ReadsBlock, Evicting
  <2>3. LineLeaves(t, b) /\ trans'[t].evictingAddr = blocks[b].Tag
    BY <1>0, <2>1, <2>2, OwnsHow DEF Evicting
  <2> QED
    BY <1>0, <2>1, <2>3
<1> QED
  BY <1>1, <1>2

\* They leave it when the bank takes the contents out, ...
LEMMA LeaversLeft ==
  ASSUME WInv, Kind, NEW l, NEW t \in LeaversOf(l), t \notin LeaversOf(l)'
  PROVE  t \in ReqID /\ OldTaken(t)
<1>0. t \in Busy /\ trans[t].action \in Evicting /\ trans[t].evictingAddr = l /\ t \in ReqID
  BY BusyTyped DEF LeaversOf, Leavers
<1>1. t \in Busy'
  <2>1. ~Past(trans, t)
    BY <1>0 DEF Past
  <2> QED
    BY <1>0, <2>1, StepMoves DEF Moves, Unchanged, Ends, GoesTo, IsTaken
<1>2. trans'[t] # trans[t]
  BY <1>0, <1>1 DEF LeaversOf, Leavers
<1> QED
  BY <1>0, <1>2, ChangedHow DEF LineIsThere, LineComes, LineFound, EvictionHeld, Evicting

\* Those that hold them between the bank and the write buffer.
LEMMA DepartsMove ==
  ASSUME WInv, EvsInv, Kind, NEW l, NEW u \in DepartsOf(l)'
  PROVE  \/ u \in DepartsOf(l) /\ evictingData'[u] = evictingData[u]
         \/ OldTaken(u) /\ u \in LeaversOf(l)
<1>0. u \in AtBuffer' /\ trans'[u].action \in Departs /\ trans'[u].evictingAddr = l
  BY DEF DepartsOf
<1>1. u \in ReqID /\ (OldTaken(u) \/ (u \in AtBuffer /\ trans'[u] = trans[u]))
  BY <1>0, NewDepart
<1>2. CASE OldTaken(u)
  BY <1>0, <1>2 DEF OldTaken, LeavesBank, OnlyAction, LeaversOf, Leavers
<1>3. CASE ~OldTaken(u)
  <2>1. u \in DepartsOf(l) /\ trans[u].action \in Departs
    BY <1>0, <1>1, <1>3 DEF DepartsOf
  <2>2. u \notin Evs
    BY <2>1 DEF EvsInv, Past
  <2>3. \A t \in ReqID : ~LineFound(t, u)
    BY <2>2 DEF LineFound
  <2> QED
    BY <1>1, <1>3, <2>1, <2>3, DataMoves
<1> QED
  BY <1>2, <1>3

\* ... and leave for the write buffer.
LEMMA DepartsLeft ==
  ASSUME WInv, Kind, NEW l, NEW u \in DepartsOf(l), u \notin DepartsOf(l)'
  PROVE  u \in ReqID /\ EvictionHeld(u)
<1>0. /\ u \in AtBuffer /\ trans[u].action \in Departs /\ trans[u].evictingAddr = l
      /\ u \in Busy /\ u \in ReqID
  BY Apart, BusyTyped DEF DepartsOf
<1>1. CASE trans'[u] # trans[u]
  BY <1>0, <1>1, ChangedHow DEF OldTaken, Evicting, Departs, LineIsThere, LineComes, LineFound
<1>2. CASE trans'[u] = trans[u]
  <2>1. u \notin AtBuffer'
    BY <1>0, <1>2 DEF DepartsOf
  <2>2. ~(Still \/ (\E r : Comes(r)) \/ Below \/ Pulled \/ Answering)
    BY <1>0, <2>1 DEF Still, Comes, Below, Pulled, Answering, spots
  <2>3. PICK x \in ReqID : OfBank(x) \/ OfBuffer(x) \/ OfDirectory(x)
    BY <2>2 DEF Kind, StepOf
  <2>4. ~OfBank(x) /\ ~OfDirectory(x)
    BY <1>0, <2>1 DEF OfBank, ReadEnds, WriteEnds, LineEnds, OldTaken, OfDirectory, Joins,
                      ReadsBlock, OwnsBlock, NextTaken, DirKept
  <2>5. OfBuffer(x)
    BY <2>3, <2>4
  <2>6. x = u \/ AtBuffer' = AtBuffer
    BY <1>0, <2>5 DEF OfBuffer, LineComes, LineFound, LineAsked, EvictionHeld
  <2>7. OfBuffer(u)
    BY <1>0, <2>1, <2>5, <2>6
  <2> QED
    BY <1>0, <2>1, <2>7 DEF OfBuffer, LineComes, LineFound, LineAsked, Departs
<1> QED
  BY <1>1, <1>2

\* The evictions that are not written below are held.
LEMMA UnwrittenHeld == WriteAskInv => Unwritten \subseteq Evs
BY DEF WriteAskInv, WriteAsks, Unwritten, Evs

\* The contents below change when an eviction is written.
LEMMA MemMoves ==
  ASSUME WInv, WriteAskInv, EvsInv, MessageInv, Kind, NEW l \in Lines,
         UnwrittenOf(l)' = {}
  PROVE  \/ UnwrittenOf(l) = {} /\ mem'[l] = mem[l]
         \/ \E u \in EvsOf(l) : /\ mem'[l] = evictingData[u]
                                /\ UNCHANGED <<spots, contents>>
<1>0. \A u \in Unwritten : u \in ReqID /\ trans'[u].evictingAddr = trans[u].evictingAddr
  <2>1. Unwritten \subseteq 1 .. Taken
    BY UnwrittenHeld DEF EvsInv
  <2> QED
    BY <2>1, StepAges, PlacesNow DEF Ages
<1>1. ASSUME Unwritten \subseteq Unwritten' PROVE UnwrittenOf(l) = {}
  BY <1>0, <1>1 DEF UnwrittenOf
<1>2. CASE Below
  <2>0. UNCHANGED <<spots, contents>> /\ trans' = trans
    BY <1>2 DEF Below, contents
  <2>1. CASE ~MessageServed /\ Unwritten' = Unwritten
    <3>1. mem' = mem
      BY <1>2, <2>1 DEF Below, EvictionSent, MessageSent, WriteDone
    <3> QED
      BY <1>1, <2>1, <3>1
  <2>2. CASE EvsStay /\ MessageServed /\ ~Head(lowReqs).write
    <3>1. mem' = mem
      BY <2>2 DEF MessageServed
    <3> QED
      BY <1>1, <2>2, <3>1 DEF EvsStay
  <2>3. ASSUME NEW r, r = Head(lowReqs), MessageServed, r.write, r.of \in Evs,
               Unwritten' = Unwritten \ {r.of}
        PROVE  \/ UnwrittenOf(l) = {} /\ mem'[l] = mem[l]
               \/ \E u \in EvsOf(l) : /\ mem'[l] = evictingData[u]
                                      /\ UNCHANGED <<spots, contents>>
    <3>1. lowReqs # <<>> /\ mem' = [mem EXCEPT ![r.line] = evictingData[r.of]]
      BY <2>3 DEF MessageServed
    <3>2. r.line = trans[r.of].evictingAddr
      <4>1. lowReqs \in Seq(ReadMsg \cup WriteMsg) /\ LinesTold(lowReqs, trans, reqs)
        BY MessagesTyped DEF MessageInv
      <4> QED
        BY <2>3, <3>1, <4>1, ToldTaken
    <3>3. mem \in [Lines -> Nat]
      BY DEF WInv, WTypes, PortTypes
    <3>4. CASE r.line = l
      <4>1. r.of \in EvsOf(l) /\ mem'[l] = evictingData[r.of]
        BY <2>3, <3>1, <3>2, <3>3, <3>4 DEF EvsOf
      <4> QED
        BY <2>0, <4>1
    <3>5. CASE r.line # l
      <4>1. mem'[l] = mem[l]
        BY <3>1, <3>3, <3>5
      <4>2. UnwrittenOf(l)' = UnwrittenOf(l)
        BY <2>0, <2>3, <3>2, <3>5 DEF UnwrittenOf
      <4> QED
        BY <4>1, <4>2
    <3> QED
      BY <3>4, <3>5
  <2> QED
    BY <1>2, <2>1, <2>2, <2>3, BelowWrites DEF EvsStay
<1>3. CASE ~Below
  <2>1. mem' = mem
    <3>1. CASE Still \/ (\E r : Comes(r)) \/ Pulled \/ Answering
      BY <3>1 DEF Still, Comes, Pulled, Answering, messages
    <3>2. CASE StepOf
      BY <3>2 DEF StepOf, OfBank, ReadEnds, WriteEnds, LineEnds, OldTaken, LeavesBank,
                  OfBuffer, LineComes, LineFound, LineAsked, EvictionHeld, NewKept,
                  OfDirectory, Joins, ReadsBlock, OwnsBlock, NextTaken, DirKept, messages
    <3> QED
      BY <1>3, <3>1, <3>2 DEF Kind
  <2>2. Unwritten \subseteq Unwritten'
    BY <1>3, StepWrites DEF EvsStay
  <2> QED
    BY <1>1, <2>1, <2>2
<1> QED
  BY <1>2, <1>3

\* An eviction of a line is held, with what it held, or is taken, or is the one a fetch of
\* the line that writes wait for finds.
LEMMA EvsMove ==
  ASSUME WInv, LedgerInv, WriteAskInv, EvsInv, Kind, NEW l, NEW u \in EvsOf(l)'
  PROVE  \/ u \in EvsOf(l) /\ evictingData'[u] = evictingData[u]
         \/ EvictionHeld(u) /\ u \in DepartsOf(l)
         \/ \E x \in ReqID : Through(x) /\ reqs[x].line = l
<1>0. u \in Evs' /\ trans'[u].evictingAddr = l
  BY DEF EvsOf
<1>1. CASE u \notin Evs
  <2>1. u \in ReqID /\ EvictionHeld(u)
    BY <1>0, <1>1, NewEvs
  <2>2. u \in DepartsOf(l)
    BY <1>0, <2>1 DEF EvictionHeld, OnlyAction, DepartsOf, Departs
  <2> QED
    BY <2>1, <2>2
<1>2. CASE u \in Evs
  <2>1. u \in 1 .. Taken /\ Past(trans, u) /\ u \in ReqID
    BY <1>2, PlacesNow DEF EvsInv
  <2>2. trans[u].evictingAddr = l
    BY <1>0, <2>1, StepAges DEF Ages
  <2>3. u \in EvsOf(l)
    BY <1>2, <2>2 DEF EvsOf
  <2>4. ~OldTaken(u)
    BY <2>1 DEF OldTaken, Past
  <2>5. ASSUME NEW t \in ReqID, LineFound(t, u), evictingData'[u] # evictingData[u]
        PROVE  Through(t) /\ reqs[t].line = l
    <3>1. evictingData'[u] = Combined(t, evictingData[u]) /\ reqs[t].line = l
      BY <2>2, <2>5 DEF LineFound
    <3>2. WaitingWrites(t) # <<>>
      BY <2>5, <3>1 DEF Combined
    <3>3. ListedWrites(t) # {}
      BY <3>2, ListedWritesAre
    <3>4. LineIsThere(t)
      BY <2>1, <2>5 DEF LineIsThere
    <3> QED
      BY <3>1, <3>3, <3>4 DEF Through
  <2> QED
    BY <2>1, <2>3, <2>4, <2>5, DataMoves
<1> QED
  BY <1>1, <1>2

\* What a fetch may find it could find before, but for what leaves its block.
LEMMA OldMoves ==
  ASSUME WInv, LedgerInv, WriteAskInv, EvsInv, MessageInv, OneEviction', Kind,
         NEW l \in Lines, NEW v, Old(l, v)',
         ~\E x \in ReqID : Through(x) /\ reqs[x].line = l,
         ~\E t \in ReqID, b \in Slots : LineLeaves(t, b) /\ blocks[b].Tag = l
  PROVE  Old(l, v)
<1>1. ASSUME NEW t \in LeaversOf(l)', v = storage'[trans'[t].block] PROVE Old(l, v)
  <2>1. t \in LeaversOf(l) /\ v = storage[trans[t].block]
    BY <1>1, LeaversMove
  <2> QED
    BY <2>1 DEF Old
<1>2. ASSUME NEW u \in DepartsOf(l)', v = evictingData'[u] PROVE Old(l, v)
  <2>1. CASE u \in DepartsOf(l) /\ evictingData'[u] = evictingData[u]
    BY <1>2, <2>1 DEF Old
  <2>2. CASE OldTaken(u) /\ u \in LeaversOf(l)
    BY <1>2, <2>2 DEF Old, OldTaken
  <2> QED
    BY <2>1, <2>2, DepartsMove
<1>3. ASSUME LeaversOf(l)' = {}, DepartsOf(l)' = {},
             \/ \E t \in EvsOf(l)' : v = evictingData'[t]
             \/ UnwrittenOf(l)' = {} /\ v = mem'[l]
      PROVE  Old(l, v)
  <2>1. LeaversOf(l) = {}
    <3>1. ASSUME NEW t \in LeaversOf(l) PROVE FALSE
      <4>1. OldTaken(t)
        BY <1>3, <3>1, LeaversLeft
      <4>2. t \in AtBuffer' /\ trans'[t].action \in Departs /\ trans'[t].evictingAddr = l
        BY <3>1, <4>1 DEF OldTaken, OnlyAction, Departs, LeaversOf
      <4> QED
        BY <1>3, <4>2 DEF DepartsOf
    <3> QED
      BY <3>1
  <2>2. ASSUME NEW u \in DepartsOf(l) PROVE Old(l, v)
    <3>1. EvictionHeld(u) /\ u \in ReqID
      BY <1>3, <2>2, DepartsLeft
    <3>2. /\ pendingEvictions' = Append(pendingEvictions, u)
          /\ evictingData' = evictingData /\ trans'[u].evictingAddr = l
      BY <2>2, <3>1 DEF EvictionHeld, OnlyAction, DepartsOf
    <3>3. u \in ToSet(pendingEvictions')
      BY <3>1, <3>2, SetAppended, MessagesTyped
    <3>4. u \in UnwrittenOf(l)'
      BY <3>2, <3>3 DEF UnwrittenOf, Unwritten
    <3>5. PICK t \in EvsOf(l)' : v = evictingData'[t]
      BY <1>3, <3>4
    <3>6. t = u
      BY <3>2, <3>3, <3>5 DEF OneEviction, EvsOf, Evs
    <3>7. v = evictingData[u]
      BY <3>2, <3>5, <3>6
    <3> QED
      BY <2>2, <3>7 DEF Old
  <2>3. ASSUME DepartsOf(l) = {}, NEW t \in EvsOf(l)', v = evictingData'[t] PROVE Old(l, v)
    <3>1. t \in EvsOf(l) /\ evictingData'[t] = evictingData[t]
      BY <2>3, EvsMove
    <3> QED
      BY <2>1, <2>3, <3>1 DEF Old
  <2>4. ASSUME DepartsOf(l) = {}, UnwrittenOf(l)' = {}, v = mem'[l] PROVE Old(l, v)
    <3>1. CASE UnwrittenOf(l) = {} /\ mem'[l] = mem[l]
      BY <2>1, <2>4, <3>1 DEF Old
    <3>2. CASE \E u \in EvsOf(l) : mem'[l] = evictingData[u]
      BY <2>1, <2>4, <3>2 DEF Old
    <3> QED
      BY <2>4, <3>1, <3>2, MemMoves
  <2> QED
    BY <1>3, <2>2, <2>3, <2>4
<1> QED
  BY <1>1, <1>2, <1>3 DEF Old

\* What leaves its block is all a fetch may find.
LEMMA LeavingOld ==
  ASSUME WInv, EvsInv, DepartInv, Kind, NEW t \in ReqID, NEW b \in Slots, LineLeaves(t, b),
         NEW l, l = blocks[b].Tag, NEW v, Old(l, v)'
  PROVE  v = storage[b]
<1>0. /\ blocks[b].IsValid /\ ~blocks[b].IsLocked /\ trans'[t].evictingAddr = l
      /\ t \in Busy' /\ trans'[t].action \in Evicting /\ storage' = storage
      /\ Taken' # Taken
  <2>1. OwnsBlock(t, b) /\ NeedEviction(b) /\ trans'[t].action \in Evicting
    BY DEF LineLeaves
  <2>2. t = Taken + 1 /\ ~blocks[b].IsLocked /\ t \in Busy'
    BY <2>1, OwnsHow
  <2>3. trans'[t].evictingAddr = blocks[b].Tag
    BY <2>1, OwnsHow DEF Evicting
  <2>4. storage' = storage /\ Taken' = t
    BY <2>1 DEF OwnsBlock, NextTaken, DirKept
  <2>5. Taken' # Taken
    BY <2>2, <2>4, BusyTyped
  <2> QED
    BY <2>1, <2>2, <2>3, <2>4, <2>5 DEF NeedEviction
<1>1. LeaversOf(l) = {}
  BY <1>0, StoryNow DEF LeavingListed, LeaversOf
<1>2. ASSUME NEW u \in LeaversOf(l)', v = storage'[trans'[u].block] PROVE v = storage[b]
  <2>1. PICK c \in Slots : LineLeaves(u, c) /\ blocks[c].Tag = l
    BY <1>1, <1>2, LeaversMove
  <2>2. c = b
    BY <1>0, <2>1, StoryNow DEF TagsApart, LineLeaves, NeedEviction
  <2>3. trans'[u].block = b
    BY <2>1, <2>2 DEF LineLeaves, OwnsBlock
  <2> QED
    BY <1>0, <1>2, <2>3
<1>3. ASSUME NEW u \in DepartsOf(l)' PROVE FALSE
  <2>1. ~OldTaken(u)
    BY <1>0 DEF OldTaken, LeavesBank
  <2>2. u \in DepartsOf(l)
    BY <2>1, DepartsMove
  <2> QED
    BY <1>0, <2>2 DEF DepartsOf, DepartInv
<1>4. t \in LeaversOf(l)'
  BY <1>0 DEF LeaversOf, Leavers
<1> QED
  BY <1>2, <1>3, <1>4 DEF Old

\* What a fetch may find is not older than the writes done, after every step.
LEMMA OldStep ==
  ASSUME WInv, WInv', LedgerInv, ReadersInv, LinesInv, WriteAskInv, EvsInv, MessageInv,
         DepartInv, StorageInv, OldInv, OneEviction', Kind
  PROVE  OldInv'
<1> SUFFICES ASSUME NEW l \in Lines, Relied(l)', NEW v, Old(l, v)'
             PROVE  Above(v, DoneNext(l))
  BY DEF OldInv, DoneFor, DoneNext
<1>1. ASSUME NEW x \in ReqID, Through(x), reqs[x].line = l PROVE FALSE
  <2>1. reqs' = reqs
    BY <1>1, ThroughIs DEF Through, WritesThrough
  <2>2. reqs'[x].line = l
    BY <1>1, <2>1
  <2> QED
    BY <1>1, <2>2, NewerThrough
<1>2. DoneNext(l) = DoneFor(l)
  BY <1>1, DoneSame
<1>3. ASSUME NEW t \in ReqID, NEW b \in Slots, LineLeaves(t, b), blocks[b].Tag = l
      PROVE  Above(v, DoneFor(l))
  <2>1. v = storage[b]
    BY <1>3, LeavingOld
  <2>2. blocks[b].IsValid /\ ~blocks[b].IsLocked
    BY <1>3, OwnsHow DEF LineLeaves, NeedEviction
  <2> QED
    BY <1>3, <2>1, <2>2 DEF StorageInv
<1>4. ASSUME ~\E t \in ReqID, b \in Slots : LineLeaves(t, b) /\ blocks[b].Tag = l
      PROVE  Above(v, DoneFor(l))
  <2>1. Relied(l)
    BY <1>4, ReliedBefore
  <2>2. Old(l, v)
    BY <1>1, <1>4, OldMoves
  <2> QED
    BY <2>1, <2>2 DEF OldInv
<1> QED
  BY <1>2, <1>3, <1>4

(***************************************************************************)
(* The contents of the blocks, and of the lines that are fetched           *)
(***************************************************************************)
\* A list in order, filtered, ends with the largest of what is kept.
LEMMA LastIsLargest ==
  ASSUME NEW s \in Seq(ReqID), Increasing(s), NEW kept, NEW f, f = Filter(s, kept), f # <<>>
  PROVE  Last(f) \in ToSet(f) /\ \A w \in ToSet(f) : w =< Last(f)
<1>1. f \in Seq(ReqID) /\ \E at : Numbers(at, s, kept, Len(s), f)
  BY FilterNumbers
<1>2. PICK at : Numbers(at, s, kept, Len(s), f)
  BY <1>1
<1>3. /\ Len(f) \in Nat /\ DOMAIN f = 1 .. Len(f) /\ Len(s) \in Nat /\ DOMAIN s = 1 .. Len(s)
  BY <1>1, LenProperties
<1>4. Len(f) # 0
  BY <1>1, EmptySeq
<1> DEFINE n == Len(f)
<1>5. n \in 1 .. n /\ Last(f) = f[n] /\ n \in Nat
  BY <1>3, <1>4 DEF Last
<1>6. ASSUME NEW k \in 1 .. n PROVE f[k] =< f[n]
  <2>0. at[k] \in 1 .. Len(s) /\ at[n] \in 1 .. Len(s) /\ f[k] = s[at[k]] /\ f[n] = s[at[n]]
    BY <1>2, <1>5 DEF Numbers
  <2>1. s[at[k]] \in ReqID /\ s[at[n]] \in ReqID
    BY <2>0, ElementOfSeq
  <2>2. CASE k = n
    BY <2>0, <2>1, <2>2 DEF ReqID
  <2>3. CASE k # n
    <3>1. k \in 1 .. n - 1
      BY <1>5, <2>3
    <3>2. at[k] < at[n]
      BY <1>2, <1>5, <3>1 DEF Numbers
    <3>3. s[at[k]] < s[at[n]]
      BY <1>3, <2>0, <3>2 DEF Increasing
    <3> QED
      BY <2>0, <2>1, <3>3 DEF ReqID
  <2> QED
    BY <2>2, <2>3
<1> HIDE DEF n
<1> QED
  BY <1>3, <1>5, <1>6 DEF ToSet, n

\* The last of the writes that wait for a line is newer than those done to it.
LEMMA LastWaiting ==
  ASSUME WInv, LedgerInv, LinesInv, OrderInv, NEW t \in Busy, trans[t].action \in Fetching,
         ListedWrites(t) # {}
  PROVE  /\ Last(WaitingWrites(t)) \in ListedWrites(t) /\ WaitingWrites(t) # <<>>
         /\ \A w \in ListedWrites(t) : w =< Last(WaitingWrites(t))
         /\ \A w \in DoneFor(reqs[t].line) : w < Last(WaitingWrites(t))
<1>0. t \in ReqID /\ t \in mshr
  BY BusyTyped, StoryNow DEF EntriesOpen
<1> DEFINE s == entry[t].requests
           k == {w \in DOMAIN reqs : Write(w)}
           f == WaitingWrites(t)
           x == Last(f)
<1>1. s \in Seq(ReqID) /\ Increasing(s)
  BY <1>0 DEF WInv, WTypes, ArrayTypes, EntryType, LedgerInv, ListsRise
<1>2. f = Filter(s, k) /\ ToSet(f) = ListedWrites(t)
  BY DEF WaitingWrites, ListedWrites
<1>3. f # <<>>
  BY <1>2, SetOfEmpty
<1> HIDE DEF s, k, f
<1>4. x \in ToSet(f) /\ \A w \in ToSet(f) : w =< x
  BY <1>1, <1>2, <1>3, LastIsLargest
<1>5. x \in ToSet(entry[t].requests)
  BY <1>0, <1>2, <1>4, ListedWritesAre
<1>6. x \in UnderWay /\ reqs[x].line = reqs[t].line
  BY <1>0, <1>5 DEF UnderWay, Listed, LinesInv
<1> HIDE DEF x
<1>7. \A w \in DoneFor(reqs[t].line) : w < x
  BY <1>6 DEF OrderInv
<1> QED
  BY <1>2, <1>3, <1>4, <1>7 DEF f, x

\* What a block holds is not older than the writes done, after every step.
LEMMA StorageStep ==
  ASSUME WInv, WInv', LedgerInv, ReadersInv, LinesInv, OrderInv, StorageInv, FetchedInv, Kind
  PROVE  StorageInv'
<1> SUFFICES ASSUME NEW b \in Slots, blocks'[b].IsValid, ~blocks'[b].IsLocked,
                    NEW l, l = blocks'[b].Tag
             PROVE  Above(storage'[b], DoneNext(l))
  BY DEF StorageInv, DoneFor, DoneNext
<1>1. CASE SameBlock(b)
  <2>1. blocks[b].IsValid /\ ~blocks[b].IsLocked /\ blocks[b].Tag = l
    BY <1>1 DEF SameBlock, Alike
  <2>2. ASSUME NEW x \in ReqID, Through(x), reqs[x].line = l PROVE FALSE
    <3>1. x \in Busy /\ ~Reader(trans, x)
      BY <2>2, ThroughIs DEF Through, WritesThrough
    <3>2. /\ trans[x].block \in Slots /\ blocks[trans[x].block].IsValid
          /\ blocks[trans[x].block].Tag = l /\ blocks[trans[x].block].IsLocked
      BY <2>2, <3>1, BlockOf
    <3>3. trans[x].block = b
      BY <2>1, <3>2, StoryNow DEF TagsApart
    <3> QED
      BY <2>1, <3>2, <3>3
  <2>3. DoneNext(l) = DoneFor(l)
    BY <2>2, DoneSame
  <2>4. ASSUME NEW x \in ReqID, WriteEnds(x, b) \/ LineEnds(x, b) PROVE FALSE
    <3>1. x \in Busy /\ trans[x].block = b /\ ~Reader(trans, x)
      BY <2>4 DEF WriteEnds, LineEnds, LeavesBank, Reader
    <3> QED
      BY <2>1, <3>1, BlockOf
  <2>5. storage'[b] = storage[b]
    BY <2>4, StorageMoves
  <2> QED
    BY <2>1, <2>3, <2>5 DEF StorageInv
<1>2. ASSUME NEW x \in ReqID, WriteEnds(x, b) PROVE Above(storage'[b], DoneNext(l))
  <2>1. /\ x \in Busy /\ trans[x].block = b /\ trans[x].action = "bankWriteHit"
        /\ storage'[b] = x /\ blocks'[b].Tag = blocks[b].Tag
    BY <1>2 DEF WriteEnds, LeavesBank
  <2>2. reqs[x].line = l
    BY <2>1, BlockOf
  <2>3. x \in UnderWay
    BY <2>1 DEF UnderWay, DirectNow, DirectOf, DirectActions
  <2>4. ASSUME NEW w \in DoneNext(l) PROVE w =< x
    <3>1. CASE w \in DoneFor(l)
      <4>1. w < x
        BY <2>2, <2>3, <3>1 DEF OrderInv
      <4>2. w \in 1 .. Taken /\ Taken \in Nat
        BY <3>1, TakenSent, WorkTaken DEF DoneFor, OfLine
      <4> QED
        BY <4>1, <4>2 DEF ReqID
    <3>2. CASE w \notin DoneFor(l)
      <4>1. WritesThrough(x) /\ \E c \in Slots : WriteEnds(x, c)
        BY <1>2 DEF WritesThrough
      <4>2. w \in DoneNext(reqs[x].line) /\ w \notin DoneFor(reqs[x].line)
        BY <2>2, <2>4, <3>2
      <4>3. w = x
        BY <4>1, <4>2, ThroughWrites
      <4> QED
        BY <4>3 DEF ReqID
    <3> QED
      BY <3>1, <3>2
  <2> QED
    BY <2>1, <2>4 DEF Above
<1>3. ASSUME NEW x \in ReqID, LineEnds(x, b) PROVE Above(storage'[b], DoneNext(l))
  <2>1. /\ x \in Busy /\ trans[x].block = b /\ trans[x].action = "bankWriteFetched"
        /\ storage'[b] = EntryData(x) /\ blocks'[b].Tag = blocks[b].Tag
    BY <1>3 DEF LineEnds, LeavesBank
  <2>2. reqs[x].line = l
    BY <2>1, BlockOf
  <2>3. ASSUME NEW y \in ReqID, Through(y), reqs[y].line = l PROVE FALSE
    <3>1. y \in Busy /\ ~Reader(trans, y)
      BY <2>3, ThroughIs DEF Through, WritesThrough
    <3>2. y = x
      BY <2>1, <2>2, <2>3, <3>1, SoleOfLine DEF Reader
    <3> QED
      BY <2>1, <2>3, <3>2 DEF Through, WriteEnds, LineIsThere, LineComes, LineFound
  <2>4. DoneNext(l) = DoneFor(l)
    BY <2>3, DoneSame
  <2> QED
    BY <2>1, <2>2, <2>4 DEF FetchedInv
<1>4. ASSUME NEW x \in ReqID, OwnsBlock(x, b) PROVE FALSE
  BY <1>4, OwnsHow
<1>5. ASSUME NEW x \in ReqID, Dirtied(x, b) PROVE FALSE
  <2>1. LineIsThere(x) /\ b = trans[x].block /\ ~blocks[b].IsLocked
    BY <1>5 DEF Dirtied, Alike
  <2>2. x \in Busy /\ ~Reader(trans, x)
    BY <2>1, ThroughIs DEF WritesThrough
  <2> QED
    BY <2>1, <2>2, BlockOf
<1> QED
  BY <1>1, <1>2, <1>3, <1>4, <1>5, BlockMoves

\* A transaction has its line when it comes.
LEMMA NewFetched ==
  ASSUME WInv, Kind, NEW t \in Busy', trans'[t].action = "bankWriteFetched"
  PROVE  /\ t \in ReqID
         /\ (t \in Busy /\ trans[t].action = "bankWriteFetched") \/ LineIsThere(t)
<1>1. CASE t \notin Busy
  BY <1>1, NewBusy DEF ReadsBlock, OwnsBlock, OwnsFor
<1>2. CASE t \in Busy /\ trans'[t] = trans[t]
  BY <1>2, BusyTyped
<1>3. CASE t \in Busy /\ trans'[t] # trans[t]
  BY <1>3, ChangedHow DEF OldTaken, EvictionHeld
<1> QED
  BY <1>1, <1>2, <1>3

\* The entries that are filled, after a step.
LEMMA FilledMoves ==
  ASSUME Kind
  PROVE  \/ Filled' \subseteq Filled
         \/ \E t \in ReqID, b \in Slots : LineEnds(t, b) /\ Filled' = Filled \cup {t}
<1>1. CASE Still \/ (\E r : Comes(r)) \/ Below \/ Pulled \/ Answering
  BY <1>1 DEF Still, Comes, Below, Pulled, Answering, spots
<1>2. CASE StepOf
  BY <1>2 DEF StepOf, OfBank, ReadEnds, WriteEnds, LineEnds, OldTaken,
              OfBuffer, LineComes, LineFound, LineAsked, EvictionHeld, NewKept,
              OfDirectory, Joins, ReadsBlock, OwnsBlock, NextTaken, DirKept
<1> QED
  BY <1>1, <1>2 DEF Kind

\* An entry has the contents of its line from when they come.
LEMMA NewData ==
  ASSUME WInv, Kind, NEW e \in WithData', e \notin WithData
  PROVE  e \in ReqID /\ LineIsThere(e)
<1>1. e \notin Filled'
  <2>1. e \notin Filled
    BY DEF WithData
  <2>2. ASSUME NEW t \in ReqID, NEW b \in Slots, LineEnds(t, b) PROVE t \in WithData
    BY <2>2 DEF LineEnds, LeavesBank, WithData
  <2> QED
    BY <2>1, <2>2, FilledMoves
<1>2. e \in Busy' /\ trans'[e].action = "bankWriteFetched"
  BY <1>1 DEF WithData
<1> QED
  BY <1>2, NewFetched DEF WithData

\* It keeps what it was filled with.
LEMMA DataStays ==
  ASSUME WInv, Kind, NEW e \in WithData
  PROVE  /\ e \in 1 .. Taken /\ e \in ReqID
         /\ entry'[e].data = entry[e].data /\ entry'[e].slice = entry[e].slice
<1>1. e \in 1 .. Taken /\ e \in ReqID
  BY PlacesNow, BusyTyped DEF WithData
<1>2. CASE Still \/ (\E r : Comes(r)) \/ Below \/ Pulled
  BY <1>1, <1>2 DEF Still, Comes, Below, Pulled, contents
<1>3. CASE Answering
  BY <1>1, <1>3 DEF Answering, AnswersOf, SameData
<1>4. ASSUME NEW t \in ReqID, OfBank(t)
      PROVE  entry'[e].data = entry[e].data /\ entry'[e].slice = entry[e].slice
  BY <1>4 DEF OfBank, ReadEnds, WriteEnds, LineEnds, OldTaken, LeavesBank
<1>5. ASSUME NEW t \in ReqID, OfBuffer(t)
      PROVE  entry'[e].data = entry[e].data /\ entry'[e].slice = entry[e].slice
  <2>1. CASE LineAsked(t) \/ EvictionHeld(t)
    BY <2>1 DEF LineAsked, EvictionHeld
  <2>2. CASE LineIsThere(t)
    <3>1. t \in Busy /\ trans[t].action = "writeBufferFetch"
      BY <2>2 DEF LineIsThere, LineComes, LineFound
    <3>2. e # t
      BY <3>1, PlacesNow DEF WithData
    <3> QED
      BY <1>1, <2>2, <3>2 DEF LineIsThere, LineComes, LineFound, Fills
  <2> QED
    BY <1>5, <2>1, <2>2 DEF OfBuffer, LineIsThere
<1>6. ASSUME NEW t \in ReqID, OfDirectory(t)
      PROVE  entry'[e].data = entry[e].data /\ entry'[e].slice = entry[e].slice
  <2>1. t = Taken + 1
    BY <1>6 DEF OfDirectory, Joins, ReadsBlock, OwnsBlock, NextTaken
  <2>2. e # t
    BY <1>1, <2>1, TakenSent
  <2> QED
    BY <1>1, <1>6, <2>2 DEF OfDirectory, Joins, ReadsBlock, OwnsBlock, SameData
<1> QED
  BY <1>1, <1>2, <1>3, <1>4, <1>5, <1>6 DEF Kind, StepOf

\* An entry filled from an eviction shares the contents of its line.
LEMMA SliceStep ==
  ASSUME WInv, EvsInv, SliceInv, Kind PROVE SliceInv'
<1>0. Ages
  BY StepAges
<1> SUFFICES ASSUME NEW e \in WithData', NEW s, s = entry'[e].slice, s # 0
             PROVE  /\ s \in 1 .. Taken' /\ Past(trans', s)
                    /\ trans'[s].evictingAddr = reqs'[e].line
  BY DEF SliceInv
<1>1. CASE e \in WithData
  <2>1. e \in 1 .. Taken /\ s = entry[e].slice
    BY <1>1, DataStays
  <2>2. s \in 1 .. Taken /\ Past(trans, s) /\ trans[s].evictingAddr = reqs[e].line
    BY <1>1, <2>1 DEF SliceInv
  <2> QED
    BY <1>0, <2>1, <2>2 DEF Ages
<1>2. CASE e \notin WithData
  <2>1. e \in ReqID /\ LineIsThere(e)
    BY <1>2, NewData
  <2>2. PICK u \in ReqID : LineFound(e, u) /\ s = u
    BY <2>1 DEF LineIsThere, LineComes, LineFound, Fills
  <2>3. u \in Evs /\ trans[u].evictingAddr = reqs[e].line /\ reqs' = reqs
    BY <2>2 DEF LineFound, NewKept
  <2>4. u \in 1 .. Taken /\ Past(trans, u)
    BY <2>3 DEF EvsInv
  <2> QED
    BY <1>0, <2>2, <2>3, <2>4 DEF Ages
<1> QED
  BY <1>1, <1>2

\* What an entry is filled with changes when another one is filled from the same eviction.
LEMMA EntryDataMoves ==
  ASSUME WInv, SliceInv, Kind, NEW e \in WithData
  PROVE  \/ EntryData(e)' = EntryData(e)
         \/ \E x \in ReqID, u \in ReqID : /\ LineFound(x, u) /\ reqs[x].line = reqs[e].line
                                          /\ EntryData(e)' = Combined(x, evictingData[u])
                                          /\ EntryData(e) = evictingData[u]
<1>1. /\ e \in ReqID
      /\ entry'[e].data = entry[e].data /\ entry'[e].slice = entry[e].slice
  BY DataStays
<1>2. CASE entry[e].slice = 0
  BY <1>1, <1>2 DEF EntryData
<1>3. CASE entry[e].slice # 0
  <2> DEFINE u == entry[e].slice
  <2>1. u \in 1 .. Taken /\ Past(trans, u) /\ trans[u].evictingAddr = reqs[e].line
    BY <1>3 DEF SliceInv
  <2>2. u \in ReqID /\ ~OldTaken(u)
    BY <2>1, PlacesNow DEF Past, OldTaken
  <2>3. EntryData(e) = evictingData[u] /\ EntryData(e)' = evictingData'[u]
    BY <1>1, <1>3 DEF EntryData
  <2> HIDE DEF u
  <2>4. ASSUME NEW x \in ReqID, LineFound(x, u)
        PROVE  reqs[x].line = reqs[e].line /\ evictingData'[u] = Combined(x, evictingData[u])
    BY <2>1, <2>4 DEF LineFound
  <2> QED
    BY <2>2, <2>3, <2>4, DataMoves
<1> QED
  BY <1>2, <1>3

\* A transaction that fetches relies on what is below and what is on its way there.
LEMMA FetchingFinds ==
  ASSUME WInv, OldInv, DepartInv, NEW t \in Busy, trans[t].action = "writeBufferFetch",
         t \notin AtBank, NEW l, l = reqs[t].line
  PROVE  /\ l \in Lines /\ LeaversOf(l) = {} /\ DepartsOf(l) = {}
         /\ \A v : Old(l, v) => Above(v, DoneFor(l))
<1> DEFINE c == trans[t].block
<1>1. c \in Slots /\ blocks[c].IsValid /\ blocks[c].Tag = l
  BY BlockOf
<1>2. l \in Lines
  BY MessagesTyped
<1>3. ASSUME NEW b \in Slots, Newer(b), blocks[b].Tag = l PROVE FALSE
  <2>1. b = c
    BY <1>1, <1>3, StoryNow DEF TagsApart, Newer
  <2>2. trans[t].action \notin Fetching
    BY <1>3, <2>1 DEF Newer
  <2> QED
    BY <2>2 DEF Fetching
<1>4. Relied(l)
  BY <1>3 DEF Relied
<1>5. LeaversOf(l) = {}
  BY <1>1, StoryNow DEF LeavingListed, LeaversOf
<1>6. DepartsOf(l) = {}
  BY DEF DepartsOf, DepartInv
<1> QED
  BY <1>2, <1>4, <1>5, <1>6 DEF OldInv

\* What was fetched is not older than the writes done: the line is found in the write
\* buffer or below, and the last write that waited for it is the last one done.
LEMMA FetchedStep ==
  ASSUME WInv, LedgerInv, ReadersInv, LinesInv, OrderInv, SliceInv, FetchedInv, AnswerInv,
         OldInv, DepartInv, Kind
  PROVE  FetchedInv'
<1>0. Ages
  BY StepAges
<1> SUFFICES ASSUME NEW t \in Busy', trans'[t].action = "bankWriteFetched",
                    NEW l, l = reqs'[t].line
             PROVE  Above(EntryData(t)', DoneNext(l))
  BY DEF FetchedInv, DoneFor, DoneNext
<1>1. t \in ReqID
  BY NewFetched
<1>2. ASSUME t \in Busy, trans[t].action = "bankWriteFetched"
      PROVE  Above(EntryData(t)', DoneNext(l))
  <2>1. reqs[t].line = l
    BY <1>0, <1>2, BusyTyped DEF Ages
  <2>2. ASSUME NEW x \in ReqID, WritesThrough(x), reqs[x].line = l PROVE x = t
    <3>1. x \in Busy
      BY <2>2, ThroughIs
    <3> QED
      BY <1>2, <2>1, <2>2, <3>1, SoleOfLine DEF Reader
  <2>3. ~WritesThrough(t)
    BY <1>2 DEF WritesThrough, WriteEnds, LineIsThere, LineComes, LineFound
  <2>4. DoneNext(l) = DoneFor(l)
    BY <2>2, <2>3, DoneSame DEF Through, WritesThrough
  <2>5. EntryData(t)' = EntryData(t)
    <3>1. t \in WithData
      BY <1>2 DEF WithData
    <3>2. ASSUME NEW x \in ReqID, NEW u \in ReqID, LineFound(x, u), reqs[x].line = reqs[t].line
          PROVE  FALSE
      <4>1. WritesThrough(x)
        BY <3>2 DEF WritesThrough, LineIsThere
      <4> QED
        BY <2>1, <2>2, <2>3, <3>2, <4>1
    <3> QED
      BY <3>1, <3>2, EntryDataMoves
  <2> QED
    BY <1>2, <2>1, <2>4, <2>5 DEF FetchedInv
<1>3. ASSUME LineIsThere(t) PROVE Above(EntryData(t)', DoneNext(l))
  <2>1. /\ t \in Busy /\ trans[t].action = "writeBufferFetch" /\ reqs' = reqs
        /\ WritesThrough(t)
    BY <1>3 DEF LineIsThere, LineComes, LineFound, NewKept, WritesThrough
  <2>2. reqs[t].line = l /\ trans[t].action \in Fetching
    BY <2>1 DEF Fetching
  <2>3. ASSUME NEW w \in DoneNext(l), w \notin DoneFor(l) PROVE w \in ListedWrites(t)
    BY <1>1, <1>3, <2>1, <2>2, <2>3, ThroughWrites
  <2>4. PICK v \in Nat, s \in 0 .. MaxReqs :
              /\ Fills(t, v, s)
              /\ \/ LineComes(t, v) /\ s = 0
                 \/ s \in ReqID /\ LineFound(t, s) /\ v = evictingData[s]
    <3>1. CASE \E v \in Nat : LineComes(t, v)
      <4>1. PICK v \in Nat : LineComes(t, v)
        BY <3>1
      <4>2. Fills(t, v, 0) /\ 0 \in 0 .. MaxReqs
        BY <4>1, WritebackAssumption DEF LineComes
      <4> QED
        BY <4>1, <4>2
    <3>2. CASE \E u \in ReqID : LineFound(t, u)
      <4>1. PICK u \in ReqID : LineFound(t, u)
        BY <3>2
      <4> DEFINE v == evictingData[u]
      <4>2. Fills(t, v, u) /\ v \in Nat /\ u \in 0 .. MaxReqs
        BY <4>1 DEF LineFound, ReqID
      <4> HIDE DEF v
      <4>3. \E w \in Nat : Fills(t, w, u) /\ w = evictingData[u]
        BY <4>2 DEF v
      <4> QED
        BY <4>1, <4>2, <4>3
    <3> QED
      BY <1>3, <3>1, <3>2 DEF LineIsThere
  <2>5. EntryData(t)' = Combined(t, v)
    <3>1. entry'[t].data = Combined(t, v) /\ entry'[t].slice = s
      BY <2>4 DEF Fills
    <3>2. s # 0 => evictingData'[s] = Combined(t, v)
      BY <2>4 DEF LineFound
    <3>3. s \in ReqID => s # 0
      BY DEF ReqID
    <3> QED
      BY <2>4, <3>1, <3>2, <3>3 DEF EntryData
  <2>6. CASE ListedWrites(t) # {}
    <3> DEFINE x == Last(WaitingWrites(t))
    <3>1. /\ x \in ListedWrites(t) /\ WaitingWrites(t) # <<>>
          /\ \A w \in ListedWrites(t) : w =< x
          /\ \A w \in DoneFor(l) : w < x
      BY <2>1, <2>2, <2>6, LastWaiting
    <3>2. Combined(t, v) = x
      BY <3>1 DEF Combined
    <3> HIDE DEF x
    <3>3. x \in Nat
      BY <1>1, <3>1, ListedWritesAre, TakenSent
    <3>4. ASSUME NEW w \in DoneNext(l) PROVE w =< x
      <4>1. CASE w \in DoneFor(l)
        <5>1. w \in Nat
          BY <4>1, WorkTaken, TakenSent DEF DoneFor, OfLine
        <5>2. w < x
          BY <3>1, <4>1
        <5> QED
          BY <3>3, <5>1, <5>2
      <4> QED
        BY <2>3, <3>1, <4>1
    <3> QED
      BY <2>5, <3>2, <3>4 DEF Above
  <2>7. CASE ListedWrites(t) = {}
    <3>1. Combined(t, v) = v
      BY <1>1, <2>7, ListedWritesAre DEF Combined
    <3>2. DoneNext(l) \subseteq DoneFor(l)
      BY <2>3, <2>7
    <3>3. CASE LineComes(t, v)
      <4>1. /\ bottomIn \in Seq(Answer) /\ bottomIn # <<>> /\ ~Head(bottomIn).write
            /\ Head(bottomIn).of = t /\ Head(bottomIn).ver = v
        BY <3>3, MessagesTyped DEF LineComes
      <4>2. 1 \in DOMAIN bottomIn /\ Head(bottomIn) = bottomIn[1]
        BY <4>1, HeadTailProperties, EmptySeq, LenProperties
      <4>3. Above(v, DoneFor(l))
        BY <2>2, <4>1, <4>2 DEF AnswerInv
      <4> QED
        BY <2>5, <3>1, <3>2, <4>3 DEF Above
    <3>4. CASE s \in ReqID /\ LineFound(t, s) /\ v = evictingData[s]
      <4>1. t \notin AtBank
        BY <3>4, Apart DEF LineFound
      <4>2. s \in EvsOf(l)
        BY <2>2, <3>4 DEF LineFound, EvsOf
      <4>3. LeaversOf(l) = {} /\ DepartsOf(l) = {} /\ (Old(l, v) => Above(v, DoneFor(l)))
        BY <2>1, <2>2, <4>1, FetchingFinds
      <4>4. Old(l, v)
        BY <3>4, <4>2, <4>3 DEF Old
      <4> QED
        BY <2>5, <3>1, <3>2, <4>3, <4>4 DEF Above
    <3> QED
      BY <2>4, <3>3, <3>4
  <2> QED
    BY <2>6, <2>7
<1> QED
  BY <1>2, <1>3, NewFetched

\* The answers from below: one comes, or the first is taken.
LEMMA AnswersMove ==
  ASSUME Kind
  PROVE  \/ bottomIn' = bottomIn
         \/ bottomIn # <<>> /\ bottomIn' = Tail(bottomIn)
         \/ Below /\ MessageServed
<1>1. CASE Still \/ (\E r : Comes(r)) \/ Pulled \/ Answering
  BY <1>1 DEF Still, Comes, Pulled, Answering, messages
<1>2. CASE Below
  BY <1>2 DEF Below, EvictionSent, MessageSent, WriteDone
<1>3. CASE StepOf
  BY <1>3 DEF StepOf, OfBank, ReadEnds, WriteEnds, LineEnds, OldTaken, LeavesBank,
              OfBuffer, LineComes, LineFound, LineAsked, EvictionHeld, NewKept,
              OfDirectory, Joins, ReadsBlock, OwnsBlock, NextTaken, DirKept, messages
<1> QED
  BY <1>1, <1>2, <1>3 DEF Kind

\* An answer was there, and not the first if the first is taken; or the memory gives it.
LEMMA NewAnswer ==
  ASSUME WInv, Kind, NEW i \in DOMAIN bottomIn'
  PROVE  \/ \E j \in DOMAIN bottomIn :
              /\ bottomIn'[i] = bottomIn[j]
              /\ bottomIn # <<>> /\ bottomIn' = Tail(bottomIn) => j # 1
         \/ /\ Below /\ MessageServed
            /\ bottomIn'[i] = [write |-> Head(lowReqs).write, of |-> Head(lowReqs).of,
                               ver |-> IF Head(lowReqs).write THEN 0
                                                              ELSE mem[Head(lowReqs).line]]
<1>0. bottomIn \in Seq(Answer)
  BY MessagesTyped
<1>1. DOMAIN bottomIn = 1 .. Len(bottomIn) /\ Len(bottomIn) \in Nat
  BY <1>0, LenProperties
<1>2. CASE bottomIn # <<>> /\ bottomIn' = Tail(bottomIn)
  <2> DEFINE s == Tail(bottomIn)
  <2>1. /\ Len(s) = Len(bottomIn) - 1 /\ s \in Seq(Answer)
        /\ \A k \in 1 .. Len(s) : s[k] = bottomIn[k + 1]
    BY <1>0, <1>2, HeadTailProperties
  <2> HIDE DEF s
  <2>2. i \in 1 .. Len(s)
    BY <1>2, <2>1, LenProperties DEF s
  <2>3. i + 1 \in DOMAIN bottomIn /\ i + 1 # 1 /\ s[i] = bottomIn[i + 1]
    BY <1>1, <2>1, <2>2
  <2> QED
    BY <1>2, <2>3 DEF s
<1>3. CASE bottomIn' = bottomIn /\ ~(bottomIn # <<>> /\ bottomIn' = Tail(bottomIn))
  BY <1>3
<1>4. CASE Below /\ MessageServed /\ ~(bottomIn # <<>> /\ bottomIn' = Tail(bottomIn))
  <2> DEFINE m == [write |-> Head(lowReqs).write, of |-> Head(lowReqs).of,
                   ver |-> IF Head(lowReqs).write THEN 0 ELSE mem[Head(lowReqs).line]]
             s == Append(bottomIn, m)
  <2>1. bottomIn' = s
    BY <1>4 DEF MessageServed
  <2> HIDE DEF m
  <2>2. /\ DOMAIN s = 1 .. Len(bottomIn) + 1 /\ s[Len(bottomIn) + 1] = m
        /\ \A k \in 1 .. Len(bottomIn) : s[k] = bottomIn[k]
    <3>1. bottomIn \in Seq(Answer \cup {m}) /\ m \in Answer \cup {m}
      BY <1>0
    <3>2. /\ s \in Seq(Answer \cup {m}) /\ Len(s) = Len(bottomIn) + 1
          /\ s[Len(bottomIn) + 1] = m
          /\ \A k \in 1 .. Len(bottomIn) : s[k] = bottomIn[k]
      BY <3>1, AppendProperties
    <3> HIDE DEF s
    <3> QED
      BY <3>2, LenProperties
  <2> HIDE DEF s
  <2>3. CASE i = Len(bottomIn) + 1
    BY <1>4, <2>1, <2>2, <2>3 DEF m
  <2>4. CASE i # Len(bottomIn) + 1
    <3>1. i \in DOMAIN bottomIn
      BY <1>1, <2>1, <2>2, <2>4
    <3> QED
      BY <1>1, <1>4, <2>1, <2>2, <3>1
  <2> QED
    BY <2>3, <2>4
<1> QED
  BY <1>2, <1>3, <1>4, AnswersMove

\* What comes from below is not older than the writes done.
LEMMA AnswerStep ==
  ASSUME WInv, LedgerInv, ReadersInv, LinesInv, WriteAskInv, EvsInv, MessageInv, AnswerInv,
         OldInv, DepartInv, FetchInv, Kind
  PROVE  AnswerInv'
<1>0. Ages
  BY StepAges
<1> SUFFICES ASSUME NEW i \in DOMAIN bottomIn', ~bottomIn'[i].write,
                    NEW l, l = reqs'[bottomIn'[i].of].line
             PROVE  Above(bottomIn'[i].ver, DoneNext(l))
  BY DEF AnswerInv, DoneFor, DoneNext
<1> DEFINE t == bottomIn'[i].of
<1>1. ASSUME NEW j \in DOMAIN bottomIn, bottomIn'[i] = bottomIn[j],
             bottomIn # <<>> /\ bottomIn' = Tail(bottomIn) => j # 1
      PROVE  Above(bottomIn'[i].ver, DoneNext(l))
  <2>1. t \in ReadsOf(bottomIn) /\ t \in inflightFetch /\ t \in Busy /\ t \in 1 .. Taken
    BY <1>1, AskedOf DEF ReadsOf
  <2>2. reqs[t].line = l /\ trans[t].action = "writeBufferFetch" /\ t \in ReqID
    BY <1>0, <2>1, BusyTyped DEF Ages, WInv, WorldInv, World, Fits
  <2>3. Above(bottomIn[j].ver, DoneFor(l))
    BY <1>1, <2>2 DEF AnswerInv
  <2>4. ASSUME NEW x \in ReqID, Through(x), reqs[x].line = l PROVE FALSE
    <3>1. x \in Busy
      BY <2>4, ThroughIs DEF Through, WritesThrough
    <3>2. x = t
      BY <2>1, <2>2, <2>4, <3>1, SoleOfLine DEF Reader
    <3>3. t \notin AtBuffer
      BY <2>1, Apart
    <3>4. PICK v \in Nat : LineComes(t, v)
      BY <2>2, <2>4, <3>2, <3>3 DEF Through, WriteEnds, LeavesBank, LineIsThere, LineFound
    <3>5. /\ bottomIn # <<>> /\ bottomIn' = Tail(bottomIn)
          /\ ~Head(bottomIn).write /\ Head(bottomIn).of = t
      BY <3>4 DEF LineComes
    <3>6. 1 \in DOMAIN bottomIn /\ Head(bottomIn) = bottomIn[1]
      BY <3>5, MessagesTyped, HeadTailProperties, EmptySeq, LenProperties
    <3>7. AskedOnce(bottomIn)
      BY DEF WInv, AskInv, Asks
    <3>8. j = 1
      BY <1>1, <3>5, <3>6, <3>7 DEF AskedOnce
    <3> QED
      BY <1>1, <3>5, <3>8
  <2>5. DoneNext(l) = DoneFor(l)
    BY <2>4, DoneSame
  <2> QED
    BY <1>1, <2>3, <2>5
<1>2. ASSUME Below, MessageServed,
             bottomIn'[i] = [write |-> Head(lowReqs).write, of |-> Head(lowReqs).of,
                             ver |-> IF Head(lowReqs).write THEN 0
                                                            ELSE mem[Head(lowReqs).line]]
      PROVE  Above(bottomIn'[i].ver, DoneNext(l))
  <2> DEFINE r == Head(lowReqs)
  <2>0. /\ lowReqs \in Seq(ReadMsg \cup WriteMsg) /\ lowReqs # <<>>
        /\ ~r.write /\ t = r.of /\ bottomIn'[i].ver = mem[r.line]
    BY <1>2, MessagesTyped DEF MessageServed
  <2>1. 1 \in DOMAIN lowReqs /\ r = lowReqs[1]
    BY <2>0, HeadTailProperties, EmptySeq, LenProperties
  <2>2. t \in ReadsOf(lowReqs)
    BY <2>0, <2>1 DEF ReadsOf
  <2>3. t \in inflightFetch /\ t \in Busy
    BY <2>2, AskedOf
  <2>4. /\ UNCHANGED <<spots, contents, reqs>> /\ trans[t].action = "writeBufferFetch"
        /\ reqs[t].line = l /\ t \notin AtBank
    BY <1>2, <2>3, Apart DEF Below, WInv, WorldInv, World, Fits
  <2>5. r.line = l
    BY <2>0, <2>1, <2>4 DEF MessageInv, LinesTold
  <2>6. UnwrittenOf(l) = {}
    BY <2>3, <2>4, UnwrittenHeld DEF UnwrittenOf, FetchInv
  <2>7. LeaversOf(l) = {} /\ DepartsOf(l) = {}
        /\ (Old(l, mem[l]) => Above(mem[l], DoneFor(l)))
    BY <2>3, <2>4, FetchingFinds
  <2>8. Above(mem[l], DoneFor(l))
    BY <2>6, <2>7 DEF Old
  <2>9. DoneNext(l) = DoneFor(l)
    <3>1. Busy' = Busy /\ trans' = trans /\ entry' = entry /\ mshr' = mshr /\ Taken' = Taken
          /\ reqs' = reqs
      BY <2>4, BusyKept DEF spots, contents
    <3>2. UnderWay' = UnderWay
      BY <3>1 DEF UnderWay, DirectNow, Listed
    <3> QED
      BY <3>1, <3>2 DEF DoneNext, DoneFor, Done
  <2> QED
    BY <2>0, <2>5, <2>8, <2>9
<1> QED
  BY <1>1, <1>2, NewAnswer

\* What is as new as the writes done to a line is what a request of the line must return.
LEMMA FloorBelow ==
  ASSUME WInv, LedgerInv, FloorInv, NEW r \in 1 .. Taken, NEW v \in Nat,
         Above(v, DoneFor(reqs[r].line))
  PROVE  v >= reqs[r].floor
<1>1. r \in 1 .. Len(reqs)
  BY TakenSent
<1>2. reqs[r].floor = 0 \/ reqs[r].floor \in DoneFor(reqs[r].line)
  BY <1>1 DEF FloorInv
<1>3. reqs[r].floor \in Nat
  BY <1>1, TakenSent DEF Request
<1>4. CASE reqs[r].floor = 0
  BY <1>4
<1>5. CASE reqs[r].floor \in DoneFor(reqs[r].line)
  <2>1. reqs[r].floor =< v
    BY <1>5 DEF Above
  <2> QED
    BY <1>3, <2>1
<1> QED
  BY <1>2, <1>4, <1>5

\* An entry that is filled has what its reads must return.
LEMMA FilledStep ==
  ASSUME WInv, LedgerInv, LinesInv, OrderInv, FloorInv, SliceInv, FetchedInv, FilledInv, Kind
  PROVE  FilledInv'
<1>0. Ages
  BY StepAges
<1> SUFFICES ASSUME NEW e \in Filled', NEW r \in ToSet(entry'[e].requests), ~reqs'[r].write
             PROVE  EntryData(e)' >= reqs'[r].floor
  BY DEF FilledInv
<1>1. CASE e \in Filled
  <2>1. e \in ReqID /\ e \in 1 .. Taken /\ e \notin mshr /\ e \in WithData
    BY <1>1, PlacesNow DEF WithData
  <2>2. r \in ToSet(entry[e].requests)
    <3>1. ASSUME r = Taken + 1, Joins(r, e) \/ e = r PROVE FALSE
      BY <2>1, <3>1, TakenSent DEF Joins
    <3> QED
      BY <2>1, <3>1, NewInList
  <2>3. r \in 1 .. Taken /\ reqs'[r] = reqs[r]
    BY <1>0, <2>1, <2>2, ListedWritesAre DEF Ages
  <2>4. EntryData(e) >= reqs[r].floor
    BY <1>1, <2>2, <2>3 DEF FilledInv
  <2>5. CASE EntryData(e)' = EntryData(e)
    BY <2>3, <2>4, <2>5
  <2>6. ASSUME NEW x \in ReqID, NEW u \in ReqID, LineFound(x, u), reqs[x].line = reqs[e].line,
               EntryData(e)' = Combined(x, evictingData[u]), EntryData(e) = evictingData[u]
        PROVE  EntryData(e)' >= reqs[r].floor
    <3>1. CASE WaitingWrites(x) = <<>>
      BY <2>4, <2>6, <3>1 DEF Combined
    <3>2. CASE WaitingWrites(x) # <<>>
      <4>1. x \in Busy /\ trans[x].action \in Fetching
        BY <2>6 DEF LineFound, Fetching
      <4>2. ListedWrites(x) # {}
        BY <3>2, ListedWritesAre
      <4> DEFINE v == Last(WaitingWrites(x))
      <4>3. v \in ListedWrites(x) /\ \A w \in DoneFor(reqs[x].line) : w < v
        BY <4>1, <4>2, LastWaiting
      <4>4. EntryData(e)' = v
        BY <2>6, <3>2 DEF Combined
      <4> HIDE DEF v
      <4>5. v \in Nat
        BY <4>3, ListedWritesAre, TakenSent
      <4>6. reqs[r].line = reqs[x].line
        BY <2>1, <2>2, <2>6 DEF LinesInv
      <4>7. Above(v, DoneFor(reqs[r].line))
        <5>1. ASSUME NEW w \in DoneFor(reqs[r].line) PROVE w =< v
          <6>1. w \in Nat
            BY <5>1, WorkTaken, TakenSent DEF DoneFor, OfLine
          <6>2. w < v
            BY <4>3, <4>6, <5>1
          <6> QED
            BY <4>5, <6>1, <6>2
        <5> QED
          BY <5>1 DEF Above
      <4> QED
        BY <2>3, <4>4, <4>5, <4>7, FloorBelow
    <3> QED
      BY <3>1, <3>2
  <2> QED
    BY <2>1, <2>3, <2>5, <2>6, EntryDataMoves
<1>2. CASE e \notin Filled
  <2>1. PICK b \in Slots : e \in ReqID /\ LineEnds(e, b)
    BY <1>2, FilledMoves
  <2>2. /\ e \in Busy /\ trans[e].action = "bankWriteFetched" /\ reqs' = reqs
        /\ entry' = entry /\ evictingData' = evictingData
    BY <2>1 DEF LineEnds, LeavesBank
  <2>3. EntryData(e)' = EntryData(e) /\ r \in ToSet(entry[e].requests)
    BY <2>2 DEF EntryData
  <2>4. r \in 1 .. Taken /\ reqs[r].line = reqs[e].line
    BY <2>1, <2>3, ListedWritesAre DEF LinesInv
  <2>5. Above(EntryData(e), DoneFor(reqs[r].line))
    BY <2>2, <2>4 DEF FetchedInv
  <2>6. EntryData(e) \in Nat
    BY <2>1, EntryDataTyped DEF WInv, WTypes, ArrayTypes, BufferTypes
  <2> QED
    BY <2>2, <2>3, <2>4, <2>5, <2>6, FloorBelow
<1> QED
  BY <1>1, <1>2

\* An answer is new when the bank answers, or an entry that is filled.
LEMMA NewGiven ==
  ASSUME Kind, NEW x \in Given', x \notin Given
  PROVE  \/ \E t \in ReqID : ReadEnds(t) /\ x = [rspTo |-> t, ver |-> storage[trans[t].block]]
         \/ \E t \in ReqID, b \in Slots : WriteEnds(t, b) /\ x = [rspTo |-> t, ver |-> t]
         \/ \E e \in ReqID : /\ Answering /\ AnswersOf(e)
                             /\ x = [rspTo |-> Head(entry[e].requests), ver |-> EntryData(e)]
<1>1. CASE Still \/ (\E r : Comes(r)) \/ Below \/ Pulled
  BY <1>1 DEF Still, Comes, Below, Pulled
<1>2. CASE Answering
  BY <1>2 DEF Answering, AnswersOf
<1>3. CASE StepOf
  <2>1. PICK t \in ReqID : OfBank(t) \/ OfBuffer(t) \/ OfDirectory(t)
    BY <1>3 DEF StepOf
  <2>2. ~(OfBuffer(t) \/ OfDirectory(t))
    BY DEF OfBuffer, LineComes, LineFound, LineAsked, EvictionHeld, NewKept,
           OfDirectory, Joins, ReadsBlock, OwnsBlock, NextTaken, DirKept
  <2>3. ASSUME NEW b \in Slots PROVE ~LineEnds(t, b)
    BY DEF LineEnds
  <2>4. ~OldTaken(t)
    BY DEF OldTaken
  <2>5. ReadEnds(t) \/ \E b \in Slots : WriteEnds(t, b)
    BY <2>1, <2>2, <2>3, <2>4 DEF OfBank
  <2> QED
    BY <2>5 DEF ReadEnds, WriteEnds
<1> QED
  BY <1>1, <1>2, <1>3 DEF Kind

\* What is given is what reads must return.
LEMMA GivenStep ==
  ASSUME WInv, LedgerInv, OrderInv, FloorInv, StorageInv, FilledInv, GivenInv, Kind
  PROVE  GivenInv'
<1>0. Ages
  BY StepAges
<1> SUFFICES ASSUME NEW x \in Given', NEW r, r = x.rspTo, ~reqs'[r].write
             PROVE  x.ver >= reqs'[r].floor
  BY DEF GivenInv
<1>1. CASE x \in Given
  <2>1. r \in 1 .. Taken
    BY <1>1 DEF LedgerInv, Ledger
  <2>2. reqs'[r] = reqs[r]
    BY <1>0, <2>1 DEF Ages
  <2> QED
    BY <1>1, <2>2 DEF GivenInv
<1>2. ASSUME NEW t \in ReqID, ReadEnds(t),
             x = [rspTo |-> t, ver |-> storage[trans[t].block]]
      PROVE  x.ver >= reqs'[r].floor
  <2> DEFINE b == trans[t].block
  <2>1. t \in Busy /\ trans[t].action = "bankReadHit" /\ reqs' = reqs /\ b \in Slots
    BY <1>2 DEF ReadEnds, LeavesBank
  <2>2. blocks[b].IsValid /\ ~blocks[b].IsLocked /\ blocks[b].Tag = reqs[t].line
    BY <2>1, BlockOf DEF Reader
  <2>3. Above(storage[b], DoneFor(reqs[t].line))
    BY <2>1, <2>2 DEF StorageInv
  <2>4. storage[b] \in Nat /\ t \in 1 .. Taken
    BY <2>1, BusyTyped DEF WInv, WTypes, ArrayTypes
  <2> HIDE DEF b
  <2>5. storage[b] >= reqs[t].floor
    BY <2>3, <2>4, FloorBelow
  <2> QED
    BY <1>2, <2>1, <2>5 DEF b
<1>3. ASSUME NEW t \in ReqID, NEW b \in Slots, WriteEnds(t, b), x = [rspTo |-> t, ver |-> t]
      PROVE  x.ver >= reqs'[r].floor
  <2>1. t \in Busy /\ trans[t].action = "bankWriteHit" /\ reqs' = reqs
    BY <1>3 DEF WriteEnds, LeavesBank
  <2>2. t \in UnderWay /\ t \in 1 .. Taken /\ t \in Nat
    BY <2>1, BusyTyped DEF UnderWay, DirectNow, DirectOf, DirectActions
  <2>3. ASSUME NEW w \in DoneFor(reqs[t].line) PROVE w =< t
    <3>1. w \in Nat /\ w < t
      BY <2>2, <2>3, WorkTaken, TakenSent DEF OrderInv, DoneFor, OfLine
    <3> QED
      BY <2>2, <3>1
  <2>4. t >= reqs[t].floor
    BY <2>2, <2>3, FloorBelow DEF Above
  <2> QED
    BY <1>3, <2>1, <2>4
<1>4. ASSUME NEW e \in ReqID, Answering, AnswersOf(e),
             x = [rspTo |-> Head(entry[e].requests), ver |-> EntryData(e)]
      PROVE  x.ver >= reqs'[r].floor
  <2>1. /\ e \in Filled /\ entry[e].requests \in Seq(ReqID) /\ entry[e].requests # <<>>
        /\ reqs' = reqs
    BY <1>4 DEF Answering, AnswersOf
  <2>2. r \in ToSet(entry[e].requests)
    BY <1>4, <2>1, HeadAndRest
  <2> QED
    BY <1>4, <2>1, <2>2 DEF FilledInv
<1> QED
  BY <1>1, <1>2, <1>3, <1>4, NewGiven

(***************************************************************************)
(* Reads are not stale                                                     *)
(***************************************************************************)
\* At the beginning nothing is at work, written or asked for.
LEMMA DataBegins == Init => ReadersInv /\ DataInv
<1> SUFFICES ASSUME Init PROVE ReadersInv /\ DataInv
  OBVIOUS
<1>1. /\ entry = [t \in ReqID |-> [block |-> 0, requests |-> <<>>, data |-> 0, slice |-> 0]]
      /\ reqs = <<>> /\ topIn = <<>> /\ dirStageBuffer = <<>> /\ dirBuf = <<>>
      /\ topOut = <<>> /\ answers = {} /\ bottomOut = <<>> /\ lowReqs = <<>>
      /\ bottomIn = <<>> /\ pendingEvictions = <<>> /\ inflightEviction = <<>>
  BY DEF Init
<1>2. WInv
  BY WInvBegins
<1>3. Taken = 0
  <2>1. Taken =< Len(reqs) /\ Taken \in Nat
    BY <1>2, TakenSent
  <2>2. Len(reqs) = 0
    BY <1>1
  <2> QED
    BY <2>1, <2>2
<1>4. Busy = {} /\ Filled = {} /\ inflightFetch = {} /\ AtBuffer = {}
  <2>1. Busy = {} /\ Filled = {}
    BY <1>2, <1>3, PlacesNow, BusyTyped
  <2> QED
    BY <1>2, <2>1, Apart
<1>5. Given = {}
  BY <1>1, SetOfEmpty DEF Given, GivenOf
<1>6. \A e \in ReqID : ToSet(entry[e].requests) = {}
  BY <1>1, SetOfEmpty
<1>7. mshr = {}
  BY DEF Init
<1>8. UnderWay = {} /\ \A l : DoneFor(l) = {}
  BY <1>3, <1>4, <1>7 DEF UnderWay, DirectNow, DirectOf, Listed, Done, DoneOf, DoneFor, OfLine
<1>9. \A v, l : Above(v, DoneFor(l))
  BY <1>8 DEF Above
<1>10. Evs = {}
  BY <1>1, SetOfEmpty DEF Evs
<1> DEFINE none == <<>>
<1>11. DOMAIN none = {} /\ ToSet(none) = {}
  BY SetOfEmpty
<1> HIDE DEF none
<1>12. WritesOf(none) = {} /\ WrittenOnce(none) /\ LinesTold(none, trans, reqs) /\ IsInjective(none)
  BY <1>11 DEF WritesOf, WrittenOnce, LinesTold, IsInjective
<1>13. /\ bottomOut = none /\ lowReqs = none /\ bottomIn = none /\ pendingEvictions = none
       /\ inflightEviction = none /\ reqs = none
  BY <1>1 DEF none
<1>14. ReadersInv /\ OrderInv
  BY <1>4, <1>8 DEF ReadersInv, OrderInv
<1>15. LinesInv
  BY <1>6 DEF LinesInv
<1>16. FloorInv
  BY <1>1 DEF FloorInv
<1>17. WriteAskInv /\ MessageInv
  BY <1>11, <1>12, <1>13 DEF WriteAskInv, WriteAsks, MessageInv
<1>18. EvsInv /\ FetchInv /\ DepartInv
  BY <1>4, <1>10 DEF EvsInv, FetchInv, DepartInv
<1>19. OldInv /\ StorageInv /\ FetchedInv /\ AnswerInv
  BY <1>9 DEF OldInv, StorageInv, FetchedInv, AnswerInv
<1>20. SliceInv /\ FilledInv /\ GivenInv
  BY <1>4, <1>5 DEF SliceInv, WithData, FilledInv, GivenInv
<1> QED
  BY <1>14, <1>15, <1>16, <1>17, <1>18, <1>19, <1>20 DEF DataInv

\* Every step keeps it, when the write buffer does not get a second eviction of a line.
LEMMA DataSteps ==
  WInv /\ LedgerInv /\ ReadersInv /\ DataInv /\ OneEviction' /\ [Next]_vars
    => ReadersInv' /\ DataInv'
<1> SUFFICES ASSUME WInv, LedgerInv, ReadersInv, DataInv, OneEviction', [Next]_vars
             PROVE  ReadersInv' /\ DataInv'
  OBVIOUS
<1>0. WInv' /\ Kind
  BY WInvSteps, StepKinds
<1>1. /\ OrderInv /\ LinesInv /\ FloorInv
      /\ WriteAskInv /\ MessageInv /\ EvsInv /\ FetchInv /\ DepartInv
      /\ OldInv /\ StorageInv /\ FetchedInv /\ AnswerInv
      /\ SliceInv /\ FilledInv /\ GivenInv
  BY DEF DataInv
<1>2. ReadersInv' /\ OrderInv' /\ LinesInv' /\ FloorInv'
  BY <1>0, <1>1, ReadersStep, OrderStep, LinesStep, FloorStep
<1>3. WriteAskInv'
  <2>1. CASE Below
    BY <1>1, <2>1, BelowWrites
  <2>2. CASE ~Below
    BY <1>0, <1>1, <2>2, StepWrites
  <2> QED
    BY <2>1, <2>2
<1>4. MessageInv' /\ EvsInv' /\ FetchInv' /\ DepartInv'
  BY <1>0, <1>1, MessageStep, EvsStep, FetchStep, DepartStep
<1>5. OldInv'
  BY <1>0, <1>1, OldStep
<1>6. StorageInv' /\ FetchedInv'
  BY <1>0, <1>1, StorageStep, FetchedStep
<1>7. AnswerInv'
  BY <1>0, <1>1, AnswerStep
<1>8. SliceInv' /\ FilledInv' /\ GivenInv'
  BY <1>0, <1>1, SliceStep, FilledStep, GivenStep
<1> QED
  BY <1>2, <1>3, <1>4, <1>5, <1>6, <1>7, <1>8 DEF DataInv

\* What is given is not stale.
LEMMA GivenIsFresh == GivenInv => ReadNotStale
BY DEF GivenInv, ReadNotStale, Given, GivenOf, Write

\* A read never returns less than a write that was acknowledged before it was sent, as long
\* as no line is evicted again before its last eviction is acknowledged: whatever the order
\* of hits, misses, fetches from the write buffer and writes below, and whatever the
\* geometry (bankstage.go, writebufferstage.go, mshrstage.go).  Without that proviso the
\* write buffer serves a fetch from the older of two evictions, and the code does return
\* stale data.
THEOREM ReadsStayFresh == Spec /\ []OneEviction => []ReadNotStale
<1>1. Spec => [](WInv /\ LedgerInv)
  <2>1. Init => LedgerInv
    BY LedgerBegins
  <2>2. WInv /\ LedgerInv /\ [Next]_vars => LedgerInv'
    BY LedgerSteps
  <2> QED
    BY <2>1, <2>2, WInvHolds, PTL DEF Spec
<1>2. Spec /\ []OneEviction => [](ReadersInv /\ DataInv)
  <2>1. Init => ReadersInv /\ DataInv
    BY DataBegins
  <2>2. WInv /\ LedgerInv /\ ReadersInv /\ DataInv /\ OneEviction' /\ [Next]_vars
          => ReadersInv' /\ DataInv'
    BY DataSteps
  <2> QED
    BY <1>1, <2>1, <2>2, PTL DEF Spec
<1>3. DataInv => ReadNotStale
  BY GivenIsFresh DEF DataInv
<1> QED
  BY <1>2, <1>3, PTL

\* A write buffer that holds one eviction never holds two of a line.
LEMMA OneSlotOneEviction ==
  ASSUME WInv, WriteBufferCapacity = 1 PROVE OneEviction
<1>1. /\ inflightEviction \in Seq(ReqID) /\ pendingEvictions \in Seq(ReqID)
      /\ Len(pendingEvictions) + Len(inflightEviction) =< 1
  BY DEF WInv, WTypes, BufferTypes
<1>2. /\ Len(inflightEviction) \in Nat /\ DOMAIN inflightEviction = 1 .. Len(inflightEviction)
      /\ Len(pendingEvictions) \in Nat /\ DOMAIN pendingEvictions = 1 .. Len(pendingEvictions)
  BY <1>1, LenProperties
<1>3. CASE Len(pendingEvictions) = 0
  <2>1. \A i, j \in DOMAIN inflightEviction : i = j
    BY <1>1, <1>2, <1>3
  <2>2. ToSet(pendingEvictions) = {}
    BY <1>2, <1>3 DEF ToSet
  <2>3. \A t, u \in ToSet(inflightEviction) : t = u
    BY <2>1 DEF ToSet
  <2> QED
    BY <2>2, <2>3 DEF OneEviction
<1>4. CASE Len(pendingEvictions) # 0
  <2>1. \A i, j \in DOMAIN pendingEvictions : i = j
    BY <1>1, <1>2
  <2>2. Len(inflightEviction) = 0
    BY <1>1, <1>2, <1>4
  <2>3. ToSet(inflightEviction) = {}
    BY <1>2, <2>2 DEF ToSet
  <2>4. \A t, u \in ToSet(pendingEvictions) : t = u
    BY <2>1 DEF ToSet
  <2> QED
    BY <2>3, <2>4 DEF OneEviction
<1> QED
  BY <1>3, <1>4

\* With room for one eviction in the write buffer (WithWriteBufferSize(1) of builder.go) no
\* proviso is needed: no read returns less than was acknowledged before it was sent.
THEOREM OneSlotStaysFresh == WriteBufferCapacity = 1 => (Spec => []ReadNotStale)
<1> SUFFICES ASSUME WriteBufferCapacity = 1 PROVE Spec => []ReadNotStale
  OBVIOUS
<1>1. WInv => OneEviction
  BY OneSlotOneEviction
<1>2. Spec => []OneEviction
  BY <1>1, WInvHolds, PTL
<1> QED
  BY <1>2, ReadsStayFresh, PTL
==============================================================================

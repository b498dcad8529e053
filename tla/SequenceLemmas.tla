--------------------------- MODULE SequenceLemmas ---------------------------
(***************************************************************************)
(* Facts about the sequence operators the specifications are built from:   *)
(* what RemoveAt, Tail and Append do to the elements of a sequence, to     *)
(* their number of a kind, and to two sequences read one after the other.  *)
(***************************************************************************)
EXTENDS Integers, Sequences, FiniteSets, SequencesExt, Filtering, FiniteSetTheorems,
        SequenceTheorems, WellFoundedInduction, TLAPS

\* Min returns a least element of a non-empty set of naturals.
LEMMA MinInSet ==
  ASSUME NEW S \in SUBSET Nat, S # {}
  PROVE  Min(S) \in S /\ \A j \in S : Min(S) =< j
<1> DEFINE R == {ss \in Nat \X Nat : ss[1] < ss[2]}
<1>1. IsWellFoundedOn(R, Nat)
  BY NatLessThanWellFounded, Zenon DEF OpToRel
<1> HIDE DEF R
<1>2. PICK x \in S : \A y \in S : ~(<<y, x>> \in R)
  BY <1>1, WFMin
<1>3. ASSUME NEW y \in S PROVE x =< y
  <2>1. y \in Nat /\ x \in Nat
    OBVIOUS
  <2>2. y < x => <<y, x>> \in R
    BY <2>1 DEF R
  <2> QED
    BY <1>2, <2>1, <2>2
<1> QED
  BY <1>3 DEF Min

\* Removing an element moves the later ones up by one.
LEMMA RemoveAtProps ==
  ASSUME NEW S, NEW s \in Seq(S), NEW k \in 1 .. Len(s)
  PROVE  /\ RemoveAt(s, k) \in Seq(S)
         /\ Len(RemoveAt(s, k)) = Len(s) - 1
         /\ \A i \in 1 .. Len(s) - 1 :
              RemoveAt(s, k)[i] = IF i < k THEN s[i] ELSE s[i + 1]
<1> DEFINE a == SubSeq(s, 1, k - 1)
           b == SubSeq(s, k + 1, Len(s))
<1>1. Len(s) \in Nat /\ \A i \in 1 .. Len(s) : s[i] \in S
  BY LenProperties, ElementOfSeq
<1>2. /\ a \in Seq(S) /\ Len(a) = k - 1
      /\ \A i \in 1 .. k - 1 : a[i] = s[i]
  BY <1>1, SubSeqProperties
<1>3. /\ b \in Seq(S) /\ Len(b) = Len(s) - k
      /\ \A i \in 1 .. Len(s) - k : b[i] = s[k + i]
  BY <1>1, SubSeqProperties
<1> HIDE DEF a, b
<1>4. /\ a \o b \in Seq(S) /\ Len(a \o b) = Len(s) - 1
      /\ \A i \in 1 .. Len(s) - 1 :
           (a \o b)[i] = IF i < k THEN s[i] ELSE s[i + 1]
  <2>1. /\ a \o b \in Seq(S) /\ Len(a \o b) = Len(a) + Len(b)
        /\ \A i \in 1 .. Len(a) + Len(b) :
             (a \o b)[i] = IF i <= Len(a) THEN a[i] ELSE b[i - Len(a)]
    BY <1>2, <1>3, ConcatProperties
  <2>2. Len(a) + Len(b) = Len(s) - 1
    BY <1>1, <1>2, <1>3
  <2>3. ASSUME NEW i \in 1 .. Len(s) - 1
        PROVE  (a \o b)[i] = IF i < k THEN s[i] ELSE s[i + 1]
    <3>1. CASE i < k
      BY <1>1, <1>2, <2>1, <2>2, <3>1
    <3>2. CASE ~(i < k)
      <4>1. i - Len(a) \in 1 .. Len(s) - k /\ k + (i - Len(a)) = i + 1
        BY <1>1, <1>2, <3>2
      <4>2. (a \o b)[i] = b[i - Len(a)]
        BY <1>1, <1>2, <2>1, <2>2, <3>2
      <4> QED
        BY <1>3, <3>2, <4>1, <4>2
    <3> QED
      BY <3>1, <3>2
  <2> QED
    BY <2>1, <2>2, <2>3
<1>5. RemoveAt(s, k) = a \o b
  BY DEF RemoveAt, a, b
<1> QED
  BY <1>4, <1>5

\* The first element is removed by Tail.
LEMMA TailRemoves ==
  ASSUME NEW S, NEW s \in Seq(S), s # <<>>
  PROVE  1 \in 1 .. Len(s) /\ Tail(s) = RemoveAt(s, 1)
<1>1. Len(s) \in Nat \ {0}
  BY EmptySeq, LenProperties
<1>2. /\ Tail(s) \in Seq(S) /\ Len(Tail(s)) = Len(s) - 1
      /\ \A i \in 1 .. Len(Tail(s)) : Tail(s)[i] = s[i + 1]
  BY HeadTailProperties
<1>3. /\ RemoveAt(s, 1) \in Seq(S) /\ Len(RemoveAt(s, 1)) = Len(s) - 1
      /\ \A i \in 1 .. Len(s) - 1 : RemoveAt(s, 1)[i] = s[i + 1]
  BY <1>1, RemoveAtProps
<1> QED
  BY <1>1, <1>2, <1>3, SeqEqual

(***************************************************************************)
(* Counting the elements of a kind                                         *)
(***************************************************************************)
Positions(s, T) == {i \in DOMAIN s : s[i] \in T}

LEMMA PositionsFinite ==
  ASSUME NEW S, NEW s \in Seq(S), NEW T
  PROVE  /\ IsFiniteSet(Positions(s, T))
         /\ Cardinality(Positions(s, T)) \in Nat
<1>1. Len(s) \in Nat /\ DOMAIN s = 1 .. Len(s)
  BY LenProperties
<1>2. IsFiniteSet(1 .. Len(s)) /\ Positions(s, T) \in SUBSET (1 .. Len(s))
  BY <1>1, FS_Interval DEF Positions
<1> QED
  BY <1>2, FS_Subset, FS_CardinalityType

LEMMA CountAppended ==
  ASSUME NEW S, NEW s \in Seq(S), NEW e \in S, NEW T
  PROVE  Cardinality(Positions(Append(s, e), T)) =
           Cardinality(Positions(s, T)) + (IF e \in T THEN 1 ELSE 0)
<1>1. /\ Len(s) \in Nat /\ DOMAIN s = 1 .. Len(s)
      /\ DOMAIN Append(s, e) = 1 .. Len(s) + 1
      /\ Append(s, e)[Len(s) + 1] = e
      /\ \A i \in 1 .. Len(s) : Append(s, e)[i] = s[i]
  BY LenProperties, AppendProperties
<1>2. IsFiniteSet(Positions(s, T))
  BY PositionsFinite
<1>3. CASE e \in T
  <2>1. Positions(Append(s, e), T) = Positions(s, T) \cup {Len(s) + 1}
    BY <1>1, <1>3 DEF Positions
  <2>2. Len(s) + 1 \notin Positions(s, T)
    BY <1>1 DEF Positions
  <2> QED
    BY <1>2, <1>3, <2>1, <2>2, FS_AddElement
<1>4. CASE e \notin T
  <2>1. Positions(Append(s, e), T) = Positions(s, T)
    BY <1>1, <1>4 DEF Positions
  <2> QED
    BY <1>2, <1>4, <2>1, PositionsFinite
<1> QED
  BY <1>3, <1>4

\* The elements of a sequence are in the set it is a sequence over.
LEMMA SetOfEmpty == ToSet(<<>>) = {}
<1>1. DOMAIN <<>> = {}
  OBVIOUS
<1> QED
  BY <1>1 DEF ToSet

LEMMA SetOfSeq ==
  ASSUME NEW S, NEW s \in Seq(S)
  PROVE  ToSet(s) \subseteq S
BY LenProperties, ElementOfSeq DEF ToSet

LEMMA CountRemoved ==
  ASSUME NEW S, NEW s \in Seq(S), NEW k \in 1 .. Len(s), NEW T
  PROVE  Cardinality(Positions(RemoveAt(s, k), T)) =
           Cardinality(Positions(s, T)) - (IF s[k] \in T THEN 1 ELSE 0)
<1> DEFINE r == RemoveAt(s, k)
           A == Positions(r, T)
           B == Positions(s, T) \ {k}
           f == [i \in A |-> IF i < k THEN i ELSE i + 1]
<1>1. /\ Len(s) \in Nat /\ DOMAIN s = 1 .. Len(s) /\ r \in Seq(S)
      /\ DOMAIN r = 1 .. Len(s) - 1
      /\ \A i \in 1 .. Len(s) - 1 : r[i] = IF i < k THEN s[i] ELSE s[i + 1]
  BY LenProperties, RemoveAtProps
<1> HIDE DEF r
<1>2. f \in [A -> B]
  BY <1>1 DEF Positions
<1>3. \A i, j \in A : f[i] = f[j] => i = j
  BY <1>1 DEF Positions
<1>4. ASSUME NEW j \in B PROVE \E i \in A : f[i] = j
  <2>1. CASE j < k
    <3>1. j \in A /\ f[j] = j
      BY <1>1, <1>4, <2>1 DEF Positions
    <3> QED
      BY <3>1
  <2>2. CASE j > k
    <3>1. j - 1 \in A /\ f[j - 1] = j
      BY <1>1, <1>4, <2>2 DEF Positions
    <3> QED
      BY <3>1
  <2> QED
    BY <1>1, <1>4, <2>1, <2>2, SMTT(30) DEF Positions
<1>5. ExistsBijection(A, B)
  <2>1. f \in Bijection(A, B)
    BY <1>2, <1>3, <1>4 DEF Bijection, Injection, Surjection, IsInjective
  <2> QED
    BY <2>1 DEF ExistsBijection
<1>6. IsFiniteSet(A) /\ Cardinality(B) = Cardinality(A)
  BY <1>1, <1>5, PositionsFinite, FS_Bijection
<1>7. IsFiniteSet(Positions(s, T)) /\ Cardinality(Positions(s, T)) \in Nat
  BY PositionsFinite
<1>8. Cardinality(B) = IF k \in Positions(s, T)
                         THEN Cardinality(Positions(s, T)) - 1
                         ELSE Cardinality(Positions(s, T))
  BY <1>7, FS_RemoveElement
<1>9. k \in Positions(s, T) <=> s[k] \in T
  BY <1>1 DEF Positions
<1> QED
  BY <1>6, <1>7, <1>8, <1>9 DEF r
(***************************************************************************)
(* The elements of a sequence without repetitions                          *)
(***************************************************************************)
\* An element added at the end is one more element ...
LEMMA SetAppended ==
  ASSUME NEW S, NEW s \in Seq(S), NEW e \in S
  PROVE  ToSet(Append(s, e)) = ToSet(s) \cup {e}
<1> DEFINE r == Append(s, e)
<1>1. /\ Len(s) \in Nat /\ DOMAIN s = 1 .. Len(s)
      /\ DOMAIN r = 1 .. Len(s) + 1 /\ r[Len(s) + 1] = e
      /\ \A i \in 1 .. Len(s) : r[i] = s[i]
  BY LenProperties, AppendProperties
<1> HIDE DEF r
<1>2. ToSet(r) = ToSet(s) \cup {e}
  BY <1>1 DEF ToSet
<1> QED
  BY <1>2 DEF r

\* ... and a new one keeps the elements distinct.
LEMMA ElementsAppended ==
  ASSUME NEW S, NEW s \in Seq(S), NEW e \in S, e \notin ToSet(s),
         IsInjective(s)
  PROVE  /\ ToSet(Append(s, e)) = ToSet(s) \cup {e}
         /\ IsInjective(Append(s, e))
         /\ Len(Append(s, e)) = Len(s) + 1
<1> DEFINE r == Append(s, e)
<1>1. /\ Len(s) \in Nat /\ DOMAIN s = 1 .. Len(s)
      /\ DOMAIN r = 1 .. Len(s) + 1 /\ Len(r) = Len(s) + 1
      /\ r[Len(s) + 1] = e
      /\ \A i \in 1 .. Len(s) : r[i] = s[i]
  BY LenProperties, AppendProperties
<1> HIDE DEF r
<1>2. ToSet(r) = ToSet(s) \cup {e}
  BY <1>1 DEF ToSet
<1>3. ASSUME NEW i \in DOMAIN r, NEW j \in DOMAIN r, r[i] = r[j]
      PROVE  i = j
  <2>1. i \in DOMAIN s /\ j \in DOMAIN s => i = j
    BY <1>1, <1>3 DEF IsInjective
  <2>2. \A k \in DOMAIN s : r[k] # e
    BY <1>1 DEF ToSet
  <2> QED
    BY <1>1, <1>3, <2>1, <2>2
<1>4. IsInjective(r)
  BY <1>3 DEF IsInjective
<1> QED
  BY <1>1, <1>2, <1>4 DEF r

\* What is left after a removal are all the other elements.
LEMMA ElementsRemoved ==
  ASSUME NEW S, NEW s \in Seq(S), NEW k \in 1 .. Len(s), IsInjective(s)
  PROVE  /\ s[k] \in ToSet(s)
         /\ ToSet(RemoveAt(s, k)) = ToSet(s) \ {s[k]}
         /\ IsInjective(RemoveAt(s, k))
         /\ Len(RemoveAt(s, k)) = Len(s) - 1
<1> DEFINE r == RemoveAt(s, k)
<1>1. Len(s) \in Nat /\ DOMAIN s = 1 .. Len(s)
  BY LenProperties
<1>2. /\ r \in Seq(S) /\ Len(r) = Len(s) - 1
      /\ \A i \in 1 .. Len(s) - 1 : r[i] = IF i < k THEN s[i] ELSE s[i + 1]
  BY RemoveAtProps
<1> HIDE DEF r
<1>3. DOMAIN r = 1 .. Len(s) - 1
  BY <1>2, LenProperties
<1>4. ASSUME NEW i \in DOMAIN r
      PROVE  \E j \in DOMAIN s \ {k} :
               r[i] = s[j] /\ j = IF i < k THEN i ELSE i + 1
  <2>1. CASE i < k
    <3>1. i \in DOMAIN s \ {k} /\ r[i] = s[i]
      BY <1>1, <1>2, <1>3, <2>1
    <3> QED
      BY <2>1, <3>1
  <2>2. CASE ~(i < k)
    <3>1. i + 1 \in DOMAIN s \ {k} /\ r[i] = s[i + 1]
      BY <1>1, <1>2, <1>3, <2>2
    <3> QED
      BY <2>2, <3>1
  <2> QED
    BY <2>1, <2>2
<1>5. ASSUME NEW j \in DOMAIN s \ {k} PROVE \E i \in DOMAIN r : r[i] = s[j]
  <2>1. CASE j < k
    <3>1. j \in DOMAIN r /\ r[j] = s[j]
      BY <1>1, <1>2, <1>3, <2>1
    <3> QED
      BY <3>1
  <2>2. CASE ~(j < k)
    <3>1. /\ j - 1 \in DOMAIN r /\ ~(j - 1 < k) /\ (j - 1) + 1 = j
          /\ j - 1 \in 1 .. Len(s) - 1
      BY <1>1, <1>3, <2>2
    <3>2. r[j - 1] = s[j]
      BY <1>2, <3>1
    <3> QED
      BY <3>1, <3>2
  <2> QED
    BY <2>1, <2>2
<1>6. \A j \in DOMAIN s \ {k} : s[j] # s[k]
  BY <1>1 DEF IsInjective
<1>7. ToSet(r) = ToSet(s) \ {s[k]}
  <2>1. ASSUME NEW x \in ToSet(r) PROVE x \in ToSet(s) \ {s[k]}
    BY <1>4, <1>6 DEF ToSet
  <2>2. ASSUME NEW x \in ToSet(s) \ {s[k]} PROVE x \in ToSet(r)
    <3>1. PICK j \in DOMAIN s \ {k} : x = s[j]
      BY <2>2 DEF ToSet
    <3>2. PICK i \in DOMAIN r : r[i] = s[j]
      BY <1>5
    <3> QED
      BY <3>1, <3>2 DEF ToSet
  <2> QED
    BY <2>1, <2>2
<1>8. ASSUME NEW i \in DOMAIN r, NEW j \in DOMAIN r, r[i] = r[j]
      PROVE  i = j
  <2>1. PICK a \in DOMAIN s \ {k} :
          r[i] = s[a] /\ a = IF i < k THEN i ELSE i + 1
    BY <1>4
  <2>2. PICK b \in DOMAIN s \ {k} :
          r[j] = s[b] /\ b = IF j < k THEN j ELSE j + 1
    BY <1>4
  <2>3. a = b
    BY <1>8, <2>1, <2>2 DEF IsInjective
  <2>4. i \in Int /\ j \in Int /\ k \in Int
    BY <1>1, <1>3
  <2> QED
    BY <2>1, <2>2, <2>3, <2>4
<1>9. IsInjective(r)
  BY <1>8 DEF IsInjective
<1>10. s[k] \in ToSet(s)
  BY <1>1 DEF ToSet
<1> QED
  BY <1>2, <1>7, <1>9, <1>10 DEF r

\* The head of a queue leaves it.
LEMMA ElementsAfterHead ==
  ASSUME NEW S, NEW s \in Seq(S), s # <<>>, IsInjective(s)
  PROVE  /\ Head(s) \in ToSet(s) /\ Head(s) \in S
         /\ ToSet(Tail(s)) = ToSet(s) \ {Head(s)}
         /\ IsInjective(Tail(s))
         /\ Len(Tail(s)) = Len(s) - 1
         /\ Tail(s) \in Seq(S)
<1>1. 1 \in 1 .. Len(s) /\ Tail(s) = RemoveAt(s, 1)
  BY TailRemoves
<1>2. Head(s) = s[1] /\ Head(s) \in S /\ Tail(s) \in Seq(S)
  BY HeadTailProperties
<1> QED
  BY <1>1, <1>2, ElementsRemoved

\* Two sequences one after the other: appending to the second, ...
LEMMA ConcatAppend ==
  ASSUME NEW S, NEW s \in Seq(S), NEW t \in Seq(S), NEW e \in S
  PROVE  s \o Append(t, e) = Append(s \o t, e)
<1>1. Append(t, e) = t \o <<e>>
  BY AppendIsConcat
<1>2. s \o t \in Seq(S)
  BY ConcatProperties
<1>3. Append(s \o t, e) = (s \o t) \o <<e>>
  BY <1>2, AppendIsConcat
<1>4. <<e>> \in Seq(S)
  OBVIOUS
<1> QED
  BY <1>1, <1>3, <1>4, ConcatAssociative

\* ... passing the head of the second on to the first, ...
LEMMA ConcatShift ==
  ASSUME NEW S, NEW s \in Seq(S), NEW t \in Seq(S), t # <<>>
  PROVE  Append(s, Head(t)) \o Tail(t) = s \o t
<1> DEFINE h == Head(t)
           u == Tail(t)
<1>1. /\ h \in S /\ u \in Seq(S) /\ Len(u) = Len(t) - 1 /\ h = t[1]
      /\ \A i \in 1 .. Len(t) - 1 : u[i] = t[i + 1]
      /\ Len(t) \in Nat \ {0}
  BY HeadTailProperties, LenProperties, EmptySeq
<1> HIDE DEF h, u
<1>2. <<h>> \in Seq(S) /\ Len(<<h>>) = 1 /\ <<h>>[1] = h
  BY <1>1
<1>3. <<h>> \o u = t
  <2>1. /\ <<h>> \o u \in Seq(S) /\ Len(<<h>> \o u) = Len(t)
        /\ \A i \in 1 .. Len(t) :
             (<<h>> \o u)[i] = IF i <= 1 THEN <<h>>[i] ELSE u[i - 1]
    BY <1>1, <1>2, ConcatProperties
  <2>2. ASSUME NEW i \in 1 .. Len(t) PROVE (<<h>> \o u)[i] = t[i]
    <3>1. CASE i = 1
      BY <1>1, <1>2, <2>1, <3>1
    <3>2. CASE i # 1
      <4>1. i - 1 \in 1 .. Len(t) - 1 /\ (i - 1) + 1 = i /\ ~(i <= 1)
        BY <1>1, <3>2
      <4>2. u[i - 1] = t[i]
        BY <1>1, <4>1
      <4> QED
        BY <2>1, <4>1, <4>2
    <3> QED
      BY <3>1, <3>2
  <2> QED
    BY <2>1, <2>2, SeqEqual
<1>4. Append(s, h) = s \o <<h>>
  BY <1>1, AppendIsConcat
<1>5. (s \o <<h>>) \o u = s \o (<<h>> \o u)
  BY <1>1, <1>2, ConcatAssociative
<1> QED
  BY <1>3, <1>4, <1>5 DEF h, u

\* ... and taking an element out of the first.
LEMMA ConcatRemove ==
  ASSUME NEW S, NEW s \in Seq(S), NEW t \in Seq(S), NEW k \in 1 .. Len(s)
  PROVE  /\ k \in 1 .. Len(s \o t) /\ (s \o t)[k] = s[k]
         /\ RemoveAt(s, k) \o t = RemoveAt(s \o t, k)
<1> DEFINE q == s \o t
           r == RemoveAt(s, k)
           a == r \o t
           b == RemoveAt(q, k)
<1>1. /\ Len(s) \in Nat /\ Len(t) \in Nat /\ q \in Seq(S)
      /\ Len(q) = Len(s) + Len(t)
      /\ \A i \in 1 .. Len(s) + Len(t) :
           q[i] = IF i <= Len(s) THEN s[i] ELSE t[i - Len(s)]
  BY LenProperties, ConcatProperties
<1>2. /\ r \in Seq(S) /\ Len(r) = Len(s) - 1
      /\ \A i \in 1 .. Len(s) - 1 : r[i] = IF i < k THEN s[i] ELSE s[i + 1]
  BY RemoveAtProps
<1> HIDE DEF q, r
<1>3. k \in 1 .. Len(q) /\ q[k] = s[k]
  BY <1>1
<1>4. /\ a \in Seq(S) /\ Len(a) = Len(r) + Len(t)
      /\ \A i \in 1 .. Len(r) + Len(t) :
           a[i] = IF i <= Len(r) THEN r[i] ELSE t[i - Len(r)]
  BY <1>2, ConcatProperties
<1>5. /\ b \in Seq(S) /\ Len(b) = Len(q) - 1
      /\ \A i \in 1 .. Len(q) - 1 : b[i] = IF i < k THEN q[i] ELSE q[i + 1]
  BY <1>1, <1>3, RemoveAtProps
<1> HIDE DEF a, b
<1>6. ASSUME NEW i \in 1 .. Len(a) PROVE a[i] = b[i]
  <2>0. i \in Int /\ 1 <= i /\ i <= Len(s) - 1 + Len(t) /\ i <= Len(q) - 1
    BY <1>1, <1>2, <1>4
  <2>1. CASE i <= Len(s) - 1
    <3>1. a[i] = IF i < k THEN s[i] ELSE s[i + 1]
      BY <1>1, <1>2, <1>4, <2>0, <2>1
    <3>2. b[i] = IF i < k THEN q[i] ELSE q[i + 1]
      BY <1>1, <1>5, <2>0
    <3>3. q[i] = s[i] /\ q[i + 1] = s[i + 1]
      BY <1>1, <2>0, <2>1
    <3> QED
      BY <3>1, <3>2, <3>3
  <2>2. CASE ~(i <= Len(s) - 1)
    <3>1. a[i] = t[i - (Len(s) - 1)]
      BY <1>1, <1>2, <1>4, <2>0, <2>2
    <3>2. b[i] = q[i + 1]
      BY <1>1, <1>5, <2>0, <2>2
    <3>3. /\ i + 1 \in 1 .. Len(s) + Len(t) /\ ~(i + 1 <= Len(s))
          /\ (i + 1) - Len(s) = i - (Len(s) - 1)
      BY <1>1, <2>0, <2>2
    <3> QED
      BY <1>1, <3>1, <3>2, <3>3
  <2> QED
    BY <2>1, <2>2
<1>7. a = b
  <2>1. Len(a) = Len(b)
    BY <1>1, <1>2, <1>4, <1>5
  <2> QED
    BY <1>4, <1>5, <1>6, <2>1, SeqEqual
<1> QED
  BY <1>3, <1>7 DEF a, b, q, r

(***************************************************************************)
(* Sequences mapped element by element                                     *)
(***************************************************************************)
Mapped(s, e) == [k \in DOMAIN s |-> e[s[k]]]

\* A function from S to E.
Maps(e, S, E) == e \in [S -> E]

\* The length of a sequence is determined by its domain.
LEMMA SameInterval ==
  ASSUME NEW a \in Nat, NEW b \in Nat, 1 .. a = 1 .. b
  PROVE  a = b
<1>1. a \in Nat \ {0} => a \in 1 .. b
  OBVIOUS
<1>2. b \in Nat \ {0} => b \in 1 .. a
  OBVIOUS
<1> QED
  BY <1>1, <1>2

\* The shape of a mapped sequence ...
LEMMA MappedProps ==
  ASSUME NEW S, NEW E, NEW e, Maps(e, S, E)
  PROVE  \A s \in Seq(S) :
           /\ Mapped(s, e) \in Seq(E) /\ Len(Mapped(s, e)) = Len(s)
           /\ Len(s) \in Nat
           /\ \A k \in 1 .. Len(s) : Mapped(s, e)[k] = e[s[k]]
<1> SUFFICES ASSUME NEW s \in Seq(S)
             PROVE  /\ Mapped(s, e) \in Seq(E) /\ Len(Mapped(s, e)) = Len(s)
                    /\ Len(s) \in Nat
                    /\ \A k \in 1 .. Len(s) : Mapped(s, e)[k] = e[s[k]]
  OBVIOUS
<1> DEFINE m == Mapped(s, e)
           n == Len(s)
<1>0. n \in Nat
  BY LenProperties
<1>1. n \in Nat /\ DOMAIN s = 1 .. n /\ \A k \in 1 .. n : s[k] \in S
  BY LenProperties, ElementOfSeq
<1>2. m = [k \in 1 .. n |-> e[s[k]]]
  BY <1>1 DEF Mapped
<1> HIDE DEF m, n
<1>3. m \in Seq(E)
  <2>1. \A k \in 1 .. n : e[s[k]] \in E
    BY <1>1 DEF Maps
  <2> QED
    BY <1>1, <1>2, <2>1, IsASeq
<1>4. Len(m) = n
  <2>1. Len(m) \in Nat /\ DOMAIN m = 1 .. Len(m)
    BY <1>3, LenProperties
  <2>2. DOMAIN m = 1 .. n
    BY <1>2
  <2> QED
    BY <1>0, <2>1, <2>2, SameInterval
<1> QED
  BY <1>1, <1>2, <1>3, <1>4 DEF m, n

\* ... which depends only on the values at its elements ...
LEMMA MappedAgree ==
  ASSUME NEW S, NEW s \in Seq(S), NEW e, NEW f, \A x \in S : e[x] = f[x]
  PROVE  Mapped(s, e) = Mapped(s, f)
<1>1. \A k \in DOMAIN s : s[k] \in S
  BY LenProperties, ElementOfSeq
<1> QED
  BY <1>1 DEF Mapped

\* ... and mapping commutes with Append ...
LEMMA MappedAppend ==
  ASSUME NEW S, NEW E, NEW e, Maps(e, S, E), NEW s \in Seq(S),
         NEW x \in S
  PROVE  Mapped(Append(s, x), e) = Append(Mapped(s, e), e[x])
<1>0. \A t \in Seq(S) :
        /\ Mapped(t, e) \in Seq(E) /\ Len(Mapped(t, e)) = Len(t)
        /\ Len(t) \in Nat
        /\ \A k \in 1 .. Len(t) : Mapped(t, e)[k] = e[t[k]]
  BY MappedProps
<1> DEFINE r == Append(s, x)
           m == Mapped(s, e)
           a == Mapped(r, e)
           b == Append(m, e[x])
<1>1. /\ r \in Seq(S) /\ Len(r) = Len(s) + 1 /\ r[Len(s) + 1] = x
      /\ \A k \in 1 .. Len(s) : r[k] = s[k]
  BY AppendProperties
<1>2. /\ m \in Seq(E) /\ Len(m) = Len(s) /\ Len(s) \in Nat
      /\ \A k \in 1 .. Len(s) : m[k] = e[s[k]]
  BY <1>0
<1>3. /\ a \in Seq(E) /\ Len(a) = Len(r)
      /\ \A k \in 1 .. Len(r) : a[k] = e[r[k]]
  <2> HIDE DEF r
  <2> QED
    BY <1>0, <1>1
<1> HIDE DEF r, m, a
<1>4. /\ b \in Seq(E) /\ Len(b) = Len(s) + 1 /\ b[Len(s) + 1] = e[x]
      /\ \A k \in 1 .. Len(s) : b[k] = m[k]
  <2>1. e[x] \in E
    BY DEF Maps
  <2> QED
    BY <1>2, <2>1, AppendProperties
<1> HIDE DEF b
<1>5. ASSUME NEW k \in 1 .. Len(a) PROVE a[k] = b[k]
  <2>0. a[k] = e[r[k]] /\ k \in 1 .. Len(s) + 1
    BY <1>1, <1>3
  <2>1. CASE k \in 1 .. Len(s)
    <3>1. r[k] = s[k] /\ b[k] = m[k] /\ m[k] = e[s[k]]
      BY <1>1, <1>2, <1>4, <2>1
    <3> QED
      BY <2>0, <3>1
  <2>2. CASE k = Len(s) + 1
    BY <1>1, <1>4, <2>0, <2>2
  <2> QED
    BY <1>2, <2>0, <2>1, <2>2
<1>6. a = b
  <2>1. Len(a) = Len(b)
    BY <1>1, <1>3, <1>4
  <2> QED
    BY <1>3, <1>4, <1>5, <2>1, SeqEqual
<1> QED
  BY <1>6 DEF a, b, r, m

\* ... RemoveAt ...
LEMMA MappedRemove ==
  ASSUME NEW S, NEW E, NEW e, Maps(e, S, E), NEW s \in Seq(S),
         NEW p \in 1 .. Len(s)
  PROVE  Mapped(RemoveAt(s, p), e) = RemoveAt(Mapped(s, e), p)
<1>0. \A t \in Seq(S) :
        /\ Mapped(t, e) \in Seq(E) /\ Len(Mapped(t, e)) = Len(t)
        /\ Len(t) \in Nat
        /\ \A k \in 1 .. Len(t) : Mapped(t, e)[k] = e[t[k]]
  BY MappedProps
<1> DEFINE r == RemoveAt(s, p)
           m == Mapped(s, e)
           a == Mapped(r, e)
           b == RemoveAt(m, p)
<1>1. /\ r \in Seq(S) /\ Len(r) = Len(s) - 1
      /\ \A i \in 1 .. Len(s) - 1 : r[i] = IF i < p THEN s[i] ELSE s[i + 1]
  BY RemoveAtProps
<1>2. /\ m \in Seq(E) /\ Len(m) = Len(s) /\ Len(s) \in Nat
      /\ \A k \in 1 .. Len(s) : m[k] = e[s[k]]
  BY <1>0
<1>3. /\ a \in Seq(E) /\ Len(a) = Len(r)
      /\ \A k \in 1 .. Len(r) : a[k] = e[r[k]]
  <2> HIDE DEF r
  <2> QED
    BY <1>0, <1>1
<1> HIDE DEF r, m, a
<1>4. /\ b \in Seq(E) /\ Len(b) = Len(s) - 1
      /\ \A i \in 1 .. Len(s) - 1 : b[i] = IF i < p THEN m[i] ELSE m[i + 1]
  BY <1>2, RemoveAtProps
<1> HIDE DEF b
<1>5. ASSUME NEW k \in 1 .. Len(a) PROVE a[k] = b[k]
  <2>1. k \in 1 .. Len(s) - 1 /\ k \in 1 .. Len(s) /\ k + 1 \in 1 .. Len(s)
    BY <1>1, <1>2, <1>3
  <2>2. a[k] = e[r[k]] /\ m[k] = e[s[k]] /\ m[k + 1] = e[s[k + 1]]
    BY <1>2, <1>3, <2>1
  <2>3. /\ r[k] = IF k < p THEN s[k] ELSE s[k + 1]
        /\ b[k] = IF k < p THEN m[k] ELSE m[k + 1]
    BY <1>1, <1>4, <2>1
  <2> QED
    BY <2>2, <2>3
<1>6. a = b
  <2>1. Len(a) = Len(b)
    BY <1>1, <1>3, <1>4
  <2> QED
    BY <1>3, <1>4, <1>5, <2>1, SeqEqual
<1> QED
  BY <1>6 DEF a, b, r, m

\* ... and Head and Tail.
LEMMA MappedTail ==
  ASSUME NEW S, NEW E, NEW e, Maps(e, S, E), NEW s \in Seq(S),
         s # <<>>
  PROVE  /\ Mapped(s, e) # <<>> /\ Head(Mapped(s, e)) = e[Head(s)]
         /\ Mapped(Tail(s), e) = Tail(Mapped(s, e))
<1>0. \A t \in Seq(S) :
        /\ Mapped(t, e) \in Seq(E) /\ Len(Mapped(t, e)) = Len(t)
        /\ Len(t) \in Nat
        /\ \A k \in 1 .. Len(t) : Mapped(t, e)[k] = e[t[k]]
  BY MappedProps
<1>9. \A p \in 1 .. Len(s) :
        Mapped(RemoveAt(s, p), e) = RemoveAt(Mapped(s, e), p)
  BY MappedRemove
<1> DEFINE m == Mapped(s, e)
<1>1. /\ m \in Seq(E) /\ Len(m) = Len(s) /\ Len(s) \in Nat
      /\ \A k \in 1 .. Len(s) : m[k] = e[s[k]]
  BY <1>0
<1>2. 1 \in 1 .. Len(s) /\ Tail(s) = RemoveAt(s, 1) /\ Head(s) = s[1]
  BY TailRemoves, HeadTailProperties
<1>3. Mapped(RemoveAt(s, 1), e) = RemoveAt(m, 1)
  BY <1>2, <1>9
<1> HIDE DEF m
<1>4. m # <<>>
  BY <1>1, <1>2, EmptySeq
<1>5. Tail(m) = RemoveAt(m, 1) /\ Head(m) = m[1]
  BY <1>1, <1>4, TailRemoves, HeadTailProperties
<1> QED
  BY <1>1, <1>2, <1>3, <1>4, <1>5 DEF m

(***************************************************************************)
(* Filtering: the recursive function in Filter exists, keeps the elements  *)
(* of the set in their order and goes along with Append.                   *)
(***************************************************************************)
\* What Filter computes of the first i elements, from what it computes of fewer.
Onwards(s, kept, f, i) ==
  IF i = 0 THEN <<>>
  ELSE IF s[i] \in kept THEN Append(f[i - 1], s[i]) ELSE f[i - 1]

UpTo(s, kept) == CHOOSE f : f = [i \in 0 .. Len(s) |-> Onwards(s, kept, f, i)]

LEMMA FilterIsUpTo == \A s, kept : Filter(s, kept) = UpTo(s, kept)[Len(s)]
  BY DEF Filter, UpTo, Onwards

\* There is such a function, for every length.
LEMMA UpToExists ==
  ASSUME NEW s, NEW kept, NEW n \in Nat
  PROVE  \E f : f = [i \in 0 .. n |-> Onwards(s, kept, f, i)]
<1> DEFINE Is(f, m) == f = [i \in 0 .. m |-> Onwards(s, kept, f, i)]
           Bad == {m \in Nat : ~\E f : Is(f, m)}
<1>1. SUFFICES ASSUME Bad # {} PROVE FALSE
  OBVIOUS
<1>2. PICK m \in Bad : \A k \in Bad : m =< k
  <2>1. Bad \in SUBSET Nat
    OBVIOUS
  <2> HIDE DEF Bad
  <2> QED
    BY <1>1, <2>1, MinInSet
<1>0. m \in Nat
  OBVIOUS
<1>3. CASE m = 0
  <2> DEFINE f == [i \in 0 .. 0 |-> <<>>]
  <2>1. \A i \in 0 .. 0 : Onwards(s, kept, f, i) = <<>>
    BY DEF Onwards
  <2>2. Is(f, 0)
    BY <2>1
  <2> QED
    BY <1>2, <1>3, <2>2
<1>4. CASE m # 0
  <2>1. m - 1 \in Nat /\ m - 1 \notin Bad
    <3> HIDE DEF Bad
    <3> QED
      BY <1>0, <1>2, <1>4
  <2>2. PICK f : Is(f, m - 1)
    BY <2>1
  <2> DEFINE g == [i \in 0 .. m |-> IF i = m THEN Onwards(s, kept, f, m) ELSE f[i]]
  <2>3. ASSUME NEW i \in 0 .. m PROVE g[i] = Onwards(s, kept, g, i)
    <3>1. i # 0 => i - 1 \in 0 .. m /\ i - 1 # m /\ g[i - 1] = f[i - 1]
      BY <1>0
    <3>2. Onwards(s, kept, g, i) = Onwards(s, kept, f, i)
      <4> HIDE DEF g
      <4> QED
        BY <3>1 DEF Onwards
    <3>3. i # m => f[i] = Onwards(s, kept, f, i)
      <4> i \in 0 .. m /\ i # m => i \in 0 .. m - 1
        BY <1>0
      <4> QED
        BY <2>2
    <3> QED
      BY <3>2, <3>3
  <2>4. Is(g, m)
    <3>1. g = [i \in 0 .. m |-> g[i]]
      OBVIOUS
    <3> HIDE DEF g
    <3> QED
      BY <2>3, <3>1
  <2> HIDE DEF g
  <2> QED
    BY <1>2, <2>4
<1> QED
  BY <1>3, <1>4

LEMMA UpToSteps ==
  ASSUME NEW S, NEW s \in Seq(S), NEW kept
  PROVE  /\ UpTo(s, kept)[0] = <<>>
         /\ \A i \in 1 .. Len(s) :
              UpTo(s, kept)[i] = IF s[i] \in kept
                                   THEN Append(UpTo(s, kept)[i - 1], s[i])
                                   ELSE UpTo(s, kept)[i - 1]
<1>1. Len(s) \in Nat
  BY LenProperties
<1> DEFINE f == UpTo(s, kept)
<1>2. f = [i \in 0 .. Len(s) |-> Onwards(s, kept, f, i)]
  BY <1>1, UpToExists DEF UpTo
<1> HIDE DEF f
<1>3. \A i \in 0 .. Len(s) : f[i] = Onwards(s, kept, f, i)
  BY <1>2
<1>4. f[0] = <<>>
  BY <1>1, <1>3 DEF Onwards
<1>5. ASSUME NEW i \in 1 .. Len(s)
      PROVE  f[i] = IF s[i] \in kept THEN Append(f[i - 1], s[i]) ELSE f[i - 1]
  BY <1>1, <1>3 DEF Onwards
<1> QED
  BY <1>4, <1>5 DEF f

\* An increasing numbering of the positions up to i that are kept.
Numbers(at, s, kept, i, f) ==
  /\ at \in [1 .. Len(f) -> 1 .. i]
  /\ \A k \in 1 .. Len(f) : f[k] = s[at[k]]
  /\ \A k \in 1 .. Len(f) : \A j \in 1 .. k - 1 : at[j] < at[k]
  /\ \A p \in 1 .. i : s[p] \in kept <=> \E k \in 1 .. Len(f) : at[k] = p

LEMMA NumbersOnwards ==
  ASSUME NEW S, NEW s \in Seq(S), NEW kept, NEW i \in 1 .. Len(s), NEW f \in Seq(S),
         NEW at, Numbers(at, s, kept, i - 1, f)
  PROVE  LET g == IF s[i] \in kept THEN Append(f, s[i]) ELSE f
         IN g \in Seq(S) /\ \E bt : Numbers(bt, s, kept, i, g)
<1>1. Len(s) \in Nat /\ s[i] \in S /\ Len(f) \in Nat
  BY LenProperties, ElementOfSeq
<1>2. CASE s[i] \notin kept
  <2>1. at \in [1 .. Len(f) -> 1 .. i]
    BY <1>1 DEF Numbers
  <2>2. ASSUME NEW p \in 1 .. i
        PROVE  s[p] \in kept <=> \E k \in 1 .. Len(f) : at[k] = p
    <3>1. CASE p = i
      BY <1>1, <1>2, <3>1 DEF Numbers
    <3>2. CASE p # i
      <4>1. p \in 1 .. i - 1
        BY <1>1, <3>2
      <4> QED
        BY <4>1 DEF Numbers
    <3> QED
      BY <3>1, <3>2
  <2>3. Numbers(at, s, kept, i, f)
    BY <2>1, <2>2 DEF Numbers
  <2> QED
    BY <1>2, <2>3
<1>3. CASE s[i] \in kept
  <2> DEFINE g == Append(f, s[i])
             n == Len(f) + 1
             bt == [k \in 1 .. n |-> IF k = n THEN i ELSE at[k]]
  <2>1. /\ g \in Seq(S) /\ Len(g) = n /\ g[n] = s[i]
        /\ \A k \in 1 .. Len(f) : g[k] = f[k]
    BY <1>1, AppendProperties
  <2> HIDE DEF g
  <2>2. bt \in [1 .. n -> 1 .. i]
    BY <1>1 DEF Numbers
  <2>3. \A k \in 1 .. n : g[k] = s[bt[k]]
    BY <1>1, <2>1 DEF Numbers
  <2>4. ASSUME NEW k \in 1 .. n, NEW j \in 1 .. k - 1 PROVE bt[j] < bt[k]
    <3>1. j \in 1 .. Len(f) /\ j # n /\ bt[j] = at[j] /\ at[j] \in 1 .. i - 1
      <4>1. Len(f) \in Nat
        BY <1>1
      <4> HIDE DEF bt
      <4>2. j \in 1 .. Len(f) /\ j # n /\ j \in 1 .. n
        BY <4>1
      <4>3. bt[j] = at[j]
        BY <4>2 DEF bt
      <4>4. at[j] \in 1 .. i - 1
        BY <4>2 DEF Numbers
      <4> QED
        BY <4>2, <4>3, <4>4
    <3>2. CASE k = n
      BY <1>1, <3>1, <3>2
    <3>3. CASE k # n
      <4>1. k \in 1 .. Len(f) /\ bt[k] = at[k]
        BY <1>1, <3>3
      <4> QED
        BY <3>1, <4>1 DEF Numbers
    <3> QED
      BY <3>2, <3>3
  <2>5. ASSUME NEW p \in 1 .. i
        PROVE  s[p] \in kept <=> \E k \in 1 .. n : bt[k] = p
    <3>1. CASE p = i
      <4>1. n \in 1 .. n /\ bt[n] = i
        BY <1>1
      <4> QED
        BY <1>3, <3>1, <4>1
    <3>2. CASE p # i
      <4>1. p \in 1 .. i - 1
        BY <1>1, <3>2
      <4>2. \A k \in 1 .. Len(f) : k \in 1 .. n /\ bt[k] = at[k]
        BY <1>1
      <4>3. \A k \in 1 .. n : bt[k] = p => k \in 1 .. Len(f)
        BY <1>1, <3>2
      <4>4. s[p] \in kept <=> \E k \in 1 .. Len(f) : at[k] = p
        BY <4>1 DEF Numbers
      <4> HIDE DEF bt, n
      <4> QED
        BY <4>2, <4>3, <4>4
    <3> QED
      BY <3>1, <3>2
  <2> HIDE DEF bt, n
  <2>6. Numbers(bt, s, kept, i, g)
    BY <2>1, <2>2, <2>3, <2>4, <2>5 DEF Numbers
  <2> QED
    BY <1>3, <2>1, <2>6 DEF g
<1> QED
  BY <1>2, <1>3

\* Filter keeps the elements of the set, in their order.
LEMMA FilterNumbers ==
  ASSUME NEW S, NEW s \in Seq(S), NEW kept
  PROVE  /\ Filter(s, kept) \in Seq(S)
         /\ \E at : Numbers(at, s, kept, Len(s), Filter(s, kept))
<1> DEFINE f == UpTo(s, kept)
           Good(i) == f[i] \in Seq(S) /\ \E at : Numbers(at, s, kept, i, f[i])
           Bad == {i \in 0 .. Len(s) : ~Good(i)}
<1>1. Len(s) \in Nat
  BY LenProperties
<1>2. /\ f[0] = <<>>
      /\ \A i \in 1 .. Len(s) :
           f[i] = IF s[i] \in kept THEN Append(f[i - 1], s[i]) ELSE f[i - 1]
  BY UpToSteps
<1> HIDE DEF f
<1>3. ASSUME Bad # {} PROVE FALSE
  <2>1. PICK m \in Bad : \A k \in Bad : m =< k
    <3>1. Bad \in SUBSET Nat
      BY <1>1
    <3> HIDE DEF Bad
    <3> QED
      BY <1>3, <3>1, MinInSet
  <2>2. m \in 0 .. Len(s) /\ ~Good(m)
    OBVIOUS
  <2>3. CASE m = 0
    <3>1. f[0] \in Seq(S) /\ Len(f[0]) = 0
      BY <1>2
    <3>2. Numbers([k \in {} |-> 0], s, kept, 0, f[0])
      BY <3>1 DEF Numbers
    <3> QED
      BY <2>2, <2>3, <3>1, <3>2
  <2>4. CASE m # 0
    <3>1. m \in 1 .. Len(s) /\ m - 1 \in 0 .. Len(s) /\ m - 1 \notin Bad
      <4> HIDE DEF Bad
      <4> QED
        BY <1>1, <2>1, <2>2, <2>4
    <3>2. f[m - 1] \in Seq(S) /\ \E at : Numbers(at, s, kept, m - 1, f[m - 1])
      BY <3>1
    <3>3. PICK at : Numbers(at, s, kept, m - 1, f[m - 1])
      BY <3>2
    <3>4. f[m] = IF s[m] \in kept THEN Append(f[m - 1], s[m]) ELSE f[m - 1]
      BY <1>2, <3>1
    <3>5. \A g \in Seq(S) : Numbers(at, s, kept, m - 1, g) =>
            LET h == IF s[m] \in kept THEN Append(g, s[m]) ELSE g
            IN h \in Seq(S) /\ \E bt : Numbers(bt, s, kept, m, h)
      BY <3>1, NumbersOnwards
    <3>6. Good(m)
      BY <3>2, <3>3, <3>4, <3>5
    <3> QED
      BY <2>2, <3>6
  <2> QED
    BY <2>3, <2>4
<1>4. Good(Len(s))
  BY <1>1, <1>3
<1> QED
  BY <1>4, FilterIsUpTo DEF f

\* The elements that are kept.
LEMMA FilterSet ==
  ASSUME NEW S, NEW s \in Seq(S), NEW kept
  PROVE  /\ Filter(s, kept) \in Seq(S)
         /\ ToSet(Filter(s, kept)) = ToSet(s) \cap kept
<1> DEFINE f == Filter(s, kept)
<1>1. f \in Seq(S) /\ \E at : Numbers(at, s, kept, Len(s), f)
  BY FilterNumbers
<1>2. PICK at : Numbers(at, s, kept, Len(s), f)
  BY <1>1
<1> HIDE DEF f
<1>3. /\ Len(s) \in Nat /\ Len(f) \in Nat
      /\ DOMAIN s = 1 .. Len(s) /\ DOMAIN f = 1 .. Len(f)
  BY <1>1, LenProperties
<1>4. ASSUME NEW k \in 1 .. Len(f) PROVE f[k] \in ToSet(s) \cap kept
  BY <1>2, <1>3 DEF Numbers, ToSet
<1>5. ASSUME NEW p \in 1 .. Len(s), s[p] \in kept PROVE s[p] \in ToSet(f)
  <2>1. PICK k \in 1 .. Len(f) : at[k] = p
    BY <1>2, <1>5 DEF Numbers
  <2>2. f[k] = s[p]
    BY <1>2, <2>1 DEF Numbers
  <2> QED
    BY <1>3, <2>2 DEF ToSet
<1>6. \A x : x \in ToSet(f) <=> x \in ToSet(s) \cap kept
  BY <1>3, <1>4, <1>5 DEF ToSet
<1> QED
  BY <1>1, <1>6 DEF f

LEMMA FilterEmpty == \A kept : Filter(<<>>, kept) = <<>>
<1> TAKE kept
<1>1. <<>> \in Seq({}) /\ Len(<<>>) = 0
  OBVIOUS
<1>2. UpTo(<<>>, kept)[0] = <<>>
  BY <1>1, UpToSteps, ZenonT(40)
<1> QED
  BY <1>1, <1>2, FilterIsUpTo

LEMMA FilterAppended ==
  ASSUME NEW S, NEW s \in Seq(S), NEW e \in S, NEW kept
  PROVE  Filter(Append(s, e), kept) =
           IF e \in kept THEN Append(Filter(s, kept), e) ELSE Filter(s, kept)
<1> DEFINE t == Append(s, e)
           f == UpTo(s, kept)
           g == UpTo(t, kept)
           Bad == {i \in 0 .. Len(s) : f[i] # g[i]}
<1>1. /\ Len(s) \in Nat /\ t \in Seq(S) /\ Len(t) = Len(s) + 1 /\ t[Len(s) + 1] = e
      /\ \A i \in 1 .. Len(s) : t[i] = s[i]
  BY LenProperties, AppendProperties
<1> HIDE DEF t
<1>2. /\ f[0] = <<>>
      /\ \A i \in 1 .. Len(s) :
           f[i] = IF s[i] \in kept THEN Append(f[i - 1], s[i]) ELSE f[i - 1]
  BY UpToSteps
<1>3. /\ g[0] = <<>>
      /\ \A i \in 1 .. Len(t) :
           g[i] = IF t[i] \in kept THEN Append(g[i - 1], t[i]) ELSE g[i - 1]
  BY <1>1, UpToSteps
<1> HIDE DEF f, g
<1>4. ASSUME Bad # {} PROVE FALSE
  <2>1. PICK m \in Bad : \A k \in Bad : m =< k
    <3>1. Bad \in SUBSET Nat
      BY <1>1
    <3> HIDE DEF Bad
    <3> QED
      BY <1>4, <3>1, MinInSet
  <2>2. m # 0
    BY <1>2, <1>3
  <2>3. m \in 1 .. Len(s) /\ m \in 1 .. Len(t) /\ m - 1 \in 0 .. Len(s)
    BY <1>1, <2>2
  <2>4. m - 1 \notin Bad
    <3> HIDE DEF Bad
    <3> QED
      BY <1>1, <2>1, <2>3
  <2>5. f[m - 1] = g[m - 1]
    BY <2>3, <2>4
  <2>6. f[m] = g[m]
    BY <1>1, <1>2, <1>3, <2>3, <2>5
  <2> QED
    BY <2>1, <2>6
<1>5. f[Len(s)] = g[Len(s)]
  BY <1>1, <1>4
<1>6. g[Len(t)] = IF e \in kept THEN Append(g[Len(s)], e) ELSE g[Len(s)]
  <2>1. Len(t) \in 1 .. Len(t) /\ Len(t) - 1 = Len(s) /\ t[Len(t)] = e
    BY <1>1
  <2> QED
    BY <1>3, <2>1
<1>7. Filter(s, kept) = f[Len(s)] /\ Filter(t, kept) = g[Len(t)]
  BY FilterIsUpTo DEF f, g
<1> QED
  BY <1>5, <1>6, <1>7 DEF t

\* Nothing is filtered out of a sequence whose elements are all kept.
LEMMA FilterAll ==
  ASSUME NEW S, NEW s \in Seq(S), NEW kept, ToSet(s) \subseteq kept
  PROVE  Filter(s, kept) = s
<1> DEFINE f == UpTo(s, kept)
           Bad == {i \in 0 .. Len(s) : f[i] # SubSeq(s, 1, i)}
<1>1. /\ Len(s) \in Nat /\ DOMAIN s = 1 .. Len(s)
      /\ \A i \in 1 .. Len(s) : s[i] \in S /\ s[i] \in kept
  BY LenProperties, ElementOfSeq DEF ToSet
<1>2. /\ f[0] = <<>>
      /\ \A i \in 1 .. Len(s) :
           f[i] = IF s[i] \in kept THEN Append(f[i - 1], s[i]) ELSE f[i - 1]
  BY UpToSteps
<1> HIDE DEF f
<1>3. ASSUME Bad # {} PROVE FALSE
  <2>1. PICK m \in Bad : \A k \in Bad : m =< k
    <3>1. Bad \in SUBSET Nat
      BY <1>1
    <3> HIDE DEF Bad
    <3> QED
      BY <1>3, <3>1, MinInSet
  <2>2. SubSeq(s, 1, 0) = <<>>
    OBVIOUS
  <2>3. m # 0
    BY <1>2, <2>2
  <2>4. m \in 1 .. Len(s) /\ m - 1 \in 0 .. Len(s)
    BY <1>1, <2>3
  <2>5. m - 1 \notin Bad
    <3> HIDE DEF Bad
    <3> QED
      BY <1>1, <2>1, <2>4
  <2>6. f[m] = Append(SubSeq(s, 1, m - 1), s[m])
    BY <1>1, <1>2, <2>4, <2>5
  <2>7. Append(SubSeq(s, 1, m - 1), s[m]) = SubSeq(s, 1, m)
    <3> DEFINE a == SubSeq(s, 1, m - 1)
               b == SubSeq(s, 1, m)
    <3>1. /\ a \in Seq(S) /\ Len(a) = m - 1
          /\ \A i \in 1 .. m - 1 : a[i] = s[i]
      BY <1>1, <2>4, SubSeqProperties
    <3>2. /\ b \in Seq(S) /\ Len(b) = m
          /\ \A i \in 1 .. m : b[i] = s[i]
      BY <1>1, <2>4, SubSeqProperties
    <3> HIDE DEF a, b
    <3>3. /\ Append(a, s[m]) \in Seq(S) /\ Len(Append(a, s[m])) = m
          /\ Append(a, s[m])[m] = s[m]
          /\ \A i \in 1 .. m - 1 : Append(a, s[m])[i] = a[i]
      BY <1>1, <2>4, <3>1, AppendProperties
    <3>4. \A i \in 1 .. m : Append(a, s[m])[i] = b[i]
      BY <2>4, <3>1, <3>2, <3>3
    <3>5. Append(a, s[m]) = b
      BY <3>2, <3>3, <3>4, SeqEqual
    <3> QED
      BY <3>5 DEF a, b
  <2> QED
    BY <2>1, <2>6, <2>7
<1>4. f[Len(s)] = SubSeq(s, 1, Len(s))
  BY <1>1, <1>3
<1>5. SubSeq(s, 1, Len(s)) = s
  <2> DEFINE b == SubSeq(s, 1, Len(s))
  <2>1. /\ b \in Seq(S) /\ Len(b) = Len(s)
        /\ \A i \in 1 .. Len(s) : b[i] = s[i]
    BY <1>1, SubSeqProperties
  <2> HIDE DEF b
  <2>2. b = s
    BY <2>1, SeqEqual
  <2> QED
    BY <2>2 DEF b
<1> QED
  BY <1>4, <1>5, FilterIsUpTo DEF f

\* The elements of two sequences one after the other.
LEMMA SetConcat ==
  ASSUME NEW S, NEW s \in Seq(S), NEW t \in Seq(S)
  PROVE  ToSet(s \o t) = ToSet(s) \cup ToSet(t)
<1> DEFINE q == s \o t
<1>1. /\ q \in Seq(S) /\ Len(q) = Len(s) + Len(t)
      /\ \A i \in 1 .. Len(s) + Len(t) : q[i] = IF i <= Len(s) THEN s[i] ELSE t[i - Len(s)]
  BY ConcatProperties
<1>2. /\ Len(s) \in Nat /\ Len(t) \in Nat
      /\ DOMAIN s = 1 .. Len(s) /\ DOMAIN t = 1 .. Len(t)
      /\ DOMAIN q = 1 .. Len(s) + Len(t)
  BY <1>1, LenProperties
<1> HIDE DEF q
<1>3. ASSUME NEW i \in 1 .. Len(s) + Len(t) PROVE q[i] \in ToSet(s) \cup ToSet(t)
  <2>1. CASE i <= Len(s)
    BY <1>1, <1>2, <2>1 DEF ToSet
  <2>2. CASE ~(i <= Len(s))
    <3>1. i - Len(s) \in 1 .. Len(t) /\ q[i] = t[i - Len(s)]
      BY <1>1, <1>2, <2>2
    <3> QED
      BY <1>2, <3>1 DEF ToSet
  <2> QED
    BY <2>1, <2>2
<1>4. ASSUME NEW i \in 1 .. Len(s) PROVE s[i] \in ToSet(q)
  <2>1. i \in 1 .. Len(s) + Len(t) /\ q[i] = s[i]
    BY <1>1, <1>2
  <2> QED
    BY <1>2, <2>1 DEF ToSet
<1>5. ASSUME NEW i \in 1 .. Len(t) PROVE t[i] \in ToSet(q)
  <2>1. /\ i + Len(s) \in 1 .. Len(s) + Len(t) /\ ~(i + Len(s) <= Len(s))
        /\ (i + Len(s)) - Len(s) = i
    BY <1>2
  <2>2. q[i + Len(s)] = t[i]
    BY <1>1, <2>1
  <2> QED
    BY <1>2, <2>1, <2>2 DEF ToSet
<1>6. ASSUME NEW x PROVE x \in ToSet(q) <=> x \in ToSet(s) \cup ToSet(t)
  <2>1. ASSUME x \in ToSet(q) PROVE x \in ToSet(s) \cup ToSet(t)
    BY <1>2, <1>3, <2>1 DEF ToSet
  <2>2. ASSUME x \in ToSet(s) PROVE x \in ToSet(q)
    BY <1>2, <1>4, <2>2 DEF ToSet
  <2>3. ASSUME x \in ToSet(t) PROVE x \in ToSet(q)
    BY <1>2, <1>5, <2>3 DEF ToSet
  <2> QED
    BY <2>1, <2>2, <2>3
<1> QED
  BY <1>6 DEF q

\* What is put behind a sequence takes nothing away from what is kept of it.
LEMMA FilterLonger ==
  ASSUME NEW S, NEW s \in Seq(S), NEW t \in Seq(S), NEW kept
  PROVE  /\ Filter(s, kept) \in Seq(S) /\ Filter(s \o t, kept) \in Seq(S)
         /\ Len(Filter(s, kept)) =< Len(Filter(s \o t, kept))
<1> DEFINE n(k) == Len(Filter(s \o SubSeq(t, 1, k), kept))
           Bad == {k \in 0 .. Len(t) : ~(n(0) =< n(k))}
<1>1. Len(t) \in Nat /\ SubSeq(t, 1, 0) = <<>> /\ s \o <<>> = s
  BY LenProperties, ConcatEmptySeq
<1>2. ASSUME NEW k \in 0 .. Len(t)
      PROVE  SubSeq(t, 1, k) \in Seq(S) /\ s \o SubSeq(t, 1, k) \in Seq(S) /\ n(k) \in Nat
  <2>1. SubSeq(t, 1, k) \in Seq(S)
    <3>1. CASE k = 0
      BY <1>1, <3>1
    <3>2. CASE k # 0
      <4>1. \A i \in 1 .. k : t[i] \in S
        BY <1>1, ElementOfSeq
      <4> QED
        BY <1>1, <4>1, SubSeqProperties
    <3> QED
      BY <3>1, <3>2
  <2>2. s \o SubSeq(t, 1, k) \in Seq(S)
    BY <2>1, ConcatProperties
  <2>3. Filter(s \o SubSeq(t, 1, k), kept) \in Seq(S)
    BY <2>2, FilterNumbers
  <2> QED
    BY <2>1, <2>2, <2>3, LenProperties
<1>3. ASSUME NEW k \in 1 .. Len(t) PROVE n(k - 1) =< n(k)
  <2> DEFINE a == s \o SubSeq(t, 1, k - 1)
  <2>1. k - 1 \in 0 .. Len(t) /\ t[k] \in S
    BY <1>1, ElementOfSeq
  <2>2. SubSeq(t, 1, k) = Append(SubSeq(t, 1, k - 1), t[k])
    <3>1. /\ SubSeq(t, 1, k - 1) \in Seq(S) /\ SubSeq(t, 1, k) \in Seq(S)
      BY <1>2, <2>1
    <3>2. /\ Len(SubSeq(t, 1, k - 1)) = k - 1 /\ Len(SubSeq(t, 1, k)) = k
          /\ \A i \in 1 .. k - 1 : SubSeq(t, 1, k - 1)[i] = t[i]
          /\ \A i \in 1 .. k : SubSeq(t, 1, k)[i] = t[i]
      BY <1>1, SubSeqProperties
    <3> DEFINE b == SubSeq(t, 1, k - 1)
               c == SubSeq(t, 1, k)
    <3>3. /\ b \in Seq(S) /\ c \in Seq(S) /\ Len(b) = k - 1 /\ Len(c) = k
          /\ \A i \in 1 .. k - 1 : b[i] = t[i]
          /\ \A i \in 1 .. k : c[i] = t[i]
      BY <3>1, <3>2
    <3> HIDE DEF b, c
    <3>4. /\ Append(b, t[k]) \in Seq(S) /\ Len(Append(b, t[k])) = k
          /\ \A i \in 1 .. k : Append(b, t[k])[i] = c[i]
      <4>1. /\ Append(b, t[k]) \in Seq(S) /\ Len(Append(b, t[k])) = Len(b) + 1
            /\ \A i \in 1 .. Len(b) : Append(b, t[k])[i] = b[i]
            /\ Append(b, t[k])[Len(b) + 1] = t[k]
        BY <2>1, <3>3, AppendProperties
      <4> QED
        BY <2>1, <3>3, <4>1
    <3>5. c = Append(b, t[k])
      BY <3>3, <3>4, SeqEqual
    <3> QED
      BY <3>5 DEF b, c
  <2>3. /\ SubSeq(t, 1, k - 1) \in Seq(S) /\ a \in Seq(S)
    BY <1>2, <2>1
  <2>4. s \o SubSeq(t, 1, k) = Append(a, t[k])
    BY <2>1, <2>2, <2>3, ConcatAppend
  <2> HIDE DEF a
  <2>5. Filter(Append(a, t[k]), kept) =
          IF t[k] \in kept THEN Append(Filter(a, kept), t[k]) ELSE Filter(a, kept)
    BY <2>1, <2>3, FilterAppended, ZenonT(40)
  <2>6. Filter(a, kept) \in Seq(S)
    BY <2>3, FilterNumbers
  <2>7. Len(Filter(a, kept)) \in Nat
        /\ Len(Append(Filter(a, kept), t[k])) = Len(Filter(a, kept)) + 1
    BY <2>1, <2>6, LenProperties, AppendProperties
  <2>8. Len(Filter(a, kept)) =< Len(Filter(Append(a, t[k]), kept))
    BY <2>5, <2>7
  <2> QED
    BY <2>4, <2>8 DEF a
<1> HIDE DEF n
<1>4. ASSUME Bad # {} PROVE FALSE
  <2>1. PICK m \in Bad : \A k \in Bad : m =< k
    <3>1. Bad \in SUBSET Nat
      BY <1>1
    <3> HIDE DEF Bad
    <3> QED
      BY <1>4, <3>1, MinInSet
  <2>2. m \in 0 .. Len(t) /\ ~(n(0) =< n(m)) /\ 0 \in 0 .. Len(t)
    BY <1>1
  <2>3. m # 0
    BY <1>2, <2>2
  <2>4. m \in 1 .. Len(t) /\ m - 1 \in 0 .. Len(t) /\ m - 1 \notin Bad
    <3> HIDE DEF Bad
    <3> QED
      BY <1>1, <2>1, <2>2, <2>3
  <2>5. n(0) =< n(m - 1) /\ n(m - 1) =< n(m)
    BY <1>3, <2>4
  <2>6. n(0) \in Nat /\ n(m - 1) \in Nat /\ n(m) \in Nat
    BY <1>2, <2>2, <2>4
  <2> QED
    BY <2>2, <2>5, <2>6
<1>5. n(0) =< n(Len(t))
  <2>1. Len(t) \in 0 .. Len(t)
    BY <1>1
  <2> QED
    BY <1>4, <2>1
<1>6. SubSeq(t, 1, Len(t)) = t
  BY SubSeqFull
<1>7. Filter(s, kept) \in Seq(S) /\ Filter(s \o t, kept) \in Seq(S)
  BY ConcatProperties, FilterNumbers
<1> QED
  BY <1>1, <1>5, <1>6, <1>7 DEF n

\* A sequence is a prefix of itself and of what is put behind it.
LEMMA PrefixOfMore ==
  ASSUME NEW S, NEW s \in Seq(S), NEW t \in Seq(S)
  PROVE  IsPrefix(s, s) /\ IsPrefix(s, s \o t)
<1> DEFINE q == s \o t
<1>1. /\ Len(s) \in Nat /\ Len(t) \in Nat /\ q \in Seq(S) /\ Len(q) = Len(s) + Len(t)
      /\ \A i \in 1 .. Len(s) : q[i] = s[i]
  BY LenProperties, ConcatProperties
<1>2. SubSeq(s, 1, Len(s)) = s
  BY SubSeqFull
<1> HIDE DEF q
<1>3. SubSeq(q, 1, Len(s)) = s
  <2>1. \A i \in 1 .. Len(s) : q[i] \in S
    BY <1>1, ElementOfSeq
  <2>2. /\ SubSeq(q, 1, Len(s)) \in Seq(S) /\ Len(SubSeq(q, 1, Len(s))) = Len(s)
        /\ \A i \in 1 .. Len(s) : SubSeq(q, 1, Len(s))[i] = q[i]
    BY <1>1, <2>1, SubSeqProperties
  <2> DEFINE r == SubSeq(q, 1, Len(s))
  <2>3. r \in Seq(S) /\ Len(r) = Len(s) /\ \A i \in 1 .. Len(s) : r[i] = s[i]
    BY <1>1, <2>2
  <2> HIDE DEF r
  <2>4. r = s
    BY <2>3, SeqEqual
  <2> QED
    BY <2>4 DEF r
<1> QED
  BY <1>1, <1>2, <1>3 DEF IsPrefix, q
=============================================================================

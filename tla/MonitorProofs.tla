---------------------------- MODULE MonitorProofs ----------------------------
(***************************************************************************)
(* The monitor's page.  Its height is never given away twice and never     *)
(* lost (MonitorLayout); the widgets in the list, on the page and in the   *)
(* timers are the same, and a chart is in the order of time                *)
(* (MonitorWidgets); the tree opens components, the analyzer's table and   *)
(* the trace button tell the truth, and recorded segments do not overlap   *)
(* (MonitorPanes).  And the engine its buttons stop and start: what a      *)
(* pause is worth, that events and ticks are kept as long as no tick is    *)
(* requested among the events, and that no assertion of the engine fails   *)
(* as long (SerialEngine).  The proofs hold for any number of progress     *)
(* bars, widgets, components, engine goroutines and requests on their way. *)
(***************************************************************************)
EXTENDS MonitorLayout, MonitorWidgets, MonitorPanes, SerialEngine, SequenceLemmas

(***************************************************************************)
(* The layout                                                              *)
(***************************************************************************)

\* LayoutSound is inductive together with the types.
LayoutInv == LayoutTypeOK /\ LayoutSound

BarDoms(drawn) == {b \in DOMAIN drawn : drawn[b] = "bar"}
PieDoms(drawn) == {b \in DOMAIN drawn : drawn[b] = "pie"}

\* The height of the bottom group is a number of rows.
LEMMA OffsetIsNat ==
  ASSUME NEW drawn, DOMAIN drawn \in SUBSET Bars, NEW gone \in [Kinds -> Nat]
  PROVE  OffsetHeight(drawn, gone) \in Nat
<1>1. Cardinality(BarDoms(drawn)) \in Nat
  BY FS_Subset, FS_CardinalityType, LayoutAssumption DEF BarDoms
<1>2. gone["bar"] \in Nat
  BY DEF Kinds
<1> QED
  BY <1>1, <1>2 DEF OffsetHeight, BarDoms

LEMMA LayoutInvInit == LayoutInit => LayoutInv
<1> SUFFICES ASSUME LayoutInit PROVE LayoutInv
  OBVIOUS
<1> USE LayoutAssumption
<1>1. LayoutTypeOK
  <2>1. /\ active \in SUBSET Bars /\ started \in BOOLEAN
        /\ asked \in [Slots -> [state : {"free", "sent", "served"}, bars : SUBSET Bars]]
    BY DEF LayoutInit, Free
  <2>2. /\ mode \in Kinds /\ DOMAIN progressDoms \in SUBSET Bars
        /\ \A b \in DOMAIN progressDoms : progressDoms[b] \in Kinds
        /\ leaving \in [Kinds -> Nat]
    BY DEF LayoutInit, Kinds
  <2>3. /\ windowHeight \in WindowHeights
        /\ mainContainerHeight \in Int /\ monitorGroupHeight \in Int
        /\ widgets \in Nat
    BY DEF LayoutInit
  <2>4. isMonitorGroupDividerDragging \in BOOLEAN /\ unadjusted \in BOOLEAN
    BY Zenon DEF LayoutInit
  <2> QED
    BY <2>1, <2>2, <2>3, <2>4, Zenon DEF LayoutTypeOK
<1>2. OffsetHeight(progressDoms, leaving) = 0
  BY FS_EmptySet DEF LayoutInit, OffsetHeight, Kinds
<1>3. PartsFillTheWindow
  BY <1>1, <1>2 DEF LayoutInit, PartsFillTheWindow, LayoutTypeOK
<1>4. OneKindAtATime
  BY FS_EmptySet DEF LayoutInit, OneKindAtATime, ModeFor
<1> QED
  BY <1>1, <1>3, <1>4 DEF LayoutInv, LayoutSound

\* Adjust gives the main container what the two groups leave of the window.
LEMMA AdjustFills ==
  ASSUME LayoutTypeOK, NEW STATE group, group \in Int, Adjust(group),
         UNCHANGED windowHeight,
         DOMAIN progressDoms' \in SUBSET Bars, leaving' \in [Kinds -> Nat]
  PROVE  /\ PartsFillTheWindow'
         /\ mainContainerHeight' \in Int /\ monitorGroupHeight' \in Int
         /\ unadjusted' \in BOOLEAN
<1>1. OffsetHeight(progressDoms', leaving') \in Nat
  BY OffsetIsNat
<1>2. windowHeight \in Int
  BY LayoutAssumption DEF LayoutTypeOK
<1> QED
  <2>1. /\ mainContainerHeight' = windowHeight - group - OffsetHeight(progressDoms', leaving')
        /\ monitorGroupHeight' = group /\ unadjusted' = FALSE
    BY DEF Adjust
  <2>2. mainContainerHeight' + monitorGroupHeight' + OffsetHeight(progressDoms', leaving') = windowHeight
    BY <1>1, <1>2, <2>1
  <2>3. PartsFillTheWindow'
    BY <2>2 DEF PartsFillTheWindow, OffsetHeight
  <2>4. mainContainerHeight' \in Int /\ monitorGroupHeight' \in Int
    BY <1>1, <1>2, <2>1
  <2>5. unadjusted' \in BOOLEAN
    BY <2>1, Zenon
  <2> QED
    BY <2>3, <2>4, <2>5, Zenon

\* The doms and the heights stand: so does what is said of them.
LEMMA DomsAndHeightsStand ==
  ASSUME LayoutInv, UNCHANGED <<progress_, heights, windowHeight>>
  PROVE  LayoutSound'
  BY DEF LayoutInv, LayoutSound, PartsFillTheWindow, OneKindAtATime,
         progress_, heights

\* When a list of bars creates nothing, the doms it removes go on taking their
\* room while they leave: the group keeps its height.
LEMMA NothingCreated ==
  ASSUME LayoutInv, NEW bars \in SUBSET DOMAIN progressDoms,
         NEW drawn, DOMAIN drawn = bars, \A b \in bars : drawn[b] = mode,
         NEW gone \in [Kinds -> Nat],
         \A k \in Kinds : gone[k] = Leave(DOMAIN progressDoms \ bars, k)
  PROVE  OffsetHeight(drawn, gone) = OffsetHeight(progressDoms, leaving)
<1> DEFINE D == DOMAIN progressDoms
           Left(k) == {b \in D \ bars : progressDoms[b] = k}
<1>1. D \in SUBSET Bars /\ leaving \in [Kinds -> Nat] /\ mode \in Kinds
  BY DEF LayoutInv, LayoutTypeOK
<1>2. /\ IsFiniteSet(D) /\ IsFiniteSet(bars) /\ IsFiniteSet(D \ bars)
      /\ Cardinality(D) \in Nat /\ Cardinality(bars) \in Nat
      /\ Cardinality(D \ bars) \in Nat
  <2>1. IsFiniteSet(D)
    BY <1>1, FS_Subset, LayoutAssumption
  <2> QED
    BY <2>1, FS_Subset, FS_CardinalityType
<1>3. \A b \in D : progressDoms[b] = mode
  BY DEF LayoutInv, LayoutSound, OneKindAtATime
<1>4. /\ gone["bar"] = leaving["bar"] + Cardinality(Left("bar"))
      /\ gone["pie"] = leaving["pie"] + Cardinality(Left("pie"))
  BY DEF Kinds, Leave
<1>5. leaving["bar"] \in Nat /\ leaving["pie"] \in Nat
  BY <1>1 DEF Kinds
<1>6. CASE mode = "bar"
  <2>1. Left("bar") = D \ bars /\ Left("pie") = {}
    BY <1>3, <1>6
  <2>2. /\ {b \in D : progressDoms[b] = "bar"} = D
        /\ {b \in bars : drawn[b] = "bar"} = bars
    BY <1>3, <1>6
  <2>3. Cardinality(D \ bars) = Cardinality(D) - Cardinality(bars)
    <3>1. D \cap bars = bars
      OBVIOUS
    <3> HIDE DEF D
    <3>2. Cardinality(D \ bars) = Cardinality(D) - Cardinality(D \cap bars)
      BY <1>2, FS_Difference, Zenon
    <3> QED
      BY <3>1, <3>2, Zenon
  <2>4. /\ gone["bar"] = leaving["bar"] + Cardinality(D) - Cardinality(bars)
        /\ gone["pie"] = leaving["pie"]
    <3>1. /\ gone["bar"] = leaving["bar"] + Cardinality(D \ bars)
          /\ gone["pie"] = leaving["pie"] + Cardinality({})
      BY <1>4, <2>1, Zenon
    <3> HIDE DEF D, Left
    <3>2. Cardinality({}) = 0
      BY FS_EmptySet
    <3> QED
      BY <1>2, <1>5, <2>3, <3>1, <3>2
  <2> HIDE DEF D, Left
  <2>5. /\ OffsetHeight(drawn, gone)
             = Cardinality(bars) + gone["bar"] + (IF gone["pie"] = 0 THEN 0 ELSE 1)
        /\ OffsetHeight(progressDoms, leaving)
             = Cardinality(D) + leaving["bar"] + (IF leaving["pie"] = 0 THEN 0 ELSE 1)
    BY <2>2 DEF OffsetHeight, D
  <2> QED
    BY <1>2, <1>5, <2>4, <2>5
<1>7. CASE mode = "pie"
  <2>1. Left("bar") = {} /\ Left("pie") = D \ bars
    BY <1>3, <1>7
  <2>2. /\ {b \in D : progressDoms[b] = "bar"} = {}
        /\ {b \in bars : drawn[b] = "bar"} = {}
    BY <1>3, <1>7
  <2>3. D # {}
    <3>1. Cardinality(D) > MaxProgressBars
      BY <1>7 DEF LayoutInv, LayoutSound, OneKindAtATime, ModeFor
    <3> QED
      BY <3>1, FS_EmptySet, LayoutAssumption
  <2>4. /\ gone["bar"] = leaving["bar"]
        /\ gone["pie"] = leaving["pie"] + Cardinality(D \ bars)
    <3>1. /\ gone["bar"] = leaving["bar"] + Cardinality({})
          /\ gone["pie"] = leaving["pie"] + Cardinality(D \ bars)
      BY <1>4, <2>1, Zenon
    <3> HIDE DEF D, Left
    <3>2. Cardinality({}) = 0
      BY FS_EmptySet
    <3> QED
      BY <1>5, <3>1, <3>2
  <2>5. bars = {} => gone["pie"] # 0
    BY <1>2, <1>5, <2>3, <2>4, FS_EmptySet
  <2> HIDE DEF D, Left
  <2>6. /\ OffsetHeight(drawn, gone) = 0 + gone["bar"] + 1
        /\ OffsetHeight(progressDoms, leaving) = 0 + leaving["bar"] + 1
    BY <2>2, <2>3, <2>5, FS_EmptySet DEF OffsetHeight, D
  <2> QED
    BY <2>4, <2>6
<1> QED
  BY <1>1, <1>6, <1>7 DEF Kinds

\* An answer, of whatever age, leaves the doms of one kind and the window full.
LEMMA RenderKeepsTheLayout ==
  ASSUME LayoutInv, NEW s \in Slots, renderProgress(s)
  PROVE  LayoutInv'
<1> DEFINE D == DOMAIN progressDoms
           bars == asked[s].bars
           kept == Kept(bars)
           created == bars \ kept
           gone == (D \ kept) \cup Completed(bars, kept)
<1>1. LayoutTypeOK /\ PartsFillTheWindow /\ OneKindAtATime
  BY DEF LayoutInv, LayoutSound
<1>2. bars \in SUBSET Bars /\ D \in SUBSET Bars /\ kept \in SUBSET D
  BY <1>1 DEF LayoutTypeOK, Kept
<1>3. /\ mode' = ModeFor(bars)
      /\ progressDoms' = [b \in bars |-> IF b \in kept THEN progressDoms[b] ELSE mode']
      /\ leaving' = [k \in Kinds |-> Leave(gone, k)]
      /\ IF created = {} THEN UNCHANGED heights ELSE Adjust(monitorGroupHeight)
      /\ asked' = [asked EXCEPT ![s] = Free]
      /\ UNCHANGED <<server, frame>>
  <2>1. (kept \cup (bars \ kept)) \ (kept \ bars) = bars
    OBVIOUS
  <2> QED
    BY <2>1 DEF renderProgress, Completed
<1> HIDE DEF bars, kept
<1>4. leaving' \in [Kinds -> Nat]
  <2>1. \A k \in Kinds : Leave(gone, k) \in Nat
    <3> SUFFICES ASSUME NEW k \in Kinds PROVE Leave(gone, k) \in Nat
      OBVIOUS
    <3>1. {b \in gone : progressDoms[b] = k} \in SUBSET Bars
      BY <1>2 DEF Completed
    <3>2. Cardinality({b \in gone : progressDoms[b] = k}) \in Nat
      BY <3>1, FS_Subset, FS_CardinalityType, LayoutAssumption
    <3> QED
      BY <1>1, <3>2 DEF Leave, LayoutTypeOK
  <2> QED
    BY <1>3, <2>1
<1>5. mode' \in Kinds
  BY <1>3 DEF ModeFor, Kinds
<1>6. \A b \in bars : progressDoms'[b] = mode'
  <2> SUFFICES ASSUME NEW b \in bars, b \in kept PROVE progressDoms[b] = mode'
    BY <1>3
  <2>1. mode' = mode /\ b \in D
    BY <1>2, <1>3 DEF kept, Kept
  <2> QED
    BY <1>1, <2>1 DEF OneKindAtATime
<1>7. DOMAIN progressDoms' = bars
  BY <1>3
<1>8. OneKindAtATime'
  BY <1>3, <1>6, <1>7 DEF OneKindAtATime, ModeFor
<1>9. UNCHANGED windowHeight
  BY <1>3 DEF frame
<1>10. /\ PartsFillTheWindow'
       /\ mainContainerHeight' \in Int /\ monitorGroupHeight' \in Int
       /\ unadjusted' \in BOOLEAN
  <2>1. CASE created # {}
    <3>1. monitorGroupHeight \in Int
      BY <1>1 DEF LayoutTypeOK
    <3> QED
      BY <1>1, <1>2, <1>3, <1>4, <1>7, <1>9, <2>1, <3>1, AdjustFills
  <2>2. CASE created = {}
    <3>1. bars \in SUBSET D /\ gone = D \ bars
      BY <1>2, <2>2 DEF Completed
    <3>2. \A b \in bars : progressDoms'[b] = mode
      BY <1>3, <1>6, <2>2 DEF kept, Kept
    <3>3. \A k \in Kinds : leaving'[k] = Leave(D \ bars, k)
      BY <1>3, <3>1
    <3>4. OffsetHeight(progressDoms', leaving') = OffsetHeight(progressDoms, leaving)
      BY <1>4, <1>7, <3>1, <3>2, <3>3, NothingCreated
    <3>5. UNCHANGED heights
      BY <1>3, <2>2
    <3>6. PartsFillTheWindow'
      BY <1>1, <1>9, <3>4, <3>5 DEF PartsFillTheWindow, heights
    <3>7. /\ mainContainerHeight' \in Int /\ monitorGroupHeight' \in Int
          /\ unadjusted' \in BOOLEAN
      BY <1>1, <3>5, Zenon DEF LayoutTypeOK, heights
    <3> QED
      BY <3>6, <3>7, Zenon
  <2> QED
    BY <2>1, <2>2
<1>11. /\ asked' \in [Slots -> [state : {"free", "sent", "served"}, bars : SUBSET Bars]]
       /\ DOMAIN progressDoms' \in SUBSET Bars
       /\ \A b \in DOMAIN progressDoms' : progressDoms'[b] \in Kinds
  BY <1>1, <1>2, <1>3, <1>5, <1>6, <1>7 DEF LayoutTypeOK, Free
<1>12. /\ active' \in SUBSET Bars /\ started' \in BOOLEAN
       /\ windowHeight' \in WindowHeights /\ widgets' \in Nat
       /\ isMonitorGroupDividerDragging' \in BOOLEAN
  BY <1>1, <1>3, Zenon DEF LayoutTypeOK, server, frame
<1>13. LayoutTypeOK'
  BY <1>4, <1>5, <1>10, <1>11, <1>12, Zenon DEF LayoutTypeOK
<1> QED
  BY <1>8, <1>10, <1>13, Zenon DEF LayoutInv, LayoutSound

\* A dom that has left, or a group that opens or closes, ends in Adjust.
LEMMA AdjustKeepsTheLayout ==
  ASSUME LayoutInv, NEW STATE group, group \in Int, Adjust(group),
         UNCHANGED <<mode, progressDoms, server, asked, windowHeight,
                     isMonitorGroupDividerDragging>>,
         leaving' \in [Kinds -> Nat], widgets' \in Nat
  PROVE  LayoutInv'
<1>1. LayoutTypeOK /\ OneKindAtATime
  BY DEF LayoutInv, LayoutSound
<1>2. /\ PartsFillTheWindow'
      /\ mainContainerHeight' \in Int /\ monitorGroupHeight' \in Int
      /\ unadjusted' \in BOOLEAN
  BY <1>1, AdjustFills DEF LayoutTypeOK
<1>3. OneKindAtATime'
  BY <1>1 DEF OneKindAtATime
<1>4. LayoutTypeOK'
  BY <1>1, <1>2, Zenon DEF LayoutTypeOK, server
<1> QED
  BY <1>2, <1>3, <1>4, Zenon DEF LayoutInv, LayoutSound

\* The divider shares out the room above the progress bars; dragged over them
\* it says so.
LEMMA DragKeepsTheLayout ==
  ASSUME LayoutInv, horizontalDividerMouseMove PROVE LayoutInv'
<1>1. LayoutTypeOK /\ OneKindAtATime
  BY DEF LayoutInv, LayoutSound
<1>2. OffsetHeight(progressDoms, leaving) \in Nat
  BY <1>1, OffsetIsNat DEF LayoutTypeOK
<1>3. windowHeight \in Nat
  BY <1>1, LayoutAssumption DEF LayoutTypeOK
<1> DEFINE room == windowHeight - OffsetHeight(progressDoms, leaving)
<1>4. room \in Int
  BY <1>2, <1>3
<1>5. PICK y \in DividerPositions :
        /\ mainContainerHeight' = IF y > room THEN room ELSE y
        /\ monitorGroupHeight' = room - y
        /\ unadjusted' = (y > room)
  BY DEF horizontalDividerMouseMove
<1>6. y \in Nat
  BY LayoutAssumption
<1>7. UNCHANGED <<server, asked, progress_, frame>>
  BY DEF horizontalDividerMouseMove
<1> HIDE DEF room
<1>8. /\ unadjusted' = TRUE \/ unadjusted' = FALSE
      /\ unadjusted' = FALSE => ~(y > room)
  <2>1. unadjusted' = TRUE \/ unadjusted' = FALSE
    BY <1>4, <1>5, <1>6
  <2>2. unadjusted' = FALSE => ~(y > room)
    BY <1>5, Zenon
  <2> QED
    BY <2>1, <2>2, Zenon
<1>9. /\ mainContainerHeight' \in Int /\ monitorGroupHeight' \in Int
      /\ unadjusted' = FALSE => mainContainerHeight' + monitorGroupHeight' = room
  <2>1. CASE y > room
    <3>1. mainContainerHeight' = room /\ monitorGroupHeight' = room - y
      BY <1>5, <2>1
    <3>2. unadjusted' # FALSE
      BY <1>8, <2>1, Zenon
    <3>3. mainContainerHeight' \in Int /\ monitorGroupHeight' \in Int
      BY <1>4, <1>6, <3>1
    <3> QED
      BY <3>2, <3>3, Zenon
  <2>2. CASE ~(y > room)
    BY <1>4, <1>5, <1>6, <2>2
  <2> QED
    BY <2>1, <2>2
<1>10. OffsetHeight(progressDoms', leaving') = OffsetHeight(progressDoms, leaving)
  BY <1>7 DEF progress_
<1>11. PartsFillTheWindow'
  <2>1. unadjusted' = FALSE =>
          mainContainerHeight' + monitorGroupHeight'
            + OffsetHeight(progressDoms, leaving) = windowHeight
    BY <1>2, <1>3, <1>9 DEF room
  <2> QED
    BY <1>7, <1>8, <1>10, <2>1, Zenon DEF PartsFillTheWindow, frame
<1>12. OneKindAtATime'
  BY <1>1, <1>7 DEF OneKindAtATime, progress_
<1>13. LayoutTypeOK'
  BY <1>1, <1>7, <1>8, <1>9, Zenon DEF LayoutTypeOK, server, progress_, frame
<1> QED
  BY <1>11, <1>12, <1>13, Zenon DEF LayoutInv, LayoutSound

LEMMA LayoutInvStep == LayoutInv /\ [LayoutNext]_layoutVars => LayoutInv'
<1> SUFFICES ASSUME LayoutInv, [LayoutNext]_layoutVars PROVE LayoutInv'
  OBVIOUS
<1> USE LayoutAssumption
<1>1. LayoutTypeOK
  BY DEF LayoutInv
\* The steps that keep doms, heights and window.
<1>2. ASSUME UNCHANGED <<progress_, heights, windowHeight>>,
             active' \in SUBSET Bars, started' \in BOOLEAN,
             asked' \in [Slots -> [state : {"free", "sent", "served"},
                                   bars : SUBSET Bars]],
             isMonitorGroupDividerDragging' \in BOOLEAN, widgets' \in Nat
      PROVE  LayoutInv'
  <2>1. LayoutSound'
    BY <1>2, DomsAndHeightsStand, Zenon
  <2>2. LayoutTypeOK'
    BY <1>1, <1>2, Zenon DEF LayoutTypeOK, progress_, heights
  <2> QED
    BY <2>1, <2>2 DEF LayoutInv
<1>3. ASSUME NEW b \in Bars, CreateProgressBar(b) \/ CompleteProgressBar(b)
      PROVE  LayoutInv'
  <2>1. active' \in SUBSET Bars
    BY <1>1, <1>3 DEF LayoutTypeOK, CreateProgressBar, CompleteProgressBar
  <2>2. /\ UNCHANGED <<asked, progress_, heights, frame>>
        /\ started' = TRUE \/ UNCHANGED started
    BY <1>3, Zenon DEF CreateProgressBar, CompleteProgressBar
  <2> QED
    BY <1>1, <1>2, <2>1, <2>2, Zenon DEF LayoutTypeOK, frame
<1>4. CASE refreshProgressBars
  <2>1. asked' \in [Slots -> [state : {"free", "sent", "served"}, bars : SUBSET Bars]]
    BY <1>1, <1>4 DEF LayoutTypeOK, refreshProgressBars, Sent
  <2>2. UNCHANGED <<server, progress_, heights, frame>>
    BY <1>4 DEF refreshProgressBars
  <2> QED
    BY <1>1, <1>2, <2>1, <2>2, Zenon DEF LayoutTypeOK, server, frame
<1>5. ASSUME NEW s \in Slots, listProgressBars(s) PROVE LayoutInv'
  <2>1. asked' \in [Slots -> [state : {"free", "sent", "served"}, bars : SUBSET Bars]]
    BY <1>1, <1>5 DEF LayoutTypeOK, listProgressBars, Served, Free
  <2>2. UNCHANGED <<server, progress_, heights, frame>>
    BY <1>5 DEF listProgressBars
  <2> QED
    BY <1>1, <1>2, <2>1, <2>2, Zenon DEF LayoutTypeOK, server, frame
<1>6. ASSUME NEW s \in Slots, renderProgress(s) PROVE LayoutInv'
  BY <1>6, RenderKeepsTheLayout
<1>7. ASSUME NEW k \in Kinds, DomRemoved(k) PROVE LayoutInv'
  <2>1. leaving' \in [Kinds -> Nat]
    BY <1>1, <1>7 DEF LayoutTypeOK, DomRemoved
  <2>2. /\ Adjust(monitorGroupHeight)
        /\ UNCHANGED <<mode, progressDoms, server, asked, frame>>
    BY <1>7, Zenon DEF DomRemoved
  <2>3. monitorGroupHeight \in Int /\ widgets' \in Nat
    BY <1>1, <2>2 DEF LayoutTypeOK, frame
  <2> QED
    BY <2>1, <2>2, <2>3, AdjustKeepsTheLayout DEF frame
<1>8. CASE WidgetAdded \/ WidgetRemoved
  <2>1. /\ widgets' \in Nat
        /\ UNCHANGED <<progress_, server, asked, windowHeight,
                       isMonitorGroupDividerDragging>>
        /\ Adjust(GroupHeight) \/ Adjust(0) \/ UNCHANGED heights
    BY <1>1, <1>8 DEF LayoutTypeOK, WidgetAdded, WidgetRemoved
  <2>2. CASE UNCHANGED heights
    BY <1>1, <1>2, <2>1, <2>2, Zenon DEF LayoutTypeOK, server
  <2>3. leaving' \in [Kinds -> Nat]
    BY <1>1, <2>1 DEF LayoutTypeOK, progress_
  <2>4. GroupHeight \in Int /\ 0 \in Int
    OBVIOUS
  <2>5. CASE Adjust(GroupHeight)
    BY <2>1, <2>3, <2>4, <2>5, AdjustKeepsTheLayout DEF progress_
  <2>6. CASE Adjust(0)
    BY <2>1, <2>3, <2>4, <2>6, AdjustKeepsTheLayout DEF progress_
  <2> QED
    BY <2>1, <2>2, <2>5, <2>6
<1>9. CASE monitorGroupDividerMouseDown \/ horizontalDividerMouseUp
  BY <1>1, <1>2, <1>9, Zenon DEF LayoutTypeOK, monitorGroupDividerMouseDown,
     horizontalDividerMouseUp, server
<1>10. CASE horizontalDividerMouseMove
  BY <1>10, DragKeepsTheLayout
<1>11. CASE WindowResized
  <2>1. /\ windowHeight' \in WindowHeights /\ unadjusted' = TRUE
        /\ UNCHANGED <<server, asked, progress_, mainContainerHeight,
                       monitorGroupHeight, isMonitorGroupDividerDragging, widgets>>
    BY <1>11 DEF WindowResized
  <2>2. LayoutTypeOK'
    BY <1>1, <2>1, Zenon DEF LayoutTypeOK, server, progress_
  <2>3. LayoutSound'
    BY <2>1 DEF LayoutInv, LayoutSound, PartsFillTheWindow, OneKindAtATime, progress_
  <2> QED
    BY <2>2, <2>3 DEF LayoutInv
<1>12. CASE UNCHANGED layoutVars
  BY <1>1, <1>2, <1>12, Zenon DEF LayoutTypeOK, layoutVars, server, frame
<1> QED
  BY <1>3, <1>4, <1>5, <1>6, <1>7, <1>8, <1>9, <1>10, <1>11, <1>12
  DEF LayoutNext, Progress

\* The types and the layout hold together in every reachable state.
THEOREM LayoutInvHolds == LayoutSpec => []LayoutInv
  BY LayoutInvInit, LayoutInvStep, PTL DEF LayoutSpec

\* The window's height is shared out without a gap or an overlap and the group
\* shows one kind of dom, for any number of bars, answers on their way and
\* doms that are leaving.
THEOREM LayoutStaysSound == LayoutSpec => []LayoutSound
<1>1. LayoutInv => LayoutSound
  BY DEF LayoutInv
<1> QED
  BY <1>1, LayoutInvHolds, PTL

(***************************************************************************)
(* The watched values                                                      *)
(***************************************************************************)
InOrder(samples) == \A i \in 1 .. Len(samples) - 1 : samples[i] =< samples[i + 1]
UpToTime(samples, t) == \A i \in 1 .. Len(samples) : samples[i] =< t

\* A sample later than those there are is put last, whether or not the oldest
\* has to go.
LEMMA Pushed ==
  ASSUME NEW samples \in Seq(Nat), NEW t \in Nat, InOrder(samples),
         UpToTime(samples, t)
  PROVE  /\ Push(samples, t) \in Seq(Nat)
         /\ InOrder(Push(samples, t)) /\ UpToTime(Push(samples, t), t)
<1>1. ASSUME NEW s \in Seq(Nat), InOrder(s), UpToTime(s, t)
      PROVE  /\ Append(s, t) \in Seq(Nat)
             /\ InOrder(Append(s, t)) /\ UpToTime(Append(s, t), t)
  <2> DEFINE r == Append(s, t)
  <2>1. /\ Len(s) \in Nat /\ r \in Seq(Nat) /\ Len(r) = Len(s) + 1
        /\ r[Len(s) + 1] = t
        /\ \A i \in 1 .. Len(s) : r[i] = s[i]
    BY LenProperties, AppendProperties
  <2> HIDE DEF r
  <2>2. \A i \in 1 .. Len(s) + 1 : r[i] =< t
    BY <1>1, <2>1, SMTT(30) DEF UpToTime
  <2>3. ASSUME NEW i \in 1 .. Len(s) PROVE r[i] =< r[i + 1]
    <3>1. CASE i = Len(s)
      BY <2>1, <2>2, <3>1
    <3>2. CASE i # Len(s)
      <4>1. i \in 1 .. Len(s) - 1 /\ i + 1 \in 1 .. Len(s)
        BY <2>1, <3>2
      <4>2. s[i] =< s[i + 1]
        BY <1>1, <4>1 DEF InOrder
      <4>3. r[i] = s[i] /\ r[i + 1] = s[i + 1]
        BY <2>1, <4>1
      <4> QED
        BY <4>2, <4>3
    <3> QED
      BY <3>1, <3>2
  <2>4. r \in Seq(Nat) /\ InOrder(r) /\ UpToTime(r, t)
    BY <2>1, <2>2, <2>3 DEF InOrder, UpToTime
  <2> QED
    BY <2>4 DEF r
<1>2. CASE Len(samples) = MaxData
  <2> DEFINE r == Tail(samples)
  <2>1. samples # <<>>
    BY <1>2, WidgetsAssumption
  <2>2. /\ Len(samples) \in Nat /\ r \in Seq(Nat) /\ Len(r) = Len(samples) - 1
        /\ \A i \in 1 .. Len(samples) - 1 : r[i] = samples[i + 1]
    BY <2>1, LenProperties, HeadTailProperties
  <2> HIDE DEF r
  <2>3. InOrder(r)
    <3>1. ASSUME NEW i \in 1 .. Len(r) - 1 PROVE r[i] =< r[i + 1]
      <4>1. i \in 1 .. Len(samples) - 1 /\ i + 1 \in 1 .. Len(samples) - 1
        <5> DEFINE k == Len(samples)
                   l == Len(r)
        <5>1. k \in Nat /\ l = k - 1 /\ i \in 1 .. l - 1
          BY <2>2
        <5> HIDE DEF k, l
        <5>2. i \in 1 .. k - 1 /\ i + 1 \in 1 .. k - 1
          BY <5>1
        <5> QED
          BY <5>2 DEF k
      <4>2. r[i] = samples[i + 1] /\ r[i + 1] = samples[(i + 1) + 1]
        BY <2>2, <4>1
      <4>3. samples[i + 1] =< samples[(i + 1) + 1]
        BY <4>1 DEF InOrder
      <4> QED
        BY <4>2, <4>3
    <3> QED
      BY <3>1 DEF InOrder
  <2>4. UpToTime(r, t)
    <3>1. ASSUME NEW i \in 1 .. Len(r) PROVE r[i] =< t
      <4>1. i + 1 \in 1 .. Len(samples) /\ r[i] = samples[i + 1]
        BY <2>2
      <4> QED
        BY <4>1 DEF UpToTime
    <3> QED
      BY <3>1 DEF UpToTime
  <2>5. Push(samples, t) = Append(r, t)
    BY <1>2 DEF Push, r
  <2> QED
    BY <1>1, <2>2, <2>3, <2>4, <2>5
<1>3. CASE Len(samples) # MaxData
  BY <1>1, <1>3 DEF Push
<1> QED
  BY <1>2, <1>3

Update == [widget : WidgetID, at : Nat]

\* The values on their way are in the order in which they were read.
ReadInOrder(us) ==
  \A j, k \in 1 .. Len(us) : j < k => us[j].at =< us[k].at

\* The strengthening of SamplesInOrder: what is on its way was read no earlier
\* than what the widget shows, and was read in order.
SamplesInv ==
  /\ now \in Nat
  /\ updates \in Seq(Update) /\ data \in [WidgetID -> Seq(Nat)]
  /\ ReadInOrder(updates)
  /\ \A j \in 1 .. Len(updates) : updates[j].at =< now
  /\ \A w \in WidgetID \ overtaken :
       /\ InOrder(data[w]) /\ UpToTime(data[w], now)
       /\ \A j \in 1 .. Len(updates) :
            updates[j].widget = w => UpToTime(data[w], updates[j].at)

LEMMA SamplesInvInit == WidgetsInit => SamplesInv
<1> SUFFICES ASSUME WidgetsInit PROVE SamplesInv
  OBVIOUS
<1>1. updates = <<>> /\ data = [w \in WidgetID |-> <<>>] /\ now = 0
  BY DEF WidgetsInit
<1>2. Len(<<>>) = 0 /\ <<>> \in Seq(Update) /\ <<>> \in Seq(Nat)
  OBVIOUS
<1> QED
  BY <1>1, <1>2 DEF SamplesInv, ReadInOrder, InOrder, UpToTime

LEMMA UpdateRead ==
  ASSUME SamplesInv, NEW w \in WidgetID, updateChart(w)
  PROVE  SamplesInv'
<1> DEFINE u == [widget |-> w, at |-> now]
<1>1. /\ updates' = Append(updates, u)
      /\ UNCHANGED <<data, overtaken, now>>
  BY DEF updateChart
<1>2. u \in Update /\ updates \in Seq(Update) /\ now \in Nat
      /\ data \in [WidgetID -> Seq(Nat)]
  BY DEF SamplesInv, Update
<1> HIDE DEF u
<1>3. PICK us, vs : us = updates /\ vs = updates'
  OBVIOUS
<1>4. /\ Len(us) \in Nat /\ vs \in Seq(Update) /\ Len(vs) = Len(us) + 1
      /\ vs[Len(us) + 1] = u
      /\ \A i \in 1 .. Len(us) : vs[i] = us[i] /\ us[i] \in Update
  BY <1>1, <1>2, <1>3, LenProperties, AppendProperties, ElementOfSeq
<1>5. \A j \in 1 .. Len(us) : us[j].at =< now
  BY <1>3 DEF SamplesInv
<1>6. \A j, k \in 1 .. Len(us) : j < k => us[j].at =< us[k].at
  BY <1>3 DEF SamplesInv, ReadInOrder
<1>7. ASSUME NEW j \in 1 .. Len(vs)
      PROVE  /\ vs[j].at =< now
             /\ j = Len(us) + 1 => vs[j].at = now
             /\ j # Len(us) + 1 => j \in 1 .. Len(us) /\ vs[j] = us[j]
  <2>1. u.at = now /\ now =< now
    BY <1>2 DEF u
  <2>2. CASE j = Len(us) + 1
    BY <1>4, <2>1, <2>2
  <2>3. CASE j # Len(us) + 1
    <3>1. j \in 1 .. Len(us)
      BY <1>4, <2>3
    <3> QED
      BY <1>4, <1>5, <2>3, <3>1
  <2> QED
    BY <2>2, <2>3
<1>8. ReadInOrder(vs)
  <2>1. ASSUME NEW j \in 1 .. Len(vs), NEW k \in 1 .. Len(vs), j < k
        PROVE  vs[j].at =< vs[k].at
    <3>1. j # Len(us) + 1
      BY <1>4, <2>1
    <3>2. j \in 1 .. Len(us) /\ vs[j] = us[j]
      BY <1>7, <3>1
    <3>3. CASE k = Len(us) + 1
      BY <1>7, <3>3
    <3>4. CASE k # Len(us) + 1
      <4>1. k \in 1 .. Len(us) /\ vs[k] = us[k]
        BY <1>7, <3>4
      <4> QED
        BY <1>6, <2>1, <3>2, <4>1
    <3> QED
      BY <3>3, <3>4
  <2> QED
    BY <2>1 DEF ReadInOrder
<1>9. ASSUME NEW x \in WidgetID \ overtaken, NEW j \in 1 .. Len(vs), vs[j].widget = x
      PROVE  UpToTime(data[x], vs[j].at)
  <2>1. CASE j = Len(us) + 1
    BY <1>4, <2>1 DEF SamplesInv, u
  <2>2. CASE j # Len(us) + 1
    <3>1. j \in 1 .. Len(us) /\ vs[j] = us[j]
      BY <1>4, <2>2
    <3> QED
      BY <1>3, <1>9, <3>1 DEF SamplesInv
  <2> QED
    BY <2>1, <2>2
<1>10. \A x \in WidgetID \ overtaken : InOrder(data[x]) /\ UpToTime(data[x], now)
  BY DEF SamplesInv
<1> QED
  BY <1>1, <1>2, <1>3, <1>4, <1>7, <1>8, <1>9, <1>10 DEF SamplesInv

LEMMA UpdateDrawn ==
  ASSUME SamplesInv, NEW i \in DOMAIN updates, render(i)
  PROVE  SamplesInv'
<1>1. PICK us, vs, d, e : us = updates /\ vs = updates' /\ d = data /\ e = data'
  OBVIOUS
<1>2. /\ us \in Seq(Update) /\ d \in [WidgetID -> Seq(Nat)] /\ now \in Nat
      /\ ReadInOrder(us)
      /\ \A j \in 1 .. Len(us) : us[j].at =< now
  BY <1>1 DEF SamplesInv
<1>3. /\ Len(us) \in Nat /\ i \in 1 .. Len(us)
      /\ \A j \in 1 .. Len(us) : us[j] \in Update
  BY <1>1, <1>2, LenProperties, ElementOfSeq
<1> DEFINE x == us[i].widget
           t == us[i].at
<1>4. x \in WidgetID /\ t \in Nat /\ us[i] \in Update
  BY <1>3 DEF Update
<1>5. /\ vs = RemoveAt(us, i)
      /\ e = [d EXCEPT ![x] = Push(@, t)]
      /\ overtaken' = IF \E j \in 1 .. i - 1 : us[j].widget = x
                        THEN overtaken \cup {x} ELSE overtaken
      /\ UNCHANGED now
  BY <1>1 DEF render
<1>6. /\ vs \in Seq(Update) /\ Len(vs) = Len(us) - 1
      /\ \A j \in 1 .. Len(us) - 1 : vs[j] = IF j < i THEN us[j] ELSE us[j + 1]
  BY <1>2, <1>3, <1>5, RemoveAtProps
<1>7. \A j \in 1 .. Len(vs) : vs[j].at =< now
  BY <1>2, <1>3, <1>6, SMTT(30)
<1>8. ReadInOrder(vs)
  <2>1. ASSUME NEW j \in 1 .. Len(vs), NEW k \in 1 .. Len(vs), j < k
        PROVE  vs[j].at =< vs[k].at
    <3> DEFINE p == IF j < i THEN j ELSE j + 1
               q == IF k < i THEN k ELSE k + 1
    <3>1. p \in 1 .. Len(us) /\ q \in 1 .. Len(us) /\ p < q
      BY <1>3, <1>6, <2>1
    <3>2. vs[j] = us[p] /\ vs[k] = us[q]
      BY <1>3, <1>6
    <3> QED
      BY <1>2, <3>1, <3>2 DEF ReadInOrder
  <2> QED
    BY <2>1 DEF ReadInOrder
<1>9. ASSUME NEW w \in WidgetID \ overtaken'
      PROVE  /\ InOrder(e[w]) /\ UpToTime(e[w], now)
             /\ \A j \in 1 .. Len(vs) : vs[j].widget = w => UpToTime(e[w], vs[j].at)
             /\ e[w] \in Seq(Nat)
  <2>1. /\ w \in WidgetID \ overtaken
        /\ w = x => ~\E j \in 1 .. i - 1 : us[j].widget = x
    BY <1>4, <1>5
  <2>2. /\ InOrder(d[w]) /\ UpToTime(d[w], now) /\ d[w] \in Seq(Nat)
        /\ \A j \in 1 .. Len(us) : us[j].widget = w => UpToTime(d[w], us[j].at)
    BY <1>1, <1>2, <2>1 DEF SamplesInv
  <2>3. CASE w # x
    <3>1. e[w] = d[w]
      BY <1>2, <1>5, <2>3
    <3> QED
      BY <1>3, <1>6, <2>2, <3>1, SMTT(30)
  <2>4. CASE w = x
    <3>1. e[w] = Push(d[w], t)
      BY <1>2, <1>5, <2>4
    <3>2. UpToTime(d[w], t)
      BY <1>3, <2>2, <2>4
    <3>3. e[w] \in Seq(Nat) /\ InOrder(e[w]) /\ UpToTime(e[w], t)
      BY <1>4, <2>2, <3>1, <3>2, Pushed
    <3>4. \A s \in Nat : t =< s => UpToTime(e[w], s)
      <4>1. Len(e[w]) \in Nat /\ \A k \in 1 .. Len(e[w]) : e[w][k] \in Nat
        BY <3>3, LenProperties, ElementOfSeq
      <4> QED
        BY <1>4, <3>3, <4>1 DEF UpToTime
    <3>5. t =< now
      BY <1>2, <1>3
    <3>6. ASSUME NEW j \in 1 .. Len(vs), vs[j].widget = w
          PROVE  vs[j].at \in Nat /\ t =< vs[j].at
      <4>1. CASE j < i
        <5>1. j \in 1 .. i - 1 /\ vs[j] = us[j]
          BY <1>3, <1>6, <4>1
        <5> QED
          BY <2>1, <2>4, <3>6, <5>1
      <4>2. CASE ~(j < i)
        <5>1. j + 1 \in 1 .. Len(us) /\ vs[j] = us[j + 1] /\ i < j + 1
          BY <1>3, <1>6, <4>2
        <5>2. t =< us[j + 1].at
          BY <1>2, <1>3, <5>1 DEF ReadInOrder
        <5> QED
          BY <1>3, <5>1, <5>2 DEF Update
      <4> QED
        BY <4>1, <4>2
    <3> QED
      BY <1>2, <3>3, <3>4, <3>5, <3>6
  <2> QED
    BY <2>3, <2>4
<1>10. e \in [WidgetID -> Seq(Nat)]
  <2>1. Push(d[x], t) \in Seq(Nat)
    <3>1. d[x] \in Seq(Nat) /\ Len(d[x]) \in Nat
      BY <1>2, <1>4, LenProperties
    <3>2. CASE Len(d[x]) = MaxData
      <4>1. d[x] # <<>>
        BY <3>2, WidgetsAssumption
      <4>2. Tail(d[x]) \in Seq(Nat)
        BY <3>1, <4>1, HeadTailProperties
      <4> QED
        BY <1>4, <3>2, <4>2, AppendProperties DEF Push
    <3>3. CASE Len(d[x]) # MaxData
      BY <1>4, <3>1, <3>3, AppendProperties DEF Push
    <3> QED
      BY <3>2, <3>3
  <2> QED
    BY <1>2, <1>4, <1>5, <2>1
<1> QED
  BY <1>1, <1>2, <1>5, <1>6, <1>7, <1>8, <1>9, <1>10 DEF SamplesInv

LEMMA SamplesInvStep == SamplesInv /\ [WidgetsNext]_widgetVars => SamplesInv'
<1> SUFFICES ASSUME SamplesInv, [WidgetsNext]_widgetVars PROVE SamplesInv'
  OBVIOUS
<1>1. CASE UNCHANGED <<values, now>>
  BY <1>1 DEF values, SamplesInv
<1>2. CASE SimulationAdvances
  <2>1. now' = now + 1 /\ UNCHANGED <<updates, data, overtaken>>
    BY <1>2 DEF SimulationAdvances, values
  <2>2. now \in Nat /\ updates \in Seq(Update) /\ data \in [WidgetID -> Seq(Nat)]
        /\ Len(updates) \in Nat
    BY LenProperties DEF SamplesInv
  <2>3. \A j \in 1 .. Len(updates) : updates[j].at =< now'
    <3>1. \A j \in 1 .. Len(updates) : updates[j].at =< now
      BY DEF SamplesInv
    <3>2. \A j \in 1 .. Len(updates) : updates[j] \in Update
      BY <2>2, ElementOfSeq
    <3>3. \A j \in 1 .. Len(updates) : updates[j].at \in Nat
      BY <3>2 DEF Update
    <3> QED
      BY <2>1, <2>2, <3>1, <3>3
  <2>4. ASSUME NEW w \in WidgetID \ overtaken PROVE UpToTime(data[w], now')
    <3>1. data[w] \in Seq(Nat) /\ Len(data[w]) \in Nat
      BY <2>2, LenProperties
    <3>2. \A k \in 1 .. Len(data[w]) : data[w][k] \in Nat /\ data[w][k] =< now
      BY <3>1, ElementOfSeq DEF SamplesInv, UpToTime
    <3> QED
      BY <2>1, <2>2, <3>2 DEF UpToTime
  <2> QED
    BY <2>1, <2>2, <2>3, <2>4 DEF SamplesInv
<1>3. ASSUME NEW w \in WidgetID, updateChart(w) PROVE SamplesInv'
  BY <1>3, UpdateRead
<1>4. ASSUME NEW i \in DOMAIN updates, render(i) PROVE SamplesInv'
  BY <1>4, UpdateDrawn
<1>5. CASE WidgetsNext
  <2>1. \/ UNCHANGED <<values, now>>
        \/ \E w \in WidgetID : updateChart(w)
        \/ \E i \in DOMAIN updates : render(i)
        \/ SimulationAdvances
    BY <1>5 DEF WidgetsNext, populate, showComponent, expand, showField, FlagOn,
       FlagOff, Close
  <2> QED
    BY <1>1, <1>2, <1>3, <1>4, <2>1
<1>6. CASE UNCHANGED widgetVars
  BY <1>1, <1>6 DEF widgetVars
<1> QED
  BY <1>5, <1>6
(***************************************************************************)
(* The widgets on the page                                                 *)
(***************************************************************************)
Ids(ws) == {w.id : w \in ws}

\* An id names one widget of the list, and one that was given away.
IdsTell ==
  /\ \A v, w \in ToSet(list) : v.id = w.id => v = w
  /\ \A w \in ToSet(list) : w.id =< made

WatchedFields ==
  \A f \in flags \ crossed : \E w \in ToSet(list) : Matches(w, shown, f)

\* The strengthening of NoOrphanTimer and FlagHasWidget.
ListInv ==
  /\ details \in Seq(Components) /\ shown \in Components \cup {NoComponent}
  /\ flags \in SUBSET Fields /\ crossed \in SUBSET flags
  /\ list \in Seq(Widget) /\ made \in 0 .. MaxWidgets
  /\ doms = Ids(ToSet(list)) /\ timers = doms
  /\ IdsTell /\ WatchedFields

LEMMA ListInvInit == WidgetsInit => ListInv
<1> SUFFICES ASSUME WidgetsInit PROVE ListInv
  OBVIOUS
<1>1. list = <<>> /\ <<>> \in Seq(Widget) /\ <<>> \in Seq(Components)
      /\ ToSet(<<>>) = {}
  BY SetOfEmpty DEF WidgetsInit
<1>2. MaxWidgets \in Nat
  BY WidgetsAssumption
<1> QED
  BY <1>1, <1>2 DEF WidgetsInit, ListInv, IdsTell, WatchedFields, Ids

\* addWidget puts a new widget at the end of the list.
LEMMA AddKeepsTheList ==
  ASSUME ListInv, NEW c \in Components, NEW f \in Fields, addWidget(c, f)
  PROVE  /\ list' \in Seq(Widget) /\ made' \in 0 .. MaxWidgets
         /\ doms' = Ids(ToSet(list')) /\ timers' = doms' /\ IdsTell'
         /\ ToSet(list) \subseteq ToSet(list')
         /\ \E w \in ToSet(list') : Matches(w, c, f)
<1> DEFINE w == [id |-> made + 1, component |-> c, field |-> f]
<1>1. MaxWidgets \in Nat /\ made \in 0 .. MaxWidgets /\ list \in Seq(Widget)
  BY WidgetsAssumption DEF ListInv
<1>2. /\ made < MaxWidgets /\ made' = made + 1
      /\ list' = Append(list, w)
      /\ doms' = doms \cup {w.id} /\ timers' = timers \cup {w.id}
  BY DEF addWidget
<1>3. /\ w \in Widget /\ w.id = made + 1 /\ w.component = c /\ w.field = f
  BY <1>1, <1>2 DEF Widget, WidgetID
<1> HIDE DEF w
<1>4. list' \in Seq(Widget) /\ ToSet(list') = ToSet(list) \cup {w}
  BY <1>1, <1>2, <1>3, SetAppended, AppendProperties
<1>5. doms = Ids(ToSet(list)) /\ timers = doms
  BY DEF ListInv
<1>6. Ids(ToSet(list')) = Ids(ToSet(list)) \cup {w.id}
  BY <1>4 DEF Ids
<1>7. \A v \in ToSet(list) : v.id \in Nat /\ v.id =< made
  <2>1. \A v \in ToSet(list) : v \in Widget
    BY <1>1, SetOfSeq
  <2> QED
    BY <2>1 DEF ListInv, IdsTell, Widget, WidgetID
<1>8. IdsTell'
  <2>1. ASSUME NEW u \in ToSet(list'), NEW v \in ToSet(list'), u.id = v.id PROVE u = v
    <3>1. CASE u = w /\ v = w
      BY <3>1
    <3>2. CASE u # w
      <4>1. u \in ToSet(list) /\ u.id \in Nat /\ u.id =< made
        BY <1>4, <1>7, <3>2
      <4>2. v # w
        BY <1>1, <1>3, <2>1, <4>1
      <4> QED
        BY <1>4, <2>1, <4>1, <4>2 DEF ListInv, IdsTell
    <3>3. CASE v # w
      <4>1. v \in ToSet(list) /\ v.id \in Nat /\ v.id =< made
        BY <1>4, <1>7, <3>3
      <4>2. u # w
        BY <1>1, <1>3, <2>1, <4>1
      <4> QED
        BY <1>4, <2>1, <4>1, <4>2 DEF ListInv, IdsTell
    <3> QED
      BY <3>1, <3>2, <3>3
  <2>2. ASSUME NEW v \in ToSet(list') PROVE v.id =< made'
    <3>1. CASE v = w
      BY <1>1, <1>2, <1>3, <3>1
    <3>2. CASE v # w
      BY <1>1, <1>2, <1>4, <1>7, <3>2
    <3> QED
      BY <3>1, <3>2
  <2> QED
    BY <2>1, <2>2 DEF IdsTell
<1>9. Matches(w, c, f)
  BY <1>3 DEF Matches
<1>10. made' \in 0 .. MaxWidgets
  BY <1>1, <1>2
<1>11. doms' = Ids(ToSet(list')) /\ timers' = doms'
  BY <1>2, <1>5, <1>6
<1>12. w \in ToSet(list')
  BY <1>4
<1> QED
  BY <1>4, <1>8, <1>9, <1>10, <1>11, <1>12

\* removeWidget takes at most one widget of the field out, from the list, the
\* page and the timers.
LEMMA RemoveKeepsTheList ==
  ASSUME ListInv, NEW c, NEW f, removeWidget(c, f)
  PROVE  /\ list' \in Seq(Widget) /\ made' \in 0 .. MaxWidgets
         /\ doms' = Ids(ToSet(list')) /\ timers' = doms' /\ IdsTell'
         /\ \A v \in ToSet(list) : ~Matches(v, c, f) => v \in ToSet(list')
<1>1. /\ list \in Seq(Widget) /\ made \in 0 .. MaxWidgets
      /\ doms = Ids(ToSet(list)) /\ timers = doms /\ made' = made
      /\ \A v, w \in ToSet(list) : v.id = w.id => v = w
      /\ \A w \in ToSet(list) : w.id =< made
  BY DEF ListInv, removeWidget, IdsTell
<1>2. CASE Of(c, f) = {}
  <2>1. UNCHANGED <<list, doms, timers, made>>
    BY <1>2 DEF removeWidget
  <2> QED
    BY <1>1, <2>1 DEF IdsTell
<1>3. CASE Of(c, f) # {}
  <2> DEFINE w == getWidget(c, f)
  <2>1. /\ timers' = timers \ {w.id} /\ doms' = doms \ {w.id} /\ list' = Rest(w)
    BY <1>3 DEF removeWidget
  <2>2. w \in ToSet(list) /\ Matches(w, c, f)
    <3> DEFINE S == Of(c, f)
    <3>1. S \in SUBSET Nat /\ S # {} /\ S \in SUBSET DOMAIN list
      BY <1>1, <1>3, LenProperties DEF Of
    <3> HIDE DEF S
    <3>2. \E i \in S : \A j \in S : i =< j
      BY <3>1, MinInSet
    <3>3. PICK i : i \in S /\ w = list[i]
      BY <3>2 DEF getWidget, S
    <3> QED
      BY <3>1, <3>3 DEF S, Of, ToSet
  <2> HIDE DEF w
  <2>3. list' \in Seq(Widget) /\ ToSet(list') = ToSet(list) \ {w}
    BY <1>1, <2>1, FilterSet DEF Rest
  <2>4. Ids(ToSet(list')) = Ids(ToSet(list)) \ {w.id}
    BY <1>1, <2>2, <2>3 DEF Ids
  <2> QED
    BY <1>1, <2>1, <2>2, <2>3, <2>4 DEF IdsTell
<1> QED
  BY <1>2, <1>3

LEMMA ListInvStep == ListInv /\ [WidgetsNext]_widgetVars => ListInv'
<1> SUFFICES ASSUME ListInv, [WidgetsNext]_widgetVars PROVE ListInv'
  OBVIOUS
<1>1. CASE UNCHANGED <<details, shown, flags, crossed, widgets_>>
  BY <1>1 DEF widgets_, ListInv, IdsTell, WatchedFields
<1>2. ASSUME NEW c \in Components, populate(c) PROVE ListInv'
  <2>1. /\ details' = Append(details, c)
        /\ UNCHANGED <<shown, flags, crossed, list, doms, timers, made>>
    BY <1>2 DEF populate, widgets_
  <2>2. details' \in Seq(Components)
    BY <2>1, AppendProperties DEF ListInv
  <2> QED
    BY <2>1, <2>2 DEF ListInv, IdsTell, WatchedFields
<1>3. ASSUME NEW i \in DOMAIN details, showComponent(i) PROVE ListInv'
  <2>1. details \in Seq(Components) /\ DOMAIN details = 1 .. Len(details)
    BY LenProperties DEF ListInv
  <2>2. details' \in Seq(Components) /\ shown' \in Components
    BY <1>3, <2>1, RemoveAtProps, ElementOfSeq DEF showComponent
  <2>3. /\ flags' = flags \ Fields /\ crossed' = crossed \ Fields
        /\ UNCHANGED <<list, doms, timers, made>>
    BY <1>3 DEF showComponent, Rebuild, widgets_
  <2>4. flags' = {} /\ crossed' = {}
    BY <2>3 DEF ListInv
  <2> QED
    BY <2>2, <2>3, <2>4 DEF ListInv, IdsTell, WatchedFields
<1>4. CASE showField
  <2>1. /\ flags' = flags \ Inner /\ crossed' = crossed \ Inner
        /\ UNCHANGED <<details, shown, list, doms, timers, made>>
    BY <1>4 DEF showField, Rebuild, widgets_
  <2> QED
    BY <2>1 DEF ListInv, IdsTell, WatchedFields
<1>5. ASSUME NEW f \in Fields, FlagOn(f) PROVE ListInv'
  <2>1. /\ flags' = flags \cup {f} /\ crossed' = crossed \ {f}
        /\ addWidget(shown, f) /\ UNCHANGED <<details, shown>>
        /\ f \notin flags
    BY <1>5 DEF FlagOn
  <2>2. shown \in Components
    BY <1>5 DEF FlagOn, Visible, ListInv
  <2>3. /\ list' \in Seq(Widget) /\ made' \in 0 .. MaxWidgets
        /\ doms' = Ids(ToSet(list')) /\ timers' = doms' /\ IdsTell'
        /\ ToSet(list) \subseteq ToSet(list')
        /\ \E w \in ToSet(list') : Matches(w, shown, f)
    BY <2>1, <2>2, AddKeepsTheList
  <2>4. WatchedFields'
    BY <2>1, <2>3 DEF ListInv, WatchedFields
  <2> QED
    BY <2>1, <2>3, <2>4 DEF ListInv
<1>6. ASSUME NEW f \in Fields, FlagOff(f) PROVE ListInv'
  <2>1. /\ flags' = flags \ {f} /\ crossed' = crossed \ {f}
        /\ removeWidget(shown, f) /\ UNCHANGED <<details, shown>>
    BY <1>6 DEF FlagOff
  <2>2. /\ list' \in Seq(Widget) /\ made' \in 0 .. MaxWidgets
        /\ doms' = Ids(ToSet(list')) /\ timers' = doms' /\ IdsTell'
        /\ \A v \in ToSet(list) : ~Matches(v, shown, f) => v \in ToSet(list')
    BY <2>1, RemoveKeepsTheList
  <2>3. WatchedFields'
    <3>1. ASSUME NEW g \in flags' \ crossed' PROVE \E w \in ToSet(list') : Matches(w, shown, g)
      <4>1. g \in flags \ crossed /\ g # f
        BY <2>1
      <4>2. PICK w \in ToSet(list) : Matches(w, shown, g)
        BY <4>1 DEF ListInv, WatchedFields
      <4> QED
        BY <2>2, <4>1, <4>2 DEF Matches
    <3> QED
      BY <2>1, <3>1 DEF WatchedFields
  <2> QED
    BY <2>1, <2>2, <2>3 DEF ListInv
<1>7. ASSUME NEW i \in DOMAIN list, Close(list[i]) PROVE ListInv'
  <2> DEFINE c == list[i].component
             f == list[i].field
  <2>1. /\ crossed' = IF c = shown THEN crossed \cup ({f} \cap flags) ELSE crossed
        /\ removeWidget(c, f) /\ UNCHANGED <<details, shown, flags>>
    BY <1>7 DEF Close
  <2> HIDE DEF c, f
  <2>2. /\ list' \in Seq(Widget) /\ made' \in 0 .. MaxWidgets
        /\ doms' = Ids(ToSet(list')) /\ timers' = doms' /\ IdsTell'
        /\ \A v \in ToSet(list) : ~Matches(v, c, f) => v \in ToSet(list')
    BY <2>1, RemoveKeepsTheList
  <2>3. WatchedFields'
    <3>1. ASSUME NEW g \in flags' \ crossed' PROVE \E w \in ToSet(list') : Matches(w, shown, g)
      <4>1. g \in flags \ crossed /\ (c = shown => g # f)
        BY <2>1
      <4>2. PICK w \in ToSet(list) : Matches(w, shown, g)
        BY <4>1 DEF ListInv, WatchedFields
      <4> QED
        BY <2>2, <4>1, <4>2 DEF Matches
    <3> QED
      BY <2>1, <3>1 DEF WatchedFields
  <2>4. crossed' \in SUBSET flags
    BY <2>1 DEF ListInv
  <2> QED
    BY <2>1, <2>2, <2>3, <2>4 DEF ListInv
<1>8. CASE WidgetsNext
  <2>1. \/ UNCHANGED <<details, shown, flags, crossed, widgets_>>
        \/ \E c \in Components : populate(c)
        \/ \E i \in DOMAIN details : showComponent(i)
        \/ showField
        \/ \E f \in Fields : FlagOn(f) \/ FlagOff(f)
        \/ \E i \in DOMAIN list : Close(list[i])
    BY <1>8 DEF WidgetsNext, expand, updateChart, render, SimulationAdvances, view
  <2> QED
    BY <1>1, <1>2, <1>3, <1>4, <1>5, <1>6, <1>7, <2>1
<1>9. CASE UNCHANGED widgetVars
  BY <1>1, <1>9 DEF widgetVars, view
<1> QED
  BY <1>8, <1>9

(***************************************************************************)
(* The theorems about the widgets                                          *)
(***************************************************************************)
\* What neither part is about.
RestTyped ==
  /\ expanded \in BOOLEAN /\ filled \in BOOLEAN /\ fieldAsks \in Nat
  /\ overtaken \in SUBSET WidgetID

WidgetsInv == ListInv /\ SamplesInv /\ RestTyped

LEMMA RestTypedStep == RestTyped /\ SamplesInv /\ [WidgetsNext]_widgetVars => RestTyped'
<1> SUFFICES ASSUME RestTyped, SamplesInv, [WidgetsNext]_widgetVars PROVE RestTyped'
  OBVIOUS
<1>1. CASE UNCHANGED <<inside, overtaken>>
  BY <1>1 DEF inside, RestTyped
<1>2. ASSUME NEW i \in DOMAIN details, showComponent(i) PROVE RestTyped'
  <2>1. expanded' = FALSE /\ filled' = FALSE /\ fieldAsks' = 0 /\ UNCHANGED overtaken
    BY <1>2 DEF showComponent, values
  <2> QED
    BY <2>1 DEF RestTyped
<1>3. CASE expand
  <2>1. /\ expanded' = ~expanded /\ UNCHANGED <<filled, overtaken>>
        /\ fieldAsks' = fieldAsks \/ fieldAsks' = fieldAsks + 1
    BY <1>3 DEF expand, values
  <2>2. fieldAsks' \in Nat
    BY <2>1 DEF RestTyped
  <2>3. expanded' \in BOOLEAN
    BY <2>1, Zenon DEF RestTyped
  <2> QED
    BY <2>1, <2>2, <2>3 DEF RestTyped
<1>4. CASE showField
  <2>1. /\ filled' = TRUE /\ UNCHANGED <<expanded, overtaken>>
        /\ fieldAsks > 0 /\ fieldAsks' = fieldAsks - 1
    BY <1>4 DEF showField, values
  <2>2. fieldAsks' \in Nat
    BY <2>1 DEF RestTyped
  <2> QED
    BY <2>1, <2>2 DEF RestTyped
<1>5. ASSUME NEW i \in DOMAIN updates, render(i) PROVE RestTyped'
  <2>1. updates \in Seq(Update) /\ DOMAIN updates = 1 .. Len(updates)
    BY LenProperties DEF SamplesInv
  <2>2. updates[i].widget \in WidgetID
    <3>1. updates[i] \in Update
      BY <1>5, <2>1, ElementOfSeq
    <3> QED
      BY <3>1 DEF Update
  <2>3. UNCHANGED inside /\ (overtaken' = overtaken \/ overtaken' = overtaken \cup {updates[i].widget})
    BY <1>5 DEF render, view
  <2> QED
    BY <2>2, <2>3 DEF RestTyped, inside
<1>6. CASE WidgetsNext
  <2>1. \/ UNCHANGED <<inside, overtaken>>
        \/ \E i \in DOMAIN details : showComponent(i)
        \/ expand \/ showField
        \/ \E i \in DOMAIN updates : render(i)
    BY <1>6 DEF WidgetsNext, populate, FlagOn, FlagOff, Close, updateChart,
       SimulationAdvances, view, values
  <2> QED
    BY <1>1, <1>2, <1>3, <1>4, <1>5, <2>1
<1>7. CASE UNCHANGED widgetVars
  BY <1>1, <1>7 DEF widgetVars, view, values
<1> QED
  BY <1>6, <1>7

\* The inductive invariant of the component view and its widgets.
LEMMA WidgetsInvHolds == WidgetsSpec => []WidgetsInv
<1>1. WidgetsInit => WidgetsInv
  <2>1. WidgetsInit => RestTyped
    <3> SUFFICES ASSUME WidgetsInit PROVE RestTyped
      OBVIOUS
    <3>1. expanded = FALSE /\ filled = FALSE /\ fieldAsks = 0 /\ overtaken = {}
      BY DEF WidgetsInit
    <3> QED
      BY <3>1 DEF RestTyped
  <2> QED
    BY <2>1, ListInvInit, SamplesInvInit DEF WidgetsInv
<1>2. WidgetsInv /\ [WidgetsNext]_widgetVars => WidgetsInv'
  BY ListInvStep, SamplesInvStep, RestTypedStep DEF WidgetsInv
<1> QED
  BY <1>1, <1>2, PTL DEF WidgetsSpec

\* The list, the page, the running timers, the flags and the charts of the
\* watched values agree, however many components, fields, widgets and values
\* on their way there are.
THEOREM WidgetsStayAgreed == WidgetsSpec => []WidgetsAgree
<1>1. ListInv => NoOrphanTimer
  BY DEF ListInv, NoOrphanTimer, Ids, ToSet
<1>2. ListInv => FlagHasWidget
  <2> SUFFICES ASSUME ListInv, NEW f \in flags \ crossed PROVE Of(shown, f) # {}
    BY DEF FlagHasWidget
  <2>1. PICK w \in ToSet(list) : Matches(w, shown, f)
    BY DEF ListInv, WatchedFields
  <2> QED
    BY <2>1 DEF Of, ToSet
<1>3. SamplesInv => SamplesInOrder
  BY DEF SamplesInv, InOrder, SamplesInOrder
<1>4. WidgetsInv => WidgetsAgree
  BY <1>1, <1>2, <1>3 DEF WidgetsInv, WidgetsAgree
<1> QED
  BY <1>4, WidgetsInvHolds, PTL

\* Every variable of the component view keeps its type.
THEOREM WidgetsStayTyped == WidgetsSpec => []WidgetsTypeOK
<1>1. WidgetsInv => WidgetsTypeOK
  <2> SUFFICES ASSUME WidgetsInv PROVE WidgetsTypeOK
    OBVIOUS
  <2>1. doms \in SUBSET WidgetID
    <3>1. ToSet(list) \subseteq Widget /\ doms = Ids(ToSet(list))
      BY SetOfSeq DEF WidgetsInv, ListInv
    <3> QED
      BY <3>1 DEF Ids, Widget
  <2> QED
    BY <2>1 DEF WidgetsInv, ListInv, SamplesInv, RestTyped, WidgetsTypeOK, Update
<1> QED
  BY <1>1, WidgetsInvHolds, PTL

(***************************************************************************)
(* The tree of components                                                  *)
(***************************************************************************)
\* A node without children is a component.
LEMMA LeavesAreNames ==
  ASSUME NEW t \in Trees, NEW p \in Nodes(t), children(t, p) = {}
  PROVE  p \in t
<1>1. PICK n \in t : \E k \in 1 .. Len(n) : p = SubSeq(n, 1, k)
  BY DEF Nodes
<1>2. PICK k \in 1 .. Len(n) : p = SubSeq(n, 1, k)
  BY <1>1
<1>3. n \in Seq(ToSet(n)) /\ Len(n) \in Nat
  BY PanesAssumption, LenProperties
<1>4. /\ p \in Seq(ToSet(n)) /\ Len(p) = k
      /\ \A i \in 1 .. k : p[i] = n[i]
  BY <1>2, <1>3, SubSeqProperties
<1>5. CASE k = Len(n)
  BY <1>3, <1>4, <1>5, SeqEqual
<1>6. CASE k < Len(n)
  <2> DEFINE q == SubSeq(n, 1, k + 1)
  <2>1. k + 1 \in 1 .. Len(n)
    BY <1>3, <1>6
  <2>2. q \in Nodes(t)
    BY <2>1 DEF Nodes
  <2>3. /\ q \in Seq(ToSet(n)) /\ Len(q) = k + 1
        /\ \A i \in 1 .. k + 1 : q[i] = n[i]
    BY <1>3, <2>1, SubSeqProperties
  <2> HIDE DEF q
  <2>4. SubSeq(q, 1, k) = p
    <3>1. /\ SubSeq(q, 1, k) \in Seq(ToSet(n)) /\ Len(SubSeq(q, 1, k)) = k
          /\ \A i \in 1 .. k : SubSeq(q, 1, k)[i] = q[i]
      BY <2>3, SubSeqProperties
    <3>2. \A i \in 1 .. k : SubSeq(q, 1, k)[i] = p[i]
      BY <1>4, <2>3, <3>1
    <3> QED
      BY <1>4, <3>1, <3>2, SeqEqual
  <2>5. q \in children(t, p)
    BY <1>4, <2>2, <2>3, <2>4 DEF children
  <2> QED
    BY <2>5
<1> QED
  BY <1>3, <1>5, <1>6

\* A component without a longer name is such a node.
LEMMA NamesAreLeaves ==
  ASSUME NEW t \in Trees, NEW n \in t, ~\E m \in t : IsStrictPrefix(n, m)
  PROVE  n \in Nodes(t) /\ children(t, n) = {}
<1>1. n \in Seq(ToSet(n)) /\ n # <<>> /\ Len(n) \in Nat \ {0}
  BY PanesAssumption, LenProperties, EmptySeq
<1>2. n \in Nodes(t)
  <2>1. SubSeq(n, 1, Len(n)) = n
    BY <1>1, SubSeqFull
  <2>2. Len(n) \in 1 .. Len(n)
    BY <1>1
  <2>3. n \in {SubSeq(n, 1, k) : k \in 1 .. Len(n)}
    BY <2>1, <2>2
  <2> QED
    BY <2>3 DEF Nodes
<1>3. ASSUME NEW q \in children(t, n) PROVE FALSE
  <2>1. Len(q) = Len(n) + 1 /\ SubSeq(q, 1, Len(n)) = n /\ q \in Nodes(t)
    BY <1>3 DEF children
  <2>2. PICK m \in t : \E k \in 1 .. Len(m) : q = SubSeq(m, 1, k)
    BY <2>1 DEF Nodes
  <2>3. PICK k \in 1 .. Len(m) : q = SubSeq(m, 1, k)
    BY <2>2
  <2>4. m \in Seq(ToSet(m)) /\ Len(m) \in Nat
    BY PanesAssumption, LenProperties
  <2>5. /\ q \in Seq(ToSet(m)) /\ Len(q) = k
        /\ \A i \in 1 .. k : q[i] = m[i]
    BY <2>3, <2>4, SubSeqProperties
  <2>6. k = Len(n) + 1 /\ Len(n) < Len(m)
    BY <1>1, <2>1, <2>4, <2>5
  <2>7. SubSeq(m, 1, Len(n)) = n
    <3>1. /\ SubSeq(m, 1, Len(n)) \in Seq(ToSet(m)) /\ Len(SubSeq(m, 1, Len(n))) = Len(n)
          /\ \A i \in 1 .. Len(n) : SubSeq(m, 1, Len(n))[i] = m[i]
      BY <1>1, <2>4, <2>6, SubSeqProperties
    <3>2. /\ SubSeq(q, 1, Len(n)) \in Seq(ToSet(m)) /\ Len(SubSeq(q, 1, Len(n))) = Len(n)
          /\ \A i \in 1 .. Len(n) : SubSeq(q, 1, Len(n))[i] = q[i]
      BY <1>1, <2>1, <2>5, SubSeqProperties
    <3>3. \A i \in 1 .. Len(n) : SubSeq(m, 1, Len(n))[i] = SubSeq(q, 1, Len(n))[i]
      BY <1>1, <2>5, <2>6, <3>1, <3>2
    <3>4. SubSeq(m, 1, Len(n)) = SubSeq(q, 1, Len(n))
      BY <3>1, <3>2, <3>3, SeqEqual
    <3> QED
      BY <2>1, <3>4
  <2>8. SubSeq(n, 1, Len(n)) = n
    BY <1>1, SubSeqFull
  <2>9. IsStrictPrefix(n, m)
    BY <1>1, <2>4, <2>6, <2>7, <2>8 DEF IsStrictPrefix, IsPrefix
  <2> QED
    BY <2>9
<1> QED
  BY <1>2, <1>3

\* No token of a component's name is empty, so its full name is its name.
LEMMA FullNames ==
  ASSUME NEW t \in Trees, NEW n \in t
  PROVE  fullName(n) = n
<1>1. n \in Seq(ToSet(n)) /\ "" \notin ToSet(n)
  BY PanesAssumption
<1>2. ToSet(n) \ {""} = ToSet(n)
  BY <1>1
<1>3. Filter(n, ToSet(n)) = n
  BY <1>1, FilterAll
<1> QED
  BY <1>2, <1>3 DEF fullName

TreeInv == names \in Trees /\ opened \subseteq names

LEMMA TreeInvStep == TreeInv /\ [PanesNext]_paneVars => TreeInv'
<1> SUFFICES ASSUME TreeInv, [PanesNext]_paneVars PROVE TreeInv'
  OBVIOUS
<1>1. CASE UNCHANGED tree
  BY <1>1 DEF tree, TreeInv
<1>2. ASSUME NEW p \in Nodes(names), Open(p) PROVE TreeInv'
  <2>1. children(names, p) = {} /\ opened' = opened \cup {fullName(p)} /\ UNCHANGED names
    BY <1>2 DEF Open
  <2>2. names \in Trees /\ p \in names
    BY <2>1, LeavesAreNames DEF TreeInv
  <2>3. fullName(p) = p
    BY <2>2, FullNames
  <2> QED
    BY <2>1, <2>2, <2>3 DEF TreeInv
<1>3. CASE RightPane
  BY <1>1, <1>3 DEF RightPane, AnalyzeClicked, RefreshClicked, RefreshTimer,
     SortClicked, BuffersArrive, getProfilingResult, ProfileArrives
<1>4. CASE TraceButton
  BY <1>1, <1>4 DEF TraceButton, SimulationRuns, TraceClicked, OfflineClicked,
     TraceServed, TraceNotServed, StatusArrives, StatusFails, ToggleArrives,
     ToggleFails
<1>5. CASE UNCHANGED paneVars
  BY <1>1, <1>5 DEF paneVars
<1> QED
  BY <1>2, <1>3, <1>4, <1>5 DEF PanesNext, Tree

LEMMA TreeInvTells == TreeInv => TreeOpensComponents
<1> SUFFICES ASSUME TreeInv PROVE TreeOpensComponents
  OBVIOUS
<1>1. ASSUME NEW n \in names, ~\E m \in names : IsStrictPrefix(n, m)
      PROVE  n \in {fullName(p) : p \in {q \in Nodes(names) : children(names, q) = {}}}
  <2>1. n \in Nodes(names) /\ children(names, n) = {} /\ fullName(n) = n
    BY <1>1, NamesAreLeaves, FullNames DEF TreeInv
  <2> QED
    BY <2>1
<1> QED
  BY <1>1 DEF TreeInv, TreeOpensComponents

(***************************************************************************)
(* The right pane                                                          *)
(***************************************************************************)
\* The table will be in the chosen order: the last answer on its way is.
TableWillFollow ==
  pane = "hang" /\ ~tableOvertaken =>
    IF buffers = <<>> THEN table = sort ELSE buffers[Len(buffers)] = sort

Highlights == pane = "hang" /\ ~rebuilt => highlighted = sort

RightInv ==
  /\ pane \in {"empty", "hang", "profile"} /\ running \in BOOLEAN
  /\ sort \in Sorts /\ highlighted \in Sorts
  /\ label \in {"Stop Refresh", "Auto Refresh"}
  /\ table \in Sorts \cup {NoTable} /\ buffers \in Seq(Sorts)
  /\ profiles \in {0, 1}
  /\ tableOvertaken \in BOOLEAN /\ rebuilt \in BOOLEAN
  /\ ButtonTellsRefresh /\ TableWillFollow /\ Highlights

LEMMA Asked ==
  ASSUME buffers \in Seq(Sorts), NEW key \in Sorts, Ask(key)
  PROVE  /\ buffers' \in Seq(Sorts) /\ buffers' # <<>>
         /\ buffers'[Len(buffers')] = key
<1>1. buffers' = Append(buffers, key)
  BY DEF Ask
<1>2. /\ buffers' \in Seq(Sorts) /\ Len(buffers) \in Nat
      /\ Len(buffers') = Len(buffers) + 1 /\ buffers'[Len(buffers) + 1] = key
  BY <1>1, AppendProperties, LenProperties
<1>3. buffers' # <<>>
  BY <1>2, EmptySeq
<1> QED
  BY <1>2, <1>3

LEMMA RightInvStep == RightInv /\ [PanesNext]_paneVars => RightInv'
<1> SUFFICES ASSUME RightInv, [PanesNext]_paneVars PROVE RightInv'
  OBVIOUS
<1> USE DEF Sorts, NoTable, TableWillFollow, Highlights, ButtonTellsRefresh
<1>0. /\ pane \in {"empty", "hang", "profile"} /\ running \in BOOLEAN
      /\ sort \in Sorts /\ highlighted \in Sorts
      /\ label \in {"Stop Refresh", "Auto Refresh"}
      /\ table \in Sorts \cup {NoTable} /\ buffers \in Seq(Sorts)
      /\ profiles \in {0, 1}
      /\ tableOvertaken \in BOOLEAN /\ rebuilt \in BOOLEAN
      /\ ButtonTellsRefresh /\ TableWillFollow /\ Highlights
  BY DEF RightInv
<1>1. CASE UNCHANGED right
  BY <1>1 DEF right, RightInv
<1>2. CASE AnalyzeClicked
  <2>1. /\ pane' = "hang" /\ label' = "Stop Refresh" /\ running' = TRUE
        /\ highlighted' = "level" /\ table' = NoTable
        /\ rebuilt' = (sort # "level") /\ Ask(sort)
        /\ UNCHANGED <<sort, profiles, tableOvertaken>>
    BY <1>2 DEF AnalyzeClicked, startAnalyzing
  <2>2. buffers' \in Seq(Sorts) /\ buffers' # <<>> /\ buffers'[Len(buffers')] = sort
    BY <1>0, <2>1, Asked
  <2> QED
    BY <1>0, <2>1, <2>2 DEF RightInv
<1>3. ASSUME NEW key \in Sorts, SortClicked(key) PROVE RightInv'
  <2>1. /\ pane = "hang" /\ sort' = key /\ highlighted' = key /\ rebuilt' = FALSE
        /\ Ask(key)
        /\ UNCHANGED <<pane, running, label, table, profiles, tableOvertaken>>
    BY <1>3 DEF SortClicked
  <2>2. buffers' \in Seq(Sorts) /\ buffers' # <<>> /\ buffers'[Len(buffers')] = key
    BY <1>0, <1>3, <2>1, Asked
  <2> QED
    BY <1>0, <1>3, <2>1, <2>2 DEF RightInv
<1>4. CASE RefreshClicked
  <2>1. CASE running
    <3>1. /\ running' = FALSE /\ label' = "Auto Refresh"
          /\ UNCHANGED <<buffers, pane, sort, highlighted, table, profiles, tableOvertaken, rebuilt>>
      BY <1>4, <2>1 DEF RefreshClicked
    <3> QED
      BY <1>0, <3>1 DEF RightInv
  <2>2. CASE ~running
    <3>1. /\ running' = TRUE /\ label' = "Stop Refresh" /\ Ask(sort)
          /\ UNCHANGED <<pane, sort, highlighted, table, profiles, tableOvertaken, rebuilt>>
      BY <1>4, <2>2 DEF RefreshClicked, startAnalyzing
    <3>2. buffers' \in Seq(Sorts) /\ buffers' # <<>> /\ buffers'[Len(buffers')] = sort
      BY <1>0, <3>1, Asked
    <3> QED
      BY <1>0, <3>1, <3>2 DEF RightInv
  <2> QED
    BY <2>1, <2>2
<1>5. CASE RefreshTimer
  <2>1. /\ Ask(sort)
        /\ UNCHANGED <<pane, running, sort, label, highlighted, table, profiles, tableOvertaken, rebuilt>>
    BY <1>5 DEF RefreshTimer
  <2>2. buffers' \in Seq(Sorts) /\ buffers' # <<>> /\ buffers'[Len(buffers')] = sort
    BY <1>0, <2>1, Asked
  <2> QED
    BY <1>0, <2>1, <2>2 DEF RightInv
<1>6. ASSUME NEW i \in DOMAIN buffers, BuffersArrive(i) PROVE RightInv'
  <2>1. /\ buffers' = RemoveAt(buffers, i)
        /\ table' = IF pane = "hang" THEN buffers[i] ELSE table
        /\ tableOvertaken' = (tableOvertaken \/ i # 1)
        /\ UNCHANGED <<pane, running, sort, label, highlighted, profiles, rebuilt>>
    BY <1>6 DEF BuffersArrive
  <2>2. Len(buffers) \in Nat /\ i \in 1 .. Len(buffers) /\ buffers[i] \in Sorts
    BY <1>0, <1>6, LenProperties, ElementOfSeq
  <2>3. /\ buffers' \in Seq(Sorts) /\ Len(buffers') = Len(buffers) - 1
        /\ \A k \in 1 .. Len(buffers) - 1 :
             buffers'[k] = IF k < i THEN buffers[k] ELSE buffers[k + 1]
    BY <1>0, <2>1, <2>2, RemoveAtProps
  <2>4. buffers' = <<>> <=> Len(buffers') = 0
    BY <2>3, EmptySeq
  <2>5. tableOvertaken' \in BOOLEAN
    BY <1>0, <2>1
  <2>6. TableWillFollow'
    <3> SUFFICES ASSUME pane' = "hang", ~tableOvertaken'
                 PROVE  IF buffers' = <<>> THEN table' = sort' ELSE buffers'[Len(buffers')] = sort'
      OBVIOUS
    <3>1. pane = "hang" /\ i = 1 /\ ~tableOvertaken /\ table' = buffers[1] /\ sort' = sort
      BY <2>1
    <3>2. buffers # <<>>
      BY <2>2
    <3>3. buffers[Len(buffers)] = sort
      BY <1>0, <3>1, <3>2
    <3>4. CASE Len(buffers) = 1
      BY <2>3, <2>4, <3>1, <3>3, <3>4
    <3>5. CASE Len(buffers) # 1
      <4>1. buffers' # <<>> /\ Len(buffers') \in 1 .. Len(buffers) - 1
            /\ Len(buffers') + 1 = Len(buffers) /\ ~(Len(buffers') < i)
        BY <2>2, <2>3, <2>4, <3>1, <3>5
      <4>2. buffers'[Len(buffers')] = buffers[Len(buffers)]
        BY <2>3, <4>1
      <4> QED
        BY <3>1, <3>3, <4>1, <4>2
    <3> QED
      BY <3>4, <3>5
  <2>7. table' \in Sorts \cup {NoTable}
    BY <1>0, <2>1, <2>2
  <2> HIDE DEF TableWillFollow
  <2> QED
    BY <1>0, <2>1, <2>3, <2>5, <2>6, <2>7 DEF RightInv
<1>7. CASE getProfilingResult
  BY <1>0, <1>7 DEF getProfilingResult, RightInv
<1>8. CASE ProfileArrives
  BY <1>0, <1>8 DEF ProfileArrives, RightInv
<1>9. CASE Tree
  BY <1>1, <1>9 DEF Tree, Open
<1>10. CASE TraceButton
  BY <1>1, <1>10 DEF TraceButton, SimulationRuns, TraceClicked, OfflineClicked,
     TraceServed, TraceNotServed, StatusArrives, StatusFails, ToggleArrives,
     ToggleFails
<1>11. CASE UNCHANGED paneVars
  BY <1>1, <1>11 DEF paneVars
<1> QED
  BY <1>2, <1>3, <1>4, <1>5, <1>6, <1>7, <1>8, <1>9, <1>10, <1>11
     DEF PanesNext, RightPane

(***************************************************************************)
(* The trace button                                                        *)
(***************************************************************************)
Click == [kind : {"status", "start", "end"}, state : {"sent", "served", "failed"},
          value : BOOLEAN]
Segment == [from : Nat, to : Nat]

TraceTyped ==
  /\ hasTracer \in BOOLEAN /\ isTracing \in BOOLEAN /\ tracing \in BOOLEAN
  /\ together \in BOOLEAN /\ lost \in BOOLEAN
  /\ clock \in 0 .. MaxClock /\ tracingStartTime \in 0 .. clock
  /\ segments \in Seq(Segment) /\ toggles \in Seq(Click)
  /\ handler \in {"none", "online", "offline"} /\ clicks \in Nat

\* The one request that is on its way knows what the button shows and what
\* the server does.
ClickKnows(t) ==
  IF t.kind = "status"
    THEN handler = "none" /\ (t.state = "served" => t.value = isTracing)
    ELSE /\ handler = "online"
         /\ tracing <=> t.kind = "end"
         /\ hasTracer /\ ~lost =>
              (isTracing <=> (IF t.state = "served" THEN t.kind = "start" ELSE tracing))

ButtonInv ==
  ~together =>
    IF toggles = <<>>
      THEN handler = "online" /\ hasTracer /\ ~lost => tracing = isTracing
      ELSE Len(toggles) = 1 /\ ClickKnows(toggles[1])

\* What was recorded ends before what is being recorded.
SegmentsInv ==
  ~together /\ ~lost =>
    /\ \A i \in 1 .. Len(segments) :
         /\ segments[i].from =< segments[i].to /\ segments[i].to =< clock
         /\ isTracing => segments[i].to =< tracingStartTime
         /\ i > 1 => segments[i - 1].to =< segments[i].from

TraceInv == TraceTyped /\ ButtonInv /\ SegmentsInv

\* The last request on its way arrives or fails.
LEMMA OnlyClick ==
  ASSUME TraceTyped, ButtonInv, ~together, NEW i \in DOMAIN toggles
  PROVE  /\ i = 1 /\ Len(toggles) = 1 /\ toggles[1] \in Click /\ ClickKnows(toggles[1])
<1>1. toggles \in Seq(Click)
  BY DEF TraceTyped
<1>2. DOMAIN toggles = 1 .. Len(toggles) /\ Len(toggles) \in Nat
  BY <1>1, LenProperties
<1>3. toggles # <<>>
  BY <1>2
<1>4. Len(toggles) = 1 /\ ClickKnows(toggles[1])
  BY <1>3 DEF ButtonInv
<1>5. i = 1 /\ 1 \in 1 .. Len(toggles)
  BY <1>2, <1>4
<1>6. toggles[1] \in Click
  BY <1>1, <1>5, ElementOfSeq
<1> QED
  BY <1>4, <1>5, <1>6

LEMMA ClickGone ==
  ASSUME TraceTyped, NEW i \in DOMAIN toggles, toggles' = RemoveAt(toggles, i)
  PROVE  toggles' \in Seq(Click) /\ toggles[i] \in Click /\ (Len(toggles) = 1 => toggles' = <<>>)
<1>1. toggles \in Seq(Click)
  BY DEF TraceTyped
<1>2. i \in 1 .. Len(toggles) /\ Len(toggles) \in Nat
  BY <1>1, LenProperties
<1>3. toggles' \in Seq(Click) /\ Len(toggles') = Len(toggles) - 1
  BY <1>1, <1>2, RemoveAtProps
<1>4. toggles[i] \in Click
  BY <1>1, <1>2, ElementOfSeq
<1> QED
  BY <1>3, <1>4, EmptySeq

LEMMA ClickChanged ==
  ASSUME TraceTyped, NEW i \in DOMAIN toggles, NEW t \in Click,
         toggles' = [toggles EXCEPT ![i] = t]
  PROVE  toggles' \in Seq(Click) /\ Len(toggles') = Len(toggles) /\ toggles'[i] = t /\ toggles' # <<>>
<1>1. toggles \in Seq(Click) /\ i \in 1 .. Len(toggles) /\ Len(toggles) \in Nat
  BY LenProperties DEF TraceTyped
<1>2. /\ toggles' \in Seq(Click) /\ Len(toggles') = Len(toggles) /\ toggles'[i] = t
  BY <1>1, ExceptSeq
<1> QED
  BY <1>1, <1>2, EmptySeq

LEMMA ServedStep ==
  ASSUME TraceInv, NEW i \in DOMAIN toggles, TraceServed(i)
  PROVE  TraceInv'
<1>0. TraceTyped /\ ButtonInv /\ SegmentsInv
  BY DEF TraceInv
<1> DEFINE k == toggles[i].kind
<1>1. /\ toggles[i].state = "sent"
      /\ toggles' = [toggles EXCEPT ![i] = Answered(@, isTracing)]
      /\ UNCHANGED <<hasTracer, clock, handler, tracing, clicks, together, lost>>
  BY DEF TraceServed
<1>2. toggles \in Seq(Click) /\ toggles[i] \in Click
  BY <1>0, LenProperties, ElementOfSeq DEF TraceTyped
<1> DEFINE t == Answered(toggles[i], isTracing)
<1>3. /\ t \in Click /\ t.kind = k /\ t.state = "served" /\ t.value = isTracing
  BY <1>0, <1>2 DEF Answered, Click, TraceTyped
<1>4. toggles' = [toggles EXCEPT ![i] = t]
  BY <1>1
<1> HIDE DEF t
<1>5. /\ toggles' \in Seq(Click) /\ Len(toggles') = Len(toggles) /\ toggles'[i] = t
      /\ toggles' # <<>>
  BY <1>0, <1>3, <1>4, ClickChanged
<1>6. \/ /\ hasTracer /\ k = "start"
         /\ isTracing' = TRUE /\ tracingStartTime' = clock /\ UNCHANGED segments
      \/ /\ hasTracer /\ k = "end"
         /\ isTracing' = FALSE /\ UNCHANGED tracingStartTime
         /\ segments' = Append(segments, [from |-> tracingStartTime, to |-> clock])
      \/ /\ ~(hasTracer /\ k \in {"start", "end"})
         /\ UNCHANGED <<isTracing, tracingStartTime, segments>>
  BY DEF TraceServed, StartTracing, StopTracing
<1>7. /\ clock \in Nat /\ MaxClock \in Nat /\ clock \in 0 .. MaxClock
      /\ tracingStartTime \in 0 .. clock /\ segments \in Seq(Segment)
  <2>1. MaxClock \in Nat
    BY PanesAssumption
  <2> QED
    BY <1>0, <2>1 DEF TraceTyped
<1>8. TraceTyped'
  <2>1. segments' \in Seq(Segment)
    <3>1. [from |-> tracingStartTime, to |-> clock] \in Segment
      BY <1>7 DEF Segment
    <3> QED
      BY <1>6, <1>7, <3>1, AppendProperties
  <2>2. isTracing' \in BOOLEAN
    BY <1>0, <1>6 DEF TraceTyped
  <2>3. tracingStartTime' \in 0 .. clock'
    BY <1>1, <1>6, <1>7
  <2> QED
    BY <1>0, <1>1, <1>5, <2>1, <2>2, <2>3 DEF TraceTyped
<1>9. ButtonInv'
  <2> SUFFICES ASSUME ~together' PROVE Len(toggles') = 1 /\ ClickKnows(toggles[1])'
    BY <1>5 DEF ButtonInv
  <2>1. i = 1 /\ Len(toggles) = 1 /\ ClickKnows(toggles[1])
    BY <1>0, <1>1, OnlyClick
  <2>2. toggles'[1] = t /\ Len(toggles') = 1
    BY <1>5, <2>1
  <2>3. CASE k = "status"
    <3>1. isTracing' = isTracing /\ handler' = "none"
      BY <1>1, <1>6, <2>1, <2>3 DEF ClickKnows
    <3> QED
      BY <1>3, <2>2, <2>3, <3>1 DEF ClickKnows
  <2>4. CASE k # "status"
    <3>1. k \in {"start", "end"}
      BY <1>2, <2>4 DEF Click
    <3>2. handler' = "online" /\ (tracing' <=> k = "end")
      BY <1>1, <2>1, <2>4 DEF ClickKnows
    <3>3. hasTracer' => (isTracing' <=> k = "start")
      BY <1>1, <1>6, <3>1
    <3> QED
      BY <1>3, <2>2, <2>4, <3>2, <3>3 DEF ClickKnows
  <2> QED
    BY <2>3, <2>4
<1>10. SegmentsInv'
  <2> SUFFICES ASSUME ~together', ~lost', NEW j \in 1 .. Len(segments')
               PROVE  /\ segments'[j].from =< segments'[j].to /\ segments'[j].to =< clock'
                      /\ isTracing' => segments'[j].to =< tracingStartTime'
                      /\ j > 1 => segments'[j - 1].to =< segments'[j].from
    BY DEF SegmentsInv
  <2>1. /\ ~together /\ ~lost /\ clock' = clock
        /\ \A m \in 1 .. Len(segments) :
             /\ segments[m].from =< segments[m].to /\ segments[m].to =< clock
             /\ isTracing => segments[m].to =< tracingStartTime
             /\ m > 1 => segments[m - 1].to =< segments[m].from
    BY <1>0, <1>1 DEF SegmentsInv
  <2>2. CASE UNCHANGED segments /\ (isTracing' => tracingStartTime' = clock)
    BY <2>1, <2>2
  <2>3. CASE UNCHANGED <<segments, isTracing, tracingStartTime>>
    BY <2>1, <2>3
  <2>4. CASE /\ hasTracer /\ k = "end" /\ isTracing' = FALSE
             /\ segments' = Append(segments, [from |-> tracingStartTime, to |-> clock])
    <3>1. isTracing
      <4>1. i = 1 /\ ClickKnows(toggles[1])
        BY <1>0, <2>1, OnlyClick
      <4> QED
        BY <1>1, <2>1, <2>4, <4>1 DEF ClickKnows
    <3> DEFINE g == [from |-> tracingStartTime, to |-> clock]
    <3>2. g \in Segment /\ g.from = tracingStartTime /\ g.to = clock
      BY <1>7 DEF Segment
    <3> HIDE DEF g
    <3>3. /\ Len(segments) \in Nat /\ Len(segments') = Len(segments) + 1
          /\ segments'[Len(segments) + 1] = g
          /\ \A m \in 1 .. Len(segments) : segments'[m] = segments[m]
      BY <1>7, <2>4, <3>2, LenProperties, AppendProperties DEF g
    <3>4. CASE j = Len(segments) + 1
      <4>1. j > 1 => /\ j - 1 \in 1 .. Len(segments)
                     /\ segments'[j - 1] = segments[j - 1]
        BY <3>3, <3>4
      <4>2. j > 1 => segments[j - 1].to =< tracingStartTime
        BY <2>1, <3>1, <4>1
      <4>3. segments'[j].from = tracingStartTime /\ segments'[j].to = clock
        BY <3>2, <3>3, <3>4
      <4> QED
        BY <1>7, <2>1, <2>4, <4>1, <4>2, <4>3
    <3>5. CASE j # Len(segments) + 1
      <4>1. j \in 1 .. Len(segments) /\ segments'[j] = segments[j]
        BY <3>3, <3>5
      <4>2. j > 1 => j - 1 \in 1 .. Len(segments) /\ segments'[j - 1] = segments[j - 1]
        BY <3>3, <4>1
      <4> QED
        BY <2>1, <2>4, <4>1, <4>2
    <3> QED
      BY <3>4, <3>5
  <2> QED
    BY <1>6, <2>2, <2>3, <2>4
<1> QED
  BY <1>8, <1>9, <1>10 DEF TraceInv

LEMMA TraceInvStep == TraceInv /\ [PanesNext]_paneVars => TraceInv'
<1> SUFFICES ASSUME TraceInv, [PanesNext]_paneVars PROVE TraceInv'
  OBVIOUS
<1>0. TraceTyped /\ ButtonInv /\ SegmentsInv
  BY DEF TraceInv
<1>1. CASE UNCHANGED <<tracer, button>>
  BY <1>1 DEF tracer, button, TraceInv, TraceTyped, ButtonInv, SegmentsInv, ClickKnows
\* The steps that leave what the server records alone.
<1>2. ASSUME UNCHANGED tracer, together => together', lost => lost'
      PROVE  SegmentsInv'
  BY <1>0, <1>2 DEF tracer, SegmentsInv
<1>3. CASE SimulationRuns
  <2>1. clock < MaxClock /\ clock' = clock + 1 /\ UNCHANGED <<hasTracer, isTracing, tracingStartTime, segments, button>>
    BY <1>3 DEF SimulationRuns
  <2>2. clock \in 0 .. MaxClock /\ MaxClock \in Nat /\ tracingStartTime \in 0 .. clock /\ segments \in Seq(Segment)
    BY <1>0, PanesAssumption DEF TraceTyped
  <2>3. TraceTyped'
    <3>1. clock' \in 0 .. MaxClock /\ tracingStartTime' \in 0 .. clock'
      BY <2>1, <2>2
    <3> QED
      BY <1>0, <2>1, <3>1 DEF TraceTyped, button
  <2>4. ButtonInv'
    BY <1>0, <2>1 DEF ButtonInv, ClickKnows, button
  <2>5. SegmentsInv'
    <3>1. \A j \in 1 .. Len(segments) : segments[j].to \in Nat
      <4>1. \A j \in 1 .. Len(segments) : segments[j] \in Segment
        BY <2>2, LenProperties, ElementOfSeq
      <4> QED
        BY <4>1 DEF Segment
    <3>2. \A j \in 1 .. Len(segments) : segments[j].to =< clock => segments[j].to =< clock'
      BY <2>1, <2>2, <3>1
    <3> QED
      BY <1>0, <2>1, <3>2 DEF SegmentsInv, button
  <2> QED
    BY <2>3, <2>4, <2>5 DEF TraceInv
<1>4. ASSUME NEW i \in DOMAIN toggles, TraceServed(i) PROVE TraceInv'
  BY <1>4, ServedStep
<1>5. ASSUME NEW i \in DOMAIN toggles, TraceNotServed(i) PROVE TraceInv'
  <2>1. /\ toggles[i].state = "sent"
        /\ toggles' = [toggles EXCEPT ![i].state = "failed"]
        /\ UNCHANGED <<tracer, handler, tracing, clicks, together, lost>>
    BY <1>5 DEF TraceNotServed
  <2> DEFINE t == [toggles[i] EXCEPT !.state = "failed"]
  <2>2. toggles \in Seq(Click) /\ toggles[i] \in Click
    BY <1>0, <1>5, LenProperties, ElementOfSeq DEF TraceTyped
  <2>3. t \in Click /\ t.kind = toggles[i].kind /\ t.state = "failed"
    BY <2>2 DEF Click
  <2>4. toggles' = [toggles EXCEPT ![i] = t]
    BY <2>1
  <2> HIDE DEF t
  <2>5. /\ toggles' \in Seq(Click) /\ Len(toggles') = Len(toggles) /\ toggles'[i] = t
        /\ toggles' # <<>>
    BY <1>0, <1>5, <2>3, <2>4, ClickChanged
  <2>6. ButtonInv'
    <3> SUFFICES ASSUME ~together' PROVE Len(toggles') = 1 /\ ClickKnows(toggles[1])'
      BY <2>5 DEF ButtonInv
    <3>1. i = 1 /\ Len(toggles) = 1 /\ ClickKnows(toggles[1])
      BY <1>0, <1>5, <2>1, OnlyClick
    <3>2. toggles'[1] = t /\ Len(toggles') = 1
      BY <2>5, <3>1
    <3> QED
      BY <2>1, <2>3, <3>1, <3>2 DEF ClickKnows, tracer
  <2>7. TraceTyped'
    BY <1>0, <2>1, <2>5 DEF TraceTyped, tracer
  <2> QED
    BY <1>2, <2>1, <2>6, <2>7 DEF TraceInv
<1>6. ASSUME NEW i \in DOMAIN toggles, StatusArrives(i) PROVE TraceInv'
  <2>1. /\ toggles[i].kind = "status" /\ toggles[i].state = "served"
        /\ handler' = "online" /\ tracing' = toggles[i].value
        /\ toggles' = RemoveAt(toggles, i)
        /\ UNCHANGED <<tracer, clicks, together, lost>>
    BY <1>6 DEF StatusArrives, Toggle
  <2>2. toggles' \in Seq(Click) /\ toggles[i] \in Click /\ (Len(toggles) = 1 => toggles' = <<>>)
    BY <1>0, <1>6, <2>1, ClickGone
  <2>3. tracing' \in BOOLEAN
    BY <2>1, <2>2 DEF Click
  <2>4. TraceTyped'
    BY <1>0, <2>1, <2>2, <2>3 DEF TraceTyped, tracer
  <2>5. ButtonInv'
    <3> SUFFICES ASSUME ~together' PROVE toggles' = <<>> /\ tracing' = isTracing'
      BY DEF ButtonInv
    <3>1. i = 1 /\ Len(toggles) = 1 /\ ClickKnows(toggles[1])
      BY <1>0, <1>6, <2>1, OnlyClick
    <3>2. toggles[1].value = isTracing
      BY <2>1, <3>1 DEF ClickKnows
    <3> QED
      BY <2>1, <2>2, <3>1, <3>2 DEF tracer
  <2> QED
    BY <1>2, <2>1, <2>4, <2>5 DEF TraceInv
<1>7. ASSUME NEW i \in DOMAIN toggles, StatusFails(i) PROVE TraceInv'
  <2>1. /\ handler' = "offline" /\ tracing' = FALSE
        /\ toggles' = RemoveAt(toggles, i)
        /\ UNCHANGED <<tracer, clicks, together, lost>>
    BY <1>7 DEF StatusFails
  <2>2. toggles' \in Seq(Click) /\ (Len(toggles) = 1 => toggles' = <<>>)
    BY <1>0, <1>7, <2>1, ClickGone
  <2>3. TraceTyped'
    BY <1>0, <2>1, <2>2 DEF TraceTyped, tracer
  <2>4. ButtonInv'
    <3> SUFFICES ASSUME ~together' PROVE toggles' = <<>>
      BY <2>1 DEF ButtonInv
    <3> QED
      BY <1>0, <1>7, <2>1, <2>2, OnlyClick
  <2> QED
    BY <1>2, <2>1, <2>3, <2>4 DEF TraceInv
<1>8. CASE TraceClicked
  <2> DEFINE t == [kind |-> IF tracing THEN "end" ELSE "start",
                   state |-> "sent", value |-> FALSE]
  <2>1. /\ handler = "online" /\ clicks' = clicks + 1
        /\ toggles' = Append(toggles, t)
        /\ together' = (together \/ toggles # <<>>)
        /\ UNCHANGED <<tracer, handler, tracing, lost>>
    BY <1>8 DEF TraceClicked
  <2>2. /\ t \in Click /\ t.state = "sent" /\ t.kind # "status"
        /\ tracing <=> t.kind = "end"
    BY <1>0 DEF Click, TraceTyped
  <2> HIDE DEF t
  <2>3. /\ toggles \in Seq(Click) /\ toggles' \in Seq(Click) /\ Len(toggles) \in Nat
        /\ Len(toggles') = Len(toggles) + 1 /\ toggles'[Len(toggles) + 1] = t
    BY <1>0, <2>1, <2>2, AppendProperties, LenProperties DEF TraceTyped
  <2>4. TraceTyped'
    <3>1. together' \in BOOLEAN /\ clicks' \in Nat
      BY <1>0, <2>1 DEF TraceTyped
    <3> QED
      BY <1>0, <2>1, <2>3, <3>1 DEF TraceTyped, tracer
  <2>5. ButtonInv'
    <3> SUFFICES ASSUME ~together' PROVE toggles' # <<>> /\ Len(toggles') = 1 /\ ClickKnows(toggles[1])'
      BY DEF ButtonInv
    <3>1. ~together /\ toggles = <<>>
      BY <2>1
    <3>2. hasTracer /\ ~lost => tracing = isTracing
      BY <1>0, <2>1, <3>1 DEF ButtonInv
    <3>3. Len(toggles') = 1 /\ toggles'[1] = t /\ toggles' # <<>>
      <4>1. Len(toggles) = 0
        BY <3>1
      <4>2. Len(toggles') = 1 /\ toggles'[1] = t
        BY <2>3, <4>1
      <4>3. toggles' # <<>>
        BY <4>2
      <4> QED
        BY <4>2, <4>3
    <3> QED
      BY <2>1, <2>2, <3>2, <3>3 DEF ClickKnows, tracer
  <2> QED
    BY <1>2, <2>1, <2>4, <2>5 DEF TraceInv
<1>9. ASSUME NEW i \in DOMAIN toggles, ToggleArrives(i) PROVE TraceInv'
  <2>1. /\ toggles[i].kind # "status" /\ toggles[i].state = "served"
        /\ tracing' = (toggles[i].kind = "start")
        /\ toggles' = RemoveAt(toggles, i)
        /\ UNCHANGED <<tracer, handler, clicks, together, lost>>
    BY <1>9 DEF ToggleArrives, Toggle
  <2>2. toggles' \in Seq(Click) /\ (Len(toggles) = 1 => toggles' = <<>>)
    BY <1>0, <1>9, <2>1, ClickGone
  <2>3. tracing' \in BOOLEAN
    BY <2>1
  <2>4. TraceTyped'
    BY <1>0, <2>1, <2>2, <2>3 DEF TraceTyped, tracer
  <2>5. ButtonInv'
    <3> SUFFICES ASSUME ~together', hasTracer', ~lost' PROVE toggles' = <<>> /\ tracing' = isTracing'
      BY <1>0, <1>9, <2>1, <2>2, OnlyClick DEF ButtonInv
    <3>1. i = 1 /\ Len(toggles) = 1 /\ ClickKnows(toggles[1])
      BY <1>0, <1>9, <2>1, OnlyClick
    <3>2. isTracing <=> toggles[1].kind = "start"
      BY <2>1, <3>1 DEF ClickKnows, tracer
    <3> QED
      BY <1>0, <2>1, <2>2, <3>1, <3>2 DEF tracer, TraceTyped
  <2> QED
    BY <1>2, <2>1, <2>4, <2>5 DEF TraceInv
<1>10. ASSUME NEW i \in DOMAIN toggles, ToggleFails(i) PROVE TraceInv'
  <2>1. /\ toggles[i].kind # "status" /\ toggles[i].state # "sent"
        /\ lost' = (lost \/ toggles[i].state = "served")
        /\ toggles' = RemoveAt(toggles, i)
        /\ UNCHANGED <<tracer, handler, tracing, clicks, together>>
    BY <1>10 DEF ToggleFails, Toggle
  <2>2. toggles' \in Seq(Click) /\ (Len(toggles) = 1 => toggles' = <<>>)
    BY <1>0, <1>10, <2>1, ClickGone
  <2>3. lost' \in BOOLEAN
    BY <1>0, <2>1 DEF TraceTyped
  <2>4. TraceTyped'
    BY <1>0, <2>1, <2>2, <2>3 DEF TraceTyped, tracer
  <2>5. ButtonInv'
    <3> SUFFICES ASSUME ~together', hasTracer', ~lost' PROVE toggles' = <<>> /\ tracing' = isTracing'
      BY <1>0, <1>10, <2>1, <2>2, OnlyClick DEF ButtonInv
    <3>1. i = 1 /\ Len(toggles) = 1 /\ ClickKnows(toggles[1])
      BY <1>0, <1>10, <2>1, OnlyClick
    <3>2. isTracing <=> tracing
      BY <2>1, <3>1 DEF ClickKnows, tracer
    <3> QED
      BY <1>0, <2>1, <2>2, <3>1, <3>2 DEF tracer, TraceTyped
  <2> QED
    BY <1>2, <2>1, <2>4, <2>5 DEF TraceInv
<1>11. CASE OfflineClicked
  <2>1. /\ handler = "offline" /\ tracing' = ~tracing
        /\ UNCHANGED <<tracer, handler, toggles, clicks, together, lost>>
    BY <1>11 DEF OfflineClicked
  <2>2. tracing' \in BOOLEAN
    BY <2>1, Zenon
  <2>3. TraceTyped'
    BY <1>0, <2>1, <2>2 DEF TraceTyped, tracer
  <2>4. ButtonInv'
    BY <1>0, <2>1 DEF ButtonInv, ClickKnows, tracer
  <2> QED
    BY <1>2, <2>1, <2>3, <2>4 DEF TraceInv
<1>12. CASE Tree
  BY <1>1, <1>12 DEF Tree, Open
<1>13. CASE RightPane
  BY <1>1, <1>13 DEF RightPane, AnalyzeClicked, RefreshClicked, RefreshTimer,
     SortClicked, BuffersArrive, getProfilingResult, ProfileArrives
<1>14. CASE UNCHANGED paneVars
  BY <1>1, <1>14 DEF paneVars
<1> QED
  BY <1>3, <1>4, <1>5, <1>6, <1>7, <1>8, <1>9, <1>10, <1>11, <1>12, <1>13, <1>14
     DEF PanesNext, TraceButton

(***************************************************************************)
(* The theorems about the panes                                            *)
(***************************************************************************)
PanesInv == TreeInv /\ RightInv /\ TraceInv

LEMMA PanesInvInit == PanesInit => PanesInv
<1> SUFFICES ASSUME PanesInit PROVE PanesInv
  OBVIOUS
<1>1. TreeInv
  BY DEF PanesInit, TreeInv
<1>2. RightInv
  <2>1. /\ pane = "empty" /\ running = FALSE /\ sort = "level"
        /\ label = "Stop Refresh" /\ highlighted = "level" /\ table = NoTable
        /\ buffers = <<>> /\ profiles = 0
        /\ tableOvertaken = FALSE /\ rebuilt = FALSE
    BY DEF PanesInit
  <2>2. buffers \in Seq(Sorts)
    <3>1. buffers = <<>>
      BY <2>1
    <3>2. <<>> \in Seq(Sorts)
      OBVIOUS
    <3> QED
      BY <3>1, <3>2
  <2>3. ButtonTellsRefresh /\ TableWillFollow /\ Highlights
    BY <2>1 DEF ButtonTellsRefresh, TableWillFollow, Highlights
  <2> QED
    BY <2>1, <2>2, <2>3 DEF RightInv, Sorts
<1>3. TraceTyped
  <2>1. MaxClock \in Nat
    BY PanesAssumption
  <2>2. /\ hasTracer \in BOOLEAN /\ isTracing \in BOOLEAN /\ tracing = FALSE
        /\ tracingStartTime = 0 /\ segments = <<>> /\ clock = 0
        /\ handler = "none" /\ clicks = 0 /\ together = FALSE /\ lost = FALSE
        /\ toggles = <<[kind |-> "status", state |-> "sent", value |-> FALSE]>>
    BY DEF PanesInit
  <2>3. toggles \in Seq(Click)
    BY <2>2 DEF Click
  <2>4. segments \in Seq(Segment)
    BY <2>2
  <2>5. clock \in 0 .. MaxClock /\ tracingStartTime \in 0 .. clock /\ clicks \in Nat
    BY <2>1, <2>2
  <2> QED
    BY <2>2, <2>3, <2>4, <2>5 DEF TraceTyped
<1>4. ButtonInv
  <2>1. /\ toggles = <<[kind |-> "status", state |-> "sent", value |-> FALSE]>>
        /\ handler = "none"
    BY DEF PanesInit
  <2>2. toggles # <<>> /\ Len(toggles) = 1 /\ toggles[1].kind = "status" /\ toggles[1].state = "sent"
    BY <2>1
  <2> QED
    BY <2>1, <2>2 DEF ButtonInv, ClickKnows
<1>5. SegmentsInv
  <2>1. segments = <<>> /\ Len(<<>>) = 0
    BY DEF PanesInit
  <2> QED
    BY <2>1 DEF SegmentsInv
<1> QED
  BY <1>1, <1>2, <1>3, <1>4, <1>5 DEF PanesInv, TraceInv

\* The inductive invariant of the tree, the right pane and the trace button.
LEMMA PanesInvHolds == PanesSpec => []PanesInv
<1>1. PanesInv /\ [PanesNext]_paneVars => PanesInv'
  BY TreeInvStep, RightInvStep, TraceInvStep DEF PanesInv
<1> QED
  BY <1>1, PanesInvInit, PTL DEF PanesSpec

\* The tree opens components only, and every one of them that is not the
\* beginning of another's name; the button that stops the refreshing and the
\* order of the analyzer's table tell the truth, for any set of components
\* and any number of answers on their way.
THEOREM PanesStayAgreed == PanesSpec => []PanesAgree
<1>1. RightInv => ButtonTellsRefresh /\ TableFollowsSort
  BY DEF RightInv, TableWillFollow, Highlights, TableFollowsSort
<1>2. PanesInv => PanesAgree
  BY <1>1, TreeInvTells DEF PanesInv, PanesAgree
<1> QED
  BY <1>2, PanesInvHolds, PTL

\* The trace button tells whether the server traces, and the segments the
\* server records do not overlap, for any number of clicks.
THEOREM TracingStaysAgreed == PanesSpec => []TracingAgrees
<1>1. TraceInv => ButtonTellsTracing
  BY DEF TraceInv, ButtonInv, ButtonTellsTracing
<1>2. TraceInv => SegmentsDisjoint
  BY DEF TraceInv, SegmentsInv, SegmentsDisjoint
<1>3. PanesInv => TracingAgrees
  BY <1>1, <1>2 DEF PanesInv, TracingAgrees
<1> QED
  BY <1>3, PanesInvHolds, PTL

\* Every variable of these panes keeps its type.
THEOREM PanesStayTyped == PanesSpec => []PanesTypeOK
<1>1. PanesInv => PanesTypeOK
  BY DEF PanesInv, TreeInv, RightInv, TraceInv, TraceTyped, PanesTypeOK, Click, Segment
<1> QED
  BY <1>1, PanesInvHolds, PTL

(***************************************************************************)
(* The engine the monitor pauses, continues and asks to tick               *)
(***************************************************************************)

\* Where a runner holds pauseLock: from nextEvent to the end of the turn.
InTurn == {"peek", "pop", "handle", "handler", "tick", "unlock", "crashed"}

\* The strengthening of PausedMeansStill: pauseLock is the lock of one turn or
\* of one pause.  isPaused is a variable of its own, so that the lock belongs
\* to a request whenever it is set has to be carried along.
PauseInv ==
  /\ DOMAIN rpc = Runners
  /\ \A r \in Runners : rpc[r] \in InTurn => pauseLock = r
  /\ isPaused => pauseLock \in Requests

LEMMA PauseInvInit == EngineInit => PauseInv
  BY DEF EngineInit, PauseInv, InTurn

\* The steps that leave the locks and the places of the runners alone.
LEMMA PauseInvKept ==
  PauseInv /\ UNCHANGED <<rpc, pauseLock, isPaused>> => PauseInv'
  BY DEF PauseInv

\* A runner's step keeps the lock with the turn it belongs to.
LEMMA PauseInvRunner ==
  ASSUME PauseInv, NEW r \in Runners, RunRequested(r) \/ RunStep(r)
  PROVE  PauseInv'
<1> USE DEF PauseInv, InTurn, Goto
<1> USE EngineAssumption
\* The steps outside a turn, which must not begin inside one.
<1>1. CASE RunRequested(r) \/ RunStart(r) \/ RunEnd(r)
  BY <1>1 DEF RunRequested, RunStart, RunEnd, pausing
\* The turn begins with the lock, which nobody held: no other runner is in a
\* turn, and nothing is paused.
<1>2. CASE RunLock(r)
  BY <1>2 DEF RunLock
\* The turn goes on.
<1>3. CASE \/ Peek(r) \/ Pop(r) \/ Crash(r) \/ Handle(r) \/ HandlerDone(r)
           \/ HandlerSchedules(r) \/ HandlerTicks(r) \/ TickLater(r)
  <2>1. UNCHANGED <<pauseLock, isPaused>>
    BY <1>3 DEF Peek, Pop, Crash, Handle, HandlerDone, HandlerSchedules,
                HandlerTicks, TickLater, pausing
  <2>2. \E here, there \in InTurn : Goto(r, here, there)
    <3>1. CASE Peek(r) \/ Pop(r)
      BY <3>1 DEF Peek, Pop
    <3>2. CASE Crash(r) \/ Handle(r) \/ HandlerDone(r)
      BY <3>2 DEF Crash, Handle, HandlerDone
    <3>3. CASE HandlerSchedules(r) \/ HandlerTicks(r) \/ TickLater(r)
      BY <3>3 DEF HandlerSchedules, HandlerTicks, TickLater
    <3> QED
      BY <1>3, <3>1, <3>2, <3>3
  <2> QED
    BY <2>1, <2>2
\* The turn ends with the lock, which was this runner's and no request's.
<1>4. CASE RunUnlock(r)
  BY <1>4 DEF RunUnlock
<1> QED
  BY <1>1, <1>2, <1>3, <1>4 DEF RunStep

\* A request's step gives the lock to itself or takes it back from a pause.
LEMMA PauseInvRequest ==
  ASSUME PauseInv, NEW h \in Requests,
         \/ PauseRequested(h) \/ ContinueRequested(h) \/ TickRequested(h)
         \/ RequestStep(h)
  PROVE  PauseInv'
<1>1. CASE \/ PauseRequested(h) \/ ContinueRequested(h) \/ TickRequested(h)
           \/ ScheduleChecks(h) \/ SchedulePushes(h)
  <2>1. UNCHANGED <<rpc, pauseLock, isPaused>>
    BY <1>1 DEF PauseRequested, ContinueRequested, TickRequested,
                ScheduleChecks, SchedulePushes, pausing, runner
  <2> QED
    BY <2>1, PauseInvKept
<1>2. CASE PauseEnter(h)
  BY <1>2, PauseInvKept DEF PauseEnter, runner
<1>3. CASE Pause(h)
  BY <1>3, EngineAssumption DEF Pause, runner, PauseInv
<1>4. CASE Continue(h)
  BY <1>4, EngineAssumption DEF Continue, runner, PauseInv
<1> QED
  BY <1>1, <1>2, <1>3, <1>4 DEF RequestStep

LEMMA PauseInvStep == PauseInv /\ [EngineNext]_engineVars => PauseInv'
<1> SUFFICES ASSUME PauseInv, [EngineNext]_engineVars PROVE PauseInv'
  OBVIOUS
<1>1. CASE UNCHANGED engineVars
  BY <1>1, PauseInvKept DEF engineVars, pausing, runner
<1>2. CASE EngineNext
  BY <1>2, PauseInvRunner, PauseInvRequest DEF EngineNext, Buttons
<1> QED
  BY <1>1, <1>2

\* pauseLock is held by the turn of one runner or, while the engine is paused,
\* by the request that paused it.
THEOREM PauseInvHolds == EngineSpec => []PauseInv
  BY PauseInvInit, PauseInvStep, PTL DEF EngineSpec

\* Handle is the only step that moves the time or handles an event, and it is
\* a step of a turn: a paused engine has no turn.
LEMMA PausedStep ==
  PauseInv /\ [EngineNext]_engineVars
    => (isPaused /\ isPaused' => UNCHANGED <<time, handled>>)
<1> SUFFICES ASSUME PauseInv, [EngineNext]_engineVars, isPaused
             PROVE  UNCHANGED <<time, handled>>
  OBVIOUS
<1>1. CASE UNCHANGED engineVars
  BY <1>1 DEF engineVars, history
<1>2. CASE Buttons
  BY <1>2 DEF Buttons, RunRequested, PauseRequested, ContinueRequested,
              TickRequested, history
<1>3. ASSUME NEW r \in Runners, RunStep(r) PROVE UNCHANGED <<time, handled>>
  <2>1. ~Handle(r)
    BY EngineAssumption DEF PauseInv, InTurn, Handle, Goto
  <2>2. CASE RunStart(r) \/ RunEnd(r) \/ RunLock(r) \/ Peek(r) \/ Pop(r)
             \/ Crash(r)
    BY <2>2 DEF RunStart, RunEnd, RunLock, Peek, Pop, Crash, history
  <2>3. CASE HandlerDone(r) \/ HandlerSchedules(r) \/ HandlerTicks(r)
             \/ TickLater(r) \/ RunUnlock(r)
    BY <2>3 DEF HandlerDone, HandlerSchedules, HandlerTicks, TickLater,
                RunUnlock, history
  <2> QED
    BY <1>3, <2>1, <2>2, <2>3 DEF RunStep
<1>4. ASSUME NEW h \in Requests, RequestStep(h) PROVE UNCHANGED <<time, handled>>
  BY <1>4 DEF RequestStep, PauseEnter, Pause, Continue, ScheduleChecks,
              SchedulePushes, history
<1> QED
  BY <1>1, <1>2, <1>3, <1>4 DEF EngineNext

\* Between a Pause that returned and the next Continue nothing is handled,
\* whatever is requested and however many goroutines run the engine.
THEOREM PauseStopsTheEngine == EngineSpec => PausedMeansStill
  BY PauseInvHolds, PausedStep, PTL DEF EngineSpec, PausedMeansStill

(***************************************************************************)
(* Events and ticks                                                        *)
(***************************************************************************)
Waiting == queue \cup secondaryQueue
Waits(i) == \E e \in Waiting : e.id = i
Handling == \E r \in Runners : rpc[r] = "handle"
Taken(i) == picked.id = i /\ Handling

\* A request between the two halves of TickLater holds its ticker's lock.
TickerInv ==
  \A h \in Requests : hpc[h] \in MidTick =>
    /\ hcomp[h] \in Comps /\ lock[hcomp[h]] = h
    /\ nextTickTime[hcomp[h]] = hat[h]

\* What the absence of disturbance means: no such request during a turn.
QuietInv ==
  /\ pauseLock \in Runners => \A h \in Requests : hpc[h] \notin MidTick
  /\ \A h \in Requests : hpc[h] \in MidTick => hat[h] >= time

\* Each event waits in the queue of its class, under its own number, and no
\* event is late.
QueueInv ==
  /\ \A e \in queue : ~e.secondary
  /\ \A e \in secondaryQueue : e.secondary
  /\ \A e, f \in Waiting : e.id = f.id => e = f
  /\ \A e \in Waiting : e.id \in 1 .. scheduled /\ e.at >= time

\* Each event made is in one place, and the others are not handled.
PlaceInv ==
  /\ \A i \in 1 .. MaxEvents : i > scheduled => handled[i] = 0
  /\ \A i \in 1 .. scheduled :
       \/ handled[i] = 0 /\ (Waits(i) <=> ~Taken(i))
       \/ handled[i] = 1 /\ ~Waits(i) /\ ~Taken(i)

\* The event that was peeked comes before all that wait.
Foremost ==
  /\ picked.id \in 1 .. scheduled /\ picked.at >= time
  /\ \A e \in Waiting : picked.at =< e.at
  /\ picked.secondary => \A e \in queue : picked.at < e.at

PickInv ==
  \A r \in Runners :
    /\ rpc[r] \in {"pop", "handle"} => Foremost
    /\ rpc[r] = "pop" => picked \in Waiting

\* The tick a component counts on waits or is the event in hand.
Awaited(c) ==
  \/ \E e \in queue : e.comp = c /\ e.at = nextTickTime[c]
  \/ Handling /\ picked.comp = c /\ picked.at = nextTickTime[c]
WakeInv ==
  \A c \in Comps : nextTickTime[c] > time /\ lock[c] = Nobody => Awaited(c)

Undisturbed ==
  /\ QuietInv /\ QueueInv /\ PlaceInv /\ PickInv /\ WakeInv
  /\ NothingInThePast

\* The strengthening of EventsAndTicksKept.
EngineInv ==
  /\ EngineTypeOK /\ PauseInv /\ TickerInv /\ scheduled =< MaxEvents
  /\ ~disturbed => Undisturbed

\* The first tick of one component is the only event there is.
LEMMA EngineInvInit == EngineInit => EngineInv
<1> SUFFICES ASSUME EngineInit PROVE EngineInv
  OBVIOUS
<1> USE EngineAssumption
<1>1. EngineTypeOK
  <2>1. /\ queue \in SUBSET Event /\ secondaryQueue \in SUBSET Event
        /\ picked \in Event /\ nextTickTime \in [Comps -> Int]
    BY DEF EngineInit, Event, NoEvent
  <2> QED
    BY <2>1 DEF EngineInit, EngineTypeOK
<1>2. TickerInv /\ QuietInv /\ scheduled =< MaxEvents
  BY DEF EngineInit, TickerInv, QuietInv, MidTick
<1>3. PICK c \in Comps :
        /\ queue = {[id |-> 1, at |-> 1, comp |-> c, secondary |-> FALSE]}
        /\ nextTickTime = [d \in Comps |-> IF d = c THEN 1 ELSE -1]
  BY DEF EngineInit
<1>4. /\ secondaryQueue = {} /\ time = 0 /\ scheduled = 1 /\ ~Handling
      /\ handled = [i \in 1 .. MaxEvents |-> 0]
      /\ \A r \in Runners : rpc[r] = "none"
      /\ \A h \in Requests : hpc[h] = "none"
  BY DEF EngineInit, Handling
<1>5. QueueInv
  BY <1>3, <1>4 DEF QueueInv, Waiting
<1>6. PlaceInv
  BY <1>3, <1>4 DEF PlaceInv, Waits, Waiting, Taken
<1>7. PickInv /\ NothingInThePast
  BY <1>4 DEF PickInv, NothingInThePast, Alive
<1>8. WakeInv
  BY <1>3, <1>4 DEF WakeInv, Awaited
<1> QED
  BY <1>1, <1>2, <1>5, <1>6, <1>7, <1>8, PauseInvInit DEF EngineInv, Undisturbed

\* A function keeps its type under EXCEPT, inside its domain or not.
LEMMA ExceptTyped ==
  ASSUME NEW S, NEW T, NEW f \in [S -> T], NEW x, NEW y, x \in S => y \in T
  PROVE  [f EXCEPT ![x] = y] \in [S -> T]
<1>1. CASE x \in S
  BY <1>1
<1>2. CASE x \notin S
  BY <1>2
<1> QED
  BY <1>1, <1>2

\* What TakenOff leaves was there.
LEMMA TakenOffLeaves == ASSUME NEW q PROVE TakenOff(q) \subseteq q
  BY DEF TakenOff

\* What is pushed is an event.
LEMMA PushTyped ==
  ASSUME EngineTypeOK, NEW at \in Nat, NEW c \in Comps \cup {Nobody},
         NEW b \in BOOLEAN, PushNew(at, c, b)
  PROVE  /\ queue' \in SUBSET Event /\ secondaryQueue' \in SUBSET Event
         /\ scheduled' \in Nat /\ scheduled' =< MaxEvents
<1> DEFINE e == [id |-> scheduled + 1, at |-> at, comp |-> c, secondary |-> b]
<1>1. e \in Event
  BY DEF EngineTypeOK, Event
<1>2. /\ scheduled < MaxEvents /\ scheduled' = scheduled + 1
      /\ \/ secondaryQueue' = secondaryQueue \cup {e} /\ UNCHANGED queue
         \/ queue' = queue \cup {e} /\ UNCHANGED secondaryQueue
  BY DEF PushNew
<1> HIDE DEF e
<1> QED
  BY <1>1, <1>2, EngineAssumption DEF EngineTypeOK

\* Every step keeps the types and the bound of the events.
LEMMA EngineTypeStep ==
  ASSUME EngineTypeOK, TickerInv, scheduled =< MaxEvents,
         [EngineNext]_engineVars
  PROVE  EngineTypeOK' /\ scheduled' =< MaxEvents
<1> USE EngineAssumption
<1>1. CASE UNCHANGED engineVars
  BY <1>1 DEF engineVars, queues, pausing, tickers, runner, request, history,
              EngineTypeOK
<1>2. ASSUME NEW r \in Runners, RunRequested(r) \/ RunStart(r) \/ RunEnd(r)
      PROVE  EngineTypeOK' /\ scheduled' =< MaxEvents
  BY <1>2 DEF RunRequested, RunStart, RunEnd, Goto, queues, pausing, tickers,
              runner, request, history, EngineTypeOK
<1>3. ASSUME NEW r \in Runners, RunLock(r) \/ RunUnlock(r)
      PROVE  EngineTypeOK' /\ scheduled' =< MaxEvents
  <2>1. NoEvent \in Event
    BY DEF Event, NoEvent
  <2> QED
    BY <1>3, <2>1 DEF RunLock, RunUnlock, Goto, queues, pausing, tickers,
              runner, request, history, EngineTypeOK
<1>4. ASSUME NEW r \in Runners, Peek(r) \/ Pop(r)
      PROVE  EngineTypeOK' /\ scheduled' =< MaxEvents
  <2>1. queue' \subseteq queue /\ secondaryQueue' \subseteq secondaryQueue
    BY <1>4, TakenOffLeaves DEF Peek, Pop, queues
  <2>2. picked' \in Event
    BY <1>4 DEF Peek, Pop, Earliest, EngineTypeOK
  <2> QED
    BY <1>4, <2>1, <2>2 DEF Peek, Pop, Goto, queues, pausing, tickers,
              runner, request, history, EngineTypeOK
<1>5. ASSUME NEW r \in Runners, Crash(r) \/ HandlerDone(r) \/ HandlerTicks(r)
      PROVE  EngineTypeOK' /\ scheduled' =< MaxEvents
  <2>1. picked' \in Event
    <3>1. CASE HandlerTicks(r)
      <4>1. PICK c \in Comps : picked' = [NoEvent EXCEPT !.comp = c]
        BY <3>1 DEF HandlerTicks
      <4>2. picked' = [id |-> 0, at |-> 0, comp |-> c, secondary |-> FALSE]
        BY <4>1 DEF NoEvent
      <4> QED
        BY <4>2 DEF Event
    <3>2. CASE Crash(r) \/ HandlerDone(r)
      BY <3>2 DEF Crash, HandlerDone, EngineTypeOK
    <3> QED
      BY <1>5, <3>1, <3>2
  <2> QED
    BY <1>5, <2>1 DEF Crash, HandlerDone, HandlerTicks, Goto, queues, pausing,
              tickers, runner, request, history, EngineTypeOK
<1>6. ASSUME NEW r \in Runners, Handle(r)
      PROVE  EngineTypeOK' /\ scheduled' =< MaxEvents
  <2>1. time' \in Nat /\ handled' \in [1 .. MaxEvents -> Nat]
    <3>1. /\ handled \in [1 .. MaxEvents -> Nat]
          /\ picked.id \in Nat /\ picked.at \in Nat
      BY DEF EngineTypeOK, Event
    <3>2. /\ time' = picked.at
          /\ handled' = [handled EXCEPT ![picked.id] = @ + 1]
      BY <1>6 DEF Handle
    <3>3. PICK n : n = handled[picked.id] + 1
      OBVIOUS
    <3>4. picked.id \in 1 .. MaxEvents => n \in Nat
      BY <3>1, <3>3
    <3>5. [handled EXCEPT ![picked.id] = n] \in [1 .. MaxEvents -> Nat]
      BY <3>1, <3>4, ExceptTyped
    <3> QED
      BY <3>1, <3>2, <3>3, <3>5
  <2> QED
    BY <1>6, <2>1 DEF Handle, Goto, queues, pausing, tickers, runner, request,
              history, EngineTypeOK
<1>7. ASSUME NEW r \in Runners, HandlerSchedules(r)
      PROVE  EngineTypeOK' /\ scheduled' =< MaxEvents
  <2>1. PICK d \in 0 .. 2, b \in BOOLEAN : PushNew(time + d, Nobody, b)
    BY <1>7 DEF HandlerSchedules
  <2>2. time + d \in Nat
    BY DEF EngineTypeOK
  <2>3. /\ queue' \in SUBSET Event /\ secondaryQueue' \in SUBSET Event
        /\ scheduled' \in Nat /\ scheduled' =< MaxEvents
    BY <2>1, <2>2, PushTyped
  <2> QED
    BY <1>7, <2>3 DEF HandlerSchedules, Goto, pausing, tickers, runner,
              request, history, EngineTypeOK
<1>8. ASSUME NEW r \in Runners, TickLater(r)
      PROVE  EngineTypeOK' /\ scheduled' =< MaxEvents
  <2>1. /\ queue' \in SUBSET Event /\ secondaryQueue' \in SUBSET Event
        /\ scheduled' \in Nat /\ scheduled' =< MaxEvents
        /\ nextTickTime' \in [Comps -> Int]
    <3>1. NextTick \in Nat /\ picked.comp \in Comps \cup {Nobody}
      BY DEF NextTick, EngineTypeOK, Event
    <3>2. CASE nextTickTime[picked.comp] >= NextTick
      BY <1>8, <3>2 DEF TickLater, queues, EngineTypeOK
    <3>3. CASE ~(nextTickTime[picked.comp] >= NextTick)
      <4>1. /\ PushNew(NextTick, picked.comp, FALSE)
            /\ nextTickTime' = [nextTickTime EXCEPT ![picked.comp] = NextTick]
        BY <1>8, <3>3 DEF TickLater
      <4>2. /\ queue' \in SUBSET Event /\ secondaryQueue' \in SUBSET Event
            /\ scheduled' \in Nat /\ scheduled' =< MaxEvents
        BY <3>1, <4>1, PushTyped
      <4>3. nextTickTime' \in [Comps -> Int]
        <5>1. nextTickTime \in [Comps -> Int]
          BY DEF EngineTypeOK
        <5> QED
          BY <3>1, <4>1, <5>1, ExceptTyped
      <4> QED
        BY <4>2, <4>3
    <3> QED
      BY <3>2, <3>3
  <2> QED
    BY <1>8, <2>1 DEF TickLater, Goto, pausing, tickers, runner, request,
              history, EngineTypeOK
<1>9. ASSUME NEW h \in Requests,
             PauseRequested(h) \/ ContinueRequested(h) \/ ScheduleChecks(h)
      PROVE  EngineTypeOK' /\ scheduled' =< MaxEvents
  BY <1>9 DEF PauseRequested, ContinueRequested, ScheduleChecks, Disturbing,
              HGoto, queues, pausing, tickers, runner, request, history,
              EngineTypeOK
<1>10. ASSUME NEW h \in Requests, PauseEnter(h) \/ Pause(h) \/ Continue(h)
       PROVE  EngineTypeOK' /\ scheduled' =< MaxEvents
  BY <1>10 DEF PauseEnter, Pause, Continue, HGoto, queues, pausing, tickers,
               runner, request, history, EngineTypeOK
<1>11. ASSUME NEW h \in Requests, TickRequested(h)
       PROVE  EngineTypeOK' /\ scheduled' =< MaxEvents
  <2>1. NextTick \in Nat
    BY DEF NextTick, EngineTypeOK
  <2>2. PICK c \in Comps :
          /\ \/ HGoto(h, "none", "none") /\ UNCHANGED <<hcomp, hat, tickers>>
             \/ /\ HGoto(h, "none", "check")
                /\ hcomp' = [hcomp EXCEPT ![h] = c]
                /\ hat' = [hat EXCEPT ![h] = NextTick]
                /\ nextTickTime' = [nextTickTime EXCEPT ![c] = NextTick]
                /\ lock' = [lock EXCEPT ![c] = h]
          /\ Disturbing
          /\ UNCHANGED <<time, queues, pausing, runner, scheduled, handled>>
    BY <1>11 DEF TickRequested
  <2>3. disturbed' \in BOOLEAN
    BY <2>2 DEF Disturbing, EngineTypeOK
  <2>4. /\ nextTickTime' \in [Comps -> Int]
        /\ lock' \in [Comps -> Requests \cup {Nobody}]
        /\ hcomp' \in [Requests -> Comps \cup {Nobody}]
        /\ hat' \in [Requests -> Nat]
    <3>1. /\ nextTickTime \in [Comps -> Int]
          /\ lock \in [Comps -> Requests \cup {Nobody}]
          /\ hcomp \in [Requests -> Comps \cup {Nobody}]
          /\ hat \in [Requests -> Nat]
      BY DEF EngineTypeOK
    <3> QED
      BY <2>1, <2>2, <3>1 DEF tickers
  <2>5. hpc' \in [Requests -> {"none", "pause", "pausing", "continue", "check",
                              "push", "dead"}]
    BY <2>2 DEF HGoto, EngineTypeOK
  <2> QED
    BY <2>2, <2>3, <2>4, <2>5 DEF queues, pausing, runner, EngineTypeOK
<1>12. ASSUME NEW h \in Requests, SchedulePushes(h)
       PROVE  EngineTypeOK' /\ scheduled' =< MaxEvents
  <2>1. hat[h] \in Nat /\ hcomp[h] \in Comps \cup {Nobody}
    BY DEF EngineTypeOK
  <2>2. /\ queue' \in SUBSET Event /\ secondaryQueue' \in SUBSET Event
        /\ scheduled' \in Nat /\ scheduled' =< MaxEvents
    BY <1>12, <2>1, PushTyped DEF SchedulePushes
  <2> QED
    BY <1>12, <2>2 DEF SchedulePushes, Disturbing, HGoto, pausing, tickers,
               runner, request, history, EngineTypeOK
<1> QED
  BY <1>1, <1>2, <1>3, <1>4, <1>5, <1>6, <1>7, <1>8, <1>9, <1>10, <1>11, <1>12
  DEF EngineNext, Buttons, RunStep, RequestStep

\* The locks of the tickers: a request between the two halves of TickLater
\* keeps everybody else from the ticker.
LEMMA TickerStep ==
  ASSUME EngineTypeOK, TickerInv, [EngineNext]_engineVars
  PROVE  TickerInv'
<1> USE EngineAssumption
<1>1. ASSUME UNCHANGED <<hpc, hcomp, hat, lock, nextTickTime>>
      PROVE  TickerInv'
  BY <1>1 DEF TickerInv
<1>2. CASE UNCHANGED engineVars
  BY <1>1, <1>2 DEF engineVars, request, tickers
<1>3. ASSUME NEW r \in Runners, RunRequested(r) \/ RunStep(r), ~TickLater(r)
      PROVE  TickerInv'
  <2>1. CASE RunRequested(r) \/ RunStart(r) \/ RunEnd(r) \/ RunLock(r)
             \/ RunUnlock(r)
    BY <1>1, <2>1 DEF RunRequested, RunStart, RunEnd, RunLock, RunUnlock,
                      request, tickers
  <2>2. CASE Peek(r) \/ Pop(r) \/ Crash(r) \/ Handle(r)
    BY <1>1, <2>2 DEF Peek, Pop, Crash, Handle, request, tickers
  <2>3. CASE HandlerDone(r) \/ HandlerSchedules(r) \/ HandlerTicks(r)
    BY <1>1, <2>3 DEF HandlerDone, HandlerSchedules, HandlerTicks, request,
                      tickers
  <2> QED
    BY <1>3, <2>1, <2>2, <2>3 DEF RunStep
<1>4. ASSUME NEW r \in Runners, TickLater(r) PROVE TickerInv'
  <2>1. /\ UNCHANGED <<hpc, hcomp, hat, lock>>
        /\ lock[picked.comp] = Nobody
        /\ \/ UNCHANGED nextTickTime
           \/ nextTickTime' = [nextTickTime EXCEPT ![picked.comp] = NextTick]
    BY <1>4 DEF TickLater, request
  <2>2. ASSUME NEW h \in Requests, hpc[h] \in MidTick
        PROVE  nextTickTime'[hcomp[h]] = nextTickTime[hcomp[h]]
    <3>1. hcomp[h] \in Comps /\ hcomp[h] # picked.comp
      BY <2>1, <2>2 DEF TickerInv
    <3> QED
      BY <2>1, <3>1 DEF EngineTypeOK
  <2> QED
    BY <2>1, <2>2 DEF TickerInv
<1>5. ASSUME NEW h \in Requests,
             PauseRequested(h) \/ ContinueRequested(h) \/ PauseEnter(h)
               \/ Pause(h) \/ Continue(h)
      PROVE  TickerInv'
  <2>1. /\ UNCHANGED <<hcomp, hat, lock, nextTickTime>>
        /\ \E to \in {"none", "pause", "pausing", "continue"} :
             hpc' = [hpc EXCEPT ![h] = to]
    BY <1>5 DEF PauseRequested, ContinueRequested, PauseEnter, Pause, Continue,
                HGoto, tickers
  <2> QED
    BY <2>1 DEF TickerInv, MidTick, EngineTypeOK
<1>6. ASSUME NEW h \in Requests, ScheduleChecks(h) PROVE TickerInv'
  <2>1. /\ UNCHANGED <<hcomp, hat, lock, nextTickTime>> /\ hpc[h] = "check"
        /\ \E to \in {"push", "dead"} : hpc' = [hpc EXCEPT ![h] = to]
    BY <1>6 DEF ScheduleChecks, HGoto, tickers
  <2> QED
    BY <2>1 DEF TickerInv, MidTick, EngineTypeOK
<1>7. ASSUME NEW h \in Requests, TickRequested(h) PROVE TickerInv'
  <2>1. PICK c \in Comps :
          /\ lock[c] = Nobody
          /\ \/ HGoto(h, "none", "none") /\ UNCHANGED <<hcomp, hat, tickers>>
             \/ /\ HGoto(h, "none", "check")
                /\ hcomp' = [hcomp EXCEPT ![h] = c]
                /\ hat' = [hat EXCEPT ![h] = NextTick]
                /\ nextTickTime' = [nextTickTime EXCEPT ![c] = NextTick]
                /\ lock' = [lock EXCEPT ![c] = h]
    BY <1>7 DEF TickRequested
  <2>2. CASE HGoto(h, "none", "none") /\ UNCHANGED <<hcomp, hat, tickers>>
    BY <2>2 DEF TickerInv, HGoto, MidTick, EngineTypeOK, tickers
  <2>3. CASE /\ HGoto(h, "none", "check")
             /\ hcomp' = [hcomp EXCEPT ![h] = c]
             /\ hat' = [hat EXCEPT ![h] = NextTick]
             /\ nextTickTime' = [nextTickTime EXCEPT ![c] = NextTick]
             /\ lock' = [lock EXCEPT ![c] = h]
    <3>1. ASSUME NEW g \in Requests, g # h, hpc[g] \in MidTick
          PROVE  /\ hcomp'[g] = hcomp[g] /\ hat'[g] = hat[g]
                 /\ hcomp[g] \in Comps
                 /\ lock'[hcomp[g]] = lock[hcomp[g]]
                 /\ nextTickTime'[hcomp[g]] = nextTickTime[hcomp[g]]
      <4>1. hcomp[g] \in Comps /\ hcomp[g] # c
        BY <2>1, <3>1 DEF TickerInv
      <4> QED
        BY <2>3, <3>1, <4>1 DEF EngineTypeOK
    <3>2. hcomp'[h] = c /\ lock'[c] = h /\ nextTickTime'[c] = hat'[h]
      BY <2>3 DEF EngineTypeOK
    <3>3. \A g \in Requests : g # h => hpc'[g] = hpc[g]
      BY <2>3 DEF HGoto, EngineTypeOK
    <3> QED
      BY <3>1, <3>2, <3>3 DEF TickerInv
  <2> QED
    BY <2>1, <2>2, <2>3
<1>8. ASSUME NEW h \in Requests, SchedulePushes(h) PROVE TickerInv'
  <2>1. /\ HGoto(h, "push", "none") /\ UNCHANGED nextTickTime
        /\ lock' = [lock EXCEPT ![hcomp[h]] = Nobody]
        /\ hcomp' = [hcomp EXCEPT ![h] = Nobody]
        /\ hat' = [hat EXCEPT ![h] = 0]
    BY <1>8 DEF SchedulePushes
  <2>2. hcomp[h] \in Comps /\ lock[hcomp[h]] = h
    BY <2>1 DEF TickerInv, HGoto, MidTick
  <2>3. ASSUME NEW g \in Requests, g # h, hpc[g] \in MidTick
        PROVE  /\ hcomp'[g] = hcomp[g] /\ hat'[g] = hat[g]
               /\ hcomp[g] \in Comps
               /\ lock'[hcomp[g]] = lock[hcomp[g]]
    <3>1. hcomp[g] \in Comps /\ hcomp[g] # hcomp[h]
      BY <2>2, <2>3 DEF TickerInv
    <3> QED
      BY <2>1, <2>3, <3>1 DEF EngineTypeOK
  <2>4. hpc'[h] = "none" /\ \A g \in Requests : g # h => hpc'[g] = hpc[g]
    BY <2>1 DEF HGoto, EngineTypeOK
  <2> QED
    BY <2>1, <2>3, <2>4 DEF TickerInv, MidTick
<1> QED
  BY <1>2, <1>3, <1>4, <1>5, <1>6, <1>7, <1>8
  DEF EngineNext, Buttons, RunStep, RequestStep

\* A disturbance is remembered.
LEMMA DisturbedStays ==
  ASSUME EngineTypeOK, [EngineNext]_engineVars, disturbed PROVE disturbed'
<1>1. CASE UNCHANGED engineVars
  BY <1>1 DEF engineVars, history
<1>2. ASSUME NEW r \in Runners, RunRequested(r) \/ RunStep(r) PROVE disturbed'
  BY <1>2 DEF RunRequested, RunStep, RunStart, RunEnd, RunLock, Peek, Pop,
              Crash, Handle, HandlerDone, HandlerSchedules, HandlerTicks,
              TickLater, RunUnlock, history
<1>3. ASSUME NEW h \in Requests,
             \/ PauseRequested(h) \/ ContinueRequested(h) \/ TickRequested(h)
             \/ RequestStep(h)
      PROVE  disturbed'
  BY <1>3 DEF PauseRequested, ContinueRequested, TickRequested, RequestStep,
              PauseEnter, Pause, Continue, ScheduleChecks, SchedulePushes,
              Disturbing, history
<1> QED
  BY <1>1, <1>2, <1>3 DEF EngineNext, Buttons

\* Only one runner is in its turn.
LEMMA OneTurn ==
  ASSUME PauseInv, NEW r \in Runners, rpc[r] \in InTurn,
         NEW s \in Runners, s # r
  PROVE  rpc[s] \notin InTurn
  BY DEF PauseInv

\* No event is in anybody's hand.
Idle == \A r \in Runners : rpc[r] \notin {"pop", "handle"}

\* A step that moves no event.
LEMMA EventsUnmoved ==
  ASSUME QueueInv, PlaceInv, PickInv,
         UNCHANGED <<time, queue, secondaryQueue, scheduled, handled>>,
         \A r \in Runners : /\ rpc'[r] = "pop" <=> rpc[r] = "pop"
                            /\ rpc'[r] = "handle" <=> rpc[r] = "handle",
         picked' = picked \/ Idle
  PROVE  /\ QueueInv' /\ PlaceInv' /\ PickInv'
         /\ \A c \in Comps :
              nextTickTime'[c] = nextTickTime[c] /\ Awaited(c) => Awaited(c)'
<1>1. Waiting' = Waiting /\ (Handling' <=> Handling)
  BY DEF Waiting, Handling
<1>2. QueueInv'
  BY <1>1 DEF QueueInv
<1>3. \A i : /\ Waits(i)' <=> Waits(i)
             /\ Taken(i)' <=> Taken(i)
  BY <1>1 DEF Waits, Taken, Idle, Handling
<1>4. PlaceInv'
  BY <1>3 DEF PlaceInv
<1>5. PickInv'
  <2>1. CASE picked' = picked
    <3>1. Foremost' <=> Foremost
      BY <1>1, <2>1 DEF Foremost
    <3> QED
      BY <1>1, <2>1, <3>1 DEF PickInv
  <2>2. CASE Idle
    BY <2>2 DEF Idle, PickInv
  <2> QED
    BY <2>1, <2>2
<1>6. ASSUME NEW c \in Comps, nextTickTime'[c] = nextTickTime[c], Awaited(c)
      PROVE  Awaited(c)'
  <2>1. CASE \E e \in queue : e.comp = c /\ e.at = nextTickTime[c]
    BY <1>6, <2>1 DEF Awaited
  <2>2. CASE Handling /\ picked.comp = c /\ picked.at = nextTickTime[c]
    <3>1. picked' = picked
      BY <2>2 DEF Handling, Idle
    <3> QED
      BY <1>1, <1>6, <2>2, <3>1 DEF Awaited
  <2> QED
    BY <1>6, <2>1, <2>2 DEF Awaited
<1> QED
  BY <1>2, <1>4, <1>5, <1>6

\* A new event is queued while none is in hand.
LEMMA EventPushed ==
  ASSUME EngineTypeOK, QueueInv, PlaceInv, Idle, Idle',
         NEW at \in Nat, at >= time, NEW c \in Comps \cup {Nobody},
         NEW b \in BOOLEAN, PushNew(at, c, b), UNCHANGED <<time, handled>>
  PROVE  /\ QueueInv' /\ PlaceInv' /\ PickInv'
         /\ queue \subseteq queue'
         /\ ~b => \E e \in queue' : e.comp = c /\ e.at = at
<1> DEFINE n == [id |-> scheduled + 1, at |-> at, comp |-> c, secondary |-> b]
<1>1. PICK e : e = n
  OBVIOUS
<1>2. /\ e.id = scheduled + 1 /\ e.at = at /\ e.comp = c /\ e.secondary = b
  BY <1>1
<1>3. /\ scheduled < MaxEvents /\ scheduled' = scheduled + 1
      /\ b => secondaryQueue' = secondaryQueue \cup {e} /\ UNCHANGED queue
      /\ ~b => queue' = queue \cup {e} /\ UNCHANGED secondaryQueue
  BY <1>1 DEF PushNew
<1> HIDE DEF n
<1>4. /\ scheduled \in Nat /\ handled \in [1 .. MaxEvents -> Nat]
      /\ time \in Nat /\ MaxEvents \in Nat
  BY EngineAssumption DEF EngineTypeOK
<1>5. Waiting' = Waiting \cup {e} /\ queue \subseteq queue'
  BY <1>3 DEF Waiting
<1>6. \A f \in Waiting : f.id \in 1 .. scheduled /\ f.at >= time
  BY DEF QueueInv
<1>7. QueueInv'
  <2>1. /\ \A f \in queue' : ~f.secondary
        /\ \A f \in secondaryQueue' : f.secondary
    BY <1>2, <1>3 DEF QueueInv
  <2>2. \A f \in Waiting : f.id # e.id
    BY <1>2, <1>4, <1>6
  <2>3. \A f, g \in Waiting' : f.id = g.id => f = g
    BY <1>5, <2>2 DEF QueueInv
  <2>4. \A f \in Waiting' : f.id \in 1 .. scheduled' /\ f.at >= time'
    BY <1>2, <1>3, <1>4, <1>5, <1>6
  <2> QED
    BY <2>1, <2>3, <2>4 DEF QueueInv
<1>8. ~Handling /\ ~Handling' /\ PickInv'
  BY DEF Idle, Handling, PickInv
<1>9. PlaceInv'
  <2>1. \A i : Waits(i)' <=> Waits(i) \/ i = scheduled + 1
    BY <1>2, <1>5 DEF Waits
  <2>2. \A i : ~Taken(i) /\ ~Taken(i)'
    BY <1>8 DEF Taken
  <2>3. \A i \in 1 .. MaxEvents : i > scheduled => handled[i] = 0
    BY DEF PlaceInv
  <2>4. \A i \in 1 .. scheduled : \/ handled[i] = 0 /\ Waits(i)
                                  \/ handled[i] = 1 /\ ~Waits(i)
    BY <2>2 DEF PlaceInv
  <2>5. \A i \in 1 .. MaxEvents : i > scheduled' => handled'[i] = 0
    BY <1>3, <1>4, <2>3
  <2>6. ASSUME NEW i \in 1 .. scheduled'
        PROVE  \/ handled'[i] = 0 /\ Waits(i)'
               \/ handled'[i] = 1 /\ ~Waits(i)'
    <3>1. CASE i \in 1 .. scheduled
      <4>1. i # scheduled + 1
        BY <1>4, <3>1
      <4> QED
        BY <2>1, <2>4, <3>1, <4>1
    <3>2. CASE i = scheduled + 1
      <4>1. i \in 1 .. MaxEvents /\ i > scheduled
        BY <1>3, <1>4, <3>2
      <4> QED
        BY <2>1, <2>3, <3>2, <4>1
    <3> QED
      BY <1>3, <1>4, <3>1, <3>2
  <2> QED
    BY <2>2, <2>5, <2>6 DEF PlaceInv
<1> QED
  BY <1>2, <1>3, <1>5, <1>7, <1>8, <1>9

\* nextEvent takes the foremost event off its queue.
LEMMA EventTaken ==
  ASSUME EngineTypeOK, QueueInv, PlaceInv, WakeInv, Idle,
         NEW r \in Runners, rpc'[r] = "handle",
         \A s \in Runners : rpc'[s] # "pop",
         NEW e \in Waiting, picked' = e,
         \A f \in Waiting : e.at =< f.at,
         e.secondary => \A f \in queue : e.at < f.at,
         queue' = queue \ {e}, secondaryQueue' = secondaryQueue \ {e},
         UNCHANGED <<time, scheduled, handled, nextTickTime, lock>>
  PROVE  QueueInv' /\ PlaceInv' /\ PickInv' /\ WakeInv'
<1>1. Waiting' = Waiting \ {e} /\ Handling' /\ ~Handling
  BY DEF Waiting, Handling, Idle
<1>2. QueueInv'
  BY <1>1 DEF QueueInv
<1>3. e.id \in 1 .. scheduled /\ e.at >= time
  BY DEF QueueInv
<1>4. PlaceInv'
  <2>1. \A i : /\ ~Taken(i)
               /\ Taken(i)' <=> i = e.id
    BY <1>1 DEF Taken
  <2>2. \A i : Waits(i)' <=> Waits(i) /\ i # e.id
    BY <1>1 DEF Waits, QueueInv
  <2>3. Waits(e.id)
    BY DEF Waits
  <2> QED
    BY <2>1, <2>2, <2>3 DEF PlaceInv
<1>5. Foremost'
  BY <1>1, <1>3 DEF Foremost
<1>6. PickInv'
  BY <1>5 DEF PickInv
<1>7. ASSUME NEW c \in Comps, nextTickTime[c] > time, lock[c] = Nobody
      PROVE  Awaited(c)'
  <2>1. PICK f \in queue : f.comp = c /\ f.at = nextTickTime[c]
    BY <1>1, <1>7 DEF WakeInv, Awaited
  <2> QED
    BY <1>1, <2>1 DEF Awaited
<1> QED
  BY <1>2, <1>4, <1>6, <1>7 DEF WakeInv

\* nextEvent as far as the comparison.
LEMMA PeekKeeps ==
  ASSUME EngineInv, Undisturbed, NEW r \in Runners, Peek(r)
  PROVE  QueueInv' /\ PlaceInv' /\ PickInv' /\ WakeInv'
<1>1. /\ EngineTypeOK /\ PauseInv /\ QueueInv /\ PlaceInv /\ WakeInv /\ PickInv
  BY DEF EngineInv, Undisturbed
<1>2. /\ rpc[r] = "peek" /\ DOMAIN rpc = Runners
      /\ UNCHANGED <<time, scheduled, handled, nextTickTime, lock>>
  BY <1>1 DEF Peek, Goto, PauseInv, history, tickers
<1>3. Idle
  BY <1>1, <1>2, OneTurn DEF Idle, InTurn
<1>4. CASE queue = {} \/ secondaryQueue = {}
  <2>1. PICK e \in Earliest(queue \cup secondaryQueue) :
          /\ picked' = e
          /\ queue' = queue \ {e} /\ secondaryQueue' = secondaryQueue \ {e}
    BY <1>4 DEF Peek
  <2>2. e \in Waiting /\ \A f \in Waiting : e.at =< f.at
    BY DEF Waiting, Earliest
  <2>3. e.secondary => \A f \in queue : e.at < f.at
    BY <1>1, <1>4, <2>2 DEF QueueInv, Waiting
  <2>4. rpc' = [rpc EXCEPT ![r] = "handle"]
    BY <1>4 DEF Peek, Goto
  <2>5. rpc'[r] = "handle" /\ \A s \in Runners : rpc'[s] # "pop"
    BY <1>2, <1>3, <2>4 DEF Idle
  <2> QED
    BY <1>1, <1>2, <1>3, <2>1, <2>2, <2>3, <2>5, EventTaken
<1>5. CASE ~(queue = {} \/ secondaryQueue = {})
  <2>1. PICK p \in Earliest(queue), s \in Earliest(secondaryQueue) :
          picked' = IF GoesFirst(p, s) THEN p ELSE s
    BY <1>5 DEF Peek
  <2>2. /\ rpc' = [rpc EXCEPT ![r] = "pop"]
        /\ UNCHANGED <<queue, secondaryQueue>>
    BY <1>5 DEF Peek, Goto, queues
  <2>3. \A x \in Runners : rpc'[x] # "handle"
    BY <1>2, <1>3, <2>2 DEF Idle
  <2>4. ~Handling /\ ~Handling' /\ Waiting' = Waiting
    BY <1>3, <2>2, <2>3 DEF Handling, Idle, Waiting
  <2>5. /\ p \in queue /\ \A e \in queue : p.at =< e.at
        /\ s \in secondaryQueue /\ \A e \in secondaryQueue : s.at =< e.at
    BY DEF Earliest
  <2>6. \A e \in Waiting : e.at \in Nat /\ e.id \in 1 .. scheduled /\ e.at >= time
    BY <1>1 DEF Waiting, EngineTypeOK, Event, QueueInv
  <2>7. picked' \in Waiting /\ Foremost'
    <3>1. CASE p.at =< s.at
      <4>1. picked' = p /\ p \in Waiting /\ s \in Waiting /\ ~p.secondary
        BY <1>1, <2>1, <2>5, <3>1 DEF GoesFirst, Waiting, QueueInv
      <4>2. \A e \in Waiting : p.at =< e.at
        BY <2>5, <2>6, <3>1, <4>1 DEF Waiting
      <4> QED
        BY <1>2, <2>4, <2>6, <4>1, <4>2 DEF Foremost
    <3>2. CASE ~(p.at =< s.at)
      <4>1. picked' = s /\ s \in Waiting /\ p \in Waiting
        BY <2>1, <2>5, <3>2 DEF GoesFirst, Waiting
      <4>2. s.at < p.at
        BY <2>6, <3>2, <4>1
      <4>3. \A e \in queue : e \in Waiting /\ s.at < e.at
        BY <2>5, <2>6, <4>1, <4>2 DEF Waiting
      <4>4. \A e \in Waiting : s.at =< e.at
        BY <2>5, <2>6, <4>1, <4>3 DEF Waiting
      <4> QED
        BY <1>2, <2>2, <2>4, <2>6, <4>1, <4>3, <4>4 DEF Foremost
    <3> QED
      BY <3>1, <3>2
  <2>8. PickInv'
    BY <2>4, <2>7 DEF PickInv
  <2>9. QueueInv'
    BY <1>1, <1>2, <2>2, <2>4 DEF QueueInv
  <2>10. PlaceInv'
    <3>1. \A i : ~Taken(i) /\ ~Taken(i)' /\ (Waits(i)' <=> Waits(i))
      BY <2>4 DEF Taken, Waits
    <3> QED
      BY <1>1, <1>2, <3>1 DEF PlaceInv
  <2>11. WakeInv'
    BY <1>1, <1>2, <2>2, <2>4 DEF WakeInv, Awaited
  <2> QED
    BY <2>8, <2>9, <2>10, <2>11
<1> QED
  BY <1>4, <1>5

\* nextEvent after the comparison: nothing came in between, so what is taken
\* off is what was peeked.
LEMMA PopKeeps ==
  ASSUME EngineInv, Undisturbed, NEW r \in Runners, Pop(r)
  PROVE  QueueInv' /\ PlaceInv' /\ PickInv' /\ WakeInv'
<1>1. /\ EngineTypeOK /\ PauseInv /\ QueueInv /\ PlaceInv /\ WakeInv /\ PickInv
  BY DEF EngineInv, Undisturbed
<1>2. /\ rpc[r] = "pop" /\ DOMAIN rpc = Runners
      /\ rpc' = [rpc EXCEPT ![r] = "handle"]
      /\ UNCHANGED <<time, scheduled, handled, nextTickTime, lock, picked>>
  BY <1>1 DEF Pop, Goto, PauseInv, history, tickers
<1>3. \A s \in Runners : s # r => rpc[s] \notin {"pop", "handle"}
  BY <1>1, <1>2, OneTurn DEF InTurn
<1>4. Foremost /\ picked \in Waiting
  BY <1>1, <1>2 DEF PickInv
<1>5. \A q : picked \in q /\ q \subseteq Waiting => TakenOff(q) = q \ {picked}
  BY <1>4 DEF TakenOff, Earliest, Foremost
<1>6. queue' = queue \ {picked} /\ secondaryQueue' = secondaryQueue \ {picked}
  <2>1. CASE picked.secondary
    <3>1. picked \in secondaryQueue /\ picked \notin queue
      BY <1>1, <1>4, <2>1 DEF QueueInv, Waiting
    <3>2. TakenOff(secondaryQueue) = secondaryQueue \ {picked}
      BY <1>5, <3>1 DEF Waiting
    <3> QED
      BY <2>1, <3>1, <3>2 DEF Pop
  <2>2. CASE ~picked.secondary
    <3>1. picked \notin secondaryQueue /\ picked \in queue
      BY <1>1, <1>4, <2>2 DEF QueueInv, Waiting
    <3>2. TakenOff(queue) = queue \ {picked}
      BY <1>5, <3>1 DEF Waiting
    <3> QED
      BY <2>2, <3>1, <3>2 DEF Pop
  <2> QED
    BY <2>1, <2>2
<1>7. rpc'[r] = "handle" /\ \A s \in Runners : rpc'[s] # "pop"
  BY <1>2, <1>3
<1>8. Waiting' = Waiting \ {picked} /\ Handling' /\ ~Handling
  BY <1>2, <1>3, <1>6, <1>7 DEF Waiting, Handling
<1>9. QueueInv'
  BY <1>1, <1>2, <1>6, <1>8 DEF QueueInv
<1>10. PlaceInv'
  <2>1. \A i : /\ ~Taken(i)
               /\ Taken(i)' <=> i = picked.id
    BY <1>2, <1>8 DEF Taken
  <2>2. \A i : Waits(i)' <=> Waits(i) /\ i # picked.id
    BY <1>1, <1>4, <1>8 DEF Waits, QueueInv
  <2>3. Waits(picked.id)
    BY <1>4 DEF Waits
  <2> QED
    BY <1>1, <1>2, <2>1, <2>2, <2>3 DEF PlaceInv
<1>11. Foremost'
  BY <1>2, <1>4, <1>6, <1>8 DEF Foremost
<1>12. PickInv'
  BY <1>7, <1>11 DEF PickInv
<1>13. WakeInv'
  BY <1>1, <1>2, <1>6, <1>8 DEF WakeInv, Awaited
<1> QED
  BY <1>9, <1>10, <1>12, <1>13

\* The event in hand is handled: the time moves to it, past no other.
LEMMA HandleKeeps ==
  ASSUME EngineInv, Undisturbed, NEW r \in Runners, Handle(r)
  PROVE  QueueInv' /\ PlaceInv' /\ PickInv' /\ WakeInv'
<1>1. /\ EngineTypeOK /\ PauseInv /\ QueueInv /\ PlaceInv /\ WakeInv /\ PickInv
  BY DEF EngineInv, Undisturbed
<1>2. /\ rpc[r] = "handle" /\ DOMAIN rpc = Runners
      /\ rpc' = [rpc EXCEPT ![r] = "handler"]
      /\ handled \in [1 .. MaxEvents -> Nat] /\ picked.id \in 1 .. MaxEvents
      /\ handled' = [handled EXCEPT ![picked.id] = @ + 1]
      /\ UNCHANGED <<queue, secondaryQueue, scheduled, nextTickTime, lock,
                     picked>>
      /\ time' = picked.at /\ time \in Nat /\ picked.at \in Nat
      /\ nextTickTime \in [Comps -> Int] /\ scheduled \in Nat
  <2>1. picked.id \in 1 .. MaxEvents
    <3>1. picked.id \in 1 .. scheduled
      BY <1>1 DEF Handle, Goto, PickInv, Foremost
    <3>2. scheduled \in Nat /\ scheduled =< MaxEvents /\ MaxEvents \in Nat
      BY EngineAssumption DEF EngineInv, EngineTypeOK
    <3> QED
      BY <3>1, <3>2
  <2>2. /\ handled \in [1 .. MaxEvents -> Nat] /\ time \in Nat
        /\ picked.at \in Nat /\ nextTickTime \in [Comps -> Int]
        /\ scheduled \in Nat
    BY <1>1 DEF EngineTypeOK, Event
  <2>3. DOMAIN rpc = Runners
    BY <1>1 DEF PauseInv
  <2> QED
    BY <2>1, <2>2, <2>3 DEF Handle, Goto, queues, tickers
<1>3. Idle' /\ Handling /\ ~Handling' /\ Waiting' = Waiting
  <2>1. \A s \in Runners : s # r => rpc[s] \notin {"pop", "handle"}
    BY <1>1, <1>2, OneTurn DEF InTurn
  <2> QED
    BY <1>2, <2>1 DEF Idle, Handling, Waiting
<1>4. Foremost
  BY <1>1, <1>2 DEF PickInv
<1>5. QueueInv'
  BY <1>1, <1>2, <1>3, <1>4 DEF QueueInv, Foremost
<1>6. PlaceInv'
  <2>1. \A i : /\ Taken(i) <=> i = picked.id
               /\ ~Taken(i)'
               /\ Waits(i)' <=> Waits(i)
    BY <1>3 DEF Taken, Waits
  <2>2. \A i \in 1 .. MaxEvents :
          handled'[i] = handled[i] + (IF i = picked.id THEN 1 ELSE 0)
    BY <1>2
  <2>3. \A i \in 1 .. scheduled : i \in 1 .. MaxEvents
    BY EngineAssumption DEF EngineInv, EngineTypeOK
  <2>4. \A i \in 1 .. scheduled' :
          \/ handled'[i] = 0 /\ (Waits(i)' <=> ~Taken(i)')
          \/ handled'[i] = 1 /\ ~Waits(i)' /\ ~Taken(i)'
    BY <1>1, <1>2, <2>1, <2>2, <2>3 DEF PlaceInv
  <2>5. ASSUME NEW i \in 1 .. MaxEvents, i > scheduled PROVE handled'[i] = 0
    <3>1. i # picked.id
      BY <1>2, <1>4, <2>5 DEF Foremost
    <3>2. handled[i] = 0
      BY <1>1, <2>5 DEF PlaceInv
    <3> QED
      BY <2>2, <3>1, <3>2
  <2> QED
    BY <1>2, <2>4, <2>5 DEF PlaceInv
<1>7. PickInv'
  BY <1>3 DEF Idle, PickInv
<1>8. ASSUME NEW c \in Comps, nextTickTime[c] > time', lock[c] = Nobody
      PROVE  Awaited(c)'
  <2>1. nextTickTime[c] > time /\ picked.at # nextTickTime[c]
    BY <1>2, <1>4, <1>8 DEF Foremost
  <2>2. \E e \in queue : e.comp = c /\ e.at = nextTickTime[c]
    BY <1>1, <1>8, <2>1 DEF WakeInv, Awaited
  <2> QED
    BY <1>2, <2>2 DEF Awaited
<1> QED
  BY <1>2, <1>5, <1>6, <1>7, <1>8 DEF WakeInv

\* The steps of a turn, and around it, that move no event.
LEMMA RunnerKeeps ==
  ASSUME EngineInv, Undisturbed, NEW r \in Runners,
         \/ RunRequested(r) \/ RunStart(r) \/ RunEnd(r) \/ RunLock(r)
         \/ HandlerDone(r) \/ HandlerTicks(r) \/ RunUnlock(r)
  PROVE  QueueInv' /\ PlaceInv' /\ PickInv' /\ WakeInv'
<1>1. /\ PauseInv /\ QueueInv /\ PlaceInv /\ WakeInv /\ PickInv
      /\ DOMAIN rpc = Runners
  BY DEF EngineInv, Undisturbed, PauseInv
<1>2. /\ UNCHANGED <<time, queue, secondaryQueue, scheduled, handled>>
      /\ UNCHANGED <<nextTickTime, lock>>
  BY DEF RunRequested, RunStart, RunEnd, RunLock, HandlerDone, HandlerTicks,
         RunUnlock, queues, tickers, history
<1>3. PICK to : /\ to \notin {"pop", "handle"}
                /\ rpc' = [rpc EXCEPT ![r] = to]
                /\ rpc[r] \notin {"pop", "handle"}
  BY DEF RunRequested, RunStart, RunEnd, RunLock, HandlerDone, HandlerTicks,
         RunUnlock, Goto
<1>4. picked' = picked \/ Idle
  <2>1. CASE RunRequested(r) \/ RunStart(r) \/ RunEnd(r) \/ RunLock(r)
             \/ HandlerDone(r)
    BY <2>1 DEF RunRequested, RunStart, RunEnd, RunLock, HandlerDone
  <2>2. CASE HandlerTicks(r) \/ RunUnlock(r)
    <3>1. rpc[r] \in InTurn
      BY <2>2 DEF HandlerTicks, RunUnlock, Goto, InTurn
    <3> QED
      BY <1>1, <1>3, <3>1, OneTurn DEF Idle, InTurn
  <2> QED
    BY <2>1, <2>2
<1>5. \A s \in Runners : /\ rpc'[s] = "pop" <=> rpc[s] = "pop"
                         /\ rpc'[s] = "handle" <=> rpc[s] = "handle"
  BY <1>1, <1>3
<1>6. /\ QueueInv' /\ PlaceInv' /\ PickInv'
      /\ \A c \in Comps : Awaited(c) => Awaited(c)'
  BY <1>1, <1>2, <1>4, <1>5, EventsUnmoved
<1> QED
  BY <1>1, <1>2, <1>6 DEF WakeInv

\* The handler makes an event, or ticks a component.
LEMMA HandlerKeeps ==
  ASSUME EngineInv, Undisturbed, NEW r \in Runners,
         HandlerSchedules(r) \/ TickLater(r)
  PROVE  QueueInv' /\ PlaceInv' /\ PickInv' /\ WakeInv'
<1>1. /\ EngineTypeOK /\ PauseInv /\ QueueInv /\ PlaceInv /\ WakeInv /\ PickInv
      /\ DOMAIN rpc = Runners /\ time \in Nat
  BY DEF EngineInv, EngineTypeOK, Undisturbed, PauseInv
<1>2. /\ rpc[r] \in {"handler", "tick"} /\ rpc' = [rpc EXCEPT ![r] = "unlock"]
      /\ UNCHANGED <<time, handled, lock, picked>>
  BY DEF HandlerSchedules, TickLater, Goto, tickers
<1>3. Idle /\ Idle'
  <2>1. \A s \in Runners : s # r => rpc[s] \notin {"pop", "handle"}
    BY <1>1, <1>2, OneTurn DEF InTurn
  <2> QED
    BY <1>1, <1>2, <2>1 DEF Idle
<1>4. CASE HandlerSchedules(r)
  <2>1. PICK d \in 0 .. 2, b \in BOOLEAN : PushNew(time + d, Nobody, b)
    BY <1>4 DEF HandlerSchedules
  <2>2. time + d \in Nat /\ time + d >= time
    BY <1>1
  <2>3. QueueInv' /\ PlaceInv' /\ PickInv' /\ queue \subseteq queue'
    BY <1>1, <1>2, <1>3, <2>1, <2>2, EventPushed
  <2>4. nextTickTime' = nextTickTime
    BY <1>4 DEF HandlerSchedules, tickers
  <2>5. WakeInv'
    BY <1>1, <1>2, <1>3, <2>3, <2>4 DEF WakeInv, Awaited, Idle, Handling
  <2> QED
    BY <2>3, <2>5
<1>5. CASE TickLater(r)
  <2>1. PICK c : c = picked.comp
    OBVIOUS
  <2>2. c \in Comps \cup {Nobody} /\ NextTick \in Nat /\ NextTick >= time
          /\ nextTickTime \in [Comps -> Int]
    BY <1>1, <2>1 DEF EngineTypeOK, Event, NextTick
  <2>3. CASE nextTickTime[c] >= NextTick
    <3>1. UNCHANGED <<nextTickTime, queue, secondaryQueue, scheduled>>
      BY <1>5, <2>1, <2>3 DEF TickLater, queues
    <3>2. \A s \in Runners : /\ rpc'[s] = "pop" <=> rpc[s] = "pop"
                             /\ rpc'[s] = "handle" <=> rpc[s] = "handle"
      BY <1>1, <1>2
    <3>3. /\ QueueInv' /\ PlaceInv' /\ PickInv'
          /\ \A x \in Comps : Awaited(x) => Awaited(x)'
      BY <1>1, <1>2, <3>1, <3>2, EventsUnmoved
    <3> QED
      BY <1>1, <1>2, <3>1, <3>3 DEF WakeInv
  <2>4. CASE ~(nextTickTime[c] >= NextTick)
    <3>1. /\ nextTickTime' = [nextTickTime EXCEPT ![c] = NextTick]
          /\ PushNew(NextTick, c, FALSE)
      BY <1>5, <2>1, <2>4 DEF TickLater
    <3>2. /\ QueueInv' /\ PlaceInv' /\ PickInv' /\ queue \subseteq queue'
          /\ \E e \in queue' : e.comp = c /\ e.at = NextTick
      BY <1>1, <1>2, <1>3, <2>2, <3>1, EventPushed
    <3>3. ASSUME NEW x \in Comps, nextTickTime'[x] > time, lock[x] = Nobody
          PROVE  Awaited(x)'
      <4>1. CASE x = c
        BY <2>2, <3>1, <3>2, <4>1 DEF Awaited
      <4>2. CASE x # c
        <5>1. nextTickTime'[x] = nextTickTime[x]
          BY <2>2, <3>1, <4>2
        <5>2. Awaited(x)
          BY <1>1, <3>3, <5>1 DEF WakeInv
        <5> QED
          BY <1>3, <3>2, <5>1, <5>2 DEF Awaited, Idle, Handling
      <4> QED
        BY <4>1, <4>2
    <3> QED
      BY <1>2, <3>2, <3>3 DEF WakeInv
  <2> QED
    BY <2>3, <2>4
<1> QED
  BY <1>4, <1>5

\* The requests that move no event.
LEMMA RequestKeeps ==
  ASSUME EngineInv, Undisturbed, NEW h \in Requests,
         \/ PauseRequested(h) \/ ContinueRequested(h) \/ PauseEnter(h)
         \/ Pause(h) \/ Continue(h) \/ ScheduleChecks(h) \/ TickRequested(h)
  PROVE  QueueInv' /\ PlaceInv' /\ PickInv' /\ WakeInv'
<1>1. /\ EngineTypeOK /\ QueueInv /\ PlaceInv /\ WakeInv /\ PickInv
  BY DEF EngineInv, Undisturbed
<1>2. UNCHANGED <<time, queue, secondaryQueue, scheduled, handled, rpc, picked>>
  BY DEF PauseRequested, ContinueRequested, PauseEnter, Pause, Continue,
         ScheduleChecks, TickRequested, queues, runner, history
<1>3. /\ QueueInv' /\ PlaceInv' /\ PickInv'
      /\ \A c \in Comps :
           nextTickTime'[c] = nextTickTime[c] /\ Awaited(c) => Awaited(c)'
  BY <1>1, <1>2, EventsUnmoved
<1>4. \A c \in Comps : \/ /\ nextTickTime'[c] = nextTickTime[c]
                          /\ lock'[c] = lock[c]
                       \/ lock'[c] # Nobody
  <2>1. CASE TickRequested(h)
    <3>1. PICK c \in Comps :
            \/ UNCHANGED tickers
            \/ /\ nextTickTime' = [nextTickTime EXCEPT ![c] = NextTick]
               /\ lock' = [lock EXCEPT ![c] = h]
      BY <2>1 DEF TickRequested
    <3>2. /\ nextTickTime \in [Comps -> Int] /\ h # Nobody
          /\ lock \in [Comps -> Requests \cup {Nobody}]
      BY <1>1, EngineAssumption DEF EngineTypeOK
    <3> QED
      BY <3>1, <3>2 DEF tickers
  <2>2. CASE ~TickRequested(h)
    BY <2>2 DEF PauseRequested, ContinueRequested, PauseEnter, Pause, Continue,
                ScheduleChecks, tickers
  <2> QED
    BY <2>1, <2>2
<1> QED
  BY <1>1, <1>2, <1>3, <1>4 DEF WakeInv

\* The second half of a request's TickLater, which no turn saw.
LEMMA PushKeeps ==
  ASSUME EngineInv, Undisturbed, NEW h \in Requests, SchedulePushes(h)
  PROVE  QueueInv' /\ PlaceInv' /\ PickInv' /\ WakeInv'
<1>1. /\ EngineTypeOK /\ PauseInv /\ QueueInv /\ PlaceInv /\ WakeInv /\ PickInv
      /\ QuietInv /\ TickerInv
  BY DEF EngineInv, Undisturbed
<1>2. /\ hpc[h] = "push"
      /\ UNCHANGED <<time, handled, nextTickTime, rpc, picked>>
      /\ PushNew(hat[h], hcomp[h], FALSE)
      /\ lock' = [lock EXCEPT ![hcomp[h]] = Nobody]
  BY DEF SchedulePushes, HGoto, runner
<1>3. /\ hcomp[h] \in Comps /\ nextTickTime[hcomp[h]] = hat[h]
      /\ hat[h] >= time /\ hat[h] \in Nat /\ pauseLock \notin Runners
  BY <1>1, <1>2 DEF TickerInv, QuietInv, MidTick, EngineTypeOK
<1>4. Idle /\ Idle'
  BY <1>1, <1>2, <1>3 DEF PauseInv, InTurn, Idle
<1>5. /\ QueueInv' /\ PlaceInv' /\ PickInv' /\ queue \subseteq queue'
      /\ \E e \in queue' : e.comp = hcomp[h] /\ e.at = hat[h]
  BY <1>1, <1>2, <1>3, <1>4, EventPushed
<1>6. ASSUME NEW x \in Comps, nextTickTime[x] > time, lock'[x] = Nobody
      PROVE  Awaited(x)'
  <2>1. CASE x = hcomp[h]
    BY <1>2, <1>3, <1>5, <2>1 DEF Awaited
  <2>2. CASE x # hcomp[h]
    <3>1. lock[x] = Nobody
      BY <1>1, <1>2, <1>6, <2>2 DEF EngineTypeOK
    <3>2. Awaited(x)
      BY <1>1, <1>6, <3>1 DEF WakeInv
    <3> QED
      BY <1>2, <1>4, <1>5, <3>2 DEF Awaited, Idle, Handling
  <2> QED
    BY <2>1, <2>2
<1> QED
  BY <1>2, <1>5, <1>6 DEF WakeInv

\* A turn does not begin while a request is between the halves of TickLater,
\* and no such request begins during a turn, or the step is a disturbance.
LEMMA QuietStep ==
  ASSUME EngineInv, Undisturbed, [EngineNext]_engineVars, ~disturbed'
  PROVE  QuietInv'
<1>1. /\ EngineTypeOK /\ PauseInv /\ QuietInv /\ time \in Nat
  BY DEF EngineInv, EngineTypeOK, Undisturbed
<1>2. ASSUME UNCHANGED <<hpc, hat, time>>, pauseLock' = pauseLock \/ pauseLock' \notin Runners
      PROVE  QuietInv'
  BY <1>1, <1>2 DEF QuietInv
<1>3. CASE UNCHANGED engineVars
  BY <1>2, <1>3 DEF engineVars, request, pausing
<1>4. ASSUME NEW r \in Runners, RunRequested(r) \/ RunStep(r) PROVE QuietInv'
  <2>1. CASE RunLock(r)
    <3>1. /\ \A h \in Requests : hpc[h] \notin MidTick
          /\ UNCHANGED <<hpc, hat, time>>
      BY <2>1 DEF RunLock, request
    <3> QED
      BY <3>1 DEF QuietInv
  <2>2. CASE Handle(r)
    <3>1. pauseLock \in Runners /\ UNCHANGED <<hpc, hat, pauseLock>>
      BY <1>1, <2>2 DEF Handle, Goto, PauseInv, InTurn, request, pausing
    <3> QED
      BY <1>1, <3>1 DEF QuietInv
  <2>3. CASE RunUnlock(r)
    BY <1>2, <2>3, EngineAssumption DEF RunUnlock, request
  <2>4. CASE \/ RunRequested(r) \/ RunStart(r) \/ RunEnd(r) \/ Peek(r)
             \/ Pop(r) \/ Crash(r) \/ HandlerDone(r) \/ HandlerSchedules(r)
             \/ HandlerTicks(r) \/ TickLater(r)
    BY <1>2, <2>4 DEF RunRequested, RunStart, RunEnd, Peek, Pop, Crash,
       HandlerDone, HandlerSchedules, HandlerTicks, TickLater, request, pausing
  <2> QED
    BY <1>4, <2>1, <2>2, <2>3, <2>4 DEF RunStep
<1>5. ASSUME NEW h \in Requests,
             \/ PauseRequested(h) \/ ContinueRequested(h) \/ PauseEnter(h)
             \/ Pause(h) \/ Continue(h)
      PROVE  QuietInv'
  <2>1. /\ UNCHANGED <<hat, time>>
        /\ pauseLock' = pauseLock \/ pauseLock' \notin Runners
        /\ \E to \in {"none", "pause", "pausing", "continue"} :
             hpc' = [hpc EXCEPT ![h] = to]
    BY <1>5, EngineAssumption
    DEF PauseRequested, ContinueRequested, PauseEnter, Pause, Continue, HGoto,
        pausing
  <2>2. \A g \in Requests : hpc'[g] \in MidTick => hpc[g] \in MidTick
    BY <1>1, <2>1 DEF MidTick, EngineTypeOK
  <2> QED
    BY <1>1, <2>1, <2>2 DEF QuietInv
<1>6. ASSUME NEW h \in Requests, ScheduleChecks(h) PROVE QuietInv'
  <2>1. /\ UNCHANGED <<hat, time, pauseLock>> /\ hpc[h] = "check"
        /\ \E to \in {"push", "dead"} : hpc' = [hpc EXCEPT ![h] = to]
    BY <1>6 DEF ScheduleChecks, HGoto, pausing
  <2>2. \A g \in Requests : hpc'[g] \in MidTick => hpc[g] \in MidTick
    BY <1>1, <2>1 DEF MidTick, EngineTypeOK
  <2> QED
    BY <1>1, <2>1, <2>2 DEF QuietInv
<1>7. ASSUME NEW h \in Requests, SchedulePushes(h) PROVE QuietInv'
  <2>1. /\ UNCHANGED <<time, pauseLock>>
        /\ hat' = [hat EXCEPT ![h] = 0] /\ hpc' = [hpc EXCEPT ![h] = "none"]
    BY <1>7 DEF SchedulePushes, HGoto, pausing
  <2>2. \A g \in Requests : hpc'[g] \in MidTick =>
          hpc[g] \in MidTick /\ hat'[g] = hat[g]
    BY <1>1, <2>1 DEF MidTick, EngineTypeOK
  <2> QED
    BY <1>1, <2>1, <2>2 DEF QuietInv
<1>8. ASSUME NEW h \in Requests, TickRequested(h) PROVE QuietInv'
  <2>1. /\ UNCHANGED <<time, pauseLock>> /\ pauseLock \notin Runners
        /\ \/ hpc' = [hpc EXCEPT ![h] = "none"] /\ UNCHANGED hat
           \/ /\ hpc' = [hpc EXCEPT ![h] = "check"]
              /\ hat' = [hat EXCEPT ![h] = NextTick]
    BY <1>8 DEF TickRequested, HGoto, Disturbing, pausing
  <2>2. NextTick >= time
    BY <1>1 DEF NextTick
  <2>3. /\ hpc \in [Requests -> {"none", "pause", "pausing", "continue",
                                 "check", "push", "dead"}]
        /\ hat \in [Requests -> Nat]
    BY <1>1 DEF EngineTypeOK
  <2>4. \A g \in Requests : hpc'[g] \in MidTick => hat'[g] >= time
    BY <1>1, <2>1, <2>2, <2>3 DEF MidTick, QuietInv
  <2> QED
    BY <2>1, <2>4 DEF QuietInv
<1> QED
  BY <1>3, <1>4, <1>5, <1>6, <1>7, <1>8
  DEF EngineNext, Buttons, RequestStep

\* Without a disturbance nothing is late.
LEMMA PastStep ==
  ASSUME EngineInv, Undisturbed, [EngineNext]_engineVars
  PROVE  NothingInThePast'
<1>1. /\ QuietInv /\ PickInv /\ EngineTypeOK /\ NothingInThePast
      /\ DOMAIN rpc = Runners
  BY DEF EngineInv, PauseInv, Undisturbed
<1>2. ASSUME NEW r \in Runners PROVE ~Crash(r)
  BY <1>1 DEF Crash, Goto, PickInv, Foremost, EngineTypeOK, Event
<1>3. ASSUME NEW h \in Requests, hpc[h] = "check" PROVE ~(hat[h] < time)
  BY <1>1, <1>3 DEF QuietInv, MidTick, EngineTypeOK
<1>4. \A h \in Requests : hpc'[h] # "dead"
  <2>1. ASSUME NEW h \in Requests, RequestStep(h) \/ PauseRequested(h)
                 \/ ContinueRequested(h) \/ TickRequested(h)
        PROVE  \E to : to # "dead" /\ hpc' = [hpc EXCEPT ![h] = to]
    <3>1. CASE ScheduleChecks(h)
      BY <1>3, <3>1 DEF ScheduleChecks, HGoto
    <3>2. CASE PauseEnter(h) \/ Pause(h) \/ Continue(h) \/ SchedulePushes(h)
      BY <3>2 DEF PauseEnter, Pause, Continue, SchedulePushes, HGoto
    <3>3. CASE PauseRequested(h) \/ ContinueRequested(h) \/ TickRequested(h)
      BY <3>3 DEF PauseRequested, ContinueRequested, TickRequested, HGoto
    <3> QED
      BY <2>1, <3>1, <3>2, <3>3 DEF RequestStep
  <2>2. ASSUME NEW r \in Runners, RunRequested(r) \/ RunStep(r)
        PROVE  hpc' = hpc
    BY <2>2 DEF RunRequested, RunStep, RunStart, RunEnd, RunLock, Peek, Pop,
       Crash, Handle, HandlerDone, HandlerSchedules, HandlerTicks, TickLater,
       RunUnlock, request
  <2>3. UNCHANGED engineVars => hpc' = hpc
    BY DEF engineVars, request
  <2>4. \/ hpc' = hpc
        \/ \E h \in Requests : \E to : /\ to # "dead"
                                       /\ hpc' = [hpc EXCEPT ![h] = to]
    BY <2>1, <2>2, <2>3 DEF EngineNext, Buttons
  <2>5. /\ \A h \in Requests : hpc[h] # "dead"
        /\ hpc \in [Requests -> {"none", "pause", "pausing", "continue",
                                 "check", "push", "dead"}]
    BY <1>1 DEF NothingInThePast, EngineTypeOK
  <2> QED
    BY <2>4, <2>5
<1>5. \A r \in Runners : rpc'[r] # "crashed"
  <2>1. ASSUME NEW r \in Runners, RunRequested(r) \/ RunStep(r)
        PROVE  \E to : to # "crashed" /\ rpc' = [rpc EXCEPT ![r] = to]
    BY <1>2, <2>1 DEF RunRequested, RunStep, RunStart, RunEnd, RunLock, Peek,
       Pop, Handle, HandlerDone, HandlerSchedules, HandlerTicks, TickLater,
       RunUnlock, Goto
  <2>2. ASSUME NEW h \in Requests, RequestStep(h) \/ PauseRequested(h)
                 \/ ContinueRequested(h) \/ TickRequested(h)
        PROVE  rpc' = rpc
    BY <2>2 DEF RequestStep, ScheduleChecks, PauseEnter, Pause, Continue,
       SchedulePushes, PauseRequested, ContinueRequested, TickRequested, runner
  <2>3. UNCHANGED engineVars => rpc' = rpc
    BY DEF engineVars, runner
  <2>4. \/ rpc' = rpc
        \/ \E r \in Runners : \E to : /\ to # "crashed"
                                      /\ rpc' = [rpc EXCEPT ![r] = to]
    BY <2>1, <2>2, <2>3 DEF EngineNext, Buttons
  <2>5. \A r \in Runners : rpc[r] # "crashed"
    BY <1>1 DEF NothingInThePast, Alive
  <2> QED
    BY <1>1, <2>4, <2>5
<1> QED
  BY <1>4, <1>5 DEF NothingInThePast, Alive

\* Every undisturbed step keeps the events and the ticks.
LEMMA UndisturbedStep ==
  ASSUME EngineInv, Undisturbed, [EngineNext]_engineVars, ~disturbed'
  PROVE  Undisturbed'
<1>1. QueueInv' /\ PlaceInv' /\ PickInv' /\ WakeInv'
  <2>1. CASE UNCHANGED engineVars
    <3>1. /\ UNCHANGED <<time, queue, secondaryQueue, scheduled, handled>>
          /\ UNCHANGED <<nextTickTime, lock, rpc, picked>>
      BY <2>1 DEF engineVars, queues, tickers, runner, history
    <3>2. QueueInv /\ PlaceInv /\ PickInv /\ WakeInv
      BY DEF Undisturbed
    <3>3. /\ QueueInv' /\ PlaceInv' /\ PickInv'
          /\ \A c \in Comps : Awaited(c) => Awaited(c)'
      BY <3>1, <3>2, EventsUnmoved
    <3> QED
      BY <3>1, <3>2, <3>3 DEF WakeInv
  <2>2. ASSUME NEW r \in Runners, RunRequested(r) \/ RunStep(r)
        PROVE  QueueInv' /\ PlaceInv' /\ PickInv' /\ WakeInv'
    <3>1. ~Crash(r)
      BY DEF Undisturbed, EngineInv, Crash, Goto, PickInv, Foremost,
             EngineTypeOK, Event
    <3> QED
      BY <2>2, <3>1, RunnerKeeps, PeekKeeps, PopKeeps, HandleKeeps,
         HandlerKeeps DEF RunStep
  <2>3. ASSUME NEW h \in Requests, RequestStep(h) \/ PauseRequested(h)
                 \/ ContinueRequested(h) \/ TickRequested(h)
        PROVE  QueueInv' /\ PlaceInv' /\ PickInv' /\ WakeInv'
    BY <2>3, RequestKeeps, PushKeeps DEF RequestStep
  <2> QED
    BY <2>1, <2>2, <2>3 DEF EngineNext, Buttons
<1> QED
  BY <1>1, QuietStep, PastStep DEF Undisturbed

LEMMA EngineInvStep == EngineInv /\ [EngineNext]_engineVars => EngineInv'
<1> SUFFICES ASSUME EngineInv, [EngineNext]_engineVars PROVE EngineInv'
  OBVIOUS
<1>1. EngineTypeOK' /\ scheduled' =< MaxEvents
  BY EngineTypeStep DEF EngineInv
<1>2. PauseInv' /\ TickerInv'
  BY PauseInvStep, TickerStep DEF EngineInv
<1>3. ASSUME ~disturbed' PROVE Undisturbed'
  <2>1. ~disturbed
    BY <1>3, DisturbedStays DEF EngineInv
  <2> QED
    BY <1>3, <2>1, UndisturbedStep DEF EngineInv
<1> QED
  BY <1>1, <1>2, <1>3 DEF EngineInv

\* The invariant of the engine holds in every reachable state.
THEOREM EngineInvHolds == EngineSpec => []EngineInv
  BY EngineInvInit, EngineInvStep, PTL DEF EngineSpec

\* As long as no tick is requested while an event is handled, each event that
\* was scheduled is in one place and handled once at most, a secondary one
\* after the primary ones of its cycle, and a component that counts on a tick
\* gets it: for any number of components, engine goroutines and requests.
THEOREM EventsAndTicksStayKept == EngineSpec => []EventsAndTicksKept
<1>1. ASSUME EngineInv PROVE EventsAndTicksKept
  <2> SUFFICES ASSUME ~disturbed
               PROVE  EventsHandledOnce /\ TicksAreComing /\ PrimaryFirst
    BY DEF EventsAndTicksKept, EventsHandledOnce, TicksAreComing, PrimaryFirst
  <2>1. PlaceInv /\ PickInv /\ WakeInv
    BY <1>1 DEF EngineInv, Undisturbed
  <2>2. ASSUME NEW i \in 1 .. scheduled, NEW r \in Runners, rpc[r] = "pop",
               picked.id = i
        PROVE  Waits(i)
    BY <2>1, <2>2 DEF PickInv, Waits
  <2>3. EventsHandledOnce
    BY <2>1, <2>2
    DEF EventsHandledOnce, PlaceInv, Waits, Waiting, Taken, Handling
  <2>4. TicksAreComing
    BY <2>1 DEF TicksAreComing, WakeInv, Awaited, Handling
  <2>5. PrimaryFirst
    <3> SUFFICES ASSUME NEW r \in Runners, rpc[r] = "handle", picked.secondary,
                        NEW e \in queue
                 PROVE  e.at > picked.at
      BY DEF PrimaryFirst
    <3>1. picked.at < e.at
      BY <2>1 DEF PickInv, Foremost
    <3> QED
      BY <3>1
  <2> QED
    BY <2>3, <2>4, <2>5
<1> QED
  BY <1>1, EngineInvHolds, PTL

\* The panics of the engine, "scheduling an event earlier than current time"
\* and its twin in Run, are out of reach until a tick is requested among the
\* events; the run monitor_tick shows that such a tick does reach them.
THEOREM UndisturbedNeverPanics ==
  EngineSpec => [](~disturbed => NothingInThePast)
<1>1. EngineInv => (~disturbed => NothingInThePast)
  BY DEF EngineInv, Undisturbed
<1> QED
  BY <1>1, EngineInvHolds, PTL
==============================================================================

--------------------------- MODULE MonitorLayout ---------------------------
(***************************************************************************)
(* The vertical layout of the monitor's page (monitoring/web/src/          *)
(* ui_manager.ts) and the progress bars below it (progress_bar.ts).        *)
(*                                                                         *)
(* Three things share the window's height: the main container, the group   *)
(* of monitored values and the group of progress bars.  The main           *)
(* container's height is computed when something is known to have changed  *)
(* and kept otherwise.  Progress is asked for by a timer; an answer is the *)
(* list of bars at the time the server served it and may arrive after a    *)
(* later one.  A bar that is gone leaves the page after an animation.      *)
(*                                                                         *)
(* Heights are counted in rows, of which a bar takes one and all pies      *)
(* together one; the navigation bar and the divider are left out.          *)
(***************************************************************************)
EXTENDS Integers, FiniteSets

CONSTANTS
  Bars,             \* identifiers of progress bars
  MaxProgressBars,  \* with more of them, pies are shown (2 in the code)
  Slots,            \* bound: requests for progress on their way
  MaxLeaving,       \* bound: doms whose removal is being animated
  WindowHeights,    \* heights the window can have
  DividerPositions, \* where the divider can be dragged to
  GroupHeight       \* of the monitor group when it pops up

ASSUME LayoutAssumption ==
  /\ IsFiniteSet(Bars)
  /\ MaxProgressBars \in Nat /\ MaxLeaving \in Nat
  /\ DividerPositions \subseteq Nat
  /\ WindowHeights \subseteq Nat /\ WindowHeights # {}
  /\ GroupHeight \in Nat \ {0}

VARIABLES
  active,        \* the server's progress bars
  started,       \* whether it has had any: before that it answers null
  asked,         \* the requests on their way
  mode, progressDoms, leaving,
  windowHeight, mainContainerHeight, monitorGroupHeight,
  isMonitorGroupDividerDragging,
  widgets,       \* monitored values on the page
  unadjusted     \* history: the window or a drag has changed what is left

server  == <<active, started>>
heights == <<mainContainerHeight, monitorGroupHeight, unadjusted>>
frame   == <<windowHeight, isMonitorGroupDividerDragging, widgets>>
progress_ == <<mode, progressDoms, leaving>>
layoutVars == <<server, asked, progress_, heights, frame>>

Kinds == {"bar", "pie"}
Free == [state |-> "free", bars |-> {}]
Sent == [state |-> "sent", bars |-> {}]
Served(s) == [state |-> "served", bars |-> s]

LayoutInit ==
  /\ active = {} /\ started = FALSE
  /\ asked = [s \in Slots |-> Free]
  /\ mode = "bar" /\ progressDoms = [b \in {} |-> "bar"]
  /\ leaving = [k \in Kinds |-> 0]
  /\ windowHeight \in WindowHeights
  /\ mainContainerHeight = windowHeight /\ monitorGroupHeight = 0
  /\ isMonitorGroupDividerDragging = FALSE
  /\ widgets = 0 /\ unadjusted = FALSE

\* progressBarGroupContainer.offsetHeight: what is in the group, the bars that
\* are leaving included.
OffsetHeight(doms, gone) ==
  LET bars == {b \in DOMAIN doms : doms[b] = "bar"}
      pies == DOMAIN doms \ bars
  IN Cardinality(bars) + gone["bar"]
       + (IF pies = {} /\ gone["pie"] = 0 THEN 0 ELSE 1)

\* adjustProgressBarGroupHeight, popUpMonitorGroup and collapseMonitorGroup,
\* with the monitor group's height after them.
Adjust(group) ==
  /\ monitorGroupHeight' = group
  /\ mainContainerHeight' = windowHeight - group
                              - OffsetHeight(progressDoms', leaving')
  /\ unadjusted' = FALSE

(***************************************************************************)
(* Progress                                                                *)
(***************************************************************************)
CreateProgressBar(b) ==
  /\ b \notin active
  /\ active' = active \cup {b} /\ started' = TRUE
  /\ UNCHANGED <<asked, progress_, heights, frame>>

CompleteProgressBar(b) ==
  /\ b \in active
  /\ active' = active \ {b}
  /\ UNCHANGED <<started, asked, progress_, heights, frame>>

\* Every second, whether or not the last answer has come.
refreshProgressBars ==
  /\ \E s \in Slots :
       asked[s] = Free /\ asked' = [asked EXCEPT ![s] = Sent]
  /\ UNCHANGED <<server, progress_, heights, frame>>

listProgressBars(s) ==
  /\ asked[s] = Sent
  /\ asked' = [asked EXCEPT ![s] = IF started THEN Served(active) ELSE Free]
  /\ UNCHANGED <<server, progress_, heights, frame>>

\* Mutant: the doms that leave are taken off the count.
LeaveMinus(gone, k) ==
  leaving[k] - Cardinality({b \in gone : progressDoms[b] = k})

\* How many doms of kind k are removed when those of the bars in gone are.
Leave(gone, k) == leaving[k] + Cardinality({b \in gone : progressDoms[b] = k})

ModeFor(bars) == IF Cardinality(bars) > MaxProgressBars THEN "pie" ELSE "bar"

\* The doms of now that are not taken off at once: none when the mode changes.
Kept(bars) == IF ModeFor(bars) = mode THEN DOMAIN progressDoms ELSE {}

\* Mutant: a completed bar is found only when all are completed.
CompletedAtOnce(bars, kept) == IF bars = {} THEN kept ELSE {}

Completed(bars, kept) == kept \ bars

\* renderProgress: create what is missing, then remove what is completed.
\* MaxLeaving bounds the animations, which take a fifth of the refresh period.
renderProgress(s) ==
  /\ asked[s].state = "served"
  /\ leaving["bar"] + leaving["pie"] =< MaxLeaving
  /\ asked' = [asked EXCEPT ![s] = Free]
  /\ LET bars == asked[s].bars
         kept == Kept(bars)
         created == bars \ kept
         completed == Completed(bars, kept)
         gone == (DOMAIN progressDoms \ kept) \cup completed
     IN /\ mode' = ModeFor(bars)
        /\ progressDoms' = [b \in (kept \cup created) \ completed |->
                              IF b \in kept THEN progressDoms[b] ELSE mode']
        /\ leaving' = [k \in Kinds |-> Leave(gone, k)]
        /\ IF created = {} THEN UNCHANGED heights
                           ELSE Adjust(monitorGroupHeight)
  /\ UNCHANGED <<server, frame>>

\* Mutant: the container is not told that the dom is gone.
DomRemovedQuietly(k) ==
  /\ leaving[k] > 0
  /\ leaving' = [leaving EXCEPT ![k] = @ - 1]
  /\ UNCHANGED <<mode, progressDoms>>
  /\ UNCHANGED <<server, asked, heights, frame>>

\* The animation of a dom that was removed is over.
DomRemoved(k) ==
  /\ leaving[k] > 0
  /\ leaving' = [leaving EXCEPT ![k] = @ - 1]
  /\ UNCHANGED <<mode, progressDoms>>
  /\ Adjust(monitorGroupHeight)
  /\ UNCHANGED <<server, asked, frame>>

(***************************************************************************)
(* The monitor group and its divider                                       *)
(***************************************************************************)
WidgetAdded ==
  /\ widgets < 2
  /\ widgets' = widgets + 1
  /\ UNCHANGED progress_
  /\ IF widgets = 0 THEN Adjust(GroupHeight) ELSE UNCHANGED heights
  /\ UNCHANGED <<server, asked, windowHeight, isMonitorGroupDividerDragging>>

WidgetRemoved ==
  /\ widgets > 0
  /\ widgets' = widgets - 1
  /\ UNCHANGED progress_
  /\ IF widgets = 1 THEN Adjust(0) ELSE UNCHANGED heights
  /\ UNCHANGED <<server, asked, windowHeight, isMonitorGroupDividerDragging>>

monitorGroupDividerMouseDown ==
  /\ ~isMonitorGroupDividerDragging
  /\ isMonitorGroupDividerDragging' = TRUE
  /\ UNCHANGED <<server, asked, progress_, heights, windowHeight, widgets>>

\* The main container is cut to what there is; the monitor group is not.
horizontalDividerMouseMove ==
  /\ isMonitorGroupDividerDragging
  /\ \E y \in DividerPositions :
       LET room == windowHeight - OffsetHeight(progressDoms, leaving)
       IN /\ mainContainerHeight' = IF y > room THEN room ELSE y
          /\ monitorGroupHeight' = room - y
          /\ unadjusted' = (y > room)
  /\ UNCHANGED <<server, asked, progress_, frame>>

horizontalDividerMouseUp ==
  /\ isMonitorGroupDividerDragging
  /\ isMonitorGroupDividerDragging' = FALSE
  /\ UNCHANGED <<server, asked, progress_, heights, windowHeight, widgets>>

\* The window's resize event calls resize, which computes no height.
WindowResized ==
  /\ windowHeight' \in WindowHeights \ {windowHeight}
  /\ unadjusted' = TRUE
  /\ UNCHANGED <<server, asked, progress_, mainContainerHeight,
                 monitorGroupHeight, isMonitorGroupDividerDragging, widgets>>

Progress ==
  \/ refreshProgressBars
  \/ \E s \in Slots : listProgressBars(s) \/ renderProgress(s)
  \/ \E k \in Kinds : DomRemoved(k)

LayoutNext ==
  \/ \E b \in Bars : CreateProgressBar(b) \/ CompleteProgressBar(b)
  \/ Progress
  \/ WidgetAdded \/ WidgetRemoved
  \/ monitorGroupDividerMouseDown \/ horizontalDividerMouseMove
  \/ horizontalDividerMouseUp \/ WindowResized

\* The timer fires, the server answers, answers arrive, animations end.
LayoutFairness ==
  /\ WF_layoutVars(refreshProgressBars)
  /\ \A s \in Slots : WF_layoutVars(listProgressBars(s) \/ renderProgress(s))
  /\ \A k \in Kinds : WF_layoutVars(DomRemoved(k))

LayoutSpec == LayoutInit /\ [][LayoutNext]_layoutVars /\ LayoutFairness

(***************************************************************************)
(* Properties                                                              *)
(***************************************************************************)
LayoutTypeOK ==
  /\ active \in SUBSET Bars /\ started \in BOOLEAN
  /\ asked \in [Slots -> [state : {"free", "sent", "served"},
                          bars : SUBSET Bars]]
  /\ mode \in Kinds
  /\ DOMAIN progressDoms \in SUBSET Bars
  /\ \A b \in DOMAIN progressDoms : progressDoms[b] \in Kinds
  /\ leaving \in [Kinds -> Nat]
  /\ windowHeight \in WindowHeights
  /\ mainContainerHeight \in Int /\ monitorGroupHeight \in Int
  /\ isMonitorGroupDividerDragging \in BOOLEAN /\ unadjusted \in BOOLEAN
  /\ widgets \in Nat

\* The three parts of the page fill the window: no bar that comes, goes or
\* turns into a pie is missed, until the window is resized or the divider is
\* dragged over the progress bars (which the code does not follow up).
PartsFillTheWindow ==
  ~unadjusted =>
    mainContainerHeight + monitorGroupHeight
      + OffsetHeight(progressDoms, leaving) = windowHeight

\* What is shown is all bars or all pies, after the number that is shown.
OneKindAtATime ==
  /\ \A b \in DOMAIN progressDoms : progressDoms[b] = mode
  /\ mode = ModeFor(DOMAIN progressDoms)

\* Both, after whatever sequence of answers, animations and drags.
LayoutSound == PartsFillTheWindow /\ OneKindAtATime

\* Once the simulation has no more bars to create or to complete, the page
\* comes to show exactly those there are, late answers notwithstanding.
ShowsWhatIsActive ==
  <>[][UNCHANGED server]_layoutVars =>
    <>[](started => DOMAIN progressDoms = active)
=============================================================================

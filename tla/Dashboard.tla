----------------------------- MODULE Dashboard -----------------------------
(***************************************************************************)
(* The dashboard of daisen (dashboard.ts) with the zooming of its widgets  *)
(* (mouseeventhandler.ts): a page of components that match a filter, in a  *)
(* grid that depends on the window and on the chat panel, all drawn over   *)
(* one range of time.  What is chosen is kept in the address, and read     *)
(* back from there whenever the two requests of render() are answered.     *)
(*                                                                         *)
(* A component is its position in the trace's list; a filter is the set of *)
(* components its expression finds, or one of the texts that are not an    *)
(* expression, such as one half typed.                                     *)
(***************************************************************************)
EXTENDS Integers, Sequences, SequencesExt, Filtering

CONSTANTS
  Served,         \* numbers of components a trace may have
  Everything,     \* the filter that is the empty string
  Filters,        \* the other filters typed
  Unreadable,     \* texts typed that are not a regular expression
  Axes,           \* _yAxisOptions
  TimeRanges,     \* ranges of time that are zoomed to
  FullRange,      \* the range of the simulation
  Absent,         \* a parameter the address lacks
  Widths,         \* widths of the window
  OpenedAt,       \* pages an address may ask for
  MaxPast,        \* bound: addresses to go back to
  MaxLoads        \* bound: requests, timers and listeners of one kind

ASSUME DashboardAssumption ==
  /\ Served \subseteq Nat /\ Widths \subseteq Nat /\ OpenedAt \subseteq Nat
  /\ FullRange \in TimeRanges
  /\ Absent \notin TimeRanges \cup Axes \cup Nat \cup Filters \cup {Everything}
  /\ Absent \notin Unreadable /\ Unreadable \cap (Filters \cup {Everything}) = {}
  /\ \A n \in Served : 1 .. n \subseteq Everything
  /\ {"ReqInCount", "AvgLatency"} \subseteq Axes
  /\ MaxPast \in Nat /\ MaxLoads \in Nat \ {0}

VARIABLES
  served,         \* how many components the trace has
  loaded,         \* _componentNames is set
  currFilter, currPage, axisOf, timeRange,
  filtered,       \* the filter that _filteredNames was made with
  numWidget, grid,  \* _numWidget; _numRow and _numCol
  widgets,        \* _widgets: each with its range and its mouse handler
  orphans,        \* scrolling timers of widgets that are gone, by their range
  buttons,        \* the page and the number of pages the page buttons were made for
  inputs,         \* the filter inputs of the tool bar and of the burger menu
  filterTimer,
  address, past,  \* the address, and those before it
  unwritten,      \* history: axes chosen and not written into the address
  width,          \* window.innerWidth
  listeners,      \* resize listeners that setCanvas has added
  loads,          \* calls of render() not answered
  resets,         \* calls of _resetZoom not answered
  panel,          \* the chat panel: in the page, its width, its timers
  envAsks         \* clicks on "Daisen Bot" not answered

chosen    == <<currFilter, filtered, currPage, axisOf, timeRange>>
layout    == <<numWidget, grid, widgets, orphans, buttons>>
url       == <<address, past, unwritten>>
chatPanel == <<panel, envAsks>>
dashVars  == <<served, loaded, chosen, layout, inputs, filterTimer, url, width, listeners,
               loads, resets, chatPanel>>

Sides == {"primary", "secondary"}
DefaultAxes == [primary |-> "ReqInCount", secondary |-> "AvgLatency"]
PanelWidth == 600
Expressions == Filters \cup Unreadable \cup {Everything}

-----------------------------------------------------------------------------
(***************************************************************************)
(* The grid and the page                                                   *)
(***************************************************************************)
rowTable == <<1, 1, 2, 2, 3, 3, 3, 3, 3, 4, 4, 4, 4, 4, 4, 4>>
Columns(space) == IF space >= 1500 THEN 4 ELSE IF space >= 1000 THEN 3 ELSE 2

\* _resetNumRowCol: the rows follow the number of widgets; the columns of its
\* table are always overridden by those for the width that is left.
resetNumRowCol(n, w, taken) ==
  [rows |-> IF n = 0 THEN 0 ELSE rowTable[n], cols |-> Columns(w - taken)]

Components(n) == [i \in 1 .. n |-> i]
Found(n, f) == Filter(Components(n), f)
filteredNames == Found(served, filtered)

OnPage(names, p, g) ==
  LET k == g.rows * g.cols IN SubSeq(names, p * k + 1, IF (p + 1) * k < Len(names) THEN (p + 1) * k ELSE Len(names))

\* 0 / 0 is not a number, and compares with none.
NotANumber == -1
NumPages(names, g) ==
  LET k == g.rows * g.cols IN IF k = 0 THEN NotANumber ELSE (Len(names) + k - 1) \div k

NoButtons == [page |-> 0, pages |-> 0]
addPageButtons(names, p, g) == [page |-> p, pages |-> NumPages(names, g)]

Lesser(a, b) == IF a < b THEN a ELSE b
Targets(b) ==
  IF b.pages = 0 THEN {}
  ELSE {0} \cup {p \in {b.page - 1} : b.page > 0}
       \cup {p \in 1 .. Lesser(b.pages - 2, b.page + 1) : p >= b.page - 1}
       \cup {p \in {b.pages - 1} : b.pages > 1}
       \cup {p \in {b.page + 1} : b.page < b.pages - 1}

-----------------------------------------------------------------------------
(***************************************************************************)
(* Widgets and their mouse handlers                                        *)
(***************************************************************************)
\* start: the range when it was last pressed, of no use before.  old: timers of
\* handlers that a new drawing replaced.  adrift (history): out of step with
\* the others, and nothing is left that would bring it in step.
Widget == [name : Everything, range : TimeRanges, start : TimeRanges, drag : BOOLEAN,
           moved : BOOLEAN, pinch : BOOLEAN, timer : BOOLEAN, old : 0 .. MaxLoads,
           adrift : BOOLEAN]

NewWidget(c, r) == [name |-> c, range |-> r, start |-> r, drag |-> FALSE, moved |-> FALSE,
                    pinch |-> FALSE, timer |-> FALSE, old |-> 0, adrift |-> FALSE]

Armed(w) == w.old + (IF w.timer THEN 1 ELSE 0)
Lost(w) == w.range # timeRange /\ Armed(w) = 0 /\ ~w.moved
Noted(w) == [w EXCEPT !.adrift = @ \/ Lost(w)]
Brought(r) == [i \in DOMAIN widgets |-> [widgets[i] EXCEPT !.range = r, !.adrift = FALSE]]
Sum(ws, r) == FoldSeq(LAMBDA w, n : n + (IF w.range = r THEN Armed(w) ELSE 0), 0, ws)

\* The widgets ws leave the page, and their timers go on.
Leave(ws) ==
  /\ orphans' = [r \in TimeRanges |-> orphans[r] + Sum(ws, r)]
  /\ \A r \in TimeRanges : orphans'[r] =< MaxLoads

\* _renderPage: new widgets in place of the old.  Making a widget counts the
\* rows and columns again.
renderPage(names, p, g, r, n, w, taken) ==
  LET cs == OnPage(names, p, g)
      g2 == IF cs = <<>> THEN g ELSE resetNumRowCol(n, w, taken)
  IN /\ widgets' = [i \in DOMAIN cs |-> NewWidget(cs[i], r)]
     /\ grid' = g2
     /\ buttons' = addPageButtons(names, p, g2)

\* setTimeRange: every widget is shifted and asks for its data.
SetRange(r) == timeRange' = r /\ widgets' = Brought(r)
setTimeRange(r) == SetRange(r) /\ address' = [address EXCEPT !.range = r]

pushState(a) ==
  /\ past' = Append(past, address) /\ Len(past') =< MaxPast
  /\ address' = a

-----------------------------------------------------------------------------
DashInit ==
  /\ served \in Served /\ loaded = FALSE
  /\ currFilter = Everything /\ filtered = Everything /\ currPage = 0
  /\ axisOf = DefaultAxes /\ timeRange = Absent
  /\ numWidget = 16 /\ width \in Widths
  /\ grid = resetNumRowCol(16, width, 0)
  /\ widgets = <<>> /\ orphans = [r \in TimeRanges |-> 0] /\ buttons = NoButtons
  /\ inputs = [bar |-> Everything, menu |-> Everything] /\ filterTimer = FALSE
  /\ \E p \in OpenedAt \cup {Absent} :
       address = [page |-> p, filter |-> Absent, axes |-> [s \in Sides |-> Absent],
                  range |-> Absent]
  /\ past = <<>> /\ unwritten = {}
  /\ listeners = 1 /\ loads = 1 /\ resets = 0
  /\ panel = [here |-> FALSE, taken |-> 0, opening |-> 0, closing |-> 0, closed |-> 0]
  /\ envAsks = 0

Or(parameter, default) == IF parameter = Absent THEN default ELSE parameter

\* _filter, with an expression that can be read.
applyFilter(f, p, r) ==
  LET names == Found(served, f)
      n == Lesser(Len(names), 16)
  IN /\ filtered' = f /\ numWidget' = n
     /\ renderPage(names, p, resetNumRowCol(n, width, panel.taken), r, n, width, panel.taken)

\* render() is answered: _getParamsFromURL, which brings the widgets there are
\* to the range of the address, then _filter.  If the address has a filter that
\* is no expression, new RegExp raises an exception: these widgets remain, and
\* the names are those of all components.
Answered ==
  /\ loads > 0 /\ loads' = loads - 1 /\ loaded' = TRUE
  /\ timeRange' = Or(address.range, FullRange)
  /\ address' = [address EXCEPT !.range = timeRange']
  /\ currPage' = Or(address.page, 0) /\ currFilter' = Or(address.filter, Everything)
  /\ axisOf' = [s \in Sides |-> Or(address.axes[s], DefaultAxes[s])]
  /\ inputs' = [inputs EXCEPT !.bar = currFilter']
  /\ IF currFilter' \in Unreadable
       THEN filtered' = Everything /\ widgets' = Brought(timeRange')
            /\ UNCHANGED <<numWidget, grid, orphans, buttons>>
       ELSE applyFilter(currFilter', currPage', timeRange') /\ Leave(Brought(timeRange'))
  /\ unwritten' = {}
  /\ UNCHANGED <<served, filterTimer, past, width, listeners, resets, chatPanel>>

-----------------------------------------------------------------------------
(***************************************************************************)
(* The tool bar                                                            *)
(***************************************************************************)
FilterTyped(where, f) ==
  /\ inputs' = [inputs EXCEPT ![where] = f] /\ filterTimer' = TRUE
  /\ UNCHANGED <<served, loaded, chosen, layout, url, width, listeners, loads, resets, chatPanel>>

\* A second later.  The two inputs have one id, so that of the tool bar is
\* read.  _filter raises an exception before the components are known, and when
\* the text is no expression: the page stays, but its number and its filter are
\* by then the new ones.
FilterExpires ==
  LET f == inputs.bar
  IN /\ filterTimer /\ filterTimer' = FALSE
     /\ currPage' = 0 /\ currFilter' = f
     /\ pushState([address EXCEPT !.filter = f, !.page = 0])
     /\ IF loaded /\ f \notin Unreadable
          THEN applyFilter(f, 0, timeRange) /\ Leave(widgets)
          ELSE UNCHANGED <<filtered, layout>>
     /\ UNCHANGED <<served, loaded, axisOf, timeRange, inputs, unwritten, width, listeners,
                    loads, resets, chatPanel>>

\* _switchPrimaryAxis, _switchSecondaryAxis.  The address is written once for
\* each widget on the page, none included.  A drawing from nothing brings a
\* mouse handler of its own.
AxisSelected(s, a) ==
  LET written == [address EXCEPT !.axes[s] = a]
      k == Len(widgets)
  IN /\ axisOf' = [axisOf EXCEPT ![s] = a]
     /\ IF k = 0 THEN UNCHANGED <<address, past>> /\ unwritten' = unwritten \cup {s}
        ELSE /\ address' = written /\ unwritten' = unwritten \ {s}
             /\ past' = Append(past, address) \o [i \in 1 .. k - 1 |-> written]
             /\ Len(past') =< MaxPast
     /\ widgets' = [i \in 1 .. k |->
          Noted([NewWidget(widgets[i].name, widgets[i].range) EXCEPT
                   !.old = Armed(widgets[i])])]
     /\ \A i \in 1 .. k : widgets'[i].old =< MaxLoads
     /\ UNCHANGED <<served, loaded, currFilter, filtered, currPage, timeRange, numWidget, grid,
                    orphans, buttons, inputs, filterTimer, width, listeners, loads, resets,
                    chatPanel>>

ResetClicked ==
  /\ resets < MaxLoads /\ resets' = resets + 1
  /\ UNCHANGED <<served, loaded, chosen, layout, inputs, filterTimer, url, width, listeners,
                 loads, chatPanel>>

rangeOnly == UNCHANGED <<served, loaded, currFilter, filtered, currPage, axisOf, numWidget, grid,
                         buttons, inputs, filterTimer, past, unwritten, width, listeners, loads,
                         chatPanel>>

ResetAnswered ==
  /\ resets > 0 /\ resets' = resets - 1
  /\ setTimeRange(FullRange) /\ rangeOnly /\ UNCHANGED orphans

\* _switchToPage: the slice is of the grid as it was, the buttons of the grid
\* as it is.
PageClicked(p) ==
  /\ loaded /\ p \in Targets(buttons)
  /\ currPage' = p
  /\ pushState([address EXCEPT !.page = p])
  /\ renderPage(filteredNames, p, grid, timeRange, numWidget, width, panel.taken)
  /\ Leave(widgets)
  /\ UNCHANGED <<served, loaded, currFilter, filtered, axisOf, timeRange, numWidget, inputs,
                 filterTimer, unwritten, width, listeners, loads, resets, chatPanel>>

\* popstate: route() renders what the address says.
Back ==
  /\ past # <<>> /\ loads < MaxLoads
  /\ address' = Last(past) /\ past' = Front(past) /\ loads' = loads + 1
  /\ UNCHANGED <<served, loaded, chosen, layout, inputs, filterTimer, unwritten, width,
                 listeners, resets, chatPanel>>

-----------------------------------------------------------------------------
(***************************************************************************)
(* Zooming: the mouse handler of widget i                                  *)
(***************************************************************************)
Touches(i, w) ==
  /\ widgets' = [widgets EXCEPT ![i] = w]
  /\ rangeOnly /\ UNCHANGED <<timeRange, orphans, address, resets>>

\* handleMouseDown, on a widget that may still be dragged since a button was
\* released outside of it.
MouseDown(i) ==
  LET w == widgets[i]
  IN Touches(i, Noted([w EXCEPT !.drag = TRUE, !.moved = FALSE, !.start = w.range]))

\* handleMouseDrag: along the axis the widget is moved.  Across it, by less
\* than a hundredth of a pixel along, it is put back where it was pressed
\* without being moved.
Dragged(w) ==
  {[w EXCEPT !.range = r, !.moved = TRUE] : r \in TimeRanges} \cup {[w EXCEPT !.range = w.start]}

MouseMove(i) == widgets[i].drag /\ \E w \in Dragged(widgets[i]) : Touches(i, Noted(w))

MouseWheel(i, r) == Touches(i, [widgets[i] EXCEPT !.range = r, !.timer = TRUE])

TouchStart(i, fingers) ==
  Touches(i, [widgets[i] EXCEPT !.drag = fingers = 1, !.pinch = fingers = 2,
                                !.start = widgets[i].range])

\* handleTouchDrag, then handlePinch.
Fingered(w) ==
  LET ws == IF w.drag THEN Dragged(w) ELSE {w}
  IN IF w.pinch THEN {[v EXCEPT !.range = r] : v \in ws, r \in TimeRanges} ELSE ws

\* Mutant: no timer, as for a mouse that will be released.
TouchMoveOnly(i) ==
  /\ widgets[i].drag \/ widgets[i].pinch
  /\ \E w \in Fingered(widgets[i]) : Touches(i, w)

TouchMove(i) ==
  /\ widgets[i].drag \/ widgets[i].pinch
  /\ \E w \in Fingered(widgets[i]) : Touches(i, [w EXCEPT !.timer = TRUE])

TouchEnd(i) == Touches(i, [widgets[i] EXCEPT !.drag = FALSE, !.pinch = FALSE])

\* handleMouseUp: a widget that was moved has its range taken by all, by
\* triggerReload and permanentTimeShift.
MouseUp(i) ==
  /\ IF widgets[i].moved
     THEN /\ timeRange' = widgets[i].range
          /\ widgets' = [j \in DOMAIN widgets |->
                           [widgets[j] EXCEPT !.range = timeRange', !.adrift = FALSE,
                                              !.drag = @ /\ j # i]]
          /\ address' = [address EXCEPT !.range = timeRange']
          /\ rangeOnly /\ UNCHANGED <<orphans, resets>>
     ELSE Touches(i, [widgets[i] EXCEPT !.drag = FALSE])

\* A scrolling timer of a widget on the page, or of one that is gone, expires.
TimerExpires(i) ==
  /\ Armed(widgets[i]) > 0
  /\ timeRange' = widgets[i].range
  /\ address' = [address EXCEPT !.range = timeRange']
  /\ \E w \in {[widgets[i] EXCEPT !.timer = FALSE], [widgets[i] EXCEPT !.old = @ - 1]} :
       /\ w \in Widget /\ Armed(w) < Armed(widgets[i])
       /\ widgets' = [j \in DOMAIN widgets |->
                        [(IF j = i THEN w ELSE widgets[j]) EXCEPT !.range = timeRange',
                                                                  !.adrift = FALSE]]
  /\ rangeOnly /\ UNCHANGED <<orphans, resets>>

OrphanExpires(r) ==
  /\ orphans[r] > 0 /\ orphans' = [orphans EXCEPT ![r] = @ - 1]
  /\ setTimeRange(r) /\ rangeOnly /\ UNCHANGED resets

-----------------------------------------------------------------------------
(***************************************************************************)
(* The window and the chat panel                                           *)
(***************************************************************************)
\* Each resize lays the page out anew, which clears the tool bar and adds a
\* listener; the listeners there were each bring the widgets to the page's range
\* and render the dashboard.  An open chat panel has a listener of its own, that
\* renders the page at once.
WindowResized(w) ==
  /\ w # width /\ width' = w
  /\ listeners' = listeners + 1 /\ listeners =< MaxLoads
  /\ loads' = loads + listeners /\ loads' =< MaxLoads + 1
  /\ inputs' = [bar |-> Everything, menu |-> Everything]
  /\ LET g == resetNumRowCol(numWidget, w, panel.taken)
     IN IF panel.here
        THEN /\ renderPage(filteredNames, currPage, g, timeRange, numWidget, w, panel.taken)
             /\ Leave(Brought(timeRange))
        ELSE grid' = g /\ widgets' = Brought(timeRange) /\ UNCHANGED <<orphans, buttons>>
  /\ UNCHANGED <<served, loaded, chosen, numWidget, filterTimer, url, resets, chatPanel>>

panelOnly == UNCHANGED <<served, loaded, chosen, numWidget, inputs, filterTimer, url, width,
                         listeners, loads, resets>>

\* The button stands beside the page buttons.
ChatClicked ==
  /\ loaded /\ buttons # NoButtons /\ ~panel.here /\ envAsks < MaxLoads
  /\ envAsks' = envAsks + 1 /\ panelOnly /\ UNCHANGED <<grid, widgets, orphans, buttons, panel>>

\* The .env file is there, or the user goes on without: _onChatPanelOpen, unless
\* an earlier click has opened the panel.
EnvAnswered(goOn) ==
  /\ envAsks > 0 /\ envAsks' = envAsks - 1
  /\ IF goOn /\ ~panel.here
     THEN /\ panel' = [panel EXCEPT !.here = TRUE, !.taken = PanelWidth, !.opening = @ + 1]
          /\ panel'.opening =< MaxLoads
          /\ buttons' = addPageButtons(filteredNames, currPage, grid)
     ELSE UNCHANGED <<panel, buttons>>
  /\ panelOnly /\ UNCHANGED <<grid, widgets, orphans>>

\* _resize, _renderPage
resizeAndRender ==
  /\ renderPage(filteredNames, currPage, resetNumRowCol(numWidget, width, panel.taken),
                timeRange, numWidget, width, panel.taken)
  /\ Leave(widgets)

OpeningEnds ==
  /\ panel.opening > 0 /\ panel' = [panel EXCEPT !.opening = @ - 1]
  /\ resizeAndRender /\ panelOnly /\ UNCHANGED envAsks

CloseClicked ==
  /\ panel.here /\ panel.closing < MaxLoads
  /\ panel' = [panel EXCEPT !.closing = @ + 1]
  /\ panelOnly /\ UNCHANGED <<grid, widgets, orphans, buttons, envAsks>>

\* 200 ms later the panel leaves, and another 200 ms later the page follows.
ClosingEnds ==
  /\ panel.closing > 0 /\ panel.closed < MaxLoads
  /\ panel' = [panel EXCEPT !.here = FALSE, !.taken = 0, !.closing = @ - 1, !.closed = @ + 1]
  /\ buttons' = addPageButtons(filteredNames, currPage, grid)
  /\ panelOnly /\ UNCHANGED <<grid, widgets, orphans, envAsks>>

\* Mutant: the widgets are resized and the page is not rendered.
ClosedEndsResized ==
  /\ panel.closed > 0 /\ panel' = [panel EXCEPT !.closed = @ - 1]
  /\ grid' = resetNumRowCol(numWidget, width, panel.taken)
  /\ panelOnly /\ UNCHANGED <<envAsks, widgets, orphans, buttons>>

ClosedEnds ==
  /\ panel.closed > 0 /\ panel' = [panel EXCEPT !.closed = @ - 1]
  /\ resizeAndRender /\ panelOnly /\ UNCHANGED envAsks

-----------------------------------------------------------------------------
Paging ==
  \/ Answered \/ FilterExpires \/ Back
  \/ \E where \in {"bar", "menu"}, f \in Expressions : FilterTyped(where, f)
  \/ \E p \in Targets(buttons) : PageClicked(p)

Choosing == \E s \in Sides, a \in Axes : AxisSelected(s, a)

Restoring == ResetClicked \/ ResetAnswered \/ \E r \in TimeRanges : OrphanExpires(r)

Mouse ==
  \/ Restoring
  \/ \E i \in DOMAIN widgets :
       \/ MouseDown(i) \/ MouseUp(i) \/ TimerExpires(i)
       \/ MouseMove(i) \/ \E r \in TimeRanges : MouseWheel(i, r)

Touch ==
  \/ Restoring
  \/ \E i \in DOMAIN widgets :
       \/ TouchEnd(i) \/ TouchMove(i) \/ TimerExpires(i)
       \/ \E fingers \in {1, 2} : TouchStart(i, fingers)

Resizing ==
  \/ \E w \in Widths : WindowResized(w)
  \/ ChatClicked \/ OpeningEnds \/ CloseClicked \/ ClosingEnds \/ ClosedEnds
  \/ \E goOn \in BOOLEAN : EnvAnswered(goOn)

DashNext == Paging \/ Choosing \/ Mouse \/ Touch \/ Resizing

DashSpec == DashInit /\ [][DashNext]_dashVars

-----------------------------------------------------------------------------
DashTypeOK ==
  /\ served \in Served /\ loaded \in BOOLEAN /\ numWidget \in 0 .. 16
  /\ currFilter \in Expressions /\ filtered \in Expressions \ Unreadable /\ currPage \in Nat
  /\ axisOf \in [Sides -> Axes] /\ timeRange \in TimeRanges \cup {Absent}
  /\ loaded => timeRange \in TimeRanges
  /\ widgets \in Seq(Widget) /\ Len(widgets) =< 16
  /\ orphans \in [TimeRanges -> 0 .. MaxLoads]
  /\ buttons \in [page : Nat, pages : {NotANumber} \cup Nat]
  /\ inputs \in [{"bar", "menu"} -> Expressions] /\ filterTimer \in BOOLEAN
  /\ Len(past) =< MaxPast /\ unwritten \subseteq Sides
  /\ panel.taken = (IF panel.here THEN PanelWidth ELSE 0)
  /\ {panel.opening, panel.closing, panel.closed, envAsks, resets} \subseteq 0 .. MaxLoads
  /\ loads \in 0 .. MaxLoads + 1

\* Once the timers of the chat panel have expired, the grid is that of the
\* number of widgets and of the room that window and chat panel leave; and once
\* render() is answered too, unless the filter is no expression, the page shows
\* the components of its number in that grid, and its buttons lead to that
\* grid's pages.
PageShown ==
  panel.opening + panel.closing + panel.closed = 0 =>
    /\ grid = resetNumRowCol(numWidget, width, panel.taken)
    /\ loaded /\ loads = 0 /\ currFilter \notin Unreadable =>
         LET names == Found(served, currFilter)
         IN /\ numWidget = Lesser(Len(names), 16)
            /\ [i \in DOMAIN widgets |-> widgets[i].name] = OnPage(names, currPage, grid)
            /\ buttons = addPageButtons(names, currPage, grid)

\* Reading the address back changes nothing: the page, the filter, the range
\* and the axes are those it tells, but for axes chosen with no widget on the
\* page.
AddressTells ==
  loaded /\ loads = 0 =>
    /\ currPage = Or(address.page, 0) /\ currFilter = Or(address.filter, Everything)
    /\ timeRange = address.range
    /\ \A s \in Sides \ unwritten : axisOf[s] = Or(address.axes[s], DefaultAxes[s])

\* What is shown, what is chosen and what the address tells agree.
PageAgrees == PageShown /\ AddressTells

\* The widgets are over one range of time, except while one is being moved or
\* has a timer that will bring the others after it; or when what should have
\* done so is lost: a second press without a release, an axis chosen between,
\* or a drag along the axis of no length, which puts the widget back to the
\* range it was pressed at although the page has taken another one meanwhile.
RangesShared ==
  \A i \in DOMAIN widgets :
    widgets[i].range # timeRange =>
      Armed(widgets[i]) > 0 \/ widgets[i].moved \/ widgets[i].adrift
==============================================================================

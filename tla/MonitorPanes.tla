---------------------------- MODULE MonitorPanes ----------------------------
(***************************************************************************)
(* The rest of the monitor's page: the tree of components on the left      *)
(* (component_tree.ts), the right pane, which the hang analyzer            *)
(* (hang_analyzer.ts) and the profile (resource.ts) take from each other,  *)
(* and the button that starts and stops tracing (tracing.ts) with the      *)
(* server's side of it (monitoring/monitor.go, tracing/dbtracer.go).       *)
(*                                                                         *)
(* Requests are kept in the order in which the server served them; their   *)
(* answers arrive in any order.                                            *)
(***************************************************************************)
EXTENDS Integers, Sequences, SequencesExt, FiniteSets, Filtering

CONSTANTS
  Trees,       \* sets of component names, a name being a sequence of tokens
  MaxBuffers,  \* bound: buffer lists on their way
  MaxClicks,   \* bound: clicks on the trace button
  MaxClock     \* bound: simulation time

\* No component is built without a name, nor with an empty token in it
\* (NameMustBeValid in sim/tokenizedname.go).
ASSUME PanesAssumption ==
  /\ \A t \in Trees : IsFiniteSet(t)
  /\ \A n \in UNION Trees :
       n \in Seq(ToSet(n)) /\ n # <<>> /\ "" \notin ToSet(n)
  /\ {MaxBuffers, MaxClicks, MaxClock} \subseteq Nat

VARIABLES
  \* the tree
  names, opened,
  \* the right pane
  pane, running, sort, label, highlighted, table, buffers, profiles,
  tableOvertaken, rebuilt,     \* history
  \* the server's tracer
  hasTracer, isTracing, tracingStartTime, segments, clock,
  \* the trace button
  handler, tracing, toggles, clicks,
  together, lost                    \* history

tree   == <<names, opened>>
right  == <<pane, running, sort, label, highlighted, table, buffers, profiles,
            tableOvertaken, rebuilt>>
tracer == <<hasTracer, isTracing, tracingStartTime, segments, clock>>
button == <<handler, tracing, toggles, clicks, together, lost>>
paneVars == <<tree, right, tracer, button>>

NoTable == "none"
Sorts == {"level", "percent"}

PanesInit ==
  /\ names \in Trees /\ opened = {}
  /\ pane = "empty" /\ running = FALSE /\ sort = "level"
  /\ label = "Stop Refresh" /\ highlighted = "level" /\ table = NoTable
  /\ buffers = <<>> /\ profiles = 0
  /\ tableOvertaken = FALSE /\ rebuilt = FALSE
  /\ hasTracer \in BOOLEAN /\ isTracing \in (IF hasTracer THEN BOOLEAN ELSE {FALSE})
  /\ tracingStartTime = 0 /\ segments = <<>> /\ clock = 0
  /\ handler = "none" /\ tracing = FALSE /\ clicks = 0
  /\ toggles = <<[kind |-> "status", state |-> "sent", value |-> FALSE]>>
  /\ together = FALSE /\ lost = FALSE

(***************************************************************************)
(* The tree                                                                *)
(***************************************************************************)
\* createTree: a node is the path to it.
Nodes(comps) == UNION {{SubSeq(n, 1, k) : k \in 1 .. Len(n)} : n \in comps}
children(comps, p) ==
  {q \in Nodes(comps) : Len(q) = Len(p) + 1 /\ SubSeq(q, 1, Len(p)) = p}

\* fullName: the tokens up to the root, empty ones left out.
fullName(p) == Filter(p, ToSet(p) \ {""})

\* displayComponent: only a node without children opens a component's view.
Open(p) ==
  /\ children(names, p) = {}
  /\ opened' = opened \cup {fullName(p)}
  /\ UNCHANGED <<names, right, tracer, button>>

(***************************************************************************)
(* The right pane                                                          *)
(***************************************************************************)
\* showBufferList.
Ask(key) ==
  /\ Len(buffers) < MaxBuffers
  /\ buffers' = Append(buffers, key)

startAnalyzing == Ask(sort) /\ running' = TRUE

\* prepareDom builds the pane anew and leaves the sort key alone.
AnalyzeClicked ==
  /\ pane' = "hang" /\ label' = "Stop Refresh"
  /\ highlighted' = "level" /\ table' = NoTable
  /\ rebuilt' = (sort # "level")
  /\ startAnalyzing
  /\ UNCHANGED <<sort, profiles, tableOvertaken, tree, tracer, button>>

\* Mutant: the new order shows with the next refresh.
SortLater(key) ==
  /\ pane = "hang"
  /\ sort' = key /\ highlighted' = key /\ rebuilt' = FALSE
  /\ UNCHANGED <<pane, running, label, table, buffers, profiles, tableOvertaken, tree, tracer, button>>

SortClicked(key) ==
  /\ pane = "hang"
  /\ sort' = key /\ highlighted' = key /\ rebuilt' = FALSE
  /\ Ask(key)
  /\ UNCHANGED <<pane, running, label, table, profiles, tableOvertaken,
                 tree, tracer, button>>

RefreshClicked ==
  /\ pane = "hang"
  /\ IF running
       THEN /\ running' = FALSE /\ label' = "Auto Refresh"
            /\ UNCHANGED buffers
       ELSE /\ startAnalyzing /\ label' = "Stop Refresh"
  /\ UNCHANGED <<pane, sort, highlighted, table, profiles, tableOvertaken, rebuilt, tree, tracer, button>>

RefreshTimer ==
  /\ running
  /\ Ask(sort)
  /\ UNCHANGED <<pane, running, sort, label, highlighted, table, profiles,
                 tableOvertaken, rebuilt, tree, tracer, button>>

\* Without the analyzer's table on the page the answer raises an error, which
\* nothing catches and which changes nothing.
BuffersArrive(i) ==
  /\ buffers' = RemoveAt(buffers, i)
  /\ table' = IF pane = "hang" THEN buffers[i] ELSE table
  /\ tableOvertaken' = (tableOvertaken \/ i # 1)
  /\ UNCHANGED <<pane, running, sort, label, highlighted, profiles, rebuilt, tree, tracer, button>>

getProfilingResult ==
  /\ profiles = 0 /\ profiles' = 1
  /\ UNCHANGED <<pane, running, sort, label, highlighted, table, buffers,
                 tableOvertaken, rebuilt, tree, tracer, button>>

\* visualizePProfNetwork takes the pane; the analyzer's timer goes on.
ProfileArrives ==
  /\ profiles = 1 /\ profiles' = 0
  /\ pane' = "profile" /\ table' = NoTable
  /\ UNCHANGED <<running, sort, label, highlighted, buffers, tableOvertaken,
                 rebuilt, tree, tracer, button>>

(***************************************************************************)
(* Tracing                                                                 *)
(***************************************************************************)
SimulationRuns ==
  /\ clock < MaxClock /\ clock' = clock + 1
  /\ UNCHANGED <<hasTracer, isTracing, tracingStartTime, segments, button,
                 tree, right>>

Toggle(i) == toggles[i].kind # "status"
Answered(t, v) == [t EXCEPT !.state = "served", !.value = v]

StartTracing ==
  /\ isTracing' = TRUE /\ tracingStartTime' = clock
  /\ UNCHANGED segments

\* A segment is written at every stop.
StopTracing ==
  /\ isTracing' = FALSE
  /\ segments' = Append(segments, [from |-> tracingStartTime, to |-> clock])
  /\ UNCHANGED tracingStartTime

\* apiTraceStart, apiTraceEnd, apiTraceIsTracing: without a tracer the first
\* two answer with an error status, which is an answer.
TraceServed(i) ==
  /\ toggles[i].state = "sent"
  /\ IF hasTracer /\ toggles[i].kind = "start" THEN StartTracing
     ELSE IF hasTracer /\ toggles[i].kind = "end" THEN StopTracing
     ELSE UNCHANGED <<isTracing, tracingStartTime, segments>>
  /\ toggles' = [toggles EXCEPT ![i] = Answered(@, isTracing)]
  /\ UNCHANGED <<hasTracer, clock, handler, tracing, clicks, together, lost,
                 tree, right>>

\* A request that did not get through.
TraceNotServed(i) ==
  /\ toggles[i].state = "sent"
  /\ toggles' = [toggles EXCEPT ![i].state = "failed"]
  /\ UNCHANGED <<tracer, handler, tracing, clicks, together, lost, tree,
                 right>>

StatusArrives(i) ==
  /\ ~Toggle(i) /\ toggles[i].state = "served"
  /\ handler' = "online" /\ tracing' = toggles[i].value
  /\ toggles' = RemoveAt(toggles, i)
  /\ UNCHANGED <<tracer, clicks, together, lost, tree, right>>

StatusFails(i) ==
  /\ ~Toggle(i) /\ toggles[i].state # "sent"
  /\ handler' = "offline" /\ tracing' = FALSE
  /\ toggles' = RemoveAt(toggles, i)
  /\ UNCHANGED <<tracer, clicks, together, lost, tree, right>>

\* Mutant: the button turns when it is clicked.
TraceClickedEagerly ==
  /\ handler = "online" /\ clicks < MaxClicks
  /\ clicks' = clicks + 1
  /\ tracing' = ~tracing
  /\ toggles' = Append(toggles, [kind |-> IF tracing THEN "end" ELSE "start",
                                 state |-> "sent", value |-> FALSE])
  /\ together' = (together \/ toggles # <<>>)
  /\ UNCHANGED <<tracer, handler, lost, tree, right>>

\* handleClick reads tracing here and sets it when its own answer comes.
TraceClicked ==
  /\ handler = "online" /\ clicks < MaxClicks
  /\ clicks' = clicks + 1
  /\ toggles' = Append(toggles, [kind |-> IF tracing THEN "end" ELSE "start",
                                 state |-> "sent", value |-> FALSE])
  /\ together' = (together \/ toggles # <<>>)
  /\ UNCHANGED <<tracer, handler, tracing, lost, tree, right>>

ToggleArrives(i) ==
  /\ Toggle(i) /\ toggles[i].state = "served"
  /\ tracing' = (toggles[i].kind = "start")
  /\ toggles' = RemoveAt(toggles, i)
  /\ UNCHANGED <<tracer, handler, clicks, together, lost, tree, right>>

\* The fetch is rejected, before or after the server has acted.
ToggleFails(i) ==
  /\ Toggle(i) /\ toggles[i].state # "sent"
  /\ lost' = (lost \/ toggles[i].state = "served")
  /\ toggles' = RemoveAt(toggles, i)
  /\ UNCHANGED <<tracer, handler, tracing, clicks, together, tree, right>>

OfflineClicked ==
  /\ handler = "offline" /\ tracing' = ~tracing
  /\ UNCHANGED <<tracer, handler, toggles, clicks, together, lost, tree,
                 right>>

Tree == \E p \in Nodes(names) : Open(p)

RightPane ==
  \/ AnalyzeClicked \/ RefreshClicked \/ RefreshTimer
  \/ \E key \in Sorts : SortClicked(key)
  \/ \E i \in DOMAIN buffers : BuffersArrive(i)
  \/ getProfilingResult \/ ProfileArrives

TraceButton ==
  \/ SimulationRuns \/ TraceClicked \/ OfflineClicked
  \/ \E i \in DOMAIN toggles :
       \/ TraceServed(i) \/ TraceNotServed(i)
       \/ StatusArrives(i) \/ StatusFails(i)
       \/ ToggleArrives(i) \/ ToggleFails(i)

PanesNext == Tree \/ RightPane \/ TraceButton

PanesSpec == PanesInit /\ [][PanesNext]_paneVars

(***************************************************************************)
(* Properties                                                              *)
(***************************************************************************)
PanesTypeOK ==
  /\ names \in Trees
  /\ pane \in {"empty", "hang", "profile"} /\ running \in BOOLEAN
  /\ sort \in Sorts /\ highlighted \in Sorts
  /\ label \in {"Stop Refresh", "Auto Refresh"}
  /\ table \in Sorts \cup {NoTable} /\ buffers \in Seq(Sorts)
  /\ profiles \in {0, 1}
  /\ {tableOvertaken, rebuilt, together, lost} \subseteq BOOLEAN
  /\ {hasTracer, isTracing, tracing} \subseteq BOOLEAN
  /\ tracingStartTime \in 0 .. clock /\ clock \in 0 .. MaxClock
  /\ segments \in Seq([from : Nat, to : Nat])
  /\ handler \in {"none", "online", "offline"} /\ clicks \in Nat
  /\ toggles \in Seq([kind : {"status", "start", "end"},
                      state : {"sent", "served", "failed"},
                      value : BOOLEAN])

\* What the tree asks the server for is a component it named, and every
\* component can be asked for but one whose name is the beginning of others'.
TreeOpensComponents ==
  /\ opened \subseteq names
  /\ \A n \in names :
       n \in {fullName(p) : p \in {q \in Nodes(names) : children(names, q) = {}}}
         \/ \E m \in names : IsStrictPrefix(n, m)

\* The button that stops the refreshing says so exactly when there is
\* something to stop, also after the analyzer was opened again.
ButtonTellsRefresh ==
  pane = "hang" => (running <=> label = "Stop Refresh")

\* When no answer is outstanding, the table is in the order the user has
\* chosen, unless answers overtook each other, and the chosen order is the
\* highlighted one, unless the pane was built anew while it was another one.
TableFollowsSort ==
  pane = "hang" /\ buffers = <<>> /\ ~tableOvertaken =>
    table = sort /\ (~rebuilt => highlighted = sort)

\* The tree, the analyzer's button and its table tell the truth.
PanesAgree == TreeOpensComponents /\ ButtonTellsRefresh /\ TableFollowsSort

\* With no click on its way, the button tells whether the server traces,
\* unless two clicks were on their way together or an answer was lost.
ButtonTellsTracing ==
  handler = "online" /\ hasTracer /\ toggles = <<>> /\ ~together /\ ~lost =>
    tracing = isTracing

\* A segment is the time between a start and the stop after it: unless clicks
\* were on their way together or an answer was lost, none overlaps another.
SegmentsDisjoint ==
  ~together /\ ~lost =>
    \A i \in 1 .. Len(segments) :
      /\ segments[i].from =< segments[i].to
      /\ i > 1 => segments[i - 1].to =< segments[i].from

\* The button and the recorded segments follow the clicks that got through.
TracingAgrees == ButtonTellsTracing /\ SegmentsDisjoint
=============================================================================

--------------------------- MODULE MonitorWidgets ---------------------------
(***************************************************************************)
(* The component view in the middle of the monitor's page (component.ts)   *)
(* and the values of it that are watched in widgets below (monitor.ts).    *)
(*                                                                         *)
(* A component is shown when the answer to its request arrives, which may  *)
(* be after that of a component asked for later.  A flag in the view adds  *)
(* or removes the widget of a field; the widget's own cross removes it as  *)
(* well.  Every widget asks for its value once a second and draws what     *)
(* comes back, in the order in which it comes back.                        *)
(***************************************************************************)
EXTENDS Integers, Sequences, SequencesExt, FiniteSets, Filtering

CONSTANTS
  Components,   \* names in the tree on the left
  Fields,       \* fields of a component that can be watched
  Inner,        \* those inside a field that has to be expanded to see them
  NoComponent,  \* nothing is shown yet
  MaxAsked,     \* bound: component views on their way
  MaxWidgets,   \* bound: widgets ever made
  MaxUpdates,   \* bound: values on their way
  MaxNow,       \* bound: simulation time
  MaxData       \* samples a widget keeps (300 in the code)

ASSUME WidgetsAssumption ==
  /\ NoComponent \notin Components /\ Inner \subseteq Fields
  /\ {MaxAsked, MaxWidgets, MaxUpdates, MaxNow} \subseteq Nat
  /\ MaxData \in Nat \ {0}

VARIABLES
  details,      \* components asked for, in the order of asking
  shown,        \* the component in the central pane
  flags,        \* the fields whose flag is solid there
  crossed,      \* history: of those, the ones whose widget was closed
  expanded,     \* whether the field around the inner ones is expanded
  filled,       \* whether its contents have come
  fieldAsks,    \* requests for them of this view on their way
  list,         \* Monitor.widgets
  doms,         \* the widgets in monitor-group-container
  timers,       \* the widgets whose interval is running
  made,         \* history: widgets made
  updates,      \* values read and not drawn, in the order of reading
  data,         \* the samples of each widget
  overtaken,    \* history: the widgets for which an answer overtook another
  now           \* simulation time

inside  == <<expanded, filled, fieldAsks>>
view    == <<details, shown, flags, crossed, inside>>
widgets_ == <<list, doms, timers, made>>
values  == <<updates, data, overtaken>>
widgetVars == <<view, widgets_, values, now>>

WidgetID == 1 .. MaxWidgets
Widget == [id : WidgetID, component : Components, field : Fields]

WidgetsInit ==
  /\ details = <<>> /\ shown = NoComponent /\ flags = {} /\ crossed = {}
  /\ expanded = FALSE /\ filled = FALSE /\ fieldAsks = 0
  /\ list = <<>> /\ doms = {} /\ timers = {} /\ made = 0
  /\ updates = <<>> /\ data = [w \in WidgetID |-> <<>>] /\ overtaken = {}
  /\ now = 0

(***************************************************************************)
(* The component view                                                      *)
(***************************************************************************)
populate(c) ==
  /\ Len(details) < MaxAsked
  /\ details' = Append(details, c)
  /\ UNCHANGED <<shown, flags, crossed, inside, widgets_, values, now>>

\* showContent and what it calls: an element is cleared and its rows built
\* anew, each field of a kind that can be watched with its flag off.
Rebuild(fields) ==
  flags' = flags \ fields /\ crossed' = crossed \ fields

\* showComponent builds the view anew, with every flag off.  What was asked
\* for the old view fills an element that is no longer on the page.
showComponent(i) ==
  /\ shown' = details[i]
  /\ details' = RemoveAt(details, i)
  /\ Rebuild(Fields)
  /\ expanded' = FALSE /\ filled' = FALSE /\ fieldAsks' = 0
  /\ UNCHANGED <<widgets_, values, now>>

\* A click on a field that has contents: each time it opens they are asked
\* for anew, and nothing is asked when it closes.
expand ==
  /\ shown # NoComponent
  /\ expanded' = ~expanded
  /\ IF expanded THEN UNCHANGED fieldAsks
                 ELSE fieldAsks < MaxAsked /\ fieldAsks' = fieldAsks + 1
  /\ UNCHANGED <<details, shown, flags, crossed, filled, widgets_, values,
                 now>>

showField ==
  /\ fieldAsks > 0 /\ fieldAsks' = fieldAsks - 1
  /\ filled' = TRUE
  /\ Rebuild(Inner)
  /\ UNCHANGED <<details, shown, expanded, widgets_, values, now>>

(***************************************************************************)
(* Widgets                                                                 *)
(***************************************************************************)
Matches(w, c, f) == w.component = c /\ w.field = f
Of(c, f) == {i \in DOMAIN list : Matches(list[i], c, f)}

\* getWidget, the first there is; some widget of this field must exist.
getWidget(c, f) == list[CHOOSE i \in Of(c, f) : \A j \in Of(c, f) : i =< j]

addWidget(c, f) ==
  LET w == [id |-> made + 1, component |-> c, field |-> f]
  IN /\ made < MaxWidgets
     /\ made' = made + 1
     /\ list' = Append(list, w)
     /\ doms' = doms \cup {w.id}
     /\ timers' = timers \cup {w.id}

\* Mutant: all widgets of the field leave the list.
Others(w) == Filter(list, {x \in ToSet(list) : ~Matches(x, w.component, w.field)})

Rest(w) == Filter(list, ToSet(list) \ {w})

removeWidget(c, f) ==
  /\ UNCHANGED made
  /\ IF Of(c, f) = {}
       THEN UNCHANGED <<list, doms, timers>>
       ELSE LET w == getWidget(c, f)
            IN /\ timers' = timers \ {w.id}
               /\ doms' = doms \ {w.id}
               /\ list' = Rest(w)

Visible(f) == shown # NoComponent /\ (f \in Inner => expanded /\ filled)

FlagOn(f) ==
  /\ Visible(f) /\ f \notin flags
  /\ flags' = flags \cup {f} /\ crossed' = crossed \ {f}
  /\ addWidget(shown, f)
  /\ UNCHANGED <<details, shown, inside, values, now>>

FlagOff(f) ==
  /\ Visible(f) /\ f \in flags
  /\ flags' = flags \ {f} /\ crossed' = crossed \ {f}
  /\ removeWidget(shown, f)
  /\ UNCHANGED <<details, shown, inside, values, now>>

\* The cross of widget w: it removes the first widget of w's field, which is
\* another one when the field is watched twice.
Close(w) ==
  /\ w.id \in doms
  /\ removeWidget(w.component, w.field)
  /\ crossed' = IF w.component = shown THEN crossed \cup ({w.field} \cap flags)
                                       ELSE crossed
  /\ UNCHANGED <<details, shown, flags, inside, values, now>>

(***************************************************************************)
(* Values                                                                  *)
(***************************************************************************)
\* updateChart, up to the server's reading of the value and the time.
updateChart(w) ==
  /\ w \in timers
  /\ Len(updates) < MaxUpdates
  /\ updates' = Append(updates, [widget |-> w, at |-> now])
  /\ UNCHANGED <<view, widgets_, data, overtaken, now>>

\* A full window forgets its oldest sample.
Push(samples, t) ==
  IF Len(samples) = MaxData THEN Append(Tail(samples), t)
                            ELSE Append(samples, t)

\* The answer is drawn also when the widget is gone by then.
render(i) ==
  LET u == updates[i]
  IN /\ updates' = RemoveAt(updates, i)
     /\ data' = [data EXCEPT ![u.widget] = Push(@, u.at)]
     /\ overtaken' =
          IF \E j \in 1 .. i - 1 : updates[j].widget = u.widget
            THEN overtaken \cup {u.widget} ELSE overtaken
     /\ UNCHANGED <<view, widgets_, now>>

SimulationAdvances ==
  /\ now < MaxNow /\ now' = now + 1
  /\ UNCHANGED <<view, widgets_, values>>

WidgetsNext ==
  \/ \E c \in Components : populate(c)
  \/ \E i \in DOMAIN details : showComponent(i)
  \/ expand \/ showField
  \/ \E f \in Fields : FlagOn(f) \/ FlagOff(f)
  \/ \E i \in DOMAIN list : Close(list[i])
  \/ \E w \in WidgetID : updateChart(w)
  \/ \E i \in DOMAIN updates : render(i)
  \/ SimulationAdvances

WidgetsSpec == WidgetsInit /\ [][WidgetsNext]_widgetVars

(***************************************************************************)
(* Properties                                                              *)
(***************************************************************************)
WidgetsTypeOK ==
  /\ details \in Seq(Components) /\ shown \in Components \cup {NoComponent}
  /\ flags \in SUBSET Fields /\ crossed \in SUBSET flags
  /\ expanded \in BOOLEAN /\ filled \in BOOLEAN /\ fieldAsks \in Nat
  /\ list \in Seq(Widget)
  /\ doms \in SUBSET WidgetID /\ timers \in SUBSET WidgetID
  /\ made \in 0 .. MaxWidgets
  /\ updates \in Seq([widget : WidgetID, at : Nat])
  /\ data \in [WidgetID -> Seq(Nat)]
  /\ overtaken \in SUBSET WidgetID /\ now \in Nat

\* Whatever is flagged, closed and shown again in whatever order, the list,
\* the page and the running timers hold the same widgets: no timer goes on
\* for a widget nobody can close.
NoOrphanTimer ==
  /\ doms = {list[i].id : i \in DOMAIN list}
  /\ timers = doms

\* A solid flag has its widget, unless the widget was closed by its cross.
FlagHasWidget ==
  \A f \in flags \ crossed : Of(shown, f) # {}

\* A chart shows its samples in the order of time, and no older one after a
\* newer one was dropped, unless an answer overtook another.
SamplesInOrder ==
  \A w \in WidgetID \ overtaken :
    \A i \in 1 .. Len(data[w]) - 1 : data[w][i] =< data[w][i + 1]

\* The list, the page, the timers, the flags and the charts agree.
WidgetsAgree == NoOrphanTimer /\ FlagHasWidget /\ SamplesInOrder
=============================================================================

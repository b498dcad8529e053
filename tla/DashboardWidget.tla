-------------------------- MODULE DashboardWidget --------------------------
(***************************************************************************)
(* What one widget of daisen's dashboard draws (widget.ts).  Each drawing  *)
(* asks for the data of both axes; an answer is stored in the widget, but  *)
(* drawn into the picture it was asked for, which a change of axis has     *)
(* perhaps replaced.  Moving the range draws the stored data again, into   *)
(* the picture there is.                                                   *)
(***************************************************************************)
EXTENDS Integers, FiniteSets

CONSTANTS
  Plots,        \* the kinds of data: info_type
  Skipped,      \* "-", no axis
  Spans,        \* ranges of time
  Nothing,      \* no data yet
  MaxPictures,  \* bound: pictures made
  MaxDrawings   \* bound: times data is asked for

ASSUME WidgetAssumption ==
  /\ Skipped \notin Plots /\ IsFiniteSet(Plots)
  /\ \A p \in Plots, s \in Spans : Nothing # [plot |-> p, span |-> s]
  /\ {MaxPictures, MaxDrawings} \subseteq Nat \ {0}

VARIABLES
  axes,         \* _primaryAxis, _secondaryAxis
  span,         \* _startTime, _endTime
  picture,      \* which _svg it is
  stored,       \* _primaryAxisData, _secondaryAxisData
  curves,       \* the curves in the picture
  wanted,       \* the drawings whose data is on its way
  drawings,     \* history: how often data was asked for
  newest,       \* history: of each axis, the drawing last answered
  asked,        \* history: the range last asked for
  overtaken,    \* history: an answer came after that to a later drawing
  leftover      \* history: data of an axis given up was drawn into this picture

drawVars == <<axes, span, picture, stored, curves, wanted, drawings, newest, asked,
              overtaken, leftover>>

Halves == {"primary", "secondary"}
Curve == [plot : Plots, half : Halves, span : Spans]

DrawInit ==
  /\ axes \in [Halves -> Plots] /\ span \in Spans
  /\ picture = 1 /\ stored = [h \in Halves |-> Nothing] /\ curves = {}
  /\ wanted = {[half |-> h, plot |-> axes[h], span |-> span, picture |-> 1, n |-> 1] : h \in Halves}
  /\ drawings = 1 /\ newest = [h \in Halves |-> 0] /\ asked = span
  /\ overtaken = {} /\ leftover = FALSE

\* _fetchAndRenderAxisData, for both axes.  The server has no answer to "-".
fetchAxisData(as, s, pic) ==
  /\ drawings < MaxDrawings /\ drawings' = drawings + 1 /\ asked' = s
  /\ wanted' = wanted \cup {[half |-> h, plot |-> as[h], span |-> s, picture |-> pic,
                             n |-> drawings + 1] : h \in {x \in Halves : as[x] # Skipped}}

\* _renderDataCurve: one curve for a kind of data, whichever axis it is for.
DataCurve(cs, d, h) ==
  {c \in cs : c.plot # d.plot} \cup {[plot |-> d.plot, half |-> h, span |-> d.span]}

Redrawn(cs, h) == IF axes[h] = Skipped \/ stored[h] = Nothing THEN cs
                  ELSE DataCurve(cs, stored[h], h)

\* temporaryTimeShift: the primary curve first.
timeShift(s) ==
  /\ span' = s /\ curves' = Redrawn(Redrawn(curves, "primary"), "secondary")
  /\ leftover' = (leftover \/ \E h \in Halves :
                    axes[h] # Skipped /\ stored[h] # Nothing /\ stored[h].plot # axes[h])

\* A drag, a pinch or the wheel; resize, with the range there is.
Shifted(s) ==
  /\ timeShift(s)
  /\ UNCHANGED <<axes, picture, stored, wanted, drawings, newest, asked, overtaken>>

\* The dashboard's setTimeRange: temporaryTimeShift, then render(false).
RangeSet(s) ==
  /\ timeShift(s) /\ fetchAxisData(axes, s, picture)
  /\ UNCHANGED <<axes, picture, stored, newest, overtaken>>

\* Mutant: the axis is changed without a new picture.
AxisChangedInPlace(h, a) ==
  /\ axes' = [axes EXCEPT ![h] = a] /\ fetchAxisData(axes', span, picture)
  /\ leftover' = FALSE
  /\ UNCHANGED <<span, picture, stored, curves, newest, overtaken>>

\* setFirstAxis or setSecondAxis, then render(true): an empty picture.
AxisChanged(h, a) ==
  /\ picture < MaxPictures
  /\ axes' = [axes EXCEPT ![h] = a]
  /\ picture' = picture + 1 /\ curves' = {} /\ leftover' = FALSE
  /\ fetchAxisData(axes', span, picture')
  /\ UNCHANGED <<span, stored, newest, overtaken>>

\* The data is stored, and drawn if its picture is still the widget's.
DataArrives(q) ==
  /\ q \in wanted /\ wanted' = wanted \ {q}
  /\ stored' = [stored EXCEPT ![q.half] = [plot |-> q.plot, span |-> q.span]]
  /\ curves' = IF q.picture = picture THEN DataCurve(curves, stored'[q.half], q.half)
               ELSE curves
  /\ newest' = [newest EXCEPT ![q.half] = IF q.n > @ THEN q.n ELSE @]
  /\ overtaken' = IF q.n < newest[q.half] THEN overtaken \cup {q.half}
                  ELSE overtaken \ {q.half}
  /\ UNCHANGED <<axes, span, picture, drawings, asked, leftover>>

DrawNext ==
  \/ \E s \in Spans : Shifted(s) \/ RangeSet(s)
  \/ \E h \in Halves, a \in Plots \cup {Skipped} : AxisChanged(h, a)
  \/ \E q \in wanted : DataArrives(q)

DrawSpec == DrawInit /\ [][DrawNext]_drawVars

-----------------------------------------------------------------------------
DrawTypeOK ==
  /\ axes \in [Halves -> Plots \cup {Skipped}] /\ span \in Spans /\ asked \in Spans
  /\ picture \in 1 .. MaxPictures
  /\ stored \in [Halves -> {Nothing} \cup [plot : Plots, span : Spans]]
  /\ curves \subseteq Curve
  /\ \A c, d \in curves : c.plot = d.plot => c = d
  /\ \A q \in wanted : q.picture =< picture /\ q.n =< drawings
  /\ leftover \in BOOLEAN /\ overtaken \subseteq Halves

\* Nothing is drawn for an axis given up, unless stored data of it was drawn
\* again before the new data came; and when all data has come in the order
\* asked for, each axis has its curve, over the range last asked for.
CurvesAreAsked ==
  /\ ~leftover => \A c \in curves : c.plot = axes[c.half]
  /\ wanted = {} /\ overtaken = {} /\ ~leftover =>
       \A h \in Halves : axes[h] # Skipped =>
         \E c \in curves : c.plot = axes[h] /\ c.span = asked
==============================================================================

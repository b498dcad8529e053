----------------------------- MODULE ChatPeriod -----------------------------
(***************************************************************************)
(* The period of the trace that goes along with a question of the chat     *)
(* panel (chatpanel.ts): the two sticks, the two fields and the buttons    *)
(* that set it, over the range that the page shows.  Times are integers;   *)
(* positions on the trail are the times they stand for.                    *)
(***************************************************************************)
EXTENDS Integers, FiniteSetsExt

CONSTANT MaxTraceTime    \* bound: times of the trace

ASSUME PeriodAssumption == MaxTraceTime \in Nat

VARIABLES
  pageRange,    \* what the page tells _setTraceComponentNames
  trace,        \* _traceStartTime, _traceEndTime
  selected,     \* _traceSelectedStartTime, _traceSelectedEndTime
  inMicros,     \* _tracePeriodUnitSwitch
  edits,        \* what the two fields show
  moved         \* history: the range was read again without a selection

periodVars == <<pageRange, trace, selected, inMicros, edits, moved>>

Times == 0 .. MaxTraceTime
Periods == [start : Times, end : Times]
Ranges == {r \in Periods : r.start < r.end}
Smaller(a, b) == Min({a, b})
Larger(a, b) == Max({a, b})

\* updateSticksAndEdits: the fields show the selection in order.
updateSticksAndEdits(s) ==
  edits' = [start |-> Smaller(s.start, s.end), end |-> Larger(s.start, s.end)]

PeriodInit ==
  /\ pageRange \in Ranges /\ trace = pageRange /\ selected = pageRange
  /\ edits = pageRange /\ inMicros = TRUE /\ moved = FALSE

\* The page is zoomed or scrolled.
PageZoomed(r) ==
  /\ r \in Ranges /\ r # pageRange /\ pageRange' = r
  /\ UNCHANGED <<trace, selected, inMicros, edits, moved>>

\* uploadTraceBtn calls _setTraceComponentNames and leaves the selection.
rereadRange ==
  /\ trace' = pageRange
  /\ moved' = (moved \/ trace # pageRange)
  /\ UNCHANGED <<pageRange, selected, inMicros, edits>>

\* _showChatPanel reads the range and selects it whole.
renderPeriod ==
  /\ trace' = pageRange /\ selected' = pageRange /\ moved' = FALSE
  /\ updateSticksAndEdits(pageRange)
  /\ UNCHANGED <<pageRange, inMicros>>

\* "Reset Trace Period", and the end of sendMessage.
resetPeriod ==
  /\ selected' = trace /\ moved' = FALSE
  /\ updateSticksAndEdits(trace)
  /\ UNCHANGED <<pageRange, trace, inMicros>>

UnitSwitched ==
  /\ inMicros' = ~inMicros
  /\ updateSticksAndEdits(selected)
  /\ UNCHANGED <<pageRange, trace, selected, moved>>

Selecting(s) ==
  /\ selected' = s
  /\ updateSticksAndEdits(s)
  /\ UNCHANGED <<pageRange, trace, inMicros, moved>>

Clamp(t) == Larger(trace.start, Smaller(t, trace.end))

\* Mutant: a stick dragged over the other one stays the one it was.
Uncrossed(s) == s

Crossed(s) == IF s.start > s.end THEN [start |-> s.end, end |-> s.start] ELSE s

\* A stick is dragged; sticks that cross change their roles.
StartDragged(t) == Selecting(Crossed([selected EXCEPT !.start = Clamp(t)]))
EndDragged(t) == Selecting(Crossed([selected EXCEPT !.end = Clamp(t)]))

\* startTimeEdit.onchange: a text that is no number counts as too small.
StartTyped(t) ==
  LET e == Larger(selected.start, selected.end)
  IN Selecting([selected EXCEPT !.start = Smaller(Larger(t, trace.start), e)])

\* endTimeEdit.onchange.
EndTyped(t) ==
  LET s == Smaller(selected.start, selected.end)
  IN Selecting([selected EXCEPT !.end = Smaller(Larger(t, s), trace.end)])

-----------------------------------------------------------------------------
PeriodTypeOK ==
  /\ {pageRange, trace} \subseteq Ranges
  /\ {selected, edits} \subseteq Periods
  /\ {inMicros, moved} \subseteq BOOLEAN

\* The period sent runs forwards, inside the range of the page it was chosen
\* from and as the fields show it, as long as the range was not read again
\* under a selection made before.
PeriodSound ==
  ~moved =>
    /\ trace.start =< selected.start
    /\ selected.start =< selected.end
    /\ selected.end =< trace.end
    /\ edits = selected
==============================================================================

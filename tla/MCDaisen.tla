------------------------------ MODULE MCDaisen ------------------------------
(***************************************************************************)
(* The pages of daisen, explored one subject at a time: a behaviour talks  *)
(* to the chat panel, or uploads files, or ticks boxes, or sets the        *)
(* period; or turns the dashboard's pages, zooms with the mouse or with    *)
(* the fingers, or resizes what there is room for; or draws one widget.    *)
(* Sending and rendering, which touch every subject of the chat panel,     *)
(* belong to each of its own; outside of talking, one question without an  *)
(* answer is enough.                                                       *)
(***************************************************************************)
EXTENDS ChatPanel, Dashboard, DashboardWidget

CONSTANTS d1, d2, t1, t2

VARIABLE part

ChatParts == {"talk", "files", "trace", "repo", "period"}
DashParts == {"paging", "mouse", "touch", "resize"}

MCInit ==
  /\ part \in ChatParts \cup DashParts \cup {"draw"}
  /\ ChatInit /\ DashInit /\ DrawInit
  /\ part # "period" => pageRange.end = 1 /\ pageRange.start = 0
  /\ part # "resize" => width = 2100
  /\ part \notin {"paging", "resize"} => served = 2 /\ address.page = Absent
  /\ part # "draw" => axes = [h \in Halves |-> d1] /\ span = t1

Brief ==
  /\ ShowChatPanel \/ HidePanel \/ Typing \/ SendMessage
  /\ Len(home') =< 1

Chatting ==
  \/ part = "talk" /\ Talking
  \/ part # "talk" /\ Brief
  \/ part = "files" /\ Uploading
  \/ part = "trace" /\ (TickingTrace \/ TraceButton \/ (Surroundings /\ UNCHANGED github))
  \/ part = "repo" /\ (TickingRepo \/ TraceButton \/ (Surroundings /\ UNCHANGED pageVars))
  \/ part = "period" /\ (ChoosingPeriod \/ TraceButton)

\* While zooming, the page is rendered anew in the ways that make new handlers.
Anew == Answered \/ AxisSelected("primary", "AvgLatency") \/ PageClicked(0)

\* What is typed in the burger menu is never read: one more text is enough.
Showing ==
  \/ part = "paging" /\ (Paging \/ Choosing) /\ inputs'.menu \in Unreadable \cup {Everything}
  \/ part = "mouse" /\ (Mouse \/ Anew)
  \/ part = "touch" /\ (Touch \/ Anew)
  \/ part = "resize" /\ (Resizing \/ Answered \/ \E p \in Targets(buttons) : PageClicked(p))

MCNext ==
  /\ UNCHANGED part
  /\ \/ part \in ChatParts /\ Chatting /\ UNCHANGED <<dashVars, drawVars>>
     \/ part \in DashParts /\ Showing /\ UNCHANGED <<chatVars, drawVars>>
     \/ part = "draw" /\ DrawNext /\ UNCHANGED <<chatVars, dashVars>>

MCSpec == MCInit /\ [][MCNext]_<<part, chatVars, dashVars, drawVars>>

MCEverything == 1 .. 20
MCPlots == {d1, d2}
MCSpans == {t1, t2}
MCFilters == {1 .. 3, {}}

DaisenTypeOK == ChatTypeOK /\ DashTypeOK /\ DrawTypeOK
==============================================================================

---------------------------- MODULE DaisenProofs ----------------------------
(***************************************************************************)
(* Daisen: proofs about ChatPanel for every trace, repository and number of*)
(* chats, questions, calls and files; about Dashboard for every filter, range*)
(* and window; and about DashboardWidget for every number of drawings.     *)
(*                                                                         *)
(* A handler of the chat panel that renders it or sends a question acts on *)
(* several parts of it; each of its sections looks at what the handlers do to*)
(* its own.                                                                *)
(***************************************************************************)
EXTENDS ChatPanel, Dashboard, DashboardWidget, SequenceLemmas, FiniteSetTheorems, TLAPS

(***************************************************************************)
(* The chat panel: the period                                              *)
(***************************************************************************)
\* The strengthening of PeriodSound: with the types, it is inductive.
PeriodInv == PeriodTypeOK /\ PeriodSound

LEMMA SmallerLarger ==
  ASSUME NEW a \in Int, NEW b \in Int
  PROVE  /\ Smaller(a, b) = IF a =< b THEN a ELSE b
         /\ Larger(a, b) = IF a =< b THEN b ELSE a
  BY DEF Smaller, Larger, Min, Max

\* The handlers that touch the period.
PeriodStep ==
  \/ renderPeriod \/ resetPeriod \/ rereadRange \/ UnitSwitched
  \/ \E t \in Times : StartDragged(t) \/ EndDragged(t) \/ StartTyped(t) \/ EndTyped(t)
  \/ \E r \in Ranges : PageZoomed(r)
  \/ UNCHANGED periodVars

LEMMA PeriodOfTheSteps == [ChatNext]_chatVars => PeriodStep
<1> SUFFICES ASSUME [ChatNext]_chatVars PROVE PeriodStep
  OBVIOUS
<1>1. CASE Talking
  BY <1>1 DEF Talking, ShowChatPanel, HidePanel, DeleteChat, NewChat, SelectChat,
     Typing, SendMessage, Answer, Fail, SendTest, TalkOnly, renderControls,
     clearControls, PeriodStep
<1>2. CASE Attaching
  BY <1>2 DEF Attaching, Uploading, TickingTrace, TickingRepo, TraceButton,
     Surroundings, AttachOnly, PeriodStep
<1>3. CASE ChoosingPeriod
  BY <1>3 DEF ChoosingPeriod, PeriodStep
<1>4. CASE UNCHANGED chatVars
  BY <1>4 DEF chatVars, PeriodStep
<1> QED
  BY <1>1, <1>2, <1>3, <1>4 DEF ChatNext

LEMMA PeriodInvInit == ChatInit => PeriodInv
<1> SUFFICES ASSUME ChatInit PROVE PeriodInv
  OBVIOUS
<1>1. /\ pageRange \in Ranges /\ trace = pageRange /\ selected = pageRange
      /\ edits = pageRange /\ inMicros = TRUE /\ moved = FALSE
  BY DEF ChatInit, PeriodInit
<1>2. pageRange \in Periods /\ pageRange.start < pageRange.end
  BY <1>1 DEF Ranges
<1>3. /\ pageRange.start =< pageRange.start /\ pageRange.end =< pageRange.end
      /\ pageRange.start =< pageRange.end
  BY <1>2 DEF Periods, Times
<1>4. PeriodTypeOK
  BY <1>1, <1>2, Zenon DEF PeriodTypeOK
<1>5. PeriodSound
  BY <1>1, <1>3, Zenon DEF PeriodSound
<1> QED
  BY <1>4, <1>5 DEF PeriodInv

\* A selection made of two times of the trace, in order whenever the range is
\* the one it was chosen from.
LEMMA SelectingKeeps ==
  ASSUME PeriodInv, NEW s \in Periods, Selecting(s),
         ~moved => trace.start =< s.start /\ s.start =< s.end /\ s.end =< trace.end
  PROVE  PeriodInv'
<1>1. s.start \in Int /\ s.end \in Int /\ s.start \in Times /\ s.end \in Times
  BY PeriodAssumption DEF Periods, Times
<1>2. edits' = [start |-> Smaller(s.start, s.end), end |-> Larger(s.start, s.end)]
  BY DEF Selecting, updateSticksAndEdits
<1>3. edits' \in Periods /\ (s.start =< s.end => edits' = s)
  BY <1>1, <1>2, SmallerLarger DEF Periods
<1>4. selected' = s /\ UNCHANGED <<pageRange, trace, inMicros, moved>>
  BY DEF Selecting
<1>5. PeriodTypeOK'
  BY <1>3, <1>4, Zenon DEF PeriodInv, PeriodTypeOK
<1>6. PeriodSound'
  BY <1>3, <1>4 DEF PeriodSound
<1> QED
  BY <1>5, <1>6 DEF PeriodInv

LEMMA PeriodInvStep == PeriodInv /\ [ChatNext]_chatVars => PeriodInv'
<1> SUFFICES ASSUME PeriodInv, PeriodStep PROVE PeriodInv'
  BY PeriodOfTheSteps
<1> USE PeriodAssumption
<1>1. PeriodTypeOK /\ PeriodSound
  BY DEF PeriodInv
<1>2. /\ trace \in Periods /\ pageRange \in Periods /\ selected \in Periods
      /\ trace.start < trace.end /\ pageRange.start < pageRange.end
  BY <1>1 DEF PeriodTypeOK, Ranges
<1>3. /\ trace.start \in Times /\ trace.end \in Times
      /\ selected.start \in Times /\ selected.end \in Times
      /\ pageRange.start \in Times /\ pageRange.end \in Times
      /\ trace = [start |-> trace.start, end |-> trace.end]
      /\ pageRange = [start |-> pageRange.start, end |-> pageRange.end]
  BY <1>2 DEF Periods
<1>4. Times \in SUBSET Int
  BY DEF Times
<1>5. ASSUME NEW r \in Ranges,
             r = trace \/ r = pageRange, trace' = r, selected' = r,
             moved' = FALSE, updateSticksAndEdits(r), UNCHANGED <<pageRange, inMicros>>
      PROVE  PeriodInv'
  <2>1. edits' = r
    BY <1>2, <1>3, <1>4, <1>5, SmallerLarger DEF updateSticksAndEdits
  <2>2. PeriodTypeOK'
    <3>1. {inMicros', moved'} \subseteq BOOLEAN
      BY <1>1, <1>5, Zenon DEF PeriodTypeOK
    <3>2. {pageRange', trace'} \subseteq Ranges /\ {selected', edits'} \subseteq Periods
      BY <1>1, <1>2, <1>5, <2>1 DEF PeriodTypeOK
    <3> QED
      BY <3>1, <3>2 DEF PeriodTypeOK
  <2>3. PeriodSound'
    BY <1>2, <1>3, <1>4, <1>5, <2>1 DEF PeriodSound
  <2> QED
    BY <2>2, <2>3 DEF PeriodInv
<1>6. CASE renderPeriod
  BY <1>1, <1>5, <1>6 DEF renderPeriod, PeriodTypeOK
<1>7. CASE resetPeriod
  BY <1>1, <1>5, <1>7 DEF resetPeriod, PeriodTypeOK
\* The selection is read again over another range: that is what moved records.
<1>8. CASE rereadRange
  <2>1. /\ trace' = pageRange /\ moved' = (moved \/ trace # pageRange)
        /\ UNCHANGED <<pageRange, selected, inMicros, edits>>
    BY <1>8 DEF rereadRange
  <2>2. PeriodTypeOK'
    <3>1. {inMicros', moved'} \subseteq BOOLEAN
      BY <1>1, <2>1, Zenon DEF PeriodTypeOK
    <3>2. {pageRange', trace'} \subseteq Ranges /\ {selected', edits'} \subseteq Periods
      BY <1>1, <2>1 DEF PeriodTypeOK
    <3> QED
      BY <3>1, <3>2 DEF PeriodTypeOK
  <2>3. PeriodSound'
    BY <1>1, <2>1, Zenon DEF PeriodSound
  <2> QED
    BY <2>2, <2>3 DEF PeriodInv
<1>9. CASE UnitSwitched
  <2>1. /\ inMicros' = ~inMicros /\ updateSticksAndEdits(selected)
        /\ UNCHANGED <<pageRange, trace, selected, moved>>
    BY <1>9 DEF UnitSwitched
  <2>2. /\ edits' \in Periods
        /\ selected.start =< selected.end => edits' = selected
    BY <1>2, <1>3, <1>4, <2>1, SmallerLarger DEF updateSticksAndEdits, Periods
  <2>3. PeriodTypeOK'
    BY <1>1, <2>1, <2>2, Zenon DEF PeriodTypeOK
  <2>4. PeriodSound'
    BY <1>1, <2>1, <2>2 DEF PeriodSound
  <2> QED
    BY <2>3, <2>4 DEF PeriodInv
<1>10. ASSUME NEW t \in Times PROVE /\ Clamp(t) \in Times
                                    /\ trace.start =< Clamp(t) /\ Clamp(t) =< trace.end
  BY <1>2, <1>3, <1>4, SmallerLarger DEF Clamp
<1>11. ASSUME NEW t \in Times, StartDragged(t) \/ EndDragged(t) PROVE PeriodInv'
  <2>1. CASE StartDragged(t)
    <3> DEFINE s == Crossed([selected EXCEPT !.start = Clamp(t)])
    <3>1. /\ s \in Periods
          /\ ~moved => trace.start =< s.start /\ s.start =< s.end /\ s.end =< trace.end
      BY <1>1, <1>2, <1>3, <1>4, <1>10 DEF Crossed, Periods, PeriodSound
    <3> QED
      BY <2>1, <3>1, SelectingKeeps DEF StartDragged
  <2>2. CASE EndDragged(t)
    <3> DEFINE s == Crossed([selected EXCEPT !.end = Clamp(t)])
    <3>1. /\ s \in Periods
          /\ ~moved => trace.start =< s.start /\ s.start =< s.end /\ s.end =< trace.end
      BY <1>1, <1>2, <1>3, <1>4, <1>10 DEF Crossed, Periods, PeriodSound
    <3> QED
      BY <2>2, <3>1, SelectingKeeps DEF EndDragged
  <2> QED
    BY <1>11, <2>1, <2>2
<1>12. ASSUME NEW t \in Times, StartTyped(t) PROVE PeriodInv'
  <2> DEFINE e == Larger(selected.start, selected.end)
             s == [selected EXCEPT !.start = Smaller(Larger(t, trace.start), e)]
  <2>1. Larger(t, trace.start) \in Times /\ trace.start =< Larger(t, trace.start)
    BY <1>3, <1>4, SmallerLarger
  <2>2. e \in Times /\ (selected.start =< selected.end => e = selected.end)
    BY <1>3, <1>4, SmallerLarger
  <2> HIDE DEF e
  <2>3. /\ s \in Periods
        /\ ~moved => trace.start =< s.start /\ s.start =< s.end /\ s.end =< trace.end
    BY <1>1, <1>2, <1>3, <1>4, <2>1, <2>2, SmallerLarger DEF Periods, PeriodSound
  <2> QED
    BY <1>12, <2>3, SelectingKeeps DEF StartTyped, e
<1>13. ASSUME NEW t \in Times, EndTyped(t) PROVE PeriodInv'
  <2> DEFINE b == Smaller(selected.start, selected.end)
             s == [selected EXCEPT !.end = Smaller(Larger(t, b), trace.end)]
  <2>1. b \in Times /\ (selected.start =< selected.end => b = selected.start)
    BY <1>3, <1>4, SmallerLarger
  <2> HIDE DEF b
  <2>2. Larger(t, b) \in Times /\ b =< Larger(t, b)
    BY <1>4, <2>1, SmallerLarger
  <2>3. /\ s \in Periods
        /\ ~moved => trace.start =< s.start /\ s.start =< s.end /\ s.end =< trace.end
    BY <1>1, <1>2, <1>3, <1>4, <2>1, <2>2, SmallerLarger DEF Periods, PeriodSound
  <2> QED
    BY <1>13, <2>3, SelectingKeeps DEF EndTyped, b
<1>14. ASSUME NEW r \in Ranges, PageZoomed(r) PROVE PeriodInv'
  BY <1>1, <1>14, Zenon DEF PageZoomed, PeriodInv, PeriodTypeOK, PeriodSound
<1>15. CASE UNCHANGED periodVars
  BY <1>1, <1>15, Zenon DEF periodVars, PeriodInv, PeriodTypeOK, PeriodSound
<1> QED
  BY <1>6, <1>7, <1>8, <1>9, <1>11, <1>12, <1>13, <1>14, <1>15 DEF PeriodStep

\* Whatever is dragged, typed, reset and switched, the period that goes along
\* with a question runs forwards within the range it was chosen from and is the
\* one the fields show, for a trace of any length.
THEOREM PeriodStaysSound == ChatSpec => []PeriodSound
<1>1. PeriodInv => PeriodSound
  BY DEF PeriodInv
<1> QED
  BY PeriodInvInit, PeriodInvStep, <1>1, PTL DEF ChatSpec

(***************************************************************************)
(* The boxes that are ticked and the windows they are ticked in            *)
(***************************************************************************)
\* The strengthening of TicksAgree.  The rows of the last rendering are among
\* those of the window, which are among those of the page, and only what has a
\* row was ever ticked; the repository has rows once it is known to be there.
TicksInv ==
  /\ rows \subseteq region /\ region \subseteq all /\ all \subseteq Names
  /\ currentRows \subseteq region /\ traceChecks \subseteq region
  /\ repoChecks \subseteq repoRows
  /\ repoRows # {} => github = "available" /\ repoRows = Keys
  /\ TicksAgree

\* The strengthening of OneWindow: its flags are Booleans.
WindowsInv ==
  /\ {traceVisible, repoVisible, traceDiv, repoDiv, toggled} \subseteq BOOLEAN
  /\ OneWindow

\* The handlers that touch the attachments.
TicksStep ==
  \/ \E n \in Names : TraceTicked(n)
  \/ SelectCurrent \/ SelectAll \/ DeselectAll \/ TraceToggled
  \/ \E k \in Keys : RepoTicked(k)
  \/ RepoSelectAll \/ RepoDeselectAll \/ RepoToggled
  \/ \E c \in SUBSET Names : PageTurns(c)
  \/ \E a \in {"available", "unavailable"} : GithubAnswers(a)
  \/ renderAttachments \/ clearAttachments
  \/ UNCHANGED <<pageVars, traceVars, github, repoVars, windows>>

LEMMA TicksOfTheSteps == [ChatNext]_chatVars => TicksStep
<1> SUFFICES ASSUME [ChatNext]_chatVars PROVE TicksStep
  OBVIOUS
<1>1. CASE Talking
  BY <1>1 DEF Talking, ShowChatPanel, HidePanel, DeleteChat, NewChat, SelectChat,
     Typing, SendMessage, Answer, Fail, SendTest, TalkOnly, renderControls,
     clearControls, TicksStep, attachVars
<1>2. CASE Attaching
  <2>1. CASE Uploading
    BY <2>1 DEF Uploading, FileChosen, FileRead, FileRemoved, TicksStep
  <2>2. CASE TickingTrace \/ TickingRepo \/ TraceButton \/ Surroundings
    BY <2>2 DEF TickingTrace, TickingRepo, TraceButton, Surroundings, TicksStep
  <2> QED
    BY <1>2, <2>1, <2>2 DEF Attaching
<1>3. CASE ChoosingPeriod
  BY <1>3 DEF ChoosingPeriod, PeriodOnly, TicksStep, attachVars
<1>4. CASE UNCHANGED chatVars
  BY <1>4 DEF chatVars, attachVars, TicksStep
<1> QED
  BY <1>1, <1>2, <1>3, <1>4 DEF ChatNext

LEMMA TicksInvInit == ChatInit => TicksInv
  BY FS_EmptySet DEF ChatInit, AttachInit, TicksInv, TicksAgree, SelectedComponents, RepoButtonShows

LEMMA TicksInvStep == TicksInv /\ [ChatNext]_chatVars => TicksInv'
<1> SUFFICES ASSUME TicksInv, TicksStep PROVE TicksInv'
  BY TicksOfTheSteps
<1> USE DEF TicksInv, TicksAgree, SelectedComponents, CountTrace, RepoButtonShows
<1>1. ASSUME NEW n \in Names, TraceTicked(n) PROVE TicksInv'
  BY <1>1 DEF TraceTicked, pageVars, repoVars
<1>2. CASE SelectCurrent
  BY <1>2 DEF SelectCurrent, pageVars, repoVars
<1>3. CASE SelectAll
  BY <1>3 DEF SelectAll, pageVars, repoVars
<1>4. CASE DeselectAll
  BY <1>4, FS_EmptySet DEF DeselectAll, pageVars, repoVars
<1>5. CASE TraceToggled
  BY <1>5 DEF TraceToggled, pageVars, repoVars
<1>6. ASSUME NEW k \in Keys, RepoTicked(k) PROVE TicksInv'
  BY <1>6 DEF RepoTicked, pageVars, traceVars
<1>7. CASE RepoSelectAll
  BY <1>7 DEF RepoSelectAll, pageVars, traceVars
<1>8. CASE RepoDeselectAll
  BY <1>8, FS_EmptySet DEF RepoDeselectAll, pageVars, traceVars
<1>9. CASE RepoToggled
  BY <1>9 DEF RepoToggled, pageVars, traceVars, repoVars
<1>10. ASSUME NEW c \in SUBSET Names, PageTurns(c) PROVE TicksInv'
  BY <1>10 DEF PageTurns, traceVars, repoVars
<1>11. ASSUME NEW a \in {"available", "unavailable"}, GithubAnswers(a) PROVE TicksInv'
  BY <1>11 DEF GithubAnswers, pageVars, traceVars, repoVars
<1>12. CASE renderAttachments
  BY <1>12 DEF renderAttachments, initialBubbles, pageVars
<1>13. CASE clearAttachments
  BY <1>13, FS_EmptySet DEF clearAttachments, pageVars
<1>14. CASE UNCHANGED <<pageVars, traceVars, github, repoVars, windows>>
  BY <1>14 DEF pageVars, traceVars, repoVars
<1> QED
  BY <1>1, <1>2, <1>3, <1>4, <1>5, <1>6, <1>7, <1>8, <1>9, <1>10, <1>11, <1>12, <1>13,
     <1>14 DEF TicksStep

LEMMA WindowsInvInit == ChatInit => WindowsInv
  BY Zenon DEF ChatInit, AttachInit, WindowsInv, OneWindow

LEMMA WindowsInvStep == WindowsInv /\ [ChatNext]_chatVars => WindowsInv'
<1> SUFFICES ASSUME WindowsInv, TicksStep PROVE WindowsInv'
  BY TicksOfTheSteps
<1> USE DEF WindowsInv, OneWindow
<1>1. CASE TraceToggled
  <2>1. /\ traceVisible' = ~traceVisible /\ traceDiv' = traceVisible' /\ toggled' = TRUE
        /\ HideRepo
    BY <1>1 DEF TraceToggled
  <2>2. CASE traceVisible
    BY <2>1, <2>2, Zenon DEF HideRepo
  <2>3. CASE ~traceVisible
    BY <2>1, <2>3, Zenon DEF HideRepo
  <2> QED
    BY <2>2, <2>3
<1>2. CASE RepoToggled
  <2>1. CASE repoVisible
    BY <1>2, <2>1, Zenon DEF RepoToggled
  <2>2. CASE ~repoVisible
    BY <1>2, <2>2, Zenon DEF RepoToggled
  <2> QED
    BY <2>1, <2>2
<1>3. CASE renderAttachments
  BY <1>3, Zenon DEF renderAttachments, initialBubbles
<1>4. CASE clearAttachments
  BY <1>4, Zenon DEF clearAttachments
<1>5. ASSUME UNCHANGED windows PROVE WindowsInv'
  BY <1>5, Zenon DEF windows
<1>6. ASSUME NEW n \in Names, TraceTicked(n) PROVE UNCHANGED windows
  BY <1>6 DEF TraceTicked
<1>7. ASSUME NEW k \in Keys, RepoTicked(k) PROVE UNCHANGED windows
  BY <1>7 DEF RepoTicked
<1>8. ASSUME NEW c \in SUBSET Names, PageTurns(c) PROVE UNCHANGED windows
  BY <1>8 DEF PageTurns
<1>9. ASSUME NEW a \in {"available", "unavailable"}, GithubAnswers(a)
      PROVE  UNCHANGED windows
  BY <1>9 DEF GithubAnswers
<1>10. CASE SelectCurrent \/ SelectAll \/ DeselectAll \/ RepoSelectAll \/ RepoDeselectAll
  BY <1>5, <1>10 DEF SelectCurrent, SelectAll, DeselectAll, RepoSelectAll, RepoDeselectAll
<1>11. CASE UNCHANGED <<pageVars, traceVars, github, repoVars, windows>>
  BY <1>5, <1>11
<1> QED
  BY <1>1, <1>2, <1>3, <1>4, <1>5, <1>6, <1>7, <1>8, <1>9, <1>10, <1>11 DEF TicksStep

(***************************************************************************)
(* The uploaded files                                                      *)
(***************************************************************************)
File == [id : Nat, kind : FileKinds]

IdsApart(fs) == \A i, j \in DOMAIN fs : fs[i].id = fs[j].id => i = j
IdsGiven(fs, n) == \A i \in DOMAIN fs : fs[i].id \in 1 .. n

\* The strengthening of FilesAgree: the next id is not among those there are.
FilesInv ==
  /\ fileIdCounter \in Nat /\ files \in Seq(File)
  /\ IdsGiven(files, fileIdCounter)
  /\ FilesAgree

\* The handlers that touch the files.
FilesStep ==
  \/ \E k \in FileKinds : FileChosen(k) \/ FileRead(k)
  \/ \E i \in ToSet(listed) : FileRemoved(i)
  \/ renderAttachments \/ clearAttachments
  \/ UNCHANGED fileVars

LEMMA FilesOfTheSteps == [ChatNext]_chatVars => FilesStep
<1> SUFFICES ASSUME [ChatNext]_chatVars PROVE FilesStep
  OBVIOUS
<1>1. CASE Talking
  BY <1>1 DEF Talking, ShowChatPanel, HidePanel, DeleteChat, NewChat, SelectChat,
     Typing, SendMessage, Answer, Fail, SendTest, TalkOnly, renderControls,
     clearControls, FilesStep, attachVars
<1>2. CASE Attaching
  <2>1. CASE Uploading
    BY <2>1 DEF Uploading, FilesStep
  <2>2. CASE TickingTrace
    BY <2>2 DEF TickingTrace, TraceTicked, SelectCurrent, SelectAll, DeselectAll,
       FilesStep
  <2>3. CASE TickingRepo
    BY <2>3 DEF TickingRepo, RepoTicked, RepoSelectAll, RepoDeselectAll,
       RepoToggled, FilesStep
  <2>4. CASE TraceButton \/ Surroundings
    BY <2>4 DEF TraceButton, TraceToggled, Surroundings, PageTurns, GithubAnswers,
       FilesStep
  <2> QED
    BY <1>2, <2>1, <2>2, <2>3, <2>4 DEF Attaching
<1>3. CASE ChoosingPeriod
  BY <1>3 DEF ChoosingPeriod, PeriodOnly, FilesStep, attachVars
<1>4. CASE UNCHANGED chatVars
  BY <1>4 DEF chatVars, attachVars, FilesStep
<1> QED
  BY <1>1, <1>2, <1>3, <1>4 DEF ChatNext

\* An uploaded file gets an id no other file has.
LEMMA FileAdded ==
  ASSUME NEW fs \in Seq(File), NEW n \in Nat, IdsApart(fs), IdsGiven(fs, n),
         NEW k \in FileKinds
  PROVE  LET new == Append(fs, [id |-> n + 1, kind |-> k])
         IN new \in Seq(File) /\ IdsApart(new) /\ IdsGiven(new, n + 1)
<1> DEFINE f == [id |-> n + 1, kind |-> k]
           new == Append(fs, f)
<1>1. f \in File /\ f.id = n + 1
  BY DEF File
<1> HIDE DEF f
<1>2. /\ new \in Seq(File) /\ Len(fs) \in Nat /\ DOMAIN fs = 1 .. Len(fs)
      /\ DOMAIN new = 1 .. Len(fs) + 1 /\ new[Len(fs) + 1] = f
      /\ \A i \in 1 .. Len(fs) : new[i] = fs[i]
  BY <1>1, LenProperties, AppendProperties
<1> HIDE DEF new
<1>3. \A i \in 1 .. Len(fs) : new[i].id \in 1 .. n
  BY <1>2 DEF IdsGiven
<1>4. IdsApart(new)
  <2>1. ASSUME NEW i \in DOMAIN new, NEW j \in DOMAIN new, new[i].id = new[j].id
        PROVE  i = j
    <3>1. CASE i \in 1 .. Len(fs) /\ j \in 1 .. Len(fs)
      BY <1>2, <2>1, <3>1 DEF IdsApart
    <3>2. CASE i = Len(fs) + 1 /\ j = Len(fs) + 1
      BY <3>2
    <3>3. CASE i \in 1 .. Len(fs) /\ j = Len(fs) + 1
      BY <1>1, <1>2, <1>3, <2>1, <3>3
    <3>4. CASE i = Len(fs) + 1 /\ j \in 1 .. Len(fs)
      BY <1>1, <1>2, <1>3, <2>1, <3>4
    <3> QED
      BY <1>2, <3>1, <3>2, <3>3, <3>4
  <2> QED
    BY <2>1 DEF IdsApart
<1>5. IdsGiven(new, n + 1)
  <2>1. ASSUME NEW i \in DOMAIN new PROVE new[i].id \in 1 .. n + 1
    <3>1. CASE i = Len(fs) + 1
      BY <1>1, <1>2, <3>1
    <3>2. CASE i # Len(fs) + 1
      <4>1. new[i].id \in 1 .. n
        BY <1>2, <1>3, <3>2
      <4> QED
        BY <4>1
    <3> QED
      BY <3>1, <3>2
  <2> QED
    BY <2>1 DEF IdsGiven
<1> QED
  BY <1>2, <1>4, <1>5 DEF new, f

\* The files that are left keep their ids.
LEMMA FilesLeft ==
  ASSUME NEW fs \in Seq(File), NEW n \in Nat, IdsApart(fs), IdsGiven(fs, n), NEW kept
  PROVE  /\ Filter(fs, kept) \in Seq(File) /\ IdsApart(Filter(fs, kept))
         /\ IdsGiven(Filter(fs, kept), n)
<1> DEFINE r == Filter(fs, kept)
<1>1. r \in Seq(File) /\ \E at : Numbers(at, fs, kept, Len(fs), r)
  BY FilterNumbers
<1>2. PICK at : Numbers(at, fs, kept, Len(fs), r)
  BY <1>1
<1> HIDE DEF r
<1>3. /\ DOMAIN fs = 1 .. Len(fs) /\ DOMAIN r = 1 .. Len(r)
      /\ \A i \in DOMAIN r : at[i] \in DOMAIN fs /\ r[i] = fs[at[i]]
      /\ \A i, j \in DOMAIN r : at[i] = at[j] => i = j
  <2>1. /\ Len(fs) \in Nat /\ Len(r) \in Nat
        /\ DOMAIN fs = 1 .. Len(fs) /\ DOMAIN r = 1 .. Len(r)
    BY <1>1, LenProperties
  <2>2. \A i \in 1 .. Len(r) : at[i] \in 1 .. Len(fs) /\ r[i] = fs[at[i]]
    BY <1>2 DEF Numbers
  <2>3. ASSUME NEW i \in 1 .. Len(r), NEW j \in 1 .. Len(r), i < j
        PROVE  at[i] # at[j]
    <3>1. i \in 1 .. j - 1
      BY <2>1, <2>3
    <3>2. at[i] < at[j]
      BY <1>2, <3>1 DEF Numbers
    <3> QED
      BY <2>1, <2>2, <3>2
  <2>4. \A i, j \in 1 .. Len(r) : i < j \/ j < i \/ i = j
    BY <2>1
  <2> QED
    BY <2>1, <2>2, <2>3, <2>4
<1>4. IdsApart(r)
  BY <1>3 DEF IdsApart
<1>5. IdsGiven(r, n)
  BY <1>3 DEF IdsGiven
<1> QED
  BY <1>1, <1>4, <1>5 DEF r

LEMMA FilesInvInit == ChatInit => FilesInv
<1> SUFFICES ASSUME ChatInit PROVE FilesInv
  OBVIOUS
<1>1. files = <<>> /\ fileIdCounter = 0 /\ listed = <<>>
  BY DEF ChatInit, AttachInit
<1>2. <<>> \in Seq(File) /\ DOMAIN <<>> = {}
  OBVIOUS
<1> QED
  BY <1>1, <1>2 DEF FilesInv, IdsGiven, FilesAgree

LEMMA FilesInvStep == FilesInv /\ [ChatNext]_chatVars => FilesInv'
<1> SUFFICES ASSUME FilesInv, FilesStep PROVE FilesInv'
  BY FilesOfTheSteps
<1>0. fileIdCounter \in Nat /\ files \in Seq(File) /\ IdsApart(files)
      /\ IdsGiven(files, fileIdCounter)
  BY DEF FilesInv, FilesAgree, IdsApart
<1>1. ASSUME fileIdCounter' \in Nat, files' \in Seq(File), IdsApart(files'),
             IdsGiven(files', fileIdCounter'),
             listed' # <<>> => listed' = Ids(files') /\ fileBubbles' = CountOf(files')
      PROVE  FilesInv'
  BY <1>1 DEF FilesInv, FilesAgree, IdsApart, IdsGiven, Ids, CountOf
<1>2. ASSUME NEW k \in FileKinds, FileChosen(k) PROVE FilesInv'
  BY <1>2 DEF FileChosen, FilesInv, FilesAgree, IdsGiven, Ids, CountOf
<1>3. ASSUME NEW k \in FileKinds, FileRead(k) PROVE FilesInv'
  <2>1. /\ fileIdCounter' = fileIdCounter + 1
        /\ files' = Append(files, [id |-> fileIdCounter + 1, kind |-> k])
        /\ listed' = Ids(files') /\ fileBubbles' = CountOf(files')
    BY <1>3 DEF FileRead, renderFileList
  <2>2. files' \in Seq(File) /\ IdsApart(files') /\ IdsGiven(files', fileIdCounter + 1)
    BY <1>0, <2>1, FileAdded
  <2> QED
    BY <1>0, <1>1, <2>1, <2>2
<1>4. ASSUME NEW i \in ToSet(listed), FileRemoved(i) PROVE FilesInv'
  <2>1. /\ fileIdCounter' = fileIdCounter
        /\ files' = Filter(files, {f \in ToSet(files) : f.id # i})
        /\ listed' = Ids(files') /\ fileBubbles' = CountOf(files')
    BY <1>4 DEF FileRemoved, renderFileList
  <2>2. files' \in Seq(File) /\ IdsApart(files') /\ IdsGiven(files', fileIdCounter)
    BY <1>0, <2>1, FilesLeft
  <2> QED
    BY <1>0, <1>1, <2>1, <2>2
<1>5. CASE renderAttachments
  BY <1>0, <1>1, <1>5 DEF renderAttachments, initialBubbles
<1>6. CASE clearAttachments
  <2>1. /\ fileIdCounter' = 0 /\ files' = <<>>
        /\ listed' = Ids(files') /\ fileBubbles' = CountOf(files')
    BY <1>6 DEF clearAttachments, renderFileList
  <2>2. <<>> \in Seq(File) /\ DOMAIN <<>> = {}
    OBVIOUS
  <2>3. IdsApart(files') /\ IdsGiven(files', fileIdCounter')
    BY <2>1, <2>2 DEF IdsApart, IdsGiven
  <2> QED
    BY <1>1, <2>1, <2>2, <2>3
<1>7. CASE UNCHANGED fileVars
  BY <1>7 DEF fileVars, FilesInv, FilesAgree, IdsGiven, Ids, CountOf
<1> QED
  BY <1>2, <1>3, <1>4, <1>5, <1>6, <1>7 DEF FilesStep

(***************************************************************************)
(* The conversations                                                       *)
(***************************************************************************)
Saying == [role : {"user", "assistant"}, about : Nat]
Conversation == [id : Nat, messages : Seq(Saying)]
Call == [about : Nat, list : Lists, here : BOOLEAN]

\* The chats of a history, none twice.
History(h, n) ==
  /\ h \in Seq(Conversation)
  /\ \A x, y \in ToSet(h) : x.id = y.id => x = y
  /\ \A x \in ToSet(h) : x.id \in 1 .. n

\* Every question of a chat was asked in chat c.
AskedIn(homes, ms, c) ==
  \A m \in ToSet(ms) : m.about # 0 => m.about \in 1 .. Len(homes) /\ homes[m.about] = c

\* The calls on their way, each about a question of its own.
OnTheirWay(ps, n) ==
  /\ ps \in SUBSET Call /\ IsFiniteSet(ps) /\ Cardinality(ps) =< MaxPending
  /\ \A p \in ps : p.about \in 1 .. n
  /\ \A p, q \in ps : p.about = q.about => p = q

\* The strengthening of CurrentIsSaved: chats and calls are one of a kind.
HeapInv ==
  /\ chatIdCounter \in Nat /\ currentChatId \in 1 .. chatIdCounter
  /\ History(chatHistory, chatIdCounter)
  /\ CurrentIsSaved
  /\ lists \in [Lists -> Seq(Saying)] /\ chatMessages \in Lists
  /\ view \in Lists \cup {NoList} /\ open = (view # NoList)
  /\ home \in Seq(Nat)
  /\ OnTheirWay(pending, Len(home))

\* The strengthening of AnswersAtHome: what is on its way to the array of the
\* current chat was asked in it, and so was what the arrow keys recalled.
HomeInv ==
  /\ strayed \in BOOLEAN
  /\ ~strayed =>
       /\ \A x \in ToSet(chatHistory) : AskedIn(home, x.messages, x.id)
       /\ open => view = chatMessages
       /\ \A p \in pending : p.list = chatMessages => home[p.about] = currentChatId
       /\ input \in {Blank, Typed} \/ (input \in 1 .. Len(home) /\ home[input] = currentChatId)

\* What the panel shows: a call that is to replace its placeholder finds it.
OnDisplay == [role : {"user", "assistant", "thinking"}, about : Nat]
PanelInv ==
  /\ unshown \in BOOLEAN
  /\ shown \in Seq(OnDisplay)
  /\ \A p \in pending : p.here =>
       open /\ p.list = view /\ Said("thinking", p.about) \in ToSet(shown)
  /\ open /\ ~unshown => {m \in ToSet(shown) : m.role # "thinking"} = ToSet(lists[view])

\* Where the arrow keys are.
NavInv ==
  /\ nav \in Int /\ nav >= -1
  /\ ~strayed => nav < Len(currentChatUserMessages)

TalkInv == HeapInv /\ HomeInv /\ PanelInv /\ NavInv

(***************************************************************************)
(* Histories                                                               *)
(***************************************************************************)
LEMMA KnownIsIn ==
  ASSUME NEW S, NEW h \in Seq(S), NEW c
  PROVE  /\ Known(h, c) <=> \E x \in ToSet(h) : x.id = c
         /\ Known(h, c) => Chat(h, c) \in ToSet(h) /\ Chat(h, c).id = c
<1>1. Known(h, c) <=> \E x \in ToSet(h) : x.id = c
  BY DEF Known, ToSet
<1>2. ASSUME Known(h, c) PROVE Chat(h, c) \in ToSet(h) /\ Chat(h, c).id = c
  <2> DEFINE i == CHOOSE i \in DOMAIN h : h[i].id = c
  <2>1. i \in DOMAIN h /\ h[i].id = c
    BY <1>2 DEF Known
  <2>2. Chat(h, c) = h[i]
    BY DEF Chat
  <2> HIDE DEF i
  <2> QED
    BY <2>1, <2>2 DEF ToSet
<1> QED
  BY <1>1, <1>2

\* The chat with an id is the one there is.
LEMMA ChatOfId ==
  ASSUME NEW n, NEW h, History(h, n), NEW x \in ToSet(h)
  PROVE  Known(h, x.id) /\ Chat(h, x.id) = x
<1>1. h \in Seq(Conversation) /\ \A y, z \in ToSet(h) : y.id = z.id => y = z
  BY DEF History
<1>2. Known(h, x.id)
  BY <1>1, KnownIsIn
<1>3. Chat(h, x.id) \in ToSet(h) /\ Chat(h, x.id).id = x.id
  BY <1>1, <1>2, KnownIsIn
<1> QED
  BY <1>1, <1>2, <1>3

\* What the other chats of a history are.
LEMMA WithoutProps ==
  ASSUME NEW n, NEW h, History(h, n), NEW c
  PROVE  /\ History(Without(h, c), n)
         /\ ToSet(Without(h, c)) = {x \in ToSet(h) : x.id # c}
<1> DEFINE r == Without(h, c)
<1>1. h \in Seq(Conversation)
  BY DEF History
<1>2. r \in Seq(Conversation) /\ ToSet(r) = {x \in ToSet(h) : x.id # c}
  BY <1>1, FilterSet DEF Without
<1> HIDE DEF r
<1>3. History(r, n)
  BY <1>2 DEF History
<1> QED
  BY <1>2, <1>3 DEF r

\* A chat is added that is not there yet.
LEMMA ChatAdded ==
  ASSUME NEW n \in Nat, NEW h, History(h, n), NEW c \in 1 .. n,
         \A x \in ToSet(h) : x.id # c, NEW ms \in Seq(Saying)
  PROVE  LET s == Append(h, [id |-> c, messages |-> ms])
         IN History(s, n) /\ ToSet(s) = ToSet(h) \cup {[id |-> c, messages |-> ms]}
<1> DEFINE e == [id |-> c, messages |-> ms]
           s == Append(h, e)
<1>1. h \in Seq(Conversation) /\ e \in Conversation /\ e.id = c
  BY DEF History, Conversation
<1> HIDE DEF e
<1>2. s \in Seq(Conversation) /\ ToSet(s) = ToSet(h) \cup {e}
  BY <1>1, SetAppended, AppendProperties
<1> HIDE DEF s
<1>3. History(s, n)
  BY <1>1, <1>2 DEF History
<1> QED
  BY <1>2, <1>3 DEF s, e

\* _saveChatToHistory replaces the copy of one chat.
LEMMA Saved ==
  ASSUME NEW n \in Nat, NEW h, History(h, n), NEW c, Known(h, c), NEW ms \in Seq(Saying)
  PROVE  LET s == saveChatToHistory(h, c, ms)
         IN /\ History(s, n)
            /\ ToSet(s) = {x \in ToSet(h) : x.id # c} \cup {[id |-> c, messages |-> ms]}
<1>1. h \in Seq(Conversation) /\ \A x \in ToSet(h) : x.id \in 1 .. n
  BY DEF History
<1>2. c \in 1 .. n
  BY <1>1, KnownIsIn
<1> DEFINE r == Without(h, c)
<1>3. History(r, n) /\ ToSet(r) = {x \in ToSet(h) : x.id # c}
  BY WithoutProps
<1>4. saveChatToHistory(h, c, ms) = Append(r, [id |-> c, messages |-> ms])
  BY DEF saveChatToHistory
<1> HIDE DEF r
<1>5. /\ History(Append(r, [id |-> c, messages |-> ms]), n)
      /\ ToSet(Append(r, [id |-> c, messages |-> ms])) =
           ToSet(r) \cup {[id |-> c, messages |-> ms]}
  BY <1>2, <1>3, ChatAdded
<1> QED
  BY <1>3, <1>4, <1>5

LEMMA SavedIsKnown ==
  ASSUME NEW n \in Nat, NEW h, History(h, n), NEW c, Known(h, c), NEW ms \in Seq(Saying)
  PROVE  LET s == saveChatToHistory(h, c, ms)
         IN /\ \A d : Known(s, d) <=> Known(h, d)
            /\ Chat(s, c).messages = ms
            /\ \A d : d # c /\ Known(h, d) => Chat(s, d) = Chat(h, d)
<1> DEFINE s == saveChatToHistory(h, c, ms)
           e == [id |-> c, messages |-> ms]
<1>1. /\ h \in Seq(Conversation) /\ s \in Seq(Conversation)
      /\ History(s, n) /\ ToSet(s) = {x \in ToSet(h) : x.id # c} \cup {e}
  BY Saved DEF History
<1>2. e.id = c /\ e.messages = ms
  OBVIOUS
<1> HIDE DEF s, e
<1>3. \A d : Known(s, d) <=> Known(h, d)
  BY <1>1, <1>2, KnownIsIn
<1>4. e \in ToSet(s) /\ Chat(s, c) = e
  BY <1>1, <1>2, ChatOfId
<1>5. ASSUME NEW d, d # c, Known(h, d) PROVE Chat(s, d) = Chat(h, d)
  <2>1. Chat(h, d) \in ToSet(h) /\ Chat(h, d).id = d
    BY <1>1, <1>5, KnownIsIn
  <2>2. Chat(h, d) \in ToSet(s)
    BY <1>1, <1>5, <2>1
  <2> QED
    BY <1>1, <2>1, <2>2, ChatOfId
<1> QED
  BY <1>2, <1>3, <1>4, <1>5 DEF s

(***************************************************************************)
(* Calls and arrays                                                        *)
(***************************************************************************)
LEMMA CallsElsewhere ==
  ASSUME NEW ps, NEW n, OnTheirWay(ps, n)
  PROVE  LET qs == {[p EXCEPT !.here = FALSE] : p \in ps}
         IN /\ OnTheirWay(qs, n) /\ \A q \in qs : ~q.here
            /\ \A q \in qs : \E p \in ps : q.list = p.list /\ q.about = p.about
            /\ {q.list : q \in qs} = {p.list : p \in ps}
<1> DEFINE away(p) == [p EXCEPT !.here = FALSE]
           qs == {away(p) : p \in ps}
           f == [p \in ps |-> away(p)]
<1>1. /\ ps \in SUBSET Call /\ IsFiniteSet(ps) /\ Cardinality(ps) =< MaxPending
      /\ \A p \in ps : p.about \in 1 .. n
      /\ \A p, q \in ps : p.about = q.about => p = q
  BY DEF OnTheirWay
<1>2. ASSUME NEW p \in ps
      PROVE  /\ away(p) \in Call /\ ~away(p).here
             /\ away(p).about = p.about /\ away(p).list = p.list
  BY <1>1 DEF Call
<1> HIDE DEF away
<1>3. IsFiniteSet(qs) /\ Cardinality(qs) =< Cardinality(ps)
  <2>1. f \in Surjection(ps, qs)
    BY DEF Surjection
  <2> HIDE DEF qs, f
  <2> QED
    BY <1>1, <2>1, FS_Surjection
<1>4. Cardinality(qs) =< MaxPending
  <2>1. Cardinality(qs) \in Nat /\ Cardinality(ps) \in Nat /\ MaxPending \in Nat
    BY <1>1, <1>3, FS_CardinalityType, ChatAssumption
  <2> QED
    BY <1>1, <1>3, <2>1
<1>5. OnTheirWay(qs, n)
  BY <1>1, <1>2, <1>3, <1>4 DEF OnTheirWay
<1>6. {q.list : q \in qs} = {p.list : p \in ps}
  BY <1>2
<1>7. \A q \in qs : ~q.here /\ \E p \in ps : q.list = p.list /\ q.about = p.about
  BY <1>2
<1> QED
  BY <1>5, <1>6, <1>7 DEF away

LEMMA CallReturned ==
  ASSUME NEW ps, NEW n, OnTheirWay(ps, n), NEW p
  PROVE  OnTheirWay(ps \ {p}, n)
<1>1. /\ ps \in SUBSET Call /\ IsFiniteSet(ps) /\ Cardinality(ps) =< MaxPending
  BY DEF OnTheirWay
<1>2. /\ IsFiniteSet(ps \ {p}) /\ Cardinality(ps \ {p}) =< Cardinality(ps)
  BY <1>1, FS_Subset
<1>3. Cardinality(ps \ {p}) =< MaxPending
  <2>1. Cardinality(ps) \in Nat /\ Cardinality(ps \ {p}) \in Nat /\ MaxPending \in Nat
    BY <1>1, <1>2, FS_CardinalityType, ChatAssumption
  <2> QED
    BY <1>1, <1>2, <2>1
<1> QED
  BY <1>1, <1>2, <1>3 DEF OnTheirWay

LEMMA CallMade ==
  ASSUME NEW ps, NEW n \in Nat, OnTheirWay(ps, n), Cardinality(ps) < MaxPending,
         NEW l \in Lists, NEW b \in BOOLEAN
  PROVE  OnTheirWay(ps \cup {[about |-> n + 1, list |-> l, here |-> b]}, n + 1)
<1> DEFINE c == [about |-> n + 1, list |-> l, here |-> b]
           qs == ps \cup {c}
<1>1. /\ ps \in SUBSET Call /\ IsFiniteSet(ps)
      /\ \A p \in ps : p.about \in 1 .. n
      /\ \A p, q \in ps : p.about = q.about => p = q
  BY DEF OnTheirWay
<1>2. c \in Call /\ c.about = n + 1
  BY DEF Call
<1> HIDE DEF c
<1>3. IsFiniteSet(qs) /\ Cardinality(qs) =< MaxPending
  <2>1. /\ IsFiniteSet(qs)
        /\ Cardinality(qs) = IF c \in ps THEN Cardinality(ps) ELSE Cardinality(ps) + 1
    BY <1>1, FS_AddElement
  <2>2. Cardinality(ps) \in Nat /\ MaxPending \in Nat
    BY <1>1, FS_CardinalityType, ChatAssumption
  <2> QED
    BY <2>1, <2>2
<1>4. ASSUME NEW p \in qs PROVE p.about \in 1 .. n + 1
  BY <1>1, <1>2
<1>5. ASSUME NEW p \in qs, NEW q \in qs, p.about = q.about PROVE p = q
  BY <1>1, <1>2, <1>5
<1>6. OnTheirWay(qs, n + 1)
  BY <1>1, <1>2, <1>3, <1>4, <1>5 DEF OnTheirWay
<1> QED
  BY <1>6 DEF c

\* There is an address no call holds.
LEMMA FreshApart ==
  ASSUME NEW ps, NEW n, OnTheirWay(ps, n)
  PROVE  Fresh({p.list : p \in ps}) \in Lists \ {p.list : p \in ps}
<1> DEFINE held == {p.list : p \in ps}
           f == [p \in ps |-> p.list]
<1>1. IsFiniteSet(ps) /\ Cardinality(ps) =< MaxPending /\ MaxPending \in Nat
  BY ChatAssumption DEF OnTheirWay
<1>2. IsFiniteSet(held) /\ Cardinality(held) =< Cardinality(ps)
  <2>1. f \in Surjection(ps, held)
    BY DEF Surjection
  <2> HIDE DEF held, f
  <2> QED
    BY <1>1, <2>1, FS_Surjection
<1>3. IsFiniteSet(Lists) /\ Cardinality(Lists) = MaxPending + 2
  BY <1>1, FS_Interval DEF Lists
<1> HIDE DEF held
<1>4. ASSUME Lists \subseteq held PROVE FALSE
  <2>1. Cardinality(Lists) =< Cardinality(held)
    BY <1>2, <1>4, FS_Subset
  <2>2. Cardinality(held) \in Nat /\ Cardinality(ps) \in Nat
    BY <1>1, <1>2, FS_CardinalityType
  <2> QED
    BY <1>1, <1>2, <1>3, <2>1, <2>2
<1>5. Fresh(held) \in Lists \ held
  BY <1>4 DEF Fresh
<1> QED
  BY <1>5 DEF held

\* Arrays that are referred to keep their messages.
LEMMA KeptProps ==
  ASSUME NEW heap \in [Lists -> Seq(Saying)], NEW live
  PROVE  /\ Kept(heap, live) \in [Lists -> Seq(Saying)]
         /\ \A l \in Lists : l \in live => Kept(heap, live)[l] = heap[l]
<1>1. <<>> \in Seq(Saying)
  OBVIOUS
<1> QED
  BY <1>1 DEF Kept

\* The handlers that touch the conversations.
TalkStep ==
  \/ OpenChat \/ CloseChat \/ DeleteClicked \/ NewClicked
  \/ \E c \in 1 .. MaxChats : ChatSelected(c)
  \/ \E text \in {Blank, Typed} : KeyPressed(text)
  \/ ArrowPressed(Older(nav, Len(currentChatUserMessages)))
  \/ ArrowPressed(Newer(nav, Len(currentChatUserMessages)))
  \/ QuestionSent
  \/ \E kind \in {"graph", "subpage"} : TestClicked(kind)
  \/ \E p \in pending : AnswerArrives(p) \/ CallFails(p)
  \/ UNCHANGED talkVars

LEMMA TalkOfTheSteps == [ChatNext]_chatVars => TalkStep
<1> SUFFICES ASSUME [ChatNext]_chatVars PROVE TalkStep
  OBVIOUS
<1>1. CASE Talking
  BY <1>1 DEF Talking, ShowChatPanel, HidePanel, DeleteChat, NewChat, SelectChat,
     Typing, SendMessage, Answer, Fail, SendTest, TalkStep
<1>2. CASE Attaching
  BY <1>2 DEF Attaching, Uploading, TickingTrace, TickingRepo, TraceButton, Surroundings,
     AttachOnly, TalkStep
<1>3. CASE ChoosingPeriod
  BY <1>3 DEF ChoosingPeriod, PeriodOnly, TalkStep
<1>4. CASE UNCHANGED chatVars
  BY <1>4 DEF chatVars, TalkStep
<1> QED
  BY <1>1, <1>2, <1>3, <1>4 DEF ChatNext

(***************************************************************************)
(* Switching to another chat: the history holds the chats it held, one     *)
(* less or one more.                                                       *)
(***************************************************************************)
NewOne(n) == [id |-> n, messages |-> <<greeting>>]

SwitchesTo(h, c) ==
  /\ Switch(h, c)
  /\ chatIdCounter' \in {chatIdCounter, chatIdCounter + 1}
  /\ History(h, chatIdCounter') /\ Known(h, c)
  /\ ToSet(h) \subseteq ToSet(chatHistory) \cup {NewOne(chatIdCounter + 1)}

\* To save what is saved already changes the order of the chats at most.
LEMMA SavedAgain ==
  ASSUME NEW n \in Nat, NEW h, History(h, n), NEW c, Known(h, c)
  PROVE  LET s == saveChatToHistory(h, c, Chat(h, c).messages)
         IN History(s, n) /\ ToSet(s) = ToSet(h)
<1> DEFINE x == Chat(h, c)
           e == [id |-> c, messages |-> x.messages]
           s == saveChatToHistory(h, c, x.messages)
<1>1. /\ h \in Seq(Conversation) /\ \A y, z \in ToSet(h) : y.id = z.id => y = z
  BY DEF History
<1>2. x \in ToSet(h) /\ x.id = c
  BY <1>1, KnownIsIn
<1>3. x \in Conversation
  BY <1>1, <1>2, SetOfSeq
<1>4. x.messages \in Seq(Saying) /\ x = e
  BY <1>2, <1>3 DEF Conversation
<1>5. History(s, n) /\ ToSet(s) = {y \in ToSet(h) : y.id # c} \cup {e}
  BY <1>4, Saved
<1>6. ToSet(s) = ToSet(h)
  <2> HIDE DEF x, e, s
  <2>1. ASSUME NEW y \in ToSet(h), y.id = c PROVE y = x
    BY <1>1, <1>2, <2>1
  <2> QED
    BY <1>2, <1>4, <1>5, <2>1
<1> QED
  BY <1>5, <1>6

LEMMA GreetingIsSaid == greeting \in Saying /\ <<greeting>> \in Seq(Saying)
<1>1. greeting \in Saying
  BY DEF greeting, Said, Saying
<1> QED
  BY <1>1

LEMMA SelectedSwitches ==
  ASSUME HeapInv, NEW c, ChatSelected(c) PROVE \E h : SwitchesTo(h, c)
<1> DEFINE h == saveChatToHistory(chatHistory, currentChatId, lists[chatMessages])
<1>1. /\ chatIdCounter \in Nat /\ History(chatHistory, chatIdCounter)
      /\ Known(chatHistory, currentChatId)
      /\ lists[chatMessages] = Chat(chatHistory, currentChatId).messages
      /\ chatHistory \in Seq(Conversation)
  BY DEF HeapInv, CurrentIsSaved, History
<1>2. /\ chatIdCounter' = chatIdCounter /\ Switch(h, c) /\ Known(chatHistory, c)
  BY DEF ChatSelected, loadChat
<1>3. History(h, chatIdCounter) /\ ToSet(h) = ToSet(chatHistory)
  BY <1>1, SavedAgain
<1> HIDE DEF h
<1>4. h \in Seq(Conversation)
  BY <1>3 DEF History
<1>5. Known(h, c)
  BY <1>1, <1>2, <1>3, <1>4, KnownIsIn
<1>6. ToSet(h) \subseteq ToSet(chatHistory) \cup {NewOne(chatIdCounter + 1)}
  BY <1>3
<1>7. SwitchesTo(h, c)
  BY <1>2, <1>3, <1>5, <1>6 DEF SwitchesTo
<1> QED
  BY <1>7

\* A chat with the next id joins a history.
LEMMA NewOneAdded ==
  ASSUME NEW n \in Nat, NEW h, History(h, n)
  PROVE  LET s == Append(h, NewOne(n + 1))
         IN /\ History(s, n + 1) /\ ToSet(s) = ToSet(h) \cup {NewOne(n + 1)}
            /\ Known(s, n + 1)
<1> DEFINE s == Append(h, NewOne(n + 1))
<1>1. History(h, n + 1) /\ \A x \in ToSet(h) : x.id # n + 1
  BY DEF History
<1>2. n + 1 \in Nat /\ n + 1 \in 1 .. n + 1
  OBVIOUS
<1>3. /\ History(s, n + 1) /\ ToSet(s) = ToSet(h) \cup {NewOne(n + 1)}
  <2> DEFINE m == n + 1
             ms == <<greeting>>
  <2>1. m \in Nat /\ m \in 1 .. m /\ ms \in Seq(Saying)
    BY <1>2, GreetingIsSaid
  <2>2. History(h, m) /\ \A x \in ToSet(h) : x.id # m
    BY <1>1
  <2> HIDE DEF m, ms
  <2>3. /\ History(Append(h, [id |-> m, messages |-> ms]), m)
        /\ ToSet(Append(h, [id |-> m, messages |-> ms])) =
             ToSet(h) \cup {[id |-> m, messages |-> ms]}
    BY <2>1, <2>2, ChatAdded
  <2> QED
    BY <2>3 DEF m, ms, NewOne
<1> HIDE DEF s
<1>4. s \in Seq(Conversation) /\ NewOne(n + 1).id = n + 1
  BY <1>3 DEF History, NewOne
<1>5. Known(s, n + 1)
  BY <1>3, <1>4, KnownIsIn
<1> QED
  BY <1>3, <1>5 DEF s

LEMMA NewSwitches ==
  ASSUME HeapInv, NewClicked PROVE \E h, c : SwitchesTo(h, c)
<1> DEFINE n == chatIdCounter
           s == Append(chatHistory, NewOne(n + 1))
           h == createNewChat(chatHistory, currentChatId, lists[chatMessages])
<1>1. /\ n \in Nat /\ History(chatHistory, n) /\ chatHistory \in Seq(Conversation)
      /\ Known(chatHistory, currentChatId)
      /\ lists[chatMessages] = Chat(chatHistory, currentChatId).messages
  BY DEF HeapInv, CurrentIsSaved, History
<1>2. chatIdCounter' = n + 1 /\ Switch(h, n + 1) /\ HasUserMessages(lists[chatMessages])
  BY DEF NewClicked
<1>3. /\ History(s, n + 1) /\ ToSet(s) = ToSet(chatHistory) \cup {NewOne(n + 1)}
      /\ Known(s, n + 1)
  BY <1>1, NewOneAdded
<1>4. h = saveChatToHistory(s, currentChatId, lists[chatMessages])
  BY <1>1, <1>2 DEF createNewChat, NewOne
<1> HIDE DEF s, h
<1>5. s \in Seq(Conversation)
  BY <1>3 DEF History
<1>6. /\ Chat(chatHistory, currentChatId) \in ToSet(s)
      /\ Chat(chatHistory, currentChatId).id = currentChatId
  BY <1>1, <1>3, KnownIsIn
<1>7. Known(s, currentChatId) /\ Chat(s, currentChatId) = Chat(chatHistory, currentChatId)
  BY <1>3, <1>6, ChatOfId
<1>8. History(h, n + 1) /\ ToSet(h) = ToSet(s)
  BY <1>1, <1>3, <1>4, <1>7, SavedAgain
<1>9. h \in Seq(Conversation)
  BY <1>8 DEF History
<1>10. Known(h, n + 1)
  BY <1>3, <1>5, <1>8, <1>9, KnownIsIn
<1>11. SwitchesTo(h, n + 1)
  BY <1>2, <1>3, <1>8, <1>10 DEF SwitchesTo
<1> QED
  BY <1>11

LEMMA DeleteSwitches ==
  ASSUME HeapInv, DeleteClicked PROVE \E h, c : SwitchesTo(h, c)
<1> DEFINE n == chatIdCounter
           rest == Without(chatHistory, currentChatId)
<1>1. /\ n \in Nat /\ History(chatHistory, n)
  BY DEF HeapInv
<1>2. /\ History(rest, n) /\ ToSet(rest) = {x \in ToSet(chatHistory) : x.id # currentChatId}
  BY <1>1, WithoutProps
<1>3. rest \in Seq(Conversation)
  BY <1>2 DEF History
<1>4. ~Known(rest, currentChatId)
  BY <1>2, <1>3, KnownIsIn
<1>5. CASE rest # <<>>
  <2> DEFINE c == Last(rest).id
  <2>1. chatIdCounter' = n /\ Switch(rest, c)
    BY <1>4, <1>5 DEF DeleteClicked, loadChat, saveChatToHistory
  <2>2. Last(rest) \in ToSet(rest)
    <3>1. Len(rest) \in DOMAIN rest
      BY <1>3, <1>5, LenProperties, EmptySeq
    <3> HIDE DEF rest
    <3> QED
      BY <3>1 DEF Last, ToSet
  <2> HIDE DEF rest
  <2>3. Known(rest, c)
    BY <1>3, <2>2, KnownIsIn
  <2>4. SwitchesTo(rest, c)
    BY <1>2, <2>1, <2>3 DEF SwitchesTo
  <2> QED
    BY <2>4
<1>6. CASE rest = <<>>
  <2> DEFINE s == Append(rest, NewOne(n + 1))
  <2>1. /\ chatIdCounter' = n + 1
        /\ Switch(createNewChat(rest, currentChatId, lists[chatMessages]), n + 1)
    BY <1>6 DEF DeleteClicked
  <2>2. createNewChat(rest, currentChatId, lists[chatMessages]) = s
    BY <1>4 DEF createNewChat, NewOne
  <2>3. /\ History(s, n + 1) /\ ToSet(s) = ToSet(rest) \cup {NewOne(n + 1)}
        /\ Known(s, n + 1)
    BY <1>1, <1>2, NewOneAdded
  <2> HIDE DEF s, rest
  <2>4. SwitchesTo(s, n + 1)
    BY <1>2, <2>1, <2>2, <2>3 DEF SwitchesTo
  <2> QED
    BY <2>4
<1> QED
  BY <1>5, <1>6

LEMMA SwitchHeap ==
  ASSUME HeapInv, NEW h, NEW c, SwitchesTo(h, c)
  PROVE  /\ HeapInv'
         /\ chatMessages' \notin {p.list : p \in pending'}
         /\ lists'[view'] = shown' /\ view' = chatMessages'
         /\ shown' \in Seq(Saying)
<1> DEFINE l == Fresh(Held)
           ms == Chat(h, c).messages
           heap == Kept(lists, Held)
<1>1. /\ chatHistory' = h /\ currentChatId' = c /\ chatMessages' = l
      /\ lists' = [heap EXCEPT ![l] = ms]
      /\ open' = TRUE /\ view' = l /\ shown' = ms
      /\ pending' = {[p EXCEPT !.here = FALSE] : p \in pending}
      /\ home' = home
      /\ chatIdCounter' \in {chatIdCounter, chatIdCounter + 1}
      /\ History(h, chatIdCounter') /\ Known(h, c)
  BY DEF SwitchesTo, Switch, showMessages
<1>2. /\ chatIdCounter \in Nat /\ lists \in [Lists -> Seq(Saying)]
      /\ home \in Seq(Nat) /\ OnTheirWay(pending, Len(home))
  BY DEF HeapInv
<1>3. l \in Lists \ Held
  BY <1>2, FreshApart DEF Held
<1>4. heap \in [Lists -> Seq(Saying)]
  BY <1>2, KeptProps
<1>5. h \in Seq(Conversation) /\ \A x \in ToSet(h) : x.id \in 1 .. chatIdCounter'
  BY <1>1 DEF History
<1>6. Chat(h, c) \in ToSet(h) /\ Chat(h, c).id = c
  BY <1>1, <1>5, KnownIsIn
<1>7. Chat(h, c) \in Conversation
  BY <1>5, <1>6, SetOfSeq
<1>8. c \in 1 .. chatIdCounter' /\ ms \in Seq(Saying)
  BY <1>5, <1>6, <1>7 DEF Conversation
<1>9. OnTheirWay(pending', Len(home')) /\ {p.list : p \in pending'} = Held
  BY <1>1, <1>2, CallsElsewhere DEF Held
<1> HIDE DEF l, ms, heap
<1>10. lists' \in [Lists -> Seq(Saying)] /\ lists'[l] = ms
  BY <1>1, <1>3, <1>4, <1>8
<1>11. CurrentIsSaved'
  BY <1>1, <1>10 DEF CurrentIsSaved, ms
<1>12. l # NoList
  BY <1>3, ChatAssumption DEF Lists, NoList
<1>13. chatIdCounter' \in Nat
  BY <1>1, <1>2
<1>14. HeapInv'
  BY <1>1, <1>2, <1>3, <1>8, <1>9, <1>10, <1>11, <1>12, <1>13 DEF HeapInv
<1> QED
  BY <1>1, <1>3, <1>8, <1>9, <1>10, <1>14

(***************************************************************************)
(* Pushing to the array of the panel or of a call                          *)
(***************************************************************************)
Pushes(l, said, live) ==
  /\ Push(l, said, live)
  /\ UNCHANGED <<currentChatId, chatIdCounter, open, view>>

LEMMA PushHeap ==
  ASSUME HeapInv, NEW l \in Lists, NEW said \in Seq(Saying), NEW live, Pushes(l, said, live),
         home' \in Seq(Nat), OnTheirWay(pending', Len(home'))
  PROVE  /\ HeapInv'
         /\ chatMessages' = l /\ lists'[l] = lists[l] \o said
         /\ lists[l] \in Seq(Saying) /\ lists'[l] \in Seq(Saying)
         /\ view \in Lists /\ view # l => lists'[view] = lists[view]
         /\ ToSet(chatHistory') = {x \in ToSet(chatHistory) : x.id # currentChatId}
              \cup {[id |-> currentChatId, messages |-> lists'[l]]}
<1> DEFINE heap == [lists EXCEPT ![l] = @ \o said]
           ms == lists[l] \o said
<1>1. /\ chatMessages' = l /\ lists' = Kept(heap, live \cup {l, view})
      /\ chatHistory' = saveChatToHistory(chatHistory, currentChatId, heap[l])
      /\ UNCHANGED <<currentChatId, chatIdCounter, open, view>>
  BY DEF Pushes, Push
<1>2. /\ chatIdCounter \in Nat /\ currentChatId \in 1 .. chatIdCounter
      /\ History(chatHistory, chatIdCounter) /\ CurrentIsSaved
      /\ lists \in [Lists -> Seq(Saying)]
      /\ view \in Lists \cup {NoList} /\ open = (view # NoList)
  BY DEF HeapInv
<1>3. lists[l] \in Seq(Saying) /\ ms \in Seq(Saying)
  BY <1>2, ConcatProperties
<1> HIDE DEF ms
<1>4. heap \in [Lists -> Seq(Saying)] /\ heap[l] = ms
      /\ \A k \in Lists : k # l => heap[k] = lists[k]
  BY <1>2, <1>3 DEF ms
<1> HIDE DEF heap
<1>5. /\ lists' \in [Lists -> Seq(Saying)] /\ lists'[l] = ms
      /\ view \in Lists /\ view # l => lists'[view] = lists[view]
  <2> DEFINE kept == live \cup {l, view}
  <2>1. l \in kept /\ view \in kept /\ lists' = Kept(heap, kept)
    BY <1>1
  <2> HIDE DEF kept
  <2>2. /\ Kept(heap, kept) \in [Lists -> Seq(Saying)]
        /\ \A k \in Lists : k \in kept => Kept(heap, kept)[k] = heap[k]
    BY <1>4, KeptProps
  <2> QED
    BY <1>4, <2>1, <2>2
<1>6. Known(chatHistory, currentChatId)
  BY <1>2 DEF CurrentIsSaved
<1>7. chatHistory' = saveChatToHistory(chatHistory, currentChatId, ms)
  BY <1>1, <1>4
<1>8. /\ History(chatHistory', chatIdCounter)
      /\ ToSet(chatHistory') = {x \in ToSet(chatHistory) : x.id # currentChatId}
           \cup {[id |-> currentChatId, messages |-> ms]}
  BY <1>2, <1>3, <1>6, <1>7, Saved
<1>9. Known(chatHistory', currentChatId) /\ Chat(chatHistory', currentChatId).messages = ms
  BY <1>2, <1>3, <1>6, <1>7, SavedIsKnown
<1>10. CurrentIsSaved'
  BY <1>1, <1>5, <1>9 DEF CurrentIsSaved
<1>11. HeapInv'
  BY <1>1, <1>2, <1>5, <1>8, <1>10 DEF HeapInv
<1> QED
  BY <1>1, <1>3, <1>5, <1>8, <1>11 DEF ms

\* What was asked in a chat stays asked in it when more is asked.
Longer(homes, more) ==
  \A i \in 1 .. Len(homes) : i \in 1 .. Len(more) /\ more[i] = homes[i]

LEMMA AskedStill ==
  ASSUME NEW homes, NEW more, Longer(homes, more), NEW ms, NEW c, AskedIn(homes, ms, c)
  PROVE  AskedIn(more, ms, c)
  BY DEF AskedIn, Longer

LEMMA AskedOneMore ==
  ASSUME NEW homes \in Seq(Nat), NEW c \in Nat
  PROVE  LET more == Append(homes, c)
         IN /\ more \in Seq(Nat) /\ Longer(homes, more)
            /\ Len(homes) \in Nat /\ Len(more) = Len(homes) + 1 /\ more[Len(homes) + 1] = c
<1>1. /\ Len(homes) \in Nat /\ Append(homes, c) \in Seq(Nat)
      /\ Len(Append(homes, c)) = Len(homes) + 1
      /\ Append(homes, c)[Len(homes) + 1] = c
      /\ \A i \in 1 .. Len(homes) : Append(homes, c)[i] = homes[i]
  BY LenProperties, AppendProperties
<1> QED
  BY <1>1 DEF Longer

LEMMA PushHome ==
  ASSUME HeapInv, HomeInv, NEW l \in Lists, NEW said \in Seq(Saying), NEW live,
         Pushes(l, said, live),
         home' \in Seq(Nat), Longer(home, home'), OnTheirWay(pending', Len(home')),
         strayed' \in BOOLEAN,
         ~strayed' => ~strayed /\ l = chatMessages /\ AskedIn(home', said, currentChatId),
         \A p \in pending' : p \in pending \/ home'[p.about] = currentChatId,
         input' \in {input, Blank}
  PROVE  HomeInv'
<1>1. CASE strayed'
  BY <1>1 DEF HomeInv
<1>2. CASE ~strayed'
  <2>1. ~strayed /\ l = chatMessages /\ AskedIn(home', said, currentChatId)
    BY <1>2
  <2>2. /\ \A x \in ToSet(chatHistory) : AskedIn(home, x.messages, x.id)
        /\ open => view = chatMessages
        /\ \A p \in pending : p.list = chatMessages => home[p.about] = currentChatId
        /\ input \in {Blank, Typed}
           \/ (input \in 1 .. Len(home) /\ home[input] = currentChatId)
    BY <2>1 DEF HomeInv
  <2>3. /\ History(chatHistory, chatIdCounter) /\ chatHistory \in Seq(Conversation)
        /\ Known(chatHistory, currentChatId)
        /\ Chat(chatHistory, currentChatId).messages = lists[chatMessages]
        /\ OnTheirWay(pending, Len(home))
    BY DEF HeapInv, CurrentIsSaved, History
  <2>4. /\ chatMessages' = l /\ lists'[l] = lists[l] \o said
        /\ lists[l] \in Seq(Saying)
        /\ ToSet(chatHistory') = {x \in ToSet(chatHistory) : x.id # currentChatId}
             \cup {[id |-> currentChatId, messages |-> lists'[l]]}
    BY PushHeap
  <2>5. UNCHANGED <<currentChatId, open, view>>
    BY DEF Pushes
  <2>6. AskedIn(home', lists'[l], currentChatId)
    <3>1. /\ Chat(chatHistory, currentChatId) \in ToSet(chatHistory)
          /\ Chat(chatHistory, currentChatId).id = currentChatId
      BY <2>3, KnownIsIn
    <3>2. AskedIn(home, lists[l], currentChatId)
      BY <2>1, <2>2, <2>3, <3>1
    <3>3. AskedIn(home', lists[l], currentChatId)
      BY <3>2, AskedStill
    <3>4. ToSet(lists'[l]) = ToSet(lists[l]) \cup ToSet(said)
      BY <2>4, SetConcat
    <3> QED
      BY <2>1, <3>3, <3>4 DEF AskedIn
  <2>7. ASSUME NEW x \in ToSet(chatHistory') PROVE AskedIn(home', x.messages, x.id)
    <3>1. CASE x \in ToSet(chatHistory)
      BY <2>2, <3>1, AskedStill
    <3>2. CASE x = [id |-> currentChatId, messages |-> lists'[l]]
      BY <2>6, <3>2
    <3> QED
      BY <2>4, <2>7, <3>1, <3>2
  <2>8. ASSUME NEW p \in pending', p.list = chatMessages'
        PROVE  home'[p.about] = currentChatId
    <3>1. CASE p \in pending
      <4>1. p.about \in 1 .. Len(home) /\ home[p.about] = currentChatId
        BY <2>1, <2>2, <2>3, <2>4, <2>8, <3>1 DEF OnTheirWay
      <4> QED
        BY <4>1 DEF Longer
    <3> QED
      BY <3>1
  <2>9. input' \in {Blank, Typed}
        \/ (input' \in 1 .. Len(home') /\ home'[input'] = currentChatId)
    BY <2>2 DEF Longer
  <2> QED
    BY <2>1, <2>2, <2>4, <2>5, <2>7, <2>8, <2>9 DEF HomeInv
<1> QED
  BY <1>1, <1>2

LEMMA NavIsPast ==
  ASSUME HeapInv
  PROVE  /\ currentChatUserMessages = UserMessages(lists[chatMessages])
         /\ currentChatUserMessages \in Seq(Saying)
         /\ Len(currentChatUserMessages) \in Nat
<1>1. currentChatUserMessages = UserMessages(lists[chatMessages])
  BY DEF HeapInv, CurrentIsSaved, currentChatUserMessages
<1>2. lists[chatMessages] \in Seq(Saying)
  BY DEF HeapInv
<1>3. UserMessages(lists[chatMessages]) \in Seq(Saying)
  BY <1>2, FilterNumbers DEF UserMessages
<1> QED
  BY <1>1, <1>3, LenProperties

LEMMA PushNav ==
  ASSUME HeapInv, NavInv, HeapInv', NEW l \in Lists, NEW said \in Seq(Saying),
         chatMessages' = l, lists'[l] = lists[l] \o said, nav' = nav,
         ~strayed' => ~strayed /\ l = chatMessages
  PROVE  NavInv'
<1>1. /\ currentChatUserMessages = UserMessages(lists[chatMessages])
      /\ Len(currentChatUserMessages) \in Nat
  BY NavIsPast
<1>2. currentChatUserMessages' = UserMessages(lists[l] \o said)
      /\ Len(currentChatUserMessages') \in Nat
  <2>1. /\ Known(chatHistory', currentChatId')
        /\ Chat(chatHistory', currentChatId').messages = lists'[l]
    BY DEF HeapInv, CurrentIsSaved
  <2>2. currentChatUserMessages' = UserMessages(lists'[l])
    BY <2>1 DEF currentChatUserMessages, UserMessages
  <2>3. lists[l] \in Seq(Saying)
    BY DEF HeapInv
  <2>4. UserMessages(lists[l] \o said) \in Seq(Saying)
    BY <2>3, FilterLonger DEF UserMessages
  <2> QED
    BY <2>2, <2>4, LenProperties
<1>3. lists[l] \in Seq(Saying)
  BY DEF HeapInv
<1>4. Len(UserMessages(lists[l])) =< Len(UserMessages(lists[l] \o said))
  BY <1>3, FilterLonger DEF UserMessages
<1>5. nav \in Int /\ nav >= -1 /\ (~strayed => nav < Len(currentChatUserMessages))
  BY DEF NavInv
<1>6. ASSUME ~strayed' PROVE nav' < Len(currentChatUserMessages')
  <2>1. currentChatUserMessages = UserMessages(lists[l])
    BY <1>1, <1>6
  <2> QED
    BY <1>1, <1>2, <1>4, <1>5, <1>6, <2>1
<1> QED
  BY <1>5, <1>6 DEF NavInv

\* Nothing that was said is unsaid by a step from one history to another.
NothingLost(g, h) ==
  \A x \in ToSet(g) :
    Known(h, x.id) => IsPrefix(x.messages, Chat(h, x.id).messages)

LEMMA SameChatsLoseNothing ==
  ASSUME NEW n, NEW m, NEW g, NEW h, History(g, n), History(h, m),
         \A x \in ToSet(h) : \A y \in ToSet(g) : x.id = y.id => x = y
  PROVE  NothingLost(g, h)
<1> SUFFICES ASSUME NEW x \in ToSet(g), Known(h, x.id)
             PROVE  IsPrefix(x.messages, Chat(h, x.id).messages)
  BY DEF NothingLost
<1>1. g \in Seq(Conversation) /\ h \in Seq(Conversation)
  BY DEF History
<1>2. Chat(h, x.id) \in ToSet(h) /\ Chat(h, x.id).id = x.id
  BY <1>1, KnownIsIn
<1>3. Chat(h, x.id) = x
  BY <1>2
<1>4. x.messages \in Seq(Saying)
  <2>1. x \in Conversation
    BY <1>1, SetOfSeq, ZenonT(40)
  <2> QED
    BY <2>1 DEF Conversation
<1> QED
  BY <1>3, <1>4, PrefixOfMore

LEMMA PushLosesNothing ==
  ASSUME HeapInv, HeapInv', NEW l \in Lists, NEW said \in Seq(Saying), l = chatMessages,
         lists'[l] = lists[l] \o said,
         ToSet(chatHistory') = {x \in ToSet(chatHistory) : x.id # currentChatId}
           \cup {[id |-> currentChatId, messages |-> lists'[l]]}
  PROVE  NothingLost(chatHistory, chatHistory')
<1> DEFINE e == [id |-> currentChatId, messages |-> lists'[l]]
<1>1. /\ History(chatHistory, chatIdCounter) /\ chatHistory \in Seq(Conversation)
      /\ Known(chatHistory, currentChatId)
      /\ Chat(chatHistory, currentChatId).messages = lists[l]
      /\ lists[l] \in Seq(Saying)
      /\ \A x, y \in ToSet(chatHistory) : x.id = y.id => x = y
  BY DEF HeapInv, CurrentIsSaved, History
<1>2. History(chatHistory', chatIdCounter')
  BY DEF HeapInv
<1>3. e.id = currentChatId /\ e.messages = lists'[l]
  OBVIOUS
<1> SUFFICES ASSUME NEW x \in ToSet(chatHistory), Known(chatHistory', x.id)
             PROVE  IsPrefix(x.messages, Chat(chatHistory', x.id).messages)
  BY DEF NothingLost
<1> HIDE DEF e
<1>4. ToSet(chatHistory') = {y \in ToSet(chatHistory) : y.id # currentChatId} \cup {e}
  BY DEF e
<1>5. CASE x.id = currentChatId
  <2>1. e \in ToSet(chatHistory')
    BY <1>4
  <2>2. Chat(chatHistory', e.id) = e
    BY <1>2, <2>1, ChatOfId
  <2>3. Chat(chatHistory, x.id) = x
    BY <1>1, ChatOfId
  <2>4. x.messages = lists[l] /\ Chat(chatHistory', x.id).messages = lists[l] \o said
    BY <1>1, <1>3, <1>5, <2>2, <2>3
  <2> QED
    BY <1>1, <2>4, PrefixOfMore
<1>6. CASE x.id # currentChatId
  <2>1. x \in ToSet(chatHistory')
    BY <1>4, <1>6
  <2>2. Chat(chatHistory', x.id) = x
    BY <1>2, <2>1, ChatOfId
  <2>3. x \in Conversation
    BY <1>1, SetOfSeq
  <2>4. x.messages \in Seq(Saying)
    BY <2>3 DEF Conversation
  <2> QED
    BY <2>2, <2>4, PrefixOfMore
<1> QED
  BY <1>5, <1>6

(***************************************************************************)
(* The handlers                                                            *)
(***************************************************************************)
\* What every step does.
Goes == TalkInv' /\ (~strayed' => NothingLost(chatHistory, chatHistory'))

LEMMA SaidIsShown ==
  ASSUME NEW s \in Seq(Saying)
  PROVE  /\ s \in Seq(OnDisplay)
         /\ {m \in ToSet(s) : m.role # "thinking"} = ToSet(s)
<1>1. Saying \subseteq OnDisplay
  BY DEF Saying, OnDisplay
<1>2. s \in Seq(OnDisplay)
  BY <1>1, SeqMonotonic
<1>3. ToSet(s) \subseteq Saying
  BY SetOfSeq
<1>4. \A m \in Saying : m.role # "thinking"
  BY DEF Saying
<1> QED
  BY <1>2, <1>3, <1>4

LEMMA SwitchGoes ==
  ASSUME TalkInv, NEW h, NEW c, SwitchesTo(h, c)
  PROVE  Goes
<1>1. /\ HeapInv /\ HomeInv
  BY DEF TalkInv
<1>2. /\ HeapInv' /\ chatMessages' \notin {p.list : p \in pending'}
      /\ lists'[view'] = shown' /\ view' = chatMessages' /\ shown' \in Seq(Saying)
  BY <1>1, SwitchHeap
<1>3. /\ chatHistory' = h /\ home' = home /\ strayed' = strayed /\ input' = Blank
      /\ nav' = -1 /\ unshown' = FALSE
      /\ pending' = {[p EXCEPT !.here = FALSE] : p \in pending}
      /\ ToSet(h) \subseteq ToSet(chatHistory) \cup {NewOne(chatIdCounter + 1)}
  BY DEF SwitchesTo, Switch, showMessages
<1>4. /\ OnTheirWay(pending, Len(home)) /\ chatIdCounter \in Nat
      /\ History(chatHistory, chatIdCounter)
  BY <1>1 DEF HeapInv
<1>5. \A p \in pending' : ~p.here
  BY <1>3, <1>4, CallsElsewhere
<1>6. HomeInv'
  <2>1. ASSUME ~strayed, NEW x \in ToSet(h) PROVE AskedIn(home, x.messages, x.id)
    <3>1. CASE x \in ToSet(chatHistory)
      BY <1>1, <2>1, <3>1 DEF HomeInv
    <3>2. CASE x = NewOne(chatIdCounter + 1)
      <4>1. ToSet(x.messages) = {greeting} /\ greeting.about = 0
        BY <3>2 DEF NewOne, ToSet, greeting, Said
      <4> QED
        BY <4>1 DEF AskedIn
    <3> QED
      BY <1>3, <2>1, <3>1, <3>2
  <2>2. \A p \in pending' : p.list # chatMessages'
    BY <1>2
  <2>3. strayed \in BOOLEAN
    BY <1>1 DEF HomeInv
  <2> QED
    BY <1>2, <1>3, <2>1, <2>2, <2>3 DEF HomeInv
<1>7. PanelInv'
  <2>1. /\ shown' \in Seq(OnDisplay)
        /\ {m \in ToSet(shown') : m.role # "thinking"} = ToSet(shown')
    BY <1>2, SaidIsShown
  <2>2. {m \in ToSet(shown') : m.role # "thinking"} = ToSet(lists'[view'])
    BY <1>2, <2>1
  <2> QED
    BY <1>3, <1>5, <2>1, <2>2 DEF PanelInv
<1>8. NavInv'
  <2>1. Len(currentChatUserMessages') \in Nat
    <3>1. lists' \in [Lists -> Seq(Saying)] /\ chatMessages' \in Lists /\ CurrentIsSaved'
      BY <1>2 DEF HeapInv
    <3>2. currentChatUserMessages' = UserMessages(lists'[chatMessages'])
      BY <3>1 DEF CurrentIsSaved, currentChatUserMessages, UserMessages
    <3>3. UserMessages(lists'[chatMessages']) \in Seq(Saying)
      BY <3>1, FilterNumbers DEF UserMessages
    <3> QED
      BY <3>2, <3>3, LenProperties
  <2> QED
    BY <1>3, <2>1 DEF NavInv
<1>9. NothingLost(chatHistory, chatHistory')
  <2>1. History(h, chatIdCounter')
    BY DEF SwitchesTo
  <2>2. ASSUME NEW x \in ToSet(h), NEW y \in ToSet(chatHistory), x.id = y.id
        PROVE  x = y
    <3>1. y.id \in 1 .. chatIdCounter
      BY <1>4, <2>2 DEF History
    <3>2. x # NewOne(chatIdCounter + 1)
      BY <1>4, <2>2, <3>1 DEF NewOne
    <3>3. x \in ToSet(chatHistory)
      BY <1>3, <2>2, <3>2
    <3> QED
      BY <1>4, <2>2, <3>3 DEF History
  <2> QED
    BY <1>3, <1>4, <2>1, <2>2, SameChatsLoseNothing
<1> QED
  BY <1>2, <1>6, <1>7, <1>8, <1>9 DEF Goes, TalkInv

LEMMA NothingSaid ==
  ASSUME HeapInv, chatHistory' = chatHistory
  PROVE  NothingLost(chatHistory, chatHistory')
<1>1. /\ History(chatHistory, chatIdCounter)
      /\ \A x, y \in ToSet(chatHistory) : x.id = y.id => x = y
  BY DEF HeapInv, History
<1> QED
  BY <1>1, SameChatsLoseNothing

\* Handlers that say nothing and stay with the chat.
LEMMA SilentNav ==
  ASSUME HeapInv, NavInv, UNCHANGED <<chatHistory, currentChatId, strayed>>, nav' \in {nav, -1}
  PROVE  NavInv'
<1>1. Len(currentChatUserMessages) \in Nat
  BY NavIsPast
<1>2. currentChatUserMessages' = currentChatUserMessages
  BY DEF currentChatUserMessages, UserMessages
<1> QED
  BY <1>1, <1>2 DEF NavInv

LEMMA OpenGoes == ASSUME TalkInv, OpenChat PROVE Goes
<1>1. /\ HeapInv /\ HomeInv /\ NavInv
  BY DEF TalkInv
<1>2. /\ open' = TRUE /\ view' = chatMessages /\ shown' = lists[chatMessages]
      /\ input' = Blank /\ nav' = -1 /\ unshown' = FALSE
      /\ pending' = {[p EXCEPT !.here = FALSE] : p \in pending}
      /\ UNCHANGED <<chatHistory, currentChatId, chatIdCounter, lists, chatMessages,
                     home, strayed>>
  BY DEF OpenChat, showMessages
<1>3. /\ OnTheirWay(pending, Len(home)) /\ lists \in [Lists -> Seq(Saying)]
      /\ chatMessages \in Lists /\ lists[chatMessages] \in Seq(Saying)
  BY <1>1 DEF HeapInv
<1>4. /\ OnTheirWay(pending', Len(home)) /\ \A p \in pending' : ~p.here
      /\ \A q \in pending' : \E p \in pending : q.list = p.list /\ q.about = p.about
  BY <1>2, <1>3, CallsElsewhere
<1>5. HeapInv'
  <2>1. chatMessages # NoList
    BY <1>3, ChatAssumption DEF Lists, NoList
  <2>2. CurrentIsSaved'
    BY <1>1, <1>2 DEF HeapInv, CurrentIsSaved
  <2> QED
    BY <1>1, <1>2, <1>3, <1>4, <2>1, <2>2 DEF HeapInv
<1>6. HomeInv'
  BY <1>1, <1>2, <1>4 DEF HomeInv
<1>7. PanelInv'
  <2>1. /\ shown' \in Seq(OnDisplay)
        /\ {m \in ToSet(shown') : m.role # "thinking"} = ToSet(shown')
    BY <1>2, <1>3, SaidIsShown
  <2>3. {m \in ToSet(shown') : m.role # "thinking"} = ToSet(lists'[view'])
    BY <1>2, <2>1
  <2> QED
    BY <1>2, <1>4, <2>1, <2>3 DEF PanelInv
<1>8. NavInv'
  BY <1>1, <1>2, SilentNav
<1>9. NothingLost(chatHistory, chatHistory')
  BY <1>1, <1>2, NothingSaid
<1> QED
  BY <1>5, <1>6, <1>7, <1>8, <1>9 DEF Goes, TalkInv

LEMMA CloseGoes == ASSUME TalkInv, CloseChat PROVE Goes
<1>1. /\ HeapInv /\ HomeInv /\ NavInv
  BY DEF TalkInv
<1>2. /\ open' = FALSE /\ view' = NoList /\ shown' = <<>>
      /\ input' = Blank /\ nav' = -1 /\ unshown' = FALSE
      /\ pending' = {[p EXCEPT !.here = FALSE] : p \in pending}
      /\ lists' = Kept(lists, Held \cup {chatMessages})
      /\ UNCHANGED <<chatHistory, currentChatId, chatIdCounter, chatMessages, home, strayed>>
  BY DEF CloseChat
<1>3. /\ OnTheirWay(pending, Len(home)) /\ lists \in [Lists -> Seq(Saying)]
      /\ chatMessages \in Lists
  BY <1>1 DEF HeapInv
<1>4. /\ OnTheirWay(pending', Len(home)) /\ \A p \in pending' : ~p.here
      /\ \A q \in pending' : \E p \in pending : q.list = p.list /\ q.about = p.about
  BY <1>2, <1>3, CallsElsewhere
<1>5. lists' \in [Lists -> Seq(Saying)] /\ lists'[chatMessages] = lists[chatMessages]
  <2> DEFINE kept == Held \cup {chatMessages}
  <2>1. chatMessages \in kept /\ lists' = Kept(lists, kept)
    BY <1>2
  <2> HIDE DEF kept
  <2> QED
    BY <1>3, <2>1, KeptProps
<1>6. HeapInv'
  <2>1. CurrentIsSaved'
    BY <1>1, <1>2, <1>5 DEF HeapInv, CurrentIsSaved
  <2> QED
    BY <1>1, <1>2, <1>4, <1>5, <2>1 DEF HeapInv
<1>7. HomeInv'
  BY <1>1, <1>2, <1>4 DEF HomeInv
<1>8. PanelInv'
  <2>1. <<>> \in Seq(OnDisplay)
    OBVIOUS
  <2> QED
    BY <1>2, <1>4, <2>1 DEF PanelInv
<1>9. NavInv'
  BY <1>1, <1>2, SilentNav
<1>10. NothingLost(chatHistory, chatHistory')
  BY <1>1, <1>2, NothingSaid
<1> QED
  BY <1>6, <1>7, <1>8, <1>9, <1>10 DEF Goes, TalkInv

LEMMA KeyGoes ==
  ASSUME TalkInv, NEW text \in {Blank, Typed}, KeyPressed(text) PROVE Goes
<1>1. /\ HeapInv /\ HomeInv /\ PanelInv /\ NavInv
  BY DEF TalkInv
<1>2. /\ input' = text /\ nav' = -1
      /\ UNCHANGED <<chatHistory, currentChatId, chatIdCounter, lists, chatMessages, open,
                     view, shown, pending, home, strayed, unshown>>
  BY DEF KeyPressed
<1>3. HeapInv'
  BY <1>1, <1>2 DEF HeapInv, CurrentIsSaved
<1>4. HomeInv'
  BY <1>1, <1>2 DEF HomeInv
<1>5. PanelInv'
  BY <1>1, <1>2 DEF PanelInv
<1>6. NavInv'
  BY <1>1, <1>2, SilentNav
<1>7. NothingLost(chatHistory, chatHistory')
  BY <1>1, <1>2, NothingSaid
<1> QED
  BY <1>3, <1>4, <1>5, <1>6, <1>7 DEF Goes, TalkInv

\* The arrow keys stay among the questions of the chat.
LEMMA ArrowAmong ==
  ASSUME NEW len \in Nat, len # 0, NEW n \in Int, n >= -1
  PROVE  /\ Older(n, len) \in Int /\ Older(n, len) >= -1
         /\ Newer(n, len) \in Int /\ Newer(n, len) >= -1
         /\ Newer(n, len) < len
         /\ n < len => Older(n, len) < len
  BY DEF Older, Newer

LEMMA ArrowGoes ==
  ASSUME TalkInv, NEW n \in Int, n >= -1, ArrowPressed(n),
         ~strayed => n < Len(currentChatUserMessages)
  PROVE  Goes
<1> DEFINE recalled == currentChatUserMessages
<1>1. /\ HeapInv /\ HomeInv /\ PanelInv /\ NavInv
  BY DEF TalkInv
<1>2. /\ nav' = n
      /\ input' = IF n = -1
                    THEN IF nav = -1 THEN input ELSE Blank
                    ELSE IF n < Len(recalled) THEN recalled[n + 1].about ELSE input
      /\ UNCHANGED <<chatHistory, currentChatId, chatIdCounter, lists, chatMessages, open,
                     view, shown, pending, home, strayed, unshown>>
  BY DEF ArrowPressed
<1>3. HeapInv'
  BY <1>1, <1>2 DEF HeapInv, CurrentIsSaved
<1>4. PanelInv'
  BY <1>1, <1>2 DEF PanelInv
<1>5. NavInv'
  <2>1. currentChatUserMessages' = recalled
    BY <1>2 DEF currentChatUserMessages, UserMessages
  <2> QED
    BY <1>1, <1>2, <2>1 DEF NavInv
<1>6. HomeInv'
  <2>1. CASE strayed
    BY <1>1, <1>2, <2>1 DEF HomeInv
  <2>2. CASE ~strayed
    <3>1. /\ \A x \in ToSet(chatHistory) : AskedIn(home, x.messages, x.id)
          /\ open => view = chatMessages
          /\ \A p \in pending : p.list = chatMessages => home[p.about] = currentChatId
          /\ input \in {Blank, Typed}
             \/ (input \in 1 .. Len(home) /\ home[input] = currentChatId)
      BY <1>1, <2>2 DEF HomeInv
    <3>2. ASSUME n # -1, n < Len(recalled)
          PROVE  recalled[n + 1].about \in 1 .. Len(home) /\ home[recalled[n + 1].about] = currentChatId
      <4>1. /\ recalled = UserMessages(lists[chatMessages]) /\ recalled \in Seq(Saying)
            /\ Len(recalled) \in Nat
        BY <1>1, NavIsPast
      <4>2. /\ History(chatHistory, chatIdCounter) /\ chatHistory \in Seq(Conversation)
            /\ Known(chatHistory, currentChatId)
            /\ Chat(chatHistory, currentChatId).messages = lists[chatMessages]
            /\ lists[chatMessages] \in Seq(Saying)
        BY <1>1 DEF HeapInv, CurrentIsSaved, History
      <4>3. n + 1 \in 1 .. Len(recalled)
        BY <3>2, <4>1
      <4>4. ToSet(recalled) = ToSet(lists[chatMessages]) \cap Questions
        BY <4>1, <4>2, FilterSet DEF UserMessages
      <4>5. recalled[n + 1] \in ToSet(recalled)
        BY <4>1, <4>3, LenProperties DEF ToSet
      <4> DEFINE m == recalled[n + 1]
      <4>6. m \in ToSet(lists[chatMessages]) /\ m \in Questions
        BY <4>4, <4>5
      <4> HIDE DEF m, recalled
      <4>7. m.about # 0
        BY <4>6, ChatAssumption DEF Questions, Said
      <4>8. AskedIn(home, lists[chatMessages], currentChatId)
        <5>1. /\ Chat(chatHistory, currentChatId) \in ToSet(chatHistory)
              /\ Chat(chatHistory, currentChatId).id = currentChatId
          BY <4>2, KnownIsIn
        <5> QED
          BY <3>1, <4>2, <5>1
      <4>9. m.about \in 1 .. Len(home) /\ home[m.about] = currentChatId
        BY <4>6, <4>7, <4>8 DEF AskedIn
      <4> QED
        BY <4>9 DEF m
    <3>3. input' \in {Blank, Typed}
          \/ (input' \in 1 .. Len(home) /\ home[input'] = currentChatId)
      <4> HIDE DEF recalled
      <4> QED
        BY <1>2, <3>1, <3>2
    <3>4. strayed \in BOOLEAN
      BY <1>1 DEF HomeInv
    <3> QED
      BY <1>2, <2>2, <3>1, <3>3, <3>4 DEF HomeInv
  <2> QED
    BY <1>1, <2>1, <2>2 DEF HomeInv
<1>7. NothingLost(chatHistory, chatHistory')
  BY <1>1, <1>2, NothingSaid
<1> QED
  BY <1>3, <1>4, <1>5, <1>6, <1>7 DEF Goes, TalkInv

LEMMA FailGoes == ASSUME TalkInv, NEW p \in pending, CallFails(p) PROVE Goes
<1>1. /\ HeapInv /\ HomeInv /\ PanelInv /\ NavInv
  BY DEF TalkInv
<1>2. /\ pending' = pending \ {p}
      /\ lists' = Kept(lists, {x.list : x \in pending'} \cup {view, chatMessages})
      /\ UNCHANGED <<chatHistory, currentChatId, chatIdCounter, chatMessages, open, view,
                     shown, nav, input, home, strayed, unshown>>
  BY DEF CallFails
<1>3. /\ OnTheirWay(pending, Len(home)) /\ lists \in [Lists -> Seq(Saying)]
      /\ chatMessages \in Lists /\ view \in Lists \cup {NoList} /\ open = (view # NoList)
  BY <1>1 DEF HeapInv
<1>4. OnTheirWay(pending', Len(home))
  BY <1>2, <1>3, CallReturned
<1>5. /\ lists' \in [Lists -> Seq(Saying)] /\ lists'[chatMessages] = lists[chatMessages]
      /\ open => lists'[view] = lists[view]
  <2> DEFINE kept == {x.list : x \in pending'} \cup {view, chatMessages}
  <2>1. chatMessages \in kept /\ view \in kept /\ lists' = Kept(lists, kept)
    BY <1>2
  <2> HIDE DEF kept
  <2> QED
    BY <1>3, <2>1, KeptProps
<1>6. HeapInv'
  <2>1. CurrentIsSaved'
    BY <1>1, <1>2, <1>5 DEF HeapInv, CurrentIsSaved
  <2> QED
    BY <1>1, <1>2, <1>4, <1>5, <2>1 DEF HeapInv
<1>7. HomeInv'
  BY <1>1, <1>2 DEF HomeInv
<1>8. PanelInv'
  BY <1>1, <1>2, <1>5 DEF PanelInv
<1>9. NavInv'
  BY <1>1, <1>2, SilentNav
<1>10. NothingLost(chatHistory, chatHistory')
  BY <1>1, <1>2, NothingSaid
<1> QED
  BY <1>6, <1>7, <1>8, <1>9, <1>10 DEF Goes, TalkInv

LEMMA StutterGoes == ASSUME TalkInv, UNCHANGED talkVars PROVE Goes
<1>1. /\ HeapInv /\ HomeInv /\ PanelInv /\ NavInv
  BY DEF TalkInv
<1>2. HeapInv'
  BY <1>1 DEF talkVars, HeapInv, CurrentIsSaved
<1>3. HomeInv'
  BY <1>1 DEF talkVars, HomeInv
<1>4. PanelInv'
  BY <1>1 DEF talkVars, PanelInv
<1>5. NavInv'
  BY <1>1, SilentNav DEF talkVars
<1>6. NothingLost(chatHistory, chatHistory')
  BY <1>1, NothingSaid DEF talkVars
<1> QED
  BY <1>2, <1>3, <1>4, <1>5, <1>6 DEF Goes, TalkInv

LEMMA QuestionGoes == ASSUME TalkInv, QuestionSent PROVE Goes
<1> DEFINE q == Len(home) + 1
           u == Said("user", q)
           w == Said("thinking", q)
           new == [about |-> q, list |-> view, here |-> TRUE]
<1>1. /\ HeapInv /\ HomeInv /\ PanelInv /\ NavInv
  BY DEF TalkInv
<1>2. /\ open /\ Cardinality(pending) < MaxPending
      /\ home' = Append(home, currentChatId)
      /\ Pushes(view, <<u>>, Held)
      /\ pending' = pending \cup {new}
      /\ shown' = shown \o <<u, w>>
      /\ input' = Blank
      /\ UNCHANGED <<currentChatId, chatIdCounter, open, view, nav, strayed, unshown>>
  BY DEF QuestionSent, Pushes
<1>3. /\ view \in Lists /\ home \in Seq(Nat) /\ currentChatId \in Nat
      /\ OnTheirWay(pending, Len(home))
  <2>1. /\ view \in Lists \cup {NoList} /\ open = (view # NoList)
        /\ chatIdCounter \in Nat /\ currentChatId \in 1 .. chatIdCounter
        /\ home \in Seq(Nat) /\ OnTheirWay(pending, Len(home))
    BY <1>1 DEF HeapInv
  <2>2. view # NoList
    BY <1>2, <2>1
  <2>3. currentChatId \in Nat
    BY <2>1
  <2> QED
    BY <2>1, <2>2, <2>3
<1>4. /\ home' \in Seq(Nat) /\ Longer(home, home')
      /\ Len(home) \in Nat /\ Len(home') = q /\ home'[q] = currentChatId
  BY <1>2, <1>3, AskedOneMore
<1>5. OnTheirWay(pending', Len(home'))
  BY <1>2, <1>3, <1>4, CallMade
<1>6. /\ u \in Saying /\ <<u>> \in Seq(Saying) /\ ToSet(<<u>>) = {u}
      /\ u.about = q /\ u.role = "user"
      /\ u \in OnDisplay /\ w \in OnDisplay /\ <<u, w>> \in Seq(OnDisplay)
      /\ ToSet(<<u, w>>) = {u, w} /\ w.role = "thinking"
  <2>1. u \in Saying /\ u \in OnDisplay /\ w \in OnDisplay
    BY <1>4 DEF Said, Saying, OnDisplay
  <2>2. u.about = q /\ u.role = "user" /\ w.role = "thinking"
    BY DEF Said
  <2> HIDE DEF u, w
  <2>3. ToSet(<<u>>) = {u} /\ ToSet(<<u, w>>) = {u, w}
    BY DEF ToSet
  <2> QED
    BY <2>1, <2>2, <2>3
<1> HIDE DEF u, w
<1>7. /\ HeapInv' /\ chatMessages' = view
      /\ lists'[view] = lists[view] \o <<u>> /\ lists[view] \in Seq(Saying)
      /\ ToSet(chatHistory') = {x \in ToSet(chatHistory) : x.id # currentChatId}
           \cup {[id |-> currentChatId, messages |-> lists'[view]]}
  BY <1>1, <1>2, <1>3, <1>4, <1>5, <1>6, PushHeap
<1>8. AskedIn(home', <<u>>, currentChatId)
  <2>1. q \in 1 .. Len(home')
    BY <1>4
  <2> QED
    BY <1>4, <1>6, <2>1 DEF AskedIn
<1>9. strayed \in BOOLEAN /\ (~strayed => view = chatMessages)
  BY <1>1, <1>2 DEF HomeInv
<1>10. HomeInv'
  <2>1. \A p \in pending' : p \in pending \/ home'[p.about] = currentChatId
    BY <1>2, <1>4
  <2> QED
    BY <1>1, <1>2, <1>3, <1>4, <1>5, <1>6, <1>8, <1>9, <2>1, PushHome
<1>11. PanelInv'
  <2>1. /\ unshown \in BOOLEAN /\ shown \in Seq(OnDisplay)
        /\ \A p \in pending : p.here =>
             open /\ p.list = view /\ Said("thinking", p.about) \in ToSet(shown)
        /\ ~unshown => {m \in ToSet(shown) : m.role # "thinking"} = ToSet(lists[view])
    BY <1>1, <1>2 DEF PanelInv
  <2>2. /\ shown' \in Seq(OnDisplay) /\ ToSet(shown') = ToSet(shown) \cup {u, w}
    <3> DEFINE said == <<u, w>>
    <3>1. said \in Seq(OnDisplay) /\ ToSet(said) = {u, w} /\ shown' = shown \o said
      BY <1>2, <1>6
    <3> HIDE DEF said
    <3> QED
      BY <2>1, <3>1, SetConcat, ConcatProperties
  <2>3. ToSet(lists'[view']) = ToSet(lists[view]) \cup {u}
    <3> DEFINE said == <<u>>
    <3>1. /\ said \in Seq(Saying) /\ ToSet(said) = {u} /\ lists[view] \in Seq(Saying)
          /\ lists'[view'] = lists[view] \o said
      BY <1>2, <1>6, <1>7
    <3> HIDE DEF said
    <3> QED
      BY <3>1, SetConcat
  <2>4. ASSUME NEW p \in pending', p.here
        PROVE  open' /\ p.list = view' /\ Said("thinking", p.about) \in ToSet(shown')
    <3>1. CASE p \in pending
      BY <1>2, <2>1, <2>2, <2>4, <3>1
    <3>2. CASE p = new
      BY <1>2, <2>2, <3>2 DEF w
    <3> QED
      BY <1>2, <2>4, <3>1, <3>2
  <2>5. ASSUME ~unshown'
        PROVE  {m \in ToSet(shown') : m.role # "thinking"} = ToSet(lists'[view'])
    BY <1>2, <1>6, <2>1, <2>2, <2>3, <2>5
  <2> QED
    BY <1>2, <2>1, <2>2, <2>4, <2>5 DEF PanelInv
<1>12. NavInv'
  BY <1>1, <1>2, <1>3, <1>6, <1>7, <1>9, PushNav
<1>13. ASSUME ~strayed' PROVE NothingLost(chatHistory, chatHistory')
  <2>1. view = chatMessages
    BY <1>2, <1>9, <1>13
  <2> QED
    BY <1>1, <1>3, <1>6, <1>7, <2>1, PushLosesNothing
<1> QED
  BY <1>7, <1>10, <1>11, <1>12, <1>13 DEF Goes, TalkInv

\* A canned conversation is a question and its answer, once or twice.
LEMMA CannedProps ==
  ASSUME NEW kind, NEW q \in Nat
  PROVE  /\ Canned(kind, q) \in Seq(Saying)
         /\ \A m \in ToSet(Canned(kind, q)) : m.about = q
<1>1. Said("user", q) \in Saying /\ Said("assistant", q) \in Saying
  BY DEF Said, Saying
<1>2. Said("user", q).about = q /\ Said("assistant", q).about = q
  BY DEF Said
<1> DEFINE u == Said("user", q)
           a == Said("assistant", q)
<1> HIDE DEF u, a
<1>3. u \in Saying /\ a \in Saying /\ u.about = q /\ a.about = q
  BY <1>1, <1>2 DEF u, a
<1>4. Canned(kind, q) = IF kind = "graph" THEN <<u, a>> ELSE <<u, a, u, a>>
  BY DEF Canned, u, a
<1>5. <<u, a>> \in Seq(Saying) /\ <<u, a, u, a>> \in Seq(Saying)
  BY <1>3
<1>6. ToSet(<<u, a>>) \subseteq {u, a} /\ ToSet(<<u, a, u, a>>) \subseteq {u, a}
  BY DEF ToSet
<1> QED
  BY <1>3, <1>4, <1>5, <1>6

LEMMA TestGoes == ASSUME TalkInv, NEW kind, TestClicked(kind) PROVE Goes
<1> DEFINE q == Len(home) + 1
           said == Canned(kind, q)
<1>1. /\ HeapInv /\ HomeInv /\ PanelInv /\ NavInv
  BY DEF TalkInv
<1>2. /\ open /\ home' = Append(home, currentChatId)
      /\ Pushes(view, said, Held)
      /\ shown' = shown \o said
      /\ input' = Blank
      /\ UNCHANGED <<currentChatId, chatIdCounter, open, view, nav, pending, strayed, unshown>>
  BY DEF TestClicked, Pushes
<1>3. /\ view \in Lists /\ home \in Seq(Nat) /\ currentChatId \in Nat
      /\ OnTheirWay(pending, Len(home))
  <2>1. /\ view \in Lists \cup {NoList} /\ open = (view # NoList)
        /\ chatIdCounter \in Nat /\ currentChatId \in 1 .. chatIdCounter
        /\ home \in Seq(Nat) /\ OnTheirWay(pending, Len(home))
    BY <1>1 DEF HeapInv
  <2>2. view # NoList
    BY <1>2, <2>1
  <2>3. currentChatId \in Nat
    BY <2>1
  <2> QED
    BY <2>1, <2>2, <2>3
<1>4. /\ home' \in Seq(Nat) /\ Longer(home, home')
      /\ Len(home) \in Nat /\ Len(home') = q /\ home'[q] = currentChatId
  BY <1>2, <1>3, AskedOneMore
<1>5. OnTheirWay(pending', Len(home'))
  BY <1>2, <1>3, <1>4 DEF OnTheirWay
<1>6. said \in Seq(Saying) /\ \A m \in ToSet(said) : m.about = q
  <2>1. q \in Nat
    BY <1>4
  <2> HIDE DEF q
  <2> QED
    BY <2>1, CannedProps
<1> HIDE DEF said
<1>7. /\ HeapInv' /\ chatMessages' = view
      /\ lists'[view] = lists[view] \o said /\ lists[view] \in Seq(Saying)
      /\ ToSet(chatHistory') = {x \in ToSet(chatHistory) : x.id # currentChatId}
           \cup {[id |-> currentChatId, messages |-> lists'[view]]}
  BY <1>1, <1>2, <1>3, <1>4, <1>5, <1>6, PushHeap
<1>8. AskedIn(home', said, currentChatId)
  <2>1. q \in 1 .. Len(home')
    BY <1>4
  <2> QED
    BY <1>4, <1>6, <2>1 DEF AskedIn
<1>9. strayed \in BOOLEAN /\ (~strayed => view = chatMessages)
  BY <1>1, <1>2 DEF HomeInv
<1>10. HomeInv'
  BY <1>1, <1>2, <1>3, <1>4, <1>5, <1>6, <1>8, <1>9, PushHome
<1>11. PanelInv'
  <2>1. /\ unshown \in BOOLEAN /\ shown \in Seq(OnDisplay)
        /\ \A p \in pending : p.here =>
             open /\ p.list = view /\ Said("thinking", p.about) \in ToSet(shown)
        /\ ~unshown => {m \in ToSet(shown) : m.role # "thinking"} = ToSet(lists[view])
    BY <1>1, <1>2 DEF PanelInv
  <2>2. /\ said \in Seq(OnDisplay)
        /\ {m \in ToSet(said) : m.role # "thinking"} = ToSet(said)
    BY <1>6, SaidIsShown
  <2>3. /\ shown' \in Seq(OnDisplay) /\ ToSet(shown') = ToSet(shown) \cup ToSet(said)
    BY <1>2, <2>1, <2>2, SetConcat, ConcatProperties
  <2>4. ToSet(lists'[view']) = ToSet(lists[view]) \cup ToSet(said)
    BY <1>2, <1>6, <1>7, SetConcat
  <2>5. ASSUME ~unshown'
        PROVE  {m \in ToSet(shown') : m.role # "thinking"} = ToSet(lists'[view'])
    BY <1>2, <2>1, <2>2, <2>3, <2>4, <2>5
  <2> QED
    BY <1>2, <2>1, <2>3, <2>5 DEF PanelInv
<1>12. NavInv'
  BY <1>1, <1>2, <1>3, <1>6, <1>7, <1>9, PushNav
<1>13. ASSUME ~strayed' PROVE NothingLost(chatHistory, chatHistory')
  <2>1. view = chatMessages
    BY <1>2, <1>9, <1>13
  <2> QED
    BY <1>1, <1>3, <1>6, <1>7, <2>1, PushLosesNothing
<1> QED
  BY <1>7, <1>10, <1>11, <1>12, <1>13 DEF Goes, TalkInv

\* A placeholder that is there becomes the answer.
LEMMA AnswerShown ==
  ASSUME NEW s \in Seq(OnDisplay), NEW w \in OnDisplay, NEW a \in OnDisplay,
         w \in ToSet(s)
  PROVE  LET r == [i \in DOMAIN s |-> IF s[i] = w THEN a ELSE s[i]]
         IN r \in Seq(OnDisplay) /\ ToSet(r) = (ToSet(s) \ {w}) \cup {a}
<1> DEFINE r == [i \in DOMAIN s |-> IF s[i] = w THEN a ELSE s[i]]
<1>1. /\ Len(s) \in Nat /\ DOMAIN s = 1 .. Len(s)
      /\ \A i \in 1 .. Len(s) : s[i] \in OnDisplay
  BY LenProperties, ElementOfSeq
<1>2. r \in [1 .. Len(s) -> OnDisplay]
  BY <1>1
<1>3. r \in Seq(OnDisplay)
  BY <1>1, <1>2
<1>4. \A x : x \in ToSet(r) <=> x \in (ToSet(s) \ {w}) \cup {a}
  <2>1. ASSUME NEW x \in ToSet(r) PROVE x \in (ToSet(s) \ {w}) \cup {a}
    BY <2>1 DEF ToSet
  <2>2. a \in ToSet(r)
    BY DEF ToSet
  <2>3. ASSUME NEW x \in ToSet(s), x # w PROVE x \in ToSet(r)
    BY <2>3 DEF ToSet
  <2> QED
    BY <2>1, <2>2, <2>3
<1> QED
  BY <1>3, <1>4

LEMMA AnswerGoes == ASSUME TalkInv, NEW p \in pending, AnswerArrives(p) PROVE Goes
<1> DEFINE a == Said("assistant", p.about)
           w == Said("thinking", p.about)
           live == {x.list : x \in pending \ {p}}
<1>1. /\ HeapInv /\ HomeInv /\ PanelInv /\ NavInv
  BY DEF TalkInv
<1>2. /\ pending' = pending \ {p}
      /\ Pushes(p.list, <<a>>, live)
      /\ shown' = ShowAnswer(p)
      /\ strayed' = (strayed \/ p.list # chatMessages)
      /\ unshown' = (unshown \/ (~p.here /\ p.list = view))
      /\ UNCHANGED <<currentChatId, chatIdCounter, open, view, nav, input, home>>
  BY DEF AnswerArrives, Pushes
<1> HIDE DEF live
<1>3. /\ home \in Seq(Nat) /\ Len(home) \in Nat /\ lists \in [Lists -> Seq(Saying)]
      /\ view \in Lists \cup {NoList} /\ open = (view # NoList)
      /\ OnTheirWay(pending, Len(home))
  BY <1>1, LenProperties DEF HeapInv
<1>4. /\ p.list \in Lists /\ p.about \in Nat /\ p.about \in 1 .. Len(home)
      /\ p.here \in BOOLEAN
      /\ \A r \in pending : r.about \in Nat /\ (r.about = p.about => r = p)
  BY <1>3 DEF OnTheirWay, Call
<1>5. OnTheirWay(pending', Len(home'))
  BY <1>2, <1>3, CallReturned
<1>6. /\ a \in Saying /\ <<a>> \in Seq(Saying) /\ ToSet(<<a>>) = {a}
      /\ a.about = p.about /\ a.role = "assistant"
      /\ a \in OnDisplay /\ w \in OnDisplay /\ w.role = "thinking"
  <2>1. a \in Saying /\ a \in OnDisplay /\ w \in OnDisplay
    BY <1>4 DEF Said, Saying, OnDisplay
  <2>2. a.about = p.about /\ a.role = "assistant" /\ w.role = "thinking"
    BY DEF Said
  <2> HIDE DEF a, w
  <2>3. ToSet(<<a>>) = {a}
    BY DEF ToSet
  <2> QED
    BY <2>1, <2>2, <2>3
<1>7. shown' = IF p.here THEN [i \in DOMAIN shown |-> IF shown[i] = w THEN a ELSE shown[i]]
               ELSE shown
  BY <1>2 DEF ShowAnswer
<1>8. \A r \in pending \ {p} : Said("thinking", r.about) # w
  BY <1>4 DEF Said
<1> HIDE DEF a, w
<1>9. /\ HeapInv' /\ chatMessages' = p.list
      /\ lists'[p.list] = lists[p.list] \o <<a>> /\ lists[p.list] \in Seq(Saying)
      /\ view \in Lists /\ view # p.list => lists'[view] = lists[view]
      /\ ToSet(chatHistory') = {x \in ToSet(chatHistory) : x.id # currentChatId}
           \cup {[id |-> currentChatId, messages |-> lists'[p.list]]}
  BY <1>1, <1>2, <1>3, <1>4, <1>5, <1>6, PushHeap
<1>10. strayed \in BOOLEAN /\ strayed' \in BOOLEAN
  BY <1>1, <1>2 DEF HomeInv
<1>11. HomeInv'
  <2>1. ASSUME ~strayed'
        PROVE  ~strayed /\ p.list = chatMessages /\ AskedIn(home', <<a>>, currentChatId)
    <3>1. ~strayed /\ p.list = chatMessages
      BY <1>2, <2>1
    <3>2. home[p.about] = currentChatId
      BY <1>1, <3>1 DEF HomeInv
    <3> QED
      BY <1>2, <1>4, <1>6, <3>1, <3>2 DEF AskedIn
  <2>2. Longer(home, home') /\ home' \in Seq(Nat)
    BY <1>2, <1>3 DEF Longer
  <2> QED
    BY <1>1, <1>2, <1>4, <1>5, <1>6, <1>10, <2>1, <2>2, PushHome
<1>12. PanelInv'
  <2>1. /\ unshown \in BOOLEAN /\ shown \in Seq(OnDisplay)
        /\ \A r \in pending : r.here =>
             open /\ r.list = view /\ Said("thinking", r.about) \in ToSet(shown)
        /\ open /\ ~unshown => {m \in ToSet(shown) : m.role # "thinking"} = ToSet(lists[view])
    BY <1>1 DEF PanelInv
  <2>2. CASE p.here
    <3>1. open /\ p.list = view /\ w \in ToSet(shown) /\ view \in Lists
      BY <1>4, <2>1, <2>2 DEF w
    <3>2. shown' \in Seq(OnDisplay) /\ ToSet(shown') = (ToSet(shown) \ {w}) \cup {a}
      BY <1>6, <1>7, <2>1, <2>2, <3>1, AnswerShown
    <3>3. ToSet(lists'[view']) = ToSet(lists[view]) \cup {a}
      <4> DEFINE said == <<a>>
      <4>1. /\ said \in Seq(Saying) /\ ToSet(said) = {a} /\ lists[view] \in Seq(Saying)
            /\ lists'[view'] = lists[view] \o said
        BY <1>2, <1>6, <1>9, <3>1
      <4> HIDE DEF said
      <4> QED
        BY <4>1, SetConcat
    <3>4. ASSUME NEW r \in pending', r.here
          PROVE  open' /\ r.list = view' /\ Said("thinking", r.about) \in ToSet(shown')
      BY <1>2, <1>8, <2>1, <3>2, <3>4
    <3>5. ASSUME ~unshown'
          PROVE  {m \in ToSet(shown') : m.role # "thinking"} = ToSet(lists'[view'])
      <4>1. ~unshown
        BY <1>2, <3>5
      <4>2. {m \in ToSet(shown) : m.role # "thinking"} = ToSet(lists[view])
        BY <2>1, <3>1, <4>1
      <4>3. {m \in ToSet(shown') : m.role # "thinking"} =
              {m \in ToSet(shown) : m.role # "thinking"} \cup {a}
        BY <1>6, <3>2
      <4> QED
        BY <3>3, <4>2, <4>3
    <3> QED
      BY <1>2, <2>1, <3>2, <3>4, <3>5 DEF PanelInv
  <2>3. CASE ~p.here
    <3>1. shown' = shown
      BY <1>7, <2>3
    <3>2. ASSUME open', ~unshown'
          PROVE  {m \in ToSet(shown') : m.role # "thinking"} = ToSet(lists'[view'])
      <4>1. ~unshown /\ view # p.list /\ open /\ view \in Lists
        BY <1>2, <1>3, <2>3, <3>2
      <4> QED
        BY <1>2, <1>9, <2>1, <3>1, <4>1
    <3> QED
      BY <1>2, <2>1, <3>1, <3>2 DEF PanelInv
  <2> QED
    BY <1>4, <2>2, <2>3
<1>13. NavInv'
  BY <1>1, <1>2, <1>4, <1>6, <1>9, PushNav
<1>14. ASSUME ~strayed' PROVE NothingLost(chatHistory, chatHistory')
  <2>1. p.list = chatMessages
    BY <1>2, <1>14
  <2> QED
    BY <1>1, <1>4, <1>6, <1>9, <2>1, PushLosesNothing
<1> QED
  BY <1>9, <1>11, <1>12, <1>13, <1>14 DEF Goes, TalkInv

LEMMA TalkInvInit == ChatInit => TalkInv
<1> SUFFICES ASSUME ChatInit PROVE TalkInv
  OBVIOUS
<1> DEFINE gs == <<greeting>>
           first == [id |-> 1, messages |-> gs]
<1>1. /\ chatIdCounter = 1 /\ currentChatId = 1 /\ chatHistory = <<first>>
      /\ chatMessages = 1 /\ lists = Kept([l \in Lists |-> gs], {1})
      /\ open = FALSE /\ view = NoList /\ shown = <<>> /\ nav = -1 /\ input = Blank
      /\ pending = {} /\ home = <<>> /\ strayed = FALSE /\ unshown = FALSE
  BY DEF ChatInit, TalkInit
<1>2. greeting \in Saying /\ gs \in Seq(Saying) /\ greeting.about = 0
  BY GreetingIsSaid DEF greeting, Said
<1>3. ToSet(gs) = {greeting}
  BY DEF ToSet
<1> HIDE DEF gs
<1>4. first \in Conversation /\ first.id = 1 /\ first.messages = gs
  BY <1>2 DEF Conversation
<1> HIDE DEF first
<1>5. <<first>> \in Seq(Conversation) /\ ToSet(<<first>>) = {first}
  BY <1>4 DEF ToSet
<1>6. History(chatHistory, 1)
  BY <1>1, <1>4, <1>5 DEF History
<1>7. Known(chatHistory, 1) /\ Chat(chatHistory, 1) = first
  BY <1>1, <1>4, <1>5, <1>6, ChatOfId
<1>8. 1 \in Lists /\ [l \in Lists |-> gs] \in [Lists -> Seq(Saying)]
  BY <1>2, ChatAssumption DEF Lists
<1>9. lists \in [Lists -> Seq(Saying)] /\ lists[1] = gs
  BY <1>1, <1>8, KeptProps
<1>10. OnTheirWay(pending, Len(home))
  BY <1>1, FS_EmptySet, ChatAssumption DEF OnTheirWay
<1>11. HeapInv
  <2>1. <<>> \in Seq(Nat)
    OBVIOUS
  <2>2. CurrentIsSaved
    BY <1>1, <1>4, <1>7, <1>9 DEF CurrentIsSaved
  <2>3. 1 \in Nat /\ 1 \in 1 .. 1 /\ open = (view # NoList)
    <3>1. (view # NoList) = FALSE
      BY <1>1
    <3>2. open = FALSE
      BY <1>1
    <3>3. open = (view # NoList)
      BY <3>1, <3>2, Zenon
    <3> QED
      BY <3>3
  <2> HIDE DEF first
  <2>4. /\ chatIdCounter \in Nat /\ currentChatId \in 1 .. chatIdCounter
        /\ History(chatHistory, chatIdCounter)
    BY <1>1, <1>6, <2>3
  <2>5. chatMessages \in Lists /\ view \in Lists \cup {NoList} /\ home \in Seq(Nat)
    BY <1>1, <1>8, <2>1
  <2> QED
    BY <1>9, <1>10, <2>2, <2>3, <2>4, <2>5 DEF HeapInv
<1>12. HomeInv
  <2>1. AskedIn(home, gs, 1)
    BY <1>2, <1>3 DEF AskedIn
  <2> QED
    BY <1>1, <1>4, <1>5, <2>1 DEF HomeInv
<1>13. PanelInv
  <2>1. <<>> \in Seq(OnDisplay)
    OBVIOUS
  <2> QED
    BY <1>1, <2>1 DEF PanelInv
<1>14. NavInv
  <2>1. Len(currentChatUserMessages) \in Nat
    BY <1>11, NavIsPast
  <2> QED
    BY <1>1, <2>1 DEF NavInv
<1> QED
  BY <1>11, <1>12, <1>13, <1>14 DEF TalkInv

LEMMA TalkGoes == TalkInv /\ [ChatNext]_chatVars => Goes
<1> SUFFICES ASSUME TalkInv, TalkStep PROVE Goes
  BY TalkOfTheSteps
<1>1. CASE OpenChat
  BY <1>1, OpenGoes
<1>2. CASE CloseChat
  BY <1>2, CloseGoes
<1>3. CASE DeleteClicked
  BY <1>3, DeleteSwitches, SwitchGoes DEF TalkInv
<1>4. CASE NewClicked
  BY <1>4, NewSwitches, SwitchGoes DEF TalkInv
<1>5. CASE \E c \in 1 .. MaxChats : ChatSelected(c)
  BY <1>5, SelectedSwitches, SwitchGoes DEF TalkInv
<1>6. CASE \E text \in {Blank, Typed} : KeyPressed(text)
  BY <1>6, KeyGoes
<1>7. /\ Len(currentChatUserMessages) \in Nat
      /\ nav \in Int /\ nav >= -1
      /\ ~strayed => nav < Len(currentChatUserMessages)
  BY NavIsPast DEF TalkInv, NavInv
<1>8. ASSUME currentChatUserMessages # <<>> PROVE Len(currentChatUserMessages) # 0
  BY <1>8, NavIsPast, EmptySeq DEF TalkInv
<1> DEFINE len == Len(currentChatUserMessages)
<1>9. CASE ArrowPressed(Older(nav, len))
  <2>1. len # 0
    BY <1>8, <1>9 DEF ArrowPressed
  <2>2. /\ Older(nav, len) \in Int /\ Older(nav, len) >= -1
        /\ nav < len => Older(nav, len) < len
    BY <1>7, <2>1, ArrowAmong
  <2> QED
    BY <1>7, <1>9, <2>2, ArrowGoes
<1>10. CASE ArrowPressed(Newer(nav, len))
  <2>1. len # 0
    BY <1>8, <1>10 DEF ArrowPressed
  <2>2. Newer(nav, len) \in Int /\ Newer(nav, len) >= -1 /\ Newer(nav, len) < len
    BY <1>7, <2>1, ArrowAmong
  <2> QED
    BY <1>10, <2>2, ArrowGoes
<1>11. CASE QuestionSent
  BY <1>11, QuestionGoes
<1>12. CASE \E kind \in {"graph", "subpage"} : TestClicked(kind)
  BY <1>12, TestGoes
<1>13. ASSUME NEW p \in pending, AnswerArrives(p) PROVE Goes
  BY <1>13, AnswerGoes
<1>14. ASSUME NEW p \in pending, CallFails(p) PROVE Goes
  BY <1>14, FailGoes
<1>15. CASE UNCHANGED talkVars
  BY <1>15, StutterGoes
<1> QED
  BY <1>1, <1>2, <1>3, <1>4, <1>5, <1>6, <1>9, <1>10, <1>11, <1>12, <1>13, <1>14, <1>15
  DEF TalkStep

LEMMA TalkInvStep == TalkInv /\ [ChatNext]_chatVars => TalkInv'
  BY TalkGoes DEF Goes

LEMMA TalkIsKept == TalkInv => ChatsKept
<1> SUFFICES ASSUME TalkInv PROVE ChatsKept
  OBVIOUS
<1>1. CurrentIsSaved
  BY DEF TalkInv, HeapInv
<1>2. AnswersAtHome
  <2>1. ASSUME ~strayed, NEW i \in DOMAIN chatHistory, NEW m \in ToSet(chatHistory[i].messages),
               m.about # 0
        PROVE  home[m.about] = chatHistory[i].id
    <3>1. chatHistory[i] \in ToSet(chatHistory)
      BY DEF ToSet
    <3>2. AskedIn(home, chatHistory[i].messages, chatHistory[i].id)
      BY <2>1, <3>1 DEF TalkInv, HomeInv
    <3> QED
      BY <2>1, <3>2 DEF AskedIn
  <2>2. ~strayed /\ open => view = chatMessages
    BY DEF TalkInv, HomeInv
  <2> QED
    BY <2>1, <2>2 DEF AnswersAtHome
<1> QED
  BY <1>1, <1>2 DEF ChatsKept

LEMMA TalkIsShown == TalkInv => ShownIsSaid
  BY DEF TalkInv, HomeInv, PanelInv, NavInv, ShownIsSaid

LEMMA NothingLostAtAll ==
  ASSUME NEW g, NEW h, NothingLost(g, h)
  PROVE  \A i \in DOMAIN g :
           LET c == g[i].id
           IN Known(h, c) => IsPrefix(g[i].messages, Chat(h, c).messages)
  BY DEF NothingLost, ToSet

\* What the boxes show is what is ticked, and while the page's names stand it is
\* what a question takes along and what the bubble of the trace counts; what is
\* ticked of the repository is what its own bubble counts, and what its button
\* shows unless the second bubble (_showChatPanel) covers it; for any trace and
\* repository.
THEOREM TicksAlwaysAgree == ChatSpec => []TicksAgree
<1>1. TicksInv => TicksAgree
  BY DEF TicksInv
<1> QED
  BY TicksInvInit, TicksInvStep, <1>1, PTL DEF ChatSpec

\* The trace's window and the repository's are never both on the page, and each
\* is where its flag says once one of the two buttons was clicked.
THEOREM NeverTwoWindows == ChatSpec => []OneWindow
<1>1. WindowsInv => OneWindow
  BY DEF WindowsInv
<1> QED
  BY WindowsInvInit, WindowsInvStep, <1>1, PTL DEF ChatSpec

\* What goes along with a question agrees with what the panel shows of it: the
\* files with their rows and bubbles and no two of one id, the boxes with what is
\* ticked, and one window at a time; but for a second bubble that is left on the
\* repository's button; for any trace, repository and number of files.
THEOREM AttachmentsStayAgreed == ChatSpec => []AttachmentsAgree
<1>1. FilesInv /\ TicksInv /\ WindowsInv => AttachmentsAgree
  BY DEF FilesInv, TicksInv, WindowsInv, AttachmentsAgree
<1> QED
  BY FilesInvInit, FilesInvStep, TicksInvInit, TicksInvStep, WindowsInvInit,
     WindowsInvStep, <1>1, PTL DEF ChatSpec

\* A chat is never mixed with another before an answer has come too late, and what
\* the panel goes on with is always saved (_saveChatToHistory, _loadChat,
\* _deleteChat, sendMessage), for any number of chats, questions and calls.
THEOREM ChatsStayKept == ChatSpec => []ChatsKept
  BY TalkInvInit, TalkInvStep, TalkIsKept, PTL DEF ChatSpec

\* The panel shows what its array holds, and the arrow keys recall questions of
\* the current chat (_showChatPanel, _navigateMessageHistory), for any number of
\* chats, questions and calls.
THEOREM PanelStaysTrue == ChatSpec => []ShownIsSaid
  BY TalkInvInit, TalkInvStep, TalkIsShown, PTL DEF ChatSpec

\* No step takes a message out of a chat that remains, until an answer has come
\* too late (sendPostGPT's callers push to the array they captured).
THEOREM NothingIsUnsaid == ChatSpec => NothingUnsaid
<1> DEFINE Kind == ~strayed' =>
             \A i \in DOMAIN chatHistory :
               LET c == chatHistory[i].id
               IN Known(chatHistory', c) =>
                    IsPrefix(chatHistory[i].messages, Chat(chatHistory', c).messages)
<1>1. TalkInv /\ [ChatNext]_chatVars => [Kind]_talkVars
  <2> SUFFICES ASSUME TalkInv, [ChatNext]_chatVars, ~strayed' PROVE Kind
    OBVIOUS
  <2>1. NothingLost(chatHistory, chatHistory')
    BY TalkGoes DEF Goes
  <2> QED
    BY <2>1, NothingLostAtAll
<1> QED
  BY <1>1, TalkInvInit, TalkInvStep, PTL DEF ChatSpec, NothingUnsaid

(***************************************************************************)
(* The dashboard                                                           *)
(*                                                                         *)
(* Before its requests are answered and its timers expire the page may show*)
(* anything; what every handler owes is that something is left to come, or *)
(* that the page is right.                                                 *)
(***************************************************************************)
Address == [page : Nat \cup {Absent}, filter : Expressions \cup {Absent},
            axes : [Sides -> Axes \cup {Absent}], range : TimeRanges \cup {Absent}]
PanelType == [here : BOOLEAN, taken : Nat, opening : Nat, closing : Nat, closed : Nat]
GridType == [rows : 0 .. 4, cols : 2 .. 4]

DashTypes ==
  /\ served \in Served /\ loaded \in BOOLEAN /\ loads \in Nat /\ listeners \in Nat \ {0}
  /\ currFilter \in Expressions /\ currPage \in Nat
  /\ axisOf \in [Sides -> Axes] /\ timeRange \in TimeRanges \cup {Absent}
  /\ numWidget \in 0 .. 16 /\ width \in Widths
  /\ grid \in GridType /\ buttons \in [page : Nat, pages : Int]
  /\ widgets \in Seq(Widget)
  /\ inputs \in [{"bar", "menu"} -> Expressions]
  /\ address \in Address /\ past \in Seq(Address)
  /\ panel \in PanelType /\ envAsks \in Nat
  /\ panel.taken = (IF panel.here THEN PanelWidth ELSE 0)

\* Before the components are known there is nothing on the page and no panel.
NothingYet ==
  /\ loaded => timeRange \in TimeRanges
  /\ ~loaded => /\ widgets = <<>> /\ ~panel.here /\ envAsks = 0
                /\ panel.opening = 0 /\ panel.closing = 0 /\ panel.closed = 0

\* The names and the number of widgets are those of the filter, unless it is no
\* expression.
WidgetsCounted ==
  loaded /\ currFilter \notin Unreadable =>
    filtered = currFilter /\ numWidget = Lesser(Len(filteredNames), 16)

\* The strengthening of PageAgrees and RangesShared: with the types, it is inductive.
DashInv ==
  /\ DashTypes /\ NothingYet /\ WidgetsCounted
  /\ PageShown /\ AddressTells /\ RangesShared

\* What the page shows, once nothing is about to change it.
Shows(names, p, g, ws, b) ==
  /\ [i \in DOMAIN ws |-> ws[i].name] = OnPage(names, p, g)
  /\ b = addPageButtons(names, p, g)

Still == panel.opening + panel.closing + panel.closed = 0
Quiet == loads = 0 /\ Still

\* The names found are names of the trace.
LEMMA FoundNames ==
  ASSUME NEW n \in Served, NEW f
  PROVE  /\ Found(n, f) \in Seq(Everything) /\ Len(Found(n, f)) \in Nat
         /\ Lesser(Len(Found(n, f)), 16) \in 0 .. 16
<1>1. n \in Nat /\ 1 .. n \subseteq Everything
  BY DashboardAssumption
<1>2. Components(n) \in Seq(Everything)
  BY <1>1 DEF Components
<1>3. Found(n, f) \in Seq(Everything)
  BY <1>2, FilterSet DEF Found
<1>4. Len(Found(n, f)) \in Nat
  BY <1>3, LenProperties
<1>5. Lesser(Len(Found(n, f)), 16) \in 0 .. 16
  <2> DEFINE k == Len(Found(n, f))
  <2>1. k \in Nat
    BY <1>4
  <2> HIDE DEF k
  <2>2. (IF k < 16 THEN k ELSE 16) \in 0 .. 16
    BY <2>1
  <2>3. Lesser(k, 16) \in 0 .. 16
    BY <2>2 DEF Lesser
  <2> QED
    BY <2>3 DEF k
<1> QED
  BY <1>3, <1>4, <1>5

\* A page has at most four rows, and, below, at most four columns.
LEMMA RowsFit == \A n \in 1 .. 16 : rowTable[n] \in 1 .. 4
  BY DEF rowTable

\* _resetNumRowCol gives a grid.
LEMMA GridFits ==
  ASSUME NEW n \in 0 .. 16, NEW w, NEW taken
  PROVE  resetNumRowCol(n, w, taken) \in GridType
<1>1. Columns(w - taken) \in 2 .. 4
  BY DEF Columns
<1>2. (IF n = 0 THEN 0 ELSE rowTable[n]) \in 0 .. 4
  BY RowsFit
<1> QED
  BY <1>1, <1>2 DEF resetNumRowCol, GridType

\* The slice of a page, also when there is no such page.
LEMMA SliceIs ==
  ASSUME NEW S, NEW s \in Seq(S), NEW m \in Nat \ {0}, NEW n \in Int, n =< Len(s)
  PROVE  /\ SubSeq(s, m, n) \in Seq(S)
         /\ SubSeq(s, m, n) = [i \in DOMAIN SubSeq(s, m, n) |-> SubSeq(s, m, n)[i]]
<1>1. SubSeq(s, m, n) \in Seq(S)
  OBVIOUS
<1>2. SubSeq(s, m, n) = [i \in DOMAIN SubSeq(s, m, n) |-> SubSeq(s, m, n)[i]]
  OBVIOUS
<1> QED
  BY <1>1, <1>2

\* A page of the names found is a sequence of names.
LEMMA PageOf ==
  ASSUME NEW names \in Seq(Everything), NEW p \in Nat, NEW g \in GridType
  PROVE  LET cs == OnPage(names, p, g)
         IN cs \in Seq(Everything) /\ cs = [i \in DOMAIN cs |-> cs[i]]
<1> DEFINE k == g.rows * g.cols
           upper == IF (p + 1) * k < Len(names) THEN (p + 1) * k ELSE Len(names)
<1>1. g.rows \in Nat /\ g.cols \in Nat /\ Len(names) \in Nat
  BY DEF GridType
<1>2. k \in Nat
  BY <1>1
<1> HIDE DEF k
<1>3. p * k + 1 \in Nat \ {0} /\ (p + 1) * k \in Nat
  BY <1>2
<1>4. upper \in Int /\ upper =< Len(names)
  BY <1>1, <1>3
<1>5. OnPage(names, p, g) = SubSeq(names, p * k + 1, upper)
  BY DEF OnPage, k
<1> HIDE DEF upper
<1> DEFINE first == p * k + 1
<1>6. first \in Nat \ {0}
  BY <1>3
<1>7. OnPage(names, p, g) = SubSeq(names, first, upper)
  BY <1>5
<1> HIDE DEF first
<1>8. /\ SubSeq(names, first, upper) \in Seq(Everything)
      /\ SubSeq(names, first, upper) = [i \in DOMAIN SubSeq(names, first, upper) |-> SubSeq(names, first, upper)[i]]
  BY <1>4, <1>6, SliceIs
<1> QED
  BY <1>7, <1>8

\* addPageButtons makes page buttons.
LEMMA PagesCounted ==
  ASSUME NEW names \in Seq(Everything), NEW p \in Nat, NEW g \in GridType
  PROVE  addPageButtons(names, p, g) \in [page : Nat, pages : Int]
<1> DEFINE k == g.rows * g.cols
<1>1. g.rows \in 0 .. 4 /\ g.cols \in 2 .. 4 /\ Len(names) \in Nat
  BY DEF GridType
<1>2. k \in 0 .. 16
  BY <1>1
<1> HIDE DEF k
<1>3. k # 0 => (Len(names) + k - 1) \div k \in Int
  BY <1>1, <1>2
<1>4. NumPages(names, g) = IF k = 0 THEN -1 ELSE (Len(names) + k - 1) \div k
  BY DEF NumPages, NotANumber, k
<1>5. NumPages(names, g) \in Int
  BY <1>3, <1>4
<1> QED
  BY <1>5 DEF addPageButtons

\* A page button leads to a page.
LEMMA TargetsArePages ==
  ASSUME NEW b \in [page : Nat, pages : Int], NEW p \in Targets(b)
  PROVE  p \in Nat
<1>1. b.page \in Nat /\ b.pages \in Int
  OBVIOUS
<1>2. \/ p = 0
      \/ p = b.page - 1 /\ b.page > 0
      \/ p \in 1 .. Lesser(b.pages - 2, b.page + 1)
      \/ p = b.pages - 1 /\ b.pages > 1
      \/ p = b.page + 1
  <2>1. b.pages # 0
    BY DEF Targets
  <2> QED
    BY <2>1 DEF Targets
<1>3. Lesser(b.pages - 2, b.page + 1) \in Int
  BY <1>1 DEF Lesser
<1> QED
  BY <1>1, <1>2, <1>3

\* A new widget has the name and the range it is made for.
LEMMA NewWidgetIs ==
  ASSUME NEW c \in Everything, NEW r \in TimeRanges
  PROVE  /\ NewWidget(c, r) \in Widget
         /\ NewWidget(c, r).name = c /\ NewWidget(c, r).range = r
<1>1. 0 \in 0 .. MaxLoads
  BY DashboardAssumption
<1> QED
  BY <1>1 DEF NewWidget, Widget

\* _renderPage: a page of new widgets over one range; if the grid was that of the
\* window and the panel, so it stays, and the page is the page of that grid.
LEMMA Rendered ==
  ASSUME NEW names \in Seq(Everything), NEW p \in Nat, NEW g \in GridType,
         NEW r \in TimeRanges, NEW n \in 0 .. 16, NEW w, NEW taken,
         renderPage(names, p, g, r, n, w, taken)
  PROVE  /\ widgets' \in Seq(Widget) /\ \A i \in DOMAIN widgets' : widgets'[i].range = r
         /\ grid' \in GridType /\ buttons' \in [page : Nat, pages : Int]
         /\ g = resetNumRowCol(n, w, taken) =>
              grid' = g /\ Shows(names, p, grid', widgets', buttons')
<1> DEFINE cs == OnPage(names, p, g)
           g2 == IF cs = <<>> THEN g ELSE resetNumRowCol(n, w, taken)
<1>1. cs \in Seq(Everything) /\ cs = [i \in DOMAIN cs |-> cs[i]]
  BY PageOf
<1>2. /\ widgets' = [i \in DOMAIN cs |-> NewWidget(cs[i], r)]
      /\ grid' = g2 /\ buttons' = addPageButtons(names, p, g2)
  BY DEF renderPage
<1>3. g2 \in GridType /\ (g = resetNumRowCol(n, w, taken) => g2 = g)
  BY GridFits
<1> HIDE DEF g2
<1>4. DOMAIN cs = 1 .. Len(cs) /\ Len(cs) \in Nat /\ \A i \in DOMAIN cs : cs[i] \in Everything
  <2> HIDE DEF cs
  <2> QED
    BY <1>1, LenProperties, ElementOfSeq
<1>5. \A i \in DOMAIN cs : /\ NewWidget(cs[i], r) \in Widget
                           /\ NewWidget(cs[i], r).name = cs[i] /\ NewWidget(cs[i], r).range = r
  BY <1>4, NewWidgetIs
<1>6. g2 = g => cs = OnPage(names, p, g2)
  OBVIOUS
<1> HIDE DEF cs
<1>7. /\ widgets' \in Seq(Widget) /\ DOMAIN widgets' = DOMAIN cs
      /\ \A i \in DOMAIN widgets' : widgets'[i].range = r /\ widgets'[i].name = cs[i]
  <2>1. widgets' \in [1 .. Len(cs) -> Widget]
    BY <1>2, <1>4, <1>5
  <2>2. widgets' \in Seq(Widget)
    BY <1>4, <2>1, SeqDef
  <2> QED
    BY <1>2, <1>5, <2>2
<1>8. [i \in DOMAIN widgets' |-> widgets'[i].name] = cs
  BY <1>1, <1>7
<1>9. buttons' \in [page : Nat, pages : Int]
  BY <1>2, <1>3, PagesCounted
<1>10. g = resetNumRowCol(n, w, taken) =>
         grid' = g /\ Shows(names, p, grid', widgets', buttons')
  BY <1>2, <1>3, <1>6, <1>8 DEF Shows
<1> QED
  BY <1>2, <1>3, <1>7, <1>9, <1>10

\* Widgets that keep their number and their names.
SameNames(ws, ws2) ==
  /\ DOMAIN ws2 = DOMAIN ws /\ \A i \in DOMAIN ws : ws2[i].name = ws[i].name

\* A sequence made from another, element by element.
LEMMA SeqOver ==
  ASSUME NEW S, NEW ws \in Seq(S), NEW T, NEW ws2, ws2 = [i \in DOMAIN ws |-> ws2[i]],
         \A i \in DOMAIN ws : ws2[i] \in T
  PROVE  ws2 \in Seq(T) /\ DOMAIN ws2 = DOMAIN ws
<1>1. DOMAIN ws = 1 .. Len(ws) /\ Len(ws) \in Nat
  BY LenProperties
<1>2. ws2 \in [1 .. Len(ws) -> T]
  BY <1>1
<1> QED
  BY <1>1, <1>2, SeqDef

\* The page is right as long as nothing it shows changes.
LEMMA PageKept ==
  ASSUME PageShown, SameNames(widgets, widgets'),
         UNCHANGED <<loaded, served, currFilter, currPage, numWidget, width, grid, buttons>>,
         Quiet' => Quiet, Still' => Still /\ panel'.taken = panel.taken
  PROVE  PageShown'
<1>1. [i \in DOMAIN widgets' |-> widgets'[i].name] = [i \in DOMAIN widgets |-> widgets[i].name]
  BY DEF SameNames
<1> QED
  BY <1>1 DEF PageShown, Quiet, Still

\* What zooming leaves alone is the page.
LEMMA ZoomKeeps ==
  ASSUME DashInv, rangeOnly, widgets' \in Seq(Widget), SameNames(widgets, widgets'),
         \/ UNCHANGED <<timeRange, address>>
         \/ timeRange' \in TimeRanges /\ address' = [address EXCEPT !.range = timeRange'],
         RangesShared'
  PROVE  DashInv'
<1>1. /\ UNCHANGED <<served, loaded, currFilter, filtered, currPage, axisOf, numWidget, grid, buttons, inputs,
                     past, unwritten, width, listeners, loads, panel, envAsks>>
  BY DEF rangeOnly, chatPanel
<1>2. /\ DashTypes /\ NothingYet /\ WidgetsCounted /\ PageShown /\ AddressTells
  BY DEF DashInv
<1>3. /\ timeRange' \in TimeRanges \cup {Absent}
      /\ (timeRange \in TimeRanges => timeRange' \in TimeRanges)
      /\ address' \in Address /\ address'.page = address.page /\ address'.filter = address.filter
      /\ address'.axes = address.axes
      /\ timeRange = address.range => timeRange' = address'.range
  BY <1>2 DEF DashTypes, Address
<1>4. DashTypes'
  BY <1>1, <1>2, <1>3 DEF DashTypes
<1>5. widgets = <<>> => widgets' = <<>>
  BY <1>2 DEF SameNames, DashTypes
<1>6. NothingYet'
  BY <1>1, <1>2, <1>3, <1>5 DEF NothingYet
<1>7. WidgetsCounted'
  BY <1>1, <1>2 DEF WidgetsCounted, filteredNames
<1>8. PageShown'
  BY <1>1, <1>2, PageKept DEF Quiet, Still
<1>9. AddressTells'
  BY <1>1, <1>2, <1>3 DEF AddressTells, Or
<1> QED
  BY <1>4, <1>6, <1>7, <1>8, <1>9 DEF DashInv

\* Rendering the page makes it right, if it is rendered in the grid that window and
\* panel leave room for, or else something is still to come.
LEMMA RenderKeeps ==
  ASSUME DashTypes, NEW g \in GridType,
         renderPage(filteredNames', currPage', g, timeRange', numWidget', width', panel'.taken),
         loaded', served' = served, currFilter' \in Expressions, currPage' \in Nat,
         axisOf' \in [Sides -> Axes], timeRange' \in TimeRanges, width' \in Widths,
         numWidget' \in 0 .. 16, WidgetsCounted',
         loads' \in Nat, listeners' \in Nat \ {0},
         inputs' \in [{"bar", "menu"} -> Expressions],
         address' \in Address, past' \in Seq(Address), panel' \in PanelType, envAsks' \in Nat,
         panel'.taken = (IF panel'.here THEN PanelWidth ELSE 0),
         Still' => g = resetNumRowCol(numWidget', width', panel'.taken),
         AddressTells'
  PROVE  DashInv'
<1> DEFINE names == filteredNames'
<1>1. names \in Seq(Everything) /\ served' \in Served
  BY FoundNames DEF filteredNames, DashTypes
<1>3. renderPage(names, currPage', g, timeRange', numWidget', width', panel'.taken)
  OBVIOUS
<1> HIDE DEF names
<1>4. /\ widgets' \in Seq(Widget) /\ \A i \in DOMAIN widgets' : widgets'[i].range = timeRange'
      /\ grid' \in GridType /\ buttons' \in [page : Nat, pages : Int]
      /\ g = resetNumRowCol(numWidget', width', panel'.taken) =>
           grid' = g /\ Shows(names, currPage', grid', widgets', buttons')
  <2> DEFINE p == currPage'
             r == timeRange'
             n == numWidget'
             w == width'
             k == panel'.taken
  <2>1. p \in Nat /\ r \in TimeRanges /\ n \in 0 .. 16 /\ renderPage(names, p, g, r, n, w, k)
    BY <1>1, <1>3
  <2> HIDE DEF p, r, n, w, k
  <2>2. /\ widgets' \in Seq(Widget) /\ \A i \in DOMAIN widgets' : widgets'[i].range = r
        /\ grid' \in GridType /\ buttons' \in [page : Nat, pages : Int]
        /\ g = resetNumRowCol(n, w, k) =>
             grid' = g /\ Shows(names, p, grid', widgets', buttons')
    BY <1>1, <2>1, Rendered
  <2> QED
    BY <2>2 DEF p, r, n, w, k
<1>5. DashTypes'
  BY <1>1, <1>4 DEF DashTypes
<1>6. NothingYet' /\ RangesShared'
  BY <1>4 DEF NothingYet, RangesShared
<1>7. PageShown'
  <2>1. Still' => /\ grid' = resetNumRowCol(numWidget', width', panel'.taken)
                  /\ Shows(names, currPage', grid', widgets', buttons')
    BY <1>4
  <2>2. loaded' /\ currFilter' \notin Unreadable =>
          /\ names = Found(served', currFilter')
          /\ numWidget' = Lesser(Len(names), 16)
    BY DEF names, filteredNames, WidgetsCounted
  <2> QED
    BY <2>1, <2>2 DEF PageShown, Still, Shows
<1> QED
  BY <1>5, <1>6, <1>7 DEF DashInv

\* A parameter the address lacks is no parameter it may have.
LEMMA AbsentIsApart ==
  /\ Absent \notin TimeRanges /\ Absent \notin Axes /\ Absent \notin Nat
  /\ Absent \notin Expressions /\ Everything \in Expressions
  /\ FullRange \in TimeRanges
  BY DashboardAssumption DEF Expressions

\* A widget brought to a range.
LEMMA BroughtTo ==
  ASSUME NEW w \in Widget, NEW r \in TimeRanges
  PROVE  LET v == [w EXCEPT !.range = r, !.adrift = FALSE]
         IN v \in Widget /\ v.name = w.name /\ v.range = r
  BY DEF Widget

\* All widgets brought to a range.
LEMMA AllAreBrought ==
  ASSUME DashTypes, NEW r \in TimeRanges, widgets' = Brought(r)
  PROVE  /\ widgets' \in Seq(Widget) /\ SameNames(widgets, widgets')
         /\ DOMAIN widgets' = DOMAIN widgets
         /\ widgets' = [i \in DOMAIN widgets |-> widgets'[i]]
         /\ \A i \in DOMAIN widgets' : widgets'[i].range = r
<1>1. widgets' = [i \in DOMAIN widgets |-> [widgets[i] EXCEPT !.range = r, !.adrift = FALSE]]
  BY DEF Brought
<1>2. widgets \in Seq(Widget)
  BY DEF DashTypes
<1>3. ASSUME NEW i \in DOMAIN widgets
      PROVE  /\ widgets'[i] \in Widget /\ widgets'[i].name = widgets[i].name
             /\ widgets'[i].range = r
  <2>1. widgets[i] \in Widget
    BY <1>2, LenProperties, ElementOfSeq
  <2> DEFINE v == [widgets[i] EXCEPT !.range = r, !.adrift = FALSE]
  <2>2. widgets'[i] = v
    BY <1>1
  <2>3. v \in Widget /\ v.name = widgets[i].name /\ v.range = r
    BY <2>1, BroughtTo
  <2> HIDE DEF v
  <2> QED
    BY <2>2, <2>3
<1>4. widgets' = [i \in DOMAIN widgets |-> widgets'[i]]
  BY <1>1
<1>5. widgets' \in Seq(Widget) /\ DOMAIN widgets' = DOMAIN widgets
  BY <1>2, <1>3, <1>4, SeqOver
<1> QED
  BY <1>3, <1>4, <1>5 DEF SameNames

\* render() is answered.
LEMMA AnsweredKeeps == ASSUME DashInv, Answered PROVE DashInv'
<1>1. DashTypes
  BY DEF DashInv
<1>2. /\ loads > 0 /\ loads' = loads - 1 /\ loaded' = TRUE
      /\ timeRange' = Or(address.range, FullRange)
      /\ address' = [address EXCEPT !.range = timeRange']
      /\ currPage' = Or(address.page, 0) /\ currFilter' = Or(address.filter, Everything)
      /\ axisOf' = [s \in Sides |-> Or(address.axes[s], DefaultAxes[s])]
      /\ inputs' = [inputs EXCEPT !.bar = currFilter']
      /\ IF currFilter' \in Unreadable
           THEN widgets' = Brought(timeRange') /\ UNCHANGED <<numWidget, grid, buttons>>
           ELSE applyFilter(currFilter', currPage', timeRange')
      /\ unwritten' = {}
      /\ UNCHANGED <<served, filterTimer, past, width, listeners, resets, panel, envAsks>>
  BY DEF Answered, chatPanel
<1>3. /\ timeRange' \in TimeRanges /\ currPage' \in Nat
      /\ currFilter' \in Expressions
  BY <1>1, <1>2, AbsentIsApart DEF DashTypes, Address, Or
<1>4. axisOf' \in [Sides -> Axes]
  <2>1. \A s \in Sides : DefaultAxes[s] \in Axes
    BY DashboardAssumption DEF DefaultAxes, Sides
  <2>2. \A s \in Sides : address.axes[s] \in Axes \cup {Absent}
    BY <1>1 DEF DashTypes, Address
  <2>3. \A s \in Sides : Or(address.axes[s], DefaultAxes[s]) \in Axes
    BY <2>1, <2>2 DEF Or
  <2> QED
    BY <1>2, <2>3
<1>5. /\ address' \in Address /\ address'.page = address.page
      /\ address'.filter = address.filter /\ address'.axes = address.axes
      /\ address'.range = timeRange'
  BY <1>1, <1>2, <1>3 DEF DashTypes, Address
<1>6. AddressTells'
  BY <1>2, <1>5 DEF AddressTells
<1>7. /\ loads' \in Nat /\ inputs' \in [{"bar", "menu"} -> Expressions]
  <2>1. loads' \in Nat
    BY <1>1, <1>2 DEF DashTypes
  <2>2. inputs \in [{"bar", "menu"} -> Expressions]
    BY <1>1 DEF DashTypes
  <2> QED
    BY <1>2, <1>3, <2>1, <2>2
<1>8. /\ served' = served /\ width' \in Widths /\ listeners' \in Nat \ {0}
      /\ past' \in Seq(Address) /\ panel' \in PanelType /\ envAsks' \in Nat
      /\ panel'.taken = (IF panel'.here THEN PanelWidth ELSE 0) /\ loaded'
  BY <1>1, <1>2 DEF DashTypes
<1>9. CASE currFilter' \notin Unreadable
  <2> DEFINE g == resetNumRowCol(numWidget', width', panel'.taken)
  <2>1. /\ filtered' = currFilter' /\ numWidget' = Lesser(Len(filteredNames'), 16)
        /\ renderPage(filteredNames', currPage', g, timeRange', numWidget', width', panel'.taken)
    BY <1>2, <1>9 DEF applyFilter, filteredNames
  <2>2. numWidget' \in 0 .. 16
    BY <1>1, <1>2, <2>1, FoundNames DEF filteredNames, DashTypes
  <2>3. g \in GridType
    BY <2>2, GridFits
  <2>4. WidgetsCounted'
    BY <2>1 DEF WidgetsCounted
  <2>5. Still' => g = resetNumRowCol(numWidget', width', panel'.taken)
    OBVIOUS
  <2> HIDE DEF g
  <2> QED
    BY <1>1, <1>3, <1>4, <1>5, <1>6, <1>7, <1>8, <2>1, <2>2, <2>3, <2>4, <2>5, RenderKeeps
<1>10. CASE currFilter' \in Unreadable
  <2>1. widgets' = Brought(timeRange') /\ UNCHANGED <<numWidget, grid, buttons>>
    BY <1>2, <1>10
  <2>2. /\ widgets' \in Seq(Widget)
        /\ \A i \in DOMAIN widgets' : widgets'[i].range = timeRange'
    <3> DEFINE r == timeRange'
    <3>1. r \in TimeRanges /\ widgets' = Brought(r)
      BY <1>3, <2>1
    <3> HIDE DEF r
    <3>2. widgets' \in Seq(Widget) /\ \A i \in DOMAIN widgets' : widgets'[i].range = r
      BY <1>1, <3>1, AllAreBrought
    <3> QED
      BY <3>2 DEF r
  <2>3. DashTypes'
    BY <1>1, <1>3, <1>4, <1>5, <1>7, <1>8, <2>1, <2>2 DEF DashTypes
  <2>4. NothingYet' /\ WidgetsCounted' /\ RangesShared'
    BY <1>3, <1>8, <1>10, <2>2 DEF NothingYet, WidgetsCounted, RangesShared
  <2>5. PageShown'
    BY <1>2, <1>10, <2>1 DEF DashInv, PageShown
  <2> QED
    BY <1>6, <2>3, <2>4, <2>5 DEF DashInv
<1> QED
  BY <1>9, <1>10

\* A filter is typed: the page is as it was, for a second.
LEMMA TypedKeeps ==
  ASSUME DashInv, NEW where \in {"bar", "menu"}, NEW f \in Expressions,
         FilterTyped(where, f)
  PROVE  DashInv'
<1>1. /\ inputs' = [inputs EXCEPT ![where] = f]
      /\ UNCHANGED <<served, loaded, currFilter, filtered, currPage, axisOf, timeRange, numWidget, grid,
                     widgets, orphans, buttons, address, past, unwritten, width, listeners,
                     loads, panel, envAsks>>
  BY DEF FilterTyped, chosen, layout, url, chatPanel
<1>2. DashTypes'
  BY <1>1 DEF DashInv, DashTypes
<1>3. NothingYet' /\ WidgetsCounted' /\ AddressTells' /\ RangesShared'
  BY <1>1 DEF DashInv, NothingYet, WidgetsCounted, AddressTells, RangesShared, filteredNames
<1>4. PageShown'
  BY <1>1, PageKept DEF DashInv, Quiet, Still, SameNames
<1> QED
  BY <1>2, <1>3, <1>4 DEF DashInv

\* A click on the reset button asks for the full range.
LEMMA ResetClickKeeps == ASSUME DashInv, ResetClicked PROVE DashInv'
<1>1. UNCHANGED <<served, loaded, currFilter, filtered, currPage, axisOf, timeRange, numWidget, grid,
                  widgets, orphans, buttons, inputs, address, past, unwritten, width, listeners,
                  loads, panel, envAsks>>
  BY DEF ResetClicked, chosen, layout, url, chatPanel
<1>2. DashTypes'
  BY <1>1 DEF DashInv, DashTypes
<1>3. NothingYet' /\ WidgetsCounted' /\ AddressTells' /\ RangesShared'
  BY <1>1 DEF DashInv, NothingYet, WidgetsCounted, AddressTells, RangesShared, filteredNames
<1>4. PageShown'
  BY <1>1, PageKept DEF DashInv, Quiet, Still, SameNames
<1> QED
  BY <1>2, <1>3, <1>4 DEF DashInv

\* Going back is followed by a rendering.
LEMMA BackKeeps == ASSUME DashInv, Back PROVE DashInv'
<1>1. /\ past # <<>> /\ address' = Last(past) /\ past' = Front(past) /\ loads' = loads + 1
      /\ UNCHANGED <<served, loaded, currFilter, filtered, currPage, axisOf, timeRange, numWidget, grid,
                     widgets, orphans, buttons, inputs, unwritten, width, listeners, panel,
                     envAsks>>
  BY DEF Back, chosen, layout, chatPanel
<1>2. DashTypes
  BY DEF DashInv
<1>3. past \in Seq(Address) /\ loads \in Nat
  BY <1>2 DEF DashTypes
<1>4. address' \in Address /\ past' \in Seq(Address)
  BY <1>1, <1>3 DEF Last, Front
<1>5. loads' \in Nat /\ loads' # 0
  BY <1>1, <1>3
<1>6. DashTypes'
  BY <1>1, <1>2, <1>4, <1>5 DEF DashTypes
<1>7. NothingYet' /\ WidgetsCounted' /\ RangesShared'
  BY <1>1 DEF DashInv, NothingYet, WidgetsCounted, RangesShared, filteredNames
<1>8. PageShown' /\ AddressTells'
  BY <1>1, <1>5 DEF DashInv, PageShown, AddressTells
<1> QED
  BY <1>6, <1>7, <1>8 DEF DashInv

\* A new address is the old one with other parameters.
LEMMA PushedState ==
  ASSUME address \in Address, past \in Seq(Address), NEW a \in Address, pushState(a)
  PROVE  address' = a /\ past' \in Seq(Address)
  BY DEF pushState

\* A second after the filter was typed.
LEMMA FilterKeeps == ASSUME DashInv, FilterExpires PROVE DashInv'
<1> DEFINE f == inputs.bar
<1>1. /\ currPage' = 0 /\ currFilter' = f
      /\ pushState([address EXCEPT !.filter = f, !.page = 0])
      /\ IF loaded /\ f \notin Unreadable THEN applyFilter(f, 0, timeRange)
         ELSE UNCHANGED <<filtered, layout>>
      /\ UNCHANGED <<served, loaded, axisOf, timeRange, inputs, unwritten, width, listeners,
                     loads, resets, panel, envAsks>>
  BY DEF FilterExpires, chatPanel
<1>2. DashTypes
  BY DEF DashInv
<1>3. f \in Expressions /\ f # Absent
  BY <1>2, AbsentIsApart DEF DashTypes
<1> HIDE DEF f
<1>4. /\ address' \in Address /\ past' \in Seq(Address)
      /\ address'.filter = f /\ address'.page = 0
      /\ address'.axes = address.axes /\ address'.range = address.range
  <2> DEFINE a == [address EXCEPT !.filter = f, !.page = 0]
  <2>1. /\ a \in Address /\ a.filter = f /\ a.page = 0
        /\ a.axes = address.axes /\ a.range = address.range
    BY <1>2, <1>3 DEF DashTypes, Address
  <2>2. address \in Address /\ past \in Seq(Address) /\ pushState(a)
    BY <1>1, <1>2 DEF DashTypes
  <2> HIDE DEF a
  <2>4. address' = a /\ past' \in Seq(Address)
    BY <2>1, <2>2, PushedState
  <2> QED
    BY <2>1, <2>4
<1>5. AddressTells'
  <2>1. 0 # Absent
    BY AbsentIsApart
  <2> QED
    BY <1>1, <1>3, <1>4, <2>1 DEF DashInv, AddressTells, Or
<1>6. CASE loaded /\ f \notin Unreadable
  <2> DEFINE g == resetNumRowCol(numWidget', width', panel'.taken)
  <2>1. /\ filtered' = currFilter' /\ numWidget' = Lesser(Len(filteredNames'), 16)
        /\ renderPage(filteredNames', currPage', g, timeRange', numWidget', width', panel'.taken)
    BY <1>1, <1>6 DEF applyFilter, filteredNames
  <2>2. numWidget' \in 0 .. 16 /\ WidgetsCounted'
    BY <1>1, <1>2, <2>1, FoundNames DEF filteredNames, DashTypes, WidgetsCounted
  <2>3. g \in GridType
    BY <2>2, GridFits
  <2>4. Still' => g = resetNumRowCol(numWidget', width', panel'.taken)
    OBVIOUS
  <2> HIDE DEF g
  <2>5. /\ loaded' /\ served' = served /\ currFilter' \in Expressions
        /\ currPage' \in Nat /\ axisOf' \in [Sides -> Axes] /\ timeRange' \in TimeRanges
        /\ width' \in Widths /\ loads' \in Nat /\ listeners' \in Nat \ {0}
        /\ inputs' \in [{"bar", "menu"} -> Expressions]
        /\ panel' \in PanelType /\ envAsks' \in Nat
        /\ panel'.taken = (IF panel'.here THEN PanelWidth ELSE 0)
    BY <1>1, <1>2, <1>3, <1>6 DEF DashInv, DashTypes, NothingYet
  <2> QED
    BY <1>2, <1>4, <1>5, <2>1, <2>2, <2>3, <2>4, <2>5, RenderKeeps
<1>7. CASE ~(loaded /\ f \notin Unreadable)
  <2>1. UNCHANGED <<filtered, numWidget, grid, widgets, orphans, buttons>>
    BY <1>1, <1>7 DEF layout
  <2>2. DashTypes'
    BY <1>1, <1>2, <1>3, <1>4, <2>1 DEF DashTypes
  <2>3. NothingYet' /\ RangesShared'
    BY <1>1, <2>1 DEF DashInv, NothingYet, RangesShared
  <2>4. WidgetsCounted' /\ PageShown'
    BY <1>1, <1>7, <2>1 DEF DashInv, WidgetsCounted, PageShown
  <2> QED
    BY <1>5, <2>2, <2>3, <2>4 DEF DashInv
<1> QED
  BY <1>6, <1>7

\* A page button.  The slice is of the grid as it was, which is the right one
\* unless something is still to come.
LEMMA ClickKeeps == ASSUME DashInv, NEW p \in Targets(buttons), PageClicked(p) PROVE DashInv'
<1>1. /\ loaded /\ currPage' = p /\ pushState([address EXCEPT !.page = p])
      /\ renderPage(filteredNames, p, grid, timeRange, numWidget, width, panel.taken)
      /\ UNCHANGED <<served, loaded, currFilter, filtered, axisOf, timeRange, numWidget, inputs, filterTimer,
                     unwritten, width, listeners, loads, resets, panel, envAsks>>
  BY DEF PageClicked, chatPanel
<1>2. DashTypes /\ NothingYet /\ WidgetsCounted /\ PageShown /\ AddressTells
  BY DEF DashInv
<1>3. p \in Nat /\ p # Absent
  BY <1>2, TargetsArePages, AbsentIsApart DEF DashTypes
<1>4. /\ address' \in Address /\ past' \in Seq(Address) /\ address'.page = p
      /\ address'.filter = address.filter
      /\ address'.axes = address.axes /\ address'.range = address.range
  <2> DEFINE a == [address EXCEPT !.page = p]
  <2>1. /\ a \in Address /\ a.page = p /\ a.filter = address.filter
        /\ a.axes = address.axes /\ a.range = address.range
    BY <1>2, <1>3 DEF DashTypes, Address
  <2>2. address \in Address /\ past \in Seq(Address) /\ pushState(a)
    BY <1>1, <1>2 DEF DashTypes
  <2> HIDE DEF a
  <2>3. address' = a /\ past' \in Seq(Address)
    BY <2>1, <2>2, PushedState
  <2> QED
    BY <2>1, <2>3
<1>5. AddressTells'
  BY <1>1, <1>2, <1>3, <1>4 DEF AddressTells, Or
<1>6. /\ numWidget' \in 0 .. 16 /\ WidgetsCounted'
      /\ renderPage(filteredNames', currPage', grid, timeRange', numWidget', width', panel'.taken)
  BY <1>1, <1>2 DEF filteredNames, WidgetsCounted, DashTypes
<1>7. Still' => grid = resetNumRowCol(numWidget', width', panel'.taken)
  BY <1>1, <1>2 DEF Still, PageShown
<1>8. /\ loaded' /\ served' = served /\ currFilter' \in Expressions
      /\ currPage' \in Nat /\ axisOf' \in [Sides -> Axes] /\ timeRange' \in TimeRanges
      /\ width' \in Widths /\ loads' \in Nat /\ listeners' \in Nat \ {0}
      /\ inputs' \in [{"bar", "menu"} -> Expressions]
      /\ panel' \in PanelType /\ envAsks' \in Nat /\ grid \in GridType
      /\ panel'.taken = (IF panel'.here THEN PanelWidth ELSE 0)
  BY <1>1, <1>2, <1>3 DEF DashTypes, NothingYet
<1> QED
  BY <1>2, <1>4, <1>5, <1>6, <1>7, <1>8, RenderKeeps

\* A widget that is out of step says so.
Excused(w, r) == w.range # r => Armed(w) > 0 \/ w.moved \/ w.adrift

\* A widget on the page.
LEMMA WidgetTyped ==
  ASSUME DashInv, NEW i \in DOMAIN widgets
  PROVE  /\ widgets[i] \in Widget /\ Excused(widgets[i], timeRange)
         /\ DOMAIN widgets = 1 .. Len(widgets) /\ Len(widgets) \in Nat
<1>1. widgets \in Seq(Widget)
  BY DEF DashInv, DashTypes
<1>2. DOMAIN widgets = 1 .. Len(widgets) /\ Len(widgets) \in Nat
  BY <1>1, LenProperties
<1>3. Excused(widgets[i], timeRange)
  BY DEF DashInv, RangesShared, Excused
<1> QED
  BY <1>1, <1>2, <1>3, ElementOfSeq

\* The fields of a widget.
LEMMA WidgetFields ==
  ASSUME NEW w \in Widget
  PROVE  /\ w.name \in Everything /\ w.range \in TimeRanges /\ w.start \in TimeRanges
         /\ w.drag \in BOOLEAN
         /\ w.moved \in BOOLEAN /\ w.pinch \in BOOLEAN /\ w.timer \in BOOLEAN
         /\ w.old \in Nat /\ w.old =< MaxLoads /\ w.adrift \in BOOLEAN
         /\ Armed(w) = (IF w.timer THEN w.old + 1 ELSE w.old)
<1>1. w.old \in 0 .. MaxLoads /\ MaxLoads \in Nat
  BY DashboardAssumption DEF Widget
<1>2. Armed(w) = (IF w.timer THEN w.old + 1 ELSE w.old)
  BY <1>1 DEF Armed
<1> QED
  BY <1>1, <1>2 DEF Widget

\* What a mouse handler does to its own widget.
LEMMA TouchesKeep ==
  ASSUME DashInv, NEW i \in DOMAIN widgets, NEW w \in Widget, w.name = widgets[i].name,
         Excused(w, timeRange), Touches(i, w)
  PROVE  DashInv'
<1>1. /\ widgets' = [widgets EXCEPT ![i] = w] /\ rangeOnly
      /\ UNCHANGED <<timeRange, orphans, address, resets>>
  BY DEF Touches
<1>2. widgets \in Seq(Widget)
  BY DEF DashInv, DashTypes
<1>3. widgets' \in Seq(Widget) /\ SameNames(widgets, widgets')
  BY <1>1, <1>2 DEF SameNames
<1>4. \A j \in DOMAIN widgets : Excused(widgets'[j], timeRange)
  BY <1>1, <1>2, WidgetTyped
<1>5. RangesShared'
  BY <1>1, <1>3, <1>4 DEF RangesShared, SameNames, Excused, Armed
<1> QED
  BY <1>1, <1>3, <1>5, ZoomKeeps

\* A widget that is out of step with nothing to bring it in step is noted so.
LEMMA NotedWidget ==
  ASSUME NEW w \in Widget
  PROVE  LET v == Noted(w)
         IN /\ v \in Widget /\ v.name = w.name /\ v.old = w.old
            /\ Excused(v, timeRange)
<1> DEFINE b == w.adrift \/ Lost(w)
           v == [w EXCEPT !.adrift = b]
<1>1. b \in BOOLEAN /\ (b <=> w.adrift \/ Lost(w))
  BY WidgetFields DEF Lost
<1>2. Noted(w) = v
  BY DEF Noted, Widget
<1> HIDE DEF b
<1>3. /\ v \in Widget /\ v.name = w.name /\ v.range = w.range /\ v.old = w.old
      /\ v.timer = w.timer /\ v.moved = w.moved /\ v.adrift = b
  BY <1>1 DEF Widget
<1> HIDE DEF v
<1>4. Armed(v) = Armed(w) /\ Armed(w) \in Nat
  BY <1>3, WidgetFields
<1>5. Excused(v, timeRange)
  BY <1>1, <1>3, <1>4 DEF Excused, Lost
<1> QED
  BY <1>2, <1>3, <1>5

\* A mouse handler that notes what becomes of its widget.
LEMMA NotedKeeps ==
  ASSUME DashInv, NEW i \in DOMAIN widgets, NEW w \in Widget, w.name = widgets[i].name,
         Touches(i, Noted(w))
  PROVE  DashInv'
  BY NotedWidget, TouchesKeep

\* A press.
LEMMA MouseDownKeeps == ASSUME DashInv, NEW i \in DOMAIN widgets, MouseDown(i) PROVE DashInv'
<1> DEFINE w == widgets[i]
           v == [w EXCEPT !.drag = TRUE, !.moved = FALSE, !.start = w.range]
<1>1. w \in Widget
  BY WidgetTyped
<1>2. Touches(i, Noted(v))
  BY DEF MouseDown
<1> HIDE DEF w
<1>3. v \in Widget /\ v.name = w.name
  BY <1>1, WidgetFields DEF Widget
<1> HIDE DEF v
<1> QED
  BY <1>2, <1>3, NotedKeeps DEF w

\* A widget that is dragged, along the axis or across it, is still a widget.
LEMMA DraggedTyped ==
  ASSUME NEW w \in Widget, NEW v \in Dragged(w)
  PROVE  v \in Widget /\ v.name = w.name
  BY WidgetFields DEF Dragged, Widget

\* A widget that is dragged.
LEMMA MouseMoveKeeps == ASSUME DashInv, NEW i \in DOMAIN widgets, MouseMove(i) PROVE DashInv'
<1>1. PICK v \in Dragged(widgets[i]) : Touches(i, Noted(v))
  BY DEF MouseMove
<1>2. v \in Widget /\ v.name = widgets[i].name
  BY WidgetTyped, DraggedTyped
<1> QED
  BY <1>1, <1>2, NotedKeeps

\* The wheel arms a timer.
LEMMA WheelKeeps ==
  ASSUME DashInv, NEW i \in DOMAIN widgets, NEW r \in TimeRanges, MouseWheel(i, r)
  PROVE  DashInv'
<1> DEFINE w == widgets[i]
           v == [w EXCEPT !.range = r, !.timer = TRUE]
<1>1. w \in Widget
  BY WidgetTyped
<1>2. Touches(i, v)
  BY DEF MouseWheel
<1> HIDE DEF w
<1>3. v \in Widget /\ v.name = w.name /\ v.timer
  BY <1>1 DEF Widget
<1> HIDE DEF v
<1>4. Armed(v) > 0
  BY <1>3, WidgetFields
<1>5. Excused(v, timeRange)
  BY <1>4 DEF Excused
<1> QED
  BY <1>2, <1>3, <1>5, TouchesKeep DEF w

\* Fingers on a widget leave its range alone.
LEMMA TouchStartKeeps ==
  ASSUME DashInv, NEW i \in DOMAIN widgets, NEW fingers, TouchStart(i, fingers)
  PROVE  DashInv'
<1> DEFINE w == widgets[i]
           v == [w EXCEPT !.drag = fingers = 1, !.pinch = fingers = 2, !.start = w.range]
<1>1. w \in Widget /\ Excused(w, timeRange)
  BY WidgetTyped
<1>2. Touches(i, v)
  BY DEF TouchStart
<1> HIDE DEF w
<1>3. /\ v \in Widget /\ v.name = w.name /\ v.range = w.range /\ v.old = w.old
      /\ v.timer = w.timer /\ v.moved = w.moved /\ v.adrift = w.adrift
  BY <1>1, WidgetFields DEF Widget
<1> HIDE DEF v
<1>4. Excused(v, timeRange)
  BY <1>1, <1>3 DEF Excused, Armed
<1> QED
  BY <1>2, <1>3, <1>4, TouchesKeep DEF w

\* What fingers make of a widget is still a widget.
LEMMA FingeredTyped ==
  ASSUME NEW w \in Widget, NEW v \in Fingered(w)
  PROVE  v \in Widget /\ v.name = w.name
<1> DEFINE ws == IF w.drag THEN Dragged(w) ELSE {w}
<1>1. \A u \in ws : u \in Widget /\ u.name = w.name
  BY DraggedTyped
<1>2. v \in (IF w.pinch THEN {[u EXCEPT !.range = r] : u \in ws, r \in TimeRanges} ELSE ws)
  BY DEF Fingered
<1> HIDE DEF ws
<1>3. CASE ~w.pinch
  BY <1>1, <1>2, <1>3
<1>4. CASE w.pinch
  <2>1. PICK u \in ws, r \in TimeRanges : v = [u EXCEPT !.range = r]
    BY <1>2, <1>4
  <2>2. u \in Widget /\ u.name = w.name
    BY <1>1
  <2>3. v \in Widget /\ v.name = u.name
    BY <2>1, <2>2 DEF Widget
  <2> QED
    BY <2>2, <2>3
<1> QED
  BY <1>3, <1>4

\* Fingers that move arm a timer.
LEMMA TouchMoveKeeps == ASSUME DashInv, NEW i \in DOMAIN widgets, TouchMove(i) PROVE DashInv'
<1>1. PICK w \in Fingered(widgets[i]) : Touches(i, [w EXCEPT !.timer = TRUE])
  BY DEF TouchMove
<1>2. w \in Widget /\ w.name = widgets[i].name
  BY WidgetTyped, FingeredTyped
<1> DEFINE v == [w EXCEPT !.timer = TRUE]
<1>3. v \in Widget /\ v.name = w.name /\ v.timer
  BY <1>2 DEF Widget
<1>4. Touches(i, v)
  BY <1>1
<1> HIDE DEF v
<1>5. Armed(v) > 0
  BY <1>3, WidgetFields
<1>6. Excused(v, timeRange)
  BY <1>5 DEF Excused
<1> QED
  BY <1>2, <1>3, <1>4, <1>6, TouchesKeep

\* Fingers that leave a widget leave its range alone.
LEMMA TouchEndKeeps == ASSUME DashInv, NEW i \in DOMAIN widgets, TouchEnd(i) PROVE DashInv'
<1> DEFINE w == widgets[i]
           v == [w EXCEPT !.drag = FALSE, !.pinch = FALSE]
<1>1. w \in Widget /\ Excused(w, timeRange)
  BY WidgetTyped
<1>2. Touches(i, v)
  BY DEF TouchEnd
<1> HIDE DEF w
<1>3. /\ v \in Widget /\ v.name = w.name /\ v.range = w.range /\ v.old = w.old
      /\ v.timer = w.timer /\ v.moved = w.moved /\ v.adrift = w.adrift
  BY <1>1 DEF Widget
<1> HIDE DEF v
<1>4. Excused(v, timeRange)
  BY <1>1, <1>3 DEF Excused, Armed
<1> QED
  BY <1>2, <1>3, <1>4, TouchesKeep DEF w

\* Whatever brings all widgets to the new range.
LEMMA AllBrought ==
  ASSUME DashInv, rangeOnly, timeRange' \in TimeRanges,
         address' = [address EXCEPT !.range = timeRange'],
         widgets' = [j \in DOMAIN widgets |-> widgets'[j]],
         \A j \in DOMAIN widgets : /\ widgets'[j] \in Widget
                                   /\ widgets'[j].name = widgets[j].name
                                   /\ widgets'[j].range = timeRange'
  PROVE  DashInv'
<1>1. widgets \in Seq(Widget)
  BY DEF DashInv, DashTypes
<1>2. widgets' \in Seq(Widget) /\ DOMAIN widgets' = DOMAIN widgets
  BY <1>1, SeqOver
<1>3. SameNames(widgets, widgets')
  BY <1>2 DEF SameNames
<1>4. RangesShared'
  BY <1>2 DEF RangesShared
<1> QED
  BY <1>2, <1>3, <1>4, ZoomKeeps

\* setTimeRange brings all widgets to its range.
LEMMA RangeSetAll == ASSUME DashInv, rangeOnly, NEW r \in TimeRanges, setTimeRange(r) PROVE DashInv'
<1>1. /\ timeRange' = r /\ address' = [address EXCEPT !.range = timeRange']
      /\ widgets' = Brought(r)
  BY DEF setTimeRange, SetRange
<1>2. /\ widgets' \in Seq(Widget) /\ SameNames(widgets, widgets')
      /\ \A i \in DOMAIN widgets' : widgets'[i].range = r
  BY <1>1, AllAreBrought DEF DashInv
<1>3. RangesShared'
  BY <1>1, <1>2 DEF RangesShared
<1> QED
  BY <1>1, <1>2, <1>3, ZoomKeeps

\* A button is released.
LEMMA MouseUpKeeps == ASSUME DashInv, NEW i \in DOMAIN widgets, MouseUp(i) PROVE DashInv'
<1>1. widgets[i] \in Widget /\ Excused(widgets[i], timeRange)
  BY WidgetTyped
<1>2. CASE widgets[i].moved
  <2>1. /\ timeRange' = widgets[i].range /\ rangeOnly
        /\ widgets' = [j \in DOMAIN widgets |->
                         [widgets[j] EXCEPT !.range = timeRange', !.adrift = FALSE,
                                            !.drag = @ /\ j # i]]
        /\ address' = [address EXCEPT !.range = timeRange']
    BY <1>2 DEF MouseUp
  <2>2. timeRange' \in TimeRanges
    BY <1>1, <2>1 DEF Widget
  <2>3. ASSUME NEW j \in DOMAIN widgets
        PROVE  /\ widgets'[j] \in Widget /\ widgets'[j].name = widgets[j].name
               /\ widgets'[j].range = timeRange'
    <3>1. widgets[j] \in Widget
      BY WidgetTyped
    <3>2. widgets'[j] = [widgets[j] EXCEPT !.range = timeRange', !.adrift = FALSE,
                                           !.drag = @ /\ j # i]
      BY <2>1
    <3> QED
      BY <2>2, <3>1, <3>2 DEF Widget
  <2>4. widgets' = [j \in DOMAIN widgets |-> widgets'[j]]
    BY <2>1
  <2> QED
    BY <2>1, <2>2, <2>3, <2>4, AllBrought
<1>3. CASE ~widgets[i].moved
  <2> DEFINE w == widgets[i]
             v == [w EXCEPT !.drag = FALSE]
  <2>1. Touches(i, v)
    BY <1>3 DEF MouseUp
  <2>2. w \in Widget /\ Excused(w, timeRange)
    BY <1>1
  <2> HIDE DEF w
  <2>3. /\ v \in Widget /\ v.name = w.name /\ v.range = w.range /\ v.old = w.old
        /\ v.timer = w.timer /\ v.moved = w.moved /\ v.adrift = w.adrift
    BY <2>2 DEF Widget
  <2> HIDE DEF v
  <2>4. Excused(v, timeRange)
    BY <2>2, <2>3 DEF Excused, Armed
  <2> QED
    BY <2>1, <2>3, <2>4, TouchesKeep DEF w
<1> QED
  BY <1>2, <1>3

\* A scrolling timer expires.
LEMMA TimerKeeps == ASSUME DashInv, NEW i \in DOMAIN widgets, TimerExpires(i) PROVE DashInv'
<1>1. PICK w \in {[widgets[i] EXCEPT !.timer = FALSE], [widgets[i] EXCEPT !.old = @ - 1]} :
        /\ w \in Widget
        /\ widgets' = [j \in DOMAIN widgets |->
                         [(IF j = i THEN w ELSE widgets[j]) EXCEPT !.range = timeRange',
                                                                   !.adrift = FALSE]]
  BY DEF TimerExpires
<1>2. /\ timeRange' = widgets[i].range /\ rangeOnly
      /\ address' = [address EXCEPT !.range = timeRange']
  BY DEF TimerExpires
<1>3. widgets[i] \in Widget /\ timeRange' \in TimeRanges
  BY <1>2, WidgetTyped, WidgetFields
<1>4. w.name = widgets[i].name
  BY <1>1, <1>3 DEF Widget
<1>5. ASSUME NEW j \in DOMAIN widgets
      PROVE  /\ widgets'[j] \in Widget /\ widgets'[j].name = widgets[j].name
             /\ widgets'[j].range = timeRange'
  <2> DEFINE u == IF j = i THEN w ELSE widgets[j]
  <2>1. u \in Widget /\ u.name = widgets[j].name
    BY <1>1, <1>4, WidgetTyped
  <2>2. widgets'[j] = [u EXCEPT !.range = timeRange', !.adrift = FALSE]
    BY <1>1
  <2> HIDE DEF u
  <2> DEFINE r == timeRange'
             v == [u EXCEPT !.range = r, !.adrift = FALSE]
  <2>3. widgets'[j] = v /\ r \in TimeRanges
    BY <1>3, <2>2
  <2> HIDE DEF r
  <2>4. v \in Widget /\ v.name = u.name /\ v.range = r
    BY <2>1, <2>3, BroughtTo
  <2> HIDE DEF v
  <2>5. widgets'[j].range = timeRange'
    BY <2>3, <2>4 DEF r
  <2> QED
    BY <2>1, <2>3, <2>4, <2>5
<1>6. widgets' = [j \in DOMAIN widgets |-> widgets'[j]]
  BY <1>1
<1> QED
  BY <1>2, <1>3, <1>5, <1>6, AllBrought

\* _resetZoom is answered.
LEMMA ResetKeeps == ASSUME DashInv, ResetAnswered PROVE DashInv'
<1>1. setTimeRange(FullRange) /\ rangeOnly /\ FullRange \in TimeRanges
  BY AbsentIsApart DEF ResetAnswered
<1> QED
  BY <1>1, RangeSetAll

\* The timer of a widget that is gone expires.
LEMMA OrphanKeeps == ASSUME DashInv, NEW r \in TimeRanges, OrphanExpires(r) PROVE DashInv'
<1>1. setTimeRange(r) /\ rangeOnly
  BY DEF OrphanExpires
<1> QED
  BY <1>1, RangeSetAll

\* An axis is chosen: the new drawing of a widget is in step if the old one was,
\* and says so if it is not.
LEMMA WidgetRedrawn ==
  ASSUME NEW w \in Widget, NEW v,
         v = Noted([NewWidget(w.name, w.range) EXCEPT !.old = Armed(w)]), v.old =< MaxLoads
  PROVE  v \in Widget /\ v.name = w.name /\ Excused(v, timeRange)
<1> DEFINE n == Armed(w)
           m == NewWidget(w.name, w.range)
           u == [m EXCEPT !.old = n]
<1>1. n \in Nat /\ m \in Widget /\ m.name = w.name
  BY WidgetFields, NewWidgetIs
<1>2. v = Noted(u)
  OBVIOUS
<1> HIDE DEF n, m
<1> DEFINE b == u.adrift \/ Lost(u)
<1>3. v = [u EXCEPT !.adrift = b]
  BY <1>2, Zenon DEF Noted
<1> HIDE DEF b
<1>4. u.name = w.name /\ v.old = n
  BY <1>1, <1>3 DEF Widget
<1>5. n \in 0 .. MaxLoads
  BY <1>1, <1>4, DashboardAssumption
<1>6. u \in Widget
  BY <1>1, <1>5 DEF Widget
<1> HIDE DEF u
<1> QED
  BY <1>2, <1>4, <1>6, NotedWidget

\* The address ad tells the axes x, those of u left aside.
Told(x, ad, u) == \A t \in Sides \ u : x[t] = Or(ad.axes[t], DefaultAxes[t])
WithAxis(ad, s, a) == [ad EXCEPT !.axes[s] = a]
ChosenAxis(x, s, a) == [x EXCEPT ![s] = a]

\* An axis that is chosen is told by the address it is written into; with no widget to
\* write it, it is left aside.
LEMMA AxesTold ==
  ASSUME NEW s \in Sides, NEW a \in Axes, NEW x \in [Sides -> Axes], NEW ad \in Address, NEW u,
         Told(x, ad, u)
  PROVE  /\ Told(ChosenAxis(x, s, a), ad, u \cup {s})
         /\ Told(ChosenAxis(x, s, a), WithAxis(ad, s, a), u \ {s})
<1> DEFINE x2 == ChosenAxis(x, s, a)
           ad2 == WithAxis(ad, s, a)
<1>0. \A t \in Sides \ u : x[t] = Or(ad.axes[t], DefaultAxes[t])
  BY DEF Told
<1>1. x2[s] = a /\ \A t \in Sides \ {s} : x2[t] = x[t]
  BY DEF ChosenAxis
<1>2. ad.axes \in [Sides -> Axes \cup {Absent}]
  BY DEF Address
<1>3. ad2.axes = [ad.axes EXCEPT ![s] = a]
  BY DEF Address, WithAxis
<1>4. ad2.axes[s] = a /\ \A t \in Sides \ {s} : ad2.axes[t] = ad.axes[t]
  BY <1>2, <1>3
<1>5. Or(a, DefaultAxes[s]) = a
  BY AbsentIsApart DEF Or
<1> HIDE DEF x2, ad2
<1>6. Told(x2, ad, u \cup {s})
  BY <1>0, <1>1 DEF Told
<1>7. Told(x2, ad2, u \ {s})
  <2> SUFFICES ASSUME NEW t \in Sides \ (u \ {s})
               PROVE  x2[t] = Or(ad2.axes[t], DefaultAxes[t])
    BY DEF Told
  <2>1. CASE t = s
    BY <2>1, <1>1, <1>4, <1>5
  <2>2. CASE t # s
    BY <2>2, <1>0, <1>1, <1>4
  <2> QED
    BY <2>1, <2>2
<1> QED
  BY <1>6, <1>7 DEF x2, ad2

\* An axis is chosen.
LEMMA AxisKeeps ==
  ASSUME DashInv, NEW s \in Sides, NEW a \in Axes, AxisSelected(s, a)
  PROVE  DashInv'
<1> DEFINE written == [address EXCEPT !.axes[s] = a]
           k == Len(widgets)
<1>1. /\ axisOf' = [axisOf EXCEPT ![s] = a]
      /\ IF k = 0 THEN UNCHANGED <<address, past>> /\ unwritten' = unwritten \cup {s}
         ELSE /\ address' = written /\ unwritten' = unwritten \ {s}
              /\ past' = Append(past, address) \o [i \in 1 .. k - 1 |-> written]
      /\ widgets' = [i \in 1 .. k |->
           Noted([NewWidget(widgets[i].name, widgets[i].range) EXCEPT
                    !.old = Armed(widgets[i])])]
      /\ \A i \in 1 .. k : widgets'[i].old =< MaxLoads
      /\ UNCHANGED <<served, loaded, currFilter, filtered, currPage, timeRange, numWidget, grid, buttons,
                     inputs, width, listeners, loads, panel, envAsks>>
  BY DEF AxisSelected, chatPanel
<1>2. DashTypes /\ NothingYet /\ WidgetsCounted /\ PageShown /\ AddressTells
  BY DEF DashInv
<1>3. /\ widgets \in Seq(Widget) /\ address \in Address /\ past \in Seq(Address)
      /\ axisOf \in [Sides -> Axes]
  BY <1>2 DEF DashTypes
<1>4. DOMAIN widgets = 1 .. k /\ k \in Nat
  BY <1>3, LenProperties
<1>5. ASSUME NEW i \in DOMAIN widgets
      PROVE  /\ widgets'[i] \in Widget /\ widgets'[i].name = widgets[i].name
             /\ Excused(widgets'[i], timeRange)
  <2> DEFINE w == widgets[i]
             v == widgets'[i]
  <2>1. w \in Widget
    BY WidgetTyped
  <2>2. /\ v = Noted([NewWidget(w.name, w.range) EXCEPT !.old = Armed(w)])
        /\ v.old =< MaxLoads
    BY <1>1, <1>4
  <2> HIDE DEF w, v
  <2>3. v \in Widget /\ v.name = w.name /\ Excused(v, timeRange)
    BY <2>1, <2>2, WidgetRedrawn
  <2> QED
    BY <2>3 DEF w, v
<1>6. widgets' = [i \in DOMAIN widgets |-> widgets'[i]]
  BY <1>1, <1>4
<1>7. widgets' \in Seq(Widget) /\ DOMAIN widgets' = DOMAIN widgets
  BY <1>3, <1>5, <1>6, SeqOver
<1>8. SameNames(widgets, widgets')
  BY <1>5, <1>7 DEF SameNames
<1>9. RangesShared'
  BY <1>1, <1>5, <1>7 DEF RangesShared, Excused, Armed
<1>10. PageShown'
  BY <1>1, <1>2, <1>8, PageKept DEF Quiet, Still
<1>11. /\ axisOf' \in [Sides -> Axes] /\ written \in Address
       /\ written.page = address.page /\ written.filter = address.filter
       /\ written.range = address.range
  BY <1>1, <1>3 DEF Address
<1>12. address' \in Address /\ past' \in Seq(Address)
  <2>1. CASE k = 0
    BY <2>1, <1>1, <1>3
  <2>2. CASE k # 0
    <3>1. /\ address' = written /\ past' = Append(past, address) \o [i \in 1 .. k - 1 |-> written]
      BY <2>2, <1>1
    <3> HIDE DEF written, k
    <3>2. k - 1 \in Nat
      BY <2>2, <1>4
    <3>3. [i \in 1 .. k - 1 |-> written] \in Seq(Address)
      BY <1>11, <3>2
    <3>4. Append(past, address) \in Seq(Address)
      BY <1>3
    <3>5. Append(past, address) \o [i \in 1 .. k - 1 |-> written] \in Seq(Address)
      BY <3>3, <3>4
    <3> QED
      BY <1>11, <3>1, <3>5
  <2> QED
    BY <2>1, <2>2
<1>13. DashTypes'
  BY <1>1, <1>2, <1>7, <1>11, <1>12 DEF DashTypes
<1>14. NothingYet'
  <2>1. widgets = <<>> => widgets' = <<>>
    BY <1>7
  <2> QED
    BY <1>1, <1>2, <2>1 DEF NothingYet
<1>15. WidgetsCounted'
  BY <1>1, <1>2 DEF WidgetsCounted, filteredNames
<1>16. AddressTells'
  <2> SUFFICES ASSUME loaded, loads = 0
               PROVE  AddressTells'
    BY <1>1 DEF AddressTells
  <2>1. /\ currPage = Or(address.page, 0) /\ currFilter = Or(address.filter, Everything)
        /\ timeRange = address.range
        /\ \A t \in Sides \ unwritten : axisOf[t] = Or(address.axes[t], DefaultAxes[t])
    BY <1>2 DEF AddressTells
  <2>2. /\ \A t \in Sides \ (unwritten \cup {s}) : axisOf'[t] = Or(address.axes[t], DefaultAxes[t])
        /\ \A t \in Sides \ (unwritten \ {s}) : axisOf'[t] = Or(written.axes[t], DefaultAxes[t])
    <3>1. axisOf' = ChosenAxis(axisOf, s, a) /\ written = WithAxis(address, s, a)
      BY <1>1 DEF ChosenAxis, WithAxis
    <3>2. Told(axisOf, address, unwritten)
      BY <2>1 DEF Told
    <3>3. /\ Told(ChosenAxis(axisOf, s, a), address, unwritten \cup {s})
          /\ Told(ChosenAxis(axisOf, s, a), WithAxis(address, s, a), unwritten \ {s})
      BY <1>3, <3>2, AxesTold
    <3> HIDE DEF written
    <3>4. Told(axisOf', address, unwritten \cup {s}) /\ Told(axisOf', written, unwritten \ {s})
      BY <3>1, <3>3
    <3> QED
      BY <3>4 DEF Told
  <2>3. CASE k = 0
    <3>1. address' = address /\ unwritten' = unwritten \cup {s}
      BY <2>3, <1>1
    <3> QED
      BY <1>1, <2>1, <2>2, <3>1 DEF AddressTells
  <2>4. CASE k # 0
    <3>1. address' = written /\ unwritten' = unwritten \ {s}
      BY <2>4, <1>1
    <3> HIDE DEF written
    <3> QED
      BY <1>1, <1>11, <2>1, <2>2, <3>1 DEF AddressTells
  <2> QED
    BY <2>3, <2>4
<1> QED
  BY <1>9, <1>10, <1>13, <1>14, <1>15, <1>16 DEF DashInv

\* The window is resized: the dashboard is still to be rendered.
LEMMA WindowKeeps ==
  ASSUME DashInv, NEW w \in Widths, WindowResized(w)
  PROVE  DashInv'
<1> DEFINE g == resetNumRowCol(numWidget, w, panel.taken)
<1>1. /\ width' = w /\ listeners' = listeners + 1 /\ loads' = loads + listeners
      /\ inputs' = [bar |-> Everything, menu |-> Everything]
      /\ IF panel.here
         THEN renderPage(filteredNames, currPage, g, timeRange, numWidget, w, panel.taken)
         ELSE /\ grid' = g /\ widgets' = Brought(timeRange)
              /\ UNCHANGED <<orphans, buttons>>
      /\ UNCHANGED <<served, loaded, currFilter, filtered, currPage, axisOf, timeRange, numWidget,
                     filterTimer, address, past, unwritten, resets, panel, envAsks>>
  BY DEF WindowResized, chosen, url, chatPanel
<1>2. DashTypes /\ NothingYet /\ WidgetsCounted
  BY DEF DashInv
<1>3. /\ loads' \in Nat /\ loads' # 0 /\ listeners' \in Nat \ {0}
      /\ inputs' \in [{"bar", "menu"} -> Expressions]
  <2>1. loads \in Nat /\ listeners \in Nat \ {0}
    BY <1>2 DEF DashTypes
  <2>2. /\ listeners' = listeners + 1 /\ loads' = loads + listeners
        /\ inputs' = [bar |-> Everything, menu |-> Everything]
    BY <1>1
  <2>3. loads' \in Nat /\ loads' # 0 /\ listeners' \in Nat \ {0}
    BY <2>1, <2>2
  <2>4. inputs' \in [{"bar", "menu"} -> Expressions]
    BY <2>2, AbsentIsApart
  <2> QED
    BY <2>3, <2>4
<1>4. g \in GridType
  BY <1>2, GridFits DEF DashTypes
<1>5. AddressTells'
  BY <1>3 DEF AddressTells
<1>6. CASE panel.here
  <2>1. loaded' /\ timeRange' \in TimeRanges
    BY <1>1, <1>2, <1>6 DEF NothingYet
  <2>2. /\ numWidget' \in 0 .. 16 /\ WidgetsCounted'
        /\ renderPage(filteredNames', currPage', g, timeRange', numWidget', width', panel'.taken)
    BY <1>1, <1>2, <1>6, <2>1 DEF WidgetsCounted, filteredNames, DashTypes
  <2>3. Still' => g = resetNumRowCol(numWidget', width', panel'.taken)
    BY <1>1
  <2> HIDE DEF g
  <2>4. /\ served' = served /\ currFilter' \in Expressions
        /\ currPage' \in Nat /\ axisOf' \in [Sides -> Axes]
        /\ width' \in Widths /\ address' \in Address /\ past' \in Seq(Address)
        /\ panel' \in PanelType /\ envAsks' \in Nat
        /\ panel'.taken = (IF panel'.here THEN PanelWidth ELSE 0)
    BY <1>1, <1>2 DEF DashTypes
  <2> QED
    BY <1>2, <1>3, <1>4, <1>5, <2>1, <2>2, <2>3, <2>4, RenderKeeps
<1>7. CASE ~panel.here
  <2>1. grid' = g /\ buttons' = buttons /\ widgets' = Brought(timeRange)
    BY <1>1, <1>7
  <2>2. CASE ~loaded
    <3>1. widgets' = <<>>
      BY <1>2, <2>1, <2>2 DEF NothingYet, Brought
    <3>2. DashTypes'
      BY <1>1, <1>2, <1>3, <1>4, <2>1, <3>1 DEF DashTypes
    <3>3. NothingYet' /\ WidgetsCounted' /\ RangesShared'
      BY <1>1, <1>2, <2>2, <3>1 DEF NothingYet, WidgetsCounted, RangesShared
    <3>4. PageShown'
      BY <1>1, <1>3, <2>1 DEF PageShown
    <3> QED
      BY <1>5, <3>2, <3>3, <3>4 DEF DashInv
  <2>3. CASE loaded
    <3>1. timeRange \in TimeRanges
      BY <1>2, <2>3 DEF NothingYet
    <3>2. /\ widgets' \in Seq(Widget)
          /\ \A i \in DOMAIN widgets' : widgets'[i].range = timeRange
      BY <1>2, <2>1, <3>1, AllAreBrought
    <3>3. DashTypes'
      BY <1>1, <1>2, <1>3, <1>4, <2>1, <3>2 DEF DashTypes
    <3>4. NothingYet' /\ WidgetsCounted' /\ RangesShared'
      BY <1>1, <1>2, <2>3, <3>2 DEF NothingYet, WidgetsCounted, filteredNames, RangesShared
    <3>5. PageShown'
      BY <1>1, <1>3, <2>1 DEF PageShown
    <3> QED
      BY <1>5, <3>3, <3>4, <3>5 DEF DashInv
  <2> QED
    BY <2>2, <2>3
<1> QED
  BY <1>6, <1>7

\* What the chat panel leaves alone.
LEMMA PanelKeeps ==
  ASSUME DashInv, loaded, panelOnly, UNCHANGED <<grid, widgets>>,
         buttons' \in [page : Nat, pages : Int], panel' \in PanelType, envAsks' \in Nat,
         panel'.taken = (IF panel'.here THEN PanelWidth ELSE 0), PageShown'
  PROVE  DashInv'
<1>1. UNCHANGED <<served, loaded, currFilter, filtered, currPage, axisOf, timeRange, numWidget, grid, widgets,
                  inputs, address, past, unwritten, width, listeners, loads>>
  BY DEF panelOnly, chosen, url
<1>2. DashTypes'
  BY <1>1 DEF DashInv, DashTypes
<1>3. NothingYet' /\ WidgetsCounted' /\ AddressTells' /\ RangesShared'
  BY <1>1 DEF DashInv, NothingYet, WidgetsCounted, AddressTells, RangesShared, filteredNames
<1> QED
  BY <1>2, <1>3 DEF DashInv

\* The page is rendered again for the chat panel.
LEMMA PanelRendered ==
  ASSUME DashInv, loaded, panelOnly, resizeAndRender, panel' \in PanelType,
         panel'.taken = panel.taken, panel'.here = panel.here, envAsks' = envAsks
  PROVE  DashInv'
<1> DEFINE g == resetNumRowCol(numWidget, width, panel.taken)
<1>1. UNCHANGED <<served, loaded, currFilter, filtered, currPage, axisOf, timeRange, numWidget,
                  inputs, address, past, unwritten, width, listeners, loads>>
  BY DEF panelOnly, chosen, url
<1>2. DashTypes /\ NothingYet /\ WidgetsCounted /\ AddressTells
  BY DEF DashInv
<1>3. /\ renderPage(filteredNames', currPage', g, timeRange', numWidget', width', panel'.taken)
      /\ numWidget' \in 0 .. 16 /\ WidgetsCounted'
  BY <1>1, <1>2 DEF resizeAndRender, filteredNames, WidgetsCounted, DashTypes
<1>4. g \in GridType
  BY <1>2, GridFits DEF DashTypes
<1>5. Still' => g = resetNumRowCol(numWidget', width', panel'.taken)
  BY <1>1
<1>6. AddressTells'
  BY <1>1, <1>2 DEF AddressTells
<1>7. /\ loaded' /\ served' = served /\ currFilter' \in Expressions
      /\ currPage' \in Nat /\ axisOf' \in [Sides -> Axes] /\ timeRange' \in TimeRanges
      /\ width' \in Widths /\ loads' \in Nat /\ listeners' \in Nat \ {0}
      /\ inputs' \in [{"bar", "menu"} -> Expressions]
      /\ address' \in Address /\ past' \in Seq(Address) /\ envAsks' \in Nat
      /\ panel'.taken = (IF panel'.here THEN PanelWidth ELSE 0)
  BY <1>1, <1>2 DEF DashTypes, NothingYet
<1> HIDE DEF g
<1> QED
  BY <1>2, <1>3, <1>4, <1>5, <1>6, <1>7, RenderKeeps

\* The panel's timers are counted.
LEMMA PanelCounts ==
  ASSUME NEW x \in PanelType
  PROVE  /\ x.here \in BOOLEAN /\ x.taken \in Nat /\ x.opening \in Nat /\ x.closing \in Nat
         /\ x.closed \in Nat
         /\ x.opening > 0 \/ x.closing > 0 \/ x.closed > 0 =>
              x.opening + x.closing + x.closed # 0
<1>1. /\ x.here \in BOOLEAN /\ x.taken \in Nat /\ x.opening \in Nat /\ x.closing \in Nat
      /\ x.closed \in Nat
  BY DEF PanelType
<1> DEFINE o == x.opening
           c == x.closing
           d == x.closed
<1>2. o \in Nat /\ c \in Nat /\ d \in Nat
  BY <1>1
<1> HIDE DEF o, c, d
<1>3. o > 0 \/ c > 0 \/ d > 0 => o + c + d # 0
  BY <1>2
<1> QED
  BY <1>1, <1>3 DEF o, c, d

\* While a timer of the panel runs the page is not yet right.
LEMMA NotYetShown ==
  ASSUME panel' \in PanelType, panel'.opening > 0 \/ panel'.closing > 0 \/ panel'.closed > 0
  PROVE  PageShown'
<1> DEFINE x == panel'
<1>1. x \in PanelType /\ (x.opening > 0 \/ x.closing > 0 \/ x.closed > 0)
  OBVIOUS
<1> HIDE DEF x
<1>2. x.opening + x.closing + x.closed # 0
  BY <1>1, PanelCounts
<1>3. panel'.opening + panel'.closing + panel'.closed # 0
  BY <1>2 DEF x
<1> QED
  BY <1>3 DEF PageShown

\* The page buttons made for the page.
LEMMA ButtonsMade ==
  ASSUME DashInv, buttons' = addPageButtons(filteredNames, currPage, grid)
  PROVE  buttons' \in [page : Nat, pages : Int]
<1>1. served \in Served /\ currPage \in Nat /\ grid \in GridType
  BY DEF DashInv, DashTypes
<1>2. filteredNames \in Seq(Everything)
  BY <1>1, FoundNames DEF filteredNames
<1> QED
  BY <1>1, <1>2, PagesCounted

\* A chat panel, or a timer of one, is there only once the components are known.
LEMMA PanelKnown ==
  ASSUME DashInv
  PROVE  /\ panel \in PanelType /\ envAsks \in Nat /\ buttons \in [page : Nat, pages : Int]
         /\ panel.taken = (IF panel.here THEN PanelWidth ELSE 0)
         /\ panel.here \/ envAsks > 0 \/ panel.opening > 0 \/ panel.closing > 0
              \/ panel.closed > 0 => loaded
<1>1. /\ panel \in PanelType /\ envAsks \in Nat /\ buttons \in [page : Nat, pages : Int]
      /\ panel.taken = (IF panel.here THEN PanelWidth ELSE 0)
  BY DEF DashInv, DashTypes
<1>2. ~loaded => /\ ~panel.here /\ envAsks = 0
                 /\ panel.opening = 0 /\ panel.closing = 0 /\ panel.closed = 0
  BY DEF DashInv, NothingYet
<1> QED
  BY <1>1, <1>2

\* "Daisen Bot" is clicked.
LEMMA ChatClickKeeps == ASSUME DashInv, ChatClicked PROVE DashInv'
<1>1. loaded /\ envAsks' = envAsks + 1 /\ panelOnly /\ UNCHANGED <<grid, widgets, buttons, panel>>
  BY DEF ChatClicked
<1>2. UNCHANGED <<served, currFilter, filtered, currPage, numWidget, width, loads, loaded>>
  BY <1>1 DEF panelOnly, chosen
<1>3. PageShown'
  BY <1>1, <1>2, PageKept DEF DashInv, Quiet, Still, SameNames
<1>4. envAsks' \in Nat
  BY <1>1, PanelKnown
<1> QED
  BY <1>1, <1>3, <1>4, PanelKnown, PanelKeeps

\* The .env file is there, or not.
LEMMA EnvKeeps == ASSUME DashInv, NEW goOn \in BOOLEAN, EnvAnswered(goOn) PROVE DashInv'
<1>1. /\ envAsks > 0 /\ envAsks' = envAsks - 1 /\ panelOnly /\ UNCHANGED <<grid, widgets>>
  BY DEF EnvAnswered
<1>2. loaded /\ envAsks' \in Nat
  BY <1>1, PanelKnown
<1>3. CASE goOn /\ ~panel.here
  <2>1. /\ panel' = [panel EXCEPT !.here = TRUE, !.taken = PanelWidth, !.opening = @ + 1]
        /\ buttons' = addPageButtons(filteredNames, currPage, grid)
    BY <1>3 DEF EnvAnswered
  <2>2. /\ panel' \in PanelType /\ panel'.here /\ panel'.taken = PanelWidth
        /\ panel'.opening > 0
    <3>1. panel \in PanelType
      BY PanelKnown
    <3>2. panel.opening + 1 \in Nat /\ panel.opening + 1 > 0 /\ PanelWidth \in Nat
      BY <3>1, PanelCounts DEF PanelWidth
    <3>3. /\ panel'.here /\ panel'.taken = PanelWidth /\ panel'.opening = panel.opening + 1
          /\ panel' \in PanelType
      BY <2>1, <3>1, <3>2 DEF PanelType
    <3> QED
      BY <3>2, <3>3
  <2>3. PageShown'
    BY <2>2, NotYetShown
  <2> QED
    BY <1>1, <1>2, <2>1, <2>2, <2>3, ButtonsMade, PanelKeeps
<1>4. CASE ~(goOn /\ ~panel.here)
  <2>1. UNCHANGED <<panel, buttons>>
    BY <1>4 DEF EnvAnswered
  <2>2. UNCHANGED <<served, currFilter, filtered, currPage, numWidget, width, loads, loaded>>
    BY <1>1 DEF panelOnly, chosen
  <2>3. PageShown'
    BY <1>1, <2>1, <2>2, PageKept DEF DashInv, Quiet, Still, SameNames
  <2> QED
    BY <1>1, <1>2, <2>1, <2>3, PanelKnown, PanelKeeps
<1> QED
  BY <1>3, <1>4

\* The panel has opened, and the page is rendered beside it.
LEMMA OpeningKeeps == ASSUME DashInv, OpeningEnds PROVE DashInv'
<1>1. /\ panel.opening > 0 /\ panel' = [panel EXCEPT !.opening = @ - 1]
      /\ resizeAndRender /\ panelOnly /\ envAsks' = envAsks
  BY DEF OpeningEnds
<1>2. panel \in PanelType /\ loaded /\ panel.opening - 1 \in Nat
  BY <1>1, PanelKnown, PanelCounts
<1>3. panel' \in PanelType /\ panel'.taken = panel.taken /\ panel'.here = panel.here
  BY <1>1, <1>2 DEF PanelType
<1> QED
  BY <1>1, <1>2, <1>3, PanelRendered

\* The panel's cross is clicked.
LEMMA CloseClickKeeps == ASSUME DashInv, CloseClicked PROVE DashInv'
<1>1. /\ panel.here /\ panel' = [panel EXCEPT !.closing = @ + 1]
      /\ panelOnly /\ UNCHANGED <<grid, widgets, buttons, envAsks>>
  BY DEF CloseClicked
<1>2. /\ panel \in PanelType /\ loaded /\ panel.closing + 1 \in Nat /\ panel.closing + 1 > 0
  BY <1>1, PanelKnown, PanelCounts
<1>3. /\ panel' \in PanelType /\ panel'.taken = panel.taken /\ panel'.here = panel.here
      /\ panel'.closing > 0
  BY <1>1, <1>2 DEF PanelType
<1>4. PageShown'
  BY <1>3, NotYetShown
<1> QED
  BY <1>1, <1>2, <1>3, <1>4, PanelKnown, PanelKeeps

\* The panel leaves.
LEMMA ClosingKeeps == ASSUME DashInv, ClosingEnds PROVE DashInv'
<1>1. /\ panel.closing > 0
      /\ panel' = [panel EXCEPT !.here = FALSE, !.taken = 0, !.closing = @ - 1, !.closed = @ + 1]
      /\ buttons' = addPageButtons(filteredNames, currPage, grid)
      /\ panelOnly /\ UNCHANGED <<grid, widgets, envAsks>>
  BY DEF ClosingEnds
<1>2. /\ panel \in PanelType /\ loaded /\ panel.closing - 1 \in Nat
      /\ panel.closed + 1 \in Nat /\ panel.closed + 1 > 0
  BY <1>1, PanelKnown, PanelCounts
<1>3. /\ panel' \in PanelType /\ panel'.taken = 0 /\ ~panel'.here /\ panel'.closed > 0
  BY <1>1, <1>2 DEF PanelType
<1>4. PageShown'
  BY <1>3, NotYetShown
<1>5. envAsks' \in Nat /\ panel'.taken = (IF panel'.here THEN PanelWidth ELSE 0)
  BY <1>1, <1>3, PanelKnown
<1> QED
  BY <1>1, <1>2, <1>3, <1>4, <1>5, ButtonsMade, PanelKeeps

\* The page follows.
LEMMA ClosedKeeps == ASSUME DashInv, ClosedEnds PROVE DashInv'
<1>1. /\ panel.closed > 0 /\ panel' = [panel EXCEPT !.closed = @ - 1]
      /\ resizeAndRender /\ panelOnly /\ envAsks' = envAsks
  BY DEF ClosedEnds
<1>2. panel \in PanelType /\ loaded /\ panel.closed - 1 \in Nat
  BY <1>1, PanelKnown, PanelCounts
<1>3. panel' \in PanelType /\ panel'.taken = panel.taken /\ panel'.here = panel.here
  BY <1>1, <1>2 DEF PanelType
<1> QED
  BY <1>1, <1>2, <1>3, PanelRendered

\* The page as it is opened.
LEMMA DashInvInit == DashInit => DashInv
<1> SUFFICES ASSUME DashInit PROVE DashInv
  OBVIOUS
<1>1. /\ served \in Served /\ loaded = FALSE /\ currFilter = Everything /\ currPage = 0
      /\ axisOf = DefaultAxes /\ timeRange = Absent /\ numWidget = 16 /\ width \in Widths
      /\ grid = resetNumRowCol(16, width, 0) /\ widgets = <<>>
      /\ buttons = NoButtons
      /\ inputs = [bar |-> Everything, menu |-> Everything]
      /\ past = <<>> /\ listeners = 1 /\ loads = 1
      /\ panel = [here |-> FALSE, taken |-> 0, opening |-> 0, closing |-> 0, closed |-> 0]
      /\ envAsks = 0
  BY DEF DashInit
<1>2. address \in Address
  <2>1. PICK p \in OpenedAt \cup {Absent} :
          address = [page |-> p, filter |-> Absent, axes |-> [s \in Sides |-> Absent],
                     range |-> Absent]
    BY DEF DashInit
  <2>2. p \in Nat \cup {Absent}
    BY DashboardAssumption
  <2> QED
    BY <2>1, <2>2 DEF Address
<1>3. axisOf \in [Sides -> Axes]
  <2>1. axisOf = [s \in Sides |-> axisOf[s]] /\ \A s \in Sides : axisOf[s] \in Axes
    BY <1>1, DashboardAssumption DEF DefaultAxes, Sides
  <2> QED
    BY <2>1
<1>4. grid \in GridType
  BY <1>1, GridFits
<1>5. panel \in PanelType /\ ~panel.here /\ panel.taken = 0
      /\ panel.opening = 0 /\ panel.closing = 0 /\ panel.closed = 0
  BY <1>1 DEF PanelType
<1>6. inputs \in [{"bar", "menu"} -> Expressions]
  BY <1>1, AbsentIsApart
<1>7. widgets \in Seq(Widget) /\ past \in Seq(Address) /\ DOMAIN widgets = {}
  BY <1>1
<1>8. DashTypes
  <2>1. loads \in Nat /\ listeners \in Nat \ {0} /\ numWidget \in 0 .. 16 /\ envAsks \in Nat
    BY <1>1
  <2>2. /\ buttons \in [page : Nat, pages : Int] /\ currPage \in Nat
        /\ panel.taken = (IF panel.here THEN PanelWidth ELSE 0)
    BY <1>1, <1>5 DEF NoButtons
  <2>3. /\ served \in Served /\ loaded \in BOOLEAN /\ currFilter \in Expressions
        /\ timeRange \in TimeRanges \cup {Absent} /\ width \in Widths
    BY <1>1, AbsentIsApart
  <2> QED
    BY <1>2, <1>3, <1>4, <1>5, <1>6, <1>7, <2>1, <2>2, <2>3 DEF DashTypes
<1>9. NothingYet /\ WidgetsCounted /\ PageShown /\ AddressTells
  BY <1>1, <1>5 DEF NothingYet, WidgetsCounted, PageShown, AddressTells
<1>10. RangesShared
  BY <1>7 DEF RangesShared
<1> QED
  BY <1>8, <1>9, <1>10 DEF DashInv

\* Every handler of the dashboard keeps the invariant.
LEMMA DashInvStep == DashInv /\ [DashNext]_dashVars => DashInv'
<1> SUFFICES ASSUME DashInv, [DashNext]_dashVars PROVE DashInv'
  OBVIOUS
<1>1. CASE Paging
  <2>1. CASE Answered
    BY <2>1, AnsweredKeeps
  <2>2. CASE FilterExpires
    BY <2>2, FilterKeeps
  <2>3. CASE Back
    BY <2>3, BackKeeps
  <2>4. ASSUME NEW where \in {"bar", "menu"}, NEW f \in Expressions,
               FilterTyped(where, f)
        PROVE  DashInv'
    BY <2>4, TypedKeeps
  <2>5. ASSUME NEW p \in Targets(buttons), PageClicked(p) PROVE DashInv'
    BY <2>5, ClickKeeps
  <2> QED
    BY <1>1, <2>1, <2>2, <2>3, <2>4, <2>5 DEF Paging
<1>2. CASE Choosing
  BY <1>2, AxisKeeps DEF Choosing
<1>3. CASE Restoring
  BY <1>3, ResetClickKeeps, ResetKeeps, OrphanKeeps DEF Restoring
<1>4. CASE Mouse
  BY <1>3, <1>4, MouseDownKeeps, MouseUpKeeps, TimerKeeps, MouseMoveKeeps, WheelKeeps DEF Mouse
<1>5. CASE Touch
  BY <1>3, <1>5, TouchEndKeeps, TimerKeeps, TouchStartKeeps, TouchMoveKeeps DEF Touch
<1>6. CASE Resizing
  BY <1>6, WindowKeeps, ChatClickKeeps, OpeningKeeps, CloseClickKeeps, ClosingKeeps, ClosedKeeps,
     EnvKeeps DEF Resizing
<1>7. CASE UNCHANGED dashVars
  <2>1. UNCHANGED <<served, loaded, currFilter, filtered, currPage, axisOf, timeRange, numWidget, grid,
                    widgets, buttons, inputs, address, past, unwritten, width, listeners,
                    loads, panel, envAsks>>
    BY <1>7 DEF dashVars, chosen, layout, url, chatPanel
  <2>2. DashTypes'
    BY <2>1 DEF DashInv, DashTypes
  <2>3. NothingYet' /\ WidgetsCounted' /\ AddressTells' /\ RangesShared'
    BY <2>1 DEF DashInv, NothingYet, WidgetsCounted, AddressTells, RangesShared, filteredNames
  <2>4. PageShown'
    BY <2>1, PageKept DEF DashInv, Quiet, Still, SameNames
  <2> QED
    BY <2>2, <2>3, <2>4 DEF DashInv
<1> QED
  BY <1>1, <1>2, <1>4, <1>5, <1>6, <1>7 DEF DashNext

\* Whatever is clicked, typed or gone back to, and in whatever order requests and timers
\* end: once they have, what is chosen and what the address tells agree, the grid is that
\* of the room left, and unless the filter is no expression, where new RegExp raises an
\* exception, the page shown is the one chosen (dashboard.ts: render, _filter,
\* _renderPage, _switchToPage, _switchPrimaryAxis).
THEOREM PageStaysAgreed == DashSpec => []PageAgrees
<1>1. DashInv => PageAgrees
  BY DEF DashInv, PageAgrees
<1> QED
  BY <1>1, DashInvInit, DashInvStep, PTL DEF DashSpec

\* The widgets are over one range, unless a timer or a button to be released will bring
\* them there, or what would have done so was lost: by a second press, by an axis chosen,
\* or by a drag of no length that puts a widget back (mouseeventhandler.ts,
\* dashboard.ts: setTimeRange).
THEOREM RangesStayShared == DashSpec => []RangesShared
<1>1. DashInv => RangesShared
  BY DEF DashInv
<1> QED
  BY <1>1, DashInvInit, DashInvStep, PTL DEF DashSpec

(***************************************************************************)
(* The curves of a widget                                                  *)
(*                                                                         *)
(* A drawing is settled on an axis when the data of the latest request has *)
(* come and none of an earlier one after it.                               *)
(***************************************************************************)
Data == [plot : Plots, span : Spans]
Drawing == [half : Halves, plot : Plots, span : Spans, picture : Nat, n : Nat]

OneCurve(cs) == \A c, d \in cs : c.plot = d.plot => c = d

DrawTypes ==
  /\ axes \in [Halves -> Plots \cup {Skipped}] /\ span \in Spans /\ asked \in Spans
  /\ picture \in 1 .. MaxPictures /\ drawings \in Nat /\ newest \in [Halves -> Nat]
  /\ stored \in [Halves -> {Nothing} \cup Data]
  /\ curves \in SUBSET Curve /\ OneCurve(curves)
  /\ wanted \in SUBSET Drawing
  /\ leftover \in BOOLEAN /\ overtaken \in SUBSET Halves

\* What is on its way was asked for before, and what is for the present picture
\* is for its axes; the latest drawing is for the present picture and range.
WantedInv ==
  /\ \A q \in wanted : /\ q.picture =< picture /\ q.n =< drawings
                       /\ q.picture = picture => q.plot = axes[q.half]
                       /\ q.n = drawings => q.span = asked /\ q.picture = picture
  /\ \A h \in Halves : newest[h] =< drawings

\* The data of the latest drawing has come, or is on its way.
LatestComes ==
  \A h \in Halves : axes[h] # Skipped =>
    newest[h] = drawings \/ \E q \in wanted : q.half = h /\ q.n = drawings

\* The data of the latest drawing has come, and none after it.
Settled(h) == newest[h] = drawings /\ h \notin overtaken

SettledIsStored ==
  \A h \in Halves : axes[h] # Skipped /\ Settled(h) =>
    stored[h] = [plot |-> axes[h], span |-> asked]

\* Two axes may be of one kind of data, and share the curve.
SettledIsDrawn ==
  ~leftover =>
    \A p \in Plots : /\ \E h \in Halves : axes[h] = p
                     /\ \A h \in Halves : axes[h] = p => Settled(h)
                     => \E c \in curves : c.plot = p /\ c.span = asked

NoStrayCurve == ~leftover => \A c \in curves : c.plot = axes[c.half]

\* The strengthening of CurvesAreAsked: inductive.
DrawInv ==
  /\ DrawTypes /\ WantedInv /\ LatestComes
  /\ SettledIsStored /\ SettledIsDrawn /\ NoStrayCurve

\* A curve drawn takes the place of the one of its kind of data, and of no other.
LEMMA CurveDrawn ==
  ASSUME NEW cs \in SUBSET Curve, OneCurve(cs), NEW d \in Data, NEW h \in Halves
  PROVE  LET ds == DataCurve(cs, d, h)
         IN /\ ds \in SUBSET Curve /\ OneCurve(ds)
            /\ \A c \in ds : c \in cs \/ (c.plot = d.plot /\ c.half = h)
            /\ \E c \in ds : c.plot = d.plot /\ c.span = d.span
            /\ \A c \in cs : c.plot # d.plot => c \in ds
<1> DEFINE x == [plot |-> d.plot, half |-> h, span |-> d.span]
           ds == DataCurve(cs, d, h)
<1>1. x \in Curve /\ x.plot = d.plot /\ x.half = h /\ x.span = d.span
  BY DEF Data, Curve
<1>2. ds = {c \in cs : c.plot # d.plot} \cup {x}
  BY DEF DataCurve
<1> HIDE DEF x, ds
<1>3. ds \in SUBSET Curve /\ x \in ds
  BY <1>1, <1>2
<1>4. OneCurve(ds)
  BY <1>1, <1>2 DEF OneCurve
<1>5. /\ \A c \in ds : c \in cs \/ (c.plot = d.plot /\ c.half = h)
      /\ \A c \in cs : c.plot # d.plot => c \in ds
  BY <1>1, <1>2
<1> QED
  BY <1>1, <1>3, <1>4, <1>5 DEF ds

\* Drawing again what is stored for an axis.
LEMMA AxisRedrawn ==
  ASSUME NEW cs \in SUBSET Curve, OneCurve(cs), NEW h \in Halves,
         axes \in [Halves -> Plots \cup {Skipped}], stored \in [Halves -> {Nothing} \cup Data]
  PROVE  LET ds == Redrawn(cs, h)
             drawn == axes[h] # Skipped /\ stored[h] # Nothing
         IN /\ ds \in SUBSET Curve /\ OneCurve(ds)
            /\ ~drawn => ds = cs
            /\ drawn =>
                 /\ \A c \in ds : c \in cs \/ (c.plot = stored[h].plot /\ c.half = h)
                 /\ \E c \in ds : c.plot = stored[h].plot /\ c.span = stored[h].span
                 /\ \A c \in cs : c.plot # stored[h].plot => c \in ds
<1>1. CASE axes[h] = Skipped \/ stored[h] = Nothing
  BY <1>1 DEF Redrawn
<1>2. CASE axes[h] # Skipped /\ stored[h] # Nothing
  <2>1. stored[h] \in Data
    BY <1>2
  <2>2. Redrawn(cs, h) = DataCurve(cs, stored[h], h)
    BY <1>2 DEF Redrawn
  <2> QED
    BY <1>2, <2>1, <2>2, CurveDrawn
<1> QED
  BY <1>1, <1>2

\* What a request for both axes' data brings: new drawings, later than all.
LEMMA DataAsked ==
  ASSUME DrawTypes, WantedInv, NEW ax \in [Halves -> Plots \cup {Skipped}], NEW s \in Spans,
         NEW pic \in 1 .. MaxPictures, picture =< pic,
         pic = picture => ax = axes, fetchAxisData(ax, s, pic)
  PROVE  /\ drawings' = drawings + 1 /\ asked' = s /\ wanted' \in SUBSET Drawing
         /\ \A q \in wanted' : /\ q.picture =< pic /\ q.n =< drawings'
                               /\ q.picture = pic => q.plot = ax[q.half]
                               /\ q.n = drawings' => q.span = s /\ q.picture = pic
         /\ \A h \in Halves : newest[h] < drawings'
         /\ \A h \in Halves : ax[h] # Skipped =>
              \E q \in wanted' : q.half = h /\ q.n = drawings'
<1> DEFINE new == {[half |-> h, plot |-> ax[h], span |-> s, picture |-> pic,
                    n |-> drawings + 1] : h \in {x \in Halves : ax[x] # Skipped}}
<1>1. /\ drawings \in Nat /\ picture \in Nat /\ pic \in Nat
      /\ wanted \in SUBSET Drawing /\ newest \in [Halves -> Nat]
  <2>1. MaxPictures \in Nat
    BY WidgetAssumption
  <2> QED
    BY <2>1 DEF DrawTypes
<1>2. drawings' = drawings + 1 /\ asked' = s /\ wanted' = wanted \cup new
  BY DEF fetchAxisData
<1>3. \A q \in new : /\ q \in Drawing /\ q.picture = pic /\ q.n = drawings + 1
                     /\ q.plot = ax[q.half] /\ q.span = s
  <2> TAKE q \in new
  <2>1. PICK h \in Halves : /\ ax[h] # Skipped
                            /\ q = [half |-> h, plot |-> ax[h], span |-> s, picture |-> pic,
                                    n |-> drawings + 1]
    OBVIOUS
  <2> HIDE DEF new
  <2>2. ax[h] \in Plots
    BY <2>1
  <2>3. drawings + 1 \in Nat /\ pic \in Nat
    BY <1>1
  <2>4. /\ q.picture = pic /\ q.n = drawings + 1 /\ q.half = h
        /\ q.plot = ax[h] /\ q.span = s
    BY <2>1
  <2> QED
    BY <2>1, <2>2, <2>3, <2>4 DEF Drawing
<1>4. \A h \in Halves : ax[h] # Skipped => \E q \in new : q.half = h /\ q.n = drawings + 1
  <2> TAKE h \in Halves
  <2> HAVE ax[h] # Skipped
  <2> WITNESS [half |-> h, plot |-> ax[h], span |-> s, picture |-> pic,
               n |-> drawings + 1] \in new
  <2> QED
    OBVIOUS
<1> HIDE DEF new
<1>5. \A q \in wanted : /\ q.picture =< pic /\ q.n =< drawings' /\ q.n # drawings'
                        /\ q.picture = pic => q.plot = ax[q.half]
  <2> SUFFICES ASSUME NEW q \in wanted
               PROVE  /\ q.picture =< pic /\ q.n =< drawings' /\ q.n # drawings'
                      /\ q.picture = pic => q.plot = ax[q.half]
    OBVIOUS
  <2>1. q.picture \in Nat /\ q.n \in Nat
    BY <1>1 DEF Drawing
  <2>2. /\ q.picture =< picture /\ q.n =< drawings
        /\ q.picture = picture => q.plot = axes[q.half]
    BY DEF WantedInv
  <2>3. q.n =< drawings' /\ q.n # drawings'
    BY <1>1, <1>2, <2>1, <2>2
  <2>4. q.picture =< pic /\ (q.picture = pic => pic = picture)
    BY <1>1, <2>1, <2>2
  <2> QED
    BY <2>2, <2>3, <2>4
<1>6. \A q \in new : /\ q.picture =< pic /\ q.n =< drawings' /\ q.picture = pic
                     /\ q.plot = ax[q.half] /\ q.span = s
  BY <1>1, <1>2, <1>3
<1>7. \A q \in wanted' : q \in wanted \/ q \in new
  BY <1>2
<1>8. \A q \in wanted' : /\ q.picture =< pic /\ q.n =< drawings'
                         /\ q.picture = pic => q.plot = ax[q.half]
                         /\ q.n = drawings' => q.span = s /\ q.picture = pic
  BY <1>5, <1>6, <1>7
<1>9. \A h \in Halves : newest[h] < drawings'
  BY <1>1, <1>2 DEF WantedInv
<1> QED
  BY <1>1, <1>2, <1>3, <1>4, <1>8, <1>9

\* Moving the range: if no data of an axis given up is drawn, the picture has
\* curves of the axes only, and the latest data of each axis once it is settled.
LEMMA CurvesShifted ==
  ASSUME DrawInv, NEW s \in Spans, timeShift(s)
  PROVE  /\ curves' \in SUBSET Curve /\ OneCurve(curves') /\ leftover' \in BOOLEAN
         /\ ~leftover' => \A c \in curves' : c.plot = axes[c.half]
         /\ ~leftover' =>
              \A p \in Plots : /\ \E h \in Halves : axes[h] = p
                               /\ \A h \in Halves : axes[h] = p => Settled(h)
                               => \E c \in curves' : c.plot = p /\ c.span = asked
<1> DEFINE M == Redrawn(curves, "primary")
           N == Redrawn(M, "secondary")
           Drawn(h) == axes[h] # Skipped /\ stored[h] # Nothing
<1>1. /\ axes \in [Halves -> Plots \cup {Skipped}] /\ stored \in [Halves -> {Nothing} \cup Data]
      /\ curves \in SUBSET Curve /\ OneCurve(curves) /\ leftover \in BOOLEAN
  BY DEF DrawInv, DrawTypes
<1>2. /\ curves' = N
      /\ leftover' = (leftover \/ \E h \in Halves : Drawn(h) /\ stored[h].plot # axes[h])
  BY DEF timeShift
<1>3. "primary" \in Halves /\ "secondary" \in Halves
      /\ \A h \in Halves : h = "primary" \/ h = "secondary"
  BY DEF Halves
<1>4. /\ M \in SUBSET Curve /\ OneCurve(M) /\ (~Drawn("primary") => M = curves)
      /\ Drawn("primary") =>
           /\ \A c \in M : c \in curves \/ (c.plot = stored["primary"].plot /\ c.half = "primary")
           /\ \E c \in M : c.plot = stored["primary"].plot /\ c.span = stored["primary"].span
  BY <1>1, <1>3, AxisRedrawn
<1> HIDE DEF M
<1>5. /\ N \in SUBSET Curve /\ OneCurve(N) /\ (~Drawn("secondary") => N = M)
      /\ Drawn("secondary") =>
           /\ \A c \in N : c \in M \/ (c.plot = stored["secondary"].plot /\ c.half = "secondary")
           /\ \E c \in N : c.plot = stored["secondary"].plot /\ c.span = stored["secondary"].span
           /\ \A c \in M : c.plot # stored["secondary"].plot => c \in N
  BY <1>1, <1>3, <1>4, AxisRedrawn
<1> HIDE DEF N
<1>6. ASSUME ~leftover' PROVE \A c \in curves' : c.plot = axes[c.half]
  <2>1. /\ \A c \in curves : c.plot = axes[c.half]
        /\ \A h \in Halves : Drawn(h) => stored[h].plot = axes[h]
    BY <1>2, <1>6 DEF DrawInv, NoStrayCurve
  <2> HIDE DEF Drawn
  <2>2. \A c \in M : c.plot = axes[c.half]
    BY <1>3, <1>4, <2>1
  <2>3. \A c \in N : c.plot = axes[c.half]
    BY <1>3, <1>5, <2>1, <2>2
  <2> QED
    BY <1>2, <2>3
<1>7. ASSUME ~leftover', NEW p \in Plots, \E h \in Halves : axes[h] = p,
             \A h \in Halves : axes[h] = p => Settled(h)
      PROVE  \E c \in curves' : c.plot = p /\ c.span = asked
  <2>1. \A h \in Halves : Drawn(h) => stored[h].plot = axes[h]
    BY <1>2, <1>7
  <2>2. ASSUME NEW h \in Halves, axes[h] = p
        PROVE  Drawn(h) /\ stored[h].plot = p /\ stored[h].span = asked
    <3>1. p # Skipped /\ \A r \in Spans : Nothing # [plot |-> p, span |-> r]
      BY WidgetAssumption
    <3>2. asked \in Spans
      BY DEF DrawInv, DrawTypes
    <3>3. stored[h] = [plot |-> p, span |-> asked]
      BY <1>7, <2>2, <3>1 DEF DrawInv, SettledIsStored
    <3> QED
      BY <2>2, <3>1, <3>2, <3>3
  <2> HIDE DEF Drawn
  <2>3. CASE axes["secondary"] = p
    BY <1>2, <1>3, <1>5, <2>2, <2>3
  <2>4. CASE axes["secondary"] # p
    <3>1. axes["primary"] = p
      BY <1>3, <1>7, <2>4
    <3>2. PICK c \in M : c.plot = p /\ c.span = asked
      BY <1>3, <1>4, <2>2, <3>1
    <3>3. c \in N
      BY <1>3, <1>5, <2>1, <2>4, <3>2
    <3> QED
      BY <1>2, <3>2, <3>3
  <2> QED
    BY <2>3, <2>4
<1> QED
  BY <1>1, <1>2, <1>5, <1>6, <1>7

\* A drag, a pinch or the wheel.
LEMMA ShiftedKeepsDraw == ASSUME DrawInv, NEW s \in Spans, Shifted(s) PROVE DrawInv'
<1>1. /\ span' = s /\ timeShift(s)
      /\ UNCHANGED <<axes, picture, stored, wanted, drawings, newest, asked, overtaken>>
  BY DEF Shifted, timeShift
<1>2. /\ curves' \in SUBSET Curve /\ OneCurve(curves') /\ leftover' \in BOOLEAN
      /\ ~leftover' => \A c \in curves' : c.plot = axes[c.half]
      /\ ~leftover' =>
           \A p \in Plots : /\ \E h \in Halves : axes[h] = p
                            /\ \A h \in Halves : axes[h] = p => Settled(h)
                            => \E c \in curves' : c.plot = p /\ c.span = asked
  BY <1>1, CurvesShifted
<1>3. DrawTypes'
  BY <1>1, <1>2 DEF DrawInv, DrawTypes
<1>4. \A h \in Halves : Settled(h)' <=> Settled(h)
  BY <1>1 DEF Settled
<1>5. WantedInv' /\ LatestComes' /\ SettledIsStored'
  BY <1>1, <1>4 DEF DrawInv, WantedInv, LatestComes, SettledIsStored
<1>6. SettledIsDrawn'
  BY <1>1, <1>2, <1>4 DEF SettledIsDrawn
<1>7. NoStrayCurve'
  BY <1>1, <1>2 DEF NoStrayCurve
<1> QED
  BY <1>3, <1>5, <1>6, <1>7 DEF DrawInv

\* Whatever asks for both axes' data leaves nothing settled.
LEMMA AskedAnew ==
  ASSUME DrawInv, axes' \in [Halves -> Plots \cup {Skipped}], NEW s \in Spans, span' \in Spans,
         picture' \in 1 .. MaxPictures, picture =< picture', picture' = picture => axes' = axes,
         fetchAxisData(axes', s, picture'), UNCHANGED <<stored, newest, overtaken>>,
         curves' \in SUBSET Curve, OneCurve(curves'), leftover' \in BOOLEAN,
         ~leftover' => \A c \in curves' : c.plot = axes'[c.half]
  PROVE  DrawInv'
<1>1. DrawTypes /\ WantedInv
  BY DEF DrawInv
<1>2. /\ drawings' = drawings + 1 /\ asked' = s /\ wanted' \in SUBSET Drawing
      /\ \A q \in wanted' : /\ q.picture =< picture' /\ q.n =< drawings'
                            /\ q.picture = picture' => q.plot = axes'[q.half]
                            /\ q.n = drawings' => q.span = s /\ q.picture = picture'
      /\ \A h \in Halves : newest[h] < drawings'
      /\ \A h \in Halves : axes'[h] # Skipped =>
           \E q \in wanted' : q.half = h /\ q.n = drawings'
  <2> DEFINE ax == axes'
             pic == picture'
  <2>1. /\ ax \in [Halves -> Plots \cup {Skipped}] /\ pic \in 1 .. MaxPictures
        /\ picture =< pic /\ (pic = picture => ax = axes) /\ fetchAxisData(ax, s, pic)
    OBVIOUS
  <2> HIDE DEF ax, pic
  <2>2. /\ drawings' = drawings + 1 /\ asked' = s /\ wanted' \in SUBSET Drawing
        /\ \A q \in wanted' : /\ q.picture =< pic /\ q.n =< drawings'
                              /\ q.picture = pic => q.plot = ax[q.half]
                              /\ q.n = drawings' => q.span = s /\ q.picture = pic
        /\ \A h \in Halves : newest[h] < drawings'
        /\ \A h \in Halves : ax[h] # Skipped =>
             \E q \in wanted' : q.half = h /\ q.n = drawings'
    BY <1>1, <2>1, DataAsked
  <2> QED
    BY <2>2 DEF ax, pic
<1>3. /\ drawings \in Nat /\ newest \in [Halves -> Nat] /\ newest' = newest
      /\ stored' \in [Halves -> {Nothing} \cup Data] /\ overtaken' \in SUBSET Halves
  BY <1>1 DEF DrawTypes
<1>4. DrawTypes'
  BY <1>2, <1>3 DEF DrawTypes
<1>5. \A h \in Halves : newest'[h] < drawings' /\ newest'[h] # drawings' /\ newest'[h] =< drawings'
  BY <1>2, <1>3
<1>6. WantedInv' /\ LatestComes'
  BY <1>2, <1>5 DEF WantedInv, LatestComes
<1>7. \A h \in Halves : ~Settled(h)'
  BY <1>5 DEF Settled
<1>8. SettledIsStored' /\ SettledIsDrawn' /\ NoStrayCurve'
  BY <1>7 DEF SettledIsStored, SettledIsDrawn, NoStrayCurve
<1> QED
  BY <1>4, <1>6, <1>8 DEF DrawInv

\* The dashboard's setTimeRange.
LEMMA RangeSetKeeps == ASSUME DrawInv, NEW s \in Spans, RangeSet(s) PROVE DrawInv'
<1>1. /\ span' = s /\ timeShift(s) /\ fetchAxisData(axes', s, picture')
      /\ UNCHANGED <<axes, picture, stored, newest, overtaken>>
  BY DEF RangeSet, timeShift
<1>2. /\ curves' \in SUBSET Curve /\ OneCurve(curves') /\ leftover' \in BOOLEAN
      /\ ~leftover' => \A c \in curves' : c.plot = axes'[c.half]
  BY <1>1, CurvesShifted
<1>3. /\ axes' \in [Halves -> Plots \cup {Skipped}] /\ picture' \in 1 .. MaxPictures
      /\ picture =< picture' /\ axes' = axes
  <2>1. MaxPictures \in Nat
    BY WidgetAssumption
  <2> QED
    BY <1>1, <2>1 DEF DrawInv, DrawTypes
<1> QED
  BY <1>1, <1>2, <1>3, AskedAnew

\* An axis is chosen, and the picture made anew.
LEMMA AxisChangedKeeps ==
  ASSUME DrawInv, NEW h \in Halves, NEW a \in Plots \cup {Skipped}, AxisChanged(h, a)
  PROVE  DrawInv'
<1>1. /\ axes' = [axes EXCEPT ![h] = a] /\ picture < MaxPictures /\ picture' = picture + 1
      /\ curves' = {} /\ leftover' = FALSE /\ fetchAxisData(axes', span, picture')
      /\ UNCHANGED <<span, stored, newest, overtaken>>
  BY DEF AxisChanged
<1>2. /\ axes \in [Halves -> Plots \cup {Skipped}] /\ span \in Spans
      /\ picture \in 1 .. MaxPictures
  BY DEF DrawInv, DrawTypes
<1>3. axes' \in [Halves -> Plots \cup {Skipped}]
  BY <1>1, <1>2
<1>4. /\ picture' \in 1 .. MaxPictures /\ picture =< picture' /\ picture' # picture
  <2>1. MaxPictures \in Nat
    BY WidgetAssumption
  <2> QED
    BY <1>1, <1>2, <2>1
<1>5. curves' \in SUBSET Curve /\ OneCurve(curves') /\ leftover' \in BOOLEAN
      /\ \A c \in curves' : c.plot = axes'[c.half]
  BY <1>1 DEF OneCurve
<1> QED
  BY <1>1, <1>2, <1>3, <1>4, <1>5, AskedAnew

\* Data comes.  It settles its axis if it is of the latest drawing; if not, the
\* latest is still to come, or was overtaken.
LEMMA ArrivalKeeps == ASSUME DrawInv, NEW q \in wanted, DataArrives(q) PROVE DrawInv'
<1> DEFINE d == [plot |-> q.plot, span |-> q.span]
           g == q.half
<1>1. /\ wanted' = wanted \ {q} /\ stored' = [stored EXCEPT ![g] = d]
      /\ curves' = IF q.picture = picture THEN DataCurve(curves, stored'[g], g) ELSE curves
      /\ newest' = [newest EXCEPT ![g] = IF q.n > @ THEN q.n ELSE @]
      /\ overtaken' = IF q.n < newest[g] THEN overtaken \cup {g} ELSE overtaken \ {g}
      /\ UNCHANGED <<axes, span, picture, drawings, asked, leftover>>
  BY DEF DataArrives
<1>2. /\ axes \in [Halves -> Plots \cup {Skipped}] /\ asked \in Spans
      /\ drawings \in Nat /\ newest \in [Halves -> Nat]
      /\ stored \in [Halves -> {Nothing} \cup Data]
      /\ curves \in SUBSET Curve /\ OneCurve(curves) /\ overtaken \in SUBSET Halves
  BY DEF DrawInv, DrawTypes
<1>3. g \in Halves /\ q.plot \in Plots /\ q.span \in Spans /\ q.n \in Nat
  BY DEF DrawInv, DrawTypes, Drawing
<1>4. /\ q.n =< drawings /\ (q.picture = picture => q.plot = axes[g])
      /\ q.n = drawings => q.span = asked /\ q.picture = picture
      /\ \A h \in Halves : newest[h] =< drawings
  BY DEF DrawInv, WantedInv
<1>5. d \in Data /\ d.plot = q.plot /\ d.span = q.span
  BY <1>3 DEF Data
<1> HIDE DEF d
<1>6. /\ stored'[g] = d /\ \A h \in Halves : h # g => stored'[h] = stored[h]
      /\ newest'[g] = (IF q.n > newest[g] THEN q.n ELSE newest[g])
      /\ \A h \in Halves : h # g => newest'[h] = newest[h]
  BY <1>1, <1>2, <1>3
<1>7. /\ q.picture = picture =>
           /\ curves' \in SUBSET Curve /\ OneCurve(curves')
           /\ \A c \in curves' : c \in curves \/ (c.plot = q.plot /\ c.half = g)
           /\ \E c \in curves' : c.plot = q.plot /\ c.span = q.span
           /\ \A c \in curves : c.plot # q.plot => c \in curves'
      /\ q.picture # picture => curves' = curves
  <2>1. q.picture = picture => curves' = DataCurve(curves, d, g)
    BY <1>1, <1>6
  <2>2. LET ds == DataCurve(curves, d, g)
        IN /\ ds \in SUBSET Curve /\ OneCurve(ds)
           /\ \A c \in ds : c \in curves \/ (c.plot = d.plot /\ c.half = g)
           /\ \E c \in ds : c.plot = d.plot /\ c.span = d.span
           /\ \A c \in curves : c.plot # d.plot => c \in ds
    BY <1>2, <1>3, <1>5, CurveDrawn
  <2> QED
    BY <1>1, <1>5, <2>1, <2>2
<1>8. DrawTypes'
  <2>1. /\ newest' \in [Halves -> Nat] /\ stored' \in [Halves -> {Nothing} \cup Data]
        /\ overtaken' \in SUBSET Halves
    BY <1>1, <1>2, <1>3, <1>5
  <2>2. curves' \in SUBSET Curve /\ OneCurve(curves')
    BY <1>2, <1>7
  <2> QED
    BY <1>1, <2>1, <2>2 DEF DrawInv, DrawTypes
<1>9. WantedInv'
  <2>1. \A h \in Halves : newest'[h] =< drawings
    BY <1>2, <1>3, <1>4, <1>6
  <2> QED
    BY <1>1, <2>1 DEF DrawInv, WantedInv
<1>10. LatestComes'
  <2> SUFFICES ASSUME NEW h \in Halves, axes[h] # Skipped, newest'[h] # drawings
               PROVE  \E r \in wanted' : r.half = h /\ r.n = drawings
    BY <1>1 DEF LatestComes
  <2>1. newest[h] # drawings
    BY <1>2, <1>3, <1>4, <1>6
  <2>2. PICK r \in wanted : r.half = h /\ r.n = drawings
    BY <2>1 DEF DrawInv, LatestComes
  <2>3. r # q
    BY <1>2, <1>3, <1>4, <1>6, <2>1, <2>2
  <2> QED
    BY <1>1, <2>2, <2>3
<1>11. Settled(g)' => q.n = drawings
  BY <1>1, <1>2, <1>3, <1>4, <1>6 DEF Settled
<1>12. \A h \in Halves : h # g => (Settled(h)' <=> Settled(h))
  BY <1>1, <1>6 DEF Settled
<1>13. SettledIsStored'
  <2> SUFFICES ASSUME NEW h \in Halves, axes[h] # Skipped, Settled(h)'
               PROVE  stored'[h] = [plot |-> axes[h], span |-> asked]
    BY <1>1 DEF SettledIsStored
  <2>1. CASE h = g
    <3>1. q.plot = axes[g] /\ q.span = asked
      BY <1>4, <1>11, <2>1
    <3> QED
      BY <1>6, <2>1, <3>1 DEF d
  <2>2. CASE h # g
    BY <1>6, <1>12, <2>2 DEF DrawInv, SettledIsStored
  <2> QED
    BY <2>1, <2>2
<1>14. SettledIsDrawn'
  <2> SUFFICES ASSUME ~leftover, NEW p \in Plots, \E h \in Halves : axes[h] = p,
                      \A h \in Halves : axes[h] = p => Settled(h)'
               PROVE  \E c \in curves' : c.plot = p /\ c.span = asked
    BY <1>1 DEF SettledIsDrawn
  <2>1. CASE axes[g] = p
    <3>1. q.n = drawings
      BY <1>3, <1>11, <2>1
    <3> QED
      BY <1>4, <1>7, <2>1, <3>1
  <2>2. CASE axes[g] # p
    <3>1. \A h \in Halves : axes[h] = p => Settled(h)
      BY <1>12, <2>2
    <3>2. PICK c \in curves : c.plot = p /\ c.span = asked
      BY <3>1 DEF DrawInv, SettledIsDrawn
    <3> QED
      BY <1>4, <1>7, <2>2, <3>2
  <2> QED
    BY <2>1, <2>2
<1>15. NoStrayCurve'
  BY <1>1, <1>4, <1>7 DEF DrawInv, NoStrayCurve
<1> QED
  BY <1>8, <1>9, <1>10, <1>13, <1>14, <1>15 DEF DrawInv

\* The widget as it is made asks for the data of both axes.
LEMMA DrawInvInit == DrawInit => DrawInv
<1> SUFFICES ASSUME DrawInit PROVE DrawInv
  OBVIOUS
<1>1. /\ axes \in [Halves -> Plots] /\ span \in Spans /\ picture = 1
      /\ stored = [h \in Halves |-> Nothing] /\ curves = {}
      /\ wanted = {[half |-> h, plot |-> axes[h], span |-> span, picture |-> 1, n |-> 1] :
                    h \in Halves}
      /\ drawings = 1 /\ newest = [h \in Halves |-> 0] /\ asked = span
      /\ overtaken = {} /\ leftover = FALSE
  BY DEF DrawInit
<1>2. \A q \in wanted : /\ q \in Drawing /\ q.picture = 1 /\ q.n = 1
                        /\ q.plot = axes[q.half] /\ q.span = span
  <2> TAKE q \in wanted
  <2>1. PICK h \in Halves :
          q = [half |-> h, plot |-> axes[h], span |-> span, picture |-> 1, n |-> 1]
    BY <1>1
  <2>2. axes[h] \in Plots /\ span \in Spans
    BY <1>1
  <2>3. q.picture = 1 /\ q.n = 1 /\ q.half = h /\ q.plot = axes[h] /\ q.span = span
    BY <2>1
  <2> QED
    BY <2>1, <2>2, <2>3 DEF Drawing
<1>3. \A h \in Halves : \E q \in wanted : q.half = h /\ q.n = drawings
  <2> TAKE h \in Halves
  <2> DEFINE q == [half |-> h, plot |-> axes[h], span |-> span, picture |-> 1, n |-> 1]
  <2>1. q \in wanted /\ q.half = h /\ q.n = 1
    BY <1>1
  <2> QED
    BY <1>1, <2>1
<1>4. DrawTypes
  <2>1. MaxPictures \in Nat \ {0}
    BY WidgetAssumption
  <2>2. wanted \in SUBSET Drawing
    BY <1>2
  <2>3. /\ newest \in [Halves -> Nat] /\ stored \in [Halves -> {Nothing} \cup Data]
        /\ axes \in [Halves -> Plots \cup {Skipped}]
    BY <1>1
  <2>4. curves \in SUBSET Curve /\ OneCurve(curves)
    BY <1>1 DEF OneCurve
  <2>5. picture \in 1 .. MaxPictures /\ drawings \in Nat
    BY <1>1, <2>1
  <2> QED
    BY <1>1, <2>2, <2>3, <2>4, <2>5 DEF DrawTypes
<1>5. \A h \in Halves : newest[h] = 0 /\ 0 =< drawings /\ 0 # drawings
  BY <1>1
<1>6. WantedInv
  BY <1>1, <1>2, <1>5 DEF WantedInv
<1>7. LatestComes
  BY <1>3 DEF LatestComes
<1>8. \A h \in Halves : ~Settled(h)
  BY <1>5 DEF Settled
<1>9. SettledIsStored /\ SettledIsDrawn /\ NoStrayCurve
  BY <1>1, <1>8 DEF SettledIsStored, SettledIsDrawn, NoStrayCurve
<1> QED
  BY <1>4, <1>6, <1>7, <1>9 DEF DrawInv

\* Every call of the widget keeps the invariant.
LEMMA DrawInvStep == DrawInv /\ [DrawNext]_drawVars => DrawInv'
<1> SUFFICES ASSUME DrawInv, [DrawNext]_drawVars PROVE DrawInv'
  OBVIOUS
<1>1. ASSUME NEW s \in Spans, Shifted(s) PROVE DrawInv'
  BY <1>1, ShiftedKeepsDraw
<1>2. ASSUME NEW s \in Spans, RangeSet(s) PROVE DrawInv'
  BY <1>2, RangeSetKeeps
<1>3. ASSUME NEW h \in Halves, NEW a \in Plots \cup {Skipped}, AxisChanged(h, a) PROVE DrawInv'
  BY <1>3, AxisChangedKeeps
<1>4. ASSUME NEW q \in wanted, DataArrives(q) PROVE DrawInv'
  BY <1>4, ArrivalKeeps
<1>5. CASE UNCHANGED drawVars
  BY <1>5 DEF drawVars, DrawInv, DrawTypes, WantedInv, LatestComes, Settled, SettledIsStored,
     SettledIsDrawn, NoStrayCurve
<1> QED
  BY <1>1, <1>2, <1>3, <1>4, <1>5 DEF DrawNext

\* When nothing is on its way and nothing was overtaken, every axis is settled.
LEMMA CurvesFollow == DrawInv => CurvesAreAsked
<1> SUFFICES ASSUME DrawInv PROVE CurvesAreAsked
  OBVIOUS
<1>1. ~leftover => \A c \in curves : c.plot = axes[c.half]
  BY DEF DrawInv, NoStrayCurve
<1>2. ASSUME wanted = {}, overtaken = {}, ~leftover, NEW h \in Halves, axes[h] # Skipped
      PROVE  \E c \in curves : c.plot = axes[h] /\ c.span = asked
  <2>1. \A g \in Halves : axes[g] # Skipped => Settled(g)
    BY <1>2 DEF DrawInv, LatestComes, Settled
  <2>2. axes[h] \in Plots /\ Skipped \notin Plots
    BY <1>2, WidgetAssumption DEF DrawInv, DrawTypes
  <2> QED
    BY <1>2, <2>1, <2>2 DEF DrawInv, SettledIsDrawn
<1> QED
  BY <1>1, <1>2 DEF CurvesAreAsked

\* Whatever the order in which the data comes, no curve is of an axis given up, and once
\* all has come each axis has its curve over the range last asked for
\* (dashboard.ts, widget.ts).
THEOREM CurvesStayAsked == DrawSpec => []CurvesAreAsked
<1> QED
  BY DrawInvInit, DrawInvStep, CurvesFollow, PTL DEF DrawSpec

\* The types of the widget's drawing; in particular no two curves are of one kind of data.
THEOREM DrawingsStayTyped == DrawSpec => []DrawTypeOK
<1>1. DrawInv => DrawTypeOK
  BY DEF DrawInv, DrawTypes, WantedInv, DrawTypeOK, OneCurve, Data
<1> QED
  BY DrawInvInit, DrawInvStep, <1>1, PTL DEF DrawSpec
==============================================================================

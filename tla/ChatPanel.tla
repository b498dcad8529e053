------------------------------ MODULE ChatPanel ------------------------------
(***************************************************************************)
(* The chat panel of daisen's page (chatpanel.ts), whole: its              *)
(* conversations, what it attaches to a question and the period of the     *)
(* trace.  _showChatPanel and sendMessage act on all three; every other    *)
(* handler acts on one.                                                    *)
(***************************************************************************)
EXTENDS ChatHistory, ChatAttachments, ChatPeriod

chatVars == <<talkVars, attachVars, periodVars>>

ChatInit == TalkInit /\ AttachInit /\ PeriodInit

\* The rest of _showChatPanel: every control but the messages.
renderControls == renderAttachments /\ renderPeriod

\* The rest of sendMessage, once the question is on its way.
clearControls == clearAttachments /\ resetPeriod

TalkOnly == UNCHANGED <<attachVars, periodVars>>
AttachOnly == UNCHANGED <<talkVars, periodVars>>
PeriodOnly == UNCHANGED <<talkVars, attachVars>>

(***************************************************************************)
(* Handlers that render the panel                                          *)
(***************************************************************************)
ShowChatPanel == OpenChat /\ renderControls
SelectChat(c) == ChatSelected(c) /\ renderControls
DeleteChat == DeleteClicked /\ renderControls
NewChat == NewClicked /\ renderControls

(***************************************************************************)
(* Sending and its answers                                                 *)
(***************************************************************************)
SendMessage == QuestionSent /\ clearControls
SendTest(kind) == TestClicked(kind) /\ clearControls
Answer == \E p \in pending : AnswerArrives(p) /\ TalkOnly
Fail == \E p \in pending : CallFails(p) /\ TalkOnly

\* Closing removes the panel, not its fields.
HidePanel == CloseChat /\ TalkOnly

Typing ==
  /\ \/ \E text \in {Blank, Typed} : KeyPressed(text)
     \/ ArrowPressed(Older(nav, Len(currentChatUserMessages)))
     \/ ArrowPressed(Newer(nav, Len(currentChatUserMessages)))
  /\ TalkOnly

Talking ==
  \/ ShowChatPanel \/ HidePanel \/ DeleteChat \/ NewChat
  \/ \E c \in 1 .. MaxChats : SelectChat(c)
  \/ Typing \/ SendMessage \/ Answer \/ Fail
  \/ \E kind \in {"graph", "subpage"} : SendTest(kind)

(***************************************************************************)
(* Attachments                                                             *)
(***************************************************************************)
Uploading ==
  /\ \/ open /\ \E k \in FileKinds : FileChosen(k)
     \/ \E k \in FileKinds : FileRead(k)
     \/ open /\ \E i \in ToSet(listed) : FileRemoved(i)
  /\ AttachOnly

TickingTrace ==
  /\ open
  /\ (\E n \in Names : TraceTicked(n)) \/ SelectCurrent \/ SelectAll \/ DeselectAll
  /\ AttachOnly

TickingRepo ==
  /\ open
  /\ (\E k \in Keys : RepoTicked(k)) \/ RepoSelectAll \/ RepoDeselectAll \/ RepoToggled
  /\ AttachOnly

TraceButton == open /\ TraceToggled /\ rereadRange /\ UNCHANGED talkVars

Surroundings ==
  /\ \/ \E c \in SUBSET Names : PageTurns(c)
     \/ \E a \in {"available", "unavailable"} : GithubAnswers(a)
  /\ AttachOnly

Attaching == Uploading \/ TickingTrace \/ TickingRepo \/ TraceButton \/ Surroundings

(***************************************************************************)
(* The period                                                              *)
(***************************************************************************)
ChoosingPeriod ==
  /\ \/ open /\ traceDiv /\ (resetPeriod \/ UnitSwitched)
     \/ /\ open /\ traceDiv
        /\ \E t \in Times : StartDragged(t) \/ EndDragged(t) \/ StartTyped(t) \/ EndTyped(t)
     \/ \E r \in Ranges : PageZoomed(r)
  /\ PeriodOnly

ChatNext == Talking \/ Attaching \/ ChoosingPeriod

ChatSpec == ChatInit /\ [][ChatNext]_chatVars

-----------------------------------------------------------------------------
ChatTypeOK == TalkTypeOK /\ AttachTypeOK /\ PeriodTypeOK
==============================================================================

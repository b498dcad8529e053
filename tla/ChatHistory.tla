---------------------------- MODULE ChatHistory ----------------------------
(***************************************************************************)
(* The conversations of the chat panel of daisen's page (chatpanel.ts):    *)
(* the chats kept, the one the panel shows, the questions sent to the      *)
(* model and their answers.                                                *)
(*                                                                         *)
(* The panel's closures push to the array of messages they captured when   *)
(* the panel was rendered, so arrays have an identity here: "lists" is the *)
(* heap and the other variables hold addresses in it.  An array nobody     *)
(* refers to any more is emptied, for the addresses to be used again.      *)
(*                                                                         *)
(* A message is who said it and the number of the question it is about.    *)
(* The system messages, which carry the page's address to the model, are   *)
(* pushed together with a question and never displayed: they are left out. *)
(***************************************************************************)
EXTENDS Integers, Sequences, SequencesExt, FiniteSets, Filtering

CONSTANTS
  MaxChats,      \* bound: chats ever created
  MaxQuestions,  \* bound: questions ever sent
  MaxPending     \* bound: questions without an answer

ASSUME ChatAssumption == {MaxChats, MaxQuestions, MaxPending} \subseteq Nat \ {0}

VARIABLES
  chatHistory,    \* _chatHistory, in the order of the timestamps
  currentChatId, chatIdCounter,
  lists,          \* the arrays of messages
  chatMessages,   \* _chatMessages: the address of an array
  open,           \* the panel is on the page
  view,           \* the array captured by the last _showChatPanel, 0: none
  shown,          \* messagesDiv
  disabled,       \* sendBtn.disabled and input.disabled
  nav,            \* _messageNavigationIndex
  input,          \* the text area
  pending,        \* the calls of sendPostGPT that have not returned
  home, strayed, unshown    \* history

talkVars == <<chatHistory, currentChatId, chatIdCounter, lists, chatMessages,
              open, view, shown, disabled, nav, input, pending, home, strayed,
              unshown>>

Lists == 1 .. MaxPending + 2
NoList == 0
\* The text area: nothing, something typed, or a question recalled.
Blank == 0
Typed == -1

Said(role, q) == [role |-> role, about |-> q]
greeting == Said("assistant", 0)
Questions == {Said("user", q) : q \in 1 .. MaxQuestions}
UserMessages(ms) == Filter(ms, Questions)
HasUserMessages(ms) == UserMessages(ms) # <<>>

\* Arrays that calls on their way still hold.
Held == {p.list : p \in pending}
Fresh(live) == CHOOSE l \in Lists : l \notin live
Kept(heap, live) == [l \in Lists |-> IF l \in live THEN heap[l] ELSE <<>>]

Chat(h, c) == h[CHOOSE i \in DOMAIN h : h[i].id = c]
Known(h, c) == \E i \in DOMAIN h : h[i].id = c
Without(h, c) == Filter(h, {x \in ToSet(h) : x.id # c})

\* _saveChatToHistory: the messages are copied, the timestamp is the latest.
saveChatToHistory(h, c, ms) ==
  IF Known(h, c) THEN Append(Without(h, c), [id |-> c, messages |-> ms]) ELSE h

\* _createNewChat takes its timestamp before it saves the chat it leaves.
createNewChat(h, c, ms) ==
  LET new == [id |-> chatIdCounter + 1, messages |-> <<greeting>>]
  IN IF HasUserMessages(ms) /\ Known(h, c)
       THEN saveChatToHistory(Append(h, new), c, ms)
       ELSE Append(h, new)

\* The constructor creates the first chat; nothing is on the page yet.
TalkInit ==
  /\ chatIdCounter = 1 /\ currentChatId = 1
  /\ chatHistory = <<[id |-> 1, messages |-> <<greeting>>]>>
  /\ chatMessages = 1 /\ lists = Kept([l \in Lists |-> <<greeting>>], {1})
  /\ open = FALSE /\ view = NoList /\ shown = <<>> /\ disabled = FALSE
  /\ nav = -1 /\ input = Blank
  /\ pending = {} /\ home = <<>> /\ strayed = FALSE /\ unshown = FALSE

\* _showChatPanel: controls and closures are made anew over _chatMessages;
\* the placeholders of calls on their way belong to the old panel.
showMessages(list, ms) ==
  /\ open' = TRUE /\ view' = list /\ shown' = ms
  /\ disabled' = FALSE /\ nav' = -1 /\ input' = Blank
  /\ pending' = {[p EXCEPT !.here = FALSE] : p \in pending}
  /\ unshown' = FALSE

\* The chat button, visible while the panel is not.
OpenChat ==
  /\ ~open
  /\ showMessages(chatMessages, lists[chatMessages])
  /\ UNCHANGED <<chatHistory, currentChatId, chatIdCounter, lists, chatMessages, home, strayed>>

\* Mutant: the panel goes and its messages stay captured.
CloseOutOfSight ==
  /\ open /\ open' = FALSE /\ shown' = <<>> /\ disabled' = FALSE
  /\ nav' = -1 /\ input' = Blank /\ unshown' = FALSE
  /\ pending' = {[p EXCEPT !.here = FALSE] : p \in pending}
  /\ UNCHANGED <<chatHistory, currentChatId, chatIdCounter, lists, chatMessages, view, home,
                 strayed>>

\* The triangle on the panel's edge.
CloseChat ==
  /\ open
  /\ open' = FALSE /\ view' = NoList /\ shown' = <<>> /\ disabled' = FALSE
  /\ nav' = -1 /\ input' = Blank /\ unshown' = FALSE
  /\ pending' = {[p EXCEPT !.here = FALSE] : p \in pending}
  /\ lists' = Kept(lists, Held \cup {chatMessages})
  /\ UNCHANGED <<chatHistory, currentChatId, chatIdCounter, chatMessages, home,
                 strayed>>

\* _chatMessages becomes a copy of chat c of history h, and is rendered.
Switch(h, c) ==
  LET l == Fresh(Held) ms == Chat(h, c).messages
  IN /\ chatHistory' = h /\ currentChatId' = c /\ chatMessages' = l
     /\ lists' = [Kept(lists, Held) EXCEPT ![l] = ms]
     /\ showMessages(l, ms)
     /\ UNCHANGED <<home, strayed>>

\* Mutant: the current chat changes before it is saved.
LoadThenSave(h, c) == Switch(saveChatToHistory(h, c, lists[chatMessages]), c)

\* _loadChat saves the chat it leaves.
loadChat(h, c) ==
  Switch(saveChatToHistory(h, currentChatId, lists[chatMessages]), c)

ChatSelected(c) ==
  /\ open /\ c # currentChatId /\ Known(chatHistory, c)
  /\ loadChat(chatHistory, c)
  /\ UNCHANGED chatIdCounter

\* _deleteChat of the chat shown: the most recent of the others is loaded.
DeleteClicked ==
  LET rest == Without(chatHistory, currentChatId)
  IN /\ open
     /\ IF rest # <<>>
          THEN loadChat(rest, Last(rest).id) /\ UNCHANGED chatIdCounter
          ELSE /\ chatIdCounter < MaxChats
               /\ chatIdCounter' = chatIdCounter + 1
               /\ Switch(createNewChat(rest, currentChatId, lists[chatMessages]),
                         chatIdCounter + 1)

\* A chat without questions is new already.
NewClicked ==
  /\ open /\ chatIdCounter < MaxChats
  /\ HasUserMessages(lists[chatMessages])
  /\ chatIdCounter' = chatIdCounter + 1
  /\ Switch(createNewChat(chatHistory, currentChatId, lists[chatMessages]),
            chatIdCounter + 1)

\* A key other than an arrow: the text changes, the navigation starts anew.
KeyPressed(text) ==
  /\ open /\ ~disabled
  /\ input' = text /\ nav' = -1
  /\ UNCHANGED <<chatHistory, currentChatId, chatIdCounter, lists, chatMessages, open,
                 view, shown, disabled, pending, home, strayed, unshown>>

\* _getCurrentChatUserMessages reads the saved chat.
currentChatUserMessages ==
  IF Known(chatHistory, currentChatId)
    THEN UserMessages(Chat(chatHistory, currentChatId).messages) ELSE <<>>

\* Mutant: one past the most recent message.
OlderFromEnd(n, len) == IF n = -1 THEN len ELSE IF n > 0 THEN n - 1 ELSE n

\* _navigateMessageHistory: indices count from 0.
Older(n, len) == IF n = -1 THEN len - 1 ELSE IF n > 0 THEN n - 1 ELSE n
Newer(n, len) == IF n # -1 /\ n + 1 < len THEN n + 1 ELSE -1

\* An arrow key moves to the question with index n.
ArrowPressed(n) ==
  LET past == currentChatUserMessages
  IN /\ open /\ ~disabled /\ past # <<>>
     /\ nav' = n
     /\ input' = IF n = -1
                   THEN IF nav = -1 THEN input ELSE Blank
                   ELSE IF n < Len(past) THEN past[n + 1].about ELSE input
     /\ UNCHANGED <<chatHistory, currentChatId, chatIdCounter, lists, chatMessages, open,
                    view, shown, disabled, pending, home, strayed, unshown>>

\* Mutant: the array is pushed to and the chat is not saved.
PushUnsaved(list, said, live) ==
  /\ chatMessages' = list
  /\ lists' = Kept([lists EXCEPT ![list] = @ \o said], live \cup {list, view})
  /\ UNCHANGED chatHistory

\* messages.push, _chatMessages = messages, _saveChatToHistory: the array is
\* the caller's, the chat it is saved in is the current one.
Push(list, said, live) ==
  LET heap == [lists EXCEPT ![list] = @ \o said]
  IN /\ chatMessages' = list
     /\ lists' = Kept(heap, live \cup {list, view})
     /\ chatHistory' = saveChatToHistory(chatHistory, currentChatId, heap[list])

\* sendMessage, up to the call of sendPostGPT.
QuestionSent ==
  LET q == Len(home) + 1
  IN /\ open /\ ~disabled /\ input # Blank
     /\ q =< MaxQuestions /\ Cardinality(pending) < MaxPending
     /\ home' = Append(home, currentChatId)
     /\ Push(view, <<Said("user", q)>>, Held)
     /\ pending' = pending \cup {[about |-> q, list |-> view, here |-> TRUE]}
     /\ shown' = shown \o <<Said("user", q), Said("thinking", q)>>
     /\ disabled' = TRUE /\ input' = Blank
     /\ UNCHANGED <<currentChatId, chatIdCounter, open, view, nav, strayed, unshown>>

\* The two test buttons send a prompt whose answer is at hand: its awaits
\* run before any other event.  They do not ask whether sending is disabled.
Canned(kind, q) ==
  IF kind = "graph" THEN <<Said("user", q), Said("assistant", q)>>
  ELSE <<Said("user", q), Said("assistant", q), Said("user", q), Said("assistant", q)>>

TestClicked(kind) ==
  LET q == Len(home) + 1
  IN /\ open /\ q =< MaxQuestions
     /\ home' = Append(home, currentChatId)
     /\ Push(view, Canned(kind, q), Held)
     /\ shown' = shown \o Canned(kind, q)
     /\ disabled' = FALSE /\ input' = Blank
     /\ UNCHANGED <<currentChatId, chatIdCounter, open, view, nav, pending, strayed,
                    unshown>>

\* The placeholder of the question becomes its answer.
ShowAnswer(p) ==
  IF p.here
    THEN [i \in DOMAIN shown |->
            IF shown[i] = Said("thinking", p.about) THEN Said("assistant", p.about)
            ELSE shown[i]]
    ELSE shown

\* sendPostGPT returns, whatever the status of the response.
AnswerArrives(p) ==
  /\ pending' = pending \ {p}
  /\ Push(p.list, <<Said("assistant", p.about)>>, {x.list : x \in pending \ {p}})
  /\ shown' = ShowAnswer(p)
  /\ disabled' = (disabled /\ ~p.here)
  /\ strayed' = (strayed \/ p.list # chatMessages)
  /\ unshown' = (unshown \/ (~p.here /\ p.list = view))
  /\ UNCHANGED <<currentChatId, chatIdCounter, open, view, nav, input, home>>

\* The fetch fails: nothing catches the error, sending stays disabled.
CallFails(p) ==
  /\ pending' = pending \ {p}
  /\ lists' = Kept(lists, {x.list : x \in pending'} \cup {view, chatMessages})
  /\ UNCHANGED <<chatHistory, currentChatId, chatIdCounter, chatMessages, open, view,
                 shown, disabled, nav, input, home, strayed, unshown>>

-----------------------------------------------------------------------------
Messages ==
  {greeting} \cup
  {Said(r, q) : r \in {"user", "assistant", "thinking"}, q \in 1 .. MaxQuestions}

TalkTypeOK ==
  /\ \A i \in DOMAIN chatHistory :
       /\ chatHistory[i].id \in 1 .. chatIdCounter
       /\ ToSet(chatHistory[i].messages) \subseteq Messages
  /\ currentChatId \in 1 .. chatIdCounter /\ chatIdCounter \in 1 .. MaxChats
  /\ chatMessages \in Lists /\ view \in Lists \cup {NoList} /\ open = (view # NoList)
  /\ \A l \in Lists : ToSet(lists[l]) \subseteq Messages
  /\ ToSet(shown) \subseteq Messages
  /\ input \in {Blank, Typed} \cup 1 .. MaxQuestions
  /\ nav \in -1 .. 2 * MaxQuestions
  /\ pending \subseteq [about : 1 .. MaxQuestions, list : Lists, here : BOOLEAN]
  /\ {disabled, strayed, unshown} \subseteq BOOLEAN
  /\ home \in Seq(1 .. chatIdCounter)

\* Chats do not mix: as long as no answer has come after its chat was left,
\* every chat holds only what was asked in it and the answers to that, and the
\* panel works on the array of the current chat.
AnswersAtHome ==
  ~strayed =>
    /\ \A i \in DOMAIN chatHistory : \A m \in ToSet(chatHistory[i].messages) :
         m.about # 0 => home[m.about] = chatHistory[i].id
    /\ open => view = chatMessages

\* Nothing of the current chat is only in memory: the saved copy always equals
\* the array the panel goes on with.
CurrentIsSaved ==
  /\ Known(chatHistory, currentChatId)
  /\ Chat(chatHistory, currentChatId).messages = lists[chatMessages]

\* A chat is never mixed with another, and never only in memory.
ChatsKept == AnswersAtHome /\ CurrentIsSaved

\* The panel shows what its array holds, unless an answer came to an array
\* whose panel had been closed and opened in between; and what the arrow keys
\* recall is a question of the current chat.
ShownIsSaid ==
  open =>
    /\ ~unshown =>
         {m \in ToSet(shown) : m.role # "thinking"} = ToSet(lists[view])
    /\ ~strayed =>
         /\ nav < Len(currentChatUserMessages)
         /\ input \in {Blank, Typed} \/ home[input] = currentChatId

\* Nothing said in a chat is unsaid: until an answer comes too late, a step
\* keeps what the chats that remain already hold, in its order.
NothingUnsaid ==
  [][~strayed' =>
       \A i \in DOMAIN chatHistory :
         LET c == chatHistory[i].id
         IN Known(chatHistory', c) =>
              IsPrefix(chatHistory[i].messages, Chat(chatHistory', c).messages)
    ]_talkVars
==============================================================================

-------------------------- MODULE ChatAttachments --------------------------
(***************************************************************************)
(* What the chat panel of daisen's page (chatpanel.ts) sends along with a  *)
(* question: uploaded files, the components whose trace is attached and    *)
(* the parts of the repository attached, each with the floating window it  *)
(* is ticked in and the bubble that counts it.                             *)
(*                                                                         *)
(* The fields of the panel outlive a rendering, the controls do not: each  *)
(* handler here states what becomes of both.                               *)
(***************************************************************************)
EXTENDS Integers, Sequences, SequencesExt, FiniteSets, Filtering

CONSTANTS
  Names,        \* the components of the trace
  Keys,         \* routine_keys: the parts of the repository
  MaxFiles,     \* bound: files attached between two questions
  MaxReading    \* bound: files being read, of one kind

ASSUME AttachmentAssumption ==
  /\ IsFiniteSet(Names) /\ IsFiniteSet(Keys)
  /\ {MaxFiles, MaxReading} \subseteq Nat

VARIABLES
  files,           \* _uploadedFiles
  fileIdCounter,   \* _fileIdCounter
  reading,         \* the files a FileReader is at
  listed,          \* _fileListRow: the ids of the rows
  fileBubbles,     \* the bubbles of the three upload buttons
  all, current,    \* what the page tells _setTraceComponentNames
  rows,            \* uploadTraceRows of the last _showChatPanel
  region,          \* the rows in the window: the keys of UploadTraceCheckboxMap
  currentRows,     \* what "Select Current" selects
  traceChecks,     \* the keys that are true in _uploadTraceChecks
  traceBoxes,      \* the boxes that are ticked
  traceBubble,
  github,          \* _githubIsAvailableResponse
  repoRows,        \* attachRepoRows
  repoChecks, repoBoxes, repoBubble,
  secondBubble,    \* the second bubble on attachRepoBtn, "bubble-upload-trace"
  traceVisible, repoVisible,    \* _uploadTraceVisible, _attachRepoVisible
  traceDiv, repoDiv,            \* the windows are displayed
  counted, toggled              \* history: since the last rendering

fileVars  == <<files, fileIdCounter, reading, listed, fileBubbles>>
pageVars  == <<all, current>>
traceVars == <<rows, region, currentRows, traceChecks, traceBoxes, traceBubble, counted>>
repoVars  == <<repoRows, repoChecks, repoBoxes, repoBubble, secondBubble>>
windows   == <<traceVisible, repoVisible, traceDiv, repoDiv, toggled>>
attachVars == <<fileVars, pageVars, traceVars, github, repoVars, windows>>

FileKinds == {"file", "image", "image-screenshot"}
NoFiles == [k \in FileKinds |-> 0]
Ids(fs) == [i \in DOMAIN fs |-> fs[i].id]
CountOf(fs) == [k \in FileKinds |-> Len(Filter(fs, {f \in ToSet(fs) : f.kind = k}))]

AttachInit ==
  /\ files = <<>> /\ fileIdCounter = 0 /\ reading = NoFiles
  /\ listed = <<>> /\ fileBubbles = NoFiles
  /\ all = {} /\ current = {}
  /\ rows = {} /\ region = {} /\ currentRows = {}
  /\ traceChecks = {} /\ traceBoxes = {} /\ traceBubble = 0
  /\ github = "asked" /\ repoRows = {}
  /\ repoChecks = {} /\ repoBoxes = {} /\ repoBubble = 0 /\ secondBubble = 0
  /\ traceVisible = FALSE /\ repoVisible = FALSE
  /\ traceDiv = FALSE /\ repoDiv = FALSE
  /\ counted = FALSE /\ toggled = FALSE

(***************************************************************************)
(* Files                                                                   *)
(***************************************************************************)
\* renderFileList: a row per file, a bubble per kind.
renderFileList(fs) ==
  /\ files' = fs /\ listed' = Ids(fs) /\ fileBubbles' = CountOf(fs)

\* A file of an allowed type and size is chosen, or a screenshot taken; the
\* others raise an alert.
FileChosen(k) ==
  /\ reading[k] < MaxReading
  /\ reading' = [reading EXCEPT ![k] = @ + 1]
  /\ UNCHANGED <<files, fileIdCounter, listed, fileBubbles, pageVars, traceVars,
                 github, repoVars, windows>>

\* reader.onload.
FileRead(k) ==
  /\ reading[k] > 0 /\ fileIdCounter < MaxFiles
  /\ reading' = [reading EXCEPT ![k] = @ - 1]
  /\ fileIdCounter' = fileIdCounter + 1
  /\ renderFileList(Append(files, [id |-> fileIdCounter + 1, kind |-> k]))
  /\ UNCHANGED <<pageVars, traceVars, github, repoVars, windows>>

\* The x of a row.
FileRemoved(i) ==
  /\ i \in ToSet(listed)
  /\ renderFileList(Filter(files, {f \in ToSet(files) : f.id # i}))
  /\ UNCHANGED <<fileIdCounter, reading, pageVars, traceVars, github, repoVars, windows>>

(***************************************************************************)
(* The page the panel belongs to                                           *)
(***************************************************************************)
\* The dashboard gets the names of the components, then turns its pages.
PageTurns(c) ==
  /\ all' = Names /\ current' = c /\ pageVars' # pageVars
  /\ UNCHANGED <<fileVars, traceVars, github, repoVars, windows>>

\* sendGetGitHubIsAvailable, asked for by the constructor.
GithubAnswers(answer) ==
  /\ github = "asked" /\ github' = answer
  /\ UNCHANGED <<fileVars, pageVars, traceVars, repoVars, windows>>

(***************************************************************************)
(* The trace's window                                                      *)
(***************************************************************************)
\* _renderBubble(uploadTraceBtn, n, ...).
CountTrace(n) == traceBubble' = n /\ counted' = TRUE

\* A box or its label is clicked.
TraceTicked(n) ==
  LET checks == IF n \in traceBoxes THEN traceChecks \ {n} ELSE traceChecks \cup {n}
  IN /\ traceDiv /\ n \in region
     /\ traceBoxes' = IF n \in traceBoxes THEN traceBoxes \ {n} ELSE traceBoxes \cup {n}
     /\ traceChecks' = checks
     /\ CountTrace(Cardinality(checks))
     /\ UNCHANGED <<rows, region, currentRows, fileVars, pageVars, github, repoVars,
                    windows>>

SelectCurrent ==
  /\ traceDiv
  /\ traceChecks' = traceChecks \cup currentRows
  /\ traceBoxes' = traceBoxes \cup (currentRows \cap region)
  /\ CountTrace(Cardinality(traceChecks'))
  /\ UNCHANGED <<rows, region, currentRows, fileVars, pageVars, github, repoVars, windows>>

\* "Select All" and "Deselect All" still go by the rows of the rendering.
SelectAll ==
  /\ traceDiv
  /\ traceChecks' = traceChecks \cup rows
  /\ traceBoxes' = traceBoxes \cup rows
  /\ CountTrace(Cardinality(rows))
  /\ UNCHANGED <<rows, region, currentRows, fileVars, pageVars, github, repoVars, windows>>

DeselectAll ==
  /\ traceDiv
  /\ traceChecks' = traceChecks \ rows
  /\ traceBoxes' = traceBoxes \ rows
  /\ CountTrace(0)
  /\ UNCHANGED <<rows, region, currentRows, fileVars, pageVars, github, repoVars, windows>>

\* Mutant: the repository's window stays.
ShowTraceAlone == UNCHANGED <<repoVisible, repoDiv>>

\* One window at a time.
HideRepo ==
  IF traceVisible' /\ repoVisible
    THEN repoVisible' = FALSE /\ repoDiv' = FALSE
    ELSE UNCHANGED <<repoVisible, repoDiv>>

\* uploadTraceBtn: the names are read again and the rows rebuilt, whether the
\* window opens or closes.
TraceToggled ==
  /\ currentRows' = all \cap current /\ region' = all
  /\ traceBoxes' = traceChecks \cap all
  /\ traceVisible' = ~traceVisible /\ traceDiv' = traceVisible' /\ toggled' = TRUE
  /\ HideRepo
  /\ UNCHANGED <<rows, traceChecks, traceBubble, counted, fileVars, pageVars, github,
                 repoVars>>

(***************************************************************************)
(* The repository's window                                                 *)
(***************************************************************************)
RepoTicked(k) ==
  LET checks == IF k \in repoBoxes THEN repoChecks \ {k} ELSE repoChecks \cup {k}
  IN /\ repoDiv /\ k \in repoRows
     /\ repoBoxes' = IF k \in repoBoxes THEN repoBoxes \ {k} ELSE repoBoxes \cup {k}
     /\ repoChecks' = checks /\ repoBubble' = Cardinality(checks)
     /\ UNCHANGED <<repoRows, secondBubble, fileVars, pageVars, traceVars, github, windows>>

RepoSelectAll ==
  /\ repoDiv
  /\ repoChecks' = repoChecks \cup repoRows /\ repoBoxes' = repoRows
  /\ repoBubble' = Cardinality(repoRows)
  /\ UNCHANGED <<repoRows, secondBubble, fileVars, pageVars, traceVars, github, windows>>

RepoDeselectAll ==
  /\ repoDiv
  /\ repoChecks' = repoChecks \ repoRows /\ repoBoxes' = {} /\ repoBubble' = 0
  /\ UNCHANGED <<repoRows, secondBubble, fileVars, pageVars, traceVars, github, windows>>

\* attachRepoBtn is disabled without rows to show.
RepoToggled ==
  /\ repoRows # {}
  /\ repoVisible' = ~repoVisible /\ repoDiv' = repoVisible' /\ toggled' = TRUE
  /\ IF repoVisible' /\ traceVisible
       THEN traceVisible' = FALSE /\ traceDiv' = FALSE
       ELSE UNCHANGED <<traceVisible, traceDiv>>
  /\ UNCHANGED <<fileVars, pageVars, traceVars, github, repoVars>>

\* Two bubbles in one place: the second lies on top, and is hidden at 0.
RepoButtonShows == IF secondBubble > 0 THEN secondBubble ELSE repoBubble

(***************************************************************************)
(* What the panel's other handlers do to the attachments                   *)
(***************************************************************************)
\* The bubbles that _showChatPanel renders at its end: the first counts the
\* files of every kind, and what is called the initial one of the trace's button
\* is put on that of the repository, and counts the repository.
initialBubbles ==
  /\ fileBubbles' = [NoFiles EXCEPT !["file"] = Len(files)]
  /\ repoBubble' = Cardinality(repoChecks)
  /\ secondBubble' = Cardinality(repoChecks)
  /\ traceBubble' = 0 /\ counted' = FALSE

\* _showChatPanel: new controls over the old fields.  The list of files is
\* empty and the window of neither kind is displayed until something changes.
renderAttachments ==
  /\ listed' = <<>> /\ initialBubbles
  /\ rows' = all /\ region' = all /\ currentRows' = all \cap current
  /\ traceBoxes' = traceChecks \cap all
  /\ repoRows' = IF github = "available" THEN Keys ELSE {}
  /\ repoBoxes' = repoChecks \cap repoRows'
  /\ traceDiv' = FALSE /\ repoDiv' = FALSE /\ toggled' = FALSE
  /\ UNCHANGED <<files, fileIdCounter, reading, pageVars, traceChecks, github, repoChecks,
                 traceVisible, repoVisible>>

\* What a question takes along of the trace.
SelectedComponents == rows \cap traceBoxes

\* sendMessage, after the call.
clearAttachments ==
  /\ renderFileList(<<>>) /\ fileIdCounter' = 0
  /\ repoChecks' = {} /\ repoBoxes' = {} /\ repoBubble' = 0
  /\ repoVisible' = FALSE /\ repoDiv' = FALSE
  /\ traceChecks' = {} /\ traceBoxes' = traceBoxes \ traceChecks /\ CountTrace(0)
  /\ traceVisible' = FALSE /\ traceDiv' = FALSE /\ toggled' = TRUE
  /\ UNCHANGED <<reading, pageVars, rows, region, currentRows, github, repoRows, secondBubble>>

-----------------------------------------------------------------------------
AttachTypeOK ==
  /\ fileIdCounter \in Nat /\ reading \in [FileKinds -> 0 .. MaxReading]
  /\ \A i \in DOMAIN files : files[i].id \in 1 .. fileIdCounter
  /\ fileBubbles \in [FileKinds -> 0 .. MaxFiles]
  /\ {all, current, rows, region, currentRows, traceChecks, traceBoxes} \subseteq SUBSET Names
  /\ github \in {"asked", "available", "unavailable"}
  /\ {repoRows, repoChecks, repoBoxes} \subseteq SUBSET Keys
  /\ {traceBubble, repoBubble, secondBubble} \subseteq Nat
  /\ {traceVisible, repoVisible, traceDiv, repoDiv, counted, toggled} \subseteq BOOLEAN

\* A file has an id of its own although the numbering starts anew with every
\* question; once the list shows rows, it shows the files there are, and the
\* bubbles count them.
FilesAgree ==
  /\ \A i, j \in DOMAIN files : files[i].id = files[j].id => i = j
  /\ listed # <<>> => listed = Ids(files) /\ fileBubbles = CountOf(files)

\* The boxes show what is ticked; if the page's names have not changed since
\* the panel was rendered, what is ticked is what a question takes along and,
\* once something was counted, what the bubble says.  The bubble of the
\* repository counts what is ticked there; and so does what is seen, unless
\* something was ticked at the rendering and another number is now: the second
\* bubble then covers it, and stays as it was.
TicksAgree ==
  /\ traceBoxes = traceChecks \cap region
  /\ rows = region => SelectedComponents = traceChecks
  /\ rows = region /\ counted => traceBubble = Cardinality(traceChecks)
  /\ repoBoxes = repoChecks \cap repoRows
  /\ repoBubble = Cardinality(repoChecks)
  /\ secondBubble \in {0, Cardinality(repoChecks)} =>
       RepoButtonShows = Cardinality(repoChecks)

\* The two windows are never both there, whatever is clicked; after the first
\* click on either button they are where their flags say.
OneWindow ==
  /\ ~(traceVisible /\ repoVisible) /\ ~(traceDiv /\ repoDiv)
  /\ traceDiv => traceVisible
  /\ repoDiv => repoVisible
  /\ toggled => traceDiv = traceVisible /\ repoDiv = repoVisible

AttachmentsAgree == FilesAgree /\ TicksAgree /\ OneWindow
==============================================================================

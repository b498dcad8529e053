-------------------------- MODULE VictimHierarchy --------------------------
(***************************************************************************)
(* The victim cache between its two neighbours, as main.go wires them.     *)
(*                                                                         *)
(* Above is the write-back L1, seen from its bottom port: it fetches lines *)
(* it lacks, writes the lines it holds, sends the dirty lines it replaces  *)
(* down, forgets the clean ones without a message, and serves a miss on a  *)
(* line whose eviction is not acknowledged yet from its own write buffer.  *)
(* Below is the ideal memory controller, which serves requests in order    *)
(* while its outgoing buffer has room (the L1 keeps at most a handful of   *)
(* requests open, fewer than the 16 slots of that buffer).                 *)
(*                                                                         *)
(* The contents of a line are the number of the write that produced them.  *)
(***************************************************************************)
EXTENDS VictimCache

CONSTANT MaxVersion  \* bound: writes to one line

ASSUME VersionAssumption ==
  /\ MaxVersion \in Nat
  /\ Data = 0 .. MaxVersion
  /\ ZeroData = 0

VARIABLES
  mem,       \* the storage of the memory controller
  l1,        \* per line: absent, fetching, clean or dirty, and its contents
  evicting,  \* per line: evictions sent and not acknowledged
  sent,      \* the line of each request the L1 sent, by request ID
  latest     \* the number of the last write to each line

client == <<l1, evicting, sent, latest>>
allVars == <<vars, mem, client>>

HInit ==
  /\ Init
  /\ mem = [l \in Lines |-> 0]
  /\ l1 = [l \in Lines |-> [state |-> "absent", ver |-> 0]]
  /\ evicting = [l \in Lines |-> 0]
  /\ sent = <<>>
  /\ latest = [l \in Lines |-> 0]

Holds(l) == l1[l].state \in {"clean", "dirty"}

(***************************************************************************)
(* The L1 cache                                                            *)
(***************************************************************************)
\* A miss with nothing of the line left in the write buffer.
L1Fetch(l) ==
  /\ l1[l].state = "absent" /\ evicting[l] = 0
  /\ TopDeliver("ReadReq", l, NoData)
  /\ l1' = [l1 EXCEPT ![l].state = "fetching"]
  /\ sent' = Append(sent, l)
  /\ UNCHANGED <<mem, evicting, latest>>

\* findDataLocally: the line comes back out of the write buffer.
L1Refetch(l) ==
  /\ l1[l].state = "absent" /\ evicting[l] > 0
  /\ l1' = [l1 EXCEPT ![l].state = "clean"]
  /\ UNCHANGED <<vars, mem, evicting, sent, latest>>

L1Write(l) ==
  /\ Holds(l) /\ latest[l] < MaxVersion
  /\ l1' = [l1 EXCEPT ![l] = [state |-> "dirty", ver |-> latest[l] + 1]]
  /\ latest' = [latest EXCEPT ![l] = @ + 1]
  /\ UNCHANGED <<vars, mem, evicting, sent>>

\* Replacing a dirty line (bankEvict) sends it down ...
L1Evict(l) ==
  /\ l1[l].state = "dirty"
  /\ TopDeliver("WriteReq", l, l1[l].ver)
  /\ l1' = [l1 EXCEPT ![l].state = "absent"]
  /\ evicting' = [evicting EXCEPT ![l] = @ + 1]
  /\ sent' = Append(sent, l)
  /\ UNCHANGED <<mem, latest>>

\* ... replacing a clean one sends nothing (needEviction).
L1Drop(l) ==
  /\ l1[l].state = "clean"
  /\ l1' = [l1 EXCEPT ![l].state = "absent"]
  /\ UNCHANGED <<vars, mem, evicting, sent, latest>>

\* A fetched line is installed clean; an acknowledgement closes an eviction.
L1Receive ==
  /\ TopCollect
  /\ LET rsp == Head(topOut)
         l == sent[rsp.rspTo]
     IN IF rsp.kind = "DataReadyRsp"
          THEN /\ l1' = [l1 EXCEPT ![l] = [state |-> "clean",
                                           ver |-> rsp.data]]
               /\ UNCHANGED evicting
          ELSE /\ evicting' = [evicting EXCEPT ![l] = @ - 1]
               /\ UNCHANGED l1
  /\ UNCHANGED <<mem, sent, latest>>

(***************************************************************************)
(* The memory controller: a request is served, storage access included,    *)
(* when its answer leaves.                                                 *)
(***************************************************************************)
MemRespond ==
  /\ lowReqs # <<>>
  /\ BottomDeliver(1, mem[Head(lowReqs).line])
  /\ mem' = IF Head(lowReqs).kind = "WriteReq"
              THEN [mem EXCEPT ![Head(lowReqs).line] = Head(lowReqs).data]
              ELSE mem
  /\ UNCHANGED client

L1 == \E l \in Lines : \/ L1Fetch(l) \/ L1Refetch(l) \/ L1Write(l)
                       \/ L1Evict(l) \/ L1Drop(l)

VictimCacheStep ==
  /\ Component \/ BottomCollect \/ NotifyAvailable
  /\ UNCHANGED <<mem, client>>

HNext == L1 \/ L1Receive \/ MemRespond \/ VictimCacheStep

HSpec == HInit /\ [][HNext]_allVars

(***************************************************************************)
(* Where the copies of a line are                                          *)
(***************************************************************************)
WritesTo(l, queue) ==
  {k \in DOMAIN queue : queue[k].kind = "WriteReq" /\ queue[k].line = l}

Copy(level, pos, ver) == [level |-> level, pos |-> pos, ver |-> ver]

\* The copies of a line: in memory, in evictions on their way to it, in a slot,
\* in evictions on their way to the victim cache, and in the L1.
Copies(l) ==
  {Copy(0, 0, mem[l])}
    \cup {Copy(1, k, Below[k].data) : k \in WritesTo(l, Below)}
    \cup {Copy(2, i, blocks[i].Data) : i \in Holding(l)}
    \cup {Copy(3, k, Asked[k].data) : k \in WritesTo(l, Asked)}
    \cup {c \in {Copy(4, 0, l1[l].ver)} : Holds(l)}

\* One copy is closer to the processor than another.
Over(c, d) == c.level > d.level \/ (c.level = d.level /\ c.pos > d.pos)

\* What answers on their way up carry for the line.
Returning(l) ==
  {r.data : r \in {q \in ToSet(topOut) : q.kind = "DataReadyRsp"
                                         /\ sent[q.rspTo] = l}}
    \cup
  {r.data : r \in {q \in ToSet(bottomIn) : q.kind = "DataReadyRsp"
       /\ sent[pendingBottom[Pending(q)].OrigReqID] = l}}

Present(l) == latest[l] \in {c.ver : c \in Copies(l)} \cup Returning(l)

(***************************************************************************)
(* Properties                                                              *)
(***************************************************************************)
HTypeOK ==
  /\ TypeOK
  /\ mem \in [Lines -> Data] /\ latest \in [Lines -> Data]
  /\ l1 \in [Lines -> [state : {"absent", "fetching", "clean", "dirty"},
                       ver : Data]]
  /\ evicting \in [Lines -> Nat]
  /\ sent \in Seq(Lines) /\ Len(sent) = issued

\* No level ever holds a newer version than the level above it: evictions
\* overtake neither each other nor the fetches that follow them, and a slot
\* refreshed in place is refreshed with something at least as new.
NewerAbove ==
  \A l \in Lines : \A c, d \in Copies(l) : Over(c, d) => d.ver =< c.ver

\* An answer on its way up is at least as new as every copy below the L1.
AnswersAreFresh ==
  \A l \in Lines : \A d \in Returning(l), c \in Copies(l) : c.ver =< d

\* Exclusive policy: once a fetch has been through the victim cache, and until
\* the L1 has its answer, no slot holds the line.  (Later one may: the L1 can
\* take a line back from its write buffer while the eviction travels down.)
Exclusive ==
  \A l \in Lines :
    /\ l1[l].state = "fetching"
    /\ l \notin {r.line : r \in ToSet(topIn) \cup ToSet(topTransactions)}
    => Holding(l) = {}

\* The levels hold what their order and the exclusive policy allow.
LevelsOrdered == HTypeOK /\ NewerAbove /\ Exclusive

\* The newest version of a line never disappears in the victim cache, on the
\* way to memory or in memory: the one step that can lose it is the L1
\* forgetting a clean copy.
OnlyADropLoses ==
  [][\A l \in Lines : Present(l) /\ ~Present(l)' => L1Drop(l)]_allVars

\* What the report says of the victim cache: no modified data is lost.
NoDataLost == \A l \in Lines : Present(l)

(***************************************************************************)
(* The victim cache and the memory implement ExclusiveStore.  A line's     *)
(* home already counts the evictions still travelling, and a read sent     *)
(* below counts as answered with what it will find there.                  *)
(***************************************************************************)
LastWrite(queue, k, l) ==
  LET W == {j \in 1 .. k : queue[j].kind = "WriteReq" /\ queue[j].line = l}
  IN IF W = {} THEN mem[l] ELSE queue[Max(W)].data

Foreseen(p) ==
  LET back == SelectInSeq(bottomIn, LAMBDA r : r.rspTo = p.BottomReqID)
      k == SelectInSeq(Below, LAMBDA r : r.id = p.BottomReqID)
  IN DataReady(p.OrigReqID, IF back # 0
                              THEN bottomIn[back].data
                              ELSE LastWrite(Below, k, Below[k].line))

Store == INSTANCE ExclusiveStore WITH
  Capacity <- NumBlocks, IDs <- ReqID,
  resident <- Resident,
  home <- [l \in Lines |-> LastWrite(Below, Len(Below), l)],
  asked <- Asked,
  answers <- answered \cup ToSet(topOut)
               \cup {Foreseen(pendingBottom[k]) : k \in ReadsBelow}

\* The clock, the stalls, the pending table and the split into ticks and ports
\* implement the store that serves one request at a time, in order, and evicts
\* in least-recently-put order.
ImplementsStore == Store!Spec
=============================================================================

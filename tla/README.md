# Verification of the victim-cache simulator

The repository is a small program, a benchmark of a victim cache behind a
direct-mapped write-back L1 (`main.go`, `tracecpu.go`, `victimcache.go`), and the
whole of Akita, the discrete-event simulator it is built on (`akita/`), with two web
pages: the monitor, which watches and steers a running simulation, and daisen, which
shows the trace of a finished one. This directory models in TLA+ the program's own
processor and memory hierarchy, part by part and composed as `main.go` wires them,
the event engine with the goroutines that disturb it, the page of the monitor, and
daisen's chat panel and dashboard; checks them with TLC, and proves the core of each
with TLAPS.

1. [Inventory](#inventory): the parts of the system
2. [Modules](#modules): which module models what, and how
3. [Runs](#runs): what TLC checks, bounds, fairness
4. [Proofs](#proofs)
5. [What the checks found](#what-the-checks-found)
6. [Not modelled, and the plan](#not-modelled-and-the-plan)

## Inventory

How the program is put together (`main.go:77`), with the victim cache:

    TraceCPU --Mem/Top--> L1 (write-back) --Bottom/TopPort--> VictimCache --BottomPort/Top--> memory
                 all ports plugged into one DirectConnection, everything run by one SerialEngine

Every arrow is a pair of ports, each with an incoming and an outgoing buffer.
Components never call each other: they put messages into port buffers, and the
connection moves them. A component runs only in `Tick`, an event. It schedules
its own next tick as long as the last one made progress; otherwise it sleeps until
a port notifies it, which a port does only when a buffer goes from empty to
non-empty (`NotifyRecv`) or from full to one below (`NotifyPortFree`). The
connection is a ticking component as well, on secondary events, so it acts after
all components' ticks of a cycle: nothing outside touches a component during its
tick.

| part | state | operations | hard behaviour | what makes it correct |
|---|---|---|---|---|
| victim cache (`victimcache.go`) | blocks, LRU clock, queue of top transactions, pending table, counters | `Tick`: bottom response, count-down, top request, head transaction | head-of-line stalls on two ports, out-of-order answers, exclusive hand-over of dirty lines, sleep and wake-up | a line has one slot; LRU order; every request answered once; nothing lost; never asleep with work |
| L1 (`mem/cache/writeback`) | directory, MSHR, data array, evicting list, write buffer, bank pipeline, one-element buffers between stages | seven stages in one tick, flusher | a line is in the array, the bank, the write buffer, the MSHR and memory at different times; back-pressure cycles; out-of-order finish in the bank | locks and pins match the work in flight; reads are not stale; no deadlock |
| directory, MSHR, victim finder (`mem/cache`) | sets with LRU queues, entries | look up, visit, find victim, add, query, remove | they must agree on who has a line | one block per line, one entry per line |
| pipeline (`pipelining`) | lanes of stages | accept, tick | elements catch up, post buffer full | nothing lost or overtaken in a lane |
| ports, tickers (`sim`) | buffers, next tick time | send, deliver, retrieve, notify | edge-triggered notifications | no lost wake-up |
| direct connection (`sim/directconnection`) | round-robin position | forward, broadcast availability | head-of-line blocking | every message delivered once, in order per pair |
| ideal memory controller | in-flight buffer, respond events, storage, control state | take, execute, respond or retry, pause, drain | a retry is reordered under back pressure | FIFO per address; drain answers when empty |
| trace CPU (`tracecpu.go`) | trace position, pending maps, counters | respond, issue, report | a failed send drops the access | every access once, report once |
| event engine (`sim`) | two event queues, time, pause and run locks, next tick of each component | schedule, run, pause, continue, tick | HTTP goroutines push, pause and tick while an event is handled | time never goes back; a pause stops it; no event or wake-up lost; primary before secondary |
| monitor, server (`monitoring/monitor.go`) | components, progress bars | serve the page's requests | each request is a goroutine of its own | answers tell one state |
| monitor, page (`monitoring/web/src`) | progress bars and heights; component view and widgets; tree; right pane; trace button | timers, clicks, answers | answers out of order, elements gone when they come, clicks before the answer to the last | the page says what the server said; nothing left running that cannot be stopped |
| daisen, chat panel (`daisen/static/src/chatpanel.ts`) | chats, messages, attached files, ticked components and keys, the period | open, send, answer, choose, create, delete, tick, drag | answers to a panel or chat that is gone; fields that outlive the controls that show them | chats do not mix; nothing is only in memory; what is shown is what is sent |
| daisen, dashboard (`dashboard.ts`, `widget.ts`, `mouseeventhandler.ts`) | filter, page, axes, range, grid, address, widgets, panel width | filter, page, zoom, resize, go back, reset | timers, resize listeners and answers that come in between | page, grid, address and widgets agree |
| daisen, task and component pages; daisen server | | | requests in sequence while another task is clicked | planned |
| other caches, banked memory, TLB/MMU, DRAM, data mover, NoC | | | | library parts the program does not use |
| tracing, analysis, recording, code generator | | | | observers and tools |

The hazards these behaviours expose the code to are in `PROJECT.json`, each at its
line and with the properties that would catch it.

How the monitor acts on the engine: each button of the page is a request, each
request a goroutine of the HTTP server. `/api/run` runs the engine, `/api/pause` and
`/api/continue` take and leave `pauseLock`, which `Run` takes for each event, and
`/api/tick` pushes an event while the engine may be in the middle of another. The
parts of the page share nothing but the server. In daisen the chat panel belongs to
the page that opened it and asks it for names and the range of time; the dashboard's
grid depends on the panel's width.

## Modules

| module | models | checked through |
|---|---|---|
| `VictimCache` | `victimcache.go`, its ports and ticker | `MCVictimCache` |
| `LruBuffer` | abstract: what the victim cache alone promises | refinement in `VictimCache` |
| `VictimHierarchy` | victim cache + L1 from its bottom port + memory | `MCVictimHierarchy` |
| `ExclusiveStore` | abstract: what victim cache and memory promise together | refinement in `VictimHierarchy` |
| `VictimCacheProofs` | theorems about `VictimCache`, and that it implements `LruBuffer` | TLAPS |
| `VictimHierarchyProofs` | theorems about `VictimHierarchy` | TLAPS |
| `Pipelining` | `pipelining/pipeline.go` as pure operators | used by `WritebackCache` |
| `WritebackCache` | the L1: `mem/cache/writeback` with directory, MSHR, victim finder | `MCWritebackCache` |
| `WritebackCacheProofs` | theorems about `WritebackCache`: types, locks and pins | TLAPS |
| `WritebackDataProofs` | theorems about `WritebackCache`: every request once, reads not stale | TLAPS |
| `TraceCPU` | `tracecpu.go`, in front of any cache that answers what it took | TLAPS, and as a property of `Benchmark` |
| `TraceCPUProofs` | theorems about `TraceCPU` | TLAPS |
| `Benchmark` | the program of `main.go`: `TraceCPU` + `WritebackCache` + `VictimCache` + memory on one connection | `MCBenchmark` |
| `SerialEngine` | `sim/serialengine.go`, `sim/ticker.go`, the server's goroutines that act on them | `MCMonitor`, and itself |
| `MonitorLayout` | `ui_manager.ts`, `progress_bar.ts`, the progress bars of `monitor.go` | `MCMonitor` |
| `MonitorWidgets` | `component.ts`, `monitor.ts` | `MCMonitor` |
| `MonitorPanes` | `component_tree.ts`, `hang_analyzer.ts`, `resource.ts`'s pane, `tracing.ts` with `dbtracer.go`'s side | `MCMonitor` |
| `ProfileNetwork` | the call network of `resource.ts` | `MCMonitor` |
| `MonitorProofs` | theorems about `MonitorLayout`, `MonitorWidgets`, `MonitorPanes` and `SerialEngine` | TLAPS |
| `ChatHistory` | conversations of `chatpanel.ts` | `MCDaisen` |
| `ChatAttachments` | files, components and repository keys sent along | `MCDaisen` |
| `ChatPeriod` | the period sent along | `MCDaisen` |
| `ChatPanel` | the three together: rendering and sending act on all of them | `MCDaisen` |
| `Dashboard` | `dashboard.ts`, `mouseeventhandler.ts` | `MCDaisen` |
| `DashboardWidget` | the data and the curves of `widget.ts` | `MCDaisen` |
| `DaisenProofs` | theorems about `ChatPanel`, `Dashboard` and `DashboardWidget` | TLAPS |
| `Filtering` | the elements of a sequence that are in a set, as a recursive function, which can be proved about | used by the others |
| `SequenceLemmas` | lemmas about sequences, positions in them and `Filter` | TLAPS |

### A tick

All component modules have the same skeleton. `awake` stands for a scheduled tick
event. `Tick` consumes it and sets `stage` to the first stage; each stage is an
action (or a disjunction of actions, one per branch of its handler) that moves
`stage` on and records in `progress` whether it returned true; the last one goes
back to `"idle"` and wakes the component again if any stage made progress, as
`TickingComponent.Handle` does. The environment acts only while `stage = "idle"`,
because the connection runs on secondary events. Its actions set `awake` exactly
when `port.go` calls `NotifyRecv` or `NotifyPortFree`. Time is not modelled:
a tick happens any time after it was scheduled.

### VictimCache

| code | model |
|---|---|
| `Blocks`, `cycleCount`, `topTransactions`, `pendingBottom`, counters | variables of those names |
| address / bytes of a line | a member of `Lines` / of `Data` (the L1 sends whole aligned lines only, `1 << log2BlockSize` bytes) |
| `processBottomResponse` | `CompleteBottomRead`, `CompleteBottomWrite`, `NoBottomResponse` |
| `countDown`, `receiveTopRequest` | `CountDown`, `ReceiveTopRequest` |
| `processHeadTransaction`, `handleRead`, `handleWrite` | `ReadHit`, `ReadMiss`, `WriteResident`, `WriteEmpty`, `WriteFull`, `WriteStalled`, `NothingHandled` |
| the `Send` results the code ignores | `Send` appends without a check: `SendsFit` shows that the room was there |
| `panic` on an unknown response | no action is enabled: `PendingMatchesBelow` shows it is unreachable |

`WriteStalled` is an action of its own because a stalled write is not a no-op: it
has already advanced the LRU clock.

`LruBuffer` has one list and two operations, take and put. `ImplementsLruBuffer`
maps the slots, sorted by `LastAccessTime`, to that list, and the queue and port
buffers to the requests not served yet.

### VictimHierarchy

The victim cache of `VictimCache`, with every action it has, between two
neighbours. The L1 is reduced to what its bottom port shows: it fetches a line it
does not hold and has no eviction of in its write buffer, takes it back from the
write buffer otherwise, writes, evicts dirty lines with a message and clean ones
without, and receives answers. The memory serves its queue in order. A line's
contents are the number of the last write, so "stale" is "smaller".

`ExclusiveStore` is the same without ports, latencies, clock or pending table.
`ImplementsStore` maps a read that was already sent below to an answer given,
with the data it is going to find.

### WritebackCache

One action per stage in `runPipeline`'s order: `MshrStage`, `FinalizeTrans`,
`BankPipeline`, `PullFromBuf` (the bank stage), `WriteStage`, `ProcessReturnRsp`,
`ProcessNewTransaction` (the write buffer), `AcceptNewTransaction`,
`ProcessTransaction` (the directory), `TopParser`. A transaction is named by the
number of its request. What Go shares by pointer is a function of that number:
`trans`, `entry` (MSHR entry objects, which live on after they leave the MSHR) and
`evictingData` (the slice an eviction carries, which a local fetch shares and
combines waiting writes into; `entry[e].slice` remembers the sharing). A line's
contents are the number of the last write that reached it.

Abstracted: the byte offsets (a partial write and a read of one line touch the same
bytes, so a partial write that is lost is seen), dirty masks, PIDs, tracing. One
bank and `numReqPerCycle` 1, as built by the builder's default; directory latency 0,
as in `main.go`. The bank latency is a constant.

### TraceCPU

| code | model |
|---|---|
| `trace`, `traceIndex`, `totalWrites`, `totalReads`, `completed…`, `pending…`, `finished` | variables of those names |
| the two traces of `main.go` | `Traces`, a set of sequences of accesses; the initial state picks one |
| `processResponses` | `ProcessWriteDone`, `ProcessDataReady`, `NoResponse` |
| the issue branch of `Tick`, `sendWrite`, `sendRead` | `Issue` (both outcomes of the send), `NothingToIssue` |
| the end of `Tick`, `printReport` | `Report` |
| message IDs | numbers in the order of sending |

`Issue` advances the trace position even when the port refuses the request: that is
what the code does, and `NoAccessSkipped` is the claim that it never matters. Data
bytes and latencies, which the processor only adds up, and the text of the report
are left out. The cache is open: `MemCollect` and `MemDeliver` let it answer what it
holds in any order.

### Benchmark

`Benchmark` extends `TraceCPU` and takes `WritebackCache` and `VictimCache` whole, as
instances. Where those modules leave a port open, it puts the connection's move from
one component's outgoing buffer to the next one's incoming buffer: `CpuToL1`,
`L1ToCpu`, `L1ToVC`, `VCToL1`, `VCToMemory`, `MemoryToVC`. The engine is serial, so
`CpuStep`, `L1Step` and `VCStep` are taken only while the other components are
between ticks, and the connection only while all are. Requests from the L1 to the
victim cache are named by their place in `l1Sent`.

Go passes data by pointer: the slice in an eviction message is the one the L1 keeps
in its write buffer, and the L1 may still combine a write into it. `Shared` keeps the
copies in the victim cache's port and queue equal to that slice until a slot takes
the bytes (`victimcache.go` copies them there). The memory serves in order; this is
the external part (the ideal controller has its own place in the plan).

### SerialEngine

A step is what one goroutine does between two lock operations: `rpc` is where each
`/api/run` is, `hpc` where each other request is.

| code | model |
|---|---|
| `Run` | `RunStart`, then for each event `RunLock`, `Peek`, `Pop`, `Handle` or `Crash`, the handler, `RunUnlock`; `RunEnd` |
| `nextEvent` | `Peek` and `Pop`: the event that is taken off is the queue's earliest by then, the one that is handled is the one that was peeked |
| a handler | `HandlerDone`, `HandlerSchedules`, `HandlerTicks` with `TickLater` |
| `Pause` | `PauseEnter` (`isPausedLock`), `Pause` (`pauseLock`) |
| `Continue` | one step: it waits for nothing between its two assignments |
| `/api/tick` | `TickRequested` (lock and time), `ScheduleChecks` (time again), `SchedulePushes` |
| `log.Panic` in `Schedule` | `hpc = "dead"`: the HTTP server recovers, the ticker's lock is kept |
| `log.Panicf` in `Run` | `rpc = "crashed"`: the program ends |

The order of events with equal times and class is any (a heap does not keep it).
`disturbed` records that a tick was requested over HTTP while an event was handled:
the properties that are true only without that say so.

### The monitor's page

`MonitorLayout` counts heights in rows. `mainContainerHeight` is assigned where the
code assigns it and kept otherwise, so that a handler that forgets to say that
something has left is seen. `asked` holds the requests for progress on their way,
each with the list the server served it. `unadjusted` marks what the code does not
follow up: a window resize computes no height, and a divider dragged below the
progress bars sets the two heights from different numbers.

`MonitorWidgets` keeps three views of the same widgets, the list, the page and the
timers, as the code does, and `crossed` for a flag whose widget was closed by its
cross, which the code leaves solid.

`MonitorPanes` keeps answers in the order the server served them and delivers them
in any. `together` records that a second click was made before the answer to the
first, `lost` that an answer got lost after the server had acted.

`ProfileNetwork` adds one sample a step to the times of nodes and edges.

These parts share no state. `MCMonitor` explores them one at a time, chosen at the
start by `part`.

### The chat panel

The closures of `_showChatPanel` push to the array they captured, so arrays have an
identity in `ChatHistory`: `lists` is a heap, `view` the array of the last rendering,
`chatMessages` that of the field. A question is a number; `home` records which chat it
was asked in. `strayed` records that an answer came to an array that is no longer
the current chat's: `AnswerArrives` then saves it where the code saves it, under the
chat shown now. `unshown` records an answer that came after its panel was closed and
opened again: it is in the array and not on the page until the next rendering.

`ChatAttachments` has each field of the panel next to the control that shows it; the
fields outlive a rendering and the controls do not. `initialBubbles` puts two bubbles
on the repository's button, as the code does; `RepoButtonShows` is the one on top.
`ChatPeriod` has the range of the
page, the one that was read and the one that is selected. `ChatPanel` composes the
three: `ShowChatPanel`, `SelectChat`, `DeleteChat`, `NewChat` render all, `SendMessage`
and `SendTest` send all and clear, `TraceButton` reads the range as well as the names.

### The dashboard

A component is its place in the trace's list and a filter the set of those it finds,
or one of the texts (`Unreadable`) on which `new RegExp` raises an exception: what
`_filterInputChage` and `render()` did before it stands, what `_filter` would do after
it does not happen. `filtered` is the filter `_filteredNames` was made with.
`renderPage`, `applyFilter`, `SetRange` and `resetNumRowCol` are the code's helpers,
taken whole by each handler that calls them. The address is what `render()` reads
back: `Answered` is its whole second half. `orphans` are the scrolling timers of
widgets that were replaced: they still fire. `listeners` counts the resize listeners,
of which each `setCanvas` adds one. A press remembers the widget's range (`start`), and
`Dragged` gives what `handleMouseDrag` makes of it: moved, or, by a drag across the
axis, put back to that range without being moved. `adrift` marks a widget whose range
differs and whose reload is lost, by a second press without a release, an axis chosen
in between or a drag that moved nothing; `unwritten` an axis chosen with no widget on the page, which the code does
not write into the address. `DashboardWidget` is one widget: the data stored and the
curves in the picture there is, with drawings answered in any order.

`MCDaisen` explores one subject at a time, chosen at the start: talking, files, the
trace's or the repository's window, the period; turning pages, the mouse, the
fingers, resizing; drawing. Rendering and sending belong to every subject of the
chat panel.

## Runs

| run | question | size |
|---|---|---|
| `victim_cache` | slots unique, ordered, dirty; requests in one place and counted once; sends fit, no lost wake-up; refines `LruBuffer`; every request answered | 2 blocks, 3 lines, 4 requests, ports of 1 |
| `victim_hierarchy` | versions monotone, policy exclusive, answers fresh, nothing but an L1 drop loses data; refines `ExclusiveStore` | 1 block, 2 lines, 5 requests, 2 writes a line |
| `victim_loss` | *violated*: no data is lost | same |
| `writeback` | structures of the L1 agree, reads not stale, every request in one place, quiet only when all is answered | 1 block, 2 lines, 4 requests, bank latency 0 |
| `writeback_pipelined` | every request answered, with a choice of victim and overlap in the bank | 2 ways, 3 lines, 3 requests, bank latency 1, ports of 2 |
| `writeback_stale` | *violated*: a read returns the last acknowledged write | write buffer of 3, whole-line writes |
| `writeback_jam` | *violated*: quiet means done | 7 ways, a fixed script of 13 requests, latency 1 |
| `writeback_counts` | *violated*: a read is counted once | 2 ways, 2 requests, latency 1 |
| `benchmark` | the whole program: every access sent and reported, the hierarchy is one memory to the processor, reads fresh until a victim hit, counts final, the report is reached | L1 of 2 direct-mapped blocks, victim cache of 1, 4 lines, 5 traces of up to 8 accesses, ports of 1 |
| `monitor` | a pause stops the engine and takes hold; no event, tick or turn lost; layout sound and up to date; widgets, panes, trace button and call network agree | 1 component, 2 runs, 2 other requests, 3 events; 2 bars, 2 answers on their way; 2 components of 2 fields, 2 widgets; names of up to 3 tokens; 3 clicks; 2 samples of up to 3 frames |
| `monitor_tick` | *violated*: nothing is scheduled in the past | 1 component, 1 run, 1 request |
| `daisen` | chats kept apart and saved, panel shows them, attachments and period as shown; page, address, grid and range agree; curves as asked | 3 chats, 3 questions, 2 unanswered; 3 files; 2 components, 2 keys; a trace of 3 units; 0, 2 or 20 components on the dashboard; 3 filters and a text that is none; 2 ranges; 2 widths; 3 drawings |

The invariants of the runs are conjunctions of named parts: `DirectorySound` is
`UniqueTags`, `LruClockStrict` and `ResidentIsDirty`; `RequestsAccounted` is
`AnsweredOnce`, `PendingMatchesBelow` and `ReadsCountedOnce`; `PortsServed` is `SendsFit`
and `NoLostWakeup`; `LevelsOrdered` is `HTypeOK`, `NewerAbove` and `Exclusive`;
`BlocksHeld` is `LockHasOwner`, `ReadsPinTheBlock`, `OneBlockPerLine` and
`EvictingListMatches`;
`TraceReplayed` is `NoAccessSkipped` and `ReportIsComplete`; `EventsAndTicksKept` is
`EventsHandledOnce`, `TicksAreComing` and `PrimaryFirst`; `PageAgrees` is `PageShown` and
`AddressTells`; and so on, each part with its own comment in its module.

**Why the bounds suffice.** Ports of one message make every `CanSend` fail in some
state; 16 slots would not with so few requests. Two slots and three lines are the
smallest cache that fills, hits, refreshes and has a choice of victim; one slot and
two lines the smallest hierarchy in which each line pushes the other out. Five
requests let a line be evicted, fetched, dropped and fetched again. Latency 1
separates receiving from serving; larger latencies only lengthen the wait. In the
L1, one way and two lines make every access a conflict, as `main.go`'s
direct-mapped cache is meant to; two ways and three lines give the victim finder a
choice. `MaxReqs` bounds the requests; `MaxClock` bounds the spare wake-ups the
connection's broadcast causes, which only make stalled writes run the clock.
`MaxVersion` bounds the writes to a line. `Script` says which requests the upper
side may choose from: in `writeback` a write comes first and a read last, since a
cache without data or an answer nobody reads adds nothing; in `writeback_pipelined`
lines are called by the order they come in, which names each behaviour once. Only
`writeback_jam` has a fixed script, because its 212-step trace would not be found by
free choice. In `benchmark` the traces are small versions of `smallTrace` and
`largeTrace` plus one that overflows the victim cache, one of reads only and the
empty one. They are fixed because each access takes hundreds of steps, while all the
interleavings of the components, the connection and the memory are explored.

In `monitor` three events and two other goroutines are enough for a tick to come
between the two readings, between `Peek` and `Pop`, and for a pause to wait for a
handler; two bars with a limit of one change between bars and pies; two answers on
their way overtake each other. `MaxLeaving` 0 lets an answer be drawn only when no
bar is leaving: the animation takes a fifth of the time between two requests; the
theorem about the layout has no such bound. A chart keeps 2 samples where the code
keeps 300, so that it drops some.
In `daisen` two unanswered questions and three chats let an answer come to a chat
that was left, deleted or returned to; 20 components make two pages of 16 and, in a
narrow window, other grids; two ranges make every move visible; of the texts that are
no expression one is as good as another. A behaviour follows
one subject because the others cannot disturb it: what several share is repeated in
each.

`CHECK_DEADLOCK FALSE` everywhere: with a bounded number of requests the system
stops once all of them are served. What a deadlock is, work left and nothing to do,
is a property of its own (`NoLostWakeup`, `QuietMeansDone`, `PauseTakesHold`).

**Symmetry** is used in `writeback`, `writeback_stale` and `writeback_counts` only, on
lines, which the model treats alike; none of them has a temporal property.

**Fairness.** `WF` on the component: the serial engine runs every scheduled event.
`SF` on the connection's deliveries and collections and on the low module: they are
disabled in the middle of a tick, but the connection gets its turn after the ticks
of every cycle, so what it can do again and again it does. The upper side is under
no obligation to send anything.

Liveness for `VictimCache` needs the low module to answer everything it was sent,
in any order, and the L1 to collect answers; both are stated in `Fairness`.

In `Benchmark` each component has `SF` where it had `WF` alone: its step is disabled
while another component is in the middle of a tick, but the engine handles every
event in its queue, so a scheduled tick is not passed over for ever. The
connection's moves have `SF` for the reason above, and so has the memory's answer.
`ReachesItsReport` needs nothing else.

`EngineFairness`: goroutines are scheduled (`WF` on each one's steps), and a `Pause`
that waits for the mutex gets it although `Run` takes and leaves it in a loop (`SF`):
Go's mutex hands over to a waiter after a millisecond. Nobody has to press a button.
`LayoutFairness`: the timer fires, the server answers, answers arrive and animations
end; the simulation need not create or complete a bar. `MCMonitor` states both for the
behaviours of their part.

## Proofs

Every theorem holds for all values of the constants that satisfy the named
assumptions of the module; these say that sizes are numbers, that buffers hold at
least one message, and that things with different names differ. None of them
restricts what the code can meet.

An invariant that TLC checks is seldom inductive. For each one the proof modules
define the stronger one that is, prove `Init => Inv` and `Inv /\ [Next]_vars => Inv'`
action by action, and derive the property. The inductive invariants were checked
with TLC on the instances of the runs before they were proved.

What a step does to a sequence, a set or a function is stated apart from the
actions, as lemmas about values: `SequenceLemmas` has those that several modules
need. `Filter` (module `Filtering`) takes the place of `SelectSeq` where a proof
speaks of it, because `SelectSeq` is a recursive operator.

### The victim cache

`VictimCacheProofs`, of `Spec`, for every number of slots, lines and requests,
every latency and port capacity:

| theorem | establishes | inductive invariant |
|---|---|---|
| `TypeCorrect` | `TypeOK` | itself |
| `TagsUnique`, `LruClockIsStrict`, `ResidentLinesAreDirty`, `DirectoryStaysSound` | the parts of `DirectorySound`, and all of it | `SlotInv` |
| `NeverSleepsThroughWork`, `EverySendFits`, `PortsAreServed` | the parts of `PortsServed`, and all of it | `AwakeInv` |
| `RequestsStayAccounted` | `RequestsAccounted` | `LedgerInv` |
| `ImplementsLru` | `ImplementsLruBuffer` | `AgeInv` (`ByAgeSorts`) |

`SlotInv` is the conjunction of the three slot properties. It is inductive given
`TypeOK`: a write fills a slot only when no valid slot has its line, which keeps the
tags unique, and gives it the current clock, which is above that of every valid slot
and then advances. `LruClockStrict` contains "every valid slot is below the clock"
because without it a filled slot could tie with an old one.

`NoLostWakeup` is about sleeping states only and is not inductive: whether the
component may go to sleep depends on what the stages saw earlier in the same tick.
`AwakeInv` says it for every point of the tick: after each stage, either `progress`
or `awake` is set, or the condition that makes the earlier stages unable to act
still holds. The late stages can invalidate such a condition only by making
progress, and the environment only with a notification.

`LedgerInv` is about identifiers. `RequestsAccounted` counts: a request is in one
place, the pending table has as many entries as there are messages below. Counting
is not kept by a step unless one knows that the identifiers fit. `LowInv` says that
those of the pending table, of the requests sent below and of the answers on their
way back are a `Ledger`: all different, none above `BottomSendCount`, each entry of
the table with exactly one message, a read with a read. So the response that
`processBottomResponse` looks up is always found, and its entry is the only one.
`UpInv` says that what was asked and not served are the last of the consecutive
numbers, and that each number before them is `Served`: waiting for below, in the top
port, or collected, in one of the three only. `CountInv` carries the sums.

`ImplementsLru` is a step simulation of `LruBuffer` under the mapping that
`ImplementsLruBuffer` names, the occupied slots listed by `LastAccessTime`. The
listing is a `CHOOSE`; `AgeInv` says that what it chooses exists, and the lemmas on
`Sorts` that it is the only one, so that a step can be followed: emptying a slot
takes its entry out of the list and leaves the order (`ReadHit`), filling one with
the current clock appends (`WriteEmpty`), refreshing one moves it to the end
(`WriteResident`), and the slot `WriteFull` replaces is the head. Every other step
leaves the list and the requests not served as they are: the count-down, the ports,
and a stalled write, although it advances the clock.

### Victim cache, L1 and memory

`VictimHierarchyProofs`, of `HSpec`, for any number of lines, slots, versions and
requests:

| theorem | establishes |
|---|---|
| `HierarchyInvHolds` | the inductive invariant `HierarchyInv` |
| `LevelsStayOrdered` | `LevelsOrdered`: types, `NewerAbove`, `Exclusive` |
| `AnswersStayFresh` | `AnswersAreFresh` |

`HierarchyInv` is the types, the victim cache's own `SlotInv` and `LedgerInv`, and
`HInv`, which has two parts. `LinkInv` ties the numbers of `LedgerInv` to lines: the
entry of a read and the message below are about the same line. `LineInv` is about
one line. Its `OrderInv` puts all copies into a chain, the L1's version, the writes
asked, the versions stored, the writes below and memory, none newer than the one
before: `NewerAbove` speaks of any two of them, the chain of neighbours, and that is
what a step can be shown to keep. `OpenInv` says that for a line the L1 has either one
fetch open or evictions, never both, counting every place a request can be. Without
it a fetch could pass an eviction. `AnswerInv` says that what comes up is no older
than memory and the writes on their way to it, also while it is only a response from
memory not matched yet, that a line whose fetch was taken has no slot, and that below
a read is behind the writes of its line.

### The L1

`WritebackCacheProofs`, of `Spec`, for any lines, blocks and sets, any number of MSHR
entries, of places in the write buffer and of requests, any bank latency and port
capacity (`WritebackAssumption`):

| theorem | establishes |
|---|---|
| `WInvHolds` | the inductive invariant `WInv` |
| `WritebackTyped` | `WTypeOK` |
| `BlocksStayHeld` | `BlocksHeld` |

`BlocksHeld` relates the blocks to the transactions in flight, `Busy`, and those are in
six kinds of places: the buffers between the stages, the cells of the bank's pipeline,
the buffer behind it, the MSHR stage, the write buffer's list of fetches. Which
transaction a stage works on, and what it may do to its block, depends on where it is.
`WInv` has one part for each thing a stage takes for granted:

* `WTypes`, the types, with the capacities of the lists.
* `WaitInv`: the requests above the directory are the last ones asked, in their order.
  So the one the directory takes is new: it is in none of the other places, no MSHR
  entry is its own, and its action is still to be chosen.
* `BankInv`: a transaction is in one cell of the bank or once in the buffer behind the
  lanes. A cycle of the pipeline moves every element at most one cell on, and what
  leaves a lane, in the order of the lanes, joins the buffer (`ShiftedKeeps`,
  `LanesInOrder`): nothing is lost in it or doubled.
* `WorldInv`, in three layers. `Places`: a transaction is in one place at most. `Fits`:
  what it is to do there is one of the actions that lead to this place, which is also why
  no stage meets an action it panics on. `Opens`: an entry that is to be
  filled, or was, still has a request to answer, so the MSHR stage takes the head of a list
  that is not empty. And the `Story` of the blocks, below.
* `ApartInv`: the entry the MSHR stage is answering is not handed to it a second time.
* `AskInv`: a read below is in one place, the port, the memory or the answers, and
  belongs to a transaction that is being fetched. So an answer finds its fetch, and
  `processDataReadyRsp` fills an entry once.

`Story` is what `BlocksHeld` says, turned from counting into owners: a transaction in
flight holds a valid block of its line, locked unless it only reads (`HoldsBlock`); two
that do more than read hold different blocks (`OneOwner`); a locked block has such an
owner (`LocksOwned`); the read count is the number of readers (`ReadsCounted`); an open
entry has its one fetch (`EntriesOpen`); no two valid blocks hold one line
(`TagsApart`); the eviction list is that of the transactions that evict, one line each,
and no block holds one of these lines (`LeavingListed`). None of them is inductive alone.
Unlocking a block needs `OneOwner`, or another owner would be left without a lock; a
second fetch of a line is prevented by `EntriesOpen` and `TagsApart` together; and that
the directory may give a line that left to another block needs `LeavingListed`: a
request whose line is still on the eviction list is made to wait.

The lemmas about `Story` and `World` take the places as sets and the arrays as values;
there is one for each way a transaction moves on (`WorldEvicted`, `WorldWritten`, ...).
The lemma of an action says which one it is.

Nothing is assumed of `downwardInflightTransCount`, the counter that `writeback_jam` is
about: blocks and transactions agree whatever value it has.

`WritebackDataProofs`, on top of these, about the requests themselves:

| theorem | establishes | inductive invariant |
|---|---|---|
| `EveryRequestOnce` | `AnsweredOnce` | `LedgerInv`, with `WInv` |
| `ReadsStayFresh` | `[]OneEviction` implies `ReadNotStale` | `ReadersInv` and `DataInv`, with these |
| `OneSlotStaysFresh` | `ReadNotStale`, if `WriteBufferCapacity = 1` | the same |

`LedgerInv` keeps the account of the requests the directory has taken: one that the bank
answers itself (`DirectActions`), one in the list of an MSHR entry, or one answered, and
nothing else, once each. `AnsweredOnce` counts, and counts do not say what a step moves
where; the ledger does, and the counts of one follow from it (`LedgerPlaces`), those of
the requests not taken from `WaitInv` (`WaitingOnce`). The proof goes in two stages.
Lemmas named `...Does` say once for each action what it does to places, lists, answers,
data and messages; `LedgerAnswered`, `LedgerGiven`, `LedgerSent`, `LedgerListed` say
what that means for the ledger. The delicate steps: a miss leaves the directory twice
in the account, as a transaction that fetches and as the first name on its own
list, so the first must not be one the bank answers; a transaction that evicts and then
fetches goes through the bank without an answer; and the head of the MSHR stage's list is
answered while its entry has left the MSHR and another may be opened for the line.

**Reads.** `ReadNotStale` as it stands is false: `writeback_stale` refutes it. What is
proved is where the fault ends. `OneEviction` says that the write buffer never holds two
evictions of one line, sent or waiting; with it, no read is stale, for any geometry,
latency, capacity and script. `Spec` states no fairness, so a behaviour may stop
at any state, and the theorem also says that no read is stale before the first moment at
which a line is evicted with its last eviction unacknowledged. A write buffer of
one slot (`WithWriteBufferSize` of `builder.go`; the default is 1024) never holds two, and
`OneSlotStaysFresh` needs no proviso. The proviso is not empty either: it holds in every
state of the instance of `writeback`, whose write buffer has two slots (checked once with
TLC as an invariant of that run), so the theorem covers all that the run sees. It is not
in the run's list because it is a property of the load, not of the cache.

The account gives the notion of order the proof needs: a write is *done* (`DoneFor`) when
it was taken and is no longer under way. `DataInv` says that every copy a later
read may be answered from is as new as the writes done to its line, and its parts go with
the line around the cache:

* `OrderInv`, `LinesInv`, `FloorInv`: the writes of a line are done in the order of
  the requests, an entry lists requests of its line, and what a read must return is done.
* `StorageInv`: a block that is not locked is as new as what is done.
* `OldInv`: so is what a fetch of the line would find, be it in a block that is to be
  evicted, between bank and write buffer, in the write buffer, or below. It
  is required only of a line no block holds newer contents of (`Relied`). Here
  `OneEviction` is used: `findDataLocally` takes the first eviction of the line, and only
  if there is no other is that the newest.
* `FetchInv`, `DepartInv`: a line fetched from below has no eviction under way, and
  one on its way to the write buffer is not fetched, read or written.
* `WriteAskInv`, `MessageInv`, `EvsInv`: a write below is in one place, tells the
  line and belongs to an eviction the write buffer holds.
* `AnswerInv`, `FetchedInv`, `SliceInv`, `FilledInv`: the same of what was fetched, from
  the answer below to the entry it fills; an entry filled from an eviction shares its data.
* `GivenInv`: what is given to a reader is not less than its floor.

`ReadersInv` says that what is in the bank to read is a read. The proof does not go
action by action. `StepKinds` shows first that each step is of one of few kinds: nothing
of the data moves, a request comes, a message moves or the memory acts, an eviction or a
fetch is sent, the MSHR stage answers, or one transaction moves on. Then each part of
`DataInv` is shown to be kept by each kind (`OldStep`, `SliceStep`, `GivenStep`, ...).

### The processor

`TraceCPUProofs` proves, for every trace and every port capacity of at least one
(`TraceAssumption`), and for any cache that answers what it took, once, in any order:

| theorem | establishes |
|---|---|
| `CpuTypeCorrect` | `TypeOK` |
| `CpuInvHolds` | the inductive invariant `CpuInv` |
| `EveryAccessIsSent` | `NoAccessSkipped` |
| `ReportCountsTheTrace` | `ReportIsComplete` |
| `TraceIsReplayed` | both: `TraceReplayed` |

Neither `NoAccessSkipped` nor `ReportIsComplete` is inductive. `CpuInv` adds
`OneAtATime`: either nothing is pending and both port buffers and the cache are
empty, or one request is pending and it, or its answer, is in exactly one of them.
So whenever `Issue` may act the port is empty, the send is not refused, and the
position advances together with the counters. `NothingUncounted` says that every
access behind the position is completed or pending, per kind, which at the end gives
the counts of the report. `ReportStands` keeps both true after it. The lemmas
`RestFinite`, `NothingLeft` and `StepAlong` are about counting what is left of a
trace.

What these theorems assume of the cache is what `ServesTheCpu` checks of the
composition: `Benchmark`, seen from the processor, is a behaviour of `CpuSpec`.

### The engine

The last part of `MonitorProofs`, for any number of components, runs and requests
(`EngineAssumption`: the goroutines differ from each other):

| theorem | establishes | inductive invariant |
|---|---|---|
| `PauseStopsTheEngine` | `PausedMeansStill` | `PauseInv` |
| `EventsAndTicksStayKept` | `EventsAndTicksKept` | `EngineInv` |
| `UndisturbedNeverPanics` | `disturbed`, or `NothingInThePast` | `EngineInv` |

`PauseInv` says who has `pauseLock`: a runner from `RunLock` to `RunUnlock`, a request
while `isPaused`. `Handle` is a step of a runner in its turn, so the lock is the
runner's; with `isPaused` it would be a request's. `Continue` leaves the lock in the
step that resets `isPaused`, and `Pause` takes it in the step that sets it.

`EngineInv` adds the types, who holds a ticker's lock (`TickerInv`), and, until a tick
is requested among events, six facts that need each other. `QuietInv`: while a runner
has its turn no request is in the middle of `TickLater`, which is what `disturbed`
being false means. `QueueInv`: numbers tell events apart, each is in the queue of its
class and none is late. `PlaceInv`: each event waits, is in hand or was handled, once.
`PickInv`: what was peeked is what is popped, and comes before all others. `WakeInv`:
the tick a component counts on waits or is in hand. `NothingInThePast` is among them:
the time that `Handle` sets is that of the event, and it may only grow. The run
`monitor_tick` shows that these facts are lost with the first disturbance.

### The monitor's page

The other three parts of `MonitorProofs`, independent of each other.

`LayoutStaysSound` proves `LayoutSound` for any finite set of
bars, any number of answers on their way and of doms that are leaving, any heights
(`LayoutAssumption`). It is inductive together with the types (`LayoutInv`). The
lemma `OffsetIsNat` is about the height of the group, `AdjustFills` about what a
recomputation establishes. The step that needs thought is `renderProgress`: when no
bar is created the heights are kept, and it has to be shown that what leaves and what
remains take as much room as before, because doms that leave keep their room until
`DomRemoved`, and because a change of kind takes all doms off and so creates some,
unless there are none.

`WidgetsStayAgreed` and `WidgetsStayTyped` prove `WidgetsAgree` and the types, for any
number of components, fields and widgets. `ListInv` adds to `NoOrphanTimer` and
`FlagHasWidget` that ids of the list are different and were given away; without that a
cross could take two widgets off. `SamplesInv` adds to `SamplesInOrder` that the
values on their way were read in order and no earlier than what the chart shows.

`PanesStayAgreed`, `TracingStaysAgreed` and `PanesStayTyped` are about the tree, the
right pane and the trace button. `TreeInv`: the tree has rows of components only.
`RightInv`: the table is in the chosen order or the last answer on its way is
(`TableWillFollow`). `ButtonInv`: the one request on its way knows what the button
shows and what the server does (`ClickKnows`); `SegmentsInv`: what was recorded ends
before what is being recorded begins.

### The chat panel

The first part of `DaisenProofs`, of `ChatSpec`, for any number of chats, questions, calls on their
way, files, components and keys and a trace of any length:

| theorem | establishes | inductive invariant |
|---|---|---|
| `PeriodStaysSound` | `PeriodSound` | `PeriodInv`: with the types |
| `AttachmentsStayAgreed` | `AttachmentsAgree` | `FilesInv`, `TicksInv`, `WindowsInv` |
| `ChatsStayKept` | `ChatsKept` | `TalkInv` |
| `PanelStaysTrue` | `ShownIsSaid` | `TalkInv` |
| `NothingIsUnsaid` | `NothingUnsaid`, an action property | `TalkInv` |

`FilesInv` adds to `FilesAgree` that the ids given out are those up to the counter, so
the next file gets a new one. `TicksInv`: rows of the rendering are among those of the
window, those among the page's names, and only what has a row was ever ticked.
`TicksAgree` alone is not inductive: the bubble counts all ticks or, after "Select
All", the rows, which is the same only because nothing outside the rows was ever
ticked.

`TalkInv` has four parts. `HeapInv` adds to `CurrentIsSaved` that chats have different
ids and calls different questions. `HomeInv` adds to `AnswersAtHome` that a call to
the current chat's array was made from it, and so was the question the arrow keys
brought back: the answer goes to the array, and the array is saved under the current
chat, so the two have to agree before the answer comes. `PanelInv` says that a call
that is to replace its placeholder finds it in the panel. `NavInv` bounds the place
of the arrow keys by the questions of the chat. `NothingIsUnsaid` follows the
messages through every handler that assigns the history: each saved array is
replaced by a longer one that begins with it.

### The dashboard

The other two parts of `DaisenProofs`, of `DashSpec` and `DrawSpec`: any filters, axes,
ranges and numbers of components served (`DashboardAssumption`), any length of the
browser's history and number of loads; any axes and spans of a widget, any number of
drawings under way (`WidgetAssumption`).

| theorem | establishes | inductive invariant |
|---|---|---|
| `PageStaysAgreed` | `PageAgrees` | `DashInv` |
| `RangesStayShared` | `RangesShared` | `DashInv` |
| `CurvesStayAsked` | `CurvesAreAsked` | `DrawInv` |
| `DrawingsStayTyped` | `DrawTypeOK` | `DrawInv` |

`DashInv` adds to the two properties the types, that nothing is on the page before the
components are known (`NothingYet`), and that, unless the filter is no expression, names
and number of widgets are those of the filter (`WidgetsCounted`). The page and the buttons
are compared with what `_renderPage` would make of the present names and grid, and the
grid with the number of widgets and the room, so a handler that changes the names or the
width has to render, and one that does not may leave all of them (`PageKept`). The grid
is claimed while requests are under way, too: an answer with a filter that is no expression
leaves it, and what was right before has to be right after it. A widget out of step is
followed by `NotedWidget`: every handler that could lose the reload says so. Two assumptions on the constants came out of the proof: a parameter the
address lacks is none of the filters, and the two axes the page opens with are among
those to choose from.

`DrawInv` follows a drawing's data. `LatestComes`: that of the latest drawing has come or
is on its way. `SettledIsStored` and `SettledIsDrawn`: where it has come, and none of an
earlier drawing after it, it is what is stored and what the curve shows. `NoStrayCurve`:
no curve is of an axis given up. Data and pictures are told apart by the number of the
drawing, a history variable: the code has none, and this is what `overtaken` and
`leftover` except.

### Model-checked only

Of the hierarchy `OnlyADropLoses` and the
refinement of `ExclusiveStore`; of the program `FreshUntilAHit`, `CountsAreFinal`,
`ServesTheCpu`; of the monitor the call network and that messages between page and
server keep their types; of daisen the types of the dashboard, where the requests of
widgets that left the page are counted by a fold. Liveness
(`EveryRequestAnswered`, `ReachesItsReport`, `PauseTakesHold` and the like) is out of the
prover's reach, and so are the properties that the L1 is quiet only when done
(`QuietMeansDone`, which `writeback_jam` refutes in general; `ReadNotStale` without the
proviso of `ReadsStayFresh` is refuted too) and what a recursive
definition computes for every input.

## What the checks found

* `victim_loss`: a dirty line handed up by a hit loses its Dirty bit
  (`victimcache.go:200`); when the L1 drops it clean the data is gone. The one step
  that loses data is that drop (`OnlyADropLoses`).
* `writeback_stale`: `findDataLocally` serves a miss from the oldest eviction of a
  line in the write buffer. It takes a second eviction of the same line while the
  first is not acknowledged, and a slow memory. In the run a whole-line write (an
  upper-level write-back cache sends those) evicts the line again; with partial
  writes it needs other evictions that wait ahead of the first one. The benchmark's
  processor sends 8-byte writes, one request at a time, so that at most one eviction
  is under way, and never reaches this.
* `writeback_jam`: `downwardInflightTransCount` is decremented for transactions it
  was not incremented for; the reserved lane is given away and the cache can
  deadlock. Needs a bank pipeline of at least one stage; `main.go` asks for
  none.
* `writeback_counts`: `ReadHit`/`ReadMiss` count retries.
* `monitor_tick`: `/api/tick` computes the time of the tick and checks it against the
  clock in two readings, with the engine running in between; the assertion in
  `Schedule` fails. The HTTP server recovers the panic, the lock of the ticker stays
  locked, and the engine hangs when it next ticks that component: this is why
  `PauseTakesHold` and `EventsAndTicksKept` speak of runs without a tick among the
  events (`disturbed`). The same request can push between `Peek` and `Pop`, so that one
  event is lost and another handled twice.

Some properties of the pages hold only outside of a case the code does not handle.
No doc or test promises otherwise, but for the first one, which contradicts its own
comment; the models keep the case apart, most of them in a history variable, and the
property names it:

* `_showChatPanel` puts a second bubble on the button of the repository, with the
  repository's count, under the comment "Initial bubble for upload trace button"
  (`chatpanel.ts:1898-1900`). It lies on top of that button's own bubble and nothing
  updates it: once the panel was opened with parts of the repository ticked, the button
  shows their number until it is opened again, though they are unticked or sent; the
  trace's button shows nothing until something is counted. `TicksAgree` claims of the
  button's own bubble that it is right always, and of what is seen only while
  `secondBubble` is 0 or still the number ticked. Without the proviso TLC refutes it in
  nine steps: open with a key ticked, send;
* an answer that comes after its chat was left is saved under the chat shown then
  (`strayed`), one that comes after its panel was opened again is not shown (`unshown`),
  and a call that fails leaves sending disabled until the panel is rendered again;
* "Select All" and the components sent go by the rows of the rendering, not those
  of the window, when the page's names changed in between (`rows = region`); the
  period keeps a selection outside of a range read again (`moved`);
* the layout is not adjusted to a resized window (`unadjusted`);
* two clicks on the trace button before the first is answered ask for the same
  (`together`);
* a filter that is no expression, such as one half typed for a second: `new RegExp`
  (`dashboard.ts:532`) raises an exception when the page's number, the filter and the
  address are already the new ones. The page keeps the components, the grid and the
  buttons of the filter before, also after later requests and timers, until another
  filter is typed or read from the address; a page button then shows that page of the
  old names. Read from the address, the names are all components while the page is
  still the old one, or empty if the address had that filter from the start.
  `PageShown` claims the grid in any case and the page only of an expression (`currFilter`);
* a second press after a button was released outside a widget, or an axis chosen
  during a drag, leaves the widgets over different ranges (`adrift`). So does a drag
  of no length: `handleMouseDrag` marks the widget as moved only beyond a hundredth of a
  pixel (`mouseeventhandler.ts:236`) and shifts it to the range it was pressed at in any
  case, so a widget that is pressed while the answer to "Reset Zoom" or another widget's
  timer changes the range, and then moved straight up, goes back to the old range alone,
  and no timer or release brings it in step; an axis chosen with nothing on the page is not in the address (`unwritten`);
* a shift before the new axis' data is there draws the old axis' data into the new
  picture (`leftover`).

## Not modelled, and the plan

In this order:

1. **Task and component pages of daisen** (`taskpage.ts`, `taskview.ts`,
   `componentview.ts`): the task page asks for a task, its subtasks, its parent and its
   neighbours one after the other and may be asked for another task meanwhile. The
   rest of these files, and `taskrenderer.js`, `taskyindexassigner.js`,
   `segmentshading.ts` and the legends, places shapes and colours.
2. **Rest of the program**: `runBenchmark` without the victim cache (the L1 directly
   on memory); a refinement that shows the L1 of `VictimHierarchy` to be an
   abstraction of `WritebackCache`'s bottom port. `BottomSendCount`, unlike the hits
   and misses, may still change after the report: evictions can be on their way.
3. **Flusher** of the write-back cache (flush, discard, restart, pause) as an
   extension of `WritebackCache`. Properties: a flush answers after all dirty lines
   reached memory; nothing survives a discard that blocks later requests.
4. **Ports, connection and ideal memory controller** as modules: round robin,
   head-of-line blocking, respond events with retries, pause and drain. Properties:
   in-order delivery per pair, no lost notification among several components, drain
   answered only when empty.
5. **Parallel engine**: its rounds of primary and secondary events.
6. **Other caches and memories** on the same operators: write-through,
   write-around, write-evict; banked memory on `Pipelining`; TLB and MMU; data
   mover.
7. **Proofs**: that the benchmark's processor keeps to `OneEviction`; the step simulation of
   `ExclusiveStore`; `TimesAddUp` of the call network.

Left out for good: the tracers, analysis and data recording (they observe, and print
or store what they saw), daisen's server (queries over a finished trace), the code
generator, the text of the report, storage bytes and address arithmetic beyond the
line, floating-point latency averages; of the pages the drawing of shapes, colours
and texts, the conversion of markdown, and the styles.

---------------------------- MODULE SerialEngine ----------------------------
(***************************************************************************)
(* The event engine of sim/serialengine.go with the tickers of components  *)
(* and the goroutines of the monitoring server that act on them while a    *)
(* simulation runs: /api/run, /api/pause, /api/continue and /api/tick, the *)
(* four buttons of the monitor's page.                                     *)
(*                                                                         *)
(* A step is what happens between two lock operations.  Time counts        *)
(* cycles.  A handler does what Akita's handlers do: nothing, tick some    *)
(* component later, or schedule an event, now or some cycles ahead, maybe  *)
(* a secondary one.                                                        *)
(***************************************************************************)
EXTENDS Integers, FiniteSets

CONSTANTS
  Comps,        \* ticking components
  Runners,      \* goroutines started by /api/run
  Requests,     \* goroutines that serve the other three requests
  Nobody,       \* no goroutine, no component
  MaxEvents,    \* bound: events ever scheduled
  MaxTime       \* bound: the last cycle an event is scheduled for

ASSUME EngineAssumption ==
  /\ MaxEvents \in Nat \ {0} /\ MaxTime \in Nat \ {0}
  /\ Comps # {} /\ Nobody \notin Comps \cup Runners \cup Requests
  /\ Runners \cap Requests = {}

VARIABLES
  time,
  queue, secondaryQueue,     \* events scheduled and not popped
  isPaused, isPausedLock, pauseLock, singleRunLock,
  nextTickTime, lock,        \* of each component's TickScheduler
  rpc, picked,               \* where each runner is; the event of this turn
  hpc, hcomp, hat,           \* where each request is, its component and time
  scheduled, handled,        \* history: events made, how often each was handled
  disturbed                  \* history: a tick was requested among events

queues  == <<queue, secondaryQueue>>
pausing == <<isPaused, isPausedLock, pauseLock>>
tickers == <<nextTickTime, lock>>
runner  == <<rpc, picked, singleRunLock>>
request == <<hpc, hcomp, hat>>
history == <<scheduled, handled, disturbed>>
engineVars == <<time, queues, pausing, tickers, runner, request, history>>

\* comp is the component a tick event is for.
Event == [id : Nat, at : Nat, comp : Comps \cup {Nobody}, secondary : BOOLEAN]
NoEvent == [id |-> 0, at |-> 0, comp |-> Nobody, secondary |-> FALSE]

Earliest(q) == {e \in q : \A f \in q : e.at =< f.at}

\* The simulation starts with one component's first tick.
EngineInit ==
  /\ time = 0
  /\ \E c \in Comps :
       /\ queue = {[id |-> 1, at |-> 1, comp |-> c, secondary |-> FALSE]}
       /\ nextTickTime = [d \in Comps |-> IF d = c THEN 1 ELSE -1]
  /\ secondaryQueue = {}
  /\ isPaused = FALSE /\ isPausedLock = Nobody /\ pauseLock = Nobody
  /\ singleRunLock = Nobody
  /\ lock = [c \in Comps |-> Nobody]
  /\ rpc = [r \in Runners |-> "none"] /\ picked = NoEvent
  /\ hpc = [h \in Requests |-> "none"]
  /\ hcomp = [h \in Requests |-> Nobody] /\ hat = [h \in Requests |-> 0]
  /\ scheduled = 1 /\ handled = [i \in 1 .. MaxEvents |-> 0]
  /\ disturbed = FALSE

noMoreEvent == queue = {} /\ secondaryQueue = {}

\* Mutant: secondary events go first when the times are equal.
Before(p, s) == p.at < s.at

\* Whether the head of the primary queue goes before that of the secondary.
GoesFirst(p, s) == p.at =< s.at

\* TickLater's half before Schedule.
NextTick == time + 1

\* Push of an event that is made here.
PushNew(at, comp, secondary) ==
  LET e == [id |-> scheduled + 1, at |-> at, comp |-> comp,
            secondary |-> secondary]
  IN /\ scheduled < MaxEvents /\ at =< MaxTime
     /\ scheduled' = scheduled + 1
     /\ IF secondary
          THEN /\ secondaryQueue' = secondaryQueue \cup {e}
               /\ UNCHANGED queue
          ELSE /\ queue' = queue \cup {e}
               /\ UNCHANGED secondaryQueue

MidTick == {"check", "push"}

(***************************************************************************)
(* Run, in a goroutine of /api/run                                         *)
(***************************************************************************)
Goto(r, here, there) == rpc[r] = here /\ rpc' = [rpc EXCEPT ![r] = there]

RunRequested(r) ==
  /\ Goto(r, "none", "wait")
  /\ UNCHANGED <<time, queues, pausing, tickers, picked, singleRunLock,
                 request, history>>

RunStart(r) ==
  /\ Goto(r, "wait", "loop")
  /\ singleRunLock = Nobody /\ singleRunLock' = r
  /\ UNCHANGED <<time, queues, pausing, tickers, picked, request, history>>

RunEnd(r) ==
  /\ Goto(r, "loop", "none")
  /\ noMoreEvent
  /\ singleRunLock' = Nobody
  /\ UNCHANGED <<time, queues, pausing, tickers, picked, request, history>>

\* Mutant: the lock is not taken while an event is handled.
RunUnlocked(r) ==
  /\ Goto(r, "loop", "peek")
  /\ ~noMoreEvent
  /\ disturbed' = (disturbed \/ \E h \in Requests : hpc[h] \in MidTick)
  /\ UNCHANGED <<time, queues, pausing, tickers, picked,
                 singleRunLock, request, scheduled, handled>>

RunLock(r) ==
  /\ Goto(r, "loop", "peek")
  /\ ~noMoreEvent
  /\ pauseLock = Nobody /\ pauseLock' = r
  /\ disturbed' = (disturbed \/ \E h \in Requests : hpc[h] \in MidTick)
  /\ UNCHANGED <<time, queues, isPaused, isPausedLock, tickers, picked,
                 singleRunLock, request, scheduled, handled>>

\* nextEvent, as far as the comparison.  With one of the queues empty nothing
\* is compared and the other one is popped at once.
Peek(r) ==
  /\ IF queue = {} \/ secondaryQueue = {}
       THEN /\ Goto(r, "peek", "handle")
            /\ \E e \in Earliest(queue \cup secondaryQueue) :
                 /\ picked' = e
                 /\ queue' = queue \ {e}
                 /\ secondaryQueue' = secondaryQueue \ {e}
       ELSE /\ Goto(r, "peek", "pop")
            /\ \E p \in Earliest(queue), s \in Earliest(secondaryQueue) :
                 picked' = IF GoesFirst(p, s) THEN p ELSE s
            /\ UNCHANGED queues
  /\ UNCHANGED <<time, pausing, tickers, singleRunLock, request, history>>

\* What is taken off the queue is its earliest event by now; what is handled
\* is the one that was peeked.
TakenOff(q) ==
  IF picked \in Earliest(q) THEN q \ {picked}
                            ELSE q \ {CHOOSE e \in Earliest(q) : TRUE}

Pop(r) ==
  /\ Goto(r, "pop", "handle")
  /\ IF picked.secondary
       THEN secondaryQueue' = TakenOff(secondaryQueue) /\ UNCHANGED queue
       ELSE queue' = TakenOff(queue) /\ UNCHANGED secondaryQueue
  /\ UNCHANGED <<time, pausing, tickers, picked, singleRunLock, request,
                 history>>

\* An event before the current time panics, and the program with it.
Crash(r) ==
  /\ Goto(r, "handle", "crashed")
  /\ picked.at < time
  /\ UNCHANGED <<time, queues, pausing, tickers, picked, singleRunLock,
                 request, history>>

Handle(r) ==
  /\ Goto(r, "handle", "handler")
  /\ picked.at >= time
  /\ time' = picked.at
  /\ handled' = [handled EXCEPT ![picked.id] = @ + 1]
  /\ UNCHANGED <<queues, pausing, tickers, picked, singleRunLock, request,
                 scheduled, disturbed>>

HandlerDone(r) ==
  /\ Goto(r, "handler", "unlock")
  /\ UNCHANGED <<time, queues, pausing, tickers, picked, singleRunLock,
                 request, history>>

HandlerSchedules(r) ==
  /\ Goto(r, "handler", "unlock")
  /\ \E d \in 0 .. 2, secondary \in BOOLEAN :
       PushNew(time + d, Nobody, secondary)
  /\ UNCHANGED <<time, pausing, tickers, picked, singleRunLock, request,
                 handled, disturbed>>

\* TickLater from a handler, of any component: a port may have been notified.
\* picked is done with and keeps the component in mind.
HandlerTicks(r) ==
  /\ Goto(r, "handler", "tick")
  /\ NextTick =< MaxTime /\ scheduled < MaxEvents
  /\ \E c \in Comps : picked' = [NoEvent EXCEPT !.comp = c]
  /\ UNCHANGED <<time, queues, pausing, tickers, singleRunLock, request,
                 history>>

TickLater(r) ==
  LET c == picked.comp
  IN /\ Goto(r, "tick", "unlock")
     /\ lock[c] = Nobody
     /\ IF nextTickTime[c] >= NextTick
          THEN UNCHANGED <<nextTickTime, queues, scheduled>>
          ELSE /\ nextTickTime' = [nextTickTime EXCEPT ![c] = NextTick]
               /\ PushNew(NextTick, c, FALSE)
     /\ UNCHANGED <<time, pausing, lock, picked, singleRunLock, request,
                    handled, disturbed>>

\* Mutant: the last event's turn ends without the unlock.
RunUnlockUnlessLast(r) ==
  /\ Goto(r, "unlock", "loop")
  /\ pauseLock' = IF noMoreEvent THEN pauseLock ELSE Nobody
  /\ picked' = NoEvent
  /\ UNCHANGED <<time, queues, isPaused, isPausedLock, tickers, singleRunLock,
                 request, history>>

RunUnlock(r) ==
  /\ Goto(r, "unlock", "loop")
  /\ pauseLock' = Nobody /\ picked' = NoEvent
  /\ UNCHANGED <<time, queues, isPaused, isPausedLock, tickers, singleRunLock,
                 request, history>>

\* What the program does by itself once it runs.
RunStep(r) ==
  \/ RunStart(r) \/ RunEnd(r) \/ RunLock(r)
  \/ Peek(r) \/ Pop(r) \/ Crash(r) \/ Handle(r)
  \/ HandlerDone(r) \/ HandlerSchedules(r) \/ HandlerTicks(r) \/ TickLater(r)
  \/ RunUnlock(r)

(***************************************************************************)
(* The other requests                                                      *)
(***************************************************************************)
HGoto(h, here, there) == hpc[h] = here /\ hpc' = [hpc EXCEPT ![h] = there]

PauseRequested(h) ==
  /\ HGoto(h, "none", "pause")
  /\ UNCHANGED <<time, queues, pausing, tickers, runner, hcomp, hat, history>>

\* Pause holds isPausedLock while it waits for the event that is handled.
PauseEnter(h) ==
  /\ isPausedLock = Nobody
  /\ IF isPaused THEN HGoto(h, "pause", "none") /\ UNCHANGED isPausedLock
                 ELSE HGoto(h, "pause", "pausing") /\ isPausedLock' = h
  /\ UNCHANGED <<time, queues, isPaused, pauseLock, tickers, runner, hcomp,
                 hat, history>>

Pause(h) ==
  /\ HGoto(h, "pausing", "none")
  /\ pauseLock = Nobody /\ pauseLock' = h
  /\ isPaused' = TRUE /\ isPausedLock' = Nobody
  /\ UNCHANGED <<time, queues, tickers, runner, hcomp, hat, history>>

ContinueRequested(h) ==
  /\ HGoto(h, "none", "continue")
  /\ UNCHANGED <<time, queues, pausing, tickers, runner, hcomp, hat, history>>

Continue(h) ==
  /\ HGoto(h, "continue", "none")
  /\ isPausedLock = Nobody
  /\ isPaused' = FALSE
  /\ pauseLock' = IF isPaused THEN Nobody ELSE pauseLock
  /\ UNCHANGED <<time, queues, isPausedLock, tickers, runner, hcomp, hat,
                 history>>

Disturbing == disturbed' = (disturbed \/ pauseLock \in Runners)

\* TickLater of /api/tick: the time is read here and once more in Schedule.
TickRequested(h) ==
  \E c \in Comps :
    /\ lock[c] = Nobody
    /\ NextTick =< MaxTime /\ scheduled < MaxEvents
    /\ IF nextTickTime[c] >= NextTick
         THEN HGoto(h, "none", "none") /\ UNCHANGED <<hcomp, hat, tickers>>
         ELSE /\ HGoto(h, "none", "check")
              /\ hcomp' = [hcomp EXCEPT ![h] = c]
              /\ hat' = [hat EXCEPT ![h] = NextTick]
              /\ nextTickTime' = [nextTickTime EXCEPT ![c] = NextTick]
              /\ lock' = [lock EXCEPT ![c] = h]
    /\ Disturbing
    /\ UNCHANGED <<time, queues, pausing, runner, scheduled, handled>>

\* Schedule panics; the server recovers the goroutine, but the lock is kept.
ScheduleChecks(h) ==
  /\ IF hat[h] < time THEN HGoto(h, "check", "dead")
                      ELSE HGoto(h, "check", "push")
  /\ Disturbing
  /\ UNCHANGED <<time, queues, pausing, tickers, runner, hcomp, hat,
                 scheduled, handled>>

SchedulePushes(h) ==
  /\ HGoto(h, "push", "none")
  /\ PushNew(hat[h], hcomp[h], FALSE)
  /\ lock' = [lock EXCEPT ![hcomp[h]] = Nobody]
  /\ hcomp' = [hcomp EXCEPT ![h] = Nobody] /\ hat' = [hat EXCEPT ![h] = 0]
  /\ Disturbing
  /\ UNCHANGED <<time, pausing, nextTickTime, runner, handled>>

RequestStep(h) ==
  \/ PauseEnter(h) \/ Pause(h) \/ Continue(h)
  \/ ScheduleChecks(h) \/ SchedulePushes(h)

Buttons ==
  \/ \E r \in Runners : RunRequested(r)
  \/ \E h \in Requests :
       PauseRequested(h) \/ ContinueRequested(h) \/ TickRequested(h)

Alive == \A r \in Runners : rpc[r] # "crashed"

EngineNext ==
  /\ Alive
  /\ \/ Buttons
     \/ \E r \in Runners : RunStep(r)
     \/ \E h \in Requests : RequestStep(h)

\* Goroutines are scheduled, and a mutex is not kept for ever from a Pause
\* that waits for it while the engine takes and leaves it.
Pausing == \E h \in Requests : Pause(h)
EngineFairness ==
  /\ \A r \in Runners : WF_engineVars(Alive /\ RunStep(r))
  /\ \A h \in Requests : WF_engineVars(Alive /\ RequestStep(h))
  /\ SF_engineVars(Alive /\ Pausing)

EngineSpec == EngineInit /\ [][EngineNext]_engineVars /\ EngineFairness

(***************************************************************************)
(* Properties                                                              *)
(***************************************************************************)
EngineTypeOK ==
  /\ time \in Nat
  /\ queue \in SUBSET Event /\ secondaryQueue \in SUBSET Event
  /\ isPaused \in BOOLEAN /\ disturbed \in BOOLEAN
  /\ isPausedLock \in Requests \cup {Nobody}
  /\ pauseLock \in Requests \cup Runners \cup {Nobody}
  /\ singleRunLock \in Runners \cup {Nobody}
  /\ nextTickTime \in [Comps -> Int]
  /\ lock \in [Comps -> Requests \cup {Nobody}]
  /\ rpc \in [Runners -> {"none", "wait", "loop", "peek", "pop", "handle",
                          "handler", "tick", "unlock", "crashed"}]
  /\ picked \in Event
  /\ hpc \in [Requests -> {"none", "pause", "pausing", "continue", "check",
                           "push", "dead"}]
  /\ hcomp \in [Requests -> Comps \cup {Nobody}] /\ hat \in [Requests -> Nat]
  /\ scheduled \in Nat /\ handled \in [1 .. MaxEvents -> Nat]

\* Between a Pause that returned and the next Continue no event is handled
\* and time stands still, whatever else is requested and however many
\* goroutines run the engine.
PausedMeansStill ==
  [][isPaused /\ isPaused' => UNCHANGED <<time, handled>>]_engineVars

\* As long as no tick is requested while an event is handled, every event is
\* in one place and handled once at most.
EventsHandledOnce ==
  ~disturbed =>
    \A i \in 1 .. scheduled :
      LET waits == \E e \in queue \cup secondaryQueue : e.id = i
          taken == picked.id = i /\ \E r \in Runners : rpc[r] = "handle"
          next  == picked.id = i /\ \E r \in Runners : rpc[r] = "pop"
      IN /\ next => waits
         /\ \/ handled[i] = 0 /\ (waits <=> ~taken)
            \/ handled[i] = 1 /\ ~waits /\ ~taken

\* As long as no tick is requested while an event is handled, a component
\* that takes its next tick for scheduled has it in the queue, so TickLater
\* never turns down the only wake-up.
TicksAreComing ==
  ~disturbed =>
    \A c \in Comps :
      nextTickTime[c] > time /\ lock[c] = Nobody =>
        \/ \E e \in queue : e.comp = c /\ e.at = nextTickTime[c]
        \/ \E r \in Runners : rpc[r] = "handle" /\ picked.comp = c

\* A secondary event that was chosen is handled only when no primary one of
\* the same or an earlier cycle waits.
PrimaryFirst ==
  ~disturbed =>
    \A r \in Runners :
      rpc[r] = "handle" /\ picked.secondary =>
        \A e \in queue : e.at > picked.at

\* The three together: without a tick among the events, none is lost, none
\* handled twice, none out of its class's turn, and no wake-up turned down.
EventsAndTicksKept == EventsHandledOnce /\ TicksAreComing /\ PrimaryFirst

\* A Pause that waits gets hold of the engine at the end of an event, unless
\* a tick was requested among the events: then the engine may hang on the
\* lock of a ticker whose request died.
PauseTakesHold ==
  (isPausedLock # Nobody) ~> (isPausedLock = Nobody \/ disturbed)

\* "scheduling an event earlier than current time" is never reached, nor its
\* twin in Run.
NothingInThePast ==
  /\ \A h \in Requests : hpc[h] # "dead"
  /\ Alive
=============================================================================

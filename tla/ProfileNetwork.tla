--------------------------- MODULE ProfileNetwork ---------------------------
(***************************************************************************)
(* The call network the monitor draws of a CPU profile                     *)
(* (monitoring/web/src/resource.ts, pprofDataToNetwork).  A profile is a   *)
(* set of samples; a sample is a stack of functions, the innermost first,  *)
(* and the time it stands for.  A step adds one sample.                    *)
(***************************************************************************)
EXTENDS Integers, Sequences, FiniteSetsExt

CONSTANTS
  Funcs,         \* functions in the profile
  MaxStack,      \* bound: locations in a sample
  MaxSamples,    \* bound: samples in a profile
  SampleValues   \* times a sample can stand for

ASSUME ProfileAssumption ==
  /\ MaxStack \in Nat \ {0} /\ MaxSamples \in Nat
  /\ SampleValues \subseteq Nat \ {0}

VARIABLES
  samplesRead, totalTime,
  nodeTime, selfTime,   \* of each node
  edgeTime,             \* of each edge there is, by caller and callee
  stacks                \* history: the stacks read

profileVars == <<samplesRead, totalTime, nodeTime, selfTime, edgeTime, stacks>>

ProfileInit ==
  /\ samplesRead = 0 /\ totalTime = 0
  /\ nodeTime = [f \in Funcs |-> 0] /\ selfTime = [f \in Funcs |-> 0]
  /\ edgeTime = [e \in {} |-> 0] /\ stacks = {}

\* Mutant: the edge from the outermost function is left out.
InnerCalls(stack) == 1 .. Len(stack) - 2

\* The positions with a caller above them.
Calls(stack) == 1 .. Len(stack) - 1

\* getOrCreateEdge: an edge starts with no time.
Edge(caller, callee) ==
  IF <<caller, callee>> \in DOMAIN edgeTime THEN edgeTime[<<caller, callee>>]
                                            ELSE 0

\* One turn of the loop over the samples.  A function that stands in a stack
\* twice is given the sample's time twice.
AddSample(stack, value) ==
  LET times(f) == Cardinality({i \in DOMAIN stack : stack[i] = f})
      calls(e) == Cardinality({i \in Calls(stack) :
                                 <<stack[i + 1], stack[i]>> = e})
      called == {<<stack[i + 1], stack[i]>> : i \in Calls(stack)}
  IN /\ samplesRead < MaxSamples /\ samplesRead' = samplesRead + 1
     /\ totalTime' = totalTime + value
     /\ nodeTime' = [f \in Funcs |-> nodeTime[f] + value * times(f)]
     /\ selfTime' = [selfTime EXCEPT ![stack[1]] = @ + value]
     /\ edgeTime' = [e \in DOMAIN edgeTime \cup called |->
                       Edge(e[1], e[2]) + value * calls(e)]
     /\ stacks' = stacks \cup {stack}

Stacks == UNION {[1 .. k -> Funcs] : k \in 1 .. MaxStack}

ProfileNext == \E stack \in Stacks, v \in SampleValues : AddSample(stack, v)

(***************************************************************************)
(* Properties                                                              *)
(***************************************************************************)
Out(f) == MapThenSumSet(LAMBDA e : edgeTime[e],
                        {e \in DOMAIN edgeTime : e[1] = f})
Self == MapThenSumSet(LAMBDA f : selfTime[f], Funcs)
Recursive(stack) == \E i, j \in DOMAIN stack : i # j /\ stack[i] = stack[j]

\* The percentages of the network add up: what a function spends is what it
\* spends itself and what goes along the edges to the functions it calls, the
\* whole profile is what the functions spend themselves, and no function is
\* given more than the whole unless it called itself.
TimesAddUp ==
  /\ Self = totalTime
  /\ \A f \in Funcs :
       /\ nodeTime[f] = selfTime[f] + Out(f)
       /\ (\A s \in stacks : ~Recursive(s)) => nodeTime[f] =< totalTime
=============================================================================

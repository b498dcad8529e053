------------------------------ MODULE MCMonitor ------------------------------
(***************************************************************************)
(* The parts of the monitor's page and the engine behind its buttons.      *)
(* They share no state, so a behaviour follows one of them, chosen at the  *)
(* start, and the others stand still: the run explores the sum of their    *)
(* state spaces and not the product.                                       *)
(***************************************************************************)
EXTENDS SerialEngine, MonitorLayout, MonitorWidgets, MonitorPanes, ProfileNetwork

VARIABLE part

MCParts == {"engine", "layout", "widgets", "values", "tree", "right", "trace",
            "profile"}

MCInit ==
  /\ part \in MCParts
  /\ EngineInit /\ LayoutInit /\ WidgetsInit /\ PanesInit
  /\ ProfileInit
  /\ part # "engine" => nextTickTime = [c \in Comps |-> 1]
  /\ part # "layout" => \A h \in WindowHeights : windowHeight =< h
  /\ part \notin {"tree"} => names = {}
  /\ part # "trace" => ~hasTracer

MCNext ==
  /\ UNCHANGED part
  /\ \/ /\ part = "engine" /\ EngineNext
        /\ UNCHANGED <<layoutVars, widgetVars, paneVars, profileVars>>
     \/ /\ part = "layout" /\ LayoutNext
        /\ UNCHANGED <<engineVars, widgetVars, paneVars, profileVars>>
     \/ /\ part = "widgets" /\ WidgetsNext
        /\ UNCHANGED <<values, now>>
        /\ UNCHANGED <<engineVars, layoutVars, paneVars, profileVars>>
     \/ /\ part = "values" /\ WidgetsNext
        /\ UNCHANGED inside
        /\ shown # NoComponent => details' = <<>>
        /\ UNCHANGED <<engineVars, layoutVars, paneVars, profileVars>>
     \/ /\ part = "tree" /\ Tree
        /\ UNCHANGED <<engineVars, layoutVars, widgetVars, profileVars>>
     \/ /\ part = "right" /\ RightPane
        /\ UNCHANGED <<engineVars, layoutVars, widgetVars, profileVars>>
     \/ /\ part = "trace" /\ TraceButton
        /\ UNCHANGED <<engineVars, layoutVars, widgetVars, profileVars>>
     \/ /\ part = "profile" /\ ProfileNext
        /\ UNCHANGED <<engineVars, layoutVars, widgetVars, paneVars>>

mcVars ==
  <<part, engineVars, layoutVars, widgetVars, paneVars, profileVars>>

AtEngine == part = "engine" /\ UNCHANGED part
AtLayout == part = "layout" /\ UNCHANGED part
RunnerSteps(r) == AtEngine /\ Alive /\ RunStep(r)
RequestSteps(h) == AtEngine /\ Alive /\ RequestStep(h)
PauseSteps == AtEngine /\ Alive /\ Pausing
TimerSteps == AtLayout /\ refreshProgressBars
AnswerSteps(s) == AtLayout /\ (listProgressBars(s) \/ renderProgress(s))
AnimationSteps(k) == AtLayout /\ DomRemoved(k)

\* EngineFairness and LayoutFairness, each for the behaviours of its part.
MCSpec ==
  /\ MCInit /\ [][MCNext]_mcVars
  /\ \A r \in Runners : WF_engineVars(RunnerSteps(r))
  /\ \A h \in Requests : WF_engineVars(RequestSteps(h))
  /\ SF_engineVars(PauseSteps)
  /\ WF_layoutVars(TimerSteps)
  /\ \A s \in Slots : WF_layoutVars(AnswerSteps(s))
  /\ \A k \in Kinds : WF_layoutVars(AnimationSteps(k))

\* The type invariants of the four modules.
MonitorTypeOK == EngineTypeOK /\ LayoutTypeOK /\ WidgetsTypeOK /\ PanesTypeOK

\* Akita names: dots part the tokens; one name may begin another.
MCTrees ==
  SUBSET {<<"GPU", "L1">>, <<"GPU", "L2">>, <<"GPU">>, <<"Driver">>,
          <<"GPU", "L1", "Dir">>}
==============================================================================

----------------------------- MODULE MCSessions -----------------------------
(***************************************************************************)
(* Instances for TLC of the two threads that the dashboard starts and      *)
(* stops: the ML session (LiveMonitor) and the LLM triage (LlmTriage).     *)
(* Neither reads the state of the other, so a behaviour moves one of them, *)
(* its part, and leaves the other where it starts.                         *)
(***************************************************************************)
EXTENDS LiveMonitor

CONSTANTS Pollers, MaxRuns
VARIABLES part, running, stopEvent, thread, armed, set, loop, loopEvent, caller, goal, target, calm

Switch == INSTANCE LlmTriage WITH event <- loopEvent

ASSUME SwitchSane == Switch!Sane

switchVars == <<running, stopEvent, thread, armed, set, loop, loopEvent, caller, goal, target, calm>>
allVars    == <<part, vars, switchVars>>

MCInit == part \in {"sessions", "switch"} /\ Init /\ Switch!Init
MCNext == \/ part = "sessions" /\ Next        /\ UNCHANGED <<part, switchVars>>
          \/ part = "switch"   /\ Switch!Next /\ UNCHANGED <<part, vars>>
\* The fairness of each, while it is the part that moves.
MCSpec ==
  /\ MCInit /\ [][MCNext]_allVars
  /\ \A s \in Sessions : WF_vars(part = "sessions" /\ MonitorStep(s))
  /\ \A h \in Handlers : WF_vars(part = "sessions" /\ HandlerStep(h))
  /\ \A c \in Switch!Callers : WF_switchVars(part = "switch" /\ Switch!CallerStep(c))
  /\ \A r \in Switch!Runs : WF_switchVars(part = "switch" /\ Switch!LoopStep(r))

(* The properties of LlmTriage, the first with its types: requests that     *)
(* take turns leave one loop, and "running" tells of it.                    *)
OneLoop  == Switch!TypeOK /\ Switch!OneLoop /\ Switch!RunningIsTrue
StopEnds == Switch!StopEnds
=============================================================================

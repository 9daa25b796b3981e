------------------------- MODULE MCAnalysisPipeline -------------------------
(***************************************************************************)
(* Instances for TLC of an analysis (AnalysisPipeline), of the requests to *)
(* the models that it makes (LlmAnalyst), and of how threads share those   *)
(* models (LlmGate).                                                       *)
(* None reads the state of another, so a behaviour moves one of them, its  *)
(* part, and leaves the others where they start.                           *)
(***************************************************************************)
EXTENDS AnalysisPipeline

CONSTANTS Threads, Configs, MaxModels, MaxConcurrent, MinInterval, MaxSleep, LimitDelay, CreditDelay,
          OtherDelay, AffordDelay, Pause, MaxJobs,
          MaxFindings, MaxCalls, MaxFailures, MaxOthers
VARIABLES part,
          models, park, rest, held, job, wake, jobs, stale,
          parallel, second, third, phase, next, candidates, count, failures, enabled, request, others, log

Gate    == INSTANCE LlmGate WITH stack <- models
Analyst == INSTANCE LlmAnalyst

ASSUME GateAssumption == Gate!Sane
ASSUME AnalystAssumption == Analyst!Sane

gateVars    == <<models, park, rest, held, job, wake, jobs, stale>>
analystVars == <<parallel, second, third, phase, next, candidates, count, failures, enabled, request, others, log>>
allVars     == <<part, vars, gateVars, analystVars>>

MCInit ==
  /\ part \in {"pipeline", "gate", "analyst"}
  /\ Init /\ Gate!Init /\ Analyst!Init
  /\ part # "pipeline" => ~eager /\ ~bulk
  /\ part # "gate" => \E cfg \in {CHOOSE cfg \in Configs : TRUE} : models = Gate!BuildLiveStack(cfg)
  /\ part # "analyst" => ~parallel /\ ~second /\ ~third /\ candidates = 0
MCNext ==
  \/ part = "pipeline" /\ Next         /\ UNCHANGED <<part, gateVars, analystVars>>
  \/ part = "gate"     /\ Gate!Next    /\ UNCHANGED <<part, vars, analystVars>>
  \/ part = "analyst"  /\ Analyst!Next /\ UNCHANGED <<part, vars, gateVars>>
\* The fairness of each, while it is the part that moves: of the gate no more than that something
\* goes on while something can (requests are bounded, so that none is passed over for ever).
Runs == \/ part = "pipeline" /\ Move /\ UNCHANGED <<part, gateVars, analystVars>>
        \/ part = "gate" /\ (Gate!Tick \/ \E c \in Threads : Gate!Step(c)) /\ UNCHANGED <<part, vars, analystVars>>
MCSpec == MCInit /\ [][MCNext]_allVars /\ WF_allVars(Runs)

(* Properties under names of this module, with the types of the module.    *)
GateHolds     == Gate!Spaced /\ Gate!CutByTheStale
CostBounded   == Analyst!TypeOK /\ Analyst!CostBounded
NoAnswerLost  == Analyst!NoAnswerLost

(* What is started ends: the tasks of an analysis, and every request to a  *)
(* model with an answer or a refusal.                                      *)
WorkEnds == Ends /\ Gate!Answered

(* A server with a key for NVIDIA and one for OpenRouter. *)
Settings == [single |-> "", provider |-> "zai", zaiKey |-> FALSE, nvidiaKey |-> TRUE, openrouterKey |-> FALSE,
             model |-> "m3", fallback |-> "m3", second |-> ""]
TheConfigs == {[Settings EXCEPT !.openrouterKey = TRUE]}
=============================================================================

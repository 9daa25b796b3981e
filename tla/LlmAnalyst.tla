---------------------------- MODULE LlmAnalyst ----------------------------
(***************************************************************************)
(* The requests of an analysis to the models (analyst.py, ensemble.py).    *)
(* An analyst asks about one finding after the other, and a second one,    *)
(* made for the report, for the summary and the hypotheses; each keeps a   *)
(* count of its requests and gives up after failures in a row.  A request  *)
(* is an ensemble's: drafts of two models, one answer made of them, and    *)
(* a chain of three models when that yields nothing.  Chat and live        *)
(* requests use the ensemble too, with other settings and no analyst.      *)
(***************************************************************************)
EXTENDS Naturals, Sequences, FiniteSets, SequencesExt

CONSTANTS MaxFindings,   \* bound: findings of an analysis
          MaxCalls,      \* LLM_MAX_CALLS_PER_ANALYSIS (25)
          MaxFailures,   \* MAX_CONSECUTIVE_FAILURES (2)
          MaxOthers      \* bound: chat and live requests

Sane == {MaxFindings, MaxCalls, MaxOthers} \subseteq Nat  /\ MaxFailures \in Nat \ {0}

VARIABLES
  parallel, second, third,   \* settings: LLM_ENSEMBLE_PARALLEL; is there a secondary, a fallback?
  phase,      \* of the analysis: "findings", "report", "done"
  next,       \* the request that comes next: a finding, or 1 and 2 of the report
  candidates, \* findings that are medium or worse
  count, failures, enabled,  \* of the analyst
  request,    \* the request under way
  others,     \* chat and live requests so far
  log         \* history: of this analyst's requests, "yes" or "no"

settings == <<parallel, second, third, candidates>>
analyst  == <<count, failures, enabled>>
vars     == <<settings, phase, next, analyst, request, others, log>>

Models   == {"primary", "secondary", "fallback"}
Replies  == {"nothing", "text", "json"}
Places   == {"idle", "draft", "merge", "chain"}
\* drafts are what came back, todo the models still to ask; calls and heard are history: how many
\* calls, and did one of them bring what the request wants?
NoRequest == [by |-> "none", at |-> "idle", json |-> TRUE, synth |-> TRUE, again |-> FALSE,
              drafts |-> <<>>, todo |-> <<>>, calls |-> 0, heard |-> FALSE]

TypeOK ==
  /\ {parallel, second, third, enabled} \subseteq BOOLEAN
  /\ phase \in {"findings", "report", "done"}  /\ candidates \in 0 .. MaxFindings
  /\ count \in 0 .. MaxCalls  /\ failures \in Nat  /\ next \in 1 .. MaxFindings + 3
  /\ request \in [by : {"none", "analyst", "chat", "live"}, at : Places, json : BOOLEAN, synth : BOOLEAN,
                  again : BOOLEAN, drafts : Seq(Replies), todo : Seq(Models), calls : Nat, heard : BOOLEAN]
  /\ others \in 0 .. MaxOthers  /\ log \in Seq({"yes", "no"})

Init ==
  /\ parallel \in BOOLEAN  /\ second \in BOOLEAN  /\ third \in BOOLEAN
  /\ phase = "findings"  /\ next = 1  /\ candidates \in 0 .. MaxFindings
  /\ count = 0  /\ failures = 0  /\ enabled = TRUE
  /\ request = NoRequest  /\ others = 0  /\ log = <<>>

-----------------------------------------------------------------------------
(* The ensemble.  LLM_ENSEMBLE_ENABLED without a secondary is the same as off. *)

Wanted(r, reply) == IF r.json THEN reply = "json" ELSE reply # "nothing"
Both  == <<"primary", "secondary">>
Chain == <<"primary">> \o (IF second THEN <<"secondary">> ELSE <<>>) \o (IF third THEN <<"fallback">> ELSE <<>>)
Chained(r) == [r EXCEPT !.at = "chain", !.todo = Chain, !.drafts = <<>>]

\* complete_json drafts unless the request is live; complete_text drafts at once only when the
\* answer is to be long, and then, for nothing, once more in turn.
Drafted(by, synth, again) ==
  LET r == [NoRequest EXCEPT !.by = by, !.json = (by # "chat"), !.synth = synth, !.again = again]
  IN IF second /\ by # "live" THEN [r EXCEPT !.at = "draft", !.todo = Both] ELSE Chained(r)

\* The answer that drafts give without another call: the first that parses.
Usable(r) == \E i \in DOMAIN r.drafts : Wanted(r, r.drafts[i])
FirstOnly(r) == r.drafts # <<>> /\ Wanted(r, r.drafts[1])   \* mutant: the other drafts are not looked at
OfDrafts(r) == Usable(r)
Count(r, reply) == [r EXCEPT !.calls = @ + 1, !.heard = @ \/ Wanted(r, reply)]

\* What is done with an answer, or with none.
Finish(r, good) ==
  /\ request' = NoRequest
  /\ IF r.by # "analyst" THEN UNCHANGED <<phase, next, analyst, log>>
     ELSE /\ failures' = IF good THEN 0 ELSE failures + 1
          /\ enabled' = (enabled /\ failures' < MaxFailures)
          /\ next' = next + 1
          /\ log' = Append(log, IF good THEN "yes" ELSE "no")
          /\ UNCHANGED <<phase, count>>
GoOn(r) == request' = r /\ UNCHANGED <<phase, next, analyst, log>>

\* Two drafts are merged by the primary; one is the answer if it parses.
AfterDrafts(r) ==
  CASE Len(r.drafts) = 2 /\ r.synth -> GoOn([r EXCEPT !.at = "merge"])
    [] ~(Len(r.drafts) = 2 /\ r.synth) /\ OfDrafts(r) -> Finish(r, TRUE)
    [] r.drafts = <<>> /\ r.again -> GoOn([r EXCEPT !.todo = Both, !.again = FALSE])
    [] OTHER -> GoOn(Chained(r))
Draft(reply) ==
  /\ request.at = "draft"
  /\ \E i \in DOMAIN request.todo :
       /\ i = 1 \/ (parallel /\ (request.by = "analyst" \/ request.again))    \* as_completed
       /\ LET r == [Count(request, reply) EXCEPT !.todo = RemoveAt(@, i),
                      !.drafts = IF reply = "nothing" THEN @ ELSE Append(@, reply)]
          IN IF r.todo # <<>> THEN GoOn(r) ELSE AfterDrafts(r)
  /\ UNCHANGED <<settings, others>>
Merge(reply) ==
  /\ request.at = "merge"
  /\ LET r == Count(request, reply)
     IN IF Wanted(r, reply) \/ OfDrafts(r) THEN Finish(r, TRUE) ELSE GoOn(Chained(r))
  /\ UNCHANGED <<settings, others>>
Try(reply) ==
  /\ request.at = "chain"
  /\ LET r == [Count(request, reply) EXCEPT !.todo = Tail(@)]
     IN IF Wanted(r, reply) \/ r.todo = <<>> THEN Finish(r, Wanted(r, reply)) ELSE GoOn(r)
  /\ UNCHANGED <<settings, others>>

-----------------------------------------------------------------------------
(* The analyst *)

Requests == IF phase = "findings" THEN candidates ELSE 2
NeverTired == count < MaxCalls                    \* mutant: failures in a row do not disable it
Unlimited  == enabled                             \* mutant: there is no maximum
May == enabled /\ count < MaxCalls
\* _cached_or_call: nothing when it gave up, or a request.  (Its cache never has the answer: the
\* keys name the analysis or the finding, and each is asked about once.)
AskModels ==
  /\ request = NoRequest  /\ phase # "done"  /\ next <= Requests
  /\ May
  /\ count' = count + 1
  /\ request' = Drafted("analyst", TRUE, FALSE)
  /\ UNCHANGED <<settings, phase, next, failures, enabled, others, log>>
\* run_llm_analysis, then build_report, each with an analyst of its own.
Hire == count' = 0 /\ failures' = 0 /\ enabled' = TRUE /\ log' = <<>>
NextPhase ==
  /\ request = NoRequest  /\ phase # "done"  /\ (next > Requests \/ ~May)
  /\ phase' = IF phase = "findings" THEN "report" ELSE "done"
  /\ next' = 1  /\ Hire
  /\ UNCHANGED <<settings, request, others>>
Chat ==
  /\ request = NoRequest  /\ others < MaxOthers  /\ others' = others + 1
  /\ \E detailed, big \in BOOLEAN :
       request' = Drafted("chat", detailed, parallel /\ big /\ detailed)
  /\ UNCHANGED <<settings, phase, next, analyst, log>>
Live ==
  /\ request = NoRequest  /\ others < MaxOthers  /\ others' = others + 1
  /\ request' = Drafted("live", TRUE, FALSE)
  /\ UNCHANGED <<settings, phase, next, analyst, log>>

Next ==
  \/ AskModels \/ NextPhase \/ Chat \/ Live
  \/ \E reply \in Replies : Draft(reply) \/ Merge(reply) \/ Try(reply)
Spec == Init /\ [][Next]_vars

-----------------------------------------------------------------------------
(* No answer is lost on the way: a request for which some call brought what *)
(* it wants does not end empty, whichever calls failed before or after it,  *)
(* and in whatever order the drafts came.                                   *)
NoAnswerLost ==
  [][request # NoRequest /\ request' = NoRequest /\ request.by = "analyst" /\ request.heard /\ next' > next
       => Last(log') = "yes"]_vars

(* Dead models do not stall an analysis: an analyst makes at most two       *)
(* requests more than twice those that were answered, each of at most six   *)
(* calls (seven for a chat).                                                *)
Answered == {i \in DOMAIN log : log[i] = "yes"}
CostBounded ==
  /\ Len(log) <= MaxFailures * Cardinality(Answered) + MaxFailures
  /\ request.calls <= IF request.by = "chat" THEN 7 ELSE 6
=============================================================================

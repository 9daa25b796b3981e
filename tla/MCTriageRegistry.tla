-------------------------- MODULE MCTriageRegistry --------------------------
EXTENDS TriageRegistry, TLC

\* What the Suricata alerts, the LLM triage and its heuristics say of a packet.
MCReports == {[sources |-> {"suricata"}, sev |-> 2, disp |-> "open"],
              [sources |-> {"llm", "heuristic"}, sev |-> 1, disp |-> "benign"]}
MCDispositions == {"open", "benign"}

Symmetry == Permutations(Keys) \cup Permutations(Reporters)
=============================================================================

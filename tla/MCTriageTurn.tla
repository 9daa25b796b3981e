--------------------------- MODULE MCTriageTurn ---------------------------
(* Instances of TriageTurn for TLC. *)
EXTENDS TriageTurn

TheStacks == {<<"zai", "nvidia", "nvidia_secondary">>, <<"nvidia", "openrouter">>, <<"nvidia">>, <<"primary">>}
TheAnswers == {[status |-> "true_positive", conf |-> c] : c \in {1, 4}}
              \cup {[status |-> "benign", conf |-> 2]}
=============================================================================

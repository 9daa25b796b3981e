---------------------------- MODULE MCLiveTriage ----------------------------
(***************************************************************************)
(* Instances for TLC of live triage: the incidents that its threads and    *)
(* the analysts keep (TriageRegistry), a turn of the loop that judges      *)
(* packets (TriageTurn) and the windows of its heuristics                  *)
(* (TriageHeuristics).  None reads the state of another, so a behaviour    *)
(* moves one of them, its part, and leaves the others where they start.    *)
(***************************************************************************)
EXTENDS MCTriageRegistry, FiniteSets

CONSTANTS Stacks, Answers, Hits, Floor, Strong, BatchSize, Connections, Earlier, MaxPackets,
          Kinds, AuthPorts, Window, SshBurst, AuthBurst, ScanPorts, MaxSeen
VARIABLES part,
          models, parallel, feed, last, at, batch, conn, row, marked, owed, alert, times, lost, hit, accusers,
          cut, kept, ssh, auth, ports, seen

Turns   == INSTANCE TriageTurn WITH said <- accusers
Windows == INSTANCE TriageHeuristics

ASSUME TurnsAssumption == Turns!Sane
ASSUME WindowsAssumption == Windows!Sane

turnVars   == <<models, parallel, feed, last, at, batch, conn, row, marked, owed, alert, times, lost, hit,
                accusers, cut, kept>>
windowVars == <<ssh, auth, ports, seen>>
allVars    == <<part, vars, turnVars, windowVars>>

MCInit ==
  /\ part \in {"registry", "turn", "windows"}
  /\ Init /\ Turns!Init /\ Windows!Init
  /\ Cardinality(kept) <= 1
  /\ part # "turn" => models = (CHOOSE s \in Stacks : TRUE) /\ ~parallel /\ kept = {}
MCNext ==
  \/ part = "registry" /\ Next         /\ UNCHANGED <<part, turnVars, windowVars>>
  \/ part = "turn"     /\ Turns!Next   /\ UNCHANGED <<part, vars, windowVars>>
  \/ part = "windows"  /\ Windows!Next /\ UNCHANGED <<part, vars, turnVars>>
MCSpec == MCInit /\ [][MCNext]_allVars

(* What holds of the rows however their writers overlap, with what does     *)
(* when they do not; and the properties of the other modules under their    *)
(* names, the last with the types of both.                                  *)
RowsAreTrue    == UniqueRows /\ NothingInvented /\ ReportsKept
HitsAreRaised  == Turns!HitsAreRaised
OnceEach       == Turns!OnceEach
BurstsAreExact == Turns!TypeOK /\ Windows!TypeOK /\ Windows!BurstsAreExact

TheStacks  == {<<"nvidia", "openrouter">>}
Says(status, conf) == [status |-> status, conf |-> conf]
TheAnswers == {Says("true_positive", 1), Says("benign", 2)}
Kind(text, ssh_, port) == [text |-> text, ssh |-> ssh_, tcp |-> TRUE, port |-> port]
TheKinds == {Kind("scan", FALSE, 80), Kind("tool", FALSE, 21), Kind("", TRUE, 22), Kind("", FALSE, 21),
             Kind("", FALSE, 80)}
MCSymmetry == Symmetry \cup Permutations(Connections)
=============================================================================

--------------------------- MODULE Investigation ---------------------------
(***************************************************************************)
(* Indicators of an analysis looked up with OSINT providers                *)
(* (investigation/service.py, enrichment/orchestrator.py): for a finding   *)
(* in a thread that the request starts, for a flow in the request itself,  *)
(* and for all observables by the enrichment task before there are         *)
(* findings.  What comes of it is kept in three places that are written in *)
(* turn: the status in the subject, the rows of the observables, and the   *)
(* severity of the finding.  Scores are in hundredths.                     *)
(***************************************************************************)
EXTENDS Naturals, Sequences, FiniteSets

CONSTANTS Workers,     \* threads of requests, of investigations and of the enrichment task
          Findings, Flows,
          Mentions,    \* Mentions[s]: the indicators of a subject, in the order they are looked at
          Private,     \* those that are not looked up
          World,       \* World[v]: what the providers know of indicator v
          MaxTargets,  \* MAX_TARGETS_PER_INVESTIGATION (6)
          MaxLookups   \* bound: investigations ever begun

VARIABLES
  status,    \* status[s]: of the investigation of a subject
  shown,     \* shown[s]: does what it shows hold something malicious?
  raised,    \* findings with a severity above medium; none here is "info"
  observed,  \* observed[v]: is there a row, and what it says
  phase,     \* of the analysis: "parsed", "detected" or "deleted"
  work,      \* work[t]: what worker t is at
  lookups,   \* investigations begun
  cut,       \* history: subjects whose last write failed or was cut off
  mixed      \* history: observables that the task overwrote while others did

vars == <<status, shown, raised, observed, phase, work, lookups, cut, mixed>>

Subjects == Findings \cup Flows
Values   == DOMAIN World
NoVerdict == [mal |-> FALSE, conf |-> 0]
NoRow    == [row |-> FALSE, mal |-> FALSE, conf |-> 0]
NewRow   == [NoRow EXCEPT !.row = TRUE]
Task     == "enrich_all"
Nobody   == "nobody"
Idle     == [of |-> Nobody, at |-> "idle", todo |-> {}, found |-> <<>>, read |-> <<>>]

\* The task and "nobody" are no subjects.
Sane == /\ Task \notin Subjects /\ Nobody \notin Subjects
        /\ \A s \in Subjects : Mentions[s] \in Seq(Values)
        /\ MaxLookups \in Nat

TypeOK ==
  /\ status \in [Subjects -> {"none", "running", "complete", "failed"}]
  /\ shown \in [Subjects -> BOOLEAN]  /\ raised \subseteq Findings
  /\ observed \in [Values -> [row : BOOLEAN, mal : BOOLEAN, conf : 0 .. 100]]
  /\ phase \in {"parsed", "detected", "deleted"}  /\ lookups \in 0 .. MaxLookups
  /\ \A t \in Workers : /\ work[t].of \in Subjects \cup {Task, Nobody}
                        /\ work[t].at \in {"idle", "begin", "lookup", "failed", "answered", "sync", "write", "raise"}
                        /\ work[t].todo \subseteq Values
  /\ cut \subseteq Subjects  /\ mixed \subseteq Values

\* The parser has made rows for what it saw in the packets.
Init ==
  /\ status = [s \in Subjects |-> "none"]  /\ shown = [s \in Subjects |-> FALSE]
  /\ raised \in SUBSET Findings
  /\ \E seen \in SUBSET Values : observed = [v \in Values |-> IF v \in seen THEN NewRow ELSE NoRow]
  /\ phase = "parsed"
  /\ work = [t \in Workers |-> Idle]  /\ lookups = 0
  /\ cut = {}  /\ mixed = {}

-----------------------------------------------------------------------------
(* Verdicts                                                                *)

\* What makes an indicator malicious, provider by provider.
Triggers(p, n) ==
  CASE p \in {"virustotal", "otx"} -> n > 2
    [] p = "abuseipdb"             -> n > 25
    [] p = "anyrun"                -> n >= 2
    [] p \in {"whois", "greynoise"} -> n = 1      \* newly registered; classified malicious
    [] OTHER -> FALSE
Weight(p) == CASE p = "virustotal" -> 40 [] p = "abuseipdb" -> 35 [] p = "whois" -> 25 [] p = "otx" -> 25
               [] p = "anyrun" -> 35 [] p = "greynoise" -> 30 [] OTHER -> 0
\* _compute_verdict: in the order of the code, where a GreyNoise that calls the indicator benign (2)
\* takes off what came before it, and open vulnerabilities add to what is left.
NoFloor(n) == n - 20                                \* mutant: below zero
Relieved(n) == IF n > 20 THEN n - 20 ELSE 0
Verdict(e) ==
  LET says(p, n) == p \in DOMAIN e /\ e[p] = n
      part(p)    == IF p \in DOMAIN e /\ Triggers(p, e[p]) THEN Weight(p) ELSE 0
      sum        == part("virustotal") + part("abuseipdb") + part("whois") + part("otx")
                    + (IF says("anyrun", 1) THEN 15 ELSE 0) + part("anyrun")
      relieved   == IF says("greynoise", 2) THEN Relieved(sum) ELSE sum + part("greynoise")
      total      == relieved + IF "internetdb" \in DOMAIN e /\ e["internetdb"] > 0 THEN 10 ELSE 0
  IN [mal |-> \E p \in DOMAIN e : Triggers(p, e[p]), conf |-> IF total > 100 THEN 100 ELSE total]

\* extract_targets: the first that are mentioned, each once.
Targets(s) == LET before(i) == {Mentions[s][j] : j \in 1 .. i - 1}
              IN {Mentions[s][i] : i \in {n \in DOMAIN Mentions[s] : Cardinality(before(n)) < MaxTargets}}

-----------------------------------------------------------------------------
Busy(s) == \E t \in Workers : work[t].of = s
Exists(s) == phase # "deleted" /\ (s \in Findings => phase = "detected")
At(t, at) == work[t].at = at
GoTo(t, at) == work' = [work EXCEPT ![t].at = at]
End(t) == work' = [work EXCEPT ![t] = Idle]

Launch(t, w) ==
  /\ work[t] = Idle  /\ lookups < MaxLookups  /\ lookups' = lookups + 1
  /\ work' = [work EXCEPT ![t] = w]
Request(s) == [Idle EXCEPT !.of = s, !.at = "begin"]
\* investigate_finding answers "running" to a second request, from what the first has written.
Refused(f) == status[f] = "running"
AskFinding(t) ==
  /\ \E f \in Findings : Exists(f) /\ ~Refused(f) /\ Launch(t, Request(f))
  /\ UNCHANGED <<observed, status, shown, raised, phase, cut, mixed>>
AskFlow(t) ==
  /\ \E w \in Flows : Exists(w) /\ Launch(t, Request(w))
  /\ UNCHANGED <<observed, status, shown, raised, phase, cut, mixed>>

\* Says "running", and commits; without indicators there is nothing to look up.
Begin(t) ==
  LET s == work[t].of
  IN /\ At(t, "begin")
     /\ \/ /\ Exists(s)
           /\ status' = [status EXCEPT ![s] = IF Targets(s) = {} THEN "complete" ELSE "running"]
           /\ shown' = [shown EXCEPT ![s] = FALSE]
           /\ cut' = cut \ {s}
           /\ work' = [work EXCEPT ![t] = IF Targets(s) = {} THEN Idle
                                          ELSE [@ EXCEPT !.at = "lookup", !.todo = Targets(s)]]
        \/ End(t) /\ UNCHANGED <<status, shown, cut>>       \* it is gone, or the commit fails
     /\ UNCHANGED <<observed, raised, phase, lookups, mixed>>

\* The targets in turn (_enrich_ip, _enrich_domain), of which nobody sees a part: those providers
\* count whose answer is cached or comes; a call that fails adds nothing.
Answers(v) == {[p \in known |-> World[v][p]] : known \in SUBSET DOMAIN World[v]}
Found(todo) == {f \in [todo \ Private -> UNION {{Verdict(e) : e \in Answers(v)} : v \in todo \ Private}] :
                  \A v \in DOMAIN f : \E e \in Answers(v) : f[v] = Verdict(e)}
Lookup(t) ==
  /\ At(t, "lookup")  /\ work[t].of # Task
  /\ \E found \in Found(work[t].todo) :
       work' = [work EXCEPT ![t].todo = {}, ![t].at = "answered", ![t].found = found]
  /\ UNCHANGED <<observed, status, shown, raised, phase, lookups, cut, mixed>>

\* The lookup raises, or takes more than two minutes (run_async); what the task has begun may
\* go on after that.
LookupFails(t) ==
  /\ At(t, "lookup")
  /\ IF work[t].of = Task THEN End(t) ELSE GoTo(t, "failed")
  /\ UNCHANGED <<observed, status, shown, raised, phase, lookups, cut, mixed>>
SayFailed(t) ==
  LET s == work[t].of
  IN /\ At(t, "failed")  /\ End(t)
     /\ \/ Exists(s) /\ status' = [status EXCEPT ![s] = "failed"] /\ UNCHANGED cut
        \/ cut' = (IF Exists(s) THEN cut \cup {s} ELSE cut) /\ UNCHANGED status
     /\ UNCHANGED <<observed, shown, raised, phase, lookups, mixed>>

\* Is something malicious among what a worker found?
Accused(t) == \E v \in DOMAIN work[t].found : work[t].found[v].mal
SayComplete(t) ==
  LET s == work[t].of
  IN /\ At(t, "answered")  /\ s \in Subjects
     /\ \/ /\ Exists(s)
           /\ status' = [status EXCEPT ![s] = "complete"]
           /\ shown' = [shown EXCEPT ![s] = Accused(t)]
           /\ GoTo(t, "sync")
           /\ UNCHANGED cut
        \/ /\ End(t)
           /\ cut' = IF Exists(s) THEN cut \cup {s} ELSE cut
           /\ UNCHANGED <<status, shown>>
     /\ UNCHANGED <<observed, raised, phase, lookups, mixed>>

-----------------------------------------------------------------------------
(* The rows of observables, read and written in one session: the session    *)
(* writes the columns that differ from what it has read.                    *)

ReadRows(t) ==
  /\ At(t, "sync")
  /\ work' = [work EXCEPT ![t].at = "write", ![t].read = observed]
  /\ UNCHANGED <<observed, status, shown, raised, phase, lookups, cut, mixed>>

Higher(m, n) == IF m > n THEN m ELSE n
Column(old, new, now) == IF new = old THEN now ELSE new
\* _sync_observables keeps the higher confidence, and the new verdict;
LatestOnly(old, new) == new.conf                    \* mutant: the confidence of the last lookup
Confidence(old, new) == Higher(old.conf, new.conf)
Synced(old, new, now) ==
  [row |-> TRUE, mal |-> Column(old.mal, new.mal, now.mal), conf |-> Column(old.conf, Confidence(old, new), now.conf)]
\* enrich_all keeps what it found.
Replaced(old, new, now) ==
  [row |-> TRUE, mal |-> Column(old.mal, new.mal, now.mal), conf |-> Column(old.conf, new.conf, now.conf)]

\* The finding's severity comes after the rows, and also when they could not be written.
GivesUp(t) == Idle                                  \* mutant: without the rows, nothing is raised
GoesOn(t) == [work[t] EXCEPT !.at = "raise"]
AfterRows(t) == IF work[t].of \in Findings THEN GoesOn(t) ELSE Idle
WithoutRows(t) == IF work[t].of \in Findings /\ Exists(work[t].of) THEN GoesOn(t) ELSE Idle
WriteRows(t) ==
  LET found == work[t].found  read == work[t].read
      clash == \E v \in DOMAIN found : ~read[v].row /\ observed[v].row      \* uq_observable
  IN /\ At(t, "write")
     /\ \/ /\ phase # "deleted"  /\ ~clash
           /\ observed' = [v \in Values |-> IF v \in DOMAIN found THEN Synced(read[v], found[v], observed[v])
                                                                  ELSE observed[v]]
           /\ work' = [work EXCEPT ![t] = AfterRows(t)]
           /\ mixed' = mixed \cup {v \in DOMAIN found : \E u \in Workers : work[u].of = Task /\ v \in work[u].todo}
        \/ work' = [work EXCEPT ![t] = WithoutRows(t)] /\ UNCHANGED <<observed, mixed>>
     /\ UNCHANGED <<status, shown, raised, phase, lookups, cut>>
RaiseSeverity(t) ==
  LET f == work[t].of
  IN /\ At(t, "raise")  /\ End(t)
     /\ \/ raised' = (IF Accused(t) /\ Exists(f) THEN raised \cup {f} ELSE raised) /\ UNCHANGED cut
        \/ Accused(t) /\ cut' = cut \cup {f} /\ UNCHANGED raised
     /\ UNCHANGED <<observed, status, shown, phase, lookups, mixed>>

\* The enrichment task, in the mode that looks everything up; findings come after it.
BeginTask(t) ==
  /\ phase = "parsed"  /\ ~Busy(Task)  /\ \E v \in Values : observed[v].row
  /\ Launch(t, [Idle EXCEPT !.of = Task, !.at = "lookup", !.read = observed,
                            !.todo = {v \in Values : observed[v].row}])
  /\ UNCHANGED <<observed, status, shown, raised, phase, cut, mixed>>
\* Each progress commits the rows found so far, and has the others written whole.
TaskRow(t) ==
  LET todo == work[t].todo
  IN /\ work[t].of = Task  /\ phase # "deleted"
     /\ \E v \in todo :
          /\ \E e \in Answers(v), whole \in BOOLEAN :
               LET new == IF v \in Private THEN NoVerdict ELSE Verdict(e)
               IN observed' = [observed EXCEPT ![v] = Replaced(IF whole THEN @ ELSE work[t].read[v], new, @)]
          /\ work' = [work EXCEPT ![t] = IF todo = {v} THEN Idle ELSE [@ EXCEPT !.todo = todo \ {v}]]
          /\ mixed' = IF \E u \in Workers : work[u].at = "write" /\ v \in DOMAIN work[u].found
                      THEN mixed \cup {v} ELSE mixed
     /\ UNCHANGED <<status, shown, raised, phase, lookups, cut>>
Detect ==
  /\ phase = "parsed"  /\ ~Busy(Task)  /\ phase' = "detected"
  /\ UNCHANGED <<observed, status, shown, raised, work, lookups, cut, mixed>>

Delete ==
  /\ phase # "deleted"  /\ phase' = "deleted"
  /\ status' = [s \in Subjects |-> "none"]  /\ shown' = [s \in Subjects |-> FALSE]
  /\ raised' = {}  /\ observed' = [v \in Values |-> NoRow]
  /\ UNCHANGED <<work, lookups, cut, mixed>>
Restart ==
  /\ \E t \in Workers : work[t] # Idle
  /\ work' = [t \in Workers |-> Idle]
  /\ cut' = cut \cup {s \in Subjects : Busy(s)}
  /\ UNCHANGED <<observed, status, shown, raised, phase, lookups, mixed>>

Step(t) == \/ Begin(t) \/ Lookup(t) \/ LookupFails(t) \/ SayFailed(t) \/ SayComplete(t)
           \/ ReadRows(t) \/ WriteRows(t) \/ RaiseSeverity(t) \/ TaskRow(t)
Next ==
  \/ \E t \in Workers : AskFinding(t) \/ AskFlow(t) \/ BeginTask(t) \/ Step(t)
  \/ Detect \/ Delete \/ Restart
Spec == Init /\ [][Next]_vars

-----------------------------------------------------------------------------
(* No investigation is left "running" that nobody works at, which would     *)
(* refuse every later one, unless a write failed or the program ended.      *)
NoneLeftRunning == \A s \in Subjects : status[s] = "running" => Busy(s) \/ s \in cut

(* A finding whose investigation shows something malicious is raised once    *)
(* nobody works at it, also when the rows of the observables could not be    *)
(* written; and no observable is malicious with no confidence, in whatever   *)
(* order investigations write its columns, unless the enrichment task wrote  *)
(* them at the same time.                                                    *)
AccusedAreRaised ==
  \A f \in Findings : status[f] = "complete" /\ shown[f] => f \in raised \/ Busy(f) \/ f \in cut
SeverityCovers ==
  /\ AccusedAreRaised
  /\ \A v \in Values : observed[v].mal => observed[v].conf > 0 \/ v \in mixed
=============================================================================

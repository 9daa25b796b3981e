-------------------------- MODULE AnalysisPipeline --------------------------
(***************************************************************************)
(* One analysis on its way through the tasks of analysis_tasks.py: parse,  *)
(* enrich (in mode bulk), detect, llm and report.  Each task starts the    *)
(* next one with delay as the last thing it does.  On Celery that is a     *)
(* message to another worker; in eager mode it is a call, so that the      *)
(* tasks form a stack, and what a task raises reaches the handlers of all  *)
(* those below.  Meanwhile an analyst may judge findings, have the score   *)
(* of the report taken again, or delete the analysis.                      *)
(*                                                                         *)
(* Every step uses the database and may raise.  A task whose flush failed  *)
(* cannot write any more, its handler included (db_utils.py says why);     *)
(* every task has a session of its own.  Celery takes a message off the    *)
(* queue before the task runs, and never delivers it twice.                *)
(***************************************************************************)
EXTENDS Integers, Sequences, FiniteSets, SequencesExt

CONSTANT Finds      \* findings that detection may make

ASSUME FindsAssumption == IsFiniteSet(Finds)

VARIABLES
  eager,     \* CELERY_TASK_ALWAYS_EAGER
  bulk,      \* ENRICHMENT_MODE = bulk
  status,    \* of the Analysis row, or "absent" or "deleted"
  pct,       \* progress_pct
  stack,     \* the tasks, the running one last: [task, at]
  sick,      \* does the session of the running task need a rollback?
  findings,  \* Finding rows of the analysis
  fps,       \* those that are false positives
  built,     \* how many findings the score of the report being built is about
  scored,    \* how many risk_score is about
  total,     \* total_findings
  lost,      \* history: why nothing goes on although the row may not say so ("no": nothing did)
  left,      \* do lookups of an enrichment that ended with an error go on?
  asked,     \* a request for a new score, before it writes: [of, off], or NoRefresh
  judged,    \* history: a finding was judged after the report had read the findings
  split      \* history: score and count are of readings that a judgement may lie between

row    == <<status, pct>>
result == <<findings, fps, built, scored, total>>
page   == <<asked, judged, split>>
modes  == <<eager, bulk>>
vars   == <<modes, row, stack, sick, result, lost, left, page>>

Tasks     == {"run", "parse", "enrich", "detect", "llm", "report"}
Running   == {"queued", "parsing", "enriching", "analyzing"}
Statuses  == Running \cup {"absent", "deleted", "complete", "failed"}
\* off: was it read before the report was, or after a judgement that the report does not count?
NoRefresh == [of |-> -1, off |-> TRUE]
Frames    == [task : Tasks, at : {"start", "work", "save", "next", "child", "raised", "again"}]

TypeOK ==
  /\ eager \in BOOLEAN  /\ bulk \in BOOLEAN
  /\ status \in Statuses  /\ pct \in 0 .. 100
  /\ stack \in Seq(Frames)  /\ (eager \/ Len(stack) <= 1)
  /\ sick \in BOOLEAN
  /\ findings \subseteq Finds  /\ fps \subseteq Finds
  /\ built \in Nat  /\ scored \in Nat  /\ total \in Nat
  /\ lost \in {"no", "message", "write", "crash", "late"}  /\ left \in BOOLEAN
  /\ asked \in [of : Nat, off : BOOLEAN] \cup {NoRefresh}  /\ judged \in BOOLEAN  /\ split \in BOOLEAN

Init ==
  /\ eager \in BOOLEAN  /\ bulk \in BOOLEAN
  /\ status = "absent"  /\ pct = 0
  /\ stack = <<>>  /\ sick = FALSE
  /\ findings = {}  /\ fps = {}  /\ built = 0  /\ scored = 0  /\ total = 0
  /\ lost = "no"  /\ left = FALSE
  /\ asked = NoRefresh  /\ judged = FALSE  /\ split = FALSE

-----------------------------------------------------------------------------
Frame(task, at) == [task |-> task, at |-> at]
On(task, at) == stack # <<>> /\ Last(stack) = Frame(task, at)
Become(at) == [stack EXCEPT ![Len(stack)].at = at]
GoTo(at) == stack' = Become(at)

\* _update_progress: of a row that is gone, nothing.
Progress(s, p) ==
  IF status = "deleted" THEN UNCHANGED row ELSE status' = s /\ pct' = p

\* task.delay: a call in eager mode, or a message, on which the caller is done.  from says
\* where the caller waits.  A message that does not get through raises in the caller (Raise).
Delay(task, from) ==
  IF eager THEN stack' = Append(Become(from), Frame(task, "start"))
           ELSE stack' = <<Frame(task, "start")>>

Finished == stack' = <<>>        \* the callers have nothing to do after their delay either

-----------------------------------------------------------------------------
(* upload and _analyze_chunk make the row, kickoff_analysis tells the       *)
(* pipeline; when the broker is not to be had, the row stays as it is.      *)
Upload ==
  /\ status = "absent"
  /\ status' = "queued"
  /\ \/ /\ stack' = <<Frame("run", "start")>>
        /\ UNCHANGED lost
     \/ /\ ~eager
        /\ lost' = "message"
        /\ UNCHANGED stack
  /\ UNCHANGED <<modes, pct, sick, result, left, page>>

RunAnalysis ==
  /\ On("run", "start")  /\ Delay("parse", "child")
  /\ UNCHANGED <<modes, row, sick, result, lost, left, page>>

ParseStart ==
  /\ On("parse", "start")
  /\ IF status = "deleted" THEN Finished ELSE GoTo("work")
  /\ Progress("parsing", 2)
  /\ UNCHANGED <<modes, sick, result, lost, left, page>>
\* The callback of the parser counts from 0 again.
ParsePercent == {0, 24}                    \* bound: the least and the most
ParseProgress ==
  /\ On("parse", "work")  /\ \E p \in ParsePercent : Progress("parsing", p)
  /\ UNCHANGED <<modes, stack, sick, result, lost, left, page>>
\* The flows of a row that is gone do not get in: the commit updates the row, too.
ParseSave ==
  /\ On("parse", "work")  /\ status # "deleted"
  /\ Progress("parsing", 25)  /\ GoTo("next")
  /\ UNCHANGED <<modes, sick, result, lost, left, page>>
ParseNext ==
  /\ On("parse", "next")
  /\ IF bulk THEN UNCHANGED row /\ Delay("enrich", "child")
             ELSE Progress("analyzing", 40) /\ Delay("detect", "child")
  /\ UNCHANGED <<modes, sick, result, lost, left, page>>

EnrichStart ==
  /\ On("enrich", "start")  /\ Progress("enriching", 28)  /\ GoTo("work")
  /\ UNCHANGED <<modes, sick, result, lost, left, page>>
\* The lookups report their place in the list, in the order in which they end.  They run in a loop of
\* their own: run_async waits for them, and no error or time-out stops them.
EnrichPercent == {26, 40, 55}              \* bound: the least, one between, the most
EnrichProgress ==
  /\ On("enrich", "work")  /\ \E p \in EnrichPercent : Progress("enriching", p)
  /\ UNCHANGED <<modes, stack, sick, result, lost, left, page>>
EnrichLeftover ==
  /\ left  /\ \E p \in EnrichPercent : Progress("enriching", p)
  /\ lost' = IF status = "failed" THEN "late" ELSE lost
  /\ UNCHANGED <<modes, stack, sick, result, left, page>>
EnrichNext ==
  /\ On("enrich", "work")  /\ Progress("enriching", 55)  /\ Delay("detect", "child")
  /\ UNCHANGED <<modes, sick, result, lost, left, page>>

DetectStart ==
  /\ On("detect", "start")  /\ Progress("analyzing", 58)  /\ GoTo("work")
  /\ UNCHANGED <<modes, sick, result, lost, left, page>>
DoubledPercent(p) == 58 + p \div 5         \* mutant: detection spans more than its ten percent
DetectPercent(p) == 58 + p \div 10
DetectProgress ==
  /\ On("detect", "work")
  /\ \E p \in {2, 40, 100} : DetectPercent(p) > pct /\ Progress("analyzing", DetectPercent(p))
  /\ UNCHANGED <<modes, stack, sick, result, lost, left, page>>
\* scan_pcap and its exceptions change nothing but the findings; an upload and a chunk are scanned.
DetectScan ==
  /\ On("detect", "work")  /\ Progress("analyzing", 68)  /\ GoTo("save")
  /\ UNCHANGED <<modes, sick, result, lost, left, page>>
\* No flows are left of a row that is gone, but the ARP events came with the message: their
\* findings get in.
DetectSave ==
  /\ On("detect", "save")
  /\ \E new \in SUBSET Finds : findings' = findings \cup new
  /\ GoTo("next")
  /\ UNCHANGED <<modes, row, sick, fps, built, scored, total, lost, left, page>>
DetectNext ==
  /\ On("detect", "next")  /\ Progress("analyzing", 70)  /\ Delay("llm", "child")
  /\ UNCHANGED <<modes, sick, result, lost, left, page>>

LlmStart ==
  /\ On("llm", "start")  /\ Progress("analyzing", 72)  /\ GoTo("work")
  /\ UNCHANGED <<modes, sick, result, lost, left, page>>
LlmProgress ==
  /\ On("llm", "work")
  /\ \E p \in {73, 84} : p > pct /\ Progress("analyzing", p)    \* bound: first and last finding
  /\ UNCHANGED <<modes, stack, sick, result, lost, left, page>>
LlmNext ==
  /\ On("llm", "work")  /\ Progress("analyzing", 85)  /\ Delay("report", "child")
  /\ UNCHANGED <<modes, sick, result, lost, left, page>>

ReportStart ==
  /\ On("report", "start")  /\ Progress("analyzing", 92)  /\ GoTo("work")
  /\ UNCHANGED <<modes, sick, result, lost, left, page>>
\* ReportBuilder.build, once the summaries are there.
AllScored == Cardinality(findings)         \* mutant: scores false positives, too
Scored == Cardinality(findings \ fps)
ReportBuild ==
  /\ On("report", "work")  /\ status # "deleted"
  /\ built' = Scored  /\ GoTo("save")
  /\ judged' = FALSE  /\ split' = FALSE  /\ asked' = [asked EXCEPT !.off = TRUE]
  /\ UNCHANGED <<modes, row, sick, findings, fps, scored, total, lost, left>>
ReportSave ==
  /\ On("report", "save")  /\ status # "deleted"
  /\ scored' = built  /\ built' = 0  /\ total' = Cardinality(findings \ fps)
  /\ Progress("complete", 100)  /\ Finished
  /\ UNCHANGED <<modes, sick, findings, fps, lost, left, page>>

-----------------------------------------------------------------------------
(* What goes wrong *)

Works == {"start", "work", "save", "next"}

\* The step raises: an error of its own, or a flush that fails.  Only run, and the lookup with
\* which parse begins, are outside of a try.
Raise ==
  /\ stack # <<>>  /\ Last(stack).at \in Works
  /\ \/ /\ Last(stack).task # "run"  /\ GoTo("raised")
        /\ sick' \in BOOLEAN  /\ left' \in IF On("enrich", "work") THEN BOOLEAN ELSE {left}
        /\ UNCHANGED lost
     \/ /\ Last(stack) \in {Frame("run", "start"), Frame("parse", "start")}
        /\ GoTo("again")
        /\ lost' = "message"
        /\ UNCHANGED <<sick, left>>
  /\ UNCHANGED <<modes, row, result, page>>
\* What a task does with a row that is gone raises, when it needs the row.
Gone ==
  /\ status = "deleted"
  /\ On("parse", "work") \/ On("report", "work") \/ On("report", "save")
  /\ GoTo("raised")
  /\ sick' \in BOOLEAN
  /\ UNCHANGED <<modes, row, result, lost, left, page>>

\* The exception leaves the running task: the one below it, in eager mode, has it next.
Outer == Front(stack)
Thrown ==
  /\ stack' = IF Outer = <<>> THEN <<>>
              ELSE [Outer EXCEPT ![Len(Outer)].at =
                      IF @ = "child" /\ Last(Outer).task # "run" THEN "raised" ELSE "again"]
  /\ sick' = FALSE

\* The handler of parse, enrich, detect and report says so in the row, if it can.
Forgets == UNCHANGED status                \* mutant: the handler only logs
SaysFailed == status' = IF status = "deleted" THEN status ELSE "failed"
HandleFailed ==
  /\ stack # <<>>  /\ Last(stack).at = "raised"  /\ Last(stack).task # "llm"
  /\ \/ /\ ~sick  /\ SaysFailed
        /\ UNCHANGED lost
     \/ /\ lost' = "write"
        /\ UNCHANGED status
  /\ Thrown
  /\ UNCHANGED <<modes, pct, result, left, page>>
\* That of llm goes on to the report, a second time if it was the report that raised; what
\* this one raises is not handled here.
RetryAgain == "child"                      \* mutant: the handler is inside of the try
RetryFrom == "again"
HandleLlm ==
  /\ On("llm", "raised")
  /\ \/ /\ Delay("report", RetryFrom)
        /\ UNCHANGED lost
     \/ /\ ~eager  /\ stack' = <<>>
        /\ lost' = "message"
  /\ sick' = FALSE
  /\ UNCHANGED <<modes, row, result, left, page>>
Unhandled ==
  /\ stack # <<>>  /\ Last(stack).at = "again"
  /\ Thrown
  /\ UNCHANGED <<modes, row, result, lost, left, page>>

\* The worker, or the program, ends; the message had been taken.
Crash ==
  /\ stack # <<>>  /\ stack' = <<>>
  /\ sick' = FALSE  /\ lost' = "crash"  /\ left' = FALSE
  /\ UNCHANGED <<modes, row, result, page>>

-----------------------------------------------------------------------------
(* Meanwhile, the analyst *)

Feedback(f) ==
  /\ f \in findings
  /\ fps' = IF f \in fps THEN fps \ {f} ELSE fps \cup {f}
  /\ judged' = (judged \/ On("report", "save") \/ status = "complete")
  /\ split' = (split \/ On("report", "save"))
  /\ UNCHANGED <<modes, row, stack, sick, findings, built, scored, total, lost, left, asked>>

\* refresh-report reads the row and the findings, and then writes the score, of a report or of none,
\* but not the count (bound: one request at a time).  A score that is as it was is not written.
Refresh ==
  /\ asked = NoRefresh  /\ status \notin {"absent", "deleted"}
  /\ asked' = [of |-> Cardinality(findings \ fps),
                off |-> judged \/ ~(On("report", "save") \/ status = "complete")]
  /\ UNCHANGED <<modes, row, stack, sick, result, lost, left, judged, split>>
RefreshWrite ==
  /\ asked # NoRefresh  /\ asked' = NoRefresh
  /\ \/ /\ status # "deleted"  /\ scored' = asked.of
        /\ split' = (split \/ (asked.off /\ status = "complete"))
     \/ UNCHANGED <<scored, split>>
  /\ UNCHANGED <<modes, row, stack, sick, findings, fps, built, total, lost, left, judged>>

\* delete_analysis, with all that belongs to the row.
Delete ==
  /\ status \notin {"absent", "deleted"}
  /\ status' = "deleted"
  /\ findings' = {}  /\ fps' = {}
  /\ UNCHANGED <<modes, pct, stack, sick, built, scored, total, lost, left, page>>

-----------------------------------------------------------------------------
\* Steps after which the task is not where it was.
Move ==
  \/ RunAnalysis
  \/ ParseStart  \/ ParseSave  \/ ParseNext
  \/ EnrichStart  \/ EnrichNext
  \/ DetectStart  \/ DetectScan  \/ DetectSave  \/ DetectNext
  \/ LlmStart  \/ LlmNext
  \/ ReportStart  \/ ReportBuild  \/ ReportSave
  \/ Gone  \/ HandleFailed  \/ HandleLlm  \/ Unhandled

Next ==
  \/ Upload  \/ Move
  \/ ParseProgress  \/ EnrichProgress  \/ EnrichLeftover  \/ DetectProgress  \/ LlmProgress
  \/ Raise  \/ Crash
  \/ Refresh  \/ RefreshWrite  \/ Delete
  \/ \E f \in Finds : Feedback(f)

\* A task that runs goes on: its file and its lists are finite, its requests time out.
Spec == Init /\ [][Next]_vars /\ WF_vars(Move)

-----------------------------------------------------------------------------
(* An analysis nobody works on is done, unless what went wrong could not   *)
(* be written down: no message, no way to write, or no process any more;   *)
(* or it was written, and a lookup that was left running wrote over it.    *)
(* In all other cases the handlers see to it, however deep in the stack of *)
(* an eager pipeline the error was, and also when the report is retried.   *)
Final == {"absent", "deleted", "complete", "failed"}
Settled == stack = <<>> => (status \in Final \/ lost # "no")

(* From detection on, the progress that the page shows never goes back,    *)
(* across the tasks, their failures and a second report.                   *)
StageForward == [][status' \in {"analyzing", "complete"} => pct' >= pct]_vars

(* The number of findings a complete analysis shows is the number its risk *)
(* score is about, whatever is judged before the report, or after it, and  *)
(* whenever the score is taken again; but for a judgement between the      *)
(* report and the count, which ask twice, and a score taken again after a  *)
(* judgement that came after the count, or written late, of a reading from *)
(* before the report.                                                      *)
ReportCounts == (status = "complete" /\ ~split) => total = scored

(* The tasks of an analysis come to an end: no handler starts over forever.*)
Ends == (stack # <<>>) ~> (stack = <<>>)
=============================================================================

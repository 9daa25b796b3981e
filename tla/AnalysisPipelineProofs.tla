----------------------- MODULE AnalysisPipelineProofs -----------------------
(***************************************************************************)
(* Proofs about AnalysisPipeline, for every set of findings: its types,    *)
(* Settled, StageForward and ReportCounts.                                 *)
(*                                                                         *)
(* All of them go by the task that runs, the last of the stack, which is   *)
(* why the lemmas about the stack come first.  Settled needs to be known   *)
(* of an exception already while it passes a task without a handler.       *)
(***************************************************************************)
EXTENDS MCAnalysisPipeline, SequenceTheorems, FiniteSetTheorems, TLAPS

Places == {"start", "work", "save", "next", "child", "raised", "again"}
Bounded == eager \/ Len(stack) <= 1
Piled == stack \in Seq(Frames) /\ stack # <<>> /\ Bounded

\* An exception that passes a task without a handler has been written down, or lost, before.
Said == status \in Final \/ lost # "no"
PassedIsSaid == stack # <<>> /\ Last(stack).at = "again" => Said
SettledInv == Settled /\ PassedIsSaid

\* The progress from which the running task starts its next step.
Ceiling(frame) ==
  IF frame.at \notin Works THEN 92
  ELSE CASE frame.task \in {"run", "parse"} -> 25
         [] frame.task = "enrich" -> 55
         [] frame.task = "detect" -> IF frame.at = "start" THEN 58 ELSE 68
         [] frame.task = "llm"    -> IF frame.at = "start" THEN 72 ELSE 85
         [] frame.task = "report" -> 92
PercentInv ==
  /\ pct \in Nat
  /\ status = "absent" => pct = 0
  /\ stack # <<>> => pct <= Ceiling(Last(stack))

\* What the score of the report is about stays the number of findings until they are counted, and
\* then it is the number shown; so is what a request has read meanwhile.
BuildCounted ==
  On("report", "save") /\ status # "deleted" =>
    /\ ~judged => built = Cardinality(findings \ fps)
    /\ ~split => ~judged
    /\ ~asked.off => asked.of = built
ShownCounted ==
  status = "complete" =>
    /\ ~judged => total = Cardinality(findings \ fps)
    /\ ~split /\ ~asked.off => asked.of = total
CountInv ==
  /\ stack # <<>> => status \notin {"absent", "complete"}
  /\ BuildCounted  /\ ShownCounted  /\ ReportCounts

IInv == TypeOK /\ SettledInv /\ PercentInv /\ CountInv

\* Lookups that go on belong to an enrichment whose exception is on its way out, or out: detection
\* has not begun and will not, for no task starts an earlier one.
Early    == {"run", "parse", "enrich"}
Ordered  == \A i, j \in DOMAIN stack : i <= j /\ stack[j].task \in Early => stack[i].task \in Early
Leaving  == stack # <<>> => Last(stack).at \in {"raised", "again"} /\ Last(stack).task \in Early
LeftInv  == left => status \notin {"absent", "complete"} /\ Leaving
Lookups  == Ordered /\ LeftInv

-----------------------------------------------------------------------------
(* The stack *)

LEMMA TopType ==
  ASSUME stack \in Seq(Frames), stack # <<>>
  PROVE  Last(stack) \in Frames /\ Len(stack) \in Nat \ {0}
BY DEF Last

LEMMA Becomes ==
  ASSUME stack \in Seq(Frames), stack # <<>>, NEW at \in Places
  PROVE  /\ Become(at) \in Seq(Frames)  /\ Become(at) # <<>>  /\ Len(Become(at)) = Len(stack)
         /\ Last(Become(at)) = Frame(Last(stack).task, at)
<1>1. Len(stack) \in 1 .. Len(stack) /\ stack[Len(stack)] \in Frames
  OBVIOUS
<1>2. [stack[Len(stack)] EXCEPT !.at = at] \in Frames
  BY <1>1 DEF Frames, Places
<1>3. [stack[Len(stack)] EXCEPT !.at = at] = Frame(stack[Len(stack)].task, at)
  BY <1>1 DEF Frames, Frame
<1> QED BY <1>1, <1>2, <1>3 DEF Become, Last

LEMMA GoesTo ==
  ASSUME stack \in Seq(Frames), stack # <<>>, Bounded, NEW at \in Places, GoTo(at), eager' = eager
  PROVE  /\ stack' \in Seq(Frames)  /\ stack' # <<>>  /\ Bounded'
         /\ Last(stack') = Frame(Last(stack).task, at)
BY Becomes DEF GoTo, Bounded

LEMMA Delays ==
  ASSUME stack \in Seq(Frames), stack # <<>>, Bounded, NEW task \in Tasks, NEW from \in Places,
         Delay(task, from), eager' = eager
  PROVE  /\ stack' \in Seq(Frames)  /\ stack' # <<>>  /\ Bounded'
         /\ Last(stack') = Frame(task, "start")
<1>1. Frame(task, "start") \in Frames
  BY DEF Frame, Frames
<1>2. CASE eager
  <2>1. stack' = Append(Become(from), Frame(task, "start"))
    BY <1>2 DEF Delay
  <2>2. Become(from) \in Seq(Frames)
    BY Becomes
  <2> QED BY <1>1, <1>2, <2>1, <2>2 DEF Last, Bounded
<1>3. CASE ~eager
  BY <1>1, <1>3 DEF Delay, Last, Bounded
<1> QED BY <1>2, <1>3

LEMMA Throws ==
  ASSUME stack \in Seq(Frames), stack # <<>>, Bounded, Thrown, eager' = eager
  PROVE  /\ stack' \in Seq(Frames)  /\ Bounded'
         /\ stack' # <<>> => /\ Last(stack').at \in {"raised", "again"}
                             /\ Last(stack').task = "llm" => Len(stack) > 1
<1>1. Outer \in Seq(Frames) /\ Len(Outer) = Len(stack) - 1
  <2>1. Len(stack) \in Nat \ {0} /\ \A i \in 1 .. Len(stack) - 1 : stack[i] \in Frames
    OBVIOUS
  <2> DEFINE n == Len(stack) - 1
  <2>2. n \in Nat /\ n \in Int /\ 1 \in Int
    BY <2>1
  <2>3. \A i \in 1 .. n : stack[i] \in Frames
    BY <2>1
  <2> HIDE DEF n
  <2>4. SubSeq(stack, 1, n) \in Seq(Frames) /\ Len(SubSeq(stack, 1, n)) = IF 1 <= n THEN n - 1 + 1 ELSE 0
    BY <2>2, <2>3, SubSeqProperties
  <2>5. Outer = SubSeq(stack, 1, n)
    BY DEF Outer, Front, n
  <2>6. Len(SubSeq(stack, 1, n)) = n
    BY <2>2, <2>4
  <2> QED BY <2>4, <2>5, <2>6 DEF n
<1>2. CASE Outer = <<>>
  BY <1>1, <1>2 DEF Thrown, Bounded
<1>3. CASE Outer # <<>>
  <2>1. Len(Outer) \in 1 .. Len(Outer) /\ Outer[Len(Outer)] \in Frames
    BY <1>1, <1>3
  <2> DEFINE place == IF Outer[Len(Outer)].at = "child" /\ Last(Outer).task # "run" THEN "raised" ELSE "again"
  <2>2. stack' = [Outer EXCEPT ![Len(Outer)] = [@ EXCEPT !.at = place]]
    BY <1>3 DEF Thrown
  <2>3. place \in {"raised", "again"}
    OBVIOUS
  <2> HIDE DEF place
  <2>4. [Outer[Len(Outer)] EXCEPT !.at = place] \in Frames
    BY <2>1, <2>3 DEF Frames
  <2>5. [Outer[Len(Outer)] EXCEPT !.at = place].at = place
    BY <2>1 DEF Frames
  <2> QED BY <1>1, <1>3, <2>1, <2>2, <2>3, <2>4, <2>5 DEF Last, Bounded
<1> QED BY <1>2, <1>3
-----------------------------------------------------------------------------
(* Steps of a task that goes on *)

Losses == {"no", "message", "write", "crash", "late"}
PageTypes ==
  /\ built \in Nat  /\ scored \in Nat  /\ total \in Nat  /\ left \in BOOLEAN
  /\ asked \in [of : Nat, off : BOOLEAN] \cup {NoRefresh}  /\ judged \in BOOLEAN  /\ split \in BOOLEAN

LEMMA PageKept == ASSUME IInv, UNCHANGED <<built, scored, total, left, page>> PROVE PageTypes'
BY DEF IInv, TypeOK, PageTypes, page

LEMMA Ceilings ==
  /\ \A frame \in Frames : Ceiling(frame) \in 25 .. 92
  /\ \A at \in {"start", "work", "save", "next"} :
       /\ Ceiling(Frame("parse", at)) = 25  /\ Ceiling(Frame("run", at)) = 25
       /\ Ceiling(Frame("enrich", at)) = 55
       /\ Ceiling(Frame("detect", at)) = IF at = "start" THEN 58 ELSE 68
       /\ Ceiling(Frame("llm", at)) = IF at = "start" THEN 72 ELSE 85
       /\ Ceiling(Frame("report", at)) = 92
  /\ \A task \in Tasks : Ceiling(Frame(task, "raised")) = 92 /\ Ceiling(Frame(task, "again")) = 92
<1>1. \A frame \in Frames : Ceiling(frame) \in 25 .. 92
  BY DEF Ceiling, Frames, Tasks, Works
<1>2. \A task \in Tasks : Ceiling(Frame(task, "raised")) = 92 /\ Ceiling(Frame(task, "again")) = 92
  BY DEF Ceiling, Frame, Works
<1>3. ASSUME NEW at \in Works
      PROVE  /\ Ceiling(Frame("parse", at)) = 25  /\ Ceiling(Frame("run", at)) = 25
             /\ Ceiling(Frame("enrich", at)) = 55
             /\ Ceiling(Frame("detect", at)) = IF at = "start" THEN 58 ELSE 68
             /\ Ceiling(Frame("llm", at)) = IF at = "start" THEN 72 ELSE 85
             /\ Ceiling(Frame("report", at)) = 92
  BY DEF Ceiling, Frame
<1> QED BY <1>1, <1>2, <1>3 DEF Works

\* The task that runs after the step has not handed anything over.
LEMMA TaskRuns ==
  ASSUME IInv, Piled',
         NEW task \in Tasks, NEW at \in Places, Last(stack') = Frame(task, at), at = "again" => Said',
         task = "report" => at # "save",
         status' \in Statuses \ {"absent", "complete"}, pct' \in 0 .. Ceiling(Frame(task, at)),
         sick' \in BOOLEAN, lost' \in Losses, PageTypes',
         findings' \subseteq Finds, fps' \subseteq Finds, UNCHANGED modes
  PROVE  IInv'
<1>1. Frame(task, at) \in Frames /\ Ceiling(Frame(task, at)) \in 25 .. 92
  BY Ceilings DEF Frame, Frames, Places
<1>2. TypeOK'
  <2>1. pct' \in 0 .. 100
    BY <1>1
  <2>2. eager' \in BOOLEAN /\ bulk' \in BOOLEAN
    BY DEF IInv, TypeOK, modes
  <2> QED BY <2>1, <2>2 DEF TypeOK, Piled, Bounded, Losses, PageTypes
<1>3. SettledInv'
  <2>1. stack' # <<>> /\ (Last(stack').at = "again" => Said')
    BY DEF Piled, Frame
  <2> QED BY <2>1 DEF SettledInv, Settled, PassedIsSaid
<1>4. PercentInv'
  <2>1. pct' \in Nat /\ pct' <= Ceiling(Frame(task, at)) /\ status' # "absent"
    BY <1>1
  <2> QED BY <2>1 DEF PercentInv
<1>5. CountInv'
  BY DEF CountInv, BuildCounted, ShownCounted, ReportCounts, On, Frame
<1> QED BY <1>2, <1>3, <1>4, <1>5 DEF IInv

LEMMA TopFacts ==
  ASSUME IInv, NEW task, NEW at, On(task, at)
  PROVE  /\ Piled  /\ Last(stack) = Frame(task, at)
         /\ task \in Tasks  /\ at \in Places
         /\ pct \in 0 .. Ceiling(Frame(task, at))  /\ status \in Statuses \ {"absent", "complete"}
         /\ sick \in BOOLEAN  /\ lost \in Losses
         /\ findings \subseteq Finds  /\ fps \subseteq Finds
<1>1. Piled /\ stack # <<>> /\ Last(stack) = Frame(task, at)
  BY DEF IInv, TypeOK, Piled, Bounded, On
<1>2. Last(stack) \in Frames
  BY <1>1, TopType DEF Piled
<1>3. Frame(task, at).task = task /\ Frame(task, at).at = at
  BY DEF Frame
<1>4. task \in Tasks /\ at \in Places
  BY <1>1, <1>2, <1>3 DEF Frames, Places
<1>5. Ceiling(Frame(task, at)) \in 25 .. 92
  BY <1>1, <1>2, Ceilings
<1>6. pct \in 0 .. Ceiling(Frame(task, at))
  <2>1. pct \in Nat /\ pct <= Ceiling(Last(stack))
    BY <1>1 DEF IInv, PercentInv
  <2>2. Ceiling(Last(stack)) = Ceiling(Frame(task, at))
    BY <1>1
  <2> QED BY <1>5, <2>1, <2>2
<1>7. status \in Statuses \ {"absent", "complete"}
  BY <1>1 DEF IInv, TypeOK, CountInv
<1> QED BY <1>1, <1>4, <1>6, <1>7 DEF IInv, TypeOK, Losses

\* A step within a task.
LEMMA Stays ==
  ASSUME IInv, NEW task, NEW from, On(task, from), NEW to \in Places \ {"again"},
         GoTo(to) \/ (to = from /\ UNCHANGED stack),
         task = "report" => to # "save",
         UNCHANGED row \/ (status' \in Running /\ pct' \in 0 .. Ceiling(Frame(task, to))),
         Ceiling(Frame(task, from)) <= Ceiling(Frame(task, to)),
         sick' \in BOOLEAN, lost' \in Losses, findings' \subseteq Finds, PageTypes', UNCHANGED <<modes, fps>>
  PROVE  IInv'
<1> USE TopFacts
<1>1. eager' = eager /\ Last(stack).task = task
  BY DEF modes, Frame
<1>2. Piled' /\ Last(stack') = Frame(task, to)
  BY <1>1, GoesTo DEF Piled, Bounded
<1>3. Ceiling(Frame(task, from)) \in 25 .. 92 /\ Ceiling(Frame(task, to)) \in 25 .. 92
  <2>1. Frame(task, from) \in Frames /\ Frame(task, to) \in Frames
    BY DEF Frame, Frames, Places
  <2> QED BY <2>1, Ceilings
<1>4. pct' \in 0 .. Ceiling(Frame(task, to)) /\ status' \in Statuses \ {"absent", "complete"}
  <2>1. CASE UNCHANGED row
    <3>1. status' = status /\ pct' = pct
      BY <2>1 DEF row
    <3>2. pct \in 0 .. Ceiling(Frame(task, from))
      OBVIOUS
    <3> QED BY <1>3, <3>1, <3>2
  <2>2. CASE status' \in Running /\ pct' \in 0 .. Ceiling(Frame(task, to))
    BY <2>2 DEF Running, Statuses
  <2> QED BY <2>1, <2>2
<1> QED BY <1>2, <1>4, TaskRuns

\* The step with which a task starts the next one.
LEMMA HandsOver ==
  ASSUME IInv, NEW task, NEW from, On(task, from), NEW follower \in Tasks, NEW place \in Places,
         Delay(follower, place),
         UNCHANGED row \/ (status' \in Running /\ pct' \in 0 .. Ceiling(Frame(follower, "start"))),
         Ceiling(Frame(task, from)) <= Ceiling(Frame(follower, "start")),
         sick' \in BOOLEAN, UNCHANGED <<modes, result, lost, left, page>>
  PROVE  IInv'
<1> USE TopFacts
<1>1. eager' = eager
  BY DEF modes
<1>2. Piled' /\ Last(stack') = Frame(follower, "start")
  BY <1>1, Delays DEF Piled
<1>3. Ceiling(Frame(task, from)) \in 25 .. 92 /\ Ceiling(Frame(follower, "start")) \in 25 .. 92
  <2>1. Frame(task, from) \in Frames /\ Frame(follower, "start") \in Frames
    BY DEF Frame, Frames, Places
  <2> QED BY <2>1, Ceilings
<1>4. pct' \in 0 .. Ceiling(Frame(follower, "start")) /\ status' \in Statuses \ {"absent", "complete"}
  <2>1. CASE UNCHANGED row
    <3>1. status' = status /\ pct' = pct
      BY <2>1 DEF row
    <3>2. pct \in 0 .. Ceiling(Frame(task, from))
      OBVIOUS
    <3> QED BY <1>3, <3>1, <3>2
  <2>2. CASE status' \in Running /\ pct' \in 0 .. Ceiling(Frame(follower, "start"))
    BY <2>2 DEF Running, Statuses
  <2> QED BY <2>1, <2>2
<1>5. PageTypes' /\ UNCHANGED <<findings, fps>>
  BY PageKept DEF result
<1> QED BY <1>2, <1>4, <1>5, TaskRuns DEF Places
-----------------------------------------------------------------------------
(* The steps, one by one *)

Within ==
  \/ ParseProgress  \/ ParseSave
  \/ EnrichStart  \/ EnrichProgress
  \/ DetectStart  \/ DetectProgress  \/ DetectScan  \/ DetectSave
  \/ LlmStart  \/ LlmProgress
  \/ ReportStart
Between == RunAnalysis \/ ParseNext \/ EnrichNext \/ DetectNext \/ LlmNext

LEMMA WithinInv == ASSUME IInv, Within PROVE IInv'
<1>0. PageTypes'
  BY PageKept DEF Within, ParseProgress, ParseSave, EnrichStart, EnrichProgress, DetectStart, DetectProgress,
                  DetectScan, DetectSave, LlmStart, LlmProgress, ReportStart, result
<1>1. CASE ParseProgress
  <2>1. On("parse", "work")
    BY <1>1 DEF ParseProgress
  <2>2. Ceiling(Frame("parse", "work")) = 25 /\ Ceiling(Frame("parse", "work")) = 25
    BY Ceilings
  <2>3. UNCHANGED row \/ (status' \in Running /\ pct' \in 0 .. Ceiling(Frame("parse", "work")))
    BY <1>1, <2>2 DEF ParseProgress, Progress, Running, ParsePercent
  <2> QED BY <1>0, <1>1, <2>1, <2>2, <2>3, TopFacts, Stays DEF ParseProgress, Places, result
<1>2. CASE ParseSave
  <2>1. On("parse", "work")
    BY <1>2 DEF ParseSave
  <2>2. Ceiling(Frame("parse", "work")) = 25 /\ Ceiling(Frame("parse", "next")) = 25
    BY Ceilings
  <2>3. UNCHANGED row \/ (status' \in Running /\ pct' \in 0 .. Ceiling(Frame("parse", "next")))
    BY <1>2, <2>2 DEF ParseSave, Progress, Running
  <2> QED BY <1>0, <1>2, <2>1, <2>2, <2>3, TopFacts, Stays DEF ParseSave, Places, result
<1>3. CASE EnrichStart
  <2>1. On("enrich", "start")
    BY <1>3 DEF EnrichStart
  <2>2. Ceiling(Frame("enrich", "start")) = 55 /\ Ceiling(Frame("enrich", "work")) = 55
    BY Ceilings
  <2>3. UNCHANGED row \/ (status' \in Running /\ pct' \in 0 .. Ceiling(Frame("enrich", "work")))
    BY <1>3, <2>2 DEF EnrichStart, Progress, Running
  <2> QED BY <1>0, <1>3, <2>1, <2>2, <2>3, TopFacts, Stays DEF EnrichStart, Places, result
<1>4. CASE EnrichProgress
  <2>1. On("enrich", "work")
    BY <1>4 DEF EnrichProgress
  <2>2. Ceiling(Frame("enrich", "work")) = 55 /\ Ceiling(Frame("enrich", "work")) = 55
    BY Ceilings
  <2>3. UNCHANGED row \/ (status' \in Running /\ pct' \in 0 .. Ceiling(Frame("enrich", "work")))
    BY <1>4, <2>2 DEF EnrichProgress, Progress, Running, EnrichPercent
  <2> QED BY <1>0, <1>4, <2>1, <2>2, <2>3, TopFacts, Stays DEF EnrichProgress, Places, result
<1>5. CASE DetectStart
  <2>1. On("detect", "start")
    BY <1>5 DEF DetectStart
  <2>2. Ceiling(Frame("detect", "start")) = 58 /\ Ceiling(Frame("detect", "work")) = 68
    BY Ceilings
  <2>3. UNCHANGED row \/ (status' \in Running /\ pct' \in 0 .. Ceiling(Frame("detect", "work")))
    BY <1>5, <2>2 DEF DetectStart, Progress, Running
  <2> QED BY <1>0, <1>5, <2>1, <2>2, <2>3, TopFacts, Stays DEF DetectStart, Places, result
<1>6. CASE DetectProgress
  <2>1. On("detect", "work")
    BY <1>6 DEF DetectProgress
  <2>2. Ceiling(Frame("detect", "work")) = 68 /\ Ceiling(Frame("detect", "work")) = 68
    BY Ceilings
  <2>3. UNCHANGED row \/ (status' \in Running /\ pct' \in 0 .. Ceiling(Frame("detect", "work")))
    BY <1>6, <2>2 DEF DetectProgress, Progress, Running, DetectPercent
  <2> QED BY <1>0, <1>6, <2>1, <2>2, <2>3, TopFacts, Stays DEF DetectProgress, Places, result
<1>7. CASE DetectScan
  <2>1. On("detect", "work")
    BY <1>7 DEF DetectScan
  <2>2. Ceiling(Frame("detect", "work")) = 68 /\ Ceiling(Frame("detect", "save")) = 68
    BY Ceilings
  <2>3. UNCHANGED row \/ (status' \in Running /\ pct' \in 0 .. Ceiling(Frame("detect", "save")))
    BY <1>7, <2>2 DEF DetectScan, Progress, Running
  <2> QED BY <1>0, <1>7, <2>1, <2>2, <2>3, TopFacts, Stays DEF DetectScan, Places, result
<1>8. CASE DetectSave
  <2>1. On("detect", "save")
    BY <1>8 DEF DetectSave
  <2>2. Ceiling(Frame("detect", "save")) = 68 /\ Ceiling(Frame("detect", "next")) = 68
    BY Ceilings
  <2>3. UNCHANGED row \/ (status' \in Running /\ pct' \in 0 .. Ceiling(Frame("detect", "next")))
    BY <1>8, <2>2 DEF DetectSave, Progress, Running
  <2> QED BY <1>0, <1>8, <2>1, <2>2, <2>3, TopFacts, Stays DEF DetectSave, Places, result
<1>9. CASE LlmStart
  <2>1. On("llm", "start")
    BY <1>9 DEF LlmStart
  <2>2. Ceiling(Frame("llm", "start")) = 72 /\ Ceiling(Frame("llm", "work")) = 85
    BY Ceilings
  <2>3. UNCHANGED row \/ (status' \in Running /\ pct' \in 0 .. Ceiling(Frame("llm", "work")))
    BY <1>9, <2>2 DEF LlmStart, Progress, Running
  <2> QED BY <1>0, <1>9, <2>1, <2>2, <2>3, TopFacts, Stays DEF LlmStart, Places, result
<1>10. CASE LlmProgress
  <2>1. On("llm", "work")
    BY <1>10 DEF LlmProgress
  <2>2. Ceiling(Frame("llm", "work")) = 85 /\ Ceiling(Frame("llm", "work")) = 85
    BY Ceilings
  <2>3. UNCHANGED row \/ (status' \in Running /\ pct' \in 0 .. Ceiling(Frame("llm", "work")))
    BY <1>10, <2>2 DEF LlmProgress, Progress, Running
  <2> QED BY <1>0, <1>10, <2>1, <2>2, <2>3, TopFacts, Stays DEF LlmProgress, Places, result
<1>11. CASE ReportStart
  <2>1. On("report", "start")
    BY <1>11 DEF ReportStart
  <2>2. Ceiling(Frame("report", "start")) = 92 /\ Ceiling(Frame("report", "work")) = 92
    BY Ceilings
  <2>3. UNCHANGED row \/ (status' \in Running /\ pct' \in 0 .. Ceiling(Frame("report", "work")))
    BY <1>11, <2>2 DEF ReportStart, Progress, Running
  <2> QED BY <1>0, <1>11, <2>1, <2>2, <2>3, TopFacts, Stays DEF ReportStart, Places, result
<1> QED BY <1>1, <1>2, <1>3, <1>4, <1>5, <1>6, <1>7, <1>8, <1>9, <1>10, <1>11 DEF Within

LEMMA BetweenInv == ASSUME IInv, Between PROVE IInv'
<1>1. CASE RunAnalysis
  <2>1. On("run", "start") /\ Delay("parse", "child")
    BY <1>1 DEF RunAnalysis
  <2>2. Ceiling(Frame("run", "start")) = 25 /\ Ceiling(Frame("parse", "start")) = 25
    BY Ceilings
  <2>3. UNCHANGED row \/ (status' \in Running /\ pct' \in 0 .. Ceiling(Frame("parse", "start")))
    BY <1>1, <2>2 DEF RunAnalysis, Progress, Running
  <2> QED BY <1>1, <2>1, <2>2, <2>3, TopFacts, HandsOver DEF RunAnalysis, Places, Tasks
<1>2. CASE ParseNext /\ bulk
  <2>1. On("parse", "next") /\ Delay("enrich", "child")
    BY <1>2 DEF ParseNext
  <2>2. Ceiling(Frame("parse", "next")) = 25 /\ Ceiling(Frame("enrich", "start")) = 55
    BY Ceilings
  <2>3. UNCHANGED row \/ (status' \in Running /\ pct' \in 0 .. Ceiling(Frame("enrich", "start")))
    BY <1>2, <2>2 DEF ParseNext, Progress, Running
  <2> QED BY <1>2, <2>1, <2>2, <2>3, TopFacts, HandsOver DEF ParseNext, Places, Tasks
<1>3. CASE ParseNext /\ ~bulk
  <2>1. On("parse", "next") /\ Delay("detect", "child")
    BY <1>3 DEF ParseNext
  <2>2. Ceiling(Frame("parse", "next")) = 25 /\ Ceiling(Frame("detect", "start")) = 58
    BY Ceilings
  <2>3. UNCHANGED row \/ (status' \in Running /\ pct' \in 0 .. Ceiling(Frame("detect", "start")))
    BY <1>3, <2>2 DEF ParseNext, Progress, Running
  <2> QED BY <1>3, <2>1, <2>2, <2>3, TopFacts, HandsOver DEF ParseNext, Places, Tasks
<1>4. CASE EnrichNext
  <2>1. On("enrich", "work") /\ Delay("detect", "child")
    BY <1>4 DEF EnrichNext
  <2>2. Ceiling(Frame("enrich", "work")) = 55 /\ Ceiling(Frame("detect", "start")) = 58
    BY Ceilings
  <2>3. UNCHANGED row \/ (status' \in Running /\ pct' \in 0 .. Ceiling(Frame("detect", "start")))
    BY <1>4, <2>2 DEF EnrichNext, Progress, Running
  <2> QED BY <1>4, <2>1, <2>2, <2>3, TopFacts, HandsOver DEF EnrichNext, Places, Tasks
<1>5. CASE DetectNext
  <2>1. On("detect", "next") /\ Delay("llm", "child")
    BY <1>5 DEF DetectNext
  <2>2. Ceiling(Frame("detect", "next")) = 68 /\ Ceiling(Frame("llm", "start")) = 72
    BY Ceilings
  <2>3. UNCHANGED row \/ (status' \in Running /\ pct' \in 0 .. Ceiling(Frame("llm", "start")))
    BY <1>5, <2>2 DEF DetectNext, Progress, Running
  <2> QED BY <1>5, <2>1, <2>2, <2>3, TopFacts, HandsOver DEF DetectNext, Places, Tasks
<1>6. CASE LlmNext
  <2>1. On("llm", "work") /\ Delay("report", "child")
    BY <1>6 DEF LlmNext
  <2>2. Ceiling(Frame("llm", "work")) = 85 /\ Ceiling(Frame("report", "start")) = 92
    BY Ceilings
  <2>3. UNCHANGED row \/ (status' \in Running /\ pct' \in 0 .. Ceiling(Frame("report", "start")))
    BY <1>6, <2>2 DEF LlmNext, Progress, Running
  <2> QED BY <1>6, <2>1, <2>2, <2>3, TopFacts, HandsOver DEF LlmNext, Places, Tasks
<1> QED BY <1>1, <1>2, <1>3, <1>4, <1>5, <1>6 DEF Between

-----------------------------------------------------------------------------
(* Steps that raise, or end *)

LEMMA RaiseInv == ASSUME IInv, Raise \/ Gone PROVE IInv'
<1>1. PICK task \in Tasks, from \in Places : On(task, from)
  <2>1. stack # <<>> /\ stack \in Seq(Frames)
    BY DEF IInv, TypeOK, Raise, Gone, On
  <2>2. Last(stack) \in Frames
    BY <2>1, TopType
  <2> QED BY <2>1, <2>2 DEF On, Frames, Frame, Places
<1>2. Ceiling(Frame(task, from)) \in 25 .. 92 /\ Ceiling(Frame(task, "raised")) = 92
  <2>1. Frame(task, from) \in Frames
    BY DEF Frame, Frames, Places
  <2> QED BY <2>1, Ceilings
<1>0. PageTypes'
  <2>1. left' \in BOOLEAN /\ UNCHANGED <<built, scored, total, page>>
    BY DEF IInv, TypeOK, Raise, Gone, result
  <2> QED BY <2>1 DEF IInv, TypeOK, PageTypes, page
<1>3. CASE GoTo("raised")
  <2>1. /\ UNCHANGED row  /\ UNCHANGED <<modes, fps>>
        /\ sick' \in BOOLEAN  /\ lost' \in Losses  /\ findings' \subseteq Finds
    BY <1>1, TopFacts DEF Raise, Gone, result, Losses
  <2>2. "raised" \in Places \ {"again"} /\ "raised" # "save"
    BY DEF Places
  <2> QED BY <1>0, <1>1, <1>2, <1>3, <2>1, <2>2, Stays
<1>4. CASE GoTo("again") /\ lost' = "message" /\ Raise
  <2>1. eager' = eager /\ Last(stack).task = task /\ "again" \in Places
    BY <1>1, <1>4 DEF Raise, modes, On, Frame, Places
  <2>2. Piled' /\ Last(stack') = Frame(task, "again")
    BY <1>1, <1>4, <2>1, TopFacts, GoesTo DEF Piled, Bounded
  <2>3. /\ status' \in Statuses \ {"absent", "complete"}  /\ pct' = pct  /\ pct \in 0 .. Ceiling(Frame(task, from))
        /\ sick' \in BOOLEAN  /\ lost' \in Losses
        /\ findings' \subseteq Finds  /\ fps' \subseteq Finds  /\ UNCHANGED modes
    BY <1>1, <1>4, TopFacts DEF Raise, row, result, Losses
  <2>4. Ceiling(Frame(task, "again")) = 92
    BY Ceilings
  <2>5. pct' \in 0 .. Ceiling(Frame(task, "again"))
    BY <1>2, <2>3, <2>4
  <2>6. Said' /\ "again" # "save"
    BY <1>4 DEF Said
  <2> QED BY <1>0, <2>1, <2>2, <2>3, <2>5, <2>6, TaskRuns
<1> QED BY <1>3, <1>4 DEF Raise, Gone

\* Nobody works on the analysis any more.
LEMMA Stops ==
  ASSUME IInv, stack' = <<>>, Said', status' \in Statuses, pct' \in 0 .. 100,
         status' = "absent" => pct' = 0, ReportCounts', ShownCounted',
         sick' \in BOOLEAN, lost' \in Losses, PageTypes', UNCHANGED <<modes, findings, fps>>
  PROVE  IInv'
<1>1. TypeOK'
  <2>1. eager' \in BOOLEAN /\ bulk' \in BOOLEAN /\ {findings', fps'} \subseteq SUBSET Finds
    BY DEF IInv, TypeOK, modes
  <2>2. stack' \in Seq(Frames) /\ Len(stack') <= 1
    OBVIOUS
  <2> QED BY <2>1, <2>2 DEF TypeOK, Losses, PageTypes
<1>2. SettledInv'
  BY DEF SettledInv, Settled, PassedIsSaid, Said
<1>3. PercentInv'
  BY DEF PercentInv
<1>4. CountInv'
  BY DEF CountInv, BuildCounted, On
<1> QED BY <1>1, <1>2, <1>3, <1>4 DEF IInv

LEMMA Thrower ==
  ASSUME IInv, stack # <<>>, Thrown, Said', status' \in Statuses \ {"absent", "complete"}, pct' = pct,
         lost' \in Losses, UNCHANGED <<modes, result, left, page>>
  PROVE  IInv'
<1>1. stack \in Seq(Frames) /\ Bounded /\ eager' = eager
  BY DEF IInv, TypeOK, Bounded, modes
<1>2. stack' \in Seq(Frames) /\ Bounded' /\ (stack' # <<>> => Last(stack').at \in {"raised", "again"})
  BY <1>1, Throws
<1>3. pct \in 0 .. 92
  <2>1. Last(stack) \in Frames
    BY <1>1, TopType
  <2>2. PICK c \in 25 .. 92 : c = Ceiling(Last(stack))
    BY <2>1, Ceilings
  <2>3. pct \in Nat /\ pct <= c
    BY <2>2 DEF IInv, PercentInv
  <2> QED BY <2>3
<1>4. /\ sick' \in BOOLEAN  /\ findings' \subseteq Finds  /\ fps' \subseteq Finds
      /\ PageTypes'  /\ UNCHANGED <<modes, findings, fps>>
  BY PageKept DEF IInv, TypeOK, Thrown, result
<1>5. CASE stack' = <<>>
  <2>1. ReportCounts' /\ ShownCounted'
    BY DEF ReportCounts, ShownCounted
  <2>2. pct' \in 0 .. 100
    BY <1>3
  <2> QED BY <1>4, <1>5, <2>1, <2>2, Stops
<1>6. CASE stack' # <<>>
  <2>1. Last(stack)' \in Frames
    BY <1>2, <1>6, LenProperties, ElementOfSeq DEF Last
  <2>2. PICK task \in Tasks, at \in {"raised", "again"} : Last(stack') = Frame(task, at)
    BY <1>2, <1>6, <2>1 DEF Frames, Frame
  <2>3. pct' \in 0 .. Ceiling(Frame(task, at)) /\ at \in Places /\ at # "save"
    BY <1>3, Ceilings DEF Places
  <2>4. Piled'
    BY <1>2, <1>6 DEF Piled
  <2> QED BY <1>4, <2>2, <2>3, <2>4, TaskRuns
<1> QED BY <1>5, <1>6

LEMMA BusyFacts ==
  ASSUME IInv, stack # <<>>
  PROVE  /\ stack \in Seq(Frames)  /\ Last(stack) \in Frames  /\ On(Last(stack).task, Last(stack).at)
         /\ status \in Statuses \ {"absent", "complete"}  /\ pct \in 0 .. 100
         /\ sick \in BOOLEAN  /\ lost \in Losses
<1>1. stack \in Seq(Frames)
  BY DEF IInv, TypeOK
<1>2. Last(stack) \in Frames
  BY <1>1, TopType
<1>3. On(Last(stack).task, Last(stack).at)
  BY <1>2 DEF On, Frames, Frame
<1> QED BY <1>1, <1>2, <1>3 DEF IInv, TypeOK, CountInv, Losses

LEMMA HandleInv == ASSUME IInv, HandleFailed \/ HandleLlm \/ Unhandled PROVE IInv'
<1>0. stack # <<>>
  BY DEF HandleFailed, HandleLlm, Unhandled, On
<1>1. CASE HandleFailed
  <2>1. Thrown /\ pct' = pct /\ UNCHANGED <<modes, result, left, page>>
    BY <1>1 DEF HandleFailed
  <2>2. Said' /\ status' \in Statuses \ {"absent", "complete"} /\ lost' \in Losses
    BY <1>0, <1>1, BusyFacts DEF HandleFailed, SaysFailed, Said, Final, Statuses, Losses
  <2> QED BY <1>0, <2>1, <2>2, Thrower
<1>2. CASE Unhandled
  <2>1. Thrown /\ status' = status /\ pct' = pct /\ lost' = lost /\ UNCHANGED <<modes, result, left, page>>
    BY <1>2 DEF Unhandled, row
  <2>2. Said
    BY <1>0, <1>2 DEF Unhandled, IInv, SettledInv, PassedIsSaid
  <2>3. Said'
    BY <2>1, <2>2 DEF Said
  <2> QED BY <1>0, <2>1, <2>3, BusyFacts, Thrower
<1>3. CASE HandleLlm /\ Delay("report", RetryFrom) /\ lost' = lost
  <2>1. /\ On("llm", "raised")  /\ Delay("report", "again")  /\ UNCHANGED row
        /\ UNCHANGED <<modes, result, lost, left, page>>
    BY <1>3 DEF HandleLlm, RetryFrom
  <2>2. Ceiling(Frame("llm", "raised")) = 92 /\ Ceiling(Frame("report", "start")) = 92
    BY Ceilings DEF Tasks
  <2>3. sick' \in BOOLEAN /\ "again" \in Places /\ "report" \in Tasks
    BY <1>3 DEF HandleLlm, Places, Tasks
  <2> QED BY <2>1, <2>2, <2>3, HandsOver
<1>4. CASE HandleLlm /\ stack' = <<>> /\ lost' = "message"
  <2>1. /\ status' = status /\ pct' = pct /\ sick' = FALSE
        /\ UNCHANGED <<modes, findings, fps>> /\ PageTypes'
    BY <1>4, PageKept DEF HandleLlm, row, result
  <2>2. Said' /\ lost' \in Losses
    BY <1>4 DEF Said, Losses
  <2>3. ReportCounts' /\ ShownCounted'
    BY <1>0, <2>1, BusyFacts DEF ReportCounts, ShownCounted
  <2> QED BY <1>0, <1>4, <2>1, <2>2, <2>3, BusyFacts, Stops
<1> QED BY <1>1, <1>2, <1>3, <1>4 DEF HandleLlm

LEMMA CrashInv == ASSUME IInv, Crash PROVE IInv'
<1>1. /\ stack # <<>> /\ stack' = <<>>
      /\ status' = status /\ pct' = pct /\ sick' = FALSE /\ lost' = "crash"
      /\ UNCHANGED <<modes, findings, fps>> /\ PageTypes'
  BY DEF Crash, row, result, page, IInv, TypeOK, PageTypes
<1>2. Said' /\ lost' \in Losses
  BY <1>1 DEF Said, Losses
<1>3. ReportCounts' /\ ShownCounted'
  BY <1>1, BusyFacts DEF ReportCounts, ShownCounted
<1> QED BY <1>1, <1>2, <1>3, BusyFacts, Stops

LEMMA ParseStartInv == ASSUME IInv, ParseStart PROVE IInv'
<1>p. PageTypes'
  BY PageKept DEF ParseStart, result
<1>0. On("parse", "start") /\ stack # <<>>
  BY DEF ParseStart, On
<1>1. CASE status = "deleted"
  <2>1. /\ stack' = <<>> /\ status' = status /\ pct' = pct /\ sick' = sick /\ lost' = lost
        /\ UNCHANGED <<modes, findings, fps>>
    BY <1>1 DEF ParseStart, Finished, Progress, row, result
  <2>2. Said' /\ ReportCounts' /\ ShownCounted'
    BY <1>1, <2>1 DEF Said, Final, ReportCounts, ShownCounted
  <2> QED BY <1>p, <1>0, <2>1, <2>2, BusyFacts, Stops
<1>2. CASE status # "deleted"
  <2>1. Ceiling(Frame("parse", "start")) = 25 /\ Ceiling(Frame("parse", "work")) = 25
    BY Ceilings
  <2>2. UNCHANGED row \/ (status' \in Running /\ pct' \in 0 .. Ceiling(Frame("parse", "work")))
    BY <1>2, <2>1 DEF ParseStart, Progress, Running
  <2> QED BY <1>p, <1>0, <1>2, <2>1, <2>2, TopFacts, Stays DEF ParseStart, Places, result
<1> QED BY <1>1, <1>2

LEMMA Countable == ASSUME IInv PROVE Cardinality(findings \ fps) \in Nat
<1>1. findings \subseteq Finds
  BY DEF IInv, TypeOK
<1>2. IsFiniteSet(findings \ fps)
  BY <1>1, FindsAssumption, FS_Subset
<1> QED BY <1>2, FS_CardinalityType

LEMMA ReportInv == ASSUME IInv, ReportBuild \/ ReportSave PROVE IInv'
<1>1. CASE ReportBuild
  <2>1. /\ On("report", "work")  /\ GoTo("save")  /\ eager' = eager
        /\ status' = status /\ pct' = pct /\ sick' = sick /\ lost' = lost
        /\ findings' = findings /\ fps' = fps /\ built' = Cardinality(findings \ fps)
    BY <1>1 DEF ReportBuild, Scored, row, modes
  <2>0. Cardinality(findings \ fps) \in Nat
    BY Countable
  <2>p. PageTypes' /\ asked'.off = TRUE /\ judged' = FALSE /\ split' = FALSE
    <3>a. asked \in [of : Nat, off : BOOLEAN] \/ asked = NoRefresh
      BY DEF IInv, TypeOK
    <3>b. asked' = [asked EXCEPT !.off = TRUE]
      BY <1>1 DEF ReportBuild
    <3>1. asked' \in [of : Nat, off : BOOLEAN] \cup {NoRefresh} /\ asked'.off = TRUE
      <4>1. CASE asked = NoRefresh
        <5>1. asked' = NoRefresh
          BY <3>b, <4>1 DEF NoRefresh
        <5> QED BY <5>1 DEF NoRefresh
      <4>2. CASE asked \in [of : Nat, off : BOOLEAN]
        <5>1. asked' \in [of : Nat, off : BOOLEAN] /\ asked'.off = TRUE
          BY <3>b, <4>2
        <5> QED BY <5>1
      <4> QED BY <3>a, <4>1, <4>2
    <3>2. scored' = scored /\ total' = total /\ left' = left /\ judged' = FALSE /\ split' = FALSE
      BY <1>1 DEF ReportBuild
    <3> QED BY <2>0, <2>1, <3>1, <3>2 DEF IInv, TypeOK, PageTypes
  <2>2. Piled /\ Last(stack).task = "report"
    <3>1. Piled /\ Last(stack) = Frame("report", "work")
      BY <2>1, TopFacts
    <3> QED BY <3>1 DEF Frame
  <2>3. Piled' /\ Last(stack') = Frame("report", "save")
    BY <2>1, <2>2, GoesTo DEF Piled, Places
  <2>4. Ceiling(Frame("report", "work")) = 92 /\ Ceiling(Frame("report", "save")) = 92
    BY Ceilings
  <2>5. TypeOK'
    <3>1. eager' \in BOOLEAN /\ bulk' \in BOOLEAN
      BY <1>1, <2>1 DEF IInv, TypeOK, ReportBuild, modes
    <3> QED BY <2>p, <2>1, <2>3, <3>1 DEF IInv, TypeOK, Piled, Bounded, PageTypes
  <2>6. SettledInv'
    <3>1. stack' # <<>> /\ Last(stack').at # "again"
      BY <2>3 DEF Piled, Frame
    <3> QED BY <3>1 DEF SettledInv, Settled, PassedIsSaid
  <2>7. PercentInv'
    <3>1. pct \in Nat /\ pct <= 92 /\ status # "absent"
      BY <2>1, <2>4, TopFacts
    <3> QED BY <2>1, <2>3, <2>4, <3>1 DEF PercentInv
  <2>8. CountInv'
    <3>1. status' \notin {"absent", "complete"} /\ built' = Cardinality(findings' \ fps')
      BY <2>1, TopFacts
    <3> QED BY <2>p, <3>1 DEF CountInv, BuildCounted, ShownCounted, ReportCounts
  <2> QED BY <2>5, <2>6, <2>7, <2>8 DEF IInv
<1>2. CASE ReportSave
  <2>1. /\ On("report", "save") /\ status # "deleted"
        /\ stack' = <<>> /\ status' = "complete" /\ pct' = 100
        /\ sick' = sick /\ lost' = lost /\ UNCHANGED <<modes, findings, fps>>
    BY <1>2 DEF ReportSave, Finished, Progress
  <2>2. /\ total' = Cardinality(findings \ fps) /\ scored' = built /\ built' = 0
        /\ left' = left /\ asked' = asked /\ judged' = judged /\ split' = split
    BY <1>2 DEF ReportSave, page
  <2>p. PageTypes'
    <3>1. total' \in Nat
      BY <2>2, Countable
    <3> QED BY <2>2, <3>1 DEF IInv, TypeOK, PageTypes
  <2>3. ReportCounts' /\ ShownCounted'
    <3>1. /\ ~judged => built = Cardinality(findings \ fps)
          /\ ~split => ~judged
          /\ ~asked.off => asked.of = built
      BY <2>1 DEF IInv, CountInv, BuildCounted
    <3> QED BY <2>1, <2>2, <3>1 DEF ReportCounts, ShownCounted
  <2>4. Said' /\ status' \in Statuses /\ pct' \in 0 .. 100
    BY <2>1 DEF Said, Final, Statuses
  <2> QED BY <2>p, <2>1, <2>3, <2>4, TopFacts, Stops
<1> QED BY <1>1, <1>2

LEMMA UploadInv == ASSUME IInv, Upload PROVE IInv'
<1>1. /\ status = "absent" /\ status' = "queued" /\ pct' = pct /\ pct = 0 /\ sick' = sick
      /\ UNCHANGED <<modes, findings, fps>> /\ PageTypes'
      /\ sick \in BOOLEAN /\ lost \in Losses
      /\ findings \subseteq Finds /\ fps \subseteq Finds
  BY PageKept DEF Upload, IInv, TypeOK, PercentInv, result, Losses
<1>2. CASE stack' = <<Frame("run", "start")>> /\ UNCHANGED lost
  <2>1. Frame("run", "start") \in Frames
    BY DEF Frame, Frames, Tasks
  <2>2. Piled' /\ Last(stack') = Frame("run", "start")
    BY <1>2, <2>1 DEF Piled, Bounded, Last
  <2>3. Ceiling(Frame("run", "start")) = 25
    BY Ceilings
  <2>4. pct' \in 0 .. Ceiling(Frame("run", "start")) /\ status' \in Statuses \ {"absent", "complete"}
    BY <1>1, <2>3 DEF Statuses, Running
  <2>5. "run" \in Tasks /\ "start" \in Places
    BY DEF Tasks, Places
  <2> QED BY <1>1, <1>2, <2>2, <2>4, <2>5, TaskRuns
<1>3. CASE lost' = "message" /\ UNCHANGED stack
  <2>1. stack = <<>>
    BY <1>1 DEF IInv, CountInv
  <2>2. Said' /\ ReportCounts' /\ ShownCounted' /\ lost' \in Losses /\ status' \in Statuses /\ pct' \in 0 .. 100
    BY <1>1, <1>3 DEF Said, ReportCounts, ShownCounted, Losses, Statuses, Running
  <2> QED BY <1>1, <1>3, <2>1, <2>2, Stops
<1> QED BY <1>2, <1>3 DEF Upload

LEMMA FeedbackInv == ASSUME IInv, NEW f \in Finds, Feedback(f) PROVE IInv'
<1>1. /\ UNCHANGED <<eager, bulk, status, pct, stack, sick, findings, built, scored, total, lost, left, asked>>
      /\ judged' = (judged \/ On("report", "save") \/ status = "complete")
      /\ split' = (split \/ On("report", "save"))
      /\ fps' = IF f \in fps THEN fps \ {f} ELSE fps \cup {f}
  BY DEF Feedback, modes, row
<1>2. judged' \in BOOLEAN /\ split' \in BOOLEAN
  BY <1>1, Zenon DEF IInv, TypeOK, On
<1>3. TypeOK'
  BY <1>1, <1>2 DEF IInv, TypeOK
<1>4. SettledInv'
  BY <1>1 DEF IInv, SettledInv, Settled, PassedIsSaid, Said
<1>5. PercentInv'
  BY <1>1 DEF IInv, PercentInv
<1>6. CountInv'
  <2>1. BuildCounted'
    BY <1>1 DEF IInv, CountInv, BuildCounted, On
  <2>2. ShownCounted'
    BY <1>1 DEF IInv, CountInv, ShownCounted
  <2>3. ReportCounts'
    BY <1>1 DEF IInv, CountInv, ReportCounts
  <2> QED BY <1>1, <2>1, <2>2, <2>3 DEF IInv, CountInv
<1> QED BY <1>3, <1>4, <1>5, <1>6 DEF IInv

LEMMA RefreshInv == ASSUME IInv, Refresh PROVE IInv'
<1>1. /\ UNCHANGED <<eager, bulk, status, pct, stack, sick, findings, fps, built, scored, total, lost, left, judged, split>>
      /\ status \notin {"absent", "deleted"}
  BY DEF Refresh, modes, row, result
<1>2. asked' = [of |-> Cardinality(findings \ fps), off |-> judged \/ ~(On("report", "save") \/ status = "complete")]
  BY DEF Refresh
<1>3. asked'.of = Cardinality(findings \ fps) /\ (~asked'.off => ~judged /\ (On("report", "save") \/ status = "complete"))
  BY <1>2
<1>4. asked' \in [of : Nat, off : BOOLEAN] \cup {NoRefresh}
  <2>1. (judged \/ ~(On("report", "save") \/ status = "complete")) \in BOOLEAN
    OBVIOUS
  <2> QED BY <1>2, <2>1, Countable
<1>5. TypeOK'
  BY <1>1, <1>4 DEF IInv, TypeOK
<1>6. SettledInv'
  BY <1>1 DEF IInv, SettledInv, Settled, PassedIsSaid, Said
<1>7. PercentInv'
  BY <1>1 DEF IInv, PercentInv
<1>8. CountInv'
  <2>1. BuildCounted'
    BY <1>1, <1>3 DEF IInv, CountInv, BuildCounted, On
  <2>2. ShownCounted'
    BY <1>1, <1>3 DEF IInv, CountInv, ShownCounted
  <2>3. ReportCounts'
    BY <1>1 DEF IInv, CountInv, ReportCounts
  <2> QED BY <1>1, <2>1, <2>2, <2>3 DEF IInv, CountInv
<1> QED BY <1>5, <1>6, <1>7, <1>8 DEF IInv

LEMMA RefreshWriteInv == ASSUME IInv, RefreshWrite PROVE IInv'
<1>1. /\ UNCHANGED <<eager, bulk, status, pct, stack, sick, findings, fps, built, total, lost, left, judged>>
      /\ asked # NoRefresh /\ asked' = NoRefresh
  BY DEF RefreshWrite, modes, row
<1>2. asked'.off = TRUE /\ asked' \in [of : Nat, off : BOOLEAN] \cup {NoRefresh}
  BY <1>1 DEF NoRefresh
<1>3. \/ scored' = asked.of /\ split' = (split \/ (asked.off /\ status = "complete"))
      \/ scored' = scored /\ split' = split
  BY DEF RefreshWrite
<1>4. scored' \in Nat /\ split' \in BOOLEAN
  <2>1. asked.of \in Nat
    BY <1>1 DEF IInv, TypeOK
  <2>2. split' \in BOOLEAN
    BY <1>3, Zenon DEF IInv, TypeOK
  <2> QED BY <1>3, <2>1, <2>2 DEF IInv, TypeOK
<1>5. TypeOK'
  BY <1>1, <1>2, <1>4 DEF IInv, TypeOK
<1>6. SettledInv'
  BY <1>1 DEF IInv, SettledInv, Settled, PassedIsSaid, Said
<1>7. PercentInv'
  BY <1>1 DEF IInv, PercentInv
<1>8. CountInv'
  <2>1. BuildCounted'
    BY <1>1, <1>2, <1>3, BusyFacts DEF IInv, CountInv, BuildCounted, On
  <2>2. ShownCounted'
    BY <1>1, <1>2 DEF IInv, CountInv, ShownCounted
  <2>3. ReportCounts'
    BY <1>1, <1>3 DEF IInv, CountInv, ShownCounted, ReportCounts
  <2> QED BY <1>1, <2>1, <2>2, <2>3 DEF IInv, CountInv
<1> QED BY <1>5, <1>6, <1>7, <1>8 DEF IInv

LEMMA StutterInv == IInv /\ UNCHANGED vars => IInv'
<1> SUFFICES ASSUME IInv, UNCHANGED vars PROVE IInv'
  OBVIOUS
<1>1. UNCHANGED <<eager, bulk, status, pct, stack, sick, findings, fps, built, scored, total, lost, left, asked, judged, split>>
  BY DEF vars, modes, row, result, page
<1>2. TypeOK'
  BY <1>1 DEF IInv, TypeOK
<1>3. SettledInv'
  BY <1>1 DEF IInv, SettledInv, Settled, PassedIsSaid, Said
<1>4. PercentInv'
  BY <1>1 DEF IInv, PercentInv
<1>5. CountInv'
  BY <1>1 DEF IInv, CountInv, BuildCounted, ShownCounted, ReportCounts, On
<1> QED BY <1>2, <1>3, <1>4, <1>5 DEF IInv

LEMMA LeftoverInv == ASSUME IInv, Lookups, EnrichLeftover PROVE IInv'
<1>1. /\ left  /\ status \notin {"absent", "complete"}  /\ Leaving
      /\ UNCHANGED <<eager, bulk, stack, sick, result, left, page>>
  BY DEF EnrichLeftover, Lookups, LeftInv, modes
<1>2. CASE status = "deleted"
  <2>1. UNCHANGED vars
    BY <1>1, <1>2 DEF EnrichLeftover, Progress, vars, modes
  <2> QED BY <2>1, StutterInv
<1>3. CASE status # "deleted"
  <2>1. PICK p \in 26 .. 55 : pct' = p
    BY <1>3 DEF EnrichLeftover, Progress, EnrichPercent
  <2>2. status' = "enriching" /\ lost' = IF status = "failed" THEN "late" ELSE lost
    BY <1>3 DEF EnrichLeftover, Progress
  <2>3. Said => Said'
    BY <1>1, <1>3, <2>2 DEF Said, Final
  <2>4. TypeOK'
    <3>1. status' \in Statuses /\ pct' \in 0 .. 100
      BY <2>1, <2>2 DEF Statuses, Running
    <3>2. lost' \in Losses
      BY <2>2 DEF IInv, TypeOK, Losses
    <3> QED BY <1>1, <3>1, <3>2 DEF IInv, TypeOK, Losses, result, page
  <2>5. SettledInv'
    BY <1>1, <2>3 DEF IInv, SettledInv, Settled, PassedIsSaid, Said
  <2>6. PercentInv'
    <3>1. stack # <<>> => Ceiling(Last(stack)) = 92
      BY <1>1 DEF Leaving, Ceiling, Works
    <3>2. stack' = stack /\ pct' \in Nat /\ pct' <= 92 /\ status' # "absent"
      BY <1>1, <2>1, <2>2
    <3> QED BY <3>1, <3>2 DEF PercentInv
  <2>7. CountInv'
    <3>1. stack' = stack /\ ~On("report", "save")
      BY <1>1 DEF Leaving, On, Frame
    <3> QED BY <2>2, <3>1 DEF CountInv, BuildCounted, ShownCounted, ReportCounts, On
  <2> QED BY <2>4, <2>5, <2>6, <2>7 DEF IInv
<1> QED BY <1>2, <1>3

LEMMA DeleteInv == ASSUME IInv, Delete PROVE IInv'
<1>1. /\ UNCHANGED <<eager, bulk, pct, stack, sick, built, scored, total, lost, left, asked, judged, split>>
      /\ status' = "deleted" /\ findings' = {} /\ fps' = {}
  BY DEF Delete, modes, page
<1>2. TypeOK'
  BY <1>1 DEF IInv, TypeOK, Statuses
<1>3. SettledInv'
  BY <1>1 DEF SettledInv, Settled, PassedIsSaid, Said, Final
<1>4. PercentInv'
  BY <1>1 DEF IInv, PercentInv
<1>5. CountInv'
  BY <1>1 DEF CountInv, BuildCounted, ShownCounted, ReportCounts
<1> QED BY <1>2, <1>3, <1>4, <1>5 DEF IInv

LEMMA InitInv == Init => IInv
<1> SUFFICES ASSUME Init PROVE IInv
  OBVIOUS
<1>1. TypeOK
  <2>1. stack \in Seq(Frames) /\ Len(stack) <= 1
    BY DEF Init
  <2>2. eager \in BOOLEAN /\ bulk \in BOOLEAN
    BY DEF Init
  <2>3. /\ status = "absent" /\ pct = 0 /\ sick = FALSE /\ lost = "no" /\ judged = FALSE /\ left = FALSE
        /\ findings = {} /\ fps = {} /\ built = 0 /\ scored = 0 /\ total = 0 /\ asked = NoRefresh /\ split = FALSE
    BY DEF Init
  <2>4. status \in Statuses /\ pct \in 0 .. 100
    BY <2>3 DEF Statuses
  <2> QED BY <2>1, <2>2, <2>3, <2>4 DEF TypeOK
<1>2. SettledInv /\ PercentInv /\ CountInv
  BY DEF Init, SettledInv, Settled, PassedIsSaid, Final, PercentInv, CountInv, BuildCounted, ShownCounted,
         ReportCounts, On
<1> QED BY <1>1, <1>2 DEF IInv

LEMMA StepInv == ASSUME IInv, Lookups, [Next]_vars PROVE IInv'
<1>1. CASE Move
  BY <1>1, WithinInv, BetweenInv, RaiseInv, HandleInv, ParseStartInv, ReportInv DEF Move, Within, Between
<1>2. CASE ParseProgress \/ EnrichProgress \/ DetectProgress \/ LlmProgress
  BY <1>2, WithinInv DEF Within
<1> QED BY <1>1, <1>2, UploadInv, LeftoverInv, RaiseInv, CrashInv, RefreshInv, RefreshWriteInv, FeedbackInv,
           DeleteInv, StutterInv DEF Next

-----------------------------------------------------------------------------
(* Lookups that go on *)

LEMMA OuterFacts ==
  ASSUME stack \in Seq(Frames), stack # <<>>
  PROVE  /\ Outer \in Seq(Frames)  /\ DOMAIN Outer \subseteq DOMAIN stack
         /\ \A i \in DOMAIN Outer : Outer[i] = stack[i]
<1> DEFINE n == Len(stack) - 1
<1>1. n \in Nat /\ DOMAIN stack = 1 .. n + 1 /\ \A i \in 1 .. n : stack[i] \in Frames
  OBVIOUS
<1>2. Outer = SubSeq(stack, 1, n)
  BY DEF Outer, Front
<1> HIDE DEF n
<1>3. SubSeq(stack, 1, n) \in Seq(Frames) /\ DOMAIN SubSeq(stack, 1, n) = 1 .. n
      /\ \A i \in 1 .. n : SubSeq(stack, 1, n)[i] = stack[i]
  BY <1>1
<1> QED BY <1>1, <1>2, <1>3

\* How the tasks on the stack change: not at all, at the end of it, or one more that may follow.
LEMMA OrderKept ==
  ASSUME IInv, Ordered,
         \/ stack' = stack \/ stack' = <<>>
         \/ stack # <<>> /\ \E at \in Places : GoTo(at)
         \/ stack' = <<Frame("run", "start")>>
         \/ stack # <<>> /\ \E task \in Tasks, from \in Places :
              Delay(task, from) /\ (task \in Early => Last(stack).task \in Early)
         \/ stack # <<>> /\ Thrown
  PROVE  Ordered'
<1>1. stack \in Seq(Frames)
  BY DEF IInv, TypeOK
<1>2. CASE stack' = stack \/ stack' = <<>> \/ stack' = <<Frame("run", "start")>>
  BY <1>2 DEF Ordered, Frame
<1>3. ASSUME stack # <<>>, NEW at \in Places
      PROVE  /\ DOMAIN Become(at) = DOMAIN stack /\ Become(at) \in Seq(Frames)
             /\ \A i \in DOMAIN stack : Become(at)[i].task = stack[i].task
  <2>1. Len(stack) \in DOMAIN stack /\ stack[Len(stack)] \in Frames /\ \A i \in DOMAIN stack : stack[i] \in Frames
    BY <1>1, <1>3
  <2>2. [stack[Len(stack)] EXCEPT !.at = at].task = stack[Len(stack)].task
    BY <2>1 DEF Frames
  <2>3. Become(at) = [stack EXCEPT ![Len(stack)] = [stack[Len(stack)] EXCEPT !.at = at]]
    BY <1>1 DEF Become
  <2> QED BY <1>1, <1>3, <2>1, <2>2, <2>3, Becomes
<1>4. ASSUME stack # <<>>, NEW at \in Places, GoTo(at) PROVE Ordered'
  <2>1. stack' = Become(at)
    BY <1>4 DEF GoTo
  <2> QED BY <1>3, <1>4, <2>1 DEF Ordered
<1>5. ASSUME stack # <<>>, NEW task \in Tasks, NEW from \in Places, Delay(task, from),
             task \in Early => Last(stack).task \in Early
      PROVE  Ordered'
  <2>1. CASE eager
    <3>1. stack' = Append(Become(from), Frame(task, "start")) /\ Become(from) \in Seq(Frames)
      BY <1>3, <1>5, <2>1 DEF Delay
    <3>2. Len(Become(from)) = Len(stack) /\ Len(stack) \in Nat \ {0}
      BY <1>1, <1>5, Becomes
    <3>3. Frame(task, "start") \in Frames /\ Frame(task, "start").task = task
      BY DEF Frame, Frames
    <3> DEFINE n == Len(stack)
    <3>4. /\ DOMAIN stack' = 1 .. n + 1  /\ stack'[n + 1].task = task
          /\ \A i \in 1 .. n : stack'[i].task = stack[i].task
      BY <1>1, <1>3, <1>5, <3>1, <3>2, <3>3
    <3>5. task \in Early => \A i \in 1 .. n : stack[i].task \in Early
      <4>1. n \in DOMAIN stack /\ Last(stack) = stack[n] /\ DOMAIN stack = 1 .. n
        BY <1>1, <3>2 DEF Last
      <4> QED BY <1>5, <4>1, <3>2 DEF Ordered
    <3>6. DOMAIN stack = 1 .. n /\ n \in Nat
      BY <1>1, <3>2
    <3> HIDE DEF n
    <3>7. SUFFICES ASSUME NEW i \in 1 .. n + 1, NEW j \in 1 .. n + 1, i <= j, stack'[j].task \in Early
                   PROVE  stack'[i].task \in Early
      BY <3>4 DEF Ordered
    <3>8. CASE j = n + 1
      BY <3>4, <3>5, <3>6, <3>7, <3>8
    <3>9. CASE j # n + 1
      <4>1. i \in 1 .. n /\ j \in 1 .. n
        BY <3>6, <3>7, <3>9
      <4> QED BY <3>4, <3>6, <3>7, <4>1 DEF Ordered
    <3> QED BY <3>8, <3>9
  <2>2. CASE ~eager
    BY <1>5, <2>2 DEF Delay, Ordered, Frame
  <2> QED BY <2>1, <2>2
<1>6. ASSUME stack # <<>>, Thrown PROVE Ordered'
  <2>1. Outer \in Seq(Frames) /\ DOMAIN Outer \subseteq DOMAIN stack /\ \A i \in DOMAIN Outer : Outer[i] = stack[i]
    BY <1>1, <1>6, OuterFacts
  <2>2. DOMAIN stack' = DOMAIN Outer /\ \A i \in DOMAIN Outer : stack'[i].task = Outer[i].task
    <3>1. CASE Outer = <<>>
      BY <1>6, <3>1 DEF Thrown
    <3>2. CASE Outer # <<>>
      <4> DEFINE place == IF Outer[Len(Outer)].at = "child" /\ Last(Outer).task # "run" THEN "raised" ELSE "again"
      <4>1. stack' = [Outer EXCEPT ![Len(Outer)] = [@ EXCEPT !.at = place]]
        BY <1>6, <3>2 DEF Thrown
      <4> HIDE DEF place
      <4>2. Len(Outer) \in DOMAIN Outer /\ Outer[Len(Outer)] \in Frames
        BY <2>1, <3>2
      <4>3. [Outer[Len(Outer)] EXCEPT !.at = place].task = Outer[Len(Outer)].task
        BY <4>2 DEF Frames
      <4> QED BY <2>1, <4>1, <4>2, <4>3
    <3> QED BY <3>1, <3>2
  <2> QED BY <2>1, <2>2 DEF Ordered
<1> QED BY <1>2, <1>4, <1>5, <1>6

\* Where an exception goes, if all that it meets begin before detection.
LEMMA LeavingThrown == ASSUME IInv, Ordered, stack # <<>>, Leaving, Thrown PROVE Leaving'
<1>1. stack \in Seq(Frames) /\ Bounded
  BY DEF IInv, TypeOK, Bounded
<1>2. Outer \in Seq(Frames) /\ DOMAIN Outer \subseteq DOMAIN stack /\ \A i \in DOMAIN Outer : Outer[i] = stack[i]
  BY <1>1, OuterFacts
<1>3. CASE Outer = <<>>
  BY <1>3 DEF Thrown, Leaving
<1>4. CASE Outer # <<>>
  <2> DEFINE place == IF Outer[Len(Outer)].at = "child" /\ Last(Outer).task # "run" THEN "raised" ELSE "again"
  <2>1. stack' = [Outer EXCEPT ![Len(Outer)] = [@ EXCEPT !.at = place]]
    BY <1>4 DEF Thrown
  <2>2. place \in {"raised", "again"}
    OBVIOUS
  <2> HIDE DEF place
  <2>3. Len(Outer) \in DOMAIN Outer /\ Outer[Len(Outer)] \in Frames /\ Len(Outer) \in Nat
    BY <1>2, <1>4
  <2>4. [Outer[Len(Outer)] EXCEPT !.at = place].task = Outer[Len(Outer)].task /\ [Outer[Len(Outer)] EXCEPT !.at = place].at = place
    BY <2>3 DEF Frames
  <2>5. Last(stack') = [Outer[Len(Outer)] EXCEPT !.at = place]
    BY <1>2, <2>1, <2>3 DEF Last
  <2>6. stack[Len(Outer)].task \in Early
    <3>1. Len(Outer) \in DOMAIN stack /\ Len(stack) \in DOMAIN stack /\ Len(Outer) <= Len(stack)
      BY <1>1, <1>2, <2>3
    <3>2. stack[Len(stack)].task \in Early
      BY DEF Leaving, Last
    <3> QED BY <3>1, <3>2 DEF Ordered
  <2> QED BY <1>2, <2>2, <2>3, <2>4, <2>5, <2>6 DEF Leaving
<1> QED BY <1>3, <1>4

LEMMA LookupsStep == ASSUME IInv, Lookups, [Next]_vars PROVE Lookups'
<1>1. Ordered'
  <2>1. CASE Move
    <3>1. ASSUME NEW task \in Tasks, NEW from \in Places, NEW at \in Places, On(task, at), NEW then \in Tasks,
                 Delay(then, from), then \in Early => task \in Early
          PROVE  Ordered'
      <4>1. stack # <<>> /\ Last(stack).task = task
        BY <3>1 DEF On, Frame
      <4> QED BY <3>1, <4>1, OrderKept DEF Lookups
    <3>2. CASE RunAnalysis \/ ParseNext \/ EnrichNext \/ DetectNext \/ LlmNext
      BY <3>1, <3>2 DEF RunAnalysis, ParseNext, EnrichNext, DetectNext, LlmNext, Tasks, Places, Early
    <3>3. CASE HandleLlm
      <4>1. On("llm", "raised") /\ (Delay("report", "again") \/ stack' = <<>>)
        BY <3>3 DEF HandleLlm, RetryFrom
      <4>2. "report" \notin Early /\ {"llm", "report"} \subseteq Tasks /\ {"again", "raised"} \subseteq Places
        BY DEF Tasks, Places, Early
      <4> QED BY <3>1, <4>1, <4>2, OrderKept DEF Lookups
    <3>4. CASE ParseStart \/ ParseSave \/ EnrichStart \/ DetectStart \/ DetectScan \/ DetectSave \/ LlmStart
               \/ ReportStart \/ ReportBuild \/ ReportSave \/ Gone
      <4>1. stack # <<>> /\ (stack' = <<>> \/ \E at \in Places : GoTo(at))
        BY <3>4 DEF ParseStart, ParseSave, EnrichStart, DetectStart, DetectScan, DetectSave, LlmStart,
                    ReportStart, ReportBuild, ReportSave, Gone, On, Finished, Places
      <4> QED BY <4>1, OrderKept DEF Lookups
    <3>5. CASE HandleFailed \/ Unhandled
      BY <3>5, OrderKept DEF HandleFailed, Unhandled, Lookups
    <3> QED BY <2>1, <3>2, <3>3, <3>4, <3>5 DEF Move
  <2>2. CASE Raise
    <3>1. stack # <<>> /\ \E at \in Places : GoTo(at)
      BY <2>2 DEF Raise, Places
    <3> QED BY <3>1, OrderKept DEF Lookups
  <2>3. CASE Upload \/ Crash
    BY <2>3, OrderKept DEF Upload, Crash, Lookups
  <2>4. CASE stack' = stack
    BY <2>4, OrderKept DEF Lookups
  <2> QED BY <2>1, <2>2, <2>3, <2>4 DEF Next, ParseProgress, EnrichProgress, EnrichLeftover, DetectProgress, LlmProgress,
              Refresh, RefreshWrite, Delete, Feedback, vars
<1>2. CASE left
  <2>1. status \notin {"absent", "complete"} /\ Leaving
    BY <1>2 DEF Lookups, LeftInv
  <2>2. \A task : ~On(task, "start") /\ ~On(task, "work") /\ ~On(task, "save") /\ ~On(task, "next")
    BY <2>1 DEF Leaving, On, Frame
  <2>3. ~On("llm", "raised")
    BY <2>1 DEF Leaving, On, Frame, Early
  <2>4. CASE Move
    <3>1. HandleFailed \/ Unhandled
      BY <2>2, <2>3, <2>4 DEF Move, RunAnalysis, ParseStart, ParseSave, ParseNext, EnrichStart, EnrichNext,
         DetectStart, DetectScan, DetectSave, DetectNext, LlmStart, LlmNext, ReportStart, ReportBuild, ReportSave,
         Gone, HandleLlm
    <3>2. stack # <<>> /\ Thrown /\ status' \notin {"absent", "complete"}
      BY <2>1, <3>1 DEF HandleFailed, Unhandled, SaysFailed, row
    <3> QED BY <2>1, <3>2, <1>1, LeavingThrown DEF Lookups, LeftInv
  <2>5. CASE Crash
    BY <1>1, <2>5 DEF Crash, Lookups, LeftInv
  <2>6. CASE stack' = stack /\ status' \notin {"absent", "complete"}
    <3>1. Leaving'
      BY <2>1, <2>6 DEF Leaving
    <3> QED BY <1>1, <2>6, <3>1 DEF Lookups, LeftInv
  <2>7. ~Raise /\ ~Upload /\ ~ParseProgress /\ ~EnrichProgress /\ ~DetectProgress /\ ~LlmProgress
    BY <2>1, <2>2 DEF Raise, Upload, ParseProgress, EnrichProgress, DetectProgress, LlmProgress, Works, Leaving
  <2> QED BY <2>1, <2>4, <2>5, <2>6, <2>7 DEF Next, EnrichLeftover, Progress, Refresh, RefreshWrite, Delete,
              Feedback, vars, row
<1>3. CASE ~left /\ ~left'
  BY <1>1, <1>3 DEF Lookups, LeftInv
<1>4. CASE ~left /\ left'
  <2>1. Raise /\ On("enrich", "work") /\ GoTo("raised") /\ UNCHANGED row
    <3>1. left' # left
      BY <1>4
    <3>a. ~Move
      BY <3>1 DEF Move, RunAnalysis, ParseStart, ParseSave, ParseNext, EnrichStart, EnrichNext, DetectStart, DetectScan,
         DetectSave, DetectNext, LlmStart, LlmNext, ReportStart, ReportBuild, ReportSave, Gone, HandleFailed,
         HandleLlm, Unhandled
    <3>b. ~Crash
      BY <1>4 DEF Crash
    <3>2. Raise
      BY <3>1, <3>a, <3>b DEF Next, Upload, ParseProgress, EnrichProgress, EnrichLeftover, DetectProgress, LlmProgress,
         Refresh, RefreshWrite, Delete, Feedback, vars
    <3> QED BY <3>1, <3>2 DEF Raise
  <2>2. Piled /\ status \notin {"absent", "complete"} /\ Last(stack).task = "enrich"
    <3>1. Piled /\ Last(stack) = Frame("enrich", "work") /\ status \notin {"absent", "complete"}
      BY <2>1, TopFacts
    <3> QED BY <3>1 DEF Frame
  <2>3. Last(stack') = Frame("enrich", "raised")
    <3>1. eager' = eager
      BY <2>1 DEF Raise, modes
    <3> QED BY <2>1, <2>2, <3>1, GoesTo DEF Piled, Places
  <2>4. Leaving'
    BY <2>3 DEF Leaving, Frame, Early
  <2> QED BY <1>1, <2>1, <2>2, <2>4 DEF Lookups, LeftInv, row
<1> QED BY <1>2, <1>3, <1>4

LEMMA Inductive == Spec => [](IInv /\ Lookups)
<1>1. Init => IInv /\ Lookups
  BY InitInv DEF Init, Lookups, Ordered, LeftInv
<1>2. IInv /\ Lookups /\ [Next]_vars => (IInv /\ Lookups)'
  BY StepInv, LookupsStep
<1> QED BY <1>1, <1>2, PTL DEF Spec

\* The pipeline keeps its types, for any set of findings.
THEOREM PipelineTypes == Spec => []TypeOK
<1>1. IInv => TypeOK
  BY DEF IInv
<1> QED BY Inductive, <1>1, PTL

\* However tasks fail, nested or one by one, an analysis that nobody works on any more is
\* complete, failed or deleted, unless its failure could not be written down.
THEOREM EveryAnalysisSettles == Spec => []Settled
<1>1. IInv => Settled
  BY DEF IInv, SettledInv
<1> QED BY Inductive, <1>1, PTL

\* A complete analysis shows as many findings as its score is about, if none was judged between.
THEOREM ReportsCount == Spec => []ReportCounts
<1>1. IInv => ReportCounts
  BY DEF IInv, CountInv
<1> QED BY Inductive, <1>1, PTL

-----------------------------------------------------------------------------
(* Progress *)

Forward == status' \in {"analyzing", "complete"} => pct' >= pct

LEMMA KeepsPercent == IInv /\ UNCHANGED pct => Forward
BY DEF IInv, PercentInv, Forward

\* Steps that set it: the ceiling of the place is not above what they set.
LEMMA SetsPercent ==
  ASSUME IInv, NEW task, NEW at, On(task, at), NEW s, NEW p \in 25 .. 100, Progress(s, p),
         Ceiling(Frame(task, at)) <= p
  PROVE  Forward
<1>1. pct \in 0 .. Ceiling(Frame(task, at)) /\ Frame(task, at) \in Frames
  BY TopFacts DEF Frame, Frames, Places
<1>2. PICK c \in 25 .. 92 : c = Ceiling(Frame(task, at))
  BY <1>1, Ceilings
<1>3. pct \in 0 .. c /\ c <= p
  BY <1>1, <1>2
<1>4. pct' = pct \/ pct' = p
  BY DEF Progress, row
<1> QED BY <1>3, <1>4 DEF Forward

LEMMA StepForward == ASSUME IInv, [Next]_vars PROVE Forward
<1>0. CASE EnrichLeftover
  BY <1>0, KeepsPercent DEF EnrichLeftover, Progress, row, Forward
<1>1. ASSUME ParseStart \/ ParseProgress \/ ParseSave \/ EnrichStart \/ EnrichProgress \/ EnrichNext
      PROVE  Forward
  BY <1>1, KeepsPercent
     DEF ParseStart, ParseProgress, ParseSave, EnrichStart, EnrichProgress, EnrichNext, Progress, row, Forward
<1>2. CASE ParseNext
  <2>1. On("parse", "next") /\ Ceiling(Frame("parse", "next")) <= 40
    BY <1>2, Ceilings DEF ParseNext
  <2> QED BY <1>2, <2>1, KeepsPercent, SetsPercent DEF ParseNext, row
<1>3. CASE DetectStart
  <2>1. On("detect", "start") /\ Ceiling(Frame("detect", "start")) <= 58
    BY <1>3, Ceilings DEF DetectStart
  <2> QED BY <1>3, <2>1, SetsPercent DEF DetectStart
<1>4. ASSUME DetectProgress \/ LlmProgress
      PROVE  Forward
  <2>1. PICK p \in 0 .. 100 : p > pct /\ Progress("analyzing", p)
    BY <1>4 DEF DetectProgress, LlmProgress, DetectPercent
  <2>2. pct \in Nat
    BY DEF IInv, PercentInv
  <2> QED BY <2>1, <2>2 DEF Progress, row, Forward
<1>5. CASE DetectScan
  <2>1. On("detect", "work") /\ Ceiling(Frame("detect", "work")) <= 68
    BY <1>5, Ceilings DEF DetectScan
  <2> QED BY <1>5, <2>1, SetsPercent DEF DetectScan
<1>6. CASE DetectNext
  <2>1. On("detect", "next") /\ Ceiling(Frame("detect", "next")) <= 70
    BY <1>6, Ceilings DEF DetectNext
  <2> QED BY <1>6, <2>1, SetsPercent DEF DetectNext
<1>7. CASE LlmStart
  <2>1. On("llm", "start") /\ Ceiling(Frame("llm", "start")) <= 72
    BY <1>7, Ceilings DEF LlmStart
  <2> QED BY <1>7, <2>1, SetsPercent DEF LlmStart
<1>8. CASE LlmNext
  <2>1. On("llm", "work") /\ Ceiling(Frame("llm", "work")) <= 85
    BY <1>8, Ceilings DEF LlmNext
  <2> QED BY <1>8, <2>1, SetsPercent DEF LlmNext
<1>9. CASE ReportStart
  <2>1. On("report", "start") /\ Ceiling(Frame("report", "start")) <= 92
    BY <1>9, Ceilings DEF ReportStart
  <2> QED BY <1>9, <2>1, SetsPercent DEF ReportStart
<1>10. CASE ReportSave
  <2>1. On("report", "save") /\ Ceiling(Frame("report", "save")) <= 100
    BY <1>10, Ceilings DEF ReportSave
  <2> QED BY <1>10, <2>1, SetsPercent DEF ReportSave
<1>11. CASE UNCHANGED pct
  BY <1>11, KeepsPercent
<1> QED BY <1>0, <1>1, <1>2, <1>3, <1>4, <1>5, <1>6, <1>7, <1>8, <1>9, <1>10, <1>11
        DEF Next, Move, Upload, RunAnalysis, DetectSave, ReportBuild, Gone, HandleFailed, HandleLlm, Unhandled,
            Raise, Crash, Refresh, RefreshWrite, Delete, Feedback, vars, row

\* From detection on the progress never goes back, whatever fails and is tried again.
THEOREM ProgressGoesForward == Spec => StageForward
<1>1. IInv /\ [Next]_vars => [Forward]_vars
  BY StepForward
<1> QED BY Inductive, <1>1, PTL DEF Spec, StageForward, Forward

-----------------------------------------------------------------------------
(* The requests of an analyst.  A request that has heard what it wants has  *)
(* it among its drafts, and a chain is only entered without; the calls made *)
(* and those still to make are bounded.                                     *)

Reply == [by : {"none", "analyst", "chat", "live"}, at : Analyst!Places, json : BOOLEAN, synth : BOOLEAN,
          again : BOOLEAN, drafts : Seq(Analyst!Replies), todo : Seq(Analyst!Models), calls : Nat, heard : BOOLEAN]
Spoken(r) == \A i \in DOMAIN r.drafts : r.drafts[i] # "nothing"
Drafting(r) ==
  r.at = "draft" =>
    /\ r.by \in {"analyst", "chat"} /\ r.todo # <<>> /\ Spoken(r)
    /\ r.by = "analyst" /\ r.heard => Analyst!Usable(r)
    /\ r.calls + Len(r.todo) <= IF r.by = "chat" /\ ~r.again THEN 4 ELSE 2
Merging(r) ==
  r.at = "merge" =>
    /\ r.by \in {"analyst", "chat"} /\ Spoken(r)
    /\ r.by = "analyst" /\ r.heard => Analyst!Usable(r)
    /\ r.by = "chat" => Analyst!Usable(r)
    /\ r.calls <= IF r.by = "chat" THEN 4 ELSE 2
Chaining(r) ==
  r.at = "chain" =>
    /\ r.by # "none" /\ r.todo # <<>>
    /\ r.by = "analyst" => ~r.heard
    /\ r.calls + Len(r.todo) <= IF r.by = "chat" THEN 7 ELSE 6
Asked(r) ==
  /\ r \in Reply
  /\ r.at = "idle" => r = Analyst!NoRequest
  /\ r.by = "analyst" => r.json /\ r.synth /\ ~r.again
  /\ r.by = "chat" => ~r.json
  /\ Drafting(r) /\ Merging(r) /\ Chaining(r)

Tallied == Len(log) <= MaxFailures * Cardinality(Analyst!Answered) + failures
AnalystInv ==
  /\ Analyst!TypeOK  /\ failures <= MaxFailures  /\ (enabled => failures < MaxFailures)
  /\ Asked(request)
  /\ request.by = "analyst" => enabled /\ next <= Analyst!Requests
  /\ Tallied

LEMMA ChainFacts ==
  ASSUME NEW b \in BOOLEAN, NEW c \in BOOLEAN, second = b, third = c
  PROVE  Analyst!Chain \in Seq(Analyst!Models) /\ Len(Analyst!Chain) \in 1 .. 3 /\ Analyst!Chain # <<>>
<1>1. CASE b /\ c
  BY <1>1 DEF Analyst!Chain, Analyst!Models
<1>2. CASE b /\ ~c
  BY <1>2 DEF Analyst!Chain, Analyst!Models
<1>3. CASE ~b /\ c
  BY <1>3 DEF Analyst!Chain, Analyst!Models
<1>4. CASE ~b /\ ~c
  BY <1>4 DEF Analyst!Chain, Analyst!Models
<1> QED BY <1>1, <1>2, <1>3, <1>4

LEMMA ChainedFacts ==
  ASSUME NEW r \in Reply, second \in BOOLEAN, third \in BOOLEAN, r.by # "none",
         r.by = "analyst" => r.json /\ r.synth /\ ~r.again /\ ~r.heard, r.by = "chat" => ~r.json,
         r.calls <= IF r.by = "chat" THEN 4 ELSE 3
  PROVE  Asked(Analyst!Chained(r)) /\ Analyst!Chained(r).by = r.by /\ Analyst!Chained(r) # Analyst!NoRequest
<1> DEFINE chain == Analyst!Chain  s == Analyst!Chained(r)
<1>1. chain \in Seq(Analyst!Models) /\ Len(chain) \in 1 .. 3 /\ chain # <<>>
  BY ChainFacts
<1>2. s = [r EXCEPT !.at = "chain", !.todo = chain, !.drafts = <<>>]
  BY DEF Analyst!Chained
<1> HIDE DEF chain, s
<1>3. <<>> \in Seq(Analyst!Replies)
  BY EmptySeq
<1>4. /\ s.by = r.by /\ s.at = "chain" /\ s.json = r.json /\ s.synth = r.synth /\ s.again = r.again
      /\ s.drafts = <<>> /\ s.todo = chain /\ s.calls = r.calls /\ s.heard = r.heard
  BY <1>2 DEF Reply
<1>5. s \in Reply
  BY <1>1, <1>2, <1>3 DEF Reply, Analyst!Places
<1>6. Chaining(s)
  <2>1. r.calls \in Nat
    BY DEF Reply
  <2>2. PICK n \in Nat, m \in 1 .. 3 : n = r.calls /\ m = Len(chain)
    BY <1>1, <2>1
  <2>3. n <= IF r.by = "chat" THEN 4 ELSE 3
    BY <2>2
  <2>4. n + m <= IF r.by = "chat" THEN 7 ELSE 6
    <3>1. CASE r.by = "chat"
      BY <2>3, <3>1
    <3>2. CASE r.by # "chat"
      BY <2>3, <3>2
    <3> QED BY <3>1, <3>2
  <2> QED BY <1>1, <1>4, <2>2, <2>4 DEF Chaining
<1>7. Drafting(s) /\ Merging(s)
  BY <1>4 DEF Drafting, Merging
<1>8. s # Analyst!NoRequest
  BY <1>4 DEF Analyst!NoRequest
<1> QED BY <1>4, <1>5, <1>6, <1>7, <1>8 DEF Asked, s

LEMMA DraftedFacts ==
  ASSUME second \in BOOLEAN, third \in BOOLEAN, NEW by \in {"analyst", "chat", "live"},
         NEW synth \in BOOLEAN, NEW again \in BOOLEAN, by = "analyst" => synth /\ ~again
  PROVE  /\ Asked(Analyst!Drafted(by, synth, again)) /\ Analyst!Drafted(by, synth, again).by = by
         /\ Analyst!Drafted(by, synth, again) # Analyst!NoRequest
<1> DEFINE r == [Analyst!NoRequest EXCEPT !.by = by, !.json = (by # "chat"), !.synth = synth, !.again = again]
           s == [r EXCEPT !.at = "draft", !.todo = Analyst!Both]
<1>1. <<>> \in Seq(Analyst!Replies) /\ <<>> \in Seq(Analyst!Models) /\ Len(<<>>) = 0
  BY EmptySeq
<1>2. /\ r.by = by /\ r.at = "idle" /\ r.json = (by # "chat") /\ r.synth = synth /\ r.again = again
      /\ r.drafts = <<>> /\ r.todo = <<>> /\ r.calls = 0 /\ r.heard = FALSE
  BY DEF Analyst!NoRequest
<1>3. r \in Reply
  BY <1>1 DEF Analyst!NoRequest, Reply, Analyst!Places
<1>4. Analyst!Drafted(by, synth, again) = IF second /\ by # "live" THEN s ELSE Analyst!Chained(r)
  BY DEF Analyst!Drafted
<1> HIDE DEF r
<1>5. CASE ~(second /\ by # "live")
  <2>1. r.calls <= IF r.by = "chat" THEN 4 ELSE 3
    BY <1>2
  <2> QED BY <1>2, <1>3, <1>4, <1>5, <2>1, ChainedFacts
<1>6. CASE second /\ by # "live"
  <2>1. Analyst!Both \in Seq(Analyst!Models) /\ Len(Analyst!Both) = 2 /\ Analyst!Both # <<>>
    BY DEF Analyst!Both, Analyst!Models
  <2>2. /\ s.by = by /\ s.at = "draft" /\ s.json = (by # "chat") /\ s.synth = synth /\ s.again = again
        /\ s.drafts = <<>> /\ s.todo = Analyst!Both /\ s.calls = 0 /\ s.heard = FALSE
    BY <1>2, <1>3 DEF Reply
  <2>3. s \in Reply
    BY <1>3, <2>1 DEF Reply, Analyst!Places
  <2> HIDE DEF s
  <2>4. Drafting(s)
    <3>1. Spoken(s)
      BY <2>2 DEF Spoken
    <3>2. s.calls + Len(s.todo) = 2
      BY <2>1, <2>2
    <3>3. s.calls + Len(s.todo) <= IF s.by = "chat" /\ ~s.again THEN 4 ELSE 2
      BY ONLY <3>2
    <3> QED BY <1>6, <2>1, <2>2, <3>1, <3>3 DEF Drafting
  <2>5. Merging(s) /\ Chaining(s) /\ s # Analyst!NoRequest
    BY <2>2 DEF Merging, Chaining, Analyst!NoRequest
  <2> QED BY <1>4, <1>6, <2>2, <2>3, <2>4, <2>5 DEF Asked
<1> QED BY <1>5, <1>6

\* What is wanted depends on the kind of the request only.
LEMMA WantedFacts ==
  ASSUME NEW r \in Reply, NEW s \in Reply, s.json = r.json, NEW reply
  PROVE  /\ Analyst!Wanted(s, reply) \in BOOLEAN /\ (Analyst!Wanted(s, reply) <=> Analyst!Wanted(r, reply))
         /\ ~r.json /\ reply # "nothing" => Analyst!Wanted(r, reply)
         /\ r.json => (Analyst!Wanted(r, reply) <=> reply = "json")
BY DEF Analyst!Wanted

LEMMA CountFacts ==
  ASSUME NEW r \in Reply, NEW reply \in Analyst!Replies
  PROVE  /\ Analyst!Count(r, reply) \in Reply
         /\ Analyst!Count(r, reply).by = r.by /\ Analyst!Count(r, reply).at = r.at
         /\ Analyst!Count(r, reply).json = r.json /\ Analyst!Count(r, reply).synth = r.synth
         /\ Analyst!Count(r, reply).again = r.again /\ Analyst!Count(r, reply).drafts = r.drafts
         /\ Analyst!Count(r, reply).todo = r.todo /\ Analyst!Count(r, reply).calls = r.calls + 1
         /\ (Analyst!Count(r, reply).heard <=> r.heard \/ Analyst!Wanted(r, reply))
<1>1. Analyst!Wanted(r, reply) \in BOOLEAN
  BY WantedFacts
<1>2. Analyst!Count(r, reply) = [r EXCEPT !.calls = r.calls + 1, !.heard = (r.heard \/ Analyst!Wanted(r, reply))]
  BY DEF Analyst!Count, Reply
<1>3. r.calls + 1 \in Nat /\ (r.heard \/ Analyst!Wanted(r, reply)) \in BOOLEAN
  BY <1>1 DEF Reply
<1> QED BY <1>2, <1>3 DEF Reply

LEMMA RemoveFacts ==
  ASSUME NEW T, NEW s \in Seq(T), NEW i \in 1 .. Len(s)
  PROVE  Analyst!RemoveAt(s, i) \in Seq(T) /\ Len(Analyst!RemoveAt(s, i)) = Len(s) - 1
<1> DEFINE a == SubSeq(s, 1, i - 1)  b == SubSeq(s, i + 1, Len(s))
<1>1. Len(s) \in Nat /\ i \in Int /\ 1 <= i /\ i <= Len(s) /\ \A j \in 1 .. Len(s) : s[j] \in T
  OBVIOUS
<1>2. a \in Seq(T) /\ Len(a) = i - 1
  <2>1. \A j \in 1 .. i - 1 : s[j] \in T
    BY <1>1
  <2>2. i - 1 \in Int /\ 1 \in Int
    BY <1>1
  <2>3. a \in Seq(T) /\ Len(a) = IF 1 <= i - 1 THEN i - 1 - 1 + 1 ELSE 0
    BY <2>1, <2>2, SubSeqProperties
  <2> QED BY <1>1, <2>3
<1>3. b \in Seq(T) /\ Len(b) = Len(s) - i
  <2>1. \A j \in i + 1 .. Len(s) : s[j] \in T
    BY <1>1
  <2>2. i + 1 \in Int /\ Len(s) \in Int
    BY <1>1
  <2>3. b \in Seq(T) /\ Len(b) = IF i + 1 <= Len(s) THEN Len(s) - (i + 1) + 1 ELSE 0
    BY <2>1, <2>2, SubSeqProperties
  <2> QED BY <1>1, <2>3
<1> HIDE DEF a, b
<1>4. a \o b \in Seq(T) /\ Len(a \o b) = Len(a) + Len(b)
  BY <1>2, <1>3, ConcatProperties
<1>5. Len(a \o b) = Len(s) - 1
  BY <1>1, <1>2, <1>3, <1>4
<1> QED BY <1>4, <1>5 DEF Analyst!RemoveAt, a, b

\* One more draft, or none: what was usable stays so.
Extended(r, reply) == IF reply = "nothing" THEN r.drafts ELSE Append(r.drafts, reply)
LEMMA DraftsGrow ==
  ASSUME NEW r \in Reply, Spoken(r), NEW reply \in Analyst!Replies, NEW s \in Reply,
         s.json = r.json, s.drafts = Extended(r, reply)
  PROVE  /\ Spoken(s)
         /\ Analyst!Usable(r) => Analyst!Usable(s)
         /\ Analyst!Wanted(r, reply) => Analyst!Usable(s)
<1>1. r.drafts \in Seq(Analyst!Replies)
  BY DEF Reply
<1>2. CASE reply = "nothing"
  <2>1. s.drafts = r.drafts /\ ~Analyst!Wanted(r, reply)
    BY <1>2 DEF Extended, Analyst!Wanted
  <2> QED BY <2>1, WantedFacts DEF Spoken, Analyst!Usable
<1>3. CASE reply # "nothing"
  <2>1. s.drafts = Append(r.drafts, reply)
    BY <1>3 DEF Extended
  <2>2. /\ DOMAIN s.drafts = 1 .. Len(r.drafts) + 1 /\ DOMAIN r.drafts = 1 .. Len(r.drafts) /\ Len(r.drafts) \in Nat
        /\ s.drafts[Len(r.drafts) + 1] = reply /\ \A i \in 1 .. Len(r.drafts) : s.drafts[i] = r.drafts[i]
    BY <1>1, <2>1, AppendProperties
  <2>3. Spoken(s)
    BY <1>3, <2>2 DEF Spoken
  <2>4. Analyst!Usable(r) => Analyst!Usable(s)
    BY <2>2, WantedFacts DEF Analyst!Usable
  <2>5. Analyst!Wanted(r, reply) => Analyst!Usable(s)
    <3>1. Len(r.drafts) + 1 \in DOMAIN s.drafts
      BY <2>2
    <3> QED BY <2>2, <3>1, WantedFacts DEF Analyst!Usable
  <2> QED BY <2>3, <2>4, <2>5
<1> QED BY <1>2, <1>3

\* Where a call leads: the request goes on, or ends, and not empty when it heard what it wants.
Goes(r, s) == Asked(s) /\ s.by = r.by /\ s # Analyst!NoRequest /\ Analyst!GoOn(s)
Closes(r, good) == (r.by = "analyst" /\ r.heard => good) /\ \E s \in Reply : s.by = r.by /\ Analyst!Finish(s, good)
Leads(r) == (\E s \in Reply : Goes(r, s)) \/ (\E good \in BOOLEAN : Closes(r, good))

\* All drafts are there.
LEMMA AfterDraftsLeads ==
  ASSUME second \in BOOLEAN, third \in BOOLEAN, NEW r \in Reply, NEW s \in Reply, s.by = r.by, r.by \in {"analyst", "chat"},
         s.by = "analyst" => s.json /\ s.synth /\ ~s.again, s.by = "chat" => ~s.json, s.at = "draft",
         Spoken(s), r.by = "analyst" /\ r.heard => s.heard, s.by = "analyst" /\ s.heard => Analyst!Usable(s),
         s.calls <= IF s.by = "chat" /\ ~s.again THEN 4 ELSE 2,
         Analyst!AfterDrafts(s)
  PROVE  Leads(r)
<1>0. s.calls \in Nat /\ s.drafts \in Seq(Analyst!Replies) /\ Len(s.drafts) \in Nat /\ DOMAIN s.drafts = 1 .. Len(s.drafts)
  BY LenProperties DEF Reply
<1>1. CASE Len(s.drafts) = 2 /\ s.synth
  <2> DEFINE t == [s EXCEPT !.at = "merge"]
  <2>1. Analyst!GoOn(t)
    BY <1>1 DEF Analyst!AfterDrafts
  <2>2. /\ t.at = "merge" /\ t.by = s.by /\ t.json = s.json /\ t.synth = s.synth /\ t.again = s.again
        /\ t.drafts = s.drafts /\ t.todo = s.todo /\ t.calls = s.calls /\ t.heard = s.heard /\ t \in Reply
    BY DEF Reply, Analyst!Places
  <2> HIDE DEF t
  <2>3. Analyst!Usable(t) <=> Analyst!Usable(s)
    BY <2>2, WantedFacts DEF Analyst!Usable
  <2>4. s.by = "chat" => Analyst!Usable(s)
    <3>1. 1 \in DOMAIN s.drafts
      BY <1>0, <1>1
    <3>2. s.drafts[1] # "nothing"
      BY <3>1 DEF Spoken
    <3> QED BY <3>1, <3>2, WantedFacts DEF Analyst!Usable
  <2>5. s.calls <= IF s.by = "chat" THEN 4 ELSE 2
    BY <1>0
  <2>6. Merging(t)
    BY <2>2, <2>3, <2>4, <2>5 DEF Merging, Spoken
  <2>7. Drafting(t) /\ Chaining(t) /\ t # Analyst!NoRequest
    BY <2>2 DEF Drafting, Chaining, Analyst!NoRequest
  <2>8. Asked(t)
    BY <2>2, <2>6, <2>7 DEF Asked
  <2> QED BY <2>1, <2>2, <2>7, <2>8 DEF Leads, Goes
<1>2. CASE ~(Len(s.drafts) = 2 /\ s.synth) /\ Analyst!OfDrafts(s)
  <2>1. Analyst!Finish(s, TRUE)
    <3>1. s.drafts # <<>>
      BY <1>2 DEF Analyst!OfDrafts, Analyst!Usable
    <3> QED BY <1>2, <3>1 DEF Analyst!AfterDrafts
  <2> QED BY <2>1 DEF Leads, Closes
<1>3. CASE ~(Len(s.drafts) = 2 /\ s.synth) /\ ~Analyst!OfDrafts(s) /\ s.drafts = <<>> /\ s.again
  <2> DEFINE t == [s EXCEPT !.todo = Analyst!Both, !.again = FALSE]
  <2>1. Analyst!GoOn(t)
    BY <1>3 DEF Analyst!AfterDrafts
  <2>2. Analyst!Both \in Seq(Analyst!Models) /\ Len(Analyst!Both) = 2 /\ Analyst!Both # <<>>
    BY DEF Analyst!Both, Analyst!Models
  <2>3. /\ t.at = "draft" /\ t.by = s.by /\ t.json = s.json /\ t.synth = s.synth /\ t.again = FALSE
        /\ t.drafts = s.drafts /\ t.todo = Analyst!Both /\ t.calls = s.calls /\ t.heard = s.heard /\ t \in Reply
    BY <2>2 DEF Reply
  <2> HIDE DEF t
  <2>4. s.by = "chat"
    BY <1>3
  <2>5. s.calls <= 2
    BY <1>3, <2>4
  <2>6. t.calls + Len(t.todo) <= 4
    <3>1. t.calls = s.calls /\ Len(t.todo) = 2 /\ s.calls \in Nat
      BY <1>0, <2>2, <2>3
    <3> QED BY ONLY <2>5, <3>1
  <2>7. Drafting(t)
    BY <2>2, <2>3, <2>4, <2>6 DEF Drafting, Spoken
  <2>8. Merging(t) /\ Chaining(t) /\ t # Analyst!NoRequest
    BY <2>3 DEF Merging, Chaining, Analyst!NoRequest
  <2>9. Asked(t)
    BY <2>3, <2>4, <2>7, <2>8 DEF Asked
  <2> QED BY <2>1, <2>3, <2>8, <2>9 DEF Leads, Goes
<1>4. CASE ~(Len(s.drafts) = 2 /\ s.synth) /\ ~Analyst!OfDrafts(s) /\ ~(s.drafts = <<>> /\ s.again)
  <2>1. Analyst!GoOn(Analyst!Chained(s))
    BY <1>4 DEF Analyst!AfterDrafts
  <2>2. s.by = "analyst" => ~s.heard
    BY <1>4 DEF Analyst!OfDrafts
  <2>3. s.calls <= IF s.by = "chat" THEN 4 ELSE 3
    BY <1>0
  <2>4. Asked(Analyst!Chained(s)) /\ Analyst!Chained(s).by = s.by /\ Analyst!Chained(s) # Analyst!NoRequest
    BY <2>2, <2>3, ChainedFacts
  <2> QED BY <2>1, <2>4 DEF Leads, Goes, Asked
<1> QED BY <1>1, <1>2, <1>3, <1>4

LEMMA DraftLeads ==
  ASSUME AnalystInv, NEW reply \in Analyst!Replies, Analyst!Draft(reply)
  PROVE  Leads(request)
<1> DEFINE q == request
<1>1. q \in Reply /\ Asked(q) /\ second \in BOOLEAN /\ third \in BOOLEAN
  BY DEF AnalystInv, Asked, Analyst!TypeOK
<1>2. q.at = "draft" /\ q.by \in {"analyst", "chat"} /\ q.todo # <<>> /\ Spoken(q)
  BY <1>1 DEF Analyst!Draft, Asked, Drafting
<1> DEFINE c == Analyst!Count(q, reply)
<1>3. PICK i \in DOMAIN q.todo :
        LET r == [c EXCEPT !.todo = Analyst!RemoveAt(@, i), !.drafts = IF reply = "nothing" THEN @ ELSE Append(@, reply)]
        IN IF r.todo # <<>> THEN Analyst!GoOn(r) ELSE Analyst!AfterDrafts(r)
  BY DEF Analyst!Draft
<1> DEFINE todo == Analyst!RemoveAt(q.todo, i)  drafts == Extended(q, reply)
           r == [c EXCEPT !.todo = todo, !.drafts = drafts]
<1>4. /\ c \in Reply /\ c.by = q.by /\ c.at = q.at /\ c.json = q.json /\ c.synth = q.synth /\ c.again = q.again
      /\ c.drafts = q.drafts /\ c.todo = q.todo /\ c.calls = q.calls + 1
      /\ (c.heard <=> q.heard \/ Analyst!Wanted(q, reply))
  BY <1>1, CountFacts
<1>5. q.todo \in Seq(Analyst!Models) /\ q.drafts \in Seq(Analyst!Replies) /\ q.calls \in Nat /\ i \in 1 .. Len(q.todo)
  <2>1. q.todo \in Seq(Analyst!Models) /\ q.drafts \in Seq(Analyst!Replies) /\ q.calls \in Nat
    BY <1>1 DEF Reply
  <2> QED BY <2>1, LenProperties
<1> HIDE DEF q, c
<1>6. todo \in Seq(Analyst!Models) /\ Len(todo) = Len(q.todo) - 1
  BY <1>5, RemoveFacts
<1>7. drafts \in Seq(Analyst!Replies)
  BY <1>5, AppendProperties DEF Extended
<1>8. IF r.todo # <<>> THEN Analyst!GoOn(r) ELSE Analyst!AfterDrafts(r)
  <2>1. [c EXCEPT !.todo = Analyst!RemoveAt(@, i), !.drafts = IF reply = "nothing" THEN @ ELSE Append(@, reply)] = r
    BY <1>4 DEF Extended, Reply
  <2> QED BY <1>3, <2>1
<1> HIDE DEF todo, drafts
<1>9. /\ r \in Reply /\ r.by = q.by /\ r.at = "draft" /\ r.json = q.json /\ r.synth = q.synth /\ r.again = q.again
      /\ r.drafts = drafts /\ r.todo = todo /\ r.calls = q.calls + 1 /\ r.heard = c.heard
  BY <1>2, <1>4, <1>6, <1>7 DEF Reply
<1> HIDE DEF r
<1>10. /\ Spoken(r)
       /\ Analyst!Usable(q) => Analyst!Usable(r)
       /\ Analyst!Wanted(q, reply) => Analyst!Usable(r)
  BY <1>1, <1>2, <1>9, DraftsGrow DEF drafts
<1>11. r.by = "analyst" /\ r.heard => Analyst!Usable(r)
  BY <1>1, <1>2, <1>4, <1>9, <1>10 DEF Asked, Drafting
<1>12. r.calls + Len(r.todo) = q.calls + Len(q.todo) /\ Len(r.todo) \in Nat
  <2>1. PICK a, b, n : a = q.calls /\ b = Len(q.todo) /\ n = Len(todo)
    OBVIOUS
  <2>2. a \in Nat /\ b \in Nat /\ n \in Nat
    BY <1>5, <1>6, <2>1, LenProperties
  <2>3. n = b - 1
    BY <1>6, <2>1
  <2>4. r.calls = a + 1 /\ Len(r.todo) = n
    BY <1>9, <2>1
  <2>5. (a + 1) + n = a + b
    BY ONLY <2>2, <2>3
  <2> QED BY <2>1, <2>2, <2>4, <2>5
<1>13. q.calls + Len(q.todo) <= IF q.by = "chat" /\ ~q.again THEN 4 ELSE 2
  BY <1>1, <1>2 DEF Asked, Drafting
<1>14. r.calls + Len(r.todo) <= IF r.by = "chat" /\ ~r.again THEN 4 ELSE 2
  BY <1>9, <1>12, <1>13
<1>15. (r.by = "analyst" => r.json /\ r.synth /\ ~r.again) /\ (r.by = "chat" => ~r.json)
  BY <1>1, <1>9 DEF Asked
<1>16. CASE r.todo # <<>>
  <2>1. Drafting(r)
    BY <1>2, <1>9, <1>10, <1>11, <1>14, <1>16 DEF Drafting
  <2>2. Merging(r) /\ Chaining(r) /\ r # Analyst!NoRequest
    BY <1>9 DEF Merging, Chaining, Analyst!NoRequest
  <2>3. Asked(r) /\ Analyst!GoOn(r)
    BY <1>8, <1>9, <1>15, <1>16, <2>1, <2>2 DEF Asked
  <2> QED BY <1>9, <2>2, <2>3 DEF Leads, Goes, q
<1>17. CASE r.todo = <<>>
  <2>1. Analyst!AfterDrafts(r)
    BY <1>8, <1>17
  <2>2. Len(r.todo) = 0 /\ r.calls \in Nat
    BY <1>9, <1>17 DEF Reply
  <2>3. r.calls <= IF r.by = "chat" /\ ~r.again THEN 4 ELSE 2
    BY <1>14, <2>2
  <2>4. q.by = "analyst" /\ q.heard => r.heard
    BY <1>4, <1>9
  <2>5. Leads(q)
    BY <1>1, <1>2, <1>9, <1>10, <1>11, <1>15, <2>1, <2>3, <2>4, AfterDraftsLeads
  <2> QED BY <2>5 DEF q
<1> QED BY <1>16, <1>17

LEMMA MergeLeads ==
  ASSUME AnalystInv, NEW reply \in Analyst!Replies, Analyst!Merge(reply)
  PROVE  Leads(request)
<1> DEFINE q == request  r == Analyst!Count(q, reply)
<1>1. q \in Reply /\ Asked(q) /\ second \in BOOLEAN /\ third \in BOOLEAN
  BY DEF AnalystInv, Asked, Analyst!TypeOK
<1>2. q.at = "merge" /\ Merging(q)
  BY <1>1 DEF Analyst!Merge, Asked
<1>3. IF Analyst!Wanted(r, reply) \/ Analyst!OfDrafts(r) THEN Analyst!Finish(r, TRUE) ELSE Analyst!GoOn(Analyst!Chained(r))
  BY DEF Analyst!Merge
<1>4. /\ r \in Reply /\ r.by = q.by /\ r.json = q.json /\ r.synth = q.synth /\ r.again = q.again
      /\ r.drafts = q.drafts /\ r.calls = q.calls + 1 /\ (r.heard <=> q.heard \/ Analyst!Wanted(q, reply))
  BY <1>1, CountFacts
<1> HIDE DEF q, r
<1>5. (Analyst!Usable(r) <=> Analyst!Usable(q)) /\ (Analyst!Wanted(r, reply) <=> Analyst!Wanted(q, reply))
  BY <1>1, <1>4, WantedFacts DEF Analyst!Usable
<1>6. CASE Analyst!Wanted(r, reply) \/ Analyst!OfDrafts(r)
  <2>1. Closes(q, TRUE)
    BY <1>3, <1>4, <1>6 DEF Closes
  <2> QED BY <2>1 DEF Leads, q
<1>7. CASE ~(Analyst!Wanted(r, reply) \/ Analyst!OfDrafts(r))
  <2>1. ~Analyst!Usable(q) /\ q.by = "analyst" /\ ~r.heard
    BY <1>2, <1>4, <1>5, <1>7 DEF Merging, Analyst!OfDrafts
  <2>2. q.calls \in Nat /\ q.calls <= 2
    BY <1>1, <1>2, <2>1 DEF Merging, Reply
  <2>3. r.calls <= IF r.by = "chat" THEN 4 ELSE 3
    BY <1>4, <2>1, <2>2
  <2>4. Asked(Analyst!Chained(r)) /\ Analyst!Chained(r).by = r.by /\ Analyst!Chained(r) # Analyst!NoRequest
    BY <1>1, <1>4, <2>1, <2>3, ChainedFacts DEF Asked
  <2> QED BY <1>3, <1>4, <1>7, <2>4 DEF Leads, Goes, Asked, q
<1> QED BY <1>6, <1>7

LEMMA TryLeads ==
  ASSUME AnalystInv, NEW reply \in Analyst!Replies, Analyst!Try(reply)
  PROVE  Leads(request)
<1> DEFINE q == request  c == Analyst!Count(q, reply)  r == [c EXCEPT !.todo = Tail(q.todo)]
<1>1. q \in Reply /\ Asked(q)
  BY DEF AnalystInv, Asked
<1>2. q.at = "chain" /\ Chaining(q)
  BY <1>1 DEF Analyst!Try, Asked
<1>3. /\ c \in Reply /\ c.by = q.by /\ c.at = q.at /\ c.json = q.json /\ c.synth = q.synth /\ c.again = q.again
      /\ c.drafts = q.drafts /\ c.todo = q.todo /\ c.calls = q.calls + 1
      /\ (c.heard <=> q.heard \/ Analyst!Wanted(q, reply))
  BY <1>1, CountFacts
<1>4. q.todo \in Seq(Analyst!Models) /\ q.todo # <<>> /\ q.calls \in Nat
  BY <1>1, <1>2 DEF Reply, Chaining
<1>5. Tail(q.todo) \in Seq(Analyst!Models) /\ Len(Tail(q.todo)) = Len(q.todo) - 1 /\ Len(q.todo) \in Nat
  BY <1>4
<1>6. IF Analyst!Wanted(r, reply) \/ r.todo = <<>> THEN Analyst!Finish(r, Analyst!Wanted(r, reply)) ELSE Analyst!GoOn(r)
  <2>1. [c EXCEPT !.todo = Tail(@)] = r
    BY <1>3
  <2> QED BY <2>1 DEF Analyst!Try
<1> HIDE DEF q, c
<1>7. /\ r \in Reply /\ r.by = q.by /\ r.at = "chain" /\ r.json = q.json /\ r.synth = q.synth /\ r.again = q.again
      /\ r.drafts = q.drafts /\ r.todo = Tail(q.todo) /\ r.calls = q.calls + 1 /\ r.heard = c.heard
  BY <1>2, <1>3, <1>5 DEF Reply
<1> HIDE DEF r
<1>8. Analyst!Wanted(r, reply) \in BOOLEAN /\ (Analyst!Wanted(r, reply) <=> Analyst!Wanted(q, reply))
  BY <1>1, <1>7, WantedFacts
<1>9. q.by = "analyst" => ~q.heard
  BY <1>2 DEF Chaining
<1>10. CASE Analyst!Wanted(r, reply) \/ r.todo = <<>>
  <2>1. Closes(q, Analyst!Wanted(r, reply))
    BY <1>6, <1>7, <1>9, <1>10 DEF Closes
  <2> QED BY <1>8, <2>1 DEF Leads, q
<1>11. CASE ~(Analyst!Wanted(r, reply) \/ r.todo = <<>>)
  <2>1. r.calls + Len(r.todo) = q.calls + Len(q.todo)
    BY <1>4, <1>5, <1>7
  <2>2. r.calls + Len(r.todo) <= IF r.by = "chat" THEN 7 ELSE 6
    BY <1>2, <1>7, <2>1 DEF Chaining
  <2>3. Chaining(r)
    BY <1>2, <1>3, <1>7, <1>8, <1>9, <1>11, <2>2 DEF Chaining
  <2>4. Drafting(r) /\ Merging(r) /\ r # Analyst!NoRequest
    BY <1>7 DEF Drafting, Merging, Analyst!NoRequest
  <2>5. Asked(r)
    BY <1>1, <1>7, <2>3, <2>4 DEF Asked
  <2> QED BY <1>6, <1>7, <1>11, <2>4, <2>5 DEF Leads, Goes, q
<1> QED BY <1>10, <1>11

\* One more answer in the log: the count of the answered goes with it.
LEMMA LogGrows ==
  ASSUME NEW good \in BOOLEAN, log \in Seq({"yes", "no"}), log' = Append(log, IF good THEN "yes" ELSE "no")
  PROVE  /\ log' \in Seq({"yes", "no"}) /\ Len(log') = Len(log) + 1 /\ Len(log) \in Nat
         /\ Cardinality(Analyst!Answered) \in Nat
         /\ Cardinality(Analyst!Answered)' = IF good THEN Cardinality(Analyst!Answered) + 1 ELSE Cardinality(Analyst!Answered)
<1> DEFINE word == IF good THEN "yes" ELSE "no"
<1>1. PICK n : n = Len(log)
  OBVIOUS
<1>2. n \in Nat /\ DOMAIN log = 1 .. n
  BY <1>1, LenProperties
<1>3. /\ log' \in Seq({"yes", "no"}) /\ Len(log') = n + 1 /\ DOMAIN log' = 1 .. n + 1
      /\ log'[n + 1] = word /\ \A i \in 1 .. n : log'[i] = log[i]
  <2>1. word \in {"yes", "no"}
    OBVIOUS
  <2>2. log' = Append(log, word)
    OBVIOUS
  <2> HIDE DEF word
  <2>3. Append(log, word) \in Seq({"yes", "no"}) /\ Len(Append(log, word)) = Len(log) + 1
        /\ (\A i \in 1 .. Len(log) : Append(log, word)[i] = log[i]) /\ Append(log, word)[Len(log) + 1] = word
    BY <2>1, AppendProperties
  <2>4. DOMAIN Append(log, word) = 1 .. Len(Append(log, word))
    BY <2>3, LenProperties
  <2> QED BY <1>1, <2>2, <2>3, <2>4
<1>4. PICK S : S = Analyst!Answered
  OBVIOUS
<1>5. S = {i \in 1 .. n : log[i] = "yes"} /\ (Analyst!Answered)' = {i \in 1 .. n + 1 : log'[i] = "yes"}
  BY <1>2, <1>3, <1>4 DEF Analyst!Answered
<1>6. IsFiniteSet(S) /\ Cardinality(S) \in Nat
  <2>1. IsFiniteSet(1 .. n) /\ S \subseteq 1 .. n
    BY <1>2, <1>5, FS_Interval
  <2> QED BY <2>1, FS_Subset, FS_CardinalityType
<1>7. CASE good
  <2>1. n + 1 \notin S /\ (Analyst!Answered)' = S \cup {n + 1}
    BY <1>2, <1>3, <1>5, <1>7
  <2>2. Cardinality(S \cup {n + 1}) = Cardinality(S) + 1
    BY <1>6, <2>1, FS_AddElement
  <2> QED BY <1>1, <1>2, <1>3, <1>4, <1>6, <1>7, <2>1, <2>2
<1>8. CASE ~good
  <2>1. (Analyst!Answered)' = S
    BY <1>2, <1>3, <1>5, <1>8
  <2> QED BY <1>1, <1>2, <1>3, <1>4, <1>6, <1>8, <2>1
<1> QED BY <1>7, <1>8

\* An answer, or none, to what was asked.
LEMMA FinishHolds ==
  ASSUME AnalystInv, NEW good \in BOOLEAN, NEW s \in Reply, s.by = request.by, Analyst!Finish(s, good),
         UNCHANGED <<parallel, second, third, candidates, others>>
  PROVE  AnalystInv'
<1> USE AnalystAssumption DEF Analyst!Sane
<1>1. request' = Analyst!NoRequest /\ UNCHANGED <<phase, count>>
  BY DEF Analyst!Finish, Analyst!analyst
<1>2. Asked(request') /\ request'.by = "none"
  <2>1. <<>> \in Seq(Analyst!Replies) /\ <<>> \in Seq(Analyst!Models)
    BY EmptySeq
  <2>2. /\ request'.by = "none" /\ request'.at = "idle"
        /\ request' \in Reply
    BY <1>1, <2>1 DEF Analyst!NoRequest, Reply, Analyst!Places
  <2> QED BY <1>1, <2>2 DEF Asked, Drafting, Merging, Chaining
<1>3. CASE request.by # "analyst"
  <2>1. UNCHANGED <<next, failures, enabled, log>>
    BY <1>3 DEF Analyst!Finish, Analyst!analyst
  <2>2. Tallied'
    BY <2>1 DEF AnalystInv, Tallied, Analyst!Answered
  <2>3. (Analyst!TypeOK)'
    BY <1>1, <1>2, <2>1 DEF AnalystInv, Analyst!TypeOK, Asked, Reply
  <2> QED BY <1>2, <2>1, <2>2, <2>3 DEF AnalystInv
<1>4. CASE request.by = "analyst"
  <2>1. /\ failures' = IF good THEN 0 ELSE failures + 1
        /\ enabled' = (enabled /\ failures' < MaxFailures)
        /\ next' = next + 1  /\ log' = Append(log, IF good THEN "yes" ELSE "no")
    BY <1>4, Zenon DEF Analyst!Finish
  <2>2. /\ failures \in Nat /\ failures < MaxFailures /\ enabled /\ next <= Analyst!Requests
        /\ next \in 1 .. MaxFindings + 3 /\ candidates \in 0 .. MaxFindings /\ log \in Seq({"yes", "no"})
    BY <1>4 DEF AnalystInv, Analyst!TypeOK
  <2>3. failures' \in Nat /\ failures' <= MaxFailures /\ enabled' \in BOOLEAN /\ (enabled' => failures' < MaxFailures)
    BY <2>1, <2>2
  <2>4. next' \in 1 .. MaxFindings + 3
    BY <2>1, <2>2 DEF Analyst!Requests
  <2>5. /\ log' \in Seq({"yes", "no"}) /\ Len(log') = Len(log) + 1 /\ Len(log) \in Nat
        /\ Cardinality(Analyst!Answered) \in Nat
        /\ Cardinality(Analyst!Answered)' = IF good THEN Cardinality(Analyst!Answered) + 1 ELSE Cardinality(Analyst!Answered)
    BY <2>1, <2>2, LogGrows
  <2>6. Tallied'
    <3>1. PICK n, c, d, m, f, g : /\ n = Len(log) /\ c = Cardinality(Analyst!Answered) /\ m = MaxFailures
                                  /\ d = Cardinality(Analyst!Answered)' /\ f = failures /\ g = failures'
      OBVIOUS
    <3>2. n \in Nat /\ c \in Nat /\ m \in Nat /\ f \in Nat /\ f < m /\ n <= m * c + f
      BY <2>2, <2>5, <3>1 DEF AnalystInv, Tallied
    <3>3. d = (IF good THEN c + 1 ELSE c) /\ g = IF good THEN 0 ELSE f + 1
      BY <2>1, <2>5, <3>1
    <3>4. n + 1 <= m * d + g
      <4>1. m * (c + 1) = m * c + m /\ m * c \in Nat
        BY <3>2
      <4> QED BY <3>2, <3>3, <4>1
    <3> QED BY <2>5, <3>1, <3>4 DEF Tallied
  <2>7. (Analyst!TypeOK)'
    BY <1>1, <1>2, <2>3, <2>4, <2>5 DEF AnalystInv, Analyst!TypeOK, Asked, Reply
  <2> QED BY <1>2, <2>3, <2>6, <2>7 DEF AnalystInv
<1> QED BY <1>3, <1>4

\* A request that goes on.
LEMMA GoesHolds ==
  ASSUME AnalystInv, NEW s \in Reply, Goes(request, s), UNCHANGED <<parallel, second, third, candidates, others>>
  PROVE  AnalystInv'
<1>1. request' = s /\ UNCHANGED <<phase, next, count, failures, enabled, log>> /\ Asked(s) /\ s.by = request.by
  BY DEF Goes, Analyst!GoOn, Analyst!analyst
<1>2. Asked(request') /\ request'.by = request.by
  BY <1>1
<1>3. Tallied'
  BY <1>1 DEF AnalystInv, Tallied, Analyst!Answered
<1>4. (Analyst!TypeOK)'
  BY <1>1, <1>2 DEF AnalystInv, Analyst!TypeOK, Asked, Reply
<1>5. (Analyst!Requests)' = Analyst!Requests
  BY <1>1 DEF Analyst!Requests
<1> QED BY <1>1, <1>2, <1>3, <1>4, <1>5 DEF AnalystInv

LEMMA LeadsHolds ==
  ASSUME AnalystInv, Leads(request), UNCHANGED <<parallel, second, third, candidates, others>>
  PROVE  AnalystInv'
BY FinishHolds, GoesHolds DEF Leads, Closes

\* A request is made: an analyst's while it may ask, or one of a chat or a monitor.
LEMMA AskHolds ==
  ASSUME AnalystInv, Analyst!AskModels
  PROVE  AnalystInv'
<1> USE AnalystAssumption DEF Analyst!Sane
<1>1. /\ request' = Analyst!Drafted("analyst", TRUE, FALSE) /\ next <= Analyst!Requests /\ enabled /\ count < MaxCalls
      /\ count' = count + 1 /\ UNCHANGED <<parallel, second, third, candidates, phase, next, failures, enabled, others, log>>
  BY DEF Analyst!AskModels, Analyst!settings, Analyst!May
<1>2. Asked(request') /\ request'.by = "analyst"
  <2>1. second \in BOOLEAN /\ third \in BOOLEAN
    BY DEF AnalystInv, Analyst!TypeOK
  <2>2. \A by \in {"analyst", "chat", "live"}, synth, again \in BOOLEAN : (by = "analyst" => synth /\ ~again) =>
          Asked(Analyst!Drafted(by, synth, again)) /\ Analyst!Drafted(by, synth, again).by = by
    BY <2>1, DraftedFacts
  <2> QED BY <1>1, <2>2
<1>3. Tallied'
  BY <1>1 DEF AnalystInv, Tallied, Analyst!Answered
<1>4. count' \in 0 .. MaxCalls
  BY <1>1 DEF AnalystInv, Analyst!TypeOK
<1>5. (Analyst!TypeOK)'
  BY <1>1, <1>2, <1>4 DEF AnalystInv, Analyst!TypeOK, Asked, Reply
<1>6. (Analyst!Requests)' = Analyst!Requests
  BY <1>1 DEF Analyst!Requests
<1> QED BY <1>1, <1>2, <1>3, <1>5, <1>6 DEF AnalystInv

LEMMA OthersHold ==
  ASSUME AnalystInv, Analyst!Chat \/ Analyst!Live
  PROVE  AnalystInv'
<1> USE AnalystAssumption DEF Analyst!Sane
<1>1. others < MaxOthers /\ others' = others + 1
      /\ UNCHANGED <<parallel, second, third, candidates, phase, next, count, failures, enabled, log>>
  BY DEF Analyst!Chat, Analyst!Live, Analyst!settings, Analyst!analyst
<1>2. Asked(request') /\ request'.by # "analyst"
  <2>1. second \in BOOLEAN /\ third \in BOOLEAN /\ parallel \in BOOLEAN
    BY DEF AnalystInv, Analyst!TypeOK
  <2>2. \A by \in {"analyst", "chat", "live"}, synth, again \in BOOLEAN : (by = "analyst" => synth /\ ~again) =>
          Asked(Analyst!Drafted(by, synth, again)) /\ Analyst!Drafted(by, synth, again).by = by
    BY <2>1, DraftedFacts
  <2>3. CASE Analyst!Chat
    <3>1. PICK detailed, big \in BOOLEAN : request' = Analyst!Drafted("chat", detailed, parallel /\ big /\ detailed)
      BY <2>3 DEF Analyst!Chat
    <3>2. (parallel /\ big /\ detailed) \in BOOLEAN
      BY <2>1, Zenon
    <3> QED BY <2>2, <3>1, <3>2
  <2>4. CASE Analyst!Live
    <3>1. request' = Analyst!Drafted("live", TRUE, FALSE)
      BY <2>4 DEF Analyst!Live
    <3> QED BY <2>2, <3>1
  <2> QED BY <2>3, <2>4
<1>3. Tallied'
  BY <1>1 DEF AnalystInv, Tallied, Analyst!Answered
<1>4. others' \in 0 .. MaxOthers
  BY <1>1 DEF AnalystInv, Analyst!TypeOK
<1>5. (Analyst!TypeOK)'
  BY <1>1, <1>2, <1>4 DEF AnalystInv, Analyst!TypeOK, Asked, Reply
<1> QED BY <1>1, <1>2, <1>3, <1>5 DEF AnalystInv

\* The report has an analyst of its own.
LEMMA HireHolds ==
  ASSUME Analyst!TypeOK, Asked(request'), request'.by = "none" \/ request'.by # "analyst", Analyst!Hire,
         next' = 1, phase' \in {"findings", "report", "done"}, UNCHANGED <<parallel, second, third, candidates, others>>
  PROVE  AnalystInv'
<1> USE AnalystAssumption DEF Analyst!Sane
<1>1. count' = 0 /\ failures' = 0 /\ enabled' = TRUE /\ log' = <<>>
  BY DEF Analyst!Hire
<1>2. log' \in Seq({"yes", "no"}) /\ Len(log') = 0 /\ DOMAIN log' = {}
  BY <1>1
<1>3. Tallied'
  <2>1. (Analyst!Answered)' = {}
    BY <1>2 DEF Analyst!Answered
  <2>2. Cardinality(Analyst!Answered)' = 0
    BY <2>1, FS_EmptySet
  <2> QED BY <1>1, <1>2, <2>2 DEF Tallied
<1>4. count' \in 0 .. MaxCalls /\ failures' \in Nat /\ next' \in 1 .. MaxFindings + 3
      /\ failures' <= MaxFailures /\ failures' < MaxFailures
  BY <1>1
<1>5. (Analyst!TypeOK)'
  BY <1>1, <1>2, <1>4 DEF Analyst!TypeOK, Asked, Reply
<1> QED BY <1>3, <1>4, <1>5 DEF AnalystInv

LEMMA NextPhaseHolds ==
  ASSUME AnalystInv, Analyst!NextPhase
  PROVE  AnalystInv'
<1>1. /\ request' = request /\ request = Analyst!NoRequest /\ next' = 1 /\ Analyst!Hire
      /\ phase' \in {"findings", "report", "done"} /\ UNCHANGED <<parallel, second, third, candidates, others>>
  BY DEF Analyst!NextPhase, Analyst!settings
<1>2. Asked(request') /\ request'.by # "analyst"
  BY <1>1 DEF AnalystInv, Analyst!NoRequest
<1> QED BY <1>1, <1>2, HireHolds DEF AnalystInv

LEMMA AnalystInit == Analyst!Init => AnalystInv
<1> SUFFICES ASSUME Analyst!Init PROVE AnalystInv
  OBVIOUS
<1> USE AnalystAssumption DEF Analyst!Sane
<1>1. /\ {parallel, second, third} \subseteq BOOLEAN /\ phase = "findings" /\ next = 1 /\ candidates \in 0 .. MaxFindings
      /\ count = 0 /\ failures = 0 /\ enabled = TRUE /\ request = Analyst!NoRequest /\ others = 0 /\ log = <<>>
  BY DEF Analyst!Init
<1>2. log \in Seq({"yes", "no"}) /\ Len(log) = 0 /\ DOMAIN log = {}
  BY <1>1
<1>3. Asked(request) /\ request.by = "none"
  <2>1. <<>> \in Seq(Analyst!Replies) /\ <<>> \in Seq(Analyst!Models)
    BY EmptySeq
  <2>2. request.by = "none" /\ request.at = "idle" /\ request \in Reply
    BY <1>1, <2>1 DEF Analyst!NoRequest, Reply, Analyst!Places
  <2> QED BY <1>1, <2>2 DEF Asked, Drafting, Merging, Chaining
<1>4. Tallied
  <2>1. Analyst!Answered = {}
    BY <1>2 DEF Analyst!Answered
  <2>2. Cardinality(Analyst!Answered) = 0
    BY <2>1, FS_EmptySet
  <2> QED BY <1>1, <1>2, <2>2 DEF Tallied
<1>5. Analyst!TypeOK
  BY <1>1, <1>2, <1>3 DEF Analyst!TypeOK, Asked, Reply
<1> QED BY <1>1, <1>3, <1>4, <1>5 DEF AnalystInv

\* A reply leads somewhere, and leaves the settings alone.
LEMMA RepliesLead ==
  ASSUME AnalystInv, NEW reply \in Analyst!Replies, Analyst!Draft(reply) \/ Analyst!Merge(reply) \/ Analyst!Try(reply)
  PROVE  Leads(request) /\ UNCHANGED <<parallel, second, third, candidates, others>>
<1>1. Leads(request)
  BY DraftLeads, MergeLeads, TryLeads
<1>2. UNCHANGED <<parallel, second, third, candidates, others>>
  BY DEF Analyst!Draft, Analyst!Merge, Analyst!Try, Analyst!settings
<1> QED BY <1>1, <1>2

LEMMA AnalystStep == AnalystInv /\ [Analyst!Next]_(Analyst!vars) => AnalystInv'
<1> SUFFICES ASSUME AnalystInv, [Analyst!Next]_(Analyst!vars) PROVE AnalystInv'
  OBVIOUS
<1>1. CASE Analyst!AskModels
  BY <1>1, AskHolds
<1>2. CASE Analyst!NextPhase
  BY <1>2, NextPhaseHolds
<1>3. CASE Analyst!Chat \/ Analyst!Live
  BY <1>3, OthersHold
<1>4. ASSUME NEW reply \in Analyst!Replies, Analyst!Draft(reply) \/ Analyst!Merge(reply) \/ Analyst!Try(reply)
      PROVE  AnalystInv'
  BY <1>4, RepliesLead, LeadsHolds
<1>5. CASE UNCHANGED Analyst!vars
  <2>1. /\ UNCHANGED <<parallel, second, third, candidates, phase, next, count, failures, enabled>>
        /\ UNCHANGED <<request, others, log>>
    BY <1>5 DEF Analyst!vars, Analyst!settings, Analyst!analyst
  <2>2. Tallied' /\ (Analyst!Requests)' = Analyst!Requests
    BY <2>1 DEF AnalystInv, Tallied, Analyst!Answered, Analyst!Requests
  <2>3. (Analyst!TypeOK)'
    BY <2>1 DEF AnalystInv, Analyst!TypeOK
  <2> QED BY <2>1, <2>2, <2>3 DEF AnalystInv
<1> QED BY <1>1, <1>2, <1>3, <1>4, <1>5 DEF Analyst!Next

LEMMA AnalystHolds == Analyst!Spec => []AnalystInv
<1> QED BY AnalystInit, AnalystStep, PTL DEF Analyst!Spec

\* An analyst makes at most MaxFailures requests more than MaxFailures times those that were answered, and a request
\* at most six calls, seven for a chat.
THEOREM CostIsBounded == Analyst!Spec => []CostBounded
<1>1. AnalystInv => CostBounded
  <2> SUFFICES ASSUME AnalystInv PROVE CostBounded
    OBVIOUS
  <2> USE AnalystAssumption DEF Analyst!Sane
  <2>1. Analyst!TypeOK /\ failures <= MaxFailures /\ Asked(request) /\ Tallied
    BY DEF AnalystInv
  <2>2. request \in Reply /\ request.calls \in Nat
    BY <2>1 DEF Asked, Reply
  <2>3. request.calls <= IF request.by = "chat" THEN 7 ELSE 6
    <3>1. PICK c, n : c = request.calls /\ n = Len(request.todo)
      OBVIOUS
    <3>2. c \in Nat /\ n \in Nat
      BY <2>2, <3>1, LenProperties DEF Reply
    <3>3. CASE request.at = "idle"
      BY <2>1, <3>3 DEF Asked, Analyst!NoRequest
    <3>4. CASE request.at = "draft"
      <4>1. c + n <= 4
        BY <2>1, <3>1, <3>2, <3>4 DEF Asked, Drafting
      <4> QED BY <3>1, <3>2, <4>1
    <3>5. CASE request.at = "merge"
      <4>1. c <= 4
        BY <2>1, <3>1, <3>2, <3>5 DEF Asked, Merging
      <4> QED BY <3>1, <3>2, <4>1
    <3>6. CASE request.at = "chain"
      <4>1. c + n <= IF request.by = "chat" THEN 7 ELSE 6
        BY <2>1, <3>1, <3>6 DEF Asked, Chaining
      <4> QED BY <3>1, <3>2, <4>1
    <3> QED BY <2>2, <3>3, <3>4, <3>5, <3>6 DEF Reply, Analyst!Places
  <2>4. Len(log) <= MaxFailures * Analyst!Cardinality(Analyst!Answered) + MaxFailures
    <3>1. Analyst!Cardinality(Analyst!Answered) = Cardinality(Analyst!Answered)
      BY DEF Analyst!Cardinality, Cardinality
    <3>2. log \in Seq({"yes", "no"}) /\ failures \in Nat
      BY <2>1 DEF Analyst!TypeOK
    <3>3. Cardinality(Analyst!Answered) \in Nat
      <4>1. IsFiniteSet(DOMAIN log) /\ Analyst!Answered \subseteq DOMAIN log
        BY <3>2, LenProperties, FS_Interval DEF Analyst!Answered
      <4> QED BY <4>1, FS_Subset, FS_CardinalityType
    <3>4. PICK n, k, f : n = Len(log) /\ k = MaxFailures * Cardinality(Analyst!Answered) /\ f = failures
      OBVIOUS
    <3>5. n \in Nat /\ k \in Nat /\ f \in Nat /\ n <= k + f /\ f <= MaxFailures
      BY <2>1, <3>2, <3>3, <3>4, LenProperties DEF Tallied
    <3> QED BY <3>1, <3>4, <3>5
  <2> QED BY <2>1, <2>3, <2>4 DEF CostBounded, Analyst!CostBounded
<1> QED BY <1>1, AnalystHolds, PTL

\* An analyst's request for which some call brought what it wants does not end empty.
THEOREM AnswersAreKept == Analyst!Spec => NoAnswerLost
<1> DEFINE Ends0 == request # Analyst!NoRequest /\ request' = Analyst!NoRequest /\ request.by = "analyst" /\ request.heard
           Kept == (Ends0 /\ next' > next) => Analyst!Last(log') = "yes"
<1>1. AnalystInv /\ [Analyst!Next]_(Analyst!vars) => [Kept]_(Analyst!vars)
  <2> SUFFICES ASSUME AnalystInv, Analyst!Next, Ends0 PROVE Analyst!Last(log') = "yes"
    OBVIOUS
  <2>1. ~Analyst!AskModels /\ ~Analyst!NextPhase /\ ~Analyst!Chat /\ ~Analyst!Live
    BY DEF Analyst!AskModels, Analyst!NextPhase, Analyst!Chat, Analyst!Live
  <2>2. PICK reply \in Analyst!Replies : Analyst!Draft(reply) \/ Analyst!Merge(reply) \/ Analyst!Try(reply)
    BY <2>1 DEF Analyst!Next
  <2>3. Leads(request)
    BY <2>2, RepliesLead
  <2>4. PICK good \in BOOLEAN : Closes(request, good)
    BY <2>3 DEF Leads, Goes, Analyst!GoOn
  <2>5. good
    BY <2>4 DEF Closes
  <2>6. log' = Append(log, "yes")
    BY <2>4, <2>5 DEF Closes, Analyst!Finish
  <2>7. log \in Seq({"yes", "no"})
    BY DEF AnalystInv, Analyst!TypeOK
  <2>8. Len(log') = Len(log) + 1 /\ log'[Len(log) + 1] = "yes"
    <3>1. "yes" \in {"yes", "no"}
      OBVIOUS
    <3> QED BY <2>6, <2>7, <3>1, AppendProperties
  <2> QED BY <2>8 DEF Analyst!Last
<1> QED BY <1>1, AnalystHolds, PTL DEF Analyst!Spec, NoAnswerLost, Analyst!NoAnswerLost

-----------------------------------------------------------------------------
(* Threads that share the models.  The semaphore counts the threads in the  *)
(* slot; one that is about to call sleeps as long as the interval lasts;    *)
(* and whom a request was to leave alone when it last looked was parked     *)
(* later, if it is parked.                                                  *)

\* The providers (the provers do not know that a literal is a string).
Entries == [name : {"zai", "nvidia", "nvidia_secondary", "openrouter", "primary"}, key : Gate!Keys,
            model : STRING \cup {"glm", "deepseek"}]
GateJob == [kind : Gate!Kinds, at : Gate!Places, plan : Seq(Entries), all : BOOLEAN,
            err : Gate!Errors, retry : BOOLEAN]
InSlot(at) == at \in {"call", "out", "again"}
Holders == {c \in Threads : InSlot(job[c].at)}
\* A request under way has providers left to ask.
Apt(j) ==
  /\ j.at = "idle" => j = Gate!Idle
  /\ j.at # "idle" => j.plan # <<>> /\ j.kind # "none"
  /\ j.at = "look" => j.kind = "probe"
  /\ j.at = "note" => j.kind # "ask"
LeftAlone(c, k) == <<c, k>> \in stale \/ park[k] = 0
Looked(c) ==
  /\ job[c].kind = "route" => \A i \in DOMAIN job[c].plan : LeftAlone(c, job[c].plan[i].key)
  /\ job[c].kind = "probe" /\ job[c].at # "look" => LeftAlone(c, Gate!Turn(c))

GateTypes ==
  /\ models \in Seq(Entries) /\ models # <<>>
  /\ park \in [Gate!Keys -> Nat] /\ rest \in Nat /\ wake \in [Threads -> Nat]
  /\ job \in [Threads -> GateJob]
SlotsCounted == IsFiniteSet(Holders) /\ held = Cardinality(Holders) /\ held <= MaxConcurrent
RestKept == MaxConcurrent = 1 => \A c \in Threads : job[c].at = "call" => rest <= wake[c]
AllApt == \A c \in Threads : Apt(job[c])
AllLooked == \A c \in Threads : Looked(c)
GateInv == GateTypes /\ SlotsCounted /\ RestKept /\ AllApt /\ AllLooked

LEMMA GateNumbers ==
  /\ MinInterval \in Nat /\ MaxSleep \in Nat /\ Pause \in Nat /\ MaxConcurrent \in Nat
  /\ LimitDelay \in Nat /\ CreditDelay \in Nat /\ OtherDelay \in Nat /\ AffordDelay \in Nat
<1>1. /\ {MinInterval, MaxSleep, LimitDelay, CreditDelay, OtherDelay, AffordDelay, Pause, MaxJobs} \subseteq Nat
      /\ {MaxConcurrent, MaxModels} \subseteq Nat \ {0}
  BY GateAssumption, Zenon DEF Gate!Sane
<1> QED BY <1>1

\* One slot has one holder.
LEMMA OneHolder ==
  ASSUME SlotsCounted, MaxConcurrent = 1
  PROVE  \A c, d \in Holders : c = d
<1> SUFFICES ASSUME NEW c \in Holders, NEW d \in Holders, c # d PROVE FALSE
  OBVIOUS
<1>1. IsFiniteSet({c}) /\ Cardinality({c}) = 1
  BY FS_Singleton
<1>2. IsFiniteSet({c} \cup {d}) /\ Cardinality({c} \cup {d}) = 1 + 1
  BY <1>1, FS_AddElement
<1>3. Cardinality({c} \cup {d}) <= Cardinality(Holders)
  <2>1. {c} \cup {d} \in SUBSET Holders
    OBVIOUS
  <2> QED BY <2>1, FS_Subset DEF SlotsCounted
<1>4. Cardinality(Holders) \in Nat /\ Cardinality(Holders) <= 1
  BY FS_CardinalityType DEF SlotsCounted
<1> QED BY <1>2, <1>3, <1>4

\* The slot is kept, taken or left.
SlotMoves(c, at) ==
  \/ (InSlot(at) <=> InSlot(job[c].at)) /\ held' = held
  \/ InSlot(at) /\ ~InSlot(job[c].at) /\ held < MaxConcurrent /\ held' = held + 1
  \/ ~InSlot(at) /\ InSlot(job[c].at) /\ held' = held - 1
LEMMA SlotsStayCounted ==
  ASSUME SlotsCounted, job \in [Threads -> GateJob], NEW c \in Threads, NEW j \in GateJob,
         job' = [job EXCEPT ![c] = j], SlotMoves(c, j.at)
  PROVE  SlotsCounted'
<1>0. MaxConcurrent \in Int
  BY GateNumbers
<1>1. \A d \in Threads : job'[d] = IF d = c THEN j ELSE job[d]
  OBVIOUS
<1>2. PICK S : S = Holders
  OBVIOUS
<1>3. IsFiniteSet(S) /\ held = Cardinality(S) /\ held <= MaxConcurrent /\ Cardinality(S) \in Nat
  BY <1>2, FS_CardinalityType DEF SlotsCounted
<1>4. S = {d \in Threads : InSlot(job[d].at)} /\ Holders' = {d \in Threads : InSlot(job'[d].at)}
  BY <1>2 DEF Holders, InSlot
<1>5. CASE (InSlot(j.at) <=> InSlot(job[c].at)) /\ held' = held
  <2>1. Holders' = S
    BY <1>1, <1>4, <1>5
  <2> QED BY <1>3, <1>5, <2>1 DEF SlotsCounted
<1>6. CASE InSlot(j.at) /\ ~InSlot(job[c].at) /\ held < MaxConcurrent /\ held' = held + 1
  <2>1. Holders' = S \cup {c} /\ c \notin S
    BY <1>1, <1>4, <1>6
  <2>2. IsFiniteSet(S \cup {c}) /\ Cardinality(S \cup {c}) = Cardinality(S) + 1
    BY <1>3, <2>1, FS_AddElement
  <2>3. held + 1 <= MaxConcurrent
    BY ONLY <1>0, <1>3, <1>6
  <2> QED BY <1>3, <1>6, <2>1, <2>2, <2>3 DEF SlotsCounted
<1>7. CASE ~InSlot(j.at) /\ InSlot(job[c].at) /\ held' = held - 1
  <2>1. Holders' = S \ {c} /\ c \in S
    BY <1>1, <1>4, <1>7
  <2>2. IsFiniteSet(S \ {c}) /\ Cardinality(S \ {c}) = Cardinality(S) - 1
    BY <1>3, <2>1, FS_RemoveElement
  <2>3. held - 1 <= MaxConcurrent
    BY ONLY <1>0, <1>3, <1>7
  <2> QED BY <1>3, <1>7, <2>1, <2>2, <2>3 DEF SlotsCounted
<1> QED BY <1>5, <1>6, <1>7 DEF SlotMoves

\* What a step of one thread must keep.
OthersLeftAlone(c) ==
  \A d \in Threads \ {c}, k \in Gate!Keys :
    job[d] # Gate!Idle /\ LeftAlone(d, k) => <<d, k>> \in stale' \/ park'[k] = 0
RestMoves(c, at) ==
  \/ rest' = rest /\ (at = "call" => rest <= wake'[c])
  \/ InSlot(job[c].at) /\ at # "call"
LEMMA JobStep ==
  ASSUME GateInv, NEW c \in Threads, NEW j \in GateJob, Apt(j), job' = [job EXCEPT ![c] = j],
         models' = models, park' \in [Gate!Keys -> Nat], rest' \in Nat, wake' \in [Threads -> Nat],
         \A d \in Threads \ {c} : wake'[d] = wake[d],
         SlotMoves(c, j.at), RestMoves(c, j.at), OthersLeftAlone(c), Looked(c)'
  PROVE  GateInv'
<1>1. GateTypes /\ SlotsCounted /\ RestKept /\ AllApt /\ AllLooked
  BY DEF GateInv
<1>2. \A d \in Threads : job'[d] = IF d = c THEN j ELSE job[d]
  BY <1>1 DEF GateTypes
<1>3. GateTypes'
  BY <1>1 DEF GateTypes
<1>4. SlotsCounted'
  BY <1>1, SlotsStayCounted DEF GateTypes
<1>5. AllApt'
  BY <1>1, <1>2 DEF AllApt
<1>6. AllLooked'
  <2> SUFFICES ASSUME NEW d \in Threads, d # c PROVE Looked(d)'
    BY DEF AllLooked
  <2>1. job'[d] = job[d] /\ Looked(d) /\ Apt(job[d]) /\ job[d] \in GateJob
    BY <1>1, <1>2 DEF AllLooked, AllApt, GateTypes
  <2>2. CASE job[d] = Gate!Idle
    BY <2>1, <2>2 DEF Looked, Gate!Idle
  <2>3. CASE job[d] # Gate!Idle
    <3>1. \A k \in Gate!Keys : LeftAlone(d, k) => <<d, k>> \in stale' \/ park'[k] = 0
      BY <2>3 DEF OthersLeftAlone
    <3>2. job[d].plan \in Seq(Entries) /\ job[d].plan # <<>>
      BY <2>1, <2>3 DEF Apt, GateJob
    <3>3. \A i \in DOMAIN job[d].plan : job[d].plan[i].key \in Gate!Keys
      <4>1. \A p \in Entries : p.key \in Gate!Keys
        BY DEF Entries
      <4> QED BY <3>2, <4>1, ElementOfSeq, LenProperties
    <3>4. Gate!Turn(d) \in Gate!Keys
      BY <3>2, <3>3 DEF Gate!Turn
    <3>5. job[d].kind = "route" =>
            \A i \in DOMAIN job[d].plan : <<d, job[d].plan[i].key>> \in stale' \/ park'[job[d].plan[i].key] = 0
      BY <2>1, <3>1, <3>3 DEF Looked
    <3>6. job[d].kind = "probe" /\ job[d].at # "look" =>
            <<d, Gate!Turn(d)>> \in stale' \/ park'[Gate!Turn(d)] = 0
      BY <2>1, <3>1, <3>4 DEF Looked
    <3> QED BY <2>1, <3>5, <3>6 DEF Looked, LeftAlone, Gate!Turn
  <2> QED BY <2>2, <2>3
<1>7. RestKept'
  <2> SUFFICES ASSUME MaxConcurrent = 1, NEW d \in Threads, job'[d].at = "call" PROVE rest' <= wake'[d]
    BY DEF RestKept
  <2>1. CASE rest' = rest /\ (j.at = "call" => rest <= wake'[c])
    BY <1>1, <1>2, <2>1 DEF RestKept
  <2>2. CASE InSlot(job[c].at) /\ j.at # "call"
    <3>1. d # c /\ job[d].at = "call"
      BY <1>2, <2>2
    <3>2. c \in Holders /\ d \in Holders
      BY <2>2, <3>1 DEF Holders, InSlot
    <3> QED BY <1>1, <3>1, <3>2, OneHolder
  <2> QED BY <2>1, <2>2 DEF RestMoves
<1> QED BY <1>3, <1>4, <1>5, <1>6, <1>7 DEF GateInv

\* A failure parks its provider, and whoever is under way may not have seen it.
LEMMA NoteFacts ==
  ASSUME GateInv, NEW c \in Threads, NEW err \in Gate!Errors, Gate!Turn(c) \in Gate!Keys, Gate!NoteFailure(c, err)
  PROVE  /\ park' \in [Gate!Keys -> Nat]
         /\ \A k \in Gate!Keys : park'[k] = park[k] \/ (k = Gate!Turn(c) /\ park'[k] \in Nat)
         /\ \A d \in Threads, k \in Gate!Keys :
              job[d] # Gate!Idle /\ LeftAlone(d, k) => <<d, k>> \in stale' \/ park'[k] = 0
<1> DEFINE k0 == Gate!Turn(c)  delay == Gate!Delay(k0, err)
<1>1. delay \in Nat
  BY GateNumbers DEF Gate!Delay
<1>2. park \in [Gate!Keys -> Nat]
  BY DEF GateInv, GateTypes
<1>3. IF delay = 0 THEN UNCHANGED <<park, stale>>
      ELSE /\ park' = [park EXCEPT ![k0] = delay]
           /\ stale' = stale \cup {<<d, k0>> : d \in {d \in Threads : job[d] # Gate!Idle}}
  BY DEF Gate!NoteFailure
<1> HIDE DEF delay, k0
<1>4. CASE delay = 0
  BY <1>2, <1>3, <1>4 DEF LeftAlone
<1>5. CASE delay # 0
  <2>1. park' \in [Gate!Keys -> Nat] /\ \A k \in Gate!Keys : park'[k] = IF k = k0 THEN delay ELSE park[k]
    BY <1>1, <1>2, <1>3, <1>5
  <2>2. ASSUME NEW d \in Threads, NEW k \in Gate!Keys, job[d] # Gate!Idle, LeftAlone(d, k)
        PROVE  <<d, k>> \in stale' \/ park'[k] = 0
    <3>1. CASE k = k0
      BY <1>3, <1>5, <2>2, <3>1
    <3>2. CASE k # k0
      BY <1>3, <1>5, <2>1, <2>2, <3>2 DEF LeftAlone
    <3> QED BY <3>1, <3>2
  <2> QED BY <1>1, <2>1, <2>2 DEF k0
<1> QED BY <1>4, <1>5

\* The request goes on to its next provider, or is over.
After(c, j) ==
  /\ job' = [job EXCEPT ![c] = j] /\ Apt(j)
  /\ j = Gate!Idle \/ (j.at \in {"look", "wait"} /\ j.kind = job[c].kind /\ j.plan = Tail(job[c].plan) /\ (j.kind = "probe" => j.at = "look"))
LEMMA ProceedFacts ==
  ASSUME GateInv, NEW c \in Threads, job[c].plan # <<>>, job[c].at # "idle", NEW b \in BOOLEAN, Gate!Proceed(c, b)
  PROVE  \E j \in GateJob : After(c, j)
<1> DEFINE q == job[c]  plan == Tail(q.plan)
           more == (q.all /\ Len(plan) > 1)
           at == IF q.kind = "probe" THEN "look" ELSE "wait"
           j == [q EXCEPT !.at = at, !.plan = plan, !.all = more, !.err = "ok"]
<1>1. job \in [Threads -> GateJob] /\ q \in GateJob /\ Apt(q)
  BY DEF GateInv, GateTypes, AllApt
<1>2. plan \in Seq(Entries) /\ more \in BOOLEAN /\ at \in Gate!Places /\ "ok" \in Gate!Errors
  <2>1. plan \in Seq(Entries)
    BY <1>1 DEF GateJob
  <2>2. more \in BOOLEAN
    BY <1>1, Zenon DEF GateJob
  <2> QED BY <2>1, <2>2 DEF Gate!Places, Gate!Errors, Gate!Answers
<1>3. Gate!Idle \in GateJob /\ Apt(Gate!Idle)
  <2>1. <<>> \in Seq(Entries)
    BY EmptySeq
  <2> QED BY <2>1 DEF Gate!Idle, GateJob, Gate!Kinds, Gate!Places, Gate!Errors, Gate!Answers, Apt
<1>4. job' = [job EXCEPT ![c] = IF plan = <<>> \/ (b /\ ~q.all) THEN Gate!Idle ELSE j]
  BY <1>1 DEF Gate!Proceed, GateJob
<1>5. CASE plan = <<>> \/ (b /\ ~q.all)
  BY <1>3, <1>4, <1>5 DEF After
<1>6. CASE ~(plan = <<>> \/ (b /\ ~q.all))
  <2> HIDE DEF plan, more, at, q
  <2>1. j \in GateJob
    BY <1>1, <1>2 DEF GateJob
  <2>2. j.kind = q.kind /\ j.at = at /\ j.plan = plan
    BY <1>1, <1>2 DEF GateJob
  <2>3. q.kind # "none"
    BY <1>1 DEF Apt, q
  <2> HIDE DEF j
  <2>4. Apt(j)
    BY <1>6, <2>2, <2>3 DEF Apt, at
  <2>5. After(c, j)
    BY <1>4, <1>6, <2>2, <2>4 DEF After, at, plan, q
  <2> QED BY <2>1, <2>5
<1> QED BY <1>5, <1>6

\* Whoever proceeds leaves alone whom it left alone, when nothing but the failure noted was new.
LEMMA AfterLooked ==
  ASSUME GateInv, NEW c \in Threads, NEW j \in GateJob, After(c, j), job[c] # Gate!Idle, job[c].plan # <<>>,
         \A k \in Gate!Keys : LeftAlone(c, k) => <<c, k>> \in stale' \/ park'[k] = 0
  PROVE  Looked(c)'
<1>1. job \in [Threads -> GateJob] /\ job[c] \in GateJob /\ Looked(c)
  BY DEF GateInv, GateTypes, AllLooked
<1>2. job'[c] = j
  BY <1>1 DEF After
<1>3. CASE j = Gate!Idle
  BY <1>2, <1>3 DEF Looked, Gate!Idle
<1>4. CASE j # Gate!Idle
  <2>1. j.kind = job[c].kind /\ j.plan = Tail(job[c].plan) /\ (j.kind = "probe" => j.at = "look")
    BY <1>4 DEF After
  <2>2. ASSUME j.kind = "route", NEW i \in DOMAIN j.plan PROVE <<c, j.plan[i].key>> \in stale' \/ park'[j.plan[i].key] = 0
    <3>1. job[c].plan \in Seq(Entries)
      BY <1>1 DEF GateJob
    <3>2. i + 1 \in DOMAIN job[c].plan /\ j.plan[i] = job[c].plan[i + 1]
      BY <2>1, <2>2, <3>1
    <3>3. job[c].plan[i + 1] \in Entries
      BY <3>1, <3>2, ElementOfSeq, LenProperties
    <3>4. j.plan[i].key \in Gate!Keys /\ LeftAlone(c, j.plan[i].key)
      BY <1>1, <2>1, <2>2, <3>2, <3>3 DEF Looked, Entries
    <3> QED BY <3>4
  <2> QED BY <1>2, <2>1, <2>2 DEF Looked, LeftAlone
<1> QED BY <1>3, <1>4

\* The stack that settings give.
LEMMA StackFacts ==
  ASSUME NEW cfg \in Configs
  PROVE  Gate!BuildLiveStack(cfg) \in Seq(Entries) /\ Gate!BuildLiveStack(cfg) # <<>>
<1> DEFINE Stacks == Seq(Entries)
<1>1. cfg.model \in STRING /\ cfg.fallback \in STRING /\ cfg.second \in STRING
  <2>1. cfg \in [single : {"", "zai", "nvidia"}, provider : {"zai", "nvidia", "openai", "anthropic"},
                 zaiKey : BOOLEAN, nvidiaKey : BOOLEAN, openrouterKey : BOOLEAN,
                 model : STRING, fallback : STRING, second : STRING]
    BY GateAssumption, Zenon DEF Gate!Sane
  <2> QED BY <2>1
<1>3. \A name \in {"zai", "primary"} : Gate!GetProvider(cfg, name) \in Entries
  <2> TAKE name \in {"zai", "primary"}
  <2>1. /\ Gate!Provider(name, "zai", "glm") \in Entries
        /\ Gate!Provider(name, "default", cfg.model) \in Entries
        /\ Gate!Provider(name, "nvidia", cfg.model) \in Entries
    BY <1>1 DEF Gate!Keys, Gate!Provider, Entries
  <2> QED BY <2>1 DEF Gate!GetProvider
<1>4. <<>> \in Stacks
  BY EmptySeq
<1>5. \A p \in Entries : <<p>> \in Stacks /\ <<p>> # <<>>
  OBVIOUS
<1>6. Gate!First(cfg) \in Stacks
  <2>1. Gate!Provider("zai", "zai", "glm") \in Entries
    BY DEF Gate!Keys, Gate!Provider, Entries
  <2>2. Gate!GetProvider(cfg, "zai") \in Entries
    BY <1>3
  <2> QED BY <1>4, <1>5, <2>1, <2>2 DEF Gate!First
<1>8. Gate!Several(cfg) \in Stacks
  <2> DEFINE one == Gate!First(cfg)
             w2 == (cfg.nvidiaKey /\ cfg.fallback \notin Gate!Models(one))
             two == Gate!With(one, w2, Gate!Provider("nvidia", "nvidia", cfg.fallback))
             w3 == (cfg.nvidiaKey /\ cfg.second \notin Gate!Models(two) \cup {""})
             three == Gate!With(two, w3, Gate!Provider("nvidia_secondary", "nvidia", cfg.second))
  <2>1. /\ Gate!Provider("nvidia", "nvidia", cfg.fallback) \in Entries
        /\ Gate!Provider("nvidia_secondary", "nvidia", cfg.second) \in Entries
        /\ Gate!Provider("openrouter", "openrouter", "deepseek") \in Entries
    BY <1>1 DEF Gate!Keys, Gate!Provider, Entries
  <2>2. \A s \in Stacks, p \in Entries : \A w : Gate!With(s, w, p) \in Stacks
    BY AppendProperties DEF Gate!With
  <2>3. two \in Stacks
    BY <1>6, <2>1, <2>2
  <2>4. three \in Stacks
    <3> HIDE DEF two
    <3> QED BY <2>1, <2>2, <2>3
  <2>5. Gate!Several(cfg) = Gate!With(three, cfg.openrouterKey, Gate!Provider("openrouter", "openrouter", "deepseek"))
    BY DEF Gate!Several
  <2> HIDE DEF three
  <2> QED BY <2>1, <2>2, <2>4, <2>5
<1>9. <<Gate!Provider("nvidia", "nvidia", cfg.model)>> \in Stacks
  BY <1>1, <1>5 DEF Gate!Keys, Gate!Provider, Entries
<1>10. Gate!Primary(cfg) \in Stacks /\ Gate!Primary(cfg) # <<>>
  BY <1>3, <1>5 DEF Gate!Primary
<1> DEFINE chosen == CASE cfg.single = "nvidia" -> IF cfg.nvidiaKey THEN <<Gate!Provider("nvidia", "nvidia", cfg.model)>> ELSE <<>>
                       [] cfg.single = "zai"    -> Gate!First(cfg)
                       [] OTHER                 -> Gate!Several(cfg)
<1>11. chosen \in Stacks
  <2> HIDE DEF Stacks
  <2> QED BY <1>4, <1>6, <1>8, <1>9
<1>12. Gate!BuildLiveStack(cfg) = Gate!OrPrimary(cfg, chosen)
  BY DEF Gate!BuildLiveStack
<1> HIDE DEF chosen
<1> QED BY <1>10, <1>11, <1>12 DEF Gate!OrPrimary

LEMMA GateInit == Gate!Init => GateInv
<1> SUFFICES ASSUME Gate!Init PROVE GateInv
  OBVIOUS
<1>1. models \in Seq(Entries) /\ models # <<>>
  BY StackFacts DEF Gate!Init
<1>2. /\ park = [k \in Gate!Keys |-> 0] /\ rest = 0 /\ held = 0 /\ job = [c \in Threads |-> Gate!Idle]
      /\ wake = [c \in Threads |-> 0] /\ stale = {}
  BY DEF Gate!Init
<1>3. Gate!Idle \in GateJob /\ Apt(Gate!Idle) /\ Gate!Idle.at = "idle" /\ Gate!Idle.kind = "none"
  <2>1. <<>> \in Seq(Entries)
    BY EmptySeq
  <2> QED BY <2>1 DEF Gate!Idle, GateJob, Gate!Kinds, Gate!Places, Gate!Errors, Gate!Answers, Apt
<1>4. GateTypes
  BY <1>1, <1>2, <1>3 DEF GateTypes
<1>5. SlotsCounted
  <2>1. Holders = {}
    BY <1>2, <1>3 DEF Holders, InSlot
  <2>2. IsFiniteSet(Holders) /\ Cardinality(Holders) = 0
    BY <2>1, FS_EmptySet
  <2> QED BY <1>2, <2>2, GateNumbers DEF SlotsCounted
<1>6. RestKept /\ AllApt /\ AllLooked
  BY <1>2, <1>3 DEF RestKept, AllApt, AllLooked, Looked
<1> QED BY <1>4, <1>5, <1>6 DEF GateInv

LEMMA TickKeeps == ASSUME GateInv, Gate!Tick PROVE GateInv'
<1>1. GateTypes /\ SlotsCounted /\ RestKept /\ AllApt /\ AllLooked
  BY DEF GateInv
<1>2. /\ park' = [k \in Gate!Keys |-> Gate!Less(park[k])] /\ rest' = Gate!Less(rest)
      /\ wake' = [c \in Threads |-> Gate!Less(wake[c])] /\ UNCHANGED <<models, held, job, stale>>
  BY DEF Gate!Tick
<1>3. \A n \in Nat : Gate!Less(n) \in Nat /\ (n = 0 => Gate!Less(n) = 0)
  BY DEF Gate!Less
<1>4. \A m, n \in Nat : m <= n => Gate!Less(m) <= Gate!Less(n)
  BY DEF Gate!Less
<1>5. GateTypes'
  BY <1>1, <1>2, <1>3 DEF GateTypes
<1>6. SlotsCounted' /\ AllApt'
  BY <1>1, <1>2 DEF SlotsCounted, Holders, AllApt
<1>7. RestKept'
  BY <1>1, <1>2, <1>4 DEF RestKept, GateTypes
<1>8. AllLooked'
  <2>1. \A k \in Gate!Keys : park[k] = 0 => park'[k] = 0
    BY <1>1, <1>2, <1>3 DEF GateTypes
  <2> SUFFICES ASSUME NEW c \in Threads PROVE Looked(c)'
    BY DEF AllLooked
  <2>2. Looked(c) /\ job[c] \in GateJob /\ Apt(job[c])
    BY <1>1 DEF AllLooked, AllApt, GateTypes
  <2>3. \A p \in Entries : p.key \in Gate!Keys
    BY DEF Entries
  <2>4. job[c].plan \in Seq(Entries)
    BY <2>2 DEF GateJob
  <2>5. \A i \in DOMAIN job[c].plan : job[c].plan[i].key \in Gate!Keys
    BY <2>3, <2>4, ElementOfSeq, LenProperties
  <2>6. job[c].kind = "probe" => Gate!Turn(c) \in Gate!Keys
    <3>1. job[c].kind = "probe" => job[c].plan # <<>>
      BY <2>2 DEF Apt, Gate!Idle
    <3> QED BY <2>4, <2>5, <3>1 DEF Gate!Turn
  <2> QED BY <1>2, <2>1, <2>2, <2>5, <2>6 DEF Looked, LeftAlone, Gate!Turn
<1> QED BY <1>5, <1>6, <1>7, <1>8 DEF GateInv

\* A request begins: nobody of a route's plan is parked.
LEMMA BeginKeeps ==
  ASSUME GateInv, NEW c \in Threads, NEW kind \in {"route", "ask", "probe"},
         NEW at \in {"wait", "enter", "look"}, at = "look" <=> kind = "probe",
         NEW plan \in Seq(Entries), NEW all \in BOOLEAN,
         kind = "route" => \A i \in DOMAIN plan : park[plan[i].key] = 0,
         Gate!Begin(c, kind, at, plan, all)
  PROVE  GateInv'
<1> DEFINE more == (all /\ Len(plan) > 1)
           j == [kind |-> kind, at |-> at, plan |-> plan, all |-> more, err |-> "ok", retry |-> FALSE]
           n == IF plan = <<>> THEN Gate!Idle ELSE j
<1>1. GateTypes /\ SlotsCounted /\ RestKept /\ AllApt /\ AllLooked
  BY DEF GateInv
<1>2. /\ job[c] = Gate!Idle /\ stale' = stale \ ({c} \X Gate!Keys) /\ job' = [job EXCEPT ![c] = n]
      /\ UNCHANGED <<models, park, rest, held, wake>>
  BY DEF Gate!Begin, Gate!gate
<1>3. Gate!Idle \in GateJob /\ Apt(Gate!Idle) /\ Gate!Idle.at = "idle" /\ Gate!Idle.kind = "none"
  <2>1. <<>> \in Seq(Entries)
    BY EmptySeq
  <2> QED BY <2>1 DEF Gate!Idle, GateJob, Gate!Kinds, Gate!Places, Gate!Errors, Gate!Answers, Apt
<1>4. more \in BOOLEAN
  BY Zenon
<1> HIDE DEF more
<1>5. j \in GateJob /\ (plan # <<>> => Apt(j)) /\ j.at = at /\ j.kind = kind /\ j.plan = plan
  BY <1>4 DEF GateJob, Gate!Kinds, Gate!Places, Gate!Errors, Gate!Answers, Apt
<1> HIDE DEF j
<1>6. n \in GateJob /\ Apt(n) /\ ~InSlot(n.at) /\ n.at # "call"
  BY <1>3, <1>5 DEF InSlot
<1>7. SlotMoves(c, n.at) /\ RestMoves(c, n.at)
  BY <1>2, <1>3, <1>6 DEF SlotMoves, RestMoves, InSlot
<1>8. OthersLeftAlone(c)
  BY <1>2 DEF OthersLeftAlone, LeftAlone
<1>9. Looked(c)'
  <2>1. job'[c] = n
    BY <1>1, <1>2 DEF GateTypes
  <2>2. CASE plan = <<>>
    BY <1>3, <2>1, <2>2 DEF Looked
  <2>3. CASE plan # <<>>
    BY <1>2, <1>5, <2>1, <2>3 DEF Looked, LeftAlone
  <2> QED BY <2>2, <2>3
<1> HIDE DEF n
<1> QED BY <1>1, <1>2, <1>6, <1>7, <1>8, <1>9, JobStep DEF GateTypes

\* The facts of a thread that is at a place.
LEMMA JobFacts ==
  ASSUME GateInv, NEW c \in Threads, job[c].at # "idle"
  PROVE  /\ job \in [Threads -> GateJob] /\ job[c] \in GateJob /\ Apt(job[c]) /\ job[c] # Gate!Idle
         /\ job[c].plan # <<>> /\ job[c].plan \in Seq(Entries)
         /\ \A i \in DOMAIN job[c].plan : job[c].plan[i].key \in Gate!Keys
         /\ Gate!Turn(c) \in Gate!Keys /\ Looked(c)
         /\ park \in [Gate!Keys -> Nat] /\ rest \in Nat /\ wake \in [Threads -> Nat]
<1>1. /\ job \in [Threads -> GateJob] /\ job[c] \in GateJob /\ Apt(job[c]) /\ Looked(c)
      /\ park \in [Gate!Keys -> Nat] /\ rest \in Nat /\ wake \in [Threads -> Nat]
  BY DEF GateInv, GateTypes, AllApt, AllLooked
<1>2. job[c].plan # <<>> /\ job[c].plan \in Seq(Entries) /\ job[c] # Gate!Idle
  BY <1>1 DEF Apt, GateJob, Gate!Idle
<1>3. \A p \in Entries : p.key \in Gate!Keys
  BY DEF Entries
<1>4. \A i \in DOMAIN job[c].plan : job[c].plan[i].key \in Gate!Keys
  BY <1>2, <1>3, ElementOfSeq, LenProperties
<1>5. Gate!Turn(c) \in Gate!Keys
  BY <1>2, <1>4 DEF Gate!Turn
<1> QED BY <1>1, <1>2, <1>4, <1>5

\* A step that only changes where the thread is, and how long it sleeps.
LEMMA MoveKeeps ==
  ASSUME GateInv, NEW c \in Threads, job[c].at # "idle", NEW at \in Gate!Places, at \notin {"idle", "look"},
         at = "note" => job[c].kind # "ask", NEW retry \in BOOLEAN, NEW err \in Gate!Errors,
         job' = [job EXCEPT ![c] = [job[c] EXCEPT !.at = at, !.err = err, !.retry = retry]],
         models' = models, park' \in [Gate!Keys -> Nat], rest' \in Nat, wake' \in [Threads -> Nat],
         \A d \in Threads \ {c} : wake'[d] = wake[d],
         SlotMoves(c, at), RestMoves(c, at), OthersLeftAlone(c),
         job[c].at # "look" => \A k \in Gate!Keys : LeftAlone(c, k) => <<c, k>> \in stale' \/ park'[k] = 0,
         job[c].at = "look" => <<c, Gate!Turn(c)>> \in stale' \/ park'[Gate!Turn(c)] = 0
  PROVE  GateInv'
<1> DEFINE q == job[c]  j == [q EXCEPT !.at = at, !.err = err, !.retry = retry]
<1>1. /\ job \in [Threads -> GateJob] /\ q \in GateJob /\ Apt(q) /\ q # Gate!Idle /\ q.plan # <<>>
      /\ Gate!Turn(c) \in Gate!Keys /\ Looked(c) /\ \A i \in DOMAIN q.plan : q.plan[i].key \in Gate!Keys
  BY JobFacts
<1>2. j \in GateJob /\ j.at = at /\ j.kind = q.kind /\ j.plan = q.plan
  BY <1>1 DEF GateJob
<1> HIDE DEF j
<1>3. Apt(j)
  BY <1>1, <1>2 DEF Apt
<1>4. job' = [job EXCEPT ![c] = j] /\ job'[c] = j
  BY <1>1 DEF j
<1>5. Looked(c)'
  <2>1. CASE job[c].at = "look"
    <3>1. q.kind = "probe"
      BY <1>1, <2>1 DEF Apt
    <3> QED BY <1>2, <1>4, <2>1, <3>1 DEF Looked, LeftAlone, Gate!Turn
  <2>2. CASE job[c].at # "look"
    <3>1. q.kind = "route" => \A i \in DOMAIN q.plan : <<c, q.plan[i].key>> \in stale' \/ park'[q.plan[i].key] = 0
      BY <1>1, <2>2 DEF Looked
    <3>2. q.kind = "probe" => <<c, Gate!Turn(c)>> \in stale' \/ park'[Gate!Turn(c)] = 0
      BY <1>1, <2>2 DEF Looked
    <3> QED BY <1>2, <1>4, <3>1, <3>2 DEF Looked, LeftAlone, Gate!Turn
  <2> QED BY <2>1, <2>2
<1>6. SlotMoves(c, j.at) /\ RestMoves(c, j.at)
  BY <1>2
<1> QED BY <1>2, <1>3, <1>4, <1>5, <1>6, JobStep

\* A step by which the request goes on to its next provider, and leaves the slot if it was in.
LEMMA ProceedKeeps ==
  ASSUME GateInv, NEW c \in Threads, job[c].at # "idle", NEW b \in BOOLEAN, Gate!Proceed(c, b),
         models' = models, park' \in [Gate!Keys -> Nat], wake' = wake,
         InSlot(job[c].at) => rest' = MinInterval /\ held' = held - 1,
         ~InSlot(job[c].at) => rest' = rest /\ held' = held,
         OthersLeftAlone(c),
         job[c].at # "look" => \A k \in Gate!Keys : LeftAlone(c, k) => <<c, k>> \in stale' \/ park'[k] = 0
  PROVE  GateInv'
<1>1. /\ job \in [Threads -> GateJob] /\ job[c] \in GateJob /\ Apt(job[c]) /\ job[c] # Gate!Idle
      /\ job[c].plan # <<>> /\ rest \in Nat /\ wake \in [Threads -> Nat]
  BY JobFacts
<1>2. PICK j \in GateJob : After(c, j)
  BY <1>1, ProceedFacts
<1>3. job' = [job EXCEPT ![c] = j] /\ Apt(j) /\ j.at \in {"idle", "look", "wait"} /\ job'[c] = j
  BY <1>1, <1>2 DEF After, Gate!Idle
<1>4. SlotMoves(c, j.at) /\ RestMoves(c, j.at)
  BY <1>3 DEF SlotMoves, RestMoves, InSlot
<1>5. Looked(c)'
  <2>1. CASE job[c].at # "look"
    BY <1>1, <1>2, <2>1, AfterLooked
  <2>2. CASE job[c].at = "look"
    <3>1. job[c].kind = "probe"
      BY <1>1, <2>2 DEF Apt
    <3>2. j = Gate!Idle \/ (j.kind = "probe" /\ j.at = "look")
      BY <1>2, <3>1 DEF After
    <3> QED BY <1>3, <3>2 DEF Looked, Gate!Idle
  <2> QED BY <2>1, <2>2
<1>6. rest' \in Nat
  BY <1>1, GateNumbers
<1> QED BY <1>1, <1>2, <1>3, <1>4, <1>5, <1>6, JobStep

\* A thread moves to a place and sleeps, takes the slot or keeps it.
LEMMA GoToKeeps ==
  ASSUME GateInv, NEW c \in Threads, job[c].at # "idle", NEW at \in Gate!Places, at \notin {"idle", "look", "note"},
         Gate!GoTo(c, at), UNCHANGED <<models, park>>, rest' \in Nat, wake' \in [Threads -> Nat],
         \A d \in Threads \ {c} : wake'[d] = wake[d], SlotMoves(c, at), RestMoves(c, at),
         \/ stale' = stale /\ job[c].at # "look"
         \/ stale' = stale \ {<<c, Gate!Turn(c)>>} /\ job[c].at = "look" /\ park[Gate!Turn(c)] = 0
  PROVE  GateInv'
<1>1. /\ job \in [Threads -> GateJob] /\ job[c] \in GateJob /\ park \in [Gate!Keys -> Nat]
  BY JobFacts
<1>2. job' = [job EXCEPT ![c] = [job[c] EXCEPT !.at = at, !.err = job[c].err, !.retry = job[c].retry]]
      /\ job[c].retry \in BOOLEAN /\ job[c].err \in Gate!Errors
  <2>1. job' = [job EXCEPT ![c] = [job[c] EXCEPT !.at = at]]
    BY <1>1 DEF Gate!GoTo
  <2>2. [job[c] EXCEPT !.at = at] = [job[c] EXCEPT !.at = at, !.err = job[c].err, !.retry = job[c].retry]
    BY <1>1 DEF GateJob
  <2> QED BY <1>1, <2>1, <2>2 DEF GateJob
<1>3. OthersLeftAlone(c)
  BY DEF OthersLeftAlone, LeftAlone
<1>4. job[c].at # "look" => \A k \in Gate!Keys : LeftAlone(c, k) => <<c, k>> \in stale' \/ park'[k] = 0
  BY DEF LeftAlone
<1>5. job[c].at = "look" => <<c, Gate!Turn(c)>> \in stale' \/ park'[Gate!Turn(c)] = 0
  OBVIOUS
<1>6. park' \in [Gate!Keys -> Nat]
  BY <1>1
<1> QED BY <1>1, <1>2, <1>3, <1>4, <1>5, <1>6, MoveKeeps

LEMMA WaitKeeps ==
  ASSUME GateInv, NEW c \in Threads, Gate!Look(c) \/ Gate!Wait(c) \/ Gate!Enter(c) \/ Gate!Acquire(c) \/ Gate!Call(c)
  PROVE  GateInv'
<1>0. job[c].at \in {"look", "wait", "enter", "acquire", "call"} /\ wake[c] = 0
  BY DEF Gate!Look, Gate!Wait, Gate!Enter, Gate!Acquire, Gate!Call, Gate!At
<1>1. /\ job \in [Threads -> GateJob] /\ job[c] \in GateJob /\ park \in [Gate!Keys -> Nat] /\ rest \in Nat
      /\ wake \in [Threads -> Nat] /\ Gate!Turn(c) \in Gate!Keys /\ job[c].plan # <<>>
  BY <1>0, JobFacts
<1>2. Gate!Places = {"idle", "look", "wait", "enter", "acquire", "call", "out", "again", "note"}
  BY DEF Gate!Places
<1>3. Gate!Backoff(Gate!Turn(c)) \in Nat
  BY <1>1, GateNumbers DEF Gate!Backoff
<1>4. CASE Gate!Look(c)
  <2>1. job[c].at = "look" /\ UNCHANGED <<models, park, rest, held, wake>> /\ stale' = stale \ {<<c, Gate!Turn(c)>>}
    BY <1>4 DEF Gate!Look, Gate!At, Gate!gate
  <2>2. CASE Gate!Proceed(c, FALSE)
    <3>1. OthersLeftAlone(c)
      BY <2>1 DEF OthersLeftAlone, LeftAlone
    <3>2. ~InSlot(job[c].at)
      BY <2>1 DEF InSlot
    <3>3. FALSE \in BOOLEAN
      OBVIOUS
    <3> QED BY <1>1, <2>1, <2>2, <3>1, <3>2, <3>3, ProceedKeeps
  <2>3. CASE ~Gate!Blocked(Head(job[c].plan)) /\ Gate!GoTo(c, "wait")
    <3>1. park[Gate!Turn(c)] = 0
      BY <1>1, <2>3 DEF Gate!Blocked, Gate!Turn
    <3>2. SlotMoves(c, "wait") /\ RestMoves(c, "wait")
      BY <2>1 DEF SlotMoves, RestMoves, InSlot
    <3> QED BY <1>1, <1>2, <2>1, <2>3, <3>1, <3>2, GoToKeeps
  <2> QED BY <1>4, <2>2, <2>3 DEF Gate!Look
<1>5. CASE Gate!Wait(c)
  <2>1. /\ job[c].at = "wait" /\ UNCHANGED <<models, park, rest, held, stale>> /\ Gate!GoTo(c, "enter")
        /\ wake' = [wake EXCEPT ![c] = Gate!Backoff(Gate!Turn(c))]
    BY <1>5 DEF Gate!Wait, Gate!At, Gate!gate, Gate!Sleep
  <2>2. SlotMoves(c, "enter") /\ RestMoves(c, "enter")
    BY <2>1 DEF SlotMoves, RestMoves, InSlot
  <2>3. wake' \in [Threads -> Nat] /\ \A d \in Threads \ {c} : wake'[d] = wake[d]
    BY <1>1, <1>3, <2>1
  <2> QED BY <1>1, <1>2, <2>1, <2>2, <2>3, GoToKeeps
<1>6. CASE Gate!Enter(c)
  <2>1. /\ job[c].at = "enter" /\ UNCHANGED <<models, park, rest, held, stale>> /\ Gate!GoTo(c, "acquire")
        /\ wake' = [wake EXCEPT ![c] = Gate!Backoff(Gate!Turn(c))]
    BY <1>6 DEF Gate!Enter, Gate!At, Gate!gate, Gate!Sleep
  <2>2. SlotMoves(c, "acquire") /\ RestMoves(c, "acquire")
    BY <2>1 DEF SlotMoves, RestMoves, InSlot
  <2>3. wake' \in [Threads -> Nat] /\ \A d \in Threads \ {c} : wake'[d] = wake[d]
    BY <1>1, <1>3, <2>1
  <2> QED BY <1>1, <1>2, <2>1, <2>2, <2>3, GoToKeeps
<1>7. CASE Gate!Acquire(c)
  <2>1. /\ job[c].at = "acquire" /\ UNCHANGED <<models, park, rest, stale>> /\ Gate!GoTo(c, "call")
        /\ wake' = [wake EXCEPT ![c] = rest] /\ held < MaxConcurrent /\ held' = held + 1
    BY <1>7 DEF Gate!Acquire, Gate!At, Gate!Sleep, Gate!Gap
  <2>2. wake' \in [Threads -> Nat] /\ wake'[c] = rest /\ \A d \in Threads \ {c} : wake'[d] = wake[d]
    BY <1>1, <2>1
  <2>3. SlotMoves(c, "call") /\ RestMoves(c, "call")
    BY <1>1, <2>1, <2>2 DEF SlotMoves, RestMoves, InSlot
  <2> QED BY <1>1, <1>2, <2>1, <2>2, <2>3, GoToKeeps
<1>8. CASE Gate!Call(c)
  <2>1. job[c].at = "call" /\ UNCHANGED <<models, park, rest, held, wake, stale>> /\ Gate!GoTo(c, "out")
    BY <1>8 DEF Gate!Call, Gate!At, Gate!gate
  <2>2. SlotMoves(c, "out") /\ RestMoves(c, "out")
    BY <2>1 DEF SlotMoves, RestMoves, InSlot
  <2> QED BY <1>1, <1>2, <2>1, <2>2, GoToKeeps
<1> QED BY <1>4, <1>5, <1>6, <1>7, <1>8

LEMMA LeaveKeeps ==
  ASSUME GateInv, NEW c \in Threads, NEW err \in Gate!Errors,
         Gate!Answer(c, err) \/ Gate!Fail(c, err) \/ Gate!GiveUp(c, err)
  PROVE  GateInv'
<1>0. job[c].at = "out" /\ UNCHANGED <<models, wake>> /\ rest' = MinInterval /\ held' = held - 1 /\ InSlot(job[c].at)
  BY DEF Gate!Answer, Gate!Fail, Gate!GiveUp, Gate!At, Gate!LeaveSlot, Gate!Released, InSlot
<1>1. /\ job \in [Threads -> GateJob] /\ job[c] \in GateJob /\ park \in [Gate!Keys -> Nat] /\ rest \in Nat
      /\ wake \in [Threads -> Nat] /\ Gate!Turn(c) \in Gate!Keys /\ job[c].plan # <<>> /\ job[c] # Gate!Idle
  BY <1>0, JobFacts
<1>2. CASE Gate!Answer(c, err)
  <2>1. UNCHANGED <<park, stale>> /\ Gate!Proceed(c, err = "ok")
    BY <1>2 DEF Gate!Answer
  <2>2. OthersLeftAlone(c) /\ (err = "ok") \in BOOLEAN
    BY <2>1, Zenon DEF OthersLeftAlone, LeftAlone
  <2>3. \A k \in Gate!Keys : LeftAlone(c, k) => <<c, k>> \in stale' \/ park'[k] = 0
    BY <2>1 DEF LeftAlone
  <2> QED BY <1>0, <1>1, <2>1, <2>2, <2>3, ProceedKeeps
<1>3. CASE Gate!Fail(c, err)
  <2>1. /\ job' = [job EXCEPT ![c].at = "note", ![c].err = err] /\ UNCHANGED <<park, stale>>
        /\ job[c].kind # "ask"
    BY <1>3 DEF Gate!Fail
  <2>2. "note" \in Gate!Places
    BY DEF Gate!Places
  <2>3. job' = [job EXCEPT ![c] = [job[c] EXCEPT !.at = "note", !.err = err, !.retry = job[c].retry]]
        /\ job[c].retry \in BOOLEAN
    <3>1. job' = [job EXCEPT ![c] = [job[c] EXCEPT !.at = "note", !.err = err]]
      BY <1>1, <2>1
    <3>2. [job[c] EXCEPT !.at = "note", !.err = err] = [job[c] EXCEPT !.at = "note", !.err = err, !.retry = job[c].retry]
      BY <1>1 DEF GateJob
    <3> QED BY <1>1, <3>1, <3>2 DEF GateJob
  <2>4. SlotMoves(c, "note") /\ RestMoves(c, "note") /\ rest' \in Nat
    BY <1>0, GateNumbers DEF SlotMoves, RestMoves, InSlot
  <2>5. OthersLeftAlone(c) /\ \A k \in Gate!Keys : LeftAlone(c, k) => <<c, k>> \in stale' \/ park'[k] = 0
    BY <2>1 DEF OthersLeftAlone, LeftAlone
  <2> QED BY <1>0, <1>1, <2>1, <2>2, <2>3, <2>4, <2>5, MoveKeeps
<1>4. CASE Gate!GiveUp(c, err)
  <2>1. Gate!NoteFailure(c, err) /\ Gate!Proceed(c, FALSE) /\ FALSE \in BOOLEAN
    BY <1>4 DEF Gate!GiveUp
  <2>2. /\ park' \in [Gate!Keys -> Nat] /\ OthersLeftAlone(c)
        /\ \A k \in Gate!Keys : LeftAlone(c, k) => <<c, k>> \in stale' \/ park'[k] = 0
    BY <1>1, <2>1, NoteFacts DEF OthersLeftAlone
  <2> QED BY <1>0, <1>1, <2>1, <2>2, ProceedKeeps
<1> QED BY <1>2, <1>3, <1>4

LEMMA NoteKeeps ==
  ASSUME GateInv, NEW c \in Threads, Gate!Note(c) \/ Gate!Lower(c) \/ Gate!Retry(c)
  PROVE  GateInv'
<1>0. job[c].at \in {"note", "out", "again"} /\ models' = models
  BY DEF Gate!Note, Gate!Lower, Gate!Retry, Gate!At
<1>1. /\ job \in [Threads -> GateJob] /\ job[c] \in GateJob /\ park \in [Gate!Keys -> Nat] /\ rest \in Nat
      /\ wake \in [Threads -> Nat] /\ Gate!Turn(c) \in Gate!Keys /\ job[c].plan # <<>> /\ job[c] # Gate!Idle
      /\ job[c].err \in Gate!Errors
  BY <1>0, JobFacts DEF GateJob
<1>2. CASE Gate!Note(c)
  <2>1. /\ job[c].at = "note" /\ UNCHANGED <<rest, held, wake>> /\ Gate!NoteFailure(c, job[c].err)
        /\ Gate!Proceed(c, FALSE) /\ FALSE \in BOOLEAN /\ ~InSlot(job[c].at)
    BY <1>2 DEF Gate!Note, Gate!At, InSlot
  <2>2. /\ park' \in [Gate!Keys -> Nat] /\ OthersLeftAlone(c)
        /\ \A k \in Gate!Keys : LeftAlone(c, k) => <<c, k>> \in stale' \/ park'[k] = 0
    BY <1>1, <2>1, NoteFacts DEF OthersLeftAlone
  <2> QED BY <1>0, <1>1, <2>1, <2>2, ProceedKeeps
<1>3. CASE Gate!Lower(c)
  <2>1. /\ job[c].at = "out" /\ UNCHANGED <<rest, held>> /\ Gate!NoteFailure(c, "afford")
        /\ job' = [job EXCEPT ![c].at = "again", ![c].retry = TRUE] /\ wake' = [wake EXCEPT ![c] = Pause]
    BY <1>3 DEF Gate!Lower, Gate!At, Gate!Sleep
  <2>2. "again" \in Gate!Places /\ "afford" \in Gate!Errors /\ TRUE \in BOOLEAN
    BY DEF Gate!Places, Gate!Errors, Gate!Failures
  <2>3. job' = [job EXCEPT ![c] = [job[c] EXCEPT !.at = "again", !.err = job[c].err, !.retry = TRUE]]
    <3>1. job' = [job EXCEPT ![c] = [job[c] EXCEPT !.at = "again", !.retry = TRUE]]
      BY <1>1, <2>1
    <3>2. [job[c] EXCEPT !.at = "again", !.retry = TRUE] = [job[c] EXCEPT !.at = "again", !.err = job[c].err, !.retry = TRUE]
      BY <1>1 DEF GateJob
    <3> QED BY <3>1, <3>2
  <2>4. /\ park' \in [Gate!Keys -> Nat] /\ OthersLeftAlone(c)
        /\ \A k \in Gate!Keys : LeftAlone(c, k) => <<c, k>> \in stale' \/ park'[k] = 0
    BY <1>1, <2>1, <2>2, NoteFacts DEF OthersLeftAlone
  <2>5. wake' \in [Threads -> Nat] /\ \A d \in Threads \ {c} : wake'[d] = wake[d]
    BY <1>1, <2>1, GateNumbers
  <2>6. SlotMoves(c, "again") /\ RestMoves(c, "again") /\ rest' \in Nat
    BY <1>1, <2>1 DEF SlotMoves, RestMoves, InSlot
  <2> QED BY <1>0, <1>1, <2>1, <2>2, <2>3, <2>4, <2>5, <2>6, MoveKeeps
<1>4. CASE Gate!Retry(c)
  <2>1. /\ job[c].at = "again" /\ UNCHANGED <<park, wake, stale>> /\ Gate!GoTo(c, "enter")
        /\ rest' = MinInterval /\ held' = held - 1
    BY <1>4 DEF Gate!Retry, Gate!At, Gate!LeaveSlot, Gate!Released
  <2>2. SlotMoves(c, "enter") /\ RestMoves(c, "enter") /\ rest' \in Nat /\ "enter" \in Gate!Places
    BY <2>1, GateNumbers DEF SlotMoves, RestMoves, InSlot, Gate!Places
  <2> QED BY <1>0, <1>1, <2>1, <2>2, GoToKeeps
<1> QED BY <1>2, <1>3, <1>4

\* Requests begin.
LEMMA BeginsKeep ==
  ASSUME GateInv, NEW c \in Threads, Gate!Route(c) \/ Gate!Ask(c) \/ Gate!Probe(c)
  PROVE  GateInv'
<1>1. models \in Seq(Entries) /\ models # <<>> /\ park \in [Gate!Keys -> Nat]
  BY DEF GateInv, GateTypes
<1>2. Gate!Range(models) \subseteq Entries
  BY <1>1, ElementOfSeq, LenProperties DEF Gate!Range
<1>3. CASE Gate!Route(c)
  <2>1. PICK names \in Gate!Preferences, spare \in SUBSET Gate!Range(models), all \in BOOLEAN :
          \E plan \in Gate!Ordered(names, Gate!Available(spare)) : Gate!Begin(c, "route", "wait", plan, all)
    BY <1>3 DEF Gate!Route
  <2>2. PICK plan \in Gate!Ordered(names, Gate!Available(spare)) : Gate!Begin(c, "route", "wait", plan, all)
    BY <2>1
  <2> DEFINE S == Gate!Available(spare)
  <2>3. S \subseteq Entries /\ \A p \in S : park[p.key] = 0
    <3>1. S \subseteq Entries /\ \A p \in S : ~(park[p.key] > 0)
      BY <1>2 DEF Gate!Available, Gate!Blocked
    <3>2. \A p \in Entries : p.key \in Gate!Keys
      BY DEF Entries
    <3> QED BY <1>1, <3>1, <3>2
  <2>4. IsFiniteSet(S) /\ Cardinality(S) \in Nat
    <3>1. IsFiniteSet(Gate!Range(models))
      <4>1. Gate!Range(models) = Range(models) /\ DOMAIN models = 1 .. Len(models) /\ Len(models) \in Nat
        BY <1>1, LenProperties DEF Gate!Range, Range
      <4>2. models \in Surjection(DOMAIN models, Range(models))
        BY <1>1 DEF Surjection, Range
      <4>3. IsFiniteSet(DOMAIN models)
        BY <4>1, FS_Interval
      <4> QED BY <4>1, <4>2, <4>3, FS_Surjection
    <3>2. S \in SUBSET Gate!Range(models)
      BY DEF Gate!Available
    <3> QED BY <3>1, <3>2, FS_Subset, FS_CardinalityType
  <2>5. plan \in [1 .. Cardinality(S) -> S]
    <3>1. Gate!Cardinality(S) = Cardinality(S)
      BY DEF Gate!Cardinality, Cardinality
    <3> QED BY <2>2, <3>1 DEF Gate!Ordered
  <2> HIDE DEF S
  <2>6. plan \in Seq(Entries) /\ DOMAIN plan = 1 .. Cardinality(S) /\ \A i \in DOMAIN plan : plan[i] \in S
    BY <2>3, <2>4, <2>5
  <2>7. \A i \in DOMAIN plan : park[plan[i].key] = 0
    BY <2>3, <2>6
  <2> QED BY <2>2, <2>6, <2>7, BeginKeeps
<1>4. CASE Gate!Ask(c)
  <2>1. PICK p \in Gate!Range(models) : Gate!Begin(c, "ask", "enter", <<p>>, FALSE)
    BY <1>4 DEF Gate!Ask
  <2>2. <<p>> \in Seq(Entries) /\ FALSE \in BOOLEAN
    BY <1>2
  <2> QED BY <2>1, <2>2, BeginKeeps
<1>5. CASE Gate!Probe(c)
  <2>1. Gate!Begin(c, "probe", "look", models, TRUE) /\ TRUE \in BOOLEAN
    BY <1>5 DEF Gate!Probe
  <2> QED BY <1>1, <2>1, BeginKeeps
<1> QED BY <1>3, <1>4, <1>5

LEMMA GateStep == GateInv /\ [Gate!Next]_(Gate!vars) => GateInv'
<1> SUFFICES ASSUME GateInv, [Gate!Next]_(Gate!vars) PROVE GateInv'
  OBVIOUS
<1>1. CASE Gate!Tick
  BY <1>1, TickKeeps
<1>2. ASSUME NEW c \in Threads, Gate!Route(c) \/ Gate!Ask(c) \/ Gate!Probe(c) PROVE GateInv'
  BY <1>2, BeginsKeep
<1>3. ASSUME NEW c \in Threads, Gate!Step(c) PROVE GateInv'
  <2>1. ASSUME NEW err \in Gate!Errors, Gate!Answer(c, err) \/ Gate!Fail(c, err) \/ Gate!GiveUp(c, err) PROVE GateInv'
    BY <2>1, LeaveKeeps
  <2> QED BY <1>3, <2>1, WaitKeeps, NoteKeeps DEF Gate!Step
<1>4. CASE UNCHANGED Gate!vars
  <2>1. UNCHANGED <<models, park, rest, held, job, wake, stale>>
    BY <1>4 DEF Gate!vars, Gate!gate
  <2> QED BY <2>1 DEF GateInv, GateTypes, SlotsCounted, Holders, RestKept, AllApt, AllLooked, Looked, LeftAlone, Gate!Turn
<1> QED BY <1>1, <1>2, <1>3, <1>4 DEF Gate!Next

\* With one slot, a call begins when the interval since the last is over.
LEMMA CallsAreSpaced ==
  ASSUME GateInv, Gate!Next, NEW c \in Threads, job[c].at = "call", job'[c].at = "out", MaxConcurrent = 1
  PROVE  rest = 0
<1>1. job \in [Threads -> GateJob] /\ rest \in Nat /\ wake \in [Threads -> Nat] /\ rest <= wake[c]
  BY DEF GateInv, GateTypes, RestKept
<1>2. \A d \in Threads : Gate!Step(d) \/ Gate!Route(d) \/ Gate!Ask(d) \/ Gate!Probe(d) => \E j : job' = [job EXCEPT ![d] = j]
  <2> TAKE d \in Threads
  <2>1. job[d] \in GateJob
    BY <1>1
  <2>2. Gate!Route(d) \/ Gate!Ask(d) \/ Gate!Probe(d) => \E j : job' = [job EXCEPT ![d] = j]
    BY DEF Gate!Route, Gate!Ask, Gate!Probe, Gate!Begin
  <2>3. \A at : Gate!GoTo(d, at) => \E j : job' = [job EXCEPT ![d] = j]
    BY <1>1 DEF Gate!GoTo
  <2>4. \A b : Gate!Proceed(d, b) => \E j : job' = [job EXCEPT ![d] = j]
    BY DEF Gate!Proceed
  <2>5. Gate!Look(d) \/ Gate!Wait(d) \/ Gate!Enter(d) \/ Gate!Acquire(d) \/ Gate!Call(d) \/ Gate!Note(d) \/ Gate!Retry(d)
          => \E j : job' = [job EXCEPT ![d] = j]
    BY <2>3, <2>4 DEF Gate!Look, Gate!Wait, Gate!Enter, Gate!Acquire, Gate!Call, Gate!Note, Gate!Retry
  <2>6. \A err \in Gate!Errors : Gate!Answer(d, err) \/ Gate!GiveUp(d, err) => \E j : job' = [job EXCEPT ![d] = j]
    BY <2>4 DEF Gate!Answer, Gate!GiveUp
  <2>7. \A err \in Gate!Errors : Gate!Fail(d, err) => \E j : job' = [job EXCEPT ![d] = j]
    BY <1>1 DEF Gate!Fail
  <2>8. Gate!Lower(d) => \E j : job' = [job EXCEPT ![d] = j]
    BY <1>1 DEF Gate!Lower
  <2> QED BY <2>2, <2>5, <2>6, <2>7, <2>8 DEF Gate!Step
<1>3. ~Gate!Tick
  BY DEF Gate!Tick
<1>4. PICK d \in Threads : Gate!Step(d) \/ Gate!Route(d) \/ Gate!Ask(d) \/ Gate!Probe(d)
  BY <1>3 DEF Gate!Next
<1>5. d = c
  <2>1. PICK j : job' = [job EXCEPT ![d] = j]
    BY <1>2, <1>4
  <2> QED BY <1>1, <2>1
<1>6. Gate!Call(c)
  <2>1. ~Gate!Route(c) /\ ~Gate!Ask(c) /\ ~Gate!Probe(c)
    BY DEF Gate!Route, Gate!Ask, Gate!Probe, Gate!Begin, Gate!Idle
  <2> QED BY <1>4, <1>5, <2>1 DEF Gate!Step, Gate!Look, Gate!Wait, Gate!Enter, Gate!Acquire, Gate!Answer, Gate!Fail,
             Gate!GiveUp, Gate!Note, Gate!Lower, Gate!Retry, Gate!At
<1>7. wake[c] = 0
  BY <1>6 DEF Gate!Call, Gate!At
<1> QED BY <1>1, <1>7

\* A window is only cut short by a request that did not know of it.
LEMMA WindowsStand ==
  ASSUME GateInv, Gate!Next, NEW k \in Gate!Keys, park'[k] < Gate!Less(park[k])
  PROVE  \E c \in Threads : job'[c] # job[c] /\ Gate!Turn(c) = k /\ (<<c, k>> \in stale \/ job[c].kind = "ask")
<1>1. park \in [Gate!Keys -> Nat] /\ park[k] \in Nat
  BY DEF GateInv, GateTypes
<1>2. park' # park
  BY <1>1 DEF Gate!Less
<1>3. ~Gate!Tick
  <2>1. Gate!Tick => park'[k] = Gate!Less(park[k])
    BY DEF Gate!Tick
  <2>2. Gate!Less(park[k]) \in Int
    BY <1>1 DEF Gate!Less
  <2> QED BY <2>1, <2>2
<1>4. PICK c \in Threads : Gate!Step(c) \/ Gate!Route(c) \/ Gate!Ask(c) \/ Gate!Probe(c)
  BY <1>3 DEF Gate!Next
<1>5. ~Gate!Route(c) /\ ~Gate!Ask(c) /\ ~Gate!Probe(c)
  BY <1>2 DEF Gate!Route, Gate!Ask, Gate!Probe, Gate!Begin, Gate!gate
<1>6. \/ Gate!Note(c) \/ Gate!Lower(c)
      \/ \E err \in Gate!Errors : Gate!GiveUp(c, err)
  BY <1>2, <1>4, <1>5 DEF Gate!Step, Gate!Look, Gate!Wait, Gate!Enter, Gate!Acquire, Gate!Call, Gate!Answer, Gate!Fail,
     Gate!Retry, Gate!gate
<1>7. job[c].at \in {"note", "out"}
  BY <1>6 DEF Gate!Note, Gate!Lower, Gate!GiveUp, Gate!At
<1>8. /\ job \in [Threads -> GateJob] /\ job[c] \in GateJob /\ Apt(job[c]) /\ job[c].plan # <<>>
      /\ Gate!Turn(c) \in Gate!Keys /\ Looked(c) /\ job[c].err \in Gate!Errors
  BY <1>7, JobFacts DEF GateJob
<1>9. \A err \in Gate!Errors : Gate!NoteFailure(c, err) => Gate!Turn(c) = k
  <2> TAKE err \in Gate!Errors
  <2> HAVE Gate!NoteFailure(c, err)
  <2>1. park'[k] = park[k] \/ k = Gate!Turn(c)
    BY <1>8, NoteFacts
  <2>2. park'[k] # park[k]
    BY <1>1 DEF Gate!Less
  <2> QED BY <2>1, <2>2
<1>10. \A b \in BOOLEAN : Gate!Proceed(c, b) => job'[c].at \in {"idle", "look", "wait"}
  <2> TAKE b \in BOOLEAN
  <2> HAVE Gate!Proceed(c, b)
  <2>1. PICK j \in GateJob : After(c, j)
    BY <1>7, <1>8, ProceedFacts
  <2> QED BY <1>8, <2>1 DEF After, Gate!Idle
<1>11. CASE Gate!Note(c)
  <2>1. job[c].at = "note" /\ Gate!NoteFailure(c, job[c].err) /\ Gate!Proceed(c, FALSE)
    BY <1>11 DEF Gate!Note, Gate!At
  <2>2. Gate!Turn(c) = k /\ job'[c] # job[c]
    BY <1>8, <1>9, <1>10, <2>1
  <2>3. job[c].kind \in {"route", "probe"}
    BY <1>8, <2>1 DEF Apt, GateJob, Gate!Kinds
  <2>4. LeftAlone(c, k)
    <3>1. CASE job[c].kind = "route"
      <4>1. 1 \in DOMAIN job[c].plan /\ Head(job[c].plan) = job[c].plan[1]
        BY <1>8 DEF GateJob
      <4> QED BY <1>8, <2>2, <3>1, <4>1 DEF Looked, Gate!Turn
    <3>2. CASE job[c].kind = "probe"
      BY <1>8, <2>1, <2>2, <3>2 DEF Looked
    <3> QED BY <2>3, <3>1, <3>2
  <2>5. park[k] # 0
    <3>1. park' \in [Gate!Keys -> Nat]
      BY <1>8, <2>1, NoteFacts
    <3> QED BY <3>1 DEF Gate!Less
  <2> QED BY <2>2, <2>4, <2>5 DEF LeftAlone
<1>12. CASE Gate!Lower(c)
  <2>1. Gate!NoteFailure(c, "afford") /\ job[c].kind = "ask" /\ job[c].at = "out" /\ "afford" \in Gate!Errors
        /\ job' = [job EXCEPT ![c].at = "again", ![c].retry = TRUE]
    BY <1>12 DEF Gate!Lower, Gate!At, Gate!Errors, Gate!Failures
  <2>2. job'[c].at = "again"
    BY <1>8, <2>1 DEF GateJob
  <2> QED BY <1>9, <2>1, <2>2
<1>13. CASE \E err \in Gate!Errors : Gate!GiveUp(c, err)
  <2>1. PICK err \in Gate!Errors : Gate!GiveUp(c, err)
    BY <1>13
  <2>2. Gate!NoteFailure(c, err) /\ job[c].kind = "ask" /\ job[c].at = "out" /\ Gate!Proceed(c, FALSE)
    BY <2>1 DEF Gate!GiveUp, Gate!At
  <2> QED BY <1>9, <1>10, <2>2
<1> QED BY <1>6, <1>11, <1>12, <1>13

\* With one slot, calls are spaced, whoever makes them; and a parked provider is left alone by every route and probe
\* that looks after it was parked, so that nobody cuts its window short who could have known of it.
THEOREM GateIsKept == Gate!Spec => GateHolds
<1> DEFINE Spaced0 == \A c \in Threads : job[c].at = "call" /\ job'[c].at = "out" => rest = 0 \/ MaxConcurrent > 1
           Cut0 == \A k \in Gate!Keys : park'[k] < Gate!Less(park[k]) =>
                     \E c \in Threads : job'[c] # job[c] /\ Gate!Turn(c) = k /\ (<<c, k>> \in stale \/ job[c].kind = "ask")
<1>1. Gate!Spec => []GateInv
  BY GateInit, GateStep, PTL DEF Gate!Spec
<1>2. GateInv /\ [Gate!Next]_(Gate!vars) => [Spaced0]_(Gate!vars)
  <2> SUFFICES ASSUME GateInv, Gate!Next PROVE Spaced0
    OBVIOUS
  <2>1. MaxConcurrent \in Nat \ {0}
    BY GateAssumption, Zenon DEF Gate!Sane
  <2>2. MaxConcurrent = 1 \/ MaxConcurrent > 1
    BY <2>1
  <2> QED BY <2>2, CallsAreSpaced
<1>3. GateInv /\ [Gate!Next]_(Gate!vars) => [Cut0]_(Gate!vars)
  BY WindowsStand
<1>4. Gate!Spec => [][Spaced0]_(Gate!vars) /\ [][Cut0]_(Gate!vars)
  BY <1>1, <1>2, <1>3, PTL DEF Gate!Spec
<1> QED BY <1>4 DEF GateHolds, Gate!Spaced, Gate!CutByTheStale
=============================================================================

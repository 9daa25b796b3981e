------------------------ MODULE InvestigationProofs ------------------------
(***************************************************************************)
(* Proofs about Investigation, for any number of workers, subjects and     *)
(* indicators: an investigation that says "running" is worked at, and a    *)
(* finding that shows something malicious is raised.                       *)
(*                                                                         *)
(* Both need to be known where a worker is: what says "running" is between *)
(* Begin and its last write of the status; what has still to be raised is  *)
(* past it, and holds what it found.  And what does not exist has no       *)
(* status, so that a write that finds its subject gone leaves nothing.     *)
(***************************************************************************)
EXTENDS Investigation, SequenceTheorems, TLAPS

Fields == {"of", "at", "todo", "found", "read"}
Shape ==
  /\ DOMAIN work = Workers  /\ \A t \in Workers : DOMAIN work[t] = Fields
  /\ DOMAIN status = Subjects  /\ DOMAIN shown = Subjects

Looking(s, t) == work[t].of = s /\ work[t].at \in {"lookup", "failed", "answered"}
Raising(f, t) == work[t].of = f /\ work[t].at \in {"sync", "write", "raise"} /\ Accused(t)

Unwritten == \A s \in Subjects : ~Exists(s) => status[s] = "none"
Running   == \A s \in Subjects : status[s] = "running" => s \in cut \/ \E t \in Workers : Looking(s, t)
Raised    == \A f \in Findings : status[f] = "complete" /\ shown[f] =>
               f \in raised \/ f \in cut \/ \E t \in Workers : Raising(f, t)

IInv == Shape /\ Unwritten /\ Running /\ Raised

LEMMA InitInv == ASSUME Init PROVE IInv
<1>1. /\ status = [s \in Subjects |-> "none"] /\ shown = [s \in Subjects |-> FALSE]
      /\ work = [t \in Workers |-> Idle]
  BY DEF Init
<1>2. Shape
  BY <1>1 DEF Shape, Idle, Fields
<1>3. \A s \in Subjects : status[s] = "none"
  BY <1>1
<1> QED BY <1>2, <1>3 DEF IInv, Unwritten, Running, Raised, Subjects

-----------------------------------------------------------------------------
(* A step of a worker that changes no status, takes no looking or raising   *)
(* worker off its place, and keeps what was raised and cut.                 *)
LEMMA Harmless ==
  ASSUME IInv, Shape', UNCHANGED <<status, shown>>,
         raised \subseteq raised', cut \subseteq cut',
         \A s \in Subjects : Exists(s) => Exists(s)',
         \A s \in Subjects, t \in Workers : Looking(s, t) => Looking(s, t)' \/ s \in cut' \/ ~Exists(s),
         \A f \in Findings, t \in Workers :
            Raising(f, t) => Raising(f, t)' \/ f \in raised' \/ f \in cut' \/ ~Exists(f)
  PROVE IInv'
<1>1. Unwritten'
  BY DEF IInv, Unwritten
<1>2. Running'
  BY DEF IInv, Running, Unwritten
<1>3. Raised'
  BY DEF IInv, Raised, Unwritten, Subjects
<1> QED BY <1>1, <1>2, <1>3 DEF IInv

LEMMA MoveTo ==
  ASSUME Shape, NEW t \in Workers, NEW a, work' = [work EXCEPT ![t].at = a], UNCHANGED <<status, shown>>
  PROVE  /\ Shape'
         /\ work'[t].of = work[t].of /\ work'[t].at = a /\ work'[t].found = work[t].found
         /\ \A u \in Workers \ {t} : work'[u] = work[u]
<1>1. work'[t] = [work[t] EXCEPT !.at = a] /\ \A u \in Workers \ {t} : work'[u] = work[u]
  BY DEF Shape
<1>2. DOMAIN work'[t] = Fields /\ DOMAIN work' = Workers
  BY <1>1 DEF Shape
<1> QED BY <1>1, <1>2 DEF Shape, Fields

LEMMA LaunchInv ==
  ASSUME IInv, NEW t \in Workers, NEW w, DOMAIN w = Fields, Launch(t, w),
         UNCHANGED <<status, shown, raised, phase, cut>>
  PROVE IInv'
<1>1. work' = [work EXCEPT ![t] = w] /\ work[t] = Idle
  BY DEF Launch
<1>2. work'[t] = w /\ \A u \in Workers \ {t} : work'[u] = work[u]
  BY <1>1 DEF IInv, Shape
<1>3. Shape'
  BY <1>1, <1>2 DEF IInv, Shape
<1>4. \A s : ~Looking(s, t) /\ ~Raising(s, t)
  BY <1>1 DEF Looking, Raising, Idle
<1> QED BY <1>2, <1>3, <1>4, Harmless DEF Looking, Raising, Accused, Exists

LEMMA BeginInv == ASSUME Sane, IInv, NEW t \in Workers, Begin(t) PROVE IInv'
<1>0. PICK s : s = work[t].of
  OBVIOUS
<1> USE <1>0
<1>1. work[t].at = "begin" /\ UNCHANGED <<raised, phase>>
  BY DEF Begin, At
<1>2. \A x : ~Looking(x, t) /\ ~Raising(x, t)
  BY <1>1 DEF Looking, Raising
<1>3. CASE End(t) /\ UNCHANGED <<status, shown, cut>>
  <2>1. work'[t] = Idle /\ \A u \in Workers \ {t} : work'[u] = work[u]
    BY <1>3 DEF End, IInv, Shape
  <2>2. Shape'
    BY <1>3, <2>1 DEF End, IInv, Shape, Idle, Fields
  <2> QED BY <1>1, <1>2, <1>3, <2>1, <2>2, Harmless DEF Looking, Raising, Accused, Exists
<1>4. CASE /\ Exists(s)
           /\ status' = [status EXCEPT ![s] = IF Targets(s) = {} THEN "complete" ELSE "running"]
           /\ shown' = [shown EXCEPT ![s] = FALSE]
           /\ cut' = cut \ {s}
           /\ work' = [work EXCEPT ![t] = IF Targets(s) = {} THEN Idle
                                          ELSE [@ EXCEPT !.at = "lookup", !.todo = Targets(s)]]
  <2>1. /\ work'[t] = IF Targets(s) = {} THEN Idle ELSE [work[t] EXCEPT !.at = "lookup", !.todo = Targets(s)]
        /\ DOMAIN work' = Workers  /\ \A u \in Workers \ {t} : work'[u] = work[u]
    BY <1>4 DEF IInv, Shape
  <2>2. DOMAIN work'[t] = Fields
    BY <2>1 DEF IInv, Shape, Idle, Fields
  <2>3. Shape'
    BY <1>4, <2>1, <2>2 DEF IInv, Shape
  <2>4. \A x \in Subjects : x # s => status'[x] = status[x] /\ shown'[x] = shown[x] /\ (x \in cut' <=> x \in cut)
    BY <1>4 DEF IInv, Shape
  <2>5. \A x : \A u \in Workers \ {t} : (Looking(x, u)' <=> Looking(x, u)) /\ (Raising(x, u)' <=> Raising(x, u))
    BY <2>1 DEF Looking, Raising, Accused
  <2>6. s \in Subjects => /\ ~shown'[s]
                          /\ status'[s] = IF Targets(s) = {} THEN "complete" ELSE "running"
                          /\ Targets(s) # {} => Looking(s, t)'
    BY <1>4, <2>1 DEF IInv, Shape, Looking, Fields
  <2>7. \A x : Exists(x)' <=> Exists(x)
    BY <1>1 DEF Exists
  <2>8. Unwritten'
    BY <1>4, <2>4, <2>7 DEF IInv, Unwritten
  <2>9. Running'
    <3> SUFFICES ASSUME NEW x \in Subjects, status'[x] = "running" PROVE x \in cut' \/ \E u \in Workers : Looking(x, u)'
      BY DEF Running
    <3>1. CASE x = s
      <4>1. Looking(s, t)'
        BY <2>6, <3>1
      <4>2. Looking(x, t)'
        BY <3>1, <4>1 DEF Looking
      <4> QED BY <4>2
    <3>2. CASE x # s
      BY <1>2, <2>4, <2>5, <3>2 DEF IInv, Running
    <3> QED BY <3>1, <3>2
  <2>10. Raised'
    <3> SUFFICES ASSUME NEW f \in Findings, status'[f] = "complete", shown'[f]
                 PROVE f \in raised' \/ f \in cut' \/ \E u \in Workers : Raising(f, u)'
      BY DEF Raised
    <3>1. f \in Subjects /\ f # s
      BY <2>6 DEF Subjects
    <3> QED BY <1>1, <1>2, <2>4, <2>5, <3>1 DEF IInv, Raised
  <2> QED BY <2>3, <2>8, <2>9, <2>10 DEF IInv
<1> QED BY <1>3, <1>4 DEF Begin

LEMMA LookupInv == ASSUME Sane, IInv, NEW t \in Workers, Lookup(t) \/ LookupFails(t) PROVE IInv'
<1>1. work[t].at = "lookup" /\ UNCHANGED <<status, shown, raised, phase, cut>>
  BY DEF Lookup, LookupFails, At
<1>2. \A x : ~Raising(x, t)
  BY <1>1 DEF Raising
<1>3. CASE Lookup(t)
  <2>1. PICK found \in Found(work[t].todo) :
          work' = [work EXCEPT ![t].todo = {}, ![t].at = "answered", ![t].found = found]
    BY <1>3 DEF Lookup
  <2>2. /\ work'[t] = [work[t] EXCEPT !.todo = {}, !.at = "answered", !.found = found]
        /\ \A u \in Workers \ {t} : work'[u] = work[u]
    BY <2>1 DEF IInv, Shape
  <2>3. DOMAIN work'[t] = Fields /\ work'[t].of = work[t].of /\ work'[t].at = "answered" /\ DOMAIN work' = Workers
    BY <2>1, <2>2 DEF IInv, Shape, Fields
  <2>4. Shape'
    BY <1>1, <2>2, <2>3 DEF IInv, Shape
  <2> QED BY <1>1, <1>2, <2>2, <2>3, <2>4, Harmless DEF Looking, Raising, Accused, Exists
<1>4. CASE LookupFails(t) /\ work[t].of = Task
  <2>1. work' = [work EXCEPT ![t] = Idle]
    BY <1>4 DEF LookupFails, End
  <2>2. Shape' /\ \A u \in Workers \ {t} : work'[u] = work[u]
    BY <1>1, <2>1 DEF IInv, Shape, Idle, Fields
  <2>3. \A x \in Subjects : ~Looking(x, t)
    BY <1>4 DEF Looking, Sane
  <2> QED BY <1>1, <1>2, <2>2, <2>3, Harmless DEF Looking, Raising, Accused, Exists
<1>5. CASE LookupFails(t) /\ work[t].of # Task
  <2>1. work' = [work EXCEPT ![t].at = "failed"]
    BY <1>5 DEF LookupFails, GoTo
  <2>2. /\ Shape' /\ \A u \in Workers \ {t} : work'[u] = work[u]
        /\ work'[t].of = work[t].of /\ work'[t].at = "failed"
    BY <1>1, <2>1, MoveTo DEF IInv
  <2> QED BY <1>1, <1>2, <2>2, Harmless DEF Looking, Raising, Accused, Exists
<1> QED BY <1>3, <1>4, <1>5

LEMMA SayFailedInv == ASSUME IInv, NEW t \in Workers, SayFailed(t) PROVE IInv'
<1>0. PICK s : s = work[t].of
  OBVIOUS
<1> USE <1>0
<1>1. work[t].at = "failed" /\ work' = [work EXCEPT ![t] = Idle] /\ UNCHANGED <<shown, raised, phase>>
  BY DEF SayFailed, At, End
<1>2. Shape /\ DOMAIN work' = Workers /\ DOMAIN work'[t] = Fields /\ \A u \in Workers \ {t} : work'[u] = work[u]
  BY <1>1 DEF IInv, Shape, Idle, Fields
<1>3. \A x : (x # s => ~Looking(x, t)) /\ ~Raising(x, t)
  BY <1>1 DEF Looking, Raising
<1>4. \A x : \A u \in Workers \ {t} : (Looking(x, u)' <=> Looking(x, u)) /\ (Raising(x, u)' <=> Raising(x, u))
  BY <1>2 DEF Looking, Raising, Accused
<1>5. \A x : Exists(x)' <=> Exists(x)
  BY <1>1 DEF Exists
<1>6. CASE Exists(s) /\ status' = [status EXCEPT ![s] = "failed"] /\ UNCHANGED cut
  <2>1. \A x \in Subjects : status'[x] = IF x = s THEN "failed" ELSE status[x]
    BY <1>2, <1>6 DEF Shape
  <2>2. Shape'
    BY <1>1, <1>2, <1>6 DEF Shape
  <2>3. Unwritten'
    BY <1>5, <1>6, <2>1 DEF IInv, Unwritten
  <2>4. Running'
    BY <1>3, <1>4, <1>6, <2>1 DEF IInv, Running
  <2>5. Raised'
    BY <1>1, <1>3, <1>4, <1>6, <2>1 DEF IInv, Raised, Subjects
  <2> QED BY <2>2, <2>3, <2>4, <2>5 DEF IInv
<1>7. CASE cut' = (IF Exists(s) THEN cut \cup {s} ELSE cut) /\ UNCHANGED status
  <2>1. Shape'
    BY <1>1, <1>2, <1>7 DEF Shape
  <2>2. \A x \in Subjects, u \in Workers : Looking(x, u) => Looking(x, u)' \/ x \in cut' \/ ~Exists(x)
    BY <1>3, <1>4, <1>7
  <2>3. \A x \in Findings, u \in Workers : Raising(x, u) => Raising(x, u)'
    BY <1>3, <1>4
  <2> QED BY <1>1, <1>5, <1>7, <2>1, <2>2, <2>3, Harmless
<1> QED BY <1>6, <1>7 DEF SayFailed

LEMMA SayCompleteInv == ASSUME IInv, NEW t \in Workers, SayComplete(t) PROVE IInv'
<1>0. PICK s : s = work[t].of
  OBVIOUS
<1> USE <1>0
<1>1. work[t].at = "answered" /\ s \in Subjects /\ UNCHANGED <<raised, phase>>
  BY DEF SayComplete, At
<1>2. \A x : (x # s => ~Looking(x, t)) /\ ~Raising(x, t)
  BY <1>1 DEF Looking, Raising
<1>3. \A x : Exists(x)' <=> Exists(x)
  BY <1>1 DEF Exists
<1>4. CASE /\ Exists(s)  /\ status' = [status EXCEPT ![s] = "complete"]
           /\ shown' = [shown EXCEPT ![s] = Accused(t)]
           /\ GoTo(t, "sync")  /\ UNCHANGED cut
  <2>1. /\ \A x \in Subjects : status'[x] = IF x = s THEN "complete" ELSE status[x]
        /\ \A x \in Subjects : shown'[x] = IF x = s THEN Accused(t) ELSE shown[x]
    BY <1>4 DEF IInv, Shape
  <2>2. work'[t] = [work[t] EXCEPT !.at = "sync"] /\ DOMAIN work' = Workers /\ \A u \in Workers \ {t} : work'[u] = work[u]
    BY <1>4 DEF GoTo, IInv, Shape
  <2>3. DOMAIN work'[t] = Fields /\ work'[t].of = s /\ work'[t].at = "sync" /\ work'[t].found = work[t].found
    BY <2>2 DEF IInv, Shape, Fields
  <2>4. Shape'
    BY <1>4, <2>2, <2>3 DEF IInv, Shape
  <2>5. \A x : \A u \in Workers \ {t} : (Looking(x, u)' <=> Looking(x, u)) /\ (Raising(x, u)' <=> Raising(x, u))
    BY <2>2 DEF Looking, Raising, Accused
  <2>6. Accused(t) => Raising(s, t)'
    BY <2>3 DEF Raising, Accused
  <2>7. Unwritten'
    BY <1>3, <1>4, <2>1 DEF IInv, Unwritten
  <2>8. Running'
    BY <1>2, <1>4, <2>1, <2>5 DEF IInv, Running
  <2>9. Raised'
    <3> SUFFICES ASSUME NEW f \in Findings, status'[f] = "complete", shown'[f]
                 PROVE f \in raised' \/ f \in cut' \/ \E u \in Workers : Raising(f, u)'
      BY DEF Raised
    <3>1. f \in Subjects
      BY DEF Subjects
    <3>2. CASE f = s
      <4>1. Raising(s, t)'
        BY <2>1, <2>6, <3>1, <3>2
      <4>2. Raising(f, t)'
        BY <3>2, <4>1 DEF Raising
      <4> QED BY <4>2
    <3>3. CASE f # s
      BY <1>1, <1>2, <1>4, <2>1, <2>5, <3>1, <3>3 DEF IInv, Raised
    <3> QED BY <3>2, <3>3
  <2> QED BY <2>4, <2>7, <2>8, <2>9 DEF IInv
<1>5. CASE /\ End(t)  /\ cut' = (IF Exists(s) THEN cut \cup {s} ELSE cut)  /\ UNCHANGED <<status, shown>>
  <2>1. Shape' /\ \A u \in Workers \ {t} : work'[u] = work[u]
    BY <1>5 DEF End, IInv, Shape, Idle, Fields
  <2>2. \A x : \A u \in Workers \ {t} : (Looking(x, u)' <=> Looking(x, u)) /\ (Raising(x, u)' <=> Raising(x, u))
    BY <2>1 DEF Looking, Raising, Accused
  <2>3. \A x \in Subjects, u \in Workers : Looking(x, u) => Looking(x, u)' \/ x \in cut' \/ ~Exists(x)
    BY <1>2, <1>5, <2>2
  <2>4. \A x \in Findings, u \in Workers : Raising(x, u) => Raising(x, u)'
    BY <1>2, <2>2
  <2> QED BY <1>1, <1>3, <1>5, <2>1, <2>3, <2>4, Harmless
<1> QED BY <1>4, <1>5 DEF SayComplete

-----------------------------------------------------------------------------
(* After the status: the rows, and the severity.                            *)

LEMMA RowsInv == ASSUME IInv, NEW t \in Workers, ReadRows(t) \/ WriteRows(t) PROVE IInv'
<1>0. PICK s : s = work[t].of
  OBVIOUS
<1> USE <1>0
<1>1. work[t].at \in {"sync", "write"} /\ UNCHANGED <<status, shown, raised, phase, cut>>
  BY DEF ReadRows, WriteRows, At
<1>2. \A x : (x # s => ~Raising(x, t)) /\ ~Looking(x, t)
  BY <1>1 DEF Looking, Raising
<1>3. PICK w : /\ work' = [work EXCEPT ![t] = w]  /\ DOMAIN w = Fields
               /\ \/ w = Idle /\ (s \in Findings => ~Exists(s))
                  \/ w.of = s /\ w.at \in {"write", "raise"} /\ w.found = work[t].found
  <2>1. CASE ReadRows(t)
    <3> DEFINE w == [work[t] EXCEPT !.at = "write", !.read = observed]
    <3>1. work' = [work EXCEPT ![t] = w]
      BY <2>1 DEF ReadRows, IInv, Shape
    <3>2. DOMAIN w = Fields /\ w.of = s /\ w.at = "write" /\ w.found = work[t].found
      BY DEF IInv, Shape, Fields
    <3> QED BY <3>1, <3>2
  <2>2. CASE WriteRows(t)
    <3>1. work' = [work EXCEPT ![t] = AfterRows(t)] \/ work' = [work EXCEPT ![t] = WithoutRows(t)]
      BY <2>2 DEF WriteRows
    <3>2. /\ DOMAIN GoesOn(t) = Fields  /\ GoesOn(t).of = s  /\ GoesOn(t).at = "raise"
          /\ GoesOn(t).found = work[t].found  /\ DOMAIN Idle = Fields
      BY DEF GoesOn, IInv, Shape, Fields, Idle
    <3>3. /\ AfterRows(t) = GoesOn(t) \/ (AfterRows(t) = Idle /\ s \notin Findings)
          /\ WithoutRows(t) = GoesOn(t) \/ (WithoutRows(t) = Idle /\ (s \in Findings => ~Exists(s)))
      BY Zenon DEF AfterRows, WithoutRows
    <3> QED BY <3>1, <3>2, <3>3
  <2> QED BY <2>1, <2>2
<1>4. work'[t] = w /\ \A u \in Workers \ {t} : work'[u] = work[u]
  BY <1>3 DEF IInv, Shape
<1>5. Shape'
  BY <1>1, <1>3, <1>4 DEF IInv, Shape
<1>6. \A x : \A u \in Workers \ {t} : (Looking(x, u)' <=> Looking(x, u)) /\ (Raising(x, u)' <=> Raising(x, u))
  BY <1>4 DEF Looking, Raising, Accused
<1>7. Raising(s, t) /\ s \in Findings /\ Exists(s) => Raising(s, t)'
  BY <1>3, <1>4 DEF Raising, Accused
<1>8. \A x \in Findings, u \in Workers : Raising(x, u) => Raising(x, u)' \/ ~Exists(x)
  BY <1>2, <1>6, <1>7
<1>9. \A x \in Subjects : Exists(x) => Exists(x)'
  BY <1>1 DEF Exists
<1> QED BY <1>1, <1>2, <1>5, <1>6, <1>8, <1>9, Harmless

LEMMA RaiseSeverityInv == ASSUME IInv, NEW t \in Workers, RaiseSeverity(t) PROVE IInv'
<1>0. PICK f : f = work[t].of
  OBVIOUS
<1> USE <1>0
<1>1. work[t].at = "raise" /\ work' = [work EXCEPT ![t] = Idle] /\ UNCHANGED <<status, shown, phase>>
  BY DEF RaiseSeverity, At, End
<1>2. \A x : (Raising(x, t) => x = f /\ Accused(t)) /\ ~Looking(x, t)
  BY <1>1 DEF Looking, Raising
<1>3. \A u \in Workers \ {t} : work'[u] = work[u]
  BY <1>1 DEF IInv, Shape
<1>4. Shape'
  BY <1>1 DEF IInv, Shape, Idle, Fields
<1>5. \A x : \A u \in Workers \ {t} : (Looking(x, u)' <=> Looking(x, u)) /\ (Raising(x, u)' <=> Raising(x, u))
  BY <1>3 DEF Looking, Raising, Accused
<1>6. /\ raised \subseteq raised' /\ cut \subseteq cut'
      /\ Accused(t) => f \in raised' \/ f \in cut' \/ ~Exists(f)
  BY DEF RaiseSeverity
<1>7. \A x \in Findings, u \in Workers :
        Raising(x, u) => Raising(x, u)' \/ x \in raised' \/ x \in cut' \/ ~Exists(x)
  BY <1>2, <1>5, <1>6
<1>8. \A x \in Subjects, u \in Workers : Looking(x, u) => Looking(x, u)'
  BY <1>2, <1>5
<1>9. \A x \in Subjects : Exists(x) => Exists(x)'
  BY <1>1 DEF Exists
<1> QED BY <1>1, <1>4, <1>6, <1>7, <1>8, <1>9, Harmless

LEMMA TaskRowInv == ASSUME Sane, IInv, NEW t \in Workers, TaskRow(t) PROVE IInv'
<1>1. work[t].of = Task /\ UNCHANGED <<status, shown, raised, phase, cut>>
  BY DEF TaskRow
<1>2. PICK v : work' = [work EXCEPT ![t] = IF work[t].todo = {v} THEN Idle ELSE [@ EXCEPT !.todo = work[t].todo \ {v}]]
  BY DEF TaskRow
<1>3. DOMAIN work'[t] = Fields /\ DOMAIN work' = Workers /\ \A u \in Workers \ {t} : work'[u] = work[u]
  BY <1>2 DEF IInv, Shape, Idle, Fields
<1>4. Shape'
  BY <1>1, <1>3 DEF IInv, Shape
<1>5. \A x \in Subjects : ~Looking(x, t) /\ ~Raising(x, t)
  BY <1>1 DEF Looking, Raising, Sane
<1>6. \A x : \A u \in Workers \ {t} : (Looking(x, u)' <=> Looking(x, u)) /\ (Raising(x, u)' <=> Raising(x, u))
  BY <1>3 DEF Looking, Raising, Accused
<1>7. \A x \in Subjects : Exists(x) => Exists(x)'
  BY <1>1 DEF Exists
<1>8. \A x \in Findings : x \in Subjects
  BY DEF Subjects
<1> QED BY <1>1, <1>4, <1>5, <1>6, <1>7, <1>8, Harmless

-----------------------------------------------------------------------------
LEMMA NextInv == ASSUME Sane, IInv, [Next]_vars PROVE IInv'
<1>1. ASSUME NEW t \in Workers, AskFinding(t) \/ AskFlow(t) \/ BeginTask(t) PROVE IInv'
  <2>1. PICK w : DOMAIN w = Fields /\ Launch(t, w)
    BY <1>1 DEF AskFinding, AskFlow, BeginTask, Request, Idle, Fields
  <2>2. UNCHANGED <<status, shown, raised, phase, cut>>
    BY <1>1 DEF AskFinding, AskFlow, BeginTask
  <2> QED BY <2>1, <2>2, LaunchInv
<1>2. ASSUME NEW t \in Workers, Step(t) PROVE IInv'
  BY <1>2, BeginInv, LookupInv, SayFailedInv, SayCompleteInv, RowsInv, RaiseSeverityInv, TaskRowInv DEF Step
<1>3. CASE Detect
  <2>1. \A s \in Subjects : Exists(s) => Exists(s)'
    BY <1>3 DEF Detect, Exists
  <2> QED BY <1>3, <2>1, Harmless DEF Detect, IInv, Shape, Looking, Raising, Accused
<1>4. CASE Delete
  <2>1. \A s \in Subjects : status'[s] = "none"
    BY <1>4 DEF Delete
  <2>2. Shape'
    BY <1>4 DEF Delete, IInv, Shape
  <2> QED BY <2>1, <2>2 DEF IInv, Unwritten, Running, Raised, Subjects
<1>5. CASE Restart
  <2>1. /\ work' = [t \in Workers |-> Idle]  /\ cut' = cut \cup {s \in Subjects : Busy(s)}
        /\ UNCHANGED <<status, shown, raised, phase>>
    BY <1>5 DEF Restart
  <2>2. Shape'
    BY <2>1 DEF IInv, Shape, Idle, Fields
  <2>3. \A s \in Subjects, t \in Workers : Looking(s, t) \/ Raising(s, t) => s \in cut'
    BY <2>1 DEF Looking, Raising, Busy
  <2>4. \A s \in Subjects : Exists(s) => Exists(s)'
    BY <2>1 DEF Exists
  <2>5. \A f \in Findings : f \in Subjects
    BY DEF Subjects
  <2> QED BY <2>1, <2>2, <2>3, <2>4, <2>5, Harmless
<1>6. CASE UNCHANGED vars
  BY <1>6, Harmless DEF vars, IInv, Shape, Exists, Looking, Raising, Accused
<1> QED BY <1>1, <1>2, <1>3, <1>4, <1>5, <1>6 DEF Next

LEMMA InvIsCovered == ASSUME IInv PROVE NoneLeftRunning /\ AccusedAreRaised
BY DEF IInv, Running, Raised, Looking, Raising, NoneLeftRunning, AccusedAreRaised, Busy

LEMMA InvHolds == Sane /\ Spec => []IInv
<1>1. CASE Sane
  <2>1. Init => IInv
    BY InitInv
  <2>2. IInv /\ [Next]_vars => IInv'
    BY <1>1, NextInv
  <2> QED BY <2>1, <2>2, PTL DEF Spec
<1> QED BY <1>1

(* For any number of workers and subjects, whatever fails: "running" is     *)
(* worked at, so that investigate_finding does not refuse for good, unless  *)
(* a write of the status failed or the program ended.                       *)
THEOREM RunningIsWorkedAt == Sane /\ Spec => []NoneLeftRunning
<1>1. IInv => NoneLeftRunning
  BY InvIsCovered
<1> QED BY <1>1, InvHolds, PTL

(* A finding that shows something malicious gets its severity, whatever     *)
(* becomes of the rows of the observables (_investigate_finding_sync).      *)
THEOREM AccusedRaised == Sane /\ Spec => []AccusedAreRaised
<1>1. IInv => AccusedAreRaised
  BY InvIsCovered
<1> QED BY <1>1, InvHolds, PTL

-----------------------------------------------------------------------------
(* The rows of the observables.  An investigation never writes a confidence *)
(* of zero, so what it read as positive is positive when it writes, and the *)
(* enrichment task writes over what it read; what is done to a row of one   *)
(* while the other is at it is in mixed.                                    *)

Backed == {f \in [mal : BOOLEAN, conf : 0 .. 100] : f.mal = TRUE => f.conf > 0}
RowsOf == [Values -> [row : BOOLEAN, mal : BOOLEAN, conf : 0 .. 100]]
Steps  == {"idle", "begin", "lookup", "failed", "answered", "sync", "write", "raise"}

\* The types of what a worker is at, and for whom it may be there.
Worker(w) ==
  /\ DOMAIN w = Fields
  /\ w.of \in Subjects \cup {Task, Nobody}  /\ w.at \in Steps  /\ w.todo \subseteq Values
  /\ DOMAIN w.found \subseteq Values  /\ \A v \in DOMAIN w.found : w.found[v] \in Backed
  /\ w.at = "write" \/ w.of = Task => w.read \in RowsOf
  /\ w.of = Task => w.at = "lookup"
  /\ w.at \in Steps \ {"idle"} => w.of \in Subjects \cup {Task}
  /\ w.at = "raise" => w.of \in Findings

Rests == /\ status \in [Subjects -> {"none", "running", "complete", "failed"}]
         /\ shown \in [Subjects -> BOOLEAN]  /\ raised \subseteq Findings
         /\ phase \in {"parsed", "detected", "deleted"}  /\ lookups \in 0 .. MaxLookups
         /\ cut \subseteq Subjects
Typed  == Rests /\ observed \in RowsOf /\ mixed \subseteq Values /\ \A t \in Workers : Worker(work[t])
Alone  == \A t, u \in Workers : work[t].of = Task /\ work[u].of = Task => t = u

\* A worker about to write, and the task, of the rows now and those in mixed.
Above(w, now, both) ==
  w.at = "write" => \A v \in DOMAIN w.found : w.read[v].conf > 0 => now[v].conf > 0 \/ v \in both
Unread(w, now, both) ==
  w.of = Task => \A v \in w.todo : now[v] = w.read[v] \/ v \in both
Pending == phase # "deleted" => \A t \in Workers : Above(work[t], observed, mixed) /\ Unread(work[t], observed, mixed)
Covered == \A v \in Values : observed[v].mal = TRUE => observed[v].conf > 0 \/ v \in mixed

RInv == Typed /\ Alone /\ Pending /\ Covered

\* The confidence is between 0 and 100, and 5 at least when something accuses.
LEMMA VerdictFacts == ASSUME NEW e PROVE Verdict(e) \in Backed
<1> DEFINE says(p, n) == p \in DOMAIN e /\ e[p] = n
           part(p)    == IF p \in DOMAIN e /\ Triggers(p, e[p]) THEN Weight(p) ELSE 0
           some       == IF says("anyrun", 1) THEN 15 ELSE 0
           sum        == part("virustotal") + part("abuseipdb") + part("whois") + part("otx") + some + part("anyrun")
           relieved   == IF says("greynoise", 2) THEN Relieved(sum) ELSE sum + part("greynoise")
           open       == IF "internetdb" \in DOMAIN e /\ e["internetdb"] > 0 THEN 10 ELSE 0
           total      == relieved + open
           mal        == \E p \in DOMAIN e : Triggers(p, e[p])
<1>1. Verdict(e) = [mal |-> mal, conf |-> IF total > 100 THEN 100 ELSE total]
  BY DEF Verdict
<1>2. /\ part("virustotal") \in {0, 40} /\ part("abuseipdb") \in {0, 35} /\ part("whois") \in {0, 25}
      /\ part("otx") \in {0, 25} /\ part("anyrun") \in {0, 35} /\ part("greynoise") \in {0, 30}
      /\ some \in {0, 15} /\ open \in {0, 10}
  BY DEF Weight
<1>3. ASSUME NEW p \in DOMAIN e, Triggers(p, e[p])
      PROVE  p \in {"virustotal", "otx", "abuseipdb", "anyrun", "whois", "greynoise"} /\ part(p) = Weight(p)
  BY <1>3 DEF Triggers
<1>4. ASSUME mal, ~says("greynoise", 2)
      PROVE  sum + part("greynoise") > 0
  BY <1>2, <1>3, <1>4 DEF Weight
<1>5. ASSUME mal, says("greynoise", 2)
      PROVE  sum > 20
  <2>1. PICK p \in DOMAIN e : Triggers(p, e[p])
    BY <1>5
  <2>2. p # "greynoise"
    BY <1>5, <2>1 DEF Triggers
  <2> QED BY <1>2, <1>3, <2>1, <2>2 DEF Weight
<1> HIDE DEF part, some, open, says
<1>6. total \in Nat /\ (mal => total > 0)
  BY <1>2, <1>4, <1>5 DEF Relieved
<1> HIDE DEF total, mal
<1>7. mal \in BOOLEAN
  BY DEF mal
<1> QED BY <1>1, <1>6, <1>7 DEF Backed

LEMMA TargetsFacts == ASSUME Sane, NEW s \in Subjects PROVE Targets(s) \subseteq Values
<1>1. Mentions[s] \in Seq(Values)
  BY DEF Sane
<1>2. \A i \in DOMAIN Mentions[s] : Mentions[s][i] \in Values
  BY <1>1, ElementOfSeq, LenProperties
<1> QED BY <1>2 DEF Targets

LEMMA IdleOk ==
  /\ Worker(Idle)  /\ Idle.of = Nobody /\ Idle.at = "idle"  /\ Idle.of # Task
  /\ \A now, both : Above(Idle, now, both) /\ Unread(Idle, now, both)
<1>1. DOMAIN Idle.found = {} /\ DOMAIN Idle = Fields /\ Idle.of = Nobody /\ Idle.at = "idle" /\ Idle.todo = {}
  BY DEF Idle, Fields
<1>2. Nobody # Task
  BY DEF Nobody, Task
<1> QED BY <1>1, <1>2 DEF Worker, Steps, Above, Unread

LEMMA RowsInit == ASSUME Sane, Init PROVE RInv
<1>1. work = [t \in Workers |-> Idle] /\ \A t \in Workers : work[t] = Idle
  BY DEF Init
<1>2. PICK seen \in SUBSET Values : observed = [v \in Values |-> IF v \in seen THEN NewRow ELSE NoRow]
  BY DEF Init
<1>3. /\ NewRow.mal = FALSE /\ NoRow.mal = FALSE
      /\ NewRow \in [row : BOOLEAN, mal : BOOLEAN, conf : 0 .. 100]
      /\ NoRow \in [row : BOOLEAN, mal : BOOLEAN, conf : 0 .. 100]
  <2>1. NoRow \in [row : BOOLEAN, mal : BOOLEAN, conf : 0 .. 100] /\ NoRow.mal = FALSE
    BY DEF NoRow
  <2>2. NewRow \in [row : BOOLEAN, mal : BOOLEAN, conf : 0 .. 100] /\ NewRow.mal = NoRow.mal
    BY <2>1 DEF NewRow
  <2> QED BY <2>1, <2>2
<1>4. observed \in RowsOf /\ Covered
  BY <1>2, <1>3 DEF RowsOf, Covered
<1>5. Rests /\ mixed \subseteq Values
  BY DEF Init, Rests, Sane
<1> QED BY <1>1, <1>4, <1>5, IdleOk DEF RInv, Typed, Alone, Pending

\* A step that gives worker t another record and leaves the rows alone.
LEMMA WorkerMoves ==
  ASSUME IInv, RInv, NEW t \in Workers, NEW w, Worker(w), work' = [work EXCEPT ![t] = w], Rests',
         phase' = phase, UNCHANGED <<observed, mixed>>,
         w.of = Task => work[t].of = Task \/ ~Busy(Task),
         phase # "deleted" => Above(w, observed, mixed) /\ Unread(w, observed, mixed)
  PROVE  RInv'
<1>1. work'[t] = w /\ \A u \in Workers \ {t} : work'[u] = work[u]
  BY DEF IInv, Shape
<1>2. \A u \in Workers : Worker(work'[u])
  BY <1>1 DEF RInv, Typed
<1>3. Alone'
  BY <1>1 DEF RInv, Alone, Busy
<1>4. Pending'
  BY <1>1 DEF RInv, Pending
<1>5. Typed'
  BY <1>2 DEF RInv, Typed, RowsOf, Rests, Worker, Fields, Steps, Backed, Values, Subjects, Task, Nobody
<1> QED BY <1>3, <1>4, <1>5 DEF RInv, Covered, Values

LEMMA Frees ==
  ASSUME IInv, RInv, NEW t \in Workers, End(t), Rests', phase' = phase, UNCHANGED <<observed, mixed>>
  PROVE  RInv'
<1>1. work' = [work EXCEPT ![t] = Idle]
  BY DEF End
<1> QED BY <1>1, IdleOk, WorkerMoves

LEMMA AskKeeps ==
  ASSUME Sane, IInv, RInv, NEW t \in Workers, AskFinding(t) \/ AskFlow(t)
  PROVE  RInv'
<1>1. PICK s \in Subjects : Launch(t, Request(s))
  BY DEF AskFinding, AskFlow, Subjects
<1>2. UNCHANGED <<observed, status, shown, raised, phase, cut, mixed>>
  BY DEF AskFinding, AskFlow
<1>3. work' = [work EXCEPT ![t] = Request(s)] /\ lookups' \in 0 .. MaxLookups
  <2>1. lookups < MaxLookups /\ lookups' = lookups + 1 /\ lookups \in 0 .. MaxLookups /\ MaxLookups \in Nat
    BY <1>1 DEF Launch, RInv, Typed, Rests, Sane
  <2>2. work' = [work EXCEPT ![t] = Request(s)]
    BY <1>1 DEF Launch
  <2> QED BY <2>1, <2>2
<1>4. /\ Request(s).of = s /\ Request(s).at = "begin" /\ Request(s).todo = {} /\ DOMAIN Request(s).found = {}
      /\ DOMAIN Request(s) = Fields
  BY DEF Request, Idle, Fields
<1>5. s # Task
  BY DEF Sane
<1>6. Worker(Request(s))
  BY <1>4, <1>5 DEF Worker, Steps
<1>7. \A now, both : Above(Request(s), now, both) /\ Unread(Request(s), now, both)
  BY <1>4, <1>5 DEF Above, Unread
<1>8. Rests'
  BY <1>2, <1>3 DEF RInv, Typed, Rests, Subjects
<1> QED BY <1>2, <1>3, <1>4, <1>5, <1>6, <1>7, <1>8, WorkerMoves

LEMMA BeginKeeps == ASSUME Sane, IInv, RInv, NEW t \in Workers, Begin(t) PROVE RInv'
<1>0. PICK s : s = work[t].of
  OBVIOUS
<1>1. work[t].at = "begin" /\ Worker(work[t]) /\ UNCHANGED <<observed, raised, phase, lookups, mixed>>
  BY DEF Begin, At, RInv, Typed
<1>2. s \in Subjects /\ s # Task
  BY <1>0, <1>1 DEF Worker, Steps, Sane
<1>3. CASE End(t) /\ UNCHANGED <<status, shown, cut>>
  <2>1. Rests'
    BY <1>1, <1>3 DEF RInv, Typed, Rests, Subjects
  <2> QED BY <1>1, <1>3, <2>1, Frees
<1>4. CASE /\ Exists(s)
           /\ status' = [status EXCEPT ![s] = IF Targets(s) = {} THEN "complete" ELSE "running"]
           /\ shown' = [shown EXCEPT ![s] = FALSE]
           /\ cut' = cut \ {s}
           /\ work' = [work EXCEPT ![t] = IF Targets(s) = {} THEN Idle
                                          ELSE [@ EXCEPT !.at = "lookup", !.todo = Targets(s)]]
  <2> DEFINE w == IF Targets(s) = {} THEN Idle ELSE [work[t] EXCEPT !.at = "lookup", !.todo = Targets(s)]
  <2>1. work' = [work EXCEPT ![t] = w]
    BY <1>4 DEF IInv, Shape
  <2>2. Worker(w) /\ w.of # Task /\ w.at # "write"
    <3>1. Targets(s) \subseteq Values
      BY <1>2, TargetsFacts
    <3>2. CASE Targets(s) = {}
      BY <3>2, IdleOk
    <3>3. CASE Targets(s) # {}
      <4>1. /\ w.of = s /\ w.at = "lookup" /\ w.todo = Targets(s) /\ w.found = work[t].found
            /\ w.read = work[t].read /\ DOMAIN w = Fields
        BY <1>0, <1>1, <3>3 DEF Worker, Fields
      <4> QED BY <1>1, <1>2, <3>1, <4>1 DEF Worker, Steps
    <3> QED BY <3>2, <3>3
  <2> HIDE DEF w
  <2>3. Rests'
    BY <1>1, <1>4 DEF RInv, Typed, Rests, Subjects
  <2> QED BY <1>1, <2>1, <2>2, <2>3, WorkerMoves DEF Above, Unread
<1> QED BY <1>0, <1>3, <1>4 DEF Begin

\* A worker goes to a place where it holds nothing that rows could change under.
LEMMA GoesTo ==
  ASSUME IInv, RInv, NEW t \in Workers, NEW a \in {"failed", "sync"}, GoTo(t, a), work[t].of \in Subjects \ {Task},
         Rests', phase' = phase, UNCHANGED <<observed, mixed>>
  PROVE  RInv'
<1> DEFINE w == [work[t] EXCEPT !.at = a]
<1>1. work' = [work EXCEPT ![t] = w] /\ Worker(work[t])
  BY DEF GoTo, IInv, Shape, RInv, Typed
<1>2. /\ w.of = work[t].of /\ w.at = a /\ w.todo = work[t].todo /\ w.found = work[t].found
      /\ DOMAIN w = Fields
  BY <1>1 DEF Worker, Fields
<1> HIDE DEF w
<1>3. Worker(w) /\ w.of # Task /\ w.at # "write"
  BY <1>1, <1>2 DEF Worker, Steps
<1> QED BY <1>1, <1>3, WorkerMoves DEF Above, Unread

LEMMA LookupKeeps == ASSUME Sane, IInv, RInv, NEW t \in Workers, Lookup(t) \/ LookupFails(t) PROVE RInv'
<1>1. /\ work[t].at = "lookup" /\ Worker(work[t])
      /\ UNCHANGED <<observed, status, shown, raised, phase, lookups, cut, mixed>>
  BY DEF Lookup, LookupFails, At, RInv, Typed
<1>2. Rests'
  BY <1>1 DEF RInv, Typed, Rests, Subjects
<1>3. CASE Lookup(t)
  <2>1. PICK found \in Found(work[t].todo) :
          work' = [work EXCEPT ![t].todo = {}, ![t].at = "answered", ![t].found = found]
    BY <1>3 DEF Lookup
  <2> DEFINE w == [work[t] EXCEPT !.todo = {}, !.at = "answered", !.found = found]
  <2>2. work' = [work EXCEPT ![t] = w]
    BY <2>1 DEF IInv, Shape
  <2>3. /\ w.of = work[t].of /\ w.at = "answered" /\ w.todo = {} /\ w.found = found /\ DOMAIN w = Fields
    BY <1>1 DEF Worker, Fields
  <2> HIDE DEF w
  <2>4. DOMAIN found = work[t].todo \ Private /\ \A v \in DOMAIN found : \E e \in Answers(v) : found[v] = Verdict(e)
    BY DEF Found
  <2>5. \A v \in DOMAIN found : found[v] \in Backed
    BY <2>4, VerdictFacts
  <2>6. w.of # Task /\ w.of \in Subjects
    <3>1. work[t].of # Task
      BY <1>3 DEF Lookup
    <3> QED BY <1>1, <2>3, <3>1 DEF Worker, Steps
  <2>7. Worker(w)
    BY <1>1, <2>3, <2>4, <2>5, <2>6 DEF Worker, Steps
  <2> QED BY <1>1, <1>2, <2>2, <2>3, <2>6, <2>7, WorkerMoves DEF Above, Unread
<1>4. CASE LookupFails(t)
  <2>1. CASE work[t].of = Task
    BY <1>1, <1>2, <1>4, <2>1, Frees DEF LookupFails
  <2>2. CASE work[t].of # Task
    <3> QED BY <1>1, <1>2, <1>4, <2>2, GoesTo DEF LookupFails, Worker
  <2> QED BY <2>1, <2>2
<1> QED BY <1>3, <1>4

LEMMA SayKeeps ==
  ASSUME Sane, IInv, RInv, NEW t \in Workers, SayFailed(t) \/ SayComplete(t) \/ RaiseSeverity(t)
  PROVE  RInv'
<1>0. PICK s : s = work[t].of
  OBVIOUS
<1>1. /\ work[t].at \in {"failed", "answered", "raise"} /\ Worker(work[t])
      /\ UNCHANGED <<observed, phase, lookups, mixed>>
  BY DEF SayFailed, SayComplete, RaiseSeverity, At, RInv, Typed
<1>2. s \in Subjects /\ s # Task /\ (work[t].at = "raise" => s \in Findings)
  BY <1>0, <1>1 DEF Worker, Steps, Sane
<1>3. /\ Rests /\ Accused(t) \in BOOLEAN
  BY DEF RInv, Typed, Accused
<1>4. Rests'
  <2>1. CASE SayFailed(t)
    <3>1. /\ UNCHANGED <<shown, raised>>
          /\ \/ status' = [status EXCEPT ![s] = "failed"] /\ cut' = cut
             \/ status' = status /\ cut' \subseteq cut \cup {s}
      BY <1>0, <2>1 DEF SayFailed
    <3> QED BY <1>1, <1>2, <1>3, <3>1 DEF Rests, Subjects
  <2>2. CASE SayComplete(t)
    <3>1. /\ UNCHANGED raised
          /\ \/ status' = [status EXCEPT ![s] = "complete"] /\ shown' = [shown EXCEPT ![s] = Accused(t)] /\ cut' = cut
             \/ status' = status /\ shown' = shown /\ cut' \subseteq cut \cup {s}
      BY <1>0, <2>2 DEF SayComplete
    <3>2. CASE status' = [status EXCEPT ![s] = "complete"] /\ shown' = [shown EXCEPT ![s] = Accused(t)] /\ cut' = cut
      <4>1. shown' \in [Subjects -> BOOLEAN]
        BY Zenon, <1>3, <3>2 DEF Rests
      <4>2. status' \in [Subjects -> {"none", "running", "complete", "failed"}]
        BY <1>3, <3>2 DEF Rests
      <4> QED BY <1>1, <1>3, <3>1, <3>2, <4>1, <4>2 DEF Rests, Subjects
    <3>3. CASE status' = status /\ shown' = shown /\ cut' \subseteq cut \cup {s}
      BY <1>1, <1>2, <1>3, <3>1, <3>3 DEF Rests, Subjects
    <3> QED BY <3>1, <3>2, <3>3
  <2>3. CASE RaiseSeverity(t)
    <3>1. /\ UNCHANGED <<status, shown>> /\ work[t].at = "raise"
          /\ raised' \subseteq raised \cup {s} /\ cut' \subseteq cut \cup {s}
      BY <1>0, <2>3 DEF RaiseSeverity, At
    <3> QED BY <1>1, <1>2, <1>3, <3>1 DEF Rests, Subjects
  <2> QED BY <2>1, <2>2, <2>3
<1>5. End(t) \/ GoTo(t, "sync")
  BY DEF SayFailed, SayComplete, RaiseSeverity
<1> QED BY <1>0, <1>1, <1>2, <1>4, <1>5, Frees, GoesTo

LEMMA ReadKeeps == ASSUME Sane, IInv, RInv, NEW t \in Workers, ReadRows(t) PROVE RInv'
<1> DEFINE w == [work[t] EXCEPT !.at = "write", !.read = observed]
<1>1. /\ work[t].at = "sync" /\ Worker(work[t]) /\ work' = [work EXCEPT ![t] = w]
      /\ UNCHANGED <<observed, status, shown, raised, phase, lookups, cut, mixed>>
  BY DEF ReadRows, At, RInv, Typed, IInv, Shape
<1>2. Rests'
  BY <1>1 DEF RInv, Typed, Rests, Subjects
<1>3. /\ w.of = work[t].of /\ w.at = "write" /\ w.todo = work[t].todo /\ w.found = work[t].found /\ w.read = observed
      /\ DOMAIN w = Fields
  BY <1>1 DEF Worker, Fields
<1> HIDE DEF w
<1>4. Worker(w) /\ w.of # Task
  BY <1>1, <1>3 DEF Worker, Steps, RInv, Typed
<1>5. Above(w, observed, mixed) /\ Unread(w, observed, mixed)
  BY <1>3, <1>4 DEF Above, Unread
<1> QED BY <1>1, <1>2, <1>4, <1>5, WorkerMoves

\* What a write of a row leaves, from what was read, what was found, and the row now.
LEMMA SyncedFacts ==
  ASSUME NEW old \in [row : BOOLEAN, mal : BOOLEAN, conf : 0 .. 100], NEW new \in Backed,
         NEW now \in [row : BOOLEAN, mal : BOOLEAN, conf : 0 .. 100], NEW next, next = Synced(old, new, now)
  PROVE  /\ next \in [row : BOOLEAN, mal : BOOLEAN, conf : 0 .. 100]
         /\ now.conf > 0 => next.conf > 0
         /\ next.mal = TRUE /\ now.conf = 0 /\ next.conf = 0 => now.mal = TRUE \/ old.conf > 0
<1>1. /\ old.conf \in 0 .. 100 /\ new.conf \in 0 .. 100 /\ now.conf \in 0 .. 100
      /\ old.mal \in BOOLEAN /\ new.mal \in BOOLEAN /\ now.mal \in BOOLEAN /\ (new.mal = TRUE => new.conf > 0)
  BY DEF Backed
<1>2. /\ next.row = TRUE /\ next.mal = (IF new.mal = old.mal THEN now.mal ELSE new.mal)
      /\ next.conf = (IF Confidence(old, new) = old.conf THEN now.conf ELSE Confidence(old, new))
      /\ next = [row |-> TRUE, mal |-> IF new.mal = old.mal THEN now.mal ELSE new.mal,
                 conf |-> IF Confidence(old, new) = old.conf THEN now.conf ELSE Confidence(old, new)]
  BY DEF Synced, Column
<1>3. Confidence(old, new) \in 0 .. 100 /\ Confidence(old, new) >= old.conf /\ Confidence(old, new) >= new.conf
  BY <1>1 DEF Confidence, Higher
<1>4. next \in [row : BOOLEAN, mal : BOOLEAN, conf : 0 .. 100]
  <2>1. (IF new.mal = old.mal THEN now.mal ELSE new.mal) \in BOOLEAN
    BY <1>1
  <2>2. (IF Confidence(old, new) = old.conf THEN now.conf ELSE Confidence(old, new)) \in 0 .. 100
    BY <1>1, <1>3
  <2> QED BY <1>2, <2>1, <2>2
<1>5. now.conf > 0 => next.conf > 0
  BY <1>1, <1>2, <1>3
<1>6. ASSUME next.mal = TRUE, now.conf = 0, next.conf = 0
      PROVE  now.mal = TRUE \/ old.conf > 0
  <2>1. CASE new.mal = TRUE
    BY <1>1, <1>2, <1>3, <1>6, <2>1
  <2>2. CASE new.mal = FALSE
    BY <1>2, <1>6, <2>2
  <2> QED BY <1>1, <2>1, <2>2
<1> QED BY <1>4, <1>5, <1>6

LEMMA WriteKeeps == ASSUME Sane, IInv, RInv, NEW t \in Workers, WriteRows(t) PROVE RInv'
<1>0. PICK found, read : found = work[t].found /\ read = work[t].read
  OBVIOUS
<1>1. /\ work[t].at = "write" /\ Worker(work[t]) /\ UNCHANGED <<status, shown, raised, phase, lookups, cut>>
      /\ found = work[t].found /\ read = work[t].read
  BY <1>0 DEF WriteRows, At, RInv, Typed
<1>2. Rests'
  BY <1>1 DEF RInv, Typed, Rests, Subjects
<1> DEFINE onward == [work[t] EXCEPT !.at = "raise"]
<1>3. /\ onward.of = work[t].of /\ onward.at = "raise" /\ onward.todo = work[t].todo /\ onward.found = work[t].found
      /\ DOMAIN onward = Fields
  BY <1>1 DEF Worker, Fields
<1> HIDE DEF onward
<1>4. work[t].of \in Findings => Worker(onward) /\ onward.of # Task /\ onward.at # "write"
  BY <1>1, <1>3 DEF Worker, Steps
<1>5. PICK w : /\ work' = [work EXCEPT ![t] = w]
               /\ w = Idle \/ (w = onward /\ work[t].of \in Findings)
               /\ \/ /\ phase # "deleted"
                     /\ observed' = [v \in Values |-> IF v \in DOMAIN found THEN Synced(read[v], found[v], observed[v])
                                                                            ELSE observed[v]]
                     /\ mixed' = mixed \cup {v \in DOMAIN found : \E u \in Workers : work[u].of = Task /\ v \in work[u].todo}
                  \/ UNCHANGED <<observed, mixed>>
  <2>1. AfterRows(t) = Idle \/ (AfterRows(t) = onward /\ work[t].of \in Findings)
    BY DEF AfterRows, GoesOn, onward
  <2>2. WithoutRows(t) = Idle \/ (WithoutRows(t) = onward /\ work[t].of \in Findings)
    BY DEF WithoutRows, GoesOn, onward
  <2>3. CASE UNCHANGED <<observed, mixed>> /\ work' = [work EXCEPT ![t] = WithoutRows(t)]
    BY <2>2, <2>3
  <2>4. CASE ~(UNCHANGED <<observed, mixed>> /\ work' = [work EXCEPT ![t] = WithoutRows(t)])
    BY <1>0, <2>1, <2>4 DEF WriteRows
  <2> QED BY <2>3, <2>4
<1>6. Worker(w) /\ w.of # Task /\ w.at # "write"
  BY <1>3, <1>4, <1>5, IdleOk
<1>7. CASE UNCHANGED <<observed, mixed>>
  BY <1>1, <1>2, <1>5, <1>6, <1>7, WorkerMoves DEF Above, Unread
<1>8. CASE /\ phase # "deleted"
           /\ observed' = [v \in Values |-> IF v \in DOMAIN found THEN Synced(read[v], found[v], observed[v])
                                                                  ELSE observed[v]]
           /\ mixed' = mixed \cup {v \in DOMAIN found : \E u \in Workers : work[u].of = Task /\ v \in work[u].todo}
  <2>0. observed \in RowsOf /\ read \in RowsOf /\ DOMAIN found \subseteq Values /\ mixed \subseteq Values
    BY <1>1 DEF Worker, RInv, Typed
  <2>1. ASSUME NEW v \in DOMAIN found
        PROVE  /\ observed'[v] = Synced(read[v], found[v], observed[v])
               /\ observed'[v] \in [row : BOOLEAN, mal : BOOLEAN, conf : 0 .. 100]
               /\ observed[v].conf > 0 => observed'[v].conf > 0
               /\ observed'[v].mal = TRUE /\ observed[v].conf = 0 /\ observed'[v].conf = 0 =>
                    observed[v].mal = TRUE \/ read[v].conf > 0
    <3>1. found[v] \in Backed /\ v \in Values
      BY <1>1 DEF Worker
    <3>2. /\ read[v] \in [row : BOOLEAN, mal : BOOLEAN, conf : 0 .. 100]
          /\ observed[v] \in [row : BOOLEAN, mal : BOOLEAN, conf : 0 .. 100]
      BY <2>0, <3>1 DEF RowsOf
    <3>3. observed'[v] = Synced(read[v], found[v], observed[v])
      BY <1>8, <3>1
    <3>4. PICK old, new, now, next : old = read[v] /\ new = found[v] /\ now = observed[v] /\ next = observed'[v]
      OBVIOUS
    <3>5. /\ old \in [row : BOOLEAN, mal : BOOLEAN, conf : 0 .. 100] /\ new \in Backed
          /\ now \in [row : BOOLEAN, mal : BOOLEAN, conf : 0 .. 100] /\ next = Synced(old, new, now)
      BY <3>1, <3>2, <3>3, <3>4
    <3>6. /\ next \in [row : BOOLEAN, mal : BOOLEAN, conf : 0 .. 100]
          /\ now.conf > 0 => next.conf > 0
          /\ next.mal = TRUE /\ now.conf = 0 /\ next.conf = 0 => now.mal = TRUE \/ old.conf > 0
      BY ONLY <3>5, SyncedFacts
    <3> QED BY <3>3, <3>4, <3>6
  <2>2. \A v \in Values \ DOMAIN found : observed'[v] = observed[v]
    BY <1>8
  <2>3. observed' \in RowsOf
    <3>1. \A v \in Values : observed'[v] \in [row : BOOLEAN, mal : BOOLEAN, conf : 0 .. 100]
      BY <2>0, <2>1, <2>2 DEF RowsOf
    <3>2. observed' = [v \in Values |-> observed'[v]]
      BY <1>8
    <3> QED BY <3>1, <3>2 DEF RowsOf
  <2>4. mixed \subseteq mixed' /\ mixed' \subseteq Values
    BY <1>8, <2>0
  <2>5. work'[t] = w /\ \A u \in Workers \ {t} : work'[u] = work[u]
    BY <1>5 DEF IInv, Shape
  <2>6. \A u \in Workers : Worker(work'[u])
    BY <1>6, <2>5 DEF RInv, Typed
  <2>7. Typed'
    BY <1>2, <2>3, <2>4, <2>6
       DEF RInv, Typed, RowsOf, Rests, Worker, Fields, Steps, Backed, Values, Subjects, Task, Nobody
  <2>8. Alone'
    BY <1>6, <2>5 DEF RInv, Alone
  <2>9. \A u \in Workers : Above(work[u], observed, mixed) /\ Unread(work[u], observed, mixed) /\ Worker(work[u])
    BY <1>8 DEF RInv, Pending, Typed
  <2>10. ASSUME NEW u \in Workers
         PROVE  Above(work'[u], observed', mixed') /\ Unread(work'[u], observed', mixed')
    <3>1. CASE u = t
      BY <1>6, <2>5, <3>1 DEF Above, Unread
    <3>2. CASE u # t
      <4>1. Above(work[u], observed', mixed')
        <5> SUFFICES ASSUME work[u].at = "write", NEW v \in DOMAIN work[u].found, work[u].read[v].conf > 0
                     PROVE  observed'[v].conf > 0 \/ v \in mixed'
          BY DEF Above
        <5>1. v \in Values /\ (observed[v].conf > 0 \/ v \in mixed)
          BY <2>9 DEF Above, Worker
        <5> QED BY <2>1, <2>2, <2>4, <5>1
      <4>2. Unread(work[u], observed', mixed')
        <5> SUFFICES ASSUME work[u].of = Task, NEW v \in work[u].todo
                     PROVE  observed'[v] = work[u].read[v] \/ v \in mixed'
          BY DEF Unread
        <5>1. v \in Values /\ (observed[v] = work[u].read[v] \/ v \in mixed)
          BY <2>9 DEF Unread, Worker
        <5>2. CASE v \in DOMAIN found
          BY <1>8, <5>2
        <5>3. CASE v \notin DOMAIN found
          BY <2>2, <2>4, <5>1, <5>3
        <5> QED BY <5>2, <5>3
      <4> QED BY <2>5, <3>2, <4>1, <4>2
    <3> QED BY <3>1, <3>2
  <2>11. Pending'
    BY <2>10 DEF Pending
  <2>12. Covered'
    <3> SUFFICES ASSUME NEW v \in Values, observed'[v].mal = TRUE, v \notin mixed'
                 PROVE  observed'[v].conf > 0
      BY DEF Covered, Values
    <3>1. observed[v].mal = TRUE => observed[v].conf > 0
      BY <2>4 DEF RInv, Covered
    <3>2. CASE v \notin DOMAIN found
      BY <2>2, <3>1, <3>2
    <3>3. CASE v \in DOMAIN found
      <4>1. observed[v].conf \in 0 .. 100 /\ observed'[v].conf \in 0 .. 100
        BY <2>0, <2>1, <3>3 DEF RowsOf
      <4>2. read[v].conf > 0 => observed[v].conf > 0
        BY <1>1, <2>4, <2>9, <3>3 DEF Above
      <4>3. /\ observed[v].conf > 0 => observed'[v].conf > 0
            /\ observed[v].conf = 0 /\ observed'[v].conf = 0 => observed[v].mal = TRUE \/ read[v].conf > 0
        BY <2>1, <3>3
      <4> QED BY <3>1, <4>1, <4>2, <4>3
    <3> QED BY <3>2, <3>3
  <2> QED BY <2>7, <2>8, <2>11, <2>12 DEF RInv
<1> QED BY <1>5, <1>7, <1>8

LEMMA BeginTaskKeeps == ASSUME Sane, IInv, RInv, NEW t \in Workers, BeginTask(t) PROVE RInv'
<1> DEFINE w == [Idle EXCEPT !.of = Task, !.at = "lookup", !.read = observed, !.todo = {v \in Values : observed[v].row}]
<1>1. /\ ~Busy(Task) /\ work' = [work EXCEPT ![t] = w] /\ lookups < MaxLookups /\ lookups' = lookups + 1
      /\ UNCHANGED <<observed, status, shown, raised, phase, cut, mixed>>
  BY DEF BeginTask, Launch
<1>2. /\ w.of = Task /\ w.at = "lookup" /\ w.read = observed /\ w.todo \subseteq Values /\ DOMAIN w.found = {}
      /\ DOMAIN w = Fields
  BY DEF Idle, Fields
<1> HIDE DEF w
<1>3. Worker(w) /\ Above(w, observed, mixed) /\ Unread(w, observed, mixed)
  BY <1>2 DEF Worker, Steps, Above, Unread, RInv, Typed
<1>4. Rests'
  <2>1. lookups' \in 0 .. MaxLookups
    BY <1>1 DEF RInv, Typed, Rests, Sane
  <2> QED BY <1>1, <2>1 DEF RInv, Typed, Rests, Subjects
<1> QED BY <1>1, <1>3, <1>4, WorkerMoves

\* The task writes over what it read, or over the row as it is.
LEMMA ReplacedFacts ==
  ASSUME NEW now \in [row : BOOLEAN, mal : BOOLEAN, conf : 0 .. 100], NEW new \in Backed, NEW next,
         next = Replaced(now, new, now)
  PROVE  /\ next \in [row : BOOLEAN, mal : BOOLEAN, conf : 0 .. 100]
         /\ next.mal = TRUE => next.conf > 0
<1>1. /\ new.conf \in 0 .. 100 /\ now.conf \in 0 .. 100 /\ new.mal \in BOOLEAN /\ now.mal \in BOOLEAN
      /\ new.mal = TRUE => new.conf > 0
  BY DEF Backed
<1>2. next = [row |-> TRUE, mal |-> new.mal, conf |-> new.conf]
  BY DEF Replaced, Column
<1> QED BY <1>1, <1>2

\* Whatever it had read, it writes a row.
LEMMA ReplacedType ==
  ASSUME NEW old, NEW now \in [row : BOOLEAN, mal : BOOLEAN, conf : 0 .. 100], NEW new \in Backed
  PROVE  Replaced(old, new, now) \in [row : BOOLEAN, mal : BOOLEAN, conf : 0 .. 100]
<1>1. /\ new.conf \in 0 .. 100 /\ now.conf \in 0 .. 100 /\ new.mal \in BOOLEAN /\ now.mal \in BOOLEAN
  BY DEF Backed
<1>2. Column(old.mal, new.mal, now.mal) \in BOOLEAN /\ Column(old.conf, new.conf, now.conf) \in 0 .. 100
  BY <1>1 DEF Column
<1> QED BY <1>2 DEF Replaced

LEMMA TaskRowKeeps == ASSUME Sane, IInv, RInv, NEW t \in Workers, TaskRow(t) PROVE RInv'
<1> DEFINE todo == work[t].todo
<1>1. /\ work[t].of = Task /\ work[t].at = "lookup" /\ phase # "deleted" /\ Worker(work[t])
      /\ UNCHANGED <<status, shown, raised, phase, lookups, cut>>
  BY DEF TaskRow, RInv, Typed, Worker
<1>2. PICK v \in todo :
        /\ \E e \in Answers(v), whole \in BOOLEAN :
             observed' = [observed EXCEPT ![v] = Replaced(IF whole THEN observed[v] ELSE work[t].read[v],
                                                          IF v \in Private THEN NoVerdict ELSE Verdict(e), observed[v])]
        /\ work' = [work EXCEPT ![t] = IF todo = {v} THEN Idle ELSE [work[t] EXCEPT !.todo = todo \ {v}]]
        /\ mixed' = IF \E u \in Workers : work[u].at = "write" /\ v \in DOMAIN work[u].found
                    THEN mixed \cup {v} ELSE mixed
  BY DEF TaskRow, RInv, Typed, RowsOf, IInv, Shape, Worker
<1>3. /\ observed \in RowsOf /\ mixed \subseteq Values /\ v \in Values /\ work[t].read \in RowsOf
      /\ observed[v] \in [row : BOOLEAN, mal : BOOLEAN, conf : 0 .. 100]
  BY <1>1, <1>2 DEF Worker, RInv, Typed, RowsOf
<1>4. PICK old, new : /\ observed' = [observed EXCEPT ![v] = Replaced(old, new, observed[v])]
                      /\ old = observed[v] \/ old = work[t].read[v]
                      /\ new \in Backed
  <2>1. PICK e \in Answers(v), whole \in BOOLEAN :
          observed' = [observed EXCEPT ![v] = Replaced(IF whole THEN observed[v] ELSE work[t].read[v],
                                                       IF v \in Private THEN NoVerdict ELSE Verdict(e), observed[v])]
    BY <1>2
  <2>2. NoVerdict \in Backed
    BY DEF NoVerdict, Backed
  <2>3. (IF v \in Private THEN NoVerdict ELSE Verdict(e)) \in Backed
    BY <2>2, VerdictFacts
  <2>4. (IF whole THEN observed[v] ELSE work[t].read[v]) = observed[v]
          \/ (IF whole THEN observed[v] ELSE work[t].read[v]) = work[t].read[v]
    OBVIOUS
  <2> QED BY <2>1, <2>3, <2>4
<1>5. /\ observed'[v] = Replaced(old, new, observed[v]) /\ \A x \in Values \ {v} : observed'[x] = observed[x]
      /\ observed' = [x \in Values |-> observed'[x]]
  BY <1>3, <1>4 DEF RowsOf
<1>6. /\ observed'[v] \in [row : BOOLEAN, mal : BOOLEAN, conf : 0 .. 100]
      /\ old = observed[v] /\ observed'[v].mal = TRUE => observed'[v].conf > 0
  <2>1. Replaced(old, new, observed[v]) \in [row : BOOLEAN, mal : BOOLEAN, conf : 0 .. 100]
    BY <1>3, <1>4, ReplacedType
  <2>2. PICK now, next : now = observed[v] /\ next = observed'[v]
    OBVIOUS
  <2>3. ASSUME old = observed[v]
        PROVE  next.mal = TRUE => next.conf > 0
    <3>1. next = Replaced(now, new, now) /\ now \in [row : BOOLEAN, mal : BOOLEAN, conf : 0 .. 100] /\ new \in Backed
      BY <1>3, <1>4, <1>5, <2>2, <2>3
    <3> QED BY ONLY <3>1, ReplacedFacts
  <2> QED BY <1>5, <2>1, <2>2, <2>3
<1>7. observed' \in RowsOf
  <2>1. \A x \in Values : observed'[x] \in [row : BOOLEAN, mal : BOOLEAN, conf : 0 .. 100]
    BY <1>3, <1>5, <1>6 DEF RowsOf
  <2> QED BY <1>5, <2>1 DEF RowsOf
<1>8. mixed \subseteq mixed' /\ mixed' \subseteq Values
  BY <1>2, <1>3
<1>9. PICK w : /\ work' = [work EXCEPT ![t] = w] /\ Worker(w) /\ w.at # "write"
               /\ w.of = Task => w.todo \subseteq todo \ {v} /\ w.read = work[t].read
  <2> DEFINE less == [work[t] EXCEPT !.todo = todo \ {v}]
  <2>1. /\ less.of = Task /\ less.at = "lookup" /\ less.todo = todo \ {v} /\ less.read = work[t].read
        /\ less.found = work[t].found /\ DOMAIN less = Fields
    BY <1>1 DEF Worker, Fields
  <2> HIDE DEF less
  <2>2. Worker(less) /\ less.at # "write"
    BY <1>1, <2>1 DEF Worker, Steps
  <2>3. CASE todo = {v}
    BY <1>2, <2>3, IdleOk
  <2>4. CASE todo # {v}
    <3>1. work' = [work EXCEPT ![t] = less]
      BY <1>2, <2>4 DEF less
    <3> QED BY <2>1, <2>2, <3>1
  <2> QED BY <2>3, <2>4
<1>10. work'[t] = w /\ \A u \in Workers \ {t} : work'[u] = work[u]
  BY <1>9 DEF IInv, Shape
<1>11. Typed'
  <2>1. \A u \in Workers : Worker(work'[u])
    BY <1>9, <1>10 DEF RInv, Typed
  <2>2. Rests'
    BY <1>1 DEF RInv, Typed, Rests, Subjects
  <2> QED BY <1>7, <1>8, <2>1, <2>2
          DEF Typed, RowsOf, Rests, Worker, Fields, Steps, Backed, Values, Subjects, Task, Nobody
<1>12. \A u \in Workers \ {t} : work[u].of # Task
  BY <1>1 DEF RInv, Alone
<1>13. Alone'
  BY <1>10, <1>12 DEF Alone, Task
<1>14. \A u \in Workers : Above(work[u], observed, mixed) /\ Unread(work[u], observed, mixed) /\ Worker(work[u])
  BY <1>1 DEF RInv, Pending, Typed
<1>15. ASSUME NEW u \in Workers
       PROVE  Above(work'[u], observed', mixed') /\ Unread(work'[u], observed', mixed')
  <2>1. CASE u = t
    <3>1. Unread(w, observed', mixed')
      <4> SUFFICES ASSUME w.of = Task, NEW x \in w.todo
                   PROVE  observed'[x] = w.read[x] \/ x \in mixed'
        BY DEF Unread
      <4>1. x \in todo \ {v} /\ w.read = work[t].read /\ x \in Values
        BY <1>1, <1>9 DEF Worker
      <4>2. observed[x] = work[t].read[x] \/ x \in mixed
        BY <1>1, <1>14, <4>1 DEF Unread
      <4> QED BY <1>5, <1>8, <4>1, <4>2
    <3> QED BY <1>9, <1>10, <2>1, <3>1 DEF Above
  <2>2. CASE u # t
    <3>1. Above(work[u], observed', mixed')
      <4> SUFFICES ASSUME work[u].at = "write", NEW x \in DOMAIN work[u].found, work[u].read[x].conf > 0
                   PROVE  observed'[x].conf > 0 \/ x \in mixed'
        BY DEF Above
      <4>1. x \in Values /\ (observed[x].conf > 0 \/ x \in mixed)
        BY <1>14 DEF Above, Worker
      <4>2. CASE x = v
        BY <1>2, <4>2
      <4>3. CASE x # v
        BY <1>5, <1>8, <4>1, <4>3
      <4> QED BY <4>2, <4>3
    <3> QED BY <1>10, <1>12, <2>2, <3>1 DEF Unread
  <2> QED BY <2>1, <2>2
<1>16. Pending'
  BY <1>15 DEF Pending
<1>17. Covered'
  <2> SUFFICES ASSUME NEW x \in Values, observed'[x].mal = TRUE, x \notin mixed'
               PROVE  observed'[x].conf > 0
    BY DEF Covered, Values
  <2>1. CASE x # v
    BY <1>5, <1>8, <2>1 DEF RInv, Covered
  <2>2. CASE x = v
    <3>1. observed[v] = work[t].read[v]
      BY <1>1, <1>2, <1>8, <1>14, <2>2 DEF Unread
    <3> QED BY <1>4, <1>6, <2>2, <3>1
  <2> QED BY <2>1, <2>2
<1> QED BY <1>11, <1>13, <1>16, <1>17 DEF RInv

LEMMA OthersKeep == ASSUME Sane, IInv, RInv, Detect \/ Delete \/ Restart PROVE RInv'
<1>1. CASE Detect
  <2>1. phase = "parsed" /\ phase' = "detected" /\ UNCHANGED <<observed, status, shown, raised, work, lookups, cut, mixed>>
    BY <1>1 DEF Detect
  <2> QED BY <2>1 DEF RInv, Typed, RowsOf, Rests, Worker, Fields, Steps, Backed, Values, Subjects, Task, Nobody, Alone,
                      Pending, Above, Unread, Covered
<1>2. CASE Delete
  <2>1. /\ phase' = "deleted" /\ status' = [s \in Subjects |-> "none"] /\ shown' = [s \in Subjects |-> FALSE]
        /\ raised' = {} /\ observed' = [v \in Values |-> NoRow] /\ UNCHANGED <<work, lookups, cut, mixed>>
    BY <1>2 DEF Delete
  <2>2. NoRow \in [row : BOOLEAN, mal : BOOLEAN, conf : 0 .. 100] /\ NoRow.mal = FALSE
    BY DEF NoRow
  <2>3. observed' \in RowsOf /\ Covered'
    BY <2>1, <2>2 DEF RowsOf, Covered, Values
  <2>4. Rests'
    BY <2>1 DEF RInv, Typed, Rests, Subjects
  <2>5. \A t \in Workers : Worker(work'[t])
    BY <2>1 DEF RInv, Typed
  <2> QED BY <2>1, <2>3, <2>4, <2>5 DEF RInv, Typed, RowsOf, Rests, Worker, Fields, Steps, Backed, Values, Subjects, Task,
                                        Nobody, Alone, Pending
<1>3. CASE Restart
  <2>1. /\ work' = [t \in Workers |-> Idle] /\ cut' \subseteq Subjects
        /\ UNCHANGED <<observed, status, shown, raised, phase, lookups, mixed>>
    BY <1>3 DEF Restart, RInv, Typed, Rests
  <2>2. \A t \in Workers : work'[t] = Idle
    BY <2>1
  <2>3. Rests'
    BY <2>1 DEF RInv, Typed, Rests, Subjects
  <2>4. \A t \in Workers : Worker(work'[t])
    BY <2>2, IdleOk
  <2>5. Alone' /\ Pending'
    BY <2>2, IdleOk DEF Alone, Pending, Task
  <2> QED BY <2>1, <2>3, <2>4, <2>5 DEF RInv, Typed, RowsOf, Rests, Worker, Fields, Steps, Backed, Values, Subjects, Task,
                                        Nobody, Covered
<1> QED BY <1>1, <1>2, <1>3

LEMMA RowsNext == ASSUME Sane, IInv, RInv, [Next]_vars PROVE RInv'
<1>1. CASE UNCHANGED vars
  BY <1>1 DEF vars, RInv, Typed, RowsOf, Rests, Worker, Fields, Steps, Backed, Values, Subjects, Task, Nobody, Alone, Pending,
              Above, Unread, Covered
<1> QED BY <1>1, AskKeeps, BeginKeeps, LookupKeeps, SayKeeps, ReadKeeps, WriteKeeps, BeginTaskKeeps, TaskRowKeeps, OthersKeep
        DEF Next, Step

LEMMA RowsHold == Sane /\ Spec => [](IInv /\ RInv)
<1>1. CASE Sane
  <2>1. Init => RInv
    BY <1>1, RowsInit
  <2>2. IInv /\ RInv /\ [Next]_vars => RInv'
    BY <1>1, RowsNext
  <2> QED BY <1>1, <2>1, <2>2, InvHolds, PTL DEF Spec
<1> QED BY <1>1

(* The types, for any number of workers, subjects and indicators, whatever  *)
(* providers say: a confidence is between 0 and 100.                        *)
THEOREM TypesHold == Sane /\ Spec => []TypeOK
<1>1. RInv => TypeOK
  BY DEF RInv, Typed, Rests, RowsOf, Worker, Steps, TypeOK
<1> QED BY <1>1, RowsHold, PTL

(* A finding that shows something malicious is raised; and an observable    *)
(* that is malicious has some confidence, in whatever order investigations  *)
(* write its columns (_sync_observables), unless the enrichment task wrote  *)
(* them at the same time.                                                   *)
THEOREM SeverityIsCovered == Sane /\ Spec => []SeverityCovers
<1>1. IInv /\ RInv => SeverityCovers
  BY InvIsCovered DEF RInv, Covered, SeverityCovers
<1> QED BY <1>1, RowsHold, PTL
=============================================================================

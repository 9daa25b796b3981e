---------------------------- MODULE AlertStream ----------------------------
(***************************************************************************)
(* The alerts of a live session (alert_writer.py, base.py): the last of    *)
(* them in memory, all of them as lines of a file.  The threads that raise *)
(* alerts write them; threads of their own enrich an alert                 *)
(* (alert_enricher.py) or investigate it (live_investigation.py), and put  *)
(* what they found into its row; requests read.  A program that starts     *)
(* reads the file when alerts are first asked for, if none was written     *)
(* before.                                                                 *)
(***************************************************************************)
EXTENDS Naturals, Sequences, FiniteSets, SequencesExt

CONSTANTS Threads,     \* threads that write, patch or read
          MaxRecent,   \* MAX_RECENT (200)
          MaxAlerts,   \* bound: alerts
          MaxJobs,     \* bound: enrichments, investigations and reads
          MaxRestarts  \* bound: restarts

Sane == {MaxRecent, MaxAlerts} \subseteq Nat \ {0} /\ {MaxJobs, MaxRestarts} \subseteq Nat

VARIABLES
  recent,    \* _recent of the session: rows [id, enhanced, investigation]
  file,      \* lines of alerts_<session>.jsonl
  job,       \* job[t]: [kind, at, id, rows, place, moved, merged, was]
  alerts,    \* alerts written
  jobs, restarts,
  patched,   \* history: patched[i]: the updates of alert i that were made, "run" only
             \* until another investigation begins
  clash      \* history: alerts to whose row another thread did something in the middle of an update,
             \* or that were read from the file although memory held alerts by then

vars == <<recent, file, job, alerts, jobs, restarts, patched, clash>>

Ids     == 1 .. MaxAlerts
States  == {"none", "running", "ended"}
RowType == [id : Ids, enhanced : BOOLEAN, investigation : States]
NoRow   == [id |-> 1, enhanced |-> FALSE, investigation |-> "none"]
Kinds   == {"idle", "write", "enhance", "begin", "run", "read"}
Places  == {"idle", "line", "hydrate", "load", "fill", "find", "put", "log"}
Idle    == [kind |-> "idle", at |-> "idle", id |-> 1, rows |-> <<>>, place |-> 0, moved |-> FALSE,
            merged |-> NoRow, was |-> NoRow]

TypeOK ==
  /\ recent \in Seq(RowType)  /\ Len(recent) <= MaxRecent  /\ file \in Seq(RowType)
  /\ job \in [Threads -> [kind : Kinds, at : Places, id : Ids, rows : Seq(RowType), place : Nat, moved : BOOLEAN,
                          merged : RowType, was : RowType]]
  /\ alerts \in 0 .. MaxAlerts  /\ jobs \in 0 .. MaxJobs  /\ restarts \in 0 .. MaxRestarts
  /\ patched \in [Ids -> SUBSET {"enhance", "begin", "run"}]  /\ clash \subseteq Ids

Init ==
  /\ recent = <<>>  /\ file = <<>>
  /\ job = [t \in Threads |-> Idle]
  /\ alerts = 0  /\ jobs = 0  /\ restarts = 0
  /\ patched = [i \in Ids |-> {}]  /\ clash = {}

-----------------------------------------------------------------------------
At(t, at) == job[t].at = at
LastOf(s, n) == SubSeq(s, Len(s) - (IF Len(s) < n THEN Len(s) ELSE n) + 1, Len(s))
\* append to a deque with a maxlen; an iterator over it notices.
Appended(rows) == LastOf(recent \o rows, MaxRecent)
Noticed(t) == [d \in Threads |-> IF d # t /\ At(d, "find") THEN [job[d] EXCEPT !.moved = TRUE] ELSE job[d]]

\* write: into memory, and then a line; a disk that fails is only logged.
Write(t) ==
  /\ job[t] = Idle  /\ alerts < MaxAlerts  /\ alerts' = alerts + 1
  /\ LET row == [NoRow EXCEPT !.id = alerts + 1]
     IN /\ recent' = Appended(<<row>>)
        /\ job' = [Noticed(t) EXCEPT ![t] = [Idle EXCEPT !.kind = "write", !.at = "line", !.merged = row]]
  /\ UNCHANGED <<file, jobs, restarts, patched, clash>>
Line(t) ==
  /\ At(t, "line") \/ At(t, "log")
  /\ \E ok \in BOOLEAN : file' = IF ok THEN Append(file, job[t].merged) ELSE file
  \* An investigation goes on from its "running" to its end.
  /\ job' = [job EXCEPT ![t] = IF job[t].kind = "begin"
               THEN [Idle EXCEPT !.kind = "run", !.at = "hydrate", !.id = job[t].id] ELSE Idle]
  /\ UNCHANGED <<recent, alerts, jobs, restarts, patched, clash>>

Ask(t, kind, i) ==
  /\ job[t] = Idle  /\ jobs < MaxJobs  /\ jobs' = jobs + 1
  /\ job' = [job EXCEPT ![t] = [Idle EXCEPT !.kind = kind, !.at = "hydrate", !.id = i]]
  /\ UNCHANGED <<recent, file, alerts, restarts, patched, clash>>
\* kickoff_enhanced_alert (one for an alert), a request for an investigation of an alert that is shown, and get_since.
Enhance(t, i)     == i <= alerts /\ Ask(t, "enhance", i)
\* (one without targets is complete at once)
Investigate(t, i) == (\E r \in Range(recent) : r.id = i) /\ \E kind \in {"begin", "run"} : Ask(t, kind, i)
Read(t)           == Ask(t, "read", 1)

-----------------------------------------------------------------------------
(* _hydrate_from_file, then the search for the row, then its replacement. *)

\* Memory is looked at, then the file is read, and then its rows are appended one by one: nothing is locked.
Hydrate(t) ==
  /\ At(t, "hydrate")
  /\ job' = [job EXCEPT ![t].at = IF recent # <<>> THEN "find" ELSE "load"]
  /\ UNCHANGED <<recent, file, alerts, jobs, restarts, patched, clash>>
Load(t) ==
  /\ At(t, "load")
  /\ LET rows == LastOf(file, MaxRecent)
     IN /\ job' = [job EXCEPT ![t].at = IF rows = <<>> THEN "find" ELSE "fill", ![t].rows = rows]
        /\ clash' = clash \cup IF recent = <<>> THEN {} ELSE {row.id : row \in Range(rows)}
  /\ UNCHANGED <<recent, file, alerts, jobs, restarts, patched>>
Fill(t) ==
  /\ At(t, "fill")
  /\ LET rows == job[t].rows
     IN /\ recent' = Appended(<<Head(rows)>>)
        /\ job' = [Noticed(t) EXCEPT ![t].at = IF Len(rows) = 1 THEN "find" ELSE "fill", ![t].rows = Tail(rows)]
  /\ UNCHANGED <<file, alerts, jobs, restarts, patched, clash>>

Rebuilt(kind, row) == [NoRow EXCEPT !.id = row.id, !.enhanced = (kind = "enhance"),   \* mutant: the patch is the row
                                    !.investigation = IF kind = "enhance" THEN "none" ELSE "ended"]
Endless(kind, row) == CASE kind = "enhance" -> [row EXCEPT !.enhanced = TRUE]  \* mutant: only a start is recorded
                        [] OTHER            -> [row EXCEPT !.investigation = "running"]
Merged(kind, row) == CASE kind = "enhance" -> [row EXCEPT !.enhanced = TRUE]
                       [] kind = "begin"   -> [row EXCEPT !.investigation = "running"]
                       [] kind = "run"     -> [row EXCEPT !.investigation = "ended"]
RowsOf(i) == {n \in DOMAIN recent : recent[n].id = i}
First(ns)  == CHOOSE n \in ns : \A m \in ns : n <= m
Find(t) ==
  /\ At(t, "find")
  /\ LET i == job[t].id  kind == job[t].kind
     IN IF kind = "read" \/ RowsOf(i) = {} THEN job' = [job EXCEPT ![t] = Idle]
        ELSE LET n == First(RowsOf(i))
             IN job' = [job EXCEPT ![t].at = "put", ![t].moved = FALSE, ![t].place = n, ![t].was = recent[n],
                                   ![t].merged = Merged(kind, recent[n])]
  /\ UNCHANGED <<recent, file, alerts, jobs, restarts, patched, clash>>
\* A deque that was appended to under an iterator makes it raise: the update or the read fails.
FindRaises(t) ==
  /\ At(t, "find")  /\ job[t].moved
  /\ job' = [job EXCEPT ![t] = Idle]
  /\ clash' = clash \cup {job[t].id}
  /\ UNCHANGED <<recent, file, alerts, jobs, restarts, patched>>
Put(t) ==
  /\ At(t, "put")
  /\ LET j == job[t]
     IN /\ recent' = [recent EXCEPT ![j.place] = j.merged]
        /\ clash' = clash \cup IF recent[j.place] = j.was THEN {} ELSE {j.id, recent[j.place].id}
        /\ patched' = [patched EXCEPT ![j.id] = (IF j.kind = "begin" THEN @ \ {"run"} ELSE @) \cup {j.kind}]
  /\ job' = [job EXCEPT ![t].at = "log", ![t].place = 0, ![t].was = NoRow]
  /\ UNCHANGED <<file, alerts, jobs, restarts>>

Restart ==
  /\ restarts < MaxRestarts  /\ restarts' = restarts + 1
  /\ recent' = <<>>
  /\ job' = [t \in Threads |-> Idle]
  /\ UNCHANGED <<file, alerts, jobs, patched, clash>>

Next ==
  \/ \E t \in Threads :
       \/ Write(t) \/ Line(t) \/ Read(t) \/ Hydrate(t) \/ Load(t) \/ Fill(t)
       \/ Find(t) \/ FindRaises(t) \/ Put(t)
       \/ \E i \in Ids : Enhance(t, i) \/ Investigate(t, i)
  \/ Restart
Spec == Init /\ [][Next]_vars
-----------------------------------------------------------------------------
Shown(i) == recent[First(RowsOf(i))]
\* The row that a reader finds first has what updates have put into it.
AsPatched(i) == RowsOf(i) # {} => /\ "enhance" \in patched[i] => Shown(i).enhanced
                                  /\ "run" \in patched[i] => Shown(i).investigation = "ended"

(* Until the program restarts, a patch that was made stays in the row that  *)
(* readers find, whatever is written, dropped and patched meanwhile, unless *)
(* another thread's append or patch came into the middle of an update, or a *)
(* first write between the look at an empty memory and the reading of the   *)
(* file, whose rows then follow as second ones.                             *)
PatchesStick == \A i \in Ids : restarts = 0 => AsPatched(i) \/ i \in clash

(* An alert that is shown as being investigated is, unless the program was  *)
(* restarted, or an append or a patch came into the middle of an update or  *)
(* of the reading of the file.                                              *)
NoneLeftRunning ==
  \A i \in Ids : RowsOf(i) # {} /\ Shown(i).investigation = "running" =>
    (\E t \in Threads : job[t].kind \in {"begin", "run"} /\ job[t].id = i) \/ i \in clash \/ restarts > 0
=============================================================================

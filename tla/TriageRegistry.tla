--------------------------- MODULE TriageRegistry ---------------------------
(***************************************************************************)
(* The incident registry of live triage: triage_registry.py over the JSON  *)
(* file of incident_tracker.py.  The ML monitor thread, the LLM triage     *)
(* thread and the request threads of the dashboard all change it by        *)
(* loading the whole file, editing the list and saving it.  Load and save  *)
(* are each atomic (the file is replaced, save holds a lock); nothing      *)
(* holds a lock from the load to the save.                                 *)
(*                                                                         *)
(* One session, hence one file.  A row is its id, its connection key, its  *)
(* sources, the rank of its severity, its disposition, and whether a deep  *)
(* inspection was stored.  build_incident_row never leaves the protocol    *)
(* empty, so no key is empty and upsert's branch for that never runs: all  *)
(* alerts without addresses share one key.                                 *)
(***************************************************************************)
EXTENDS Integers, Sequences

CONSTANTS Reporters,     \* threads that upsert: the ML monitor, the LLM triage loop
          Analysts,      \* request threads: verdict and inspect
          Keys,          \* connection keys
          Reports,       \* what a reporter says: [sources, sev, disp]
          Dispositions,  \* DISPOSITIONS; contains "open"
          MaxRows,       \* MAX_INCIDENTS: 500 in the code
          MaxIds,        \* bound: rows ever built
          FileMayFail    \* may a load or a save meet an OSError?

ASSUME MaxRowsAssumption == MaxRows \in Nat \ {0}
ASSUME MaxIdsAssumption == MaxIds \in Nat
ASSUME FailAssumption == FileMayFail \in BOOLEAN
ASSUME OpenAssumption == "open" \in Dispositions

Ids     == 1 .. MaxIds
NoId    == 0
None    == "none"
ASSUME NoneAssumption == None \notin Dispositions \cup Keys

Sources    == UNION {r.sources : r \in Reports}
ReportType == [sources : SUBSET Sources, sev : Nat, disp : Dispositions]
ASSUME ReportsAssumption == Reports \subseteq ReportType

NoReport == [sources |-> {}, sev |-> 0, disp |-> "open"]
Writers  == Reporters \cup Analysts

VARIABLES
  rows,       \* the session's file, oldest incident first
  built,      \* rows built so far; the last one's id
  writer,     \* writer[w]: what thread w is doing, and the list it is about to save
  said,       \* history: said[k]: all that was ever reported for k
  due,        \* history: due[k]: what of it was saved while k has a row
  ruled,      \* history: ruled[id]: the last verdict saved for row id
  disturbed   \* history: a save overwrote a list changed since its load, or the file failed

history == <<said, due, ruled, disturbed>>
vars    == <<rows, built, writer, history>>

Idle == [at |-> "idle", list |-> <<>>, stale |-> FALSE, key |-> None, report |-> NoReport,
         id |-> NoId, disp |-> None]

Init ==
  /\ rows = <<>>  /\ built = 0
  /\ writer = [w \in Writers |-> Idle]
  /\ said = [k \in Keys |-> NoReport]  /\ due = [k \in Keys |-> NoReport]
  /\ ruled = [id \in Ids |-> None]
  /\ disturbed = FALSE

-----------------------------------------------------------------------------
(* The edits: what the list becomes between the load and the save.         *)

Higher(a, b) == IF a > b THEN a ELSE b

BuildRow(id, key, report) ==
  [id |-> id, key |-> key, sources |-> report.sources, sev |-> report.sev,
   disp |-> report.disp, deep |-> FALSE]

\* An existing row keeps its id, its place and its disposition.
MergeRules(old, new) == [old EXCEPT !.sources = @ \cup new.sources,     \* mutant: takes the new disposition
                                    !.sev = Higher(@, new.sev), !.disp = new.disp]
MergeForgets(old, new) == [old EXCEPT !.sources = new.sources,          \* mutant: forgets earlier sources
                                      !.sev = Higher(@, new.sev)]
Merge(old, new) == [old EXCEPT !.sources = @ \cup new.sources, !.sev = Higher(@, new.sev)]

\* The first row of the connection takes the new one in; without one it is appended.
AnyOpen(list, key) == {i \in 1 .. Len(list) : list[i].key = key /\ list[i].disp = "open"}   \* mutant: open rows only
AnyRow(list, key) == 1 .. Len(list)                                     \* mutant: whatever its connection
OfKey(list, key) == {i \in 1 .. Len(list) : list[i].key = key}
Upserted(list, row) ==
  LET same == OfKey(list, row.key) IN
    IF same = {} THEN Append(list, row)
    ELSE [i \in 1 .. Len(list) |-> IF i \in same /\ (\A j \in same : i <= j)
                                     THEN Merge(list[i], row) ELSE list[i]]

OfId(list, id) == {i \in 1 .. Len(list) : list[i].id = id}

\* save keeps the last MaxRows.
KeepFewer(list) == IF Len(list) < MaxRows THEN list                     \* mutant: keeps one row fewer
                                          ELSE SubSeq(list, Len(list) - MaxRows + 2, Len(list))
Trimmed(list) == IF Len(list) <= MaxRows THEN list
                                        ELSE SubSeq(list, Len(list) - MaxRows + 1, Len(list))

-----------------------------------------------------------------------------
(* upsert_incident: load and merge, then save.                             *)

With(old, report) == [old EXCEPT !.sources = @ \cup report.sources, !.sev = Higher(@, report.sev)]

\* load gives an empty list for a file it cannot read.
Load(failed) == IF failed THEN <<>> ELSE rows

Report(w, key, report) ==
  /\ writer[w].at = "idle"  /\ built < MaxIds
  /\ built' = built + 1
  /\ \E failed \in {FALSE, FileMayFail} :
       writer' = [writer EXCEPT ![w] =
         [Idle EXCEPT !.at = "save", !.list = Upserted(Load(failed), BuildRow(built + 1, key, report)),
                      !.stale = failed, !.key = key, !.report = report]]
  /\ said' = [said EXCEPT ![key] = With(@, report)]
  /\ UNCHANGED <<rows, due, ruled, disturbed>>

(* set_verdict: update_incident loads the list again and patches the row,  *)
(* if it is still there.  A disposition it does not know becomes "open".   *)

Ruling(asked) == IF asked \in Dispositions THEN asked ELSE "open"

Verdict(w, id, asked) ==
  /\ writer[w].at = "idle"
  /\ \E i \in OfId(rows, id) :
       writer' = [writer EXCEPT ![w] =
         [Idle EXCEPT !.at = "save", !.list = [rows EXCEPT ![i].disp = Ruling(asked)],
                      !.id = id, !.disp = Ruling(asked)]]
  /\ UNCHANGED <<rows, built, history>>

\* inspect reads the row, spends an LLM call on it, and only then loads the list
\* that it patches and saves.
BeginInspect(w, id) ==
  /\ writer[w].at = "idle"
  /\ OfId(rows, id) # {}
  /\ writer' = [writer EXCEPT ![w] = [Idle EXCEPT !.at = "llm", !.id = id]]
  /\ UNCHANGED <<rows, built, history>>
EndInspect(w) ==
  /\ writer[w].at = "llm"
  /\ \/ writer' = [writer EXCEPT ![w] = Idle]                        \* the models gave nothing, or the row is gone
     \/ \E i \in OfId(rows, writer[w].id) :
          writer' = [writer EXCEPT ![w].at = "save", ![w].list = [rows EXCEPT ![i].deep = TRUE]]
  /\ UNCHANGED <<rows, built, history>>

-----------------------------------------------------------------------------
\* What a save settles, for the history: a connection trimmed away owes nothing.
KeysOf(list) == {list[i].key : i \in 1 .. Len(list)}
Settle(w, saved) ==
  /\ due' = [k \in Keys |->
       IF k \in KeysOf(writer[w].list) \ KeysOf(saved) THEN NoReport
       ELSE IF k = writer[w].key THEN With(due[k], writer[w].report) ELSE due[k]]
  /\ ruled' = IF writer[w].disp = None THEN ruled ELSE [ruled EXCEPT ![writer[w].id] = writer[w].disp]

Save(w) ==
  /\ writer[w].at = "save"
  /\ rows' = Trimmed(writer[w].list)
  /\ writer' = [x \in Writers |-> IF x = w THEN Idle
                                  ELSE IF writer[x].at = "save" THEN [writer[x] EXCEPT !.stale = TRUE]
                                  ELSE writer[x]]
  /\ disturbed' = (disturbed \/ writer[w].stale)
  /\ Settle(w, rows')
  /\ UNCHANGED <<built, said>>
\* A failed save is logged and the caller told nothing.
SaveFails(w) ==
  /\ FileMayFail  /\ writer[w].at = "save"
  /\ writer' = [writer EXCEPT ![w] = Idle]
  /\ disturbed' = TRUE
  /\ UNCHANGED <<rows, built, said, due, ruled>>

-----------------------------------------------------------------------------
Next ==
  \/ \E w \in Reporters, k \in Keys, r \in Reports : Report(w, k, r)
  \/ \E w \in Analysts, id \in Ids : \/ \E d \in Dispositions \cup {"unknown"} : Verdict(w, id, d)
                                     \/ BeginInspect(w, id)
  \/ \E w \in Analysts : EndInspect(w)
  \/ \E w \in Writers : Save(w) \/ SaveFails(w)

Spec == Init /\ [][Next]_vars

-----------------------------------------------------------------------------
Row == [id : Ids, key : Keys, sources : SUBSET Sources, sev : Nat, disp : Dispositions, deep : BOOLEAN]

WriterStates == [at : {"idle", "save", "llm"}, list : Seq(Row), stale : BOOLEAN, key : Keys \cup {None},
                 report : ReportType, id : Ids \cup {NoId}, disp : Dispositions \cup {None}]

TypeOK ==
  /\ rows \in Seq(Row)  /\ Len(rows) <= MaxRows
  /\ built \in 0 .. MaxIds
  /\ writer \in [Writers -> WriterStates]
  /\ said \in [Keys -> ReportType]  /\ due \in [Keys -> ReportType]
  /\ ruled \in [Ids -> Dispositions \cup {None}]
  /\ disturbed \in BOOLEAN

Distinct(list) == \A i, j \in 1 .. Len(list) :
  list[i].key = list[j].key \/ list[i].id = list[j].id => i = j

\* However the writers overlap, a connection has one row and an id names one row.
UniqueRows == Distinct(rows)

\* However they overlap, no row shows a source or a severity that nobody ever
\* reported for its connection.
NothingInvented == \A i \in 1 .. Len(rows) :
  rows[i].sources \subseteq said[rows[i].key].sources /\ rows[i].sev <= said[rows[i].key].sev

Kept(k) == \E i \in 1 .. Len(rows) :
  rows[i].key = k /\ due[k].sources \subseteq rows[i].sources /\ due[k].sev <= rows[i].sev
Reported(k) == due[k].sources # {}

\* Unless two writers overlap or the file fails, all that was reported for a
\* connection stays in its row, until the row is pushed out.
ReportsKept == ~disturbed => \A k \in Keys : Reported(k) => Kept(k)

\* ... and a verdict stands, whatever is reported later, until the next verdict.
VerdictStands == ~disturbed => \A i \in 1 .. Len(rows) :
  ruled[rows[i].id] # None => rows[i].disp = ruled[rows[i].id]

\* ... and an incident leaves only a full registry, and then the first one in it.
OnlyOldestLeaves == [][~disturbed' =>
  \A i \in 1 .. Len(rows) : OfId(rows', rows[i].id) = {} => i = 1 /\ Len(rows) = MaxRows]_vars

\* docs/NIDS_SETUP.md:154: "All outcomes are logged (suspicious and cleared/benign
\* rows)": what the LLM triage said of a connection is in its row.
AllOutcomesLogged == \A k \in Keys : "llm" \in due[k].sources => Kept(k)
=============================================================================

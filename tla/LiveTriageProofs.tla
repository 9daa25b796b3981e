--------------------------- MODULE LiveTriageProofs ---------------------------
(***************************************************************************)
(* Proofs about live triage, for every number of threads, connections and  *)
(* rows, and however loads and saves overlap or fail: the registry has one *)
(* row per connection and no two rows with one id, never more than MaxRows *)
(* of them, and what the rows say is what was reported and ruled.  And for *)
(* a turn of the loop what TriageTurnProofs proves, and of the windows of  *)
(* the heuristics that they find the bursts there are.                     *)
(*                                                                         *)
(* The argument: a list that a thread is about to save was a good list     *)
(* when it was loaded and every edit keeps it good, so that the invariant  *)
(* has to speak of those lists as well as of the file; ids stay apart      *)
(* because two threads never build a row with the same id.  Of a list that *)
(* no save has overtaken it says more: what it makes of the rows that are  *)
(* still those it was loaded from.                                         *)
(***************************************************************************)
EXTENDS MCLiveTriage, SequenceTheorems, FiniteSetTheorems, WellFoundedInduction, TLAPS

\* A list whose rows are typed, distinct, and were all built by now.
Good(list, n) ==
  /\ list \in Seq(Row)
  /\ Distinct(list)
  /\ \A i \in 1 .. Len(list) : list[i].id <= n

RegistryInv ==
  /\ built \in 0 .. MaxIds
  /\ Good(rows, built)  /\ Len(rows) <= MaxRows
  /\ writer \in [Writers -> WriterStates]
  /\ \A w \in Writers : Good(writer[w].list, built)

-----------------------------------------------------------------------------
(* What the edits keep.                                                    *)

LEMMA EmptyGood == ASSUME NEW n \in Nat PROVE Good(<<>>, n)
  BY DEF Good, Distinct

LEMMA IdsBounded ==
  ASSUME NEW list, NEW n \in Nat, Good(list, n), NEW i \in 1 .. Len(list)
  PROVE  list[i] \in Row /\ list[i].id \in Nat /\ list[i].id <= n
  <1>1. list[i] \in Row
    BY ElementOfSeq DEF Good
  <1>2. list[i].id \in Nat
    BY <1>1 DEF Row, Ids
  <1>. QED BY <1>1, <1>2 DEF Good

LEMMA GoodLater ==
  ASSUME NEW list, NEW n \in Nat, Good(list, n)
  PROVE  Good(list, n + 1)
  <1>1. \A i \in 1 .. Len(list) : list[i].id <= n + 1
    <2> SUFFICES ASSUME NEW i \in 1 .. Len(list)
                 PROVE  list[i].id <= n + 1
      OBVIOUS
    <2>1. list[i].id \in Nat /\ list[i].id <= n
      BY IdsBounded
    <2>. QED BY <2>1
  <1>. QED BY <1>1 DEF Good

\* A list with the same keys and ids in the same places is as good.
LEMMA SameIdentity ==
  ASSUME NEW list, NEW n \in Nat, Good(list, n), NEW new \in Seq(Row), Len(new) = Len(list),
         \A i \in 1 .. Len(list) : new[i].key = list[i].key /\ new[i].id = list[i].id
  PROVE  Good(new, n)
  BY DEF Good, Distinct

LEMMA MergeType ==
  ASSUME NEW old \in Row, NEW new \in Row
  PROVE  Merge(old, new) \in Row /\ Merge(old, new).key = old.key /\ Merge(old, new).id = old.id
  BY DEF Merge, Row, Higher

LEMMA UpsertGood ==
  ASSUME NEW list, NEW n \in Nat, Good(list, n), NEW item \in Row, item.id = n + 1
  PROVE  Good(Upserted(list, item), n + 1)
  <1> DEFINE same == OfKey(list, item.key)
             new == Upserted(list, item)
  <1>0. list \in Seq(Row) /\ Len(list) \in Nat
    BY LenProperties DEF Good
  <1>1. CASE same = {}
    <2>1. new = Append(list, item)
      BY <1>1 DEF Upserted
    <2>2. /\ new \in Seq(Row)  /\ Len(new) = Len(list) + 1
          /\ \A i \in 1 .. Len(list) : new[i] = list[i]
          /\ new[Len(list) + 1] = item
      BY <1>0, <2>1
    <2>3. ASSUME NEW i \in 1 .. Len(list)
          PROVE  list[i].key # item.key /\ list[i].id # item.id /\ list[i].id <= n + 1
      <3>1. list[i].id \in Nat /\ list[i].id <= n
        BY IdsBounded
      <3>. QED BY <1>1, <3>1 DEF OfKey
    <2>4. Distinct(new)
      <3> SUFFICES ASSUME NEW i \in 1 .. Len(new), NEW j \in 1 .. Len(new),
                          new[i].key = new[j].key \/ new[i].id = new[j].id
                   PROVE  i = j
        BY DEF Distinct
      <3>1. CASE i \in 1 .. Len(list) /\ j \in 1 .. Len(list)
        BY <3>1, <2>2 DEF Good, Distinct
      <3>2. CASE i = Len(list) + 1 /\ j \in 1 .. Len(list)
        BY <3>2, <2>2, <2>3
      <3>3. CASE i \in 1 .. Len(list) /\ j = Len(list) + 1
        BY <3>3, <2>2, <2>3
      <3>. QED BY <3>1, <3>2, <3>3, <1>0, <2>2
    <2>5. \A i \in 1 .. Len(new) : new[i].id <= n + 1
      <3> SUFFICES ASSUME NEW i \in 1 .. Len(new)
                   PROVE  new[i].id <= n + 1
        OBVIOUS
      <3>1. CASE i \in 1 .. Len(list)
        BY <3>1, <2>2, <2>3
      <3>2. CASE i = Len(list) + 1
        BY <3>2, <2>2
      <3>. QED BY <1>0, <2>2, <3>1, <3>2
    <2>. QED BY <2>2, <2>4, <2>5 DEF Good
  <1>2. CASE same # {}
    <2> DEFINE entry(i) == IF i \in same /\ (\A j \in same : i <= j) THEN Merge(list[i], item) ELSE list[i]
    <2>1. new = [i \in 1 .. Len(list) |-> entry(i)]
      BY <1>2 DEF Upserted
    <2>2. \A i \in 1 .. Len(list) : /\ entry(i) \in Row
                                    /\ entry(i).key = list[i].key
                                    /\ entry(i).id = list[i].id
      BY <1>0, MergeType, ElementOfSeq
    <2> HIDE DEF entry
    <2>3. new \in Seq(Row)
      BY <1>0, <2>1, <2>2, SeqDef
    <2>4. Len(new) = Len(list)
      BY <1>0, <2>1
    <2>5. Good(new, n)
      BY <2>1, <2>2, <2>3, <2>4, SameIdentity
    <2>. QED BY <2>5, GoodLater
  <1>. QED BY <1>1, <1>2

\* A verdict and an inspection change neither key nor id.
LEMMA PatchGood ==
  ASSUME NEW list, NEW n \in Nat, Good(list, n), NEW i \in 1 .. Len(list), NEW d \in Dispositions
  PROVE  Good([list EXCEPT ![i].disp = d], n) /\ Good([list EXCEPT ![i].deep = TRUE], n)
  <1>1. list \in Seq(Row) /\ list[i] \in Row
    BY ElementOfSeq DEF Good
  <1>2. ASSUME NEW r \in Row, r.key = list[i].key, r.id = list[i].id
        PROVE  Good([list EXCEPT ![i] = r], n)
    <2>1. /\ [list EXCEPT ![i] = r] \in Seq(Row)
          /\ Len([list EXCEPT ![i] = r]) = Len(list)
          /\ \A j \in 1 .. Len(list) : [list EXCEPT ![i] = r][j] = IF j = i THEN r ELSE list[j]
      BY <1>1, ExceptSeq
    <2>. QED BY <1>2, <2>1, SameIdentity
  <1>3. /\ [list[i] EXCEPT !.disp = d] \in Row
        /\ [list[i] EXCEPT !.disp = d].key = list[i].key
        /\ [list[i] EXCEPT !.disp = d].id = list[i].id
    BY <1>1 DEF Row
  <1>4. /\ [list[i] EXCEPT !.deep = TRUE] \in Row
        /\ [list[i] EXCEPT !.deep = TRUE].key = list[i].key
        /\ [list[i] EXCEPT !.deep = TRUE].id = list[i].id
    BY <1>1 DEF Row
  <1>. QED BY <1>2, <1>3, <1>4

LEMMA TrimGood ==
  ASSUME NEW list, NEW n \in Nat, Good(list, n)
  PROVE  Good(Trimmed(list), n) /\ Len(Trimmed(list)) <= MaxRows
  <1>0. list \in Seq(Row) /\ Len(list) \in Nat
    BY LenProperties DEF Good
  <1>1. CASE Len(list) <= MaxRows
    BY <1>1 DEF Trimmed
  <1>2. CASE ~(Len(list) <= MaxRows)
    <2> DEFINE from == Len(list) - MaxRows
               new == SubSeq(list, from + 1, Len(list))
    <2>1. from \in Nat /\ from + 1 \in 1 .. Len(list) /\ MaxRows = Len(list) - from
      BY <1>0, <1>2, MaxRowsAssumption
    <2>2. \A i \in from + 1 .. Len(list) : list[i] \in Row
      BY <1>0, <2>1, ElementOfSeq
    <2>3. new \in Seq(Row) /\ Len(new) = MaxRows
      BY <1>0, <2>1, <2>2, SubSeqProperties
    <2>4. \A i \in 1 .. MaxRows : from + i \in 1 .. Len(list) /\ new[i] = list[from + i]
      BY <1>0, <2>1
    <2>5. Distinct(new)
      <3> SUFFICES ASSUME NEW i \in 1 .. MaxRows, NEW j \in 1 .. MaxRows,
                          new[i].key = new[j].key \/ new[i].id = new[j].id
                   PROVE  i = j
        BY <2>3 DEF Distinct
      <3>1. from + i \in 1 .. Len(list) /\ from + j \in 1 .. Len(list)
        BY <2>4
      <3>2. new[i] = list[from + i] /\ new[j] = list[from + j]
        BY <2>4
      <3> HIDE DEF new
      <3>3. list[from + i].key = list[from + j].key \/ list[from + i].id = list[from + j].id
        BY <3>2
      <3>4. from + i = from + j
        BY <3>1, <3>3 DEF Good, Distinct
      <3>. QED BY <2>1, <3>4, MaxRowsAssumption
    <2>6. \A i \in 1 .. Len(new) : new[i].id <= n
      BY <2>3, <2>4 DEF Good
    <2>7. Trimmed(list) = new
      BY <1>2 DEF Trimmed
    <2>8. Good(new, n)
      BY <2>3, <2>5, <2>6 DEF Good
    <2>. QED BY <2>3, <2>7, <2>8, MaxRowsAssumption
  <1>. QED BY <1>1, <1>2

-----------------------------------------------------------------------------
LEMMA IdleType == Idle \in WriterStates /\ Idle.list = <<>>
  BY OpenAssumption DEF Idle, WriterStates, ReportType, NoReport

LEMMA RegistryInit == Init => RegistryInv
  <1> SUFFICES ASSUME Init
               PROVE  RegistryInv
    OBVIOUS
  <1>1. rows = <<>> /\ built = 0 /\ writer = [w \in Writers |-> Idle]
    BY DEF Init
  <1>. QED BY <1>1, IdleType, EmptyGood, MaxIdsAssumption, MaxRowsAssumption DEF RegistryInv

\* What one thread does leaves the others' lists alone.
LEMMA WriterMoves ==
  ASSUME RegistryInv, NEW w \in Writers, NEW state \in WriterStates, Good(state.list, built),
         writer' = [writer EXCEPT ![w] = state], UNCHANGED <<rows, built>>
  PROVE  RegistryInv'
  BY DEF RegistryInv

LEMMA ReportKeeps ==
  ASSUME RegistryInv, NEW w \in Reporters, NEW k \in Keys, NEW r \in Reports, Report(w, k, r)
  PROVE  RegistryInv'
  <1> DEFINE item == BuildRow(built + 1, k, r)
             state(failed) == [Idle EXCEPT !.at = "save", !.list = Upserted(Load(failed), item),
                                           !.stale = failed, !.key = k, !.report = r]
  <1>1. PICK failed \in BOOLEAN : writer' = [writer EXCEPT ![w] = state(failed)]
    <2>1. PICK f \in {FALSE, FileMayFail} : writer' = [writer EXCEPT ![w] = state(f)]
      BY DEF Report
    <2>. QED BY <2>1, FailAssumption
  <1>2. built \in Nat /\ built + 1 \in Ids /\ built' = built + 1 /\ rows' = rows
    BY MaxIdsAssumption DEF RegistryInv, Report, Ids
  <1>3. r \in ReportType
    BY ReportsAssumption
  <1>4. item \in Row /\ item.id = built + 1
    BY <1>2, <1>3 DEF BuildRow, Row, ReportType
  <1>5. Good(Load(failed), built)
    BY <1>2, EmptyGood DEF Load, RegistryInv
  <1>6. Good(Upserted(Load(failed), item), built + 1)
    BY <1>2, <1>4, <1>5, UpsertGood
  <1>7. state(failed) \in WriterStates /\ state(failed).list = Upserted(Load(failed), item)
    BY <1>3, <1>6, OpenAssumption DEF Good, Idle, WriterStates
  <1>8. w \in Writers
    BY DEF Writers
  <1>9. Good(rows, built + 1) /\ \A x \in Writers : Good(writer[x].list, built + 1)
    BY <1>2, GoodLater DEF RegistryInv
  <1>10. built + 1 \in 0 .. MaxIds
    BY <1>2 DEF Ids
  <1>. QED BY <1>1, <1>2, <1>6, <1>7, <1>8, <1>9, <1>10 DEF RegistryInv

LEMMA VerdictKeeps ==
  ASSUME RegistryInv, NEW w \in Analysts, NEW id \in Ids, NEW asked, Verdict(w, id, asked)
  PROVE  RegistryInv'
  <1> DEFINE state(i) == [Idle EXCEPT !.at = "save", !.list = [rows EXCEPT ![i].disp = Ruling(asked)],
                                      !.id = id, !.disp = Ruling(asked)]
  <1>1. PICK i \in OfId(rows, id) : writer' = [writer EXCEPT ![w] = state(i)]
    BY DEF Verdict
  <1>2. Ruling(asked) \in Dispositions
    BY OpenAssumption DEF Ruling
  <1>3. Good([rows EXCEPT ![i].disp = Ruling(asked)], built)
    <2>1. built \in Nat /\ Good(rows, built) /\ i \in 1 .. Len(rows)
      BY MaxIdsAssumption DEF RegistryInv, OfId
    <2>. QED BY <1>2, <2>1, PatchGood
  <1>4. state(i) \in WriterStates /\ Good(state(i).list, built)
    BY <1>2, <1>3, OpenAssumption DEF Good, Idle, WriterStates, ReportType, NoReport
  <1>5. w \in Writers /\ UNCHANGED <<rows, built>>
    BY DEF Writers, Verdict
  <1>. QED BY <1>1, <1>4, <1>5, WriterMoves

LEMMA InspectKeeps ==
  ASSUME RegistryInv, NEW w \in Analysts, (\E id \in Ids : BeginInspect(w, id)) \/ EndInspect(w)
  PROVE  RegistryInv'
  <1>0. /\ w \in Writers /\ UNCHANGED <<rows, built>>  /\ built \in Nat
        /\ writer[w] \in WriterStates  /\ Idle \in WriterStates
    <2>1. w \in Writers /\ UNCHANGED <<rows, built>>
      BY DEF Writers, BeginInspect, EndInspect
    <2>2. built \in Nat /\ writer[w] \in WriterStates
      BY <2>1, MaxIdsAssumption DEF RegistryInv
    <2>. QED BY <2>1, <2>2, IdleType
  <1>1. ASSUME NEW id \in Ids, BeginInspect(w, id)
        PROVE  RegistryInv'
    <2> DEFINE state == [Idle EXCEPT !.at = "llm", !.id = id]
    <2>1. writer' = [writer EXCEPT ![w] = state]
      BY <1>1 DEF BeginInspect
    <2>2. state \in WriterStates /\ state.list = <<>>
      BY IdleType DEF Idle, WriterStates
    <2>3. Good(state.list, built)
      BY <1>0, <2>2, EmptyGood
    <2>. QED BY <1>0, <2>1, <2>2, <2>3, WriterMoves
  <1>2. CASE writer' = [writer EXCEPT ![w] = Idle]
    <2>1. Good(Idle.list, built)
      BY <1>0, EmptyGood DEF Idle
    <2>. QED BY <1>0, <1>2, <2>1, WriterMoves
  <1>3. ASSUME NEW i \in OfId(rows, writer[w].id),
               writer' = [writer EXCEPT ![w].at = "save", ![w].list = [rows EXCEPT ![i].deep = TRUE]]
        PROVE  RegistryInv'
    <2> DEFINE state == [[writer[w] EXCEPT !.at = "save"] EXCEPT !.list = [rows EXCEPT ![i].deep = TRUE]]
    <2>1. Good([rows EXCEPT ![i].deep = TRUE], built)
      BY <1>0, PatchGood, OpenAssumption DEF RegistryInv, OfId
    <2>2. state \in WriterStates /\ state.list = [rows EXCEPT ![i].deep = TRUE]
      BY <1>0, <2>1 DEF Good, WriterStates
    <2>3. writer' = [writer EXCEPT ![w] = state]
      BY <1>0, <1>3 DEF RegistryInv, WriterStates
    <2>4. Good(state.list, built)
      BY <2>1, <2>2
    <2>. QED BY <1>0, <2>2, <2>3, <2>4, WriterMoves
  <1>. QED BY <1>1, <1>2, <1>3 DEF EndInspect

LEMMA SaveKeeps ==
  ASSUME RegistryInv, NEW w \in Writers, Save(w) \/ SaveFails(w)
  PROVE  RegistryInv'
  <1>0. built \in Nat /\ built' = built /\ Idle \in WriterStates /\ Idle.list = <<>>
    BY IdleType, MaxIdsAssumption DEF Save, SaveFails, RegistryInv
  <1>1. CASE Save(w)
    <2> DEFINE next(x) == IF x = w THEN Idle
                          ELSE IF writer[x].at = "save" THEN [writer[x] EXCEPT !.stale = TRUE]
                          ELSE writer[x]
    <2>1. rows' = Trimmed(writer[w].list) /\ writer' = [x \in Writers |-> next(x)]
      BY <1>1 DEF Save
    <2>2. Good(rows', built) /\ Len(rows') <= MaxRows
      BY <1>0, <2>1, TrimGood DEF RegistryInv
    <2>3. \A x \in Writers : next(x) \in WriterStates /\ (next(x).list = <<>> \/ next(x).list = writer[x].list)
      BY <1>0 DEF RegistryInv, WriterStates
    <2> HIDE DEF next
    <2>4. writer' \in [Writers -> WriterStates]
      BY <2>1, <2>3
    <2>5. \A x \in Writers : Good(writer'[x].list, built)
      BY <1>0, <2>1, <2>3, EmptyGood DEF RegistryInv
    <2>. QED BY <1>0, <2>2, <2>4, <2>5 DEF RegistryInv
  <1>2. CASE SaveFails(w)
    BY <1>0, <1>2, EmptyGood, WriterMoves DEF SaveFails
  <1>. QED BY <1>1, <1>2

LEMMA RegistryStep == RegistryInv /\ [Next]_vars => RegistryInv'
  <1> SUFFICES ASSUME RegistryInv, [Next]_vars
               PROVE  RegistryInv'
    OBVIOUS
  <1>1. CASE UNCHANGED vars
    BY <1>1 DEF vars, RegistryInv
  <1>. QED BY <1>1, ReportKeeps, VerdictKeeps, InspectKeeps, SaveKeeps DEF Next

\* However loads and saves overlap and fail, a connection has one row and an id
\* names one row: the lost update of the registry never splits an incident.
THEOREM RowsAreUnique == Spec => []UniqueRows
  <1>1. RegistryInv => UniqueRows
    BY DEF RegistryInv, Good, UniqueRows
  <1>. QED BY <1>1, RegistryInit, RegistryStep, PTL DEF Spec
-----------------------------------------------------------------------------
(* The types, of the history, too.                                         *)

HistoryType ==
  /\ said \in [Keys -> ReportType]  /\ due \in [Keys -> ReportType]
  /\ ruled \in [Ids -> Dispositions \cup {None}]
  /\ disturbed \in BOOLEAN

LEMMA WithType == ASSUME NEW old \in ReportType, NEW report \in ReportType PROVE With(old, report) \in ReportType
  BY DEF With, ReportType, Higher

LEMMA HistoryInit == Init => HistoryType
  <1>1. NoReport \in ReportType
    BY OpenAssumption DEF NoReport, ReportType
  <1>. QED BY <1>1 DEF Init, HistoryType

LEMMA HistorySave ==
  ASSUME RegistryInv, HistoryType, NEW w \in Writers, Save(w)
  PROVE  HistoryType'
  <1>1. writer[w] \in WriterStates
    BY DEF RegistryInv
  <1>2. writer[w].stale \in BOOLEAN /\ writer[w].report \in ReportType /\ writer[w].disp \in Dispositions \cup {None}
    BY <1>1 DEF WriterStates
  <1>3. NoReport \in ReportType
    BY OpenAssumption DEF NoReport, ReportType
  <1>4. \A k \in Keys : due[k] \in ReportType /\ With(due[k], writer[w].report) \in ReportType
    BY <1>2, WithType DEF HistoryType
  <1>5. due' \in [Keys -> ReportType]
    BY <1>3, <1>4 DEF Save, Settle
  <1>6. ruled' \in [Ids -> Dispositions \cup {None}]
    BY <1>2 DEF Save, Settle, HistoryType
  <1>7. disturbed' \in BOOLEAN /\ said' = said
    BY <1>2 DEF Save, HistoryType
  <1>. QED BY <1>5, <1>6, <1>7 DEF HistoryType

LEMMA HistoryStep == RegistryInv /\ HistoryType /\ [Next]_vars => HistoryType'
  <1> SUFFICES ASSUME RegistryInv, HistoryType, [Next]_vars
               PROVE  HistoryType'
    OBVIOUS
  <1>1. ASSUME NEW w \in Reporters, NEW k \in Keys, NEW r \in Reports, Report(w, k, r)
        PROVE  HistoryType'
    <2>1. With(said[k], r) \in ReportType
      BY ReportsAssumption, WithType DEF HistoryType
    <2>. QED BY <1>1, <2>1 DEF Report, HistoryType
  <1>2. ASSUME NEW w \in Writers, Save(w)
        PROVE  HistoryType'
    BY <1>2, HistorySave
  <1>3. ASSUME NEW w \in Writers, SaveFails(w)
        PROVE  HistoryType'
    BY <1>3 DEF SaveFails, HistoryType
  <1>4. CASE UNCHANGED history
    BY <1>4 DEF history, HistoryType
  <1>. QED BY <1>1, <1>2, <1>3, <1>4 DEF Next, Verdict, BeginInspect, EndInspect, vars, history

\* The registry keeps its types and its bound, for any number of threads and connections.
THEOREM TypesHold == Spec => []TypeOK
  <1>1. RegistryInv /\ HistoryType => TypeOK
    BY DEF RegistryInv, HistoryType, TypeOK, Good
  <1>. QED BY <1>1, RegistryInit, RegistryStep, HistoryInit, HistoryStep, PTL DEF Spec
-----------------------------------------------------------------------------
(* What the rows say: nothing that was not reported; and, as long as no     *)
(* save overwrote another, all that was, with the verdicts.                 *)

\* A list whose rows say no more than s has of their connections.
Backed(list, s) == \A i \in 1 .. Len(list) :
  list[i].sources \subseteq s[list[i].key].sources /\ list[i].sev <= s[list[i].key].sev

\* What a list that is about to be saved makes of the rows it was loaded from: the same
\* connections and ids in the same places, perhaps one more, nothing that was said taken
\* back, the one verdict, if it is one, and the report, if it is one.
EditOf(list, old, st, verdicts) ==
  /\ Len(list) \in {Len(old), Len(old) + 1}
  /\ \A i \in 1 .. Len(old) :
       /\ list[i].key = old[i].key  /\ list[i].id = old[i].id
       /\ old[i].sources \subseteq list[i].sources  /\ old[i].sev <= list[i].sev
       /\ list[i].disp = IF st.disp # None /\ old[i].id = st.id THEN st.disp ELSE old[i].disp
  /\ Len(list) = Len(old) + 1 => st.disp = None /\ verdicts[list[Len(list)].id] = None
  /\ st.key \in Keys => \E i \in 1 .. Len(list) :
       list[i].key = st.key /\ st.report.sources \subseteq list[i].sources /\ st.report.sev <= list[i].sev
  /\ st.key \notin Keys => Len(list) = Len(old)

Current(w) == writer[w].at = "save" /\ ~writer[w].stale => EditOf(writer[w].list, rows, writer[w], ruled)
Owes(k)    == due[k].sources # {} \/ due[k].sev > 0

SayingInv ==
  /\ Backed(rows, said)  /\ \A w \in Writers : Backed(writer[w].list, said)
  /\ \A w \in Writers : Current(w) /\ writer[w].id <= built
  /\ \A w \in Writers : writer[w].at = "llm" => writer[w].key = None /\ writer[w].disp = None
  /\ \A id \in Ids : ruled[id] # None => id <= built
  /\ ~disturbed => \A k \in Keys : Owes(k) => Kept(k)
  /\ VerdictStands

HistoryInv == RegistryInv /\ HistoryType /\ SayingInv

(* The edits.                                                               *)

LEMMA RowFields ==
  ASSUME NEW list \in Seq(Row), NEW i \in 1 .. Len(list)
  PROVE  /\ list[i] \in Row  /\ list[i].key \in Keys  /\ list[i].sources \subseteq Sources  /\ list[i].sev \in Nat
         /\ list[i].disp \in Dispositions  /\ list[i].id \in Ids
<1>1. list[i] \in Row
  BY ElementOfSeq
<1> QED BY <1>1 DEF Row

LEMMA MergeSays ==
  ASSUME NEW old \in Row, NEW new \in Row
  PROVE  LET both == Merge(old, new) IN
         /\ both.sources = old.sources \cup new.sources  /\ both.disp = old.disp
         /\ old.sev <= both.sev  /\ new.sev <= both.sev  /\ both.sev \in {old.sev, new.sev}
BY DEF Merge, Row, Higher

\* The list an upsert makes: what it keeps, where the report is, and what the rows say.
LEMMA UpsertSays ==
  ASSUME NEW list, NEW n \in Nat, Good(list, n), NEW item \in Row
  PROVE  LET new == Upserted(list, item) IN
         /\ Len(new) \in {Len(list), Len(list) + 1}
         /\ \A i \in 1 .. Len(list) :
              /\ new[i].key = list[i].key  /\ new[i].id = list[i].id  /\ new[i].disp = list[i].disp
              /\ list[i].sources \subseteq new[i].sources  /\ list[i].sev <= new[i].sev
              /\ new[i] = list[i] \/ (/\ list[i].key = item.key  /\ new[i].sources = list[i].sources \cup item.sources
                                      /\ new[i].sev \in {list[i].sev, item.sev})
         /\ Len(new) = Len(list) + 1 => new[Len(new)] = item
         /\ \E i \in 1 .. Len(new) :
              new[i].key = item.key /\ item.sources \subseteq new[i].sources /\ item.sev <= new[i].sev
<1> DEFINE same == OfKey(list, item.key)
           new == Upserted(list, item)
<1>0. list \in Seq(Row) /\ Len(list) \in Nat
  BY LenProperties DEF Good
<1>00. item.sev \in Nat
  BY DEF Row
<1>1. CASE same = {}
  <2>1. new = Append(list, item)
    BY <1>1 DEF Upserted
  <2>2. /\ Len(new) = Len(list) + 1  /\ new[Len(list) + 1] = item
        /\ \A i \in 1 .. Len(list) : new[i] = list[i]
    BY <1>0, <2>1
  <2>3. \A i \in 1 .. Len(list) : list[i].sev \in Nat
    BY <1>0, RowFields
  <2> HIDE DEF new
  <2>4. Len(list) + 1 \in 1 .. Len(new)
    BY <1>0, <2>2
  <2>5. \E i \in 1 .. Len(new) : new[i].key = item.key /\ item.sources \subseteq new[i].sources /\ item.sev <= new[i].sev
    BY <1>00, <2>2, <2>4
  <2>6. \A i \in 1 .. Len(list) :
              /\ new[i].key = list[i].key  /\ new[i].id = list[i].id  /\ new[i].disp = list[i].disp
              /\ list[i].sources \subseteq new[i].sources  /\ list[i].sev <= new[i].sev  /\ new[i] = list[i]
    BY <2>2, <2>3
  <2> QED BY <2>2, <2>5, <2>6 DEF new
<1>2. CASE same # {}
  <2> DEFINE entry(i) == IF i \in same /\ (\A j \in same : i <= j) THEN Merge(list[i], item) ELSE list[i]
  <2>1. new = [i \in 1 .. Len(list) |-> entry(i)]
    BY <1>2 DEF Upserted
  <2>2. Len(new) = Len(list) /\ \A i \in 1 .. Len(list) : new[i] = entry(i)
    BY <1>0, <2>1
  <2>3. ASSUME NEW i \in 1 .. Len(list)
        PROVE  /\ entry(i).key = list[i].key  /\ entry(i).id = list[i].id  /\ entry(i).disp = list[i].disp
               /\ list[i].sources \subseteq entry(i).sources  /\ list[i].sev <= entry(i).sev
               /\ entry(i) = list[i] \/ (/\ list[i].key = item.key  /\ entry(i).sources = list[i].sources \cup item.sources
                                         /\ entry(i).sev \in {list[i].sev, item.sev})
    <3>1. list[i] \in Row /\ list[i].sev \in Nat
      BY <1>0, RowFields
    <3>2. CASE entry(i) = list[i]
      BY <3>1, <3>2
    <3>3. CASE i \in same /\ entry(i) = Merge(list[i], item)
      <4>1. list[i].key = item.key
        BY <3>3 DEF OfKey
      <4> QED BY <3>1, <3>3, <4>1, MergeType, MergeSays
    <3> QED BY <3>2, <3>3
  <2>4. PICK i \in same : TRUE
    BY <1>2
  <2>5. i \in 1 .. Len(list) /\ list[i].key = item.key /\ \A j \in same : j = i
    BY <2>4 DEF OfKey, Good, Distinct
  <2>6. entry(i) = Merge(list[i], item)
    BY <2>4, <2>5
  <2>7. list[i] \in Row
    BY <1>0, <2>5, RowFields
  <2>8. entry(i).key = item.key /\ item.sources \subseteq entry(i).sources /\ item.sev <= entry(i).sev
    BY <2>5, <2>6, <2>7, MergeType, MergeSays
  <2> HIDE DEF entry, new
  <2>9. \E j \in 1 .. Len(new) : new[j].key = item.key /\ item.sources \subseteq new[j].sources /\ item.sev <= new[j].sev
    BY <2>2, <2>5, <2>8
  <2>10. Len(new) # Len(list) + 1
    BY <1>0, <2>2
  <2> QED BY <2>2, <2>3, <2>9, <2>10 DEF new
<1> QED BY <1>1, <1>2

\* What a save keeps of a list: the last rows, all but the first d of them.
LEMMA TrimSays ==
  ASSUME NEW list \in Seq(Row)
  PROVE  \E d \in Nat :
         /\ Len(Trimmed(list)) = Len(list) - d
         /\ \A i \in 1 .. Len(Trimmed(list)) : i + d \in 1 .. Len(list) /\ Trimmed(list)[i] = list[i + d]
         /\ IF Len(list) <= MaxRows THEN d = 0 ELSE d = Len(list) - MaxRows
<1>0. Len(list) \in Nat
  BY LenProperties
<1>1. CASE Len(list) <= MaxRows
  <2>1. Trimmed(list) = list
    BY <1>1 DEF Trimmed
  <2>2. /\ Len(Trimmed(list)) = Len(list) - 0
        /\ \A i \in 1 .. Len(Trimmed(list)) : i + 0 \in 1 .. Len(list) /\ Trimmed(list)[i] = list[i + 0]
    BY <1>0, <2>1
  <2> QED BY <1>1, <2>2
<1>2. CASE ~(Len(list) <= MaxRows)
  <2> DEFINE d == Len(list) - MaxRows
  <2>1. d \in Nat /\ d + 1 \in 1 .. Len(list) /\ MaxRows = Len(list) - d
    BY <1>0, <1>2, MaxRowsAssumption
  <2>2. Trimmed(list) = SubSeq(list, d + 1, Len(list))
    BY <1>2 DEF Trimmed
  <2>3. Len(Trimmed(list)) = MaxRows /\ \A i \in 1 .. MaxRows : d + i \in 1 .. Len(list) /\ Trimmed(list)[i] = list[d + i]
    BY <1>0, <2>1, <2>2
  <2>4. \A i \in 1 .. MaxRows : i + d = d + i
    BY <2>1, MaxRowsAssumption
  <2> QED BY <1>2, <2>1, <2>3, <2>4
<1> QED BY <1>1, <1>2

(* The steps.                                                               *)

LEMMA SayingInit == Init => SayingInv
<1> SUFFICES ASSUME Init PROVE SayingInv
  OBVIOUS
<1>1. rows = <<>> /\ Len(rows) = 0 /\ built = 0
  BY DEF Init
<1>2. \A w \in Writers : /\ writer[w] = Idle  /\ Idle.list = <<>>  /\ Idle.at = "idle"  /\ Idle.id = 0
  BY DEF Init, Idle, NoId
<1>3. Backed(<<>>, said)
  BY DEF Backed
<1>4. \A k \in Keys : ~Owes(k)
  BY DEF Init, Owes, NoReport
<1>5. \A id \in Ids : ruled[id] = None
  BY DEF Init
<1>6. VerdictStands
  BY <1>1 DEF VerdictStands
<1>7. \A w \in Writers : Current(w) /\ writer[w].id <= built /\ writer[w].at # "llm"
  BY <1>1, <1>2 DEF Current
<1>8. Backed(rows, said) /\ \A w \in Writers : Backed(writer[w].list, said)
  BY <1>1, <1>2, <1>3
<1> QED BY <1>4, <1>5, <1>6, <1>7, <1>8 DEF SayingInv

\* A thread that takes a new state while the file, its history and the others' states stay.
LEMMA SayingMoves ==
  ASSUME HistoryInv, NEW w \in Writers, NEW st \in WriterStates,
         writer' = [writer EXCEPT ![w] = st], UNCHANGED <<rows, built, said, due, ruled, disturbed>>,
         Backed(st.list, said), st.id <= built,
         st.at = "llm" => st.key = None /\ st.disp = None,
         st.at = "save" /\ ~st.stale => EditOf(st.list, rows, st, ruled)
  PROVE  SayingInv'
<1>1. writer \in [Writers -> WriterStates]
  BY DEF HistoryInv, RegistryInv
<1>2. writer'[w] = st /\ \A x \in Writers \ {w} : writer'[x] = writer[x]
  BY <1>1
<1>3. \A x \in Writers : Current(x)'
  <2>1. Current(w)'
    BY <1>2 DEF Current
  <2>2. \A x \in Writers \ {w} : Current(x)'
    BY <1>2 DEF HistoryInv, SayingInv, Current
  <2> QED BY <2>1, <2>2
<1>4. \A x \in Writers : /\ writer'[x].id <= built'
                         /\ writer'[x].at = "llm" => writer'[x].key = None /\ writer'[x].disp = None
  BY <1>2 DEF HistoryInv, SayingInv
<1>5. \A x \in Writers : Backed(writer'[x].list, said')
  BY <1>2 DEF HistoryInv, SayingInv
<1>6. Backed(rows', said') /\ \A id \in Ids : ruled'[id] # None => id <= built'
  BY DEF HistoryInv, SayingInv
<1>7. (~disturbed' => \A k \in Keys : Owes(k)' => Kept(k)') /\ VerdictStands'
  BY DEF HistoryInv, SayingInv, Owes, Kept, VerdictStands
<1> QED BY <1>3, <1>4, <1>5, <1>6, <1>7 DEF SayingInv

LEMMA BackedLater ==
  ASSUME NEW list \in Seq(Row), NEW s \in [Keys -> ReportType], NEW k \in Keys, NEW r \in ReportType, Backed(list, s)
  PROVE  Backed(list, [s EXCEPT ![k] = With(s[k], r)])
<1> DEFINE t == [s EXCEPT ![k] = With(s[k], r)]
<1> SUFFICES ASSUME NEW i \in 1 .. Len(list)
             PROVE  list[i].sources \subseteq t[list[i].key].sources /\ list[i].sev <= t[list[i].key].sev
  BY DEF Backed
<1>1. list[i].key \in Keys /\ list[i].sev \in Nat
  BY RowFields
<1>2. list[i].sources \subseteq s[list[i].key].sources /\ list[i].sev <= s[list[i].key].sev
  BY DEF Backed
<1>3. s[k].sev \in Nat /\ r.sev \in Nat
  BY DEF ReportType
<1>4. With(s[k], r).sources = s[k].sources \cup r.sources /\ With(s[k], r).sev = Higher(s[k].sev, r.sev)
  BY DEF With, ReportType
<1>5. s[k].sev <= Higher(s[k].sev, r.sev)
  BY <1>3 DEF Higher
<1>6. CASE list[i].key = k
  BY <1>1, <1>2, <1>3, <1>4, <1>5, <1>6 DEF Higher
<1>7. CASE list[i].key # k
  BY <1>1, <1>2, <1>7
<1> QED BY <1>6, <1>7

LEMMA UpsertBacked ==
  ASSUME NEW list, NEW n \in Nat, Good(list, n), NEW s \in [Keys -> ReportType], NEW k \in Keys, NEW r \in ReportType,
         NEW item \in Row, item.key = k, item.sources = r.sources, item.sev = r.sev, Backed(list, s)
  PROVE  Backed(Upserted(list, item), [s EXCEPT ![k] = With(s[k], r)])
<1> DEFINE t == [s EXCEPT ![k] = With(s[k], r)]
           new == Upserted(list, item)
<1>0. list \in Seq(Row) /\ Len(list) \in Nat
  BY LenProperties DEF Good
<1>1. Backed(list, t)
  BY <1>0, BackedLater
<1>2. s[k].sev \in Nat /\ r.sev \in Nat
  BY DEF ReportType
<1>3. t[k].sources = s[k].sources \cup r.sources /\ t[k].sev = Higher(s[k].sev, r.sev)
  BY DEF With, ReportType
<1>4. item.sources \subseteq t[k].sources /\ item.sev <= t[k].sev
  BY <1>2, <1>3 DEF Higher
<1> HIDE DEF t, new
<1>5. /\ Len(new) \in {Len(list), Len(list) + 1}
      /\ \A i \in 1 .. Len(list) :
           /\ new[i].key = list[i].key
           /\ new[i] = list[i] \/ (/\ list[i].key = item.key  /\ new[i].sources = list[i].sources \cup item.sources
                                   /\ new[i].sev \in {list[i].sev, item.sev})
      /\ Len(new) = Len(list) + 1 => new[Len(new)] = item
  BY UpsertSays DEF new
<1>6. ASSUME NEW i \in 1 .. Len(new) PROVE new[i].sources \subseteq t[new[i].key].sources /\ new[i].sev <= t[new[i].key].sev
  <2>1. CASE i \in 1 .. Len(list)
    <3>1. list[i].sources \subseteq t[list[i].key].sources /\ list[i].sev <= t[list[i].key].sev
      BY <1>1, <2>1 DEF Backed
    <3> QED BY <1>4, <1>5, <2>1, <3>1
  <2>2. CASE i = Len(list) + 1 /\ Len(new) = Len(list) + 1
    BY <1>4, <1>5, <2>2
  <2> QED BY <1>0, <1>5, <2>1, <2>2
<1>7. Backed(new, t)
  BY <1>6 DEF Backed
<1> QED BY <1>7 DEF new, t

LEMMA ReportSays ==
  ASSUME HistoryInv, NEW w \in Reporters, NEW k \in Keys, NEW r \in Reports, Report(w, k, r)
  PROVE  SayingInv'
<1> DEFINE item == BuildRow(built + 1, k, r)
           st(failed) == [Idle EXCEPT !.at = "save", !.list = Upserted(Load(failed), item),
                                      !.stale = failed, !.key = k, !.report = r]
<1>1. PICK failed \in BOOLEAN : writer' = [writer EXCEPT ![w] = st(failed)]
  <2>1. PICK f \in {FALSE, FileMayFail} : writer' = [writer EXCEPT ![w] = st(f)]
    BY DEF Report
  <2> QED BY <2>1, FailAssumption
<1>2. built \in Nat /\ built + 1 \in Ids /\ built' = built + 1 /\ UNCHANGED <<rows, due, ruled, disturbed>>
  BY MaxIdsAssumption DEF HistoryInv, RegistryInv, Report, Ids
<1>3. r \in ReportType /\ w \in Writers /\ said \in [Keys -> ReportType] /\ writer \in [Writers -> WriterStates]
  BY ReportsAssumption DEF Writers, HistoryInv, HistoryType, RegistryInv
<1>4. item \in Row /\ item.id = built + 1 /\ item.key = k /\ item.sources = r.sources /\ item.sev = r.sev
  BY <1>2, <1>3 DEF BuildRow, Row, ReportType
<1>5. Good(Load(failed), built) /\ Backed(Load(failed), said)
  BY <1>2, EmptyGood DEF Load, HistoryInv, RegistryInv, SayingInv, Backed
<1>6. said' = [said EXCEPT ![k] = With(said[k], r)]
  BY DEF Report
<1>7. Backed(Upserted(Load(failed), item), said')
  BY <1>2, <1>3, <1>4, <1>5, <1>6, UpsertBacked
<1>8. \A list \in Seq(Row) : Backed(list, said) => Backed(list, said')
  BY <1>3, <1>6, BackedLater
<1>9. /\ st(failed).at = "save"  /\ st(failed).list = Upserted(Load(failed), item)  /\ st(failed).stale = failed
      /\ st(failed).key = k  /\ st(failed).report = r  /\ st(failed).id = 0  /\ st(failed).disp = None
  BY DEF Idle, NoId
<1> HIDE DEF st
<1>10. writer'[w] = st(failed) /\ \A x \in Writers \ {w} : writer'[x] = writer[x]
  BY <1>1, <1>3
<1>11. Current(w)'
  <2> SUFFICES ASSUME ~failed PROVE EditOf(st(failed).list, rows, st(failed), ruled)
    BY <1>2, <1>9, <1>10 DEF Current
  <2> DEFINE new == Upserted(rows, item)
  <2>1. /\ Len(new) \in {Len(rows), Len(rows) + 1}
        /\ \A i \in 1 .. Len(rows) :
             /\ new[i].key = rows[i].key  /\ new[i].id = rows[i].id  /\ new[i].disp = rows[i].disp
             /\ rows[i].sources \subseteq new[i].sources  /\ rows[i].sev <= new[i].sev
        /\ Len(new) = Len(rows) + 1 => new[Len(new)] = item
        /\ \E i \in 1 .. Len(new) : new[i].key = item.key /\ item.sources \subseteq new[i].sources /\ item.sev <= new[i].sev
    <3>1. Good(rows, built)
      BY DEF HistoryInv, RegistryInv
    <3>2. built \in Nat /\ item \in Row
      BY <1>2, <1>4
    <3> HIDE DEF item
    <3> QED BY ONLY <3>1, <3>2, UpsertSays DEF new
  <2>2. st(failed).list = new
    BY <1>9 DEF Load
  <2>3. ruled[built + 1] = None
    BY <1>2 DEF HistoryInv, SayingInv
  <2> HIDE DEF new, item
  <2>4. EditOf(new, rows, st(failed), ruled)
    BY <1>4, <1>9, <2>1, <2>3 DEF EditOf
  <2> QED BY <2>2, <2>4
<1>12. \A x \in Writers : Current(x)'
  <2>1. \A x \in Writers \ {w} : Current(x)'
    BY <1>2, <1>10 DEF HistoryInv, SayingInv, Current
  <2> QED BY <1>11, <2>1
<1>13. \A x \in Writers : /\ writer'[x].id <= built'
                          /\ writer'[x].at = "llm" => writer'[x].key = None /\ writer'[x].disp = None
  <2>1. \A x \in Writers : writer[x].id \in Nat /\ writer[x].id <= built
    BY <1>2, <1>3 DEF HistoryInv, SayingInv, WriterStates, Ids, NoId
  <2> QED BY <1>2, <1>9, <1>10, <2>1 DEF HistoryInv, SayingInv
<1>14. Backed(rows', said') /\ \A x \in Writers : Backed(writer'[x].list, said')
  <2>1. rows \in Seq(Row) /\ \A x \in Writers : writer[x].list \in Seq(Row)
    BY DEF HistoryInv, RegistryInv, Good
  <2>2. Backed(rows', said')
    BY <1>2, <1>8, <2>1 DEF HistoryInv, SayingInv
  <2>3. \A x \in Writers \ {w} : Backed(writer'[x].list, said')
    BY <1>8, <1>10, <2>1 DEF HistoryInv, SayingInv
  <2> QED BY <1>7, <1>9, <1>10, <2>2, <2>3
<1>15. \A id \in Ids : ruled'[id] # None => id <= built'
  <2>1. \A id \in Ids : id \in Nat
    BY DEF Ids
  <2> QED BY <1>2, <2>1 DEF HistoryInv, SayingInv
<1>16. (~disturbed' => \A q \in Keys : Owes(q)' => Kept(q)') /\ VerdictStands'
  BY <1>2 DEF HistoryInv, SayingInv, Owes, Kept, VerdictStands
<1> QED BY <1>12, <1>13, <1>14, <1>15, <1>16 DEF SayingInv

\* Patches leave what the rows say alone.
LEMMA RulingSays ==
  ASSUME NEW list \in Seq(Row), NEW i \in 1 .. Len(list), NEW d \in Dispositions, NEW s, Backed(list, s),
         NEW new, new = [list EXCEPT ![i].disp = d]
  PROVE  /\ Backed(new, s)  /\ Len(new) = Len(list)
         /\ \A j \in 1 .. Len(list) :
              /\ new[j].key = list[j].key  /\ new[j].id = list[j].id
              /\ new[j].sources = list[j].sources  /\ new[j].sev = list[j].sev
              /\ new[j].disp = IF j = i THEN d ELSE list[j].disp
<1> DEFINE r == [list[i] EXCEPT !.disp = d]
<1>1. list[i] \in Row /\ Len(list) \in Nat
  BY RowFields, LenProperties
<1>2. /\ r \in Row  /\ r.key = list[i].key  /\ r.id = list[i].id
      /\ r.sources = list[i].sources  /\ r.sev = list[i].sev  /\ r.disp = d
  BY <1>1 DEF Row
<1> HIDE DEF r
<1>3. Len(new) = Len(list) /\ \A j \in 1 .. Len(list) : new[j] = IF j = i THEN r ELSE list[j]
  BY <1>2, ExceptSeq DEF r
<1>4. \A j \in 1 .. Len(list) :
        /\ new[j].key = list[j].key  /\ new[j].id = list[j].id
        /\ new[j].sources = list[j].sources  /\ new[j].sev = list[j].sev
        /\ new[j].disp = IF j = i THEN d ELSE list[j].disp
  BY <1>2, <1>3
<1> QED BY <1>3, <1>4 DEF Backed

LEMMA DeepSays ==
  ASSUME NEW list \in Seq(Row), NEW i \in 1 .. Len(list), NEW s, Backed(list, s),
         NEW new, new = [list EXCEPT ![i].deep = TRUE]
  PROVE  /\ Backed(new, s)  /\ Len(new) = Len(list)
         /\ \A j \in 1 .. Len(list) :
              /\ new[j].key = list[j].key  /\ new[j].id = list[j].id
              /\ new[j].sources = list[j].sources  /\ new[j].sev = list[j].sev  /\ new[j].disp = list[j].disp
<1> DEFINE r == [list[i] EXCEPT !.deep = TRUE]
<1>1. list[i] \in Row /\ Len(list) \in Nat
  BY RowFields, LenProperties
<1>2. /\ r \in Row  /\ r.key = list[i].key  /\ r.id = list[i].id
      /\ r.sources = list[i].sources  /\ r.sev = list[i].sev  /\ r.disp = list[i].disp
  BY <1>1 DEF Row
<1> HIDE DEF r
<1>3. Len(new) = Len(list) /\ \A j \in 1 .. Len(list) : new[j] = IF j = i THEN r ELSE list[j]
  BY <1>2, ExceptSeq DEF r
<1>4. \A j \in 1 .. Len(list) :
        /\ new[j].key = list[j].key  /\ new[j].id = list[j].id
        /\ new[j].sources = list[j].sources  /\ new[j].sev = list[j].sev  /\ new[j].disp = list[j].disp
  BY <1>2, <1>3
<1> QED BY <1>3, <1>4 DEF Backed

LEMMA VerdictSays ==
  ASSUME HistoryInv, NEW w \in Analysts, NEW id \in Ids, NEW asked, Verdict(w, id, asked)
  PROVE  SayingInv'
<1> DEFINE d == Ruling(asked)
           st(i) == [Idle EXCEPT !.at = "save", !.list = [rows EXCEPT ![i].disp = d], !.id = id, !.disp = d]
<1>1. PICK i \in OfId(rows, id) : writer' = [writer EXCEPT ![w] = st(i)]
  BY DEF Verdict
<1>2. d \in Dispositions /\ d # None
  BY OpenAssumption, NoneAssumption DEF Ruling
<1>3. i \in 1 .. Len(rows) /\ rows[i].id = id /\ \A j \in 1 .. Len(rows) : rows[j].id = id => j = i
  BY DEF OfId, HistoryInv, RegistryInv, Good, Distinct
<1>4. rows \in Seq(Row) /\ Backed(rows, said) /\ Len(rows) \in Nat /\ Good(rows, built) /\ built \in Nat
  BY LenProperties, MaxIdsAssumption DEF HistoryInv, RegistryInv, Good, SayingInv
<1> DEFINE new == [rows EXCEPT ![i].disp = d]
<1>5. /\ Backed(new, said)  /\ Len(new) = Len(rows)
      /\ \A j \in 1 .. Len(rows) :
           /\ new[j].key = rows[j].key  /\ new[j].id = rows[j].id
           /\ new[j].sources = rows[j].sources  /\ new[j].sev = rows[j].sev
           /\ new[j].disp = IF j = i THEN d ELSE rows[j].disp
  BY <1>2, <1>3, <1>4, RulingSays
<1>6. /\ st(i).at = "save"  /\ st(i).list = new  /\ st(i).id = id  /\ st(i).disp = d  /\ st(i).key = None
  BY DEF Idle
<1>7. st(i) \in WriterStates
  <2>1. Good(new, built)
    BY <1>2, <1>3, <1>4, PatchGood
  <2> QED BY <1>2, <2>1, OpenAssumption DEF Good, Idle, WriterStates, ReportType, NoReport
<1> HIDE DEF new, st, d
<1>8. EditOf(new, rows, st(i), ruled)
  <2>1. \A j \in 1 .. Len(rows) : rows[j].sources \subseteq new[j].sources /\ rows[j].sev <= new[j].sev
    BY <1>4, <1>5, RowFields
  <2>2. \A j \in 1 .. Len(rows) : new[j].disp = IF rows[j].id = id THEN d ELSE rows[j].disp
    BY <1>3, <1>5
  <2>3. Len(rows) # Len(rows) + 1
    BY <1>4
  <2> QED BY <1>2, <1>5, <1>6, <2>1, <2>2, <2>3, NoneAssumption DEF EditOf
<1>9. id <= built
  BY <1>3, <1>4, IdsBounded
<1> QED BY <1>1, <1>5, <1>6, <1>7, <1>8, <1>9, SayingMoves DEF Verdict, Writers, history

LEMMA InspectSays ==
  ASSUME HistoryInv, NEW w \in Analysts, (\E id \in Ids : BeginInspect(w, id)) \/ EndInspect(w)
  PROVE  SayingInv'
<1>0. /\ w \in Writers /\ UNCHANGED <<rows, built, said, due, ruled, disturbed>>  /\ writer[w] \in WriterStates
      /\ built \in Nat  /\ Idle \in WriterStates  /\ Idle.list = <<>>
  <2>1. w \in Writers /\ UNCHANGED <<rows, built, said, due, ruled, disturbed>>
    BY DEF Writers, BeginInspect, EndInspect, history
  <2> QED BY <2>1, IdleType, MaxIdsAssumption DEF HistoryInv, RegistryInv
<1>1. Backed(<<>>, said)
  BY DEF Backed
<1>2. ASSUME NEW id \in Ids, BeginInspect(w, id) PROVE SayingInv'
  <2> DEFINE st == [Idle EXCEPT !.at = "llm", !.id = id]
  <2>1. writer' = [writer EXCEPT ![w] = st]
    BY <1>2 DEF BeginInspect
  <2>2. st \in WriterStates /\ st.list = <<>> /\ st.id = id /\ st.key = None /\ st.disp = None /\ st.at = "llm"
    BY <1>0 DEF Idle, WriterStates
  <2>3. id <= built
    <3>1. PICK i \in 1 .. Len(rows) : rows[i].id = id
      BY <1>2 DEF BeginInspect, OfId
    <3> QED BY <1>0, <3>1, IdsBounded DEF HistoryInv, RegistryInv
  <2> HIDE DEF st
  <2> QED BY <1>0, <1>1, <2>1, <2>2, <2>3, SayingMoves
<1>3. CASE writer' = [writer EXCEPT ![w] = Idle]
  <2>1. Idle.at = "idle" /\ Idle.id = 0
    BY DEF Idle, NoId
  <2>2. Backed(Idle.list, said) /\ Idle.id <= built
    BY <1>0, <1>1, <2>1
  <2>3. Idle.at # "llm" /\ Idle.at # "save"
    BY <2>1
  <2> QED BY <1>0, <1>3, <2>2, <2>3, SayingMoves
<1>4. ASSUME NEW i \in OfId(rows, writer[w].id), writer[w].at = "llm",
             writer' = [writer EXCEPT ![w].at = "save", ![w].list = [rows EXCEPT ![i].deep = TRUE]]
      PROVE  SayingInv'
  <2> DEFINE new == [rows EXCEPT ![i].deep = TRUE]
             st == [[writer[w] EXCEPT !.at = "save"] EXCEPT !.list = new]
  <2>1. i \in 1 .. Len(rows) /\ rows \in Seq(Row) /\ Backed(rows, said) /\ Len(rows) \in Nat /\ Good(rows, built)
    BY <1>4, LenProperties DEF OfId, HistoryInv, RegistryInv, Good, SayingInv
  <2>2. /\ Backed(new, said)  /\ Len(new) = Len(rows)
        /\ \A j \in 1 .. Len(rows) :
             /\ new[j].key = rows[j].key  /\ new[j].id = rows[j].id
             /\ new[j].sources = rows[j].sources  /\ new[j].sev = rows[j].sev  /\ new[j].disp = rows[j].disp
    BY <2>1, DeepSays
  <2>3. Good(new, built)
    BY <1>0, <2>1, OpenAssumption, PatchGood
  <2>4. writer[w].key = None /\ writer[w].disp = None /\ writer[w].id <= built
    BY <1>0, <1>4 DEF HistoryInv, SayingInv
  <2>5. writer' = [writer EXCEPT ![w] = st]
    BY <1>0, <1>4 DEF HistoryInv, RegistryInv, WriterStates
  <2>6. st \in WriterStates /\ st.at = "save" /\ st.list = new /\ st.key = None /\ st.disp = None /\ st.id = writer[w].id
    BY <1>0, <2>3, <2>4 DEF Good, WriterStates
  <2> HIDE DEF new, st
  <2>7. EditOf(new, rows, st, ruled)
    <3>1. \A j \in 1 .. Len(rows) : rows[j].sources \subseteq new[j].sources /\ rows[j].sev <= new[j].sev
      BY <2>1, <2>2, RowFields
    <3>2. Len(rows) # Len(rows) + 1
      BY <2>1
    <3> QED BY <2>2, <2>6, <3>1, <3>2, NoneAssumption DEF EditOf
  <2> QED BY <1>0, <2>2, <2>4, <2>5, <2>6, <2>7, SayingMoves
<1> QED BY <1>2, <1>3, <1>4 DEF EndInspect

\* What the saved rows owe to reports and verdicts, when nothing was disturbed.
LEMMA SaveOwes ==
  ASSUME HistoryInv, NEW w \in Writers, Save(w), ~disturbed', NEW k \in Keys, Owes(k)'
  PROVE  Kept(k)'
<1> DEFINE st == writer[w]
           list == writer[w].list
<1>1. st \in WriterStates /\ Good(list, built) /\ rows' = Trimmed(list)
  BY DEF HistoryInv, RegistryInv, Save
<1>2. ~disturbed /\ EditOf(list, rows, st, ruled)
  <2>1. st.at = "save" /\ ~disturbed /\ ~st.stale
    BY DEF Save
  <2> QED BY <2>1 DEF HistoryInv, SayingInv, Current
<1>3. list \in Seq(Row) /\ Len(list) \in Nat /\ rows \in Seq(Row) /\ Len(rows) \in Nat
  BY <1>1, LenProperties DEF Good, HistoryInv, RegistryInv
<1>4. st.report \in ReportType /\ due[k] \in ReportType
  BY <1>1 DEF WriterStates, HistoryInv, HistoryType
<1>5. due'[k] = IF k \in KeysOf(list) \ KeysOf(rows') THEN NoReport
                ELSE IF k = st.key THEN With(due[k], st.report) ELSE due[k]
  BY DEF Save, Settle
<1>6. ~(k \in KeysOf(list) \ KeysOf(rows'))
  BY <1>5 DEF Owes, NoReport
<1>7. Owes(k) => Kept(k)
  BY <1>2 DEF HistoryInv, SayingInv
<1>8. ASSUME Kept(k)
      PROVE  \E i \in 1 .. Len(list) : /\ list[i].key = k
                                       /\ due[k].sources \subseteq list[i].sources /\ due[k].sev <= list[i].sev
  <2>1. PICK i \in 1 .. Len(rows) : rows[i].key = k /\ due[k].sources \subseteq rows[i].sources /\ due[k].sev <= rows[i].sev
    BY <1>8 DEF Kept
  <2>2. i \in 1 .. Len(list)
    BY <1>2, <1>3 DEF EditOf
  <2>3. list[i].key = k /\ rows[i].sources \subseteq list[i].sources /\ rows[i].sev <= list[i].sev
    BY <1>2, <2>1 DEF EditOf
  <2>4. due[k].sev \in Nat /\ rows[i].sev \in Nat /\ list[i].sev \in Nat
    BY <1>3, <1>4, <2>2, RowFields DEF ReportType
  <2> QED BY <2>1, <2>2, <2>3, <2>4
<1>9. k = st.key => \E i \in 1 .. Len(list) :
                      list[i].key = k /\ st.report.sources \subseteq list[i].sources /\ st.report.sev <= list[i].sev
  BY <1>2 DEF EditOf
<1>10. PICK q \in 1 .. Len(list) : list[q].key = k
  <2>1. CASE k = st.key
    BY <1>9, <2>1
  <2>2. CASE k # st.key
    <3>1. due'[k] = due[k]
      BY <1>5, <1>6, <2>2
    <3>2. Owes(k)
      BY <3>1 DEF Owes
    <3> QED BY <1>7, <1>8, <3>2
  <2> QED BY <2>1, <2>2
<1>11. \A i \in 1 .. Len(list) : list[i].key = k => i = q
  BY <1>1, <1>10 DEF Good, Distinct
<1>12. due[k].sources \subseteq list[q].sources /\ due[k].sev <= list[q].sev
  <2>1. list[q].sev \in Nat /\ due[k].sev \in Nat
    BY <1>3, <1>4, RowFields DEF ReportType
  <2>2. CASE Owes(k)
    BY <1>7, <1>8, <1>11, <2>2
  <2>3. CASE ~Owes(k)
    BY <2>1, <2>3 DEF Owes
  <2> QED BY <2>2, <2>3
<1>13. k = st.key => st.report.sources \subseteq list[q].sources /\ st.report.sev <= list[q].sev
  BY <1>9, <1>11
<1>14. due'[k].sources \subseteq list[q].sources /\ due'[k].sev <= list[q].sev
  <2>1. due'[k] = IF k = st.key THEN With(due[k], st.report) ELSE due[k]
    BY <1>5, <1>6
  <2>2. /\ With(due[k], st.report).sources = due[k].sources \cup st.report.sources
        /\ With(due[k], st.report).sev \in {due[k].sev, st.report.sev}
    BY <1>4 DEF With, ReportType, Higher
  <2> HIDE DEF st, list
  <2>3. CASE k = st.key
    BY <1>12, <1>13, <2>1, <2>2, <2>3
  <2>4. CASE k # st.key
    BY <1>12, <2>1, <2>4
  <2> QED BY <2>3, <2>4
<1>15. PICK p \in 1 .. Len(rows') : rows'[p].key = k
  BY <1>6, <1>10 DEF KeysOf
<1>16. rows'[p] = list[q]
  <2>1. PICK d \in Nat : \A i \in 1 .. Len(rows') : i + d \in 1 .. Len(list) /\ rows'[i] = list[i + d]
    BY <1>1, <1>3, TrimSays
  <2>2. p + d \in 1 .. Len(list) /\ rows'[p] = list[p + d]
    BY <2>1
  <2> QED BY <1>11, <1>15, <2>2
<1> QED BY <1>14, <1>15, <1>16 DEF Kept

LEMMA SaveRules ==
  ASSUME HistoryInv, NEW w \in Writers, Save(w), ~disturbed', NEW p \in 1 .. Len(rows'), ruled'[rows'[p].id] # None
  PROVE  rows'[p].disp = ruled'[rows'[p].id]
<1> DEFINE st == writer[w]
           list == writer[w].list
<1>1. st \in WriterStates /\ Good(list, built) /\ rows' = Trimmed(list)
  BY DEF HistoryInv, RegistryInv, Save
<1>2. ~disturbed /\ EditOf(list, rows, st, ruled)
  <2>1. st.at = "save" /\ ~disturbed /\ ~st.stale
    BY DEF Save
  <2> QED BY <2>1 DEF HistoryInv, SayingInv, Current
<1>3. list \in Seq(Row) /\ Len(list) \in Nat /\ rows \in Seq(Row) /\ Len(rows) \in Nat
  BY <1>1, LenProperties DEF Good, HistoryInv, RegistryInv
<1>4. PICK q \in 1 .. Len(list) : rows'[p] = list[q]
  BY <1>1, <1>3, TrimSays
<1>5. ruled' = IF st.disp = None THEN ruled ELSE [ruled EXCEPT ![st.id] = st.disp]
  BY DEF Save, Settle
<1>6. ruled \in [Ids -> Dispositions \cup {None}] /\ list[q].id \in Ids
  BY <1>3, RowFields DEF HistoryInv, HistoryType
<1>7. ruled'[list[q].id] # None
  BY <1>4
<1>8. CASE q \in 1 .. Len(rows)
  <2>1. list[q].id = rows[q].id
    BY <1>2, <1>8 DEF EditOf
  <2>2. list[q].disp = IF st.disp # None /\ rows[q].id = st.id THEN st.disp ELSE rows[q].disp
    BY <1>2, <1>8 DEF EditOf
  <2>3. ruled[rows[q].id] # None => rows[q].disp = ruled[rows[q].id]
    BY <1>2, <1>8 DEF HistoryInv, SayingInv, VerdictStands
  <2>4. ruled'[rows[q].id] = IF st.disp # None /\ rows[q].id = st.id THEN st.disp ELSE ruled[rows[q].id]
    BY <1>5, <1>6, <2>1
  <2> HIDE DEF st, list
  <2> QED BY <1>4, <1>7, <2>1, <2>2, <2>3, <2>4
<1>9. CASE q \notin 1 .. Len(rows)
  <2>1. Len(list) = Len(rows) + 1 /\ q = Len(list)
    <3>1. Len(list) \in {Len(rows), Len(rows) + 1}
      BY <1>2 DEF EditOf
    <3> HIDE DEF list
    <3> QED BY <1>3, <1>9, <3>1
  <2>2. st.disp = None /\ ruled[list[q].id] = None
    BY <1>2, <2>1 DEF EditOf
  <2> QED BY <1>5, <1>7, <2>2
<1> QED BY <1>8, <1>9

LEMMA SaveSays ==
  ASSUME HistoryInv, NEW w \in Writers, Save(w)
  PROVE  SayingInv'
<1> DEFINE list == writer[w].list
           next(x) == IF x = w THEN Idle
                      ELSE IF writer[x].at = "save" THEN [writer[x] EXCEPT !.stale = TRUE]
                      ELSE writer[x]
<1>1. rows' = Trimmed(list) /\ writer' = [x \in Writers |-> next(x)] /\ UNCHANGED <<built, said>>
  BY DEF Save
<1>2. writer \in [Writers -> WriterStates] /\ list \in Seq(Row) /\ built \in Nat
  BY MaxIdsAssumption DEF HistoryInv, RegistryInv, Good
<1>3. Idle.list = <<>> /\ Idle.at = "idle" /\ Idle.id = 0 /\ Backed(<<>>, said)
  BY DEF Idle, NoId, Backed
<1>4. ASSUME NEW x \in Writers
      PROVE  /\ next(x).list \in {<<>>, writer[x].list}
             /\ next(x).at = "save" => next(x).stale = TRUE
             /\ next(x).id \in {0, writer[x].id}
             /\ next(x).at = "llm" => /\ writer[x].at = "llm"  /\ next(x).key = writer[x].key
                                      /\ next(x).disp = writer[x].disp
  <2>1. writer[x] \in WriterStates
    BY <1>2
  <2>2. CASE x = w
    BY <1>3, <2>2
  <2>3. CASE x # w /\ writer[x].at = "save"
    BY <2>1, <2>3 DEF WriterStates
  <2>4. CASE x # w /\ writer[x].at # "save"
    BY <2>1, <2>4
  <2> QED BY <2>2, <2>3, <2>4
<1> HIDE DEF next
<1>5. \A x \in Writers : writer'[x] = next(x)
  BY <1>1
<1>6. \A x \in Writers : Current(x)'
  <2> SUFFICES ASSUME NEW x \in Writers, writer'[x].at = "save", ~writer'[x].stale PROVE FALSE
    BY DEF Current
  <2>1. next(x).at = "save" /\ ~next(x).stale
    BY <1>5
  <2> QED BY <1>4, <2>1
<1>7. \A x \in Writers : /\ writer'[x].id <= built'
                         /\ writer'[x].at = "llm" => writer'[x].key = None /\ writer'[x].disp = None
  <2> SUFFICES ASSUME NEW x \in Writers
               PROVE  /\ next(x).id <= built
                      /\ next(x).at = "llm" => next(x).key = None /\ next(x).disp = None
    BY <1>1, <1>5
  <2>1. /\ writer[x].id <= built
        /\ writer[x].at = "llm" => writer[x].key = None /\ writer[x].disp = None
    BY DEF HistoryInv, SayingInv
  <2>2. next(x).id = 0 \/ next(x).id = writer[x].id
    BY <1>4
  <2>3. next(x).id <= built
    BY <1>2, <2>1, <2>2
  <2> QED BY <1>4, <2>1, <2>3
<1>8. \A x \in Writers : Backed(writer'[x].list, said')
  <2> SUFFICES ASSUME NEW x \in Writers PROVE Backed(next(x).list, said)
    BY <1>1, <1>5
  <2>1. Backed(writer[x].list, said)
    BY DEF HistoryInv, SayingInv
  <2>2. next(x).list = <<>> \/ next(x).list = writer[x].list
    BY <1>4
  <2> QED BY <1>3, <2>1, <2>2
<1>9. Backed(rows', said')
  <2>1. Backed(list, said)
    BY DEF HistoryInv, SayingInv
  <2>2. \A i \in 1 .. Len(rows') : \E j \in 1 .. Len(list) : rows'[i] = list[j]
    BY <1>1, <1>2, TrimSays
  <2> QED BY <1>1, <2>1, <2>2 DEF Backed
<1>10. \A id \in Ids : ruled'[id] # None => id <= built'
  <2>1. ruled' = IF writer[w].disp = None THEN ruled ELSE [ruled EXCEPT ![writer[w].id] = writer[w].disp]
    BY DEF Save, Settle
  <2>2. writer[w].id <= built /\ ruled \in [Ids -> Dispositions \cup {None}]
    BY DEF HistoryInv, SayingInv, HistoryType
  <2>3. \A id \in Ids : ruled[id] # None => id <= built
    BY DEF HistoryInv, SayingInv
  <2> QED BY <1>1, <2>1, <2>2, <2>3
<1>11. ~disturbed' => \A k \in Keys : Owes(k)' => Kept(k)'
  BY SaveOwes
<1>12. VerdictStands'
  BY SaveRules DEF VerdictStands
<1> QED BY <1>6, <1>7, <1>8, <1>9, <1>10, <1>11, <1>12 DEF SayingInv

LEMMA SaveFailsSays ==
  ASSUME HistoryInv, NEW w \in Writers, SaveFails(w)
  PROVE  SayingInv'
<1>1. /\ writer' = [writer EXCEPT ![w] = Idle]  /\ disturbed'  /\ UNCHANGED <<rows, built, said, due, ruled>>
      /\ writer \in [Writers -> WriterStates]  /\ built \in Nat
  BY MaxIdsAssumption DEF SaveFails, HistoryInv, RegistryInv
<1>2. Idle.list = <<>> /\ Idle.at = "idle" /\ Idle.id = 0 /\ Backed(<<>>, said)
  BY DEF Idle, NoId, Backed
<1>3. writer'[w] = Idle /\ \A x \in Writers \ {w} : writer'[x] = writer[x]
  BY <1>1
<1>4. \A x \in Writers : Current(x)'
  BY <1>1, <1>2, <1>3 DEF HistoryInv, SayingInv, Current
<1>5. \A x \in Writers : /\ writer'[x].id <= built'
                         /\ writer'[x].at = "llm" => writer'[x].key = None /\ writer'[x].disp = None
  BY <1>1, <1>2, <1>3 DEF HistoryInv, SayingInv
<1>6. Backed(rows', said') /\ \A x \in Writers : Backed(writer'[x].list, said')
  BY <1>1, <1>2, <1>3 DEF HistoryInv, SayingInv
<1>7. \A id \in Ids : ruled'[id] # None => id <= built'
  BY <1>1 DEF HistoryInv, SayingInv
<1> QED BY <1>1, <1>4, <1>5, <1>6, <1>7 DEF SayingInv, VerdictStands

LEMMA HistoryKeeps == HistoryInv /\ [Next]_vars => HistoryInv'
<1> SUFFICES ASSUME HistoryInv, [Next]_vars PROVE HistoryInv'
  OBVIOUS
<1>1. RegistryInv' /\ HistoryType'
  BY RegistryStep, HistoryStep DEF HistoryInv
<1>2. CASE UNCHANGED vars
  <2>1. UNCHANGED <<rows, built, writer, said, due, ruled, disturbed>>
    BY <1>2 DEF vars, history
  <2>2. \A x \in Writers : Current(x)' /\ writer'[x].id <= built' /\ Backed(writer'[x].list, said')
    BY <2>1 DEF HistoryInv, SayingInv, Current
  <2>3. SayingInv'
    BY <2>1, <2>2 DEF HistoryInv, SayingInv, Owes, Kept, VerdictStands
  <2> QED BY <1>1, <2>3 DEF HistoryInv
<1>3. CASE Next
  <2>1. SayingInv'
    BY <1>3, ReportSays, VerdictSays, InspectSays, SaveSays, SaveFailsSays DEF Next
  <2> QED BY <1>1, <2>1 DEF HistoryInv
<1> QED BY <1>2, <1>3

LEMMA HistoryHolds == Spec => []HistoryInv
<1>1. Init => HistoryInv
  BY RegistryInit, HistoryInit, SayingInit DEF HistoryInv
<1> QED BY <1>1, HistoryKeeps, PTL DEF Spec

\* However loads and saves overlap and fail, a connection has one row, which shows
\* nothing that was not reported for it; and as long as no save overwrote another, it
\* shows all that was, until it is pushed out.
THEOREM RowsTellTheReports == Spec => []RowsAreTrue
<1>1. HistoryInv => RowsAreTrue
  <2> SUFFICES ASSUME HistoryInv PROVE RowsAreTrue
    OBVIOUS
  <2>1. UniqueRows
    BY DEF HistoryInv, RegistryInv, Good, UniqueRows
  <2>2. NothingInvented
    BY DEF HistoryInv, SayingInv, Backed, NothingInvented
  <2>3. ReportsKept
    BY DEF HistoryInv, SayingInv, Owes, Reported, ReportsKept
  <2> QED BY <2>1, <2>2, <2>3 DEF RowsAreTrue
<1> QED BY <1>1, HistoryHolds, PTL

\* A verdict of an analyst stands against whatever is reported later, as long as no
\* save overwrote another.
THEOREM VerdictsStand == Spec => []VerdictStands
<1>1. HistoryInv => VerdictStands
  BY DEF HistoryInv, SayingInv
<1> QED BY <1>1, HistoryHolds, PTL

\* An incident leaves the registry only when it is full, and then the oldest does.
THEOREM OldestLeaves == Spec => OnlyOldestLeaves
<1> DEFINE Leaving == ~disturbed' => \A i \in 1 .. Len(rows) : OfId(rows', rows[i].id) = {} => i = 1 /\ Len(rows) = MaxRows
<1>1. HistoryInv /\ [Next]_vars => [Leaving]_vars
  <2> SUFFICES ASSUME HistoryInv, Next, ~disturbed', NEW i \in 1 .. Len(rows), OfId(rows', rows[i].id) = {}
               PROVE  i = 1 /\ Len(rows) = MaxRows
    OBVIOUS
  <2>1. CASE UNCHANGED rows
    BY <2>1 DEF OfId
  <2>2. ASSUME NEW w \in Writers, Save(w) PROVE i = 1 /\ Len(rows) = MaxRows
    <3> DEFINE list == writer[w].list
    <3>1. EditOf(list, rows, writer[w], ruled) /\ list \in Seq(Row) /\ Len(list) \in Nat /\ Len(rows) \in Nat
      <4>1. writer[w].at = "save" /\ ~writer[w].stale
        BY <2>2 DEF Save
      <4>2. list \in Seq(Row) /\ rows \in Seq(Row)
        BY DEF HistoryInv, RegistryInv, Good
      <4> QED BY <4>1, <4>2, LenProperties DEF HistoryInv, SayingInv, Current
    <3>2. PICK d \in Nat : /\ Len(rows') = Len(list) - d
                           /\ \A j \in 1 .. Len(rows') : j + d \in 1 .. Len(list) /\ rows'[j] = list[j + d]
                           /\ IF Len(list) <= MaxRows THEN d = 0 ELSE d = Len(list) - MaxRows
      BY <2>2, <3>1, TrimSays DEF Save
    <3>3. Len(list) \in {Len(rows), Len(rows) + 1} /\ list[i].id = rows[i].id
      BY <3>1 DEF EditOf
    <3> HIDE DEF list
    <3>4. i <= d
      <4> SUFFICES ASSUME i > d PROVE FALSE
        BY <3>2
      <4>1. i - d \in 1 .. Len(rows') /\ (i - d) + d = i
        BY <3>1, <3>2, <3>3
      <4>2. rows'[i - d].id = rows[i].id
        BY <3>2, <3>3, <4>1
      <4> QED BY <4>1, <4>2 DEF OfId
    <3>5. Len(rows) <= MaxRows
      BY DEF HistoryInv, RegistryInv
    <3> QED BY <3>1, <3>2, <3>3, <3>4, <3>5, MaxRowsAssumption
  <2> QED BY <2>1, <2>2 DEF Next, Report, Verdict, BeginInspect, EndInspect, SaveFails
<1> QED BY <1>1, HistoryHolds, PTL DEF Spec, OnlyOldestLeaves

-----------------------------------------------------------------------------
(* The turn.  Its proofs are about an instance of TriageTurn of their own,  *)
(* which is the one of the runs under other names.                          *)

Proved == INSTANCE TriageTurnProofs WITH said <- accusers

LEMMA SameInit == Turns!Init <=> Proved!Init
BY DEF Turns!Init, Proved!Init, Turns!Packets, Proved!Packets, Turns!NoConnection, Proved!NoConnection,
   Turns!NoAlert, Proved!NoAlert

LEMMA SameDropped == Turns!Dropped <=> Proved!Dropped
BY DEF Turns!Dropped, Proved!Dropped, Turns!EndTurn, Proved!EndTurn, Turns!Range, Proved!Range,
   Turns!settings, Proved!settings, Turns!written, Proved!written

LEMMA SameEmits == (Turns!Emit \/ Turns!EmitFails) <=> (Proved!Emit \/ Proved!EmitFails)
BY DEF Turns!Emit, Proved!Emit, Turns!EmitFails, Proved!EmitFails, Turns!Written, Proved!Written,
   Turns!Upserted, Proved!Upserted, Turns!NoAlert, Proved!NoAlert, Turns!EndTurn, Proved!EndTurn,
   Turns!Range, Proved!Range, Turns!settings, Proved!settings, Turns!history, Proved!history

LEMMA SameMoves == (Turns!Arrive \/ Turns!Poll \/ Turns!Ask \/ Turns!Rest) <=> (Proved!Arrive \/ Proved!Poll \/ Proved!Ask \/ Proved!Rest)
BY SameDropped DEF Turns!Arrive, Proved!Arrive, Turns!Poll, Proved!Poll, Turns!Ask, Proved!Ask, Turns!Rest, Proved!Rest,
   Turns!NoAlert, Proved!NoAlert, Turns!written, Proved!written, Turns!Newest, Proved!Newest, Turns!Polled, Proved!Polled, Turns!Reached, Proved!Reached,
   Turns!settings, Proved!settings, Turns!history, Proved!history

LEMMA SameProcess ==
  ASSUME NEW seats, NEW found, NEW names
  PROVE  Turns!Process(seats, found, names) <=> Proved!Process(seats, found, names)
BY DEF Turns!Process, Proved!Process, Turns!Disposition, Proved!Disposition, Turns!Alerted, Proved!Alerted,
   Turns!Verdict, Proved!Verdict, Turns!Merged, Proved!Merged, Turns!Best, Proved!Best, Turns!Present, Proved!Present,
   Turns!Suspicious, Proved!Suspicious, Turns!None, Proved!None, Turns!Cleared, Proved!Cleared, Turns!Range, Proved!Range,
   Turns!Statuses, Proved!Statuses, Turns!Upserted, Proved!Upserted, Turns!NoAlert, Proved!NoAlert,
   Turns!settings, Proved!settings

LEMMA SameWhole == Turns!Whole <=> Proved!Whole
BY SameProcess, SameDropped DEF Turns!NoAlert, Proved!NoAlert, Turns!Whole, Proved!Whole, Turns!Suspicious, Proved!Suspicious, Turns!None, Proved!None

LEMMA SameOutputs ==
  ASSUME NEW found
  PROVE  Turns!Outputs(found) = Proved!Outputs(found)
BY DEF Turns!Outputs, Proved!Outputs, Turns!WholePass, Proved!WholePass, Turns!Sequential, Proved!Sequential,
   Turns!OnePass, Proved!OnePass, Turns!NeedsVerify, Proved!NeedsVerify, Turns!Names, Proved!Names,
   Turns!Suspicious, Proved!Suspicious, Turns!None, Proved!None, Turns!Range, Proved!Range

LEMMA SameSeats ==
  ASSUME NEW outputs
  PROVE  Turns!Seats(outputs) = Proved!Seats(outputs) /\ Turns!Accusers(outputs) = Proved!Accusers(outputs)
BY DEF Turns!Seats, Proved!Seats, Turns!Accusers, Proved!Accusers, Turns!FirstOf, Proved!FirstOf, Turns!Of, Proved!Of,
   Turns!Names, Proved!Names, Turns!Present, Proved!Present, Turns!Suspicious, Proved!Suspicious, Turns!None, Proved!None,
   Turns!Range, Proved!Range

LEMMA SameSingle == Turns!Single <=> Proved!Single
BY SameProcess, SameOutputs, SameSeats, SameDropped DEF Turns!Single, Proved!Single, Turns!NoAlert, Proved!NoAlert

LEMMA SameSpec == Turns!Spec => Proved!Spec
<1>1. [Turns!Next]_(Turns!vars) <=> [Proved!Next]_(Proved!vars)
  <2>1. Turns!Next <=> Proved!Next
    BY SameMoves, SameWhole, SameSingle, SameEmits DEF Turns!Next, Proved!Next
  <2>2. (UNCHANGED Turns!vars) <=> (UNCHANGED Proved!vars)
    BY DEF Turns!vars, Proved!vars, Turns!settings, Proved!settings, Turns!written, Proved!written,
           Turns!history, Proved!history
  <2> QED BY <2>1, <2>2
<1> QED BY SameInit, <1>1, PTL DEF Turns!Spec, Proved!Spec

LEMMA SameSane == Turns!Sane <=> Proved!Sane
BY DEF Turns!Sane, Proved!Sane, Turns!Statuses, Proved!Statuses

\* A packet in which the heuristics found something is alerted, unless an exception cut
\* that off, and only what was reported before it clears the row of its connection,
\* whatever the models of any stack answer.
THEOREM HitsAlwaysRaised == Turns!Spec => []HitsAreRaised
<1>1. Proved!HitsAreRaised <=> HitsAreRaised
  BY DEF HitsAreRaised, Turns!HitsAreRaised, Proved!HitsAreRaised, Turns!Packets, Proved!Packets, Turns!Cleared, Proved!Cleared,
         Turns!ClearedBefore, Proved!ClearedBefore
<1>2. Proved!Sane
  BY TurnsAssumption, SameSane
<1>3. Proved!Spec => []Proved!HitsAreRaised
  BY <1>2, Proved!HitsRaised
<1> QED BY <1>1, <1>3, SameSpec, PTL

\* A turn judges no packet twice and passes over none without a full batch of newer ones.
THEOREM JudgedOnce == Turns!Spec => []OnceEach
<1>1. Proved!OnceEach <=> OnceEach
  BY DEF OnceEach, Turns!OnceEach, Proved!OnceEach, Turns!Packets, Proved!Packets, Turns!Range, Proved!Range
<1>2. Proved!Sane
  BY TurnsAssumption, SameSane
<1>3. Proved!Spec => []Proved!OnceEach
  BY <1>2, Proved!PacketsOnce
<1> QED BY <1>1, <1>3, SameSpec, PTL

-----------------------------------------------------------------------------
(* The windows of the heuristics.  In a feed in order, a window is a list  *)
(* of packets that reached its detector, in the order they came, each      *)
(* once, and one that is not in it is too old for the last packet already. *)

LEMMA LeastOf ==
  ASSUME NEW S \in SUBSET Nat, S # {}
  PROVE  \E i \in S : \A j \in S : i <= j
<1>1. \E i \in S : \A j \in S : ~(<<j, i>> \in OpToRel(<, Nat))
  BY NatLessThanWellFounded, WFMin
<1>2. PICK i \in S : \A j \in S : ~(<<j, i>> \in OpToRel(<, Nat))
  BY <1>1
<1>3. \A j \in S : ~(j < i)
  BY <1>2 DEF OpToRel
<1> QED BY <1>3

\* f tells the entries of s among the packets S, which what describes; T are their stamps, up to m.
Listed(f, s, S, what) ==
  /\ f \in [1 .. Len(s) -> S]
  /\ \A i, j \in 1 .. Len(s) : i < j => f[i] < f[j]
  /\ \A i \in 1 .. Len(s) : s[i] = what[f[i]]
Left(f, s, S, T, m) ==
  \A x \in S : (\E i \in 1 .. Len(s) : f[i] = x) \/ T[x] < T[m] - Window
Tracked(s, S, what, T, m) == \E f : Listed(f, s, S, what) /\ Left(f, s, S, T, m)

\* A packet that does not reach the detector.
LEMMA TrackedOn ==
  ASSUME NEW m \in Nat, NEW S \in SUBSET (1 .. m), NEW s, Len(s) \in Nat, NEW what, NEW T, NEW what2, NEW T2,
         \A x \in 1 .. m : T2[x] = T[x] /\ what2[x] = what[x],
         \A x \in 1 .. m + 1 : T2[x] \in Int,  \A x \in 1 .. m : T2[x] <= T2[m + 1],
         Window \in Nat, Tracked(s, S, what, T, m)
  PROVE  Tracked(s, S, what2, T2, m + 1)
<1>1. PICK f : Listed(f, s, S, what) /\ Left(f, s, S, T, m)
  BY DEF Tracked
<1>2. Listed(f, s, S, what2)
  BY <1>1 DEF Listed
<1>3. ASSUME NEW x \in S, T[x] < T[m] - Window PROVE T2[x] < T2[m + 1] - Window
  <2>1. x \in 1 .. m /\ m \in 1 .. m /\ m + 1 \in 1 .. m + 1
    OBVIOUS
  <2>2. T2[x] < T2[m] - Window /\ T2[m] <= T2[m + 1]
    BY <1>3, <2>1
  <2>3. T2[x] \in Int /\ T2[m] \in Int /\ T2[m + 1] \in Int
    BY <2>1
  <2> QED BY ONLY <2>2, <2>3, Window \in Nat
<1>4. Left(f, s, S, T2, m + 1)
  BY <1>1, <1>3 DEF Left
<1> QED BY <1>2, <1>4 DEF Tracked

\* What an eviction leaves: the list from some entry on.
LEMMA FromYoung ==
  ASSUME NEW V, NEW s \in Seq(V), NEW young \in SUBSET (1 .. Len(s)),
         \A i \in young, j \in 1 .. Len(s) : i <= j => j \in young
  PROVE  \E g \in 0 .. Len(s) :
           /\ \A i \in 1 .. Len(s) : i \in young <=> g < i
           /\ Windows!FromFirst(s, young) \in Seq(V)  /\ Len(Windows!FromFirst(s, young)) = Len(s) - g
           /\ \A i \in 1 .. Len(s) - g : Windows!FromFirst(s, young)[i] = s[g + i]
<1>0. Len(s) \in Nat
  BY LenProperties
<1>1. CASE young = {}
  <2>1. Windows!FromFirst(s, young) = <<>>
    BY <1>1 DEF Windows!FromFirst
  <2>2. <<>> \in Seq(V) /\ Len(<<>>) = 0
    BY EmptySeq
  <2>3. PICK n \in Nat : n = Len(s)
    BY <1>0
  <2>4. n \in 0 .. n /\ n - n = 0 /\ \A i \in 1 .. n : ~(n < i)
    OBVIOUS
  <2>5. /\ \A i \in 1 .. n : i \in young <=> n < i
        /\ Windows!FromFirst(s, young) \in Seq(V)  /\ Len(Windows!FromFirst(s, young)) = n - n
        /\ \A i \in 1 .. n - n : Windows!FromFirst(s, young)[i] = s[n + i]
    <3>1. \A i \in 1 .. n : i \in young <=> n < i
      BY <1>1, <2>4
    <3>2. Windows!FromFirst(s, young) \in Seq(V) /\ Len(Windows!FromFirst(s, young)) = n - n
      BY <2>1, <2>2, <2>4
    <3>3. 1 .. n - n = {}
      OBVIOUS
    <3> QED BY ONLY <3>1, <3>2, <3>3
  <2> QED BY ONLY <2>3, <2>4, <2>5
<1>2. CASE young # {}
  <2> DEFINE first == CHOOSE i \in young : \A j \in young : i <= j
  <2>1. young \in SUBSET Nat
    BY <1>0
  <2>2. first \in young /\ \A j \in young : first <= j
    BY <1>2, <2>1, LeastOf
  <2>3. Windows!FromFirst(s, young) = SubSeq(s, first, Len(s))
    BY <1>2 DEF Windows!FromFirst
  <2> HIDE DEF first
  <2>4. first \in 1 .. Len(s) /\ first - 1 \in 0 .. Len(s)
    BY <1>0, <2>2
  <2>5. \A i \in 1 .. Len(s) : i \in young <=> first - 1 < i
    BY <1>0, <2>2, <2>4
  <2>6. \A i \in first .. Len(s) : s[i] \in V
    BY <1>0, <2>4, ElementOfSeq
  <2>7. /\ SubSeq(s, first, Len(s)) \in Seq(V)
        /\ Len(SubSeq(s, first, Len(s))) = IF first <= Len(s) THEN Len(s) - first + 1 ELSE 0
        /\ \A i \in 1 .. Len(s) - first + 1 : SubSeq(s, first, Len(s))[i] = s[first + i - 1]
    BY <1>0, <2>4, <2>6, SubSeqProperties
  <2>8. PICK n \in Nat : n = Len(s)
    BY <1>0
  <2>9. n - first + 1 = n - (first - 1) /\ \A i \in 1 .. n - (first - 1) : first + i - 1 = (first - 1) + i
    BY <2>4, <2>8
  <2>10. /\ Len(SubSeq(s, first, Len(s))) = Len(s) - (first - 1)
         /\ \A i \in 1 .. Len(s) - (first - 1) : SubSeq(s, first, Len(s))[i] = s[(first - 1) + i]
    BY <2>4, <2>7, <2>8, <2>9
  <2>11. PICK g \in 0 .. Len(s) : g = first - 1
    BY <2>4
  <2> QED BY ONLY <2>3, <2>5, <2>7, <2>10, <2>11
<1> QED BY <1>1, <1>2

\* A packet that does: what is too old is left out, and it comes last.
Reached(m, S, V, s, what, T, what2, T2, young) ==
  /\ m \in Nat  /\ S \in SUBSET (1 .. m)  /\ s \in Seq(V)  /\ young \in SUBSET (1 .. Len(s))
  /\ \A x \in 1 .. m : T2[x] = T[x] /\ what2[x] = what[x]
  /\ what2[m + 1] \in V
  /\ \A x \in 1 .. m + 1 : T2[x] \in Int
  /\ \A x, y \in 1 .. m + 1 : x <= y => T2[x] <= T2[y]
  /\ Tracked(s, S, what, T, m)
  /\ \A i \in 1 .. Len(s), x \in S : s[i] = what[x] => (i \in young <=> T2[x] >= T2[m + 1] - Window)
Young(m, S, T) == {x \in S \cup {m + 1} : T[x] >= T[m + 1] - Window}
Gathered(new, m, S, what, T) ==
  /\ Tracked(new, S \cup {m + 1}, what, T, m + 1)
  /\ Cardinality(Young(m, S, T)) = Len(new)
  /\ {new[i] : i \in 1 .. Len(new)} = {what[x] : x \in Young(m, S, T)}

LEMMA TrackedNew ==
  ASSUME Window \in Nat, NEW m, NEW S, NEW V, NEW s, NEW what, NEW T, NEW what2, NEW T2, NEW young,
         Reached(m, S, V, s, what, T, what2, T2, young)
  PROVE  Gathered(Append(Windows!FromFirst(s, young), what2[m + 1]), m, S, what2, T2)
<1> SUFFICES ASSUME m \in Nat, S \in SUBSET (1 .. m), s \in Seq(V), young \in SUBSET (1 .. Len(s)),
                    \A x \in 1 .. m : T2[x] = T[x] /\ what2[x] = what[x],  what2[m + 1] \in V,
                    \A x \in 1 .. m + 1 : T2[x] \in Int,  \A x, y \in 1 .. m + 1 : x <= y => T2[x] <= T2[y],
                    Tracked(s, S, what, T, m),
                    \A i \in 1 .. Len(s), x \in S : s[i] = what[x] => (i \in young <=> T2[x] >= T2[m + 1] - Window),
                    NEW new, new = Append(Windows!FromFirst(s, young), what2[m + 1]),
                    NEW R, R = {x \in S \cup {m + 1} : T2[x] >= T2[m + 1] - Window}
             PROVE  /\ Tracked(new, S \cup {m + 1}, what2, T2, m + 1)
                    /\ Cardinality(R) = Len(new)
                    /\ {new[i] : i \in 1 .. Len(new)} = {what2[x] : x \in R}
  BY DEF Reached, Gathered, Young
<1> DEFINE old == Windows!FromFirst(s, young)
<1>0. Len(s) \in Nat /\ m + 1 \in 1 .. m + 1 /\ \A x \in S : x \in 1 .. m /\ x \in 1 .. m + 1 /\ x < m + 1
  <2>1. Len(s) \in Nat
    BY LenProperties
  <2>2. m + 1 \in 1 .. m + 1 /\ \A x \in 1 .. m : x \in 1 .. m + 1 /\ x < m + 1
    BY ONLY m \in Nat
  <2>3. \A x \in S : x \in 1 .. m
    OBVIOUS
  <2> QED BY ONLY <2>1, <2>2, <2>3
<1>1. PICK f : Listed(f, s, S, what) /\ Left(f, s, S, T, m)
  BY DEF Tracked
<1>2. \A i \in 1 .. Len(s) : f[i] \in S /\ s[i] = what[f[i]] /\ (i \in young <=> T2[f[i]] >= T2[m + 1] - Window)
  BY <1>1 DEF Listed
<1>3. \A i, j \in 1 .. Len(s) : i < j => f[i] < f[j]
  BY <1>1 DEF Listed
<1>4. ASSUME NEW i \in young, NEW j \in 1 .. Len(s), i <= j PROVE j \in young
  <2>1. i \in 1 .. Len(s) /\ f[i] \in 1 .. m + 1 /\ f[j] \in 1 .. m + 1 /\ f[i] <= f[j]
    <3>1. i \in 1 .. Len(s) /\ j \in 1 .. Len(s) /\ (i < j \/ i = j)
      BY <1>0, <1>4
    <3>2. f[i] \in S /\ f[j] \in S
      BY ONLY <1>2, <3>1
    <3>3. f[i] \in 1 .. m + 1 /\ f[j] \in 1 .. m + 1
      BY <1>0, <3>2
    <3>4. f[i] < f[j] \/ f[i] = f[j]
      BY ONLY <1>3, <3>1
    <3> QED BY <3>1, <3>3, <3>4
  <2>2. T2[f[i]] <= T2[f[j]] /\ T2[f[i]] >= T2[m + 1] - Window
    BY <1>2, <1>4, <2>1
  <2>3. T2[f[i]] \in Int /\ T2[f[j]] \in Int /\ T2[m + 1] \in Int
    BY <1>0, <2>1
  <2>4. T2[f[j]] >= T2[m + 1] - Window
    BY ONLY <2>2, <2>3, Window \in Nat
  <2> QED BY <1>2, <2>4
<1>a. \A i \in young, j \in 1 .. Len(s) : i <= j => j \in young
  BY <1>4
<1>b. s \in Seq(V) /\ young \in SUBSET (1 .. Len(s))
  OBVIOUS
<1>5. PICK g \in 0 .. Len(s) :
        /\ \A i \in 1 .. Len(s) : i \in young <=> g < i
        /\ old \in Seq(V)  /\ Len(old) = Len(s) - g
        /\ \A i \in 1 .. Len(s) - g : old[i] = s[g + i]
  <2>1. s \in Seq(V)
    OBVIOUS
  <2>2. young \in SUBSET (1 .. Len(s))
    OBVIOUS
  <2> HIDE DEF old
  <2>3. old = Windows!FromFirst(s, young)
    BY DEF old
  <2>4. \E g \in 0 .. Len(s) :
           /\ \A i \in 1 .. Len(s) : i \in young <=> g < i
           /\ Windows!FromFirst(s, young) \in Seq(V)  /\ Len(Windows!FromFirst(s, young)) = Len(s) - g
           /\ \A i \in 1 .. Len(s) - g : Windows!FromFirst(s, young)[i] = s[g + i]
    BY ONLY <1>a, <1>b, FromYoung
  <2> QED BY ONLY <2>3, <2>4
<1>6. PICK n \in Nat : n = Len(s) - g
  <2>1. PICK z \in Nat : z = Len(s)
    BY <1>0
  <2>2. g \in 0 .. z
    BY <2>1
  <2>3. z - g \in Nat
    BY ONLY <2>2, z \in Nat
  <2> QED BY ONLY <2>1, <2>3
<1>7. \A i \in 1 .. n : g + i \in 1 .. Len(s) /\ g < g + i
  BY <1>0, <1>5, <1>6
<1>8. /\ Len(new) = n + 1  /\ new[n + 1] = what2[m + 1]
      /\ \A i \in 1 .. n : new[i] = s[g + i]
  <2>0. new = Append(old, what2[m + 1])
    OBVIOUS
  <2> HIDE DEF old
  <2>1. /\ Len(old) = n /\ old \in Seq(V) /\ \A i \in 1 .. n : old[i] = s[g + i]
    BY <1>5, <1>6
  <2>2. /\ Len(new) = Len(old) + 1 /\ new[Len(old) + 1] = what2[m + 1]
        /\ \A i \in 1 .. Len(old) : new[i] = old[i]
    BY <2>0, <2>1, AppendProperties
  <2> QED BY <2>1, <2>2
<1>c. \A x : x \in R <=> x \in S \cup {m + 1} /\ T2[x] >= T2[m + 1] - Window
  OBVIOUS
<1>d. n \in Nat /\ g \in Nat
  BY <1>0, <1>5, <1>6
<1> HIDE DEF old
<1> DEFINE h == [i \in 1 .. n + 1 |-> IF i <= n THEN f[g + i] ELSE m + 1]
<1>9. ASSUME NEW i \in 1 .. n PROVE h[i] = f[g + i] /\ h[i] \in S /\ h[i] \in R /\ new[i] = what2[h[i]]
  <2>1. h[i] = f[g + i]
    BY <1>6
  <2>2. g + i \in 1 .. Len(s) /\ g + i \in young
    BY <1>5, <1>7
  <2>3. f[g + i] \in S /\ s[g + i] = what[f[g + i]] /\ T2[f[g + i]] >= T2[m + 1] - Window
    BY <1>2, <2>2
  <2>4. what2[f[g + i]] = what[f[g + i]]
    BY <1>0, <2>3
  <2>5. f[g + i] \in R
    BY <1>c, <2>3
  <2>6. new[i] = what2[f[g + i]]
    BY <1>8, <2>3, <2>4
  <2> HIDE DEF h
  <2> QED BY <2>1, <2>3, <2>5, <2>6
<1>10. h[n + 1] = m + 1 /\ m + 1 \in R /\ new[n + 1] = what2[h[n + 1]]
  <2>1. h[n + 1] = m + 1
    BY <1>6
  <2>2. T2[m + 1] >= T2[m + 1] - Window
    BY <1>0
  <2> QED BY <1>8, <1>c, <2>1, <2>2
<1>11. \A i \in 1 .. n + 1 : i \in 1 .. n \/ i = n + 1
  BY ONLY <1>d
<1>12. h \in [1 .. n + 1 -> R] /\ h \in [1 .. n + 1 -> S \cup {m + 1}]
  <2>1. \A i \in 1 .. n + 1 : h[i] \in R
    BY <1>9, <1>10, <1>11
  <2>2. \A i \in 1 .. n + 1 : h[i] \in S \cup {m + 1}
    BY <1>c, <2>1
  <2> QED BY <2>1, <2>2
<1> HIDE DEF h
<1>13. ASSUME NEW i \in 1 .. n + 1, NEW j \in 1 .. n + 1, i < j PROVE h[i] < h[j]
  <2>1. i \in 1 .. n
    BY <1>d, <1>13
  <2>2. CASE j = n + 1
    BY <1>0, <1>9, <1>10, <2>1, <2>2
  <2>3. CASE j \in 1 .. n
    <3>1. g + i < g + j
      BY <1>5, <1>6, <1>13, <2>1, <2>3
    <3>2. f[g + i] < f[g + j]
      BY <1>3, <1>7, <2>1, <2>3, <3>1
    <3> QED BY <1>9, <2>1, <2>3, <3>2
  <2> QED BY <1>11, <2>2, <2>3
<1>14. ASSUME NEW x \in R PROVE \E i \in 1 .. n + 1 : h[i] = x
  <2>1. CASE x = m + 1
    BY <1>10, <1>d, <2>1
  <2>2. CASE x \in S
    <3>1. x \in 1 .. m /\ x \in 1 .. m + 1 /\ m \in 1 .. m /\ m \in 1 .. m + 1 /\ m <= m + 1
      BY <1>0, <2>2
    <3>2. T2[x] = T[x] /\ T2[m] = T[m] /\ T2[x] \in Int /\ T2[m] \in Int /\ T2[m + 1] \in Int /\ T2[m] <= T2[m + 1]
      BY <1>0, <3>1
    <3>3. ~(T[x] < T[m] - Window)
      <4>1. T2[x] >= T2[m + 1] - Window
        BY <1>14, <1>c
      <4> QED BY ONLY <3>2, <4>1, Window \in Nat
    <3>4. PICK i \in 1 .. Len(s) : f[i] = x
      BY <1>1, <2>2, <3>3 DEF Left
    <3>5. g < i
      BY <1>2, <1>5, <1>14, <1>c, <3>4
    <3>6. i - g \in 1 .. n /\ g + (i - g) = i /\ i - g \in 1 .. n + 1
      BY <1>0, <1>5, <1>6, <3>4, <3>5
    <3>7. h[i - g] = f[g + (i - g)]
      BY <1>9, <3>6
    <3> QED BY <3>4, <3>6, <3>7
  <2> QED BY <1>14, <1>c, <2>1, <2>2
<1>15. Listed(h, new, S \cup {m + 1}, what2)
  <2>1. \A i \in 1 .. n + 1 : new[i] = what2[h[i]]
    BY <1>9, <1>10, <1>11
  <2> QED BY <1>8, <1>12, <1>13, <2>1 DEF Listed
<1>16. Left(h, new, S \cup {m + 1}, T2, m + 1)
  <2> SUFFICES ASSUME NEW x \in S \cup {m + 1}, ~(T2[x] < T2[m + 1] - Window)
               PROVE  \E i \in 1 .. n + 1 : h[i] = x
    BY <1>8 DEF Left
  <2>1. T2[x] \in Int /\ T2[m + 1] \in Int
    BY <1>0
  <2>2. T2[x] >= T2[m + 1] - Window
    BY <2>1
  <2> QED BY <1>14, <1>c, <2>2
<1>17. Cardinality(R) = n + 1
  <2>1. IsFiniteSet(1 .. n + 1) /\ Cardinality(1 .. n + 1) = n + 1
    <3>1. IsFiniteSet(1 .. n + 1) /\ Cardinality(1 .. n + 1) = IF 1 <= n + 1 THEN (n + 1) - 1 + 1 ELSE 0
      BY <1>6, FS_Interval
    <3> QED BY <1>6, <3>1
  <2>2. \A i, j \in 1 .. n + 1 : h[i] = h[j] => i = j
    <3> SUFFICES ASSUME NEW i \in 1 .. n + 1, NEW j \in 1 .. n + 1, i # j PROVE h[i] # h[j]
      OBVIOUS
    <3>1. i < j \/ j < i
      BY <1>6
    <3>2. h[i] < h[j] \/ h[j] < h[i]
      BY <1>13, <3>1
    <3>3. h[i] \in S \cup {m + 1} /\ h[j] \in S \cup {m + 1}
      BY ONLY <1>12, i \in 1 .. n + 1, j \in 1 .. n + 1
    <3>4. \A x \in S \cup {m + 1} : x \in Int
      BY <1>0
    <3>5. h[i] \in Int /\ h[j] \in Int
      BY ONLY <3>3, <3>4
    <3> QED BY ONLY <3>2, <3>5
  <2>3. h \in [1 .. n + 1 -> R] /\ DOMAIN h = 1 .. n + 1
    BY ONLY <1>12
  <2>4. \A x \in R : \E i \in 1 .. n + 1 : h[i] = x
    BY <1>14
  <2>5. h \in Injection(1 .. n + 1, R)
    BY ONLY <2>2, <2>3 DEF Injection, IsInjective
  <2>6. h \in Surjection(1 .. n + 1, R)
    BY ONLY <2>3, <2>4 DEF Surjection
  <2>7. h \in Bijection(1 .. n + 1, R)
    BY ONLY <2>5, <2>6 DEF Bijection
  <2>8. ExistsBijection(1 .. n + 1, R)
    BY ONLY <2>7 DEF ExistsBijection
  <2> QED BY ONLY <2>1, <2>8, FS_Bijection
<1>18. {new[i] : i \in 1 .. n + 1} = {what2[x] : x \in R}
  <2>1. \A i \in 1 .. n + 1 : h[i] \in R /\ new[i] = what2[h[i]]
    BY <1>9, <1>10, <1>11
  <2>2. \A x \in R : \E i \in 1 .. n + 1 : h[i] = x
    BY <1>14
  <2>3. \A x \in R : \E i \in 1 .. n + 1 : what2[x] = new[i]
    BY ONLY <2>1, <2>2
  <2> QED BY ONLY <2>1, <2>3
<1> QED BY <1>8, <1>15, <1>16, <1>17, <1>18 DEF Tracked

LEMMA FromFirstType ==
  ASSUME NEW V, NEW s \in Seq(V), NEW young \in SUBSET (1 .. Len(s))
  PROVE  Windows!FromFirst(s, young) \in Seq(V)
<1>0. Len(s) \in Nat
  BY LenProperties
<1>1. CASE young = {}
  BY <1>1, EmptySeq DEF Windows!FromFirst
<1>2. CASE young # {}
  <2> DEFINE first == CHOOSE i \in young : \A j \in young : i <= j
  <2>1. young \in SUBSET Nat
    BY <1>0
  <2>2. first \in young
    BY <1>2, <2>1, LeastOf
  <2>3. Windows!FromFirst(s, young) = SubSeq(s, first, Len(s))
    BY <1>2 DEF Windows!FromFirst
  <2> HIDE DEF first
  <2>4. \A i \in first .. Len(s) : s[i] \in V
    BY <1>0, <2>2, ElementOfSeq
  <2>5. SubSeq(s, first, Len(s)) \in Seq(V)
    BY <1>0, <2>2, <2>4, SubSeqProperties
  <2> QED BY <2>3, <2>5
<1> QED BY <1>1, <1>2

-----------------------------------------------------------------------------
\* The history h as the lemmas above see it.
Looks == [at : Int, kind : Kinds, found : Windows!Found]
Stamps(h) == [i \in 1 .. Len(h) |-> h[i].at]
Pairs(h)  == [i \in 1 .. Len(h) |-> <<h[i].at, h[i].kind.port>>]
Ascending(h) == \A x, y \in 1 .. Len(h) : x <= y => h[x].at <= h[y].at
Of(h, Q)  == {i \in 1 .. Len(h) : h[i] \in Q}
Held(h, Q) == {i \in Of(h, Q) : h[i].at >= h[Len(h)].at - Window}
SshLooks  == {o \in Looks : Windows!IsSsh(o)}
AuthLooks(p) == {o \in Looks : Windows!ReachesAuth(o) /\ o.kind.port = p}
PortLooks == {o \in Looks : Windows!ReachesPorts(o)}

LEMMA Longer ==
  ASSUME NEW h \in Seq(Looks), NEW e \in Looks, NEW h2, h2 = Append(h, e)
  PROVE  /\ Len(h) \in Nat  /\ h2 \in Seq(Looks)  /\ Len(h2) = Len(h) + 1  /\ h2[Len(h) + 1] = e
         /\ \A i \in 1 .. Len(h) : h2[i] = h[i] /\ h[i] \in Looks
         /\ \A i \in 1 .. Len(h) + 1 : h2[i] \in Looks
<1>1. /\ h2 \in Seq(Looks)  /\ Len(h2) = Len(h) + 1  /\ h2[Len(h) + 1] = e  /\ \A i \in 1 .. Len(h) : h2[i] = h[i]
  BY AppendProperties
<1>2. Len(h) \in Nat
  BY LenProperties
<1>3. \A i \in 1 .. Len(h) : h[i] \in Looks
  BY ElementOfSeq
<1>4. \A i \in 1 .. Len(h) + 1 : h2[i] \in Looks
  BY <1>1, ElementOfSeq
<1> QED BY <1>1, <1>2, <1>3, <1>4

\* One window when a packet is analysed: what it shows of its entries is what.
Moved(h, e, Q, V, s, what, what2, young, s2) ==
  /\ h \in Seq(Looks)  /\ e \in Looks  /\ Ascending(Append(h, e))
  /\ s \in Seq(V)  /\ young \in SUBSET (1 .. Len(s))
  /\ \A x \in 1 .. Len(h) : what2[x] = what[x]
  /\ what2[Len(h) + 1] \in V
  /\ Tracked(s, Of(h, Q), what, Stamps(h), Len(h))
  /\ \A i \in 1 .. Len(s), x \in 1 .. Len(h) : s[i] = what[x] => (i \in young <=> h[x].at >= e.at - Window)
  /\ s2 = IF e \in Q THEN Append(Windows!FromFirst(s, young), what2[Len(h) + 1]) ELSE s
HeldIn(s, h, Q, what) ==
  /\ Cardinality(Held(h, Q)) = Len(s)
  /\ {s[i] : i \in 1 .. Len(s)} = {what[x] : x \in Held(h, Q)}

LEMMA WindowMoves ==
  ASSUME Window \in Nat, NEW h, NEW e, NEW Q, NEW V, NEW s, NEW what, NEW what2, NEW young, NEW s2,
         Moved(h, e, Q, V, s, what, what2, young, s2), NEW h2, h2 = Append(h, e)
  PROVE  /\ Tracked(s2, Of(h2, Q), what2, Stamps(h2), Len(h2))
         /\ e \in Q => HeldIn(s2, h2, Q, what2)
<1> SUFFICES ASSUME h \in Seq(Looks), e \in Looks, Ascending(h2), s \in Seq(V), young \in SUBSET (1 .. Len(s)),
                    \A x \in 1 .. Len(h) : what2[x] = what[x],  what2[Len(h) + 1] \in V,
                    Tracked(s, Of(h, Q), what, Stamps(h), Len(h)),
                    \A i \in 1 .. Len(s), x \in 1 .. Len(h) :
                      s[i] = what[x] => (i \in young <=> h[x].at >= e.at - Window),
                    s2 = IF e \in Q THEN Append(Windows!FromFirst(s, young), what2[Len(h) + 1]) ELSE s
             PROVE  /\ Tracked(s2, Of(h2, Q), what2, Stamps(h2), Len(h2))
                    /\ e \in Q => /\ Cardinality(Held(h2, Q)) = Len(s2)
                                  /\ {s2[i] : i \in 1 .. Len(s2)} = {what2[x] : x \in Held(h2, Q)}
  BY DEF Moved, HeldIn
<1>1. /\ Len(h) \in Nat  /\ Len(h2) = Len(h) + 1  /\ h2[Len(h) + 1] = e
      /\ \A i \in 1 .. Len(h) : h2[i] = h[i]
      /\ \A i \in 1 .. Len(h) + 1 : h2[i] \in Looks
  BY Longer
<1>2. PICK m \in Nat : m = Len(h)
  BY <1>1
<1>3. PICK T, T2 : T = Stamps(h) /\ T2 = Stamps(h2)
  OBVIOUS
<1>4. \A x \in 1 .. m + 1 : T2[x] = h2[x].at /\ T2[x] \in Int
  BY <1>1, <1>2, <1>3 DEF Stamps, Looks
<1>5. \A x \in 1 .. m : T[x] = h[x].at /\ T2[x] = T[x] /\ x \in 1 .. m + 1
  BY <1>1, <1>2, <1>3 DEF Stamps
<1>6. m + 1 \in 1 .. m + 1 /\ T2[m + 1] = e.at
  BY <1>1, <1>2, <1>4
<1>7. \A x, y \in 1 .. m + 1 : x <= y => T2[x] <= T2[y]
  BY <1>1, <1>2, <1>4 DEF Ascending
<1>8. Of(h, Q) \in SUBSET (1 .. m)
  BY <1>2 DEF Of
<1>9. \A x \in 1 .. m : T2[x] = T[x] /\ what2[x] = what[x]
  BY <1>2, <1>5
<1>10. Tracked(s, Of(h, Q), what, T, m)
  BY <1>2, <1>3
<1>11. CASE e \notin Q
  <2>1. Of(h2, Q) = Of(h, Q)
    <3>1. \A i \in 1 .. m + 1 : i \in 1 .. m \/ i = m + 1
      OBVIOUS
    <3>2. \A i \in 1 .. m + 1 : h2[i] \in Q <=> i \in 1 .. m /\ h[i] \in Q
      BY <1>1, <1>2, <1>11, <3>1
    <3>3. \A i : i \in Of(h2, Q) <=> i \in 1 .. m + 1 /\ h2[i] \in Q
      BY <1>1, <1>2 DEF Of
    <3>4. \A i : i \in Of(h, Q) <=> i \in 1 .. m /\ h[i] \in Q
      BY <1>2 DEF Of
    <3>5. \A i \in 1 .. m : i \in 1 .. m + 1
      BY <1>5
    <3> QED BY ONLY <3>2, <3>3, <3>4, <3>5
  <2>2. \A x \in 1 .. m : T2[x] <= T2[m + 1]
    BY <1>5, <1>6, <1>7
  <2>3. Len(s) \in Nat
    BY LenProperties
  <2>4. \A x \in 1 .. m + 1 : T2[x] \in Int
    BY <1>4
  <2>5. Tracked(s, Of(h, Q), what2, T2, m + 1)
    BY ONLY m \in Nat, Window \in Nat, <1>8, <1>9, <1>10, <2>2, <2>3, <2>4, TrackedOn
  <2>6. s2 = s
    BY <1>11
  <2> QED BY ONLY <1>1, <1>2, <1>3, <1>11, <2>1, <2>5, <2>6
<1>12. CASE e \in Q
  <2> DEFINE new == Append(Windows!FromFirst(s, young), what2[m + 1])
             R   == {x \in Of(h, Q) \cup {m + 1} : T2[x] >= T2[m + 1] - Window}
  <2>1. Of(h2, Q) = Of(h, Q) \cup {m + 1}
    <3>1. \A i : i \in 1 .. m + 1 <=> i \in 1 .. m \/ i = m + 1
      OBVIOUS
    <3>2. \A i \in 1 .. m : h2[i] \in Q <=> h[i] \in Q
      BY <1>1, <1>2
    <3>3. h2[m + 1] \in Q
      BY <1>1, <1>2, <1>12
    <3>4. \A i : i \in Of(h2, Q) <=> i \in 1 .. m + 1 /\ h2[i] \in Q
      BY <1>1, <1>2 DEF Of
    <3>5. \A i : i \in Of(h, Q) <=> i \in 1 .. m /\ h[i] \in Q
      BY <1>2 DEF Of
    <3> QED BY ONLY <3>1, <3>2, <3>3, <3>4, <3>5
  <2>2. what2[m + 1] \in V /\ s2 = new
    BY <1>2, <1>12
  <2>3. \A i \in 1 .. Len(s), x \in Of(h, Q) : s[i] = what[x] => (i \in young <=> T2[x] >= T2[m + 1] - Window)
    BY <1>2, <1>5, <1>6, <1>8
  <2>4. \A x \in 1 .. m + 1 : T2[x] \in Int
    BY <1>4
  <2>a. Reached(m, Of(h, Q), V, s, what, T, what2, T2, young)
    BY <1>7, <1>8, <1>9, <1>10, <2>2, <2>3, <2>4 DEF Reached
  <2>b. Gathered(new, m, Of(h, Q), what2, T2)
    BY ONLY <2>a, TrackedNew, Window \in Nat
  <2>5. /\ Tracked(new, Of(h, Q) \cup {m + 1}, what2, T2, m + 1)
        /\ Cardinality(R) = Len(new)
        /\ {new[i] : i \in 1 .. Len(new)} = {what2[x] : x \in R}
    BY ONLY <2>b DEF Gathered, Young
  <2>6. Held(h2, Q) = R
    <3>1. \A x \in Of(h, Q) \cup {m + 1} : x \in 1 .. m + 1
      BY <1>8
    <3>2. \A x \in Of(h, Q) \cup {m + 1} : h2[x].at = T2[x]
      BY <1>4, <3>1
    <3>3. h2[Len(h2)].at = T2[m + 1]
      BY <1>1, <1>2, <1>6
    <3> QED BY ONLY <2>1, <3>2, <3>3 DEF Held
  <2>7. Len(h2) = m + 1
    BY <1>1, <1>2
  <2> HIDE DEF new, R
  <2> QED BY ONLY <1>3, <2>1, <2>2, <2>5, <2>6, <2>7
<1> QED BY <1>11, <1>12

-----------------------------------------------------------------------------
\* What a look at a packet of kind k does: e is what the history says of it.
LEMMA LookSays ==
  ASSUME NEW k \in Kinds, NEW now \in Int, Windows!Analyze(k, now)
  PROVE  \E e \in Looks :
           /\ e.at = now /\ e.kind = k /\ seen' = Append(seen, e)
           /\ ssh' = IF Windows!IsSsh(e) THEN Append(Windows!Evicted(ssh, now), now) ELSE ssh
           /\ e.found = "ssh" <=> Windows!IsSsh(e) /\ Len(ssh') >= SshBurst
           /\ auth' = IF Windows!ReachesAuth(e)
                      THEN [auth EXCEPT ![k.port] = Append(Windows!Evicted(auth[k.port], now), now)]
                      ELSE auth
           /\ e.found = "auth" <=> Windows!ReachesAuth(e) /\ Len(auth'[k.port]) >= AuthBurst
           /\ ports' = IF Windows!ReachesPorts(e)
                       THEN Append(Windows!EvictedPorts(now), <<now, k.port>>) ELSE ports
           /\ e.found = "ports" <=> Windows!ReachesPorts(e) /\
                Cardinality(Windows!PortsIn(ports')) >= ScanPorts
<1> DEFINE named    == k.text = "scan" \/ (k.text = "tool" /\ k.port \in AuthPorts)
           sshFound == ~named /\ k.ssh /\ Len(ssh') >= SshBurst
           toAuth   == ~named /\ ~sshFound /\ k.port \in AuthPorts
           authFound == toAuth /\ Len(auth'[k.port]) >= AuthBurst
           toPorts  == ~named /\ ~sshFound /\ ~authFound /\ k.tcp /\ k.port > 0
           many     == Cardinality(Windows!PortsIn(ports')) >= ScanPorts
           found    == CASE k.text = "scan" -> "scan"
                         [] k.text = "tool" /\ named -> "tool"
                         [] sshFound  -> "ssh"
                         [] authFound -> "auth"
                         [] toPorts /\ many -> "ports"
                         [] OTHER -> "none"
           e == [at |-> now, kind |-> k, found |-> found]
<1>0. k.ssh \in BOOLEAN /\ k.tcp \in BOOLEAN
  BY WindowsAssumption DEF Windows!Sane
<1>1. /\ ssh' = IF ~named /\ k.ssh THEN Append(Windows!Evicted(ssh, now), now) ELSE ssh
      /\ auth' = IF toAuth THEN [auth EXCEPT ![k.port] = Append(Windows!Evicted(auth[k.port], now), now)] ELSE auth
      /\ ports' = IF toPorts THEN Append(Windows!EvictedPorts(now), <<now, k.port>>) ELSE ports
      /\ seen' = Append(seen, e)
  BY DEF Windows!Analyze
<1> HIDE DEF many
<1>2. /\ found \in Windows!Found
      /\ named <=> found \in {"scan", "tool"}
      /\ found = "ssh" <=> sshFound
      /\ found = "auth" <=> authFound
      /\ found = "ports" <=> toPorts /\ many
  <2>1. CASE k.text = "scan"
    BY <2>1 DEF Windows!Found
  <2>2. CASE k.text # "scan" /\ named
    BY <2>2 DEF Windows!Found
  <2>3. CASE ~named
    <3>0. k.text # "scan" /\ ~(k.text = "tool" /\ named)
      BY <2>3
    <3>1. CASE sshFound
      <4>1. found = "ssh" /\ ~authFound /\ ~toPorts
        BY <3>0, <3>1
      <4> QED BY <2>3, <3>1, <4>1 DEF Windows!Found
    <3>2. CASE ~sshFound /\ authFound
      <4>1. found = "auth" /\ ~toPorts
        BY <3>0, <3>2
      <4> QED BY <2>3, <3>2, <4>1 DEF Windows!Found
    <3>3. CASE ~sshFound /\ ~authFound /\ toPorts /\ many
      <4>1. found = "ports"
        BY <3>0, <3>3
      <4> QED BY <2>3, <3>3, <4>1 DEF Windows!Found
    <3>4. CASE ~sshFound /\ ~authFound /\ ~(toPorts /\ many)
      <4>1. found = "none"
        BY <3>0, <3>4
      <4> QED BY <2>3, <3>4, <4>1 DEF Windows!Found
    <3> QED BY <3>1, <3>2, <3>3, <3>4
  <2> QED BY <2>1, <2>2, <2>3
<1> HIDE DEF found
<1>3. e \in Looks /\ e.at = now /\ e.kind = k /\ e.found = found
  BY <1>2 DEF Looks
<1>4. Windows!IsSsh(e) <=> ~named /\ k.ssh
  BY <1>0, <1>2, <1>3 DEF Windows!IsSsh, Windows!Plain
<1>5. Windows!ReachesAuth(e) <=> toAuth
  BY <1>2, <1>3 DEF Windows!ReachesAuth, Windows!Plain
<1>6. Windows!ReachesPorts(e) <=> toPorts
  <2>1. found \in {"none", "ports"} <=> ~named /\ ~sshFound /\ ~authFound
    BY <1>2 DEF Windows!Found
  <2> QED BY <1>0, <1>3, <2>1 DEF Windows!ReachesPorts
<1> HIDE DEF e
<1>7. /\ ssh' = IF Windows!IsSsh(e) THEN Append(Windows!Evicted(ssh, now), now) ELSE ssh
      /\ e.found = "ssh" <=> Windows!IsSsh(e) /\ Len(ssh') >= SshBurst
  BY <1>1, <1>2, <1>3, <1>4
<1>8. /\ auth' = IF Windows!ReachesAuth(e)
                 THEN [auth EXCEPT ![k.port] = Append(Windows!Evicted(auth[k.port], now), now)] ELSE auth
      /\ e.found = "auth" <=> Windows!ReachesAuth(e) /\ Len(auth'[k.port]) >= AuthBurst
  BY <1>1, <1>2, <1>3, <1>5
<1>9. /\ ports' = IF Windows!ReachesPorts(e) THEN Append(Windows!EvictedPorts(now), <<now, k.port>>) ELSE ports
      /\ e.found = "ports" <=> Windows!ReachesPorts(e) /\ Cardinality(Windows!PortsIn(ports')) >= ScanPorts
  BY <1>1, <1>2, <1>3, <1>6 DEF many
<1> QED BY <1>1, <1>3, <1>7, <1>8, <1>9

-----------------------------------------------------------------------------
WindowsTracked ==
  /\ Ascending(seen)
  /\ Tracked(ssh, Of(seen, SshLooks), Stamps(seen), Stamps(seen), Len(seen))
  /\ \A p \in AuthPorts : Tracked(auth[p], Of(seen, AuthLooks(p)), Stamps(seen), Stamps(seen), Len(seen))
  /\ Tracked(ports, Of(seen, PortLooks), Pairs(seen), Stamps(seen), Len(seen))
WindowsTyped ==
  /\ ssh \in Seq(Int)  /\ auth \in [AuthPorts -> Seq(Int)]  /\ ports \in Seq(Int \X Nat)
  /\ seen \in Seq(Looks)
WindowsInv ==
  /\ WindowsTyped
  /\ Windows!InOrder => WindowsTracked
  /\ Windows!BurstsAreExact

LEMMA WindowsStart == ASSUME Windows!Init PROVE WindowsInv
<1>1. WindowsTyped
  BY EmptySeq DEF Windows!Init, WindowsTyped
<1>2. Len(<<>>) = 0 /\ 1 .. 0 = {}
  BY EmptySeq
<1>3. ASSUME NEW what, NEW Q, NEW T PROVE Tracked(<<>>, Of(<<>>, Q), what, T, 0)
  <2> DEFINE f == [i \in 1 .. 0 |-> 0]
  <2>1. Of(<<>>, Q) = {} /\ f \in [1 .. Len(<<>>) -> Of(<<>>, Q)]
    BY <1>2 DEF Of
  <2>2. Listed(f, <<>>, Of(<<>>, Q), what) /\ Left(f, <<>>, Of(<<>>, Q), T, 0)
    BY <1>2, <2>1 DEF Listed, Left
  <2> QED BY <2>2 DEF Tracked
<1>4. Ascending(seen)
  BY <1>2 DEF Ascending, Windows!Init
<1>5. /\ Tracked(ssh, Of(seen, SshLooks), Stamps(seen), Stamps(seen), Len(seen))
      /\ Tracked(ports, Of(seen, PortLooks), Pairs(seen), Stamps(seen), Len(seen))
      /\ \A p \in AuthPorts : Tracked(auth[p], Of(seen, AuthLooks(p)), Stamps(seen), Stamps(seen), Len(seen))
  BY <1>2, <1>3 DEF Windows!Init
<1>6. Windows!BurstsAreExact
  BY DEF Windows!BurstsAreExact, Windows!Init
<1> QED BY <1>1, <1>4, <1>5, <1>6 DEF WindowsInv, WindowsTracked

\* What the module says of the windows in the words of the lemmas, after a step.
LEMMA HeldIsAround ==
  ASSUME seen' \in Seq(Looks), Len(seen') # 0, NEW p, p = seen'[Len(seen')].kind.port
  PROVE  /\ Windows!Last(seen)' = seen'[Len(seen')]
         /\ Windows!Around(Windows!IsSsh)' = Held(seen', SshLooks)
         /\ Windows!Around(Windows!ReachesPorts)' = Held(seen', PortLooks)
         /\ Windows!Around(LAMBDA o : Windows!ReachesAuth(o) /\ o.kind.port = Windows!Last(seen).kind.port)'
              = Held(seen', AuthLooks(p))
<1>1. Len(seen') \in Nat /\ DOMAIN seen' = 1 .. Len(seen') /\ \A i \in 1 .. Len(seen') : seen'[i] \in Looks
  BY LenProperties, ElementOfSeq
<1>2. Windows!Last(seen)' = seen'[Len(seen')]
  BY DEF Windows!Last
<1>3. Windows!Around(Windows!IsSsh)' = Held(seen', SshLooks)
  BY <1>1, <1>2 DEF Held, Of, SshLooks, Windows!Around
<1>4. Windows!Around(Windows!ReachesPorts)' = Held(seen', PortLooks)
  BY <1>1, <1>2 DEF Held, Of, PortLooks, Windows!Around
<1>5. Windows!Around(LAMBDA o : Windows!ReachesAuth(o) /\ o.kind.port = Windows!Last(seen).kind.port)'
        = Held(seen', AuthLooks(p))
  BY <1>1, <1>2 DEF Held, Of, AuthLooks, Windows!Around
<1> QED BY <1>2, <1>3, <1>4, <1>5

LEMMA OrderKept ==
  ASSUME NEW h \in Seq(Looks), NEW e \in Looks, NEW h2, h2 = Append(h, e), Ascending(h),
         \A i \in 2 .. Len(h2) : h2[i - 1].at <= h2[i].at
  PROVE  Ascending(h2)
<1>1. /\ Len(h) \in Nat  /\ Len(h2) = Len(h) + 1  /\ h2[Len(h) + 1] = e
      /\ \A i \in 1 .. Len(h) : h2[i] = h[i]
      /\ \A i \in 1 .. Len(h) + 1 : h2[i] \in Looks
  BY Longer
<1>2. PICK m \in Nat : m = Len(h)
  BY <1>1
<1>3. PICK T : T = Stamps(h2)
  OBVIOUS
<1>4. \A x \in 1 .. m + 1 : T[x] = h2[x].at /\ T[x] \in Int
  BY <1>1, <1>2, <1>3 DEF Stamps, Looks
<1>5. \A x, y \in 1 .. m : x <= y => T[x] <= T[y]
  <2>1. \A x \in 1 .. m : x \in 1 .. m + 1 /\ h2[x] = h[x]
    BY <1>1, <1>2
  <2> QED BY <1>2, <1>4, <2>1 DEF Ascending
<1>6. \A i \in 2 .. m + 1 : T[i - 1] <= T[i]
  <2>1. \A i \in 2 .. m + 1 : i \in 1 .. m + 1 /\ i - 1 \in 1 .. m + 1
    OBVIOUS
  <2> QED BY <1>1, <1>2, <1>4, <2>1
<1>7. ASSUME NEW x \in 1 .. m + 1, NEW y \in 1 .. m + 1, x <= y PROVE T[x] <= T[y]
  <2>1. CASE y \in 1 .. m
    BY <1>5, <1>7, <2>1
  <2>2. CASE x = y
    BY <1>4, <2>2
  <2>3. CASE y = m + 1 /\ x \in 1 .. m
    <3>1. m \in 1 .. m /\ x <= m /\ m + 1 \in 2 .. m + 1 /\ (m + 1) - 1 = m /\ m \in 1 .. m + 1
      BY <2>3
    <3>2. T[x] <= T[m] /\ T[m] <= T[m + 1]
      BY <1>5, <1>6, <2>3, <3>1
    <3>3. T[x] \in Int /\ T[m] \in Int /\ T[m + 1] \in Int
      BY <1>4, <2>3, <3>1
    <3> QED BY ONLY <2>3, <3>2, <3>3
  <2> QED BY <1>7, <2>1, <2>2, <2>3
<1> QED BY <1>1, <1>2, <1>4, <1>7 DEF Ascending

LEMMA WindowsLookTyped ==
  ASSUME WindowsTyped, NEW k \in Kinds, NEW now \in Int, Windows!Analyze(k, now)
  PROVE  WindowsTyped'
<1>1. PICK e \in Looks :
           /\ seen' = Append(seen, e)
           /\ ssh' = IF Windows!IsSsh(e) THEN Append(Windows!Evicted(ssh, now), now) ELSE ssh
           /\ auth' = IF Windows!ReachesAuth(e)
                      THEN [auth EXCEPT ![k.port] = Append(Windows!Evicted(auth[k.port], now), now)]
                      ELSE auth
           /\ ports' = IF Windows!ReachesPorts(e)
                       THEN Append(Windows!EvictedPorts(now), <<now, k.port>>) ELSE ports
           /\ e.kind = k
  BY LookSays
<1>2. ASSUME NEW s \in Seq(Int) PROVE Append(Windows!Evicted(s, now), now) \in Seq(Int)
  <2> DEFINE young == {i \in DOMAIN s : ~Windows!Old(s[i], now)}
  <2>1. young \in SUBSET (1 .. Len(s))
    BY LenProperties
  <2>2. Windows!Evicted(s, now) = Windows!FromFirst(s, young)
    BY DEF Windows!Evicted
  <2> HIDE DEF young
  <2>3. Windows!FromFirst(s, young) \in Seq(Int)
    BY <2>1, FromFirstType
  <2> QED BY <2>2, <2>3, AppendProperties
<1>3. Append(Windows!EvictedPorts(now), <<now, k.port>>) \in Seq(Int \X Nat)
  <2> DEFINE young == {i \in DOMAIN ports : ~Windows!Old(ports[i][1], now)}
  <2>0. ports \in Seq(Int \X Nat)
    BY DEF WindowsTyped
  <2>1. young \in SUBSET (1 .. Len(ports))
    BY <2>0, LenProperties
  <2>2. Windows!EvictedPorts(now) = Windows!FromFirst(ports, young)
    BY DEF Windows!EvictedPorts
  <2> HIDE DEF young
  <2>3. Windows!FromFirst(ports, young) \in Seq(Int \X Nat)
    BY <2>0, <2>1, FromFirstType
  <2>4. <<now, k.port>> \in Int \X Nat
    BY WindowsAssumption DEF Windows!Sane
  <2> QED BY <2>2, <2>3, <2>4, AppendProperties
<1>4. ssh' \in Seq(Int)
  BY <1>1, <1>2 DEF WindowsTyped
<1>5. auth' \in [AuthPorts -> Seq(Int)]
  <2>1. CASE Windows!ReachesAuth(e)
    <3>1. k.port \in AuthPorts
      BY <1>1, <2>1 DEF Windows!ReachesAuth
    <3>2. auth[k.port] \in Seq(Int)
      BY <3>1 DEF WindowsTyped
    <3>3. PICK new \in Seq(Int) : new = Append(Windows!Evicted(auth[k.port], now), now)
      BY <1>2, <3>2
    <3>4. auth' = [auth EXCEPT ![k.port] = new]
      BY <1>1, <2>1, <3>3
    <3> QED BY <3>4 DEF WindowsTyped
  <2>2. CASE ~Windows!ReachesAuth(e)
    BY <1>1, <2>2 DEF WindowsTyped
  <2> QED BY <2>1, <2>2
<1>6. ports' \in Seq(Int \X Nat)
  BY <1>1, <1>3 DEF WindowsTyped
<1>7. seen' \in Seq(Looks)
  BY <1>1, AppendProperties DEF WindowsTyped
<1> QED BY <1>4, <1>5, <1>6, <1>7 DEF WindowsTyped

StampsGrow(h, e, h2, Q, s, s2) ==
  /\ h \in Seq(Looks)  /\ e \in Looks  /\ h2 = Append(h, e)  /\ Ascending(h2)
  /\ s \in Seq(Int)  /\ Tracked(s, Of(h, Q), Stamps(h), Stamps(h), Len(h))
  /\ s2 = IF e \in Q THEN Append(Windows!Evicted(s, e.at), e.at) ELSE s
PairsGrow(h, e, h2, Q, s2) ==
  /\ h \in Seq(Looks)  /\ e \in Looks  /\ h2 = Append(h, e)  /\ Ascending(h2)
  /\ ports \in Seq(Int \X Nat)  /\ Tracked(ports, Of(h, Q), Pairs(h), Stamps(h), Len(h))
  /\ s2 = IF e \in Q THEN Append(Windows!EvictedPorts(e.at), <<e.at, e.kind.port>>) ELSE ports

LEMMA StampsMove ==
  ASSUME NEW h, NEW e, NEW h2, NEW Q, NEW s, NEW s2, StampsGrow(h, e, h2, Q, s, s2)
  PROVE  /\ Tracked(s2, Of(h2, Q), Stamps(h2), Stamps(h2), Len(h2))
         /\ e \in Q => Cardinality(Held(h2, Q)) = Len(s2)
<1> SUFFICES ASSUME h \in Seq(Looks), e \in Looks, h2 = Append(h, e), Ascending(h2),
                    s \in Seq(Int), Tracked(s, Of(h, Q), Stamps(h), Stamps(h), Len(h)),
                    s2 = IF e \in Q THEN Append(Windows!Evicted(s, e.at), e.at) ELSE s
             PROVE  /\ Tracked(s2, Of(h2, Q), Stamps(h2), Stamps(h2), Len(h2))
                    /\ e \in Q => Cardinality(Held(h2, Q)) = Len(s2)
  BY DEF StampsGrow
<1> DEFINE young == {i \in DOMAIN s : ~Windows!Old(s[i], e.at)}
<1>0. Window \in Nat
  BY WindowsAssumption DEF Windows!Sane
<1>1. /\ Len(h) \in Nat  /\ Len(h2) = Len(h) + 1  /\ h2[Len(h) + 1] = e
      /\ \A i \in 1 .. Len(h) : h2[i] = h[i] /\ h[i] \in Looks
  BY Longer
<1>2. \A x \in 1 .. Len(h) : x \in 1 .. Len(h2) /\ Stamps(h2)[x] = Stamps(h)[x] /\ Stamps(h)[x] = h[x].at
  BY <1>1 DEF Stamps
<1>3. Stamps(h2)[Len(h) + 1] = e.at /\ e.at \in Int
  BY <1>1 DEF Stamps, Looks
<1>4. Windows!Evicted(s, e.at) = Windows!FromFirst(s, young)
  BY DEF Windows!Evicted
<1>5. young \in SUBSET (1 .. Len(s))
  BY LenProperties
<1>6. ASSUME NEW i \in 1 .. Len(s), NEW x \in 1 .. Len(h), s[i] = Stamps(h)[x]
      PROVE  i \in young <=> h[x].at >= e.at - Window
  <2>1. i \in young <=> ~(s[i] < e.at - Window)
    BY LenProperties DEF Windows!Old
  <2>2. h[x].at \in Int /\ s[i] = h[x].at
    BY <1>1, <1>2, <1>6 DEF Looks
  <2> HIDE DEF young
  <2> QED BY ONLY <1>0, <1>3, <2>1, <2>2
<1> HIDE DEF young
<1>7. Moved(h, e, Q, Int, s, Stamps(h), Stamps(h2), young, s2)
  BY <1>2, <1>3, <1>4, <1>5, <1>6 DEF Moved
<1>8. h2 = Append(h, e)
  OBVIOUS
<1>9. /\ Tracked(s2, Of(h2, Q), Stamps(h2), Stamps(h2), Len(h2))
      /\ e \in Q => HeldIn(s2, h2, Q, Stamps(h2))
  BY ONLY <1>0, <1>7, <1>8, WindowMoves
<1> QED BY ONLY <1>9 DEF HeldIn

LEMMA PairsMove ==
  ASSUME NEW h, NEW e, NEW h2, NEW Q, NEW s2, PairsGrow(h, e, h2, Q, s2)
  PROVE  /\ Tracked(s2, Of(h2, Q), Pairs(h2), Stamps(h2), Len(h2))
         /\ e \in Q => HeldIn(s2, h2, Q, Pairs(h2))
<1> SUFFICES ASSUME h \in Seq(Looks), e \in Looks, h2 = Append(h, e), Ascending(h2),
                    ports \in Seq(Int \X Nat), Tracked(ports, Of(h, Q), Pairs(h), Stamps(h), Len(h)),
                    s2 = IF e \in Q THEN Append(Windows!EvictedPorts(e.at), <<e.at, e.kind.port>>) ELSE ports
             PROVE  /\ Tracked(s2, Of(h2, Q), Pairs(h2), Stamps(h2), Len(h2))
                    /\ e \in Q => HeldIn(s2, h2, Q, Pairs(h2))
  BY DEF PairsGrow
<1> DEFINE young == {i \in DOMAIN ports : ~Windows!Old(ports[i][1], e.at)}
<1>0. Window \in Nat
  BY WindowsAssumption DEF Windows!Sane
<1>1. /\ Len(h) \in Nat  /\ Len(h2) = Len(h) + 1  /\ h2[Len(h) + 1] = e
      /\ \A i \in 1 .. Len(h) : h2[i] = h[i] /\ h[i] \in Looks
  BY Longer
<1>2. \A x \in 1 .. Len(h) : x \in 1 .. Len(h2) /\ Pairs(h2)[x] = Pairs(h)[x] /\ Pairs(h)[x][1] = h[x].at
  BY <1>1 DEF Pairs
<1>3. Pairs(h2)[Len(h) + 1] = <<e.at, e.kind.port>> /\ e.at \in Int /\ e.kind.port \in Nat
  BY <1>1, WindowsAssumption DEF Pairs, Looks, Windows!Sane
<1>4. Windows!EvictedPorts(e.at) = Windows!FromFirst(ports, young)
  BY DEF Windows!EvictedPorts
<1>5. young \in SUBSET (1 .. Len(ports))
  BY LenProperties
<1>6. ASSUME NEW i \in 1 .. Len(ports), NEW x \in 1 .. Len(h), ports[i] = Pairs(h)[x]
      PROVE  i \in young <=> h[x].at >= e.at - Window
  <2>1. i \in young <=> ~(ports[i][1] < e.at - Window)
    BY LenProperties DEF Windows!Old
  <2>2. h[x].at \in Int /\ ports[i][1] = h[x].at
    BY <1>1, <1>2, <1>6 DEF Looks
  <2> HIDE DEF young
  <2> QED BY ONLY <1>0, <1>3, <2>1, <2>2
<1> HIDE DEF young
<1>7. Moved(h, e, Q, Int \X Nat, ports, Pairs(h), Pairs(h2), young, s2)
  <2>1. <<e.at, e.kind.port>> \in Int \X Nat
    BY <1>3
  <2>2. s2 = IF e \in Q THEN Append(Windows!FromFirst(ports, young), Pairs(h2)[Len(h) + 1]) ELSE ports
    BY <1>3, <1>4
  <2> QED BY <1>2, <1>3, <1>5, <1>6, <2>1, <2>2 DEF Moved
<1>8. h2 = Append(h, e)
  OBVIOUS
<1>9. PICK s : s = ports
  OBVIOUS
<1>10. Moved(h, e, Q, Int \X Nat, s, Pairs(h), Pairs(h2), young, s2)
  BY <1>7, <1>9
<1> QED BY ONLY <1>0, <1>10, <1>8, WindowMoves

LEMMA WindowsLook ==
  ASSUME WindowsInv, NEW k \in Kinds, NEW now \in Int, Windows!Analyze(k, now)
  PROVE  WindowsInv'
<1>1. PICK e \in Looks :
           /\ e.at = now /\ e.kind = k /\ seen' = Append(seen, e)
           /\ ssh' = IF Windows!IsSsh(e) THEN Append(Windows!Evicted(ssh, now), now) ELSE ssh
           /\ e.found = "ssh" <=> Windows!IsSsh(e) /\ Len(ssh') >= SshBurst
           /\ auth' = IF Windows!ReachesAuth(e)
                      THEN [auth EXCEPT ![k.port] = Append(Windows!Evicted(auth[k.port], now), now)]
                      ELSE auth
           /\ e.found = "auth" <=> Windows!ReachesAuth(e) /\ Len(auth'[k.port]) >= AuthBurst
           /\ ports' = IF Windows!ReachesPorts(e)
                       THEN Append(Windows!EvictedPorts(now), <<now, k.port>>) ELSE ports
           /\ e.found = "ports" <=> Windows!ReachesPorts(e) /\
                Cardinality(Windows!PortsIn(ports')) >= ScanPorts
  BY LookSays
<1>2. WindowsTyped
  BY DEF WindowsInv
<1>3. WindowsTyped'
  BY <1>2, WindowsLookTyped
<1>4. PICK h, h2 : h = seen /\ h2 = seen'
  OBVIOUS
<1>5. h \in Seq(Looks) /\ h2 \in Seq(Looks) /\ h2 = Append(h, e)
  BY <1>1, <1>2, <1>3, <1>4 DEF WindowsTyped
<1>6. /\ Len(h) \in Nat  /\ Len(h2) = Len(h) + 1  /\ h2[Len(h) + 1] = e
      /\ \A i \in 1 .. Len(h) : h2[i] = h[i]
  BY <1>5, Longer
<1>7. CASE ~Windows!InOrder'
  <2>1. Windows!BurstsAreExact'
    BY <1>7 DEF Windows!BurstsAreExact
  <2> QED BY <1>3, <1>7, <2>1 DEF WindowsInv
<1>8. CASE Windows!InOrder'
  <2>1. Windows!InOrder
    <3>1. PICK m \in Nat : m = Len(h)
      BY <1>6
    <3>2. \A i \in 2 .. m : i \in 2 .. m + 1 /\ i \in 1 .. m /\ i - 1 \in 1 .. m
      OBVIOUS
    <3>3. \A i \in 2 .. m + 1 : h2[i - 1].at <= h2[i].at
      BY <1>4, <1>6, <1>8, <3>1 DEF Windows!InOrder
    <3> QED BY <1>4, <1>6, <3>1, <3>2, <3>3 DEF Windows!InOrder
  <2>2. WindowsTracked
    BY <2>1 DEF WindowsInv
  <2>3. Ascending(h2)
    <3>1. Ascending(h) /\ \A i \in 2 .. Len(h2) : h2[i - 1].at <= h2[i].at
      BY <1>4, <1>8, <2>2 DEF WindowsTracked, Windows!InOrder
    <3> QED BY <1>5, <3>1, OrderKept
  <2>4. /\ Tracked(ssh', Of(h2, SshLooks), Stamps(h2), Stamps(h2), Len(h2))
        /\ Windows!IsSsh(e) => Cardinality(Held(h2, SshLooks)) = Len(ssh')
    <3>1. e \in SshLooks <=> Windows!IsSsh(e)
      BY DEF SshLooks
    <3>2. PICK s, s2 : s = ssh /\ s2 = ssh'
      OBVIOUS
    <3>3. s \in Seq(Int) /\ Tracked(s, Of(h, SshLooks), Stamps(h), Stamps(h), Len(h))
      BY <1>2, <1>4, <2>2, <3>2 DEF WindowsTyped, WindowsTracked
    <3>4. s2 = IF e \in SshLooks THEN Append(Windows!Evicted(s, e.at), e.at) ELSE s
      BY <1>1, <3>1, <3>2
    <3>a. StampsGrow(h, e, h2, SshLooks, s, s2)
      BY ONLY e \in Looks, <1>5, <2>3, <3>3, <3>4 DEF StampsGrow
    <3>5. /\ Tracked(s2, Of(h2, SshLooks), Stamps(h2), Stamps(h2), Len(h2))
          /\ e \in SshLooks => Cardinality(Held(h2, SshLooks)) = Len(s2)
      BY ONLY <3>a, StampsMove
    <3> QED BY ONLY <3>1, <3>2, <3>5
  <2>5. ASSUME NEW p \in AuthPorts
        PROVE  /\ Tracked(auth'[p], Of(h2, AuthLooks(p)), Stamps(h2), Stamps(h2), Len(h2))
               /\ Windows!ReachesAuth(e) /\ k.port = p => Cardinality(Held(h2, AuthLooks(p))) = Len(auth'[p])
    <3>1. e \in AuthLooks(p) <=> Windows!ReachesAuth(e) /\ k.port = p
      BY <1>1 DEF AuthLooks
    <3>2. PICK s, s2 : s = auth[p] /\ s2 = auth'[p]
      OBVIOUS
    <3>3. s \in Seq(Int) /\ Tracked(s, Of(h, AuthLooks(p)), Stamps(h), Stamps(h), Len(h))
      BY <1>2, <1>4, <2>2, <3>2 DEF WindowsTyped, WindowsTracked
    <3>4. s2 = IF e \in AuthLooks(p) THEN Append(Windows!Evicted(s, e.at), e.at) ELSE s
      <4>1. auth \in [AuthPorts -> Seq(Int)]
        BY <1>2 DEF WindowsTyped
      <4>2. PICK new : new = Append(Windows!Evicted(auth[k.port], now), now)
        OBVIOUS
      <4>3. auth' = IF Windows!ReachesAuth(e) THEN [auth EXCEPT ![k.port] = new] ELSE auth
        BY <1>1, <4>2
      <4>4. Windows!ReachesAuth(e) /\ k.port = p => s2 = new
        BY <3>2, <4>1, <4>3
      <4>5. ~(Windows!ReachesAuth(e) /\ k.port = p) => s2 = s
        BY <3>2, <4>1, <4>3
      <4>6. k.port = p => new = Append(Windows!Evicted(s, e.at), e.at)
        BY <1>1, <3>2, <4>2
      <4> QED BY ONLY <3>1, <4>4, <4>5, <4>6
    <3>a. StampsGrow(h, e, h2, AuthLooks(p), s, s2)
      BY ONLY e \in Looks, <1>5, <2>3, <3>3, <3>4 DEF StampsGrow
    <3>5. /\ Tracked(s2, Of(h2, AuthLooks(p)), Stamps(h2), Stamps(h2), Len(h2))
          /\ e \in AuthLooks(p) => Cardinality(Held(h2, AuthLooks(p))) = Len(s2)
      BY ONLY <3>a, StampsMove
    <3> QED BY ONLY <3>1, <3>2, <3>5
  <2>6. /\ Tracked(ports', Of(h2, PortLooks), Pairs(h2), Stamps(h2), Len(h2))
        /\ Windows!ReachesPorts(e) => HeldIn(ports', h2, PortLooks, Pairs(h2))
    <3>1. e \in PortLooks <=> Windows!ReachesPorts(e)
      BY DEF PortLooks
    <3>2. PICK s2 : s2 = ports'
      OBVIOUS
    <3>3. ports \in Seq(Int \X Nat) /\ Tracked(ports, Of(h, PortLooks), Pairs(h), Stamps(h), Len(h))
      BY <1>2, <1>4, <2>2 DEF WindowsTyped, WindowsTracked
    <3>4. s2 = IF e \in PortLooks THEN Append(Windows!EvictedPorts(e.at), <<e.at, e.kind.port>>) ELSE ports
      BY <1>1, <3>1, <3>2
    <3>a. PairsGrow(h, e, h2, PortLooks, s2)
      BY ONLY e \in Looks, <1>5, <2>3, <3>3, <3>4 DEF PairsGrow
    <3>5. /\ Tracked(s2, Of(h2, PortLooks), Pairs(h2), Stamps(h2), Len(h2))
          /\ e \in PortLooks => HeldIn(s2, h2, PortLooks, Pairs(h2))
      BY ONLY <3>a, PairsMove
    <3> QED BY ONLY <3>1, <3>2, <3>5
  <2>7. WindowsTracked'
    BY <1>4, <2>3, <2>4, <2>5, <2>6 DEF WindowsTracked
  <2>8. /\ Windows!Last(seen)' = e
        /\ Windows!Around(Windows!IsSsh)' = Held(h2, SshLooks)
        /\ Windows!Around(Windows!ReachesPorts)' = Held(h2, PortLooks)
        /\ Windows!Around(LAMBDA o : Windows!ReachesAuth(o) /\ o.kind.port = Windows!Last(seen).kind.port)'
             = Held(h2, AuthLooks(k.port))
    <3>1. seen' \in Seq(Looks) /\ Len(seen') # 0 /\ seen'[Len(seen')] = e /\ k.port = seen'[Len(seen')].kind.port
      BY <1>1, <1>4, <1>5, <1>6
    <3> QED BY <1>4, <3>1, HeldIsAround
  <2>9. e.found = "ssh" <=> Windows!IsSsh(e) /\ Cardinality(Held(h2, SshLooks)) >= SshBurst
    BY <1>1, <2>4
  <2>10. e.found = "auth" <=> Windows!ReachesAuth(e) /\ Cardinality(Held(h2, AuthLooks(k.port))) >= AuthBurst
    <3>1. Windows!ReachesAuth(e) => k.port \in AuthPorts
      BY <1>1 DEF Windows!ReachesAuth
    <3> QED BY <1>1, <2>5, <3>1
  <2>11. e.found = "ports" <=> Windows!ReachesPorts(e) /\
           Cardinality({h2[i].kind.port : i \in Held(h2, PortLooks)}) >= ScanPorts
    <3>1. ASSUME Windows!ReachesPorts(e)
          PROVE  Windows!PortsIn(ports') = {h2[i].kind.port : i \in Held(h2, PortLooks)}
      <4>1. \A x \in Held(h2, PortLooks) : Pairs(h2)[x][2] = h2[x].kind.port
        BY DEF Held, Of, Pairs
      <4>2. DOMAIN ports' = 1 .. Len(ports')
        BY <1>3, LenProperties DEF WindowsTyped
      <4>3. Windows!Range(ports') = {Pairs(h2)[x] : x \in Held(h2, PortLooks)}
        BY <2>6, <3>1, <4>2 DEF Windows!Range, HeldIn
      <4>4. Windows!PortsIn(ports') = {q[2] : q \in Windows!Range(ports')}
        BY DEF Windows!PortsIn
      <4>5. PICK R : R = Windows!Range(ports')
        OBVIOUS
      <4> QED BY ONLY <4>1, <4>3, <4>4
    <3> QED BY <1>1, <3>1
  <2>12. Windows!BurstsAreExact'
    <3>1. e.found = "ssh" <=> Windows!IsSsh(e) /\ Cardinality(Windows!Around(Windows!IsSsh)') >= SshBurst
      BY ONLY <2>8, <2>9
    <3>2. e.found = "auth" <=> Windows!ReachesAuth(e) /\
            Cardinality(Windows!Around(LAMBDA o : Windows!ReachesAuth(o) /\
                                                  o.kind.port = Windows!Last(seen).kind.port)') >= AuthBurst
      BY ONLY <2>8, <2>10
    <3>3. e.found = "ports" <=> Windows!ReachesPorts(e) /\
            Cardinality({seen'[i].kind.port : i \in Windows!Around(Windows!ReachesPorts)'}) >= ScanPorts
      BY ONLY <1>4, <2>8, <2>11
    <3>4. Windows!Last(seen)' = e
      BY ONLY <2>8
    <3>0. \A S : Windows!Cardinality(S) = Cardinality(S)
      BY DEF Windows!Cardinality, Cardinality
    <3>5. ((Windows!Last(seen).found = "ssh") <=> Windows!IsSsh(Windows!Last(seen)) /\ Windows!Cardinality(Windows!Around(Windows!IsSsh)) >= SshBurst)'
      BY ONLY <3>0, <3>1, <3>4
    <3>6. ((Windows!Last(seen).found = "auth") <=> Windows!ReachesAuth(Windows!Last(seen)) /\
                   Windows!Cardinality(Windows!Around(LAMBDA o : Windows!ReachesAuth(o) /\ o.kind.port = Windows!Last(seen).kind.port)) >= AuthBurst)'
      BY ONLY <3>0, <3>2, <3>4
    <3>7. ((Windows!Last(seen).found = "ports") <=> Windows!ReachesPorts(Windows!Last(seen)) /\
             Windows!Cardinality({seen[i].kind.port : i \in Windows!Around(Windows!ReachesPorts)}) >= ScanPorts)'
      BY ONLY <3>0, <3>3, <3>4
    <3> QED BY ONLY <3>5, <3>6, <3>7 DEF Windows!BurstsAreExact
  <2> QED BY <1>3, <2>7, <2>12 DEF WindowsInv
<1> QED BY <1>7, <1>8

LEMMA WindowsNext == ASSUME WindowsInv, [MCNext]_allVars PROVE WindowsInv'
<1>1. CASE Windows!Next
  <2>1. PICK k \in Kinds, now \in Windows!Clock - 1 .. Windows!Clock + Window : Windows!Analyze(k, now)
    BY <1>1 DEF Windows!Next
  <2>2. Windows!Clock \in Int
    <3>1. Window \in Nat /\ seen \in Seq(Looks)
      BY WindowsAssumption DEF Windows!Sane, WindowsInv, WindowsTyped
    <3>2. CASE seen = <<>>
      BY <3>1, <3>2 DEF Windows!Clock
    <3>3. CASE seen # <<>>
      <4>1. Len(seen) \in 1 .. Len(seen)
        BY <3>1, <3>3, EmptySeq, LenProperties
      <4>2. seen[Len(seen)] \in Looks
        BY <3>1, <4>1, ElementOfSeq
      <4>3. Windows!Clock = seen[Len(seen)].at
        BY <3>3 DEF Windows!Clock, Windows!Last
      <4> QED BY <4>2, <4>3 DEF Looks
    <3> QED BY <3>2, <3>3
  <2>3. now \in Int
    <3>1. Window \in Nat
      BY WindowsAssumption DEF Windows!Sane
    <3> QED BY <2>2, <3>1
  <2> QED BY <2>1, <2>3, WindowsLook
<1>2. CASE UNCHANGED windowVars
  BY <1>2 DEF windowVars, WindowsInv, WindowsTyped, WindowsTracked, Windows!BurstsAreExact, Windows!InOrder,
              Windows!Last, Windows!Around
<1> QED BY <1>1, <1>2 DEF MCNext, allVars

LEMMA Widened ==
  ASSUME NEW S, NEW T, NEW U, NEW f \in [S -> T], T \subseteq U
  PROVE  f \in [S -> U]
OBVIOUS

(* In a feed in order a burst of SSH, of another login or of ports is      *)
(* found exactly when the packets of the window that reached its detector  *)
(* are enough: no detector counts one twice or one that is too old, and    *)
(* none loses a packet because of another (triage_heuristics.py).  The     *)
(* types of the judging turn, which BurstsAreExact also names, are proved  *)
(* of the parts in which that turn rests.                                  *)
THEOREM BurstsFound ==
  MCSpec => [](Windows!TypeOK /\ Windows!BurstsAreExact /\ (part # "turn" => BurstsAreExact))
<1> DEFINE Inv == WindowsInv /\ (part # "turn" => Turns!Init)
<1>1. MCInit => Inv
  BY WindowsStart DEF MCInit
<1>2. Inv /\ [MCNext]_allVars => Inv'
  <2> SUFFICES ASSUME Inv, [MCNext]_allVars PROVE Inv'
    OBVIOUS
  <2>1. WindowsInv'
    BY WindowsNext
  <2>2. part' = part /\ (part # "turn" => UNCHANGED turnVars)
    BY DEF MCNext, allVars
  <2>3. part # "turn" => Turns!Init'
    BY <2>2 DEF turnVars, Turns!Init
  <2> QED BY <2>1, <2>2, <2>3
<1>3. Inv => Windows!TypeOK /\ Windows!BurstsAreExact /\ (part # "turn" => BurstsAreExact)
  <2> SUFFICES ASSUME Inv
               PROVE  Windows!TypeOK /\ Windows!BurstsAreExact /\ (part # "turn" => BurstsAreExact)
    OBVIOUS
  <2>1. Windows!TypeOK
    <3>1. WindowsTyped
      BY DEF WindowsInv
    <3>2. \A i \in DOMAIN seen : seen[i] \in Looks
      BY <3>1, ElementOfSeq, LenProperties DEF WindowsTyped
    <3>3. \A i \in DOMAIN seen : seen[i].kind \in Kinds /\ seen[i].found \in Windows!Found
      BY <3>2 DEF Looks
    <3> QED BY <3>1, <3>3 DEF Windows!TypeOK, WindowsTyped
  <2>2. Windows!BurstsAreExact
    BY DEF WindowsInv
  <2>3. ASSUME part # "turn" PROVE Turns!TypeOK
    <3>1. Turns!Init
      BY <2>3
    <3>2. batch \in Seq(1 .. last) /\ models \in Stacks /\ parallel \in BOOLEAN
      BY <3>1, EmptySeq DEF Turns!Init
    <3>3. feed \in 0 .. MaxPackets /\ last \in 0 .. feed
      <4>1. feed = 0 /\ last = 0
        BY ONLY <3>1 DEF Turns!Init
      <4>2. MaxPackets \in Nat
        BY TurnsAssumption DEF Turns!Sane
      <4> QED BY ONLY <4>1, <4>2
    <3>4. /\ at \in {"poll", "ask", "whole", "single", "rest"}
          /\ alert \in [Turns!Packets -> Nat]
          /\ times \in [Turns!Packets -> Nat]  /\ lost \subseteq Turns!Packets  /\ cut \subseteq Turns!Packets
          /\ hit \in [Turns!Packets -> {0} \cup Hits]  /\ marked \subseteq Connections
      BY <3>1 DEF Turns!Init
    <3>5. conn \in [Turns!Packets -> Connections \cup {Turns!NoConnection}]
      BY <3>1 DEF Turns!Init
    <3>6. row \in [Connections -> Turns!Statuses \cup {"", "error"}]
      <4>1. Earlier \subseteq Turns!Statuses \cup {"error"}
        BY TurnsAssumption DEF Turns!Sane
      <4>2. {""} \cup Earlier \subseteq Turns!Statuses \cup {"", "error"}
        BY ONLY <4>1, Zenon
      <4>3. row \in [Connections -> {""} \cup Earlier]
        BY ONLY <3>1 DEF Turns!Init
      <4> QED BY ONLY <4>2, <4>3, Widened
    <3>7. owed \in [packet : 0 .. last, conf : Nat]
      <4>1. owed = [packet |-> 0, conf |-> 0] /\ last = 0
        BY <3>1 DEF Turns!Init, Turns!NoAlert
      <4> QED BY ONLY <4>1
    <3> QED BY <3>2, <3>3, <3>4, <3>5, <3>6, <3>7 DEF Turns!TypeOK
  <2> QED BY <2>1, <2>2, <2>3 DEF BurstsAreExact
<1> QED BY <1>1, <1>2, <1>3, PTL DEF MCSpec
=============================================================================

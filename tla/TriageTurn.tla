---------------------------- MODULE TriageTurn ----------------------------
(***************************************************************************)
(* What one turn of _analysis_loop does with the packets of the feed       *)
(* (live_packet_llm.py): it takes the newest few, asks the models for all  *)
(* of them at once, or packet by packet when that answer cannot be used,   *)
(* merges what models and heuristics say, and writes a row and an alert.   *)
(* Packets are ids.  A model's answer is a status and a confidence; None   *)
(* stands for a model that is parked, fails or answers nothing.            *)
(*                                                                         *)
(* The rows are those of the session's registry, one of each connection:   *)
(* the first report of a connection decides what its row says, later ones  *)
(* are merged into it.  The alert is written after the row, through calls  *)
(* that may raise.  The other writers of the registry are those of         *)
(* TriageRegistry; here their rows are there from the start.               *)
(***************************************************************************)
EXTENDS Integers, Sequences, FiniteSets, SequencesExt

CONSTANTS Stacks,      \* stacks of models a server may run with
          Answers,     \* what a model may say: [status, conf]
          Hits,        \* confidence of what the heuristics find
          Floor,       \* LLM_LIVE_PACKET_MIN_CONFIDENCE (0.55)
          Strong,      \* a hit alone is alerted from here on (0.75)
          BatchSize,   \* LLM_LIVE_BATCH_SIZE (10)
          Connections, \* the connections of the packets
          Earlier,        \* what rows may say that are there when the loop starts
          MaxPackets   \* bound: packets that arrive

Statuses == {"open", "true_positive", "false_positive", "true_negative", "benign"}
Cleared  == {"true_negative", "benign"}

\* What the settings give: a batch is not empty, and the heuristics are sure of what they find;
\* a row says one of the dispositions.
Sane == /\ MaxPackets \in Nat  /\ BatchSize \in Nat \ {0}
        /\ Strong \in Nat \ {0}  /\ Hits \subseteq {h \in Nat : h >= Strong}
        /\ Earlier \subseteq Statuses \cup {"error"}

VARIABLES
  models, parallel,  \* settings: names of the models; LLM_LIVE_PARALLEL_TRIAGE
  feed,             \* the newest packet of the feed
  last,             \* last_packet_id
  at,               \* the turn: "poll", "ask", "whole", "single", "rest"
  batch,            \* packets it has still to process
  conn,             \* conn[p]: the connection of packet p
  row,              \* row[c]: what the row of connection c says, "" without one
  marked,           \* connections whose row names the heuristics among its sources
  owed,             \* the alert still to be written for the packet whose row was: [packet, conf]
  alert,            \* alert[p]: the confidence of the alert of packet p
  times, lost,      \* history: how often a packet was processed; packets an exception dropped
  hit, said,        \* history: what was found of a packet: by the heuristics, and by which models
  cut, kept         \* history: packets an exception cut off from their alert; connections with a
                    \* row from before

settings == <<models, parallel>>
written  == <<row, marked, alert>>
history  == <<times, lost, hit, said, cut, kept>>
vars     == <<settings, feed, last, at, batch, conn, written, owed, history>>

Packets  == 1 .. MaxPackets
None     == [status |-> "", conf |-> 0]
NoConnection == "none"
NoAlert  == [packet |-> 0, conf |-> 0]

TypeOK ==
  /\ models \in Stacks  /\ parallel \in BOOLEAN
  /\ feed \in 0 .. MaxPackets  /\ last \in 0 .. feed
  /\ at \in {"poll", "ask", "whole", "single", "rest"}  /\ batch \in Seq(1 .. last)
  /\ conn \in [Packets -> Connections \cup {NoConnection}]
  /\ row \in [Connections -> Statuses \cup {"", "error"}]  /\ marked \subseteq Connections
  /\ owed \in [packet : 0 .. last, conf : Nat]  /\ alert \in [Packets -> Nat]
  /\ times \in [Packets -> Nat]  /\ lost \subseteq Packets  /\ cut \subseteq Packets
  /\ hit \in [Packets -> {0} \cup Hits]

Init ==
  /\ models \in Stacks  /\ parallel \in BOOLEAN
  /\ feed = 0  /\ last = 0  /\ at = "poll"  /\ batch = <<>>
  /\ conn = [p \in Packets |-> NoConnection]
  /\ row \in [Connections -> {""} \cup Earlier]  /\ kept = {c \in Connections : row[c] # ""}
  /\ marked = {}  /\ owed = NoAlert  /\ alert = [p \in Packets |-> 0]
  /\ times = [p \in Packets |-> 0]  /\ lost = {}  /\ cut = {}
  /\ hit = [p \in Packets |-> 0]  /\ said = [p \in Packets |-> {}]

-----------------------------------------------------------------------------
(* Answers.  Outputs are pairs <<name, answer>> in the order they came in.  *)

Suspicious(a) == a.status = "true_positive"
Present(answers) == SelectSeq(answers, LAMBDA a : a # None)
Best(answers) == CHOOSE c \in {a.conf : a \in Range(answers)} : \A a \in Range(answers) : a.conf <= c

Names(outputs) == {o[1] : o \in Range(outputs)}

\* What complete_json may return for the models of `names`: up to the first answer, or of all.
OnePass(names) == {<<>>} \cup {<<o>> : o \in names \X Answers}
WholePass ==
  {SelectSeq([i \in DOMAIN models |-> <<models[i], says[i]>>], LAMBDA o : o[2] # None) :
     says \in [DOMAIN models -> Answers \cup {None}]}
\* _sequential_triage: a second pass over the others, when the first answer is a weak suspicion,
\* or contradicts the heuristics, or is missing although they found something.
NeedsVerify(outputs, found) ==
  IF outputs = <<>> THEN found > 0
  ELSE LET best == outputs[1][2] IN IF Suspicious(best) THEN best.conf < Floor ELSE found > 0
Sequential(found) ==
  UNION {IF Len(models) < 2 \/ ~NeedsVerify(outputs, found) THEN {outputs}
         ELSE {outputs \o more : more \in OnePass(Range(models) \ Names(outputs))} :
           outputs \in OnePass(Range(models))}
Outputs(found) == IF parallel THEN WholePass ELSE Sequential(found)

\* _map_model_outputs: primary, secondary and tertiary.  Without an answer of Z.ai they are
\* those that came first; the places that then have no successor keep what they had.
Of(outputs, name) ==
  IF name \in Names(outputs) THEN (CHOOSE o \in Range(outputs) : o[1] = name)[2] ELSE None
FirstOf(answers) == IF Present(answers) = <<>> THEN None ELSE Head(Present(answers))
Seats(outputs) ==
  LET named == <<FirstOf(<<Of(outputs, "zai"), Of(outputs, "primary")>>), Of(outputs, "nvidia"),
                 FirstOf(<<Of(outputs, "nvidia_secondary"), Of(outputs, "openrouter")>>)>>
  IN IF named[1] # None THEN named
     ELSE [i \in 1 .. 3 |-> IF i <= Len(outputs) THEN outputs[i][2] ELSE named[i]]

\* _merge_verdicts: the confidence of the verdict, 0 when there is none.
Merged(results) ==
  LET suspects == SelectSeq(results, Suspicious)
  IN IF suspects = <<>> \/ (Best(suspects) < Floor /\ Len(suspects) < 2) THEN 0 ELSE Best(suspects)
\* _verdict_from_result: the heuristics stand when they are surer.
Verdict(results, found) == IF found > Merged(results) THEN found ELSE Merged(results)

\* _register_triage_row: the first answer decides, and what the heuristics found is not cleared.
HitIgnored(primary, found) == primary.status      \* mutant: a hit does not reopen the row
Disposition(primary, found) ==
  IF primary = None THEN "error"
  ELSE IF primary.status \notin Statuses \/ (found > 0 /\ primary.status \in Cleared) THEN "open"
  ELSE primary.status

-----------------------------------------------------------------------------
(* The feed, and the turn *)

Arrive ==
  /\ feed < MaxPackets  /\ feed' = feed + 1
  /\ \E c \in Connections : conn' = [conn EXCEPT ![feed + 1] = c]
  /\ UNCHANGED <<settings, last, at, batch, written, owed, history>>

\* packets[-batch_size:]: older ones are passed over.
Newest(n) == [i \in 1 .. n |-> feed - n + i]
Polled == IF feed - last < BatchSize THEN feed - last ELSE BatchSize
Rereads(n) == feed - n + 1                        \* mutant: the cursor stops at the first of the batch
Reached(n) == feed
Poll ==
  /\ at = "poll"  /\ last < feed
  /\ batch' = Newest(Polled)  /\ last' = Reached(Polled)
  /\ at' = "ask"
  /\ UNCHANGED <<settings, feed, conn, written, owed, history>>

\* An exception (an index or a confidence that is no number, indexes that do not start at 0, a
\* call that fails) ends the turn, and with it the packets of the batch that still wait.
EndTurn == /\ lost' = lost \cup Range(batch)
           /\ batch' = <<>>  /\ at' = "rest"
Dropped == /\ EndTurn
           /\ UNCHANGED <<settings, feed, last, conn, written, owed, times, hit, said, cut, kept>>

\* _analyze_batch: all are answered, or the answer is unusable, or it raises.
Ask ==
  /\ at = "ask"
  /\ \/ /\ at' \in {"whole", "single"}
        /\ UNCHANGED <<settings, feed, last, batch, conn, written, owed, history>>
     \/ Dropped

\* upsert_incident: a report is merged into the row of its connection, which keeps what it says.
LatestRules(rows, c, disp) == [rows EXCEPT ![c] = disp]      \* mutant: a row says what is reported last
Upserted(rows, c, disp) == [rows EXCEPT ![c] = IF @ = "" THEN disp ELSE @]

\* _process_packet, for the packet whose turn it is: its row, and then its alert.
Timid(results, found) ==                          \* mutant: a hit alone is not alerted
  IF results # <<>> THEN Verdict(results, found) ELSE 0
Alerted(results, found) ==
  IF results # <<>> /\ Verdict(results, found) > 0 THEN Verdict(results, found)
  ELSE IF found >= Strong THEN found ELSE 0
Process(seats, found, names) ==
  LET p == Head(batch)
      conf == Alerted(Present(seats), found)
  IN /\ owed = NoAlert
     /\ row' = Upserted(row, conn[p], Disposition(seats[1], found))
     /\ marked' = IF found > 0 THEN marked \cup {conn[p]} ELSE marked
     /\ owed' = IF conf > 0 THEN [packet |-> p, conf |-> conf] ELSE NoAlert
     /\ times' = [times EXCEPT ![p] = @ + 1]
     /\ hit' = [hit EXCEPT ![p] = found]  /\ said' = [said EXCEPT ![p] = names]
     /\ batch' = Tail(batch)
     /\ at' = IF Tail(batch) = <<>> THEN "rest" ELSE at
     /\ UNCHANGED <<settings, feed, last, conn, alert, lost, cut, kept>>

\* _emit_llm_packet_alert: the alert is written, and reported to the row of its connection.
Written == [alert EXCEPT ![owed.packet] = owed.conf]
Emit ==
  /\ owed # NoAlert  /\ owed' = NoAlert
  /\ alert' = Written
  /\ row' = Upserted(row, conn[owed.packet], "true_positive")
  /\ UNCHANGED <<settings, feed, last, at, batch, conn, marked, history>>
\* One of its calls raises, before the alert is written or after it: the loop catches that.
EmitFails ==
  /\ owed # NoAlert  /\ owed' = NoAlert
  /\ \/ alert' = alert  /\ cut' = cut \cup {owed.packet}
     \/ alert' = Written  /\ UNCHANGED cut
  /\ EndTurn
  /\ UNCHANGED <<settings, feed, last, conn, row, marked, times, hit, said, kept>>

Accusers(outputs) == {o[1] : o \in {o \in Range(outputs) : Suspicious(o[2])}}
Whole ==
  /\ at = "whole"
  /\ \/ \E a \in Answers, found \in {0} \cup Hits :
          Process(<<a, None, None>>, found, IF Suspicious(a) THEN {"batch"} ELSE {})
     \/ owed = NoAlert /\ Dropped
Single ==
  /\ at = "single"
  /\ \/ \E found \in {0} \cup Hits : \E outputs \in Outputs(found) :
          Process(Seats(outputs), found, Accusers(outputs))
     \/ owed = NoAlert /\ Dropped
Rest ==
  /\ at = "rest"  /\ owed = NoAlert  /\ at' = "poll"
  /\ UNCHANGED <<settings, feed, last, batch, conn, written, owed, history>>

Next == Arrive \/ Poll \/ Ask \/ Whole \/ Single \/ Emit \/ EmitFails \/ Rest
Spec == Init /\ [][Next]_vars

-----------------------------------------------------------------------------
(* A packet that the heuristics found something in is alerted, whatever the *)
(* models say of it and also when none does, unless an exception cut the    *)
(* emission off; its connection's row names the heuristics, and is cleared  *)
(* only if it was there before or a packet without a hit was reported       *)
(* first: a hit is not cleared, and what is reported later does not clear   *)
(* it.                                                                      *)
ClearedBefore(p) ==
  \/ conn[p] \in kept
  \/ \E q \in 1 .. p - 1 : conn[q] = conn[p] /\ times[q] # 0 /\ hit[q] = 0
HitsAreRaised ==
  \A p \in Packets : hit[p] > 0 =>
    /\ alert[p] > 0 \/ p = owed.packet \/ p \in cut
    /\ conn[p] \in marked
    /\ row[conn[p]] \in Cleared => ClearedBefore(p)

(* No packet is processed twice, and one is passed over only when a full    *)
(* batch of newer ones was there: after a quiet time every packet of the    *)
(* last batch has its row, unless an exception ended the turn.              *)
OnceEach ==
  /\ \A p \in Packets : times[p] + (IF p \in lost \cup Range(batch) THEN 1 ELSE 0) <= 1
  /\ \A p \in 1 .. last : times[p] = 0 /\ p \notin lost \cup Range(batch) =>
       \A q \in p + 1 .. p + BatchSize : q <= last

(* An alert without a hit of the heuristics is one that a model is sure of, *)
(* or that two models agree on.                                             *)
AlertsNeedTheFloor ==
  \A p \in Packets : alert[p] > 0 /\ hit[p] = 0 => alert[p] >= Floor \/ Cardinality(said[p]) >= 2
=============================================================================

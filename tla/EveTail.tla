------------------------------ MODULE EveTail ------------------------------
(***************************************************************************)
(* How a live session reads Suricata's EVE log (suricata_consumer.py with  *)
(* eve_parser.py and suricata_mapper.py) and works off what a poll brought *)
(* (process_batch and run_loop of monitor.py).                             *)
(*                                                                         *)
(* A log is a sequence of pieces: an event is written as one piece, or as  *)
(* a head and, later, a tail.  Logs are rotated, truncated and imported by *)
(* others; a request may point the session at another log while its thread *)
(* is in the middle of a poll.  An offset is a number of pieces.           *)
(***************************************************************************)
EXTENDS Naturals, Sequences, FiniteSets, SequencesExt

CONSTANTS MaxEvents,   \* bound: events written
          MaxLines,    \* max_lines of a poll (500)
          MaxLogs,     \* bound: inodes
          MaxBinds     \* bound: rebinds

\* One inode at least for each path, and the events of the imported log.
Sane == MaxEvents \in Nat \ {0, 1}  /\ MaxLogs \in Nat \ {0, 1}  /\ {MaxLines, MaxBinds} \subseteq Nat

LogPaths == {"log", "import"}
\* What an event is to the session: "bad" has a field that int() does not take, "other" is of a
\* type that is not collected.
Kinds == {"flow", "alert", "other", "bad"}

VARIABLES
  text,     \* text[i]: the pieces in inode i: [ev, kind, part], part "whole", "head" or "tail"
  where,    \* where[p]: the inode path p names
  array,    \* inodes whose log is one JSON array
  written,  \* events written so far
  path, offset, inode,   \* eve_path, _offset and _inode (0: None) of the consumer
  poll,     \* the poll of the monitor thread: [at, file, pos, left, alerts, flows],
            \* and old: has there been a rebind since it began?
  binds,    \* rebinds so far
  given,    \* history: events handed on, since the last rebind
  again,    \* history: was one handed on twice?
  dropped,  \* history: events that were read and are lost
  whole     \* history: was the log entered at its start, and left as it was?

logs     == <<text, where, array, written>>
consumer == <<path, offset, inode>>
hist     == <<given, again, dropped, whole>>
vars     == <<logs, consumer, poll, binds, hist>>

Inodes == 1 .. MaxLogs
Events == 1 .. MaxEvents
Pieces == [ev : Events, kind : Kinds, part : {"whole", "head", "tail"}]
Places == {"idle", "open", "read", "alerts", "flows"}
NoPoll == [at |-> "idle", file |-> 0, pos |-> 0, left |-> 0, alerts |-> <<>>, flows |-> <<>>, old |-> FALSE]

TypeOK ==
  /\ text \in [Inodes -> Seq(Pieces)]  /\ where \in [LogPaths -> 0 .. MaxLogs]
  /\ array \subseteq Inodes  /\ written \in 0 .. MaxEvents
  /\ path \in LogPaths  /\ offset \in Nat  /\ inode \in 0 .. MaxLogs
  /\ poll \in [at : Places, file : 0 .. MaxLogs, pos : Nat, left : 0 .. MaxLines,
               alerts : Seq(Events), flows : Seq(Events), old : BOOLEAN]
  /\ binds \in 0 .. MaxBinds
  /\ given \subseteq Events  /\ dropped \subseteq Events  /\ {again, whole} \subseteq BOOLEAN

\* A session begins at the start of the log, whatever is in it; a log that was imported is complete.
Init ==
  /\ where = [p \in LogPaths |-> IF p = "log" THEN 1 ELSE 2]
  /\ array \in {{}, {2}}
  /\ text = [i \in Inodes |-> IF i = 2 THEN <<[ev |-> 1, kind |-> "alert", part |-> "whole"],
                                              [ev |-> 2, kind |-> "flow", part |-> "whole"]>> ELSE <<>>]
  /\ written = 2
  /\ path = "log"  /\ offset = 0  /\ inode = 0
  /\ poll = NoPoll  /\ binds = 0
  /\ given = {}  /\ again = FALSE  /\ dropped = {}  /\ whole = TRUE

-----------------------------------------------------------------------------
(* Suricata, and what is done to its log *)

Log == where["log"]
Piece(kind, part) == [ev |-> written + 1, kind |-> kind, part |-> part]
Torn == text[Log] # <<>> /\ Last(text[Log]).part = "head"
Put(piece) == text' = [text EXCEPT ![Log] = Append(@, piece)]
Write(kind, part) ==
  /\ ~Torn  /\ part # "tail"
  /\ written < MaxEvents  /\ written' = written + 1
  /\ Put(Piece(kind, part))
  /\ UNCHANGED <<where, array, consumer, poll, binds, hist>>
WriteTail ==
  /\ Torn  /\ Put([Last(text[Log]) EXCEPT !.part = "tail"])
  /\ UNCHANGED <<where, array, written, consumer, poll, binds, hist>>
Fresh == {i \in Inodes : i > 2 /\ text[i] = <<>> /\ i \notin {where[p] : p \in LogPaths}}
Rotate ==
  /\ Fresh # {}
  /\ where' = [where EXCEPT !["log"] = CHOOSE i \in Fresh : TRUE]
  /\ UNCHANGED <<text, array, written, consumer, poll, binds, hist>>
Truncate ==
  /\ text[Log] # <<>>  /\ text' = [text EXCEPT ![Log] = <<>>]
  /\ whole' = (whole /\ ~(path = "log" /\ offset > 0))
  /\ UNCHANGED <<where, array, written, consumer, poll, binds, given, again, dropped>>

-----------------------------------------------------------------------------
(* The poll *)

\* _reset_if_rotated: another inode counts only when it is shorter than what was read of the old one.
Rotated(i) == inode # 0 /\ i # inode /\ Len(text[i]) < offset
Check ==
  /\ poll.at = "idle"
  /\ LET i == where[path]
     IN /\ offset' = IF Rotated(i) THEN 0 ELSE offset
        /\ whole' = IF Rotated(i) THEN TRUE ELSE whole /\ (inode \in {0, i} \/ offset = 0)
        /\ inode' = i
        /\ poll' = [NoPoll EXCEPT !.at = "open", !.left = MaxLines]
  /\ UNCHANGED <<logs, path, binds, given, again, dropped>>

Collected(p, r) == CASE p.kind = "alert" -> [r EXCEPT !.alerts = Append(@, p.ev)]
                     [] p.kind = "flow"  -> [r EXCEPT !.flows = Append(@, p.ev)]
                     [] OTHER            -> r
HasBad(log) == \E i \in DOMAIN log : log[i].kind = "bad"
Held(r) == Range(r.alerts) \cup Range(r.flows)
\* The events of a kind, in the order of the log.
Listed(log, kind) ==
  LET at == {i \in DOMAIN log : log[i].kind = kind}
  IN {[n \in DOMAIN f |-> log[f[n]].ev] :
        f \in {f \in [1 .. Cardinality(at) -> at] : \A m, n \in DOMAIN f : m < n => f[m] < f[n]}}
All(log) == {log[i].ev : i \in DOMAIN log}
\* The exception ends in run_loop: what this poll has read is not read again.
Raise(also) ==
  /\ dropped' = dropped \cup Held(poll) \cup also
  /\ poll' = NoPoll

\* A log that begins with [ is read as a whole; others line by line, from the offset.
Open ==
  /\ poll.at = "open"
  /\ LET i == where[path]  log == text[i]
     IN /\ whole' = (whole /\ i = inode)
        /\ IF offset = 0 /\ i \in array
           THEN /\ offset' = Len(log)
                /\ IF HasBad(log) THEN Raise(All(log))
                   ELSE /\ \E alerts \in Listed(log, "alert"), flows \in Listed(log, "flow") :
                             poll' = [poll EXCEPT !.at = "alerts", !.alerts = alerts, !.flows = flows]
                        /\ UNCHANGED dropped
           ELSE /\ poll' = [poll EXCEPT !.at = "read", !.file = i, !.pos = offset]
                /\ UNCHANGED <<offset, dropped>>
  /\ UNCHANGED <<logs, path, inode, binds, given, again>>

\* readline: the pieces up to the end of the line, or of the file.
Line == LET log == text[poll.file]
        IN IF log[poll.pos + 1].part = "head" /\ Len(log) > poll.pos + 1 THEN 2 ELSE 1
Lagging(next, parsed) == offset                            \* mutant: the place before the line is kept
Stuck(next, parsed) == IF parsed THEN next ELSE offset     \* mutant: it is kept until the line is parsed
ToTheEnd(next, parsed) == Len(text[poll.file])             \* mutant: the size of the file is kept
Reached(next, parsed) == next
Read ==
  /\ poll.at = "read"  /\ poll.left > 0  /\ poll.pos < Len(text[poll.file])
  /\ LET first == text[poll.file][poll.pos + 1]
         next  == poll.pos + Line
         json  == first.part = "whole" \/ (first.part = "head" /\ Line = 2)
     IN /\ offset' = Reached(next, json /\ first.kind # "bad")
        /\ IF json /\ first.kind = "bad" THEN Raise({first.ev})
           ELSE /\ poll' = Collected(IF json THEN first ELSE [first EXCEPT !.kind = "other"],
                                     [poll EXCEPT !.pos = next, !.left = @ - 1])
                /\ dropped' = dropped \cup IF json THEN {} ELSE {first.ev}
        /\ whole' = (whole /\ ~poll.old)                   \* the log of a rebind is entered at next
  /\ UNCHANGED <<logs, path, inode, binds, given, again>>
PollEnd ==
  /\ poll.at = "read"  /\ (poll.left = 0 \/ poll.pos >= Len(text[poll.file]))
  /\ poll' = [poll EXCEPT !.at = "alerts"]
  /\ UNCHANGED <<logs, consumer, binds, hist>>

-----------------------------------------------------------------------------
(* process_batch: one alert after the other, then all flows.  Any of it may raise. *)

Give(evs) == IF poll.old THEN UNCHANGED <<given, again>>
             ELSE given' = given \cup evs /\ again' = (again \/ evs \cap given # {})
Emit ==
  /\ poll.at = "alerts"
  /\ IF poll.alerts = <<>> THEN poll' = [poll EXCEPT !.at = "flows"] /\ UNCHANGED <<given, again>>
     ELSE poll' = [poll EXCEPT !.alerts = Tail(@)] /\ Give({Head(poll.alerts)})
  /\ UNCHANGED <<logs, consumer, binds, dropped, whole>>
Score ==
  /\ poll.at = "flows"
  /\ poll' = NoPoll  /\ Give(Range(poll.flows))
  /\ UNCHANGED <<logs, consumer, binds, dropped, whole>>
BatchFails ==
  /\ poll.at \in {"alerts", "flows"}  /\ Held(poll) # {}
  /\ Raise({})
  /\ UNCHANGED <<logs, consumer, binds, given, again, whole>>

\* rebind.  What the poll under way still hands on is of the old binding, but the offset it keeps
\* is the consumer's.
Rebind(p) ==
  /\ binds < MaxBinds  /\ binds' = binds + 1
  /\ path' = p  /\ offset' = 0  /\ inode' = 0
  /\ given' = {}  /\ again' = FALSE  /\ dropped' = {}  /\ whole' = (poll.at # "open")
  /\ poll' = IF poll.at = "idle" THEN poll ELSE [poll EXCEPT !.old = TRUE]
  /\ UNCHANGED logs

Step == Check \/ Open \/ Read \/ PollEnd \/ Emit \/ Score
Next ==
  \/ \E kind \in Kinds, part \in {"whole", "head"} : Write(kind, part)
  \/ WriteTail \/ Rotate \/ Truncate
  \/ Step \/ BatchFails
  \/ \E p \in LogPaths : Rebind(p)
Spec == Init /\ [][Next]_vars
FairSpec == Spec /\ WF_vars(Step)
-----------------------------------------------------------------------------
(* No event is handed on twice in one binding.  And as long as the log was  *)
(* entered at its start and only grew, every line of it below the offset    *)
(* was handed on or is in the batch, unless it was read in two pieces, is   *)
(* of a kind that is not collected, or shared a batch with one that raised: *)
(* no limit on the lines of a poll, and no bad line, makes more be skipped. *)
Past == {i \in 1 .. Len(text[where[path]]) : i <= offset}
Known == given \cup dropped \cup IF poll.old THEN {} ELSE Held(poll)
ReadExactly ==
  /\ ~again
  /\ whole /\ inode = where[path] =>
       \A i \in Past : LET p == text[where[path]][i] IN p.ev \in Known \/ p.kind = "other"

(* Whatever is rotated, truncated, rebound or raises, the session gets to   *)
(* the end of its log: no line is read for ever.                            *)
CatchesUp == []<>(offset >= Len(text[where[path]]))
=============================================================================

---------------------------- MODULE LiveMonitor ----------------------------
(***************************************************************************)
(* The life of a live ML session: monitor.py and live_runner.py over       *)
(* session_store.py, under the handlers that start, stop, attach and       *)
(* rebind it (api.py, ml_capture.py).  A kickoff thread starts the monitor *)
(* thread after the request has been answered; a stop raises the Event of  *)
(* the session, joins for 10 s and forgets the thread.                     *)
(*                                                                         *)
(* Sessions are numbered in the order they are created: each is started    *)
(* once, by the kickoff that follows its creation.  They tail eve.json; a  *)
(* Scapy session differs in that a rebind changes its record only.  Tasks  *)
(* run eagerly, as the development setup has it.  What a batch finds is    *)
(* LiveDetection; the feed and the capture process that the same handlers  *)
(* start and stop are PacketFeed and CaptureControl.                       *)
(***************************************************************************)
EXTENDS Integers, Sequences, FiniteSets

CONSTANTS Handlers,       \* request threads
          Requests,       \* what they ask: among "attach", "session", "stop", "halt", "rebind"
          Eves,           \* eve.json files
          StartAt,        \* progress of a new session: 10 in the code
          MaxSessions,    \* bound: sessions ever created
          JoinTimesOut,   \* may join(timeout=10) give up on a running batch?
          SetupMayFail,   \* may LiveMonitor(...) raise?
          MayRestart      \* may the process restart?

Sessions == 1 .. MaxSessions
NoSession == 0
None == "none"

ASSUME SessionsAssumption == MaxSessions \in Nat /\ StartAt \in 0 .. 99
ASSUME EvesAssumption == None \notin Eves
ASSUME SwitchAssumption == {JoinTimesOut, SetupMayFail, MayRestart} \subseteq BOOLEAN

VARIABLES
  record,    \* record[s]: status, progress and eve file of the session's JSON file
  recent,    \* the session files, last written first (list_recent)
  file, link,    \* the capture's state file: does it exist, and its ml_session_id
  flags, active, \* the sessions in _stop_flags, in _active_monitors
  instance,  \* the sessions in _monitor_instances
  event,     \* the sessions whose stop Event is set
  monitor,   \* monitor[s]: where the kickoff thread, then the monitor thread is
  path,      \* path[s]: eve_path of its consumer
  counted,   \* counted[s]: the progress it has read for its next update
  handler      \* handler[h]: what request thread h is doing, on which session

store     == <<record, recent>>
capture   == <<file, link>>
registry  == <<flags, active>>
own       == <<instance, monitor, path, counted>>
vars      == <<store, capture, registry, event, own, handler>>

NoRecord == [status |-> None, progress |-> 0, eve |-> None]
Serving(op, at, s, e) == [at |-> at, op |-> op, s |-> s, round |-> 0, eve |-> e]
Free     == Serving(None, "idle", NoSession, None)

\* The thread runs: after start(), before its target returns.
Alive(s) == monitor[s] \notin {"none", "kickoff", "flagged", "listed", "dead"}
\* monitor_status(s)["running"].
Running(s) == s \in active /\ Alive(s)

Created == {s \in Sessions : record[s] # NoRecord}

Init ==
  /\ record = [s \in Sessions |-> NoRecord]  /\ recent = <<>>
  /\ file = FALSE  /\ link = NoSession
  /\ flags = {}  /\ active = {}  /\ instance = {}  /\ event = {}
  /\ monitor = [s \in Sessions |-> "none"]
  /\ path = [s \in Sessions |-> None]
  /\ counted = [s \in Sessions |-> 0]
  /\ handler = [h \in Handlers |-> Free]

-----------------------------------------------------------------------------
(* LiveSessionStore.update: read and written under the lock.               *)

Touched(s) == <<s>> \o SelectSeq(recent, LAMBDA x : x # s)
Update(s, status, progress, eve) ==
  /\ record' = [record EXCEPT ![s] = [status |-> status, progress |-> progress, eve |-> eve]]
  /\ recent' = Touched(s)

\* find_running: the session written last among those that say they are running.
RunningRows == SelectSeq(recent, LAMBDA s : record[s].status = "analyzing")

-----------------------------------------------------------------------------
(* The kickoff thread: start_monitor.                                      *)

At(s, from, to) == monitor[s] = from /\ monitor' = [monitor EXCEPT ![s] = to]

Register(s) ==
  /\ At(s, "kickoff", "flagged")
  /\ flags' = flags \cup {s}
  /\ UNCHANGED <<store, capture, active, event, instance, path, counted, handler>>
List(s) ==
  /\ At(s, "flagged", "listed")
  /\ active' = active \cup {s}
  /\ UNCHANGED <<store, capture, flags, event, instance, path, counted, handler>>
Launch(s) ==
  /\ At(s, "listed", "setup")
  /\ UNCHANGED <<store, capture, registry, event, instance, path, counted, handler>>

(* The monitor thread.  LiveMonitor.__init__ takes the file from the       *)
(* record, then loads the models; the instance is registered after that.   *)

ReadRecord(s) ==
  /\ At(s, "setup", "models")
  /\ path' = [path EXCEPT ![s] = record[s].eve]
  /\ UNCHANGED <<store, capture, registry, event, instance, counted, handler>>
EnterLoop(s) ==
  /\ At(s, "models", "check")
  /\ instance' = instance \cup {s}
  /\ UNCHANGED <<store, capture, registry, event, path, counted, handler>>
\* The exception ends the thread before its try: nothing is undone, the record says "analyzing".
SetupFails(s) ==
  /\ SetupMayFail
  /\ At(s, "models", "dead")
  /\ UNCHANGED <<store, capture, registry, event, instance, path, counted, handler>>

IgnoresStop(s) == "batch"                             \* mutant: the loop never looks at its Event
Turn(s) == IF s \in event THEN "finish" ELSE "batch"
CheckStop(s) ==
  /\ At(s, "check", Turn(s))
  /\ UNCHANGED <<store, capture, registry, event, instance, path, counted, handler>>
\* process_batch: with nothing new, or an exception, straight on to the wait.
Batch(s) ==
  /\ \/ At(s, "batch", "check") /\ UNCHANGED counted
     \/ At(s, "batch", "stats") /\ counted' = [counted EXCEPT ![s] = record[s].progress]
  /\ UNCHANGED <<store, capture, registry, event, instance, path, handler>>

Uncapped(progress) == progress + 1                    \* mutant: counts past 99
Counted(progress) == IF progress < 99 THEN progress + 1 ELSE 99
\* The second half of _update_session_stats; a session set complete meanwhile says "analyzing" again.
Stats(s) ==
  /\ At(s, "stats", "check")
  /\ Update(s, "analyzing", Counted(counted[s]), record[s].eve)
  /\ UNCHANGED <<capture, registry, event, instance, path, counted, handler>>

LeavesStatus(s) == record[s].status                   \* mutant: leaves the status to the handler
LastStatus(s) == "complete"
Finish(s) ==
  /\ At(s, "finish", "pop")
  /\ Update(s, LastStatus(s), 100, record[s].eve)
  /\ UNCHANGED <<capture, registry, event, instance, path, counted, handler>>
PopInstance(s) ==
  /\ At(s, "pop", "dead")
  /\ instance' = instance \ {s}
  /\ UNCHANGED <<store, capture, registry, event, path, counted, handler>>

MonitorStep(s) ==
  \/ Register(s) \/ List(s) \/ Launch(s) \/ ReadRecord(s) \/ EnterLoop(s) \/ SetupFails(s)
  \/ CheckStop(s) \/ Batch(s) \/ Stats(s) \/ Finish(s) \/ PopInstance(s)

-----------------------------------------------------------------------------
(* Starting: attach_ml_to_capture, from a capture start or a live_start on *)
(* a capture that runs; and the Suricata branch of live_start, which links *)
(* its session to nothing.                                                 *)

Go(h, at) == handler' = [handler EXCEPT ![h].at = at]
Answer(h) == handler' = [handler EXCEPT ![h] = Free]
\* Bound: MaxSessions are created.
Room == Cardinality(Created) + Cardinality({h \in Handlers : handler[h].at = "create"}) < MaxSessions
Ask(h, op, at, s) == /\ op \in Requests  /\ handler[h] = Free
                     /\ handler' = [handler EXCEPT ![h] = Serving(op, at, s, None)]

\* A capture start writes a new state file, with no session in it.
BeginAttach(h) ==
  /\ Ask(h, "attach", "look", NoSession)
  /\ file' = TRUE
  /\ link' = IF file THEN link ELSE NoSession
  /\ UNCHANGED <<store, registry, event, own>>
\* A session that runs is reused; without the model's file, or an eve path, there is none.
Look(h) ==
  /\ handler[h].at = "look"
  /\ \/ (link = NoSession \/ ~Running(link)) /\ Room /\ Go(h, "create")
     \/ Answer(h)
  /\ UNCHANGED <<store, capture, registry, event, own>>
BeginSession(h) ==
  /\ Room
  /\ Ask(h, "session", "create", NoSession)
  /\ UNCHANGED <<store, capture, registry, event, own>>

\* create_live_session, and the start of the kickoff thread.
Create(h) == LET s == Cardinality(Created) + 1 IN
  /\ handler[h].at = "create"
  /\ \E e \in Eves : Update(s, "analyzing", StartAt, e)
  /\ monitor' = [monitor EXCEPT ![s] = "kickoff"]
  /\ IF handler[h].op = "attach"
       THEN handler' = [handler EXCEPT ![h].at = "link", ![h].s = s]
       ELSE Answer(h)
  /\ UNCHANGED <<capture, registry, event, instance, path, counted>>
\* set_ml_session_id does nothing when the capture's file has gone.
Link(h) ==
  /\ handler[h].at = "link"
  /\ link' = IF file THEN handler[h].s ELSE link
  /\ Answer(h)
  /\ UNCHANGED <<store, file, registry, event, own>>

-----------------------------------------------------------------------------
(* Stopping: live_stop and capture_stop call stop_monitor, then a task     *)
(* that calls it again.                                                    *)

BeginStop(h, s) ==
  /\ s \in Created  /\ Ask(h, "stop", "flag", s)
  /\ UNCHANGED <<store, capture, registry, event, own>>

\* stop_ml_for_capture: the session linked to the capture, or the one find_running gives, if it runs.
BeginHalt(h) ==
  LET found == {s \in Created : RunningRows # <<>> /\ s = Head(RunningRows) /\ Running(s)}
      chosen == IF link # NoSession THEN {link} ELSE found
  IN /\ \/ \E s \in chosen : Ask(h, "halt", "flag", s)
        \/ chosen = {} /\ Ask(h, "halt", "capture", NoSession)
     /\ UNCHANGED <<store, capture, registry, event, own>>

NextRound(h) == IF handler[h].round = 0 THEN handler' = [handler EXCEPT ![h].at = "flag", ![h].round = 1]
                                        ELSE Go(h, "close")
Forgotten(h) == {}                                    \* mutant: forgets the thread without setting its Event
Raised(h) == {handler[h].s}
RaiseFlag(h) ==
  /\ handler[h].at = "flag"
  /\ IF handler[h].s \in flags THEN event' = event \cup Raised(h) /\ Go(h, "join")
                               ELSE NextRound(h) /\ UNCHANGED event
  /\ UNCHANGED <<store, capture, registry, own>>

JoinOver(s) == s \notin active \/ monitor[s] = "dead" \/ JoinTimesOut
Join(h) == LET s == handler[h].s IN
  /\ handler[h].at = "join"
  /\ \/ JoinOver(s) /\ Go(h, "forget")
     \/ s \in active /\ monitor[s] = "listed" /\ Answer(h)    \* RuntimeError: the thread is not started
  /\ UNCHANGED <<store, capture, registry, event, own>>

Forget(h) ==
  /\ handler[h].at = "forget"
  /\ active' = active \ {handler[h].s}  /\ flags' = flags \ {handler[h].s}
  /\ NextRound(h)
  /\ UNCHANGED <<store, capture, event, own>>

\* live_stop writes "complete" and answers; capture_stop does if the record says
\* "analyzing", and unlinks the session before it stops the capture.
Close(h) == LET s == handler[h].s IN
  /\ handler[h].at = "close"
  /\ IF handler[h].op = "stop" \/ record[s].status = "analyzing"
       THEN Update(s, "complete", record[s].progress, record[s].eve) ELSE UNCHANGED store
  /\ IF handler[h].op = "halt" THEN link' = NoSession /\ Go(h, "capture")
                               ELSE Answer(h) /\ UNCHANGED link
  /\ UNCHANGED <<file, registry, event, own>>
\* stop_capture: it may fail, and keep its file.
StopCapture(h) ==
  /\ handler[h].at = "capture"
  /\ \/ file' = FALSE /\ link' = NoSession
     \/ UNCHANGED capture
  /\ Answer(h)
  /\ UNCHANGED <<store, registry, event, own>>

-----------------------------------------------------------------------------
(* rebind_eve: the record, then the consumer of the instance, if any.      *)

BeginRebind(h, s, e) ==
  /\ s \in Created
  /\ "rebind" \in Requests  /\ handler[h] = Free
  /\ handler' = [handler EXCEPT ![h] = Serving("rebind", "rebind", s, e)]
  /\ Update(s, record[s].status, record[s].progress, e)
  /\ UNCHANGED <<capture, registry, event, own>>
Rebind(h) == LET s == handler[h].s IN
  /\ handler[h].at = "rebind"
  /\ path' = IF s \in instance THEN [path EXCEPT ![s] = handler[h].eve] ELSE path
  /\ Answer(h)
  /\ UNCHANGED <<store, capture, registry, event, instance, monitor, counted>>

HandlerStep(h) ==
  \/ Look(h) \/ Create(h) \/ Link(h) \/ RaiseFlag(h) \/ Join(h) \/ Forget(h)
  \/ Close(h) \/ StopCapture(h) \/ Rebind(h)

\* The process ends and comes back: its threads are gone, the files stay.
Restart ==
  /\ MayRestart
  /\ monitor' = [s \in Sessions |-> IF s \in Created THEN "dead" ELSE "none"]
  /\ handler' = [h \in Handlers |-> Free]
  /\ flags' = {}  /\ active' = {}  /\ instance' = {}  /\ event' = {}
  /\ UNCHANGED <<store, capture, path, counted>>

Next ==
  \/ \E s \in Sessions : MonitorStep(s)
  \/ \E h \in Handlers : \/ HandlerStep(h)
                         \/ BeginAttach(h) \/ BeginSession(h) \/ BeginHalt(h)
                         \/ \E s \in Sessions : BeginStop(h, s) \/ \E e \in Eves : BeginRebind(h, s, e)
  \/ Restart

Spec == Init /\ [][Next]_vars
\* Threads run, a batch ends, and a handler goes on until it answers.
FairSpec == /\ Spec
            /\ \A s \in Sessions : WF_vars(MonitorStep(s))
            /\ \A h \in Handlers : WF_vars(HandlerStep(h))

-----------------------------------------------------------------------------
MonitorAt == {"none", "kickoff", "flagged", "listed", "setup", "models", "check", "batch", "stats",
              "finish", "pop", "dead"}
HandlerAt == {"idle", "look", "create", "link", "flag", "join", "forget", "close", "capture", "rebind"}

TypeOK ==
  /\ record \in [Sessions -> [status : {None, "analyzing", "complete"}, progress : 0 .. 100,
                              eve : Eves \cup {None}]]
  /\ recent \in Seq(Created)  /\ Len(recent) = Cardinality(Created)
  /\ file \in BOOLEAN  /\ link \in Created \cup {NoSession}
  /\ flags \subseteq Created  /\ active \subseteq Created
  /\ instance \subseteq Created  /\ event \subseteq Created
  /\ monitor \in [Sessions -> MonitorAt]
  /\ path \in [Sessions -> Eves \cup {None}]  /\ counted \in [Sessions -> 0 .. 99]
  /\ handler \in [Handlers -> [at : HandlerAt, op : Requests \cup {None}, s : Created \cup {NoSession},
                               round : 0 .. 1, eve : Eves \cup {None}]]

\* A monitor that runs and was not told to stop is seen as running and can be
\* stopped: however stops, joins that time out and starts overlap, its thread
\* and its Event stay registered.
NoOrphan == \A s \in Sessions : Alive(s) /\ s \notin event => s \in flags /\ s \in active

\* Progress 100 is the last word: the session is complete, and its thread writes
\* the record no more, whatever update it had begun.
HundredIsDone == \A s \in Sessions : record[s].progress = 100 =>
  record[s].status = "complete" /\ monitor[s] \in {"pop", "dead"}

\* Once its Event is set a session comes to say "complete", for good, although
\* batches under way say "analyzing" again after the handler wrote it; unless its
\* thread ended without its last word, by a failed setup or a restart.
StoppedIsComplete == \A s \in Sessions :
  s \in event ~> ([](record[s].status = "complete") \/ (monitor[s] = "dead" /\ record[s].progress # 100))

\* A stop that meets a registered monitor ends it, also when it is still starting.
StopTakes == \A h \in Handlers, s \in Sessions :
  handler[h].at = "flag" /\ handler[h].s = s /\ s \in flags ~> monitor[s] = "dead"
=============================================================================

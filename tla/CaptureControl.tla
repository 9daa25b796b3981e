--------------------------- MODULE CaptureControl ---------------------------
(***************************************************************************)
(* Starting, stopping and watching a capture from the dashboard:           *)
(* app/services/capture/orchestrator.py, the process handling of           *)
(* app/services/live/suricata_manager.py, and the routes of                *)
(* app/routes/api.py that call them.  Request threads run side by side and *)
(* take no lock; the processes, the state file and the handles are shared. *)
(*                                                                         *)
(* A process is its pid.  The state file is the mode and pid it records    *)
(* and whether it names an ML session.  The packet feed and the chunk      *)
(* watcher are whether they run.  One step is one access to shared state,  *)
(* or several with nothing slow between them.                              *)
(***************************************************************************)
EXTENDS Integers

CONSTANTS Controllers,   \* request threads that start and stop captures
          Dashboards,    \* request threads that poll /api/capture/status
          Modes,         \* modes asked for, a subset of {"suricata", "tcpdump"}
          PanelUsed,     \* are /api/suricata/start and stop used as well?
          MayReusePid,   \* may a dead capture's pid go to a process of someone else?
          MayOutlive,    \* may a process survive SIGKILL past the last wait?
          MayFail,       \* may the state file, and a signal, be refused with an OSError?
          MaxProcs,      \* bound: capture processes ever spawned
          MaxRestarts    \* bound: Flask restarts

Sane == /\ MaxProcs \in Nat /\ MaxRestarts \in Nat
        /\ Modes \subseteq {"suricata", "tcpdump"} /\ MayFail \in BOOLEAN

Procs    == 1 .. MaxProcs
NoPid    == 0
NoState  == [mode |-> "none", pid |-> NoPid, ml |-> FALSE]
Requests == Controllers \cup Dashboards
Idle     == [kind |-> "none", at |-> "idle", mode |-> "none", pid |-> NoPid,
             snap |-> NoState, seen |-> FALSE]

VARIABLES
  proc,      \* proc[p]: the process with pid p, and the mode it captures in
  external,  \* a Suricata that packetEye did not start is running
  managed,   \* _managed["process"], the Suricata handle
  tcpdump,   \* _tcpdump["process"]
  state,     \* capture_state.json, or NoState when the file is absent
  feedOn,    \* the packet feed's running flag
  watching,  \* the chunk watcher was started and not stopped
  req,       \* req[r]: what request thread r is doing
  restarts,  \* Flask restarts so far
  strayed,   \* history: processes whose start a restart cut off, or whose handle or file was lost
  unwritten, \* history: processes whose record the file lost, or never got, to an OSError
  spared,    \* history: processes the last stop was refused, or did not read of
  panel,     \* history: the Suricata panel was used
  refed      \* history: a status poll started the feed after the last stop of it

handles == <<managed, tcpdump>>
side    == <<feedOn, watching>>
hist    == <<strayed, unwritten, spared, panel, refed>>
env     == <<external, restarts, hist>>
vars    == <<proc, handles, state, side, req, env>>

Init ==
  /\ proc = [p \in Procs |-> [at |-> "unborn", mode |-> "none"]]
  /\ external = FALSE
  /\ managed = NoPid  /\ tcpdump = NoPid
  /\ state = NoState
  /\ feedOn = FALSE  /\ watching = FALSE
  /\ req = [r \in Requests |-> Idle]
  /\ restarts = 0  /\ strayed = {}  /\ unwritten = {}  /\ spared = {}  /\ panel = FALSE  /\ refed = FALSE

-----------------------------------------------------------------------------
\* A process lives until it is dead; one that was sent SIGTERM may linger.
Living(p)  == p \in {q \in Procs : proc[q].at \in {"up", "terminated"}}
\* _pid_alive only asks whether some process has the pid.
PidAlive(p) == p \in {q \in Procs : proc[q].at \in {"up", "terminated", "foreign"}}

Managed == Living(managed)
SuricataFound == external \/ \E p \in Procs : Living(p) /\ proc[p].mode = "suricata"
TcpdumpRunning(read) == Living(tcpdump) \/ (read.mode = "tcpdump" /\ PidAlive(read.pid))

At(r, kind, place) == req[r].kind = kind /\ req[r].at = place
Goto(r, place) == req' = [req EXCEPT ![r].at = place]
Answer(r) == req' = [req EXCEPT ![r] = Idle]

\* The state file.  An OSError of the read is an absent file; one of the write is
\* only logged, and leaves the file as it was or cut short; one of unlink is passed over.
FileReads == {state} \cup IF MayFail THEN {NoState} ELSE {}
OnlyFiled == {state.pid} \ {NoPid, managed, tcpdump}
Clear     == state' \in {NoState} \cup IF MayFail THEN {state} ELSE {}
WriteFile(s) ==
  /\ state' \in {s} \cup IF MayFail THEN {state, NoState} ELSE {}
  /\ IF state' = s THEN UNCHANGED <<strayed, unwritten>>
     ELSE /\ unwritten' = unwritten \cup ({s.pid, state.pid} \ {state'.pid, NoPid})
          /\ strayed' = strayed \cup (OnlyFiled \ {state'.pid})

-----------------------------------------------------------------------------
(* capture_status: read the file and the handles, then drop a stale file.  *)

ReadStatus(r, kind, mode) ==
  /\ req[r] = Idle
  /\ \E read \in FileReads :
       /\ req' = [req EXCEPT ![r] = [Idle EXCEPT !.kind = kind, !.mode = mode, !.at = "decide", !.snap = read,
                                                 !.seen = Managed \/ TcpdumpRunning(read)]]
       /\ strayed' = IF kind = "start" /\ read # state THEN strayed \cup OnlyFiled ELSE strayed
  /\ UNCHANGED <<proc, handles, state, side, external, restarts, unwritten, spared, panel, refed>>

\* _clear_stale_state unlinks whatever file is there now, on what was seen then.
IsStale(r) == req[r].snap # NoState /\ ~req[r].seen /\ ~PidAlive(req[r].snap.pid)

DecideStatus(r) ==
  /\ req[r].at = "decide"
  /\ IF IsStale(r) THEN Clear ELSE UNCHANGED state
  /\ strayed' = IF state' # state /\ state # req[r].snap THEN strayed \cup ({state.pid} \ {NoPid}) ELSE strayed
  /\ UNCHANGED <<proc, handles, side, external, restarts, unwritten, spared, panel, refed>>

\* GET /api/capture/status starts the feed when a capture runs without one.
StatusPoll(r) ==
  /\ At(r, "status", "decide")  /\ DecideStatus(r)
  /\ IF req[r].seen /\ ~feedOn THEN Goto(r, "autofeed") ELSE Answer(r)
AutoFeed(r) ==
  /\ At(r, "status", "autofeed")
  /\ feedOn' = TRUE  /\ refed' = TRUE
  /\ Answer(r)
  /\ UNCHANGED <<proc, handles, state, watching, external, restarts, strayed, unwritten, spared, panel>>

\* POST /api/capture/start refuses when a capture runs.
RefuseNever(r) == FALSE                                  \* mutant: the answer of capture_status is dropped
RefusedAsRunning(r) == req[r].seen
StartDecide(r) ==
  /\ At(r, "start", "decide")  /\ DecideStatus(r)
  /\ IF RefusedAsRunning(r) THEN Answer(r)
     ELSE Goto(r, IF req[r].mode = "suricata" THEN "check" ELSE "popen")

-----------------------------------------------------------------------------
(* start_suricata and _start_tcpdump.                                      *)

PanelStart(r) ==
  /\ PanelUsed  /\ req[r] = Idle
  /\ req' = [req EXCEPT ![r] = [Idle EXCEPT !.kind = "panelStart", !.mode = "suricata", !.at = "check"]]
  /\ panel' = TRUE
  /\ UNCHANGED <<proc, handles, state, side, external, restarts, strayed, unwritten, spared, refed>>

CheckSuricata(r) ==
  /\ req[r].at = "check"
  /\ IF Managed \/ SuricataFound THEN Answer(r) ELSE Goto(r, "popen")
  /\ UNCHANGED <<proc, handles, state, side, env>>

\* Up to 90 seconds of preflight after the check, the process is spawned.
Popen(r) ==
  /\ req[r].at = "popen"
  /\ \E p \in Procs :
       /\ proc[p].at = "unborn"  /\ \A q \in Procs : q < p => proc[q].at # "unborn"
       /\ proc' = [proc EXCEPT ![p] = [at |-> "up", mode |-> req[r].mode]]
       /\ req' = [req EXCEPT ![r].at = "settle", ![r].pid = p]
  /\ UNCHANGED <<handles, state, side, env>>
\* No binary, no privilege, a failed preflight or an OSError: nothing spawned.
PopenFails(r) ==
  /\ req[r].at = "popen"  /\ Answer(r)
  /\ UNCHANGED <<proc, handles, state, side, env>>

\* After the sleep: a process still there becomes the handle, whatever the
\* handle was.  A tcpdump refused by its chunk directory tries the next one.
RecordSwapped(r) == managed' = req[r].pid /\ UNCHANGED tcpdump   \* mutant: the wrong handle
RecordHandle(r) ==
  IF req[r].mode = "suricata" THEN managed' = req[r].pid /\ UNCHANGED tcpdump
                              ELSE tcpdump' = req[r].pid /\ UNCHANGED managed
Settle(r) ==
  /\ req[r].at = "settle"  /\ Living(req[r].pid)
  /\ RecordHandle(r)
  /\ IF req[r].kind = "start" THEN Goto(r, "write") ELSE Answer(r)
  /\ UNCHANGED <<proc, state, side, env>>
SettleFails(r) ==
  /\ req[r].at = "settle"  /\ ~Living(req[r].pid)
  /\ \/ Answer(r)
     \/ req[r].mode = "tcpdump" /\ Goto(r, "popen")
  /\ UNCHANGED <<proc, handles, state, side, env>>

WriteState(r) ==
  /\ At(r, "start", "write")
  /\ WriteFile([mode |-> req[r].mode, pid |-> req[r].pid, ml |-> FALSE])
  /\ Goto(r, "feed")
  /\ UNCHANGED <<proc, handles, side, external, restarts, spared, panel, refed>>
StartFeed(r) ==
  /\ At(r, "start", "feed")
  /\ feedOn' = TRUE  /\ watching' = (watching \/ req[r].mode = "tcpdump")
  /\ Goto(r, "ml")
  /\ UNCHANGED <<proc, handles, state, env>>

\* set_ml_session_id: read the file, then write it back with or without the id.
\* attach_ml_to_capture may have no session to name (no model, disabled).
NotAsked == TRUE                                         \* mutant: an absent file is written to
FilePresent == state # NoState
ReadForMl(r) ==
  /\ req[r].at = "ml"
  /\ \/ FilePresent /\ req' = [req EXCEPT ![r].at = "mlwrite", ![r].snap = state]
     \/ req[r].kind = "start" /\ Answer(r)
     \/ req[r].kind = "stop" /\ NoState \in FileReads /\ Goto(r, "unfeed")
  /\ UNCHANGED <<proc, handles, state, side, env>>
WriteMl(r) ==
  /\ req[r].at = "mlwrite"
  /\ WriteFile([req[r].snap EXCEPT !.ml = (req[r].kind = "start")])
  /\ IF req[r].kind = "start" THEN Answer(r) ELSE Goto(r, "unfeed")
  /\ UNCHANGED <<proc, handles, side, external, restarts, spared, panel, refed>>

-----------------------------------------------------------------------------
(* POST /api/capture/stop: the ML session, the feed, the process, the      *)
(* watcher, in this order, whether or not each of them was found.          *)

StopMl(r) ==
  /\ req[r] = Idle
  /\ \E place \in IF \A read \in FileReads : read.ml THEN {"ml"} ELSE {"ml", "unfeed"} :
       req' = [req EXCEPT ![r] = [Idle EXCEPT !.kind = "stop", !.at = place]]
  /\ spared' = {}
  /\ UNCHANGED <<proc, handles, state, side, external, restarts, strayed, unwritten, panel, refed>>

FeedKept == UNCHANGED feedOn                             \* mutant: stop forgets the feed
FeedStopped == feedOn' = FALSE
StopFeed(r) ==
  /\ At(r, "stop", "unfeed")
  /\ FeedStopped  /\ refed' = FALSE
  /\ Goto(r, "halt")
  /\ UNCHANGED <<proc, handles, state, watching, external, restarts, strayed, unwritten, spared, panel>>

Terminate(p) == proc' = [proc EXCEPT ![p].at = IF @ = "up" THEN "terminated" ELSE @]

\* stop_capture picks the managed Suricata, else the tcpdump handle, else the
\* tcpdump the file names, else there is nothing to stop and the file goes.
\* A refused signal is the answer of the request, which still goes on to the watcher.
Halted == IF Managed THEN managed ELSE tcpdump
HaltHandle(r) ==
  /\ At(r, "stop", "halt")
  /\ Managed \/ Living(tcpdump)
  /\ \/ /\ Terminate(Halted)
        /\ req' = [req EXCEPT ![r].at = "wait", ![r].pid = Halted, ![r].mode = proc[Halted].mode]
        /\ UNCHANGED spared
     \/ /\ MayFail
        /\ spared' = spared \cup {Halted}
        /\ Goto(r, "unwatch")
        /\ UNCHANGED proc
  /\ UNCHANGED <<handles, state, side, external, restarts, strayed, unwritten, panel, refed>>
HandleOnly == FALSE                                      \* mutant: only the handles are looked at
NamedByFile == state.mode = "tcpdump" /\ PidAlive(state.pid)
HaltByPid(r) ==
  /\ At(r, "stop", "halt")  /\ ~Managed  /\ ~Living(tcpdump)
  /\ NamedByFile
  /\ \/ Terminate(state.pid) /\ Clear /\ UNCHANGED spared
     \/ MayFail /\ spared' = spared \cup {state.pid} /\ UNCHANGED <<proc, state>>
  /\ Goto(r, "unwatch")
  /\ UNCHANGED <<handles, side, external, restarts, strayed, unwritten, panel, refed>>
HaltNothing(r) ==
  /\ At(r, "stop", "halt")  /\ ~Managed  /\ ~Living(tcpdump)
  /\ \/ ~NamedByFile /\ Clear /\ UNCHANGED spared
     \/ NoState \in FileReads /\ spared' = spared \cup OnlyFiled /\ UNCHANGED state
  /\ Goto(r, "unwatch")
  /\ UNCHANGED <<proc, handles, side, external, restarts, strayed, unwritten, panel, refed>>

\* POST /api/suricata/stop is stop_suricata alone.
PanelStop(r) ==
  /\ PanelUsed  /\ req[r] = Idle
  /\ \/ /\ Managed
        /\ Terminate(managed)
        /\ req' = [req EXCEPT ![r] = [Idle EXCEPT !.kind = "panelStop", !.at = "wait",
                                                  !.pid = managed, !.mode = "suricata"]]
        /\ UNCHANGED managed
     \/ Managed /\ MayFail /\ UNCHANGED <<proc, req, managed>>
     \/ ~Managed /\ managed' = NoPid /\ UNCHANGED <<proc, req>>
  /\ panel' = TRUE
  /\ UNCHANGED <<tcpdump, state, side, external, restarts, strayed, unwritten, spared, refed>>

\* The wait over, the handle is dropped, whichever process it holds by now;
\* stop_suricata leaves the file to its caller.
WaitEnds(r) ==
  /\ req[r].at = "wait"  /\ ~Living(req[r].pid)
  /\ IF req[r].mode = "suricata" THEN managed' = NoPid /\ UNCHANGED tcpdump
                                 ELSE tcpdump' = NoPid /\ UNCHANGED managed
  /\ IF req[r].kind = "stop" THEN Clear /\ Goto(r, "unwatch")
                             ELSE UNCHANGED state /\ Answer(r)
  /\ UNCHANGED <<proc, side, env>>
\* A process that ignores SIGTERM is killed, or that is refused; one that outlives
\* even that ends the request in an exception that stop_capture does not catch.
Kill(r) ==
  /\ req[r].at = "wait"  /\ Living(req[r].pid)
  /\ \/ proc' = [proc EXCEPT ![req[r].pid].at = "dead"] /\ UNCHANGED req
     \/ MayOutlive /\ Answer(r) /\ UNCHANGED proc
     \/ MayFail /\ (IF req[r].kind = "stop" THEN Goto(r, "unwatch") ELSE Answer(r)) /\ UNCHANGED proc
  /\ UNCHANGED <<handles, state, side, env>>

StopWatcher(r) ==
  /\ At(r, "stop", "unwatch")
  /\ watching' = FALSE
  /\ Answer(r)
  /\ UNCHANGED <<proc, handles, state, feedOn, env>>

-----------------------------------------------------------------------------
(* The host and the server around them.                                    *)

Die(p) ==
  /\ Living(p)
  /\ proc' = [proc EXCEPT ![p].at = "dead"]
  /\ UNCHANGED <<handles, state, side, req, env>>
ReusePid(p) ==
  /\ MayReusePid  /\ proc[p].at = "dead"
  /\ proc' = [proc EXCEPT ![p].at = "foreign"]
  /\ UNCHANGED <<handles, state, side, req, env>>
ExternalSuricata ==
  /\ external' = ~external
  /\ UNCHANGED <<proc, handles, state, side, req, restarts, hist>>

\* Flask restarts: threads, handles, feed and watcher are gone; the captures
\* and the state file stay.
InFlight == {req[r].pid : r \in {q \in Requests : req[q].at \in {"settle", "write"}}}
Restart ==
  /\ restarts < MaxRestarts
  /\ restarts' = restarts + 1
  /\ strayed' = strayed \cup InFlight \cup ({managed} \ {NoPid}) \cup ({tcpdump} \cap unwritten)
  /\ req' = [r \in Requests |-> Idle]
  /\ managed' = NoPid  /\ tcpdump' = NoPid
  /\ feedOn' = FALSE  /\ watching' = FALSE
  /\ UNCHANGED <<proc, state, external, unwritten, spared, panel, refed>>

-----------------------------------------------------------------------------
Step(r) ==
  \/ StatusPoll(r) \/ AutoFeed(r)
  \/ StartDecide(r) \/ CheckSuricata(r) \/ Popen(r) \/ PopenFails(r) \/ Settle(r) \/ SettleFails(r)
  \/ WriteState(r) \/ StartFeed(r) \/ ReadForMl(r) \/ WriteMl(r)
  \/ StopFeed(r) \/ HaltHandle(r) \/ HaltByPid(r) \/ HaltNothing(r) \/ WaitEnds(r) \/ Kill(r)
  \/ StopWatcher(r)

Next ==
  \/ \E r \in Requests : Step(r)
  \/ \E r \in Dashboards : ReadStatus(r, "status", "none")
  \/ \E r \in Controllers : \/ \E m \in Modes : ReadStatus(r, "start", m)
                            \/ StopMl(r) \/ PanelStart(r) \/ PanelStop(r)
  \/ \E p \in Procs : Die(p) \/ ReusePid(p)
  \/ ExternalSuricata
  \/ Restart

Spec == Init /\ [][Next]_vars

-----------------------------------------------------------------------------
States == [mode : {"suricata", "tcpdump", "none"}, pid : Procs \cup {NoPid}, ml : BOOLEAN]

TypeOK ==
  /\ proc \in [Procs -> [at : {"unborn", "up", "terminated", "dead", "foreign"},
                        mode : {"suricata", "tcpdump", "none"}]]
  /\ external \in BOOLEAN
  /\ managed \in {p \in Procs : proc[p].mode = "suricata"} \cup {NoPid}
  /\ tcpdump \in {p \in Procs : proc[p].mode = "tcpdump"} \cup {NoPid}
  /\ state \in States
  /\ feedOn \in BOOLEAN  /\ watching \in BOOLEAN
  /\ req \in [Requests -> [kind : {"none", "status", "start", "stop", "panelStart", "panelStop"},
                          at : {"idle", "decide", "autofeed", "check", "popen", "settle", "write", "feed",
                                "ml", "mlwrite", "unfeed", "halt", "wait", "unwatch"},
                          mode : {"suricata", "tcpdump", "none"}, pid : Procs \cup {NoPid},
                          snap : States, seen : BOOLEAN]]
  /\ restarts \in 0 .. MaxRestarts  /\ strayed \cup unwritten \cup spared \subseteq Procs  /\ panel \in BOOLEAN  /\ refed \in BOOLEAN

Up == {p \in Procs : proc[p].at = "up"}

\* However requests interleave, a state file that exists names a capture that
\* was started, in its mode: set_ml_session_id never writes a file of its own.
StateNamesACapture ==
  state # NoState => state.pid \in Procs /\ proc[state.pid].at # "unborn" /\ proc[state.pid].mode = state.mode

\* With one controller who leaves the Suricata panel alone, and status polls at any
\* time: every capture that runs can still be stopped, because a handle, the file or
\* the request that started it knows it.  Lost are those that strayed: started by a
\* request that a restart cut off; known by a handle that a restart dropped, of
\* Suricata, or of a tcpdump that an OSError kept out of the file; or known by the
\* file alone, when a poll dropped it on what it had read before, a write of the ML
\* session cut it short, or the next start could not read it.
NoOrphan == ~panel => Up \subseteq {managed, tcpdump, state.pid} \cup InFlight \cup strayed

\* ... when a stop has gone through, found or not, nothing it could know of captures,
\* but what it was refused to signal or only an unreadable file named, and the feed is
\* off unless a status poll has started it meanwhile.
StopIsComplete == [][\A r \in Controllers :
  StopWatcher(r) /\ ~panel => Up \subseteq strayed \cup spared /\ (feedOn => refed)]_vars

\* ... and two captures never run at once.
OneCapture == ~panel => \A p, q \in Up \ strayed : p = q

\* orchestrator.py:3-5: "State is persisted to a JSON file so a Flask restart can
\* rediscover (and stop) a capture process it started earlier."
RestartRediscovers == state # NoState /\ proc[state.pid].at = "up" => Managed \/ TcpdumpRunning(state)
=============================================================================

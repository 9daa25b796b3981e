---------------------------- MODULE PcapWatcher ----------------------------
(***************************************************************************)
(* The chunks of a tcpdump capture (pcap_watcher.py).  tcpdump, a process  *)
(* of its own, writes one chunk after another; a watcher thread queues an  *)
(* analysis for each chunk that has been quiet for 15 s, writes down which *)
(* ones it has queued, and deletes old ones, every 10 s.  The analysis, a  *)
(* thread of its own, opens the file twice: to parse it, and to replay it  *)
(* against the Suricata rules.                                             *)
(*                                                                         *)
(* A chunk is its number, in the order of the times they were last         *)
(* written; names sort the same way, as they do while the process that     *)
(* starts tcpdump stays the same.                                          *)
(***************************************************************************)
EXTENDS Integers, FiniteSets

CONSTANTS Keep,        \* TCPDUMP_CHUNK_KEEP
          SaveCap,     \* names that processed_chunks.json may hold (500 in the code)
          MaxChunks,   \* bound: chunks tcpdump makes
          MaxRuns      \* bound: watcher threads ever started

ASSUME KeepAssumption == Keep \in Nat \ {0}
ASSUME BoundsAssumption == {SaveCap, MaxChunks, MaxRuns} \subseteq Nat

Chunks == 1 .. MaxChunks
Runs   == 1 .. MaxRuns
NoRun  == 0

VARIABLES
  dumping,   \* does tcpdump run?  It writes to chunk made
  made,      \* chunks made so far
  disk,      \* chunks in the directory
  blank,     \* chunks of size 0
  quiet,     \* chunks last written at least 15 s ago
  saved,     \* processed_chunks.json
  handle,    \* _watcher: the run its "thread" and "stop" are of
  runs,      \* runs started so far
  set,       \* runs whose Event is set, until they end
  watch,     \* watch[r]: [at, known, list, sick] of run r: its place, processed, the chunks
             \* found closed, and whether its database session needs a rollback
  caller,    \* the request on the watcher: [at, run]
  rows,      \* chunks that have an Analysis row
  queued,    \* queued[c]: analyses of chunk c handed to the pipeline
  job,       \* job[c]: how far the first of those has come
  gone,      \* history: chunks deleted by an analyst, or reclaimed by a start
  calm       \* history: no restart, no two watchers at once, nothing that should have
             \* been saved or deleted was not

files == <<disk, blank, quiet>>
tasks == <<rows, queued, job>>
hist  == <<gone, calm>>
vars  == <<dumping, made, files, saved, handle, runs, set, watch, caller, tasks, hist>>

Places == {"none", "load", "test", "claim", "save", "prune", "off"}
Alive(r) == r # NoRun /\ watch[r].at \notin {"none", "off"}
Idle(at) == [at |-> at, known |-> {}, list |-> {}, sick |-> FALSE]
Ended == Idle("off")
At(r, at) == watch' = [watch EXCEPT ![r].at = at]

TypeOK ==
  /\ dumping \in BOOLEAN  /\ made \in 0 .. MaxChunks
  /\ disk \subseteq 1 .. made  /\ blank \subseteq 1 .. made  /\ quiet \subseteq 1 .. made
  /\ saved \subseteq Chunks
  /\ handle \in 0 .. runs  /\ runs \in 0 .. MaxRuns  /\ set \subseteq 1 .. runs
  /\ watch \in [Runs -> [at : Places, known : SUBSET Chunks, list : SUBSET Chunks, sick : BOOLEAN]]
  /\ caller \in [at : {"idle", "begin", "join"}, run : 0 .. MaxRuns]
  /\ rows \subseteq Chunks  /\ queued \in [Chunks -> Nat]
  /\ job \in [Chunks -> {"none", "parse", "scan", "read", "missed"}]
  /\ gone \subseteq Chunks  /\ calm \in BOOLEAN

Init ==
  /\ dumping = FALSE  /\ made = 0
  /\ disk = {}  /\ blank = {}  /\ quiet = {}  /\ saved = {}
  /\ handle = NoRun  /\ runs = 0  /\ set = {}
  /\ watch = [r \in Runs |-> Idle("none")]
  /\ caller = [at |-> "idle", run |-> NoRun]
  /\ rows = {}  /\ queued = [c \in Chunks |-> 0]
  /\ job = [c \in Chunks |-> "none"]
  /\ gone = {}  /\ calm = TRUE

-----------------------------------------------------------------------------
(* tcpdump and the clock *)

Write ==
  /\ dumping
  /\ blank' = blank \ {made}  /\ quiet' = quiet \ {made}
  /\ UNCHANGED <<dumping, made, disk, saved, handle, runs, set, watch, caller, tasks, hist>>

Rotate ==
  /\ dumping  /\ made < MaxChunks
  /\ made' = made + 1
  /\ disk' = disk \cup {made'}  /\ blank' = blank \cup {made'}
  /\ UNCHANGED <<dumping, quiet, saved, handle, runs, set, watch, caller, tasks, hist>>

\* Older chunks have been quiet for longer.
Age ==
  /\ \E c \in (1 .. made) \ quiet :
       /\ \A d \in 1 .. c - 1 : d \in quiet
       /\ quiet' = quiet \cup {c}
  /\ UNCHANGED <<dumping, made, disk, blank, saved, handle, runs, set, watch, caller, tasks, hist>>

-----------------------------------------------------------------------------
(* Requests: capture/start and live/start in mode tcpdump, capture/stop.   *)

\* start_capture: chunks that the server may not write, as when tcpdump ran under sudo, are
\* reclaimed, that is, deleted.
StartTcpdump ==
  /\ ~dumping  /\ made < MaxChunks
  /\ dumping' = TRUE  /\ made' = made + 1
  /\ \E reclaimed \in {{}, disk} :
       /\ disk' = (disk \ reclaimed) \cup {made'}
       /\ gone' = gone \cup reclaimed
  /\ blank' = blank \cup {made'}
  /\ UNCHANGED <<quiet, saved, handle, runs, set, watch, caller, tasks, calm>>

\* start_watcher looks at the thread, and makes one.
WatcherIdle == ~Alive(handle)
StartWatcher ==
  /\ dumping  /\ runs < MaxRuns  /\ WatcherIdle
  /\ runs' = runs + 1  /\ handle' = runs'
  /\ watch' = [watch EXCEPT ![runs'].at = "load"]
  /\ calm' = (calm /\ \A r \in Runs : ~Alive(r))
  /\ UNCHANGED <<dumping, made, files, saved, set, caller, tasks, gone>>

\* The check of a second request, that runs while the first makes its thread ...
StartRace ==
  /\ dumping  /\ caller.at = "idle"  /\ WatcherIdle
  /\ caller' = [at |-> "begin", run |-> NoRun]
  /\ UNCHANGED <<dumping, made, files, saved, handle, runs, set, watch, tasks, hist>>
\* ... and its thread.
StartRaced ==
  /\ caller.at = "begin"  /\ runs < MaxRuns
  /\ caller' = [at |-> "idle", run |-> NoRun]
  /\ runs' = runs + 1  /\ handle' = runs'
  /\ watch' = [watch EXCEPT ![runs'].at = "load"]
  /\ calm' = (calm /\ \A r \in Runs : ~Alive(r))
  /\ UNCHANGED <<dumping, made, files, saved, set, tasks, gone>>

\* capture/stop ends tcpdump, then stop_watcher sets the Event, if there is one, ...
Stop ==
  /\ caller.at = "idle"  /\ (dumping \/ handle # NoRun)
  /\ dumping' = FALSE
  /\ IF handle = NoRun THEN UNCHANGED <<set, caller>>
     ELSE /\ set' = IF Alive(handle) THEN set \cup {handle} ELSE set
          /\ caller' = [at |-> "join", run |-> handle]
  /\ UNCHANGED <<made, files, saved, handle, runs, watch, tasks, hist>>
\* ... and joins for 15 s: a thread that waits for the database may take longer.
StopDone ==
  /\ caller.at = "join"
  /\ Alive(caller.run) => watch[caller.run].at = "claim"
  /\ handle' = NoRun
  /\ caller' = [at |-> "idle", run |-> NoRun]
  /\ UNCHANGED <<dumping, made, files, saved, runs, set, watch, tasks, hist>>

\* delete_analysis removes the file of the chunk, too.
DeleteAnalysis(c) ==
  /\ c \in rows  /\ c \in disk
  /\ disk' = disk \ {c}  /\ gone' = gone \cup {c}
  /\ UNCHANGED <<dumping, made, blank, quiet, saved, handle, runs, set, watch, caller, tasks, calm>>

\* The server restarts: its threads end, tcpdump goes on, and nothing starts a watcher.
\* A save that is cut short leaves a file that does not load.
Restart ==
  /\ runs > 0
  /\ saved' \in {saved} \cup (IF \E r \in Runs : watch[r].at = "save" THEN {{}} ELSE {})
  /\ handle' = NoRun  /\ caller' = [at |-> "idle", run |-> NoRun]
  /\ watch' = [r \in Runs |-> IF Alive(r) THEN Ended ELSE watch[r]]
  /\ set' = {}  /\ calm' = FALSE
  /\ UNCHANGED <<dumping, made, files, runs, tasks, gone>>

-----------------------------------------------------------------------------
(* _run_loop of run r *)

others == <<dumping, made, blank, quiet, handle, runs, set, caller>>

\* _load_processed, which may find the file half written.
Load(r) ==
  /\ watch[r].at = "load"
  /\ \E known \in {saved} \cup (IF \E o \in Runs : watch[o].at = "save" THEN {{}} ELSE {}) :
       watch' = [watch EXCEPT ![r] = [at |-> "test", known |-> known, list |-> {}, sick |-> FALSE]]
  /\ UNCHANGED <<others, disk, saved, tasks, gone, calm>>

End(r) ==
  /\ watch[r].at = "test"  /\ r \in set
  /\ watch' = [watch EXCEPT ![r] = Ended]  /\ set' = set \ {r}
  /\ UNCHANGED <<dumping, made, files, saved, handle, runs, caller, tasks, hist>>

\* find_closed_chunks
ClosedAgain(known) == (disk \cap quiet) \ blank        \* mutant: does not look at processed
ClosedChunks(known) == ((disk \cap quiet) \ blank) \ known
Find(r) ==
  /\ watch[r].at = "test"  /\ r \notin set
  /\ watch' = [watch EXCEPT ![r].at = "claim", ![r].list = ClosedChunks(watch[r].known)]
  /\ UNCHANGED <<others, disk, saved, tasks, gone, calm>>

\* _analyze_chunk, oldest first ...
First(r, c) == watch[r].at = "claim"  /\ c \in watch[r].list  /\ \A d \in watch[r].list : c <= d
\* ... the row is committed, the pipeline told, the name noted;
Claim(r, c) ==
  /\ First(r, c)  /\ ~watch[r].sick
  /\ watch' = [watch EXCEPT ![r].list = @ \ {c}, ![r].known = @ \cup {c}]
  /\ rows' = rows \cup {c}
  /\ queued' = [queued EXCEPT ![c] = @ + 1]
  /\ job' = [job EXCEPT ![c] = IF @ = "none" THEN "parse" ELSE @]
  /\ UNCHANGED <<others, disk, saved, gone, calm>>
\* ... or the commit fails, and nobody rolls the session back, so that every later one fails, too;
CommitFails(r, c) ==
  /\ First(r, c)
  /\ watch' = [watch EXCEPT ![r].list = @ \ {c}, ![r].sick = TRUE]
  /\ UNCHANGED <<others, disk, saved, tasks, gone, calm>>
\* ... or the row is there, but the broker, or the thread, is not to be had, and the chunk is
\* tried again the next time.
KnownAnyway(r, c) == {c}                          \* mutant: the name is noted before the kickoff
NotedOnFailure(r, c) == {}
KickoffFails(r, c) ==
  /\ First(r, c)  /\ ~watch[r].sick
  /\ watch' = [watch EXCEPT ![r].list = @ \ {c}, ![r].known = @ \cup NotedOnFailure(r, c)]
  /\ rows' = rows \cup {c}
  /\ UNCHANGED <<others, disk, saved, queued, job, gone, calm>>
Claimed(r) ==
  /\ watch[r].at = "claim"  /\ watch[r].list = {}
  /\ At(r, "save")
  /\ UNCHANGED <<others, disk, saved, tasks, gone, calm>>

\* _save_processed: the last names, or nothing.
Newest(S, n) == {c \in S : Cardinality({d \in S : d > c}) < n}
SavedNames(S) == Newest(S, SaveCap)
Save(r) ==
  /\ watch[r].at = "save"  /\ At(r, "prune")
  /\ \/ /\ saved' = SavedNames(watch[r].known)
        /\ UNCHANGED calm
     \/ /\ UNCHANGED saved
        /\ calm' = FALSE
  /\ UNCHANGED <<others, disk, tasks, gone>>

\* prune_chunks: of the chunks beyond the newest, those processed; some may not let themselves
\* be deleted.
PruneEarly(known) == (disk \ Newest(disk, Keep - 1)) \cap known    \* mutant: off by one
Prunable(known) == (disk \ Newest(disk, Keep)) \cap known
Prune(r) ==
  /\ watch[r].at = "prune"  /\ At(r, "test")
  /\ \E removed \in SUBSET Prunable(watch[r].known) :
       /\ disk' = disk \ removed
       /\ calm' = (calm /\ removed = Prunable(watch[r].known))
  /\ UNCHANGED <<others, saved, tasks, gone>>

-----------------------------------------------------------------------------
(* The analysis of chunk c (analysis_tasks.py) *)

ParseChunk(c) ==
  /\ job[c] = "parse"
  /\ job' = [job EXCEPT ![c] = IF c \in disk THEN "scan" ELSE "missed"]
  /\ UNCHANGED <<others, disk, saved, watch, rows, queued, gone, calm>>
\* scan_pcap: without the file there are no alerts, and the analysis goes on.
ScanChunk(c) ==
  /\ job[c] = "scan"
  /\ job' = [job EXCEPT ![c] = IF c \in disk THEN "read" ELSE "missed"]
  /\ UNCHANGED <<others, disk, saved, watch, rows, queued, gone, calm>>

Turn(r) == \/ Load(r) \/ End(r) \/ Find(r)
           \/ \E c \in Chunks : Claim(r, c) \/ CommitFails(r, c) \/ KickoffFails(r, c)
           \/ Claimed(r) \/ Save(r) \/ Prune(r)
Next ==
  \/ Write \/ Rotate \/ Age
  \/ StartTcpdump \/ StartWatcher \/ StartRace \/ StartRaced \/ Stop \/ StopDone \/ Restart
  \/ \E c \in Chunks : DeleteAnalysis(c) \/ ParseChunk(c) \/ ScanChunk(c)
  \/ \E r \in Runs : Turn(r)

Spec == Init /\ [][Next]_vars

-----------------------------------------------------------------------------
(* The watcher deletes no chunk that was not handed to the pipeline,        *)
(* whatever threads, restarts and half-written files come together.         *)
NoneDroppedUnseen ==
  \A c \in 1 .. made : c \notin disk \cup gone => queued[c] > 0

(* A chunk is analysed once, unless the server restarts, two watchers run   *)
(* at once, or a save or a deletion fails: failing commits and kickoffs,    *)
(* stops and starts do not bring it back.  The file may not forget it       *)
(* either: it has had room for every name, or has room for those of the     *)
(* chunks kept, and nothing but the watcher deletes chunks.                 *)
Remembered  == made <= SaveCap \/ (Keep <= SaveCap /\ gone = {})
AnalysedOnce == calm /\ Remembered => \A c \in Chunks : queued[c] <= 1

(* The analysis runs behind the watcher, which may delete the file under    *)
(* it: that needs at least Keep newer chunks.                               *)
LostOnlyBehindKeep ==
  \A c \in Chunks : job[c] = "missed" /\ c \notin gone => made - c >= Keep

(* What the sensor guide says (README_SENSOR.md:68), and does not hold: a   *)
(* chunk is analysed once it is closed.  tcpdump may be quiet for 15 s.     *)
AnalysedOnceClosed ==
  [][\A c \in Chunks : queued'[c] > queued[c] => c < made \/ ~dumping]_vars
=============================================================================

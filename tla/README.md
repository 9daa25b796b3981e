# Verification of packetEye

TLA+ modules, TLC runs and TLAPS proofs about packetEye, a Flask application
that captures traffic (Suricata or tcpdump), tails what it captures, scores it
with ML models and LLMs, and keeps the alerts and incidents an analyst works on.

The models are translated from the Python (and one JavaScript client) under
`src/`. `PROJECT.json` names, for every definition that stands for code, the
lines it stands for.

## 1. Inventory

packetEye is one Flask process. Every request is a thread; captures, tailing
loops, live ML monitors, LLM triage loops and analyses are daemon threads; the
capture tools are child processes. State is kept in module-level dictionaries,
in singletons and in JSON files, most of it without a lock that spans a read
and the write that follows it. That is where the hazards are.

| Component | State it keeps | Operations | Talks to |
|---|---|---|---|
| Live packet feed (`live/packet_feed.py`, `static/js/live_capture.js`) | ring of numbered rows, one stop Event, thread, consumer | start, stop, rebind, clear, poll, the two ingest loops | tails eve.json or sniffs; polled by browsers, the Scapy flow monitor and LLM triage |
| Capture control (`capture/orchestrator.py`, `live/suricata_manager.py`, routes) | capture_state.json, handles of the Suricata and tcpdump processes | start, stop, status (which also repairs), the Suricata panel | starts and stops the feed, the chunk watcher and the ML session |
| Live ML sessions (`live/monitor.py`, `live_runner.py`, `tasks/live_tasks.py`, `capture/ml_capture.py`, `streams/session_store.py`) | session files, registries of threads, Events and instances | attach, live start, live stop, capture stop, rebind, kickoff, the monitor loop | reads events, runs live detection |
| Live detection (`live/alert_service.py`, `live/correlation.py`, `live/webhook_notifier.py`) | stamps of two rate limiters, a sliding window of signature hits and anomalies, mutes | emit, correlate, post | called by the monitor loop; LLM triage raises alerts beside it |
| Triage registry (`live/triage_registry.py`, `streams/incident_tracker.py`, `live/triage_inspector.py`) | one JSON list of incidents per session | upsert, verdict, inspect | written by the monitor, LLM triage and the analyst |
| Live LLM triage (`live/live_packet_llm.py`, `live/triage_heuristics.py`) | one shared dictionary `_state`; rolling windows of the heuristics | switch on, switch off, status, the triage loop, a turn with its batch | polls the feed, asks the models, writes rows and alerts |
| EVE tailing (`live/suricata_consumer.py`, `live/eve_parser.py`, `live/suricata_mapper.py`) | path, offset, inode | poll, rebind | feeds the monitor |
| Flow tables (`pcap_parser.py`, `live/scapy_flow_monitor.py`) | flows of a capture with their counters; active live flows | packet, poll, idle flush | feed detection, offline and live |
| PCAP watcher (`capture/pcap_watcher.py`) | set of processed chunks and its file | scan, analyse, prune | creates analyses |
| Analysis pipeline (`tasks/analysis_tasks.py`, `analysis_runner.py`, `models/analysis.py`) | database rows | parse, detect, enrich, explain, report, delete | offline detection, LLMs |
| LLM routing (`llm/rate_limit.py`, `llm/router.py`, `llm/provider.py`, `llm/stack.py`, `llm/ensemble.py`, `llm/analyst.py`) | one semaphore, the time of the last call, parked providers; an analyst's failures in a row | acquire, call, note a failure, route, draft, merge | every LLM caller |
| Alert stream (`streams/alert_writer.py`, `streams/base.py`, `live/alert_enricher.py`, `live/live_investigation.py`) | rows in memory and their file | write, hydrate, update, read since | monitor, enricher and investigation threads |
| Investigation (`investigation/service.py`, `enrichment/orchestrator.py`) | status and severity of findings, rows of observables | investigate a finding or a flow, enrich all | OSINT, analysis pipeline |
| Offline detection (`detection/engine.py`, `detection/ml_engine.py`, `detection/scoring.py`, `detection/suricata_scan.py`, `net_utils.py`) | findings, scores and severities of one analysis | rules, scores, correlation, severity, Suricata replay | called by the pipeline |
| Integrations store (`integrations/store.py`) | one JSON file | load, save | webhook notifier |
| Enrichment providers, prompts, web pages, lab runner, training scripts | none of their own that others race on | — | — |

What makes the modelled components hard, and what makes each correct:

- **Feed.** One Event serves every ingest thread there ever was, joins give up
  after 3 s, handlers take no lock, a rebind may meet the loop in mid-batch; lines come
  in halves, raise when they are converted, and their log is rotated and truncated.
  Correct: row numbers are consecutive and never reused; a client that keeps up
  gets every row; each event of eve.json that is read whole becomes one row in order, and
  gets its turn whatever lines come before it; a raised Event ends every tailing thread.
- **Capture control.** Requests interleave over the state file, pids are reused,
  the server restarts, processes die or outlive a kill, reads, writes and signals are
  refused. Correct: a running
  capture can be stopped, a stop leaves none, two do not run at once, the file
  never names what was never started.
- **Live sessions.** A request is answered before the kickoff thread has run;
  joins give up on a batch that goes on and writes the record. Correct: a
  running monitor is registered; a stop takes; the record ends complete.
- **Live detection.** Two limiters and a window against a clock that moves
  between any two readings. Correct: no minute over the limit, no early refusal,
  a pair found exactly when it should be, no mute that hides an unreported pair.
- **Triage registry.** Unlocked load, edit, save by three kinds of thread, with
  failing files. Correct: a connection has one row; rows say only what was
  reported; undisturbed, nothing reported or ruled is lost.
- **LLM triage.** A shared dictionary says which loop runs; loops outlive joins.
  Correct: one loop at a time, a mark that tells whether it runs, loops that end
  when told. A turn merges what heuristics and up to three models say, any of which
  may be missing, weak or unusable. Correct: a packet is judged once, what the
  heuristics found is alerted and not cleared, a window holds exactly its packets.
- **EVE tailing.** The log grows by halves of lines and is rotated, truncated and
  replaced under the reader; a request rebinds it within a poll. Correct: nothing is
  read twice, nothing of a log that only grew is skipped, the end is always reached.
- **Flow tables.** Packets out of order, conversations with oneself, flows cut by
  idle flushes. Correct: the counters kept packet by packet are those of all packets
  together, and both tables count the same ones.
- **Offline detection.** Findings of seventeen rules, a model and replays arrive in
  steps; rules look at windows over sorted times. Correct: a window that is reported
  exists, and severities cover all that names a flow.
- **Alert stream.** Rows are patched by position, without a lock, while others are
  appended, and are hydrated late. Correct: a patch stays with its row, what shows
  "running" is.
- **Investigation.** Threads that race each other and the enrichment task write a
  status, rows and a severity, each of which may fail. Correct: "running" is worked
  at, what shows something malicious is raised.
- **LLM routing.** One slot, spaced calls, parked providers, three ways through
  them, drafts in any order. Correct: calls are spaced, only what was under way cuts
  a window short, every request is answered, no answer is lost, dead models cost
  little.
- **PCAP watcher.** A chunk counts as closed when it has been quiet for 15 s; two
  watchers may run at once; commits, kickoffs, saves and deletions fail; old chunks
  are deleted while their analysis waits. Correct: nothing is pruned unseen, a chunk
  is analysed once, and is lost to its analysis only when the pipeline is `Keep`
  chunks behind.
- **Analysis pipeline.** Tasks start each other, as messages on Celery and as nested
  calls in eager mode, where one exception passes the handlers of all callers; a
  session whose flush failed cannot write the failure down; an LLM failure starts the
  report a second time; the analyst judges and deletes meanwhile. Correct: an analysis
  nobody works on is settled, progress goes forward, the report counts what it scored,
  the tasks come to an end.

## 2. Modules

    FeedLog                  what the feed promises            (abstract)
      ^ refined by
    PacketFeed               the feed                           FeedSessionProofs
    EveTail                  how a live session reads its log   FeedSessionProofs
    CaptureControl           capture start / stop / status      CapturesProofs
    PcapWatcher              chunks of a tcpdump capture        CapturesProofs
    LiveMonitor              life of a live ML session          SessionsProofs
    LlmTriage                the switch of LLM triage           SessionsProofs
    TriageTurn               what one turn of triage does       TriageTurnProofs
    TriageHeuristics         rolling windows of the heuristics  LiveTriageProofs
    TriageRegistry           the incident file                  LiveTriageProofs
    LiveDetection            what the monitor does with events  LiveDetectionProofs
    AlertStream              rows of alerts, memory and file    LiveDetectionProofs
    FlowTables               packets become flows, twice        LiveDetectionProofs
    OfflineRules             what is found in a capture         LiveDetectionProofs
                             (OfflineInputs: its rows)
    Investigation            indicators looked up               InvestigationProofs
    AnalysisPipeline         the tasks of one analysis          AnalysisPipelineProofs
    LlmAnalyst               the requests of an analysis        AnalysisPipelineProofs
    LlmGate                  how threads share the models       AnalysisPipelineProofs
    MC<name>                 instances for TLC

A proof module that covers several modules extends the MC module of the run that checks
them, so that a theorem names the very definitions the run evaluates. `LiveTriageProofs`
and `LiveDetectionProofs` also carry what `TriageTurnProofs` and `InvestigationProofs`
prove over to those runs.

**Parts.** Where modules do not read each other's state, one run checks several of
them: `MCFeedSession` (PacketFeed, EveTail), `MCCaptures` (CaptureControl,
PcapWatcher), `MCSessions` (LiveMonitor, LlmTriage), `MCLiveTriage` (TriageRegistry,
TriageTurn, TriageHeuristics), `MCLiveDetection` (LiveDetection, AlertStream,
FlowTables, OfflineRules, Investigation), `MCAnalysisPipeline` (AnalysisPipeline,
LlmAnalyst, LlmGate). A constant `part` picks the module that moves; the others
stay in one initial state. As none reads another's variables, an interleaving of two
would reach no state of either that it does not reach alone: the sum of the
behaviours shows what their product would. A type invariant is checked with the
first property of its module.

The modules meet at named points, each modelled on one side only:
CaptureControl has the feed as the flag it starts and stops (PacketFeed has the
threads behind it); LiveMonitor's `Batch` is LiveDetection; LiveDetection's and
LlmTriage's reports are the `Report`s of TriageRegistry; LlmTriage's `Work`
polls PacketFeed, and what it works at is a turn of TriageTurn, whose `found` is what
TriageHeuristics finds; LiveMonitor's loop polls EveTail; a `Raise` of LiveDetection is
a `Write` of AlertStream; a `Claim` of PcapWatcher is an `Upload` of AnalysisPipeline, of
which PcapWatcher keeps the two places where the file is read; the tasks of
AnalysisPipeline do what FlowTables (parse), OfflineRules (detect), Investigation's
`BeginTask` and `TaskRow` (enrich) and LlmAnalyst (explain) say, and LlmAnalyst's
calls go through LlmGate.

**Conventions.** One TLA+ step is one access to state that threads share, or
several with nothing between them that blocks or lets another thread in where
it matters. A request thread is a record with a program counter. History
variables (marked so where they are declared) are read by properties only.
Operators marked `mutant` are never used by the specification: each is a
plausible bug, put in place of the definition below it to show that a property
can fail.

**PacketFeed** (`packet_feed.py`). `buffer`, `seq`, `running`, `stopSet`,
`thread`, `consumer` are the attributes of `LivePacketFeed`. `_append`, `poll`
and `clear` hold the lock, hence one step each. `stop` is `BeginStop`,
`JoinThread`, `Detach`; `start` goes on with `Arm`, `Create`, `Launch`. The eve
loop is `OpenBatch`, `ReadLine`, `AppendLine`. A row is its id: what it says is left out. A
log is a sequence of pieces: a whole line, which gives a row ("event"), is passed over
("other") or raises when it is converted ("bad"), or the head of a line and, written later,
its tail. `ReadLine` stores the offset before it looks at the line, on whichever consumer is
in place by then; a half line is passed over, and one that raises ends the batch with the
offset behind it. `WriteLine`, `Rotate` and `Truncate` are what Suricata does to its logs,
of which the loop looks for nothing. The history `halved` has the tails whose head was read
alone, and `raced` says that a rebind met a batch, or that the file was rotated or
truncated. `FeedLog` is the abstract promise: a window on one log.

**CaptureControl** (`orchestrator.py`, `suricata_manager.py`, the routes of
`api.py`). `state` is capture_state.json, `managed` and `tcpdump` the handles;
a process is its pid with where it is in its life, and `foreign` is a pid gone
to someone else. `capture_status` is a read (`ReadStatus`) and a decision
(`DecideStatus`) that unlinks whatever file is there by then. Starting and
stopping follow the order of the routes, the ML session's name in the file
included. With `MayFail`, any access to the file (`FileReads`, `WriteFile`, `Clear`) and any
signal (`HaltHandle`, `HaltByPid`, `PanelStop`, `Kill`) may meet the `OSError` that the code
catches: a read that fails is an absent file, a write that fails is only logged and leaves
the file as it was or cut short, a signal that is refused leaves the process running while
the request goes on to the feed and the watcher. Three histories say what became of
captures: `strayed` those that no handle and no file can lead to any more, `unwritten` those
whose record an `OSError` kept out of the file or cut out of it, `spared` those that the
last stop was refused, or could not read of.

**LiveMonitor** (`monitor.py`, `live_runner.py`, `ml_capture.py`,
`session_store.py`). Kickoff: `Register`, `List`, `Launch`. Monitor thread:
`ReadRecord`, `EnterLoop` or `SetupFails`, `CheckStop`, `Batch`, `Stats`,
`Finish`, `PopInstance`. Handlers: `attach`, `session`, `stop`, `halt` (stop of
the capture), `rebind`; a stop is `RaiseFlag`, `Join`, `Forget`, twice (the route
and the task it calls), then `Close`. Tasks run eagerly, as the development setup
has them.

**LiveDetection** (`alert_service.py`, `correlation.py`, `webhook_notifier.py`,
`monitor.py:process_batch`). `Emit`, `Correlate`, `EmitCorrelation` in the order
of the batch, and `Tick` at any point between them.

**TriageRegistry** (`triage_registry.py`, `incident_tracker.py`). `Report`,
`Verdict` and `EndInspect` load and edit; `Save` replaces the file; what another
thread does between is the point of the module.

**LlmTriage** (`live_packet_llm.py`). `Enable`/`Disable`, then `Raise`, `Pick`,
`Join`, `Clear`, `Arm`, `Name`, `Launch`; `Poll`/`Demote` is the status route;
`Begin`, `Turn`, `Work`, `End` the loop, which goes by the Event it finds in
`_state` when it begins and whose last statement clears `running`.

**PcapWatcher** (`pcap_watcher.py`, the routes that start and stop it). A chunk is its
number in order of age; names sort the same way as long as the process that starts
tcpdump stays the same. `quiet` and `blank` are what `find_closed_chunks` reads of the
files. A watcher thread is `Load`, then `Find`, `Claim` (or `CommitFails`,
`KickoffFails`) for each chunk, `Save` and `Prune`, over and over until `End`; requests
are `StartWatcher` (and the racing `StartRace`, `StartRaced`) and `Stop`, `StopDone`;
`Restart` ends the threads and leaves tcpdump and the files. `ParseChunk` and
`ScanChunk` are the two readings of the file by the analysis.

**AnalysisPipeline** (`analysis_tasks.py`, `analysis_runner.py`, `db_utils.py`, and the
routes that upload, judge and delete). `stack` holds the tasks under way, each with its
place: one at most on Celery, nested callers in eager mode. `Delay` is `task.delay` in
either. Lookups of an enrichment whose task has raised may go on (`left`, `EnrichLeftover`):
the timeout of `run_async` leaves `enrich_all` and its callbacks running. `Refresh` and
`RefreshWrite` are the two halves of refresh-report: `asked` is the reading in between,
`built` the one of the report's own score, and `split` says that a judgement may lie between
what the score and the count are of (`judged`: it came after the report's reading).
A step that raises (`Raise`, `Gone`) puts the task at `raised`, where its
handler runs; `Thrown` hands what the handler lets out to the caller below. `sick` is a
session that needs a rollback, in which the handler cannot write. `lost` says why the
row may not tell what became of the analysis.

**EveTail** (`suricata_consumer.py`, `eve_parser.py`, `process_batch`). A log is a
sequence of pieces, each an event or half of one, on an inode; an offset counts pieces.
A poll opens the log, reads piece by piece and stores the offset as it goes, or takes the
whole of a JSON array (`Listed`: its events of a kind, in order); `Rotate`,
`Truncate`, `Write` and `Rebind` come between any two of its steps; `BatchFails` is an
event on which `process_batch` raises.

**TriageTurn** (`live_packet_llm.py`). `Poll` takes the newest packets and moves the
cursor, `Ask` is the one request for the batch, `Whole` and `Single` process a packet:
`Outputs` are what the models may have said (`_sequential_triage` or all at once),
`Seats` is `_map_model_outputs`, `Merged` `_merge_verdicts`, `Disposition` and
`Alerted` what is written. `Process` reports the packet to the row of its connection, which
keeps the verdict it has (`Upserted`, the merge of `upsert_incident`); the alert is `owed`
until `Emit` writes it and reports the row once more, or `EmitFails`: one of the calls
raises. `Dropped` is a reply that raises; either ends the turn (`EndTurn`) and with it the
packets of the batch that still wait (`lost`). `kept` are the rows that were there before,
`cut` the packets whose alert was cut off.

**TriageHeuristics** (`triage_heuristics.py`). `Analyze` is the five detectors in
turn with the windows they evict, append to and count.

**AlertStream** (`alert_writer.py`, `base.py`, `alert_enricher.py`,
`live_investigation.py`). `Write` and `Line` are the two halves of a write; `Read`, `Enhance`
and `Investigate` are what is asked of it. Each begins with `_hydrate_from_file`: `Hydrate`
looks at the memory, `Load` reads the file, `Fill` appends one of its rows at a time, with
steps of others in between. `Find` and `Put` are an update by position, `FindRaises` an
iteration that a mutation breaks. `clash` has the alerts whose row another thread came
across in the middle of an update or of the reading of the file.

**FlowTables** (`pcap_parser.py`, `scapy_flow_monitor.py`). `Capture` is a packet in
both: the flow it belongs to, its side, counters and gap, what it adds to
observables. `Poll` takes the rows of the feed, `IngestPacket` adds one to its active
flow, `FlushIdle` hands on one that was idle when the poll began; packets come meanwhile.
What a flow should hold is stated over places, the numbers of packets, not by a fold.

**OfflineRules** (`engine.py`, `ml_engine.py`, `scoring.py`, `suricata_scan.py`). One
action per stage of `run_detections`; each of the seventeen rules is an operator over
the rows, with its window where it has one. The order in which the database returns
rows is arbitrary. A rule in `Broken` may raise, which the engine survives.

**Investigation** (`service.py`, `orchestrator.py`). A worker is a request's thread
or the enrichment task: `Begin`, `Lookup` or `LookupFails`, `SayComplete` or
`SayFailed`, `ReadRows`, `WriteRows`, `RaiseSeverity`; `BeginTask`, `TaskRow`. A session
writes only the columns that differ from what it has read (`Column`). `Verdict` is
`_compute_verdict` over the providers that answer.

**LlmGate** (`rate_limit.py`, `router.py`, `provider.py`, `stack.py`,
`connectivity.py`). A call waits for the slot, waits out the interval, calls, notes a
failure; `Route`, `Ask` and `Probe` are the three ways to come there. Times are what
is left of them. A plan is the one order of the providers asked for in which any two are
as `Before` has them, which is what the sort of `router.py` computes.

**LlmAnalyst** (`analyst.py`, `ensemble.py`, `chat.py`). Requests of an analysis one
after another: `Draft`, `Merge`, `Try` (the chain of fallbacks), and the count of
failures in a row after which the analyst gives up.

## 3. Runs

| Run | What it checks | Bounds, and why they are enough |
|---|---|---|
| `feed_ring` | feed: ring, clients, refinement of FeedLog, a raised Event ends the threads; session: each event at most once, none of a growing log skipped, the end is reached | feed: one request thread, both modes, joins that may give up, 2 threads, ring of 2 rows, a log of one line of any kind or half of one: the ring wraps, is cleared and polled at every stage, and two threads fill it at once. Session: 4 events in whole or halves, polls of 2 lines, 3 logs, one rebind: a poll ends within a log, within a line and at a rotation |
| `feed_tail` | one thread, running means fed, each event that is read whole gives one row, in order, and gets its turn | one request thread, both modes, joins that wait, 2 paths, 2 logs with 2 pieces between them, events, lines that raise, heads and tails, batches of 1: lines cross batches, a half is met before its other half is written, rebinds, rotations and truncations meet every point of the loop |
| `sessions` | ML session: reachability, last word, stops take and complete; LLM switch: one loop, the mark is true, loops end | 2 request threads, one session or 2 loops, every kind of request, a status poll, joins that give up, failing setup, restart; the session starts at 98 %, so that the cap at 99 is met |
| `captures` | no capture out of reach, never two, a stop is complete; nothing pruned unseen, analysed once, lost only behind `Keep` | control: one analyst, a polling dashboard, both modes, 2 processes, one restart, processes that survive SIGKILL: a second capture follows, replaces or overlaps a first. In three parts, to be small enough: a host that refuses nothing, with reused pids; one that refuses reads, writes and signals of the first capture; requests of the Suricata panel, without polls. Chunks: 2 watcher threads, 2 chunks, 1 kept and 1 name in the file: names and directory both overflow |
| `capture_rediscover` | **violated**: a restart rediscovers the capture | one analyst, one process, one restart |
| `triage` | rows: one per connection, nothing invented, verdicts stand, undisturbed nothing lost; turns: hits raised, packets once; windows exact | rows: 2 reporters, 1 analyst, 3 connections, registry of 2 rows, failing loads and saves: every overlap of three writers, and a full registry. Turns: 2 connections, of which any may have a cleared row from before, 2 stacks, weak and strong answers, batches of 2, 3 packets: one is passed over, two share a connection. Windows: bursts of 2 and 3, 4 packets of every kind, stamps back by one to past the window |
| `triage_lost` | **violated**: all outcomes are logged | 2 reporters, 2 reports |
| `turn_floor` | **violated**: an alert needs the floor or two models | one packet, 4 stacks |
| `detect` | live: rates exact, pairs found exactly, mutes lift; rows of alerts: patches stay, "running" is; capture: windows true, severities cover; flows exact; investigations: "running" is worked at, severities raised | live: 2 pairs, window 2, minute 1, limits 2 and 1, 4 events, clock to 3: at, inside and past each boundary. Alerts: 2 threads, 2 rows in memory, 3 alerts, a restart: the rows of a file of two are hydrated one by one beside a write or another hydration. Capture: the rows of `OfflineInputs`, which meet every rule at and off its threshold, in every order. Flows: 3 packets of 4 kinds at instants 0 to 2, also out of order. Investigations: a finding and a flow with two indicators, 2 workers, 3 lookups, which race each other, the task, a deletion and restarts |
| `scan_hidden` | **violated**: a scan within the window is found | 3 probes, instants 0 to 2 |
| `watcher_early` | **violated**: a chunk is analysed once closed | as the chunks of `captures`, with 2 names in the file |
| `pipeline` | analysis: settled, progress forward, counts match, tasks end; gate: calls spaced, windows kept, requests answered; analyst: no answer lost, cost bounded | analysis: one finding (judged and judged back: counts of 0 and 1), both modes with and without bulk enrichment, an exception at every step, lookups that outlive their task, every nesting of handlers, a crash, deletion, judgement and refresh at any time, one refresh at a time; percentages are the least, one between and the most of each task. Gate: 2 threads, 2 models, one slot, 3 requests, every kind of failure. Analyst: 5 findings, so that it gives up and does not, 4 calls, 2 failures |

Symmetry is used for interchangeable connections, reporters, host pairs and threads,
only in runs without liveness. `CHECK_DEADLOCK FALSE` is given to `captures`, `sessions`,
`triage`, `detect`, `pipeline` and the violated runs `turn_floor`, `scan_hidden` and
`watcher_early`: once their bounds on reports, events, packets, requests, chunks, the
clock or threads are used up, or the one analysis is deleted, nothing may be
left to do. All other runs check deadlock. Type invariants that are proved (section 4) need
no run of their own; where one is checked it is a conjunct of the first property of its module.

**Fairness.** Only where a thread of the program would go on by itself: the
steps of a request until it is answered (every wait in a handler has a timeout),
the tailing loop, the poll of a session, the kickoff and monitor threads, the triage
loop (LLM calls have timeouts), the tasks of an analysis (`Move`: files and lists are
finite, requests time out), and of the gate the passing of time and the steps of
requests, which time out as well. Weak fairness suffices, since once a thread can go on only its
own step, or the end of its process, changes that. Nothing outside is ever owed: no
request, packet, event, poll, failure or restart. The watcher has no liveness property: a database that
fails once keeps its session from ever committing again (section 5).

**Conditional properties.** Some properties hold of undisturbed histories only,
and say so: `OneLoop` and `RunningIsTrue` as long as requests take turns and
joins wait (`calm`), `ExactlyOnce` and `LinesArrive` but for lines read in two halves
(`halved`) and unless a rebind met a batch or the file was rotated or truncated (`raced`),
`LinesArrive` also unless the feed is rebound for ever, `ReportsKept`, `VerdictStands` and `OnlyOldestLeaves` unless writers
overlapped or a file failed (`disturbed`), `NoOrphan` and `OneCapture` of
CaptureControl except for captures that strayed, `StopIsComplete` except for those and for
what it was refused (`spared`), and all three until the Suricata panel is used; `AnalysedOnce` without a restart, overlapping watchers and failed saves or
deletions (`calm`), and while the file of names has room for all of them, or for those of
the chunks that are kept and nobody else deletes any (`Remembered`); `ReadExactly` for a log that was entered at its start and only
grew (`whole`), but for halves and failed batches; `OnceEach` but for packets of a
turn that raised (`lost`); `HitsAreRaised` but for an alert whose emission raised (`cut`), and
a row that was cleared before the hit (`ClearedBefore`); `PatchesStick` and AlertStream's
`NoneLeftRunning` up to the first restart and but for rows that somebody came across in the
middle of an update, or wrote between the look at the memory and the reading of the file
(`clash`);
Investigation's `NoneLeftRunning` and `SeverityCovers` but for a failed last write or an
ended program (`cut`) and rows written by the enrichment task at the same time
(`mixed`); `Settled` unless a message, the way to write or the process was
lost, or a left-over lookup wrote over "failed" (`lost`); `ReportCounts` unless a finding was
judged between score and count, or a refresh has scored anew after a judgement that the
count does not have (`split`). The condition is the exact line between what the code does and does not
guarantee; section 5 lists what lies beyond it.

## 4. Proofs

TLAPS proves these for every value of the constants. `MC!X` below is the definition a
run checks, whichever module it is defined in.

| Theorem | States | Argument |
|---|---|---|
| `FeedSessionProofs!BufferIsContiguous`, `CursorsStayBehind`, `ClientsMissNothing` | the ring holds consecutive ids; no cursor is ahead; no gap for a client that keeps up | `RingInv`: types, contiguity and cursors together. Contiguity alone is inductive under append and clear; that no cursor passes `seq` needs it, as a poll sets the cursor to an id of the ring. Every action but append, clear and poll leaves the ring alone (`StepShape`). |
| `FeedSessionProofs!FeedImplementsLog` | the feed implements FeedLog | refinement mapping `lo <- seq - Len(buffer) + 1`, `hi <- seq`, `seen <- cursor`; every step is an append, a clear, a poll or a stutter, by `RingInv` |
| `FeedSessionProofs!FeedStaysFed` | one thread at most, and "running" means that it lives (`Fed`), while `OneAtATime` | `TurnInv`: one conjunct per place of a request (`Resting`, `Joining`, `Emptied`, `Armed`, `Created`, `Ready`): between requests the only thread alive is the one in `_thread`; during the join it is the one being joined; after it there is none until `Launch`, when the Event is down |
| `FeedSessionProofs!LinesAreReadOnce` | of what was read, each event that came whole became one row, in order, and nothing else did, whatever lines are of no use, raise or come in halves (`ExactlyOnce`), while `OneAtATime` and unless `raced` | `OffsetInv` on top of `TurnInv`: the offset lies between lines, or between a head and the tail it is `halved` from (`ReadTo`); a thread in a batch is at the offset it leaves in the consumer, in the file at its path (`Follows`), and owes one row between reading a line and appending it (`Owing`); with no such thread the rows are those of the events below the offset (`Paid`). `FilesInv`: a tail follows its head, and what is below an offset does not change. A fresh consumer starts level again because no thread is alive then. |
| `FeedSessionProofs!SessionReadsExactly` | no event is handed on twice in a binding; no line of a log entered at its start is skipped, but for the reasons given (`ReadExactly`) | `EInv`: an event begins in one place of one log (`Unique`), and what a binding has `Taken` lies below the offset in the log its path names and in the one that is read (`Below`), so the line that is read next is new (`FirstIsNew`). A log the session is not in has nothing of it, unless the offset is within it: that is why a rotation which is seen, as the new file is shorter, may start at 0. A poll from before a rebind takes nothing for the new binding. |
| `FeedSessionProofs!TypesHold` | types of the whole feed | one step per action |
| `LiveTriageProofs!RowsAreUnique` | a connection has one row, an id names one row | `RegistryInv`: not only the file but every list a writer is about to save is free of duplicates and holds ids already given out. An upsert adds a row only when its key is absent; patches keep identities; trimming keeps a suffix. |
| `LiveTriageProofs!RowsTellTheReports`, `VerdictsStand`, `OldestLeaves` | rows say only what was reported and, undisturbed, all of it; a verdict stands; only a full registry lets go, of the oldest | `HistoryInv` adds `SayingInv`: every list, saved or about to be, is `Backed` by what was said; a list that is about to be saved, not loaded from a broken file, is an `EditOf` the rows that are in the file *now*: same places, perhaps one row more, nothing taken back, one verdict or one report. It is lost when somebody else saves, which is what `disturbed` records, so an undisturbed save carries every debt over. |
| `LiveTriageProofs!TypesHold` | types of the registry, of its writers and of the history | one step per action |
| `LiveTriageProofs!HitsAlwaysRaised`, `JudgedOnce` | `HitsRaised` and `PacketsOnce` (below), in the run of all of live triage | every step of the part `Turns` is one of TriageTurn with other constants, definition by definition |
| `LiveTriageProofs!BurstsFound` | in a feed in order a burst is found exactly when the window holds it (`BurstsAreExact`), for any kinds of packets, window and thresholds | `WindowsInv`: each list of a detector is, entry by entry, a rising list of the packets that reached it, and one that is missing from it is too old (`Tracked`), so that after an eviction the entries and the packets of the window are in bijection (`TrackedNew`); what one packet does to all windows is `LookSays` |
| `TriageTurnProofs!PacketsOnce` | no packet is judged twice or passed over without a full batch of newer ones, for any size of a batch | `IInv`: a batch is the packets up to the cursor in a row (`InARow`), none of them was touched (`Fresh`), none past the cursor either (`Ahead`), and what is skipped is a batch behind (`Skipped`) |
| `TriageTurnProofs!HitsRaised` | what the heuristics found is alerted, at once or unless the emission raises, its connection names the heuristics, and is cleared only if it was before the hit (`HitsAreRaised`) | `RInv`: a packet with a hit lies behind the batch (`Behind`), its connection has a row (`HaveRows`), and a row that stood before its report was there from the start or is of a packet processed before (`Reported`), so what the merge keeps is named by `ClearedBefore`; the alert that is owed is of a processed packet (`Owing`) |
| `SessionsProofs!MonitorsStayReachable` | a running monitor that was not told to stop is registered | `IInv`: flags from `Register` on, active from `List` on, and a handler that joins or forgets has set the Event |
| `SessionsProofs!HundredIsLast` | progress 100 is final | the count read for an update under way is at most 99 |
| `SessionsProofs!OneTriageLoop` | undisturbed (`calm`), one LLM loop goes on at most and "running" tells of it | `SwitchInv`: the loop that lives is the one `_state` names and goes by its own Event (`Named`); while a request clears, arms, names and launches there is none; until a stop sets its Event it goes on (`Untold`); the next one's Event is one nobody set (`Fresh`). That a start is always left for the number of runs is counted in the types. |
| `CapturesProofs!WatcherTypes`, `DropsOnlySeen` | types; only chunks handed to the pipeline are pruned | `IInv`: a watcher prunes what it knows, so what every watcher knows, and what the file holds, must be queued (`KnownIsQueued`, `FileIsQueued`). Half-written files only make these smaller; `Claim` alone makes them larger, and queues in the same step. |
| `CapturesProofs!LostBehindKeep` | an analysis misses its file only `Keep` chunks behind | `MadeInv`: of all chunks gone from disk, handed on or not, at least `Keep` newer ones were made (`DroppedBehindKeep`), as pruning spares the newest `Keep` of those on disk, a subset of those made |
| `CapturesProofs!QueuedOnce` | one watcher hands a chunk over once (`AnalysedOnce`) | `OnceInv`: while `calm` one watcher is alive, and while the file can remember, it knows what is queued and on disk (`KnowsDisk`), its list has none of it (`ListIsNew`), and the file knows it when no watcher is at work (`FileKnows`), or will after the pruning under way (`FileWill`) |
| `CapturesProofs!StateFileNamesACapture` | the state file names a process started as a capture, in its mode, however requests interleave | `ControlInv`: so does everything a request has read of it (`InOrder`), a process does not lose its mode (`Ages`), and the handles name processes that were started |
| `CapturesProofs!EveryCaptureIsKnown`, `NeverTwoCaptures`, `StopsAreComplete` | also when reads and writes of the state file and signals fail: a capture that did not stray is known; there are never two; a stop leaves none but those it was refused; while `OneController` | `SoloInv`: what runs and did not stray is one process at most, and a handle of one that lingers stands for it; a Suricata in the file is in its handle (`Held`), a tcpdump in the file, in its request, or in its handle and known as `unwritten` (`TcpdumpNamed`), which a restart turns into strayed; and one conjunct per place of a request (`Phase`): nothing runs before `popen`, nothing but its own until `write`, nothing but what was `spared` after `halt` and `wait` |
| `LiveDetectionProofs!PairsAreFoundExactly`, `MutesEnd` | a pair is reported only when both kinds of evidence came within the window, and was reported within the window whenever both came; no mute outlives its signatures | `PrefixLength`, `KeptFacts`: eviction drops the longest prefix that is too old, which in a feed in order (`Sorted`) is all that is too old. `Held`: the last entry of a pair is in its feed while it is recent; `Muting`: a muted pair has a signature no younger than its report, so that while the mute stands the report is within the window. |
| `LiveDetectionProofs!LimitsAreExact` | no minute holds more than the limit, and none is refused before it is full | `RateInv`, of either limiter: the queue of stamps is the end of the history of what was let through, and all before it is more than a minute old (`EndsWith`), so the minute of any entry lies in the queue as it was then |
| `LiveDetectionProofs!UpdatesStay` | a row shows the last updates made to it (`PatchesStick`) | `StreamInv`, up to the first restart: memory has rows as soon as the file has (`Filled`), so a file that is loaded with something in it is loaded beside a write, and its rows are in `clash`; an alert that is not has one row (`Placed`), a thread about to put has found its own alert, and the place is still right unless the rows moved, which is what `clash` records as well (`Fitting`) |
| `LiveDetectionProofs!NobodyWaitsInVain` | no alert, and no finding, says "running" with nobody at it | `Driven` of the same invariant: a row that says so has a thread on its way to write the end; and for findings `InvestigationProofs`, carried over definition by definition |
| `LiveDetectionProofs!WindowsAreRight` | a reported scan has its ports or hosts within some window; an ARP storm is reported exactly when some window holds it | the span of the flows taken is within the window, from the earliest to the latest, which finite sets of rows have (`Extremes`); a storm is in a window that begins with one of its replies. Later stages add findings of other rules only (`WindowsKeep`). |
| `LiveDetectionProofs!SeverityIsCovering` | the severity of a flow is not below its anomaly or a finding that names it | `RulesInv`: a finding that names a flow names an active one, with a score in range (`Named`); the hybrid score is a maximum over them and more, and rounds up to it at least; the levels are monotone |
| `LiveDetectionProofs!FlowsAreKeptExactly` | the parser keeps each conversation in one flow, with the counts, gaps and ends of its packets; the live monitor counts the same packets until a row is lost (`FlowsAreExact`) | `ParserInv`: no two flows are each other turned, so a packet has one to go to (`FlowOfFacts`), and a flow that is new to the table had no packet before. Each side is a lane over a set of places (`LaneOf`), and one more packet, later than all of them, extends every count (`LaneAdds`). `MonitorInv`: a packet is handed on, in an active flow, in the batch or in the feed, and each step moves it to the next (`RowsTail`, `HandedAppend`) |
| `InvestigationProofs!RunningIsWorkedAt`, `AccusedRaised` | "running" is worked at; what shows something malicious is raised | `IInv` says at which places a worker is for a "running" subject (`Looking`) and which one still has to raise (`Raising`); `Unwritten`: what is gone has no status, so a write that finds its subject gone leaves nothing behind. Steps that leave the status alone go through one lemma, `Harmless`. |
| `InvestigationProofs!TypesHold`, `SeverityIsCovered` | confidences are within 0 and 100; no observable is malicious without confidence | `RInv`: a verdict that says malicious has some confidence, whatever providers answer (`VerdictFacts`); a worker that skips a column, because it has not changed since it read it, has read a confidence that is still there, unless the task wrote meanwhile (`Above`, `Unread`) |
| `AnalysisPipelineProofs!PipelineTypes` | types; one task at most on Celery | one step per action |
| `AnalysisPipelineProofs!EveryAnalysisSettles` | an analysis nobody works on is settled, unless `lost`, lookups that outlive their task included | when the stack becomes empty the reason must already be on record: `PassedIsSaid` says so of a running task that is only passed through (`again`): the row is final or `lost` says why not. `Lookups`: no task on the stack starts an earlier one (`Ordered`), so left-over lookups meet no detection and no report, only an exception on its way out (`LeftInv`), and what they write over is "failed" |
| `AnalysisPipelineProofs!ProgressGoesForward` | from detection on the progress never goes back | `PercentInv`: the progress is at most the `Ceiling` of the place where the running task is, the percentage its next step writes or less; a handler may find 92, so that a retried report does not go back either |
| `AnalysisPipelineProofs!ReportsCount` | a complete analysis counts what it scored, also after a refresh, unless `split` | `CountInv`: between score and count, what the report read is what is not a false positive unless somebody judged (`BuildCounted`); afterwards the count is of the same reading as what a refresh under way has, unless that is `off` (`ShownCounted`); while a task is under way the row is not complete |
| `AnalysisPipelineProofs!CostIsBounded` | calls per request are at most 6 (7 for a chat); what an analyst asks in vain is at most `MaxFailures` times what was answered, plus `MaxFailures` | `AnalystInv`: at each place of a request the calls made and the models left to try are bounded together (`Drafting`, `Merging`, `Chaining`); the log is tallied against answers and the failures in a row (`Tallied`) |
| `AnalysisPipelineProofs!AnswersAreKept` | a request for which some call brought what it wants ends with an answer | the same invariant: a request that has heard it has it among its drafts until the end, and every reply `Leads` from one such place to another or to an answer |
| `AnalysisPipelineProofs!GateIsKept` | calls through one slot are spaced; a parked provider is left alone, but by requests that could not know | `GateInv`: the semaphore counts those in the slot (`SlotsCounted`), one that is about to call sleeps as long as the interval lasts (`RestKept`), and a provider in the plan of a request is not parked or was parked after the request looked (`AllLooked`) |

**Assumptions.** The assumptions on constants are named in the modules (`MaxRows` positive,
bounds natural, names distinct, the findings finite) and evaluated by TLC in the runs. A
module that a run takes through INSTANCE states them as a definition `Sane`, which the
run's module assumes, or the theorem has as its premise.

Two conditions on the traffic of requests are premises of theorems. `OneAtATime` (one
request thread, and a join of the ingest thread that returns because the thread ended):
with two requests at once, or a join that gives up after its 3 s, the code does run two
threads on one feed, and `feed_ring` explores what remains true then. `OneController`
(one thread that starts and stops captures, any number that poll the status): two starts
at once pass the same check and both spawn, as no lock is held. The runs `feed_tail` and
`captures` have the same conditions as constants. `StateFileNamesACapture` needs neither.

**Only model-checked.** Liveness (`StoppedIsComplete`, `StopTakes`, `StopEnds`,
`LinesArrive`, `QuietAfterStop`, `CatchesUp`, `WorkEnds`), which is out of the prover's
reach. The types of a judging turn (`TypeOK` of TriageTurn), as what a filter by
`SelectSeq` returns would need an induction over data: `BurstsFound` states
`BurstsAreExact`, which names them, of the parts in which that turn rests. Every other
safety property of a passing run is stated by a theorem.
The violated runs are counterexamples.

## 5. What the code does not guarantee

Five disagreements between the code and what its documents say are runs that TLC
refutes, and are listed as findings:

- `capture_rediscover`: after a Flask restart, a Suricata capture named by the
  state file is not found again (only tcpdump is looked up by pid).
- `triage_lost`: a save by one writer overwrites the row another has saved since
  the load; "all outcomes are logged" fails.
- `watcher_early`: "auto-analyzed once closed" fails for a chunk tcpdump still writes
  to, when the network was quiet for 15 s; what it writes later is not analysed.
- `turn_floor`: "Min confidence before LLM alert emit" fails for a stack of which one
  model answers: its answer is seated twice and counts as two that agree.
- `scan_hidden`: "many distinct dst ports [...] within a short window" is not reported
  when the two hosts have any other flow outside of the window, since the span of all
  their flows is taken.

Others were met while modelling and delimit the properties above:

- A pid in capture_state.json that has gone to another process keeps the file,
  and a tcpdump "running", for good.
- The packet feed stores its offset before it looks at a line and does not look for a
  rotation: an event that is read in two halves gives no row, a line that raises when it is
  converted costs the rest of its batch a turn, a shorter log is not read until it has
  grown past the offset. A rebind in mid-batch skips what is below the old position.
- A sniffer that ends on its error leaves the feed "running" with nothing that feeds it.
- A write of capture_state.json that fails is only logged and the start answers ok: the
  tcpdump is known to its handle alone, and to nothing after a restart. A signal that is
  refused leaves the capture running, with its feed and its watcher stopped.
- A status poll between the stop of the feed and the stop of the capture starts
  the feed again; one that read an old state file can unlink a new one.
- `stop_capture` stops one process: with a Suricata from the panel beside a
  tcpdump, the tcpdump goes on, without its state file.
- An attach or a stop that comes before the kickoff thread has run finds no
  monitor: a second session is created, or the stop has no effect. A rebind
  while models load is answered ok and does not take.
- After a restart `find_running` may return a record whose session is dead and
  hide the one that runs.
- The eviction of an older signature lifts the mute a newer one set, so a pair
  is reported twice in a window. A correlation refused by the rate limit stays
  muted. Whitelisted alerts still correlate.
- The alerts of LLM triage post to the webhook past its rate limit, since each
  makes a notifier of its own.
- A triage loop that outlasts its join clears the `running` mark of the next one,
  which then survives being switched off. A status poll between the naming of a
  thread and its start does the same.
- `live_stop` turns LLM triage off whichever session it was for.
- The watcher never rolls its session back: after one failed commit every later one
  fails. A kickoff that fails leaves a queued row, and a second one is made the next
  time. Two requests at once start two watchers, and both queue each chunk.
- The stop of a capture ends the watcher before the last chunk is quiet; it is analysed
  only if a watcher runs again. A start deletes chunks the server may not write.
- The file of processed chunks holds the last 500 names, sorted. A chunk that stays on disk
  while its name falls out, because more than 500 are kept or newer ones were deleted by
  hand, is analysed again by the next watcher.
- An analysis keeps a running status for good when its message is lost, its worker ends
  or its handler cannot write. A restart resumes none. So it does when lookups outlive the
  120 s of `run_async`: they write "enriching" over "failed", and nobody writes after them.
- The ARP findings of an analysis that was deleted meanwhile are stored without a row.
- The progress of enrichment goes back, since lookups report in the order they end. A
  judgement between the score of a report and its count makes them differ; refresh-report
  after a later judgement does too, as it writes the score and not the count.
- The live session, too, loses half a line that it reads, in both halves; a log truncated
  in place, or replaced by a longer one, is not seen as rotated: what is below the old
  offset is skipped. A rebind
  within a poll enters the new log at the old offset.
- A reply of the models with an index that is none raises after the cursor was moved:
  the packets of the batch are judged by nobody. So does a call between the row of a packet
  and its alert, which drops the alert as well.
- A connection that was cleared once stays cleared: a later hit of the heuristics is named
  in its row and does not reopen it.
- A write between the look at an empty memory and the reading of the file gives an alert a
  second row, which no patch reaches and which is shown once the first has been dropped.
- A patch of an alert while others are appended may land on another row; after a restart
  a write that comes before the first read hides the file, and "running" stays.
- A failure noted later with a shorter wait shortens the time a provider is parked, and
  requests with one provider do not look at it.
- An investigation cut off by the end of the program shows "running" and refuses later
  ones. Beside the enrichment task, an observable may keep the verdict of one lookup and
  the confidence of another.
- Both sides of a ping count as forward; flows active when the live monitor stops are
  never handed on. Findings without a flow raise the severity of none.

## 6. Not modelled, and why

- Contents of rows, alerts, prompts, mails, rules and embeds: no decision that the
  properties are about depends on them.
- The integrations store: one file that a person saves by hand; two saves at once
  lose one, and nothing in the code or its documents promises otherwise.
- The status cache of LLM triage and the pacing of its turns; the Celery deployment of
  live sessions (that of analyses is modelled). Rule downloads, interface and privilege
  probing: the operating system's.
- HTTP clients of enrichment providers: no shared state; what they answer is a choice
  in Investigation. Web pages, but for the polling client of the feed.
- The bytes of packets, TLS and DNS; feature vectors and the forest itself, which are
  floating point: they are attributes of a packet or a row.
- The lab runner and the training scripts: batch programs outside the running system.

## 7. What could come next

1. The types of TriageTurn, with its filter restated over sets of places as FlowTables has it.
2. Live sessions on Celery, where the registries of monitor threads are in another
   process than the handlers.
3. A composition of AlertStream with LiveDetection, in which the rate limit and the
   capacity of the rows meet.

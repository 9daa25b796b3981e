----------------------------- MODULE PacketFeed -----------------------------
(***************************************************************************)
(* The live packet feed of packetEye (app/services/live/packet_feed.py): a *)
(* ring buffer of numbered rows, filled by background threads that tail    *)
(* Suricata's eve.json or sniff with Scapy, started and stopped by HTTP    *)
(* handlers that take no lock, and polled by clients with a cursor.        *)
(*                                                                         *)
(* A row is its id.  A log is a sequence of pieces: a line is one piece,   *)
(* or a head and, later, a tail.  The feed's offset is a number of pieces. *)
(* Logs are rotated and truncated, and the feed does not look for it.  One *)
(* TLA+ step is one access to the attributes the threads share, or a run   *)
(* of accesses between which the code does nothing that can block.         *)
(***************************************************************************)
EXTENDS Integers, Sequences, FiniteSets

CONSTANTS Callers,      \* HTTP request threads that call start / stop
          Pollers,      \* clients of poll: the browser, the Scapy flow monitor, LLM triage
          Paths,        \* eve.json files
          Modes,        \* capture modes asked for, a subset of {"suricata", "tcpdump"}
          MaxRows,      \* deque(maxlen): 800 in the code
          PollTail,     \* rows a first poll gets: 200 in the code
          BatchLines,   \* lines read per turn of the loop: 200 in the code
          MaxThreads,   \* bound: ingest threads ever created
          KindsWritten, \* what a whole line is to the feed, a subset of LineKinds
          MaxFiles,     \* bound: log files
          MaxLines,     \* bound: pieces in the logs
          MaxSeq,       \* bound: no outside event that feeds new rows past it
          JoinTimesOut  \* may join(timeout=3) give up on a thread still running?

ASSUME MaxRowsAssumption == MaxRows \in Nat \ {0}
ASSUME PollTailAssumption == PollTail \in Nat \ {0}
ASSUME BoundsAssumption == /\ MaxThreads \in Nat
                           /\ MaxLines \in Nat
                           /\ MaxFiles \in Nat
                           /\ MaxSeq \in Nat
                           /\ BatchLines \in Nat \ {0}

Threads  == 1 .. MaxThreads
NoThread == 0
NoPath   == "none"
ASSUME PathsAssumption == NoPath \notin Paths

\* "event" gives a row; "other" is passed over (no object, or of nothing that has a row);
\* "bad" raises when it is converted.
LineKinds == {"event", "other", "bad"}
ASSUME KindsAssumption == KindsWritten \subseteq LineKinds
Pieces == KindsWritten \cup {"head", "tail"}
Files  == 1 .. MaxFiles
NoFile == 0

NoConsumer == [path |-> NoPath, offset |-> 0]

VARIABLES
  buffer,    \* _buffer: ids of the rows held, oldest first
  seq,       \* _seq: id of the newest row
  running,   \* _running
  stopSet,   \* _stop.is_set(): one Event serves every ingest thread there ever was
  thread,    \* _thread
  consumer,  \* _consumer: its path and offset, or NoConsumer
  lines,     \* lines[f]: the pieces in log file f
  file,      \* file[p]: the file at path p, or NoFile
  loop,      \* loop[t]: ingest thread t: where it is, its mode, its open file
  caller,    \* caller[c]: where HTTP thread c is in start or stop
  cursor,    \* cursor[p]: since_id of poller p
  got,       \* history: places of the file turned into rows since the consumer was made or rebound
  inOrder,   \* history: each of them came once and in file order
  halved,    \* history: places of tails whose head was read before they were written
  raced      \* history: a rebind has met this consumer in the middle of a batch, or
             \* its file was rotated or truncated; the other histories stop there

ring == <<buffer, seq>>
ctl  == <<running, stopSet, thread>>
logs == <<lines, file>>
tail == <<consumer, got, inOrder, halved, raced>>
vars == <<ring, ctl, tail, logs, loop, caller, cursor>>

\* An ingest thread outside of a batch.
Parked(place, mode) == [at |-> place, mode |-> mode, file |-> NoFile, pos |-> 0, left |-> 0]
NoCall == [at |-> "idle", op |-> "stop", joins |-> NoThread, new |-> NoThread]
Alive == {t \in Threads : loop[t].at \in {"top", "batch", "row", "sniff"}}

Init ==
  /\ buffer = <<>>  /\ seq = 0
  /\ running = FALSE  /\ stopSet = FALSE  /\ thread = NoThread
  /\ consumer = NoConsumer  /\ got = {}  /\ inOrder = TRUE  /\ halved = {}  /\ raced = FALSE
  /\ lines = [f \in Files |-> <<>>]  /\ file = [p \in Paths |-> NoFile]
  /\ loop = [t \in Threads |-> Parked("unborn", "none")]
  /\ caller = [c \in Callers |-> NoCall]
  /\ cursor = [p \in Pollers |-> 0]

-----------------------------------------------------------------------------
(* The ring buffer: _append, poll and clear each hold the lock throughout. *)

PushUncapped(b, id) == Append(b, id)                  \* mutant: no maxlen
Push(b, id) == IF Len(b) < MaxRows THEN Append(b, id) ELSE Append(Tail(b), id)

AppendRow == /\ seq' = seq + 1
             /\ buffer' = Push(buffer, seq + 1)

\* What poll(since) returns, as the set of its ids.
LastRows == {buffer[i] : i \in {j \in 1 .. Len(buffer) : j > Len(buffer) - PollTail}}
RowsSinceTailed(since) == {id \in LastRows : id > since}   \* mutant: every poll is cut short
RowsSince(since) ==
  IF since <= 0 THEN LastRows
                ELSE {buffer[i] : i \in {j \in 1 .. Len(buffer) : buffer[j] > since}}

\* A client polls and moves its cursor to the last id it was given.
Poll(p) ==
  /\ \E id \in RowsSince(cursor[p]) :
       /\ \A other \in RowsSince(cursor[p]) : other <= id
       /\ cursor' = [cursor EXCEPT ![p] = id]
  /\ UNCHANGED <<ring, ctl, tail, logs, loop, caller>>

\* mutant: clearing restarts the numbering.
ClearRenumbers ==
  /\ buffer' = <<>>  /\ seq' = 0
  /\ UNCHANGED <<ctl, tail, logs, loop, caller, cursor>>
Clear ==
  /\ buffer' = <<>>
  /\ UNCHANGED <<seq, ctl, tail, logs, loop, caller, cursor>>

-----------------------------------------------------------------------------
(* start and stop, one step per group of shared attributes they touch.     *)

At(c, place) == caller[c].at = place
Answer(c) == caller' = [caller EXCEPT ![c] = NoCall]
Goto(c, place) == caller' = [caller EXCEPT ![c].at = place]

\* stop raises the Event and picks the thread to join; start begins with stop.
BeginStop(c, op, new) ==
  /\ At(c, "idle")
  /\ stopSet' = TRUE  /\ running' = FALSE
  /\ caller' = [caller EXCEPT ![c] = [at |-> "join", op |-> op, joins |-> thread, new |-> new]]

CallStop(c) ==
  /\ BeginStop(c, "stop", NoThread)
  /\ UNCHANGED <<ring, thread, tail, logs, loop, cursor>>

\* t stands for the Thread object this start will make.
CallStart(c, mode) ==
  \E t \in Threads :
    /\ loop[t].at = "unborn"  /\ \A u \in Threads : u < t => loop[u].at # "unborn"
    /\ BeginStop(c, mode, t)
    /\ loop' = [loop EXCEPT ![t].at = "new", ![t].mode = mode]
    /\ UNCHANGED <<ring, thread, tail, logs, cursor>>

\* The join returns when the thread has ended, or after three seconds.
NoJoin(t)      == TRUE             \* mutant: stop does not join
JoinReturns(t) == t \notin Alive \/ JoinTimesOut

JoinThread(c) ==
  /\ At(c, "join")  /\ JoinReturns(caller[c].joins)
  /\ Goto(c, "detach")
  /\ UNCHANGED <<ring, ctl, tail, logs, loop, cursor>>

Detach(c) ==
  /\ At(c, "detach")
  /\ thread' = NoThread
  /\ consumer' = NoConsumer  /\ got' = {}  /\ inOrder' = TRUE  /\ halved' = {}  /\ raced' = FALSE
  /\ IF caller[c].op = "stop" THEN Answer(c) ELSE Goto(c, "arm")
  /\ UNCHANGED <<ring, running, stopSet, logs, loop, cursor>>

\* The rest of start: lower the Event, make consumer and thread, start it.
\* mutant: start does not lower the Event that its own stop raised.
ArmKeepsEvent(c) ==
  /\ At(c, "arm")
  /\ running' = TRUE
  /\ Goto(c, "create")
  /\ UNCHANGED <<ring, thread, stopSet, tail, logs, loop, cursor>>
Arm(c) ==
  /\ At(c, "arm")
  /\ stopSet' = FALSE  /\ running' = TRUE
  /\ Goto(c, "create")
  /\ UNCHANGED <<ring, thread, tail, logs, loop, cursor>>

Create(c) ==
  /\ At(c, "create")
  /\ thread' = caller[c].new
  /\ IF caller[c].op = "suricata"
       THEN /\ \E p \in Paths : consumer' = [path |-> p, offset |-> 0]
            /\ got' = {}  /\ inOrder' = TRUE  /\ halved' = {}  /\ raced' = FALSE
       ELSE UNCHANGED tail
  /\ Goto(c, "launch")
  /\ UNCHANGED <<ring, running, stopSet, logs, loop, cursor>>

\* self._thread.start() raises if another handler has meanwhile put None or a
\* thread already started there: the request ends in an error, nothing is undone.
Launch(c) ==
  /\ At(c, "launch")
  /\ Answer(c)
  /\ IF thread # NoThread /\ loop[thread].at = "new"
       THEN loop' = [loop EXCEPT ![thread].at = IF loop[thread].mode = "suricata" THEN "top" ELSE "sniff"]
       ELSE UNCHANGED loop
  /\ UNCHANGED <<ring, ctl, tail, logs, cursor>>

\* rebind_eve: the consumer in place, if any, turns to the start of another file.
Rebind(p) ==
  /\ consumer # NoConsumer
  /\ seq < MaxSeq
  /\ consumer' = [path |-> p, offset |-> 0]
  /\ got' = {}  /\ inOrder' = TRUE  /\ halved' = {}
  /\ raced' = (\E t \in Threads : loop[t].at \in {"batch", "row"})
  /\ UNCHANGED <<ring, ctl, logs, loop, caller, cursor>>

-----------------------------------------------------------------------------
(* _eve_loop: open the consumer's file at its offset, read a batch, wait.  *)

NeverStops == FALSE                \* mutant: the Event is not looked at
StopSeen   == stopSet

OpenBatch(t) ==
  /\ loop[t].at = "top"
  /\ loop' = [loop EXCEPT ![t] =
       IF StopSeen THEN Parked("dead", loop[t].mode)
       ELSE IF consumer = NoConsumer \/ file[consumer.path] = NoFile THEN @
       ELSE [@ EXCEPT !.at = "batch", !.file = file[consumer.path], !.pos = consumer.offset, !.left = BatchLines]]
  /\ UNCHANGED <<ring, ctl, tail, logs, caller, cursor>>

\* The open file, and the first piece of the next line in it.
Log(t) == lines[loop[t].file]
Piece1(t) == Log(t)[loop[t].pos + 1]

\* A batch ends after BatchLines lines or at the end of the file.
BatchShort(t)     == loop[t].left = 0 \/ loop[t].pos + 1 >= Len(Log(t))   \* mutant: off by one
BatchOver(t)      == loop[t].left = 0 \/ loop[t].pos >= Len(Log(t))

\* readline takes a head and its tail as one line, or the head alone: then neither is JSON.
HalfLine(t) == Piece1(t) = "head" /\ loop[t].pos + 1 = Len(Log(t))
LineLength(t) == IF Piece1(t) = "head" /\ ~HalfLine(t) THEN 2 ELSE 1
GivesRow(t) == Piece1(t) = "event" \/ LineLength(t) = 2

\* The offset is stored before the line is looked at, in whatever consumer is in place now;
\* with none in place the assignment raises, the batch is given up and its line is lost.
AdvanceLate(t) == loop[t].pos      \* mutant: the position before the line
AdvanceTo(t)   == loop[t].pos + LineLength(t)

\* A line that gives no row is passed over; one whose conversion raises ends the batch.
AfterLine(t) ==
  IF Piece1(t) = "bad" THEN Parked("top", loop[t].mode)
  ELSE [loop[t] EXCEPT !.at = IF GivesRow(t) THEN "row" ELSE "batch", !.pos = @ + LineLength(t), !.left = @ - 1]
ReadLine(t) ==
  /\ loop[t].at = "batch"
  /\ IF BatchOver(t) \/ consumer = NoConsumer
       THEN /\ loop' = [loop EXCEPT ![t] = Parked("top", loop[t].mode)]
            /\ UNCHANGED <<consumer, halved>>
       ELSE /\ consumer' = [consumer EXCEPT !.offset = AdvanceTo(t)]
            /\ loop' = [loop EXCEPT ![t] = AfterLine(t)]
            /\ halved' = halved \cup {i \in {loop[t].pos + 2} : HalfLine(t) /\ ~raced}
  /\ UNCHANGED <<ring, ctl, got, inOrder, raced, logs, caller, cursor>>

AppendLine(t) ==
  /\ loop[t].at = "row"
  /\ AppendRow
  /\ IF raced THEN UNCHANGED <<got, inOrder>>
               ELSE /\ got' = got \cup {loop[t].pos}
                    /\ inOrder' = (inOrder /\ \A i \in got : i < loop[t].pos)
  /\ loop' = [loop EXCEPT ![t].at = "batch"]
  /\ UNCHANGED <<ctl, consumer, halved, raced, logs, caller, cursor>>

\* _scapy_loop acts only when a packet arrives: it looks at the Event there and
\* nowhere else.  A sniffer that cannot start leaves one error row and ends.
Packet(t) ==
  /\ loop[t].at = "sniff"
  /\ IF StopSeen THEN /\ loop' = [loop EXCEPT ![t].at = "dead"]
                       /\ UNCHANGED ring
                  ELSE /\ seq < MaxSeq /\ AppendRow
                       /\ UNCHANGED loop
  /\ UNCHANGED <<ctl, tail, logs, caller, cursor>>
SniffFails(t) ==
  /\ loop[t].at = "sniff"
  /\ AppendRow
  /\ loop' = [loop EXCEPT ![t].at = "dead"]
  /\ UNCHANGED <<ctl, tail, logs, caller, cursor>>

\* Suricata writes to the file at p, to a new one if there is none: a line, or its head and
\* later its tail.
Torn(f)   == lines[f] # <<>> /\ lines[f][Len(lines[f])] = "head"
Unused(f) == lines[f] = <<>> /\ \A p \in Paths : file[p] # f
Target(p) == IF file[p] # NoFile THEN {file[p]}
             ELSE {f \in Files : Unused(f) /\ \A g \in Files : g < f => ~Unused(g)}
Room == Cardinality({x \in Files \X (1 .. MaxLines) : x[2] <= Len(lines[x[1]])}) < MaxLines
WriteLine(p) ==
  \E f \in Target(p), piece \in Pieces :
    /\ Room  /\ seq < MaxSeq
    /\ piece = "tail" <=> Torn(f)
    /\ file' = [file EXCEPT ![p] = f]  /\ lines' = [lines EXCEPT ![f] = Append(@, piece)]
    /\ UNCHANGED <<ring, ctl, tail, loop, caller, cursor>>

\* The log is moved away, or emptied in place: the feed goes on at the offset it has.
Replace(p) ==
  /\ file[p] # NoFile  /\ lines[file[p]] # <<>>
  /\ IF consumer.path = p THEN raced' = TRUE /\ got' = {} /\ inOrder' = TRUE /\ halved' = {}
                          ELSE UNCHANGED <<raced, got, inOrder, halved>>
  /\ UNCHANGED <<ring, ctl, consumer, loop, caller, cursor>>
Rotate(p)   == Replace(p) /\ file' = [file EXCEPT ![p] = NoFile] /\ UNCHANGED lines
Truncate(p) == Replace(p) /\ lines' = [lines EXCEPT ![file[p]] = <<>>] /\ UNCHANGED file

-----------------------------------------------------------------------------
Handler(c) == JoinThread(c) \/ Detach(c) \/ Arm(c) \/ Create(c) \/ Launch(c)
EveLoop(t) == OpenBatch(t) \/ ReadLine(t) \/ AppendLine(t)

Next ==
  \/ \E c \in Callers : CallStop(c) \/ Handler(c) \/ \E m \in Modes : CallStart(c, m)
  \/ \E t \in Threads : EveLoop(t) \/ Packet(t) \/ SniffFails(t)
  \/ \E p \in Paths : WriteLine(p) \/ Rotate(p) \/ Truncate(p) \/ Rebind(p)
  \/ \E p \in Pollers : Poll(p)
  \/ Clear

Spec == Init /\ [][Next]_vars

\* Python threads run when they can: the tailing threads and the handlers make
\* progress.  Packets, events, requests and failures are never owed.
FairSpec == /\ Spec
            /\ \A c \in Callers : WF_vars(Handler(c))
            /\ \A t \in Threads : WF_vars(EveLoop(t))

-----------------------------------------------------------------------------
LoopStates == [at : {"unborn", "new", "top", "batch", "row", "sniff", "dead"},
               mode : Modes \cup {"none"}, file : Files \cup {NoFile}, pos : Nat, left : 0 .. BatchLines]
CallerStates == [at : {"idle", "join", "detach", "arm", "create", "launch"}, op : Modes \cup {"stop"},
                 joins : Threads \cup {NoThread}, new : Threads \cup {NoThread}]

TypeOK ==
  /\ buffer \in Seq(Nat)  /\ seq \in Nat
  /\ running \in BOOLEAN  /\ stopSet \in BOOLEAN  /\ thread \in Threads \cup {NoThread}
  /\ consumer \in [path : Paths, offset : Nat] \cup {NoConsumer}
  /\ got \subseteq Nat  /\ inOrder \in BOOLEAN  /\ halved \subseteq Nat  /\ raced \in BOOLEAN
  /\ lines \in [Files -> Seq(Pieces)]  /\ file \in [Paths -> Files \cup {NoFile}]
  /\ loop \in [Threads -> LoopStates]
  /\ caller \in [Callers -> CallerStates]
  /\ cursor \in [Pollers -> Nat]

-----------------------------------------------------------------------------
\* The ids held are consecutive and end in seq (or would, if any were held):
\* no append is lost or numbered twice, whichever threads _append runs in.
BufferContiguous ==
  /\ Len(buffer) <= MaxRows  /\ Len(buffer) <= seq
  /\ \A i \in 1 .. Len(buffer) : buffer[i] = seq - Len(buffer) + i

\* A client never holds a cursor that the feed has not reached: otherwise poll
\* would hide from it every row up to that cursor.
CursorBehindSeq == \A p \in Pollers : cursor[p] <= seq

\* A client that has polled before and whose next row is still in the ring
\* gets every row after its cursor: the ring loses rows at its old end only.
NoGap == \A p \in Pollers :
  cursor[p] > 0 /\ cursor[p] >= seq - Len(buffer) => RowsSince(cursor[p]) = (cursor[p] + 1) .. seq

\* The feed keeps the promise of FeedLog.
FL == INSTANCE FeedLog WITH Clients <- Pollers, Capacity <- MaxRows,
                            lo <- seq - Len(buffer) + 1, hi <- seq, seen <- cursor
ImplementsFeedLog == FL!LogSpec

\* Handlers that take turns, and joins that wait: a restart never leaves the
\* thread it replaces running on the Event it lowers.
OneIngestThread == \A t, u \in Alive : t = u

\* ... the feed says it runs only when it has a thread, and one that tails lives
\* (a sniffer may have ended on its error, and running stays up).
RunningIsFed == running /\ (\A c \in Callers : At(c, "idle")) =>
  thread # NoThread /\ (loop[thread].mode = "suricata" => thread \in Alive)
Fed == OneIngestThread /\ RunningIsFed

\* ... and of the lines read, those that give a row have given one each, in file order, but
\* for a line that was read in two halves.  Nothing is said once a rebind has met the thread
\* in the middle of a batch (the thread then writes the old file's position over the offset
\* that rebind cleared) or the file was rotated or truncated, which the feed does not notice.
RowPlaces(n) == {i \in 1 .. n : lines[file[consumer.path]][i] \in {"event", "tail"}} \ halved
Pending      == {loop[t].pos : t \in {u \in Threads : loop[u].at = "row"}}
ExactlyOnce == consumer # NoConsumer /\ ~raced =>
  inOrder /\ got \cup Pending = RowPlaces(consumer.offset)

\* ... so an event in the file of a feed that runs becomes a row, whatever lines that are bad
\* or of no use come before it, unless it was read in halves, or the feed is stopped, turned
\* to another file, raced, or turned back to the start for ever.
Owed(p, n) == /\ running  /\ consumer.path = p  /\ file[p] # NoFile
              /\ n <= Len(lines[file[p]]) /\ lines[file[p]][n] \in {"event", "tail"}
LinesArrive == \A p \in Paths, n \in 1 .. MaxLines :
  \/ []<><<\E q \in Paths : Rebind(q)>>_vars
  \/ Owed(p, n) ~> (n \in got \cup halved \/ ~running \/ consumer.path # p \/ raced)

\* However handlers interleave and joins time out, once the Event stays raised
\* every tailing thread ends.
QuietAfterStop == <>[]stopSet => <>[](\A t \in Threads : loop[t].at \notin {"top", "batch", "row"})
=============================================================================

-------------------------- MODULE FeedSessionProofs ------------------------
(***************************************************************************)
(* What reads Suricata's log, for every value of the constants.            *)
(*                                                                         *)
(* PacketFeed, for every number of handlers, pollers, threads, paths and   *)
(* rows: it keeps its types, its ring is a contiguous window of one        *)
(* numbering, a client that keeps up misses nothing, and the feed          *)
(* implements FeedLog.  None of this depends on how the handlers and the   *)
(* threads interleave, which is the point of the lock in _append.  That    *)
(* the feed stays fed, and reads each line once, needs requests that take  *)
(* turns.                                                                  *)
(*                                                                         *)
(* EveTail, for every number of events, inodes, rebinds and lines of a     *)
(* poll: no event is handed on twice in a binding, and no line is skipped  *)
(* but for the reasons ReadExactly names.                                  *)
(***************************************************************************)
EXTENDS MCFeedSession, SequenceTheorems, FiniteSetTheorems, TLAPS

\* The types of the two shared variables the ring's invariant speaks of.
RingType == buffer \in Seq(Nat) /\ seq \in Nat /\ cursor \in [Pollers -> Nat]

RingInv == RingType /\ BufferContiguous /\ CursorBehindSeq

-----------------------------------------------------------------------------
(* What Push, Append and Tail do to a sequence of ids.                     *)

LEMMA PushType ==
  ASSUME NEW b \in Seq(Nat), NEW id \in Nat
  PROVE  Push(b, id) \in Seq(Nat)
  BY MaxRowsAssumption DEF Push

LEMMA PushLength ==
  ASSUME NEW b \in Seq(Nat), NEW id \in Nat, Len(b) <= MaxRows
  PROVE  Len(Push(b, id)) = IF Len(b) < MaxRows THEN Len(b) + 1 ELSE Len(b)
  BY MaxRowsAssumption DEF Push

LEMMA PushElements ==
  ASSUME NEW b \in Seq(Nat), NEW n \in Nat, Len(b) <= MaxRows, Len(b) <= n,
         \A i \in 1 .. Len(b) : b[i] = n - Len(b) + i
  PROVE  LET c == Push(b, n + 1) IN
           \A i \in 1 .. Len(c) : c[i] = n + 1 - Len(c) + i
  <1>1. CASE Len(b) < MaxRows
    BY <1>1 DEF Push
  <1>2. CASE ~(Len(b) < MaxRows)
    <2>1. Len(b) = MaxRows /\ b # <<>>
      BY <1>2, MaxRowsAssumption
    <2> DEFINE r == Tail(b)
    <2>2. r \in Seq(Nat) /\ Len(r) = Len(b) - 1 /\ \A i \in 1 .. Len(r) : r[i] = b[i + 1]
      BY <2>1
    <2>3. Push(b, n + 1) = Append(r, n + 1)
      BY <1>2 DEF Push
    <2>4. Len(Append(r, n + 1)) = Len(b)
      BY <2>1, <2>2
    <2>5. ASSUME NEW i \in 1 .. Len(b)
          PROVE  Append(r, n + 1)[i] = n + 1 - Len(b) + i
      <3>1. CASE i = Len(b)
        BY <2>2, <3>1
      <3>2. CASE i # Len(b)
        <4>. Len(b) \in Nat /\ Len(r) = Len(b) - 1
          BY <2>2
        <4>1. i \in 1 .. Len(r) /\ i + 1 \in 1 .. Len(b)
          BY <3>2
        <4>2. Append(r, n + 1)[i] = b[i + 1]
          BY <2>2, <4>1
        <4>. QED BY <4>1, <4>2
      <3>. QED BY <3>1, <3>2
    <2>. QED BY <2>3, <2>4, <2>5
  <1>. QED BY <1>1, <1>2

-----------------------------------------------------------------------------
(* Every step appends a row, clears the ring, polls it, or leaves it alone. *)

LEMMA StepShape ==
  ASSUME [Next]_vars
  PROVE  \/ AppendRow /\ UNCHANGED cursor
         \/ buffer' = <<>> /\ UNCHANGED <<seq, cursor>>
         \/ \E p \in Pollers : Poll(p)
         \/ UNCHANGED <<buffer, seq, cursor>>
  <1>1. ASSUME NEW c \in Callers, CallStop(c) \/ Handler(c) \/ \E m \in Modes : CallStart(c, m)
        PROVE  UNCHANGED <<buffer, seq, cursor>>
    BY <1>1 DEF CallStop, CallStart, Handler, JoinThread, Detach, Arm, Create, Launch, ring
  <1>2. ASSUME NEW t \in Threads, EveLoop(t) \/ Packet(t) \/ SniffFails(t)
        PROVE  (AppendRow /\ UNCHANGED cursor) \/ UNCHANGED <<buffer, seq, cursor>>
    BY <1>2 DEF EveLoop, OpenBatch, ReadLine, AppendLine, Packet, SniffFails, ring
  <1>3. ASSUME NEW p \in Paths, WriteLine(p) \/ Rotate(p) \/ Truncate(p) \/ Rebind(p)
        PROVE  UNCHANGED <<buffer, seq, cursor>>
    BY <1>3 DEF WriteLine, Rotate, Truncate, Replace, Rebind, ring
  <1>4. CASE Clear
    BY <1>4 DEF Clear
  <1>5. CASE UNCHANGED vars
    BY <1>5 DEF vars, ring
  <1>. QED BY <1>1, <1>2, <1>3, <1>4, <1>5 DEF Next

LEMMA PollSeesNewest ==
  ASSUME RingInv, NEW p \in Pollers, Poll(p)
  PROVE  /\ Len(buffer) > 0
         /\ cursor' = [cursor EXCEPT ![p] = seq]
         /\ UNCHANGED <<buffer, seq>>
  <1> USE DEF RingInv, RingType, BufferContiguous
  <1> DEFINE rows == RowsSince(cursor[p])
  <1>1. PICK id \in rows : (\A other \in rows : other <= id) /\ cursor' = [cursor EXCEPT ![p] = id]
    BY DEF Poll
  <1>2. PICK k \in 1 .. Len(buffer) : id = buffer[k] /\ (cursor[p] <= 0 \/ id > cursor[p])
    BY <1>1 DEF RowsSince, LastRows
  <1>3. Len(buffer) \in Nat /\ Len(buffer) > 0 /\ Len(buffer) \in 1 .. Len(buffer)
    BY <1>2
  <1>4. buffer[Len(buffer)] = seq /\ id <= seq /\ id \in Nat
    <2>1. \A i \in 1 .. Len(buffer) : buffer[i] = seq - Len(buffer) + i
      OBVIOUS
    <2>2. seq \in Nat /\ Len(buffer) \in Nat /\ Len(buffer) <= seq
      BY <1>3
    <2>3. buffer[Len(buffer)] = seq
      BY <1>3, <2>1, <2>2
    <2>4. id = seq - Len(buffer) + k
      BY <1>2, <2>1
    <2>. QED BY <2>2, <2>3, <2>4, <1>2
  <1>5. seq \in rows
    <2>1. CASE cursor[p] <= 0
      <3>1. Len(buffer) > Len(buffer) - PollTail
        BY <1>3, PollTailAssumption
      <3>. QED BY <2>1, <3>1, <1>3, <1>4 DEF RowsSince, LastRows
    <2>2. CASE ~(cursor[p] <= 0)
      <3>1. cursor[p] \in Nat /\ seq \in Nat
        OBVIOUS
      <3>2. seq > cursor[p]
        BY <2>2, <3>1, <1>2, <1>4
      <3>3. rows = {buffer[i] : i \in {j \in 1 .. Len(buffer) : buffer[j] > cursor[p]}}
        BY <2>2 DEF RowsSince
      <3>. QED BY <3>2, <3>3, <1>3, <1>4
    <2>. QED BY <2>1, <2>2
  <1>6. id = seq
    BY <1>1, <1>4, <1>5
  <1>. QED BY <1>1, <1>3, <1>6 DEF Poll, ring

-----------------------------------------------------------------------------
(* The ring's invariant.                                                   *)

LEMMA RingInit == Init => RingInv
  <1> SUFFICES ASSUME Init
               PROVE  RingInv
    OBVIOUS
  <1>1. buffer = <<>> /\ seq = 0 /\ cursor = [p \in Pollers |-> 0]
    BY DEF Init
  <1>2. RingType
    BY <1>1 DEF RingType
  <1>3. BufferContiguous /\ CursorBehindSeq
    BY <1>1, MaxRowsAssumption DEF BufferContiguous, CursorBehindSeq
  <1>. QED BY <1>2, <1>3 DEF RingInv

LEMMA RingStep == RingInv /\ [Next]_vars => RingInv'
  <1> SUFFICES ASSUME RingInv, [Next]_vars
               PROVE  RingInv'
    OBVIOUS
  <1> USE DEF RingInv, RingType, BufferContiguous, CursorBehindSeq
  <1>1. CASE AppendRow /\ UNCHANGED cursor
    <2>1. buffer' = Push(buffer, seq + 1) /\ seq' = seq + 1 /\ cursor' = cursor
      BY <1>1 DEF AppendRow
    <2>2. buffer' \in Seq(Nat)
      BY <2>1, PushType
    <2>3. Len(buffer') = IF Len(buffer) < MaxRows THEN Len(buffer) + 1 ELSE Len(buffer)
      BY <2>1, PushLength
    <2>4. \A i \in 1 .. Len(buffer') : buffer'[i] = seq + 1 - Len(buffer') + i
      BY <2>1, PushElements
    <2>. QED BY <2>1, <2>2, <2>3, <2>4, MaxRowsAssumption
  <1>2. CASE buffer' = <<>> /\ UNCHANGED <<seq, cursor>>
    BY <1>2, MaxRowsAssumption
  <1>3. ASSUME NEW p \in Pollers, Poll(p)
        PROVE  RingInv'
    <2>1. cursor' = [cursor EXCEPT ![p] = seq] /\ buffer' = buffer /\ seq' = seq
      BY <1>3, PollSeesNewest
    <2>2. RingType' /\ BufferContiguous'
      BY <2>1
    <2>3. CursorBehindSeq'
      BY <2>1
    <2>. QED BY <2>2, <2>3
  <1>4. CASE UNCHANGED <<buffer, seq, cursor>>
    BY <1>4
  <1>. QED BY <1>1, <1>2, <1>3, <1>4, StepShape

LEMMA RingAlways == Spec => []RingInv
  <1>. QED BY RingInit, RingStep, PTL DEF Spec

\* The ids in the ring are consecutive and end in _seq, whatever runs beside it.
THEOREM BufferIsContiguous == Spec => []BufferContiguous
  <1>1. RingInv => BufferContiguous
    BY DEF RingInv
  <1>. QED BY <1>1, RingAlways, PTL

\* No client's cursor runs ahead of the numbering: clear does not renumber.
THEOREM CursorsStayBehind == Spec => []CursorBehindSeq
  <1>1. RingInv => CursorBehindSeq
    BY DEF RingInv
  <1>. QED BY <1>1, RingAlways, PTL

\* A client whose next row is still in the ring is given every row after its
\* cursor, for every capacity and every interleaving.
THEOREM ClientsMissNothing == Spec => []NoGap
  <1>1. RingInv => NoGap
    <2> SUFFICES ASSUME RingInv, NEW p \in Pollers, cursor[p] > 0, cursor[p] >= seq - Len(buffer)
                 PROVE  RowsSince(cursor[p]) = (cursor[p] + 1) .. seq
      BY DEF NoGap
    <2> USE DEF RingInv, RingType, BufferContiguous
    <2>1. RowsSince(cursor[p]) = {buffer[i] : i \in {j \in 1 .. Len(buffer) : buffer[j] > cursor[p]}}
      BY DEF RowsSince
    <2>2. ASSUME NEW id \in RowsSince(cursor[p])
          PROVE  id \in (cursor[p] + 1) .. seq
      <3>1. PICK i \in 1 .. Len(buffer) : buffer[i] > cursor[p] /\ id = buffer[i]
        BY <2>1, <2>2, Zenon
      <3>2. id = seq - Len(buffer) + i
        BY <3>1, Zenon
      <3>3. buffer \in Seq(Nat) /\ seq \in Nat /\ cursor[p] \in Nat
        BY Zenon
      <3>4. Len(buffer) \in Nat
        BY ONLY <3>3, LenProperties
      <3>. QED BY ONLY <3>1, <3>2, <3>3, <3>4
    <2>3. ASSUME NEW id \in (cursor[p] + 1) .. seq
          PROVE  id \in RowsSince(cursor[p])
      <3> DEFINE k == id - (seq - Len(buffer))
      <3>1. seq \in Nat /\ Len(buffer) \in Nat /\ cursor[p] \in Nat /\ Len(buffer) <= seq
        <4>1. buffer \in Seq(Nat) /\ seq \in Nat /\ cursor[p] \in Nat /\ Len(buffer) <= seq
          OBVIOUS
        <4>2. Len(buffer) \in Nat
          BY ONLY <4>1, LenProperties
        <4>. QED BY ONLY <4>1, <4>2
      <3>2. k \in 1 .. Len(buffer) /\ id > cursor[p]
        BY ONLY <2>3, <3>1, cursor[p] >= seq - Len(buffer)
      <3>3. buffer[k] = id
        BY ONLY <2>3, <3>1, <3>2, BufferContiguous DEF BufferContiguous
      <3>. QED BY <2>1, <3>2, <3>3
    <2>. QED BY <2>2, <2>3
  <1>. QED BY <1>1, RingAlways, PTL

-----------------------------------------------------------------------------
(* Types: one step per action.                                             *)

LEMMA AppendType ==
  ASSUME buffer \in Seq(Nat), seq \in Nat, AppendRow
  PROVE  buffer' \in Seq(Nat) /\ seq' \in Nat
  BY PushType DEF AppendRow

LEMMA ParkedType ==
  ASSUME NEW place \in {"unborn", "new", "top", "batch", "row", "sniff", "dead"}, NEW mode \in Modes \cup {"none"}
  PROVE  /\ Parked(place, mode) \in LoopStates
         /\ Parked(place, mode).at = place /\ Parked(place, mode).mode = mode
  BY BoundsAssumption DEF Parked, LoopStates

LEMMA TypeInit == Init => TypeOK
  <1> SUFFICES ASSUME Init
               PROVE  TypeOK
    OBVIOUS
  <1>1. buffer \in Seq(Nat) /\ seq \in Nat /\ cursor \in [Pollers -> Nat]
    BY DEF Init
  <1>2. consumer \in [path : Paths, offset : Nat] \cup {NoConsumer}
    BY DEF Init
  <1>3. loop \in [Threads -> LoopStates]
    BY ParkedType DEF Init
  <1>4. caller \in [Callers -> CallerStates]
    BY DEF Init, CallerStates, NoCall
  <1>5. lines \in [Files -> Seq(Pieces)] /\ file \in [Paths -> Files \cup {NoFile}]
    BY DEF Init
  <1>. QED BY <1>1, <1>2, <1>3, <1>4, <1>5 DEF Init, TypeOK

\* A move to another place of the code leaves the rest of a thread's record.
LEMMA LoopGoto ==
  ASSUME NEW r \in LoopStates, NEW place \in {"unborn", "new", "top", "batch", "row", "sniff", "dead"}
  PROVE  [r EXCEPT !.at = place] \in LoopStates
  BY DEF LoopStates

LEMMA CallerGoto ==
  ASSUME NEW r \in CallerStates, NEW place \in {"idle", "join", "detach", "arm", "create", "launch"}
  PROVE  [r EXCEPT !.at = place] \in CallerStates
  BY DEF CallerStates

LEMMA BeginStopType ==
  ASSUME TypeOK, NEW c \in Callers, NEW op \in Modes \cup {"stop"}, NEW new \in Threads \cup {NoThread},
         BeginStop(c, op, new)
  PROVE  caller' \in [Callers -> CallerStates] /\ stopSet' \in BOOLEAN /\ running' \in BOOLEAN
  <1>1. [at |-> "join", op |-> op, joins |-> thread, new |-> new] \in CallerStates
    BY DEF TypeOK, CallerStates
  <1>. QED BY <1>1 DEF TypeOK, BeginStop

LEMMA HandlerType ==
  ASSUME TypeOK, NEW c \in Callers, NEW place \in {"idle", "join", "detach", "arm", "create", "launch"},
         Goto(c, place)
  PROVE  caller' \in [Callers -> CallerStates]
  <1>1. [caller[c] EXCEPT !.at = place] \in CallerStates
    BY CallerGoto DEF TypeOK
  <1>. QED BY <1>1 DEF TypeOK, Goto

LEMMA AnswerType ==
  ASSUME TypeOK, NEW c \in Callers, Answer(c)
  PROVE  caller' \in [Callers -> CallerStates]
  <1>1. NoCall \in CallerStates
    BY DEF NoCall, CallerStates
  <1>. QED BY <1>1 DEF TypeOK, Answer

\* What a thread in a batch is after a line.
LEMMA LineTaken ==
  ASSUME TypeOK, NEW t \in Threads, loop[t].left # 0
  PROVE  /\ AfterLine(t) \in LoopStates
         /\ AfterLine(t).mode = loop[t].mode  /\ AfterLine(t).at \in {"top", "batch", "row"}
         /\ LineLength(t) \in {1, 2}
         /\ Piece1(t) = "bad" => AfterLine(t).at = "top"
         /\ Piece1(t) # "bad" => /\ AfterLine(t).at = IF GivesRow(t) THEN "row" ELSE "batch"
                                 /\ AfterLine(t).pos = loop[t].pos + LineLength(t)
                                 /\ AfterLine(t).file = loop[t].file
  <1>1. LineLength(t) \in {1, 2}
    BY DEF LineLength
  <1>2. loop[t] \in LoopStates
    BY DEF TypeOK
  <1>3. CASE Piece1(t) = "bad"
    <2>1. loop[t].mode \in Modes \cup {"none"}
      BY <1>2 DEF LoopStates
    <2>. QED BY <1>1, <1>3, <2>1, ParkedType DEF AfterLine
  <1>4. CASE Piece1(t) # "bad"
    <2>1. loop[t].left - 1 \in 0 .. BatchLines /\ loop[t].pos + LineLength(t) \in Nat
      BY <1>1, <1>2, BoundsAssumption DEF LoopStates
    <2> DEFINE to == loop[t].pos + LineLength(t)  gone == loop[t].left - 1
               at == IF GivesRow(t) THEN "row" ELSE "batch"
    <2>2. AfterLine(t) = [loop[t] EXCEPT !.at = at, !.pos = to, !.left = gone]
      BY <1>2, <1>4 DEF AfterLine, LoopStates
    <2>3. at \in {"row", "batch"} /\ to \in Nat /\ gone \in 0 .. BatchLines
      BY <2>1
    <2> HIDE DEF to, gone, at
    <2>4. /\ AfterLine(t) \in LoopStates /\ AfterLine(t).at = at /\ AfterLine(t).pos = to
          /\ AfterLine(t).mode = loop[t].mode /\ AfterLine(t).file = loop[t].file
      BY <1>2, <2>2, <2>3 DEF LoopStates
    <2>. QED BY <1>1, <1>4, <2>3, <2>4 DEF to, at
  <1>. QED BY <1>3, <1>4

\* What a thread at the top of its loop becomes.
LEMMA Opened ==
  ASSUME TypeOK, NEW t \in Threads, OpenBatch(t)
  PROVE  \/ /\ stopSet /\ Parked("dead", loop[t].mode) \in LoopStates
            /\ loop' = [loop EXCEPT ![t] = Parked("dead", loop[t].mode)]
         \/ loop' = loop
         \/ /\ consumer # NoConsumer  /\ file[consumer.path] # NoFile
            /\ \E r \in LoopStates : /\ loop' = [loop EXCEPT ![t] = r]
                                     /\ r.at = "batch"  /\ r.mode = loop[t].mode
                                     /\ r.pos = consumer.offset  /\ r.file = file[consumer.path]
  <1>1. loop[t] \in LoopStates /\ loop \in [Threads -> LoopStates]
    BY DEF TypeOK
  <1>2. CASE stopSet
    <2>1. loop[t].mode \in Modes \cup {"none"}
      BY <1>1 DEF LoopStates
    <2>. QED BY <1>2, <2>1, ParkedType DEF OpenBatch, StopSeen
  <1>3. CASE ~stopSet /\ (consumer = NoConsumer \/ file[consumer.path] = NoFile)
    BY <1>1, <1>3 DEF OpenBatch, StopSeen
  <1>4. CASE ~stopSet /\ ~(consumer = NoConsumer \/ file[consumer.path] = NoFile)
    <2>1. consumer.path \in Paths /\ consumer.offset \in Nat
      <3>1. consumer \in [path : Paths, offset : Nat]
        BY <1>4 DEF TypeOK
      <3>. QED BY <3>1
    <2>2. file[consumer.path] \in Files
      BY <1>4, <2>1 DEF TypeOK
    <2> DEFINE r == [loop[t] EXCEPT !.at = "batch", !.file = file[consumer.path],
                                    !.pos = consumer.offset, !.left = BatchLines]
    <2>3. loop' = [loop EXCEPT ![t] = r]
      BY <1>4 DEF OpenBatch, StopSeen
    <2>4. BatchLines \in 0 .. BatchLines
      BY BoundsAssumption
    <2>5. /\ r \in LoopStates /\ r.at = "batch" /\ r.mode = loop[t].mode
          /\ r.pos = consumer.offset /\ r.file = file[consumer.path]
      BY <1>1, <2>1, <2>2, <2>4 DEF LoopStates
    <2> HIDE DEF r
    <2>. QED BY <1>4, <2>3, <2>5
  <1>. QED BY <1>2, <1>3, <1>4

\* A file at a path keeps its type whoever writes it.
LEMMA LineWritten ==
  ASSUME TypeOK, NEW p \in Paths, WriteLine(p)
  PROVE  \E f \in Target(p), piece \in Pieces :
           /\ f \in Files /\ (piece = "tail" <=> Torn(f))
           /\ file' = [file EXCEPT ![p] = f] /\ lines' = [lines EXCEPT ![f] = Append(lines[f], piece)]
           /\ UNCHANGED <<ring, ctl, tail, loop, caller, cursor>>
  <1>1. PICK f \in Target(p), piece \in Pieces :
           /\ piece = "tail" <=> Torn(f)
           /\ file' = [file EXCEPT ![p] = f] /\ lines' = [lines EXCEPT ![f] = Append(@, piece)]
           /\ UNCHANGED <<ring, ctl, tail, loop, caller, cursor>>
    BY DEF WriteLine
  <1>2. f \in Files
    BY DEF TypeOK, Target
  <1>. QED BY <1>1, <1>2

LEMMA TypeStep == TypeOK /\ [Next]_vars => TypeOK'
  <1> SUFFICES ASSUME TypeOK, [Next]_vars
               PROVE  TypeOK'
    OBVIOUS
  <1> USE DEF ring, ctl, tail, logs
  <1>1. ASSUME NEW c \in Callers, CallStop(c)
        PROVE  TypeOK'
    BY <1>1, BeginStopType DEF TypeOK, CallStop
  <1>2. ASSUME NEW c \in Callers, NEW m \in Modes, CallStart(c, m)
        PROVE  TypeOK'
    <2>1. PICK t \in Threads : /\ BeginStop(c, m, t)
                               /\ loop' = [loop EXCEPT ![t].at = "new", ![t].mode = m]
                               /\ UNCHANGED <<ring, thread, tail, logs, cursor>>
      BY <1>2 DEF CallStart
    <2>2. [[loop[t] EXCEPT !.at = "new"] EXCEPT !.mode = m] \in LoopStates
      BY DEF TypeOK, LoopStates
    <2>3. loop' = [loop EXCEPT ![t] = [[loop[t] EXCEPT !.at = "new"] EXCEPT !.mode = m]]
      BY <2>1 DEF TypeOK
    <2>4. loop' \in [Threads -> LoopStates]
      BY <2>2, <2>3 DEF TypeOK
    <2>. QED BY <2>1, <2>4, BeginStopType DEF TypeOK
  <1>3. ASSUME NEW c \in Callers, JoinThread(c)
        PROVE  TypeOK'
    BY <1>3, HandlerType DEF TypeOK, JoinThread
  <1>4. ASSUME NEW c \in Callers, Detach(c)
        PROVE  TypeOK'
    <2>1. caller' \in [Callers -> CallerStates]
      BY <1>4, HandlerType, AnswerType DEF Detach
    <2>. QED BY <1>4, <2>1 DEF TypeOK, Detach, NoConsumer
  <1>5. ASSUME NEW c \in Callers, Arm(c)
        PROVE  TypeOK'
    BY <1>5, HandlerType DEF TypeOK, Arm
  <1>6. ASSUME NEW c \in Callers, Create(c)
        PROVE  TypeOK'
    <2>1. caller' \in [Callers -> CallerStates]
      BY <1>6, HandlerType DEF Create
    <2>2. thread' \in Threads \cup {NoThread}
      BY <1>6 DEF TypeOK, Create, CallerStates
    <2>3. /\ consumer' \in [path : Paths, offset : Nat] \cup {NoConsumer}
          /\ got' \subseteq Nat  /\ halved' \subseteq Nat  /\ inOrder' \in BOOLEAN  /\ raced' \in BOOLEAN
      <3>1. CASE caller[c].op = "suricata"
        <4>1. PICK p \in Paths : consumer' = [path |-> p, offset |-> 0]
          BY <1>6, <3>1 DEF Create
        <4>2. got' = {}  /\ halved' = {}  /\ inOrder' = TRUE  /\ raced' = FALSE
          BY <1>6, <3>1 DEF Create
        <4>. QED BY <4>1, <4>2
      <3>2. CASE caller[c].op # "suricata"
        <4>1. UNCHANGED <<consumer, got, inOrder, halved, raced>>
          BY <1>6, <3>2 DEF Create
        <4>. QED BY <4>1 DEF TypeOK
      <3>. QED BY <3>1, <3>2
    <2>. QED BY <1>6, <2>1, <2>2, <2>3 DEF TypeOK, Create
  <1>7. ASSUME NEW c \in Callers, Launch(c)
        PROVE  TypeOK'
    <2>1. caller' \in [Callers -> CallerStates]
      BY <1>7, AnswerType DEF Launch
    <2>2. CASE thread # NoThread /\ loop[thread].at = "new"
      <3> DEFINE place == IF loop[thread].mode = "suricata" THEN "top" ELSE "sniff"
      <3>1. [loop[thread] EXCEPT !.at = place] \in LoopStates
        BY <2>2, LoopGoto DEF TypeOK
      <3>2. loop' = [loop EXCEPT ![thread] = [loop[thread] EXCEPT !.at = place]]
        BY <1>7, <2>2 DEF Launch
      <3>3. loop' \in [Threads -> LoopStates]
        BY <3>1, <3>2 DEF TypeOK
      <3>. QED BY <1>7, <2>1, <3>3 DEF TypeOK, Launch
    <2>3. CASE ~(thread # NoThread /\ loop[thread].at = "new")
      BY <1>7, <2>1, <2>3 DEF TypeOK, Launch
    <2>. QED BY <2>2, <2>3
  <1>8. ASSUME NEW t \in Threads, OpenBatch(t)
        PROVE  TypeOK'
    <2>1. loop' = loop \/ \E r \in LoopStates : loop' = [loop EXCEPT ![t] = r]
      BY <1>8, Opened
    <2>2. loop' \in [Threads -> LoopStates]
      BY <2>1 DEF TypeOK
    <2>. QED BY <1>8, <2>2 DEF TypeOK, OpenBatch
  <1>9. ASSUME NEW t \in Threads, ReadLine(t)
        PROVE  TypeOK'
    <2>1. CASE BatchOver(t) \/ consumer = NoConsumer
      <3>1. loop[t].mode \in Modes \cup {"none"}
        BY DEF TypeOK, LoopStates
      <3>2. Parked("top", loop[t].mode) \in LoopStates
        BY <3>1, ParkedType
      <3>3. loop' = [loop EXCEPT ![t] = Parked("top", loop[t].mode)]
        BY <1>9, <2>1 DEF ReadLine
      <3>4. loop' \in [Threads -> LoopStates]
        BY <3>2, <3>3 DEF TypeOK
      <3>. QED BY <1>9, <2>1, <3>4 DEF TypeOK, ReadLine
    <2>2. CASE ~(BatchOver(t) \/ consumer = NoConsumer)
      <3>1. loop[t] \in LoopStates /\ loop[t].left # 0
        BY <2>2 DEF TypeOK, BatchOver
      <3>2. AfterLine(t) \in LoopStates /\ LineLength(t) \in {1, 2}
        BY <3>1, LineTaken
      <3>3. /\ loop' = [loop EXCEPT ![t] = AfterLine(t)]
            /\ consumer' = [consumer EXCEPT !.offset = AdvanceTo(t)]
            /\ halved' = halved \cup {i \in {loop[t].pos + 2} : HalfLine(t) /\ ~raced}
        BY <1>9, <2>2 DEF ReadLine
      <3>4. loop' \in [Threads -> LoopStates]
        BY <3>2, <3>3 DEF TypeOK
      <3>5. loop[t].pos + 2 \in Nat /\ AdvanceTo(t) \in Nat
        BY <3>1, <3>2 DEF LoopStates, AdvanceTo
      <3>6. consumer' \in [path : Paths, offset : Nat]
        <4>1. consumer \in [path : Paths, offset : Nat]
          BY <2>2 DEF TypeOK
        <4>. QED BY <3>3, <3>5, <4>1
      <3>7. halved' \subseteq Nat
        BY <3>3, <3>5 DEF TypeOK
      <3>. QED BY <1>9, <3>4, <3>6, <3>7 DEF TypeOK, ReadLine
    <2>. QED BY <2>1, <2>2
  <1>10. ASSUME NEW t \in Threads, AppendLine(t)
         PROVE  TypeOK'
    <2>1. [loop[t] EXCEPT !.at = "batch"] \in LoopStates
      BY LoopGoto DEF TypeOK
    <2>2. loop' \in [Threads -> LoopStates]
      BY <1>10, <2>1 DEF TypeOK, AppendLine
    <2>3. got' \subseteq Nat /\ inOrder' \in BOOLEAN
      <3>1. loop[t].pos \in Nat
        BY DEF TypeOK, LoopStates
      <3>2. CASE raced
        BY <1>10, <3>2 DEF TypeOK, AppendLine
      <3>3. CASE ~raced
        <4>1. got' = got \cup {loop[t].pos} /\ (inOrder' = (inOrder /\ \A i \in got : i < loop[t].pos))
          BY <1>10, <3>3, Zenon DEF AppendLine
        <4>2. inOrder' \in BOOLEAN
          BY <4>1, Zenon
        <4>. QED BY <3>1, <4>1, <4>2 DEF TypeOK
      <3>. QED BY <3>2, <3>3
    <2>. QED BY <1>10, <2>2, <2>3, AppendType DEF TypeOK, AppendLine
  <1>11. ASSUME NEW t \in Threads, Packet(t) \/ SniffFails(t)
         PROVE  TypeOK'
    <2>1. [loop[t] EXCEPT !.at = "dead"] \in LoopStates
      BY LoopGoto DEF TypeOK
    <2>2. loop' \in [Threads -> LoopStates]
      BY <1>11, <2>1 DEF TypeOK, Packet, SniffFails
    <2>3. buffer' \in Seq(Nat) /\ seq' \in Nat
      BY <1>11, AppendType DEF TypeOK, Packet, SniffFails
    <2>. QED BY <1>11, <2>2, <2>3 DEF TypeOK, Packet, SniffFails
  <1>12. ASSUME NEW p \in Paths, WriteLine(p) \/ Rotate(p) \/ Truncate(p) \/ Rebind(p)
         PROVE  TypeOK'
    <2>1. CASE WriteLine(p)
      <3>1. PICK f \in Files, piece \in Pieces :
              /\ file' = [file EXCEPT ![p] = f] /\ lines' = [lines EXCEPT ![f] = Append(lines[f], piece)]
              /\ UNCHANGED <<ring, ctl, tail, loop, caller, cursor>>
        BY <2>1, LineWritten
      <3>2. Append(lines[f], piece) \in Seq(Pieces)
        BY DEF TypeOK
      <3>3. lines' \in [Files -> Seq(Pieces)] /\ file' \in [Paths -> Files \cup {NoFile}]
        BY <3>1, <3>2 DEF TypeOK
      <3>. QED BY <3>1, <3>3 DEF TypeOK
    <2>2. CASE Rebind(p)
      <3>1. raced' \in BOOLEAN
        BY <2>2, Zenon DEF TypeOK, Rebind
      <3>2. /\ consumer' = [path |-> p, offset |-> 0]  /\ got' = {}  /\ inOrder' = TRUE  /\ halved' = {}
            /\ UNCHANGED <<buffer, seq, running, stopSet, thread, lines, file, loop, caller, cursor>>
        BY <2>2 DEF Rebind, logs
      <3>. QED BY <3>1, <3>2 DEF TypeOK
    <2>3. CASE Rotate(p) \/ Truncate(p)
      <3>1. /\ raced' \in BOOLEAN /\ inOrder' \in BOOLEAN /\ got' \subseteq Nat /\ halved' \subseteq Nat
            /\ UNCHANGED <<buffer, seq, running, stopSet, thread, consumer, loop, caller, cursor>>
        BY <2>3 DEF TypeOK, Rotate, Truncate, Replace
      <3>2. file' \in [Paths -> Files \cup {NoFile}]
        BY <2>3 DEF TypeOK, Rotate, Truncate
      <3>3. lines' \in [Files -> Seq(Pieces)]
        <4>1. CASE lines' = lines
          BY <4>1 DEF TypeOK
        <4>2. CASE lines' = [lines EXCEPT ![file[p]] = <<>>]
          <5>1. <<>> \in Seq(Pieces)
            OBVIOUS
          <5>. QED BY <4>2, <5>1 DEF TypeOK
        <4>. QED BY <2>3, <4>1, <4>2 DEF Rotate, Truncate
      <3>. QED BY <3>1, <3>2, <3>3 DEF TypeOK
    <2>. QED BY <1>12, <2>1, <2>2, <2>3
  <1>13. ASSUME NEW p \in Pollers, Poll(p)
         PROVE  TypeOK'
    <2>1. PICK id \in RowsSince(cursor[p]) : cursor' = [cursor EXCEPT ![p] = id]
      BY <1>13 DEF Poll
    <2>2. id \in Nat
      BY <2>1 DEF TypeOK, RowsSince, LastRows
    <2>. QED BY <1>13, <2>1, <2>2 DEF TypeOK, Poll
  <1>14. CASE Clear
    BY <1>14 DEF TypeOK, Clear
  <1>15. CASE UNCHANGED vars
    BY <1>15 DEF TypeOK, vars
  <1>. QED BY <1>1, <1>2, <1>3, <1>4, <1>5, <1>6, <1>7, <1>8, <1>9, <1>10, <1>11, <1>12,
              <1>13, <1>14, <1>15 DEF Next, Handler, EveLoop

\* Every variable keeps its type, for any number of handlers, threads and files.
THEOREM TypesHold == Spec => []TypeOK
  BY TypeInit, TypeStep, PTL DEF Spec

-----------------------------------------------------------------------------
(* Requests that take turns and joins that wait.  Where the one handler is  *)
(* in start or stop says which ingest threads can be alive; that leaves one *)
(* thread at most, and one thread alone keeps the offset in step.           *)

OneAtATime == (\A c, d \in Callers : c = d) /\ ~JoinTimesOut

Solo     == \A t, u \in Alive : t = u
Sniffers == \A t \in Threads : loop[t].at = "sniff" => loop[t].mode # "suricata"
Asked    == running => Callers # {}

\* Between requests the only thread alive is the one in _thread, and a feed
\* that says it runs has it, with the Event lowered.
Fielded == thread # NoThread /\ (loop[thread].mode = "suricata" => thread \in Alive)
Resting(c) == At(c, "idle") => /\ \A t \in Alive : t = thread
                               /\ running => ~stopSet /\ Fielded
\* During the join it is the thread being joined; after it, none is alive.
Joining(c) == At(c, "join") => /\ ~running  /\ caller[c].joins = thread
                               /\ \A t \in Alive : t = thread
Emptied(c) == caller[c].at \in {"detach", "arm", "create", "launch"} => Alive = {}
Halted(c)  == At(c, "detach") => ~running
Serving(c) == caller[c].at \in {"arm", "create", "launch"} => caller[c].op # "stop"
Armed(c)   == caller[c].at \in {"create", "launch"} => ~stopSet
Created(c) == At(c, "launch") => thread = caller[c].new
\* The Thread object a start will launch is made and not yet running.
Ready(c)   == caller[c].at # "idle" /\ caller[c].op # "stop" =>
  /\ caller[c].new \in Threads
  /\ loop[caller[c].new].at = "new"  /\ loop[caller[c].new].mode = caller[c].op

Turn(c)  == /\ Resting(c)  /\ Joining(c)  /\ Emptied(c)  /\ Halted(c)
            /\ Serving(c)  /\ Armed(c)    /\ Created(c)  /\ Ready(c)
TurnInv  == TypeOK /\ Solo /\ Sniffers /\ Asked /\ \A c \in Callers : Turn(c)

LEMMA Went ==
  ASSUME TypeOK, NEW c \in Callers, NEW place, Goto(c, place)
  PROVE  /\ caller'[c].at = place  /\ caller'[c].op = caller[c].op
         /\ caller'[c].joins = caller[c].joins  /\ caller'[c].new = caller[c].new
  BY DEF TypeOK, Goto, CallerStates

LEMMA Answered ==
  ASSUME TypeOK, NEW c \in Callers, Answer(c)
  PROVE  caller'[c].at = "idle" /\ caller'[c].op = "stop"
  BY DEF TypeOK, Answer, NoCall

LEMMA TurnOfOne ==
  ASSUME OneAtATime, NEW c \in Callers, Turn(c)', TypeOK', Solo', Sniffers'
  PROVE  TurnInv'
  <1>1. \A d \in Callers : d = c
    BY DEF OneAtATime
  <1>2. Asked'
    BY DEF Asked
  <1>. QED BY <1>1, <1>2 DEF TurnInv

LEMMA TurnInit == Init => TurnInv
  <1> SUFFICES ASSUME Init
               PROVE  TurnInv
    OBVIOUS
  <1>1. TypeOK
    BY TypeInit
  <1>2. Alive = {} /\ \A t \in Threads : loop[t].at # "sniff"
    BY DEF Init, Alive, Parked
  <1>3. Solo /\ Sniffers /\ Asked
    BY <1>2 DEF Init, Solo, Sniffers, Asked
  <1>4. ASSUME NEW c \in Callers
        PROVE  Turn(c)
    BY <1>2 DEF Init, NoCall, Turn, Resting, Joining, Emptied, Halted, Serving, Armed, Created, Ready, At
  <1>. QED BY <1>1, <1>3, <1>4 DEF TurnInv

-----------------------------------------------------------------------------
(* What the steps of the loops, and of files and clients, leave in place.   *)

\* No thread comes to life or changes its mode, none is launched, and one that
\* tails lives on while the Event is down.
LoopsRun ==
  /\ \A t \in Threads : /\ loop'[t].mode = loop[t].mode
                        /\ t \in Alive' => t \in Alive
                        /\ loop[t].at = "new" => loop'[t].at = "new"
                        /\ loop'[t].at = "sniff" => loop[t].at = "sniff"
                        /\ t \in Alive /\ loop[t].mode = "suricata" /\ ~stopSet => t \in Alive'
  /\ UNCHANGED <<ctl, caller>>

\* A thread that moves to another place of its loop.
LEMMA OneThreadMoves ==
  ASSUME TypeOK, NEW t \in Threads, NEW r \in LoopStates, loop' = [loop EXCEPT ![t] = r],
         t \in Alive, r.mode = loop[t].mode, r.at \notin {"unborn", "new"},
         r.at = "sniff" => loop[t].at = "sniff",
         r.at = "dead" => stopSet \/ loop[t].mode # "suricata",
         UNCHANGED <<ctl, caller>>
  PROVE  LoopsRun
  <1>1. loop'[t] = r /\ \A u \in Threads : u # t => loop'[u] = loop[u]
    BY DEF TypeOK
  <1>2. loop[t].at \in {"top", "batch", "row", "sniff"}
    BY DEF Alive
  <1>3. r.at # "dead" => r.at \in {"top", "batch", "row", "sniff"}
    BY DEF LoopStates
  <1>4. \A u \in Threads : (u \in Alive <=> loop[u].at \in {"top", "batch", "row", "sniff"})
    BY DEF Alive
  <1>5. \A u \in Threads : (u \in Alive' <=> loop'[u].at \in {"top", "batch", "row", "sniff"})
    BY DEF Alive
  <1>. QED BY <1>1, <1>2, <1>3, <1>4, <1>5 DEF LoopsRun

LEMMA LoopsStand ==
  ASSUME UNCHANGED <<loop, ctl, caller>>
  PROVE  LoopsRun
  BY DEF LoopsRun, Alive

LEMMA LoopStepsRun ==
  ASSUME TypeOK, Sniffers, NEW t \in Threads, EveLoop(t) \/ Packet(t) \/ SniffFails(t)
  PROVE  LoopsRun
  <1>0. loop[t] \in LoopStates
    BY DEF TypeOK
  <1>1. CASE OpenBatch(t)
    <2>1. t \in Alive /\ UNCHANGED <<ctl, caller>>
      BY <1>1 DEF OpenBatch, Alive
    <2>2. CASE stopSet /\ loop' = [loop EXCEPT ![t] = Parked("dead", loop[t].mode)]
      <3>1. loop[t].mode \in Modes \cup {"none"}
        BY <1>0 DEF LoopStates
      <3>2. /\ Parked("dead", loop[t].mode) \in LoopStates
            /\ Parked("dead", loop[t].mode).at = "dead" /\ Parked("dead", loop[t].mode).mode = loop[t].mode
        BY <3>1, ParkedType
      <3>. QED BY <2>1, <2>2, <3>2, OneThreadMoves
    <2>3. CASE loop' = loop
      BY <2>1, <2>3, LoopsStand
    <2>4. ASSUME NEW r \in LoopStates, loop' = [loop EXCEPT ![t] = r], r.at = "batch", r.mode = loop[t].mode
          PROVE  LoopsRun
      BY <2>1, <2>4, OneThreadMoves
    <2>. QED BY <1>1, <2>2, <2>3, <2>4, Opened
  <1>2. CASE ReadLine(t)
    <2>1. t \in Alive /\ UNCHANGED <<ctl, caller>>
      BY <1>2 DEF ReadLine, Alive
    <2>2. CASE BatchOver(t) \/ consumer = NoConsumer
      <3>1. loop' = [loop EXCEPT ![t] = Parked("top", loop[t].mode)]
        BY <1>2, <2>2 DEF ReadLine
      <3>2. loop[t].mode \in Modes \cup {"none"}
        BY <1>0 DEF LoopStates
      <3>3. /\ Parked("top", loop[t].mode) \in LoopStates
            /\ Parked("top", loop[t].mode).at = "top" /\ Parked("top", loop[t].mode).mode = loop[t].mode
        BY <3>2, ParkedType
      <3>. QED BY <2>1, <3>1, <3>3, OneThreadMoves
    <2>3. CASE ~(BatchOver(t) \/ consumer = NoConsumer)
      <3>1. loop[t].left # 0
        BY <2>3 DEF BatchOver
      <3>2. AfterLine(t) \in LoopStates /\ AfterLine(t).mode = loop[t].mode /\ AfterLine(t).at \in {"top", "batch", "row"}
        BY <3>1, LineTaken
      <3>3. loop' = [loop EXCEPT ![t] = AfterLine(t)]
        BY <1>2, <2>3 DEF ReadLine
      <3>. QED BY <2>1, <3>2, <3>3, OneThreadMoves
    <2>. QED BY <2>2, <2>3
  <1>3. CASE AppendLine(t)
    <2>1. t \in Alive /\ UNCHANGED <<ctl, caller>>
      BY <1>3 DEF AppendLine, Alive
    <2>2. loop' = [loop EXCEPT ![t] = [loop[t] EXCEPT !.at = "batch"]]
      BY <1>3 DEF AppendLine
    <2>3. [loop[t] EXCEPT !.at = "batch"] \in LoopStates
      BY <1>0, LoopGoto
    <2>4. [loop[t] EXCEPT !.at = "batch"].at = "batch" /\ [loop[t] EXCEPT !.at = "batch"].mode = loop[t].mode
      BY <1>0 DEF LoopStates
    <2>. QED BY <2>1, <2>2, <2>3, <2>4, OneThreadMoves
  <1>4. CASE Packet(t) \/ SniffFails(t)
    <2>1. t \in Alive /\ loop[t].mode # "suricata" /\ UNCHANGED <<ctl, caller>>
      BY <1>4 DEF Packet, SniffFails, Alive, Sniffers
    <2>2. CASE loop' = loop
      BY <2>1, <2>2, LoopsStand
    <2>3. CASE loop' = [loop EXCEPT ![t].at = "dead"]
      <3>1. [loop[t] EXCEPT !.at = "dead"] \in LoopStates
        BY <1>0, LoopGoto
      <3>2. [loop[t] EXCEPT !.at = "dead"].at = "dead" /\ [loop[t] EXCEPT !.at = "dead"].mode = loop[t].mode
        BY <1>0 DEF LoopStates
      <3>. QED BY <2>1, <2>3, <3>1, <3>2, OneThreadMoves
    <2>. QED BY <1>4, <2>2, <2>3 DEF Packet, SniffFails
  <1>. QED BY <1>1, <1>2, <1>3, <1>4 DEF EveLoop

\* Such a step leaves the handler's turn as it is.
LEMMA TurnWhileLoopsRun ==
  ASSUME TurnInv, TypeOK', LoopsRun
  PROVE  TurnInv'
  <1> USE DEF ctl
  <1>1. \A t \in Alive' : t \in Alive /\ t \in Threads
    BY DEF LoopsRun, Alive
  <1>2. Solo' /\ Sniffers' /\ Asked'
    BY <1>1 DEF TurnInv, Solo, Sniffers, Asked, LoopsRun
  <1>3. ASSUME NEW c \in Callers
        PROVE  Turn(c)'
    <2>0. Turn(c) /\ caller' = caller /\ running' = running /\ stopSet' = stopSet /\ thread' = thread
      BY DEF TurnInv, LoopsRun
    <2>1. ASSUME ~stopSet, Fielded
          PROVE  Fielded'
      <3>1. thread \in Threads /\ loop'[thread].mode = loop[thread].mode
        BY <2>1 DEF TurnInv, TypeOK, Fielded, LoopsRun
      <3>. QED BY <2>0, <2>1, <3>1 DEF Fielded, LoopsRun
    <2>2. Resting(c)'
      BY <1>1, <2>0, <2>1 DEF Turn, Resting, At
    <2>3. Joining(c)' /\ Emptied(c)'
      BY <1>1, <2>0 DEF Turn, Joining, Emptied, At
    <2>4. Halted(c)' /\ Serving(c)' /\ Armed(c)' /\ Created(c)'
      BY <2>0 DEF Turn, Halted, Serving, Armed, Created, At
    <2>5. Ready(c)'
      BY <2>0 DEF Turn, Ready, LoopsRun
    <2>. QED BY <2>2, <2>3, <2>4, <2>5 DEF Turn
  <1>. QED BY <1>2, <1>3 DEF TurnInv

-----------------------------------------------------------------------------
(* The steps of the handler.                                               *)

LEMMA TurnBegins ==
  ASSUME OneAtATime, TurnInv, TypeOK', NEW c \in Callers, NEW op \in Modes \cup {"stop"},
         NEW new \in Threads \cup {NoThread}, BeginStop(c, op, new), UNCHANGED thread,
         \A t \in Alive' : t \in Alive, Sniffers',
         op # "stop" => new \in Threads /\ loop'[new].at = "new" /\ loop'[new].mode = op
  PROVE  TurnInv'
  <1>1. Solo'
    BY DEF TurnInv, Solo
  <1>2. caller'[c] = [at |-> "join", op |-> op, joins |-> thread, new |-> new]
    BY DEF BeginStop, TurnInv, TypeOK
  <1>3. (\A t \in Alive : t = thread) /\ running' = FALSE /\ thread' = thread
    BY DEF TurnInv, Turn, Resting, BeginStop
  <1>4. Turn(c)'
    BY <1>2, <1>3 DEF Turn, Resting, Joining, Emptied, Halted, Serving, Armed, Created, Ready, At
  <1>. QED BY <1>1, <1>4, TurnOfOne

LEMMA TurnStops ==
  ASSUME OneAtATime, TurnInv, TypeOK', NEW c \in Callers, CallStop(c)
  PROVE  TurnInv'
  <1>1. loop' = loop /\ thread' = thread /\ BeginStop(c, "stop", NoThread)
    BY DEF CallStop
  <1>2. Alive' = Alive /\ Sniffers'
    BY <1>1 DEF TurnInv, Sniffers, Alive
  <1>. QED BY <1>1, <1>2, TurnBegins

LEMMA TurnStarts ==
  ASSUME OneAtATime, TurnInv, TypeOK', NEW c \in Callers, NEW m \in Modes, CallStart(c, m)
  PROVE  TurnInv'
  <1>1. PICK t \in Threads : /\ BeginStop(c, m, t)
                             /\ loop' = [loop EXCEPT ![t].at = "new", ![t].mode = m]
                             /\ thread' = thread
    BY DEF CallStart
  <1>2. /\ loop'[t].at = "new" /\ loop'[t].mode = m
        /\ \A u \in Threads : u # t => loop'[u] = loop[u]
    BY <1>1 DEF TurnInv, TypeOK, LoopStates
  <1>3. (\A u \in Alive' : u \in Alive) /\ Sniffers'
    BY <1>2 DEF TurnInv, Sniffers, Alive
  <1>. QED BY <1>1, <1>2, <1>3, TurnBegins

LEMMA TurnHandles ==
  ASSUME OneAtATime, TurnInv, TypeOK', NEW c \in Callers, Handler(c), ~Launch(c)
  PROVE  TurnInv'
  <1> USE DEF ctl
  <1>0. TypeOK /\ Turn(c) /\ loop' = loop
    BY DEF TurnInv, Handler, JoinThread, Detach, Arm, Create
  <1>1. Alive' = Alive /\ Solo' /\ Sniffers'
    BY <1>0 DEF TurnInv, Solo, Sniffers, Alive
  <1>2. CASE JoinThread(c)
    <2>1. /\ At(c, "join") /\ caller[c].joins \notin Alive /\ Goto(c, "detach")
          /\ UNCHANGED <<running, stopSet, thread>>
      BY <1>2 DEF JoinThread, JoinReturns, OneAtATime
    <2>2. Alive = {} /\ ~running
      BY <1>0, <2>1 DEF Turn, Joining
    <2>3. Turn(c)'
      BY <1>0, <1>1, <2>1, <2>2, Went
         DEF Turn, Resting, Joining, Emptied, Halted, Serving, Armed, Created, Ready, At
    <2>. QED BY <1>1, <2>3, TurnOfOne
  <1>3. CASE Detach(c)
    <2>1. At(c, "detach") /\ running' = running /\ ~running /\ Alive = {}
      BY <1>0, <1>3 DEF Detach, Turn, Halted, Emptied, At
    <2>2. CASE caller[c].op = "stop"
      <3>1. Answer(c)
        BY <1>3, <2>2 DEF Detach
      <3>. QED BY <1>0, <1>1, <2>1, <3>1, Answered, TurnOfOne
               DEF Turn, Resting, Joining, Emptied, Halted, Serving, Armed, Created, Ready, At
    <2>3. CASE caller[c].op # "stop"
      <3>1. Goto(c, "arm")
        BY <1>3, <2>3 DEF Detach
      <3>. QED BY <1>0, <1>1, <2>1, <2>3, <3>1, Went, TurnOfOne
               DEF Turn, Resting, Joining, Emptied, Halted, Serving, Armed, Created, Ready, At
    <2>. QED BY <2>2, <2>3
  <1>4. CASE Arm(c)
    <2>1. At(c, "arm") /\ stopSet' = FALSE /\ Goto(c, "create") /\ Alive = {}
      BY <1>0, <1>4 DEF Arm, Turn, Emptied, At
    <2>. QED BY <1>0, <1>1, <2>1, Went, TurnOfOne
             DEF Turn, Resting, Joining, Emptied, Halted, Serving, Armed, Created, Ready, At
  <1>5. CASE Create(c)
    <2>1. /\ At(c, "create") /\ thread' = caller[c].new /\ Goto(c, "launch")
          /\ UNCHANGED <<running, stopSet>> /\ Alive = {}
      BY <1>0, <1>5 DEF Create, Turn, Emptied, At
    <2>. QED BY <1>0, <1>1, <2>1, Went, TurnOfOne
             DEF Turn, Resting, Joining, Emptied, Halted, Serving, Armed, Created, Ready, At
  <1>. QED BY <1>2, <1>3, <1>4, <1>5 DEF Handler

LEMMA TurnLaunches ==
  ASSUME OneAtATime, TurnInv, TypeOK', NEW c \in Callers, Launch(c)
  PROVE  TurnInv'
  <1> USE DEF ctl
  <1>0. TypeOK /\ Turn(c) /\ At(c, "launch") /\ Answer(c) /\ UNCHANGED <<running, stopSet, thread>>
    BY DEF TurnInv, Launch
  <1>1. /\ Alive = {}  /\ ~stopSet  /\ thread \in Threads
        /\ loop[thread].at = "new"
    BY <1>0 DEF Turn, Emptied, Armed, Created, Ready, Serving, At
  <1>2. thread # NoThread
    BY <1>1, BoundsAssumption DEF Threads, NoThread
  <1>3. loop' = [loop EXCEPT ![thread].at = IF loop[thread].mode = "suricata" THEN "top" ELSE "sniff"]
    BY <1>1, <1>2 DEF Launch
  <1>4. /\ loop'[thread].mode = loop[thread].mode
        /\ loop'[thread].at = IF loop[thread].mode = "suricata" THEN "top" ELSE "sniff"
        /\ \A u \in Threads : u # thread => loop'[u] = loop[u]
    BY <1>0, <1>1, <1>3 DEF TypeOK, LoopStates
  <1>5. Alive' = {thread}
    BY <1>1, <1>4 DEF Alive
  <1>6. Solo' /\ Sniffers'
    BY <1>4, <1>5 DEF TurnInv, Solo, Sniffers
  <1>7. Turn(c)'
    BY <1>0, <1>1, <1>2, <1>4, <1>5, Answered
       DEF Turn, Resting, Fielded, Joining, Emptied, Halted, Serving, Armed, Created, Ready, At
  <1>. QED BY <1>6, <1>7, TurnOfOne

LEMMA TurnStep == OneAtATime /\ TurnInv /\ [Next]_vars => TurnInv'
  <1> SUFFICES ASSUME OneAtATime, TurnInv, [Next]_vars
               PROVE  TurnInv'
    OBVIOUS
  <1>0. TypeOK /\ Sniffers /\ TypeOK'
    BY TypeStep DEF TurnInv
  <1>1. ASSUME NEW c \in Callers, CallStop(c) \/ Handler(c) \/ \E m \in Modes : CallStart(c, m)
        PROVE  TurnInv'
    BY <1>0, <1>1, TurnStops, TurnStarts, TurnHandles, TurnLaunches
  <1>2. ASSUME NEW t \in Threads, EveLoop(t) \/ Packet(t) \/ SniffFails(t)
        PROVE  TurnInv'
    <2>1. LoopsRun
      BY <1>0, <1>2, LoopStepsRun
    <2>. QED BY <1>0, <2>1, TurnWhileLoopsRun
  <1>3. ASSUME UNCHANGED <<loop, ctl, caller>>
        PROVE  TurnInv'
    BY <1>0, <1>3, LoopsStand, TurnWhileLoopsRun
  <1>4. ASSUME NEW p \in Paths, WriteLine(p) \/ Rotate(p) \/ Truncate(p) \/ Rebind(p)
        PROVE  TurnInv'
    <2>1. UNCHANGED <<loop, ctl, caller>>
      BY <1>4 DEF WriteLine, Rotate, Truncate, Replace, Rebind, ctl
    <2>. QED BY <1>3, <2>1
  <1>5. CASE \E p \in Pollers : Poll(p)
    BY <1>3, <1>5 DEF Poll
  <1>6. CASE Clear \/ UNCHANGED vars
    BY <1>3, <1>6 DEF Clear, vars
  <1>. QED BY <1>1, <1>2, <1>4, <1>5, <1>6 DEF Next

\* Requests that take turns and joins that wait: never two ingest threads, so
\* none is left running on the Event that a restart lowers, and a feed that
\* says it runs has its thread, alive if it tails.
THEOREM FeedStaysFed == OneAtATime /\ Spec => []Fed
  <1>1. TurnInv => Fed
    <2> SUFFICES ASSUME TurnInv
                 PROVE  OneIngestThread /\ RunningIsFed
      BY DEF Fed
    <2>1. OneIngestThread
      BY DEF TurnInv, Solo, OneIngestThread
    <2>2. RunningIsFed
      BY DEF TurnInv, Asked, Turn, Resting, Fielded, RunningIsFed
    <2>. QED BY <2>1, <2>2
  <1>2. CASE OneAtATime
    <2>1. TurnInv /\ [Next]_vars => TurnInv'
      BY <1>2, TurnStep
    <2>. QED BY <1>1, <2>1, TurnInit, PTL DEF Spec
  <1>. QED BY <1>2

-----------------------------------------------------------------------------
(* The files.  A tail follows a head and nothing else does, and no two       *)
(* paths name one file.                                                      *)

Formed(s) == \A i \in 1 .. Len(s) : (s[i] = "tail") <=> (i > 1 /\ s[i - 1] = "head")
FilesInv  == /\ \A f \in Files : Formed(lines[f])
             /\ \A p, q \in Paths : file[p] = file[q] /\ file[p] # NoFile => p = q

LEMMA FormedAppend ==
  ASSUME NEW s \in Seq(Pieces), NEW piece \in Pieces, Formed(s),
         piece = "tail" <=> (s # <<>> /\ s[Len(s)] = "head")
  PROVE  Formed(Append(s, piece))
  <1> DEFINE r == Append(s, piece)
  <1>1. /\ Len(r) = Len(s) + 1 /\ Len(s) \in Nat /\ r[Len(s) + 1] = piece
        /\ \A i \in 1 .. Len(s) : r[i] = s[i]
    OBVIOUS
  <1>2. (s # <<>>) <=> (Len(s) > 0)
    BY EmptySeq
  <1>3. ASSUME NEW i \in 1 .. Len(s)
        PROVE  (r[i] = "tail") <=> (i > 1 /\ r[i - 1] = "head")
    <2>1. r[i] = s[i] /\ (i > 1 => r[i - 1] = s[i - 1])
      BY <1>1
    <2>. QED BY <2>1 DEF Formed
  <1>4. (r[Len(s) + 1] = "tail") <=> (Len(s) + 1 > 1 /\ r[Len(s) + 1 - 1] = "head")
    <2>1. Len(s) > 0 => r[Len(s) + 1 - 1] = s[Len(s)]
      BY <1>1
    <2>. QED BY <1>1, <1>2, <2>1
  <1> HIDE DEF r
  <1>5. ASSUME NEW i \in 1 .. Len(r)
        PROVE  (r[i] = "tail") <=> (i > 1 /\ r[i - 1] = "head")
    <2>1. CASE i \in 1 .. Len(s)
      BY <1>3, <2>1
    <2>2. CASE i = Len(s) + 1
      BY <1>4, <2>2
    <2>. QED BY <1>1, <2>1, <2>2
  <1>. QED BY <1>5 DEF Formed, r

\* What a write does to the file it is for, and to no other.
LEMMA WriteFacts ==
  ASSUME TypeOK, FilesInv, NEW p \in Paths, WriteLine(p)
  PROVE  \E f \in Files, piece \in Pieces :
           /\ file[p] = NoFile \/ file[p] = f
           /\ \A q \in Paths \ {p} : file[q] # f
           /\ piece = "tail" <=> (lines[f] # <<>> /\ lines[f][Len(lines[f])] = "head")
           /\ file' = [file EXCEPT ![p] = f] /\ lines' = [lines EXCEPT ![f] = Append(lines[f], piece)]
           /\ UNCHANGED <<tail, loop>>
  <1>1. PICK f \in Target(p), piece \in Pieces :
           /\ f \in Files /\ (piece = "tail" <=> Torn(f))
           /\ file' = [file EXCEPT ![p] = f] /\ lines' = [lines EXCEPT ![f] = Append(lines[f], piece)]
           /\ UNCHANGED <<ring, ctl, tail, loop, caller, cursor>>
    BY LineWritten
  <1>2. file[p] = NoFile \/ file[p] = f
    BY <1>1 DEF Target
  <1>3. \A q \in Paths \ {p} : file[q] # f
    <2>1. CASE file[p] # NoFile
      BY <1>2, <2>1 DEF FilesInv
    <2>2. CASE file[p] = NoFile
      BY <1>1, <2>2 DEF Target, Unused
    <2>. QED BY <2>1, <2>2
  <1>. QED BY <1>1, <1>2, <1>3 DEF Torn

LEMMA FilesInit == Init => FilesInv
  BY DEF Init, FilesInv, Formed

LEMMA FilesStep == TypeOK /\ FilesInv /\ [Next]_vars => FilesInv'
  <1> SUFFICES ASSUME TypeOK, FilesInv, [Next]_vars
               PROVE  FilesInv'
    OBVIOUS
  <1>0. lines \in [Files -> Seq(Pieces)] /\ file \in [Paths -> Files \cup {NoFile}]
    BY DEF TypeOK
  <1>1. ASSUME UNCHANGED <<lines, file>>
        PROVE  FilesInv'
    BY <1>1 DEF FilesInv
  <1>2. ASSUME NEW c \in Callers, CallStop(c) \/ Handler(c) \/ \E m \in Modes : CallStart(c, m)
        PROVE  FilesInv'
    BY <1>1, <1>2 DEF CallStop, CallStart, Handler, JoinThread, Detach, Arm, Create, Launch, logs
  <1>3. ASSUME NEW t \in Threads, EveLoop(t) \/ Packet(t) \/ SniffFails(t)
        PROVE  FilesInv'
    BY <1>1, <1>3 DEF EveLoop, OpenBatch, ReadLine, AppendLine, Packet, SniffFails, logs
  <1>4. ASSUME NEW p \in Paths, WriteLine(p)
        PROVE  FilesInv'
    <2>1. PICK f \in Files, piece \in Pieces :
           /\ file[p] = NoFile \/ file[p] = f
           /\ \A q \in Paths \ {p} : file[q] # f
           /\ piece = "tail" <=> (lines[f] # <<>> /\ lines[f][Len(lines[f])] = "head")
           /\ file' = [file EXCEPT ![p] = f] /\ lines' = [lines EXCEPT ![f] = Append(lines[f], piece)]
      BY <1>4, WriteFacts
    <2>2. Formed(Append(lines[f], piece))
      BY <1>0, <2>1, FormedAppend DEF FilesInv
    <2>3. \A g \in Files : lines'[g] = IF g = f THEN Append(lines[f], piece) ELSE lines[g]
      BY <1>0, <2>1
    <2>4. \A g \in Files : Formed(lines'[g])
      BY <2>2, <2>3 DEF FilesInv
    <2>5. \A q \in Paths : file'[q] = IF q = p THEN f ELSE file[q]
      BY <1>0, <2>1
    <2>6. \A q, r \in Paths : file'[q] = file'[r] /\ file'[q] # NoFile => q = r
      BY <2>1, <2>5 DEF FilesInv
    <2>. QED BY <2>4, <2>6 DEF FilesInv
  <1>5. ASSUME NEW p \in Paths, Rotate(p)
        PROVE  FilesInv'
    <2>1. lines' = lines /\ \A q \in Paths : file'[q] = IF q = p THEN NoFile ELSE file[q]
      BY <1>0, <1>5 DEF Rotate
    <2>. QED BY <2>1 DEF FilesInv
  <1>6. ASSUME NEW p \in Paths, Truncate(p)
        PROVE  FilesInv'
    <2>1. file' = file /\ \A g \in Files : lines'[g] = IF g = file[p] THEN <<>> ELSE lines[g]
      BY <1>0, <1>6 DEF Truncate
    <2>2. Formed(<<>>)
      BY DEF Formed
    <2>. QED BY <2>1, <2>2 DEF FilesInv
  <1>7. ASSUME NEW p \in Paths, Rebind(p)
        PROVE  FilesInv'
    BY <1>1, <1>7 DEF Rebind, logs
  <1>8. CASE Clear \/ UNCHANGED vars \/ \E p \in Pollers : Poll(p)
    BY <1>1, <1>8 DEF Clear, vars, Poll, logs
  <1>. QED BY <1>2, <1>3, <1>4, <1>5, <1>6, <1>7, <1>8 DEF Next

-----------------------------------------------------------------------------
(* A log s read up to its place n, with the tails h whose heads were read     *)
(* before them: the rows it owes, and what one more line adds to them.        *)

ReadTo(s, n, h) == /\ n <= Len(s)
                   /\ \A i \in h : i \in 2 .. n + 1 /\ s[i - 1] = "head"
                   /\ n > 0 /\ s[n] = "head" => n + 1 \in h
RowsOf(s, n, h) == {i \in 1 .. n : s[i] \in {"event", "tail"}} \ h

LEMMA NothingYet ==
  ASSUME NEW s \in Seq(Pieces)
  PROVE  ReadTo(s, 0, {}) /\ RowsOf(s, 0, {}) = {}
  BY DEF ReadTo, RowsOf

LEMMA LogGrows ==
  ASSUME NEW s \in Seq(Pieces), NEW piece \in Pieces, NEW n \in Nat, NEW h \in SUBSET Nat, ReadTo(s, n, h)
  PROVE  ReadTo(Append(s, piece), n, h) /\ RowsOf(Append(s, piece), n, h) = RowsOf(s, n, h)
  <1> DEFINE r == Append(s, piece)
  <1>1. Len(r) = Len(s) + 1 /\ Len(s) \in Nat /\ n <= Len(s) /\ \A i \in 1 .. Len(s) : r[i] = s[i]
    BY DEF ReadTo
  <1> HIDE DEF r
  <1>2. \A i \in 1 .. n : r[i] = s[i]
    BY <1>1
  <1>3. \A i \in h : i \in 2 .. n + 1 /\ r[i - 1] = "head"
    <2>1. TAKE i \in h
    <2>2. i \in 2 .. n + 1 /\ s[i - 1] = "head"
      BY DEF ReadTo
    <2>. QED BY <1>2, <2>2
  <1>4. n > 0 /\ r[n] = "head" => n + 1 \in h
    BY <1>2 DEF ReadTo
  <1>5. ReadTo(r, n, h)
    BY <1>1, <1>3, <1>4 DEF ReadTo
  <1>6. RowsOf(r, n, h) = RowsOf(s, n, h)
    BY <1>2 DEF RowsOf
  <1>. QED BY <1>5, <1>6 DEF r

\* One line more: a half line, a head with its tail, or a piece.
LEMMA LineMore ==
  ASSUME NEW s \in Seq(Pieces), NEW n \in Nat, NEW h \in SUBSET Nat, ReadTo(s, n, h), Formed(s), n < Len(s)
  PROVE  /\ s[n + 1] = "head" /\ n + 1 = Len(s) =>
              ReadTo(s, n + 1, h \cup {n + 2}) /\ RowsOf(s, n + 1, h \cup {n + 2}) = RowsOf(s, n, h)
         /\ s[n + 1] = "head" /\ n + 1 # Len(s) =>
              ReadTo(s, n + 2, h) /\ RowsOf(s, n + 2, h) = RowsOf(s, n, h) \cup {n + 2}
         /\ s[n + 1] = "event" =>
              ReadTo(s, n + 1, h) /\ RowsOf(s, n + 1, h) = RowsOf(s, n, h) \cup {n + 1}
         /\ s[n + 1] \notin {"event", "head"} =>
              ReadTo(s, n + 1, h) /\ RowsOf(s, n + 1, h) = RowsOf(s, n, h)
  <1>0. Len(s) \in Nat /\ n + 1 \in 1 .. Len(s)
    OBVIOUS
  <1>1. \A i \in h : i \in 2 .. n + 1 /\ s[i - 1] = "head"
    BY DEF ReadTo
  <1>2. n > 0 /\ s[n] = "head" => n + 1 \in h
    BY DEF ReadTo
  <1>3. (s[n + 1] = "tail") <=> (n > 0 /\ s[n] = "head")
    <2>1. (s[n + 1] = "tail") <=> (n + 1 > 1 /\ s[n + 1 - 1] = "head")
      BY <1>0 DEF Formed
    <2>2. n + 1 - 1 = n
      OBVIOUS
    <2>. QED BY <2>1, <2>2
  <1>4. n + 1 \in h => s[n + 1] = "tail"
    <2>1. n + 1 \in h => n + 1 > 1 /\ s[n + 1 - 1] = "head"
      BY <1>1
    <2>2. n + 1 - 1 = n
      OBVIOUS
    <2>. QED BY <1>3, <2>1, <2>2
  <1>5. s[n + 1] = "tail" => n + 1 \in h
    BY <1>2, <1>3
  <1>6. \A i \in h : i \in 2 .. n + 2 /\ i \in 2 .. n + 3
    BY <1>1
  <1>7. CASE s[n + 1] = "head" /\ n + 1 = Len(s)
    <2> DEFINE g == h \cup {n + 2}
    <2>1. \A i \in g : i \in 2 .. (n + 1) + 1 /\ s[i - 1] = "head"
      <3>1. n + 2 - 1 = n + 1 /\ n + 2 \in 2 .. (n + 1) + 1
        OBVIOUS
      <3>. QED BY <1>1, <1>6, <1>7, <3>1
    <2>2. ReadTo(s, n + 1, g)
      BY <1>0, <2>1 DEF ReadTo
    <2>3. RowsOf(s, n + 1, g) = RowsOf(s, n, h)
      BY <1>7 DEF RowsOf
    <2>. QED BY <1>7, <2>2, <2>3
  <1>8. CASE s[n + 1] = "head" /\ n + 1 # Len(s)
    <2>1. n + 2 \in 1 .. Len(s)
      BY <1>0, <1>8
    <2>2. s[n + 2] = "tail"
      <3>1. (s[n + 2] = "tail") <=> (n + 2 > 1 /\ s[n + 2 - 1] = "head")
        BY <2>1 DEF Formed
      <3>2. n + 2 - 1 = n + 1
        OBVIOUS
      <3>. QED BY <1>8, <3>1, <3>2
    <2>3. n + 2 \notin h
      BY <1>1
    <2>4. ReadTo(s, n + 2, h)
      BY <1>0, <1>1, <1>6, <2>1, <2>2 DEF ReadTo
    <2>5. RowsOf(s, n + 2, h) = RowsOf(s, n, h) \cup {n + 2}
      BY <1>8, <2>2, <2>3 DEF RowsOf
    <2>. QED BY <1>8, <2>4, <2>5
  <1>9. CASE s[n + 1] = "event"
    <2>1. n + 1 \notin h
      BY <1>4, <1>9
    <2>2. ReadTo(s, n + 1, h)
      BY <1>0, <1>1, <1>6, <1>9 DEF ReadTo
    <2>3. RowsOf(s, n + 1, h) = RowsOf(s, n, h) \cup {n + 1}
      BY <1>9, <2>1 DEF RowsOf
    <2>. QED BY <1>9, <2>2, <2>3
  <1>10. CASE s[n + 1] \notin {"event", "head"}
    <2>1. ReadTo(s, n + 1, h)
      BY <1>0, <1>1, <1>6, <1>10 DEF ReadTo
    <2>2. RowsOf(s, n + 1, h) = RowsOf(s, n, h)
      BY <1>5, <1>10 DEF RowsOf
    <2>. QED BY <1>10, <2>1, <2>2
  <1>. QED BY <1>7, <1>8, <1>9, <1>10

-----------------------------------------------------------------------------
(* The offset.  A thread in a batch has read up to the offset it leaves in  *)
(* the consumer, and between reading a line and appending its row it owes   *)
(* that one row.                                                            *)

InRow(t)   == loop[t].at = "row"
InBatch(t) == loop[t].at = "batch"
MidBatch(t) == InRow(t) \/ InBatch(t)

Here    == file[consumer.path]
Moored  == IF Here = NoFile THEN consumer.offset = 0 /\ got = {} /\ halved = {}
                            ELSE ReadTo(lines[Here], consumer.offset, halved)
Follows == \A t \in Threads : MidBatch(t) =>
             loop[t].pos = consumer.offset /\ loop[t].file = Here /\ Here # NoFile
Owing   == \A t \in Threads : InRow(t) =>
             /\ \A i \in got : i < consumer.offset
             /\ got \cup {consumer.offset} = RowsOf(lines[Here], consumer.offset, halved)
Paid    == (\A t \in Threads : ~InRow(t)) => got = RowsOf(lines[Here], consumer.offset, halved)
InStep  == inOrder /\ Moored /\ Follows /\ Owing /\ Paid
OffsetInv == consumer # NoConsumer /\ ~raced => InStep

\* A step that moves no thread into or out of a batch and leaves offset and log.
LEMMA OffsetStands ==
  ASSUME OffsetInv, UNCHANGED <<tail, logs>>,
         \A t \in Threads : loop'[t] = loop[t] \/ {loop[t].at, loop'[t].at} \cap {"batch", "row"} = {}
  PROVE  OffsetInv'
  <1>1. \A t \in Threads : /\ InBatch(t)' <=> InBatch(t)
                           /\ InRow(t)' <=> InRow(t)
                           /\ InBatch(t) \/ InRow(t) => loop'[t] = loop[t]
    BY DEF InBatch, InRow
  <1>2. UNCHANGED <<consumer, got, inOrder, halved, raced, lines, file>>
    BY DEF tail, logs
  <1>3. ASSUME InStep PROVE InStep'
    <2>1. inOrder' /\ Moored'
      BY <1>2, <1>3 DEF InStep, Moored, Here
    <2>2. Follows'
      BY <1>1, <1>2, <1>3 DEF InStep, Follows, MidBatch, Here
    <2>3. Owing' /\ Paid'
      BY <1>1, <1>2, <1>3 DEF InStep, Owing, Paid, Here
    <2>. QED BY <2>1, <2>2, <2>3 DEF InStep
  <1>. QED BY <1>2, <1>3 DEF OffsetInv

\* A consumer at the start of a file, while no thread is in a batch.
LEMMA OffsetFresh ==
  ASSUME TypeOK', consumer' # NoConsumer => consumer'.offset = 0 /\ consumer'.path \in Paths,
         got' = {}, halved' = {}, inOrder',
         ~raced' => \A t \in Threads : ~InBatch(t)' /\ ~InRow(t)'
  PROVE  OffsetInv'
  <1> SUFFICES ASSUME consumer' # NoConsumer, ~raced'
               PROVE  InStep'
    BY DEF OffsetInv
  <1>1. Here' \in Files \cup {NoFile}
    BY DEF Here, TypeOK
  <1>2. RowsOf(lines'[Here'], 0, {}) = {}
    BY DEF RowsOf
  <1>3. Here' # NoFile => ReadTo(lines'[Here'], 0, {})
    <2>1. Here' # NoFile => lines'[Here'] \in Seq(Pieces)
      BY <1>1 DEF TypeOK
    <2>. QED BY <2>1, NothingYet
  <1>4. Moored'
    BY <1>3 DEF Moored
  <1>5. Follows' /\ Owing' /\ Paid'
    BY <1>2 DEF Follows, MidBatch, Owing, Paid
  <1>. QED BY <1>4, <1>5 DEF InStep

\* A step of the logs that no thread and no consumer takes part in.
LEMMA OffsetElsewhere ==
  ASSUME OffsetInv, UNCHANGED <<loop, consumer, got, inOrder, halved, raced>>,
         Here' = Here, Here # NoFile => lines'[Here] = lines[Here]
  PROVE  OffsetInv'
  <1> SUFFICES ASSUME InStep
               PROVE  InStep'
    BY DEF OffsetInv
  <1>1. inOrder' /\ Moored' /\ Follows'
    BY DEF InStep, Moored, Follows, MidBatch, InRow, InBatch
  <1>2. CASE Here # NoFile
    BY <1>1, <1>2 DEF InStep, Owing, Paid, InRow
  <1>3. CASE Here = NoFile
    <2>1. \A t \in Threads : ~InRow(t)'
      BY <1>3 DEF InStep, Follows, MidBatch, InRow
    <2>2. consumer'.offset = 0 /\ got' = {}
      BY <1>3 DEF InStep, Moored
    <2>3. Owing' /\ Paid'
      BY <2>1, <2>2 DEF Owing, Paid, RowsOf
    <2>. QED BY <1>1, <2>3 DEF InStep
  <1>. QED BY <1>2, <1>3

LEMMA OffsetWrites ==
  ASSUME TypeOK, TypeOK', FilesInv, OffsetInv, NEW p \in Paths, WriteLine(p)
  PROVE  OffsetInv'
  <1>1. PICK f \in Files, piece \in Pieces :
           /\ file[p] = NoFile \/ file[p] = f
           /\ \A q \in Paths \ {p} : file[q] # f
           /\ file' = [file EXCEPT ![p] = f] /\ lines' = [lines EXCEPT ![f] = Append(lines[f], piece)]
           /\ UNCHANGED <<tail, loop>>
    BY WriteFacts
  <1>2. UNCHANGED <<loop, consumer, got, inOrder, halved, raced>>
    BY <1>1 DEF tail
  <1> SUFFICES ASSUME consumer # NoConsumer, ~raced, InStep
               PROVE  OffsetInv'
    BY <1>2 DEF OffsetInv
  <1>3. consumer.path \in Paths /\ consumer.offset \in Nat /\ consumer'.path = consumer.path
    <2>1. consumer \in [path : Paths, offset : Nat]
      BY DEF TypeOK
    <2>. QED BY <1>2, <2>1
  <1>4. file \in [Paths -> Files \cup {NoFile}] /\ lines \in [Files -> Seq(Pieces)]
    BY DEF TypeOK
  <1>5. CASE consumer.path # p
    <2>1. Here' = Here /\ Here # f
      BY <1>1, <1>2, <1>3, <1>4, <1>5 DEF Here
    <2>2. Here # NoFile => lines'[Here] = lines[Here]
      BY <1>1, <1>3, <1>4, <2>1 DEF Here
    <2>. QED BY <1>2, <2>1, <2>2, OffsetElsewhere
  <1>6. CASE consumer.path = p /\ Here = NoFile
    <2>1. consumer'.offset = 0 /\ got' = {} /\ halved' = {} /\ inOrder'
      BY <1>2, <1>6 DEF InStep, Moored
    <2>2. \A t \in Threads : ~InBatch(t)' /\ ~InRow(t)'
      BY <1>2, <1>6 DEF InStep, Follows, MidBatch, InRow, InBatch
    <2>3. consumer'.path \in Paths
      BY <1>3
    <2>. QED BY <2>1, <2>2, <2>3, OffsetFresh
  <1>7. CASE consumer.path = p /\ Here # NoFile
    <2>1. Here = f /\ Here' = f
      BY <1>1, <1>2, <1>3, <1>4, <1>7 DEF Here
    <2>2. lines'[f] = Append(lines[f], piece) /\ lines[f] \in Seq(Pieces)
      BY <1>1, <1>4
    <2>3. ReadTo(lines[f], consumer.offset, halved)
      BY <1>7, <2>1 DEF InStep, Moored
    <2>4. halved \in SUBSET Nat
      BY DEF TypeOK
    <2>5. /\ ReadTo(lines'[f], consumer.offset, halved)
          /\ RowsOf(lines'[f], consumer.offset, halved) = RowsOf(lines[f], consumer.offset, halved)
      BY <1>3, <2>2, <2>3, <2>4, LogGrows
    <2>6. inOrder' /\ Moored' /\ Follows'
      BY <1>2, <1>7, <2>1, <2>5 DEF InStep, Moored, Follows, MidBatch, InRow, InBatch
    <2>7. Owing' /\ Paid'
      BY <1>2, <2>1, <2>5 DEF InStep, Owing, Paid, InRow
    <2>. QED BY <2>6, <2>7 DEF InStep, OffsetInv
  <1>. QED BY <1>5, <1>6, <1>7

LEMMA OffsetReplaced ==
  ASSUME TypeOK, FilesInv, OffsetInv, NEW p \in Paths, Rotate(p) \/ Truncate(p)
  PROVE  OffsetInv'
  <1>1. Replace(p) /\ loop' = loop /\ consumer' = consumer
    BY DEF Rotate, Truncate, Replace
  <1>2. CASE consumer.path = p
    BY <1>1, <1>2 DEF Replace, OffsetInv
  <1>3. CASE consumer.path # p /\ consumer = NoConsumer
    BY <1>1, <1>3 DEF OffsetInv
  <1>4. CASE consumer.path # p /\ consumer # NoConsumer
    <2>1. consumer.path \in Paths
      <3>1. consumer \in [path : Paths, offset : Nat]
        BY <1>4 DEF TypeOK
      <3>. QED BY <3>1
    <2>2. UNCHANGED <<loop, consumer, got, inOrder, halved, raced>>
      BY <1>1, <1>4 DEF Replace
    <2>3. file \in [Paths -> Files \cup {NoFile}] /\ lines \in [Files -> Seq(Pieces)] /\ file[p] # NoFile
      BY <1>1 DEF TypeOK, Replace
    <2>4. Here' = Here
      BY <1>4, <2>1, <2>2, <2>3 DEF Rotate, Truncate, Here
    <2>5. Here # NoFile => Here # file[p]
      BY <1>4, <2>1 DEF FilesInv, Here
    <2>6. Here \in Files \cup {NoFile}
      BY <2>1, <2>3 DEF Here
    <2>7. Here # NoFile => lines'[Here] = lines[Here]
      BY <2>3, <2>5, <2>6 DEF Rotate, Truncate
    <2>. QED BY <2>2, <2>4, <2>7, OffsetElsewhere
  <1>. QED BY <1>2, <1>3, <1>4

LEMMA OffsetReads ==
  ASSUME TypeOK, Solo, FilesInv, OffsetInv, NEW t \in Threads, ReadLine(t)
  PROVE  OffsetInv'
  <1>0. /\ InBatch(t) /\ t \in Alive /\ UNCHANGED <<got, inOrder, raced, lines, file>>
        /\ loop \in [Threads -> LoopStates]
    BY DEF ReadLine, Alive, InBatch, logs, TypeOK
  <1>1. \A u \in Threads : u # t => ~InRow(u) /\ ~InBatch(u)
    BY <1>0 DEF Solo, Alive, InRow, InBatch
  <1>2. \A u \in Threads : ~InRow(u)
    BY <1>0, <1>1 DEF InRow, InBatch
  <1> SUFFICES ASSUME consumer' # NoConsumer, ~raced
               PROVE  InStep'
    BY <1>0 DEF OffsetInv
  <1>3. CASE BatchOver(t) \/ consumer = NoConsumer
    <2>1. loop' = [loop EXCEPT ![t] = Parked("top", loop[t].mode)] /\ UNCHANGED <<consumer, halved>>
      BY <1>3 DEF ReadLine
    <2>2. loop'[t].at = "top" /\ \A u \in Threads : u # t => loop'[u] = loop[u]
      BY <1>0, <2>1 DEF Parked
    <2>3. \A u \in Threads : ~InRow(u)' /\ ~InBatch(u)'
      BY <1>1, <2>2 DEF InRow, InBatch
    <2>4. InStep
      BY <2>1 DEF OffsetInv
    <2>5. Here' = Here
      BY <1>0, <2>1 DEF Here
    <2>6. inOrder' /\ Moored' /\ Follows' /\ Owing'
      BY <1>0, <2>1, <2>3, <2>4, <2>5 DEF InStep, Moored, Follows, Owing, MidBatch
    <2>7. Paid'
      BY <1>0, <1>2, <2>1, <2>4, <2>5 DEF InStep, Paid
    <2>. QED BY <2>6, <2>7 DEF InStep
  <1>4. CASE ~(BatchOver(t) \/ consumer = NoConsumer)
    <2>1. /\ loop' = [loop EXCEPT ![t] = AfterLine(t)]
          /\ consumer' = [consumer EXCEPT !.offset = AdvanceTo(t)]
          /\ halved' = halved \cup {i \in {loop[t].pos + 2} : HalfLine(t) /\ ~raced}
      BY <1>4 DEF ReadLine
    <2>2. loop'[t] = AfterLine(t) /\ \A u \in Threads : u # t => loop'[u] = loop[u]
      BY <1>0, <2>1
    <2>3. consumer \in [path : Paths, offset : Nat]
      BY <1>4 DEF TypeOK
    <2>4. InStep
      BY <1>4 DEF OffsetInv
    <2>5. /\ loop[t].pos = consumer.offset /\ loop[t].file = Here /\ Here # NoFile
          /\ ReadTo(lines[Here], consumer.offset, halved)
          /\ got = RowsOf(lines[Here], consumer.offset, halved) /\ inOrder
      BY <1>0, <1>2, <2>4 DEF InStep, Follows, MidBatch, Moored, Paid
    <2>6. Here \in Files /\ lines[Here] \in Seq(Pieces) /\ Formed(lines[Here]) /\ Here' = Here
      <3>1. Here \in Files
        BY <2>3, <2>5 DEF Here, TypeOK
      <3>2. consumer'.path = consumer.path
        BY <2>1, <2>3
      <3>. QED BY <1>0, <3>1, <3>2 DEF FilesInv, TypeOK, Here
    <2> DEFINE s == lines[Here]  n == consumer.offset
    <2>7. /\ n \in Nat /\ n < Len(s) /\ loop[t].left # 0 /\ halved \in SUBSET Nat
          /\ Piece1(t) = s[n + 1]
      <3>1. n \in Nat /\ halved \in SUBSET Nat
        BY <2>3 DEF TypeOK
      <3>2. loop[t].left # 0 /\ ~(loop[t].pos >= Len(Log(t))) /\ Log(t) = s
        BY <1>4, <2>5 DEF BatchOver, Log
      <3>3. Len(s) \in Nat
        BY <2>6
      <3>. QED BY <2>5, <3>1, <3>2, <3>3 DEF Piece1
    <2>8. /\ AfterLine(t).at \in {"top", "batch", "row"}
          /\ Piece1(t) = "bad" => AfterLine(t).at = "top"
          /\ Piece1(t) # "bad" => /\ AfterLine(t).at = IF GivesRow(t) THEN "row" ELSE "batch"
                                  /\ AfterLine(t).pos = n + LineLength(t)
                                  /\ AfterLine(t).file = Here
      BY <2>5, <2>7, LineTaken
    <2>9. consumer'.offset = n + LineLength(t) /\ LineLength(t) \in {1, 2}
      BY <2>1, <2>3, <2>5, <2>7, LineTaken DEF AdvanceTo
    <2>10. HalfLine(t) <=> s[n + 1] = "head" /\ n + 1 = Len(s)
      BY <2>5, <2>7 DEF HalfLine, Log
    <2>11. LineLength(t) = IF s[n + 1] = "head" /\ n + 1 # Len(s) THEN 2 ELSE 1
      BY <2>7, <2>10 DEF LineLength
    <2>12. GivesRow(t) <=> s[n + 1] = "event" \/ LineLength(t) = 2
      BY <2>7 DEF GivesRow
    <2> DEFINE m == consumer'.offset  h == halved'
    <2>13. /\ ReadTo(s, m, h)
           /\ GivesRow(t) => RowsOf(s, m, h) = got \cup {m}
           /\ ~GivesRow(t) => RowsOf(s, m, h) = got
      <3> DEFINE k == n + 2
      <3>1. h = halved \cup {i \in {k} : HalfLine(t)}
        BY <2>1, <2>5
      <3>2. CASE s[n + 1] = "head" /\ n + 1 = Len(s)
        <4>1. h = halved \cup {k} /\ m = n + 1 /\ ~GivesRow(t)
          BY <2>9, <2>10, <2>11, <2>12, <3>1, <3>2
        <4>2. ReadTo(s, n + 1, halved \cup {n + 2}) /\ RowsOf(s, n + 1, halved \cup {n + 2}) = RowsOf(s, n, halved)
          BY <2>5, <2>6, <2>7, <3>2, LineMore
        <4>. QED BY <2>5, <4>1, <4>2
      <3>3. CASE s[n + 1] = "head" /\ n + 1 # Len(s)
        <4>1. h = halved /\ m = n + 2 /\ GivesRow(t)
          BY <2>9, <2>10, <2>11, <2>12, <3>1, <3>3
        <4>2. ReadTo(s, n + 2, halved) /\ RowsOf(s, n + 2, halved) = RowsOf(s, n, halved) \cup {n + 2}
          BY <2>5, <2>6, <2>7, <3>3, LineMore
        <4>. QED BY <2>5, <4>1, <4>2
      <3>4. CASE s[n + 1] = "event"
        <4>1. h = halved /\ m = n + 1 /\ GivesRow(t)
          BY <2>9, <2>10, <2>11, <2>12, <3>1, <3>4
        <4>2. ReadTo(s, n + 1, halved) /\ RowsOf(s, n + 1, halved) = RowsOf(s, n, halved) \cup {n + 1}
          BY <2>5, <2>6, <2>7, <3>4, LineMore
        <4>. QED BY <2>5, <4>1, <4>2
      <3>5. CASE s[n + 1] \notin {"event", "head"}
        <4>1. h = halved /\ m = n + 1 /\ ~GivesRow(t)
          BY <2>9, <2>10, <2>11, <2>12, <3>1, <3>5
        <4>2. ReadTo(s, n + 1, halved) /\ RowsOf(s, n + 1, halved) = RowsOf(s, n, halved)
          BY <2>5, <2>6, <2>7, <3>5, LineMore
        <4>. QED BY <2>5, <4>1, <4>2
      <3>. QED BY <3>2, <3>3, <3>4, <3>5
    <2>14. \A i \in got : i < m
      <3>1. \A i \in got : i <= n
        BY <2>5, <2>7 DEF RowsOf
      <3>2. got \subseteq Nat
        BY DEF TypeOK
      <3>3. m \in Nat /\ n < m /\ n \in Nat
        BY <2>7, <2>9
      <3> HIDE DEF m, n
      <3>. QED BY ONLY <3>1, <3>2, <3>3
    <2>15. inOrder' /\ Moored'
      BY <1>0, <2>5, <2>6, <2>13 DEF Moored
    <2>16. \A u \in Threads : MidBatch(u)' => u = t
      BY <1>1, <2>2 DEF MidBatch, InRow, InBatch
    <2>17. Piece1(t) = "bad" => ~GivesRow(t)
      BY <2>7, <2>11, <2>12
    <2>18. Follows'
      <3>1. MidBatch(t)' => loop'[t].pos = m /\ loop'[t].file = Here
        BY <2>2, <2>8, <2>9 DEF MidBatch, InRow, InBatch
      <3>. QED BY <2>5, <2>6, <2>16, <3>1 DEF Follows
    <2>19. InRow(t)' <=> GivesRow(t)
      BY <2>2, <2>8, <2>17 DEF InRow
    <2>20. got' = got /\ lines' = lines
      BY <1>0
    <2>21. \A u \in Threads : InRow(u)' => u = t /\ GivesRow(t)
      BY <2>16, <2>19 DEF MidBatch
    <2>22. RowsOf(lines[Here], consumer.offset, halved)' = RowsOf(s, m, h)
      BY <2>6, <2>20
    <2>23. Owing'
      BY <2>13, <2>14, <2>20, <2>21, <2>22 DEF Owing
    <2>24. Paid'
      BY <2>13, <2>19, <2>20, <2>22 DEF Paid
    <2>. QED BY <2>15, <2>18, <2>23, <2>24 DEF InStep
  <1>. QED BY <1>3, <1>4

LEMMA OffsetPays ==
  ASSUME TypeOK, Solo, OffsetInv, NEW t \in Threads, AppendLine(t)
  PROVE  OffsetInv'
  <1>0. /\ InRow(t) /\ t \in Alive /\ UNCHANGED <<consumer, halved, raced, lines, file>>
        /\ loop \in [Threads -> LoopStates]
    BY DEF AppendLine, Alive, InRow, logs, TypeOK
  <1>1. \A u \in Threads : u # t => ~InRow(u) /\ ~InBatch(u)
    BY <1>0 DEF Solo, Alive, InRow, InBatch
  <1> SUFFICES ASSUME consumer # NoConsumer, ~raced
               PROVE  InStep'
    BY <1>0 DEF OffsetInv
  <1>2. InStep
    BY DEF OffsetInv
  <1>3. loop' = [loop EXCEPT ![t].at = "batch"]
    BY DEF AppendLine
  <1>4. /\ loop'[t].at = "batch" /\ loop'[t].pos = loop[t].pos /\ loop'[t].file = loop[t].file
        /\ \A u \in Threads : u # t => loop'[u] = loop[u]
    BY <1>0, <1>3 DEF LoopStates
  <1>5. \A u \in Threads : ~InRow(u)' /\ (InBatch(u)' <=> u = t)
    BY <1>1, <1>4 DEF InRow, InBatch
  <1>6. /\ loop[t].pos = consumer.offset /\ loop[t].file = Here /\ Here # NoFile
        /\ \A i \in got : i < consumer.offset
        /\ got \cup {consumer.offset} = RowsOf(lines[Here], consumer.offset, halved)
    BY <1>0, <1>2 DEF InStep, Follows, MidBatch, Owing
  <1>7. got' = got \cup {loop[t].pos} /\ (inOrder' = (inOrder /\ \A i \in got : i < loop[t].pos))
    BY Zenon DEF AppendLine
  <1>8. inOrder'
    BY <1>2, <1>6, <1>7 DEF InStep
  <1>9. Here' = Here
    BY <1>0 DEF Here
  <1>10. Moored' /\ Follows' /\ Owing' /\ Paid'
    <2>1. Moored'
      BY <1>0, <1>2, <1>6, <1>9 DEF InStep, Moored
    <2>2. Follows'
      BY <1>0, <1>4, <1>5, <1>6, <1>9 DEF Follows, MidBatch
    <2>3. Owing'
      BY <1>5 DEF Owing
    <2>4. Paid'
      BY <1>0, <1>6, <1>7, <1>9 DEF Paid
    <2>. QED BY <2>1, <2>2, <2>3, <2>4
  <1>. QED BY <1>8, <1>10 DEF InStep

LEMMA OffsetOpens ==
  ASSUME TypeOK, Solo, OffsetInv, NEW t \in Threads, OpenBatch(t)
  PROVE  OffsetInv'
  <1>0. /\ loop[t].at = "top" /\ t \in Alive /\ UNCHANGED <<tail, logs>>
        /\ loop \in [Threads -> LoopStates]
    BY DEF OpenBatch, Alive, TypeOK
  <1>1. CASE loop' = loop
    BY <1>0, <1>1, OffsetStands
  <1>2. CASE loop' = [loop EXCEPT ![t] = Parked("dead", loop[t].mode)]
    <2>1. loop'[t].at = "dead" /\ \A u \in Threads : u # t => loop'[u] = loop[u]
      BY <1>0, <1>2 DEF Parked
    <2>. QED BY <1>0, <2>1, OffsetStands
  <1>3. ASSUME consumer # NoConsumer, file[consumer.path] # NoFile, NEW r \in LoopStates,
               loop' = [loop EXCEPT ![t] = r], r.at = "batch",
               r.pos = consumer.offset, r.file = file[consumer.path]
        PROVE  OffsetInv'
    <2>1. loop'[t] = r /\ \A u \in Threads : u # t => loop'[u] = loop[u]
      BY <1>0, <1>3
    <2>2. \A u \in Threads : ~InRow(u) /\ ~InBatch(u)
      BY <1>0 DEF Solo, Alive, InRow, InBatch
    <2>3. \A u \in Threads : ~InRow(u)' /\ (InBatch(u)' => u = t)
      BY <1>3, <2>1, <2>2 DEF InRow, InBatch
    <2>4. UNCHANGED <<consumer, got, inOrder, halved, raced, lines, file>>
      BY <1>0 DEF tail, logs
    <2>5. ASSUME InStep PROVE InStep'
      <3>1. inOrder' /\ Moored' /\ Owing'
        BY <2>3, <2>4, <2>5 DEF InStep, Moored, Here, Owing
      <3>2. Paid'
        BY <2>2, <2>4, <2>5 DEF InStep, Paid, Here
      <3>3. Follows'
        BY <1>3, <2>1, <2>3, <2>4 DEF Follows, MidBatch, Here
      <3>. QED BY <3>1, <3>2, <3>3 DEF InStep
    <2>. QED BY <2>4, <2>5 DEF OffsetInv
  <1>. QED BY <1>1, <1>2, <1>3, Opened

LEMMA OffsetStep == TurnInv /\ FilesInv /\ OneAtATime /\ OffsetInv /\ [Next]_vars => OffsetInv'
  <1> SUFFICES ASSUME TurnInv, FilesInv, OneAtATime, OffsetInv, [Next]_vars
               PROVE  OffsetInv'
    OBVIOUS
  <1>0. TypeOK /\ Solo /\ TypeOK'
    BY TypeStep DEF TurnInv
  <1>1. ASSUME NEW c \in Callers, CallStop(c) \/ JoinThread(c) \/ Arm(c)
        PROVE  OffsetInv'
    BY <1>1, OffsetStands DEF CallStop, JoinThread, Arm
  <1>2. ASSUME NEW c \in Callers, NEW m \in Modes, CallStart(c, m)
        PROVE  OffsetInv'
    <2>1. PICK t \in Threads : loop[t].at = "unborn" /\ loop' = [loop EXCEPT ![t].at = "new", ![t].mode = m]
                               /\ UNCHANGED <<tail, logs>>
      BY <1>2 DEF CallStart
    <2>2. loop'[t].at = "new" /\ \A u \in Threads : u # t => loop'[u] = loop[u]
      BY <1>0, <2>1 DEF TypeOK, LoopStates
    <2>. QED BY <2>1, <2>2, OffsetStands
  <1>3. ASSUME NEW c \in Callers, Detach(c)
        PROVE  OffsetInv'
    BY <1>3 DEF Detach, OffsetInv
  <1>4. ASSUME NEW c \in Callers, Create(c)
        PROVE  OffsetInv'
    <2>1. Alive = {} /\ loop' = loop
      BY <1>4 DEF Create, TurnInv, Turn, Emptied, At
    <2>2. CASE caller[c].op = "suricata"
      <3>1. PICK p \in Paths : consumer' = [path |-> p, offset |-> 0]
        BY <1>4, <2>2 DEF Create
      <3>2. got' = {} /\ inOrder' /\ halved' = {}
        BY <1>4, <2>2 DEF Create
      <3>3. \A t \in Threads : ~InBatch(t)' /\ ~InRow(t)'
        BY <2>1 DEF Alive, InBatch, InRow
      <3>. QED BY <1>0, <3>1, <3>2, <3>3, OffsetFresh
    <2>3. CASE caller[c].op # "suricata"
      BY <1>4, <2>1, <2>3, OffsetStands DEF Create
    <2>. QED BY <2>2, <2>3
  <1>5. ASSUME NEW c \in Callers, Launch(c)
        PROVE  OffsetInv'
    <2>1. CASE UNCHANGED loop
      BY <1>5, <2>1, OffsetStands DEF Launch
    <2>2. CASE thread # NoThread /\ loop[thread].at = "new"
               /\ loop' = [loop EXCEPT ![thread].at = IF loop[thread].mode = "suricata" THEN "top" ELSE "sniff"]
      <3>1. thread \in Threads
        BY <1>0, <2>2 DEF TypeOK
      <3>2. loop'[thread].at \in {"top", "sniff"} /\ \A u \in Threads : u # thread => loop'[u] = loop[u]
        BY <1>0, <2>2, <3>1 DEF TypeOK, LoopStates
      <3>. QED BY <1>5, <2>2, <3>1, <3>2, OffsetStands DEF Launch
    <2>. QED BY <1>5, <2>1, <2>2 DEF Launch
  <1>6. ASSUME NEW p \in Paths, Rebind(p)
        PROVE  OffsetInv'
    <2>1. /\ loop' = loop /\ consumer' = [path |-> p, offset |-> 0]
          /\ got' = {} /\ inOrder' /\ halved' = {}
      BY <1>6 DEF Rebind
    <2>2. ~raced' => \A t \in Threads : loop[t].at \notin {"batch", "row"}
      BY <1>6, Zenon DEF Rebind
    <2>3. ~raced' => \A t \in Threads : ~InBatch(t)' /\ ~InRow(t)'
      BY <2>1, <2>2 DEF InBatch, InRow
    <2>. QED BY <1>0, <2>1, <2>3, OffsetFresh
  <1>7. ASSUME NEW t \in Threads, EveLoop(t)
        PROVE  OffsetInv'
    BY <1>0, <1>7, OffsetOpens, OffsetReads, OffsetPays DEF EveLoop
  <1>8. ASSUME NEW t \in Threads, Packet(t) \/ SniffFails(t)
         PROVE  OffsetInv'
    <2>1. CASE UNCHANGED loop
      BY <1>8, <2>1, OffsetStands DEF Packet, SniffFails
    <2>2. CASE loop' = [loop EXCEPT ![t].at = "dead"]
      <3>1. loop'[t].at = "dead" /\ \A u \in Threads : u # t => loop'[u] = loop[u]
        BY <1>0, <2>2 DEF TypeOK, LoopStates
      <3>. QED BY <1>8, <3>1, OffsetStands DEF Packet, SniffFails
    <2>. QED BY <1>8, <2>1, <2>2 DEF Packet, SniffFails
  <1>9. ASSUME UNCHANGED <<loop, tail, logs>>
        PROVE  OffsetInv'
    BY <1>9, OffsetStands
  <1>10. CASE Clear \/ UNCHANGED vars \/ \E p \in Pollers : Poll(p)
    BY <1>9, <1>10 DEF Clear, vars, Poll
  <1>11. ASSUME NEW p \in Paths, WriteLine(p) \/ Rotate(p) \/ Truncate(p)
         PROVE  OffsetInv'
    BY <1>0, <1>11, OffsetWrites, OffsetReplaced
  <1>. QED BY <1>1, <1>2, <1>3, <1>4, <1>5, <1>6, <1>7, <1>8, <1>10, <1>11
           DEF Next, Handler

\* Requests that take turns and joins that wait: of the lines read, whatever
\* bad lines, half lines and lines of no use are among them, those that give a
\* row have given one each, in file order, until a rebind meets the tailing
\* thread in a batch or the file is rotated or truncated.
THEOREM LinesAreReadOnce == OneAtATime /\ Spec => []ExactlyOnce
  <1>1. Init => OffsetInv
    BY DEF Init, OffsetInv
  <1>2. TurnInv /\ OffsetInv => ExactlyOnce
    <2> SUFFICES ASSUME TurnInv, OffsetInv, consumer # NoConsumer, ~raced
                 PROVE  inOrder /\ got \cup Pending = RowPlaces(consumer.offset)
      BY DEF ExactlyOnce
    <2>1. InStep
      BY DEF OffsetInv
    <2>2. RowPlaces(consumer.offset) = RowsOf(lines[Here], consumer.offset, halved)
      BY DEF RowPlaces, RowsOf, Here
    <2>3. CASE \A t \in Threads : ~InRow(t)
      <3>1. Pending = {}
        BY <2>3 DEF Pending, InRow
      <3>. QED BY <2>1, <2>2, <2>3, <3>1 DEF InStep, Paid
    <2>4. ASSUME NEW t \in Threads, InRow(t)
          PROVE  inOrder /\ got \cup Pending = RowPlaces(consumer.offset)
      <3>1. \A u \in Threads : InRow(u) => loop[u].pos = consumer.offset
        BY <2>1 DEF InStep, Follows, MidBatch
      <3>2. Pending = {consumer.offset}
        BY <2>4, <3>1 DEF Pending, InRow
      <3>. QED BY <2>1, <2>2, <2>4, <3>2 DEF InStep, Owing
    <2>. QED BY <2>3, <2>4
  <1>3. CASE OneAtATime
    <2>1. TurnInv /\ [Next]_vars => TurnInv'
      BY <1>3, TurnStep
    <2>2. TurnInv /\ FilesInv /\ [Next]_vars => FilesInv'
      BY FilesStep DEF TurnInv
    <2>3. TurnInv /\ FilesInv /\ OffsetInv /\ [Next]_vars => OffsetInv'
      BY <1>3, OffsetStep
    <2>. QED BY <1>1, <1>2, <2>1, <2>2, <2>3, TurnInit, FilesInit, PTL DEF Spec
  <1>. QED BY <1>3

-----------------------------------------------------------------------------
(* Refinement: the ring is a window seq - Len(buffer) + 1 .. seq of the log. *)

LEMMA LogInitMaps == Init => FL!LogInit
  BY DEF Init, FL!LogInit

LEMMA LogStepMaps == RingInv /\ [Next]_vars => [FL!LogNext]_(FL!logVars)
  <1> SUFFICES ASSUME RingInv, [Next]_vars
               PROVE  FL!LogNext \/ UNCHANGED FL!logVars
    OBVIOUS
  <1>0. /\ buffer \in Seq(Nat) /\ seq \in Nat /\ MaxRows \in Nat
        /\ Len(buffer) \in Nat /\ Len(buffer) <= MaxRows
    BY MaxRowsAssumption DEF RingInv, RingType, BufferContiguous
  <1>1. CASE AppendRow /\ UNCHANGED cursor
    <2>1. buffer' = Push(buffer, seq + 1) /\ seq' = seq + 1 /\ cursor' = cursor
      BY <1>1 DEF AppendRow
    <2>2. Len(buffer') = IF Len(buffer) < MaxRows THEN Len(buffer) + 1 ELSE Len(buffer)
      BY <1>0, <2>1, PushLength
    <2>4. CASE Len(buffer) < MaxRows
      <3>1. seq - (seq - Len(buffer) + 1) + 1 < MaxRows
        BY <1>0, <2>4
      <3>2. seq' - Len(buffer') + 1 = seq - Len(buffer) + 1
        BY <1>0, <2>1, <2>2, <2>4
      <3>. QED BY <2>1, <3>1, <3>2 DEF FL!LogAppend, FL!LogNext
    <2>5. CASE ~(Len(buffer) < MaxRows)
      <3>1. seq - (seq - Len(buffer) + 1) + 1 = MaxRows
        BY <1>0, <2>5
      <3>2. seq' - Len(buffer') + 1 = seq - Len(buffer) + 1 + 1
        BY <1>0, <2>1, <2>2, <2>5
      <3>. QED BY <2>1, <3>1, <3>2 DEF FL!LogAppend, FL!LogNext
    <2>. QED BY <2>4, <2>5
  <1>2. CASE buffer' = <<>> /\ UNCHANGED <<seq, cursor>>
    <2>1. FL!LogClear
      BY <1>0, <1>2 DEF FL!LogClear
    <2>. QED BY <2>1 DEF FL!LogNext
  <1>3. ASSUME NEW p \in Pollers, Poll(p)
        PROVE  FL!LogNext
    <2>1. FL!LogPoll(p)
      BY <1>0, <1>3, PollSeesNewest DEF FL!LogPoll
    <2>. QED BY <2>1 DEF FL!LogNext
  <1>4. CASE UNCHANGED <<buffer, seq, cursor>>
    BY <1>4 DEF FL!logVars
  <1>. QED BY <1>1, <1>2, <1>3, <1>4, StepShape

\* The feed, with its threads, handlers and races, is an implementation of the
\* bounded log that its clients are promised.
THEOREM FeedImplementsLog == Spec => ImplementsFeedLog
  <1>. QED BY LogInitMaps, LogStepMaps, RingAlways, PTL DEF Spec, FL!LogSpec, ImplementsFeedLog

-----------------------------------------------------------------------------
(* The live session reads its log: EveTail.                                *)

\* The events the binding has taken: handed on, or in the batch of a poll that began in it.
Taken == given \cup IF poll.old THEN {} ELSE Session!Held(poll)
\* The log that was imported.
Imported == <<[ev |-> 1, kind |-> "alert", part |-> "whole"], [ev |-> 2, kind |-> "flow", part |-> "whole"]>>
\* The two paths name different inodes, and the imported log is as it came.
Placed ==
  /\ where["import"] = 2  /\ where["log"] \in Session!Inodes \ {2}
  /\ path = "import" => inode \in {0, 2}
  /\ array \subseteq {2}  /\ text[2] = Imported
\* A head that is not the last piece is followed by its tail.
Pieced ==
  \A i \in Session!Inodes : \A x \in 1 .. Len(text[i]) :
    /\ text[i][x].ev <= written
    /\ text[i][x].part = "head" /\ x < Len(text[i]) =>
         text[i][x + 1] = [text[i][x] EXCEPT !.part = "tail"]
\* An event begins in one place of one log.
Unique ==
  \A i, j \in Session!Inodes : \A x \in 1 .. Len(text[i]), y \in 1 .. Len(text[j]) :
    text[i][x].part # "tail" /\ text[j][y].part # "tail" /\ text[i][x].ev = text[j][y].ev => i = j /\ x = y
\* A poll of the present binding is at its lines, and the offset is its place.
Reading == poll.at = "read" /\ ~poll.old
\* What a poll has, by its place.
Staged ==
  /\ poll.at = "idle" => poll = Session!NoPoll
  /\ poll.at = "open" => poll.alerts = <<>> /\ poll.flows = <<>>
  /\ poll.at = "read" => poll.file \in Session!Inodes
  /\ poll.at = "flows" => poll.alerts = <<>>
  /\ Reading => poll.pos = offset
  /\ poll.old => given = {}
\* The batch and what was handed on have no event in common, nor has the batch one twice.
Once ==
  /\ ~again
  /\ Taken \subseteq 1 .. written
  /\ ~poll.old => /\ \A m, n \in 1 .. Len(poll.alerts) : poll.alerts[m] = poll.alerts[n] => m = n
                  /\ Session!Range(poll.alerts) \cap Session!Range(poll.flows) = {}
                  /\ given \cap Session!Held(poll) = {}
\* What was taken lies below the offset, in the log the path names and in the one that is read.
\* A log the session is not in, and does not take for a longer version of its own, has nothing of it.
TakenBelow(f) == \A x \in 1 .. Len(text[f]) : text[f][x].part # "tail" /\ text[f][x].ev \in Taken => x <= offset
NoneTaken(f) == \A x \in 1 .. Len(text[f]) : text[f][x].part # "tail" => text[f][x].ev \notin Taken
Below ==
  /\ TakenBelow(where[path])
  /\ Reading => TakenBelow(poll.file) /\ (poll.file # where[path] => NoneTaken(where[path]))
  /\ NoneTaken(where[path]) \/ inode = where[path] \/ offset <= Len(text[where[path]])
\* A log entered at its start: every line below the offset is accounted for.
Entered ==
  whole =>
    /\ inode = 0 => offset = 0
    /\ inode # 0 => offset <= Len(text[inode]) /\ \A x \in 1 .. offset :
                        text[inode][x].ev \in Session!Known \/ text[inode][x].kind = "other"
    /\ Reading => poll.file = inode
    /\ poll.at = "open" => ~poll.old
EInv == Session!TypeOK /\ Placed /\ Pieced /\ Unique /\ Staged /\ Once /\ Below /\ Entered

\* SessionAssumption, as the provers need it.
LEMMA Sizes == MaxEvents \in Nat /\ MaxEvents >= 2 /\ MaxLogs \in Nat /\ MaxLogs >= 2 /\ PollLines \in Nat /\ MaxBinds \in Nat
BY SessionAssumption DEF Session!Sane

LEMMA SessionStarts == ASSUME Session!Init PROVE EInv
<1>1. Session!TypeOK
  <2>1. text \in [Session!Inodes -> Seq(Session!Pieces)]
    <3>1. <<>> \in Seq(Session!Pieces)
      BY EmptySeq
    <3>2. /\ [ev |-> 1, kind |-> "alert", part |-> "whole"] \in Session!Pieces
          /\ [ev |-> 2, kind |-> "flow", part |-> "whole"] \in Session!Pieces
      BY Sizes DEF Session!Pieces, Session!Events, Session!Kinds
    <3>3. Imported \in Seq(Session!Pieces)
      BY <3>2 DEF Imported
    <3> QED BY <3>1, <3>3 DEF Session!Init, Imported
  <2>2. where \in [Session!LogPaths -> 0 .. MaxLogs]
    BY Sizes DEF Session!Init, Session!LogPaths
  <2>3. array \subseteq Session!Inodes
    BY Sizes DEF Session!Init, Session!Inodes
  <2>4. poll \in [at : Session!Places, file : 0 .. MaxLogs, pos : Nat, left : 0 .. PollLines,
                  alerts : Seq(Session!Events), flows : Seq(Session!Events), old : BOOLEAN]
    <3>1. <<>> \in Seq(Session!Events)
      BY EmptySeq
    <3>2. 0 \in 0 .. MaxLogs /\ 0 \in 0 .. PollLines /\ 0 \in Nat
      BY Sizes
    <3> QED BY <3>1, <3>2 DEF Session!Init, Session!NoPoll, Session!Places
  <2>5. /\ written \in 0 .. MaxEvents  /\ path \in Session!LogPaths  /\ offset \in Nat  /\ inode \in 0 .. MaxLogs
        /\ binds \in 0 .. MaxBinds  /\ given \subseteq Session!Events  /\ dropped \subseteq Session!Events
    BY Sizes DEF Session!Init, Session!LogPaths
  <2>6. {again, whole} \subseteq BOOLEAN
    <3>1. again = FALSE /\ whole = TRUE
      BY DEF Session!Init
    <3> QED BY <3>1
  <2> QED BY <2>1, <2>2, <2>3, <2>4, <2>5, <2>6 DEF Session!TypeOK
<1>2. \A i \in Session!Inodes : text[i] = IF i = 2 THEN Imported ELSE <<>>
  BY DEF Session!Init, Imported
<1>3. 1 \in Session!Inodes /\ 2 \in Session!Inodes
  BY Sizes DEF Session!Inodes
<1>4. Len(<<>>) = 0 /\ Len(Imported) = 2 /\ 1 .. 0 = {} /\ 1 .. 2 = {1, 2}
  BY EmptySeq DEF Imported
<1>5. Placed
  BY <1>2, <1>3 DEF Placed, Session!Init, Session!LogPaths
<1>6. Pieced
  BY <1>2, <1>4 DEF Pieced, Imported, Session!Init
<1>7. Unique
  BY <1>2, <1>4 DEF Unique, Imported
<1>8. Session!Held(poll) = {}
  <2>1. Session!Range(<<>>) = {}
    BY <1>4 DEF Session!Range
  <2> QED BY <2>1 DEF Session!Held, Session!Init, Session!NoPoll
<1>9. Staged
  BY DEF Staged, Reading, Session!Init, Session!NoPoll
<1>10. Taken = {}
  BY <1>8 DEF Taken, Session!Init
<1>11. Once
  <2>1. Session!Range(<<>>) = {}
    BY <1>4 DEF Session!Range
  <2> QED BY <1>4, <1>8, <1>10, <2>1 DEF Once, Session!Init, Session!NoPoll
<1>12. Below
  BY <1>10 DEF Below, TakenBelow, NoneTaken, Reading, Session!Init, Session!NoPoll
<1>13. Entered
  BY DEF Entered, Reading, Session!Init, Session!NoPoll
<1> QED BY <1>1, <1>5, <1>6, <1>7, <1>9, <1>11, <1>12, <1>13 DEF EInv

-----------------------------------------------------------------------------
(* The logs: a piece is written, the log is rotated or truncated.          *)

LEMMA LogAppends ==
  ASSUME Session!TypeOK, NEW L \in Session!Inodes, NEW p \in Session!Pieces, text' = [text EXCEPT ![L] = Append(@, p)]
  PROVE  /\ text' \in [Session!Inodes -> Seq(Session!Pieces)]
         /\ Len(text[L]) \in Nat  /\ Len(text'[L]) = Len(text[L]) + 1  /\ text'[L][Len(text[L]) + 1] = p
         /\ \A x \in 1 .. Len(text[L]) : text'[L][x] = text[L][x]
         /\ \A i \in Session!Inodes : i # L => text'[i] = text[i]
<1>1. text \in [Session!Inodes -> Seq(Session!Pieces)]
  BY DEF Session!TypeOK
<1>2. text[L] \in Seq(Session!Pieces) /\ text'[L] = Append(text[L], p)
  BY <1>1
<1>3. /\ Append(text[L], p) \in Seq(Session!Pieces)  /\ Len(Append(text[L], p)) = Len(text[L]) + 1
      /\ Append(text[L], p)[Len(text[L]) + 1] = p
      /\ \A x \in 1 .. Len(text[L]) : Append(text[L], p)[x] = text[L][x]
  BY <1>2, AppendProperties
<1>4. Len(text[L]) \in Nat
  BY <1>2, LenProperties
<1>5. \A i \in Session!Inodes : i # L => text'[i] = text[i]
  BY <1>1
<1>6. text' \in [Session!Inodes -> Seq(Session!Pieces)]
  BY <1>1, <1>2, <1>3
<1> QED BY <1>2, <1>3, <1>4, <1>5, <1>6

LEMMA TextFacts ==
  ASSUME Session!TypeOK, NEW i \in Session!Inodes
  PROVE  /\ text[i] \in Seq(Session!Pieces)  /\ Len(text[i]) \in Nat
         /\ \A x \in 1 .. Len(text[i]) :
              /\ text[i][x] \in Session!Pieces
              /\ text[i][x].ev \in 1 .. MaxEvents  /\ text[i][x].kind \in Session!Kinds
              /\ text[i][x].part \in {"whole", "head", "tail"}
<1>1. text[i] \in Seq(Session!Pieces)
  BY DEF Session!TypeOK
<1>2. Len(text[i]) \in Nat /\ \A x \in 1 .. Len(text[i]) : text[i][x] \in Session!Pieces
  BY <1>1, LenProperties, ElementOfSeq
<1> QED BY <1>1, <1>2 DEF Session!Pieces, Session!Events

\* No piece has a number that was not written yet.
LEMMA Numbered ==
  ASSUME EInv, NEW i \in Session!Inodes, NEW x \in 1 .. Len(text[i])
  PROVE  text[i][x].ev \in Nat /\ text[i][x].ev \in 1 .. written /\ text[i][x].ev <= written
<1>1. text[i][x].ev \in 1 .. MaxEvents
  BY TextFacts DEF EInv
<1>2. text[i][x].ev <= written
  BY DEF EInv, Pieced
<1>3. written \in 0 .. MaxEvents
  BY DEF EInv, Session!TypeOK
<1> QED BY ONLY <1>1, <1>2, <1>3, Sizes

\* What a log action leaves alone.
Outside == UNCHANGED <<array, path, offset, inode, poll, binds, given, again, dropped>>

\* A piece is appended to the log: a new event, or the tail of the last one.
Appends(p) ==
  /\ text' = [text EXCEPT ![where["log"]] = Append(@, p)]  /\ UNCHANGED <<where, whole>>  /\ Outside
  /\ \/ p.ev = written + 1 /\ written' = written + 1 /\ p.part \in {"whole", "head"} /\ ~Session!Torn
     \/ p = [text[where["log"]][Len(text[where["log"]])] EXCEPT !.part = "tail"] /\ Session!Torn /\ written' = written

LEMMA WritesAppend ==
  ASSUME EInv, \/ \E kind \in Session!Kinds, part_ \in {"whole", "head"} : Session!Write(kind, part_)
               \/ Session!WriteTail
  PROVE  /\ \E p \in Session!Pieces : Appends(p)
         /\ written' \in 0 .. MaxEvents
<1>1. where["log"] \in Session!Inodes
  BY DEF EInv, Placed
<1>2. ASSUME NEW kind \in Session!Kinds, NEW part_ \in {"whole", "head"}, Session!Write(kind, part_)
      PROVE  /\ \E p \in Session!Pieces : Appends(p)
             /\ written' \in 0 .. MaxEvents
  <2> DEFINE p == [ev |-> written + 1, kind |-> kind, part |-> part_]
  <2>1. written \in 0 .. MaxEvents /\ written < MaxEvents
    BY <1>2 DEF EInv, Session!TypeOK, Session!Write
  <2>2. p \in Session!Pieces /\ written' \in 0 .. MaxEvents
    <3>1. written + 1 \in 1 .. MaxEvents
      BY <2>1, Sizes
    <3>2. written' = written + 1
      BY <1>2 DEF Session!Write
    <3> QED BY <3>1, <3>2, Sizes DEF Session!Pieces, Session!Events
  <2>3. Appends(p)
    BY <1>2 DEF Appends, Session!Write, Session!Put, Session!Piece, Session!Log, Outside, Session!consumer, Session!hist
  <2> QED BY <2>2, <2>3
<1>3. ASSUME Session!WriteTail
      PROVE  /\ \E p \in Session!Pieces : Appends(p)
             /\ written' \in 0 .. MaxEvents
  <2> DEFINE log == text[where["log"]]
             p == [log[Len(log)] EXCEPT !.part = "tail"]
  <2>1. log # <<>> /\ Session!Torn
    BY <1>3 DEF Session!WriteTail, Session!Torn, Session!Log
  <2>2. log \in Seq(Session!Pieces) /\ Len(log) \in 1 .. Len(log)
    BY <1>1, <2>1, TextFacts, EmptySeq DEF EInv
  <2>3. log[Len(log)] \in Session!Pieces
    BY <2>2, ElementOfSeq
  <2>4. p \in Session!Pieces
    BY <2>3 DEF Session!Pieces
  <2>5. Appends(p)
    BY <1>3, <2>1 DEF Appends, Session!WriteTail, Session!Put, Session!Log, Session!Last, Outside, Session!consumer, Session!hist
  <2>6. written' \in 0 .. MaxEvents
    BY <1>3 DEF Session!WriteTail, EInv, Session!TypeOK
  <2> QED BY <2>4, <2>5, <2>6
<1> QED BY <1>2, <1>3

\* What is known of an event does not change when the logs do.
LEMMA OutsideKeeps ==
  ASSUME Outside
  PROVE  /\ Taken' = Taken  /\ Session!Known' = Session!Known
         /\ Reading' <=> Reading
         /\ Session!Held(poll)' = Session!Held(poll)
BY DEF Outside, Taken, Session!Known, Reading, Session!Held, Session!Range

LEMMA AppendKeeps ==
  ASSUME EInv, NEW p \in Session!Pieces, Appends(p), written' \in 0 .. MaxEvents
  PROVE  EInv'
<1> DEFINE L == where["log"]
           n == Len(text[L])
<1>0. L \in Session!Inodes /\ L # 2 /\ Session!TypeOK
  BY DEF EInv, Placed
<1>1. /\ text' \in [Session!Inodes -> Seq(Session!Pieces)]
      /\ n \in Nat  /\ Len(text'[L]) = n + 1  /\ text'[L][n + 1] = p
      /\ \A x \in 1 .. n : text'[L][x] = text[L][x]
      /\ \A i \in Session!Inodes : i # L => text'[i] = text[i]
  <2>1. text' = [text EXCEPT ![L] = Append(@, p)]
    BY DEF Appends
  <2> HIDE DEF L
  <2> QED BY <1>0, <2>1, LogAppends
<1>2. UNCHANGED <<where, array, path, offset, inode, poll, binds, given, again, dropped, whole>> /\ Outside
  BY DEF Appends, Outside
<1>3. Taken' = Taken /\ Session!Known' = Session!Known /\ (Reading' <=> Reading)
  BY <1>2, OutsideKeeps
<1>4. written \in Nat /\ written' \in Nat /\ written <= written'
  BY DEF EInv, Session!TypeOK, Appends
<1>a. \A i \in Session!Inodes : Len(text[i]) \in Nat
  BY <1>0, TextFacts
\* In the text of any inode, what was there is there, and what is new is p.
<1>5. \A i \in Session!Inodes : \A x \in 1 .. Len(text'[i]) :
        \/ x \in 1 .. Len(text[i]) /\ text'[i][x] = text[i][x]
        \/ i = L /\ x = n + 1 /\ text'[i][x] = p
  <2> SUFFICES ASSUME NEW i \in Session!Inodes, NEW x \in 1 .. Len(text'[i])
               PROVE  \/ x \in 1 .. Len(text[i]) /\ text'[i][x] = text[i][x]
                      \/ i = L /\ x = n + 1 /\ text'[i][x] = p
    OBVIOUS
  <2>1. CASE i # L
    BY <1>1, <2>1
  <2>2. CASE i = L
    <3>1. x \in 1 .. n \/ x = n + 1
      BY <1>1, <2>2
    <3> QED BY <1>1, <2>2, <3>1
  <2> QED BY <2>1, <2>2
<1>6. \A i \in Session!Inodes : Len(text[i]) <= Len(text'[i]) /\ Len(text'[i]) \in Nat
                                /\ \A x \in 1 .. Len(text[i]) : text'[i][x] = text[i][x]
  BY <1>1, <1>a
<1>7. Session!TypeOK'
  BY <1>0, <1>1, <1>2 DEF Session!TypeOK
<1>8. Placed'
  <2>1. 2 \in Session!Inodes
    BY Sizes DEF Session!Inodes
  <2>2. text'[2] = text[2]
    BY <1>0, <1>1, <2>1
  <2> QED BY <1>2, <2>2 DEF EInv, Placed
<1>9. Pieced'
  <2> SUFFICES ASSUME NEW i \in Session!Inodes, NEW x \in 1 .. Len(text'[i])
               PROVE  /\ text'[i][x].ev <= written'
                      /\ text'[i][x].part = "head" /\ x < Len(text'[i]) =>
                           text'[i][x + 1] = [text'[i][x] EXCEPT !.part = "tail"]
    BY DEF Pieced
  <2>1. CASE i # L
    <3>1. text'[i] = text[i]
      BY <1>1, <2>1
    <3>2. text[i][x].ev <= written /\ text[i][x].ev \in Nat
      BY <3>1, Numbered
    <3> QED BY <1>4, <3>1, <3>2 DEF EInv, Pieced
  <2>2. CASE i = L /\ x \in 1 .. n
    <3>1. text'[i][x] = text[L][x] /\ text[L][x].ev <= written /\ text[L][x].ev \in Nat
      <4>1. text'[i][x] = text[L][x]
        BY <1>1, <2>2
      <4>2. text[L][x].ev <= written /\ text[L][x].ev \in Nat
        BY <1>0, <2>2, Numbered
      <4> QED BY <4>1, <4>2
    <3>2. CASE x < n
      <4>1. x + 1 \in 1 .. n
        BY <1>1, <2>2, <3>2
      <4>2. text'[i][x + 1] = text[L][x + 1]
        BY <1>1, <2>2, <4>1
      <4>3. text[L][x].part = "head" => text[L][x + 1] = [text[L][x] EXCEPT !.part = "tail"]
        BY <1>0, <2>2, <3>2 DEF EInv, Pieced
      <4> QED BY <1>4, <3>1, <4>2, <4>3
    <3>3. CASE x = n
      <4>1. text'[i][x + 1] = p
        BY <1>1, <2>2, <3>3
      <4>2. text[L][n].part = "head" => Session!Torn
        <5>1. text[L] # <<>>
          BY <1>1, <2>2, EmptySeq
        <5> QED BY <5>1 DEF Session!Torn, Session!Log, Session!Last
      <4>3. Session!Torn => p = [text[L][n] EXCEPT !.part = "tail"]
        BY DEF Appends
      <4> QED BY <1>4, <3>1, <3>3, <4>1, <4>2, <4>3
    <3> QED BY <1>1, <2>2, <3>2, <3>3
  <2>3. CASE i = L /\ x = n + 1
    <3>1. text'[i][x] = p /\ ~(x < Len(text'[i]))
      BY <1>1, <2>3
    <3>2. p.ev <= written'
      <4>1. CASE p.ev = written + 1 /\ written' = written + 1
        BY <1>4, <4>1
      <4>2. CASE p = [text[L][n] EXCEPT !.part = "tail"] /\ Session!Torn /\ written' = written
        <5>1. n \in 1 .. n
          BY <1>0, <1>1, <4>2, TextFacts, EmptySeq DEF Session!Torn, Session!Log
        <5>2. text[L][n].ev <= written /\ text[L][n] \in Session!Pieces
          BY <1>0, <5>1, TextFacts DEF EInv, Pieced
        <5>3. p.ev = text[L][n].ev
          BY <4>2, <5>2 DEF Session!Pieces
        <5> QED BY <4>2, <5>2, <5>3
      <4> QED BY <4>1, <4>2 DEF Appends
    <3> QED BY <3>1, <3>2
  <2> QED BY <1>5, <2>1, <2>2, <2>3
\* A new whole event, or head, has a number that none had.
<1>10. p.part # "tail" => p.ev = written + 1
  BY DEF Appends, Session!Pieces
<1>11. \A i \in Session!Inodes : \A x \in 1 .. Len(text[i]) : p.part # "tail" => text[i][x].ev # p.ev
  <2> SUFFICES ASSUME NEW i \in Session!Inodes, NEW x \in 1 .. Len(text[i]), p.part # "tail" PROVE text[i][x].ev # p.ev
    OBVIOUS
  <2>1. text[i][x].ev <= written /\ text[i][x].ev \in Nat
    BY Numbered
  <2> QED BY <1>4, <1>10, <2>1
<1>12. Unique'
  <2> SUFFICES ASSUME NEW i \in Session!Inodes, NEW j \in Session!Inodes,
                      NEW x \in 1 .. Len(text'[i]), NEW y \in 1 .. Len(text'[j]),
                      text'[i][x].part # "tail", text'[j][y].part # "tail", text'[i][x].ev = text'[j][y].ev
               PROVE  i = j /\ x = y
    BY DEF Unique
  <2>1. CASE x \in 1 .. Len(text[i]) /\ text'[i][x] = text[i][x] /\ y \in 1 .. Len(text[j]) /\ text'[j][y] = text[j][y]
    BY <2>1 DEF EInv, Unique
  <2>2. CASE /\ x \in 1 .. Len(text[i]) /\ text'[i][x] = text[i][x]
             /\ j = L /\ y = n + 1 /\ text'[j][y] = p
    BY <1>11, <2>2
  <2>3. CASE /\ y \in 1 .. Len(text[j]) /\ text'[j][y] = text[j][y]
             /\ i = L /\ x = n + 1 /\ text'[i][x] = p
    BY <1>11, <2>3
  <2>4. CASE i = L /\ x = n + 1 /\ j = L /\ y = n + 1
    BY <2>4
  <2> QED BY <1>5, <2>1, <2>2, <2>3, <2>4
<1>13. Staged'
  BY <1>2, <1>3 DEF EInv, Staged
<1>14. Once'
  <2>1. Taken' \subseteq 1 .. written'
    BY <1>3, <1>4 DEF EInv, Once
  <2>2. Session!Held(poll)' = Session!Held(poll)
    BY <1>2 DEF Session!Held, Session!Range
  <2> QED BY <1>2, <2>1, <2>2 DEF EInv, Once
<1>15. p.part # "tail" => p.ev \notin Taken
  <2>1. Taken \subseteq 1 .. written
    BY DEF EInv, Once
  <2> QED BY <1>4, <1>10, <2>1
<1>16. \A f \in Session!Inodes : (TakenBelow(f) => TakenBelow(f)') /\ (NoneTaken(f) => NoneTaken(f)')
  BY <1>2, <1>3, <1>5, <1>15 DEF TakenBelow, NoneTaken
<1>17. where[path] \in Session!Inodes /\ (Reading => poll.file \in Session!Inodes)
  <2>1. path \in {"log", "import"} /\ 2 \in Session!Inodes
    BY Sizes DEF EInv, Session!TypeOK, Session!LogPaths, Session!Inodes
  <2> QED BY <2>1 DEF EInv, Placed, Staged, Reading
<1>18. Below'
  <2>1. TakenBelow(where[path])'
    BY <1>2, <1>16, <1>17 DEF EInv, Below, TakenBelow
  <2>2. Reading => TakenBelow(poll.file)'
    BY <1>2, <1>16, <1>17 DEF EInv, Below, TakenBelow
  <2>3. NoneTaken(where[path]) => NoneTaken(where[path])'
    BY <1>2, <1>16, <1>17 DEF NoneTaken
  <2>4. offset <= Len(text[where[path]]) => offset <= Len(text'[where[path]])
    <3>1. offset \in Nat
      BY <1>0 DEF Session!TypeOK
    <3> QED BY <1>6, <1>17, <1>a, <3>1
  <2>5. /\ Reading' => TakenBelow(poll.file)' /\ (poll'.file # where'[path'] => NoneTaken(where[path])')
        /\ NoneTaken(where[path])' \/ inode' = where'[path'] \/ offset' <= Len(text'[where'[path']])
    BY <1>2, <1>3, <2>2, <2>3, <2>4 DEF EInv, Below
  <2> QED BY <2>1, <2>5 DEF Below
<1>19. Entered'
  <2> SUFFICES ASSUME whole' PROVE /\ inode' = 0 => offset' = 0
                                   /\ inode' # 0 => offset' <= Len(text'[inode']) /\ \A x \in 1 .. offset' :
                                        text'[inode'][x].ev \in Session!Known' \/ text'[inode'][x].kind = "other"
                                   /\ Reading' => poll'.file = inode'
                                   /\ poll'.at = "open" => ~poll'.old
    BY DEF Entered
  <2>1. whole
    BY <1>2
  <2>2. CASE inode = 0
    BY <1>2, <1>3, <2>1, <2>2 DEF EInv, Entered
  <2>3. CASE inode # 0
    <3>1. inode \in Session!Inodes
      BY <1>0, <2>3, Sizes DEF Session!TypeOK, Session!Inodes
    <3>2. offset <= Len(text[inode]) /\ offset \in Nat
      BY <1>0, <2>1, <2>3 DEF EInv, Entered, Session!TypeOK
    <3>3. offset <= Len(text'[inode]) /\ \A x \in 1 .. offset : text'[inode][x] = text[inode][x]
      BY <1>6, <1>a, <3>1, <3>2
    <3> QED BY <1>2, <1>3, <2>1, <2>3, <3>3 DEF EInv, Entered
  <2> QED BY <2>2, <2>3
<1> QED BY <1>7, <1>8, <1>9, <1>12, <1>13, <1>14, <1>18, <1>19 DEF EInv

-----------------------------------------------------------------------------
\* Where the session is: an inode each.
LEMMA Standing ==
  ASSUME EInv
  PROVE  /\ where[path] \in Session!Inodes  /\ path \in {"log", "import"}
         /\ offset \in Nat  /\ written \in Nat
         /\ inode # 0 => inode \in Session!Inodes
         /\ Reading => poll.file \in Session!Inodes
         /\ \A i \in Session!Inodes : i # 0 /\ Len(text[i]) \in Nat
<1>1. path \in {"log", "import"} /\ 2 \in Session!Inodes
  BY Sizes DEF EInv, Session!TypeOK, Session!LogPaths, Session!Inodes
<1>2. where[path] \in Session!Inodes
  BY <1>1 DEF EInv, Placed
<1>3. offset \in Nat /\ written \in Nat
  BY Sizes DEF EInv, Session!TypeOK
<1>4. inode # 0 => inode \in Session!Inodes
  BY Sizes DEF EInv, Session!TypeOK, Session!Inodes
<1>5. Reading => poll.file \in Session!Inodes
  BY DEF EInv, Staged, Reading
<1>6. \A i \in Session!Inodes : i # 0
  BY Sizes DEF Session!Inodes
<1>7. \A i \in Session!Inodes : Len(text[i]) \in Nat
  BY TextFacts DEF EInv
<1> QED BY <1>1, <1>2, <1>3, <1>4, <1>5, <1>6, <1>7

LEMMA RotateKeeps ==
  ASSUME EInv, Session!Rotate
  PROVE  EInv'
<1> DEFINE k == CHOOSE i \in Session!Fresh : TRUE
<1>1. k \in Session!Fresh
  BY DEF Session!Rotate
<1>2. k \in Session!Inodes /\ k # 2 /\ text[k] = <<>>
  <2>1. Session!Inodes \subseteq Nat
    BY DEF Session!Inodes
  <2> QED BY <1>1, <2>1 DEF Session!Fresh
<1> HIDE DEF k
<1>3. /\ where' = [where EXCEPT !["log"] = k]
      /\ UNCHANGED <<text, array, written, path, offset, inode, poll, binds, given, again, dropped, whole>>
  BY DEF Session!Rotate, k, Session!consumer, Session!hist
<1>4. where \in [Session!LogPaths -> 0 .. MaxLogs] /\ "log" \in Session!LogPaths /\ "import" \in Session!LogPaths
  BY DEF EInv, Session!TypeOK, Session!LogPaths
<1>5. where'["log"] = k /\ where'["import"] = where["import"]
  BY <1>3, <1>4
<1>6. Outside
  BY <1>3 DEF Outside
<1>7. Taken' = Taken /\ Session!Known' = Session!Known /\ (Reading' <=> Reading)
  BY <1>6, OutsideKeeps
<1>8. Session!TypeOK'
  <2>1. where' \in [Session!LogPaths -> 0 .. MaxLogs]
    BY <1>2, <1>3, <1>4, Sizes DEF Session!Inodes
  <2> QED BY <1>3, <2>1 DEF EInv, Session!TypeOK
<1>9. Placed'
  BY <1>2, <1>3, <1>5 DEF EInv, Placed
<1>10. Pieced' /\ Unique'
  BY <1>3 DEF EInv, Pieced, Unique
<1>11. Staged'
  BY <1>3, <1>7 DEF EInv, Staged
<1>12. Once'
  BY <1>3, <1>7 DEF EInv, Once, Session!Held, Session!Range
<1>13. Below'
  <2>1. Reading' => TakenBelow(poll.file)'
    BY <1>3, <1>7 DEF EInv, Below, TakenBelow
  <2>2. CASE path = "log"
    <3>1. where'[path'] = k /\ text'[k] = <<>> /\ Len(<<>>) = 0
      BY <1>2, <1>3, <1>5, <2>2, EmptySeq
    <3>2. TakenBelow(where[path])' /\ NoneTaken(where[path])'
      BY <3>1 DEF TakenBelow, NoneTaken
    <3> QED BY <2>1, <3>2 DEF Below
  <2>3. CASE path = "import"
    <3>1. where'[path'] = where[path]
      BY <1>3, <1>5, <2>3
    <3>2. (TakenBelow(where[path])' <=> TakenBelow(where[path])) /\ (NoneTaken(where[path])' <=> NoneTaken(where[path]))
      BY <1>3, <1>7, <3>1 DEF TakenBelow, NoneTaken
    <3> QED BY <1>3, <1>7, <2>1, <3>1, <3>2 DEF EInv, Below
  <2> QED BY <2>2, <2>3, Standing
<1>14. Entered'
  BY <1>3, <1>7 DEF EInv, Entered
<1> QED BY <1>8, <1>9, <1>10, <1>11, <1>12, <1>13, <1>14 DEF EInv

LEMMA TruncateKeeps ==
  ASSUME EInv, Session!Truncate
  PROVE  EInv'
<1> DEFINE L == where["log"]
<1>1. L \in Session!Inodes /\ L # 2
  BY DEF EInv, Placed
<1>a. /\ whole' = (whole /\ ~(path = "log" /\ offset > 0))
  BY DEF Session!Truncate
<1>b. whole' \in BOOLEAN /\ (whole' => whole) /\ (whole' => ~(path = "log" /\ offset > 0))
  BY <1>a, Zenon
<1>2. /\ text' = [text EXCEPT ![L] = <<>>]
      /\ UNCHANGED <<where, array, written, path, offset, inode, poll, binds, given, again, dropped>>
  BY Zenon DEF Session!Truncate, Session!Log, Session!consumer
<1>3. text \in [Session!Inodes -> Seq(Session!Pieces)] /\ <<>> \in Seq(Session!Pieces) /\ Len(<<>>) = 0
  BY EmptySeq DEF EInv, Session!TypeOK
<1>4. /\ text' \in [Session!Inodes -> Seq(Session!Pieces)]
      /\ text'[L] = <<>>  /\ \A i \in Session!Inodes : i # L => text'[i] = text[i]
  BY <1>1, <1>2, <1>3
<1> HIDE DEF L
<1>5. Outside
  BY <1>2 DEF Outside
<1>6. Taken' = Taken /\ Session!Known' = Session!Known /\ (Reading' <=> Reading)
  BY <1>5, OutsideKeeps
<1>7. Session!TypeOK'
  <2>1. {again, whole} \subseteq BOOLEAN /\ {again', whole'} \subseteq BOOLEAN
    <3>1. again \in BOOLEAN /\ whole \in BOOLEAN /\ again' = again
      BY <1>2 DEF EInv, Session!TypeOK
    <3> QED BY ONLY <1>b, <3>1
  <2> QED BY <1>2, <1>4, <2>1 DEF EInv, Session!TypeOK
<1>8. Placed'
  <2>1. 2 \in Session!Inodes
    BY Sizes DEF Session!Inodes
  <2>2. text'[2] = text[2]
    BY <1>1, <1>4, <2>1
  <2> QED BY <1>2, <2>2 DEF EInv, Placed
\* What is there afterwards was there.
<1>9. \A i \in Session!Inodes : \A x \in 1 .. Len(text'[i]) : i # L /\ text'[i] = text[i]
  BY <1>3, <1>4
<1>10. Pieced'
  BY <1>2, <1>9 DEF EInv, Pieced
<1>11. Unique'
  BY <1>9 DEF EInv, Unique
<1>12. Staged'
  BY <1>2, <1>6 DEF EInv, Staged
<1>13. Once'
  BY <1>2, <1>6 DEF EInv, Once, Session!Held, Session!Range
<1>14. \A f \in Session!Inodes : (TakenBelow(f) => TakenBelow(f)') /\ (NoneTaken(f) => NoneTaken(f)')
  BY <1>2, <1>6, <1>9 DEF TakenBelow, NoneTaken
<1>15. Below'
  <2>1. TakenBelow(where[path])'
    BY <1>2, <1>14, Standing DEF EInv, Below, TakenBelow
  <2>2. Reading' => TakenBelow(poll.file)' /\ (poll'.file # where'[path'] => NoneTaken(where[path])')
    BY <1>2, <1>6, <1>14, Standing DEF EInv, Below, TakenBelow, NoneTaken
  <2>3. NoneTaken(where[path])' \/ inode' = where'[path'] \/ offset' <= Len(text'[where'[path']])
    <3>1. CASE where[path] = L
      BY <1>2, <1>3, <1>4, <3>1 DEF NoneTaken
    <3>2. CASE where[path] # L
      <4>1. text'[where[path]] = text[where[path]]
        BY <1>4, <3>2, Standing
      <4>2. NoneTaken(where[path]) => NoneTaken(where[path])'
        BY <1>2, <1>14, Standing DEF NoneTaken
      <4> QED BY <1>2, <4>1, <4>2 DEF EInv, Below
    <3> QED BY <3>1, <3>2
  <2> QED BY <2>1, <2>2, <2>3 DEF Below
<1>16. Entered'
  <2>1. CASE ~whole'
    BY <2>1 DEF Entered
  <2>2. CASE whole' /\ inode # L
    <3>1. inode # 0 => text'[inode] = text[inode]
      BY <1>4, <2>2, Standing
    <3> QED BY <1>b, <1>2, <1>6, <2>2, <3>1 DEF EInv, Entered
  <2>3. CASE whole' /\ inode = L
    <3>1. inode # 0 /\ inode # 2
      BY <1>1, <2>3, Standing
    <3>2. path = "log"
      BY <3>1, Standing DEF EInv, Placed
    <3>3. offset = 0
      BY <1>b, <1>2, <2>3, <3>2, Standing
    <3>4. whole /\ offset' <= Len(text'[inode']) /\ 1 .. offset' = {} /\ inode' # 0
      BY <1>b, <1>2, <1>3, <1>4, <2>3, <3>1, <3>3
    <3>5. (Reading' => poll'.file = inode') /\ (poll'.at = "open" => ~poll'.old)
      BY <1>2, <1>6, <3>4 DEF EInv, Entered
    <3> QED BY <3>4, <3>5 DEF Entered
  <2> QED BY <2>1, <2>2, <2>3
<1> QED BY <1>7, <1>8, <1>10, <1>11, <1>12, <1>13, <1>15, <1>16 DEF EInv

-----------------------------------------------------------------------------
Polls == [at : Session!Places, file : 0 .. MaxLogs, pos : Nat, left : 0 .. PollLines,
          alerts : Seq(Session!Events), flows : Seq(Session!Events), old : BOOLEAN]

\* Sequences as sets, and a poll's types.
LEMMA RangeOf ==
  ASSUME NEW S, NEW s \in Seq(S)
  PROVE  Session!Range(s) = {s[m] : m \in 1 .. Len(s)} /\ Session!Range(s) \subseteq S
<1>1. DOMAIN s = 1 .. Len(s) /\ \A m \in 1 .. Len(s) : s[m] \in S
  BY LenProperties, ElementOfSeq
<1> QED BY <1>1 DEF Session!Range

LEMMA PollFacts ==
  ASSUME EInv
  PROVE  /\ poll \in Polls
         /\ poll.at \in Session!Places  /\ poll.file \in 0 .. MaxLogs  /\ poll.pos \in Nat  /\ poll.left \in 0 .. PollLines
         /\ poll.alerts \in Seq(Session!Events)  /\ poll.flows \in Seq(Session!Events)  /\ poll.old \in BOOLEAN
         /\ Session!Held(poll) \subseteq Session!Events
<1>1. poll \in Polls
  BY DEF EInv, Session!TypeOK, Polls
<1>2. /\ poll.at \in Session!Places  /\ poll.file \in 0 .. MaxLogs  /\ poll.pos \in Nat  /\ poll.left \in 0 .. PollLines
      /\ poll.alerts \in Seq(Session!Events)  /\ poll.flows \in Seq(Session!Events)  /\ poll.old \in BOOLEAN
  BY <1>1 DEF Polls
<1>3. Session!Range(poll.alerts) \subseteq Session!Events /\ Session!Range(poll.flows) \subseteq Session!Events
  BY <1>2, RangeOf
<1> QED BY <1>1, <1>2, <1>3 DEF Session!Held

LEMMA NothingHeld ==
  /\ Session!NoPoll \in Polls
  /\ Session!NoPoll.at = "idle"  /\ Session!NoPoll.alerts = <<>>  /\ Session!NoPoll.flows = <<>>
  /\ Session!NoPoll.old = FALSE
  /\ Session!Range(<<>>) = {}  /\ Session!Held(Session!NoPoll) = {}
  /\ Len(<<>>) = 0
<1>1. Len(<<>>) = 0 /\ 1 .. 0 = {} /\ <<>> \in Seq(Session!Events) /\ DOMAIN <<>> = {}
  BY EmptySeq
<1>2. Session!Range(<<>>) = {}
  BY <1>1 DEF Session!Range
<1>3. 0 \in 0 .. MaxLogs /\ 0 \in 0 .. PollLines /\ 0 \in Nat
  BY Sizes
<1>4. Session!NoPoll \in Polls
  BY <1>1, <1>3 DEF Session!NoPoll, Polls, Session!Places
<1> QED BY <1>1, <1>2, <1>4 DEF Session!NoPoll, Session!Held

\* A step of the session leaves the logs as they are.
LEMMA LogsStay ==
  ASSUME EInv, UNCHANGED <<text, where, array, written, path>>
  PROVE  /\ (path = "import" => inode' \in {0, 2}) => Placed'
         /\ Pieced'  /\ Unique'
<1>1. (path = "import" => inode' \in {0, 2}) => Placed'
  BY DEF EInv, Placed
<1>2. Pieced'
  BY DEF EInv, Pieced
<1>3. Unique'
  BY DEF EInv, Unique
<1> QED BY <1>1, <1>2, <1>3

\* What a step has to show of the types.
LEMMA StepTypes ==
  ASSUME EInv, UNCHANGED <<text, where, array, written>>,
         path' \in Session!LogPaths, offset' \in Nat, inode' \in 0 .. MaxLogs, poll' \in Polls, binds' \in 0 .. MaxBinds,
         given' \subseteq Session!Events, dropped' \subseteq Session!Events, again' \in BOOLEAN, whole' \in BOOLEAN
  PROVE  Session!TypeOK'
<1>1. {again', whole'} \subseteq BOOLEAN
  BY Zenon
<1>2. poll' \in [at : Session!Places, file : 0 .. MaxLogs, pos : Nat, left : 0 .. PollLines,
                 alerts : Seq(Session!Events), flows : Seq(Session!Events), old : BOOLEAN]
  BY DEF Polls
<1> QED BY <1>1, <1>2 DEF EInv, Session!TypeOK, Session!Events, Session!Inodes, Session!Pieces, Session!LogPaths, Session!Places

\* A step that reads nothing: events change hands, and none is taken that was not.
Hands ==
  /\ UNCHANGED <<text, where, array, written, path, offset, inode, whole, binds>>
  /\ Taken' \subseteq Taken  /\ Session!Known \subseteq Session!Known'
  /\ poll'.at \notin {"read", "open"}
LEMMA HandsKeep ==
  ASSUME EInv, Hands
  PROVE  Placed' /\ Pieced' /\ Unique' /\ Below' /\ Entered'
<1>1. Placed' /\ Pieced' /\ Unique'
  BY LogsStay DEF Hands, EInv, Placed
<1>2. ~Reading'
  BY DEF Hands, Reading
<1>3. Below'
  <2>1. /\ TakenBelow(where[path]) => TakenBelow(where[path])'
        /\ NoneTaken(where[path]) => NoneTaken(where[path])'
    BY DEF Hands, TakenBelow, NoneTaken
  <2>2. NoneTaken(where[path])' \/ inode' = where'[path'] \/ offset' <= Len(text'[where'[path']])
    BY <2>1 DEF EInv, Below, Hands
  <2> QED BY <1>2, <2>1, <2>2 DEF EInv, Below
<1>4. Entered'
  BY <1>2 DEF EInv, Entered, Hands
<1> QED BY <1>1, <1>3, <1>4

\* An event of the batch that is handed on was not handed on before.
LEMMA Gives ==
  ASSUME EInv, NEW evs, evs \subseteq Session!Held(poll), Session!Give(evs)
  PROVE  /\ again' = FALSE
         /\ given' = IF poll.old THEN given ELSE given \cup evs
<1>1. again \in BOOLEAN /\ ~again /\ poll.old \in BOOLEAN
  BY PollFacts DEF EInv, Once, Session!TypeOK
<1>2. CASE poll.old
  BY <1>1, <1>2 DEF Session!Give
<1>3. CASE ~poll.old
  <2>1. given' = given \cup evs /\ again' = (again \/ evs \cap given # {})
    BY <1>3 DEF Session!Give
  <2>2. evs \cap given = {}
    BY <1>3 DEF EInv, Once
  <2>3. ~(evs \cap given # {})
    BY <2>2
  <2>4. again' = FALSE
    BY <1>1, <2>1, <2>3, Zenon
  <2> QED BY <1>3, <2>1, <2>4
<1> QED BY <1>1, <1>2, <1>3

LEMMA PollEndKeeps ==
  ASSUME EInv, Session!PollEnd
  PROVE  EInv'
<1>1. /\ poll.at = "read"  /\ poll' = [poll EXCEPT !.at = "alerts"]
      /\ UNCHANGED <<text, where, array, written, path, offset, inode, binds, given, again, dropped, whole>>
  BY DEF Session!PollEnd, Session!logs, Session!consumer, Session!hist
<1>2. /\ poll' \in Polls  /\ poll'.at = "alerts"
      /\ poll'.alerts = poll.alerts  /\ poll'.flows = poll.flows  /\ poll'.old = poll.old
  BY <1>1, PollFacts DEF Polls, Session!Places
<1>3. Session!Held(poll)' = Session!Held(poll)
  BY <1>2 DEF Session!Held, Session!Range
<1>4. Taken' = Taken /\ Session!Known' = Session!Known
  BY <1>1, <1>2, <1>3 DEF Taken, Session!Known
<1>5. Hands
  BY <1>1, <1>2, <1>4 DEF Hands
<1>6. Session!TypeOK'
  BY <1>1, <1>2, StepTypes DEF EInv, Session!TypeOK
<1>7. Staged'
  BY <1>1, <1>2 DEF EInv, Staged, Reading
<1>8. Once'
  <2>1. Session!Range(poll.alerts)' = Session!Range(poll.alerts) /\ Session!Range(poll.flows)' = Session!Range(poll.flows)
    BY <1>2 DEF Session!Range
  <2> QED BY <1>1, <1>2, <1>3, <1>4, <2>1 DEF EInv, Once
<1> QED BY <1>5, <1>6, <1>7, <1>8, HandsKeep DEF EInv

LEMMA EmitKeeps ==
  ASSUME EInv, Session!Emit
  PROVE  EInv'
<1>1. /\ poll.at = "alerts"
      /\ UNCHANGED <<text, where, array, written, path, offset, inode, binds, dropped, whole>>
  BY DEF Session!Emit, Session!logs, Session!consumer
<1>2. CASE poll.alerts = <<>>
  <2>1. poll' = [poll EXCEPT !.at = "flows"] /\ UNCHANGED <<given, again>>
    BY <1>2 DEF Session!Emit
  <2>2. /\ poll' \in Polls  /\ poll'.at = "flows"
        /\ poll'.alerts = poll.alerts  /\ poll'.flows = poll.flows  /\ poll'.old = poll.old
    BY <2>1, PollFacts DEF Polls, Session!Places
  <2>3. Session!Held(poll)' = Session!Held(poll)
    BY <2>2 DEF Session!Held, Session!Range
  <2>4. Taken' = Taken /\ Session!Known' = Session!Known
    BY <1>1, <2>1, <2>2, <2>3 DEF Taken, Session!Known
  <2>5. Hands
    BY <1>1, <2>2, <2>4 DEF Hands
  <2>6. Session!TypeOK'
    BY <1>1, <2>1, <2>2, StepTypes DEF EInv, Session!TypeOK
  <2>7. Staged'
    BY <1>1, <1>2, <2>1, <2>2 DEF EInv, Staged, Reading
  <2>8. Once'
    <3>1. Session!Range(poll.alerts)' = Session!Range(poll.alerts) /\ Session!Range(poll.flows)' = Session!Range(poll.flows)
      BY <2>2 DEF Session!Range
    <3> QED BY <1>1, <2>1, <2>2, <2>3, <2>4, <3>1 DEF EInv, Once
  <2> QED BY <2>5, <2>6, <2>7, <2>8, HandsKeep DEF EInv
<1>3. CASE poll.alerts # <<>>
  <2> DEFINE s == poll.alerts
             e == Head(poll.alerts)
             r == Tail(poll.alerts)
  <2>1. poll' = [poll EXCEPT !.alerts = r] /\ Session!Give({e})
    BY <1>3 DEF Session!Emit
  <2>2. /\ s \in Seq(Session!Events)  /\ Len(s) \in Nat  /\ 1 \in 1 .. Len(s)  /\ e = s[1]
        /\ r \in Seq(Session!Events)  /\ Len(r) = Len(s) - 1  /\ \A m \in 1 .. Len(r) : r[m] = s[m + 1]
    BY <1>3, PollFacts, HeadTailProperties, EmptySeq, LenProperties
  <2>3. /\ Session!Range(s) = {s[m] : m \in 1 .. Len(s)}  /\ Session!Range(r) = {r[m] : m \in 1 .. Len(r)}
    BY <2>2, RangeOf
  <2>4. /\ poll' \in Polls  /\ poll'.at = "alerts"
        /\ poll'.alerts = r  /\ poll'.flows = poll.flows  /\ poll'.old = poll.old
    BY <1>1, <2>1, <2>2, PollFacts DEF Polls, Session!Places
  <2> HIDE DEF s, e, r
  <2>5. \A m \in 1 .. Len(r) : m + 1 \in 1 .. Len(s) /\ m + 1 # 1
    BY <2>2
  <2>6. Session!Range(s) = {e} \cup Session!Range(r)
    <3>1. \A m \in 1 .. Len(s) : m = 1 \/ (m - 1 \in 1 .. Len(r) /\ s[m] = r[m - 1])
      BY <2>2
    <3> QED BY <2>2, <2>3, <2>5, <3>1
  <2>7. Session!Held(poll) = {e} \cup Session!Held(poll')
    BY <2>4, <2>6 DEF Session!Held, s
  <2>8. again' = FALSE /\ given' = IF poll.old THEN given ELSE given \cup {e}
    BY <2>1, <2>7, Gives
  <2>9. Session!Held(poll)' = Session!Held(poll')
    BY DEF Session!Held, Session!Range
  <2>10. Taken' = Taken /\ Session!Known' = Session!Known
    BY <1>1, <2>4, <2>7, <2>8, <2>9 DEF Taken, Session!Known
  <2>11. Hands
    BY <1>1, <2>4, <2>10 DEF Hands
  <2>12. Session!TypeOK'
    <3>1. e \in Session!Events
      BY <2>2, ElementOfSeq
    <3>2. given' \subseteq Session!Events /\ again' \in BOOLEAN
      BY <2>8, <3>1 DEF EInv, Session!TypeOK
    <3> QED BY <1>1, <2>4, <3>2, StepTypes DEF EInv, Session!TypeOK
  <2>13. Staged'
    BY <1>1, <2>4, <2>8 DEF EInv, Staged, Reading
  <2>14. Once'
    <3>1. ~again' /\ Taken' \subseteq 1 .. written'
      BY <1>1, <2>8, <2>10 DEF EInv, Once
    <3>2. ASSUME ~poll.old
          PROVE  /\ \A m, n \in 1 .. Len(r) : r[m] = r[n] => m = n
                 /\ Session!Range(r) \cap Session!Range(poll.flows) = {}
                 /\ given' \cap Session!Held(poll') = {}
      <4>1. \A m, n \in 1 .. Len(s) : s[m] = s[n] => m = n
        BY <3>2 DEF EInv, Once, s
      <4>2. \A m, n \in 1 .. Len(r) : r[m] = r[n] => m = n
        <5> SUFFICES ASSUME NEW m \in 1 .. Len(r), NEW n \in 1 .. Len(r), r[m] = r[n] PROVE m = n
          OBVIOUS
        <5>1. m + 1 = n + 1
          BY <2>2, <2>5, <4>1
        <5> QED BY <5>1
      <4>3. Session!Range(s) \cap Session!Range(poll.flows) = {} /\ given \cap Session!Held(poll) = {}
        BY <3>2 DEF EInv, Once, s
      <4>4. e \notin Session!Range(r)
        BY <2>2, <2>3, <2>5, <4>1
      <4>5. e \notin Session!Range(poll.flows)
        BY <2>6, <4>3
      <4>6. e \notin Session!Held(poll')
        BY <2>4, <4>4, <4>5 DEF Session!Held
      <4> QED BY <2>6, <2>7, <2>8, <3>2, <4>2, <4>3, <4>6
    <3>3. Session!Range(poll.alerts)' = Session!Range(r) /\ Session!Range(poll.flows)' = Session!Range(poll.flows)
      BY <2>4 DEF Session!Range
    <3> QED BY <2>4, <2>9, <3>1, <3>2, <3>3 DEF Once
  <2> QED BY <2>11, <2>12, <2>13, <2>14, HandsKeep DEF EInv
<1> QED BY <1>2, <1>3

\* The poll is over: nothing is held.
LEMMA OverKeeps ==
  ASSUME EInv, poll' = Session!NoPoll, UNCHANGED <<text, where, array, written, path, offset, inode, whole, binds>>,
         again' = FALSE, given' \subseteq Taken, dropped' \subseteq Session!Events,
         Session!Known \subseteq given' \cup dropped'
  PROVE  EInv'
<1>1. Session!Held(poll)' = {} /\ poll'.old = FALSE /\ poll'.alerts = <<>> /\ poll'.flows = <<>> /\ poll'.at = "idle"
  <2>1. Session!Held(poll)' = Session!Held(poll')
    BY DEF Session!Held, Session!Range
  <2> QED BY <2>1, NothingHeld
<1>2. Taken' = given' /\ Session!Known' = given' \cup dropped'
  BY <1>1 DEF Taken, Session!Known
<1>3. Hands
  BY <1>1, <1>2 DEF Hands
<1>4. Session!TypeOK'
  <2>1. Taken \subseteq Session!Events
    BY PollFacts DEF Taken, EInv, Session!TypeOK
  <2> QED BY <2>1, NothingHeld, StepTypes DEF EInv, Session!TypeOK
<1>5. Staged'
  BY <1>1 DEF Staged, Reading
<1>6. Once'
  <2>1. Taken' \subseteq 1 .. written'
    BY <1>2 DEF EInv, Once
  <2>2. Session!Range(poll.alerts)' = {}
    <3>1. Session!Range(poll.alerts)' = Session!Range(<<>>)
      BY <1>1 DEF Session!Range
    <3> QED BY <3>1, NothingHeld
  <2> QED BY <1>1, <2>1, <2>2, NothingHeld DEF Once
<1> QED BY <1>3, <1>4, <1>5, <1>6, HandsKeep DEF EInv

LEMMA ScoreKeeps ==
  ASSUME EInv, Session!Score
  PROVE  EInv'
<1>1. /\ poll.at = "flows"  /\ poll' = Session!NoPoll  /\ Session!Give(Session!Range(poll.flows))
      /\ UNCHANGED <<text, where, array, written, path, offset, inode, binds, dropped, whole>>
  BY DEF Session!Score, Session!logs, Session!consumer
<1>2. Session!Held(poll) = Session!Range(poll.flows)
  <2>1. poll.alerts = <<>>
    BY <1>1 DEF EInv, Staged
  <2> QED BY <2>1, NothingHeld DEF Session!Held
<1>3. again' = FALSE /\ given' = IF poll.old THEN given ELSE given \cup Session!Range(poll.flows)
  BY <1>1, <1>2, Gives
<1>4. given' = Taken /\ Session!Known = given' \cup dropped
  BY <1>2, <1>3 DEF Taken, Session!Known
<1>5. dropped' \subseteq Session!Events
  BY <1>1 DEF EInv, Session!TypeOK
<1> QED BY <1>1, <1>3, <1>4, <1>5, OverKeeps

LEMMA BatchFailsKeeps ==
  ASSUME EInv, Session!BatchFails
  PROVE  EInv'
<1>1. /\ poll' = Session!NoPoll  /\ dropped' = dropped \cup Session!Held(poll) \cup {}
      /\ UNCHANGED <<text, where, array, written, path, offset, inode, binds, given, again, whole>>
  BY DEF Session!BatchFails, Session!Raise, Session!logs, Session!consumer
<1>2. again' = FALSE
  BY <1>1 DEF EInv, Once, Session!TypeOK
<1>3. given' \subseteq Taken /\ Session!Known \subseteq given' \cup dropped'
  BY <1>1 DEF Taken, Session!Known
<1>4. dropped' \subseteq Session!Events
  BY <1>1, PollFacts DEF EInv, Session!TypeOK
<1> QED BY <1>1, <1>2, <1>3, <1>4, OverKeeps

-----------------------------------------------------------------------------
(* The steps of a poll, and a rebind.                                      *)

LEMMA CheckKeeps ==
  ASSUME EInv, Session!Check
  PROVE  EInv'
<1> DEFINE i == where[path]
           rotated == Session!Rotated(i)
<1>1. /\ poll.at = "idle"  /\ inode' = i
      /\ offset' = IF rotated THEN 0 ELSE offset
      /\ poll' = [Session!NoPoll EXCEPT !.at = "open", !.left = PollLines]
      /\ UNCHANGED <<text, where, array, written, path, binds, given, again, dropped>>
  BY DEF Session!Check, Session!logs
<1>2. whole' = IF rotated THEN TRUE ELSE whole /\ (inode \in {0, i} \/ offset = 0)
  BY DEF Session!Check
<1>3. whole' \in BOOLEAN /\ (whole' /\ ~rotated => whole /\ (inode \in {0, i} \/ offset = 0))
  <2>1. CASE rotated
    BY <1>2, <2>1
  <2>2. CASE ~rotated
    <3>1. whole' = (whole /\ (inode \in {0, i} \/ offset = 0))
      BY <1>2, <2>2, Zenon
    <3> HIDE DEF i, rotated
    <3> QED BY <3>1, Zenon
  <2> QED BY <2>1, <2>2
<1>4. rotated => ~(offset <= Len(text[i])) /\ inode # i
  BY Standing DEF Session!Rotated
<1> HIDE DEF rotated, i
<1>5. poll = Session!NoPoll /\ poll.old = FALSE
  BY <1>1, NothingHeld DEF EInv, Staged
<1>6. /\ poll' \in Polls  /\ poll'.at = "open"  /\ poll'.alerts = <<>>  /\ poll'.flows = <<>>  /\ poll'.old = FALSE
  <2>1. PollLines \in 0 .. PollLines
    BY Sizes
  <2> QED BY <1>1, <2>1, NothingHeld DEF Polls, Session!Places
<1>7. Session!Held(poll) = {} /\ Session!Held(poll)' = {} /\ Session!Range(poll.alerts)' = {}
  <2>1. Session!Range(poll.alerts)' = Session!Range(<<>>) /\ Session!Range(poll.flows)' = Session!Range(<<>>)
    BY <1>6 DEF Session!Range
  <2>2. Session!Held(poll)' = Session!Range(poll.alerts)' \cup Session!Range(poll.flows)'
    BY DEF Session!Held
  <2> QED BY <1>5, <2>1, <2>2, NothingHeld
<1>8. Taken' = Taken /\ Session!Known' = Session!Known
  BY <1>1, <1>5, <1>6, <1>7 DEF Taken, Session!Known
<1>9. ~Reading'
  BY <1>6 DEF Reading
<1>10. i \in Session!Inodes /\ i # 0 /\ i \in 0 .. MaxLogs /\ i = where'[path'] /\ i = where[path]
  <2>1. i \in Session!Inodes /\ i = where[path]
    BY Standing DEF i
  <2> QED BY <1>1, <2>1, Standing, Sizes DEF Session!Inodes
<1>11. Session!TypeOK'
  <2>1. offset' \in Nat
    BY <1>1, Standing
  <2>2. path' \in Session!LogPaths /\ binds' \in 0 .. MaxBinds /\ given' \subseteq Session!Events
        /\ dropped' \subseteq Session!Events /\ again' \in BOOLEAN
    BY <1>1 DEF EInv, Session!TypeOK
  <2> QED BY <1>1, <1>3, <1>6, <1>10, <2>1, <2>2, StepTypes
<1>12. Placed' /\ Pieced' /\ Unique'
  BY <1>1, <1>10, LogsStay DEF EInv, Placed
<1>13. Staged'
  BY <1>6, <1>9 DEF Staged
<1>14. Once'
  BY <1>1, <1>6, <1>7, <1>8, NothingHeld DEF EInv, Once
<1>15. Below'
  <2>1. TakenBelow(where[path])'
    <3>1. CASE rotated
      <4>1. NoneTaken(i)
        BY <1>4, <1>10, <3>1 DEF EInv, Below
      <4> QED BY <1>1, <1>8, <1>10, <4>1 DEF NoneTaken, TakenBelow
    <3>2. CASE ~rotated
      BY <1>1, <1>8, <3>2 DEF EInv, Below, TakenBelow
    <3> QED BY <3>1, <3>2
  <2> QED BY <1>1, <1>9, <1>10, <2>1 DEF Below
<1>16. Entered'
  <2>1. CASE ~whole'
    BY <2>1 DEF Entered
  <2>2. CASE whole' /\ offset' = 0
    <3>1. offset' <= Len(text'[inode']) /\ 1 .. offset' = {}
      BY <1>1, <1>10, <2>2, Standing
    <3> QED BY <1>6, <1>9, <2>2, <3>1 DEF Entered
  <2>3. CASE whole' /\ offset' # 0
    <3>1. ~rotated /\ offset' = offset /\ whole /\ (inode \in {0, i} \/ offset = 0)
      BY <1>1, <1>3, <2>3
    <3>2. inode = i
      BY <2>3, <3>1 DEF EInv, Entered
    <3> QED BY <1>1, <1>6, <1>8, <1>9, <1>10, <3>1, <3>2 DEF EInv, Entered
  <2> QED BY <2>1, <2>2, <2>3
<1> QED BY <1>11, <1>12, <1>13, <1>14, <1>15, <1>16 DEF EInv

LEMMA RebindKeeps ==
  ASSUME EInv, NEW p \in Session!LogPaths, Session!Rebind(p)
  PROVE  EInv'
<1>1. /\ binds < MaxBinds  /\ binds' = binds + 1  /\ path' = p  /\ offset' = 0  /\ inode' = 0
      /\ given' = {}  /\ again' = FALSE  /\ dropped' = {}  /\ whole' = (poll.at # "open")
      /\ poll' = IF poll.at = "idle" THEN poll ELSE [poll EXCEPT !.old = TRUE]
      /\ UNCHANGED <<text, where, array, written>>
  BY Zenon DEF Session!Rebind, Session!logs
<1>2. whole' \in BOOLEAN /\ (whole' => poll.at # "open")
  <2>1. whole' = (poll.at # "open")
    BY <1>1, Zenon
  <2> QED BY <2>1, Zenon
<1>3. /\ poll' \in Polls  /\ poll'.at = poll.at  /\ poll'.file = poll.file
      /\ poll'.alerts = poll.alerts  /\ poll'.flows = poll.flows
      /\ poll.at # "idle" => poll'.old = TRUE
      /\ poll.at = "idle" => poll' = poll
  BY <1>1, PollFacts DEF Polls
<1>4. poll.at = "idle" => poll = Session!NoPoll
  BY DEF EInv, Staged
<1>5. Session!Held(poll)' = Session!Held(poll) /\ Session!Range(poll.alerts)' = Session!Range(poll.alerts)
      /\ (poll.at = "idle" => Session!Held(poll) = {} /\ poll.alerts = <<>> /\ Session!Range(poll.alerts) = {})
  BY <1>3, <1>4, NothingHeld DEF Session!Held, Session!Range
<1>6. Taken' = {}
  BY <1>1, <1>3, <1>5 DEF Taken
<1>7. ~Reading'
  BY <1>3 DEF Reading
<1>8. Session!TypeOK'
  <2>1. binds' \in 0 .. MaxBinds /\ 0 \in 0 .. MaxLogs
    BY <1>1, Sizes DEF EInv, Session!TypeOK
  <2> QED BY <1>1, <1>2, <1>3, <2>1, StepTypes
<1>9. Placed'
  BY <1>1 DEF EInv, Placed
<1>10. Pieced' /\ Unique'
  BY <1>1 DEF EInv, Pieced, Unique
<1>11. Staged'
  BY <1>1, <1>3, <1>4, <1>7 DEF EInv, Staged
<1>12. Once'
  BY <1>1, <1>3, <1>5, <1>6, NothingHeld DEF Once
<1>13. Below'
  BY <1>6, <1>7 DEF Below, TakenBelow, NoneTaken
<1>14. Entered'
  BY <1>1, <1>2, <1>3, <1>7 DEF Entered
<1> QED BY <1>8, <1>9, <1>10, <1>11, <1>12, <1>13, <1>14 DEF EInv

\* What the imported log holds, and a poll of it collects.
LEMMA ImportedListed ==
  /\ Len(Imported) = 2  /\ Imported[1].ev = 1  /\ Imported[2].ev = 2  /\ Imported[1].part = "whole"  /\ Imported[2].part = "whole"
  /\ ~Session!HasBad(Imported)
  /\ Session!Listed(Imported, "alert") = {<<1>>}
  /\ Session!Listed(Imported, "flow") = {<<2>>}
<1>1. /\ Len(Imported) = 2  /\ DOMAIN Imported = {1, 2}
      /\ Imported[1] = [ev |-> 1, kind |-> "alert", part |-> "whole"]
      /\ Imported[2] = [ev |-> 2, kind |-> "flow", part |-> "whole"]
  BY DEF Imported
<1>2. ~Session!HasBad(Imported)
  BY <1>1 DEF Session!HasBad
<1>3. ASSUME NEW k \in {1, 2}, NEW kind, {i \in DOMAIN Imported : Imported[i].kind = kind} = {k}
      PROVE  Session!Listed(Imported, kind) = {<<Imported[k].ev>>}
  <2> DEFINE at == {i \in DOMAIN Imported : Imported[i].kind = kind}
             fs == {f \in [1 .. Session!Cardinality(at) -> at] : \A m, n \in DOMAIN f : m < n => f[m] < f[n]}
             one == [n \in {1} |-> k]
  <2>1. Session!Cardinality(at) = 1
    <3>1. Cardinality({k}) = 1
      BY FS_Singleton
    <3> QED BY <1>3, <3>1 DEF Cardinality, Session!Cardinality
  <2>2. 1 .. 1 = {1}
    OBVIOUS
  <2>3. fs = {one}
    <3>1. fs = {f \in [{1} -> {k}] : \A m, n \in DOMAIN f : m < n => f[m] < f[n]}
      BY <1>3, <2>1, <2>2
    <3>2. \A f \in [{1} -> {k}] : f = one
      OBVIOUS
    <3>3. one \in [{1} -> {k}] /\ \A m, n \in DOMAIN one : m < n => one[m] < one[n]
      OBVIOUS
    <3> QED BY <3>1, <3>2, <3>3
  <2>4. Session!Listed(Imported, kind) = {[n \in DOMAIN f |-> Imported[f[n]].ev] : f \in fs}
    BY DEF Session!Listed
  <2> HIDE DEF fs, at
  <2>5. Session!Listed(Imported, kind) = {[n \in DOMAIN one |-> Imported[one[n]].ev]}
    BY <2>3, <2>4
  <2>6. [n \in DOMAIN one |-> Imported[one[n]].ev] = <<Imported[k].ev>>
    <3>1. DOMAIN one = {1} /\ one[1] = k
      OBVIOUS
    <3> HIDE DEF one
    <3>2. [n \in DOMAIN one |-> Imported[one[n]].ev] = [n \in {1} |-> Imported[k].ev]
      BY <3>1
    <3>3. <<Imported[k].ev>> = [n \in {1} |-> Imported[k].ev]
      BY <2>2
    <3> QED BY <3>2, <3>3
  <2> QED BY <2>5, <2>6
<1>4. {i \in DOMAIN Imported : Imported[i].kind = "alert"} = {1}
  BY <1>1
<1>5. {i \in DOMAIN Imported : Imported[i].kind = "flow"} = {2}
  BY <1>1
<1>6. Session!Listed(Imported, "alert") = {<<Imported[1].ev>>}
  BY <1>3, <1>4
<1>7. Session!Listed(Imported, "flow") = {<<Imported[2].ev>>}
  BY <1>3, <1>5
<1> QED BY <1>1, <1>2, <1>6, <1>7

LEMMA OpenKeeps ==
  ASSUME EInv, Session!Open
  PROVE  EInv'
<1> DEFINE i == where[path]
           log == text[i]
<1>1. poll.at = "open" /\ UNCHANGED <<text, where, array, written, path, inode, binds, given, again>>
  BY DEF Session!Open, Session!logs
<1>2. whole' = (whole /\ i = inode)
  BY DEF Session!Open
<1> HIDE DEF i
<1>3. whole' \in BOOLEAN /\ (whole' => whole /\ i = inode)
  BY <1>2, Zenon
<1> USE DEF i
<1>4. i \in Session!Inodes /\ i # 0 /\ i \in 0 .. MaxLogs
  BY Standing, Sizes DEF Session!Inodes
<1>5. poll.alerts = <<>> /\ poll.flows = <<>> /\ Session!Held(poll) = {}
  BY <1>1, NothingHeld DEF EInv, Staged, Session!Held
<1>6. Taken = given /\ Session!Known = given \cup dropped
  BY <1>5 DEF Taken, Session!Known
<1>7. CASE offset = 0 /\ i \in array
  <2>1. i = 2 /\ log = Imported /\ inode \in {0, 2} /\ path = "import"
    <3>1. i = 2 /\ log = Imported
      BY <1>7 DEF EInv, Placed
    <3>2. path = "import"
      BY <3>1, Standing DEF EInv, Placed
    <3> QED BY <3>1, <3>2 DEF EInv, Placed
  <2>2. /\ offset' = Len(log)  /\ UNCHANGED dropped
        /\ \E alerts \in Session!Listed(log, "alert"), flows \in Session!Listed(log, "flow") :
             poll' = [poll EXCEPT !.at = "alerts", !.alerts = alerts, !.flows = flows]
    <3>1. ~Session!HasBad(log)
      BY <2>1, ImportedListed
    <3> QED BY <1>7, <3>1 DEF Session!Open
  <2>3. offset' = 2 /\ poll' = [poll EXCEPT !.at = "alerts", !.alerts = <<1>>, !.flows = <<2>>]
    <3> HIDE DEF log
    <3> QED BY <2>1, <2>2, ImportedListed
  <2>4. <<1>> \in Seq(Session!Events) /\ <<2>> \in Seq(Session!Events)
    <3>1. 1 \in Session!Events /\ 2 \in Session!Events
      BY Sizes DEF Session!Events
    <3> QED BY <3>1
  <2>5. /\ poll' \in Polls  /\ poll'.at = "alerts"
        /\ poll'.alerts = <<1>>  /\ poll'.flows = <<2>>  /\ poll'.old = poll.old
    BY <2>3, <2>4, PollFacts DEF Polls, Session!Places
  <2>6. Session!Range(<<1>>) = {1} /\ Session!Range(<<2>>) = {2}
    <3>1. 1 .. 1 = {1} /\ Len(<<1>>) = 1 /\ Len(<<2>>) = 1 /\ <<1>>[1] = 1 /\ <<2>>[1] = 2
      OBVIOUS
    <3>2. Session!Range(<<1>>) = {<<1>>[m] : m \in 1 .. Len(<<1>>)} /\ Session!Range(<<2>>) = {<<2>>[m] : m \in 1 .. Len(<<2>>)}
      BY <2>4, RangeOf
    <3>3. {<<1>>[m] : m \in {1}} = {1} /\ {<<2>>[m] : m \in {1}} = {2}
      BY <3>1
    <3> QED BY <3>1, <3>2, <3>3
  <2>7. /\ Session!Range(poll.alerts)' = {1}  /\ Session!Range(poll.flows)' = {2}  /\ Session!Held(poll)' = {1, 2}
    <3>1. Session!Range(poll.alerts)' = Session!Range(<<1>>) /\ Session!Range(poll.flows)' = Session!Range(<<2>>)
      BY <2>5 DEF Session!Range
    <3>2. Session!Held(poll)' = Session!Range(poll.alerts)' \cup Session!Range(poll.flows)'
      BY DEF Session!Held
    <3> QED BY <2>6, <3>1, <3>2
  <2>8. /\ Taken' = given \cup IF poll.old THEN {} ELSE {1, 2}
        /\ Session!Known' = given \cup dropped \cup IF poll.old THEN {} ELSE {1, 2}
    BY <1>1, <2>2, <2>5, <2>7 DEF Taken, Session!Known
  <2>9. 1 \notin given /\ 2 \notin given
    <3>1. TakenBelow(2)
      BY <2>1 DEF EInv, Below
    <3>2. ~(1 <= offset) /\ ~(2 <= offset)
      BY <1>7
    <3>3. /\ text[2] = Imported  /\ 1 \in 1 .. Len(Imported)  /\ 2 \in 1 .. Len(Imported)
          /\ Imported[1].part # "tail"  /\ Imported[2].part # "tail"
      BY <2>1, ImportedListed
    <3> QED BY <1>6, <3>1, <3>2, <3>3, ImportedListed DEF TakenBelow
  <2>10. 1 \in 1 .. written /\ 2 \in 1 .. written
    <3>1. 2 \in 1 .. Len(text[2]) /\ text[2][2].ev = 2
      BY <2>1, ImportedListed
    <3>2. 2 \in Session!Inodes
      BY <1>4, <2>1
    <3>3. 2 <= written
      BY <3>1, <3>2, Numbered
    <3> QED BY <3>3, Standing
  <2>11. ~Reading'
    BY <2>5 DEF Reading
  <2>12. Session!TypeOK'
    <3>1. offset' \in Nat
      BY <2>3
    <3> QED BY <1>1, <1>3, <2>2, <2>5, <3>1, StepTypes DEF EInv, Session!TypeOK
  <2>13. Placed' /\ Pieced' /\ Unique'
    BY <1>1, LogsStay DEF EInv, Placed
  <2>14. Staged'
    BY <1>1, <2>5, <2>11 DEF EInv, Staged
  <2>15. Once'
    <3>1. ~again' /\ Taken' \subseteq 1 .. written'
      BY <1>1, <1>6, <2>8, <2>10 DEF EInv, Once
    <3>2. \A m, n \in 1 .. Len(poll'.alerts) : m = n
      <4>1. Len(poll'.alerts) = 1
        BY <2>5
      <4> QED BY <4>1
    <3>3. Session!Range(poll.alerts)' \cap Session!Range(poll.flows)' = {} /\ given' \cap Session!Held(poll)' = {}
      BY <1>1, <2>7, <2>9
    <3> QED BY <3>1, <3>2, <3>3 DEF Once
  <2>16. Below'
    <3>1. where'[path'] = 2 /\ text'[2] = Imported /\ Len(Imported) = 2
      BY <1>1, <2>1, ImportedListed
    <3>2. TakenBelow(where[path])'
      BY <2>3, <3>1 DEF TakenBelow
    <3> QED BY <2>3, <2>11, <3>1, <3>2 DEF Below
  <2>17. Entered'
    <3> SUFFICES ASSUME whole' PROVE Entered'
      BY DEF Entered
    <3>1. inode' = 2 /\ ~poll.old
      BY <1>1, <1>3, <2>1 DEF EInv, Entered
    <3>2. text'[inode'] = Imported /\ offset' <= Len(Imported)
      BY <1>1, <2>1, <2>3, <3>1, ImportedListed
    <3>3. \A x \in 1 .. offset' : Imported[x].ev \in Session!Known'
      <4>1. \A x \in 1 .. 2 : x = 1 \/ x = 2
        OBVIOUS
      <4>2. 1 \in Session!Known' /\ 2 \in Session!Known'
        BY <2>8, <3>1
      <4> QED BY <2>3, <4>1, <4>2, ImportedListed
    <3> QED BY <2>5, <2>11, <3>1, <3>2, <3>3 DEF Entered
  <2> QED BY <2>12, <2>13, <2>14, <2>15, <2>16, <2>17 DEF EInv
<1>8. CASE ~(offset = 0 /\ i \in array)
  <2>1. poll' = [poll EXCEPT !.at = "read", !.file = i, !.pos = offset] /\ UNCHANGED <<offset, dropped>>
    BY <1>8 DEF Session!Open
  <2>2. /\ poll' \in Polls  /\ poll'.at = "read"  /\ poll'.file = i  /\ poll'.pos = offset
        /\ poll'.alerts = poll.alerts  /\ poll'.flows = poll.flows  /\ poll'.old = poll.old
    BY <1>4, <2>1, PollFacts, Standing DEF Polls, Session!Places
  <2>3. Session!Held(poll)' = Session!Held(poll)
        /\ Session!Range(poll.alerts)' = Session!Range(poll.alerts) /\ Session!Range(poll.flows)' = Session!Range(poll.flows)
    BY <2>2 DEF Session!Held, Session!Range
  <2>4. Taken' = Taken /\ Session!Known' = Session!Known
    BY <1>1, <2>1, <2>2, <2>3 DEF Taken, Session!Known
  <2>5. Session!TypeOK'
    BY <1>1, <1>3, <2>1, <2>2, StepTypes DEF EInv, Session!TypeOK
  <2>6. Placed' /\ Pieced' /\ Unique'
    BY <1>1, LogsStay DEF EInv, Placed
  <2>7. Staged'
    BY <1>1, <1>4, <2>1, <2>2 DEF EInv, Staged, Reading, Session!Inodes
  <2>8. Once'
    BY <1>1, <2>2, <2>3, <2>4 DEF EInv, Once
  <2>9. Below'
    <3>1. TakenBelow(where[path])' /\ (NoneTaken(where[path]) => NoneTaken(where[path])')
      BY <1>1, <2>1, <2>4 DEF EInv, Below, TakenBelow, NoneTaken
    <3>2. poll'.file = where'[path']
      BY <1>1, <2>2
    <3>3. TakenBelow(poll.file)'
      BY <3>1, <3>2 DEF TakenBelow
    <3> QED BY <1>1, <2>1, <3>1, <3>2, <3>3 DEF EInv, Below
  <2>10. Entered'
    <3> SUFFICES ASSUME whole' PROVE Entered'
      BY DEF Entered
    <3>1. inode' = i /\ whole /\ inode' = inode /\ inode # 0
      BY <1>1, <1>3, <1>4
    <3>2. offset' <= Len(text'[inode']) /\ \A x \in 1 .. offset' :
             text'[inode'][x].ev \in Session!Known' \/ text'[inode'][x].kind = "other"
      BY <1>1, <2>1, <2>4, <3>1 DEF EInv, Entered
    <3> QED BY <2>2, <3>1, <3>2 DEF Entered
  <2> QED BY <2>5, <2>6, <2>7, <2>8, <2>9, <2>10 DEF EInv
<1> QED BY <1>7, <1>8

\* A line that is read: its event, and where it ends.
LEMMA LineFacts ==
  ASSUME EInv, poll.at = "read", poll.pos < Len(text[poll.file])
  PROVE  /\ poll.file \in Session!Inodes  /\ poll.pos + 1 \in 1 .. Len(text[poll.file])
         /\ Session!Line \in {1, 2}  /\ poll.pos + Session!Line \in 1 .. Len(text[poll.file])
         /\ \A x \in 1 .. poll.pos + Session!Line :
              \/ x \in 1 .. poll.pos
              \/ /\ text[poll.file][x].ev = text[poll.file][poll.pos + 1].ev
                 /\ text[poll.file][x].kind = text[poll.file][poll.pos + 1].kind
<1> DEFINE f == poll.file
           log == text[f]
           q == poll.pos + 1
<1>1. f \in Session!Inodes
  BY DEF EInv, Staged
<1>2. Len(log) \in Nat /\ poll.pos \in Nat /\ q \in Nat /\ q = poll.pos + 1 /\ poll.pos < Len(log)
  BY <1>1, PollFacts, Standing
<1>3. Session!Line = IF log[q].part = "head" /\ Len(log) > q THEN 2 ELSE 1
  BY DEF Session!Line
<1>4. q \in 1 .. Len(log)
  BY <1>2
<1> HIDE DEF f, q
<1>5. log[q] \in Session!Pieces
  BY <1>1, <1>4, TextFacts DEF EInv
<1> HIDE DEF log
<1>6. CASE log[q].part = "head" /\ Len(log) > q
  <2>1. log[q + 1] = [log[q] EXCEPT !.part = "tail"]
    BY <1>1, <1>2, <1>4, <1>6 DEF EInv, Pieced, log
  <2>2. log[q + 1].ev = log[q].ev /\ log[q + 1].kind = log[q].kind
    BY <1>5, <2>1 DEF Session!Pieces
  <2>3. Session!Line = 2 /\ poll.pos + 2 \in 1 .. Len(log)
    BY <1>2, <1>3, <1>6
  <2>4. \A x \in 1 .. poll.pos + 2 : x \in 1 .. poll.pos \/ x = q \/ x = q + 1
    BY <1>2
  <2>5. \A x \in 1 .. poll.pos + 2 : x \in 1 .. poll.pos \/ (log[x].ev = log[q].ev /\ log[x].kind = log[q].kind)
    BY <2>2, <2>4
  <2> QED BY <1>1, <1>4, <2>3, <2>5 DEF f, q, log
<1>7. CASE ~(log[q].part = "head" /\ Len(log) > q)
  <2>1. Session!Line = 1 /\ poll.pos + 1 \in 1 .. Len(log)
    BY <1>2, <1>3, <1>7
  <2>2. \A x \in 1 .. poll.pos + 1 : x \in 1 .. poll.pos \/ x = q
    BY <1>2
  <2>3. \A x \in 1 .. poll.pos + 1 : x \in 1 .. poll.pos \/ (log[x].ev = log[q].ev /\ log[x].kind = log[q].kind)
    BY <2>2
  <2> QED BY <1>1, <1>4, <2>1, <2>3 DEF f, q, log
<1> QED BY <1>6, <1>7

\* The event of a line that is read; what the step does to the places, and to who has the event.
First == text[poll.file][poll.pos + 1]
Reads ==
  /\ poll.at = "read"  /\ poll.pos < Len(text[poll.file])
  /\ UNCHANGED <<text, where, array, written, path, inode, binds, given, again>>
  /\ offset' = poll.pos + Session!Line
  /\ whole' \in BOOLEAN  /\ (whole' => whole /\ ~poll.old)
GoesOn ==
  /\ poll' \in Polls  /\ poll'.at = "read"  /\ poll'.file = poll.file  /\ poll'.old = poll.old
  /\ poll'.pos = poll.pos + Session!Line
Takes ==
  /\ poll' = Session!NoPoll \/ GoesOn
  /\ Taken' \subseteq Taken \/ (~poll.old /\ First.part # "tail" /\ Taken' \subseteq Taken \cup {First.ev})
  /\ poll.old => Taken' = {}
  /\ ~poll.old => /\ Session!Known \subseteq Session!Known'
                  /\ First.ev \in Session!Known' \/ First.kind = "other"

\* Below the place the session reads at, and in the other logs, no event is one of a line to come.
LEMMA FirstIsNew ==
  ASSUME EInv, Reading, poll.pos < Len(text[poll.file]), First.part # "tail"
  PROVE  /\ First.ev \notin Taken
         /\ \A i \in Session!Inodes : \A x \in 1 .. Len(text[i]) :
              text[i][x].part # "tail" /\ text[i][x].ev = First.ev => i = poll.file /\ x = poll.pos + 1
<1>1. poll.file \in Session!Inodes /\ poll.pos + 1 \in 1 .. Len(text[poll.file]) /\ poll.pos \in Nat
  BY LineFacts, PollFacts DEF Reading
<1>2. First.ev \notin Taken
  <2>1. poll.pos = offset /\ TakenBelow(poll.file)
    BY DEF EInv, Staged, Below
  <2>2. ~(poll.pos + 1 <= offset)
    BY <1>1, <2>1
  <2> QED BY <1>1, <2>1, <2>2 DEF TakenBelow, First
<1>3. ASSUME NEW i \in Session!Inodes, NEW x \in 1 .. Len(text[i]), text[i][x].part # "tail", text[i][x].ev = First.ev
      PROVE  i = poll.file /\ x = poll.pos + 1
  BY <1>1, <1>3 DEF EInv, Unique, First
<1> QED BY <1>2, <1>3

\* The offset passes one line, the session takes its event or accounts for it: nothing else moves.
LEMMA PlacesKept ==
  ASSUME EInv, Reads, Takes
  PROVE  Placed' /\ Pieced' /\ Unique' /\ Below' /\ Entered'
<1>1. Placed' /\ Pieced' /\ Unique'
  BY LogsStay DEF Reads, EInv, Placed
<1>2. /\ poll.file \in Session!Inodes  /\ poll.pos \in Nat  /\ offset \in Nat  /\ poll.old \in BOOLEAN
      /\ Session!Line \in {1, 2}  /\ poll.pos + Session!Line \in 1 .. Len(text[poll.file])
      /\ where[path] \in Session!Inodes
  BY LineFacts, PollFacts, Standing DEF Reads
<1>3. CASE poll.old
  <2>1. ~Reading' /\ ~whole' /\ Taken' = {}
    BY <1>3, NothingHeld DEF Reads, Takes, GoesOn, Reading
  <2>2. Below'
    BY <2>1 DEF Below, TakenBelow, NoneTaken
  <2>3. Entered'
    BY <2>1 DEF Entered
  <2> QED BY <1>1, <2>2, <2>3
<1>4. CASE ~poll.old
  <2>1. Reading
    BY <1>4 DEF Reads, Reading
  <2>2. poll.pos = offset /\ offset <= offset' /\ offset' = poll.pos + Session!Line /\ offset + 1 <= offset'
    BY <1>2, <2>1 DEF EInv, Staged, Reads
  <2>3. \A i \in Session!Inodes : NoneTaken(i) /\ i # poll.file => NoneTaken(i)'
    <3> SUFFICES ASSUME NEW i \in Session!Inodes, NoneTaken(i), i # poll.file,
                        NEW x \in 1 .. Len(text'[i]), text'[i][x].part # "tail"
                 PROVE  text'[i][x].ev \notin Taken'
      BY DEF NoneTaken
    <3>1. text' = text /\ text[i][x].ev \notin Taken
      BY DEF NoneTaken, Reads
    <3>2. First.part # "tail" => text[i][x].ev # First.ev
      BY <2>1, <3>1, FirstIsNew DEF Reads
    <3> QED BY <3>1, <3>2 DEF Takes
  <2>4. TakenBelow(poll.file) => \A x \in 1 .. Len(text[poll.file]) :
          text[poll.file][x].part # "tail" /\ text[poll.file][x].ev \in Taken' => x <= offset'
    <3> SUFFICES ASSUME TakenBelow(poll.file), NEW x \in 1 .. Len(text[poll.file]),
                        text[poll.file][x].part # "tail", text[poll.file][x].ev \in Taken'
                 PROVE  x <= offset'
      OBVIOUS
    <3>1. CASE text[poll.file][x].ev \in Taken
      <4>1. x <= offset /\ x \in Nat /\ offset' \in Nat
        BY <1>2, <2>2, <3>1 DEF TakenBelow
      <4> QED BY <1>2, <2>2, <4>1
    <3>2. CASE text[poll.file][x].ev \notin Taken
      <4>1. First.part # "tail" /\ text[poll.file][x].ev = First.ev
        BY <3>2 DEF Takes
      <4>2. x = poll.pos + 1
        BY <1>2, <2>1, <4>1, FirstIsNew DEF Reads
      <4> QED BY <2>2, <4>2
    <3> QED BY <3>1, <3>2
  <2>5. Below'
    <3>1. TakenBelow(where[path]) /\ TakenBelow(poll.file) /\ (poll.file # where[path] => NoneTaken(where[path]))
      BY <2>1 DEF EInv, Below
    <3>2. poll.file # where[path] => NoneTaken(where[path])'
      <4>1. text' = text /\ where' = where /\ path' = path
        BY DEF Reads
      <4> QED BY <1>2, <2>3, <3>1, <4>1 DEF NoneTaken
    <3>3. TakenBelow(where[path])'
      <4>1. text' = text /\ where' = where /\ path' = path
        BY DEF Reads
      <4>2. CASE poll.file = where[path]
        BY <2>4, <3>1, <4>1, <4>2 DEF TakenBelow
      <4>3. CASE poll.file # where[path]
        BY <3>2, <4>3 DEF TakenBelow, NoneTaken
      <4> QED BY <4>2, <4>3
    <3>4. Reading' => poll'.file = poll.file
      BY NothingHeld DEF Takes, GoesOn, Reading
    <3>5. Reading' => TakenBelow(poll.file)'
      BY <2>4, <3>1, <3>4 DEF TakenBelow, Reads
    <3>6. NoneTaken(where[path])' \/ inode' = where'[path'] \/ offset' <= Len(text'[where'[path']])
      <4>1. CASE poll.file = where[path]
        <5>1. offset' <= Len(text[poll.file])
          BY <1>2, <2>2
        <5> QED BY <4>1, <5>1 DEF Reads
      <4> QED BY <3>2, <4>1
    <3> QED BY <3>2, <3>3, <3>4, <3>5, <3>6 DEF Below, Reads
  <2>6. Entered'
    <3> SUFFICES ASSUME whole' PROVE Entered'
      BY DEF Entered
    <3>1. inode' = poll.file /\ inode = poll.file /\ poll.file # 0
      BY <1>2, <2>1, Standing DEF EInv, Entered, Reads
    <3>2. offset' <= Len(text'[inode'])
      BY <1>2, <2>2, <3>1 DEF Reads
    <3>3. \A x \in 1 .. offset : text[poll.file][x].ev \in Session!Known \/ text[poll.file][x].kind = "other"
      BY <3>1 DEF EInv, Entered, Reads
    <3>4. \A x \in 1 .. offset' :
            text[poll.file][x].ev \in Session!Known' \/ text[poll.file][x].kind = "other"
      <4>1. \A x \in 1 .. offset' : x \in 1 .. poll.pos
              \/ (text[poll.file][x].ev = First.ev /\ text[poll.file][x].kind = First.kind)
        BY <2>2, LineFacts DEF Reads, First
      <4> QED BY <1>4, <2>2, <3>3, <4>1 DEF Takes
    <3>5. (Reading' => poll'.file = inode') /\ poll'.at # "open"
      BY <3>1, NothingHeld DEF Takes, GoesOn, Reading
    <3> QED BY <3>1, <3>2, <3>4, <3>5 DEF Entered, Reads
  <2> QED BY <1>1, <2>5, <2>6
<1> QED BY <1>2, <1>3, <1>4

\* The three things that come of a line: it raises, it is collected, or it is passed over.
Advanced == [poll EXCEPT !.pos = poll.pos + Session!Line, !.left = poll.left - 1]
Raises   == poll' = Session!NoPoll /\ dropped' = dropped \cup Session!Held(poll) \cup {First.ev}
Collects ==
  /\ First.part # "tail"  /\ dropped' = dropped
  /\ \/ First.kind = "alert" /\ poll' = [Advanced EXCEPT !.alerts = Append(poll.alerts, First.ev)]
     \/ First.kind = "flow" /\ poll' = [Advanced EXCEPT !.flows = Append(poll.flows, First.ev)]
Passes ==
  /\ poll' = Advanced
  /\ \/ dropped' = dropped /\ First.kind = "other"
     \/ dropped' = dropped \cup {First.ev}

\* Read has no other outcome.
LEMMA ReadDoes ==
  ASSUME EInv, Session!Read
  PROVE  /\ Reads  /\ poll.left > 0
         /\ Raises \/ Collects \/ Passes
<1> DEFINE next == poll.pos + Session!Line
           json == First.part = "whole" \/ (First.part = "head" /\ Session!Line = 2)
<1>1. /\ poll.at = "read"  /\ poll.left > 0  /\ poll.pos < Len(text[poll.file])
      /\ UNCHANGED <<text, where, array, written, path, inode, binds, given, again>>
      /\ offset' = next
  BY DEF Session!Read, Session!Reached, Session!logs
<1>2. whole' = (whole /\ ~poll.old)
  BY DEF Session!Read
<1>3. whole' \in BOOLEAN /\ (whole' => whole /\ ~poll.old)
  BY <1>2, Zenon
<1>4. Reads
  BY <1>1, <1>3 DEF Reads
<1>5. First.kind \in {"flow", "alert", "other", "bad"}
  <2>1. poll.file \in Session!Inodes /\ poll.pos + 1 \in 1 .. Len(text[poll.file])
    BY <1>1, LineFacts
  <2> QED BY <2>1, TextFacts DEF EInv, First, Session!Kinds
<1>6. CASE json /\ First.kind = "bad"
  <2>1. Raises
    BY <1>6 DEF Session!Read, Session!Raise, Raises, First
  <2> QED BY <1>1, <1>4, <2>1
<1>7. CASE ~(json /\ First.kind = "bad")
  <2>1. /\ poll' = Session!Collected(IF json THEN First ELSE [First EXCEPT !.kind = "other"], Advanced)
        /\ dropped' = dropped \cup IF json THEN {} ELSE {First.ev}
    BY <1>7 DEF Session!Read, First, Advanced
  <2>2. CASE ~json
    <3>1. [First EXCEPT !.kind = "other"].kind = "other"
      <4>1. First \in Session!Pieces
        <5>1. poll.file \in Session!Inodes /\ poll.pos + 1 \in 1 .. Len(text[poll.file])
          BY <1>1, LineFacts
        <5> QED BY <5>1, TextFacts DEF EInv, First
      <4> QED BY <4>1 DEF Session!Pieces
    <3>2. Session!Collected([First EXCEPT !.kind = "other"], Advanced) = Advanced
      BY <3>1 DEF Session!Collected
    <3>3. Passes
      BY <2>1, <2>2, <3>2 DEF Passes
    <3> QED BY <1>1, <1>4, <3>3
  <2>3. CASE json
    <3>1. poll' = Session!Collected(First, Advanced) /\ dropped' = dropped /\ First.part # "tail"
      BY <2>1, <2>3
    <3>2. Advanced.alerts = poll.alerts /\ Advanced.flows = poll.flows
      BY PollFacts DEF Advanced, Polls
    <3>3. CASE First.kind = "alert"
      <4>1. Session!Collected(First, Advanced) = [Advanced EXCEPT !.alerts = Append(poll.alerts, First.ev)]
        BY <3>2, <3>3 DEF Session!Collected
      <4>2. Collects
        BY <3>1, <3>3, <4>1 DEF Collects
      <4> QED BY <1>1, <1>4, <4>2
    <3>4. CASE First.kind = "flow"
      <4>1. Session!Collected(First, Advanced) = [Advanced EXCEPT !.flows = Append(poll.flows, First.ev)]
        BY <3>2, <3>4 DEF Session!Collected
      <4>2. Collects
        BY <3>1, <3>4, <4>1 DEF Collects
      <4> QED BY <1>1, <1>4, <4>2
    <3>5. CASE First.kind = "other"
      <4>1. Session!Collected(First, Advanced) = Advanced
        BY <3>5 DEF Session!Collected
      <4>2. Passes
        BY <3>1, <3>5, <4>1 DEF Passes
      <4> QED BY <1>1, <1>4, <4>2
    <3> QED BY <1>5, <1>7, <2>3, <3>3, <3>4, <3>5
  <2> QED BY <2>2, <2>3
<1> QED BY <1>6, <1>7

LEMMA AdvancedFacts ==
  ASSUME EInv, Reads, poll.left > 0
  PROVE  /\ Advanced \in Polls  /\ Advanced.at = "read"  /\ Advanced.file = poll.file  /\ Advanced.old = poll.old
         /\ Advanced.pos = poll.pos + Session!Line  /\ Advanced.alerts = poll.alerts  /\ Advanced.flows = poll.flows
         /\ First.ev \in Session!Events  /\ First.ev \in 1 .. written
<1>1. poll.file \in Session!Inodes /\ poll.pos + 1 \in 1 .. Len(text[poll.file])
  BY LineFacts DEF Reads
<1>2. First.ev \in Session!Events /\ First.ev \in 1 .. written
  BY <1>1, TextFacts, Numbered DEF First, Session!Events, EInv
<1>3. poll.pos + Session!Line \in Nat
  BY LineFacts, PollFacts DEF Reads
<1>4. poll.left - 1 \in 0 .. PollLines
  BY PollFacts, Sizes
<1> QED BY <1>2, <1>3, <1>4, PollFacts DEF Reads, Advanced, Polls

\* The step that matters: the line that is read is new, and the offset passes it.
LEMMA ReadKeeps ==
  ASSUME EInv, Session!Read
  PROVE  EInv'
<1>1. Reads /\ poll.left > 0 /\ (Raises \/ Collects \/ Passes)
  BY ReadDoes
<1> DEFINE ev == First.ev
<1>2. ev \in Session!Events /\ ev \in 1 .. written
  BY <1>1, AdvancedFacts
<1>3. offset' \in Nat
  BY <1>1, LineFacts, PollFacts DEF Reads
<1>4. ASSUME poll' \in Polls, dropped' \subseteq Session!Events
      PROVE  Session!TypeOK'
  BY <1>1, <1>3, <1>4, StepTypes DEF Reads, EInv, Session!TypeOK
<1>5. Session!Held(poll)' = Session!Range(poll'.alerts) \cup Session!Range(poll'.flows)
      /\ Session!Range(poll.alerts)' = Session!Range(poll'.alerts) /\ Session!Range(poll.flows)' = Session!Range(poll'.flows)
  BY DEF Session!Held, Session!Range
<1>6. ~again' /\ given' = given /\ written' = written
  BY <1>1 DEF Reads, EInv, Once
<1>7. poll.old => given = {} /\ Taken = {}
  BY DEF EInv, Staged, Taken
<1> HIDE DEF ev
<1>8. CASE Raises
  <2>1. poll' = Session!NoPoll /\ dropped' = dropped \cup Session!Held(poll) \cup {ev}
    BY <1>8 DEF Raises, ev
  <2>2. Session!Held(poll)' = {} /\ poll'.old = FALSE /\ poll'.alerts = <<>> /\ poll'.at = "idle"
    BY <1>5, <2>1, NothingHeld
  <2>3. Taken' = given /\ Session!Known' = given \cup dropped'
    BY <1>6, <2>2 DEF Taken, Session!Known
  <2>4. Session!Known \subseteq Session!Known' /\ First.ev \in Session!Known' /\ Taken' \subseteq Taken
    BY <2>1, <2>3 DEF Session!Known, Taken, ev
  <2>5. Takes
    BY <1>7, <2>1, <2>3, <2>4 DEF Takes
  <2>6. Session!TypeOK'
    BY <1>2, <1>4, <2>1, PollFacts, NothingHeld DEF EInv, Session!TypeOK
  <2>7. Staged'
    BY <2>1, <2>2 DEF Staged, Reading
  <2>8. Once'
    BY <1>5, <1>6, <2>2, <2>4, NothingHeld DEF Once, EInv
  <2> QED BY <1>1, <2>5, <2>6, <2>7, <2>8, PlacesKept DEF EInv
<1>9. CASE Passes
  <2>1. poll' = Advanced /\ ((dropped' = dropped /\ First.kind = "other") \/ dropped' = dropped \cup {ev})
    BY <1>9 DEF Passes, ev
  <2>2. /\ GoesOn  /\ poll'.alerts = poll.alerts  /\ poll'.flows = poll.flows
    BY <1>1, <2>1, AdvancedFacts DEF GoesOn
  <2>3. Session!Held(poll)' = Session!Held(poll)
    BY <1>5, <2>2 DEF Session!Held
  <2>4. Taken' = Taken /\ Session!Known \subseteq Session!Known' /\ (First.ev \in Session!Known' \/ First.kind = "other")
    BY <1>6, <2>1, <2>2, <2>3 DEF Taken, Session!Known, GoesOn, ev
  <2>5. Takes
    BY <1>7, <2>2, <2>4 DEF Takes
  <2>6. Session!TypeOK'
    BY <1>2, <1>4, <2>1, <2>2 DEF GoesOn, EInv, Session!TypeOK
  <2>7. Staged'
    BY <1>1, <1>6, <2>2 DEF GoesOn, Reads, EInv, Staged, Reading
  <2>8. Once'
    BY <1>5, <1>6, <2>2, <2>3, <2>4 DEF GoesOn, Once, EInv
  <2> QED BY <1>1, <2>5, <2>6, <2>7, <2>8, PlacesKept DEF EInv
<1>10. CASE Collects
  <2> DEFINE a == poll.alerts
             s == poll.flows
  <2>1. a \in Seq(Session!Events) /\ s \in Seq(Session!Events)
    BY PollFacts
  <2>2. /\ First.part # "tail"  /\ dropped' = dropped  /\ Advanced \in Polls
        /\ \/ poll' = [Advanced EXCEPT !.alerts = Append(a, ev)]
           \/ poll' = [Advanced EXCEPT !.flows = Append(s, ev)]
    BY <1>1, <1>10, AdvancedFacts DEF Collects, ev
  <2>3. /\ Append(a, ev) \in Seq(Session!Events)  /\ Append(s, ev) \in Seq(Session!Events)
        /\ Len(a) \in Nat  /\ Len(Append(a, ev)) = Len(a) + 1  /\ Append(a, ev)[Len(a) + 1] = ev
        /\ \A m \in 1 .. Len(a) : Append(a, ev)[m] = a[m]
        /\ Len(s) \in Nat  /\ Len(Append(s, ev)) = Len(s) + 1  /\ Append(s, ev)[Len(s) + 1] = ev
        /\ \A m \in 1 .. Len(s) : Append(s, ev)[m] = s[m]
    BY <1>2, <2>1, AppendProperties, LenProperties
  <2>4. Session!Range(Append(a, ev)) = Session!Range(a) \cup {ev}
    <3>1. /\ Session!Range(Append(a, ev)) = {Append(a, ev)[m] : m \in 1 .. Len(a) + 1}
          /\ Session!Range(a) = {a[m] : m \in 1 .. Len(a)}
      BY <2>1, <2>3, RangeOf
    <3>2. \A m \in 1 .. Len(a) + 1 : m \in 1 .. Len(a) \/ m = Len(a) + 1
      BY <2>3
    <3>3. Len(a) + 1 \in 1 .. Len(a) + 1 /\ \A m \in 1 .. Len(a) : m \in 1 .. Len(a) + 1
      BY <2>3
    <3> QED BY <2>3, <3>1, <3>2, <3>3
  <2>5. Session!Range(Append(s, ev)) = Session!Range(s) \cup {ev}
    <3>1. /\ Session!Range(Append(s, ev)) = {Append(s, ev)[m] : m \in 1 .. Len(s) + 1}
          /\ Session!Range(s) = {s[m] : m \in 1 .. Len(s)}
      BY <2>1, <2>3, RangeOf
    <3>2. \A m \in 1 .. Len(s) + 1 : m \in 1 .. Len(s) \/ m = Len(s) + 1
      BY <2>3
    <3>3. Len(s) + 1 \in 1 .. Len(s) + 1 /\ \A m \in 1 .. Len(s) : m \in 1 .. Len(s) + 1
      BY <2>3
    <3> QED BY <2>3, <3>1, <3>2, <3>3
  <2>6. /\ poll' \in Polls  /\ poll'.at = "read"  /\ poll'.file = poll.file  /\ poll'.old = poll.old
        /\ poll'.pos = poll.pos + Session!Line
    BY <1>1, <2>2, <2>3, AdvancedFacts DEF Polls
  <2>7. \/ poll'.alerts = Append(a, ev) /\ poll'.flows = s
        \/ poll'.alerts = a /\ poll'.flows = Append(s, ev)
    BY <1>1, <2>2, AdvancedFacts DEF Polls
  <2> HIDE DEF a, s
  <2>8. Session!Held(poll) = Session!Range(a) \cup Session!Range(s)
    BY DEF Session!Held, a, s
  <2>9. Session!Held(poll)' = Session!Held(poll) \cup {ev}
    BY <1>5, <2>4, <2>5, <2>7, <2>8
  <2>10. /\ Taken' = IF poll.old THEN given ELSE Taken \cup {ev}
         /\ ~poll.old => Session!Known' = Session!Known \cup {ev}
    BY <1>6, <2>2, <2>6, <2>9 DEF Taken, Session!Known
  <2>11. Takes
    BY <1>7, <2>2, <2>6, <2>10 DEF Takes, GoesOn, ev
  <2>12. Session!TypeOK'
    BY <1>4, <2>2, <2>6 DEF EInv, Session!TypeOK
  <2>13. Staged'
    BY <1>1, <1>6, <2>6 DEF Reads, EInv, Staged, Reading
  <2>14. Taken' \subseteq 1 .. written'
    BY <1>2, <1>6, <1>7, <2>10 DEF EInv, Once
  <2>15. ASSUME ~poll.old
         PROVE  /\ \A m, n \in 1 .. Len(poll'.alerts) : poll'.alerts[m] = poll'.alerts[n] => m = n
                /\ Session!Range(poll'.alerts) \cap Session!Range(poll'.flows) = {}
                /\ given \cap (Session!Held(poll) \cup {ev}) = {}
    <3>1. ev \notin Taken
      BY <1>1, <2>2, <2>15, FirstIsNew DEF Reads, Reading, ev
    <3>2. ev \notin given /\ ev \notin Session!Held(poll)
      BY <2>15, <3>1 DEF Taken
    <3>3. /\ \A m, n \in 1 .. Len(a) : a[m] = a[n] => m = n
          /\ Session!Range(a) \cap Session!Range(s) = {}  /\ given \cap Session!Held(poll) = {}
      BY <2>15 DEF EInv, Once, a, s
    <3>4. Session!Range(poll'.alerts) \cap Session!Range(poll'.flows) = {}
      BY <2>4, <2>5, <2>7, <2>8, <3>2, <3>3
    <3>5. \A m \in 1 .. Len(a) : a[m] # ev
      <4>1. Session!Range(a) = {a[m] : m \in 1 .. Len(a)}
        BY <2>1, RangeOf DEF a
      <4> QED BY <2>8, <3>2, <4>1
    <3>6. \A m, n \in 1 .. Len(a) + 1 : Append(a, ev)[m] = Append(a, ev)[n] => m = n
      <4>1. \A m \in 1 .. Len(a) + 1 : m \in 1 .. Len(a) \/ m = Len(a) + 1
        BY <2>3
      <4> QED BY <2>3, <3>3, <3>5, <4>1
    <3>7. \A m, n \in 1 .. Len(poll'.alerts) : poll'.alerts[m] = poll'.alerts[n] => m = n
      BY <2>3, <2>7, <3>3, <3>6
    <3> QED BY <3>2, <3>3, <3>4, <3>7
  <2>16. Once'
    BY <1>5, <1>6, <2>6, <2>9, <2>14, <2>15 DEF Once
  <2> QED BY <1>1, <2>11, <2>12, <2>13, <2>16, PlacesKept DEF EInv
<1> QED BY <1>1, <1>8, <1>9, <1>10

-----------------------------------------------------------------------------
LEMMA SessionStays == ASSUME EInv, UNCHANGED sessionVars PROVE EInv'
<1>1. UNCHANGED <<text, where, array, written, path, offset, inode, poll, binds, given, again, dropped, whole>>
  BY DEF sessionVars
<1>2. Outside
  BY <1>1 DEF Outside
<1>3. Taken' = Taken /\ Session!Known' = Session!Known /\ (Reading' <=> Reading) /\ Session!Held(poll)' = Session!Held(poll)
  BY <1>2, OutsideKeeps
<1>4. Session!TypeOK'
  BY <1>1 DEF EInv, Session!TypeOK
<1>5. Placed' /\ Pieced' /\ Unique'
  BY <1>1, LogsStay DEF EInv, Placed
<1>6. Staged'
  BY <1>1, <1>3 DEF EInv, Staged
<1>7. Once'
  BY <1>1, <1>3 DEF EInv, Once, Session!Range
<1>8. Below'
  BY <1>1, <1>3 DEF EInv, Below, TakenBelow, NoneTaken
<1>9. Entered'
  BY <1>1, <1>3 DEF EInv, Entered
<1> QED BY <1>4, <1>5, <1>6, <1>7, <1>8, <1>9 DEF EInv

LEMMA SessionMoves == ASSUME EInv, Session!Next PROVE EInv'
<1>1. CASE (\E kind \in Session!Kinds, part_ \in {"whole", "head"} : Session!Write(kind, part_)) \/ Session!WriteTail
  <2>1. PICK p \in Session!Pieces : Appends(p)
    BY <1>1, WritesAppend
  <2>2. written' \in 0 .. MaxEvents
    BY <1>1, WritesAppend
  <2> QED BY <2>1, <2>2, AppendKeeps
<1>2. CASE Session!Rotate
  BY <1>2, RotateKeeps
<1>3. CASE Session!Truncate
  BY <1>3, TruncateKeeps
<1>4. CASE Session!Step
  BY <1>4, CheckKeeps, OpenKeeps, ReadKeeps, PollEndKeeps, EmitKeeps, ScoreKeeps DEF Session!Step
<1>5. CASE Session!BatchFails
  BY <1>5, BatchFailsKeeps
<1>6. CASE \E p \in Session!LogPaths : Session!Rebind(p)
  BY <1>6, RebindKeeps
<1> QED BY <1>1, <1>2, <1>3, <1>4, <1>5, <1>6 DEF Session!Next

LEMMA ReadsExactly == ASSUME EInv PROVE ReadExactly
<1>1. Session!TypeOK /\ ~again
  BY DEF EInv, Once
<1>2. ASSUME whole, inode = where[path], NEW i \in Session!Past
      PROVE  text[where[path]][i].ev \in Session!Known \/ text[where[path]][i].kind = "other"
  <2>1. inode # 0
    BY <1>2, Standing
  <2>2. i \in 1 .. offset
    BY <1>2, Standing DEF Session!Past
  <2> QED BY <1>2, <2>1, <2>2 DEF EInv, Entered
<1> QED BY <1>1, <1>2 DEF ReadExactly, Session!ReadExactly

\* Whatever is written, rotated, truncated, rebound or raises, and in whatever order: a binding
\* hands no event on twice, and every line below the offset of a log that was entered at its start
\* was handed on, is in the batch, or was lost for a reason that is named (EveConsumer._read_new).
THEOREM SessionReadsExactly == MCSpec => []ReadExactly
<1>1. MCInit => EInv
  BY SessionStarts DEF MCInit
<1>2. EInv /\ [MCNext]_allVars => EInv'
  <2> SUFFICES ASSUME EInv, [MCNext]_allVars PROVE EInv'
    OBVIOUS
  <2>1. CASE part = "feed" /\ Next /\ UNCHANGED <<part, sessionVars>>
    BY <2>1, SessionStays
  <2>2. CASE part = "session" /\ Session!Next /\ UNCHANGED <<part, vars>>
    BY <2>2, SessionMoves
  <2>3. CASE UNCHANGED allVars
    BY <2>3, SessionStays DEF allVars
  <2> QED BY <2>1, <2>2, <2>3 DEF MCNext
<1>3. EInv => ReadExactly
  BY ReadsExactly
<1> QED BY <1>1, <1>2, <1>3, PTL DEF MCSpec
=============================================================================

-------------------------- MODULE CapturesProofs --------------------------
(***************************************************************************)
(* Proofs about PcapWatcher, for any number of chunks and of watcher       *)
(* threads, whatever is kept, and about CaptureControl, under its prefix   *)
(* in MCCaptures, for any number of dashboards, processes and restarts.    *)
(*                                                                         *)
(* What a watcher deletes is in its processed set.  That set holds only    *)
(* queued chunks because a name is noted after the kickoff, and because    *)
(* what it was loaded from holds only such names: the file, which is some  *)
(* watcher's processed set, or nothing.                                    *)
(***************************************************************************)
EXTENDS MCCaptures, FiniteSetTheorems, TLAPS

Queued == {c \in Chunks : queued[c] > 0}

FileIsQueued  == saved \subseteq Queued
KnownIsQueued == \A r \in Runs : watch[r].known \subseteq Queued

IInv == TypeOK /\ FileIsQueued /\ KnownIsQueued /\ NoneDroppedUnseen

Watches == [at : Places, known : SUBSET Chunks, list : SUBSET Chunks, sick : BOOLEAN]

LEMMA Bounds == MaxChunks \in Nat /\ MaxRuns \in Nat
BY BoundsAssumption

LEMMA InitInv == Init => IInv
<1> SUFFICES ASSUME Init PROVE IInv
  OBVIOUS
<1>1. watch \in [Runs -> Watches] /\ \A r \in Runs : watch[r].known = {}
  BY DEF Init, Watches, Idle, Places
<1>2. made \in 0 .. MaxChunks /\ handle \in 0 .. runs /\ runs \in 0 .. MaxRuns /\ NoRun \in 0 .. MaxRuns
  BY Bounds DEF Init, NoRun
<1>3. queued \in [Chunks -> Nat] /\ job \in [Chunks -> {"none", "parse", "scan", "read", "missed"}]
  BY DEF Init
<1>4. TypeOK
  BY <1>1, <1>2, <1>3 DEF Init, TypeOK, Watches
<1> QED BY <1>1, <1>4 DEF Init, IInv, FileIsQueued, KnownIsQueued, NoneDroppedUnseen

\* A step that queues nothing less, learns nothing that is not queued and deletes nothing keeps the
\* three parts of the invariant.
LEMMA Harmless ==
  ASSUME IInv, TypeOK', made' = made, disk \subseteq disk', gone \subseteq gone',
         \A c \in Chunks : queued'[c] >= queued[c],
         saved' \subseteq Queued,
         \A r \in Runs : watch'[r].known \subseteq Queued'
  PROVE  IInv'
<1> USE DEF IInv, TypeOK
<1>1. Queued \subseteq Queued'
  BY BoundsAssumption DEF Queued
<1>2. FileIsQueued' /\ KnownIsQueued'
  BY <1>1 DEF FileIsQueued, KnownIsQueued
<1>3. NoneDroppedUnseen'
  <2> SUFFICES ASSUME NEW c \in 1 .. made, c \notin disk' \cup gone' PROVE queued'[c] > 0
    BY DEF NoneDroppedUnseen
  <2>1. queued[c] > 0
    BY DEF NoneDroppedUnseen
  <2>2. c \in Chunks
    BY BoundsAssumption DEF Chunks
  <2> QED BY <2>1, <2>2
<1> QED BY <1>2, <1>3

\* tcpdump: a new chunk is on the disk; what a start reclaims is listed as gone.
LEMMA NewChunk ==
  ASSUME IInv, made < MaxChunks, made' = made + 1, disk \ gone' \subseteq disk', made' \in disk', gone \subseteq gone',
         UNCHANGED <<saved, watch, queued>>, TypeOK'
  PROVE  IInv'
<1> USE DEF IInv, TypeOK
<1>1. FileIsQueued' /\ KnownIsQueued'
  BY DEF FileIsQueued, KnownIsQueued, Queued
<1>2. NoneDroppedUnseen'
  <2> SUFFICES ASSUME NEW c \in 1 .. made', c \notin disk' \cup gone' PROVE queued[c] > 0
    BY DEF NoneDroppedUnseen
  <2>1. c \in 1 .. made
    BY BoundsAssumption
  <2>2. c \notin disk \cup gone
    OBVIOUS
  <2> QED BY <2>1, <2>2 DEF NoneDroppedUnseen
<1> QED BY <1>1, <1>2

LEMMA TcpdumpInv == ASSUME IInv, Write \/ Rotate \/ Age \/ StartTcpdump PROVE IInv'
<1> USE DEF IInv
<1>1. CASE Write
  <2>1. TypeOK'
    BY <1>1, BoundsAssumption DEF Write, TypeOK, tasks, hist
  <2> QED BY <1>1, <2>1, Harmless DEF Write, TypeOK, tasks, hist, FileIsQueued, KnownIsQueued, Queued
<1>2. CASE Rotate
  <2>1. TypeOK'
    BY <1>2, BoundsAssumption DEF Rotate, TypeOK, tasks, hist
  <2> QED BY <1>2, <2>1, NewChunk DEF Rotate, tasks, hist, TypeOK
<1>3. CASE Age
  <2>1. TypeOK'
    BY <1>3, BoundsAssumption DEF Age, TypeOK, tasks, hist
  <2> QED BY <1>3, <2>1, Harmless DEF Age, TypeOK, tasks, hist, FileIsQueued, KnownIsQueued, Queued
<1>4. CASE StartTcpdump
  <2> PICK reclaimed \in {{}, disk} : disk' = (disk \ reclaimed) \cup {made'} /\ gone' = gone \cup reclaimed
    BY <1>4 DEF StartTcpdump
  <2>1. disk \subseteq Chunks
    BY BoundsAssumption DEF TypeOK, Chunks
  <2>2. gone' \subseteq Chunks
    BY <2>1 DEF TypeOK
  <2>3. made' \in 0 .. MaxChunks /\ disk' \subseteq 1 .. made' /\ blank' \subseteq 1 .. made' /\ quiet' \subseteq 1 .. made'
    <3>1. made' \in 0 .. MaxChunks /\ 1 .. made \subseteq 1 .. made' /\ made' \in 1 .. made'
      BY <1>4, Bounds DEF StartTcpdump, TypeOK
    <3> QED BY <1>4, <3>1 DEF StartTcpdump, TypeOK
  <2>4. TypeOK'
    BY <1>4, <2>2, <2>3 DEF StartTcpdump, TypeOK, tasks
  <2> QED BY <1>4, <2>4, NewChunk DEF StartTcpdump, tasks, TypeOK
<1> QED BY <1>1, <1>2, <1>3, <1>4

\* A thread that has not loaded its set, or has ended, has an empty one.
LEMMA RequestInv ==
  ASSUME IInv, StartWatcher \/ StartRace \/ StartRaced \/ Stop \/ StopDone \/ Restart
               \/ \E c \in Chunks : DeleteAnalysis(c)
  PROVE  IInv'
<1> USE DEF IInv
<1>1. CASE StartWatcher \/ StartRaced
  <2>1. PICK at \in Places : watch' = [watch EXCEPT ![runs + 1].at = at]
    BY <1>1 DEF StartWatcher, StartRaced, Places
  <2>2. runs + 1 \in Runs
    BY <1>1, BoundsAssumption DEF StartWatcher, StartRaced, TypeOK, Runs
  <2>3. watch' \in [Runs -> Watches] /\ \A r \in Runs : watch'[r].known = watch[r].known
    BY <2>1, <2>2 DEF TypeOK, Watches
  <2>4. TypeOK'
    <3>1. handle' \in 0 .. runs' /\ runs' \in 0 .. MaxRuns /\ set' \subseteq 1 .. runs'
      BY <1>1, BoundsAssumption DEF StartWatcher, StartRaced, TypeOK
    <3>2. caller' \in [at : {"idle", "begin", "join"}, run : 0 .. MaxRuns]
      BY <1>1, BoundsAssumption DEF StartWatcher, StartRaced, TypeOK, NoRun
    <3>3. calm' \in BOOLEAN
      BY <1>1 DEF StartWatcher, StartRaced, TypeOK
    <3> QED BY <1>1, <2>3, <3>1, <3>2, <3>3 DEF StartWatcher, StartRaced, TypeOK, Watches, files, tasks
  <2> QED BY <1>1, <2>3, <2>4, Harmless
          DEF StartWatcher, StartRaced, TypeOK, files, tasks, FileIsQueued, KnownIsQueued, Queued
<1>2. CASE StartRace \/ Stop \/ StopDone
  <2>1. TypeOK'
    <3>0. handle \in 0 .. runs /\ 0 \in 0 .. runs /\ set \subseteq 1 .. runs /\ (handle # 0 => handle \in 1 .. runs)
      BY Bounds DEF TypeOK
    <3>1. handle' \in 0 .. runs /\ set' \subseteq 1 .. runs
      BY <1>2, <3>0 DEF StartRace, Stop, StopDone, NoRun
    <3>2. caller' \in [at : {"idle", "begin", "join"}, run : 0 .. MaxRuns]
      BY <1>2, BoundsAssumption DEF StartRace, Stop, StopDone, TypeOK, NoRun
    <3> QED BY <1>2, <3>1, <3>2 DEF StartRace, Stop, StopDone, TypeOK, files, tasks, hist
  <2> QED BY <1>2, <2>1, Harmless
          DEF StartRace, Stop, StopDone, TypeOK, files, tasks, hist, FileIsQueued, KnownIsQueued, Queued
<1>3. CASE Restart
  <2>1. saved' = saved \/ saved' = {}
    BY <1>3 DEF Restart
  <2>2. watch' \in [Runs -> Watches] /\ \A r \in Runs : watch'[r].known \subseteq watch[r].known
    BY <1>3 DEF Restart, TypeOK, Watches, Ended, Idle, Places
  <2>3. TypeOK'
    <3>1. handle' \in 0 .. runs /\ caller' \in [at : {"idle", "begin", "join"}, run : 0 .. MaxRuns]
      BY <1>3, BoundsAssumption DEF Restart, TypeOK, NoRun
    <3> QED BY <1>3, <2>1, <2>2, <3>1 DEF Restart, TypeOK, Watches, files, tasks
  <2> QED BY <1>3, <2>1, <2>2, <2>3, Harmless DEF Restart, TypeOK, files, tasks, FileIsQueued, KnownIsQueued, Queued
<1>4. CASE \E c \in Chunks : DeleteAnalysis(c)
  <2> PICK c \in Chunks : DeleteAnalysis(c)
    BY <1>4
  <2>1. TypeOK'
    BY DEF DeleteAnalysis, TypeOK, tasks
  <2>2. FileIsQueued' /\ KnownIsQueued'
    BY DEF DeleteAnalysis, tasks, FileIsQueued, KnownIsQueued, Queued
  <2>3. NoneDroppedUnseen'
    BY DEF DeleteAnalysis, tasks, NoneDroppedUnseen
  <2> QED BY <2>1, <2>2, <2>3
<1> QED BY <1>1, <1>2, <1>3, <1>4

LEMMA TurnInv == ASSUME IInv, NEW r \in Runs, Turn(r) PROVE IInv'
<1> USE DEF IInv
<1>1. CASE Load(r)
  <2> PICK known \in {saved, {}} : watch' = [watch EXCEPT ![r] = [at |-> "test", known |-> known, list |-> {}, sick |-> FALSE]]
    BY <1>1 DEF Load
  <2>1. known \subseteq Queued /\ known \in SUBSET Chunks
    BY DEF FileIsQueued, TypeOK
  <2> DEFINE loaded == [at |-> "test", known |-> known, list |-> {}, sick |-> FALSE]
  <2>a. loaded \in Watches
    BY <2>1 DEF Watches, Places
  <2>2. watch' \in [Runs -> Watches]
    BY <2>a DEF TypeOK, Watches
  <2>3. TypeOK'
    BY <1>1, <2>2 DEF Load, TypeOK, Watches, others, tasks
  <2>4. \A o \in Runs : watch'[o].known \subseteq Queued
    BY <2>1 DEF TypeOK, KnownIsQueued
  <2> QED BY <1>1, <2>3, <2>4, Harmless DEF Load, TypeOK, others, tasks, FileIsQueued, Queued
<1>2. CASE End(r)
  <2>1. watch' \in [Runs -> Watches] /\ \A o \in Runs : watch'[o].known \subseteq watch[o].known
    BY <1>2 DEF End, TypeOK, Watches, Ended, Idle, Places
  <2>2. TypeOK'
    BY <1>2, <2>1 DEF End, TypeOK, Watches, files, tasks, hist
  <2> QED BY <1>2, <2>1, <2>2, Harmless DEF End, TypeOK, files, tasks, hist, FileIsQueued, KnownIsQueued, Queued
<1>3. CASE Find(r)
  <2> DEFINE found == ClosedChunks(watch[r].known)
  <2>0. disk \subseteq Chunks
    BY BoundsAssumption DEF TypeOK, Chunks
  <2>1. found \in SUBSET Chunks
    BY <2>0 DEF ClosedChunks
  <2>a. watch' = [watch EXCEPT ![r].at = "claim", ![r].list = found]
    BY <1>3 DEF Find
  <2> HIDE DEF found
  <2>2. watch' \in [Runs -> Watches] /\ \A o \in Runs : watch'[o].known = watch[o].known
    <3> DEFINE claiming == [watch[r] EXCEPT !.at = "claim", !.list = found]
    <3>1. watch \in [Runs -> Watches]
      BY DEF TypeOK, Watches
    <3>2. claiming \in Watches /\ claiming.known = watch[r].known
      BY ONLY <2>1, <3>1 DEF Watches, Places
    <3>3. watch' = [watch EXCEPT ![r] = claiming]
      BY <2>a
    <3> HIDE DEF claiming
    <3> QED BY ONLY <3>1, <3>2, <3>3
  <2>3. TypeOK'
    BY <1>3, <2>2 DEF Find, TypeOK, Watches, others, tasks
  <2> QED BY <1>3, <2>2, <2>3, Harmless DEF Find, TypeOK, others, tasks, FileIsQueued, KnownIsQueued, Queued
<1>4. ASSUME NEW c \in Chunks, Claim(r, c) PROVE IInv'
  <2>1. watch' = [watch EXCEPT ![r].list = watch[r].list \ {c}, ![r].known = watch[r].known \cup {c}]
    BY <1>4 DEF Claim
  <2>2. watch' \in [Runs -> Watches]
    <3> DEFINE claimed == [watch[r] EXCEPT !.list = watch[r].list \ {c}, !.known = watch[r].known \cup {c}]
    <3>1. watch \in [Runs -> Watches]
      BY DEF TypeOK, Watches
    <3>2. claimed \in Watches
      BY ONLY <3>1 DEF Watches
    <3>3. watch' = [watch EXCEPT ![r] = claimed]
      BY <2>1
    <3> HIDE DEF claimed
    <3> QED BY ONLY <3>1, <3>2, <3>3
  <2>3. TypeOK'
    BY <1>4, <2>2 DEF Claim, TypeOK, Watches, others
  <2>4. Queued' = Queued \cup {c} /\ \A d \in Chunks : queued'[d] >= queued[d]
    BY <1>4 DEF Claim, TypeOK, Queued
  <2>5. \A o \in Runs : watch'[o].known \subseteq watch[o].known \cup {c}
    BY <2>1 DEF TypeOK
  <2> QED BY <1>4, <2>3, <2>4, <2>5, Harmless DEF Claim, others, FileIsQueued, KnownIsQueued
<1>5. ASSUME NEW c \in Chunks, CommitFails(r, c) \/ KickoffFails(r, c) PROVE IInv'
  <2>1. watch' \in [Runs -> Watches] /\ \A o \in Runs : watch'[o].known = watch[o].known
    <3>1. CASE CommitFails(r, c)
      BY <3>1 DEF CommitFails, TypeOK, Watches
    <3>2. CASE KickoffFails(r, c)
      <4>1. watch' = [watch EXCEPT ![r].list = watch[r].list \ {c}, ![r].known = watch[r].known]
        BY <3>2 DEF KickoffFails, NotedOnFailure
      <4> QED BY <4>1 DEF TypeOK, Watches
    <3> QED BY <1>5, <3>1, <3>2
  <2>2. TypeOK'
    BY <1>5, <2>1 DEF CommitFails, KickoffFails, TypeOK, Watches, others, tasks
  <2> QED BY <1>5, <2>1, <2>2, Harmless
          DEF CommitFails, KickoffFails, TypeOK, others, tasks, FileIsQueued, KnownIsQueued, Queued
<1>6. CASE Claimed(r)
  <2>1. watch' \in [Runs -> Watches] /\ \A o \in Runs : watch'[o].known = watch[o].known
    BY <1>6 DEF Claimed, At, TypeOK, Watches, Places
  <2>2. TypeOK'
    BY <1>6, <2>1 DEF Claimed, TypeOK, Watches, others, tasks
  <2> QED BY <1>6, <2>1, <2>2, Harmless DEF Claimed, TypeOK, others, tasks, FileIsQueued, KnownIsQueued, Queued
<1>7. CASE Save(r)
  <2>1. SavedNames(watch[r].known) \subseteq watch[r].known
    BY DEF SavedNames, Newest
  <2>2. saved' \subseteq Queued
    BY <1>7, <2>1 DEF Save, FileIsQueued, KnownIsQueued
  <2>3. watch' \in [Runs -> Watches] /\ \A o \in Runs : watch'[o].known = watch[o].known
    BY <1>7 DEF Save, At, TypeOK, Watches, Places
  <2>4. TypeOK'
    BY <1>7, <2>2, <2>3 DEF Save, TypeOK, Watches, others, tasks, Queued
  <2> QED BY <1>7, <2>2, <2>3, <2>4, Harmless DEF Save, TypeOK, others, tasks, KnownIsQueued, Queued
<1>8. CASE Prune(r)
  <2> PICK removed \in SUBSET Prunable(watch[r].known) :
             /\ disk' = disk \ removed
             /\ calm' = (calm /\ removed = Prunable(watch[r].known))
    BY <1>8 DEF Prune
  <2>1. removed \subseteq Queued
    BY DEF Prunable, KnownIsQueued
  <2>2. watch' \in [Runs -> Watches] /\ \A o \in Runs : watch'[o].known = watch[o].known
    BY <1>8 DEF Prune, At, TypeOK, Watches, Places
  <2>3. TypeOK'
    BY <1>8, <2>2 DEF Prune, TypeOK, Watches, others, tasks
  <2>4. FileIsQueued' /\ KnownIsQueued'
    BY <1>8, <2>2 DEF Prune, others, tasks, FileIsQueued, KnownIsQueued, Queued
  <2>5. NoneDroppedUnseen'
    BY <1>8, <2>1 DEF Prune, others, tasks, NoneDroppedUnseen, Queued
  <2> QED BY <2>3, <2>4, <2>5
<1> QED BY <1>1, <1>2, <1>3, <1>4, <1>5, <1>6, <1>7, <1>8 DEF Turn

LEMMA JobInv == ASSUME IInv, NEW c \in Chunks, ParseChunk(c) \/ ScanChunk(c) PROVE IInv'
<1> USE DEF IInv
<1>1. TypeOK'
  BY DEF ParseChunk, ScanChunk, TypeOK, others
<1> QED BY <1>1, Harmless DEF ParseChunk, ScanChunk, TypeOK, others, FileIsQueued, KnownIsQueued, Queued

LEMMA Inductive == Spec => []IInv
<1>1. Init => IInv
  BY InitInv
<1>2. IInv /\ [Next]_vars => IInv'
  <2> SUFFICES ASSUME IInv, [Next]_vars PROVE IInv'
    OBVIOUS
  <2>1. CASE UNCHANGED vars
    BY <2>1 DEF vars, files, tasks, hist, IInv, TypeOK, FileIsQueued, KnownIsQueued, NoneDroppedUnseen, Queued
  <2>2. CASE Next
    BY <2>2, TcpdumpInv, RequestInv, TurnInv, JobInv DEF Next
  <2> QED BY <2>1, <2>2
<1> QED BY <1>1, <1>2, PTL DEF Spec

(* The state of the watcher is well formed, for every bound. *)
THEOREM WatcherTypes == Spec => []TypeOK
<1>1. IInv => TypeOK
  BY DEF IInv
<1> QED BY <1>1, Inductive, PTL

(* No chunk is deleted by the watcher that was not handed to the pipeline, whatever threads,  *)
(* restarts, failed saves and half-written files come together, and however many are kept.    *)
THEOREM DropsOnlySeen == Spec => []NoneDroppedUnseen
<1>1. IInv => NoneDroppedUnseen
  BY DEF IInv
<1> QED BY <1>1, Inductive, PTL

-----------------------------------------------------------------------------
(* What is lost to its analysis, and what is analysed twice.                *)
(*                                                                          *)
(* Counting is only needed to see that a chunk that is pruned has Keep      *)
(* newer ones, and that one with fewer is among the names in the file.  Who *)
(* is not told by an analyst or a start is then there as long as it is      *)
(* young, so that prune leaves young chunks only, and the file has their    *)
(* names.                                                                   *)

ListsAreMade      == \A r \in Runs : watch[r].list \subseteq 1 .. made
HandedOn(c)       == queued[c] > 0 \/ job[c] # "none"
HandedOnAreMade   == \A c \in Chunks : HandedOn(c) => c \in 1 .. made
DroppedBehindKeep == \A c \in 1 .. made : c \notin disk \cup gone => made - c >= Keep

MadeInv == ListsAreMade /\ HandedOnAreMade /\ DroppedBehindKeep /\ LostOnlyBehindKeep

\* Of the chunks made, those newer than one of them.
LEMMA Newer ==
  ASSUME NEW m \in Nat, NEW S \in SUBSET (1 .. m), NEW c \in 1 .. m
  PROVE  LET newer == {d \in S : d > c} IN IsFiniteSet(newer) /\ Cardinality(newer) \in Nat /\ Cardinality(newer) <= m - c
<1> DEFINE newer == {d \in S : d > c}
<1>1. newer \in SUBSET (c + 1 .. m)
  <2> SUFFICES ASSUME NEW d \in newer PROVE d \in c + 1 .. m
    OBVIOUS
  <2>1. d \in 1 .. m /\ d > c
    OBVIOUS
  <2> QED BY <2>1
<1>2. c + 1 \in Int /\ m \in Int
  OBVIOUS
<1>3. IsFiniteSet(c + 1 .. m) /\ Cardinality(c + 1 .. m) = IF c + 1 > m THEN 0 ELSE m - (c + 1) + 1
  BY <1>2, FS_Interval
<1>4. IsFiniteSet(newer) /\ Cardinality(newer) <= Cardinality(c + 1 .. m)
  BY <1>1, <1>3, FS_Subset
<1>5. Cardinality(newer) \in Nat
  BY <1>4, FS_CardinalityType
<1> QED BY <1>3, <1>4, <1>5

\* What prune deletes has Keep newer chunks.
LEMMA PrunedBehindKeep ==
  ASSUME TypeOK, NEW known, NEW c \in Prunable(known)
  PROVE  c \in 1 .. made /\ made - c >= Keep
<1> DEFINE newer == {d \in disk : d > c}
<1>1. c \in disk /\ ~(Cardinality(newer) < Keep)
  BY DEF Prunable, Newest
<1>2. made \in Nat /\ disk \in SUBSET (1 .. made) /\ c \in 1 .. made
  BY <1>1 DEF TypeOK
<1>3. Cardinality(newer) \in Nat /\ Cardinality(newer) <= made - c
  BY <1>2, Newer
<1> HIDE DEF newer
<1> QED BY <1>1, <1>2, <1>3, KeepAssumption

\* What it leaves has fewer, when nobody else deletes.
LEMMA LeftIsYoung ==
  ASSUME TypeOK, DroppedBehindKeep, gone = {}, NEW c \in Newest(disk, Keep)
  PROVE  made - c < Keep
<1> SUFFICES ASSUME made - c >= Keep PROVE FALSE
  BY KeepAssumption DEF TypeOK, Newest
<1> DEFINE newer == {d \in disk : d > c}
           last  == made - Keep + 1 .. made
<1>1. c \in disk /\ Cardinality(newer) < Keep
  BY DEF Newest
<1>2. made \in Nat /\ disk \in SUBSET (1 .. made) /\ c \in 1 .. made
  BY <1>1 DEF TypeOK
<1>3. last \subseteq newer
  <2> SUFFICES ASSUME NEW d \in last PROVE d \in newer
    OBVIOUS
  <2>1. d \in 1 .. made /\ made - d < Keep /\ d > c
    BY <1>2, KeepAssumption
  <2>2. d \in disk
    BY <1>2, <2>1, KeepAssumption DEF DroppedBehindKeep
  <2> QED BY <2>1, <2>2
<1>4. IsFiniteSet(newer) /\ Cardinality(newer) \in Nat
  BY <1>2, Newer
<1>5. made - Keep + 1 \in Int /\ made \in Int
  BY <1>2, KeepAssumption
<1>6. Cardinality(last) = IF made - Keep + 1 > made THEN 0 ELSE made - (made - Keep + 1) + 1
  BY <1>5, FS_Interval
<1>7. Cardinality(last) <= Cardinality(newer)
  BY <1>3, <1>4, FS_Subset
<1> HIDE DEF newer, last
<1> QED BY <1>1, <1>2, <1>4, <1>6, <1>7, KeepAssumption

\* The file has room for the name of a chunk with few newer ones.
LEMMA Room ==
  ASSUME TypeOK, NEW known \in SUBSET (1 .. made), NEW c \in known,
         made <= SaveCap \/ (Keep <= SaveCap /\ made - c < Keep)
  PROVE  c \in SavedNames(known)
<1> DEFINE newer == {d \in known : d > c}
<1>1. made \in Nat /\ c \in 1 .. made
  BY DEF TypeOK
<1>2. Cardinality(newer) \in Nat /\ Cardinality(newer) <= made - c
  BY <1>1, Newer
<1>3. Cardinality(newer) < SaveCap
  <2> HIDE DEF newer
  <2> QED BY <1>1, <1>2, KeepAssumption, BoundsAssumption
<1> QED BY <1>3 DEF SavedNames, Newest

-----------------------------------------------------------------------------
\* What every step does to chunks and analyses.
Shape ==
  /\ made' >= made  /\ gone \subseteq gone'
  /\ \A c \in 1 .. made' : c \notin disk' \cup gone' => c \in 1 .. made /\ (c \notin disk \cup gone \/ made - c >= Keep)
  /\ \A r \in Runs : watch'[r].list \subseteq watch[r].list \cup disk
  /\ \A c \in Chunks : HandedOn(c)' => HandedOn(c) \/ \E r \in Runs : c \in watch[r].list
  /\ \A c \in Chunks : job'[c] = "missed" => job[c] = "missed" \/ (HandedOn(c) /\ c \notin disk)

LEMMA Further ==
  ASSUME NEW m \in Nat, NEW n \in Nat, NEW c \in Int, n >= m, m - c >= Keep
  PROVE  n - c >= Keep
BY KeepAssumption

LEMMA ShapeInv == ASSUME IInv, TypeOK', MadeInv, Shape PROVE MadeInv'
<1> USE DEF IInv, MadeInv
<1>1. made \in Nat /\ made' \in Nat /\ 1 .. made \subseteq 1 .. made' /\ 1 .. made \subseteq Chunks
  BY BoundsAssumption DEF Shape, TypeOK, Chunks
<1>2. ListsAreMade'
  BY <1>1 DEF Shape, TypeOK, ListsAreMade
<1>3. HandedOnAreMade'
  BY <1>1 DEF Shape, HandedOnAreMade, ListsAreMade
<1>4. DroppedBehindKeep'
  <2> SUFFICES ASSUME NEW c \in 1 .. made', c \notin disk' \cup gone' PROVE made' - c >= Keep
    BY DEF DroppedBehindKeep
  <2>1. c \in 1 .. made /\ made' >= made /\ made - c >= Keep
    BY DEF Shape, DroppedBehindKeep
  <2> QED BY <1>1, <2>1, Further
<1>5. LostOnlyBehindKeep'
  <2> SUFFICES ASSUME NEW c \in Chunks, job'[c] = "missed", c \notin gone' PROVE made' - c >= Keep
    BY DEF LostOnlyBehindKeep
  <2>1. c \notin gone /\ made' >= made /\ c \in Int
    BY BoundsAssumption DEF Shape, Chunks
  <2>2. CASE job[c] = "missed"
    <3>1. made - c >= Keep
      BY <2>1, <2>2 DEF LostOnlyBehindKeep
    <3> QED BY <1>1, <2>1, <3>1, Further
  <2>3. CASE HandedOn(c) /\ c \notin disk
    <3>1. made - c >= Keep
      BY <2>1, <2>3 DEF HandedOnAreMade, DroppedBehindKeep
    <3> QED BY <1>1, <2>1, <3>1, Further
  <2> QED BY <2>2, <2>3 DEF Shape
<1> QED BY <1>2, <1>3, <1>4, <1>5

\* Steps that leave the chunks and the lists of the threads alone.
LEMMA SameShape ==
  ASSUME IInv, UNCHANGED <<made, disk, gone, queued, job>>,
         \A r \in Runs : watch'[r].list \subseteq watch[r].list \cup disk
  PROVE  Shape
BY DEF IInv, TypeOK, Shape, HandedOn

LEMMA OutsideShape ==
  ASSUME IInv, Write \/ Rotate \/ Age \/ StartTcpdump \/ StartWatcher \/ StartRace \/ StartRaced \/ Stop \/ StopDone
               \/ Restart \/ \E c \in Chunks : DeleteAnalysis(c)
  PROVE  Shape
<1> USE DEF IInv
<1>0. made \in Nat /\ made' = made + 1 => made' \in Nat /\ 1 .. made' = (1 .. made) \cup {made'}
  OBVIOUS
<1>1. CASE Write \/ Age \/ StartRace \/ Stop \/ StopDone
  BY <1>1, SameShape DEF Write, Age, StartRace, Stop, StopDone, files, tasks, hist
<1>2. CASE Rotate \/ StartTcpdump
  <2>1. UNCHANGED <<watch, queued, job>> /\ gone \subseteq gone' /\ made' = made + 1
    BY <1>2 DEF Rotate, StartTcpdump, tasks, hist
  <2>2. made' \in disk' /\ disk \subseteq disk' \cup gone'
    BY <1>2 DEF Rotate, StartTcpdump, tasks, hist
  <2>3. made \in Nat
    BY DEF TypeOK
  <2> QED BY <1>0, <2>1, <2>2, <2>3 DEF Shape, HandedOn
<1>3. CASE StartWatcher \/ StartRaced
  <2>1. watch' = [watch EXCEPT ![runs + 1].at = "load"] /\ UNCHANGED <<made, disk, gone, queued, job>>
    BY <1>3 DEF StartWatcher, StartRaced, files, tasks
  <2>2. \A r \in Runs : watch'[r].list = watch[r].list
    BY <2>1 DEF TypeOK
  <2> QED BY <2>1, <2>2, SameShape
<1>4. CASE Restart
  <2>1. \A r \in Runs : watch'[r].list \subseteq watch[r].list
    BY <1>4 DEF Restart, Ended, Idle
  <2> QED BY <1>4, <2>1, SameShape DEF Restart, files, tasks
<1>5. CASE \E c \in Chunks : DeleteAnalysis(c)
  BY <1>5 DEF DeleteAnalysis, tasks, TypeOK, Shape, HandedOn
<1> QED BY <1>1, <1>2, <1>3, <1>4, <1>5

LEMMA TurnShape == ASSUME IInv, NEW r \in Runs, Turn(r) PROVE Shape
<1> USE DEF IInv
<1>1. CASE Load(r)
  <2>1. PICK known : watch' = [watch EXCEPT ![r] = [at |-> "test", known |-> known, list |-> {}, sick |-> FALSE]]
    BY <1>1 DEF Load
  <2>2. \A o \in Runs : watch'[o].list \subseteq watch[o].list
    BY <2>1 DEF TypeOK
  <2> QED BY <1>1, <2>2, SameShape DEF Load, others, tasks
<1>2. CASE End(r)
  <2>1. \A o \in Runs : watch'[o].list \subseteq watch[o].list
    BY <1>2 DEF End, TypeOK, Ended, Idle
  <2> QED BY <1>2, <2>1, SameShape DEF End, files, tasks, hist
<1>3. CASE Find(r)
  <2>1. \A o \in Runs : watch'[o].list \subseteq watch[o].list \cup disk
    BY <1>3 DEF Find, TypeOK, ClosedChunks
  <2> QED BY <1>3, <2>1, SameShape DEF Find, others, tasks
<1>4. ASSUME NEW c \in Chunks, Claim(r, c) PROVE Shape
  <2>1. watch' = [watch EXCEPT ![r].list = watch[r].list \ {c}, ![r].known = watch[r].known \cup {c}] /\ c \in watch[r].list
    BY <1>4 DEF Claim, First
  <2>2. \A o \in Runs : watch'[o].list \subseteq watch[o].list
    BY <2>1 DEF TypeOK
  <2>3. \A d \in Chunks : d # c => queued'[d] = queued[d] /\ job'[d] = job[d]
    BY <1>4 DEF Claim, TypeOK
  <2>4. job'[c] = "missed" => job[c] = "missed"
    BY <1>4 DEF Claim, TypeOK
  <2> QED BY <1>4, <2>1, <2>2, <2>3, <2>4 DEF Claim, others, TypeOK, Shape, HandedOn
<1>5. ASSUME NEW c \in Chunks, CommitFails(r, c) \/ KickoffFails(r, c) PROVE Shape
  <2>1. \A o \in Runs : watch'[o].list \subseteq watch[o].list
    <3>1. CASE CommitFails(r, c)
      BY <3>1 DEF CommitFails, TypeOK
    <3>2. CASE KickoffFails(r, c)
      <4>1. watch' = [watch EXCEPT ![r].list = watch[r].list \ {c}, ![r].known = watch[r].known]
        BY <3>2 DEF KickoffFails, NotedOnFailure
      <4> QED BY <4>1 DEF TypeOK
    <3> QED BY <1>5, <3>1, <3>2
  <2> QED BY <1>5, <2>1, SameShape DEF CommitFails, KickoffFails, others, tasks
<1>6. CASE Claimed(r) \/ Save(r)
  <2>1. \A o \in Runs : watch'[o].list = watch[o].list
    BY <1>6 DEF Claimed, Save, At, TypeOK
  <2> QED BY <1>6, <2>1, SameShape DEF Claimed, Save, others, tasks
<1>7. CASE Prune(r)
  <2>1. PICK removed \in SUBSET Prunable(watch[r].known) : disk' = disk \ removed
    BY <1>7 DEF Prune
  <2>2. \A c \in removed : c \in 1 .. made /\ made - c >= Keep
    BY <2>1, PrunedBehindKeep
  <2>3. \A o \in Runs : watch'[o].list = watch[o].list
    BY <1>7 DEF Prune, At, TypeOK
  <2>4. UNCHANGED <<made, gone, queued, job>>
    BY <1>7 DEF Prune, others, tasks
  <2> QED BY <2>1, <2>2, <2>3, <2>4 DEF TypeOK, Shape, HandedOn
<1> QED BY <1>1, <1>2, <1>3, <1>4, <1>5, <1>6, <1>7 DEF Turn

LEMMA JobShape == ASSUME IInv, NEW c \in Chunks, ParseChunk(c) \/ ScanChunk(c) PROVE Shape
<1>1. UNCHANGED <<made, disk, gone, queued, watch>>
  BY DEF ParseChunk, ScanChunk, others
<1>2. job[c] # "none" /\ \A d \in Chunks : d # c => job'[d] = job[d]
  BY DEF IInv, TypeOK, ParseChunk, ScanChunk
<1>3. job'[c] = "missed" => c \notin disk
  BY DEF IInv, TypeOK, ParseChunk, ScanChunk
<1> QED BY <1>1, <1>2, <1>3 DEF IInv, TypeOK, Shape, HandedOn

LEMMA InductiveMade == Spec => []MadeInv
<1>1. Init => MadeInv
  <2> SUFFICES ASSUME Init PROVE MadeInv
    OBVIOUS
  <2>1. made = 0 /\ (\A r \in Runs : watch[r].list = {}) /\ \A c \in Chunks : queued[c] = 0 /\ job[c] = "none"
    BY DEF Init, Idle
  <2> QED BY <2>1 DEF MadeInv, ListsAreMade, HandedOnAreMade, HandedOn, DroppedBehindKeep, LostOnlyBehindKeep
<1>2. IInv /\ IInv' /\ MadeInv /\ [Next]_vars => MadeInv'
  <2> SUFFICES ASSUME IInv, IInv', MadeInv, [Next]_vars PROVE MadeInv'
    OBVIOUS
  <2>1. CASE UNCHANGED vars
    BY <2>1, SameShape, ShapeInv DEF vars, files, tasks, hist, IInv
  <2>2. CASE Next
    BY <2>2, OutsideShape, TurnShape, JobShape, ShapeInv DEF Next, IInv
  <2> QED BY <2>1, <2>2
<1> QED BY <1>1, <1>2, Inductive, PTL DEF Spec

(* A chunk that its analysis no longer finds, and that no analyst and no start has deleted,  *)
(* has at least Keep newer ones.                                                             *)
THEOREM LostBehindKeep == Spec => []LostOnlyBehindKeep
<1>1. MadeInv => LostOnlyBehindKeep
  BY DEF MadeInv
<1> QED BY <1>1, InductiveMade, PTL

-----------------------------------------------------------------------------
(* One watcher at a time knows every queued chunk that is on the disk, and  *)
(* between two rounds the file does, too.                                   *)

Working(r) == watch[r].at \in {"test", "claim", "save", "prune"}
Busy(r)    == watch[r].at \in {"claim", "save", "prune"}
Young(c)   == made - c < Keep

OneWatcher == calm => \A r, o \in Runs : Alive(r) /\ Alive(o) => r = o
KnowsDisk  == \A r \in Runs : Working(r) => Queued \cap disk \subseteq watch[r].known
ListIsNew  == \A r \in Runs : Working(r) => watch[r].list \cap Queued = {}
FileKnows  == (\A r \in Runs : ~Busy(r)) => Queued \cap disk \subseteq saved
FileWill   == \A r \in Runs : watch[r].at = "prune" =>
                \A c \in Queued \cap disk : made <= SaveCap \/ Young(c) => c \in saved
Once       == \A c \in Chunks : queued[c] <= 1

OnceInv == OneWatcher /\ (calm /\ Remembered => KnowsDisk /\ ListIsNew /\ FileKnows /\ FileWill /\ Once)

\* What was remembered only ever comes to an end.
LEMMA RememberedBefore ==
  ASSUME TypeOK, TypeOK', Shape, Remembered'
  PROVE  Remembered
BY BoundsAssumption, KeepAssumption DEF TypeOK, Shape, Remembered

LEMMA StaysOld ==
  ASSUME NEW m \in Nat, NEW n \in Nat, NEW c \in Int, n >= m
  PROVE  (n <= SaveCap => m <= SaveCap) /\ (n - c < Keep => m - c < Keep)
BY KeepAssumption, BoundsAssumption

\* Steps that leave the threads, what is queued and the file alone.
LEMMA QuietOnce ==
  ASSUME IInv, TypeOK', MadeInv, OnceInv, Shape, UNCHANGED <<saved, watch, queued>>, calm' => calm,
         disk' \cap (1 .. made) \subseteq disk
  PROVE  OnceInv'
<1>1. OneWatcher'
  BY DEF OnceInv, OneWatcher, Alive
<1>2. ASSUME calm', Remembered' PROVE KnowsDisk' /\ ListIsNew' /\ FileKnows' /\ FileWill' /\ Once'
  <2>1. calm /\ Remembered
    BY <1>2, RememberedBefore DEF IInv
  <2>2. KnowsDisk /\ ListIsNew /\ FileKnows /\ FileWill /\ Once
    BY <2>1 DEF OnceInv
  <2>3. Queued' = Queued /\ Queued \cap disk' \subseteq Queued \cap disk
    BY DEF Queued, MadeInv, HandedOnAreMade, HandedOn
  <2>4. KnowsDisk' /\ ListIsNew' /\ FileKnows' /\ Once'
    BY <2>2, <2>3 DEF KnowsDisk, ListIsNew, FileKnows, Once, Working, Busy
  <2>5. \A c \in Chunks : made' <= SaveCap \/ Young(c)' => made <= SaveCap \/ Young(c)
    <3>1. made \in Nat /\ made' \in Nat /\ made' >= made /\ Chunks \subseteq Int
      BY DEF IInv, TypeOK, Shape, Chunks
    <3> QED BY <3>1, StaysOld DEF Young
  <2>6. FileWill'
    BY <2>2, <2>3, <2>5 DEF FileWill, Queued
  <2> QED BY <2>4, <2>6
<1> QED BY <1>1, <1>2 DEF OnceInv

LEMMA OutsideOnce ==
  ASSUME IInv, TypeOK', MadeInv, OnceInv, Shape,
         \/ Write \/ Rotate \/ Age \/ StartTcpdump \/ StartRace \/ Stop \/ StopDone
         \/ \E c \in Chunks : DeleteAnalysis(c) \/ ParseChunk(c) \/ ScanChunk(c)
  PROVE  OnceInv'
<1>1. UNCHANGED <<saved, watch, queued, calm>>
  BY DEF Write, Rotate, Age, StartTcpdump, StartRace, Stop, StopDone, DeleteAnalysis, ParseChunk, ScanChunk,
         files, tasks, hist, others
<1>2. CASE Rotate \/ StartTcpdump
  <2>1. disk' \subseteq disk \cup {made + 1} /\ made \in Nat
    BY <1>2 DEF Rotate, StartTcpdump, IInv, TypeOK
  <2> QED BY <1>1, <2>1, QuietOnce
<1>3. CASE Write \/ Age \/ StartRace \/ Stop \/ StopDone \/ \E c \in Chunks : DeleteAnalysis(c) \/ ParseChunk(c) \/ ScanChunk(c)
  <2>1. disk' \subseteq disk
    BY <1>3 DEF Write, Age, StartRace, Stop, StopDone, DeleteAnalysis, ParseChunk, ScanChunk, files, tasks, hist, others
  <2> QED BY <1>1, <2>1, QuietOnce
<1> QED BY <1>2, <1>3

\* A thread starts calmly only when there is none.
LEMMA StartOnce ==
  ASSUME IInv, TypeOK', MadeInv, OnceInv, Shape, StartWatcher \/ StartRaced
  PROVE  OnceInv'
<1> SUFFICES ASSUME calm' PROVE OnceInv'
  BY DEF OnceInv, OneWatcher
<1>1. calm /\ \A r \in Runs : ~Alive(r)
  BY DEF StartWatcher, StartRaced
<1>2. watch' = [watch EXCEPT ![runs + 1].at = "load"] /\ UNCHANGED <<made, disk, saved, queued, gone>>
  BY DEF StartWatcher, StartRaced, files, tasks
<1>3. \A r \in Runs : r # runs + 1 => watch'[r] = watch[r]
  BY <1>2 DEF IInv, TypeOK
<1>4. runs + 1 \in Runs /\ watch'[runs + 1].at = "load"
  <2>1. runs < MaxRuns
    BY DEF StartWatcher, StartRaced
  <2>2. runs + 1 \in Runs
    BY <2>1, Bounds DEF IInv, TypeOK, Runs
  <2> QED BY <1>2, <2>2 DEF IInv, TypeOK
<1>5. \A r \in Runs : r # runs + 1 => ~Alive(r)'
  BY <1>1, <1>3 DEF Alive
<1>6. \A r \in Runs : ~Working(r)' /\ ~Busy(r)' /\ ~Busy(r) /\ watch'[r].at # "prune"
  <2>1. \A r \in Runs : watch[r].at \in {"none", "off"}
    BY <1>1 DEF Alive, NoRun, Runs
  <2> QED BY <1>3, <1>4, <2>1 DEF Working, Busy
<1>7. OneWatcher'
  BY <1>5 DEF OneWatcher
<1> QED BY <1>1, <1>2, <1>6, <1>7 DEF OnceInv, Remembered, KnowsDisk, ListIsNew, FileKnows, FileWill, Once, Queued

\* The turn of a thread, while it is the only one.
LEMMA TurnOnce == ASSUME IInv, IInv', MadeInv, OnceInv, Shape, NEW r \in Runs, Turn(r) PROVE OnceInv'
<1> SUFFICES ASSUME calm' PROVE OnceInv'
  BY DEF OnceInv, OneWatcher
<1>1. calm
  BY DEF Turn, Load, End, Find, Claim, CommitFails, KickoffFails, Claimed, Save, Prune, hist
<1>2. Alive(r) /\ \A o \in Runs : o # r => watch'[o] = watch[o]
  <2>1. watch[r].at \in {"load", "test", "claim", "save", "prune"}
    BY DEF Turn, Load, End, Find, Claim, CommitFails, KickoffFails, First, Claimed, Save, Prune
  <2>2. Alive(r)
    BY <2>1 DEF Alive, NoRun, Runs
  <2>3. watch \in [Runs -> Watches]
    BY DEF IInv, TypeOK, Watches
  <2>4. Load(r) \/ End(r) \/ Find(r) => \A o \in Runs : o # r => watch'[o] = watch[o]
    BY <2>3 DEF Load, End, Find
  <2>5. Claimed(r) \/ Save(r) \/ Prune(r) => \A o \in Runs : o # r => watch'[o] = watch[o]
    BY <2>3 DEF Claimed, Save, Prune, At
  <2>6. \A c \in Chunks : Claim(r, c) \/ CommitFails(r, c) \/ KickoffFails(r, c) => \A o \in Runs : o # r => watch'[o] = watch[o]
    BY <2>3 DEF Claim, CommitFails, KickoffFails
  <2> QED BY <2>2, <2>4, <2>5, <2>6 DEF Turn
<1>3. \A o \in Runs : o # r => ~Alive(o) /\ ~Alive(o)'
  BY <1>1, <1>2 DEF OnceInv, OneWatcher, Alive
<1>4. OneWatcher'
  BY <1>3 DEF OneWatcher
<1>5. \A o \in Runs : o # r => watch'[o].at \in {"none", "off"} /\ watch[o].at \in {"none", "off"}
  BY <1>3 DEF Alive, NoRun, Runs
<1> SUFFICES ASSUME Remembered' PROVE KnowsDisk' /\ ListIsNew' /\ FileKnows' /\ FileWill' /\ Once'
  BY <1>4 DEF OnceInv
<1>6. Remembered
  BY RememberedBefore DEF IInv
<1>7. KnowsDisk /\ ListIsNew /\ FileKnows /\ FileWill /\ Once
  BY <1>1, <1>6 DEF OnceInv
\* So it suffices to look at r.
<1> DEFINE known == watch[r].known
           list  == watch[r].list
           Next1 == /\ Working(r)' => Queued' \cap disk' \subseteq watch'[r].known /\ watch'[r].list \cap Queued' = {}
                    /\ ~Busy(r)' => Queued' \cap disk' \subseteq saved'
                    /\ watch'[r].at = "prune" => \A c \in Queued' \cap disk' : made' <= SaveCap \/ Young(c)' => c \in saved'
                    /\ Once'
<1>8. SUFFICES Next1
  BY <1>5, <1>8 DEF KnowsDisk, ListIsNew, FileKnows, FileWill, Working, Busy
<1>9. watch \in [Runs -> Watches]
  BY DEF IInv, TypeOK, Watches
<1>10. CASE Load(r)
  <2>1. watch[r].at = "load" /\ UNCHANGED <<saved, disk, queued, made>>
    BY <1>10 DEF Load, others, tasks
  <2>2. watch' = [watch EXCEPT ![r] = [at |-> "test", known |-> saved, list |-> {}, sick |-> FALSE]]
    BY <1>5, <1>10, <2>1 DEF Load
  <2>3. watch'[r] = [at |-> "test", known |-> saved, list |-> {}, sick |-> FALSE]
    BY <1>9, <2>2
  <2>4. Queued \cap disk \subseteq saved
    BY <1>5, <1>7, <2>1 DEF FileKnows, Busy
  <2> QED BY <1>7, <2>1, <2>3, <2>4 DEF Once, Queued, Working, Busy
<1>11. CASE End(r)
  <2>1. watch[r].at = "test" /\ UNCHANGED <<saved, disk, queued, made>> /\ watch' = [watch EXCEPT ![r] = Ended]
    BY <1>11 DEF End, files, tasks
  <2>2. watch'[r].at = "off"
    BY <1>9, <2>1 DEF Ended, Idle
  <2>3. Queued \cap disk \subseteq saved
    BY <1>5, <1>7, <2>1 DEF FileKnows, Busy
  <2> QED BY <1>7, <2>1, <2>2, <2>3 DEF Once, Queued, Working, Busy
<1>12. CASE Find(r)
  <2>1. watch[r].at = "test" /\ UNCHANGED <<saved, disk, queued, made>>
    BY <1>12 DEF Find, others, tasks
  <2>2. watch'[r].at = "claim" /\ watch'[r].known = known /\ watch'[r].list = ClosedChunks(known)
    BY <1>9, <1>12 DEF Find, Watches
  <2>3. Queued \cap disk \subseteq known
    BY <1>7, <2>1 DEF KnowsDisk, Working
  <2>4. ClosedChunks(known) \cap Queued = {}
    BY <2>3 DEF ClosedChunks
  <2> QED BY <1>7, <2>1, <2>2, <2>3, <2>4 DEF Once, Queued, Working, Busy
<1>13. ASSUME NEW c \in Chunks, Claim(r, c) PROVE Next1
  <2>1. watch[r].at = "claim" /\ UNCHANGED <<saved, disk, made>> /\ c \in list
    BY <1>13 DEF Claim, First, others
  <2>2. watch'[r].at = "claim" /\ watch'[r].known = known \cup {c} /\ watch'[r].list = list \ {c}
    BY <1>9, <1>13, <2>1 DEF Claim, Watches
  <2>3. Queued \cap disk \subseteq known /\ list \cap Queued = {}
    BY <1>7, <2>1 DEF KnowsDisk, ListIsNew, Working
  <2>4. queued' = [queued EXCEPT ![c] = @ + 1] /\ queued \in [Chunks -> Nat]
    BY <1>13 DEF Claim, IInv, TypeOK
  <2>5. queued[c] = 0
    BY <2>1, <2>3, <2>4 DEF Queued
  <2>6. Queued' = Queued \cup {c}
    BY <2>4 DEF Queued
  <2>7. Once'
    BY <1>7, <2>4, <2>5 DEF Once
  <2> QED BY <2>1, <2>2, <2>3, <2>6, <2>7 DEF Working, Busy
<1>14. ASSUME NEW c \in Chunks, CommitFails(r, c) \/ KickoffFails(r, c) PROVE Next1
  <2>1. watch[r].at = "claim" /\ UNCHANGED <<saved, disk, queued, made>>
    BY <1>14 DEF CommitFails, KickoffFails, First, others, tasks
  <2>2. watch'[r].at = "claim" /\ watch'[r].known = known /\ watch'[r].list = list \ {c}
    <3>1. CASE CommitFails(r, c)
      BY <1>9, <2>1, <3>1 DEF CommitFails, Watches
    <3>2. CASE KickoffFails(r, c)
      <4>1. watch' = [watch EXCEPT ![r].list = list \ {c}, ![r].known = known]
        BY <3>2 DEF KickoffFails, NotedOnFailure
      <4> QED BY <1>9, <2>1, <4>1 DEF Watches
    <3> QED BY <1>14, <3>1, <3>2
  <2>3. Queued \cap disk \subseteq known /\ list \cap Queued = {}
    BY <1>7, <2>1 DEF KnowsDisk, ListIsNew, Working
  <2> QED BY <1>7, <2>1, <2>2, <2>3 DEF Once, Queued, Working, Busy
<1>15. CASE Claimed(r)
  <2>1. watch[r].at = "claim" /\ UNCHANGED <<saved, disk, queued, made>>
    BY <1>15 DEF Claimed, others, tasks
  <2>2. watch'[r].at = "save" /\ watch'[r].known = known /\ watch'[r].list = list
    BY <1>9, <1>15 DEF Claimed, At, Watches
  <2> QED BY <1>7, <2>1, <2>2 DEF KnowsDisk, ListIsNew, Once, Queued, Working, Busy
<1>16. CASE Save(r)
  <2>1. watch[r].at = "save" /\ saved' = SavedNames(known) /\ UNCHANGED <<disk, queued, made, gone>>
    BY <1>16 DEF Save, others, tasks
  <2>2. watch'[r].at = "prune" /\ watch'[r].known = known /\ watch'[r].list = list
    BY <1>9, <1>16 DEF Save, At, Watches
  <2>3. Queued \cap disk \subseteq known /\ list \cap Queued = {}
    BY <1>7, <2>1 DEF KnowsDisk, ListIsNew, Working
  <2>4. known \subseteq 1 .. made
    BY DEF IInv, KnownIsQueued, Queued, MadeInv, HandedOnAreMade, HandedOn
  <2>5. ASSUME NEW c \in Queued \cap disk, made <= SaveCap \/ Young(c) PROVE c \in saved'
    <3>1. made <= SaveCap \/ (Keep <= SaveCap /\ made - c < Keep)
      BY <1>6, <2>5 DEF Remembered, Young
    <3> QED BY <2>1, <2>3, <2>4, <3>1, Room DEF IInv
  <2> QED BY <1>7, <2>1, <2>2, <2>3, <2>5 DEF Once, Queued, Working, Busy, Young
<1>17. CASE Prune(r)
  <2>1. watch[r].at = "prune" /\ UNCHANGED <<saved, queued, made, gone>> /\ disk' = disk \ Prunable(known)
    BY <1>17 DEF Prune, others, tasks
  <2>2. watch'[r].at = "test" /\ watch'[r].known = known /\ watch'[r].list = list
    BY <1>9, <1>17 DEF Prune, At, Watches
  <2>3. Queued \cap disk \subseteq known /\ list \cap Queued = {}
    BY <1>7, <2>1 DEF KnowsDisk, ListIsNew, Working
  <2>4. ASSUME NEW c \in Queued \cap disk' PROVE c \in saved
    <3>1. c \in Newest(disk, Keep) /\ c \in Queued \cap disk
      BY <2>1, <2>3 DEF Prunable
    <3>2. made <= SaveCap \/ Young(c)
      BY <1>6, <3>1, LeftIsYoung DEF Remembered, IInv, MadeInv, Young, Queued
    <3> QED BY <1>7, <2>1, <3>1, <3>2 DEF FileWill
  <2> QED BY <1>7, <2>1, <2>2, <2>3, <2>4 DEF Once, Queued, Working, Busy
<1> QED BY <1>10, <1>11, <1>12, <1>13, <1>14, <1>15, <1>16, <1>17 DEF Turn

LEMMA InductiveOnce == Spec => []OnceInv
<1>1. Init => OnceInv
  <2> SUFFICES ASSUME Init PROVE OnceInv
    OBVIOUS
  <2>1. disk = {} /\ (\A r \in Runs : watch[r].at = "none") /\ \A c \in Chunks : queued[c] = 0
    BY DEF Init, Idle
  <2> QED BY <2>1 DEF OnceInv, OneWatcher, Alive, KnowsDisk, ListIsNew, FileKnows, FileWill, Once, Working
<1>2. IInv /\ IInv' /\ MadeInv /\ OnceInv /\ [Next]_vars => OnceInv'
  <2> SUFFICES ASSUME IInv, IInv', MadeInv, OnceInv, [Next]_vars PROVE OnceInv'
    OBVIOUS
  <2>1. CASE UNCHANGED vars
    <3>1. Shape
      BY <2>1, SameShape DEF vars, files, tasks, hist, IInv
    <3> QED BY <2>1, <3>1, QuietOnce DEF vars, files, tasks, hist, IInv
  <2>2. CASE Next
    <3>1. Shape
      BY <2>2, OutsideShape, TurnShape, JobShape DEF Next
    <3>2. Restart => OnceInv'
      BY DEF Restart, OnceInv, OneWatcher
    <3> QED BY <2>2, <3>1, <3>2, OutsideOnce, StartOnce, TurnOnce DEF Next, IInv
  <2> QED BY <2>1, <2>2
<1> QED BY <1>1, <1>2, Inductive, InductiveMade, PTL DEF Spec

(* A chunk is queued once, however commits and kickoffs fail and watchers start and stop, as *)
(* long as nothing of what AnalysedOnce excludes has happened.                               *)
THEOREM QueuedOnce == Spec => []AnalysedOnce
<1>1. OnceInv => AnalysedOnce
  BY DEF OnceInv, AnalysedOnce, Once
<1> QED BY <1>1, InductiveOnce, PTL

-----------------------------------------------------------------------------
(* CaptureControl: types, and what requests hold of processes.              *)

Places1(kind) ==
  CASE kind = "none"       -> {"idle"}
    [] kind = "status"     -> {"decide", "autofeed"}
    [] kind = "start"      -> {"decide", "check", "popen", "settle", "write", "feed", "ml", "mlwrite"}
    [] kind = "stop"       -> {"ml", "mlwrite", "unfeed", "halt", "wait", "unwatch"}
    [] kind = "panelStart" -> {"check", "popen", "settle"}
    [] kind = "panelStop"  -> {"wait"}

Kinds   == {"none", "status", "start", "stop", "panelStart", "panelStop"}
ReqPlaces == {"idle", "decide", "autofeed", "check", "popen", "settle", "write", "feed",
              "ml", "mlwrite", "unfeed", "halt", "wait", "unwatch"}
AnyMode == {"suricata", "tcpdump", "none"}
Pids    == Control!Procs \cup {Control!NoPid}
Threads == [kind : Kinds, at : ReqPlaces, mode : AnyMode, pid : Pids, snap : Control!States, seen : BOOLEAN]

\* A state file, or what was read of it, names a process that was started, in its mode.
NamesOne(s) == s # Control!NoState => s.pid \in Control!Procs /\ proc[s.pid].at # "unborn" /\ proc[s.pid].mode = s.mode

\* What is true of request thread r, whatever the others do.
InOrder(r) ==
  /\ req[r].at \in Places1(req[r].kind)
  /\ req[r].kind = "none" => req[r] = Control!Idle
  /\ r \notin Controllers => req[r].kind \in {"none", "status"}
  /\ req[r].kind \in {"panelStart", "panelStop"} => panel
  /\ req[r].at \in {"settle", "write", "wait"} => req[r].pid # Control!NoPid
  /\ req[r].at \in {"check", "popen", "settle", "write"} => req[r].mode # "none"
  /\ req[r].kind = "start" => req[r].mode # "none"
  /\ req[r].pid # Control!NoPid => proc[req[r].pid].at # "unborn" /\ proc[req[r].pid].mode = req[r].mode
  /\ NamesOne(req[r].snap)
  /\ req[r].at = "mlwrite" => req[r].snap # Control!NoState

BornInAMode == \A p \in Control!Procs : proc[p].at # "unborn" => proc[p].mode # "none"
HandlesBorn == \A h \in {managed, tcpdump} : h # Control!NoPid => proc[h].at # "unborn"

ControlInv ==
  Control!TypeOK /\ NamesOne(state) /\ BornInAMode /\ HandlesBorn /\ \A r \in Control!Requests : InOrder(r)

\* Processes that were started stay so, in their mode.
Ages == \A p \in Control!Procs : proc[p].at # "unborn" => proc'[p].at # "unborn" /\ proc'[p].mode = proc[p].mode

\* ... and what names one still does.
StillNames(s) == s # Control!NoState => s.pid \in Control!Procs /\ proc'[s.pid].at # "unborn" /\ proc'[s.pid].mode = s.mode

ProcTypes == [Control!Procs -> [at : {"unborn", "up", "terminated", "dead", "foreign"}, mode : AnyMode]]

LEMMA ControlTypesDef ==
  Control!TypeOK <=>
    /\ proc \in ProcTypes
    /\ external \in BOOLEAN
    /\ managed \in {p \in Control!Procs : proc[p].mode = "suricata"} \cup {Control!NoPid}
    /\ tcpdump \in {p \in Control!Procs : proc[p].mode = "tcpdump"} \cup {Control!NoPid}
    /\ state \in Control!States
    /\ feedOn \in BOOLEAN  /\ watching \in BOOLEAN
    /\ req \in [Control!Requests -> Threads]
    /\ restarts \in 0 .. MaxRestarts  /\ strayed \cup unwritten \cup spared \subseteq Control!Procs  /\ panel \in BOOLEAN  /\ refed \in BOOLEAN
BY DEF Control!TypeOK, ProcTypes, AnyMode, Threads, Kinds, ReqPlaces, Pids

LEMMA NoPidIsNone == Control!NoPid \notin Control!Procs /\ Control!NoState \in Control!States /\ Control!Idle \in Threads
                     /\ Control!NoState.pid = Control!NoPid /\ Control!Idle.kind = "none" /\ Control!Idle.at = "idle"
                     /\ Control!Idle.pid = Control!NoPid /\ Control!Idle.snap = Control!NoState
BY DEF Control!NoPid, Control!Procs, Control!NoState, Control!States, Control!Idle, Threads, Kinds, ReqPlaces, AnyMode, Pids

\* What a step must keep, for the invariant to stand.
LEMMA ControlStep ==
  ASSUME ControlInv, proc' \in ProcTypes, Ages, BornInAMode',
         managed' \in {managed, Control!NoPid} \cup {p \in Control!Procs : proc[p].at # "unborn" /\ proc[p].mode = "suricata"},
         tcpdump' \in {tcpdump, Control!NoPid} \cup {p \in Control!Procs : proc[p].at # "unborn" /\ proc[p].mode = "tcpdump"},
         state' \in Control!States, NamesOne(state'),
         external' \in BOOLEAN, feedOn' \in BOOLEAN, watching' \in BOOLEAN, refed' \in BOOLEAN,
         panel' \in BOOLEAN, panel => panel',
         restarts' \in 0 .. MaxRestarts, strayed' \cup unwritten' \cup spared' \subseteq Control!Procs,
         req' \in [Control!Requests -> Threads],
         \A r \in Control!Requests : req'[r] = req[r] \/ InOrder(r)'
  PROVE  ControlInv'
<1> USE DEF ControlInv
<1>1. managed' \in {p \in Control!Procs : proc'[p].mode = "suricata"} \cup {Control!NoPid}
      /\ tcpdump' \in {p \in Control!Procs : proc'[p].mode = "tcpdump"} \cup {Control!NoPid}
      /\ HandlesBorn'
  BY NoPidIsNone, ControlTypesDef DEF HandlesBorn, Ages
<1>2. Control!TypeOK'
  BY <1>1 DEF Control!TypeOK, ProcTypes, AnyMode, Threads, Kinds, ReqPlaces, Pids
<1>3. (NamesOne(state))'
  BY DEF NamesOne, Ages
<1>4. ASSUME NEW r \in Control!Requests, req'[r] = req[r] PROVE InOrder(r)'
  <2>1. InOrder(r) /\ req[r] \in Threads
    BY ControlTypesDef
  <2>2. (NamesOne(req[r].snap))'
    BY <1>4, <2>1 DEF NamesOne, Ages, InOrder
  <2>3. req[r].pid # Control!NoPid => req[r].pid \in Control!Procs
    BY <2>1 DEF Threads, Pids
  <2> QED BY <1>4, <2>1, <2>2, <2>3 DEF InOrder, Ages
<1> QED BY <1>1, <1>2, <1>3, <1>4

\* The record of the acting thread goes to another place, or to rest.
LEMMA Moved ==
  ASSUME ControlInv, NEW r \in Control!Requests, NEW place, Control!Goto(r, place),
         req[r].kind # "none", place \in Places1(req[r].kind) \ {"mlwrite"},
         place \in {"settle", "write", "wait"} => req[r].pid # Control!NoPid,
         place \in {"check", "popen", "settle", "write"} => req[r].mode # "none",
         Ages, panel => panel'
  PROVE  /\ req' \in [Control!Requests -> Threads]
         /\ \A o \in Control!Requests : req'[o] = req[o] \/ InOrder(o)'
<1>1. req \in [Control!Requests -> Threads] /\ req' = [req EXCEPT ![r].at = place] /\ InOrder(r) /\ req[r] \in Threads
  BY ControlTypesDef DEF ControlInv, Control!Goto
<1>2. place \in ReqPlaces
  BY <1>1 DEF Places1, ReqPlaces, Threads, Kinds
<1>3. req' \in [Control!Requests -> Threads] /\ req'[r] = [req[r] EXCEPT !.at = place]
  BY <1>1, <1>2 DEF Threads
<1>4. \A o \in Control!Requests : o # r => req'[o] = req[o]
  BY <1>1
<1>5. /\ req'[r].kind = req[r].kind /\ req'[r].at = place /\ req'[r].mode = req[r].mode
      /\ req'[r].pid = req[r].pid /\ req'[r].snap = req[r].snap
  BY <1>1, <1>3 DEF Threads
<1>6. (NamesOne(req[r].snap))' /\ (req[r].pid # Control!NoPid => req[r].pid \in Control!Procs)
  BY <1>1, <1>5 DEF NamesOne, Ages, InOrder, Threads, Pids
<1>7. InOrder(r)'
  BY <1>1, <1>5, <1>6 DEF InOrder, Ages
<1> QED BY <1>3, <1>4, <1>7

LEMMA Answered ==
  ASSUME ControlInv, NEW r \in Control!Requests, Control!Answer(r)
  PROVE  /\ req' \in [Control!Requests -> Threads]
         /\ \A o \in Control!Requests : req'[o] = req[o] \/ InOrder(o)'
<1>1. req \in [Control!Requests -> Threads] /\ req' = [req EXCEPT ![r] = Control!Idle]
  BY ControlTypesDef DEF ControlInv, Control!Answer
<1>2. req' \in [Control!Requests -> Threads] /\ req'[r] = Control!Idle /\ \A o \in Control!Requests : o # r => req'[o] = req[o]
  BY <1>1, NoPidIsNone
<1>3. InOrder(r)'
  BY <1>2, NoPidIsNone DEF InOrder, Places1, NamesOne, Control!Idle
<1> QED BY <1>2, <1>3

\* The record of the acting thread is a new one.
LEMMA Renewed ==
  ASSUME ControlInv, NEW r \in Control!Requests, NEW t \in Threads, req' = [req EXCEPT ![r] = t],
         t.at \in Places1(t.kind), t.kind # "none",
         r \notin Controllers => t.kind = "status",
         t.kind \in {"panelStart", "panelStop"} => panel',
         t.at \in {"settle", "write", "wait"} => t.pid # Control!NoPid,
         t.at \in {"check", "popen", "settle", "write"} => t.mode # "none",
         t.kind = "start" => t.mode # "none",
         t.pid # Control!NoPid => proc'[t.pid].at # "unborn" /\ proc'[t.pid].mode = t.mode,
         StillNames(t.snap),
         t.at = "mlwrite" => t.snap # Control!NoState
  PROVE  /\ req' \in [Control!Requests -> Threads]
         /\ \A o \in Control!Requests : req'[o] = req[o] \/ InOrder(o)'
<1>1. req \in [Control!Requests -> Threads]
  BY ControlTypesDef DEF ControlInv
<1>2. req' \in [Control!Requests -> Threads] /\ req'[r] = t /\ \A o \in Control!Requests : o # r => req'[o] = req[o]
  BY <1>1
<1>3. InOrder(r)'
  BY <1>2 DEF InOrder, NamesOne, StillNames
<1> QED BY <1>2, <1>3

\* A process that was started ages.
LEMMA Aged ==
  ASSUME ControlInv, NEW p \in Control!Procs, proc[p].at # "unborn", NEW at \in {"up", "terminated", "dead", "foreign"},
         proc' = [proc EXCEPT ![p].at = at]
  PROVE  proc' \in ProcTypes /\ Ages /\ BornInAMode'
BY ControlTypesDef DEF ControlInv, ProcTypes, Ages, BornInAMode

LEMMA Ageless ==
  ASSUME ControlInv, UNCHANGED proc
  PROVE  proc' \in ProcTypes /\ Ages /\ BornInAMode'
BY ControlTypesDef DEF ControlInv, Ages, BornInAMode

\* The state, the handles and what else there is, of a step that leaves them alone.
LEMMA Kept ==
  ASSUME ControlInv
  PROVE  /\ managed \in {managed, Control!NoPid} \cup {p \in Control!Procs : proc[p].at # "unborn" /\ proc[p].mode = "suricata"}
         /\ tcpdump \in {tcpdump, Control!NoPid} \cup {p \in Control!Procs : proc[p].at # "unborn" /\ proc[p].mode = "tcpdump"}
         /\ state \in Control!States /\ NamesOne(state)
         /\ Control!NoState \in Control!States /\ NamesOne(Control!NoState)
         /\ external \in BOOLEAN /\ feedOn \in BOOLEAN /\ watching \in BOOLEAN /\ refed \in BOOLEAN
         /\ panel \in BOOLEAN /\ restarts \in 0 .. MaxRestarts /\ strayed \cup unwritten \cup spared \subseteq Control!Procs
         /\ req \in [Control!Requests -> Threads]
         /\ \A r \in Control!Requests : req[r] \in Threads /\ InOrder(r)
BY ControlTypesDef, NoPidIsNone DEF ControlInv, NamesOne

\* What the file may be after it was dropped, read or written.
LEMMA ClearKeeps == Control!Clear => state' \in {state, Control!NoState}
BY DEF Control!Clear

LEMMA FileReadsAre == \A read \in Control!FileReads : read \in {state, Control!NoState}
BY DEF Control!FileReads

LEMMA FiledTypes == ASSUME ControlInv PROVE Control!OnlyFiled \subseteq Control!Procs
BY Kept, NoPidIsNone DEF Control!OnlyFiled, Control!States

LEMMA WriteKeeps ==
  ASSUME ControlInv, NEW s \in Control!States, NamesOne(s), Control!WriteFile(s)
  PROVE  /\ state' \in {s, state, Control!NoState} /\ state' \in Control!States /\ NamesOne(state')
         /\ strayed' \cup unwritten' \subseteq Control!Procs
<1>1. state' \in {s, state, Control!NoState}
  BY DEF Control!WriteFile
<1>2. {s.pid, state.pid} \ {Control!NoPid} \subseteq Control!Procs
  BY Kept DEF Control!States
<1>3. strayed' \cup unwritten' \subseteq Control!Procs
  BY <1>2, Kept, FiledTypes DEF Control!WriteFile
<1> QED BY <1>1, <1>3, Kept

LEMMA StatusControl ==
  ASSUME ControlInv, NEW r \in Control!Requests,
         \/ Control!StatusPoll(r) \/ Control!AutoFeed(r) \/ Control!StartDecide(r)
  PROVE  ControlInv'
<1>1. proc' \in ProcTypes /\ Ages /\ BornInAMode'
  BY Ageless DEF Control!StatusPoll, Control!AutoFeed, Control!StartDecide, Control!DecideStatus
<1>2. panel' = panel
  BY DEF Control!StatusPoll, Control!AutoFeed, Control!StartDecide, Control!DecideStatus
<1>3. /\ req' \in [Control!Requests -> Threads]
      /\ \A o \in Control!Requests : req'[o] = req[o] \/ InOrder(o)'
  <2>1. CASE Control!Answer(r)
    BY <2>1, Answered
  <2>2. CASE Control!StatusPoll(r) /\ Control!Goto(r, "autofeed")
    BY <1>1, <1>2, <2>2, Moved DEF Control!StatusPoll, Control!At, Places1
  <2>3. CASE Control!StartDecide(r) /\ \E place \in {"check", "popen"} : Control!Goto(r, place)
    <3>1. PICK place \in {"check", "popen"} : Control!Goto(r, place)
      BY <2>3
    <3>2. req[r].kind = "start" /\ req[r].mode # "none" /\ place \in Places1("start")
      BY <2>3, Kept DEF Control!StartDecide, Control!At, InOrder, Places1
    <3> QED BY <1>1, <1>2, <3>1, <3>2, Moved
  <2> QED BY <2>1, <2>2, <2>3 DEF Control!StatusPoll, Control!AutoFeed, Control!StartDecide
<1>4. state' \in {state, Control!NoState} /\ strayed' \subseteq Control!Procs
  <2>1. state.pid \in Control!Procs \cup {Control!NoPid} /\ strayed \subseteq Control!Procs
    BY Kept DEF Control!States
  <2> QED BY <2>1, ClearKeeps DEF Control!StatusPoll, Control!AutoFeed, Control!StartDecide, Control!DecideStatus
<1>5. UNCHANGED <<managed, tcpdump, external, watching, restarts, unwritten, spared>> /\ feedOn' \in BOOLEAN /\ refed' \in BOOLEAN
  BY Kept DEF Control!StatusPoll, Control!AutoFeed, Control!StartDecide, Control!DecideStatus, Control!handles, Control!side
<1> QED BY <1>1, <1>2, <1>3, <1>4, <1>5, Kept, ControlStep

\* Requests begin.
LEMMA BeginControl ==
  ASSUME ControlInv, NEW r \in Control!Requests,
         \/ r \in Dashboards /\ Control!ReadStatus(r, "status", "none")
         \/ r \in Controllers /\ \E m \in Modes : Control!ReadStatus(r, "start", m)
         \/ r \in Controllers /\ (Control!StopMl(r) \/ Control!PanelStart(r))
  PROVE  ControlInv'
<1> DEFINE asked(kind, mode, read) == [Control!Idle EXCEPT !.kind = kind, !.mode = mode, !.at = "decide", !.snap = read,
                                                           !.seen = Control!Managed \/ Control!TcpdumpRunning(read)]
<1>1. proc' \in ProcTypes /\ Ages /\ BornInAMode'
  BY Ageless DEF Control!ReadStatus, Control!StopMl, Control!PanelStart
<1>a. UNCHANGED <<proc, managed, tcpdump, state, external, feedOn, watching, refed, restarts, unwritten>>
  BY DEF Control!ReadStatus, Control!StopMl, Control!PanelStart, Control!handles, Control!side, Control!env, Control!hist
<1>b. panel' = TRUE \/ panel' = panel
  BY DEF Control!ReadStatus, Control!StopMl, Control!PanelStart, Control!env, Control!hist
<1>c. panel' \in BOOLEAN /\ (panel => panel')
  <2>1. panel \in BOOLEAN
    BY Kept
  <2>2. CASE panel' = TRUE
    BY <2>2
  <2>3. CASE panel' = panel
    BY <2>1, <2>3
  <2> QED BY <1>b, <2>2, <2>3
<1>d. strayed' \cup spared' \subseteq Control!Procs
  BY Kept, FiledTypes DEF Control!ReadStatus, Control!StopMl, Control!PanelStart, Control!env, Control!hist
<1>2. UNCHANGED <<proc, managed, tcpdump, state, external, feedOn, watching, refed, restarts, unwritten>>
      /\ panel' \in BOOLEAN /\ (panel => panel') /\ strayed' \cup spared' \cup unwritten' \subseteq Control!Procs
  BY <1>a, <1>c, <1>d, Kept
<1>3. StillNames(state) /\ StillNames(Control!NoState) /\ state \in Control!States /\ Control!NoState \in Control!States
  BY <1>2, Kept DEF NamesOne, StillNames
<1>4. /\ req' \in [Control!Requests -> Threads]
      /\ \A o \in Control!Requests : req'[o] = req[o] \/ InOrder(o)'
  <2>1. CASE r \in Dashboards /\ Control!ReadStatus(r, "status", "none")
    <3>0. PICK read \in {state, Control!NoState} : req' = [req EXCEPT ![r] = asked("status", "none", read)]
      BY <2>1, FileReadsAre DEF Control!ReadStatus
    <3> DEFINE t == asked("status", "none", read)
    <3>1. t \in Threads
      BY <1>3 DEF Control!Idle, Threads, Kinds, ReqPlaces, AnyMode, Pids, Control!Managed, Control!Living, Control!TcpdumpRunning
    <3>2. t.kind = "status" /\ t.at = "decide" /\ t.mode = "none" /\ t.pid = Control!NoPid /\ t.snap = read
      BY DEF Control!Idle
    <3>3. req' = [req EXCEPT ![r] = t]
      BY <3>0
    <3> HIDE DEF t
    <3>4. t.at \in Places1(t.kind)
      BY <3>2 DEF Places1
    <3> QED BY <1>2, <1>3, <3>1, <3>2, <3>3, <3>4, Renewed
  <2>2. CASE r \in Controllers /\ \E m \in Modes : Control!ReadStatus(r, "start", m)
    <3>0. PICK m \in Modes : Control!ReadStatus(r, "start", m)
      BY <2>2
    <3>b. PICK read \in {state, Control!NoState} : req' = [req EXCEPT ![r] = asked("start", m, read)]
      BY <3>0, FileReadsAre DEF Control!ReadStatus
    <3> DEFINE t == asked("start", m, read)
    <3>a. m \in AnyMode /\ m # "none"
      BY ControlAssumption DEF Control!Sane, AnyMode
    <3>1. t \in Threads
      BY <1>3, <3>a DEF Control!Idle, Threads, Kinds, ReqPlaces, Pids, Control!Managed, Control!Living, Control!TcpdumpRunning
    <3>2. t.kind = "start" /\ t.at = "decide" /\ t.mode = m /\ t.pid = Control!NoPid /\ t.snap = read
      BY DEF Control!Idle
    <3>3. req' = [req EXCEPT ![r] = t]
      BY <3>b
    <3> HIDE DEF t
    <3>4. t.at \in Places1(t.kind)
      BY <3>2 DEF Places1
    <3> QED BY <1>2, <1>3, <2>2, <3>a, <3>1, <3>2, <3>3, <3>4, Renewed
  <2>3. CASE r \in Controllers /\ Control!StopMl(r)
    <3>0. PICK place \in {"ml", "unfeed"} : req' = [req EXCEPT ![r] = [Control!Idle EXCEPT !.kind = "stop", !.at = place]]
      BY <2>3 DEF Control!StopMl
    <3> DEFINE t == [Control!Idle EXCEPT !.kind = "stop", !.at = place]
    <3>1. t \in Threads
      BY DEF Control!Idle, Threads, Kinds, ReqPlaces, AnyMode, Pids, Control!States, Control!NoState
    <3>2. t.kind = "stop" /\ t.at = place /\ t.pid = Control!NoPid /\ t.snap = Control!NoState
      BY DEF Control!Idle
    <3>3. req' = [req EXCEPT ![r] = t]
      BY <3>0
    <3> HIDE DEF t
    <3>4. t.at \in Places1(t.kind)
      BY <3>2 DEF Places1
    <3> QED BY <1>2, <1>3, <2>3, <3>1, <3>2, <3>3, <3>4, Renewed
  <2>4. CASE r \in Controllers /\ Control!PanelStart(r)
    <3> DEFINE t == [Control!Idle EXCEPT !.kind = "panelStart", !.mode = "suricata", !.at = "check"]
    <3>1. t \in Threads
      BY DEF Control!Idle, Threads, Kinds, ReqPlaces, AnyMode, Pids, Control!States, Control!NoState
    <3>2. t.kind = "panelStart" /\ t.at = "check" /\ t.mode = "suricata" /\ t.pid = Control!NoPid /\ t.snap = Control!NoState
      BY DEF Control!Idle
    <3>3. req' = [req EXCEPT ![r] = t] /\ panel'
      BY <2>4 DEF Control!PanelStart
    <3> HIDE DEF t
    <3>4. t.at \in Places1(t.kind)
      BY <3>2 DEF Places1
    <3> QED BY <1>2, <1>3, <2>4, <3>1, <3>2, <3>3, <3>4, Renewed
  <2> QED BY <2>1, <2>2, <2>3, <2>4
<1> QED BY <1>1, <1>2, <1>4, Kept, ControlStep

\* The way of a start.
LEMMA StartControl ==
  ASSUME ControlInv, NEW r \in Control!Requests,
         \/ Control!CheckSuricata(r) \/ Control!PopenFails(r) \/ Control!Settle(r) \/ Control!SettleFails(r)
         \/ Control!WriteState(r) \/ Control!StartFeed(r)
  PROVE  ControlInv'
<1>1. proc' \in ProcTypes /\ Ages /\ BornInAMode' /\ proc' = proc
  BY Ageless DEF Control!CheckSuricata, Control!PopenFails, Control!Settle, Control!SettleFails, Control!WriteState, Control!StartFeed
<1>2. UNCHANGED <<external, restarts, spared, panel, refed>> /\ (Control!WriteState(r) \/ UNCHANGED <<strayed, unwritten>>)
  BY DEF Control!CheckSuricata, Control!PopenFails, Control!Settle, Control!SettleFails, Control!WriteState, Control!StartFeed,
         Control!env, Control!hist
<1>3. InOrder(r) /\ req[r] \in Threads
  BY Kept
<1>4. req[r].pid # Control!NoPid => req[r].pid \in Control!Procs
  BY <1>3 DEF Threads, Pids
<1>5. /\ req' \in [Control!Requests -> Threads]
      /\ \A o \in Control!Requests : req'[o] = req[o] \/ InOrder(o)'
  <2>1. CASE Control!Answer(r)
    BY <2>1, Answered
  <2>2. CASE Control!CheckSuricata(r) /\ Control!Goto(r, "popen")
    BY <1>1, <1>2, <1>3, <2>2, Moved DEF Control!CheckSuricata, InOrder, Places1, Threads, Kinds
  <2>3. CASE Control!SettleFails(r) /\ Control!Goto(r, "popen")
    BY <1>1, <1>2, <1>3, <2>3, Moved DEF Control!SettleFails, InOrder, Places1, Threads, Kinds
  <2>4. CASE Control!Settle(r) /\ req[r].kind = "start" /\ Control!Goto(r, "write")
    BY <1>1, <1>2, <1>3, <2>4, Moved DEF Control!Settle, InOrder, Places1
  <2>5. CASE Control!WriteState(r)
    BY <1>1, <1>2, <1>3, <2>5, Moved DEF Control!WriteState, Control!At, Places1
  <2>6. CASE Control!StartFeed(r)
    BY <1>1, <1>2, <1>3, <2>6, Moved DEF Control!StartFeed, Control!At, Places1
  <2> QED BY <2>1, <2>2, <2>3, <2>4, <2>5, <2>6 DEF Control!CheckSuricata, Control!PopenFails, Control!Settle, Control!SettleFails
<1>6. CASE Control!CheckSuricata(r) \/ Control!PopenFails(r) \/ Control!SettleFails(r)
  <2>1. UNCHANGED <<managed, tcpdump, state, feedOn, watching>>
    BY <1>6 DEF Control!CheckSuricata, Control!PopenFails, Control!SettleFails, Control!handles, Control!side
  <2>2. UNCHANGED <<strayed, unwritten>>
    BY <1>6 DEF Control!CheckSuricata, Control!PopenFails, Control!SettleFails, Control!env, Control!hist
  <2> QED BY <2>2, <1>1, <1>2, <1>5, <2>1, Kept, ControlStep
<1>7. CASE Control!Settle(r)
  <2>1. UNCHANGED <<state, feedOn, watching>> /\ req[r].at = "settle" /\ Control!RecordHandle(r)
    BY <1>7 DEF Control!Settle, Control!side
  <2>2. req[r].pid \in Control!Procs /\ proc[req[r].pid].at # "unborn" /\ proc[req[r].pid].mode = req[r].mode
    BY <1>3, <1>4, <2>1 DEF InOrder
  <2>3. req[r].mode \in {"suricata", "tcpdump"}
    BY <1>3, <2>1 DEF InOrder, Threads, AnyMode
  <2>4. /\ managed' \in {managed, Control!NoPid} \cup {p \in Control!Procs : proc[p].at # "unborn" /\ proc[p].mode = "suricata"}
        /\ tcpdump' \in {tcpdump, Control!NoPid} \cup {p \in Control!Procs : proc[p].at # "unborn" /\ proc[p].mode = "tcpdump"}
    BY <2>1, <2>2, <2>3 DEF Control!RecordHandle
  <2>5. UNCHANGED <<strayed, unwritten>>
    BY <1>7 DEF Control!Settle, Control!env, Control!hist
  <2> QED BY <2>5, <1>1, <1>2, <1>5, <2>1, <2>4, Kept, ControlStep
<1>8. CASE Control!WriteState(r)
  <2> DEFINE s == [mode |-> req[r].mode, pid |-> req[r].pid, ml |-> FALSE]
  <2>1. UNCHANGED <<managed, tcpdump, feedOn, watching>> /\ req[r].at = "write" /\ Control!WriteFile(s)
    BY <1>8 DEF Control!WriteState, Control!At, Control!handles, Control!side
  <2>2. req[r].pid \in Control!Procs /\ proc[req[r].pid].at # "unborn" /\ proc[req[r].pid].mode = req[r].mode
    BY <1>3, <1>4, <2>1 DEF InOrder
  <2>3. s \in Control!States /\ NamesOne(s)
    BY <1>3, <2>1, <2>2 DEF NamesOne, Control!States, Threads, AnyMode
  <2> HIDE DEF s
  <2>4. state' \in Control!States /\ NamesOne(state') /\ strayed' \cup unwritten' \subseteq Control!Procs
    BY <2>1, <2>3, WriteKeeps
  <2> QED BY <1>1, <1>2, <1>5, <2>1, <2>4, Kept, ControlStep
<1>9. CASE Control!StartFeed(r)
  <2>1. UNCHANGED <<managed, tcpdump, state>> /\ feedOn' \in BOOLEAN /\ watching' \in BOOLEAN
    BY <1>9 DEF Control!StartFeed, Control!handles
  <2>2. UNCHANGED <<strayed, unwritten>>
    BY <1>9 DEF Control!StartFeed, Control!env, Control!hist
  <2> QED BY <2>2, <1>1, <1>2, <1>5, <2>1, Kept, ControlStep
<1> QED BY <1>6, <1>7, <1>8, <1>9

LEMMA PopenControl == ASSUME ControlInv, NEW r \in Control!Requests, Control!Popen(r) PROVE ControlInv'
<1>1. PICK p \in Control!Procs : /\ proc[p].at = "unborn"
                                 /\ proc' = [proc EXCEPT ![p] = [at |-> "up", mode |-> req[r].mode]]
                                 /\ req' = [req EXCEPT ![r].at = "settle", ![r].pid = p]
  BY DEF Control!Popen
<1>2. InOrder(r) /\ req[r] \in Threads /\ req[r].at = "popen" /\ req[r].kind \in {"start", "panelStart"} /\ req[r].mode # "none"
  BY Kept DEF Control!Popen, InOrder, Places1, Threads, Kinds
<1>3. proc' \in ProcTypes /\ Ages /\ BornInAMode'
  BY <1>1, <1>2, ControlTypesDef DEF ControlInv, ProcTypes, Threads, Ages, BornInAMode
<1>4. UNCHANGED <<managed, tcpdump, state, external, feedOn, watching, refed, restarts, strayed, unwritten, spared, panel>>
  BY DEF Control!Popen, Control!handles, Control!side, Control!env, Control!hist
<1>5. /\ req' \in [Control!Requests -> Threads]
      /\ \A o \in Control!Requests : req'[o] = req[o] \/ InOrder(o)'
  <2> DEFINE t == [req[r] EXCEPT !.at = "settle", !.pid = p]
  <2>1. t \in Threads /\ t.at = "settle" /\ t.pid = p /\ t.kind = req[r].kind /\ t.mode = req[r].mode /\ t.snap = req[r].snap
    BY <1>2 DEF Threads, ReqPlaces, Pids
  <2>2. req' = [req EXCEPT ![r] = t]
    BY <1>1, Kept DEF Threads
  <2>3. p # Control!NoPid /\ proc'[p].at = "up" /\ proc'[p].mode = req[r].mode
    BY <1>1, NoPidIsNone, ControlTypesDef DEF ControlInv, ProcTypes
  <2>4. StillNames(t.snap)
    BY <1>2, <1>3, <2>1 DEF InOrder, NamesOne, Ages, StillNames
  <2> HIDE DEF t
  <2>5. t.at \in Places1(t.kind) /\ t.kind # "none" /\ (t.kind \in {"panelStart", "panelStop"} => panel')
        /\ (r \notin Controllers => t.kind = "status") /\ t.at # "mlwrite" /\ t.mode # "none"
    BY <1>2, <1>4, <2>1 DEF Places1, InOrder
  <2> QED BY <2>1, <2>2, <2>3, <2>4, <2>5, Renewed
<1> QED BY <1>3, <1>4, <1>5, Kept, ControlStep

\* The name of the ML session goes into the file, or out of it.
LEMMA MlControl == ASSUME ControlInv, NEW r \in Control!Requests, Control!ReadForMl(r) \/ Control!WriteMl(r) PROVE ControlInv'
<1>1. proc' \in ProcTypes /\ Ages /\ BornInAMode' /\ proc' = proc
  BY Ageless DEF Control!ReadForMl, Control!WriteMl
<1>2. UNCHANGED <<managed, tcpdump, external, feedOn, watching, refed, restarts, spared, panel>>
  BY DEF Control!ReadForMl, Control!WriteMl, Control!handles, Control!side, Control!env, Control!hist
<1>3. InOrder(r) /\ req[r] \in Threads
  BY Kept
<1>4. /\ req' \in [Control!Requests -> Threads]
      /\ \A o \in Control!Requests : req'[o] = req[o] \/ InOrder(o)'
  <2>1. CASE Control!Answer(r)
    BY <2>1, Answered
  <2>2. CASE req[r].kind = "stop" /\ Control!Goto(r, "unfeed")
    BY <1>1, <1>2, <1>3, <2>2, Moved DEF Places1
  <2>3. CASE Control!ReadForMl(r) /\ Control!FilePresent /\ req' = [req EXCEPT ![r].at = "mlwrite", ![r].snap = state]
    <3> DEFINE t == [req[r] EXCEPT !.at = "mlwrite", !.snap = state]
    <3>1. t \in Threads /\ t.at = "mlwrite" /\ t.snap = state /\ t.kind = req[r].kind /\ t.mode = req[r].mode /\ t.pid = req[r].pid
      BY <1>3, Kept DEF Threads, ReqPlaces
    <3>2. req' = [req EXCEPT ![r] = t]
      BY <2>3, Kept DEF Threads
    <3>3. req[r].kind \in {"start", "stop"} /\ state # Control!NoState
      BY <1>3, <2>3 DEF Control!ReadForMl, Control!FilePresent, InOrder, Places1, Threads, Kinds
    <3>4. StillNames(t.snap)
      BY <1>1, <3>1, Kept DEF NamesOne, Ages, StillNames
    <3> HIDE DEF t
    <3>5. t.pid # Control!NoPid => proc'[t.pid].at # "unborn" /\ proc'[t.pid].mode = t.mode
      BY <1>1, <1>3, <3>1 DEF InOrder
    <3>6. t.at \in Places1(t.kind) /\ (t.kind = "start" => t.mode # "none") /\ r \in Controllers
      BY <1>3, <3>1, <3>3 DEF Places1, InOrder
    <3> QED BY <3>1, <3>2, <3>3, <3>4, <3>5, <3>6, Renewed
  <2>4. CASE Control!WriteMl(r)
    BY <2>1, <2>2, <1>3, <2>4 DEF Control!WriteMl, InOrder, Places1, Threads, Kinds
  <2> QED BY <2>1, <2>2, <2>3, <2>4 DEF Control!ReadForMl
<1>5. state' \in Control!States /\ NamesOne(state') /\ strayed' \cup unwritten' \subseteq Control!Procs
  <2>1. CASE Control!ReadForMl(r)
    BY <2>1, Kept DEF Control!ReadForMl, Control!env, Control!hist
  <2>2. CASE Control!WriteMl(r)
    <3> DEFINE s == [req[r].snap EXCEPT !.ml = (req[r].kind = "start")]
    <3>1. Control!WriteFile(s) /\ req[r].snap # Control!NoState /\ NamesOne(req[r].snap)
      BY <1>3, <2>2 DEF Control!WriteMl, InOrder
    <3>2. req[r].snap \in Control!States
      BY <1>3 DEF Threads
    <3>3. s \in Control!States /\ s.pid = req[r].snap.pid /\ s.mode = req[r].snap.mode
      BY <3>1, <3>2 DEF Control!States
    <3> HIDE DEF s
    <3>4. NamesOne(s)
      BY <3>1, <3>3 DEF NamesOne
    <3> QED BY <3>1, <3>3, <3>4, WriteKeeps
  <2> QED BY <2>1, <2>2
<1> QED BY <1>1, <1>2, <1>4, <1>5, Kept, ControlStep

\* The way of a stop.
LEMMA StopControl ==
  ASSUME ControlInv, NEW r \in Control!Requests,
         \/ Control!StopFeed(r) \/ Control!HaltNothing(r) \/ Control!HaltByPid(r) \/ Control!WaitEnds(r) \/ Control!StopWatcher(r)
  PROVE  ControlInv'
<1>1. proc' \in ProcTypes /\ Ages /\ BornInAMode'
  <2>1. CASE proc' = proc
    BY <2>1, Ageless
  <2>2. CASE Control!HaltByPid(r) /\ Control!Terminate(state.pid)
    <3>1. state.mode = "tcpdump" /\ Control!Terminate(state.pid)
      BY <2>2 DEF Control!HaltByPid, Control!NamedByFile
    <3>2. state.pid \in Control!Procs /\ proc[state.pid].at # "unborn"
      BY <3>1, Kept DEF NamesOne, Control!NoState
    <3>3. PICK at \in {"up", "terminated", "dead", "foreign"} : proc' = [proc EXCEPT ![state.pid].at = at]
      BY <3>1, <3>2, ControlTypesDef DEF Control!Terminate, ControlInv, ProcTypes
    <3> QED BY <3>2, <3>3, Aged
  <2> QED BY <2>1, <2>2 DEF Control!StopFeed, Control!HaltNothing, Control!HaltByPid, Control!WaitEnds, Control!StopWatcher
<1>2. UNCHANGED <<external, restarts, strayed, unwritten, panel>>
  BY DEF Control!StopFeed, Control!HaltNothing, Control!HaltByPid, Control!WaitEnds, Control!StopWatcher, Control!env, Control!hist
<1>3. InOrder(r) /\ req[r] \in Threads
  BY Kept
<1>4. /\ req' \in [Control!Requests -> Threads]
      /\ \A o \in Control!Requests : req'[o] = req[o] \/ InOrder(o)'
  <2>1. CASE Control!Answer(r)
    BY <2>1, Answered
  <2>2. CASE req[r].kind = "stop" /\ \E place \in {"halt", "unwatch"} : Control!Goto(r, place)
    <3>1. PICK place \in {"halt", "unwatch"} : Control!Goto(r, place)
      BY <2>2
    <3> QED BY <1>1, <1>2, <2>2, <3>1, Moved DEF Places1
  <2> QED BY <2>1, <2>2 DEF Control!StopFeed, Control!HaltNothing, Control!HaltByPid, Control!WaitEnds, Control!StopWatcher, Control!At
<1>5. /\ managed' \in {managed, Control!NoPid} /\ tcpdump' \in {tcpdump, Control!NoPid} /\ state' \in {state, Control!NoState}
  BY ClearKeeps DEF Control!StopFeed, Control!HaltNothing, Control!HaltByPid, Control!WaitEnds, Control!StopWatcher, Control!handles
<1>7. spared' \subseteq Control!Procs
  <2>1. Control!NamedByFile => state.pid \in Control!Procs
    BY DEF Control!NamedByFile, Control!PidAlive
  <2> QED BY <2>1, Kept, FiledTypes DEF Control!StopFeed, Control!HaltNothing, Control!HaltByPid, Control!WaitEnds, Control!StopWatcher,
                                  Control!env, Control!hist
<1>6. feedOn' \in BOOLEAN /\ watching' \in BOOLEAN /\ refed' \in BOOLEAN
  BY Kept DEF Control!StopFeed, Control!FeedStopped, Control!HaltNothing, Control!HaltByPid, Control!WaitEnds, Control!StopWatcher,
              Control!side, Control!env, Control!hist
<1> QED BY <1>1, <1>2, <1>4, <1>5, <1>6, <1>7, Kept, ControlStep

\* A process is told to end, and waited for.
LEMMA HaltControl ==
  ASSUME ControlInv, NEW r \in Control!Requests,
         \/ Control!HaltHandle(r) \/ Control!Kill(r)
         \/ r \in Controllers /\ Control!PanelStop(r)
  PROVE  ControlInv'
<1>1. UNCHANGED <<tcpdump, state, external, feedOn, watching, refed, restarts, strayed, unwritten>> /\ managed' \in {managed, Control!NoPid}
  BY DEF Control!HaltHandle, Control!Kill, Control!PanelStop, Control!handles, Control!side, Control!env, Control!hist
<1>2. InOrder(r) /\ req[r] \in Threads
  BY Kept
<1>3. ASSUME NEW p \in {managed, tcpdump}, Control!Living(p)
      PROVE  p \in Control!Procs /\ proc[p].at # "unborn" /\ p # Control!NoPid /\ proc[p].mode \in AnyMode
             /\ (p = managed => proc[p].mode = "suricata")
  BY <1>3, ControlTypesDef, NoPidIsNone DEF ControlInv, Control!Living, ProcTypes
<1>4. ASSUME NEW p \in Control!Procs, proc[p].at # "unborn", Control!Terminate(p)
      PROVE  proc' \in ProcTypes /\ Ages /\ BornInAMode'
  <2>1. PICK at \in {"up", "terminated", "dead", "foreign"} : proc' = [proc EXCEPT ![p].at = at]
    BY <1>4, ControlTypesDef DEF Control!Terminate, ControlInv, ProcTypes
  <2> QED BY <1>4, <2>1, Aged
<1>8. Control!Kill(r) \/ Control!PanelStop(r) => spared' = spared
  BY DEF Control!Kill, Control!PanelStop, Control!env, Control!hist
<1>9. CASE Control!HaltHandle(r) /\ Control!Goto(r, "unwatch") /\ UNCHANGED proc /\ spared' = spared \cup {Control!Halted}
  <2>1. Control!Halted \in Control!Procs
    BY <1>3, <1>9 DEF Control!HaltHandle, Control!Halted, Control!Managed
  <2>2. proc' \in ProcTypes /\ Ages /\ BornInAMode'
    BY <1>9, Ageless
  <2>3. panel' = panel /\ req[r].kind = "stop"
    BY <1>9 DEF Control!HaltHandle, Control!At
  <2>4. /\ req' \in [Control!Requests -> Threads]
        /\ \A o \in Control!Requests : req'[o] = req[o] \/ InOrder(o)'
    BY <1>9, <2>2, <2>3, Moved DEF Places1
  <2> QED BY <1>1, <1>9, <2>1, <2>2, <2>3, <2>4, Kept, ControlStep
<1>5. CASE Control!HaltHandle(r) /\ Control!Terminate(Control!Halted) /\ UNCHANGED spared
           /\ req' = [req EXCEPT ![r].at = "wait", ![r].pid = Control!Halted, ![r].mode = proc[Control!Halted].mode]
  <2>1. PICK p \in {managed, tcpdump} : /\ Control!Living(p) /\ Control!Terminate(p)
                                        /\ req' = [req EXCEPT ![r].at = "wait", ![r].pid = p, ![r].mode = proc[p].mode]
    BY <1>5 DEF Control!HaltHandle, Control!Halted, Control!Managed
  <2>2. p \in Control!Procs /\ proc[p].at # "unborn" /\ p # Control!NoPid /\ proc[p].mode \in AnyMode
    BY <1>3, <2>1
  <2>3. proc' \in ProcTypes /\ Ages /\ BornInAMode'
    BY <1>4, <2>1, <2>2
  <2>4. panel' = panel /\ req[r].kind = "stop"
    BY <1>5 DEF Control!HaltHandle, Control!At
  <2> DEFINE t == [req[r] EXCEPT !.at = "wait", !.pid = p, !.mode = proc[p].mode]
  <2>5. t \in Threads /\ t.at = "wait" /\ t.pid = p /\ t.mode = proc[p].mode /\ t.kind = "stop" /\ t.snap = req[r].snap
    BY <1>2, <2>2, <2>4 DEF Threads, ReqPlaces, Pids
  <2>6. req' = [req EXCEPT ![r] = t]
    BY <2>1, Kept DEF Threads
  <2>7. StillNames(t.snap)
    BY <1>2, <2>3, <2>5 DEF InOrder, NamesOne, Ages, StillNames
  <2> HIDE DEF t
  <2>8. proc'[p].at # "unborn" /\ proc'[p].mode = proc[p].mode
    BY <2>2, <2>3 DEF Ages
  <2>9. t.at \in Places1(t.kind) /\ r \in Controllers
    BY <1>2, <2>4, <2>5 DEF Places1, InOrder
  <2>10. /\ req' \in [Control!Requests -> Threads]
         /\ \A o \in Control!Requests : req'[o] = req[o] \/ InOrder(o)'
    BY <2>2, <2>5, <2>6, <2>7, <2>8, <2>9, Renewed
  <2> QED BY <1>1, <1>5, <2>3, <2>4, <2>10, Kept, ControlStep
<1>6. CASE Control!Kill(r)
  <2>1. req[r].pid \in Control!Procs /\ proc[req[r].pid].at # "unborn"
    BY <1>6, ControlTypesDef DEF Control!Kill, Control!Living, ControlInv
  <2>2. proc' \in ProcTypes /\ Ages /\ BornInAMode'
    <3>1. CASE proc' = proc
      BY <3>1, Ageless
    <3>2. CASE proc' = [proc EXCEPT ![req[r].pid].at = "dead"]
      BY <2>1, <3>2, Aged
    <3> QED BY <1>6, <3>1, <3>2 DEF Control!Kill
  <2>4. panel' = panel
    BY <1>6 DEF Control!Kill, Control!env, Control!hist
  <2>3. /\ req' \in [Control!Requests -> Threads]
        /\ \A o \in Control!Requests : req'[o] = req[o] \/ InOrder(o)'
    <3>1. CASE Control!Answer(r) \/ UNCHANGED req
      BY <3>1, Kept, Answered
    <3>2. CASE req[r].kind = "stop" /\ Control!Goto(r, "unwatch")
      BY <2>2, <2>4, <3>2, Moved DEF Places1
    <3> QED BY <1>6, <3>1, <3>2 DEF Control!Kill
  <2> QED BY <1>1, <1>6, <1>8, <2>2, <2>3, <2>4, Kept, ControlStep
<1>7. CASE r \in Controllers /\ Control!PanelStop(r)
  <2>1. panel' = TRUE
    BY <1>7 DEF Control!PanelStop
  <2>2. CASE proc' = proc /\ req' = req
    BY <1>1, <1>7, <1>8, <2>1, <2>2, Ageless, Kept, ControlStep
  <2>3. CASE /\ Control!Managed /\ Control!Terminate(managed)
             /\ req' = [req EXCEPT ![r] = [Control!Idle EXCEPT !.kind = "panelStop", !.at = "wait", !.pid = managed, !.mode = "suricata"]]
    <3> DEFINE t == [Control!Idle EXCEPT !.kind = "panelStop", !.at = "wait", !.pid = managed, !.mode = "suricata"]
    <3>1. Control!Terminate(managed) /\ req' = [req EXCEPT ![r] = t]
      BY <2>3
    <3>2. managed \in Control!Procs /\ proc[managed].at # "unborn" /\ managed # Control!NoPid /\ proc[managed].mode = "suricata"
      BY <1>3, <2>3 DEF Control!Managed
    <3>3. proc' \in ProcTypes /\ Ages /\ BornInAMode'
      BY <1>4, <3>1, <3>2
    <3>4. t \in Threads /\ t.at = "wait" /\ t.pid = managed /\ t.mode = "suricata" /\ t.kind = "panelStop" /\ t.snap = Control!NoState
      BY <3>2 DEF Control!Idle, Threads, Kinds, ReqPlaces, AnyMode, Pids, Control!States, Control!NoState
    <3> HIDE DEF t
    <3>5. StillNames(t.snap) /\ t.at \in Places1(t.kind) /\ proc'[managed].at # "unborn" /\ proc'[managed].mode = "suricata"
      BY <3>2, <3>3, <3>4 DEF StillNames, Places1, Ages
    <3>6. /\ req' \in [Control!Requests -> Threads]
          /\ \A o \in Control!Requests : req'[o] = req[o] \/ InOrder(o)'
      BY <1>7, <2>1, <3>1, <3>2, <3>4, <3>5, Renewed
    <3> QED BY <1>1, <1>7, <1>8, <2>1, <3>3, <3>6, Kept, ControlStep
  <2> QED BY <1>7, <2>2, <2>3 DEF Control!PanelStop
<1> QED BY <1>5, <1>6, <1>7, <1>9 DEF Control!HaltHandle

\* The host and the server.
LEMMA HostControl ==
  ASSUME ControlInv,
         (\E p \in Control!Procs : Control!Die(p) \/ Control!ReusePid(p)) \/ Control!ExternalSuricata \/ Control!Restart
  PROVE  ControlInv'
<1>1. UNCHANGED <<panel, refed>>
  BY DEF Control!Die, Control!ReusePid, Control!ExternalSuricata, Control!Restart, Control!env, Control!hist
<1>2. CASE \E p \in Control!Procs : Control!Die(p) \/ Control!ReusePid(p)
  <2>1. PICK p \in Control!Procs : Control!Die(p) \/ Control!ReusePid(p)
    BY <1>2
  <2>2. proc[p].at # "unborn" /\ \E at \in {"up", "terminated", "dead", "foreign"} : proc' = [proc EXCEPT ![p].at = at]
    BY <2>1 DEF Control!Die, Control!ReusePid, Control!Living
  <2>3. proc' \in ProcTypes /\ Ages /\ BornInAMode'
    BY <2>2, Aged
  <2>4. UNCHANGED <<managed, tcpdump, state, external, feedOn, watching, restarts, strayed, unwritten, spared, req>>
    BY <2>1 DEF Control!Die, Control!ReusePid, Control!handles, Control!side, Control!env, Control!hist
  <2> QED BY <1>1, <2>3, <2>4, Kept, ControlStep
<1>3. CASE Control!ExternalSuricata
  <2>1. UNCHANGED <<proc, managed, tcpdump, state, feedOn, watching, restarts, strayed, unwritten, spared, req>> /\ external' \in BOOLEAN
    BY <1>3 DEF Control!ExternalSuricata, Control!handles, Control!side, Control!hist
  <2> QED BY <1>1, <2>1, Ageless, Kept, ControlStep
<1>4. CASE Control!Restart
  <2>1. UNCHANGED <<proc, state, external, unwritten, spared>> /\ managed' = Control!NoPid /\ tcpdump' = Control!NoPid /\ feedOn' \in BOOLEAN /\ watching' \in BOOLEAN
    BY <1>4 DEF Control!Restart
  <2>2. restarts' \in 0 .. MaxRestarts
    BY <1>4, Kept, ControlAssumption DEF Control!Restart, Control!Sane
  <2>3. strayed' \subseteq Control!Procs
    <3>1. Control!InFlight \subseteq Control!Procs
      BY Kept DEF Control!InFlight, InOrder, Threads, Pids
    <3>2. ({managed} \ {Control!NoPid}) \cup ({tcpdump} \cap unwritten) \subseteq Control!Procs
      BY Kept, ControlTypesDef DEF ControlInv
    <3> QED BY <1>4, <3>1, <3>2, Kept DEF Control!Restart
  <2>4. /\ req' \in [Control!Requests -> Threads]
        /\ \A r \in Control!Requests : req'[r] = Control!Idle
    BY <1>4, NoPidIsNone DEF Control!Restart
  <2>5. \A r \in Control!Requests : InOrder(r)'
    BY <2>4, NoPidIsNone DEF InOrder, Places1, NamesOne, Control!Idle
  <2> QED BY <1>1, <2>1, <2>2, <2>3, <2>4, <2>5, Ageless, Kept, ControlStep
<1> QED BY <1>2, <1>3, <1>4

LEMMA ControlNext == ASSUME ControlInv, Control!Next PROVE ControlInv'
<1>1. ASSUME NEW r \in Control!Requests, Control!Step(r) PROVE ControlInv'
  BY <1>1, StatusControl, StartControl, PopenControl, MlControl, StopControl, HaltControl DEF Control!Step
<1>2. Controllers \subseteq Control!Requests /\ Dashboards \subseteq Control!Requests
  BY DEF Control!Requests
<1>3. ASSUME NEW r \in Dashboards, Control!ReadStatus(r, "status", "none") PROVE ControlInv'
  BY <1>2, <1>3, BeginControl
<1>4. ASSUME NEW r \in Controllers,
             (\E m \in Modes : Control!ReadStatus(r, "start", m)) \/ Control!StopMl(r) \/ Control!PanelStart(r) \/ Control!PanelStop(r)
      PROVE  ControlInv'
  BY <1>2, <1>4, BeginControl, HaltControl
<1> QED BY <1>1, <1>3, <1>4, HostControl DEF Control!Next

LEMMA ControlUnchanged == ASSUME ControlInv, UNCHANGED Control!vars PROVE ControlInv'
BY Ageless, Kept, ControlStep DEF Control!vars, Control!handles, Control!side, Control!env, Control!hist

LEMMA ControlInductive == Control!Spec => []ControlInv
<1>1. Control!Init => ControlInv
  <2> SUFFICES ASSUME Control!Init PROVE ControlInv
    OBVIOUS
  <2> USE DEF Control!Init
  <2>1. proc \in ProcTypes /\ req \in [Control!Requests -> Threads] /\ restarts \in 0 .. MaxRestarts
    BY NoPidIsNone, ControlAssumption DEF ProcTypes, AnyMode, Control!Sane
  <2>2. Control!TypeOK
    BY <2>1, NoPidIsNone, ControlTypesDef
  <2>3. \A r \in Control!Requests : InOrder(r)
    BY NoPidIsNone DEF InOrder, Places1, NamesOne, Control!Idle
  <2> QED BY <2>2, <2>3 DEF ControlInv, NamesOne, BornInAMode, HandlesBorn
<1>2. ControlInv /\ [Control!Next]_(Control!vars) => ControlInv'
  BY ControlNext, ControlUnchanged
<1> QED BY <1>1, <1>2, PTL DEF Control!Spec

(* The state of capture control is well formed, and however requests interleave, the state *)
(* file names nothing but a capture that was started, in its mode.                         *)
THEOREM StateFileNamesACapture == Control!Spec => [](Control!TypeOK /\ Control!StateNamesACapture)
<1>1. ControlInv => Control!TypeOK /\ Control!StateNamesACapture
  BY DEF ControlInv, NamesOne, Control!StateNamesACapture
<1> QED BY <1>1, ControlInductive, PTL

-----------------------------------------------------------------------------
(* One controller, who leaves the Suricata panel alone.                     *)
(*                                                                          *)
(* What runs and has not strayed is one process at most, and the handle of  *)
(* a process that lingers on, told to end, stands for it as well: no other  *)
(* is started before it is gone.  A Suricata that the file names is in its  *)
(* handle, a tcpdump in the file or in the request that started it, unless  *)
(* an OSError kept it out of the file.                                      *)

OneController == \A c, d \in Controllers : c = d

Free  == Control!Up \ strayed
Quiet == ~Control!Living(managed) /\ ~Control!Living(tcpdump)

Flying(r)    == req[r].at \in {"settle", "write"}
Recorded(r)  == IF req[r].mode = "suricata" THEN managed = req[r].pid ELSE tcpdump = req[r].pid
Known        == Free \subseteq {managed, tcpdump, state.pid} \cup Control!InFlight
Lone         == \A p, q \in Free : p = q
HandleAlone  == \A h \in {managed, tcpdump} : Control!Living(h) => Free \subseteq {h}
Held(s)      == s.mode = "suricata" /\ s.pid \in Free => s.pid = managed
TcpdumpNamed == tcpdump \in Free => tcpdump \in {state.pid} \cup Control!InFlight \cup unwritten

\* What request thread r knows of processes, by the place where it is.
Phase(r) ==
  /\ req[r].kind = "start" /\ req[r].at = "decide" /\ ~req[r].seen => Quiet /\ Free = {}
  /\ req[r].at \in {"check", "popen"} => Quiet /\ Free = {}
  /\ req[r].at = "settle" => Quiet /\ Free \subseteq {req[r].pid}
  /\ req[r].at = "write" => Recorded(r) /\ Free \subseteq {req[r].pid}
  /\ req[r].at = "mlwrite" => state \in {Control!NoState, req[r].snap} /\ Held(req[r].snap)
  /\ req[r].at = "wait" => Recorded(r) /\ Free = {}
  /\ req[r].at = "unwatch" => Free \subseteq spared

Solo == Known /\ Lone /\ HandleAlone /\ Held(state) /\ TcpdumpNamed /\ \A r \in Controllers : Phase(r)

FeedIsOff == \A r \in Controllers : req[r].kind = "stop" /\ req[r].at \in {"halt", "wait", "unwatch"} /\ feedOn => refed

SoloInv == FeedIsOff /\ (~panel => Solo)

LEMMA OnlyControllers ==
  ASSUME ControlInv, NEW r \in Control!Requests
  PROVE  /\ req[r].at \notin {"idle", "decide", "autofeed"} => r \in Controllers
         /\ req[r].kind \notin {"none", "status"} => r \in Controllers
         /\ req[r].at = "idle" <=> req[r] = Control!Idle
         /\ ~panel => req[r].kind \in {"none", "status", "start", "stop"}
BY Kept, NoPidIsNone DEF InOrder, Places1, Threads, Kinds

\* With one controller, the processes under way are those of its request.
LEMMA OneFlight ==
  ASSUME ControlInv, OneController, NEW c \in Controllers
  PROVE  Control!InFlight = IF Flying(c) THEN {req[c].pid} ELSE {}
BY OnlyControllers DEF Control!InFlight, OneController, Flying, Control!Requests

LEMMA OneFlightNext ==
  ASSUME ControlInv', OneController, NEW c \in Controllers
  PROVE  Control!InFlight' = IF Flying(c)' THEN {req'[c].pid} ELSE {}
<1>1. \A r \in Control!Requests : req'[r].at \in {"settle", "write"} => r \in Controllers
  BY DEF ControlInv, Control!TypeOK, InOrder, Places1
<1> QED BY <1>1 DEF Control!InFlight, OneController, Flying, Control!Requests

\* Processes only end.
Ends == /\ Free' \subseteq Free
        /\ \A p \in {managed, tcpdump} : Control!Living(p)' => Control!Living(p)
        /\ managed' \in {managed, Control!NoPid}  /\ tcpdump' \in {tcpdump, Control!NoPid}

LEMMA NobodyLives == ~Control!Living(Control!NoPid) /\ ~Control!Living(Control!NoPid)'
BY DEF Control!Living, Control!NoPid, Control!Procs

LEMMA SoloEnds ==
  ASSUME Solo, Ends
  PROVE  Lone' /\ HandleAlone' /\ (Quiet => Quiet')
<1>1. \A h \in {managed', tcpdump'} : Control!Living(h)' => h \in {managed, tcpdump} /\ Control!Living(h)
  BY NobodyLives DEF Ends
<1>2. \A h \in {managed', tcpdump'} : Control!Living(h)' => Free' \subseteq {h}
  BY <1>1 DEF Solo, HandleAlone, Ends
<1> QED BY <1>1, <1>2 DEF Solo, Lone, HandleAlone, Ends, Quiet

LEMMA PhaseKeeps ==
  ASSUME NEW r, Phase(r), req'[r] = req[r], Ends, UNCHANGED <<managed, tcpdump, spared>>, state' \in {state, Control!NoState}
  PROVE  Phase(r)'
<1>1. Quiet => Quiet'
  BY DEF Quiet, Ends
<1> QED BY <1>1 DEF Phase, Ends, Recorded, Held

LEMMA SoloKeep ==
  ASSUME Solo, Ends, UNCHANGED <<managed, tcpdump, state>>, unwritten \subseteq unwritten',
         Free' \cap Control!InFlight \subseteq Control!InFlight' \cup {state.pid},
         \A r \in Controllers : Phase(r)'
  PROVE  Solo'
<1>1. Lone' /\ HandleAlone'
  BY SoloEnds
<1>2. Known' /\ TcpdumpNamed'
  BY DEF Solo, Known, TcpdumpNamed, Ends
<1>3. (Held(state))'
  BY DEF Solo, Held, Ends
<1> QED BY <1>1, <1>2, <1>3 DEF Solo

LEMMA SameProcesses ==
  ASSUME ControlInv, proc' = proc, strayed \subseteq strayed',
         managed' \in {managed, Control!NoPid}, tcpdump' \in {tcpdump, Control!NoPid}
  PROVE  Ends
BY DEF Ends, Free, Control!Up, Control!Living

LEMMA OneEnds ==
  ASSUME ControlInv, NEW p \in Control!Procs, UNCHANGED strayed,
         managed' \in {managed, Control!NoPid}, tcpdump' \in {tcpdump, Control!NoPid},
         \/ Control!Terminate(p)
         \/ proc' = [proc EXCEPT ![p].at = "dead"]
         \/ proc[p].at = "dead" /\ proc' = [proc EXCEPT ![p].at = "foreign"]
  PROVE  Ends /\ p \notin Free'
<1>1. proc \in ProcTypes
  BY ControlTypesDef DEF ControlInv
<1>2. /\ \A q \in Control!Procs : q # p => proc'[q] = proc[q]
      /\ proc'[p].at # "up" /\ (proc'[p].at = "terminated" => proc[p].at \in {"up", "terminated"})
  BY <1>1 DEF Control!Terminate, ProcTypes
<1> QED BY <1>2 DEF Ends, Free, Control!Up, Control!Living

\* Status polls, and the first step of a start.
LEMMA StatusSolo ==
  ASSUME ControlInv, ControlInv', OneController, SoloInv, NEW r \in Control!Requests,
         \/ Control!StatusPoll(r) \/ Control!AutoFeed(r) \/ Control!StartDecide(r)
  PROVE  SoloInv'
<1>1. UNCHANGED <<proc, managed, tcpdump, panel, unwritten, spared>>
  BY DEF Control!StatusPoll, Control!AutoFeed, Control!StartDecide, Control!DecideStatus, Control!handles
<1>2. strayed \subseteq strayed' /\ state' \in {state, Control!NoState}
  BY ClearKeeps DEF Control!StatusPoll, Control!AutoFeed, Control!StartDecide, Control!DecideStatus
<1>3. req \in [Control!Requests -> Threads] /\ \A o \in Control!Requests : o # r => req'[o] = req[o]
  BY Kept DEF Control!StatusPoll, Control!AutoFeed, Control!StartDecide, Control!Goto, Control!Answer
<1>4. req[r].kind \in {"status", "start"} /\ req[r].at \in {"decide", "autofeed"}
      /\ req'[r].at \in {"idle", "autofeed", "check", "popen"}
  BY <1>3, NoPidIsNone DEF Control!StatusPoll, Control!AutoFeed, Control!StartDecide, Control!DecideStatus, Control!At,
                           Control!Goto, Control!Answer, Threads
<1>5. Controllers \subseteq Control!Requests
  BY DEF Control!Requests
<1>6. FeedIsOff'
  <2>1. feedOn' /\ ~feedOn => refed'
    BY DEF Control!StatusPoll, Control!AutoFeed, Control!StartDecide, Control!DecideStatus, Control!side
  <2>2. refed => refed'
    BY DEF Control!StatusPoll, Control!AutoFeed, Control!StartDecide, Control!DecideStatus
  <2> QED BY <1>3, <1>4, <1>5, <2>1, <2>2 DEF SoloInv, FeedIsOff
<1> SUFFICES ASSUME ~panel' PROVE Solo'
  BY <1>6 DEF SoloInv
<1>7. Solo
  BY <1>1 DEF SoloInv
<1>8. Ends
  BY <1>1, <1>2, SameProcesses
<1>9. Control!InFlight' = Control!InFlight
  BY <1>3, <1>4 DEF Control!InFlight
<1>10. state' # state => state.pid \notin Free'
  <2>1. CASE state = req[r].snap
    <3>1. state' # state => ~Control!PidAlive(state.pid)
      BY <2>1 DEF Control!StatusPoll, Control!AutoFeed, Control!StartDecide, Control!DecideStatus, Control!IsStale
    <3> QED BY <1>1, <3>1 DEF Free, Control!Up, Control!PidAlive
  <2>2. CASE state # req[r].snap
    <3>1. state' # state => state.pid \in strayed' \cup {Control!NoPid}
      BY <2>2 DEF Control!StatusPoll, Control!AutoFeed, Control!StartDecide, Control!DecideStatus
    <3> QED BY <3>1, NoPidIsNone DEF Free, Control!Up
  <2> QED BY <2>1, <2>2
<1>11. Known' /\ TcpdumpNamed'
  BY <1>1, <1>2, <1>7, <1>8, <1>9, <1>10 DEF Solo, Known, TcpdumpNamed, Ends
<1>12. (Held(state))'
  BY <1>1, <1>2, <1>7, <1>8 DEF Solo, Held, Ends, Control!NoState
<1>13. ASSUME NEW c \in Controllers PROVE Phase(c)'
  <2>1. CASE c # r
    BY <1>1, <1>2, <1>3, <1>5, <1>7, <1>8, <2>1, PhaseKeeps DEF Solo
  <2>2. CASE c = r
    <3>1. CASE req'[r].at \in {"check", "popen"}
      <4>1. req[r].kind = "start" /\ req[r].at = "decide" /\ ~req[r].seen
        BY <1>3, <3>1, NoPidIsNone DEF Control!StatusPoll, Control!AutoFeed, Control!StartDecide, Control!DecideStatus, Control!At,
                                       Control!Goto, Control!Answer, Control!RefusedAsRunning, Threads
      <4>2. Quiet /\ Free = {}
        BY <1>7, <2>2, <4>1 DEF Solo, Phase
      <4>3. Quiet' /\ Free' = {}
        BY <1>7, <1>8, <4>2, SoloEnds DEF Ends
      <4> QED BY <2>2, <3>1, <4>3 DEF Phase
    <3>2. CASE req'[r].at \in {"idle", "autofeed"}
      BY <2>2, <3>2 DEF Phase
    <3> QED BY <1>4, <3>1, <3>2
  <2> QED BY <2>1, <2>2
<1> QED BY <1>7, <1>8, <1>11, <1>12, <1>13, SoloEnds DEF Solo

\* When one controller is at rest, nothing is under way; and when no handle lives and no tcpdump is
\* named by the file, nothing runs.
LEMMA NothingRuns ==
  ASSUME ControlInv, Solo, Control!InFlight = {}, ~Control!Managed, ~Control!Living(tcpdump),
         ~(state.mode = "tcpdump" /\ Control!PidAlive(state.pid))
  PROVE  Quiet /\ Free = {}
<1>1. Quiet
  BY DEF Quiet, Control!Managed
<1>2. ASSUME NEW p \in Free PROVE FALSE
  <2>1. p \in Control!Procs /\ Control!Living(p) /\ Control!PidAlive(p)
    BY DEF Free, Control!Up, Control!Living, Control!PidAlive
  <2>2. p = state.pid
    BY <1>1, <2>1 DEF Solo, Known, Quiet
  <2>3. state # Control!NoState /\ proc[p].at # "unborn"
    BY <2>1, <2>2, NoPidIsNone DEF Control!Living
  <2>4. proc[p].mode = state.mode /\ state.mode # "none" /\ state.mode \in AnyMode
    BY <2>1, <2>2, <2>3, Kept DEF NamesOne, ControlInv, BornInAMode, Control!States, AnyMode
  <2>5. state.mode = "suricata"
    BY <2>1, <2>2, <2>4 DEF AnyMode
  <2> QED BY <1>1, <1>2, <2>1, <2>2, <2>5 DEF Solo, Held, Quiet
<1> QED BY <1>1, <1>2

\* ... what runs is then what the file alone names.
LEMMA FiledAlone ==
  ASSUME Known, Control!InFlight = {}, ~Control!Managed, ~Control!Living(tcpdump)
  PROVE  Free \subseteq Control!OnlyFiled
<1>1. ASSUME NEW p \in Free PROVE p \in Control!OnlyFiled
  <2>1. p \in Control!Procs /\ Control!Living(p)
    BY DEF Free, Control!Up, Control!Living
  <2>2. p # managed /\ p # tcpdump /\ p # Control!NoPid
    BY <2>1, NoPidIsNone DEF Control!Managed
  <2> QED BY <2>2 DEF Known, Control!OnlyFiled
<1> QED BY <1>1

LEMMA BeginSolo ==
  ASSUME ControlInv, ControlInv', OneController, SoloInv, NEW r \in Control!Requests,
         \/ r \in Dashboards /\ Control!ReadStatus(r, "status", "none")
         \/ r \in Controllers /\ \E m \in Modes : Control!ReadStatus(r, "start", m)
         \/ r \in Controllers /\ (Control!StopMl(r) \/ Control!PanelStart(r))
  PROVE  SoloInv'
<1>a. UNCHANGED <<proc, managed, tcpdump, state, feedOn, refed, unwritten>> /\ strayed \subseteq strayed'
  BY DEF Control!ReadStatus, Control!StopMl, Control!PanelStart, Control!handles, Control!side, Control!env, Control!hist
<1>b. panel' = TRUE \/ panel' = panel
  BY DEF Control!ReadStatus, Control!StopMl, Control!PanelStart, Control!env, Control!hist
<1>1. UNCHANGED <<proc, managed, tcpdump, state, feedOn, refed, unwritten>> /\ strayed \subseteq strayed' /\ (panel => panel')
  BY <1>a, <1>b
<1>2. req \in [Control!Requests -> Threads] /\ (\A o \in Control!Requests : o # r => req'[o] = req[o]) /\ req[r] = Control!Idle
  BY Kept DEF Control!ReadStatus, Control!StopMl, Control!PanelStart
<1>3. Controllers \subseteq Control!Requests
  BY DEF Control!Requests
<1>4. \/ Control!PanelStart(r) /\ panel' /\ req'[r].kind = "panelStart"
      \/ req'[r].at \in {"ml", "unfeed"}
      \/ req'[r].at = "decide" /\ req'[r].kind = "status"
      \/ /\ req'[r].at = "decide" /\ req'[r].kind = "start" /\ r \in Controllers
         /\ ~req'[r].seen => /\ ~Control!Managed /\ ~Control!Living(tcpdump)
                            /\ \/ ~(state.mode = "tcpdump" /\ Control!PidAlive(state.pid))
                               \/ Control!OnlyFiled \subseteq strayed'
  <2>1. CASE r \in Dashboards /\ Control!ReadStatus(r, "status", "none")
    BY <1>2, <2>1 DEF Control!ReadStatus, Control!Idle
  <2>2. CASE r \in Controllers /\ \E m \in Modes : Control!ReadStatus(r, "start", m)
    <3>1. PICK m \in Modes : Control!ReadStatus(r, "start", m)
      BY <2>2
    <3>a. PICK read \in Control!FileReads :
             /\ req' = [req EXCEPT ![r] = [Control!Idle EXCEPT !.kind = "start", !.mode = m, !.at = "decide", !.snap = read,
                                                               !.seen = Control!Managed \/ Control!TcpdumpRunning(read)]]
             /\ strayed' = IF "start" = "start" /\ read # state THEN strayed \cup Control!OnlyFiled ELSE strayed
      BY <3>1 DEF Control!ReadStatus
    <3> DEFINE seen == Control!Managed \/ Control!TcpdumpRunning(read)
    <3>2. req' = [req EXCEPT ![r] = [Control!Idle EXCEPT !.kind = "start", !.mode = m, !.at = "decide", !.snap = read, !.seen = seen]]
      BY <3>a
    <3>3. ~seen => /\ ~Control!Managed /\ ~Control!Living(tcpdump)
                   /\ \/ ~(state.mode = "tcpdump" /\ Control!PidAlive(state.pid))
                      \/ Control!OnlyFiled \subseteq strayed'
      BY <3>a DEF Control!TcpdumpRunning
    <3> HIDE DEF seen
    <3>4. req'[r].at = "decide" /\ req'[r].kind = "start" /\ req'[r].seen = seen
      BY <1>2, <3>2 DEF Control!Idle
    <3> QED BY <2>2, <3>3, <3>4
  <2>3. CASE Control!StopMl(r)
    BY <1>2, <2>3 DEF Control!StopMl, Control!Idle
  <2>4. CASE Control!PanelStart(r)
    BY <1>2, <2>4 DEF Control!PanelStart, Control!Idle
  <2> QED BY <2>1, <2>2, <2>3, <2>4
<1>5. FeedIsOff'
  BY <1>1, <1>2, <1>3, <1>4 DEF SoloInv, FeedIsOff
<1> SUFFICES ASSUME ~panel' PROVE Solo'
  BY <1>5 DEF SoloInv
<1>6. Solo
  BY <1>1 DEF SoloInv
<1>7. Ends
  BY <1>1, SameProcesses
<1>8. Control!InFlight \subseteq Control!InFlight'
  BY <1>2, NoPidIsNone DEF Control!InFlight
<1>9. ASSUME NEW c \in Controllers PROVE Phase(c)'
  <2>1. CASE c # r
    <3>1. r \notin Controllers
      BY <2>1 DEF OneController
    <3>2. spared' = spared
      BY <3>1 DEF Control!ReadStatus
    <3> QED BY <1>1, <1>2, <1>3, <1>6, <1>7, <2>1, <3>2, PhaseKeeps DEF Solo
  <2>2. CASE c = r /\ req'[r].at \in {"ml", "unfeed"}
    BY <2>2 DEF Phase
  <2>3. CASE c = r /\ req'[r].at = "decide" /\ (req'[r].kind = "start" => (~req'[r].seen => Quiet /\ Free' = {}))
    <3>1. Quiet => Quiet'
      BY <1>6, <1>7, SoloEnds
    <3> QED BY <1>7, <2>3, <3>1 DEF Phase, Ends
  <2>4. CASE c = r /\ req'[r].at = "decide" /\ req'[r].kind = "start" /\ ~req'[r].seen
    <3>1. ~Control!Managed /\ ~Control!Living(tcpdump)
      BY <1>4, <2>4
    <3>2. Control!InFlight = {}
      BY <1>2, <2>4, OneFlight, NoPidIsNone DEF Flying
    <3>3. Quiet /\ Free' = {}
      <4>1. CASE ~(state.mode = "tcpdump" /\ Control!PidAlive(state.pid))
        BY <1>6, <1>7, <3>1, <3>2, <4>1, NothingRuns DEF Ends
      <4>2. CASE Control!OnlyFiled \subseteq strayed'
        <5>1. Free \subseteq Control!OnlyFiled
          BY <1>6, <3>1, <3>2, FiledAlone DEF Solo
        <5>2. Free' \cap strayed' = {} /\ Free' \subseteq Free
          BY <1>7 DEF Free, Ends
        <5> QED BY <3>1, <4>2, <5>1, <5>2 DEF Quiet, Control!Managed
      <4> QED BY <1>4, <2>4, <4>1, <4>2
    <3> QED BY <2>3, <2>4, <3>3
  <2> QED BY <1>4, <2>1, <2>2, <2>3, <2>4
<1> QED BY <1>1, <1>6, <1>7, <1>8, <1>9, SoloKeep

\* A start, up to the process and its handle.
LEMMA StartSolo ==
  ASSUME ControlInv, ControlInv', OneController, SoloInv, NEW r \in Control!Requests,
         \/ Control!CheckSuricata(r) \/ Control!PopenFails(r) \/ Control!SettleFails(r) \/ Control!StartFeed(r)
  PROVE  SoloInv'
<1>1. UNCHANGED <<proc, managed, tcpdump, state, refed, panel, strayed, unwritten>>
  BY DEF Control!CheckSuricata, Control!PopenFails, Control!SettleFails, Control!StartFeed, Control!handles, Control!env, Control!hist
<1>2. req \in [Control!Requests -> Threads] /\ (\A o \in Control!Requests : o # r => req'[o] = req[o])
  BY Kept DEF Control!CheckSuricata, Control!PopenFails, Control!SettleFails, Control!StartFeed, Control!Goto, Control!Answer
<1>3. Controllers \subseteq Control!Requests
  BY DEF Control!Requests
<1>4. req[r].at \in {"check", "popen", "settle", "feed"} /\ req'[r].at \in {"idle", "popen", "ml"}
      /\ (req[r].at = "feed" => req'[r].at = "ml" /\ req[r].kind = "start" /\ req'[r].kind = "start")
      /\ (req[r].at # "feed" => feedOn' = feedOn)
      /\ (req[r].at = "settle" => ~Control!Living(req[r].pid))
  BY <1>2, NoPidIsNone DEF Control!CheckSuricata, Control!PopenFails, Control!SettleFails, Control!StartFeed, Control!At,
                           Control!Goto, Control!Answer, Control!side, Threads
<1>5. r \in Controllers
  BY <1>4, OnlyControllers
<1>6. FeedIsOff'
  BY <1>1, <1>2, <1>3, <1>4, <1>5 DEF SoloInv, FeedIsOff, OneController
<1> SUFFICES ASSUME ~panel' PROVE Solo'
  BY <1>6 DEF SoloInv
<1>7. Solo /\ Phase(r)
  BY <1>1, <1>5 DEF SoloInv, Solo
<1>8. Ends
  BY <1>1, SameProcesses
<1>9. req[r].at \in {"check", "popen", "settle"} => Quiet' /\ Free' = {}
  <2>1. req[r].at = "settle" => Free = {}
    BY <1>4, <1>7 DEF Phase, Free, Control!Up, Control!Living
  <2>2. req[r].at \in {"check", "popen", "settle"} => Quiet /\ Free = {}
    BY <1>7, <2>1 DEF Phase
  <2> QED BY <1>7, <1>8, <2>2, SoloEnds DEF Ends
<1>10. ASSUME NEW c \in Controllers PROVE Phase(c)'
  <2>1. c = r
    BY <1>5 DEF OneController
  <2> QED BY <1>4, <1>9, <2>1 DEF Phase
<1>11. Free' \cap Control!InFlight \subseteq {}
  BY <1>4, <1>5, <1>9, OneFlight DEF Flying
<1> QED BY <1>1, <1>7, <1>8, <1>10, <1>11, SoloKeep

LEMMA PopenSolo ==
  ASSUME ControlInv, ControlInv', OneController, SoloInv, NEW r \in Control!Requests, Control!Popen(r)
  PROVE  SoloInv'
<1>1. PICK p \in Control!Procs : /\ proc[p].at = "unborn"
                                 /\ proc' = [proc EXCEPT ![p] = [at |-> "up", mode |-> req[r].mode]]
                                 /\ req' = [req EXCEPT ![r].at = "settle", ![r].pid = p]
  BY DEF Control!Popen
<1>2. UNCHANGED <<managed, tcpdump, state, feedOn, refed, panel, strayed>> /\ req[r].at = "popen"
  BY DEF Control!Popen, Control!handles, Control!side, Control!env, Control!hist
<1>3. r \in Controllers /\ \A c \in Controllers : c = r
  BY <1>2, OnlyControllers DEF OneController
<1>4. req'[r].at = "settle" /\ req'[r].pid = p
  BY <1>1, Kept DEF Threads
<1>5. FeedIsOff'
  BY <1>3, <1>4 DEF FeedIsOff
<1> SUFFICES ASSUME ~panel' PROVE Solo'
  BY <1>5 DEF SoloInv
<1>6. Solo /\ Quiet /\ Free = {}
  BY <1>2, <1>3 DEF SoloInv, Solo, Phase
<1>7. proc \in ProcTypes /\ \A q \in Control!Procs : q # p => proc'[q] = proc[q]
  BY <1>1, ControlTypesDef DEF ControlInv, ProcTypes
<1>8. Free' \subseteq {p}
  BY <1>2, <1>6, <1>7 DEF Free, Control!Up
<1>9. \A h \in {managed, tcpdump} : h # p
  BY <1>1, <1>2 DEF ControlInv, HandlesBorn, Control!NoPid, Control!Procs
<1>10. Quiet'
  BY <1>2, <1>6, <1>7, <1>9 DEF Quiet, Control!Living
<1>11. Control!InFlight' = {p}
  BY <1>3, <1>4, OneFlightNext DEF Flying
<1>12. (Held(state))'
  <2>1. state.pid # p
    <3>1. state # Control!NoState => proc[state.pid].at # "unborn"
      BY Kept DEF NamesOne
    <3> QED BY <1>1, <3>1, NoPidIsNone
  <2> QED BY <1>2, <1>8, <2>1 DEF Held
<1>13. \A c \in Controllers : Phase(c)'
  BY <1>3, <1>4, <1>8, <1>10 DEF Phase
<1>14. Known' /\ TcpdumpNamed'
  BY <1>8, <1>11 DEF Known, TcpdumpNamed
<1>15. Lone' /\ HandleAlone'
  BY <1>8, <1>10 DEF Lone, HandleAlone, Quiet
<1> QED BY <1>12, <1>13, <1>14, <1>15 DEF Solo

LEMMA SettleSolo ==
  ASSUME ControlInv, ControlInv', OneController, SoloInv, NEW r \in Control!Requests, Control!Settle(r)
  PROVE  SoloInv'
<1>1. UNCHANGED <<proc, state, feedOn, refed, panel, strayed>> /\ req[r].at = "settle"
  BY DEF Control!Settle, Control!side, Control!env, Control!hist
<1>2. r \in Controllers /\ \A c \in Controllers : c = r
  BY <1>1, OnlyControllers DEF OneController
<1>3. req[r] \in Threads /\ InOrder(r)
  BY Kept
<1>4. req[r].kind \in {"start", "panelStart"}
  BY <1>1, <1>3 DEF InOrder, Places1, Threads, Kinds
<1>5. FeedIsOff'
  <2>1. req'[r].kind # "stop"
    BY <1>3, <1>4, Kept, NoPidIsNone DEF Control!Settle, Control!Goto, Control!Answer, Threads
  <2> QED BY <1>2, <2>1 DEF FeedIsOff
<1> SUFFICES ASSUME ~panel' PROVE Solo'
  BY <1>5 DEF SoloInv
<1>6. Solo /\ Quiet /\ Free \subseteq {req[r].pid}
  BY <1>1, <1>2 DEF SoloInv, Solo, Phase
<1>7. req[r].kind = "start"
  BY <1>1, <1>3, <1>4 DEF InOrder
<1>8. req'[r] = [req[r] EXCEPT !.at = "write"]
  BY <1>7, Kept DEF Control!Settle, Control!Goto
<1>9. req'[r].at = "write" /\ req'[r].pid = req[r].pid /\ req'[r].mode = req[r].mode
  BY <1>3, <1>8 DEF Threads
<1>10. Control!InFlight' = {req[r].pid}
  BY <1>2, <1>9, OneFlightNext DEF Flying
<1>11. Free' = Free
  BY <1>1 DEF Free, Control!Up
<1>12. Recorded(r)' /\ (managed' = managed \/ managed' = req[r].pid) /\ (tcpdump' = tcpdump \/ tcpdump' = req[r].pid)
  BY <1>9 DEF Control!Settle, Control!RecordHandle, Recorded
<1>13. \A h \in {managed, tcpdump} : ~Control!Living(h)'
  BY <1>1, <1>6 DEF Quiet, Control!Living
<1>14. Lone' /\ HandleAlone'
  BY <1>6, <1>11, <1>12, <1>13 DEF Lone, HandleAlone
<1>15. Known' /\ TcpdumpNamed'
  BY <1>6, <1>10, <1>11 DEF Known, TcpdumpNamed
<1>16. (Held(state))'
  <2> SUFFICES ASSUME state.mode = "suricata", state.pid \in Free PROVE state.pid = managed'
    BY <1>1, <1>11 DEF Held
  <2>1. state.pid = req[r].pid /\ req[r].pid # Control!NoPid /\ state # Control!NoState
    BY <1>6, NoPidIsNone DEF Free, Control!Up
  <2>2. req[r].mode = "suricata"
    BY <1>3, <2>1, Kept DEF NamesOne, InOrder
  <2> QED BY <1>9, <1>12, <2>1, <2>2 DEF Recorded
<1>17. \A c \in Controllers : Phase(c)'
  BY <1>2, <1>6, <1>9, <1>11, <1>12 DEF Phase
<1> QED BY <1>14, <1>15, <1>16, <1>17 DEF Solo

\* What a write of the file may come to, and what it costs when it fails.
LEMMA WriteCosts ==
  ASSUME ControlInv, NEW s \in Control!States, Control!WriteFile(s)
  PROVE  /\ state' \in {s, state, Control!NoState} /\ strayed \subseteq strayed' /\ unwritten \subseteq unwritten'
         /\ s.pid \in {state'.pid, Control!NoPid} \cup unwritten'
         /\ state' # s => state.pid \in {state'.pid, Control!NoPid} \cup unwritten'
         /\ state' # s => state.pid \in {state'.pid, Control!NoPid, managed, tcpdump} \cup strayed'
BY DEF Control!WriteFile, Control!OnlyFiled

LEMMA WriteSolo ==
  ASSUME ControlInv, ControlInv', OneController, SoloInv, NEW r \in Control!Requests, Control!WriteState(r)
  PROVE  SoloInv'
<1> DEFINE s == [mode |-> req[r].mode, pid |-> req[r].pid, ml |-> FALSE]
<1>1. UNCHANGED <<proc, managed, tcpdump, feedOn, refed, panel>> /\ req[r].at = "write" /\ req[r].kind = "start"
      /\ Control!WriteFile(s)
  BY DEF Control!WriteState, Control!At, Control!handles, Control!side
<1>2. r \in Controllers /\ \A c \in Controllers : c = r
  BY <1>1, OnlyControllers DEF OneController
<1>3. req'[r].at = "feed" /\ req'[r].kind = "start"
  BY <1>1, Kept DEF Control!WriteState, Control!Goto, Threads
<1>4. FeedIsOff'
  BY <1>2, <1>3 DEF FeedIsOff
<1> SUFFICES ASSUME ~panel' PROVE Solo'
  BY <1>4 DEF SoloInv
<1>5. Solo /\ Recorded(r) /\ Free \subseteq {req[r].pid}
  BY <1>1, <1>2 DEF SoloInv, Solo, Phase
<1>7. s \in Control!States /\ s.pid = req[r].pid /\ s.mode = req[r].mode
  <2>1. req[r] \in Threads
    BY Kept
  <2> QED BY <2>1 DEF Threads, Pids, AnyMode, Control!States
<1> HIDE DEF s
<1>w. /\ state' \in {s, state, Control!NoState} /\ strayed \subseteq strayed'
      /\ s.pid \in {state'.pid, Control!NoPid} \cup unwritten'
  BY <1>1, <1>7, WriteCosts
<1>6. Ends /\ Free' \subseteq Free
  BY <1>1, <1>w, SameProcesses DEF Free, Control!Up
<1>8. Known' /\ TcpdumpNamed'
  <2>1. Free' \subseteq {managed, tcpdump}
    BY <1>5, <1>6 DEF Recorded
  <2>2. Control!NoPid \notin Free'
    BY NoPidIsNone DEF Free, Control!Up
  <2> QED BY <1>1, <1>5, <1>6, <1>7, <1>w, <2>1, <2>2 DEF Known, TcpdumpNamed
<1>9. (Held(state))'
  <2>1. CASE state' = s
    BY <1>1, <1>5, <1>6, <1>7, <2>1 DEF Held, Recorded
  <2>2. CASE state' = state
    BY <1>1, <1>5, <1>6, <2>2 DEF Solo, Held
  <2>3. CASE state' = Control!NoState
    BY <2>3 DEF Held, Control!NoState
  <2> QED BY <1>w, <2>1, <2>2, <2>3
<1>10. \A c \in Controllers : Phase(c)'
  BY <1>2, <1>3 DEF Phase
<1> QED BY <1>5, <1>6, <1>8, <1>9, <1>10, SoloEnds DEF Solo

LEMMA MlSolo ==
  ASSUME ControlInv, ControlInv', OneController, SoloInv, NEW r \in Control!Requests, Control!ReadForMl(r) \/ Control!WriteMl(r)
  PROVE  SoloInv'
<1>1. UNCHANGED <<proc, managed, tcpdump, feedOn, refed, panel, spared>>
  BY DEF Control!ReadForMl, Control!WriteMl, Control!handles, Control!side, Control!env, Control!hist
<1>2. req[r] \in Threads /\ req \in [Control!Requests -> Threads] /\ req[r].at \in {"ml", "mlwrite"}
  BY Kept DEF Control!ReadForMl, Control!WriteMl
<1>3. r \in Controllers /\ \A c \in Controllers : c = r
  BY <1>2, OnlyControllers DEF OneController
<1>4. \/ req'[r].at \in {"idle", "unfeed"}
      \/ req'[r].at = "mlwrite" /\ req'[r].snap = state /\ state' = state
  BY <1>2, NoPidIsNone DEF Control!ReadForMl, Control!WriteMl, Control!Goto, Control!Answer, Threads
<1>5. FeedIsOff'
  BY <1>3, <1>4 DEF FeedIsOff
<1> SUFFICES ASSUME ~panel' PROVE Solo'
  BY <1>5 DEF SoloInv
<1>6. Solo /\ Phase(r)
  BY <1>1, <1>3 DEF SoloInv, Solo
<1>8. Control!InFlight = {} /\ Control!InFlight' = {}
  BY <1>2, <1>3, <1>4, OneFlight, OneFlightNext DEF Flying
<1>9. CASE Control!ReadForMl(r)
  <2>1. UNCHANGED <<state, strayed, unwritten>>
    BY <1>9 DEF Control!ReadForMl, Control!env, Control!hist
  <2>3. Ends /\ Free' = Free
    BY <1>1, <2>1, SameProcesses DEF Free, Control!Up
  <2>2. \A c \in Controllers : Phase(c)'
    BY <1>1, <1>3, <1>4, <1>6, <2>1, <2>3 DEF Phase, Solo, Held
  <2> QED BY <1>1, <1>6, <1>8, <2>1, <2>2, <2>3, SoloKeep
<1>10. CASE Control!WriteMl(r)
  <2> DEFINE s == [req[r].snap EXCEPT !.ml = (req[r].kind = "start")]
  <2>1. req[r].at = "mlwrite" /\ Control!WriteFile(s) /\ req[r].snap \in Control!States
    BY <1>2, <1>10 DEF Control!WriteMl, Threads
  <2>2. s \in Control!States /\ s.pid = req[r].snap.pid /\ s.mode = req[r].snap.mode
    BY <2>1 DEF Control!States
  <2> HIDE DEF s
  <2>w. /\ state' \in {s, state, Control!NoState} /\ strayed \subseteq strayed' /\ unwritten \subseteq unwritten'
        /\ state' # s => state.pid \in {state'.pid, Control!NoPid} \cup unwritten'
        /\ state' # s => state.pid \in {state'.pid, Control!NoPid, managed, tcpdump} \cup strayed'
    BY <2>1, <2>2, WriteCosts
  <2>3. state.pid \in {Control!NoPid, req[r].snap.pid} /\ Held(req[r].snap)
    BY <1>6, <2>1, NoPidIsNone DEF Phase
  <2>4. Control!NoPid \notin Free' /\ Free' \cap strayed' = {}
    BY NoPidIsNone DEF Free, Control!Up
  <2>5. Ends /\ Free' \subseteq Free
    BY <1>1, <2>w, SameProcesses DEF Ends
  <2>6. Known' /\ TcpdumpNamed'
    <3>1. Free' \subseteq {managed, tcpdump, state.pid} /\ (tcpdump \in Free' => tcpdump \in {state.pid} \cup unwritten)
      BY <1>6, <1>8, <2>5 DEF Solo, Known, TcpdumpNamed
    <3>2. CASE state' = s
      BY <1>1, <1>8, <2>2, <2>3, <2>4, <2>w, <3>1, <3>2 DEF Known, TcpdumpNamed
    <3>3. CASE state' # s
      BY <1>1, <1>8, <2>4, <2>w, <3>1, <3>3 DEF Known, TcpdumpNamed
    <3> QED BY <3>2, <3>3
  <2>7. (Held(state))'
    <3>1. CASE state' = s
      BY <1>1, <2>2, <2>3, <2>5, <3>1 DEF Held
    <3>2. CASE state' = state
      BY <1>1, <1>6, <2>5, <3>2 DEF Solo, Held
    <3>3. CASE state' = Control!NoState
      BY <3>3 DEF Held, Control!NoState
    <3> QED BY <2>w, <3>1, <3>2, <3>3
  <2>8. req'[r].at \in {"idle", "unfeed"}
    BY <1>2, <1>10, NoPidIsNone DEF Control!WriteMl, Control!Goto, Control!Answer, Threads
  <2>9. \A c \in Controllers : Phase(c)'
    BY <1>3, <2>8 DEF Phase
  <2> QED BY <1>6, <2>5, <2>6, <2>7, <2>9, SoloEnds DEF Solo
<1> QED BY <1>9, <1>10

\* A stop ends what there is, or finds that there is nothing.
LEMMA StopSolo ==
  ASSUME ControlInv, ControlInv', OneController, SoloInv, NEW r \in Control!Requests,
         \/ Control!StopFeed(r) \/ Control!HaltHandle(r) \/ Control!HaltByPid(r) \/ Control!HaltNothing(r)
         \/ Control!WaitEnds(r) \/ Control!Kill(r) \/ Control!StopWatcher(r)
  PROVE  SoloInv'
<1>1. UNCHANGED <<panel, strayed, unwritten>>
  BY DEF Control!StopFeed, Control!HaltHandle, Control!HaltByPid, Control!HaltNothing, Control!WaitEnds, Control!Kill, Control!StopWatcher,
         Control!env, Control!hist
<1>2. req[r] \in Threads /\ req \in [Control!Requests -> Threads] /\ InOrder(r)
      /\ req[r].at \in {"unfeed", "halt", "wait", "unwatch"}
  BY Kept DEF Control!StopFeed, Control!HaltHandle, Control!HaltByPid, Control!HaltNothing, Control!WaitEnds, Control!Kill,
              Control!StopWatcher, Control!At
<1>3. r \in Controllers /\ \A c \in Controllers : c = r
  BY <1>2, OnlyControllers DEF OneController
<1>4. /\ req'[r].at \in {"idle", "halt", "wait", "unwatch"}
      /\ Control!StopFeed(r) => req[r].at = "unfeed" /\ req'[r].at = "halt"
      /\ Control!HaltHandle(r) => req[r].at = "halt" /\ req'[r].at \in {"wait", "unwatch"}
      /\ Control!HaltByPid(r) \/ Control!HaltNothing(r) => req[r].at = "halt" /\ req'[r].at = "unwatch"
      /\ Control!WaitEnds(r) => req[r].at = "wait" /\ req'[r].at \in {"idle", "unwatch"}
      /\ Control!Kill(r) => req[r].at = "wait" /\ req'[r].at \in {"idle", "wait", "unwatch"} /\ (req'[r].at = "wait" => req'[r] = req[r])
      /\ Control!StopWatcher(r) => req'[r].at = "idle"
  BY <1>2, NoPidIsNone DEF Control!StopFeed, Control!HaltHandle, Control!HaltByPid, Control!HaltNothing, Control!WaitEnds, Control!Kill,
                           Control!StopWatcher, Control!At, Control!Goto, Control!Answer, Threads
<1>5. FeedIsOff'
  <2>1. CASE Control!StopFeed(r)
    BY <1>3, <2>1 DEF Control!StopFeed, Control!FeedStopped, FeedIsOff
  <2>2. CASE ~Control!StopFeed(r)
    <3>1. UNCHANGED <<feedOn, refed>>
      BY <2>2 DEF Control!HaltHandle, Control!HaltByPid, Control!HaltNothing, Control!WaitEnds, Control!Kill, Control!StopWatcher,
                  Control!side, Control!env, Control!hist
    <3>2. req'[r].kind = "stop" /\ req'[r].at \in {"halt", "wait", "unwatch"} => req[r].kind = "stop" /\ req[r].at \in {"halt", "wait", "unwatch"}
      BY <1>2, <1>4, <2>2, NoPidIsNone
         DEF Control!HaltHandle, Control!HaltByPid, Control!HaltNothing, Control!WaitEnds, Control!Kill, Control!StopWatcher,
             Control!At, Control!Goto, Control!Answer, Threads
    <3> QED BY <1>3, <3>1, <3>2 DEF SoloInv, FeedIsOff
  <2> QED BY <2>1, <2>2
<1> SUFFICES ASSUME ~panel' PROVE Solo'
  BY <1>5 DEF SoloInv
<1>6. Solo /\ Phase(r)
  BY <1>1, <1>3 DEF SoloInv, Solo
<1>7. Control!InFlight = {} /\ Control!InFlight' = {}
  BY <1>2, <1>3, <1>4, OneFlight, OneFlightNext DEF Flying
<1>8. CASE Control!StopFeed(r) \/ Control!StopWatcher(r)
  <2>1. UNCHANGED <<proc, managed, tcpdump, state>>
    BY <1>8 DEF Control!StopFeed, Control!StopWatcher, Control!handles
  <2>2. Ends
    BY <1>1, <2>1, SameProcesses
  <2>3. \A c \in Controllers : Phase(c)'
    BY <1>3, <1>4, <1>8 DEF Phase
  <2> QED BY <1>1, <1>6, <1>7, <2>1, <2>2, <2>3, SoloKeep
<1>13. CASE Control!HaltHandle(r) /\ Control!Goto(r, "unwatch") /\ UNCHANGED proc /\ spared' = spared \cup {Control!Halted}
  <2>1. UNCHANGED <<managed, tcpdump, state>> /\ (Control!Managed \/ Control!Living(tcpdump))
    BY <1>13 DEF Control!HaltHandle, Control!handles
  <2>2. Ends
    BY <1>1, <1>13, <2>1, SameProcesses
  <2>3. Free \subseteq {Control!Halted}
    BY <1>6, <2>1 DEF Solo, HandleAlone, Control!Halted, Control!Managed
  <2>4. req'[r].at = "unwatch"
    BY <1>2, <1>13 DEF Control!Goto, Threads
  <2>5. \A c \in Controllers : Phase(c)'
    BY <1>3, <1>13, <2>2, <2>3, <2>4 DEF Phase, Ends
  <2> QED BY <1>1, <1>6, <1>7, <2>1, <2>2, <2>5, SoloKeep
<1>9. CASE Control!HaltHandle(r) /\ Control!Terminate(Control!Halted)
           /\ req' = [req EXCEPT ![r].at = "wait", ![r].pid = Control!Halted, ![r].mode = proc[Control!Halted].mode]
  <2>1. PICK p \in {managed, tcpdump} : /\ Control!Living(p) /\ Control!Terminate(p)
                                        /\ req' = [req EXCEPT ![r].at = "wait", ![r].pid = p, ![r].mode = proc[p].mode]
    BY <1>9 DEF Control!HaltHandle, Control!Halted, Control!Managed
  <2>2. UNCHANGED <<managed, tcpdump, state>> /\ p \in Control!Procs
    BY <1>9, <2>1 DEF Control!HaltHandle, Control!handles, Control!Living
  <2>3. Ends /\ p \notin Free'
    BY <1>1, <2>1, <2>2, OneEnds
  <2>4. Free' = {}
    BY <1>6, <2>1, <2>3 DEF Solo, HandleAlone, Ends
  <2>5. req'[r].pid = p /\ req'[r].mode = proc[p].mode
    BY <1>2, <2>1 DEF Threads
  <2>6. (p = managed => proc[p].mode = "suricata") /\ (p = tcpdump => proc[p].mode = "tcpdump")
    BY <2>2, NoPidIsNone, ControlTypesDef DEF ControlInv
  <2>7. Recorded(r)' /\ req'[r].at = "wait"
    BY <1>2, <2>1, <2>2, <2>5, <2>6 DEF Recorded, Threads
  <2>8. \A c \in Controllers : Phase(c)'
    BY <1>3, <2>4, <2>7 DEF Phase
  <2> QED BY <1>1, <1>6, <1>7, <2>2, <2>3, <2>8, SoloKeep
<1>10. CASE Control!HaltByPid(r) \/ Control!HaltNothing(r)
  <2>1. UNCHANGED <<managed, tcpdump>> /\ state' \in {state, Control!NoState} /\ ~Control!Managed /\ ~Control!Living(tcpdump)
    BY <1>10, ClearKeeps DEF Control!HaltByPid, Control!HaltNothing, Control!handles
  <2>2. Ends /\ Free' \subseteq spared' /\ (state' = state \/ Free' = {})
    <3>0. Free \subseteq Control!OnlyFiled /\ Control!OnlyFiled \subseteq {state.pid}
      BY <1>6, <1>7, <2>1, FiledAlone DEF Solo, Control!OnlyFiled
    <3>1. CASE Control!HaltNothing(r) /\ ~Control!NamedByFile
      <4>1. Free = {}
        BY <1>6, <1>7, <2>1, <3>1, NothingRuns DEF Control!NamedByFile
      <4>2. Ends
        BY <1>1, <2>1, <3>1, SameProcesses DEF Control!HaltNothing
      <4> QED BY <4>1, <4>2 DEF Ends
    <3>2. CASE Control!HaltNothing(r) /\ spared' = spared \cup Control!OnlyFiled /\ UNCHANGED state
      <4>2. Ends
        BY <1>1, <2>1, <3>2, SameProcesses DEF Control!HaltNothing
      <4> QED BY <3>0, <3>2, <4>2 DEF Ends
    <3>3. CASE Control!HaltByPid(r) /\ Control!Terminate(state.pid)
      <4>1. Control!Terminate(state.pid) /\ state.pid \in Control!Procs
        BY <3>3 DEF Control!HaltByPid, Control!NamedByFile, Control!PidAlive
      <4>2. Ends /\ state.pid \notin Free'
        BY <1>1, <2>1, <4>1, OneEnds
      <4> QED BY <3>0, <4>2 DEF Ends
    <3>4. CASE Control!HaltByPid(r) /\ spared' = spared \cup {state.pid} /\ UNCHANGED <<proc, state>>
      <4>2. Ends
        BY <1>1, <2>1, <3>4, SameProcesses
      <4> QED BY <3>0, <3>4, <4>2 DEF Ends
    <3> QED BY <1>10, <3>1, <3>2, <3>3, <3>4 DEF Control!HaltNothing, Control!HaltByPid
  <2>3. \A c \in Controllers : Phase(c)'
    BY <1>3, <1>4, <1>10, <2>2 DEF Phase
  <2>4. CASE state' = state
    BY <1>1, <1>6, <1>7, <2>1, <2>2, <2>3, <2>4, SoloKeep
  <2>5. CASE state' = Control!NoState /\ Free' = {}
    BY <1>6, <2>1, <2>2, <2>3, <2>5, SoloEnds DEF Solo, Known, TcpdumpNamed, Held
  <2> QED BY <2>1, <2>2, <2>4, <2>5
<1>11. CASE Control!WaitEnds(r)
  <2>1. proc' = proc /\ managed' \in {managed, Control!NoPid} /\ tcpdump' \in {tcpdump, Control!NoPid} /\ req[r].at = "wait"
    BY <1>11 DEF Control!WaitEnds
  <2>2. Ends /\ Free' = {}
    BY <1>1, <1>6, <2>1, SameProcesses DEF Phase, Ends
  <2>3. \A c \in Controllers : Phase(c)'
    BY <1>3, <1>4, <1>11, <2>2 DEF Phase
  <2> QED BY <1>6, <2>2, <2>3, SoloEnds DEF Solo, Known, TcpdumpNamed, Held
<1>12. CASE Control!Kill(r)
  <2>1. UNCHANGED <<managed, tcpdump, state>> /\ req[r].at = "wait" /\ req[r].pid \in Control!Procs
    BY <1>12 DEF Control!Kill, Control!Living, Control!handles
  <2>2. Ends
    BY <1>1, <1>12, <2>1, SameProcesses, OneEnds DEF Control!Kill
  <2>3. \A c \in Controllers : Phase(c)'
    <3>1. Free' = {} /\ (req'[r].at = "wait" => Recorded(r)')
      BY <1>4, <1>6, <1>12, <2>1, <2>2 DEF Phase, Ends, Recorded
    <3> QED BY <1>3, <1>4, <1>12, <3>1 DEF Phase
  <2> QED BY <1>1, <1>6, <1>7, <2>1, <2>2, <2>3, SoloKeep
<1> QED BY <1>8, <1>9, <1>10, <1>11, <1>12, <1>13 DEF Control!HaltHandle

LEMMA HostSolo ==
  ASSUME ControlInv, ControlInv', SoloInv,
         (\E p \in Control!Procs : Control!Die(p) \/ Control!ReusePid(p)) \/ Control!ExternalSuricata \/ Control!Restart
  PROVE  SoloInv'
<1>1. UNCHANGED <<panel, refed, state>>
  BY DEF Control!Die, Control!ReusePid, Control!ExternalSuricata, Control!Restart, Control!env, Control!hist
<1>2. CASE (\E p \in Control!Procs : Control!Die(p) \/ Control!ReusePid(p)) \/ Control!ExternalSuricata
  <2>1. UNCHANGED <<managed, tcpdump, strayed, unwritten, spared, req, feedOn>>
    BY <1>2 DEF Control!Die, Control!ReusePid, Control!ExternalSuricata, Control!handles, Control!side, Control!env, Control!hist
  <2>2. Ends
    BY <1>2, <2>1, SameProcesses, OneEnds DEF Control!Die, Control!ReusePid, Control!ExternalSuricata
  <2>3. Control!InFlight' = Control!InFlight
    BY <2>1 DEF Control!InFlight
  <2> QED BY <1>1, <2>1, <2>2, <2>3, PhaseKeeps, SoloKeep DEF SoloInv, FeedIsOff, Solo
<1>3. CASE Control!Restart
  <2>1. \A r \in Controllers : req'[r] = Control!Idle
    BY <1>3 DEF Control!Restart, Control!Requests
  <2>2. proc' = proc /\ managed' = Control!NoPid /\ tcpdump' = Control!NoPid
        /\ strayed' = strayed \cup Control!InFlight \cup ({managed} \ {Control!NoPid}) \cup ({tcpdump} \cap unwritten)
    BY <1>3 DEF Control!Restart
  <2>3. Ends /\ Free' = Free \ (Control!InFlight \cup {managed} \cup ({tcpdump} \cap unwritten))
    <3>1. Ends
      BY <2>2, SameProcesses
    <3> QED BY <2>2, <3>1, NoPidIsNone DEF Free, Control!Up
  <2>4. FeedIsOff' /\ \A r \in Controllers : Phase(r)'
    BY <2>1, NoPidIsNone DEF FeedIsOff, Phase
  <2>5. ASSUME Solo PROVE Solo'
    <3>1. Known' /\ TcpdumpNamed'
      BY <1>1, <2>2, <2>3, <2>5, NoPidIsNone DEF Solo, Known, TcpdumpNamed, Free, Control!Up
    <3>2. (Held(state))'
      BY <1>1, <2>3, <2>5 DEF Solo, Held
    <3> QED BY <2>3, <2>4, <2>5, <3>1, <3>2, SoloEnds DEF Solo
  <2> QED BY <1>1, <2>4, <2>5 DEF SoloInv
<1> QED BY <1>2, <1>3

LEMMA SoloNext == ASSUME ControlInv, ControlInv', OneController, SoloInv, [Control!Next]_(Control!vars) PROVE SoloInv'
<1>1. ASSUME NEW r \in Control!Requests, Control!Step(r) PROVE SoloInv'
  BY <1>1, StatusSolo, StartSolo, PopenSolo, SettleSolo, WriteSolo, MlSolo, StopSolo DEF Control!Step
<1>2. Controllers \subseteq Control!Requests /\ Dashboards \subseteq Control!Requests
  BY DEF Control!Requests
<1>3. ASSUME NEW r \in Dashboards, Control!ReadStatus(r, "status", "none") PROVE SoloInv'
  BY <1>2, <1>3, BeginSolo
<1>4. ASSUME NEW r \in Controllers, (\E m \in Modes : Control!ReadStatus(r, "start", m)) \/ Control!StopMl(r) \/ Control!PanelStart(r)
      PROVE  SoloInv'
  BY <1>2, <1>4, BeginSolo
<1>5. ASSUME NEW r \in Controllers, Control!PanelStop(r) PROVE SoloInv'
  <2>1. panel' = TRUE /\ UNCHANGED <<feedOn, refed>> /\ req[r] = Control!Idle
    BY <1>5 DEF Control!PanelStop, Control!side
  <2>2. req'[r] = Control!Idle \/ req'[r].kind = "panelStop"
    BY <1>2, <1>5, <2>1, Kept DEF Control!PanelStop, Control!Idle
  <2>3. \A c \in Controllers : c = r
    BY DEF OneController
  <2> QED BY <2>1, <2>2, <2>3, NoPidIsNone DEF SoloInv, FeedIsOff
<1>6. CASE UNCHANGED Control!vars
  <2>1. UNCHANGED <<proc, managed, tcpdump, state, feedOn, req, strayed, unwritten, spared, panel, refed>>
    BY <1>6 DEF Control!vars, Control!handles, Control!side, Control!env, Control!hist
  <2>2. Ends /\ Control!InFlight' = Control!InFlight
    BY <2>1, SameProcesses DEF Control!InFlight
  <2> QED BY <2>1, <2>2, PhaseKeeps, SoloKeep DEF SoloInv, FeedIsOff, Solo
<1> QED BY <1>1, <1>3, <1>4, <1>5, <1>6, HostSolo DEF Control!Next

LEMMA SoloInductive == OneController /\ Control!Spec => [](ControlInv /\ SoloInv)
<1>1. Control!Init => SoloInv
  <2> SUFFICES ASSUME Control!Init PROVE SoloInv
    OBVIOUS
  <2>1. \A r \in Controllers : req[r].at = "idle" /\ req[r].kind = "none"
    BY NoPidIsNone DEF Control!Init, Control!Requests
  <2>2. Free = {}
    BY DEF Control!Init, Free, Control!Up
  <2> QED BY <2>1, <2>2 DEF SoloInv, FeedIsOff, Solo, Known, Lone, HandleAlone, Held, TcpdumpNamed, Phase
<1>2. OneController /\ ControlInv /\ ControlInv' /\ SoloInv /\ [Control!Next]_(Control!vars) => SoloInv'
  BY SoloNext
<1>3. CASE OneController
  BY <1>1, <1>2, <1>3, ControlInductive, PTL DEF Control!Spec
<1> QED BY <1>3

(* With one controller, who leaves the Suricata panel alone, and a host that may refuse every *)
(* write and read of the file and every signal: a capture that runs is known to a handle, the *)
(* file or the request that started it, unless it strayed, ...                                *)
THEOREM EveryCaptureIsKnown == OneController /\ Control!Spec => []NothingStrays
<1>1. ControlInv /\ SoloInv => NothingStrays
  BY DEF ControlInv, NamesOne, SoloInv, Solo, Known, Free, NothingStrays, Control!NoOrphan, Control!StateNamesACapture
<1> QED BY <1>1, SoloInductive, PTL

(* ... two never run at once, ...                                                             *)
THEOREM NeverTwoCaptures == OneController /\ Control!Spec => []OneCapture
<1>1. SoloInv => OneCapture
  BY DEF SoloInv, Solo, Lone, Free, OneCapture, Control!OneCapture
<1> QED BY <1>1, SoloInductive, PTL

(* ... and a stop that went through leaves none that it could know of and was let signal, and *)
(* the feed off.                                                                              *)
THEOREM StopsAreComplete == OneController /\ Control!Spec => StopIsComplete
<1>1. SoloInv => [\A r \in Controllers : Control!StopWatcher(r) /\ ~panel => Control!Up \subseteq strayed \cup spared /\ (feedOn => refed)]_(Control!vars)
  BY DEF SoloInv, Solo, FeedIsOff, Phase, Free, Control!StopWatcher, Control!At
<1> QED BY <1>1, SoloInductive, PTL DEF StopIsComplete, Control!StopIsComplete
=============================================================================

-------------------------- MODULE SessionsProofs --------------------------
(***************************************************************************)
(* Proofs about the two threads the dashboard starts and stops: about      *)
(* LiveMonitor, for every number of sessions, request threads and files,   *)
(* NoOrphan and HundredIsDone; about LlmTriage, for every number of        *)
(* request threads and of loops started, OneLoop.                          *)
(*                                                                         *)
(* NoOrphan needs to be known from the moment the kickoff thread registers *)
(* the Event, and that a handler forgets a thread only after it has set    *)
(* the Event.  HundredIsDone needs that no update is under way with 100,   *)
(* which the count, capped at 99, gives.  OneLoop needs to say of every    *)
(* step of a switch which loop, if any, still lives.                       *)
(***************************************************************************)
EXTENDS MCSessions, FiniteSetTheorems, TLAPS

Records      == [status : {None, "analyzing", "complete"}, progress : 0 .. 100, eve : Eves \cup {None}]
HandlerStates == [at : HandlerAt, op : Requests \cup {None}, s : Nat, round : 0 .. 1, eve : Eves \cup {None}]

\* The types the proofs need; the file sequence and the path are not among them.
Types ==
  /\ record \in [Sessions -> Records]
  /\ monitor \in [Sessions -> MonitorAt]
  /\ counted \in [Sessions -> 0 .. 99]
  /\ handler \in [Handlers -> HandlerStates]
  /\ link \in Nat

\* Where the Event, and then the thread, is registered.
Flagged(s) == monitor[s] \notin {"none", "kickoff", "dead"}
Listed(s)  == monitor[s] \notin {"none", "kickoff", "flagged", "dead"}

Registered == \A s \in Sessions : s \notin event => /\ Flagged(s) => s \in flags
                                                    /\ Listed(s) => s \in active
Stopping   == \A h \in Handlers : handler[h].at \in {"join", "forget"} => handler[h].s \in event

IInv == Types /\ Registered /\ Stopping /\ HundredIsDone

LEMMA CreatedCount == Cardinality(Created) \in Nat
<1>1. IsFiniteSet(Sessions)
  BY FS_Interval, SessionsAssumption DEF Sessions
<1>2. Created \subseteq Sessions
  BY DEF Created
<1> QED BY <1>1, <1>2, FS_Subset, FS_CardinalityType

LEMMA InitInv == Init => IInv
BY SessionsAssumption DEF Init, IInv, Types, Registered, Stopping, HundredIsDone, Flagged, Listed, Sessions,
   Records, HandlerStates, NoRecord, Free, Serving, MonitorAt, HandlerAt, NoSession, None

LEMMA MonitorInv == ASSUME IInv, NEW s \in Sessions, MonitorStep(s) PROVE IInv'
<1> USE DEF IInv, Types, At, MonitorAt
<1>1. CASE Register(s)
  <2>1. Types'
    BY <1>1 DEF Register, store, capture, Records
  <2> QED BY <1>1, <2>1 DEF Register, store, capture, Registered, Stopping, HundredIsDone, Flagged, Listed
<1>2. CASE List(s)
  <2>1. Types'
    BY <1>2 DEF List, store, capture, Records
  <2> QED BY <1>2, <2>1 DEF List, store, capture, Registered, Stopping, HundredIsDone, Flagged, Listed
<1>3. CASE Launch(s)
  <2>1. Types'
    BY <1>3 DEF Launch, store, capture, registry, Records
  <2> QED BY <1>3, <2>1 DEF Launch, store, capture, registry, Registered, Stopping, HundredIsDone, Flagged, Listed
<1>4. CASE ReadRecord(s)
  <2>1. Types'
    BY <1>4 DEF ReadRecord, store, capture, registry, Records
  <2> QED BY <1>4, <2>1 DEF ReadRecord, store, capture, registry, Registered, Stopping, HundredIsDone, Flagged, Listed
<1>5. CASE EnterLoop(s)
  <2>1. Types'
    BY <1>5 DEF EnterLoop, store, capture, registry, Records
  <2> QED BY <1>5, <2>1 DEF EnterLoop, store, capture, registry, Registered, Stopping, HundredIsDone, Flagged, Listed
<1>6. CASE SetupFails(s)
  <2>1. Types'
    BY <1>6 DEF SetupFails, store, capture, registry, Records
  <2> QED BY <1>6, <2>1 DEF SetupFails, store, capture, registry, Registered, Stopping, HundredIsDone, Flagged, Listed
<1>7. CASE CheckStop(s)
  <2>1. Types'
    BY <1>7 DEF CheckStop, Turn, store, capture, registry, Records
  <2> QED BY <1>7, <2>1 DEF CheckStop, Turn, store, capture, registry, Registered, Stopping, HundredIsDone, Flagged, Listed
<1>8. CASE Batch(s)
  <2>1. record[s].progress \in 0 .. 99
    BY <1>8 DEF Batch, HundredIsDone, Records
  <2>2. Types'
    BY <1>8, <2>1 DEF Batch, store, capture, registry, Records
  <2> QED BY <1>8, <2>2 DEF Batch, store, capture, registry, Registered, Stopping, HundredIsDone, Flagged, Listed
<1>9. CASE Stats(s)
  <2>1. Counted(counted[s]) \in 0 .. 99
    BY DEF Counted
  <2>2. record' = [record EXCEPT ![s] = [status |-> "analyzing", progress |-> Counted(counted[s]), eve |-> record[s].eve]]
    BY <1>9 DEF Stats, Update
  <2>3. Types'
    BY <1>9, <2>1, <2>2 DEF Stats, capture, registry, Records
  <2> QED BY <1>9, <2>1, <2>2, <2>3 DEF Stats, capture, registry, Registered, Stopping, HundredIsDone, Flagged, Listed
<1>10. CASE Finish(s)
  <2>1. record' = [record EXCEPT ![s] = [status |-> "complete", progress |-> 100, eve |-> record[s].eve]]
    BY <1>10 DEF Finish, Update, LastStatus
  <2>2. Types'
    BY <1>10, <2>1 DEF Finish, capture, registry, Records
  <2> QED BY <1>10, <2>1, <2>2 DEF Finish, capture, registry, Registered, Stopping, HundredIsDone, Flagged, Listed
<1>11. CASE PopInstance(s)
  <2>1. Types'
    BY <1>11 DEF PopInstance, store, capture, registry, Records
  <2> QED BY <1>11, <2>1 DEF PopInstance, store, capture, registry, Registered, Stopping, HundredIsDone, Flagged, Listed
<1> QED BY <1>1, <1>2, <1>3, <1>4, <1>5, <1>6, <1>7, <1>8, <1>9, <1>10, <1>11 DEF MonitorStep

\* A handler that takes a request is where the request begins; it stops nothing yet.
LEMMA TakesType ==
  ASSUME Types, Stopping, NEW h \in Handlers, NEW new \in HandlerStates, new.at \notin {"join", "forget"},
         handler' = [handler EXCEPT ![h] = new], event' = event
  PROVE  handler' \in [Handlers -> HandlerStates] /\ Stopping'
BY DEF Types, Stopping

LEMMA AskType ==
  ASSUME Types, Stopping, NEW h \in Handlers, NEW s \in Nat, NEW at \in HandlerAt \ {"join", "forget"}, NEW op,
         Ask(h, op, at, s), event' = event
  PROVE  handler' \in [Handlers -> HandlerStates] /\ Stopping'
<1> DEFINE new == Serving(op, at, s, None)
<1>1. handler' = [handler EXCEPT ![h] = new]
  BY DEF Ask
<1>2. new \in HandlerStates /\ new.at = at
  BY DEF HandlerStates, Ask, Serving
<1> HIDE DEF new
<1> QED BY <1>1, <1>2, TakesType

LEMMA BeginInv ==
  ASSUME IInv, NEW h \in Handlers,
         \/ BeginAttach(h) \/ BeginSession(h) \/ BeginHalt(h)
         \/ \E s \in Sessions : BeginStop(h, s) \/ \E e \in Eves : BeginRebind(h, s, e)
  PROVE  IInv'
<1> USE DEF IInv
<1>0. Sessions \subseteq Nat /\ NoSession \in Nat /\ {"look", "create", "flag", "capture"} \subseteq HandlerAt \ {"join", "forget"}
  BY DEF Sessions, NoSession, HandlerAt
<1>1. CASE BeginAttach(h)
  <2>1. handler' \in [Handlers -> HandlerStates] /\ Stopping'
    BY <1>0, <1>1, AskType DEF BeginAttach
  <2> QED BY <1>1, <2>1 DEF BeginAttach, Types, NoSession, store, registry, own, Registered, HundredIsDone, Flagged, Listed
<1>2. CASE BeginSession(h)
  <2>1. handler' \in [Handlers -> HandlerStates] /\ Stopping'
    BY <1>0, <1>2, AskType DEF BeginSession
  <2> QED BY <1>2, <2>1 DEF BeginSession, Types, store, capture, registry, own, Registered, HundredIsDone, Flagged, Listed
<1>3. CASE BeginHalt(h)
  <2>1. PICK s \in Nat, at \in {"flag", "capture"} : Ask(h, "halt", at, s)
    BY <1>3 DEF BeginHalt, Types, NoSession, Created, Sessions
  <2>2. handler' \in [Handlers -> HandlerStates] /\ Stopping'
    BY <1>0, <1>3, <2>1, AskType DEF BeginHalt
  <2> QED BY <1>3, <2>2 DEF BeginHalt, Types, store, capture, registry, own, Registered, HundredIsDone, Flagged, Listed
<1>4. ASSUME NEW s \in Sessions, BeginStop(h, s) PROVE IInv'
  <2>1. handler' \in [Handlers -> HandlerStates] /\ Stopping'
    BY <1>0, <1>4, AskType DEF BeginStop
  <2> QED BY <1>4, <2>1 DEF BeginStop, Types, store, capture, registry, own, Registered, HundredIsDone, Flagged, Listed
<1>5. ASSUME NEW s \in Sessions, NEW e \in Eves, BeginRebind(h, s, e) PROVE IInv'
  <2>1. record' = [record EXCEPT ![s] = [status |-> record[s].status, progress |-> record[s].progress, eve |-> e]]
    BY <1>5 DEF BeginRebind, Update
  <2>2. /\ record' \in [Sessions -> Records]
        /\ \A x \in Sessions : record'[x].progress = record[x].progress /\ record'[x].status = record[x].status
    BY <2>1 DEF Types, Records
  <2> DEFINE new == Serving("rebind", "rebind", s, e)
  <2>3. handler' = [handler EXCEPT ![h] = new]
    BY <1>5 DEF BeginRebind
  <2>4. "rebind" \in Requests
    BY <1>5 DEF BeginRebind
  <2>6. new \in HandlerStates /\ new.at \notin {"join", "forget"}
    BY <1>0, <2>4 DEF Serving, HandlerStates, HandlerAt
  <2> HIDE DEF new
  <2>5. handler' \in [Handlers -> HandlerStates] /\ Stopping'
    BY <1>5, <2>3, <2>6, TakesType DEF BeginRebind
  <2> QED BY <1>5, <2>2, <2>5 DEF BeginRebind, Types, capture, registry, own, Registered, HundredIsDone, Flagged, Listed
<1> QED BY <1>1, <1>2, <1>3, <1>4, <1>5

LEMMA HandlerInv == ASSUME IInv, NEW h \in Handlers, HandlerStep(h) PROVE IInv'
<1> USE DEF IInv, Types, HandlerStates, HandlerAt
<1>1. CASE Look(h)
  BY <1>1 DEF Look, Go, Answer, Free, Serving, NoSession, None, store, capture, registry, own, Registered, Stopping,
     HundredIsDone, Flagged, Listed
<1>2. CASE Create(h)
  <2> DEFINE s == Cardinality(Created) + 1
  <2>1. PICK e \in Eves : record' = [record EXCEPT ![s] = [status |-> "analyzing", progress |-> StartAt, eve |-> e]]
    BY <1>2 DEF Create, Update
  <2>2. s \in Nat
    BY CreatedCount
  <2>a. [status |-> "analyzing", progress |-> StartAt, eve |-> e] \in Records
    BY SessionsAssumption DEF Records
  <2>3. record' \in [Sessions -> Records]
    BY <2>1, <2>a
  <2>4. monitor' = [monitor EXCEPT ![s] = "kickoff"]
    BY <1>2 DEF Create
  <2>5. monitor' \in [Sessions -> MonitorAt] /\ Registered'
    BY <1>2, <2>4 DEF Create, registry, MonitorAt, Registered, Flagged, Listed
  <2>6. HundredIsDone'
    BY <2>1, <2>4, SessionsAssumption DEF HundredIsDone
  <2>7. handler' \in [Handlers -> HandlerStates] /\ Stopping'
    BY <1>2, <2>2 DEF Create, Answer, Free, Serving, NoSession, None, Stopping
  <2> QED BY <1>2, <2>3, <2>5, <2>6, <2>7 DEF Create, capture
<1>3. CASE Link(h)
  BY <1>3 DEF Link, Answer, Free, Serving, NoSession, None, store, registry, own, Registered, Stopping, HundredIsDone, Flagged, Listed
<1>4. CASE RaiseFlag(h)
  BY <1>4 DEF RaiseFlag, Raised, Go, NextRound, store, capture, registry, own, Registered, Stopping, HundredIsDone,
     Flagged, Listed
<1>5. CASE Join(h)
  BY <1>5 DEF Join, Go, Answer, Free, Serving, NoSession, None, store, capture, registry, own, Registered, Stopping,
     HundredIsDone, Flagged, Listed
<1>6. CASE Forget(h)
  <2>1. handler[h].s \in event
    BY <1>6 DEF Forget, Stopping
  <2>2. Registered'
    BY <1>6, <2>1 DEF Forget, own, Registered, Flagged, Listed
  <2> QED BY <1>6, <2>2 DEF Forget, NextRound, Go, store, capture, own, Stopping, HundredIsDone
<1>7. CASE Close(h)
  <2> DEFINE s == handler[h].s
  <2>1. \/ record' = [record EXCEPT ![s] = [status |-> "complete", progress |-> record[s].progress, eve |-> record[s].eve]]
        \/ record' = record
    BY <1>7 DEF Close, Update, store
  <2>2. /\ record' \in [Sessions -> Records]
        /\ \A x \in Sessions : /\ record'[x].progress = record[x].progress
                               /\ record'[x].status \in {record[x].status, "complete"}
    BY <2>1 DEF Records
  <2>3. handler' \in [Handlers -> HandlerStates] /\ Stopping'
    BY <1>7 DEF Close, Go, Answer, Free, Serving, NoSession, None, Stopping
  <2>4. link' \in Nat
    BY <1>7 DEF Close, NoSession
  <2> QED BY <1>7, <2>2, <2>3, <2>4 DEF Close, registry, own, Registered, HundredIsDone, Flagged, Listed
<1>8. CASE StopCapture(h)
  BY <1>8 DEF StopCapture, Answer, Free, Serving, NoSession, None, store, capture, registry, own, Registered, Stopping,
     HundredIsDone, Flagged, Listed
<1>9. CASE Rebind(h)
  BY <1>9 DEF Rebind, Answer, Free, Serving, NoSession, None, store, capture, registry, Registered, Stopping, HundredIsDone,
     Flagged, Listed
<1> QED BY <1>1, <1>2, <1>3, <1>4, <1>5, <1>6, <1>7, <1>8, <1>9 DEF HandlerStep

LEMMA RestartInv == IInv /\ Restart => IInv'
BY DEF IInv, Types, Restart, Registered, Stopping, HundredIsDone, Flagged, Listed, Created, NoRecord, MonitorAt,
   HandlerStates, HandlerAt, Free, Serving, NoSession, None, store, capture

LEMMA StutterInv == IInv /\ UNCHANGED vars => IInv'
BY DEF IInv, Types, Registered, Stopping, HundredIsDone, Flagged, Listed, vars, store, capture, registry, own

LEMMA Invariance == Spec => []IInv
<1>1. IInv /\ [Next]_vars => IInv'
  BY MonitorInv, BeginInv, HandlerInv, RestartInv, StutterInv DEF Next
<1> QED BY InitInv, <1>1, PTL DEF Spec

\* A monitor that runs and was not told to stop stays registered, so that its
\* status is told right and a stop reaches it.
THEOREM MonitorsStayReachable == Spec => []NoOrphan
<1>1. IInv => NoOrphan
  BY DEF IInv, Registered, Flagged, Listed, NoOrphan, Alive
<1> QED BY Invariance, <1>1, PTL

\* Nothing is written to a session's record after its progress has come to 100.
THEOREM HundredIsLast == Spec => []HundredIsDone
<1>1. IInv => HundredIsDone
  BY DEF IInv
<1> QED BY Invariance, <1>1, PTL

-----------------------------------------------------------------------------
(* The switch of the LLM triage.                                           *)

\* The requests that will start a loop; the bound counts them.
Starters == {h \in Handlers : goal[h]}

Polling == \A c \in Pollers : caller[c] \in {"idle", "demote"}
Arming  == \A h \in Handlers : caller[h] = "arm" => h \in Starters
Aiming  == \A h \in Handlers : caller[h] \in {"name", "launch"} => target[h] # Switch!NoRun
SwitchTypes == Switch!TypeOK /\ armed + Cardinality(Starters) <= MaxRuns /\ Polling /\ Arming /\ Aiming

\* The thread of run r is there.
Lives(r)    == loop[r] \in {"begin", "turn", "work", "end"}
NoneLives   == \A r \in Switch!Runs : ~Lives(r)
All(places) == \A h \in Handlers : caller[h] \in places

OneRequest == \A g, h \in Handlers : caller[g] # "idle" /\ caller[h] # "idle" => g = h
\* The loop that lives is the one _state names, and goes by its own Event; while
\* a request clears, arms, names and launches there is none.
Named == \A r \in Switch!Runs : Lives(r) =>
  /\ stopEvent = r  /\ thread = r  /\ (loop[r] = "begin" \/ loopEvent[r] = r)
  /\ All({"idle", "raise", "pick", "join"})
Waits == \A h \in Handlers : caller[h] = "join" => target[h] = thread
\* Until a stop sets its Event it goes on, and "running" tells of it.
Untold == All({"idle", "raise"}) =>
  /\ \A r \in Switch!Runs : Lives(r) => r \notin set /\ loop[r] # "end"
  /\ running <=> \E r \in Switch!Runs : Lives(r)
\* The one about to be launched has an Event nobody set.
Fresh == \A h \in Handlers :
  /\ caller[h] \in {"name", "launch"} => running /\ target[h] = stopEvent /\ stopEvent \notin set
  /\ caller[h] = "launch" => thread = target[h]

Orderly   == OneRequest /\ Named /\ Waits /\ Untold /\ Fresh
SwitchInv == SwitchTypes /\ (calm => Orderly)

\* LlmTriage counts with its own instance of FiniteSets.
LEMMA SameFinite == ASSUME NEW S PROVE Switch!IsFiniteSet(S) <=> IsFiniteSet(S)
BY DEF Switch!IsFiniteSet, IsFiniteSet
LEMMA SameCount == ASSUME NEW S PROVE Switch!Cardinality(S) = Cardinality(S)
BY DEF Switch!Cardinality, Cardinality

LEMMA StartersAre == IsFiniteSet(Starters) /\ Cardinality(Starters) \in Nat
<1>1. IsFiniteSet(Handlers)
  BY SwitchSane, SameFinite DEF Switch!Sane
<1>2. Starters \in SUBSET Handlers
  BY DEF Starters
<1>3. IsFiniteSet(Starters)
  BY <1>1, <1>2, FS_Subset
<1> QED BY <1>3, FS_CardinalityType

LEMMA GoalSet ==
  ASSUME SwitchTypes, NEW h \in Handlers, NEW on \in BOOLEAN, goal' = [goal EXCEPT ![h] = on]
  PROVE  /\ goal' \in [Switch!Callers -> BOOLEAN]
         /\ \A g \in Handlers \ {h} : goal'[g] = goal[g]
         /\ goal'[h] = on
         /\ on => Cardinality(Starters') \in Nat /\ Cardinality(Starters') <= Cardinality(Starters) + 1
         /\ ~on => Cardinality(Starters') \in Nat /\ Cardinality(Starters') <= Cardinality(Starters)
         /\ ~on /\ goal[h] => Cardinality(Starters') = Cardinality(Starters) - 1
<1>1. goal \in [Switch!Callers -> BOOLEAN] /\ h \in Switch!Callers
  BY DEF SwitchTypes, Switch!TypeOK, Switch!Callers
<1>2. Starters' = IF on THEN Starters \cup {h} ELSE Starters \ {h}
  BY <1>1 DEF Starters, Switch!Callers
<1>3. Cardinality(Starters \cup {h}) = IF h \in Starters THEN Cardinality(Starters) ELSE Cardinality(Starters) + 1
  BY StartersAre, FS_AddElement
<1>4. Cardinality(Starters \ {h}) = IF h \in Starters THEN Cardinality(Starters) - 1 ELSE Cardinality(Starters)
  BY StartersAre, FS_RemoveElement
<1>5. IsFiniteSet(Starters \cup {h}) /\ IsFiniteSet(Starters \ {h})
  BY StartersAre, FS_AddElement, FS_RemoveElement
<1>6. Cardinality(Starters \cup {h}) \in Nat /\ Cardinality(Starters \ {h}) \in Nat
  BY <1>5, FS_CardinalityType
<1>7. goal[h] => h \in Starters
  BY DEF Starters
<1>8. /\ goal' \in [Switch!Callers -> BOOLEAN]
      /\ \A g \in Handlers \ {h} : goal'[g] = goal[g]
      /\ goal'[h] = on
  BY <1>1 DEF Switch!Callers
<1>9. CASE on
  BY <1>2, <1>3, <1>6, <1>8, <1>9, StartersAre
<1>10. CASE ~on
  BY <1>2, <1>4, <1>6, <1>7, <1>8, <1>10, StartersAre
<1> QED BY <1>9, <1>10

LEMMA CallerMoves ==
  ASSUME SwitchTypes, NEW c \in Switch!Callers, NEW at \in Switch!CallerAt, Switch!Go(c, at)
  PROVE  /\ caller' \in [Switch!Callers -> Switch!CallerAt]
         /\ caller'[c] = at  /\ \A d \in Switch!Callers \ {c} : caller'[d] = caller[d]
BY DEF SwitchTypes, Switch!TypeOK, Switch!Go

LEMMA LoopMoves ==
  ASSUME SwitchTypes, NEW r \in Switch!Runs, NEW from, NEW to \in {"turn", "work", "end", "dead"}, Switch!At(r, from, to)
  PROVE  /\ loop[r] = from  /\ loop' \in [Switch!Runs -> {"none", "begin", "turn", "work", "end", "dead"}]
         /\ loop'[r] = to  /\ \A q \in Switch!Runs \ {r} : loop'[q] = loop[q]
BY DEF SwitchTypes, Switch!TypeOK, Switch!At

LEMMA SwitchInit == Switch!Init => SwitchInv
<1> SUFFICES ASSUME Switch!Init PROVE SwitchInv
  OBVIOUS
<1>1. Starters = {}
  BY DEF Switch!Init, Starters, Switch!Callers
<1>2. Cardinality(Starters) = 0
  BY <1>1, FS_EmptySet
<1>3. MaxRuns \in Nat
  BY SwitchSane DEF Switch!Sane
<1>4. Switch!TypeOK
  <2>1. running = FALSE /\ stopEvent = 0 /\ thread = 0 /\ armed = 0 /\ set = {} /\ calm = TRUE
    BY DEF Switch!Init, Switch!NoRun
  <2>2. loop \in [Switch!Runs -> {"none", "begin", "turn", "work", "end", "dead"}]
    BY DEF Switch!Init
  <2>3. loopEvent \in [Switch!Runs -> 0 .. armed]
    BY <2>1 DEF Switch!Init, Switch!NoRun
  <2>4. caller \in [Switch!Callers -> Switch!CallerAt] /\ goal \in [Switch!Callers -> BOOLEAN]
    BY DEF Switch!Init, Switch!CallerAt
  <2>5. target \in [Switch!Callers -> 0 .. armed]
    BY <2>1 DEF Switch!Init, Switch!NoRun
  <2>6. stopEvent \in 0 .. armed /\ thread \in 0 .. armed /\ armed \in 0 .. MaxRuns /\ set \subseteq 1 .. armed
    BY <1>3, <2>1
  <2> QED BY <2>1, <2>2, <2>3, <2>4, <2>5, <2>6 DEF Switch!TypeOK
<1>5. SwitchTypes
  BY <1>2, <1>3, <1>4 DEF Switch!Init, SwitchTypes, Polling, Arming, Aiming, Switch!Callers
<1>6. Orderly
  BY DEF Switch!Init, Orderly, OneRequest, Named, Waits, Untold, Fresh, All, Lives, Switch!Callers
<1> QED BY <1>5, <1>6 DEF SwitchInv

\* Steps that leave the budget and the goals alone.
LEMMA TypesKept ==
  ASSUME SwitchTypes, UNCHANGED <<armed, goal>>, Switch!TypeOK', Polling', Arming', Aiming'
  PROVE  SwitchTypes'
<1>1. Starters' = Starters
  BY DEF Starters
<1> QED BY <1>1 DEF SwitchTypes

\* Steps of the requests.
LEMMA RequestTypes ==
  ASSUME SwitchTypes, NEW c \in Switch!Callers,
         Switch!Raise(c) \/ Switch!Pick(c) \/ Switch!Join(c) \/ Switch!Clear(c) \/ Switch!Name(c) \/ Switch!Launch(c) \/ Switch!Demote(c)
  PROVE  SwitchTypes'
<1> USE DEF Switch!CallerAt, Switch!state, Switch!loops
<1>1. Switch!TypeOK /\ Polling /\ Arming /\ Aiming
  BY DEF SwitchTypes
<1>2. Switch!Callers = Handlers \cup Pollers /\ Handlers \cap Pollers = {}
  BY SwitchSane DEF Switch!Callers, Switch!Sane
<1>3. c \in Pollers => caller[c] \in {"idle", "demote"}
  BY <1>1 DEF Polling
<1>4. CASE Switch!Raise(c)
  <2>1. c \in Handlers
    BY <1>2, <1>3, <1>4 DEF Switch!Raise
  <2>2. /\ caller' \in [Switch!Callers -> Switch!CallerAt]
        /\ caller'[c] = "pick"  /\ \A d \in Switch!Callers \ {c} : caller'[d] = caller[d]
    BY <1>4, CallerMoves DEF Switch!Raise
  <2>3. Switch!TypeOK'
    BY <1>1, <1>4, <2>2 DEF Switch!Raise, Switch!TypeOK, Switch!Raised, Switch!NoRun
  <2> QED BY <1>1, <1>2, <1>4, <2>1, <2>2, <2>3, TypesKept DEF Switch!Raise, Polling, Arming, Aiming, Starters
<1>5. CASE Switch!Pick(c)
  <2>1. c \in Handlers
    BY <1>2, <1>3, <1>5 DEF Switch!Pick
  <2>2. /\ caller' \in [Switch!Callers -> Switch!CallerAt]
        /\ caller'[c] \in {"join", "clear"}  /\ \A d \in Switch!Callers \ {c} : caller'[d] = caller[d]
    BY <1>5, CallerMoves DEF Switch!Pick
  <2>3. target' \in [Switch!Callers -> 0 .. armed] /\ \A d \in Switch!Callers \ {c} : target'[d] = target[d]
    BY <1>1, <1>5 DEF Switch!Pick, Switch!TypeOK
  <2>4. Switch!TypeOK'
    BY <1>1, <1>5, <2>2, <2>3 DEF Switch!Pick, Switch!TypeOK
  <2> QED BY <1>1, <1>2, <1>5, <2>1, <2>2, <2>3, <2>4, TypesKept DEF Switch!Pick, Polling, Arming, Aiming, Starters
<1>6. CASE Switch!Join(c)
  <2>1. c \in Handlers
    BY <1>2, <1>3, <1>6 DEF Switch!Join
  <2>2. /\ caller' \in [Switch!Callers -> Switch!CallerAt]
        /\ caller'[c] = "clear"  /\ \A d \in Switch!Callers \ {c} : caller'[d] = caller[d]
    BY <1>6, CallerMoves DEF Switch!Join
  <2>3. calm' \in BOOLEAN
    BY <1>6 DEF Switch!Join
  <2>4. Switch!TypeOK'
    BY <1>1, <1>6, <2>2, <2>3 DEF Switch!Join, Switch!TypeOK
  <2> QED BY <1>1, <1>2, <1>6, <2>1, <2>2, <2>4, TypesKept DEF Switch!Join, Polling, Arming, Aiming, Starters
<1>7. CASE Switch!Clear(c)
  <2>1. c \in Handlers
    BY <1>2, <1>3, <1>7 DEF Switch!Clear
  <2>2. /\ caller' \in [Switch!Callers -> Switch!CallerAt]
        /\ caller'[c] = (IF goal[c] THEN "arm" ELSE "idle")  /\ \A d \in Switch!Callers \ {c} : caller'[d] = caller[d]
    BY <1>7, CallerMoves DEF Switch!Clear
  <2>3. Switch!TypeOK'
    <3>1. 0 \in 0 .. armed
      BY <1>1 DEF Switch!TypeOK
    <3> QED BY <1>1, <1>7, <2>2, <3>1 DEF Switch!Clear, Switch!TypeOK, Switch!NoRun
  <2> QED BY <1>1, <1>2, <1>7, <2>1, <2>2, <2>3, TypesKept DEF Switch!Clear, Polling, Arming, Aiming, Starters
<1>8. CASE Switch!Name(c)
  <2>1. c \in Handlers
    BY <1>2, <1>3, <1>8 DEF Switch!Name
  <2>2. /\ caller' \in [Switch!Callers -> Switch!CallerAt]
        /\ caller'[c] = "launch"  /\ \A d \in Switch!Callers \ {c} : caller'[d] = caller[d]
    BY <1>8, CallerMoves DEF Switch!Name
  <2>3. target[c] \in 0 .. armed /\ target[c] # Switch!NoRun
    BY <1>1, <1>8, <1>2, <2>1 DEF Switch!Name, Switch!TypeOK, Aiming
  <2>4. Switch!TypeOK'
    BY <1>1, <1>8, <2>2, <2>3 DEF Switch!Name, Switch!TypeOK
  <2> QED BY <1>1, <1>2, <1>8, <2>1, <2>2, <2>3, <2>4, TypesKept DEF Switch!Name, Polling, Arming, Aiming, Starters
<1>9. CASE Switch!Launch(c)
  <2>1. c \in Handlers
    BY <1>2, <1>3, <1>9 DEF Switch!Launch
  <2>2. /\ caller' \in [Switch!Callers -> Switch!CallerAt]
        /\ caller'[c] = "idle"  /\ \A d \in Switch!Callers \ {c} : caller'[d] = caller[d]
    BY <1>9, CallerMoves DEF Switch!Launch
  <2>3. loop' \in [Switch!Runs -> {"none", "begin", "turn", "work", "end", "dead"}]
    BY <1>1, <1>9 DEF Switch!Launch, Switch!TypeOK
  <2>4. Switch!TypeOK'
    BY <1>1, <1>9, <2>2, <2>3 DEF Switch!Launch, Switch!TypeOK
  <2> QED BY <1>1, <1>2, <1>9, <2>1, <2>2, <2>4, TypesKept DEF Switch!Launch, Polling, Arming, Aiming, Starters
<1>10. CASE Switch!Demote(c)
  <2>2. /\ caller' \in [Switch!Callers -> Switch!CallerAt]
        /\ caller'[c] = "idle"  /\ \A d \in Switch!Callers \ {c} : caller'[d] = caller[d]
    BY <1>10, CallerMoves DEF Switch!Demote
  <2>3. Switch!TypeOK'
    BY <1>1, <1>10, <2>2 DEF Switch!Demote, Switch!TypeOK
  <2> QED BY <1>1, <1>2, <1>10, <2>2, <2>3, TypesKept DEF Switch!Demote, Polling, Arming, Aiming, Starters
<1> QED BY <1>4, <1>5, <1>6, <1>7, <1>8, <1>9, <1>10

LEMMA Budgeted ==
  ASSUME NEW a \in Nat, NEW k \in Nat, NEW j \in Nat, NEW m \in Nat
  PROVE  /\ a + k < m /\ j <= k + 1 => a + j <= m
         /\ a + k <= m /\ j <= k => a + j <= m
         /\ a + k <= m /\ j = k - 1 => (a + 1) + j <= m /\ a + 1 \in 0 .. m
OBVIOUS

LEMMA ArmTypes == ASSUME SwitchTypes, NEW c \in Switch!Callers, Switch!Arm(c) PROVE SwitchTypes'
<1> USE DEF Switch!loops
<1>1. Switch!TypeOK /\ Polling /\ Arming /\ Aiming
  BY DEF SwitchTypes
<1>2. Switch!Callers = Handlers \cup Pollers /\ Handlers \cap Pollers = {}
  BY SwitchSane DEF Switch!Callers, Switch!Sane
<1>3. c \in Handlers /\ goal[c]
  BY <1>1, <1>2 DEF Switch!Arm, Polling, Arming, Starters
<1>4. goal' = [goal EXCEPT ![c] = FALSE]
  BY DEF Switch!Arm
<1>5. /\ goal' \in [Switch!Callers -> BOOLEAN]  /\ \A g \in Handlers \ {c} : goal'[g] = goal[g]
      /\ Cardinality(Starters') \in Nat  /\ Cardinality(Starters') = Cardinality(Starters) - 1
  BY <1>3, <1>4, GoalSet
<1>6. /\ caller' \in [Switch!Callers -> Switch!CallerAt]
      /\ caller'[c] = "name"  /\ \A d \in Switch!Callers \ {c} : caller'[d] = caller[d]
  BY CallerMoves DEF Switch!Arm, Switch!CallerAt
<1>7. armed \in Nat /\ MaxRuns \in Nat
  BY <1>1, SwitchSane DEF Switch!TypeOK, Switch!Sane
<1>8. armed' = armed + 1 /\ armed' \in 0 .. MaxRuns /\ armed' + Cardinality(Starters') <= MaxRuns
  <2>1. armed' = armed + 1
    BY DEF Switch!Arm
  <2>2. armed + Cardinality(Starters) <= MaxRuns
    BY DEF SwitchTypes
  <2>3. (armed + 1) + Cardinality(Starters') <= MaxRuns /\ armed + 1 \in 0 .. MaxRuns
    BY <1>5, <1>7, <2>2, StartersAre, Budgeted
  <2> QED BY <2>1, <2>3
<1>9. target' \in [Switch!Callers -> 0 .. armed'] /\ target'[c] = armed + 1 /\ \A d \in Switch!Callers \ {c} : target'[d] = target[d]
  BY <1>1, <1>7 DEF Switch!Arm, Switch!TypeOK
<1>10. Switch!TypeOK'
  <2>1. stopEvent' \in 0 .. armed' /\ thread' \in 0 .. armed' /\ set' \subseteq 1 .. armed' /\ running' \in BOOLEAN
    BY <1>1, <1>7 DEF Switch!Arm, Switch!TypeOK
  <2>2. loopEvent' \in [Switch!Runs -> 0 .. armed'] /\ UNCHANGED <<loop, calm>>
    BY <1>1, <1>7 DEF Switch!Arm, Switch!TypeOK
  <2> QED BY <1>1, <1>5, <1>6, <1>8, <1>9, <2>1, <2>2 DEF Switch!TypeOK
<1>11. Polling'
  BY <1>1, <1>2, <1>3, <1>6 DEF Polling
<1>12. Arming'
  BY <1>1, <1>2, <1>5, <1>6 DEF Arming, Starters
<1>13. Aiming'
  BY <1>1, <1>2, <1>6, <1>7, <1>9 DEF Aiming, Switch!NoRun
<1> QED BY <1>8, <1>10, <1>11, <1>12, <1>13 DEF SwitchTypes

LEMMA AskTypes ==
  ASSUME SwitchTypes, NEW h \in Handlers, Switch!Enable(h) \/ Switch!Disable(h)
  PROVE  SwitchTypes'
<1> USE DEF Switch!loops, Switch!state
<1>1. Switch!TypeOK /\ Polling /\ Arming /\ Aiming
  BY DEF SwitchTypes
<1>2. Switch!Callers = Handlers \cup Pollers /\ Handlers \cap Pollers = {}
  BY SwitchSane DEF Switch!Callers, Switch!Sane
<1>3. armed \in Nat /\ MaxRuns \in Nat
  BY <1>1, SwitchSane DEF Switch!TypeOK, Switch!Sane
<1>4. UNCHANGED <<running, stopEvent, thread, armed, set, loop, loopEvent, target>>
  BY DEF Switch!Enable, Switch!Disable
<1>5. calm' \in BOOLEAN
  BY DEF Switch!Enable, Switch!Disable, Switch!Ask
<1>6. CASE Switch!Enable(h)
  <2>1. goal' = [goal EXCEPT ![h] = TRUE]
    BY <1>6 DEF Switch!Enable, Switch!Ask
  <2>2. /\ goal' \in [Switch!Callers -> BOOLEAN]  /\ goal'[h]  /\ \A g \in Handlers \ {h} : goal'[g] = goal[g]
        /\ Cardinality(Starters') \in Nat  /\ Cardinality(Starters') <= Cardinality(Starters) + 1
    BY <2>1, GoalSet
  <2>3. armed + Cardinality(Starters) < MaxRuns
    BY <1>6, SameCount DEF Switch!Enable, Switch!Room, Starters
  <2>4. armed' + Cardinality(Starters') <= MaxRuns
    BY <1>3, <1>4, <2>2, <2>3, StartersAre, Budgeted
  <2>5. /\ caller' \in [Switch!Callers -> Switch!CallerAt]
        /\ caller'[h] \in {"raise", "arm"}  /\ \A d \in Switch!Callers \ {h} : caller'[d] = caller[d]
    BY <1>2, <1>6, CallerMoves DEF Switch!Enable, Switch!CallerAt
  <2>6. Switch!TypeOK'
    BY <1>1, <1>4, <1>5, <2>2, <2>5 DEF Switch!TypeOK
  <2>7. Polling' /\ Aiming'
    BY <1>1, <1>2, <1>4, <2>5 DEF Polling, Aiming
  <2>8. Arming'
    BY <1>1, <1>2, <2>2, <2>5 DEF Arming, Starters
  <2> QED BY <2>4, <2>6, <2>7, <2>8 DEF SwitchTypes
<1>7. CASE Switch!Disable(h)
  <2>1. goal' = [goal EXCEPT ![h] = FALSE]
    BY <1>7 DEF Switch!Disable, Switch!Ask
  <2>2. /\ goal' \in [Switch!Callers -> BOOLEAN]  /\ \A g \in Handlers \ {h} : goal'[g] = goal[g]
        /\ Cardinality(Starters') \in Nat  /\ Cardinality(Starters') <= Cardinality(Starters)
    BY <2>1, GoalSet
  <2>3. armed + Cardinality(Starters) <= MaxRuns
    BY DEF SwitchTypes
  <2>4. armed' + Cardinality(Starters') <= MaxRuns
    BY <1>3, <1>4, <2>2, <2>3, StartersAre, Budgeted
  <2>5. /\ caller' \in [Switch!Callers -> Switch!CallerAt]
        /\ caller'[h] = "raise"  /\ \A d \in Switch!Callers \ {h} : caller'[d] = caller[d]
    BY <1>2, <1>7, CallerMoves DEF Switch!Disable, Switch!CallerAt
  <2>6. Switch!TypeOK'
    BY <1>1, <1>4, <1>5, <2>2, <2>5 DEF Switch!TypeOK
  <2>7. Polling' /\ Aiming'
    BY <1>1, <1>2, <1>4, <2>5 DEF Polling, Aiming
  <2>8. Arming'
    BY <1>1, <1>2, <2>2, <2>5 DEF Arming, Starters
  <2> QED BY <2>4, <2>6, <2>7, <2>8 DEF SwitchTypes
<1> QED BY <1>6, <1>7

LEMMA PollTypes == ASSUME SwitchTypes, NEW c \in Pollers, Switch!Poll(c) PROVE SwitchTypes'
<1> USE DEF Switch!loops, Switch!state
<1>1. Switch!TypeOK /\ Polling /\ Arming /\ Aiming
  BY DEF SwitchTypes
<1>2. Switch!Callers = Handlers \cup Pollers /\ Handlers \cap Pollers = {}
  BY SwitchSane DEF Switch!Callers, Switch!Sane
<1>3. /\ caller' \in [Switch!Callers -> Switch!CallerAt]
      /\ caller'[c] = "demote"  /\ \A d \in Switch!Callers \ {c} : caller'[d] = caller[d]
  BY <1>2, CallerMoves DEF Switch!Poll, Switch!CallerAt
<1>4. Switch!TypeOK'
  BY <1>1, <1>3 DEF Switch!Poll, Switch!TypeOK
<1> QED BY <1>1, <1>2, <1>3, <1>4, TypesKept DEF Switch!Poll, Polling, Arming, Aiming, Starters

LEMMA LoopTypes == ASSUME SwitchTypes, NEW r \in Switch!Runs, Switch!LoopStep(r) PROVE SwitchTypes'
<1> USE DEF Switch!loops, Switch!state
<1>1. Switch!TypeOK /\ Polling /\ Arming /\ Aiming
  BY DEF SwitchTypes
<1>2. UNCHANGED <<stopEvent, thread, armed, set, caller, goal, target>>
  BY DEF Switch!LoopStep, Switch!Begin, Switch!SetupFails, Switch!Turn, Switch!Work, Switch!End
<1>3. loop' \in [Switch!Runs -> {"none", "begin", "turn", "work", "end", "dead"}]
  BY LoopMoves DEF Switch!LoopStep, Switch!Begin, Switch!SetupFails, Switch!Turn, Switch!Work, Switch!End
<1>4. loopEvent' \in [Switch!Runs -> 0 .. armed]
  BY <1>1 DEF Switch!LoopStep, Switch!Begin, Switch!SetupFails, Switch!Turn, Switch!Work, Switch!End, Switch!TypeOK
<1>5. running' \in BOOLEAN /\ calm' \in BOOLEAN
  BY <1>1 DEF Switch!LoopStep, Switch!Begin, Switch!SetupFails, Switch!Turn, Switch!Work, Switch!End, Switch!TypeOK
<1>6. Switch!TypeOK'
  BY <1>1, <1>2, <1>3, <1>4, <1>5 DEF Switch!TypeOK
<1>7. Polling' /\ Arming' /\ Aiming'
  BY <1>1, <1>2 DEF Polling, Arming, Aiming, Starters
<1> QED BY <1>2, <1>6, <1>7, TypesKept

\* What Orderly says while c is the only request under way, if any.
OrderlyFor(c) ==
  /\ \A h \in Handlers \ {c} : caller[h] = "idle"
  /\ \A r \in Switch!Runs : Lives(r) =>
       /\ stopEvent = r  /\ thread = r  /\ (loop[r] = "begin" \/ loopEvent[r] = r)
       /\ caller[c] \in {"idle", "raise", "pick", "join"}
  /\ caller[c] = "join" => target[c] = thread
  /\ caller[c] \in {"idle", "raise"} =>
       /\ \A r \in Switch!Runs : Lives(r) => r \notin set /\ loop[r] # "end"
       /\ running <=> \E r \in Switch!Runs : Lives(r)
  /\ caller[c] \in {"name", "launch"} => running /\ target[c] = stopEvent /\ stopEvent \notin set
  /\ caller[c] = "launch" => thread = target[c]

LEMMA OneAtATime == ASSUME NEW c \in Handlers, OrderlyFor(c) PROVE Orderly
<1>1. OneRequest
  BY DEF OrderlyFor, OneRequest
<1>2. Named
  BY DEF OrderlyFor, Named, All
<1>3. Waits
  BY DEF OrderlyFor, Waits
<1>4. Untold
  BY DEF OrderlyFor, Untold, All
<1>5. Fresh
  BY DEF OrderlyFor, Fresh
<1> QED BY <1>1, <1>2, <1>3, <1>4, <1>5 DEF Orderly

LEMMA OneAtATimeThen == ASSUME NEW c \in Handlers, OrderlyFor(c)' PROVE Orderly'
<1>1. OneRequest'
  BY DEF OrderlyFor, OneRequest
<1>2. Named'
  BY DEF OrderlyFor, Named, All
<1>3. Waits'
  BY DEF OrderlyFor, Waits
<1>4. Untold'
  BY DEF OrderlyFor, Untold, All
<1>5. Fresh'
  BY DEF OrderlyFor, Fresh
<1> QED BY <1>1, <1>2, <1>3, <1>4, <1>5 DEF Orderly

LEMMA OrderlyOne ==
  ASSUME Orderly, NEW c \in Handlers, caller[c] # "idle" \/ All({"idle"})
  PROVE  OrderlyFor(c)
<1>1. \A h \in Handlers \ {c} : caller[h] = "idle"
  BY DEF Orderly, OneRequest, All
<1> QED BY <1>1 DEF Orderly, Named, Waits, Untold, Fresh, All, OrderlyFor

LEMMA NoThreadNoLoop == ASSUME Orderly, ~Switch!Alive(thread) PROVE NoneLives
BY DEF Orderly, Named, NoneLives, Lives, Switch!Alive, Switch!Runs, Switch!NoRun

LEMMA AskOrderly ==
  ASSUME SwitchTypes, Orderly, NEW h \in Handlers, Switch!Enable(h) \/ Switch!Disable(h), calm'
  PROVE  Orderly'
<1>1. Switch!Callers = Handlers \cup Pollers
  BY DEF Switch!Callers
<1>2. OrderlyFor(h) /\ caller[h] = "idle"
  BY <1>1, OrderlyOne DEF Switch!Enable, Switch!Disable, Switch!Ask, All
<1>3. UNCHANGED <<running, stopEvent, thread, armed, set, loop, loopEvent, target>>
  BY DEF Switch!Enable, Switch!Disable, Switch!state, Switch!loops
<1>4. /\ caller'[h] \in {"raise", "arm"}  /\ \A d \in Handlers \ {h} : caller'[d] = caller[d]
      /\ caller'[h] = "arm" => ~running
  BY <1>1, CallerMoves DEF Switch!Enable, Switch!Disable, Switch!StopsFirst, Switch!CallerAt
<1>5. caller'[h] = "arm" => NoneLives
  BY <1>2, <1>4 DEF OrderlyFor, NoneLives
<1>6. \A r \in Switch!Runs : Lives(r)' <=> Lives(r)
  BY <1>3 DEF Lives
<1>7. OrderlyFor(h)'
  BY <1>2, <1>3, <1>4, <1>5, <1>6 DEF OrderlyFor, NoneLives
<1> QED BY <1>7, OneAtATimeThen

\* The steps of a request, each under the form for one.
LEMMA RequestOrderly ==
  ASSUME SwitchTypes, Orderly, NEW c \in Handlers, calm',
         \/ Switch!Raise(c) \/ Switch!Pick(c) \/ Switch!Join(c) \/ Switch!Clear(c)
         \/ Switch!Arm(c) \/ Switch!Name(c) \/ Switch!Launch(c)
  PROVE  Orderly'
<1> USE DEF Switch!CallerAt, Switch!state, Switch!loops
<1>1. c \in Switch!Callers /\ Switch!TypeOK
  BY DEF Switch!Callers, SwitchTypes
<1>2. OrderlyFor(c)
  BY OrderlyOne DEF Switch!Raise, Switch!Pick, Switch!Join, Switch!Clear, Switch!Arm, Switch!Name, Switch!Launch
<1>3. SUFFICES OrderlyFor(c)'
  BY OneAtATimeThen
<1>4. \A d \in Handlers \ {c} : caller'[d] = "idle"
  <2>1. \A d \in Handlers \ {c} : caller'[d] = caller[d]
    BY <1>1 DEF Switch!TypeOK, Switch!Go, Switch!Callers, Switch!Raise, Switch!Pick, Switch!Join, Switch!Clear, Switch!Arm, Switch!Name, Switch!Launch
  <2> QED BY <1>2, <2>1 DEF OrderlyFor
<1>5. CASE Switch!Raise(c)
  <2>1. caller[c] = "raise" /\ caller'[c] = "pick"
    BY <1>1, <1>5, CallerMoves DEF Switch!Raise
  <2> QED BY <1>2, <1>4, <1>5, <2>1 DEF Switch!Raise, OrderlyFor, Lives
<1>6. CASE Switch!Pick(c)
  <2>1. caller[c] = "pick" /\ caller'[c] = IF Switch!Alive(thread) THEN "join" ELSE "clear"
    BY <1>1, <1>6, CallerMoves DEF Switch!Pick
  <2>2. target'[c] = thread
    BY <1>1, <1>6 DEF Switch!Pick, Switch!TypeOK
  <2>3. Switch!Alive(thread) \/ NoneLives
    BY NoThreadNoLoop
  <2> QED BY <1>2, <1>4, <1>6, <2>1, <2>2, <2>3 DEF Switch!Pick, OrderlyFor, Lives, NoneLives
<1>7. CASE Switch!Join(c)
  <2>1. caller[c] = "join" /\ caller'[c] = "clear"
    BY <1>1, <1>7, CallerMoves DEF Switch!Join
  <2>2. ~Switch!Alive(thread)
    BY <1>2, <1>7, <2>1 DEF Switch!Join, Switch!GivesUp, OrderlyFor
  <2>3. NoneLives
    BY <2>2, NoThreadNoLoop
  <2> QED BY <1>2, <1>4, <1>7, <2>1, <2>3 DEF Switch!Join, OrderlyFor, Lives, NoneLives
<1>8. CASE Switch!Clear(c)
  <2>1. caller[c] = "clear" /\ caller'[c] \in {"arm", "idle"}
    BY <1>1, <1>8, CallerMoves DEF Switch!Clear
  <2>2. NoneLives
    BY <1>2, <2>1 DEF OrderlyFor, NoneLives
  <2> QED BY <1>2, <1>4, <1>8, <2>1, <2>2 DEF Switch!Clear, OrderlyFor, Lives, NoneLives
<1>9. CASE Switch!Arm(c)
  <2>1. caller[c] = "arm" /\ caller'[c] = "name"
    BY <1>1, <1>9, CallerMoves DEF Switch!Arm
  <2>2. NoneLives
    BY <1>2, <2>1 DEF OrderlyFor, NoneLives
  <2>3. target'[c] = stopEvent' /\ stopEvent' = armed + 1 /\ running'
    BY <1>1, <1>9 DEF Switch!Arm, Switch!TypeOK
  <2>4. stopEvent' \notin set'
    BY <1>1, <1>9, <2>3 DEF Switch!Arm, Switch!TypeOK
  <2> QED BY <1>2, <1>4, <1>9, <2>1, <2>2, <2>3, <2>4 DEF Switch!Arm, OrderlyFor, Lives, NoneLives
<1>10. CASE Switch!Name(c)
  <2>1. caller[c] = "name" /\ caller'[c] = "launch"
    BY <1>1, <1>10, CallerMoves DEF Switch!Name
  <2>2. NoneLives
    BY <1>2, <2>1 DEF OrderlyFor, NoneLives
  <2> QED BY <1>2, <1>4, <1>10, <2>1, <2>2 DEF Switch!Name, OrderlyFor, Lives, NoneLives
<1>11. CASE Switch!Launch(c)
  <2>1. caller[c] = "launch" /\ caller'[c] = "idle"
    BY <1>1, <1>11, CallerMoves DEF Switch!Launch
  <2>2. NoneLives
    BY <1>2, <2>1 DEF OrderlyFor, NoneLives
  <2>3. target[c] \in Switch!Runs
    BY <1>1, <2>1, SwitchSane DEF Switch!Sane, Switch!TypeOK, SwitchTypes, Aiming, Switch!Runs, Switch!NoRun
  <2>4. loop'[target[c]] = "begin" /\ \A r \in Switch!Runs \ {target[c]} : loop'[r] = loop[r]
    BY <1>1, <1>11, <2>3 DEF Switch!Launch, Switch!TypeOK
  <2>5. \A r \in Switch!Runs : Lives(r)' <=> r = target[c]
    BY <2>2, <2>3, <2>4 DEF NoneLives, Lives
  <2>6. UNCHANGED <<running, stopEvent, thread, set, loopEvent, target>>
    BY <1>11 DEF Switch!Launch
  <2>7. running /\ target[c] = stopEvent /\ stopEvent \notin set /\ thread = target[c]
    BY <1>2, <2>1 DEF OrderlyFor
  <2> QED BY <1>4, <2>1, <2>3, <2>4, <2>5, <2>6, <2>7 DEF OrderlyFor
<1> QED BY <1>5, <1>6, <1>7, <1>8, <1>9, <1>10, <1>11

LEMMA PollOrderly == ASSUME SwitchTypes, Orderly, NEW c \in Pollers, Switch!Poll(c) PROVE Orderly'
<1>1. Switch!Callers = Handlers \cup Pollers /\ Handlers \cap Pollers = {}
  BY SwitchSane DEF Switch!Callers, Switch!Sane
<1>2. \A h \in Handlers : caller'[h] = caller[h]
  BY <1>1 DEF Switch!Poll, Switch!Go, SwitchTypes, Switch!TypeOK
<1>3. UNCHANGED <<running, stopEvent, thread, set, loop, loopEvent, target>>
  BY DEF Switch!Poll, Switch!state, Switch!loops
<1>4. OneRequest'
  BY <1>2 DEF Orderly, OneRequest
<1>5. Named' /\ Waits' /\ Untold' /\ Fresh'
  BY <1>2, <1>3 DEF Orderly, Named, Waits, Untold, Fresh, Lives, All
<1> QED BY <1>4, <1>5 DEF Orderly

LEMMA LoopOrderly ==
  ASSUME SwitchTypes, Orderly, NEW r \in Switch!Runs, Switch!LoopStep(r), calm'
  PROVE  Orderly'
<1> USE DEF Switch!state, Switch!loops
<1>1. UNCHANGED <<stopEvent, thread, set, caller, target>>
  BY DEF Switch!LoopStep, Switch!Begin, Switch!SetupFails, Switch!Turn, Switch!Work, Switch!End
<1>2. \A h \in Handlers : caller'[h] = caller[h]
  BY <1>1
<1>3. Lives(r)
  BY LoopMoves DEF Switch!LoopStep, Switch!Begin, Switch!SetupFails, Switch!Turn, Switch!Work, Switch!End, Switch!At, Lives
<1>4. stopEvent = r /\ thread = r /\ (loop[r] = "begin" \/ loopEvent[r] = r) /\ All({"idle", "raise", "pick", "join"})
  BY <1>3 DEF Orderly, Named
<1>5. \A q \in Switch!Runs \ {r} : ~Lives(q) /\ ~Lives(q)'
  <2>1. \A q \in Switch!Runs \ {r} : loop'[q] = loop[q]
    BY LoopMoves DEF Switch!LoopStep, Switch!Begin, Switch!SetupFails, Switch!Turn, Switch!Work, Switch!End
  <2> QED BY <1>4, <2>1 DEF Orderly, Named, Lives
<1>6. OneRequest' /\ Waits'
  BY <1>1 DEF Orderly, OneRequest, Waits
<1>7. CASE Switch!Begin(r)
  <2>1. loop'[r] = "turn"
    BY <1>4, <1>7, LoopMoves DEF Switch!Begin, Switch!Runs, Switch!NoRun
  <2>2. loopEvent'[r] = r /\ UNCHANGED running
    BY <1>4, <1>7 DEF Switch!Begin, SwitchTypes, Switch!TypeOK
  <2>3. Named'
    BY <1>1, <1>4, <1>5, <2>2 DEF Named, All
  <2>4. Untold' /\ Fresh'
    BY <1>1, <1>3, <1>5, <2>1, <2>2 DEF Orderly, Untold, Fresh, All, Lives
  <2> QED BY <1>6, <2>3, <2>4 DEF Orderly
<1>8. CASE Switch!SetupFails(r)
  BY <1>8 DEF Switch!SetupFails
<1>9. CASE Switch!Turn(r) \/ Switch!Work(r)
  <2>1. loop'[r] \in {"turn", "work", "end"} /\ loopEvent[r] = r /\ loop[r] \in {"turn", "work"}
    <3>1. CASE Switch!Turn(r)
      <4>1. loop[r] = "turn" /\ loop'[r] \in {"work", "end"}
        BY <3>1, LoopMoves DEF Switch!Turn
      <4> QED BY <1>4, <4>1
    <3>2. CASE Switch!Work(r)
      <4>1. loop[r] = "work" /\ loop'[r] = "turn"
        BY <3>2, LoopMoves DEF Switch!Work
      <4> QED BY <1>4, <4>1
    <3> QED BY <1>9, <3>1, <3>2
  <2>2. loop'[r] = "end" => r \in set
    BY <1>9, <2>1, LoopMoves DEF Switch!Turn, Switch!Work, Switch!ToldToStop
  <2>3. UNCHANGED <<running, loopEvent>>
    BY <1>9 DEF Switch!Turn, Switch!Work
  <2>4. Named'
    BY <1>1, <1>4, <1>5, <2>1, <2>3 DEF Named, All
  <2>5. Untold' /\ Fresh'
    BY <1>1, <1>3, <1>5, <2>1, <2>2, <2>3 DEF Orderly, Untold, Fresh, All, Lives
  <2> QED BY <1>6, <2>4, <2>5 DEF Orderly
<1>10. CASE Switch!End(r)
  <2>1. loop[r] = "end" /\ loop'[r] = "dead"
    BY <1>10, LoopMoves DEF Switch!End
  <2>2. ~All({"idle", "raise"})
    BY <1>3, <2>1 DEF Orderly, Untold
  <2>3. Named'
    BY <1>5, <2>1 DEF Named, Lives
  <2>4. Untold' /\ Fresh'
    BY <1>1, <1>4, <2>2 DEF Untold, Fresh, All
  <2> QED BY <1>6, <2>3, <2>4 DEF Orderly
<1> QED BY <1>7, <1>8, <1>9, <1>10 DEF Switch!LoopStep

LEMMA SwitchNext == ASSUME SwitchInv, [Switch!Next]_(Switch!vars) PROVE SwitchInv'
<1>1. Switch!Callers = Handlers \cup Pollers
  BY DEF Switch!Callers
<1>2. SwitchTypes
  BY DEF SwitchInv
<1>3. ASSUME NEW h \in Handlers, Switch!Enable(h) \/ Switch!Disable(h) PROVE SwitchInv'
  <2>1. calm' => calm
    BY <1>3 DEF Switch!Enable, Switch!Disable, Switch!Ask
  <2> QED BY <1>2, <1>3, <2>1, AskTypes, AskOrderly DEF SwitchInv
<1>4. ASSUME NEW c \in Pollers, Switch!Poll(c) PROVE SwitchInv'
  <2>1. calm' = calm
    BY <1>4 DEF Switch!Poll
  <2> QED BY <1>2, <1>4, <2>1, PollTypes, PollOrderly DEF SwitchInv
<1>5. ASSUME NEW c \in Switch!Callers, Switch!Demote(c) PROVE SwitchInv'
  <2>1. ~calm'
    BY <1>5 DEF Switch!Demote
  <2> QED BY <1>2, <1>5, <2>1, RequestTypes DEF SwitchInv
<1>6. ASSUME NEW c \in Switch!Callers,
             \/ Switch!Raise(c) \/ Switch!Pick(c) \/ Switch!Join(c) \/ Switch!Clear(c)
             \/ Switch!Arm(c) \/ Switch!Name(c) \/ Switch!Launch(c)
      PROVE  SwitchInv'
  <2>1. c \in Handlers
    BY <1>1, <1>2, <1>6 DEF SwitchTypes, Polling, Switch!Raise, Switch!Pick, Switch!Join, Switch!Clear, Switch!Arm,
       Switch!Name, Switch!Launch
  <2>2. calm' => calm
    BY <1>6 DEF Switch!Raise, Switch!Pick, Switch!Join, Switch!Clear, Switch!Arm, Switch!Name, Switch!Launch
  <2>3. SwitchTypes'
    BY <1>2, <1>6, RequestTypes, ArmTypes
  <2> QED BY <1>2, <1>6, <2>1, <2>2, <2>3, RequestOrderly DEF SwitchInv
<1>7. ASSUME NEW r \in Switch!Runs, Switch!LoopStep(r) PROVE SwitchInv'
  <2>1. calm' => calm
    BY <1>7 DEF Switch!LoopStep, Switch!Begin, Switch!SetupFails, Switch!Turn, Switch!Work, Switch!End
  <2> QED BY <1>2, <1>7, <2>1, LoopTypes, LoopOrderly DEF SwitchInv
<1>8. CASE UNCHANGED Switch!vars
  <2> USE <1>8 DEF Switch!vars, Switch!state, Switch!loops
  <2>1. Switch!TypeOK'
    BY <1>2 DEF SwitchTypes, Switch!TypeOK
  <2>2. SwitchTypes'
    BY <1>2, <2>1, TypesKept DEF SwitchTypes, Polling, Arming, Aiming, Starters
  <2>3. calm' => Orderly'
    BY DEF SwitchInv, Orderly, OneRequest, Named, Waits, Untold, Fresh, Lives, All
  <2> QED BY <2>2, <2>3 DEF SwitchInv
<1> QED BY <1>3, <1>4, <1>5, <1>6, <1>7, <1>8 DEF Switch!Next, Switch!CallerStep

LEMMA AtMostOne == ASSUME NEW S, NEW x, S \subseteq {x} PROVE Cardinality(S) <= 1
<1>1. S = {} \/ S = {x}
  OBVIOUS
<1>2. Cardinality({}) = 0 /\ Cardinality({x}) = 1
  BY FS_EmptySet, FS_Singleton
<1> QED BY <1>1, <1>2

\* As long as requests take turns, joins are waited for and loops set up, the
\* switch leaves one loop at a time, and "running" tells of it: for every number
\* of request threads and of loops started.
THEOREM OneTriageLoop == Switch!Spec => []OneLoop
<1>1. SwitchInv => OneLoop
  <2> SUFFICES ASSUME SwitchInv PROVE OneLoop
    OBVIOUS
  <2>1. Switch!TypeOK
    BY DEF SwitchInv, SwitchTypes
  <2> DEFINE on == {r \in Switch!Runs : Switch!GoesOn(r)}
  <2>2. \A r \in Switch!Runs : Switch!GoesOn(r) => Lives(r)
    BY DEF Switch!GoesOn, Lives
  <2>3. ASSUME calm PROVE Switch!Cardinality(on) <= 1
    <3>1. on \subseteq {thread}
      BY <2>2, <2>3 DEF SwitchInv, Orderly, Named
    <3> HIDE DEF on
    <3> QED BY <3>1, AtMostOne, SameCount
  <2>4. ASSUME calm, Switch!Quiet PROVE running <=> \E r \in Switch!Runs : Switch!GoesOn(r)
    <3>1. All({"idle", "raise"})
      BY <2>4 DEF Switch!Quiet, All
    <3>2. /\ \A r \in Switch!Runs : Lives(r) => r \notin set /\ loop[r] # "end"
          /\ running <=> \E r \in Switch!Runs : Lives(r)
      BY <2>4, <3>1 DEF SwitchInv, Orderly, Untold
    <3>3. \A r \in Switch!Runs : Lives(r) => Switch!GoesBy(r) = r
      BY <2>4 DEF SwitchInv, Orderly, Named, Switch!GoesBy
    <3>4. \A r \in Switch!Runs : Lives(r) <=> Switch!GoesOn(r)
      BY <2>2, <3>2, <3>3 DEF Switch!GoesOn, Switch!Runs, Switch!NoRun, Lives
    <3> QED BY <3>2, <3>4
  <2> QED BY <2>1, <2>3, <2>4 DEF OneLoop, Switch!OneLoop, Switch!RunningIsTrue
<1>2. SwitchInv /\ [Switch!Next]_(Switch!vars) => SwitchInv'
  BY SwitchNext
<1> QED BY SwitchInit, <1>1, <1>2, PTL DEF Switch!Spec
=============================================================================

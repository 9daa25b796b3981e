----------------------------- MODULE LlmTriage -----------------------------
(***************************************************************************)
(* The switch of live LLM triage (live_packet_llm.py): handlers that turn  *)
(* a triage loop on and off, and the loops, over one dictionary _state     *)
(* that nobody locks.  Each run of the loop has its own stop Event, which  *)
(* the loop looks up in _state once it runs; a stop joins for 8 s, and a   *)
(* turn of the loop may spend longer on its LLM calls.                     *)
(*                                                                         *)
(* A run is its number.  What a turn does with the packets is their rows   *)
(* (TriageRegistry) and alerts (LiveDetection).  The session, the counters *)
(* and the status cache are left out: no decision of a loop depends on     *)
(* them.                                                                   *)
(***************************************************************************)
EXTENDS Integers, FiniteSets

CONSTANTS Handlers,      \* request threads that switch
          Pollers,       \* request threads that ask for the status
          MaxRuns        \* bound: loops ever started

Sane == MaxRuns \in Nat /\ IsFiniteSet(Handlers) /\ Handlers \cap Pollers = {}

Runs  == 1 .. MaxRuns
NoRun == 0

VARIABLES
  running, stopEvent, thread,  \* of _state: "running", and the run that "stop_event" and "thread" are of
  armed,     \* runs whose Event was made so far
  set,       \* runs whose Event is set
  loop,      \* loop[r]: where the thread of run r is
  event,     \* event[r]: the run whose Event that thread goes by
  caller,    \* caller[c]: where request thread c is
  goal,      \* goal[c]: after its stop, does it start a loop?
  target,    \* target[c]: the run it starts, or the one it joins
  calm       \* history: requests took turns, no join gave up on a loop, no status request
             \* took "running" back, and every loop was set up

state == <<running, stopEvent, thread>>
loops == <<loop, event>>
vars  == <<state, armed, set, loops, caller, goal, target, calm>>

Callers == Handlers \cup Pollers

Alive(r) == r # NoRun /\ loop[r] \in {"begin", "turn", "work", "end"}

Init ==
  /\ running = FALSE  /\ stopEvent = NoRun  /\ thread = NoRun
  /\ armed = 0  /\ set = {}
  /\ loop = [r \in Runs |-> "none"]  /\ event = [r \in Runs |-> NoRun]
  /\ caller = [c \in Callers |-> "idle"]  /\ goal = [c \in Callers |-> FALSE]
  /\ target = [c \in Callers |-> NoRun]
  /\ calm = TRUE

Go(c, at) == caller' = [caller EXCEPT ![c] = at]

-----------------------------------------------------------------------------
(* set_llm_packet_analysis and live_stop.  A request to start finds a      *)
(* session and a key, or changes nothing.                                  *)

\* Bound: no request that would start more than MaxRuns loops.
Room == armed + Cardinality({h \in Handlers : goal[h]}) < MaxRuns

Ask(h, on) ==
  /\ h \in Handlers  /\ caller[h] = "idle"
  /\ goal' = [goal EXCEPT ![h] = on]
  /\ calm' = (calm /\ \A c \in Callers : caller[c] = "idle")

StopsNothing == FALSE                                  \* mutant: starts without stopping
StopsFirst == running
Enable(h) ==
  /\ Ask(h, TRUE)  /\ Room
  /\ Go(h, IF StopsFirst THEN "raise" ELSE "arm")
  /\ UNCHANGED <<state, armed, set, loops, target>>
Disable(h) ==
  /\ Ask(h, FALSE)
  /\ Go(h, "raise")
  /\ UNCHANGED <<state, armed, set, loops, target>>

(* stop_llm_packet_analysis *)

Unchecked == {stopEvent}                               \* mutant: does not ask whether there is an Event
Raised == {stopEvent} \ {NoRun}
Raise(c) ==
  /\ caller[c] = "raise"  /\ Go(c, "pick")
  /\ set' = set \cup Raised
  /\ UNCHANGED <<state, armed, loops, goal, target, calm>>
Pick(c) ==
  /\ caller[c] = "pick"
  /\ target' = [target EXCEPT ![c] = thread]
  /\ Go(c, IF Alive(thread) THEN "join" ELSE "clear")
  /\ UNCHANGED <<state, armed, set, loops, goal, calm>>
\* The join returns when the loop has ended, or after 8 s.
NoWait(c) == FALSE                                     \* mutant: stop does not join
GivesUp(c) == Alive(target[c])
Join(c) ==
  /\ caller[c] = "join"  /\ Go(c, "clear")
  /\ calm' = (calm /\ ~GivesUp(c))
  /\ UNCHANGED <<state, armed, set, loops, goal, target>>
\* _state.update: what it then names is nothing, whatever another request put there.
Clear(c) ==
  /\ caller[c] = "clear"
  /\ running' = FALSE  /\ stopEvent' = NoRun  /\ thread' = NoRun
  /\ Go(c, IF goal[c] THEN "arm" ELSE "idle")
  /\ UNCHANGED <<armed, set, loops, goal, target, calm>>

(* The start: _state.update, then the thread, then start().  *)

Arm(c) ==
  /\ caller[c] = "arm"
  /\ armed' = armed + 1
  /\ running' = TRUE  /\ stopEvent' = armed + 1  /\ UNCHANGED thread
  /\ target' = [target EXCEPT ![c] = armed + 1]
  /\ Go(c, "name")
  /\ goal' = [goal EXCEPT ![c] = FALSE]
  /\ UNCHANGED <<set, loops, calm>>
Name(c) ==
  /\ caller[c] = "name"
  /\ thread' = target[c]
  /\ Go(c, "launch")
  /\ UNCHANGED <<running, stopEvent, armed, set, loops, goal, target, calm>>
Launch(c) ==
  /\ caller[c] = "launch"
  /\ loop' = [loop EXCEPT ![target[c]] = "begin"]
  /\ Go(c, "idle")
  /\ UNCHANGED <<state, armed, set, event, goal, target, calm>>

-----------------------------------------------------------------------------
(* llm_packet_analysis_status: reads, and takes back "running" when the    *)
(* thread it found has ended.                                              *)

Poll(c) ==
  /\ c \in Pollers  /\ caller[c] = "idle"
  /\ running  /\ thread # NoRun  /\ ~Alive(thread)
  /\ Go(c, "demote")
  /\ UNCHANGED <<state, armed, set, loops, goal, target, calm>>
Demote(c) ==
  /\ caller[c] = "demote"  /\ Go(c, "idle")
  /\ running' = FALSE  /\ calm' = FALSE
  /\ UNCHANGED <<stopEvent, thread, armed, set, loops, goal, target>>

-----------------------------------------------------------------------------
(* _analysis_loop.  It goes by the Event it finds; without one it raises.  *)

At(r, from, to) == loop[r] = from /\ loop' = [loop EXCEPT ![r] = to]

Begin(r) ==
  /\ At(r, "begin", IF stopEvent = NoRun THEN "dead" ELSE "turn")
  /\ event' = [event EXCEPT ![r] = stopEvent]
  /\ UNCHANGED <<state, armed, set, caller, goal, target, calm>>
SetupFails(r) ==
  /\ At(r, "begin", "dead")
  /\ calm' = FALSE
  /\ UNCHANGED <<state, armed, set, event, caller, goal, target>>

KeepsOn(r) == FALSE                                    \* mutant: the loop ignores its Event
ToldToStop(r) == event[r] \in set
Turn(r) ==
  /\ At(r, "turn", IF ToldToStop(r) THEN "end" ELSE "work")
  /\ UNCHANGED <<state, armed, set, event, caller, goal, target, calm>>
\* A poll of the feed, the LLM calls, the rows and alerts, the wait; errors are caught.
Work(r) ==
  /\ At(r, "work", "turn")
  /\ UNCHANGED <<state, armed, set, event, caller, goal, target, calm>>
\* The last statement says that nothing runs, whichever run _state is about by then.
End(r) ==
  /\ At(r, "end", "dead")
  /\ running' = FALSE
  /\ UNCHANGED <<stopEvent, thread, armed, set, event, caller, goal, target, calm>>

LoopStep(r)   == Begin(r) \/ SetupFails(r) \/ Turn(r) \/ Work(r) \/ End(r)
CallerStep(c) == \/ Raise(c) \/ Pick(c) \/ Join(c) \/ Clear(c)
                 \/ Arm(c) \/ Name(c) \/ Launch(c) \/ Demote(c)

Next ==
  \/ \E h \in Handlers : Enable(h) \/ Disable(h)
  \/ \E c \in Pollers : Poll(c)
  \/ \E c \in Callers : CallerStep(c)
  \/ \E r \in Runs : LoopStep(r)

Spec == Init /\ [][Next]_vars
\* A handler goes on until it answers; LLM calls have timeouts, so a turn ends.
FairSpec == /\ Spec
            /\ \A c \in Callers : WF_vars(CallerStep(c))
            /\ \A r \in Runs : WF_vars(LoopStep(r))

-----------------------------------------------------------------------------
CallerAt == {"idle", "raise", "pick", "join", "clear", "arm", "name", "launch", "demote"}

TypeOK ==
  /\ running \in BOOLEAN
  /\ stopEvent \in 0 .. armed  /\ thread \in 0 .. armed  /\ armed \in 0 .. MaxRuns
  /\ set \subseteq 1 .. armed
  /\ loop \in [Runs -> {"none", "begin", "turn", "work", "end", "dead"}]
  /\ event \in [Runs -> 0 .. armed]
  /\ caller \in [Callers -> CallerAt]
  /\ calm \in BOOLEAN  /\ goal \in [Callers -> BOOLEAN]  /\ target \in [Callers -> 0 .. armed]

\* A loop that goes on: nobody has set the Event it goes by, or is about to go by.
GoesBy(r) == IF loop[r] = "begin" THEN stopEvent ELSE event[r]
GoesOn(r) == loop[r] \in {"begin", "turn", "work"} /\ GoesBy(r) \notin set \cup {NoRun}
Quiet     == \A h \in Handlers : caller[h] = "idle"

\* As long as requests take turns and each stop waits for its loop, one loop at a
\* time triages the packets, whatever the sequence of switches.
OneLoop == calm => Cardinality({r \in Runs : GoesOn(r)}) <= 1

\* ... and between two requests "running" tells whether a loop goes on: the
\* condition on which the next start stops it first.
RunningIsTrue == calm /\ Quiet => (running <=> \E r \in Runs : GoesOn(r))

\* However requests overlap, a loop whose Event is set ends.
StopEnds == \A r \in Runs : loop[r] \in {"turn", "work"} /\ event[r] \in set ~> loop[r] = "dead"
=============================================================================

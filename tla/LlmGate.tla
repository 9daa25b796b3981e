------------------------------ MODULE LlmGate ------------------------------
(***************************************************************************)
(* How threads share the language models (rate_limit.py, router.py,        *)
(* provider.py, connectivity.py).  A semaphore lets so many calls through  *)
(* at a time and spaces them; a provider that answered 402 or 429 is       *)
(* parked.  A request goes to its providers in one of three ways:          *)
(*   route  ModelRouter.complete_json: those of the stack that are not     *)
(*          parked, one after the other, up to the first answer or all;    *)
(*   ask    LLMProvider.complete: one provider, a second time when it      *)
(*          names a budget it can afford;                                  *)
(*   probe  _probe_one for each of the stack.                              *)
(* Times are what is left of them, in steps of Tick: park[k] of the window *)
(* of provider k, rest until calls are spaced, wake[c] of a sleep.         *)
(***************************************************************************)
EXTENDS Integers, Sequences, FiniteSets, SequencesExt

CONSTANTS Threads,       \* request and background threads
          Configs,       \* settings of the server: what build_live_stack reads
          MaxModels,     \* at most so many providers (3)
          MaxConcurrent, \* LLM_MAX_CONCURRENT
          MinInterval,   \* LLM_MIN_CALL_INTERVAL_SEC
          MaxSleep,      \* _MAX_BACKOFF_SLEEP (8)
          LimitDelay,    \* after a 429 (10)
          CreditDelay,   \* after a 402 of OpenRouter (1800)
          OtherDelay,    \* after a 402 of others (5)
          AffordDelay,   \* after a 402 that names a budget (2)
          Pause,         \* before the call within that budget (1.5)
          MaxJobs        \* bound: requests ever begun

\* What the settings are, and the order of the times: two sleeps outlast a 429, none outlasts
\* a 402 of OpenRouter.
Sane ==
  /\ {MinInterval, MaxSleep, LimitDelay, CreditDelay, OtherDelay, AffordDelay, Pause, MaxJobs} \subseteq Nat
  /\ {MaxConcurrent, MaxModels} \subseteq Nat \ {0}
  /\ AffordDelay <= OtherDelay  /\ OtherDelay <= MaxSleep  /\ MaxSleep < LimitDelay
  /\ LimitDelay <= 2 * MaxSleep  /\ 2 * MaxSleep < CreditDelay
  /\ Configs # {}
  /\ Configs \subseteq [single : {"", "zai", "nvidia"}, provider : {"zai", "nvidia", "openai", "anthropic"},
                         zaiKey : BOOLEAN, nvidiaKey : BOOLEAN, openrouterKey : BOOLEAN,
                         model : STRING, fallback : STRING, second : STRING]

-----------------------------------------------------------------------------
(* The stack.  A provider has the name it is known by in the stack, the     *)
(* label under which it is parked (_provider_key), and its model.           *)

Keys  == {"zai", "nvidia", "openrouter", "default"}
Provider(name, key, model) == [name |-> name, key |-> key, model |-> model]
\* get_provider: what LLM_PROVIDER names, and NVIDIA when it is Z.ai without a key.
GetProvider(cfg, name) ==
  IF cfg.provider = "zai" /\ cfg.zaiKey THEN Provider(name, "zai", "glm")
  ELSE IF cfg.provider \in {"openai", "anthropic"} THEN Provider(name, "default", cfg.model)
  ELSE Provider(name, "nvidia", cfg.model)
First(cfg) == IF cfg.zaiKey THEN <<Provider("zai", "zai", "glm")>>
              ELSE IF cfg.provider = "zai" THEN <<GetProvider(cfg, "zai")>> ELSE <<>>
\* Models(stack): no model is taken twice.
Models(stack) == {p.model : p \in Range(stack)}
With(stack, wanted, p) == IF wanted /\ Len(stack) < MaxModels THEN Append(stack, p) ELSE stack
Primary(cfg) == <<GetProvider(cfg, "primary")>>
OrPrimary(cfg, stack) == IF stack = <<>> THEN Primary(cfg) ELSE stack
Several(cfg) ==
  LET one   == First(cfg)
      two   == With(one, cfg.nvidiaKey /\ cfg.fallback \notin Models(one), Provider("nvidia", "nvidia", cfg.fallback))
      three == With(two, cfg.nvidiaKey /\ cfg.second \notin Models(two) \cup {""},
                    Provider("nvidia_secondary", "nvidia", cfg.second))
  IN With(three, cfg.openrouterKey, Provider("openrouter", "openrouter", "deepseek"))
BuildLiveStack(cfg) ==
  OrPrimary(cfg, CASE cfg.single = "nvidia" -> IF cfg.nvidiaKey THEN <<Provider("nvidia", "nvidia", cfg.model)>> ELSE <<>>
                   [] cfg.single = "zai"    -> First(cfg)
                   [] OTHER                 -> Several(cfg))

VARIABLES
  stack,  \* of the server: its settings are read when it starts
  park,   \* _backoff_until: what is left of the window of each provider
  rest,   \* what is left of the interval since _last_call_at
  held,   \* slots of _semaphore in use
  job,    \* job[c]: [kind, at, plan, all, err, retry], plan the providers still to ask
  wake,   \* wake[c]: what is left of c's sleep
  jobs,   \* requests begun
  stale   \* history: <<c, k>>: provider k was parked after c's request had last looked

gate  == <<park, rest, held>>
vars  == <<stack, gate, job, wake, jobs, stale>>

Kinds  == {"none", "route", "ask", "probe"}
Places == {"idle", "look", "wait", "enter", "acquire", "call", "out", "again", "note"}
Answers  == {"ok", "empty"}
Failures == {"other", "limit", "credits", "broke", "afford"}
Errors   == Answers \cup Failures
Idle   == [kind |-> "none", at |-> "idle", plan |-> <<>>, all |-> FALSE, err |-> "ok", retry |-> FALSE]

Providers == [name : {"zai", "nvidia", "nvidia_secondary", "openrouter", "primary"}, key : Keys, model : STRING]

TypeOK ==
  /\ stack \in Seq(Providers) \ {<<>>}
  /\ park \in [Keys -> Nat]  /\ rest \in Nat  /\ held \in 0 .. MaxConcurrent
  /\ job \in [Threads -> [kind : Kinds, at : Places, plan : Seq(Providers), all : BOOLEAN,
                          err : Errors, retry : BOOLEAN]]
  /\ \A c \in Threads : Range(job[c].plan) \subseteq Range(stack)
  /\ wake \in [Threads -> Nat]  /\ jobs \in 0 .. MaxJobs
  /\ stale \subseteq Threads \X Keys

Init ==
  /\ \E cfg \in Configs : stack = BuildLiveStack(cfg)
  /\ park = [k \in Keys |-> 0]  /\ rest = 0  /\ held = 0
  /\ job = [c \in Threads |-> Idle]
  /\ wake = [c \in Threads |-> 0]  /\ jobs = 0
  /\ stale = {}

-----------------------------------------------------------------------------
At(c, at)   == job[c].at = at /\ wake[c] = 0
GoTo(c, at) == job' = [job EXCEPT ![c].at = at]
Turn(c)     == Head(job[c].plan).key
Sleep(c, n) == wake' = [wake EXCEPT ![c] = n]
Blocked(p)  == park[p.key] > 0              \* is_provider_blocked

Less(n) == IF n = 0 THEN 0 ELSE n - 1
Tick ==
  /\ rest > 0 \/ (\E k \in Keys : park[k] > 0) \/ (\E c \in Threads : wake[c] > 0)
  /\ park' = [k \in Keys |-> Less(park[k])]
  /\ rest' = Less(rest)
  /\ wake' = [c \in Threads |-> Less(wake[c])]
  /\ UNCHANGED <<stack, held, job, jobs, stale>>

-----------------------------------------------------------------------------
(* Requests *)

Begin(c, kind, at, plan, all) ==
  /\ job[c] = Idle  /\ jobs < MaxJobs  /\ jobs' = jobs + 1
  /\ stale' = stale \ ({c} \X Keys)
  /\ job' = [job EXCEPT ![c] = IF plan = <<>> THEN Idle
               ELSE [kind |-> kind, at |-> at, plan |-> plan, all |-> all /\ Len(plan) > 1, err |-> "ok", retry |-> FALSE]]
  /\ UNCHANGED <<stack, gate, wake>>

\* TASK_PREFERENCES: the names that a task asks for first, the rest of the stack after them.
Preferences == {<<"zai", "nvidia", "nvidia_secondary", "openrouter">>, <<"zai", "nvidia", "openrouter">>,
                <<"nvidia", "nvidia_secondary", "zai", "openrouter">>, <<"nvidia", "zai", "openrouter">>}
Place(seq, x) == CHOOSE i \in DOMAIN seq : seq[i] = x
Before(names, p, q) ==
  LET at(r) == IF r.name \in Range(names) THEN Place(names, r.name) ELSE Len(names) + 1
  IN at(p) < at(q) \/ (at(p) = at(q) /\ Place(stack, p) < Place(stack, q))
\* The one plan of all that are wanted, in that order.
Ordered(names, wanted) ==
  {plan \in [1 .. Cardinality(wanted) -> wanted] :
     \A i, j \in DOMAIN plan : i < j => Before(names, plan[i], plan[j])}
Everyone(wanted) == wanted                       \* mutant: parked providers are not skipped
Available(wanted) == {p \in wanted : ~Blocked(p)}
\* A pass that verifies leaves out (exclude) the models that have answered.
Route(c) ==
  \E names \in Preferences, left \in SUBSET Range(stack), all \in BOOLEAN :
    \E plan \in Ordered(names, Available(left)) : Begin(c, "route", "wait", plan, all)
Ask(c) == \E p \in Range(stack) : Begin(c, "ask", "enter", <<p>>, FALSE)
Probe(c) == Begin(c, "probe", "look", stack, TRUE)

\* The request after its present provider.
Proceed(c, answered) ==
  LET plan == Tail(job[c].plan)
  IN job' = [job EXCEPT ![c] = IF plan = <<>> \/ (answered /\ ~job[c].all) THEN Idle
               ELSE [job[c] EXCEPT !.at = IF job[c].kind = "probe" THEN "look" ELSE "wait",
                                   !.plan = plan, !.all = job[c].all /\ Len(plan) > 1, !.err = "ok"]]

\* _probe_one skips a parked provider.
Look(c) ==
  /\ At(c, "look")
  /\ IF Blocked(Head(job[c].plan)) THEN Proceed(c, FALSE) ELSE GoTo(c, "wait")
  /\ stale' = stale \ {<<c, Turn(c)>>}
  /\ UNCHANGED <<stack, gate, wake, jobs>>

-----------------------------------------------------------------------------
(* wait_if_backoff and the slot *)

Backoff(k) == IF park[k] < MaxSleep THEN park[k] ELSE MaxSleep

\* A route and a probe wait once before the slot ...
Wait(c) ==
  /\ At(c, "wait")
  /\ Sleep(c, Backoff(Turn(c)))  /\ GoTo(c, "enter")
  /\ UNCHANGED <<stack, gate, jobs, stale>>
\* ... and every call once on entering it.
Enter(c) ==
  /\ At(c, "enter")
  /\ Sleep(c, Backoff(Turn(c)))  /\ GoTo(c, "acquire")
  /\ UNCHANGED <<stack, gate, jobs, stale>>
NoGap == 0                                       \* mutant: calls are not spaced
Gap == rest
Acquire(c) ==
  /\ At(c, "acquire")  /\ held < MaxConcurrent
  /\ held' = held + 1
  /\ Sleep(c, Gap)  /\ GoTo(c, "call")
  /\ UNCHANGED <<stack, park, rest, jobs, stale>>

\* _complete_inner ...
Call(c) ==
  /\ At(c, "call")  /\ GoTo(c, "out")
  /\ UNCHANGED <<stack, gate, wake, jobs, stale>>
Delay(k, err) ==
  CASE err = "limit" -> LimitDelay
    [] err \in {"broke", "afford"} -> AffordDelay
    [] err = "credits" -> IF k = "openrouter" THEN CreditDelay ELSE OtherDelay
    [] OTHER -> 0
NoteFailure(c, err) ==
  LET k == Turn(c)  delay == Delay(k, err)
  IN IF delay = 0 THEN UNCHANGED <<park, stale>>
     ELSE /\ park' = [park EXCEPT ![k] = delay]
          /\ stale' = stale \cup {<<d, k>> : d \in {d \in Threads : job[d] # Idle}}

\* __exit__ of the slot
Kept == held                                     \* mutant: the slot is not given back
Released == held - 1
LeaveSlot == rest' = MinInterval  /\ held' = Released

\* ... and what comes of it: every request has a timeout.  A provider that names a budget names a
\* lower one (afford) or not (broke).
Answer(c, err) ==
  /\ At(c, "out")  /\ err \in Answers
  /\ LeaveSlot  /\ Proceed(c, err = "ok")
  /\ UNCHANGED <<stack, park, wake, jobs, stale>>
\* A route or a probe leaves the slot and then notes the failure;
Fail(c, err) ==
  /\ At(c, "out")  /\ err \in Failures  /\ job[c].kind # "ask"
  /\ LeaveSlot
  /\ job' = [job EXCEPT ![c].at = "note", ![c].err = err]
  /\ UNCHANGED <<stack, park, wake, jobs, stale>>
Note(c) ==
  /\ At(c, "note")
  /\ NoteFailure(c, job[c].err)  /\ Proceed(c, FALSE)
  /\ UNCHANGED <<stack, rest, held, wake, jobs>>
\* complete notes it in the slot, and leaves it;
GiveUp(c, err) ==
  /\ At(c, "out")  /\ err \in Failures  /\ job[c].kind = "ask"  /\ (err # "afford" \/ job[c].retry)
  /\ NoteFailure(c, err)
  /\ LeaveSlot  /\ Proceed(c, FALSE)
  /\ UNCHANGED <<stack, wake, jobs>>
\* or it lowers its budget and sleeps in the slot, for a second and last call.
Lower(c) ==
  /\ At(c, "out")  /\ job[c].kind = "ask"  /\ ~job[c].retry
  /\ NoteFailure(c, "afford")
  /\ job' = [job EXCEPT ![c].at = "again", ![c].retry = TRUE]
  /\ Sleep(c, Pause)
  /\ UNCHANGED <<stack, rest, held, jobs>>
Retry(c) ==
  /\ At(c, "again")
  /\ LeaveSlot  /\ GoTo(c, "enter")
  /\ UNCHANGED <<stack, park, wake, jobs, stale>>

Step(c) == \/ Look(c) \/ Wait(c) \/ Enter(c) \/ Acquire(c) \/ Call(c)
           \/ \E err \in Errors : Answer(c, err) \/ Fail(c, err) \/ GiveUp(c, err)
           \/ Note(c) \/ Lower(c) \/ Retry(c)
Next == Tick \/ \E c \in Threads : Route(c) \/ Ask(c) \/ Probe(c) \/ Step(c)

Fairness == WF_vars(Tick) /\ \A c \in Threads : WF_vars(Step(c))
Spec == Init /\ [][Next]_vars
FairSpec == Spec /\ Fairness

-----------------------------------------------------------------------------
(* With one slot, a call begins only when the interval since the end of the *)
(* last one is over, whoever made it, and also after a pause for credits.   *)
Spaced == [][\A c \in Threads : job[c].at = "call" /\ job'[c].at = "out" => rest = 0 \/ MaxConcurrent > 1]_vars

(* The window of a provider is cut short only by the failure of a request   *)
(* that was under way when it was parked, or that does not look: a route or *)
(* a probe that begins later leaves the provider alone.                     *)
CutByTheStale ==
  [][\A k \in Keys : park'[k] < Less(park[k]) =>
       \E c \in Threads : job'[c] # job[c] /\ Turn(c) = k /\ (<<c, k>> \in stale \/ job[c].kind = "ask")]_vars

(* Every request is answered: no slot is lost, and no sleep goes on.  (As    *)
(* requests are bounded, a time when none is under way always comes.)       *)
Answered == []<>(\A c \in Threads : job[c] = Idle)
=============================================================================

--------------------------- MODULE LiveDetection ---------------------------
(***************************************************************************)
(* What the ML monitor thread does with the events of a batch:             *)
(* LiveMonitor.process_batch over AlertService (rate limit),               *)
(* WebhookNotifier (its own rate limit) and LiveCorrelator (a sliding      *)
(* window over signature hits and ML anomalies).  The LLM triage thread    *)
(* raises its alerts beside it, with an AlertService and a notifier made   *)
(* for the one alert.                                                      *)
(*                                                                         *)
(* A host pair is a key; only flagged flows are modelled.  The clock may   *)
(* move between any two of its readings.  Batches of one event reach every *)
(* order of events, so each event is a batch.                              *)
(***************************************************************************)
EXTENDS Integers, Sequences, FiniteSets

CONSTANTS Keys,       \* host pairs
          Window,     \* LIVE_CORRELATION_WINDOW: 120 s in the code
          Minute,     \* the limiters' window: 60 s in the code
          RateLimit,  \* LIVE_ALERT_RATE_LIMIT: 60 in the code
          HookRate,   \* rate_limit_per_minute of the webhook: 10 in the code
          MaxTime,    \* bound: last instant
          MaxEvents   \* bound: events and LLM alerts

ASSUME WindowAssumption == Window \in Nat /\ Minute \in Nat
ASSUME RateAssumption == RateLimit \in Nat /\ HookRate \in Nat \ {0}
ASSUME BoundAssumption == MaxTime \in Nat /\ MaxEvents \in Nat

Never  == -1
NoKey  == "none"
ASSUME KeyAssumption == NoKey \notin Keys
Kinds  == {"suricata", "ml"}
Posters == {"monitor", "llm"}
NoEvent == [at |-> "poll", kind |-> "none", key |-> NoKey]

VARIABLES
  now,         \* time.time()
  feed,        \* feed["suricata"], feed["ml"]: the entries [ts, key], oldest first
  correlated,  \* _correlated: pairs reported and muted
  stamps,      \* AlertService._timestamps
  hook,        \* WebhookNotifier._timestamps of the monitor's notifier
  event,       \* what the monitor thread is doing, on which event
  arrived,     \* events and LLM alerts so far
  seen,        \* history: seen[kind][k]: when the correlator last got k as kind
  report,      \* history: report[k]: when k was last found correlated
  raised,      \* history: when the monitor raised an alert
  posts        \* history: posts[by]: when the monitor and the LLM thread posted to the webhook

correlator == <<feed, correlated, seen, report>>
limiters   == <<stamps, hook, raised, posts>>
vars       == <<now, correlator, limiters, event, arrived>>

Init ==
  /\ now = 0  /\ arrived = 0
  /\ feed = [kind \in Kinds |-> <<>>]  /\ correlated = {}
  /\ stamps = <<>>  /\ hook = <<>>
  /\ event = NoEvent
  /\ seen = [kind \in Kinds |-> [k \in Keys |-> Never]]
  /\ report = [k \in Keys |-> Never]
  /\ raised = <<>>  /\ posts = [by \in Posters |-> <<>>]

-----------------------------------------------------------------------------
(* _allowed, of the alerts and of the webhook: a closed window of a minute. *)

ExpiredLate(ts) == ts < now - Minute - 1       \* mutant: keeps a stamp a second longer
Expired(ts) == ts < now - Minute

\* popleft while the oldest has expired.
Recent(s) == SubSeq(s, 1 + Cardinality({i \in 1 .. Len(s) : \A j \in 1 .. i : Expired(s[j])}), Len(s))

RoomOff(s, limit) == Len(s) <= limit           \* mutant: off by one
Room(s, limit) == Len(s) < limit

\* The post is tried when the filters of the integration let the alert through.
Post ==
  \/ UNCHANGED <<hook, posts>>
  \/ IF Room(Recent(hook), HookRate)
       THEN hook' = Append(Recent(hook), now) /\ posts' = [posts EXCEPT !["monitor"] = Append(@, now)]
       ELSE hook' = Recent(hook) /\ UNCHANGED posts

\* emit, emit_suricata and emit_correlation: count, persist, post.
Raise ==
  IF Room(Recent(stamps), RateLimit)
    THEN /\ stamps' = Append(Recent(stamps), now)
         /\ raised' = Append(raised, now)
         /\ Post
    ELSE /\ stamps' = Recent(stamps)
         /\ UNCHANGED <<raised, hook, posts>>

-----------------------------------------------------------------------------
(* LiveCorrelator.                                                         *)

TooOldEarly(entry) == entry.ts <= now - Window     \* mutant: evicts at the end of the window, not past it
TooOld(entry) == entry.ts < now - Window

Gone(s) == Cardinality({i \in 1 .. Len(s) : \A j \in 1 .. i : TooOld(s[j])})
Kept(s) == SubSeq(s, 1 + Gone(s), Len(s))

\* Every signature that leaves lifts its pair's mute, another one of the pair or not.
MutedStays == correlated                           \* mutant: no mute is ever lifted
Muted == correlated \ {feed["suricata"][i].key : i \in 1 .. Gone(feed["suricata"])}

Other(kind) == IF kind = "ml" THEN "suricata" ELSE "ml"

\* The pair is found when it is not muted and the other feed holds it.
FoundAny(kind, key) == key \notin Muted /\ Kept(feed[Other(kind)]) # <<>>     \* mutant: any pair will do
Found(kind, key) ==
  /\ key \notin Muted
  /\ \E i \in 1 .. Len(Kept(feed[Other(kind)])) : Kept(feed[Other(kind)])[i].key = key

\* add_suricata and add_ml: evict both feeds, record, look for the other kind.
Add(kind, key) ==
  /\ feed' = [k \in Kinds |-> IF k = kind THEN Append(Kept(feed[k]), [ts |-> now, key |-> key])
                                          ELSE Kept(feed[k])]
  /\ seen' = [seen EXCEPT ![kind][key] = now]
  /\ IF Found(kind, key)
       THEN /\ correlated' = Muted \cup {key}
            /\ report' = [report EXCEPT ![key] = now]
            /\ event' = [event EXCEPT !.at = "link"]
       ELSE /\ correlated' = Muted
            /\ event' = NoEvent
            /\ UNCHANGED report

-----------------------------------------------------------------------------
(* process_batch, event by event: raise, correlate, raise the correlation. *)

\* A signature hit or a flagged flow.  The whitelist may suppress its alert; the
\* correlator gets it all the same.
Arrive(kind, key) ==
  /\ event = NoEvent  /\ arrived < MaxEvents
  /\ \E at \in {"emit", "add"} : event' = [at |-> at, kind |-> kind, key |-> key]
  /\ arrived' = arrived + 1
  /\ UNCHANGED <<now, correlator, limiters>>

Emit ==
  /\ event.at = "emit"
  /\ Raise
  /\ event' = [event EXCEPT !.at = "add"]
  /\ UNCHANGED <<now, correlator, arrived>>

Correlate ==
  /\ event.at = "add"
  /\ Add(event.kind, event.key)
  /\ UNCHANGED <<now, limiters, arrived>>

EmitCorrelation ==
  /\ event.at = "link"
  /\ Raise
  /\ event' = NoEvent
  /\ UNCHANGED <<now, correlator, arrived>>

\* The LLM thread: emit_prepared counts nothing, and its notifier is new, with no
\* posts behind it.
EmitPrepared ==
  /\ arrived < MaxEvents  /\ arrived' = arrived + 1
  /\ posts' = [posts EXCEPT !["llm"] = Append(@, now)]
  /\ UNCHANGED <<now, correlator, stamps, hook, raised, event>>

Tick ==
  /\ now < MaxTime
  /\ now' = now + 1
  /\ UNCHANGED <<correlator, limiters, event, arrived>>

Next ==
  \/ \E kind \in Kinds, k \in Keys : Arrive(kind, k)
  \/ Emit \/ Correlate \/ EmitCorrelation
  \/ EmitPrepared
  \/ Tick

Spec == Init /\ [][Next]_vars

-----------------------------------------------------------------------------
Times == 0 .. MaxTime
Entry == [ts : Times, key : Keys]

TypeOK ==
  /\ now \in Times  /\ arrived \in 0 .. MaxEvents
  /\ feed \in [Kinds -> Seq(Entry)]  /\ correlated \subseteq Keys
  /\ stamps \in Seq(Times)  /\ Len(stamps) <= RateLimit
  /\ hook \in Seq(Times)  /\ Len(hook) <= HookRate
  /\ event \in [at : {"poll", "emit", "add", "link"}, kind : Kinds \cup {"none"}, key : Keys \cup {NoKey}]
  /\ seen \in [Kinds -> [Keys -> Times \cup {Never}]]
  /\ report \in [Keys -> Times \cup {Never}]
  /\ raised \in Seq(Times)  /\ posts \in [Posters -> Seq(Times)]

InMinute(times, from) == {i \in 1 .. Len(times) : times[i] \in from .. from + Minute}
HeldTo(times, limit) == \A i \in 1 .. Len(times) : Cardinality(InMinute(times, times[i])) <= limit

\* No minute, wherever it begins, holds more alerts of a session than the limit, nor more
\* posts of its notifier; the posts of the LLM alerts are held to nothing.
RatesHeld == HeldTo(raised, RateLimit) /\ HeldTo(posts["monitor"], HookRate)
\* ... and the limit is no lower than it says: an alert is refused only when the minute before it is full.
RatesAreExact == [][
  /\ RatesHeld'
  /\ (Emit \/ EmitCorrelation) /\ raised' = raised => Cardinality(InMinute(raised, now - Minute)) >= RateLimit]_vars

Lately(time) == time # Never /\ time >= now - Window

OnlyPairs == \A k \in Keys : report'[k] # report[k] => \A kind \in Kinds : Lately(seen'[kind][k])
EveryPair == Correlate /\ Lately(seen[Other(event.kind)][event.key]) => Lately(report'[event.key])
\* A pair is found correlated only when a signature hit and an anomaly of it both came within
\* the window; and a pair of which both came within the window has been found within the
\* window: the mute hides repetitions, never a pair that was not reported.
FindsExactly == [][OnlyPairs /\ EveryPair]_vars

\* A muted pair has a signature in the window's feed: no mute outlives the feed.
MutesLift == \A k \in correlated : \E i \in 1 .. Len(feed["suricata"]) : feed["suricata"][i].key = k
=============================================================================

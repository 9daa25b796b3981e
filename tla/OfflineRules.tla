---------------------------- MODULE OfflineRules ----------------------------
(***************************************************************************)
(* What run_detections finds in a capture (detection/engine.py over        *)
(* ml_engine.py, net_utils.py and scoring.py, then suricata_scan.py): the  *)
(* whitelist, the rules of detection_rules/, the scores of the Isolation   *)
(* Forest with their correlation to threat intelligence, the severity of   *)
(* each flow, and the alerts of a Suricata replay.                         *)
(*                                                                         *)
(* A row stands for a stored flow.  The database returns rows in no order: *)
(* every order of arrival is explored.  Times are in seconds, scores and   *)
(* severities in hundredths.  What the rules ask of a name (entropy,       *)
(* consonants, its apex), of an address and of the whitelist, and what     *)
(* decision_function says of it, are attributes of the row.  Parameters of *)
(* the rules are constants.                                                *)
(***************************************************************************)
EXTENDS Integers, Sequences, FiniteSets, SequencesExt, FiniteSetsExt

CONSTANTS Rows,        \* the flows a capture may hold; each gets its start when it is stored
          Times,       \* when one may start
          Arps,        \* ARP events [op, mac, at]
          NewDomains,  \* domains seen that whois calls newly registered
          Malicious,   \* addresses that threat intelligence calls malicious
          DMin, DMax,  \* the calibration: DMin < 0 < DMax; below 0 is anomalous
          MaxScored,   \* MAX_FLOWS_ML_SCORING: 50000 in the code
          Threshold,   \* ML_ANOMALY_THRESHOLD: 500 in the code
          Replays,     \* the alerts a replay may give, by signature
          AlertLimit,  \* 500 in the code
          Broken,      \* rules whose evaluation may raise
          ScanWindow, MinPorts, MinHosts,                          \* PORTSCAN
          MinConnections, MinInterval, MaxInterval,            \* BEACON-001
          SlowConnections, SlowInterval, SlowMaxInterval,      \* BEACON-002
          MaxJitter,                                           \* of both, in per cent
          QueryBytes, QueryRate, Minute,                       \* DNSTUNNEL
          StormReplies, StormWindow,                           \* ARPSPOOFING-002
          Multiplier, MinTargets, LongMs,                      \* EXFIL, LATERAL, LONGCONN
          MaxRows      \* bound: rows and ARP events of a capture

\* A signature of Suricata is not the id of a rule: the code puts "SURICATA-" before it.
Sane == /\ {DMin, DMax, ScanWindow, StormWindow} \cup Times \subseteq Int  /\ DMin < 0  /\ 0 < DMax
        /\ StormReplies \in Nat \ {0}  /\ AlertLimit \in Nat  /\ Replays \subseteq Seq(STRING)
        /\ \A r \in Rows : {"at", "raw"} \subseteq DOMAIN r /\ r.raw \in Int
        /\ \A e \in Arps : e.at \in Int
        /\ \A replay \in Replays : \A n \in DOMAIN replay :
             replay[n] \notin {"PORTSCAN-001", "PORTSCAN-002", "ARPSPOOFING-002"}

VARIABLES
  rows,      \* the flows of the analysis
  arps,      \* the ARP events that came with the message
  stage,     \* where run is
  raised,    \* the rule that raised, if any
  findings,  \* the findings so far
  score,     \* anomaly_score of each row
  severity   \* severity_score of each row

vars == <<rows, arps, stage, raised, findings, score, severity>>

Init == /\ rows = <<>> /\ arps = <<>> /\ stage = "parse" /\ raised = "none"
        /\ findings = {} /\ score = <<>> /\ severity = <<>>

-----------------------------------------------------------------------------
(* Addresses and the whitelist.                                            *)

External(ip) == ip[1] = "external"
Ids == DOMAIN rows
\* active_flows: what is_whitelisted_flow lets through.
Active == {i \in Ids : ~rows[i].white}

Ports(G) == {rows[i].port : i \in G}
Hosts(G) == {rows[i].dst : i \in G}
Ranked(G) == SortSeq(SetToSeq({<<rows[i].at, i>> : i \in G}), LAMBDA a, b : a[1] < b[1])
Span(G) == Max({rows[i].at : i \in G}) - Min({rows[i].at : i \in G})
\* The rows in groups, as a defaultdict(list) keeps them.
Groups(key) == {{i \in DOMAIN key : key[i] = key[j]} : j \in DOMAIN key}

Level(sev) == CASE sev = "critical" -> 1000 [] sev = "high" -> 800 [] sev = "medium" -> 500 [] sev = "low" -> 300
\* A finding about some rows; only some handlers name the flow, the first of the group.
About(rule, sev, G) == [rule |-> rule, source |-> "rule", flow |-> Min(G), of |-> G, score |-> Level(sev)]
Unlinked(rule, sev, what) == [rule |-> rule, source |-> "rule", flow |-> 0, of |-> what, score |-> Level(sev)]

-----------------------------------------------------------------------------
(* The rules.                                                              *)

AnySpan(G) == TRUE                                     \* mutant: forgets the window
Quick(G) == Span(G) <= ScanWindow
Horizontal ==
  {About("PORTSCAN-001", "high", G) : G \in {G \in Groups([i \in Active |-> <<rows[i].src, rows[i].dst>>]) :
     Cardinality(Ports(G)) >= MinPorts /\ Quick(G)}}
Vertical ==
  {About("PORTSCAN-002", "high", G) : G \in {G \in Groups([i \in Active |-> <<rows[i].src, rows[i].port>>]) :
     Cardinality(Hosts(G)) >= MinHosts /\ Quick(G)}}

\* The gaps between sorted starts that lie in the rule's range.
Gaps(G, low, high) ==
  LET s == Ranked(G)
      all == [k \in 1 .. Len(s) - 1 |-> s[k + 1][1] - s[k][1]]
  IN SelectSeq(all, LAMBDA g : low <= g /\ g <= high)
\* Standard deviation / mean <= jitter, without the root: n * sum of squares - sum^2 <= (jitter * sum)^2.
Regular(gaps) ==
  LET n == Len(gaps)
      sum == FoldSeq(LAMBDA g, acc : acc + g, 0, gaps)
      squares == FoldSeq(LAMBDA g, acc : acc + g * g, 0, gaps)
  IN n > 0 /\ sum # 0 /\ 10000 * (n * squares - sum * sum) <= MaxJitter * MaxJitter * sum * sum
Beacons(rule, connections, low, high) ==
  {About(rule, "high", G) : G \in
     {G \in Groups([i \in {i \in Active : External(rows[i].dst)} |-> <<rows[i].src, rows[i].dst, rows[i].port>>]) :
        /\ Cardinality(G) >= connections
        /\ Len(Gaps(G, low, high)) >= connections - 1
        /\ Regular(Gaps(G, low, high))}}
Beacon     == Beacons("BEACON-001", MinConnections, MinInterval, MaxInterval)
BeaconSlow == Beacons("BEACON-002", SlowConnections, SlowInterval, SlowMaxInterval)

DnsPayload == {About("DNSTUNNEL-001", "high", {i}) :
                 i \in {i \in Active : rows[i].app = "DNS" /\ rows[i].bytes > QueryBytes}}
\* Queries per minute of span, which is a minute at least.
DnsFrequency ==
  {Unlinked("DNSTUNNEL-002", "high", G) : G \in
     {G \in Groups([i \in {i \in Active : rows[i].apex # "none"} |-> <<rows[i].src, rows[i].apex>>]) :
        /\ Cardinality(G) >= QueryRate
        /\ Cardinality(G) * Minute >= QueryRate * Max({Minute, Span(G)})}}
\* Labels of high entropy, and labels no one would choose: an odd name is both.
DnsEntropy == {About("DNSTUNNEL-003", "medium", {i}) : i \in {i \in Active : rows[i].odd}}
Dga        == {About("DGATOP-001", "medium", {i}) : i \in {i \in Active : rows[i].odd}}

\* The rule looks at requests of any kind, and keeps five.
Gratuitous ==
  LET requests == SelectSeq(arps, LAMBDA e : e.op = 1)
  IN {Unlinked("ARPSPOOFING-001", "critical", {e}) : e \in {requests[k] : k \in 1 .. Min({5, Len(requests)})}}
Replies(mac) == {k \in DOMAIN arps : arps[k].op = 2 /\ arps[k].mac = mac}
\* The replies from the k-th on, within the window.
InnerBurst(mac, k) == {j \in Replies(mac) : arps[j].at >= arps[k].at /\ arps[j].at - arps[k].at < StormWindow}  \* mutant
Burst(mac, k) == {j \in Replies(mac) : arps[j].at >= arps[k].at /\ arps[j].at - arps[k].at <= StormWindow}
Storms == {Unlinked("ARPSPOOFING-002", "high", {mac}) : mac \in
             {m \in {arps[k].mac : k \in DOMAIN arps} :
                \E k \in Replies(m) : Cardinality(Burst(m, k)) >= StormReplies}}

Usual(app) == CASE app = "SSH" -> {22} [] app = "HTTP" -> {80, 443, 8080, 8000} [] app = "DNS" -> {53}
Mismatches == {About("PORTMISMATCH-001", "medium", {i}) : i \in
                 {i \in Active : rows[i].app \in {"SSH", "HTTP", "DNS"} /\ rows[i].port \notin Usual(rows[i].app)}}

Senders == {i \in Active : rows[i].bytes > 0}
Exfil == {About("EXFIL-001", "high", {i}) : i \in
            {i \in Senders : /\ rows[i].bytes * Cardinality(Senders)
                                  > Multiplier * FoldSet(LAMBDA j, acc : acc + rows[j].bytes, 0, Senders)
                             /\ ~External(rows[i].src) /\ External(rows[i].dst)}}
Lateral ==
  {Unlinked("LATERAL-001", "high", G) : G \in
     {G \in Groups([i \in {i \in Active : /\ rows[i].port \in {445, 3389, 5985}
                                          /\ ~External(rows[i].src) /\ ~External(rows[i].dst)} |-> rows[i].src]) :
        Cardinality(Hosts(G)) >= MinTargets}}

TlsNoSni == {About("TLSNONSNI-001", "low", {i}) : i \in
               {i \in Active : rows[i].app = "TLS" /\ ~rows[i].named /\ External(rows[i].dst)}}
Cleartext == {About("CLEARTEXT-001", "high", {i}) : i \in
                {i \in Active : rows[i].app = "HTTP" /\ rows[i].port # 443 /\ rows[i].login}}
NewDomain == {Unlinked("NEWDOMAIN-001", "medium", {d}) : d \in NewDomains}
\* Of TCP flows; the ms of other rows is 0.
LongConn == {About("LONGCONN-001", "high", {i}) : i \in
               {i \in Active : rows[i].ms >= LongMs}}

Found ==
  UNION {Horizontal, Vertical, Beacon, BeaconSlow, DnsPayload, DnsFrequency, DnsEntropy, Dga, Gratuitous, Storms,
         Mismatches, Exfil, Lateral, TlsNoSni, Cleartext, NewDomain, LongConn}

-----------------------------------------------------------------------------
(* The ML scores.                                                          *)

\* round(n / d) for d > 0: the nearest integer, an even one of two.
Rounded(n, d) ==
  LET q == n \div d  r == n % d
  IN IF 2 * r < d \/ (2 * r = d /\ q % 2 = 0) THEN q ELSE q + 1
\* ScoreCalibrator.normalize: 500 at the boundary of the model, within 0 and 1000.
Normalized(d) ==
  LET s == IF d >= 0 THEN Rounded(500 * (DMax - d), DMax) ELSE Rounded(500 * (DMin + d) * (-1), -DMin)
  IN Max({0, Min({1000, s})})
Flagged(i) == Normalized(rows[i].raw) >= Threshold
\* The first MAX_FLOWS_ML_SCORING of the active flows.
Sample == {i \in Active : Cardinality({j \in Active : j <= i}) <= MaxScored}

\* ml_alert_suppressed, for rows the whitelist has let through.
LocalOnly(i) == ~External(rows[i].src) /\ ~External(rows[i].dst)
Suppressed(i) == LocalOnly(i) \/ ~External(rows[i].dst) \/ (rows[i].cdn /\ rows[i].port \in {80, 443})
Anomalies == {[rule |-> "ML-ANOMALY-001", source |-> "ml", flow |-> i, of |-> {i}, score |-> Normalized(rows[i].raw)] :
                i \in {i \in Sample : Flagged(i) /\ ~Suppressed(i)}}

Correlated ==
  {[rule |-> "TI-CORR-001", source |-> "ti_correlation", flow |-> f.flow, of |-> {f.flow}, score |-> 900] :
     f \in {f \in findings : f.source = "ml" /\ {rows[f.flow].src, rows[f.flow].dst} \cap Malicious # {}}}

\* compute_hybrid_flow_severity, of the findings that name the flow.
Of(i) == {f \in findings : f.flow = i}
LastRule(i) == {f.score : f \in {f \in Of(i) : f.source = "rule"}}     \* mutant: leaves TI correlations out
RuleScores(i) == {f.score : f \in {f \in Of(i) : f.source \in {"rule", "ti_correlation"}}}
Hybrid(i) ==
  LET boost == IF Of(i) # {} /\ score[i] >= 500 THEN score[i] ELSE 0
  IN Min({1000, Rounded(10 * Max(RuleScores(i) \cup {score[i]}) + boost, 10)})

-----------------------------------------------------------------------------
(* The task.                                                               *)

Go(from, to) == stage = from /\ stage' = to

\* The rows that the parser has stored, and the events it sends along.
Parse ==
  /\ stage = "parse"  /\ Len(rows) + Len(arps) < MaxRows
  /\ \/ \E r \in Rows, t \in Times : rows' = Append(rows, [r EXCEPT !.at = t]) /\ UNCHANGED arps
     \/ \E e \in Arps : arps' = Append(arps, e) /\ UNCHANGED rows
  /\ UNCHANGED <<stage, raised, findings, score, severity>>

\* A rule that raises is skipped, with all it had found.
EvaluateRules ==
  /\ Go("parse", "ml")
  /\ \E broken \in Broken \cup {"none"} :
       raised' = broken /\ findings' = {f \in Found : f.rule # broken}
  /\ score' = [i \in Ids |-> 0]  /\ severity' = [i \in Ids |-> 0]
  /\ UNCHANGED <<rows, arps>>

\* Without a model there are no scores.
ScoreFlows ==
  /\ Go("ml", "correlate")
  /\ \/ /\ score' = [i \in Ids |-> IF i \in Sample THEN Normalized(rows[i].raw) ELSE 0]
        /\ findings' = findings \cup Anomalies
     \/ UNCHANGED <<score, findings>>
  /\ UNCHANGED <<rows, arps, raised, severity>>
Correlate ==
  /\ Go("correlate", "severity")
  /\ findings' = findings \cup Correlated
  /\ UNCHANGED <<rows, arps, raised, score, severity>>
ApplySeverity ==
  /\ Go("severity", "scan")
  /\ severity' = [i \in Ids |-> IF i \in Active THEN Hybrid(i) ELSE 0]
  /\ UNCHANGED <<rows, arps, raised, findings, score>>

\* One finding a signature, of the first alerts; none when Suricata is missing, fails or takes too long.
Scanned(replay) == {[rule |-> sig, source |-> "suricata", flow |-> 0, of |-> {sig}, score |-> 800] :
                      sig \in {replay[k] : k \in 1 .. Min({AlertLimit, Len(replay)})}}
Scan ==
  /\ Go("scan", "done")
  /\ \E replay \in Replays \cup {<<>>} : findings' = findings \cup Scanned(replay)
  /\ UNCHANGED <<rows, arps, raised, score, severity>>

Next == Parse \/ EvaluateRules \/ ScoreFlows \/ Correlate \/ ApplySeverity \/ Scan
Spec == Init /\ [][Next]_vars

-----------------------------------------------------------------------------
Reported(rule) == {f.of : f \in {f \in findings : f.rule = rule}}
Judged == stage # "parse"

\* The windows of the rules: a scan that is reported has its ports, or hosts, within
\* some window; a storm is reported exactly if some window, wherever it begins, holds
\* its replies, although the code only tries windows that begin with a reply.
Within(G, t, length) == {i \in G : t <= rows[i].at /\ rows[i].at <= t + length}
StormIn(mac, t) == Cardinality({k \in Replies(mac) : t <= arps[k].at /\ arps[k].at <= t + StormWindow}) >= StormReplies
WindowsAreTrue == Judged =>
  /\ \A G \in Reported("PORTSCAN-001") : \E t \in Times : Cardinality(Ports(Within(G, t, ScanWindow))) >= MinPorts
  /\ \A G \in Reported("PORTSCAN-002") : \E t \in Times : Cardinality(Hosts(Within(G, t, ScanWindow))) >= MinHosts
  /\ raised # "ARPSPOOFING-002" =>
       \A mac \in {e.mac : e \in Arps} : {mac} \in Reported("ARPSPOOFING-002")
         <=> \E t \in {e.at : e \in Arps} \cup {e.at - StormWindow : e \in Arps} : StormIn(mac, t)

\* What an analyst sorts flows by covers all that was found about them: the severity of
\* a flow is not below its anomaly, nor below a rule, an anomaly or an indicator that names it.
SeverityCovers == stage \in {"scan", "done"} =>
  \A i \in Ids : severity[i] <= 1000 /\ severity[i] >= score[i]
                 /\ \A f \in findings : f.flow = i => severity[i] >= f.score

\* port_scan.yaml, PORTSCAN-001: "Single src IP connects to many distinct dst ports on same dst IP
\* within a short window."
ScansAreFound == Judged /\ raised # "PORTSCAN-001" =>
  \A G \in Groups([i \in Active |-> <<rows[i].src, rows[i].dst>>]) :
    (\E t \in Times : Cardinality(Ports(Within(G, t, ScanWindow))) >= MinPorts) => G \in Reported("PORTSCAN-001")
=============================================================================

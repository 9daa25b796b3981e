------------------------- MODULE TriageHeuristics -------------------------
(***************************************************************************)
(* The rolling windows of the live triage (triage_heuristics.py), for the  *)
(* packets of one source.  Five detectors look at a packet in turn, and    *)
(* the first that finds something ends the look: later windows do not see  *)
(* the packet.  A packet has a stamp and a kind: what its text and its     *)
(* port show.                                                              *)
(***************************************************************************)
EXTENDS Integers, Sequences, FiniteSets, SequencesExt

CONSTANTS Kinds,       \* [text, ssh, tcp, port]: text is "", "scan" or "tool"
          AuthPorts,   \* _BRUTE_PORTS
          Window,      \* window_sec (60)
          SshBurst,    \* entries that make an SSH burst (8)
          AuthBurst,   \* ... a burst of another login (10)
          ScanPorts,   \* ports that make a scan (15)
          MaxSeen      \* bound: packets analysed

\* What the settings give, and what is seen of a packet.
Sane == Window \in Nat /\ \A k \in Kinds : k.ssh \in BOOLEAN /\ k.tcp \in BOOLEAN /\ k.port \in Nat

VARIABLES
  ssh,    \* _ssh_syn: stamps, as they were appended
  auth,   \* auth[port]: _brute_hits
  ports,  \* _src_ports: pairs <<stamp, port>>
  seen    \* history: [at, kind, found] of each packet analysed

windows == <<ssh, auth, ports>>
vars    == <<windows, seen>>

Found == {"none", "scan", "tool", "ssh", "auth", "ports"}

TypeOK ==
  /\ ssh \in Seq(Int)  /\ auth \in [AuthPorts -> Seq(Int)]  /\ ports \in Seq(Int \X Nat)
  /\ \A i \in DOMAIN seen : seen[i].kind \in Kinds /\ seen[i].found \in Found

Init == ssh = <<>> /\ auth = [p \in AuthPorts |-> <<>>] /\ ports = <<>> /\ seen = <<>>

-----------------------------------------------------------------------------
\* _evict: what is older leaves, from the head on.
TooLate(then, now) == then <= now - Window        \* mutant: the bound itself is outside
Old(then, now) == then < now - Window
FromFirst(s, young) == IF young = {} THEN <<>> ELSE SubSeq(s, CHOOSE i \in young : \A j \in young : i <= j, Len(s))
Evicted(stamps, now) == FromFirst(stamps, {i \in DOMAIN stamps : ~Old(stamps[i], now)})
EvictedPorts(now)    == FromFirst(ports, {i \in DOMAIN ports : ~Old(ports[i][1], now)})

PortsIn(entries) == {e[2] : e \in Range(entries)}

\* analyze: the windows that the packet reaches, and what is found.
Analyze(k, now) ==
  LET named    == k.text = "scan" \/ (k.text = "tool" /\ k.port \in AuthPorts)
      toSsh    == ~named /\ k.ssh
      newSsh   == IF toSsh THEN Append(Evicted(ssh, now), now) ELSE ssh
      sshFound == toSsh /\ Len(newSsh) >= SshBurst
      toAuth   == ~named /\ ~sshFound /\ k.port \in AuthPorts
      newAuth  == IF toAuth THEN [auth EXCEPT ![k.port] = Append(Evicted(@, now), now)] ELSE auth
      authFound == toAuth /\ Len(newAuth[k.port]) >= AuthBurst
      toPorts  == ~named /\ ~sshFound /\ ~authFound /\ k.tcp /\ k.port > 0
      newPorts == IF toPorts THEN Append(EvictedPorts(now), <<now, k.port>>) ELSE ports
      found    == CASE k.text = "scan" -> "scan"
                    [] k.text = "tool" /\ named -> "tool"
                    [] sshFound  -> "ssh"
                    [] authFound -> "auth"
                    [] toPorts /\ Cardinality(PortsIn(newPorts)) >= ScanPorts -> "ports"
                    [] OTHER -> "none"
  IN /\ ssh' = newSsh  /\ auth' = newAuth  /\ ports' = newPorts
     /\ seen' = Append(seen, [at |-> now, kind |-> k, found |-> found])

\* Stamps of the feed: what Suricata logs may be a little out of order.
Clock == IF seen = <<>> THEN Window ELSE Last(seen).at
Next == /\ Len(seen) < MaxSeen
        /\ \E k \in Kinds, now \in Clock - 1 .. Clock + Window : Analyze(k, now)
Spec == Init /\ [][Next]_vars

-----------------------------------------------------------------------------
InOrder == \A i \in 2 .. Len(seen) : seen[i - 1].at <= seen[i].at
\* The packets that the window of the last one holds, among those that pass a test.
Around(Test(_)) ==
  {i \in DOMAIN seen : seen[i].at >= Last(seen).at - Window /\ Test(seen[i])}
Plain(e) == e.found \notin {"scan", "tool"}
IsSsh(e) == Plain(e) /\ e.kind.ssh
\* A detector looks at no packet that one before it has found something in.
ReachesAuth(e) == Plain(e) /\ e.found # "ssh" /\ e.kind.port \in AuthPorts
ReachesPorts(e) == e.found \in {"none", "ports"} /\ e.kind.tcp /\ e.kind.port > 0

(* In a feed in order, a burst is found exactly when the window, ends       *)
(* included, holds enough of the packets that reached its detector: none    *)
(* that the cursor of another window dropped, none that is too old, and     *)
(* each packet once.                                                        *)
BurstsAreExact ==
  seen # <<>> /\ InOrder =>
    LET e == Last(seen)
    IN /\ e.found = "ssh"  <=> IsSsh(e) /\ Cardinality(Around(IsSsh)) >= SshBurst
       /\ e.found = "auth" <=> ReachesAuth(e) /\
            Cardinality(Around(LAMBDA o : ReachesAuth(o) /\ o.kind.port = e.kind.port)) >= AuthBurst
       /\ e.found = "ports" <=> ReachesPorts(e) /\
            Cardinality({seen[i].kind.port : i \in Around(ReachesPorts)}) >= ScanPorts
=============================================================================

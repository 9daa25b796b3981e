----------------------------- MODULE FlowTables -----------------------------
(***************************************************************************)
(* The two ways in which packets become flows.  pcap_parser.py reads a     *)
(* capture and keeps one flow for both directions of a conversation, for   *)
(* as long as the capture is.  scapy_flow_monitor.py reads the same        *)
(* packets from the live feed, keeps a flow for each direction, and hands  *)
(* a flow to the models when it was idle.                                  *)
(* Numbers about packets are kept as the packets come; what they should be *)
(* is stated below from all packets at once.                               *)
(***************************************************************************)
EXTENDS Integers, Sequences, FiniteSets, Functions

CONSTANTS Packets,     \* the packets there are: [from, to, proto, len, what], from and to <<host, port>>
          IdleSeconds, \* SCAPY_FLOW_IDLE_SEC (5)
          MaxRows,     \* rows of the feed
          MaxPackets,  \* bound: packets captured
          MaxTime      \* bound: last instant

VARIABLES
  now,
  fed,      \* history: the packets captured, each with its time
  flows,    \* flows[k] of the parser, k = <<from, to, proto>> of its first packet
  seen,     \* observables: how often each was seen
  feed,     \* rows of the feed that the monitor has not polled
  active,   \* active[k]: flows of the monitor
  emitted,  \* flows it has handed on
  batch,    \* the rows its poll has still to ingest
  asOf,     \* the time of the poll under way
  missed    \* history: rows that left the feed before a poll

parser  == <<flows, seen>>
monitor == <<active, emitted, batch, asOf>>
vars    == <<now, fed, parser, feed, monitor, missed>>

Times == 0 .. MaxTime
Hosts == UNION {{p.from[1], p.to[1]} : p \in Packets}
Names == {"name"}                   \* domains; one is enough to count
None  == -1

\* Lengths are counted, and a limit is one.
Sane ==
  /\ \A p \in Packets : p.len \in Nat
  /\ {IdleSeconds, MaxRows, MaxPackets, MaxTime} \subseteq Nat

Key(p) == <<p.from, p.to, p.proto>>
Rev(p) == <<p.to, p.from, p.proto>>
FlowKeys == {Key(p) : p \in Packets}
\* What is kept of the packets of one direction, or of all: how many, their bytes, the longest, and
\* the gaps between them.
NoLane == [n |-> 0, bytes |-> 0, max |-> 0, gaps |-> 0, span |-> 0, last |-> None]
Lanes  == [n : Nat, bytes : Nat, max : Nat, gaps : Nat, span : Nat, last : Times \cup {None}]
Layers == {"", "TLS", "HTTP", "DNS", "ICMP"}
FlowRecords == [start : Times, end : Times, fwd : Lanes, bwd : Lanes, layer : Layers]
LiveRecords == [key : FlowKeys, start : Times, last : Times, n : Nat, bytes : Nat]
Captured    == [packet : Packets, ts : Times]

TypeOK ==
  /\ now \in Times  /\ fed \in Seq(Captured)
  /\ DOMAIN flows \subseteq FlowKeys  /\ flows \in [DOMAIN flows -> FlowRecords]
  /\ seen \in [Hosts \cup Names -> Nat]
  /\ feed \in Seq(Captured)  /\ Len(feed) <= MaxRows
  /\ DOMAIN active \subseteq FlowKeys  /\ active \in [DOMAIN active -> LiveRecords]
  /\ \A k \in DOMAIN active : active[k].key = k
  /\ emitted \in Seq(LiveRecords)  /\ missed \in Nat
  /\ batch \in Seq(Captured)  /\ asOf \in Times \cup {None}  /\ batch # <<>> => asOf # None

Init ==
  /\ now = 0  /\ fed = <<>>
  /\ flows = <<>>  /\ seen = [o \in Hosts \cup Names |-> 0]
  /\ feed = <<>>  /\ active = <<>>  /\ emitted = <<>>  /\ missed = 0
  /\ batch = <<>>  /\ asOf = None

-----------------------------------------------------------------------------
(* The parser *)

Stored(table, k, value) == [x \in DOMAIN table \cup {k} |-> IF x = k THEN value ELSE table[x]]
Higher(a, b) == IF a > b THEN a ELSE b
\* record_direction: a packet from before the one before it opens no gap.
AnyGap(lane, ts) == lane.last # None                 \* mutant: packets out of order are not looked for
IsGap(lane, ts) == lane.last # None /\ ts >= lane.last
Record(lane, p, ts) ==
  [n     |-> lane.n + 1,
   bytes |-> lane.bytes + p.len,
   max   |-> Higher(lane.max, p.len),
   gaps  |-> lane.gaps + IF IsGap(lane, ts) THEN 1 ELSE 0,
   span  |-> lane.span + IF IsGap(lane, ts) THEN ts - lane.last ELSE 0,
   last  |-> ts]

\* _get_or_create_flow
OwnKey(p) == Key(p)                                  \* mutant: replies get a flow of their own
FlowOf(p) == IF Key(p) \in DOMAIN flows \/ Rev(p) \notin DOMAIN flows THEN Key(p) ELSE Rev(p)
NewFlow(ts) == [start |-> ts, end |-> ts, fwd |-> NoLane, bwd |-> NoLane, layer |-> ""]
\* is_fwd looks at addresses only, and is taken to hold of ICMP.
Forward(k, p) == p.proto = "ICMP" \/ k[1][1] = p.from[1]
ServerPort(k, p) == IF k[1][1] = p.from[1] THEN p.to[2] ELSE p.from[2]
\* _inspect_tcp_payload, _inspect_udp_payload
Layer(k, p, old) ==
  CASE p.proto = "ICMP" -> "ICMP"
    [] p.proto = "UDP" -> IF 53 \in {p.from[2], p.to[2]} THEN "DNS" ELSE old
    [] p.proto = "TCP" /\ p.len > 0 /\ (ServerPort(k, p) = 443 \/ p.what = "hello") -> "TLS"
    [] p.proto = "TCP" /\ p.len > 0 /\ ServerPort(k, p) # 443 /\ p.what # "hello"
         /\ (ServerPort(k, p) = 80 \/ p.what = "get") -> "HTTP"
    [] OTHER -> old
\* _track_observable: the addresses of every packet, and a name it carries; that of a ClientHello is
\* tracked by _extract_sni and again for the parsed record.
Carries(k, p) == CASE Layer(k, p, "") = "TLS" /\ p.what = "hello" -> 2
                   [] Layer(k, p, "") = "HTTP" /\ p.what = "get" -> 1
                   [] Layer(k, p, "") = "DNS" /\ p.what = "query" -> 1
                   [] OTHER -> 0
Mentions(p, h) == Cardinality({i \in {1, 2} : (<<p.from, p.to>>[i])[1] = h})
ProcessPacket(p, ts) ==
  LET k == FlowOf(p)
      f == IF k \in DOMAIN flows THEN flows[k] ELSE NewFlow(ts)
      g == [f EXCEPT !.end = ts, !.layer = Layer(k, p, @)]
  IN /\ flows' = Stored(flows, k, IF Forward(k, p) THEN [g EXCEPT !.fwd = Record(@, p, ts)]
                                  ELSE [g EXCEPT !.bwd = Record(@, p, ts)])
     /\ seen' = [o \in DOMAIN seen |-> seen[o] + IF o \in Names THEN Carries(k, p) ELSE Mentions(p, o)]

-----------------------------------------------------------------------------
(* The monitor.  While it works at what it has polled, packets come. *)

Poll ==
  /\ asOf = None
  /\ feed # <<>> \/ \E k \in DOMAIN active : now - active[k].last >= IdleSeconds
  /\ batch' = feed  /\ feed' = <<>>  /\ asOf' = now
  /\ UNCHANGED <<now, fed, parser, active, emitted, missed>>
IngestPacket ==
  /\ batch # <<>>  /\ batch' = Tail(batch)
  /\ LET row == Head(batch)
         k   == Key(row.packet)
         f   == IF k \in DOMAIN active THEN active[k]
                ELSE [key |-> k, start |-> row.ts, last |-> row.ts, n |-> 0, bytes |-> 0]
     IN active' = Stored(active, k, [f EXCEPT !.last = row.ts, !.n = @ + 1, !.bytes = @ + row.packet.len])
  /\ UNCHANGED <<now, fed, parser, feed, emitted, asOf, missed>>
\* _flush_idle, one flow after the other
KeptIdle(table, k) == table                          \* mutant: flows handed on stay
Left(table, k) == Restrict(table, DOMAIN table \ {k})
Idle == {k \in DOMAIN active : asOf - active[k].last >= IdleSeconds}
FlushIdle ==
  /\ asOf # None  /\ batch = <<>>
  /\ \/ \E k \in Idle : emitted' = Append(emitted, active[k]) /\ active' = Left(active, k) /\ UNCHANGED asOf
     \/ Idle = {} /\ asOf' = None /\ UNCHANGED <<active, emitted>>
  /\ UNCHANGED <<now, fed, parser, feed, batch, missed>>

\* A packet is captured; its time may be before that of one captured earlier.
Capture(p, ts) ==
  /\ Len(fed) < MaxPackets  /\ ts \in {now, now - 1} \cap Times
  /\ fed' = Append(fed, [packet |-> p, ts |-> ts])
  /\ ProcessPacket(p, ts)
  /\ LET rows == Append(feed, [packet |-> p, ts |-> ts])
     IN IF Len(rows) > MaxRows THEN feed' = Tail(rows) /\ missed' = missed + 1
        ELSE feed' = rows /\ UNCHANGED missed
  /\ UNCHANGED <<now, monitor>>
Tick == now < MaxTime /\ now' = now + 1 /\ UNCHANGED <<fed, parser, feed, monitor, missed>>

Next == (\E p \in Packets, ts \in Times : Capture(p, ts)) \/ Poll \/ IngestPacket \/ FlushIdle \/ Tick
Spec == Init /\ [][Next]_vars
-----------------------------------------------------------------------------
(* What the flow of a conversation should be.  A place is the number of a   *)
(* packet; a byte of the packets at some places is counted there.           *)

Talk(k)  == {i \in DOMAIN fed : k \in {Key(fed[i].packet), Rev(fed[i].packet)}}
Forth(k) == {i \in Talk(k) : Forward(k, fed[i].packet)}
Back(k)  == {i \in Talk(k) : ~Forward(k, fed[i].packet)}
BytesAt(at) == UNION {{i} \X (1 .. fed[i].packet.len) : i \in at}
FirstAt(i, at) == i \in at /\ \A j \in at : i <= j
LastAt(i, at)  == i \in at /\ \A j \in at : j <= i
Follows(i, j, at) == i < j /\ {i, j} \subseteq at /\ \A x \in at : x <= i \/ j <= x
InOrder(at) == \A i, j \in at : i < j => fed[i].ts <= fed[j].ts
LaneIs(lane, at) ==
  /\ lane.n = Cardinality(at)  /\ lane.bytes = Cardinality(BytesAt(at))
  /\ \A i \in at : fed[i].packet.len <= lane.max
  /\ \A i \in at : LastAt(i, at) => lane.last = fed[i].ts
  /\ lane.gaps = Cardinality({j \in at : \E i \in at : Follows(i, j, at) /\ fed[i].ts <= fed[j].ts})
  /\ InOrder(at) => \A i, j \in at : FirstAt(i, at) /\ LastAt(j, at) => lane.span = fed[j].ts - fed[i].ts

(* Every packet is in exactly one flow of the parser, on one side of it,    *)
(* and what is kept of a flow as packets come is what all of them together  *)
(* say; the gaps of a side that is in order add up to its length.           *)
FlowsAreExact ==
  /\ \A i \in DOMAIN fed : LET p == fed[i].packet IN Cardinality({Key(p), Rev(p)} \cap DOMAIN flows) = 1
  /\ \A k \in DOMAIN flows :
       /\ LaneIs(flows[k].fwd, Forth(k))  /\ LaneIs(flows[k].bwd, Back(k))  /\ Talk(k) # {}
       /\ \A i \in Talk(k) : /\ FirstAt(i, Talk(k)) => flows[k].start = fed[i].ts
                            /\ LastAt(i, Talk(k))  => flows[k].end = fed[i].ts

(* The monitor counts the packets that the parser counts: those of a        *)
(* conversation are in the flows it handed on, or in the active ones of     *)
(* both directions, or still in the batch or in the feed, or left the feed  *)
(* before a poll.                                                           *)
RowsOf(rows, k) == {i \in DOMAIN rows : Key(rows[i].packet) = k}
EmittedOf(k)    == UNION {{i} \X (1 .. emitted[i].n) : i \in {i \in DOMAIN emitted : emitted[i].key = k}}
LiveOf(k) == Cardinality(EmittedOf(k)) + (IF k \in DOMAIN active THEN active[k].n ELSE 0)
               + Cardinality(RowsOf(batch, k)) + Cardinality(RowsOf(feed, k))
LiveCountsAll == missed = 0 => \A k \in FlowKeys : LiveOf(k) = Cardinality(RowsOf(fed, k))
=============================================================================

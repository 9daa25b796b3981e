-------------------------- MODULE MCLiveDetection --------------------------
(***************************************************************************)
(* Instances for TLC of detection: the flows that packets become           *)
(* (FlowTables), what is found in them live (LiveDetection) and in a       *)
(* capture (OfflineRules), the rows of the alerts that are raised          *)
(* (AlertStream), and the investigations of findings (Investigation).      *)
(* None reads the state of another, so a behaviour moves one of them, its  *)
(* part, and leaves the others where they start.                           *)
(***************************************************************************)
EXTENDS LiveDetection, OfflineInputs, TLC

CONSTANTS Threads, MaxRecent, MaxAlerts, MaxJobs, MaxRestarts,
          Rows, Starts, Arps, NewDomains, Malicious, DMin, DMax, MaxScored, Threshold, Replays, AlertLimit, Broken,
          ScanWindow, MinPorts, MinHosts, MinConnections, MinInterval, MaxInterval,
          SlowConnections, SlowInterval, SlowMaxInterval, MaxJitter, QueryBytes, QueryRate, StormReplies,
          StormWindow, Multiplier, MinTargets, LongMs, MaxStored,
          Packets, IdleSeconds, MaxRows, MaxPackets, MaxInstant,
          MaxTargets, MaxLookups
VARIABLES part,
          recent, file, job, alerts, jobs, restarts, patched, clash,
          rows, arps, stage, broke, findings, score, severity,
          clock, fed, flows, tracked, queue, active, emitted, batch, asOf, missed,
          status, shown, marked, observed, phase, work, lookups, cut, mixed

Stream == INSTANCE AlertStream
Rules  == INSTANCE OfflineRules WITH Times <- Starts, raised <- broke, MaxRows <- MaxStored
Tables == INSTANCE FlowTables WITH MaxTime <- MaxInstant, now <- clock, seen <- tracked, feed <- queue
\* A host that OTX knows, that GreyNoise calls benign and that has a vulnerability; and one of the LAN.
TheWorld    == [v \in {"host", "lan"} |-> [otx |-> 3, greynoise |-> 2, internetdb |-> 1]]
TheMentions == [finding |-> <<"host", "host", "lan">>, flow |-> <<"host">>]
Osint  == INSTANCE Investigation WITH Workers <- Threads, Findings <- {"finding"}, Flows <- {"flow"}, World <- TheWorld,
                                      Mentions <- TheMentions, Private <- {"lan"}, raised <- marked

ASSUME RulesAssumption == Rules!Sane
ASSUME OsintAssumption == Osint!Sane
ASSUME StreamAssumption == Stream!Sane
ASSUME TablesAssumption == Tables!Sane

streamVars == <<recent, file, job, alerts, jobs, restarts, patched, clash>>
rulesVars  == <<rows, arps, stage, broke, findings, score, severity>>
tableVars  == <<clock, fed, flows, tracked, queue, active, emitted, batch, asOf, missed>>
osintVars  == <<status, shown, marked, observed, phase, work, lookups, cut, mixed>>
allVars    == <<part, vars, streamVars, rulesVars, tableVars, osintVars>>

MCInit ==
  /\ part \in {"live", "stream", "offline", "flows", "osint"}
  /\ Init  /\ Stream!Init  /\ Rules!Init  /\ Tables!Init  /\ Osint!Init
  /\ marked = {}  /\ \A v \in DOMAIN observed : observed[v].row => part = "osint" /\ v = "host"
MCNext ==
  \/ part = "live"    /\ Next        /\ UNCHANGED <<part, streamVars, rulesVars, tableVars, osintVars>>
  \/ part = "stream"  /\ Stream!Next /\ UNCHANGED <<part, vars, rulesVars, tableVars, osintVars>>
  \/ part = "offline" /\ Rules!Next  /\ UNCHANGED <<part, vars, streamVars, tableVars, osintVars>>
  \/ part = "flows"   /\ Tables!Next /\ UNCHANGED <<part, vars, streamVars, rulesVars, osintVars>>
  \/ part = "osint"   /\ Osint!Next  /\ UNCHANGED <<part, vars, streamVars, rulesVars, tableVars>>
MCSpec == MCInit /\ [][MCNext]_allVars

(* The properties of the modules under names of this one, with the types of *)
(* the module, each where its part moves; FlowsAreExact also says that the  *)
(* monitor counts what the parser counts.                                   *)
MutesAreLifted  == part = "live" => TypeOK /\ MutesLift
PatchesStick    == part = "stream" => Stream!TypeOK /\ Stream!PatchesStick
NoneLeftRunning == /\ part = "stream" => Stream!NoneLeftRunning
                   /\ part = "osint" => Osint!TypeOK /\ Osint!NoneLeftRunning
WindowsAreTrue  == part = "offline" => Rules!WindowsAreTrue
SeverityCovers  == /\ part = "offline" => Rules!SeverityCovers
                   /\ part = "osint" => Osint!SeverityCovers
FlowsAreExact   == part = "flows" => Tables!TypeOK /\ Tables!FlowsAreExact /\ Tables!LiveCountsAll

\* A client and its TLS server, a host that talks to itself, and a ping.
Packet(f, t, proto, len, what) == [from |-> f, to |-> t, proto |-> proto, len |-> len, what |-> what]
ThePackets == {Packet(<<"a", 9>>, <<"b", 443>>, "TCP", 2, "hello"), Packet(<<"b", 443>>, <<"a", 9>>, "TCP", 1, ""),
               Packet(<<"a", 9>>, <<"a", 80>>, "TCP", 1, "get"), Packet(<<"a", 0>>, <<"b", 0>>, "ICMP", 1, "")}

Symmetry == Permutations(Keys) \cup Permutations(Threads)
=============================================================================

----------------------------- MODULE MCCaptures -----------------------------
(***************************************************************************)
(* Instances for TLC of captures: starting and stopping them               *)
(* (CaptureControl), and the chunks of tcpdump (PcapWatcher).  Each has    *)
(* what it needs of the other in its own state, so a behaviour moves one   *)
(* of them, its part, and leaves the other where it starts.  Captures come *)
(* in three parts: on a host that refuses nothing; on one that refuses     *)
(* writes, reads and signals, of the first capture, where no pid is used   *)
(* again and no poll starts the feed; and with a Suricata of someone else  *)
(* and requests of the Suricata panel, over one capture and without status *)
(* polls.                                                                  *)
(***************************************************************************)
EXTENDS PcapWatcher

CONSTANTS Controllers, Dashboards, Modes, PanelUsed, MayReusePid, MayOutlive, MayFail, MaxProcs, MaxRestarts
VARIABLES part,
          proc, external, managed, tcpdump, state, feedOn, watching, req, restarts,
          strayed, unwritten, spared, panel, refed

Control == INSTANCE CaptureControl
Willing == INSTANCE CaptureControl WITH MayFail <- FALSE

ASSUME ControlAssumption == Control!Sane

controlVars == <<proc, external, managed, tcpdump, state, feedOn, watching, req, restarts,
                 strayed, unwritten, spared, panel, refed>>
allVars     == <<part, vars, controlVars>>

MCInit == part \in {"willing", "refusing", "panel", "chunks"} /\ Control!Init /\ Init
MCNext ==
  \/ part = "willing"  /\ Willing!Next /\ ~panel' /\ UNCHANGED <<part, vars, external>>
  \/ part = "refusing" /\ Control!Next /\ ~panel' /\ UNCHANGED <<part, vars, external>>
                       /\ ~refed' /\ unwritten' \cup spared' \subseteq {1} /\ \A p \in Control!Procs : proc'[p].at # "foreign"
  \/ part = "panel"    /\ Control!Next /\ UNCHANGED <<part, vars>>
                       /\ \A d \in Dashboards : req'[d] = Control!Idle
                       /\ \A p \in Control!Procs : p > 1 => proc'[p].at = "unborn"
  \/ part = "chunks"   /\ Next /\ UNCHANGED <<part, controlVars>>
MCSpec == MCInit /\ [][MCNext]_allVars

(* The properties of CaptureControl under names of this module, the first   *)
(* with its types: every capture that runs is known, and what the state     *)
(* file knows of was started.                                               *)
NothingStrays  == Control!TypeOK /\ Control!NoOrphan /\ Control!StateNamesACapture
OneCapture     == Control!OneCapture
StopIsComplete == Control!StopIsComplete
=============================================================================

--------------------------- MODULE MCFeedSession ---------------------------
(***************************************************************************)
(* Instances for TLC of what reads Suricata's log: the packet feed with    *)
(* its clients (PacketFeed) and the live session (EveTail).  Each keeps an *)
(* offset of its own and neither reads the state of the other: a behaviour *)
(* moves one of them, its part, and leaves the other where it starts.      *)
(***************************************************************************)
EXTENDS MCPacketFeed

CONSTANTS MaxEvents, PollLines, MaxLogs, MaxBinds
VARIABLES part, text, where, array, written, path, offset, inode, poll, binds, given, again, dropped, whole

Session == INSTANCE EveTail WITH MaxLines <- PollLines

ASSUME SessionAssumption == Session!Sane

sessionVars == <<text, where, array, written, path, offset, inode, poll, binds, given, again, dropped, whole>>
allVars     == <<part, vars, sessionVars>>

MCInit == /\ part \in {"feed", "session"} /\ Init /\ Session!Init
          /\ part = "feed" => array = {}
MCNext == \/ part = "feed"    /\ Next         /\ UNCHANGED <<part, sessionVars>>
          \/ part = "session" /\ Session!Next /\ UNCHANGED <<part, vars>>
\* The fairness of each, while it is the part that moves.
MCSpec ==
  /\ MCInit /\ [][MCNext]_allVars
  /\ \A c \in Callers : WF_vars(part = "feed" /\ Handler(c))
  /\ \A t \in Threads : WF_vars(part = "feed" /\ EveLoop(t))
  /\ WF_sessionVars(part = "session" /\ Session!Step)

(* Properties of EveTail under their own names, the first with its types. *)
ReadExactly == Session!TypeOK /\ Session!ReadExactly
CatchesUp   == part = "session" => Session!CatchesUp
=============================================================================

---------------------------- MODULE MCPacketFeed ----------------------------
(* Instances of PacketFeed for TLC.  Each cfg picks the modes and whether   *)
(* a join may time out.                                                     *)
EXTENDS PacketFeed

CONSTANTS h1, browser, eveA, eveB

OneCaller  == {h1}
Clients    == {browser}
OnePath    == {eveA}
TwoPaths   == {eveA, eveB}
BothModes  == {"suricata", "tcpdump"}
Contrary   == {"event", "bad"}
AllKinds   == LineKinds
=============================================================================

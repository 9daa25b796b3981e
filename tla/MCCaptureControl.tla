-------------------------- MODULE MCCaptureControl --------------------------
(* Instances of CaptureControl for TLC. *)
EXTENDS CaptureControl

CONSTANTS analyst, poller

OneAnalyst == {analyst}
NoPoller   == {}
OnePoller  == {poller}
SuricataOnly == {"suricata"}
BothModes    == {"suricata", "tcpdump"}
=============================================================================

--------------------------- MODULE OfflineInputs ---------------------------
(***************************************************************************)
(* Flows and ARP events for instances of OfflineRules, chosen so that      *)
(* every rule finds something in some capture.                             *)
(***************************************************************************)
EXTENDS Integers

In(n)  == <<"internal", n>>
Out(n) == <<"external", n>>
Flow(src, dst, port) ==
  [at |-> 0, src |-> src, dst |-> dst, port |-> port, app |-> "other", bytes |-> 1, ms |-> 0, raw |-> 1, white |-> FALSE,
   apex |-> "none", odd |-> FALSE, named |-> TRUE, login |-> FALSE, cdn |-> FALSE]
Probes   == {[Flow(In(1), Out(1), 1) EXCEPT !.raw = -4], Flow(In(1), Out(1), 445)}
Laterals == {Flow(In(1), In(2), 445), Flow(In(1), In(3), 445)}
TheRows  == Probes \cup Laterals \cup
  {[Flow(In(1), Out(1), 2) EXCEPT !.white = TRUE],
   [Flow(In(1), Out(2), 443) EXCEPT !.app = "TLS", !.named = FALSE, !.bytes = 9, !.raw = -10],
   [Flow(In(1), In(2), 5353) EXCEPT !.app = "DNS", !.bytes = 5, !.apex = "apex", !.odd = TRUE],
   [Flow(Out(1), In(1), 8000) EXCEPT !.app = "HTTP", !.login = TRUE, !.ms = 9]}
TheArps      == {[op |-> op, mac |-> "mac", at |-> t] : op \in {1, 2}, t \in 0 .. 3}
TheReplays   == {<<"sid1", "sid1", "sid2">>}
TheMalicious == {Out(1)}
TheDMin      == -10
=============================================================================

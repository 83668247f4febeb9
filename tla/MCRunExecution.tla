---------------------------- MODULE MCRunExecution ----------------------------
(* Policies and devices for the check of RunExecution.                      *)
EXTENDS RunExecution

G(commands, failFast) == [commands |-> commands, failFast |-> failFast]

(* Two captures at once; a capture beside an advertiser, then another one;  *)
(* a capture in a thread while the main thread scans, then an empty group.  *)
Policies == {
  <<G(<<"monitor", "monitor">>, FALSE)>>,
  <<G(<<"monitor", "advertise", "shell">>, TRUE), G(<<"shell", "scan">>, TRUE)>>,
  <<G(<<"monitor", "scan">>, FALSE), G(<< >>, TRUE)>> }

AllHosts == {h \in HostType : h.reboot => h.single}
==============================================================================

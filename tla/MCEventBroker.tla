---------------------------- MODULE MCEventBroker ----------------------------
(* Instances of EventBroker, with MonitoredHosts, for TLC.                 *)
EXTENDS MonitoredHosts, TLC

CONSTANTS v1, v2, a1, a2

MCValues == {v1, v2}
MCAddresses == {a1, a2}
MCSymmetry == Permutations(MCValues) \cup Permutations(MCAddresses)
=============================================================================

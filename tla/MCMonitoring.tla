---------------------------- MODULE MCMonitoring ----------------------------
(* Instance of Monitoring for TLC: two checks of one entity.               *)
EXTENDS Monitoring

CONSTANTS h1, h2

MCHttp == {h1, h2}
MCSchedule == <<h1, h2>>
MCNone == {}
=============================================================================

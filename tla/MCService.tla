------------------------------ MODULE MCService ------------------------------
(* Instances of Service for TLC.                                           *)
EXTENDS Service

CONSTANT a1

MCOne == {a1}
MCPids == 1..3
=============================================================================

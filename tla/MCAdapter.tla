----------------------------- MODULE MCAdapter -----------------------------
(* Instances of Adapter for TLC.                                           *)
EXTENDS Adapter

CONSTANTS h1, u1

MCHttp == {h1}
MCUdp == {u1}
MCNone == {}
=============================================================================

-------------------------- MODULE MCParserFactory --------------------------
(* Instances of ParserFactory for TLC.                                     *)
EXTENDS ParserFactory, TLC

MCNames == {"check_disk", "constructor"}
MCInherited == {"constructor"}
MCProbes == {"check_disk", "check_load"}
MCNone == {}
=============================================================================

----------------------------- MODULE MCStartup -----------------------------
(* Instances of Startup for TLC.                                           *)
EXTENDS Startup

\* parsersPath: two names of one directory, and the default one.
MCNames == {"custom", "./custom", "default"}
MCDefault == "default"
MCResolve == [n \in MCNames |-> IF n = "./custom" THEN "custom" ELSE n]

MCAddresses == {"u1", "u2"}
MCParsers == {"p"}
MCNoParser == "noParser"
=============================================================================

-------------------------- MODULE MCArgumentParser --------------------------
(* Instances of ArgumentParser for TLC, named after the options of NRPE.   *)
EXTENDS ArgumentParser

MCValued == {"H"}
MCFlags == {"n"}
MCOthers == {"-"}
=============================================================================

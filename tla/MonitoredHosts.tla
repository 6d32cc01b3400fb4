--------------------------- MODULE MonitoredHosts ---------------------------
(***************************************************************************)
(* Which hosts the module has named to NGSI Adapter since it was loaded:   *)
(* EventBroker, with a record of the addresses that the names of the hosts *)
(* have had and of those that the requests for them had in their URLs.     *)
(* The entity of a host is its address in the region, so two hosts with    *)
(* one address are one entity to Context Broker.                           *)
(***************************************************************************)
EXTENDS EventBroker

VARIABLES
    resolved,   \* addresses each name has had since the module was loaded
    named       \* addresses in the URLs requested for each host since then

hvars == <<vars, resolved, named>>

Hosts == {"localhost", "remote"}
Nowhere == [h \in Hosts |-> {}]

\* Where the plugin of a check ran: check_nrpe runs it on the remote host, any other
\* program is run by Nagios.
HostOf(c) == IF c.exec = "check_nrpe" THEN "remote" ELSE "localhost"

HistoryInit ==
    /\ Init
    /\ resolved = Nowhere
    /\ named = Nowhere

\* The addresses known from an earlier load do not count.
Resolve ==
    resolved' = [h \in Hosts |->
        IF module' = "registered"
        THEN (IF module = "registered" THEN resolved[h] ELSE {}) \cup ({dns'[h]} \ {NULL})
        ELSE {}]

\* A request is sent for a host.  Without a command line no one knows what program ran.
Name ==
    named' = IF module' # "registered" THEN Nowhere
             ELSE IF /\ request = NoRequest /\ request' # NoRequest
                     /\ request'.addr # NULL /\ check'.raw
                  THEN [named EXCEPT ![HostOf(check')] = @ \cup {request'.addr}]
                  ELSE named

HistoryNext == Next /\ Resolve /\ Name

HistorySpec == HistoryInit /\ [][HistoryNext]_hvars

----------------------------------------------------------------------------
\* The monitoring host is one entity from a load of the module to the next, whatever
\* its name resolves to meanwhile (common.c:178), and no check names an address that
\* the host it was run on has not had in that time: an entity is only shared by two
\* hosts whose names have both resolved to its address since the load.
HostsNotConfused ==
    /\ \A a, b \in named["localhost"] : a = b
    /\ \A h \in Hosts : named[h] \subseteq resolved[h]
=============================================================================

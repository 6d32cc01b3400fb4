------------------------------ MODULE Startup ------------------------------
(***************************************************************************)
(* Start of NGSI Adapter: config.check (lib/config.js) and main            *)
(* (lib/adapter.js), up to the exit of the process.  main runs in one turn *)
(* of the event loop; addresses are bound in later turns, in any order,    *)
(* for host names are resolved by a pool of threads.                       *)
(*                                                                         *)
(* An address is a UDP host and port; two that overlap are the same one.   *)
(***************************************************************************)
EXTENDS Naturals, SequencesExt

CONSTANTS
    Names,          \* directories as they are written in parsersPath
    DefaultName,    \* the one that check adds to the path
    Resolve,        \* absolute directory of each of Names
    MaxPath,        \* bound on the directories given
    Addresses,      \* UDP addresses
    Parsers,        \* parser names
    NoParser,       \* in place of the parser of an endpoint that gives none
    MaxEndpoints    \* bound on the endpoints given

ASSUME DefaultNameAssumption == DefaultName \in Names
ASSUME BoundsAssumption == MaxPath \in Nat \ {0} /\ MaxEndpoints \in Nat

Directories == {Resolve[n] : n \in Names}
Endpoints == [address : Addresses, parser : Parsers \cup {NoParser}]

\* Holders of an address besides an endpoint of the adapter, that is its number.
Free == 0
OtherProgram == MaxEndpoints + 1

VARIABLES
    validArgs,      \* whether the command line has no unknown option nor --help
    givenPath,      \* option parsersPath, as given
    accessible,     \* directories that the user of the process may read
    endpoints,      \* option udpEndpoints
    process,        \* "starting", "running" or "gone"
    parsersPath,    \* option parsersPath, as check leaves it
    http,           \* "none", "binding" or "bound": the HTTP server
    httpTaken,      \* whether another program has the HTTP address
    socket,         \* state of the socket of each endpoint
    holder,         \* who has each UDP address
    failed          \* endpoints whose socket had an error

input == <<validArgs, givenPath, accessible, endpoints>>
vars == <<input, process, parsersPath, http, httpTaken, socket, holder, failed>>

Init ==
    /\ validArgs \in BOOLEAN
    /\ givenPath \in BoundedSeq(Names, MaxPath) \ {<<>>}
    /\ accessible \in SUBSET Directories
    /\ endpoints \in BoundedSeq(Endpoints, MaxEndpoints)
    /\ process = "starting"
    /\ parsersPath = <<>>
    /\ http = "none"
    /\ httpTaken \in BOOLEAN
    /\ socket = [i \in DOMAIN endpoints |-> "none"]
    /\ holder \in [Addresses -> {Free, OtherProgram}]
    /\ failed = {}

\* The sockets of a process that exits are closed by the system.
ProcessExits ==
    /\ process' = "gone"
    /\ http' = "none"
    /\ socket' = [i \in DOMAIN endpoints |-> "none"]
    /\ holder' = [a \in Addresses |-> IF holder[a] = OtherProgram THEN OtherProgram ELSE Free]

----------------------------------------------------------------------------
\* The default directory is looked for after all others.
Searched == [i \in 1..Len(givenPath) + 1 |-> Resolve[Append(givenPath, DefaultName)[i]]]

\* MUTATION of Unique: the last of several is kept.
Unique_KeepsLast(list) ==
    FoldRight(LAMBDA d, kept : IF d \in ToSet(kept) THEN kept ELSE <<d>> \o kept, list, <<>>)
\* The first of several equal directories is kept (filter by indexOf).
Unique(list) ==
    FoldLeft(LAMBDA kept, d : IF d \in ToSet(kept) THEN kept ELSE Append(kept, d), <<>>, list)

\* MUTATION of NormalizedPath: the names are kept as they were written.
NormalizedPath_AsGiven == Unique(Append(givenPath, DefaultName))
NormalizedPath == Unique(Searched)

\* main: config.check, which exits on its first error, and the calls that begin to
\* bind the addresses.  Endpoints without a parser are ignored.
Main ==
    /\ process = "starting"
    /\ IF validArgs /\ ToSet(Searched) \subseteq accessible
       THEN /\ process' = "running"
            /\ parsersPath' = NormalizedPath
            /\ http' = "binding"
            /\ socket' = [i \in DOMAIN endpoints |->
                             IF endpoints[i].parser = NoParser THEN "none" ELSE "binding"]
            /\ UNCHANGED holder
       ELSE /\ ProcessExits
            /\ UNCHANGED parsersPath
    /\ UNCHANGED <<input, httpTaken, failed>>

HttpListening ==
    /\ http = "binding" /\ ~httpTaken
    /\ http' = "bound"
    /\ UNCHANGED <<input, process, parsersPath, httpTaken, socket, holder, failed>>

\* MUTATION of HttpError: the error is only logged, as those of UDP.
HttpError_Logged ==
    /\ http = "binding"
    /\ http' = "none"
    /\ UNCHANGED <<input, process, parsersPath, httpTaken, socket, holder, failed>>
\* The address is taken or does not exist.  Nobody listens to the 'error' of the
\* server: it is an uncaught exception.
HttpError ==
    /\ http = "binding"
    /\ ProcessExits
    /\ UNCHANGED <<input, parsersPath, httpTaken, failed>>

UdpListening(i) ==
    /\ socket[i] = "binding"
    /\ holder[endpoints[i].address] = Free
    /\ socket' = [socket EXCEPT ![i] = "bound"]
    /\ holder' = [holder EXCEPT ![endpoints[i].address] = i]
    /\ UNCHANGED <<input, process, parsersPath, http, httpTaken, failed>>

\* udpServer.close()
Close(i) ==
    /\ socket' = [socket EXCEPT ![i] = "closed"]
    /\ holder' = [a \in Addresses |-> IF holder[a] = i THEN Free ELSE holder[a]]

\* MUTATION of UdpError: a variable that all the endpoints share is closed.
UdpError_SharedVariable(i) ==
    /\ socket[i] \in {"binding", "bound"}
    /\ failed' = failed \cup {i}
    /\ Close(Len(endpoints))
    /\ UNCHANGED <<input, process, parsersPath, http, httpTaken>>
\* The address is taken or does not exist, or receiving fails.
UdpError(i) ==
    /\ socket[i] \in {"binding", "bound"}
    /\ failed' = failed \cup {i}
    /\ Close(i)
    /\ UNCHANGED <<input, process, parsersPath, http, httpTaken>>

\* SIGINT, SIGTERM, or an uncaught exception.
Exit ==
    /\ process = "running"
    /\ ProcessExits
    /\ UNCHANGED <<input, parsersPath, httpTaken, failed>>

\* Another program takes or leaves an address (external).
OtherProgramUdp(a) ==
    /\ holder[a] \in {Free, OtherProgram}
    /\ holder' = [holder EXCEPT ![a] = IF @ = Free THEN OtherProgram ELSE Free]
    /\ UNCHANGED <<input, process, parsersPath, http, httpTaken, socket, failed>>

OtherProgramHttp ==
    /\ http # "bound"
    /\ httpTaken' = ~httpTaken
    /\ UNCHANGED <<input, process, parsersPath, http, socket, holder, failed>>

Next ==
    \/ Main \/ HttpListening \/ HttpError \/ Exit
    \/ \E i \in DOMAIN endpoints : UdpListening(i) \/ UdpError(i)
    \/ \E a \in Addresses : OtherProgramUdp(a)
    \/ OtherProgramHttp

Spec == Init /\ [][Next]_vars

\* Node runs main and, in the end, reports how listen ended.
FairSpec == Spec /\ WF_vars(Main) /\ WF_vars(HttpListening \/ HttpError)

----------------------------------------------------------------------------
\* Types of the options, the servers and the addresses.
TypeOK ==
    /\ validArgs \in BOOLEAN
    /\ givenPath \in Seq(Names)
    /\ accessible \subseteq Directories
    /\ endpoints \in Seq(Endpoints)
    /\ process \in {"starting", "running", "gone"}
    /\ parsersPath \in Seq(Directories)
    /\ http \in {"none", "binding", "bound"}
    /\ httpTaken \in BOOLEAN
    /\ socket \in [DOMAIN endpoints -> {"none", "binding", "bound", "closed"}]
    /\ holder \in [Addresses -> 0..OtherProgram]
    /\ failed \subseteq DOMAIN endpoints

\* Endpoints do not disturb one another (adapter.js:257-279), even if they have the
\* same address: while the adapter runs, those that had an error are closed and no
\* others, an address is held by the bound socket of it, and what is not bound nor
\* failed had no parser or is still to be bound.
EndpointsApart ==
    process = "running" =>
        /\ \A i \in DOMAIN endpoints :
              /\ (socket[i] = "closed") <=> (i \in failed)
              /\ (socket[i] = "bound") <=> (holder[endpoints[i].address] = i)
              /\ (socket[i] = "none") <=> (endpoints[i].parser = NoParser)

\* The adapter never stays up without its HTTP server, although its UDP sockets
\* would keep the process alive (adapter.js:233-236, 252).
ServesHttpOrExits == <>[](process = "gone" \/ http = "bound")

\* What check leaves in parsersPath, for a process that runs: all its directories
\* may be read, the default one is among them, none is there twice, and of two
\* the first is the one that was given first (config.js:119-136).
PathNormalized ==
    process = "running" =>
        LET first(d) == CHOOSE i \in DOMAIN Searched :
                            Searched[i] = d /\ \A j \in 1..i - 1 : Searched[j] # d
        IN /\ Resolve[DefaultName] \in ToSet(parsersPath)
           /\ ToSet(parsersPath) \subseteq accessible
           /\ {Resolve[givenPath[i]] : i \in DOMAIN givenPath} \subseteq ToSet(parsersPath)
           /\ \A i, j \in DOMAIN parsersPath :
                 i < j => first(parsersPath[i]) < first(parsersPath[j])
=============================================================================

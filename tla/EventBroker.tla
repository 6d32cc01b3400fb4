----------------------------- MODULE EventBroker -----------------------------
(***************************************************************************)
(* The module loaded in the process of Nagios                              *)
(* (src/ngsi_event_broker/src): its initialization, the callback run for   *)
(* every service check and, in the two libraries built from that code, the *)
(* decision of which entity the check is about (get_adapter_request of     *)
(* ngsi_event_broker_xifi.c and of ngsi_event_broker_fiware.c).            *)
(*                                                                         *)
(* Nagios is external: it runs one function of the module at a time, and   *)
(* waits for the answer to the request that a callback sends.  Strings are *)
(* abstracted to the cases the code compares them with.                    *)
(***************************************************************************)
EXTENDS Naturals, Sequences

CONSTANTS
    Values,     \* values the administrator may give to a module option
    Addresses,  \* addresses host names may resolve to
    NULL        \* the null pointer, and a failed resolution

\* A custom variable of the service (Nagios drops the underscore).
Types == {"ge", "vm", "interface", "host_service"}
ASSUME NullAssumption == NULL \notin Values \cup Addresses \cup Types

Variable(t) == [name |-> "ENTITY_TYPE", value |-> t]
OtherVariable == [name |-> "OTHER", value |-> "vm"]
VarLists == {<<>>, <<OtherVariable>>}
            \cup UNION {{<<Variable(t)>>, <<Variable(t), OtherVariable>>,
                         <<OtherVariable, Variable(t)>>} : t \in Types \cup {NULL}}

\* What Nagios tells of a check: whether it has been executed; whether its host,
\* service and command are known; whether there is a command line; the names of
\* the command, of the program it runs and, for NRPE, of the remote command; the
\* options of the command line and the custom variables of the service.
Checks == {c \in [executed : BOOLEAN, known : BOOLEAN, raw : BOOLEAN,
                  command : {"check_snmp", "check_other"},
                  exec : {"check_nrpe", "check_other"},
                  remote : {"check_snmp", "check_other"},
                  opts : SUBSET {"H", "o", "n"}, vars : VarLists] :
              \* -o is an option of SNMP plugins and -n one of check_nrpe
              /\ IF c.exec = "check_nrpe" THEN "o" \notin c.opts ELSE "n" \notin c.opts
              \* the rest is only looked at for an executed, known check
              /\ ~(c.executed /\ c.known) => ~c.raw /\ c.vars = <<>>
              /\ ~c.raw => c.opts = {}
              /\ c.exec = "check_other" => c.remote = "check_other"}

VARIABLES
    library,        \* which of the two libraries Nagios loads: "xifi" or "fiware"
    args,           \* options the module is loaded with, NULL when not given
    adapter_url,
    region_id,
    host_addr,
    module,         \* "unloaded", "registered" or "crashed"
    dns,            \* addresses of the local and of the monitored host
    check,          \* check whose callback is waiting for an answer, or NoCheck
    request         \* URL being requested, or NoRequest

settings == <<adapter_url, region_id, host_addr>>
vars == <<library, args, adapter_url, region_id, host_addr, module, dns, check, request>>

NoRequest == [result |-> "none"]
\* Results of get_adapter_request that are not a URL.
INVALID == [result |-> "invalid"]
IGNORE == [result |-> "ignore"]
CRASH == [result |-> "crash"]

Options == [{"u", "r"} -> Values \cup {NULL}]
Resolutions == [{"localhost", "remote"} -> Addresses \cup {NULL}]
NoCheck == CHOOSE c \in Checks : ~c.executed

Init ==
    /\ library \in {"xifi", "fiware"}
    /\ args \in Options
    /\ adapter_url = NULL
    /\ region_id = NULL
    /\ host_addr = NULL
    /\ module = "unloaded"
    /\ dns \in Resolutions
    /\ check = NoCheck
    /\ request = NoRequest

----------------------------------------------------------------------------
\* Initialization.

\* A variable is only assigned when its option is given.  Nothing else resets it
\* but free_module_variables.
GivenOption(old, option) == IF args[option] # NULL THEN args[option] ELSE old

\* MUTATION of InitModuleVariables: a module without a region is registered.
InitModuleVariables_AnyRegion(url, region, named) ==
    /\ url # NULL
    /\ named
    /\ dns["localhost"] # NULL
\* Success of init_module_variables: both options and the local address.
InitModuleVariables(url, region, named) ==
    /\ url # NULL /\ region # NULL
    /\ named
    /\ dns["localhost"] # NULL

\* MUTATION of FreeModuleVariables: the region is not released.
FreeModuleVariables_KeepsRegion ==
    /\ adapter_url' = NULL
    /\ region_id' = region_id
    /\ host_addr' = NULL
FreeModuleVariables ==
    /\ adapter_url' = NULL
    /\ region_id' = NULL
    /\ host_addr' = NULL

\* nebmodule_init: versions, variables, libcurl, registration of the callback.
\* Whatever fails, nebmodule_deinit releases everything.
NebmoduleInit ==
    /\ module = "unloaded"
    /\ \E version, named, curl, registration \in BOOLEAN :
          LET url == GivenOption(adapter_url, "u")
              region == GivenOption(region_id, "r")
          IN IF version /\ InitModuleVariables(url, region, named) /\ curl /\ registration
             THEN /\ adapter_url' = url
                  /\ region_id' = region
                  /\ host_addr' = dns["localhost"]
                  /\ module' = "registered"
             ELSE /\ FreeModuleVariables
                  /\ UNCHANGED module
    /\ UNCHANGED <<library, args, dns, check, request>>

\* Nagios stops or reloads its configuration between two events.
NebmoduleDeinit ==
    /\ module = "registered"
    /\ request = NoRequest
    /\ FreeModuleVariables
    /\ module' = "unloaded"
    /\ UNCHANGED <<library, args, dns, check, request>>

----------------------------------------------------------------------------
\* The request for a check.

\* find_plugin_command_name: NRPE is known by the program of the command line,
\* and then the name is that of the remote command.
Nrpe(c) == c.raw /\ c.exec = "check_nrpe"
PluginName(c) == IF Nrpe(c) THEN c.remote ELSE c.command

\* The query of a URL: the address that identifies a host, NULL for entities that
\* are identified by what Nagios is configured with, and the type.
Url(addr, type) ==
    [addr |-> addr, type |-> type, adapter |-> adapter_url, region |-> region_id]

\* Only the first custom variable of the service is looked at.
Explicit(c) == c.vars # <<>> /\ Head(c.vars).name = "ENTITY_TYPE"

\* Entity type of a check whose service does not give one.
Implicit(c) == IF PluginName(c) = "check_snmp" THEN "interface"
               ELSE IF Nrpe(c) THEN "vm" ELSE "host"
EntityType(c) == IF Explicit(c) THEN Head(c.vars).value ELSE Implicit(c)

NpmGetAdapterRequest(c) ==
    IF c.opts = {"H", "o"} THEN Url(NULL, EntityType(c)) ELSE INVALID

\* MUTATION of DemGetAdapterRequest: the local address is resolved every time.
DemGetAdapterRequest_Resolves(c) ==
    CASE ~Nrpe(c) -> Url(dns["localhost"], EntityType(c))
      [] Nrpe(c) /\ "n" \in c.opts -> CRASH
      [] Nrpe(c) /\ c.opts = {"H"} /\ dns["remote"] # NULL ->
            Url(dns["remote"], EntityType(c))
      [] OTHER -> INVALID
\* MUTATION of DemGetAdapterRequest: without an address for the remote host, the buffer
\* has the one of this host.
DemGetAdapterRequest_FallsBack(c) ==
    CASE Nrpe(c) /\ "n" \in c.opts -> CRASH
      [] Nrpe(c) /\ c.opts = {"H"} /\ dns["remote"] # NULL ->
            Url(dns["remote"], EntityType(c))
      [] Nrpe(c) /\ c.opts = {} -> INVALID
      [] OTHER -> Url(host_addr, EntityType(c))
\* A host: this one, at the address found when the module was loaded, or the
\* remote one, at the address its -H option resolves to now.  An option without a
\* value, as -n, crashes the process while the arguments are parsed.
DemGetAdapterRequest(c) ==
    CASE ~Nrpe(c) -> Url(host_addr, EntityType(c))
      [] Nrpe(c) /\ "n" \in c.opts -> CRASH
      [] Nrpe(c) /\ c.opts = {"H"} /\ dns["remote"] # NULL ->
            Url(dns["remote"], EntityType(c))
      [] OTHER -> INVALID

SrvGetAdapterRequest(c) == Url(NULL, EntityType(c))

XifiGetAdapterRequest(c) ==
    CASE ~c.known -> INVALID
      [] c.known /\ EntityType(c) = NULL -> CRASH
      [] c.known /\ EntityType(c) = "host_service" -> SrvGetAdapterRequest(c)
      [] c.known /\ EntityType(c) = "interface" -> NpmGetAdapterRequest(c)
      [] OTHER -> DemGetAdapterRequest(c)

FiwareGetAdapterRequest(c) ==
    CASE ~c.known \/ ~c.raw -> INVALID
      [] c.known /\ c.raw /\ Explicit(c) /\ EntityType(c) = NULL -> CRASH
      [] c.known /\ c.raw /\ Explicit(c) /\ EntityType(c) = "ge" ->
            Url(NULL, "ge")
      [] OTHER -> IGNORE

GetAdapterRequest(c) == IF library = "xifi" THEN XifiGetAdapterRequest(c)
                                            ELSE FiwareGetAdapterRequest(c)

----------------------------------------------------------------------------
\* callback_service_check, up to curl_easy_perform: nothing is sent for a check
\* about to be executed, without a request or without a handle of libcurl.
CallbackServiceCheck ==
    /\ module = "registered"
    /\ request = NoRequest
    /\ \E c \in Checks :
          LET result == GetAdapterRequest(c)
          IN \/ UNCHANGED <<check, request, module>>
             \/ /\ c.executed /\ result = CRASH
                /\ module' = "crashed"
                /\ UNCHANGED <<check, request>>
             \/ /\ c.executed /\ result \notin {INVALID, IGNORE, CRASH}
                /\ check' = c
                /\ request' = result
                /\ UNCHANGED module
    /\ UNCHANGED <<library, args, dns, settings>>

\* The adapter answers or the connection fails: both are logged, and the callback
\* returns.  The request is never repeated.
CurlReturns ==
    /\ request # NoRequest
    /\ request' = NoRequest
    /\ check' = NoCheck
    /\ UNCHANGED <<library, args, dns, settings, module>>

\* The environment: names resolve to other addresses, the administrator edits the
\* options while the module is not loaded, Nagios is started again after a crash.
ChangeDns ==
    /\ \E name \in DOMAIN dns, a \in Addresses \cup {NULL} : dns' = [dns EXCEPT ![name] = a]
    /\ UNCHANGED <<library, args, settings, module, check, request>>

ChangeArgs ==
    /\ module = "unloaded"
    /\ args' \in Options
    /\ UNCHANGED <<library, dns, settings, module, check, request>>

Recover ==
    /\ module = "crashed"
    /\ module' = "unloaded"
    /\ adapter_url' = NULL /\ region_id' = NULL /\ host_addr' = NULL
    /\ UNCHANGED <<library, args, dns, check, request>>

Next ==
    \/ NebmoduleInit \/ NebmoduleDeinit
    \/ CallbackServiceCheck \/ CurlReturns
    \/ ChangeDns \/ ChangeArgs \/ Recover

Spec == Init /\ [][Next]_vars

----------------------------------------------------------------------------
\* Types of the settings, of the environment and of the request.
TypeOK ==
    /\ library \in {"xifi", "fiware"}
    /\ args \in Options
    /\ adapter_url \in Values \cup {NULL}
    /\ region_id \in Values \cup {NULL}
    /\ host_addr \in Addresses \cup {NULL}
    /\ module \in {"unloaded", "registered", "crashed"}
    /\ dns \in Resolutions
    /\ check \in Checks
    /\ request \in {NoRequest} \cup
          [addr : Addresses \cup {NULL}, type : Types \cup {"host"},
           adapter : Values, region : Values]

\* While the callback is registered its settings are complete and are the ones
\* the module was loaded with: whatever failed initializations came before, an
\* option that is not given is missed and never taken from an earlier load.
SettingsAreCurrent ==
    module = "registered" =>
        /\ adapter_url = args["u"] /\ adapter_url # NULL
        /\ region_id = args["r"] /\ region_id # NULL
        /\ host_addr # NULL

\* A type given by a custom variable supersedes the default one in any case
\* (the comment of ngsi_event_broker_xifi.c:43-44).
ExplicitTypeSupersedes ==
    request # NoRequest =>
        \A i \in DOMAIN check.vars :
            check.vars[i].name = "ENTITY_TYPE" /\ check.vars[i].value # NULL
                => request.type = check.vars[i].value
=============================================================================

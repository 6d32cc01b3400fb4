-------------------------- MODULE EventBrokerProofs --------------------------
(***************************************************************************)
(* Proofs about EventBroker and MonitoredHosts, for any library, values    *)
(* and addresses.                                                          *)
(*                                                                         *)
(* SettingsAreCurrent is not inductive: an option that is not given keeps  *)
(* the value its variable had, so nothing may be left in the variables     *)
(* between two loads.  Released says that.  HostsNotConfused needs that    *)
(* the addresses names have now are in the record, and that the local one  *)
(* in use came from there.                                                 *)
(***************************************************************************)
EXTENDS MonitoredHosts, TLAPS

Released == module = "unloaded" => adapter_url = NULL /\ region_id = NULL /\ host_addr = NULL

SettingsInv == SettingsAreCurrent /\ Released

\* The settings of the module are complete and current in the initial states and
\* after each of its steps (nebmodule_init, nebmodule_deinit and the callback).
LEMMA SettingsInductive ==
    /\ Init => SettingsInv
    /\ SettingsInv /\ [Next]_vars => SettingsInv'
<1>1. Init => SettingsInv
  BY DEF Init, SettingsInv, SettingsAreCurrent, Released
<1>2. SettingsInv /\ [Next]_vars => SettingsInv'
  <2>0. SUFFICES ASSUME SettingsInv, [Next]_vars PROVE SettingsInv'
    OBVIOUS
  <2> USE DEF SettingsInv, SettingsAreCurrent, Released
  <2>1. CASE NebmoduleInit
    <3>1. module = "unloaded" /\ adapter_url = NULL /\ region_id = NULL
      BY <2>0, <2>1 DEF NebmoduleInit
    <3>2. CASE module' = "registered"
      <4>1. /\ adapter_url' = GivenOption(adapter_url, "u")
            /\ region_id' = GivenOption(region_id, "r")
            /\ host_addr' = dns["localhost"]
            /\ adapter_url' # NULL /\ region_id' # NULL /\ host_addr' # NULL
            /\ args' = args
        BY <2>1, <3>1, <3>2 DEF NebmoduleInit, InitModuleVariables
      <4>2. adapter_url' = args["u"] /\ region_id' = args["r"]
        BY <3>1, <4>1 DEF GivenOption
      <4> QED BY <3>2, <4>1, <4>2
    <3>3. CASE module' # "registered"
      BY <2>1, <3>1, <3>3 DEF NebmoduleInit, FreeModuleVariables
    <3> QED BY <3>2, <3>3
  <2>2. CASE NebmoduleDeinit
    BY <2>2 DEF NebmoduleDeinit, FreeModuleVariables
  <2>3. CASE CallbackServiceCheck
    <3>1. UNCHANGED <<args, settings>> /\ module' \in {module, "crashed"}
      BY <2>3 DEF CallbackServiceCheck
    <3>2. UNCHANGED <<args, adapter_url, region_id, host_addr>>
      BY <3>1 DEF settings
    <3> QED BY <2>0, <3>1, <3>2
  <2>4. CASE CurlReturns
    BY <2>0, <2>4 DEF CurlReturns, settings
  <2>5. CASE ChangeDns
    BY <2>0, <2>5 DEF ChangeDns, settings
  <2>6. CASE ChangeArgs
    BY <2>0, <2>6 DEF ChangeArgs, settings
  <2>7. CASE Recover
    BY <2>0, <2>7 DEF Recover
  <2>8. CASE UNCHANGED vars
    BY <2>0, <2>8 DEF vars
  <2> QED BY <2>0, <2>1, <2>2, <2>3, <2>4, <2>5, <2>6, <2>7, <2>8 DEF Next
<1> QED BY <1>1, <1>2

\* Whatever loads failed before, and whichever options they were given, a
\* registered callback works with the options of the last load, all of them.
THEOREM SettingsCurrent == Spec => []SettingsAreCurrent
<1>1. SettingsInv => SettingsAreCurrent
  BY DEF SettingsInv
<1> QED BY <1>1, SettingsInductive, PTL DEF Spec

----------------------------------------------------------------------------
\* The record of MonitoredHosts while the module is registered: it has the addresses
\* that the names have now, and the one the module found when it was loaded.
HostsInv ==
    /\ SettingsInv
    /\ DOMAIN named = Hosts /\ DOMAIN dns = Hosts
    /\ module # "registered" => resolved = Nowhere /\ named = Nowhere
    /\ module = "registered" =>
          /\ host_addr \in resolved["localhost"]
          /\ \A h \in Hosts : dns[h] # NULL => dns[h] \in resolved[h]
          /\ named["localhost"] \subseteq {host_addr}
          /\ named["remote"] \subseteq resolved["remote"]

\* A URL with an address has that of the host on which the plugin ran, as far as the
\* module knows the program: the remote one as its name resolves now.
LEMMA AddressBuilt ==
    ASSUME NEW c \in Checks,
           GetAdapterRequest(c) \notin {INVALID, IGNORE, CRASH},
           GetAdapterRequest(c).addr # NULL
    PROVE  GetAdapterRequest(c).addr = IF Nrpe(c) THEN dns["remote"] ELSE host_addr
<1> DEFINE r == GetAdapterRequest(c)
<1>1. CASE library = "xifi"
  <2>1. \/ r = SrvGetAdapterRequest(c)
        \/ r = NpmGetAdapterRequest(c)
        \/ r = DemGetAdapterRequest(c)
    BY <1>1 DEF GetAdapterRequest, XifiGetAdapterRequest
  <2>2. CASE r = SrvGetAdapterRequest(c)
    BY <2>2 DEF SrvGetAdapterRequest, Url
  <2>3. CASE r = NpmGetAdapterRequest(c)
    BY <2>3 DEF NpmGetAdapterRequest, Url
  <2>4. CASE r = DemGetAdapterRequest(c)
    BY <2>4 DEF DemGetAdapterRequest, Url
  <2> QED BY <2>1, <2>2, <2>3, <2>4
<1>2. CASE library # "xifi"
  <2>1. r = Url(NULL, "ge")
    BY <1>2 DEF GetAdapterRequest, FiwareGetAdapterRequest
  <2> QED BY <2>1 DEF Url
<1> QED BY <1>1, <1>2

\* While the module stays registered the record keeps up with what names resolve to,
\* and forgets nothing.
LEMMA RecordKept ==
    ASSUME HostsInv, HistoryNext, module' = "registered",
           module = "registered", UNCHANGED host_addr,
           dns' = dns \/ \E h \in Hosts, a \in Addresses \cup {NULL} : dns' = [dns EXCEPT ![h] = a]
    PROVE  /\ host_addr' \in resolved'["localhost"]
           /\ \A h \in Hosts : dns'[h] # NULL => dns'[h] \in resolved'[h]
           /\ \A h \in Hosts : resolved[h] \subseteq resolved'[h]
<1>1. resolved' = [h \in Hosts |-> resolved[h] \cup ({dns'[h]} \ {NULL})]
  BY DEF HistoryNext, Resolve
<1> QED BY <1>1 DEF HostsInv, Hosts

\* The record holds in the initial states and after each step.
LEMMA HostsInductive ==
    /\ HistoryInit => HostsInv
    /\ HostsInv /\ [HistoryNext]_hvars => HostsInv'
<1>1. HistoryInit => HostsInv
  BY SettingsInductive DEF HistoryInit, Init, HostsInv, Nowhere, Hosts, Resolutions
<1>2. HostsInv /\ [HistoryNext]_hvars => HostsInv'
  <2>0. SUFFICES ASSUME HostsInv, [HistoryNext]_hvars PROVE HostsInv'
    OBVIOUS
  <2>1. CASE UNCHANGED hvars
    <3>1. UNCHANGED <<args, adapter_url, region_id, host_addr, module, dns, resolved, named>>
      BY <2>1 DEF hvars, vars
    <3> QED BY <2>0, <3>1 DEF HostsInv, SettingsInv, SettingsAreCurrent, Released
  <2>2. CASE HistoryNext
    <3>1. SettingsInv'
      BY <2>0, <2>2, SettingsInductive DEF HistoryNext, HostsInv
    <3>d. DOMAIN dns' = Hosts
      BY <2>0, <2>2 DEF HostsInv, HistoryNext, Next, NebmoduleInit, NebmoduleDeinit,
         CallbackServiceCheck, CurlReturns, ChangeDns, ChangeArgs, Recover, settings
    <3>2. CASE module' # "registered"
      <4>1. named' = Nowhere
        BY <2>2, <3>2 DEF HistoryNext, Name
      <4>2. resolved' = Nowhere
        BY <2>2, <3>2 DEF HistoryNext, Resolve, Nowhere
      <4> QED BY <3>1, <3>2, <3>d, <4>1, <4>2 DEF HostsInv, Nowhere
    <3>3. CASE module' = "registered" /\ module # "registered"
      <4>1. NebmoduleInit
        BY <2>2, <3>3 DEF HistoryNext, Next, NebmoduleDeinit, CallbackServiceCheck,
                          CurlReturns, ChangeDns, ChangeArgs, Recover
      <4>2. /\ host_addr' = dns["localhost"] /\ dns["localhost"] # NULL
            /\ UNCHANGED <<dns, request>>
        BY <3>3, <4>1 DEF NebmoduleInit, InitModuleVariables
      <4>3. resolved' = [h \in Hosts |-> {dns'[h]} \ {NULL}]
        BY <2>2, <3>3 DEF HistoryNext, Resolve
      <4>4. named' = Nowhere
        BY <2>0, <2>2, <3>3, <4>2 DEF HistoryNext, Name, HostsInv
      <4>5. /\ host_addr' \in resolved'["localhost"]
            /\ \A h \in Hosts : dns'[h] # NULL => dns'[h] \in resolved'[h]
        BY <4>2, <4>3 DEF Hosts
      <4> QED BY <3>1, <3>3, <3>d, <4>4, <4>5 DEF HostsInv, Nowhere, Hosts
    <3>4. CASE module' = "registered" /\ module = "registered"
      <4>1. CASE CallbackServiceCheck /\ request' # NoRequest
        <5>1. PICK c \in Checks : /\ GetAdapterRequest(c) \notin {INVALID, IGNORE, CRASH}
                                  /\ check' = c
                                  /\ request' = GetAdapterRequest(c)
          BY <4>1 DEF CallbackServiceCheck
        <5>2. UNCHANGED <<dns, host_addr>>
          BY <4>1 DEF CallbackServiceCheck, settings
        <5>3. /\ host_addr' \in resolved'["localhost"]
              /\ \A h \in Hosts : dns'[h] # NULL => dns'[h] \in resolved'[h]
              /\ \A h \in Hosts : resolved[h] \subseteq resolved'[h]
          BY <2>0, <2>2, <3>4, <5>2, RecordKept
        <5>4. CASE named' = named
          BY <2>0, <3>1, <3>4, <5>2, <5>3, <5>4 DEF HostsInv, Hosts
        <5>5. CASE named' # named
          <6>1. /\ named' = [named EXCEPT ![HostOf(c)] = @ \cup {request'.addr}]
                /\ request'.addr # NULL /\ c.raw
            BY <2>2, <3>4, <5>1, <5>5 DEF HistoryNext, Name
          <6>2. request'.addr = IF Nrpe(c) THEN dns["remote"] ELSE host_addr
            BY <5>1, <6>1, AddressBuilt
          <6>3. CASE Nrpe(c)
            <7>1. HostOf(c) = "remote" /\ request'.addr = dns["remote"]
              BY <6>2, <6>3 DEF Nrpe, HostOf
            <7>2. request'.addr \in resolved'["remote"]
              BY <5>2, <5>3, <6>1, <7>1 DEF Hosts
            <7>3. named' = [named EXCEPT !["remote"] = @ \cup {request'.addr}]
              BY <6>1, <7>1
            <7>4. /\ named'["localhost"] = named["localhost"]
                  /\ named'["remote"] = named["remote"] \cup {request'.addr}
              BY <2>0, <7>3 DEF HostsInv, Hosts
            <7> QED BY <2>0, <3>1, <3>4, <5>2, <5>3, <7>2, <7>3, <7>4 DEF HostsInv, Hosts
          <6>4. CASE ~Nrpe(c)
            <7>1. HostOf(c) = "localhost" /\ request'.addr = host_addr
              BY <6>1, <6>2, <6>4 DEF Nrpe, HostOf
            <7>3. named' = [named EXCEPT !["localhost"] = @ \cup {request'.addr}]
              BY <6>1, <7>1
            <7>4. /\ named'["remote"] = named["remote"]
                  /\ named'["localhost"] = named["localhost"] \cup {host_addr}
              BY <2>0, <7>1, <7>3 DEF HostsInv, Hosts
            <7> QED BY <2>0, <3>1, <3>4, <5>2, <5>3, <7>3, <7>4 DEF HostsInv, Hosts
          <6> QED BY <6>3, <6>4
        <5> QED BY <5>4, <5>5
      <4>2. CASE ~(CallbackServiceCheck /\ request' # NoRequest)
        <5>1. /\ ~(request = NoRequest /\ request' # NoRequest)
              /\ UNCHANGED host_addr
              /\ dns' = dns \/ \E h \in Hosts, a \in Addresses \cup {NULL} :
                                  dns' = [dns EXCEPT ![h] = a]
          <6>1. DOMAIN dns = Hosts
            BY <2>0 DEF HostsInv
          <6>2. CASE ChangeDns
            BY <6>1, <6>2 DEF ChangeDns, settings
          <6>3. CASE ~ChangeDns
            BY <2>2, <3>4, <4>2, <6>3 DEF HistoryNext, Next, NebmoduleInit, NebmoduleDeinit,
               CallbackServiceCheck, CurlReturns, ChangeArgs, Recover, settings
          <6> QED BY <6>2, <6>3
        <5>2. named' = named
          BY <2>2, <3>4, <5>1 DEF HistoryNext, Name
        <5>3. /\ host_addr' \in resolved'["localhost"]
              /\ \A h \in Hosts : dns'[h] # NULL => dns'[h] \in resolved'[h]
              /\ \A h \in Hosts : resolved[h] \subseteq resolved'[h]
          BY <2>0, <2>2, <3>4, <5>1, RecordKept
        <5> QED BY <2>0, <3>1, <3>4, <5>1, <5>2, <5>3 DEF HostsInv, Hosts
      <4> QED BY <4>1, <4>2
    <3> QED BY <3>2, <3>3, <3>4
  <2> QED BY <2>0, <2>1, <2>2
<1> QED BY <1>1, <1>2

\* From a load of the module to the next, the requests for local plugins name one
\* address, and those for any host name addresses that it has had in that time.
THEOREM HostsCorrect == HistorySpec => []HostsNotConfused
<1>1. HostsInv => HostsNotConfused
  <2>1. SUFFICES ASSUME HostsInv PROVE HostsNotConfused
    OBVIOUS
  <2>2. CASE module = "registered"
    BY <2>1, <2>2 DEF HostsInv, HostsNotConfused, Hosts
  <2>3. CASE module # "registered"
    BY <2>1, <2>3 DEF HostsInv, HostsNotConfused, Hosts, Nowhere
  <2> QED BY <2>2, <2>3
<1> QED BY <1>1, HostsInductive, PTL DEF HistorySpec

----------------------------------------------------------------------------
\* TypeOK needs SettingsAreCurrent: a URL has values of both options in it
\* because the callback only runs with complete settings.

\* A check that has not been executed exists: NoCheck is one.
LEMMA NoCheckIsCheck == NoCheck \in Checks /\ ~NoCheck.executed
<1> DEFINE none == [executed |-> FALSE, known |-> FALSE, raw |-> FALSE,
                    command |-> "check_other", exec |-> "check_other",
                    remote |-> "check_other", opts |-> {}, vars |-> <<>>]
<1>1. <<>> \in VarLists
  BY DEF VarLists
<1>2. none \in Checks
  BY <1>1 DEF Checks
<1>3. none.executed = FALSE
  OBVIOUS
<1> HIDE DEF none
<1> QED BY <1>2, <1>3 DEF NoCheck

\* The entity type of a check, given by a variable of the service or not.
LEMMA EntityTypes ==
    ASSUME NEW c \in Checks, EntityType(c) # NULL
    PROVE  EntityType(c) \in Types \cup {"host"}
<1>1. c.vars \in VarLists
  BY DEF Checks
<1>2. CASE Explicit(c)
  <2>1. EntityType(c) = Head(c.vars).value
    BY <1>2 DEF EntityType
  <2>2. c.vars # <<>> /\ Head(c.vars).name = "ENTITY_TYPE"
    BY <1>2 DEF Explicit
  <2>3. c.vars # <<OtherVariable>>
    BY <2>2 DEF OtherVariable
  <2>4. PICK t \in Types \cup {NULL} :
           c.vars \in {<<Variable(t)>>, <<Variable(t), OtherVariable>>,
                       <<OtherVariable, Variable(t)>>}
    BY <1>1, <2>2, <2>3 DEF VarLists
  <2>5. c.vars # <<OtherVariable, Variable(t)>>
    BY <2>2 DEF OtherVariable
  <2>6. Head(c.vars) = Variable(t)
    BY <2>4, <2>5
  <2>7. Head(c.vars).value = t
    BY <2>6 DEF Variable
  <2> QED BY <2>1, <2>4, <2>7
<1>3. CASE ~Explicit(c)
  BY <1>3 DEF EntityType, Implicit, Types
<1> QED BY <1>2, <1>3

\* What is sent for a check, by either library: the type is that of the entity,
\* and the rest comes from the settings and from the addresses that are known.
LEMMA UrlBuilt ==
    ASSUME NEW c \in Checks, dns \in Resolutions,
           host_addr \in Addresses \cup {NULL},
           GetAdapterRequest(c) \notin {INVALID, IGNORE, CRASH}
    PROVE  /\ \E addr \in Addresses \cup {NULL} :
                 GetAdapterRequest(c) = Url(addr, EntityType(c))
           /\ EntityType(c) # NULL
<1>0. dns["remote"] \in Addresses \cup {NULL}
  BY DEF Resolutions
<1>1. CASE library = "xifi"
  <2>1. GetAdapterRequest(c) = XifiGetAdapterRequest(c)
    BY <1>1 DEF GetAdapterRequest
  <2>2. EntityType(c) # NULL
    <3>1. NULL # "host_service" /\ NULL # "interface"
      BY NullAssumption DEF Types
    <3>2. EntityType(c) = NULL => XifiGetAdapterRequest(c) \in {INVALID, CRASH}
      BY <3>1 DEF XifiGetAdapterRequest
    <3> QED BY <2>1, <3>2
  <2>3. \/ GetAdapterRequest(c) = SrvGetAdapterRequest(c)
        \/ GetAdapterRequest(c) = NpmGetAdapterRequest(c)
        \/ GetAdapterRequest(c) = DemGetAdapterRequest(c)
    BY <2>1, <2>2 DEF XifiGetAdapterRequest
  <2>4. CASE GetAdapterRequest(c) = SrvGetAdapterRequest(c)
    BY <2>2, <2>4 DEF SrvGetAdapterRequest
  <2>5. CASE GetAdapterRequest(c) = NpmGetAdapterRequest(c)
    BY <2>2, <2>5 DEF NpmGetAdapterRequest
  <2>6. CASE GetAdapterRequest(c) = DemGetAdapterRequest(c)
    BY <1>0, <2>2, <2>6 DEF DemGetAdapterRequest
  <2> QED BY <2>3, <2>4, <2>5, <2>6
<1>2. CASE library # "xifi"
  <2>1. GetAdapterRequest(c) = FiwareGetAdapterRequest(c)
    BY <1>2 DEF GetAdapterRequest
  <2>2. /\ EntityType(c) = "ge"
        /\ GetAdapterRequest(c) = Url(NULL, "ge")
    BY <2>1 DEF FiwareGetAdapterRequest
  <2>3. "ge" # NULL
    BY NullAssumption DEF Types
  <2> QED BY <2>2, <2>3
<1> QED BY <1>1, <1>2

\* What the first custom variable decides: the other variables of the service
\* have no say in the type of the entity (ngsi_event_broker_xifi.c:43).
FirstVariableDecides ==
    request # NoRequest => request.type = EntityType(check)

TypesInv == TypeOK /\ SettingsInv /\ FirstVariableDecides

\* The type invariant, with what it needs of the settings.
LEMMA TypesInductive ==
    /\ Init => TypesInv
    /\ TypesInv /\ [Next]_vars => TypesInv'
<1>1. Init => TypesInv
  <2>0. SUFFICES ASSUME Init PROVE TypesInv
    OBVIOUS
  <2>1. SettingsInv /\ FirstVariableDecides
    BY <2>0, SettingsInductive DEF Init, FirstVariableDecides
  <2>2. TypeOK
    BY <2>0, NoCheckIsCheck DEF Init, TypeOK
  <2> QED BY <2>1, <2>2 DEF TypesInv
<1>2. TypesInv /\ [Next]_vars => TypesInv'
  <2>0. SUFFICES ASSUME TypesInv, [Next]_vars PROVE TypesInv'
    OBVIOUS
  <2>a. TypeOK /\ SettingsAreCurrent /\ FirstVariableDecides
    BY <2>0 DEF TypesInv, SettingsInv
  <2>b. ASSUME UNCHANGED <<check, request>> PROVE FirstVariableDecides'
    BY <2>a, <2>b DEF FirstVariableDecides, EntityType, Explicit, Implicit, PluginName, Nrpe
  <2>c. ASSUME request' = NoRequest PROVE FirstVariableDecides'
    BY <2>c DEF FirstVariableDecides
  <2>s. SettingsInv'
    BY <2>0, SettingsInductive DEF TypesInv
  <2>1. CASE NebmoduleInit
    <3>1. /\ TypeOK'
      <4>1. /\ args \in Options /\ dns \in Resolutions
            /\ adapter_url \in Values \cup {NULL} /\ region_id \in Values \cup {NULL}
        BY <2>a DEF TypeOK
      <4>2. /\ args["u"] \in Values \cup {NULL} /\ args["r"] \in Values \cup {NULL}
            /\ dns["localhost"] \in Addresses \cup {NULL}
        BY <4>1 DEF Options, Resolutions
      <4>3. /\ GivenOption(adapter_url, "u") \in Values \cup {NULL}
            /\ GivenOption(region_id, "r") \in Values \cup {NULL}
        BY <4>1, <4>2 DEF GivenOption
      <4>4. /\ adapter_url' \in Values \cup {NULL} /\ region_id' \in Values \cup {NULL}
            /\ host_addr' \in Addresses \cup {NULL}
            /\ module' \in {"unloaded", "registered", "crashed"}
        BY <2>1, <2>a, <4>2, <4>3 DEF NebmoduleInit, FreeModuleVariables, TypeOK
      <4> QED BY <2>1, <2>a, <4>4 DEF NebmoduleInit, TypeOK
    <3> QED BY <2>1, <2>b, <2>s, <3>1 DEF NebmoduleInit, TypesInv
  <2>2. CASE NebmoduleDeinit
    <3>1. TypeOK' /\ UNCHANGED <<check, request>>
      BY <2>2, <2>a DEF NebmoduleDeinit, FreeModuleVariables, TypeOK
    <3> QED BY <2>b, <2>s, <3>1 DEF TypesInv
  <2>3. CASE CallbackServiceCheck
    <3>1. /\ request = NoRequest /\ module = "registered"
          /\ UNCHANGED <<library, args, dns, adapter_url, region_id, host_addr>>
          /\ module' \in {module, "crashed"}
      BY <2>3 DEF CallbackServiceCheck, settings
    <3>3. CASE UNCHANGED <<check, request>>
      <4>1. TypeOK'
        BY <2>a, <3>1, <3>3 DEF TypeOK
      <4> QED BY <2>b, <2>s, <3>3, <4>1 DEF TypesInv
    <3>4. CASE ~UNCHANGED <<check, request>>
      <4>1. PICK c \in Checks : /\ GetAdapterRequest(c) \notin {INVALID, IGNORE, CRASH}
                                /\ check' = c
                                /\ request' = GetAdapterRequest(c)
                                /\ UNCHANGED module
        BY <2>3, <3>4 DEF CallbackServiceCheck
      <4>2. dns \in Resolutions /\ host_addr \in Addresses \cup {NULL}
        BY <2>a DEF TypeOK
      <4>3. PICK addr \in Addresses \cup {NULL} :
                 /\ request' = Url(addr, EntityType(c))
                 /\ EntityType(c) # NULL
        BY <4>1, <4>2, UrlBuilt
      <4>4. EntityType(c) \in Types \cup {"host"}
        BY <4>3, EntityTypes
      <4>5. adapter_url \in Values /\ region_id \in Values
        BY <2>a, <3>1 DEF TypeOK, SettingsAreCurrent
      <4>6. request' \in [addr : Addresses \cup {NULL}, type : Types \cup {"host"},
                          adapter : Values, region : Values]
        BY <4>3, <4>4, <4>5 DEF Url
      <4>7. TypeOK'
        BY <2>a, <3>1, <4>1, <4>6 DEF TypeOK
      <4>8. request'.type = EntityType(c)
        BY <4>3 DEF Url
      <4>9. EntityType(c) = EntityType(check)'
        BY <4>1 DEF EntityType, Explicit, Implicit, PluginName, Nrpe
      <4>10. FirstVariableDecides'
        BY <4>8, <4>9 DEF FirstVariableDecides
      <4> QED BY <2>s, <4>7, <4>10 DEF TypesInv
    <3> QED BY <3>3, <3>4
  <2>4. CASE CurlReturns
    <3>1. TypeOK'
      BY <2>4, <2>a, NoCheckIsCheck DEF CurlReturns, settings, TypeOK
    <3> QED BY <2>4, <2>c, <2>s, <3>1 DEF CurlReturns, TypesInv
  <2>5. CASE ChangeDns
    <3>1. PICK name \in DOMAIN dns, a \in Addresses \cup {NULL} :
             dns' = [dns EXCEPT ![name] = a]
      BY <2>5 DEF ChangeDns
    <3>2. dns' \in Resolutions
      BY <2>a, <3>1 DEF TypeOK, Resolutions
    <3>3. TypeOK'
      BY <2>5, <2>a, <3>2 DEF ChangeDns, settings, TypeOK
    <3> QED BY <2>5, <2>b, <2>s, <3>3 DEF ChangeDns, settings, TypesInv
  <2>6. CASE ChangeArgs
    <3>1. TypeOK'
      BY <2>6, <2>a DEF ChangeArgs, settings, TypeOK
    <3> QED BY <2>6, <2>b, <2>s, <3>1 DEF ChangeArgs, TypesInv
  <2>7. CASE Recover
    <3>1. TypeOK' /\ UNCHANGED <<check, request>>
      BY <2>7, <2>a DEF Recover, TypeOK
    <3> QED BY <2>b, <2>s, <3>1 DEF TypesInv
  <2>8. CASE UNCHANGED vars
    <3>1. TypeOK'
      BY <2>8, <2>a DEF vars, TypeOK
    <3> QED BY <2>8, <2>b, <2>s, <3>1 DEF vars, TypesInv
  <2> QED BY <2>0, <2>1, <2>2, <2>3, <2>4, <2>5, <2>6, <2>7, <2>8 DEF Next
<1> QED BY <1>1, <1>2

\* Whatever is sent names an entity of a known type, at a known address, with both
\* options of the module (common.c:301).
THEOREM BrokerTypes == Spec => []TypeOK
<1>1. TypesInv => TypeOK
  BY DEF TypesInv
<1> QED BY <1>1, TypesInductive, PTL DEF Spec

\* The extent to which ExplicitTypeSupersedes fails: only a variable that is not
\* the first can be ignored, in both libraries.
THEOREM FirstVariable == Spec => []FirstVariableDecides
<1>1. TypesInv => FirstVariableDecides
  BY DEF TypesInv
<1> QED BY <1>1, TypesInductive, PTL DEF Spec
=============================================================================

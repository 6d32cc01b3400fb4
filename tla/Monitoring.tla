----------------------------- MODULE Monitoring -----------------------------
(***************************************************************************)
(* Nagios with the event broker module, NGSI Adapter and Context Broker at *)
(* work on one entity.  The callback of the module runs in the thread of   *)
(* Nagios (src/ngsi_event_broker/src/ngsi_event_broker_common.c): the next *)
(* check is not processed until curl_easy_perform returns, and that has no *)
(* timeout.  The adapter answers before it has even received the body, so  *)
(* its updates of one check overlap with those of the next.                *)
(*                                                                         *)
(* Every step of Adapter is a step here, once Nagios has sent what arrives.*)
(***************************************************************************)
EXTENDS Tracing

CONSTANTS
    Schedule,   \* the HTTP requests, in the order of the checks they report
    None        \* no request

ASSUME ScheduleAssumption ==
    /\ Schedule \in [1..Len(Schedule) -> HttpRequests]
    /\ \A i, j \in 1..Len(Schedule) : Schedule[i] = Schedule[j] => i = j
    /\ None \notin Requests

VARIABLES
    nagios,     \* the request whose answer the callback waits for, or None
    checks,     \* checks of the schedule that Nagios has begun to process
    arrived,    \* updates, in the order of their first attempts
    value       \* the last update that Context Broker performed, or None

mvars == <<tvars, nagios, checks, arrived, value>>

MonitoringInit ==
    /\ TracingInit
    /\ nagios = None
    /\ checks = 0
    /\ arrived = <<>>
    /\ value = None

\* callback_service_check, to the call of curl_easy_perform.
StartCheck ==
    /\ nagios = None
    /\ checks < Len(Schedule)
    /\ checks' = checks + 1
    /\ nagios' = Schedule[checks']
    /\ UNCHANGED <<tvars, arrived, value>>

\* The rest of the callback: the adapter has answered, or there is no adapter.
CurlReturns ==
    /\ nagios # None
    /\ status[nagios] # 0 \/ proc = "exited"
    /\ nagios' = None
    /\ UNCHANGED <<tvars, checks, arrived, value>>

\* The connection breaks: the callback does not know if the adapter got the request.
CurlFails ==
    /\ nagios # None
    /\ nagios' = None
    /\ UNCHANGED <<tvars, checks, arrived, value>>

\* What a step of the adapter shows: who is first attempted, what is performed.
Observed ==
    /\ Traced
    /\ arrived' = arrived \o
          (IF \E r \in Requests : attempts[r] = 0 /\ attempts'[r] = 1
           THEN <<CHOOSE r \in Requests : attempts[r] = 0 /\ attempts'[r] = 1>> ELSE <<>>)
    /\ value' = IF applied' = applied THEN value
                ELSE CHOOSE r \in Requests : applied'[r] # applied[r]
    /\ UNCHANGED <<nagios, checks>>

\* The adapter, the network and the broker, of which only the arrival of a request
\* depends on Nagios.
AdapterStep ==
    /\ Next
    /\ \A r \in HttpRequests : stage[r] = "idle" /\ stage'[r] # "idle" => nagios = r
    /\ Observed

MonitoringNext == StartCheck \/ CurlReturns \/ CurlFails \/ AdapterStep

\* curl reads the answer, and the adapter accepts connections while it runs.
\* Nothing is assumed of Context Broker nor of any other turn of the event loop.
MonitoringSpec ==
    /\ MonitoringInit /\ [][MonitoringNext]_mvars
    /\ WF_mvars(CurlReturns)
    /\ \A r \in HttpRequests : WF_mvars(nagios = r /\ HttpRequest(r) /\ Observed)

----------------------------------------------------------------------------
\* The callback always returns and Nagios goes on (common.c:365), although every
\* connection to Context Broker hangs and every socket of the adapter is taken.
NagiosProgress == \A r \in HttpRequests : nagios = r ~> nagios # r

\* With one connection, the update of a check is performed after that of a later
\* one only if it was attempted again or left behind by a broken connection
\* (adapter.js:87), or if its body came later (adapter.js:178): waiting in the
\* queue and being answered at once do not change the order.
OrderKept ==
    [][\A a, b \in Requests :
          Before(Schedule, a, b) /\ value = b /\ value' = a =>
             \/ attempts[a] > 1
             \/ stray'[a] # stray[a]
             \/ Before(arrived, b, a)]_mvars
=============================================================================

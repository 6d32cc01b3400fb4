------------------------------ MODULE Adapter ------------------------------
(***************************************************************************)
(* NGSI Adapter, src/ngsi_adapter/lib/adapter.js: probe data received by   *)
(* HTTP or UDP becomes an update request to Context Broker, sent through   *)
(* an agent with at most MaxRequests sockets, attempted again after a      *)
(* connection error up to Retries times.  The listener has answered 200    *)
(* long before the outcome is known, so the outcome is only ever logged by *)
(* updateContextCallback: `reports' is what it logged for each request.    *)
(*                                                                         *)
(* Every action is one turn of the Node event loop.  The broker, the       *)
(* network and Node's http agent are external: they are modelled from how  *)
(* adapter.js uses them.                                                   *)
(***************************************************************************)
EXTENDS Naturals, Sequences, FiniteSets

CONSTANTS
    HttpRequests,   \* requests that reach the HTTP listener
    UdpRequests,    \* datagrams that reach an UDP endpoint
    Retries,        \* config.retries
    MaxRequests,    \* config.maxRequests
    BrokerApi       \* config.brokerApi: "v2", or any other for updateContext

Requests == HttpRequests \cup UdpRequests

ASSUME RequestsAssumption == /\ IsFiniteSet(Requests)
                             /\ HttpRequests \cap UdpRequests = {}
ASSUME RetriesAssumption == Retries \in Nat
ASSUME MaxRequestsAssumption == MaxRequests \in Nat \ {0}

VARIABLES
    proc,       \* "up" or "exited": the Node process
    stage,      \* where each request is
    status,     \* HTTP status answered to the probe, 0 before any answer
    queue,      \* requests for which the agent has no socket yet
    attempts,   \* calls to http.request made for each request
    reply,      \* response being received for the current attempt
    aborted,    \* reset responses whose 'end' listener is still to be called
    reports,    \* outcomes logged by updateContextCallback
    applied,    \* times the broker has performed the update
    stray,      \* copies of the update left by broken connections, which the
                \* broker may have received
    cut         \* requests with a response that ended before its last byte

vars == <<proc, stage, status, queue, attempts, reply, aborted, reports,
          applied, stray, cut>>

Stages == {"idle", "refused", "receiving", "abandoned", "ticked", "queued",
           "sent", "served", "responding", "backoff", "done"}
Outcomes == {"updated", "rejected", "unreadable", "failed"}

Bodies == {"empty", "json", "orionError", "garbled"}
NoReply == [status |-> 0, body |-> "empty"]
Replies == [status : {0, 200, 204, 400, 500}, body : Bodies]

----------------------------------------------------------------------------
\* The broker (external).  A reply has a status and a body; an update that was
\* performed is answered 204 without body by API v2, else 200 with a body.  One
\* that was not performed gets an error status or, in the older API, an
\* `orionError' inside a 200 response.  Either can be answered by something on
\* the way whose body is no JSON.

ReplyToUpdate == IF BrokerApi = "v2" THEN [status |-> 204, body |-> "empty"]
                                     ELSE [status |-> 200, body |-> "json"]
Refusals == {[status |-> 400, body |-> "json"]} \cup
            (IF BrokerApi = "v2" THEN {}
                                 ELSE {[status |-> 200, body |-> "orionError"]})
BadGateway == [status |-> 500, body |-> "garbled"]
BrokerReplies(performed) ==
    {BadGateway} \cup (IF performed THEN {ReplyToUpdate} ELSE Refusals)

\* What is left of a reply whose connection closes before its last byte.
Truncations(rep) == {[rep EXCEPT !.body = b] : b \in {"empty", "garbled", rep.body}}

----------------------------------------------------------------------------
\* The Node agent (external) shared by all outgoing requests.

Active == {r \in Requests : stage[r] \in {"sent", "served", "responding"}}

\* MUTATION of SocketAvailable: the limit is checked off by one.
SocketAvailable_OffByOne == Cardinality(Active) <= MaxRequests
SocketAvailable == Cardinality(Active) < MaxRequests

\* http.request: take a socket or wait for one.
SendRequest(r) ==
    /\ attempts' = [attempts EXCEPT ![r] = @ + 1]
    /\ IF SocketAvailable
       THEN /\ stage' = [stage EXCEPT ![r] = "sent"]
            /\ queue' = queue
       ELSE /\ stage' = [stage EXCEPT ![r] = "queued"]
            /\ queue' = Append(queue, r)

\* MUTATION of ReleaseSocket: the freed socket is not handed over.
ReleaseSocket_NoHandOver(r, next) ==
    /\ stage' = [stage EXCEPT ![r] = next]
    /\ queue' = queue
\* MUTATION of ReleaseSocket: the request served is left in the queue.
ReleaseSocket_KeepsHead(r, next) ==
    /\ stage' = IF queue = <<>> THEN [stage EXCEPT ![r] = next]
                ELSE [stage EXCEPT ![r] = next, ![Head(queue)] = "sent"]
    /\ queue' = queue
\* Request r leaves its socket for stage `next'; the first in the queue takes it.
ReleaseSocket(r, next) ==
    IF queue = <<>>
    THEN /\ stage' = [stage EXCEPT ![r] = next]
         /\ queue' = queue
    ELSE /\ stage' = [stage EXCEPT ![r] = next, ![Head(queue)] = "sent"]
         /\ queue' = Tail(queue)

----------------------------------------------------------------------------
\* Decisions of adapter.js.

\* MUTATION of StatusFor: the exception of an unknown parser is not caught and
\* reaches the handler of domain errors.
StatusFor_Uncaught(method, identified, parserKnown) ==
    IF method # "POST" THEN 405
    ELSE IF ~identified THEN 400 ELSE IF parserKnown THEN 200 ELSE 500
\* Status of the answer: 405 unless POST, 400 without id and type, 404 without
\* parser; 200 says only that the data will be processed.
StatusFor(method, identified, parserKnown) ==
    CASE method # "POST" -> 405
      [] method = "POST" /\ ~identified -> 400
      [] method = "POST" /\ identified /\ ~parserKnown -> 404
      [] OTHER -> 200

\* MUTATION of Outcome: an error inside a 200 response is not looked for.
Outcome_StatusOnly(rep) ==
    IF rep.status = ReplyToUpdate.status THEN "updated" ELSE "rejected"
\* What updateContextCallback makes of a response.  JSON.parse of a body that is
\* no JSON throws, and the active domain logs the error.
Outcome(rep) ==
    LET code == IF rep.body = "orionError" THEN 500 ELSE rep.status
        success == IF BrokerApi = "v2" THEN 204 ELSE 200
    IN CASE rep.body = "garbled" -> "unreadable"
         [] rep.body # "garbled" /\ code = success -> "updated"
         [] OTHER -> "rejected"

Callback(r, outcome) == reports' = [reports EXCEPT ![r] = Append(@, outcome)]

\* MUTATION of RetryAllowed: one attempt too many.
RetryAllowed_OffByOne(r) == attempts[r] <= Retries + 1
\* operation.retry(err): attempts remain out of Retries + 1.
RetryAllowed(r) == attempts[r] <= Retries

\* MUTATION of OnError: callback is invoked whether or not it will be retried.
OnError_NoReturn(r) ==
    /\ ReleaseSocket(r, IF RetryAllowed(r) THEN "backoff" ELSE "done")
    /\ Callback(r, "failed")
\* MUTATION of OnError: giving up is not notified.
OnError_Silent(r) ==
    /\ ReleaseSocket(r, IF RetryAllowed(r) THEN "backoff" ELSE "done")
    /\ UNCHANGED reports
\* Listener of 'error' in the outgoing request: retry or give up.
OnError(r) ==
    IF RetryAllowed(r)
    THEN /\ ReleaseSocket(r, "backoff")
         /\ UNCHANGED reports
    ELSE /\ ReleaseSocket(r, "done")
         /\ Callback(r, "failed")

----------------------------------------------------------------------------
Init ==
    /\ proc = "up"
    /\ stage = [r \in Requests |-> "idle"]
    /\ status = [r \in Requests |-> 0]
    /\ queue = <<>>
    /\ attempts = [r \in Requests |-> 0]
    /\ reply = [r \in Requests |-> NoReply]
    /\ aborted = {}
    /\ reports = [r \in Requests |-> <<>>]
    /\ applied = [r \in Requests |-> 0]
    /\ stray = [r \in Requests |-> 0]
    /\ cut = {}

\* MUTATION of HttpRequest: the answer is left for when the outcome is known.
HttpRequest_Deferred(r) ==
    /\ proc = "up"
    /\ r \in HttpRequests
    /\ stage[r] = "idle"
    /\ stage' = [stage EXCEPT ![r] = "receiving"]
    /\ UNCHANGED <<proc, status, queue, attempts, reply, aborted, reports,
                   applied, stray, cut>>
\* asyncRequestListener: the answer is written before the body arrives.
HttpRequest(r) ==
    /\ proc = "up"
    /\ r \in HttpRequests
    /\ stage[r] = "idle"
    /\ \E method \in {"POST", "GET"}, identified, parserKnown \in BOOLEAN :
          LET answer == StatusFor(method, identified, parserKnown)
          IN /\ status' = [status EXCEPT ![r] = answer]
             /\ stage' = [stage EXCEPT ![r] = IF answer = 200 THEN "receiving"
                                                              ELSE "refused"]
    /\ UNCHANGED <<proc, queue, attempts, reply, aborted, reports, applied,
                   stray, cut>>

\* request.on('end'): updateContext is deferred to the next tick.
BodyEnd(r) ==
    /\ proc = "up"
    /\ stage[r] = "receiving"
    /\ stage' = [stage EXCEPT ![r] = "ticked"]
    /\ UNCHANGED <<proc, status, queue, attempts, reply, aborted, reports,
                   applied, stray, cut>>

\* The probe closes its connection: there is no 'end', nothing is ever sent.
ClientAbort(r) ==
    /\ proc = "up"
    /\ stage[r] = "receiving"
    /\ stage' = [stage EXCEPT ![r] = "abandoned"]
    /\ UNCHANGED <<proc, status, queue, attempts, reply, aborted, reports,
                   applied, stray, cut>>

\* udpRequestListener: a datagram for an unknown parser is logged and dropped.
UdpRequest(r) ==
    /\ proc = "up"
    /\ r \in UdpRequests
    /\ stage[r] = "idle"
    /\ \E parserKnown \in BOOLEAN :
          stage' = [stage EXCEPT ![r] = IF parserKnown THEN "ticked" ELSE "refused"]
    /\ UNCHANGED <<proc, status, queue, attempts, reply, aborted, reports,
                   applied, stray, cut>>

\* updateContext: the parser rejects the data (or http.request its options) and
\* the callback gets the error, or the first attempt is made.
UpdateContext(r) ==
    /\ proc = "up"
    /\ stage[r] = "ticked"
    /\ \/ /\ stage' = [stage EXCEPT ![r] = "done"]
          /\ Callback(r, "failed")
          /\ UNCHANGED <<queue, attempts>>
       \/ /\ SendRequest(r)
          /\ UNCHANGED reports
    /\ UNCHANGED <<proc, status, reply, aborted, applied, stray, cut>>

\* The broker performs the update it is asked for; the adapter may be gone.
BrokerUpdate(r) ==
    /\ stage[r] = "sent"
    /\ stage' = [stage EXCEPT ![r] = "served"]
    /\ applied' = [applied EXCEPT ![r] = @ + 1]
    /\ UNCHANGED <<proc, status, queue, attempts, reply, aborted, reports,
                   stray, cut>>

\* The broker performs an update whose connection broke after it was sent.
StrayUpdate(r) ==
    /\ stray[r] > 0
    /\ stray' = [stray EXCEPT ![r] = @ - 1]
    /\ applied' = [applied EXCEPT ![r] = @ + 1]
    /\ UNCHANGED <<proc, stage, status, queue, attempts, reply, aborted,
                   reports, cut>>

\* The headers of the response arrive.
Response(r) ==
    /\ proc = "up"
    /\ stage[r] \in {"sent", "served"}
    /\ \E rep \in BrokerReplies(stage[r] = "served") :
          reply' = [reply EXCEPT ![r] = rep]
    /\ stage' = [stage EXCEPT ![r] = "responding"]
    /\ UNCHANGED <<proc, status, queue, attempts, aborted, reports, applied,
                   stray, cut>>

\* MUTATION of ResponseEnd: error statuses are retried too.
ResponseEnd_RetriesStatus(r) ==
    /\ proc = "up"
    /\ stage[r] = "responding"
    /\ Callback(r, Outcome(reply[r]))
    /\ ReleaseSocket(r, IF Outcome(reply[r]) = "rejected" /\ RetryAllowed(r)
                        THEN "backoff" ELSE "done")
    /\ reply' = [reply EXCEPT ![r] = NoReply]
    /\ UNCHANGED <<proc, status, attempts, aborted, applied, stray, cut>>
\* response.on('end') after the whole body.
ResponseEnd(r) ==
    /\ proc = "up"
    /\ stage[r] = "responding"
    /\ Callback(r, Outcome(reply[r]))
    /\ ReleaseSocket(r, "done")
    /\ reply' = [reply EXCEPT ![r] = NoReply]
    /\ UNCHANGED <<proc, status, attempts, aborted, applied, stray, cut>>

\* The broker closes the connection inside the body: Node emits 'end' for what
\* was received and no 'error'.
ResponseCut(r) ==
    /\ proc = "up"
    /\ stage[r] = "responding"
    /\ reply[r].body # "empty"
    /\ \E rep \in Truncations(reply[r]) : Callback(r, Outcome(rep))
    /\ ReleaseSocket(r, "done")
    /\ reply' = [reply EXCEPT ![r] = NoReply]
    /\ cut' = cut \cup {r}
    /\ UNCHANGED <<proc, status, attempts, aborted, applied, stray>>

\* The connection fails before any response: refused, reset or timed out.
ConnectionError(r) ==
    /\ proc = "up"
    /\ stage[r] \in {"sent", "served"}
    /\ OnError(r)
    /\ stray' = [stray EXCEPT ![r] = IF stage[r] = "sent" THEN @ + 1 ELSE @]
    /\ UNCHANGED <<proc, status, attempts, reply, aborted, applied, cut>>

\* The connection is reset inside the body: Node emits 'error' on the request,
\* and 'end' on the response once the socket is closed.
ResponseReset(r) ==
    /\ proc = "up"
    /\ stage[r] = "responding"
    /\ reply[r].body # "empty"
    /\ OnError(r)
    /\ \E rep \in Truncations(reply[r]) : reply' = [reply EXCEPT ![r] = rep]
    /\ aborted' = aborted \cup {r}
    /\ cut' = cut \cup {r}
    /\ UNCHANGED <<proc, status, attempts, applied, stray>>

\* response.on('end') of a response that was reset.
AbortedEnd(r) ==
    /\ proc = "up"
    /\ r \in aborted
    /\ Callback(r, Outcome(reply[r]))
    /\ reply' = [reply EXCEPT ![r] = NoReply]
    /\ aborted' = aborted \ {r}
    /\ UNCHANGED <<proc, stage, status, queue, attempts, applied, stray, cut>>

\* The timer set by operation.retry runs the attempt again, at least a second
\* after the error: long after the ticks AbortedEnd takes.
RetryTimer(r) ==
    /\ proc = "up"
    /\ stage[r] = "backoff"
    /\ r \notin aborted
    /\ SendRequest(r)
    /\ UNCHANGED <<proc, status, reply, aborted, reports, applied, stray, cut>>

\* SIGINT, SIGTERM or an uncaught exception: nothing is flushed or awaited.
Exit ==
    /\ proc = "up"
    /\ proc' = "exited"
    /\ UNCHANGED <<stage, status, queue, attempts, reply, aborted, reports,
                   applied, stray, cut>>

Next ==
    \/ Exit
    \/ \E r \in Requests :
          \/ HttpRequest(r)
          \/ BodyEnd(r)
          \/ ClientAbort(r)
          \/ UdpRequest(r)
          \/ UpdateContext(r)
          \/ BrokerUpdate(r)
          \/ StrayUpdate(r)
          \/ Response(r)
          \/ ResponseEnd(r)
          \/ ResponseCut(r)
          \/ ConnectionError(r)
          \/ ResponseReset(r)
          \/ AbortedEnd(r)
          \/ RetryTimer(r)

Spec == Init /\ [][Next]_vars

\* Scheduling by Node: an event that stays pending is eventually delivered.
NodeFairness ==
    \A r \in Requests : /\ WF_vars(UpdateContext(r))
                        /\ WF_vars(AbortedEnd(r))
                        /\ WF_vars(RetryTimer(r))

\* adapter.js sets no timeout on its requests, so progress also depends on the
\* broker: every connection is in the end answered, closed or broken.
BrokerFairness ==
    \A r \in Requests : /\ WF_vars(Response(r) \/ ConnectionError(r))
                        /\ WF_vars(ResponseEnd(r) \/ ResponseCut(r) \/ ResponseReset(r))

FairSpec == Spec /\ NodeFairness /\ BrokerFairness

----------------------------------------------------------------------------
\* Type invariant of the state of the adapter, its agent and the broker.
TypeOK ==
    /\ proc \in {"up", "exited"}
    /\ stage \in [Requests -> Stages]
    /\ status \in [Requests -> {0, 200, 400, 404, 405}]
    /\ queue \in Seq(Requests)
    /\ attempts \in [Requests -> Nat]
    /\ reply \in [Requests -> Replies]
    /\ aborted \subseteq Requests
    /\ reports \in [Requests -> Seq(Outcomes)]
    /\ applied \in [Requests -> Nat]
    /\ stray \in [Requests -> Nat]
    /\ cut \subseteq Requests

\* No more than MaxRequests connections are open at any time (adapter.js:47).
SocketBound == Cardinality(Active) <= MaxRequests

\* A request waits only while every socket is in use: sockets are not lost when
\* connections fail, and what waits was always counted out.
WorkConserving == queue # <<>> => Cardinality(Active) = MaxRequests

\* The agent's queue holds exactly the requests that are waiting, once each,
\* whatever interleaving of retries and first attempts filled it.
QueueMatchesStage ==
    /\ \A r \in Requests : stage[r] = "queued" <=> \E i \in 1..Len(queue) : queue[i] = r
    /\ \A i, j \in 1..Len(queue) : queue[i] = queue[j] => i = j

\* The broker performs an update at most once per attempt, and there are at most
\* Retries + 1 attempts: the bound on the duplicates that retrying can cause.
DuplicateBound ==
    \A r \in Requests : /\ applied[r] <= attempts[r]
                        /\ attempts[r] <= Retries + 1

\* An update logged as successful was performed by the broker.  The status alone
\* is no evidence in the older API when the body that held the error was cut.
SuccessIsApplied ==
    \A r \in Requests :
        (\E i \in 1..Len(reports[r]) : reports[r][i] = "updated")
            => applied[r] > 0 \/ (BrokerApi # "v2" /\ r \in cut)

\* Giving up is final and comes after every attempt was used, or before the
\* first one; no update is given up in silence.
FailureIsFinal ==
    \A r \in Requests :
        /\ (\E i \in 1..Len(reports[r]) : reports[r][i] = "failed")
              => stage[r] = "done" /\ attempts[r] \in {0, Retries + 1}
        /\ stage[r] = "done" => reports[r] # <<>>

\* The callback runs once for a request, as the unit tests assert in each of
\* their scenarios (test/unit/test_adapter.js:265).
CallbackOnce == \A r \in Requests : Len(reports[r]) <= 1

\* The exact extent of the exception to CallbackOnce: it takes a response that
\* was reset, and then each attempt adds one call and giving up another.
CallbackOncePerResponse ==
    \A r \in Requests : /\ r \notin cut => Len(reports[r]) <= 1
                        /\ Len(reports[r]) <= attempts[r] + 1

\* An update whose outcome was logged is not sent again, unless its response
\* was reset: statuses of the broker, errors included, are never retried.
ReplyIsFinal ==
    [][\A r \in Requests :
          attempts'[r] # attempts[r] => reports[r] = <<>> \/ r \in cut]_vars

Before(q, a, b) == \E i, j \in 1..Len(q) : i < j /\ q[i] = a /\ q[j] = b

\* Sockets are taken in the order they were asked for: neither a retry nor a
\* newcomer overtakes a request that already waits in the queue.
NoOvertaking ==
    [][\A a, b \in Requests :
          /\ stage[a] = "queued" /\ stage[b] # "sent" /\ stage'[b] = "sent"
                => b = Head(queue)
          /\ /\ a # b
             /\ stage[a] = "queued" /\ stage'[a] = "queued" /\ stage'[b] = "queued"
             /\ stage[b] = "queued" => Before(queue, a, b)
             => Before(queue', a, b)]_vars

\* Every update that was accepted in full has its outcome logged, unless the
\* process exits: no interleaving of retries, resets and waiting strands it.
EventuallyReported ==
    \A r \in Requests : stage[r] = "ticked" ~> reports[r] # <<>> \/ proc = "exited"

----------------------------------------------------------------------------
\* What Adapter promises of each update, as UpdateDelivery states it: the
\* mapping forgets sockets, queue, retries and connections.
PhaseOf(r) ==
    CASE stage[r] \in {"idle", "receiving"} -> "new"
      [] stage[r] \in {"refused", "abandoned"} -> "dropped"
      [] stage[r] = "done" -> "settled"
      [] OTHER -> "accepted"
Claimed(r) == \E i \in 1..Len(reports[r]) : reports[r][i] = "updated"

Delivery == INSTANCE UpdateDelivery WITH
    Updates <- Requests,
    MaxDeliveries <- Retries + 1,
    ReliableStatus <- BrokerApi = "v2",
    alive <- proc = "up",
    phase <- [r \in Requests |-> PhaseOf(r)],
    delivered <- applied,
    claimed <- {r \in Requests : Claimed(r)}

\* Safety and liveness of at-least-once delivery, implemented by the retries.
DeliverySafety == Delivery!Spec
DeliveryProgress == Delivery!FairSpec
=============================================================================

------------------------------ MODULE Tracing ------------------------------
(***************************************************************************)
(* The context of the traces that NGSI Adapter writes about each outcome:  *)
(* logger.getContext (src/ngsi_adapter/lib/logger.js) takes it from the    *)
(* domain that is active, and the listeners of an outgoing request do not  *)
(* all run in the domain of that request.  'error' is emitted by the       *)
(* request itself, and so in its domain; 'end' is emitted by the response, *)
(* which Node creates in the domain of the connection, and a connection    *)
(* belongs to the domain that was active when it was opened.  A request    *)
(* that waited for a connection inherits that of the one that let go of it.*)
(*                                                                         *)
(* Contexts are named by the request whose listener made them.             *)
(***************************************************************************)
EXTENDS Adapter

VARIABLES
    domain,     \* of each request, whose domain its connection belongs to
    corr,       \* of each context, whose correlator is in it
    contended   \* whether a request has ever waited for a connection

tvars == <<vars, domain, corr, contended>>

TracingInit ==
    /\ Init
    /\ domain = [r \in Requests |-> r]
    /\ corr = [r \in Requests |-> r]
    /\ contended = FALSE

\* The one whose connection is released in this step.
Releaser == CHOOSE q \in Active : stage'[q] \notin {"sent", "served", "responding"}

\* r has a connection, or a response that was reset and has not ended.
Receiving(r) == r \in Active \cup aborted

\* The domain that is active when a connection for r is opened or handed over.
DomainOfConnection(r) == IF stage[r] = "queued" THEN domain[Releaser] ELSE r

\* The step is the 'end' of the response that r was receiving.
Ended(r) == reply[r] # NoReply /\ reply'[r] = NoReply

\* MUTATION of GetContext: a variable of the module, as without domains, holds the
\* context of the last request that was sent.
GetContext_Shared(r) ==
    IF \E q \in Requests : stage[q] = "sent"
    THEN CHOOSE q \in Requests : stage[q] = "sent" ELSE r
\* logger.getContext, in the listener that calls the callback for r.
GetContext(r) == IF Ended(r) THEN domain[r] ELSE r

\* The broker sends back the correlator it is given; what is on the way does not.
Echoed(rep) == rep.status # BadGateway.status

\* What a step of the adapter does to the contexts: in 'end', the correlator of
\* the response, if any, is written to the context of the active domain.
Traced ==
    /\ domain' = [r \in Requests |->
                     CASE stage[r] # "sent" /\ stage'[r] = "sent" -> DomainOfConnection(r)
                       [] Receiving(r)' -> domain[r]
                       [] OTHER -> r]
    /\ corr' = [c \in Requests |->
                   IF \E r \in Requests : Ended(r) /\ Echoed(reply[r]) /\ GetContext(r) = c
                   THEN CHOOSE r \in Requests : Ended(r) ELSE corr[c]]
    /\ contended' = (contended \/ queue' # <<>>)

\* The fields of the trace of an outcome that name the request (preformat).
Trace(r) == LET context == GetContext(r)
            IN [trans |-> context, corr |-> corr'[context]]

----------------------------------------------------------------------------
\* While no request has waited for a connection, every outcome is traced in the
\* transaction and with the correlator of its request: as the bound on connections
\* mixes contexts, so only it does (logger.js:44, adapter.js:82).
TracesApart ==
    [][\A r \in Requests : reports'[r] # reports[r] /\ ~contended' =>
          Trace(r) = [trans |-> r, corr |-> r]]_tvars
=============================================================================

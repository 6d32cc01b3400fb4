--------------------------- MODULE UpdateDelivery ---------------------------
(***************************************************************************)
(* What NGSI Adapter promises to who feeds it, without sockets, retries or *)
(* connections (src/ngsi_adapter/lib/adapter.js, updateContext).  An       *)
(* accepted update is delivered to Context Broker any number of times up   *)
(* to a limit, never if none was accepted; it is settled once, and a claim *)
(* that it was performed is backed by a delivery.  Deliveries may come     *)
(* after the update was settled and after the adapter is gone.             *)
(***************************************************************************)
EXTENDS Naturals

CONSTANTS
    Updates,
    MaxDeliveries,
    ReliableStatus      \* whether a status alone proves that the update was done

VARIABLES
    alive,      \* whether the adapter runs
    phase,      \* "new", "dropped", "accepted" or "settled"
    delivered,  \* times the broker has performed the update
    claimed     \* updates logged as successful

dvars == <<alive, phase, delivered, claimed>>

Init ==
    /\ alive = TRUE
    /\ phase = [u \in Updates |-> "new"]
    /\ delivered = [u \in Updates |-> 0]
    /\ claimed = {}

Evidence(u) == delivered[u] > 0 \/ ~ReliableStatus

\* Bad requests and aborted uploads.
Drop(u) ==
    /\ alive
    /\ phase[u] = "new"
    /\ phase' = [phase EXCEPT ![u] = "dropped"]
    /\ UNCHANGED <<alive, delivered, claimed>>

Accept(u) ==
    /\ alive
    /\ phase[u] = "new"
    /\ phase' = [phase EXCEPT ![u] = "accepted"]
    /\ UNCHANGED <<alive, delivered, claimed>>

Deliver(u) ==
    /\ phase[u] \in {"accepted", "settled"}
    /\ delivered[u] < MaxDeliveries
    /\ delivered' = [delivered EXCEPT ![u] = @ + 1]
    /\ UNCHANGED <<alive, phase, claimed>>

\* A claim may precede the end, when a response is lost half way and retried.
Claim(u) ==
    /\ alive
    /\ phase[u] \in {"accepted", "settled"}
    /\ Evidence(u)
    /\ claimed' = claimed \cup {u}
    /\ UNCHANGED <<alive, phase, delivered>>

Settle(u) ==
    /\ alive
    /\ phase[u] = "accepted"
    /\ phase' = [phase EXCEPT ![u] = "settled"]
    /\ \/ claimed' = claimed
       \/ Evidence(u) /\ claimed' = claimed \cup {u}
    /\ UNCHANGED <<alive, delivered>>

Stop ==
    /\ alive
    /\ alive' = FALSE
    /\ UNCHANGED <<phase, delivered, claimed>>

Next ==
    \/ Stop
    \/ \E u \in Updates :
          Drop(u) \/ Accept(u) \/ Deliver(u) \/ Claim(u) \/ Settle(u)

Spec == Init /\ [][Next]_dvars
FairSpec == Spec /\ \A u \in Updates : WF_dvars(Settle(u))
=============================================================================

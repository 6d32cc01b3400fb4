-------------------------- MODULE MonitoringProofs --------------------------
(***************************************************************************)
(* Proofs about Monitoring, for any schedule of checks, requests, retries  *)
(* and API of the broker.                                                  *)
(*                                                                         *)
(* The system is an adapter with an environment, so what was proved of     *)
(* Adapter holds in it, and is used here.                                  *)
(***************************************************************************)
EXTENDS Monitoring, AdapterProofs

----------------------------------------------------------------------------
\* Nagios takes no step for the adapter.
LEMMA StepsOfAdapter == MonitoringInit /\ [][MonitoringNext]_mvars => Spec
<1>1. MonitoringInit => Init
  BY DEF MonitoringInit, TracingInit
<1>2. [MonitoringNext]_mvars => [Next]_vars
  BY DEF MonitoringNext, StartCheck, CurlReturns, CurlFails, AdapterStep, mvars, tvars
<1> QED BY <1>1, <1>2, PTL DEF Spec

\* The adapter in the system is an adapter: whenever Nagios sends its requests,
\* and whether or not the callback still waits for the answer (common.c:365).
THEOREM SystemRunsAdapter == MonitoringSpec => Spec
<1>1. MonitoringSpec => MonitoringInit /\ [][MonitoringNext]_mvars
  BY PTL DEF MonitoringSpec
<1> QED BY <1>1, StepsOfAdapter

----------------------------------------------------------------------------
\* What is known of the adapter at every step.
Known == TypeOK /\ QueueMatchesStage /\ SocketsCorrect /\ AttemptsAccounted

LEMMA AdapterKnown == MonitoringSpec => []Known
<1>1. Spec => []AttemptsAccounted
  BY OutcomesInvariant, PTL
<1>2. SocketBound /\ WorkConserving => SocketsCorrect
  BY DEF SocketsCorrect
<1>3. TypeOK /\ QueueMatchesStage /\ SocketsCorrect /\ AttemptsAccounted => Known
  BY DEF Known
<1> QED BY <1>1, <1>2, <1>3, SystemRunsAdapter, TypeCorrect, QueueCorrect, SocketsBounded, PTL

----------------------------------------------------------------------------
\* The context of the traces, while no request has waited for a connection.

TracingInv ==
    ~contended => /\ queue = <<>>
                  /\ domain = [r \in Requests |-> r]
                  /\ corr = [r \in Requests |-> r]

\* A turn of the event loop is about the response of one request at most.
LEMMA OneReply ==
    ASSUME Next
    PROVE  \/ reply' = reply
           \/ \E r \in Requests : \E rep : reply' = [reply EXCEPT ![r] = rep]
<1>1. ASSUME NEW r \in Requests, Response(r)
      PROVE  \E rep : reply' = [reply EXCEPT ![r] = rep]
  BY <1>1 DEF Response
<1>2. ASSUME NEW r \in Requests, ResponseEnd(r) \/ ResponseCut(r) \/ AbortedEnd(r)
      PROVE  reply' = [reply EXCEPT ![r] = NoReply]
  BY <1>2 DEF ResponseEnd, ResponseCut, AbortedEnd
<1>3. ASSUME NEW r \in Requests, ResponseReset(r)
      PROVE  \E rep : reply' = [reply EXCEPT ![r] = rep]
  BY <1>3 DEF ResponseReset
<1>4. ASSUME NEW r \in Requests,
             \/ HttpRequest(r) \/ BodyEnd(r) \/ ClientAbort(r) \/ UdpRequest(r)
             \/ UpdateContext(r) \/ BrokerUpdate(r) \/ StrayUpdate(r)
             \/ ConnectionError(r) \/ RetryTimer(r)
      PROVE  reply' = reply
  BY <1>4 DEF HttpRequest, BodyEnd, ClientAbort, UdpRequest, UpdateContext,
              BrokerUpdate, StrayUpdate, ConnectionError, RetryTimer
<1>5. CASE Exit
  BY <1>5 DEF Exit
<1> QED BY <1>1, <1>2, <1>3, <1>4, <1>5 DEF Next

LEMMA OneEnds ==
    ASSUME Next, TypeOK, NEW p \in Requests, NEW q \in Requests, Ended(p), Ended(q)
    PROVE  p = q
<1>1. reply \in [Requests -> Replies]
  BY DEF TypeOK
<1>2. reply' # reply
  BY DEF Ended
<1>3. PICK r \in Requests : \E rep : reply' = [reply EXCEPT ![r] = rep]
  BY <1>2, OneReply
<1>4. \A x \in Requests : reply'[x] # reply[x] => x = r
  BY <1>1, <1>3
<1> QED BY <1>4 DEF Ended

\* Without waiting, the domain of a connection is that of its request.
LEMMA OwnContext ==
    ASSUME TracingInv, ~contended, NEW r \in Requests
    PROVE  GetContext(r) = r
  BY DEF TracingInv, GetContext

LEMMA TracingStep ==
    ASSUME Known, TracingInv, AdapterStep
    PROVE  TracingInv'
<1>1. SUFFICES ASSUME ~contended' PROVE TracingInv'
  BY DEF TracingInv
<1>2. Traced /\ Next
  BY DEF AdapterStep, Observed
<1>3. ~contended /\ queue' = <<>>
  BY <1>1, <1>2 DEF Traced
<1>4. /\ queue = <<>>
      /\ domain = [r \in Requests |-> r]
      /\ corr = [r \in Requests |-> r]
  BY <1>3 DEF TracingInv
<1>5. domain' = [r \in Requests |-> r]
  <2>1. ASSUME NEW r \in Requests PROVE DomainOfConnection(r) = r
    <3>1. stage[r] # "queued"
      BY <1>4 DEF Known, QueueMatchesStage
    <3> QED BY <3>1 DEF DomainOfConnection
  <2>2. \A r \in Requests : domain[r] = r
    BY <1>4
  <2> QED BY <1>2, <2>1, <2>2 DEF Traced
<1>6. corr' = [r \in Requests |-> r]
  <2>1. ASSUME NEW c \in Requests,
               \E r \in Requests : Ended(r) /\ Echoed(reply[r]) /\ GetContext(r) = c
        PROVE  (CHOOSE r \in Requests : Ended(r)) = c
    <3>1. PICK r \in Requests : Ended(r) /\ GetContext(r) = c
      BY <2>1
    <3>2. r = c
      BY <1>3, <3>1, OwnContext
    <3>3. \A q \in Requests : Ended(q) => q = r
      BY <1>2, <3>1, OneEnds DEF Known
    <3> QED BY <3>1, <3>2, <3>3
  <2>2. \A c \in Requests : corr[c] = c
    BY <1>4
  <2> QED BY <1>2, <2>1, <2>2 DEF Traced
<1> QED BY <1>3, <1>5, <1>6 DEF TracingInv

LEMMA TracingInvariant == MonitoringSpec => []TracingInv
<1>1. MonitoringInit => TracingInv
  BY DEF MonitoringInit, TracingInit, Init, TracingInv
<1>2. Known /\ TracingInv /\ [MonitoringNext]_mvars => TracingInv'
  <2>1. SUFFICES ASSUME Known, TracingInv, [MonitoringNext]_mvars PROVE TracingInv'
    OBVIOUS
  <2>2. CASE AdapterStep
    BY <2>1, <2>2, TracingStep
  <2>3. CASE UNCHANGED tvars
    BY <2>1, <2>3 DEF TracingInv, tvars, vars
  <2> QED BY <2>1, <2>2, <2>3 DEF MonitoringNext, StartCheck, CurlReturns, CurlFails, mvars
<1> QED BY <1>1, <1>2, AdapterKnown, PTL DEF MonitoringSpec

\* The traces of an outcome name the request it belongs to, in the context of any
\* domain, as long as no request has had to wait (logger.js:44, adapter.js:82).
THEOREM TracesNotMixed == MonitoringSpec => TracesApart
<1>1. Known /\ TracingInv /\ [MonitoringNext]_mvars =>
         [\A r \in Requests : reports'[r] # reports[r] /\ ~contended' =>
             Trace(r) = [trans |-> r, corr |-> r]]_tvars
  <2>1. SUFFICES ASSUME Known, TracingInv, [MonitoringNext]_mvars, tvars' # tvars,
                        NEW r \in Requests, ~contended'
                 PROVE  Trace(r) = [trans |-> r, corr |-> r]
    OBVIOUS
  <2>2. AdapterStep
    BY <2>1 DEF MonitoringNext, StartCheck, CurlReturns, CurlFails, mvars
  <2>3. Next /\ Traced
    BY <2>2 DEF AdapterStep, Observed
  <2>c. ~contended
    BY <2>1, <2>3 DEF Traced
  <2>4. corr'[r] = r
    <3>1. corr[r] = r
      BY <2>1, <2>c DEF TracingInv
    <3>2. CASE \E q \in Requests : Ended(q) /\ Echoed(reply[q]) /\ GetContext(q) = r
      <4>1. PICK q \in Requests : Ended(q) /\ GetContext(q) = r
        BY <3>2
      <4>2. q = r
        BY <2>1, <2>c, <4>1, OwnContext
      <4>3. \A p \in Requests : Ended(p) => p = r
        BY <2>1, <2>3, <4>1, <4>2, OneEnds DEF Known
      <4>4. (CHOOSE p \in Requests : Ended(p)) = r
        BY <4>1, <4>2, <4>3
      <4> QED BY <2>3, <3>2, <4>4 DEF Traced
    <3>3. CASE ~\E q \in Requests : Ended(q) /\ Echoed(reply[q]) /\ GetContext(q) = r
      BY <2>3, <3>1, <3>3 DEF Traced
    <3> QED BY <3>2, <3>3
  <2>5. GetContext(r) = r
    BY <2>1, <2>c, OwnContext
  <2> QED BY <2>4, <2>5 DEF Trace
<1> QED BY <1>1, AdapterKnown, TracingInvariant, PTL DEF MonitoringSpec, TracesApart

----------------------------------------------------------------------------
\* The order of the updates.  It takes more than the order of the queue: with one
\* connection, those that came after an update that is still on its first attempt
\* are all behind it in the queue, on theirs.

InUse(r) == stage[r] = "queued" \/ stage[r] \in InSocket

BehindFirst(a, b) ==
    Before(arrived, a, b) /\ attempts[a] = 1 /\ InUse(a) =>
        /\ stage[b] = "queued" /\ attempts[b] = 1
        /\ stage[a] = "queued" => Before(queue, a, b)

ArrivedInv ==
    /\ arrived \in Seq(Requests)
    /\ \A r \in Requests : attempts[r] > 0 <=> \E i \in 1..Len(arrived) : arrived[i] = r

ValueInv == value # None => value \in Requests /\ applied[value] > 0

OrderInv ==
    /\ ArrivedInv
    /\ ValueInv
    /\ \A a, b \in Requests : BehindFirst(a, b)

\* The requests of one turn of the event loop: one, at most, is attempted, and one,
\* at most, is performed.
LEMMA OneAttempt ==
    ASSUME Next
    PROVE  \/ attempts' = attempts
           \/ \E r \in Requests : stage[r] \in {"ticked", "backoff"} /\ SendRequest(r)
<1>1. ASSUME NEW r \in Requests, UpdateContext(r) \/ RetryTimer(r)
      PROVE  \/ attempts' = attempts
             \/ stage[r] \in {"ticked", "backoff"} /\ SendRequest(r)
  BY <1>1 DEF UpdateContext, RetryTimer
<1>2. ASSUME NEW r \in Requests,
             \/ HttpRequest(r) \/ BodyEnd(r) \/ ClientAbort(r) \/ UdpRequest(r)
             \/ BrokerUpdate(r) \/ StrayUpdate(r) \/ Response(r) \/ ResponseEnd(r)
             \/ ResponseCut(r) \/ ConnectionError(r) \/ ResponseReset(r) \/ AbortedEnd(r)
      PROVE  attempts' = attempts
  BY <1>2 DEF HttpRequest, BodyEnd, ClientAbort, UdpRequest, BrokerUpdate, StrayUpdate,
              Response, ResponseEnd, ResponseCut, ConnectionError, ResponseReset, AbortedEnd
<1>3. CASE Exit
  BY <1>3 DEF Exit
<1> QED BY <1>1, <1>2, <1>3 DEF Next

LEMMA OnePerformed ==
    ASSUME Next
    PROVE  \/ applied' = applied
           \/ \E r \in Requests : BrokerUpdate(r) \/ StrayUpdate(r)
<1>1. ASSUME NEW r \in Requests,
             \/ HttpRequest(r) \/ BodyEnd(r) \/ ClientAbort(r) \/ UdpRequest(r)
             \/ UpdateContext(r) \/ Response(r) \/ ResponseEnd(r) \/ ResponseCut(r)
             \/ ConnectionError(r) \/ ResponseReset(r) \/ AbortedEnd(r) \/ RetryTimer(r)
      PROVE  applied' = applied
  BY <1>1 DEF HttpRequest, BodyEnd, ClientAbort, UdpRequest, UpdateContext, Response,
              ResponseEnd, ResponseCut, ConnectionError, ResponseReset, AbortedEnd, RetryTimer
<1>2. CASE Exit
  BY <1>2 DEF Exit
<1> QED BY <1>1, <1>2 DEF Next

\* What is seen of the attempt: a request is listed when it is first attempted.
LEMMA ArrivedGrows ==
    ASSUME Known, ArrivedInv, Next, Observed
    PROVE  \/ /\ arrived' = arrived
              /\ \/ attempts' = attempts
                 \/ \E r \in Requests : /\ stage[r] \in {"ticked", "backoff"}
                                        /\ SendRequest(r)
                                        /\ attempts[r] > 0
           \/ \E r \in Requests : /\ stage[r] \in {"ticked", "backoff"}
                                  /\ SendRequest(r)
                                  /\ attempts[r] = 0
                                  /\ arrived' = Append(arrived, r)
<1> DEFINE First(r) == attempts[r] = 0 /\ attempts'[r] = 1
<1>1. /\ attempts \in [Requests -> Nat]
      /\ arrived \in Seq(Requests)
      /\ arrived \o <<>> = arrived
  BY DEF Known, TypeOK, ArrivedInv
<1>2. arrived' = arrived \o (IF \E r \in Requests : First(r)
                             THEN <<CHOOSE r \in Requests : First(r)>> ELSE <<>>)
  BY DEF Observed
<1>3. ASSUME \A r \in Requests : ~First(r) PROVE arrived' = arrived
  BY <1>1, <1>2, <1>3
<1>4. CASE attempts' = attempts
  <2>1. \A r \in Requests : ~First(r)
    BY <1>4
  <2> QED BY <1>3, <1>4, <2>1
<1>5. ASSUME NEW r \in Requests, stage[r] \in {"ticked", "backoff"}, SendRequest(r)
      PROVE  \/ arrived' = arrived /\ attempts[r] > 0
             \/ attempts[r] = 0 /\ arrived' = Append(arrived, r)
  <2>1. attempts' = [attempts EXCEPT ![r] = attempts[r] + 1]
    BY <1>5 DEF SendRequest
  <2>2. CASE attempts[r] > 0
    <3>1. \A q \in Requests : ~First(q)
      BY <1>1, <2>1, <2>2
    <3> QED BY <1>3, <2>2, <3>1
  <2>3. CASE attempts[r] = 0
    <3>1. First(r) /\ \A q \in Requests : First(q) => q = r
      BY <1>1, <2>1, <2>3
    <3>2. (CHOOSE q \in Requests : First(q)) = r
      BY <3>1
    <3>3. arrived' = arrived \o <<r>>
      BY <1>2, <3>1, <3>2
    <3> QED BY <1>1, <2>3, <3>3
  <2> QED BY <1>1, <2>2, <2>3
<1> QED BY <1>4, <1>5, OneAttempt

\* With one connection, the one that is free is free for all.
LEMMA OneSocket ==
    ASSUME Known, MaxRequests = 1
    PROVE  /\ \A p, q \in Active : p = q
           /\ SocketAvailable => Active = {} /\ queue = <<>>
<1>1. IsFiniteSet(Active) /\ Cardinality(Active) \in Nat
  BY ActiveFinite
<1>2. Cardinality(Active) <= 1 /\ (queue # <<>> => Cardinality(Active) = 1)
  BY DEF Known, SocketsCorrect, SocketBound, WorkConserving
<1>3. ASSUME NEW p \in Active, NEW q \in Active, p # q PROVE FALSE
  <2>1. Cardinality(Active \ {p}) = Cardinality(Active) - 1 /\ IsFiniteSet(Active \ {p})
    BY <1>1, FS_RemoveElement
  <2>2. q \in Active \ {p}
    BY <1>3
  <2>3. Cardinality((Active \ {p}) \ {q}) = Cardinality(Active \ {p}) - 1
    BY <2>1, <2>2, FS_RemoveElement
  <2>4. Cardinality((Active \ {p}) \ {q}) \in Nat
    BY <2>1, FS_RemoveElement, FS_CardinalityType
  <2> QED BY <1>1, <1>2, <2>1, <2>3, <2>4
<1>4. ASSUME SocketAvailable PROVE Active = {} /\ queue = <<>>
  <2>1. Cardinality(Active) = 0
    BY <1>1, <1>4 DEF SocketAvailable
  <2>2. Active = {}
    BY <1>1, <2>1, FS_EmptySet
  <2> QED BY <1>2, <2>1, <2>2
<1> QED BY <1>3, <1>4

\* What comes last in a sequence comes after the rest, which keeps its order.
LEMMA AppendedLast ==
    ASSUME NEW S, NEW q \in Seq(S), NEW x \in S, NEW a \in S, NEW b \in S
    PROVE  /\ Before(q, a, b) => Before(Append(q, x), a, b)
           /\ (\E i \in 1..Len(q) : q[i] = a) => Before(Append(q, x), a, x)
           /\ Before(Append(q, x), a, b) =>
                 \/ Before(q, a, b)
                 \/ b = x /\ \E i \in 1..Len(q) : q[i] = a
<1> DEFINE p == Append(q, x)
<1>1. /\ Len(q) \in Nat /\ Len(p) = Len(q) + 1
      /\ p[Len(q) + 1] = x /\ \A i \in 1..Len(q) : p[i] = q[i]
  BY AppendProperties, LenProperties
<1> HIDE DEF p
<1>2. ASSUME Before(q, a, b) PROVE Before(p, a, b)
  <2>1. PICK i, j \in 1..Len(q) : i < j /\ q[i] = a /\ q[j] = b
    BY <1>2 DEF Before
  <2>2. i \in 1..Len(p) /\ j \in 1..Len(p) /\ p[i] = a /\ p[j] = b
    BY <1>1, <2>1
  <2> QED BY <2>1, <2>2 DEF Before
<1>3. ASSUME NEW i \in 1..Len(q), q[i] = a PROVE Before(p, a, x)
  <2>1. i \in 1..Len(p) /\ Len(q) + 1 \in 1..Len(p) /\ i < Len(q) + 1
    BY <1>1
  <2>2. p[i] = a /\ p[Len(q) + 1] = x
    BY <1>1, <1>3
  <2> QED BY <2>1, <2>2 DEF Before
<1>4. ASSUME Before(p, a, b)
      PROVE  Before(q, a, b) \/ (b = x /\ \E i \in 1..Len(q) : q[i] = a)
  <2>1. PICK i, j \in 1..Len(p) : i < j /\ p[i] = a /\ p[j] = b
    BY <1>4 DEF Before
  <2>2. i \in 1..Len(q) /\ q[i] = a
    BY <1>1, <2>1
  <2>3. CASE j = Len(q) + 1
    BY <1>1, <2>1, <2>2, <2>3
  <2>4. CASE j # Len(q) + 1
    <3>1. j \in 1..Len(q)
      BY <1>1, <2>1, <2>4
    <3>2. q[j] = b
      BY <1>1, <2>1, <3>1
    <3> QED BY <2>1, <2>2, <3>1, <3>2 DEF Before
  <2> QED BY <2>3, <2>4
<1> QED BY <1>2, <1>3, <1>4 DEF p

\* Those behind another are not the head, and keep their order without it.
LEMMA HeadRemoved ==
    ASSUME NEW S, NEW q \in Seq(S), q # <<>>, NEW a, NEW b, Before(q, a, b),
           \A i, j \in 1..Len(q) : q[i] = q[j] => i = j
    PROVE  /\ b # Head(q)
           /\ a # Head(q) => Before(Tail(q), a, b)
<1>1. PICK i, j \in 1..Len(q) : i < j /\ q[i] = a /\ q[j] = b
  BY DEF Before
<1>2. /\ Len(q) \in Nat \ {0} /\ Head(q) = q[1]
      /\ Len(Tail(q)) = Len(q) - 1
      /\ \A k \in 1..Len(Tail(q)) : Tail(q)[k] = q[k + 1]
  BY HeadTailProperties, LenProperties
<1>3. j # 1 /\ 1 \in 1..Len(q)
  BY <1>1, <1>2
<1>4. b # Head(q)
  BY <1>1, <1>2, <1>3
<1>5. ASSUME a # Head(q) PROVE Before(Tail(q), a, b)
  <2>1. i # 1
    BY <1>1, <1>2, <1>5
  <2>2. i - 1 \in 1..Len(Tail(q)) /\ j - 1 \in 1..Len(Tail(q)) /\ i - 1 < j - 1
    BY <1>1, <1>2, <1>3, <2>1
  <2>3. (i - 1) + 1 = i /\ (j - 1) + 1 = j
    BY <1>1
  <2>4. Tail(q)[i - 1] = a /\ Tail(q)[j - 1] = b
    BY <1>1, <1>2, <2>2, <2>3
  <2> QED BY <2>2, <2>4 DEF Before
<1> QED BY <1>4, <1>5

LEMMA BehindKept ==
    ASSUME Known, MaxRequests = 1, OrderInv, AdapterStep,
           NEW a \in Requests, NEW b \in Requests
    PROVE  BehindFirst(a, b)'
<1>0. /\ stage \in [Requests -> Stages] /\ attempts \in [Requests -> Nat]
      /\ queue \in Seq(Requests) /\ arrived \in Seq(Requests)
      /\ TypeOK /\ QueueMatchesStage /\ AttemptsAccounted
  BY DEF Known, TypeOK, OrderInv, ArrivedInv
<1>1. /\ BehindFirst(a, b)
      /\ \A r \in Requests : attempts[r] > 0 <=> \E i \in 1..Len(arrived) : arrived[i] = r
  BY DEF OrderInv, ArrivedInv
<1>2. Next /\ Observed
  BY DEF AdapterStep
<1>3. SUFFICES ASSUME Before(arrived', a, b), attempts'[a] = 1, InUse(a)'
               PROVE  /\ stage'[b] = "queued" /\ attempts'[b] = 1
                      /\ stage'[a] = "queued" => Before(queue', a, b)
  BY DEF BehindFirst
<1>4. \A r \in Requests : stage[r] = "queued" <=> \E i \in 1..Len(queue) : queue[i] = r
  BY <1>0 DEF QueueMatchesStage
<1>5. ASSUME NEW r \in Requests, stage[r] \in {"ticked", "backoff"}, SendRequest(r),
             attempts[r] = 0, arrived' = Append(arrived, r)
      PROVE  /\ stage'[b] = "queued" /\ attempts'[b] = 1
             /\ stage'[a] = "queued" => Before(queue', a, b)
  <2>1. /\ stage'[r] \in {"queued", "sent"}
        /\ \A q \in Requests \ {r} : stage'[q] = stage[q]
        /\ attempts' = [attempts EXCEPT ![r] = attempts[r] + 1]
    BY <1>0, <1>5, SendStages
  <2>2. Before(arrived, a, b) \/ (b = r /\ \E i \in 1..Len(arrived) : arrived[i] = a)
    BY <1>0, <1>3, <1>5, AppendedLast
  <2>3. \E i \in 1..Len(arrived) : arrived[i] = a
    BY <2>2 DEF Before
  <2>4. attempts[a] > 0
    BY <1>1, <2>3
  <2>5. a # r
    BY <1>5, <2>4
  <2>6. stage'[a] = stage[a] /\ attempts[a] = 1
    BY <1>0, <1>3, <2>1, <2>5
  <2>7. InUse(a)
    BY <1>3, <2>6 DEF InUse
  <2>8. ~SocketAvailable
    <3>1. CASE stage[a] = "queued"
      <4>1. queue # <<>>
        BY <1>0, <1>4, <3>1
      <4> QED BY <4>1, OneSocket
    <3>2. CASE stage[a] \in InSocket
      <4>1. a \in Active
        BY <3>2 DEF Active, InSocket
      <4> QED BY <4>1, OneSocket
    <3> QED BY <2>7, <3>1, <3>2 DEF InUse
  <2>9. stage' = [stage EXCEPT ![r] = "queued"] /\ queue' = Append(queue, r)
    BY <1>5, <2>8 DEF SendRequest
  <2>10. CASE Before(arrived, a, b)
    <3>1. /\ stage[b] = "queued" /\ attempts[b] = 1
          /\ stage[a] = "queued" => Before(queue, a, b)
      BY <1>1, <2>6, <2>7, <2>10 DEF BehindFirst
    <3>2. b # r
      BY <1>5, <3>1
    <3>3. stage'[b] = "queued" /\ attempts'[b] = 1
      BY <1>0, <2>1, <3>1, <3>2
    <3>4. stage'[a] = "queued" => Before(queue', a, b)
      BY <1>0, <2>6, <2>9, <3>1, AppendedLast
    <3> QED BY <3>3, <3>4
  <2>11. CASE b = r
    <3>1. stage'[b] = "queued" /\ attempts'[b] = 1
      BY <1>0, <1>5, <2>1, <2>9, <2>11
    <3>2. ASSUME stage'[a] = "queued" PROVE Before(queue', a, b)
      <4>1. \E i \in 1..Len(queue) : queue[i] = a
        BY <1>4, <2>6, <3>2
      <4> QED BY <1>0, <2>9, <2>11, <4>1, AppendedLast
    <3> QED BY <3>1, <3>2
  <2> QED BY <2>2, <2>10, <2>11
<1>6. ASSUME arrived' = arrived, attempts[a] = 1, InUse(a)
      PROVE  /\ stage[b] = "queued" /\ attempts[b] = 1
             /\ stage[a] = "queued" => Before(queue, a, b)
  BY <1>1, <1>3, <1>6 DEF BehindFirst
<1>7. ASSUME arrived' = arrived, NEW r \in Requests, stage[r] \in {"ticked", "backoff"},
             SendRequest(r), attempts[r] > 0
      PROVE  /\ stage'[b] = "queued" /\ attempts'[b] = 1
             /\ stage'[a] = "queued" => Before(queue', a, b)
  <2>1. /\ \A q \in Requests \ {r} : stage'[q] = stage[q]
        /\ attempts' = [attempts EXCEPT ![r] = attempts[r] + 1]
    BY <1>0, <1>7, SendStages
  <2>2. a # r
    BY <1>0, <1>3, <1>7, <2>1
  <2>3. stage'[a] = stage[a] /\ attempts[a] = 1
    BY <1>0, <1>3, <2>1, <2>2
  <2>4. /\ stage[b] = "queued" /\ attempts[b] = 1
        /\ stage[a] = "queued" => Before(queue, a, b)
    BY <1>3, <1>6, <1>7, <2>3 DEF InUse
  <2>5. b # r
    BY <1>7, <2>4
  <2>6. queue' = queue \/ queue' = Append(queue, r)
    BY <1>7 DEF SendRequest
  <2>7. Before(queue, a, b) => Before(queue', a, b)
    <3>1. Before(queue, a, b) => Before(Append(queue, r), a, b)
      BY <1>0, AppendedLast
    <3> QED BY <2>6, <3>1
  <2> QED BY <1>0, <2>1, <2>3, <2>4, <2>5, <2>7
<1>8. ASSUME arrived' = arrived, attempts' = attempts
      PROVE  /\ stage'[b] = "queued" /\ attempts'[b] = 1
             /\ stage'[a] = "queued" => Before(queue', a, b)
  <2>0. attempts[a] = 1
    BY <1>3, <1>8
  <2>1. CASE UNCHANGED <<stage, queue>>
    <3>1. InUse(a)
      BY <1>3, <2>1 DEF InUse
    <3> QED BY <1>6, <1>8, <2>0, <2>1, <3>1
  <2>2. ASSUME NEW r \in Requests, NEW next \in Stages, QuietMove(r, next)
        PROVE  /\ stage'[b] = "queued" /\ attempts'[b] = 1
               /\ stage'[a] = "queued" => Before(queue', a, b)
    <3>1. /\ stage[r] # "queued" /\ next # "queued"
          /\ stage[r] \in InSocket <=> next \in InSocket
          /\ stage' = [stage EXCEPT ![r] = next] /\ queue' = queue
      BY <2>2 DEF QuietMove
    <3>2. InUse(a)
      BY <1>0, <1>3, <3>1 DEF InUse
    <3>3. /\ stage[b] = "queued" /\ attempts[b] = 1
          /\ stage[a] = "queued" => Before(queue, a, b)
      BY <1>6, <1>8, <2>0, <3>2
    <3>4. b # r /\ stage'[b] = "queued"
      BY <1>0, <3>1, <3>3
    <3>5. stage'[a] = "queued" => stage[a] = "queued"
      BY <1>0, <3>1
    <3> QED BY <1>8, <3>1, <3>3, <3>4, <3>5
  <2>3. ASSUME NEW r \in Requests, SendRequest(r) PROVE FALSE
    <3>1. attempts' = [attempts EXCEPT ![r] = attempts[r] + 1]
      BY <2>3 DEF SendRequest
    <3> QED BY <1>0, <1>8, <3>1
  <2>4. ASSUME NEW r \in Requests, NEW next \in {"backoff", "done"},
               stage[r] \in InSocket, ReleaseSocket(r, next)
        PROVE  /\ stage'[b] = "queued" /\ attempts'[b] = 1
               /\ stage'[a] = "queued" => Before(queue', a, b)
    <3>1. /\ stage'[r] = next
          /\ \A q \in Requests \ {r} : \/ stage'[q] = stage[q]
                                       \/ stage[q] = "queued" /\ stage'[q] = "sent"
      BY <1>0, <2>4, ReleaseStages
    <3>2. a # r
      BY <1>3, <3>1 DEF InUse, InSocket
    <3>3. stage[a] = "queued"
      <4>1. InUse(a)
        BY <1>3, <3>1, <3>2 DEF InUse
      <4>2. r \in Active
        BY <2>4 DEF Active, InSocket
      <4>3. a \notin Active
        BY <3>2, <4>2, OneSocket
      <4>4. stage[a] \notin InSocket
        BY <4>3 DEF Active, InSocket
      <4> QED BY <4>1, <4>4 DEF InUse
    <3>4. stage[b] = "queued" /\ attempts[b] = 1 /\ Before(queue, a, b)
      BY <1>6, <1>8, <2>0, <3>3 DEF InUse
    <3>5. queue # <<>>
      BY <1>0, <3>4 DEF Before
    <3>6. \A i, j \in 1..Len(queue) : queue[i] = queue[j] => i = j
      BY <1>0 DEF QueueMatchesStage
    <3>7. b # Head(queue) /\ (a # Head(queue) => Before(Tail(queue), a, b))
      BY <1>0, <3>4, <3>5, <3>6, HeadRemoved
    <3>8. /\ stage' = [stage EXCEPT ![r] = next, ![Head(queue)] = "sent"]
          /\ queue' = Tail(queue)
      BY <2>4, <3>5 DEF ReleaseSocket
    <3>9. Head(queue) \in Requests
      BY <1>0, <3>5, HeadTailProperties
    <3>10. b # r
      BY <2>4, <3>4 DEF InSocket
    <3>11. stage'[b] = "queued"
      BY <1>0, <3>4, <3>7, <3>8, <3>9, <3>10
    <3>12. stage'[a] = "queued" => a # Head(queue)
      BY <1>0, <3>8, <3>9
    <3> QED BY <1>8, <3>4, <3>7, <3>8, <3>11, <3>12
  <2>5. StepKind
    BY <1>0, <1>2, StepKinds
  <2> QED BY <2>1, <2>2, <2>3, <2>4, <2>5 DEF StepKind
<1>9. ArrivedInv
  BY DEF OrderInv
<1> QED BY <1>2, <1>5, <1>7, <1>8, <1>9, ArrivedGrows

\* Who has been attempted is listed, and what the broker holds was performed.
LEMMA ObservationsKept ==
    ASSUME Known, OrderInv, AdapterStep
    PROVE  ArrivedInv' /\ ValueInv'
<1>0. /\ attempts \in [Requests -> Nat] /\ applied \in [Requests -> Nat]
      /\ arrived \in Seq(Requests)
      /\ \A r \in Requests : attempts[r] > 0 <=> \E i \in 1..Len(arrived) : arrived[i] = r
  BY DEF Known, TypeOK, OrderInv, ArrivedInv
<1>1. Next /\ Observed /\ ArrivedInv
  BY DEF AdapterStep, OrderInv
<1>2. ArrivedInv'
  <2>1. CASE arrived' = arrived /\ attempts' = attempts
    BY <1>1, <2>1 DEF ArrivedInv
  <2>2. ASSUME NEW r \in Requests, SendRequest(r), attempts[r] > 0, arrived' = arrived
        PROVE  ArrivedInv'
    <3>1. attempts' = [attempts EXCEPT ![r] = attempts[r] + 1]
      BY <2>2 DEF SendRequest
    <3>2. \A q \in Requests : attempts'[q] > 0 <=> attempts[q] > 0
      BY <1>0, <2>2, <3>1
    <3> QED BY <1>0, <2>2, <3>2 DEF ArrivedInv
  <2>3. ASSUME NEW r \in Requests, SendRequest(r), attempts[r] = 0,
               arrived' = Append(arrived, r)
        PROVE  ArrivedInv'
    <3>1. attempts' = [attempts EXCEPT ![r] = attempts[r] + 1]
      BY <2>3 DEF SendRequest
    <3>2. \A q \in Requests : attempts'[q] > 0 <=> q = r \/ attempts[q] > 0
      BY <1>0, <2>3, <3>1
    <3>3. /\ arrived' \in Seq(Requests)
          /\ Len(arrived) \in Nat /\ Len(arrived') = Len(arrived) + 1
          /\ arrived'[Len(arrived) + 1] = r
          /\ \A i \in 1..Len(arrived) : arrived'[i] = arrived[i]
      BY <1>0, <2>3, AppendProperties, LenProperties
    <3>4. ASSUME NEW q \in Requests
          PROVE  (\E i \in 1..Len(arrived') : arrived'[i] = q)
                    <=> q = r \/ \E i \in 1..Len(arrived) : arrived[i] = q
      <4>1. ASSUME NEW i \in 1..Len(arrived'), arrived'[i] = q
            PROVE  q = r \/ \E k \in 1..Len(arrived) : arrived[k] = q
        <5>1. CASE i = Len(arrived) + 1
          BY <3>3, <4>1, <5>1
        <5>2. CASE i # Len(arrived) + 1
          <6>1. i \in 1..Len(arrived)
            BY <3>3, <4>1, <5>2
          <6> QED BY <3>3, <4>1, <6>1
        <5> QED BY <5>1, <5>2
      <4>2. ASSUME q = r PROVE \E i \in 1..Len(arrived') : arrived'[i] = q
        <5>1. Len(arrived) + 1 \in 1..Len(arrived')
          BY <3>3
        <5> QED BY <3>3, <4>2, <5>1
      <4>3. ASSUME NEW i \in 1..Len(arrived), arrived[i] = q
            PROVE  \E k \in 1..Len(arrived') : arrived'[k] = q
        <5>1. i \in 1..Len(arrived') /\ arrived'[i] = q
          BY <3>3, <4>3
        <5> QED BY <5>1
      <4> QED BY <4>1, <4>2, <4>3
    <3> QED BY <1>0, <3>2, <3>3, <3>4 DEF ArrivedInv
  <2> QED BY <1>1, <2>1, <2>2, <2>3, ArrivedGrows
<1>3. ValueInv'
  <2>1. CASE applied' = applied
    <3>1. value' = value
      BY <1>1, <2>1 DEF Observed
    <3> QED BY <2>1, <3>1 DEF OrderInv, ValueInv
  <2>2. CASE applied' # applied
    <3>1. PICK r \in Requests : applied' = [applied EXCEPT ![r] = applied[r] + 1]
      BY <1>1, <2>2, OnePerformed DEF BrokerUpdate, StrayUpdate
    <3>2. applied'[r] # applied[r] /\ \A q \in Requests : applied'[q] # applied[q] => q = r
      BY <1>0, <3>1
    <3>3. (CHOOSE q \in Requests : applied'[q] # applied[q]) = r
      BY <3>2
    <3>4. value' = r
      BY <1>1, <2>2, <3>3 DEF Observed
    <3>5. applied'[r] > 0
      BY <1>0, <3>1
    <3> QED BY <3>4, <3>5 DEF ValueInv
  <2> QED BY <2>1, <2>2
<1> QED BY <1>2, <1>3

LEMMA OrderInvariant == MaxRequests = 1 => (MonitoringSpec => []OrderInv)
<1>1. MonitoringInit => OrderInv
  <2>1. SUFFICES ASSUME MonitoringInit PROVE OrderInv
    OBVIOUS
  <2>2. arrived = <<>> /\ value = None /\ attempts = [r \in Requests |-> 0]
    BY <2>1 DEF MonitoringInit, TracingInit, Init
  <2>3. ArrivedInv /\ ValueInv
    BY <2>2 DEF ArrivedInv, ValueInv
  <2>4. \A a, b \in Requests : BehindFirst(a, b)
    BY <2>2 DEF BehindFirst
  <2> QED BY <2>3, <2>4 DEF OrderInv
<1>2. ASSUME MaxRequests = 1 PROVE Known /\ OrderInv /\ [MonitoringNext]_mvars => OrderInv'
  <2>1. SUFFICES ASSUME Known, OrderInv, [MonitoringNext]_mvars PROVE OrderInv'
    OBVIOUS
  <2>2. CASE AdapterStep
    <3>1. \A a, b \in Requests : BehindFirst(a, b)'
      BY <1>2, <2>1, <2>2, BehindKept
    <3> QED BY <2>1, <2>2, <3>1, ObservationsKept DEF OrderInv
  <2>3. CASE UNCHANGED <<tvars, arrived, value>>
    <3>1. UNCHANGED <<stage, queue, attempts, applied, arrived, value>>
      BY <2>3 DEF tvars, vars
    <3>2. ArrivedInv' /\ ValueInv'
      BY <2>1, <3>1 DEF OrderInv, ArrivedInv, ValueInv
    <3>3. \A a, b \in Requests : BehindFirst(a, b)'
      BY <2>1, <3>1 DEF OrderInv, BehindFirst, InUse
    <3> QED BY <3>2, <3>3 DEF OrderInv
  <2> QED BY <2>1, <2>2, <2>3 DEF MonitoringNext, StartCheck, CurlReturns, CurlFails, mvars
<1>3. MaxRequests = 1 => (MonitoringSpec => []OrderInv)
  <2>1. SUFFICES ASSUME MaxRequests = 1 PROVE MonitoringSpec => []OrderInv
    OBVIOUS
  <2>2. Known /\ OrderInv /\ [MonitoringNext]_mvars => OrderInv'
    BY <1>2, <2>1
  <2> QED BY <1>1, <2>2, AdapterKnown, PTL DEF MonitoringSpec
<1> QED BY <1>3

\* With one connection to Context Broker, an entity goes back to the update of an
\* earlier check only if that was attempted again, was left behind by a connection
\* that broke (adapter.js:87), or had its body received later (adapter.js:178).
THEOREM UpdatesInOrder == MaxRequests = 1 => (MonitoringSpec => OrderKept)
<1>1. ASSUME MaxRequests = 1
      PROVE  Known /\ OrderInv /\ [MonitoringNext]_mvars =>
               [\A a, b \in Requests :
                   Before(Schedule, a, b) /\ value = b /\ value' = a =>
                      \/ attempts[a] > 1
                      \/ stray'[a] # stray[a]
                      \/ Before(arrived, b, a)]_mvars
  <2>1. SUFFICES ASSUME Known, OrderInv, [MonitoringNext]_mvars,
                        NEW a \in Requests, NEW b \in Requests,
                        Before(Schedule, a, b), value = b, value' = a,
                        ~(attempts[a] > 1), stray'[a] = stray[a]
                 PROVE  Before(arrived, b, a)
    OBVIOUS
  <2>2. a # b
    BY <2>1, ScheduleAssumption DEF Before
  <2>3. AdapterStep
    BY <2>1, <2>2 DEF MonitoringNext, StartCheck, CurlReturns, CurlFails, mvars
  <2>4. Next /\ Observed
    BY <2>3 DEF AdapterStep
  <2>5. /\ stage \in [Requests -> Stages] /\ attempts \in [Requests -> Nat]
        /\ applied \in [Requests -> Nat] /\ stray \in [Requests -> Nat]
        /\ \A r \in Requests : Accounted(r)
    BY <2>1 DEF Known, TypeOK, AttemptsAccounted
  <2>6. PICK r \in Requests : BrokerUpdate(r) \/ StrayUpdate(r)
    <3>1. applied' # applied
      BY <2>1, <2>2, <2>4 DEF Observed
    <3> QED BY <2>4, <3>1, OnePerformed
  <2>7. r = a
    <3>1. applied' = [applied EXCEPT ![r] = applied[r] + 1]
      BY <2>6 DEF BrokerUpdate, StrayUpdate
    <3>2. applied'[r] # applied[r] /\ \A q \in Requests : applied'[q] # applied[q] => q = r
      BY <2>5, <3>1
    <3>3. (CHOOSE q \in Requests : applied'[q] # applied[q]) = r
      BY <3>2
    <3> QED BY <2>1, <2>4, <3>2, <3>3 DEF Observed
  <2>8. stage[a] = "sent"
    <3>1. ~StrayUpdate(a)
      BY <2>1, <2>5 DEF StrayUpdate
    <3>2. BrokerUpdate(a)
      BY <2>6, <2>7, <3>1
    <3> QED BY <3>2 DEF BrokerUpdate
  <2>9. attempts[a] = 1
    <3>1. Accounted(a) /\ attempts[a] \in Nat /\ applied[a] \in Nat /\ stray[a] \in Nat
      BY <2>5
    <3>2. applied[a] + stray[a] + 1 <= attempts[a]
      BY <2>8, <3>1 DEF Accounted, OnItsWay
    <3> QED BY <2>1, <3>1, <3>2
  <2>10. applied[b] > 0
    <3>1. value # None
      BY <2>1, ScheduleAssumption
    <3> QED BY <2>1, <3>1 DEF OrderInv, ValueInv
  <2>11. attempts[b] > 0
    BY <2>5, <2>10 DEF Accounted, OnItsWay
  <2>12. PICK i \in 1..Len(arrived) : arrived[i] = a
    BY <2>1, <2>9 DEF OrderInv, ArrivedInv
  <2>13. PICK j \in 1..Len(arrived) : arrived[j] = b
    BY <2>1, <2>11 DEF OrderInv, ArrivedInv
  <2>14. ~(i < j)
    <3>1. SUFFICES ASSUME i < j PROVE FALSE
      OBVIOUS
    <3>2. Before(arrived, a, b)
      BY <2>12, <2>13, <3>1 DEF Before
    <3>3. InUse(a) /\ BehindFirst(a, b)
      BY <2>1, <2>8 DEF InUse, InSocket, OrderInv
    <3>4. stage[b] = "queued" /\ attempts[b] = 1
      BY <2>9, <3>2, <3>3 DEF BehindFirst
    <3> QED BY <2>5, <2>10, <3>4 DEF Accounted, OnItsWay
  <2>15. j < i
    <3>1. i # j
      BY <2>2, <2>12, <2>13
    <3> QED BY <2>14, <3>1
  <2> QED BY <2>12, <2>13, <2>15 DEF Before
<1>2. SUFFICES ASSUME MaxRequests = 1 PROVE MonitoringSpec => OrderKept
  OBVIOUS
<1>3. Known /\ OrderInv /\ [MonitoringNext]_mvars =>
               [\A a, b \in Requests :
                   Before(Schedule, a, b) /\ value = b /\ value' = a =>
                      \/ attempts[a] > 1
                      \/ stray'[a] # stray[a]
                      \/ Before(arrived, b, a)]_mvars
  BY <1>1, <1>2
<1>4. MonitoringSpec => []OrderInv
  BY <1>2, OrderInvariant
<1> QED BY <1>3, <1>4, AdapterKnown, PTL DEF MonitoringSpec, OrderKept
=============================================================================

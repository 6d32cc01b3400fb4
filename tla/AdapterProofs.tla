---------------------------- MODULE AdapterProofs ----------------------------
(***************************************************************************)
(* Proofs about Adapter, for any requests, retries, number of sockets and  *)
(* API of the broker: its types, queue and sockets, the updates that the   *)
(* broker performs, the outcomes that are logged, and the implementation   *)
(* of UpdateDelivery.                                                      *)
(***************************************************************************)
EXTENDS Adapter, FiniteSetTheorems, SequenceTheorems, TLAPS

----------------------------------------------------------------------------
\* The steps of Next other than Exit, by the part of the state they disturb.

\* A socket that is released goes to a waiting request, and the queue stays one.
LEMMA ReleaseType ==
    ASSUME TypeOK, NEW r \in Requests, NEW next \in Stages,
           ReleaseSocket(r, next)
    PROVE  stage' \in [Requests -> Stages] /\ queue' \in Seq(Requests)
  <1> stage \in [Requests -> Stages] /\ queue \in Seq(Requests)
    BY DEF TypeOK
  <1>1. CASE queue = <<>>
    <2>1. stage' = [stage EXCEPT ![r] = next] /\ queue' = queue
      BY <1>1 DEF ReleaseSocket
    <2> QED
      BY <2>1
  <1>2. CASE queue # <<>>
    <2>1. stage' = [stage EXCEPT ![r] = next, ![Head(queue)] = "sent"]
      BY <1>2 DEF ReleaseSocket
    <2>2. Head(queue) \in Requests /\ Tail(queue) \in Seq(Requests)
      BY <1>2, HeadTailProperties
    <2>3. "sent" \in Stages
      BY DEF Stages
    <2>4. stage' \in [Requests -> Stages]
      BY <2>1, <2>2, <2>3
    <2> QED
      BY <1>2, <2>2, <2>4 DEF ReleaseSocket
  <1> QED
    BY <1>1, <1>2

LEMMA SendType ==
    ASSUME TypeOK, NEW r \in Requests, SendRequest(r)
    PROVE  /\ stage' \in [Requests -> Stages]
           /\ queue' \in Seq(Requests)
           /\ attempts' \in [Requests -> Nat]
  <1>1. {"sent", "queued"} \subseteq Stages
    BY DEF Stages
  <1>2. stage \in [Requests -> Stages] /\ queue \in Seq(Requests)
    BY DEF TypeOK
  <1>3. attempts' \in [Requests -> Nat]
    BY DEF SendRequest, TypeOK
  <1>4. CASE SocketAvailable
    BY <1>1, <1>2, <1>3, <1>4 DEF SendRequest
  <1>5. CASE ~SocketAvailable
    <2>1. Append(queue, r) \in Seq(Requests)
      BY <1>2
    <2> QED
      BY <1>1, <1>2, <1>3, <1>5, <2>1 DEF SendRequest
  <1> QED
    BY <1>4, <1>5

LEMMA CallbackType ==
    ASSUME TypeOK, NEW r \in Requests, NEW o \in Outcomes, Callback(r, o)
    PROVE  reports' \in [Requests -> Seq(Outcomes)]
  <1>1. reports[r] \in Seq(Outcomes)
    BY DEF TypeOK
  <1>2. Append(reports[r], o) \in Seq(Outcomes)
    BY <1>1
  <1> QED
    BY <1>2 DEF Callback, TypeOK

LEMMA OutcomeType == \A rep : Outcome(rep) \in Outcomes
  BY DEF Outcome, Outcomes

LEMMA TruncationType ==
    ASSUME NEW rep \in Replies, NEW short \in Truncations(rep)
    PROVE  short \in Replies
  BY DEF Truncations, Replies, Bodies

LEMMA ErrorType ==
    ASSUME TypeOK, NEW r \in Requests, OnError(r)
    PROVE  /\ stage' \in [Requests -> Stages]
           /\ queue' \in Seq(Requests)
           /\ reports' \in [Requests -> Seq(Outcomes)]
  <1>1. "backoff" \in Stages /\ "done" \in Stages /\ "failed" \in Outcomes
    BY DEF Stages, Outcomes
  <1>2. CASE RetryAllowed(r)
    <2>1. ReleaseSocket(r, "backoff") /\ reports' = reports
      BY <1>2 DEF OnError
    <2> QED
      BY <1>1, <2>1, ReleaseType DEF TypeOK
  <1>3. CASE ~RetryAllowed(r)
    <2>1. ReleaseSocket(r, "done") /\ Callback(r, "failed")
      BY <1>3 DEF OnError
    <2>2. reports' \in [Requests -> Seq(Outcomes)]
      BY <1>1, <2>1, CallbackType
    <2> QED
      BY <1>1, <2>1, <2>2, ReleaseType
  <1> QED
    BY <1>2, <1>3

\* Every state reached has the types declared: no status but those four is ever
\* answered, and the agent queues requests only.
THEOREM TypeCorrect == Spec => []TypeOK
  <1>1. Init => TypeOK
    BY DEF Init, TypeOK, Stages, Replies, NoReply, Bodies
  <1>2. TypeOK /\ [Next]_vars => TypeOK'
    <2> SUFFICES ASSUME TypeOK, [Next]_vars PROVE TypeOK'
      OBVIOUS
    <2>1. ASSUME NEW r \in Requests, HttpRequest(r) PROVE TypeOK'
      BY <2>1 DEF HttpRequest, TypeOK, StatusFor, Stages
    <2>2. ASSUME NEW r \in Requests, BodyEnd(r) PROVE TypeOK'
      BY <2>2 DEF BodyEnd, TypeOK, Stages
    <2>3. ASSUME NEW r \in Requests, ClientAbort(r) PROVE TypeOK'
      BY <2>3 DEF ClientAbort, TypeOK, Stages
    <2>4. ASSUME NEW r \in Requests, UdpRequest(r) PROVE TypeOK'
      BY <2>4 DEF UdpRequest, TypeOK, Stages
    <2>5. ASSUME NEW r \in Requests, UpdateContext(r) PROVE TypeOK'
      <3>1. CASE SendRequest(r) /\ UNCHANGED reports
        BY <2>5, <3>1, SendType DEF UpdateContext, TypeOK
      <3>2. CASE /\ stage' = [stage EXCEPT ![r] = "done"]
                 /\ Callback(r, "failed")
                 /\ UNCHANGED <<queue, attempts>>
        <4>1. "failed" \in Outcomes /\ "done" \in Stages
          BY DEF Outcomes, Stages
        <4>2. reports' \in [Requests -> Seq(Outcomes)]
          BY <3>2, <4>1, CallbackType
        <4> QED
          BY <2>5, <3>2, <4>1, <4>2 DEF UpdateContext, TypeOK
      <3> QED
        BY <2>5, <3>1, <3>2 DEF UpdateContext
    <2>6. ASSUME NEW r \in Requests, BrokerUpdate(r) PROVE TypeOK'
      BY <2>6 DEF BrokerUpdate, TypeOK, Stages
    <2>7. ASSUME NEW r \in Requests, StrayUpdate(r) PROVE TypeOK'
      BY <2>7 DEF StrayUpdate, TypeOK
    <2>8. ASSUME NEW r \in Requests, Response(r) PROVE TypeOK'
      <3>1. BrokerReplies(stage[r] = "served") \subseteq Replies
        BY DEF BrokerReplies, Replies, Refusals, ReplyToUpdate, BadGateway, Bodies
      <3>2. reply' \in [Requests -> Replies]
        <4>1. PICK rep \in BrokerReplies(stage[r] = "served") :
                  reply' = [reply EXCEPT ![r] = rep]
          BY <2>8 DEF Response
        <4>2. rep \in Replies
          BY <3>1
        <4> QED
          BY <4>1, <4>2 DEF TypeOK
      <3>3. stage' \in [Requests -> Stages]
        BY <2>8 DEF Response, TypeOK, Stages
      <3> QED
        BY <2>8, <3>2, <3>3 DEF Response, TypeOK
    <2>9. ASSUME NEW r \in Requests, ResponseEnd(r) PROVE TypeOK'
      <3>1. reports' \in [Requests -> Seq(Outcomes)]
        BY <2>9, CallbackType, OutcomeType DEF ResponseEnd
      <3>2. stage' \in [Requests -> Stages] /\ queue' \in Seq(Requests)
        <4>1. "done" \in Stages
          BY DEF Stages
        <4> QED
          BY <2>9, <4>1, ReleaseType DEF ResponseEnd
      <3>3. NoReply \in Replies
        BY DEF NoReply, Replies, Bodies
      <3> QED
        <4>1. reply' \in [Requests -> Replies] /\ cut' \subseteq Requests
          BY <2>9, <3>3 DEF ResponseEnd, TypeOK
        <4> QED
          BY <2>9, <3>1, <3>2, <4>1 DEF ResponseEnd, TypeOK
    <2>10. ASSUME NEW r \in Requests, ResponseCut(r) PROVE TypeOK'
      <3>1. reports' \in [Requests -> Seq(Outcomes)]
        BY <2>10, CallbackType, OutcomeType DEF ResponseCut
      <3>2. stage' \in [Requests -> Stages] /\ queue' \in Seq(Requests)
        <4>1. "done" \in Stages
          BY DEF Stages
        <4> QED
          BY <2>10, <4>1, ReleaseType DEF ResponseCut
      <3>3. NoReply \in Replies
        BY DEF NoReply, Replies, Bodies
      <3> QED
        <4>1. reply' \in [Requests -> Replies] /\ cut' \subseteq Requests
          BY <2>10, <3>3 DEF ResponseCut, TypeOK
        <4> QED
          BY <2>10, <3>1, <3>2, <4>1 DEF ResponseCut, TypeOK
    <2>11. ASSUME NEW r \in Requests, ConnectionError(r) PROVE TypeOK'
      BY <2>11, ErrorType DEF ConnectionError, TypeOK
    <2>12. ASSUME NEW r \in Requests, ResponseReset(r) PROVE TypeOK'
      <3>1. reply' \in [Requests -> Replies]
        BY <2>12, TruncationType DEF ResponseReset, TypeOK
      <3> QED
        BY <2>12, <3>1, ErrorType DEF ResponseReset, TypeOK
    <2>13. ASSUME NEW r \in Requests, AbortedEnd(r) PROVE TypeOK'
      <3>1. reports' \in [Requests -> Seq(Outcomes)]
        BY <2>13, CallbackType, OutcomeType DEF AbortedEnd
      <3>2. NoReply \in Replies
        BY DEF NoReply, Replies, Bodies
      <3> QED
        BY <2>13, <3>1, <3>2 DEF AbortedEnd, TypeOK
    <2>14. ASSUME NEW r \in Requests, RetryTimer(r) PROVE TypeOK'
      BY <2>14, SendType DEF RetryTimer, TypeOK
    <2>15. CASE Exit
      BY <2>15 DEF Exit, TypeOK
    <2>16. CASE UNCHANGED vars
      BY <2>16 DEF vars, TypeOK
    <2> QED
      BY <2>1, <2>2, <2>3, <2>4, <2>5, <2>6, <2>7, <2>8, <2>9, <2>10, <2>11,
         <2>12, <2>13, <2>14, <2>15, <2>16 DEF Next
  <1> QED
    BY <1>1, <1>2, PTL DEF Spec

----------------------------------------------------------------------------
\* What a step does to the stages and the queue: nothing, a move that neither
\* takes nor frees a socket, a request for a socket or the release of one.

InSocket == {"sent", "served", "responding"}

QuietMove(r, next) ==
    /\ stage[r] # "queued" /\ next \notin {"queued", "sent"}
    /\ stage[r] \in InSocket <=> next \in InSocket
    /\ stage' = [stage EXCEPT ![r] = next]
    /\ queue' = queue

StepKind ==
    \/ UNCHANGED <<stage, queue>>
    \/ \E r \in Requests, next \in Stages : QuietMove(r, next)
    \/ \E r \in Requests : stage[r] \in {"ticked", "backoff"} /\ SendRequest(r)
    \/ \E r \in Requests, next \in {"backoff", "done"} :
          stage[r] \in InSocket /\ ReleaseSocket(r, next)

LEMMA StepKinds == TypeOK /\ [Next]_vars => StepKind
  <1> SUFFICES ASSUME TypeOK, [Next]_vars PROVE StepKind
    OBVIOUS
  <1>1. ASSUME NEW r \in Requests, HttpRequest(r) PROVE StepKind
    <2>1. \E next \in {"receiving", "refused"} : stage' = [stage EXCEPT ![r] = next]
      BY <1>1 DEF HttpRequest
    <2> QED
      BY <1>1, <2>1 DEF HttpRequest, StepKind, QuietMove, InSocket, Stages
  <1>2. ASSUME NEW r \in Requests, BodyEnd(r) PROVE StepKind
    BY <1>2 DEF BodyEnd, StepKind, QuietMove, InSocket, Stages
  <1>3. ASSUME NEW r \in Requests, ClientAbort(r) PROVE StepKind
    BY <1>3 DEF ClientAbort, StepKind, QuietMove, InSocket, Stages
  <1>4. ASSUME NEW r \in Requests, UdpRequest(r) PROVE StepKind
    <2>1. \E next \in {"ticked", "refused"} : stage' = [stage EXCEPT ![r] = next]
      BY <1>4 DEF UdpRequest
    <2> QED
      BY <1>4, <2>1 DEF UdpRequest, StepKind, QuietMove, InSocket, Stages
  <1>5. ASSUME NEW r \in Requests, UpdateContext(r) PROVE StepKind
    BY <1>5 DEF UpdateContext, StepKind, QuietMove, InSocket, Stages
  <1>6. ASSUME NEW r \in Requests, BrokerUpdate(r) PROVE StepKind
    BY <1>6 DEF BrokerUpdate, StepKind, QuietMove, InSocket, Stages
  <1>7. ASSUME NEW r \in Requests, StrayUpdate(r) PROVE StepKind
    BY <1>7 DEF StrayUpdate, StepKind
  <1>8. ASSUME NEW r \in Requests, Response(r) PROVE StepKind
    BY <1>8 DEF Response, StepKind, QuietMove, InSocket, Stages
  <1>9. ASSUME NEW r \in Requests, ResponseEnd(r) \/ ResponseCut(r) PROVE StepKind
    BY <1>9 DEF ResponseEnd, ResponseCut, StepKind, InSocket
  <1>10. ASSUME NEW r \in Requests, ConnectionError(r) \/ ResponseReset(r)
         PROVE  StepKind
    BY <1>10 DEF ConnectionError, ResponseReset, OnError, StepKind, InSocket
  <1>11. ASSUME NEW r \in Requests, AbortedEnd(r) PROVE StepKind
    BY <1>11 DEF AbortedEnd, StepKind
  <1>12. ASSUME NEW r \in Requests, RetryTimer(r) PROVE StepKind
    BY <1>12 DEF RetryTimer, StepKind
  <1>13. CASE Exit \/ UNCHANGED vars
    BY <1>13 DEF Exit, vars, StepKind
  <1> QED
    BY <1>1, <1>2, <1>3, <1>4, <1>5, <1>6, <1>7, <1>8, <1>9, <1>10, <1>11,
       <1>12, <1>13 DEF Next

\* The queue holds the waiting requests, once each, whatever fills it.
LEMMA QueueStep == TypeOK /\ QueueMatchesStage /\ StepKind => QueueMatchesStage'
  <1> SUFFICES ASSUME TypeOK, QueueMatchesStage, StepKind PROVE QueueMatchesStage'
    OBVIOUS
  <1> stage \in [Requests -> Stages] /\ queue \in Seq(Requests)
    BY DEF TypeOK
  <1>1. CASE UNCHANGED <<stage, queue>>
    BY <1>1 DEF QueueMatchesStage
  <1>2. ASSUME NEW r \in Requests, NEW next \in Stages, QuietMove(r, next)
        PROVE  QueueMatchesStage'
    BY <1>2 DEF QuietMove, QueueMatchesStage
  <1>3. ASSUME NEW r \in Requests, stage[r] \in {"ticked", "backoff"}, SendRequest(r)
        PROVE  QueueMatchesStage'
    <2>1. CASE SocketAvailable
      BY <1>3, <2>1 DEF SendRequest, QueueMatchesStage
    <2>2. CASE ~SocketAvailable
      <3>1. stage' = [stage EXCEPT ![r] = "queued"] /\ queue' = Append(queue, r)
        BY <2>2, <1>3 DEF SendRequest
      <3>2. /\ Len(queue') = Len(queue) + 1
            /\ \A i \in 1..Len(queue) : queue'[i] = queue[i]
            /\ queue'[Len(queue) + 1] = r
        BY <3>1
      <3>3. Len(queue) \in Nat
        OBVIOUS
      <3>4. \A i \in 1..Len(queue) : queue[i] # r
        BY <1>3 DEF QueueMatchesStage
      <3>5. \A i, j \in 1..Len(queue') : queue'[i] = queue'[j] => i = j
        BY <3>2, <3>3, <3>4 DEF QueueMatchesStage
      <3>6. ASSUME NEW q \in Requests
            PROVE  stage'[q] = "queued" <=> \E i \in 1..Len(queue') : queue'[i] = q
        <4>1. CASE q = r
          <5>1. Len(queue) + 1 \in 1..Len(queue')
            BY <3>2, <3>3
          <5> QED
            BY <4>1, <5>1, <3>1, <3>2
        <4>2. CASE q # r
          <5>1. stage'[q] = stage[q]
            BY <4>2, <3>1
          <5>2. \A i \in 1..Len(queue') : queue'[i] = q => i \in 1..Len(queue)
            BY <4>2, <3>2, <3>3
          <5>3. 1..Len(queue) \subseteq 1..Len(queue')
            BY <3>2, <3>3
          <5> QED
            BY <5>1, <5>2, <5>3, <3>2 DEF QueueMatchesStage
        <4> QED
          BY <4>1, <4>2
      <3> QED
        BY <3>5, <3>6 DEF QueueMatchesStage
    <2> QED
      BY <2>1, <2>2
  <1>4. ASSUME NEW r \in Requests, NEW next \in {"backoff", "done"},
               stage[r] \in InSocket, ReleaseSocket(r, next)
        PROVE  QueueMatchesStage'
    <2>1. CASE queue = <<>>
      BY <1>4, <2>1 DEF ReleaseSocket, QueueMatchesStage, InSocket
    <2>2. CASE queue # <<>>
      <3> DEFINE h == Head(queue)
      <3>1. /\ stage' = [stage EXCEPT ![r] = next, ![h] = "sent"]
            /\ queue' = Tail(queue)
        BY <1>4, <2>2 DEF ReleaseSocket
      <3>2. /\ h \in Requests /\ h = queue[1]
            /\ Len(queue) \in Nat \ {0}
            /\ Len(queue') = Len(queue) - 1
            /\ \A i \in 1..Len(queue') : queue'[i] = queue[i + 1]
        BY <2>2, <3>1, HeadTailProperties
      <3>3. stage[h] = "queued" /\ h # r
        BY <1>4, <3>2 DEF QueueMatchesStage, InSocket
      <3>4. \A i \in 2..Len(queue) : queue[i] # h
        BY <3>2 DEF QueueMatchesStage
      <3>5. \A q \in Requests : stage'[q] = "queued" <=> stage[q] = "queued" /\ q # h
        BY <1>4, <3>1, <3>2, <3>3 DEF InSocket
      <3>6. \A i, j \in 1..Len(queue') : queue'[i] = queue'[j] => i = j
        BY <3>2 DEF QueueMatchesStage
      <3>7. ASSUME NEW q \in Requests
            PROVE  stage'[q] = "queued" <=> \E i \in 1..Len(queue') : queue'[i] = q
        <4>1. ASSUME stage'[q] = "queued"
              PROVE  \E i \in 1..Len(queue') : queue'[i] = q
          <5>1. PICK j \in 1..Len(queue) : queue[j] = q
            BY <4>1, <3>5 DEF QueueMatchesStage
          <5>2. j # 1
            BY <5>1, <4>1, <3>5, <3>2
          <5>3. j - 1 \in 1..Len(queue') /\ queue'[j - 1] = q
            BY <5>1, <5>2, <3>2
          <5> QED
            BY <5>3
        <4>2. ASSUME NEW i \in 1..Len(queue'), queue'[i] = q
              PROVE  stage'[q] = "queued"
          <5>1. i + 1 \in 2..Len(queue) /\ queue[i + 1] = q
            BY <4>2, <3>2
          <5> QED
            BY <5>1, <3>2, <3>4, <3>5 DEF QueueMatchesStage
        <4> QED
          BY <4>1, <4>2
      <3> QED
        BY <3>6, <3>7 DEF QueueMatchesStage
    <2> QED
      BY <2>1, <2>2
  <1> QED
    BY <1>1, <1>2, <1>3, <1>4 DEF StepKind

\* The agent's queue and the stages of the requests always agree.
THEOREM QueueCorrect == Spec => []QueueMatchesStage
  <1>1. Init => QueueMatchesStage
    BY DEF Init, QueueMatchesStage
  <1>2. TypeOK /\ QueueMatchesStage /\ [Next]_vars => QueueMatchesStage'
    BY StepKinds, QueueStep
  <1> QED
    BY <1>1, <1>2, TypeCorrect, PTL DEF Spec

----------------------------------------------------------------------------
\* The sockets in use.

SocketsCorrect == SocketBound /\ WorkConserving

LEMMA ActiveFinite == IsFiniteSet(Active) /\ Cardinality(Active) \in Nat
  <1>1. Active \subseteq Requests
    BY DEF Active
  <1> QED
    BY <1>1, RequestsAssumption, FS_Subset, FS_CardinalityType

LEMMA SocketStep ==
    TypeOK /\ QueueMatchesStage /\ SocketsCorrect /\ StepKind => SocketsCorrect'
  <1> SUFFICES ASSUME TypeOK, QueueMatchesStage, SocketsCorrect, StepKind
               PROVE  SocketsCorrect'
    OBVIOUS
  <1> stage \in [Requests -> Stages] /\ queue \in Seq(Requests)
    BY DEF TypeOK
  <1> IsFiniteSet(Active) /\ Cardinality(Active) \in Nat
    BY ActiveFinite
  <1> MaxRequests \in Nat \ {0}
    BY MaxRequestsAssumption
  <1>0. ASSUME Cardinality(Active') = Cardinality(Active),
               queue' # <<>> => queue # <<>>
        PROVE  SocketsCorrect'
    BY <1>0 DEF SocketsCorrect, SocketBound, WorkConserving
  <1>1. CASE UNCHANGED <<stage, queue>>
    BY <1>1 DEF SocketsCorrect, SocketBound, WorkConserving, Active
  <1>2. ASSUME NEW r \in Requests, NEW next \in Stages, QuietMove(r, next)
        PROVE  SocketsCorrect'
    <2>1. Active' = Active
      BY <1>2 DEF QuietMove, Active, InSocket
    <2> QED
      BY <1>2, <2>1, <1>0 DEF QuietMove
  <1>3. ASSUME NEW r \in Requests, stage[r] \in {"ticked", "backoff"}, SendRequest(r)
        PROVE  SocketsCorrect'
    <2>1. CASE SocketAvailable
      <3>1. Active' = Active \cup {r} /\ r \notin Active
        BY <1>3, <2>1 DEF SendRequest, Active
      <3>2. Cardinality(Active') = Cardinality(Active) + 1
        BY <3>1, FS_AddElement
      <3>3. queue' = queue /\ Cardinality(Active) < MaxRequests
        BY <1>3, <2>1 DEF SendRequest, SocketAvailable
      <3> QED
        BY <3>2, <3>3 DEF SocketsCorrect, SocketBound, WorkConserving
    <2>2. CASE ~SocketAvailable
      <3>1. Active' = Active
        BY <1>3, <2>2 DEF SendRequest, Active
      <3>2. Cardinality(Active) = MaxRequests
        BY <2>2 DEF SocketAvailable, SocketsCorrect, SocketBound
      <3> QED
        BY <3>1, <3>2 DEF SocketsCorrect, SocketBound, WorkConserving
    <2> QED
      BY <2>1, <2>2
  <1>4. ASSUME NEW r \in Requests, NEW next \in {"backoff", "done"},
               stage[r] \in InSocket, ReleaseSocket(r, next)
        PROVE  SocketsCorrect'
    <2>1. r \in Active
      BY <1>4 DEF Active, InSocket
    <2>2. Cardinality(Active \ {r}) = Cardinality(Active) - 1
      BY <2>1, FS_RemoveElement
    <2>3. CASE queue = <<>>
      <3>1. Active' = Active \ {r} /\ queue' = <<>>
        BY <1>4, <2>3 DEF ReleaseSocket, Active, InSocket
      <3> QED
        BY <3>1, <2>2 DEF SocketsCorrect, SocketBound, WorkConserving
    <2>4. CASE queue # <<>>
      <3> DEFINE h == Head(queue)
      <3>1. h \in Requests /\ Len(queue) \in Nat \ {0} /\ h = queue[1]
        BY <2>4, HeadTailProperties
      <3>2. stage[h] = "queued"
        BY <3>1 DEF QueueMatchesStage
      <3>3. h \notin Active \ {r} /\ IsFiniteSet(Active \ {r})
        BY <3>2, FS_RemoveElement DEF Active
      <3>4. Active' = (Active \ {r}) \cup {h}
        BY <1>4, <2>4, <3>1, <3>2 DEF ReleaseSocket, Active, InSocket
      <3>5. Cardinality(Active') = Cardinality(Active \ {r}) + 1
        BY <3>3, <3>4, FS_AddElement
      <3> QED
        BY <3>5, <2>2, <2>4, <1>0
    <2> QED
      BY <2>3, <2>4
  <1> QED
    BY <1>1, <1>2, <1>3, <1>4 DEF StepKind

\* At most MaxRequests connections are open, and a request only ever waits
\* while all of them are in use (adapter.js:47), for any number of requests.
THEOREM SocketsBounded == Spec => [](SocketBound /\ WorkConserving)
  <1>1. Init => SocketsCorrect
    <2> SUFFICES ASSUME Init PROVE SocketsCorrect
      OBVIOUS
    <2>1. Active = {}
      BY DEF Init, Active
    <2>2. Cardinality(Active) = 0
      BY <2>1, FS_EmptySet
    <2> QED
      BY <2>2, MaxRequestsAssumption DEF Init, SocketsCorrect, SocketBound, WorkConserving
  <1>2. TypeOK /\ QueueMatchesStage /\ SocketsCorrect /\ [Next]_vars => SocketsCorrect'
    BY StepKinds, SocketStep
  <1>3. SocketsCorrect => SocketBound /\ WorkConserving
    BY DEF SocketsCorrect
  <1> QED
    BY <1>1, <1>2, <1>3, TypeCorrect, QueueCorrect, PTL DEF Spec

\* The half of it that concerns those who wait: no failure of a connection, and
\* no order of retries and first attempts, loses a socket.
THEOREM NoSocketLost == Spec => []WorkConserving
  BY SocketsBounded, PTL

----------------------------------------------------------------------------
\* The order of the queue.

InOrder(a, b) ==
    /\ stage[a] = "queued" /\ stage[b] # "sent" /\ stage'[b] = "sent" => b = Head(queue)
    /\ /\ a # b
       /\ stage[a] = "queued" /\ stage'[a] = "queued" /\ stage'[b] = "queued"
       /\ stage[b] = "queued" => Before(queue, a, b)
       => Before(queue', a, b)

\* Whoever waits is in the queue, and then no socket is free.
LEMMA OrderStep ==
    ASSUME TypeOK, QueueMatchesStage, WorkConserving, StepKind,
           NEW a \in Requests, NEW b \in Requests
    PROVE  InOrder(a, b)
  <1> stage \in [Requests -> Stages] /\ queue \in Seq(Requests) /\ Len(queue) \in Nat
    BY DEF TypeOK
  <1>0. ASSUME UNCHANGED queue, stage'[b] = "queued" => stage[b] = "queued",
               stage[b] # "sent" => stage'[b] # "sent"
        PROVE  InOrder(a, b)
    BY <1>0 DEF InOrder, Before
  <1>1. CASE UNCHANGED <<stage, queue>>
    BY <1>0, <1>1
  <1>2. ASSUME NEW r \in Requests, NEW next \in Stages, QuietMove(r, next)
        PROVE  InOrder(a, b)
    BY <1>0, <1>2 DEF QuietMove
  <1>3. ASSUME NEW r \in Requests, stage[r] \in {"ticked", "backoff"}, SendRequest(r)
        PROVE  InOrder(a, b)
    <2>1. CASE SocketAvailable
      <3>1. queue = <<>>
        BY <2>1, MaxRequestsAssumption, ActiveFinite DEF SocketAvailable, WorkConserving
      <3>2. stage[a] # "queued"
        BY <3>1 DEF QueueMatchesStage
      <3> QED
        BY <3>2 DEF InOrder
    <2>2. CASE ~SocketAvailable
      <3>1. stage' = [stage EXCEPT ![r] = "queued"] /\ queue' = Append(queue, r)
        BY <1>3, <2>2 DEF SendRequest
      <3>2. /\ Len(queue') = Len(queue) + 1
            /\ \A i \in 1..Len(queue) : i \in 1..Len(queue') /\ queue'[i] = queue[i]
            /\ queue'[Len(queue) + 1] = r
        BY <3>1
      <3>3. Before(queue, a, b) => Before(queue', a, b)
        BY <3>2 DEF Before
      <3>4. ASSUME stage[a] = "queued", b = r
            PROVE  Before(queue', a, b)
        <4>1. PICK i \in 1..Len(queue) : queue[i] = a
          BY <3>4 DEF QueueMatchesStage
        <4>2. i < Len(queue) + 1 /\ Len(queue) + 1 \in 1..Len(queue')
          BY <3>2
        <4> QED
          BY <3>2, <3>4, <4>1, <4>2 DEF Before
      <3> QED
        BY <3>1, <3>3, <3>4 DEF InOrder
    <2> QED
      BY <2>1, <2>2
  <1>4. ASSUME NEW r \in Requests, NEW next \in {"backoff", "done"},
               stage[r] \in InSocket, ReleaseSocket(r, next)
        PROVE  InOrder(a, b)
    <2>1. CASE queue = <<>>
      BY <1>0, <1>4, <2>1 DEF ReleaseSocket
    <2>2. CASE queue # <<>>
      <3>1. /\ stage' = [stage EXCEPT ![r] = next, ![Head(queue)] = "sent"]
            /\ queue' = Tail(queue)
        BY <1>4, <2>2 DEF ReleaseSocket
      <3>2. /\ Head(queue) \in Requests /\ Head(queue) = queue[1]
            /\ Len(queue') = Len(queue) - 1
            /\ \A i \in 1..Len(queue') : queue'[i] = queue[i + 1]
        BY <2>2, <3>1, HeadTailProperties
      <3>3. stage[b] # "sent" /\ stage'[b] = "sent" => b = Head(queue)
        BY <1>4, <3>1
      <3>4. ASSUME stage'[a] = "queued", Before(queue, a, b)
            PROVE  Before(queue', a, b)
        <4>1. PICK i, j \in 1..Len(queue) : i < j /\ queue[i] = a /\ queue[j] = b
          BY <3>4 DEF Before
        <4>2. i # 1
          BY <3>1, <3>2, <3>4, <4>1
        <4>3. /\ i - 1 \in 1..Len(queue') /\ queue'[i - 1] = a
              /\ j - 1 \in 1..Len(queue') /\ queue'[j - 1] = b
              /\ i - 1 < j - 1
          BY <3>2, <4>1, <4>2
        <4> QED
          BY <4>3 DEF Before
      <3>5. stage'[b] = "queued" => stage[b] = "queued"
        BY <1>4, <3>1
      <3> QED
        BY <3>3, <3>4, <3>5 DEF InOrder
    <2> QED
      BY <2>1, <2>2
  <1> QED
    BY <1>1, <1>2, <1>3, <1>4 DEF StepKind

\* Sockets are taken in the order they were asked for, however many requests wait:
\* nothing overtakes who is in the queue of the agent (adapter.js:74).
THEOREM QueueInOrder == Spec => NoOvertaking
  <1>1. TypeOK /\ QueueMatchesStage /\ WorkConserving /\ [Next]_vars
          => [\A a, b \in Requests : InOrder(a, b)]_vars
    BY StepKinds, OrderStep
  <1>2. [\A a, b \in Requests : InOrder(a, b)]_vars
          <=> [\A a, b \in Requests :
                  /\ stage[a] = "queued" /\ stage[b] # "sent" /\ stage'[b] = "sent"
                        => b = Head(queue)
                  /\ /\ a # b
                     /\ stage[a] = "queued" /\ stage'[a] = "queued" /\ stage'[b] = "queued"
                     /\ stage[b] = "queued" => Before(queue, a, b)
                     => Before(queue', a, b)]_vars
    BY DEF InOrder
  <1> QED
    BY <1>1, <1>2, TypeCorrect, QueueCorrect, SocketsBounded, PTL DEF Spec, NoOvertaking

----------------------------------------------------------------------------
\* Attempts and their effect at the broker.  DuplicateBound is not inductive:
\* what is on its way to the broker has to be counted with what was performed.

OnItsWay(r) == IF stage[r] \in {"queued", "sent"} THEN 1 ELSE 0
Unsent == {"idle", "refused", "receiving", "abandoned", "ticked"}

Accounted(r) ==
    /\ applied[r] + stray[r] + OnItsWay(r) <= attempts[r]
    /\ attempts[r] <= Retries + 1
    /\ stage[r] \in Unsent => attempts[r] = 0
    /\ stage[r] = "backoff" => attempts[r] <= Retries

AttemptsAccounted == \A r \in Requests : Accounted(r)

LEMMA ReleaseStages ==
    ASSUME TypeOK, QueueMatchesStage, NEW r \in Requests, stage[r] \in InSocket,
           NEW next \in {"backoff", "done"}, ReleaseSocket(r, next)
    PROVE  /\ stage'[r] = next
           /\ \A q \in Requests \ {r} : \/ stage'[q] = stage[q]
                                        \/ stage[q] = "queued" /\ stage'[q] = "sent"
  <1> stage \in [Requests -> Stages] /\ queue \in Seq(Requests)
    BY DEF TypeOK
  <1>1. CASE queue = <<>>
    <2>1. stage' = [stage EXCEPT ![r] = next]
      BY <1>1 DEF ReleaseSocket
    <2> QED
      BY <2>1
  <1>2. CASE queue # <<>>
    <2>1. /\ Head(queue) \in Requests /\ Head(queue) = queue[1]
          /\ Len(queue) \in Nat \ {0}
      BY <1>2, HeadTailProperties
    <2>2. stage[Head(queue)] = "queued"
      BY <2>1 DEF QueueMatchesStage
    <2>3. stage' = [stage EXCEPT ![r] = next, ![Head(queue)] = "sent"]
      BY <1>2 DEF ReleaseSocket
    <2>4. Head(queue) # r
      BY <2>2 DEF InSocket
    <2> QED
      BY <2>1, <2>2, <2>3, <2>4
  <1> QED
    BY <1>1, <1>2

LEMMA SendStages ==
    ASSUME TypeOK, NEW r \in Requests, SendRequest(r)
    PROVE  /\ stage'[r] \in {"queued", "sent"}
           /\ \A q \in Requests \ {r} : stage'[q] = stage[q]
           /\ attempts' = [attempts EXCEPT ![r] = attempts[r] + 1]
  BY DEF SendRequest, TypeOK

LEMMA ErrorStages ==
    ASSUME TypeOK, QueueMatchesStage, NEW r \in Requests, stage[r] \in InSocket,
           OnError(r)
    PROVE  /\ stage'[r] \in {"backoff", "done"}
           /\ stage'[r] = "backoff" => attempts[r] <= Retries
           /\ \A q \in Requests \ {r} : \/ stage'[q] = stage[q]
                                        \/ stage[q] = "queued" /\ stage'[q] = "sent"
  <1>1. CASE RetryAllowed(r)
    <2>1. ReleaseSocket(r, "backoff") /\ attempts[r] <= Retries
      BY <1>1 DEF OnError, RetryAllowed
    <2> QED
      BY <2>1, ReleaseStages
  <1>2. CASE ~RetryAllowed(r)
    <2>1. ReleaseSocket(r, "done")
      BY <1>2 DEF OnError
    <2> QED
      BY <2>1, ReleaseStages
  <1> QED
    BY <1>1, <1>2

\* A step that leaves r alone, or hands it a socket, keeps its accounts.
LEMMA AccountsKept ==
    ASSUME NEW r \in Requests, Accounted(r),
           \/ stage'[r] = stage[r]
           \/ stage[r] = "queued" /\ stage'[r] = "sent",
           UNCHANGED <<attempts[r], applied[r], stray[r]>>
    PROVE  Accounted(r)'
  BY DEF Accounted, OnItsWay, Unsent

LEMMA AccountsStep ==
    ASSUME TypeOK, QueueMatchesStage, AttemptsAccounted, [Next]_vars
    PROVE  AttemptsAccounted'
  <1> USE RetriesAssumption
  <1> SUFFICES ASSUME NEW q \in Requests PROVE Accounted(q)'
    BY DEF AttemptsAccounted
  <1> Accounted(q)
    BY DEF AttemptsAccounted
  <1> /\ stage \in [Requests -> Stages]
      /\ attempts \in [Requests -> Nat]
      /\ applied \in [Requests -> Nat]
      /\ stray \in [Requests -> Nat]
    BY DEF TypeOK
  <1>1. ASSUME NEW r \in Requests,
               HttpRequest(r) \/ BodyEnd(r) \/ ClientAbort(r) \/ UdpRequest(r)
        PROVE  Accounted(q)'
    BY <1>1 DEF HttpRequest, BodyEnd, ClientAbort, UdpRequest, Accounted,
                OnItsWay, Unsent
  <1>2. ASSUME NEW r \in Requests, UpdateContext(r) PROVE Accounted(q)'
    <2>1. CASE SendRequest(r)
      BY <1>2, <2>1, SendStages, AccountsKept
         DEF UpdateContext, Accounted, OnItsWay, Unsent
    <2>2. CASE stage' = [stage EXCEPT ![r] = "done"] /\ UNCHANGED attempts
      BY <1>2, <2>2, AccountsKept DEF UpdateContext, Accounted, OnItsWay, Unsent
    <2> QED
      BY <1>2, <2>1, <2>2 DEF UpdateContext
  <1>3. ASSUME NEW r \in Requests, BrokerUpdate(r) PROVE Accounted(q)'
    BY <1>3 DEF BrokerUpdate, Accounted, OnItsWay, Unsent
  <1>4. ASSUME NEW r \in Requests, StrayUpdate(r) PROVE Accounted(q)'
    BY <1>4 DEF StrayUpdate, Accounted, OnItsWay, Unsent
  <1>5. ASSUME NEW r \in Requests, Response(r) PROVE Accounted(q)'
    BY <1>5 DEF Response, Accounted, OnItsWay, Unsent
  <1>6. ASSUME NEW r \in Requests, ResponseEnd(r) \/ ResponseCut(r)
        PROVE  Accounted(q)'
    <2>1. /\ stage[r] \in InSocket /\ ReleaseSocket(r, "done")
          /\ UNCHANGED <<attempts, applied, stray>>
      BY <1>6 DEF ResponseEnd, ResponseCut, InSocket
    <2> QED
      BY <1>6, <2>1, ReleaseStages, AccountsKept
         DEF ResponseEnd, ResponseCut, Accounted, OnItsWay, Unsent
  <1>7. ASSUME NEW r \in Requests, ConnectionError(r) PROVE Accounted(q)'
    <2>1. stage[r] \in {"sent", "served"} /\ stage[r] \in InSocket /\ OnError(r)
      BY <1>7 DEF ConnectionError, InSocket
    <2>2. /\ UNCHANGED <<attempts, applied>>
          /\ stray' = [stray EXCEPT ![r] = IF stage[r] = "sent" THEN stray[r] + 1
                                                               ELSE stray[r]]
      BY <1>7 DEF ConnectionError
    <2> QED
      BY <2>1, <2>2, ErrorStages, AccountsKept DEF Accounted, OnItsWay, Unsent
  <1>8. ASSUME NEW r \in Requests, ResponseReset(r) PROVE Accounted(q)'
    <2>1. /\ stage[r] = "responding" /\ stage[r] \in InSocket /\ OnError(r)
          /\ UNCHANGED <<attempts, applied, stray>>
      BY <1>8 DEF ResponseReset, InSocket
    <2> QED
      BY <2>1, ErrorStages, AccountsKept DEF Accounted, OnItsWay, Unsent
  <1>9. ASSUME NEW r \in Requests, RetryTimer(r) PROVE Accounted(q)'
    <2>1. /\ stage[r] = "backoff" /\ SendRequest(r)
          /\ UNCHANGED <<applied, stray>>
      BY <1>9 DEF RetryTimer
    <2> QED
      BY <2>1, SendStages, AccountsKept DEF Accounted, OnItsWay, Unsent
  <1>10. ASSUME NEW r \in Requests, AbortedEnd(r) PROVE Accounted(q)'
    BY <1>10 DEF AbortedEnd, Accounted, OnItsWay, Unsent
  <1>11. CASE Exit \/ UNCHANGED vars
    BY <1>11 DEF Exit, vars, Accounted, OnItsWay, Unsent
  <1> QED
    BY <1>1, <1>2, <1>3, <1>4, <1>5, <1>6, <1>7, <1>8, <1>9, <1>10, <1>11 DEF Next

\* Whatever connections break and whenever, the broker performs an update at
\* most once per attempt, and at most Retries + 1 times (adapter.js:67-87).
THEOREM DuplicatesBounded == Spec => []DuplicateBound
  <1>1. Init => AttemptsAccounted
    BY RetriesAssumption DEF Init, AttemptsAccounted, Accounted, OnItsWay, Unsent
  <1>2. TypeOK /\ QueueMatchesStage /\ AttemptsAccounted /\ [Next]_vars
          => AttemptsAccounted'
    BY AccountsStep
  <1>3. TypeOK /\ AttemptsAccounted => DuplicateBound
    <2> SUFFICES ASSUME TypeOK, AttemptsAccounted, NEW r \in Requests
                 PROVE  applied[r] <= attempts[r] /\ attempts[r] <= Retries + 1
      BY DEF DuplicateBound
    <2>1. Accounted(r)
      BY DEF AttemptsAccounted
    <2>2. /\ applied[r] \in Nat /\ stray[r] \in Nat /\ attempts[r] \in Nat
          /\ OnItsWay(r) \in {0, 1}
      BY DEF TypeOK, OnItsWay
    <2> QED
      BY <2>1, <2>2 DEF Accounted
  <1> QED
    BY <1>1, <1>2, <1>3, TypeCorrect, QueueCorrect, PTL DEF Spec
----------------------------------------------------------------------------
\* What backs a claim of success.  SuccessIsApplied is not inductive: the
\* evidence has to be followed from the broker, through the response being
\* received, to the callback, which may come after the connection was reset.

Performed(r) == applied[r] > 0

Backed(r) ==
    /\ stage[r] = "served" => Performed(r)
    /\ stage[r] = "responding" =>
          /\ reply[r] \in BrokerReplies(TRUE) \cup BrokerReplies(FALSE)
          /\ reply[r] = ReplyToUpdate => Performed(r)
    /\ r \in aborted =>
          /\ stage[r] \in {"backoff", "done"}
          /\ r \in cut
          /\ BrokerApi = "v2" /\ Outcome(reply[r]) = "updated" => Performed(r)
    /\ Claimed(r) => Performed(r) \/ (BrokerApi # "v2" /\ r \in cut)

ClaimsBacked == \A r \in Requests : Backed(r)

\* A whole reply is taken for a success only if it is the reply to an update.
LEMMA WholeReply ==
    ASSUME NEW rep \in BrokerReplies(TRUE) \cup BrokerReplies(FALSE),
           Outcome(rep) = "updated"
    PROVE  rep = ReplyToUpdate
  BY DEF BrokerReplies, Outcome, Refusals, ReplyToUpdate, BadGateway

\* With API v2 that is also so of what is left of a reply that was cut.
LEMMA CutReply ==
    ASSUME NEW rep \in BrokerReplies(TRUE) \cup BrokerReplies(FALSE),
           NEW short \in Truncations(rep),
           BrokerApi = "v2", Outcome(short) = "updated"
    PROVE  rep = ReplyToUpdate
  BY DEF BrokerReplies, Outcome, Refusals, ReplyToUpdate, BadGateway, Truncations

\* The only claims a callback adds are those of outcome "updated".
LEMMA CallbackClaims ==
    ASSUME TypeOK, NEW r \in Requests, NEW o \in Outcomes, Callback(r, o)
    PROVE  /\ Claimed(r)' => Claimed(r) \/ o = "updated"
           /\ \A q \in Requests \ {r} : reports'[q] = reports[q]
  <1>1. reports \in [Requests -> Seq(Outcomes)]
    BY DEF TypeOK
  <1>2. reports' = [reports EXCEPT ![r] = Append(reports[r], o)]
    BY DEF Callback
  <1>3. reports[r] \in Seq(Outcomes) /\ reports'[r] = Append(reports[r], o)
    BY <1>1, <1>2
  <1>4. /\ Len(reports[r]) \in Nat
        /\ Len(reports'[r]) = Len(reports[r]) + 1
        /\ reports'[r][Len(reports[r]) + 1] = o
        /\ \A i \in 1..Len(reports[r]) : reports'[r][i] = reports[r][i]
    BY <1>3
  <1>5. ASSUME NEW i \in 1..Len(reports'[r]), reports'[r][i] = "updated"
        PROVE  Claimed(r) \/ o = "updated"
    <2>1. CASE i = Len(reports[r]) + 1
      BY <2>1, <1>4, <1>5
    <2>2. CASE i \in 1..Len(reports[r])
      BY <2>2, <1>4, <1>5 DEF Claimed
    <2> QED
      BY <2>1, <2>2, <1>4
  <1> QED
    BY <1>1, <1>2, <1>5 DEF Claimed

\* A step that leaves what is known of r alone, or hands it a socket.
LEMMA BackedKept ==
    ASSUME NEW r \in Requests, Backed(r),
           \/ stage'[r] = stage[r]
           \/ stage'[r] \notin {"served", "responding"} /\ r \notin aborted,
           applied[r] \in Nat, applied'[r] \in Nat, applied'[r] >= applied[r],
           UNCHANGED <<reply[r], reports[r]>>,
           r \in aborted' <=> r \in aborted,
           r \in cut' <=> r \in cut
    PROVE  Backed(r)'
  <1>1. Performed(r) => Performed(r)'
    BY DEF Performed
  <1>2. Claimed(r)' <=> Claimed(r)
    BY DEF Claimed
  <1>3. Outcome(reply[r])' = Outcome(reply[r])
    BY DEF Outcome
  <1>4. /\ BrokerReplies(TRUE)' = BrokerReplies(TRUE)
        /\ BrokerReplies(FALSE)' = BrokerReplies(FALSE)
        /\ ReplyToUpdate' = ReplyToUpdate
    BY DEF BrokerReplies, Refusals, ReplyToUpdate, BadGateway
  <1> QED
    BY <1>1, <1>2, <1>3, <1>4 DEF Backed

LEMMA ClaimsStep ==
    ASSUME TypeOK, QueueMatchesStage, ClaimsBacked, [Next]_vars
    PROVE  ClaimsBacked'
  <1> SUFFICES ASSUME NEW q \in Requests PROVE Backed(q)'
    BY DEF ClaimsBacked
  <1>a. Backed(q)
    BY DEF ClaimsBacked
  <1> /\ stage \in [Requests -> Stages]
      /\ reply \in [Requests -> Replies]
      /\ applied \in [Requests -> Nat]
    BY DEF TypeOK
  <1>b. stage[q] \notin {"backoff", "done"} => q \notin aborted
    BY <1>a DEF Backed
  \* The other requests, when r gives its socket to one of them.
  <1>c. ASSUME NEW r \in Requests, q # r,
               \/ stage'[q] = stage[q]
               \/ stage[q] = "queued" /\ stage'[q] = "sent",
               UNCHANGED <<applied, reply[q], reports[q]>>,
               q \in aborted' <=> q \in aborted, q \in cut' <=> q \in cut
        PROVE  Backed(q)'
    BY <1>a, <1>b, <1>c, BackedKept
  <1>1. ASSUME NEW r \in Requests,
               HttpRequest(r) \/ BodyEnd(r) \/ ClientAbort(r) \/ UdpRequest(r)
        PROVE  Backed(q)'
    <2>1. /\ stage'[q] = stage[q] \/ stage'[q] \notin {"served", "responding"}
          /\ stage'[q] # stage[q] => stage[q] \in {"idle", "receiving"}
          /\ UNCHANGED <<applied, reply, reports, aborted, cut>>
      BY <1>1 DEF HttpRequest, BodyEnd, ClientAbort, UdpRequest
    <2> QED
      BY <1>a, <1>b, <2>1, BackedKept
  <1>2. ASSUME NEW r \in Requests, UpdateContext(r) PROVE Backed(q)'
    <2>0. stage[r] = "ticked" /\ UNCHANGED <<applied, reply, aborted, cut>>
      BY <1>2 DEF UpdateContext
    <2>1. CASE SendRequest(r) /\ UNCHANGED reports
      BY <1>a, <1>b, <2>0, <2>1, SendStages, BackedKept
    <2>2. CASE stage' = [stage EXCEPT ![r] = "done"] /\ Callback(r, "failed")
      <3>1. "failed" \in Outcomes
        BY DEF Outcomes
      <3>2. /\ Claimed(r)' => Claimed(r)
            /\ q # r => reports'[q] = reports[q]
        BY <2>2, <3>1, CallbackClaims
      <3>3. CASE q = r
        BY <1>a, <1>b, <2>0, <2>2, <3>2, <3>3 DEF Backed, Performed
      <3>4. CASE q # r
        BY <1>c, <2>0, <2>2, <3>2, <3>4
      <3> QED
        BY <3>3, <3>4
    <2> QED
      BY <1>2, <2>1, <2>2 DEF UpdateContext
  <1>3. ASSUME NEW r \in Requests, BrokerUpdate(r) PROVE Backed(q)'
    <2>0. /\ stage[r] = "sent" /\ stage' = [stage EXCEPT ![r] = "served"]
          /\ applied' = [applied EXCEPT ![r] = applied[r] + 1]
          /\ UNCHANGED <<reply, reports, aborted, cut>>
      BY <1>3 DEF BrokerUpdate
    <2>1. CASE q = r
      <3>1. Performed(q)' /\ stage'[q] = "served" /\ q \notin aborted'
        BY <1>b, <2>0, <2>1 DEF Performed
      <3> QED
        BY <3>1 DEF Backed
    <2>2. CASE q # r
      BY <1>a, <2>0, <2>2, BackedKept
    <2> QED
      BY <2>1, <2>2
  <1>4. ASSUME NEW r \in Requests, StrayUpdate(r) PROVE Backed(q)'
    BY <1>4, <1>a, BackedKept DEF StrayUpdate
  <1>5. ASSUME NEW r \in Requests, Response(r) PROVE Backed(q)'
    <2>0. PICK rep \in BrokerReplies(stage[r] = "served") :
             /\ reply' = [reply EXCEPT ![r] = rep]
             /\ stage[r] \in {"sent", "served"}
             /\ stage' = [stage EXCEPT ![r] = "responding"]
             /\ UNCHANGED <<applied, reports, aborted, cut>>
      BY <1>5 DEF Response
    <2>1. CASE q = r
      <3>1. q \notin aborted' /\ stage'[q] = "responding" /\ reply'[q] = rep
        BY <1>b, <2>0, <2>1
      <3>2. rep \in BrokerReplies(TRUE) \cup BrokerReplies(FALSE)
        BY DEF BrokerReplies
      <3>3. rep = ReplyToUpdate => stage[r] = "served"
        BY DEF BrokerReplies, Refusals, BadGateway, ReplyToUpdate
      <3>4. rep = ReplyToUpdate => Performed(q)
        BY <1>a, <2>1, <3>3 DEF Backed
      <3>5. /\ Performed(q)' <=> Performed(q)
            /\ Claimed(q)' <=> Claimed(q)
            /\ BrokerReplies(TRUE)' = BrokerReplies(TRUE)
            /\ BrokerReplies(FALSE)' = BrokerReplies(FALSE)
            /\ ReplyToUpdate' = ReplyToUpdate
        BY <2>0 DEF Performed, Claimed, BrokerReplies, Refusals, BadGateway, ReplyToUpdate
      <3> QED
        BY <1>a, <2>0, <3>1, <3>2, <3>4, <3>5 DEF Backed
    <2>2. CASE q # r
      BY <1>a, <2>0, <2>2, BackedKept
    <2> QED
      BY <2>1, <2>2
  <1>6. ASSUME NEW r \in Requests, NEW rep, Outcome(rep) = "updated" =>
                 Performed(r) \/ (BrokerApi # "v2" /\ r \in cut'),
               stage[r] = "responding", Callback(r, Outcome(rep)),
               ReleaseSocket(r, "done"), reply' = [reply EXCEPT ![r] = NoReply],
               cut \subseteq cut', cut' \subseteq cut \cup {r}, UNCHANGED <<applied, aborted>>
        PROVE  Backed(q)'
    <2>1. Outcome(rep) \in Outcomes /\ stage[r] \in InSocket
      BY <1>6, OutcomeType DEF InSocket
    <2>2. /\ Claimed(r)' => Claimed(r) \/ Outcome(rep) = "updated"
          /\ q # r => reports'[q] = reports[q]
      BY <1>6, <2>1, CallbackClaims
    <2>3. /\ stage'[r] = "done"
          /\ q # r => \/ stage'[q] = stage[q]
                      \/ stage[q] = "queued" /\ stage'[q] = "sent"
      BY <1>6, <2>1, ReleaseStages
    <2>4. CASE q = r
      BY <1>a, <1>b, <1>6, <2>2, <2>3, <2>4 DEF Backed, Performed
    <2>5. CASE q # r
      BY <1>c, <1>6, <2>2, <2>3, <2>5
    <2> QED
      BY <2>4, <2>5
  <1>7. ASSUME NEW r \in Requests, ResponseEnd(r) PROVE Backed(q)'
    <2>1. Backed(r) /\ stage[r] = "responding"
      BY <1>7 DEF ResponseEnd, ClaimsBacked
    <2>2. Outcome(reply[r]) = "updated" => Performed(r)
      BY <2>1, WholeReply DEF Backed
    <2> QED
      BY <1>6, <1>7, <2>2 DEF ResponseEnd
  <1>8. ASSUME NEW r \in Requests, ResponseCut(r) PROVE Backed(q)'
    <2>1. Backed(r) /\ stage[r] = "responding"
      BY <1>8 DEF ResponseCut, ClaimsBacked
    <2>2. PICK short \in Truncations(reply[r]) : Callback(r, Outcome(short))
      BY <1>8 DEF ResponseCut
    <2>3. cut' = cut \cup {r}
      BY <1>8 DEF ResponseCut
    <2>4. Outcome(short) = "updated" => Performed(r) \/ (BrokerApi # "v2" /\ r \in cut')
      BY <2>1, <2>3, CutReply DEF Backed
    <2> QED
      BY <1>6, <1>8, <2>2, <2>3, <2>4 DEF ResponseCut
  <1>9. ASSUME NEW r \in Requests, OnError(r), stage[r] \in InSocket
        PROVE  /\ Claimed(r)' => Claimed(r)
               /\ q # r => reports'[q] = reports[q]
               /\ stage'[r] \in {"backoff", "done"}
               /\ q # r => \/ stage'[q] = stage[q]
                           \/ stage[q] = "queued" /\ stage'[q] = "sent"
    <2>1. CASE Callback(r, "failed")
      <3>1. "failed" \in Outcomes
        BY DEF Outcomes
      <3> QED
        BY <1>9, <2>1, <3>1, ErrorStages, CallbackClaims
    <2>2. CASE UNCHANGED reports
      BY <1>9, <2>2, ErrorStages DEF Claimed
    <2> QED
      BY <1>9, <2>1, <2>2 DEF OnError
  <1>10. ASSUME NEW r \in Requests, ConnectionError(r) PROVE Backed(q)'
    <2>1. /\ stage[r] \in {"sent", "served"} /\ stage[r] \in InSocket /\ OnError(r)
          /\ UNCHANGED <<applied, reply, aborted, cut>>
      BY <1>10 DEF ConnectionError, InSocket
    <2>2. CASE q = r
      BY <1>a, <1>b, <1>9, <2>1, <2>2 DEF Backed, Performed
    <2>3. CASE q # r
      BY <1>c, <1>9, <2>1, <2>3
    <2> QED
      BY <2>2, <2>3
  <1>11. ASSUME NEW r \in Requests, ResponseReset(r) PROVE Backed(q)'
    <2>1. /\ stage[r] = "responding" /\ stage[r] \in InSocket /\ OnError(r)
          /\ aborted' = aborted \cup {r} /\ cut' = cut \cup {r}
          /\ UNCHANGED applied
      BY <1>11 DEF ResponseReset, InSocket
    <2>2. PICK short \in Truncations(reply[r]) : reply' = [reply EXCEPT ![r] = short]
      BY <1>11 DEF ResponseReset
    <2>3. CASE q = r
      <3>1. BrokerApi = "v2" /\ Outcome(short) = "updated" => Performed(r)
        BY <1>a, <2>1, <2>3, CutReply DEF Backed
      <3>2. Outcome(reply[q])' = Outcome(short)
        BY <2>2, <2>3 DEF Outcome
      <3>3. Performed(q)' <=> Performed(q)
        BY <2>1 DEF Performed
      <3> QED
        BY <1>a, <1>9, <2>1, <2>3, <3>1, <3>2, <3>3 DEF Backed
    <2>4. CASE q # r
      BY <1>c, <1>9, <2>1, <2>2, <2>4
    <2> QED
      BY <2>3, <2>4
  <1>12. ASSUME NEW r \in Requests, AbortedEnd(r) PROVE Backed(q)'
    <2>1. /\ r \in aborted /\ Callback(r, Outcome(reply[r]))
          /\ reply' = [reply EXCEPT ![r] = NoReply] /\ aborted' = aborted \ {r}
          /\ UNCHANGED <<stage, queue, applied, cut>>
      BY <1>12 DEF AbortedEnd
    <2>2. /\ Claimed(r)' => Claimed(r) \/ Outcome(reply[r]) = "updated"
          /\ q # r => reports'[q] = reports[q]
      BY <2>1, OutcomeType, CallbackClaims
    <2>3. CASE q = r
      BY <1>a, <2>1, <2>2, <2>3 DEF Backed, Performed
    <2>4. CASE q # r
      BY <1>c, <2>1, <2>2, <2>4
    <2> QED
      BY <2>3, <2>4
  <1>13. ASSUME NEW r \in Requests, RetryTimer(r) PROVE Backed(q)'
    <2>1. /\ r \notin aborted /\ SendRequest(r)
          /\ UNCHANGED <<applied, reply, reports, aborted, cut>>
      BY <1>13 DEF RetryTimer
    <2> QED
      BY <1>a, <2>1, SendStages, BackedKept
  <1>14. CASE Exit \/ UNCHANGED vars
    BY <1>a, <1>14, BackedKept DEF Exit, vars
  <1> QED
    BY <1>1, <1>2, <1>3, <1>4, <1>5, <1>7, <1>8, <1>10, <1>11, <1>12, <1>13, <1>14
       DEF Next

\* An update is logged as successful only if the broker performed it; with the
\* older API, unless a response was cut short (adapter.js:80-84, 110-127).
THEOREM SuccessCorrect == Spec => []SuccessIsApplied
  <1>1. Init => ClaimsBacked
    BY DEF Init, ClaimsBacked, Backed, Claimed
  <1>2. TypeOK /\ QueueMatchesStage /\ ClaimsBacked /\ [Next]_vars => ClaimsBacked'
    BY ClaimsStep
  <1>3. ClaimsBacked => SuccessIsApplied
    BY DEF ClaimsBacked, Backed, SuccessIsApplied, Claimed, Performed
  <1> QED
    BY <1>1, <1>2, <1>3, TypeCorrect, QueueCorrect, PTL DEF Spec

----------------------------------------------------------------------------
\* The calls of the callback.  Neither their number nor the end they announce is
\* inductive: a call still to come, of the attempt in progress or of the 'end' of a
\* response that was reset, has to be counted with those made.

Failed(r) == \E i \in 1..Len(reports[r]) : reports[r][i] = "failed"

CallsDue(r) ==
    (IF r \in aborted THEN 1 ELSE 0) +
    (IF stage[r] \in {"queued", "sent", "served", "responding"} THEN 1 ELSE 0)
FinalCall(r) == IF stage[r] = "done" THEN 1 ELSE 0

Told(r) ==
    /\ Len(reports[r]) + CallsDue(r) <= attempts[r] + FinalCall(r)
    /\ stage[r] # "done" /\ r \notin cut => reports[r] = <<>>
    /\ stage[r] = "done" => reports[r] # <<>>
    /\ r \notin cut => Len(reports[r]) <= 1
    /\ r \in aborted => r \in cut /\ stage[r] \in {"backoff", "done"}
    /\ Failed(r) => stage[r] = "done" /\ attempts[r] \in {0, Retries + 1}

OutcomesTold == \A r \in Requests : Told(r)

\* The callback adds one outcome, and forgets none.
LEMMA CallbackAppends ==
    ASSUME TypeOK, NEW r \in Requests, NEW o \in Outcomes, Callback(r, o)
    PROVE  /\ Len(reports'[r]) = Len(reports[r]) + 1
           /\ reports'[r] # <<>>
           /\ reports'[r][Len(reports[r]) + 1] = o
           /\ \A i \in 1..Len(reports[r]) : reports'[r][i] = reports[r][i]
           /\ \A q \in Requests \ {r} : reports'[q] = reports[q]
  <1>1. reports' = [reports EXCEPT ![r] = Append(reports[r], o)]
    BY DEF Callback
  <1>2. reports \in [Requests -> Seq(Outcomes)]
    BY DEF TypeOK
  <1>3. reports[r] \in Seq(Outcomes) /\ reports'[r] = Append(reports[r], o)
    BY <1>1, <1>2
  <1>4. /\ Len(reports[r]) \in Nat
        /\ Len(reports'[r]) = Len(reports[r]) + 1
        /\ reports'[r][Len(reports[r]) + 1] = o
        /\ \A i \in 1..Len(reports[r]) : reports'[r][i] = reports[r][i]
    BY <1>3
  <1>5. reports'[r] # <<>>
    BY <1>4
  <1> QED
    BY <1>1, <1>2, <1>4, <1>5

LEMMA CallbackFailed ==
    ASSUME TypeOK, NEW r \in Requests, NEW o \in Outcomes, Callback(r, o)
    PROVE  Failed(r)' => Failed(r) \/ o = "failed"
  <1>1. Len(reports[r]) \in Nat
    BY DEF TypeOK
  <1>2. ASSUME NEW i \in 1..Len(reports'[r]), reports'[r][i] = "failed"
        PROVE  Failed(r) \/ o = "failed"
    <2>1. i \in 1..Len(reports[r]) \/ i = Len(reports[r]) + 1
      BY <1>1, CallbackAppends
    <2> QED
      BY <1>2, <2>1, CallbackAppends DEF Failed
  <1> QED
    BY <1>2 DEF Failed

LEMMA NoOutcomeFailed == \A rep : Outcome(rep) # "failed"
  BY DEF Outcome

\* A step that leaves r alone, or hands it a socket.
LEMMA ToldKept ==
    ASSUME NEW r \in Requests, Told(r),
           \/ stage'[r] = stage[r]
           \/ stage[r] = "queued" /\ stage'[r] = "sent",
           UNCHANGED <<attempts[r], reports[r]>>,
           r \in aborted' <=> r \in aborted,
           r \in cut' <=> r \in cut
    PROVE  Told(r)'
  <1>1. Failed(r)' <=> Failed(r)
    BY DEF Failed
  <1>2. CallsDue(r)' = CallsDue(r) /\ FinalCall(r)' = FinalCall(r)
    BY DEF CallsDue, FinalCall
  <1> QED
    BY <1>1, <1>2 DEF Told

LEMMA ToldStep ==
    ASSUME TypeOK, QueueMatchesStage, AttemptsAccounted, OutcomesTold, [Next]_vars
    PROVE  OutcomesTold'
  <1> USE RetriesAssumption
  <1> SUFFICES ASSUME NEW q \in Requests PROVE Told(q)'
    BY DEF OutcomesTold
  <1>a. Told(q)
    BY DEF OutcomesTold
  <1>b. /\ attempts[q] <= Retries + 1
        /\ stage[q] \in Unsent => attempts[q] = 0
    BY DEF AttemptsAccounted, Accounted
  <1> /\ stage \in [Requests -> Stages]
      /\ attempts \in [Requests -> Nat]
      /\ reports \in [Requests -> Seq(Outcomes)]
      /\ Len(reports[q]) \in Nat
    BY DEF TypeOK
  <1>c. reports[q] = <<>> <=> Len(reports[q]) = 0
    OBVIOUS
  \* The other requests, when r gives its socket to one of them.
  <1>d. ASSUME NEW r \in Requests, q # r,
               \/ stage'[q] = stage[q]
               \/ stage[q] = "queued" /\ stage'[q] = "sent",
               UNCHANGED <<attempts[q], reports[q]>>,
               q \in aborted' <=> q \in aborted, q \in cut' <=> q \in cut
        PROVE  Told(q)'
    BY <1>a, <1>d, ToldKept
  \* Moves of q between stages that neither count as an attempt nor as the end.
  <1>e. ASSUME stage[q] \in {"idle", "receiving", "sent", "served"},
               \/ /\ stage[q] \in {"idle", "receiving"}
                  /\ stage'[q] \in {"refused", "receiving", "abandoned", "ticked"}
               \/ /\ stage[q] \in {"sent", "served"}
                  /\ stage'[q] \in {"served", "responding"},
               UNCHANGED <<attempts[q], reports[q], aborted, cut>>
        PROVE  Told(q)'
    <2>1. Failed(q)' <=> Failed(q)
      BY <1>e DEF Failed
    <2>2. CallsDue(q)' = CallsDue(q) /\ FinalCall(q)' = FinalCall(q)
      BY <1>e DEF CallsDue, FinalCall
    <2> QED
      BY <1>a, <1>e, <2>1, <2>2 DEF Told
  <1>1. ASSUME NEW r \in Requests,
               HttpRequest(r) \/ BodyEnd(r) \/ ClientAbort(r) \/ UdpRequest(r)
        PROVE  Told(q)'
    <2>1. /\ stage[r] \in {"idle", "receiving"}
          /\ \E next \in {"refused", "receiving", "abandoned", "ticked"} :
                stage' = [stage EXCEPT ![r] = next]
          /\ UNCHANGED <<attempts, reports, aborted, cut>>
      <3>1. CASE HttpRequest(r)
        <4>1. \E next \in {"refused", "receiving"} : stage' = [stage EXCEPT ![r] = next]
          BY <3>1 DEF HttpRequest
        <4> QED
          BY <3>1, <4>1 DEF HttpRequest
      <3>2. CASE UdpRequest(r)
        <4>1. \E next \in {"refused", "ticked"} : stage' = [stage EXCEPT ![r] = next]
          BY <3>2 DEF UdpRequest
        <4> QED
          BY <3>2, <4>1 DEF UdpRequest
      <3>3. CASE BodyEnd(r) \/ ClientAbort(r)
        BY <3>3 DEF BodyEnd, ClientAbort
      <3> QED
        BY <1>1, <3>1, <3>2, <3>3
    <2>2. CASE q = r
      BY <1>e, <2>1, <2>2
    <2>3. CASE q # r
      BY <1>d, <2>1, <2>3
    <2> QED
      BY <2>2, <2>3
  \* An attempt, from a request that is not being attempted.
  <1>f. ASSUME NEW r \in Requests, SendRequest(r), stage[r] \in {"ticked", "backoff"},
               r \notin aborted, UNCHANGED <<reports, aborted, cut>>
        PROVE  Told(q)'
    <2>1. CASE q = r
      <3>1. stage'[q] \in {"queued", "sent"} /\ attempts'[q] = attempts[q] + 1
        BY <1>f, <2>1, SendStages
      <3>2. Failed(q)' <=> Failed(q)
        BY <1>f DEF Failed
      <3>3. /\ CallsDue(q) = 0 /\ CallsDue(q)' = 1
            /\ FinalCall(q) = 0 /\ FinalCall(q)' = 0
        BY <1>f, <2>1, <3>1 DEF CallsDue, FinalCall
      <3> QED
        BY <1>a, <1>f, <2>1, <3>1, <3>2, <3>3 DEF Told
    <2>2. CASE q # r
      BY <1>d, <1>f, <2>2, SendStages
    <2> QED
      BY <2>1, <2>2
  <1>2. ASSUME NEW r \in Requests, UpdateContext(r) PROVE Told(q)'
    <2>0. stage[r] = "ticked" /\ r \notin aborted /\ UNCHANGED <<aborted, cut>>
      BY <1>2 DEF UpdateContext, OutcomesTold, Told
    <2>1. CASE SendRequest(r) /\ UNCHANGED reports
      BY <1>f, <2>0, <2>1
    <2>2. CASE /\ stage' = [stage EXCEPT ![r] = "done"]
               /\ Callback(r, "failed")
               /\ UNCHANGED <<queue, attempts>>
      <3>1. "failed" \in Outcomes
        BY DEF Outcomes
      <3>2. CASE q = r
        <4>1. attempts[q] = 0 /\ Len(reports[q]) = 0
          BY <1>a, <1>b, <2>0, <3>2 DEF Unsent, Told, CallsDue, FinalCall
        <4>2. Len(reports'[q]) = 1 /\ reports'[q] # <<>>
          <5>1. Len(reports'[r]) = Len(reports[r]) + 1 /\ reports'[r] # <<>>
            BY <2>2, <3>1, CallbackAppends
          <5> QED
            BY <3>2, <4>1, <5>1
        <4>3. CallsDue(q)' = 0 /\ FinalCall(q)' = 1
          BY <2>0, <2>2, <3>2 DEF CallsDue, FinalCall
        <4> QED
          BY <2>0, <2>2, <3>2, <4>1, <4>2, <4>3 DEF Told
      <3>3. CASE q # r
        BY <1>d, <2>0, <2>2, <3>1, <3>3, CallbackAppends
      <3> QED
        BY <3>2, <3>3
    <2> QED
      BY <1>2, <2>1, <2>2 DEF UpdateContext
  <1>3. ASSUME NEW r \in Requests, BrokerUpdate(r) \/ Response(r) PROVE Told(q)'
    <2>1. /\ stage[r] \in {"sent", "served"}
          /\ \E next \in {"served", "responding"} : stage' = [stage EXCEPT ![r] = next]
          /\ UNCHANGED <<attempts, reports, aborted, cut>>
      BY <1>3 DEF BrokerUpdate, Response
    <2>2. CASE q = r
      BY <1>e, <2>1, <2>2
    <2>3. CASE q # r
      BY <1>d, <2>1, <2>3
    <2> QED
      BY <2>2, <2>3
  <1>4. ASSUME NEW r \in Requests, StrayUpdate(r) PROVE Told(q)'
    BY <1>4, <1>a, ToldKept DEF StrayUpdate
  \* The end of a response, whole or cut short.
  <1>5. ASSUME NEW r \in Requests, NEW rep, Callback(r, Outcome(rep)),
               stage[r] = "responding", ReleaseSocket(r, "done"),
               cut \subseteq cut', cut' \subseteq cut \cup {r},
               UNCHANGED <<attempts, aborted>>
        PROVE  Told(q)'
    <2>1. Outcome(rep) \in Outcomes /\ Outcome(rep) # "failed" /\ stage[r] \in InSocket
      BY <1>5, OutcomeType, NoOutcomeFailed DEF InSocket
    <2>2. CASE q = r
      <3>1. stage'[q] = "done"
        BY <1>5, <2>1, <2>2, ReleaseStages
      <3>2. /\ Len(reports'[q]) = Len(reports[q]) + 1 /\ reports'[q] # <<>>
            /\ Failed(q)' => Failed(q)
        BY <1>5, <2>1, <2>2, CallbackAppends, CallbackFailed
      <3>3. q \notin aborted /\ ~Failed(q)
        BY <1>a, <1>5, <2>2 DEF Told
      <3>4. /\ CallsDue(q) = 1 /\ CallsDue(q)' = 0
            /\ FinalCall(q) = 0 /\ FinalCall(q)' = 1
        BY <1>5, <2>2, <3>1, <3>3 DEF CallsDue, FinalCall
      <3>5. q \notin cut' => Len(reports'[q]) <= 1
        BY <1>a, <1>c, <1>5, <2>2, <3>2 DEF Told
      <3> QED
        BY <1>a, <1>5, <3>1, <3>2, <3>3, <3>4, <3>5 DEF Told
    <2>3. CASE q # r
      <3>1. \/ stage'[q] = stage[q]
            \/ stage[q] = "queued" /\ stage'[q] = "sent"
        BY <1>5, <2>1, <2>3, ReleaseStages
      <3>2. reports'[q] = reports[q]
        BY <1>5, <2>1, <2>3, CallbackAppends
      <3>3. q \in cut' <=> q \in cut
        BY <1>5, <2>3
      <3> QED
        BY <1>d, <1>5, <2>3, <3>1, <3>2, <3>3
    <2> QED
      BY <2>2, <2>3
  <1>6. ASSUME NEW r \in Requests, ResponseEnd(r) \/ ResponseCut(r) PROVE Told(q)'
    BY <1>5, <1>6 DEF ResponseEnd, ResponseCut
  \* An error, before a response (cut and aborted stay) or inside one.
  <1>7. ASSUME NEW r \in Requests, OnError(r), stage[r] \in InSocket,
               UNCHANGED attempts,
               \/ UNCHANGED <<aborted, cut>>
               \/ aborted' = aborted \cup {r} /\ cut' = cut \cup {r}
        PROVE  Told(q)'
    <2>0. r \notin aborted
      BY <1>7 DEF OutcomesTold, Told, InSocket
    <2>1. CASE q = r /\ RetryAllowed(r)
      <3>1. ReleaseSocket(r, "backoff") /\ UNCHANGED reports
        BY <1>7, <2>1 DEF OnError
      <3>2. stage'[q] = "backoff"
        BY <1>7, <2>1, <3>1, ReleaseStages
      <3>3. Failed(q)' <=> Failed(q)
        BY <3>1 DEF Failed
      <3>4. /\ CallsDue(q) = 1 /\ CallsDue(q)' <= 1
            /\ CallsDue(q)' \in Nat
            /\ FinalCall(q) = 0 /\ FinalCall(q)' = 0
        BY <1>7, <2>0, <2>1, <3>2 DEF CallsDue, FinalCall, InSocket
      <3> QED
        BY <1>a, <1>7, <2>0, <2>1, <3>1, <3>2, <3>3, <3>4 DEF Told, InSocket
    <2>2. CASE q = r /\ ~RetryAllowed(r)
      <3>0. "failed" \in Outcomes
        BY DEF Outcomes
      <3>1. ReleaseSocket(r, "done") /\ Callback(r, "failed")
        BY <1>7, <2>2 DEF OnError
      <3>2. stage'[q] = "done"
        BY <1>7, <2>2, <3>1, ReleaseStages
      <3>3. /\ Len(reports'[q]) = Len(reports[q]) + 1 /\ reports'[q] # <<>>
        BY <2>2, <3>0, <3>1, CallbackAppends
      <3>4. attempts[q] = Retries + 1
        BY <1>b, <2>2 DEF RetryAllowed
      <3>5. /\ CallsDue(q) = 1 /\ CallsDue(q)' <= 1
            /\ CallsDue(q)' \in Nat
            /\ FinalCall(q) = 0 /\ FinalCall(q)' = 1
        BY <1>7, <2>0, <2>2, <3>2 DEF CallsDue, FinalCall, InSocket
      <3>6. q \notin cut' => Len(reports'[q]) <= 1
        BY <1>a, <1>c, <1>7, <2>2, <3>3 DEF Told, InSocket
      <3> QED
        BY <1>a, <1>7, <2>0, <2>2, <3>2, <3>3, <3>4, <3>5, <3>6 DEF Told
    <2>3. CASE q # r
      <3>1. reports'[q] = reports[q]
        <4>1. "failed" \in Outcomes
          BY DEF Outcomes
        <4> QED
          BY <1>7, <2>3, <4>1, CallbackAppends DEF OnError
      <3> QED
        BY <1>d, <1>7, <2>3, <3>1, ErrorStages
    <2> QED
      BY <2>1, <2>2, <2>3
  <1>8. ASSUME NEW r \in Requests, ConnectionError(r) \/ ResponseReset(r)
        PROVE  Told(q)'
    BY <1>7, <1>8 DEF ConnectionError, ResponseReset, InSocket
  <1>9. ASSUME NEW r \in Requests, AbortedEnd(r) PROVE Told(q)'
    <2>1. /\ r \in aborted /\ Callback(r, Outcome(reply[r]))
          /\ aborted' = aborted \ {r} /\ UNCHANGED <<stage, attempts, cut>>
      BY <1>9 DEF AbortedEnd
    <2>2. Outcome(reply[r]) \in Outcomes /\ Outcome(reply[r]) # "failed"
      BY OutcomeType, NoOutcomeFailed
    <2>3. CASE q = r
      <3>1. /\ Len(reports'[q]) = Len(reports[q]) + 1 /\ reports'[q] # <<>>
            /\ Failed(q)' => Failed(q)
        BY <2>1, <2>2, <2>3, CallbackAppends, CallbackFailed
      <3>2. q \in cut /\ stage[q] \in {"backoff", "done"}
        BY <1>a, <2>1, <2>3 DEF Told
      <3>3. CallsDue(q) = 1 /\ CallsDue(q)' = 0 /\ FinalCall(q)' = FinalCall(q)
        BY <2>1, <2>3, <3>2 DEF CallsDue, FinalCall
      <3>4. FinalCall(q) \in Nat
        BY DEF FinalCall
      <3> QED
        BY <1>a, <2>1, <2>3, <3>1, <3>2, <3>3, <3>4 DEF Told
    <2>4. CASE q # r
      BY <1>d, <2>1, <2>2, <2>4, CallbackAppends
    <2> QED
      BY <2>3, <2>4
  <1>10. ASSUME NEW r \in Requests, RetryTimer(r) PROVE Told(q)'
    BY <1>f, <1>10 DEF RetryTimer
  <1>11. CASE Exit \/ UNCHANGED vars
    BY <1>a, <1>11, ToldKept DEF Exit, vars
  <1> QED
    BY <1>1, <1>2, <1>3, <1>4, <1>6, <1>8, <1>9, <1>10, <1>11 DEF Next

LEMMA OutcomesInvariant == Spec => [](AttemptsAccounted /\ OutcomesTold)
  <1>1. Init => AttemptsAccounted /\ OutcomesTold
    <2>1. Init => AttemptsAccounted
      BY RetriesAssumption DEF Init, AttemptsAccounted, Accounted, OnItsWay, Unsent
    <2>2. ASSUME Init, NEW r \in Requests PROVE Told(r)
      <3>1. /\ stage[r] = "idle" /\ attempts[r] = 0 /\ reports[r] = <<>>
            /\ aborted = {} /\ cut = {}
        BY <2>2 DEF Init
      <3>2. CallsDue(r) = 0 /\ FinalCall(r) = 0 /\ Len(reports[r]) = 0
        BY <3>1 DEF CallsDue, FinalCall
      <3> QED
        BY <3>1, <3>2 DEF Told, Failed
    <2> QED
      BY <2>1, <2>2 DEF OutcomesTold
  <1>2. TypeOK /\ QueueMatchesStage /\ AttemptsAccounted /\ OutcomesTold /\ [Next]_vars
          => AttemptsAccounted' /\ OutcomesTold'
    BY AccountsStep, ToldStep
  <1> QED
    BY <1>1, <1>2, TypeCorrect, QueueCorrect, PTL DEF Spec

\* A failure is announced only when the request is over, and either no attempt was
\* made or all were (adapter.js:87-96); no request is over in silence.
THEOREM FailuresFinal == Spec => []FailureIsFinal
  <1>1. OutcomesTold => FailureIsFinal
    BY DEF OutcomesTold, Told, Failed, FailureIsFinal
  <1> QED
    BY <1>1, OutcomesInvariant, PTL

\* However often it is retried, the callback of a request runs once unless a
\* response was cut short, and never more than once an attempt and once for giving
\* up (adapter.js:80-92).
THEOREM CallbacksCounted == Spec => []CallbackOncePerResponse
  <1>1. TypeOK /\ OutcomesTold => CallbackOncePerResponse
    <2> SUFFICES ASSUME TypeOK, OutcomesTold, NEW r \in Requests
                 PROVE  /\ r \notin cut => Len(reports[r]) <= 1
                        /\ Len(reports[r]) <= attempts[r] + 1
      BY DEF CallbackOncePerResponse
    <2>1. Told(r) /\ Len(reports[r]) \in Nat /\ attempts[r] \in Nat
      BY DEF OutcomesTold, TypeOK
    <2>2. CallsDue(r) \in Nat /\ FinalCall(r) \in {0, 1}
      BY DEF CallsDue, FinalCall
    <2> QED
      BY <2>1, <2>2 DEF Told
  <1> QED
    BY <1>1, OutcomesInvariant, TypeCorrect, PTL

\* A request whose outcome was logged is not attempted again, save when its response
\* was cut short: an error status is never retried (adapter.js:83).
THEOREM RepliesFinal == Spec => ReplyIsFinal
  <1>1. TypeOK /\ QueueMatchesStage /\ OutcomesTold /\ [Next]_vars
          => [\A r \in Requests :
                 attempts'[r] # attempts[r] => reports[r] = <<>> \/ r \in cut]_vars
    <2> SUFFICES ASSUME TypeOK, OutcomesTold, [Next]_vars,
                        NEW q \in Requests, attempts'[q] # attempts[q]
                 PROVE  reports[q] = <<>> \/ q \in cut
      OBVIOUS
    <2>1. ASSUME NEW r \in Requests, SendRequest(r), stage[r] \in {"ticked", "backoff"}
          PROVE  reports[q] = <<>> \/ q \in cut
      <3>1. q = r
        BY <2>1, SendStages DEF TypeOK
      <3> QED
        BY <2>1, <3>1 DEF OutcomesTold, Told
    <2>2. \E r \in Requests : SendRequest(r) /\ stage[r] \in {"ticked", "backoff"}
      <3>1. CASE \E r \in Requests : UpdateContext(r) \/ RetryTimer(r)
        BY <3>1 DEF UpdateContext, RetryTimer
      <3> QED
        BY <3>1 DEF Next, vars, Exit, HttpRequest, BodyEnd, ClientAbort, UdpRequest,
                    BrokerUpdate, StrayUpdate, Response, ResponseEnd, ResponseCut,
                    ConnectionError, ResponseReset, AbortedEnd
    <2> QED
      BY <2>1, <2>2
  <1> QED
    BY <1>1, OutcomesInvariant, TypeCorrect, QueueCorrect, PTL DEF Spec, ReplyIsFinal

----------------------------------------------------------------------------
\* Adapter implements UpdateDelivery: each step is one step of it, or none.

SamePhase(q) == PhaseOf(q)' = PhaseOf(q) /\ (Claimed(q)' <=> Claimed(q))

LEMMA Stutters ==
    ASSUME UNCHANGED <<proc, applied>>, \A q \in Requests : SamePhase(q)
    PROVE  UNCHANGED Delivery!dvars
  BY DEF SamePhase, Delivery!dvars

LEMMA Drops ==
    ASSUME proc = "up", UNCHANGED <<proc, applied>>, NEW r \in Requests,
           PhaseOf(r) = "new", PhaseOf(r)' = "dropped", Claimed(r)' <=> Claimed(r),
           \A q \in Requests \ {r} : SamePhase(q)
    PROVE  Delivery!Drop(r)
  BY DEF SamePhase, Delivery!Drop

LEMMA Accepts ==
    ASSUME proc = "up", UNCHANGED <<proc, applied>>, NEW r \in Requests,
           PhaseOf(r) = "new", PhaseOf(r)' = "accepted", Claimed(r)' <=> Claimed(r),
           \A q \in Requests \ {r} : SamePhase(q)
    PROVE  Delivery!Accept(r)
  BY DEF SamePhase, Delivery!Accept

LEMMA Delivers ==
    ASSUME TypeOK, UNCHANGED proc, NEW r \in Requests,
           PhaseOf(r) \in {"accepted", "settled"}, applied[r] < Retries + 1,
           applied' = [applied EXCEPT ![r] = applied[r] + 1],
           \A q \in Requests : SamePhase(q)
    PROVE  Delivery!Deliver(r)
  BY DEF SamePhase, Delivery!Deliver

LEMMA Claims ==
    ASSUME proc = "up", UNCHANGED <<proc, applied>>, NEW r \in Requests,
           PhaseOf(r) \in {"accepted", "settled"}, PhaseOf(r)' = PhaseOf(r),
           Performed(r) \/ BrokerApi # "v2", Claimed(r)',
           \A q \in Requests \ {r} : SamePhase(q)
    PROVE  Delivery!Claim(r)
  BY DEF SamePhase, Performed, Delivery!Claim, Delivery!Evidence

LEMMA Settles ==
    ASSUME proc = "up", UNCHANGED <<proc, applied>>, NEW r \in Requests,
           PhaseOf(r) = "accepted", PhaseOf(r)' = "settled",
           Claimed(r) => Claimed(r)',
           Claimed(r)' => Claimed(r) \/ Performed(r) \/ BrokerApi # "v2",
           \A q \in Requests \ {r} : SamePhase(q)
    PROVE  Delivery!Settle(r)
  BY DEF SamePhase, Performed, Delivery!Settle, Delivery!Evidence

\* What the callback does to the claims.
LEMMA ClaimsGrow ==
    ASSUME TypeOK, NEW r \in Requests, NEW o \in Outcomes, Callback(r, o)
    PROVE  Claimed(r)' <=> Claimed(r) \/ o = "updated"
  <1>1. Len(reports[r]) \in Nat
    BY DEF TypeOK
  <1>2. Claimed(r)' => Claimed(r) \/ o = "updated"
    BY CallbackClaims
  <1>3. ASSUME NEW i \in 1..Len(reports[r]), reports[r][i] = "updated"
        PROVE  Claimed(r)'
    <2>1. i \in 1..Len(reports'[r]) /\ reports'[r][i] = "updated"
      BY <1>1, <1>3, CallbackAppends
    <2> QED
      BY <2>1 DEF Claimed
  <1>4. ASSUME o = "updated" PROVE Claimed(r)'
    <2>1. Len(reports[r]) + 1 \in 1..Len(reports'[r])
      BY <1>1, CallbackAppends
    <2> QED
      BY <1>4, <2>1, CallbackAppends DEF Claimed
  <1> QED
    BY <1>2, <1>3, <1>4 DEF Claimed

\* Who is left alone, or handed a socket, stays in its phase.
LEMMA PhaseKept ==
    ASSUME NEW q \in Requests, UNCHANGED reports[q],
           \/ stage'[q] = stage[q]
           \/ stage[q] = "queued" /\ stage'[q] = "sent"
    PROVE  SamePhase(q)
  BY DEF SamePhase, PhaseOf, Claimed

ImplementationInvariant ==
    /\ TypeOK /\ QueueMatchesStage
    /\ AttemptsAccounted /\ ClaimsBacked /\ OutcomesTold

LEMMA StepImplements ==
    ASSUME ImplementationInvariant, [Next]_vars
    PROVE  [Delivery!Next]_(Delivery!dvars)
  <1> USE RetriesAssumption
  <1> TypeOK /\ QueueMatchesStage
    BY DEF ImplementationInvariant
  <1>i. \A r \in Requests : Accounted(r) /\ Backed(r) /\ Told(r)
    BY DEF ImplementationInvariant, AttemptsAccounted, ClaimsBacked, OutcomesTold
  <1> /\ stage \in [Requests -> Stages]
      /\ applied \in [Requests -> Nat] /\ stray \in [Requests -> Nat]
      /\ attempts \in [Requests -> Nat]
    BY DEF TypeOK
  <1>d. ASSUME NEW r \in Requests,
               \/ Delivery!Drop(r) \/ Delivery!Accept(r) \/ Delivery!Deliver(r)
               \/ Delivery!Claim(r) \/ Delivery!Settle(r)
        PROVE  Delivery!Next
    BY <1>d DEF Delivery!Next
  \* The requests other than r, whose stage r's step sets.
  <1>o. ASSUME NEW r \in Requests, NEW next, stage' = [stage EXCEPT ![r] = next],
               \A q \in Requests \ {r} : reports'[q] = reports[q]
        PROVE  \A q \in Requests \ {r} : SamePhase(q)
    BY <1>o, PhaseKept
  <1>1. ASSUME NEW r \in Requests,
               HttpRequest(r) \/ BodyEnd(r) \/ ClientAbort(r) \/ UdpRequest(r)
        PROVE  [Delivery!Next]_(Delivery!dvars)
    <2>1. /\ proc = "up" /\ UNCHANGED <<proc, applied, reports>>
          /\ stage[r] \in {"idle", "receiving"}
          /\ \E next \in {"refused", "receiving", "abandoned", "ticked"} :
                stage' = [stage EXCEPT ![r] = next]
      <3>1. CASE HttpRequest(r)
        <4>1. \E next \in {"refused", "receiving"} : stage' = [stage EXCEPT ![r] = next]
          BY <3>1 DEF HttpRequest
        <4> QED
          BY <3>1, <4>1 DEF HttpRequest
      <3>2. CASE UdpRequest(r)
        <4>1. \E next \in {"refused", "ticked"} : stage' = [stage EXCEPT ![r] = next]
          BY <3>2 DEF UdpRequest
        <4> QED
          BY <3>2, <4>1 DEF UdpRequest
      <3>3. CASE BodyEnd(r) \/ ClientAbort(r)
        BY <3>3 DEF BodyEnd, ClientAbort
      <3> QED
        BY <1>1, <3>1, <3>2, <3>3
    <2>2. PICK next \in {"refused", "receiving", "abandoned", "ticked"} :
             stage' = [stage EXCEPT ![r] = next]
      BY <2>1
    <2>3. /\ \A q \in Requests \ {r} : SamePhase(q)
          /\ Claimed(r)' <=> Claimed(r)
          /\ PhaseOf(r) = "new"
      BY <1>o, <2>1, <2>2 DEF Claimed, PhaseOf
    <2>4. CASE next = "receiving"
      <3>1. PhaseOf(r)' = "new"
        BY <2>2, <2>4 DEF PhaseOf
      <3> QED
        BY <2>1, <2>3, <3>1, Stutters DEF SamePhase
    <2>5. CASE next \in {"refused", "abandoned"}
      <3>1. PhaseOf(r)' = "dropped"
        BY <2>2, <2>5 DEF PhaseOf
      <3> QED
        BY <1>d, <2>1, <2>3, <3>1, Drops
    <2>6. CASE next = "ticked"
      <3>1. PhaseOf(r)' = "accepted"
        BY <2>2, <2>6 DEF PhaseOf
      <3> QED
        BY <1>d, <2>1, <2>3, <3>1, Accepts
    <2> QED
      BY <2>2, <2>4, <2>5, <2>6
  <1>2. ASSUME NEW r \in Requests, SendRequest(r), stage[r] \in {"ticked", "backoff"},
               UNCHANGED <<proc, applied, reports>>
        PROVE  [Delivery!Next]_(Delivery!dvars)
    <2>1. SamePhase(r)
      BY <1>2, SendStages DEF SamePhase, PhaseOf, Claimed
    <2>2. \A q \in Requests \ {r} : SamePhase(q)
      BY <1>2, SendStages, PhaseKept
    <2> QED
      BY <1>2, <2>1, <2>2, Stutters
  <1>3. ASSUME NEW r \in Requests, UpdateContext(r)
        PROVE  [Delivery!Next]_(Delivery!dvars)
    <2>1. CASE SendRequest(r) /\ UNCHANGED reports
      BY <1>2, <1>3, <2>1 DEF UpdateContext
    <2>2. CASE stage' = [stage EXCEPT ![r] = "done"] /\ Callback(r, "failed")
      <3>1. "failed" \in Outcomes
        BY DEF Outcomes
      <3>2. /\ Claimed(r)' <=> Claimed(r)
            /\ \A q \in Requests \ {r} : reports'[q] = reports[q]
        BY <2>2, <3>1, ClaimsGrow, CallbackAppends
      <3>3. PhaseOf(r) = "accepted" /\ PhaseOf(r)' = "settled"
        BY <1>3, <2>2 DEF UpdateContext, PhaseOf
      <3>4. proc = "up" /\ UNCHANGED <<proc, applied>>
        BY <1>3 DEF UpdateContext
      <3> QED
        BY <1>d, <1>o, <2>2, <3>2, <3>3, <3>4, Settles
    <2> QED
      BY <1>3, <2>1, <2>2 DEF UpdateContext
  <1>4. ASSUME NEW r \in Requests, BrokerUpdate(r)
        PROVE  [Delivery!Next]_(Delivery!dvars)
    <2>1. /\ stage[r] = "sent" /\ stage' = [stage EXCEPT ![r] = "served"]
          /\ applied' = [applied EXCEPT ![r] = applied[r] + 1]
          /\ UNCHANGED <<proc, reports>>
      BY <1>4 DEF BrokerUpdate
    <2>2. PhaseOf(r) = "accepted" /\ SamePhase(r)
      BY <2>1 DEF PhaseOf, SamePhase, Claimed
    <2>3. applied[r] < Retries + 1
      BY <1>i, <2>1 DEF Accounted, OnItsWay
    <2> QED
      BY <1>d, <1>o, <2>1, <2>2, <2>3, Delivers
  <1>5. ASSUME NEW r \in Requests, StrayUpdate(r)
        PROVE  [Delivery!Next]_(Delivery!dvars)
    <2>1. /\ stray[r] > 0 /\ UNCHANGED <<proc, stage, reports>>
          /\ applied' = [applied EXCEPT ![r] = applied[r] + 1]
      BY <1>5 DEF StrayUpdate
    <2>2. OnItsWay(r) \in Nat
      BY DEF OnItsWay
    <2>3. applied[r] < Retries + 1 /\ stage[r] \notin Unsent
      BY <1>i, <2>1, <2>2 DEF Accounted
    <2>4. PhaseOf(r) \in {"accepted", "settled"}
      BY <2>3 DEF PhaseOf, Unsent
    <2>5. \A q \in Requests : SamePhase(q)
      BY <2>1, PhaseKept
    <2> QED
      BY <1>d, <2>1, <2>3, <2>4, <2>5, Delivers
  <1>6. ASSUME NEW r \in Requests, Response(r)
        PROVE  [Delivery!Next]_(Delivery!dvars)
    <2>1. /\ stage[r] \in {"sent", "served"}
          /\ stage' = [stage EXCEPT ![r] = "responding"]
          /\ UNCHANGED <<proc, applied, reports>>
      BY <1>6 DEF Response
    <2>2. SamePhase(r)
      BY <2>1 DEF SamePhase, PhaseOf, Claimed
    <2> QED
      BY <1>o, <2>1, <2>2, Stutters
  \* The end of a response, whole or cut short.
  <1>7. ASSUME NEW r \in Requests, NEW rep, Callback(r, Outcome(rep)),
               Outcome(rep) = "updated" => Performed(r) \/ BrokerApi # "v2",
               stage[r] = "responding", ReleaseSocket(r, "done"),
               proc = "up", UNCHANGED <<proc, applied>>
        PROVE  [Delivery!Next]_(Delivery!dvars)
    <2>1. Outcome(rep) \in Outcomes /\ stage[r] \in InSocket
      BY <1>7, OutcomeType DEF InSocket
    <2>2. Claimed(r)' <=> Claimed(r) \/ Outcome(rep) = "updated"
      BY <1>7, <2>1, ClaimsGrow
    <2>3. stage'[r] = "done"
      BY <1>7, <2>1, ReleaseStages
    <2>4. PhaseOf(r) = "accepted" /\ PhaseOf(r)' = "settled"
      BY <1>7, <2>3 DEF PhaseOf
    <2>5. ASSUME NEW q \in Requests \ {r} PROVE SamePhase(q)
      <3>1. reports'[q] = reports[q]
        BY <1>7, <2>1, CallbackAppends
      <3>2. \/ stage'[q] = stage[q]
            \/ stage[q] = "queued" /\ stage'[q] = "sent"
        BY <1>7, <2>1, ReleaseStages
      <3> QED
        BY <3>1, <3>2, PhaseKept
    <2> QED
      BY <1>d, <1>7, <2>2, <2>4, <2>5, Settles
  <1>8. ASSUME NEW r \in Requests, ResponseEnd(r)
        PROVE  [Delivery!Next]_(Delivery!dvars)
    <2>1. stage[r] = "responding"
      BY <1>8 DEF ResponseEnd
    <2>2. Outcome(reply[r]) = "updated" => Performed(r)
      BY <1>i, <2>1, WholeReply DEF Backed
    <2> QED
      BY <1>7, <1>8, <2>2 DEF ResponseEnd
  <1>9. ASSUME NEW r \in Requests, ResponseCut(r)
        PROVE  [Delivery!Next]_(Delivery!dvars)
    <2>1. stage[r] = "responding"
      BY <1>9 DEF ResponseCut
    <2>2. PICK short \in Truncations(reply[r]) : Callback(r, Outcome(short))
      BY <1>9 DEF ResponseCut
    <2>3. Outcome(short) = "updated" => Performed(r) \/ BrokerApi # "v2"
      BY <1>i, <2>1, CutReply DEF Backed
    <2> QED
      BY <1>7, <1>9, <2>2, <2>3 DEF ResponseCut
  <1>10. ASSUME NEW r \in Requests, ConnectionError(r) \/ ResponseReset(r)
         PROVE  [Delivery!Next]_(Delivery!dvars)
    <2>1. /\ proc = "up" /\ UNCHANGED <<proc, applied>>
          /\ OnError(r) /\ stage[r] \in InSocket
      BY <1>10 DEF ConnectionError, ResponseReset, InSocket
    <2>2. "failed" \in Outcomes /\ PhaseOf(r) = "accepted"
      BY <2>1 DEF Outcomes, PhaseOf, InSocket
    <2>3. ASSUME NEW q \in Requests \ {r} PROVE SamePhase(q)
      <3>1. reports'[q] = reports[q]
        BY <2>1, <2>2, CallbackAppends DEF OnError
      <3>2. \/ stage'[q] = stage[q]
            \/ stage[q] = "queued" /\ stage'[q] = "sent"
        BY <2>1, ErrorStages
      <3> QED
        BY <3>1, <3>2, PhaseKept
    <2>4. CASE RetryAllowed(r)
      <3>1. ReleaseSocket(r, "backoff") /\ UNCHANGED reports
        BY <2>1, <2>4 DEF OnError
      <3>2. stage'[r] = "backoff"
        BY <2>1, <3>1, ReleaseStages
      <3>3. SamePhase(r)
        BY <2>2, <3>1, <3>2 DEF SamePhase, PhaseOf, Claimed
      <3> QED
        BY <2>1, <2>3, <3>3, Stutters
    <2>5. CASE ~RetryAllowed(r)
      <3>1. ReleaseSocket(r, "done") /\ Callback(r, "failed")
        BY <2>1, <2>5 DEF OnError
      <3>2. stage'[r] = "done"
        BY <2>1, <3>1, ReleaseStages
      <3>3. PhaseOf(r)' = "settled"
        BY <3>2 DEF PhaseOf
      <3>4. Claimed(r)' <=> Claimed(r)
        BY <2>2, <3>1, ClaimsGrow
      <3> QED
        BY <1>d, <2>1, <2>2, <2>3, <3>3, <3>4, Settles
    <2> QED
      BY <2>4, <2>5
  <1>11. ASSUME NEW r \in Requests, AbortedEnd(r)
         PROVE  [Delivery!Next]_(Delivery!dvars)
    <2>1. /\ proc = "up" /\ UNCHANGED <<proc, stage, applied>>
          /\ r \in aborted /\ Callback(r, Outcome(reply[r]))
      BY <1>11 DEF AbortedEnd
    <2>2. Outcome(reply[r]) \in Outcomes
      BY OutcomeType
    <2>3. /\ Claimed(r)' <=> Claimed(r) \/ Outcome(reply[r]) = "updated"
          /\ \A q \in Requests \ {r} : SamePhase(q)
      BY <2>1, <2>2, ClaimsGrow, CallbackAppends, PhaseKept
    <2>4. /\ stage[r] \in {"backoff", "done"}
          /\ Outcome(reply[r]) = "updated" => Performed(r) \/ BrokerApi # "v2"
      BY <1>i, <2>1 DEF Backed
    <2>5. PhaseOf(r) \in {"accepted", "settled"} /\ PhaseOf(r)' = PhaseOf(r)
      BY <2>1, <2>4 DEF PhaseOf
    <2>6. CASE Outcome(reply[r]) = "updated"
      BY <1>d, <2>1, <2>3, <2>4, <2>5, <2>6, Claims
    <2>7. CASE Outcome(reply[r]) # "updated"
      BY <2>1, <2>3, <2>5, <2>7, Stutters DEF SamePhase
    <2> QED
      BY <2>6, <2>7
  <1>12. ASSUME NEW r \in Requests, RetryTimer(r)
         PROVE  [Delivery!Next]_(Delivery!dvars)
    BY <1>2, <1>12 DEF RetryTimer
  <1>13. CASE Exit
    <2>1. \A q \in Requests : SamePhase(q)
      BY <1>13, PhaseKept DEF Exit
    <2>2. proc = "up" /\ proc' = "exited" /\ UNCHANGED applied
      BY <1>13 DEF Exit
    <2>3. Delivery!Stop
      BY <2>1, <2>2 DEF Delivery!Stop, SamePhase
    <2> QED
      BY <2>3 DEF Delivery!Next
  <1>14. CASE UNCHANGED vars
    BY <1>14, PhaseKept, Stutters DEF vars
  <1> QED
    BY <1>1, <1>3, <1>4, <1>5, <1>6, <1>8, <1>9, <1>10, <1>11, <1>12, <1>13, <1>14
       DEF Next

\* The adapter delivers at least once what it says it did, and never more often than
\* it may try: with its sockets, retries and resets, every behaviour of it is one of
\* UpdateDelivery (adapter.js:56-127).
THEOREM ImplementsDelivery == Spec => DeliverySafety
  <1>1. Init => Delivery!Init
    BY DEF Init, PhaseOf, Claimed, Delivery!Init
  <1>2. Spec => []ClaimsBacked
    <2>1. Init => ClaimsBacked
      BY DEF Init, ClaimsBacked, Backed, Claimed
    <2>2. TypeOK /\ QueueMatchesStage /\ ClaimsBacked /\ [Next]_vars => ClaimsBacked'
      BY ClaimsStep
    <2> QED
      BY <2>1, <2>2, TypeCorrect, QueueCorrect, PTL DEF Spec
  <1>3. Spec => []ImplementationInvariant
    <2>1. TypeOK /\ QueueMatchesStage /\ AttemptsAccounted /\ ClaimsBacked /\ OutcomesTold
            => ImplementationInvariant
      BY DEF ImplementationInvariant
    <2> QED
      BY <1>2, <2>1, TypeCorrect, QueueCorrect, OutcomesInvariant, PTL
  <1>4. ImplementationInvariant /\ [Next]_vars => [Delivery!Next]_(Delivery!dvars)
    BY StepImplements
  <1> QED
    BY <1>1, <1>3, <1>4, PTL DEF Spec, DeliverySafety, Delivery!Spec
=============================================================================

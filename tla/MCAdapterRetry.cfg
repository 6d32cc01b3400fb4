\* A HTTP request and a datagram share one socket, with a retry each.
SPECIFICATION FairSpec
CONSTANTS
    h1 = h1
    u1 = u1
    HttpRequests <- MCHttp
    UdpRequests <- MCUdp
    Retries = 1
    MaxRequests = 1
    BrokerApi = "ngsi10"
INVARIANTS TypeOK SocketBound WorkConserving QueueMatchesStage DuplicateBound SuccessIsApplied FailureIsFinal CallbackOncePerResponse
PROPERTIES ReplyIsFinal DeliverySafety EventuallyReported DeliveryProgress
CHECK_DEADLOCK FALSE

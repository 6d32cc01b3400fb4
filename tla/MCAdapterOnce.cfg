\* A single request whose response may be reset.
SPECIFICATION Spec
CONSTANTS
    h1 = h1
    u1 = u1
    HttpRequests <- MCHttp
    UdpRequests <- MCNone
    Retries = 1
    MaxRequests = 1
    BrokerApi = "ngsi10"
INVARIANT CallbackOnce
CHECK_DEADLOCK FALSE

\* Two checks in turn, one socket to Context Broker, one retry (API v2).
SPECIFICATION MonitoringSpec
CONSTANTS
    h1 = h1
    h2 = h2
    None = None
    Schedule <- MCSchedule
    HttpRequests <- MCHttp
    UdpRequests <- MCNone
    Retries = 1
    MaxRequests = 1
    BrokerApi = "v2"
PROPERTIES NagiosProgress OrderKept TracesApart
CHECK_DEADLOCK FALSE

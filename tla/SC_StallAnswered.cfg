CONSTANTS
    PeerEvents <- OnePeer
    WatchdogEvents <- OneElapsed
    QueueDepth = 1
    MaxRx = 0
    Reachable <- NoService
    MissionStopEnabled = FALSE
    ButtonMonitorEnabled = FALSE
    DirectStopEnabled = FALSE
    OdriveStopEnabled = FALSE
    SteadydriveStopEnabled = FALSE
    ExternalMonitorEnabled = FALSE
    InternalWatchdogEnabled = TRUE
    WatchdogTimeout = 3
    WatchdogPeriod = 1
    HeartbeatTimeout = 0
    ClearClients = 1
    ServiceWait = 1
    ResponseWait = 5
    AgeCap = 6
SPECIFICATION Spec
INVARIANT StallAnswered

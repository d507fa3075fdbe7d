CONSTANTS
    PeerEvents <- OnePeer
    WatchdogEvents <- OneElapsed
    QueueDepth = 1
    MaxRx = 0
    Reachable <- NoService
    MissionStopEnabled = FALSE
    ButtonMonitorEnabled = FALSE
    DirectStopEnabled = FALSE
    OdriveStopEnabled = FALSE
    SteadydriveStopEnabled = FALSE
    ExternalMonitorEnabled = FALSE
    InternalWatchdogEnabled = TRUE
    WatchdogTimeout = 1
    WatchdogPeriod = 1
    HeartbeatTimeout = 0
    ClearClients = 2
    ServiceWait = 1
    ResponseWait = 2
    AgeCap = 3
SPECIFICATION FairSpec
INVARIANTS WatchdogNotices HeldWhileFree
PROPERTIES WatchdogStopLatches ReleasedOnlyByOperator

CONSTANTS
    PeerEvents <- OnePeer
    WatchdogEvents <- OneElapsed
    QueueDepth = 1
    MaxRx = 1
    Reachable <- OnlyFsm
    MissionStopEnabled = FALSE
    ButtonMonitorEnabled = TRUE
    DirectStopEnabled = FALSE
    OdriveStopEnabled = FALSE
    SteadydriveStopEnabled = FALSE
    ExternalMonitorEnabled = FALSE
    InternalWatchdogEnabled = FALSE
    WatchdogTimeout = 0
    WatchdogPeriod = 1
    HeartbeatTimeout = 1
    ClearClients = 0
    ServiceWait = 0
    ResponseWait = 0
    AgeCap = 2
SPECIFICATION FairSpec
INVARIANTS TypeOK LatchHasItsCause IdleForgetsEpisode
PROPERTIES CausesKept FaultRequested KeepsPromise SilentButtonLatches

CONSTANTS
    PeerEvents <- OnePeer
    WatchdogEvents <- OneElapsed
    QueueDepth = 1
    Reachable <- Nobody
    MaxRx = 0
    MissionStopEnabled = FALSE
    ButtonMonitorEnabled = FALSE
    DirectStopEnabled = FALSE
    OdriveStopEnabled = FALSE
    SteadydriveStopEnabled = FALSE
    ExternalMonitorEnabled = FALSE
    InternalWatchdogEnabled = FALSE
    WatchdogTimeout = 1
    WatchdogPeriod = 1
    HeartbeatTimeout = 1
    ClearClients = 1
    ServiceWait = 1
    ResponseWait = 2
    AgeCap = 3
    StopWindow = 1
    JoystickWindow = 1
    NavigationWindow = 1
    SignalWindow = 0
    DriveWindow = 1
    PublishIdle = FALSE
    Commanders <- Both
    WebTeleop = FALSE
    Scenarios <- StopsOfNavigation
SPECIFICATION ScenarioSpec
INVARIANT LatchedRests

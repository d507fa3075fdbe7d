CONSTANTS
    PeerEvents <- OnePeer
    WatchdogEvents <- OneElapsed
    QueueDepth = 1
    Reachable <- Nobody
    MaxRx = 0
    MissionStopEnabled = FALSE
    ButtonMonitorEnabled = FALSE
    DirectStopEnabled = FALSE
    OdriveStopEnabled = FALSE
    SteadydriveStopEnabled = FALSE
    ExternalMonitorEnabled = FALSE
    InternalWatchdogEnabled = FALSE
    WatchdogTimeout = 0
    WatchdogPeriod = 1
    HeartbeatTimeout = 0
    ClearClients = 1
    ServiceWait = 0
    ResponseWait = 2
    AgeCap = 3
    StopWindow = 1
    JoystickWindow = 0
    NavigationWindow = 0
    SignalWindow = 0
    DriveWindow = 2
    PublishIdle = FALSE
    Commanders <- Both
    WebTeleop = FALSE
    Scenarios <- AllScenarios
SPECIFICATION ScenarioSpec
INVARIANTS StopReachesWheels StopReachesTools CommandDeadman

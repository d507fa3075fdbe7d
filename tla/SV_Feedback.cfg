CONSTANTS
    PeerEvents <- NoPeer
    WatchdogEvents <- OneElapsed
    QueueDepth = 1
    MaxRx = 1
    Reachable <- Nothing
    MissionStopEnabled = FALSE
    ButtonMonitorEnabled = FALSE
    DirectStopEnabled = TRUE
    OdriveStopEnabled = TRUE
    SteadydriveStopEnabled = TRUE
    ExternalMonitorEnabled = TRUE
    InternalWatchdogEnabled = FALSE
    WatchdogTimeout = 0
    WatchdogPeriod = 1
    HeartbeatTimeout = 0
    ClearClients = 0
    ServiceWait = 0
    ResponseWait = 0
    AgeCap = 2
    OdriveNodes <- OneWheel
    SteadydriveMotors <- OneBrush
    OdriveReports <- MotorFrames
    StaleWindow = 0
SPECIFICATION VerificationSpec
INVARIANTS VerificationTypeOK IdleForgetsEpisode ConfirmedMeansStood HealthyMeansTold

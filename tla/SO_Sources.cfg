CONSTANTS
    ImuMessages <- SixMessages
    NominalRoll = 0
    NominalPitch = 2
    RollWarning = 4
    PitchWarning = 4
    RollStop = 8
    PitchStop = 8
    Resolution = 2
    RequireManualReset = TRUE
    TimeoutStopEnabled = TRUE
    ImuWarningAge = 1
    ImuErrorAge = 2
    ImuGrace = 3
    ImuAgeCap = 3
    Imus <- OneImu
    Motors <- OneMotor
    Lags <- TwoLags
    LatchCollision = TRUE
    PublishStopRequest = TRUE
    ImpactImuWarningAge = 1
    ImpactImuErrorAge = 2
    MotorErrorAge = 1
    SampleAgeCap = 3
    Deployments <- BothSources
    NodesCrash = TRUE
SPECIFICATION SourcesFairSpec
INVARIANTS SourcesTypeOK ReportedStopStands TiltRemembered ImpactRemembered
PROPERTIES DangerStops LargeTiltReported

CONSTANTS
    Speeds <- ThreeSpeeds
    Separation = 1
    Timeout <- Windows
    LimitEnabled = TRUE
    MaxLinear = 1
    MaxAngular = 1
    WritesMayFail = TRUE
    AgeCap = 3
    LeftRadius = 1
    RightRadius = 2
    Circle = 8
    Cosine <- OctantCosine
    Sine <- OctantSine
    Turns <- ForwardOrNot
    MaxFailures = 2
    EncoderCap = 2
    Components <- ThreeComponents
    Velocities <- TwoVelocities
    Unit = 1
    MaxToolSpeed = 3
    TwistTimeout = 1
    DirectTimeout = 2
    ToolWritesMayFail = TRUE
    ToolAgeCap = 3
SPECIFICATION MotorsSpec
INVARIANTS
    OdoTypeOK Deadman DirectStopHolds ChassisCeiling
    HeadingHeals SnapshotIsCurrent
    ToolTypeOK ToolDeadman ToolDirectStopHolds BrushCeiling
PROPERTY OutageLeavesNoTrace

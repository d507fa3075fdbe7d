CONSTANTS
    Speeds <- ThreeSpeeds
    Separation = 1
    Timeout <- Windows
    LimitEnabled = TRUE
    MaxLinear = 1
    MaxAngular = 1
    WritesMayFail = FALSE
    AgeCap = 3
    LeftRadius = 1
    RightRadius = 2
    Circle = 8
    Cosine <- OctantCosine
    Sine <- OctantSine
    Turns <- ForwardOrNot
    MaxFailures = 0
    EncoderCap = 2
    Components <- ThreeComponents
    Velocities <- OnlyRest
    Unit = 1
    MaxToolSpeed = 3
    TwistTimeout = 1
    DirectTimeout = 2
    ToolWritesMayFail = FALSE
    ToolAgeCap = 3
SPECIFICATION MotorsSpec
INVARIANT SaturatesAtMaximum

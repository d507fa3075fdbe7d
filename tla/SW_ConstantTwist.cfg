CONSTANTS
    WheelEnabled <- NoStop
    ToolEnabled <- OnlyNavigation
    WheelTimeout <- OnePeriod
    ToolTimeout <- OnePeriod
    WheelPriority <- DefaultPriority
    ToolPriority <- DefaultPriority
    SignalTimeout = 2
    MappingEnabled = TRUE
    ToolMotion <- ConstantSpeed
    PublishIdle = FALSE
    AgeCap = 3
SPECIFICATION Spec
INVARIANT ConstantTwistWhenNavigating

CONSTANTS
    WheelEnabled <- AllSources
    ToolEnabled <- AllSources
    WheelTimeout <- OnePeriod
    ToolTimeout <- OnePeriod
    WheelPriority <- DefaultPriority
    ToolPriority <- DefaultPriority
    SignalTimeout = 1
    MappingEnabled = TRUE
    ToolMotion <- Mapping
    PublishIdle = TRUE
    AgeCap = 2
SPECIFICATION Spec
INVARIANTS TypeOK SafetyWins StoppedTogether OneStickSilencesTools OneLeader

SPECIFICATION Spec
CONSTANTS
    Half = 8
    YearWeight = 1
    MonthWeight = 1
    DayWeight = 1
    ns1 = ns1
    ns2 = ns2
    Servers = {ns1, ns2}
    TargetSets <- MCTargetSets
    Keep = 1
    Deploys = {1}
    Settings = {"p"}
    Contents = {"a", "b"}
    Modes <- PartialOnly
    MaxDeploys = 2
INVARIANTS
    PublishedIsLive
CHECK_DEADLOCK FALSE

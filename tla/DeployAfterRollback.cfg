SPECIFICATION Spec
CONSTANTS
    Half = 8
    YearWeight = 1
    MonthWeight = 1
    DayWeight = 1
    ns1 = ns1
    ns2 = ns2
    Servers = {ns1, ns2}
    TargetSets <- MCTargetSets
    Keep = 2
    Deploys = {1}
    Settings = {"p"}
    Contents = {"a", "b"}
    Modes <- RollbackOnly
    MaxDeploys = 3
PROPERTIES
    ReloadIsNewer
CHECK_DEADLOCK FALSE

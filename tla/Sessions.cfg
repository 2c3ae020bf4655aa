SPECIFICATION SSpec
CONSTANTS
    home = home
    tab1 = tab1
    tab2 = tab2
    Sources = {home}
    Requests = {tab1, tab2}
    Max = 1
    Window = 2
    Skew = 1
    MaxTime = 3
    TTL = 2
    Ephemeral = TRUE
    MaxOps = 5
    MaxRestarts = 1
INVARIANTS
    STypeOK
    LoginsPerStart
    ServedAfterLogin
    MismatchIsExplained
PROPERTIES
    RedirectsGetCloser
    NavigationEnds
CHECK_DEADLOCK FALSE

SPECIFICATION Spec
CONSTANTS
    ns1 = ns1
    ns2 = ns2
    gone = gone
    Slots = {1, 2, 3, 4}
    Servers = {ns1, ns2, gone}
    SrvOf <- MCSrvOf
    Configured = {ns1, ns2}
    Silent = {ns1}
    SameSerial = {ns2}
    Faults = {"local", "dial", "upload", "checkzone", "mv", "reload", "rm", "verify", "link", "cancel"}
INVARIANTS
    TypeOK
    ValidatedEverywhereFirst
    NoTornZoneFile
    ReportIsTrue
    NoSilentLeak
PROPERTIES
    Terminates
    OthersAreCommitted
    NoStepTwice
    SuccessIsServed
    ImplementsRollout

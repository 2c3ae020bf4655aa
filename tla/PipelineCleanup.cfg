SPECIFICATION Spec
CONSTANTS
    ns1 = ns1
    ns2 = ns2
    gone = gone
    Slots = {1, 2, 3, 4}
    Servers = {ns1, ns2, gone}
    SrvOf <- MCSrvOf
    Configured = {ns1, ns2}
    Silent = {}
    SameSerial = {ns2}
    Faults = {"cancel"}
INVARIANTS
    AbortCleansUp

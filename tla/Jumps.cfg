SPECIFICATION PartsSpec
CONSTANTS
    c1 = c1
    c2 = c2
    c3 = c3
    Connections = {c1, c2, c3}
    Hops <- JumpHosts
CHECK_DEADLOCK FALSE
INVARIANTS HopsAreSafe
PROPERTIES LoneThreadsEnd RelayIsExact

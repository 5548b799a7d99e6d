SPECIFICATION PartsSpec
CONSTANTS
    c1 = c1  c2 = c2
    Kinds = {"local", "dynamic", "remote"}
    Closers = {c1, c2}
    MaxFd = 3
    Strangers = TRUE
    Ports = {1, 2}
    Asks = {0, 1}
    MaxForwards = 3
    MaxConnections = 3
CHECK_DEADLOCK FALSE
INVARIANTS ForwardIsSafe PortsAgree RoutesAreExact
PROPERTIES ImplementsClosable ForwardsAnswer

SPECIFICATION FairSpec
CONSTANTS
    s1 = s1  s2 = s2  j1 = j1  j2 = j2  c1 = c1  c2 = c2
    NoTask = NoTask
    Starts = {s1}
    Jobs = {j1}
    Closers = {c1, c2}
    StartKinds = {"connect"}
    Kinds = {"execute", "command", "tunnel", "localForward"}
    OrderedCalls = TRUE
    RacingKinds = {"execute", "command", "tunnel"}
    Route = "direct"
    MaxSockets = 1
CHECK_DEADLOCK FALSE
PROPERTIES DisconnectCompletes NobodyWaits

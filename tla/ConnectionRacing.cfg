SPECIFICATION Spec
CONSTANTS
    s1 = s1  s2 = s2  j1 = j1  j2 = j2  c1 = c1  c2 = c2
    NoTask = NoTask
    Starts = {s1}
    Jobs = {j1, j2}
    Closers = {c1}
    StartKinds = {"connect"}
    Kinds = {"execute", "command", "tunnel", "localForward"}
    OrderedCalls = FALSE
    RacingKinds = {"execute", "command", "tunnel", "localForward"}
    Route = "proxy"
    MaxSockets = 1
CHECK_DEADLOCK FALSE
SYMMETRY CallSymmetry
INVARIANTS SessionOwnership ClosedEventOnce
PROPERTIES RefinesLifecycle

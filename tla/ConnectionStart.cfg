SPECIFICATION Spec
CONSTANTS
    s1 = s1  s2 = s2  j1 = j1  j2 = j2  c1 = c1  c2 = c2
    NoTask = NoTask
    Starts = {s1, s2}
    Jobs = {j1}
    Closers = {c1, c2}
    StartKinds = {"connect", "discover"}
    Kinds = {"execute", "shell", "sftp", "remoteForward"}
    OrderedCalls = TRUE
    RacingKinds = {"execute"}
    Route = "direct"
    MaxSockets = 2
CHECK_DEADLOCK FALSE
SYMMETRY CallSymmetry
INVARIANTS TypeOK ClosedReleasesAll NoDanglingRuntime

SPECIFICATION PartsSpec
CONSTANTS
    f1 = f1  f2 = f2  c1 = c1  c2 = c2
    Files = {f1, f2}
    Closers = {c1}
    Layers = {"swift", "objc"}
    MaxPending = 2
    Jobs = {"list", "read", "append", "mkdir", "stat", "change", "ask"}
    Paths = {"a", "b"}
    MaxJobs = 2
    Entries = 2
    MaxTimeouts = 2
    TornReads = FALSE
CHECK_DEADLOCK FALSE
INVARIANTS OwnersAreSafe AnswersAreExact
PROPERTIES ImplementsClosable OwnersAreServed

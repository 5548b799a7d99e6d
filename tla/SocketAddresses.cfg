SPECIFICATION PartsSpec
CONSTANTS
    k1 = k1  k2 = k2
    Addresses = 3
    Cancellers = {k1, k2}
    MaxFd = 3
    Strangers = TRUE
CHECK_DEADLOCK FALSE
INVARIANTS SocketsAreOwn NothingLeaks PollIsExact
PROPERTIES FlushEnds

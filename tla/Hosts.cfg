SPECIFICATION PartsSpec
CONSTANTS
    NULL = NULL
    Own <- Direct
    Fd = TRUE
    Lines <- AllLines
    MaxDepth = 1
    MaxLines = 3
CHECK_DEADLOCK FALSE
INVARIANTS ConfigIsExact HostKeysAreJudged

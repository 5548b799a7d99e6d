SPECIFICATION PartsSpec
CONSTANTS
    Kinds = {"read", "write", "download", "upload"}
    MaxSource = 4
    Chunk = 2
    MaxRead = 3
    MaxAttempts = 3
CHECK_DEADLOCK FALSE
INVARIANTS TransferIsExact
PROPERTIES ProgressInOrder SCPIsExact TasksAreSound StreamIsExact

SPECIFICATION PartsSpec
CONSTANTS
    Cell = {0, 1, 2}
    Junk = junk
    WordSize = 16
    Powers <- MCPowers
    SizeMax = 4
    NewSize = 1
    KeepSize = 2
    Data <- MCData
    Lengths <- MCLengths
    Methods = {"none", "password", "publickey", "agent", "kbdint"}
    OneMethod = FALSE
    MaxCalls = 5
    Keys = {1, 2, 3}
    Usable = {1, 3}
    IdentitiesOnly = FALSE
    Listed = {}
    Certified = {}
    BadPrompts = FALSE
CHECK_DEADLOCK FALSE
INVARIANTS BufferTypeOK NothingInvented VerdictsAreOwn
PROPERTIES IsByteQueue ExchangesAgree WaitsEnd

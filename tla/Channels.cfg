SPECIFICATION PartsSpec
CONSTANTS
    WindowDefault = 2
    PeerWindow = 1
    MaxPacket = 2
    MaxIn = 2
    MaxOut = 2
    MaxChannels = 2
    Kinds = {"command", "ptyCommand", "shell"}
    Timeouts = {"open", "request", "exit"}
CHECK_DEADLOCK FALSE
INVARIANTS ChannelIsExact JobsAreExact
PROPERTIES ReadersAreServed

CONSTANTS
    Clients = {c1, c2, c3}
    None = None
    Listener = 3
    MaxFd = 6
    MaxClients = 6
    MaxMessages = 1
    Leftover = {}
    WordBits = 64
    Faults = FALSE
SPECIFICATION FairSpec
PROPERTY FirstTwoAccepted
CHECK_DEADLOCK FALSE

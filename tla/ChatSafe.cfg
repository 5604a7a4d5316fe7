CONSTANTS
    Clients = {c1, c2, c3}
    None = None
    Listener = 3
    MaxFd = 6
    MaxClients = 6
    MaxMessages = 2
    Leftover = {0, 1, 5}
    WordBits = 4
    Faults = TRUE
SPECIFICATION Spec
SYMMETRY Symmetry
INVARIANTS TypeOK DescriptorsLive RelayedInOrder
PROPERTY DroppedForever
CHECK_DEADLOCK FALSE

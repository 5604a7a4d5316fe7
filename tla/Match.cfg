CONSTANTS
    Capacity = 2
    PacketSize = 3
    MaxDatagrams = 3
    Faults = TRUE
    Ratings = {1, 4}
    Undefined = Undefined
    CLIENTSPERSERVER = 3
SPECIFICATION FairSpec
INVARIANTS TypeOK NewestFirst Terminated QueuedInOrder RatingWithin
PROPERTIES NeverGoesBack EachProcessed
CHECK_DEADLOCK FALSE

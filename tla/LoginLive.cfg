CONSTANTS
    c1 = c1
    c2 = c2
    c3 = c3
    ann = ann
    bob = bob
    secret = secret
    other = odd
    odd = odd
    Clients = {c1, c2}
    Parent = Parent
    None = None
    Empty = Empty
    Strings = {Empty, ann, bob, secret, odd}
    Faults = {"slow", "bind", "ssl"}
    MaxFds = 2
    MaxPending = 10
    MaxRequests = 1
    Literal <- AllButOdd
    Registered <- AnnKnown
    Typed <- AnyRequest
SPECIFICATION FairSpec
PROPERTIES PairedSessionEnds FirstRequestReturns
CHECK_DEADLOCK FALSE

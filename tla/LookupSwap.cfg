CONSTANTS
    c1 = c1
    c2 = c2
    c3 = c3
    ann = ann
    bob = bob
    secret = secret
    other = odd
    odd = odd
    Clients = {c1, c2, c3}
    Parent = Parent
    None = None
    Empty = Empty
    Strings = {Empty, ann, bob, secret, odd}
    Faults = {}
    MaxFds = 3
    MaxPending = 10
    MaxRequests = 1
    Literal <- AllButOdd
    Registered <- TwoKnown
    Typed <- LoginsAndSignup
SPECIFICATION Spec
INVARIANT LookupOwnRow
CHECK_DEADLOCK FALSE

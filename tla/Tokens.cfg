CONSTANTS
    a = a
    t = t
    alice = alice
    bob = bob
    Servers = {"chat", "match"}
    Made = {"chat"}
    Reaches = {"chat", "match"}
    Names = {alice, bob}
    Tokens = {t}
    EmptyToken = EmptyToken
    None = None
    TokenLife = 2
    MaxExpiry = 3
    Faults = TRUE
    Children = {a}
    token <- MCTokenOf
    user <- MCUserOf
    MaxTries = 2
    AckWait = 1
SPECIFICATION FairSpec
INVARIANTS TypeOK UsersQueued
PROPERTIES FreshAfterScrub HandoffEnds
CHECK_DEADLOCK FALSE

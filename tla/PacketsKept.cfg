SPECIFICATION Spec
CONSTANTS
    Kinds <- AllKinds
    Ends = {"header", "packet"}
    MaxPackets = 2
INVARIANTS
    TypeOK
    BufferHolds
    ContentSurvives
    HeaderSurvives
CHECK_DEADLOCK FALSE

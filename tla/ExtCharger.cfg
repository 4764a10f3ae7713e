\* A battery that is too hot, one that has just cooled down, and a good one.
\* Nothing has to happen without an adapter: no deadlock is looked for.
CONSTANTS
    HighError = 150
    HighWarn = 200
    LowWarn = 400
    LowError = 500
    Hysteresis = 10
    Skip = 0
    Values = {140, 155, 300}
    Zones = {"cool", "warm", "melting"}
    Bounces = FALSE
    MaxMsgs = 1
    MaxEdges = 1
SPECIFICATION FairSpec
INVARIANTS
    ShownIsSo
    FullForReason
PROPERTIES
    StatusSettles
    HotStops
CHECK_DEADLOCK FALSE

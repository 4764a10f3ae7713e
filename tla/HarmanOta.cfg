\* Two versions, prompts first, flash that works; timers are fair.
SPECIFICATION FairSpec
CONSTANTS
    Versions <- Two
    Images = 3
    Size = 4
    TableSize = 2
    BufferSize = 3
    PacketMax = 2
    Report = 3
    Misses = 2
    Vp = TRUE
    Results <- Works
INVARIANT RequestExact
INVARIANT BreakpointSound
INVARIANT Watched
PROPERTY SessionEnds

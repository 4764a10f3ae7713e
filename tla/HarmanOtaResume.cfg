\* Two versions and flash that fails: a package goes on from another's breakpoint.
SPECIFICATION Spec
CONSTANTS
    Versions <- Two
    Images = 2
    Size = 3
    TableSize = 2
    BufferSize = 2
    PacketMax = 2
    Report = 2
    Misses = 2
    Vp = FALSE
    Results <- Fails
INVARIANT ResumesOwn

\* One version, prompts first, and flash that fails.
SPECIFICATION Spec
CONSTANTS
    Versions <- One
    Images = 3
    Size = 3
    TableSize = 2
    BufferSize = 2
    PacketMax = 2
    Report = 2
    Misses = 2
    Vp = TRUE
    Results <- Fails
INVARIANT BootableIsWhole

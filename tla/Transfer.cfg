\* Two phones over SPP and one over LE in one ring, and a controller that answers
\* late, twice or never on the other; no symmetry, for liveness.
\* Links and phones may stay silent for ever: no deadlock is looked for.
CONSTANTS
    SppLinks = {p1, p2}
    LeLinks = {l1}
    Events = {e1}
    EventAck = EventAck
    None = None
    QueueNo = 2
    Resend = 2
    Config = {"enable_embedded_cmd"}
    MaxPackets = 3
    UartQueueNo = 3
    OnlyOnce = FALSE
    UartMaxPackets = 7
SPECIFICATION RingsSpec
INVARIANTS
    RingExact
    NoStall
    FirstIsWritten
PROPERTIES
    InOrder
    BothDrain
CHECK_DEADLOCK FALSE

\* Two phones, two LE links, and a time for a headset that is connected but
\* silent; no symmetry, for liveness.
CONSTANTS
    p1 = p1
    p2 = p2
    Phones = {p1, p2}
    LeMax = 2
    Checks = 3
    ChecksOn = 1
    LeavesUnauthed = FALSE
    Config = {"timer_auto_power_off", "enable_inbox_power_off", "enable_outbox_power_on", "timer_auto_power_off_while_phone_connected"}
SPECIFICATION FairSpec
INVARIANTS
    HeldForReason
    NoOffWhileBusy
    Armed
PROPERTIES
    TurnsOff
    OffCompletes

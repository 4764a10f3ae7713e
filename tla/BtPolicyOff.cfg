\* One phone with several profiles, its roles and its own connections; switched
\* off or put in the box in the middle of things.
\* A headset nobody uses any more may stop: no deadlock is looked for.
CONSTANTS
    Addrs = {a1}
    NoAddr = NoAddr
    Profs = {"A2DP", "AVRCP", "DID"}
    NumMax = 1
    ItemNum = 2
    MaxLoad = 2
    MaxTime = 2
    LinkbackTime = 1
    LossTime = 1
    Scenario = "HF_A2DP_LAST_DEVICE"
    Config = {"enable_power_on_linkback", "timer_pairing_timeout"}
    Bonded <- AllMusic
    Features = {"box", "shutdown", "roles", "hci", "block", "remote_profiles", "connect", "lost"}
    MaxEvents = 2
SYMMETRY Phones
SPECIFICATION Spec
INVARIANTS
    NoZombie
    SilentWhenOff
    TypeOK
PROPERTIES
    NothingSkipped
CHECK_DEADLOCK FALSE

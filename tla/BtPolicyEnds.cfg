\* What must end ends; no symmetry, for liveness.
\* A headset nobody uses any more may stop: no deadlock is looked for.
CONSTANTS
    Addrs = {a1, a2}
    NoAddr = NoAddr
    Profs = {"HFP"}
    NumMax = 2
    ItemNum = 2
    MaxLoad = 2
    MaxTime = 2
    LinkbackTime = 1
    LossTime = 1
    Scenario = "HF_A2DP_LAST_DEVICE"
    Config = {"enable_power_on_linkback", "timer_pairing_timeout", "enable_multi_link", "rws_disconnect_enter_pairing"}
    Bonded <- AllCalls
    Features = {"lost", "shutdown", "leave", "incoming"}
    MaxEvents = 1
SPECIFICATION FairSpec
INVARIANTS
    NoLinkKept
PROPERTIES
    LinkbackEnds
    ShutdownCompletes
    PairingEnds
CHECK_DEADLOCK FALSE

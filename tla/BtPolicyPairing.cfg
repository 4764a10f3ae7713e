\* The user pairs, phones fail to authenticate and leave, one rings; a headset
\* that has forgotten all its phones asks to be switched off.
\* A headset nobody uses any more may stop: no deadlock is looked for.
CONSTANTS
    Addrs = {a1, a2}
    NoAddr = NoAddr
    Profs = {"HFP"}
    NumMax = 2
    ItemNum = 2
    MaxLoad = 2
    MaxTime = 2
    LinkbackTime = 1
    LossTime = 1
    Scenario = "HF_A2DP_LAST_DEVICE"
    Config = {"enable_power_on_linkback", "timer_pairing_timeout", "enable_multi_link", "rws_disconnect_enter_pairing", "enter_pairing_while_only_one_device_connected", "enable_pairing_timeout_to_power_off", "enable_power_on_linkback_fail_enter_pairing"}
    Bonded <- AllCalls
    Features = {"pairing", "call", "leave", "auth_fail", "incoming"}
    MaxEvents = 2
SYMMETRY Phones
SPECIFICATION Spec
INVARIANTS
    VisibleWhileTimerRuns
    PairingIsTimed
    Reachable
CHECK_DEADLOCK FALSE

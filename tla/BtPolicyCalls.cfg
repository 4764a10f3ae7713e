\* Three phones and places for two: calls that cross, fail or are lost, the full
\* house, and the queue, which is that of TodoQueue.
\* A headset nobody uses any more may stop: no deadlock is looked for.
CONSTANTS
    Addrs = {a1, a2, a3}
    NoAddr = NoAddr
    Profs = {"HFP"}
    NumMax = 2
    ItemNum = 2
    MaxLoad = 2
    MaxTime = 2
    LinkbackTime = 1
    LossTime = 1
    Scenario = "HF_A2DP_LAST_DEVICE"
    Config = {"enable_power_on_linkback", "timer_pairing_timeout", "enable_multi_link", "rws_disconnect_enter_pairing", "enter_pairing_while_only_one_device_connected"}
    Bonded <- AllCalls
    Features = {"incoming", "lost", "refuse", "busy", "connect", "disconnect"}
    MaxEvents = 2
SYMMETRY Phones
SPECIFICATION Spec
INVARIANTS
    LinkbackAlive
    ActiveFitsQueue
    FullHouseQuiet
    NumMatchesLinks
    Shedding
PROPERTIES
    QueueRefinement
CHECK_DEADLOCK FALSE

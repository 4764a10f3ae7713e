\* The thresholds of the 10K thermistor with app_ext_charger_cfg_reload's warn
\* voltages, and a battery that stays at about 34 degrees (88 mV).
\* Nothing has to happen without an adapter: no deadlock is looked for.
CONSTANTS
    HighError = 83
    HighWarn = 83
    LowWarn = 152
    LowError = 229
    Hysteresis = 4
    Skip = 1
    Values = {88}
    Zones = {"cool", "warm", "melting"}
    Bounces = FALSE
    MaxMsgs = 1
    MaxEdges = 1
SPECIFICATION FairSpec
PROPERTIES
    StatusSettles
CHECK_DEADLOCK FALSE

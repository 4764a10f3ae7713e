---------------------------- MODULE AutoPowerOff ----------------------------
(***************************************************************************)
(* The automatic power-off of a single headset (app_auto_power_off.c): one *)
(* timer and a set of reasons that hold it, which a dozen modules put in   *)
(* and take out, and the way from MMI_DEV_POWER_OFF to the end of the      *)
(* reboot check (app_mmi.c).                                               *)
(*                                                                         *)
(* Each action is one handler.  What phones, the link policy, the user,    *)
(* the charger and the stack do is the choice of the action.  Of the link  *)
(* policy only its state as the outside sees it (bp_state) is kept; a step *)
(* of it is BtPolicy's concern.  app_ota_mode_check, asked by the timer, is *)
(* never true in this build.                                               *)
(***************************************************************************)
EXTENDS Integers

CONSTANTS
    Phones,
    LeMax,          \* MAX_BLE_LINK_NUM
    Checks,         \* REBOOT_CHECK_MAX_TIMES
    ChecksOn,       \* REBOOT_CHECK_POWER_ON_MAX_TIMES
    Config,         \* switches of app_cfg_const, see On
    LeavesUnauthed  \* whether a phone may leave before it is authenticated

ASSUME AutoPowerOffAssumption ==
    /\ LeMax \in Nat
    /\ Checks \in Nat \ {0}
    /\ ChecksOn \in Nat
    /\ LeavesUnauthed \in BOOLEAN

\* "timer_auto_power_off", "timer_auto_power_off_while_phone_connected" (not
\* 0), "enable_inbox_power_off", "enable_outbox_power_on",
\* "enable_power_off_to_dlps_mode", "disable_power_off_wdt_reset".
On(c) == c \in Config
IdleTime   == On("timer_auto_power_off")
LinkedTime == On("timer_auto_power_off_while_phone_connected")

VARIABLES
    off,        \* poweroff_flag and whether poweroff_timer runs
    dev,        \* app_db.device_state
    mmi,        \* reboot_check_times, its timer, the power-off prompt
    sys,        \* between SYS_EVENT_POWER_ON and SYS_EVENT_POWER_OFF
    bp,         \* bp_state; the two flags of app_device.c follow it
    phone,      \* connected, authenticated and calling phones
    le,         \* app_get_ble_link_num
    key,        \* "up", "down", "long": held and taken for a power-off
    box,        \* adaptor in
    ota         \* Harman's BLE OTA runs

vars == <<off, dev, mmi, sys, bp, phone, le, key, box, ota>>

Masks == {"SOURCE_LINK", "IN_BOX", "KEY", "ALREADY_POWER_OFF", "PAIRING_MODE",
          "BLE_LINK_EXIST", "LINKBACK", "HARMAN_OTA"}
States == {"idle", "standby", "connected", "pairing", "linkback"}

-----------------------------------------------------------------------------
(* app_auto_power_off.c.                                                   *)

\* Mutant: the reasons are looked at before this one is taken out.
EnableTestsFirst(o, mask, timeout) ==
    [flags |-> o.flags \ mask, timer |-> IF o.flags = {} THEN timeout ELSE o.timer]

Enable(o, mask, timeout) ==
    [flags |-> o.flags \ mask,
     timer |-> IF o.flags \subseteq mask THEN timeout ELSE o.timer]

Disable(o, mask) == [flags |-> o.flags \cup mask, timer |-> FALSE]

\* Reasons of app_device.c, app_hfp.c and others that depend on the phones.
Held(o)     == IF LinkedTime THEN Disable(o, {"SOURCE_LINK"}) ELSE o
Released(o) == IF LinkedTime THEN Enable(o, {"SOURCE_LINK"}, TRUE) ELSE o

\* The time for a phone that is connected or for none.
Timeout == IdleTime \/ (LinkedTime /\ phone.linked # {})

-----------------------------------------------------------------------------
(* The link policy's state as app_device_link_policy_ind takes it.         *)

\* BP_EVENT_STATE_CHANGED to s.
PolicyLed(o, s) ==
    LET a == IF s = "pairing" THEN Disable(o, {"PAIRING_MODE"})
             ELSE IF bp = "pairing" THEN Enable(o, {"PAIRING_MODE"}, Timeout) ELSE o
    IN  IF s = "linkback" THEN Disable(a, {"LINKBACK"})
        ELSE IF bp = "linkback" THEN Enable(a, {"LINKBACK"}, Timeout) ELSE a

\* enter_state: the policy enters s; standby may be entered with a phone there
\* when a pairing asked for cannot be visible, but not with one in a call.
PolicyEnters(s) ==
    /\ sys
    /\ s = "standby" => phone.calls = {}
    /\ off' = PolicyLed(IF s = "standby" THEN Released(off) ELSE off, s)
    /\ bp' = s
    /\ UNCHANGED <<dev, mmi, sys, phone, le, key, box, ota>>

-----------------------------------------------------------------------------
(* Phones.                                                                 *)

\* BT_EVENT_ACL_CONN_SUCCESS, counted by b2s_connected.
Connect(p) ==
    /\ sys /\ p \notin phone.linked
    /\ phone' = [phone EXCEPT !.linked = @ \cup {p}]
    /\ UNCHANGED <<off, dev, mmi, sys, bp, le, key, box, ota>>

\* BP_EVENT_SRC_AUTH_SUC.
AuthSuc(p) ==
    /\ sys /\ p \in phone.linked \ phone.authed
    /\ phone' = [phone EXCEPT !.authed = @ \cup {p}]
    /\ off' = Released(Disable(off, {"SOURCE_LINK"}))
    /\ UNCHANGED <<dev, mmi, sys, bp, le, key, box, ota>>

\* Mutant: a phone counts as long as another one does.
DisconnectsCounted(p) ==
    /\ p \in phone.linked
    /\ LeavesUnauthed \/ p \in phone.authed
    /\ phone' = [linked |-> phone.linked \ {p}, authed |-> phone.authed \ {p},
                 calls |-> phone.calls \ {p}]
    /\ off' = IF p \in phone.authed /\ phone.linked = {}
              THEN Enable(off, {"SOURCE_LINK"}, IdleTime) ELSE off
    /\ UNCHANGED <<dev, mmi, sys, bp, le, key, box, ota>>

\* BP_EVENT_SRC_DISCONN_LOST and BP_EVENT_SRC_DISCONN_NORMAL, which come for an
\* authenticated phone only.
Disconnect(p) ==
    /\ p \in phone.linked
    /\ LeavesUnauthed \/ p \in phone.authed
    /\ phone' = [linked |-> phone.linked \ {p}, authed |-> phone.authed \ {p},
                 calls |-> phone.calls \ {p}]
    /\ off' = IF p \in phone.authed /\ phone.linked = {p}
              THEN Enable(off, {"SOURCE_LINK"}, IdleTime) ELSE off
    /\ UNCHANGED <<dev, mmi, sys, bp, le, key, box, ota>>

\* BT_EVENT_A2DP_STREAM_START_IND, and BT_EVENT_SCO_CONN_CMPL.
AudioStart(p) ==
    /\ p \in phone.authed
    /\ off' = Held(off)
    /\ UNCHANGED <<dev, mmi, sys, bp, phone, le, key, box, ota>>

\* BT_EVENT_A2DP_STREAM_STOP and BT_EVENT_A2DP_STREAM_CLOSE.
StreamEnd(p) ==
    /\ p \in phone.authed
    /\ off' = IF phone.calls = {} THEN Released(off) ELSE off
    /\ UNCHANGED <<dev, mmi, sys, bp, phone, le, key, box, ota>>

\* BT_EVENT_HFP_CALL_STATUS: the phone calls, or its call is over.
CallStatus(p, calling) ==
    /\ p \in phone.authed
    /\ phone' = [phone EXCEPT !.calls = IF calling THEN @ \cup {p} ELSE @ \ {p}]
    /\ off' = IF calling THEN Held(off) ELSE Released(off)
    /\ UNCHANGED <<dev, mmi, sys, bp, le, key, box, ota>>

-----------------------------------------------------------------------------
(* LE links, updates, keys and the charger.                                *)

LeConnected ==
    /\ sys /\ le < LeMax
    /\ le' = le + 1
    /\ off' = Disable(off, {"BLE_LINK_EXIST"})
    /\ UNCHANGED <<dev, mmi, sys, bp, phone, key, box, ota>>

\* Mutant: the first link to go takes the reason with it.
LeFirstGone ==
    /\ le > 0
    /\ le' = le - 1
    /\ off' = Enable(off, {"BLE_LINK_EXIST"}, IdleTime)
    /\ UNCHANGED <<dev, mmi, sys, bp, phone, key, box, ota>>

LeDisconnected ==
    /\ le > 0
    /\ le' = le - 1
    /\ off' = IF le' = 0 THEN Enable(off, {"BLE_LINK_EXIST"}, IdleTime) ELSE off
    /\ UNCHANGED <<dev, mmi, sys, bp, phone, key, box, ota>>

\* CMD_HARMAN_OTA_START.
OtaStart ==
    /\ dev = "on"
    /\ ota' = TRUE
    /\ off' = Disable(off, {"HARMAN_OTA"})
    /\ UNCHANGED <<dev, mmi, sys, bp, phone, le, key, box>>

\* app_harman_ota_exit.
OtaExit ==
    /\ ota
    /\ ota' = FALSE
    /\ off' = Enable(off, {"HARMAN_OTA"}, IdleTime)
    /\ UNCHANGED <<dev, mmi, sys, bp, phone, le, key, box>>

\* FEATURE_MANUAL_POWER_OFF with a time.
ManualTime ==
    /\ dev = "on"
    /\ phone.authed # {} \/ le > 0
    /\ off' = Enable(off, {}, TRUE)
    /\ UNCHANGED <<dev, mmi, sys, bp, phone, le, key, box, ota>>

\* key_check_press and its release: held only with a phone there.
KeyPress ==
    /\ key = "up" /\ dev # "offing"
    /\ key' = "down"
    /\ off' = IF LinkedTime /\ phone.linked # {} THEN Disable(off, {"KEY"}) ELSE off
    /\ UNCHANGED <<dev, mmi, sys, bp, phone, le, box, ota>>

KeyRelease ==
    /\ key # "up"
    /\ key' = "up"
    /\ off' = IF LinkedTime /\ phone.linked # {} THEN Enable(off, {"KEY"}, TRUE) ELSE off
    /\ UNCHANGED <<dev, mmi, sys, bp, phone, le, box, ota>>

\* APP_ADP_STATUS_PLUGING and APP_ADP_STATUS_UNPLUGING.
Plug ==
    /\ ~box
    /\ box' = TRUE
    /\ off' = IF On("enable_inbox_power_off") THEN Disable(off, {"IN_BOX"}) ELSE off
    /\ UNCHANGED <<dev, mmi, sys, bp, phone, le, key, ota>>

Unplug ==
    /\ box
    /\ box' = FALSE
    /\ off' = IF On("enable_outbox_power_on") THEN Enable(off, {"IN_BOX"}, IdleTime) ELSE off
    /\ UNCHANGED <<dev, mmi, sys, bp, phone, le, key, ota>>

-----------------------------------------------------------------------------
(* Power: MMI_DEV_POWER_OFF, the prompt that goes before the end, the      *)
(* reboot check, and SYS_EVENT_POWER_ON and SYS_EVENT_POWER_OFF.           *)

\* app_dlps_power_off.
Asleep(o) == IF On("enable_power_off_to_dlps_mode") THEN o ELSE Disable(o, {"ALREADY_POWER_OFF"})

\* SYS_EVENT_POWER_OFF, which shuts the policy down on its way.
SysPowerOff(o) ==
    /\ sys' = FALSE
    /\ bp' = "idle"
    /\ off' = Asleep(PolicyLed(Enable(o, Masks \ {"ALREADY_POWER_OFF"}, IdleTime), "idle"))

\* MMI_DEV_POWER_OFF with the timer as in o: in the box at once, otherwise when
\* the prompt starts.
PowerOff(o) ==
    /\ dev' = "offing"
    /\ IF box
       THEN mmi' = [mmi EXCEPT !.checking = TRUE] /\ SysPowerOff(o)
       ELSE /\ mmi' = [mmi EXCEPT !.checking = TRUE, !.prompt = "queued"]
            /\ off' = o
            /\ UNCHANGED <<sys, bp>>
    /\ UNCHANGED <<phone, le, box, ota>>

\* app_auto_power_off_timeout_cback.
Expire ==
    /\ off.timer
    /\ IF dev = "on" THEN PowerOff([off EXCEPT !.timer = FALSE]) /\ UNCHANGED key
       ELSE off' = [off EXCEPT !.timer = FALSE] /\ UNCHANGED <<dev, mmi, sys, bp, phone, le, key, box, ota>>

\* The user, the charging box or a command switches off; with long, by a key
\* that is still held.
SwitchOff(long) ==
    /\ dev = "on"
    /\ long => key = "down"
    /\ key' = IF long THEN "long" ELSE key
    /\ PowerOff(off)

\* AUDIO_EVENT_VOICE_PROMPT_STARTED of the power-off prompt.
PromptStarts ==
    /\ mmi.prompt = "queued"
    /\ mmi' = [mmi EXCEPT !.prompt = "playing"]
    /\ IF dev = "offing" /\ sys THEN SysPowerOff(off) ELSE UNCHANGED <<off, sys, bp>>
    /\ UNCHANGED <<dev, phone, le, key, box, ota>>

PromptEnds ==
    /\ mmi.prompt = "playing"
    /\ mmi' = [mmi EXCEPT !.prompt = "none"]
    /\ UNCHANGED <<off, dev, sys, bp, phone, le, key, box, ota>>

\* app_mmi_reboot without a reset of the chip.
StayDown(n) ==
    /\ dev' = "off"
    /\ mmi' = [mmi EXCEPT !.checks = n, !.checking = FALSE]
    /\ off' = Asleep(off)
    /\ UNCHANGED <<sys, bp, phone, le, key, box, ota>>

\* app_mmi_reboot: the chip starts anew (app_auto_power_off_init, app_dlps_init).
Restart ==
    /\ off' = Asleep([flags |-> {}, timer |-> FALSE])
    /\ dev' = "off"
    /\ mmi' = [checks |-> Checks, checking |-> FALSE, prompt |-> "none"]
    /\ sys' = FALSE /\ bp' = "idle"
    /\ phone' = [linked |-> {}, authed |-> {}, calls |-> {}]
    /\ le' = 0 /\ ota' = FALSE
    /\ UNCHANGED <<key, box>>

\* Mutant: a check that has to wait is not counted.
RebootCheckFree ==
    LET n     == mmi.checks
        waits == mmi.prompt # "none" \/ phone.linked # {}
    IN  /\ mmi.checking
        /\ IF key = "long" \/ (n > 0 /\ waits)
           THEN mmi' = [mmi EXCEPT !.checks = n]
                /\ UNCHANGED <<off, dev, sys, bp, phone, le, key, box, ota>>
           ELSE IF On("disable_power_off_wdt_reset") THEN StayDown(n) ELSE Restart

\* app_mmi_reboot_check: it waits for the prompt and the phones, as long as
\* there are checks left, and for a key that is held, always.
RebootCheck ==
    LET n     == IF mmi.checks > 0 THEN mmi.checks - 1 ELSE 0
        waits == mmi.prompt # "none" \/ phone.linked # {}
    IN  /\ mmi.checking
        /\ IF key = "long" \/ (n > 0 /\ waits)
           THEN mmi' = [mmi EXCEPT !.checks = n]
                /\ UNCHANGED <<off, dev, sys, bp, phone, le, key, box, ota>>
           ELSE IF On("disable_power_off_wdt_reset") THEN StayDown(n) ELSE Restart

\* Mutant: the reason of a headset that is off stays.
PowerOnHeld ==
    /\ dev = "off" /\ ~sys /\ phone.linked = {} /\ le = 0 /\ ~ota
    /\ dev' = "on" /\ sys' = TRUE
    /\ off' = Enable(off, {}, IdleTime)
    /\ UNCHANGED <<mmi, bp, phone, le, key, box, ota>>

\* MMI_DEV_POWER_ON of a headset that is off, and SYS_EVENT_POWER_ON; the stack
\* has let go of its links.
PowerOn ==
    /\ dev = "off" /\ ~sys /\ phone.linked = {} /\ le = 0 /\ ~ota
    /\ dev' = "on" /\ sys' = TRUE
    /\ off' = Enable(off, {"ALREADY_POWER_OFF"}, IdleTime)
    /\ UNCHANGED <<mmi, bp, phone, le, key, box, ota>>

\* MMI_DEV_POWER_ON of a headset that is going off: fewer checks.
PowerOnSoon ==
    /\ dev = "offing"
    /\ mmi' = [mmi EXCEPT !.checks = IF @ > ChecksOn THEN ChecksOn ELSE @]
    /\ UNCHANGED <<off, dev, sys, bp, phone, le, key, box, ota>>

-----------------------------------------------------------------------------
Init ==
    /\ off = Asleep([flags |-> {}, timer |-> FALSE])
    /\ dev = "off"
    /\ mmi = [checks |-> Checks, checking |-> FALSE, prompt |-> "none"]
    /\ sys = FALSE /\ bp = "idle"
    /\ phone = [linked |-> {}, authed |-> {}, calls |-> {}]
    /\ le = 0 /\ key = "up" /\ box = FALSE /\ ota = FALSE

Next ==
    \/ \E s \in States : PolicyEnters(s)
    \/ \E p \in Phones :
          \/ Connect(p) \/ AuthSuc(p) \/ Disconnect(p)
          \/ AudioStart(p) \/ StreamEnd(p)
          \/ \E calling \in BOOLEAN : CallStatus(p, calling)
    \/ LeConnected \/ LeDisconnected
    \/ OtaStart \/ OtaExit \/ ManualTime
    \/ KeyPress \/ KeyRelease \/ Plug \/ Unplug
    \/ Expire \/ \E long \in BOOLEAN : SwitchOff(long)
    \/ PromptStarts \/ PromptEnds
    \/ RebootCheck \/ PowerOn \/ PowerOnSoon

Spec == Init /\ [][Next]_vars

\* Timers fire, and nobody holds a key for ever.
Fairness == WF_vars(Expire) /\ WF_vars(RebootCheck) /\ WF_vars(KeyRelease)

FairSpec == Spec /\ Fairness

-----------------------------------------------------------------------------
TypeOK ==
    /\ off \in [flags : SUBSET Masks, timer : BOOLEAN]
    /\ dev \in {"off", "on", "offing"}
    /\ mmi \in [checks : 0 .. Checks, checking : BOOLEAN, prompt : {"none", "queued", "playing"}]
    /\ sys \in BOOLEAN /\ bp \in States
    /\ phone \in [linked : SUBSET Phones, authed : SUBSET Phones, calls : SUBSET Phones]
    /\ phone.calls \subseteq phone.authed /\ phone.authed \subseteq phone.linked
    /\ le \in 0 .. LeMax /\ key \in {"up", "down", "long"}
    /\ box \in BOOLEAN /\ ota \in BOOLEAN

\* A reason that nobody takes out keeps the headset on until its battery is
\* empty: while it is on, each reason has its cause.  SOURCE_LINK has none when
\* the last phone leaves before it was authenticated (LeavesUnauthed), KEY when
\* the last phone leaves while a key is held; of these nothing is claimed.
HeldForReason ==
    dev = "on" =>
        /\ "ALREADY_POWER_OFF" \notin off.flags
        /\ "PAIRING_MODE" \in off.flags => bp = "pairing"
        /\ "LINKBACK" \in off.flags => bp = "linkback"
        /\ "BLE_LINK_EXIST" \in off.flags => le > 0
        /\ "HARMAN_OTA" \in off.flags => ota
        /\ "IN_BOX" \in off.flags /\ On("enable_outbox_power_on") => box
        /\ "SOURCE_LINK" \in off.flags /\ ~LeavesUnauthed => phone.linked # {}
        /\ "KEY" \in off.flags => LinkedTime

\* The timer does not run while the headset pairs, calls phones back, has an LE
\* link or an update, or, unless there is a time for that, a phone.
NoOffWhileBusy ==
    dev = "on" /\ off.timer =>
        /\ bp \notin {"pairing", "linkback"}
        /\ le = 0 /\ ~ota
        /\ LinkedTime \/ phone.authed = {}

\* With one phone, a call holds the timer, whatever is played or pressed.
CallHolds ==
    dev = "on" /\ LinkedTime /\ (\A p, q \in Phones : p = q) /\ phone.calls # {} => ~off.timer

\* A headset that is on for no reason has its timer running.
Armed == dev = "on" /\ off.flags = {} /\ IdleTime => off.timer

\* A headset with nobody and nothing to do does not stay on.
Idle ==
    /\ dev = "on" /\ phone.linked = {} /\ le = 0 /\ ~ota /\ ~box
    /\ bp \notin {"pairing", "linkback"} /\ "KEY" \notin off.flags
TurnsOff == ~<>[]Idle

\* Going off comes to its end, prompt or not, phones or not.
OffCompletes == dev = "offing" ~> dev = "off"
=============================================================================

------------------------------ MODULE ExtCharger ------------------------------
(***************************************************************************)
(* The external charger (app_ext_charger.c) with the thermistors of the    *)
(* battery (app_harman_adc.c) and of the USB connector                     *)
(* (app_harman_usb_connector_protect.c), as built for RUN3: charger DZ581, *)
(* one thermistor on the battery, the end of charging delayed.             *)
(*                                                                         *)
(* Timers, conversions, the charger's status pin and the adapter are       *)
(* external; a handler of the application task is an action.  Of the pins  *)
(* that are driven the model keeps what they are set from.  Left out are   *)
(* the protection of the battery while it is not charged (its timer always *)
(* runs), which of the two ways a hot connector is shut off, and first use,*)
(* before a battery is known.  What the detection of the battery compares  *)
(* is left to choice.                                                      *)
(***************************************************************************)
EXTENDS Integers, Sequences

CONSTANTS
    HighError, HighWarn,    \* NTC voltages, in mV; they fall with the heat
    LowWarn, LowError,
    Hysteresis,             \* bat_temp_hysteresis_voltage
    Skip,                   \* IGNORE_CHECK_USB_NTC_VALUE_TOTAL_TIME: 6
    Values,                 \* voltages the battery's NTC can show
    Zones,                  \* temperatures the connector's NTC can show
    Bounces,                \* the adapter may return to what it was
    MaxMsgs,                \* bound on the conversions not handled yet
    MaxEdges                \* bound on the edges not handled yet

\* The warn region lies inside the error region, and the bands in which
\* nothing changes do not meet.
ASSUME ThresholdAssumption ==
    /\ {HighError, HighWarn, LowWarn, LowError, Hysteresis} \subseteq 0 .. 65535
    /\ HighError <= HighWarn /\ LowWarn <= LowError
    /\ HighWarn + Hysteresis < LowWarn - Hysteresis
    /\ Values \subseteq 0 .. 65535
    /\ Zones \subseteq {"cool", "warm", "hot", "melting"}   \* 34, 57, 67 degrees

ASSUME ExtChargerAssumption ==
    /\ Skip \in Nat /\ MaxMsgs \in Nat \ {0} /\ MaxEdges \in Nat \ {0}
    /\ Bounces \in BOOLEAN

VARIABLES
    charger,    \* ext_charger_mgr, timer_handle_delay_charging_finish
    adc,        \* adc_data_mgr, its conversions and messages
    usb,        \* the connector: plug and timer, conversion, status, nv flag
    adp,        \* ADP_DET_status, and what the plug callback last told
    pin         \* the charger's status pin and its edges not handled yet

vars == <<charger, adc, usb, adp, pin>>

States == {"NO_CHARGE", "CHARGING", "CHARGE_FINISH", "ERROR"}

-----------------------------------------------------------------------------
(* The charger.                                                            *)

\* app_ext_charger_current_speed_set.
SetSpeed(c, speed) ==
    IF c.speed = speed THEN c ELSE [c EXCEPT !.speed = speed, !.ignore = TRUE]

\* app_ext_charger_update_charger_state.
Enter(c, state) ==
    IF c.state = state THEN c ELSE [c EXCEPT !.state = state, !.ignore = TRUE]

Start(c, speed) == Enter([SetSpeed(c, speed) EXCEPT !.enable = TRUE], "CHARGING")

\* EXT_CHARGING_ERROR.
Fault(c) == IF c.enable THEN Enter([c EXCEPT !.enable = FALSE], "ERROR") ELSE c

\* ntc_value, refined by what the current itself adds to it.
Refined(c, v) ==
    (v - (IF c.state = "ERROR" THEN 0
          ELSE IF c.speed = "1C" THEN 15 ELSE IF c.speed = "0.5C" THEN 8 ELSE 0))
        % 65536

\* Mutant: what was an error is none as soon as the limit is passed.
InErrorFlat(c, v) == Refined(c, v) >= LowError \/ Refined(c, v) <= HighError

\* Error stays error, and normal or warn becomes error.
InError(c, v) ==
    IF c.state = "ERROR" THEN v > LowError - Hysteresis \/ v < HighError + Hysteresis
    ELSE Refined(c, v) >= LowError \/ Refined(c, v) <= HighError

\* Error becomes warn (error_code 3 and 4), and normal or warn warn (2).
InWarn(c, v) ==
    IF c.state = "ERROR"
    THEN \/ v <= LowError - Hysteresis /\ v > LowWarn
         \/ v < HighWarn /\ v >= HighError + Hysteresis
    ELSE Refined(c, v) >= LowWarn \/ Refined(c, v) <= HighWarn

\* error_code 7 and 8.
Recovered(c, v) ==
    Refined(c, v) >= HighWarn + Hysteresis \/ Refined(c, v) <= LowWarn - Hysteresis

\* EXT_CHARGING_WARN.
Warn(c) ==
    IF ~c.enable THEN Start(c, "0.5C")
    ELSE IF c.vbat = "SUCCESS" THEN SetSpeed(c, "0.5C") ELSE c

\* The end of app_ext_charger_check_ntc_threshold, for a normal temperature.
Normal(c, v) ==
    LET may == c.state = "NO_CHARGE" \/ (c.state = "ERROR" /\ Recovered(c, v))
    IN  IF c.enable
        THEN IF /\ c.vbat = "SUCCESS" /\ c.state = "CHARGING"
                /\ c.speed = "0.5C" /\ Recovered(c, v)
             THEN SetSpeed(c, "1C") ELSE c
        ELSE IF may THEN Start(c, IF c.vbat = "SUCCESS" THEN "1C" ELSE "0.5C") ELSE c

\* app_harman_usb_connector_detect_is_normal.
ConnectorNormal(u) == u.status # "DISABLE" /\ ~u.protect

\* app_ext_charger_check_ntc_threshold.
CheckNtc(c, v, safe) ==
    IF ~safe THEN Fault(c)
    ELSE IF adp.det = "OUT" THEN Enter(c, "NO_CHARGE")
    ELSE IF InError(c, v) THEN Fault(c)
    ELSE IF InWarn(c, v) THEN Warn(c)
    ELSE Normal(c, v)

\* APP_EXT_CHARGER_EVENT_ADC_UPDATE.
AdcUpdate(c, v, safe) ==
    IF c.state = "CHARGE_FINISH" THEN c
    ELSE IF c.ignore THEN [c EXCEPT !.ignore = FALSE]
    ELSE CheckNtc(c, v, safe)

-----------------------------------------------------------------------------

\* A first conversion is asked for at boot and its value ignored; the nv flag
\* may be set from before.
Init ==
    /\ charger = [enable |-> FALSE, ignore |-> TRUE, vbat |-> "SUCCESS",
                  state |-> "NO_CHARGE", speed |-> "0C", finish |-> FALSE]
    /\ adc = [asked |-> TRUE, msgs |-> 0, value |-> 0, first |-> TRUE]
    /\ \E protect \in BOOLEAN :
        usb = [plug |-> FALSE, asked |-> FALSE, msg |-> FALSE, zone |-> "melting",
               status |-> "NULL", protect |-> protect, skip |-> Skip]
    /\ adp = [det |-> "OUT", last |-> "OUT"]
    /\ pin = [high |-> FALSE, edges |-> << >>]

-----------------------------------------------------------------------------
(* The adapter: every change goes through ADP_DET_ING, the debouncing, and *)
(* a status that differs from the last one told is told by the callback.   *)

Debounce ==
    /\ adp.det = adp.last
    /\ adp' = [adp EXCEPT !.det = "ING"]
    /\ UNCHANGED <<charger, adc, usb, pin>>

Settle ==
    /\ adp.det = "ING"
    /\ \E det \in {"IN", "OUT"} :
        /\ ~Bounces => det # adp.last
        /\ adp' = [adp EXCEPT !.det = det]
    /\ UNCHANGED <<charger, adc, usb, pin>>

\* app_ext_charger_plug_status_cb, ADP_EVENT_PLUG_IN: only a charger in
\* NO_CHARGE looks at it.
PlugIn ==
    /\ adp.det = "IN" /\ adp.last = "OUT"
    /\ adp' = [adp EXCEPT !.last = "IN"]
    /\ IF charger.state = "NO_CHARGE"
       THEN /\ adc' = [adc EXCEPT !.asked = TRUE]
            /\ usb' = [usb EXCEPT !.plug = TRUE, !.asked = TRUE]
       ELSE UNCHANGED <<adc, usb>>
    /\ UNCHANGED <<charger, pin>>

\* app_harman_usb_connector_state_clear.
Cleared(u) == [u EXCEPT !.plug = FALSE, !.status = "NULL", !.protect = FALSE]

\* app_harman_usb_connector_adp_out_handle.
UsbOut(u) == IF ~u.protect /\ u.zone \in {"cool", "melting"} THEN Cleared(u) ELSE u

\* Mutant: the charger is not disabled.
PlugOutEnabled ==
    /\ adp.det = "OUT" /\ adp.last = "IN"
    /\ adp' = [adp EXCEPT !.last = "OUT"]
    /\ charger' = Enter(charger, "NO_CHARGE")
    /\ adc' = [adc EXCEPT !.asked = TRUE]
    /\ usb' = UsbOut(usb)
    /\ UNCHANGED pin

\* ADP_EVENT_PLUG_OUT, in every state: app_ext_charger_handle_adp_out.
PlugOut ==
    /\ adp.det = "OUT" /\ adp.last = "IN"
    /\ adp' = [adp EXCEPT !.last = "OUT"]
    /\ charger' = Enter([charger EXCEPT !.enable = FALSE], "NO_CHARGE")
    /\ adc' = [adc EXCEPT !.asked = TRUE]
    /\ usb' = UsbOut(usb)
    /\ UNCHANGED pin

-----------------------------------------------------------------------------
(* The battery's thermistor.                                               *)

\* app_harman_adc_interrupt_handler.
Convert ==
    /\ adc.asked /\ adc.msgs < MaxMsgs
    /\ \E v \in Values :
        adc' = [adc EXCEPT !.asked = FALSE, !.value = v, !.msgs = @ + 1]
    /\ UNCHANGED <<charger, usb, adp, pin>>

\* app_harman_adc_vbat_detect: a battery that was once found bad stays so.
Judged(c) == {c, [c EXCEPT !.vbat = "FAIL"]}

\* IO_MSG_GPIO_EXT_CHARGER_ADC_VALUE: app_harman_adc_msg_handle.
AdcMessage ==
    /\ adc.msgs > 0
    /\ adc' = [adc EXCEPT !.msgs = @ - 1, !.first = FALSE]
    /\ IF adc.first THEN UNCHANGED charger
       ELSE \E c \in Judged(charger) :
               charger' = IF adp.det = "IN"
                          THEN AdcUpdate(c, adc.value, ConnectorNormal(usb)) ELSE c
    /\ UNCHANGED <<usb, adp, pin>>

\* Mutant: the state stays what it was.
RechargeUnseen(c, low) ==
    IF low /\ ~c.enable THEN [SetSpeed(c, "2C") EXCEPT !.enable = TRUE] ELSE c

\* app_ext_charger_check_recharge, low: the battery's voltage is at or below
\* recharge_threshold.
Recharge(c, low) == IF low /\ ~c.enable THEN Start(c, "2C") ELSE c

\* APP_EXT_CHARGER_EVENT_PERIOD_CHECK, but for the conversion it asks for.
PeriodCheck(c, low) ==
    CASE c.state = "CHARGING" -> [c EXCEPT !.finish = @ \/ (c.enable /\ pin.high)]
      [] c.state = "CHARGE_FINISH" -> Recharge(c, low)
      [] OTHER -> c

\* APP_HARMAN_ADC_TIMER_NTC_CHECK; the timer is started again.
Timeout ==
    /\ adc' = [adc EXCEPT !.asked = TRUE]
    /\ IF adp.det = "IN"
       THEN \E low \in BOOLEAN : charger' = PeriodCheck(charger, low)
       ELSE UNCHANGED charger
    /\ UNCHANGED <<usb, adp, pin>>

-----------------------------------------------------------------------------
(* The charger's status pin.                                               *)

\* app_ext_charger_status_det_gpio_intr_handler.
Edge ==
    /\ Len(pin.edges) < MaxEdges
    /\ pin' = [high |-> ~pin.high, edges |-> Append(pin.edges, ~pin.high)]
    /\ UNCHANGED <<charger, adc, usb, adp>>

\* Mutant: a pin that falls again does not stop the timer.
EdgeMessageStarts ==
    /\ pin.edges # << >>
    /\ pin' = [pin EXCEPT !.edges = Tail(@)]
    /\ charger' = IF /\ Head(pin.edges) /\ charger.enable
                     /\ adp.det = "IN" /\ charger.state = "CHARGING"
                  THEN [charger EXCEPT !.finish = TRUE] ELSE charger
    /\ UNCHANGED <<adc, usb, adp>>

\* app_ext_charger_handle_io_msg.
EdgeMessage ==
    /\ pin.edges # << >>
    /\ pin' = [pin EXCEPT !.edges = Tail(@)]
    /\ charger' =
        IF Head(pin.edges)
        THEN IF charger.enable /\ adp.det = "IN" /\ charger.state = "CHARGING"
             THEN [charger EXCEPT !.finish = TRUE] ELSE charger
        ELSE [charger EXCEPT !.finish = FALSE]
    /\ UNCHANGED <<adc, usb, adp>>

\* APP_EXT_CHARGER_TIMER_DELAY_CHARGING_FINISH: the battery is full.
Finish ==
    LET c == [charger EXCEPT !.finish = FALSE]
    IN  /\ charger.finish
        /\ charger' = IF c.state = "CHARGING"
                      THEN Enter([SetSpeed(c, "0.5C") EXCEPT !.enable = FALSE],
                                 "CHARGE_FINISH")
                      ELSE c
        /\ UNCHANGED <<adc, usb, adp, pin>>

-----------------------------------------------------------------------------
(* The connector.                                                          *)

\* APP_HARMAN_USB_ADC_TIMER_NTC_CHECK: the timer runs while usb_is_plug_in.
UsbTimeout ==
    /\ usb.plug /\ ~usb.asked
    /\ usb' = [usb EXCEPT !.asked = TRUE]
    /\ UNCHANGED <<charger, adc, adp, pin>>

\* app_harman_usb_adc_interrupt_handler.
UsbConvert ==
    /\ usb.asked /\ ~usb.msg
    /\ \E zone \in Zones :
        usb' = [usb EXCEPT !.asked = FALSE, !.msg = TRUE, !.zone = zone]
    /\ UNCHANGED <<charger, adc, adp, pin>>

\* What app_harman_usb_connector_adc_update makes of a reading.
Checked(u) ==
    CASE u.zone = "cool" ->
            IF adp.det = "OUT" THEN Cleared(u)
            ELSE [u EXCEPT !.protect = FALSE, !.status = "ENABLE"]
      [] u.zone = "warm" ->
            IF u.protect THEN [u EXCEPT !.status = "DISABLE"]
            ELSE IF adp.det = "IN" THEN [u EXCEPT !.status = "ENABLE"]
            ELSE u
      [] OTHER -> [u EXCEPT !.protect = TRUE, !.status = "DISABLE"]

\* IO_MSG_GPIO_USB_CONNECTOR_ADC_VALUE: app_harman_usb_connector_adc_update.
UsbUpdate ==
    /\ usb.msg
    /\ IF usb.skip > 0
       THEN usb' = [usb EXCEPT !.msg = FALSE, !.skip = @ - 1] /\ UNCHANGED charger
       ELSE /\ usb' = Checked([usb EXCEPT !.msg = FALSE])
            /\ charger' = AdcUpdate(charger, adc.value, ConnectorNormal(usb'))
    /\ UNCHANGED <<adc, adp, pin>>

-----------------------------------------------------------------------------

Next == \/ Debounce \/ Settle \/ PlugIn \/ PlugOut
        \/ Convert \/ AdcMessage \/ Timeout
        \/ Edge \/ EdgeMessage \/ Finish
        \/ UsbTimeout \/ UsbConvert \/ UsbUpdate

Spec == Init /\ [][Next]_vars

\* The task runs, timers and conversions end, the debouncing too.
FairSpec ==
    /\ Spec
    /\ WF_vars(Settle) /\ WF_vars(PlugIn) /\ WF_vars(PlugOut)
    /\ WF_vars(Convert) /\ WF_vars(AdcMessage) /\ WF_vars(Timeout)
    /\ WF_vars(EdgeMessage) /\ WF_vars(Finish)
    /\ WF_vars(UsbTimeout) /\ WF_vars(UsbConvert) /\ WF_vars(UsbUpdate)

-----------------------------------------------------------------------------

TypeOK ==
    /\ charger \in [enable : BOOLEAN, ignore : BOOLEAN, vbat : {"SUCCESS", "FAIL"},
                    state : States, speed : {"0C", "0.5C", "1C", "2C"},
                    finish : BOOLEAN]
    /\ adc \in [asked : BOOLEAN, msgs : 0 .. MaxMsgs, value : Values \cup {0},
                first : BOOLEAN]
    /\ usb \in [plug : BOOLEAN, asked : BOOLEAN, msg : BOOLEAN,
                zone : Zones \cup {"melting"}, status : {"NULL", "ENABLE", "DISABLE"},
                protect : BOOLEAN, skip : 0 .. Skip]
    /\ adp \in [det : {"ING", "IN", "OUT"}, last : {"IN", "OUT"}]
    /\ pin \in [high : BOOLEAN, edges : Seq(BOOLEAN)]

\* The state the application shows and the enable pin agree: the charger is on
\* just in CHARGING, but for the moment between the adapter's leaving and the
\* callback that says so (check_ntc_threshold gives NO_CHARGE and leaves the
\* pin to handle_adp_out).
ShownIsSo ==
    \/ charger.enable <=> charger.state = "CHARGING"
    \/ charger.state = "NO_CHARGE" /\ adp.det = "OUT" /\ adp.last = "IN"

\* The battery is going to be called full (delay_charging_finish runs) only
\* while the status pin says so, or has just ceased to and the message of that
\* edge is on its way: a pin that falls for a moment is never forgotten.
FullForReason == charger.finish => pin.high \/ pin.edges # << >>

\* An adapter that stays, a cool connector, a battery that is not full and
\* whose temperature does not change.
Calm(v) ==
    /\ adc.value = v /\ ~pin.high
    /\ adp.det = "IN" /\ usb.zone = "cool" /\ ~usb.protect

\* At a temperature where the current's own effect makes no difference the
\* charger has to charge, or to be done.
Proper(v) ==
    IF HighWarn + Hysteresis + 15 <= v /\ v <= LowWarn - Hysteresis
    THEN {"CHARGING", "CHARGE_FINISH"} ELSE States

\* The hysteresis does what it is there for: at a temperature that does not
\* change the charging state does not change for ever either, and where it
\* should the battery is charged, whatever has happened before.
StatusSettles ==
    \A v \in Values : <>[]Calm(v) => \E s \in Proper(v) : <>[](charger.state = s)

\* A battery or connector that stays too hot is no longer charged, also after
\* the recharge of a full battery, which looks at no temperature.
HotStops ==
    <>[](~pin.high /\ (adc.value <= HighError \/ usb.protect)) =>
        <>[]~charger.enable

=============================================================================

------------------------- MODULE AutoPowerOff_proofs -------------------------
(***************************************************************************)
(* AutoPowerOff for any phones, links, checks and configuration: a reason  *)
(* that holds the timer has its cause, the timer does not run while one is *)
(* there, and runs when none is.                                           *)
(*                                                                         *)
(* What the properties say of a headset that is on is kept by every step   *)
(* only together with what holds from SYS_EVENT_POWER_ON to                *)
(* SYS_EVENT_POWER_OFF (Kept): each cause has its reason, which no step    *)
(* can say by itself, since the reasons are put in and taken out by        *)
(* different handlers.                                                     *)
(***************************************************************************)
EXTENDS AutoPowerOff, TLAPS

\* Reasons and their causes, both ways.
Causes ==
    /\ "ALREADY_POWER_OFF" \in off.flags => dev # "on"
    /\ "PAIRING_MODE" \in off.flags => bp = "pairing"
    /\ "LINKBACK" \in off.flags => bp = "linkback"
    /\ "BLE_LINK_EXIST" \in off.flags => le > 0
    /\ "HARMAN_OTA" \in off.flags => ota
    /\ "IN_BOX" \in off.flags /\ On("enable_outbox_power_on") => box
    /\ "SOURCE_LINK" \in off.flags /\ ~LeavesUnauthed => phone.linked # {}
    /\ "KEY" \in off.flags => LinkedTime

Kept ==
    sys =>
        /\ bp = "pairing" => "PAIRING_MODE" \in off.flags
        /\ bp = "linkback" => "LINKBACK" \in off.flags
        /\ le > 0 => "BLE_LINK_EXIST" \in off.flags
        /\ ota => "HARMAN_OTA" \in off.flags
        /\ ~LinkedTime /\ phone.authed # {} => "SOURCE_LINK" \in off.flags
        /\ LinkedTime /\ (\A p, q \in Phones : p = q) /\ phone.calls # {} => "SOURCE_LINK" \in off.flags

Stage ==
    /\ dev = "on" => sys
    /\ ~sys => bp = "idle"
    /\ off.timer => off.flags = {}

Inv == TypeOK /\ Causes /\ Kept /\ Stage /\ Armed

-----------------------------------------------------------------------------
(* What the operators on the timer do.                                     *)

Timer == [flags : SUBSET Masks, timer : BOOLEAN]

\* A timer that is stopped while something holds it.
Stopped(o) == o.timer => o.flags = {}

\* A timer that runs when nothing holds it.
Runs(o) == o.flags = {} /\ IdleTime => o.timer

LEMMA EnableDoes ==
    ASSUME NEW o \in Timer, NEW mask \in SUBSET Masks, NEW t \in BOOLEAN, IdleTime => t
    PROVE  /\ Enable(o, mask, t) \in Timer
           /\ Enable(o, mask, t).flags = o.flags \ mask
           /\ Stopped(o) => Stopped(Enable(o, mask, t))
           /\ Runs(Enable(o, mask, t))
BY DEF Enable, Timer, Stopped, Runs

LEMMA DisableDoes ==
    ASSUME NEW o \in Timer, NEW mask \in SUBSET Masks, mask # {}
    PROVE  /\ Disable(o, mask) \in Timer
           /\ Disable(o, mask).flags = o.flags \cup mask
           /\ Stopped(Disable(o, mask)) /\ Runs(Disable(o, mask))
BY DEF Disable, Timer, Stopped, Runs

LEMMA HeldDoes ==
    ASSUME NEW o \in Timer
    PROVE  /\ Held(o) \in Timer
           /\ Held(o).flags = o.flags \cup IF LinkedTime THEN {"SOURCE_LINK"} ELSE {}
           /\ Stopped(o) => Stopped(Held(o))
           /\ Runs(o) => Runs(Held(o))
<1> {"SOURCE_LINK"} \in SUBSET Masks
    BY DEF Masks
<1> QED
    BY DisableDoes DEF Held, Timer

LEMMA ReleasedDoes ==
    ASSUME NEW o \in Timer
    PROVE  /\ Released(o) \in Timer
           /\ Released(o).flags = o.flags \ IF LinkedTime THEN {"SOURCE_LINK"} ELSE {}
           /\ Stopped(o) => Stopped(Released(o))
           /\ Runs(o) => Runs(Released(o))
<1> {"SOURCE_LINK"} \in SUBSET Masks
    BY DEF Masks
<1> QED
    BY EnableDoes DEF Released, Timer

LEMMA AsleepDoes ==
    ASSUME NEW o \in Timer
    PROVE  /\ Asleep(o) \in Timer
           /\ Asleep(o).flags \subseteq o.flags \cup {"ALREADY_POWER_OFF"}
           /\ Stopped(o) => Stopped(Asleep(o))
           /\ Runs(o) => Runs(Asleep(o))
<1> {"ALREADY_POWER_OFF"} \in SUBSET Masks
    BY DEF Masks
<1> QED
    BY DisableDoes DEF Asleep, Timer

\* Two reasons follow the state of the policy, the others stay.
LEMMA PolicyLedDoes ==
    ASSUME NEW o \in Timer, NEW s
    PROVE  LET r == PolicyLed(o, s) IN
           /\ r \in Timer
           /\ "PAIRING_MODE" \in r.flags <=>
                 s = "pairing" \/ (bp # "pairing" /\ "PAIRING_MODE" \in o.flags)
           /\ "LINKBACK" \in r.flags <=>
                 s = "linkback" \/ (bp # "linkback" /\ "LINKBACK" \in o.flags)
           /\ \A m \in Masks \ {"PAIRING_MODE", "LINKBACK"} : m \in r.flags <=> m \in o.flags
           /\ Stopped(o) => Stopped(r)
           /\ Runs(o) => Runs(r)
<1> DEFINE a == IF s = "pairing" THEN Disable(o, {"PAIRING_MODE"})
                ELSE IF bp = "pairing" THEN Enable(o, {"PAIRING_MODE"}, Timeout) ELSE o
<1>1. {"PAIRING_MODE"} \in SUBSET Masks /\ {"LINKBACK"} \in SUBSET Masks
      BY DEF Masks
<1>2. Timeout \in BOOLEAN /\ (IdleTime => Timeout)
      BY DEF Timeout, IdleTime, On
<1>3. /\ a \in Timer
      /\ a.flags = IF s = "pairing" THEN o.flags \cup {"PAIRING_MODE"}
                   ELSE IF bp = "pairing" THEN o.flags \ {"PAIRING_MODE"} ELSE o.flags
      /\ Stopped(o) => Stopped(a)
      /\ Runs(o) => Runs(a)
  <2>1. CASE s = "pairing"
        BY <2>1, <1>1, DisableDoes
  <2>2. CASE s # "pairing" /\ bp = "pairing"
        BY <2>2, <1>1, <1>2, EnableDoes
  <2>3. CASE s # "pairing" /\ bp # "pairing"
        BY <2>3
  <2>4. QED
        BY <2>1, <2>2, <2>3
<1> HIDE DEF a
<1>4. PolicyLed(o, s) = IF s = "linkback" THEN Disable(a, {"LINKBACK"})
                        ELSE IF bp = "linkback" THEN Enable(a, {"LINKBACK"}, Timeout) ELSE a
      BY DEF PolicyLed, a
<1>5. LET r == PolicyLed(o, s) IN
      /\ r \in Timer
      /\ r.flags = IF s = "linkback" THEN a.flags \cup {"LINKBACK"}
                   ELSE IF bp = "linkback" THEN a.flags \ {"LINKBACK"} ELSE a.flags
      /\ Stopped(a) => Stopped(r)
      /\ Runs(a) => Runs(r)
  <2>1. CASE s = "linkback"
        BY <2>1, <1>1, <1>3, <1>4, DisableDoes
  <2>2. CASE s # "linkback" /\ bp = "linkback"
    <3>1. PolicyLed(o, s) = Enable(a, {"LINKBACK"}, Timeout)
          BY <2>2, <1>4
    <3>2. LET r == Enable(a, {"LINKBACK"}, Timeout) IN
          /\ r \in Timer /\ r.flags = a.flags \ {"LINKBACK"}
          /\ Stopped(a) => Stopped(r)
          /\ Runs(r)
          BY <1>1, <1>2, <1>3, EnableDoes
    <3>3. QED
          BY <2>2, <3>1, <3>2
  <2>3. CASE s # "linkback" /\ bp # "linkback"
        BY <2>3, <1>3, <1>4
  <2>4. QED
        BY <2>1, <2>2, <2>3
<1>6. QED
      BY <1>3, <1>5


-----------------------------------------------------------------------------
(* The steps, one by one.                                                  *)

\* What the invariant says of the timer by itself, and what it needs of the next.
LEMMA TimerNow ==
    ASSUME Inv
    PROVE  off \in Timer /\ Stopped(off) /\ (dev = "on" => Runs(off))
BY DEF Inv, TypeOK, Stage, Armed, Timer, Stopped, Runs

LEMMA TimerNext ==
    ASSUME off' \in Timer, Stopped(off'), dev' = "on" => Runs(off')
    PROVE  (off.timer => off.flags = {})' /\ Armed'
BY DEF Armed, Timer, Stopped, Runs

LEMMA InitInv == Init => Inv
<1> SUFFICES ASSUME Init PROVE Inv
    OBVIOUS
<1> DEFINE o == [flags |-> {}, timer |-> FALSE]
<1>1. o \in Timer /\ o.flags = {} /\ Stopped(o)
      BY DEF Timer, Stopped
<1> HIDE DEF o
<1>2. Asleep(o) \in Timer /\ Asleep(o).flags \subseteq {"ALREADY_POWER_OFF"} /\ Stopped(Asleep(o))
      BY <1>1, AsleepDoes
<1>3. off = Asleep(o) /\ dev = "off"
      BY DEF Init, o
<1>4. TypeOK
  <2>1. off \in [flags : SUBSET Masks, timer : BOOLEAN]
        BY <1>2, <1>3 DEF Timer
  <2>2. /\ dev \in {"off", "on", "offing"} /\ bp \in States /\ key \in {"up", "down", "long"}
        /\ sys \in BOOLEAN /\ box \in BOOLEAN /\ ota \in BOOLEAN
        BY DEF Init, States
  <2>3. /\ mmi \in [checks : 0 .. Checks, checking : BOOLEAN, prompt : {"none", "queued", "playing"}]
        /\ le \in 0 .. LeMax
        BY AutoPowerOffAssumption DEF Init
  <2>4. /\ phone \in [linked : SUBSET Phones, authed : SUBSET Phones, calls : SUBSET Phones]
        /\ phone.calls \subseteq phone.authed /\ phone.authed \subseteq phone.linked
        BY DEF Init
  <2>5. QED
        BY <2>1, <2>2, <2>3, <2>4 DEF TypeOK
<1>5. Causes /\ Kept /\ Stage /\ Armed
      BY <1>2, <1>3 DEF Init, Causes, Kept, Stage, Armed, Timer, Stopped
<1>6. QED
      BY <1>4, <1>5 DEF Inv

LEMMA PolicyEntersStep ==
    ASSUME Inv, NEW s \in States, PolicyEnters(s)
    PROVE  Inv'
<1> DEFINE o == IF s = "standby" THEN Released(off) ELSE off
<1>1. /\ o \in Timer /\ Stopped(o) /\ (dev = "on" => Runs(o))
      /\ o.flags = off.flags \ IF s = "standby" /\ LinkedTime THEN {"SOURCE_LINK"} ELSE {}
      BY TimerNow, ReleasedDoes DEF Timer
<1> HIDE DEF o
<1>2. off' = PolicyLed(o, s)
      BY DEF PolicyEnters, o
<1>3. LET r == PolicyLed(o, s) IN
      /\ r \in Timer
      /\ "PAIRING_MODE" \in r.flags <=>
            s = "pairing" \/ (bp # "pairing" /\ "PAIRING_MODE" \in o.flags)
      /\ "LINKBACK" \in r.flags <=>
            s = "linkback" \/ (bp # "linkback" /\ "LINKBACK" \in o.flags)
      /\ \A m \in Masks \ {"PAIRING_MODE", "LINKBACK"} : m \in r.flags <=> m \in o.flags
      /\ Stopped(o) => Stopped(r)
      /\ Runs(o) => Runs(r)
      BY <1>1, PolicyLedDoes
<1>4. /\ off' \in Timer /\ Stopped(off') /\ (dev' = "on" => Runs(off'))
      /\ "PAIRING_MODE" \in off'.flags <=>
            s = "pairing" \/ (bp # "pairing" /\ "PAIRING_MODE" \in o.flags)
      /\ "LINKBACK" \in off'.flags <=>
            s = "linkback" \/ (bp # "linkback" /\ "LINKBACK" \in o.flags)
      /\ \A m \in Masks \ {"PAIRING_MODE", "LINKBACK"} : m \in off'.flags <=> m \in o.flags
      BY <1>1, <1>2, <1>3 DEF PolicyEnters
<1>5. TypeOK'
      BY <1>4 DEF Inv, TypeOK, PolicyEnters, Timer
<1>6. Causes'
      BY <1>1, <1>4 DEF Inv, Causes, Stage, PolicyEnters, Masks
<1>7. Kept'
      BY <1>1, <1>4 DEF Inv, TypeOK, Kept, Stage, PolicyEnters, Masks
<1>8. Stage' /\ Armed'
      BY <1>4, TimerNext DEF Inv, Stage, PolicyEnters
<1>9. QED
      BY <1>5, <1>6, <1>7, <1>8 DEF Inv

LEMMA ConnectStep ==
    ASSUME Inv, NEW p \in Phones, Connect(p)
    PROVE  Inv'
<1>1. TypeOK'
      BY DEF Inv, TypeOK, Connect
<1>2. Causes' /\ Kept' /\ Stage' /\ Armed'
      BY DEF Inv, TypeOK, Causes, Kept, Stage, Armed, Connect
<1>3. QED
      BY <1>1, <1>2 DEF Inv

\* With SOURCE_LINK put in and, if there is a time for phones, taken out again.
LEMMA AuthSucStep ==
    ASSUME Inv, NEW p \in Phones, AuthSuc(p)
    PROVE  Inv'
<1> DEFINE o == Disable(off, {"SOURCE_LINK"})
<1>1. {"SOURCE_LINK"} \in SUBSET Masks
      BY DEF Masks
<1>2. o \in Timer /\ o.flags = off.flags \cup {"SOURCE_LINK"} /\ Stopped(o) /\ Runs(o)
      BY <1>1, TimerNow, DisableDoes
<1> HIDE DEF o
<1>3. off' = Released(o)
      BY DEF AuthSuc, o
<1>4. /\ off' \in Timer /\ Stopped(off') /\ Runs(off')
      /\ off'.flags = (off.flags \cup {"SOURCE_LINK"}) \ IF LinkedTime THEN {"SOURCE_LINK"} ELSE {}
      BY <1>2, <1>3, ReleasedDoes
<1>5. TypeOK'
      BY <1>4 DEF Inv, TypeOK, AuthSuc, Timer
<1>6. Causes'
      BY <1>4 DEF Inv, TypeOK, Causes, AuthSuc
<1>7. Kept'
      BY <1>4 DEF Inv, TypeOK, Kept, AuthSuc
<1>8. Stage' /\ Armed'
      BY <1>4, TimerNext DEF Inv, Stage, AuthSuc
<1>9. QED
      BY <1>5, <1>6, <1>7, <1>8 DEF Inv

LEMMA DisconnectStep ==
    ASSUME Inv, NEW p \in Phones, Disconnect(p)
    PROVE  Inv'
<1> DEFINE last == p \in phone.authed /\ phone.linked = {p}
<1>1. {"SOURCE_LINK"} \in SUBSET Masks /\ IdleTime \in BOOLEAN
      BY DEF Masks, IdleTime, On
<1>2. LET r == Enable(off, {"SOURCE_LINK"}, IdleTime) IN
      r \in Timer /\ r.flags = off.flags \ {"SOURCE_LINK"} /\ Stopped(r) /\ Runs(r)
      BY <1>1, TimerNow, EnableDoes
<1>3. /\ off' \in Timer /\ Stopped(off') /\ (dev' = "on" => Runs(off'))
      /\ off'.flags = IF last THEN off.flags \ {"SOURCE_LINK"} ELSE off.flags
      BY <1>2, TimerNow DEF Disconnect
<1>4. TypeOK'
      BY <1>3 DEF Inv, TypeOK, Disconnect, Timer
<1>5. Causes'
      BY <1>3 DEF Inv, TypeOK, Causes, Disconnect
<1>6. Kept'
      BY <1>3 DEF Inv, TypeOK, Kept, Disconnect
<1>7. Stage' /\ Armed'
      BY <1>3, TimerNext DEF Inv, Stage, Disconnect
<1>8. QED
      BY <1>4, <1>5, <1>6, <1>7 DEF Inv

LEMMA AudioStartStep ==
    ASSUME Inv, NEW p \in Phones, AudioStart(p)
    PROVE  Inv'
<1>1. /\ off' \in Timer /\ Stopped(off') /\ (dev' = "on" => Runs(off'))
      /\ off'.flags = off.flags \cup IF LinkedTime THEN {"SOURCE_LINK"} ELSE {}
      BY TimerNow, HeldDoes DEF AudioStart
<1>2. TypeOK'
      BY <1>1 DEF Inv, TypeOK, AudioStart, Timer
<1>3. Causes'
      BY <1>1 DEF Inv, TypeOK, Causes, AudioStart
<1>4. Kept'
      BY <1>1 DEF Inv, TypeOK, Kept, AudioStart
<1>5. Stage' /\ Armed'
      BY <1>1, TimerNext DEF Inv, Stage, AudioStart
<1>6. QED
      BY <1>2, <1>3, <1>4, <1>5 DEF Inv

LEMMA StreamEndStep ==
    ASSUME Inv, NEW p \in Phones, StreamEnd(p)
    PROVE  Inv'
<1>1. /\ off' \in Timer /\ Stopped(off') /\ (dev' = "on" => Runs(off'))
      /\ off'.flags = off.flags \ IF LinkedTime /\ phone.calls = {} THEN {"SOURCE_LINK"} ELSE {}
      BY TimerNow, ReleasedDoes DEF StreamEnd
<1>2. TypeOK'
      BY <1>1 DEF Inv, TypeOK, StreamEnd, Timer
<1>3. Causes'
      BY <1>1 DEF Inv, TypeOK, Causes, StreamEnd
<1>4. Kept'
      BY <1>1 DEF Inv, TypeOK, Kept, StreamEnd
<1>5. Stage' /\ Armed'
      BY <1>1, TimerNext DEF Inv, Stage, StreamEnd
<1>6. QED
      BY <1>2, <1>3, <1>4, <1>5 DEF Inv

\* One phone only: the call that is over was the only one.
LEMMA CallStatusStep ==
    ASSUME Inv, NEW p \in Phones, NEW calling \in BOOLEAN, CallStatus(p, calling)
    PROVE  Inv'
<1>1. /\ off' \in Timer /\ Stopped(off') /\ (dev' = "on" => Runs(off'))
      /\ off'.flags = IF ~LinkedTime THEN off.flags
                      ELSE IF calling THEN off.flags \cup {"SOURCE_LINK"}
                      ELSE off.flags \ {"SOURCE_LINK"}
      BY TimerNow, HeldDoes, ReleasedDoes DEF CallStatus
<1>2. TypeOK'
      BY <1>1 DEF Inv, TypeOK, CallStatus, Timer
<1>3. Causes'
      BY <1>1 DEF Inv, TypeOK, Causes, CallStatus
<1>4. Kept'
      BY <1>1 DEF Inv, TypeOK, Kept, CallStatus
<1>5. Stage' /\ Armed'
      BY <1>1, TimerNext DEF Inv, Stage, CallStatus
<1>6. QED
      BY <1>2, <1>3, <1>4, <1>5 DEF Inv

-----------------------------------------------------------------------------
LEMMA LeConnectedStep ==
    ASSUME Inv, LeConnected
    PROVE  Inv'
<1>1. {"BLE_LINK_EXIST"} \in SUBSET Masks
      BY DEF Masks
<1>2. LET r == Disable(off, {"BLE_LINK_EXIST"}) IN
      r \in Timer /\ r.flags = off.flags \cup {"BLE_LINK_EXIST"} /\ Stopped(r) /\ Runs(r)
      BY <1>1, TimerNow, DisableDoes
<1>3. /\ off' \in Timer /\ Stopped(off') /\ (dev' = "on" => Runs(off'))
      /\ off'.flags = off.flags \cup {"BLE_LINK_EXIST"}
      BY <1>2, TimerNow DEF LeConnected
<1>4. TypeOK'
      BY <1>3, AutoPowerOffAssumption DEF Inv, TypeOK, LeConnected, Timer
<1>5. Causes'
      BY <1>3, AutoPowerOffAssumption DEF Inv, TypeOK, Causes, LeConnected
<1>6. Kept'
      BY <1>3 DEF Inv, TypeOK, Kept, LeConnected
<1>7. Stage' /\ Armed'
      BY <1>3, TimerNext DEF Inv, Stage, LeConnected
<1>8. QED
      BY <1>4, <1>5, <1>6, <1>7 DEF Inv

LEMMA LeDisconnectedStep ==
    ASSUME Inv, LeDisconnected
    PROVE  Inv'
<1>1. {"BLE_LINK_EXIST"} \in SUBSET Masks /\ IdleTime \in BOOLEAN
      BY DEF Masks, IdleTime, On
<1>2. LET r == Enable(off, {"BLE_LINK_EXIST"}, IdleTime) IN
      r \in Timer /\ r.flags = off.flags \ {"BLE_LINK_EXIST"} /\ Stopped(r) /\ Runs(r)
      BY <1>1, TimerNow, EnableDoes
<1>3. /\ off' \in Timer /\ Stopped(off') /\ (dev' = "on" => Runs(off'))
      /\ off'.flags = off.flags \ IF le = 1 THEN {"BLE_LINK_EXIST"} ELSE {}
      BY <1>2, TimerNow DEF LeDisconnected
<1>4. TypeOK'
      BY <1>3, AutoPowerOffAssumption DEF Inv, TypeOK, LeDisconnected, Timer
<1>5. Causes'
      BY <1>3, AutoPowerOffAssumption DEF Inv, TypeOK, Causes, LeDisconnected
<1>6. Kept'
      BY <1>3 DEF Inv, TypeOK, Kept, LeDisconnected
<1>7. Stage' /\ Armed'
      BY <1>3, TimerNext DEF Inv, Stage, LeDisconnected
<1>8. QED
      BY <1>4, <1>5, <1>6, <1>7 DEF Inv

LEMMA OtaStartStep ==
    ASSUME Inv, OtaStart
    PROVE  Inv'
<1>1. {"HARMAN_OTA"} \in SUBSET Masks
      BY DEF Masks
<1>2. LET r == Disable(off, {"HARMAN_OTA"}) IN
      r \in Timer /\ r.flags = off.flags \cup {"HARMAN_OTA"} /\ Stopped(r) /\ Runs(r)
      BY <1>1, TimerNow, DisableDoes
<1>3. /\ off' \in Timer /\ Stopped(off') /\ (dev' = "on" => Runs(off'))
      /\ off'.flags = off.flags \cup {"HARMAN_OTA"}
      BY <1>2, TimerNow DEF OtaStart
<1>4. TypeOK'
      BY <1>3, AutoPowerOffAssumption DEF Inv, TypeOK, OtaStart, Timer
<1>5. Causes'
      BY <1>3, AutoPowerOffAssumption DEF Inv, TypeOK, Causes, OtaStart
<1>6. Kept'
      BY <1>3 DEF Inv, TypeOK, Kept, OtaStart
<1>7. Stage' /\ Armed'
      BY <1>3, TimerNext DEF Inv, Stage, OtaStart
<1>8. QED
      BY <1>4, <1>5, <1>6, <1>7 DEF Inv

LEMMA OtaExitStep ==
    ASSUME Inv, OtaExit
    PROVE  Inv'
<1>1. {"HARMAN_OTA"} \in SUBSET Masks /\ IdleTime \in BOOLEAN
      BY DEF Masks, IdleTime, On
<1>2. LET r == Enable(off, {"HARMAN_OTA"}, IdleTime) IN
      r \in Timer /\ r.flags = off.flags \ {"HARMAN_OTA"} /\ Stopped(r) /\ Runs(r)
      BY <1>1, TimerNow, EnableDoes
<1>3. /\ off' \in Timer /\ Stopped(off') /\ (dev' = "on" => Runs(off'))
      /\ off'.flags = off.flags \ {"HARMAN_OTA"}
      BY <1>2, TimerNow DEF OtaExit
<1>4. TypeOK'
      BY <1>3, AutoPowerOffAssumption DEF Inv, TypeOK, OtaExit, Timer
<1>5. Causes'
      BY <1>3, AutoPowerOffAssumption DEF Inv, TypeOK, Causes, OtaExit
<1>6. Kept'
      BY <1>3 DEF Inv, TypeOK, Kept, OtaExit
<1>7. Stage' /\ Armed'
      BY <1>3, TimerNext DEF Inv, Stage, OtaExit
<1>8. QED
      BY <1>4, <1>5, <1>6, <1>7 DEF Inv

LEMMA ManualTimeStep ==
    ASSUME Inv, ManualTime
    PROVE  Inv'
<1>1. {} \in SUBSET Masks /\ IdleTime \in BOOLEAN
      BY DEF Masks, IdleTime, On
<1>2. LET r == Enable(off, {}, TRUE) IN
      r \in Timer /\ r.flags = off.flags \ {} /\ Stopped(r) /\ Runs(r)
      BY <1>1, TimerNow, EnableDoes
<1>3. /\ off' \in Timer /\ Stopped(off') /\ (dev' = "on" => Runs(off'))
      /\ off'.flags = off.flags
      BY <1>2, TimerNow DEF ManualTime
<1>4. TypeOK'
      BY <1>3, AutoPowerOffAssumption DEF Inv, TypeOK, ManualTime, Timer
<1>5. Causes'
      BY <1>3, AutoPowerOffAssumption DEF Inv, TypeOK, Causes, ManualTime
<1>6. Kept'
      BY <1>3 DEF Inv, TypeOK, Kept, ManualTime
<1>7. Stage' /\ Armed'
      BY <1>3, TimerNext DEF Inv, Stage, ManualTime
<1>8. QED
      BY <1>4, <1>5, <1>6, <1>7 DEF Inv

LEMMA KeyPressStep ==
    ASSUME Inv, KeyPress
    PROVE  Inv'
<1>1. {"KEY"} \in SUBSET Masks
      BY DEF Masks
<1>2. LET r == Disable(off, {"KEY"}) IN
      r \in Timer /\ r.flags = off.flags \cup {"KEY"} /\ Stopped(r) /\ Runs(r)
      BY <1>1, TimerNow, DisableDoes
<1>3. /\ off' \in Timer /\ Stopped(off') /\ (dev' = "on" => Runs(off'))
      /\ off'.flags = off.flags \cup IF LinkedTime /\ phone.linked # {} THEN {"KEY"} ELSE {}
      BY <1>2, TimerNow DEF KeyPress
<1>4. TypeOK'
      BY <1>3, AutoPowerOffAssumption DEF Inv, TypeOK, KeyPress, Timer
<1>5. Causes'
      BY <1>3, AutoPowerOffAssumption DEF Inv, TypeOK, Causes, KeyPress
<1>6. Kept'
      BY <1>3 DEF Inv, TypeOK, Kept, KeyPress
<1>7. Stage' /\ Armed'
      BY <1>3, TimerNext DEF Inv, Stage, KeyPress
<1>8. QED
      BY <1>4, <1>5, <1>6, <1>7 DEF Inv

LEMMA KeyReleaseStep ==
    ASSUME Inv, KeyRelease
    PROVE  Inv'
<1>1. {"KEY"} \in SUBSET Masks /\ IdleTime \in BOOLEAN
      BY DEF Masks, IdleTime, On
<1>2. LET r == Enable(off, {"KEY"}, TRUE) IN
      r \in Timer /\ r.flags = off.flags \ {"KEY"} /\ Stopped(r) /\ Runs(r)
      BY <1>1, TimerNow, EnableDoes
<1>3. /\ off' \in Timer /\ Stopped(off') /\ (dev' = "on" => Runs(off'))
      /\ off'.flags = off.flags \ IF LinkedTime /\ phone.linked # {} THEN {"KEY"} ELSE {}
      BY <1>2, TimerNow DEF KeyRelease
<1>4. TypeOK'
      BY <1>3, AutoPowerOffAssumption DEF Inv, TypeOK, KeyRelease, Timer
<1>5. Causes'
      BY <1>3, AutoPowerOffAssumption DEF Inv, TypeOK, Causes, KeyRelease
<1>6. Kept'
      BY <1>3 DEF Inv, TypeOK, Kept, KeyRelease
<1>7. Stage' /\ Armed'
      BY <1>3, TimerNext DEF Inv, Stage, KeyRelease
<1>8. QED
      BY <1>4, <1>5, <1>6, <1>7 DEF Inv

LEMMA PlugStep ==
    ASSUME Inv, Plug
    PROVE  Inv'
<1>1. {"IN_BOX"} \in SUBSET Masks
      BY DEF Masks
<1>2. LET r == Disable(off, {"IN_BOX"}) IN
      r \in Timer /\ r.flags = off.flags \cup {"IN_BOX"} /\ Stopped(r) /\ Runs(r)
      BY <1>1, TimerNow, DisableDoes
<1>3. /\ off' \in Timer /\ Stopped(off') /\ (dev' = "on" => Runs(off'))
      /\ off'.flags = off.flags \cup IF On("enable_inbox_power_off") THEN {"IN_BOX"} ELSE {}
      BY <1>2, TimerNow DEF Plug
<1>4. TypeOK'
      BY <1>3, AutoPowerOffAssumption DEF Inv, TypeOK, Plug, Timer
<1>5. Causes'
      BY <1>3, AutoPowerOffAssumption DEF Inv, TypeOK, Causes, Plug
<1>6. Kept'
      BY <1>3 DEF Inv, TypeOK, Kept, Plug
<1>7. Stage' /\ Armed'
      BY <1>3, TimerNext DEF Inv, Stage, Plug
<1>8. QED
      BY <1>4, <1>5, <1>6, <1>7 DEF Inv

LEMMA UnplugStep ==
    ASSUME Inv, Unplug
    PROVE  Inv'
<1>1. {"IN_BOX"} \in SUBSET Masks /\ IdleTime \in BOOLEAN
      BY DEF Masks, IdleTime, On
<1>2. LET r == Enable(off, {"IN_BOX"}, IdleTime) IN
      r \in Timer /\ r.flags = off.flags \ {"IN_BOX"} /\ Stopped(r) /\ Runs(r)
      BY <1>1, TimerNow, EnableDoes
<1>3. /\ off' \in Timer /\ Stopped(off') /\ (dev' = "on" => Runs(off'))
      /\ off'.flags = off.flags \ IF On("enable_outbox_power_on") THEN {"IN_BOX"} ELSE {}
      BY <1>2, TimerNow DEF Unplug
<1>4. TypeOK'
      BY <1>3, AutoPowerOffAssumption DEF Inv, TypeOK, Unplug, Timer
<1>5. Causes'
      BY <1>3, AutoPowerOffAssumption DEF Inv, TypeOK, Causes, Unplug
<1>6. Kept'
      BY <1>3 DEF Inv, TypeOK, Kept, Unplug
<1>7. Stage' /\ Armed'
      BY <1>3, TimerNext DEF Inv, Stage, Unplug
<1>8. QED
      BY <1>4, <1>5, <1>6, <1>7 DEF Inv

-----------------------------------------------------------------------------
(* Going off and on again.                                                 *)

\* All reasons but one are taken out, and the policy is led to idle.
LEMMA SysPowerOffDoes ==
    ASSUME Inv, NEW o \in Timer, Stopped(o), o.flags = off.flags, SysPowerOff(o)
    PROVE  off' \in Timer /\ Stopped(off') /\ off'.flags \subseteq {"ALREADY_POWER_OFF"}
<1> DEFINE gone == Masks \ {"ALREADY_POWER_OFF"}
           e == Enable(o, gone, IdleTime)
           r == PolicyLed(e, "idle")
<1>1. gone \in SUBSET Masks /\ IdleTime \in BOOLEAN
      BY DEF IdleTime, On
<1>2. e \in Timer /\ e.flags = o.flags \ gone /\ Stopped(e)
      BY <1>1, EnableDoes
<1>3. o.flags \ gone \subseteq {"ALREADY_POWER_OFF"}
      BY DEF Timer
<1> HIDE DEF e, gone
<1>4. /\ r \in Timer /\ Stopped(r)
      /\ "PAIRING_MODE" \in r.flags => "PAIRING_MODE" \in e.flags
      /\ "LINKBACK" \in r.flags => "LINKBACK" \in e.flags
      /\ \A m \in Masks \ {"PAIRING_MODE", "LINKBACK"} : m \in r.flags <=> m \in e.flags
  <2>1. LET q == PolicyLed(e, "idle") IN
        /\ q \in Timer
        /\ "PAIRING_MODE" \in q.flags <=>
              "idle" = "pairing" \/ (bp # "pairing" /\ "PAIRING_MODE" \in e.flags)
        /\ "LINKBACK" \in q.flags <=>
              "idle" = "linkback" \/ (bp # "linkback" /\ "LINKBACK" \in e.flags)
        /\ \A m \in Masks \ {"PAIRING_MODE", "LINKBACK"} : m \in q.flags <=> m \in e.flags
        /\ Stopped(e) => Stopped(q)
        /\ Runs(e) => Runs(q)
        BY <1>2, PolicyLedDoes
  <2>2. QED
        BY <2>1, <1>2
<1> HIDE DEF r
<1>5. r.flags \subseteq {"ALREADY_POWER_OFF"}
      BY <1>2, <1>3, <1>4 DEF Timer
<1>6. off' = Asleep(r)
      BY DEF SysPowerOff, r, e, gone
<1>7. QED
      BY <1>4, <1>5, <1>6, AsleepDoes

\* Once off is asked for, nothing is claimed but that the timer stays stopped.
LEMMA PowerOffStep ==
    ASSUME Inv, NEW o \in Timer, Stopped(o), o.flags = off.flags, PowerOff(o),
           key' \in {"up", "down", "long"}
    PROVE  Inv'
<1>1. CASE box
  <2>1. SysPowerOff(o) /\ mmi' = [mmi EXCEPT !.checking = TRUE]
        BY <1>1 DEF PowerOff
  <2>2. off' \in Timer /\ Stopped(off') /\ off'.flags \subseteq {"ALREADY_POWER_OFF"}
        BY <2>1, SysPowerOffDoes
  <2>3. TypeOK'
        BY <2>1, <2>2 DEF Inv, TypeOK, PowerOff, SysPowerOff, Timer, States
  <2>4. Causes' /\ Kept'
        BY <2>1, <2>2 DEF Causes, Kept, PowerOff, SysPowerOff
  <2>5. Stage' /\ Armed'
        BY <2>1, <2>2, TimerNext DEF Stage, PowerOff, SysPowerOff
  <2>6. QED
        BY <2>3, <2>4, <2>5 DEF Inv
<1>2. CASE ~box
  <2>1. /\ off' = o /\ sys' = sys /\ bp' = bp /\ dev' = "offing"
        /\ phone' = phone /\ le' = le /\ box' = box /\ ota' = ota
        /\ mmi' = [mmi EXCEPT !.checking = TRUE, !.prompt = "queued"]
        BY <1>2 DEF PowerOff
  <2>2. TypeOK'
        BY <2>1 DEF Inv, TypeOK, Timer
  <2>3. Causes' /\ Kept'
        BY <2>1 DEF Inv, Causes, Kept
  <2>4. Stage' /\ Armed'
        BY <2>1, TimerNext DEF Inv, Stage
  <2>5. QED
        BY <2>2, <2>3, <2>4 DEF Inv
<1>3. QED
      BY <1>1, <1>2

LEMMA ExpireStep ==
    ASSUME Inv, Expire
    PROVE  Inv'
<1> DEFINE o == [off EXCEPT !.timer = FALSE]
<1>1. o \in Timer /\ o.flags = off.flags /\ Stopped(o)
      BY TimerNow DEF Timer, Stopped
<1>2. CASE dev = "on"
  <2>1. PowerOff(o) /\ key' = key
        BY <1>2 DEF Expire
  <2> HIDE DEF o
  <2>2. key' \in {"up", "down", "long"}
        BY <2>1 DEF Inv, TypeOK
  <2>3. QED
        BY <1>1, <2>1, <2>2, PowerOffStep
<1>3. CASE dev # "on"
  <2>1. off' = o /\ UNCHANGED <<dev, mmi, sys, bp, phone, le, key, box, ota>>
        BY <1>3 DEF Expire
  <2>2. TypeOK' /\ Causes' /\ Kept'
        BY <1>1, <2>1 DEF Inv, TypeOK, Causes, Kept, Timer
  <2>3. Stage' /\ Armed'
        BY <1>1, <1>3, <2>1, TimerNext DEF Inv, Stage
  <2>4. QED
        BY <2>2, <2>3 DEF Inv
<1>4. QED
      BY <1>2, <1>3

LEMMA SwitchOffStep ==
    ASSUME Inv, NEW long \in BOOLEAN, SwitchOff(long)
    PROVE  Inv'
<1>1. key' \in {"up", "down", "long"}
      BY DEF SwitchOff, Inv, TypeOK
<1>2. PowerOff(off)
      BY DEF SwitchOff
<1>3. QED
      BY <1>1, <1>2, TimerNow, PowerOffStep

LEMMA PromptStartsStep ==
    ASSUME Inv, PromptStarts
    PROVE  Inv'
<1>1. CASE dev = "offing" /\ sys
  <2>1. SysPowerOff(off)
        BY <1>1 DEF PromptStarts
  <2>2. off' \in Timer /\ Stopped(off') /\ off'.flags \subseteq {"ALREADY_POWER_OFF"}
        BY <2>1, TimerNow, SysPowerOffDoes
  <2>3. TypeOK'
        BY <2>1, <2>2 DEF Inv, TypeOK, PromptStarts, SysPowerOff, Timer, States
  <2>4. Causes' /\ Kept'
        BY <1>1, <2>1, <2>2 DEF Causes, Kept, PromptStarts, SysPowerOff
  <2>5. Stage' /\ Armed'
        BY <1>1, <2>1, <2>2, TimerNext DEF Stage, PromptStarts, SysPowerOff
  <2>6. QED
        BY <2>3, <2>4, <2>5 DEF Inv
<1>2. CASE ~(dev = "offing" /\ sys)
  <2>1. UNCHANGED <<off, sys, bp, dev, phone, le, key, box, ota>>
        BY <1>2 DEF PromptStarts
  <2>2. TypeOK'
        BY <2>1 DEF Inv, TypeOK, PromptStarts
  <2>3. QED
        BY <2>1, <2>2 DEF Inv, Causes, Kept, Stage, Armed
<1>3. QED
      BY <1>1, <1>2

LEMMA PromptEndsStep ==
    ASSUME Inv, PromptEnds
    PROVE  Inv'
<1>1. TypeOK'
      BY DEF Inv, TypeOK, PromptEnds
<1>2. QED
      BY <1>1 DEF Inv, Causes, Kept, Stage, Armed, PromptEnds

LEMMA StayDownStep ==
    ASSUME Inv, NEW n \in 0 .. Checks, StayDown(n)
    PROVE  Inv'
<1>1. /\ off' \in Timer /\ Stopped(off')
      /\ off'.flags \subseteq off.flags \cup {"ALREADY_POWER_OFF"}
      /\ dev' = "off"
      BY TimerNow, AsleepDoes DEF StayDown
<1>2. TypeOK'
      BY <1>1 DEF Inv, TypeOK, StayDown, Timer
<1>3. Causes'
      BY <1>1 DEF Inv, Causes, StayDown
<1>4. Kept'
  <2>1. off.flags \subseteq off'.flags
        BY TimerNow DEF StayDown, Asleep, Disable, Timer
  <2>2. QED
        BY <1>1, <2>1 DEF Inv, Kept, StayDown
<1>5. Stage' /\ Armed'
      BY <1>1, TimerNext DEF Inv, Stage, StayDown
<1>6. QED
      BY <1>2, <1>3, <1>4, <1>5 DEF Inv

LEMMA RestartStep ==
    ASSUME Inv, Restart
    PROVE  Inv'
<1> DEFINE o == [flags |-> {}, timer |-> FALSE]
<1>1. o \in Timer /\ o.flags = {} /\ Stopped(o)
      BY DEF Timer, Stopped
<1> HIDE DEF o
<1>2. Asleep(o) \in Timer /\ Asleep(o).flags \subseteq {"ALREADY_POWER_OFF"} /\ Stopped(Asleep(o))
      BY <1>1, AsleepDoes
<1>3. off' = Asleep(o) /\ dev' = "off"
      BY DEF Restart, o
<1>4. TypeOK'
  <2>1. (off \in [flags : SUBSET Masks, timer : BOOLEAN])'
        BY <1>2, <1>3 DEF Timer
  <2>2. (/\ dev \in {"off", "on", "offing"} /\ bp \in States /\ key \in {"up", "down", "long"}
         /\ sys \in BOOLEAN /\ box \in BOOLEAN /\ ota \in BOOLEAN)'
        BY DEF Restart, States, Inv, TypeOK
  <2>3. (/\ mmi \in [checks : 0 .. Checks, checking : BOOLEAN, prompt : {"none", "queued", "playing"}]
         /\ le \in 0 .. LeMax)'
        BY AutoPowerOffAssumption DEF Restart
  <2>4. (/\ phone \in [linked : SUBSET Phones, authed : SUBSET Phones, calls : SUBSET Phones]
         /\ phone.calls \subseteq phone.authed /\ phone.authed \subseteq phone.linked)'
        BY DEF Restart
  <2>5. QED
        BY <2>1, <2>2, <2>3, <2>4 DEF TypeOK
<1>5. Causes' /\ Kept'
      BY <1>2, <1>3 DEF Restart, Causes, Kept
<1>6. Stage' /\ Armed'
      BY <1>2, <1>3, TimerNext DEF Restart, Stage
<1>7. QED
      BY <1>4, <1>5, <1>6 DEF Inv

LEMMA RebootCheckStep ==
    ASSUME Inv, RebootCheck
    PROVE  Inv'
<1> DEFINE n == IF mmi.checks > 0 THEN mmi.checks - 1 ELSE 0
<1>1. n \in 0 .. Checks
      BY AutoPowerOffAssumption DEF Inv, TypeOK
<1>2. \/ mmi' = [mmi EXCEPT !.checks = n] /\ UNCHANGED <<off, dev, sys, bp, phone, le, key, box, ota>>
      \/ StayDown(n)
      \/ Restart
      BY DEF RebootCheck
<1> HIDE DEF n
<1>3. CASE mmi' = [mmi EXCEPT !.checks = n] /\ UNCHANGED <<off, dev, sys, bp, phone, le, key, box, ota>>
  <2>1. TypeOK'
        BY <1>1, <1>3 DEF Inv, TypeOK
  <2>2. QED
        BY <1>3, <2>1 DEF Inv, Causes, Kept, Stage, Armed
<1>4. QED
      BY <1>1, <1>2, <1>3, StayDownStep, RestartStep

LEMMA PowerOnStep ==
    ASSUME Inv, PowerOn
    PROVE  Inv'
<1>1. {"ALREADY_POWER_OFF"} \in SUBSET Masks /\ IdleTime \in BOOLEAN
      BY DEF Masks, IdleTime, On
<1>2. LET r == Enable(off, {"ALREADY_POWER_OFF"}, IdleTime) IN
      r \in Timer /\ r.flags = off.flags \ {"ALREADY_POWER_OFF"} /\ Stopped(r) /\ Runs(r)
      BY <1>1, TimerNow, EnableDoes
<1>3. /\ off' \in Timer /\ Stopped(off') /\ Runs(off')
      /\ off'.flags = off.flags \ {"ALREADY_POWER_OFF"}
      BY <1>2 DEF PowerOn
<1>4. TypeOK'
      BY <1>3 DEF Inv, TypeOK, PowerOn, Timer
<1>5. Causes'
      BY <1>3 DEF Inv, Causes, PowerOn
<1>6. Kept'
      BY <1>3 DEF Inv, TypeOK, Kept, Stage, PowerOn
<1>7. Stage' /\ Armed'
      BY <1>3, TimerNext DEF Inv, Stage, PowerOn
<1>8. QED
      BY <1>4, <1>5, <1>6, <1>7 DEF Inv

LEMMA PowerOnSoonStep ==
    ASSUME Inv, PowerOnSoon
    PROVE  Inv'
<1>1. TypeOK'
      BY AutoPowerOffAssumption DEF Inv, TypeOK, PowerOnSoon
<1>2. QED
      BY <1>1 DEF Inv, Causes, Kept, Stage, Armed, PowerOnSoon

-----------------------------------------------------------------------------
LEMMA NextInv == Inv /\ [Next]_vars => Inv'
<1> SUFFICES ASSUME Inv, [Next]_vars PROVE Inv'
    OBVIOUS
<1>1. CASE Next
  <2>1. CASE \E s \in States : PolicyEnters(s)
        BY <2>1, PolicyEntersStep
  <2>2. CASE \E p \in Phones :
               \/ Connect(p) \/ AuthSuc(p) \/ Disconnect(p)
               \/ AudioStart(p) \/ StreamEnd(p)
               \/ \E calling \in BOOLEAN : CallStatus(p, calling)
        BY <2>2, ConnectStep, AuthSucStep, DisconnectStep, AudioStartStep, StreamEndStep,
           CallStatusStep
  <2>3. CASE LeConnected \/ LeDisconnected \/ OtaStart \/ OtaExit \/ ManualTime
        BY <2>3, LeConnectedStep, LeDisconnectedStep, OtaStartStep, OtaExitStep, ManualTimeStep
  <2>4. CASE KeyPress \/ KeyRelease \/ Plug \/ Unplug
        BY <2>4, KeyPressStep, KeyReleaseStep, PlugStep, UnplugStep
  <2>5. CASE Expire \/ (\E long \in BOOLEAN : SwitchOff(long)) \/ PromptStarts \/ PromptEnds
        BY <2>5, ExpireStep, SwitchOffStep, PromptStartsStep, PromptEndsStep
  <2>6. CASE RebootCheck \/ PowerOn \/ PowerOnSoon
        BY <2>6, RebootCheckStep, PowerOnStep, PowerOnSoonStep
  <2>7. QED
        BY <1>1, <2>1, <2>2, <2>3, <2>4, <2>5, <2>6 DEF Next
<1>2. CASE UNCHANGED vars
      BY <1>2 DEF vars, Inv, TypeOK, Causes, Kept, Stage, Armed
<1>3. QED
      BY <1>1, <1>2

LEMMA Invariance == Spec => []Inv
BY InitInv, NextInv, PTL DEF Spec

\* The types, for any phones, links, checks and configuration (app_auto_power_off.c).
THEOREM TypeCorrect == Spec => []TypeOK
<1>1. Inv => TypeOK
      BY DEF Inv
<1>2. QED
      BY <1>1, Invariance, PTL

\* No reason outlives its cause in a headset that is on, whatever order the
\* modules put reasons in and take them out (app_auto_power_off.c:75,
\* app_device.c, app_ble_gap.c, app_charger.c, app_harman_ble_ota.c).
THEOREM ReasonsHaveCauses == Spec => []HeldForReason
<1>1. Inv => HeldForReason
      BY DEF Inv, Causes, HeldForReason
<1>2. QED
      BY <1>1, Invariance, PTL

\* A headset that pairs, calls phones back, is updated or linked is never
\* switched off by the timer (app_auto_power_off_disable).
THEOREM BusyStaysOn == Spec => []NoOffWhileBusy
<1>1. Inv => NoOffWhileBusy
      BY DEF Inv, TypeOK, Kept, Stage, NoOffWhileBusy
<1>2. QED
      BY <1>1, Invariance, PTL

\* The only phone's call holds the timer (app_hfp.c:909, app_device.c:2602).
THEOREM CallKeepsOn == Spec => []CallHolds
<1>1. Inv => CallHolds
      BY DEF Inv, Kept, Stage, CallHolds
<1>2. QED
      BY <1>1, Invariance, PTL

\* With a time configured, no step leaves an idle headset without its timer
\* (app_auto_power_off_enable).
THEOREM IdleIsTimed == Spec => []Armed
<1>1. Inv => Armed
      BY DEF Inv
<1>2. QED
      BY <1>1, Invariance, PTL

=============================================================================

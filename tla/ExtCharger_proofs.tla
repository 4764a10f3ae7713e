-------------------------- MODULE ExtCharger_proofs --------------------------
(***************************************************************************)
(* Theorems about ExtCharger for every threshold, every set of readings and*)
(* any number of messages.                                                 *)
(***************************************************************************)
EXTENDS ExtCharger, TLAPS

Charger == [enable : BOOLEAN, ignore : BOOLEAN, vbat : {"SUCCESS", "FAIL"},
            state : States, speed : {"0C", "0.5C", "1C", "2C"}, finish : BOOLEAN]

Adc == [asked : BOOLEAN, msgs : 0 .. MaxMsgs, value : Values \cup {0}, first : BOOLEAN]

Usb == [plug : BOOLEAN, asked : BOOLEAN, msg : BOOLEAN, zone : Zones \cup {"melting"},
        status : {"NULL", "ENABLE", "DISABLE"}, protect : BOOLEAN, skip : 0 .. Skip]

Adp == [det : {"ING", "IN", "OUT"}, last : {"IN", "OUT"}]

Pin == [high : BOOLEAN, edges : Seq(BOOLEAN)]

\* The charger is on just when it says so.
Agrees(c) == (c.state = "CHARGING") <=> c.enable

\* ShownIsSo, and what it rests on: once its end was told there is no adapter
\* to charge from, and the charger is off.
Shown == ShownIsSo /\ (charger.enable => adp.det # "OUT" \/ adp.last = "IN")

\* FullForReason, and what it rests on: the last edge told is how the pin is.
Full ==
    /\ FullForReason
    /\ pin.edges # << >> => pin.edges[Len(pin.edges)] = pin.high

-----------------------------------------------------------------------------
(* The steps of the charger.                                               *)

\* A new speed is all SetSpeed changes, but for the sample to ignore.
LEMMA SetSpeedKeeps ==
    ASSUME NEW c \in Charger, NEW speed \in {"0C", "0.5C", "1C", "2C"}
    PROVE  /\ SetSpeed(c, speed) \in Charger
           /\ SetSpeed(c, speed).enable = c.enable
           /\ SetSpeed(c, speed).state = c.state
           /\ SetSpeed(c, speed).finish = c.finish
BY DEF SetSpeed, Charger

\* A new state is all Enter changes, but for the sample to ignore.
LEMMA EnterKeeps ==
    ASSUME NEW c \in Charger, NEW state \in States
    PROVE  /\ Enter(c, state) \in Charger
           /\ Enter(c, state).enable = c.enable
           /\ Enter(c, state).state = state
           /\ Enter(c, state).finish = c.finish
BY DEF Enter, Charger

\* Start leaves the charger on and CHARGING.
LEMMA StartStarts ==
    ASSUME NEW c \in Charger, NEW speed \in {"0C", "0.5C", "1C", "2C"}
    PROVE  /\ Start(c, speed) \in Charger
           /\ Start(c, speed).enable
           /\ Start(c, speed).state = "CHARGING"
           /\ Start(c, speed).finish = c.finish
<1> DEFINE e == SetSpeed(c, speed)
           d == [e EXCEPT !.enable = TRUE]
<1>0. e \in Charger /\ e.finish = c.finish
  BY SetSpeedKeeps
<1> HIDE DEF e
<1>1. d \in Charger /\ d.enable /\ d.finish = c.finish
  BY <1>0 DEF Charger
<1> HIDE DEF d
<1>2. "CHARGING" \in States
  BY DEF States
<1>3. Start(c, speed) = Enter(d, "CHARGING")
  BY DEF Start, d, e
<1> QED BY <1>1, <1>2, <1>3, EnterKeeps

\* Fault leaves the charger off.
LEMMA FaultStops ==
    ASSUME NEW c \in Charger
    PROVE  /\ Fault(c) \in Charger
           /\ Fault(c).finish = c.finish
           /\ \/ Fault(c) = c /\ ~c.enable
              \/ Fault(c).state = "ERROR" /\ ~Fault(c).enable
<1> DEFINE d == [c EXCEPT !.enable = FALSE]
<1>1. d \in Charger /\ ~d.enable /\ d.finish = c.finish
  BY DEF Charger
<1> HIDE DEF d
<1>2. "ERROR" \in States
  BY DEF States
<1>3. Fault(c) = IF c.enable THEN Enter(d, "ERROR") ELSE c
  BY DEF Fault, d
<1>4. CASE c.enable
  BY <1>1, <1>2, <1>3, <1>4, EnterKeeps
<1>5. CASE ~c.enable
  BY <1>3, <1>5
<1> QED BY <1>4, <1>5

\* A warm or cold battery: the charger goes on or starts.
LEMMA WarnAgrees ==
    ASSUME NEW c \in Charger
    PROVE  /\ Warn(c) \in Charger
           /\ Warn(c).finish = c.finish
           /\ Agrees(c) => Agrees(Warn(c))
<1>1. Warn(c) \in {c, SetSpeed(c, "0.5C"), Start(c, "0.5C")}
  BY DEF Warn
<1> QED BY <1>1, SetSpeedKeeps, StartStarts DEF Agrees

\* A battery at a normal temperature: the same.
LEMMA NormalAgrees ==
    ASSUME NEW c \in Charger, NEW v
    PROVE  /\ Normal(c, v) \in Charger
           /\ Normal(c, v).finish = c.finish
           /\ Agrees(c) => Agrees(Normal(c, v))
<1>1. Normal(c, v) \in {c, SetSpeed(c, "1C"), Start(c, "1C"), Start(c, "0.5C")}
  BY DEF Normal
<1> QED BY <1>1, SetSpeedKeeps, StartStarts DEF Agrees

\* What a reading does, with an adapter and without one.
LEMMA UpdateAgrees ==
    ASSUME NEW c \in Charger, NEW v, NEW safe, NEW d, d = AdcUpdate(c, v, safe)
    PROVE  /\ d \in Charger
           /\ d.finish = c.finish
           /\ adp.det # "OUT" /\ Agrees(c) => Agrees(d)
           /\ adp.det = "OUT" =>
                \/ d.enable = c.enable /\ d.state \in {c.state, "NO_CHARGE"}
                \/ ~d.enable /\ d.state = "ERROR"
<1>1. CASE d = c
  BY <1>1
<1>2. CASE d = [c EXCEPT !.ignore = FALSE]
  BY <1>2 DEF Agrees, Charger
<1>3. CASE d = Fault(c)
  BY <1>3, FaultStops DEF Agrees
<1>4. CASE adp.det = "OUT" /\ d = Enter(c, "NO_CHARGE")
  <2>1. "NO_CHARGE" \in States
    BY DEF States
  <2> QED BY <1>4, <2>1, EnterKeeps
<1>5. CASE adp.det # "OUT" /\ d = Warn(c)
  BY <1>5, WarnAgrees
<1>6. CASE adp.det # "OUT" /\ d = Normal(c, v)
  BY <1>6, NormalAgrees
<1> QED BY <1>1, <1>2, <1>3, <1>4, <1>5, <1>6 DEF AdcUpdate, CheckNtc

\* The periodic check with an adapter; it starts the timer of the full battery
\* only while the pin is high.
LEMMA PeriodAgrees ==
    ASSUME NEW c \in Charger, NEW low \in BOOLEAN, NEW d, d = PeriodCheck(c, low),
           pin.high \in BOOLEAN
    PROVE  /\ d \in Charger
           /\ d.finish => c.finish \/ pin.high
           /\ Agrees(c) => Agrees(d)
<1>1. CASE d = [c EXCEPT !.finish = @ \/ (c.enable /\ pin.high)]
  BY <1>1 DEF Charger, Agrees
<1>2. CASE d = Start(c, "2C")
  BY <1>2, StartStarts DEF Agrees
<1>3. CASE d = c
  BY <1>3
<1> QED BY <1>1, <1>2, <1>3 DEF PeriodCheck, Recharge

-----------------------------------------------------------------------------
(* Types.                                                                  *)

\* TypeOK, one variable at a time.
LEMMA TypeParts ==
    TypeOK <=> /\ charger \in Charger /\ adc \in Adc /\ usb \in Usb
               /\ adp \in Adp /\ pin \in Pin
BY DEF TypeOK, Charger, Adc, Usb, Adp, Pin

\* The same after a step.
LEMMA TypePartsNext ==
    TypeOK' <=> /\ charger' \in Charger /\ adc' \in Adc /\ usb' \in Usb
                /\ adp' \in Adp /\ pin' \in Pin
BY DEF TypeOK, Charger, Adc, Usb, Adp, Pin

\* The reading of the connector keeps its types.
LEMMA CheckedTyped ==
    ASSUME usb \in Usb, adp \in Adp
    PROVE  Checked([usb EXCEPT !.msg = FALSE]) \in Usb
<1> DEFINE u == [usb EXCEPT !.msg = FALSE]
<1>1. u \in Usb
  BY DEF Usb
<1> HIDE DEF u
<1>2. Checked(u) \in Usb
  BY <1>1 DEF Checked, Cleared, Usb
<1> QED BY <1>2 DEF u

\* The bounds are numbers.
LEMMA Bounds == Skip \in Nat /\ MaxMsgs \in Nat /\ MaxMsgs > 0
BY ExtChargerAssumption

\* In the initial state everything is typed.
LEMMA InitTyped == Init => TypeOK
<1> SUFFICES ASSUME Init PROVE TypeOK
  OBVIOUS
<1>1. charger \in Charger
  BY DEF Init, Charger, States
<1>2. adc \in Adc
  BY Bounds DEF Init, Adc
<1>3. usb \in Usb
  <2>1. PICK protect \in BOOLEAN :
            usb = [plug |-> FALSE, asked |-> FALSE, msg |-> FALSE, zone |-> "melting",
                   status |-> "NULL", protect |-> protect, skip |-> Skip]
    BY DEF Init
  <2> QED BY <2>1, Bounds DEF Usb
<1>4. adp \in Adp /\ pin \in Pin
  BY DEF Init, Adp, Pin
<1> QED BY <1>1, <1>2, <1>3, <1>4, TypeParts

\* What a step makes of the charger is one.
LEMMA ChargerTyped ==
    ASSUME charger \in Charger, pin.high \in BOOLEAN, Next
    PROVE  charger' \in Charger
<1>1. CASE UNCHANGED charger
  BY <1>1
<1>2. CASE PlugOut
  <2> DEFINE c == [charger EXCEPT !.enable = FALSE]
  <2>1. c \in Charger /\ "NO_CHARGE" \in States
    BY DEF Charger, States
  <2>2. charger' = Enter(c, "NO_CHARGE")
    BY <1>2 DEF PlugOut
  <2> HIDE DEF c
  <2> QED BY <2>1, <2>2, EnterKeeps
<1>3. CASE AdcMessage
  <2>1. CASE adc.first
    BY <1>3, <2>1 DEF AdcMessage
  <2>2. CASE ~adc.first
    <3>1. PICK c \in Judged(charger) :
              charger' = IF adp.det = "IN"
                         THEN AdcUpdate(c, adc.value, ConnectorNormal(usb)) ELSE c
      BY <1>3, <2>2 DEF AdcMessage
    <3>2. c \in Charger
      BY DEF Judged, Charger
    <3> QED BY <3>1, <3>2, UpdateAgrees
  <2> QED BY <2>1, <2>2
<1>4. CASE Timeout
  <2>1. CASE adp.det = "IN"
    <3>1. PICK low \in BOOLEAN : charger' = PeriodCheck(charger, low)
      BY <1>4, <2>1 DEF Timeout
    <3> QED BY <3>1, PeriodAgrees
  <2>2. CASE adp.det # "IN"
    BY <1>4, <2>2 DEF Timeout
  <2> QED BY <2>1, <2>2
<1>5. CASE EdgeMessage
  BY <1>5 DEF EdgeMessage, Charger
<1>6. CASE Finish
  <2> DEFINE c == [charger EXCEPT !.finish = FALSE]
             e == [SetSpeed(c, "0.5C") EXCEPT !.enable = FALSE]
  <2>1. c \in Charger
    BY DEF Charger
  <2>2. charger' \in {Enter(e, "CHARGE_FINISH"), c}
    BY <1>6 DEF Finish
  <2>3. SetSpeed(c, "0.5C") \in Charger
    BY <2>1, SetSpeedKeeps
  <2>4. e \in Charger /\ "CHARGE_FINISH" \in States
    BY <2>3 DEF Charger, States
  <2> HIDE DEF c, e
  <2> QED BY <2>1, <2>2, <2>4, EnterKeeps
<1>7. CASE UsbUpdate
  <2>1. charger' = charger \/ charger' = AdcUpdate(charger, adc.value, ConnectorNormal(usb'))
    BY <1>7 DEF UsbUpdate
  <2> QED BY <2>1, UpdateAgrees
<1>8. Next => \/ UNCHANGED charger \/ PlugOut \/ AdcMessage \/ Timeout
              \/ EdgeMessage \/ Finish \/ UsbUpdate
  BY DEF Next, Debounce, Settle, PlugIn, Convert, Edge, UsbTimeout, UsbConvert
<1> QED BY <1>1, <1>2, <1>3, <1>4, <1>5, <1>6, <1>7, <1>8

\* What a step makes of the conversions of the battery's thermistor.
LEMMA AdcTyped ==
    ASSUME adc \in Adc, Next
    PROVE  adc' \in Adc
<1>1. CASE UNCHANGED adc
  BY <1>1
<1>2. CASE adc' = [adc EXCEPT !.asked = TRUE]
  BY <1>2 DEF Adc
<1>3. CASE Convert
  <2>1. PICK v \in Values : adc' = [adc EXCEPT !.asked = FALSE, !.value = v, !.msgs = @ + 1]
    BY <1>3 DEF Convert
  <2>2. adc.msgs < MaxMsgs
    BY <1>3 DEF Convert
  <2>3. adc.msgs + 1 \in 0 .. MaxMsgs
    BY <2>2, Bounds DEF Adc
  <2> QED BY <2>1, <2>3 DEF Adc
<1>4. CASE AdcMessage
  <2>1. adc.msgs > 0 /\ adc' = [adc EXCEPT !.msgs = @ - 1, !.first = FALSE]
    BY <1>4 DEF AdcMessage
  <2>2. adc.msgs - 1 \in 0 .. MaxMsgs
    BY <2>1, Bounds DEF Adc
  <2> QED BY <2>1, <2>2 DEF Adc
<1>5. PlugIn \/ PlugOut \/ Timeout => UNCHANGED adc \/ adc' = [adc EXCEPT !.asked = TRUE]
  BY DEF PlugIn, PlugOut, Timeout
<1>6. Next => UNCHANGED adc \/ Convert \/ AdcMessage \/ PlugIn \/ PlugOut \/ Timeout
  BY DEF Next, Debounce, Settle, Edge, EdgeMessage, Finish, UsbTimeout, UsbConvert, UsbUpdate
<1> QED BY <1>1, <1>2, <1>3, <1>4, <1>5, <1>6

\* What a step makes of the connector.
LEMMA UsbTyped ==
    ASSUME usb \in Usb, adp \in Adp, Next
    PROVE  usb' \in Usb
<1>1. CASE UNCHANGED usb
  BY <1>1
<1>2. CASE PlugIn
  <2>1. usb' = usb \/ usb' = [usb EXCEPT !.plug = TRUE, !.asked = TRUE]
    BY <1>2 DEF PlugIn
  <2> QED BY <2>1 DEF Usb
<1>3. CASE PlugOut
  <2>1. usb' = usb \/ usb' = Cleared(usb)
    BY <1>3 DEF PlugOut, UsbOut
  <2> QED BY <2>1 DEF Cleared, Usb
<1>4. CASE UsbTimeout \/ UsbConvert
  BY <1>4 DEF UsbTimeout, UsbConvert, Usb
<1>5. CASE UsbUpdate
  <2>1. \/ usb.skip > 0 /\ usb' = [usb EXCEPT !.msg = FALSE, !.skip = @ - 1]
        \/ usb' = Checked([usb EXCEPT !.msg = FALSE])
    BY <1>5 DEF UsbUpdate
  <2>2. CASE usb' = Checked([usb EXCEPT !.msg = FALSE])
    BY <2>2, CheckedTyped
  <2>3. CASE usb.skip > 0 /\ usb' = [usb EXCEPT !.msg = FALSE, !.skip = @ - 1]
    <3>1. usb.skip - 1 \in 0 .. Skip
      BY <2>3, Bounds DEF Usb
    <3> QED BY <2>3, <3>1 DEF Usb
  <2> QED BY <2>1, <2>2, <2>3
<1>6. Next => UNCHANGED usb \/ PlugIn \/ PlugOut \/ UsbTimeout \/ UsbConvert \/ UsbUpdate
  BY DEF Next, Debounce, Settle, Convert, AdcMessage, Timeout, Edge, EdgeMessage, Finish
<1> QED BY <1>1, <1>2, <1>3, <1>4, <1>5, <1>6

\* What a step makes of the adapter.
LEMMA AdpTyped ==
    ASSUME adp \in Adp, Next
    PROVE  adp' \in Adp
<1>1. CASE UNCHANGED adp
  BY <1>1
<1>2. CASE Debounce \/ Settle
  BY <1>2 DEF Debounce, Settle, Adp
<1>3. CASE PlugIn \/ PlugOut
  BY <1>3 DEF PlugIn, PlugOut, Adp
<1>4. Next => UNCHANGED adp \/ Debounce \/ Settle \/ PlugIn \/ PlugOut
  BY DEF Next, Convert, AdcMessage, Timeout, Edge, EdgeMessage, Finish, UsbTimeout, UsbConvert,
         UsbUpdate
<1> QED BY <1>1, <1>2, <1>3, <1>4

\* What a step makes of the status pin.
LEMMA PinTyped ==
    ASSUME pin \in Pin, Next
    PROVE  pin' \in Pin
<1>1. CASE UNCHANGED pin
  BY <1>1
<1>2. CASE Edge
  <2>1. pin' = [high |-> ~pin.high, edges |-> Append(pin.edges, ~pin.high)]
    BY <1>2 DEF Edge
  <2>2. Append(pin.edges, ~pin.high) \in Seq(BOOLEAN)
    BY DEF Pin
  <2> QED BY <2>1, <2>2 DEF Pin
<1>3. CASE EdgeMessage
  <2>1. pin.edges # << >> /\ pin' = [pin EXCEPT !.edges = Tail(@)]
    BY <1>3 DEF EdgeMessage
  <2>2. Tail(pin.edges) \in Seq(BOOLEAN)
    BY <2>1 DEF Pin
  <2> QED BY <2>1, <2>2 DEF Pin
<1>4. Next => UNCHANGED pin \/ Edge \/ EdgeMessage
  BY DEF Next, Debounce, Settle, PlugIn, PlugOut, Convert, AdcMessage, Timeout, Finish,
         UsbTimeout, UsbConvert, UsbUpdate
<1> QED BY <1>1, <1>2, <1>3, <1>4

\* Every step keeps the types.
LEMMA NextTyped == TypeOK /\ [Next]_vars => TypeOK'
<1> SUFFICES ASSUME TypeOK, [Next]_vars PROVE TypeOK'
  OBVIOUS
<1>1. CASE UNCHANGED vars
  BY <1>1 DEF vars, TypeOK
<1>2. CASE Next
  <2>1. pin.high \in BOOLEAN
    BY TypeParts DEF Pin
  <2> QED BY <1>2, <2>1, TypeParts, TypePartsNext, ChargerTyped, AdcTyped, UsbTyped, AdpTyped, PinTyped
<1> QED BY <1>1, <1>2

\* Every variable keeps its type.
THEOREM TypeCorrect == Spec => []TypeOK
BY InitTyped, NextTyped, PTL DEF Spec

-----------------------------------------------------------------------------
(* What is shown.                                                          *)

\* In the initial state the charger is off and says so.
LEMMA InitShown == Init => Shown
<1> SUFFICES ASSUME Init PROVE Shown
  OBVIOUS
<1>1. ~charger.enable /\ charger.state = "NO_CHARGE"
  BY DEF Init
<1> QED BY <1>1 DEF Shown, ShownIsSo

\* A step of the task that leaves the adapter alone.
LEMMA StaysShown ==
    ASSUME Shown, charger \in Charger, charger' \in Charger, UNCHANGED adp,
           \/ adp.det # "OUT" /\ (Agrees(charger) => Agrees(charger'))
           \/ charger'.enable = charger.enable /\ charger'.state = charger.state
           \/ /\ charger'.enable = charger.enable /\ charger'.state = "NO_CHARGE"
              /\ adp.det = "OUT"
           \/ ~charger'.enable /\ charger'.state # "CHARGING"
    PROVE  Shown'
<1>1. CASE charger'.enable = charger.enable /\ charger'.state = charger.state
  BY <1>1 DEF Shown, ShownIsSo
<1>2. CASE ~charger'.enable /\ charger'.state # "CHARGING"
  BY <1>2 DEF Shown, ShownIsSo
<1>3. CASE adp.det # "OUT" /\ (Agrees(charger) => Agrees(charger'))
  <2>1. Agrees(charger)
    BY <1>3 DEF Shown, ShownIsSo, Agrees
  <2>2. Agrees(charger')
    BY <1>3, <2>1
  <2> QED BY <1>3, <2>2 DEF Shown, ShownIsSo, Agrees
<1>4. CASE charger'.enable = charger.enable /\ charger'.state = "NO_CHARGE" /\ adp.det = "OUT"
  BY <1>2, <1>4 DEF Shown, ShownIsSo
<1> QED BY <1>1, <1>2, <1>3, <1>4

\* Without bounces the debouncing ends in the other status, and the plug-out
\* callback is on its way when the adapter is gone.
LEMMA NextShown == Bounces = FALSE /\ TypeOK /\ Shown /\ [Next]_vars => Shown'
<1> SUFFICES ASSUME Bounces = FALSE, TypeOK, Shown, [Next]_vars PROVE Shown'
  OBVIOUS
<1>0. charger \in Charger /\ charger' \in Charger /\ adp \in Adp /\ pin.high \in BOOLEAN
  BY TypeParts, TypePartsNext, NextTyped DEF Pin
<1>1. CASE Debounce
  BY <1>0, <1>1 DEF Debounce, Shown, ShownIsSo, Charger, Adp
<1>2. CASE Settle
  BY <1>0, <1>2 DEF Settle, Shown, ShownIsSo, Charger, Adp
<1>3. CASE PlugIn
  BY <1>0, <1>3 DEF PlugIn, Shown, ShownIsSo, Charger, Adp
<1>4. CASE PlugOut
  <2> DEFINE c == [charger EXCEPT !.enable = FALSE]
  <2>1. c \in Charger /\ ~c.enable /\ "NO_CHARGE" \in States
    BY <1>0 DEF Charger, States
  <2>2. charger' = Enter(c, "NO_CHARGE")
    BY <1>4 DEF PlugOut
  <2> HIDE DEF c
  <2>3. ~charger'.enable /\ charger'.state = "NO_CHARGE"
    BY <2>1, <2>2, EnterKeeps
  <2> QED BY <2>3 DEF Shown, ShownIsSo
<1>5. CASE UNCHANGED <<charger, adp>>
  BY <1>5 DEF Shown, ShownIsSo
<1>6. CASE AdcMessage
  <2>1. CASE charger' = charger
    BY <1>0, <1>6, <2>1, StaysShown DEF AdcMessage
  <2>2. CASE charger' # charger
    <3>1. PICK c \in Judged(charger) :
              charger' = IF adp.det = "IN"
                         THEN AdcUpdate(c, adc.value, ConnectorNormal(usb)) ELSE c
      BY <1>6, <2>2 DEF AdcMessage
    <3>2. c \in Charger /\ c.enable = charger.enable /\ c.state = charger.state
      BY <1>0 DEF Judged, Charger
    <3>3. CASE adp.det = "IN"
      <4>1. charger' = AdcUpdate(c, adc.value, ConnectorNormal(usb))
        BY <3>1, <3>3
      <4>2. Agrees(c) => Agrees(charger')
        BY <3>2, <3>3, <4>1, UpdateAgrees
      <4>3. UNCHANGED adp
        BY <1>6 DEF AdcMessage
      <4> QED BY <1>0, <3>2, <3>3, <4>2, <4>3, StaysShown DEF Agrees
    <3>4. CASE adp.det # "IN"
      BY <1>0, <1>6, <3>1, <3>2, <3>4, StaysShown DEF AdcMessage
    <3> QED BY <3>3, <3>4
  <2> QED BY <2>1, <2>2
<1>7. CASE Timeout
  <2>0. UNCHANGED adp
    BY <1>7 DEF Timeout
  <2>1. CASE adp.det = "IN"
    <3>1. PICK low \in BOOLEAN : charger' = PeriodCheck(charger, low)
      BY <1>7, <2>1 DEF Timeout
    <3>2. Agrees(charger) => Agrees(charger')
      BY <1>0, <3>1, PeriodAgrees
    <3> QED BY <1>0, <2>0, <2>1, <3>2, StaysShown
  <2>2. CASE adp.det # "IN"
    BY <1>0, <1>7, <2>0, <2>2, StaysShown DEF Timeout
  <2> QED BY <2>1, <2>2
<1>8. CASE EdgeMessage
  <2>1. charger'.enable = charger.enable /\ charger'.state = charger.state /\ UNCHANGED adp
    BY <1>0, <1>8 DEF EdgeMessage, Charger
  <2> QED BY <1>0, <2>1, StaysShown
<1>9. CASE Finish
  <2> DEFINE c == [charger EXCEPT !.finish = FALSE]
             f == SetSpeed(c, "0.5C")
             e == [f EXCEPT !.enable = FALSE]
  <2>1. c \in Charger /\ c.enable = charger.enable /\ c.state = charger.state
    BY <1>0 DEF Charger
  <2>2. charger' = IF c.state = "CHARGING" THEN Enter(e, "CHARGE_FINISH") ELSE c
    BY <1>9 DEF Finish
  <2> HIDE DEF c
  <2>3. f \in Charger
    BY <2>1, SetSpeedKeeps
  <2> HIDE DEF f
  <2>4. e \in Charger /\ ~e.enable /\ "CHARGE_FINISH" \in States
    BY <2>3 DEF Charger, States
  <2> HIDE DEF e
  <2>5. UNCHANGED adp
    BY <1>9 DEF Finish
  <2>6. CASE c.state = "CHARGING"
    <3>1. ~charger'.enable /\ charger'.state = "CHARGE_FINISH"
      BY <2>2, <2>4, <2>6, EnterKeeps
    <3> QED BY <1>0, <2>5, <3>1, StaysShown
  <2>7. CASE c.state # "CHARGING"
    BY <1>0, <2>1, <2>2, <2>5, <2>7, StaysShown
  <2> QED BY <2>6, <2>7
<1>10. CASE UsbUpdate
  <2>0. UNCHANGED adp
    BY <1>10 DEF UsbUpdate
  <2>1. CASE charger' = charger
    BY <1>0, <2>0, <2>1, StaysShown
  <2>2. CASE charger' = AdcUpdate(charger, adc.value, ConnectorNormal(usb'))
    <3>1. /\ adp.det # "OUT" /\ Agrees(charger) => Agrees(charger')
          /\ adp.det = "OUT" =>
                \/ /\ charger'.enable = charger.enable
                   /\ charger'.state \in {charger.state, "NO_CHARGE"}
                \/ ~charger'.enable /\ charger'.state = "ERROR"
      BY <1>0, <2>2, UpdateAgrees
    <3> QED BY <1>0, <2>0, <3>1, StaysShown
  <2>3. charger' = charger \/ charger' = AdcUpdate(charger, adc.value, ConnectorNormal(usb'))
    BY <1>10 DEF UsbUpdate
  <2> QED BY <2>1, <2>2, <2>3
<1>11. CASE UNCHANGED vars
  BY <1>5, <1>11 DEF vars
<1>12. Convert \/ Edge \/ UsbTimeout \/ UsbConvert => UNCHANGED <<charger, adp>>
  BY DEF Convert, Edge, UsbTimeout, UsbConvert
<1> QED
  BY <1>1, <1>2, <1>3, <1>4, <1>5, <1>6, <1>7, <1>8, <1>9, <1>10, <1>11, <1>12 DEF Next

\* For any thresholds and readings the state that is shown is what the enable
\* pin does, as long as an adapter that leaves has gone when the debouncing
\* ends. (Bounces: it may come back, and the statement is false.)
THEOREM ShownTruly ==
    ASSUME Bounces = FALSE PROVE Spec => []ShownIsSo
<1>1. Init => TypeOK /\ Shown
  BY InitTyped, InitShown
<1>2. TypeOK /\ Shown /\ [Next]_vars => (TypeOK /\ Shown)'
  BY NextTyped, NextShown
<1>3. TypeOK /\ Shown => ShownIsSo
  BY DEF Shown
<1> QED BY <1>1, <1>2, <1>3, PTL DEF Spec

-----------------------------------------------------------------------------
(* The battery is full.                                                    *)

\* The edges are told in their order.
LEMMA LastEdge ==
    ASSUME NEW s \in Seq(BOOLEAN), NEW b \in BOOLEAN
    PROVE  /\ Append(s, b) \in Seq(BOOLEAN) /\ Append(s, b) # << >>
           /\ Append(s, b)[Len(Append(s, b))] = b
           /\ s # << >> => Head(s) = s[1] /\ Tail(s) \in Seq(BOOLEAN)
           /\ s # << >> /\ Tail(s) # << >> => Tail(s)[Len(Tail(s))] = s[Len(s)]
           /\ s # << >> /\ Tail(s) = << >> => Head(s) = s[Len(s)]
OBVIOUS

\* In the initial state nothing is.
LEMMA InitFull == Init => Full
BY DEF Init, Full, FullForReason

\* Edges come and go in order: when the last is told that the pin has fallen,
\* the timer is stopped, and only an edge makes it fall.
LEMMA NextFull == TypeOK /\ Full /\ [Next]_vars => Full'
<1> SUFFICES ASSUME TypeOK, Full, [Next]_vars PROVE Full'
  OBVIOUS
<1>0. charger \in Charger /\ charger' \in Charger /\ pin \in Pin /\ pin.high \in BOOLEAN
  BY TypeParts, TypePartsNext, NextTyped DEF Pin
<1>1. CASE UNCHANGED pin /\ (charger'.finish => charger.finish \/ pin.high)
  BY <1>1 DEF Full, FullForReason
<1>2. CASE Edge
  <2>1. /\ pin' = [high |-> ~pin.high, edges |-> Append(pin.edges, ~pin.high)]
    BY <1>2 DEF Edge
  <2>2. pin.edges \in Seq(BOOLEAN)
    BY <1>0 DEF Pin
  <2>3. (~pin.high) \in BOOLEAN
    OBVIOUS
  <2>4. /\ pin'.edges # << >> /\ pin'.edges[Len(pin'.edges)] = ~pin.high
        /\ pin'.high = ~pin.high
    BY <2>1, <2>2, <2>3, LastEdge
  <2> QED BY <2>4 DEF Full, FullForReason
<1>3. CASE EdgeMessage
  <2>1. /\ pin.edges # << >> /\ pin' = [pin EXCEPT !.edges = Tail(@)]
        /\ charger'.finish => Head(pin.edges)
    BY <1>0, <1>3 DEF EdgeMessage, Charger
  <2>2. pin.edges \in Seq(BOOLEAN)
    BY <1>0 DEF Pin
  <2>3. pin'.high = pin.high /\ pin'.edges = Tail(pin.edges)
    BY <1>0, <2>1 DEF Pin
  <2> QED BY <2>1, <2>2, <2>3, LastEdge DEF Full, FullForReason
<1>4. CASE UNCHANGED charger /\ UNCHANGED pin
  BY <1>4 DEF Full, FullForReason
<1>5. CASE PlugOut
  <2> DEFINE c == [charger EXCEPT !.enable = FALSE]
  <2>1. c \in Charger /\ c.finish = charger.finish /\ "NO_CHARGE" \in States
    BY <1>0 DEF Charger, States
  <2>2. charger' = Enter(c, "NO_CHARGE") /\ UNCHANGED pin
    BY <1>5 DEF PlugOut
  <2> HIDE DEF c
  <2> QED BY <1>1, <2>1, <2>2, EnterKeeps
<1>6. CASE AdcMessage
  <2>1. UNCHANGED pin
    BY <1>6 DEF AdcMessage
  <2>2. CASE charger' # charger
    <3>1. PICK c \in Judged(charger) :
              charger' = IF adp.det = "IN"
                         THEN AdcUpdate(c, adc.value, ConnectorNormal(usb)) ELSE c
      BY <1>6, <2>2 DEF AdcMessage
    <3>2. c \in Charger /\ c.finish = charger.finish
      BY <1>0 DEF Judged, Charger
    <3>3. charger'.finish = charger.finish
      BY <3>1, <3>2, UpdateAgrees
    <3> QED BY <1>1, <2>1, <3>3
  <2> QED BY <1>4, <2>1, <2>2
<1>7. CASE Timeout
  <2>1. UNCHANGED pin
    BY <1>7 DEF Timeout
  <2>2. CASE adp.det = "IN"
    <3>1. PICK low \in BOOLEAN : charger' = PeriodCheck(charger, low)
      BY <1>7, <2>2 DEF Timeout
    <3> QED BY <1>0, <1>1, <2>1, <3>1, PeriodAgrees
  <2>3. CASE adp.det # "IN"
    BY <1>4, <1>7, <2>1, <2>3 DEF Timeout
  <2> QED BY <2>2, <2>3
<1>8. CASE Finish
  <2> DEFINE c == [charger EXCEPT !.finish = FALSE]
             f == SetSpeed(c, "0.5C")
             e == [f EXCEPT !.enable = FALSE]
  <2>1. c \in Charger /\ ~c.finish
    BY <1>0 DEF Charger
  <2>2. charger' = IF c.state = "CHARGING" THEN Enter(e, "CHARGE_FINISH") ELSE c
    BY <1>8 DEF Finish
  <2> HIDE DEF c
  <2>3. f \in Charger /\ ~f.finish
    BY <2>1, SetSpeedKeeps
  <2> HIDE DEF f
  <2>4. e \in Charger /\ ~e.finish /\ "CHARGE_FINISH" \in States
    BY <2>3 DEF Charger, States
  <2> HIDE DEF e
  <2>5. ~charger'.finish
    BY <2>1, <2>2, <2>4, EnterKeeps
  <2>6. UNCHANGED pin
    BY <1>8 DEF Finish
  <2> QED BY <1>1, <2>5, <2>6
<1>9. CASE UsbUpdate
  <2>1. UNCHANGED pin
    BY <1>9 DEF UsbUpdate
  <2>2. charger' = charger \/ charger' = AdcUpdate(charger, adc.value, ConnectorNormal(usb'))
    BY <1>9 DEF UsbUpdate
  <2>3. charger'.finish = charger.finish
    BY <1>0, <2>2, UpdateAgrees
  <2> QED BY <1>1, <2>1, <2>3
<1>10. UNCHANGED vars => UNCHANGED charger /\ UNCHANGED pin
  BY DEF vars
<1>11. Debounce \/ Settle \/ PlugIn \/ Convert \/ UsbTimeout \/ UsbConvert
          => UNCHANGED charger /\ UNCHANGED pin
  BY DEF Debounce, Settle, PlugIn, Convert, UsbTimeout, UsbConvert
<1> QED BY <1>2, <1>3, <1>4, <1>5, <1>6, <1>7, <1>8, <1>9, <1>10, <1>11 DEF Next

\* For any thresholds, readings and edges of the pin a battery is never called
\* full on account of an edge that was taken back and told.
THEOREM FullTruly == Spec => []FullForReason
<1>1. Init => TypeOK /\ Full
  BY InitTyped, InitFull
<1>2. TypeOK /\ Full /\ [Next]_vars => (TypeOK /\ Full)'
  BY NextTyped, NextFull
<1>3. TypeOK /\ Full => FullForReason
  BY DEF Full
<1> QED BY <1>1, <1>2, <1>3, PTL DEF Spec

=============================================================================

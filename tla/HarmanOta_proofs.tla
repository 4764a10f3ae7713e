-------------------------- MODULE HarmanOta_proofs --------------------------
(***************************************************************************)
(* HarmanOta for packages, buffers and packets of any size: types, what is *)
(* asked for, the timer that watches a session, what stands before the     *)
(* breakpoint, and what the boot code may take.                            *)
(*                                                                         *)
(* RequestExact is about a session in the middle of an image.  It is       *)
(* inductive together with how the session gets there (Place): the table   *)
(* is counted from its start, an image from its header, and a session that *)
(* is resumed starts from a breakpoint whose three numbers agree (Noted).  *)
(*                                                                         *)
(* What is in flash is said in two layers.  Tracked holds whatever writes  *)
(* do: the images before the session's and before the breakpoint's are     *)
(* done, nothing of the old bank is left in its own as far as it is        *)
(* written, and the first image is then not ready, so that only the last   *)
(* check makes the bank bootable.  Exact is for writes that work: all of   *)
(* that is of the one version on record.                                   *)
(***************************************************************************)
EXTENDS HarmanOta, SequenceTheorems, TLAPS

Manager == [on : BOOLEAN, st : {"protocol", "package", "table", "header", "payload", "finish"},
            cur : Nat, req : Nat, packets : 0 .. Report + 1, errors : 0 .. Report + 1,
            misses : 0 .. Misses - 1, img : 0 .. Images - 1, rel : Nat, total : Nat,
            buf : Seq(Nat), ver : Versions \cup {0}, vpsrc : BOOLEAN]
Timers == [check : BOOLEAN, delay : {"none", "disconn", "reset"}]
Settings == [offset : Nat, img : 0 .. Images - 1, rel : 0 .. Size,
             record : Versions \cup {0}, vp : BOOLEAN]
Bank == [cell : [0 .. Images - 1 -> Cells], ready : [0 .. Images - 1 -> BOOLEAN], tmp : Cells]

\* Where in the package a session is.
Place(m) ==
    /\ m.st \in {"protocol", "package"} => m.total = 0
    /\ m.st = "table" /\ m.rel < TableSize => m.total = 0 /\ m.req = TableSize - m.rel
    /\ m.st = "header" => m.rel = 0 /\ m.total = m.img * Size
    /\ m.st = "payload" =>
          /\ m.rel <= Size
          /\ m.total = m.img * Size + m.rel
          /\ m.rel < Size => m.cur = Off(m.img) + m.rel /\ m.req = Size - m.rel

Noted(n) == n.offset # 0 => n.offset = n.img * Size + n.rel

Watches(m, t) == m.on /\ m.st # "protocol" => t.check \/ t.delay # "none"

Session(m) == m \in Manager /\ Len(m.buf) < BufferSize /\ Place(m)

Inv ==
    /\ Session(ota)
    /\ timer \in Timers
    /\ nv \in Settings /\ Noted(nv)
    /\ flash \in Bank
    /\ Watches(ota, timer)

-----------------------------------------------------------------------------
(* The operators.                                                          *)

LEMMA Zero == /\ 0 \in 0 .. Images - 1 /\ 0 \in 0 .. Size /\ 0 \in 0 .. Report + 1
              /\ 0 \in 0 .. Misses - 1 /\ 0 \in Versions \cup {0}
BY HarmanOtaAssumption

LEMMA OffDoes ==
    /\ \A i \in Nat : Off(i) \in Nat
    /\ \A i \in Nat : (i + 1) * Size = i * Size + Size
    /\ \A i \in Nat : i * Size \in Nat
    /\ Control \in Nat
BY HarmanOtaAssumption DEF Off, Control

\* r is m that asks for req units from cur on.
Asked(r, m, cur, req) ==
    /\ r \in Manager
    /\ r.cur = cur /\ r.req = req
    /\ r.on = m.on /\ r.st = m.st /\ r.img = m.img /\ r.rel = m.rel /\ r.total = m.total
    /\ r.buf = m.buf /\ r.ver = m.ver /\ r.vpsrc = m.vpsrc

LEMMA AskDoes ==
    ASSUME NEW m \in Manager, NEW cur \in Nat, NEW req \in Nat
    PROVE  Asked(Ask(m, cur, req), m, cur, req)
BY Zero DEF Asked, Ask, Manager

LEMMA ClearDoes ==
    ASSUME NEW n \in Settings
    PROVE  Clear(n) \in Settings /\ Noted(Clear(n))
<1>1. Clear(n) \in Settings
      BY Zero DEF Clear, Settings
<1>2. Clear(n).offset = 0
      BY DEF Clear, Settings
<1>3. QED
      BY <1>1, <1>2 DEF Noted

LEMMA SoonDoes ==
    ASSUME NEW t \in Timers
    PROVE  /\ [t EXCEPT !.delay = Soon(@)] \in Timers
           /\ [t EXCEPT !.delay = Soon(@)].delay # "none"
           /\ [check |-> FALSE, delay |-> Soon(t.delay)] \in Timers
           /\ Soon(t.delay) # "none"
BY DEF Soon, Timers

LEMMA IdleDoes == \A b \in BOOLEAN : Session([Idle EXCEPT !.vpsrc = b])
<1> SUFFICES ASSUME NEW b \in BOOLEAN PROVE Session([Idle EXCEPT !.vpsrc = b])
    OBVIOUS
<1>1. << >> \in Seq(Nat) /\ Len(<< >>) = 0
      OBVIOUS
<1>2. [Idle EXCEPT !.vpsrc = b] \in Manager
      BY <1>1, Zero DEF Idle, Manager
<1>3. Place([Idle EXCEPT !.vpsrc = b])
      BY DEF Idle, Place
<1>4. QED
      BY <1>1, <1>2, <1>3, HarmanOtaAssumption DEF Session, Idle

LEMMA RestDoes == /\ Session(Idle) /\ ~Idle.on
                  /\ [check |-> FALSE, delay |-> "none"] \in Timers
<1>1. << >> \in Seq(Nat) /\ Len(<< >>) = 0
      OBVIOUS
<1>2. Idle \in Manager /\ ~Idle.on
      BY <1>1, Zero DEF Idle, Manager
<1>3. Place(Idle)
      BY DEF Idle, Place
<1>4. [check |-> FALSE, delay |-> "none"] \in Timers
      BY DEF Timers
<1>5. QED
      BY <1>1, <1>2, <1>3, <1>4, HarmanOtaAssumption DEF Session, Idle

LEMMA WrittenDoes ==
    ASSUME NEW cells \in Cells, NEW i \in Nat, NEW pos \in Int, NEW data \in Seq(Nat),
           NEW ver \in Versions \cup {0}, NEW res
    PROVE  Written(cells, i, pos, data, ver, res) \in Cells
BY DEF Written, Cells

LEMMA WriteDoes ==
    ASSUME NEW f \in Bank, NEW i \in 0 .. Images - 1, NEW pos \in Int, NEW data \in Seq(Nat),
           NEW ver \in Versions \cup {0}, NEW res
    PROVE  Write(f, i, pos, data, ver, res) \in Bank
<1>1. f.tmp \in Cells /\ f.cell[i] \in Cells /\ i \in Nat
      BY HarmanOtaAssumption DEF Bank
<1>2. /\ Written(f.tmp, i, pos, data, ver, res) \in Cells
      /\ Written(f.cell[i], i, pos, data, ver, res) \in Cells
      BY <1>1, WrittenDoes
<1>3. [q \in 0 .. Size - 1 |-> Bad] \in Cells
      BY DEF Cells
<1>4. QED
      BY <1>2, <1>3 DEF Write, Bank

LEMMA SaveDoes ==
    ASSUME NEW n \in Settings, NEW m, m.img \in 0 .. Images - 1,
           NEW rel \in 0 .. Size, NEW total \in Nat, total = m.img * Size + rel, NEW res
    PROVE  Save(n, m, rel, total, res) \in Settings /\ Noted(Save(n, m, rel, total, res))
<1> DEFINE w == [n EXCEPT !.vp = IF Vp /\ m.img = 0 THEN rel = Size ELSE @]
<1>1. w \in Settings
      BY DEF Settings
<1> HIDE DEF w
<1>2. Clear(w) \in Settings /\ Noted(Clear(w))
      BY <1>1, ClearDoes
<1>3. /\ [w EXCEPT !.offset = total, !.img = m.img, !.rel = rel] \in Settings
      /\ Noted([w EXCEPT !.offset = total, !.img = m.img, !.rel = rel])
      BY <1>1 DEF Settings, Noted
<1>4. Save(n, m, rel, total, res) = IF res = "ok" THEN [w EXCEPT !.offset = total, !.img = m.img, !.rel = rel]
                                    ELSE Clear(w)
      BY DEF Save, w
<1>5. QED
      BY <1>2, <1>3, <1>4

-----------------------------------------------------------------------------
(* The parts of the handlers.                                              *)

\* An image that has come to its end.
Ended(m) == m.total = m.img * Size + Size /\ m.rel = Size

\* Whatever the outcome of the check, the session is in its place.
LEMMA EndCheckKeeps ==
    ASSUME NEW m, Session(m), Ended(m),
           NEW f \in Bank, NEW n \in Settings, Noted(n),
           NEW t \in Timers, t.check, NEW res, EndCheck(m, f, n, t, res)
    PROVE  Inv'
<1>1. m \in Manager
      BY DEF Session
<1>2. /\ [t EXCEPT !.delay = Soon(@)] \in Timers
      /\ [t EXCEPT !.delay = Soon(@)].delay # "none"
      /\ [check |-> FALSE, delay |-> Soon(t.delay)] \in Timers
      /\ Soon(t.delay) # "none"
      BY SoonDoes
<1>3. Clear(n) \in Settings /\ Noted(Clear(n))
      BY ClearDoes
<1>4. CASE ~Sound(f.cell[m.img])
  <2>1. /\ ota' = m /\ flash' = f /\ nv' = Clear(n)
        /\ timer' = [t EXCEPT !.delay = Soon(@)]
        BY <1>4 DEF EndCheck
  <2>2. QED
        BY <1>2, <1>3, <2>1 DEF Inv, Watches
<1>5. CASE Sound(f.cell[m.img])
  <2> DEFINE copying == Vp /\ m.img = 0 /\ n.vp
             f1      == IF copying THEN Copies(m, f, res) ELSE f
             failed  == copying /\ (~m.vpsrc \/ res # "ok" \/ ~Sound(f1.cell[0]))
             last    == m.img + 1 = Images
             n1      == IF copying THEN [n EXCEPT !.vp = FALSE] ELSE n
  <2>1. /\ flash' = IF last THEN [f1 EXCEPT !.ready = [j \in 0 .. Images - 1 |-> TRUE]] ELSE f1
        /\ nv' = IF failed \/ last THEN Clear(n1) ELSE n1
        /\ IF last
           THEN /\ ota' = [Ask(m, Images * Size, 0) EXCEPT !.st = "finish", !.img = 0, !.rel = 0]
                /\ timer' = [check |-> FALSE, delay |-> Soon(t.delay)]
           ELSE /\ ota' = [Ask(m, Off(m.img + 1) + Control, 1) EXCEPT
                              !.st = "header", !.img = m.img + 1, !.rel = 0]
                /\ timer' = [t EXCEPT !.delay = IF failed THEN Soon(@) ELSE @]
        BY <1>5 DEF EndCheck
  <2>2. f1 \in Bank
    <3>1. [q \in 0 .. Size - 1 |-> Bad] \in Cells
          BY DEF Cells
    <3>2. QED
          BY <3>1 DEF Copies, Bank
  <2>3. n1 \in Settings /\ Noted(n1)
        BY DEF Settings, Noted
  <2>4. Clear(n1) \in Settings /\ Noted(Clear(n1))
        BY <2>3, ClearDoes
  <2> HIDE DEF copying, f1, failed, n1
  <2>5. flash' \in Bank
        BY <2>1, <2>2 DEF Bank
  <2>6. nv' \in Settings /\ Noted(nv')
        BY <2>1, <2>3, <2>4
  <2>7. timer' \in Timers /\ (timer'.check \/ timer'.delay # "none")
        BY <1>2, <2>1 DEF Timers
  <2>8. Session(ota')
    <3>1. CASE last
      <4> DEFINE c == Images * Size
      <4>1. c \in Nat /\ 0 \in Nat
            BY HarmanOtaAssumption
      <4>2. ota' = [Ask(m, c, 0) EXCEPT !.st = "finish", !.img = 0, !.rel = 0]
            BY <2>1, <3>1
      <4> HIDE DEF c
      <4>3. Asked(Ask(m, c, 0), m, c, 0)
            BY <1>1, <4>1, AskDoes
      <4>4. ota' \in Manager /\ ota'.st = "finish" /\ ota'.buf = m.buf
            BY <4>2, <4>3, Zero DEF Asked, Manager
      <4>5. QED
            BY <4>4 DEF Session, Place
    <3>2. CASE ~last
      <4>1. m.img \in Nat /\ m.img + 1 \in 0 .. Images - 1
        <5>1. m.img \in 0 .. Images - 1
              BY <1>1 DEF Manager
        <5>2. m.img + 1 # Images
              BY <3>2
        <5>3. QED
              BY <5>1, <5>2, HarmanOtaAssumption
      <4> DEFINE c == Off(m.img + 1) + Control
      <4>2. c \in Nat /\ 1 \in Nat
            BY <4>1, OffDoes
      <4>4. ota' = [Ask(m, c, 1) EXCEPT !.st = "header", !.img = m.img + 1, !.rel = 0]
            BY <2>1, <3>2
      <4> HIDE DEF c
      <4>3. Asked(Ask(m, c, 1), m, c, 1)
            BY <1>1, <4>2, AskDoes
      <4>5. /\ ota' \in Manager /\ ota'.st = "header" /\ ota'.buf = m.buf
            /\ ota'.rel = 0 /\ ota'.img = m.img + 1 /\ ota'.total = m.total
            BY <4>1, <4>3, <4>4 DEF Asked, Manager
      <4>6. ota'.total = ota'.img * Size
            BY <4>1, <4>5, OffDoes DEF Ended
      <4>7. QED
            BY <4>5, <4>6 DEF Session, Place
    <3>3. QED
          BY <3>1, <3>2
  <2>9. QED
        BY <2>5, <2>6, <2>7, <2>8 DEF Inv, Watches
<1>6. QED
      BY <1>4, <1>5

LEMMA ExitKeeps ==
    ASSUME Inv, Exit, nv' \in Settings, Noted(nv'), flash' \in Bank
    PROVE  Inv'
<1>1. Session(ota') /\ ~ota'.on
  <2>1. ota.vpsrc \in BOOLEAN
        BY DEF Inv, Session, Manager
  <2>2. ota' = [Idle EXCEPT !.vpsrc = ota.vpsrc]
        BY DEF Exit
  <2>3. QED
        BY <2>1, <2>2, IdleDoes DEF Idle
<1>2. timer' \in Timers
      BY DEF Exit, Inv, Timers
<1>3. QED
      BY <1>1, <1>2 DEF Inv, Watches

\* The manager of a session that has counted a packet of n units from o on.
Took(m, o, n) ==
    /\ m \in Manager /\ o \in Nat /\ n \in 1 .. PacketMax
    /\ o = ota.cur /\ m.cur = o + n
    /\ m.st = ota.st /\ m.req = ota.req /\ m.rel = ota.rel /\ m.total = ota.total
    /\ m.img = ota.img /\ m.buf = ota.buf /\ m.ver = ota.ver /\ m.on

\* A session that goes on, with its timer running.
LEMMA GoesOn ==
    ASSUME Session(ota'), timer' \in Timers, timer'.check \/ timer'.delay # "none",
           nv' \in Settings, Noted(nv'), flash' \in Bank
    PROVE  Inv'
BY DEF Inv, Watches

LEMMA OnProtocolKeeps ==
    ASSUME Inv, NEW m, NEW o, NEW n, Took(m, o, n), m.st = "protocol",
           NEW t \in Timers, t.check, NEW supported, OnProtocol(m, t, supported)
    PROVE  Inv'
<1>1. CASE supported
  <2> DEFINE r == [m EXCEPT !.st = "package"]
  <2>1. /\ r \in Manager /\ r.buf = m.buf /\ r.st = "package" /\ r.total = m.total
        BY DEF Took, Manager
  <2>2. /\ ota' = Ask(r, 0, 1) /\ timer' = t /\ nv' = nv /\ flash' = flash
        BY <1>1 DEF OnProtocol
  <2> HIDE DEF r
  <2>a. Asked(Ask(r, 0, 1), r, 0, 1)
        BY <2>1, AskDoes
  <2>3. /\ ota' \in Manager /\ ota'.buf = m.buf /\ ota'.st = "package" /\ ota'.total = m.total
        BY <2>1, <2>2, <2>a DEF Asked
  <2>4. Session(ota')
        BY <2>3 DEF Session, Place, Took, Inv
  <2>5. QED
        BY <2>2, <2>4, GoesOn DEF Inv
<1>2. CASE ~supported
  <2>1. Exit /\ nv' = Clear(nv) /\ flash' = flash
        BY <1>2 DEF OnProtocol
  <2>2. nv \in Settings /\ flash \in Bank
        BY DEF Inv
  <2>3. QED
        BY <2>1, <2>2, ClearDoes, ExitKeeps
<1>3. QED
      BY <1>1, <1>2

LEMMA OnPackageKeeps ==
    ASSUME Inv, NEW m, NEW o, NEW n, Took(m, o, n), m.st = "package",
           NEW t \in Timers, t.check, NEW v \in Versions, NEW kind, OnPackage(m, t, v, kind)
    PROVE  Inv'
<1>1. CASE kind = "fits" /\ nv.record \in {0, v}
  <2> DEFINE r == [m EXCEPT !.st = "table", !.ver = v, !.rel = 0]
  <2>1. /\ r \in Manager /\ r.buf = m.buf /\ r.st = "table" /\ r.total = m.total /\ r.rel = 0
        BY DEF Took, Manager
  <2>2. /\ ota' = Ask(r, 1, TableSize) /\ timer' = t /\ flash' = flash
        /\ nv' = IF nv.record = 0 THEN [nv EXCEPT !.record = v] ELSE nv
        BY <1>1 DEF OnPackage
  <2> HIDE DEF r
  <2>3. TableSize \in Nat /\ 1 \in Nat
        BY HarmanOtaAssumption
  <2>a. Asked(Ask(r, 1, TableSize), r, 1, TableSize)
        BY <2>1, <2>3, AskDoes
  <2>4. /\ ota' \in Manager /\ ota'.buf = m.buf /\ ota'.st = "table" /\ ota'.total = m.total
        /\ ota'.rel = 0 /\ ota'.req = TableSize
        BY <2>1, <2>2, <2>a DEF Asked
  <2>5. Session(ota')
        BY <2>3, <2>4 DEF Session, Place, Took, Inv
  <2>6. nv' \in Settings /\ Noted(nv')
        BY <2>2 DEF Inv, Settings, Noted
  <2>7. QED
        BY <2>2, <2>5, <2>6, GoesOn DEF Inv
<1>2. CASE ~(kind = "fits" /\ nv.record \in {0, v})
  <2>1. Exit /\ nv' = Clear(nv) /\ flash' = flash
        BY <1>2 DEF OnPackage
  <2>2. nv \in Settings /\ flash \in Bank
        BY DEF Inv
  <2>3. QED
        BY <2>1, <2>2, ClearDoes, ExitKeeps
<1>3. QED
      BY <1>1, <1>2

\* In the middle of an image, or at its end.
InImage(m) == m.rel <= Size /\ m.total = m.img * Size + m.rel

\* Asked for what is missing of the image, a session is in its place.
LEMMA AskedInPlace ==
    ASSUME NEW m \in Manager, m.st = "payload", Len(m.buf) < BufferSize, InImage(m)
    PROVE  Session(Ask(m, Off(m.img) + m.rel, Size - m.rel))
<1> DEFINE b == Off(m.img)
           c == b + m.rel
           s == Size - m.rel
<1>1. m.img \in Nat /\ m.rel \in Nat /\ Size \in Nat
      BY HarmanOtaAssumption DEF Manager
<1>2. b \in Nat
      BY <1>1, OffDoes
<1>3. m.rel <= Size
      BY DEF InImage
<1> HIDE DEF b
<1>4. c \in Nat /\ s \in Nat
      BY <1>1, <1>2, <1>3
<1>5. c = b + m.rel /\ s = Size - m.rel
      OBVIOUS
<1> HIDE DEF c, s
<1>6. Asked(Ask(m, c, s), m, c, s)
      BY <1>4, AskDoes
<1>7. Place(Ask(m, c, s))
      BY <1>5, <1>6 DEF Asked, Place, InImage, b
<1>8. Session(Ask(m, c, s))
      BY <1>6, <1>7 DEF Asked, Session
<1>9. QED
      BY <1>8 DEF c, s, b

LEMMA OnHeaderKeeps ==
    ASSUME Inv, NEW m, NEW o, NEW n, Took(m, o, n), m.st = "header",
           NEW t \in Timers, t.check, OnHeader(m, t)
    PROVE  Inv'
<1> DEFINE r == [m EXCEPT !.st = "payload", !.buf = << >>]
<1>1. << >> \in Seq(Nat) /\ Len(<< >>) = 0
      OBVIOUS
<1>2. /\ r \in Manager /\ r.st = "payload" /\ r.buf = << >>
      /\ r.img = m.img /\ r.rel = m.rel /\ r.total = m.total
      BY <1>1 DEF Took, Manager
<1>3. m.rel = 0 /\ m.total = m.img * Size
      BY DEF Inv, Session, Place, Took
<1>4. /\ ota' = Ask(r, Off(m.img) + m.rel, Size) /\ timer' = t /\ nv' = nv /\ flash' = flash
      BY DEF OnHeader
<1> HIDE DEF r
<1>5. Session(Ask(r, Off(r.img) + r.rel, Size - r.rel))
  <2> DEFINE w == m.img * Size
  <2>a. m.img \in Nat
        BY HarmanOtaAssumption DEF Took, Manager
  <2>b. w \in Nat
        BY <2>a, OffDoes
  <2>c. w = m.img * Size
        OBVIOUS
  <2> HIDE DEF w
  <2>d. w + 0 = w /\ 0 <= Size /\ 0 < BufferSize
        BY <2>b, HarmanOtaAssumption
  <2>1. m.img * Size + 0 = m.img * Size /\ 0 <= Size /\ 0 < BufferSize
        BY <2>c, <2>d
  <2>2. InImage(r)
        BY <1>2, <1>3, <2>1 DEF InImage
  <2>3. QED
        BY <1>1, <1>2, <2>1, <2>2, AskedInPlace
<1>6. Size - r.rel = Size
      BY <1>2, <1>3, HarmanOtaAssumption
<1>7. QED
      BY <1>2, <1>4, <1>5, <1>6, GoesOn DEF Inv

LEMMA FromTheFirst ==
    ASSUME NEW m \in Manager, Len(m.buf) < BufferSize, m.total = 0,
           m.st = "header", m.img = 0, m.rel = 0
    PROVE  Session(Ask(m, Off(0) + Control, 1))
<1> DEFINE c == Off(0) + Control
<1>1. 0 \in Nat
      OBVIOUS
<1>2. Off(0) \in Nat /\ Control \in Nat
      BY <1>1, OffDoes
<1>3. c \in Nat /\ 1 \in Nat
      BY <1>2
<1> HIDE DEF c
<1>4. Asked(Ask(m, c, 1), m, c, 1)
      BY <1>3, AskDoes
<1>5. 0 * Size = 0
      BY HarmanOtaAssumption
<1>6. Session(Ask(m, c, 1))
      BY <1>4, <1>5 DEF Asked, Session, Place
<1>7. QED
      BY <1>6 DEF c

LEMMA BeginKeeps ==
    ASSUME Inv, NEW m \in Manager, Len(m.buf) < BufferSize, m.total = 0,
           m.st = "table", m.rel = TableSize,
           NEW t \in Timers, t.check, NEW res, Begin(m, t, res)
    PROVE  Inv'
<1>1. nv \in Settings /\ Noted(nv) /\ flash \in Bank
      BY DEF Inv
<1>2. CASE nv.offset # 0
  <2> DEFINE r == [m EXCEPT !.img = nv.img, !.rel = nv.rel, !.total = nv.offset]
  <2>1. /\ r \in Manager /\ r.buf = m.buf /\ r.st = "table"
        /\ r.img = nv.img /\ r.rel = nv.rel /\ r.total = nv.offset
    <3>1. nv.img \in 0 .. Images - 1 /\ nv.rel \in 0 .. Size /\ nv.offset \in Nat
          BY <1>1 DEF Settings
    <3>2. nv.rel \in Nat
          BY <3>1
    <3>3. QED
          BY <3>1, <3>2, ZenonT(60) DEF Manager
  <2>2. /\ nv.rel = Size => EndCheck(r, flash, nv, t, res)
        /\ nv.rel # Size =>
              /\ ota' = Ask([r EXCEPT !.st = "payload", !.buf = << >>],
                            Off(nv.img) + nv.rel, Size - nv.rel)
              /\ timer' = t /\ nv' = nv /\ flash' = flash
        BY <1>2 DEF Begin
  <2> HIDE DEF r
  <2>3. InImage(r)
        BY <1>1, <1>2, <2>1 DEF Noted, Settings, InImage
  <2>4. CASE nv.rel = Size
    <3>1. Ended(r)
          BY <2>1, <2>3, <2>4 DEF Ended, InImage
    <3>2. Place(r)
          BY <2>1, <2>4, HarmanOtaAssumption DEF Place
    <3>3. Session(r)
          BY <2>1, <3>2 DEF Session
    <3>4. QED
          BY <1>1, <2>2, <2>4, <3>1, <3>3, EndCheckKeeps
  <2>5. CASE nv.rel # Size
    <3> DEFINE q == [r EXCEPT !.st = "payload", !.buf = << >>]
    <3>1. << >> \in Seq(Nat) /\ Len(<< >>) = 0 /\ 0 < BufferSize
          BY HarmanOtaAssumption
    <3>2. /\ q \in Manager /\ q.st = "payload" /\ q.buf = << >>
          /\ q.img = r.img /\ q.rel = r.rel /\ q.total = r.total
          BY <2>1, <3>1 DEF Manager
    <3>3. ota' = Ask(q, Off(nv.img) + nv.rel, Size - nv.rel)
          BY <2>2, <2>5
    <3> HIDE DEF q
    <3>4. InImage(q)
          BY <2>3, <3>2 DEF InImage
    <3>5. Session(Ask(q, Off(q.img) + q.rel, Size - q.rel))
          BY <3>1, <3>2, <3>4, AskedInPlace
    <3>6. Session(ota')
          BY <2>1, <3>2, <3>3, <3>5
    <3>7. QED
          BY <1>1, <2>2, <2>5, <3>6, GoesOn
  <2>6. QED
        BY <2>4, <2>5
<1>3. CASE nv.offset = 0
  <2> DEFINE r == [m EXCEPT !.st = "header", !.img = 0, !.rel = 0]
  <2>1. /\ r \in Manager /\ r.buf = m.buf /\ r.st = "header"
        /\ r.img = 0 /\ r.rel = 0 /\ r.total = m.total
    <3>1. 0 \in 0 .. Images - 1 /\ 0 \in Nat
          BY Zero
    <3>2. QED
          BY <3>1, ZenonT(60) DEF Manager
  <2>2. ota' = Ask(r, Off(0) + Control, 1) /\ timer' = t /\ nv' = nv /\ flash' = flash
        BY <1>3 DEF Begin
  <2> HIDE DEF r
  <2>3. Session(ota')
        BY <2>1, <2>2, FromTheFirst
  <2>4. QED
        BY <1>1, <2>2, <2>3, GoesOn
<1>4. QED
      BY <1>2, <1>3

LEMMA OnTableKeeps ==
    ASSUME Inv, NEW m, NEW o, NEW n, Took(m, o, n), m.st = "table",
           NEW t \in Timers, t.check, NEW res, OnTable(m, t, n, res)
    PROVE  Inv'
<1> DEFINE len == IF m.rel + n > TableSize THEN TableSize - m.rel ELSE n
           r   == [m EXCEPT !.rel = @ + len, !.req = @ - len]
<1>1. /\ m.rel < TableSize
      /\ r.rel = TableSize => Begin(r, t, res)
      /\ r.rel # TableSize =>
            /\ ota' = IF r.packets >= Report THEN Ask(r, 1 + r.rel, TableSize - r.rel) ELSE r
            /\ timer' = t /\ nv' = nv /\ flash' = flash
      BY DEF OnTable
<1>2. m \in Manager /\ n \in Nat /\ TableSize \in Nat
      BY HarmanOtaAssumption DEF Took
<1>3. m.total = 0 /\ m.req = TableSize - m.rel /\ Len(m.buf) < BufferSize
      BY <1>1 DEF Took, Inv, Session, Place
<1>4. m.rel \in Nat /\ m.req \in Nat
      BY <1>2 DEF Manager
<1>5. /\ len \in Nat /\ m.rel + len <= TableSize
      /\ m.rel + len \in Nat /\ m.req - len \in Nat
      /\ m.req - len = TableSize - (m.rel + len)
      BY <1>1, <1>2, <1>3, <1>4, SMTT(60)
<1> HIDE DEF len
<1>6. /\ r \in Manager /\ r.buf = m.buf /\ r.st = "table" /\ r.total = 0
      /\ r.rel = m.rel + len /\ r.req = m.req - len
      BY <1>2, <1>3, <1>5, ZenonT(60) DEF Manager
<1> HIDE DEF r
<1>7. CASE r.rel = TableSize
      BY <1>1, <1>3, <1>6, <1>7, BeginKeeps
<1>8. CASE r.rel # TableSize
  <2> DEFINE c == 1 + r.rel
             s == TableSize - r.rel
  <2>1. c \in Nat /\ s \in Nat
        BY <1>2, <1>4, <1>5, <1>6
  <2>2. r.req = TableSize - r.rel
        BY <1>5, <1>6
  <2>3. s = TableSize - r.rel
        OBVIOUS
  <2>4. ota' = Ask(r, c, s) \/ ota' = r
        BY <1>1, <1>8
  <2> HIDE DEF c, s
  <2>a. Asked(Ask(r, c, s), r, c, s)
        BY <1>6, <2>1, AskDoes
  <2>5. /\ ota' \in Manager /\ ota'.buf = m.buf /\ ota'.st = "table" /\ ota'.total = 0
        /\ ota'.rel = r.rel /\ ota'.req = TableSize - r.rel
        BY <1>6, <2>2, <2>3, <2>4, <2>a DEF Asked
  <2>6. Session(ota')
        BY <1>3, <2>5 DEF Session, Place
  <2>7. QED
        BY <1>1, <1>8, <2>6, GoesOn DEF Inv
<1>9. QED
      BY <1>7, <1>8

-----------------------------------------------------------------------------
(* The units of an image.                                                  *)

\* How many of n units belong to the image, and how many fit in the buffer.
Taken(m, n) == IF m.rel + n > Size THEN Size - m.rel ELSE n
Fitting(m, len) == IF Len(m.buf) + len > BufferSize THEN BufferSize - Len(m.buf) ELSE len

LEMMA TakenDoes ==
    ASSUME NEW m \in Manager, m.rel <= Size, Len(m.buf) < BufferSize, NEW n \in 1 .. PacketMax
    PROVE  LET len == Taken(m, n)
               fits == Fitting(m, len) IN
           /\ len \in Nat /\ fits \in Nat /\ m.rel + len <= Size /\ m.rel + fits <= Size
           /\ m.rel + len < Size => len = n
           /\ m.rel = Size => len = 0
           /\ fits <= len /\ len - fits \in Nat /\ len - fits < BufferSize
           /\ Len(m.buf) + fits <= BufferSize
           /\ fits # len => Len(m.buf) + fits = BufferSize
<1> DEFINE b == Len(m.buf)
           r == m.rel
           len == Taken(m, n)
           fits == Fitting(m, len)
<1>1. b \in Nat /\ b < BufferSize /\ r \in Nat /\ r <= Size
      BY DEF Manager
<1>2. len = IF r + n > Size THEN Size - r ELSE n
      BY DEF Taken
<1>3. fits = IF b + len > BufferSize THEN BufferSize - b ELSE len
      BY DEF Fitting
<1> HIDE DEF b, r, len, fits
<1>4. /\ Size \in Nat /\ BufferSize \in Nat /\ n \in Nat /\ 1 <= n /\ n <= BufferSize
      BY HarmanOtaAssumption
<1>5. /\ len \in Nat /\ len <= n /\ r + len <= Size
      /\ r + len < Size => len = n
      /\ r = Size => len = 0
      BY <1>1, <1>2, <1>4
<1>6. /\ fits \in Nat /\ fits <= len
      /\ b + fits <= BufferSize
      /\ fits # len => b + fits = BufferSize /\ fits > 0
      BY <1>1, <1>3, <1>4, <1>5
<1>7. /\ len - fits \in Nat /\ len - fits < BufferSize /\ r + fits <= Size
      BY <1>1, <1>4, <1>5, <1>6
<1>8. QED
      BY <1>5, <1>6, <1>7 DEF b, r, len, fits

\* k units further in the image.
LEMMA Further ==
    ASSUME NEW m \in Manager, InImage(m), NEW k \in Nat, m.rel + k <= Size,
           NEW r \in Manager, r.img = m.img, r.rel = m.rel + k, r.total = m.total + k
    PROVE  InImage(r) /\ (r.rel = Size => Ended(r))
<1> DEFINE b == m.img * Size
<1>1. m.img \in Nat /\ m.rel \in Nat
      BY HarmanOtaAssumption DEF Manager
<1>2. b \in Nat
      BY <1>1, OffDoes
<1>3. m.total = b + m.rel
      BY DEF InImage
<1>4. r.img * Size = b
      OBVIOUS
<1> HIDE DEF b
<1>5. r.total = b + r.rel /\ r.rel <= Size
      BY <1>1, <1>2, <1>3
<1>6. InImage(r)
      BY <1>4, <1>5 DEF InImage
<1>7. r.rel = Size => Ended(r)
      BY <1>4, <1>5 DEF Ended
<1>8. QED
      BY <1>6, <1>7

\* All that belongs to the image has been taken: the session is in its place,
\* whether it asks again or not.
LEMMA TakenInPlace ==
    ASSUME Inv, NEW m, NEW o, NEW n, Took(m, o, n), m.st = "payload",
           NEW r \in Manager, r.st = "payload", Len(r.buf) < BufferSize, r.cur = m.cur, r.img = m.img,
           r.rel = m.rel + Taken(m, n), r.total = m.total + Taken(m, n), r.req = m.req - Taken(m, n)
    PROVE  /\ Session(r)
           /\ r.rel = Size => Ended(r)
           /\ Session(Ask(r, Off(m.img) + r.rel, Size - r.rel))
<1> DEFINE len == Taken(m, n)
           f   == Off(m.img)
<1>1. /\ m \in Manager /\ Len(m.buf) < BufferSize /\ m.rel <= Size /\ InImage(m)
      /\ m.rel < Size => o = f + m.rel /\ m.req = Size - m.rel
      BY DEF Inv, Session, Place, Took, InImage
<1>2. /\ len \in Nat /\ m.rel + len <= Size
      /\ m.rel + len < Size => len = n
      BY <1>1, TakenDoes DEF Took
<1>3. r.rel = m.rel + len /\ r.total = m.total + len /\ r.req = m.req - len
      OBVIOUS
<1>4. n \in Nat /\ m.cur = o + n /\ o \in Nat
      BY HarmanOtaAssumption DEF Took
<1>5. m.rel \in Nat /\ m.img \in Nat
      BY <1>1, HarmanOtaAssumption DEF Manager
<1>6. f \in Nat
      BY <1>5, OffDoes
<1>7. f = Off(r.img)
      OBVIOUS
<1> HIDE DEF len, f
<1>8. InImage(r) /\ (r.rel = Size => Ended(r))
      BY <1>1, <1>2, <1>3, Further
<1>9. Session(Ask(r, Off(r.img) + r.rel, Size - r.rel))
      BY <1>8, AskedInPlace
<1>10. r.rel < Size => r.cur = f + r.rel /\ r.req = Size - r.rel
  <2> HAVE r.rel < Size
  <2>1. len = n /\ m.rel < Size
        BY <1>2, <1>3, <1>4, <1>5, HarmanOtaAssumption
  <2>2. o = f + m.rel /\ m.req = Size - m.rel
        BY <1>1, <2>1
  <2>3. r.cur = o + n /\ r.rel = m.rel + n /\ r.req = m.req - n
        BY <1>3, <1>4, <2>1
  <2>4. f \in Int /\ m.rel \in Int /\ n \in Int /\ Size \in Int
        BY <1>4, <1>5, <1>6, HarmanOtaAssumption
  <2>5. (f + m.rel) + n = f + (m.rel + n) /\ (Size - m.rel) - n = Size - (m.rel + n)
        BY <2>4
  <2>6. QED
        BY <2>2, <2>3, <2>5
<1>11. Place(r)
      BY <1>7, <1>8, <1>10 DEF Place, InImage
<1>12. Session(r)
      BY <1>11 DEF Session
<1>13. QED
      BY <1>8, <1>9, <1>12

\* r is m with k units from o on after those of buffer b.
Gathers(m, r, o, k, b) ==
    /\ r \in Manager /\ r.on = m.on /\ r.st = m.st /\ r.img = m.img /\ r.ver = m.ver
    /\ r.rel = m.rel + k
    /\ InImage(r)
    /\ Len(r.buf) = Len(b) + k
    /\ \A j \in 1 .. Len(b) : r.buf[j] = b[j]
    /\ \A j \in 1 .. k : r.buf[Len(b) + j] = o + j - 1

SameWork(r, a) ==
    /\ r.on = a.on /\ r.st = a.st /\ r.img = a.img
    /\ r.rel = a.rel /\ r.ver = a.ver /\ r.buf = a.buf

\* The buffer is written, and noted.
Flushed(r, f, res) == Write(f, r.img, r.rel - Len(r.buf), r.buf, r.ver, res)
Note(r, n, res) == Save(n, r, r.rel, r.total, res)

LEMMA FlushDoes ==
    ASSUME NEW r \in Manager, InImage(r), NEW f \in Bank, NEW n \in Settings, NEW res
    PROVE  Flushed(r, f, res) \in Bank /\ Note(r, n, res) \in Settings /\ Noted(Note(r, n, res))
<1>1. /\ r.img \in 0 .. Images - 1 /\ r.rel \in Nat /\ r.total \in Nat /\ r.buf \in Seq(Nat)
      /\ r.ver \in Versions \cup {0} /\ Len(r.buf) \in Nat
      BY DEF Manager
<1>2. r.rel - Len(r.buf) \in Int
      BY <1>1
<1>3. Flushed(r, f, res) \in Bank
      BY <1>1, <1>2, WriteDoes DEF Flushed
<1>4. r.rel \in 0 .. Size /\ r.total = r.img * Size + r.rel
      BY <1>1, HarmanOtaAssumption DEF InImage
<1>5. QED
      BY <1>1, <1>3, <1>4, SaveDoes DEF Note

\* What fits is gathered (a).  A full buffer is written, and the rest gathered (b);
\* if that ends the image it is written as well, and the image checked.
Taking(m, t, o, res1, res2, res) ==
    \E a \in Manager, k \in Nat :
        /\ Gathers(m, a, o, k, m.buf)
        /\ \/ /\ a.rel < Size /\ Session(ota') /\ SameWork(ota', a)
              /\ timer' = t /\ UNCHANGED <<nv, flash>>
           \/ \E b \in Manager, l \in Nat, t2 \in Timers :
                 /\ Gathers(a, b, o + k, l, << >>) /\ (Vp /\ m.img = 0 => b.vpsrc) /\ t2.check
                 /\ \/ /\ b.rel < Size /\ Session(ota') /\ SameWork(ota', b) /\ timer' = t2
                       /\ flash' = Flushed(a, flash, res1) /\ nv' = Note(a, nv, res1)
                    \/ /\ l = 0 /\ Session(b) /\ Ended(b)
                       /\ EndCheck(b, Flushed(a, flash, res1), Note(a, nv, res1), t2, res)
                    \/ \E c \in Manager :
                          /\ c = [b EXCEPT !.buf = << >>] /\ Session(c) /\ Ended(c)
                          /\ EndCheck(c, Flushed(b, Flushed(a, flash, res1), res2),
                                      Note(b, Note(a, nv, res1), res2), t2, res)

LEMMA OnPayloadDoes ==
    ASSUME Inv, NEW m, NEW o, NEW n, Took(m, o, n), m.st = "payload",
           NEW t \in Timers, t.check, NEW res1, NEW res2, NEW res,
           OnPayload(m, t, o, n, res1, res2, res)
    PROVE  Taking(m, t, o, res1, res2, res)
<1> DEFINE len   == Taken(m, n)
           fits  == Fitting(m, len)
           buf1  == m.buf \o [k \in 1 .. fits |-> o + k - 1]
           rel1  == m.rel + fits
           full  == Len(buf1) = BufferSize \/ rel1 = Size
           m1    == [m EXCEPT !.req = @ - len, !.rel = rel1, !.total = @ + fits, !.buf = buf1]
           f1    == Write(flash, m.img, rel1 - Len(buf1), buf1, m.ver, res1)
           n1    == Save(nv, m1, rel1, m1.total, res1)
           buf2  == [k \in 1 .. len - fits |-> o + fits + k - 1]
           rel2  == m.rel + len
           again == len > fits /\ rel2 = Size
           m2    == [m1 EXCEPT !.rel = rel2, !.total = m.total + len, !.buf = IF again THEN << >> ELSE buf2,
                               !.vpsrc = @ \/ (Vp /\ m.img = 0)]
           f2    == IF again THEN Write(f1, m.img, rel1, buf2, m.ver, res2) ELSE f1
           n2    == IF again THEN Save(n1, m2, rel2, m2.total, res2) ELSE n1
           t2    == [t EXCEPT !.delay = IF res1 # "ok" \/ (again /\ res2 # "ok") THEN Soon(@) ELSE @]
<1>1. /\ ~full => /\ ota' \in {Ask(m1, Off(m.img) + rel1, Size - rel1), m1}
                  /\ timer' = t /\ nv' = nv /\ flash' = flash
      /\ full /\ rel2 = Size => EndCheck(m2, f2, n2, t2, res)
      /\ full /\ rel2 # Size => /\ ota' \in {Ask(m2, Off(m.img) + rel2, Size - rel2), m2}
                                /\ timer' = t2 /\ flash' = f2 /\ nv' = n2
      BY Zenon DEF OnPayload, Taken, Fitting
<1>2. /\ m \in Manager /\ Len(m.buf) < BufferSize /\ m.rel <= Size /\ InImage(m)
      /\ m.rel < Size => m.req = Size - m.rel
      /\ o \in Nat /\ n \in 1 .. PacketMax
      /\ nv \in Settings /\ Noted(nv) /\ flash \in Bank
      BY DEF Inv, Session, Place, Took, InImage
<1>3. /\ len \in Nat /\ fits \in Nat /\ m.rel + len <= Size /\ m.rel + fits <= Size
      /\ m.rel + len < Size => len = n
      /\ m.rel = Size => len = 0
      /\ fits <= len /\ len - fits \in Nat /\ len - fits < BufferSize
      /\ Len(m.buf) + fits <= BufferSize
      /\ fits # len => Len(m.buf) + fits = BufferSize
      BY <1>2, TakenDoes
<1>4. /\ m.rel \in Nat /\ m.req \in Nat /\ m.total \in Nat /\ m.img \in 0 .. Images - 1
      /\ m.buf \in Seq(Nat) /\ Len(m.buf) \in Nat /\ m.st = "payload"
      /\ m.vpsrc \in BOOLEAN /\ m.ver \in Versions \cup {0} /\ m.on \in BOOLEAN
      BY <1>2 DEF Manager
<1>5. m.req - len \in Nat
  <2>1. Size \in Nat
        BY HarmanOtaAssumption
  <2> DEFINE a == m.rel
             q == m.req
  <2>2. /\ a \in Nat /\ q \in Nat /\ len \in Nat /\ a + len <= Size /\ a <= Size
        /\ a < Size => q = Size - a
        /\ a = Size => len = 0
        BY <1>2, <1>3, <1>4
  <2> HIDE DEF len, a, q
  <2>3. q - len \in Nat
        BY <2>1, <2>2
  <2>4. QED
        BY <2>3 DEF q
<1>6. buf1 \in Seq(Nat) /\ Len(buf1) = Len(m.buf) + fits
  <2> DEFINE x == [k \in 1 .. fits |-> o + k - 1]
  <2> HIDE DEF fits
  <2>1. \A k \in 1 .. fits : o + k - 1 \in Nat
        BY <1>2, <1>3
  <2>2. x \in Seq(Nat) /\ Len(x) = fits
        BY <1>3, <2>1
  <2> HIDE DEF x
  <2>3. m.buf \o x \in Seq(Nat) /\ Len(m.buf \o x) = Len(m.buf) + Len(x)
        BY <1>4, <2>2, ConcatProperties
  <2>4. QED
        BY <2>2, <2>3 DEF x
<1>7. buf2 \in Seq(Nat) /\ Len(buf2) = len - fits
  <2> HIDE DEF fits, len
  <2>1. \A k \in 1 .. len - fits : o + fits + k - 1 \in Nat
        BY <1>2, <1>3
  <2>2. QED
        BY <1>3, <2>1
<1>8. /\ rel1 \in Nat /\ rel1 \in 0 .. Size /\ rel2 \in Nat /\ rel2 \in 0 .. Size
      /\ m.total + fits \in Nat /\ m.total + len \in Nat
  <2> DEFINE a == m.rel
             b == m.total
  <2>1. /\ a \in Nat /\ b \in Nat /\ fits \in Nat /\ len \in Nat
        /\ a + len <= Size /\ a + fits <= Size /\ Size \in Nat
        BY <1>3, <1>4, HarmanOtaAssumption
  <2> HIDE DEF fits, len, a, b
  <2>2. /\ a + fits \in Nat /\ a + fits \in 0 .. Size /\ a + len \in Nat /\ a + len \in 0 .. Size
        /\ b + fits \in Nat /\ b + len \in Nat
        BY <2>1
  <2>3. QED
        BY <2>2 DEF a, b
<1> HIDE DEF len, fits, buf1, buf2, rel1, rel2
<1>9. /\ m1 \in Manager /\ m1.st = "payload" /\ m1.buf = buf1 /\ m1.cur = m.cur /\ m1.img = m.img
      /\ m1.rel = rel1 /\ m1.total = m.total + fits /\ m1.req = m.req - len
      /\ m1.vpsrc = m.vpsrc /\ m1.ver = m.ver /\ m1.on = m.on
      BY <1>2, <1>4, <1>5, <1>6, <1>8 DEF Manager
<1> HIDE DEF m1
<1>10. Gathers(m, m1, o, fits, m.buf)
  <2>1. InImage(m1)
        BY <1>2, <1>3, <1>9, Further DEF rel1
  <2>2. /\ \A j \in 1 .. Len(m.buf) : buf1[j] = m.buf[j]
        /\ \A j \in 1 .. fits : buf1[Len(m.buf) + j] = o + j - 1
    <3> DEFINE x == [k \in 1 .. fits |-> o + k - 1]
    <3>1. \A k \in 1 .. fits : o + k - 1 \in Nat
          BY <1>2, <1>3
    <3>2. x \in Seq(Nat) /\ Len(x) = fits /\ \A j \in 1 .. fits : x[j] = o + j - 1
          BY <1>3, <3>1
    <3>3. buf1 = m.buf \o x
          BY DEF buf1
    <3> HIDE DEF x
    <3>4. \A j \in 1 .. Len(m.buf) : buf1[j] = m.buf[j]
          BY <1>4, <3>2, <3>3, ConcatProperties
    <3>5. ASSUME NEW j \in 1 .. fits
          PROVE  buf1[Len(m.buf) + j] = o + j - 1
      <4>1. Len(m.buf) + j \in Len(m.buf) + 1 .. Len(m.buf) + Len(x)
            BY <1>3, <1>4, <3>2
      <4>2. buf1[Len(m.buf) + j] = x[Len(m.buf) + j - Len(m.buf)]
            BY <1>4, <3>2, <3>3, <4>1, ConcatProperties
      <4>3. Len(m.buf) + j - Len(m.buf) = j
            BY <1>3, <1>4
      <4>4. QED
            BY <3>2, <4>2, <4>3
    <3>6. QED
          BY <3>4, <3>5
  <2>3. QED
        BY <1>6, <1>9, <2>1, <2>2 DEF Gathers, rel1
<1>11. CASE ~full
  <2>1. fits = len /\ rel1 = m.rel + len /\ Len(buf1) < BufferSize /\ rel1 < Size
    <3>1. Len(buf1) # BufferSize
          BY <1>11
    <3>2. fits = len
          BY <1>3, <1>6, <3>1
    <3>3. Len(buf1) < BufferSize
          BY <1>3, <1>4, <1>6, <3>1, HarmanOtaAssumption
    <3>4. rel1 < Size
          BY <1>8, <1>11, HarmanOtaAssumption
    <3>5. QED
          BY <3>2, <3>3, <3>4 DEF rel1
  <2> DEFINE c == Off(m.img) + m1.rel
             w == Size - m1.rel
  <2>2. Session(m1) /\ Session(Ask(m1, c, w))
    <3>1. m1.rel = m.rel + Taken(m, n) /\ m1.total = m.total + Taken(m, n) /\ m1.req = m.req - Taken(m, n)
          BY <1>9, <2>1 DEF len
    <3>2. QED
          BY <1>9, <2>1, <3>1, TakenInPlace
  <2>3. ota' = Ask(m1, c, w) \/ ota' = m1
        BY <1>1, <1>9, <1>11
  <2>4. c \in Nat /\ w \in Nat
    <3>1. m.img \in Nat
          BY <1>4, HarmanOtaAssumption
    <3>2. Off(m.img) \in Nat
          BY <3>1, OffDoes
    <3>3. QED
          BY <1>8, <1>9, <3>2, HarmanOtaAssumption
  <2> HIDE DEF c, w
  <2>5. SameWork(ota', m1)
    <3>1. SameWork(Ask(m1, c, w), m1)
          BY <1>9, <2>4, AskDoes, ZenonT(60) DEF Asked, SameWork
    <3>2. QED
          BY <2>3, <3>1 DEF SameWork
  <2>6. m1.rel < Size /\ Session(ota') /\ timer' = t /\ nv' = nv /\ flash' = flash
        BY <1>1, <1>9, <1>11, <2>1, <2>2, <2>3
  <2>7. QED
        BY <1>3, <1>9, <1>10, <2>5, <2>6 DEF Taking
<1>12. CASE full
  <2> DEFINE b == [m1 EXCEPT !.rel = rel2, !.total = m.total + len, !.buf = buf2,
                             !.vpsrc = @ \/ (Vp /\ m.img = 0)]
             v == m1.vpsrc \/ (Vp /\ m.img = 0)
  <2>1. f1 = Flushed(m1, flash, res1) /\ n1 = Note(m1, nv, res1)
        BY <1>9 DEF Flushed, Note
  <2> HIDE DEF f1, n1
  <2>2. /\ b \in Manager /\ b.st = "payload" /\ b.cur = m.cur /\ b.img = m.img
        /\ b.rel = rel2 /\ b.total = m.total + len /\ b.req = m.req - len
        /\ b.buf = buf2 /\ b.vpsrc = v /\ b.ver = m.ver /\ b.on = m.on
    <3>1. v \in BOOLEAN
          BY <1>4
    <3>2. b = [m1 EXCEPT !.rel = rel2, !.total = m.total + len, !.buf = buf2, !.vpsrc = v]
          BY <1>9 DEF Manager
    <3> HIDE DEF b, v
    <3>3. QED
          BY <1>7, <1>8, <1>9, <3>1, <3>2 DEF Manager
  <2>3. m2 = IF again THEN [b EXCEPT !.buf = << >>] ELSE b
    <3>1. CASE again
          BY <1>9, <3>1 DEF Manager
    <3>2. CASE ~again
          BY <1>9, <3>2 DEF Manager
    <3>3. QED
          BY <3>1, <3>2
  <2>4. Vp /\ m.img = 0 => b.vpsrc
        BY <2>2
  <2> HIDE DEF b, v
  <2>5. Len(buf2) < BufferSize /\ Len(<< >>) = 0 /\ 0 < BufferSize /\ << >> \in Seq(Nat)
        BY <1>3, <1>7, HarmanOtaAssumption
  <2> DEFINE e == [b EXCEPT !.buf = << >>]
  <2>6. /\ e \in Manager /\ e.st = "payload" /\ e.cur = m.cur /\ e.img = m.img
        /\ e.rel = rel2 /\ e.total = m.total + len /\ e.req = m.req - len /\ e.buf = << >>
        BY <2>2, <2>5 DEF Manager
  <2> HIDE DEF e
  <2> DEFINE c == Off(m.img) + b.rel
             w == Size - b.rel
  <2>7. /\ Session(b) /\ Session(Ask(b, c, w)) /\ (b.rel = Size => Ended(b))
        /\ Session(e) /\ (e.rel = Size => Ended(e))
    <3>1. /\ b.rel = m.rel + Taken(m, n) /\ b.total = m.total + Taken(m, n) /\ b.req = m.req - Taken(m, n)
          /\ e.rel = m.rel + Taken(m, n) /\ e.total = m.total + Taken(m, n) /\ e.req = m.req - Taken(m, n)
          BY <2>2, <2>6 DEF len, rel2
    <3>2. Session(b) /\ Session(Ask(b, c, w)) /\ (b.rel = Size => Ended(b))
          BY <2>2, <2>5, <3>1, TakenInPlace
    <3>3. Session(e) /\ (e.rel = Size => Ended(e))
          BY <2>5, <2>6, <3>1, TakenInPlace
    <3>4. QED
          BY <3>2, <3>3
  <2>8. Gathers(m1, b, o + fits, len - fits, << >>)
    <3>1. InImage(b)
          BY <1>2, <1>3, <2>2, Further DEF rel2
    <3>2. b.rel = m1.rel + (len - fits)
          BY <1>3, <1>4, <1>9, <2>2 DEF rel1, rel2
    <3>3. Len(b.buf) = Len(<< >>) + (len - fits)
          BY <1>3, <1>7, <2>2, <2>5
    <3>4. ASSUME NEW j \in 1 .. len - fits PROVE b.buf[Len(<< >>) + j] = o + fits + j - 1
          BY <1>3, <2>2, <2>5 DEF buf2
    <3>5. \A j \in 1 .. Len(<< >>) : b.buf[j] = << >>[j]
          BY <2>5
    <3>6. QED
          BY <1>9, <2>2, <3>1, <3>2, <3>3, <3>4, <3>5 DEF Gathers
  <2>9. t2 \in Timers /\ t2.check
        BY DEF Timers, Soon
  <2> HIDE DEF t2
  <2>10. CASE rel2 # Size
    <3>1. f2 = f1 /\ n2 = n1 /\ m2 = b
          BY <2>3, <2>10
    <3>2. ota' = Ask(b, c, w) \/ ota' = b
          BY <1>1, <1>12, <2>2, <2>10, <3>1
    <3>3. c \in Nat /\ w \in Nat
      <4>1. m.img \in Nat
            BY <1>4, HarmanOtaAssumption
      <4>2. Off(m.img) \in Nat
            BY <4>1, OffDoes
      <4>3. QED
            BY <1>8, <2>2, <4>2, HarmanOtaAssumption
    <3> HIDE DEF c, w
    <3>4. SameWork(ota', b) /\ Session(ota')
      <4>1. SameWork(Ask(b, c, w), b)
            BY <2>2, <3>3, AskDoes DEF Asked, SameWork
      <4>2. QED
            BY <2>7, <3>2, <4>1 DEF SameWork
    <3>5. timer' = t2 /\ flash' = f1 /\ nv' = n1
          BY <1>1, <1>12, <2>10, <3>1
    <3>6. b.rel < Size
          BY <1>8, <2>2, <2>10, HarmanOtaAssumption
    <3> HIDE DEF f2, n2, m2
    <3>7. QED
          BY <1>3, <1>9, <1>10, <2>1, <2>2, <2>4, <2>8, <2>9, <3>4, <3>5, <3>6 DEF Taking
  <2>11. CASE rel2 = Size /\ ~again
    <3>1. f2 = f1 /\ n2 = n1 /\ m2 = b
          BY <2>3, <2>11
    <3>2. EndCheck(b, f1, n1, t2, res)
          BY <1>1, <1>12, <2>11, <3>1
    <3>3. len - fits = 0
          BY <1>3, <2>11
    <3> HIDE DEF f2, n2, m2
    <3>4. QED
          BY <1>3, <1>9, <1>10, <2>1, <2>2, <2>4, <2>7, <2>8, <2>9, <2>11, <3>2, <3>3 DEF Taking
  <2>12. CASE rel2 = Size /\ again
    <3>1. m2 = e
          BY <2>3, <2>12 DEF e
    <3>2. rel1 = b.rel - Len(b.buf)
          BY <1>3, <1>4, <1>7, <2>2 DEF rel1, rel2
    <3>3. f2 = Flushed(b, f1, res2)
          BY <2>2, <2>12, <3>2 DEF Flushed
    <3>4. n2 = Note(b, n1, res2)
          BY <2>2, <2>6, <2>12, <3>1 DEF Note, Save
    <3> HIDE DEF f2, n2, m2
    <3>5. EndCheck(e, Flushed(b, f1, res2), Note(b, n1, res2), t2, res)
          BY <1>1, <1>12, <2>12, <3>1, <3>3, <3>4
    <3>6. Session(e) /\ Ended(e)
          BY <2>6, <2>7, <2>12
    <3>7. e = [b EXCEPT !.buf = << >>]
          BY DEF e
    <3>8. QED
          BY <1>3, <1>9, <1>10, <2>1, <2>2, <2>4, <2>6, <2>8, <2>9, <3>5, <3>6, <3>7 DEF Taking
  <2>13. QED
         BY <2>10, <2>11, <2>12
<1>13. QED
       BY <1>11, <1>12

LEMMA OnPayloadKeeps ==
    ASSUME Inv, NEW m, NEW o, NEW n, Took(m, o, n), m.st = "payload",
           NEW t \in Timers, t.check, NEW res1, NEW res2, NEW res,
           OnPayload(m, t, o, n, res1, res2, res)
    PROVE  Inv'
<1>1. Taking(m, t, o, res1, res2, res)
      BY OnPayloadDoes
<1>2. nv \in Settings /\ Noted(nv) /\ flash \in Bank
      BY DEF Inv
<1>3. PICK a \in Manager, k \in Nat :
        /\ Gathers(m, a, o, k, m.buf)
        /\ \/ /\ a.rel < Size /\ Session(ota') /\ SameWork(ota', a)
              /\ timer' = t /\ UNCHANGED <<nv, flash>>
           \/ \E b \in Manager, l \in Nat, t2 \in Timers :
                 /\ Gathers(a, b, o + k, l, << >>) /\ (Vp /\ m.img = 0 => b.vpsrc) /\ t2.check
                 /\ \/ /\ b.rel < Size /\ Session(ota') /\ SameWork(ota', b) /\ timer' = t2
                       /\ flash' = Flushed(a, flash, res1) /\ nv' = Note(a, nv, res1)
                    \/ /\ l = 0 /\ Session(b) /\ Ended(b)
                       /\ EndCheck(b, Flushed(a, flash, res1), Note(a, nv, res1), t2, res)
                    \/ \E c \in Manager :
                          /\ c = [b EXCEPT !.buf = << >>] /\ Session(c) /\ Ended(c)
                          /\ EndCheck(c, Flushed(b, Flushed(a, flash, res1), res2),
                                      Note(b, Note(a, nv, res1), res2), t2, res)
      BY <1>1 DEF Taking
<1> DEFINE f1 == Flushed(a, flash, res1)
           n1 == Note(a, nv, res1)
<1>4. f1 \in Bank /\ n1 \in Settings /\ Noted(n1)
      BY <1>2, <1>3, FlushDoes DEF Gathers
<1>5. CASE /\ a.rel < Size /\ Session(ota') /\ SameWork(ota', a)
           /\ timer' = t /\ UNCHANGED <<nv, flash>>
      BY <1>2, <1>5, GoesOn
<1>6. ASSUME NEW b \in Manager, NEW l \in Nat, NEW t2 \in Timers,
             Gathers(a, b, o + k, l, << >>), t2.check,
             \/ /\ b.rel < Size /\ Session(ota') /\ SameWork(ota', b) /\ timer' = t2
                /\ flash' = f1 /\ nv' = n1
             \/ /\ l = 0 /\ Session(b) /\ Ended(b)
                /\ EndCheck(b, f1, n1, t2, res)
             \/ \E c \in Manager :
                   /\ c = [b EXCEPT !.buf = << >>] /\ Session(c) /\ Ended(c)
                   /\ EndCheck(c, Flushed(b, f1, res2), Note(b, n1, res2), t2, res)
      PROVE  Inv'
  <2> HIDE DEF f1, n1
  <2>1. Flushed(b, f1, res2) \in Bank /\ Note(b, n1, res2) \in Settings /\ Noted(Note(b, n1, res2))
        BY <1>4, <1>6, FlushDoes DEF Gathers
  <2>2. QED
        BY <1>4, <1>6, <2>1, GoesOn, EndCheckKeeps
<1>7. QED
      BY <1>3, <1>5, <1>6

-----------------------------------------------------------------------------
(* The steps.                                                              *)

\* The manager asks again, or counts, where it stands.
LEMMA StaysInPlace ==
    ASSUME Session(ota), NEW r, r \in Manager,
           r.st = ota.st /\ r.cur = ota.cur /\ r.req = ota.req /\ r.img = ota.img,
           r.rel = ota.rel /\ r.total = ota.total /\ r.buf = ota.buf
    PROVE  Session(r)
BY DEF Session, Place

LEMMA StrangeKeeps ==
    ASSUME Inv, ota' = Strange([ota EXCEPT !.misses = 0]),
           timer' = [timer EXCEPT !.check = TRUE], UNCHANGED <<nv, flash>>
    PROVE  Inv'
<1> DEFINE m == [ota EXCEPT !.misses = 0]
           e == [m EXCEPT !.errors = @ + 1]
<1>1. m \in Manager /\ m.errors = ota.errors
      BY Zero DEF Inv, Session, Manager
<1>2. /\ m.st = ota.st /\ m.cur = ota.cur /\ m.req = ota.req /\ m.img = ota.img
      /\ m.rel = ota.rel /\ m.total = ota.total /\ m.buf = ota.buf
      BY DEF Inv, Session, Manager
<1>3. ota' = IF e.errors >= Report + 2 THEN [m EXCEPT !.packets = 0, !.errors = 0]
             ELSE IF e.errors + e.packets = Report THEN Ask(e, e.cur, e.req)
             ELSE e
      BY DEF Strange
<1> HIDE DEF m
<1>4. timer' \in Timers /\ timer'.check
      BY DEF Inv, Timers
<1>5. CASE e.errors >= Report + 2
  <2>1. ota' = [m EXCEPT !.packets = 0, !.errors = 0]
        BY <1>3, <1>5
  <2>2. /\ ota' \in Manager /\ ota'.st = m.st /\ ota'.cur = m.cur /\ ota'.req = m.req
        /\ ota'.img = m.img /\ ota'.rel = m.rel /\ ota'.total = m.total /\ ota'.buf = m.buf
        BY <1>1, <2>1, Zero, ZenonT(60) DEF Manager
  <2>3. Session(ota')
        BY <1>2, <2>2, StaysInPlace DEF Inv
  <2>4. QED
        BY <2>3, <1>4, GoesOn DEF Inv
<1>6. CASE ~(e.errors >= Report + 2)
  <2>1. e.errors \in 0 .. Report + 1
    <3>1. m.errors \in 0 .. Report + 1 /\ e.errors = m.errors + 1
          BY <1>1 DEF Manager
    <3>2. QED
          BY <1>6, <3>1, HarmanOtaAssumption
  <2>2. /\ e \in Manager /\ e.st = m.st /\ e.cur = m.cur /\ e.req = m.req
        /\ e.img = m.img /\ e.rel = m.rel /\ e.total = m.total /\ e.buf = m.buf
    <3>1. m.errors + 1 \in 0 .. Report + 1
          BY <1>1, <2>1 DEF Manager
    <3>2. QED
          BY <1>1, <3>1 DEF Manager
  <2>3. ota' = Ask(e, e.cur, e.req) \/ ota' = e
        BY <1>3, <1>6
  <2> HIDE DEF e
  <2>4. e.cur \in Nat /\ e.req \in Nat
        BY <2>2 DEF Manager
  <2>5. Asked(Ask(e, e.cur, e.req), e, e.cur, e.req)
        BY <2>2, <2>4, AskDoes
  <2>6. Session(Ask(e, e.cur, e.req)) /\ Session(e)
        BY <1>2, <2>2, <2>5, StaysInPlace DEF Inv, Asked
  <2>7. QED
        BY <1>4, <2>3, <2>6, GoesOn DEF Inv
<1>7. QED
      BY <1>5, <1>6

\* A packet that was asked for, by what the session waits for: m has it
\* counted, and t is the timer started.
Handles(m, t, o, n) ==
    \/ m.st = "protocol" /\ \E ok \in BOOLEAN : OnProtocol(m, t, ok)
    \/ /\ m.st = "package"
       /\ \E v \in Versions, kind \in {"fits", "old", "other"} : OnPackage(m, t, v, kind)
    \/ m.st = "table" /\ \E res \in Results : OnTable(m, t, n, res)
    \/ m.st = "header" /\ OnHeader(m, t)
    \/ /\ m.st = "payload"
       /\ \E res1, res2, res \in Results : OnPayload(m, t, o, n, res1, res2, res)
    \/ /\ m.st = "finish"
       /\ ota' = Counted(m) /\ timer' = t /\ UNCHANGED <<nv, flash>>

LEMMA PacketDoes ==
    ASSUME Inv, NEW o \in 0 .. FileSize, NEW n \in 1 .. PacketMax, Packet(o, n)
    PROVE  \/ /\ ota' = Strange([ota EXCEPT !.misses = 0])
              /\ timer' = [timer EXCEPT !.check = TRUE] /\ UNCHANGED <<nv, flash>>
           \/ \E m \in Manager, t \in Timers : t.check /\ Took(m, o, n) /\ Handles(m, t, o, n)
<1> DEFINE t == [timer EXCEPT !.check = TRUE]
           m == [ota EXCEPT !.misses = 0, !.cur = o + n, !.errors = 0,
                            !.packets = IF @ > Report THEN @ ELSE @ + 1]
<1>1. /\ ota.on
      /\ \/ /\ ota' = Strange([ota EXCEPT !.misses = 0])
            /\ timer' = t /\ UNCHANGED <<nv, flash>>
         \/ /\ o = ota.cur
            /\ \/ ota.st = "protocol" /\ \E ok \in BOOLEAN : OnProtocol(m, t, ok)
               \/ /\ ota.st = "package"
                  /\ \E v \in Versions, kind \in {"fits", "old", "other"} : OnPackage(m, t, v, kind)
               \/ ota.st = "table" /\ \E res \in Results : OnTable(m, t, n, res)
               \/ ota.st = "header" /\ OnHeader(m, t)
               \/ /\ ota.st = "payload"
                  /\ \E res1, res2, res \in Results : OnPayload(m, t, o, n, res1, res2, res)
               \/ /\ ota.st = "finish"
                  /\ ota' = Counted(m) /\ timer' = t /\ UNCHANGED <<nv, flash>>
      BY DEF Packet
<1>2. t \in Timers /\ t.check
      BY DEF Inv, Timers
<1>3. o \in Nat /\ n \in Nat /\ o + n \in Nat
      BY HarmanOtaAssumption
<1>4. ASSUME o = ota.cur
      PROVE  Took(m, o, n)
  <2> DEFINE p == IF ota.packets > Report THEN ota.packets ELSE ota.packets + 1
  <2>1. ota \in Manager
        BY DEF Inv, Session
  <2>2. p \in 0 .. Report + 1
    <3>1. ota.packets \in 0 .. Report + 1
          BY <2>1 DEF Manager
    <3>2. QED
          BY <3>1, HarmanOtaAssumption
  <2>3. m = [ota EXCEPT !.misses = 0, !.cur = o + n, !.errors = 0, !.packets = p]
        BY <2>1 DEF Manager
  <2> HIDE DEF p, m
  <2>4. /\ m \in Manager /\ m.cur = o + n
        /\ m.st = ota.st /\ m.req = ota.req /\ m.rel = ota.rel /\ m.total = ota.total
        /\ m.img = ota.img /\ m.buf = ota.buf /\ m.on = ota.on /\ m.ver = ota.ver
        BY <1>3, <2>1, <2>2, <2>3, Zero DEF Manager
  <2>5. QED
        BY <1>1, <1>3, <1>4, <2>4 DEF Took
<1>5. ASSUME o = ota.cur
      PROVE  m \in Manager /\ m.st = ota.st
      BY <1>4, <1>5 DEF Took
<1> HIDE DEF t, m
<1>6. CASE /\ ota' = Strange([ota EXCEPT !.misses = 0])
           /\ timer' = t /\ UNCHANGED <<nv, flash>>
      BY <1>6 DEF t
<1>7. CASE o = ota.cur /\ Handles(m, t, o, n)
      BY <1>2, <1>4, <1>5, <1>7
<1>8. QED
      BY <1>1, <1>5, <1>6, <1>7 DEF Handles

LEMMA PacketKeeps ==
    ASSUME Inv, NEW o \in 0 .. FileSize, NEW n \in 1 .. PacketMax, Packet(o, n)
    PROVE  Inv'
<1>1. ASSUME NEW m \in Manager, NEW t \in Timers, t.check, Took(m, o, n), Handles(m, t, o, n)
      PROVE  Inv'
  <2>1. CASE m.st = "finish" /\ ota' = Counted(m) /\ timer' = t /\ UNCHANGED <<nv, flash>>
    <3>1. m.buf = ota.buf
          BY <1>1 DEF Took
    <3>2. ota' \in Manager /\ ota'.st = "finish" /\ ota'.buf = ota.buf
          BY <1>1, <2>1, <3>1, Zero DEF Counted, Manager
    <3>3. Session(ota')
          BY <3>2 DEF Inv, Session, Place
    <3>4. QED
          BY <1>1, <2>1, <3>3, GoesOn DEF Inv
  <2>2. CASE m.st = "payload" /\ \E res1, res2, res \in Results : OnPayload(m, t, o, n, res1, res2, res)
        BY <1>1, <2>2, OnPayloadKeeps
  <2>3. QED
        BY <1>1, <2>1, <2>2, OnProtocolKeeps, OnPackageKeeps, OnTableKeeps, OnHeaderKeeps DEF Handles
<1>2. QED
      BY <1>1, PacketDoes, StrangeKeeps

LEMMA TimeoutKeeps ==
    ASSUME Inv, Timeout
    PROVE  Inv'
<1>1. timer.check /\ UNCHANGED <<nv, flash>>
      BY DEF Timeout
<1>2. CASE ota.misses + 1 # Misses
  <2> DEFINE m == [ota EXCEPT !.misses = @ + 1]
  <2>1. ota' = Ask(m, ota.cur, ota.req) /\ timer' = timer
        BY <1>2 DEF Timeout
  <2>2. ota \in Manager /\ ota.misses + 1 \in 0 .. Misses - 1 /\ ota.cur \in Nat /\ ota.req \in Nat
    <3>1. ota \in Manager
          BY DEF Inv, Session
    <3>2. ota.misses \in 0 .. Misses - 1 /\ ota.cur \in Nat /\ ota.req \in Nat
          BY <3>1 DEF Manager
    <3>3. QED
          BY <1>2, <3>1, <3>2, HarmanOtaAssumption
  <2>3. /\ m \in Manager /\ m.st = ota.st /\ m.img = ota.img
        /\ m.rel = ota.rel /\ m.total = ota.total /\ m.buf = ota.buf
        BY <2>2 DEF Manager
  <2> HIDE DEF m
  <2>a. Asked(Ask(m, ota.cur, ota.req), m, ota.cur, ota.req)
        BY <2>2, <2>3, AskDoes
  <2>4. /\ ota' \in Manager /\ ota'.cur = ota.cur /\ ota'.req = ota.req
        /\ ota'.st = ota.st /\ ota'.img = ota.img
        /\ ota'.rel = ota.rel /\ ota'.total = ota.total /\ ota'.buf = ota.buf
        BY <2>1, <2>2, <2>3, <2>a DEF Asked
  <2>5. Session(ota')
        BY <2>4, StaysInPlace DEF Inv
  <2>6. QED
        BY <1>1, <2>1, <2>5, GoesOn DEF Inv
<1>3. CASE ota.misses + 1 = Misses
  <2>1. Exit
        BY <1>3 DEF Timeout
  <2>2. QED
        BY <1>1, <2>1, ExitKeeps DEF Inv
<1>4. QED
      BY <1>2, <1>3

LEMMA StartKeeps ==
    ASSUME Inv, Start
    PROVE  Inv'
<1> DEFINE m == [Idle EXCEPT !.on = TRUE, !.vpsrc = ota.vpsrc]
<1>1. ota.vpsrc \in BOOLEAN
      BY DEF Inv, Session, Manager
<1>2. Session([Idle EXCEPT !.vpsrc = ota.vpsrc])
      BY <1>1, IdleDoes
<1>3. m \in Manager /\ m.st = "protocol" /\ m.total = 0 /\ m.buf = << >>
      BY <1>1, <1>2 DEF Session, Idle, Manager
<1>4. ota' = Ask(m, 0, 1) /\ timer' = [timer EXCEPT !.check = FALSE] /\ UNCHANGED <<nv, flash>>
      BY DEF Start
<1> HIDE DEF m
<1>5. ota' \in Manager /\ ota'.st = "protocol" /\ ota'.total = 0 /\ ota'.buf = << >>
  <2>1. 0 \in Nat /\ 1 \in Nat
        OBVIOUS
  <2>2. Asked(Ask(m, 0, 1), m, 0, 1)
        BY <1>3, <2>1, AskDoes
  <2>3. QED
        BY <1>3, <1>4, <2>2 DEF Asked
<1>6. Len(<< >>) = 0 /\ 0 < BufferSize
      BY HarmanOtaAssumption
<1>7. Session(ota')
      BY <1>5, <1>6 DEF Session, Place
<1>8. timer' \in Timers
      BY <1>4 DEF Inv, Timers
<1>9. QED
      BY <1>4, <1>5, <1>7, <1>8 DEF Inv, Watches

LEMMA OldBankDoes == OldBank \in Bank
BY DEF OldBank, Bank, Cells

LEMMA InitInv == Init => Inv
<1> SUFFICES ASSUME Init PROVE Inv
    OBVIOUS
<1>1. ota = Idle /\ timer = [check |-> FALSE, delay |-> "none"]
      BY DEF Init
<1>2. Session(ota) /\ ~ota.on /\ timer \in Timers
      BY <1>1, RestDoes
<1>3. nv \in Settings /\ Noted(nv)
      BY Zero DEF Init, Settings, Noted
<1>4. QED
      BY <1>2, <1>3, OldBankDoes DEF Inv, Watches, Init

LEMMA NextInv == Inv /\ [Next]_vars => Inv'
<1> SUFFICES ASSUME Inv, [Next]_vars PROVE Inv'
    OBVIOUS
<1>1. CASE Start
      BY <1>1, StartKeeps
<1>2. CASE Stop
      BY <1>2, ExitKeeps DEF Stop, Inv
<1>3. CASE AnyPacket
      BY <1>3, PacketKeeps DEF AnyPacket
<1>4. CASE Timeout
      BY <1>4, TimeoutKeeps
<1>5. CASE Disconnect
  <2>1. timer' \in Timers /\ timer'.delay # "none"
        BY <1>5 DEF Disconnect, Inv, Timers
  <2>2. UNCHANGED <<ota, nv, flash>>
        BY <1>5 DEF Disconnect
  <2>3. QED
        BY <2>1, <2>2 DEF Inv, Watches
<1>6. CASE Restart \/ PowerLost
  <2>1. /\ ota' = Idle /\ timer' = [check |-> FALSE, delay |-> "none"]
        /\ nv' = nv /\ flash' = flash
        BY <1>6 DEF Restart, PowerLost
  <2>2. Session(ota') /\ ~ota'.on /\ timer' \in Timers
        BY <2>1, RestDoes
  <2>3. QED
        BY <2>1, <2>2 DEF Inv, Watches
<1>7. CASE Boots
  <2>1. flash' \in Bank
        BY <1>7, OldBankDoes DEF Boots, Inv, Bank
  <2>2. QED
        BY <1>7, <2>1 DEF Boots, Inv, Watches
<1>8. CASE UNCHANGED vars
      BY <1>8 DEF vars, Inv, Watches
<1>9. QED
      BY <1>1, <1>2, <1>3, <1>4, <1>5, <1>6, <1>7, <1>8 DEF Next

-----------------------------------------------------------------------------
(* What is in flash.                                                       *)

First == IF Vp THEN 1 ELSE 0

LEMMA FirstDoes == First \in Firmware /\ \A i \in Firmware : i # First => i > First
BY HarmanOtaAssumption DEF First, Firmware

\* An image that came whole, and came from one package.
Done(f, i) == \E v \in Versions : \A q \in 0 .. Size - 1 : f.cell[i][q] = v

\* Written up to r units of image i: what is left of the bank that was there
\* begins behind, and the boot code does not take it.
Reached(f, i, r) ==
    /\ \A j \in Firmware : j < i => Done(f, j)
    /\ i \in Firmware => \A q \in 0 .. Size - 1 : q < r => f.cell[i][q] # 0
    /\ i > 0 \/ r > 0 => ~f.ready[First]

Ready(f) == \A i \in Firmware : f.ready[i]
Untouched(f) == \A i \in Firmware, q \in 0 .. Size - 1 : f.cell[i][q] = 0

\* Where a session is in flash, where the breakpoint is, and what may be booted.
Goes(m, f) ==
    /\ m.on \/ m.st = "protocol"
    /\ m.st \in {"table", "header", "payload"} => m.ver \in Versions
    /\ m.st = "header" => Reached(f, m.img, 0)
    /\ m.st = "payload" => Len(m.buf) <= m.rel /\ Reached(f, m.img, m.rel - Len(m.buf))
Back(n, f) == n.offset # 0 => Reached(f, n.img, n.rel)
Whole(f) == Ready(f) => Untouched(f) \/ \A i \in Firmware : Done(f, i)

Tracked(m, n, f) == Goes(m, f) /\ Back(n, f) /\ Whole(f)

\* A cell before the block is left alone, one of the block holds the version
\* or nonsense, and the version when the right unit was written to it.
LEMMA WrittenBefore ==
    ASSUME NEW cells, NEW i, NEW pos \in Nat, NEW data, Len(data) \in Nat, NEW ver, NEW res,
           NEW q \in 0 .. Size - 1, q < pos
    PROVE  Written(cells, i, pos, data, ver, res)[q] = cells[q]
<1>1. q \notin pos .. pos + Len(data) - 1
      BY HarmanOtaAssumption
<1>2. QED
      BY <1>1 DEF Written

LEMMA WrittenThere ==
    ASSUME NEW cells, NEW i, NEW pos \in Nat, NEW data, Len(data) \in Nat, NEW ver, NEW res,
           NEW q \in 0 .. Size - 1, q >= pos, q < pos + Len(data)
    PROVE  /\ Written(cells, i, pos, data, ver, res)[q] \in {ver, Bad}
           /\ res = "ok" /\ data[q - pos + 1] = Off(i) + q
              => Written(cells, i, pos, data, ver, res)[q] = ver
<1>1. q \in pos .. pos + Len(data) - 1
      BY HarmanOtaAssumption
<1>2. Written(cells, i, pos, data, ver, res)[q] =
        IF res # "bad" /\ data[q - pos + 1] = Off(i) + q THEN ver ELSE Bad
      BY <1>1 DEF Written
<1>3. QED
      BY <1>2

\* w is flash f with a buffer written to image i from pos on.
Wrote(w, f, i, pos, data, ver, res) ==
    /\ Vp /\ i = 0 =>
          /\ \A j \in 0 .. Images - 1 : ~w.ready[j]
          /\ \A j \in 0 .. Images - 1 : j \notin Firmware => w.cell[j] = f.cell[j]
          /\ w.tmp = Written(f.tmp, i, pos, data, ver, res)
    /\ ~(Vp /\ i = 0) =>
          /\ w.cell[i] = Written(f.cell[i], i, pos, data, ver, res)
          /\ \A j \in 0 .. Images - 1 : j # i => w.cell[j] = f.cell[j] /\ w.ready[j] = f.ready[j]
          /\ w.ready[i] = IF pos = 0 THEN FALSE ELSE f.ready[i]
          /\ w.tmp = f.tmp

LEMMA WriteGives ==
    ASSUME NEW f \in Bank, NEW i \in 0 .. Images - 1, NEW pos, NEW data, NEW ver, NEW res
    PROVE  Wrote(Write(f, i, pos, data, ver, res), f, i, pos, data, ver, res)
<1> DEFINE x == Written(f.cell[i], i, pos, data, ver, res)
           y == Written(f.tmp, i, pos, data, ver, res)
           w == Write(f, i, pos, data, ver, res)
<1>1. CASE Vp /\ i = 0
  <2>1. w = [cell  |-> [j \in 0 .. Images - 1 |->
                          IF j \in Firmware THEN [q \in 0 .. Size - 1 |-> Bad] ELSE f.cell[j]],
             ready |-> [j \in 0 .. Images - 1 |-> FALSE],
             tmp   |-> y]
        BY <1>1 DEF Write
  <2> HIDE DEF w, y
  <2>2. /\ \A j \in 0 .. Images - 1 : ~w.ready[j]
        /\ \A j \in 0 .. Images - 1 : j \notin Firmware => w.cell[j] = f.cell[j]
        /\ w.tmp = y
        BY <2>1
  <2>3. QED
        BY <1>1, <2>2 DEF Wrote, w, y
<1>2. CASE ~(Vp /\ i = 0)
  <2>1. w = [f EXCEPT !.cell[i] = x, !.ready[i] = IF pos = 0 THEN FALSE ELSE @]
        BY <1>2 DEF Write
  <2> HIDE DEF w, x
  <2>2. /\ w.cell[i] = x
        /\ \A j \in 0 .. Images - 1 : j # i => w.cell[j] = f.cell[j] /\ w.ready[j] = f.ready[j]
        /\ w.ready[i] = IF pos = 0 THEN FALSE ELSE f.ready[i]
        /\ w.tmp = f.tmp
        BY <2>1 DEF Bank
  <2>3. QED
        BY <1>2, <2>2 DEF Wrote, w, x
<1>3. QED
      BY <1>1, <1>2

\* A block that follows what has been written brings a session further, and
\* the bank is not booted.
LEMMA WriteReached ==
    ASSUME NEW f \in Bank, NEW i \in 0 .. Images - 1, NEW pos \in Nat, NEW data \in Seq(Nat),
           NEW ver \in Versions, NEW res, Reached(f, i, pos)
    PROVE  LET w == Write(f, i, pos, data, ver, res) IN
           Reached(w, i, pos + Len(data)) /\ ~w.ready[First]
<1> DEFINE w == Write(f, i, pos, data, ver, res)
<1>1. Wrote(w, f, i, pos, data, ver, res)
      BY WriteGives
<1> HIDE DEF w
<1>2. First \in Firmware /\ First \in 0 .. Images - 1 /\ Len(data) \in Nat /\ i \in Nat
      BY FirstDoes DEF Firmware
<1>3. CASE Vp /\ i = 0
  <2>1. ~w.ready[First]
        BY <1>1, <1>2, <1>3 DEF Wrote
  <2>2. i \notin Firmware /\ \A j \in Firmware : ~(j < i)
        BY <1>3 DEF Firmware
  <2>3. QED
        BY <2>1, <2>2 DEF Reached, w
<1>4. CASE ~(Vp /\ i = 0)
  <2>1. i \in Firmware
        BY <1>4, HarmanOtaAssumption DEF Firmware
  <2>2. ~w.ready[First]
    <3>1. CASE i = First
      <4>1. CASE pos = 0
            BY <1>1, <1>4, <3>1, <4>1 DEF Wrote
      <4>2. CASE pos # 0
        <5>1. pos > 0
              BY <4>2
        <5>2. ~f.ready[First]
              BY <5>1 DEF Reached
        <5>3. w.ready[i] = f.ready[i]
              BY <1>1, <1>4, <4>2, Zenon DEF Wrote
        <5>4. QED
              BY <3>1, <5>2, <5>3
      <4>3. QED
            BY <4>1, <4>2
    <3>2. CASE i # First
      <4>1. i > 0
            BY <2>1, <3>2, FirstDoes, HarmanOtaAssumption DEF First
      <4>2. QED
            BY <1>1, <1>2, <1>4, <3>2, <4>1 DEF Wrote, Reached
    <3>3. QED
          BY <3>1, <3>2
  <2>3. ASSUME NEW j \in Firmware, j < i PROVE Done(w, j)
    <3>1. w.cell[j] = f.cell[j]
          BY <1>1, <1>4, <2>3 DEF Wrote, Firmware
    <3>2. QED
          BY <2>3, <3>1 DEF Reached, Done
  <2>4. ASSUME NEW q \in 0 .. Size - 1, q < pos + Len(data) PROVE w.cell[i][q] # 0
    <3>1. w.cell[i] = Written(f.cell[i], i, pos, data, ver, res)
          BY <1>1, <1>4 DEF Wrote
    <3>2. CASE q < pos
      <4>0. Written(f.cell[i], i, pos, data, ver, res)[q] = f.cell[i][q]
            BY <1>2, <2>4, <3>2, WrittenBefore
      <4>1. w.cell[i][q] = f.cell[i][q]
            BY <3>1, <4>0
      <4>2. QED
            BY <2>1, <3>2, <4>1 DEF Reached
    <3>3. CASE ~(q < pos)
      <4>a. q >= pos
            BY <3>3, HarmanOtaAssumption
      <4>0. Written(f.cell[i], i, pos, data, ver, res)[q] \in {ver, Bad}
            BY <1>2, <2>4, <4>a, WrittenThere
      <4>1. w.cell[i][q] \in {ver, Bad}
            BY <3>1, <4>0
      <4>2. QED
            BY <4>1, HarmanOtaAssumption DEF Bad
    <3>4. QED
          BY <3>2, <3>3
  <2>5. QED
        BY <2>2, <2>3, <2>4 DEF Reached, w
<1>5. QED
      BY <1>3, <1>4

\* The buffer of a session is written and noted.
LEMMA FlushTracks ==
    ASSUME NEW r \in Manager, InImage(r), Len(r.buf) <= r.rel, r.ver \in Versions,
           NEW f \in Bank, Reached(f, r.img, r.rel - Len(r.buf)), NEW n \in Settings, NEW res
    PROVE  /\ Reached(Flushed(r, f, res), r.img, r.rel)
           /\ Whole(Flushed(r, f, res))
           /\ Back(Note(r, n, res), Flushed(r, f, res))
<1> DEFINE p == r.rel - Len(r.buf)
           w == Flushed(r, f, res)
           s == Note(r, n, res)
<1>1. /\ r.img \in 0 .. Images - 1 /\ r.rel \in Nat /\ r.buf \in Seq(Nat) /\ Len(r.buf) \in Nat
      BY DEF Manager
<1>2. p \in Nat /\ p + Len(r.buf) = r.rel
      BY <1>1
<1>3. w = Write(f, r.img, p, r.buf, r.ver, res)
      BY DEF Flushed
<1> HIDE DEF p, w
<1>4. Reached(w, r.img, p + Len(r.buf)) /\ ~w.ready[First]
      BY <1>1, <1>2, <1>3, WriteReached DEF p
<1>5. Reached(w, r.img, r.rel)
      BY <1>2, <1>4
<1>6. Whole(w)
      BY <1>4, FirstDoes DEF Whole, Ready
<1>7. s.offset # 0 => s.img = r.img /\ s.rel = r.rel
      BY DEF s, Note, Save, Clear, Settings
<1> HIDE DEF s
<1>8. Back(s, w)
      BY <1>5, <1>7 DEF Back
<1>9. QED
      BY <1>5, <1>6, <1>8 DEF w, s

-----------------------------------------------------------------------------
(* Where a session is in flash.                                            *)

\* An image that is written to its end and sound is of one package.
LEMMA SoundIsDone ==
    ASSUME NEW f, NEW i \in 0 .. Images - 1, Reached(f, i, Size), Sound(f.cell[i])
    PROVE  /\ \A j \in Firmware : j <= i => Done(f, j)
           /\ ~f.ready[First]
<1>1. 0 \in 0 .. Size - 1 /\ Size > 0 /\ \A q \in 0 .. Size - 1 : q < Size
      BY HarmanOtaAssumption
<1>2. ASSUME i \in Firmware PROVE Done(f, i)
  <2>1. PICK v \in Versions \cup {0} : \A q \in 0 .. Size - 1 : f.cell[i][q] = v
        BY DEF Sound
  <2>2. f.cell[i][0] # 0
        BY <1>1, <1>2 DEF Reached
  <2>3. v \in Versions
        BY <1>1, <2>1, <2>2
  <2>4. QED
        BY <2>1, <2>3 DEF Done
<1>3. ASSUME NEW j \in Firmware, j <= i PROVE Done(f, j)
  <2>1. j < i \/ j = i
        BY <1>3, HarmanOtaAssumption DEF Firmware
  <2>2. QED
        BY <1>2, <1>3, <2>1 DEF Reached
<1>4. QED
      BY <1>1, <1>3 DEF Reached

\* f1 and n1 are the flash and the settings after the prompts were copied, if
\* they had to be.
Copied(m, f, n, res, f1, n1) ==
    /\ f1 \in Bank /\ n1 \in Settings
    /\ f1.ready = f.ready
    /\ \A j \in Firmware : f1.cell[j] = f.cell[j]
    /\ ~(Vp /\ m.img = 0 /\ n.vp) => f1 = f /\ n1 = n
    /\ Vp /\ m.img = 0 /\ n.vp =>
          /\ n1 = [n EXCEPT !.vp = FALSE]
          /\ m.vpsrc /\ res = "ok" => f1.cell[0] = f.tmp

\* The image is sound: the next one is asked for, or the bank is sealed.
Passes(m, n, res, f1, n1) ==
    /\ ota'.on = m.on
    /\ m.img + 1 = Images =>
          /\ ota'.st = "finish"
          /\ nv' = Clear(n1)
          /\ flash' = [f1 EXCEPT !.ready = [j \in 0 .. Images - 1 |-> TRUE]]
    /\ m.img + 1 # Images =>
          /\ ota'.st = "header" /\ ota'.img = m.img + 1 /\ ota'.ver = m.ver
          /\ flash' = f1 /\ nv' \in {n1, Clear(n1)}
          /\ (Vp /\ m.img = 0 /\ n.vp => m.vpsrc /\ res = "ok" /\ Sound(f1.cell[0])) => nv' = n1

LEMMA EndCheckDoes ==
    ASSUME NEW m \in Manager, NEW f \in Bank, NEW n \in Settings, NEW t, NEW res,
           EndCheck(m, f, n, t, res), Sound(f.cell[m.img])
    PROVE  \E f1, n1 : Copied(m, f, n, res, f1, n1) /\ Passes(m, n, res, f1, n1)
<1> DEFINE copying == Vp /\ m.img = 0 /\ n.vp
           f1      == IF copying THEN Copies(m, f, res) ELSE f
           failed  == copying /\ (~m.vpsrc \/ res # "ok" \/ ~Sound(f1.cell[0]))
           last    == m.img + 1 = Images
           n1      == IF copying THEN [n EXCEPT !.vp = FALSE] ELSE n
<1>1. /\ flash' = IF last THEN [f1 EXCEPT !.ready = [j \in 0 .. Images - 1 |-> TRUE]] ELSE f1
      /\ nv' = IF failed \/ last THEN Clear(n1) ELSE n1
      /\ ota' = IF last
                THEN [Ask(m, Images * Size, 0) EXCEPT !.st = "finish", !.img = 0, !.rel = 0]
                ELSE [Ask(m, Off(m.img + 1) + Control, 1) EXCEPT
                         !.st = "header", !.img = m.img + 1, !.rel = 0]
      BY DEF EndCheck
<1>2. f1 \in Bank
  <2>1. [q \in 0 .. Size - 1 |-> Bad] \in Cells
        BY DEF Cells
  <2>2. QED
        BY <2>1 DEF Copies, Bank
<1>3. f1.ready = f.ready /\ \A j \in Firmware : f1.cell[j] = f.cell[j]
  <2>1. Vp => 0 \notin Firmware
        BY DEF Firmware
  <2>2. QED
        BY <2>1 DEF Copies, Bank, Firmware
<1>4. copying /\ m.vpsrc /\ res = "ok" => f1.cell[0] = f.tmp
      BY Zero DEF Copies, Bank
<1>5. n1 \in Settings
      BY DEF Settings
<1>6. Copied(m, f, n, res, f1, n1)
      BY <1>2, <1>3, <1>4, <1>5 DEF Copied
<1> DEFINE c == IF last THEN Images * Size ELSE Off(m.img + 1) + Control
           k == IF last THEN 0 ELSE 1
           a == Ask(m, c, k)
<1>7. Asked(a, m, c, k)
  <2>1. c \in Nat
    <3>1. Images * Size \in Nat
          BY HarmanOtaAssumption
    <3>2. m.img + 1 \in Nat
          BY HarmanOtaAssumption DEF Manager
    <3>3. Off(m.img + 1) \in Nat /\ Control \in Nat
          BY <3>2, OffDoes
    <3>4. Off(m.img + 1) + Control \in Nat
          BY <3>3
    <3>5. QED
          BY <3>1, <3>4
  <2> HIDE DEF c
  <2>2. QED
        BY <2>1, AskDoes
<1>8. ota' = IF last THEN [a EXCEPT !.st = "finish", !.img = 0, !.rel = 0]
             ELSE [a EXCEPT !.st = "header", !.img = m.img + 1, !.rel = 0]
      BY <1>1
<1> HIDE DEF a, c, k
<1>9. /\ ota'.on = m.on
      /\ last => ota'.st = "finish"
      /\ ~last => ota'.st = "header" /\ ota'.img = m.img + 1 /\ ota'.ver = m.ver
  <2>1. a \in Manager /\ a.on = m.on /\ a.ver = m.ver
        BY <1>7 DEF Asked
  <2> HIDE DEF last
  <2>2. CASE last
        BY <1>8, <2>1, <2>2 DEF Manager
  <2>3. CASE ~last
        BY <1>8, <2>1, <2>3 DEF Manager
  <2>4. QED
        BY <2>2, <2>3
<1>10. Passes(m, n, res, f1, n1)
  <2> HIDE DEF f1, n1
  <2>1. CASE last
        BY <1>1, <1>9, <2>1 DEF Passes
  <2>2. CASE ~last
    <3>1. flash' = f1 /\ nv' = IF failed THEN Clear(n1) ELSE n1
          BY <1>1, <2>2
    <3>2. (copying => m.vpsrc /\ res = "ok" /\ Sound(f1.cell[0])) => ~failed
          OBVIOUS
    <3> HIDE DEF failed
    <3>3. QED
          BY <1>9, <2>2, <3>1, <3>2 DEF Passes
  <2>3. QED
        BY <2>1, <2>2
<1>11. QED
       BY <1>6, <1>10

\* The check of an image, and of a session that goes on behind one.
LEMMA EndCheckTracks ==
    ASSUME NEW m \in Manager, m.on, m.rel = Size, m.ver \in Versions,
           m.st = "table" \/ (m.st = "payload" /\ Len(m.buf) = 0),
           NEW f \in Bank, Reached(f, m.img, Size), Whole(f),
           NEW n \in Settings, Back(n, f), NEW t, NEW res, EndCheck(m, f, n, t, res)
    PROVE  Tracked(ota', nv', flash')
<1>1. m.img \in 0 .. Images - 1 /\ m.img \in Nat
      BY HarmanOtaAssumption DEF Manager
<1>2. CASE ~Sound(f.cell[m.img])
  <2>1. ota' = m /\ flash' = f /\ nv' = Clear(n)
        BY <1>2 DEF EndCheck
  <2>2. nv'.offset = 0
        BY <2>1 DEF Clear, Settings
  <2>3. m.st = "payload" => Len(m.buf) <= m.rel /\ m.rel - Len(m.buf) = Size
        BY HarmanOtaAssumption
  <2>4. Goes(m, f)
        BY <2>3 DEF Goes
  <2>5. QED
        BY <2>1, <2>2, <2>4 DEF Tracked, Back
<1>3. CASE Sound(f.cell[m.img])
  <2>1. PICK f1, n1 : Copied(m, f, n, res, f1, n1) /\ Passes(m, n, res, f1, n1)
        BY <1>3, EndCheckDoes
  <2>2. (\A j \in Firmware : j <= m.img => Done(f1, j)) /\ ~f1.ready[First]
    <3>1. (\A j \in Firmware : j <= m.img => Done(f, j)) /\ ~f.ready[First]
          BY <1>1, <1>3, SoundIsDone
    <3>2. QED
          BY <2>1, <3>1 DEF Copied, Done
  <2>3. Back(Clear(n1), f1) /\ Back(Clear(n1), flash')
        BY <2>1 DEF Back, Clear, Settings, Copied
  <2>4. CASE m.img + 1 = Images
    <3>1. ASSUME NEW i \in Firmware PROVE Done(flash', i)
      <4>1. i <= m.img
            BY <1>1, <2>4, HarmanOtaAssumption DEF Firmware
      <4>2. flash'.cell = f1.cell
            BY <2>1, <2>4 DEF Passes, Copied, Bank
      <4>3. QED
            BY <2>2, <4>1, <4>2 DEF Done
    <3>2. QED
          BY <2>1, <2>3, <2>4, <3>1 DEF Tracked, Goes, Whole, Passes
  <2>5. CASE m.img + 1 # Images
    <3>1. flash' = f1 /\ nv' \in {n1, Clear(n1)} /\ ota'.on /\ ota'.st = "header"
          /\ ota'.img = m.img + 1 /\ ota'.ver = m.ver
          BY <2>1, <2>5 DEF Passes
    <3>2. Reached(f1, m.img + 1, 0)
      <4>1. \A j \in Firmware : j < m.img + 1 => j <= m.img
            BY <1>1, HarmanOtaAssumption DEF Firmware
      <4>2. \A q \in 0 .. Size - 1 : ~(q < 0)
            BY HarmanOtaAssumption
      <4>3. QED
            BY <2>2, <4>1, <4>2 DEF Reached
    <3>3. Back(n1, f1)
      <4>1. n1.offset = n.offset /\ n1.img = n.img /\ n1.rel = n.rel
            BY <2>1 DEF Copied, Settings
      <4>2. n.offset # 0 => Reached(f, n.img, n.rel)
            BY DEF Back
      <4>3. Reached(f, n.img, n.rel) => Reached(f1, n.img, n.rel)
            BY <2>1 DEF Reached, Copied, Done
      <4>4. QED
            BY <4>1, <4>2, <4>3 DEF Back
    <3>4. Whole(f1)
          BY <2>2, FirstDoes DEF Whole, Ready
    <3>5. QED
          BY <2>3, <3>1, <3>2, <3>3, <3>4 DEF Tracked, Goes
  <2>6. QED
        BY <2>4, <2>5
<1>4. QED
      BY <1>2, <1>3

\* On from the breakpoint: behind an image, or inside it; or from the first.
Begun(m, t, res) ==
    \/ /\ nv.offset # 0 /\ nv.rel = Size
       /\ \E r \in Manager :
             /\ r.on = m.on /\ r.st = m.st /\ r.ver = m.ver
             /\ r.img = nv.img /\ r.rel = Size
             /\ EndCheck(r, flash, nv, t, res)
    \/ /\ nv.offset # 0 /\ nv.rel < Size
       /\ ota'.st = "payload" /\ ota'.on = m.on /\ ota'.ver = m.ver
       /\ ota'.img = nv.img /\ ota'.rel = nv.rel /\ ota'.buf = << >>
       /\ UNCHANGED <<nv, flash>>
    \/ /\ nv.offset = 0
       /\ ota'.st = "header" /\ ota'.on = m.on /\ ota'.ver = m.ver
       /\ ota'.img = 0
       /\ UNCHANGED <<nv, flash>>

LEMMA BeginDoes ==
    ASSUME nv \in Settings, NEW m \in Manager, NEW t, NEW res, Begin(m, t, res)
    PROVE  Begun(m, t, res)
<1>1. nv.img \in 0 .. Images - 1 /\ nv.img \in Nat /\ nv.rel \in 0 .. Size /\ nv.rel \in Nat /\ nv.offset \in Nat
      BY HarmanOtaAssumption DEF Settings
<1> DEFINE r == [m EXCEPT !.img = nv.img, !.rel = nv.rel, !.total = nv.offset]
           p == [r EXCEPT !.st = "payload", !.buf = << >>]
           h == [m EXCEPT !.st = "header", !.img = 0, !.rel = 0]
<1>2. /\ r \in Manager /\ r.on = m.on /\ r.st = m.st /\ r.ver = m.ver
      /\ r.img = nv.img /\ r.rel = nv.rel
      BY <1>1, ZenonT(60) DEF Manager
<1>3. /\ nv.offset # 0 /\ nv.rel = Size => EndCheck(r, flash, nv, t, res)
      /\ nv.offset # 0 /\ nv.rel # Size =>
            /\ ota' = Ask(p, Off(nv.img) + nv.rel, Size - nv.rel)
            /\ UNCHANGED <<nv, flash>>
      /\ nv.offset = 0 =>
            /\ ota' = Ask(h, Off(0) + Control, 1)
            /\ UNCHANGED <<nv, flash>>
      BY DEF Begin
<1> HIDE DEF r
<1>4. CASE nv.offset # 0 /\ nv.rel = Size
      BY <1>2, <1>3, <1>4 DEF Begun
<1>5. CASE nv.offset # 0 /\ nv.rel # Size
  <2> DEFINE b == Off(nv.img)
             c == b + nv.rel
             s == Size - nv.rel
  <2>1. nv.rel < Size
        BY <1>1, <1>5, HarmanOtaAssumption
  <2>2. b \in Nat
        BY <1>1, OffDoes
  <2> HIDE DEF b
  <2>3. c \in Nat /\ s \in Nat
        BY <1>1, <2>1, <2>2, HarmanOtaAssumption
  <2>4. << >> \in Seq(Nat)
        OBVIOUS
  <2>5. /\ p \in Manager /\ p.on = m.on /\ p.st = "payload" /\ p.ver = m.ver
        /\ p.img = nv.img /\ p.rel = nv.rel /\ p.buf = << >>
        BY <1>2, <2>4 DEF Manager
  <2>6. ota' = Ask(p, c, s) /\ UNCHANGED <<nv, flash>>
        BY <1>3, <1>5 DEF b
  <2> HIDE DEF p, c, s
  <2>7. Asked(Ask(p, c, s), p, c, s)
        BY <2>3, <2>5, AskDoes
  <2>8. QED
        BY <1>5, <2>1, <2>5, <2>6, <2>7 DEF Begun, Asked
<1>6. CASE nv.offset = 0
  <2> DEFINE c == Off(0) + Control
  <2>1. 0 \in Nat /\ 1 \in Nat
        OBVIOUS
  <2>2. Off(0) \in Nat /\ Control \in Nat
        BY <2>1, OffDoes
  <2>3. c \in Nat
        BY <2>2
  <2>4. h \in Manager /\ h.on = m.on /\ h.st = "header" /\ h.ver = m.ver /\ h.img = 0
        BY <2>1, Zero DEF Manager
  <2>5. ota' = Ask(h, c, 1) /\ UNCHANGED <<nv, flash>>
        BY <1>3, <1>6
  <2> HIDE DEF h, c
  <2>6. Asked(Ask(h, c, 1), h, c, 1)
        BY <2>1, <2>3, <2>4, AskDoes
  <2>7. QED
        BY <1>6, <2>4, <2>5, <2>6 DEF Begun, Asked
<1>7. QED
      BY <1>4, <1>5, <1>6

LEMMA OnTableDoes ==
    ASSUME Inv, NEW m, NEW o, NEW n, Took(m, o, n), m.st = "table",
           NEW t, NEW res, OnTable(m, t, n, res)
    PROVE  \/ /\ ota'.st = "table" /\ ota'.on = m.on /\ ota'.ver = m.ver
              /\ UNCHANGED <<nv, flash>>
           \/ \E r \in Manager :
                 r.on = m.on /\ r.st = "table" /\ r.ver = m.ver /\ Begun(r, t, res)
<1> DEFINE len == IF m.rel + n > TableSize THEN TableSize - m.rel ELSE n
           r   == [m EXCEPT !.rel = @ + len, !.req = @ - len]
<1>1. /\ m.rel < TableSize
      /\ r.rel = TableSize => Begin(r, t, res)
      /\ r.rel # TableSize =>
            /\ ota' \in {Ask(r, 1 + r.rel, TableSize - r.rel), r}
            /\ nv' = nv /\ flash' = flash
      BY DEF OnTable
<1>2. m \in Manager /\ n \in Nat /\ TableSize \in Nat
      BY HarmanOtaAssumption DEF Took
<1>3. m.req = TableSize - m.rel
      BY <1>1 DEF Took, Inv, Session, Place
<1>4. m.rel \in Nat /\ m.req \in Nat
      BY <1>2 DEF Manager
<1>5. /\ len \in Nat /\ m.rel + len <= TableSize
      /\ m.rel + len \in Nat /\ m.req - len \in Nat
      BY <1>1, <1>2, <1>3, <1>4, SMTT(60)
<1> HIDE DEF len
<1>6. /\ r \in Manager /\ r.on = m.on /\ r.st = "table" /\ r.ver = m.ver /\ r.rel = m.rel + len
      BY <1>2, <1>5, ZenonT(60) DEF Manager
<1> HIDE DEF r
<1>7. CASE r.rel = TableSize
  <2>1. Begun(r, t, res)
        BY <1>1, <1>6, <1>7, BeginDoes DEF Inv
  <2>2. QED
        BY <1>6, <2>1
<1>8. CASE r.rel # TableSize
  <2> DEFINE c == 1 + r.rel
             s == TableSize - r.rel
  <2>1. c \in Nat /\ s \in Nat
        BY <1>2, <1>4, <1>5, <1>6
  <2>2. ota' = Ask(r, c, s) \/ ota' = r
        BY <1>1, <1>8
  <2> HIDE DEF c, s
  <2>3. Asked(Ask(r, c, s), r, c, s)
        BY <1>6, <2>1, AskDoes
  <2>4. QED
        BY <1>1, <1>6, <1>8, <2>2, <2>3 DEF Asked
<1>9. QED
      BY <1>7, <1>8

\* Nothing is written, and the session is where it was.
LEMMA SameTracks ==
    ASSUME Tracked(ota, nv, flash), SameWork(ota', ota), UNCHANGED <<nv, flash>>
    PROVE  Tracked(ota', nv', flash')
BY DEF Tracked, Goes, SameWork

\* A session that ends, has not got to the table yet, or is through.
LEMMA IdleTracks ==
    ASSUME Tracked(ota, nv, flash), ota'.on \/ ota'.st = "protocol",
           ota'.st \notin {"table", "header", "payload"},
           nv' = nv \/ nv' = Clear(nv), nv \in Settings, flash' = flash
    PROVE  Tracked(ota', nv', flash')
<1>1. Clear(nv).offset = 0
      BY DEF Clear, Settings
<1>2. QED
      BY <1>1 DEF Tracked, Goes, Back

LEMMA StrangeDoes ==
    ASSUME Inv, ota' = Strange([ota EXCEPT !.misses = 0])
    PROVE  SameWork(ota', ota)
<1>1. ota \in Manager
      BY DEF Inv, Session
<1>2. QED
      BY <1>1 DEF Strange, Ask, SameWork, Manager

LEMMA TimeoutDoes ==
    ASSUME Inv, Timeout
    PROVE  (SameWork(ota', ota) \/ Exit) /\ UNCHANGED <<nv, flash>>
<1>1. ota \in Manager
      BY DEF Inv, Session
<1>2. QED
      BY <1>1 DEF Timeout, Ask, SameWork, Manager

LEMMA ExitDoes == Exit => ota'.st = "protocol"
BY DEF Exit, Idle

LEMMA OnProtocolDoes ==
    ASSUME NEW m \in Manager, NEW t, NEW ok, OnProtocol(m, t, ok)
    PROVE  /\ ota'.st = "protocol" \/ (ota'.st = "package" /\ ota'.on = m.on)
           /\ nv' = nv \/ nv' = Clear(nv)
           /\ flash' = flash
BY ExitDoes DEF OnProtocol, Ask, Manager

LEMMA OnPackageDoes ==
    ASSUME NEW m \in Manager, NEW t, NEW v, NEW kind, OnPackage(m, t, v, kind)
    PROVE  /\ flash' = flash
           /\ \/ ota'.st = "protocol" /\ nv' = Clear(nv)
              \/ /\ ota'.st = "table" /\ ota'.on = m.on /\ ota'.ver = v
                 /\ nv.record \in {0, v}
                 /\ nv' = IF nv.record = 0 THEN [nv EXCEPT !.record = v] ELSE nv
<1>1. CASE kind = "fits" /\ nv.record \in {0, v}
      BY <1>1 DEF OnPackage, Ask, Manager
<1>2. CASE ~(kind = "fits" /\ nv.record \in {0, v})
      BY <1>2, ExitDoes DEF OnPackage
<1>3. QED
      BY <1>1, <1>2

LEMMA OnHeaderDoes ==
    ASSUME Inv, NEW m, NEW o, NEW n, Took(m, o, n), m.st = "header", NEW t, OnHeader(m, t)
    PROVE  /\ ota'.st = "payload" /\ ota'.on = m.on /\ ota'.ver = m.ver
           /\ ota'.img = m.img /\ ota'.rel = 0 /\ ota'.buf = << >>
           /\ UNCHANGED <<nv, flash>>
<1>1. m \in Manager /\ m.rel = 0
      BY DEF Took, Inv, Session, Place
<1>2. QED
      BY <1>1 DEF OnHeader, Ask, Manager

LEMMA FinishDoes ==
    ASSUME NEW m \in Manager, ota' = Counted(m), m.st = "finish"
    PROVE  ota'.st = "finish" /\ ota'.on = m.on
BY DEF Counted, Manager

LEMMA OnPayloadTracks ==
    ASSUME Inv, Tracked(ota, nv, flash), NEW m, NEW o, NEW n, Took(m, o, n), m.st = "payload",
           NEW t, NEW res1, NEW res2, NEW res, Taking(m, t, o, res1, res2, res)
    PROVE  Tracked(ota', nv', flash')
<1>1. /\ m \in Manager /\ m.on /\ m.ver \in Versions /\ Len(m.buf) <= m.rel
      /\ Reached(flash, m.img, m.rel - Len(m.buf))
      /\ m.rel \in Nat /\ Len(m.buf) \in Nat
      BY DEF Took, Tracked, Goes, Manager
<1>2. nv \in Settings /\ flash \in Bank
      BY DEF Inv
<1>3. PICK a \in Manager, k \in Nat :
        /\ Gathers(m, a, o, k, m.buf)
        /\ \/ /\ a.rel < Size /\ Session(ota') /\ SameWork(ota', a)
              /\ timer' = t /\ UNCHANGED <<nv, flash>>
           \/ \E b \in Manager, l \in Nat, t2 \in Timers :
                 /\ Gathers(a, b, o + k, l, << >>) /\ (Vp /\ m.img = 0 => b.vpsrc) /\ t2.check
                 /\ \/ /\ b.rel < Size /\ Session(ota') /\ SameWork(ota', b) /\ timer' = t2
                       /\ flash' = Flushed(a, flash, res1) /\ nv' = Note(a, nv, res1)
                    \/ /\ l = 0 /\ Session(b) /\ Ended(b)
                       /\ EndCheck(b, Flushed(a, flash, res1), Note(a, nv, res1), t2, res)
                    \/ \E c \in Manager :
                          /\ c = [b EXCEPT !.buf = << >>] /\ Session(c) /\ Ended(c)
                          /\ EndCheck(c, Flushed(b, Flushed(a, flash, res1), res2),
                                      Note(b, Note(a, nv, res1), res2), t2, res)
      BY DEF Taking
<1>4. /\ a.on /\ a.st = "payload" /\ a.ver \in Versions /\ a.img = m.img /\ InImage(a)
      /\ Len(a.buf) <= a.rel /\ a.rel - Len(a.buf) = m.rel - Len(m.buf)
      /\ Reached(flash, a.img, a.rel - Len(a.buf))
  <2>1. a.rel = m.rel + k /\ Len(a.buf) = Len(m.buf) + k
        BY <1>3 DEF Gathers
  <2>2. Len(a.buf) <= a.rel /\ a.rel - Len(a.buf) = m.rel - Len(m.buf)
        BY <1>1, <2>1
  <2>3. QED
        BY <1>1, <1>3, <2>2 DEF Gathers
<1>5. CASE /\ a.rel < Size /\ Session(ota') /\ SameWork(ota', a)
           /\ timer' = t /\ UNCHANGED <<nv, flash>>
      BY <1>4, <1>5 DEF Tracked, Goes, SameWork
<1> DEFINE f1 == Flushed(a, flash, res1)
           n1 == Note(a, nv, res1)
<1>6. f1 \in Bank /\ n1 \in Settings /\ Reached(f1, a.img, a.rel) /\ Whole(f1) /\ Back(n1, f1)
      BY <1>2, <1>4, FlushDoes, FlushTracks
<1>7. ASSUME NEW b \in Manager, NEW l \in Nat, NEW t2 \in Timers,
             Gathers(a, b, o + k, l, << >>),
             \/ /\ b.rel < Size /\ SameWork(ota', b)
                /\ flash' = f1 /\ nv' = n1
             \/ /\ l = 0 /\ Ended(b)
                /\ EndCheck(b, f1, n1, t2, res)
             \/ \E c \in Manager :
                   /\ c = [b EXCEPT !.buf = << >>] /\ Ended(c)
                   /\ EndCheck(c, Flushed(b, f1, res2), Note(b, n1, res2), t2, res)
      PROVE  Tracked(ota', nv', flash')
  <2> HIDE DEF f1, n1
  <2>1. a.rel \in Nat
        BY DEF Manager
  <2>2. b.rel = a.rel + l /\ Len(b.buf) = l
        BY <1>7 DEF Gathers
  <2>3. /\ b.on /\ b.st = "payload" /\ b.ver \in Versions /\ b.img = a.img /\ InImage(b)
        /\ Len(b.buf) <= b.rel /\ b.rel - Len(b.buf) = a.rel
        BY <1>4, <1>7, <2>1, <2>2 DEF Gathers
  <2>4. CASE /\ b.rel < Size /\ SameWork(ota', b)
             /\ flash' = f1 /\ nv' = n1
        BY <1>6, <2>3, <2>4 DEF Tracked, Goes, SameWork
  <2>5. CASE l = 0 /\ Ended(b) /\ EndCheck(b, f1, n1, t2, res)
    <3>1. b.rel = Size /\ Len(b.buf) = 0 /\ Reached(f1, b.img, Size)
          BY <1>6, <2>1, <2>2, <2>3, <2>5 DEF Ended
    <3>2. QED
          BY <1>6, <2>3, <2>5, <3>1, EndCheckTracks
  <2>6. ASSUME NEW c \in Manager, c = [b EXCEPT !.buf = << >>], Ended(c),
               EndCheck(c, Flushed(b, f1, res2), Note(b, n1, res2), t2, res)
        PROVE  Tracked(ota', nv', flash')
    <3> DEFINE f2 == Flushed(b, f1, res2)
               n2 == Note(b, n1, res2)
    <3>1. f2 \in Bank /\ n2 \in Settings /\ Reached(f2, b.img, b.rel) /\ Whole(f2) /\ Back(n2, f2)
          BY <1>6, <2>3, FlushDoes, FlushTracks
    <3>2. /\ c.on /\ c.st = "payload" /\ c.ver \in Versions /\ c.img = b.img
          /\ c.rel = b.rel /\ c.buf = << >>
          BY <2>3, <2>6 DEF Manager
    <3>3. c.rel = Size /\ Len(c.buf) = 0 /\ Reached(f2, c.img, Size)
          BY <2>6, <3>1, <3>2 DEF Ended
    <3>4. EndCheck(c, f2, n2, t2, res)
          BY <2>6
    <3> HIDE DEF f2, n2
    <3>5. QED
          BY <3>1, <3>2, <3>3, <3>4, EndCheckTracks
  <2>7. QED
        BY <1>7, <2>4, <2>5, <2>6
<1>8. QED
      BY <1>3, <1>5, <1>7

LEMMA HandlesTracks ==
    ASSUME Inv, Tracked(ota, nv, flash), NEW o, NEW n, NEW m \in Manager, NEW t \in Timers, t.check,
           Took(m, o, n), Handles(m, t, o, n)
    PROVE  Tracked(ota', nv', flash')
<1>1. nv \in Settings /\ flash \in Bank
      BY DEF Inv
<1>2. m.st = ota.st /\ m.on /\ m.ver = ota.ver /\ m.img = ota.img
      BY DEF Took
<1>3. ASSUME m.st = "protocol", NEW ok \in BOOLEAN, OnProtocol(m, t, ok)
      PROVE  Tracked(ota', nv', flash')
      BY <1>1, <1>2, <1>3, OnProtocolDoes, IdleTracks
<1>4. ASSUME m.st = "package", NEW v \in Versions, NEW kind, OnPackage(m, t, v, kind)
      PROVE  Tracked(ota', nv', flash')
  <2>1. CASE ota'.st = "protocol" /\ nv' = Clear(nv) /\ flash' = flash
        BY <1>1, <2>1, IdleTracks
  <2>2. CASE /\ ota'.st = "table" /\ ota'.on = m.on /\ ota'.ver = v /\ flash' = flash
             /\ nv' = IF nv.record = 0 THEN [nv EXCEPT !.record = v] ELSE nv
    <3>1. nv'.offset = nv.offset /\ nv'.img = nv.img /\ nv'.rel = nv.rel
          BY <1>1, <2>2 DEF Settings
    <3>2. QED
          BY <1>2, <1>4, <2>2, <3>1 DEF Tracked, Goes, Back
  <2>3. QED
        BY <1>4, <2>1, <2>2, OnPackageDoes
<1>5. ASSUME m.st = "table", NEW res \in Results, OnTable(m, t, n, res)
      PROVE  Tracked(ota', nv', flash')
  <2>1. m.ver \in Versions
        BY <1>2, <1>5 DEF Tracked, Goes
  <2>2. CASE /\ ota'.st = "table" /\ ota'.on = m.on /\ ota'.ver = m.ver
             /\ UNCHANGED <<nv, flash>>
        BY <1>2, <2>1, <2>2 DEF Tracked, Goes
  <2>3. ASSUME NEW r \in Manager, r.on = m.on, r.st = "table", r.ver = m.ver, Begun(r, t, res)
        PROVE  Tracked(ota', nv', flash')
    <3>1. ASSUME nv.offset # 0, nv.rel = Size, NEW e \in Manager, e.on = r.on, e.st = r.st, e.ver = r.ver,
                 e.img = nv.img, e.rel = Size, EndCheck(e, flash, nv, t, res)
          PROVE  Tracked(ota', nv', flash')
      <4>1. Reached(flash, e.img, Size) /\ Whole(flash) /\ Back(nv, flash)
            BY <3>1 DEF Tracked, Back
      <4>2. QED
            BY <1>1, <1>2, <2>1, <2>3, <3>1, <4>1, EndCheckTracks
    <3>2. CASE /\ nv.offset # 0 /\ nv.rel < Size
               /\ ota'.st = "payload" /\ ota'.on = r.on /\ ota'.ver = r.ver
               /\ ota'.img = nv.img /\ ota'.rel = nv.rel /\ ota'.buf = << >>
               /\ UNCHANGED <<nv, flash>>
      <4>1. nv.rel \in Nat /\ Len(<< >>) = 0
            BY <1>1 DEF Settings
      <4>2. Len(ota'.buf) <= ota'.rel /\ ota'.rel - Len(ota'.buf) = nv.rel
            BY <3>2, <4>1
      <4>3. QED
            BY <1>2, <2>1, <2>3, <3>2, <4>2 DEF Tracked, Goes, Back
    <3>3. CASE /\ nv.offset = 0
               /\ ota'.st = "header" /\ ota'.on = r.on /\ ota'.ver = r.ver
               /\ ota'.img = 0
               /\ UNCHANGED <<nv, flash>>
      <4>1. Reached(flash, 0, 0)
        <5>1. \A j \in Firmware : ~(j < 0)
              BY HarmanOtaAssumption DEF Firmware
        <5>2. \A q \in 0 .. Size - 1 : ~(q < 0)
              BY HarmanOtaAssumption
        <5>3. QED
              BY <5>1, <5>2 DEF Reached
      <4>2. QED
            BY <1>2, <2>1, <2>3, <3>3, <4>1 DEF Tracked, Goes
    <3>4. QED
          BY <2>3, <3>1, <3>2, <3>3 DEF Begun
  <2>4. QED
        BY <1>5, <2>2, <2>3, OnTableDoes
<1>6. ASSUME m.st = "header", OnHeader(m, t)
      PROVE  Tracked(ota', nv', flash')
  <2>1. /\ ota'.st = "payload" /\ ota'.on = m.on /\ ota'.ver = m.ver
        /\ ota'.img = m.img /\ ota'.rel = 0 /\ ota'.buf = << >>
        /\ UNCHANGED <<nv, flash>>
        BY <1>6, OnHeaderDoes
  <2>a. Len(<< >>) = 0
        OBVIOUS
  <2>b. Len(ota'.buf) = 0 /\ ota'.rel = 0
        BY <2>1, <2>a
  <2>2. Len(ota'.buf) <= ota'.rel /\ ota'.rel - Len(ota'.buf) = 0
        BY <2>b
  <2>3. QED
        BY <1>2, <1>6, <2>1, <2>2 DEF Tracked, Goes
<1>7. ASSUME m.st = "payload", NEW res1 \in Results, NEW res2 \in Results, NEW res \in Results,
             OnPayload(m, t, o, n, res1, res2, res)
      PROVE  Tracked(ota', nv', flash')
      BY <1>7, OnPayloadDoes, OnPayloadTracks
<1>8. ASSUME m.st = "finish", ota' = Counted(m), UNCHANGED <<nv, flash>>
      PROVE  Tracked(ota', nv', flash')
      BY <1>1, <1>2, <1>8, FinishDoes, IdleTracks
<1>9. QED
      BY <1>3, <1>4, <1>5, <1>6, <1>7, <1>8 DEF Handles

OnTrack == Tracked(ota, nv, flash)

LEMMA InitTracks == Init => OnTrack
BY DEF Init, OnTrack, Tracked, Goes, Back, Whole, Untouched, Idle, OldBank, Firmware

\* The bank that ran until now is the next to be written; no breakpoint is left.
LEMMA BootsTracks ==
    ASSUME Inv, OnTrack, Boots
    PROVE  OnTrack' /\ nv.offset = 0 /\ ota.st = "protocol"
<1>1. nv \in Settings /\ Noted(nv)
      BY DEF Inv
<1>2. nv.offset = 0
  <2> SUFFICES ASSUME nv.offset # 0 PROVE FALSE
      OBVIOUS
  <2>1. nv.img > 0 \/ nv.rel > 0
    <3>1. nv.img \in Nat /\ nv.rel \in Nat /\ nv.offset = nv.img * Size + nv.rel
          BY <1>1, HarmanOtaAssumption DEF Settings, Noted
    <3>2. 0 * Size + 0 = 0
          BY HarmanOtaAssumption
    <3>3. nv.img # 0 \/ nv.rel # 0
          BY <3>1, <3>2
    <3>4. QED
          BY <3>1, <3>3
  <2>2. ~flash.ready[First]
        BY <2>1 DEF OnTrack, Tracked, Back, Reached
  <2>3. QED
        BY <2>2, FirstDoes DEF Boots, Bootable
<1>3. ota.st = "protocol"
      BY DEF Boots, OnTrack, Tracked, Goes
<1>4. ota' = ota /\ nv' = nv /\ flash' = [OldBank EXCEPT !.tmp = flash.tmp]
      BY DEF Boots
<1>5. Untouched(flash')
      BY <1>4 DEF Untouched, OldBank, Firmware
<1>6. QED
      BY <1>2, <1>3, <1>4, <1>5 DEF OnTrack, Tracked, Goes, Back, Whole

LEMMA StartDoes ==
    ASSUME Start
    PROVE  ota'.st = "protocol" /\ UNCHANGED <<nv, flash>>
BY DEF Start, Ask, Idle

LEMMA NextTracks == Inv /\ OnTrack /\ [Next]_vars => OnTrack'
<1> SUFFICES ASSUME Inv, OnTrack, [Next]_vars PROVE OnTrack'
    OBVIOUS
<1>1. Tracked(ota, nv, flash) /\ nv \in Settings
      BY DEF OnTrack, Inv
<1>2. ASSUME SameWork(ota', ota), UNCHANGED <<nv, flash>> PROVE OnTrack'
      BY <1>1, <1>2, SameTracks DEF OnTrack
<1>3. ASSUME ota'.st = "protocol", UNCHANGED <<nv, flash>> PROVE OnTrack'
      BY <1>1, <1>3, IdleTracks DEF OnTrack
<1>4. CASE Start
      BY <1>3, <1>4, StartDoes
<1>5. CASE Stop
      BY <1>3, <1>5, ExitDoes DEF Stop
<1>6. CASE AnyPacket
  <2>1. PICK o \in 0 .. FileSize, n \in 1 .. PacketMax : Packet(o, n)
        BY <1>6 DEF AnyPacket
  <2>2. ASSUME ota' = Strange([ota EXCEPT !.misses = 0]), UNCHANGED <<nv, flash>>
        PROVE  OnTrack'
        BY <1>2, <2>2, StrangeDoes
  <2>3. ASSUME NEW m \in Manager, NEW t \in Timers, t.check, Took(m, o, n), Handles(m, t, o, n)
        PROVE  OnTrack'
        BY <1>1, <2>3, HandlesTracks DEF OnTrack
  <2>4. QED
        BY <2>1, <2>2, <2>3, PacketDoes
<1>7. CASE Timeout
      BY <1>2, <1>3, <1>7, TimeoutDoes, ExitDoes
<1>8. CASE Disconnect
      BY <1>2, <1>8 DEF Disconnect, SameWork
<1>9. CASE Restart \/ PowerLost
      BY <1>3, <1>9 DEF Restart, PowerLost, Idle
<1>10. CASE Boots
       BY <1>10, BootsTracks
<1>11. CASE UNCHANGED vars
       BY <1>2, <1>11 DEF vars, SameWork
<1>12. QED
       BY <1>4, <1>5, <1>6, <1>7, <1>8, <1>9, <1>10, <1>11 DEF Next

-----------------------------------------------------------------------------
(* What is in flash when writing works: all that lies behind the session    *)
(* and behind the breakpoint is of the package in hand.                     *)

\* Written up to r units of image i, all of version v; the prompts that are
\* not whole yet lie in their own place.
Held(f, i, r, v) ==
    \A j \in 0 .. Images - 1, q \in 0 .. Size - 1 :
        j < i \/ (j = i /\ q < r) =>
            IF Vp /\ j = 0 /\ (i = 0 /\ r < Size) THEN f.tmp[q] = v ELSE f.cell[j][q] = v

\* The same before the prompts are copied.
Drafted(f, i, r, v) ==
    \A j \in 0 .. Images - 1, q \in 0 .. Size - 1 :
        j < i \/ (j = i /\ q < r) =>
            IF Vp /\ j = 0 /\ i = 0 THEN f.tmp[q] = v ELSE f.cell[j][q] = v

\* The buffer holds the units that follow what is written.
Follows(m) == \A k \in 1 .. Len(m.buf) : m.buf[k] = Off(m.img) + (m.rel - Len(m.buf)) + k - 1

Owns(m, n, f) ==
    /\ m.st \in {"table", "header", "payload"} => n.record = m.ver
    /\ m.st = "header" => Drafted(f, m.img, 0, m.ver)
    /\ m.st = "payload" =>
          /\ m.rel < Size
          /\ Drafted(f, m.img, m.rel - Len(m.buf), m.ver)
          /\ Follows(m)
Stands(n, f) ==
    /\ ~n.vp
    /\ n.offset # 0 => n.record \in Versions /\ Held(f, n.img, n.rel, n.record)
Pure(f) ==
    /\ Vp => Sound(f.cell[0])
    /\ Ready(f) => \E v \in Versions \cup {0} : \A i \in Firmware, q \in 0 .. Size - 1 : f.cell[i][q] = v

Exact(m, n, f) == Owns(m, n, f) /\ Stands(n, f) /\ Pure(f)

\* The buffer of a session is written and noted.
LEMMA FlushExact ==
    ASSUME NEW r \in Manager, InImage(r), Len(r.buf) <= r.rel, r.ver \in Versions, Follows(r),
           NEW f \in Bank, Reached(f, r.img, r.rel - Len(r.buf)), Vp => Sound(f.cell[0]),
           Drafted(f, r.img, r.rel - Len(r.buf), r.ver),
           NEW n \in Settings, n.record = r.ver
    PROVE  /\ Drafted(Flushed(r, f, "ok"), r.img, r.rel, r.ver)
           /\ Pure(Flushed(r, f, "ok"))
           /\ Note(r, n, "ok").offset = r.total
           /\ Note(r, n, "ok").img = r.img /\ Note(r, n, "ok").rel = r.rel
           /\ Note(r, n, "ok").record = r.ver
           /\ (Note(r, n, "ok").vp <=> IF Vp /\ r.img = 0 THEN r.rel = Size ELSE n.vp)
<1> DEFINE p == r.rel - Len(r.buf)
           w == Flushed(r, f, "ok")
           i == r.img
<1>1. /\ i \in 0 .. Images - 1 /\ i \in Nat /\ r.rel \in Nat /\ r.buf \in Seq(Nat) /\ Len(r.buf) \in Nat
      BY HarmanOtaAssumption DEF Manager
<1>2. p \in Nat /\ p + Len(r.buf) = r.rel
      BY <1>1
<1>3. /\ \A k \in 1 .. Len(r.buf) : r.buf[k] = Off(i) + p + k - 1
      /\ Drafted(f, i, p, r.ver) /\ Reached(f, i, p)
      BY DEF Follows
<1>4. w = Write(f, i, p, r.buf, r.ver, "ok")
      BY DEF Flushed
<1> HIDE DEF p, w
<1>5. Wrote(w, f, i, p, r.buf, r.ver, "ok")
      BY <1>1, <1>4, WriteGives
<1>6. ~w.ready[First]
      BY <1>1, <1>2, <1>3, <1>4, WriteReached
<1>7. ASSUME NEW c, NEW q \in 0 .. Size - 1, q < r.rel
      PROVE  IF q < p THEN Written(c, i, p, r.buf, r.ver, "ok")[q] = c[q]
             ELSE Written(c, i, p, r.buf, r.ver, "ok")[q] = r.ver
  <2>1. CASE q < p
        BY <1>1, <1>2, <1>7, <2>1, WrittenBefore
  <2>2. CASE ~(q < p)
    <3>1. q >= p /\ q < p + Len(r.buf) /\ q \in Nat
          BY <1>2, <1>7, <2>2, HarmanOtaAssumption
    <3>2. q - p + 1 \in 1 .. Len(r.buf)
          BY <1>1, <1>2, <3>1
    <3>3. r.buf[q - p + 1] = Off(i) + p + (q - p + 1) - 1
          BY <1>3, <3>2
    <3>4. Off(i) \in Nat
          BY <1>1, OffDoes
    <3> DEFINE b == Off(i)
    <3>5. b \in Nat
          BY <3>4
    <3> HIDE DEF b
    <3>6. b + p + (q - p + 1) - 1 = b + q
          BY <1>2, <3>1, <3>5
    <3>7. r.buf[q - p + 1] = Off(i) + q
          BY <3>3, <3>6 DEF b
    <3>8. Written(c, i, p, r.buf, r.ver, "ok")[q] = r.ver
          BY <1>1, <1>2, <1>7, <3>1, <3>7, WrittenThere, SMTT(60)
    <3>9. QED
          BY <2>2, <3>8
  <2>3. QED
        BY <2>1, <2>2
<1>8. Drafted(w, i, r.rel, r.ver)
  <2> SUFFICES ASSUME NEW j \in 0 .. Images - 1, NEW q \in 0 .. Size - 1,
                      j < i \/ (j = i /\ q < r.rel)
               PROVE  IF Vp /\ j = 0 /\ i = 0 THEN w.tmp[q] = r.ver ELSE w.cell[j][q] = r.ver
      BY DEF Drafted
  <2>1. CASE Vp /\ i = 0
    <3>1. j = 0 /\ q < r.rel
          BY <2>1, HarmanOtaAssumption
    <3>2. w.tmp[q] = Written(f.tmp, i, p, r.buf, r.ver, "ok")[q]
          BY <1>5, <2>1 DEF Wrote
    <3>3. q < p => f.tmp[q] = r.ver
          BY <1>3, <2>1, <3>1, Zero DEF Drafted
    <3>4. w.tmp[q] = r.ver
          BY <1>7, <3>1, <3>2, <3>3
    <3>5. QED
          BY <2>1, <3>1, <3>4
  <2>2. CASE ~(Vp /\ i = 0)
    <3>1. CASE j = i
      <4>1. w.cell[i][q] = Written(f.cell[i], i, p, r.buf, r.ver, "ok")[q]
            BY <1>5, <2>2 DEF Wrote
      <4>2. q < p => f.cell[i][q] = r.ver
            BY <1>1, <1>3, <2>2 DEF Drafted
      <4>3. w.cell[i][q] = r.ver
            BY <1>7, <3>1, <4>1, <4>2
      <4>4. QED
            BY <2>2, <3>1, <4>3
    <3>2. CASE j # i
      <4>1. w.cell[j] = f.cell[j]
            BY <1>5, <2>2, <3>2 DEF Wrote
      <4>2. f.cell[j][q] = r.ver
            BY <1>3, <2>2, <3>2 DEF Drafted
      <4>3. QED
            BY <2>2, <4>1, <4>2
    <3>3. QED
          BY <3>1, <3>2
  <2>3. QED
        BY <2>1, <2>2
<1>9. Pure(w)
  <2>1. Vp => w.cell[0] = f.cell[0]
    <3>1. Vp => 0 \notin Firmware
          BY DEF Firmware
    <3>2. QED
          BY <1>5, <3>1, Zero DEF Wrote
  <2>2. QED
        BY <1>6, <2>1, FirstDoes DEF Pure, Ready
<1>10. /\ Note(r, n, "ok").offset = r.total
       /\ Note(r, n, "ok").img = r.img /\ Note(r, n, "ok").rel = r.rel
       /\ Note(r, n, "ok").record = r.ver
       /\ (Note(r, n, "ok").vp <=> IF Vp /\ r.img = 0 THEN r.rel = Size ELSE n.vp)
       BY DEF Note, Save, Settings
<1>11. QED
       BY <1>8, <1>9, <1>10 DEF w

\* Between a draft and what is held there are only the prompts that are whole.
LEMMA DraftIsHeld ==
    ASSUME NEW f, NEW i, NEW r, NEW v, ~(Vp /\ i = 0) \/ r < Size
    PROVE  Drafted(f, i, r, v) <=> Held(f, i, r, v)
<1>1. ASSUME NEW j \in 0 .. Images - 1
      PROVE  (Vp /\ j = 0 /\ i = 0) <=> (Vp /\ j = 0 /\ (i = 0 /\ r < Size))
      OBVIOUS
<1>2. QED
      BY <1>1 DEF Drafted, Held

LEMMA EndCheckExact ==
    ASSUME NEW m \in Manager, m.ver \in Versions, NEW f \in Bank, Pure(f),
           NEW n \in Settings, n.record = m.ver, n.offset # 0, n.img = m.img, n.rel = Size,
           \/ ~n.vp /\ Held(f, m.img, Size, m.ver)
           \/ n.vp /\ Vp /\ m.img = 0 /\ m.vpsrc /\ Drafted(f, 0, Size, m.ver),
           NEW t, EndCheck(m, f, n, t, "ok")
    PROVE  Exact(ota', nv', flash')
<1>1. m.img \in 0 .. Images - 1 /\ m.img \in Nat /\ \A q \in 0 .. Size - 1 : q < Size
      BY HarmanOtaAssumption DEF Manager
<1>2. Sound(f.cell[m.img])
  <2>1. CASE Vp /\ m.img = 0
        BY <2>1 DEF Pure
  <2>2. CASE ~(Vp /\ m.img = 0)
    <3>1. \A q \in 0 .. Size - 1 : f.cell[m.img][q] = m.ver
          BY <1>1, <2>2 DEF Held
    <3>2. QED
          BY <3>1 DEF Sound
  <2>3. QED
        BY <2>1, <2>2
<1>3. PICK f1, n1 : Copied(m, f, n, "ok", f1, n1) /\ Passes(m, n, "ok", f1, n1)
      BY <1>2, EndCheckDoes
<1>4. /\ ~n1.vp /\ n1.offset = n.offset /\ n1.img = n.img /\ n1.rel = n.rel /\ n1.record = n.record
      /\ n1 \in Settings
      BY <1>3 DEF Copied, Settings
<1>5. \A j \in 0 .. Images - 1, q \in 0 .. Size - 1 : j <= m.img => f1.cell[j][q] = m.ver
  <2> SUFFICES ASSUME NEW j \in 0 .. Images - 1, NEW q \in 0 .. Size - 1, j <= m.img
               PROVE  f1.cell[j][q] = m.ver
      OBVIOUS
  <2>1. (j < m.img \/ (j = m.img /\ q < Size)) /\ ~(Size < Size)
        BY <1>1, HarmanOtaAssumption
  <2>2. CASE ~n.vp /\ Held(f, m.img, Size, m.ver)
    <3>1. f1 = f
          BY <1>3, <2>2 DEF Copied
    <3>2. QED
          BY <2>1, <2>2, <3>1 DEF Held
  <2>3. CASE n.vp /\ Vp /\ m.img = 0 /\ m.vpsrc /\ Drafted(f, 0, Size, m.ver)
    <3>1. j = 0 /\ q < Size
          BY <2>1, <2>3, HarmanOtaAssumption
    <3>2. f1.cell[0] = f.tmp
          BY <1>3, <2>3 DEF Copied
    <3>3. f.tmp[q] = m.ver
          BY <2>3, <3>1, Zero DEF Drafted
    <3>4. QED
          BY <3>1, <3>2, <3>3
  <2>4. QED
        BY <2>2, <2>3
<1>6. Sound(f1.cell[0])
  <2>1. \A q \in 0 .. Size - 1 : f1.cell[0][q] = m.ver
        BY <1>1, <1>5, Zero
  <2>2. QED
        BY <2>1 DEF Sound
<1>7. CASE m.img + 1 = Images
  <2>1. /\ ota'.st = "finish" /\ nv' = Clear(n1)
        /\ flash' = [f1 EXCEPT !.ready = [j \in 0 .. Images - 1 |-> TRUE]]
        BY <1>3, <1>7 DEF Passes
  <2>2. flash'.cell = f1.cell
        BY <1>3, <2>1 DEF Copied, Bank
  <2>3. ASSUME NEW i \in Firmware, NEW q \in 0 .. Size - 1 PROVE flash'.cell[i][q] = m.ver
    <3>1. i \in 0 .. Images - 1 /\ i <= m.img
          BY <1>1, <1>7, HarmanOtaAssumption DEF Firmware
    <3>2. QED
          BY <1>5, <2>2, <3>1
  <2>4. Pure(flash')
        BY <1>6, <2>2, <2>3 DEF Pure
  <2>5. nv'.offset = 0 /\ ~nv'.vp
        BY <1>4, <2>1 DEF Clear, Settings
  <2>6. QED
        BY <2>1, <2>4, <2>5 DEF Exact, Owns, Stands
<1>8. CASE m.img + 1 # Images
  <2>1. /\ ota'.st = "header" /\ ota'.img = m.img + 1 /\ ota'.ver = m.ver
        /\ flash' = f1 /\ nv' = n1
        BY <1>3, <1>6, <1>8 DEF Passes
  <2>2. Drafted(f1, m.img + 1, 0, m.ver)
    <3> SUFFICES ASSUME NEW j \in 0 .. Images - 1, NEW q \in 0 .. Size - 1,
                        j < m.img + 1 \/ (j = m.img + 1 /\ q < 0)
                 PROVE  ~(j = 0 /\ m.img + 1 = 0) /\ f1.cell[j][q] = m.ver
        BY DEF Drafted
    <3>1. j <= m.img /\ m.img + 1 # 0
          BY <1>1, HarmanOtaAssumption
    <3>2. QED
          BY <1>5, <3>1
  <2>3. Held(f1, m.img, Size, m.ver)
    <3> SUFFICES ASSUME NEW j \in 0 .. Images - 1, NEW q \in 0 .. Size - 1,
                        j < m.img \/ (j = m.img /\ q < Size)
                 PROVE  ~(Size < Size) /\ f1.cell[j][q] = m.ver
        BY DEF Held
    <3>1. j <= m.img /\ ~(Size < Size)
          BY <1>1, HarmanOtaAssumption
    <3>2. QED
          BY <1>5, <3>1
  <2>4. Pure(f1)
    <3>1. Ready(f1) => Ready(f)
          BY <1>3 DEF Ready, Copied
    <3>2. \A i \in Firmware : f1.cell[i] = f.cell[i]
          BY <1>3 DEF Copied
    <3>3. QED
          BY <1>6, <3>1, <3>2 DEF Pure
  <2>5. QED
        BY <1>4, <2>1, <2>2, <2>3, <2>4 DEF Exact, Owns, Stands
<1>9. QED
      BY <1>7, <1>8

\* What is gathered goes on where the buffer, or the block that was written, ends.
LEMMA GathersFollow ==
    ASSUME NEW m, m.rel \in Nat, m.img \in Nat, NEW r \in Manager, NEW o, NEW k \in Nat, NEW b, Len(b) \in Nat,
           Gathers(m, r, o, k, b), o = Off(m.img) + m.rel,
           \A j \in 1 .. Len(b) : b[j] = Off(m.img) + (m.rel - Len(b)) + j - 1
    PROVE  Follows(r)
<1> DEFINE a == Off(m.img)
           l == Len(b)
<1>1. a \in Nat
      BY OffDoes
<1>2. /\ r.img = m.img /\ r.rel = m.rel + k /\ Len(r.buf) = l + k
      /\ \A j \in 1 .. l : r.buf[j] = b[j]
      /\ \A j \in 1 .. k : r.buf[l + j] = o + j - 1
      BY DEF Gathers
<1>3. l \in Nat /\ o = a + m.rel /\ Off(r.img) = a
      /\ \A j \in 1 .. l : b[j] = a + (m.rel - l) + j - 1
      BY <1>2
<1> HIDE DEF a, l
<1>4. ASSUME NEW j \in 1 .. Len(r.buf)
      PROVE  r.buf[j] = Off(r.img) + (r.rel - Len(r.buf)) + j - 1
  <2>1. r.rel - Len(r.buf) = m.rel - l /\ j \in Nat /\ j >= 1 /\ j <= l + k
        BY <1>2, <1>3
  <2>2. CASE j <= l
    <3>1. j \in 1 .. l
          BY <1>3, <2>1, <2>2
    <3>2. r.buf[j] = a + (m.rel - l) + j - 1
          BY <1>2, <1>3, <3>1
    <3>3. QED
          BY <1>3, <2>1, <3>2
  <2>3. CASE ~(j <= l)
    <3>1. j - l \in 1 .. k /\ l + (j - l) = j
          BY <1>3, <2>1, <2>3
    <3>2. r.buf[l + (j - l)] = o + (j - l) - 1
          BY <1>2, <3>1
    <3>3. r.buf[j] = o + (j - l) - 1
          BY <3>1, <3>2
    <3>4. o + (j - l) - 1 = a + (m.rel - l) + j - 1
          BY <1>1, <1>3, <2>1
    <3>5. QED
          BY <1>3, <2>1, <3>3, <3>4
  <2>4. QED
        BY <2>2, <2>3
<1>5. QED
      BY <1>4 DEF Follows

\* An image that has been written to its end, and noted, is checked.
LEMMA EndedExact ==
    ASSUME NEW m \in Manager, m.ver \in Versions, NEW f \in Bank, Pure(f),
           Drafted(f, m.img, Size, m.ver), Vp /\ m.img = 0 => m.vpsrc,
           NEW n \in Settings, n.record = m.ver, n.offset = m.img * Size + Size,
           n.img = m.img, n.rel = Size, n.vp <=> (Vp /\ m.img = 0),
           NEW t, EndCheck(m, f, n, t, "ok")
    PROVE  Exact(ota', nv', flash')
<1>1. n.offset # 0
  <2>1. m.img \in Nat
        BY HarmanOtaAssumption DEF Manager
  <2> DEFINE b == m.img * Size
  <2>2. b \in Nat
        BY <2>1, OffDoes
  <2>3. n.offset = b + Size
        OBVIOUS
  <2> HIDE DEF b
  <2>4. QED
        BY <2>2, <2>3, HarmanOtaAssumption
<1>2. CASE Vp /\ m.img = 0
  <2>1. n.vp /\ m.vpsrc /\ Drafted(f, 0, Size, m.ver)
        BY <1>2
  <2>2. QED
        BY <1>1, <1>2, <2>1, EndCheckExact
<1>3. CASE ~(Vp /\ m.img = 0)
  <2>1. ~n.vp /\ Held(f, m.img, Size, m.ver)
        BY <1>3, DraftIsHeld
  <2>2. QED
        BY <1>1, <2>1, EndCheckExact
<1>4. QED
      BY <1>2, <1>3

LEMMA OnPayloadExact ==
    ASSUME Inv, Tracked(ota, nv, flash), Exact(ota, nv, flash),
           NEW m, NEW o, NEW n, Took(m, o, n), m.st = "payload",
           NEW t, Taking(m, t, o, "ok", "ok", "ok")
    PROVE  Exact(ota', nv', flash')
<1>1. /\ m \in Manager /\ m.ver \in Versions /\ Len(m.buf) <= m.rel /\ m.rel < Size
      /\ Reached(flash, m.img, m.rel - Len(m.buf))
      /\ m.rel \in Nat /\ Len(m.buf) \in Nat /\ m.img \in Nat
  <2>1. /\ m \in Manager /\ m.ver \in Versions /\ Len(m.buf) <= m.rel
        /\ Reached(flash, m.img, m.rel - Len(m.buf))
        BY DEF Took, Tracked, Goes
  <2>2. m.rel < Size
        BY DEF Took, Exact, Owns
  <2>3. m.rel \in Nat /\ Len(m.buf) \in Nat /\ m.img \in Nat
        BY <2>1, HarmanOtaAssumption DEF Manager
  <2>4. QED
        BY <2>1, <2>2, <2>3
<1>2. nv \in Settings /\ flash \in Bank /\ ~nv.vp /\ nv.record = m.ver /\ Pure(flash)
      BY DEF Inv, Exact, Owns, Stands, Took
<1>3. /\ o = Off(m.img) + m.rel
      /\ Drafted(flash, m.img, m.rel - Len(m.buf), m.ver)
      /\ \A j \in 1 .. Len(m.buf) : m.buf[j] = Off(m.img) + (m.rel - Len(m.buf)) + j - 1
      BY <1>1 DEF Inv, Session, Place, Took, Exact, Owns, Follows
<1>4. PICK a \in Manager, k \in Nat :
        /\ Gathers(m, a, o, k, m.buf)
        /\ \/ /\ a.rel < Size /\ Session(ota') /\ SameWork(ota', a)
              /\ timer' = t /\ UNCHANGED <<nv, flash>>
           \/ \E b \in Manager, l \in Nat, t2 \in Timers :
                 /\ Gathers(a, b, o + k, l, << >>) /\ (Vp /\ m.img = 0 => b.vpsrc) /\ t2.check
                 /\ \/ /\ b.rel < Size /\ Session(ota') /\ SameWork(ota', b) /\ timer' = t2
                       /\ flash' = Flushed(a, flash, "ok") /\ nv' = Note(a, nv, "ok")
                    \/ /\ l = 0 /\ Session(b) /\ Ended(b)
                       /\ EndCheck(b, Flushed(a, flash, "ok"), Note(a, nv, "ok"), t2, "ok")
                    \/ \E c \in Manager :
                          /\ c = [b EXCEPT !.buf = << >>] /\ Session(c) /\ Ended(c)
                          /\ EndCheck(c, Flushed(b, Flushed(a, flash, "ok"), "ok"),
                                      Note(b, Note(a, nv, "ok"), "ok"), t2, "ok")
      BY Zenon DEF Taking
<1>5. Follows(a)
      BY <1>1, <1>3, <1>4, GathersFollow
<1>6. /\ a.st = "payload" /\ a.ver = m.ver /\ a.img = m.img /\ InImage(a)
      /\ a.rel = m.rel + k /\ Len(a.buf) <= a.rel /\ a.rel - Len(a.buf) = m.rel - Len(m.buf)
      /\ a.rel \in Nat
  <2>1. a.rel = m.rel + k /\ Len(a.buf) = Len(m.buf) + k
        BY <1>4 DEF Gathers
  <2>2. Len(a.buf) <= a.rel /\ a.rel - Len(a.buf) = m.rel - Len(m.buf) /\ a.rel \in Nat
        BY <1>1, <2>1
  <2>3. QED
        BY <1>4, <2>1, <2>2 DEF Gathers
<1>7. /\ Reached(flash, a.img, a.rel - Len(a.buf))
      /\ Drafted(flash, a.img, a.rel - Len(a.buf), a.ver)
      BY <1>1, <1>3, <1>6
<1>8. CASE /\ a.rel < Size /\ Session(ota') /\ SameWork(ota', a)
           /\ timer' = t /\ UNCHANGED <<nv, flash>>
  <2>1. Owns(ota', nv', flash')
        BY <1>2, <1>5, <1>6, <1>7, <1>8 DEF Owns, SameWork, Follows
  <2>2. Stands(nv', flash') /\ Pure(flash')
        BY <1>8 DEF Exact
  <2>3. QED
        BY <2>1, <2>2 DEF Exact
<1> DEFINE f1 == Flushed(a, flash, "ok")
           n1 == Note(a, nv, "ok")
<1>9. f1 \in Bank /\ n1 \in Settings /\ Reached(f1, a.img, a.rel)
      BY <1>1, <1>2, <1>6, <1>7, FlushDoes, FlushTracks
<1>10. /\ Drafted(f1, a.img, a.rel, a.ver) /\ Pure(f1)
       /\ n1.offset = a.total /\ n1.img = a.img /\ n1.rel = a.rel /\ n1.record = a.ver
       /\ (n1.vp <=> IF Vp /\ a.img = 0 THEN a.rel = Size ELSE nv.vp)
  <2>1. Vp => Sound(flash.cell[0])
        BY <1>2 DEF Pure
  <2>2. nv.record = a.ver /\ a.ver \in Versions
        BY <1>1, <1>2, <1>6
  <2>3. QED
        BY <1>2, <1>5, <1>6, <1>7, <2>1, <2>2, FlushExact
<1>11. ASSUME NEW b \in Manager, NEW l \in Nat, NEW t2 \in Timers,
              Gathers(a, b, o + k, l, << >>), Vp /\ m.img = 0 => b.vpsrc,
              \/ /\ b.rel < Size /\ SameWork(ota', b)
                 /\ flash' = f1 /\ nv' = n1
              \/ /\ l = 0 /\ Ended(b)
                 /\ EndCheck(b, f1, n1, t2, "ok")
              \/ \E c \in Manager :
                    /\ c = [b EXCEPT !.buf = << >>] /\ Ended(c)
                    /\ EndCheck(c, Flushed(b, f1, "ok"), Note(b, n1, "ok"), t2, "ok")
       PROVE  Exact(ota', nv', flash')
  <2> HIDE DEF f1, n1
  <2>1. Len(<< >>) = 0 /\ Len(<< >>) \in Nat
        OBVIOUS
  <2>2. b.rel = a.rel + l /\ Len(b.buf) = l
        BY <1>11, <2>1 DEF Gathers
  <2>3. /\ b.st = "payload" /\ b.ver = m.ver /\ b.img = m.img /\ InImage(b)
        /\ Len(b.buf) <= b.rel /\ b.rel - Len(b.buf) = a.rel
        BY <1>6, <1>11, <2>2 DEF Gathers
  <2>4. Follows(b)
    <3> DEFINE x == Off(m.img)
    <3>1. x \in Nat
          BY <1>1, OffDoes
    <3>2. o = x + m.rel
          BY <1>3
    <3> HIDE DEF x
    <3>3. o + k = x + a.rel
          BY <1>1, <1>6, <3>1, <3>2
    <3>4. o + k = Off(a.img) + a.rel /\ a.img \in Nat
          BY <1>1, <1>6, <3>3 DEF x
    <3>5. \A j \in 1 .. Len(<< >>) : << >>[j] = Off(a.img) + (a.rel - Len(<< >>)) + j - 1
          BY <2>1
    <3> DEFINE y == o + k
    <3>6. y = Off(a.img) + a.rel /\ Gathers(a, b, y, l, << >>)
          BY <1>11, <3>4
    <3> HIDE DEF y
    <3>7. QED
          BY <1>6, <2>1, <3>4, <3>5, <3>6, GathersFollow
  <2>5. CASE /\ b.rel < Size /\ SameWork(ota', b)
             /\ flash' = f1 /\ nv' = n1
    <3>1. a.rel < Size
          BY <1>6, <2>2, <2>5, HarmanOtaAssumption
    <3>a. a.rel # Size
          BY <3>1, HarmanOtaAssumption
    <3>2. ~n1.vp
          BY <1>2, <1>10, <3>a
    <3>3. Held(f1, n1.img, n1.rel, n1.record) /\ n1.record \in Versions
          BY <1>1, <1>6, <1>10, <3>1, DraftIsHeld
    <3>4. Owns(ota', n1, f1)
          BY <1>6, <1>10, <2>3, <2>4, <2>5 DEF Owns, SameWork, Follows
    <3>5. QED
          BY <1>10, <2>5, <3>2, <3>3, <3>4 DEF Exact, Stands
  <2>6. CASE l = 0 /\ Ended(b) /\ EndCheck(b, f1, n1, t2, "ok")
    <3>1. a.rel = Size /\ b.rel = Size
          BY <1>6, <2>2, <2>6 DEF Ended
    <3>2. n1.vp <=> (Vp /\ b.img = 0)
          BY <1>2, <1>6, <1>10, <2>3, <3>1
    <3>3. n1.offset = b.img * Size + Size
          BY <1>6, <1>10, <2>3, <3>1 DEF InImage
    <3>4. Drafted(f1, b.img, Size, b.ver) /\ n1.img = b.img /\ n1.rel = Size /\ n1.record = b.ver
          BY <1>6, <1>10, <2>3, <3>1
    <3>5. b.ver \in Versions /\ (Vp /\ b.img = 0 => b.vpsrc)
          BY <1>1, <1>11, <2>3
    <3>6. QED
          BY <1>9, <1>10, <2>6, <3>2, <3>3, <3>4, <3>5, EndedExact
  <2>7. ASSUME NEW c \in Manager, c = [b EXCEPT !.buf = << >>], Ended(c),
               EndCheck(c, Flushed(b, f1, "ok"), Note(b, n1, "ok"), t2, "ok")
        PROVE  Exact(ota', nv', flash')
    <3> DEFINE f2 == Flushed(b, f1, "ok")
               n2 == Note(b, n1, "ok")
    <3>1. /\ Reached(f1, b.img, b.rel - Len(b.buf)) /\ Drafted(f1, b.img, b.rel - Len(b.buf), b.ver)
          /\ n1.record = b.ver /\ b.ver \in Versions
          BY <1>1, <1>6, <1>9, <1>10, <2>3
    <3>2. Vp => Sound(f1.cell[0])
          BY <1>10 DEF Pure
    <3>3. /\ Drafted(f2, b.img, b.rel, b.ver) /\ Pure(f2)
          /\ n2.offset = b.total /\ n2.img = b.img /\ n2.rel = b.rel /\ n2.record = b.ver
          /\ (n2.vp <=> IF Vp /\ b.img = 0 THEN b.rel = Size ELSE n1.vp)
          BY <1>9, <2>3, <2>4, <3>1, <3>2, FlushExact
    <3>4. f2 \in Bank /\ n2 \in Settings
          BY <1>9, <2>3, FlushDoes
    <3>5. EndCheck(c, f2, n2, t2, "ok")
          BY <2>7
    <3> HIDE DEF f2, n2
    <3>6. c.img = b.img /\ c.rel = b.rel /\ c.ver = b.ver /\ c.vpsrc = b.vpsrc
          BY <2>7 DEF Manager
    <3>7. b.rel = Size
          BY <2>7, <3>6 DEF Ended
    <3>8. n2.vp <=> (Vp /\ c.img = 0)
          BY <1>2, <1>6, <1>10, <2>3, <3>3, <3>6, <3>7
    <3>9. n2.offset = c.img * Size + Size
          BY <2>3, <3>3, <3>6, <3>7 DEF InImage
    <3>10. /\ Drafted(f2, c.img, Size, c.ver) /\ n2.img = c.img /\ n2.rel = Size /\ n2.record = c.ver
           /\ c.ver \in Versions /\ (Vp /\ c.img = 0 => c.vpsrc)
           BY <1>11, <2>3, <3>1, <3>3, <3>6, <3>7
    <3>11. QED
           BY <3>3, <3>4, <3>5, <3>8, <3>9, <3>10, EndedExact
  <2>8. QED
        BY <1>11, <2>5, <2>6, <2>7
<1>12. QED
       BY <1>4, <1>8, <1>11

\* A session that ends, has not got to the table yet, or is through.
LEMMA IdleExact ==
    ASSUME Exact(ota, nv, flash), ota'.st \notin {"table", "header", "payload"},
           nv' = nv \/ nv' = Clear(nv), nv \in Settings, flash' = flash
    PROVE  Exact(ota', nv', flash')
<1>1. Clear(nv).offset = 0 /\ Clear(nv).vp = nv.vp
      BY DEF Clear, Settings
<1>2. QED
      BY <1>1 DEF Exact, Owns, Stands

LEMMA SameExact ==
    ASSUME Exact(ota, nv, flash), SameWork(ota', ota), UNCHANGED <<nv, flash>>
    PROVE  Exact(ota', nv', flash')
BY DEF Exact, Owns, Follows, SameWork

LEMMA HandlesExact ==
    ASSUME Results = {"ok"}, Inv, Tracked(ota, nv, flash), Exact(ota, nv, flash),
           NEW o, NEW n, NEW m \in Manager, NEW t \in Timers, t.check,
           Took(m, o, n), Handles(m, t, o, n)
    PROVE  Exact(ota', nv', flash')
<1>1. nv \in Settings /\ flash \in Bank
      BY DEF Inv
<1>2. m.st = ota.st /\ m.on /\ m.ver = ota.ver /\ m.img = ota.img
      BY DEF Took
<1>3. ASSUME m.st = "protocol", NEW ok \in BOOLEAN, OnProtocol(m, t, ok)
      PROVE  Exact(ota', nv', flash')
      BY <1>1, <1>3, OnProtocolDoes, IdleExact
<1>4. ASSUME m.st = "package", NEW v \in Versions, NEW kind, OnPackage(m, t, v, kind)
      PROVE  Exact(ota', nv', flash')
  <2>1. CASE ota'.st = "protocol" /\ nv' = Clear(nv) /\ flash' = flash
        BY <1>1, <2>1, IdleExact
  <2>2. CASE /\ ota'.st = "table" /\ ota'.ver = v /\ flash' = flash
             /\ nv.record \in {0, v}
             /\ nv' = IF nv.record = 0 THEN [nv EXCEPT !.record = v] ELSE nv
    <3>1. /\ nv'.offset = nv.offset /\ nv'.img = nv.img /\ nv'.rel = nv.rel
          /\ nv'.vp = nv.vp /\ nv'.record = v
          BY <1>1, <2>2 DEF Settings
    <3>2. nv.offset # 0 => nv.record = v
          BY <2>2, HarmanOtaAssumption DEF Exact, Stands
    <3>3. QED
          BY <2>2, <3>1, <3>2 DEF Exact, Owns, Stands
  <2>3. QED
        BY <1>4, <2>1, <2>2, OnPackageDoes
<1>5. ASSUME m.st = "table", OnTable(m, t, n, "ok")
      PROVE  Exact(ota', nv', flash')
  <2>1. m.ver \in Versions /\ nv.record = m.ver /\ ~nv.vp /\ Pure(flash)
        BY <1>2, <1>5 DEF Tracked, Goes, Exact, Owns, Stands
  <2>2. CASE /\ ota'.st = "table" /\ ota'.on = m.on /\ ota'.ver = m.ver
             /\ UNCHANGED <<nv, flash>>
        BY <2>1, <2>2 DEF Exact, Owns
  <2>3. ASSUME NEW r \in Manager, r.on = m.on, r.st = "table", r.ver = m.ver, Begun(r, t, "ok")
        PROVE  Exact(ota', nv', flash')
    <3>1. ASSUME nv.offset # 0, nv.rel = Size, NEW e \in Manager, e.on = r.on, e.st = r.st, e.ver = r.ver,
                 e.img = nv.img, e.rel = Size, EndCheck(e, flash, nv, t, "ok")
          PROVE  Exact(ota', nv', flash')
      <4>1. Held(flash, e.img, Size, e.ver)
            BY <2>1, <2>3, <3>1 DEF Exact, Stands
      <4>2. QED
            BY <1>1, <2>1, <2>3, <3>1, <4>1, EndCheckExact
    <3>2. CASE /\ nv.offset # 0 /\ nv.rel < Size
               /\ ota'.st = "payload" /\ ota'.on = r.on /\ ota'.ver = r.ver
               /\ ota'.img = nv.img /\ ota'.rel = nv.rel /\ ota'.buf = << >>
               /\ UNCHANGED <<nv, flash>>
      <4>1. nv.rel \in Nat /\ Len(<< >>) = 0
            BY <1>1 DEF Settings
      <4>2. ota'.rel - Len(ota'.buf) = nv.rel /\ Len(ota'.buf) = 0
            BY <3>2, <4>1
      <4>3. Held(flash, nv.img, nv.rel, m.ver)
            BY <2>1, <3>2 DEF Exact, Stands
      <4>4. Drafted(flash, nv.img, nv.rel, m.ver)
            BY <3>2, <4>3, DraftIsHeld
      <4>5. Follows(ota')
            BY <4>2 DEF Follows
      <4>6. Owns(ota', nv', flash')
            BY <2>1, <2>3, <3>2, <4>2, <4>4, <4>5 DEF Owns
      <4>7. QED
            BY <3>2, <4>6 DEF Exact
    <3>3. CASE /\ nv.offset = 0
               /\ ota'.st = "header" /\ ota'.on = r.on /\ ota'.ver = r.ver
               /\ ota'.img = 0
               /\ UNCHANGED <<nv, flash>>
      <4>1. Drafted(flash, 0, 0, m.ver)
        <5>1. \A j \in 0 .. Images - 1 : ~(j < 0)
              BY HarmanOtaAssumption
        <5>2. \A q \in 0 .. Size - 1 : ~(q < 0)
              BY HarmanOtaAssumption
        <5>3. QED
              BY <5>1, <5>2 DEF Drafted
      <4>2. QED
            BY <2>1, <2>3, <3>3, <4>1 DEF Exact, Owns
    <3>4. QED
          BY <2>3, <3>1, <3>2, <3>3 DEF Begun
  <2>4. QED
        BY <1>5, <2>2, <2>3, OnTableDoes
<1>6. ASSUME m.st = "header", OnHeader(m, t)
      PROVE  Exact(ota', nv', flash')
  <2>1. /\ ota'.st = "payload" /\ ota'.on = m.on /\ ota'.ver = m.ver
        /\ ota'.img = m.img /\ ota'.rel = 0 /\ ota'.buf = << >>
        /\ UNCHANGED <<nv, flash>>
        BY <1>6, OnHeaderDoes
  <2>a. Len(<< >>) = 0
        OBVIOUS
  <2>b. Len(ota'.buf) = 0 /\ ota'.rel = 0
        BY <2>1, <2>a
  <2>2. ota'.rel - Len(ota'.buf) = 0 /\ ota'.rel < Size
        BY <2>b, HarmanOtaAssumption
  <2>3. Follows(ota')
        BY <2>b DEF Follows
  <2>4. nv.record = m.ver /\ Drafted(flash, m.img, 0, m.ver)
        BY <1>2, <1>6 DEF Exact, Owns
  <2>5. Owns(ota', nv', flash')
        BY <2>1, <2>2, <2>3, <2>4 DEF Owns
  <2>6. QED
        BY <2>1, <2>5 DEF Exact
<1>7. ASSUME m.st = "payload", OnPayload(m, t, o, n, "ok", "ok", "ok")
      PROVE  Exact(ota', nv', flash')
      BY <1>7, OnPayloadDoes, OnPayloadExact
<1>8. ASSUME m.st = "finish", ota' = Counted(m), UNCHANGED <<nv, flash>>
      PROVE  Exact(ota', nv', flash')
      BY <1>1, <1>8, FinishDoes, IdleExact
<1>9. QED
      BY <1>3, <1>4, <1>5, <1>6, <1>7, <1>8 DEF Handles

Exactly == Exact(ota, nv, flash)

LEMMA OldBankIsPure ==
    ASSUME NEW f, f.cell = OldBank.cell
    PROVE  Pure(f)
<1>1. \A j \in 0 .. Images - 1, q \in 0 .. Size - 1 : f.cell[j][q] = 0
      BY DEF OldBank
<1>2. QED
      BY <1>1, Zero DEF Pure, Sound, Firmware

LEMMA InitExact == Init => Exactly
<1> SUFFICES ASSUME Init PROVE Exactly
    OBVIOUS
<1>1. ota.st = "protocol" /\ nv.offset = 0 /\ ~nv.vp /\ flash = OldBank
      BY DEF Init, Idle
<1>2. QED
      BY <1>1, OldBankIsPure DEF Exactly, Exact, Owns, Stands

LEMMA NextExact == Results = {"ok"} /\ Inv /\ OnTrack /\ Exactly /\ [Next]_vars => Exactly'
<1> SUFFICES ASSUME Results = {"ok"}, Inv, OnTrack, Exactly, [Next]_vars PROVE Exactly'
    OBVIOUS
<1>1. Exact(ota, nv, flash) /\ Tracked(ota, nv, flash) /\ nv \in Settings
      BY DEF Exactly, OnTrack, Inv
<1>2. ASSUME SameWork(ota', ota), UNCHANGED <<nv, flash>> PROVE Exactly'
      BY <1>1, <1>2, SameExact DEF Exactly
<1>3. ASSUME ota'.st = "protocol", UNCHANGED <<nv, flash>> PROVE Exactly'
      BY <1>1, <1>3, IdleExact DEF Exactly
<1>4. CASE Start
      BY <1>3, <1>4, StartDoes
<1>5. CASE Stop
      BY <1>3, <1>5, ExitDoes DEF Stop
<1>6. CASE AnyPacket
  <2>1. PICK o \in 0 .. FileSize, n \in 1 .. PacketMax : Packet(o, n)
        BY <1>6 DEF AnyPacket
  <2>2. ASSUME ota' = Strange([ota EXCEPT !.misses = 0]), UNCHANGED <<nv, flash>>
        PROVE  Exactly'
        BY <1>2, <2>2, StrangeDoes
  <2>3. ASSUME NEW m \in Manager, NEW t \in Timers, t.check, Took(m, o, n), Handles(m, t, o, n)
        PROVE  Exactly'
        BY <1>1, <2>3, HandlesExact DEF Exactly
  <2>4. QED
        BY <2>1, <2>2, <2>3, PacketDoes
<1>7. CASE Timeout
      BY <1>2, <1>3, <1>7, TimeoutDoes, ExitDoes
<1>8. CASE Disconnect
      BY <1>2, <1>8 DEF Disconnect, SameWork
<1>9. CASE Restart \/ PowerLost
      BY <1>3, <1>9 DEF Restart, PowerLost, Idle
<1>10. CASE Boots
  <2>1. nv.offset = 0 /\ ota.st = "protocol"
        BY <1>10, BootsTracks
  <2>2. ota' = ota /\ nv' = nv /\ flash' = [OldBank EXCEPT !.tmp = flash.tmp]
        BY <1>10 DEF Boots
  <2>3. flash'.cell = OldBank.cell
        BY <2>2 DEF OldBank
  <2>4. Pure(flash')
        BY <2>3, OldBankIsPure
  <2>5. QED
        BY <1>1, <2>1, <2>2, <2>4 DEF Exactly, Exact, Owns, Stands
<1>11. CASE UNCHANGED vars
       BY <1>2, <1>11 DEF vars, SameWork
<1>12. QED
       BY <1>4, <1>5, <1>6, <1>7, <1>8, <1>9, <1>10, <1>11 DEF Next

-----------------------------------------------------------------------------
(* The theorems.                                                           *)

LEMMA Always == Spec => []Inv
BY InitInv, NextInv, PTL DEF Spec

\* The variables have their types: the buffer never holds a whole sector
\* between two packets, the counters of what was and was not asked for stay
\* where they were meant to.
THEOREM TypeCorrect == Spec => []TypeOK
<1>1. Inv => TypeOK
      BY DEF Inv, Session, Manager, Timers, Settings, Bank, TypeOK
<1>2. QED
      BY <1>1, Always, PTL

\* What is asked for again after a loss is what is missing, for packages,
\* images, packets and buffers of any size (app_harman_ble_ota_payload_handle,
\* app_harman_ota_notification_report).
THEOREM AsksForTheMissing == Spec => []RequestExact
<1>1. Inv => RequestExact
      BY DEF Inv, Session, Place, RequestExact
<1>2. QED
      BY <1>1, Always, PTL

\* A session that has begun always has a timer that ends it: the package
\* check, or the delayed disconnection and reset (app_harman_ota_reset).
THEOREM NeverUnwatched == Spec => []Watched
<1>1. Inv => Watched
      BY DEF Inv, Watches, Watched
<1>2. QED
      BY <1>1, Always, PTL

LEMMA AlwaysTracked == Spec => [](Inv /\ OnTrack)
<1>1. Init => Inv /\ OnTrack
      BY InitInv, InitTracks
<1>2. Inv /\ OnTrack /\ [Next]_vars => (Inv /\ OnTrack)'
      BY NextInv, NextTracks
<1>3. QED
      BY <1>1, <1>2, PTL DEF Spec

\* Every image of a bank the boot code may take is as it was, or came whole
\* and from one package.
EachIsWhole == Bootable => \A i \in Firmware : Sound(flash.cell[i])

\* Whatever the outcome of each write, wherever the power is lost and whatever
\* is offered afterwards, no image of a bank that may be booted is torn: the
\* flags are set by the last check, and an image is behind the session only
\* after its own (app_harman_ble_ota_end_check, check_image_sum).
THEOREM NoImageIsTorn == Spec => []EachIsWhole
<1>1. Inv /\ OnTrack => EachIsWhole
  <2> SUFFICES ASSUME OnTrack, Bootable, NEW i \in Firmware
               PROVE  Sound(flash.cell[i])
      BY DEF EachIsWhole
  <2>1. Untouched(flash) \/ Done(flash, i)
        BY DEF OnTrack, Tracked, Whole, Ready, Bootable
  <2>2. QED
        BY <2>1 DEF Untouched, Done, Sound
<1>2. QED
      BY <1>1, AlwaysTracked, PTL

\* With packages of one version only, and writes that fail as they like, the
\* bank is whole as well; with any versions it is where writing works.  (With
\* two versions and a write that fails it need not be: a bank is then put
\* together of images that are sound each for itself.)
THEOREM BootsWhatIsWhole ==
    ASSUME Results = {"ok"} \/ \E v : Versions \subseteq {v}
    PROVE  Spec => []BootableIsWhole
<1>1. CASE Results = {"ok"}
  <2>1. Init => Inv /\ OnTrack /\ Exactly
        BY InitInv, InitTracks, InitExact
  <2>2. Inv /\ OnTrack /\ Exactly /\ [Next]_vars => (Inv /\ OnTrack /\ Exactly)'
        BY <1>1, NextInv, NextTracks, NextExact
  <2>3. Exactly => BootableIsWhole
        BY DEF Exactly, Exact, Pure, Ready, Bootable, BootableIsWhole
  <2>4. QED
        BY <2>1, <2>2, <2>3, PTL DEF Spec
<1>2. CASE \E v : Versions \subseteq {v}
  <2>1. OnTrack => BootableIsWhole
    <3> SUFFICES ASSUME OnTrack, Bootable
                 PROVE  \E v \in Versions \cup {0} :
                            \A i \in Firmware, q \in 0 .. Size - 1 : flash.cell[i][q] = v
        BY DEF BootableIsWhole
    <3>1. Untouched(flash) \/ \A i \in Firmware : Done(flash, i)
          BY DEF OnTrack, Tracked, Whole, Ready, Bootable
    <3>2. CASE Untouched(flash)
          BY <3>2 DEF Untouched
    <3>3. CASE \A i \in Firmware : Done(flash, i)
      <4>1. PICK v : Versions \subseteq {v}
            BY <1>2
      <4>2. v \in Versions
            BY <3>3, <4>1, FirstDoes DEF Done
      <4>3. ASSUME NEW i \in Firmware, NEW q \in 0 .. Size - 1 PROVE flash.cell[i][q] = v
            BY <3>3, <4>1 DEF Done
      <4>4. QED
            BY <4>2, <4>3
    <3>4. QED
          BY <3>1, <3>2, <3>3
  <2>2. QED
        BY <2>1, AlwaysTracked, PTL
<1>3. QED
      BY <1>1, <1>2

\* Where writing works, everything before the breakpoint is in flash and of the
\* version on record, whatever packages were offered, in what pieces they came
\* and where they were cut off: the session that goes on from it loses nothing
\* (app_harman_ble_ota_write_to_flash, app_harman_ota_breakpoint_save).
THEOREM GoesOnFromWhatIsThere ==
    ASSUME Results = {"ok"}
    PROVE  Spec => []BreakpointSound
<1>1. Init => Inv /\ OnTrack /\ Exactly
      BY InitInv, InitTracks, InitExact
<1>2. Inv /\ OnTrack /\ Exactly /\ [Next]_vars => (Inv /\ OnTrack /\ Exactly)'
      BY NextInv, NextTracks, NextExact
<1>3. Inv /\ Exactly => BreakpointSound
  <2> SUFFICES ASSUME Inv, Exactly, nv.offset # 0 PROVE BreakpointSound
      BY DEF BreakpointSound
  <2>1. nv.offset = nv.img * Size + nv.rel
        BY DEF Inv, Noted
  <2>2. Held(flash, nv.img, nv.rel, nv.record)
        BY DEF Exactly, Exact, Stands
  <2>3. QED
        BY <2>1, <2>2 DEF Held, BreakpointSound
<1>4. QED
      BY <1>1, <1>2, <1>3, PTL DEF Spec

=============================================================================

------------------------------ MODULE HarmanOta ------------------------------
(***************************************************************************)
(* Harman's firmware update over LE (app_harman_ble_ota.c): the headset    *)
(* asks the phone for the pieces of a package one after the other, gathers *)
(* them in a buffer of one flash sector, writes the buffer to the other    *)
(* bank and notes how far it got, so that a session that was cut off goes  *)
(* on where it stopped.                                                    *)
(*                                                                         *)
(* A package is a header, a table and the images, counted in units; what   *)
(* a flash cell holds is the version of the package it came from, if the   *)
(* unit stands where it belongs.  The phone is anybody: any unit of the    *)
(* package may arrive at any time, once, twice or never.  Not modelled:    *)
(* packages of voice prompts only, the flag that lets the boot code take a *)
(* bank of the same version, and a chip without two banks.  Memory is      *)
(* always there, and sectors are erased before they are written.           *)
(***************************************************************************)
EXTENDS Integers, Sequences

CONSTANTS
    Versions,       \* of the packages that may be offered
    Images,         \* end_sub_image_index: images of one bank, from 0
    Size,           \* fw_size of each
    TableSize,      \* fw_table_size
    BufferSize,     \* OTA_WRITE_BUFFER_SIZE
    PacketMax,      \* largest packet
    Report,         \* OTA_RECVED_PACKETS_NUM_TO_BE_REPORT
    Misses,         \* OTA_PACKAGE_MISSING_CHECK_TOTAL_TIMES
    Vp,             \* whether image 0 is PRE_IMG_VP
    Results         \* outcomes of a flash write: "ok", "bad", and "misread"
                    \* for one that is there and is not read back

ASSUME HarmanOtaAssumption ==
    /\ Versions \subseteq Nat \ {0}
    /\ Images \in Nat \ {0} /\ Size \in Nat \ {0} /\ TableSize \in 1 .. Size
    /\ BufferSize \in Nat \ {0} /\ PacketMax \in 1 .. BufferSize
    /\ Report \in Nat \ {0} /\ Misses \in Nat \ {0}
    /\ Vp \in BOOLEAN /\ (Vp => Images > 1)
    /\ "ok" \in Results /\ Results \subseteq {"ok", "bad", "misread"}

Bad == -1
Off(i) == 1 + TableSize + i * Size      \* fw_offset
FileSize == Off(Images)
Control == IF Size > 1 THEN 1 ELSE 0    \* OTA_SUB_IMAGE_CTRL_HEADER_OFFSET
Firmware == {i \in 0 .. Images - 1 : Vp => i > 0}

VARIABLES
    ota,    \* harman_ota_mgr, ota_upgrate_status (on) and ota_write_buf (buf)
    timer,  \* the package check timer, and the one before a reset
    nv,     \* breakpoint, recorded version and vp_ota_status of app_cfg_nv
    flash   \* the other bank, its not_ready flags, the prompts that came

vars == <<ota, timer, nv, flash>>

Idle == [on |-> FALSE, st |-> "protocol", cur |-> 0, req |-> 0, packets |-> 0, errors |-> 0,
         misses |-> 0, img |-> 0, rel |-> 0, total |-> 0, buf |-> << >>, ver |-> 0, vpsrc |-> FALSE]

\* app_harman_ota_notification_report.
Ask(m, cur, req) == [m EXCEPT !.cur = cur, !.req = req, !.packets = 0, !.errors = 0]

\* app_harman_ota_breakpoint_clear.
Clear(n) == [n EXCEPT !.offset = 0, !.img = 0, !.rel = 0, !.record = 0]

\* app_harman_ota_reset.
Soon(d) == IF d = "reset" THEN d ELSE "disconn"

\* app_harman_ota_exit; vp_src_download_addr outlives the session.
Exit ==
    /\ ota' = [Idle EXCEPT !.vpsrc = ota.vpsrc]
    /\ timer' = [timer EXCEPT !.check = FALSE]

-----------------------------------------------------------------------------
(* Flash.                                                                  *)

\* The cells of an image of size units after data was written from pos on.
Written(cells, i, pos, data, ver, res) ==
    [q \in 0 .. Size - 1 |->
        IF q \notin pos .. pos + Len(data) - 1 THEN cells[q]
        ELSE IF res # "bad" /\ data[q - pos + 1] = Off(i) + q THEN ver ELSE Bad]

\* app_harman_ota_write_to_flash.  Prompts are kept in the place of the other
\* bank's images until they are whole.
Write(f, i, pos, data, ver, res) ==
    IF Vp /\ i = 0
    THEN [cell  |-> [j \in 0 .. Images - 1 |->
                        IF j \in Firmware THEN [q \in 0 .. Size - 1 |-> Bad] ELSE f.cell[j]],
          ready |-> [j \in 0 .. Images - 1 |-> FALSE],
          tmp   |-> Written(f.tmp, i, pos, data, ver, res)]
    ELSE [f EXCEPT !.cell[i] = Written(@, i, pos, data, ver, res),
                   !.ready[i] = IF pos = 0 THEN FALSE ELSE @]

\* check_image_sum.
Sound(cells) == \E v \in Versions \cup {0} : \A q \in 0 .. Size - 1 : cells[q] = v

\* Mutant: the breakpoint is what has been received, not what is written.
SaveAhead(n, m, rel, total, res) ==
    LET w == [n EXCEPT !.vp = IF Vp /\ m.img = 0 THEN rel = Size ELSE @]
    IN  IF res = "ok" /\ rel < Size THEN [w EXCEPT !.offset = total + 1, !.img = m.img, !.rel = rel + 1]
        ELSE IF res = "ok" THEN [w EXCEPT !.offset = total, !.img = m.img, !.rel = rel]
        ELSE Clear(w)

\* app_harman_ble_ota_write_to_flash: what it notes.
Save(n, m, rel, total, res) ==
    LET w == [n EXCEPT !.vp = IF Vp /\ m.img = 0 THEN rel = Size ELSE @]
    IN  IF res = "ok" THEN [w EXCEPT !.offset = total, !.img = m.img, !.rel = rel]
        ELSE Clear(w)

-----------------------------------------------------------------------------
(* app_harman_ble_ota_end_check, with the manager, flash, breakpoint and    *)
(* timers as its caller left them.                                         *)

\* app_harman_ota_copy_vp: nothing, part or all of the prompts arrives.
Copies(m, f, res) ==
    IF m.vpsrc /\ res # "misread"
    THEN [f EXCEPT !.cell[0] = IF res = "ok" THEN f.tmp ELSE [q \in 0 .. Size - 1 |-> Bad]]
    ELSE f

\* Mutant: the checksum is not asked for.
EndChecksNothing(m, f, n, t, res) ==
    LET last == m.img + 1 = Images IN
    /\ flash' = IF last THEN [f EXCEPT !.ready = [j \in 0 .. Images - 1 |-> TRUE]] ELSE f
    /\ nv' = IF last THEN Clear(n) ELSE n
    /\ IF last
       THEN /\ ota' = [Ask(m, Images * Size, 0) EXCEPT !.st = "finish", !.img = 0, !.rel = 0]
            /\ timer' = [check |-> FALSE, delay |-> Soon(t.delay)]
       ELSE /\ ota' = [Ask(m, Off(m.img + 1) + Control, 1) EXCEPT
                          !.st = "header", !.img = m.img + 1, !.rel = 0]
            /\ timer' = t

\* Mutant: the image that is whole is asked for again.
EndCheckStays(m, f, n, t, res) ==
    IF ~Sound(f.cell[m.img])
    THEN /\ ota' = m /\ flash' = f /\ nv' = Clear(n)
         /\ timer' = [t EXCEPT !.delay = Soon(@)]
    ELSE /\ flash' = f /\ nv' = n /\ timer' = t
         /\ ota' = [Ask(m, Off(m.img) + Control, 1) EXCEPT !.st = "header", !.rel = 0, !.total = @ - Size]

EndCheck(m, f, n, t, res) ==
    IF ~Sound(f.cell[m.img])
    THEN /\ ota' = m /\ flash' = f /\ nv' = Clear(n)
         /\ timer' = [t EXCEPT !.delay = Soon(@)]
    ELSE LET copying == Vp /\ m.img = 0 /\ n.vp
             f1      == IF copying THEN Copies(m, f, res) ELSE f
             failed  == copying /\ (~m.vpsrc \/ res # "ok" \/ ~Sound(f1.cell[0]))
             last    == m.img + 1 = Images
         IN  /\ flash' = IF last THEN [f1 EXCEPT !.ready = [j \in 0 .. Images - 1 |-> TRUE]] ELSE f1
             /\ nv' = LET n1 == IF copying THEN [n EXCEPT !.vp = FALSE] ELSE n
                      IN  IF failed \/ last THEN Clear(n1) ELSE n1
             /\ IF last
                THEN /\ ota' = [Ask(m, Images * Size, 0) EXCEPT !.st = "finish", !.img = 0, !.rel = 0]
                     /\ timer' = [check |-> FALSE, delay |-> Soon(t.delay)]
                ELSE /\ ota' = [Ask(m, Off(m.img + 1) + Control, 1) EXCEPT
                                   !.st = "header", !.img = m.img + 1, !.rel = 0]
                     /\ timer' = [t EXCEPT !.delay = IF failed THEN Soon(@) ELSE @]

-----------------------------------------------------------------------------
(* app_harman_ble_ota_payload_handle, for a packet that was asked for: m is *)
(* the manager with the packet counted, t the timers.                      *)

Counted(m) == IF m.packets >= Report THEN [m EXCEPT !.packets = 0] ELSE m

OnProtocol(m, t, supported) ==
    IF supported
    THEN /\ ota' = Ask([m EXCEPT !.st = "package"], 0, 1)
         /\ timer' = t
         /\ UNCHANGED <<nv, flash>>
    ELSE Exit /\ nv' = Clear(nv) /\ UNCHANGED flash

\* The header of a package of version v; "old" when it is below the version
\* that runs, "other" when it is for another product.
OnPackage(m, t, v, kind) ==
    LET recorded == IF nv.record = 0 THEN [nv EXCEPT !.record = v] ELSE nv
    IN  IF kind = "fits" /\ nv.record \in {0, v}
        THEN /\ ota' = Ask([m EXCEPT !.st = "table", !.ver = v, !.rel = 0], 1, TableSize)
             /\ timer' = t
             /\ nv' = recorded
             /\ UNCHANGED flash
        ELSE Exit /\ nv' = Clear(nv) /\ UNCHANGED flash

\* After the table: on from the breakpoint, or from the first image.
Begin(m, t, res) ==
    IF nv.offset # 0
    THEN LET r == [m EXCEPT !.img = nv.img, !.rel = nv.rel, !.total = nv.offset] IN
         IF nv.rel = Size THEN EndCheck(r, flash, nv, t, res)
         ELSE /\ ota' = Ask([r EXCEPT !.st = "payload", !.buf = << >>],
                            Off(nv.img) + nv.rel, Size - nv.rel)
              /\ timer' = t
              /\ UNCHANGED <<nv, flash>>
    ELSE /\ ota' = Ask([m EXCEPT !.st = "header", !.img = 0, !.rel = 0], Off(0) + Control, 1)
         /\ timer' = t
         /\ UNCHANGED <<nv, flash>>

\* A check that fails while the session goes on from the breakpoint leaves
\* the table's offset undefined; it is not followed any further.
OnTable(m, t, n, res) ==
    LET len == IF m.rel + n > TableSize THEN TableSize - m.rel ELSE n
        r   == [m EXCEPT !.rel = @ + len, !.req = @ - len]
    IN  /\ m.rel < TableSize
        /\ IF r.rel = TableSize THEN Begin(r, t, res)
           ELSE /\ ota' = IF r.packets >= Report THEN Ask(r, 1 + r.rel, TableSize - r.rel) ELSE r
                /\ timer' = t
                /\ UNCHANGED <<nv, flash>>

OnHeader(m, t) ==
    /\ ota' = Ask([m EXCEPT !.st = "payload", !.buf = << >>], Off(m.img) + m.rel, Size)
    /\ timer' = t
    /\ UNCHANGED <<nv, flash>>

\* Mutant: what does not fit in the buffer is counted and dropped.
OnPayloadDrops(m, t, o, n, res1, res2, res) ==
    LET len   == IF m.rel + n > Size THEN Size - m.rel ELSE n
        fits  == IF Len(m.buf) + len > BufferSize THEN BufferSize - Len(m.buf) ELSE len
        m1    == [m EXCEPT !.req = @ - len, !.rel = @ + fits, !.total = @ + fits,
                           !.buf = @ \o [k \in 1 .. fits |-> o + k - 1]]
        m2    == [m1 EXCEPT !.buf = << >>, !.vpsrc = @ \/ (Vp /\ m.img = 0)]
        f2    == Write(flash, m.img, m1.rel - Len(m1.buf), m1.buf, m.ver, res1)
        n2    == Save(nv, m1, m1.rel, m1.total, res1)
    IN  IF Len(m1.buf) < BufferSize /\ m1.rel < Size
        THEN /\ ota' = m1 /\ timer' = t /\ UNCHANGED <<nv, flash>>
        ELSE IF m2.rel = Size THEN EndCheck(m2, f2, n2, t, res)
        ELSE ota' = m2 /\ timer' = t /\ flash' = f2 /\ nv' = n2

\* n units from o on: what fits goes to the buffer, the rest after the buffer
\* has been written; an image that ends is written and checked at once.
OnPayload(m, t, o, n, res1, res2, res) ==
    LET len   == IF m.rel + n > Size THEN Size - m.rel ELSE n
        fits  == IF Len(m.buf) + len > BufferSize THEN BufferSize - Len(m.buf) ELSE len
        buf1  == m.buf \o [k \in 1 .. fits |-> o + k - 1]
        rel1  == m.rel + fits
        full  == Len(buf1) = BufferSize \/ rel1 = Size
        m1    == [m EXCEPT !.req = @ - len, !.rel = rel1, !.total = @ + fits, !.buf = buf1]
        f1    == Write(flash, m.img, rel1 - Len(buf1), buf1, m.ver, res1)
        n1    == Save(nv, m1, rel1, m1.total, res1)
        \* the rest, which ends the image or stays in the buffer
        buf2  == [k \in 1 .. len - fits |-> o + fits + k - 1]
        rel2  == m.rel + len
        again == len > fits /\ rel2 = Size
        m2    == [m1 EXCEPT !.rel = rel2, !.total = m.total + len, !.buf = IF again THEN << >> ELSE buf2,
                            !.vpsrc = @ \/ (Vp /\ m.img = 0)]
        f2    == IF again THEN Write(f1, m.img, rel1, buf2, m.ver, res2) ELSE f1
        n2    == IF again THEN Save(n1, m2, rel2, m2.total, res2) ELSE n1
        t2    == [t EXCEPT !.delay = IF res1 # "ok" \/ (again /\ res2 # "ok") THEN Soon(@) ELSE @]
    IN  IF ~full
        THEN /\ ota' = IF m.packets >= Report THEN Ask(m1, Off(m.img) + rel1, Size - rel1) ELSE m1
             /\ timer' = t /\ UNCHANGED <<nv, flash>>
        ELSE IF rel2 = Size THEN EndCheck(m2, f2, n2, t2, res)
        ELSE /\ ota' = IF m.packets >= Report THEN Ask(m2, Off(m.img) + rel2, Size - rel2) ELSE m2
             /\ timer' = t2 /\ flash' = f2 /\ nv' = n2

-----------------------------------------------------------------------------
(* Commands, timers and the rest of the headset.                           *)

\* CMD_HARMAN_OTA_START.
Start ==
    /\ ota' = Ask([Idle EXCEPT !.on = TRUE, !.vpsrc = ota.vpsrc], 0, 1)
    /\ timer' = [timer EXCEPT !.check = FALSE]
    /\ UNCHANGED <<nv, flash>>

\* CMD_HARMAN_OTA_STOP, the link lost, a call or a ring.
Stop ==
    /\ ota.on
    /\ Exit
    /\ UNCHANGED <<nv, flash>>

\* A packet that was not asked for; counts above Report are alike.
Strange(m) ==
    LET e == [m EXCEPT !.errors = @ + 1] IN
    IF e.errors >= Report + 2 THEN [m EXCEPT !.packets = 0, !.errors = 0]
    ELSE IF e.errors + e.packets = Report THEN Ask(e, e.cur, e.req)
    ELSE e

\* CMD_HARMAN_OTA_PACKET with n units from o on.  Outside a session it changes
\* nothing that START does not set anew.
Packet(o, n) ==
    LET t == [timer EXCEPT !.check = TRUE]
        m == [ota EXCEPT !.misses = 0, !.cur = o + n, !.errors = 0,
                         !.packets = IF @ > Report THEN @ ELSE @ + 1]
    IN  /\ ota.on
        /\ \/ /\ o # ota.cur
              /\ ota' = Strange([ota EXCEPT !.misses = 0])
              /\ timer' = t /\ UNCHANGED <<nv, flash>>
           \/ /\ o = ota.cur
              /\ \/ ota.st = "protocol" /\ \E ok \in BOOLEAN : OnProtocol(m, t, ok)
                 \/ /\ ota.st = "package"
                    /\ \E v \in Versions, kind \in {"fits", "old", "other"} : OnPackage(m, t, v, kind)
                 \/ ota.st = "table" /\ \E res \in Results : OnTable(m, t, n, res)
                 \/ ota.st = "header" /\ OnHeader(m, t)
                 \/ /\ ota.st = "payload"
                    /\ \E res1, res2, res \in Results : OnPayload(m, t, o, n, res1, res2, res)
                 \/ /\ ota.st = "finish"
                    /\ ota' = Counted(m) /\ timer' = t /\ UNCHANGED <<nv, flash>>

AskedPacket == ota.cur <= FileSize /\ \E n \in 1 .. PacketMax : Packet(ota.cur, n)
AnyPacket == \E o \in 0 .. FileSize, n \in 1 .. PacketMax : Packet(o, n)

\* Mutant: the timer asks once more and is not started again.
TimeoutOnce ==
    /\ timer.check
    /\ IF ota.misses + 1 # Misses
       THEN /\ ota' = Ask([ota EXCEPT !.misses = @ + 1], ota.cur, ota.req)
            /\ timer' = [timer EXCEPT !.check = FALSE]
       ELSE Exit
    /\ UNCHANGED <<nv, flash>>

\* APP_OTA_PACKAGE_CHECK: ask again, and give up the second time.
Timeout ==
    /\ timer.check
    /\ IF ota.misses + 1 # Misses
       THEN /\ ota' = Ask([ota EXCEPT !.misses = @ + 1], ota.cur, ota.req)
            /\ UNCHANGED timer
       ELSE Exit
    /\ UNCHANGED <<nv, flash>>

\* HARMAN_OTA_TIMER_DELAY_DISCONN_BT_AND_BLE.
Disconnect ==
    /\ timer.delay = "disconn"
    /\ timer' = [timer EXCEPT !.delay = "reset"]
    /\ UNCHANGED <<ota, nv, flash>>

\* HARMAN_OTA_TIMER_DELAY_RESET, or the battery is taken out: RAM is lost.
Restart ==
    /\ timer.delay = "reset"
    /\ ota' = Idle
    /\ timer' = [check |-> FALSE, delay |-> "none"]
    /\ UNCHANGED <<nv, flash>>

PowerLost ==
    /\ ota' = Idle
    /\ timer' = [check |-> FALSE, delay |-> "none"]
    /\ UNCHANGED <<nv, flash>>

Bootable == \A i \in Firmware : flash.ready[i]

OldBank == [cell  |-> [i \in 0 .. Images - 1 |-> [q \in 0 .. Size - 1 |-> 0]],
            ready |-> [i \in 0 .. Images - 1 |-> TRUE],
            tmp   |-> [q \in 0 .. Size - 1 |-> Bad]]

\* The boot code takes the other bank when it may; the one that ran until now
\* is the next to be written.  The prompts are in use by both.
Boots ==
    /\ Bootable /\ ~ota.on /\ timer.delay = "none"
    /\ flash' = [OldBank EXCEPT !.tmp = flash.tmp]
    /\ UNCHANGED <<ota, timer, nv>>

-----------------------------------------------------------------------------
Init ==
    /\ ota = Idle
    /\ timer = [check |-> FALSE, delay |-> "none"]
    /\ nv = [offset |-> 0, img |-> 0, rel |-> 0, record |-> 0, vp |-> FALSE]
    /\ flash = OldBank

Next ==
    \/ Start \/ Stop \/ AnyPacket \/ Timeout
    \/ Disconnect \/ Restart \/ PowerLost \/ Boots

Spec == Init /\ [][Next]_vars

\* Timers fire.
Fairness == WF_vars(Timeout) /\ WF_vars(Disconnect) /\ WF_vars(Restart)

FairSpec == Spec /\ Fairness

-----------------------------------------------------------------------------
Cells == [0 .. Size - 1 -> Versions \cup {0, Bad}]

TypeOK ==
    /\ ota \in [on : BOOLEAN, st : {"protocol", "package", "table", "header", "payload", "finish"},
                cur : Nat, req : Nat, packets : 0 .. Report + 1, errors : 0 .. Report + 1,
                misses : 0 .. Misses - 1, img : 0 .. Images - 1, rel : Nat, total : Nat,
                buf : Seq(Nat), ver : Versions \cup {0}, vpsrc : BOOLEAN]
    /\ Len(ota.buf) < BufferSize
    /\ timer \in [check : BOOLEAN, delay : {"none", "disconn", "reset"}]
    /\ nv \in [offset : Nat, img : 0 .. Images - 1, rel : 0 .. Size,
               record : Versions \cup {0}, vp : BOOLEAN]
    /\ flash \in [cell : [0 .. Images - 1 -> Cells], ready : [0 .. Images - 1 -> BOOLEAN], tmp : Cells]

\* What is asked for again after a loss is what is missing, to the unit: the
\* offset the phone is held to, the length it is told and the place in the
\* image agree, whatever packets came, short, long, or twice.
RequestExact ==
    ota.on /\ ota.st = "payload" /\ ota.rel < Size =>
        /\ ota.cur = Off(ota.img) + ota.rel
        /\ ota.req = Size - ota.rel
        /\ ota.total = ota.img * Size + ota.rel

\* A bank the boot code may take is whole, and of one version, wherever the
\* power was lost or a session ended.
BootableIsWhole ==
    Bootable => \E v \in Versions \cup {0} : \A i \in Firmware, q \in 0 .. Size - 1 : flash.cell[i][q] = v

\* Everything before the breakpoint is in flash, of the version that is on
\* record, so that going on from there loses nothing.
BreakpointSound ==
    nv.offset # 0 =>
        /\ nv.offset = nv.img * Size + nv.rel
        /\ \A i \in 0 .. Images - 1, q \in 0 .. Size - 1 :
              (i < nv.img \/ (i = nv.img /\ q < nv.rel)) =>
                  IF Vp /\ i = 0 /\ (nv.img = 0 /\ nv.rel < Size) THEN flash.tmp[q] = nv.record
                  ELSE flash.cell[i][q] = nv.record

\* A session that has begun always has a timer that ends it.
Watched == ota.on /\ ota.st # "protocol" => timer.check \/ timer.delay # "none"

\* A phone that sends what is asked for, whatever else it sends, comes to an end
\* of the update: done, refused or cut off, unless it starts anew for ever.
Restarts == []<><<Start>>_vars
SessionEnds == WF_vars(AskedPacket) => Restarts \/ []<>(~ota.on)

\* A package of another version is not allowed to go on from a breakpoint: what
\* stands in the image before the place it goes on from is its own.
ResumesOwn ==
    ota.on /\ ota.st = "payload" /\ (Vp => ota.img > 0) =>
        \A q \in 0 .. ota.rel - Len(ota.buf) - 1 : flash.cell[ota.img][q] \in {ota.ver, Bad}
=============================================================================

# Verification of the JBL Tune headset firmware

TLA+ models of five parts of `src/src/sample/rws`: the link policy, which decides
which phones the device calls back, when it can be found and connected, and how it
is switched off; the queues of event packets to phones and to a controller; the
automatic power-off; the firmware update over LE; and the external charger with its
thermistors. TLC checks them on small instances; TLAPS proves the central invariants
for every number of phones, queue places, packet sizes, thresholds and configurations.

## 1. The system

The firmware is one application task over a Bluetooth stack that is only
present as a library. Stack callbacks, software timers and requests of the user
interface are messages to that task; a handler runs to its end before the next
one starts. What is concurrent is the outside: phones, the stack's answers,
timers and the user, in any order.

| Component | State | Operations | Interacts with | Hard behaviour | What makes it correct |
|---|---|---|---|---|---|
| Linkback queue (`app_linkback.c`) | linked list of nodes over a fixed pool; one *active node* | insert normal / forced, take first, remove profiles, delete group, charge elapsed time, load the bond list | called by the policy only | pool exhausted, recycled items, hand-kept tail pointer, group sharing one time | no phone twice, no node without time, one time for the group, no leaked or dangling item |
| Link policy (`app_bt_policy.c`) | `cur_state`, `radio_mode`, `b2s_connected`, incoming list, ten flags, timers, shutdown step | power on/off, box in/out, connect, disconnect, pairing; link, authentication, search and profile events; timers | queue, link slots, stack, user interface | events crossing each other, late answers, time-outs racing answers, shutdown in the middle of a call, full house | see section 4 |
| Link slots (`app_link_util.c`, `app_db.br_link`) | one record for each connected address | allocate, zero, find | policy, audio, BLE | count kept beside the slots | the count is the number of used slots |
| Bud coupling and role swap (`app_roleswap*.c`, FE/AFE states of the policy) | bud role, coupling state | shaking, coupling, role swap | the other bud, relay | two devices, lost messages | one primary; the link list survives a swap |
| Multilink and stream priority (`app_multilink.c`) | active index, per-link stream state | arbitrate voice and music, choose the inactive link | policy, audio | two phones at once | one stream audible; never the last link dropped |
| Transfer queues (`app_transfer.c`, `app_report.c`) | two rings of packets (phones, UART), each with read and write index, timer and resend count | push, pop, acknowledgement, credit, completion, time-out, reset | UART, SPP, LE | full ring, late and doubled answers, a dead link's packets in the middle | indices exact, sent in order, no packet forgotten |
| External charger and NTC (`ext_charger/`, `harman/app_harman_adc.c`, `harman/app_harman_usb_connector_protect.c`) | charging state, enable pin, current, readings of two thermistors, connector status, delayed end | adapter in and out, conversion, time-out, edge of the status pin | adapter and ADC libraries, user interface | events crossing the debouncing, thrown-away samples, thresholds shifted by current and hysteresis | state and pin agree; too hot is not charged; a steady temperature gives a steady state; full is said for a reason |
| Harman BLE OTA (`harman/app_harman_ble_ota.c`) | request, place in the image, sector buffer, breakpoint in flash | start, stop, packet, missed-packet timer, reset | GATT, flash, boot code | lost or repeated packets, power lost, failed writes | what is asked for is what is missing; no hole before a breakpoint or in a bank that can boot |
| Automatic power off (`app_auto_power_off.c`) | mask of reasons, one timer | enable and disable a reason, expire | policy, HFP, A2DP, LE, OTA, keys, charger | nine modules change one mask in any order | each reason goes with its cause; the timer runs just when none is left |
| Power state (`app_device.c`, `app_mmi.c`, `app_dlps.c`) | device state, DLPS mask | on, off, pairing, box | drives the policy | requests at any time | what the policy is asked is legal |
| Relay (`app_relay.c`) | none of its own | messages to the other bud | all | loss | delivered once |
| HFP, A2DP, AVRCP (`app_hfp.c`, `app_audio_policy.c`) | call and stream status | audio routing | policy reads the call status | calls during pairing | outside the policy |
| BLE advertising and GATT (`app_ble_*.c`) | library state | start, stop, update | vendor library | – | outside the policy |
| Console and vendor commands (`app_console_msg.c`, `app_cmd.c`) | buffers | parse and print | policy requests | – | outside the policy |

`PROJECT.json` repeats this list with the state of each part, and lists under
`hazards` what is hard to test in this code, line by line: those a property
covers, and those none covers yet with the reason.

Modelled are the queue, the policy with the link slots, the transfer queues, the
automatic power-off with what it needs of the power state, the update, and the charger
as it is built for RUN3 (charger DZ581, one thermistor on the battery), for a
headset with no second bud (`bud_role` SINGLE). The rest is in section 7.

The parts meet as follows. The policy tells `app_device.c` what happened to links and
which state it enters; those handlers put reasons into the power-off mask and take
them out (`AutoPowerOff` takes the policy as its environment: any order of its events
that the code allows). The mask's timer, a key or the box ends in
`app_mmi.c`, which asks the policy to shut down (`PowerOff` of `BtPolicy`) and polls
until its links are gone. An update holds the mask and is stopped by a lost link or a
call. The transfer queues carry the answers of all of them and know links only by
their state. The charger stands for itself: it reads the adapter's status and its
thermistors, and what it tells the others is the charging state alone.

## 2. Modules

| Module | What it is |
|---|---|
| `TodoQueue` | The list of waiting phones as its callers see it: a sequence of nodes, one operator for each list function. The abstract specification. |
| `LinkbackQueue` | The same functions on the pool, `head`, `tail` and `next` of the code. Shown to implement `TodoQueue` (`Abs` maps the list to the sequence read along the pointers). |
| `BtPolicy` | The policy, with the active node and the profile steps of `app_linkback.c`. Its queue is a `TodoQueue` (`Q == INSTANCE TodoQueue`), and it is shown to use it only through that module's operations. |
| `Transfer` | `dt_queue`: packets for all phones, over SPP and LE, in one ring with one timer. |
| `TransferUart` | `uart_tx_queue`: packets for a controller on the UART. |
| `AutoPowerOff` | The mask, the timer and every handler that touches them, from power-on to the end of the reboot check. |
| `HarmanOta` | A session of the update, the breakpoint, the other bank and the boot code's choice. |
| `ExtCharger` | The charger, the battery's and the connector's thermistor, the adapter and the status pin. |
| `TodoQueue_proofs`, `BtPolicy_proofs`, `AutoPowerOff_proofs`, `HarmanOta_proofs`, `ExtCharger_proofs` | The theorems about each and their proofs. |
| `BtPolicyCalls_proofs` | The calls of the policy: linkback goes on, the full house, links too many, skipped profiles. Goes on from `BtPolicy_proofs`, which uses `TodoQueue_proofs`. |
| `Queues`, `MCTransfer` | `TodoQueue` with `LinkbackQueue` (`Pool!`), and `Transfer` with `TransferUart` (`Uart!`), in one run each: they share no state, a behaviour uses the one or the other. `MCQueue` adds the symmetry. |
| `LinkbackQueue_proofs` | The theorems about the linked list of `LinkbackQueue`, by itself and in the behaviours of `Queues`, which it extends. |
| `Transfer_proofs` | The theorems about both rings, by themselves and in the behaviours of `MCTransfer`, which it extends. |
| `MCBtPolicy`, `MCAutoPowerOff`, `MCHarmanOta`, `MCExtCharger` | Symmetry, bond lists and version sets for TLC. |

### How `BtPolicy` corresponds to the code

All state is one record `bp`, so that a handler is an operator from a record to
a record and calls of the code are applications: `StableAgain`, `EnterState`,
`DedicatedConnect` carry the names of the code's `stable_sched`, `enter_state`,
`dedicated_connect_event_handle`. The fields:

| Field | Code |
|---|---|
| `cur`, `radio` | `cur_state`, `radio_mode` |
| `queue`, `active` | `linkback_todo_queue`, `linkback_active_node` |
| `link`, `num` | the slots of `app_db.br_link`, `b2s_connected.num` |
| `bond` | the bond flags, the one persistent data; a failed authentication deletes them |
| `ind` | `src_conn_ind` (two addresses, each with a timer) |
| `timer`, `flag` | which timer handles run, which of the module's booleans are set |
| `step`, `cnt` | `shutdown_step`, `shutdown_step_retry_cnt` |
| `call` | whether `app_hfp_get_call_status` is other than idle |
| `op` | what the stack was asked and has not answered: searches, stops, connects, disconnects |
| `run` | inside `linkback_run` |

An event is one action: `bt_event_pre_handle`, then the handler of the state, in
the code's order. `linkback_run` is the only loop and always the last call of a
handler; it is the action `LinkbackRun`, one round at a time, and every other
action waits for `~bp.run`. This keeps the loop free of recursion and its
termination a property to check rather than an assumption.

The stack is external. It answers what it owes in any order: a page may end
although its search was stopped, a link may come up during shutdown, a search may
be answered late. It is modelled from how the policy calls it:
`legacy_stop_sdp_discov` ends a search, a search pages the phone and goes on over
the link, a lost link ends what was owed on it except the stop of a search.

What phones and users do of their own accord (call in, leave, lose the link, fail
authentication, connect or drop profiles, press keys) is chosen per run by
`Features` and bounded by `MaxEvents`; every action that spends it says so with
`Own`. A phone that is called may always fail or answer, unbounded.

Times are numbers of failed calls: a call charges between nothing and all of
`MaxTime` of the node's time (`used` in `ConnFail`, `PowerOff`), so every
outcome of the comparison with the clock is covered. `bp.flag`'s `one_link` is
`discoverable_when_one_link`, `power_on_done` is `au_get_power_on_link_back_fg`.

### The other modules

**`Transfer`**. `dt` is `dt_queue` and `dt_queue_ctrl`: `ring`, `r`, `w`, `status`,
`timer` (`retry` is channel 0 of `APP_TRANSFER_TIMER_CHECK_DATA_TRANSFER`, `ack` channel
1), `resend`; `spp`, `credit` and `le` are what the code reads of the links, `owed`
counts the completions the LE stack has not given yet. `app_pop_data_transfer_queue` is
`Discard` (move to the next) followed by `Serve`; where it calls itself as the last
thing it does, `again` is set and `PopAgain` is the call. `credited` is the link whose
credit `app_spp.c` notes after the pop it makes. `last` and `heard` are ghosts: the
newest packet sent, and what the phones may still answer.

**`TransferUart`**. The same for `uart_tx_queue`, where a packet that needs no answer
is moved past at once and any `CMD_ACK` moves the queue.

**`AutoPowerOff`**. `off` is `poweroff_flag` and whether `poweroff_timer` runs; `dev`
and `mmi` are the device state, the reboot check with its count, and the prompt before
it; `phone`, `le`, `key`, `box`, `ota` and `bp` are the causes: links, LE links, keys,
charger, update and the state the policy reported last. Each handler calls
`Enable` and `Disable` in the order the code does.

**`HarmanOta`**. `ota` is `harman_ota_mgr` with `ota_write_buf` (`buf`, of which only
which unit of the package it holds is kept), `nv` the breakpoint and the version on
record, which survive power loss, `flash` the other bank: what each cell holds is the
version it came from if it stands where it belongs and `Bad` otherwise, and `ready`
is the `not_ready` flag of each image. A write may fail or be read back wrong
(`Results`). A package is counted in units, the header and control header are one unit
each. `Boots` is the boot code: it may take the other bank when all its firmware images
are ready.

**`ExtCharger`**. `charger` is `ext_charger_mgr` with the timer that delays the end of
charging (`finish`); `adc` is the battery's conversion: asked for, done and not handled
yet (`msgs`), the last voltage, and whether the next is the first and ignored; `usb` the
connector: `usb_is_plug_in`, its conversion, the reading as one of four zones,
`usb_status`, the flag in flash, and how many samples are still skipped; `adp` is
`ADP_DET_status` and what the plug callback last told; `pin` the level of the status
pin and the edges whose messages are not handled yet. Every handler reads the adapter's
status as it is then, not as it was told, which is what the model is about. Voltages fall
with the heat. Of the pins that are driven only what they are set from is kept; whether
the battery's voltage is low enough for a recharge, and whether its detection fails, are
free choices. `thermistor_1_enable` is taken to be set.

## 3. Runs and bounds

The runs of the queue, the policy and the transfer queues have `CHECK_DEADLOCK FALSE`: a
device whose user and phones do nothing more stands still, and so does a queue no one
uses; a charger may be without an adapter for ever. In `AutoPowerOff` and `HarmanOta`
something can always happen, and deadlock is looked for.

| Run | Instance | Question |
|---|---|---|
| `Queue` | 3 phones, 2 places or pool items, times to 2; 2 profiles for the sequence, recycled `check_bond_flag` for the list | Does any sequence of list operations keep the queue sound? Two places for three phones make the full queue happen, two profiles merging and partial removal. Every shape of the list: removal at head and tail and all at once, empty and full, nodes dropped for want of an item, what a recycled item passes on; does it implement the sequence? Plans are left out of the list, the sequence has them. |
| `BtPolicyCalls` | 3 phones, 2 places, places in the queue 2 | Calls out, calls in, requests, refusals and losses that cross each other; the house fills, is full, and gets one too many; the queue refines `TodoQueue`. |
| `BtPolicyPairing` | 2 phones, 2 places | Pairing by the user and by itself, a ringing phone, failed authentication until no bond is left and the device asks to be switched off. |
| `BtPolicyOff` | 1 phone, A2DP, AVRCP, DID | Power-off and the charging box at any moment, restart and restore, with several profiles, role switches, time-outs, refusals and the phone's own connections. |
| `BtPolicyEnds` | 2 phones | Liveness under `FairSpec`; no symmetry, which is unsound for liveness. |
| `Transfer` | 2 SPP phones, 1 LE phone, 2 slots, 3 packets; UART with 3 slots, 7 packets | Full ring, wrap of the indices, refusals, credits, dead links in the middle, late and doubled answers; the UART's ring wraps twice while answers are late, doubled or missing. |
| `AutoPowerOff` | 2 phones, 2 LE links, the time for connected phones set | Every order of links, calls, music, prompts, keys, charger, update, pairing and power-off. |
| `HarmanOta` | 2 versions, 3 images of 4 units, buffer 3, packets to 2, flash that works | Sessions that are cut off anywhere and resumed, packets of any unit at any time. |
| `HarmanOtaFails` | 1 version, 3 images of 3 units, buffer 2, flash that fails | What may be booted after failed writes, power loss and failed copies of prompts. |
| `HarmanOtaResume` | 2 versions, flash that fails | Ends in a violation, see section 4. |
| `ExtCharger` | a battery at 140, 155 or 300 mV between limits of 150, 200, 400 and 500 with hysteresis 10; connector cool, warm, melting | Every order of adapter, conversions, time-outs, edges and heat. |
| `ExtChargerFlaps` | the 10K thermistor's limits (83, 83, 152, 229, hysteresis 4), a battery at 88 mV | Ends in a violation, see section 4. |

Two phones are enough for every pair of events of different phones; a third is needed
where two places are full. One profile is enough for everything about links; profile
order and profile failure are in the run with the longest chain (A2DP, AVRCP, DID).
`MaxEvents` 2 gives two spontaneous events on top of the unbounded answers: each hazard
listed is a meeting of two. `MaxTime` 2 with `LinkbackTime` 1 lets a bond list of two
phones have the double time the code gives it. In `Transfer` two slots give an empty, a
partly filled and a full ring, and three packets a wrap of both indices; three links put
a dead link's packet between two others. `Resend` 2 gives a resend and the last attempt;
more would repeat the former. In `HarmanOta` the image is no multiple of the buffer and
the buffer none of the packet, so that a packet ends before, at and after a block, and a
block before and at the end of an image; of three images the first are prompts, the
second is neither first nor last. In `ExtCharger` the three voltages are one in error,
one inside the hysteresis of the error limit and one that is good whatever the current;
the cold side is the mirror image in the code and in the proofs is covered with any
voltages. One conversion and one edge not handled yet are enough for each to cross any
other event. The first samples of the connector that the code skips are skipped in
`ExtChargerFlaps` only (`Skip`), as they delay and change nothing else. The adapter does
not bounce back to its old status (`Bounces` FALSE), see the observations in section 4.
The runs take between a few seconds and about three minutes each.

Every property has a mutant: a plausible slip in one operator (a timer not
stopped, a count not changed, an address not looked up, a last attempt too many)
with which TLC finds the property violated in the same run. The mutants are
defined in the modules beside what they change and are used by nothing else.

## 4. What is checked

* **Queue**: no phone twice (`AddressesUnique`), no node without time and one time for
  the group (`TimesRight`); on the list `PoolExact` (used items are exactly the
  reachable ones, and the tail is the last of them), `ImplementsTodoQueue`.
* **Calling back**: something always makes linkback go on, the timer of the phone being
  called or the end of a stopped search (`LinkbackAlive`), a
  phone is not called and waiting at once, and the group keeps one time also with its
  member being called (`ActiveFitsQueue`), a planned profile is not skipped by a late
  or foreign answer (`NothingSkipped`), the policy uses the queue as `TodoQueue` allows
  (`QueueRefinement`), and calling ends (`LinkbackEnds`).
* **Links**: the count is right (`NumMatchesLinks`), a full device is closed and calls
  no one (`FullHouseQuiet`), one link too many is on its way out (`Shedding`; while it
  shuts down that is `NoLinkKept`), an empty one is open (`Reachable`).
* **Visibility**: `VisibleWhileTimerRuns`, `PairingIsTimed`, `PairingEnds`.
* **Off**: no call (`NoZombie`), radio (`SilentWhenOff`) or link (`NoLinkKept`) is left
  behind, and shutdown ends (`ShutdownCompletes`).
* **Counters of the policy**: `TypeOK`, whose bounds on failures and waits are the
  interesting part.
* **Transfer**: the slots in use are those between the indices (`RingExact`), nothing
  is sent after what was reported later (`InOrder`), a waiting packet has a timer or a
  completion to come (`NoStall`); on the UART, the first packet has been written and is
  timed (`FirstIsWritten`). On both every packet leaves in the end (`BothDrain`; except
  behind an LE link that has not enabled notifications, `Blocked`).
* **Automatic power-off**: no reason outlives its cause (`HeldForReason`), the timer
  does not run in use (`NoOffWhileBusy`) and does when there is no reason (`Armed`), an
  idle headset does not stay on (`TurnsOff`), a power-off gets to its end
  (`OffCompletes`).
* **Update**: offset, length and place agree (`RequestExact`), what lies before a
  breakpoint is in flash and of the version on record (`BreakpointSound`), a bank that
  can boot is whole (`BootableIsWhole`), a session is always timed (`Watched`) and ends
  with a phone that sends what it is asked for (`SessionEnds`).
* **Charger**: the state shown and the enable pin agree (`ShownIsSo`), full is about to
  be said only while the pin says so (`FullForReason`), at a steady temperature the state
  comes to rest, and where it should at charging (`StatusSettles`), and what stays too
  hot is no longer charged (`HotStops`).

### Disagreements of code and comment

`app_harman_ota_package_ver_check` refuses a package of another version than the one on
record, "Not allowed to proceed breakpoint OTA" (`app_harman_ble_ota.c:272`). A failed
write clears breakpoint and record, but the session goes on until the delayed
disconnection, and the next block that is written sets a new breakpoint with no version
on record; after the reset a package of any version is taken for the first, and goes on
from there. `HarmanOtaResume` shows it (`ResumesOwn`). `BreakpointSound` holds in
`HarmanOta` because writes succeed there, and does not when they fail. The checksums
still keep a torn image from being booted (`NoImageIsTorn`, proved whatever writes do),
but not a bank put together of whole images of two versions, see below.

The charger's hysteresis is there "to avoid charging status changed frequently"
(`ext_charger/app_ext_charger.c:144`). The reading is lowered by 8 or 15 mV for the
charging current in every state but ERROR, and a 10K thermistor has a hysteresis of 4
mV: between 87 mV and 98 mV (about 34 degrees and below; 91 mV with the current for a
battery found bad) a charging battery is too hot (88 - 15 is below 83) and one that is
not charged is cool enough (88 is above 83 + 4), so that CHARGING and ERROR follow each
other for ever. `ExtChargerFlaps` shows it (`StatusSettles`). With a region of warning
between and a hysteresis of 10, more than the effect of the current used there,
`StatusSettles` holds (`ExtCharger`).

### What the models showed the code does not keep

These are not claims of the code, so they are no properties, but they are worth
knowing; each is a hazard with its line.

* The linkback timer that runs out while the called phone is linked and waits for
  the delay timer stops the delay timer too: linkback stands still until some other
  event. `LinkbackAlive` and `LinkbackEnds` except exactly this (`Stranded`).
* A link that was never authenticated and leaves a full, not empty device does not
  reopen it.
* `disconnect_for_pairing_mode` survives a lost link, a shutdown and linkback, and
  then turns another phone's leaving into a pairing mode in any state. Even a request
  for a connection between a forced pairing and the victim's leaving is enough: the
  phone called by then stays the active node outside linkback (`NoZombie`), and may wait
  and be called at once (`ActiveFitsQueue`). Both are therefore checked, and proved,
  without forced pairing.
* A phone that reconnects a profile while it is being given up stays, marked to be
  cut later. So with several profiles `Shedding` is not to be had: nothing ends the link
  while the profile the phone took back lives, and a user who ends one profile of that
  phone by hand clears the mark. With two links too many both may choose the same victim.
  `OneTooManyIsMarked` is what is left with several profiles.
* The event of a role switch carries a `not_check_addr_flag` that is not initialised
  (`app_bt_policy.c:2875` reads it). If it happens to be set, the switch of one phone
  completes the search that was put off for another, before that phone has switched; a
  profile the first phone has may then be left out for the second. `NothingSkipped` is
  checked with one phone, and proved with one or where none switches roles.
* With a single place the switches that keep a headset with one phone visible or
  pairing are stronger than the full house: `FullHouseQuiet` needs them off there.
* With two phones, one of them not authenticated yet, the authenticated one leaves and
  then the other is lost: `SOURCE_LINK` stays in the mask and the headset never switches
  itself off (`LeavesUnauthed`, left out of the run). The same happens to `KEY` when the
  last phone leaves while a key is held.
* Harman's LE packets are popped when the stack takes them, and the completion pops
  once more: a packet that came to the head meanwhile is discarded unsent. So `InOrder`
  says that nothing is sent late, not that everything is sent.
* The callback of the adapter tells only changes. If the adapter's status may return
  to what it was while it is debounced (`Bounces`), a conversion handled in between
  shows NO_CHARGE with the charger on, and no callback comes to switch it off:
  `ShownIsSo` does not hold then.
* A conversion that is handled between the adapter's arrival and its callback starts
  charging; the callback then finds CHARGING, which ignores it, and the connector's
  conversions are never started.
* A battery whose thermistor has failed is to be not charged by a comment
  (`harman/app_harman_adc.c:357`), but is charged at 0.5C (`Warn`, `Normal`).
* An update whose breakpoint stands at the boundary of two images with no version on
  record (after a write that failed or was read back wrong, and a reset) goes on with a
  package of another version. Each image passes its checksum, and the bank that may be
  booted is of two versions: in the instance of `HarmanOtaResume` `BootableIsWhole` does
  not hold.
* If the prompts of an update cannot be copied the reset is scheduled, but the image
  counts as done and the phone may be told that the update succeeded.

## 5. Fairness

`FairSpec` assumes that the task runs (`WF` of `LinkbackRun`), that the stack answers
what it was asked and timers fire. The latter are strongly fair (`SF`): an event that
becomes due while `linkback_run` goes round is disabled in the model only because it
waits in the task's queue, which is a FIFO; it is handled after the round, so one that
is enabled again and again is handled. The discoverable timer and the AVRCP timer are
left out, nothing depends on them. Nothing is assumed of phones and user: they may never
call, leave or press a key. A search answered or failed is the stack's own promise (its
page and SDP time-outs) and is assumed; the linkback timer of the policy is on top of
it.

`Transfer` assumes strong fairness of the pop that is due and of its timer for either
outcome of the send (`SF` for `ok` TRUE and FALSE): the timer is started anew by other
events, hence strong; a stack that refuses a packet for ever is not assumed to exist, or
nothing could drain. Answers, credits and completions are not assumed. `TransferUart`
needs only that its timer fires and the pop that is due is made (`WF`); its controller
may be silent for ever. `AutoPowerOff` assumes that its two timers fire and that nobody
holds a key for ever (`WF` of `Expire`, `RebootCheck`, `KeyRelease`); the reboot check
waits for the key with no count, so `OffCompletes` needs the last. `HarmanOta` assumes
its timers (`WF` of `Timeout`, `Disconnect`, `Restart`). That the phone sends what it is
asked for is not assumed by the specification but is the hypothesis of `SessionEnds`;
without a phone the missed-packet timer ends a session once a first packet has come, a
session with none waits for the link to be lost. `ExtCharger` assumes that conversions
and the debouncing end, timers fire and messages are handled (`WF` of each of these
actions); each of them stays enabled until it is taken, so weak fairness is enough. The
adapter and the status pin may change or stay (`Debounce`, `Edge` are not fair). That
temperature and adapter stay as they are is the hypothesis of `StatusSettles` and
`HotStops`.

## 6. What is proved

Everything is checked by TLAPS to the leaves, for all values of the constants that
satisfy the modules' assumptions (`TodoQueueAssumption`, `BtPolicyAssumption` and so
on), which TLC evaluates in each run. Those of the policy are: finitely many addresses
without the zero address, positive capacities and times, and the profiles closed
under what the code adds by itself (AVRCP and DID with A2DP).

**`TodoQueue_proofs`**: `TypeCorrect`, `NoDuplicates` and `TimesAreRight`, from the
inductive invariant `QueueSound`. The safety invariants are proved together
because they need each other's types: charging a node's time is only sound on a queue
whose times are numbers, and a merge keeps the group's time only because a group request
never changes a waiting node. The lemmas state what filtering, mapping and inserting do
to addresses and times.

**`LinkbackQueue_proofs`**: `ListIsTodoQueue`, that the linked list implements the
sequence of `TodoQueue` call for call, and `ListIsExact`, that its pool neither leaks nor
dangles; `PoolIsTodoQueue` and `PoolIsExact` say the same of the behaviours of the run.
The size of the pool is any, so are phones, profiles, times and what is inserted. The
invariant (`IsList`) is that there is a sequence `c` of items without repetitions such that the
head is its first, the tail its last, each `next` pointer leads to the next of `c`,
exactly the items of `c` are used (`Chained`), and no two of them have the same address
(`Distinct`): together `Holds(L, c)`. For each list function a lemma says that of a list
with `Holds(L, c)` it makes one with `Holds` of another sequence `d`, and that the nodes
of `d` are what the operator of `TodoQueue` makes of the nodes of `c`; where
`insert_normal_node` leaves `check_bond_flag` as it is, the value found in the item is the
`stale` that `TodoQueue` allows. `Distinct` is needed since `find` returns the first node
of an address where the sequence merges into all of them. The lemmas on deleting
(`DeleteIs`) rest on what is known of `Keep` by cardinalities (`KeepIs`). The walk along
the pointers (`Walk`) and the loading of the bond list (`InsertAll`) are recursive
functions. That a recursive function is one, and what it returns, is proved by the least
number for which it would not be (`LeastMember`, from the well-foundedness of the
natural numbers), the one form of induction that needs no operator as a parameter.

**`BtPolicy_proofs`**: `LinksAreCounted`, `TimerMeansVisible`, `PairingEndsInTime`,
`EmptyIsReachable`, and `OffIsSilent` and `OffKeepsNoLink`, from the inductive invariant
`Sound(bp)` (`PolicyIsSound`). There is one lemma for each handler: of a sound record it
makes a sound record. The parts of `Sound` are

* the shape of the record (`Fits`), needed because an `EXCEPT` on a missing field would
  change nothing, and that `num` is the number of links in use (`Counted`), whose core
  are the cardinalities of `AddSound` and `DelSound`;
* what the radio may do in each state (`Silent`), and that the discoverable timer runs
  only on a visible device (`Visible`), with `EnterSound` at the core;
* that pairing and its timer come and go together (`Begun`, `Timed`), whatever enters and
  leaves pairing;
* that PAIRING and STANDBY are never without radio (`Open`) and CONNECTED is left with the
  last link (`Busy`), which together make an empty device connectable;
* that once the links were asked to go, each that is left or comes up was asked
  (`Asked`), through the steps of shutdown (`Going`).

`OffIsSilent` and `OffKeepsNoLink` assume `Quiet`: with multi-link and
always-discoverable both on, `enter_state` forces the radio in every state and they are
false.

The second part of `BtPolicy_proofs` has `PolicyIsTyped`, `QueueIsImplemented`,
`GroupKeepsItsTime`, `NobodyIsLeftCalling` and `ActiveFits`, from the inductive invariant `Steady(bp)`
(`PolicyStaysGood`), again with a lemma for each handler. A record is `Good` if it is
typed, its queue is sound in the sense of `TodoQueue_proofs` (of which the module holds
an instance, so that what is proved there of inserting and removing is used here), the
phone being called could go back to the queue (`ActiveOK`), and shares the time of the
group it was taken from (`Grouped`). Between two events it is also `Calm`: a profile is
chosen for the phone being called, and it is not given up. A handler applies at most one
operation of the queue, with a node that operation takes; that is the refinement
`Spec => Q!Spec`, by which the theorems of `TodoQueue` hold of the policy's queue.
It rests on the types, since the time that goes back with a node must be a number, and on
`Begun` of the first part, as the end of pairing must not come in the middle of
linkback. `NobodyIsLeftCalling` and `ActiveFits` have as their
hypothesis that the user does not force pairing; without it they are false (section 4).

**`BtPolicyCalls_proofs`**: `LinkbackStaysAlive`, `FullHouseIsQuiet`, `OneTooManyGoes`,
`OneTooManyIsMarked` and `NoProfileIsSkipped`, from the inductive invariant `Quick(bp)`
(`PolicyStaysQuick`), which relates what the policy does to what the stack still owes it.
Its parts are

* of the links (`LinksFine`): only a link in use is authenticated (`Known`), a phone is
  master only where roles are switched (`Roles`), with one too many one is marked to go or
  asked to (`Marked`), and with one profile a marked link has its own or its profile's end
  under way (`Leads`);
* of the radio: a full house is closed (`Shut`), and only a headset with one phone has
  asked others in (`Spare`);
* of the call (`CallFine`): the timer of the phone being called runs, unless it was linked
  when its time was up (`Pursued`); with nobody called a stopped search has its end to come
  (`Halted`); a full house is not searching for a phone that is not linked (`Called`).

Handlers are put together from steps that leave these parts alone: `Holds` says what of a
record must be as it was, and `Keeps` that no profile was left out either. What changes the
number of links restores `Marked` at its end, so it is stated for the two together. For
`NothingSkipped` the record after a handler is related to the one before by `Skips`:
what is no longer to be done of the plan has been connected or has failed three times.

The hypotheses are: no forced pairing in all of them; `FullHouseIsQuiet` that there are two
places, or that the switches that keep a headset with one phone visible are off (`Roomy`);
the two on links too many that there is at most one phone more than places, and one
profile or a user who ends none by hand; `NoProfileIsSkipped` that there is one
phone or none switches roles (`OneCaller`). The runs satisfy them, and beyond them the statements are
false (section 4).

**`Transfer_proofs`**: `QueueTypes`, `IndicesAgree`, `PacketsKeepOrder`, `SentInOrder`
and `NothingForgotten`. `Sound` says of a record that it is typed, its indices exact,
its packets ordered by age with none older than the last one sent, and each SPP packet
has its link; every operator keeps it. That nothing is forgotten (`Alive`) does not hold
between operators: `Serve` restores it at the end of a handler, and needs exact indices
for that, since it takes an empty slot at the read index for an empty ring. The theorem
has the configuration as its hypothesis, as without embedded commands an LE packet has
no timer.
Of the UART's ring it has `FirstIsServed`, `NothingBehindAGap`, `WritesKeepOrder` and
`AttemptsAreBounded`, from `UartIsSound`, and `UartIsServed`, the first of them in the
behaviours of `MCTransfer`, where either ring may step. As above the first half of a
handler keeps a weaker `UartSound`, and looking at the queue restores that the first
packet has been written and its end is under way. The hypothesis `UartParameters` says
that the ring has a place and the limit of attempts is a number.

**`AutoPowerOff_proofs`**: `TypeCorrect`, `ReasonsHaveCauses`, `BusyStaysOn`,
`IdleIsTimed`, and `CallKeepsOn` (with one phone and a time for connected phones a call
holds the timer; with two phones the end of one's call lets it run, so no run claims
it). The invariant adds to `HeldForReason` the converse (`Kept`: while the system is on
each cause has its reason), and when the states of the device can be met (`Stage`).

**`HarmanOta_proofs`**: `TypeCorrect`, `AsksForTheMissing` and `NeverUnwatched`, for any
sizes of image, table, buffer and packet. `RequestExact` is about the middle of an
image; the invariant adds how a session gets there (`Place`: table counted from its
start, image from its header) and that the three numbers of a breakpoint agree
(`Noted`), from which a session is resumed. What flash holds is proved in two layers
above this.

* `Tracked` holds whatever writes do: the images before the session's, and before the
  breakpoint's, are done, of the one being written nothing of the old bank is left up to
  the place reached, and from then on the first image is not ready, so that only the
  last check of a session makes the bank bootable. From it `NoImageIsTorn`, with no
  hypothesis: each image of a bank that may be booted is the old one or came whole from
  one package. And with packages of one version `BootsWhatIsWhole`: the bank is whole.
* `Exact` holds where writing works (`Results = {"ok"}`): what is done, written, and in
  the buffer is of the session's version, which is the one on record. From it
  `GoesOnFromWhatIsThere` (`BreakpointSound`), and `BootsWhatIsWhole` for any versions.

The hypotheses are those under which TLC checks the two (`HarmanOta`, `HarmanOtaFails`);
with neither they are false (section 4).

**`ExtCharger_proofs`**: `TypeCorrect`, `ShownTruly` and `FullTruly`, for any thresholds
that satisfy `ThresholdAssumption`, any voltages and any number of conversions and edges
not handled yet. `ShownTruly` needs that the adapter does not bounce; its invariant adds
that the charger is on with the adapter out only while the callback that tells it is still
to come. `FullTruly` needs that the last edge not handled is the pin's level, so that
the message that starts the delay is followed by one that ends it if the pin has fallen.

Not properties of a run, but what the others rest on or go beyond, are: the type
theorems other than `PolicyIsTyped`; the inductive invariants `PolicyIsSound`,
`PolicyStaysGood`, `PolicyStaysQuick` and `UartIsSound`; `ListIsExact` and
`ListIsTodoQueue`, of the list by itself; `GroupKeepsItsTime`,
`OneTooManyIsMarked`, `PacketsKeepOrder`,
`FirstIsServed`, `NothingBehindAGap`, `WritesKeepOrder`, `AttemptsAreBounded`,
`CallKeepsOn` and `NoImageIsTorn`. Each of the other theorems states a property of a
run.

**Model-checked only**

Only the liveness properties are model-checked alone (`LinkbackEnds`,
`ShutdownCompletes`, `PairingEnds`, `BothDrain` and those of automatic power-off, the
update and the charger named in section 4): fairness and ENABLED are beyond this prover.

## 7. Not modelled

* The other bud: shaking, coupling, role swap, relay, the secondary's handlers. They
  need a model of the second device and of the link between the two, which is a
  library; everything here is for `bud_role` SINGLE.
* Multilink arbitration of voice and music, HFP, A2DP and AVRCP: what they do is
  routing in a library. Of them the models use call status, streams that start and
  end, and the link that is given up (any link may be the victim).
* Charger: the protection of the battery while it is not charged
  (`app_harman_discharger_adc_update`), which of the two ways a hot connector is shut
  off (MOSFET), the recognition of the battery's kind at first use and what its detection
  compares, the other boards' chargers (DZ582, two thermistors), the wake-up pins.
* BLE advertising and GATT, console and vendor commands: wrappers of the library, and
  parsing.
* Policy: conditions on tools and modes that only forbid pairing (charging box type, ANC
  measurement, OTA, `disconnect_inactive_link_actively`); link keys and their storage,
  HID, special connects with a given UUID, page-scan parameters, fast pairing and SASS;
  role switch retries (only that a role may come late).
* Transfer: IAP and one-wire UART (not built), the wake-up pin of the UART
  (`enable_tx_wake_up`), `CMD_LEGACY_DATA_TRANSFER`, and Harman's own packets, which do
  not use the rings.
* Automatic power-off: the buds' reasons, Harman's own idle timer in `app_multilink.c`,
  the sleep bitmaps of `app_dlps.c` and the rest of the user interface.
* Update: packages of prompts only, the flag that lets the boot code take a bank of the
  same version, chips without two banks, the bytes of the notifications. Memory is
  always there, a checksum tells a spoiled image from a whole one, blocks begin at
  sectors that are erased before they are written, and one session is of one file.
* Times in milliseconds, and the clock's wrap in `gtiming`.
* The reset of the chip at power-off: power-on starts with no link in the stack.

## 8. Where to go on

1. `BtPolicy`: a run of its own for forced pairing, and what of the theorems on the calls
   holds with it.
2. `ExtCharger`: the protection of the battery while it is not charged, which shares the
   conversions and the timer.
3. `AutoPowerOff` composed with `BtPolicy` instead of with any order of its events.
4. `Multilink`: voice and music arbitration for two phones, composed with the links of
   `BtPolicy`, which also replaces the free choice of the victim.
5. `BudCoupling`: the engagement of two buds and the transfer of the link list at a role
   swap, with lost relay messages.

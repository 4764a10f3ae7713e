------------------------------- MODULE Transfer -------------------------------
(***************************************************************************)
(* dt_queue of app_transfer.c: the ring of event packets on their way to a *)
(* phone, over SPP or over the LE transmit service, as the Harman build    *)
(* has it.  Both kinds of link share one ring, one status, one timer and   *)
(* one resend counter.                                                     *)
(*                                                                         *)
(* A handler is one action.  app_pop_data_transfer_queue calls itself as   *)
(* the last thing it does; the call is the action PopAgain, and nothing    *)
(* else happens while dt.again is TRUE.                                    *)
(*                                                                         *)
(* The stack is external: it may refuse any packet, owes a completion for  *)
(* each LE packet it took, and the phone may answer an event it was sent,  *)
(* late, twice or never.                                                   *)
(***************************************************************************)
EXTENDS Integers, FiniteSets

CONSTANTS
    SppLinks,       \* br_link entries that may have SPP
    LeLinks,        \* le_link entries
    Events,         \* event ids the phone acknowledges
    EventAck,       \* EVENT_ACK, which it does not
    QueueNo,        \* DT_QUEUE_NO
    Resend,         \* dt_resend_num
    Config,         \* "enable_embedded_cmd", "enable_dsp_capture_data_by_spp"
    None,
    MaxPackets      \* bound on the packets reported

ASSUME TransferAssumption ==
    /\ QueueNo \in Nat \ {0}
    /\ Resend \in Nat
    /\ MaxPackets \in Nat
    /\ SppLinks \cap LeLinks = {}
    /\ EventAck \notin Events
    /\ None \notin SppLinks \cup LeLinks

VARIABLES
    dt,     \* dt_queue and dt_queue_ctrl with their timer and links
    count   \* packets reported so far

vars == <<dt, count>>

Links   == SppLinks \cup LeLinks
Slots   == 0 .. QueueNo - 1
Packet  == [id : 1 .. MaxPackets, link : Links, event : Events \cup {EventAck}]
Empty   == [id |-> 0, link |-> None, event |-> None]
On(c)   == c \in Config

Active(q) == {i \in Slots : q.ring[i] # Empty}
Head(q)   == q.ring[q.r]
Succ(i)   == IF i = QueueNo - 1 THEN 0 ELSE i + 1

-----------------------------------------------------------------------------
(* app_pop_data_transfer_queue, in pieces.                                 *)

Timer(q, chann) == [q EXCEPT !.timer = chann]
Again(q)        == [q EXCEPT !.again = TRUE]

\* Mutant: the packet is freed but the index stays.
AdvanceStays(q) == [q EXCEPT !.ring[q.r] = Empty]

\* Frees the packet at the read index and moves the index on.
Advance(q) == [q EXCEPT !.ring[q.r] = Empty, !.r = Succ(q.r)]

\* What next_flag does before the packet at the read index is looked at.
Discard(q) ==
    [(IF Head(q) # Empty THEN Advance(q) ELSE q)
     EXCEPT !.timer = "off", !.resend = 0, !.status = "idle"]

\* The packet at the read index is handed to the stack.
Sent(q) ==
    LET p == Head(q)
    IN  [q EXCEPT !.last = p.id,
                  !.heard = @ \cup ({p.event} \ {EventAck}) \X ({p.link} \cap SppLinks),
                  !.owed = IF p.link \in LeLinks THEN @ + 1 ELSE @]

\* A link that cannot take the packet costs it its place; the queue is looked
\* at again at once.
Skip(q) == Timer([Advance(q) EXCEPT !.resend = 0], "retry")

\* Mutant: no timer guards the acknowledgement.
SppSentUntimed(q) ==
    IF Head(q).event = EventAck THEN Timer(Advance(Sent(q)), "retry")
                                ELSE [Sent(q) EXCEPT !.status = "active"]

\* bt_spp_data_send took the packet.
SppSent(q) ==
    LET ack     == Head(q).event = EventAck
        capture == On("enable_dsp_capture_data_by_spp")
        gone    == IF ack THEN Advance(Sent(q)) ELSE Sent(q)
    IN  IF ~On("enable_embedded_cmd") THEN Sent(q)
        ELSE IF capture THEN Again(gone)
        ELSE IF ack THEN Timer(gone, "retry")
        ELSE Timer([gone EXCEPT !.status = "active"], "ack")

\* transmit_srv_tx_data took the packet; an embedded command waits for
\* nothing more.
LeSent(q) ==
    LET s == [Sent(q) EXCEPT !.status = "active"]
    IN  IF On("enable_embedded_cmd") THEN Again(s) ELSE s

\* Mutant: a packet the stack refused is given up.
RefusedGone(q) == Advance(q)

\* The stack did not take it.
Refused(q) ==
    IF Head(q).link \in SppLinks /\ On("enable_dsp_capture_data_by_spp")
    THEN Again(q) ELSE Timer(q, "retry")

\* What is done with the packet at the read index; ok is the stack's answer.
ServeSpp(q, ok) ==
    IF Head(q).link \notin q.spp THEN q
    ELSE IF Head(q).link \notin q.credit THEN Skip(q)
    ELSE IF ok THEN SppSent(q) ELSE Refused(q)

ServeLe(q, ok) ==
    IF q.le[Head(q).link] \in {"closed", "closing"} THEN Skip(q)
    ELSE IF q.le[Head(q).link] = "open" THEN Timer(q, "retry")
    ELSE IF ok THEN LeSent(q) ELSE Refused(q)

Serve(q, ok) ==
    IF q.status # "idle" \/ Head(q) = Empty THEN q
    ELSE IF Head(q).link \in SppLinks THEN ServeSpp(q, ok) ELSE ServeLe(q, ok)

\* Mutant: the write index is forgotten.
ResetKeepsIndex(q) ==
    [q EXCEPT !.ring = [i \in Slots |-> Empty], !.r = 0, !.resend = 0,
              !.status = "idle", !.timer = "off"]

\* app_transfer_queue_reset.
Reset(q) ==
    [q EXCEPT !.ring = [i \in Slots |-> Empty], !.r = 0, !.w = 0, !.resend = 0,
              !.status = "idle", !.timer = "off"]

-----------------------------------------------------------------------------

Init ==
    /\ dt = [ring |-> [i \in Slots |-> Empty], r |-> 0, w |-> 0,
             resend |-> 0, status |-> "idle", timer |-> "off", again |-> FALSE,
             spp |-> {}, credit |-> {}, credited |-> None,
             le |-> [l \in LeLinks |-> "closed"],
             last |-> 0, heard |-> {}, owed |-> 0]
    /\ count = 0

\* A handler runs when no other does.
Handle(q) == ~dt.again /\ dt' = q

\* app_report_spp_iap_event or app_report_le_event, and
\* app_push_data_transfer_queue; a full ring refuses the packet.
Report(l, event, ok) ==
    /\ count < MaxPackets
    /\ l \in dt.spp \/ (l \in LeLinks /\ dt.le[l] \in {"open", "ready"})
    /\ dt.ring[dt.w] = Empty
    /\ count' = count + 1
    /\ Handle(Serve([dt EXCEPT !.ring[dt.w] = [id |-> count + 1, link |-> l, event |-> event],
                               !.w = Succ(dt.w)], ok))

\* The nested call of app_pop_data_transfer_queue.  When the credit handler
\* made the outer one, it notes the credit now.
PopAgain(ok) ==
    LET q == Serve(Discard([dt EXCEPT !.again = FALSE]), ok)
    IN  /\ dt.again
        /\ dt' = IF q.again THEN q
                 ELSE [q EXCEPT !.credit = @ \cup ({q.credited} \ {None}), !.credited = None]
        /\ UNCHANGED count

\* CMD_ACK of a phone with SPP, when commands are embedded:
\* app_transfer_queue_recv_ack_check compares with the packet at the read
\* index.  An empty slot has no event id; what is read there decides
\* nothing, since no packet is there.
Acknowledge(l, event, ok) ==
    /\ On("enable_embedded_cmd") /\ ~On("enable_dsp_capture_data_by_spp")
    /\ <<event, l>> \in dt.heard
    /\ \E match \in IF Head(dt) = Empty THEN BOOLEAN ELSE {Head(dt).event = event} :
           Handle(Serve(IF match THEN Discard(dt) ELSE dt, ok))
    /\ UNCHANGED count

\* PROFILE_EVT_SEND_DATA_COMPLETE of the transmit service.
SendDataComplete(ok) ==
    /\ dt.owed > 0
    /\ Handle(Serve(Discard([dt EXCEPT !.owed = @ - 1]), ok))
    /\ UNCHANGED count

\* app_transfer_timeout_cb, APP_TRANSFER_TIMER_CHECK_DATA_TRANSFER.
Timeout(ok) ==
    LET q     == [dt EXCEPT !.timer = "off", !.status = "idle"]
        spent == [q EXCEPT !.resend = @ + 1]
    IN  /\ dt.timer # "off"
        /\ Handle(Serve(IF dt.timer = "retry" THEN q
                        ELSE IF spent.resend >= Resend THEN Discard(spent) ELSE spent, ok))
        /\ UNCHANGED count

\* BT_EVENT_SPP_CONN_CMPL: app_bt_policy notes the profile before app_spp
\* notes the credit.
SppConnected(l, credit, ok) ==
    LET q == [dt EXCEPT !.spp = @ \cup {l},
                        !.credit = IF credit THEN @ \cup {l} ELSE @ \ {l}]
    IN  /\ l \notin dt.spp
        /\ Handle(IF credit THEN Serve(q, ok) ELSE q)
        /\ UNCHANGED count

\* BT_EVENT_SPP_CREDIT_RCVD: the queue is looked at before the credit is noted.
SppCredit(l, ok) ==
    LET q == Serve(dt, ok)
    IN  /\ l \in dt.spp \ dt.credit
        /\ Handle(IF q.again THEN [q EXCEPT !.credited = l]
                             ELSE [q EXCEPT !.credit = @ \cup {l}])
        /\ UNCHANGED count

\* BT_EVENT_SPP_DISCONN_CMPL resets the queue for all links.
SppDisconnected(l) ==
    /\ l \in dt.spp
    /\ Handle(Reset([dt EXCEPT !.spp = @ \ {l}, !.credit = @ \ {l},
                               !.heard = @ \ (Events \X {l})]))
    /\ UNCHANGED count

LeConnected(l) ==
    /\ dt.le[l] = "closed"
    /\ Handle([dt EXCEPT !.le[l] = "open"])
    /\ UNCHANGED count

\* Notifications and encryption come and go: transmit_srv_tx_enable_fg.
LeEnabled(l) ==
    /\ dt.le[l] \in {"open", "ready"}
    /\ Handle([dt EXCEPT !.le[l] = IF @ = "open" THEN "ready" ELSE "open"])
    /\ UNCHANGED count

LeClosing(l) ==
    /\ dt.le[l] \in {"open", "ready"}
    /\ Handle([dt EXCEPT !.le[l] = "closing"])
    /\ UNCHANGED count

\* app_ble_gap resets the queue for all links; the stack drops completions.
LeDisconnected(l) ==
    /\ dt.le[l] # "closed"
    /\ \E left \in 0 .. dt.owed :
           Handle(Reset([dt EXCEPT !.le[l] = "closed", !.owed = left]))
    /\ UNCHANGED count

Next ==
    \/ \E ok \in BOOLEAN :
        \/ \E l \in Links, e \in Events \cup {EventAck} : Report(l, e, ok)
        \/ \E l \in SppLinks, e \in Events : Acknowledge(l, e, ok)
        \/ PopAgain(ok) \/ SendDataComplete(ok) \/ Timeout(ok)
        \/ \E l \in SppLinks, c \in BOOLEAN : SppConnected(l, c, ok)
        \/ \E l \in SppLinks : SppCredit(l, ok)
    \/ \E l \in SppLinks : SppDisconnected(l)
    \/ \E l \in LeLinks : LeConnected(l) \/ LeEnabled(l) \/ LeClosing(l) \/ LeDisconnected(l)

Spec == Init /\ [][Next]_vars

\* The task runs, timers fire, and a stack that is asked over and over takes
\* the packet at last.
Fairness == \A ok \in BOOLEAN : SF_vars(PopAgain(ok)) /\ SF_vars(Timeout(ok))

FairSpec == Spec /\ Fairness

-----------------------------------------------------------------------------

Queued(q) == {q.ring[i] : i \in Active(q)}

TypeOK ==
    /\ dt.ring \in [Slots -> Packet \cup {Empty}]
    /\ dt.r \in Slots /\ dt.w \in Slots
    /\ dt.resend \in 0 .. Resend
    /\ dt.status \in {"idle", "active"}
    /\ dt.timer \in {"off", "retry", "ack"}
    /\ dt.again \in BOOLEAN
    /\ dt.spp \subseteq SppLinks /\ dt.credit \subseteq dt.spp
    /\ dt.credited \in SppLinks \cup {None}
    /\ dt.le \in [LeLinks -> {"closed", "open", "ready", "closing"}]
    /\ dt.last \in 0 .. count
    /\ dt.heard \subseteq Events \X SppLinks
    /\ dt.owed \in Nat
    /\ count \in 0 .. MaxPackets

\* The two indices are moved by hand in eight places: the slots in use are
\* always those from the read index on, up to the write index.
RingExact ==
    LET between == IF dt.r < dt.w THEN dt.r .. dt.w - 1
                   ELSE (dt.r .. QueueNo - 1) \cup (0 .. dt.w - 1)
    IN  Active(dt) = between \/ (dt.r = dt.w /\ Active(dt) = {})

\* Going round from the read index, packets stand in the order they were
\* reported in, and all are at least as new as the last one sent: what is sent
\* again is the packet sent last.
Before(q, i, j) ==
    \/ i < j /\ (q.r <= i \/ j < q.r)
    \/ q.r <= i /\ j < q.r

OrderKept ==
    /\ \A i, j \in Active(dt) : Before(dt, i, j) => dt.ring[i].id < dt.ring[j].id
    /\ \A i \in Active(dt) : dt.last <= dt.ring[i].id

\* Nothing goes back in the order of reports.
InOrder == [][dt'.last >= dt.last]_vars

\* A waiting packet is never forgotten: the timer runs, or the stack owes a
\* completion for it.
NoStall ==
    Active(dt) # {} /\ ~dt.again =>
        dt.timer # "off" \/ (dt.status = "active" /\ dt.owed > 0)

\* Every packet leaves the queue, unless an LE link that has not enabled
\* notifications stands first.
Blocked == dt.status = "idle" /\ Head(dt).link \in LeLinks /\ dt.le[Head(dt).link] = "open"

Drains ==
    \A n \in 1 .. MaxPackets :
        (\E p \in Queued(dt) : p.id = n) ~> ((\A p \in Queued(dt) : p.id # n) \/ Blocked)

=============================================================================

----------------------------- MODULE TransferUart -----------------------------
(***************************************************************************)
(* uart_tx_queue of app_transfer.c: events for an external controller.     *)
(* The packet at the read index is written, and written again whenever the *)
(* queue is looked at, until the controller answers or the attempts are    *)
(* used up.  As in Transfer, the last call of a handler, to                *)
(* app_pop_data_transfer_queue itself, is an action.                       *)
(*                                                                         *)
(* enable_tx_wake_up is left out: with it the packet is never written, see *)
(* the README.                                                             *)
(***************************************************************************)
EXTENDS Integers

CONSTANTS
    QueueNo,        \* UART_TX_QUEUE_NO
    Resend,         \* dt_resend_num
    OnlyOnce,       \* report_uart_event_only_once
    MaxPackets      \* bound on the packets reported

VARIABLES
    uart,       \* uart_tx_queue with its indices, counter and timer
    count       \* packets reported so far

vars == <<uart, count>>

Slots   == 0 .. QueueNo - 1
Empty   == [id |-> 0, ack |-> FALSE]
Succ(i) == IF i = QueueNo - 1 THEN 0 ELSE i + 1
Head(q) == q.ring[q.r]

\* An event other than EVENT_ACK is answered by the controller.
Awaits(p) == ~p.ack /\ ~OnlyOnce

\* console_write of the packet at the read index.
Write(q) ==
    IF Head(q) = Empty THEN q
    ELSE [q EXCEPT !.last = Head(q).id, !.again = ~Awaits(Head(q)),
                   !.timer = Awaits(Head(q))]

\* app_pop_data_transfer_queue without next_flag, and with it.
Look(q) == Write([q EXCEPT !.timer = FALSE])

\* Mutant: what comes up is left for the next report to write.
MoveOnly(q) ==
    IF Head(q) = Empty THEN [q EXCEPT !.timer = FALSE]
    ELSE [q EXCEPT !.ring[q.r] = Empty, !.r = Succ(q.r), !.resend = 0,
                   !.timer = (q.ring[Succ(q.r)] # Empty)]

Move(q) ==
    Look(IF Head(q) = Empty THEN q
         ELSE [q EXCEPT !.ring[q.r] = Empty, !.r = Succ(q.r), !.resend = 0])

Init ==
    /\ uart = [ring |-> [i \in Slots |-> Empty], r |-> 0, w |-> 0, resend |-> 0,
               timer |-> FALSE, again |-> FALSE, last |-> 0]
    /\ count = 0

Handle(q) == ~uart.again /\ uart' = q

\* app_report_uart_event: a full ring refuses the packet.
Report(ack) ==
    /\ count < MaxPackets
    /\ uart.ring[uart.w] = Empty
    /\ count' = count + 1
    /\ Handle(Look([uart EXCEPT !.ring[uart.w] = [id |-> count + 1, ack |-> ack],
                                !.w = Succ(uart.w)]))

PopAgain ==
    /\ uart.again
    /\ uart' = Move([uart EXCEPT !.again = FALSE])
    /\ UNCHANGED count

\* CMD_ACK of the controller, for whatever event and however late.
Acknowledge == uart.last > 0 /\ Handle(Move(uart)) /\ UNCHANGED count

\* APP_TRANSFER_TIMER_UART_ACK_TO.
Timeout ==
    LET q == [uart EXCEPT !.timer = FALSE, !.resend = @ + 1]
    IN  /\ uart.timer
        /\ Handle(IF q.resend > Resend THEN Move(q) ELSE Look(q))
        /\ UNCHANGED count

Next == PopAgain \/ Acknowledge \/ Timeout \/ \E ack \in BOOLEAN : Report(ack)

Spec == Init /\ [][Next]_vars

\* The task runs, and a timer that was started ends.
Fairness == WF_vars(PopAgain) /\ WF_vars(Timeout)

FairSpec == Spec /\ Fairness

-----------------------------------------------------------------------------

\* Whatever answers are late, doubled or lost, the packet that stands first
\* has been written and its end is under way: a timer runs, or the queue is
\* about to move on.
FirstIsWritten ==
    Head(uart) # Empty =>
        uart.last = Head(uart).id /\ (uart.timer \/ uart.again)

\* Every packet leaves the queue, with a controller that never answers too.
Drains ==
    \A n \in 1 .. MaxPackets :
        (\E i \in Slots : uart.ring[i].id = n) ~> (\A i \in Slots : uart.ring[i].id # n)

=============================================================================

----------------------------- MODULE MCTransfer -----------------------------
(* Transfer and TransferUart on small rings, for TLC.  The two rings share *)
(* nothing, so a behaviour uses the one or the other.                      *)
EXTENDS Transfer

CONSTANTS
    UartQueueNo,        \* UART_TX_QUEUE_NO
    OnlyOnce,           \* report_uart_event_only_once
    UartMaxPackets      \* bound on the packets reported on the UART

VARIABLES uart, sent

Uart == INSTANCE TransferUart
            WITH count <- sent, QueueNo <- UartQueueNo, MaxPackets <- UartMaxPackets

RingsInit == Init /\ Uart!Init

RingsNext == \/ Uart!Init /\ Next /\ UNCHANGED <<uart, sent>>
             \/ Init /\ Uart!Next /\ UNCHANGED vars

RingsSpec ==
    /\ RingsInit /\ [][RingsNext]_<<vars, uart, sent>>
    /\ Fairness /\ Uart!Fairness

\* On the UART the first packet was written and is timed (TransferUart).
FirstIsWritten == Uart!FirstIsWritten

\* Every packet leaves its ring: to a phone, unless an LE link without
\* notifications stands first, and to the controller, though it never answers
\* (Drains of the two modules).
BothDrain == Drains /\ Uart!Drains
=============================================================================

------------------------------- MODULE MuxBus -------------------------------
(***************************************************************************)
(* The four-channel UART multiplexer (mux_bsp.c) as operators on the bus   *)
(* record: which channel is wired through, which of the two directions is  *)
(* running, and the state the driver believes in.  chan is the cache of    *)
(* mult_uart_get_channel, wire is what the select pins really say.         *)
(***************************************************************************)
EXTENDS Integers

CONSTANTS
    Device,       \* the devices in use; device d sits on channel d
    AbortFaults   \* whether HAL_UART_Abort may fail

ASSUME DeviceAssumption == Device \subseteq 0..3
ASSUME AbortAssumption == AbortFaults \in BOOLEAN

NoChannel == 255     \* MULT_UART_CHANNEL_INVALID

\* UNINIT is gone once mux_init has run, and ABORTING lasts only inside
\* mult_uart_abort, where every interrupt is ignored.
BusType ==
    [state : {"IDLE", "ACTIVE", "ERROR"}, tx : BOOLEAN, rx : BOOLEAN,
     chan : Device \cup {NoChannel}, wire : 0..3, enabled : BOOLEAN]

BusInit ==
    [state |-> "IDLE", tx |-> FALSE, rx |-> FALSE,
     chan |-> NoChannel, wire |-> 0, enabled |-> FALSE]

\* mult_uart_require_idle
Quiet(b) == b.state = "IDLE" /\ ~b.tx /\ ~b.rx

\* mult_uart_sync_active_state: an error stays until it is aborted.
synced(b) ==
    IF b.state = "ERROR" THEN b
    ELSE [b EXCEPT !.state = IF b.tx \/ b.rx THEN "ACTIVE" ELSE "IDLE"]

\* Mutant: only a channel that is not known is switched.
select_unless_known(b, d) ==
    IF b.chan = NoChannel THEN [b EXCEPT !.chan = d, !.wire = d] ELSE b

\* mult_uart_select: the pins are written only if the cache says another
\* channel (the break before make around it is not visible in between).
mult_uart_select(b, d) ==
    IF b.chan # d THEN [b EXCEPT !.chan = d, !.wire = d] ELSE b

\* mux_select on a quiet bus: select, then enable.
mux_select(b, d) == [mult_uart_select(b, d) EXCEPT !.enabled = TRUE]

\* What both start functions check before they touch the UART.
MayStart(b, running) ==
    b.state # "ERROR" /\ ~running /\ b.enabled /\ b.chan # NoChannel

\* A direction is marked before the HAL is asked, and unmarked on a refusal.
start_rx_dma(b, ok) == synced([b EXCEPT !.rx = ok])
start_tx_dma(b, ok) == synced([b EXCEPT !.tx = ok])

\* mult_uart_abort: nothing to do on a quiet bus; otherwise both directions
\* end and the channel is forgotten.  A refusal of the HAL leaves an error.
mult_uart_abort(b) ==
    IF Quiet(b) THEN {b}
    ELSE {[b EXCEPT !.state = s, !.tx = FALSE, !.rx = FALSE,
                    !.chan = NoChannel] :
              s \in {"IDLE"} \cup (IF AbortFaults THEN {"ERROR"} ELSE {})}

\* The interrupts.  Each is ignored when its direction is not running.
tx_complete_isr(b) == synced([b EXCEPT !.tx = FALSE])
rx_complete_isr(b) == synced([b EXCEPT !.rx = FALSE])
rx_overflow_isr(b) ==
    [b EXCEPT !.rx = FALSE, !.state = "ERROR", !.chan = NoChannel]
error_isr(b) ==
    [b EXCEPT !.tx = FALSE, !.rx = FALSE, !.state = "ERROR",
              !.chan = NoChannel]
=============================================================================

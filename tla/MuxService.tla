----------------------------- MODULE MuxService -----------------------------
(***************************************************************************)
(* The UART multiplexer service (mux_service.c): the Mission task submits  *)
(* transfers for the camera board, the card reader and the turntable, the  *)
(* worker runs them one at a time and answers each by its callback, and    *)
(* interrupts report what the UART did.  The worker has the higher         *)
(* priority: Mission only runs while the worker waits for its flags.       *)
(***************************************************************************)
EXTENDS MuxBus, Sequences

CONSTANTS
    Depth,      \* MUX_QUEUE_DEPTH
    IdMax,      \* the largest request id; the code has 2^32 - 1
    Overlap     \* whether Mission submits for one device while another waits

ASSUME DepthAssumption == Depth \in Nat \ {0}
ASSUME IdMaxAssumption == IdMax \in Nat \ {0}
ASSUME OverlapAssumption == Overlap \in BOOLEAN

VARIABLES
    bus,      \* ctx->bus with the pins
    ev,       \* ctx->events, written by the interrupts
    queue,    \* ctx->queue
    active,   \* ctx->active and ctx->active_job
    expired,  \* the deadline of the active job has passed
    busy,     \* ctx->busy_mask as a set of devices
    nextId,   \* ctx->next_request_id
    waiting,  \* devices whose client holds its own in-flight flag
    w,        \* where the worker is
    s, job, mask   \* where mux_submit is, its job and the mask it has read

workVars == <<bus, ev, active, expired, w>>
subVars == <<nextId, s, job, mask>>
vars == <<workVars, queue, busy, waiting, subVars>>

Ops == {"SELECT", "WRITE", "READ", "WRITE_READ"}
needs_tx(op) == op \in {"WRITE", "WRITE_READ"}
needs_rx(op) == op \in {"READ", "WRITE_READ"}

Jobs == [dev : Device, op : Ops, id : 0..IdMax]
NoJob == [dev |-> NoChannel, op |-> "SELECT", id |-> 0]
NoEvents == [tx |-> FALSE, rx |-> FALSE, err |-> FALSE]

\* Accepted transfers in the order of their acceptance.
Open == IF active = NoJob THEN queue ELSE <<active>> \o queue
InFlight == {Open[i].dev : i \in 1..Len(Open)}

Init ==
    /\ bus = BusInit /\ ev = NoEvents
    /\ queue = <<>> /\ active = NoJob /\ expired = FALSE
    /\ busy = {} /\ nextId = 0 /\ waiting = {}
    /\ w = "wait" /\ s = "idle" /\ job = NoJob /\ mask = {}

-----------------------------------------------------------------------------
(* mux_submit, run by Mission while the worker waits.                      *)

\* Mutant: neither the client nor the service looks for a running transfer.
SubmitUnchecked(d, op) ==
    /\ w = "wait" /\ s = "idle"
    /\ waiting' = waiting \cup {d}
    /\ job' = [dev |-> d, op |-> op, id |-> 0]
    /\ mask' = busy /\ s' = "mark"
    /\ UNCHANGED <<workVars, queue, busy, nextId>>

\* The client marks itself, the busy test passes and the mask is read.  A
\* client that is marked, or a device that is busy, is refused: no change.
Submit(d, op) ==
    /\ w = "wait" /\ s = "idle" /\ d \notin waiting
    /\ Overlap \/ waiting = {}
    /\ d \notin busy
    /\ waiting' = waiting \cup {d}
    /\ job' = [dev |-> d, op |-> op, id |-> 0]
    /\ mask' = busy /\ s' = "mark"
    /\ UNCHANGED <<workVars, queue, busy, nextId>>

next_id == IF nextId = IdMax THEN 1 ELSE nextId + 1

\* The mask is written back with the device's bit; the job gets its id.
Mark ==
    /\ w = "wait" /\ s = "mark"
    /\ busy' = mask \cup {job.dev}
    /\ nextId' = next_id
    /\ job' = [job EXCEPT !.id = next_id]
    /\ s' = "put"
    /\ UNCHANGED <<workVars, queue, waiting, mask>>

\* No caller waits for room in the queue.
Put ==
    /\ w = "wait" /\ s = "put"
    /\ Len(queue) < Depth
    /\ queue' = Append(queue, job)
    /\ s' = "idle" /\ job' = NoJob /\ mask' = {}
    /\ UNCHANGED <<workVars, busy, waiting, nextId>>

PutRefused ==
    /\ w = "wait" /\ s = "put"
    /\ Len(queue) >= Depth
    /\ s' = "full"
    /\ UNCHANGED <<workVars, queue, busy, waiting, nextId, job, mask>>

\* A refused put takes the bit back, again in two steps, and the client
\* gives up its own mark when mux_submit has returned.
ReadMask ==
    /\ w = "wait" /\ s = "full"
    /\ mask' = busy /\ s' = "unmark"
    /\ UNCHANGED <<workVars, queue, busy, waiting, nextId, job>>

\* Mutant: the client keeps its mark when the submission failed.
UnmarkKeepsClient ==
    /\ w = "wait" /\ s = "unmark"
    /\ busy' = mask \ {job.dev}
    /\ s' = "idle" /\ job' = NoJob /\ mask' = {}
    /\ UNCHANGED <<workVars, queue, waiting, nextId>>

Unmark ==
    /\ w = "wait" /\ s = "unmark"
    /\ busy' = mask \ {job.dev}
    /\ waiting' = waiting \ {job.dev}
    /\ s' = "idle" /\ job' = NoJob /\ mask' = {}
    /\ UNCHANGED <<workVars, queue, nextId>>

-----------------------------------------------------------------------------
(* mux_process, run by the worker at every flag and every tick.            *)

\* mux_finish with the client's callback, which drops the client's mark.
mux_finish(d) ==
    /\ busy' = busy \ {d}
    /\ active' = NoJob /\ ev' = NoEvents /\ expired' = FALSE
    /\ waiting' = waiting \ {d}

Complete ==
    /\ needs_tx(active.op) => ev.tx
    /\ needs_rx(active.op) => ev.rx

Awake == w = "wait" /\ active # NoJob /\ w' = "loop"

\* Mutant: the deadline is not looked at.
FailedOnError ==
    /\ Awake /\ ev.err
    /\ bus' \in mult_uart_abort(bus)
    /\ mux_finish(active.dev)
    /\ UNCHANGED <<queue, subVars>>

\* An error, or the deadline, aborts the bus.  The deadline is looked at
\* before completion: a complete answer that is late counts as a timeout.
Failed ==
    /\ Awake /\ (ev.err \/ expired)
    /\ bus' \in mult_uart_abort(bus)
    /\ mux_finish(active.dev)
    /\ UNCHANGED <<queue, subVars>>

Completed ==
    /\ Awake /\ ~ev.err /\ ~expired /\ Complete
    /\ mux_finish(active.dev)
    /\ UNCHANGED <<bus, queue, subVars>>

\* Nothing to finish: the loop below is entered if no job is active.
NothingToFinish ==
    /\ w = "wait" /\ active = NoJob /\ queue # <<>>
    /\ w' = "loop"
    /\ UNCHANGED <<bus, ev, active, expired, queue, busy, waiting, subVars>>

Drained ==
    /\ w = "loop" /\ active = NoJob /\ queue = <<>>
    /\ w' = "wait"
    /\ UNCHANGED <<bus, ev, active, expired, queue, busy, waiting, subVars>>

\* The next job leaves the queue.  SELECT is answered at once, and so is a
\* job whose bus is not quiet or whose reception cannot be started.
Take ==
    /\ w = "loop" /\ active = NoJob /\ queue # <<>>
    /\ queue' = Tail(queue)
    /\ UNCHANGED subVars
    /\ LET j == Head(queue)
           b == mux_select(bus, j.dev)
       IN  \/ /\ ~Quiet(bus)
              /\ mux_finish(j.dev) /\ UNCHANGED <<bus, w>>
           \/ /\ Quiet(bus) /\ j.op = "SELECT"
              /\ bus' = b /\ mux_finish(j.dev) /\ UNCHANGED w
           \/ /\ Quiet(bus) /\ j.op = "WRITE"
              /\ bus' = b /\ w' = "tx"
              /\ active' = j /\ ev' = NoEvents /\ expired' = FALSE
              /\ UNCHANGED <<busy, waiting>>
           \/ /\ Quiet(bus) /\ needs_rx(j.op)
              /\ bus' = start_rx_dma(b, TRUE)
              /\ w' = IF needs_tx(j.op) THEN "tx" ELSE "wait"
              /\ active' = j /\ ev' = NoEvents /\ expired' = FALSE
              /\ UNCHANGED <<busy, waiting>>
           \/ /\ Quiet(bus) /\ needs_rx(j.op)
              /\ bus' = start_rx_dma(b, FALSE)
              /\ mux_finish(j.dev) /\ UNCHANGED w

\* A transmission that does not start ends the job, and the reception that
\* was already running is aborted.
GiveUp(b) ==
    /\ w' = "loop"
    /\ IF needs_rx(active.op) THEN bus' \in mult_uart_abort(b) ELSE bus' = b
    /\ mux_finish(active.dev)
    /\ UNCHANGED <<queue, subVars>>

CheckTx ==
    /\ w = "tx"
    /\ IF MayStart(bus, bus.tx)
       THEN /\ w' = "txgo"
            /\ UNCHANGED <<bus, ev, active, expired, queue, busy, waiting,
                           subVars>>
       ELSE GiveUp(bus)

\* The direction is marked and the HAL asked.  An error interrupt that came
\* since the check may have its ERROR overwritten by the state computed
\* before it (mult_uart_sync_active_state is not protected).
StartTx ==
    /\ w = "txgo"
    /\ \/ \E st \in {bus.state, "ACTIVE"} :
             /\ bus' = start_tx_dma([bus EXCEPT !.state = st], TRUE)
             /\ w' = "wait"
             /\ UNCHANGED <<ev, active, expired, queue, busy, waiting, subVars>>
       \/ \E st \in {bus.state, "ACTIVE"} :
             GiveUp(start_tx_dma([bus EXCEPT !.state = st], FALSE))

-----------------------------------------------------------------------------
(* Interrupts and time.                                                    *)

Isr(b, e) ==
    /\ bus' = b /\ ev' = e
    /\ UNCHANGED <<active, expired, w, queue, busy, waiting, subVars>>

TxComplete == bus.tx /\ Isr(tx_complete_isr(bus), [ev EXCEPT !.tx = TRUE])
RxComplete == bus.rx /\ Isr(rx_complete_isr(bus), [ev EXCEPT !.rx = TRUE])
RxOverflow == bus.rx /\ Isr(rx_overflow_isr(bus), [ev EXCEPT !.err = TRUE])
UartError ==
    (bus.tx \/ bus.rx) /\ Isr(error_isr(bus), [ev EXCEPT !.err = TRUE])

Expire ==
    /\ active # NoJob /\ ~expired
    /\ expired' = TRUE
    /\ UNCHANGED <<bus, ev, active, w, queue, busy, waiting, subVars>>

-----------------------------------------------------------------------------
Worker ==
    Failed \/ Completed \/ NothingToFinish \/ Drained \/ Take
        \/ CheckTx \/ StartTx
Mission ==
    \/ \E d \in Device, op \in Ops : Submit(d, op)
    \/ Mark \/ Put \/ PutRefused \/ ReadMask \/ Unmark
Interrupt == TxComplete \/ RxComplete \/ RxOverflow \/ UartError

Next == Worker \/ Mission \/ Interrupt \/ Expire

Spec == Init /\ [][Next]_vars

\* The worker is woken every tick and has the priority, and time passes.
\* Mission finishes a submission it has begun; nothing obliges a device.
FairSpec ==
    /\ Spec /\ WF_vars(Worker) /\ WF_vars(Expire)
    /\ WF_vars(Mark \/ Put \/ PutRefused \/ ReadMask \/ Unmark)

-----------------------------------------------------------------------------
TypeOK ==
    /\ bus \in BusType
    /\ ev \in [tx : BOOLEAN, rx : BOOLEAN, err : BOOLEAN]
    /\ queue \in Seq(Jobs) /\ Len(queue) <= Depth
    /\ active \in Jobs \cup {NoJob} /\ expired \in BOOLEAN
    /\ busy \subseteq Device /\ mask \subseteq Device
    /\ waiting \subseteq Device
    /\ nextId \in 0..IdMax
    /\ w \in {"wait", "loop", "tx", "txgo"}
    /\ s \in {"idle", "mark", "put", "full", "unmark"}
    /\ job \in Jobs \cup {NoJob}
    /\ s # "idle" => job # NoJob

\* A running direction belongs to the job in hand and goes to its device:
\* neither the cached channel nor an interrupt that is late for an earlier
\* transfer can hand one device's bytes to another.
WiredToItsDevice ==
    bus.tx \/ bus.rx =>
        active # NoJob /\ bus.enabled /\ bus.wire = active.dev

\* Every client that has marked itself in flight has a transfer that will be
\* answered; no callback and no failed submission leaves one marked.
NoneStranded == s = "idle" => waiting = InFlight

\* A device whose transfer is not answered is refused: the busy mask never
\* loses a bit, although Mission and the worker both rewrite it.
BusyCoversOpen == InFlight \subseteq busy

\* The header says that submit returns BUSY "until the previous transfer is
\* done" (mux_service.h:68): a free device is not refused.
BusyOnlyWhileOpen == s = "idle" => busy = InFlight

\* What makes the properties of the mask and of the clients inductive:
\* Mission's copy of the mask never misses an open device, and the job being
\* submitted is not one of them.
OneOpenEach == \A i, k \in 1..Len(Open) : i # k => Open[i].dev # Open[k].dev
Covered ==
    /\ OneOpenEach /\ BusyCoversOpen
    /\ s # "idle" => job \in Jobs /\ job.dev \notin InFlight
    /\ s \in {"mark", "unmark"} => InFlight \subseteq mask
    /\ s \in {"put", "full"} => job.dev \in busy
    /\ waiting = InFlight \cup (IF s = "idle" THEN {} ELSE {job.dev})

\* A direction that runs is one the job needs and has not finished, and the
\* cached channel, where there is one, is the channel that is wired.
Wired ==
    /\ WiredToItsDevice
    /\ bus.chan # NoChannel => bus.wire = bus.chan /\ bus.enabled
    /\ bus.tx => needs_tx(active.op) /\ ~ev.tx
    /\ bus.rx => needs_rx(active.op) /\ ~ev.rx
    /\ w = "loop" => active = NoJob
    /\ w \in {"tx", "txgo"} =>
           /\ active # NoJob /\ needs_tx(active.op)
           /\ bus.enabled /\ bus.wire = active.dev
           /\ ~bus.tx /\ ~ev.tx

MuxInductive == TypeOK /\ Covered /\ Wired

\* Refinement: the service keeps its promise, and every accepted transfer is
\* answered even if the device is silent or the bus is lost.
Promise == INSTANCE MuxPromise WITH
               open <- Open, Transfer <- Jobs
PromiseKept == Promise!Spec
PromiseSafe == Promise!Safety
=============================================================================

----------------------------- MODULE MuxProofs ------------------------------
(***************************************************************************)
(* Theorems about the multiplexer service, for every set of devices, queue *)
(* depth and id width: the service keeps its promise, although Mission and *)
(* the worker race for the busy mask, and no transfer ever runs on the     *)
(* channel of another device.                                              *)
(***************************************************************************)
EXTENDS MuxService, SequenceTheorems, TLAPS

-----------------------------------------------------------------------------
(* The bus: what each operation does to the directions and the channel.    *)

LEMMA NoChannelIsNoDevice == NoChannel \notin Device
BY DeviceAssumption DEF NoChannel

LEMMA SelectWires ==
    ASSUME NEW b \in BusType, NEW d \in Device,
           b.chan # NoChannel => b.wire = b.chan /\ b.enabled
    PROVE  LET x == mux_select(b, d) IN
           /\ x \in BusType
           /\ x.chan = d /\ x.wire = d /\ x.enabled
           /\ x.tx = b.tx /\ x.rx = b.rx /\ x.state = b.state
<1> DEFINE y == mult_uart_select(b, d)
<1>1. d \in 0..3 /\ d # NoChannel
  BY DeviceAssumption, NoChannelIsNoDevice
<1>2. /\ y \in BusType /\ y.chan = d /\ y.wire = d
      /\ y.tx = b.tx /\ y.rx = b.rx /\ y.state = b.state
  BY <1>1 DEF mult_uart_select, BusType
<1> HIDE DEF y
<1>3. mux_select(b, d) = [y EXCEPT !.enabled = TRUE]
  BY DEF mux_select, y
<1> QED BY <1>2, <1>3 DEF BusType

LEMMA SyncedKeeps ==
    ASSUME NEW b \in BusType
    PROVE  /\ synced(b) \in BusType
           /\ synced(b).tx = b.tx /\ synced(b).rx = b.rx
           /\ synced(b).chan = b.chan /\ synced(b).wire = b.wire
           /\ synced(b).enabled = b.enabled
BY DEF synced, BusType

LEMMA StartKeeps ==
    ASSUME NEW b \in BusType, NEW ok \in BOOLEAN
    PROVE  LET r == start_rx_dma(b, ok)
               t == start_tx_dma(b, ok)
           IN  /\ r \in BusType /\ r.rx = ok /\ r.tx = b.tx
               /\ r.chan = b.chan /\ r.wire = b.wire /\ r.enabled = b.enabled
               /\ t \in BusType /\ t.tx = ok /\ t.rx = b.rx
               /\ t.chan = b.chan /\ t.wire = b.wire /\ t.enabled = b.enabled
<1> DEFINE m == [b EXCEPT !.rx = ok]
           n == [b EXCEPT !.tx = ok]
<1>1. m \in BusType /\ n \in BusType
  BY DEF BusType
<1>2. m.rx = ok /\ m.tx = b.tx /\ n.tx = ok /\ n.rx = b.rx
  BY DEF BusType
<1>3. /\ m.chan = b.chan /\ m.wire = b.wire /\ m.enabled = b.enabled
      /\ n.chan = b.chan /\ n.wire = b.wire /\ n.enabled = b.enabled
  BY DEF BusType
<1> QED BY <1>1, <1>2, <1>3, SyncedKeeps DEF start_rx_dma, start_tx_dma

LEMMA AbortEnds ==
    ASSUME NEW b \in BusType, NEW x \in mult_uart_abort(b)
    PROVE  /\ x \in BusType /\ ~x.tx /\ ~x.rx
           /\ x.wire = b.wire /\ x.enabled = b.enabled
           /\ x.chan # NoChannel => x.chan = b.chan
<1>1. CASE Quiet(b)
  BY <1>1 DEF mult_uart_abort, Quiet
<1>2. CASE ~Quiet(b)
  <2>1. PICK st \in {"IDLE", "ERROR"} :
            x = [b EXCEPT !.state = st, !.tx = FALSE, !.rx = FALSE,
                          !.chan = NoChannel]
    BY <1>2 DEF mult_uart_abort
  <2> QED BY <2>1 DEF BusType
<1> QED BY <1>1, <1>2

\* What every interrupt leaves alone, or forgets.
Weaker(x, b) ==
    /\ x \in BusType
    /\ x.wire = b.wire /\ x.enabled = b.enabled
    /\ x.tx => b.tx
    /\ x.rx => b.rx
    /\ x.chan # NoChannel => x.chan = b.chan

LEMMA InterruptsKeep ==
    ASSUME NEW b \in BusType
    PROVE  /\ Weaker(tx_complete_isr(b), b) /\ ~tx_complete_isr(b).tx
           /\ Weaker(rx_complete_isr(b), b) /\ ~rx_complete_isr(b).rx
           /\ Weaker(rx_overflow_isr(b), b)
           /\ Weaker(error_isr(b), b)
<1> DEFINE t == [b EXCEPT !.tx = FALSE]
           r == [b EXCEPT !.rx = FALSE]
<1>1. t \in BusType /\ ~t.tx /\ t.rx = b.rx
      /\ t.chan = b.chan /\ t.wire = b.wire /\ t.enabled = b.enabled
  BY DEF BusType
<1>2. r \in BusType /\ ~r.rx /\ r.tx = b.tx
      /\ r.chan = b.chan /\ r.wire = b.wire /\ r.enabled = b.enabled
  BY DEF BusType
<1>3. Weaker(tx_complete_isr(b), b) /\ ~tx_complete_isr(b).tx
  BY <1>1, SyncedKeeps DEF tx_complete_isr, Weaker
<1>4. Weaker(rx_complete_isr(b), b) /\ ~rx_complete_isr(b).rx
  BY <1>2, SyncedKeeps DEF rx_complete_isr, Weaker
<1>5. Weaker(rx_overflow_isr(b), b)
  BY DEF rx_overflow_isr, BusType, Weaker
<1>6. Weaker(error_isr(b), b)
  BY DEF error_isr, BusType, Weaker
<1> QED BY <1>3, <1>4, <1>5, <1>6

-----------------------------------------------------------------------------
(* The transfers: each step keeps the sequence Open, appends the submitted *)
(* job to it, or takes its head off.                                       *)

Kept == Open' = Open
Accepted == Open' = Append(Open, job)
Answered(d) == Open # <<>> /\ d = Head(Open).dev /\ Open' = Tail(Open)

LEMMA OpenIsSequence ==
    ASSUME TypeOK
    PROVE  Open \in Seq(Jobs)
BY DEF TypeOK, Open

\* The job in hand is the head of Open, so finishing it answers the head.
LEMMA FinishAnswersHead ==
    ASSUME TypeOK, active # NoJob, active' = NoJob, queue' = queue
    PROVE  Answered(active.dev)
<1>1. active \in Jobs /\ queue \in Seq(Jobs)
  BY DEF TypeOK
<1>2. Open = <<active>> \o queue
  BY DEF Open
<1>3. Open' = queue
  BY DEF Open
<1>4. /\ <<active>> \o queue # <<>>
      /\ Head(<<active>> \o queue) = active
      /\ Tail(<<active>> \o queue) = queue
  BY <1>1
<1> QED BY <1>2, <1>3, <1>4 DEF Answered

\* Taking a job into hand keeps Open; answering it on the spot does not.
LEMMA TakeKeepsOpen ==
    ASSUME TypeOK, active = NoJob, queue # <<>>, queue' = Tail(queue)
    PROVE  /\ active' = Head(queue) => Kept
           /\ active' = NoJob => Answered(Head(queue).dev)
<1>1. queue \in Seq(Jobs) /\ Head(queue) \in Jobs
  BY DEF TypeOK
<1>2. Head(queue) # NoJob
  BY <1>1, NoChannelIsNoDevice DEF Jobs, NoJob
<1>3. Open = queue
  BY DEF Open
<1>4. <<Head(queue)>> \o Tail(queue) = queue
  BY <1>1
<1>5. ASSUME active' = Head(queue) PROVE Kept
  BY <1>2, <1>3, <1>4, <1>5 DEF Open, Kept
<1>6. ASSUME active' = NoJob PROVE Answered(Head(queue).dev)
  BY <1>3, <1>6 DEF Open, Answered
<1> QED BY <1>5, <1>6

LEMMA PutAccepts ==
    ASSUME TypeOK, job \in Jobs, queue' = Append(queue, job), active' = active
    PROVE  Accepted
<1>1. queue \in Seq(Jobs)
  BY DEF TypeOK
<1>2. CASE active = NoJob
  BY <1>2 DEF Open, Accepted
<1>3. CASE active # NoJob
  <2>1. active \in Jobs
    BY <1>3 DEF TypeOK
  <2>2. <<active>> \o Append(queue, job) = Append(<<active>> \o queue, job)
    BY <1>1, <2>1
  <2> QED BY <1>3, <2>2 DEF Open, Accepted
<1> QED BY <1>2, <1>3

\* The devices of Open after each of the three.
LEMMA DevicesAfterAnswer ==
    ASSUME TypeOK, OneOpenEach, NEW d, Answered(d)
    PROVE  /\ InFlight' = InFlight \ {d}
           /\ OneOpenEach'
<1> DEFINE o == Open
           n == Open'
<1>1. o \in Seq(Jobs) /\ o # <<>> /\ n = Tail(o) /\ d = o[1].dev
  BY OpenIsSequence DEF Answered
<1>2. n \in Seq(Jobs) /\ Len(n) = Len(o) - 1 /\ Len(o) \in Nat \ {0}
  BY <1>1
<1>3. \A i \in 1..Len(n) : i + 1 \in 1..Len(o) /\ n[i] = o[i + 1]
  BY <1>1, <1>2
<1>4. \A i \in 1..Len(o) : i # 1 => i - 1 \in 1..Len(n) /\ n[i - 1] = o[i]
  BY <1>1, <1>2, <1>3
<1>5. \A i, k \in 1..Len(o) : i # k => o[i].dev # o[k].dev
  BY DEF OneOpenEach
<1>6. OneOpenEach'
  <2> SUFFICES ASSUME NEW i \in 1..Len(n), NEW k \in 1..Len(n), i # k
               PROVE  n[i].dev # n[k].dev
    BY DEF OneOpenEach
  <2>1. i + 1 # k + 1
    BY <1>2
  <2> QED BY <1>3, <1>5, <2>1
<1>7. InFlight' = InFlight \ {d}
  <2>1. ASSUME NEW x \in InFlight' PROVE x \in InFlight \ {d}
    <3>1. PICK i \in 1..Len(n) : x = n[i].dev
      BY DEF InFlight
    <3>2. x = o[i + 1].dev /\ i + 1 # 1 /\ 1 \in 1..Len(o)
      BY <1>2, <1>3, <3>1
    <3> QED BY <1>1, <1>3, <1>5, <3>2 DEF InFlight
  <2>2. ASSUME NEW x \in InFlight \ {d} PROVE x \in InFlight'
    <3>1. PICK i \in 1..Len(o) : x = o[i].dev
      BY DEF InFlight
    <3>2. i # 1
      BY <1>1, <3>1
    <3> QED BY <1>4, <3>1, <3>2 DEF InFlight
  <2> QED BY <2>1, <2>2
<1> QED BY <1>6, <1>7

LEMMA DevicesAfterAccept ==
    ASSUME TypeOK, OneOpenEach, job \in Jobs, job.dev \notin InFlight, Accepted
    PROVE  /\ InFlight' = InFlight \cup {job.dev}
           /\ OneOpenEach'
<1> DEFINE o == Open
           n == Open'
           L == Len(o)
<1>1. o \in Seq(Jobs) /\ n = Append(o, job) /\ L \in Nat
  BY OpenIsSequence DEF Accepted
<1>2. /\ Len(n) = L + 1 /\ n[L + 1] = job
      /\ \A i \in 1..L : n[i] = o[i] /\ i \in 1..Len(n)
  BY <1>1
<1>3. \A i \in 1..Len(n) : i # L + 1 => i \in 1..L
  BY <1>1, <1>2
<1>4. \A i, k \in 1..L : i # k => o[i].dev # o[k].dev
  BY DEF OneOpenEach
<1>5. \A i \in 1..L : o[i].dev # job.dev
  BY DEF InFlight
<1>6. OneOpenEach'
  <2> SUFFICES ASSUME NEW i \in 1..Len(n), NEW k \in 1..Len(n), i # k
               PROVE  n[i].dev # n[k].dev
    BY DEF OneOpenEach
  <2> QED BY <1>2, <1>3, <1>4, <1>5
<1>7. InFlight' = InFlight \cup {job.dev}
  <2>1. ASSUME NEW x \in InFlight' PROVE x \in InFlight \cup {job.dev}
    <3>1. PICK i \in 1..Len(n) : x = n[i].dev
      BY DEF InFlight
    <3> QED BY <1>2, <1>3, <3>1 DEF InFlight
  <2>2. ASSUME NEW x \in InFlight PROVE x \in InFlight'
    <3>1. PICK i \in 1..L : x = o[i].dev
      BY DEF InFlight
    <3> QED BY <1>2, <3>1 DEF InFlight
  <2>3. job.dev \in InFlight'
    <3>1. L + 1 \in 1..Len(n)
      BY <1>1, <1>2
    <3> QED BY <1>2, <3>1 DEF InFlight
  <2> QED BY <2>1, <2>2, <2>3
<1> QED BY <1>6, <1>7
-----------------------------------------------------------------------------
(* Covered.                                                                *)

\* The worker either leaves the open transfers alone or answers the head.
NothingAnswered == Kept /\ UNCHANGED <<busy, waiting>>
HeadAnswered ==
    \E d : Answered(d) /\ busy' = busy \ {d} /\ waiting' = waiting \ {d}
WorkerEffect == UNCHANGED subVars /\ (NothingAnswered \/ HeadAnswered)

LEMMA FinishEffect ==
    ASSUME TypeOK, active # NoJob, mux_finish(active.dev), UNCHANGED queue
    PROVE  HeadAnswered
<1>1. Answered(active.dev)
  BY FinishAnswersHead DEF mux_finish
<1> QED BY <1>1 DEF HeadAnswered, mux_finish

LEMMA TakeEffect ==
    ASSUME TypeOK, Take
    PROVE  WorkerEffect
<1> DEFINE d == Head(queue).dev
<1>1. /\ active = NoJob /\ queue # <<>> /\ queue' = Tail(queue)
      /\ UNCHANGED subVars
  BY DEF Take
<1>2. \/ mux_finish(d)
      \/ active' = Head(queue) /\ UNCHANGED <<busy, waiting>>
  BY DEF Take
<1>3. CASE mux_finish(d)
  <2>1. Answered(d)
    BY <1>1, <1>3, TakeKeepsOpen DEF mux_finish
  <2> QED BY <1>1, <1>3, <2>1 DEF WorkerEffect, HeadAnswered, mux_finish
<1>4. CASE active' = Head(queue) /\ UNCHANGED <<busy, waiting>>
  BY <1>1, <1>4, TakeKeepsOpen DEF WorkerEffect, NothingAnswered
<1> QED BY <1>2, <1>3, <1>4

LEMMA QuietStepEffect ==
    ASSUME UNCHANGED <<active, queue, busy, waiting, subVars>>
    PROVE  WorkerEffect
BY DEF WorkerEffect, NothingAnswered, Kept, Open

LEMMA WorkerEffects ==
    ASSUME TypeOK, Wired, Worker \/ Interrupt \/ Expire
    PROVE  WorkerEffect
<1>1. CASE Failed
  BY <1>1, FinishEffect DEF Failed, Awake, WorkerEffect
<1>2. CASE Completed
  BY <1>2, FinishEffect DEF Completed, Awake, WorkerEffect
<1>3. CASE NothingToFinish \/ Drained
  BY <1>3, QuietStepEffect DEF NothingToFinish, Drained
<1>4. CASE Take
  BY <1>4, TakeEffect
<1>5. CASE CheckTx
  <2>1. active # NoJob
    BY <1>5 DEF CheckTx, Wired
  <2> QED BY <1>5, <2>1, FinishEffect, QuietStepEffect
          DEF CheckTx, GiveUp, WorkerEffect
<1>6. CASE StartTx
  <2>1. active # NoJob
    BY <1>6 DEF StartTx, Wired
  <2>2. CASE UNCHANGED <<active, queue, busy, waiting, subVars>>
    BY <2>2, QuietStepEffect
  <2>3. CASE mux_finish(active.dev) /\ UNCHANGED <<queue, subVars>>
    BY <2>1, <2>3, FinishEffect DEF WorkerEffect
  <2> QED BY <1>6, <2>2, <2>3 DEF StartTx, GiveUp
<1>7. CASE Interrupt
  BY <1>7, QuietStepEffect
     DEF Interrupt, TxComplete, RxComplete, RxOverflow, UartError, Isr
<1>8. CASE Expire
  BY <1>8, QuietStepEffect DEF Expire
<1> QED BY <1>1, <1>2, <1>3, <1>4, <1>5, <1>6, <1>7, <1>8 DEF Worker

\* Mission may be in the middle of rewriting the mask when a transfer is
\* answered: its copy is stale then, but only in that it has a bit too many.
LEMMA WorkerKeepsCovered ==
    ASSUME TypeOK, Covered, WorkerEffect
    PROVE  Covered'
<1>1. CASE NothingAnswered
  <2>1. InFlight' = InFlight /\ (OneOpenEach' <=> OneOpenEach)
    BY <1>1 DEF NothingAnswered, Kept, InFlight, OneOpenEach
  <2> QED BY <1>1, <2>1
          DEF WorkerEffect, NothingAnswered, Covered, BusyCoversOpen, subVars
<1>2. CASE HeadAnswered
  <2>1. PICK d : Answered(d) /\ busy' = busy \ {d} /\ waiting' = waiting \ {d}
    BY <1>2 DEF HeadAnswered
  <2>2. InFlight' = InFlight \ {d} /\ OneOpenEach'
    BY <2>1, DevicesAfterAnswer DEF Covered
  <2>3. d \in InFlight
    <3>1. Open \in Seq(Jobs) /\ Open # <<>> /\ d = Open[1].dev
      BY <2>1, OpenIsSequence DEF Answered
    <3>2. 1 \in 1..Len(Open)
      BY <3>1
    <3> QED BY <3>1, <3>2 DEF InFlight
  <2> QED BY <2>1, <2>2, <2>3
          DEF WorkerEffect, Covered, BusyCoversOpen, subVars
<1> QED BY <1>1, <1>2 DEF WorkerEffect

LEMMA MissionKeepsCovered ==
    ASSUME TypeOK, Covered, Mission
    PROVE  Covered'
<1> USE DEF Covered, BusyCoversOpen
<1>1. ASSUME UNCHANGED <<active, queue>>
      PROVE  InFlight' = InFlight /\ (OneOpenEach' <=> OneOpenEach)
  BY <1>1 DEF InFlight, OneOpenEach, Open
<1>2. ASSUME NEW d \in Device, NEW op \in Ops, Submit(d, op) PROVE Covered'
  <2>1. job' \in Jobs /\ job'.dev = d
    BY <1>2, IdMaxAssumption DEF Submit, Jobs
  <2>2. d \notin InFlight
    BY <1>2 DEF Submit
  <2> QED BY <1>1, <1>2, <2>1, <2>2 DEF Submit, workVars
<1>3. CASE Mark
  <2>1. job' \in Jobs /\ job'.dev = job.dev
    BY <1>3, IdMaxAssumption DEF Mark, next_id, Jobs, TypeOK
  <2> QED BY <1>1, <1>3, <2>1 DEF Mark, workVars
<1>4. CASE Put
  <2>1. Accepted
    BY <1>4, PutAccepts DEF Put, workVars
  <2>2. InFlight' = InFlight \cup {job.dev} /\ OneOpenEach'
    BY <1>4, <2>1, DevicesAfterAccept DEF Put
  <2> QED BY <1>4, <2>2 DEF Put
<1>5. CASE PutRefused
  BY <1>1, <1>5 DEF PutRefused, workVars
<1>6. CASE ReadMask
  BY <1>1, <1>6 DEF ReadMask, workVars
<1>7. CASE Unmark
  BY <1>1, <1>7 DEF Unmark, workVars
<1> QED BY <1>2, <1>3, <1>4, <1>5, <1>6, <1>7 DEF Mission
-----------------------------------------------------------------------------
(* TypeOK and Wired.                                                       *)

LEMMA TakeKeepsTypes ==
    ASSUME TypeOK, Wired, Take
    PROVE  TypeOK' /\ Wired'
<1> DEFINE j == Head(queue)
           b == mux_select(bus, j.dev)
<1>1. /\ queue \in Seq(Jobs) /\ queue # <<>> /\ j \in Jobs
      /\ Tail(queue) \in Seq(Jobs) /\ Len(Tail(queue)) <= Depth
  BY DepthAssumption DEF Take, TypeOK
<1>2. j # NoJob /\ j.dev \in Device /\ j.dev # NoChannel
  BY <1>1, NoChannelIsNoDevice DEF Jobs, NoJob
<1>3. bus \in BusType /\ ~bus.tx /\ ~bus.rx /\ active = NoJob
      /\ (bus.chan # NoChannel => bus.wire = bus.chan /\ bus.enabled)
  BY DEF Take, TypeOK, Wired, WiredToItsDevice
<1>4. /\ b \in BusType /\ b.chan = j.dev /\ b.wire = j.dev /\ b.enabled
      /\ ~b.tx /\ ~b.rx
  BY <1>2, <1>3, SelectWires
<1>5. /\ queue' = Tail(queue) /\ w \in {"loop"}
      /\ UNCHANGED <<nextId, s, job, mask>>
  BY DEF Take, subVars
<1>6. CASE bus' \in {bus, b, start_rx_dma(b, FALSE)} /\ w' = w
           /\ mux_finish(j.dev)
  <2>0. LET r == start_rx_dma(b, FALSE) IN
        /\ r \in BusType /\ ~r.tx /\ ~r.rx
        /\ r.chan = j.dev /\ r.wire = j.dev /\ r.enabled
    BY <1>4, StartKeeps
  <2>1. /\ bus' \in BusType /\ ~bus'.tx /\ ~bus'.rx
        /\ bus'.chan # NoChannel => bus'.wire = bus'.chan /\ bus'.enabled
    BY <1>3, <1>4, <1>6, <2>0
  <2> QED BY <1>1, <1>5, <1>6, <2>1
          DEF TypeOK, Wired, WiredToItsDevice, mux_finish, NoEvents
<1>7. CASE /\ bus' = b /\ w' = "tx" /\ j.op = "WRITE"
           /\ active' = j /\ ev' = NoEvents /\ expired' = FALSE
           /\ UNCHANGED <<busy, waiting>>
  BY <1>1, <1>2, <1>4, <1>5, <1>7
     DEF TypeOK, Wired, WiredToItsDevice, NoEvents, needs_tx
<1>8. CASE /\ bus' = start_rx_dma(b, TRUE) /\ needs_rx(j.op)
           /\ w' = (IF needs_tx(j.op) THEN "tx" ELSE "wait")
           /\ active' = j /\ ev' = NoEvents /\ expired' = FALSE
           /\ UNCHANGED <<busy, waiting>>
  <2>1. /\ bus' \in BusType /\ ~bus'.tx /\ bus'.rx
        /\ bus'.wire = j.dev /\ bus'.chan = j.dev /\ bus'.enabled
    BY <1>4, <1>8, StartKeeps
  <2> QED BY <1>1, <1>2, <1>5, <1>8, <2>1
          DEF TypeOK, Wired, WiredToItsDevice, NoEvents
<1> QED BY <1>6, <1>7, <1>8 DEF Take

\* A job given up or finished leaves both directions at rest.
LEMMA FinishKeepsTypes ==
    ASSUME TypeOK, active # NoJob, mux_finish(active.dev), w' = "loop",
           bus' \in BusType, ~bus'.tx, ~bus'.rx,
           bus'.chan # NoChannel => bus'.wire = bus'.chan /\ bus'.enabled,
           UNCHANGED <<queue, subVars>>
    PROVE  TypeOK' /\ Wired'
BY DEF TypeOK, Wired, WiredToItsDevice, mux_finish, NoEvents, subVars

LEMMA AbortedKeepsTypes ==
    ASSUME TypeOK, Wired, active # NoJob, mux_finish(active.dev), w' = "loop",
           NEW b \in BusType, bus' \in mult_uart_abort(b),
           b.chan # NoChannel => b.wire = b.chan /\ b.enabled,
           UNCHANGED <<queue, subVars>>
    PROVE  TypeOK' /\ Wired'
<1>1. /\ bus' \in BusType /\ ~bus'.tx /\ ~bus'.rx
      /\ bus'.chan # NoChannel => bus'.wire = bus'.chan /\ bus'.enabled
  BY AbortEnds
<1> QED BY <1>1, FinishKeepsTypes

LEMMA GiveUpKeepsTypes ==
    ASSUME TypeOK, Wired, active # NoJob, NEW b \in BusType, GiveUp(b),
           ~b.tx, b.rx => needs_rx(active.op),
           b.chan # NoChannel => b.wire = b.chan /\ b.enabled
    PROVE  TypeOK' /\ Wired'
<1>1. CASE needs_rx(active.op)
  BY <1>1, AbortedKeepsTypes DEF GiveUp
<1>2. CASE ~needs_rx(active.op)
  BY <1>2, FinishKeepsTypes DEF GiveUp
<1> QED BY <1>1, <1>2

LEMMA StartTxKeepsTypes ==
    ASSUME TypeOK, Wired, StartTx
    PROVE  TypeOK' /\ Wired'
<1>1. /\ w = "txgo" /\ active # NoJob /\ needs_tx(active.op)
      /\ bus \in BusType /\ bus.enabled /\ bus.wire = active.dev
      /\ ~bus.tx /\ ~ev.tx
      /\ (bus.rx => needs_rx(active.op) /\ ~ev.rx)
      /\ (bus.chan # NoChannel => bus.wire = bus.chan /\ bus.enabled)
  BY DEF StartTx, TypeOK, Wired
<1>2. \A st \in {bus.state, "ACTIVE"} :
          LET m == [bus EXCEPT !.state = st] IN
          /\ m \in BusType
          /\ m.tx = bus.tx /\ m.rx = bus.rx /\ m.chan = bus.chan
          /\ m.wire = bus.wire /\ m.enabled = bus.enabled
  BY <1>1 DEF BusType
<1>3. CASE \E st \in {bus.state, "ACTIVE"} :
               /\ bus' = start_tx_dma([bus EXCEPT !.state = st], TRUE)
               /\ w' = "wait"
               /\ UNCHANGED <<ev, active, expired, queue, busy, waiting,
                              subVars>>
  <2>0. PICK st \in {bus.state, "ACTIVE"} :
            bus' = start_tx_dma([bus EXCEPT !.state = st], TRUE)
    BY <1>3
  <2>1. /\ bus' \in BusType /\ bus'.tx /\ bus'.rx = bus.rx
        /\ bus'.chan = bus.chan /\ bus'.wire = bus.wire
        /\ bus'.enabled = bus.enabled
    <3> DEFINE m == [bus EXCEPT !.state = st]
    <3>1. /\ m \in BusType /\ m.rx = bus.rx /\ m.chan = bus.chan
          /\ m.wire = bus.wire /\ m.enabled = bus.enabled
      BY <1>2
    <3> HIDE DEF m
    <3>2. bus' = start_tx_dma(m, TRUE)
      BY <2>0 DEF m
    <3> QED BY <3>1, <3>2, StartKeeps
  <2>2. TypeOK'
    BY <1>3, <2>1 DEF TypeOK, subVars
  <2> QED BY <1>1, <1>3, <2>1, <2>2 DEF Wired, WiredToItsDevice
<1>4. CASE \E st \in {bus.state, "ACTIVE"} :
               GiveUp(start_tx_dma([bus EXCEPT !.state = st], FALSE))
  <2>1. PICK st \in {bus.state, "ACTIVE"} :
            GiveUp(start_tx_dma([bus EXCEPT !.state = st], FALSE))
    BY <1>4
  <2> DEFINE b == start_tx_dma([bus EXCEPT !.state = st], FALSE)
  <2>2. /\ b \in BusType /\ ~b.tx /\ b.rx = bus.rx
        /\ b.chan = bus.chan /\ b.wire = bus.wire /\ b.enabled = bus.enabled
    <3> DEFINE m == [bus EXCEPT !.state = st]
    <3>1. /\ m \in BusType /\ m.rx = bus.rx /\ m.chan = bus.chan
          /\ m.wire = bus.wire /\ m.enabled = bus.enabled
      BY <1>2
    <3> HIDE DEF m
    <3>2. b = start_tx_dma(m, FALSE)
      BY DEF m
    <3> HIDE DEF b
    <3> QED BY <3>1, <3>2, StartKeeps
  <2> QED BY <1>1, <2>1, <2>2, GiveUpKeepsTypes
<1> QED BY <1>3, <1>4 DEF StartTx

LEMMA IsrKeepsTypes ==
    ASSUME TypeOK, Wired, NEW b, NEW e, Isr(b, e), Weaker(b, bus),
           e \in [tx : BOOLEAN, rx : BOOLEAN, err : BOOLEAN],
           e.tx = ev.tx \/ (~b.tx /\ bus.tx),
           e.rx = ev.rx \/ ~b.rx,
           bus.tx \/ bus.rx
    PROVE  TypeOK' /\ Wired'
<1>1. TypeOK'
  BY DEF Isr, Weaker, TypeOK, subVars
<1>2. active # NoJob /\ bus.enabled /\ bus.wire = active.dev
  BY DEF Wired, WiredToItsDevice
<1>3. Wired'
  BY <1>2 DEF Isr, Weaker, Wired, WiredToItsDevice
<1> QED BY <1>1, <1>3

LEMMA InterruptKeepsTypes ==
    ASSUME TypeOK, Wired, Interrupt
    PROVE  TypeOK' /\ Wired'
<1>1. /\ bus \in BusType
      /\ ev \in [tx : BOOLEAN, rx : BOOLEAN, err : BOOLEAN]
  BY DEF TypeOK
<1>2. /\ Weaker(tx_complete_isr(bus), bus) /\ ~tx_complete_isr(bus).tx
      /\ Weaker(rx_complete_isr(bus), bus) /\ ~rx_complete_isr(bus).rx
      /\ Weaker(rx_overflow_isr(bus), bus) /\ Weaker(error_isr(bus), bus)
  BY <1>1, InterruptsKeep
<1>3. CASE TxComplete
  BY <1>1, <1>2, <1>3, IsrKeepsTypes DEF TxComplete
<1>4. CASE RxComplete
  BY <1>1, <1>2, <1>4, IsrKeepsTypes DEF RxComplete
<1>5. CASE RxOverflow
  BY <1>1, <1>2, <1>5, IsrKeepsTypes DEF RxOverflow
<1>6. CASE UartError
  BY <1>1, <1>2, <1>6, IsrKeepsTypes DEF UartError
<1> QED BY <1>3, <1>4, <1>5, <1>6 DEF Interrupt

LEMMA WorkerKeepsTypes ==
    ASSUME TypeOK, Wired, Worker \/ Interrupt \/ Expire
    PROVE  TypeOK' /\ Wired'
<1>1. CASE Failed
  BY <1>1, AbortedKeepsTypes DEF Failed, Awake, TypeOK, Wired
<1>2. CASE Completed
  <2>1. /\ active # NoJob /\ Complete /\ bus' = bus /\ bus \in BusType
        /\ w' = "loop" /\ mux_finish(active.dev)
    BY <1>2 DEF Completed, Awake, TypeOK
  <2>2. ~bus.tx /\ ~bus.rx
    BY <2>1 DEF Complete, Wired
  <2> QED BY <1>2, <2>1, <2>2, FinishKeepsTypes DEF Completed, Wired
<1>3. CASE NothingToFinish \/ Drained
  BY <1>3 DEF NothingToFinish, Drained, TypeOK, Wired, WiredToItsDevice,
              subVars
<1>4. CASE Take
  BY <1>4, TakeKeepsTypes
<1>5. CASE CheckTx
  <2>1. CASE GiveUp(bus)
    BY <1>5, <2>1, GiveUpKeepsTypes DEF CheckTx, TypeOK, Wired
  <2>2. CASE w' = "txgo" /\ UNCHANGED <<bus, ev, active, expired, queue, busy,
                                        waiting, subVars>>
    BY <1>5, <2>2 DEF CheckTx, TypeOK, Wired, WiredToItsDevice, subVars
  <2> QED BY <1>5, <2>1, <2>2 DEF CheckTx
<1>6. CASE StartTx
  BY <1>6, StartTxKeepsTypes
<1>7. CASE Interrupt
  BY <1>7, InterruptKeepsTypes
<1>8. CASE Expire
  BY <1>8 DEF Expire, TypeOK, Wired, WiredToItsDevice, subVars
<1> QED BY <1>1, <1>2, <1>3, <1>4, <1>5, <1>6, <1>7, <1>8 DEF Worker

LEMMA MissionKeepsTypes ==
    ASSUME TypeOK, Covered, Wired, Mission
    PROVE  TypeOK' /\ Wired'
<1>0. UNCHANGED <<bus, ev, active, expired, w>>
  BY DEF Mission, Submit, Mark, Put, PutRefused, ReadMask, Unmark, workVars
<1>1. Wired'
  BY <1>0 DEF Wired, WiredToItsDevice
<1> SUFFICES TypeOK'
  BY <1>1
<1>2. ASSUME NEW d \in Device, NEW op \in Ops, Submit(d, op) PROVE TypeOK'
  <2>1. job' \in Jobs /\ job' # NoJob
    BY <1>2, IdMaxAssumption, NoChannelIsNoDevice DEF Submit, Jobs, NoJob
  <2> QED BY <1>0, <1>2, <2>1 DEF Submit, TypeOK
<1>3. CASE Mark
  <2>1. next_id \in 0..IdMax
    BY IdMaxAssumption DEF next_id, TypeOK
  <2>2. job \in Jobs /\ job' \in Jobs /\ job' # NoJob
    BY <1>3, <2>1, NoChannelIsNoDevice DEF Mark, Jobs, Covered, NoJob
  <2>3. busy' \subseteq Device
    BY <1>3, <2>2 DEF Mark, Jobs, TypeOK
  <2> QED BY <1>0, <1>3, <2>1, <2>2, <2>3 DEF Mark, TypeOK
<1>4. CASE Put
  <2>1. queue' \in Seq(Jobs) /\ Len(queue') <= Depth
    BY <1>4, DepthAssumption DEF Put, TypeOK, Covered
  <2> QED BY <1>0, <1>4, <2>1 DEF Put, TypeOK
<1>5. CASE PutRefused
  BY <1>0, <1>5 DEF PutRefused, TypeOK
<1>6. CASE ReadMask
  BY <1>0, <1>6 DEF ReadMask, TypeOK
<1>7. CASE Unmark
  BY <1>0, <1>7 DEF Unmark, TypeOK
<1> QED BY <1>1, <1>2, <1>3, <1>4, <1>5, <1>6, <1>7 DEF Mission

-----------------------------------------------------------------------------
(* The theorems.                                                           *)

\* mux_service.c and mux_bsp.c together: the invariant behind the others.
THEOREM MuxInvariant == Spec => []MuxInductive
<1>1. Init => MuxInductive
  <2> SUFFICES ASSUME Init PROVE MuxInductive
    OBVIOUS
  <2> USE DEF Init
  <2>1. TypeOK
    <3>1. bus \in BusType
      BY DEF BusInit, BusType
    <3>2. queue \in Seq(Jobs) /\ Len(queue) <= Depth
      BY DepthAssumption
    <3>3. nextId \in 0..IdMax
      BY IdMaxAssumption
    <3>4. ev \in [tx : BOOLEAN, rx : BOOLEAN, err : BOOLEAN]
      BY DEF NoEvents
    <3> QED BY <3>1, <3>2, <3>3, <3>4 DEF TypeOK
  <2>2. Open = <<>> /\ InFlight = {}
    BY DEF Open, InFlight
  <2>3. Covered
    BY <2>2 DEF Covered, OneOpenEach, BusyCoversOpen
  <2>4. Wired
    BY DEF Wired, WiredToItsDevice, BusInit
  <2> QED BY <2>1, <2>3, <2>4 DEF MuxInductive
<1>2. MuxInductive /\ [Next]_vars => MuxInductive'
  <2> SUFFICES ASSUME MuxInductive, [Next]_vars PROVE MuxInductive'
    OBVIOUS
  <2> USE DEF MuxInductive
  <2>1. CASE Worker \/ Interrupt \/ Expire
    BY <2>1, WorkerEffects, WorkerKeepsCovered, WorkerKeepsTypes
  <2>2. CASE Mission
    BY <2>2, MissionKeepsCovered, MissionKeepsTypes
  <2>3. CASE UNCHANGED vars
    BY <2>3 DEF vars, workVars, subVars, TypeOK, Covered, OneOpenEach,
                BusyCoversOpen, InFlight, Open, Wired, WiredToItsDevice
  <2> QED BY <2>1, <2>2, <2>3 DEF Next
<1> QED BY <1>1, <1>2, PTL DEF Spec

\* No byte of a transfer runs on another device's channel: the channel cache
\* of the driver is never wrong while a direction is running.
THEOREM NoCrossTalk == Spec => []WiredToItsDevice
<1>1. MuxInductive => WiredToItsDevice
  BY DEF MuxInductive, Wired
<1> QED BY <1>1, MuxInvariant, PTL

\* The busy mask covers every open transfer: the update that Mission and the
\* worker may lose never frees a device too early.
THEOREM MaskNeverTooSmall == Spec => []BusyCoversOpen
<1>1. MuxInductive => BusyCoversOpen
  BY DEF MuxInductive, Covered
<1> QED BY <1>1, MuxInvariant, PTL

\* A client is marked in flight exactly while its transfer is open.
THEOREM NobodyStranded == Spec => []NoneStranded
<1>1. MuxInductive => NoneStranded
  BY DEF MuxInductive, Covered, NoneStranded
<1> QED BY <1>1, MuxInvariant, PTL

\* The service implements its promise: each accepted transfer is answered
\* at most once, in order, and no device has two open.
THEOREM PromiseImplemented == Spec => PromiseSafe
<1>1. Init => Promise!Init
  BY DEF Init, Promise!Init, Open
<1>2. MuxInductive /\ [Next]_vars => [Promise!Next]_Open
  <2> SUFFICES ASSUME MuxInductive, [Next]_vars
               PROVE  Promise!Next \/ Open' = Open
    OBVIOUS
  <2>1. TypeOK /\ Covered /\ Wired
    BY DEF MuxInductive
  <2>2. CASE Worker \/ Interrupt \/ Expire
    <3>1. Kept \/ \E d : Answered(d)
      BY <2>1, <2>2, WorkerEffects
         DEF WorkerEffect, NothingAnswered, HeadAnswered
    <3> QED BY <3>1 DEF Kept, Answered, Promise!Next, Promise!Answer
  <2>3. CASE Put
    <3>1. Accepted /\ job \in Jobs /\ job.dev \notin InFlight
      BY <2>1, <2>3, PutAccepts DEF Put, workVars, Covered
    <3>2. \A i \in 1..Len(Open) : Open[i].dev # job.dev
      BY <3>1 DEF InFlight
    <3>3. Promise!Accept(job)
      BY <3>1, <3>2 DEF Accepted, Promise!Accept
    <3> QED BY <3>1, <3>3 DEF Promise!Next
  <2>4. CASE Mission /\ ~Put
    <3>1. UNCHANGED <<active, queue>>
      BY <2>4 DEF Mission, Submit, Mark, PutRefused, ReadMask, Unmark, workVars
    <3> QED BY <3>1 DEF Open
  <2>5. CASE UNCHANGED vars
    BY <2>5 DEF vars, workVars, Open
  <2> QED BY <2>2, <2>3, <2>4, <2>5 DEF Next, Mission
<1> QED BY <1>1, <1>2, MuxInvariant, PTL DEF Spec, PromiseSafe, Promise!Safety
=============================================================================

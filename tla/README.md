# A TLA+ model of the logistics robot's firmware

The firmware (`src/licang2026_next_test`) drives a contest robot on an STM32F7
with FreeRTOS: it fetches balls from a platform, a staircase and a rotating disc,
reads the card of each ball, keeps them in a turntable, and places them in a
depot. Two boards' worth of software share one controller: the *Mission* side
(`01_App` .. `04_Bsp`: arm, vision, card reader, turntable) and the *chassis* side
(`lhy/`: wheels, line sensors, gyroscope, routes), joined by two message queues.

Paths below are relative to `src/licang2026_next_test`.

## 1. Inventory

### 1.1 Tasks and interrupts

| context | code | waits on |
|---|---|---|
| Mission task | `01_App/mission/mission_app.c` `mission_task_entry` | thread flags (COMMAND, EVENT, ARM_OK, ARM_FAIL, VISION_DONE, IC_DONE, ZDT_DONE), 30 s deadline |
| chassis task | `lhy/01_App/app_main.c` `app_task`, `app_stairs.c` `stairs_sweep` | the command queue, the line sensors, the motion service |
| motion service: execution, guard, odometry tasks | `lhy/02_Service/chassis_service.c` | a command queue of depth one, periods |
| UART multiplexer worker | `02_Service/mult_uart/mux_service.c` `mux_task` | its transfer queue, DMA events, deadlines |
| arm service task | `02_Service/lsc16` | action queue, transmit completion, asynchronous reports |
| UART and DMA interrupts | `04_Bsp/*` through `uart_dispatch` | - |

### 1.2 Components

For each component: its state, its operations, who it talks to, what is hard, and
what makes it correct. `PROJECT.json` lists the same parts with their status.

* **Mission task.** One `mission_context_t`: `state` (one of some sixty values),
  `fault_code`, `request_id`, `active_arm_group`, the `vision` record, counters
  per stage, the manifest. The main loop takes a snapshot of the flags and runs,
  in a fixed order, the user command, chassis event, arm, vision reply, vision
  process and timeout stages; every handler is a chain of `if (state == ...)`.
  Hard: every device answers asynchronously, so the reports of one motion can
  arrive after a STOP, a fault, or the next motion; the ball store runs a nested
  loop inside the arm handler. Correct: the arm and the base never move at the
  same time, no late report starts a motion, a STOP always parks, ball limits.
* **Vision mailbox** (inside the Mission task). One transmit buffer and one reply
  buffer for every transaction of the session protocol (START, READ, ACK, STOP);
  the multiplexer's worker task fills the reply and clears `inflight`. Hard: a
  session may have to be closed while a transaction is running. Correct: no frame
  is rewritten while it is sent, a session is closed before the next one opens.
* **Mission-chassis link** (`chassis_mission_link.c`, `app_link.c`). Two queues of
  eight; commands are refused when full, events wait up to 100 ms and are then
  lost; stage commands carry a 16-bit request id that the answers repeat.
* **Chassis task.** A straight-line program through the contest: wait for a
  stage's command, drive the route, run the stage's own poll loop. Hard: STOP,
  pause and resume must work from every nested loop; segments are crossed while
  Mission is still busy with the previous one. Correct: after STOP nothing moves
  until the end of the run, every pause is confirmed only when standing.
* **Start panel and readiness gate** (Mission) with the **handshake** (chassis). KEY1 and two
  switches choose side and run; arm, base, vision model and chassis become ready each on its
  own. Hard: any of them may be withdrawn until the moment of departure, and the two tasks
  share the choice without a lock. Correct: only a fresh press starts, the run that was chosen
  is the one that is driven, a confirmed start does not hang.
* **Platform** and **ball store** (Mission). Grasp what Nano reports, read its card with retries,
  put it on record, turn the turntable by a slot. State: attempts, balls, records, slots, the
  card reader's one answer. Hard: the store blocks the main loop and has a STOP check, waits
  and retries of its own, against a reader and a motor that go on beside it. Correct:
  turntable, slot counter and records agree, the base leaves after the arm was taken home.
* **Small disc** (Mission) with the **circle** (chassis). The base circles the disc, pauses for each
  ball, and goes on until it has driven the whole circle. Hard: the time of the circle is
  counted per poll, and a ball may be seen in its last moments. Correct: the arm moves only
  over a base at rest, the base never circles unwatched, the stage ends.
* **Building blocks and depot** (Mission) with **depot and home** (chassis). Blocks are looked
  for at three stations per layer and put in the free column; then the columns' digits are
  read, twice each, and the balls for a column placed nearest slot first. State: layer, step
  and digit of the block; position, columns used, ball in hand, slots. Hard: Nano's session, the
  arm, the turntable and the base take turns, each with its own answer, and a STOP may come
  inside the turn of the turntable. Correct: every ball in its own cell, no turn or shift with the
  arm out, nothing moves after STOP.
* **Ball manifest** (`03_Middleware/ball_manifest`). Which ball is in which slot,
  which cell of the depot it goes to, fallback cells for unreadable cards. Correct:
  no cell is given twice, the plan fits the capacity of each region.
* **Chassis motion service, alignment, routes** (`lhy/02_Service`, `app_route.c`).
  Navigation and velocity commands overwrite one another in a queue of depth one;
  a guard task cancels on an odometry fault. Correct: every waiter is released, a
  cancelled navigation is not taken for an arrival.
* **UART multiplexer** (`mux_service.c` over `mux_bsp.c`). One port, three devices,
  a queue of transfers, a busy bit per device, one deadline per transfer. Correct:
  each submitted transfer is completed exactly once, with a result of its own, and
  its device is free afterwards.
* **Card reader, turntable, arm** (`02_Service`, `03_Middleware`, `04_Bsp` each). A
  protocol core, a service that matches answers to requests, a driver.
* **Wheel motors, gyroscope, line sensors, Bluetooth, OLED, photo gate, kinematics,
  PID, path search, vendor code.** Numerics, decoding and I/O: not modelled; what
  the rest of the program sees of them is a nondeterministic answer.

### 1.3 Interactions

Mission sends the chassis `GO_*`, `CAM_READY`, `STAIR_STOP`, `STAIR_RESUME`, `STOP`
through `cmdQ`; the chassis answers through `evtQ` and raises the EVENT flag. The
multiplexer calls `mission_vision_done` from its worker; the arm service calls
`mission_arm_report` and `mission_arm_tx_done` from its task; the user submits
commands from any task through `mission_app_submit_command`. The chassis task
calls the motion service, whose guard task can end a navigation behind its back.

### 1.4 Hazards

`PROJECT.json` "hazards" names each at its line with the property that watches it.
They fall into five groups: replies and reports that arrive late (vision, arm,
card); the segment handshake of the staircase; STOP inside nested loops; data
shared between priorities (vision buffer, busy mask, navigation flag); and counters
at their limits (balls, slots, cells, request id).

## 2. Plan

| order | module | models | composes | status |
|---|---|---|---|---|
| 1 | `MissionLink` | the two queues and the wake-up flag | - | done |
| 2 | `MissionCore` | context, vision mailbox, arm, fault latch, STOP, main loop | extends 1 | done |
| 3 | `ChassisStairs` | the chassis task on the staircase | extends 1 | done |
| 4 | `StairRun` | the staircase: Mission's handlers and the whole system | 2 + 3 | done |
| 5 | `MissionInv`, `MissionProofs` | what the invariants of all stages say of the Mission task; a lemma per building block | extends 2 | done |
| 5 | `StairRunInv`, `StairRunProofs` | inductive invariant in three layers, theorems | extends 4 + 5 | done, all safety properties |
| 6 | `MuxBus`, `MuxService`, `MuxPromise`, `MuxProofs` | channel switch and directions, transfer queue, busy mask, worker against submitter and interrupts; abstract: a transfer is answered once, in order | - | done |
| 7 | `ChassisService`, `ChassisNav`, `ChassisProofs` | control, odometry and guard tasks, depth-one queue, navigation, halts; properties; theorems | - | done |
| 8 | `BallManifest` | the table of the balls, fallback cells, placed marks | - | done, but for the limits per region |
| 9 | `ChassisDepot` | the chassis task from the depot to the end | extends 1 | done |
| 10 | `DepotRun` | building blocks and placing of the balls: Mission's handlers and the whole system | 2 + 8 + 9 | done, safety |
| 10 | `DepotRunInv`, `DepotProofs` | inductive invariant, theorems about the table and the depot | extends 10 + 5 | done, all safety properties |
| 11 | `ChassisDisc`, `DiscRun` | the small disc: circle in ticks, and the whole system | 1, 2 | done |
| 11 | `DiscRunInv`, `DiscProofs` | inductive invariant, theorems | extends 11 + 5 | done, all safety properties |
| 12 | `BallStore` | card attempts with late answers, records, turntable motions | extends 2 + 8 | done |
| 13 | `ChassisPlatform`, `PlatformRun` | the platform with the store inside, and the whole system | 1 + 12 | done |
| 13 | `PlatformRunInv`, `PlatformProofs` | inductive invariant in three layers, theorems | extends 13 + 5 | done, all safety properties |
| 14 | `ChassisBoot`, `StartRun` | power-up, panel, handshake, departure | 1 + 2 | done |
| 15 | `StartProofs` | theorems of the start | extends 14 | done for the properties listed below |
| - | backup run, arm service, card and turntable cores | | | not modelled, see 6 |

The abstract specification stated is *one answer per transfer* (`MuxPromise`), with its refinement
proved. `RightCell`, `RecordNamesItsBall` and `SlotsAgree` play that part for the balls.

## 3. What is modelled, and how it corresponds to the code

**MissionLink.** `cmdQ`, `evtQ` are the two RTOS queues, `flags` the pending thread
flags. `link_post` is the code's post: appended and flagged, or lost when the wait
runs out; waiting is a stutter.

**MissionCore.** The variables are the fields of `mission_context_t` that the
staircase uses, the snapshot `got` of the flags, and `pc`, the stage of the main
loop: each handler is one atomic step of the Mission task, between two of which
interrupts and other tasks run. The reply of a vision transaction is *two* steps
(`PublishReply`, `ReleaseTransfer`), because `mission_vision_done` writes the reply
and clears `inflight` at different moments of a higher-priority task. A frame is a
name (`tx`), a reply is one of the kinds the handler tells apart (`mail`), and
`scene` stands for the session: 0 is `"NONE"`. `mission_fail`, `enter_state`,
`send_chassis`, `start_arm`, `start_vision`, `stop_vision` are action operators that
determine the whole context, so a handler reads like the C function. `keep` is the
handler that changes nothing but the reply it has taken.

**ChassisStairs.** `cpc` is where the chassis task is: waiting for `GO_STAIRS`, on its
route, at the head of the segment loop (`enter`), in one of the three poll loops
(`ready`, `settle`, `scan`), after the poll in the scan loop (`body`), or past the
sweep (`gone`). `driving` says that a non-zero velocity is commanded; `past` that
the robot has physically left the segment. The velocity itself is left out.

**StairRun.** Mission's branches for the staircase, one action or disjunct per
branch of the C handlers, and the composition: `Mission`, `Chassis` and `World`
(user, multiplexer, arm, floor). The ball store (card, turntable) is one blocking
step, `pc = "storing"`, that succeeds, fails, or drains user commands and gives up;
its inside is the module `BallStore`, which `PlatformRun` runs step by step. `Over` allows stuttering when the
stage has ended, so that deadlock is checked everywhere else.

**MuxBus.** The fields of `mult_uart_bus_t` as a record: what the driver believes
(`state`, `chan`), what is going on (`tx`, `rx`) and what the select pins say
(`wire`, `enabled`). Each function and each interrupt of `mux_bsp.c` is an operator
from one record to the next; `mult_uart_abort` gives the set of its outcomes, as
`HAL_UART_Abort` may refuse. `ABORTING` does not appear: inside the abort every
interrupt returns at once, so the abort is one step.

**MuxService.** `s` is where `mux_submit` is, `w` where the worker is. The worker has
the higher priority, so that Mission only steps while `w = "wait"`; but it may be
preempted between any two of its own steps, and `busy_mask |= bit` is two of them: the
mask is read into `mask` in `Submit` and written back in `Mark` (`ReadMask` and
`Unmark` on the way back). The worker's `mux_process` is atomic except where it matters:
an interrupt may come between the check before a transmission (`CheckTx`) and its
start (`StartTx`), and whatever it did to the state may be overwritten there.
`waiting` is the in-flight mark each client keeps for itself and drops in its callback
(called by `mux_finish`). A submission that is refused because the device is busy changes
nothing and is no step. Payloads, lengths and the tick values are left out; `expired`
says that the deadline has passed.

**MuxPromise.** What the clients rely on: `open`, the transfers that were accepted and
not answered. A transfer is accepted if its device has none open, the answer goes to
the oldest one. `MuxService` implements it with the job in hand followed by the queue.

**ChassisService.** `c` is where the chassis task is inside a call, `g` where the guard is,
and `k` whether the control task has taken its command and waits for the pose lock. The
control and odometry tasks have the higher priority, so a step of the chassis task or of
the guard needs `Below`: the control task sleeps, or it is held up by the lock. Those two
tasks interleave at every access to `g_nav_fin` and the completion flag (`csvc_cancel_nav`
is `Check`, `Write`, `Null` in the chassis task and `GuardCheck`, `GuardWrite`, `GuardNull`
in the guard). The lock is a variable only where the control task can be made to wait for it (by the
chassis task); the other sections under the lock are single steps. A navigation is its mode and
a number (`tag`), the path buffer is the number of the navigation it was planned for, a
position is whether the base has reached the target of a navigation (`near`). `HALT` is
`csvc_free` with no velocity. `served` is not in the code: it says that the control task
has had a cycle since the last post, which is what the 200 ms of `align_stop` (ten periods)
amount to. The properties are in `ChassisNav`.

**BallManifest.** The manifest is a sequence of records; the sequence number of the code is
the index. A cell is `<<row, column>>`, `NoCell` is the code's pair of zeros, and the code's
`ic_code` is left out because appending derives it from the cell. `plan_fallback` is the set
of tables the draw may leave: the code seeds a generator with the clock.

**ChassisDepot.** `cpc` is where the chassis task is: waiting for `GO_DEPOT_1`, on its route,
locating the end of the line, at the command loop (`depot`), in a shift, on its way home,
or in one of the two loops it never leaves (`parked` reads STOP, `end` reads nothing).
`lost` and `missed` are a locate and a shift that a STOP has ended but that have not been
answered yet. `base` is the station the base really stands at, 0 elsewhere, which Mission
only knows as `depot.position`.

**DepotRun.** Mission's branches for the building blocks and the balls, from the queued
`GO_DEPOT_1` to COMPLETE, over `MissionCore` with more context: `block` and `depot` are the
`block_*` and `depot_*` fields of `mission_context_t`, `manifest` the table. A handler of
this stage writes several fields before it may fail, so the operators take the context
written so far as a record `c` (`Ctx` at the start) and the last of them - `enter`, `go`,
`run_arm`, `look`, `fail` - makes it the next one. A turn of the turntable blocks the main
loop (`pc = "turning"`): it ends, fails, or sees a STOP. `held` is the block in the gripper
and `seen` the digit in the reply; `Signs` are the digits that hang at the stations, and a
digit may be read wrongly `Misreads` times. `block` is reset when the balls are prepared,
as nothing reads it any more. The turntable's fine adjustment against the photo gate is
left out: a finished turn has brought the slot it was asked for, which is also what the
code assumes when the gate never confirms it.

**MCDepotRun.** The instance: the digits per side, the cards of the balls per side, and
the view of resting states explained there.

**ChassisDisc.** `cpc` walks from the route and the line at the disc (`find`, `close`, `settle`) through
`small_disc_round`: the arc, which `paused` interrupts, the halt at its end (`leave`), the turn
and the exit. `elapsed` counts the driven time in ticks
of a poll, `ArcTicks` is the circle; a poll that handles `SMALL_DISC_STOP` takes `HaltTicks` longer.
A poll that began while driving is counted whole, as `was_paused` is read before it.

**DiscRun.** Mission's branches for the small disc, as `StairRun` does for the staircase.

**BallStore.** `step` is where `mission_store_ball` stands; every transaction with the reader or
the motor, and every wait, is a step. The reader is a record: a read is `active` until the
multiplexer ends it, and its callback is a step of its own (`calling`), because the service is
free before the callback runs and a new read may be submitted in between. What a read finds is
the card under the arm when it began or when it ends, or an error. `pos`, `loaded` and `late`
are the world: the slot really under the arm, the ball in each slot, and whether an answer
came after its wait ran out. A motion the program gives up may end all the same.

**ChassisPlatform, PlatformRun.** The chassis drives to the platform, announces itself and waits.
Mission's branches for the platform, with the steps of `BallStore` while `pc = "storing"`.
`ArmNoise` is the report of the arm that belongs to no running group: at any moment it takes
`armHome` back and may raise the failure flag.

**ChassisBoot, StartRun.** The chassis from power-up to departure, and Mission's panel
(`mission_start_panel` runs twice in a turn of the loop), gate (`mission_try_ready`) and departure
delay. A sample of the panel is *bouncing* or *settled*; what the user does between two samples
makes no difference, so that `UseKeys` happens at the one place where the loop waits. `early`
records that KEY1 went down before the robot was ready. The vision mailbox only carries model
queries here: `query` is the query and its reply. `OfferAgain` repeats the handshake only while
Mission waits, as a second is much longer than a turn of its loop.

**MCPlatformRun, MCStartRun.** The instances, with the views of resting states explained there.

Which lines each definition stands for is in `PROJECT.json` "map".

## 4. Runs

All run the code's own sizes where they matter: queues of eight, four user commands,
two balls per staircase, 16-bit ids starting at 65534 so that the wrap happens.

| run | asks | environment |
|---|---|---|
| `StartSafe` | safety of the start, `StartLeadsOn` | any of the runs the user may choose; KEY1 and switches at any moment; one STOP; devices, map and arm line may fail |
| `PlatformSafe` | safety of the platform and of the store, `PlatformEnds` | late, wrong and missing card answers; motions obeyed but not confirmed; garbled frames of the arm; one STOP, also inside the store |
| `StairSafe` | safety of the staircase | blue side; one STOP; every device and sensor may fail; any stage may time out |
| `StairEnds` | `StairsCompleted`, `RestParksBase` | red side; one STOP and timeouts at any moment, nothing fails |
| `DiscSafe` | safety of the small disc, `RoundEnds` | balls at any moment of the circle; one STOP; devices and sensors may fail |
| `DiscPauseLost` | `PauseKeepsTheRound` (violated) | nothing fails, no STOP |
| `DepotSafe` | safety of the depot, from arrival to home | both sides; one STOP; one misread digit; every device and sensor may fail; any stage may time out |
| `MuxSafe` | safety of the multiplexer, `PromiseSafe`, `PromiseKept` | three devices submitting at once into a queue of one; the HAL may refuse anything; interrupts and deadlines at any moment |
| `MuxBusyStuck` | `BusyOnlyWhileOpen` (violated) | two devices in flight |
| `NavSafe` | safety of the motion service, `InFlightEnds` | two navigations and any other movement; the odometry may fail at any moment; a wait may be aborted |
| `NavFaultArrives` | `FinishedMeansArrived` (violated) | as `NavSafe`, no aborted waits |
| `NavFaultHangs` | `WaiterWakes` (violated) | the same, with fairness |

*The properties.* `ArmMovesOnlyWhenParked` relates the arm, commanded by Mission, to
the velocity, commanded by the chassis task: it rests on the pause handshake and the
vision confirmation in either order. `NoBlindSweep` says that a base sweeping along
a step is watched by a vision session *for that step*; `GraspFitsLayer` that the arm
grasps at the height of the step where the ball was seen, although the base may have
announced the next one. `BallLimitKept` covers the three places where a session is
opened. `MailboxSafe` is the buffer protocol. `RestParksBase` says that whatever ended the
run, the base is parked for good. `NoReleaseAfterStop` constrains steps: whatever arrives late, Mission only sends STOP.

Of the depot, `RightCell` is the purpose of the stage: when a placing group runs, the ball in
front of the arm (by slot), the column the base stands at (by its sign) and the row of the
group are the cell of that ball, and the cell is empty; it rests on the two agreeing
sessions, the set of columns used, the draw of cells, the choice of the nearest slot and the
shift protocol. `AllPlacedAtComplete` is its counterpart: nothing that could be placed is
left at the end. `LooksAtTheRightPlace` compares Mission's idea of the position with the real
one, `TurnClearOfArm` the turntable with the arm; `PlacesOnlyWhatItHolds` compares the
gripper with the digit that stands for it, over layers with and without a block.

Of the start, `PressIsFresh` and `ChoiceHolds` say what a press of KEY1 means to the base:
one that began when the robot was ready, for the side and run the base then prepares.
`DepartsOnlyReady` looks at the step that sends `GO_PLATFORM`, a second after everything
was checked: all of it must hold still. `StartLeadsOn` is the liveness of the handshake.

Of the platform, `SlotsAgree` relates four counts of the same balls (records, slots used, the
slot the program believes in, the slot under the arm) over failed and half-obeyed turns;
`RecordNamesItsBall` relates a record to the ball that really lies in its slot, and fails only
by an answer of the card reader that comes too late (see below); `TurnClearOfArm` and
`LeavesTidy` are about arm, turntable, session and base. `LeavesTidy` speaks of the last group the
arm was given and not of `armHome`, which a garbled frame may clear between the last store and
the departure.

Of the small disc, `NoBlindRound` says that a base that circles is watched while balls are
wanted, over every order of ball, pause and resume. `ArmMovesOnlyWhenParked` has the exception
the finding `DiscPauseLost` describes. `RoundEnds` names the one wait only a deadline ends.

Of the multiplexer, `WiredToItsDevice` relates the interrupts, the cached channel and
the job in hand: the bytes that run belong to the device that is wired through.
`PromiseSafe` is the refinement of `MuxPromise`: whatever the two tasks do to the busy mask, a
device never has two transfers open and answers come in order. `BusyOnlyWhileOpen` is the other
direction of the mask, which a lost update breaks. `NoneStranded` says that a client's own mark
and its transfer end together, also when the queue had no room.

Of the motion service, `NavNotLost` says that the queue that is emptied and filled in two
steps never loses a navigation somebody waits for; `ArrivalIsReal` that the one completion
flag all navigations share is raised by the right one; `FollowsOwnPath` that the path
buffer, written without the lock, is never read in the meantime; `ParkedAfterFault` that
nothing undoes the halt of the guard. They hold because every movement ends with `align_stop` and its wait, which is
a rule the callers keep and nothing enforces: without the wait (`SettleNot`) they fail.
`InFlightEnds`: what was under way before a fault ends, one way or another.

*The bounds.* `EndHighN = 2` of the code's debounce count keeps the difference between
one and several samples. One user STOP: a second one meets the same states, with
`STOPPING` added. Three segments, two balls and the queue of eight are the code's.
`BallLimit = 2` is `MISSION_STAIR_BALL_LIMIT`. The blue side in `StairSafe` is the one
with the permuted layers and the other grasp group; the red one runs in `StairEnds`.
For the multiplexer the three devices of the firmware sit on channels 0 to 2. The queue
has one place in the runs: with the code's four (`MUX_QUEUE_DEPTH`) and one open transfer per
device a submission is never refused for room, with one place it is, so that the way back
is taken; the theorems hold for every depth. `IdMax = 3` lets the id wrap all the time.

For the start (`StartSafe`) queues of two are filled by repeated offers and by STOP. `Settings`
are the four runs the user may choose with KEY1 down, and KEY1 up. For the platform
(`PlatformSafe`) two attempts per card and two grasps for one ball let the stage end with a stored
ball or with its last attempt, which the code's numbers (five balls, five attempts) never tell
apart; one fine step separates the first motion from a repeated one. For the small disc
three ticks of arc and two of halt let a pause end the circle or not.

For the depot (`DepotSafe`) the red side has the table full (`BALL_MANIFEST_CAPACITY`) with
an unread ball, a ball for the column of the blocks, and two cells left to draw from, so that
the draw has a choice and one wrong choice; the blue side has two cards with one cell.
`IdMax = 3` lets the id wrap: Mission sends the next command only after the answer to the
last, or STOP, so that ids under way at once are consecutive. One misread digit is what two
agreeing sessions are meant to catch (the same misreading twice is beyond them), and
`Lookalikes` lets it be a column that is still to come as well as one that is done. A state
in which the robot rests and no action group runs is viewed without balls, blocks and
digits, which nothing reads any more. A frame of the arm that makes no sense may take `armHome` back at
any moment. In `PlatformRun` and `StartRun` it does (`ArmNoise`); `DepotRun` lets it happen just before
a handler that reads the flag; the staircase and the small disc never read it, and it is left out.

For the motion service two navigations are enough for one to meet what another left
behind (the violations need no more); `FailMax = 2` separates a first timeout from the one
that reports.

*Fairness* (`FairSpec`). Weak fairness of the Mission task and of the chassis task:
both are woken by their queues and flags and nothing of higher priority runs for
ever. Weak fairness of replies and arm completions: the multiplexer ends every
transaction by its deadline and the arm reports or the stage times out. Weak
fairness of `Advance`: a base driven along the step gets past its end. No fairness is
assumed of Nano seeing a ball, of failures, of a STOP, or of timeouts. For the multiplexer
(`MuxService!FairSpec`): weak fairness of the worker, which polls every tick with the
higher priority; of `Expire`, as time passes; and of the steps of a submission that has
begun. Interrupts have none: `PromiseKept` holds although a device never answers.
For the motion service (`ChassisService!FairSpec`): weak fairness of the periodic control
task; strong fairness of the guard and of the calls of the chassis task, which the control
task preempts again and again but only for some 70 microseconds of every 20 ms; and of
`Reach`, as a base that is driven to its target gets there.

The stages `PlatformRun` and `DiscRun` take the same fairness, with the card reader and the motor
among the devices. In `StartRun` the deadlines and the second before departure are strongly
fair, in `PlatformRun` the pause before a search (`SettleOver`): they are looked at in every turn
of the loop and one of the looks finds them over, however often a garbled frame wakes the loop.

*Deadlock* is not checked in the runs of the multiplexer:
after lost updates of the mask every device may be refused for ever, which is the
finding of `MuxBusyStuck`. In the others the system always has a step.

*Findings.* `MuxBusyStuck`: the busy mask is updated without protection, so that a device may
stay busy with no transfer open, against the header's word. `NavFaultArrives`,
`NavFaultHangs`: when the odometry is lost, the guard ends the navigation
under way with the value that means arrival, and every later navigation waits for ever.
`DiscPauseLost`: a ball seen in the last moments of the circle: the halt is counted as
driving, the circle ends in its pause, and the base backs away under the grasping arm.
`PROJECT.json` "findings" quotes the lines.

Seen while modelling, without a run of their own:

* *STOP.* A user STOP while a ball is stored ends as `FAULT_STORAGE`, because the callers of
  `mission_store_ball` take the `false` for a failure (the depot guards the same case), although
  `mission_app.c:2192` says STOP is effective at all times. The first fault code is not latched
  across a STOP (`mission_fail`, against its comment). A STOP before a colour is chosen, during a
  route, or after the run home is not answered, so that Mission goes from STOPPING to FAULT by
  its deadline.
* *Start.* One broken frame on the arm's line before KEY1 clears `arm_home_ready`, and nothing
  homes the arm again: the start is blocked until a reset.
* *Platform.* `mission_ic_done` does not look at the request: a card answer that comes after its
  wait ran out is taken for the next attempt's, or, after the last attempt, for the next ball's,
  which then carries the wrong cell (`late` in `RecordNamesItsBall`). As `BALL_COUNT` equals
  `MAX_ATTEMPTS` the return from group 10 is reached only with other numbers, as in
  `PlatformSafe`, and the departure pose only if a garbled frame has cleared `arm_home_ready` after
  group 10: then the last store homes the arm again. A frame that comes in the departure pose,
  or with GO_STAIRS queued, lets the base leave with the flag FALSE; nothing reads it before the
  depot. In the backup run, which is not modelled, `mission_finish_platform` does look at
  the flag, and such a frame ends the run in FAULT.
* *Small disc.* A ball seen while the base leaves the disc makes `small_disc_exit` fail: the run
  ends in FAULT. One seen after its last poll sends a `SMALL_DISC_STOP` that the next wait drops,
  and Mission waits for its deadline (`PauseUnanswered`).
* *Depot.* After a failed route to the depot the base drives home although Mission is in FAULT,
  which the comment there intends; `MISSION_STATE_DEPOT_DWELL` is never entered; placing a ball,
  unlike moving a block, does not consume the finished arm group, so that a controller repeating
  its report of group 10 during a turn would be believed for the pick.
* *Motion service.* The one stop the guard sends may be refused and is not repeated: with
  `SendFaults` a wheel keeps turning after the latch, against `chassis_service.c:9` and `:278`.
  The fault comes after a hundred timeouts where the comments say ten.
* *Multiplexer.* After one refused abort the bus stays in error and nothing aborts it again.

## 5. Proofs

`StairRunProofs` proves, for every value of the constants (queue depth, ids, user
commands, STOPs, ball limit, side, debounce, faults allowed or not):

* `InductiveInvariant`: `Spec => []Inductive`
* `TypeCorrect`: `Spec => []TypeOK`
* `MailboxIsSafe`: `Spec => []MailboxSafe`
* `NothingReleased`: `Spec => NoReleaseAfterStop`
* `LimitRespected`: `Spec => []BallLimitKept`
* `TasksMeet`: `Spec => [](Inductive /\ LimitFollowed /\ MeetInv)`
* `ArmParked`: `Spec => []ArmMovesOnlyWhenParked`
* `NeverBlind`: `Spec => []NoBlindSweep`
* `GraspRight`: `Spec => []GraspFitsLayer`

from the assumptions the modules state on their constants. `Inductive` (`StairRunInv`, with
the parts that are about the Mission task alone in `MissionInv`) consists of named parts:

* `SafeRecord`: the mailbox protocol; `MailboxSafe` with the two facts it needs, that a
  session that is open has a scene (or a stop request would be dropped) and that
  `tx` and `io` agree while a frame is sent.
* `DoneMeansAnswered`: the VISION_DONE flag, pending or in the snapshot, means that the
  reply is there and the worker is done with the transfer. Without it a handler could
  submit a frame while the old one is in flight. It is the part that ties the two
  steps of the worker to the snapshot semantics of the main loop.
* `StopNoted`: at rest an opening session has its stop noted, so a late READY cannot
  reach the branch that releases the base. This is why nothing is released.
* `LayerKnown`, `StoringState`: whenever Mission opens a session it knows the layer, so
  that a scene is never empty.
* `QueueTyped`, `LegInRange`: typing of the commands and of the segment counter.

The proof has a lemma per building block of `MissionCore` (what it does to the record
and to the queue), one per group of actions, and one step per branch of a handler
(`ChassisEventSafe`, `ArmSteps`, `VisionSteps`). The lemmas on the building blocks take the
states of the stage as a parameter and are a module of their own, `MissionProofs`, which the
proofs of the platform use as well; `DoneKept` is the one that carries `DoneMeansAnswered`
over any handler.

`LimitRespected` needs a second part, `LimitFollowed`, inductive on top of `Inductive`: the
limit is only looked at when a session opens, so it says what follows from an open session up
to the storing, and that no session is open while the arm works, so that no late reply can
start over in the middle of a grasp.

The last three properties relate what the arm or the camera does to where the base is, and the
two tasks know of each other only by queues and flags. They need a third layer, `MeetInv`,
inductive on top of the two:

* `BaseFits`: where the base stands, in terms of the chassis task's own variables.
* `SessionFits`, `StopPending`: what the vision session may be in each state of Mission; a
  stop that waits has a transaction to wait for.
* `Rendezvous`: which commands and reports may be under way and where the base may be, in each
  state of Mission. It has three cases, on the way up (`Climbing`), in a state where the run
  rests (`Resting`) and behind the last segment (`Leaving`). An announcement may be unread,
  read or lost (`News`), so Mission may know of the segment before (`Seen`).
* `ArmFits`: on the way up the arm moves in its three states only, and its success is reported
  once, when it has come to rest; so a report is never taken for that of a later group.

On the chassis side there is a lemma per step of its task, and two (`RestKept`, `GoneKept`) for
the cases in which Mission rests or the base is gone. On the Mission side `SameMeets`,
`FallMeets` and `GoMeets` are the three ways a handler keeps the layer: it stays in its state, it
falls into one in which the run rests, or it goes on; each branch of a handler is one of them.

`MuxProofs` proves, for every set of devices on the four channels, every queue depth and
every width of the id, with overlapping transfers and refused aborts or without:

* `MuxInvariant`: `Spec => []MuxInductive`
* `NoCrossTalk`: `Spec => []WiredToItsDevice`
* `MaskNeverTooSmall`: `Spec => []BusyCoversOpen`
* `NobodyStranded`: `Spec => []NoneStranded`
* `PromiseImplemented`: `Spec => PromiseSafe`, the safety part of the refinement

`MuxInductive` has the types and two named parts. `Covered` explains
the mask: Mission's copy of it never misses an open device, because only the worker's
answers happen behind its back and they take bits away; and the device being submitted
has none open. `Wired` explains the bus: a direction that runs is one the job needs and
has not finished, and a cached channel is the one the pins say. The operators `Kept`,
`Accepted` and `Answered` state once what the three kinds of steps do to `Open`, and are
used both for the invariant and for the refinement.

`ChassisProofs` proves, for every number of navigations and every fault threshold, with
faults and aborted waits or without:

* `NavInvariant`: `Spec => []NavInductive`
* `NavigationNotLost`: `Spec => []NavNotLost`
* `ArrivalMeansTarget`: `Spec => []ArrivalIsReal`
* `OwnPathFollowed`: `Spec => []FollowsOwnPath`
* `ParkIsFinal`: `Spec => []ParkedAfterFault`, if no wheel command is refused
* `StopIsDone`: `Spec => []StandsWhenIdle`, if no wheel command is refused

`NavInductive` (`ChassisNav`) follows the command: `PostedIsRun` says
that what was posted is in the queue until the control task takes it and is what it repeats
from then on; `AtRest` that whoever is about to navigate does so with an empty queue and a
command that touches neither path nor flag, which is the heart of it; `FlagFits` and
`PathFits` say what the flag and the path buffer hold at each place of a navigation. All
three are about the time before a fault; `Parked` is about the time after it. There is one
lemma per group of actions and one step per action.

`DepotProofs` proves every safety property of the building blocks and of the placing of the
balls. About the table alone, for every table of at most nine balls as the code builds them
(`Table`):

* `CellsAlwaysSuffice`: the draw before placing never runs out of cells. Each taken cell is
  the target of a record that needs no draw, so that at most as many cells are taken as there
  are such records, and there are nine cells for nine records (`BALL_MANIFEST_CAPACITY`).
* `SomePlan`: hence some plan exists, and `mission_depot_prepare` goes on.
* `PlanGivesOwnCells`: every plan leaves a `Table` with nothing to draw; cells drawn differ
  and are named by no card.

About `DepotRun`, for every start and table (`Loads`), sign (`Signs`), set of digits that can be
confused, side, queue depth and number of STOPs, misreads and faults:

* `DepotIsConsistent`: `Spec => []DepotInv`
* `DepotTypes`: `Spec => []TypeOK`
* `ArmWaitsForTheBase`: `Spec => []ArmMovesOnlyWhenParked`
* `TurntableWaitsForTheArm`: `Spec => []TurnClearOfArm`
* `DigitsAreReadInPlace`: `Spec => []LooksAtTheRightPlace`
* `BallsGoToTheirCells`: `Spec => [](misread <= 1 => RightCell)`, and with it
  `OneMisreadIsHarmless`: `Spec => []RightCell`, if `Misreads <= 1`
* `GripperIsKnown`: `Spec => []PlacesOnlyWhatItHolds`
* `CompleteMeansPlaced`: `Spec => []AllPlacedAtComplete`
* `StoppedDepotStaysStopped`: `Spec => NoReleaseAfterStop`

The bound on `misread` is what the code can promise: it asks for a second reading of each sign
and takes two equal ones for the digit, so that one wrong reading is found out and two equal
wrong ones are believed. `DepotSafe` allows one. The invariant (`DepotRunInv`) has one layer, as
its parts lean on each other:

* `BaseFits`: a state that waits for the base has one command or one answer under way, or the
  base is about to give it (`Waiting`); in every other state the base stands where
  `depot.position` says (`Standing`). After a rest nothing but STOP is sent, so an arm that
  still moves does so over a standing base.
* `ArmFits`: a group and its success are never out together with a second one, and while the
  run goes on they are the ones the state waits for (`GroupsOf`), so that a late report cannot
  open the gripper or let a ball go.
* `HeldFits`, `BlockFits`: the digit of the layer says whether a block is in the gripper, and
  where the base is sent with it.
* `SessionFits`, `StoppingFits`: a session is open only in the two states that look, for the
  scene they look for. It makes `LooksAtTheRightPlace` inductive.
* `DigitsFit`: of the first reading and the one the session shows, none is wrong before the
  first misread and at most one after it. With it the column taken is that of the sign.
* `Table`, `InSlotOrder`, `BallsFit`: before the draw nothing is planned; after it the balls
  to be placed have a cell of their own (`Planned`), those of finished columns are placed and
  those of the others not (`PlacedFits`), one new column is known per station (`StationsFit`),
  and the ball being fetched belongs to the column at which the base stands (`BallFits`). At
  COMPLETE all three columns are finished, which is `AllPlacedAtComplete`.

A lemma per building block of the handlers (`SeekKeeps`, `NextBallKeeps`, `StartLayerKeeps`, ...)
carries the parts about the contexts; base and camera answers, arm reports, deadlines and the
steps of the chassis task each are a lemma on top, and `NextKeeps` joins them.

`DiscProofs` proves every safety property of the small disc, for all queue depths (one included),
ids, numbers of balls wanted, lengths of the circle and of a halt, and numbers of STOPs, with
failing devices, sensors and deadlines or without:

* `DiscIsConsistent`: `Spec => []DiscInv`
* `DiscTypes`: `Spec => []TypeOK`
* `ArmClear`: `Spec => []ArmMovesOnlyWhenParked`
* `NeverBlind`: `Spec => []NoBlindRound`

Here a ball, a pause and the end of the circle may meet in any order, and each task knows of the
other only by the two queues. The invariant (`DiscRunInv`) says what they may know:

* `ControlInv`: the types, and the mailbox protocol as on the staircase; `StoreInHandler` says at
  which places of the store the run may have been stopped.
* `BaseFits`: where the base stands still, and that a paused base moves only if the pause was
  counted into the end of the circle, which is the exception of `ArmMovesOnlyWhenParked`.
* `MeetFits`: for each state of a run that goes on, which commands and events are under way and
  where the base is (`Rendezvous`). `Pausing` and `Resuming` are the hard ones: the command may be
  unread, dropped by a base that has already left the disc or never sent because the queue was
  full, and the answer may be followed by the end of the circle or be lost. Where the run rests
  and the arm still moves, nothing but STOP is under way.
* `SessionFits`: where the vision session may be in each state, given the balls that are still
  wanted (`PhasesOf`). The count belongs to it: the base resumes without a session only after
  the last ball, which makes `NoBlindRound` inductive.
* `ArmFits`: a group of the arm and its success are never out together, and only in the states
  that wait for them.

On the Mission side `HandlerDone` puts the parts together for any handler; `KeepMeets`, `RestMeets`
and `GoMeets` are the three ways a handler keeps them: it stays, it comes to rest, or it goes on.
On the chassis side there is a lemma per situation (`ArrivingKept`, `CirclingKept`, `PausingKept`,
...) and `ParkedKept` for a run that rests.

`StartProofs` proves, for all queue depths, numbers of STOPs and sets of panel settings, with
failing devices and sensors or without:

* `StartInvariant`: `Spec => []StartInductive`
* `TypeCorrect`: `Spec => []TypeOK`
* `FreshPressStarts`: `Spec => []PressIsFresh`
* `ChoiceIsDriven`: `Spec => []ChoiceHolds`
* `DepartsReady`: `Spec => DepartsOnlyReady`

`StartInductive` adds to the types and `PressIsFresh` what ties the panel to the gate.
`HomeAtRest` and `ModelSettled` say that what is ready stays so, but for the arm's home, which
once lost is lost for good. `ArmedOnce` follows: what an armed panel still lacks can only be
what has been lost. `FreshPress` is the heart: a press that began too early finds the panel
disarmed, or armed for a robot that will never be ready again. `OneChoice` and `SideLoaded` say
that side and run are written once, together, before the chassis reads them; `GoMeansDeparted`
that GO_PLATFORM is in the queue only after departure. `Handled` states once what all handlers
of the Mission task leave alone, and `HandlerStep` that this is enough; each building block of
`MissionCore` and each action then has its lemma.

`PlatformProofs` proves every safety property of the platform and of the ball store inside it, for all depths, numbers of STOPs, balls, attempts, retries, fine steps
and cards, with late answers, failing devices and deadlines or without:

* `ControlInvariant`: `Spec => []ControlInv`
* `NothingReleased`: `Spec => NoReleaseAfterStop`
* `BooksAgree`: `Spec => []SlotsAgree`
* `MachineInvariant`: `Spec => []MachineInv`
* `PlatformTyped`: `Spec => []TypeOK`
* `TurntableClear`: `Spec => []TurnClearOfArm`
* `DepartureTidy`: `Spec => []LeavesTidy`
* `CardsMatch`: `Spec => []RecordNamesItsBall`

The assumptions that matter are that a region holds no more than the table
(`RegionLimit <= Capacity`: the turntable never comes round to a slot in use) and that there is
a card for every attempt. The invariant (`PlatformRunInv`) has three layers, each inductive given
the ones before.

* `ControlInv` is the program's own view. Besides the parts the staircase has (`SafeRecord`,
  `StopNoted`, `DoneMeansAnswered`), `StoreInHandler` says at which places of the store the run
  may have been stopped; `BooksInOrder` that there is a record more than slots used exactly
  while one is turned away; `TurnInStep` follows the motor from motion to motion: the slot under
  the arm is the old one until the coarse turn has ended and the next one from then on, however
  many fine steps follow.
* `MachineInv` is about what is under way elsewhere. `ArmAccounted` says that a group and its
  report are never out together with a second one, and while the run goes on are the ones its
  state waits for, and that "home" is believed only after group 10: this is what no late or
  garbled report can break. `SessionFits` and `BaseAccounted` do
  the same for the vision session and for the base with both queues; `SlotsAhead` keeps the
  slots from the current one on empty. The lemmas `RestingKeeps`, `CalmKeeps` and `GoesOnKeeps`
  are the three ways a step can keep the layer, and each action is shown to be one of them.
* `CardInv` is about the reader. As long as no answer came late, `OneAnswer` holds: an answer
  under way, or waiting to be taken, belongs to the wait in progress and to the ball in front
  of the reader. The exception in `RecordNamesItsBall` is therefore the only one.

Only model-checked: the liveness properties, which the proof system does not handle. Every
safety property of a passing run is stated by a theorem (`RightCell` for at most one misread,
`ParkedAfterFault` if no wheel command is refused). The strengthenings themselves were
checked by TLC on the instances of `StairSafe`, `MuxSafe`, `NavSafe`, `PlatformSafe`, `DepotSafe`
and `DiscSafe` before they were proved; the runs no longer repeat them.

## 6. Not modelled

Wire formats, float numerics, UI and wireless test modes (compiled out of the formal
firmware), vendor code. Time is abstract: a deadline may pass in any state that has
one. The start commands of `mission_handle_command` are commented out in the source
and are not modelled; nothing in the formal firmware submits STOP, so the user's STOP
is an environment action through the function the header offers for it.
`PROJECT.json` "components" gives the reason for each part left out.

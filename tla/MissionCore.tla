---------------------------- MODULE MissionCore ----------------------------
(***************************************************************************)
(* What every stage of the Mission task (mission_app.c) is built from: its *)
(* context, the single-buffer vision mailbox shared with the UART          *)
(* multiplexer, the robot arm, user STOP, the fault latch and the main     *)
(* loop.  The stages (StairRun, DiscRun, ...) extend it.                   *)
(***************************************************************************)
EXTENDS MissionLink

CONSTANTS
    IdMax,         \* largest request id (65535: the field has 16 bits)
    CommandDepth,  \* MISSION_COMMAND_QUEUE_DEPTH
    StopBudget,    \* bound: how many STOPs the user submits
    DeviceFaults,  \* may the arm, the bus and the sensors fail?
    Expiry         \* may a stage outlast MISSION_OPERATION_TIMEOUT_MS?

ASSUME IdMaxAssumption == IdMax \in Nat \ {0, 1}
ASSUME BudgetAssumption == CommandDepth \in Nat /\ StopBudget \in Nat
ASSUME EnvironmentAssumption == {DeviceFaults, Expiry} \subseteq BOOLEAN

VARIABLES
    state,      \* ctx->state
    fault,      \* ctx->fault_code
    requestId,  \* ctx->request_id
    activeArm,  \* ctx->active_arm_group
    armHome,    \* ctx->arm_home_ready
    vis,        \* ctx->vision, see VisionType
    arm,        \* the group the arm controller is executing, 0 if none
    userQ,      \* STOPs waiting in ctx->command_queue
    stops,      \* STOPs submitted so far
    got,        \* flags this turn of the main loop woke up with
    pc          \* the stage of the main loop

\* What a handler of the Mission task may change.
ctxVars == <<state, fault, requestId, activeArm, armHome, vis, arm, cmdQ>>
loopVars == <<userQ, stops, got, pc>>

Phases == {"IDLE", "STARTING", "LISTENING", "ACKING", "STOPPING"}
Frames == {"none", "START", "STOP", "ACK"}
Mails == {"none", "READY", "STOPPED", "SENT", "EVENT", "REJECT",
          "TIMEOUT", "ERROR", "BAD"}
Scenes == {"NONE", "PLATFORM", "LOW", "HIGH", "MID", "SMALL_DISC",
           "DEPOT_DIGIT", "BLOCK_DIGIT"}

(***************************************************************************)
(* ctx->vision: one transmit buffer tx and one reply mailbox for all       *)
(* transactions.  scene = "NONE" stands for session_id = 0.  io is the     *)
(* transaction the multiplexer holds while inflight.                       *)
(***************************************************************************)
VisionType ==
    [phase : Phases, scene : Scenes, stopReq : BOOLEAN, inflight : BOOLEAN,
     pending : BOOLEAN, tx : Frames, io : Frames \cup {"READ"}, mail : Mails]

IdleVision ==
    [phase |-> "IDLE", scene |-> "NONE", stopReq |-> FALSE,
     inflight |-> FALSE, pending |-> FALSE, tx |-> "none", io |-> "none",
     mail |-> "none"]

Faults == {"NONE", "ARM", "VISION", "STORAGE", "CHASSIS", "TIMEOUT",
           "QUEUE", "PROTOCOL"}
Groups == {10, 11, 12, 13, 14, 15, 16, 18, 19, 20, 22, 23, 25, 26, 28, 29, 30,
           31, 32, 33, 34, 35, 36, 37}
RestStates == {"STOPPING", "STOPPED", "FAULT"}
LoopStages == {"wait", "commands", "events", "arm", "vision", "process",
               "timeout", "storing", "storeStopped", "turning"}

CoreTypeOK ==
    /\ fault \in Faults
    /\ requestId \in 1..IdMax
    /\ activeArm \in Groups \cup {0}
    /\ armHome \in BOOLEAN
    /\ vis \in VisionType
    /\ arm \in Groups \cup {0}
    /\ userQ \in 0..CommandDepth
    /\ stops \in 0..StopBudget
    /\ got \subseteq FlagNames
    /\ flags \subseteq FlagNames
    /\ pc \in LoopStages

-----------------------------------------------------------------------------
(* The vision mailbox.                                                     *)

\* Mutant: the 16-bit id runs over.
next_id_unbounded(id) == id + 1

\* mission_next_request_id: wraps and skips the reserved value 0.
mission_next_request_id(id) == IF id = IdMax THEN 1 ELSE id + 1

Busy(v) == v.inflight \/ v.pending

\* The answers mission_submit_vision_transfer can give.
submit_results(v) ==
    {ok \in BOOLEAN : IF ok THEN ~Busy(v) ELSE Busy(v) \/ DeviceFaults}

\* The frame is built in tx before the transfer is submitted.
framed(v, op) == IF op = "READ" THEN v ELSE [v EXCEPT !.tx = op]
mission_submit_vision_transfer(v, op, ok) ==
    IF ok THEN [framed(v, op) EXCEPT !.inflight = TRUE, !.io = op]
          ELSE framed(v, op)

mission_reset_vision(v) ==
    [v EXCEPT !.phase = "IDLE", !.scene = "NONE", !.stopReq = FALSE]

\* Mutant: the stop is framed although the buffer is still being sent.
stop_vision_at_once(v) ==
    IF v.phase = "IDLE" \/ v.scene = "NONE"
    THEN {[vis |-> v, ok |-> TRUE]}
    ELSE LET w == [v EXCEPT !.stopReq = FALSE, !.phase = "STOPPING"]
         IN {[vis |-> mission_submit_vision_transfer(w, "STOP", ok),
              ok |-> ok] : ok \in submit_results(v)}

\* mission_stop_vision: every outcome, with its return value.
mission_stop_vision(v) ==
    IF v.phase = "IDLE" \/ v.scene = "NONE"
    THEN {[vis |-> v, ok |-> TRUE]}
    ELSE IF Busy(v)
    THEN {[vis |-> [v EXCEPT !.stopReq = TRUE], ok |-> TRUE]}
    ELSE LET w == [v EXCEPT !.stopReq = FALSE, !.phase = "STOPPING"]
         IN {[vis |-> mission_submit_vision_transfer(w, "STOP", ok),
              ok |-> ok] : ok \in submit_results(v)}

-----------------------------------------------------------------------------
(* Actions the handlers are made of.  Each determines all of ctxVars.      *)

\* The part of the context a handler may have changed before it fails.
Now == [vis |-> vis, id |-> requestId, active |-> activeArm]
With(v) == [Now EXCEPT !.vis = v]

BlockStates ==
    {"BLOCK_WAIT_DIGIT", "BLOCK_PREPARE", "BLOCK_WAIT_POSE",
     "BLOCK_WAIT_GRASP", "BLOCK_WAIT_PLACE", "BLOCK_WAIT_POSITION",
     "BLOCK_WAIT_D4", "BLOCK_RETURN_DEPOT", "BLOCK_SETTLE", "BLOCK_FINISH",
     "BLOCK_WAIT_HOME"}

\* While a block is held a failure stops the arm where it is.
halt_block_arm(w) ==
    IF state \in BlockStates THEN activeArm' = 0 /\ arm' = 0
                             ELSE activeArm' = w.active /\ arm' = arm

(***************************************************************************)
(* mission_fail: latch the fault, close the vision session, ask the        *)
(* chassis to stop (a full queue loses that request) and rest in FAULT.    *)
(***************************************************************************)
mission_fail(w, f) ==
    \/ /\ state \in {"FAULT", "STOPPED"}
       /\ vis' = w.vis
       /\ requestId' = w.id
       /\ activeArm' = w.active
       /\ UNCHANGED <<state, fault, armHome, arm, cmdQ>>
    \/ /\ state \notin {"FAULT", "STOPPED"}
       /\ fault' = f
       /\ armHome' = FALSE
       /\ halt_block_arm(w)
       /\ \E r \in mission_stop_vision(w.vis) : vis' = r.vis
       /\ requestId' = mission_next_request_id(w.id)
       /\ cmdQ' = IF CommandRoom THEN Sent("STOP", requestId') ELSE cmdQ
       /\ state' = "FAULT"

\* mission_enter_state, with the vision record the handler leaves.
enter_state(v, s) ==
    /\ state' = s
    /\ vis' = v
    /\ UNCHANGED <<fault, requestId, activeArm, armHome, arm, cmdQ>>

keep(v) == enter_state(v, state)

\* A command of the current stage, then the state that awaits its answer.
send_chassis(v, type, s) ==
    \/ /\ CommandRoom
       /\ cmdQ' = Sent(type, requestId)
       /\ state' = s
       /\ vis' = v
       /\ UNCHANGED <<fault, requestId, activeArm, armHome, arm>>
    \/ ~CommandRoom /\ mission_fail(With(v), "QUEUE")

\* A command that opens a new stage carries a new request id.
send_new_stage(v, type, s) ==
    LET id == mission_next_request_id(requestId) IN
    \/ /\ CommandRoom
       /\ cmdQ' = Sent(type, id)
       /\ requestId' = id
       /\ state' = s
       /\ vis' = v
       /\ UNCHANGED <<fault, activeArm, armHome, arm>>
    \/ ~CommandRoom /\ mission_fail([With(v) EXCEPT !.id = id], "QUEUE")

\* mission_start_arm and its callers' common answer to a refusal.
start_arm(v, group, s) ==
    \/ /\ state' = s
       /\ vis' = v
       /\ activeArm' = group
       /\ arm' = group
       /\ armHome' = FALSE
       /\ UNCHANGED <<fault, requestId, cmdQ>>
    \/ DeviceFaults /\ mission_fail([With(v) EXCEPT !.active = 0], "ARM")

\* mission_start_vision and its callers' common answer to a refusal.
start_vision(v, scene, s) ==
    \/ v.phase # "IDLE" /\ mission_fail(With(v), "VISION")
    \/ /\ v.phase = "IDLE"
       /\ \E ok \in submit_results(v) :
            LET w == [v EXCEPT !.phase = "STARTING", !.scene = scene]
                x == mission_submit_vision_transfer(w, "START", ok)
            IN IF ok THEN enter_state(x, s)
                     ELSE mission_fail(With(mission_reset_vision(x)), "VISION")

\* mission_stop_vision and its callers' common answer to a refusal.
stop_vision(v, s) ==
    \E r \in mission_stop_vision(v) :
        IF r.ok THEN enter_state(r.vis, s)
                ELSE mission_fail(With(r.vis), "VISION")

-----------------------------------------------------------------------------
(* The main loop, mission_task_entry.  A stage runs only when its flag was *)
(* in the snapshot; flags raised meanwhile wait for the next turn.         *)

goto(s) == pc' = s /\ UNCHANGED <<userQ, stops, got>>

\* osThreadFlagsWait returns the flags and clears them.
Wake ==
    /\ pc = "wait" /\ flags # {}
    /\ got' = flags
    /\ flags' = {}
    /\ pc' = "commands"
    /\ UNCHANGED <<ctxVars, evtQ, userQ, stops>>

\* The wait runs into the deadline: no handler runs in this turn.
WakeLate(timed) ==
    /\ pc = "wait" /\ flags = {} /\ Expiry /\ timed
    /\ got' = {}
    /\ pc' = "process"
    /\ UNCHANGED <<ctxVars, evtQ, flags, userQ, stops>>

(***************************************************************************)
(* mission_handle_command for a STOP: always effective but in STOPPED and  *)
(* BOOT.  The start commands are commented out in the source.              *)
(***************************************************************************)
mission_handle_command ==
    \/ /\ state \in {"STOPPED", "BOOT"}
       /\ armHome' = FALSE
       /\ UNCHANGED <<state, fault, requestId, activeArm, vis, arm, cmdQ>>
    \/ /\ state \notin {"STOPPED", "BOOT"}
       /\ LET id == mission_next_request_id(requestId) IN
          \E r \in mission_stop_vision(vis) :
            \/ /\ CommandRoom
               /\ armHome' = FALSE
               /\ halt_block_arm(Now)
               /\ vis' = r.vis
               /\ requestId' = id
               /\ cmdQ' = Sent("STOP", id)
               /\ state' = "STOPPING"
               /\ UNCHANGED fault
            \/ /\ ~CommandRoom
               /\ mission_fail([With(r.vis) EXCEPT !.id = id], "QUEUE")

HandleCommand ==
    /\ pc = "commands" /\ "COMMAND" \in got /\ userQ > 0
    /\ userQ' = userQ - 1
    /\ mission_handle_command
    /\ UNCHANGED <<evtQ, flags, stops, got, pc>>

CommandsDone ==
    /\ pc = "commands" /\ ("COMMAND" \notin got \/ userQ = 0)
    /\ goto("events")
    /\ UNCHANGED <<ctxVars, evtQ, flags>>

EventsDone ==
    /\ pc = "events" /\ ("EVENT" \notin got \/ evtQ = <<>>)
    /\ goto("arm")
    /\ UNCHANGED <<ctxVars, evtQ, flags>>

\* No arm report in this turn, or no reply to interpret.
ArmDone ==
    /\ pc = "arm" /\ got \cap {"ARM_OK", "ARM_FAIL"} = {}
    /\ goto("vision")
    /\ UNCHANGED <<ctxVars, evtQ, flags>>

VisionDone ==
    /\ pc = "vision" /\ ("VISION_DONE" \notin got \/ ~vis.pending)
    /\ goto("process")
    /\ UNCHANGED <<ctxVars, evtQ, flags>>

\* mission_check_timeout in a state whose deadline has no successor.
CheckTimeout(timed) ==
    /\ pc = "timeout"
    /\ pc' = "wait" /\ got' = {}
    /\ \/ keep(vis)
       \/ Expiry /\ timed /\ mission_fail(Now, "TIMEOUT")
    /\ UNCHANGED <<evtQ, flags, userQ, stops>>

(***************************************************************************)
(* The parts of mission_handle_vision that no stage changes.  v is the     *)
(* record with the reply taken out of the mailbox.                         *)
(***************************************************************************)
Taken == [vis EXCEPT !.pending = FALSE, !.mail = "none"]

\* Mutant: the stop that had to wait is forgotten.
StopForgotten == FALSE

\* 0) a stop that had to wait for the transaction is sent now
StopWasWaiting == vis.stopReq /\ vis.phase # "STOPPING"
DeferredStop == StopWasWaiting /\ stop_vision([Taken EXCEPT !.stopReq = FALSE], state)

\* 1) a listening timeout keeps the session; other bus errors are faults
QuietListen ==
    /\ ~StopWasWaiting /\ vis.phase = "LISTENING" /\ vis.mail = "TIMEOUT"
    /\ keep(Taken)
BusFault ==
    /\ ~StopWasWaiting
    /\ vis.mail \in {"TIMEOUT", "ERROR"}
    /\ vis.phase = "LISTENING" => vis.mail # "TIMEOUT"
    /\ mission_fail(With(Taken), "VISION")

\* The reply arrived and no stop was waiting for it.
Replied(phase) ==
    ~StopWasWaiting /\ vis.phase = phase /\ vis.mail \notin {"TIMEOUT", "ERROR"}

AckSent == Replied("ACKING") /\ keep(Taken)

\* 2) and 3) an answer that does not belong to the session is a fault
WrongReply ==
    /\ \/ Replied("STOPPING") /\ vis.mail # "STOPPED"
       \/ Replied("STARTING") /\ vis.mail # "READY"
    /\ mission_fail(With(Taken), "VISION")

\* 5) the confirmation of an event is framed, submitted, then acted upon
acking(ok) ==
    mission_submit_vision_transfer([Taken EXCEPT !.phase = "ACKING"], "ACK", ok)

(***************************************************************************)
(* mission_vision_process while a session listens: ask for the next event. *)
(***************************************************************************)
ReadNext ==
    /\ pc = "process" /\ vis.phase = "LISTENING" /\ ~Busy(vis)
    /\ \E ok \in submit_results(vis) :
         keep(mission_submit_vision_transfer(vis, "READ", ok))
    /\ goto("timeout")
    /\ UNCHANGED <<evtQ, flags>>

NothingToProcess ==
    /\ pc = "process"
    /\ vis.phase \in {"IDLE", "STARTING", "STOPPING"} \/ Busy(vis)
    /\ goto("timeout")
    /\ UNCHANGED <<ctxVars, evtQ, flags>>

-----------------------------------------------------------------------------
(* The rest of the robot, as the Mission task sees it.                     *)

\* mission_app_submit_command(STOP), from any other task.
SubmitStop ==
    /\ stops < StopBudget /\ userQ < CommandDepth
    /\ stops' = stops + 1
    /\ userQ' = userQ + 1
    /\ flags' = flags \cup {"COMMAND"}
    /\ UNCHANGED <<ctxVars, evtQ, got, pc>>

\* What Nano and the multiplexer answer to each transaction.
replies(op) ==
    (CASE op = "START" -> {"READY"}
       [] op = "STOP"  -> {"STOPPED"}
       [] op = "ACK"   -> {"SENT"}
       [] OTHER        -> {"EVENT", "REJECT", "TIMEOUT"})
    \cup (IF ~DeviceFaults THEN {}
          ELSE IF op = "ACK" THEN {"TIMEOUT", "ERROR"}
          ELSE {"TIMEOUT", "ERROR", "BAD"})

\* mission_vision_done publishes the reply, then frees the transfer.
PublishReply ==
    /\ vis.inflight /\ ~vis.pending
    /\ \E m \in replies(vis.io) :
         vis' = [vis EXCEPT !.mail = m, !.pending = TRUE]
    /\ UNCHANGED <<state, fault, requestId, activeArm, armHome, arm, cmdQ,
                   evtQ, flags, loopVars>>

ReleaseTransfer ==
    /\ vis.inflight /\ vis.pending
    /\ vis' = [vis EXCEPT !.inflight = FALSE, !.io = "none"]
    /\ flags' = flags \cup {"VISION_DONE"}
    /\ UNCHANGED <<state, fault, requestId, activeArm, armHome, arm, cmdQ,
                   evtQ, loopVars>>

\* mission_arm_report, ACTION_COMPLETED.
ArmCompleted ==
    /\ arm # 0
    /\ arm' = 0
    /\ IF arm = activeArm
       THEN /\ armHome' = (arm = 10 /\ state \notin RestStates)
            /\ flags' = flags \cup {"ARM_OK"}
       ELSE UNCHANGED <<armHome, flags>>
    /\ UNCHANGED <<state, fault, requestId, activeArm, vis, cmdQ, evtQ,
                   loopVars>>

\* mission_arm_report or mission_arm_tx_done, a failure; the arm may go on.
ArmFailed ==
    /\ DeviceFaults /\ arm # 0
    /\ arm' \in {0, arm}
    /\ armHome' = FALSE
    /\ flags' = IF arm = activeArm THEN flags \cup {"ARM_FAIL"} ELSE flags
    /\ UNCHANGED <<state, fault, requestId, activeArm, vis, cmdQ, evtQ,
                   loopVars>>
=============================================================================

------------------------------ MODULE StairRun ------------------------------
(***************************************************************************)
(* The staircase: the Mission task (scan, pause, grasp, store, resume) and *)
(* the chassis task joined by their two queues, with Nano, the arm and the *)
(* user around them.  It starts when GO_STAIRS is queued and ends when the *)
(* chassis takes GO_SMALL_DISC, or at rest in STOPPED or FAULT.            *)
(***************************************************************************)
EXTENDS MissionCore, ChassisStairs

CONSTANTS
    Side,       \* g_mission_side
    BallLimit,  \* MISSION_STAIR_BALL_LIMIT
    FirstId     \* the request id this stage starts with

ASSUME SideAssumption == Side \in {"RED", "BLUE"}
ASSUME BallAssumption == BallLimit \in Nat
ASSUME FirstIdAssumption == FirstId \in 1..IdMax

VARIABLES
    layer,   \* ctx->stair_layer
    balls    \* ctx->stair_balls

stairVars == <<layer, balls>>
vars == <<ctxVars, evtQ, flags, loopVars, stairVars, chassisVars>>

Layers == {"LOW", "HIGH", "MID"}
ArmStates == {"STAIR_WAIT_POSE", "STAIR_WAIT_GRASP", "STAIR_WAIT_RETURN",
              "STAIR_WAIT_SAFE"}
StairStates ==
    {"WAIT_STAIRS", "STAIR_WAIT_LAYER", "STAIR_WAIT_VISION_START",
     "STAIR_SCANNING", "STAIR_WAIT_PAUSE", "STAIR_WAIT_ACK",
     "STAIR_WAIT_STORAGE", "STAIR_WAIT_VISION_RESUME", "STAIR_WAIT_RESUME",
     "STAIR_WAIT_VISION_END", "WAIT_SMALL_DISC"} \cup ArmStates \cup RestStates

Timed == state \notin {"STOPPED", "FAULT"}

StairInit ==
    /\ state = "WAIT_STAIRS" /\ fault = "NONE"
    /\ requestId = FirstId
    /\ activeArm = 10 /\ armHome = TRUE /\ arm = 0
    /\ vis = IdleVision
    /\ cmdQ = <<Command("GO_STAIRS", FirstId)>>
    /\ userQ = 0 /\ stops = 0 /\ got = {} /\ pc = "wait"
    /\ layer = "NONE" /\ balls = 0
    /\ LinkInit /\ ChassisInit

-----------------------------------------------------------------------------
\* Mutant: the blue side is not mapped.
stair_layer_unmapped(type) ==
    CASE type = "STAIR_LOW" -> "LOW" [] type = "STAIR_HIGH" -> "HIGH"
      [] OTHER -> "MID"

\* The chassis names segments; the blue side climbs them in another order.
stair_layer(type) ==
    CASE type = "STAIR_HIGH" -> "HIGH"
      [] type = "STAIR_LOW"  -> IF Side = "BLUE" THEN "MID" ELSE "LOW"
      [] OTHER               -> IF Side = "BLUE" THEN "LOW" ELSE "MID"

mission_stair_grasp_group(l) ==
    CASE l = "LOW"  -> 14
      [] l = "HIGH" -> IF Side = "BLUE" THEN 37 ELSE 15
      [] OTHER      -> 16

\* Mutant: one ball too many is sought.
start_stair_layer_late(v, l) ==
    \/ l = "NONE" /\ enter_state(v, "STAIR_WAIT_LAYER")
    \/ /\ l # "NONE" /\ balls > BallLimit
       /\ send_chassis(v, "CAM_READY", "STAIR_SCANNING")
    \/ /\ l # "NONE" /\ balls <= BallLimit
       /\ start_vision(v, l, "STAIR_WAIT_VISION_START")

\* mission_start_stair_layer, for the layer the handler has just stored
start_stair_layer(v, l) ==
    \/ l = "NONE" /\ enter_state(v, "STAIR_WAIT_LAYER")
    \/ /\ l # "NONE" /\ balls >= BallLimit
       /\ send_chassis(v, "CAM_READY", "STAIR_SCANNING")
    \/ /\ l # "NONE" /\ balls < BallLimit
       /\ start_vision(v, l, "STAIR_WAIT_VISION_START")

start_stair_exit(v) == start_arm(v, 18, "STAIR_WAIT_SAFE")

grasp(v) == start_arm(v, mission_stair_grasp_group(layer), "STAIR_WAIT_GRASP")

-----------------------------------------------------------------------------
(* mission_handle_chassis, one disjunct per branch.                        *)

Current(e) == e.id = requestId /\ e.ok
IsLayer(e) == e.type \in {"STAIR_LOW", "STAIR_HIGH", "STAIR_MID"}
LayerStates == {"STAIR_WAIT_POSE", "STAIR_WAIT_LAYER", "STAIR_SCANNING"}

\* Events of another stage are ignored; a failed stage is a fault.
OnStale(e) == e.id # requestId /\ keep(vis) /\ UNCHANGED stairVars
OnFailure(e) ==
    /\ e.id = requestId /\ ~e.ok
    /\ mission_fail(Now, "CHASSIS")
    /\ UNCHANGED stairVars

OnStopped(e) ==
    /\ state = "STOPPING" /\ e.type = "STOPPED"
    /\ enter_state(vis, "STOPPED")
    /\ UNCHANGED stairVars

OnStairsReady(e) ==
    /\ state = "WAIT_STAIRS" /\ e.type = "STAIRS_READY"
    /\ layer' = "NONE"
    /\ start_arm(vis, 13, "STAIR_WAIT_POSE")
    /\ UNCHANGED balls

\* A new segment closes the session of the old one first.  While the arm is
\* still on its way to the scanning pose the segment is only remembered.
OnLayer(e) ==
    /\ IsLayer(e) /\ state \in LayerStates
    /\ layer' = stair_layer(e.type)
    /\ \/ /\ state = "STAIR_SCANNING" /\ vis.phase # "IDLE"
          /\ stop_vision(vis, "STAIR_WAIT_LAYER")
       \/ /\ state # "STAIR_WAIT_POSE"
          /\ state = "STAIR_SCANNING" => vis.phase = "IDLE"
          /\ start_stair_layer(vis, layer')
       \/ state = "STAIR_WAIT_POSE" /\ keep(vis)
    /\ UNCHANGED balls

OnPause(e) ==
    /\ state = "STAIR_WAIT_PAUSE" /\ e.type = "STAIR_PAUSE"
    /\ \/ vis.phase = "ACKING" /\ enter_state(vis, "STAIR_WAIT_ACK")
       \/ vis.phase # "ACKING" /\ grasp(vis)
    /\ UNCHANGED stairVars

OnResume(e) ==
    /\ state = "STAIR_WAIT_RESUME" /\ e.type = "STAIR_RESUME"
    /\ enter_state(vis, "STAIR_SCANNING")
    /\ UNCHANGED stairVars

\* No state guard: the end of the staircase is accepted in every state.
OnFinished(e) ==
    /\ e.type = "STAIRS_FINISHED"
    /\ \/ vis.phase # "IDLE" /\ stop_vision(vis, "STAIR_WAIT_VISION_END")
       \/ vis.phase = "IDLE" /\ start_stair_exit(vis)
    /\ UNCHANGED stairVars

Unexpected(e) ==
    /\ <<state, e.type>> \notin
          {<<"STOPPING", "STOPPED">>, <<"WAIT_STAIRS", "STAIRS_READY">>,
           <<"STAIR_WAIT_PAUSE", "STAIR_PAUSE">>,
           <<"STAIR_WAIT_RESUME", "STAIR_RESUME">>}
    /\ ~(IsLayer(e) /\ state \in LayerStates)
    /\ e.type # "STAIRS_FINISHED"

\* Mutant: the layer is stored before the state is looked at.
OnUnexpectedStoresLayer(e) ==
    /\ Unexpected(e)
    /\ layer' = IF IsLayer(e) THEN stair_layer(e.type) ELSE layer
    /\ keep(vis)
    /\ UNCHANGED balls

\* Everything else falls through all branches.
OnUnexpected(e) ==
    /\ Unexpected(e)
    /\ keep(vis)
    /\ UNCHANGED stairVars

mission_handle_chassis(e) ==
    \/ OnStale(e) \/ OnFailure(e)
    \/ /\ Current(e)
       /\ \/ OnStopped(e) \/ OnStairsReady(e) \/ OnLayer(e) \/ OnPause(e)
          \/ OnResume(e) \/ OnFinished(e) \/ OnUnexpected(e)

HandleChassis ==
    /\ pc = "events" /\ "EVENT" \in got /\ evtQ # <<>>
    /\ evtQ' = Tail(evtQ)
    /\ mission_handle_chassis(Head(evtQ))
    /\ UNCHANGED <<flags, loopVars, chassisVars>>

-----------------------------------------------------------------------------
(* mission_handle_arm: a failure outweighs a success of the same turn.     *)

ArmFail ==
    /\ pc = "arm" /\ "ARM_FAIL" \in got
    /\ goto("vision")
    /\ \/ state \in ArmStates /\ mission_fail(Now, "ARM")
       \/ state \notin ArmStates /\ keep(vis)
    /\ UNCHANGED <<evtQ, flags, stairVars, chassisVars>>

\* The group the state waits for is done; start what follows it.
arm_next ==
    \/ state = "STAIR_WAIT_POSE" /\ start_stair_layer(vis, layer)
    \/ state = "STAIR_WAIT_GRASP" /\ start_arm(vis, 13, "STAIR_WAIT_RETURN")
    \/ /\ state = "STAIR_WAIT_SAFE"
       /\ send_new_stage(vis, "GO_SMALL_DISC", "WAIT_SMALL_DISC")
    \/ state \notin ArmStates /\ keep(vis)

ArmOk ==
    /\ pc = "arm" /\ "ARM_OK" \in got /\ "ARM_FAIL" \notin got
    /\ state # "STAIR_WAIT_RETURN"
    /\ goto("vision")
    /\ arm_next
    /\ UNCHANGED <<evtQ, flags, stairVars, chassisVars>>

\* Back in the scanning pose: the ball is stored inside the handler, which
\* blocks the main loop while it reads the card and turns the turntable.
BeginStore ==
    /\ pc = "arm" /\ "ARM_OK" \in got /\ "ARM_FAIL" \notin got
    /\ state = "STAIR_WAIT_RETURN"
    /\ enter_state(vis, "STAIR_WAIT_STORAGE")
    /\ goto("storing")
    /\ UNCHANGED <<evtQ, flags, stairVars, chassisVars>>

\* mission_store_ball succeeds; mission_handle_storage goes on.
StoreDone ==
    /\ pc = "storing"
    /\ goto("vision")
    /\ balls' = balls + 1
    /\ \/ /\ balls' >= BallLimit
          /\ send_chassis(vis, "STAIR_RESUME", "STAIR_WAIT_RESUME")
       \/ /\ balls' < BallLimit
          /\ start_vision(vis, layer, "STAIR_WAIT_VISION_RESUME")
    /\ UNCHANGED <<evtQ, flags, layer, chassisVars>>

StoreFailed ==
    /\ pc = "storing" /\ DeviceFaults
    /\ goto("vision")
    /\ mission_fail(Now, "STORAGE")
    /\ UNCHANGED <<evtQ, flags, stairVars, chassisVars>>

\* mission_advance_slots drains the user commands between transactions; once
\* a STOP was among them it gives up, and its caller reports a failure.
StoreSeesStop ==
    /\ pc \in {"storing", "storeStopped"} /\ userQ > 0
    /\ userQ' = userQ - 1
    /\ mission_handle_command
    /\ pc' = "storeStopped"
    /\ UNCHANGED <<evtQ, flags, stops, got, stairVars, chassisVars>>

StoreGivesUp ==
    /\ pc = "storeStopped" /\ userQ = 0
    /\ goto("vision")
    /\ mission_fail(Now, "STORAGE")
    /\ UNCHANGED <<evtQ, flags, stairVars, chassisVars>>

-----------------------------------------------------------------------------
(* mission_handle_vision, the branches of the staircase.                   *)

\* The old session is closed: open the next layer, or leave.
SessionStopped ==
    /\ Replied("STOPPING") /\ vis.mail = "STOPPED"
    /\ LET v == mission_reset_vision(Taken) IN
       \/ state = "STAIR_WAIT_LAYER" /\ start_stair_layer(v, layer)
       \/ state = "STAIR_WAIT_VISION_END" /\ start_stair_exit(v)
       \/ /\ state \notin {"STAIR_WAIT_LAYER", "STAIR_WAIT_VISION_END"}
          /\ keep(v)

\* Mutant: the base is not released into a layer that is being watched.
SessionReadySilent ==
    /\ Replied("STARTING") /\ vis.mail = "READY"
    /\ LET v == [Taken EXCEPT !.phase = "LISTENING"] IN
       \/ /\ state = "STAIR_WAIT_VISION_RESUME"
          /\ send_chassis(v, "STAIR_RESUME", "STAIR_WAIT_RESUME")
       \/ /\ state # "STAIR_WAIT_VISION_RESUME"
          /\ enter_state(v, "STAIR_SCANNING")

\* Nano looks at the layer now: release the base, or let it resume.
SessionReady ==
    /\ Replied("STARTING") /\ vis.mail = "READY"
    /\ LET v == [Taken EXCEPT !.phase = "LISTENING"] IN
       \/ /\ state = "STAIR_WAIT_VISION_RESUME"
          /\ send_chassis(v, "STAIR_RESUME", "STAIR_WAIT_RESUME")
       \/ /\ state # "STAIR_WAIT_VISION_RESUME"
          /\ send_chassis(v, "CAM_READY", "STAIR_SCANNING")

\* A ball counts only while scanning, fresh, of our colour and session.
EventIgnored ==
    /\ Replied("LISTENING")
    /\ state # "STAIR_SCANNING" \/ vis.mail # "EVENT"
    /\ keep(Taken)

\* Confirm the ball, then ask the base to stop.
BallSeen ==
    /\ Replied("LISTENING")
    /\ state = "STAIR_SCANNING" /\ vis.mail = "EVENT"
    /\ \E ok \in submit_results(Taken) :
         IF ok THEN send_chassis(acking(TRUE), "STAIR_STOP", "STAIR_WAIT_PAUSE")
               ELSE mission_fail(With(acking(FALSE)), "VISION")

mission_handle_vision ==
    \/ DeferredStop \/ QuietListen \/ BusFault \/ AckSent \/ WrongReply
    \/ SessionStopped \/ SessionReady \/ EventIgnored \/ BallSeen

HandleVision ==
    /\ pc = "vision" /\ "VISION_DONE" \in got /\ vis.pending
    /\ mission_handle_vision
    /\ goto("process")
    /\ UNCHANGED <<evtQ, flags, stairVars, chassisVars>>

\* mission_vision_process after the confirmation went out.
AckProcessed ==
    /\ pc = "process" /\ vis.phase = "ACKING" /\ ~Busy(vis)
    /\ \/ state = "STAIR_WAIT_ACK" /\ grasp(mission_reset_vision(vis))
       \/ state # "STAIR_WAIT_ACK" /\ keep(mission_reset_vision(vis))
    /\ goto("timeout")
    /\ UNCHANGED <<evtQ, flags>>

-----------------------------------------------------------------------------
MissionLoop ==
    \/ Wake \/ WakeLate(Timed) \/ HandleCommand \/ CommandsDone
    \/ EventsDone \/ ArmDone \/ VisionDone \/ ReadNext
    \/ NothingToProcess \/ AckProcessed \/ CheckTimeout(Timed)

Mission ==
    \/ MissionLoop /\ UNCHANGED <<stairVars, chassisVars>>
    \/ HandleChassis \/ ArmFail \/ ArmOk \/ BeginStore \/ StoreDone
    \/ StoreFailed \/ StoreSeesStop \/ StoreGivesUp \/ HandleVision

Chassis ==
    /\ ChassisNext
    /\ UNCHANGED <<state, fault, requestId, activeArm, armHome, vis, arm,
                   loopVars, stairVars>>

World ==
    \/ /\ SubmitStop \/ PublishReply \/ ReleaseTransfer
          \/ ArmCompleted \/ ArmFailed
       /\ UNCHANGED <<stairVars, chassisVars>>
    \/ /\ Advance
       /\ UNCHANGED <<state, fault, requestId, activeArm, armHome, vis, arm,
                      loopVars, stairVars>>

\* The stage is over, or the robot rests and nothing is left to handle.
Over ==
    /\ pc = "wait" /\ flags = {}
    /\ cpc = "next" \/ (state \in {"STOPPED", "FAULT"} /\ cmdQ = <<>>)
    /\ UNCHANGED vars

Next == Mission \/ Chassis \/ World \/ Over

Spec == StairInit /\ [][Next]_vars

\* Every task runs when it can, every transaction and motion ends, and a base
\* that keeps driving reaches the end of its segment.
Fairness ==
    /\ WF_vars(Mission) /\ WF_vars(Chassis)
    /\ WF_vars((PublishReply \/ ReleaseTransfer \/ ArmCompleted)
               /\ UNCHANGED <<stairVars, chassisVars>>)
    /\ WF_vars(Advance /\ UNCHANGED <<state, fault, requestId, activeArm,
                                       armHome, vis, arm, loopVars, stairVars>>)

FairSpec == Spec /\ Fairness

-----------------------------------------------------------------------------
\* Every variable has its type: the queues hold commands and events.
TypeOK ==
    /\ CoreTypeOK /\ ChassisTypeOK
    /\ state \in StairStates
    /\ layer \in Layers \cup {"NONE"}
    /\ balls \in Nat

GraspGroups == {14, 15, 16, 37}
Sweeping == driving /\ cpc \in {"scan", "body"}

\* The steps in the order each side meets them, and the group for each step.
StepAt(l) == IF Side = "BLUE" THEN <<"MID", "HIGH", "LOW">>[l]
                              ELSE <<"LOW", "HIGH", "MID">>[l]
GroupAt(l) == CASE StepAt(l) = "LOW" -> 14
                [] StepAt(l) = "MID" -> 16
                [] OTHER -> IF Side = "BLUE" THEN 37 ELSE 15

\* The arm reaches over the steps only while the base stands still: no action
\* group runs while a velocity is commanded.
ArmMovesOnlyWhenParked == arm # 0 => ~driving

\* The base never sweeps blind: while balls are still wanted and nobody has
\* stopped the run, a moving base is watched by a session for the layer it is
\* on; only between seeing a ball and pausing may that session be gone.
NoBlindSweep ==
    Sweeping /\ balls < BallLimit /\ state \notin RestStates =>
        \/ state = "STAIR_WAIT_PAUSE"
        \/ /\ vis.phase \in {"LISTENING", "ACKING"}
           /\ vis.scene = StepAt(leg)

\* The arm grasps for the layer where the ball was seen.  The base may have
\* announced the next segment already, as long as it was not released into it.
GraspFitsLayer ==
    arm \in GraspGroups =>
        LET seen == IF camReady THEN leg ELSE leg - 1
        IN seen > 0 /\ arm = GroupAt(seen)

\* No grasp starts, and no ball is stored, beyond the limit of the staircase.
BallLimitKept ==
    balls <= BallLimit /\ (arm \in GraspGroups => balls < BallLimit)

\* The transmit buffer holds the frame being sent until its transaction ends,
\* and no reply is on its way once the session is closed.
MailboxSafe ==
    /\ vis.inflight /\ vis.io # "READ" => vis.tx = vis.io
    /\ Busy(vis) => vis.phase # "IDLE"

\* A late reply, arm report or base event never releases motion: once the run
\* is stopping, stopped or failed, STOP is the only command still sent.
OnlyStopSent ==
    state \in RestStates /\ Len(cmdQ') > Len(cmdQ) =>
        (cmdQ')[Len(cmdQ')].type = "STOP"
NoReleaseAfterStop == [][OnlyStopSent]_vars

\* However the stop came about, the base ends up parked for good.
RestParksBase == (state \in RestStates) ~> [](~driving)

\* Without failures the staircase is always completed, unless a STOP or a
\* stage timeout ends it: no layer event, pause or resume is lost, whatever the
\* interleaving.
StairsCompleted == <>(cpc = "next" \/ state \in RestStates)
=============================================================================

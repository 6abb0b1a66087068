------------------------------ MODULE DiscRun ------------------------------
(***************************************************************************)
(* The small disc: the base circles the disc while Nano watches it; a ball *)
(* pauses the base, is grasped and stored, and the base goes on.  It starts*)
(* when GO_SMALL_DISC is queued and ends when the chassis takes GO_DEPOT_1,*)
(* or at rest in STOPPED or FAULT.                                         *)
(***************************************************************************)
EXTENDS MissionCore, ChassisDisc

CONSTANTS
    BallLimit,  \* MISSION_SMALL_DISC_BALL_COUNT
    FirstId     \* the request id this stage starts with

ASSUME BallAssumption == BallLimit \in Nat \ {0}
ASSUME FirstIdAssumption == FirstId \in 1..IdMax

VARIABLE balls   \* ctx->small_disc_balls

vars == <<ctxVars, evtQ, flags, loopVars, balls, chassisVars>>

ArmStates == {"SMALL_DISC_WAIT_POSE", "SMALL_DISC_WAIT_GRASP",
              "SMALL_DISC_WAIT_RETURN", "SMALL_DISC_WAIT_SAFE"}
DiscStates ==
    {"WAIT_SMALL_DISC", "SMALL_DISC_WAIT_VISION_START", "SMALL_DISC_RUNNING",
     "SMALL_DISC_WAIT_PAUSE", "SMALL_DISC_WAIT_ACK", "SMALL_DISC_WAIT_STORAGE",
     "SMALL_DISC_WAIT_VISION_RESUME", "SMALL_DISC_WAIT_RESUME",
     "SMALL_DISC_WAIT_VISION_END", "WAIT_DEPOT_1"} \cup ArmStates \cup RestStates

Timed == state \notin {"STOPPED", "FAULT"}

\* The arm has just left the stairs (group 18) and nobody called it home.
DiscInit ==
    /\ state = "WAIT_SMALL_DISC" /\ fault = "NONE"
    /\ requestId = FirstId
    /\ activeArm = 18 /\ armHome = FALSE /\ arm = 0
    /\ vis = IdleVision
    /\ cmdQ = <<Command("GO_SMALL_DISC", FirstId)>>
    /\ userQ = 0 /\ stops = 0 /\ got = {} /\ pc = "wait"
    /\ balls = 0
    /\ LinkInit /\ ChassisInit

-----------------------------------------------------------------------------
watch(s) == start_vision(vis, "SMALL_DISC", s)
grasp(v) == start_arm(v, 20, "SMALL_DISC_WAIT_GRASP")
start_small_disc_exit(v) == start_arm(v, 10, "SMALL_DISC_WAIT_SAFE")

(* mission_handle_chassis, one disjunct per branch.                        *)

\* Events of another stage are ignored; a failed stage is a fault.
OnStale(e) == e.id # requestId /\ keep(vis)
OnFailure(e) == e.id = requestId /\ ~e.ok /\ mission_fail(Now, "CHASSIS")

OnStopped(e) ==
    /\ state = "STOPPING" /\ e.type = "STOPPED"
    /\ enter_state(vis, "STOPPED")

OnArrived(e) ==
    /\ state = "WAIT_SMALL_DISC" /\ e.type = "SMALL_DISC_READY"
    /\ start_arm(vis, 19, "SMALL_DISC_WAIT_POSE")

\* The grasp needs both: the base stands, and the confirmation went out.
OnPaused(e) ==
    /\ state = "SMALL_DISC_WAIT_PAUSE" /\ e.type = "SMALL_DISC_PAUSED"
    /\ IF vis.phase = "ACKING" THEN enter_state(vis, "SMALL_DISC_WAIT_ACK")
                               ELSE grasp(vis)

OnResumed(e) ==
    /\ state = "SMALL_DISC_WAIT_RESUME" /\ e.type = "SMALL_DISC_RESUMED"
    /\ enter_state(vis, "SMALL_DISC_RUNNING")

\* However many balls were found, the whole circle was driven.
OnFinished(e) ==
    /\ state = "SMALL_DISC_RUNNING" /\ e.type = "SMALL_DISC_FINISHED"
    /\ IF vis.phase # "IDLE"
       THEN stop_vision(vis, "SMALL_DISC_WAIT_VISION_END")
       ELSE start_small_disc_exit(vis)

Awaited == {<<"STOPPING", "STOPPED">>,
            <<"WAIT_SMALL_DISC", "SMALL_DISC_READY">>,
            <<"SMALL_DISC_WAIT_PAUSE", "SMALL_DISC_PAUSED">>,
            <<"SMALL_DISC_WAIT_RESUME", "SMALL_DISC_RESUMED">>,
            <<"SMALL_DISC_RUNNING", "SMALL_DISC_FINISHED">>}

\* Everything else falls through all branches.
OnUnexpected(e) == <<state, e.type>> \notin Awaited /\ keep(vis)

mission_handle_chassis(e) ==
    \/ OnStale(e) \/ OnFailure(e)
    \/ /\ e.id = requestId /\ e.ok
       /\ \/ OnStopped(e) \/ OnArrived(e) \/ OnPaused(e) \/ OnResumed(e)
          \/ OnFinished(e) \/ OnUnexpected(e)

HandleChassis ==
    /\ pc = "events" /\ "EVENT" \in got /\ evtQ # <<>>
    /\ evtQ' = Tail(evtQ)
    /\ mission_handle_chassis(Head(evtQ))
    /\ UNCHANGED <<flags, loopVars, balls, chassisVars>>

-----------------------------------------------------------------------------
(* mission_handle_arm: a failure outweighs a success of the same turn.     *)

ArmFail ==
    /\ pc = "arm" /\ "ARM_FAIL" \in got
    /\ goto("vision")
    /\ IF state \in ArmStates THEN mission_fail(Now, "ARM") ELSE keep(vis)
    /\ UNCHANGED <<evtQ, flags, balls, chassisVars>>

\* The group the state waits for is done; start what follows it.
arm_next ==
    \/ state = "SMALL_DISC_WAIT_POSE" /\ watch("SMALL_DISC_WAIT_VISION_START")
    \/ /\ state = "SMALL_DISC_WAIT_GRASP"
       /\ start_arm(vis, 19, "SMALL_DISC_WAIT_RETURN")
    \/ /\ state = "SMALL_DISC_WAIT_SAFE"
       /\ send_new_stage(vis, "GO_DEPOT_1", "WAIT_DEPOT_1")
    \/ state \notin ArmStates /\ keep(vis)

ArmOk ==
    /\ pc = "arm" /\ "ARM_OK" \in got /\ "ARM_FAIL" \notin got
    /\ state # "SMALL_DISC_WAIT_RETURN"
    /\ goto("vision")
    /\ arm_next
    /\ UNCHANGED <<evtQ, flags, balls, chassisVars>>

\* Back in the watching pose: the ball is stored inside the handler, which
\* blocks the main loop while it reads the card and turns the turntable.
BeginStore ==
    /\ pc = "arm" /\ "ARM_OK" \in got /\ "ARM_FAIL" \notin got
    /\ state = "SMALL_DISC_WAIT_RETURN"
    /\ enter_state(vis, "SMALL_DISC_WAIT_STORAGE")
    /\ goto("storing")
    /\ UNCHANGED <<evtQ, flags, balls, chassisVars>>

\* Mutant: the base is sent on before anybody watches again.
StoreDoneSendsOn ==
    /\ pc = "storing"
    /\ goto("vision")
    /\ balls' = balls + 1
    /\ send_chassis(vis, "SMALL_DISC_RESUME", "SMALL_DISC_WAIT_RESUME")
    /\ UNCHANGED <<evtQ, flags, chassisVars>>

\* mission_store_ball succeeds; mission_handle_storage goes on.
StoreDone ==
    /\ pc = "storing"
    /\ goto("vision")
    /\ balls' = balls + 1
    /\ IF balls' >= BallLimit
       THEN send_chassis(vis, "SMALL_DISC_RESUME", "SMALL_DISC_WAIT_RESUME")
       ELSE watch("SMALL_DISC_WAIT_VISION_RESUME")
    /\ UNCHANGED <<evtQ, flags, chassisVars>>

StoreFailed ==
    /\ pc = "storing" /\ DeviceFaults
    /\ goto("vision")
    /\ mission_fail(Now, "STORAGE")
    /\ UNCHANGED <<evtQ, flags, balls, chassisVars>>

\* A STOP drained by mission_advance_slots ends the turn as a failure.
StoreSeesStop ==
    /\ pc \in {"storing", "storeStopped"} /\ userQ > 0
    /\ userQ' = userQ - 1
    /\ mission_handle_command
    /\ pc' = "storeStopped"
    /\ UNCHANGED <<evtQ, flags, stops, got, balls, chassisVars>>

StoreGivesUp ==
    /\ pc = "storeStopped" /\ userQ = 0
    /\ goto("vision")
    /\ mission_fail(Now, "STORAGE")
    /\ UNCHANGED <<evtQ, flags, balls, chassisVars>>

-----------------------------------------------------------------------------
(* mission_handle_vision, the branches of the small disc.                  *)

SessionStopped ==
    /\ Replied("STOPPING") /\ vis.mail = "STOPPED"
    /\ LET v == mission_reset_vision(Taken) IN
       IF state = "SMALL_DISC_WAIT_VISION_END" THEN start_small_disc_exit(v)
                                               ELSE keep(v)

\* Nano watches the disc: the base may start its circle, or go on with it.
SessionReady ==
    /\ Replied("STARTING") /\ vis.mail = "READY"
    /\ LET v == [Taken EXCEPT !.phase = "LISTENING"] IN
       \/ /\ state = "SMALL_DISC_WAIT_VISION_START"
          /\ send_chassis(v, "SMALL_DISC_START", "SMALL_DISC_RUNNING")
       \/ /\ state = "SMALL_DISC_WAIT_VISION_RESUME"
          /\ send_chassis(v, "SMALL_DISC_RESUME", "SMALL_DISC_WAIT_RESUME")
       \/ /\ state \notin {"SMALL_DISC_WAIT_VISION_START",
                           "SMALL_DISC_WAIT_VISION_RESUME"}
          /\ send_chassis(v, "CAM_READY", "STAIR_SCANNING")

EventIgnored ==
    /\ Replied("LISTENING")
    /\ state # "SMALL_DISC_RUNNING" \/ vis.mail # "EVENT"
    /\ keep(Taken)

\* Confirm the ball, then ask the base to pause.
BallSeen ==
    /\ Replied("LISTENING")
    /\ state = "SMALL_DISC_RUNNING" /\ vis.mail = "EVENT"
    /\ \E ok \in submit_results(Taken) :
         IF ok
         THEN send_chassis(acking(TRUE), "SMALL_DISC_STOP", "SMALL_DISC_WAIT_PAUSE")
         ELSE mission_fail(With(acking(FALSE)), "VISION")

mission_handle_vision ==
    \/ DeferredStop \/ QuietListen \/ BusFault \/ AckSent \/ WrongReply
    \/ SessionStopped \/ SessionReady \/ EventIgnored \/ BallSeen

HandleVision ==
    /\ pc = "vision" /\ "VISION_DONE" \in got /\ vis.pending
    /\ mission_handle_vision
    /\ goto("process")
    /\ UNCHANGED <<evtQ, flags, balls, chassisVars>>

\* mission_vision_process after the confirmation went out.
AckProcessed ==
    /\ pc = "process" /\ vis.phase = "ACKING" /\ ~Busy(vis)
    /\ LET v == mission_reset_vision(vis) IN
       IF state = "SMALL_DISC_WAIT_ACK" THEN grasp(v) ELSE keep(v)
    /\ goto("timeout")
    /\ UNCHANGED <<evtQ, flags>>

-----------------------------------------------------------------------------
MissionLoop ==
    \/ Wake \/ WakeLate(Timed) \/ HandleCommand \/ CommandsDone
    \/ EventsDone \/ ArmDone \/ VisionDone \/ ReadNext
    \/ NothingToProcess \/ AckProcessed \/ CheckTimeout(Timed)

Mission ==
    \/ MissionLoop /\ UNCHANGED <<balls, chassisVars>>
    \/ HandleChassis \/ ArmFail \/ ArmOk \/ BeginStore \/ StoreDone
    \/ StoreFailed \/ StoreSeesStop \/ StoreGivesUp \/ HandleVision

Chassis ==
    /\ ChassisNext
    /\ UNCHANGED <<state, fault, requestId, activeArm, armHome, vis, arm,
                   loopVars, balls>>

World ==
    /\ SubmitStop \/ PublishReply \/ ReleaseTransfer \/ ArmCompleted \/ ArmFailed
    /\ UNCHANGED <<balls, chassisVars>>

\* The stage is over, or the robot rests and nothing is left to handle.
Over ==
    /\ pc = "wait" /\ flags = {}
    /\ cpc = "next" \/ (state \in {"STOPPED", "FAULT"} /\ cmdQ = <<>>)
    /\ UNCHANGED vars

Next == Mission \/ Chassis \/ World \/ Over

Spec == DiscInit /\ [][Next]_vars

\* Every task runs when it can, every transaction and motion ends.
Fairness ==
    /\ WF_vars(Mission) /\ WF_vars(Chassis)
    /\ WF_vars((PublishReply \/ ReleaseTransfer \/ ArmCompleted)
               /\ UNCHANGED <<balls, chassisVars>>)

FairSpec == Spec /\ Fairness

-----------------------------------------------------------------------------
\* Every variable has its type: the queues hold commands and events.
TypeOK ==
    /\ CoreTypeOK /\ ChassisTypeOK
    /\ state \in DiscStates
    /\ balls \in Nat

\* The arm moves over the disc only while the base stands still.  The one
\* exception: a pause late in the circle is counted into it and ends it, and
\* until its next poll the base backs away under the grasping arm.
ArmMovesOnlyWhenParked ==
    arm # 0 /\ driving => paused /\ cpc \in {"exit", "break"}

\* The base never circles blind: while balls are wanted and nobody has stopped
\* the run, a moving base is watched; only between seeing a ball and pausing
\* may the session be gone.
NoBlindRound ==
    driving /\ cpc = "arc" /\ balls < BallLimit /\ state \notin RestStates =>
        \/ state = "SMALL_DISC_WAIT_PAUSE"
        \/ vis.phase \in {"LISTENING", "ACKING"} /\ vis.scene = "SMALL_DISC"

\* The pause that nobody answers: the base had finished its circle when Mission
\* asked it to pause for a ball, so it dropped the request.
PauseUnanswered == state = "SMALL_DISC_WAIT_PAUSE" /\ cpc = "gone" /\ cmdQ = <<>>

\* However ball events, pauses and the end of the circle race, the stage ends:
\* on the way to the depot, at rest, or in the one pause that only its deadline
\* ends.
RoundEnds == <>(cpc = "next" \/ state \in RestStates \/ PauseUnanswered)

\* "Only the time the base really moves is counted; after a pause for a ball
\* the rest of the circle is made up" (app_main.c, small_disc_round): a circle
\* that was not stopped never ends in a pause.
PauseKeepsTheRound == paused /\ ~failed => cpc \notin {"leave", "turn", "exit"}
=============================================================================

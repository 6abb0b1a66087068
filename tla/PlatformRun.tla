---------------------------- MODULE PlatformRun ----------------------------
(***************************************************************************)
(* The platform, the first stage: the base stands while the arm grasps one *)
(* ball after another as Nano reports them, and each ball is stored.  It   *)
(* starts when GO_PLATFORM is queued and ends when the chassis sets out to *)
(* the stairs, or at rest in STOPPED or FAULT.                             *)
(***************************************************************************)
EXTENDS BallStore, ChassisPlatform

CONSTANTS
    BallCount,     \* MISSION_PLATFORM_BALL_COUNT
    MaxAttempts,   \* MISSION_PLATFORM_MAX_ATTEMPTS
    FirstId        \* the request id this stage starts with

ASSUME PlatformAssumption ==
    /\ BallCount \in Nat \ {0} /\ FirstId \in 1..IdMax
    /\ MaxAttempts = Len(Cards) /\ MaxAttempts > 0

VARIABLES
    attempts,   \* ctx->platform_attempts
    balls       \* ctx->platform_balls

countVars == <<attempts, balls>>
vars == <<ctxVars, evtQ, flags, loopVars, storeVars, countVars, chassisVars>>

ArmStates ==
    {"PLATFORM_WAIT_POSE", "PLATFORM_WAIT_GRASP", "PLATFORM_WAIT_AVOID",
     "PLATFORM_WAIT_RETURN", "PLATFORM_WAIT_DEPARTURE_POSE"}
StoreStates == {"PLATFORM_WAIT_AVOID", "PLATFORM_WAIT_RETURN"}
PlatformStates ==
    {"WAIT_PLATFORM", "PLATFORM_SETTLE", "PLATFORM_WAIT_VISION",
     "PLATFORM_WAIT_TARGET", "PLATFORM_WAIT_STORAGE", "WAIT_STAIRS"}
    \cup ArmStates \cup RestStates

Timed == state \notin {"STOPPED", "FAULT", "PLATFORM_SETTLE"}

PlatformInit ==
    /\ state = "WAIT_PLATFORM" /\ fault = "NONE"
    /\ requestId = FirstId
    /\ activeArm = 10 /\ armHome = TRUE /\ arm = 0
    /\ vis = IdleVision
    /\ cmdQ = <<Command("GO_PLATFORM", FirstId)>>
    /\ userQ = 0 /\ stops = 0 /\ got = {} /\ pc = "wait"
    /\ attempts = 0 /\ balls = 0
    /\ LinkInit /\ ChassisInit /\ StoreInit

-----------------------------------------------------------------------------
\* mission_start_arm counts the grasps it starts.
start_grasp(v) ==
    /\ start_arm(v, 12, "PLATFORM_WAIT_GRASP")
    /\ attempts' = IF arm' = 12 THEN attempts + 1 ELSE attempts

Last == attempts >= MaxAttempts

\* mission_platform_prepare_storage: after the last grasp the arm goes home.
prepare_storage ==
    IF Last THEN start_arm(vis, 10, "PLATFORM_WAIT_AVOID")
            ELSE start_arm(vis, 11, "PLATFORM_WAIT_RETURN")

\* mission_finish_platform, of a normal run
finish_platform == send_new_stage(vis, "GO_STAIRS", "WAIT_STAIRS")

(* mission_handle_chassis, one disjunct per branch.                        *)

OnStale(e) == e.id # requestId /\ keep(vis)
OnFailure(e) == e.id = requestId /\ ~e.ok /\ mission_fail(Now, "CHASSIS")
OnStopped(e) ==
    /\ state = "STOPPING" /\ e.type = "STOPPED"
    /\ enter_state(vis, "STOPPED")
OnArrived(e) ==
    /\ state = "WAIT_PLATFORM" /\ e.type = "PLATFORM_READY"
    /\ start_arm(vis, 11, "PLATFORM_WAIT_POSE")
OnUnexpected(e) ==
    /\ <<state, e.type>> \notin {<<"STOPPING", "STOPPED">>,
                                 <<"WAIT_PLATFORM", "PLATFORM_READY">>}
    /\ keep(vis)

mission_handle_chassis(e) ==
    \/ OnStale(e) \/ OnFailure(e)
    \/ /\ e.id = requestId /\ e.ok
       /\ OnStopped(e) \/ OnArrived(e) \/ OnUnexpected(e)

HandleChassis ==
    /\ pc = "events" /\ "EVENT" \in got /\ evtQ # <<>>
    /\ evtQ' = Tail(evtQ)
    /\ mission_handle_chassis(Head(evtQ))
    /\ UNCHANGED <<flags, loopVars, storeVars, countVars, chassisVars>>

-----------------------------------------------------------------------------
(* mission_handle_arm: a failure outweighs a success of the same turn.     *)

ArmFail ==
    /\ pc = "arm" /\ "ARM_FAIL" \in got
    /\ goto("vision")
    /\ IF state \in ArmStates THEN mission_fail(Now, "ARM") ELSE keep(vis)
    /\ UNCHANGED <<evtQ, flags, storeVars, countVars, chassisVars>>

\* The group the state waits for is done; start what follows it.
arm_next ==
    \/ state = "PLATFORM_WAIT_POSE" /\ enter_state(vis, "PLATFORM_SETTLE")
    \/ state = "PLATFORM_WAIT_GRASP" /\ prepare_storage
    \/ state = "PLATFORM_WAIT_DEPARTURE_POSE" /\ finish_platform
    \/ state \notin ArmStates /\ keep(vis)

ArmOk ==
    /\ pc = "arm" /\ "ARM_OK" \in got /\ "ARM_FAIL" \notin got
    /\ state \notin StoreStates
    /\ goto("vision")
    /\ arm_next
    /\ UNCHANGED <<evtQ, flags, storeVars, countVars, chassisVars>>

BeginStore ==
    /\ pc = "arm" /\ "ARM_OK" \in got /\ "ARM_FAIL" \notin got
    /\ state \in StoreStates
    /\ enter_state(vis, "PLATFORM_WAIT_STORAGE")
    /\ goto("storing") /\ begin_store
    /\ UNCHANGED <<evtQ, flags, icDone, icStatus, icBall, slotVars, worldVars,
                   countVars, chassisVars>>

Storing ==
    /\ pc = "storing" /\ StoreStep
    /\ UNCHANGED <<ctxVars, evtQ, flags, loopVars, countVars, chassisVars>>

\* mission_advance_slots answers a STOP between two transactions.
StoreSeesStop ==
    /\ pc = "storing" /\ step \in {"turn", "poll"} /\ userQ > 0
    /\ userQ' = userQ - 1
    /\ mission_handle_command /\ turn_stop
    /\ UNCHANGED <<evtQ, flags, stops, got, pc, allButMotor, countVars, chassisVars>>

StoreFailed ==
    /\ pc = "storing" /\ step = "failed"
    /\ to("off")
    /\ goto("vision")
    /\ mission_fail(Now, "STORAGE") /\ turn_stop
    /\ UNCHANGED <<evtQ, flags, readVars, slotVars, fine, reader, pos, loaded,
                   late, countVars, chassisVars>>

\* Mutant: the base is sent off although the arm is not home.
StoreDoneLeavesAtOnce ==
    /\ pc = "storing" /\ step = "stored"
    /\ slot_used
    /\ goto("vision")
    /\ balls' = IF read_ok THEN balls + 1 ELSE balls
    /\ IF balls' >= BallCount \/ Last
       THEN finish_platform
       ELSE IF activeArm = 10 THEN start_arm(vis, 11, "PLATFORM_WAIT_POSE")
       ELSE enter_state(vis, "PLATFORM_SETTLE")
    /\ UNCHANGED <<evtQ, flags, attempts, chassisVars>>

(***************************************************************************)
(* mission_handle_storage: enough balls or attempts end the stage, once    *)
(* the arm is home; otherwise look for the next ball.                      *)
(***************************************************************************)
StoreDone ==
    /\ pc = "storing" /\ step = "stored"
    /\ slot_used
    /\ goto("vision")
    /\ balls' = IF read_ok THEN balls + 1 ELSE balls
    /\ IF balls' >= BallCount \/ Last
       THEN IF armHome THEN finish_platform
            ELSE start_arm(vis, 10, "PLATFORM_WAIT_DEPARTURE_POSE")
       ELSE IF activeArm = 10 THEN start_arm(vis, 11, "PLATFORM_WAIT_POSE")
       ELSE enter_state(vis, "PLATFORM_SETTLE")
    /\ UNCHANGED <<evtQ, flags, attempts, chassisVars>>

-----------------------------------------------------------------------------
(* mission_handle_vision and mission_vision_process at the platform.       *)

SessionStopped ==
    /\ Replied("STOPPING") /\ vis.mail = "STOPPED"
    /\ keep(mission_reset_vision(Taken))

SessionReady ==
    /\ Replied("STARTING") /\ vis.mail = "READY"
    /\ LET v == [Taken EXCEPT !.phase = "LISTENING"] IN
       IF state = "PLATFORM_WAIT_VISION"
       THEN enter_state(v, "PLATFORM_WAIT_TARGET")
       ELSE send_chassis(v, "CAM_READY", "STAIR_SCANNING")

EventIgnored ==
    /\ Replied("LISTENING")
    /\ state # "PLATFORM_WAIT_TARGET" \/ vis.mail # "EVENT"
    /\ keep(Taken)

BallSeen ==
    /\ Replied("LISTENING")
    /\ state = "PLATFORM_WAIT_TARGET" /\ vis.mail = "EVENT"
    /\ \E ok \in submit_results(Taken) :
         IF ok THEN enter_state(acking(TRUE), "PLATFORM_WAIT_GRASP")
               ELSE mission_fail(With(acking(FALSE)), "VISION")

mission_handle_vision ==
    \/ DeferredStop \/ QuietListen \/ BusFault \/ AckSent \/ WrongReply
    \/ SessionStopped \/ SessionReady \/ EventIgnored \/ BallSeen

HandleVision ==
    /\ pc = "vision" /\ "VISION_DONE" \in got /\ vis.pending
    /\ mission_handle_vision
    /\ goto("process")
    /\ UNCHANGED <<evtQ, flags, storeVars, countVars, chassisVars>>

\* The confirmation of the ball went out: grasp it.
AckProcessed ==
    /\ pc = "process" /\ vis.phase = "ACKING" /\ ~Busy(vis)
    /\ LET v == mission_reset_vision(vis) IN
       IF state = "PLATFORM_WAIT_GRASP" THEN start_grasp(v)
       ELSE keep(v) /\ UNCHANGED attempts
    /\ goto("timeout")
    /\ UNCHANGED <<evtQ, flags, storeVars, balls, chassisVars>>

\* The pause after a store or a pose is a deadline of its own: the wait ends
\* with it, and mission_check_timeout then opens the session.
WakeSettled ==
    /\ pc = "wait" /\ flags = {} /\ state = "PLATFORM_SETTLE"
    /\ got' = {} /\ pc' = "process"
    /\ UNCHANGED <<ctxVars, evtQ, flags, userQ, stops, storeVars, countVars,
                   chassisVars>>

SettleOver ==
    /\ pc = "timeout" /\ state = "PLATFORM_SETTLE"
    /\ pc' = "wait" /\ got' = {}
    /\ start_vision(vis, "PLATFORM", "PLATFORM_WAIT_VISION")
    /\ UNCHANGED <<evtQ, flags, userQ, stops, storeVars, countVars, chassisVars>>

-----------------------------------------------------------------------------
MissionLoop ==
    \/ Wake \/ WakeLate(Timed) \/ HandleCommand \/ CommandsDone
    \/ EventsDone \/ ArmDone \/ VisionDone \/ ReadNext
    \/ NothingToProcess
    \/ CheckTimeout(Timed) /\ (state = "PLATFORM_SETTLE" => got # {})

Mission ==
    \/ MissionLoop /\ UNCHANGED <<storeVars, countVars, chassisVars>>
    \/ HandleChassis \/ ArmFail \/ ArmOk \/ BeginStore \/ Storing
    \/ StoreSeesStop \/ StoreFailed \/ StoreDone \/ HandleVision
    \/ AckProcessed \/ WakeSettled \/ SettleOver

ctxButCmd == <<state, fault, requestId, activeArm, armHome, vis, arm>>

Chassis ==
    /\ ChassisNext
    /\ UNCHANGED <<ctxButCmd, loopVars, storeVars, countVars>>

Devices ==
    \/ /\ PublishReply \/ ReleaseTransfer \/ ArmFailed
       /\ UNCHANGED <<storeVars, countVars, chassisVars>>
    \/ /\ ArmCompleted
       /\ IF arm = 12 THEN drop(attempts) ELSE UNCHANGED storeVars
       /\ UNCHANGED <<countVars, chassisVars>>
    \/ StoreDevices /\ UNCHANGED <<ctxVars, evtQ, flags, loopVars, countVars, chassisVars>>

\* mission_arm_report with no group running: a broken frame, or a report of a
\* group started or stopped, takes "home" back at any time; while the last
\* group reported is the active one it is also taken for its failure.
ArmNoise ==
    /\ DeviceFaults /\ arm = 0
    /\ armHome' = FALSE
    /\ flags' \in {flags, flags \cup {"ARM_FAIL"}}
    /\ UNCHANGED <<state, fault, requestId, activeArm, vis, arm, cmdQ, evtQ,
                   loopVars, storeVars, countVars, chassisVars>>

User == SubmitStop /\ UNCHANGED <<storeVars, countVars, chassisVars>>

\* The stage is over, or the robot rests and nothing is left to handle.
Over ==
    /\ pc = "wait" /\ flags = {}
    /\ cpc = "next" \/ (state \in {"STOPPED", "FAULT"} /\ cmdQ = <<>>)
    /\ UNCHANGED vars

Next == Mission \/ Chassis \/ Devices \/ ArmNoise \/ User \/ Over

Spec == PlatformInit /\ [][Next]_vars

\* Every task runs when it can, every transaction and motion ends; the pause
\* is looked at in every turn, and one of the looks finds it over.
Fairness ==
    /\ WF_vars(Mission) /\ WF_vars(Chassis) /\ WF_vars(Devices)
    /\ SF_vars(SettleOver)

FairSpec == Spec /\ Fairness

-----------------------------------------------------------------------------
\* Every variable has its type: the queues hold commands and events.
TypeOK ==
    /\ CoreTypeOK /\ ChassisTypeOK /\ StoreTypeOK
    /\ state \in PlatformStates
    /\ attempts \in 0..MaxAttempts /\ balls \in 0..BallCount

\* The arm moves only over a standing base, the turntable turns only under an
\* arm at rest, and a ball is dropped only into an empty slot.
TurnClearOfArm ==
    /\ arm # 0 => ~driving
    /\ motor \in {"coarse", "fine"} => arm = 0
    /\ arm = 12 => motor = "still" /\ loaded[pos] = 0

\* The books and the turntable agree: between two stores of a run that goes on
\* there is one record per used slot, in order, and the slot the program takes
\* to be under the arm really is.  A store in progress is at most one ahead.
SlotsAgree ==
    /\ Len(manifest) \in {storageSlot, storageSlot + 1}
    /\ \A i \in DOMAIN manifest : manifest[i].slot = i - 1
    /\ step = "off" /\ state \notin RestStates =>
         /\ Len(manifest) = storageSlot
         /\ currentSlot = storageSlot % SlotCount /\ pos = currentSlot

\* A record names the cell of the very ball that lies in its slot.  Only an
\* answer that comes after its wait ran out can put another ball's card there.
RecordNamesItsBall ==
    \A i \in DOMAIN manifest :
        manifest[i].cell # NoCell =>
            manifest[i].cell = Under(manifest[i].slot) \/ late

\* The base leaves for the stairs only when the last group the arm was given is
\* the one that takes it home, and it is done; the turntable is still and no
\* session is open.  Whether "home" is still believed then is up to the line.
LeavesTidy ==
    cpc = "next" /\ state \notin RestStates =>
        /\ activeArm = 10 /\ arm = 0 /\ motor = "still"
        /\ vis.phase = "IDLE" /\ step = "off"

\* Once the run is stopping, stopped or failed it stays so, whatever the store
\* under way still reports: no arm starts, no ball is used up, and STOP is the
\* only command sent.
RestIsKept ==
    state \in RestStates =>
        /\ state' \in RestStates /\ arm' \in {0, arm}
        /\ storageSlot' = storageSlot
        /\ Len(cmdQ') > Len(cmdQ) => (cmdQ')[Len(cmdQ')].type = "STOP"
NoReleaseAfterStop == [][RestIsKept]_vars

\* The stage ends, on the way to the stairs or at rest, or it looks for a ball
\* for ever: neither a lost card nor an unconfirmed slot nor a lost answer of
\* Nano holds it up anywhere else.
PlatformEnds ==
    \/ <>(cpc = "next" \/ state \in RestStates)
    \/ <>[](state = "PLATFORM_WAIT_TARGET")
=============================================================================

------------------------------ MODULE StartRun ------------------------------
(***************************************************************************)
(* From power-up to departure: the arm goes home, the vision model warms   *)
(* up, the base reports, the user chooses a side and presses KEY1, the two *)
(* tasks shake hands, and a second later GO_PLATFORM is sent.  The stage   *)
(* ends when the base drives, or at rest in STOPPED or FAULT.  The vision  *)
(* mailbox only carries model queries here, which open no session.         *)
(***************************************************************************)
EXTENDS MissionCore, ChassisBoot

CONSTANT Settings   \* what KEY1 and the two switches are set to, at one time

Panels == [key : BOOLEAN, blue : BOOLEAN, backup : BOOLEAN]
Released == [key |-> FALSE, blue |-> FALSE, backup |-> FALSE]

ASSUME SettingsAssumption == Released \in Settings /\ Settings \subseteq Panels

VARIABLES
    query,         \* the model query: "none", "asked", or the reply to it
    modelReady,    \* ctx->block_model_ready
    chassisReady,  \* ctx->chassis_ready
    baseReady,     \* g_start.base_ready
    confirmed,     \* g_start.confirmed
    departed,      \* g_start.departed
    armed,         \* g_start.armed
    sample,        \* g_start.raw
    pressed,       \* KEY1 in g_start.stable
    keys,          \* KEY1 and the two switches as they really are
    early          \* KEY1 went down before the robot was ready

gateVars == <<query, modelReady, chassisReady, baseReady, departed>>
panelVars == <<confirmed, armed, sample, pressed>>
userVars == <<keys, early>>
bootVars == <<gateVars, panelVars, userVars, choiceVars>>
vars == <<ctxVars, evtQ, flags, loopVars, bootVars, chassisVars>>
ctxButCmd == <<state, fault, requestId, activeArm, armHome, vis, arm>>

Answers == {"READY", "WARMING", "ERROR", "LOST"}
StartStates ==
    {"WAIT_HOME", "WAIT_CHASSIS_READY", "READY", "WAIT_PLATFORM"} \cup RestStates

\* Mutant: once KEY1 is confirmed the handshake has no deadline.
timed_after_departure == state \in {"STOPPING", "WAIT_PLATFORM"}

\* The states with a deadline; WAIT_CHASSIS_READY has one once KEY1 confirmed.
Timed == \/ state \in {"STOPPING", "WAIT_PLATFORM"}
         \/ state = "WAIT_CHASSIS_READY" /\ confirmed

StartInit ==
    /\ state = "WAIT_HOME" /\ fault = "NONE"
    /\ requestId = 0
    /\ activeArm = 10 /\ armHome = FALSE /\ arm = 10
    /\ vis = IdleVision
    /\ cmdQ = <<>> /\ LinkInit
    /\ userQ = 0 /\ stops = 0 /\ got = {} /\ pc = "top"
    /\ query = "none"
    /\ modelReady = FALSE /\ chassisReady = FALSE /\ baseReady = FALSE
    /\ confirmed = FALSE /\ departed = FALSE /\ armed = FALSE
    /\ sample = Released /\ pressed = FALSE
    /\ keys = Released /\ early = FALSE
    /\ ChassisInit

-----------------------------------------------------------------------------
(* mission_start_panel, which runs twice in a turn of the main loop.       *)

\* What the robot itself needs before KEY1 counts.
Ready ==
    /\ state = "WAIT_CHASSIS_READY" /\ fault = "NONE"
    /\ armHome /\ modelReady /\ baseReady

StillArmed == armed /\ Ready

\* The sample changed, or it has not been the same for 50 ms.
Bouncing ==
    /\ sample' = keys /\ armed' = StillArmed
    /\ UNCHANGED <<confirmed, pressed, choiceVars>>

\* Mutant: the key need not have been seen released.
accepts_held == Ready /\ ~(keys.blue /\ keys.backup)

\* Mutant: the backup run is not refused to blue.
accepts_any_mode == StillArmed

\* A press counts if KEY1 was seen released while all was ready; blue has no
\* backup run.
Accepts == StillArmed /\ ~(keys.blue /\ keys.backup)

Confirm ==
    /\ confirmed' = TRUE
    /\ runMode' = IF keys.backup THEN "RED_BACKUP" ELSE "FORMAL"
    /\ side' = IF keys.blue THEN "BLUE" ELSE "RED"

Reject == UNCHANGED <<confirmed, choiceVars>>

Settled ==
    /\ sample = keys
    /\ IF keys.key /\ ~pressed /\ Accepts THEN Confirm ELSE Reject
    /\ armed' = (~keys.key /\ Ready)
    /\ pressed' = keys.key
    /\ UNCHANGED sample

mission_start_panel ==
    IF confirmed \/ departed
    THEN UNCHANGED <<panelVars, choiceVars>>
    ELSE Bouncing \/ Settled

-----------------------------------------------------------------------------
(* The readiness gate.                                                     *)

gate_open(s) ==
    /\ s = "WAIT_CHASSIS_READY" /\ chassisReady'
    /\ armHome /\ modelReady' /\ side # "NONE" /\ confirmed

\* mission_try_ready, in state s and with the request id of the handshake
mission_try_ready(s, id) ==
    IF gate_open(s)
    THEN \/ /\ CommandRoom
            /\ cmdQ' = Sent("MISSION_READY", id)
            /\ state' = "READY" /\ requestId' = id
            /\ UNCHANGED <<fault, activeArm, armHome, vis, arm>>
         \/ ~CommandRoom /\ mission_fail([Now EXCEPT !.id = id], "QUEUE")
    ELSE /\ state' = s /\ requestId' = id
         /\ UNCHANGED <<fault, activeArm, armHome, vis, arm, cmdQ>>

Waiting == state \in {"WAIT_HOME", "WAIT_CHASSIS_READY"}

(* mission_handle_chassis, one disjunct per branch.                        *)

OnBase(e) ==
    /\ e.type = "BASE_READY"
    /\ baseReady' = e.ok /\ UNCHANGED chassisReady
    /\ IF e.ok THEN keep(vis) ELSE mission_fail(Now, "CHASSIS")

\* An offer is only heard until it was answered; later ones are repetitions.
OnOffer(e) ==
    /\ e.type = "MISSION_READY" /\ Waiting /\ e.ok
    /\ chassisReady' = TRUE
    /\ UNCHANGED <<baseReady, modelReady>>
    /\ mission_try_ready(state, e.id)
OnRefusal(e) ==
    /\ e.type = "MISSION_READY" /\ Waiting /\ ~e.ok
    /\ mission_fail(Now, "CHASSIS")
    /\ UNCHANGED <<chassisReady, baseReady>>
OnStopped(e) ==
    /\ e.type = "STOPPED" /\ e.id = requestId /\ state = "STOPPING"
    /\ enter_state(vis, "STOPPED")
    /\ UNCHANGED <<chassisReady, baseReady>>
OnUnexpected(e) ==
    /\ \/ e.type = "MISSION_READY" /\ ~Waiting
       \/ e.type = "STOPPED" /\ (e.id # requestId \/ state # "STOPPING")
    /\ keep(vis)
    /\ UNCHANGED <<chassisReady, baseReady>>

HandleChassis ==
    /\ pc = "events" /\ "EVENT" \in got /\ evtQ # <<>>
    /\ evtQ' = Tail(evtQ)
    /\ LET e == Head(evtQ) IN
       OnBase(e) \/ OnOffer(e) \/ OnRefusal(e) \/ OnStopped(e) \/ OnUnexpected(e)
    /\ UNCHANGED <<flags, loopVars, query, modelReady, departed, panelVars,
                   userVars, choiceVars, chassisVars>>

(* mission_handle_arm                                                      *)

ArmFail ==
    /\ pc = "arm" /\ "ARM_FAIL" \in got
    /\ goto("vision")
    /\ IF state = "WAIT_HOME" THEN mission_fail(Now, "ARM") ELSE keep(vis)
    /\ UNCHANGED <<evtQ, flags, bootVars, chassisVars>>

\* The arm is home: ask the turntable for its options and wait for them.
ArmOk ==
    /\ pc = "arm" /\ "ARM_OK" \in got /\ "ARM_FAIL" \notin got
    /\ goto("vision")
    /\ UNCHANGED <<evtQ, flags, bootVars, chassisVars>>
    /\ IF state = "WAIT_HOME"
       THEN \/ mission_try_ready("WAIT_CHASSIS_READY", requestId)
            \/ DeviceFaults /\ mission_fail(Now, "STORAGE")
       ELSE keep(vis)

(* The model query of mission_model_process and mission_handle_vision.     *)

Replies == {"READY", "WARMING"} \cup (IF DeviceFaults THEN Answers ELSE {})

\* Only before departure; STOP and faults have left those two states.
ModelAnswered ==
    /\ pc = "vision" /\ "VISION_DONE" \in got /\ query \in Answers
    /\ goto("process")
    /\ query' = "none"
    /\ UNCHANGED <<evtQ, flags, chassisReady, baseReady, departed, panelVars,
                   userVars, choiceVars, chassisVars>>
    /\ IF Waiting /\ query # "ERROR"
       THEN modelReady' = (query = "READY") /\ mission_try_ready(state, requestId)
       ELSE /\ UNCHANGED modelReady
            /\ IF Waiting THEN mission_fail(Now, "VISION") ELSE keep(vis)

NothingAnswered ==
    /\ pc = "vision" /\ ("VISION_DONE" \notin got \/ query \notin Answers)
    /\ goto("process")
    /\ UNCHANGED <<ctxVars, evtQ, flags, bootVars, chassisVars>>

\* The top of the loop: a query, at most one a second, then the panel.
TopOfLoop ==
    /\ pc = "top" /\ goto("wait")
    /\ \/ UNCHANGED query
       \/ query = "none" /\ Waiting /\ ~modelReady /\ query' = "asked"
    /\ mission_start_panel
    /\ UNCHANGED <<ctxVars, evtQ, flags, modelReady, chassisReady, baseReady,
                   departed, userVars, chassisVars>>

Process ==
    /\ pc = "process" /\ goto("timeout")
    /\ mission_start_panel
    /\ UNCHANGED <<ctxVars, evtQ, flags, gateVars, userVars, chassisVars>>

\* Before departure no wait is longer than 10 ms.
Tick ==
    /\ pc = "wait" /\ flags = {} /\ ~departed
    /\ got' = {} /\ pc' = "process"
    /\ UNCHANGED <<ctxVars, evtQ, flags, userQ, stops, bootVars, chassisVars>>

-----------------------------------------------------------------------------
(* mission_check_timeout                                                   *)

NotDue ==
    /\ pc = "timeout"
    /\ pc' = "top" /\ got' = {}
    /\ UNCHANGED <<ctxVars, evtQ, flags, userQ, stops, bootVars, chassisVars>>

Overdue ==
    /\ pc = "timeout" /\ Expiry /\ Timed
    /\ pc' = "top" /\ got' = {}
    /\ mission_fail(Now, "TIMEOUT")
    /\ UNCHANGED <<evtQ, flags, userQ, stops, bootVars, chassisVars>>

\* Mutant: what was ready when the second began is taken to be ready still.
still_ready_assumed == TRUE

\* The second after the handshake is over: everything is checked once more.
still_ready ==
    /\ confirmed /\ baseReady /\ chassisReady /\ armHome /\ modelReady
    /\ fault = "NONE" /\ side # "NONE"

\* mission_start_run
start_run ==
    /\ IF CommandRoom THEN departed' = TRUE ELSE UNCHANGED departed
    /\ send_new_stage(vis, "GO_PLATFORM", "WAIT_PLATFORM")

DelayOver ==
    /\ pc = "timeout" /\ state = "READY"
    /\ pc' = "top" /\ got' = {}
    /\ IF still_ready THEN start_run
       ELSE mission_fail(Now, "PROTOCOL") /\ UNCHANGED departed
    /\ UNCHANGED <<evtQ, flags, userQ, stops, query, modelReady, chassisReady,
                   baseReady, panelVars, userVars, choiceVars, chassisVars>>

-----------------------------------------------------------------------------
(* The user, the devices and the chassis.                                  *)

(***************************************************************************)
(* The user presses and releases KEY1 and flips the switches at any time:  *)
(* only what the next sample of the panel finds, and whether the robot was *)
(* ready at that moment, makes a difference.  A robot that rests, or that  *)
(* is confirmed, does not look any more.                                   *)
(***************************************************************************)
UseKeys ==
    /\ ~confirmed /\ state \notin RestStates /\ pc = "wait"
    /\ keys' \in Settings \ {keys}
    /\ early' = IF keys'.key /\ ~keys.key THEN ~Ready ELSE early
    /\ UNCHANGED <<ctxVars, evtQ, flags, loopVars, gateVars, panelVars,
                   choiceVars, chassisVars>>

AnswerModel ==
    /\ query = "asked"
    /\ query' \in Replies
    /\ flags' = flags \cup {"VISION_DONE"}
    /\ UNCHANGED <<ctxVars, evtQ, loopVars, modelReady, chassisReady, baseReady,
                   departed, panelVars, userVars, choiceVars, chassisVars>>

\* A broken frame on the arm's line clears ctx->arm_home_ready at any time.
ArmNoise ==
    /\ DeviceFaults /\ armHome
    /\ armHome' = FALSE
    /\ flags' = flags \cup {"ARM_FAIL"}
    /\ UNCHANGED <<state, fault, requestId, activeArm, vis, arm, cmdQ, evtQ,
                   loopVars, bootVars, chassisVars>>

MissionLoop ==
    \/ /\ Wake \/ HandleCommand \/ CommandsDone \/ EventsDone \/ ArmDone
       /\ UNCHANGED <<bootVars, chassisVars>>
    \/ HandleChassis \/ ArmFail \/ ArmOk \/ ModelAnswered \/ NothingAnswered
    \/ TopOfLoop \/ Process \/ Tick \/ NotDue
Mission == MissionLoop \/ Overdue \/ DelayOver

Chassis ==
    /\ ChassisNext \/ OfferAgain(pc = "wait")
    /\ UNCHANGED <<ctxButCmd, loopVars, bootVars>>

Devices ==
    \/ AnswerModel
    \/ ArmCompleted /\ UNCHANGED <<bootVars, chassisVars>>
Disturbances ==
    \/ ArmNoise \/ UseKeys
    \/ /\ ArmFailed \/ SubmitStop
       /\ UNCHANGED <<bootVars, chassisVars>>

\* The base drives, or the robot rests and nothing is left to handle.
Over ==
    /\ pc = "wait" /\ flags = {}
    /\ cpc = "gone" \/ (state \in {"STOPPED", "FAULT"} /\ cmdQ = <<>>)
    /\ UNCHANGED vars

Next == Mission \/ Chassis \/ Devices \/ Disturbances \/ Over

Spec == StartInit /\ [][Next]_vars

\* Every task runs when it can and every device answers.  A deadline that is
\* looked at again and again is found over in the end.
Fairness ==
    /\ WF_vars(Mission) /\ WF_vars(Chassis) /\ WF_vars(Devices)
    /\ SF_vars(DelayOver) /\ SF_vars(Overdue)

FairSpec == Spec /\ Fairness

-----------------------------------------------------------------------------
\* Every variable has its type; before the handshake the request id is 0.
TypeOK ==
    /\ state \in StartStates
    /\ fault \in Faults /\ requestId \in 0..IdMax
    /\ activeArm = 10 /\ arm \in {0, 10} /\ vis = IdleVision
    /\ userQ \in 0..CommandDepth /\ stops \in 0..StopBudget
    /\ got \subseteq FlagNames /\ flags \subseteq FlagNames
    /\ pc \in LoopStages \cup {"top"}
    /\ query \in Answers \cup {"none", "asked"}
    /\ {modelReady, chassisReady, baseReady, confirmed, departed, armed,
        pressed, armHome, early} \subseteq BOOLEAN
    /\ {sample, keys} \subseteq Settings
    /\ Len(cmdQ) <= QueueDepth /\ Len(evtQ) <= QueueDepth
    /\ ChassisTypeOK

\* A key held down while the robot warms up does not start it: the press that
\* confirms began when all was ready.
PressIsFresh == confirmed => ~early

\* The base prepares for, and drives, the run the user confirmed: on the side
\* that was chosen, and the backup run on red only.
ChoiceHolds ==
    /\ applied # "NONE" => confirmed /\ applied = side
    /\ cpc \in {"backup", "gone"} => side = "RED" \/ runMode = "FORMAL"
    /\ driving => departed

\* GO_PLATFORM is sent only while arm, base, chassis and model are ready and
\* nothing failed, even if one of them changed in the second since the check.
DepartReady ==
    departed' # departed =>
        /\ armHome /\ arm = 0 /\ modelReady /\ baseReady /\ chassisReady
        /\ confirmed /\ fault = "NONE" /\ state = "READY"
DepartsOnlyReady == [][DepartReady]_vars

\* A confirmed start never hangs between the tasks, and a STOP before departure
\* is never left open: the base drives off or the robot rests.
StartLeadsOn ==
    (confirmed \/ state = "STOPPING")
        ~> (driving \/ state \in {"STOPPED", "FAULT"})
=============================================================================

------------------------------ MODULE DepotRun ------------------------------
(***************************************************************************)
(* The depot: three building blocks are moved to the free column, then the *)
(* balls on board are placed in the columns whose digits Nano reads, and   *)
(* the base goes home.  It joins the Mission task and the chassis task     *)
(* from the moment GO_DEPOT_1 is queued to COMPLETE, STOPPED or FAULT.     *)
(***************************************************************************)
EXTENDS MissionCore, ChassisDepot, BallManifest

CONSTANTS
    Sides,      \* the sides to start on, out of RED and BLUE
    Loads,      \* per side, what the balls' cards said, as sequences of cells
    Signs,      \* the digit shown at each station of a side, 0 for none
    Lookalikes, \* the digits Nano takes a digit for when it reads wrongly
    Misreads,   \* bound: how often it does
    FirstId     \* the request id this stage starts with

ASSUME SidesAssumption == Sides \subseteq {"RED", "BLUE"}
ASSUME LoadsAssumption ==
    /\ Sides \subseteq DOMAIN Loads
    /\ \A s \in Sides : \A l \in Loads[s] :
         l \in Seq(Cells \cup {NoCell}) /\ Len(l) <= Capacity
ASSUME SignsAssumption ==
    \A s \in Sides : s \in DOMAIN Signs /\ Signs[s] \in [Stations -> 0..3]
ASSUME MisreadsAssumption ==
    Misreads \in Nat /\ Lookalikes \in [1..3 -> SUBSET (1..3)]
ASSUME FirstIdAssumption == FirstId \in 1..IdMax

VARIABLES
    side,       \* g_mission_side
    manifest,   \* ctx->manifest
    block,      \* ctx->block_*
    depot,      \* ctx->depot_* and ctx->current_slot
    seen,       \* the digit in the reply mailbox
    misread,    \* wrong digits so far
    held        \* the gripper holds a building block

depotVars == <<side, manifest, block, depot>>
worldVars == <<seen, misread, held>>
vars == <<ctxVars, evtQ, flags, loopVars, depotVars, worldVars, chassisVars>>

BlockArmStates == {"BLOCK_PREPARE", "BLOCK_WAIT_POSE", "BLOCK_WAIT_GRASP",
                   "BLOCK_WAIT_PLACE", "BLOCK_FINISH"}
BlockMoveStates == {"BLOCK_WAIT_POSITION", "BLOCK_WAIT_D4", "BLOCK_RETURN_DEPOT"}
DepotArmStates == {"DEPOT_PREPARE", "DEPOT_SAFE", "DEPOT_AVOID", "DEPOT_PICK",
                   "DEPOT_PLACE", "DEPOT_RETURN"}
DepotStates ==
    {"WAIT_DEPOT_1", "BLOCK_SETTLE", "BLOCK_WAIT_DIGIT", "DEPOT_SEEK",
     "DEPOT_WAIT_POSITION", "DEPOT_WAIT_DIGIT", "DEPOT_DIGIT_STOP",
     "DEPOT_RETURN_ENTRY", "DEPOT_WAIT_HOME", "COMPLETE"}
    \cup BlockArmStates \cup BlockMoveStates \cup DepotArmStates \cup RestStates

\* A block whose digit cannot be confirmed, a camera that fails, and no result:
\* block_result is read only while block_result_received.
NoValid == 0
ScanFault == 4
NoResult == 5

BlockType == [stage : 0..2, step : 0..3, digit : 0..3, point : 0..4,
              result : 0..NoResult]
NoBlock == [stage |-> 0, step |-> 0, digit |-> 0, point |-> 0, result |-> NoResult]
DepotType == [position : 0..4, slot : 0..SlotCount-1, target : 0..SlotCount-1,
              preparing : BOOLEAN, abnormal : SUBSET (1..Capacity),
              used : SUBSET (1..3), first : 0..3, digit : 0..3, column : 0..3,
              sequence : 0..Capacity, row : 0..3]

\* The states whose deadline is over as soon as the loop gets to it.
Due == state \in {"BLOCK_SETTLE", "DEPOT_SEEK"}

\* The states with a deadline of seconds; a depot session has none until READY.
Timed ==
    /\ state \notin {"STOPPED", "FAULT", "COMPLETE"} /\ ~Due
    /\ state = "DEPOT_WAIT_DIGIT" => vis.phase # "STARTING"

\* Ball by ball the turntable moved on by one slot (mission_store_ball).
Stored(load) == [i \in DOMAIN load |-> Appended(i - 1, load[i])]

DepotInit ==
    /\ state = "WAIT_DEPOT_1" /\ fault = "NONE"
    /\ requestId = FirstId
    /\ activeArm = 10 /\ armHome = TRUE /\ arm = 0
    /\ vis = IdleVision
    /\ cmdQ = <<Command("GO_DEPOT_1", FirstId)>>
    /\ userQ = 0 /\ stops = 0 /\ got = {} /\ pc = "wait"
    /\ side \in Sides
    /\ \E load \in Loads[side] :
         /\ manifest = Stored(load)
         /\ depot = [position |-> 0, slot |-> Len(load), target |-> 0,
                     preparing |-> FALSE, abnormal |-> {}, used |-> {},
                     first |-> 0, digit |-> 0, column |-> 0, sequence |-> 0,
                     row |-> 0]
    /\ block = NoBlock
    /\ seen = 0 /\ misread = 0 /\ held = FALSE
    /\ LinkInit /\ ChassisInit

-----------------------------------------------------------------------------
(* The actions of MissionCore with the context of the depot: c holds what  *)
(* the handler has written so far.                                         *)

Ctx == [vis |-> vis, id |-> requestId, active |-> activeArm,
        block |-> block, depot |-> depot, manifest |-> manifest]

written(c) ==
    /\ block' = c.block /\ depot' = c.depot /\ manifest' = c.manifest
    /\ UNCHANGED side

enter(c, s) ==
    /\ state' = s /\ vis' = c.vis /\ requestId' = c.id /\ activeArm' = c.active
    /\ UNCHANGED <<fault, armHome, arm, cmdQ>>
    /\ written(c)

fail(c, f) == mission_fail(c, f) /\ written(c)

run_arm(c, group, s) == start_arm(c.vis, group, s) /\ written(c)

look(c, scene, s) == start_vision(c.vis, scene, s) /\ written(c)

\* mission_next_request_id, mission_send_chassis, mission_enter_state
go(c, type, s) ==
    LET n == [c EXCEPT !.id = mission_next_request_id(@)] IN
    \/ /\ CommandRoom
       /\ cmdQ' = Sent(type, n.id)
       /\ state' = s /\ vis' = n.vis /\ requestId' = n.id /\ activeArm' = n.active
       /\ UNCHANGED <<fault, armHome, arm>>
       /\ written(n)
    \/ ~CommandRoom /\ fail(n, "QUEUE")

-----------------------------------------------------------------------------
(* Placing the balls.                                                      *)

mission_depot_ccw_steps(from, to) == (from + SlotCount - to) % SlotCount

\* Where a side enters the depot, and where its blocks go.
EntryPoint == IF side = "BLUE" THEN 2 ELSE 4
mission_block_place_point == IF side = "BLUE" THEN 1 ELSE 4

\* A ball that cannot be placed; of two with the same cell the first is kept.
Misfit(r) ==
    \/ r.state \notin {"STORED", "READ_FAILED"}
    \/ Target(r) \notin Cells
    \/ side = "RED" /\ Target(r)[2] = 4
Abnormal(m) ==
    {i \in DOMAIN m :
        \/ Misfit(m[i])
        \/ \E j \in 1..i-1 : ~Misfit(m[j]) /\ Target(m[j]) = Target(m[i])}

\* Mutant: the turntable does not wait for the arm.
seek_at_once(c, s) ==
    \/ armHome /\ enter(c, "DEPOT_SEEK")
    \/ ~armHome /\ run_arm(c, 10, "DEPOT_SEEK")

\* Turn to the slot in depot.target once the arm is out of the way.
seek(c, s) ==
    \/ armHome /\ enter(c, "DEPOT_SEEK")
    \/ ~armHome /\ run_arm(c, 10, s)

mission_depot_prepare(c) ==
    \/ /\ ~(SlotsDiffer(c.manifest) /\ DrawnFits(c.manifest) /\ CellsSuffice(c.manifest))
       /\ fail(c, "STORAGE")
    \/ /\ SlotsDiffer(c.manifest) /\ DrawnFits(c.manifest)
       /\ \E m \in plan_fallback(c.manifest) :
            LET d == [c EXCEPT !.block = NoBlock,   \* nothing reads it from here on
                               !.manifest = m, !.depot.abnormal = Abnormal(m),
                               !.depot.position = EntryPoint, !.depot.used = {},
                               !.depot.first = 0, !.depot.preparing = TRUE,
                               !.depot.target = c.depot.slot]
            IN seek(d, "DEPOT_PREPARE")

mission_depot_start_digit(c) ==
    look([c EXCEPT !.depot.digit = 0], "DEPOT_DIGIT", "DEPOT_WAIT_DIGIT")

\* The balls for the column the base is at, and the nearest of them.
InColumn(c) ==
    {i \in DOMAIN c.manifest \ c.depot.abnormal :
        /\ c.manifest[i].state \in {"STORED", "READ_FAILED"}
        /\ Target(c.manifest[i])[2] = c.depot.column}
Steps(c, i) == mission_depot_ccw_steps(c.depot.slot, c.manifest[i].slot)

next_station(c) ==
    LET to(n) == [c EXCEPT !.depot.position = n] IN
    CASE side = "RED" /\ c.depot.position = 1 ->
            go(c, "DEPOT_OK", "DEPOT_WAIT_HOME")
      [] side = "BLUE" /\ c.depot.position = 4 ->
            go(c, "GO_DEPOT_1", "DEPOT_RETURN_ENTRY")
      [] OTHER ->
            LET n == c.depot.position + (IF side = "RED" THEN -1 ELSE 1)
            IN go(to(n), GoDepot[n], "DEPOT_WAIT_POSITION")

mission_depot_next_ball(c) ==
    \/ InColumn(c) = {} /\ next_station(c)
    \/ \E i \in InColumn(c) :
         /\ \A j \in InColumn(c) : Steps(c, i) <= Steps(c, j)
         /\ LET d == [c EXCEPT !.depot.sequence = i,
                               !.depot.row = Target(c.manifest[i])[1],
                               !.depot.target = c.manifest[i].slot]
            IN seek(d, "DEPOT_AVOID")

\* Mutant: a digit is believed at once.
digit_done_once(c) ==
    LET d == c.depot.digit IN
    mission_depot_next_ball([c EXCEPT !.depot.used = @ \cup {d}, !.depot.column = d])

\* Two sessions must agree on a column that was not used before.
mission_depot_digit_done(c) ==
    LET d == c.depot.digit IN
    \/ d = 0 /\ fail(c, "VISION")
    \/ /\ d # 0 /\ c.depot.first = 0
       /\ mission_depot_start_digit([c EXCEPT !.depot.first = d])
    \/ /\ d # 0 /\ c.depot.first # 0
       /\ d # c.depot.first \/ d \in c.depot.used
       /\ fail(c, "VISION")
    \/ /\ d # 0 /\ d = c.depot.first /\ d \notin c.depot.used
       /\ mission_depot_next_ball([c EXCEPT !.depot.used = @ \cup {d},
                                            !.depot.column = d])

PlaceGroup(row) == CASE row = 3 -> 23 [] row = 2 -> 25 [] OTHER -> 26

\* mission_depot_arm_done in DEPOT_RETURN
ball_done(c) ==
    mission_depot_next_ball([c EXCEPT !.manifest = mark_placed(@, c.depot.sequence)])

\* mission_depot_arm_done in DEPOT_SAFE: the first time the arm is only out of
\* the way, later the ball in front of it is picked up.
safe_done(c) ==
    LET d == [c EXCEPT !.depot.preparing = FALSE] IN
    \/ ~c.depot.preparing /\ run_arm(c, 22, "DEPOT_PICK")
    \/ /\ c.depot.preparing /\ side = "RED"
       /\ go([d EXCEPT !.depot.position = 3], "GO_DEPOT_3", "DEPOT_WAIT_POSITION")
    \/ c.depot.preparing /\ side = "BLUE" /\ mission_depot_start_digit(d)

mission_depot_arm_done(c) ==
    \/ state \in {"DEPOT_PREPARE", "DEPOT_AVOID"} /\ enter(c, "DEPOT_SEEK")
    \/ state = "DEPOT_SAFE" /\ safe_done(c)
    \/ state = "DEPOT_PICK" /\ run_arm(c, PlaceGroup(c.depot.row), "DEPOT_PLACE")
    \/ state = "DEPOT_PLACE" /\ run_arm(c, 10, "DEPOT_RETURN")
    \/ state = "DEPOT_RETURN" /\ ball_done(c)

\* The slot is reached: an arm that is home goes on at once.
slot_reached(c) ==
    \/ armHome /\ safe_done(c)
    \/ ~armHome /\ run_arm(c, 10, "DEPOT_SAFE")

-----------------------------------------------------------------------------
(* Moving the building blocks: for each layer, from the top, look for a    *)
(* digit at three stations, and put the block where the digit says.        *)

VisionGroups == <<28, 29, 30>>      \* by source layer
GraspGroups == <<31, 33, 35>>
PlaceGroups == <<36, 34, 32>>       \* by digit

mission_block_scan_point_id(stage, step) ==
    IF side = "BLUE" THEN step + 2
    ELSE IF stage = 0 THEN step + 1 ELSE 3 - step

\* Mutant: the digit of the layer before is kept.
start_layer_keeps_digit(c) ==
    run_arm([c EXCEPT !.block.step = 0], VisionGroups[c.block.stage + 1],
            "BLOCK_WAIT_POSE")

mission_block_start_layer(c) ==
    run_arm([c EXCEPT !.block.step = 0, !.block.digit = 0],
            VisionGroups[c.block.stage + 1], "BLOCK_WAIT_POSE")

mission_block_next_layer(c) ==
    IF c.block.stage < 2
    THEN mission_block_start_layer([c EXCEPT !.block.stage = @ + 1])
    ELSE run_arm(c, 10, "BLOCK_FINISH")

\* The base stands where state s wanted it.
mission_block_position_done(c, s) ==
    \/ s = "BLOCK_WAIT_POSITION" /\ enter(c, "BLOCK_SETTLE")
    \/ /\ s = "BLOCK_WAIT_D4" /\ c.block.digit # 0
       /\ run_arm(c, PlaceGroups[c.block.digit], "BLOCK_WAIT_PLACE")
    \/ s = "BLOCK_WAIT_D4" /\ c.block.digit = 0 /\ mission_block_next_layer(c)
    \/ s = "BLOCK_RETURN_DEPOT" /\ mission_depot_prepare(c)

mission_block_move(c, n, s) ==
    LET d == [c EXCEPT !.block.point = n] IN
    IF c.depot.position = n THEN mission_block_position_done(d, s)
                            ELSE go(d, GoDepot[n], s)

mission_block_scan_point(c) ==
    mission_block_move(c, mission_block_scan_point_id(c.block.stage, c.block.step),
                       "BLOCK_WAIT_POSITION")

\* The group is consumed first: a repeated report of it moves nothing.
mission_block_arm_done ==
    LET c == [Ctx EXCEPT !.active = 0] IN
    \/ state = "BLOCK_PREPARE" /\ mission_block_start_layer(c)
    \/ state = "BLOCK_WAIT_POSE" /\ mission_block_scan_point(c)
    \/ /\ state = "BLOCK_WAIT_GRASP"
       /\ mission_block_move(c, mission_block_place_point, "BLOCK_WAIT_D4")
    \/ state = "BLOCK_WAIT_PLACE" /\ mission_block_next_layer(c)
    \/ /\ state = "BLOCK_FINISH"
       /\ mission_block_move(c, EntryPoint, "BLOCK_RETURN_DEPOT")

mission_block_begin ==
    LET c == [Ctx EXCEPT !.block.stage = 0, !.block.step = 0, !.block.digit = 0,
                         !.block.result = NoResult, !.depot.position = 1]
    IN \/ armHome /\ mission_block_start_layer(c)
       \/ ~armHome /\ run_arm(c, 10, "BLOCK_PREPARE")

mission_block_digit_done(c) ==
    LET d == [c EXCEPT !.block.result = NoResult] IN
    \/ /\ c.block.result \in 1..3
       /\ run_arm([d EXCEPT !.block.digit = c.block.result],
                  GraspGroups[c.block.stage + 1], "BLOCK_WAIT_GRASP")
    \/ /\ c.block.result = NoValid
       /\ LET n == [d EXCEPT !.block.step = @ + 1] IN
          \/ n.block.step < 3 /\ mission_block_scan_point(n)
          \/ /\ n.block.step >= 3
             /\ mission_block_move(n, mission_block_place_point, "BLOCK_WAIT_D4")
    \/ c.block.result = ScanFault /\ fail(d, "VISION")

-----------------------------------------------------------------------------
(* mission_handle_chassis, one disjunct per branch.                        *)

OnStale(e) == e.id # requestId /\ enter(Ctx, state)
OnFailure(e) == e.id = requestId /\ ~e.ok /\ fail(Ctx, "CHASSIS")

OnStopped(e) == state = "STOPPING" /\ e.type = "STOPPED" /\ enter(Ctx, "STOPPED")

OnDepotReached(e) ==
    state = "WAIT_DEPOT_1" /\ e.type = "DEPOT_1_READY" /\ mission_block_begin

OnStation(e) ==
    /\ state = "DEPOT_WAIT_POSITION" /\ e.type = DepotReady[depot.position]
    /\ mission_depot_start_digit([Ctx EXCEPT !.depot.first = 0])

OnEntryAgain(e) ==
    /\ state = "DEPOT_RETURN_ENTRY" /\ e.type = "DEPOT_1_READY"
    /\ go([Ctx EXCEPT !.depot.position = 1], "DEPOT_OK", "DEPOT_WAIT_HOME")

OnHome(e) ==
    state = "DEPOT_WAIT_HOME" /\ e.type = "HOME_READY" /\ enter(Ctx, "COMPLETE")

OnBlockStation(e) ==
    /\ state \in BlockMoveStates /\ e.type = DepotReady[block.point]
    /\ mission_block_position_done([Ctx EXCEPT !.depot.position = block.point], state)

\* Everything else falls through all branches.
Expected(e) ==
    \/ state = "STOPPING" /\ e.type = "STOPPED"
    \/ state = "DEPOT_WAIT_HOME" /\ e.type = "HOME_READY"
    \/ state \in {"WAIT_DEPOT_1", "DEPOT_RETURN_ENTRY"} /\ e.type = "DEPOT_1_READY"
    \/ state = "DEPOT_WAIT_POSITION" /\ e.type = DepotReady[depot.position]
    \/ state \in BlockMoveStates /\ e.type = DepotReady[block.point]
OnUnexpected(e) == ~Expected(e) /\ enter(Ctx, state)

mission_handle_chassis(e) ==
    \/ OnStale(e) \/ OnFailure(e)
    \/ /\ e.id = requestId /\ e.ok
       /\ \/ OnStopped(e) \/ OnDepotReached(e) \/ OnStation(e) \/ OnEntryAgain(e)
          \/ OnHome(e) \/ OnBlockStation(e) \/ OnUnexpected(e)

HandleChassis ==
    /\ pc = "events" /\ "EVENT" \in got /\ evtQ # <<>>
    /\ evtQ' = Tail(evtQ)
    /\ mission_handle_chassis(Head(evtQ))
    /\ UNCHANGED <<flags, loopVars, worldVars, chassisVars>>

-----------------------------------------------------------------------------
(* mission_handle_arm                                                      *)

ArmFail ==
    /\ pc = "arm" /\ "ARM_FAIL" \in got
    /\ goto("vision")
    /\ \/ state \in BlockArmStates \cup DepotArmStates /\ fail(Ctx, "ARM")
       \/ state \notin BlockArmStates \cup DepotArmStates /\ enter(Ctx, state)
    /\ UNCHANGED <<evtQ, flags, worldVars, chassisVars>>

ArmOk ==
    /\ pc = "arm" /\ "ARM_OK" \in got /\ "ARM_FAIL" \notin got
    /\ goto("vision")
    /\ \/ state \in BlockArmStates /\ mission_block_arm_done
       \/ state \in DepotArmStates /\ mission_depot_arm_done(Ctx)
       \/ state \notin BlockArmStates \cup DepotArmStates /\ enter(Ctx, state)
    /\ UNCHANGED <<evtQ, flags, worldVars, chassisVars>>

-----------------------------------------------------------------------------
(* mission_handle_vision in the two digit scenes.                          *)

\* Switching the camera may take long: a silent Nano is only asked again.
QuietStart ==
    /\ vis.phase = "STARTING" /\ vis.mail = "TIMEOUT" /\ ~vis.stopReq
    /\ enter([Ctx EXCEPT !.vis = Taken], state)

BusError ==
    /\ ~(vis.phase = "STARTING" /\ vis.mail = "TIMEOUT")
    /\ BusFault /\ written(Ctx)

AnswerAmiss ==
    /\ \/ Replied("STOPPING") /\ vis.mail # "STOPPED"
       \/ /\ Replied("STARTING") /\ vis.mail # "READY"
          /\ vis.scene = "DEPOT_DIGIT"
    /\ fail([Ctx EXCEPT !.vis = Taken], "VISION")

\* A session that saw no digit ends the run once it is closed.
SessionStopped ==
    /\ Replied("STOPPING") /\ vis.mail = "STOPPED"
    /\ LET c == [Ctx EXCEPT !.vis = mission_reset_vision(Taken)] IN
       \/ state = "DEPOT_DIGIT_STOP" /\ fail(c, "VISION")
       \/ state # "DEPOT_DIGIT_STOP" /\ enter(c, state)

\* The base is parked already: no CAM_READY in the state that waits for a digit.
SessionReady ==
    /\ Replied("STARTING") /\ vis.mail = "READY"
    /\ LET v == [Taken EXCEPT !.phase = "LISTENING"] IN
       \/ /\ \/ state = "DEPOT_WAIT_DIGIT"
             \/ state = "BLOCK_WAIT_DIGIT" /\ vis.scene = "BLOCK_DIGIT"
          /\ enter([Ctx EXCEPT !.vis = v], state)
       \/ /\ state # "DEPOT_WAIT_DIGIT" /\ vis.scene = "DEPOT_DIGIT"
          /\ send_chassis(v, "CAM_READY", "STAIR_SCANNING") /\ written(Ctx)
       \/ /\ state # "BLOCK_WAIT_DIGIT" /\ vis.scene = "BLOCK_DIGIT"
          /\ enter([Ctx EXCEPT !.vis = Taken], state)

\* The result is confirmed first and acted upon when that has been sent: c is
\* written before sending, d after.
confirm(c, d) ==
    \E ok \in submit_results(Taken) :
        \/ ok /\ enter([d EXCEPT !.vis = acking(ok)], state)
        \/ ~ok /\ fail([c EXCEPT !.vis = acking(ok)], "VISION")

\* Before READY only a failure of the camera counts as a result.
ResultCounts ==
    IF vis.scene = "DEPOT_DIGIT"
    THEN Replied("LISTENING") /\ state = "DEPOT_WAIT_DIGIT" /\ vis.mail = "EVENT"
    ELSE /\ state = "BLOCK_WAIT_DIGIT" /\ vis.mail = "EVENT"
         /\ Replied("LISTENING") \/ (Replied("STARTING") /\ seen = ScanFault)

DigitSeen ==
    /\ ResultCounts
    /\ IF vis.scene = "DEPOT_DIGIT"
       THEN confirm(Ctx, [Ctx EXCEPT !.depot.digit = seen])
       ELSE LET c == [Ctx EXCEPT !.block.result = seen] IN confirm(c, c)

\* Stale, of another session, or not what this state waits for.
ResultIgnored ==
    /\ \/ Replied("LISTENING")
       \/ Replied("STARTING") /\ vis.scene = "BLOCK_DIGIT" /\ vis.mail # "READY"
    /\ ~ResultCounts
    /\ enter([Ctx EXCEPT !.vis = Taken], state)

mission_handle_vision ==
    \/ QuietStart \/ BusError \/ AnswerAmiss \/ SessionStopped \/ SessionReady
    \/ DigitSeen \/ ResultIgnored
    \/ (DeferredStop \/ QuietListen \/ AckSent) /\ written(Ctx)

HandleVision ==
    /\ pc = "vision" /\ "VISION_DONE" \in got /\ vis.pending
    /\ mission_handle_vision
    /\ goto("process")
    /\ UNCHANGED <<evtQ, flags, worldVars, chassisVars>>

\* mission_vision_process: poll the session, also while it is being opened.
PollSession ==
    /\ pc = "process" /\ vis.phase \in {"STARTING", "LISTENING"} /\ ~Busy(vis)
    /\ \E ok \in submit_results(vis) :
         enter([Ctx EXCEPT !.vis = mission_submit_vision_transfer(vis, "READ", ok)],
               state)
    /\ goto("timeout")
    /\ UNCHANGED <<evtQ, flags, worldVars, chassisVars>>

NoPoll ==
    /\ pc = "process"
    /\ vis.phase \in {"IDLE", "STOPPING"} \/ Busy(vis)
    /\ goto("timeout")
    /\ UNCHANGED <<ctxVars, evtQ, flags, depotVars, worldVars, chassisVars>>

\* mission_vision_process after the confirmation went out.
AckProcessed ==
    /\ pc = "process" /\ vis.phase = "ACKING" /\ ~Busy(vis)
    /\ LET c == [Ctx EXCEPT !.vis = mission_reset_vision(vis)] IN
       \/ state = "DEPOT_WAIT_DIGIT" /\ mission_depot_digit_done(c)
       \/ /\ state = "BLOCK_WAIT_DIGIT" /\ block.result # NoResult
          /\ mission_block_digit_done(c)
       \/ /\ state # "DEPOT_WAIT_DIGIT"
          /\ ~(state = "BLOCK_WAIT_DIGIT" /\ block.result # NoResult)
          /\ enter(c, state)
    /\ goto("timeout")
    /\ UNCHANGED <<evtQ, flags, worldVars, chassisVars>>

-----------------------------------------------------------------------------
(* mission_check_timeout                                                   *)

turn_ends == pc' = "wait" /\ got' = {} /\ UNCHANGED <<evtQ, flags, userQ, stops>>

\* A deadline of a tick is over as soon as the loop gets to it.
WakeDue ==
    /\ pc = "wait" /\ flags = {} /\ Due
    /\ got' = {} /\ pc' = "process"
    /\ UNCHANGED <<ctxVars, evtQ, flags, userQ, stops, depotVars, worldVars,
                   chassisVars>>

NotYet ==
    /\ pc = "timeout" /\ turn_ends
    /\ UNCHANGED <<ctxVars, depotVars, worldVars, chassisVars>>

\* A session that was READY for 5 s without a digit is closed; every other
\* deadline of seconds is a fault.
TimeOut ==
    /\ pc = "timeout" /\ Expiry /\ Timed
    /\ turn_ends
    /\ IF state = "DEPOT_WAIT_DIGIT"
       THEN stop_vision(vis, "DEPOT_DIGIT_STOP") /\ written(Ctx)
       ELSE fail(Ctx, "TIMEOUT")
    /\ UNCHANGED <<worldVars, chassisVars>>

Settled ==
    /\ pc = "timeout" /\ state = "BLOCK_SETTLE" /\ turn_ends
    /\ look([Ctx EXCEPT !.block.result = NoResult], "BLOCK_DIGIT", "BLOCK_WAIT_DIGIT")
    /\ UNCHANGED <<worldVars, chassisVars>>

SlotIsThere ==
    /\ pc = "timeout" /\ state = "DEPOT_SEEK" /\ depot.slot = depot.target
    /\ turn_ends
    /\ slot_reached(Ctx)
    /\ UNCHANGED <<worldVars, chassisVars>>

\* mission_depot_advance blocks the main loop while the turntable turns.
BeginTurn ==
    /\ pc = "timeout" /\ state = "DEPOT_SEEK" /\ depot.slot # depot.target
    /\ goto("turning")
    /\ UNCHANGED <<ctxVars, evtQ, flags, depotVars, worldVars, chassisVars>>

\* Mutant: a turn that ends after the STOP goes on with the ball.
TurnDoneAnyway ==
    /\ pc = "turning"
    /\ turn_ends
    /\ slot_reached([Ctx EXCEPT !.depot.slot = depot.target])
    /\ UNCHANGED <<worldVars, chassisVars>>

TurnDone ==
    /\ pc = "turning" /\ state = "DEPOT_SEEK"
    /\ turn_ends
    /\ slot_reached([Ctx EXCEPT !.depot.slot = depot.target])
    /\ UNCHANGED <<worldVars, chassisVars>>

TurnFailed ==
    /\ pc = "turning" /\ state = "DEPOT_SEEK" /\ DeviceFaults
    /\ turn_ends
    /\ fail(Ctx, "STORAGE")
    /\ UNCHANGED <<worldVars, chassisVars>>

\* Between its transactions it takes the user's commands; a STOP ends it, and
\* unlike the store of a ball its caller reports no failure then.
TurnSeesStop ==
    /\ pc = "turning" /\ userQ > 0
    /\ userQ' = userQ - 1
    /\ mission_handle_command
    /\ UNCHANGED <<evtQ, flags, stops, got, pc, depotVars, worldVars, chassisVars>>

TurnGivesUp ==
    /\ pc = "turning" /\ state # "DEPOT_SEEK" /\ userQ = 0
    /\ turn_ends
    /\ UNCHANGED <<ctxVars, depotVars, worldVars, chassisVars>>

-----------------------------------------------------------------------------
Mission ==
    \/ /\ Wake \/ WakeLate(Timed) \/ HandleCommand \/ CommandsDone
          \/ EventsDone \/ ArmDone \/ VisionDone
       /\ UNCHANGED <<depotVars, worldVars, chassisVars>>
    \/ WakeDue \/ HandleChassis \/ ArmFail \/ ArmOk \/ HandleVision
    \/ PollSession \/ NoPoll \/ AckProcessed
    \/ NotYet \/ TimeOut \/ Settled
    \/ SlotIsThere \/ BeginTurn \/ TurnDone \/ TurnFailed
    \/ TurnSeesStop \/ TurnGivesUp

Chassis ==
    /\ ChassisNext
    /\ UNCHANGED <<state, fault, requestId, activeArm, armHome, vis, arm,
                   loopVars, depotVars, worldVars>>

\* Opening a digit session takes as long as it takes: READY may come with the
\* answer to START or with any later read.
answers ==
    IF vis.phase # "STARTING" THEN replies(vis.io)
    ELSE {"READY", "TIMEOUT"}
         \cup (IF DeviceFaults THEN {"ERROR", "BAD"} ELSE {})
         \cup (IF DeviceFaults /\ vis.scene = "BLOCK_DIGIT" THEN {"EVENT"} ELSE {})

\* What the camera makes of the place it is shown.  A building block may lie
\* anywhere; a column has its sign, which is read wrongly once in a while.
SignsInView == IF base = 0 THEN 1..3 ELSE {Signs[side][base]} \ {0}
DigitShown ==
    \/ /\ vis.scene = "DEPOT_DIGIT"
       /\ \/ seen' \in SignsInView /\ UNCHANGED misread
          \/ /\ misread < Misreads /\ misread' = misread + 1
             /\ seen' \in UNION {Lookalikes[d] : d \in SignsInView}
    \/ /\ vis.scene = "BLOCK_DIGIT"
       /\ \/ vis.phase = "LISTENING" /\ seen' \in {NoValid} \cup 1..3
          \/ DeviceFaults /\ seen' = ScanFault
       /\ UNCHANGED misread

\* mission_vision_done publishes the reply, then frees the transfer.
PublishReplyHere ==
    /\ vis.inflight /\ ~vis.pending
    /\ \E m \in answers :
        /\ vis' = [vis EXCEPT !.mail = m, !.pending = TRUE]
        /\ \/ m = "EVENT" /\ DigitShown
           \/ m # "EVENT" /\ seen' = 0 /\ UNCHANGED misread
    /\ UNCHANGED <<state, fault, requestId, activeArm, armHome, arm, cmdQ,
                   evtQ, flags, loopVars, held>>

\* A completed group leaves the gripper full or empty.
GroupCompleted ==
    /\ ArmCompleted
    /\ held' = IF arm \in {31, 33, 35} THEN TRUE
               ELSE IF arm \in {32, 34, 36} THEN FALSE ELSE held
    /\ UNCHANGED <<seen, misread>>

\* mission_arm_report: a frame that makes no sense takes "home" back.  It may
\* come at any time; only the handlers below read armHome, so the moments before
\* them stand for all.
HomeIsRead ==
    \/ pc = "events" /\ evtQ # <<>>
    \/ pc = "arm" /\ "ARM_OK" \in got
    \/ pc = "process" /\ vis.phase = "ACKING" /\ ~Busy(vis)
    \/ pc \in {"timeout", "turning"} /\ Due
ArmNudged ==
    /\ DeviceFaults /\ armHome /\ HomeIsRead
    /\ armHome' = FALSE
    /\ UNCHANGED <<state, fault, requestId, activeArm, vis, arm, cmdQ, evtQ,
                   flags, loopVars, worldVars>>

World ==
    /\ \/ PublishReplyHere \/ GroupCompleted \/ ArmNudged
       \/ /\ SubmitStop \/ ReleaseTransfer \/ ArmFailed
          /\ UNCHANGED worldVars
    /\ UNCHANGED <<depotVars, chassisVars>>

\* The base is home, or the robot rests and nothing is left to handle.
Over ==
    /\ pc = "wait" /\ flags = {}
    /\ cpc = "end" \/ (state \in {"STOPPED", "FAULT"} /\ cmdQ = <<>>)
    /\ UNCHANGED vars

Next == Mission \/ Chassis \/ World \/ Over

Spec == DepotInit /\ [][Next]_vars

-----------------------------------------------------------------------------
\* Every variable has its type: a record of the table is never half written,
\* and the stage, step and slot counters stay in range.
TypeOK ==
    /\ CoreTypeOK /\ ChassisTypeOK
    /\ state \in DepotStates
    /\ side \in Sides /\ block \in BlockType /\ depot \in DepotType
    /\ \A i \in DOMAIN manifest : manifest[i] \in RecordType
    /\ seen \in 0..ScanFault /\ misread \in 0..Misreads /\ held \in BOOLEAN

\* The arm reaches into the depot only while the base stands still.
ArmMovesOnlyWhenParked == arm # 0 => ~driving

\* The turntable carries the balls past the arm: it turns only while no action
\* group runs.
TurnClearOfArm == pc = "turning" => arm = 0

\* A digit is looked for at the station Mission believes it is at, with base
\* and arm at rest.
LooksAtTheRightPlace ==
    state \in {"BLOCK_WAIT_DIGIT", "DEPOT_WAIT_DIGIT"} =>
        ~driving /\ base = depot.position /\ arm = 0

\* A ball is let go only into its own cell: the ball under the arm is the one
\* in the slot the turntable stands at, the base is at the column its card
\* (or the draw) names although Nano misread a digit on the way, the group is
\* that of its row, and no ball was placed there before.
RowOf(group) == CASE group = 23 -> 3 [] group = 25 -> 2 [] OTHER -> 1
PlacedCells == {Target(manifest[i]) :
                  i \in {j \in DOMAIN manifest : manifest[j].state = "PLACED"}}
RightCell ==
    arm \in {23, 25, 26} =>
        /\ base # 0
        /\ <<RowOf(arm), Signs[side][base]>> \notin PlacedCells
        /\ \E i \in DOMAIN manifest :
              /\ manifest[i].slot = depot.slot /\ manifest[i].state # "PLACED"
              /\ Target(manifest[i]) = <<RowOf(arm), Signs[side][base]>>

\* The gripper is opened over the free column only with a block in it, and
\* takes a block only when it is empty: the digit of a layer without a block is
\* never that of the layer before.
PlacesOnlyWhatItHolds ==
    /\ arm \in {32, 34, 36} => held /\ base = mission_block_place_point
    /\ arm \in {31, 33, 35} => ~held

\* The run is complete only when every ball that can have a cell of its own is
\* in it: all but those for the fourth column, which has no digit, and of two
\* cards with one cell the later.  No unread ball is left, and none took the
\* cell of a ball whose card was read.
HasNoCell(i) ==
    \/ manifest[i].cell # NoCell /\ manifest[i].cell[2] = 4
    \/ manifest[i].cell \in {manifest[j].cell : j \in 1..i-1} \ {NoCell}
AllPlacedAtComplete ==
    state = "COMPLETE" =>
        \A i \in DOMAIN manifest : manifest[i].state = "PLACED" <=> ~HasNoCell(i)

\* Once the run is stopping, stopped or failed it stays so, STOP is the only
\* command still sent and no action group is started: no late digit, arm report,
\* station or turn of the turntable sets anything moving.
RestIsKept ==
    state \in RestStates =>
        /\ state' \in RestStates /\ arm' \in {0, arm}
        /\ Len(cmdQ') > Len(cmdQ) => (cmdQ')[Len(cmdQ')].type = "STOP"
NoReleaseAfterStop == [][RestIsKept]_vars
=============================================================================

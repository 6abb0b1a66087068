---------------------------- MODULE DepotRunInv ----------------------------
(***************************************************************************)
(* The inductive invariant behind the theorems of DepotProofs, in named    *)
(* parts.  The parts that a handler of the Mission task has to re-         *)
(* establish take the state, the blocks' context, the balls' context and   *)
(* the table as parameters: s, b, d and m.                                 *)
(***************************************************************************)
EXTENDS DepotRun, MissionInv

BlockStages == BlockStates \cup {"WAIT_DEPOT_1"}

-----------------------------------------------------------------------------
(* Where the base is.                                                      *)

\* The states that wait for the base; in all others it stands.
AskStates == BlockMoveStates \cup
    {"WAIT_DEPOT_1", "DEPOT_WAIT_POSITION", "DEPOT_RETURN_ENTRY",
     "DEPOT_WAIT_HOME"}

\* The station a state waits for, the command that asks for it, its answer.
Wanted(s, b, d) ==
    CASE s = "DEPOT_WAIT_POSITION" -> d.position
      [] s \in BlockMoveStates -> b.point
      [] OTHER -> 1
Order(s, n) == IF s = "DEPOT_WAIT_HOME" THEN "DEPOT_OK" ELSE GoDepot[n]
Answer(s, n) == IF s = "DEPOT_WAIT_HOME" THEN "HOME_READY" ELSE DepotReady[n]

IdlePlace(s) == IF s = "WAIT_DEPOT_1" THEN "await" ELSE "depot"
WorkPlaces(s) ==
    CASE s = "WAIT_DEPOT_1" -> {"route", "locate"}
      [] s = "DEPOT_WAIT_HOME" -> {"home"}
      [] OTHER -> {"shift"}

\* One command or one answer is under way, or the base is about to answer.
Waiting(s, n) ==
    \/ /\ cmdQ = <<Command(Order(s, n), requestId)>> /\ evtQ = <<>>
       /\ ~driving /\ cpc = IdlePlace(s)
    \/ /\ cmdQ = <<>> /\ evtQ = <<>> /\ reqId = requestId
       /\ cpc \in WorkPlaces(s)
       /\ s # "DEPOT_WAIT_HOME" => goal = n
    \/ /\ cmdQ = <<>> /\ evtQ = <<Event(Answer(s, n), requestId, TRUE)>>
       /\ ~driving
       /\ IF s = "DEPOT_WAIT_HOME" THEN cpc = "end"
                                   ELSE cpc = "depot" /\ base = n
    \/ /\ cmdQ = <<>> /\ evtQ # <<>>
       /\ evtQ[1].id = requestId /\ ~evtQ[1].ok

\* Nothing is under way and the base stands where Mission believes it stands.
Standing(s, d) ==
    /\ cmdQ = <<>> /\ evtQ = <<>> /\ ~driving
    /\ IF s = "COMPLETE" THEN cpc = "end"
                         ELSE cpc = "depot" /\ base = d.position

BaseFits ==
    /\ state \in AskStates => Waiting(state, Wanted(state, block, depot))
    /\ state \notin AskStates \cup RestStates => Standing(state, depot)
    /\ state \in RestStates /\ arm # 0 =>
         /\ cpc = "depot" /\ ~driving
         /\ \A i \in DOMAIN cmdQ : cmdQ[i].type = "STOP"

-----------------------------------------------------------------------------
(* What the arm does, and what is in the gripper.                          *)

BlockGroups == {31, 32, 33, 34, 35, 36}
BallGroups == {23, 25, 26}

\* The groups a state may wait for.
GroupsOf(s, d) ==
    CASE s = "BLOCK_WAIT_POSE" -> {28, 29, 30}
      [] s = "BLOCK_WAIT_GRASP" -> {31, 33, 35}
      [] s = "BLOCK_WAIT_PLACE" -> {32, 34, 36}
      [] s = "DEPOT_PICK" -> {22}
      [] s = "DEPOT_PLACE" -> {PlaceGroup(d.row)}
      [] OTHER -> {10}

OkSeen == "ARM_OK" \in got /\ pc \in {"commands", "events", "arm"}
OkSignalled == "ARM_OK" \in flags \/ OkSeen

\* A group and its success are never out together with a second one; while the
\* run goes on they are the ones the state waits for.
ArmFits ==
    /\ OkSignalled => arm = 0
    /\ ~("ARM_OK" \in flags /\ OkSeen)
    /\ armHome => arm = 0
    /\ pc = "turning" => arm = 0
    /\ state \in RestStates => arm \notin BlockGroups
    /\ state \notin RestStates /\ (arm # 0 \/ OkSignalled) =>
         /\ state \in BlockArmStates \cup DepotArmStates
         /\ activeArm \in GroupsOf(state, depot)
         /\ arm \in {0, activeArm}

\* The digit of a layer says whether a block is in the gripper.
HeldFits ==
    /\ state \in {"BLOCK_PREPARE", "BLOCK_WAIT_POSE", "BLOCK_WAIT_POSITION",
                  "BLOCK_SETTLE", "BLOCK_WAIT_DIGIT"} => ~held /\ block.digit = 0
    /\ state = "BLOCK_WAIT_GRASP" =>
         /\ block.digit # 0
         /\ arm # 0 => ~held
         /\ OkSignalled => held
    /\ state = "BLOCK_WAIT_D4" => held = (block.digit # 0)
    /\ state = "BLOCK_WAIT_PLACE" =>
         /\ arm # 0 => held
         /\ OkSignalled => ~held
    /\ state \in {"WAIT_DEPOT_1", "BLOCK_FINISH", "BLOCK_RETURN_DEPOT"} => ~held

\* Where the blocks' context points to.
BlockFits(s, b, d) ==
    /\ s \in {"BLOCK_WAIT_POSITION", "BLOCK_WAIT_D4", "BLOCK_RETURN_DEPOT"} =>
         b.point \in Stations
    /\ s \in BlockStates => d.position \in Stations
    /\ s \in {"BLOCK_WAIT_POSE", "BLOCK_WAIT_POSITION", "BLOCK_SETTLE",
              "BLOCK_WAIT_DIGIT"} => b.step < 3
    /\ s = "BLOCK_WAIT_D4" => b.point = mission_block_place_point
    /\ s = "BLOCK_WAIT_PLACE" => d.position = mission_block_place_point
    /\ s = "BLOCK_RETURN_DEPOT" => b.point = EntryPoint

-----------------------------------------------------------------------------
(* The vision session and the digits it shows.                             *)

\* While the run goes on the session is where the state says.
SessionFits ==
    state \notin RestStates \cup {"DEPOT_DIGIT_STOP"} =>
        /\ ~vis.stopReq
        /\ \/ vis.phase = "IDLE"
           \/ /\ vis.phase \in {"STARTING", "LISTENING", "ACKING"}
              /\ \/ state = "BLOCK_WAIT_DIGIT" /\ vis.scene = "BLOCK_DIGIT"
                 \/ state = "DEPOT_WAIT_DIGIT" /\ vis.scene = "DEPOT_DIGIT"
StoppingFits ==
    state = "DEPOT_DIGIT_STOP" => vis.phase # "STARTING"

\* The digit the open session has shown so far.
EventPending == vis.pending /\ vis.mail = "EVENT"
Shown ==
    IF vis.phase = "ACKING" THEN depot.digit
    ELSE IF vis.phase = "LISTENING" /\ EventPending THEN seen ELSE 0

Sign == Signs[side][base]
\* One wrong digit was read for each that is neither missing nor on the sign.
DigitsFit ==
    state = "DEPOT_WAIT_DIGIT" =>
        /\ Shown \in 0..3
        /\ misread = 0 => depot.first \in {0, Sign} /\ Shown \in {0, Sign}
        /\ misread <= 1 => depot.first \in {0, Sign} \/ Shown \in {0, Sign}

-----------------------------------------------------------------------------
(* The balls.                                                              *)

BallStates == {"DEPOT_SEEK", "DEPOT_AVOID", "DEPOT_SAFE", "DEPOT_PICK",
               "DEPOT_PLACE", "DEPOT_RETURN"}
\* A column is known and a ball for it is being fetched.
Fetching(s, d) == s \in BallStates /\ ~d.preparing
Preparing(s, d) == s = "DEPOT_PREPARE" \/ (s \in BallStates /\ d.preparing)
StationStates == {"DEPOT_WAIT_POSITION", "DEPOT_WAIT_DIGIT"}
LastStates == {"DEPOT_RETURN_ENTRY", "DEPOT_WAIT_HOME", "COMPLETE"}
PlacingStates == BallStates \cup {"DEPOT_PREPARE"} \cup StationStates \cup LastStates

\* The stations whose column is known: one per station from the entry on.
Visited(p) == IF side = "BLUE" THEN p - 2 ELSE 3 - p
OnTheWay(p) == IF side = "BLUE" THEN p \in 2..4 ELSE p \in 1..3
StationsFit(s, d) ==
    /\ Preparing(s, d) =>
         /\ d.preparing
         /\ d.used = {} /\ d.first = 0 /\ d.position = EntryPoint
         /\ s \in {"DEPOT_PREPARE", "DEPOT_SEEK", "DEPOT_SAFE"}
    /\ s \in StationStates =>
         /\ ~d.preparing
         /\ OnTheWay(d.position) /\ Cardinality(d.used) = Visited(d.position)
    /\ Fetching(s, d) =>
         OnTheWay(d.position) /\ Cardinality(d.used) = Visited(d.position) + 1
    /\ s \in LastStates => d.used = 1..3

\* At most nine records, in the order of the slots, none of them half written;
\* an unread ball has no cell of its own, and a drawn cell is nobody else's.
Table(m) ==
    /\ m \in Seq(RecordType) /\ Len(m) <= Capacity
    /\ \A i \in DOMAIN m : m[i].state = "READ_FAILED" => m[i].cell = NoCell
    /\ DrawnFits(m)
InSlotOrder(m) == \A i \in DOMAIN m : m[i].slot = i - 1

\* Before the draw nothing is planned or placed.
Fresh(m) ==
    \A i \in DOMAIN m : m[i].fallback = NoCell /\ m[i].state # "PLACED"
                        /\ (m[i].cell = NoCell => m[i].state = "READ_FAILED")

\* A ball the card of which leaves it without a cell, see HasNoCell.
NoCellFor(m, i) ==
    \/ m[i].cell # NoCell /\ m[i].cell[2] = 4
    \/ m[i].cell \in {m[j].cell : j \in 1..i-1} \ {NoCell}

\* After the draw the balls to be placed have a cell of their own each.
Planned(m, d) ==
    /\ \A i \in DOMAIN m :
         /\ Target(m[i]) \in Cells
         /\ i \in d.abnormal \/ Target(m[i])[2] = 4 <=> NoCellFor(m, i)
    /\ \A i, j \in DOMAIN m \ d.abnormal : Target(m[i]) = Target(m[j]) => i = j

\* The columns that are finished, and what lies in the others.
Finished(s, d) == IF Fetching(s, d) THEN d.used \ {d.column} ELSE d.used
PlacedFits(s, m, d) ==
    /\ \A i \in DOMAIN m : m[i].state = "PLACED" =>
         i \notin d.abnormal /\ Target(m[i])[2] \in d.used
    /\ \A i \in DOMAIN m \ d.abnormal :
         Target(m[i])[2] \in Finished(s, d) => m[i].state = "PLACED"

\* The ball that is fetched belongs to the column the base stands at.
BallFits(s, m, d) ==
    Fetching(s, d) =>
        /\ d.column \in d.used
        /\ d.sequence \in DOMAIN m \ d.abnormal
        /\ m[d.sequence].state # "PLACED"
        /\ Target(m[d.sequence]) = <<d.row, d.column>>
        /\ m[d.sequence].slot = d.target
        /\ s \in {"DEPOT_SAFE", "DEPOT_PICK", "DEPOT_PLACE", "DEPOT_RETURN"} =>
             d.slot = d.target
        /\ misread <= 1 => d.column = Sign

BallsFit(s, d, m) ==
    /\ s \in BlockStages => Fresh(m)
    /\ s \in PlacingStates =>
         /\ StationsFit(s, d) /\ Planned(m, d) /\ PlacedFits(s, m, d)
         /\ BallFits(s, m, d)

-----------------------------------------------------------------------------
\* What the chassis task reports from GO_DEPOT_1 on.
EventTypes == {"STOPPED", "HOME_READY"} \cup {DepotReady[n] : n \in Stations}

\* The parts that are about the Mission task alone.
ControlInv ==
    /\ TypeOK /\ misread \in Nat
    /\ QueueTyped
    /\ SafeRecord(vis) /\ StopNoted(vis) /\ DoneMeansAnswered
    /\ evtQ \in Seq([type : EventTypes, id : Nat, ok : BOOLEAN])

DepotInv ==
    /\ ControlInv
    /\ Table(manifest) /\ InSlotOrder(manifest)
    /\ BaseFits /\ ArmFits /\ HeldFits /\ SessionFits /\ StoppingFits
    /\ BlockFits(state, block, depot)
    /\ DigitsFit
    /\ BallsFit(state, depot, manifest)
    /\ misread <= 1 => RightCell
=============================================================================

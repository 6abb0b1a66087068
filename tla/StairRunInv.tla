---------------------------- MODULE StairRunInv ----------------------------
(***************************************************************************)
(* The inductive invariant behind the theorems of StairRunProofs, in named *)
(* parts so that TLC can check it before tlapm proves it.                  *)
(***************************************************************************)
EXTENDS StairRun, MissionInv

\* Where the sweep stands in its loop, so that leg + 1 stays a segment.
LegInRange ==
    /\ cpc \in {"await", "route"} => leg = 0
    /\ cpc = "enter" => leg < 3

\* The states that work on a layer know which one.
LayerNeeded ==
    {"STAIR_WAIT_VISION_START", "STAIR_SCANNING", "STAIR_WAIT_PAUSE",
     "STAIR_WAIT_ACK", "STAIR_WAIT_GRASP", "STAIR_WAIT_RETURN",
     "STAIR_WAIT_STORAGE", "STAIR_WAIT_VISION_RESUME", "STAIR_WAIT_RESUME"}
LayerKnown ==
    /\ state = "WAIT_STAIRS" => vis.phase = "IDLE"
    /\ vis.phase # "IDLE" \/ state \in LayerNeeded => layer # "NONE"

StoringState == pc = "storing" => state = "STAIR_WAIT_STORAGE"

\* Together the parts are inductive: every step of Mission, the chassis task
\* and the devices keeps them, whatever the queues and the other side hold.
Inductive ==
    /\ TypeOK /\ QueueTyped /\ LegInRange
    /\ SafeRecord(vis) /\ StopNoted(vis)
    /\ DoneMeansAnswered /\ LayerKnown /\ StoringState

(***************************************************************************)
(* Why no ball is taken beyond the limit: the limit is looked at when a    *)
(* session opens, and what follows from that session, up to the storing,   *)
(* stays below it.  While the arm works no session is open, so no late     *)
(* reply can start over in the middle of a grasp.                          *)
(***************************************************************************)
ArmWorks == {"STAIR_WAIT_GRASP", "STAIR_WAIT_RETURN", "STAIR_WAIT_STORAGE"}
BallWanted == {"STAIR_WAIT_PAUSE", "STAIR_WAIT_ACK"} \cup ArmWorks

LimitFollowed ==
    /\ balls <= BallLimit
    /\ vis.phase # "IDLE" \/ state \in BallWanted => balls < BallLimit
    /\ state \in ArmWorks => vis.phase = "IDLE"
    /\ state = "STAIR_WAIT_PAUSE" =>
           vis.phase \in {"IDLE", "ACKING"} /\ ~vis.stopReq
    /\ arm \in GraspGroups =>
           /\ vis.phase = "IDLE" /\ balls < BallLimit
           /\ state \in {"STAIR_WAIT_GRASP"} \cup RestStates
(***************************************************************************)
(* Where the base stands, read from its own variables alone: it only rolls *)
(* on the way to the staircase and unpaused in a released segment, and a   *)
(* segment is released exactly while it is driven.                         *)
(***************************************************************************)
Gone == cpc \in {"gone", "next"}

BaseFits ==
    /\ driving => cpc = "route"
                  \/ (cpc \in {"scan", "body", "enter"} /\ moving /\ ~paused)
    /\ cpc \in {"await", "route"} => ~paused /\ ~camReady
    /\ cpc = "enter" => leg < 3 /\ (camReady <=> leg > 0) /\ ~paused
                        /\ (driving => leg > 0) /\ (leg > 0 => moving)
    /\ cpc \in {"ready", "repost"} => leg > 0 /\ ~camReady
    /\ cpc \in {"settle", "scan", "body"} => leg > 0 /\ camReady /\ moving

\* A stop that has to wait waits for a transaction: it is sent when that ends.
StopPending(v) == v.stopReq /\ v.phase # "STOPPING" => Busy(v)

(***************************************************************************)
(* The vision session each state of the Mission task works with.  A        *)
(* session that watches looks at the layer the Mission task remembers.     *)
(***************************************************************************)
SessionFits ==
    /\ state \in {"WAIT_STAIRS", "STAIR_WAIT_POSE", "STAIR_WAIT_SAFE",
                  "WAIT_SMALL_DISC"} => vis.phase = "IDLE"
    /\ state \in {"STAIR_WAIT_VISION_START", "STAIR_WAIT_VISION_RESUME"} =>
           vis.phase = "STARTING" /\ ~vis.stopReq /\ vis.scene = layer
    /\ state \in {"STAIR_SCANNING", "STAIR_WAIT_RESUME"} =>
           \/ vis.phase = "LISTENING" /\ ~vis.stopReq /\ vis.scene = layer
           \/ vis.phase = "IDLE" /\ balls >= BallLimit
    /\ state = "STAIR_WAIT_ACK" => vis.phase = "ACKING" /\ ~vis.stopReq
    /\ state = "STAIR_WAIT_LAYER" =>
           vis.phase \in {"IDLE", "STOPPING"} \/ vis.stopReq
    /\ state = "STAIR_WAIT_VISION_END" =>
           vis.phase = "STOPPING" \/ vis.stopReq

(***************************************************************************)
(* The rendezvous of the two tasks: which commands and events may be under *)
(* way, and where the base may stand, in each state of the Mission task.   *)
(***************************************************************************)
Orders == [i \in DOMAIN cmdQ |-> cmdQ[i].type]
Reports == [i \in DOMAIN evtQ |-> evtQ[i].type]

\* A base that waits for its release has announced its segment, at most once;
\* the announcement may be read or lost.
News == IF cpc = "ready" THEN {<<>>, <<Segments[leg]>>} ELSE {<<>>}
NewsAfter(t) ==
    News \cup {<<t>>} \cup
        (IF cpc = "ready" THEN {<<t, Segments[leg]>>} ELSE {})
NewsBefore(t) ==
    News \cup {<<t>>} \cup
        (IF cpc = "ready" THEN {<<Segments[leg], t>>} ELSE {})

Waiting ==
    /\ cpc = "ready" \/ (cpc = "enter" /\ leg = 0)
    /\ ~paused /\ ~driving /\ Orders = <<>>
Parked == cpc \in {"ready", "settle", "scan", "body"} /\ paused
Underway ==
    cpc \in {"ready", "settle", "scan", "body", "enter", "repost"} /\ ~paused

\* The layer the Mission task remembers is that of segment n.
Fits(n) == n \in 1..3 /\ layer = StepAt(n)
Seen == IF camReady THEN leg ELSE leg - 1

Climbing ==
    /\ state = "WAIT_STAIRS" =>
        \/ cpc = "await" /\ Orders = <<"GO_STAIRS">> /\ Reports = <<>>
        \/ cpc = "route" /\ Orders = <<>> /\ Reports = <<>>
        \/ Waiting /\ Reports \in NewsAfter("STAIRS_READY") /\ leg \in {0, 1}
    /\ state \in {"STAIR_WAIT_POSE", "STAIR_WAIT_LAYER"} =>
        \/ Waiting /\ layer = "NONE" /\ Reports \in News
        \/ Waiting /\ Fits(leg) /\ Reports = <<>>
    /\ state = "STAIR_WAIT_VISION_START" =>
        Waiting /\ Fits(leg) /\ Reports = <<>>
    /\ state = "STAIR_SCANNING" =>
        /\ Underway
        /\ \/ Orders = <<"CAM_READY">> /\ cpc = "ready" /\ Fits(leg)
              /\ Reports = <<>>
           \/ Orders = <<>> /\ Fits(Seen) /\ Reports \in News
    /\ state = "STAIR_WAIT_PAUSE" =>
        \/ Underway /\ Orders = <<"CAM_READY", "STAIR_STOP">> /\ cpc = "ready"
             /\ Fits(leg) /\ Reports = <<>>
        \/ Underway /\ Orders = <<"STAIR_STOP">> /\ Fits(Seen)
             /\ Reports \in News
        \/ Parked /\ Orders = <<>> /\ Fits(Seen)
             /\ Reports \in NewsBefore("STAIR_PAUSE")
    /\ state \in {"STAIR_WAIT_ACK", "STAIR_WAIT_VISION_RESUME"} \cup ArmWorks =>
        Parked /\ Orders = <<>> /\ Fits(Seen) /\ Reports = <<>>
    /\ state = "STAIR_WAIT_RESUME" =>
        /\ Fits(Seen)
        /\ \/ Parked /\ Orders = <<"STAIR_RESUME">> /\ Reports = <<>>
           \/ Underway /\ Orders = <<>> /\ Reports \in NewsAfter("STAIR_RESUME")
    /\ state \notin {"STAIR_WAIT_VISION_END", "STAIR_WAIT_SAFE",
                     "WAIT_SMALL_DISC"}

\* At rest the base may still drive, but not while the arm moves: then only
\* STOP is under way, to a base that waits for its release or is paused.
Resting ==
    /\ \A i \in DOMAIN Reports : Reports[i] # "STAIRS_FINISHED"
    /\ arm # 0 =>
         /\ \A i \in DOMAIN Orders : Orders[i] = "STOP"
         /\ \/ cpc = "ready" \/ (cpc = "enter" /\ leg = 0)
            \/ paused /\ cpc \in {"settle", "scan", "body"}

\* Behind the last segment the base stands still for good.
Leaving ==
    /\ ~driving
    /\ state \in {"STAIR_SCANNING", "STAIR_WAIT_PAUSE", "STAIR_WAIT_RESUME",
                  "STAIR_WAIT_VISION_END", "STAIR_WAIT_SAFE",
                  "WAIT_SMALL_DISC"} \cup RestStates
    /\ state \in {"STAIR_SCANNING", "STAIR_WAIT_PAUSE", "STAIR_WAIT_RESUME"} =>
         \A i \in DOMAIN Reports :
             Reports[i] \in {"STAIR_RESUME", "STAIRS_FINISHED", "STOPPED"}

Rendezvous ==
    /\ Gone => Leaving
    /\ ~Gone /\ state \in RestStates => Resting
    /\ ~Gone /\ state \notin RestStates => Climbing

\* On the staircase the arm moves in its three states only, and its success is
\* reported once, when it has come to rest.
OkSeen == "ARM_OK" \in got /\ pc \in {"commands", "events", "arm"}
ArmFits ==
    state \notin RestStates /\ ~Gone =>
        LET at == state \in {"STAIR_WAIT_POSE", "STAIR_WAIT_GRASP",
                             "STAIR_WAIT_RETURN"}
        IN /\ arm # 0 => at
           /\ "ARM_OK" \in flags \/ OkSeen => at /\ arm = 0
           /\ ~("ARM_OK" \in flags /\ OkSeen)

EventNames ==
    {"STAIRS_READY", "STAIR_LOW", "STAIR_HIGH", "STAIR_MID", "STAIR_PAUSE",
     "STAIR_RESUME", "STAIRS_FINISHED", "STOPPED"}
EventType == [type : EventNames, id : Nat, ok : BOOLEAN]

MeetInv ==
    /\ evtQ \in Seq(EventType) /\ StopPending(vis)
    /\ BaseFits /\ SessionFits /\ Rendezvous /\ ArmFits /\ GraspFitsLayer
=============================================================================

----------------------------- MODULE MissionInv -----------------------------
(***************************************************************************)
(* The parts of the inductive invariants that are about the Mission task   *)
(* alone, whatever the stage: its command queue and its vision mailbox.    *)
(***************************************************************************)
EXTENDS MissionCore

CommandTypes ==
    {"GO_PLATFORM", "GO_STAIRS", "CAM_READY", "STAIR_STOP", "STAIR_RESUME",
     "GO_SMALL_DISC", "SMALL_DISC_START", "SMALL_DISC_STOP",
     "SMALL_DISC_RESUME", "GO_DEPOT_1", "GO_DEPOT_2", "GO_DEPOT_3",
     "GO_DEPOT_4", "DEPOT_OK", "STOP"}
Commands == [type : CommandTypes, id : 1..IdMax]

\* What the queue holds is typed: the chassis stores the id of a command.
QueueTyped == cmdQ \in Seq(Commands)

\* One vision record: no frame of a running transaction is overwritten, a
\* closed session owns no transaction, an open one has a scene.
SafeRecord(v) ==
    /\ v \in VisionType
    /\ v.inflight /\ v.io # "READ" => v.tx = v.io
    /\ Busy(v) => v.phase # "IDLE"
    /\ v.phase # "IDLE" => v.scene # "NONE"

\* At rest an opening session has its stop noted.
StopNoted(v) == state \in RestStates /\ v.phase = "STARTING" => v.stopReq

Answered(v) == v.pending /\ ~v.inflight

\* The main loop has woken up with VISION_DONE and not handled it yet.
DoneSeen ==
    /\ "VISION_DONE" \in got
    /\ pc \in {"commands", "events", "arm", "storing", "storeStopped", "vision"}

\* VISION_DONE is only ever seen when the reply is in the mailbox and the
\* worker is done with the transfer, and it is raised once per reply.
DoneMeansAnswered ==
    /\ "VISION_DONE" \in flags \/ DoneSeen => Answered(vis)
    /\ ~("VISION_DONE" \in flags /\ DoneSeen)
=============================================================================

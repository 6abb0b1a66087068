----------------------------- MODULE DiscRunInv -----------------------------
(***************************************************************************)
(* The inductive invariant behind the theorems of DiscProofs, in named     *)
(* parts: what the Mission task keeps for itself, where the base can be,   *)
(* and which commands and events may be under way between the two.         *)
(***************************************************************************)
EXTENDS DiscRun, MissionInv

-----------------------------------------------------------------------------
(* What the Mission task keeps for itself: types and the mailbox.          *)

\* A ball is stored inside its handler; only a STOP leaves it earlier.
StoreInHandler ==
    /\ pc = "storing" => state = "SMALL_DISC_WAIT_STORAGE"
    /\ pc = "storeStopped" => state \in RestStates

EventTypes ==
    {"STOPPED", "SMALL_DISC_READY", "SMALL_DISC_PAUSED", "SMALL_DISC_RESUMED",
     "SMALL_DISC_FINISHED"}

ControlInv ==
    /\ TypeOK /\ QueueTyped
    /\ evtQ \in Seq([type : EventTypes, id : Nat, ok : BOOLEAN])
    /\ SafeRecord(vis) /\ StopNoted(vis) /\ DoneMeansAnswered
    /\ StoreInHandler

-----------------------------------------------------------------------------
(* The base, and what lies in the two queues.                              *)

\* Where the base stands still, and what a pause means on the way round.
StillStages == {"await", "lost", "settle", "start", "turn", "done", "broken",
                "gone", "next"}
BaseFits ==
    /\ cpc \in StillStages => ~driving
    /\ paused => cpc \in RoundStages \cup {"broken", "gone", "next"}
    /\ paused /\ driving => cpc \in {"exit", "break"}

\* The base stands until it is told to go on.
Parked == paused \/ cpc \in {"start", "gone"}

\* What lies in the two queues.
Quiet == cmdQ = <<>>
Asked(type) == Len(cmdQ) = 1 /\ cmdQ[1].type = type
Silent == evtQ = <<>>
Told(type) == Len(evtQ) = 1 /\ evtQ[1].type = type

\* The base is on its way round, held on it, or has left the disc.
Going == ~paused /\ cpc \in RoundStages \cup {"done", "broken"}
Gone == cpc = "gone"
Finishing == Silent \/ Told("SMALL_DISC_FINISHED")
Held == paused /\ cpc # "next" /\ (Silent \/ (Gone /\ Finishing))

Arriving ==
    \/ Asked("GO_SMALL_DISC") /\ cpc = "await" /\ Silent
    \/ Quiet /\ cpc \in {"route", "lost", "settle"} \cup LocateStages /\ Silent
    \/ Quiet /\ cpc = "start" /\ (Silent \/ Told("SMALL_DISC_READY"))
    \/ /\ Quiet /\ Gone
       /\ Silent \/ (Told("SMALL_DISC_READY") /\ ~evtQ[1].ok)

AtStart == Quiet /\ cpc = "start" /\ Silent

Circling ==
    \/ Asked("SMALL_DISC_START") /\ cpc = "start" /\ Silent
    \/ Quiet /\ Going /\ Silent
    \/ Quiet /\ Gone /\ Finishing

\* The pause meets a base that has not set out, is on its way, or has gone.
StartAndStop ==
    /\ Len(cmdQ) = 2
    /\ cmdQ[1].type = "SMALL_DISC_START" /\ cmdQ[2].type = "SMALL_DISC_STOP"
Pausing ==
    \/ StartAndStop /\ cpc = "start" /\ Silent
    \/ /\ Quiet \/ Asked("SMALL_DISC_STOP")
       /\ (Going /\ Silent) \/ (Gone /\ Finishing)
    \/ /\ Quiet /\ paused /\ cpc # "next"
       /\ \/ Told("SMALL_DISC_PAUSED")
          \/ /\ Gone /\ Len(evtQ) = 2
             /\ evtQ[1].type = "SMALL_DISC_PAUSED"
             /\ evtQ[2].type = "SMALL_DISC_FINISHED"
    \/ Quiet /\ Held

Holding == Quiet /\ Held

Resuming ==
    \/ (Quiet \/ Asked("SMALL_DISC_RESUME")) /\ Held
    \/ Quiet /\ Going /\ (Silent \/ Told("SMALL_DISC_RESUMED"))
    \/ /\ Quiet /\ Gone
       /\ \/ Finishing
          \/ Told("SMALL_DISC_RESUMED")
          \/ /\ Len(evtQ) = 2
             /\ evtQ[1].type = "SMALL_DISC_RESUMED"
             /\ evtQ[2].type = "SMALL_DISC_FINISHED"

Finished == Quiet /\ Gone /\ Silent

Leaving ==
    /\ Silent
    /\ \/ Asked("GO_DEPOT_1") /\ Gone
       \/ Quiet /\ cpc \in {"gone", "next"}

Rendezvous(s) ==
    CASE s = "WAIT_SMALL_DISC" -> Arriving
      [] s \in {"SMALL_DISC_WAIT_POSE", "SMALL_DISC_WAIT_VISION_START"} -> AtStart
      [] s = "SMALL_DISC_RUNNING" -> Circling
      [] s = "SMALL_DISC_WAIT_PAUSE" -> Pausing
      [] s \in {"SMALL_DISC_WAIT_ACK", "SMALL_DISC_WAIT_GRASP",
                "SMALL_DISC_WAIT_RETURN", "SMALL_DISC_WAIT_STORAGE",
                "SMALL_DISC_WAIT_VISION_RESUME"} -> Holding
      [] s = "SMALL_DISC_WAIT_RESUME" -> Resuming
      [] s \in {"SMALL_DISC_WAIT_VISION_END", "SMALL_DISC_WAIT_SAFE"} -> Finished
      [] OTHER -> Leaving

MeetFits ==
    /\ state \notin RestStates => Rendezvous(state)
    /\ state \in RestStates /\ arm # 0 =>
         Parked /\ \A i \in DOMAIN cmdQ : cmdQ[i].type = "STOP"

-----------------------------------------------------------------------------
(* The session and the arm.                                                *)

\* Where the session may be in a state of a run that goes on, with n balls:
\* nowhere, where the run only goes while balls are wanted.
PhasesOf(s, n) ==
    CASE s \in {"WAIT_SMALL_DISC", "SMALL_DISC_WAIT_POSE"} ->
           IF n < BallLimit THEN {"IDLE"} ELSE {}
      [] s \in {"SMALL_DISC_WAIT_VISION_START",
                "SMALL_DISC_WAIT_VISION_RESUME"} ->
           IF n < BallLimit THEN {"STARTING"} ELSE {}
      [] s \in {"SMALL_DISC_RUNNING", "SMALL_DISC_WAIT_RESUME"} ->
           IF n < BallLimit THEN {"LISTENING"} ELSE {"IDLE"}
      [] s = "SMALL_DISC_WAIT_PAUSE" -> {"ACKING", "IDLE"}
      [] s = "SMALL_DISC_WAIT_ACK" -> {"ACKING"}
      [] s = "SMALL_DISC_WAIT_VISION_END" -> {"LISTENING", "STOPPING"}
      [] OTHER -> {"IDLE"}

\* A session that is still to be stopped is one the end of the circle closes.
SessionFits ==
    state \notin RestStates =>
        /\ vis.phase \in PhasesOf(state, balls)
        /\ vis.phase # "IDLE" => vis.scene = "SMALL_DISC"
        /\ vis.stopReq <=> /\ state = "SMALL_DISC_WAIT_VISION_END"
                           /\ vis.phase = "LISTENING"

\* The arm moves, or its success is signalled, in the states that wait for it.
OkSeen == "ARM_OK" \in got /\ pc \in {"commands", "events", "arm"}
OkSignalled == "ARM_OK" \in flags \/ OkSeen
ArmFits ==
    /\ OkSignalled => arm = 0
    /\ ~("ARM_OK" \in flags /\ OkSeen)
    /\ state \notin RestStates /\ (arm # 0 \/ OkSignalled) => state \in ArmStates

DiscInv == ControlInv /\ BaseFits /\ MeetFits /\ SessionFits /\ ArmFits
=============================================================================

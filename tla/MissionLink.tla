---------------------------- MODULE MissionLink ----------------------------
(***************************************************************************)
(* The two message queues between the Mission task and the chassis task   *)
(* (chassis_mission_link.c) with the wake-up flag that goes with an event, *)
(* and the three ways the chassis side reads and writes them (app_link.c). *)
(***************************************************************************)
EXTENDS Integers, Sequences

CONSTANT QueueDepth      \* CHASSIS_MISSION_QUEUE_DEPTH, of both queues

ASSUME QueueDepthAssumption == QueueDepth \in Nat \ {0}

VARIABLES
    cmdQ,    \* chassis_command_queue: Mission -> chassis
    evtQ,    \* mission_event_queue:   chassis -> Mission
    flags    \* the pending thread flags of the Mission task

linkVars == <<cmdQ, evtQ, flags>>

FlagNames == {"COMMAND", "EVENT", "ARM_OK", "ARM_FAIL", "VISION_DONE"}

Command(type, id) == [type |-> type, id |-> id]
Event(type, id, ok) == [type |-> type, id |-> id, ok |-> ok]

LinkInit == evtQ = <<>> /\ flags = {}

\* chassis_mission_link_send_command with a zero timeout: refused when full.
CommandRoom == Len(cmdQ) < QueueDepth
Sent(type, id) == Append(cmdQ, Command(type, id))

\* Mutant: the event is queued without looking for room.
link_post_unchecked(type, id, ok) ==
    /\ evtQ' = Append(evtQ, Event(type, id, ok))
    /\ flags' = flags \cup {"EVENT"}

(***************************************************************************)
(* link_post: wait up to 100 ms for room, queue the event, then wake the   *)
(* Mission task.  Waiting is a stuttering step; when the wait runs out the *)
(* event is lost, and every caller but the boot handshake ignores that.    *)
(***************************************************************************)
link_post(type, id, ok) ==
    IF Len(evtQ) < QueueDepth
    THEN /\ evtQ' = Append(evtQ, Event(type, id, ok))
         /\ flags' = flags \cup {"EVENT"}
    ELSE UNCHANGED <<evtQ, flags>>

\* A command leaves the queue; link_poll and link_wait take the oldest.
NextCommand == Head(cmdQ)
TakeCommand == cmdQ # <<>> /\ cmdQ' = Tail(cmdQ)
=============================================================================

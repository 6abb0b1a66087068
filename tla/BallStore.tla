----------------------------- MODULE BallStore -----------------------------
(***************************************************************************)
(* Storing one ball (mission_store_ball): read its card, with retries, put *)
(* it on record, turn the turntable by one slot.  All of it runs inside a  *)
(* handler of the Mission task, which therefore handles nothing else; the  *)
(* card reader (ic_card_service.c) and the motor go on beside it.          *)
(***************************************************************************)
EXTENDS MissionCore, BallManifest

CONSTANTS
    IcAttempts,    \* MISSION_IC_MAX_ATTEMPTS
    FineMax,       \* MISSION_ZDT_FINE_MAX_STEPS
    RegionLimit,   \* ball_manifest_region_expected of the region
    Cards,         \* the cell each ball's card names, in the order of grasping
    LateAnswers    \* may a card answer come after its wait ran out?

ASSUME StoreAssumption ==
    /\ IcAttempts \in Nat \ {0} /\ FineMax \in Nat
    /\ RegionLimit \in 0..Capacity
    /\ Cards \in Seq(Cells) /\ LateAnswers \in BOOLEAN

VARIABLES
    step,          \* where mission_store_ball stands, "off" outside of it
    tries,         \* mission_read_ball: attempt
    icDone,        \* the thread flag MISSION_FLAG_IC_DONE
    icStatus,      \* ctx->storage.ic_status
    icBall,        \* ctx->storage.ic_ball
    reader,        \* the card reader service, see ReaderType
    manifest,      \* ctx->manifest
    storageSlot,   \* ctx->storage_slot
    currentSlot,   \* ctx->current_slot
    fine,          \* mission_advance_slots: fine_steps
    motor,         \* what the turntable motor is doing
    pos,           \* the slot that is really under the arm
    loaded,        \* the ball in each slot, 0 if none
    late           \* some card answer came too late

readVars == <<tries, icDone, icStatus, icBall>>
slotVars == <<manifest, storageSlot, currentSlot>>
worldVars == <<reader, motor, pos, loaded, late>>
storeVars == <<step, readVars, slotVars, fine, worldVars>>
allButMotor == <<step, readVars, slotVars, fine, reader, pos, loaded, late>>

Slots == 0..SlotCount-1

(***************************************************************************)
(* A read, of the slot at, is active from its submission until the         *)
(* multiplexer completes it; calling while its callback is still to come,  *)
(* with the cell the card names, NoCell for an error.                      *)
(***************************************************************************)
ReaderType == [active : BOOLEAN, at : Slots, calling : BOOLEAN,
               cell : Cells \cup {NoCell}]

StoreTypeOK ==
    /\ step \in {"off", "clear", "submit", "listen", "again", "read", "unread",
                 "turn", "poll", "gate", "stored", "failed"}
    /\ tries \in 0..IcAttempts
    /\ icDone \in BOOLEAN
    /\ icStatus \in {"BUSY", "OK", "ERROR"}
    /\ icBall \in Cells \cup {NoCell}
    /\ reader \in ReaderType
    /\ manifest \in Seq(RecordType)
    /\ storageSlot \in Nat
    /\ {currentSlot, pos} \subseteq Slots
    /\ fine \in 0..FineMax
    /\ motor \in {"still", "coarse", "fine", "stuck"}
    /\ loaded \in [Slots -> 0..Len(Cards)]
    /\ late \in BOOLEAN

StoreInit ==
    /\ step = "off" /\ tries = 0
    /\ icDone = FALSE /\ icStatus = "BUSY" /\ icBall = NoCell
    /\ reader = [active |-> FALSE, at |-> 0, calling |-> FALSE, cell |-> NoCell]
    /\ manifest = <<>> /\ storageSlot = 0 /\ currentSlot = 0
    /\ fine = 0 /\ motor = "still" /\ pos = 0
    /\ loaded = [s \in Slots |-> 0] /\ late = FALSE

to(s) == step' = s

\* The handler that stores a ball begins.
begin_store == to("clear") /\ tries' = 0 /\ fine' = 0

-----------------------------------------------------------------------------
(* mission_read_ball.                                                      *)

\* Every attempt first forgets the completion of the one before.
ClearDone ==
    /\ step = "clear" /\ to("submit")
    /\ icDone' = FALSE /\ icStatus' = "BUSY"
    /\ UNCHANGED <<tries, icBall, slotVars, fine, worldVars>>

\* ic_read: refused while a read is active, or by the multiplexer.
SubmitRead ==
    /\ step = "submit"
    /\ \/ /\ ~reader.active
          /\ reader' = [reader EXCEPT !.active = TRUE, !.at = pos]
          /\ to("listen")
       \/ /\ reader.active \/ DeviceFaults
          /\ to("again")
          /\ UNCHANGED reader
    /\ UNCHANGED <<readVars, slotVars, fine, motor, pos, loaded, late>>

\* mission_wait_device ends with the flag; whose answer it was is not asked.
CardDone ==
    /\ step = "listen" /\ icDone
    /\ icDone' = FALSE
    /\ to(IF icStatus = "OK" THEN "read" ELSE "again")
    /\ UNCHANGED <<tries, icStatus, icBall, slotVars, fine, worldVars>>

CardOverdue ==
    /\ step = "listen" /\ ~icDone /\ LateAnswers
    /\ to("again") /\ late' = TRUE
    /\ UNCHANGED <<readVars, slotVars, fine, reader, motor, pos, loaded>>

NextAttempt ==
    /\ step = "again"
    /\ tries' = tries + 1
    /\ to(IF tries' < IcAttempts THEN "clear" ELSE "unread")
    /\ UNCHANGED <<icDone, icStatus, icBall, slotVars, fine, worldVars>>

\* Mutant: the record names the slot under the arm's next ball.
RecordNextSlot ==
    /\ step \in {"read", "unread"}
    /\ IF Len(manifest) < RegionLimit
       THEN /\ manifest' = Append(manifest,
                  Appended(storageSlot + 1, IF step = "read" THEN icBall ELSE NoCell))
            /\ to("turn")
       ELSE to("failed") /\ UNCHANGED manifest
    /\ UNCHANGED <<readVars, storageSlot, currentSlot, fine, worldVars>>

\* mission_record_ball: refused when the region is complete.
RecordBall ==
    /\ step \in {"read", "unread"}
    /\ IF Len(manifest) < RegionLimit
       THEN /\ manifest' = Append(manifest,
                  Appended(storageSlot, IF step = "read" THEN icBall ELSE NoCell))
            /\ to("turn")
       ELSE to("failed") /\ UNCHANGED manifest
    /\ UNCHANGED <<readVars, storageSlot, currentSlot, fine, worldVars>>

-----------------------------------------------------------------------------
(* mission_advance_slots for one slot.  Before each transaction it drains  *)
(* the user commands and gives up if the run has been stopped by one.      *)

\* turn_stop: refused, or the motor stands where it is.
turn_stop == motor' \in {motor, "still"}

\* Mutant: a STOP is taken from the queue, but the turn goes on.
drained_only == userQ = 0

Drained == userQ = 0 /\ state \notin RestStates

GiveUp ==
    /\ step \in {"turn", "poll"} /\ userQ = 0 /\ state \in RestStates
    /\ to("failed")
    /\ UNCHANGED <<readVars, slotVars, fine, worldVars>>

\* The first motion turns by a slot, the later ones only adjust.
SubmitMove ==
    /\ step = "turn" /\ Drained
    /\ motor' = IF fine = 0 THEN "coarse" ELSE "fine"
    /\ to("poll")
    /\ UNCHANGED <<readVars, slotVars, fine, reader, pos, loaded, late>>

\* A refused or unanswered command; the motor may have got it all the same.
MoveFails ==
    /\ step = "turn" /\ Drained /\ DeviceFaults
    /\ motor' \in {motor, IF fine = 0 THEN "coarse" ELSE "fine"}
    /\ to("failed")
    /\ UNCHANGED <<readVars, slotVars, fine, reader, pos, loaded, late>>

PollReached ==
    /\ step = "poll" /\ Drained /\ motor = "still"
    /\ to("gate")
    /\ UNCHANGED <<readVars, slotVars, fine, worldVars>>

\* The motor reports a stall, does not answer, or takes too long.
PollFails ==
    /\ step = "poll" /\ Drained /\ DeviceFaults
    /\ to("failed")
    /\ UNCHANGED <<readVars, slotVars, fine, worldVars>>

\* Mutant: the fine steps have no limit.
ReadGateForever ==
    /\ step = "gate"
    /\ \/ to("stored") /\ UNCHANGED fine
       \/ fine' = FineMax /\ to("turn")
    /\ UNCHANGED <<readVars, slotVars, worldVars>>

\* Without the gate's confirmation the fine steps are used up, then the turn
\* counts as done.
ReadGate ==
    /\ step = "gate"
    /\ \/ to("stored") /\ UNCHANGED fine
       \/ fine < FineMax /\ fine' = fine + 1 /\ to("turn")
    /\ UNCHANGED <<readVars, slotVars, worldVars>>

\* mission_read_ball's read_ok for the ball on record last
read_ok == manifest[Len(manifest)].state = "STORED"

\* Mutant: a slot is only used up by a ball whose card was read.
slot_used_if_read ==
    /\ currentSlot' = (currentSlot + 1) % SlotCount
    /\ storageSlot' = IF read_ok THEN storageSlot + 1 ELSE storageSlot
    /\ to("off")
    /\ UNCHANGED <<readVars, manifest, fine, worldVars>>

\* The end of mission_store_ball and the start of mission_handle_storage: the
\* slot is used up even if the card could not be read.
slot_used ==
    /\ currentSlot' = (currentSlot + 1) % SlotCount
    /\ storageSlot' = storageSlot + 1
    /\ to("off")
    /\ UNCHANGED <<readVars, manifest, fine, worldVars>>

StoreStep ==
    \/ ClearDone \/ SubmitRead \/ CardDone \/ CardOverdue \/ NextAttempt
    \/ RecordBall \/ GiveUp \/ SubmitMove \/ MoveFails \/ PollReached
    \/ PollFails \/ ReadGate

-----------------------------------------------------------------------------
(* The card reader and the motor.                                          *)

Under(slot) == IF loaded[slot] = 0 THEN NoCell ELSE Cards[loaded[slot]]

\* ic_mux_done frees the service first, so that a new read can be submitted,
\* and calls back then.
CardAnswered ==
    /\ reader.active /\ ~reader.calling
    /\ \E c \in {Under(reader.at), Under(pos), NoCell} :
         reader' = [reader EXCEPT !.active = FALSE, !.calling = TRUE, !.cell = c]
    /\ UNCHANGED <<step, readVars, slotVars, fine, motor, pos, loaded, late>>

\* mission_ic_done
CardCallback ==
    /\ reader.calling
    /\ reader' = [reader EXCEPT !.calling = FALSE]
    /\ icDone' = TRUE
    /\ icStatus' = IF reader.cell = NoCell THEN "ERROR" ELSE "OK"
    /\ icBall' = IF reader.cell = NoCell THEN icBall ELSE reader.cell
    /\ UNCHANGED <<step, tries, slotVars, fine, motor, pos, loaded, late>>

MoveEnds ==
    /\ motor \in {"coarse", "fine"}
    /\ \/ /\ motor' = "still"
          /\ pos' = IF motor = "coarse" THEN (pos + 1) % SlotCount ELSE pos
       \/ DeviceFaults /\ motor' = "stuck" /\ UNCHANGED pos
    /\ UNCHANGED <<step, readVars, slotVars, fine, reader, loaded, late>>

StoreDevices == CardAnswered \/ CardCallback \/ MoveEnds

\* The arm lets go of what it grasped, ball k or nothing, over the turntable.
drop(k) ==
    /\ \E b \in {0, k} : loaded' = [loaded EXCEPT ![pos] = b]
    /\ UNCHANGED <<step, readVars, slotVars, fine, reader, motor, pos, late>>
=============================================================================

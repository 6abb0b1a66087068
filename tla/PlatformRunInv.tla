--------------------------- MODULE PlatformRunInv ---------------------------
(***************************************************************************)
(* The inductive invariants behind the theorems of PlatformProofs, in      *)
(* named parts so that TLC can check them before tlapm proves them.  Each  *)
(* of the three layers is inductive given the ones before it.              *)
(***************************************************************************)
EXTENDS PlatformRun, MissionInv

-----------------------------------------------------------------------------
(* First layer: the mailbox, the books and the turntable.                  *)

\* A run that goes on opens a session in one state only.
OpeningFits ==
    state \notin RestStates /\ vis.phase = "STARTING" =>
        state = "PLATFORM_WAIT_VISION"

\* A store runs inside its handler, and while the run goes on in its state;
\* only the turn listens to a STOP.
StoreInHandler ==
    /\ pc = "storing" <=> step # "off"
    /\ step # "off" => state \in {"PLATFORM_WAIT_STORAGE"} \cup RestStates
    /\ step \notin {"off", "turn", "poll", "failed"} =>
         state = "PLATFORM_WAIT_STORAGE"

Unrecorded == {"clear", "submit", "listen", "again", "read", "unread"}
Recorded == {"turn", "poll", "gate", "stored"}
Resumes == step = "off" /\ state \notin RestStates

\* One record per used slot, in order, and one more while it is turned away.
BooksInOrder ==
    /\ Len(manifest) \in {storageSlot, storageSlot + 1}
    /\ Len(manifest) <= RegionLimit
    /\ \A i \in DOMAIN manifest : manifest[i].slot = i - 1
    /\ step \in Unrecorded \/ Resumes => Len(manifest) = storageSlot
    /\ step \in Recorded => Len(manifest) = storageSlot + 1
    /\ currentSlot = storageSlot

\* The slot under the arm is the current one until the coarse turn ends, and
\* the next one from then on.
TurnInStep ==
    /\ step \in Unrecorded \/ Resumes => motor = "still" /\ pos = currentSlot
    /\ step \in Unrecorded => fine = 0
    /\ step \in {"turn", "gate", "stored"} => motor = "still"
    /\ step = "turn" /\ fine = 0 => pos = currentSlot
    /\ step \in {"gate", "stored"} \/ (step = "turn" /\ fine > 0) =>
         pos = currentSlot + 1
    /\ step = "poll" /\ state \notin RestStates =>
         /\ motor = "coarse" => pos = currentSlot
         /\ motor \in {"still", "fine"} => pos = currentSlot + 1

\* Everything of StoreTypeOK but the balls in the slots, and what keeps the
\* attempts to read a card within their number.
BooksTyped ==
    /\ step \in {"off", "failed"} \cup Unrecorded \cup Recorded
    /\ tries \in 0..IcAttempts
    /\ step \in {"clear", "submit", "listen", "again"} => tries < IcAttempts
    /\ icDone \in BOOLEAN
    /\ icStatus \in {"BUSY", "OK", "ERROR"}
    /\ icBall \in Cells \cup {NoCell}
    /\ reader \in ReaderType
    /\ manifest \in Seq(RecordType)
    /\ storageSlot \in Nat
    /\ {currentSlot, pos} \subseteq Slots
    /\ fine \in 0..FineMax
    /\ motor \in {"still", "coarse", "fine", "stuck"}
    /\ late \in BOOLEAN

SearchStates ==
    {"WAIT_PLATFORM", "PLATFORM_WAIT_POSE", "PLATFORM_SETTLE",
     "PLATFORM_WAIT_VISION", "PLATFORM_WAIT_TARGET"}
\* No grasp has been started since the last store.
Searching ==
    \/ state \in SearchStates
    \/ state = "PLATFORM_WAIT_GRASP" /\ vis.phase = "ACKING"

\* The states on the way from the search for a ball to its store.
FillingStates ==
    SearchStates \cup
    {"PLATFORM_WAIT_GRASP", "PLATFORM_WAIT_AVOID", "PLATFORM_WAIT_RETURN",
     "PLATFORM_WAIT_STORAGE"}

\* There is an attempt left to search with, and room for what it finds.
CountsFit ==
    /\ attempts \in 0..MaxAttempts /\ balls \in 0..BallCount
    /\ loaded \in [Slots -> 0..Len(Cards)]
    /\ Searching => attempts < MaxAttempts
    /\ state \in FillingStates => balls < BallCount

ControlInv ==
    /\ CoreTypeOK /\ QueueTyped /\ state \in PlatformStates
    /\ SafeRecord(vis) /\ StopNoted(vis) /\ DoneMeansAnswered
    /\ OpeningFits /\ StoreInHandler
    /\ BooksTyped /\ BooksInOrder /\ TurnInStep /\ CountsFit

-----------------------------------------------------------------------------
(* Second layer: the arm, the base and the balls in the slots.             *)

\* While the run goes on the session is where the state says.
SessionFits ==
    state \notin RestStates =>
        /\ ~vis.stopReq
        /\ \/ vis.phase = "IDLE"
           \/ vis.phase = "STARTING" /\ state = "PLATFORM_WAIT_VISION"
           \/ vis.phase = "LISTENING" /\ state = "PLATFORM_WAIT_TARGET"
           \/ vis.phase = "ACKING" /\ state = "PLATFORM_WAIT_GRASP"

OkSeen == "ARM_OK" \in got /\ pc \in {"commands", "events", "arm"}

\* The arm is executing a group, or its success is still to be handled.
ArmOwed == arm # 0 \/ "ARM_OK" \in flags \/ OkSeen

GroupOf(s) ==
    CASE s = "PLATFORM_WAIT_GRASP" -> 12
      [] s \in {"PLATFORM_WAIT_POSE", "PLATFORM_WAIT_RETURN"} -> 11
      [] OTHER -> 10

\* A group and its report are never on their way together with a second one;
\* while the run goes on they are the ones its state waits for.
ArmAccounted ==
    /\ "ARM_OK" \in flags \/ OkSeen => arm = 0
    /\ ~("ARM_OK" \in flags /\ OkSeen)
    /\ armHome => arm = 0
    /\ armHome /\ state \notin RestStates => activeArm = 10
    /\ ArmOwed /\ state \notin RestStates =>
         /\ state \in ArmStates /\ activeArm = GroupOf(state)
         /\ arm \in {0, activeArm}
         /\ state = "PLATFORM_WAIT_GRASP" => vis.phase = "IDLE"
    /\ state = "WAIT_STAIRS" => activeArm = 10

\* The base drives before the arm is first started and after it was last.
BaseAccounted ==
    /\ evtQ \in Seq([type : {"PLATFORM_READY", "STOPPED"},
                     id : Nat, ok : BOOLEAN])
    /\ driving => cpc \in {"route", "next"}
    /\ cpc \in {"await", "route"} =>
         /\ arm = 0 /\ state \in {"WAIT_PLATFORM"} \cup RestStates
         /\ \A i \in DOMAIN evtQ : evtQ[i].type # "PLATFORM_READY"
    /\ cpc = "next" \/ (\E i \in DOMAIN cmdQ : cmdQ[i].type = "GO_STAIRS") =>
         arm = 0 /\ state \in {"WAIT_STAIRS"} \cup RestStates

\* The arm works over a standing turntable, above the slot in use, and every
\* later slot is empty; so is this one until the ball is dropped.
SlotsAhead ==
    /\ step # "off" \/ motor # "still" => arm = 0
    /\ arm # 0 => pos = currentSlot /\ Len(manifest) = storageSlot
    /\ \A s \in Slots : s > storageSlot => loaded[s] = 0
    /\ Searching \/ arm = 12 => loaded[storageSlot] = 0

MachineInv ==
    /\ ChassisTypeOK
    /\ SessionFits /\ ArmAccounted /\ BaseAccounted /\ SlotsAhead

-----------------------------------------------------------------------------
(* Third layer: whose card an answer names, as long as none came too late. *)

OneAnswer ==
    /\ reader.active \/ reader.calling \/ icDone => step = "listen"
    /\ reader.active => ~reader.calling /\ ~icDone /\ reader.at = pos
    /\ reader.calling => ~icDone /\ reader.cell \in {Under(pos), NoCell}
    /\ icDone /\ icStatus = "OK" => icBall = Under(pos)
    /\ step = "read" => icBall = Under(pos)

CardInv == RecordNamesItsBall /\ (~late => OneAnswer)
=============================================================================

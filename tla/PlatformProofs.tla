--------------------------- MODULE PlatformProofs ---------------------------
(***************************************************************************)
(* Theorems about the platform, for every value of the constants: depths,  *)
(* number of stops, balls, attempts and retries, cards, faults or none.    *)
(* The invariants of PlatformRunInv are proved one layer after the other.  *)
(***************************************************************************)
EXTENDS PlatformRunInv, MissionProofs

-----------------------------------------------------------------------------
(* The first layer, regrouped by who changes what.                         *)

MailParts ==
    /\ CtxTyped(PlatformStates) /\ LoopTyped
    /\ SafeRecord(vis) /\ StopNoted(vis) /\ DoneMeansAnswered /\ OpeningFits
StoreParts == StoreInHandler /\ BooksTyped /\ BooksInOrder /\ TurnInStep
Parts == MailParts /\ StoreParts /\ CountsFit

LEMMA Regroup == (ControlInv => Parts) /\ (Parts' => ControlInv')
BY DEF ControlInv, Parts, MailParts, StoreParts, CoreTypeOK, CtxTyped,
       LoopTyped, SafeRecord, PlatformStates, RestStates

\* All of the store but the balls in the slots.
booksVars == <<step, readVars, slotVars, fine, reader, motor, pos, late>>

\* What RestIsKept asks of the context.
RestObeyed ==
    state \in RestStates =>
        state' \in RestStates /\ arm' \in {0, arm} /\ StopOnly

\* What a handler that worked on the record v leaves.
Safe(v) == Handled(PlatformStates, v) /\ OpeningFits' /\ RestObeyed

\* The run does not come back to the search, nor on the way to a store.
Paced ==
    /\ Searching' => Searching
    /\ state' \in FillingStates => state \in FillingStates

LEMMA CountsKept ==
    ASSUME CountsFit, Paced, UNCHANGED <<attempts, balls, loaded>>
    PROVE  CountsFit'
BY DEF CountsFit, Paced

\* A step outside the store, or beside it, leaves the books as they are.
LEMMA StoreKept ==
    ASSUME StoreParts, UNCHANGED booksVars, pc' = "storing" <=> pc = "storing",
           \/ state' = state
           \/ pc # "storing" /\ (state \in RestStates => state' \in RestStates)
    PROVE  StoreParts'
<1>1. /\ UNCHANGED <<step, tries, icDone, icStatus, icBall, manifest>>
      /\ UNCHANGED <<storageSlot, currentSlot, fine, reader, motor, pos, late>>
  BY DEF booksVars, readVars, slotVars
<1>2. BooksTyped'
  BY <1>1 DEF StoreParts, BooksTyped
<1>3. (Resumes' => Resumes) /\ (step # "off" => state' = state)
  BY <1>1 DEF StoreParts, StoreInHandler, Resumes
<1>4. StoreInHandler'
  BY <1>1, <1>3 DEF StoreParts, StoreInHandler
<1>5. BooksInOrder' /\ TurnInStep'
  BY <1>1, <1>3 DEF StoreParts, BooksInOrder, TurnInStep
<1> QED BY <1>2, <1>4, <1>5 DEF StoreParts

\* What is left of MailParts once the handler is known to be safe.
LEMMA MailKept ==
    ASSUME MailParts, NEW v, Handled(PlatformStates, v), OpeningFits',
           UNCHANGED <<flags, stops>>, userQ' \in 0..CommandDepth,
           got' \subseteq got, pc' \in LoopStages,
           \/ /\ Answered(vis) => Answered(v)
              /\ \/ pc' \in {"process", "timeout", "wait"}
                 \/ pc \in {"commands", "events", "arm", "storing", "storeStopped"}
           \/ DoneSeen /\ pc' = "process"
    PROVE  MailParts'
<1>1. DoneMeansAnswered'
  <2>1. Answered(v) => Answered(vis')
    BY DEF Handled
  <2> QED BY <2>1, DoneKept DEF MailParts
<1>2. LoopTyped'
  BY DEF MailParts, LoopTyped
<1> QED BY <1>1, <1>2 DEF MailParts, Handled

-----------------------------------------------------------------------------
(* The ways a handler ends.                                                *)

LEMMA KeepSafe ==
    ASSUME MailParts, NEW v, SafeRecord(v), StopNoted(v),
           v.phase = vis.phase \/ v.phase \notin {"STARTING", "ACKING"}, keep(v)
    PROVE  Safe(v) /\ Paced
<1>1. Handled(PlatformStates, v) /\ StopOnly /\ state' = state /\ vis' = v
  BY EnterSafe DEF keep, MailParts, CtxTyped, StopNoted
<1>2. arm' = arm
  BY DEF keep, enter_state
<1> QED
  BY <1>1, <1>2
  DEF Safe, OpeningFits, RestObeyed, MailParts, Paced, Searching

\* A handler that goes on, from a state that goes on.
LEMMA EnterGoesOn ==
    ASSUME MailParts, NEW v, SafeRecord(v),
           NEW s \in PlatformStates \ RestStates,
           v.phase = "STARTING" => s = "PLATFORM_WAIT_VISION",
           state \notin RestStates, enter_state(v, s)
    PROVE  Safe(v) /\ state' = s /\ vis' = v
<1>1. Handled(PlatformStates, v) /\ state' = s /\ vis' = v
  BY EnterSafe DEF MailParts
<1> QED BY <1>1 DEF Safe, OpeningFits, RestObeyed

\* The groups the platform runs and the states that wait for them.
LEMMA ArmWays ==
    /\ 10 \in Groups /\ 11 \in Groups
    /\ "PLATFORM_WAIT_POSE" \in PlatformStates \ RestStates
    /\ "PLATFORM_WAIT_AVOID" \in PlatformStates \ RestStates
    /\ "PLATFORM_WAIT_RETURN" \in PlatformStates \ RestStates
    /\ "PLATFORM_WAIT_DEPARTURE_POSE" \in PlatformStates \ RestStates
BY DEF Groups, PlatformStates, ArmStates, RestStates

LEMMA RestIsSlow == Rested => Paced
BY DEF Rested, RestStates, Paced, Searching, SearchStates, FillingStates

LEMMA FaultSafe ==
    ASSUME MailParts, NEW w \in Contexts, SafeRecord(w.vis), StopNoted(w.vis),
           NEW f \in Faults, mission_fail(w, f)
    PROVE  Safe(w.vis) /\ Rested /\ Paced
<1>1. Handled(PlatformStates, w.vis) /\ StopOnly /\ Rested
  BY FailSafe DEF MailParts
<1> QED BY <1>1, RestIsSlow DEF Safe, OpeningFits, RestObeyed, Rested

LEMMA FaultNow ==
    ASSUME MailParts, NEW f \in Faults, mission_fail(Now, f)
    PROVE  Safe(vis) /\ Rested /\ Paced
<1>1. Now \in Contexts /\ Now.vis = vis
  BY DEF Now, Contexts, MailParts, CtxTyped, SafeRecord
<1> QED BY <1>1, FaultSafe DEF MailParts

LEMMA FaultWith ==
    ASSUME MailParts, NEW v, SafeRecord(v), StopNoted(v),
           NEW f \in Faults, mission_fail(With(v), f)
    PROVE  Safe(v) /\ Rested /\ Paced
<1>1. With(v) \in Contexts /\ With(v).vis = v
  BY WithContext DEF MailParts, SafeRecord, CtxTyped
<1> QED BY <1>1, FaultSafe

LEMMA ArmGoesOn ==
    ASSUME MailParts, NEW v, SafeRecord(v), StopNoted(v),
           v.phase # "STARTING", NEW g \in Groups,
           NEW s \in PlatformStates \ RestStates,
           state \notin RestStates, start_arm(v, g, s)
    PROVE  /\ Safe(v)
           /\ \/ Rested
              \/ /\ state' = s /\ vis' = v /\ activeArm' = g /\ arm' = g
                 /\ armHome' = FALSE /\ UNCHANGED <<requestId, cmdQ>>
<1>1. CASE /\ state' = s /\ vis' = v /\ activeArm' = g /\ arm' = g
           /\ armHome' = FALSE /\ UNCHANGED <<fault, requestId, cmdQ>>
  <2>1. Handled(PlatformStates, v)
    BY ArmSafe DEF MailParts
  <2> QED BY <1>1, <2>1 DEF Safe, OpeningFits, RestObeyed
<1>2. CASE mission_fail([With(v) EXCEPT !.active = 0], "ARM")
  <2>1. [With(v) EXCEPT !.active = 0] \in Contexts
        /\ [With(v) EXCEPT !.active = 0].vis = v
    BY WithContext DEF MailParts, SafeRecord, CtxTyped
  <2> QED BY <1>2, <2>1, FaultSafe DEF Faults
<1> QED BY <1>1, <1>2 DEF start_arm

LEMMA FinishGoesOn ==
    ASSUME MailParts, vis.phase # "STARTING", state \notin RestStates,
           finish_platform
    PROVE  /\ Safe(vis)
           /\ \/ Rested
              \/ /\ state' = "WAIT_STAIRS" /\ vis' = vis
                 /\ cmdQ' = Sent("GO_STAIRS", requestId')
                 /\ UNCHANGED <<activeArm, armHome, arm>>
<1> DEFINE id == mission_next_request_id(requestId)
<1>0. id \in 1..IdMax
  BY NextIdTyped DEF MailParts, CtxTyped
<1>1. CASE /\ CommandRoom /\ cmdQ' = Sent("GO_STAIRS", id) /\ requestId' = id
           /\ state' = "WAIT_STAIRS" /\ vis' = vis
           /\ UNCHANGED <<fault, activeArm, armHome, arm>>
  <2>1. Handled(PlatformStates, vis)
    BY NewStageSafe
    DEF finish_platform, MailParts, PlatformStates, RestStates, CommandTypes
  <2> QED BY <1>1, <2>1 DEF Safe, OpeningFits, RestObeyed
<1>2. CASE mission_fail([With(vis) EXCEPT !.id = id], "QUEUE")
  <2> HIDE DEF id
  <2>1. [With(vis) EXCEPT !.id = id] \in Contexts
        /\ [With(vis) EXCEPT !.id = id].vis = vis
    BY <1>0, WithContext DEF MailParts, SafeRecord, CtxTyped
  <2> QED BY <1>2, <2>1, FaultSafe DEF MailParts, Faults
<1> QED BY <1>1, <1>2 DEF finish_platform, send_new_stage

\* A handler outside the store is done.
LEMMA HandlerDone ==
    ASSUME Parts, NEW v, Safe(v), UNCHANGED <<flags, stops, booksVars>>, CountsFit',
           userQ' \in 0..CommandDepth, got' \subseteq got,
           pc # "storing", pc' \in LoopStages \ {"storing"},
           \/ /\ Answered(vis) => Answered(v)
              /\ \/ pc' \in {"process", "timeout", "wait"}
                 \/ pc \in {"commands", "events", "arm", "storing", "storeStopped"}
           \/ DoneSeen /\ pc' = "process"
    PROVE  Parts' /\ RestIsKept
<1>1. MailParts'
  BY MailKept DEF Parts, Safe
<1>2. StoreParts'
  BY StoreKept DEF Parts, Safe, RestObeyed
<1>3. storageSlot' = storageSlot
  BY DEF booksVars, slotVars
<1> QED BY <1>1, <1>2, <1>3 DEF Parts, Safe, RestObeyed, RestIsKept, StopOnly

-----------------------------------------------------------------------------
(* One lemma per stage of the main loop.                                   *)

\* A step that leaves the context and the books alone.
LEMMA ContextKept ==
    ASSUME Parts, UNCHANGED <<ctxVars, booksVars>>, pc' = "storing" <=> pc = "storing",
           LoopTyped', DoneMeansAnswered', CountsFit'
    PROVE  Parts' /\ RestIsKept
<1>1. /\ UNCHANGED <<state, fault, requestId, activeArm, armHome, vis, arm, cmdQ>>
      /\ storageSlot' = storageSlot
  BY DEF ctxVars, booksVars, slotVars
<1>2. StoreParts'
  BY <1>1, StoreKept DEF Parts
<1>3. MailParts'
  BY <1>1 DEF Parts, MailParts, CtxTyped, QueueTyped, SafeRecord, StopNoted,
              OpeningFits
<1>4. Len(cmdQ') = Len(cmdQ)
  BY <1>1
<1>5. RestIsKept
  BY <1>1, <1>4 DEF RestIsKept, Parts, MailParts, CtxTyped, QueueTyped
<1> QED BY <1>2, <1>3, <1>5 DEF Parts

LEMMA LoopSteps ==
    ASSUME Parts, UNCHANGED <<storeVars, countVars>>,
           Wake \/ WakeLate(Timed) \/ CommandsDone \/ EventsDone \/ ArmDone
             \/ VisionDone \/ NothingToProcess \/ WakeSettled
    PROVE  Parts' /\ RestIsKept
<1>1. UNCHANGED <<ctxVars, booksVars>>
  BY DEF Wake, WakeLate, CommandsDone, EventsDone, ArmDone, VisionDone,
         NothingToProcess, WakeSettled, storeVars, worldVars, booksVars
<1>2. vis' = vis
  BY <1>1 DEF ctxVars
<1>3. /\ LoopTyped' /\ DoneMeansAnswered'
      /\ pc' = "storing" <=> pc = "storing"
  <2> USE <1>2 DEF Parts, MailParts, LoopTyped, DoneMeansAnswered, DoneSeen,
                   LoopStages, goto, Answered
  <2>1. CASE Wake          BY <2>1 DEF Wake
  <2>2. CASE WakeLate(Timed)  BY <2>2 DEF WakeLate
  <2>3. CASE CommandsDone  BY <2>3 DEF CommandsDone
  <2>4. CASE EventsDone    BY <2>4 DEF EventsDone
  <2>5. CASE ArmDone       BY <2>5 DEF ArmDone
  <2>6. CASE VisionDone    BY <2>6 DEF VisionDone
  <2>7. CASE NothingToProcess  BY <2>7 DEF NothingToProcess
  <2>8. CASE WakeSettled   BY <2>8 DEF WakeSettled
  <2> QED BY <2>1, <2>2, <2>3, <2>4, <2>5, <2>6, <2>7, <2>8
<1>4. CountsFit'
  <2>1. Paced /\ UNCHANGED <<attempts, balls, loaded>>
    BY <1>1 DEF ctxVars, Paced, Searching, storeVars, worldVars, countVars
  <2> QED BY <2>1, CountsKept DEF Parts
<1> QED BY <1>1, <1>3, <1>4, ContextKept

\* A STOP at rest or on the way, in the loop or during the turn.
LEMMA CommandRests ==
    ASSUME MailParts, mission_handle_command
    PROVE  Safe(vis) /\ Rested
<1>1. /\ Handled(PlatformStates, vis) /\ StopOnly
      /\ state \notin {"STOPPED", "BOOT"} => Rested
  BY CommandSafe DEF MailParts
<1>2. state # "BOOT"
  BY DEF MailParts, CtxTyped, PlatformStates, RestStates, ArmStates
<1>3. Rested
  BY <1>1, <1>2
  DEF mission_handle_command, Rested, RestStates, MailParts, CtxTyped
<1> QED BY <1>1, <1>3 DEF Safe, OpeningFits, RestObeyed, Rested

LEMMA CommandStep ==
    ASSUME Parts, HandleCommand, UNCHANGED <<storeVars, countVars>>
    PROVE  Parts' /\ RestIsKept
<1>1. Safe(vis) /\ Paced
  BY CommandRests, RestIsSlow DEF HandleCommand, Parts
<1>2. userQ' \in 0..CommandDepth
  BY BudgetAssumption DEF HandleCommand, Parts, MailParts, LoopTyped
<1>3. UNCHANGED booksVars /\ CountsFit'
  BY <1>1, CountsKept DEF storeVars, worldVars, booksVars, countVars, Parts
<1>4. pc = "commands" /\ pc' = pc /\ got' = got /\ UNCHANGED <<flags, stops>>
  BY DEF HandleCommand
<1> QED BY <1>1, <1>2, <1>3, <1>4, HandlerDone DEF LoopStages

\* mission_handle_chassis, one step per branch.
LEMMA ChassisEvent ==
    ASSUME Parts, HandleChassis
    PROVE  Parts' /\ RestIsKept
<1> USE DEF Parts
<1>1. PICK e : mission_handle_chassis(e)
  BY DEF HandleChassis
<1>2. SafeRecord(vis) /\ StopNoted(vis)
  BY DEF MailParts
<1>3. Safe(vis) /\ Paced
  <2>1. CASE OnStale(e) \/ OnUnexpected(e)
    BY <1>2, <2>1, KeepSafe DEF OnStale, OnUnexpected
  <2>2. CASE OnFailure(e)
    BY <2>2, FaultNow DEF OnFailure, Faults
  <2>3. CASE OnStopped(e)
    <3>1. Handled(PlatformStates, vis) /\ StopOnly /\ state' = "STOPPED"
      BY <2>3, <1>2, EnterSafe DEF OnStopped, StopNoted, RestStates, MailParts
    <3>2. arm' = arm
      BY <2>3 DEF OnStopped, enter_state
    <3>3. Paced
      BY <3>1 DEF Paced, Searching, SearchStates, FillingStates
    <3> QED BY <3>1, <3>2, <3>3 DEF Safe, OpeningFits, RestObeyed, RestStates
  <2>4. CASE OnArrived(e)
    <3>1. state = "WAIT_PLATFORM" /\ start_arm(vis, 11, "PLATFORM_WAIT_POSE")
      BY <2>4 DEF OnArrived
    <3>2. vis.phase # "STARTING"
      BY <3>1 DEF MailParts, OpeningFits, RestStates
    <3>3. Safe(vis) /\ (Rested \/ state' = "PLATFORM_WAIT_POSE")
      BY <1>2, <3>1, <3>2, ArmWays, ArmGoesOn DEF RestStates
    <3> QED BY <3>1, <3>3, RestIsSlow
            DEF Paced, Searching, SearchStates, FillingStates
  <2> QED BY <1>1, <2>1, <2>2, <2>3, <2>4 DEF mission_handle_chassis
<1>4. /\ pc = "events" /\ userQ' = userQ /\ stops' = stops /\ got' = got
      /\ pc' = pc /\ UNCHANGED <<flags, booksVars, attempts, balls, loaded>>
  BY DEF HandleChassis, loopVars, storeVars, worldVars, booksVars, countVars
<1> QED BY <1>3, <1>4, CountsKept, HandlerDone
        DEF MailParts, LoopTyped, LoopStages

\* mission_handle_arm, without a store.
LEMMA ArmSteps ==
    ASSUME Parts, ArmFail \/ ArmOk
    PROVE  Parts' /\ RestIsKept
<1> USE DEF Parts
<1>1. SafeRecord(vis) /\ StopNoted(vis)
  BY DEF MailParts
<1>2. Safe(vis) /\ Paced
  <2>1. CASE ArmFail
    BY <1>1, <2>1, KeepSafe, FaultNow DEF ArmFail, Faults
  <2>2. CASE ArmOk
    <3>0. state \in ArmStates => vis.phase # "STARTING"
      BY DEF MailParts, OpeningFits, ArmStates, RestStates
    <3> USE DEF Paced, Searching, SearchStates, FillingStates
    <3>1. CASE state = "PLATFORM_WAIT_POSE" /\ enter_state(vis, "PLATFORM_SETTLE")
      BY <1>1, <3>0, <3>1, EnterGoesOn DEF ArmStates, RestStates, PlatformStates
    <3>2. CASE state = "PLATFORM_WAIT_GRASP" /\ prepare_storage
      <4>1. /\ Safe(vis)
            /\ \/ Rested
               \/ state' \in {"PLATFORM_WAIT_AVOID", "PLATFORM_WAIT_RETURN"}
        BY <1>1, <3>0, <3>2, ArmWays, ArmGoesOn
        DEF prepare_storage, ArmStates, RestStates
      <4> QED BY <3>2, <4>1, RestIsSlow
    <3>3. CASE state = "PLATFORM_WAIT_DEPARTURE_POSE" /\ finish_platform
      <4>1. Safe(vis) /\ (Rested \/ state' = "WAIT_STAIRS")
        BY <3>0, <3>3, FinishGoesOn DEF ArmStates, RestStates
      <4> QED BY <4>1, RestIsSlow
    <3>4. CASE keep(vis)
      BY <1>1, <3>4, KeepSafe
    <3> QED BY <2>2, <3>1, <3>2, <3>3, <3>4 DEF ArmOk, arm_next
  <2> QED BY <2>1, <2>2
<1>3. /\ pc = "arm" /\ pc' = "vision" /\ userQ' = userQ /\ stops' = stops
      /\ got' = got /\ UNCHANGED <<flags, booksVars, attempts, balls, loaded>>
  BY DEF ArmFail, ArmOk, goto, storeVars, worldVars, booksVars, countVars
<1> QED BY <1>2, <1>3, CountsKept, HandlerDone
        DEF MailParts, LoopTyped, LoopStages

-----------------------------------------------------------------------------
(* The ball store, which runs inside one handler.                          *)

LEMMA BeginStoreStep ==
    ASSUME Parts, BeginStore
    PROVE  Parts' /\ RestIsKept
<1> USE DEF Parts
<1>1. /\ pc = "arm" /\ state \in StoreStates /\ pc' = "storing"
      /\ userQ' = userQ /\ stops' = stops /\ got' = got /\ flags' = flags
      /\ step' = "clear" /\ tries' = 0 /\ fine' = 0
      /\ UNCHANGED <<icDone, icStatus, icBall, slotVars, worldVars>>
      /\ UNCHANGED <<attempts, balls>>
      /\ enter_state(vis, "PLATFORM_WAIT_STORAGE")
  BY DEF BeginStore, goto, begin_store, to, countVars
<1>2. state \notin RestStates /\ vis.phase # "STARTING" /\ Resumes
  BY <1>1 DEF MailParts, OpeningFits, StoreStates, RestStates, StoreParts,
              StoreInHandler, Resumes
<1>3. Safe(vis) /\ state' = "PLATFORM_WAIT_STORAGE"
  BY <1>1, <1>2, EnterGoesOn DEF MailParts, PlatformStates, RestStates, enter_state
<1>4. MailParts'
  BY <1>1, <1>3, MailKept DEF Safe, MailParts, LoopTyped, LoopStages
<1>5. StoreInHandler'
  BY <1>1, <1>3 DEF StoreInHandler
<1>6. BooksTyped'
  BY <1>1, StoreAssumption
  DEF StoreParts, BooksTyped, slotVars, worldVars, Unrecorded
<1>7. BooksInOrder' /\ TurnInStep'
  BY <1>1, <1>2, <1>3
  DEF StoreParts, BooksInOrder, TurnInStep, slotVars, worldVars, Unrecorded,
      Recorded, Resumes
<1>8. RestIsKept
  BY <1>2 DEF RestIsKept
<1>9. CountsFit'
  <2>1. Paced
    BY <1>1, <1>3
    DEF StoreStates, Paced, Searching, SearchStates, FillingStates
  <2> QED BY <1>1, <2>1, CountsKept DEF worldVars
<1> QED BY <1>4, <1>5, <1>6, <1>7, <1>8, <1>9 DEF StoreParts

\* Each step of mission_store_ball keeps books and turntable in step.
LEMMA StoreStepKeeps ==
    ASSUME StoreParts, StoreStep, pc = "storing", UNCHANGED <<pc, state>>
    PROVE  StoreParts' /\ storageSlot' = storageSlot
<1> USE DEF StoreParts, readVars, slotVars, worldVars, to
<1> USE StoreAssumption
<1>1. CASE ClearDone \/ SubmitRead \/ CardDone \/ CardOverdue \/ NextAttempt
  <2>1. /\ step \in Unrecorded /\ step' \in Unrecorded
        /\ UNCHANGED <<slotVars, fine, motor, pos>>
    BY <1>1 DEF ClearDone, SubmitRead, CardDone, CardOverdue, NextAttempt,
                Unrecorded
  <2>2. state = "PLATFORM_WAIT_STORAGE"
    BY <2>1 DEF StoreInHandler, Unrecorded
  <2>3. StoreInHandler'
    BY <2>1, <2>2 DEF StoreInHandler, Unrecorded
  <2>4. BooksInOrder' /\ TurnInStep'
    BY <2>1 DEF BooksInOrder, TurnInStep, Unrecorded, Recorded, Resumes
  <2>5. BooksTyped'
    <3> USE <2>1 DEF BooksTyped, Unrecorded
    <3>1. CASE ClearDone    BY <3>1 DEF ClearDone
    <3>2. CASE SubmitRead   BY <3>2 DEF SubmitRead, ReaderType
    <3>3. CASE CardDone     BY <3>3 DEF CardDone
    <3>4. CASE CardOverdue  BY <3>4 DEF CardOverdue
    <3>5. CASE NextAttempt  BY <3>5 DEF NextAttempt
    <3> QED BY <1>1, <3>1, <3>2, <3>3, <3>4, <3>5
  <2> QED BY <2>1, <2>3, <2>4, <2>5
<1>2. CASE RecordBall
  <2>1. /\ step \in {"read", "unread"}
        /\ UNCHANGED <<readVars, storageSlot, currentSlot, fine, worldVars>>
    BY <1>2 DEF RecordBall
  <2>2. /\ Len(manifest) = storageSlot /\ state = "PLATFORM_WAIT_STORAGE"
        /\ motor = "still" /\ pos = currentSlot /\ storageSlot = currentSlot
    BY <2>1 DEF BooksInOrder, TurnInStep, StoreInHandler, Unrecorded
  <2>3. CASE Len(manifest) < RegionLimit
    <3> DEFINE r == Appended(storageSlot, IF step = "read" THEN icBall ELSE NoCell)
    <3>1. manifest' = Append(manifest, r) /\ step' = "turn"
      BY <1>2, <2>3 DEF RecordBall
    <3>2. r \in RecordType /\ r.slot = storageSlot
      <4>1. storageSlot \in 0..SlotCount-1
        BY <2>2 DEF BooksTyped, Slots
      <4> QED BY <4>1 DEF BooksTyped, Appended, RecordType
    <3> HIDE DEF r
    <3>3. /\ manifest' \in Seq(RecordType) /\ Len(manifest') = storageSlot + 1
          /\ \A i \in DOMAIN (manifest') : (manifest')[i].slot = i - 1
      BY <2>2, <3>1, <3>2 DEF BooksTyped, BooksInOrder
    <3>4. BooksInOrder' /\ StoreInHandler'
      BY <2>1, <2>2, <2>3, <3>1, <3>3
      DEF BooksInOrder, BooksTyped, StoreInHandler, Unrecorded, Recorded, Resumes
    <3>5. TurnInStep'
      BY <2>1, <2>2, <3>1
      DEF BooksInOrder, BooksTyped, TurnInStep, Unrecorded, Recorded, Resumes
    <3>6. BooksTyped'
      BY <2>1, <3>1, <3>3 DEF BooksTyped, Unrecorded, Recorded
    <3> QED BY <2>1, <3>4, <3>5, <3>6
  <2>4. CASE ~(Len(manifest) < RegionLimit)
    <3>1. step' = "failed" /\ manifest' = manifest
      BY <1>2, <2>4 DEF RecordBall
    <3> QED
      BY <2>1, <3>1
      DEF BooksInOrder, BooksTyped, TurnInStep, StoreInHandler, Unrecorded,
          Recorded, Resumes
  <2> QED BY <2>3, <2>4
<1>3. CASE GiveUp \/ MoveFails \/ PollFails
  <2>1. /\ step \in {"turn", "poll"} /\ step' = "failed"
        /\ motor' \in {"still", "coarse", "fine", "stuck"}
        /\ UNCHANGED <<readVars, slotVars, fine, reader, pos, loaded, late>>
    BY <1>3 DEF GiveUp, MoveFails, PollFails, BooksTyped
  <2> QED
    BY <2>1
    DEF BooksInOrder, BooksTyped, TurnInStep, StoreInHandler, Unrecorded,
        Recorded, Resumes
<1>4. CASE SubmitMove
  <2>1. /\ step = "turn" /\ step' = "poll" /\ state \notin RestStates
        /\ motor' = IF fine = 0 THEN "coarse" ELSE "fine"
        /\ UNCHANGED <<readVars, slotVars, fine, reader, pos, loaded, late>>
    BY <1>4 DEF SubmitMove, Drained
  <2>2. IF fine = 0 THEN pos = currentSlot ELSE pos = currentSlot + 1
    BY <2>1 DEF TurnInStep, BooksTyped
  <2>3. TurnInStep'
    BY <2>1, <2>2 DEF TurnInStep, Unrecorded, Resumes
  <2> QED
    BY <2>1, <2>3
    DEF BooksInOrder, BooksTyped, StoreInHandler, Unrecorded, Recorded, Resumes
<1>5. CASE PollReached
  <2>1. /\ step = "poll" /\ step' = "gate" /\ state \notin RestStates
        /\ motor = "still"
        /\ UNCHANGED <<readVars, slotVars, fine, worldVars>>
    BY <1>5 DEF PollReached, Drained
  <2>2. state = "PLATFORM_WAIT_STORAGE"
    BY <2>1 DEF StoreInHandler
  <2> QED
    BY <2>1, <2>2
    DEF BooksInOrder, BooksTyped, TurnInStep, StoreInHandler, Unrecorded,
        Recorded, Resumes
<1>6. CASE ReadGate
  <2>1. /\ step = "gate" /\ fine' \in 0..FineMax
        /\ \/ step' = "stored" /\ fine' = fine
           \/ step' = "turn" /\ fine' > 0
        /\ UNCHANGED <<readVars, slotVars, worldVars>>
    BY <1>6 DEF ReadGate, BooksTyped
  <2>2. state = "PLATFORM_WAIT_STORAGE"
    BY <2>1 DEF StoreInHandler
  <2> QED
    BY <2>1, <2>2
    DEF BooksInOrder, BooksTyped, TurnInStep, StoreInHandler, Unrecorded,
        Recorded, Resumes
<1> QED BY <1>1, <1>2, <1>3, <1>4, <1>5, <1>6 DEF StoreStep

LEMMA StoringStep ==
    ASSUME Parts, Storing
    PROVE  Parts' /\ RestIsKept
<1>1. /\ StoreStep /\ pc = "storing"
      /\ UNCHANGED <<ctxVars, evtQ, flags, userQ, stops, got, pc>>
  BY DEF Storing, loopVars
<1>2. /\ UNCHANGED <<state, fault, requestId, activeArm, armHome, vis, arm, cmdQ>>
  BY <1>1 DEF ctxVars
<1>3. StoreParts' /\ storageSlot' = storageSlot
  BY <1>1, <1>2, StoreStepKeeps DEF Parts
<1>4. MailParts'
  BY <1>1, <1>2
  DEF Parts, MailParts, CtxTyped, QueueTyped, SafeRecord, StopNoted, OpeningFits,
      LoopTyped, DoneMeansAnswered, DoneSeen, Answered
<1>5. Len(cmdQ') = Len(cmdQ)
  BY <1>2
<1>6. CountsFit'
  <2>1. UNCHANGED <<attempts, balls, loaded>>
    BY DEF Storing, countVars, StoreStep, ClearDone, SubmitRead, CardDone,
           CardOverdue, NextAttempt, RecordBall, GiveUp, SubmitMove, MoveFails,
           PollReached, PollFails, ReadGate, worldVars
  <2> QED BY <1>2, <2>1, CountsKept DEF Parts, Paced, Searching
<1> QED BY <1>2, <1>3, <1>4, <1>5, <1>6
        DEF RestIsKept, Parts, MailParts, CtxTyped, QueueTyped

\* The ways out of the store: a STOP is seen, the store fails, it is done.
LEMMA StoreSeesStopStep ==
    ASSUME Parts, StoreSeesStop
    PROVE  Parts' /\ RestIsKept
<1> USE DEF Parts
<1>1. /\ pc = "storing" /\ step \in {"turn", "poll"} /\ userQ > 0
      /\ userQ' = userQ - 1 /\ mission_handle_command
      /\ motor' \in {motor, "still"} /\ pc' = pc /\ got' = got
      /\ UNCHANGED <<flags, stops, allButMotor, attempts, balls>>
  BY DEF StoreSeesStop, turn_stop, countVars
<1>2. Safe(vis) /\ state' \in RestStates /\ Paced
  BY <1>1, CommandRests, RestIsSlow DEF Rested
<1>3. MailParts'
  <2>1. userQ' \in 0..CommandDepth
    BY <1>1, BudgetAssumption DEF MailParts, LoopTyped
  <2> QED BY <1>1, <1>2, <2>1, MailKept DEF Safe, LoopStages
<1>4. StoreParts'
  BY <1>1, <1>2
  DEF StoreParts, BooksInOrder, BooksTyped, TurnInStep, StoreInHandler,
      allButMotor, readVars, slotVars, Unrecorded, Recorded, Resumes
<1>5. storageSlot' = storageSlot /\ CountsFit'
  BY <1>1, <1>2, CountsKept DEF allButMotor, slotVars
<1> QED BY <1>2, <1>3, <1>4, <1>5 DEF Safe, RestObeyed, RestIsKept, StopOnly

LEMMA StoreFailedStep ==
    ASSUME Parts, StoreFailed
    PROVE  Parts' /\ RestIsKept
<1> USE DEF Parts
<1>1. /\ pc = "storing" /\ pc' = "vision" /\ step = "failed" /\ step' = "off"
      /\ userQ' = userQ /\ stops' = stops /\ got' = got /\ flags' = flags
      /\ mission_fail(Now, "STORAGE") /\ motor' \in {motor, "still"}
      /\ UNCHANGED <<readVars, slotVars, fine, reader, pos, late>>
      /\ UNCHANGED <<attempts, balls, loaded>>
  BY DEF StoreFailed, goto, turn_stop, to, countVars
<1>2. Safe(vis) /\ state' \in RestStates /\ Paced
  BY <1>1, FaultNow DEF Rested, Faults
<1>3. MailParts'
  BY <1>1, <1>2, MailKept DEF Safe, LoopStages, MailParts, LoopTyped
<1>4. StoreParts'
  BY <1>1, <1>2
  DEF StoreParts, BooksInOrder, BooksTyped, TurnInStep, StoreInHandler,
      readVars, slotVars, Unrecorded, Recorded, Resumes
<1>5. storageSlot' = storageSlot /\ CountsFit'
  BY <1>1, <1>2, CountsKept DEF slotVars
<1> QED BY <1>2, <1>3, <1>4, <1>5 DEF Safe, RestObeyed, RestIsKept, StopOnly

\* The handler that follows a stored ball: the base is sent off, the arm is
\* started or the next pause begins.
LEMMA StoreDoneGoesOn ==
    ASSUME Parts, StoreDone
    PROVE  /\ Safe(vis) /\ state = "PLATFORM_WAIT_STORAGE"
           /\ vis.phase # "STARTING"
           /\ \/ Rested
              \/ /\ state' \in {"WAIT_STAIRS", "PLATFORM_WAIT_DEPARTURE_POSE",
                                "PLATFORM_WAIT_POSE", "PLATFORM_SETTLE"}
                 /\ vis' = vis
<1> USE DEF Parts
<1>1. /\ state = "PLATFORM_WAIT_STORAGE" /\ state \notin RestStates
      /\ SafeRecord(vis) /\ StopNoted(vis) /\ vis.phase # "STARTING"
  BY DEF StoreDone, StoreParts, StoreInHandler, MailParts, OpeningFits, RestStates
<1>2. CASE finish_platform
  BY <1>1, <1>2, FinishGoesOn
<1>3. CASE start_arm(vis, 10, "PLATFORM_WAIT_DEPARTURE_POSE")
  BY <1>1, <1>3, ArmWays, ArmGoesOn
<1>4. CASE start_arm(vis, 11, "PLATFORM_WAIT_POSE")
  BY <1>1, <1>4, ArmWays, ArmGoesOn
<1>5. CASE enter_state(vis, "PLATFORM_SETTLE")
  BY <1>1, <1>5, EnterGoesOn DEF PlatformStates, RestStates, enter_state
<1> QED BY <1>1, <1>2, <1>3, <1>4, <1>5 DEF StoreDone

LEMMA StoreDoneStep ==
    ASSUME Parts, StoreDone
    PROVE  Parts' /\ RestIsKept
<1>1. /\ pc = "storing" /\ pc' = "vision" /\ step = "stored" /\ step' = "off"
      /\ userQ' = userQ /\ stops' = stops /\ got' = got /\ flags' = flags
      /\ storageSlot' = storageSlot + 1
      /\ currentSlot' = (currentSlot + 1) % SlotCount
      /\ UNCHANGED <<readVars, manifest, fine, worldVars>>
  BY DEF StoreDone, goto, slot_used, to
<1>2. /\ Safe(vis) /\ state = "PLATFORM_WAIT_STORAGE"
  BY StoreDoneGoesOn
<1>9. vis.phase # "STARTING"
  BY StoreDoneGoesOn
<1>3. MailParts'
  BY <1>1, <1>2, MailKept DEF Parts, Safe, LoopStages, MailParts, LoopTyped
<1>4. /\ Len(manifest) = storageSlot + 1 /\ Len(manifest) <= RegionLimit
      /\ currentSlot = storageSlot /\ pos = currentSlot + 1 /\ motor = "still"
      /\ storageSlot \in Nat
  BY <1>1 DEF Parts, StoreParts, BooksInOrder, TurnInStep, Recorded, BooksTyped
<1>5. currentSlot' = storageSlot'
  BY <1>1, <1>4, StoreAssumption DEF Capacity, SlotCount
<1>6. StoreParts'
  <2>1. BooksTyped'
    BY <1>1, <1>4, <1>5
    DEF Parts, StoreParts, BooksTyped, readVars, worldVars
  <2>2. StoreInHandler'
    BY <1>1 DEF StoreInHandler
  <2>3. BooksInOrder'
    BY <1>1, <1>4, <1>5
    DEF Parts, StoreParts, BooksInOrder, Unrecorded, Recorded, Resumes
  <2>4. TurnInStep'
    BY <1>1, <1>4, <1>5 DEF TurnInStep, worldVars, Unrecorded, Resumes
  <2> QED BY <2>1, <2>2, <2>3, <2>4 DEF StoreParts
<1>7. CountsFit'
  <2>1. /\ UNCHANGED <<attempts, loaded>> /\ balls' \in {balls, balls + 1}
        /\ (balls' >= BallCount \/ Last) =>
             finish_platform \/ start_arm(vis, 10, "PLATFORM_WAIT_DEPARTURE_POSE")
    BY <1>1 DEF StoreDone, worldVars
  <2>2. balls < BallCount
    BY <1>2 DEF Parts, CountsFit, FillingStates
  <2>3. balls' \in 0..BallCount
    BY <2>1, <2>2, PlatformAssumption DEF Parts, CountsFit
  <2>4. CASE balls' >= BallCount \/ Last
    <3>1. Rested \/ state' \in {"WAIT_STAIRS", "PLATFORM_WAIT_DEPARTURE_POSE"}
      <4>1. CASE finish_platform
        BY <1>2, <1>9, <4>1, FinishGoesOn DEF Parts, RestStates
      <4>2. CASE start_arm(vis, 10, "PLATFORM_WAIT_DEPARTURE_POSE")
        BY <1>2, <1>9, <4>2, ArmWays, ArmGoesOn DEF Parts, MailParts, RestStates
      <4> QED BY <2>1, <2>4, <4>1, <4>2
    <3>2. ~Searching' /\ state' \notin FillingStates
      BY <3>1 DEF Rested, RestStates, Searching, SearchStates, FillingStates
    <3> QED BY <2>1, <2>3, <3>2 DEF Parts, CountsFit
  <2>5. CASE ~(balls' >= BallCount \/ Last)
    BY <2>1, <2>3, <2>5, PlatformAssumption DEF Parts, CountsFit, Last
  <2> QED BY <2>4, <2>5
<1> QED BY <1>2, <1>3, <1>6, <1>7 DEF Parts, RestIsKept, RestStates

LEMMA UnderTyped ==
    ASSUME CountsFit, NEW slot \in Slots
    PROVE  Under(slot) \in Cells \cup {NoCell}
<1>1. loaded[slot] \in 0..Len(Cards)
  BY DEF CountsFit
<1>2. loaded[slot] # 0 => Cards[loaded[slot]] \in Cells
  <2>1. Cards \in Seq(Cells)
    BY StoreAssumption
  <2> HIDE DEF Cells
  <2> QED BY <1>1, <2>1
<1> QED BY <1>2 DEF Under

\* The card reader and the motor go on beside it.
LEMMA StoreDeviceStep ==
    ASSUME Parts, StoreDevices,
           UNCHANGED <<ctxVars, evtQ, flags, loopVars, countVars>>
    PROVE  Parts' /\ RestIsKept
<1> USE DEF Parts, readVars, slotVars
<1>1. /\ UNCHANGED <<state, fault, requestId, activeArm, armHome, vis, arm, cmdQ>>
      /\ UNCHANGED <<flags, userQ, stops, got, pc>>
  BY DEF ctxVars, loopVars
<1>2. MailParts'
  BY <1>1
  DEF MailParts, CtxTyped, QueueTyped, SafeRecord, StopNoted, OpeningFits,
      LoopTyped, DoneMeansAnswered, DoneSeen, Answered
<1>3. StoreParts' /\ storageSlot' = storageSlot
  <2>1. CASE CardAnswered \/ CardCallback
    <3>1. UNCHANGED <<step, tries, slotVars, fine, motor, pos, late>>
      BY <2>1 DEF CardAnswered, CardCallback
    <3>2. Under(reader.at) \in Cells \cup {NoCell} /\ Under(pos) \in Cells \cup {NoCell}
      BY UnderTyped DEF StoreParts, BooksTyped, ReaderType
    <3>3. BooksTyped'
      <4>1. CASE CardAnswered
        BY <3>1, <3>2, <4>1 DEF CardAnswered, StoreParts, BooksTyped, ReaderType
      <4>2. CASE CardCallback
        BY <3>1, <3>2, <4>2 DEF CardCallback, StoreParts, BooksTyped, ReaderType
      <4> QED BY <2>1, <4>1, <4>2
    <3> QED
      BY <1>1, <3>1, <3>3
      DEF StoreParts, StoreInHandler, BooksInOrder, TurnInStep, Resumes
  <2>2. CASE MoveEnds
    <3>1. /\ motor \in {"coarse", "fine"}
          /\ \/ /\ motor' = "still"
                /\ pos' = IF motor = "coarse" THEN (pos + 1) % SlotCount ELSE pos
             \/ motor' = "stuck" /\ pos' = pos
          /\ UNCHANGED <<step, readVars, slotVars, fine, reader, late>>
      BY <2>2 DEF MoveEnds
    <3>2. pos' \in Slots /\ motor' \in {"still", "stuck"}
      BY <3>1 DEF StoreParts, BooksTyped, Slots, SlotCount
    <3>3. BooksTyped' /\ StoreInHandler' /\ BooksInOrder'
      BY <1>1, <3>1, <3>2
      DEF StoreParts, BooksTyped, StoreInHandler, BooksInOrder, Resumes
    <3>4. step \in {"off", "poll", "failed"} /\ (step # "poll" => ~Resumes)
      BY <3>1
      DEF StoreParts, TurnInStep, BooksTyped, Unrecorded, Recorded, Resumes
    <3>5. step = "poll" => currentSlot + 1 < SlotCount
      BY StoreAssumption
      DEF StoreParts, BooksInOrder, BooksTyped, Recorded, Capacity, SlotCount
    <3>6. step = "poll" /\ state \notin RestStates /\ motor' = "still" =>
            pos' = currentSlot + 1
      <4>1. pos \in 0..SlotCount-1 /\ currentSlot \in 0..SlotCount-1
        BY DEF StoreParts, BooksTyped, Slots
      <4> QED BY <3>1, <3>5, <4>1 DEF StoreParts, TurnInStep, SlotCount
    <3>7. TurnInStep'
      BY <1>1, <3>1, <3>2, <3>4, <3>6
      DEF TurnInStep, Unrecorded, Resumes
    <3> QED BY <3>1, <3>3, <3>7 DEF StoreParts
  <2> QED BY <2>1, <2>2 DEF StoreDevices
<1>4. Len(cmdQ') = Len(cmdQ)
  BY <1>1
<1>5. CountsFit'
  <2>1. UNCHANGED <<attempts, balls, loaded>>
    BY DEF StoreDevices, CardAnswered, CardCallback, MoveEnds, countVars
  <2> QED BY <1>1, <2>1, CountsKept DEF Paced, Searching
<1> QED BY <1>1, <1>2, <1>3, <1>4, <1>5
        DEF RestIsKept, MailParts, CtxTyped, QueueTyped

-----------------------------------------------------------------------------
(* The vision session.                                                     *)

\* mission_handle_vision, one step per branch.
LEMMA VisionSteps ==
    ASSUME Parts, HandleVision
    PROVE  Parts' /\ RestIsKept
<1> USE DEF Parts
<1>0. /\ DoneSeen /\ pc = "vision" /\ pc' = "process" /\ mission_handle_vision
      /\ UNCHANGED <<flags, booksVars, attempts, balls, loaded>>
      /\ userQ' = userQ /\ stops' = stops /\ got' = got
  BY DEF HandleVision, DoneSeen, goto, storeVars, worldVars, booksVars, countVars
<1>t. /\ SafeRecord(Taken) /\ StopNoted(Taken) /\ ~Busy(Taken)
      /\ Taken.phase = vis.phase /\ Taken.scene = vis.scene
      /\ Taken.stopReq = vis.stopReq
  BY <1>0, TakenSafe DEF DoneMeansAnswered, MailParts
<1>p. SUFFICES ASSUME TRUE PROVE \E v : Safe(v) /\ Paced
  <2>1. ASSUME NEW v, Safe(v), Paced PROVE Parts' /\ RestIsKept
    BY <1>0, <2>1, CountsKept, HandlerDone DEF MailParts, LoopTyped, LoopStages
  <2> QED BY <2>1
<1>1. CASE DeferredStop
  <2> DEFINE v == [Taken EXCEPT !.stopReq = FALSE]
  <2>1. SafeRecord(v) /\ stop_vision(v, state) /\ v.phase = vis.phase
    BY <1>1, <1>t DEF DeferredStop, SafeRecord, VisionType, Busy
  <2>2. ~Busy(v)
    BY <1>t DEF Busy, SafeRecord, VisionType
  <2> HIDE DEF v
  <2>3. Handled(PlatformStates, v) /\ StopOnly
    BY <2>1, StopVisionSafe DEF MailParts, CtxTyped
  <2>4. PICK r \in mission_stop_vision(v) :
            IF r.ok THEN enter_state(r.vis, state)
                    ELSE mission_fail(With(r.vis), "VISION")
    BY <2>1 DEF stop_vision
  <2>5. /\ SafeRecord(r.vis) /\ (r.vis.phase = "STARTING" => r.vis.stopReq)
        /\ r.vis.phase \in {"IDLE", "STOPPING"}
    BY <2>1, <2>2, StopSafe, StopCloses
  <2>6. CASE enter_state(r.vis, state)
    <3>1. state' = state /\ vis' = r.vis /\ arm' = arm
      BY <2>6 DEF enter_state
    <3> QED BY <2>3, <2>5, <3>1
            DEF Safe, OpeningFits, RestObeyed, Paced, Searching
  <2>7. CASE mission_fail(With(r.vis), "VISION")
    <3>1. Rested /\ Paced
      BY <2>5, <2>7, FaultWith DEF Faults, StopNoted
    <3> QED BY <2>3, <3>1 DEF Safe, OpeningFits, RestObeyed, Rested
  <2> QED BY <2>4, <2>6, <2>7
<1>2. CASE QuietListen \/ AckSent \/ EventIgnored
  <2>1. keep(Taken)
    BY <1>2 DEF QuietListen, AckSent, EventIgnored
  <2> QED BY <1>t, <2>1, KeepSafe
<1>3. CASE BusFault \/ WrongReply
  <2>1. mission_fail(With(Taken), "VISION")
    BY <1>3 DEF BusFault, WrongReply
  <2> QED BY <1>t, <2>1, FaultWith DEF Faults
<1>4. CASE SessionStopped
  <2> DEFINE v == mission_reset_vision(Taken)
  <2>1. SafeRecord(v) /\ v.phase = "IDLE" /\ StopNoted(v) /\ keep(v)
    BY <1>t, <1>4 DEF SessionStopped, mission_reset_vision, SafeRecord,
                      VisionType, Phases, Scenes, Busy, StopNoted
  <2> HIDE DEF v
  <2> QED BY <2>1, KeepSafe
<1>5. CASE SessionReady
  <2> DEFINE v == [Taken EXCEPT !.phase = "LISTENING"]
  <2>1. SafeRecord(v) /\ v.phase = "LISTENING"
    BY <1>t, <1>5 DEF SessionReady, Replied, SafeRecord, VisionType, Phases,
                      Busy
  <2>2. state \notin RestStates /\ state = "PLATFORM_WAIT_VISION"
    BY <1>5 DEF SessionReady, Replied, StopWasWaiting, MailParts, StopNoted,
                OpeningFits
  <2>3. enter_state(v, "PLATFORM_WAIT_TARGET")
    BY <1>5, <2>2 DEF SessionReady
  <2> HIDE DEF v
  <2>4. Safe(v) /\ state' = "PLATFORM_WAIT_TARGET" /\ vis' = v
    BY <2>1, <2>2, <2>3, EnterGoesOn DEF PlatformStates, RestStates
  <2> QED BY <2>2, <2>4 DEF Paced, Searching, SearchStates, FillingStates
<1>6. CASE BallSeen
  <2>1. PICK ok \in submit_results(Taken) :
            IF ok THEN enter_state(acking(TRUE), "PLATFORM_WAIT_GRASP")
                  ELSE mission_fail(With(acking(FALSE)), "VISION")
    BY <1>6 DEF BallSeen
  <2>2. /\ vis.phase = "LISTENING" /\ state = "PLATFORM_WAIT_TARGET"
        /\ ok \in BOOLEAN
    BY <1>6 DEF BallSeen, Replied, submit_results
  <2> DEFINE v == acking(ok)
             w == [Taken EXCEPT !.phase = "ACKING"]
  <2>3. /\ w \in VisionType /\ ~Busy(w) /\ w.phase = "ACKING"
        /\ w.scene # "NONE" /\ ok \in submit_results(w)
    BY <1>t, <2>2 DEF SafeRecord, VisionType, Phases, Busy, submit_results
  <2>4. v = mission_submit_vision_transfer(w, "ACK", ok)
    BY DEF acking
  <2>5. SafeRecord(v) /\ v.phase = "ACKING"
    <3> HIDE DEF v, w
    <3> QED BY <2>3, <2>4, SubmitSafe
  <2>6. \/ enter_state(v, "PLATFORM_WAIT_GRASP")
        \/ mission_fail(With(v), "VISION")
    BY <2>1, <2>2
  <2> HIDE DEF v, w
  <2>7. CASE enter_state(v, "PLATFORM_WAIT_GRASP")
    <3>1. Safe(v) /\ state' = "PLATFORM_WAIT_GRASP"
      BY <2>2, <2>5, <2>7, EnterGoesOn DEF PlatformStates, ArmStates, RestStates
    <3> QED BY <2>2, <3>1 DEF Paced, Searching, SearchStates, FillingStates
  <2>8. CASE mission_fail(With(v), "VISION")
    BY <2>5, <2>8, FaultWith DEF Faults, StopNoted
  <2> QED BY <2>6, <2>7, <2>8
<1> QED BY <1>0, <1>1, <1>2, <1>3, <1>4, <1>5, <1>6 DEF mission_handle_vision

\* The grasp is counted when it is started.
LEMMA AckProcessedStep ==
    ASSUME Parts, AckProcessed
    PROVE  Parts' /\ RestIsKept
<1> USE DEF Parts
<1> DEFINE v == mission_reset_vision(vis)
<1>1. /\ pc = "process" /\ pc' = "timeout" /\ UNCHANGED <<flags, booksVars, balls, loaded>>
      /\ userQ' = userQ /\ stops' = stops /\ got' = got
  BY DEF AckProcessed, goto, storeVars, worldVars, booksVars
<1>2. /\ vis.phase = "ACKING" /\ ~Answered(vis)
      /\ \/ state = "PLATFORM_WAIT_GRASP" /\ start_grasp(v)
         \/ keep(v) /\ attempts' = attempts
  BY DEF AckProcessed, Busy, Answered
<1>3. SafeRecord(v) /\ StopNoted(v) /\ v.phase = "IDLE"
  BY DEF AckProcessed, MailParts, mission_reset_vision, SafeRecord, VisionType,
         Phases, Scenes, Busy, StopNoted
<1> HIDE DEF v
<1>4. Safe(v) /\ CountsFit'
  <2>1. CASE state = "PLATFORM_WAIT_GRASP" /\ start_grasp(v)
    <3>1. /\ Safe(v)
          /\ Rested \/ (state' = "PLATFORM_WAIT_GRASP" /\ vis' = v)
      BY <1>3, <2>1, ArmGoesOn
      DEF start_grasp, Groups, PlatformStates, ArmStates, RestStates
    <3>2. Paced /\ ~Searching'
      BY <1>3, <2>1, <3>1, RestIsSlow
      DEF Paced, Searching, SearchStates, FillingStates, Rested, RestStates
    <3>3. attempts < MaxAttempts /\ balls < BallCount
      BY <1>2, <2>1 DEF CountsFit, Searching, FillingStates
    <3>4. attempts' \in 0..MaxAttempts
      BY <2>1, <3>3, PlatformAssumption DEF start_grasp, CountsFit
    <3> QED BY <1>1, <3>1, <3>2, <3>4 DEF CountsFit, Paced
  <2>2. CASE keep(v) /\ attempts' = attempts
    BY <1>1, <1>3, <2>2, KeepSafe, CountsKept
  <2> QED BY <1>2, <2>1, <2>2
<1> QED BY <1>1, <1>2, <1>4, HandlerDone DEF MailParts, LoopTyped, LoopStages

\* mission_vision_process and mission_check_timeout.
LEMMA ProcessSteps ==
    ASSUME Parts, UNCHANGED <<storeVars, countVars>>,
           ReadNext \/ CheckTimeout(Timed) \/ SettleOver
    PROVE  Parts' /\ RestIsKept
<1> USE DEF Parts
<1>0. /\ pc # "storing" /\ pc' \in {"timeout", "wait"} /\ got' \subseteq got
      /\ UNCHANGED <<flags, userQ, stops, booksVars, attempts, balls, loaded>>
  BY DEF ReadNext, CheckTimeout, SettleOver, goto, storeVars, worldVars,
         booksVars, countVars
<1>p. SUFFICES ASSUME TRUE
               PROVE  \E v : Safe(v) /\ Paced /\ (Answered(vis) => Answered(v))
  <2>1. ASSUME NEW v, Safe(v), Paced, Answered(vis) => Answered(v)
        PROVE  Parts' /\ RestIsKept
    BY <1>0, <2>1, CountsKept, HandlerDone DEF MailParts, LoopTyped, LoopStages
  <2> QED BY <2>1
<1>1. CASE ReadNext
  <2>1. PICK ok \in submit_results(vis) :
            keep(mission_submit_vision_transfer(vis, "READ", ok))
    BY <1>1 DEF ReadNext
  <2>2. ~Busy(vis) /\ vis.phase = "LISTENING" /\ ~Answered(vis)
    BY <1>1 DEF ReadNext, Busy, Answered
  <2> DEFINE v == mission_submit_vision_transfer(vis, "READ", ok)
  <2>3. SafeRecord(v) /\ v.phase = vis.phase
    BY <2>1, <2>2, SubmitSafe DEF SafeRecord, MailParts
  <2>4. keep(v)
    BY <2>1
  <2> HIDE DEF v
  <2>5. StopNoted(v)
    BY <2>2, <2>3 DEF StopNoted
  <2> QED BY <2>2, <2>3, <2>4, <2>5, KeepSafe
<1>2. CASE CheckTimeout(Timed)
  <2>1. keep(vis) \/ mission_fail(Now, "TIMEOUT")
    BY <1>2 DEF CheckTimeout
  <2> QED BY <2>1, KeepSafe, FaultNow DEF MailParts, Faults
<1>3. CASE SettleOver
  <2>1. /\ state = "PLATFORM_SETTLE" /\ state \notin RestStates
        /\ start_vision(vis, "PLATFORM", "PLATFORM_WAIT_VISION")
    BY <1>3 DEF SettleOver, RestStates
  <2>2. /\ Handled(PlatformStates, vis) /\ StopOnly
        /\ state' \in {"PLATFORM_WAIT_VISION", state, "FAULT"}
    BY <2>1, VisionSafe
    DEF MailParts, PlatformStates, ArmStates, RestStates, Scenes
  <2>3. OpeningFits'
    <3>1. CASE vis.phase # "IDLE" /\ mission_fail(With(vis), "VISION")
      BY <3>1, FaultWith DEF MailParts, Faults, Safe
    <3>2. CASE vis.phase = "IDLE"
      <4>1. PICK ok, x :
              /\ ok \in submit_results(vis)
              /\ x = mission_submit_vision_transfer(
                        [vis EXCEPT !.phase = "STARTING", !.scene = "PLATFORM"],
                        "START", ok)
              /\ IF ok THEN enter_state(x, "PLATFORM_WAIT_VISION")
                       ELSE mission_fail(With(mission_reset_vision(x)), "VISION")
        BY <2>1, <3>2 DEF start_vision
      <4>2. CASE ok
        BY <4>1, <4>2 DEF enter_state, OpeningFits
      <4>3. CASE ~ok
        <5>1. mission_fail(With(mission_reset_vision(x)), "VISION")
          BY <4>1, <4>3
        <5> QED BY <2>1, <5>1 DEF mission_fail, OpeningFits, RestStates
      <4> QED BY <4>1, <4>2, <4>3
    <3> QED BY <2>1, <3>1, <3>2 DEF start_vision
  <2>4. Safe(vis)
    BY <2>1, <2>2, <2>3 DEF Safe, RestObeyed
  <2>5. Paced
    BY <2>1, <2>2 DEF Paced, Searching, SearchStates, FillingStates
  <2> QED BY <2>4, <2>5
<1> QED BY <1>1, <1>2, <1>3

-----------------------------------------------------------------------------
(* The chassis task, the devices and the user.                             *)

\* What a step of the chassis task may do to the shared variables.
Takes == cmdQ' = cmdQ \/ (cmdQ # <<>> /\ cmdQ' = Tail(cmdQ))
Posts == flags' \in {flags, flags \cup {"EVENT"}}

LEMMA ChassisShares == ChassisNext => Takes /\ Posts
BY DEF ChassisNext, AwaitGo, RouteDone, AwaitNext, TakeCommand, cmd_default,
       link_post, Takes, Posts

LEMMA ChassisStep ==
    ASSUME Parts, Chassis
    PROVE  Parts' /\ RestIsKept
<1> USE DEF Parts
<1>1. /\ UNCHANGED <<state, fault, requestId, activeArm, armHome, vis, arm>>
      /\ UNCHANGED <<userQ, stops, got, pc>>
      /\ UNCHANGED <<booksVars, attempts, balls, loaded>>
      /\ Takes /\ Posts
  BY ChassisShares
  DEF Chassis, ctxButCmd, loopVars, storeVars, worldVars, booksVars, countVars
<1>2. QueueTyped' /\ StopOnly
  <2>1. cmdQ \in Seq(Commands)
    BY DEF MailParts, CtxTyped, QueueTyped
  <2>2. cmdQ' \in Seq(Commands) /\ Len(cmdQ') <= Len(cmdQ)
    BY <1>1, <2>1 DEF Takes
  <2> QED BY <2>1, <2>2 DEF QueueTyped, StopOnly
<1>3. MailParts'
  BY <1>1, <1>2
  DEF MailParts, CtxTyped, SafeRecord, StopNoted, OpeningFits, LoopTyped,
      DoneMeansAnswered, DoneSeen, Answered, Posts, FlagNames
<1>4. StoreParts' /\ storageSlot' = storageSlot
  BY <1>1, StoreKept DEF booksVars, slotVars
<1>5. CountsFit'
  BY <1>1, CountsKept DEF Paced, Searching
<1> QED BY <1>1, <1>2, <1>3, <1>4, <1>5 DEF RestIsKept, StopOnly

\* Nano and the multiplexer, the arm, and the user.
LEMMA WorldStep ==
    ASSUME Parts,
           \/ PublishReply \/ ReleaseTransfer \/ ArmFailed \/ ArmCompleted
             \/ ArmNoise \/ SubmitStop,
           UNCHANGED <<booksVars, countVars>>, loaded' \in [Slots -> 0..Len(Cards)]
    PROVE  Parts' /\ RestIsKept
<1> USE DEF Parts
<1>1. /\ UNCHANGED <<state, fault, requestId, activeArm, cmdQ>>
      /\ got' = got /\ pc' = pc
      /\ UNCHANGED <<attempts, balls, storageSlot>>
  BY DEF PublishReply, ReleaseTransfer, ArmCompleted, ArmFailed, ArmNoise,
         SubmitStop, ctxVars, loopVars, booksVars, slotVars, countVars
<1>2. StoreParts'
  BY <1>1, StoreKept
<1>3. QueueTyped' /\ StopOnly
  <2>1. Len(cmdQ') = Len(cmdQ)
    BY <1>1
  <2> QED BY <1>1, <2>1 DEF MailParts, CtxTyped, QueueTyped, StopOnly
<1>4. /\ SafeRecord(vis) /\ StopNoted(vis)
      /\ vis.inflight => "VISION_DONE" \notin flags /\ ~DoneSeen
  BY DEF MailParts, DoneMeansAnswered, Answered
<1>5. SUFFICES /\ MailParts' /\ vis'.phase = vis.phase /\ arm' \in {0, arm}
  <2>1. ASSUME vis'.phase = vis.phase PROVE CountsFit'
    BY <1>1, <2>1 DEF CountsFit, Searching
  <2> QED BY <1>1, <1>2, <1>3, <2>1 DEF RestIsKept, StopOnly
<1>6. CASE PublishReply
  <2>1. /\ vis.inflight /\ UNCHANGED <<armHome, arm, flags, userQ, stops>>
        /\ \E m \in replies(vis.io) :
              vis' = [vis EXCEPT !.mail = m, !.pending = TRUE]
    BY <1>6 DEF PublishReply, loopVars
  <2>2. /\ SafeRecord(vis') /\ vis'.phase = vis.phase
        /\ vis'.stopReq = vis.stopReq
    <3>1. replies(vis.io) \subseteq Mails
      BY DEF replies, Mails
    <3> QED BY <1>4, <2>1, <3>1 DEF SafeRecord, VisionType, Busy
  <2>3. DoneMeansAnswered' /\ LoopTyped'
    BY <1>1, <1>4, <2>1 DEF DoneMeansAnswered, DoneSeen, LoopTyped, MailParts
  <2> QED BY <1>1, <1>3, <2>1, <2>2, <2>3
          DEF MailParts, CtxTyped, StopNoted, SafeRecord, OpeningFits
<1>7. CASE ReleaseTransfer
  <2>1. /\ vis.inflight /\ vis.pending /\ UNCHANGED <<armHome, arm, userQ, stops>>
        /\ flags' = flags \cup {"VISION_DONE"}
        /\ vis' = [vis EXCEPT !.inflight = FALSE, !.io = "none"]
    BY <1>7 DEF ReleaseTransfer, loopVars
  <2>2. /\ SafeRecord(vis') /\ vis'.phase = vis.phase
        /\ vis'.stopReq = vis.stopReq /\ Answered(vis')
    BY <1>4, <2>1 DEF SafeRecord, VisionType, Busy, Answered, Frames
  <2>3. DoneMeansAnswered' /\ LoopTyped'
    BY <1>1, <1>4, <2>1, <2>2
    DEF DoneMeansAnswered, DoneSeen, Answered, LoopTyped, MailParts, FlagNames
  <2> QED BY <1>1, <1>3, <2>1, <2>2, <2>3
          DEF MailParts, CtxTyped, StopNoted, SafeRecord, OpeningFits
<1>8. CASE ArmCompleted \/ ArmFailed \/ ArmNoise
  <2>1. /\ vis' = vis /\ arm' \in {0, arm} /\ armHome' \in BOOLEAN
        /\ flags' \in {flags, flags \cup {"ARM_OK"}, flags \cup {"ARM_FAIL"}}
        /\ UNCHANGED <<userQ, stops>>
    BY <1>8 DEF ArmCompleted, ArmFailed, ArmNoise, MailParts, CtxTyped, loopVars
  <2>2. DoneMeansAnswered' /\ LoopTyped'
    BY <1>1, <2>1 DEF MailParts, DoneMeansAnswered, DoneSeen, Answered,
                      LoopTyped, FlagNames
  <2> QED BY <1>1, <1>3, <2>1, <2>2
          DEF MailParts, CtxTyped, StopNoted, SafeRecord, OpeningFits
<1>9. CASE SubmitStop
  <2>1. /\ UNCHANGED <<armHome, vis, arm>>
        /\ userQ' = userQ + 1 /\ userQ < CommandDepth
        /\ stops' = stops + 1 /\ stops < StopBudget
        /\ flags' = flags \cup {"COMMAND"}
    BY <1>9 DEF SubmitStop, ctxVars
  <2>2. DoneMeansAnswered' /\ LoopTyped'
    BY <1>1, <2>1, BudgetAssumption
    DEF MailParts, DoneMeansAnswered, DoneSeen, Answered, LoopTyped, FlagNames
  <2> QED BY <1>1, <1>3, <2>1, <2>2
          DEF MailParts, CtxTyped, StopNoted, SafeRecord, OpeningFits
<1> QED BY <1>6, <1>7, <1>8, <1>9

\* What the arm drops is nothing or the ball of the last attempt.
LEMMA DropTyped ==
    ASSUME CountsFit, BooksTyped, drop(attempts)
    PROVE  UNCHANGED booksVars /\ loaded' \in [Slots -> 0..Len(Cards)]
<1>1. attempts \in 0..Len(Cards) /\ Len(Cards) \in Nat
  BY PlatformAssumption, StoreAssumption DEF CountsFit
<1>2. loaded' \in [Slots -> 0..Len(Cards)]
  <2>1. PICK b \in {0, attempts} : loaded' = [loaded EXCEPT ![pos] = b]
    BY DEF drop
  <2>2. b \in 0..Len(Cards)
    BY <1>1
  <2> QED BY <2>1, <2>2 DEF CountsFit
<1> QED BY <1>2 DEF drop, booksVars

LEMMA DeviceSteps ==
    ASSUME Parts, Devices \/ ArmNoise \/ User
    PROVE  Parts' /\ RestIsKept
<1> USE DEF Parts
<1>1. CASE /\ PublishReply \/ ReleaseTransfer \/ ArmFailed \/ ArmNoise \/ SubmitStop
           /\ UNCHANGED <<storeVars, countVars>>
  <2>1. UNCHANGED booksVars /\ loaded' \in [Slots -> 0..Len(Cards)]
    BY <1>1 DEF storeVars, worldVars, booksVars, CountsFit
  <2> QED BY <1>1, <2>1, WorldStep
<1>2. CASE /\ ArmCompleted /\ UNCHANGED countVars
           /\ IF arm = 12 THEN drop(attempts) ELSE UNCHANGED storeVars
  <2>1. UNCHANGED booksVars /\ loaded' \in [Slots -> 0..Len(Cards)]
    BY <1>2, DropTyped DEF StoreParts, storeVars, worldVars, booksVars, CountsFit
  <2> QED BY <1>2, <2>1, WorldStep
<1>3. CASE StoreDevices /\ UNCHANGED <<ctxVars, evtQ, flags, loopVars, countVars>>
  BY <1>3, StoreDeviceStep
<1>4. ArmNoise => UNCHANGED <<storeVars, countVars>>
  BY DEF ArmNoise
<1> QED BY <1>1, <1>2, <1>3, <1>4 DEF Devices, User

-----------------------------------------------------------------------------
(* The theorems of the first layer.                                        *)

LEMMA InitControl == PlatformInit => ControlInv
<1> SUFFICES ASSUME PlatformInit PROVE ControlInv
  OBVIOUS
<1>1. SafeRecord(vis) /\ StopNoted(vis)
  BY DEF PlatformInit, IdleVision, SafeRecord, StopNoted, VisionType, Phases,
         Scenes, Frames, Mails, Busy
<1>2. CoreTypeOK /\ state \in PlatformStates
  BY <1>1, PlatformAssumption, BudgetAssumption
  DEF PlatformInit, LinkInit, CoreTypeOK, SafeRecord, Faults, Groups, FlagNames,
      LoopStages, PlatformStates
<1>3. QueueTyped
  <2>1. Command("GO_PLATFORM", FirstId) \in Commands
    BY PlatformAssumption DEF Command, Commands, CommandTypes
  <2> QED BY <2>1 DEF PlatformInit, QueueTyped
<1>4. DoneMeansAnswered /\ OpeningFits /\ StoreInHandler
  BY DEF PlatformInit, LinkInit, IdleVision, StoreInit, DoneMeansAnswered,
         DoneSeen, OpeningFits, StoreInHandler
<1>5. BooksTyped
  <2>1. reader \in ReaderType
    BY DEF PlatformInit, StoreInit, ReaderType, Slots, SlotCount
  <2>2. manifest \in Seq(RecordType) /\ icBall \in Cells \cup {NoCell}
    BY DEF PlatformInit, StoreInit
  <2>3. storageSlot \in Nat /\ {currentSlot, pos} \subseteq Slots
    BY DEF PlatformInit, StoreInit, Slots, SlotCount
  <2>4. /\ step = "off" /\ tries \in 0..IcAttempts /\ fine \in 0..FineMax
        /\ motor = "still" /\ icStatus = "BUSY" /\ icDone = FALSE
        /\ late = FALSE
    BY StoreAssumption DEF PlatformInit, StoreInit
  <2> QED BY <2>1, <2>2, <2>3, <2>4 DEF BooksTyped
<1>6. BooksInOrder /\ TurnInStep
  BY StoreAssumption
  DEF PlatformInit, StoreInit, BooksInOrder, TurnInStep, Unrecorded, Recorded,
      Resumes
<1>7. CountsFit
  <2>1. MaxAttempts \in Nat \ {0} /\ Len(Cards) \in Nat
    BY PlatformAssumption, StoreAssumption
  <2> QED
    BY <2>1, PlatformAssumption DEF PlatformInit, StoreInit, CountsFit
<1> QED BY <1>1, <1>2, <1>3, <1>4, <1>5, <1>6, <1>7 DEF ControlInv

\* Every step keeps the first layer and obeys NoReleaseAfterStop.
LEMMA StepControl ==
    ASSUME ControlInv, [Next]_vars
    PROVE  ControlInv' /\ RestIsKept
<1>1. Parts
  BY Regroup
<1>p. SUFFICES Parts' /\ RestIsKept
  BY Regroup
<1>2. CASE UNCHANGED vars
  <2>1. /\ UNCHANGED <<ctxVars, booksVars, flags, userQ, stops, got, pc, vis>>
        /\ UNCHANGED <<state, attempts, balls, loaded>>
    BY <1>2 DEF vars, ctxVars, loopVars, storeVars, worldVars, countVars, booksVars
  <2>2. LoopTyped' /\ DoneMeansAnswered'
    BY <1>1, <2>1 DEF Parts, MailParts, LoopTyped, DoneMeansAnswered, DoneSeen,
                      Answered
  <2>3. CountsFit'
    BY <1>1, <2>1, CountsKept DEF Parts, Paced, Searching
  <2> QED BY <1>1, <2>1, <2>2, <2>3, ContextKept
<1>3. CASE MissionLoop /\ UNCHANGED <<storeVars, countVars, chassisVars>>
  <2>1. UNCHANGED <<storeVars, countVars>>
    BY <1>3
  <2>2. CASE HandleCommand
    BY <1>1, <2>1, <2>2, CommandStep
  <2>3. CASE ReadNext \/ CheckTimeout(Timed)
    BY <1>1, <2>1, <2>3, ProcessSteps
  <2> QED BY <1>1, <1>3, <2>1, <2>2, <2>3, LoopSteps DEF MissionLoop
<1>4. CASE WakeSettled \/ SettleOver
  <2>1. UNCHANGED <<storeVars, countVars>>
    BY <1>4 DEF WakeSettled, SettleOver
  <2> QED BY <1>1, <1>4, <2>1, LoopSteps, ProcessSteps
<1>5. CASE HandleChassis \/ ArmFail \/ ArmOk \/ BeginStore
  BY <1>1, <1>5, ChassisEvent, ArmSteps, BeginStoreStep
<1>6. CASE Storing \/ StoreSeesStop \/ StoreFailed \/ StoreDone
  BY <1>1, <1>6, StoringStep, StoreSeesStopStep, StoreFailedStep, StoreDoneStep
<1>7. CASE HandleVision \/ AckProcessed
  BY <1>1, <1>7, VisionSteps, AckProcessedStep
<1>8. CASE Chassis \/ Devices \/ ArmNoise \/ User
  BY <1>1, <1>8, ChassisStep, DeviceSteps
<1> QED BY <1>2, <1>3, <1>4, <1>5, <1>6, <1>7, <1>8 DEF Next, Mission, Over

\* Whatever Mission, the chassis task, Nano, the arm, the card reader, the
\* turntable and the user do, the first layer of the invariant holds.
THEOREM ControlInvariant == Spec => []ControlInv
<1>1. ControlInv /\ [Next]_vars => ControlInv'
  BY StepControl
<1> QED BY InitControl, <1>1, PTL DEF Spec

\* Once the run is stopping, stopped or failed it stays so: no arm starts, no
\* slot is used up and STOP is the only command sent, whatever the store
\* under way, a late reply or an arm report still brings.
THEOREM NothingReleased == Spec => NoReleaseAfterStop
<1>1. ControlInv /\ [Next]_vars => [RestIsKept]_vars
  BY StepControl
<1> QED BY ControlInvariant, <1>1, PTL DEF Spec, NoReleaseAfterStop

\* The books and the turntable agree: one record per used slot, in order, and
\* between two stores the slot taken to be under the arm really is.
THEOREM BooksAgree == Spec => []SlotsAgree
<1>1. ControlInv => SlotsAgree
  <2>1. ControlInv => currentSlot \in 0..SlotCount-1 /\ storageSlot \in Nat
    BY DEF ControlInv, BooksTyped, Slots
  <2> QED
    BY <2>1
    DEF ControlInv, BooksInOrder, TurnInStep, Resumes, SlotsAgree, SlotCount
<1> QED BY ControlInvariant, <1>1, PTL

-----------------------------------------------------------------------------
(* The second and third layer: arm, base and turntable keep clear of one   *)
(* another, and whose card a record names.                                 *)

-----------------------------------------------------------------------------
(* The three ways a step keeps the second layer.                           *)

\* An arm success is on its way to its handler.
Signalled == "ARM_OK" \in flags \/ OkSeen

\* A handler takes at most one event.
EventsKept == evtQ' = evtQ \/ (evtQ # <<>> /\ evtQ' = Tail(evtQ))

LEMMA EventsTyped ==
    ASSUME BaseAccounted, EventsKept
    PROVE  /\ evtQ' \in Seq([type : {"PLATFORM_READY", "STOPPED"},
                             id : Nat, ok : BOOLEAN])
           /\ \A i \in DOMAIN (evtQ') :
                \E j \in DOMAIN evtQ : (evtQ')[i] = evtQ[j]
<1>1. CASE evtQ' = evtQ
  BY <1>1 DEF BaseAccounted
<1>2. CASE evtQ # <<>> /\ evtQ' = Tail(evtQ)
  <2> DEFINE E == [type : {"PLATFORM_READY", "STOPPED"}, id : Nat, ok : BOOLEAN]
  <2>1. evtQ \in Seq(E)
    BY DEF BaseAccounted
  <2> HIDE DEF E
  <2>2. /\ evtQ' \in Seq(E) /\ Len(evtQ') = Len(evtQ) - 1
        /\ \A i \in 1..Len(evtQ') : (evtQ')[i] = evtQ[i + 1]
    BY <1>2, <2>1
  <2>3. DOMAIN evtQ = 1..Len(evtQ) /\ DOMAIN (evtQ') = 1..Len(evtQ')
    BY <2>1, <2>2
  <2>4. ASSUME NEW i \in DOMAIN (evtQ')
        PROVE  \E j \in DOMAIN evtQ : (evtQ')[i] = evtQ[j]
    <3>1. i + 1 \in DOMAIN evtQ
      BY <2>1, <2>2, <2>3
    <3>2. (evtQ')[i] = evtQ[i + 1]
      BY <2>2, <2>3
    <3> QED BY <3>1, <3>2
  <2> QED BY <2>2, <2>4 DEF E
<1> QED BY <1>1, <1>2 DEF EventsKept

\* STOP is not GO_STAIRS: a queue that grew by it asks for the base no more.
LEMMA StopIsNoDeparture ==
    ASSUME QueueTyped, NEW id \in 1..IdMax,
           cmdQ' = cmdQ \/ cmdQ' = Sent("STOP", id),
           NEW i \in DOMAIN (cmdQ'), (cmdQ')[i].type = "GO_STAIRS"
    PROVE  \E j \in DOMAIN cmdQ : cmdQ[j].type = "GO_STAIRS"
<1>1. CASE cmdQ' = cmdQ
  BY <1>1
<1>2. CASE cmdQ' = Sent("STOP", id)
  <2>1. cmdQ \in Seq(Commands) /\ Command("STOP", id) \in Commands
    BY DEF QueueTyped, Command, Commands, CommandTypes
  <2>2. /\ Len(cmdQ') = Len(cmdQ) + 1 /\ DOMAIN (cmdQ') = 1..Len(cmdQ) + 1
        /\ (cmdQ')[Len(cmdQ) + 1] = Command("STOP", id)
        /\ \A j \in 1..Len(cmdQ) : (cmdQ')[j] = cmdQ[j]
    BY <1>2, <2>1 DEF Sent
  <2>3. i \in 1..Len(cmdQ)
    BY <2>1, <2>2 DEF Command
  <2> QED BY <2>1, <2>2, <2>3
<1> QED BY <1>1, <1>2

\* The run comes to rest, or goes on resting.
LEMMA RestingKeeps ==
    ASSUME ControlInv, MachineInv, Rested, EventsKept,
           UNCHANGED <<chassisVars, loaded, pos, flags>>,
           UNCHANGED slotVars \/ (arm = 0 /\ storageSlot' = storageSlot + 1),
           OkSeen' => OkSeen, step' \in {step, "off"}, motor' \in {motor, "still"}
    PROVE  MachineInv'
<1> USE DEF MachineInv
<1>1. /\ state' \in RestStates /\ arm' \in {0, arm} /\ (armHome' => armHome)
      /\ cmdQ' = cmdQ \/ \E id \in 1..IdMax : cmdQ' = Sent("STOP", id)
  BY DEF Rested
<1>2. ChassisTypeOK' /\ SessionFits'
  BY <1>1 DEF chassisVars, ChassisTypeOK, SessionFits
<1>3. ArmAccounted'
  BY <1>1 DEF ArmAccounted, RestStates
<1>4. BaseAccounted'
  <2>1. (\E i \in DOMAIN (cmdQ') : (cmdQ')[i].type = "GO_STAIRS") =>
           \E i \in DOMAIN cmdQ : cmdQ[i].type = "GO_STAIRS"
    <3>1. ASSUME NEW i \in DOMAIN (cmdQ'), (cmdQ')[i].type = "GO_STAIRS"
          PROVE  \E j \in DOMAIN cmdQ : cmdQ[j].type = "GO_STAIRS"
      <4>1. CASE cmdQ' = cmdQ
        BY <3>1, <4>1
      <4>2. CASE \E id \in 1..IdMax : cmdQ' = Sent("STOP", id)
        BY <3>1, <4>2, StopIsNoDeparture DEF ControlInv
      <4> QED BY <1>1, <4>1, <4>2
    <3> QED BY <3>1
  <2> QED BY <1>1, <2>1, EventsTyped DEF BaseAccounted, chassisVars
<1>5. SlotsAhead'
  <2>1. ~Searching'
    BY <1>1 DEF Searching, SearchStates, RestStates
  <2>2. storageSlot \in Nat /\ Slots \subseteq Nat
    BY DEF ControlInv, BooksTyped, Slots
  <2>3. /\ storageSlot' >= storageSlot
        /\ arm' # 0 => UNCHANGED slotVars /\ arm' = arm
    BY <1>1, <2>2 DEF slotVars
  <2> QED BY <1>1, <2>1, <2>2, <2>3 DEF SlotsAhead, slotVars
<1> QED BY <1>2, <1>3, <1>4, <1>5

\* The context stays, but perhaps for the record of the session.
LEMMA CalmKeeps ==
    ASSUME MachineInv, EventsKept, SessionFits', Searching' => Searching,
           UNCHANGED <<state, activeArm, arm, armHome, cmdQ, chassisVars, loaded>>,
           UNCHANGED <<storageSlot, currentSlot>>,
           arm # 0 => UNCHANGED <<pos, manifest>>,
           vis.phase = "IDLE" => vis'.phase = "IDLE",
           Signalled' => Signalled, ~("ARM_OK" \in flags /\ OkSeen)',
           step' # "off" \/ motor' # "still" => arm = 0
    PROVE  MachineInv'
<1> USE DEF MachineInv
<1>1. ChassisTypeOK'
  BY DEF chassisVars, ChassisTypeOK
<1>2. ArmAccounted'
  BY DEF ArmAccounted, ArmOwed, Signalled
<1>3. BaseAccounted'
  BY EventsTyped DEF BaseAccounted, chassisVars
<1>4. SlotsAhead'
  BY DEF SlotsAhead
<1> QED BY <1>1, <1>2, <1>3, <1>4

\* The run goes on to another state, with the arm free or newly started.
LEMMA GoesOnKeeps ==
    ASSUME MachineInv, ControlInv', EventsKept,
           state \notin RestStates, state' \notin RestStates, state # "WAIT_STAIRS",
           cpc \notin {"await", "route"}, SessionFits',
           UNCHANGED <<chassisVars, loaded>>, ~Signalled',
           \/ /\ arm' = 0 /\ cmdQ' = cmdQ /\ UNCHANGED <<activeArm, armHome>>
              /\ state' # "WAIT_STAIRS"
           \/ /\ arm' = 0 /\ state' = "WAIT_STAIRS" /\ activeArm' = 10
           \/ /\ arm' = activeArm' /\ arm' # 0 /\ ~armHome' /\ cmdQ' = cmdQ
              /\ state' \in ArmStates /\ arm' = GroupOf(state')
              /\ vis'.phase = "IDLE",
           \A s \in Slots : s > storageSlot' => loaded[s] = 0,
           Searching' \/ arm' = 12 => loaded[storageSlot'] = 0
    PROVE  MachineInv'
<1> USE DEF MachineInv
<1>1. ChassisTypeOK'
  BY DEF chassisVars, ChassisTypeOK
<1>2. ArmAccounted'
  BY DEF ArmAccounted, ArmOwed, Signalled, ArmStates
<1>3. BaseAccounted'
  BY EventsTyped DEF BaseAccounted, chassisVars
<1>4. SlotsAhead'
  <2>1. arm' # 0 => state' # "PLATFORM_WAIT_STORAGE"
    BY DEF ArmStates
  <2>2. arm' # 0 => /\ step' = "off" /\ motor' = "still" /\ pos' = currentSlot'
                    /\ Len(manifest') = storageSlot'
    BY <2>1
    DEF ControlInv, StoreInHandler, BooksInOrder, TurnInStep, Resumes
  <2> QED BY <2>2 DEF SlotsAhead
<1> QED BY <1>1, <1>2, <1>3, <1>4

-----------------------------------------------------------------------------
(* One lemma per kind of step.                                             *)

\* A handler of the vision session, or the time-out, leaves the state alone
\* and at most closes the session.
LEMMA SessionKeeps ==
    ASSUME ControlInv, MachineInv, NEW v, keep(v), EventsKept,
           UNCHANGED <<chassisVars, storeVars, flags>>, OkSeen' => OkSeen,
           vis.phase = "IDLE" => v.phase = "IDLE",
           state \notin RestStates =>
              ~v.stopReq /\ v.phase \in {"IDLE", vis.phase}
    PROVE  MachineInv'
<1>1. /\ UNCHANGED <<state, activeArm, arm, armHome, cmdQ, flags, loaded>>
      /\ UNCHANGED <<storageSlot, currentSlot, pos, manifest, step, motor>>
      /\ vis' = v
  BY DEF keep, enter_state, storeVars, slotVars, worldVars
<1>2. SessionFits'
  BY <1>1 DEF SessionFits, MachineInv
<1>3. Searching' => Searching
  BY <1>1 DEF MachineInv, SessionFits, Searching, RestStates
<1>4. /\ Signalled' => Signalled
      /\ ~("ARM_OK" \in flags /\ OkSeen)'
      /\ step' # "off" \/ motor' # "still" => arm = 0
  BY <1>1 DEF Signalled, MachineInv, ArmAccounted, SlotsAhead
<1> QED BY <1>1, <1>2, <1>3, <1>4, CalmKeeps

\* A fault from any handler but the one that ends a store.
LEMMA FaultKeeps ==
    ASSUME ControlInv, MachineInv, NEW w, w.id \in 1..IdMax, NEW f,
           mission_fail(w, f), EventsKept,
           UNCHANGED <<chassisVars, storeVars, flags>>, OkSeen' => OkSeen
    PROVE  MachineInv'
<1>1. Rested
  BY FailRests
<1>2. UNCHANGED <<loaded, pos, slotVars, step, motor>>
  BY DEF storeVars, worldVars
<1> QED BY <1>1, <1>2, RestingKeeps

\* The ids a handler fails with.
LEMMA FailIds ==
    ASSUME ControlInv
    PROVE  /\ Now.id \in 1..IdMax
           /\ \A v : With(v).id \in 1..IdMax
           /\ \A v : [With(v) EXCEPT !.active = 0].id \in 1..IdMax
           /\ \A v, id \in 1..IdMax : [With(v) EXCEPT !.id = id].id \in 1..IdMax
BY DEF ControlInv, CoreTypeOK, Now, With

LEMMA LoopKeeps ==
    ASSUME MachineInv, UNCHANGED <<storeVars, chassisVars>>,
           Wake \/ WakeLate(Timed) \/ CommandsDone \/ EventsDone \/ ArmDone
             \/ VisionDone \/ NothingToProcess \/ WakeSettled
    PROVE  MachineInv'
<1>1. UNCHANGED <<ctxVars, evtQ>>
  BY DEF Wake, WakeLate, CommandsDone, EventsDone, ArmDone, VisionDone,
         NothingToProcess, WakeSettled
<1>2. /\ UNCHANGED <<state, vis, activeArm, arm, armHome, cmdQ, loaded>>
      /\ UNCHANGED <<storageSlot, currentSlot, pos, manifest, step, motor>>
  BY <1>1 DEF ctxVars, storeVars, slotVars, worldVars
<1>3. /\ Signalled' => Signalled
      /\ ~("ARM_OK" \in flags /\ OkSeen)'
  <2> USE <1>2 DEF MachineInv, ArmAccounted, Signalled, OkSeen, goto
  <2>1. CASE Wake          BY <2>1 DEF Wake
  <2>2. CASE WakeLate(Timed)  BY <2>2 DEF WakeLate
  <2>3. CASE CommandsDone  BY <2>3 DEF CommandsDone
  <2>4. CASE EventsDone    BY <2>4 DEF EventsDone
  <2>5. CASE ArmDone       BY <2>5 DEF ArmDone
  <2>6. CASE VisionDone    BY <2>6 DEF VisionDone
  <2>7. CASE NothingToProcess  BY <2>7 DEF NothingToProcess
  <2>8. CASE WakeSettled   BY <2>8 DEF WakeSettled
  <2> QED BY <2>1, <2>2, <2>3, <2>4, <2>5, <2>6, <2>7, <2>8
<1>4. SessionFits' /\ (Searching' => Searching) /\ EventsKept
  BY <1>1, <1>2 DEF MachineInv, SessionFits, Searching, EventsKept
<1>5. step' # "off" \/ motor' # "still" => arm = 0
  BY <1>2 DEF MachineInv, SlotsAhead
<1> QED BY <1>2, <1>3, <1>4, <1>5, CalmKeeps

LEMMA CommandKeeps ==
    ASSUME ControlInv, MachineInv, HandleCommand, UNCHANGED <<storeVars, chassisVars>>
    PROVE  MachineInv'
<1>1. Rested
  BY Regroup, CommandRests DEF HandleCommand, Parts
<1>2. /\ UNCHANGED <<loaded, pos, slotVars, flags, step, motor>>
      /\ OkSeen' => OkSeen
      /\ EventsKept
  BY DEF HandleCommand, storeVars, worldVars, OkSeen, EventsKept
<1> QED BY <1>1, <1>2, RestingKeeps

\* While the run goes on and the session stands in no one's way, the arm may
\* be started for the state that follows; a refusal ends the run.
LEMMA StartKeeps ==
    ASSUME ControlInv, MachineInv, ControlInv', EventsKept,
           state \notin RestStates, state # "WAIT_STAIRS",
           cpc \notin {"await", "route"}, NEW v, v.phase = "IDLE", ~v.stopReq,
           NEW s \in ArmStates, start_arm(v, GroupOf(s), s),
           UNCHANGED <<chassisVars, storeVars, flags>>, OkSeen' => OkSeen,
           ~Signalled', Searching' \/ arm' = 12 => Searching
    PROVE  MachineInv'
<1>1. CASE /\ state' = s /\ vis' = v /\ activeArm' = GroupOf(s)
           /\ arm' = GroupOf(s) /\ armHome' = FALSE
           /\ UNCHANGED <<fault, requestId, cmdQ>>
  <2>1. state' \notin RestStates /\ SessionFits' /\ arm' # 0
    BY <1>1 DEF ArmStates, RestStates, SessionFits, GroupOf
  <2>2. /\ \A q \in Slots : q > storageSlot' => loaded[q] = 0
        /\ Searching' \/ arm' = 12 => loaded[storageSlot'] = 0
    BY DEF MachineInv, SlotsAhead, storeVars, slotVars
  <2>3. loaded' = loaded
    BY DEF storeVars, worldVars
  <2> QED BY <1>1, <2>1, <2>2, <2>3, GoesOnKeeps
<1>2. CASE mission_fail([With(v) EXCEPT !.active = 0], "ARM")
  BY <1>2, FailIds, FaultKeeps
<1> QED BY <1>1, <1>2 DEF start_arm

\* The run goes on with the arm free.
LEMMA EnterKeeps ==
    ASSUME ControlInv, MachineInv, ControlInv', EventsKept,
           state \notin RestStates, state # "WAIT_STAIRS",
           cpc \notin {"await", "route"}, arm = 0,
           NEW v, NEW s, s \notin RestStates \cup {"WAIT_STAIRS"},
           enter_state(v, s), SessionFits',
           UNCHANGED <<chassisVars, loaded, storageSlot>>,
           ~Signalled', Searching' => Searching
    PROVE  MachineInv'
<1>1. /\ state' = s /\ arm' = 0 /\ cmdQ' = cmdQ
      /\ UNCHANGED <<activeArm, armHome>>
  BY DEF enter_state
<1>2. /\ \A q \in Slots : q > storageSlot' => loaded[q] = 0
      /\ Searching' \/ arm' = 12 => loaded[storageSlot'] = 0
  BY <1>1 DEF MachineInv, SlotsAhead
<1> QED BY <1>1, <1>2, GoesOnKeeps

\* Past its arrival the base has been to the platform.
LEMMA BaseStands ==
    ASSUME MachineInv, state \notin {"WAIT_PLATFORM"} \cup RestStates
    PROVE  cpc \notin {"await", "route"}
BY DEF MachineInv, BaseAccounted

\* The base reports: the arm is started, the stop is confirmed or a fault.
LEMMA ChassisEventKeeps ==
    ASSUME ControlInv, MachineInv, ControlInv', HandleChassis
    PROVE  MachineInv'
<1>1. PICK e : e = Head(evtQ) /\ mission_handle_chassis(e)
  BY DEF HandleChassis
<1>2. /\ EventsKept /\ pc = "events"
      /\ OkSeen' <=> OkSeen
      /\ UNCHANGED <<chassisVars, storeVars, flags>>
  BY DEF HandleChassis, EventsKept, OkSeen, loopVars
<1>3. CASE OnStale(e) \/ OnUnexpected(e)
  <2>1. keep(vis)
    BY <1>3 DEF OnStale, OnUnexpected
  <2> QED BY <1>2, <2>1, SessionKeeps DEF MachineInv, SessionFits
<1>4. CASE OnFailure(e)
  BY <1>2, <1>4, FailIds, FaultKeeps DEF OnFailure
<1>5. CASE OnStopped(e)
  <2>1. Rested
    BY <1>5 DEF OnStopped, enter_state, Rested, RestStates
  <2>2. UNCHANGED <<loaded, pos, slotVars, step, motor>>
    BY <1>2 DEF storeVars, worldVars
  <2> QED BY <1>2, <2>1, <2>2, RestingKeeps
<1>6. CASE OnArrived(e)
  <2>1. /\ state = "WAIT_PLATFORM" /\ e.type = "PLATFORM_READY"
        /\ start_arm(vis, 11, "PLATFORM_WAIT_POSE")
    BY <1>6 DEF OnArrived
  <2>2. cpc \notin {"await", "route"}
    <3>1. evtQ # <<>>
      BY DEF HandleChassis
    <3>2. 1 \in DOMAIN evtQ /\ e = evtQ[1]
      BY <1>1, <3>1 DEF MachineInv, BaseAccounted
    <3> QED BY <2>1, <3>2 DEF MachineInv, BaseAccounted
  <2>3. /\ state \notin RestStates /\ ~ArmOwed
        /\ vis.phase = "IDLE" /\ ~vis.stopReq
    BY <2>1 DEF MachineInv, ArmAccounted, SessionFits, RestStates, ArmStates
  <2>4. ~Signalled'
    BY <1>2, <2>3 DEF ArmOwed, Signalled
  <2>5. Searching
    BY <2>1 DEF Searching, SearchStates
  <2>6. "PLATFORM_WAIT_POSE" \in ArmStates /\ GroupOf("PLATFORM_WAIT_POSE") = 11
    BY DEF ArmStates, GroupOf
  <2> QED BY <1>2, <2>1, <2>2, <2>3, <2>4, <2>5, <2>6, StartKeeps
<1> QED BY <1>1, <1>3, <1>4, <1>5, <1>6 DEF mission_handle_chassis

\* The arm reports: the group is the one the state waits for.
LEMMA ArmReportKeeps ==
    ASSUME ControlInv, MachineInv, ControlInv', ArmFail \/ ArmOk \/ BeginStore
    PROVE  MachineInv'
<1>1. /\ pc = "arm" /\ pc' \in {"vision", "storing"} /\ EventsKept
      /\ UNCHANGED <<chassisVars, flags, loaded, storageSlot>>
  BY DEF ArmFail, ArmOk, BeginStore, goto, EventsKept, storeVars, slotVars,
         worldVars
<1>2. ~OkSeen'
  BY <1>1 DEF OkSeen
<1>3. CASE ArmFail
  <2>1. UNCHANGED storeVars
    BY <1>3 DEF ArmFail
  <2>2. CASE mission_fail(Now, "ARM")
    BY <1>1, <1>2, <2>1, <2>2, FailIds, FaultKeeps
  <2>3. CASE keep(vis)
    BY <1>1, <1>2, <2>1, <2>3, SessionKeeps DEF MachineInv, SessionFits
  <2> QED BY <1>3, <2>2, <2>3 DEF ArmFail
<1>4. CASE "ARM_OK" \in got /\ state \in ArmStates
  <2>1. /\ arm = 0 /\ "ARM_OK" \notin flags /\ activeArm = GroupOf(state)
        /\ vis.phase = "IDLE" /\ ~vis.stopReq
    <3>1. OkSeen /\ ArmOwed /\ state \notin RestStates
      BY <1>1, <1>4 DEF OkSeen, ArmOwed, ArmStates, RestStates
    <3> QED BY <3>1, <1>4 DEF MachineInv, ArmAccounted, SessionFits, ArmStates
  <2>2. /\ ~Signalled' /\ cpc \notin {"await", "route"}
        /\ state \notin RestStates \cup {"WAIT_STAIRS"}
    BY <1>1, <1>2, <1>4, <2>1, BaseStands DEF Signalled, ArmStates, RestStates
  <2>3. ASSUME NEW s \in {"PLATFORM_SETTLE", "PLATFORM_WAIT_STORAGE"},
               enter_state(vis, s), s = "PLATFORM_SETTLE" => Searching
        PROVE  MachineInv'
    <3>1. SessionFits' /\ (Searching' => Searching)
      BY <2>1, <2>3
      DEF enter_state, SessionFits, Searching, SearchStates
    <3>2. s \notin RestStates \cup {"WAIT_STAIRS"}
      BY DEF RestStates
    <3> QED BY <1>1, <2>1, <2>2, <2>3, <3>1, <3>2, EnterKeeps
  <2>4. CASE state = "PLATFORM_WAIT_POSE" /\ enter_state(vis, "PLATFORM_SETTLE")
    BY <2>3, <2>4 DEF Searching, SearchStates
  <2>5. CASE BeginStore
    BY <2>3, <2>5 DEF BeginStore
  <2>6. CASE ArmOk /\ state = "PLATFORM_WAIT_GRASP" /\ prepare_storage
    <3>1. UNCHANGED storeVars
      BY <2>6 DEF ArmOk
    <3>2. PICK s \in {"PLATFORM_WAIT_AVOID", "PLATFORM_WAIT_RETURN"} :
              start_arm(vis, GroupOf(s), s)
      BY <2>6 DEF prepare_storage, GroupOf
    <3>3. Searching' \/ arm' = 12 => Searching
      <4>1. CASE state' = s /\ arm' = GroupOf(s)
        BY <4>1 DEF Searching, SearchStates, GroupOf
      <4>2. CASE mission_fail([With(vis) EXCEPT !.active = 0], "ARM")
        <5>1. Rested
          BY <4>2, FailIds, FailRests
        <5> QED BY <5>1, <2>1 DEF Rested, RestStates, Searching, SearchStates
      <4> QED BY <3>2, <4>1, <4>2 DEF start_arm
    <3>4. s \in ArmStates
      BY DEF ArmStates
    <3>5. OkSeen' => OkSeen
      BY <1>2
    <3> QED
      BY <1>1, <2>1, <2>2, <3>1, <3>2, <3>3, <3>4, <3>5, StartKeeps
  <2>7. CASE ArmOk /\ state = "PLATFORM_WAIT_DEPARTURE_POSE" /\ finish_platform
    <3>1. activeArm = 10
      BY <2>1, <2>7 DEF GroupOf
    <3>2. UNCHANGED storeVars
      BY <2>7 DEF ArmOk
    <3> DEFINE w == [With(vis) EXCEPT !.id = mission_next_request_id(requestId)]
    <3>3. CASE mission_fail(w, "QUEUE")
      <4>1. mission_next_request_id(requestId) \in 1..IdMax
        BY NextIdTyped DEF ControlInv, CoreTypeOK
      <4>2. w.id \in 1..IdMax
        BY <4>1 DEF With, Now
      <4> HIDE DEF w
      <4> QED BY <1>1, <1>2, <3>2, <3>3, <4>2, FaultKeeps
    <3>4. CASE /\ state' = "WAIT_STAIRS" /\ vis' = vis
               /\ UNCHANGED <<activeArm, armHome, arm>>
      <4>1. /\ SessionFits' /\ ~Searching' /\ arm' = 0
            /\ activeArm' = 10 /\ state' \notin RestStates
        BY <2>1, <3>1, <3>4 DEF SessionFits, Searching, SearchStates, RestStates
      <4>2. \A q \in Slots : q > storageSlot' => loaded[q] = 0
        BY <1>1 DEF MachineInv, SlotsAhead
      <4> QED BY <1>1, <2>1, <2>2, <3>1, <3>4, <4>1, <4>2, GoesOnKeeps
    <3> QED BY <2>7, <3>3, <3>4 DEF finish_platform, send_new_stage
  <2> QED BY <1>3, <1>4, <2>4, <2>5, <2>6, <2>7
          DEF ArmOk, arm_next, ArmStates, StoreStates, enter_state
<1>5. CASE ArmOk /\ state \notin ArmStates
  <2>1. keep(vis) /\ UNCHANGED storeVars
    BY <1>5 DEF ArmOk, arm_next, ArmStates
  <2> QED BY <1>1, <1>2, <2>1, SessionKeeps DEF MachineInv, SessionFits
<1> QED BY <1>3, <1>4, <1>5 DEF ArmOk, BeginStore, StoreStates, ArmStates

\* While a ball is stored, and beside it, the arm is at rest.
LEMMA StoreKeeps ==
    ASSUME ControlInv, MachineInv,
           Storing \/ (StoreDevices
             /\ UNCHANGED <<ctxVars, evtQ, flags, loopVars, countVars, chassisVars>>)
    PROVE  MachineInv'
<1>1. /\ UNCHANGED <<ctxVars, evtQ, flags, loopVars, chassisVars>>
      /\ UNCHANGED <<loaded, storageSlot, currentSlot>>
      /\ \/ UNCHANGED <<step, motor, pos, manifest>>
         \/ step # "off"
         \/ motor # "still" /\ UNCHANGED <<step, manifest>>
  <2>1. CASE CardAnswered \/ CardCallback \/ MoveEnds
    BY <2>1 DEF Storing, CardAnswered, CardCallback, MoveEnds, slotVars, StoreDevices
  <2>2. CASE Storing
    <3>1. step # "off"
      BY <2>2 DEF Storing, ControlInv, StoreInHandler
    <3>2. UNCHANGED <<loaded, storageSlot, currentSlot>>
      <4> USE DEF slotVars, worldVars
      <4>1. CASE ClearDone \/ SubmitRead \/ CardDone \/ CardOverdue \/ NextAttempt
        BY <4>1 DEF ClearDone, SubmitRead, CardDone, CardOverdue, NextAttempt
      <4>2. CASE RecordBall \/ GiveUp \/ SubmitMove \/ MoveFails
        BY <4>2 DEF RecordBall, GiveUp, SubmitMove, MoveFails
      <4>3. CASE PollReached \/ PollFails \/ ReadGate
        BY <4>3 DEF PollReached, PollFails, ReadGate
      <4> QED BY <2>2, <4>1, <4>2, <4>3 DEF Storing, StoreStep
    <3> QED BY <2>2, <3>1, <3>2 DEF Storing
  <2> QED BY <2>1, <2>2 DEF StoreDevices
<1>2. /\ UNCHANGED <<state, activeArm, arm, armHome, vis, cmdQ, got, pc>>
      /\ EventsKept
  BY <1>1 DEF ctxVars, loopVars, EventsKept
<1>3. /\ arm # 0 => UNCHANGED <<step, motor, pos, manifest>>
      /\ step' # "off" \/ motor' # "still" => arm = 0
  BY <1>1 DEF MachineInv, SlotsAhead
<1>4. /\ SessionFits'
      /\ Searching' => Searching
      /\ Signalled' => Signalled
      /\ ~("ARM_OK" \in flags /\ OkSeen)'
  BY <1>1, <1>2
  DEF MachineInv, SessionFits, Searching, Signalled, OkSeen, ArmAccounted
<1> QED BY <1>1, <1>2, <1>3, <1>4, CalmKeeps

\* A STOP during the turn, or a store that fails.
LEMMA StoreEndsKeeps ==
    ASSUME ControlInv, MachineInv, StoreSeesStop \/ StoreFailed
    PROVE  MachineInv'
<1>1. /\ UNCHANGED <<chassisVars, loaded, pos, slotVars, flags>> /\ EventsKept
      /\ step' \in {step, "off"} /\ motor' \in {motor, "still"}
      /\ OkSeen' => OkSeen
  BY DEF StoreSeesStop, StoreFailed, allButMotor, turn_stop, to, goto, EventsKept,
         OkSeen
<1>2. Rested
  <2>1. CASE mission_handle_command
    BY <2>1, Regroup, CommandRests DEF Parts
  <2>2. CASE mission_fail(Now, "STORAGE")
    BY <2>2, FailIds, FailRests
  <2> QED BY <2>1, <2>2 DEF StoreSeesStop, StoreFailed
<1> QED BY <1>1, <1>2, RestingKeeps

\* The slot is used up and the run goes on over the next one, which is empty.
LEMMA StoreDoneKeeps ==
    ASSUME ControlInv, MachineInv, ControlInv', StoreDone
    PROVE  MachineInv'
<1>1. /\ EventsKept /\ pc' = "vision" /\ step # "off" /\ step' = "off"
      /\ storageSlot' = storageSlot + 1
      /\ UNCHANGED <<chassisVars, loaded, pos, motor, flags>>
  BY DEF StoreDone, EventsKept, goto, slot_used, to, worldVars
<1>2. /\ state = "PLATFORM_WAIT_STORAGE"
      /\ state \notin RestStates \cup {"WAIT_STAIRS"}
  BY DEF StoreDone, ControlInv, StoreInHandler, RestStates
<1>3. /\ arm = 0 /\ vis.phase = "IDLE" /\ ~vis.stopReq /\ ~ArmOwed
      /\ cpc \notin {"await", "route"}
  BY <1>1, <1>2, BaseStands
  DEF MachineInv, SlotsAhead, SessionFits, ArmAccounted, ArmStates
<1>4. ~Signalled' /\ ~OkSeen'
  BY <1>1, <1>3 DEF Signalled, ArmOwed, OkSeen
<1>5. CASE Rested
  BY <1>1, <1>3, <1>4, <1>5, RestingKeeps
<1>6. CASE ~Rested
  <2>1. /\ \A q \in Slots : q > storageSlot' => loaded[q] = 0
        /\ loaded[storageSlot'] = 0
    <3>1. storageSlot \in Nat /\ Slots \subseteq Nat /\ storageSlot' \in Slots
      BY DEF ControlInv, BooksTyped, BooksInOrder, Slots
    <3>2. storageSlot' > storageSlot
          /\ \A q \in Slots : q > storageSlot' => q > storageSlot
      BY <1>1, <3>1
    <3> QED BY <3>1, <3>2 DEF MachineInv, SlotsAhead
  <2>2. /\ state' \notin RestStates /\ SessionFits'
        /\ \/ /\ state' = "PLATFORM_SETTLE"
              /\ UNCHANGED <<arm, cmdQ, activeArm, armHome>>
           \/ state' = "WAIT_STAIRS" /\ arm' = 0 /\ activeArm' = 10
           \/ /\ state' \in ArmStates /\ arm' = GroupOf(state') /\ arm' # 0
              /\ activeArm' = arm' /\ ~armHome' /\ cmdQ' = cmdQ
              /\ vis'.phase = "IDLE"
    <3>1. CASE finish_platform /\ armHome
      <4> DEFINE w == [With(vis) EXCEPT !.id = mission_next_request_id(requestId)]
      <4>1. ~mission_fail(w, "QUEUE")
        <5>1. w.id \in 1..IdMax
          BY NextIdTyped DEF ControlInv, CoreTypeOK, With, Now
        <5> HIDE DEF w
        <5> QED BY <1>6, <5>1, FailRests
      <4>2. /\ state' = "WAIT_STAIRS" /\ vis' = vis
            /\ UNCHANGED <<activeArm, arm>>
        BY <3>1, <4>1 DEF finish_platform, send_new_stage
      <4>3. activeArm = 10
        BY <1>2, <3>1 DEF MachineInv, ArmAccounted
      <4> QED BY <1>3, <4>2, <4>3 DEF SessionFits, RestStates
    <3>2. CASE enter_state(vis, "PLATFORM_SETTLE")
      BY <1>3, <3>2 DEF enter_state, SessionFits, RestStates
    <3>3. CASE \E s \in ArmStates : start_arm(vis, GroupOf(s), s)
      <4>1. PICK s \in ArmStates : start_arm(vis, GroupOf(s), s)
        BY <3>3
      <4>2. ~mission_fail([With(vis) EXCEPT !.active = 0], "ARM")
        BY <1>6, FailIds, FailRests
      <4>3. /\ state' = s /\ vis' = vis /\ activeArm' = GroupOf(s)
            /\ arm' = GroupOf(s) /\ armHome' = FALSE /\ cmdQ' = cmdQ
        BY <4>1, <4>2 DEF start_arm
      <4>4. GroupOf(s) # 0 /\ s \notin RestStates
        BY DEF GroupOf, ArmStates, RestStates
      <4> QED BY <1>3, <4>3, <4>4 DEF SessionFits
    <3>4. \/ finish_platform /\ armHome
          \/ enter_state(vis, "PLATFORM_SETTLE")
          \/ \E s \in {"PLATFORM_WAIT_DEPARTURE_POSE", "PLATFORM_WAIT_POSE"} :
               start_arm(vis, GroupOf(s), s)
      BY DEF StoreDone, GroupOf
    <3> QED BY <3>1, <3>2, <3>3, <3>4 DEF ArmStates
  <2> QED BY <1>1, <1>2, <1>3, <1>4, <2>1, <2>2, GoesOnKeeps DEF RestStates
<1> QED BY <1>5, <1>6

\* mission_handle_vision: the session moves with the state, or the run rests.
LEMMA VisionKeeps ==
    ASSUME ControlInv, MachineInv, ControlInv', HandleVision
    PROVE  MachineInv'
<1>1. /\ pc = "vision" /\ pc' = "process" /\ mission_handle_vision /\ EventsKept
      /\ UNCHANGED <<chassisVars, storeVars, flags>>
      /\ ~OkSeen'
  BY DEF HandleVision, goto, EventsKept, OkSeen
<1>2. UNCHANGED <<loaded, pos, slotVars, step, motor, storageSlot>>
  BY <1>1 DEF storeVars, worldVars, slotVars
<1>3. /\ Taken.phase = vis.phase /\ Taken.stopReq = vis.stopReq
      /\ vis \in VisionType
  BY DEF Taken, ControlInv, SafeRecord, VisionType
<1>4. CASE DeferredStop
  <2>1. state \in RestStates
    BY <1>4 DEF DeferredStop, StopWasWaiting, MachineInv, SessionFits
  <2>2. PICK r : \/ enter_state(r.vis, state)
                 \/ mission_fail(With(r.vis), "VISION")
    BY <1>4 DEF DeferredStop, stop_vision
  <2>3. Rested
    <3>1. CASE enter_state(r.vis, state)
      BY <2>1, <3>1 DEF enter_state, Rested
    <3>2. CASE mission_fail(With(r.vis), "VISION")
      BY <3>2, FailIds, FailRests
    <3> QED BY <2>2, <3>1, <3>2
  <2> QED BY <1>1, <1>2, <2>3, RestingKeeps
<1>5. CASE QuietListen \/ AckSent \/ EventIgnored
  <2>1. keep(Taken)
    BY <1>5 DEF QuietListen, AckSent, EventIgnored
  <2> QED BY <1>1, <1>3, <2>1, SessionKeeps DEF MachineInv, SessionFits
<1>6. CASE BusFault \/ WrongReply
  <2>1. mission_fail(With(Taken), "VISION")
    BY <1>6 DEF BusFault, WrongReply
  <2> QED BY <1>1, <2>1, FailIds, FaultKeeps
<1>7. CASE SessionStopped
  <2>1. state \in RestStates
    BY <1>7 DEF SessionStopped, Replied, MachineInv, SessionFits
  <2>2. Rested
    BY <1>7, <2>1 DEF SessionStopped, keep, enter_state, Rested
  <2> QED BY <1>1, <1>2, <2>2, RestingKeeps
<1>8. CASE SessionReady \/ BallSeen
  <2>1. /\ state \in {"PLATFORM_WAIT_VISION", "PLATFORM_WAIT_TARGET"}
        /\ state = "PLATFORM_WAIT_VISION" <=> SessionReady
    <3>1. CASE SessionReady
      BY <3>1, <1>3
      DEF SessionReady, Replied, StopWasWaiting, ControlInv, StopNoted, OpeningFits
    <3>2. CASE BallSeen
      BY <3>2 DEF BallSeen, SessionReady, Replied
    <3> QED BY <1>8, <3>1, <3>2
  <2>2. /\ ~ArmOwed /\ arm = 0 /\ ~Signalled'
        /\ cpc \notin {"await", "route"}
        /\ state \notin RestStates \cup {"WAIT_STAIRS"}
    BY <1>1, <2>1, BaseStands
    DEF MachineInv, ArmAccounted, ArmOwed, Signalled, ArmStates, RestStates
  <2>3. ~vis.stopReq /\ Searching
    BY <2>1, <2>2 DEF MachineInv, SessionFits, Searching, SearchStates
  <2>4. CASE SessionReady
    <3> DEFINE v == [Taken EXCEPT !.phase = "LISTENING"]
    <3>1. enter_state(v, "PLATFORM_WAIT_TARGET")
      BY <2>1, <2>4 DEF SessionReady
    <3>2. v.phase = "LISTENING" /\ ~v.stopReq
      BY <1>3, <2>3 DEF Taken, VisionType
    <3> HIDE DEF v
    <3>3. SessionFits'
      BY <3>1, <3>2 DEF enter_state, SessionFits
    <3>4. "PLATFORM_WAIT_TARGET" \notin RestStates \cup {"WAIT_STAIRS"}
      BY DEF RestStates
    <3> QED BY <1>1, <1>2, <2>2, <2>3, <3>1, <3>3, <3>4, EnterKeeps
  <2>5. CASE BallSeen
    <3>1. PICK ok \in BOOLEAN :
              IF ok THEN enter_state(acking(TRUE), "PLATFORM_WAIT_GRASP")
                    ELSE mission_fail(With(acking(FALSE)), "VISION")
      BY <2>5 DEF BallSeen, submit_results
    <3>2. CASE ok
      <4>1. enter_state(acking(TRUE), "PLATFORM_WAIT_GRASP")
        BY <3>1, <3>2
      <4>2. acking(TRUE).phase = "ACKING" /\ ~acking(TRUE).stopReq
        BY <1>3, <2>3
        DEF acking, mission_submit_vision_transfer, framed, Taken, VisionType
      <4>3. SessionFits'
        BY <4>1, <4>2 DEF enter_state, SessionFits
      <4>4. "PLATFORM_WAIT_GRASP" \notin RestStates \cup {"WAIT_STAIRS"}
        BY DEF RestStates
      <4> QED BY <1>1, <1>2, <2>2, <2>3, <4>1, <4>3, <4>4, EnterKeeps
    <3>3. CASE ~ok
      BY <1>1, <3>1, <3>3, FailIds, FaultKeeps
    <3> QED BY <3>1, <3>2, <3>3
  <2> QED BY <1>8, <2>4, <2>5
<1> QED BY <1>1, <1>4, <1>5, <1>6, <1>7, <1>8 DEF mission_handle_vision

\* mission_vision_process and mission_check_timeout.
LEMMA ProcessKeeps ==
    ASSUME ControlInv, MachineInv, ControlInv', UNCHANGED chassisVars,
           \/ AckProcessed
           \/ UNCHANGED storeVars /\ (ReadNext \/ CheckTimeout(Timed) \/ SettleOver)
    PROVE  MachineInv'
<1>1. /\ pc' \in {"timeout", "wait"} /\ EventsKept
      /\ UNCHANGED <<storeVars, flags>> /\ ~OkSeen'
  BY DEF AckProcessed, ReadNext, CheckTimeout, SettleOver, goto, EventsKept, OkSeen
<1>2. UNCHANGED <<loaded, storageSlot>> /\ vis \in VisionType
  BY <1>1 DEF storeVars, worldVars, slotVars, ControlInv, SafeRecord
<1>3. CASE ReadNext
  <2>1. PICK ok \in BOOLEAN : keep(mission_submit_vision_transfer(vis, "READ", ok))
    BY <1>3 DEF ReadNext, submit_results
  <2> DEFINE v == mission_submit_vision_transfer(vis, "READ", ok)
  <2>2. v.phase = vis.phase /\ v.stopReq = vis.stopReq
    BY <1>2, <2>1 DEF mission_submit_vision_transfer, framed, VisionType
  <2> HIDE DEF v
  <2>3. keep(v)
    BY <2>1 DEF v
  <2> QED BY <1>1, <2>2, <2>3, SessionKeeps DEF MachineInv, SessionFits
<1>4. CASE CheckTimeout(Timed)
  <2>1. CASE keep(vis)
    BY <1>1, <2>1, SessionKeeps DEF MachineInv, SessionFits
  <2>2. CASE mission_fail(Now, "TIMEOUT")
    BY <1>1, <2>2, FailIds, FaultKeeps
  <2> QED BY <1>4, <2>1, <2>2 DEF CheckTimeout
<1>5. CASE AckProcessed
  <2> DEFINE v == mission_reset_vision(vis)
  <2>1. v.phase = "IDLE" /\ ~v.stopReq
    BY <1>2 DEF mission_reset_vision, VisionType
  <2> HIDE DEF v
  <2>2. CASE state # "PLATFORM_WAIT_GRASP" /\ keep(v)
    BY <1>1, <2>1, <2>2, SessionKeeps
  <2>3. CASE state = "PLATFORM_WAIT_GRASP" /\ start_arm(v, 12, state)
    <3>1. /\ state \notin RestStates /\ vis.phase = "ACKING"
          /\ GroupOf(state) = 12 /\ state \in ArmStates
      BY <1>5, <2>3 DEF AckProcessed, RestStates, GroupOf, ArmStates
    <3>2. /\ ~ArmOwed /\ Searching
          /\ cpc \notin {"await", "route"}
      BY <2>3, <3>1, BaseStands DEF MachineInv, ArmAccounted, Searching
    <3>3. ~Signalled' /\ (OkSeen' => OkSeen)
      BY <1>1, <3>2 DEF ArmOwed, Signalled
    <3> QED BY <1>1, <2>1, <2>3, <3>1, <3>2, <3>3, StartKeeps
  <2> QED BY <1>5, <2>2, <2>3 DEF AckProcessed, start_grasp, v
<1>6. CASE SettleOver
  <2>1. /\ state = "PLATFORM_SETTLE" /\ state \notin RestStates \cup {"WAIT_STAIRS"}
        /\ start_vision(vis, "PLATFORM", "PLATFORM_WAIT_VISION")
    BY <1>6 DEF SettleOver, RestStates
  <2>2. /\ arm = 0 /\ ~Signalled' /\ cpc \notin {"await", "route"}
        /\ Searching /\ ~vis.stopReq
    BY <1>1, <2>1, BaseStands
    DEF MachineInv, ArmAccounted, ArmOwed, Signalled, ArmStates, Searching,
        SearchStates, SessionFits
  <2>3. CASE \E v : mission_fail(With(v), "VISION")
    BY <1>1, <2>3, FailIds, FaultKeeps
  <2>4. CASE \E ok \in BOOLEAN :
               enter_state(mission_submit_vision_transfer(
                  [vis EXCEPT !.phase = "STARTING", !.scene = "PLATFORM"],
                  "START", ok), "PLATFORM_WAIT_VISION")
    <3>1. PICK ok \in BOOLEAN :
               enter_state(mission_submit_vision_transfer(
                  [vis EXCEPT !.phase = "STARTING", !.scene = "PLATFORM"],
                  "START", ok), "PLATFORM_WAIT_VISION")
      BY <2>4
    <3> DEFINE v == mission_submit_vision_transfer(
                  [vis EXCEPT !.phase = "STARTING", !.scene = "PLATFORM"],
                  "START", ok)
    <3>2. v.phase = "STARTING" /\ ~v.stopReq
      BY <1>2, <2>2 DEF mission_submit_vision_transfer, framed, VisionType
    <3> HIDE DEF v
    <3>3. enter_state(v, "PLATFORM_WAIT_VISION")
      BY <3>1 DEF v
    <3>4. SessionFits'
      BY <3>2, <3>3 DEF enter_state, SessionFits
    <3>5. "PLATFORM_WAIT_VISION" \notin RestStates \cup {"WAIT_STAIRS"}
      BY DEF RestStates
    <3> QED BY <1>1, <1>2, <2>1, <2>2, <3>3, <3>4, <3>5, EnterKeeps
  <2> QED BY <2>1, <2>3, <2>4 DEF start_vision, submit_results
<1> QED BY <1>3, <1>4, <1>5, <1>6

\* What a step of the chassis task may post.
LEMMA PostTyped ==
    ASSUME evtQ \in Seq([type : {"PLATFORM_READY", "STOPPED"}, id : Nat, ok : BOOLEAN]),
           NEW t \in {"PLATFORM_READY", "STOPPED"}, NEW id \in Nat, NEW ok \in BOOLEAN,
           link_post(t, id, ok)
    PROVE  /\ evtQ' \in Seq([type : {"PLATFORM_READY", "STOPPED"}, id : Nat, ok : BOOLEAN])
           /\ t # "PLATFORM_READY" =>
                \A i \in DOMAIN (evtQ') : (evtQ')[i].type = "PLATFORM_READY" =>
                   \E j \in DOMAIN evtQ : evtQ[j].type = "PLATFORM_READY"
           /\ flags' \in {flags, flags \cup {"EVENT"}}
<1> DEFINE E == [type : {"PLATFORM_READY", "STOPPED"}, id : Nat, ok : BOOLEAN]
<1>1. Event(t, id, ok) \in E /\ Event(t, id, ok).type = t
  BY DEF Event
<1>2. CASE evtQ' = evtQ /\ flags' = flags
  BY <1>2
<1>3. CASE /\ evtQ' = Append(evtQ, Event(t, id, ok))
           /\ flags' = flags \cup {"EVENT"}
  <2>1. evtQ \in Seq(E)
    OBVIOUS
  <2> HIDE DEF E
  <2>2. /\ evtQ' \in Seq(E) /\ DOMAIN (evtQ') = 1..Len(evtQ) + 1
        /\ DOMAIN evtQ = 1..Len(evtQ) /\ Len(evtQ) \in Nat
        /\ (evtQ')[Len(evtQ) + 1] = Event(t, id, ok)
        /\ \A i \in DOMAIN evtQ : (evtQ')[i] = evtQ[i]
    BY <1>1, <1>3, <2>1
  <2>3. ASSUME t # "PLATFORM_READY", NEW i \in DOMAIN (evtQ'),
               (evtQ')[i].type = "PLATFORM_READY"
        PROVE  \E j \in DOMAIN evtQ : evtQ[j].type = "PLATFORM_READY"
    <3>1. i # Len(evtQ) + 1
      BY <1>1, <2>2, <2>3
    <3>2. i \in DOMAIN evtQ
      BY <2>2, <3>1
    <3> QED BY <2>2, <2>3, <3>2
  <2> QED BY <1>3, <2>2, <2>3 DEF E
<1> QED BY <1>2, <1>3 DEF link_post

\* The base sets out, arrives, answers a STOP or sets out again.
LEMMA ChassisKeeps ==
    ASSUME ControlInv, MachineInv, Chassis
    PROVE  MachineInv'
<1> DEFINE E == [type : {"PLATFORM_READY", "STOPPED"}, id : Nat, ok : BOOLEAN]
<1> USE DEF MachineInv
<1>1. /\ UNCHANGED <<state, activeArm, arm, armHome, vis, got, pc>>
      /\ UNCHANGED <<loaded, storageSlot, currentSlot, pos, manifest, step, motor>>
  BY DEF Chassis, ctxButCmd, loopVars, storeVars, slotVars, worldVars
<1>2. evtQ \in Seq(E) /\ cmdQ \in Seq(Commands)
  BY DEF BaseAccounted, ControlInv, QueueTyped
<1> HIDE DEF E
<1>3. /\ cmdQ' = cmdQ \/ (cmdQ # <<>> /\ cmdQ' = Tail(cmdQ))
      /\ \A i \in DOMAIN (cmdQ') : \E j \in DOMAIN cmdQ : (cmdQ')[i] = cmdQ[j]
      /\ flags' \in {flags, flags \cup {"EVENT"}}
  <2>1. Takes /\ Posts
    BY ChassisShares DEF Chassis
  <2>2. CASE cmdQ # <<>> /\ cmdQ' = Tail(cmdQ)
    <3>1. /\ DOMAIN (cmdQ') = 1..Len(cmdQ) - 1 /\ DOMAIN cmdQ = 1..Len(cmdQ)
          /\ Len(cmdQ) \in Nat
          /\ \A i \in 1..Len(cmdQ) - 1 : (cmdQ')[i] = cmdQ[i + 1]
      BY <1>2, <2>2
    <3>2. \A i \in DOMAIN (cmdQ') : i + 1 \in DOMAIN cmdQ /\ (cmdQ')[i] = cmdQ[i + 1]
      BY <3>1
    <3> QED BY <2>1, <2>2, <3>2 DEF Posts
  <2> QED BY <2>1, <2>2 DEF Takes, Posts
<1>4. SessionFits' /\ ArmAccounted' /\ SlotsAhead'
  <2>1. SessionFits'
    BY <1>1 DEF SessionFits
  <2>2. ArmAccounted'
    BY <1>1, <1>3 DEF ArmAccounted, ArmOwed, OkSeen
  <2>3. SlotsAhead'
    BY <1>1 DEF SlotsAhead, Searching
  <2> QED BY <2>1, <2>2, <2>3
<1>5. (\E i \in DOMAIN (cmdQ') : (cmdQ')[i].type = "GO_STAIRS") =>
         \E i \in DOMAIN cmdQ : cmdQ[i].type = "GO_STAIRS"
  BY <1>3
<1>6. ASSUME cmdQ # <<>>
      PROVE  /\ Head(cmdQ) \in Commands /\ Head(cmdQ).id \in Nat
             /\ \E i \in DOMAIN cmdQ : cmdQ[i] = Head(cmdQ)
  <2>1. 1 \in DOMAIN cmdQ /\ Head(cmdQ) = cmdQ[1] /\ cmdQ[1] \in Commands
    BY <1>2, <1>6
  <2> QED BY <2>1, IdMaxAssumption DEF Commands
<1>7. CASE AwaitGo /\ NextCommand.type = "GO_PLATFORM"
  <2>1. /\ cpc = "await" /\ cpc' = "route" /\ evtQ' = evtQ
        /\ reqId' = Head(cmdQ).id /\ driving' = TRUE /\ cmdQ # <<>>
    BY <1>7 DEF AwaitGo, NextCommand, TakeCommand
  <2>2. ChassisTypeOK'
    BY <1>6, <2>1 DEF ChassisTypeOK
  <2>3. BaseAccounted'
    BY <1>1, <1>5, <2>1 DEF BaseAccounted
  <2> QED BY <1>4, <2>2, <2>3
<1>8. CASE /\ TakeCommand /\ cmd_default(NextCommand) /\ UNCHANGED <<cpc, reqId>>
           /\ cpc \in {"await", "stand"}
  <2>1. /\ ~driving /\ driving' = FALSE /\ driving \in BOOLEAN
        /\ UNCHANGED evtQ \/ link_post("STOPPED", Head(cmdQ).id, TRUE)
        /\ cmdQ # <<>>
    BY <1>8 DEF cmd_default, BaseAccounted, NextCommand, TakeCommand, ChassisTypeOK
  <2>2. ChassisTypeOK'
    BY <1>8, <2>1 DEF ChassisTypeOK
  <2>3. /\ evtQ' \in Seq(E)
        /\ \A i \in DOMAIN (evtQ') : (evtQ')[i].type = "PLATFORM_READY" =>
              \E j \in DOMAIN evtQ : evtQ[j].type = "PLATFORM_READY"
    <3>1. CASE UNCHANGED evtQ
      BY <1>2, <3>1
    <3>2. CASE link_post("STOPPED", Head(cmdQ).id, TRUE)
      BY <1>2, <1>6, <2>1, <3>2, PostTyped DEF E
    <3> QED BY <2>1, <3>1, <3>2
  <2>4. BaseAccounted'
    BY <1>1, <1>5, <1>8, <2>1, <2>3 DEF BaseAccounted, E
  <2> QED BY <1>4, <2>2, <2>4
<1>9. CASE RouteDone
  <2>1. /\ cpc = "route" /\ cpc' = "stand" /\ driving' = FALSE
        /\ UNCHANGED <<cmdQ, reqId>>
        /\ \E ok \in BOOLEAN : link_post("PLATFORM_READY", reqId, ok)
    BY <1>9, SensorAssumption DEF RouteDone
  <2>2. ChassisTypeOK' /\ reqId \in Nat
    BY <2>1 DEF ChassisTypeOK
  <2>3. evtQ' \in Seq(E)
    BY <1>2, <2>1, <2>2, PostTyped DEF E
  <2>4. BaseAccounted'
    BY <1>1, <2>1, <2>3 DEF BaseAccounted, E
  <2> QED BY <1>4, <2>2, <2>4
<1>10. CASE AwaitNext /\ NextCommand.type = "GO_STAIRS"
  <2>1. /\ cpc = "stand" /\ cpc' = "next" /\ evtQ' = evtQ
        /\ reqId' = reqId /\ driving' = TRUE
    BY <1>10 DEF AwaitNext
  <2>2. \E i \in DOMAIN cmdQ : cmdQ[i].type = "GO_STAIRS"
    BY <1>6, <1>10 DEF AwaitNext, NextCommand, TakeCommand
  <2>3. ChassisTypeOK' /\ BaseAccounted'
    BY <1>1, <2>1, <2>2 DEF ChassisTypeOK, BaseAccounted
  <2> QED BY <1>4, <2>3
<1> QED BY <1>7, <1>8, <1>9, <1>10
        DEF Chassis, ChassisNext, AwaitGo, AwaitNext

\* The arm executes the group of the state, or the run is at rest.
LEMMA WorldKeeps ==
    ASSUME ControlInv, MachineInv, Devices \/ ArmNoise \/ User
    PROVE  MachineInv'
<1>1. CASE /\ PublishReply \/ ReleaseTransfer \/ SubmitStop
           /\ UNCHANGED <<storeVars, countVars, chassisVars>>
  <2>1. /\ UNCHANGED <<state, activeArm, arm, armHome, cmdQ, loaded, chassisVars>>
        /\ UNCHANGED <<storageSlot, currentSlot, pos, manifest, step, motor>>
        /\ UNCHANGED <<got, pc>> /\ EventsKept
        /\ flags' \cap {"ARM_OK"} = flags \cap {"ARM_OK"}
    BY <1>1 DEF PublishReply, ReleaseTransfer, SubmitStop, ctxVars, loopVars,
                storeVars, slotVars, worldVars, EventsKept
  <2>2. vis'.phase = vis.phase /\ vis'.stopReq = vis.stopReq
    BY <1>1 DEF PublishReply, ReleaseTransfer, SubmitStop, ctxVars, ControlInv,
                SafeRecord, VisionType
  <2>3. /\ SessionFits' /\ (Searching' => Searching)
        /\ Signalled' => Signalled
        /\ ~("ARM_OK" \in flags /\ OkSeen)'
        /\ step' # "off" \/ motor' # "still" => arm = 0
    BY <2>1, <2>2 DEF MachineInv, SessionFits, Searching, Signalled, OkSeen,
                      ArmAccounted, SlotsAhead
  <2> QED BY <2>1, <2>2, <2>3, CalmKeeps
<1>2. CASE /\ ArmCompleted \/ ArmFailed
           /\ \/ UNCHANGED storeVars
              \/ ArmCompleted /\ arm = 12 /\ drop(attempts)
           /\ UNCHANGED chassisVars
  <2> USE DEF MachineInv
  <2>1. /\ arm # 0 /\ arm' \in {0, arm} /\ (armHome' => arm' = 0)
        /\ UNCHANGED <<state, activeArm, vis, cmdQ, evtQ, got, pc>>
        /\ UNCHANGED <<storageSlot, currentSlot, pos, manifest, step, motor>>
        /\ "ARM_OK" \in flags' =>
             "ARM_OK" \in flags
               \/ (arm' = 0 /\ arm = activeArm /\ ArmCompleted)
    <3>1. CASE ArmCompleted
      BY <1>2, <3>1
      DEF ArmCompleted, loopVars, storeVars, slotVars, worldVars, drop, ArmAccounted
    <3>2. CASE ArmFailed
      BY <1>2, <3>2
      DEF ArmFailed, ArmCompleted, loopVars, storeVars, slotVars, worldVars, drop
    <3> QED BY <1>2, <3>1, <3>2
  <2>2. /\ ChassisTypeOK' /\ SessionFits'
    BY <1>2, <2>1 DEF chassisVars, ChassisTypeOK, SessionFits
  <2>3. ArmAccounted'
    <3>1. /\ "ARM_OK" \notin flags /\ ~OkSeen /\ ~OkSeen' /\ state # "WAIT_STAIRS"
          /\ ~armHome
          /\ state \notin RestStates =>
               /\ state \in ArmStates /\ activeArm = GroupOf(state)
               /\ arm = activeArm
               /\ state = "PLATFORM_WAIT_GRASP" => vis.phase = "IDLE"
      BY <2>1 DEF ArmAccounted, ArmOwed, OkSeen, ArmStates, RestStates
    <3>2. armHome' => activeArm = 10
      BY <1>2, <3>1 DEF ArmCompleted, ArmFailed
    <3> QED BY <2>1, <3>1, <3>2 DEF ArmAccounted, ArmOwed, OkSeen
  <2>4. BaseAccounted'
    BY <1>2, <2>1 DEF BaseAccounted, chassisVars
  <2>5. SlotsAhead'
    <3>1. /\ pos = currentSlot /\ pos = storageSlot /\ step = "off"
          /\ motor = "still" /\ (Searching' => Searching)
      BY <2>1 DEF ControlInv, BooksInOrder, SlotsAhead, Searching
    <3>2. CASE UNCHANGED storeVars
      BY <2>1, <3>1, <3>2 DEF SlotsAhead, storeVars, worldVars
    <3>3. CASE ArmCompleted /\ arm = 12 /\ drop(attempts)
      <4>1. arm' = 0 /\ ~Searching
        BY <3>3 DEF ArmCompleted, ArmAccounted, ArmOwed, Searching, GroupOf,
                    SearchStates, ArmStates, RestStates
      <4>2. PICK b \in {0, attempts} : loaded' = [loaded EXCEPT ![pos] = b]
        BY <3>3 DEF drop
      <4>3. \A s \in Slots : s > storageSlot => (loaded')[s] = loaded[s]
        BY <3>1, <4>2 DEF ControlInv, CountsFit, BooksTyped, Slots
      <4> QED BY <2>1, <3>1, <4>1, <4>3 DEF SlotsAhead
    <3> QED BY <1>2, <3>2, <3>3
  <2> QED BY <2>2, <2>3, <2>4, <2>5
<1>3. CASE StoreDevices
             /\ UNCHANGED <<ctxVars, evtQ, flags, loopVars, countVars, chassisVars>>
  BY <1>3, StoreKeeps
<1>4. CASE ArmNoise
  <2>1. /\ UNCHANGED <<state, activeArm, arm, vis, cmdQ, evtQ, got, pc>>
        /\ UNCHANGED <<chassisVars, storeVars>> /\ ~armHome'
        /\ "ARM_OK" \in flags' => "ARM_OK" \in flags
    BY <1>4 DEF ArmNoise, loopVars
  <2>2. ChassisTypeOK' /\ SessionFits' /\ BaseAccounted'
    BY <2>1 DEF MachineInv, chassisVars, ChassisTypeOK, SessionFits, BaseAccounted
  <2>3. ArmAccounted'
    BY <2>1 DEF MachineInv, ArmAccounted, ArmOwed, OkSeen
  <2>4. SlotsAhead'
    BY <2>1 DEF MachineInv, SlotsAhead, Searching, storeVars, slotVars, worldVars
  <2> QED BY <2>2, <2>3, <2>4 DEF MachineInv
<1> QED BY <1>1, <1>2, <1>3, <1>4 DEF Devices, User

LEMMA StepMachine ==
    ASSUME ControlInv, MachineInv, ControlInv', [Next]_vars
    PROVE  MachineInv'
<1>1. CASE UNCHANGED vars
  <2>1. /\ UNCHANGED <<ctxVars, evtQ, flags, loopVars, storeVars, chassisVars>>
    BY <1>1 DEF vars
  <2>2. keep(vis) /\ EventsKept /\ (OkSeen' => OkSeen)
    BY <2>1 DEF ctxVars, loopVars, keep, enter_state, EventsKept, OkSeen
  <2> QED BY <2>1, <2>2, SessionKeeps DEF MachineInv, SessionFits
<1>2. CASE MissionLoop /\ UNCHANGED <<storeVars, countVars, chassisVars>>
  <2>1. UNCHANGED <<storeVars, chassisVars>>
    BY <1>2
  <2>2. CASE HandleCommand
    BY <2>1, <2>2, CommandKeeps
  <2>3. CASE ReadNext \/ CheckTimeout(Timed)
    BY <2>1, <2>3, ProcessKeeps
  <2> QED BY <1>2, <2>1, <2>2, <2>3, LoopKeeps DEF MissionLoop
<1>3. CASE WakeSettled \/ SettleOver
  <2>1. UNCHANGED <<storeVars, chassisVars>>
    BY <1>3 DEF WakeSettled, SettleOver
  <2> QED BY <1>3, <2>1, LoopKeeps, ProcessKeeps
<1>4. CASE HandleChassis \/ ArmFail \/ ArmOk \/ BeginStore
  BY <1>4, ChassisEventKeeps, ArmReportKeeps
<1>5. CASE Storing \/ StoreSeesStop \/ StoreFailed \/ StoreDone
  BY <1>5, StoreKeeps, StoreEndsKeeps, StoreDoneKeeps
<1>6. CASE HandleVision
  BY <1>6, VisionKeeps
<1>7. CASE AckProcessed
  <2>1. UNCHANGED chassisVars
    BY <1>7 DEF AckProcessed
  <2> QED BY <1>7, <2>1, ProcessKeeps
<1>8. CASE Chassis \/ Devices \/ ArmNoise \/ User
  BY <1>8, ChassisKeeps, WorldKeeps
<1> QED BY <1>1, <1>2, <1>3, <1>4, <1>5, <1>6, <1>7, <1>8 DEF Next, Mission, Over

LEMMA InitMachine == PlatformInit => MachineInv
<1> SUFFICES ASSUME PlatformInit PROVE MachineInv
  OBVIOUS
<1>1. ChassisTypeOK /\ SessionFits
  BY DEF PlatformInit, ChassisInit, ChassisTypeOK, IdleVision, SessionFits
<1>2. ArmAccounted
  BY DEF PlatformInit, LinkInit, ArmAccounted, ArmOwed, OkSeen
<1>3. BaseAccounted
  <2>1. \A i \in DOMAIN cmdQ : cmdQ[i].type # "GO_STAIRS"
    BY DEF PlatformInit, Command
  <2> QED BY <2>1 DEF PlatformInit, LinkInit, ChassisInit, BaseAccounted
<1>4. SlotsAhead
  BY DEF PlatformInit, StoreInit, SlotsAhead, Slots, SlotCount
<1> QED BY <1>1, <1>2, <1>3, <1>4 DEF MachineInv

-----------------------------------------------------------------------------
(* The theorems of the second layer.                                       *)

\* The arm, the session, the base and the balls are always where the state of
\* the run has them.
THEOREM MachineInvariant == Spec => []MachineInv
<1>1. ControlInv /\ MachineInv /\ ControlInv' /\ [Next]_vars => MachineInv'
  BY StepMachine
<1> QED BY InitMachine, <1>1, ControlInvariant, PTL DEF Spec

\* Every variable has its type, the commands, the events and the records in
\* the queues included.
THEOREM PlatformTyped == Spec => []TypeOK
<1>1. ControlInv /\ MachineInv => TypeOK
  BY DEF ControlInv, CountsFit, BooksTyped, MachineInv, TypeOK, StoreTypeOK,
         Unrecorded, Recorded
<1> QED BY <1>1, ControlInvariant, MachineInvariant, PTL

\* The arm works over a standing base and a standing turntable, and drops a
\* ball only into an empty slot.
THEOREM TurntableClear == Spec => []TurnClearOfArm
<1>1. ControlInv /\ MachineInv => TurnClearOfArm
  <2> SUFFICES ASSUME ControlInv, MachineInv PROVE TurnClearOfArm
    OBVIOUS
  <2>1. arm # 0 => ~driving
    BY DEF MachineInv, BaseAccounted
  <2>2. arm # 0 => motor = "still" /\ pos = currentSlot
    BY DEF MachineInv, SlotsAhead
  <2>3. arm = 12 => loaded[pos] = 0
    BY <2>2 DEF ControlInv, BooksInOrder, MachineInv, SlotsAhead
  <2> QED BY <2>1, <2>2, <2>3 DEF TurnClearOfArm
<1> QED BY <1>1, ControlInvariant, MachineInvariant, PTL

\* The base leaves the platform after the arm's last group, the one that takes
\* it home, and with everything else at rest.
THEOREM DepartureTidy == Spec => []LeavesTidy
<1>1. ControlInv /\ MachineInv => LeavesTidy
  <2> SUFFICES ASSUME ControlInv, MachineInv, cpc = "next", state \notin RestStates
               PROVE  /\ activeArm = 10 /\ arm = 0 /\ motor = "still"
                      /\ vis.phase = "IDLE" /\ step = "off"
    BY DEF LeavesTidy
  <2>1. state = "WAIT_STAIRS" /\ arm = 0 /\ activeArm = 10
    BY DEF MachineInv, BaseAccounted, ArmAccounted
  <2>2. vis.phase = "IDLE"
    BY <2>1 DEF MachineInv, SessionFits
  <2>3. step = "off"
    BY <2>1 DEF ControlInv, StoreInHandler
  <2>4. motor = "still"
    BY <2>3 DEF ControlInv, TurnInStep, Resumes
  <2> QED BY <2>1, <2>2, <2>3, <2>4
<1> QED BY <1>1, ControlInvariant, MachineInvariant, PTL

-----------------------------------------------------------------------------
(* The third layer: the card reader's answers.                             *)

readerVars == <<icDone, icStatus, icBall, reader, manifest, pos, loaded, late>>

\* A step beside the card reader.
LEMMA CardCalm ==
    ASSUME CardInv, UNCHANGED readerVars,
           step' = step \/ (step # "listen" /\ step' \notin {"listen", "read"})
    PROVE  CardInv'
<1>1. /\ UNCHANGED <<icDone, icStatus, icBall, reader, manifest, pos, loaded, late>>
      /\ \A s : Under(s)' = Under(s)
  BY DEF readerVars, Under
<1>2. RecordNamesItsBall'
  BY <1>1 DEF CardInv, RecordNamesItsBall, Under
<1>3. ~late' => OneAnswer'
  BY <1>1 DEF CardInv, OneAnswer, Under
<1> QED BY <1>2, <1>3 DEF CardInv

\* Each step of mission_read_ball and mission_record_ball.
LEMMA CardSteps ==
    ASSUME ControlInv, MachineInv, CardInv, StoreStep
    PROVE  CardInv'
<1> USE DEF readVars, slotVars, worldVars, to
<1>1. UNCHANGED <<loaded, pos>> /\ (late => late')
  <2>1. CASE ClearDone \/ SubmitRead \/ CardDone \/ CardOverdue \/ NextAttempt
    BY <2>1 DEF ClearDone, SubmitRead, CardDone, CardOverdue, NextAttempt
  <2>2. CASE RecordBall \/ GiveUp \/ SubmitMove \/ MoveFails
    BY <2>2 DEF RecordBall, GiveUp, SubmitMove, MoveFails
  <2>3. CASE PollReached \/ PollFails \/ ReadGate
    BY <2>3 DEF PollReached, PollFails, ReadGate
  <2> QED BY <2>1, <2>2, <2>3 DEF StoreStep
<1>2. CASE manifest' = manifest /\ ~RecordBall
  <2>1. RecordNamesItsBall'
    BY <1>1, <1>2 DEF CardInv, RecordNamesItsBall, Under
  <2>2. ASSUME ~late' PROVE OneAnswer'
    <3>1. ~late /\ OneAnswer
      BY <1>1, <2>2 DEF CardInv
    <3> USE <1>1, <3>1 DEF OneAnswer, Under
    <3>2. CASE ClearDone    BY <3>2 DEF ClearDone
    <3>3. CASE SubmitRead   BY <3>3 DEF SubmitRead, ControlInv, BooksTyped, ReaderType
    <3>4. CASE CardDone     BY <3>4 DEF CardDone
    <3>5. CASE CardOverdue  BY <2>2, <3>5 DEF CardOverdue
    <3>6. CASE NextAttempt  BY <3>6 DEF NextAttempt
    <3>7. CASE GiveUp       BY <3>7 DEF GiveUp
    <3>8. CASE SubmitMove   BY <3>8 DEF SubmitMove
    <3>9. CASE MoveFails    BY <3>9 DEF MoveFails
    <3>10. CASE PollReached BY <3>10 DEF PollReached
    <3>11. CASE PollFails   BY <3>11 DEF PollFails
    <3>12. CASE ReadGate    BY <3>12 DEF ReadGate
    <3> QED BY <1>2, <3>2, <3>3, <3>4, <3>5, <3>6, <3>7, <3>8, <3>9, <3>10, <3>11,
               <3>12 DEF StoreStep
  <2> QED BY <2>1, <2>2 DEF CardInv
<1>3. CASE RecordBall
  <2>1. /\ step \in {"read", "unread"} /\ step' \in {"turn", "failed"}
        /\ UNCHANGED <<icDone, icStatus, icBall, reader, late>>
    BY <1>3 DEF RecordBall
  <2>2. ASSUME ~late' PROVE OneAnswer'
    BY <1>1, <2>1, <2>2 DEF CardInv, OneAnswer, Under
  <2>3. RecordNamesItsBall'
    <3>1. CASE manifest' = manifest
      BY <1>1, <2>1, <3>1 DEF CardInv, RecordNamesItsBall, Under
    <3>2. CASE manifest' # manifest
      <4> DEFINE r == Appended(storageSlot, IF step = "read" THEN icBall ELSE NoCell)
      <4>1. manifest' = Append(manifest, r)
        BY <1>3, <3>2 DEF RecordBall
      <4>2. /\ r.slot = storageSlot
            /\ r.cell # NoCell => step = "read" /\ r.cell = icBall
        BY DEF Appended
      <4>3. pos = storageSlot
        BY <2>1 DEF ControlInv, BooksInOrder, TurnInStep, Unrecorded
      <4>4. r.cell # NoCell => r.cell = Under(r.slot) \/ late
        BY <4>2, <4>3 DEF CardInv, OneAnswer
      <4> HIDE DEF r
      <4>5. /\ DOMAIN manifest = 1..Len(manifest) /\ Len(manifest) \in Nat
            /\ DOMAIN (manifest') = 1..Len(manifest) + 1
            /\ (manifest')[Len(manifest) + 1] = r
            /\ \A i \in DOMAIN manifest : (manifest')[i] = manifest[i]
        BY <4>1 DEF ControlInv, BooksTyped
      <4>6. ASSUME NEW i \in DOMAIN (manifest'), (manifest')[i].cell # NoCell
            PROVE  (manifest')[i].cell = Under((manifest')[i].slot) \/ late
        <5>1. CASE i = Len(manifest) + 1
          BY <4>4, <4>5, <4>6, <5>1
        <5>2. CASE i \in DOMAIN manifest
          BY <4>5, <4>6, <5>2 DEF CardInv, RecordNamesItsBall
        <5> QED BY <4>5, <5>1, <5>2
      <4> QED BY <1>1, <2>1, <4>6 DEF RecordNamesItsBall, Under
    <3> QED BY <3>1, <3>2
  <2> QED BY <2>2, <2>3 DEF CardInv
<1>4. ~RecordBall => manifest' = manifest
  <2>1. CASE ClearDone \/ SubmitRead \/ CardDone \/ CardOverdue \/ NextAttempt
    BY <2>1 DEF ClearDone, SubmitRead, CardDone, CardOverdue, NextAttempt
  <2>2. CASE GiveUp \/ SubmitMove \/ MoveFails \/ PollReached \/ PollFails \/ ReadGate
    BY <2>2 DEF GiveUp, SubmitMove, MoveFails, PollReached, PollFails, ReadGate
  <2> QED BY <2>1, <2>2 DEF StoreStep
<1> QED BY <1>2, <1>3, <1>4

\* The card reader answers and calls back, the motor ends a motion.
LEMMA CardDeviceSteps ==
    ASSUME ControlInv, CardInv, StoreDevices
    PROVE  CardInv'
<1>1. UNCHANGED <<step, manifest, loaded, late>>
  BY DEF StoreDevices, CardAnswered, CardCallback, MoveEnds, slotVars
<1>2. RecordNamesItsBall'
  BY <1>1 DEF CardInv, RecordNamesItsBall, Under
<1>3. ASSUME ~late' PROVE OneAnswer'
  <2>1. OneAnswer
    BY <1>1, <1>3 DEF CardInv
  <2> USE <1>1, <2>1 DEF OneAnswer, Under, readVars
  <2>2. CASE CardAnswered
    BY <2>2 DEF CardAnswered, ControlInv, BooksTyped, ReaderType
  <2>3. CASE CardCallback
    BY <2>3 DEF CardCallback, ControlInv, BooksTyped, ReaderType
  <2>4. CASE MoveEnds
    <3>1. step \notin {"listen", "read"} /\ UNCHANGED <<readVars, reader>>
      BY <2>4 DEF MoveEnds, ControlInv, TurnInStep, Unrecorded
    <3> QED BY <3>1
  <2> QED BY <2>2, <2>3, <2>4 DEF StoreDevices
<1> QED BY <1>2, <1>3 DEF CardInv

\* A ball is dropped when no card is being read, into a slot without record.
LEMMA DropKeeps ==
    ASSUME ControlInv, MachineInv, CardInv, arm = 12, drop(attempts)
    PROVE  CardInv'
<1>1. /\ step = "off" /\ Len(manifest) = storageSlot /\ pos = storageSlot
      /\ UNCHANGED <<step, icDone, icStatus, icBall, reader, manifest, pos, late>>
  BY DEF MachineInv, SlotsAhead, ControlInv, BooksInOrder, drop, readVars, slotVars
<1>2. \A s \in Slots : s # pos => loaded'[s] = loaded[s]
  <2>1. PICK b : loaded' = [loaded EXCEPT ![pos] = b]
    BY DEF drop
  <2> QED BY <2>1 DEF ControlInv, CountsFit
<1>3. RecordNamesItsBall'
  <2>1. ASSUME NEW i \in DOMAIN manifest
        PROVE  manifest[i].slot \in Slots /\ manifest[i].slot # pos
    <3>1. /\ i \in 1..storageSlot /\ manifest[i].slot = i - 1 /\ storageSlot \in Slots
      BY <1>1 DEF ControlInv, BooksTyped, BooksInOrder
    <3> QED BY <1>1, <3>1 DEF Slots, SlotCount
  <2> QED BY <1>1, <1>2, <2>1 DEF CardInv, RecordNamesItsBall, Under
<1>4. ~late' => OneAnswer'
  BY <1>1 DEF CardInv, OneAnswer
<1> QED BY <1>3, <1>4 DEF CardInv

LEMMA StepCard ==
    ASSUME ControlInv, MachineInv, CardInv, [Next]_vars
    PROVE  CardInv'
<1> USE DEF storeVars, readVars, slotVars, worldVars, readerVars
<1>1. CASE UNCHANGED storeVars
  BY <1>1, CardCalm
<1>2. CASE BeginStore
  BY <1>2, CardCalm
  DEF BeginStore, begin_store, to, ControlInv, StoreInHandler
<1>3. CASE Storing
  BY <1>3, CardSteps DEF Storing
<1>4. CASE StoreSeesStop
  BY <1>4, CardCalm DEF StoreSeesStop, allButMotor
<1>5. CASE StoreFailed \/ StoreDone
  BY <1>5, CardCalm DEF StoreFailed, StoreDone, slot_used, to
<1>6. CASE ArmCompleted /\ arm = 12 /\ drop(attempts)
  BY <1>6, DropKeeps
<1>7. CASE StoreDevices
  BY <1>7, CardDeviceSteps
<1> QED BY <1>1, <1>2, <1>3, <1>4, <1>5, <1>6, <1>7
        DEF Next, Mission, HandleChassis, ArmFail, ArmOk, HandleVision,
            AckProcessed, WakeSettled, SettleOver, Chassis, Devices, ArmNoise, User,
            Over, vars

\* As long as no card answer came after its wait had run out, every record
\* that names a cell names the one on the card of the ball in its slot.
THEOREM CardsMatch == Spec => []RecordNamesItsBall
<1>1. PlatformInit => CardInv
  BY DEF PlatformInit, StoreInit, CardInv, RecordNamesItsBall, OneAnswer
<1>2. ControlInv /\ MachineInv /\ CardInv /\ [Next]_vars => CardInv'
  BY StepCard
<1>3. CardInv => RecordNamesItsBall
  BY DEF CardInv
<1> QED BY <1>1, <1>2, <1>3, ControlInvariant, MachineInvariant, PTL DEF Spec
=============================================================================

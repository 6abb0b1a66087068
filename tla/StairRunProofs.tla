--------------------------- MODULE StairRunProofs ---------------------------
(***************************************************************************)
(* Theorems about the staircase, for every value of the constants: queue   *)
(* depths, number of stops, ball limit, side, faults or none.  Inductive   *)
(* of StairRunInv is the invariant; MissionProofs says what each building  *)
(* block of MissionCore does to it, and one step per action does the rest. *)
(***************************************************************************)
EXTENDS StairRunInv, MissionProofs

-----------------------------------------------------------------------------
(* The invariant, regrouped by who changes what.                           *)

StairTyped == layer \in Layers \cup {"NONE"} /\ balls \in Nat

Parts ==
    /\ CtxTyped(StairStates) /\ LoopTyped /\ StairTyped /\ ChassisTypeOK /\ LegInRange
    /\ SafeRecord(vis) /\ StopNoted(vis)
    /\ DoneMeansAnswered /\ LayerKnown /\ StoringState

LEMMA Regroup == (Inductive => Parts) /\ (Parts' => Inductive')
BY DEF Inductive, Parts, TypeOK, CoreTypeOK, CtxTyped, LoopTyped, StairTyped,
       SafeRecord, StairStates, RestStates

\* No step but a handler's touches the context: then it stays as it was.
LEMMA ContextKept ==
    ASSUME Parts, UNCHANGED ctxVars
    PROVE  /\ CtxTyped(StairStates)' /\ SafeRecord(vis)' /\ StopNoted(vis)' /\ StopOnly
           /\ UNCHANGED layer => LayerKnown'
<1>1. Len(cmdQ') = Len(cmdQ) /\ vis' = vis /\ state' = state
  BY DEF ctxVars
<1>2. CtxTyped(StairStates)'
  BY DEF Parts, ctxVars, CtxTyped, QueueTyped
<1>3. StopOnly
  BY <1>1 DEF Parts, StopOnly, CtxTyped, QueueTyped
<1>4. SafeRecord(vis)' /\ StopNoted(vis)'
  BY <1>1 DEF Parts, SafeRecord, StopNoted
<1>5. UNCHANGED layer => LayerKnown'
  BY <1>1 DEF Parts, LayerKnown
<1> QED BY <1>2, <1>3, <1>4, <1>5

\* A handler that opens no session keeps what is known about the layer, as
\* long as the state it goes to needs the layer no more than the one it left.
LEMMA LayerKept ==
    ASSUME LayerKnown, UNCHANGED layer, NEW s,
           state' \in {s, state, "FAULT"}, s # "WAIT_STAIRS",
           s \in LayerNeeded => state \in LayerNeeded \/ vis.phase # "IDLE",
           vis.phase = "IDLE" => vis'.phase = "IDLE"
    PROVE  LayerKnown'
BY DEF LayerKnown, LayerNeeded

-----------------------------------------------------------------------------
(* One lemma per stage of the main loop.                                   *)

LEMMA LoopSteps ==
    ASSUME Parts,
           Wake \/ WakeLate(Timed) \/ CommandsDone \/ EventsDone \/ ArmDone
             \/ VisionDone \/ NothingToProcess,
           UNCHANGED <<stairVars, chassisVars>>
    PROVE  Parts' /\ StopOnly
<1>1. UNCHANGED ctxVars
  BY DEF Wake, WakeLate, CommandsDone, EventsDone, ArmDone, VisionDone,
         NothingToProcess
<1>2. /\ CtxTyped(StairStates)' /\ SafeRecord(vis)' /\ StopNoted(vis)' /\ StopOnly
      /\ LayerKnown'
  BY <1>1, ContextKept DEF stairVars
<1>3. vis' = vis /\ state' = state
  BY <1>1 DEF ctxVars
<1>4. LoopTyped' /\ DoneMeansAnswered' /\ StoringState'
  <2> USE <1>3 DEF Parts, LoopTyped, DoneMeansAnswered, DoneSeen, StoringState,
                   LoopStages, goto, Answered
  <2>1. CASE Wake          BY <2>1 DEF Wake
  <2>2. CASE WakeLate(Timed)  BY <2>2 DEF WakeLate
  <2>3. CASE CommandsDone  BY <2>3 DEF CommandsDone
  <2>4. CASE EventsDone    BY <2>4 DEF EventsDone
  <2>5. CASE ArmDone       BY <2>5 DEF ArmDone
  <2>6. CASE VisionDone    BY <2>6 DEF VisionDone
  <2>7. CASE NothingToProcess  BY <2>7 DEF NothingToProcess
  <2> QED BY <2>1, <2>2, <2>3, <2>4, <2>5, <2>6, <2>7
<1>5. StairTyped' /\ ChassisTypeOK' /\ LegInRange'
  BY DEF Parts, StairTyped, stairVars, chassisVars, sweepVars, ChassisTypeOK,
         LegInRange
<1> QED BY <1>2, <1>4, <1>5 DEF Parts
\* What is left of Parts once the handler is known to be safe.
LEMMA HandlerParts ==
    ASSUME Parts, NEW v, Handled(StairStates, v), LayerKnown', StairTyped',
           UNCHANGED <<flags, chassisVars>>,
           userQ' \in 0..CommandDepth, UNCHANGED stops, got' \subseteq got,
           pc' \in LoopStages, StoringState',
           \/ /\ Answered(vis) => Answered(v)
              /\ \/ pc' \in {"process", "timeout", "wait"}
                 \/ pc \in {"commands", "events", "arm", "storing", "storeStopped"}
           \/ DoneSeen /\ pc' = "process"
    PROVE  Parts'
<1>1. Answered(v) => Answered(vis')
  BY DEF Handled
<1>2. DoneMeansAnswered'
  BY <1>1, DoneKept DEF Parts
<1>3. LoopTyped'
  BY DEF Parts, LoopTyped
<1>4. ChassisTypeOK' /\ LegInRange'
  BY DEF Parts, chassisVars, sweepVars, ChassisTypeOK, LegInRange
<1> QED BY <1>2, <1>3, <1>4 DEF Parts, Handled

LEMMA CommandSteps ==
    ASSUME Parts, \/ HandleCommand /\ UNCHANGED <<stairVars, chassisVars>>
                  \/ StoreSeesStop
    PROVE  Parts' /\ StopOnly
<1> USE DEF Parts
<1>1. /\ mission_handle_command /\ userQ' = userQ - 1 /\ userQ > 0
      /\ UNCHANGED <<flags, stops, got, stairVars, chassisVars>>
      /\ \/ pc = "commands" /\ pc' = pc
         \/ pc \in {"storing", "storeStopped"} /\ pc' = "storeStopped"
  BY DEF HandleCommand, StoreSeesStop
<1>2. /\ Handled(StairStates, vis) /\ StopOnly
      /\ state' \in {state, "STOPPING", "FAULT"}
      /\ vis.phase = "IDLE" <=> vis'.phase = "IDLE"
  <2>1. CtxTyped(StairStates) /\ SafeRecord(vis) /\ StopNoted(vis)
    OBVIOUS
  <2> HIDE DEF Parts
  <2> QED BY <1>1, <2>1, CommandSafe
<1>3. LayerKnown'
  <2>1. LayerKnown /\ UNCHANGED layer
    BY <1>1 DEF stairVars
  <2>2. /\ state' \in {"STOPPING", state, "FAULT"}
        /\ vis.phase = "IDLE" => vis'.phase = "IDLE"
        /\ "STOPPING" \notin LayerNeeded
    BY <1>2 DEF LayerNeeded
  <2> HIDE DEF Parts
  <2> QED BY <2>1, <2>2, LayerKept
<1>4. userQ' \in 0..CommandDepth
  BY <1>1, BudgetAssumption DEF LoopTyped
<1>5. pc' \in LoopStages /\ StoringState'
  BY <1>1 DEF LoopStages, StoringState
<1>6. StairTyped'
  BY <1>1 DEF StairTyped, stairVars
<1>7. UNCHANGED <<flags, chassisVars>> /\ UNCHANGED stops /\ got' \subseteq got
  BY <1>1
<1>8. \/ pc' \in {"process", "timeout", "wait"}
      \/ pc \in {"commands", "events", "arm", "storing", "storeStopped"}
  BY <1>1
<1>9. Parts'
  BY <1>2, <1>3, <1>4, <1>5, <1>6, <1>7, <1>8, HandlerParts
<1> QED BY <1>2, <1>9

\* mission_handle_chassis, one step per branch.
LEMMA ChassisEventSafe ==
    ASSUME Parts, NEW e, mission_handle_chassis(e)
    PROVE  /\ Handled(StairStates, vis) /\ LayerKnown' /\ StairTyped' /\ OnlyStopSent
<1> USE DEF Parts
<1> DEFINE Goal == /\ Handled(StairStates, vis) /\ LayerKnown' /\ StairTyped'
                   /\ OnlyStopSent
<1>0. state \in StairStates
  BY DEF CtxTyped, StairStates, RestStates
<1>a. ASSUME StopOnly PROVE OnlyStopSent
  BY <1>a DEF StopOnly, OnlyStopSent
<1>b. ASSUME state \notin RestStates PROVE OnlyStopSent
  BY <1>b DEF OnlyStopSent
<1>c. ASSUME UNCHANGED stairVars PROVE StairTyped' /\ UNCHANGED layer
  BY <1>c DEF StairTyped, stairVars
<1>k. ASSUME keep(vis), UNCHANGED stairVars PROVE Goal
  <2>1. Handled(StairStates, vis) /\ StopOnly /\ state' = state /\ vis' = vis
    BY <1>0, <1>k, EnterSafe DEF keep, StopNoted
  <2>2. LayerKnown'
    BY <1>c, <1>k, <2>1 DEF LayerKnown
  <2> QED BY <1>a, <1>c, <1>k, <2>1, <2>2
<1>1. CASE OnStale(e)       BY <1>1, <1>k DEF OnStale
<1>2. CASE OnUnexpected(e)  BY <1>2, <1>k DEF OnUnexpected
<1>3. CASE OnFailure(e)
  <2>1. Now \in Contexts /\ Now.vis = vis
    BY DEF Now, Contexts, CtxTyped, SafeRecord
  <2>2. /\ Handled(StairStates, vis) /\ StopOnly /\ state' \in {state, "FAULT"}
        /\ vis.phase = "IDLE" <=> vis'.phase = "IDLE"
    BY <1>3, <2>1, FailSafe DEF OnFailure, Faults
  <2>3. LayerKnown'
    BY <1>3, <1>c, <2>2, LayerKept DEF OnFailure, LayerNeeded
  <2> QED BY <1>3, <1>a, <1>c, <2>2, <2>3 DEF OnFailure
<1>4. CASE OnStopped(e)
  <2>1. Handled(StairStates, vis) /\ StopOnly /\ state' = "STOPPED" /\ vis' = vis
    BY <1>4, EnterSafe DEF OnStopped, StopNoted, StairStates, RestStates
  <2>2. LayerKnown'
    BY <1>4, <1>c, <2>1, LayerKept DEF OnStopped, LayerNeeded
  <2> QED BY <1>4, <1>a, <1>c, <2>1, <2>2 DEF OnStopped
<1>5. CASE OnStairsReady(e)
  <2>1. /\ Handled(StairStates, vis) /\ StopOnly
        /\ state' \in {"STAIR_WAIT_POSE", "WAIT_STAIRS", "FAULT"}
        /\ vis.phase = "IDLE" <=> vis'.phase = "IDLE"
    BY <1>5, ArmSafe
    DEF OnStairsReady, StairStates, ArmStates, RestStates, Groups
  <2>2. LayerKnown' /\ StairTyped'
    BY <1>5, <2>1 DEF OnStairsReady, LayerKnown, LayerNeeded, StairTyped
  <2> QED BY <1>a, <2>1, <2>2
<1>6. CASE OnLayer(e)
  <2>1. layer' \in Layers /\ StairTyped' /\ state \in LayerStates
    BY <1>6 DEF OnLayer, stair_layer, Layers, StairTyped
  <2>2. layer' # "NONE" /\ state \notin RestStates /\ state # "WAIT_STAIRS"
    BY <2>1 DEF Layers, LayerStates, RestStates
  <2>3. Handled(StairStates, vis) /\ state' # "WAIT_STAIRS"
    <3>1. CASE stop_vision(vis, "STAIR_WAIT_LAYER")
      BY <3>1, <2>2, StopVisionSafe DEF StairStates
    <3>2. CASE start_stair_layer(vis, layer')
      <4>1. CASE send_chassis(vis, "CAM_READY", "STAIR_SCANNING")
        BY <4>1, <2>2, SendSafe DEF StairStates, RestStates, CommandTypes
      <4>2. CASE start_vision(vis, layer', "STAIR_WAIT_VISION_START")
        BY <4>2, <2>1, <2>2, VisionSafe
        DEF StairStates, RestStates, Scenes, Layers
      <4> QED BY <3>2, <4>1, <4>2, <2>2 DEF start_stair_layer
    <3>3. CASE keep(vis)
      BY <3>3, <1>0, <2>2, EnterSafe DEF keep, StopNoted
    <3> QED BY <1>6, <3>1, <3>2, <3>3 DEF OnLayer
  <2> QED BY <1>b, <2>1, <2>2, <2>3 DEF LayerKnown
<1>7. CASE OnPause(e)
  <2>1. Handled(StairStates, vis) /\ (vis.phase = "IDLE" => vis'.phase = "IDLE")
        /\ state' \in {"STAIR_WAIT_ACK", "STAIR_WAIT_GRASP", state, "FAULT"}
    <3>1. CASE enter_state(vis, "STAIR_WAIT_ACK")
      BY <3>1, <1>7, EnterSafe DEF OnPause, StairStates, RestStates
    <3>2. CASE grasp(vis)
      BY <3>2, ArmSafe
      DEF grasp, mission_stair_grasp_group, Groups, StairStates, ArmStates,
          RestStates
    <3> QED BY <1>7, <3>1, <3>2 DEF OnPause
  <2>2. LayerKnown'
    BY <1>7, <1>c, <2>1 DEF OnPause, LayerKnown, LayerNeeded
  <2> QED BY <1>7, <1>b, <1>c, <2>1, <2>2 DEF OnPause, RestStates
<1>8. CASE OnResume(e)
  <2>1. Handled(StairStates, vis) /\ StopOnly /\ state' = "STAIR_SCANNING" /\ vis' = vis
    BY <1>8, EnterSafe DEF OnResume, StairStates, RestStates
  <2>2. LayerKnown'
    BY <1>8, <1>c, <2>1 DEF OnResume, LayerKnown, LayerNeeded
  <2> QED BY <1>8, <1>a, <1>c, <2>1, <2>2 DEF OnResume
<1>9. CASE OnFinished(e)
  <2>1. /\ Handled(StairStates, vis) /\ StopOnly
        /\ state' \in {"STAIR_WAIT_VISION_END", "STAIR_WAIT_SAFE", state,
                       "FAULT"}
        /\ vis.phase = "IDLE" <=> vis'.phase = "IDLE"
    <3>1. CASE stop_vision(vis, "STAIR_WAIT_VISION_END")
      BY <3>1, StopVisionSafe DEF StairStates
    <3>2. CASE start_stair_exit(vis)
      BY <3>2, ArmSafe
      DEF start_stair_exit, Groups, StairStates, ArmStates, RestStates
    <3> QED BY <1>9, <3>1, <3>2 DEF OnFinished
  <2>2. LayerKnown'
    BY <1>9, <1>c, <2>1 DEF OnFinished, LayerKnown, LayerNeeded
  <2> QED BY <1>9, <1>a, <1>c, <2>1, <2>2 DEF OnFinished
<1> QED
  BY <1>1, <1>2, <1>3, <1>4, <1>5, <1>6, <1>7, <1>8, <1>9
  DEF mission_handle_chassis
LEMMA HandleChassisStep ==
    ASSUME Parts, HandleChassis
    PROVE  Parts' /\ OnlyStopSent
<1>1. PICK e : mission_handle_chassis(e)
  BY DEF HandleChassis
<1>2. /\ Handled(StairStates, vis) /\ LayerKnown' /\ StairTyped' /\ OnlyStopSent
  BY <1>1, ChassisEventSafe
<1>3. pc = "events" /\ UNCHANGED <<flags, loopVars, chassisVars>>
  BY DEF HandleChassis
<1>4. userQ' = userQ /\ stops' = stops /\ got' = got /\ pc' = pc
  BY <1>3 DEF loopVars
<1>5. Parts'
  BY <1>2, <1>3, <1>4, HandlerParts DEF Parts, LoopTyped, StoringState
<1> QED BY <1>2, <1>5

\* Starting on a layer: wait for one, release the base, or open a session.
LEMMA StartLayerSafe ==
    ASSUME CtxTyped(StairStates), NEW v, SafeRecord(v), StopNoted(v), UNCHANGED layer,
           layer \in Layers \cup {"NONE"}, layer = "NONE" => v.phase = "IDLE",
           state # "WAIT_STAIRS", start_stair_layer(v, layer)
    PROVE  Handled(StairStates, v) /\ LayerKnown'
<1>1. CASE layer = "NONE" /\ enter_state(v, "STAIR_WAIT_LAYER")
  <2>1. Handled(StairStates, v) /\ state' = "STAIR_WAIT_LAYER" /\ vis' = v
    BY <1>1, EnterSafe DEF StairStates, RestStates
  <2> QED BY <1>1, <2>1 DEF LayerKnown, LayerNeeded
<1>2. CASE layer # "NONE" /\ send_chassis(v, "CAM_READY", "STAIR_SCANNING")
  <2>1. Handled(StairStates, v) /\ state' \in {"STAIR_SCANNING", state, "FAULT"}
    BY <1>2, SendSafe DEF StairStates, RestStates, CommandTypes
  <2> QED BY <1>2, <2>1 DEF LayerKnown
<1>3. CASE layer # "NONE" /\ start_vision(v, layer, "STAIR_WAIT_VISION_START")
  <2>1. Handled(StairStates, v) /\ state' \in {"STAIR_WAIT_VISION_START", state, "FAULT"}
    BY <1>3, VisionSafe DEF StairStates, RestStates, Scenes, Layers
  <2> QED BY <1>3, <2>1 DEF LayerKnown
<1> QED BY <1>1, <1>2, <1>3 DEF start_stair_layer

\* A handler that leaves the context alone, and one that fails.
LEMMA KeepSafe ==
    ASSUME CtxTyped(StairStates), LayerKnown, NEW v, SafeRecord(v), StopNoted(v),
           v.phase = vis.phase, keep(v), UNCHANGED layer
    PROVE  Handled(StairStates, v) /\ LayerKnown' /\ OnlyStopSent
<1>1. Handled(StairStates, v) /\ StopOnly /\ state' = state /\ vis' = v
  BY EnterSafe DEF keep, StopNoted, CtxTyped
<1> QED BY <1>1 DEF LayerKnown, StopOnly, OnlyStopSent

LEMMA FaultSafe ==
    ASSUME CtxTyped(StairStates), LayerKnown, NEW v, SafeRecord(v), StopNoted(v),
           v.phase = vis.phase, NEW f \in Faults, mission_fail(With(v), f),
           UNCHANGED layer
    PROVE  Handled(StairStates, v) /\ LayerKnown' /\ OnlyStopSent
<1>1. With(v) \in Contexts /\ With(v).vis = v
  BY WithContext DEF SafeRecord, CtxTyped
<1>2. /\ Handled(StairStates, v) /\ StopOnly /\ state' \in {state, "FAULT"}
      /\ v.phase = "IDLE" <=> vis'.phase = "IDLE"
  BY <1>1, FailSafe
<1> QED BY <1>2 DEF LayerKnown, LayerNeeded, StopOnly, OnlyStopSent

LEMMA NowIsWith == ASSUME Parts PROVE Now = With(vis)
BY DEF Now, With

\* mission_handle_arm and the storage it starts.
LEMMA ArmSteps ==
    ASSUME Parts, ArmFail \/ ArmOk \/ BeginStore \/ StoreDone
                    \/ StoreFailed \/ StoreGivesUp
    PROVE  Parts' /\ OnlyStopSent
<1> USE DEF Parts
<1> DEFINE Goal == Handled(StairStates, vis) /\ LayerKnown' /\ StairTyped' /\ OnlyStopSent
<1>p. SUFFICES Goal
  <2> HIDE DEF Goal
  <2>1. /\ pc \in {"arm", "storing", "storeStopped"}
        /\ UNCHANGED <<flags, chassisVars>>
        /\ userQ' = userQ /\ stops' = stops /\ got' = got
    BY DEF ArmFail, ArmOk, BeginStore, StoreDone, StoreFailed, StoreGivesUp,
           goto
  <2>2. pc' \in LoopStages /\ StoringState'
    <3>1. CASE BeginStore
      BY <3>1 DEF BeginStore, goto, enter_state, LoopStages, StoringState
    <3>2. CASE ~BeginStore
      BY <3>2 DEF ArmFail, ArmOk, StoreDone, StoreFailed, StoreGivesUp, goto,
                  LoopStages, StoringState
    <3> QED BY <3>1, <3>2
  <2>3. ASSUME Goal PROVE Parts'
    BY <2>1, <2>2, <2>3, HandlerParts DEF LoopTyped, Goal
  <2> QED BY <2>3 DEF Goal
<1>n. Now = With(vis)
  BY NowIsWith
<1>s. ASSUME UNCHANGED stairVars PROVE StairTyped' /\ UNCHANGED layer
  BY <1>s DEF StairTyped, stairVars
<1>r. ASSUME state \notin RestStates PROVE OnlyStopSent
  BY <1>r DEF OnlyStopSent
<1>1. CASE ArmFail
  <2>1. UNCHANGED stairVars /\ (mission_fail(Now, "ARM") \/ keep(vis))
    BY <1>1 DEF ArmFail
  <2> QED BY <2>1, <1>n, <1>s, KeepSafe, FaultSafe DEF Faults
<1>2. CASE ArmOk
  <2>0. UNCHANGED stairVars /\ arm_next /\ UNCHANGED layer /\ StairTyped'
    BY <1>2, <1>s DEF ArmOk
  <2>1. CASE state = "STAIR_WAIT_POSE" /\ start_stair_layer(vis, layer)
    <3>1. layer = "NONE" => vis.phase = "IDLE"
      BY DEF LayerKnown
    <3>2. Handled(StairStates, vis) /\ LayerKnown'
      BY <2>0, <2>1, <3>1, StartLayerSafe DEF StairTyped
    <3> QED BY <1>r, <2>0, <2>1, <3>2 DEF RestStates
  <2>2. CASE state = "STAIR_WAIT_GRASP" /\ start_arm(vis, 13, "STAIR_WAIT_RETURN")
    <3>1. /\ Handled(StairStates, vis) /\ StopOnly
          /\ state' \in {"STAIR_WAIT_RETURN", state, "FAULT"}
          /\ vis.phase = "IDLE" <=> vis'.phase = "IDLE"
      BY <2>2, ArmSafe DEF Groups, StairStates, ArmStates, RestStates
    <3>2. LayerKnown'
      BY <2>0, <2>2, <3>1, LayerKept DEF LayerNeeded
    <3> QED BY <1>r, <2>0, <2>2, <3>1, <3>2 DEF RestStates
  <2>3. CASE /\ state = "STAIR_WAIT_SAFE"
             /\ send_new_stage(vis, "GO_SMALL_DISC", "WAIT_SMALL_DISC")
    <3>1. /\ Handled(StairStates, vis) /\ state' \in {"WAIT_SMALL_DISC", state, "FAULT"}
          /\ vis.phase = "IDLE" <=> vis'.phase = "IDLE"
      BY <2>3, NewStageSafe DEF StairStates, RestStates, CommandTypes
    <3>2. LayerKnown'
      BY <2>0, <2>3, <3>1, LayerKept DEF LayerNeeded
    <3> QED BY <1>r, <2>0, <2>3, <3>1, <3>2 DEF RestStates
  <2>4. CASE keep(vis)
    BY <2>0, <2>4, KeepSafe
  <2> QED BY <2>0, <2>1, <2>2, <2>3, <2>4 DEF arm_next
<1>3. CASE BeginStore
  <2>1. /\ UNCHANGED stairVars /\ state = "STAIR_WAIT_RETURN"
        /\ enter_state(vis, "STAIR_WAIT_STORAGE")
    BY <1>3 DEF BeginStore
  <2>2. Handled(StairStates, vis) /\ state' = "STAIR_WAIT_STORAGE" /\ vis' = vis
    BY <2>1, EnterSafe DEF StairStates, RestStates
  <2>3. LayerKnown'
    BY <1>s, <2>1, <2>2 DEF LayerKnown, LayerNeeded
  <2> QED BY <1>r, <1>s, <2>1, <2>2, <2>3 DEF RestStates
<1>4. CASE StoreDone
  <2>1. /\ state = "STAIR_WAIT_STORAGE" /\ UNCHANGED layer
        /\ balls' = balls + 1
    BY <1>4 DEF StoreDone, StoringState
  <2>2. layer \in Layers /\ StairTyped'
    BY <2>1 DEF LayerKnown, LayerNeeded, StairTyped
  <2>3. Handled(StairStates, vis) /\ state' # "WAIT_STAIRS"
    <3>1. CASE send_chassis(vis, "STAIR_RESUME", "STAIR_WAIT_RESUME")
      BY <2>1, <3>1, SendSafe DEF StairStates, RestStates, CommandTypes
    <3>2. CASE start_vision(vis, layer, "STAIR_WAIT_VISION_RESUME")
      BY <2>1, <2>2, <3>2, VisionSafe
      DEF StairStates, RestStates, Scenes, Layers
    <3> QED BY <1>4, <3>1, <3>2 DEF StoreDone
  <2>4. LayerKnown'
    BY <2>1, <2>2, <2>3 DEF LayerKnown, Layers
  <2> QED BY <1>r, <2>1, <2>2, <2>3, <2>4 DEF RestStates
<1>5. CASE StoreFailed \/ StoreGivesUp
  <2>1. UNCHANGED stairVars /\ mission_fail(Now, "STORAGE")
    BY <1>5 DEF StoreFailed, StoreGivesUp
  <2> QED BY <2>1, <1>n, <1>s, FaultSafe DEF Faults
<1> QED BY <1>1, <1>2, <1>3, <1>4, <1>5
\* mission_handle_vision, one step per branch.
LEMMA VisionSteps ==
    ASSUME Parts, HandleVision
    PROVE  Parts' /\ OnlyStopSent
<1> USE DEF Parts
<1> DEFINE Goal == Handled(StairStates, Taken) /\ LayerKnown' /\ OnlyStopSent
<1>0. /\ DoneSeen /\ pc' = "process" /\ mission_handle_vision
      /\ UNCHANGED <<flags, stairVars, chassisVars>>
      /\ userQ' = userQ /\ stops' = stops /\ got' = got /\ layer' = layer
  BY DEF HandleVision, DoneSeen, goto, stairVars
<1>t. /\ SafeRecord(Taken) /\ StopNoted(Taken) /\ ~Busy(Taken)
      /\ Taken.phase = vis.phase /\ Taken.scene = vis.scene
      /\ Taken.stopReq = vis.stopReq
  BY <1>0, TakenSafe DEF DoneMeansAnswered
<1>a. ~Answered(Taken)
  BY <1>t DEF Busy, Answered
<1>p. SUFFICES Goal
  <2> HIDE DEF Goal
  <2>1. pc' \in LoopStages /\ StoringState' /\ StairTyped'
    BY <1>0 DEF LoopStages, StoringState, StairTyped, stairVars
  <2>2. ASSUME Goal PROVE Parts'
    BY <1>0, <2>1, <2>2, HandlerParts DEF LoopTyped, Goal
  <2> QED BY <2>2 DEF Goal
<1>r. ASSUME state \notin RestStates PROVE OnlyStopSent
  BY <1>r DEF OnlyStopSent
<1>1. CASE DeferredStop
  <2> DEFINE v == [Taken EXCEPT !.stopReq = FALSE]
  <2>1. /\ SafeRecord(v) /\ v.phase = vis.phase
        /\ stop_vision(v, state) /\ state \in StairStates
    BY <1>1, <1>t DEF DeferredStop, SafeRecord, VisionType, Busy, CtxTyped,
                       StairStates, RestStates
  <2> HIDE DEF v
  <2>2. /\ Handled(StairStates, v) /\ StopOnly /\ state' \in {state, "FAULT"}
        /\ v.phase = "IDLE" <=> vis'.phase = "IDLE"
    BY <2>1, StopVisionSafe
  <2>3. LayerKnown'
    BY <1>0, <2>1, <2>2 DEF LayerKnown, LayerNeeded
  <2> QED BY <1>a, <2>2, <2>3 DEF Handled, StopOnly, OnlyStopSent
<1>2. CASE QuietListen \/ AckSent \/ EventIgnored
  <2>1. keep(Taken)
    BY <1>2 DEF QuietListen, AckSent, EventIgnored
  <2> QED BY <1>0, <1>t, <2>1, KeepSafe
<1>3. CASE BusFault \/ WrongReply
  <2>1. mission_fail(With(Taken), "VISION")
    BY <1>3 DEF BusFault, WrongReply
  <2> QED BY <1>0, <1>t, <2>1, FaultSafe DEF Faults
<1>4. CASE SessionStopped
  <2> DEFINE v == mission_reset_vision(Taken)
  <2>1. /\ SafeRecord(v) /\ v.phase = "IDLE" /\ StopNoted(v)
    BY <1>t DEF mission_reset_vision, SafeRecord, VisionType, Phases, Scenes,
                Busy, StopNoted
  <2>2. vis.phase = "STOPPING" /\ layer \in Layers
    BY <1>4 DEF SessionStopped, Replied, LayerKnown, StairTyped
  <2>3. \/ state = "STAIR_WAIT_LAYER" /\ start_stair_layer(v, layer)
        \/ state = "STAIR_WAIT_VISION_END" /\ start_stair_exit(v)
        \/ keep(v)
    BY <1>4 DEF SessionStopped
  <2> HIDE DEF v
  <2>4. Handled(StairStates, v) /\ LayerKnown' /\ OnlyStopSent
    <3>1. CASE state = "STAIR_WAIT_LAYER" /\ start_stair_layer(v, layer)
      BY <1>0, <1>r, <2>1, <2>2, <3>1, StartLayerSafe DEF RestStates
    <3>2. CASE state = "STAIR_WAIT_VISION_END" /\ start_stair_exit(v)
      <4>1. Handled(StairStates, v) /\ state' \in {"STAIR_WAIT_SAFE", state, "FAULT"}
        BY <2>1, <3>2, ArmSafe
        DEF start_stair_exit, Groups, StairStates, ArmStates, RestStates
      <4> QED BY <1>0, <1>r, <2>2, <3>2, <4>1
              DEF LayerKnown, Layers, RestStates
    <3>3. CASE keep(v)
      <4>1. Handled(StairStates, v) /\ StopOnly /\ state' = state /\ vis' = v
        BY <2>1, <3>3, EnterSafe DEF keep, CtxTyped
      <4> QED BY <1>0, <2>1, <2>2, <4>1
              DEF LayerKnown, StopOnly, OnlyStopSent, Layers
    <3> QED BY <2>3, <3>1, <3>2, <3>3
  <2> QED BY <1>a, <2>4 DEF Handled
<1>5. CASE SessionReady
  <2> DEFINE v == [Taken EXCEPT !.phase = "LISTENING"]
  <2>1. SafeRecord(v) /\ StopNoted(v)
    BY <1>t, <1>5 DEF SessionReady, Replied, SafeRecord, VisionType, Phases,
                      Busy, StopNoted
  <2>2. layer # "NONE" /\ state # "WAIT_STAIRS" /\ state \notin RestStates
    BY <1>5 DEF SessionReady, Replied, LayerKnown, StopNoted, StopWasWaiting
  <2>3. \/ send_chassis(v, "STAIR_RESUME", "STAIR_WAIT_RESUME")
        \/ send_chassis(v, "CAM_READY", "STAIR_SCANNING")
    BY <1>5 DEF SessionReady
  <2> HIDE DEF v
  <2>4. /\ Handled(StairStates, v)
        /\ state' \in {"STAIR_WAIT_RESUME", "STAIR_SCANNING", state, "FAULT"}
    BY <2>1, <2>3, SendSafe DEF StairStates, RestStates, CommandTypes
  <2> QED BY <1>0, <1>a, <1>r, <2>2, <2>4 DEF Handled, LayerKnown
<1>6. CASE BallSeen
  <2>1. PICK ok \in submit_results(Taken) :
            IF ok THEN send_chassis(acking(TRUE), "STAIR_STOP", "STAIR_WAIT_PAUSE")
                  ELSE mission_fail(With(acking(FALSE)), "VISION")
    BY <1>6 DEF BallSeen
  <2>2. /\ vis.phase = "LISTENING" /\ state = "STAIR_SCANNING"
        /\ ok \in BOOLEAN /\ layer # "NONE"
    BY <1>6 DEF BallSeen, Replied, submit_results, LayerKnown
  <2> DEFINE v == acking(ok)
             w == [Taken EXCEPT !.phase = "ACKING"]
  <2>3. /\ w \in VisionType /\ ~Busy(w) /\ w.phase = "ACKING"
        /\ w.scene # "NONE" /\ ok \in submit_results(w)
    BY <1>t, <2>2 DEF SafeRecord, VisionType, Phases, Busy, submit_results
  <2>4. v = mission_submit_vision_transfer(w, "ACK", ok)
    BY DEF acking
  <2>5. SafeRecord(v) /\ v.phase = "ACKING"
    <3> HIDE DEF v, w
    <3> QED BY <2>3, <2>4, SubmitSafe
  <2>6. StopNoted(v)
    BY <2>5 DEF StopNoted
  <2>7. \/ send_chassis(v, "STAIR_STOP", "STAIR_WAIT_PAUSE")
        \/ mission_fail(With(v), "VISION")
    BY <2>1, <2>2
  <2> HIDE DEF v, w
  <2>8. Handled(StairStates, v) /\ LayerKnown'
    <3>1. CASE send_chassis(v, "STAIR_STOP", "STAIR_WAIT_PAUSE")
      <4>1. Handled(StairStates, v) /\ state' \in {"STAIR_WAIT_PAUSE", state, "FAULT"}
        BY <2>5, <2>6, <3>1, SendSafe DEF StairStates, RestStates, CommandTypes
      <4> QED BY <1>0, <2>2, <4>1 DEF LayerKnown
    <3>2. CASE mission_fail(With(v), "VISION")
      <4>1. With(v) \in Contexts /\ With(v).vis = v
        BY <2>5, WithContext DEF SafeRecord, CtxTyped
      <4>2. Handled(StairStates, v) /\ state' \in {state, "FAULT"}
        BY <2>5, <2>6, <3>2, <4>1, FailSafe DEF Faults
      <4> QED BY <1>0, <2>2, <4>2 DEF LayerKnown
    <3> QED BY <2>7, <3>1, <3>2
  <2> QED BY <1>a, <1>r, <2>2, <2>8 DEF Handled, RestStates
<1> QED BY <1>0, <1>1, <1>2, <1>3, <1>4, <1>5, <1>6 DEF mission_handle_vision
\* mission_vision_process and mission_check_timeout.
LEMMA ProcessSteps ==
    ASSUME Parts,
           ReadNext \/ AckProcessed \/ CheckTimeout(Timed),
           UNCHANGED <<stairVars, chassisVars>>
    PROVE  Parts' /\ OnlyStopSent
<1> USE DEF Parts
<1>0. /\ pc' \in {"timeout", "wait"} /\ got' \subseteq got
      /\ UNCHANGED <<flags, userQ, stops, stairVars, chassisVars>>
      /\ layer' = layer
  BY DEF ReadNext, CheckTimeout, AckProcessed, goto, stairVars
<1>p. SUFFICES ASSUME TRUE
               PROVE  \E v : /\ Handled(StairStates, v) /\ (Answered(vis) => Answered(v))
                             /\ LayerKnown' /\ OnlyStopSent
  <2>1. pc' \in LoopStages /\ StoringState' /\ StairTyped'
    BY <1>0 DEF LoopStages, StoringState, StairTyped, stairVars
  <2>2. ASSUME NEW v, Handled(StairStates, v), Answered(vis) => Answered(v), LayerKnown'
        PROVE  Parts'
    BY <1>0, <2>1, <2>2, HandlerParts DEF LoopTyped
  <2> QED BY <2>2
<1>1. CASE ReadNext
  <2>1. PICK ok \in submit_results(vis) :
            keep(mission_submit_vision_transfer(vis, "READ", ok))
    BY <1>1 DEF ReadNext
  <2>2. ~Busy(vis) /\ vis.phase = "LISTENING" /\ ~Answered(vis)
    BY <1>1 DEF ReadNext, Busy, Answered
  <2> DEFINE v == mission_submit_vision_transfer(vis, "READ", ok)
  <2>3. SafeRecord(v) /\ v.phase = vis.phase
    BY <2>1, <2>2, SubmitSafe DEF SafeRecord
  <2>4. keep(v)
    BY <2>1
  <2> HIDE DEF v
  <2>5. StopNoted(v)
    BY <2>2, <2>3 DEF StopNoted
  <2> QED BY <1>0, <2>2, <2>3, <2>4, <2>5, KeepSafe
<1>2. CASE CheckTimeout(Timed)
  <2>1. keep(vis) \/ mission_fail(With(vis), "TIMEOUT")
    BY <1>2, NowIsWith DEF CheckTimeout
  <2> QED BY <1>0, <2>1, KeepSafe, FaultSafe DEF Faults
<1>3. CASE AckProcessed
  <2> DEFINE v == mission_reset_vision(vis)
  <2>1. /\ SafeRecord(v) /\ StopNoted(v) /\ v.phase = "IDLE"
        /\ ~Answered(vis)
    BY <1>3 DEF AckProcessed, mission_reset_vision, SafeRecord, VisionType,
                Phases, Scenes, Busy, StopNoted, Answered
  <2>2. layer # "NONE" /\ state # "WAIT_STAIRS"
    BY <1>3 DEF AckProcessed, LayerKnown
  <2>3. (state = "STAIR_WAIT_ACK" /\ grasp(v)) \/ keep(v)
    BY <1>3 DEF AckProcessed
  <2> HIDE DEF v
  <2>4. Handled(StairStates, v) /\ LayerKnown' /\ OnlyStopSent
    <3>1. CASE state = "STAIR_WAIT_ACK" /\ grasp(v)
      <4>1. /\ Handled(StairStates, v) /\ StopOnly
            /\ state' \in {"STAIR_WAIT_GRASP", state, "FAULT"}
        BY <2>1, <3>1, ArmSafe
        DEF grasp, mission_stair_grasp_group, Groups, StairStates, ArmStates,
            RestStates
      <4> QED BY <1>0, <2>2, <4>1 DEF LayerKnown, StopOnly, OnlyStopSent
    <3>2. CASE keep(v)
      <4>1. Handled(StairStates, v) /\ StopOnly /\ state' = state
        BY <2>1, <3>2, EnterSafe DEF keep, CtxTyped
      <4> QED BY <1>0, <2>2, <4>1 DEF LayerKnown, StopOnly, OnlyStopSent
    <3> QED BY <2>3, <3>1, <3>2
  <2> QED BY <2>1, <2>4
<1> QED BY <1>1, <1>2, <1>3

-----------------------------------------------------------------------------
(* The chassis task takes commands, adds events and touches no context.    *)

\* What a step of the chassis task may do to the shared variables.
Takes == cmdQ' = cmdQ \/ (cmdQ # <<>> /\ cmdQ' = Tail(cmdQ))
Posts == flags' \in {flags, flags \cup {"EVENT"}}

LEMMA PostAdds ==
    ASSUME NEW type, NEW id, NEW ok, link_post(type, id, ok)
    PROVE  Posts
BY DEF link_post, Posts

LEMMA DefaultAdds ==
    ASSUME NEW c, cmd_default(c), driving \in BOOLEAN
    PROVE  Posts /\ driving' \in BOOLEAN
<1>1. CASE c.type = "STOP"
  BY <1>1, PostAdds DEF cmd_default
<1>2. CASE c.type # "STOP"
  BY <1>2 DEF cmd_default, Posts
<1> QED BY <1>1, <1>2

LEMMA HookTyped ==
    ASSUME ChassisTypeOK, LegInRange, QueueTyped, StairHook
    PROVE  ChassisTypeOK' /\ LegInRange' /\ Posts
<1> USE DEF ChassisTypeOK
<1>1. /\ cpc \in PollStages /\ leg' = leg /\ past' = past
      /\ sweepId' = sweepId /\ woken' = TRUE
  BY DEF StairHook
<1>2. /\ cpc' \in PollStages \cup {"body", "gone", "repost"}
      /\ moving' \in BOOLEAN /\ driving' \in BOOLEAN /\ Posts
      /\ paused' \in BOOLEAN /\ camReady' \in BOOLEAN
      /\ highCnt' \in {0, highCnt}
  <2>1. CASE HookStop
    BY <2>1, DefaultAdds DEF HookStop
  <2>2. CASE HookCamReady
    BY <1>1, <2>2 DEF HookCamReady, PollAgain, PollStages, Posts
  <2>3. CASE HookStairStop
    <3>1. /\ highCnt' = 0 /\ paused' = TRUE /\ PollAgain
          /\ driving' = (driving /\ (~moving \/ paused)) /\ camReady' = camReady
          /\ Posts
      BY <2>3, PostAdds DEF HookStairStop
    <3>2. driving' \in BOOLEAN
      BY <3>1
    <3> QED BY <1>1, <3>1, <3>2 DEF PollAgain, PollStages
  <2>4. CASE HookResume
    <3>1. Posts /\ paused' = FALSE /\ UNCHANGED <<driving, camReady, highCnt>>
          /\ (PollAgain \/ (cpc' = "repost" /\ UNCHANGED moving))
      BY <2>4, PostAdds DEF HookResume
    <3> QED BY <1>1, <3>1 DEF PollAgain, PollStages
  <2>5. CASE HookOther
    BY <1>1, <2>5 DEF HookOther, PollAgain, PollStages, Posts
  <2> QED BY <2>1, <2>2, <2>3, <2>4, <2>5 DEF StairHook
<1>3. LegInRange'
  BY <1>1, <1>2 DEF LegInRange, PollStages
<1> QED BY <1>1, <1>2, <1>3, EndHighAssumption DEF ChassisStages

LEMMA ChassisMoves ==
    ASSUME ChassisTypeOK, LegInRange, QueueTyped, ChassisNext
    PROVE  ChassisTypeOK' /\ LegInRange' /\ Posts /\ Takes
<1> USE DEF ChassisTypeOK
<1>1. CASE AwaitGo
  <2>1. NextCommand.id \in Nat
    <3>1. cmdQ \in Seq(Commands) /\ cmdQ # <<>>
      BY <1>1 DEF AwaitGo, TakeCommand, QueueTyped
    <3>2. Head(cmdQ) \in Commands
      BY <3>1
    <3> QED BY <3>2, IdMaxAssumption DEF NextCommand, Commands
  <2>2. CASE NextCommand.type = "GO_STAIRS"
    BY <1>1, <2>1, <2>2
    DEF AwaitGo, TakeCommand, Takes, Posts, ChassisStages, LegInRange
  <2>3. CASE NextCommand.type # "GO_STAIRS"
    BY <1>1, <2>3, DefaultAdds DEF AwaitGo, TakeCommand, Takes, LegInRange
  <2> QED BY <2>2, <2>3
<1>2. CASE RouteDone
  <2>1. /\ cpc = "route" /\ cpc' = "enter" /\ driving' = FALSE
        /\ UNCHANGED <<cmdQ, sweepVars>> /\ Posts
    BY <1>2, PostAdds DEF RouteDone
  <2>2. LegInRange'
    BY <2>1 DEF LegInRange, sweepVars
  <2> QED BY <2>1, <2>2 DEF sweepVars, Takes, ChassisStages
<1>3. CASE EnterLayer
  <2>1. /\ cpc = "enter" /\ cpc' = "ready" /\ leg' = leg + 1 /\ highCnt' = 0
        /\ past' = FALSE /\ camReady' = FALSE
        /\ driving' = (driving /\ ~moving)
        /\ UNCHANGED <<cmdQ, moving, paused, sweepId, woken>> /\ Posts
    BY <1>3, PostAdds DEF EnterLayer
  <2>2. driving' \in BOOLEAN
    BY <2>1
  <2>3. leg' \in 0..3 /\ LegInRange'
    BY <2>1 DEF LegInRange
  <2>4. cpc' \in ChassisStages /\ highCnt' \in 0..EndHighN
    BY <2>1, EndHighAssumption DEF ChassisStages, PollStages
  <2>5. sweepId' \in Nat /\ Takes
        /\ {past', moving', paused', camReady', woken'} \subseteq BOOLEAN
    BY <2>1 DEF Takes
  <2> QED BY <2>1, <2>2, <2>3, <2>4, <2>5
<1>4. CASE StairHook
  BY <1>4, HookTyped DEF StairHook, TakeCommand, Takes
<1>5. CASE Repost
  BY <1>5, PostAdds DEF Repost, sweepVars, Takes, ChassisStages, PollStages,
                        LegInRange
<1>6. CASE SettleOver \/ ScanTick \/ SkipPass \/ SweepError
  BY <1>6 DEF SettleOver, ScanTick, SkipPass, SweepError, sweepVars, linkVars,
              Takes, Posts, ChassisStages, PollStages, LegInRange
<1>7. CASE DriveLayer
  <2>1. /\ UNCHANGED <<cmdQ, sweepVars>> /\ leg < 3 /\ Posts
        /\ cpc' \in {"enter", "scan"} /\ driving' \in BOOLEAN
    BY <1>7 DEF DriveLayer, stair_drive, Posts
  <2> QED BY <2>1 DEF sweepVars, Takes, ChassisStages, PollStages, LegInRange
<1>8. CASE DriveLastLayer
  <2>1. /\ UNCHANGED <<cmdQ, leg, past, moving, paused, camReady, sweepId, woken>>
        /\ highCnt' \in 0..EndHighN
    BY <1>8, EndHighAssumption DEF DriveLastLayer
  <2>2. finish_sweep \/ stair_drive
    BY <1>8 DEF DriveLastLayer
  <2>3. Posts /\ cpc' \in {"gone", "scan"} /\ driving' \in BOOLEAN
    BY <2>2, PostAdds DEF finish_sweep, stair_drive, Posts
  <2> QED BY <2>1, <2>3 DEF Takes, ChassisStages, PollStages, LegInRange
<1>9. CASE AwaitNext
  <2>1. CASE NextCommand.type = "GO_SMALL_DISC"
    BY <1>9, <2>1
    DEF AwaitNext, TakeCommand, Takes, Posts, sweepVars, ChassisStages,
        LegInRange
  <2>2. CASE NextCommand.type # "GO_SMALL_DISC"
    BY <1>9, <2>2, DefaultAdds
    DEF AwaitNext, TakeCommand, Takes, sweepVars, LegInRange
  <2> QED BY <2>1, <2>2
<1> QED BY <1>1, <1>2, <1>3, <1>4, <1>5, <1>6, <1>7, <1>8, <1>9 DEF ChassisNext

LEMMA ChassisSteps ==
    ASSUME Parts, Chassis
    PROVE  Parts' /\ OnlyStopSent
<1> USE DEF Parts
<1>1. /\ UNCHANGED <<state, fault, requestId, activeArm, armHome, vis, arm,
                     loopVars, stairVars>>
      /\ ChassisNext
  BY DEF Chassis
<1>2. ChassisTypeOK' /\ LegInRange' /\ Posts /\ Takes
  BY <1>1, ChassisMoves DEF CtxTyped
<1>3. QueueTyped' /\ StopOnly
  <2>1. cmdQ \in Seq(Commands)
    BY DEF CtxTyped, QueueTyped
  <2>2. cmdQ' \in Seq(Commands) /\ Len(cmdQ') <= Len(cmdQ)
    BY <1>2, <2>1 DEF Takes
  <2> QED BY <2>1, <2>2 DEF QueueTyped, StopOnly
<1>4. CtxTyped(StairStates)' /\ SafeRecord(vis)' /\ StopNoted(vis)' /\ LayerKnown'
  BY <1>1, <1>3 DEF CtxTyped, SafeRecord, StopNoted, LayerKnown, stairVars
<1>5. LoopTyped' /\ StairTyped' /\ StoringState'
  BY <1>1, <1>2
  DEF LoopTyped, StairTyped, StoringState, Posts, FlagNames, loopVars, stairVars
<1>6. DoneMeansAnswered'
  BY <1>1, <1>2 DEF DoneMeansAnswered, DoneSeen, Answered, Posts, loopVars
<1> QED BY <1>2, <1>3, <1>4, <1>5, <1>6 DEF StopOnly, OnlyStopSent

-----------------------------------------------------------------------------
(* The user, the UART multiplexer, the arm and the floor.                  *)

LEMMA WorldSteps ==
    ASSUME Parts, World
    PROVE  Parts' /\ OnlyStopSent
<1> USE DEF Parts
<1>1. CASE SubmitStop /\ UNCHANGED <<stairVars, chassisVars>>
  <2>1. /\ UNCHANGED <<ctxVars, got, pc>>
        /\ userQ' = userQ + 1 /\ userQ < CommandDepth
        /\ stops' = stops + 1 /\ stops < StopBudget
        /\ flags' = flags \cup {"COMMAND"} /\ layer' = layer
    BY <1>1 DEF SubmitStop, stairVars
  <2>2. /\ CtxTyped(StairStates)' /\ SafeRecord(vis)' /\ StopNoted(vis)' /\ StopOnly
        /\ LayerKnown'
    BY <2>1, ContextKept
  <2>3. LoopTyped'
    BY <2>1, BudgetAssumption DEF LoopTyped, FlagNames
  <2>4. DoneMeansAnswered' /\ StoringState'
    BY <2>1 DEF DoneMeansAnswered, DoneSeen, Answered, StoringState, ctxVars
  <2>5. StairTyped' /\ ChassisTypeOK' /\ LegInRange'
    BY <1>1 DEF StairTyped, stairVars, chassisVars, sweepVars, ChassisTypeOK,
                LegInRange
  <2> QED BY <2>2, <2>3, <2>4, <2>5 DEF StopOnly, OnlyStopSent
<1>2. CASE Advance /\ UNCHANGED <<state, fault, requestId, activeArm, armHome,
                                  vis, arm, loopVars, stairVars>>
  <2>1. /\ UNCHANGED <<ctxVars, flags, got, pc, userQ, stops, stairVars>>
        /\ layer' = layer
    BY <1>2 DEF Advance, linkVars, loopVars, ctxVars, stairVars
  <2>2. /\ CtxTyped(StairStates)' /\ SafeRecord(vis)' /\ StopNoted(vis)' /\ StopOnly
        /\ LayerKnown'
    BY <2>1, ContextKept
  <2>3. ChassisTypeOK' /\ LegInRange'
    BY <1>2 DEF Advance, ChassisTypeOK, LegInRange
  <2>4. LoopTyped' /\ DoneMeansAnswered' /\ StoringState' /\ StairTyped'
    BY <2>1 DEF LoopTyped, DoneMeansAnswered, DoneSeen, Answered, StoringState,
                StairTyped, ctxVars, stairVars
  <2> QED BY <2>2, <2>3, <2>4 DEF StopOnly, OnlyStopSent
<1>3. ASSUME \/ PublishReply \/ ReleaseTransfer \/ ArmCompleted \/ ArmFailed,
             UNCHANGED <<stairVars, chassisVars>>
      PROVE  Parts' /\ OnlyStopSent
  <2>1. /\ UNCHANGED <<state, fault, requestId, activeArm, cmdQ>>
        /\ userQ' = userQ /\ stops' = stops /\ got' = got /\ pc' = pc
    BY <1>3 DEF PublishReply, ReleaseTransfer, ArmCompleted, ArmFailed, loopVars
  <2>2. StairTyped' /\ ChassisTypeOK' /\ LegInRange'
    BY <1>3 DEF StairTyped, stairVars, chassisVars, sweepVars, ChassisTypeOK,
                LegInRange
  <2>3. QueueTyped' /\ StopOnly
    <3>1. Len(cmdQ') = Len(cmdQ)
      BY <2>1
    <3> QED BY <2>1, <3>1 DEF CtxTyped, QueueTyped, StopOnly
  <2>4. /\ SafeRecord(vis) /\ StopNoted(vis)
        /\ vis.inflight => ~("VISION_DONE" \in flags) /\ ~DoneSeen
    BY DEF DoneMeansAnswered, Answered
  <2>5. CASE PublishReply
    <3>1. /\ vis.inflight /\ UNCHANGED <<armHome, arm, flags>>
          /\ \E m \in replies(vis.io) :
                vis' = [vis EXCEPT !.mail = m, !.pending = TRUE]
      BY <2>5 DEF PublishReply
    <3>2. /\ SafeRecord(vis') /\ vis'.phase = vis.phase
          /\ vis'.stopReq = vis.stopReq
      <4>1. replies(vis.io) \subseteq Mails
        BY DEF replies, Mails
      <4> QED BY <2>4, <3>1, <4>1 DEF SafeRecord, VisionType, Busy
    <3>3. DoneMeansAnswered' /\ LoopTyped' /\ StoringState'
      BY <2>1, <2>4, <3>1 DEF DoneMeansAnswered, DoneSeen, LoopTyped, StoringState
    <3>4. CtxTyped(StairStates)' /\ StopNoted(vis)' /\ LayerKnown'
      BY <1>3, <2>1, <2>3, <3>1, <3>2
      DEF CtxTyped, StopNoted, LayerKnown, stairVars
    <3> QED BY <2>2, <2>3, <3>2, <3>3, <3>4 DEF StopOnly, OnlyStopSent
  <2>6. CASE ReleaseTransfer
    <3>1. /\ vis.inflight /\ vis.pending /\ UNCHANGED <<armHome, arm>>
          /\ flags' = flags \cup {"VISION_DONE"}
          /\ vis' = [vis EXCEPT !.inflight = FALSE, !.io = "none"]
      BY <2>6 DEF ReleaseTransfer
    <3>2. /\ SafeRecord(vis') /\ vis'.phase = vis.phase
          /\ vis'.stopReq = vis.stopReq /\ Answered(vis')
      BY <2>4, <3>1 DEF SafeRecord, VisionType, Busy, Answered, Frames
    <3>3. DoneMeansAnswered' /\ LoopTyped' /\ StoringState'
      BY <2>1, <2>4, <3>1, <3>2
      DEF DoneMeansAnswered, DoneSeen, Answered, LoopTyped, StoringState,
          FlagNames
    <3>4. CtxTyped(StairStates)' /\ StopNoted(vis)' /\ LayerKnown'
      BY <1>3, <2>1, <2>3, <3>1, <3>2
      DEF CtxTyped, StopNoted, LayerKnown, stairVars
    <3> QED BY <2>2, <2>3, <3>2, <3>3, <3>4 DEF StopOnly, OnlyStopSent
  <2>7. CASE ArmCompleted \/ ArmFailed
    <3>1. /\ vis' = vis /\ arm' \in {0, arm}
          /\ armHome' \in BOOLEAN
          /\ flags' \in {flags, flags \cup {"ARM_OK"}, flags \cup {"ARM_FAIL"}}
      BY <2>7 DEF ArmCompleted, ArmFailed, CtxTyped
    <3>2. DoneMeansAnswered' /\ LoopTyped' /\ StoringState'
      BY <2>1, <3>1 DEF DoneMeansAnswered, DoneSeen, Answered, LoopTyped,
                        StoringState, FlagNames
    <3>3. CtxTyped(StairStates)' /\ SafeRecord(vis)' /\ StopNoted(vis)' /\ LayerKnown'
      BY <1>3, <2>1, <2>3, <3>1
      DEF CtxTyped, SafeRecord, StopNoted, LayerKnown, stairVars
    <3> QED BY <2>2, <2>3, <3>1, <3>2, <3>3 DEF StopOnly, OnlyStopSent
  <2> QED BY <1>3, <2>5, <2>6, <2>7
<1> QED BY <1>1, <1>2, <1>3 DEF World
-----------------------------------------------------------------------------
(* The limit.  A handler either reaches the state it aims at or falls to   *)
(* rest, where the arm at most stops and no session opens.                 *)

Fallen(v) ==
    /\ Rested
    /\ v.phase = "IDLE" => vis'.phase = "IDLE"
    /\ StopPending(v) => StopPending(vis')

\* A stop that cannot be sent at once waits for the running transaction.
LEMMA StopPends ==
    ASSUME NEW v, SafeRecord(v), NEW r \in mission_stop_vision(v)
    PROVE  /\ StopPending(v) => StopPending(r.vis)
           /\ v.phase # "IDLE" => r.vis.phase = "STOPPING" \/ r.vis.stopReq
<1>1. CASE v.phase = "IDLE" \/ v.scene = "NONE"
  BY <1>1 DEF mission_stop_vision, SafeRecord
<1>2. CASE v.phase # "IDLE" /\ v.scene # "NONE" /\ Busy(v)
  BY <1>2 DEF mission_stop_vision, SafeRecord, VisionType, StopPending, Busy
<1>3. CASE v.phase # "IDLE" /\ v.scene # "NONE" /\ ~Busy(v)
  <2>1. r.vis.phase \in {"IDLE", "STOPPING"}
    BY <1>3, StopCloses
  <2>2. r.vis.phase # "IDLE"
    BY <1>3, StopSafe
  <2> QED BY <2>1, <2>2 DEF StopPending
<1> QED BY <1>1, <1>2, <1>3

LEMMA FailFalls ==
    ASSUME NEW w, SafeRecord(w.vis), w.id \in 1..IdMax, NEW f, mission_fail(w, f)
    PROVE  Fallen(w.vis)
<1>1. Rested
  BY FailRests
<1>2. vis' = w.vis \/ \E r \in mission_stop_vision(w.vis) : vis' = r.vis
  BY DEF mission_fail
<1>3. \A r \in mission_stop_vision(w.vis) :
          /\ w.vis.phase = "IDLE" => r.vis.phase = "IDLE"
          /\ StopPending(w.vis) => StopPending(r.vis)
  BY StopSafe, StopPends
<1> QED BY <1>1, <1>2, <1>3 DEF Fallen

\* The contexts the building blocks fail with carry a typed id.
LEMMA WithTyped ==
    ASSUME requestId \in 1..IdMax, NEW v
    PROVE  /\ With(v).vis = v /\ With(v).id \in 1..IdMax
           /\ \A a : /\ [With(v) EXCEPT !.active = a].vis = v
                     /\ [With(v) EXCEPT !.active = a].id \in 1..IdMax
           /\ \A id \in 1..IdMax : /\ [With(v) EXCEPT !.id = id].vis = v
                                   /\ [With(v) EXCEPT !.id = id].id = id
BY DEF With, Now

LEMMA SendLands ==
    ASSUME requestId \in 1..IdMax, NEW v, SafeRecord(v), NEW type, NEW s,
           send_chassis(v, type, s)
    PROVE  \/ Fallen(v)
           \/ /\ state' = s /\ vis' = v /\ arm' = arm
              /\ cmdQ' = Sent(type, requestId)
<1>1. CASE mission_fail(With(v), "QUEUE")
  <2>1. With(v).vis = v /\ With(v).id \in 1..IdMax
    BY WithTyped
  <2>2. Fallen(With(v).vis)
    BY <1>1, <2>1, FailFalls
  <2> QED BY <2>1, <2>2
<1> QED BY <1>1 DEF send_chassis

LEMMA StageLands ==
    ASSUME requestId \in 1..IdMax, NEW v, SafeRecord(v), NEW type, NEW s,
           send_new_stage(v, type, s)
    PROVE  Fallen(v) \/ (state' = s /\ vis' = v /\ arm' = arm)
<1> DEFINE id == mission_next_request_id(requestId)
<1>0. id \in 1..IdMax
  BY NextIdTyped
<1>1. CASE mission_fail([With(v) EXCEPT !.id = id], "QUEUE")
  <2> DEFINE w == [With(v) EXCEPT !.id = id]
  <2> HIDE DEF id
  <2>1. w.vis = v /\ w.id \in 1..IdMax
    BY <1>0, WithTyped
  <2> HIDE DEF w
  <2>2. mission_fail(w, "QUEUE")
    BY <1>1 DEF w
  <2>3. Fallen(w.vis)
    BY <2>1, <2>2, FailFalls
  <2> QED BY <2>1, <2>3
<1> QED BY <1>1 DEF send_new_stage

LEMMA ArmLands ==
    ASSUME requestId \in 1..IdMax, NEW v, SafeRecord(v), NEW g, NEW s,
           start_arm(v, g, s)
    PROVE  Fallen(v) \/ (state' = s /\ vis' = v /\ arm' = g /\ cmdQ' = cmdQ)
<1>1. CASE mission_fail([With(v) EXCEPT !.active = 0], "ARM")
  <2> DEFINE w == [With(v) EXCEPT !.active = 0]
  <2>1. w.vis = v /\ w.id \in 1..IdMax
    BY WithTyped
  <2> HIDE DEF w
  <2>2. mission_fail(w, "ARM")
    BY <1>1 DEF w
  <2>3. Fallen(w.vis)
    BY <2>1, <2>2, FailFalls
  <2> QED BY <2>1, <2>3
<1> QED BY <1>1 DEF start_arm

\* An opening session: the scene is on its way, or the run is over.
LEMMA VisionLands ==
    ASSUME requestId \in 1..IdMax, NEW v, SafeRecord(v),
           NEW scene \in Scenes \ {"NONE"}, NEW s, start_vision(v, scene, s)
    PROVE  \/ Fallen(v)
           \/ /\ v.phase = "IDLE" /\ state' = s /\ arm' = arm /\ cmdQ' = cmdQ
              /\ vis'.phase = "STARTING" /\ vis'.scene = scene
              /\ vis'.stopReq = v.stopReq
<1>1. CASE v.phase # "IDLE" /\ mission_fail(With(v), "VISION")
  <2>1. With(v).vis = v /\ With(v).id \in 1..IdMax
    BY WithTyped
  <2>2. Fallen(With(v).vis)
    BY <1>1, <2>1, FailFalls
  <2> QED BY <2>1, <2>2
<1>2. CASE v.phase = "IDLE"
  <2>1. PICK ok, w, x :
            /\ ok \in submit_results(v)
            /\ w = [v EXCEPT !.phase = "STARTING", !.scene = scene]
            /\ x = mission_submit_vision_transfer(w, "START", ok)
            /\ IF ok THEN enter_state(x, s)
                     ELSE mission_fail(With(mission_reset_vision(x)), "VISION")
    BY <1>2 DEF start_vision
  <2>a. /\ w \in VisionType /\ ~Busy(w) /\ w.phase = "STARTING"
        /\ w.scene = scene /\ w.stopReq = v.stopReq /\ ok \in submit_results(w)
    BY <1>2, <2>1 DEF SafeRecord, VisionType, Phases, Busy, submit_results
  <2>2. CASE ok
    <3>1. x.phase = w.phase /\ x.scene = w.scene /\ x.stopReq = w.stopReq
      BY <2>1, <2>a, SubmitSafe
    <3>2. vis' = x /\ state' = s /\ arm' = arm /\ cmdQ' = cmdQ
      BY <2>1, <2>2 DEF enter_state
    <3> QED BY <1>2, <2>a, <3>1, <3>2
  <2>3. CASE ~ok
    <3> DEFINE u == mission_reset_vision(x)
    <3>2. SafeRecord(x) /\ ~Busy(x)
      BY <2>1, <2>3, <2>a, SubmitSafe
    <3>3. SafeRecord(u)
      BY <3>2 DEF mission_reset_vision, SafeRecord, VisionType, Phases, Scenes,
                  Busy
    <3>4. u.phase = "IDLE"
      BY <3>2 DEF mission_reset_vision, SafeRecord, VisionType
    <3> HIDE DEF u
    <3>5. mission_fail(With(u), "VISION")
      BY <2>1, <2>3 DEF u
    <3>6. With(u).vis = u /\ With(u).id \in 1..IdMax
      BY WithTyped
    <3>7. Fallen(With(u).vis)
      BY <3>3, <3>5, <3>6, FailFalls
    <3>8. StopPending(u)
      BY <3>2 DEF u, mission_reset_vision, SafeRecord, VisionType, StopPending
    <3> QED BY <1>2, <3>4, <3>6, <3>7, <3>8 DEF Fallen
  <2> QED BY <2>1, <2>2, <2>3
<1> QED BY <1>1, <1>2 DEF start_vision

LEMMA StopLands ==
    ASSUME requestId \in 1..IdMax, NEW v, SafeRecord(v), NEW s, stop_vision(v, s)
    PROVE  \/ Fallen(v)
           \/ /\ state' = s /\ arm' = arm /\ cmdQ' = cmdQ
              /\ v.phase = "IDLE" <=> vis'.phase = "IDLE"
              /\ StopPending(v) => StopPending(vis')
              /\ v.phase # "IDLE" => vis'.phase = "STOPPING" \/ vis'.stopReq
<1>1. PICK r \in mission_stop_vision(v) :
          IF r.ok THEN enter_state(r.vis, s)
                  ELSE mission_fail(With(r.vis), "VISION")
  BY DEF stop_vision
<1>2. /\ SafeRecord(r.vis) /\ (v.phase = "IDLE" <=> r.vis.phase = "IDLE")
      /\ StopPending(v) => StopPending(r.vis)
      /\ v.phase # "IDLE" => r.vis.phase = "STOPPING" \/ r.vis.stopReq
  BY StopSafe, StopPends
<1>3. CASE enter_state(r.vis, s)
  BY <1>2, <1>3 DEF enter_state
<1>4. CASE mission_fail(With(r.vis), "VISION")
  <2>1. With(r.vis).vis = r.vis /\ With(r.vis).id \in 1..IdMax
    BY WithTyped
  <2>2. Fallen(With(r.vis).vis)
    BY <1>2, <1>4, <2>1, FailFalls
  <2> QED BY <1>2, <2>1, <2>2 DEF Fallen
<1> QED BY <1>1, <1>3, <1>4

\* The four ways a step keeps within the limit: it changes nothing that
\* matters, it falls to rest, it goes where no ball is wanted, or it works
\* on a ball that was within the limit when it was seen.
LEMMA LimitKept ==
    ASSUME LimitFollowed, balls' = balls,
           \/ /\ state' = state /\ arm' \in {0, arm}
              /\ vis'.phase \in {"IDLE", vis.phase}
              /\ state = "STAIR_WAIT_PAUSE" => ~vis'.stopReq
           \/ Rested /\ (vis.phase = "IDLE" => vis'.phase = "IDLE")
           \/ /\ state' \notin BallWanted /\ arm' \notin GraspGroups
              /\ vis'.phase = "IDLE" \/ balls < BallLimit
           \/ /\ state' \in ArmWorks /\ vis'.phase = "IDLE" /\ balls < BallLimit
              /\ arm' \in GraspGroups => state' = "STAIR_WAIT_GRASP"
    PROVE  LimitFollowed'
<1> USE DEF LimitFollowed, BallWanted, ArmWorks
<1>0. 0 \notin GraspGroups
  BY DEF GraspGroups
<1>1. CASE /\ state' = state /\ arm' \in {0, arm}
           /\ vis'.phase \in {"IDLE", vis.phase}
           /\ state = "STAIR_WAIT_PAUSE" => ~vis'.stopReq
  BY <1>0, <1>1
<1>2. CASE Rested /\ (vis.phase = "IDLE" => vis'.phase = "IDLE")
  BY <1>0, <1>2 DEF Rested, RestStates
<1>3. CASE /\ state' \notin BallWanted /\ arm' \notin GraspGroups
           /\ vis'.phase = "IDLE" \/ balls < BallLimit
  BY <1>3
<1>4. CASE /\ state' \in ArmWorks /\ vis'.phase = "IDLE" /\ balls < BallLimit
           /\ arm' \in GraspGroups => state' = "STAIR_WAIT_GRASP"
  BY <1>4
<1> QED BY <1>1, <1>2, <1>3, <1>4

LEMMA LimitContext ==
    ASSUME Inductive
    PROVE  requestId \in 1..IdMax /\ SafeRecord(vis)
BY DEF Inductive, TypeOK, CoreTypeOK

\* Starting on a layer from a closed session: it opens within the limit only.
LEMMA StartLayerKeepsLimit ==
    ASSUME LimitFollowed, requestId \in 1..IdMax, NEW v, SafeRecord(v),
           NEW l \in Layers \cup {"NONE"}, start_stair_layer(v, l), balls' = balls,
           arm \notin GraspGroups, v.phase \in {"IDLE", vis.phase}
    PROVE  LimitFollowed'
<1>0. v.phase # "IDLE" => balls < BallLimit
  BY DEF LimitFollowed
<1>1. CASE enter_state(v, "STAIR_WAIT_LAYER")
  <2>1. /\ state' \notin BallWanted /\ arm' \notin GraspGroups
        /\ vis'.phase = "IDLE" \/ balls < BallLimit
    BY <1>0, <1>1 DEF enter_state, BallWanted, ArmWorks
  <2> QED BY <2>1, LimitKept
<1>2. ASSUME Fallen(v) \/ (state' = "STAIR_SCANNING" /\ vis' = v /\ arm' = arm)
      PROVE  LimitFollowed'
  <2>1. CASE Fallen(v)
    BY <1>0, <2>1 DEF Fallen, Rested, RestStates, LimitFollowed, BallWanted,
                      ArmWorks, GraspGroups
  <2>2. CASE state' = "STAIR_SCANNING" /\ vis' = v /\ arm' = arm
    <3>1. /\ state' \notin BallWanted /\ arm' \notin GraspGroups
          /\ vis'.phase = "IDLE" \/ balls < BallLimit
      BY <1>0, <2>2 DEF BallWanted, ArmWorks
    <3> QED BY <3>1, LimitKept
  <2> QED BY <1>2, <2>1, <2>2
<1>3. CASE send_chassis(v, "CAM_READY", "STAIR_SCANNING")
  BY <1>2, <1>3, SendLands
<1>4. CASE /\ l # "NONE" /\ balls < BallLimit
           /\ start_vision(v, l, "STAIR_WAIT_VISION_START")
  <2>1. l \in Scenes \ {"NONE"}
    BY <1>4 DEF Scenes, Layers
  <2>2. \/ Fallen(v)
        \/ state' = "STAIR_WAIT_VISION_START" /\ arm' = arm
    BY <1>4, <2>1, VisionLands
  <2>3. CASE state' = "STAIR_WAIT_VISION_START" /\ arm' = arm
    <3>1. state' \notin BallWanted /\ arm' \notin GraspGroups
      BY <2>3 DEF BallWanted, ArmWorks
    <3> QED BY <1>4, <3>1, LimitKept
  <2> QED BY <1>2, <2>2, <2>3
<1> QED BY <1>1, <1>3, <1>4 DEF start_stair_layer

\* The base reports.  No event finds the arm grasping and starts a session.
LEMMA ChassisKeepsLimit ==
    ASSUME Inductive, LimitFollowed, HandleChassis
    PROVE  LimitFollowed'
<1>1. PICK e : mission_handle_chassis(e)
  BY DEF HandleChassis
<1>2. requestId \in 1..IdMax /\ SafeRecord(vis)
  BY LimitContext
<1>n. Now.vis = vis /\ Now.id \in 1..IdMax
  BY <1>2 DEF Now
<1>3. ASSUME Fallen(vis), balls' = balls PROVE LimitFollowed'
  BY <1>3, LimitKept DEF Fallen
<1>4. CASE OnStale(e) \/ OnUnexpected(e)
  <2>1. keep(vis) /\ balls' = balls
    BY <1>4 DEF OnStale, OnUnexpected, stairVars
  <2>2. /\ state' = state /\ arm' \in {0, arm} /\ vis' = vis
        /\ vis'.phase \in {"IDLE", vis.phase}
        /\ state = "STAIR_WAIT_PAUSE" => ~vis'.stopReq
    BY <2>1 DEF keep, enter_state, LimitFollowed
  <2> QED BY <2>1, <2>2, LimitKept
<1>5. CASE OnFailure(e)
  <2>1. mission_fail(Now, "CHASSIS") /\ balls' = balls
    BY <1>5 DEF OnFailure, stairVars
  <2>2. Fallen(Now.vis)
    BY <1>2, <1>n, <2>1, FailFalls
  <2> QED BY <1>3, <1>n, <2>1, <2>2
<1>6. CASE OnStopped(e)
  <2>1. /\ state = "STOPPING" /\ balls' = balls
        /\ state' = "STOPPED" /\ vis' = vis /\ arm' = arm
    BY <1>6 DEF OnStopped, enter_state, stairVars
  <2> QED BY <2>1 DEF LimitFollowed, BallWanted, ArmWorks, RestStates
<1>7. CASE OnStairsReady(e)
  <2>1. state = "WAIT_STAIRS" /\ balls' = balls /\ start_arm(vis, 13, "STAIR_WAIT_POSE")
    BY <1>7 DEF OnStairsReady
  <2>2. \/ Fallen(vis)
        \/ state' = "STAIR_WAIT_POSE" /\ vis' = vis /\ arm' = 13
    BY <1>2, <2>1, ArmLands
  <2>3. CASE state' = "STAIR_WAIT_POSE" /\ vis' = vis /\ arm' = 13
    BY <2>1, <2>3 DEF LimitFollowed, BallWanted, ArmWorks, GraspGroups
  <2> QED BY <1>3, <2>1, <2>2, <2>3
<1>8. CASE OnLayer(e)
  <2>1. state \in LayerStates /\ balls' = balls /\ layer' = stair_layer(e.type)
    BY <1>8 DEF OnLayer
  <2>2. arm \notin GraspGroups
    BY <2>1 DEF LimitFollowed, LayerStates, RestStates
  <2>3. layer' \in Layers \cup {"NONE"}
    BY <2>1 DEF stair_layer, Layers
  <2>4. CASE stop_vision(vis, "STAIR_WAIT_LAYER")
    <3>1. \/ Fallen(vis)
          \/ /\ state' = "STAIR_WAIT_LAYER" /\ arm' = arm
             /\ vis.phase = "IDLE" <=> vis'.phase = "IDLE"
      BY <1>2, <2>4, StopLands
    <3>2. CASE /\ state' = "STAIR_WAIT_LAYER" /\ arm' = arm
               /\ vis.phase = "IDLE" <=> vis'.phase = "IDLE"
      BY <2>1, <2>2, <3>2 DEF LimitFollowed, BallWanted, ArmWorks
    <3> QED BY <1>3, <2>1, <3>1, <3>2
  <2>5. CASE start_stair_layer(vis, layer')
    BY <1>2, <2>1, <2>2, <2>3, <2>5, StartLayerKeepsLimit
  <2>6. CASE state = "STAIR_WAIT_POSE" /\ keep(vis)
    BY <2>1, <2>6 DEF keep, enter_state, LimitFollowed, BallWanted, ArmWorks
  <2> QED BY <1>8, <2>4, <2>5, <2>6 DEF OnLayer
<1>9. CASE OnPause(e)
  <2>1. state = "STAIR_WAIT_PAUSE" /\ balls' = balls /\ balls < BallLimit
    BY <1>9 DEF OnPause, stairVars, LimitFollowed, BallWanted
  <2>2. arm \notin GraspGroups /\ vis.phase \in {"IDLE", "ACKING"}
    BY <2>1 DEF LimitFollowed, RestStates
  <2>3. CASE enter_state(vis, "STAIR_WAIT_ACK")
    BY <2>1, <2>2, <2>3 DEF enter_state, LimitFollowed, BallWanted, ArmWorks
  <2>4. CASE vis.phase # "ACKING" /\ grasp(vis)
    <3>1. \/ Fallen(vis)
          \/ state' = "STAIR_WAIT_GRASP" /\ vis' = vis
      BY <1>2, <2>4, ArmLands DEF grasp
    <3>2. CASE state' = "STAIR_WAIT_GRASP" /\ vis' = vis
      <4>1. state' \in ArmWorks /\ vis'.phase = "IDLE"
        BY <2>2, <2>4, <3>2 DEF ArmWorks
      <4> QED BY <2>1, <3>2, <4>1, LimitKept
    <3> QED BY <1>3, <2>1, <3>1, <3>2
  <2> QED BY <1>9, <2>3, <2>4 DEF OnPause
<1>10. CASE OnResume(e)
  <2>1. /\ state = "STAIR_WAIT_RESUME" /\ balls' = balls
        /\ state' = "STAIR_SCANNING" /\ vis' = vis /\ arm' = arm
    BY <1>10 DEF OnResume, enter_state, stairVars
  <2> QED BY <2>1 DEF LimitFollowed, BallWanted, ArmWorks, RestStates
<1>11. CASE OnFinished(e)
  <2>1. /\ balls' = balls
        /\ \/ vis.phase # "IDLE" /\ stop_vision(vis, "STAIR_WAIT_VISION_END")
           \/ vis.phase = "IDLE" /\ start_stair_exit(vis)
    BY <1>11 DEF OnFinished, stairVars
  <2>2. CASE vis.phase # "IDLE" /\ stop_vision(vis, "STAIR_WAIT_VISION_END")
    <3>1. \/ Fallen(vis)
          \/ state' = "STAIR_WAIT_VISION_END" /\ arm' = arm
      BY <1>2, <2>2, StopLands
    <3>2. CASE state' = "STAIR_WAIT_VISION_END" /\ arm' = arm
      BY <2>1, <2>2, <3>2 DEF LimitFollowed, BallWanted, ArmWorks
    <3> QED BY <1>3, <2>1, <3>1, <3>2
  <2>3. CASE vis.phase = "IDLE" /\ start_stair_exit(vis)
    <3>1. \/ Fallen(vis)
          \/ state' = "STAIR_WAIT_SAFE" /\ vis' = vis /\ arm' = 18
      BY <1>2, <2>3, ArmLands DEF start_stair_exit
    <3>2. CASE state' = "STAIR_WAIT_SAFE" /\ vis' = vis /\ arm' = 18
      BY <2>1, <2>3, <3>2 DEF LimitFollowed, BallWanted, ArmWorks, GraspGroups
    <3> QED BY <1>3, <2>1, <3>1, <3>2
  <2> QED BY <2>1, <2>2, <2>3
<1> QED
  BY <1>1, <1>4, <1>5, <1>6, <1>7, <1>8, <1>9, <1>10, <1>11
  DEF mission_handle_chassis

\* The arm reports, the ball is stored.  The count goes up here, with no
\* session open and no grasp running.
LEMMA ArmKeepsLimit ==
    ASSUME Inductive, LimitFollowed,
           ArmFail \/ ArmOk \/ BeginStore \/ StoreDone \/ StoreFailed \/ StoreGivesUp
    PROVE  LimitFollowed'
<1>1. requestId \in 1..IdMax /\ SafeRecord(vis)
  BY LimitContext
<1>n. Now.vis = vis /\ Now.id \in 1..IdMax
  BY <1>1 DEF Now
<1>2. ASSUME Fallen(vis), balls' = balls PROVE LimitFollowed'
  BY <1>2, LimitKept DEF Fallen
<1>3. ASSUME NEW f, mission_fail(Now, f), balls' = balls PROVE LimitFollowed'
  <2>1. Fallen(Now.vis)
    BY <1>1, <1>n, <1>3, FailFalls
  <2> QED BY <1>2, <1>3, <1>n, <2>1
<1>4. ASSUME keep(vis), balls' = balls PROVE LimitFollowed'
  BY <1>4 DEF keep, enter_state, LimitFollowed, BallWanted, ArmWorks
<1>5. CASE ArmFail \/ StoreFailed \/ StoreGivesUp
  BY <1>3, <1>4, <1>5 DEF ArmFail, StoreFailed, StoreGivesUp, stairVars
<1>6. CASE ArmOk
  <2>0. balls' = balls /\ arm_next
    BY <1>6 DEF ArmOk, stairVars
  <2>1. CASE state = "STAIR_WAIT_POSE" /\ start_stair_layer(vis, layer)
    <3>1. arm \notin GraspGroups /\ layer \in Layers \cup {"NONE"}
      BY <2>1 DEF LimitFollowed, RestStates, Inductive, TypeOK
    <3> QED BY <1>1, <2>0, <2>1, <3>1, StartLayerKeepsLimit
  <2>2. CASE state = "STAIR_WAIT_GRASP" /\ start_arm(vis, 13, "STAIR_WAIT_RETURN")
    <3>1. \/ Fallen(vis)
          \/ state' = "STAIR_WAIT_RETURN" /\ vis' = vis /\ arm' = 13
      BY <1>1, <2>2, ArmLands
    <3>2. CASE state' = "STAIR_WAIT_RETURN" /\ vis' = vis /\ arm' = 13
      BY <2>0, <2>2, <3>2 DEF LimitFollowed, BallWanted, ArmWorks, GraspGroups
    <3> QED BY <1>2, <2>0, <3>1, <3>2
  <2>3. CASE /\ state = "STAIR_WAIT_SAFE"
             /\ send_new_stage(vis, "GO_SMALL_DISC", "WAIT_SMALL_DISC")
    <3>1. \/ Fallen(vis)
          \/ state' = "WAIT_SMALL_DISC" /\ vis' = vis /\ arm' = arm
      BY <1>1, <2>3, StageLands
    <3>2. CASE state' = "WAIT_SMALL_DISC" /\ vis' = vis /\ arm' = arm
      BY <2>0, <2>3, <3>2 DEF LimitFollowed, BallWanted, ArmWorks, RestStates
    <3> QED BY <1>2, <2>0, <3>1, <3>2
  <2> QED BY <1>4, <2>0, <2>1, <2>2, <2>3 DEF arm_next
<1>7. CASE BeginStore
  <2>1. /\ state = "STAIR_WAIT_RETURN" /\ state' = "STAIR_WAIT_STORAGE"
        /\ vis' = vis /\ arm' = arm /\ balls' = balls
    BY <1>7 DEF BeginStore, enter_state, stairVars
  <2> QED BY <2>1 DEF LimitFollowed, BallWanted, ArmWorks, RestStates
<1>8. CASE StoreDone
  <2>1. /\ state = "STAIR_WAIT_STORAGE" /\ balls' = balls + 1
        /\ vis.phase = "IDLE" /\ balls < BallLimit /\ arm \notin GraspGroups
        /\ balls \in Nat /\ layer \in Scenes \ {"NONE"}
    BY <1>8 DEF StoreDone, StoringState, Inductive, LimitFollowed, BallWanted,
                ArmWorks, RestStates, TypeOK, LayerKnown, LayerNeeded, Layers,
                Scenes
  <2>2. balls' <= BallLimit
    BY <2>1, BallAssumption
  <2>3. ASSUME Fallen(vis) PROVE LimitFollowed'
    <3>1. /\ state' \in RestStates /\ arm' \in {0, arm} /\ vis'.phase = "IDLE"
      BY <2>1, <2>3 DEF Fallen, Rested
    <3> QED BY <2>1, <2>2, <3>1
            DEF LimitFollowed, BallWanted, ArmWorks, RestStates, GraspGroups
  <2>4. CASE send_chassis(vis, "STAIR_RESUME", "STAIR_WAIT_RESUME")
    <3>1. \/ Fallen(vis)
          \/ state' = "STAIR_WAIT_RESUME" /\ vis' = vis /\ arm' = arm
      BY <1>1, <2>4, SendLands
    <3>2. CASE state' = "STAIR_WAIT_RESUME" /\ vis' = vis /\ arm' = arm
      BY <2>1, <2>2, <3>2 DEF LimitFollowed, BallWanted, ArmWorks
    <3> QED BY <2>3, <3>1, <3>2
  <2>5. CASE /\ balls' < BallLimit
             /\ start_vision(vis, layer, "STAIR_WAIT_VISION_RESUME")
    <3>1. \/ Fallen(vis)
          \/ state' = "STAIR_WAIT_VISION_RESUME" /\ arm' = arm
      BY <1>1, <2>1, <2>5, VisionLands
    <3>2. CASE state' = "STAIR_WAIT_VISION_RESUME" /\ arm' = arm
      BY <2>1, <2>2, <2>5, <3>2 DEF LimitFollowed, BallWanted, ArmWorks
    <3> QED BY <2>3, <3>1, <3>2
  <2> QED BY <1>8, <2>4, <2>5 DEF StoreDone
<1> QED BY <1>5, <1>6, <1>7, <1>8

\* The camera answers.  A ball is only seen by a session within the limit.
LEMMA VisionKeepsLimit ==
    ASSUME Inductive, LimitFollowed, HandleVision
    PROVE  LimitFollowed'
<1>0. mission_handle_vision /\ balls' = balls /\ DoneSeen
  BY DEF HandleVision, stairVars, DoneSeen
<1>1. requestId \in 1..IdMax /\ SafeRecord(vis)
  BY LimitContext
<1>2. /\ SafeRecord(Taken) /\ ~Busy(Taken) /\ Taken.phase = vis.phase
      /\ Taken.stopReq = vis.stopReq
  BY <1>0, TakenSafe DEF Inductive, DoneMeansAnswered
<1>3. vis.phase # "IDLE"
  BY <1>0, <1>1 DEF Inductive, DoneMeansAnswered, Answered, SafeRecord, Busy
<1>4. balls < BallLimit /\ arm \notin GraspGroups /\ state \notin ArmWorks
  BY <1>3 DEF LimitFollowed
<1>5. ASSUME Fallen(Taken) PROVE LimitFollowed'
  BY <1>0, <1>2, <1>5, LimitKept DEF Fallen
<1>6. ASSUME NEW v, SafeRecord(v), NEW f, mission_fail(With(v), f)
      PROVE  LimitFollowed'
  <2>1. With(v).vis = v /\ With(v).id \in 1..IdMax
    BY <1>1, WithTyped
  <2>2. Fallen(With(v).vis)
    BY <1>6, <2>1, FailFalls
  <2> QED BY <1>0, <1>3, <2>2, LimitKept DEF Fallen
\* Away from the states that want a ball nothing else can go wrong.
<1>7. ASSUME state' \notin BallWanted, arm' \notin GraspGroups
      PROVE  LimitFollowed'
  BY <1>0, <1>4, <1>7, LimitKept
<1>8. CASE DeferredStop
  <2> DEFINE v == [Taken EXCEPT !.stopReq = FALSE]
  <2>1. SafeRecord(v) /\ v.phase = vis.phase
    BY <1>2 DEF SafeRecord, VisionType, Busy
  <2>2. stop_vision(v, state) /\ state # "STAIR_WAIT_PAUSE"
    BY <1>8 DEF DeferredStop, StopWasWaiting, LimitFollowed
  <2> HIDE DEF v
  <2>3. \/ Fallen(v)
        \/ state' = state /\ arm' = arm
    BY <1>1, <2>1, <2>2, StopLands
  <2>4. CASE Fallen(v)
    BY <1>0, <2>1, <2>4, LimitKept DEF Fallen
  <2>5. CASE state' = state /\ arm' = arm
    BY <1>0, <1>4, <2>2, <2>5 DEF LimitFollowed
  <2> QED BY <2>3, <2>4, <2>5
<1>9. CASE QuietListen \/ AckSent \/ EventIgnored
  <2>1. keep(Taken)
    BY <1>9 DEF QuietListen, AckSent, EventIgnored
  <2>2. state' = state /\ arm' = arm /\ vis' = Taken
    BY <2>1 DEF keep, enter_state
  <2> QED BY <1>0, <1>2, <2>2 DEF LimitFollowed
<1>10. CASE BusFault \/ WrongReply
  BY <1>2, <1>6, <1>10 DEF BusFault, WrongReply
<1>11. CASE SessionStopped
  <2> DEFINE v == mission_reset_vision(Taken)
  <2>1. SafeRecord(v) /\ v.phase = "IDLE"
    BY <1>2 DEF mission_reset_vision, SafeRecord, VisionType, Phases, Scenes,
                Busy
  <2>2. \/ start_stair_layer(v, layer)
        \/ start_stair_exit(v)
        \/ keep(v)
    BY <1>11 DEF SessionStopped
  <2>3. vis.phase = "STOPPING" /\ state # "STAIR_WAIT_PAUSE"
    BY <1>11 DEF SessionStopped, Replied, LimitFollowed
  <2> HIDE DEF v
  <2>4. CASE start_stair_layer(v, layer)
    <3>1. layer \in Layers \cup {"NONE"}
      BY DEF Inductive, TypeOK
    <3> QED BY <1>0, <1>1, <1>4, <2>1, <2>4, <3>1, StartLayerKeepsLimit
  <2>5. CASE start_stair_exit(v)
    <3>1. Fallen(v) \/ (state' = "STAIR_WAIT_SAFE" /\ arm' = 18)
      BY <1>1, <2>1, <2>5, ArmLands DEF start_stair_exit
    <3>2. CASE Fallen(v)
      BY <1>0, <1>3, <3>2, LimitKept DEF Fallen
    <3> QED BY <1>7, <3>1, <3>2 DEF BallWanted, ArmWorks, GraspGroups
  <2>6. CASE keep(v)
    <3>1. state' = state /\ arm' = arm /\ vis' = v
      BY <2>6 DEF keep, enter_state
    <3> QED BY <1>0, <1>4, <2>1, <2>3, <3>1 DEF LimitFollowed
  <2> QED BY <2>2, <2>4, <2>5, <2>6
<1>12. CASE SessionReady
  <2> DEFINE v == [Taken EXCEPT !.phase = "LISTENING"]
  <2>1. SafeRecord(v) /\ v.phase = "LISTENING"
    BY <1>2, <1>3 DEF SafeRecord, VisionType, Phases, Busy
  <2>2. \/ send_chassis(v, "STAIR_RESUME", "STAIR_WAIT_RESUME")
        \/ send_chassis(v, "CAM_READY", "STAIR_SCANNING")
    BY <1>12 DEF SessionReady
  <2> HIDE DEF v
  <2>3. \/ Fallen(v)
        \/ state' \in {"STAIR_WAIT_RESUME", "STAIR_SCANNING"} /\ arm' = arm
    BY <1>1, <2>1, <2>2, SendLands
  <2>4. CASE Fallen(v)
    BY <1>0, <1>3, <2>4, LimitKept DEF Fallen
  <2> QED BY <1>4, <1>7, <2>3, <2>4 DEF BallWanted, ArmWorks
<1>13. CASE BallSeen
  <2>1. PICK ok \in submit_results(Taken) :
            IF ok THEN send_chassis(acking(TRUE), "STAIR_STOP", "STAIR_WAIT_PAUSE")
                  ELSE mission_fail(With(acking(FALSE)), "VISION")
    BY <1>13 DEF BallSeen
  <2>2. /\ vis.phase = "LISTENING" /\ ~vis.stopReq /\ ok \in BOOLEAN
    BY <1>13 DEF BallSeen, Replied, StopWasWaiting, submit_results
  <2> DEFINE v == acking(ok)
             u == [Taken EXCEPT !.phase = "ACKING"]
  <2>3. /\ u \in VisionType /\ ~Busy(u) /\ u.phase = "ACKING" /\ ~u.stopReq
        /\ u.scene # "NONE" /\ ok \in submit_results(u)
    BY <1>2, <2>2 DEF SafeRecord, VisionType, Phases, Busy, submit_results
  <2>4. v = mission_submit_vision_transfer(u, "ACK", ok)
    BY DEF acking
  <2>5. SafeRecord(v) /\ v.phase = "ACKING" /\ ~v.stopReq
    <3> HIDE DEF v, u
    <3> QED BY <2>3, <2>4, SubmitSafe
  <2>6. \/ send_chassis(v, "STAIR_STOP", "STAIR_WAIT_PAUSE")
        \/ mission_fail(With(v), "VISION")
    BY <2>1, <2>2
  <2> HIDE DEF v, u
  <2>7. CASE send_chassis(v, "STAIR_STOP", "STAIR_WAIT_PAUSE")
    <3>1. Fallen(v) \/ (state' = "STAIR_WAIT_PAUSE" /\ vis' = v /\ arm' = arm)
      BY <1>1, <2>5, <2>7, SendLands
    <3>2. CASE Fallen(v)
      BY <1>0, <1>3, <3>2, LimitKept DEF Fallen
    <3>3. CASE state' = "STAIR_WAIT_PAUSE" /\ vis' = v /\ arm' = arm
      BY <1>0, <1>4, <2>5, <3>3 DEF LimitFollowed, ArmWorks
    <3> QED BY <3>1, <3>2, <3>3
  <2> QED BY <1>6, <2>5, <2>6, <2>7
<1> QED
  BY <1>0, <1>8, <1>9, <1>10, <1>11, <1>12, <1>13 DEF mission_handle_vision

\* The user stops, in the main loop or while a ball is being stored.
LEMMA CommandKeepsLimit ==
    ASSUME Inductive, LimitFollowed, mission_handle_command, balls' = balls
    PROVE  LimitFollowed'
<1>1. CtxTyped(StairStates) /\ SafeRecord(vis) /\ StopNoted(vis)
  BY Regroup DEF Parts
<1>2. /\ state \notin {"STOPPED", "BOOT"} => Rested
      /\ vis.phase = "IDLE" <=> vis'.phase = "IDLE"
  BY <1>1, CommandSafe
<1>3. CASE state \notin {"STOPPED", "BOOT"}
  BY <1>2, <1>3, LimitKept DEF Fallen
<1>4. CASE state \in {"STOPPED", "BOOT"}
  <2>1. UNCHANGED <<state, vis, arm>>
    BY <1>4 DEF mission_handle_command
  <2> QED BY <2>1 DEF LimitFollowed
<1> QED BY <1>3, <1>4

\* The end of a turn of the main loop.
LEMMA ProcessKeepsLimit ==
    ASSUME Inductive, LimitFollowed, balls' = balls,
           ReadNext \/ AckProcessed \/ CheckTimeout(Timed)
    PROVE  LimitFollowed'
<1>1. requestId \in 1..IdMax /\ SafeRecord(vis)
  BY LimitContext
<1>2. CASE ReadNext
  <2>1. PICK ok \in submit_results(vis) :
            keep(mission_submit_vision_transfer(vis, "READ", ok))
    BY <1>2 DEF ReadNext
  <2>2. ~Busy(vis) /\ vis.phase = "LISTENING"
    BY <1>2 DEF ReadNext
  <2> DEFINE v == mission_submit_vision_transfer(vis, "READ", ok)
  <2>3. v.phase = vis.phase /\ v.stopReq = vis.stopReq
    BY <1>1, <2>1, <2>2, SubmitSafe DEF SafeRecord
  <2>4. keep(v)
    BY <2>1
  <2> HIDE DEF v
  <2>5. state' = state /\ arm' = arm /\ vis' = v
    BY <2>4 DEF keep, enter_state
  <2> QED BY <2>3, <2>5 DEF LimitFollowed
<1>3. CASE CheckTimeout(Timed)
  <2>1. keep(vis) \/ mission_fail(Now, "TIMEOUT")
    BY <1>3 DEF CheckTimeout
  <2>2. CASE keep(vis)
    BY <2>2 DEF keep, enter_state, LimitFollowed
  <2>3. CASE mission_fail(Now, "TIMEOUT")
    <3>1. Now.vis = vis /\ Now.id \in 1..IdMax
      BY <1>1 DEF Now
    <3>2. Fallen(Now.vis)
      BY <1>1, <2>3, <3>1, FailFalls
    <3> QED BY <3>1, <3>2, LimitKept DEF Fallen
  <2> QED BY <2>1, <2>2, <2>3
<1>4. CASE AckProcessed
  <2> DEFINE v == mission_reset_vision(vis)
  <2>1. SafeRecord(v) /\ v.phase = "IDLE" /\ ~v.stopReq
    BY <1>1, <1>4 DEF AckProcessed, mission_reset_vision, SafeRecord,
                      VisionType, Phases, Scenes, Busy
  <2>2. vis.phase = "ACKING" /\ balls < BallLimit
    BY <1>4 DEF AckProcessed, LimitFollowed
  <2>3. grasp(v) \/ keep(v)
    BY <1>4 DEF AckProcessed
  <2> HIDE DEF v
  <2>4. CASE grasp(v)
    <3>1. Fallen(v) \/ (state' = "STAIR_WAIT_GRASP" /\ vis' = v)
      BY <1>1, <2>1, <2>4, ArmLands DEF grasp
    <3>2. CASE Fallen(v)
      BY <2>2, <3>2, LimitKept DEF Fallen
    <3>3. CASE state' = "STAIR_WAIT_GRASP" /\ vis' = v
      <4>1. state' \in ArmWorks /\ vis'.phase = "IDLE"
        BY <2>1, <3>3 DEF ArmWorks
      <4> QED BY <2>2, <3>3, <4>1, LimitKept
    <3> QED BY <3>1, <3>2, <3>3
  <2>5. CASE keep(v)
    <3>1. state' = state /\ arm' = arm /\ vis' = v
      BY <2>5 DEF keep, enter_state
    <3> QED BY <2>1, <3>1 DEF LimitFollowed
  <2> QED BY <2>3, <2>4, <2>5
<1> QED BY <1>2, <1>3, <1>4

\* The arm, the camera and the other tasks count no balls and open nothing.
LEMMA OthersKeepLimit ==
    ASSUME Inductive, LimitFollowed,
           \/ UNCHANGED <<ctxVars, stairVars>>
           \/ Chassis \/ World
    PROVE  LimitFollowed'
<1>1. CASE UNCHANGED <<state, vis, arm, stairVars>>
  BY <1>1 DEF LimitFollowed, stairVars
<1>2. CASE (ArmCompleted \/ ArmFailed) /\ UNCHANGED stairVars
  <2>1. /\ state' = state /\ arm' \in {0, arm} /\ balls' = balls /\ vis' = vis
    BY <1>2 DEF ArmCompleted, ArmFailed, stairVars
  <2> QED BY <2>1, LimitKept DEF LimitFollowed
<1>3. CASE (PublishReply \/ ReleaseTransfer) /\ UNCHANGED stairVars
  <2>1. state' = state /\ arm' = arm /\ balls' = balls
    BY <1>3, Zenon DEF PublishReply, ReleaseTransfer, stairVars
  <2>2. vis \in VisionType
    BY LimitContext DEF SafeRecord
  <2>3. vis'.phase = vis.phase /\ vis'.stopReq = vis.stopReq
    <3>1. CASE PublishReply
      <4>1. PICK m \in replies(vis.io) :
                vis' = [vis EXCEPT !.mail = m, !.pending = TRUE]
        BY <3>1, Zenon DEF PublishReply
      <4> QED BY <2>2, <4>1 DEF VisionType
    <3>2. CASE ReleaseTransfer
      <4>1. vis' = [vis EXCEPT !.inflight = FALSE, !.io = "none"]
        BY <3>2 DEF ReleaseTransfer
      <4> QED BY <2>2, <4>1 DEF VisionType
    <3> QED BY <1>3, <3>1, <3>2
  <2> QED BY <2>1, <2>3, LimitKept DEF LimitFollowed
<1>4. CASE SubmitStop /\ UNCHANGED stairVars
  BY <1>1, <1>4 DEF SubmitStop, ctxVars
<1> QED BY <1>1, <1>2, <1>3, <1>4 DEF Chassis, World, ctxVars

LEMMA StepLimit ==
    ASSUME Inductive, LimitFollowed, [Next]_vars
    PROVE  LimitFollowed'
<1>1. CASE UNCHANGED vars
  BY <1>1, OthersKeepLimit DEF vars
<1>2. CASE MissionLoop /\ UNCHANGED <<stairVars, chassisVars>>
  <2>1. CASE HandleCommand
    BY <1>2, <2>1, CommandKeepsLimit DEF HandleCommand, stairVars
  <2>2. CASE ReadNext \/ AckProcessed \/ CheckTimeout(Timed)
    BY <1>2, <2>2, ProcessKeepsLimit DEF stairVars
  <2>3. CASE Wake \/ WakeLate(Timed) \/ CommandsDone \/ EventsDone \/ ArmDone
               \/ VisionDone \/ NothingToProcess
    BY <1>2, <2>3, OthersKeepLimit
    DEF Wake, WakeLate, CommandsDone, EventsDone, ArmDone, VisionDone,
        NothingToProcess
  <2> QED BY <1>2, <2>1, <2>2, <2>3 DEF MissionLoop
<1>3. CASE StoreSeesStop
  BY <1>3, CommandKeepsLimit DEF StoreSeesStop, stairVars
<1> QED
  BY <1>1, <1>2, <1>3, ChassisKeepsLimit, ArmKeepsLimit, VisionKeepsLimit,
     OthersKeepLimit DEF Next, Mission, Over
-----------------------------------------------------------------------------
(* The two queues, read as the names of what they hold.                    *)

LEMMA OrdersSent ==
    ASSUME QueueTyped, NEW type, NEW id, cmdQ' = Sent(type, id)
    PROVE  Orders' = Append(Orders, type)
<1>1. cmdQ \in Seq(Commands) /\ cmdQ' = Append(cmdQ, [type |-> type, id |-> id])
  BY DEF QueueTyped, Sent, Command
<1>2. /\ Len(cmdQ') = Len(cmdQ) + 1 /\ DOMAIN cmdQ' = 1..(Len(cmdQ) + 1)
      /\ \A i \in 1..Len(cmdQ) : cmdQ'[i] = cmdQ[i]
      /\ cmdQ'[Len(cmdQ) + 1].type = type
  BY <1>1
<1>3. /\ Orders = [i \in 1..Len(cmdQ) |-> cmdQ[i].type]
      /\ Orders' = [i \in 1..(Len(cmdQ) + 1) |-> cmdQ'[i].type]
  BY <1>1, <1>2 DEF Orders
<1> QED BY <1>1, <1>2, <1>3

LEMMA OrdersTaken ==
    ASSUME QueueTyped, TakeCommand
    PROVE  /\ Orders # <<>> /\ NextCommand.type = Head(Orders)
           /\ Orders' = Tail(Orders) /\ NextCommand.id \in Nat
<1>1. /\ cmdQ \in Seq(Commands) /\ cmdQ # <<>> /\ cmdQ' = Tail(cmdQ)
      /\ NextCommand = cmdQ[1] /\ NextCommand \in Commands
  BY DEF QueueTyped, TakeCommand, NextCommand
<1>2. /\ Len(cmdQ) \in Nat \ {0} /\ DOMAIN cmdQ = 1..Len(cmdQ)
      /\ DOMAIN cmdQ' = 1..(Len(cmdQ) - 1)
      /\ \A i \in 1..(Len(cmdQ) - 1) : cmdQ'[i] = cmdQ[i + 1]
  BY <1>1
<1>3. /\ Orders = [i \in 1..Len(cmdQ) |-> cmdQ[i].type]
      /\ Orders' = [i \in 1..(Len(cmdQ) - 1) |-> cmdQ'[i].type]
  BY <1>1, <1>2 DEF Orders
<1>4. Orders \in Seq(CommandTypes) /\ Len(Orders) = Len(cmdQ)
  <2>1. \A i \in 1..Len(cmdQ) : cmdQ[i] \in Commands
    BY <1>1
  <2>2. \A i \in 1..Len(cmdQ) : cmdQ[i].type \in CommandTypes
    BY <2>1 DEF Commands
  <2> QED BY <1>2, <1>3, <2>2
<1>5. Orders # <<>> /\ Head(Orders) = Orders[1] /\ Orders[1] = NextCommand.type
  BY <1>1, <1>2, <1>3, <1>4
<1>6. Orders' = Tail(Orders)
  BY <1>2, <1>3, <1>4
<1> QED BY <1>1, <1>5, <1>6, IdMaxAssumption DEF Commands

LEMMA ReportsPosted ==
    ASSUME evtQ \in Seq(EventType), NEW type \in EventNames, NEW id \in Nat,
           NEW ok \in BOOLEAN, link_post(type, id, ok)
    PROVE  /\ evtQ' \in Seq(EventType)
           /\ Reports' = Reports \/ Reports' = Append(Reports, type)
<1>1. CASE evtQ' = evtQ
  BY <1>1 DEF Reports
<1>2. CASE evtQ' = Append(evtQ, Event(type, id, ok))
  <2>1. Event(type, id, ok) \in EventType /\ Event(type, id, ok).type = type
    BY DEF Event, EventType
  <2>2. /\ evtQ' \in Seq(EventType)
        /\ Len(evtQ') = Len(evtQ) + 1 /\ DOMAIN evtQ' = 1..(Len(evtQ) + 1)
        /\ \A i \in 1..Len(evtQ) : evtQ'[i] = evtQ[i]
        /\ evtQ'[Len(evtQ) + 1].type = type
    BY <1>2, <2>1
  <2>3. /\ Reports = [i \in 1..Len(evtQ) |-> evtQ[i].type]
        /\ Reports' = [i \in 1..(Len(evtQ) + 1) |-> evtQ'[i].type]
    BY <2>2 DEF Reports
  <2> QED BY <2>2, <2>3
<1> QED BY <1>1, <1>2 DEF link_post

LEMMA ReportsTaken ==
    ASSUME evtQ \in Seq(EventType), evtQ # <<>>, evtQ' = Tail(evtQ)
    PROVE  /\ evtQ' \in Seq(EventType)
           /\ Reports # <<>> /\ Head(evtQ).type = Head(Reports)
           /\ Reports' = Tail(Reports)
<1>1. /\ evtQ' \in Seq(EventType) /\ Head(evtQ) = evtQ[1]
      /\ Len(evtQ) \in Nat \ {0} /\ DOMAIN evtQ = 1..Len(evtQ)
      /\ DOMAIN evtQ' = 1..(Len(evtQ) - 1)
      /\ \A i \in 1..(Len(evtQ) - 1) : evtQ'[i] = evtQ[i + 1]
  OBVIOUS
<1>2. /\ Reports = [i \in 1..Len(evtQ) |-> evtQ[i].type]
      /\ Reports' = [i \in 1..(Len(evtQ) - 1) |-> evtQ'[i].type]
  BY <1>1 DEF Reports
<1>3. Reports \in Seq(EventNames) /\ Len(Reports) = Len(evtQ)
  <2>1. \A i \in 1..Len(evtQ) : evtQ[i] \in EventType
    OBVIOUS
  <2>2. \A i \in 1..Len(evtQ) : evtQ[i].type \in EventNames
    BY <2>1 DEF EventType
  <2> QED BY <1>1, <1>2, <2>2
<1>4. Reports # <<>> /\ Head(Reports) = Reports[1]
  BY <1>1, <1>3
<1>5. Reports' = Tail(Reports)
  BY <1>1, <1>2, <1>3
<1> QED BY <1>1, <1>2, <1>4, <1>5

LEMMA QueuesNamed ==
    ASSUME QueueTyped, evtQ \in Seq(EventType)
    PROVE  Orders \in Seq(CommandTypes) /\ Reports \in Seq(EventNames)
<1>1. /\ cmdQ \in Seq(Commands) /\ evtQ \in Seq(EventType)
      /\ DOMAIN cmdQ = 1..Len(cmdQ) /\ DOMAIN evtQ = 1..Len(evtQ)
  BY DEF QueueTyped
<1>2. \A i \in 1..Len(cmdQ) : cmdQ[i].type \in CommandTypes
  <2>1. \A i \in 1..Len(cmdQ) : cmdQ[i] \in Commands
    BY <1>1
  <2> QED BY <2>1 DEF Commands
<1>3. \A i \in 1..Len(evtQ) : evtQ[i].type \in EventNames
  <2>1. \A i \in 1..Len(evtQ) : evtQ[i] \in EventType
    BY <1>1
  <2> QED BY <2>1 DEF EventType
<1> QED BY <1>1, <1>2, <1>3 DEF Orders, Reports

\* What happens to queues of at most two names.
LEMMA AppendSecond ==
    ASSUME NEW S, NEW s \in Seq(S), NEW a \in S, NEW b \in S, s = <<a>>
    PROVE  Append(s, b) = <<a, b>>
<1> DEFINE t == Append(s, b)
<1>1. Len(s) = 1 /\ s[1] = a
  OBVIOUS
<1>2. t \in Seq(S)
  OBVIOUS
<1>3. Len(t) = Len(s) + 1
  OBVIOUS
<1>4. t[Len(s) + 1] = b
  OBVIOUS
<1>5. \A i \in 1..Len(s) : t[i] = s[i]
  OBVIOUS
<1> HIDE DEF t
<1>6. t \in Seq(S) /\ Len(t) = 2 /\ t[1] = a /\ t[2] = b
  BY <1>1, <1>2, <1>3, <1>4, <1>5
<1>7. t = <<a, b>>
  BY <1>6
<1> QED BY <1>7 DEF t

LEMMA Short ==
    ASSUME NEW S, NEW a \in S, NEW b \in S
    PROVE  /\ Append(<<>>, a) = <<a>> /\ Append(<<a>>, b) = <<a, b>>
           /\ Head(<<a>>) = a /\ Tail(<<a>>) = <<>>
           /\ Head(<<a, b>>) = a /\ Tail(<<a, b>>) = <<b>>
<1>1. Append(<<>>, a) = <<a>>
  OBVIOUS
<1>2. Append(<<a>>, b) = <<a, b>>
  <2>1. <<a>> \in Seq(S)
    OBVIOUS
  <2> QED BY <2>1, AppendSecond
<1>3. Head(<<a>>) = a /\ Tail(<<a>>) = <<>>
  OBVIOUS
<1>4. Head(<<a, b>>) = a /\ Tail(<<a, b>>) = <<b>>
  OBVIOUS
<1> QED BY <1>1, <1>2, <1>3, <1>4

-----------------------------------------------------------------------------
(* The base.                                                               *)

\* A command that the chassis task does not expect stops the base at most.
LEMMA DefaultFits ==
    ASSUME evtQ \in Seq(EventType), NEW c, c.id \in Nat, cmd_default(c),
           driving \in BOOLEAN
    PROVE  /\ evtQ' \in Seq(EventType) /\ (driving' => driving)
           /\ Reports' = Reports \/ Reports' = Append(Reports, "STOPPED")
           /\ c.type = "STOP" => ~driving'
<1>1. CASE c.type = "STOP"
  BY <1>1, ReportsPosted DEF cmd_default, EventNames
<1>2. CASE c.type # "STOP"
  BY <1>2 DEF cmd_default, Reports
<1> QED BY <1>1, <1>2

LEMMA BaseKept ==
    ASSUME ChassisTypeOK, LegInRange, BaseFits, ChassisNext
    PROVE  BaseFits'
<1> USE DEF BaseFits
<1>0. /\ cpc \in ChassisStages /\ leg \in 0..3
      /\ {driving, moving, paused, camReady} \subseteq BOOLEAN
  BY DEF ChassisTypeOK
<1>d. ASSUME NEW c, cmd_default(c)
      PROVE  /\ driving' => driving
             /\ c.type = "STOP" => ~driving'
  BY <1>d DEF cmd_default
<1>1. CASE AwaitGo
  BY <1>0, <1>1, <1>d DEF AwaitGo
<1>2. CASE RouteDone
  BY <1>0, <1>2 DEF RouteDone, sweepVars, LegInRange
<1>3. CASE EnterLayer
  BY <1>0, <1>3 DEF EnterLayer
<1>4. CASE StairHook
  <2>1. cpc \in PollStages /\ leg' = leg
    BY <1>4 DEF StairHook
  <2>2. CASE HookStop
    BY <1>0, <1>d, <2>1, <2>2 DEF HookStop
  <2>3. CASE HookCamReady
    BY <1>0, <2>1, <2>3 DEF HookCamReady, PollAgain, PollStages
  <2>4. CASE HookStairStop
    BY <1>0, <2>1, <2>4 DEF HookStairStop, PollAgain, PollStages
  <2>5. CASE HookResume
    BY <1>0, <2>1, <2>5 DEF HookResume, PollAgain, PollStages
  <2>6. CASE HookOther
    BY <1>0, <2>1, <2>6 DEF HookOther, PollAgain, PollStages
  <2> QED BY <1>4, <2>2, <2>3, <2>4, <2>5, <2>6 DEF StairHook
<1>5. CASE Repost \/ SettleOver \/ ScanTick \/ SkipPass \/ SweepError
  <2>1. CASE Repost      BY <1>0, <2>1 DEF Repost, sweepVars
  <2>2. CASE SettleOver  BY <1>0, <2>2 DEF SettleOver, sweepVars
  <2>3. CASE ScanTick    BY <1>0, <2>3 DEF ScanTick
  <2>4. CASE SkipPass    BY <1>0, <2>4 DEF SkipPass, sweepVars
  <2>5. CASE SweepError  BY <1>0, <2>5 DEF SweepError, sweepVars
  <2> QED BY <1>5, <2>1, <2>2, <2>3, <2>4, <2>5
<1>6. CASE DriveLayer
  BY <1>0, <1>6 DEF DriveLayer, Measuring, stair_drive, sweepVars
<1>7. CASE DriveLastLayer
  <2>1. finish_sweep \/ stair_drive
    BY <1>7 DEF DriveLastLayer
  <2> QED BY <1>0, <1>7, <2>1
          DEF DriveLastLayer, Measuring, finish_sweep, stair_drive
<1>8. CASE AwaitNext
  BY <1>0, <1>8, <1>d DEF AwaitNext, sweepVars
<1> QED
  BY <1>1, <1>2, <1>3, <1>4, <1>5, <1>6, <1>7, <1>8 DEF ChassisNext

-----------------------------------------------------------------------------
(* The rendezvous on the side of the chassis task, one step at a time.     *)

\* What a step of the chassis task or of the floor leaves alone.
AtMission == UNCHANGED <<state, layer, vis, balls, arm, got, pc>>

\* What a step of the chassis task may rely on.
Met ==
    /\ QueueTyped /\ ChassisTypeOK /\ LegInRange /\ state \in StairStates
    /\ MeetInv

LEMMA NewsKnown ==
    ASSUME Met
    PROVE  /\ cpc = "ready" => Segments[leg] \in {"STAIR_LOW", "STAIR_HIGH", "STAIR_MID"}
           /\ cpc # "ready" => News = {<<>>}
           /\ cpc # "ready" => \A t : NewsAfter(t) = {<<>>, <<t>>}
           /\ cpc # "ready" => \A t : NewsBefore(t) = {<<>>, <<t>>}
<1>1. cpc = "ready" => leg \in 1..3
  BY DEF Met, MeetInv, BaseFits, ChassisTypeOK
<1>2. \A l \in 1..3 : Segments[l] \in {"STAIR_LOW", "STAIR_HIGH", "STAIR_MID"}
  BY DEF Segments
<1> QED BY <1>1, <1>2 DEF News, NewsAfter, NewsBefore

LEMMA NoFinishYet ==
    ASSUME Met, Climbing, state \notin RestStates
    PROVE  \A i \in DOMAIN Reports : Reports[i] # "STAIRS_FINISHED"
<1> DEFINE Quiet(q) == \A i \in DOMAIN q : q[i] # "STAIRS_FINISHED"
           n == Segments[leg]
<1>1. Quiet(<<>>)
  OBVIOUS
<1>2. \A a : a # "STAIRS_FINISHED" => Quiet(<<a>>)
  OBVIOUS
<1>3. \A a, b : a # "STAIRS_FINISHED" /\ b # "STAIRS_FINISHED" => Quiet(<<a, b>>)
  OBVIOUS
<1>4. cpc = "ready" => n # "STAIRS_FINISHED"
  BY NewsKnown
<1> HIDE DEF Quiet
<1>5. \A q \in News : Quiet(q)
  BY <1>1, <1>2, <1>4 DEF News
<1>6. \A t : t # "STAIRS_FINISHED" =>
          \A q \in NewsAfter(t) \cup NewsBefore(t) : Quiet(q)
  BY <1>1, <1>2, <1>3, <1>4, <1>5 DEF NewsAfter, NewsBefore
<1>7. \/ Reports = <<>> \/ Reports \in News
      \/ Reports \in NewsAfter("STAIRS_READY")
      \/ Reports \in NewsAfter("STAIR_RESUME")
      \/ Reports \in NewsBefore("STAIR_PAUSE")
  BY DEF Met, Climbing, StairStates, ArmStates, RestStates, ArmWorks
<1>8. Quiet(Reports)
  BY <1>1, <1>5, <1>6, <1>7
<1> QED BY <1>8 DEF Quiet

\* Where the run goes on, and where the sweep has ended.
Meets ==
    /\ Gone' => Leaving'
    /\ ~Gone' => Climbing'

LEMMA ClimbToStairs ==
    ASSUME Met, AtMission, Climbing, state \notin RestStates,
           AwaitGo \/ RouteDone
    PROVE  Meets
<1> USE DEF AtMission
<1>1. /\ QueueTyped /\ evtQ \in Seq(EventType) /\ sweepId \in Nat
      /\ BaseFits /\ LegInRange /\ state \in StairStates
  BY DEF Met, MeetInv, ChassisTypeOK
<1>2. CASE AwaitGo
  <2>1. cpc = "await"
    BY <1>2 DEF AwaitGo
  <2>2. state = "WAIT_STAIRS" /\ Orders = <<"GO_STAIRS">> /\ Reports = <<>>
    BY <1>1, <2>1 DEF Climbing, Waiting, Parked, Underway, ArmWorks,
                      StairStates, ArmStates
  <2>3. NextCommand.type = Head(Orders) /\ Orders' = Tail(Orders)
    BY <1>1, <1>2, OrdersTaken DEF AwaitGo
  <2>4. NextCommand.type = "GO_STAIRS" /\ Orders' = <<>>
    BY <2>2, <2>3, Short
  <2>5. cpc' = "route" /\ Reports' = Reports
    BY <1>2, <2>4 DEF AwaitGo, Reports
  <2> QED BY <2>2, <2>4, <2>5 DEF Meets, Gone, Climbing, ArmWorks
<1>3. CASE RouteDone
  <2>1. cpc = "route"
    BY <1>3 DEF RouteDone
  <2>2. state = "WAIT_STAIRS" /\ Orders = <<>> /\ Reports = <<>>
    BY <1>1, <2>1 DEF Climbing, Waiting, Parked, Underway, ArmWorks,
                      StairStates, ArmStates
  <2>3. /\ cpc' = "enter" /\ ~driving' /\ leg' = 0 /\ ~paused'
        /\ Orders' = Orders
    BY <1>1, <1>3, <2>1 DEF RouteDone, sweepVars, LegInRange, BaseFits, Orders
  <2>4. Reports' = Reports \/ Reports' = Append(Reports, "STAIRS_READY")
    BY <1>1, <1>3, ReportsPosted DEF RouteDone, EventNames
  <2>5. Reports' \in {<<>>, <<"STAIRS_READY">>}
    BY <2>2, <2>4, Short
  <2>6. NewsAfter("STAIRS_READY")' = {<<>>, <<"STAIRS_READY">>}
    BY <2>3 DEF NewsAfter, News
  <2>7. Waiting'
    BY <2>2, <2>3 DEF Waiting
  <2> QED BY <2>2, <2>3, <2>5, <2>6, <2>7 DEF Meets, Gone, Climbing, ArmWorks
<1> QED BY <1>2, <1>3

\* The states in which the base may be under way.
Moving == {"STAIR_SCANNING", "STAIR_WAIT_PAUSE", "STAIR_WAIT_RESUME"}

LEMMA ClimbEnter ==
    ASSUME Met, AtMission, Climbing, state \notin RestStates, EnterLayer
    PROVE  Meets
<1> USE DEF AtMission
<1> DEFINE n == Segments[leg + 1]
<1>1. /\ QueueTyped /\ evtQ \in Seq(EventType) /\ sweepId \in Nat
      /\ BaseFits /\ state \in StairStates /\ leg \in 0..2
      /\ {driving, moving, paused, camReady} \subseteq BOOLEAN
  BY DEF Met, MeetInv, ChassisTypeOK, EnterLayer, BaseFits
<1>2. /\ cpc = "enter" /\ cpc' = "ready" /\ leg' = leg + 1
      /\ ~camReady' /\ paused' = paused /\ Orders' = Orders
      /\ driving' = (driving /\ ~moving)
  BY DEF EnterLayer, Orders
<1>3. n \in EventNames /\ Segments'[leg'] = n
  BY <1>1, <1>2 DEF Segments, EventNames
<1> HIDE DEF n
<1>4. Reports' = Reports \/ Reports' = Append(Reports, n)
  BY <1>1, <1>3, ReportsPosted DEF EnterLayer, n
<1>5. /\ ~paused' /\ ~driving' /\ Seen' = leg
      /\ leg > 0 => Seen = leg
  BY <1>1, <1>2 DEF BaseFits, Seen
<1>6. Append(<<>>, n) = <<n>>
  BY <1>3, Short
<1>7. \A t \in EventNames : Append(<<t>>, n) = <<t, n>>
  BY <1>3, Short
<1>8. /\ News = {<<>>}
      /\ \A t : NewsAfter(t) = {<<>>, <<t>>}
      /\ \A t : NewsBefore(t) = {<<>>, <<t>>}
  BY <1>2, NewsKnown
<1>9. /\ News' = {<<>>, <<n>>}
      /\ \A t : NewsAfter(t)' = {<<>>, <<n>>, <<t>>, <<t, n>>}
      /\ \A t : {<<>>, <<n>>, <<t>>} \subseteq NewsBefore(t)'
  BY <1>2, <1>3 DEF News, NewsAfter, NewsBefore
<1>10. ASSUME Reports \in {<<>>} PROVE Reports' \in News'
  BY <1>4, <1>6, <1>9, <1>10
<1>11. ASSUME NEW t \in EventNames, Reports \in NewsAfter(t)
       PROVE  Reports' \in NewsAfter(t)'
  BY <1>4, <1>6, <1>7, <1>8, <1>9, <1>11
<1>12. CASE state = "WAIT_STAIRS"
  <2>1. Waiting /\ Reports \in NewsAfter("STAIRS_READY") /\ leg = 0
    BY <1>2, <1>12 DEF Climbing, Waiting
  <2>2. Reports' \in NewsAfter("STAIRS_READY")' /\ leg' = 1
    BY <1>1, <1>2, <1>11, <2>1 DEF EventNames
  <2>3. Waiting'
    BY <1>2, <1>5, <2>1 DEF Waiting
  <2> QED BY <1>2, <1>12, <2>2, <2>3 DEF Meets, Gone, Climbing, ArmWorks
<1>13. CASE state \in {"STAIR_WAIT_POSE", "STAIR_WAIT_LAYER"}
  <2>1. Waiting /\ layer = "NONE" /\ Reports \in News
    BY <1>1, <1>2, <1>13 DEF Climbing, Waiting, Fits
  <2>2. Waiting' /\ layer' = "NONE" /\ Reports' \in News'
    BY <1>2, <1>5, <1>8, <1>10, <2>1 DEF Waiting
  <2> QED BY <1>2, <1>13, <2>2 DEF Meets, Gone, Climbing, ArmWorks
<1>14. CASE state \in Moving
  <2>1. Underway' /\ cpc # "ready" /\ ~Parked
    BY <1>2, <1>5, <1>14 DEF Underway, Parked
  <2>3. Fits(Seen) => leg > 0 /\ Fits(Seen)'
    BY <1>1, <1>2, <1>5 DEF Fits, Seen, BaseFits
  <2>4. CASE state = "STAIR_SCANNING"
    BY <1>2, <1>8, <1>10, <2>1, <2>3, <2>4
    DEF Meets, Gone, Climbing, ArmWorks
  <2>5. CASE state = "STAIR_WAIT_PAUSE"
    BY <1>2, <1>8, <1>10, <2>1, <2>3, <2>5
    DEF Meets, Gone, Climbing, ArmWorks
  <2>6. CASE state = "STAIR_WAIT_RESUME"
    <3>1. Fits(Seen) /\ Orders = <<>> /\ Reports \in NewsAfter("STAIR_RESUME")
      BY <2>1, <2>6 DEF Climbing
    <3>2. Reports' \in NewsAfter("STAIR_RESUME")'
      BY <1>11, <3>1 DEF EventNames
    <3> QED BY <1>2, <2>1, <2>3, <2>6, <3>1, <3>2
            DEF Meets, Gone, Climbing, ArmWorks
  <2> QED BY <1>14, <2>4, <2>5, <2>6 DEF Moving
<1>15. state \in {"WAIT_STAIRS", "STAIR_WAIT_POSE", "STAIR_WAIT_LAYER"} \cup Moving
  BY <1>1, <1>2 DEF Climbing, Waiting, Parked, Fits, StairStates, ArmStates,
                    Moving, ArmWorks
<1> QED BY <1>12, <1>13, <1>14, <1>15

\* A command reaches the sweep.
LEMMA ClimbHook ==
    ASSUME Met, AtMission, Climbing, state \notin RestStates, StairHook
    PROVE  Meets
<1> USE DEF AtMission
<1>1. /\ QueueTyped /\ evtQ \in Seq(EventType) /\ sweepId \in Nat
      /\ BaseFits /\ state \in StairStates /\ leg \in 0..3
      /\ {driving, moving, paused, camReady} \subseteq BOOLEAN
  BY DEF Met, MeetInv, ChassisTypeOK
<1>2. /\ cpc \in PollStages /\ leg' = leg
      /\ Orders # <<>> /\ NextCommand.type = Head(Orders)
      /\ Orders' = Tail(Orders)
  BY <1>1, OrdersTaken DEF StairHook
<1>3. leg > 0 /\ Segments[leg] \in EventNames
  BY <1>1, <1>2, NewsKnown DEF BaseFits, PollStages, Segments, EventNames
<1>c. ASSUME NextCommand.type = "CAM_READY"
      PROVE  /\ camReady' = TRUE /\ paused' = paused /\ Reports' = Reports
             /\ cpc = "ready" => cpc' \in {"settle", "scan"}
  BY <1>c DEF StairHook, HookStop, HookCamReady, HookStairStop, HookResume,
              HookOther, Reports
<1>4. CASE state = "STAIR_SCANNING" \/ Orders = <<"CAM_READY", "STAIR_STOP">>
  <2>1. /\ ~paused /\ cpc = "ready" /\ Fits(leg) /\ Reports = <<>>
        /\ \/ state = "STAIR_SCANNING" /\ Orders = <<"CAM_READY">>
           \/ /\ state = "STAIR_WAIT_PAUSE"
              /\ Orders = <<"CAM_READY", "STAIR_STOP">>
    BY <1>1, <1>2, <1>4 DEF Climbing, Waiting, Underway, ArmWorks, StairStates,
                            ArmStates, PollStages
  <2>2. /\ NextCommand.type = "CAM_READY"
        /\ state = "STAIR_SCANNING" => Orders' = <<>>
        /\ state = "STAIR_WAIT_PAUSE" => Orders' = <<"STAIR_STOP">>
    <3>1. CASE Orders = <<"CAM_READY">>
      BY <1>2, <2>1, <3>1
    <3>2. CASE Orders = <<"CAM_READY", "STAIR_STOP">>
      BY <1>2, <2>1, <3>2
    <3> QED BY <2>1, <3>1, <3>2
  <2>3. Reports' = <<>> /\ <<>> \in News'
    BY <1>c, <2>1, <2>2 DEF News
  <2>4. /\ Underway' /\ Seen' = leg
    <3>1. camReady' = TRUE /\ leg' = leg /\ cpc' \in {"settle", "scan"}
      BY <1>2, <1>c, <2>1, <2>2
    <3>2. ~paused'
      BY <1>c, <2>1, <2>2
    <3> QED BY <3>1, <3>2 DEF Seen, Underway
  <2>5. Fits(Seen)'
    BY <2>1, <2>4 DEF Fits
  <2> QED BY <1>c, <2>1, <2>2, <2>3, <2>4, <2>5 DEF Meets, Gone, Climbing, ArmWorks
<1>5. CASE state = "STAIR_WAIT_PAUSE" /\ Orders # <<"CAM_READY", "STAIR_STOP">>
  <2>1. ~paused /\ Orders = <<"STAIR_STOP">> /\ Fits(Seen) /\ Reports \in News
    BY <1>2, <1>5 DEF Climbing, Underway
  <2>2. NextCommand.type = "STAIR_STOP" /\ Orders' = <<>>
    BY <1>2, <2>1, Short
  <2>3. HookStairStop
    BY <2>2 DEF StairHook, HookStop, HookCamReady, HookResume, HookOther
  <2>4. /\ paused' = TRUE /\ camReady' = camReady
        /\ cpc' \in {"ready", "settle", "body"}
        /\ cpc' = "ready" <=> cpc = "ready"
    BY <1>2, <2>3 DEF HookStairStop, PollAgain, PollStages
  <2>5. Reports' = Reports \/ Reports' = Append(Reports, "STAIR_PAUSE")
    BY <1>1, <2>3, ReportsPosted DEF HookStairStop, EventNames
  <2>6. Reports' \in NewsBefore("STAIR_PAUSE")'
    <3>1. Append(<<>>, "STAIR_PAUSE") = <<"STAIR_PAUSE">>
      OBVIOUS
    <3>2. \A n \in EventNames : Append(<<n>>, "STAIR_PAUSE") = <<n, "STAIR_PAUSE">>
      <4>1. "STAIR_PAUSE" \in EventNames
        BY DEF EventNames
      <4>2. ASSUME NEW n \in EventNames
            PROVE  Append(<<n>>, "STAIR_PAUSE") = <<n, "STAIR_PAUSE">>
        BY <4>1, Short
      <4> QED BY <4>2
    <3> QED BY <1>2, <1>3, <2>1, <2>4, <2>5, <3>1, <3>2 DEF News, NewsBefore
  <2>7. Parked' /\ Fits(Seen)'
    BY <1>2, <2>1, <2>4 DEF Parked, Fits, Seen
  <2> QED BY <1>5, <2>2, <2>4, <2>6, <2>7 DEF Meets, Gone, Climbing, ArmWorks
<1>6. CASE state = "STAIR_WAIT_RESUME"
  <2>1. /\ Parked /\ Orders = <<"STAIR_RESUME">> /\ Fits(Seen) /\ Reports = <<>>
    BY <1>2, <1>6 DEF Climbing
  <2>2. NextCommand.type = "STAIR_RESUME" /\ Orders' = <<>> /\ paused
    BY <1>2, <2>1, Short DEF Parked
  <2>3. HookResume
    BY <2>2 DEF StairHook, HookStop, HookCamReady, HookStairStop, HookOther
  <2>4. /\ paused' = FALSE /\ camReady' = camReady
        /\ cpc' \in {"ready", "settle", "body", "repost"}
    BY <1>2, <2>3 DEF HookResume, PollAgain, PollStages
  <2>5. Reports' = Reports \/ Reports' = Append(Reports, "STAIR_RESUME")
    BY <1>1, <2>3, ReportsPosted DEF HookResume, EventNames
  <2>6. Reports' \in {<<>>, <<"STAIR_RESUME">>}
    <3>1. Append(<<>>, "STAIR_RESUME") = <<"STAIR_RESUME">>
      OBVIOUS
    <3> QED BY <2>1, <2>5, <3>1
  <2>7. {<<>>, <<"STAIR_RESUME">>} \subseteq NewsAfter("STAIR_RESUME")'
    BY DEF NewsAfter, News
  <2>8. Underway' /\ Fits(Seen)'
    BY <1>2, <2>1, <2>4 DEF Underway, Fits, Seen
  <2> QED BY <1>6, <2>2, <2>4, <2>6, <2>7, <2>8
          DEF Meets, Gone, Climbing, ArmWorks
<1>7. state \in Moving
  BY <1>1, <1>2 DEF Climbing, Waiting, Parked, StairStates, ArmStates,
                    Moving, ArmWorks, PollStages
<1> QED BY <1>4, <1>5, <1>6, <1>7 DEF Moving

\* The sweep goes on, announces its segment again, or ends.
LEMMA ClimbSweep ==
    ASSUME Met, AtMission, Climbing, state \notin RestStates,
           Repost \/ SettleOver \/ ScanTick \/ SkipPass
    PROVE  Meets
<1> USE DEF AtMission
<1>1. /\ QueueTyped /\ evtQ \in Seq(EventType) /\ sweepId \in Nat
      /\ BaseFits /\ state \in StairStates /\ leg \in 0..3
      /\ {driving, moving, paused, camReady} \subseteq BOOLEAN
  BY DEF Met, MeetInv, ChassisTypeOK
<1>2. /\ leg' = leg /\ paused' = paused /\ camReady' = camReady
      /\ Orders' = Orders
  BY DEF Repost, SettleOver, ScanTick, SkipPass, sweepVars, linkVars, Orders
<1>3. Fits(Seen)' = Fits(Seen)
  BY <1>2 DEF Fits, Seen
<1>4. cpc # "ready" /\ cpc # "enter"
  BY DEF Repost, SettleOver, ScanTick, SkipPass
<1>5. CASE SettleOver \/ ScanTick \/ SkipPass
  <2>1. /\ cpc \in {"settle", "scan", "body"} /\ cpc' \in {"scan", "body"}
        /\ Reports' = Reports
    BY <1>5 DEF SettleOver, ScanTick, SkipPass, linkVars, Reports
  <2>2. /\ News' = News
        /\ \A t : NewsAfter(t)' = NewsAfter(t) /\ NewsBefore(t)' = NewsBefore(t)
    BY <2>1 DEF News, NewsAfter, NewsBefore
  <2>3. Underway' = Underway /\ Parked' = Parked /\ ~Gone' /\ ~Waiting
    BY <1>2, <2>1 DEF Underway, Parked, Gone, Waiting
  <2>4. \/ state \in Moving
        \/ /\ state \in {"STAIR_WAIT_ACK", "STAIR_WAIT_VISION_RESUME"} \cup ArmWorks
           /\ Parked /\ Orders = <<>> /\ Fits(Seen) /\ Reports = <<>>
    BY <1>1, <2>1, <2>3 DEF Climbing, StairStates, ArmStates, Moving, ArmWorks
  <2>5. CASE state \in Moving
    BY <1>2, <1>3, <1>4, <2>1, <2>2, <2>3, <2>5
    DEF Meets, Climbing, ArmWorks, Moving
  <2>6. CASE state \notin Moving
    BY <1>2, <1>3, <2>1, <2>3, <2>4, <2>6 DEF Meets, Climbing, ArmWorks, Moving
  <2> QED BY <2>5, <2>6
<1>6. CASE Repost
  <2> DEFINE n == Segments[leg]
  <2>1. cpc = "repost" /\ cpc' = "ready" /\ leg > 0
    BY <1>1, <1>6 DEF Repost, BaseFits
  <2>2. n \in EventNames /\ Segments'[leg'] = n
    BY <1>1, <1>2, <2>1 DEF Segments, EventNames
  <2> HIDE DEF n
  <2>3. Reports' = Reports \/ Reports' = Append(Reports, n)
    BY <1>1, <1>6, <2>2, ReportsPosted DEF Repost, n
  <2>4. Append(<<>>, n) = <<n>> /\ \A t \in EventNames : Append(<<t>>, n) = <<t, n>>
    BY <2>2, Short
  <2>5. /\ News = {<<>>} /\ News' = {<<>>, <<n>>}
        /\ \A t : NewsAfter(t) = {<<>>, <<t>>}
        /\ \A t : NewsAfter(t)' = {<<>>, <<n>>, <<t>>, <<t, n>>}
    BY <2>1, <2>2 DEF News, NewsAfter
  <2>6. Underway' = Underway /\ ~Parked /\ ~Gone' /\ ~Waiting
    BY <1>2, <2>1 DEF Underway, Parked, Gone, Waiting
  <2>7. state \in Moving
    BY <1>1, <2>1, <2>6 DEF Climbing, StairStates, ArmStates, Moving, ArmWorks
  <2>8. CASE state \in {"STAIR_SCANNING", "STAIR_WAIT_PAUSE"}
    <3>1. Underway /\ Fits(Seen) /\ Reports = <<>>
      BY <1>4, <2>5, <2>6, <2>8 DEF Climbing
    <3>2. Reports' \in News'
      BY <2>3, <2>4, <2>5, <3>1
    <3> QED BY <1>2, <1>3, <1>4, <2>6, <2>8, <3>1, <3>2
            DEF Meets, Climbing, ArmWorks
  <2>9. CASE state = "STAIR_WAIT_RESUME"
    <3>1. /\ Underway /\ Fits(Seen) /\ Orders = <<>>
          /\ Reports \in {<<>>, <<"STAIR_RESUME">>}
      BY <2>5, <2>6, <2>9 DEF Climbing
    <3>2. Reports' \in NewsAfter("STAIR_RESUME")'
      BY <2>3, <2>4, <2>5, <3>1 DEF EventNames
    <3> QED BY <1>2, <1>3, <2>6, <2>9, <3>1, <3>2 DEF Meets, Climbing, ArmWorks
  <2> QED BY <2>7, <2>8, <2>9 DEF Moving
<1> QED BY <1>5, <1>6

LEMMA ClimbDrive ==
    ASSUME Met, AtMission, Climbing, state \notin RestStates,
           SweepError \/ DriveLayer \/ DriveLastLayer
    PROVE  Meets
<1> USE DEF AtMission
<1>1. /\ QueueTyped /\ evtQ \in Seq(EventType) /\ sweepId \in Nat
      /\ BaseFits /\ state \in StairStates
  BY DEF Met, MeetInv, ChassisTypeOK
<1>2. /\ cpc = "body" /\ ~paused
      /\ leg' = leg /\ paused' = paused /\ camReady' = camReady
      /\ Orders' = Orders
  BY DEF SweepError, DriveLayer, DriveLastLayer, Measuring, sweepVars, linkVars,
         Orders
<1>3. /\ News = {<<>>}
      /\ \A t : NewsAfter(t) = {<<>>, <<t>>}
  BY <1>2, NewsKnown DEF News
<1>4. Underway /\ ~Parked /\ ~Waiting
  BY <1>2 DEF Underway, Parked, Waiting
<1>5. state \in Moving
  BY <1>1, <1>2, <1>4 DEF Climbing, StairStates, ArmStates, Moving, ArmWorks
<1>6. /\ Fits(Seen) /\ Reports \in {<<>>, <<"STAIR_RESUME">>}
      /\ state # "STAIR_WAIT_RESUME" => Reports = <<>>
  <2>1. CASE state = "STAIR_SCANNING"
    BY <1>2, <1>3, <1>4, <2>1 DEF Climbing
  <2>2. CASE state = "STAIR_WAIT_PAUSE"
    BY <1>2, <1>3, <1>4, <2>2 DEF Climbing
  <2>3. CASE state = "STAIR_WAIT_RESUME"
    BY <1>2, <1>3, <1>4, <2>3 DEF Climbing
  <2> QED BY <1>5, <2>1, <2>2, <2>3 DEF Moving
<1>7. ASSUME ~driving', cpc' = "gone", Reports' = Reports
                \/ Reports' = Append(Reports, "STAIRS_FINISHED")
      PROVE  Meets
  <2> DEFINE Ends(q) == \A i \in DOMAIN q :
                 q[i] \in {"STAIR_RESUME", "STAIRS_FINISHED", "STOPPED"}
  <2>1. /\ Append(<<>>, "STAIRS_FINISHED") = <<"STAIRS_FINISHED">>
        /\ Append(<<"STAIR_RESUME">>, "STAIRS_FINISHED") =
               <<"STAIR_RESUME", "STAIRS_FINISHED">>
    <3>1. "STAIRS_FINISHED" \in EventNames /\ "STAIR_RESUME" \in EventNames
      BY DEF EventNames
    <3> QED BY <3>1, Short
  <2>2. /\ Ends(<<>>) /\ Ends(<<"STAIR_RESUME">>) /\ Ends(<<"STAIRS_FINISHED">>)
        /\ Ends(<<"STAIR_RESUME", "STAIRS_FINISHED">>)
    OBVIOUS
  <2> HIDE DEF Ends
  <2>3. Ends(Reports')
    BY <1>6, <1>7, <2>1, <2>2
  <2> QED BY <1>5, <1>7, <2>3 DEF Ends, Meets, Gone, Leaving, Moving
<1>8. ASSUME cpc' \in {"scan", "enter"}, Reports' = Reports
      PROVE  Meets
  <2>1. Underway' /\ Fits(Seen)' /\ ~Gone'
    BY <1>2, <1>6, <1>8 DEF Underway, Fits, Seen, Gone
  <2>2. /\ News' = {<<>>}
        /\ \A t : NewsAfter(t)' = {<<>>, <<t>>}
    BY <1>8 DEF News, NewsAfter
  <2>3. /\ state = "STAIR_SCANNING" => Orders' = <<>>
        /\ state = "STAIR_WAIT_PAUSE" => Orders' = <<"STAIR_STOP">>
        /\ state = "STAIR_WAIT_RESUME" => Orders' = <<>>
    BY <1>2, <1>4 DEF Climbing
  <2> QED BY <1>5, <1>6, <1>8, <2>1, <2>2, <2>3
          DEF Meets, Climbing, ArmWorks, Moving
<1>9. CASE SweepError
  BY <1>7, <1>9 DEF SweepError, linkVars, Reports
<1>10. CASE DriveLayer
  <2>1. cpc' \in {"scan", "enter"} /\ Reports' = Reports
    BY <1>10 DEF DriveLayer, stair_drive, Reports
  <2> QED BY <1>8, <2>1
<1>11. CASE DriveLastLayer
  <2>1. CASE finish_sweep
    <3>1. Reports' = Reports \/ Reports' = Append(Reports, "STAIRS_FINISHED")
      BY <1>1, <2>1, ReportsPosted DEF finish_sweep, EventNames
    <3> QED BY <1>7, <2>1, <3>1 DEF finish_sweep
  <2>2. CASE stair_drive
    BY <1>8, <2>2 DEF stair_drive, Reports
  <2> QED BY <1>11, <2>1, <2>2 DEF DriveLastLayer
<1> QED BY <1>9, <1>10, <1>11

\* A command taken at rest is a STOP, or finds the arm at rest as well.
LEMMA RestOrders ==
    ASSUME Met, Resting, TakeCommand
    PROVE  arm # 0 => /\ NextCommand.type = "STOP"
                      /\ \A i \in DOMAIN Orders' : Orders'[i] = "STOP"
<1>1. Orders \in Seq(CommandTypes)
  BY QueuesNamed DEF Met, MeetInv
<1>2. Orders # <<>> /\ NextCommand.type = Head(Orders) /\ Orders' = Tail(Orders)
  BY OrdersTaken DEF Met
<1>3. /\ NextCommand.type = Orders[1] /\ 1 \in DOMAIN Orders
      /\ \A i \in DOMAIN Orders' : i + 1 \in DOMAIN Orders
                                   /\ Orders'[i] = Orders[i + 1]
  BY <1>1, <1>2
<1> QED BY <1>3 DEF Resting

LEMMA QuietKept ==
    ASSUME Met, \A i \in DOMAIN Reports : Reports[i] # "STAIRS_FINISHED",
           NEW t \in EventNames, t # "STAIRS_FINISHED",
           Reports' = Reports \/ Reports' = Append(Reports, t)
    PROVE  \A i \in DOMAIN Reports' : Reports'[i] # "STAIRS_FINISHED"
<1>1. Reports \in Seq(EventNames)
  BY QueuesNamed DEF Met, MeetInv
<1> QED BY <1>1

\* At rest the chassis task goes on by itself, but not under a moving arm.
LEMMA RestKept ==
    ASSUME Met, AtMission, Resting, ~Gone, state \in RestStates, ChassisNext
    PROVE  /\ Gone' => Leaving'
           /\ ~Gone' => Resting'
<1> USE DEF AtMission
<1>1. /\ QueueTyped /\ evtQ \in Seq(EventType) /\ sweepId \in Nat
      /\ BaseFits /\ LegInRange /\ leg \in 0..3
      /\ {driving, moving, paused, camReady} \subseteq BOOLEAN
  BY DEF Met, MeetInv, ChassisTypeOK
<1> DEFINE Quiet == \A i \in DOMAIN Reports' : Reports'[i] # "STAIRS_FINISHED"
           Clear == arm # 0 =>
             /\ \A i \in DOMAIN Orders' : Orders'[i] = "STOP"
             /\ \/ cpc' = "ready" \/ (cpc' = "enter" /\ leg' = 0)
                \/ paused' /\ cpc' \in {"settle", "scan", "body"}
<1>g. SUFFICES /\ Gone' => ~driving'
               /\ ~Gone' => Quiet /\ Clear
  BY DEF Leaving, Resting, RestStates
<1>q. ASSUME NEW t \in EventNames, t # "STAIRS_FINISHED",
             Reports' = Reports \/ Reports' = Append(Reports, t)
      PROVE  Quiet
  BY <1>q, QuietKept DEF Resting
<1>e. EventNames # {} /\ "STOPPED" \in EventNames /\ "STOPPED" # "STAIRS_FINISHED"
  BY DEF EventNames
<1>s. ASSUME Reports' = Reports PROVE Quiet
  BY <1>s, <1>e, <1>q
<1>o. ASSUME arm # 0
      PROVE  \A i \in DOMAIN Orders : Orders[i] = "STOP"
  BY <1>o DEF Resting
<1>d. ASSUME NEW c, c.id \in Nat, cmd_default(c)
      PROVE  Quiet /\ (c.type = "STOP" => ~driving')
  BY <1>1, <1>d, <1>e, <1>q, DefaultFits
<1> HIDE DEF Quiet
<1>2. CASE AwaitGo
  <2>1. cpc = "await" /\ TakeCommand /\ NextCommand.id \in Nat
    BY <1>1, <1>2, OrdersTaken DEF AwaitGo
  <2>2. arm = 0
    BY <2>1 DEF Resting
  <2>3. Quiet
    <3>1. CASE NextCommand.type = "GO_STAIRS"
      BY <1>2, <1>s, <3>1 DEF AwaitGo, Reports
    <3>2. CASE NextCommand.type # "GO_STAIRS"
      BY <1>2, <1>d, <2>1, <3>2 DEF AwaitGo
    <3> QED BY <3>1, <3>2
  <2>4. ~Gone'
    BY <1>2, <2>1 DEF AwaitGo, Gone
  <2> QED BY <2>2, <2>3, <2>4
<1>3. CASE RouteDone
  <2>1. cpc = "route" /\ cpc' = "enter"
    BY <1>3 DEF RouteDone
  <2>2. Reports' = Reports \/ Reports' = Append(Reports, "STAIRS_READY")
    BY <1>1, <1>3, ReportsPosted DEF RouteDone, EventNames
  <2>3. "STAIRS_READY" \in EventNames
    BY DEF EventNames
  <2> QED BY <1>q, <2>1, <2>2, <2>3 DEF Resting, Gone
<1>4. CASE EnterLayer \/ Repost
  <2> DEFINE n == Segments[leg']
  <2>1. /\ cpc \in {"enter", "repost"} /\ cpc' = "ready" /\ leg' \in 1..3
        /\ Orders' = Orders
    <3>1. CASE EnterLayer
      BY <1>1, <3>1 DEF EnterLayer, BaseFits, Orders
    <3>2. CASE Repost
      BY <1>1, <3>2 DEF Repost, BaseFits, sweepVars, Orders
    <3> QED BY <1>4, <3>1, <3>2
  <2>2. n \in EventNames /\ n # "STAIRS_FINISHED"
    BY <2>1 DEF Segments, EventNames
  <2>3. link_post(n, sweepId, TRUE)
    BY <1>4 DEF EnterLayer, Repost, sweepVars
  <2> HIDE DEF n
  <2>4. Reports' = Reports \/ Reports' = Append(Reports, n)
    BY <1>1, <2>2, <2>3, ReportsPosted
  <2>5. Quiet
    BY <1>q, <2>2, <2>4
  <2> QED BY <1>o, <2>1, <2>5 DEF Gone
<1>5. CASE StairHook
  <2>1. /\ cpc \in PollStages /\ leg' = leg /\ TakeCommand
        /\ NextCommand.id \in Nat
    BY <1>1, <1>5, OrdersTaken DEF StairHook
  <2>2. arm # 0 => /\ NextCommand.type = "STOP"
                   /\ \A i \in DOMAIN Orders' : Orders'[i] = "STOP"
    BY <2>1, RestOrders
  <2>3. CASE HookStop
    BY <1>d, <2>1, <2>3 DEF HookStop, Gone
  <2>4. CASE ~HookStop
    <3>1. NextCommand.type # "STOP" \/ HookOther
      BY <1>5, <2>4 DEF StairHook, HookCamReady, HookStairStop, HookResume
    <3>2. arm = 0 /\ ~Gone'
      BY <1>5, <2>1, <2>2, <2>4, <3>1
      DEF StairHook, HookCamReady, HookStairStop, HookResume, HookOther,
          PollAgain, PollStages, Gone
    <3>3. CASE HookStairStop
      <4>1. "STAIR_PAUSE" \in EventNames
        BY DEF EventNames
      <4> QED BY <1>1, <1>q, <3>2, <3>3, <4>1, ReportsPosted DEF HookStairStop
    <3>4. CASE HookResume
      <4>1. "STAIR_RESUME" \in EventNames
        BY DEF EventNames
      <4> QED BY <1>1, <1>q, <3>2, <3>4, <4>1, ReportsPosted DEF HookResume
    <3>5. CASE HookCamReady \/ HookOther
      BY <1>s, <3>2, <3>5 DEF HookCamReady, HookOther, Reports
    <3> QED BY <1>5, <2>4, <3>3, <3>4, <3>5 DEF StairHook
  <2> QED BY <2>3, <2>4
<1>6. CASE SettleOver \/ ScanTick \/ SkipPass
  <2>1. /\ cpc \in {"settle", "scan", "body"} /\ cpc' \in {"scan", "body"}
        /\ paused' = paused /\ Orders' = Orders /\ Reports' = Reports
    BY <1>6 DEF SettleOver, ScanTick, SkipPass, sweepVars, linkVars, Orders,
                Reports
  <2> QED BY <1>s, <1>o, <2>1 DEF Resting, Gone
<1>7. CASE SweepError
  BY <1>7 DEF SweepError, Gone
<1>8. CASE DriveLayer
  <2>1. cpc = "body" /\ ~paused /\ cpc' \in {"enter", "scan"} /\ Reports' = Reports
    BY <1>8 DEF DriveLayer, Measuring, stair_drive, Reports
  <2>2. arm = 0
    BY <2>1 DEF Resting
  <2> QED BY <1>s, <2>1, <2>2 DEF Gone
<1>9. CASE DriveLastLayer
  <2>1. cpc = "body" /\ ~paused
    BY <1>9 DEF DriveLastLayer, Measuring
  <2>2. arm = 0
    BY <2>1 DEF Resting
  <2>3. CASE finish_sweep
    BY <2>3 DEF finish_sweep, Gone
  <2>4. CASE stair_drive
    BY <1>s, <2>2, <2>4 DEF stair_drive, Reports, Gone
  <2> QED BY <1>9, <2>3, <2>4 DEF DriveLastLayer
<1>10. ~AwaitNext
  BY DEF AwaitNext, Gone
<1> QED
  BY <1>2, <1>3, <1>4, <1>5, <1>6, <1>7, <1>8, <1>9, <1>10 DEF ChassisNext

\* Behind the staircase the base only confirms stops.
LEMMA GoneKept ==
    ASSUME Met, AtMission, Gone, Leaving, ChassisNext
    PROVE  Gone' /\ Leaving'
<1> USE DEF AtMission
<1>1. evtQ \in Seq(EventType) /\ driving \in BOOLEAN /\ QueueTyped
  BY DEF Met, MeetInv, ChassisTypeOK
<1>2. AwaitNext
  BY DEF Gone, ChassisNext, AwaitGo, RouteDone, EnterLayer, StairHook, PollStages,
         Repost, SettleOver, ScanTick, SkipPass, SweepError, DriveLayer,
         DriveLastLayer, Measuring
<1>3. TakeCommand /\ NextCommand.id \in Nat
  BY <1>1, <1>2, OrdersTaken DEF AwaitNext
<1>4. CASE NextCommand.type = "GO_SMALL_DISC"
  BY <1>2, <1>4 DEF AwaitNext, Gone, Leaving, Reports
<1>5. CASE NextCommand.type # "GO_SMALL_DISC"
  <2>1. cmd_default(NextCommand) /\ cpc' = cpc
    BY <1>2, <1>5 DEF AwaitNext
  <2>2. /\ driving' => driving
        /\ Reports' = Reports \/ Reports' = Append(Reports, "STOPPED")
    BY <1>1, <1>3, <2>1, DefaultFits
  <2>3. Reports \in Seq(EventNames)
    BY <1>1, QueuesNamed
  <2> DEFINE Late(q) == \A i \in DOMAIN q :
                 q[i] \in {"STAIR_RESUME", "STAIRS_FINISHED", "STOPPED"}
  <2>4. Late(Reports) => Late(Append(Reports, "STOPPED"))
    BY <2>3
  <2>5. Late(Reports) => Late(Reports')
    BY <2>2, <2>4
  <2> QED BY <2>1, <2>2, <2>5 DEF Gone, Leaving
<1> QED BY <1>4, <1>5

LEMMA EventsTyped ==
    ASSUME Met, ChassisNext
    PROVE  evtQ' \in Seq(EventType)
<1>1. /\ evtQ \in Seq(EventType) /\ sweepId \in Nat /\ driving \in BOOLEAN
      /\ leg \in 0..3 /\ QueueTyped
  BY DEF Met, MeetInv, ChassisTypeOK
<1>p. ASSUME NEW t \in EventNames, NEW ok \in BOOLEAN, link_post(t, sweepId, ok)
      PROVE  evtQ' \in Seq(EventType)
  BY <1>1, <1>p, ReportsPosted
<1>d. ASSUME TakeCommand, cmd_default(NextCommand)
      PROVE  evtQ' \in Seq(EventType)
  BY <1>1, <1>d, OrdersTaken, DefaultFits
<1>s. \A l \in 1..3 : Segments[l] \in EventNames
  BY DEF Segments, EventNames
<1>e. {"STAIRS_READY", "STAIR_PAUSE", "STAIR_RESUME", "STAIRS_FINISHED"}
          \subseteq EventNames
  BY DEF EventNames
<1>2. CASE AwaitGo \/ AwaitNext
  BY <1>1, <1>2, <1>d DEF AwaitGo, AwaitNext
<1>3. CASE RouteDone
  BY <1>1, <1>3, ReportsPosted DEF RouteDone, EventNames
<1>4. CASE EnterLayer \/ Repost
  <2>1. \E l \in 1..3 : link_post(Segments[l], sweepId, TRUE)
    <3>1. CASE EnterLayer
      <4>1. cpc = "enter" /\ link_post(Segments[leg + 1], sweepId, TRUE)
        BY <3>1 DEF EnterLayer
      <4>2. leg + 1 \in 1..3
        BY <1>1, <4>1 DEF Met, LegInRange
      <4> QED BY <4>1, <4>2
    <3>2. CASE Repost
      <4>1. cpc = "repost" /\ link_post(Segments[leg], sweepId, TRUE)
        BY <3>2 DEF Repost
      <4>2. leg \in 1..3
        BY <1>1, <4>1 DEF Met, MeetInv, BaseFits
      <4> QED BY <4>1, <4>2
    <3> QED BY <1>4, <3>1, <3>2
  <2> QED BY <1>p, <1>s, <2>1
<1>5. CASE StairHook
  <2>1. CASE HookStop
    BY <1>5, <1>d, <2>1 DEF StairHook, HookStop
  <2>2. CASE HookStairStop
    BY <1>e, <1>p, <2>2 DEF HookStairStop
  <2>3. CASE HookResume
    BY <1>e, <1>p, <2>3 DEF HookResume
  <2>4. CASE HookCamReady \/ HookOther
    BY <1>1, <2>4 DEF HookCamReady, HookOther
  <2> QED BY <1>5, <2>1, <2>2, <2>3, <2>4 DEF StairHook
<1>6. CASE SettleOver \/ ScanTick \/ SkipPass \/ SweepError \/ DriveLayer
  BY <1>1, <1>6 DEF SettleOver, ScanTick, SkipPass, SweepError, DriveLayer,
                    stair_drive, linkVars
<1>7. CASE DriveLastLayer
  BY <1>1, <1>e, <1>p, <1>7 DEF DriveLastLayer, finish_sweep, stair_drive
<1> QED
  BY <1>2, <1>3, <1>4, <1>5, <1>6, <1>7 DEF ChassisNext

\* Under a grasp no segment is released: the ball stays where it was seen.
LEMMA SeenKept ==
    ASSUME Met, ChassisNext, arm \in GraspGroups
    PROVE  Seen' = Seen
<1>1. /\ leg \in 0..3 /\ BaseFits /\ Rendezvous /\ ArmFits /\ QueueTyped
      /\ state \in StairStates /\ GraspFitsLayer
      /\ {driving, moving, paused, camReady} \subseteq BOOLEAN
  BY DEF Met, MeetInv, ChassisTypeOK
<1>a. arm # 0
  BY DEF GraspGroups
<1>2. CASE EnterLayer
  <2>1. leg # 0
    BY <1>1, <1>2 DEF GraspFitsLayer, EnterLayer, BaseFits
  <2> QED BY <1>1, <1>2, <2>1 DEF EnterLayer, BaseFits, Seen
<1>3. CASE StairHook
  <2>1. TakeCommand /\ cpc \in PollStages /\ leg' = leg
    BY <1>3 DEF StairHook
  <2>2. NextCommand.type # "CAM_READY"
    <3>1. Orders # <<>>
      BY <1>1, <2>1, OrdersTaken
    <3>2. ~Gone
      BY <2>1 DEF Gone, PollStages
    <3>3. CASE state \in RestStates
      BY <1>1, <1>a, <2>1, <3>2, <3>3, RestOrders DEF Rendezvous
    <3>4. CASE state \notin RestStates
      BY <1>1, <1>a, <3>1, <3>2, <3>4
      DEF Rendezvous, Climbing, ArmFits, ArmWorks, Waiting
    <3> QED BY <3>3, <3>4
  <2>3. camReady' = camReady
    BY <1>3, <2>2 DEF StairHook, HookStop, HookCamReady, HookStairStop,
                      HookResume, HookOther
  <2> QED BY <2>1, <2>3 DEF Seen
<1>4. CASE ~EnterLayer /\ ~StairHook
  <2>1. leg' = leg /\ camReady' = camReady
    BY <1>4 DEF ChassisNext, AwaitGo, RouteDone, Repost, SettleOver, ScanTick,
                SkipPass, SweepError, DriveLayer, DriveLastLayer, AwaitNext,
                sweepVars
  <2> QED BY <2>1 DEF Seen
<1> QED BY <1>2, <1>3, <1>4

LEMMA ChassisMeets ==
    ASSUME Met, Chassis
    PROVE  MeetInv'
<1>1. AtMission /\ ChassisNext
  BY DEF Chassis, AtMission, loopVars, stairVars
<1> USE DEF AtMission
<1>2. /\ BaseFits /\ SessionFits /\ Rendezvous /\ ArmFits /\ GraspFitsLayer
      /\ StopPending(vis) /\ state \in StairStates
      /\ ChassisTypeOK /\ LegInRange /\ QueueTyped
  BY DEF Met, MeetInv
<1>3. BaseFits' /\ evtQ' \in Seq(EventType)
  BY <1>1, <1>2, BaseKept, EventsTyped
<1>4. SessionFits' /\ StopPending(vis)'
  BY <1>1, <1>2 DEF SessionFits, StopPending
<1>5. (Gone => Gone') /\ Rendezvous'
  <2>1. CASE Gone
    BY <1>1, <1>2, <2>1, GoneKept DEF Rendezvous
  <2>2. CASE ~Gone /\ state \in RestStates
    BY <1>1, <1>2, <2>2, RestKept DEF Rendezvous
  <2>3. CASE ~Gone /\ state \notin RestStates
    <3>1. Climbing
      BY <1>2, <2>3 DEF Rendezvous
    <3>2. ~AwaitNext
      BY <2>3 DEF AwaitNext, Gone
    <3>3. Meets
      BY <1>1, <2>3, <3>1, <3>2, ClimbToStairs, ClimbEnter, ClimbHook,
         ClimbSweep, ClimbDrive DEF ChassisNext
    <3> QED BY <1>1, <2>3, <3>3 DEF Meets, Rendezvous
  <2> QED BY <2>1, <2>2, <2>3
<1>6. ArmFits'
  <2>1. Posts
    BY <1>1, <1>2, ChassisMoves
  <2>2. ("ARM_OK" \in flags' <=> "ARM_OK" \in flags) /\ OkSeen' = OkSeen
    BY <1>1, <2>1 DEF Posts, OkSeen
  <2> QED BY <1>1, <1>2, <1>5, <2>2 DEF ArmFits
<1>7. GraspFitsLayer'
  <2>1. arm \in GraspGroups => Seen' = Seen
    BY <1>1, SeenKept
  <2> QED BY <1>1, <1>2, <2>1 DEF GraspFitsLayer, Seen, GroupAt, StepAt
<1> QED BY <1>3, <1>4, <1>5, <1>6, <1>7 DEF MeetInv

-----------------------------------------------------------------------------
(* The rendezvous on the side of the Mission task.                         *)

LEMMA MetFollows == Inductive /\ MeetInv => Met
BY DEF Inductive, Met, TypeOK

\* While the base does not act, where it stands means the same.
LEMMA BaseStill ==
    ASSUME UNCHANGED chassisVars
    PROVE  /\ BaseFits' = BaseFits /\ Gone' = Gone /\ Seen' = Seen
           /\ Underway' = Underway /\ Parked' = Parked /\ News' = News
           /\ \A t : NewsAfter(t)' = NewsAfter(t) /\ NewsBefore(t)' = NewsBefore(t)
           /\ cpc' = cpc /\ leg' = leg /\ driving' = driving /\ paused' = paused
BY DEF chassisVars, sweepVars, BaseFits, Gone, Seen, Underway, Parked, News,
       NewsAfter, NewsBefore

\* A report is read, or none is.
Reads == evtQ' = evtQ \/ (evtQ # <<>> /\ evtQ' = Tail(evtQ))

LEMMA ReadsShape ==
    ASSUME Met, Reads
    PROVE  /\ evtQ' \in Seq(EventType)
           /\ Reports' = Reports \/ (Reports # <<>> /\ Reports' = Tail(Reports))
           /\ \A i \in DOMAIN Reports' :
                  \E j \in DOMAIN Reports : Reports'[i] = Reports[j]
<1>1. evtQ \in Seq(EventType) /\ Reports \in Seq(EventNames)
  BY QueuesNamed DEF Met, MeetInv
<1>2. CASE evtQ' = evtQ
  BY <1>1, <1>2 DEF Reports
<1>3. CASE evtQ # <<>> /\ evtQ' = Tail(evtQ)
  <2>1. /\ evtQ' \in Seq(EventType) /\ Reports # <<>> /\ Reports' = Tail(Reports)
    BY <1>1, <1>3, ReportsTaken
  <2>2. \A i \in DOMAIN Reports' : i + 1 \in DOMAIN Reports
                                   /\ Reports'[i] = Reports[i + 1]
    BY <1>1, <2>1
  <2> QED BY <2>1, <2>2
<1> QED BY <1>2, <1>3 DEF Reads

\* What is left of the announcements once the first report is read.
LEMMA NewsRead ==
    ASSUME Met
    PROVE  /\ \A q \in News : q = <<>> \/ Tail(q) = <<>>
           /\ \A t \in EventNames : \A q \in NewsAfter(t) :
                  q = <<>> \/ Tail(q) \in News
           /\ \A t \in EventNames : \A q \in NewsBefore(t) :
                  q = <<>> \/ Tail(q) \in {<<>>, <<t>>}
           /\ \A t : <<>> \in News /\ News \subseteq NewsAfter(t)
           /\ \A t : {<<>>, <<t>>} \subseteq NewsBefore(t)
<1> DEFINE n == Segments[leg]
<1>1. cpc = "ready" => n \in EventNames
  BY NewsKnown DEF EventNames
<1>2. \A a \in EventNames : Tail(<<a>>) = <<>>
  BY Short
<1>3. ASSUME NEW a \in EventNames, NEW b \in EventNames
      PROVE  Tail(<<a, b>>) = <<b>>
  BY Short
<1>4. CASE cpc = "ready"
  <2>1. n \in EventNames
    BY <1>1, <1>4
  <2>2. /\ News = {<<>>, <<n>>}
        /\ \A t : NewsAfter(t) = {<<>>, <<n>>, <<t>>, <<t, n>>}
        /\ \A t : NewsBefore(t) = {<<>>, <<n>>, <<t>>, <<n, t>>}
    BY <1>4 DEF News, NewsAfter, NewsBefore
  <2> HIDE DEF n
  <2> QED BY <1>2, <1>3, <2>1, <2>2
<1>5. CASE cpc # "ready"
  <2>1. /\ News = {<<>>}
        /\ \A t : NewsAfter(t) = {<<>>, <<t>>}
        /\ \A t : NewsBefore(t) = {<<>>, <<t>>}
    BY <1>5, NewsKnown
  <2> QED BY <1>2, <2>1
<1> QED BY <1>4, <1>5

\* The run comes to rest, or is at rest already.
LEMMA FallMeets ==
    ASSUME Met, Rested, StopPending(vis)', UNCHANGED chassisVars, Reads
    PROVE  MeetInv'
<1>1. /\ BaseFits /\ Rendezvous /\ ArmFits /\ GraspFitsLayer /\ QueueTyped
      /\ state \in StairStates
  BY DEF Met, MeetInv
<1>2. /\ state' \in RestStates /\ arm' \in {0, arm}
      /\ cmdQ' = cmdQ \/ \E id \in 1..IdMax : cmdQ' = Sent("STOP", id)
  BY DEF Rested
<1>3. BaseFits' /\ SessionFits' /\ ArmFits' /\ evtQ' \in Seq(EventType)
  BY <1>1, <1>2, BaseStill, ReadsShape DEF SessionFits, ArmFits, RestStates
<1>4. GraspFitsLayer'
  <2>1. arm' \in GraspGroups => arm' = arm
    BY <1>2 DEF GraspGroups
  <2>2. leg' = leg /\ camReady' = camReady
    BY DEF chassisVars, sweepVars
  <2> QED BY <1>1, <2>1, <2>2 DEF GraspFitsLayer, GroupAt, StepAt
<1>5. Gone' = Gone /\ driving' = driving
  BY BaseStill
<1>6. ASSUME Gone PROVE Leaving'
  <2>1. ~driving'
    BY <1>1, <1>5, <1>6 DEF Rendezvous, Leaving
  <2>2. state' \notin {"STAIR_SCANNING", "STAIR_WAIT_PAUSE", "STAIR_WAIT_RESUME"}
    BY <1>2 DEF RestStates
  <2> QED BY <1>2, <2>1, <2>2 DEF Leaving
<1>7. ASSUME ~Gone PROVE Resting'
  <2>1. \A i \in DOMAIN Reports : Reports[i] # "STAIRS_FINISHED"
    BY <1>1, <1>7, NoFinishYet DEF Rendezvous, Resting
  <2>2. \A i \in DOMAIN Reports' : Reports'[i] # "STAIRS_FINISHED"
    BY <2>1, ReadsShape
  <2>3. Orders \in Seq(CommandTypes)
    BY QueuesNamed DEF Met, MeetInv
  <2>4. Orders' = Orders \/ Orders' = Append(Orders, "STOP")
    <3>1. CASE cmdQ' = cmdQ
      BY <3>1 DEF Orders
    <3>2. CASE cmdQ' # cmdQ
      BY <1>1, <1>2, <3>2, OrdersSent
    <3> QED BY <3>1, <3>2
  <2>5. arm # 0 => /\ \A i \in DOMAIN Orders : Orders[i] = "STOP"
                   /\ \/ cpc = "ready" \/ (cpc = "enter" /\ leg = 0)
                      \/ paused /\ cpc \in {"settle", "scan", "body"}
    <3>1. CASE state \in RestStates
      BY <1>1, <1>7, <3>1 DEF Rendezvous, Resting
    <3>2. CASE state \notin RestStates /\ arm # 0
      <4>1. /\ Orders = <<>> /\ (Waiting \/ Parked)
        BY <1>1, <1>7, <3>2 DEF Rendezvous, Climbing, ArmFits, ArmWorks, Waiting
      <4> QED BY <4>1 DEF Waiting, Parked
    <3> QED BY <3>1, <3>2
  <2>6. (\A i \in DOMAIN Orders : Orders[i] = "STOP") =>
            \A i \in DOMAIN Orders' : Orders'[i] = "STOP"
    BY <2>3, <2>4
  <2>7. arm' # 0 => arm # 0
    BY <1>2
  <2>8. cpc' = cpc /\ leg' = leg /\ paused' = paused
    BY BaseStill
  <2> QED BY <2>2, <2>5, <2>6, <2>7, <2>8 DEF Resting
<1>8. Rendezvous'
  BY <1>2, <1>5, <1>6, <1>7 DEF Rendezvous
<1> QED BY <1>3, <1>4, <1>8 DEF MeetInv

\* Where a waiting success report of the arm may be after a handler.
LEMMA ArmFitsKept ==
    ASSUME Met, UNCHANGED chassisVars,
           "ARM_OK" \in flags' => "ARM_OK" \in flags, OkSeen' => OkSeen,
           \/ state' = state /\ arm' = arm
           \/ state' \in RestStates \/ Gone
           \/ /\ "ARM_OK" \notin flags' /\ ~OkSeen'
              /\ arm' # 0 => state' \in {"STAIR_WAIT_POSE", "STAIR_WAIT_GRASP",
                                         "STAIR_WAIT_RETURN"}
    PROVE  ArmFits'
<1>1. ArmFits /\ Gone' = Gone
  BY BaseStill DEF Met, MeetInv
<1> QED BY <1>1 DEF ArmFits

\* Away from the arm's states nothing is reported and nothing moves.
LEMMA ArmQuiet ==
    ASSUME Met, ~Gone, state \notin RestStates,
           state \notin {"STAIR_WAIT_POSE", "STAIR_WAIT_GRASP", "STAIR_WAIT_RETURN"}
    PROVE  arm = 0 /\ "ARM_OK" \notin flags /\ ~OkSeen
BY DEF Met, MeetInv, ArmFits

\* Only the states of the way up, only those behind the staircase.
LEMMA OnStairs ==
    ASSUME Met,
           state \in {"WAIT_STAIRS", "STAIR_WAIT_POSE", "STAIR_WAIT_LAYER",
                      "STAIR_WAIT_VISION_START", "STAIR_WAIT_ACK",
                      "STAIR_WAIT_VISION_RESUME"} \cup ArmWorks
    PROVE  ~Gone /\ Climbing /\ state \notin RestStates
<1>1. state \notin RestStates
  BY DEF RestStates, ArmWorks
<1>2. ~Gone
  BY DEF Met, MeetInv, Rendezvous, Leaving, RestStates, ArmWorks
<1> QED BY <1>1, <1>2 DEF Met, MeetInv, Rendezvous

LEMMA Behind ==
    ASSUME Met,
           state \in {"STAIR_WAIT_VISION_END", "STAIR_WAIT_SAFE", "WAIT_SMALL_DISC"}
    PROVE  Gone /\ Leaving
<1>1. state \notin RestStates
  BY DEF RestStates
<1>2. ~Climbing
  BY DEF Climbing
<1> QED BY <1>1, <1>2 DEF Met, MeetInv, Rendezvous

LEMMA ClosedFresh ==
    ASSUME NEW v, SafeRecord(v), StopPending(v), v.phase = "IDLE"
    PROVE  ~v.stopReq
BY DEF SafeRecord, StopPending

\* The state stays: a report may be read, the arm may come to rest.
LEMMA SameMeets ==
    ASSUME Met, UNCHANGED <<state, layer, cmdQ, chassisVars>>, arm' \in {0, arm},
           Reads, StopPending(vis)', SessionFits', ArmFits'
    PROVE  MeetInv'
<1>1. /\ BaseFits /\ Rendezvous /\ GraspFitsLayer /\ QueueTyped
      /\ state \in StairStates
  BY DEF Met, MeetInv
<1>2. /\ BaseFits' /\ evtQ' \in Seq(EventType) /\ Gone' = Gone
      /\ driving' = driving /\ cpc' = cpc /\ leg' = leg /\ paused' = paused
  BY <1>1, BaseStill, ReadsShape
<1>3. GraspFitsLayer'
  <2>1. arm' \in GraspGroups => arm' = arm
    BY DEF GraspGroups
  <2>2. leg' = leg /\ camReady' = camReady
    BY DEF chassisVars, sweepVars
  <2> QED BY <1>1, <2>1, <2>2 DEF GraspFitsLayer, GroupAt, StepAt
<1>4. Orders' = Orders
  BY DEF Orders
<1>5. /\ Reports' = Reports \/ (Reports # <<>> /\ Reports' = Tail(Reports))
      /\ \A i \in DOMAIN Reports' :
             \E j \in DOMAIN Reports : Reports'[i] = Reports[j]
  BY ReadsShape
<1>6. Gone /\ Leaving => Leaving'
  BY <1>2, <1>5 DEF Leaving
<1>7. Resting => Resting'
  BY <1>2, <1>4, <1>5 DEF Resting
<1>8. ASSUME ~Gone, state \notin RestStates PROVE Climbing'
  <2>1. Climbing
    BY <1>1, <1>8 DEF Rendezvous
  <2>2. /\ Waiting' = Waiting /\ Parked' = Parked /\ Underway' = Underway
        /\ Fits(leg)' = Fits(leg) /\ Fits(Seen)' = Fits(Seen)
    <3>1. Seen' = Seen /\ Parked' = Parked /\ Underway' = Underway
      BY BaseStill
    <3> QED BY <1>2, <1>4, <3>1 DEF Waiting, Fits, StepAt
  <2>3. /\ Reports \in News => Reports' \in News'
        /\ \A t \in EventNames : Reports \in NewsAfter(t) => Reports' \in NewsAfter(t)'
        /\ \A t \in EventNames : Reports \in NewsBefore(t) => Reports' \in NewsBefore(t)'
        /\ Reports = <<>> => Reports' = <<>>
    <3>1. /\ News' = News
          /\ \A t : NewsAfter(t)' = NewsAfter(t) /\ NewsBefore(t)' = NewsBefore(t)
      BY BaseStill
    <3>2. CASE Reports' = Reports
      BY <3>1, <3>2
    <3>3. CASE Reports # <<>> /\ Reports' = Tail(Reports)
      <4>1. Reports \in News => Reports' \in News
        BY <3>3, NewsRead
      <4>2. ASSUME NEW t \in EventNames, Reports \in NewsAfter(t)
            PROVE  Reports' \in NewsAfter(t)
        BY <3>3, <4>2, NewsRead
      <4>3. ASSUME NEW t \in EventNames, Reports \in NewsBefore(t)
            PROVE  Reports' \in NewsBefore(t)
        BY <3>3, <4>3, NewsRead
      <4> QED BY <3>1, <3>3, <4>1, <4>2, <4>3
    <3> QED BY <1>5, <3>2, <3>3
  <2>4. /\ Reports \in NewsAfter("STAIRS_READY") => Reports' \in NewsAfter("STAIRS_READY")'
        /\ Reports \in NewsAfter("STAIR_RESUME") => Reports' \in NewsAfter("STAIR_RESUME")'
        /\ Reports \in NewsBefore("STAIR_PAUSE") => Reports' \in NewsBefore("STAIR_PAUSE")'
    BY <2>3 DEF EventNames
  <2>5. CASE state \in {"WAIT_STAIRS", "STAIR_WAIT_POSE", "STAIR_WAIT_LAYER",
                        "STAIR_WAIT_VISION_START"}
    BY <1>2, <1>4, <2>1, <2>2, <2>3, <2>4, <2>5 DEF Climbing, ArmWorks
  <2>6. CASE state \in {"STAIR_SCANNING", "STAIR_WAIT_PAUSE"}
    BY <1>2, <1>4, <2>1, <2>2, <2>3, <2>4, <2>6 DEF Climbing, ArmWorks
  <2>7. CASE state \in {"STAIR_WAIT_ACK", "STAIR_WAIT_VISION_RESUME",
                        "STAIR_WAIT_RESUME"} \cup ArmWorks
    BY <1>2, <1>4, <2>1, <2>2, <2>3, <2>4, <2>7 DEF Climbing, ArmWorks
  <2> QED BY <1>1, <1>8, <2>1, <2>5, <2>6, <2>7
          DEF Climbing, StairStates, ArmStates, ArmWorks
<1>9. Rendezvous'
  BY <1>1, <1>2, <1>6, <1>7, <1>8 DEF Rendezvous
<1> QED BY <1>2, <1>3, <1>9 DEF MeetInv

\* The state moves on: what remains to be shown of it.
LEMMA GoMeets ==
    ASSUME Met, UNCHANGED chassisVars, state' \notin RestStates, Reads,
           StopPending(vis)', SessionFits', ArmFits',
           arm' \in GraspGroups => arm' = arm \/ GraspFitsLayer',
           Gone => Leaving', ~Gone => Climbing'
    PROVE  MeetInv'
<1>1. /\ BaseFits' /\ Gone' = Gone /\ evtQ' \in Seq(EventType)
      /\ leg' = leg /\ camReady' = camReady
  BY BaseStill, ReadsShape DEF Met, MeetInv, chassisVars, sweepVars
<1>2. GraspFitsLayer'
  BY <1>1 DEF Met, MeetInv, GraspFitsLayer, GroupAt, StepAt
<1> QED BY <1>1, <1>2 DEF MeetInv, Rendezvous

\* A handler that keeps its state and the session it works with.
LEMMA KeepMeets ==
    ASSUME Met, NEW v, keep(v), StopPending(v), v.phase = vis.phase,
           v.scene = vis.scene, v.stopReq = vis.stopReq,
           UNCHANGED <<stairVars, chassisVars, flags>>, Reads, OkSeen' => OkSeen
    PROVE  MeetInv'
<1>1. UNCHANGED <<state, arm, cmdQ, layer, balls>> /\ vis' = v
  BY DEF keep, enter_state, stairVars
<1>2. SessionFits'
  BY <1>1 DEF Met, MeetInv, SessionFits
<1>3. ArmFits'
  BY <1>1, ArmFitsKept
<1>4. StopPending(vis)'
  BY <1>1 DEF StopPending, Busy
<1> QED BY <1>1, <1>2, <1>3, <1>4, SameMeets

\* A handler that fails.
LEMMA FallenMeets ==
    ASSUME Met, NEW v, Fallen(v), StopPending(v), UNCHANGED chassisVars, Reads
    PROVE  MeetInv'
<1>1. Rested /\ StopPending(vis)'
  BY DEF Fallen, StopPending, Busy
<1> QED BY <1>1, FallMeets

-----------------------------------------------------------------------------
(* The handlers of the Mission task, branch by branch.                     *)

\* Starting on a layer, while the base waits to be released.
LEMMA StartLayerMeets ==
    ASSUME Met, requestId \in 1..IdMax,
           NEW v, SafeRecord(v), StopPending(v), v.phase = "IDLE",
           NEW l \in Layers \cup {"NONE"}, start_stair_layer(v, l), layer' = l,
           balls' = balls, UNCHANGED <<chassisVars, flags>>, Reads, Waiting,
           arm = 0, "ARM_OK" \notin flags, ~OkSeen',
           l = "NONE" => Reports' \in News,
           l # "NONE" => leg \in 1..3 /\ l = StepAt(leg) /\ Reports' = <<>>
    PROVE  MeetInv'
<1>1. /\ ~v.stopReq /\ ~Gone /\ Gone' = Gone /\ cpc' = cpc /\ leg' = leg
      /\ paused' = paused /\ driving' = driving /\ News' = News
  BY ClosedFresh, BaseStill DEF Waiting, Gone
<1>2. CASE Fallen(v)
  BY <1>2, FallenMeets
<1>3. ASSUME state' \notin RestStates, arm' = 0, StopPending(vis)', SessionFits',
             Climbing'
      PROVE  MeetInv'
  <2>1. ArmFits'
    BY <1>3, ArmFitsKept
  <2>2. arm' \notin GraspGroups
    BY <1>3 DEF GraspGroups
  <2> QED BY <1>1, <1>3, <2>1, <2>2, GoMeets
<1>4. cmdQ' = cmdQ => Waiting' /\ Orders' = Orders
  BY <1>1 DEF Waiting, Orders
<1>5. l # "NONE" => Fits(leg)'
  BY <1>1 DEF Fits, StepAt
<1>6. CASE l = "NONE" /\ enter_state(v, "STAIR_WAIT_LAYER")
  <2>1. /\ state' = "STAIR_WAIT_LAYER" /\ vis' = v /\ arm' = 0 /\ cmdQ' = cmdQ
    BY <1>6 DEF enter_state
  <2>2. StopPending(vis)' /\ SessionFits' /\ state' \notin RestStates
    BY <2>1 DEF StopPending, Busy, SessionFits, RestStates
  <2>3. Climbing'
    BY <1>1, <1>4, <1>6, <2>1 DEF Climbing, ArmWorks
  <2> QED BY <1>3, <2>1, <2>2, <2>3
<1>7. CASE /\ l # "NONE" /\ balls >= BallLimit
           /\ send_chassis(v, "CAM_READY", "STAIR_SCANNING")
  <2>1. \/ Fallen(v)
        \/ /\ state' = "STAIR_SCANNING" /\ vis' = v /\ arm' = 0
           /\ cmdQ' = Sent("CAM_READY", requestId)
    BY <1>7, SendLands
  <2>2. CASE /\ state' = "STAIR_SCANNING" /\ vis' = v /\ arm' = 0
             /\ cmdQ' = Sent("CAM_READY", requestId)
    <3>1. StopPending(vis)' /\ SessionFits' /\ state' \notin RestStates
      BY <1>7, <2>2 DEF StopPending, Busy, SessionFits, RestStates
    <3>2. Orders' = Append(Orders, "CAM_READY") /\ Orders = <<>>
      BY <2>2, OrdersSent DEF Met, Waiting
    <3>3. Orders' = <<"CAM_READY">>
      BY <3>2, Short
    <3>4. cpc' = "ready" /\ Underway' /\ Fits(leg)' /\ Reports' = <<>>
      BY <1>1, <1>5, <1>7 DEF Waiting, Underway
    <3>5. Climbing'
      BY <2>2, <3>3, <3>4 DEF Climbing, ArmWorks
    <3> QED BY <1>3, <2>2, <3>1, <3>5
  <2> QED BY <1>2, <2>1, <2>2
<1>8. CASE /\ l # "NONE" /\ balls < BallLimit
           /\ start_vision(v, l, "STAIR_WAIT_VISION_START")
  <2>0. l \in Scenes \ {"NONE"}
    BY <1>8 DEF Scenes, Layers
  <2>1. \/ Fallen(v)
        \/ /\ state' = "STAIR_WAIT_VISION_START" /\ arm' = 0 /\ cmdQ' = cmdQ
           /\ vis'.phase = "STARTING" /\ vis'.scene = l /\ ~vis'.stopReq
    BY <1>1, <1>8, <2>0, VisionLands
  <2>2. CASE /\ state' = "STAIR_WAIT_VISION_START" /\ arm' = 0 /\ cmdQ' = cmdQ
             /\ vis'.phase = "STARTING" /\ vis'.scene = l /\ ~vis'.stopReq
    <3>1. StopPending(vis)' /\ SessionFits' /\ state' \notin RestStates
      BY <2>2 DEF StopPending, Busy, SessionFits, RestStates
    <3>2. Climbing'
      BY <1>4, <1>5, <1>8, <2>2 DEF Climbing, ArmWorks
    <3> QED BY <1>3, <2>2, <3>1, <3>2
  <2> QED BY <1>2, <2>1, <2>2
<1> QED BY <1>6, <1>7, <1>8 DEF start_stair_layer

\* The head of the event queue has the name of the first report.
LEMMA Heard ==
    ASSUME Met, evtQ # <<>>, evtQ' = Tail(evtQ)
    PROVE  /\ Reads /\ Reports # <<>> /\ Reports' = Tail(Reports)
           /\ Head(evtQ).type = Head(Reports) /\ Head(evtQ).type \in EventNames
           /\ \E i \in DOMAIN Reports : Head(evtQ).type = Reports[i]
<1>1. evtQ \in Seq(EventType) /\ Reports \in Seq(EventNames)
  BY QueuesNamed DEF Met, MeetInv
<1>2. /\ Reports # <<>> /\ Head(evtQ).type = Head(Reports)
      /\ Reports' = Tail(Reports)
  BY <1>1, ReportsTaken
<1>3. Head(Reports) = Reports[1] /\ 1 \in DOMAIN Reports /\ Reports[1] \in EventNames
  BY <1>1, <1>2
<1> QED BY <1>2, <1>3 DEF Reads

\* A segment is announced: the base waits in it, and nothing else is under way.
LEMMA NewsHeard ==
    ASSUME Met, ~Gone, state \in LayerStates, evtQ # <<>>, evtQ' = Tail(evtQ),
           IsLayer(Head(evtQ))
    PROVE  /\ Waiting /\ leg \in 1..3 /\ Reports' = <<>>
           /\ stair_layer(Head(evtQ).type) = StepAt(leg)
           /\ cpc = "ready"
<1> DEFINE n == Segments[leg]
<1>1. /\ BaseFits /\ state \notin RestStates /\ Climbing
      /\ leg \in 0..3
  BY DEF Met, MeetInv, Rendezvous, LayerStates, RestStates, ChassisTypeOK
<1>2. /\ Reports # <<>> /\ Reports' = Tail(Reports)
      /\ Head(evtQ).type = Head(Reports)
  BY Heard
<1>3. Reports \in News
  BY <1>1, <1>2 DEF Climbing, LayerStates
<1>4. cpc = "ready" /\ Reports = <<n>>
  BY <1>2, <1>3 DEF News
<1>5. leg \in 1..3
  BY <1>1, <1>4 DEF BaseFits
<1>6. n \in EventNames
  BY <1>4, NewsKnown DEF EventNames
<1>7. Head(evtQ).type = n /\ Reports' = <<>>
  <2> HIDE DEF n
  <2> QED BY <1>2, <1>4, <1>6, Short
<1>8. ~driving
  BY <1>1, <1>4 DEF BaseFits
<1>9. Waiting
  BY <1>1, <1>2, <1>4, <1>8 DEF Climbing, LayerStates, Waiting, Underway
<1>10. stair_layer(n) = StepAt(leg)
  <2>1. CASE leg = 1
    BY <2>1 DEF stair_layer, StepAt, Segments
  <2>2. CASE leg = 2
    BY <2>2 DEF stair_layer, StepAt, Segments
  <2>3. CASE leg = 3
    BY <2>3 DEF stair_layer, StepAt, Segments
  <2> QED BY <1>5, <2>1, <2>2, <2>3
<1> QED BY <1>4, <1>5, <1>7, <1>9, <1>10

\* The group for the layer the Mission task remembers is that of the step.
LEMMA GraspGroupFits ==
    ASSUME Fits(Seen)
    PROVE  Seen > 0 /\ mission_stair_grasp_group(layer) = GroupAt(Seen)
<1>1. Seen \in 1..3 /\ layer = StepAt(Seen)
  BY DEF Fits
<1>2. \A l \in 1..3 : mission_stair_grasp_group(StepAt(l)) = GroupAt(l)
  BY DEF mission_stair_grasp_group, GroupAt, StepAt
<1> QED BY <1>1, <1>2

\* Announcements, remembered, acted upon or waited for.
LEMMA LayerMeets ==
    ASSUME Inductive, LimitFollowed, Met, evtQ # <<>>, evtQ' = Tail(evtQ),
           OnLayer(Head(evtQ)), UNCHANGED <<flags, loopVars, chassisVars>>
    PROVE  MeetInv'
<1> DEFINE e == Head(evtQ)
<1>0. requestId \in 1..IdMax /\ SafeRecord(vis)
  BY LimitContext
<1>1. /\ IsLayer(e) /\ state \in LayerStates /\ layer' = stair_layer(e.type)
      /\ balls' = balls /\ StopPending(vis) /\ SessionFits /\ OkSeen' = OkSeen
  BY DEF OnLayer, Met, MeetInv, loopVars, OkSeen
<1>2. ~Gone
  <2>1. /\ e.type \notin {"STAIR_RESUME", "STAIRS_FINISHED", "STOPPED"}
        /\ \E i \in DOMAIN Reports : e.type = Reports[i]
    BY <1>1, Heard DEF IsLayer
  <2>2. state \notin RestStates
    BY <1>1 DEF LayerStates, RestStates
  <2> QED BY <1>1, <2>1, <2>2 DEF Met, MeetInv, Rendezvous, Leaving, LayerStates
<1>3. /\ Waiting /\ leg \in 1..3 /\ Reports' = <<>> /\ layer' = StepAt(leg)
      /\ cpc = "ready" /\ Reads
  BY <1>1, <1>2, NewsHeard, Heard
<1>4. state \notin RestStates
  BY <1>1 DEF LayerStates, RestStates
<1>5. Gone' = Gone /\ cpc' = cpc /\ leg' = leg /\ driving' = driving /\ paused' = paused
  BY BaseStill
<1>6. layer' \in Layers
  BY <1>1 DEF stair_layer, Layers
<1>7. ASSUME cmdQ' = cmdQ PROVE Waiting' /\ Fits(leg)'
  BY <1>3, <1>5, <1>7 DEF Waiting, Orders, Fits, StepAt
<1>8. CASE state = "STAIR_WAIT_POSE"
  <2>1. keep(vis)
    BY <1>1, <1>8 DEF OnLayer
  <2>2. /\ state' = state /\ vis' = vis /\ arm' = arm /\ cmdQ' = cmdQ
    BY <2>1 DEF keep, enter_state
  <2>3. StopPending(vis)' /\ SessionFits' /\ state' \notin RestStates
    BY <1>1, <1>4, <1>8, <2>2 DEF StopPending, Busy, SessionFits
  <2>4. Climbing'
    BY <1>3, <1>7, <1>8, <2>2 DEF Climbing, ArmWorks
  <2>5. ArmFits'
    BY <1>1, <2>2, ArmFitsKept
  <2> QED BY <1>2, <1>3, <2>2, <2>3, <2>4, <2>5, GoMeets
<1>9. CASE state \in {"STAIR_WAIT_LAYER", "STAIR_SCANNING"}
  <2>1. arm = 0 /\ "ARM_OK" \notin flags /\ ~OkSeen
    BY <1>2, <1>4, <1>9, ArmQuiet
  <2>2. CASE vis.phase = "IDLE" /\ start_stair_layer(vis, layer')
    <3>1. layer' # "NONE" /\ layer' \in Layers \cup {"NONE"}
      BY <1>6 DEF Layers
    <3> QED BY <1>0, <1>1, <1>3, <2>1, <2>2, <3>1, StartLayerMeets
  <2>3. CASE /\ state = "STAIR_SCANNING" /\ vis.phase # "IDLE"
             /\ stop_vision(vis, "STAIR_WAIT_LAYER")
    <3>1. \/ Fallen(vis)
          \/ /\ state' = "STAIR_WAIT_LAYER" /\ arm' = arm /\ cmdQ' = cmdQ
             /\ StopPending(vis')
             /\ vis'.phase = "STOPPING" \/ vis'.stopReq
      BY <1>0, <1>1, <2>3, StopLands
    <3>2. CASE Fallen(vis)
      BY <1>1, <1>3, <3>2, FallenMeets
    <3>3. CASE /\ state' = "STAIR_WAIT_LAYER" /\ arm' = arm /\ cmdQ' = cmdQ
               /\ StopPending(vis')
               /\ vis'.phase = "STOPPING" \/ vis'.stopReq
      <4>1. StopPending(vis)' /\ SessionFits' /\ state' \notin RestStates
        BY <3>3 DEF StopPending, Busy, SessionFits, RestStates
      <4>2. Climbing'
        BY <1>3, <1>7, <3>3 DEF Climbing, ArmWorks
      <4>3. ArmFits'
        BY <1>1, <2>1, <3>3, ArmFitsKept
      <4> QED BY <1>2, <1>3, <3>3, <4>1, <4>2, <4>3, GoMeets
    <3> QED BY <3>1, <3>2, <3>3
  <2>4. CASE state = "STAIR_WAIT_LAYER" /\ start_stair_layer(vis, layer')
    <3>1. layer = "NONE" \/ Reports = <<>>
      BY <1>2, <1>4, <2>4 DEF Met, MeetInv, Rendezvous, Climbing
    <3>2. layer = "NONE"
      BY <3>1, Heard
    <3>3. vis.phase = "IDLE"
      BY <3>2, <2>4, <1>0 DEF Inductive, LayerKnown
    <3> QED BY <2>2, <2>4, <3>3
  <2> QED BY <1>1, <1>9, <2>2, <2>3, <2>4 DEF OnLayer
<1> QED BY <1>1, <1>8, <1>9 DEF LayerStates

\* A ball was seen and the base has stopped: wait for the confirmation, or
\* grasp at once.
LEMMA PauseMeets ==
    ASSUME Inductive, LimitFollowed, Met, evtQ # <<>>, evtQ' = Tail(evtQ),
           OnPause(Head(evtQ)), UNCHANGED <<flags, loopVars, chassisVars>>
    PROVE  MeetInv'
<1>0. requestId \in 1..IdMax /\ SafeRecord(vis)
  BY LimitContext
<1>1. /\ state = "STAIR_WAIT_PAUSE" /\ Head(evtQ).type = "STAIR_PAUSE"
      /\ layer' = layer /\ balls' = balls /\ OkSeen' = OkSeen
      /\ StopPending(vis) /\ leg \in 0..3 /\ state \notin RestStates
  BY DEF OnPause, Met, MeetInv, loopVars, OkSeen, stairVars, ChassisTypeOK, RestStates
<1>2. /\ Reads /\ Reports # <<>> /\ Reports' = Tail(Reports)
      /\ Head(Reports) = "STAIR_PAUSE"
      /\ \E i \in DOMAIN Reports : Reports[i] = "STAIR_PAUSE"
  BY <1>1, Heard
<1>3. ~Gone
  BY <1>1, <1>2 DEF Met, MeetInv, Rendezvous, Leaving
<1>4. Climbing
  BY <1>1, <1>3 DEF Met, MeetInv, Rendezvous
<1>5. /\ Reports \notin News
      /\ Reports \in NewsBefore("STAIR_PAUSE") => Reports' = <<>>
  <2> DEFINE n == Segments[leg]
  <2>1. "STAIR_PAUSE" \in EventNames
    BY DEF EventNames
  <2>2. CASE cpc = "ready"
    <3>1. n \in EventNames /\ n # "STAIR_PAUSE"
      BY <2>2, NewsKnown DEF EventNames
    <3>2. /\ News = {<<>>, <<n>>}
          /\ NewsBefore("STAIR_PAUSE") =
                 {<<>>, <<n>>, <<"STAIR_PAUSE">>, <<n, "STAIR_PAUSE">>}
      BY <2>2 DEF News, NewsBefore
    <3> HIDE DEF n
    <3>3. Head(<<n>>) = n /\ Head(<<n, "STAIR_PAUSE">>) = n
          /\ Tail(<<"STAIR_PAUSE">>) = <<>>
      BY <2>1, <3>1, Short
    <3> QED BY <1>2, <3>1, <3>2, <3>3
  <2>3. CASE cpc # "ready"
    <3>1. News = {<<>>} /\ NewsBefore("STAIR_PAUSE") = {<<>>, <<"STAIR_PAUSE">>}
      BY <2>3, NewsKnown
    <3>2. Tail(<<"STAIR_PAUSE">>) = <<>>
      BY <2>1, Short
    <3> QED BY <1>2, <3>1, <3>2
  <2> QED BY <2>2, <2>3
<1>6. Parked /\ Orders = <<>> /\ Fits(Seen) /\ Reports' = <<>>
  BY <1>1, <1>2, <1>4, <1>5 DEF Climbing
<1>7. arm = 0 /\ "ARM_OK" \notin flags /\ ~OkSeen
  BY <1>1, <1>3, ArmQuiet
<1>8. vis.phase \in {"IDLE", "ACKING"} /\ ~vis.stopReq
  BY <1>1 DEF LimitFollowed
<1>9. /\ Parked' /\ Fits(Seen)' /\ leg' = leg /\ camReady' = camReady
  BY <1>1, <1>6, BaseStill DEF Fits, StepAt, chassisVars, sweepVars
<1>10. CASE vis.phase = "ACKING" /\ enter_state(vis, "STAIR_WAIT_ACK")
  <2>1. /\ state' = "STAIR_WAIT_ACK" /\ vis' = vis /\ arm' = arm /\ cmdQ' = cmdQ
    BY <1>10 DEF enter_state
  <2>2. StopPending(vis)' /\ SessionFits' /\ state' \notin RestStates
    BY <1>1, <1>8, <1>10, <2>1 DEF StopPending, Busy, SessionFits, RestStates
  <2>3. Climbing'
    BY <1>6, <1>9, <2>1 DEF Climbing, ArmWorks, Orders
  <2>4. ArmFits'
    BY <1>1, <1>7, <2>1, ArmFitsKept
  <2> QED BY <1>2, <1>3, <2>1, <2>2, <2>3, <2>4, GoMeets
<1>11. CASE vis.phase # "ACKING" /\ grasp(vis)
  <2>1. \/ Fallen(vis)
        \/ /\ state' = "STAIR_WAIT_GRASP" /\ vis' = vis /\ cmdQ' = cmdQ
           /\ arm' = mission_stair_grasp_group(layer)
    BY <1>0, <1>11, ArmLands DEF grasp
  <2>2. CASE Fallen(vis)
    BY <1>1, <1>2, <2>2, FallenMeets
  <2>3. CASE /\ state' = "STAIR_WAIT_GRASP" /\ vis' = vis /\ cmdQ' = cmdQ
             /\ arm' = mission_stair_grasp_group(layer)
    <3>1. StopPending(vis)' /\ SessionFits' /\ state' \notin RestStates
      BY <1>1, <2>3 DEF StopPending, Busy, SessionFits, RestStates
    <3>2. Climbing'
      BY <1>6, <1>9, <2>3 DEF Climbing, ArmWorks, Orders
    <3>3. ArmFits'
      BY <1>1, <1>7, <2>3, ArmFitsKept
    <3>4. GraspFitsLayer'
      BY <1>6, <1>9, <2>3, GraspGroupFits DEF GraspFitsLayer, Seen, GroupAt, StepAt
    <3> QED BY <1>2, <1>3, <3>1, <3>2, <3>3, <3>4, GoMeets
  <2> QED BY <2>1, <2>2, <2>3
<1> QED BY <1>10, <1>11 DEF OnPause

\* The base goes on and is watched again.
LEMMA ResumeMeets ==
    ASSUME Inductive, Met, evtQ # <<>>, evtQ' = Tail(evtQ),
           OnResume(Head(evtQ)), UNCHANGED <<flags, loopVars, chassisVars>>
    PROVE  MeetInv'
<1>1. /\ state = "STAIR_WAIT_RESUME" /\ Head(evtQ).type = "STAIR_RESUME"
      /\ state' = "STAIR_SCANNING" /\ vis' = vis /\ arm' = arm /\ cmdQ' = cmdQ
      /\ layer' = layer /\ balls' = balls /\ OkSeen' = OkSeen
      /\ StopPending(vis) /\ SessionFits /\ leg \in 0..3
  BY DEF OnResume, enter_state, Met, MeetInv, loopVars, OkSeen, stairVars,
         ChassisTypeOK
<1>2. /\ Reads /\ Reports # <<>> /\ Reports' = Tail(Reports)
      /\ Head(Reports) = "STAIR_RESUME"
  BY <1>1, Heard
<1>3. StopPending(vis)' /\ SessionFits' /\ state' \notin RestStates
  BY <1>1 DEF StopPending, Busy, SessionFits, RestStates
<1>4. state \notin RestStates
  BY <1>1 DEF RestStates
<1>5. ArmFits'
  <2>1. CASE Gone
    BY <1>1, <2>1, ArmFitsKept
  <2>2. CASE ~Gone
    <3>1. arm = 0 /\ "ARM_OK" \notin flags /\ ~OkSeen
      BY <1>1, <1>4, <2>2, ArmQuiet
    <3> QED BY <1>1, <3>1, ArmFitsKept
  <2> QED BY <2>1, <2>2
<1>6. ASSUME Gone PROVE Leaving'
  <2>1. Leaving
    BY <1>6 DEF Met, MeetInv, Rendezvous
  <2>2. \A i \in DOMAIN Reports' :
            Reports'[i] \in {"STAIR_RESUME", "STAIRS_FINISHED", "STOPPED"}
    BY <1>1, <1>2, <2>1, ReadsShape DEF Leaving
  <2>3. ~driving'
    BY <2>1, BaseStill DEF Leaving
  <2> QED BY <1>1, <2>2, <2>3 DEF Leaving
<1>7. ASSUME ~Gone PROVE Climbing'
  <2>1. Climbing
    BY <1>4, <1>7 DEF Met, MeetInv, Rendezvous
  <2>2. /\ Fits(Seen) /\ Underway /\ Orders = <<>>
        /\ Reports \in NewsAfter("STAIR_RESUME")
    BY <1>1, <1>2, <2>1 DEF Climbing
  <2>3. Reports' \in News
    BY <1>2, <2>2, NewsRead DEF EventNames
  <2>4. Underway' /\ News' = News /\ Seen' = Seen
    BY <2>2, BaseStill
  <2>5. Fits(Seen)' /\ Orders' = <<>>
    BY <1>1, <2>2, <2>4 DEF Fits, StepAt, Orders
  <2> QED BY <1>1, <2>3, <2>4, <2>5 DEF Climbing, ArmWorks
<1> QED BY <1>1, <1>2, <1>3, <1>5, <1>6, <1>7, GoMeets

\* The end of the staircase is only reported from behind it.
LEMMA FinishedMeets ==
    ASSUME Inductive, Met, evtQ # <<>>, evtQ' = Tail(evtQ),
           OnFinished(Head(evtQ)), UNCHANGED <<flags, loopVars, chassisVars>>
    PROVE  MeetInv'
<1>0. requestId \in 1..IdMax /\ SafeRecord(vis)
  BY LimitContext
<1>1. /\ Head(evtQ).type = "STAIRS_FINISHED" /\ OkSeen' = OkSeen
      /\ StopPending(vis)
  BY DEF OnFinished, Met, MeetInv, loopVars, OkSeen
<1>2. Reads /\ \E i \in DOMAIN Reports : Reports[i] = "STAIRS_FINISHED"
  BY <1>1, Heard
<1>3. Gone /\ Leaving
  BY <1>2, NoFinishYet DEF Met, MeetInv, Rendezvous, Resting
<1>4. ~driving'
  BY <1>3, BaseStill DEF Leaving
<1>5. CASE Fallen(vis)
  BY <1>1, <1>2, <1>5, FallenMeets
<1>6. ASSUME state' \in {"STAIR_WAIT_VISION_END", "STAIR_WAIT_SAFE"},
             arm' \in GraspGroups => arm' = arm, StopPending(vis)', SessionFits'
      PROVE  MeetInv'
  <2>1. ArmFits'
    BY <1>1, <1>3, ArmFitsKept
  <2>2. Leaving' /\ state' \notin RestStates
    BY <1>4, <1>6 DEF Leaving, RestStates
  <2> QED BY <1>2, <1>3, <1>6, <2>1, <2>2, GoMeets
<1>7. CASE vis.phase # "IDLE" /\ stop_vision(vis, "STAIR_WAIT_VISION_END")
  <2>1. \/ Fallen(vis)
        \/ /\ state' = "STAIR_WAIT_VISION_END" /\ arm' = arm
           /\ StopPending(vis')
           /\ vis'.phase = "STOPPING" \/ vis'.stopReq
    BY <1>0, <1>1, <1>7, StopLands
  <2>2. CASE /\ state' = "STAIR_WAIT_VISION_END" /\ arm' = arm
             /\ StopPending(vis')
             /\ vis'.phase = "STOPPING" \/ vis'.stopReq
    <3>1. StopPending(vis)' /\ SessionFits'
      BY <2>2 DEF StopPending, Busy, SessionFits
    <3> QED BY <1>6, <2>2, <3>1
  <2> QED BY <1>5, <2>1, <2>2
<1>8. CASE vis.phase = "IDLE" /\ start_stair_exit(vis)
  <2>1. \/ Fallen(vis)
        \/ state' = "STAIR_WAIT_SAFE" /\ vis' = vis /\ arm' = 18
    BY <1>0, <1>8, ArmLands DEF start_stair_exit
  <2>2. CASE state' = "STAIR_WAIT_SAFE" /\ vis' = vis /\ arm' = 18
    <3>1. StopPending(vis)' /\ SessionFits'
      BY <1>1, <1>8, <2>2 DEF StopPending, Busy, SessionFits
    <3> QED BY <1>6, <2>2, <3>1 DEF GraspGroups
  <2> QED BY <1>5, <2>1, <2>2
<1> QED BY <1>7, <1>8 DEF OnFinished

\* The base stands in front of the steps: the arm takes the scanning pose.
LEMMA ReadyMeets ==
    ASSUME Inductive, Met, evtQ # <<>>, evtQ' = Tail(evtQ),
           OnStairsReady(Head(evtQ)), UNCHANGED <<flags, loopVars, chassisVars>>
    PROVE  MeetInv'
<1>0. requestId \in 1..IdMax /\ SafeRecord(vis)
  BY LimitContext
<1>1. /\ state = "WAIT_STAIRS" /\ Head(evtQ).type = "STAIRS_READY"
      /\ layer' = "NONE" /\ start_arm(vis, 13, "STAIR_WAIT_POSE")
      /\ StopPending(vis) /\ SessionFits /\ OkSeen' = OkSeen
  BY DEF OnStairsReady, Met, MeetInv, loopVars, OkSeen
<1>2. ~Gone /\ Climbing /\ state \notin RestStates
  BY <1>1, OnStairs
<1>3. /\ Reads /\ Reports # <<>> /\ Reports' = Tail(Reports)
      /\ Head(Reports) = "STAIRS_READY"
  BY <1>1, Heard
<1>4. Waiting /\ Reports \in NewsAfter("STAIRS_READY")
  BY <1>1, <1>2, <1>3 DEF Climbing
<1>5. Reports' \in News'
  <2>1. "STAIRS_READY" \in EventNames
    BY DEF EventNames
  <2> QED BY <1>3, <1>4, <2>1, NewsRead, BaseStill
<1>6. \/ Fallen(vis)
      \/ state' = "STAIR_WAIT_POSE" /\ vis' = vis /\ arm' = 13 /\ cmdQ' = cmdQ
  BY <1>0, <1>1, ArmLands
<1>7. CASE Fallen(vis)
  BY <1>1, <1>3, <1>7, FallenMeets
<1>8. CASE state' = "STAIR_WAIT_POSE" /\ vis' = vis /\ arm' = 13 /\ cmdQ' = cmdQ
  <2>1. StopPending(vis)' /\ SessionFits' /\ state' \notin RestStates
    BY <1>1, <1>8 DEF StopPending, Busy, SessionFits, RestStates
  <2>2. Waiting'
    BY <1>4, <1>8, BaseStill DEF Waiting, Orders
  <2>3. Climbing'
    BY <1>1, <1>5, <1>8, <2>2 DEF Climbing, ArmWorks
  <2>4. "ARM_OK" \notin flags /\ ~OkSeen
    BY <1>1, <1>2, ArmQuiet
  <2>5. ArmFits'
    BY <1>1, <1>8, <2>4, ArmFitsKept
  <2> QED BY <1>2, <1>3, <1>8, <2>1, <2>3, <2>5, GoMeets DEF GraspGroups
<1> QED BY <1>6, <1>7, <1>8

LEMMA HandleChassisMeets ==
    ASSUME Inductive, LimitFollowed, Met, HandleChassis
    PROVE  MeetInv'
<1> DEFINE e == Head(evtQ)
<1>0. requestId \in 1..IdMax /\ SafeRecord(vis)
  BY LimitContext
<1>n. Now.vis = vis /\ Now.id \in 1..IdMax
  BY <1>0 DEF Now
<1>1. /\ evtQ # <<>> /\ evtQ' = Tail(evtQ) /\ mission_handle_chassis(e)
      /\ UNCHANGED <<flags, loopVars, chassisVars>>
  BY DEF HandleChassis
<1>2. Reads /\ OkSeen' = OkSeen /\ StopPending(vis) /\ state \in StairStates
  BY <1>1 DEF Reads, loopVars, OkSeen, Met, MeetInv
<1>3. CASE OnStale(e) \/ OnUnexpected(e)
  <2>1. keep(vis) /\ UNCHANGED stairVars
    BY <1>3 DEF OnStale, OnUnexpected
  <2> QED BY <1>1, <1>2, <2>1, KeepMeets
<1>4. CASE OnFailure(e)
  <2>1. mission_fail(Now, "CHASSIS")
    BY <1>4 DEF OnFailure
  <2>2. Fallen(Now.vis)
    BY <1>0, <1>n, <2>1, FailFalls
  <2> QED BY <1>1, <1>2, <1>n, <2>2, FallenMeets
<1>5. CASE OnStopped(e)
  <2>1. /\ state' = "STOPPED" /\ UNCHANGED <<vis, arm, cmdQ, armHome>>
    BY <1>5 DEF OnStopped, enter_state
  <2>2. Rested /\ StopPending(vis)'
    BY <1>2, <2>1 DEF Rested, RestStates, StopPending, Busy
  <2> QED BY <1>1, <1>2, <2>2, FallMeets
<1>6. CASE OnStairsReady(e)
  BY <1>1, <1>6, ReadyMeets
<1>7. CASE OnLayer(e)
  BY <1>1, <1>7, LayerMeets
<1>8. CASE OnPause(e)
  BY <1>1, <1>8, PauseMeets
<1>9. CASE OnResume(e)
  BY <1>1, <1>9, ResumeMeets
<1>10. CASE OnFinished(e)
  BY <1>1, <1>10, FinishedMeets
<1> QED
  BY <1>1, <1>3, <1>4, <1>5, <1>6, <1>7, <1>8, <1>9, <1>10
  DEF mission_handle_chassis

\* What the handlers of the arm and of the storage may rely on.
LEMMA ArmContext ==
    ASSUME Inductive, Met
    PROVE  /\ requestId \in 1..IdMax /\ SafeRecord(vis)
           /\ Now.vis = vis /\ Now.id \in 1..IdMax
           /\ StopPending(vis) /\ SessionFits /\ leg \in 0..3
           /\ layer \in Layers \cup {"NONE"} /\ balls \in Nat
           /\ \A f : mission_fail(Now, f) => Fallen(vis)
<1>1. requestId \in 1..IdMax /\ SafeRecord(vis)
  BY LimitContext
<1>2. Now.vis = vis /\ Now.id \in 1..IdMax
  BY <1>1 DEF Now
<1>3. ASSUME NEW f, mission_fail(Now, f) PROVE Fallen(vis)
  BY <1>1, <1>2, <1>3, FailFalls
<1> QED BY <1>1, <1>2, <1>3
        DEF Inductive, TypeOK, Met, MeetInv, ChassisTypeOK

LEMMA ArmOkMeets ==
    ASSUME Inductive, LimitFollowed, Met, ArmOk
    PROVE  MeetInv'
<1>0. /\ requestId \in 1..IdMax /\ SafeRecord(vis) /\ StopPending(vis)
      /\ SessionFits /\ layer \in Layers \cup {"NONE"} /\ leg \in 0..3
  BY ArmContext
<1>1. /\ arm_next /\ OkSeen /\ ~OkSeen' /\ layer' = layer /\ balls' = balls
      /\ Reads /\ evtQ' = evtQ /\ Reports' = Reports
      /\ UNCHANGED <<flags, stairVars, chassisVars>>
  BY DEF ArmOk, OkSeen, goto, Reads, Reports, stairVars
<1>2. ASSUME Fallen(vis) PROVE MeetInv'
  BY <1>0, <1>1, <1>2, FallenMeets
<1>3. state \notin RestStates /\ ~Gone => arm = 0 /\ "ARM_OK" \notin flags
  BY <1>1 DEF Met, MeetInv, ArmFits
<1>4. CASE state = "STAIR_WAIT_POSE" /\ start_stair_layer(vis, layer)
  <2>1. ~Gone /\ Climbing /\ state \notin RestStates
    BY <1>4, OnStairs
  <2>2. /\ Waiting
        /\ layer = "NONE" => Reports' \in News
        /\ layer # "NONE" => leg \in 1..3 /\ layer = StepAt(leg) /\ Reports' = <<>>
    <3>1. News = {<<>>} \/ <<>> \in News
      BY NewsRead
    <3> QED BY <1>1, <1>4, <2>1, <3>1 DEF Climbing, Fits
  <2>3. vis.phase = "IDLE"
    BY <1>0, <1>4 DEF SessionFits
  <2> QED BY <1>0, <1>1, <1>3, <1>4, <2>1, <2>2, <2>3, StartLayerMeets
<1>5. CASE state = "STAIR_WAIT_GRASP" /\ start_arm(vis, 13, "STAIR_WAIT_RETURN")
  <2>1. ~Gone /\ Climbing /\ state \notin RestStates
    BY <1>5, OnStairs DEF ArmWorks
  <2>2. \/ Fallen(vis)
        \/ /\ state' = "STAIR_WAIT_RETURN" /\ vis' = vis /\ arm' = 13
           /\ cmdQ' = cmdQ
    BY <1>0, <1>5, ArmLands
  <2>3. CASE /\ state' = "STAIR_WAIT_RETURN" /\ vis' = vis /\ arm' = 13
             /\ cmdQ' = cmdQ
    <3>1. StopPending(vis)' /\ SessionFits' /\ state' \notin RestStates
      BY <1>0, <2>3 DEF StopPending, Busy, SessionFits, RestStates
    <3>2. Climbing'
      <4>1. Parked' = Parked /\ Seen' = Seen
        BY <1>1, BaseStill
      <4> QED BY <1>1, <1>5, <2>1, <2>3, <4>1
              DEF Climbing, ArmWorks, Orders, Fits, StepAt
    <3>3. ArmFits'
      BY <1>1, <1>3, <2>1, <2>3, ArmFitsKept
    <3> QED BY <1>1, <2>1, <2>3, <3>1, <3>2, <3>3, GoMeets DEF GraspGroups
  <2> QED BY <1>2, <2>2, <2>3
<1>6. CASE /\ state = "STAIR_WAIT_SAFE"
           /\ send_new_stage(vis, "GO_SMALL_DISC", "WAIT_SMALL_DISC")
  <2>1. Gone /\ Leaving
    BY <1>6, Behind
  <2>2. \/ Fallen(vis)
        \/ state' = "WAIT_SMALL_DISC" /\ vis' = vis /\ arm' = arm
    BY <1>0, <1>6, StageLands
  <2>3. CASE state' = "WAIT_SMALL_DISC" /\ vis' = vis /\ arm' = arm
    <3>1. StopPending(vis)' /\ SessionFits' /\ state' \notin RestStates
      BY <1>0, <1>6, <2>3 DEF StopPending, Busy, SessionFits, RestStates
    <3>2. Leaving'
      <4>1. ~driving'
        BY <1>1, <2>1, BaseStill DEF Leaving
      <4> QED BY <2>3, <4>1 DEF Leaving
    <3>3. ArmFits'
      BY <1>1, <2>1, ArmFitsKept
    <3> QED BY <1>1, <2>1, <2>3, <3>1, <3>2, <3>3, GoMeets
  <2> QED BY <1>2, <2>2, <2>3
<1>7. CASE keep(vis)
  BY <1>0, <1>1, <1>7, KeepMeets
<1> QED BY <1>1, <1>4, <1>5, <1>6, <1>7 DEF arm_next

\* The ball is stored: the base goes on, watched if balls are still wanted.
LEMMA StoreMeets ==
    ASSUME Inductive, LimitFollowed, Met, StoreDone
    PROVE  MeetInv'
<1>0. /\ requestId \in 1..IdMax /\ SafeRecord(vis) /\ StopPending(vis)
      /\ SessionFits /\ layer \in Layers \cup {"NONE"} /\ leg \in 0..3
  BY ArmContext
<1>1. /\ state = "STAIR_WAIT_STORAGE" /\ vis.phase = "IDLE" /\ ~OkSeen'
      /\ layer' = layer /\ layer \in Scenes \ {"NONE"} /\ balls' = balls + 1
      /\ Reads /\ evtQ' = evtQ /\ Reports' = Reports
      /\ UNCHANGED <<flags, chassisVars>>
  BY DEF StoreDone, StoringState, Inductive, OkSeen, goto, Reads, Reports,
         LimitFollowed, ArmWorks, LayerKnown, LayerNeeded, TypeOK, Layers, Scenes
<1>2. ~Gone /\ Climbing /\ state \notin RestStates
  BY <1>1, OnStairs DEF ArmWorks
<1>3. Parked /\ Orders = <<>> /\ Fits(Seen) /\ Reports = <<>>
  BY <1>1, <1>2 DEF Climbing, ArmWorks
<1>4. Parked' /\ Fits(Seen)' /\ ~vis.stopReq
  BY <1>0, <1>1, <1>3, BaseStill, ClosedFresh DEF Fits, StepAt
<1>5. arm = 0 /\ "ARM_OK" \notin flags
  BY <1>1, <1>2, ArmQuiet
<1>6. CASE Fallen(vis)
  BY <1>0, <1>1, <1>6, FallenMeets
<1>7. ASSUME arm' = arm, StopPending(vis)', SessionFits', Climbing',
             state' \notin RestStates
      PROVE  MeetInv'
  <2>1. ArmFits'
    BY <1>1, <1>5, <1>7, ArmFitsKept
  <2> QED BY <1>1, <1>2, <1>7, <2>1, GoMeets
<1>8. CASE /\ balls' >= BallLimit
           /\ send_chassis(vis, "STAIR_RESUME", "STAIR_WAIT_RESUME")
  <2>1. \/ Fallen(vis)
        \/ /\ state' = "STAIR_WAIT_RESUME" /\ vis' = vis /\ arm' = arm
           /\ cmdQ' = Sent("STAIR_RESUME", requestId)
    BY <1>0, <1>8, SendLands
  <2>2. CASE /\ state' = "STAIR_WAIT_RESUME" /\ vis' = vis /\ arm' = arm
             /\ cmdQ' = Sent("STAIR_RESUME", requestId)
    <3>1. StopPending(vis)' /\ SessionFits' /\ state' \notin RestStates
      BY <1>0, <1>1, <1>8, <2>2 DEF StopPending, Busy, SessionFits, RestStates
    <3>2. Orders' = <<"STAIR_RESUME">>
      BY <1>3, <2>2, OrdersSent, Short DEF Met
    <3>3. Climbing'
      BY <1>1, <1>3, <1>4, <2>2, <3>2 DEF Climbing, ArmWorks
    <3> QED BY <1>7, <2>2, <3>1, <3>3
  <2> QED BY <1>6, <2>1, <2>2
<1>9. CASE start_vision(vis, layer, "STAIR_WAIT_VISION_RESUME")
  <2>1. \/ Fallen(vis)
        \/ /\ state' = "STAIR_WAIT_VISION_RESUME" /\ arm' = arm /\ cmdQ' = cmdQ
           /\ vis'.phase = "STARTING" /\ vis'.scene = layer
           /\ vis'.stopReq = vis.stopReq
    BY <1>0, <1>1, <1>9, VisionLands
  <2>2. CASE /\ state' = "STAIR_WAIT_VISION_RESUME" /\ arm' = arm /\ cmdQ' = cmdQ
             /\ vis'.phase = "STARTING" /\ vis'.scene = layer
             /\ vis'.stopReq = vis.stopReq
    <3>1. StopPending(vis)' /\ SessionFits' /\ state' \notin RestStates
      BY <1>1, <1>4, <2>2 DEF StopPending, Busy, SessionFits, RestStates
    <3>2. Climbing'
      BY <1>1, <1>3, <1>4, <2>2 DEF Climbing, ArmWorks, Orders
    <3> QED BY <1>7, <2>2, <3>1, <3>2
  <2> QED BY <1>6, <2>1, <2>2
<1> QED BY <1>8, <1>9 DEF StoreDone

LEMMA ArmMeets ==
    ASSUME Inductive, LimitFollowed, Met,
           ArmFail \/ ArmOk \/ BeginStore \/ StoreDone \/ StoreFailed \/ StoreGivesUp
    PROVE  MeetInv'
<1>0. /\ SafeRecord(vis) /\ StopPending(vis) /\ SessionFits
      /\ \A f : mission_fail(Now, f) => Fallen(vis)
  BY ArmContext
<1>1. CASE ArmFail \/ StoreFailed \/ StoreGivesUp
  <2>1. /\ Reads /\ ~OkSeen' /\ UNCHANGED <<flags, stairVars, chassisVars>>
        /\ keep(vis) \/ \E f : mission_fail(Now, f)
    BY <1>1 DEF ArmFail, StoreFailed, StoreGivesUp, Reads, OkSeen, goto
  <2>2. CASE keep(vis)
    BY <1>0, <2>1, <2>2, KeepMeets
  <2> QED BY <1>0, <2>1, <2>2, FallenMeets
<1>2. CASE ArmOk
  BY <1>2, ArmOkMeets
<1>3. CASE StoreDone
  BY <1>3, StoreMeets
<1>4. CASE BeginStore
  <2>1. /\ state = "STAIR_WAIT_RETURN" /\ state' = "STAIR_WAIT_STORAGE"
        /\ vis' = vis /\ arm' = arm /\ cmdQ' = cmdQ /\ layer' = layer
        /\ Reads /\ Reports' = Reports /\ OkSeen /\ ~OkSeen'
        /\ UNCHANGED <<flags, chassisVars>>
    BY <1>4 DEF BeginStore, enter_state, stairVars, Reads, Reports, OkSeen, goto
  <2>2. ~Gone /\ Climbing /\ state \notin RestStates
    BY <2>1, OnStairs DEF ArmWorks
  <2>3. arm = 0 /\ "ARM_OK" \notin flags
    BY <2>1, <2>2 DEF Met, MeetInv, ArmFits
  <2>4. StopPending(vis)' /\ SessionFits' /\ state' \notin RestStates
    BY <1>0, <2>1 DEF StopPending, Busy, SessionFits, RestStates
  <2>5. Climbing'
    <3>1. Parked' = Parked /\ Seen' = Seen
      BY <2>1, BaseStill
    <3> QED BY <2>1, <2>2, <3>1 DEF Climbing, ArmWorks, Orders, Fits, StepAt
  <2>6. ArmFits'
    BY <2>1, <2>3, ArmFitsKept
  <2> QED BY <2>1, <2>2, <2>4, <2>5, <2>6, GoMeets
<1> QED BY <1>1, <1>2, <1>3, <1>4

\* The session closes for the next layer, for good, or after a stop.
LEMMA SessionStoppedMeets ==
    ASSUME Inductive, LimitFollowed, Met, SessionStopped, SafeRecord(Taken),
           ~Busy(Taken), Taken.phase = vis.phase, Taken.stopReq = vis.stopReq, ~OkSeen',
           UNCHANGED <<evtQ, flags, stairVars, chassisVars>>
    PROVE  MeetInv'
<1> DEFINE v == mission_reset_vision(Taken)
<1>0. /\ requestId \in 1..IdMax /\ StopPending(vis)
      /\ SessionFits /\ layer \in Layers \cup {"NONE"} /\ leg \in 0..3
      /\ state \in StairStates
  BY ArmContext DEF Met
<1>1. /\ layer' = layer /\ balls' = balls /\ Reads /\ Reports' = Reports
      /\ vis.phase = "STOPPING"
  BY DEF stairVars, Reads, Reports, SessionStopped, Replied
<1>2. SafeRecord(v) /\ v.phase = "IDLE" /\ StopPending(v)
  <2>1. SafeRecord(v) /\ v.phase = "IDLE"
    BY DEF mission_reset_vision, SafeRecord, VisionType, Phases, Scenes, Busy
  <2>2. ~v.stopReq
    BY DEF mission_reset_vision, SafeRecord, VisionType
  <2> HIDE DEF v
  <2> QED BY <2>1, <2>2 DEF StopPending
<1>3. \/ state = "STAIR_WAIT_LAYER" /\ start_stair_layer(v, layer)
      \/ state = "STAIR_WAIT_VISION_END" /\ start_stair_exit(v)
      \/ state \notin {"STAIR_WAIT_LAYER", "STAIR_WAIT_VISION_END"} /\ keep(v)
  BY DEF SessionStopped
<1> HIDE DEF v
<1>4. CASE state = "STAIR_WAIT_LAYER" /\ start_stair_layer(v, layer)
  <2>1. ~Gone /\ Climbing /\ state \notin RestStates
    BY <1>4, OnStairs
  <2>2. arm = 0 /\ "ARM_OK" \notin flags
    BY <1>4, <2>1, ArmQuiet
  <2>3. /\ Waiting
        /\ layer = "NONE" => Reports' \in News
        /\ layer # "NONE" => leg \in 1..3 /\ layer = StepAt(leg) /\ Reports' = <<>>
    <3>1. <<>> \in News
      BY NewsRead
    <3> QED BY <1>1, <1>4, <2>1, <3>1 DEF Climbing, Fits
  <2> QED BY <1>0, <1>1, <1>2, <1>4, <2>2, <2>3, StartLayerMeets
<1>5. CASE state = "STAIR_WAIT_VISION_END" /\ start_stair_exit(v)
  <2>1. Gone /\ Leaving
    BY <1>5, Behind
  <2>2. Fallen(v) \/ (state' = "STAIR_WAIT_SAFE" /\ vis' = v /\ arm' = 18)
    BY <1>0, <1>2, <1>5, ArmLands DEF start_stair_exit
  <2>3. CASE Fallen(v)
    BY <1>1, <1>2, <2>3, FallenMeets
  <2>4. CASE state' = "STAIR_WAIT_SAFE" /\ vis' = v /\ arm' = 18
    <3>1. StopPending(vis)' /\ SessionFits' /\ state' \notin RestStates
      BY <1>2, <2>4 DEF StopPending, Busy, SessionFits, RestStates
    <3>2. Leaving'
      <4>1. ~driving'
        BY <2>1, BaseStill DEF Leaving
      <4> QED BY <2>4, <4>1 DEF Leaving
    <3>3. ArmFits'
      BY <2>1, ArmFitsKept
    <3> QED BY <1>1, <2>1, <2>4, <3>1, <3>2, <3>3, GoMeets DEF GraspGroups
  <2> QED BY <2>2, <2>3, <2>4
<1>6. CASE /\ state \notin {"STAIR_WAIT_LAYER", "STAIR_WAIT_VISION_END"}
           /\ keep(v)
  <2>1. state \in RestStates
    BY <1>0, <1>1, <1>6 DEF SessionFits, LimitFollowed, ArmWorks, StairStates,
                            ArmStates
  <2>2. UNCHANGED <<state, arm, cmdQ>> /\ vis' = v
    BY <1>6 DEF keep, enter_state
  <2>3. SessionFits' /\ StopPending(vis)'
    BY <1>2, <2>1, <2>2 DEF SessionFits, RestStates, StopPending, Busy
  <2>4. ArmFits'
    BY <2>2, ArmFitsKept
  <2> QED BY <1>1, <2>2, <2>3, <2>4, SameMeets
<1> QED BY <1>3, <1>4, <1>5, <1>6

\* Nano watches: the base is released or resumed, in the layer it stands in.
LEMMA SessionReadyMeets ==
    ASSUME Inductive, LimitFollowed, Met, SessionReady, SafeRecord(Taken),
           ~Busy(Taken), Taken.phase = vis.phase, Taken.scene = vis.scene,
           Taken.stopReq = vis.stopReq, ~OkSeen',
           UNCHANGED <<evtQ, flags, stairVars, chassisVars>>
    PROVE  MeetInv'
<1> DEFINE v == [Taken EXCEPT !.phase = "LISTENING"]
<1>0. /\ requestId \in 1..IdMax /\ StopPending(vis) /\ SafeRecord(vis)
      /\ SessionFits /\ leg \in 0..3 /\ state \in StairStates
  BY ArmContext DEF Met
<1>1. /\ layer' = layer /\ balls' = balls /\ Reads /\ Reports' = Reports
      /\ vis.phase = "STARTING" /\ ~vis.stopReq
  BY DEF stairVars, Reads, Reports, SessionReady, Replied, StopWasWaiting
<1>2. state \in {"STAIR_WAIT_VISION_START", "STAIR_WAIT_VISION_RESUME"}
  <2>1. state \notin RestStates
    BY <1>1 DEF Inductive, StopNoted
  <2> QED BY <1>0, <1>1, <2>1 DEF SessionFits, LimitFollowed, ArmWorks,
                                  StairStates, ArmStates
<1>3. /\ SafeRecord(v) /\ StopPending(v) /\ v.phase = "LISTENING"
      /\ ~v.stopReq /\ v.scene = layer
  BY <1>0, <1>1, <1>2 DEF SafeRecord, VisionType, Phases, Busy, StopPending,
                          SessionFits
<1>4. ~Gone /\ Climbing /\ state \notin RestStates
  BY <1>2, OnStairs
<1>5. arm = 0 /\ "ARM_OK" \notin flags
  BY <1>2, <1>4, ArmQuiet
<1>6. \/ /\ state = "STAIR_WAIT_VISION_RESUME"
         /\ send_chassis(v, "STAIR_RESUME", "STAIR_WAIT_RESUME")
      \/ /\ state = "STAIR_WAIT_VISION_START"
         /\ send_chassis(v, "CAM_READY", "STAIR_SCANNING")
  BY <1>2 DEF SessionReady
<1> HIDE DEF v
<1>7. CASE Fallen(v)
  BY <1>1, <1>3, <1>7, FallenMeets
<1>8. ASSUME state' \in {"STAIR_WAIT_RESUME", "STAIR_SCANNING"}, vis' = v,
             arm' = arm, Climbing'
      PROVE  MeetInv'
  <2>1. StopPending(vis)' /\ SessionFits' /\ state' \notin RestStates
    BY <1>1, <1>3, <1>8 DEF StopPending, Busy, SessionFits, RestStates
  <2>2. ArmFits'
    BY <1>5, <1>8, ArmFitsKept
  <2> QED BY <1>1, <1>4, <1>8, <2>1, <2>2, GoMeets
<1>9. CASE /\ state = "STAIR_WAIT_VISION_RESUME"
           /\ send_chassis(v, "STAIR_RESUME", "STAIR_WAIT_RESUME")
  <2>1. \/ Fallen(v)
        \/ /\ state' = "STAIR_WAIT_RESUME" /\ vis' = v /\ arm' = arm
           /\ cmdQ' = Sent("STAIR_RESUME", requestId)
    BY <1>0, <1>3, <1>9, SendLands
  <2>2. CASE /\ state' = "STAIR_WAIT_RESUME" /\ vis' = v /\ arm' = arm
             /\ cmdQ' = Sent("STAIR_RESUME", requestId)
    <3>1. Parked /\ Orders = <<>> /\ Fits(Seen) /\ Reports = <<>>
      BY <1>4, <1>9 DEF Climbing, ArmWorks
    <3>2. Orders' = <<"STAIR_RESUME">>
      BY <2>2, <3>1, OrdersSent, Short DEF Met
    <3>3. Parked' /\ Fits(Seen)'
      BY <1>1, <3>1, BaseStill DEF Fits, StepAt
    <3>4. Climbing'
      BY <1>1, <2>2, <3>1, <3>2, <3>3 DEF Climbing, ArmWorks
    <3> QED BY <1>8, <2>2, <3>4
  <2> QED BY <1>7, <2>1, <2>2
<1>10. CASE /\ state = "STAIR_WAIT_VISION_START"
            /\ send_chassis(v, "CAM_READY", "STAIR_SCANNING")
  <2>1. \/ Fallen(v)
        \/ /\ state' = "STAIR_SCANNING" /\ vis' = v /\ arm' = arm
           /\ cmdQ' = Sent("CAM_READY", requestId)
    BY <1>0, <1>3, <1>10, SendLands
  <2>2. CASE /\ state' = "STAIR_SCANNING" /\ vis' = v /\ arm' = arm
             /\ cmdQ' = Sent("CAM_READY", requestId)
    <3>1. Waiting /\ Fits(leg) /\ Reports = <<>>
      BY <1>4, <1>10 DEF Climbing
    <3>2. Orders' = <<"CAM_READY">>
      BY <2>2, <3>1, OrdersSent, Short DEF Met, Waiting
    <3>3. cpc' = "ready" /\ Underway' /\ Fits(leg)'
      BY <1>1, <3>1, BaseStill DEF Waiting, Underway, Fits, StepAt
    <3>4. Climbing'
      BY <1>1, <2>2, <3>1, <3>2, <3>3 DEF Climbing, ArmWorks
    <3> QED BY <1>8, <2>2, <3>4
  <2> QED BY <1>7, <2>1, <2>2
<1> QED BY <1>6, <1>9, <1>10

\* A ball is seen: the base is told to pause, wherever it is by then.
LEMMA BallSeenMeets ==
    ASSUME Inductive, LimitFollowed, Met, BallSeen, SafeRecord(Taken),
           ~Busy(Taken), Taken.phase = vis.phase, Taken.scene = vis.scene,
           Taken.stopReq = vis.stopReq, ~OkSeen',
           UNCHANGED <<evtQ, flags, stairVars, chassisVars>>
    PROVE  MeetInv'
<1>0. /\ requestId \in 1..IdMax /\ StopPending(vis) /\ SafeRecord(vis)
      /\ SessionFits /\ leg \in 0..3 /\ state \in StairStates
  BY ArmContext DEF Met
<1>1. /\ layer' = layer /\ balls' = balls /\ Reads /\ Reports' = Reports
      /\ vis.phase = "LISTENING" /\ ~vis.stopReq /\ state = "STAIR_SCANNING"
  BY DEF stairVars, Reads, Reports, BallSeen, Replied, StopWasWaiting
<1>2. PICK ok \in submit_results(Taken) :
          IF ok THEN send_chassis(acking(TRUE), "STAIR_STOP", "STAIR_WAIT_PAUSE")
                ELSE mission_fail(With(acking(FALSE)), "VISION")
  BY DEF BallSeen
<1> DEFINE v == acking(ok)
           u == [Taken EXCEPT !.phase = "ACKING"]
<1>3. /\ u \in VisionType /\ ~Busy(u) /\ u.phase = "ACKING" /\ ~u.stopReq
      /\ u.scene # "NONE" /\ ok \in submit_results(u) /\ ok \in BOOLEAN
  BY <1>1, <1>2 DEF SafeRecord, VisionType, Phases, Busy, submit_results
<1>4. v = mission_submit_vision_transfer(u, "ACK", ok)
  BY DEF acking
<1>5. SafeRecord(v) /\ ~v.stopReq
  <2> HIDE DEF v, u
  <2> QED BY <1>3, <1>4, SubmitSafe
<1>6. \/ send_chassis(v, "STAIR_STOP", "STAIR_WAIT_PAUSE")
      \/ mission_fail(With(v), "VISION")
  BY <1>2, <1>3
<1> HIDE DEF v, u
<1>7. StopPending(v)
  BY <1>5 DEF StopPending
<1>8. CASE Fallen(v)
  BY <1>1, <1>7, <1>8, FallenMeets
<1>9. CASE mission_fail(With(v), "VISION")
  <2>1. With(v).vis = v /\ With(v).id \in 1..IdMax
    BY <1>0, WithTyped
  <2>2. Fallen(With(v).vis)
    BY <1>5, <1>9, <2>1, FailFalls
  <2> QED BY <1>8, <2>1, <2>2
<1>10. CASE send_chassis(v, "STAIR_STOP", "STAIR_WAIT_PAUSE")
  <2>1. \/ Fallen(v)
        \/ /\ state' = "STAIR_WAIT_PAUSE" /\ vis' = v /\ arm' = arm
           /\ cmdQ' = Sent("STAIR_STOP", requestId)
    BY <1>0, <1>5, <1>10, SendLands
  <2>2. CASE /\ state' = "STAIR_WAIT_PAUSE" /\ vis' = v /\ arm' = arm
             /\ cmdQ' = Sent("STAIR_STOP", requestId)
    <3>0. state \notin RestStates
      BY <1>1 DEF RestStates
    <3>1. StopPending(vis)' /\ SessionFits' /\ state' \notin RestStates
      BY <1>7, <2>2 DEF StopPending, Busy, SessionFits, RestStates
    <3>2. CASE Gone
      <4>1. Leaving
        BY <3>2 DEF Met, MeetInv, Rendezvous
      <4>2. Leaving'
        <5>1. ~driving'
          BY <4>1, BaseStill DEF Leaving
        <5> QED BY <1>1, <2>2, <4>1, <5>1 DEF Leaving
      <4>3. ArmFits'
        BY <3>2, ArmFitsKept
      <4> QED BY <1>1, <2>2, <3>1, <3>2, <4>2, <4>3, GoMeets
    <3>3. CASE ~Gone
      <4>1. arm = 0 /\ "ARM_OK" \notin flags
        BY <1>1, <3>0, <3>3, ArmQuiet
      <4>2. Climbing
        BY <3>0, <3>3 DEF Met, MeetInv, Rendezvous
      <4>3. Underway' = Underway /\ News' = News /\ Seen' = Seen /\ cpc' = cpc
            /\ leg' = leg
        BY BaseStill
      <4>4. Orders' = Append(Orders, "STAIR_STOP")
        BY <2>2, OrdersSent DEF Met
      <4>5. /\ Underway
            /\ \/ Orders = <<"CAM_READY">> /\ cpc = "ready" /\ Fits(leg)
                  /\ Reports = <<>>
               \/ Orders = <<>> /\ Fits(Seen) /\ Reports \in News
        BY <1>1, <4>2 DEF Climbing
      <4>6. /\ Orders = <<"CAM_READY">> => Orders' = <<"CAM_READY", "STAIR_STOP">>
            /\ Orders = <<>> => Orders' = <<"STAIR_STOP">>
        <5>1. {"CAM_READY", "STAIR_STOP"} \subseteq CommandTypes
          BY DEF CommandTypes
        <5> QED BY <4>4, <5>1, Short
      <4>7. /\ Fits(leg) => Fits(leg)'
            /\ Fits(Seen) => Fits(Seen)'
        BY <1>1, <4>3 DEF Fits, StepAt
      <4>8. Climbing'
        BY <1>1, <2>2, <4>3, <4>5, <4>6, <4>7 DEF Climbing, ArmWorks
      <4>9. ArmFits'
        BY <2>2, <4>1, ArmFitsKept
      <4> QED BY <1>1, <2>2, <3>1, <3>3, <4>8, <4>9, GoMeets
    <3> QED BY <3>2, <3>3
  <2> QED BY <1>8, <2>1, <2>2
<1> QED BY <1>6, <1>9, <1>10

\* The camera's answers, whatever they are.
LEMMA VisionMeets ==
    ASSUME Inductive, LimitFollowed, Met, HandleVision
    PROVE  MeetInv'
<1>0. /\ mission_handle_vision /\ DoneSeen /\ ~OkSeen' /\ Reads
      /\ UNCHANGED <<evtQ, flags, stairVars, chassisVars>>
  BY DEF HandleVision, DoneSeen, OkSeen, goto, Reads
<1>1. /\ requestId \in 1..IdMax /\ SafeRecord(vis) /\ StopPending(vis)
      /\ SessionFits /\ state \in StairStates
  BY ArmContext DEF Met
<1>2. /\ SafeRecord(Taken) /\ ~Busy(Taken) /\ Taken.phase = vis.phase
      /\ Taken.scene = vis.scene /\ Taken.stopReq = vis.stopReq
  BY <1>0, TakenSafe DEF Inductive, DoneMeansAnswered
<1>3. CASE DeferredStop
  <2> DEFINE v == [Taken EXCEPT !.stopReq = FALSE]
  <2>1. SafeRecord(v) /\ v.phase = vis.phase /\ StopPending(v)
    BY <1>2 DEF SafeRecord, VisionType, Busy, StopPending
  <2>2. stop_vision(v, state) /\ vis.stopReq /\ vis.phase # "STOPPING"
    BY <1>3 DEF DeferredStop, StopWasWaiting
  <2>3. vis.phase # "IDLE"
    BY <1>1, <2>2 DEF SafeRecord, StopPending
  <2>4. state \in {"STAIR_WAIT_LAYER", "STAIR_WAIT_VISION_END"} \cup RestStates
    BY <1>1, <2>2, <2>3 DEF SessionFits, LimitFollowed, ArmWorks, StairStates,
                            ArmStates
  <2> HIDE DEF v
  <2>5. \/ Fallen(v)
        \/ /\ state' = state /\ arm' = arm /\ cmdQ' = cmdQ /\ StopPending(vis')
           /\ vis'.phase = "STOPPING" \/ vis'.stopReq
    BY <1>1, <2>1, <2>2, <2>3, StopLands
  <2>6. CASE Fallen(v)
    BY <1>0, <2>1, <2>6, FallenMeets
  <2>7. CASE /\ state' = state /\ arm' = arm /\ cmdQ' = cmdQ /\ StopPending(vis')
             /\ vis'.phase = "STOPPING" \/ vis'.stopReq
    <3>1. SessionFits' /\ StopPending(vis)'
      BY <2>4, <2>7 DEF SessionFits, RestStates, StopPending, Busy
    <3>2. ArmFits'
      BY <1>0, <2>7, ArmFitsKept
    <3> QED BY <1>0, <2>7, <3>1, <3>2, SameMeets DEF stairVars
  <2> QED BY <2>5, <2>6, <2>7
<1>4. CASE QuietListen \/ AckSent \/ EventIgnored
  <2>1. keep(Taken) /\ ~StopWasWaiting
    BY <1>4 DEF QuietListen, AckSent, EventIgnored, Replied
  <2>2. StopPending(Taken)
    BY <1>2, <2>1 DEF StopPending, StopWasWaiting
  <2> QED BY <1>0, <1>2, <2>1, <2>2, KeepMeets
<1>5. CASE BusFault \/ WrongReply
  <2>1. mission_fail(With(Taken), "VISION") /\ ~StopWasWaiting
    BY <1>5 DEF BusFault, WrongReply, Replied
  <2>2. With(Taken).vis = Taken /\ With(Taken).id \in 1..IdMax
    BY <1>1, WithTyped
  <2>3. Fallen(With(Taken).vis)
    BY <1>2, <2>1, <2>2, FailFalls
  <2>4. StopPending(Taken)
    BY <1>2, <2>1 DEF StopPending, StopWasWaiting
  <2> QED BY <1>0, <2>2, <2>3, <2>4, FallenMeets
<1>6. CASE SessionStopped
  BY <1>0, <1>2, <1>6, SessionStoppedMeets
<1>7. CASE SessionReady
  BY <1>0, <1>2, <1>7, SessionReadyMeets
<1>8. CASE BallSeen
  BY <1>0, <1>2, <1>8, BallSeenMeets
<1> QED
  BY <1>0, <1>3, <1>4, <1>5, <1>6, <1>7, <1>8 DEF mission_handle_vision

\* The user stops, in the main loop or while a ball is being stored.
LEMMA CommandMeets ==
    ASSUME Inductive, Met, mission_handle_command, UNCHANGED <<evtQ, flags>>,
           OkSeen' => OkSeen, UNCHANGED <<stairVars, chassisVars>>
    PROVE  MeetInv'
<1>1. /\ CtxTyped(StairStates) /\ SafeRecord(vis) /\ StopNoted(vis)
      /\ StopPending(vis) /\ SessionFits /\ requestId \in 1..IdMax
  BY Regroup, ArmContext DEF Parts
<1>2. Reads /\ layer' = layer /\ balls' = balls
  BY DEF Reads, stairVars
<1>3. CASE state \notin {"STOPPED", "BOOT"}
  <2>1. Rested
    BY <1>1, <1>3, CommandSafe
  <2>2. PICK r \in mission_stop_vision(vis) :
            \/ vis' = r.vis
            \/ mission_fail([With(r.vis) EXCEPT !.id =
                                mission_next_request_id(requestId)], "QUEUE")
    BY <1>3 DEF mission_handle_command
  <2>3. SafeRecord(r.vis) /\ StopPending(r.vis)
    BY <1>1, StopSafe, StopPends
  <2>4. StopPending(vis')
    <3>1. CASE vis' = r.vis
      BY <2>3, <3>1
    <3>2. CASE mission_fail([With(r.vis) EXCEPT !.id =
                                mission_next_request_id(requestId)], "QUEUE")
      <4> DEFINE id == mission_next_request_id(requestId)
                 w == [With(r.vis) EXCEPT !.id = id]
      <4>1. id \in 1..IdMax
        BY <1>1, NextIdTyped
      <4> HIDE DEF id
      <4>2. w.vis = r.vis /\ w.id \in 1..IdMax
        BY <1>1, <4>1, WithTyped
      <4> HIDE DEF w
      <4>3. mission_fail(w, "QUEUE")
        BY <3>2 DEF w, id
      <4>4. Fallen(w.vis)
        BY <2>3, <4>2, <4>3, FailFalls
      <4> QED BY <2>3, <4>2, <4>4 DEF Fallen
    <3> QED BY <2>2, <3>1, <3>2
  <2>5. StopPending(vis)'
    BY <2>4 DEF StopPending, Busy
  <2> QED BY <1>2, <2>1, <2>5, FallMeets
<1>4. CASE state \in {"STOPPED", "BOOT"}
  <2>1. UNCHANGED <<state, vis, arm, cmdQ>>
    BY <1>4 DEF mission_handle_command
  <2>2. StopPending(vis)' /\ SessionFits'
    BY <1>1, <1>2, <2>1 DEF StopPending, Busy, SessionFits
  <2>3. ArmFits'
    BY <2>1, ArmFitsKept
  <2> QED BY <1>2, <2>1, <2>2, <2>3, SameMeets
<1> QED BY <1>3, <1>4

\* The end of a turn of the main loop.
LEMMA ProcessMeets ==
    ASSUME Inductive, LimitFollowed, Met, UNCHANGED <<stairVars, chassisVars>>,
           ReadNext \/ AckProcessed \/ CheckTimeout(Timed)
    PROVE  MeetInv'
<1>0. /\ requestId \in 1..IdMax /\ SafeRecord(vis) /\ StopPending(vis)
      /\ SessionFits /\ leg \in 0..3 /\ state \in StairStates
      /\ Now.vis = vis /\ \A f : mission_fail(Now, f) => Fallen(vis)
  BY ArmContext DEF Met
<1>1. /\ ~OkSeen' /\ Reads /\ layer' = layer /\ balls' = balls
      /\ Reports' = Reports /\ UNCHANGED <<evtQ, flags>>
  BY DEF ReadNext, AckProcessed, CheckTimeout, goto, OkSeen, Reads, stairVars,
         Reports
<1>2. CASE ReadNext
  <2>1. PICK ok \in submit_results(vis) :
            keep(mission_submit_vision_transfer(vis, "READ", ok))
    BY <1>2 DEF ReadNext
  <2>2. ~Busy(vis) /\ vis.phase = "LISTENING"
    BY <1>2 DEF ReadNext
  <2> DEFINE v == mission_submit_vision_transfer(vis, "READ", ok)
  <2>3. v.phase = vis.phase /\ v.scene = vis.scene /\ v.stopReq = vis.stopReq
    BY <1>0, <2>1, <2>2, SubmitSafe DEF SafeRecord
  <2>4. keep(v)
    BY <2>1
  <2> HIDE DEF v
  <2>5. StopPending(v)
    BY <1>0, <2>2, <2>3 DEF StopPending
  <2> QED BY <1>1, <2>3, <2>4, <2>5, KeepMeets
<1>3. CASE CheckTimeout(Timed)
  <2>1. keep(vis) \/ mission_fail(Now, "TIMEOUT")
    BY <1>3 DEF CheckTimeout
  <2>2. CASE keep(vis)
    BY <1>0, <1>1, <2>2, KeepMeets
  <2>3. CASE mission_fail(Now, "TIMEOUT")
    BY <1>0, <1>1, <2>3, FallenMeets
  <2> QED BY <2>1, <2>2, <2>3
<1>4. CASE AckProcessed
  <2> DEFINE v == mission_reset_vision(vis)
  <2>0. vis.phase = "ACKING" /\ ~Busy(vis) /\ ~vis.stopReq
    BY <1>0, <1>4 DEF AckProcessed, StopPending
  <2>1. SafeRecord(v) /\ v.phase = "IDLE" /\ ~v.stopReq
    BY <1>0, <2>0 DEF mission_reset_vision, SafeRecord, VisionType, Phases,
                      Scenes, Busy
  <2>2. \/ state = "STAIR_WAIT_ACK" /\ grasp(v)
        \/ state # "STAIR_WAIT_ACK" /\ keep(v)
    BY <1>4 DEF AckProcessed
  <2> HIDE DEF v
  <2>3. StopPending(v)
    BY <2>1 DEF StopPending
  <2>4. CASE state = "STAIR_WAIT_ACK" /\ grasp(v)
    <3>1. ~Gone /\ Climbing /\ state \notin RestStates
      BY <2>4, OnStairs
    <3>2. Parked /\ Orders = <<>> /\ Fits(Seen) /\ Reports = <<>>
      BY <2>4, <3>1 DEF Climbing
    <3>3. "ARM_OK" \notin flags
      BY <2>4, <3>1, ArmQuiet
    <3>4. Parked' /\ Fits(Seen)' /\ leg' = leg /\ camReady' = camReady
      BY <1>1, <3>2, BaseStill DEF Fits, StepAt, chassisVars, sweepVars
    <3>5. \/ Fallen(v)
          \/ /\ state' = "STAIR_WAIT_GRASP" /\ vis' = v /\ cmdQ' = cmdQ
             /\ arm' = mission_stair_grasp_group(layer)
      BY <1>0, <2>1, <2>4, ArmLands DEF grasp
    <3>6. CASE Fallen(v)
      BY <1>1, <2>3, <3>6, FallenMeets
    <3>7. CASE /\ state' = "STAIR_WAIT_GRASP" /\ vis' = v /\ cmdQ' = cmdQ
               /\ arm' = mission_stair_grasp_group(layer)
      <4>1. StopPending(vis)' /\ SessionFits' /\ state' \notin RestStates
        BY <2>3, <3>7 DEF StopPending, Busy, SessionFits, RestStates
      <4>2. Climbing'
        BY <1>1, <3>2, <3>4, <3>7 DEF Climbing, ArmWorks, Orders
      <4>3. ArmFits'
        BY <1>1, <3>3, <3>7, ArmFitsKept
      <4>4. GraspFitsLayer'
        BY <3>2, <3>4, <3>7, GraspGroupFits
        DEF GraspFitsLayer, Seen, GroupAt, StepAt
      <4> QED BY <1>1, <3>1, <4>1, <4>2, <4>3, <4>4, GoMeets
    <3> QED BY <3>5, <3>6, <3>7
  <2>5. CASE state # "STAIR_WAIT_ACK" /\ keep(v)
    <3>1. state \in {"STAIR_WAIT_PAUSE"} \cup RestStates
      BY <1>0, <2>0, <2>5 DEF SessionFits, LimitFollowed, ArmWorks, StairStates,
                              ArmStates
    <3>2. UNCHANGED <<state, arm, cmdQ>> /\ vis' = v
      BY <2>5 DEF keep, enter_state
    <3>3. SessionFits' /\ StopPending(vis)'
      BY <2>3, <3>1, <3>2 DEF SessionFits, RestStates, StopPending, Busy
    <3>4. ArmFits'
      BY <1>1, <3>2, ArmFitsKept
    <3> QED BY <1>1, <3>2, <3>3, <3>4, SameMeets
  <2> QED BY <2>2, <2>4, <2>5
<1> QED BY <1>2, <1>3, <1>4

\* Steps of the main loop that only look.
LEMMA QuietMeets ==
    ASSUME Met, UNCHANGED <<stairVars, chassisVars>>,
           \/ Wake \/ WakeLate(Timed) \/ CommandsDone \/ EventsDone \/ ArmDone
           \/ VisionDone \/ NothingToProcess \/ SubmitStop
    PROVE  MeetInv'
<1>1. UNCHANGED <<ctxVars, evtQ>>
  BY DEF Wake, WakeLate, CommandsDone, EventsDone, ArmDone, VisionDone,
         NothingToProcess, SubmitStop
<1>2. /\ UNCHANGED <<state, vis, arm, cmdQ, layer, balls>> /\ Reads
      /\ StopPending(vis) /\ SessionFits /\ ArmFits
  BY <1>1 DEF ctxVars, stairVars, Reads, Met, MeetInv
<1>3. StopPending(vis)' /\ SessionFits'
  BY <1>2 DEF StopPending, Busy, SessionFits
<1>4. ArmFits'
  <2>1. Gone' = Gone
    BY BaseStill
  <2>2. CASE Wake
    <3>1. /\ "ARM_OK" \notin flags' /\ (OkSeen' => "ARM_OK" \in flags)
      BY <2>2 DEF Wake, OkSeen
    <3> QED BY <1>2, <2>1, <3>1 DEF ArmFits
  <2>3. CASE ~Wake
    <3>1. "ARM_OK" \in flags' => "ARM_OK" \in flags
      BY <2>3 DEF WakeLate, CommandsDone, EventsDone, ArmDone, VisionDone,
                  NothingToProcess, SubmitStop
    <3>2. OkSeen' => OkSeen
      BY <2>3 DEF OkSeen, WakeLate, CommandsDone, EventsDone, ArmDone,
                  VisionDone, NothingToProcess, SubmitStop, goto
    <3> QED BY <1>2, <3>1, <3>2, ArmFitsKept
  <2> QED BY <2>2, <2>3
<1> QED BY <1>2, <1>3, <1>4, SameMeets

\* The camera answers, the arm reports, the base rolls on.
LEMMA WorldMeets ==
    ASSUME Inductive, Met, World
    PROVE  MeetInv'
<1>0. /\ SafeRecord(vis) /\ StopPending(vis) /\ SessionFits /\ ArmFits
      /\ BaseFits /\ Rendezvous /\ GraspFitsLayer /\ evtQ \in Seq(EventType)
      /\ state \in StairStates
  BY LimitContext DEF Met, MeetInv
<1>1. CASE SubmitStop /\ UNCHANGED <<stairVars, chassisVars>>
  BY <1>1, QuietMeets
<1>2. CASE (PublishReply \/ ReleaseTransfer) /\ UNCHANGED <<stairVars, chassisVars>>
  <2>1. /\ UNCHANGED <<state, arm, cmdQ, evtQ, layer, balls, got, pc>>
        /\ flags' \in {flags, flags \cup {"VISION_DONE"}}
    <3>1. CASE PublishReply
      BY <1>2, <3>1, Zenon DEF PublishReply, loopVars, stairVars
    <3>2. CASE ReleaseTransfer
      BY <1>2, <3>2 DEF ReleaseTransfer, loopVars, stairVars
    <3> QED BY <1>2, <3>1, <3>2
  <2>2. /\ vis'.phase = vis.phase /\ vis'.scene = vis.scene
        /\ vis'.stopReq = vis.stopReq /\ vis'.pending
    <3>1. CASE PublishReply
      <4>1. PICK m \in replies(vis.io) :
                vis' = [vis EXCEPT !.mail = m, !.pending = TRUE]
        BY <3>1, Zenon DEF PublishReply
      <4> QED BY <1>0, <4>1 DEF SafeRecord, VisionType
    <3>2. CASE ReleaseTransfer
      BY <1>0, <3>2 DEF ReleaseTransfer, SafeRecord, VisionType
    <3> QED BY <1>2, <3>1, <3>2
  <2>3. StopPending(vis)'
    BY <2>2 DEF StopPending, Busy
  <2>4. SessionFits'
    BY <1>0, <2>1, <2>2 DEF SessionFits
  <2>5. ("ARM_OK" \in flags' => "ARM_OK" \in flags) /\ (OkSeen' => OkSeen) /\ Reads
    BY <2>1 DEF OkSeen, Reads
  <2>6. ArmFits'
    BY <1>2, <2>1, <2>5, ArmFitsKept
  <2> QED BY <1>2, <2>1, <2>3, <2>4, <2>5, <2>6, SameMeets
<1>3. CASE (ArmCompleted \/ ArmFailed) /\ UNCHANGED <<stairVars, chassisVars>>
  <2>1. /\ UNCHANGED <<state, vis, cmdQ, evtQ, layer, balls, got, pc>>
        /\ arm # 0 /\ arm' \in {0, arm}
        /\ "ARM_OK" \in flags' => arm' = 0 \/ "ARM_OK" \in flags
    BY <1>3 DEF ArmCompleted, ArmFailed, loopVars, stairVars
  <2>2. StopPending(vis)' /\ SessionFits' /\ Reads
    BY <1>0, <2>1 DEF StopPending, Busy, SessionFits, Reads
  <2>3. ArmFits'
    <3>1. Gone' = Gone /\ OkSeen' = OkSeen
      BY <1>3, <2>1, BaseStill DEF OkSeen
    <3> QED BY <1>0, <2>1, <3>1 DEF ArmFits
  <2> QED BY <1>3, <2>1, <2>2, <2>3, SameMeets
<1>4. CASE /\ Advance
           /\ UNCHANGED <<state, fault, requestId, activeArm, armHome, vis, arm,
                          loopVars, stairVars>>
  <2>1. /\ UNCHANGED <<state, vis, arm, cmdQ, evtQ, flags, layer, balls, got, pc>>
        /\ UNCHANGED <<cpc, driving, leg, moving, paused, camReady>>
    BY <1>4 DEF Advance, linkVars, loopVars, stairVars
  <2>2. BaseFits' /\ SessionFits' /\ StopPending(vis)' /\ evtQ' \in Seq(EventType)
    BY <1>0, <2>1 DEF BaseFits, SessionFits, StopPending, Busy
  <2>3. Rendezvous'
    BY <1>0, <2>1 DEF Rendezvous, Gone, Leaving, Resting, Climbing, Waiting,
                      Parked, Underway, Fits, Seen, StepAt, Orders, Reports,
                      News, NewsAfter, NewsBefore
  <2>4. ArmFits' /\ GraspFitsLayer'
    BY <1>0, <2>1 DEF ArmFits, Gone, OkSeen, GraspFitsLayer, GroupAt, StepAt
  <2> QED BY <2>2, <2>3, <2>4 DEF MeetInv
<1> QED BY <1>1, <1>2, <1>3, <1>4 DEF World

LEMMA StepMeets ==
    ASSUME Inductive, LimitFollowed, MeetInv, [Next]_vars
    PROVE  MeetInv'
<1>0. Met
  BY MetFollows
<1>1. CASE UNCHANGED vars
  <2>1. UNCHANGED <<state, layer, cmdQ, chassisVars, vis, arm, balls, flags, got,
                    pc, evtQ>>
    BY <1>1 DEF vars, ctxVars, loopVars, stairVars
  <2>2. StopPending(vis)' /\ SessionFits' /\ Reads /\ OkSeen' = OkSeen
    BY <1>0, <2>1 DEF Met, MeetInv, StopPending, Busy, SessionFits, Reads, OkSeen
  <2>3. ArmFits'
    BY <1>0, <2>1, <2>2, ArmFitsKept
  <2> QED BY <1>0, <2>1, <2>2, <2>3, SameMeets
<1>2. CASE MissionLoop /\ UNCHANGED <<stairVars, chassisVars>>
  <2>1. CASE HandleCommand
    <3>1. mission_handle_command /\ UNCHANGED <<evtQ, flags, got, pc>>
      BY <2>1 DEF HandleCommand
    <3> QED BY <1>0, <1>2, <3>1, CommandMeets DEF OkSeen
  <2>2. CASE ReadNext \/ AckProcessed \/ CheckTimeout(Timed)
    BY <1>0, <1>2, <2>2, ProcessMeets
  <2>3. CASE Wake \/ WakeLate(Timed) \/ CommandsDone \/ EventsDone \/ ArmDone
               \/ VisionDone \/ NothingToProcess
    BY <1>0, <1>2, <2>3, QuietMeets
  <2> QED BY <1>2, <2>1, <2>2, <2>3 DEF MissionLoop
<1>3. CASE StoreSeesStop
  <2>1. /\ mission_handle_command /\ UNCHANGED <<evtQ, flags>> /\ ~OkSeen'
        /\ UNCHANGED <<stairVars, chassisVars>>
    BY <1>3 DEF StoreSeesStop, OkSeen
  <2> QED BY <1>0, <2>1, CommandMeets
<1>4. CASE HandleChassis
  BY <1>0, <1>4, HandleChassisMeets
<1>5. CASE ArmFail \/ ArmOk \/ BeginStore \/ StoreDone \/ StoreFailed
             \/ StoreGivesUp
  BY <1>0, <1>5, ArmMeets
<1>6. CASE HandleVision
  BY <1>0, <1>6, VisionMeets
<1>7. CASE Chassis
  BY <1>0, <1>7, ChassisMeets
<1>8. CASE World
  BY <1>0, <1>8, WorldMeets
<1> QED
  BY <1>1, <1>2, <1>3, <1>4, <1>5, <1>6, <1>7, <1>8 DEF Next, Mission, Over
-----------------------------------------------------------------------------
(* The theorems.                                                           *)

LEMMA InitInductive == StairInit => Inductive
<1> SUFFICES ASSUME StairInit PROVE Inductive
  OBVIOUS
<1>1. SafeRecord(vis) /\ StopNoted(vis)
  BY DEF StairInit, IdleVision, SafeRecord, StopNoted, VisionType, Phases,
         Scenes, Frames, Mails, Busy
<1>2. CoreTypeOK
  BY <1>1, FirstIdAssumption, BudgetAssumption
  DEF StairInit, LinkInit, CoreTypeOK, SafeRecord, Faults, Groups, FlagNames,
      LoopStages
<1>3. ChassisTypeOK /\ LegInRange
  <2>1. highCnt \in 0..EndHighN
    BY EndHighAssumption DEF StairInit, ChassisInit
  <2>2. {driving, past, moving, paused, camReady, woken} \subseteq BOOLEAN
    BY DEF StairInit, ChassisInit
  <2>3. cpc = "await" /\ leg = 0 /\ sweepId = 0
    BY DEF StairInit, ChassisInit
  <2> QED BY <2>1, <2>2, <2>3 DEF ChassisTypeOK, LegInRange, ChassisStages
<1>4. QueueTyped
  <2>1. Command("GO_STAIRS", FirstId) \in Commands
    BY FirstIdAssumption DEF Command, Commands, CommandTypes
  <2> QED BY <2>1 DEF StairInit, QueueTyped
<1>5. TypeOK
  BY <1>2, <1>3 DEF TypeOK, StairInit, StairStates
<1>6. DoneMeansAnswered /\ LayerKnown /\ StoringState
  BY DEF StairInit, LinkInit, IdleVision, DoneMeansAnswered, DoneSeen,
         LayerKnown, LayerNeeded, StoringState
<1> QED BY <1>1, <1>3, <1>4, <1>5, <1>6 DEF Inductive

\* Every step of the system keeps the invariant and obeys NoReleaseAfterStop.
LEMMA StepInductive ==
    ASSUME Inductive, [Next]_vars
    PROVE  Inductive' /\ OnlyStopSent
<1>1. Parts
  BY Regroup
<1>p. SUFFICES Parts' /\ OnlyStopSent
  BY Regroup
<1>2. ASSUME UNCHANGED vars PROVE Parts' /\ OnlyStopSent
  <2>1. /\ UNCHANGED <<ctxVars, flags, got, pc, userQ, stops>>
        /\ UNCHANGED <<stairVars, chassisVars>> /\ layer' = layer
    BY <1>2 DEF vars, loopVars, stairVars
  <2>2. /\ CtxTyped(StairStates)' /\ SafeRecord(vis)' /\ StopNoted(vis)' /\ StopOnly
        /\ LayerKnown'
    BY <1>1, <2>1, ContextKept
  <2>3. LoopTyped' /\ StairTyped' /\ ChassisTypeOK' /\ LegInRange'
    BY <1>1, <2>1 DEF Parts, LoopTyped, StairTyped, stairVars, chassisVars,
                      sweepVars, ChassisTypeOK, LegInRange
  <2>4. DoneMeansAnswered' /\ StoringState'
    BY <1>1, <2>1 DEF Parts, DoneMeansAnswered, DoneSeen, Answered,
                      StoringState, ctxVars
  <2> QED BY <2>2, <2>3, <2>4 DEF Parts, StopOnly, OnlyStopSent
<1>3. ASSUME StopOnly PROVE OnlyStopSent
  BY <1>3 DEF StopOnly, OnlyStopSent
<1>4. CASE MissionLoop /\ UNCHANGED <<stairVars, chassisVars>>
  <2>1. CASE HandleCommand
    BY <1>1, <1>3, <1>4, <2>1, CommandSteps
  <2>2. CASE ReadNext \/ AckProcessed \/ CheckTimeout(Timed)
    BY <1>1, <1>4, <2>2, ProcessSteps
  <2> QED BY <1>1, <1>3, <1>4, <2>1, <2>2, LoopSteps DEF MissionLoop
<1>5. CASE HandleChassis
  BY <1>1, <1>5, HandleChassisStep
<1>6. CASE ArmFail \/ ArmOk \/ BeginStore \/ StoreDone \/ StoreFailed
             \/ StoreGivesUp
  BY <1>1, <1>6, ArmSteps
<1>7. CASE StoreSeesStop
  BY <1>1, <1>3, <1>7, CommandSteps
<1>8. CASE HandleVision
  BY <1>1, <1>8, VisionSteps
<1>9. CASE Chassis
  BY <1>1, <1>9, ChassisSteps
<1>10. CASE World
  BY <1>1, <1>10, WorldSteps
<1> QED
  BY <1>2, <1>4, <1>5, <1>6, <1>7, <1>8, <1>9, <1>10 DEF Next, Mission, Over

\* Whatever Mission, the chassis task, Nano, the arm and the user do, and in
\* whatever order, the parts of the invariant hold together.
THEOREM InductiveInvariant == Spec => []Inductive
<1>1. Inductive /\ [Next]_vars => Inductive'
  BY StepInductive
<1> QED BY InitInductive, <1>1, PTL DEF Spec

\* Every variable keeps its type; in particular the request id of 16 bits is
\* never the reserved 0, across its wrap-around.
THEOREM TypeCorrect == Spec => []TypeOK
<1>1. Inductive => TypeOK
  BY DEF Inductive
<1> QED BY InductiveInvariant, <1>1, PTL

\* The one transmit buffer of the vision link is never rewritten under a
\* running transaction, and a closed session has none outstanding.
THEOREM MailboxIsSafe == Spec => []MailboxSafe
<1>1. Inductive => MailboxSafe
  BY DEF Inductive, SafeRecord, MailboxSafe
<1> QED BY InductiveInvariant, <1>1, PTL

\* Once the run is stopping, stopped or failed, no late reply, arm report,
\* layer event or timeout makes Mission send the base anything but STOP.
THEOREM NothingReleased == Spec => NoReleaseAfterStop
<1>1. Inductive /\ [Next]_vars => [OnlyStopSent]_vars
  BY StepInductive
<1> QED BY InductiveInvariant, <1>1, PTL DEF Spec, NoReleaseAfterStop

LEMMA InitLimit == StairInit => LimitFollowed
<1> SUFFICES ASSUME StairInit PROVE LimitFollowed
  OBVIOUS
<1>1. 0 <= BallLimit
  BY BallAssumption
<1> QED BY <1>1 DEF StairInit, IdleVision, LimitFollowed, BallWanted, ArmWorks,
                    GraspGroups

\* No ball is taken that the stage must not take: however replies, arm
\* reports, stops and failures interleave, no grasp starts at the ball limit
\* and no ball is counted beyond it.
THEOREM LimitRespected == Spec => []BallLimitKept
<1>1. LimitFollowed /\ Inductive /\ [Next]_vars => LimitFollowed'
  BY StepLimit
<1>2. LimitFollowed => BallLimitKept
  BY DEF LimitFollowed, BallLimitKept
<1>3. Spec => []LimitFollowed
  BY InitLimit, InductiveInvariant, <1>1, PTL DEF Spec
<1> QED BY <1>2, <1>3, PTL

LEMMA InitMeets == StairInit => MeetInv
<1> SUFFICES ASSUME StairInit PROVE MeetInv
  OBVIOUS
<1>1. /\ state = "WAIT_STAIRS" /\ arm = 0 /\ vis = IdleVision /\ got = {}
      /\ flags = {} /\ pc = "wait" /\ evtQ = <<>> /\ leg = 0 /\ cpc = "await"
      /\ cmdQ = <<Command("GO_STAIRS", FirstId)>>
      /\ ~driving /\ ~moving /\ ~paused /\ ~camReady
  BY DEF StairInit, LinkInit, ChassisInit
<1>2. evtQ \in Seq(EventType) /\ Reports = <<>>
  BY <1>1 DEF Reports
<1>3. Orders = <<"GO_STAIRS">>
  <2>1. /\ Len(cmdQ) = 1 /\ DOMAIN cmdQ = 1..1 /\ cmdQ[1].type = "GO_STAIRS"
    BY <1>1 DEF Command
  <2> QED BY <2>1 DEF Orders
<1>4. StopPending(vis) /\ SessionFits
  BY <1>1 DEF StopPending, SessionFits, IdleVision
<1>5. BaseFits
  BY <1>1 DEF BaseFits
<1>6. Rendezvous
  BY <1>1, <1>2, <1>3 DEF Rendezvous, Gone, Climbing, RestStates, ArmWorks
<1>7. ArmFits /\ GraspFitsLayer
  BY <1>1 DEF ArmFits, OkSeen, GraspFitsLayer, GraspGroups
<1> QED BY <1>2, <1>4, <1>5, <1>6, <1>7 DEF MeetInv

\* The two tasks stay in step, whatever is lost, late or stopped.
THEOREM TasksMeet == Spec => [](Inductive /\ LimitFollowed /\ MeetInv)
<1> DEFINE I == Inductive /\ LimitFollowed /\ MeetInv
<1>1. StairInit => I
  BY InitInductive, InitLimit, InitMeets
<1>2. I /\ [Next]_vars => I'
  BY StepInductive, StepLimit, StepMeets
<1> QED BY <1>1, <1>2, PTL DEF Spec

\* The arm never reaches over the steps while the base is commanded to move:
\* neither a lost announcement nor a stop, a failure or a late report on either
\* side lets the base roll under a running action group.
THEOREM ArmParked == Spec => []ArmMovesOnlyWhenParked
<1>1. Inductive /\ LimitFollowed /\ MeetInv => ArmMovesOnlyWhenParked
  <2> SUFFICES ASSUME Inductive, MeetInv, arm # 0, driving PROVE FALSE
    BY DEF ArmMovesOnlyWhenParked
  <2>1. BaseFits /\ Rendezvous /\ ArmFits
    BY DEF MeetInv
  <2>2. ~Gone
    BY <2>1 DEF Rendezvous, Leaving
  <2>3. CASE state \in RestStates
    BY <2>1, <2>2, <2>3 DEF Rendezvous, Resting, BaseFits
  <2>4. CASE state \notin RestStates
    <3>1. Waiting \/ Parked
      BY <2>1, <2>2, <2>4 DEF Rendezvous, Climbing, ArmFits, ArmWorks
    <3> QED BY <2>1, <3>1 DEF Waiting, Parked, BaseFits
  <2> QED BY <2>3, <2>4
<1> QED BY TasksMeet, <1>1, PTL

\* While balls are wanted and the run goes on, a base that sweeps is watched by
\* a session for the layer it sweeps, or is about to pause for a ball seen.
THEOREM NeverBlind == Spec => []NoBlindSweep
<1>1. Inductive /\ LimitFollowed /\ MeetInv => NoBlindSweep
  <2> SUFFICES ASSUME Inductive, LimitFollowed, MeetInv, Sweeping,
                      balls < BallLimit, state \notin RestStates,
                      state # "STAIR_WAIT_PAUSE"
               PROVE  /\ vis.phase \in {"LISTENING", "ACKING"}
                      /\ vis.scene = StepAt(leg)
    BY DEF NoBlindSweep
  <2>1. /\ BaseFits /\ Rendezvous /\ SessionFits /\ driving /\ leg \in 0..3
        /\ cpc \in {"scan", "body"} /\ ~Gone /\ state \in StairStates
        /\ balls \in Nat
    BY DEF MeetInv, Sweeping, Gone, Inductive, TypeOK, ChassisTypeOK
  <2>2. ~paused /\ camReady /\ Seen = leg
    BY <2>1 DEF BaseFits, Seen
  <2>3. Climbing
    BY <2>1 DEF Rendezvous
  <2>4. state \in {"STAIR_SCANNING", "STAIR_WAIT_RESUME"} /\ Fits(Seen)
    BY <2>1, <2>2, <2>3 DEF Climbing, Waiting, Parked, StairStates, ArmStates,
                            ArmWorks
  <2>5. vis.phase = "LISTENING" /\ vis.scene = layer
    BY <2>1, <2>4, BallAssumption DEF SessionFits
  <2> QED BY <2>2, <2>4, <2>5 DEF Fits
<1> QED BY TasksMeet, <1>1, PTL

\* The action group is the one for the step where the ball was seen, even when
\* the base has announced the next segment since.
THEOREM GraspRight == Spec => []GraspFitsLayer
<1>1. Inductive /\ LimitFollowed /\ MeetInv => GraspFitsLayer
  BY DEF MeetInv
<1> QED BY TasksMeet, <1>1, PTL
=============================================================================

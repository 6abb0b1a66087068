----------------------------- MODULE StartProofs -----------------------------
(***************************************************************************)
(* Theorems about the start, for every value of the constants: queue       *)
(* depths, number of stops, devices that fail or not, any set of settings  *)
(* of the panel.  The invariant is StartInductive; what the handlers of    *)
(* the Mission task share is said once, in Handled.                        *)
(***************************************************************************)
EXTENDS StartRun, TLAPS

Commands == [type : {"STOP", "MISSION_READY", "GO_PLATFORM"}, id : 0..IdMax]
Events ==
    {e \in [type : {"BASE_READY", "MISSION_READY", "STOPPED"}, id : 0..IdMax,
            ok : BOOLEAN] : e.type = "BASE_READY" => e.ok}

\* What the queues hold; the base only ever reports itself ready.
QueuesTyped == cmdQ \in Seq(Commands) /\ evtQ \in Seq(Events)

\* The arm is home only when it has come to rest there, and it never moves
\* again before departure: home once lost stays lost.
HomeAtRest == armHome => arm = 0

\* A model that is ready is not asked again, so it stays ready.
ModelSettled == modelReady => query = "none"

\* The panel was armed when all was ready: what may be withdrawn since then
\* cannot come back.
ArmedOnce == armed => arm = 0 /\ modelReady /\ baseReady /\ state # "WAIT_HOME"

\* A press that began before the robot was ready finds the panel disarmed, or
\* armed for a robot that will never be ready again.
FreshPress == armed /\ keys.key /\ early => ~Ready

\* Side and run are written once, together, by the press that confirms.
OneChoice ==
    /\ side # "NONE" <=> confirmed
    /\ side = "BLUE" => runMode = "FORMAL"

\* The chassis loads a side before it shakes hands, and only after the choice.
SideLoaded ==
    /\ cpc \notin {"base", "colour"} => applied # "NONE"
    /\ applied # "NONE" => applied = side

\* The base is sent off, and drives, only after departure.
GoMeansDeparted ==
    /\ \A i \in 1..Len(cmdQ) : cmdQ[i].type = "GO_PLATFORM" => departed
    /\ driving => departed

StartInductive ==
    /\ TypeOK /\ QueuesTyped
    /\ HomeAtRest /\ ModelSettled /\ ArmedOnce /\ FreshPress
    /\ PressIsFresh /\ OneChoice /\ SideLoaded /\ GoMeansDeparted

-----------------------------------------------------------------------------
(* What the steps have in common.                                          *)

\* A handler of the Mission task, whatever it does to its context: no state of
\* the start is entered twice, a fault stays, home is only lost, and GO_PLATFORM
\* goes with departure.
Handled ==
    /\ state' \in StartStates
    /\ state' = "WAIT_HOME" => state = "WAIT_HOME"
    /\ state' = "WAIT_CHASSIS_READY" =>
          state \in {"WAIT_HOME", "WAIT_CHASSIS_READY"}
    /\ fault' \in Faults /\ (fault' = "NONE" => fault = "NONE")
    /\ requestId' \in 0..IdMax
    /\ activeArm' = 10 /\ vis' = IdleVision /\ arm' = arm
    /\ armHome' \in BOOLEAN /\ (armHome' => armHome)
    /\ cmdQ' \in Seq(Commands) /\ Len(cmdQ') <= QueueDepth
    /\ \A i \in 1..Len(cmdQ') : cmdQ'[i].type = "GO_PLATFORM" => departed'

\* What is ready besides the arm stays so, and departure is for good.
GateKept ==
    /\ {modelReady', chassisReady', baseReady', departed'} \subseteq BOOLEAN
    /\ query' \in Answers \cup {"none", "asked"}
    /\ modelReady => modelReady'
    /\ modelReady' => query' = "none"
    /\ baseReady => baseReady'
    /\ departed => departed'

EventsKept ==
    /\ evtQ' \in Seq(Events) /\ Len(evtQ') <= QueueDepth
    /\ flags' \subseteq FlagNames

LoopKept ==
    /\ userQ' \in 0..CommandDepth /\ stops' \in 0..StopBudget
    /\ got' \subseteq FlagNames /\ pc' \in LoopStages \cup {"top"}

\* A step of the Mission task that leaves the panel and the chassis alone.
LEMMA HandlerStep ==
    ASSUME StartInductive, Handled, GateKept, EventsKept, LoopKept,
           UNCHANGED <<panelVars, userVars, choiceVars, chassisVars>>
    PROVE  StartInductive'
<1> USE DEF StartInductive, panelVars, userVars, choiceVars, chassisVars
<1>1. TypeOK'
  BY DEF TypeOK, Handled, GateKept, EventsKept, LoopKept, ChassisTypeOK
<1>2. QueuesTyped' /\ HomeAtRest' /\ ModelSettled'
  BY DEF QueuesTyped, HomeAtRest, ModelSettled, Handled, GateKept, EventsKept
<1>3. ArmedOnce'
  BY DEF ArmedOnce, Handled, GateKept, TypeOK
<1>4. FreshPress'
  <2>1. ASSUME armed, Ready' PROVE Ready
    BY <2>1 DEF Ready, ArmedOnce, Handled
  <2> QED BY <2>1 DEF FreshPress
<1>5. PressIsFresh' /\ OneChoice' /\ SideLoaded'
  BY DEF PressIsFresh, OneChoice, SideLoaded
<1>6. GoMeansDeparted'
  BY DEF GoMeansDeparted, Handled, GateKept
<1> QED BY <1>1, <1>2, <1>3, <1>4, <1>5, <1>6

-----------------------------------------------------------------------------
(* The building blocks of MissionCore.                                     *)

LEMMA IdleStop ==
    mission_stop_vision(IdleVision) = {[vis |-> IdleVision, ok |-> TRUE]}
BY DEF mission_stop_vision, IdleVision

LEMMA NextId ==
    ASSUME NEW id \in 0..IdMax
    PROVE  mission_next_request_id(id) \in 0..IdMax
BY IdMaxAssumption DEF mission_next_request_id

\* A command that is sent shows at the end of the queue, which has room.
LEMMA SentTyped ==
    ASSUME StartInductive, CommandRoom, NEW id \in 0..IdMax,
           NEW type \in {"STOP", "MISSION_READY", "GO_PLATFORM"}
    PROVE  /\ Sent(type, id) \in Seq(Commands)
           /\ Len(Sent(type, id)) <= QueueDepth
           /\ \A i \in 1..Len(Sent(type, id)) :
                 Sent(type, id)[i].type = "GO_PLATFORM" =>
                    departed \/ type = "GO_PLATFORM"
<1>1. Command(type, id) \in Commands /\ Command(type, id).type = type
  BY DEF Command, Commands
<1>2. cmdQ \in Seq(Commands) /\ Len(cmdQ) < QueueDepth
  BY DEF StartInductive, QueuesTyped, CommandRoom
<1>3. ASSUME NEW i \in 1..Len(cmdQ), cmdQ[i].type = "GO_PLATFORM" PROVE departed
  BY <1>3 DEF StartInductive, GoMeansDeparted
<1>4. QueueDepth \in Nat
  BY QueueDepthAssumption
<1> QED BY <1>1, <1>2, <1>3, <1>4 DEF Sent

\* The context a handler fails with.
LEMMA NowIdle ==
    ASSUME StartInductive
    PROVE  /\ Now.vis = IdleVision /\ Now.id \in 0..IdMax /\ Now.active = 10
           /\ Now.id = requestId
           /\ \A id \in 0..IdMax : LET w == [Now EXCEPT !.id = id] IN
                 w.vis = IdleVision /\ w.id = id /\ w.active = 10
           /\ With(vis) = Now /\ With(IdleVision) = Now
           /\ requestId \in 0..IdMax /\ vis = IdleVision
BY DEF StartInductive, TypeOK, Now, With

\* No state of the start holds a block.
LEMMA NoBlock == StartInductive => state \notin BlockStates
BY DEF StartInductive, TypeOK, StartStates, RestStates, BlockStates

LEMMA FailHandled ==
    ASSUME StartInductive, NEW w, w.vis = IdleVision, w.id \in 0..IdMax,
           w.active = 10, NEW f \in Faults \ {"NONE"}, mission_fail(w, f),
           departed => departed'
    PROVE  Handled
<1>1. CASE /\ state \in {"FAULT", "STOPPED"}
           /\ vis' = w.vis /\ requestId' = w.id /\ activeArm' = w.active
           /\ UNCHANGED <<state, fault, armHome, arm, cmdQ>>
  BY <1>1 DEF Handled, StartInductive, TypeOK, QueuesTyped, GoMeansDeparted
<1>2. CASE /\ state \notin {"FAULT", "STOPPED"}
           /\ fault' = f /\ armHome' = FALSE /\ halt_block_arm(w)
           /\ \E r \in mission_stop_vision(w.vis) : vis' = r.vis
           /\ requestId' = mission_next_request_id(w.id)
           /\ cmdQ' = IF CommandRoom THEN Sent("STOP", requestId') ELSE cmdQ
           /\ state' = "FAULT"
  <2>1. requestId' \in 0..IdMax
    BY <1>2, NextId
  <2>2. vis' = IdleVision
    BY <1>2, IdleStop
  <2>3. activeArm' = 10 /\ arm' = arm
    BY <1>2, NoBlock DEF halt_block_arm
  <2>4. /\ cmdQ' \in Seq(Commands) /\ Len(cmdQ') <= QueueDepth
        /\ \A i \in 1..Len(cmdQ') : cmdQ'[i].type = "GO_PLATFORM" => departed'
    <3>1. CASE CommandRoom
      <4>1. cmdQ' = Sent("STOP", requestId')
        BY <1>2, <3>1
      <4> QED BY <2>1, <3>1, <4>1, SentTyped
    <3>2. CASE ~CommandRoom
      BY <1>2, <3>2 DEF StartInductive, TypeOK, QueuesTyped, GoMeansDeparted
    <3> QED BY <3>1, <3>2
  <2> QED BY <1>2, <2>1, <2>2, <2>3, <2>4 DEF Handled, StartStates, RestStates
<1> QED BY <1>1, <1>2 DEF mission_fail

LEMMA KeepHandled ==
    ASSUME StartInductive, UNCHANGED ctxVars, departed => departed'
    PROVE  Handled
BY DEF StartInductive, TypeOK, QueuesTyped, GoMeansDeparted, ctxVars, Handled

LEMMA KeepVis ==
    ASSUME keep(vis)
    PROVE  UNCHANGED ctxVars
BY DEF keep, enter_state, ctxVars

\* The gate opens, or a full queue is a fault, or the state is entered.
LEMMA ReadyHandled ==
    ASSUME StartInductive, NEW s, NEW id \in 0..IdMax, mission_try_ready(s, id),
           s = state \/ (state = "WAIT_HOME" /\ s = "WAIT_CHASSIS_READY"),
           departed => departed'
    PROVE  Handled
<1>1. s \in StartStates
  BY DEF StartInductive, TypeOK, StartStates
<1>2. CASE /\ gate_open(s) /\ CommandRoom
           /\ cmdQ' = Sent("MISSION_READY", id) /\ state' = "READY"
           /\ requestId' = id
           /\ UNCHANGED <<fault, activeArm, armHome, vis, arm>>
  <2>1. state' \in StartStates
    BY <1>2 DEF StartStates
  <2> QED BY <1>2, <2>1, SentTyped DEF Handled, StartInductive, TypeOK
<1>3. CASE mission_fail([Now EXCEPT !.id = id], "QUEUE")
  <2> DEFINE w == [Now EXCEPT !.id = id]
  <2>1. w.vis = IdleVision /\ w.id \in 0..IdMax /\ w.active = 10
    BY NowIdle
  <2>2. mission_fail(w, "QUEUE")
    BY <1>3
  <2> HIDE DEF w
  <2> QED BY <2>1, <2>2, FailHandled DEF Faults
<1>4. CASE /\ state' = s /\ requestId' = id
           /\ UNCHANGED <<fault, activeArm, armHome, vis, arm, cmdQ>>
  BY <1>1, <1>4 DEF Handled, StartInductive, TypeOK, QueuesTyped, GoMeansDeparted
<1> QED BY <1>2, <1>3, <1>4 DEF mission_try_ready

LEMMA CommandHandled ==
    ASSUME StartInductive, mission_handle_command, departed => departed'
    PROVE  Handled
<1> DEFINE id == mission_next_request_id(requestId)
<1>0. id \in 0..IdMax /\ vis = IdleVision
  BY NextId, NowIdle
<1>1. CASE /\ armHome' = FALSE
           /\ UNCHANGED <<state, fault, requestId, activeArm, vis, arm, cmdQ>>
  BY <1>1 DEF Handled, StartInductive, TypeOK, QueuesTyped, GoMeansDeparted
<1>2. ASSUME NEW r \in mission_stop_vision(vis), CommandRoom,
             armHome' = FALSE, halt_block_arm(Now), vis' = r.vis,
             requestId' = id, cmdQ' = Sent("STOP", id), state' = "STOPPING",
             UNCHANGED fault
      PROVE  Handled
  <2>1. vis' = IdleVision
    BY <1>0, <1>2, IdleStop
  <2>2. activeArm' = 10 /\ arm' = arm
    BY <1>2, NoBlock, NowIdle DEF halt_block_arm
  <2> HIDE DEF id
  <2>3. /\ cmdQ' \in Seq(Commands) /\ Len(cmdQ') <= QueueDepth
        /\ \A i \in 1..Len(cmdQ') : cmdQ'[i].type = "GO_PLATFORM" => departed'
    BY <1>0, <1>2, SentTyped
  <2> QED BY <1>0, <1>2, <2>1, <2>2, <2>3
          DEF Handled, StartStates, RestStates, StartInductive, TypeOK
<1>3. ASSUME NEW r \in mission_stop_vision(vis),
             mission_fail([With(r.vis) EXCEPT !.id = id], "QUEUE")
      PROVE  Handled
  <2>1. With(r.vis) = Now
    BY <1>0, IdleStop, NowIdle
  <2> DEFINE w == [Now EXCEPT !.id = id]
  <2>2. w.vis = IdleVision /\ w.id \in 0..IdMax /\ w.active = 10
    BY <1>0, NowIdle
  <2>3. mission_fail(w, "QUEUE")
    BY <1>3, <2>1
  <2> HIDE DEF w
  <2> QED BY <2>2, <2>3, FailHandled DEF Faults
<1> QED BY <1>1, <1>2, <1>3 DEF mission_handle_command

-----------------------------------------------------------------------------
(* The steps of the Mission task.                                          *)

LEMMA LoopTyped ==
    ASSUME StartInductive
    PROVE  /\ userQ \in 0..CommandDepth /\ stops \in 0..StopBudget
           /\ got \subseteq FlagNames /\ pc \in LoopStages \cup {"top"}
           /\ evtQ \in Seq(Events) /\ Len(evtQ) <= QueueDepth
           /\ flags \subseteq FlagNames
BY DEF StartInductive, TypeOK, QueuesTyped

LEMMA SwitchesTyped ==
    ASSUME StartInductive
    PROVE  /\ modelReady \in BOOLEAN /\ chassisReady \in BOOLEAN
           /\ baseReady \in BOOLEAN /\ departed \in BOOLEAN
           /\ confirmed \in BOOLEAN /\ armed \in BOOLEAN
           /\ pressed \in BOOLEAN /\ armHome \in BOOLEAN /\ early \in BOOLEAN
           /\ query \in Answers \cup {"none", "asked"}
           /\ sample \in Settings /\ keys \in Settings
           /\ side \in Sides /\ runMode \in Modes /\ applied \in Sides
BY DEF StartInductive, TypeOK, ChassisTypeOK

LEMMA GotoKeeps ==
    ASSUME StartInductive, NEW s \in LoopStages, goto(s)
    PROVE  LoopKept
BY LoopTyped DEF goto, LoopKept

LEMMA GateUnchanged ==
    ASSUME StartInductive, UNCHANGED gateVars
    PROVE  GateKept
BY DEF StartInductive, TypeOK, ModelSettled, gateVars, GateKept

LEMMA EventsUnchanged ==
    ASSUME StartInductive, UNCHANGED <<evtQ, flags>>
    PROVE  EventsKept
BY LoopTyped DEF EventsKept

\* The stages of the main loop that handle nothing.
LEMMA IdleSteps ==
    ASSUME StartInductive,
           \/ Wake /\ UNCHANGED <<bootVars, chassisVars>>
           \/ (CommandsDone \/ EventsDone \/ ArmDone)
                 /\ UNCHANGED <<bootVars, chassisVars>>
           \/ NothingAnswered \/ Tick \/ NotDue
    PROVE  StartInductive'
<1>1. /\ UNCHANGED ctxVars
      /\ UNCHANGED <<bootVars, chassisVars>>
  BY DEF Wake, CommandsDone, EventsDone, ArmDone, NothingAnswered, Tick, NotDue
<1>2. EventsKept /\ LoopKept
  BY LoopTyped DEF Wake, CommandsDone, EventsDone, ArmDone, NothingAnswered,
     Tick, NotDue, goto, EventsKept, LoopKept, LoopStages
<1>3. Handled
  BY <1>1, KeepHandled DEF bootVars, gateVars
<1>4. GateKept
  BY <1>1, GateUnchanged DEF bootVars
<1> QED BY <1>1, <1>2, <1>3, <1>4, HandlerStep DEF bootVars

\* A user STOP, and a stage that is overdue.
LEMMA CommandSteps ==
    ASSUME StartInductive,
           \/ HandleCommand /\ UNCHANGED <<bootVars, chassisVars>>
           \/ Overdue
    PROVE  StartInductive'
<1>1. UNCHANGED <<bootVars, chassisVars>>
  BY DEF Overdue
<1>2. GateKept
  BY <1>1, GateUnchanged DEF bootVars
<1>3. UNCHANGED <<evtQ, flags>> /\ LoopKept
  <2>1. CASE HandleCommand
    BY <2>1, LoopTyped, BudgetAssumption DEF HandleCommand, LoopKept
  <2>2. CASE Overdue
    BY <2>2, LoopTyped DEF Overdue, LoopKept
  <2> QED BY <2>1, <2>2
<1>4. Handled
  <2>0. departed => departed'
    BY <1>1 DEF bootVars, gateVars
  <2>1. CASE HandleCommand
    BY <2>0, <2>1, CommandHandled DEF HandleCommand
  <2>2. CASE Overdue
    BY <2>0, <2>2, NowIdle, FailHandled DEF Overdue, Faults
  <2> QED BY <2>1, <2>2
<1> QED BY <1>1, <1>2, <1>3, <1>4, EventsUnchanged, HandlerStep DEF bootVars

\* A report, an offer, a refusal or a confirmation of the base.
LEMMA ChassisEventSteps ==
    ASSUME StartInductive, HandleChassis
    PROVE  StartInductive'
<1> DEFINE e == Head(evtQ)
<1>1. /\ evtQ \in Seq(Events) /\ evtQ # <<>> /\ evtQ' = Tail(evtQ)
      /\ Len(evtQ) <= QueueDepth /\ QueueDepth \in Nat
  BY LoopTyped, QueueDepthAssumption DEF HandleChassis
<1>2. e \in Events /\ evtQ' \in Seq(Events) /\ Len(evtQ') <= QueueDepth
  BY <1>1
<1>3. e.id \in 0..IdMax /\ e.ok \in BOOLEAN /\ (e.type = "BASE_READY" => e.ok)
  BY <1>2 DEF Events
<1>4. /\ UNCHANGED <<flags, loopVars, query, modelReady, departed, panelVars,
                     userVars, choiceVars, chassisVars>>
      /\ OnBase(e) \/ OnOffer(e) \/ OnRefusal(e) \/ OnStopped(e)
            \/ OnUnexpected(e)
  BY DEF HandleChassis
<1> HIDE DEF e
<1>5. EventsKept /\ LoopKept
  BY <1>2, <1>4, LoopTyped DEF EventsKept, LoopKept, loopVars
<1>6. /\ chassisReady' \in BOOLEAN /\ baseReady' \in BOOLEAN
      /\ baseReady => baseReady'
  <2>1. CASE OnBase(e)
    <3>1. e.ok = TRUE /\ baseReady' = e.ok /\ chassisReady' = chassisReady
      BY <1>3, <2>1 DEF OnBase
    <3> QED BY <3>1, SwitchesTyped
  <2>2. CASE OnOffer(e)
    <3>1. chassisReady' = TRUE /\ baseReady' = baseReady
      BY <2>2 DEF OnOffer
    <3> QED BY <3>1, SwitchesTyped
  <2>3. CASE OnRefusal(e) \/ OnStopped(e) \/ OnUnexpected(e)
    <3>1. UNCHANGED <<chassisReady, baseReady>>
      BY <2>3 DEF OnRefusal, OnStopped, OnUnexpected
    <3> QED BY <3>1, SwitchesTyped
  <2> QED BY <1>4, <2>1, <2>2, <2>3
<1>7. GateKept
  BY <1>4, <1>6, SwitchesTyped DEF GateKept, StartInductive, ModelSettled
<1>8. Handled
  <2>0. departed => departed'
    BY <1>4
  <2>1. CASE OnBase(e)
    BY <1>3, <2>0, <2>1, KeepVis, KeepHandled DEF OnBase
  <2>2. CASE OnOffer(e)
    BY <1>3, <2>0, <2>2, ReadyHandled DEF OnOffer
  <2>3. CASE OnRefusal(e)
    BY <2>0, <2>3, NowIdle, FailHandled DEF OnRefusal, Faults
  <2>4. CASE OnStopped(e)
    BY <2>0, <2>4 DEF OnStopped, enter_state, Handled, StartInductive, TypeOK,
                      QueuesTyped, GoMeansDeparted, StartStates, RestStates
  <2>5. CASE OnUnexpected(e)
    BY <2>0, <2>5, KeepVis, KeepHandled DEF OnUnexpected
  <2> QED BY <1>4, <2>1, <2>2, <2>3, <2>4, <2>5
<1> QED BY <1>4, <1>5, <1>7, <1>8, HandlerStep

\* The arm is home, or has failed.
LEMMA ArmSteps ==
    ASSUME StartInductive, ArmFail \/ ArmOk
    PROVE  StartInductive'
<1>1. UNCHANGED <<evtQ, flags, bootVars, chassisVars>>
  BY DEF ArmFail, ArmOk
<1>2. LoopKept
  BY GotoKeeps DEF ArmFail, ArmOk, LoopStages
<1>3. GateKept /\ EventsKept
  BY <1>1, GateUnchanged, EventsUnchanged DEF bootVars
<1>4. Handled
  <2>0. departed => departed'
    BY <1>1 DEF bootVars, gateVars
  <2>1. CASE keep(vis)
    BY <2>0, <2>1, KeepVis, KeepHandled
  <2>2. ASSUME NEW f \in Faults \ {"NONE"}, mission_fail(Now, f)
        PROVE  Handled
    BY <2>0, <2>2, NowIdle, FailHandled
  <2>3. CASE /\ state = "WAIT_HOME"
             /\ mission_try_ready("WAIT_CHASSIS_READY", requestId)
    BY <2>0, <2>3, NowIdle, ReadyHandled
  <2> QED BY <2>1, <2>2, <2>3 DEF ArmFail, ArmOk, Faults
<1> QED BY <1>1, <1>2, <1>3, <1>4, HandlerStep DEF bootVars

\* The reply to a model query.
LEMMA ModelSteps ==
    ASSUME StartInductive, ModelAnswered
    PROVE  StartInductive'
<1>1. UNCHANGED <<evtQ, flags, chassisReady, baseReady, departed, panelVars,
                  userVars, choiceVars, chassisVars>>
  BY DEF ModelAnswered
<1>2. LoopKept
  BY GotoKeeps DEF ModelAnswered, LoopStages
<1>3. EventsKept
  BY <1>1, EventsUnchanged
<1>4. ~modelReady
  BY DEF StartInductive, ModelSettled, ModelAnswered, Answers
<1>5. GateKept
  <2>1. modelReady' \in BOOLEAN /\ query' = "none"
    BY SwitchesTyped DEF ModelAnswered
  <2> QED BY <1>1, <1>4, <2>1, SwitchesTyped DEF GateKept
<1>6. Handled
  <2>0. departed => departed'
    BY <1>1
  <2>1. CASE mission_try_ready(state, requestId)
    BY <2>0, <2>1, NowIdle, ReadyHandled
  <2>2. CASE mission_fail(Now, "VISION")
    BY <2>0, <2>2, NowIdle, FailHandled DEF Faults
  <2>3. CASE keep(vis)
    BY <2>0, <2>3, KeepVis, KeepHandled
  <2> QED BY <2>1, <2>2, <2>3 DEF ModelAnswered
<1> QED BY <1>1, <1>2, <1>3, <1>5, <1>6, HandlerStep

\* The second before departure is over.
LEMMA DelaySteps ==
    ASSUME StartInductive, DelayOver
    PROVE  StartInductive' /\ DepartReady
<1>1. UNCHANGED <<evtQ, flags, userQ, stops, query, modelReady, chassisReady,
                  baseReady, panelVars, userVars, choiceVars, chassisVars>>
  BY DEF DelayOver
<1>2. LoopKept /\ EventsKept
  BY <1>1, LoopTyped, EventsUnchanged DEF DelayOver, LoopKept
<1>3. CASE still_ready /\ start_run
  <2> DEFINE id == mission_next_request_id(requestId)
  <2>0. id \in 0..IdMax
    BY NextId, NowIdle
  <2>1. DepartReady
    BY <1>3 DEF DepartReady, still_ready, DelayOver, StartInductive, HomeAtRest
  <2>2. departed' \in BOOLEAN /\ (departed => departed')
    BY <1>3 DEF start_run, StartInductive, TypeOK
  <2>3. GateKept
    BY <1>1, <2>2 DEF GateKept, StartInductive, TypeOK, ModelSettled
  <2>4. Handled
    <3>1. CASE /\ CommandRoom /\ departed' = TRUE
               /\ cmdQ' = Sent("GO_PLATFORM", id) /\ requestId' = id
               /\ state' = "WAIT_PLATFORM" /\ vis' = vis
               /\ UNCHANGED <<fault, activeArm, armHome, arm>>
      <4> HIDE DEF id
      <4> QED BY <2>0, <3>1, SentTyped
              DEF Handled, StartInductive, TypeOK, StartStates
    <3>2. CASE mission_fail([With(vis) EXCEPT !.id = id], "QUEUE")
      <4> DEFINE w == [Now EXCEPT !.id = id]
      <4>1. w.vis = IdleVision /\ w.id \in 0..IdMax /\ w.active = 10
        BY <2>0, NowIdle
      <4>2. mission_fail(w, "QUEUE")
        BY <3>2, NowIdle
      <4> HIDE DEF w
      <4> QED BY <2>2, <4>1, <4>2, FailHandled DEF Faults
    <3> QED BY <1>3, <3>1, <3>2 DEF start_run, send_new_stage
  <2> QED BY <1>1, <1>2, <2>1, <2>3, <2>4, HandlerStep
<1>4. CASE mission_fail(Now, "PROTOCOL") /\ UNCHANGED departed
  <2>1. Handled
    BY <1>4, NowIdle, FailHandled DEF Faults
  <2>2. GateKept
    BY <1>1, <1>4, GateUnchanged DEF gateVars
  <2> QED BY <1>1, <1>2, <1>4, <2>1, <2>2, HandlerStep DEF DepartReady
<1> QED BY <1>3, <1>4 DEF DelayOver

\* The panel is sampled; a model query may go out with it.
LEMMA PanelSteps ==
    ASSUME StartInductive, TopOfLoop \/ Process
    PROVE  StartInductive'
<1> USE DEF StartInductive
<1>1. /\ mission_start_panel
      /\ UNCHANGED <<ctxVars, evtQ, flags, modelReady, chassisReady, baseReady,
                     departed, userVars, chassisVars>>
  BY DEF TopOfLoop, Process, gateVars
<1>2. LoopKept
  BY GotoKeeps DEF TopOfLoop, Process, LoopStages
<1>3. /\ query' \in Answers \cup {"none", "asked"}
      /\ modelReady => query' = "none"
  BY DEF TopOfLoop, Process, gateVars, TypeOK, ModelSettled
<1>4. \/ UNCHANGED <<panelVars, choiceVars>>
      \/ ~confirmed /\ Bouncing
      \/ ~confirmed /\ Settled
  BY <1>1 DEF mission_start_panel
<1>5. /\ {confirmed', armed', pressed'} \subseteq BOOLEAN
      /\ sample' \in Settings
      /\ side' \in Sides /\ runMode' \in Modes
  BY <1>1, <1>4, SettingsAssumption
     DEF panelVars, choiceVars, userVars, Bouncing, Settled, Confirm, Reject,
         StillArmed, Ready, TypeOK, ChassisTypeOK, Panels, Sides, Modes
<1>6. TypeOK'
  BY <1>1, <1>2, <1>3, <1>5
     DEF TypeOK, ctxVars, userVars, chassisVars, LoopKept, ChassisTypeOK
<1>7. QueuesTyped' /\ HomeAtRest' /\ ModelSettled'
  BY <1>1, <1>3 DEF ctxVars, QueuesTyped, HomeAtRest, ModelSettled
<1>8. armed' => (armed /\ (Ready \/ UNCHANGED panelVars)) \/ (Ready /\ ~keys.key)
  BY <1>4 DEF Bouncing, Settled, StillArmed, panelVars
<1>9. ArmedOnce' /\ FreshPress'
  BY <1>1, <1>8 DEF ArmedOnce, FreshPress, Ready, HomeAtRest, ctxVars, userVars
<1>10. PressIsFresh'
  BY <1>1, <1>4 DEF PressIsFresh, FreshPress, Bouncing, Settled, Confirm, Reject,
                    Accepts, StillArmed, panelVars, userVars
<1>11. OneChoice'
  BY <1>4, SettingsAssumption
     DEF OneChoice, Bouncing, Settled, Confirm, Reject, Accepts, panelVars,
         choiceVars, TypeOK, Panels
<1>12. SideLoaded'
  <2>1. applied # "NONE" => side' = side
    BY <1>4 DEF SideLoaded, OneChoice, Bouncing, Settled, choiceVars
  <2> QED BY <1>1, <2>1 DEF SideLoaded, chassisVars
<1>13. GoMeansDeparted'
  BY <1>1 DEF GoMeansDeparted, ctxVars, chassisVars
<1> QED BY <1>6, <1>7, <1>9, <1>10, <1>11, <1>12, <1>13
-----------------------------------------------------------------------------
(* The steps of the chassis.                                               *)

\* What an event that is posted leaves in the queue.
LEMMA PostTyped ==
    ASSUME StartInductive, NEW type \in {"BASE_READY", "MISSION_READY", "STOPPED"},
           NEW id \in 0..IdMax, NEW ok \in BOOLEAN, type = "BASE_READY" => ok,
           link_post(type, id, ok)
    PROVE  EventsKept
<1>1. Event(type, id, ok) \in Events
  BY DEF Event, Events
<1>2. CASE Len(evtQ) < QueueDepth
  BY <1>1, <1>2, LoopTyped, QueueDepthAssumption
     DEF link_post, EventsKept, FlagNames
<1>3. CASE ~(Len(evtQ) < QueueDepth)
  BY <1>3, LoopTyped DEF link_post, EventsKept
<1> QED BY <1>2, <1>3

\* The oldest command, and what is left of the queue.
LEMMA CommandTaken ==
    ASSUME StartInductive, TakeCommand
    PROVE  /\ NextCommand \in Commands
           /\ cmdQ' \in Seq(Commands) /\ Len(cmdQ') <= QueueDepth
           /\ NextCommand.type = "GO_PLATFORM" => departed
           /\ \A i \in 1..Len(cmdQ') : cmdQ'[i].type = "GO_PLATFORM" => departed
<1>1. cmdQ \in Seq(Commands) /\ cmdQ # <<>> /\ cmdQ' = Tail(cmdQ)
  BY DEF StartInductive, QueuesTyped, TakeCommand
<1>2. Len(cmdQ) <= QueueDepth /\ QueueDepth \in Nat
  BY QueueDepthAssumption DEF StartInductive, TypeOK
<1>3. \A i \in 1..Len(cmdQ) : cmdQ[i].type = "GO_PLATFORM" => departed
  BY DEF StartInductive, GoMeansDeparted
<1>4. /\ Len(cmdQ) \in Nat \ {0} /\ Len(cmdQ') = Len(cmdQ) - 1
      /\ \A i \in 1..Len(cmdQ') : cmdQ'[i] = cmdQ[i + 1]
  BY <1>1
<1>5. NextCommand = cmdQ[1] /\ NextCommand \in Commands
  BY <1>1 DEF NextCommand
<1>6. ASSUME NEW i \in 1..Len(cmdQ'), cmdQ'[i].type = "GO_PLATFORM"
      PROVE  departed
  <2>1. i + 1 \in 1..Len(cmdQ) /\ cmdQ[i + 1].type = "GO_PLATFORM"
    BY <1>4, <1>6
  <2> QED BY <1>3, <2>1
<1> QED BY <1>1, <1>2, <1>3, <1>4, <1>5, <1>6

\* What a step of the chassis leaves behind.
ChassisKept ==
    /\ cmdQ' \in Seq(Commands) /\ Len(cmdQ') <= QueueDepth
    /\ \A i \in 1..Len(cmdQ') : cmdQ'[i].type = "GO_PLATFORM" => departed
    /\ ChassisTypeOK'
    /\ driving' => departed
    /\ cpc' \notin {"base", "colour"} => applied' # "NONE"
    /\ applied' # "NONE" => applied' = side

LEMMA ChassisStep ==
    ASSUME StartInductive, ChassisKept, EventsKept,
           UNCHANGED <<ctxButCmd, loopVars, bootVars>>
    PROVE  StartInductive'
<1> USE DEF StartInductive, ctxButCmd, loopVars, bootVars, gateVars, panelVars,
            userVars, choiceVars
<1>1. TypeOK'
  BY DEF TypeOK, ChassisKept, EventsKept
<1>2. QueuesTyped' /\ HomeAtRest' /\ ModelSettled' /\ ArmedOnce' /\ FreshPress'
  BY DEF QueuesTyped, HomeAtRest, ModelSettled, ArmedOnce, FreshPress, Ready,
         ChassisKept, EventsKept
<1>3. PressIsFresh' /\ OneChoice' /\ SideLoaded' /\ GoMeansDeparted'
  BY DEF PressIsFresh, OneChoice, SideLoaded, GoMeansDeparted, ChassisKept
<1> QED BY <1>1, <1>2, <1>3

\* cmd_default: nothing drives that did not before.
LEMMA DefaultKept ==
    ASSUME StartInductive, NEW c \in Commands, cmd_default(c)
    PROVE  EventsKept /\ driving' \in BOOLEAN /\ (driving' => driving)
<1>1. c.id \in 0..IdMax /\ driving \in BOOLEAN
  BY DEF Commands, StartInductive, TypeOK, ChassisTypeOK
<1>2. CASE c.type = "STOP"
  <2>1. driving' = FALSE /\ link_post("STOPPED", c.id, TRUE)
    BY <1>2 DEF cmd_default
  <2> QED BY <1>1, <2>1, PostTyped
<1>3. CASE c.type # "STOP"
  BY <1>1, <1>3, EventsUnchanged DEF cmd_default
<1> QED BY <1>2, <1>3

LEMMA ChassisSteps ==
    ASSUME StartInductive, Chassis
    PROVE  StartInductive'
<1>1. /\ UNCHANGED <<ctxButCmd, loopVars, bootVars>>
      /\ ChassisNext \/ OfferAgain(pc = "wait")
  BY DEF Chassis
<1>2. /\ side' = side /\ runMode' = runMode
      /\ side \in Sides /\ runMode \in Modes /\ applied \in Sides
  BY <1>1, SwitchesTyped DEF bootVars, choiceVars
<1>3. /\ driving \in BOOLEAN /\ (driving => departed)
      /\ cpc \notin {"base", "colour"} => applied # "NONE"
      /\ applied # "NONE" => applied = side
      /\ ChassisTypeOK
  BY DEF StartInductive, TypeOK, ChassisTypeOK, GoMeansDeparted, SideLoaded
<1>4. UNCHANGED cmdQ =>
         /\ cmdQ' \in Seq(Commands) /\ Len(cmdQ') <= QueueDepth
         /\ \A i \in 1..Len(cmdQ') : cmdQ'[i].type = "GO_PLATFORM" => departed
  BY DEF StartInductive, TypeOK, QueuesTyped, GoMeansDeparted
<1>5. BootId \in 0..IdMax
  BY IdMaxAssumption DEF BootId
<1>6. CASE ReportBase
  <2>1. EventsKept
    <3>1. link_post("BASE_READY", BootId, TRUE)
      BY <1>6 DEF ReportBase
    <3> QED BY <1>5, <3>1, PostTyped
  <2>2. ChassisKept
    BY <1>2, <1>3, <1>4, <1>6 DEF ReportBase, ChassisKept, ChassisTypeOK
  <2> QED BY <1>1, <2>1, <2>2, ChassisStep
<1>7. CASE ApplySide
  <2>1. EventsKept
    BY <1>7, EventsUnchanged DEF ApplySide, linkVars
  <2>2. ChassisKept
    BY <1>2, <1>3, <1>4, <1>7
       DEF ApplySide, ChassisKept, ChassisTypeOK, linkVars
  <2> QED BY <1>1, <2>1, <2>2, ChassisStep
<1>8. CASE Refuse
  <2>1. EventsKept
    BY <1>5, <1>8, PostTyped DEF Refuse
  <2>2. ChassisKept
    BY <1>2, <1>3, <1>4, <1>8 DEF Refuse, ChassisKept, ChassisTypeOK
  <2> QED BY <1>1, <2>1, <2>2, ChassisStep
<1>9. CASE Offer
  <2>1. EventsKept
    BY <1>5, <1>9, PostTyped DEF Offer
  <2>2. ChassisKept
    BY <1>2, <1>3, <1>4, <1>9 DEF Offer, ChassisKept, ChassisTypeOK
  <2> QED BY <1>1, <2>1, <2>2, ChassisStep
<1>10. CASE OfferAgain(pc = "wait")
  <2>1. EventsKept
    BY <1>10, EventsUnchanged DEF OfferAgain, linkVars
  <2>2. ChassisKept
    BY <1>2, <1>3, <1>4, <1>10
       DEF OfferAgain, ChassisKept, ChassisTypeOK, linkVars
  <2> QED BY <1>1, <2>1, <2>2, ChassisStep
<1>11. CASE Parked
  <2>1. cmd_default(NextCommand) /\ TakeCommand
    BY <1>11 DEF Parked
  <2>2. EventsKept /\ driving' \in BOOLEAN /\ (driving' => driving)
    BY <2>1, CommandTaken, DefaultKept
  <2>3. ChassisKept
    BY <1>2, <1>3, <1>11, <2>1, <2>2, CommandTaken
       DEF Parked, ChassisKept, ChassisTypeOK
  <2> QED BY <1>1, <2>2, <2>3, ChassisStep
<1>12. CASE Handshake
  <2>1. EventsKept /\ driving' \in BOOLEAN /\ (driving' => driving)
    <3>1. CASE NextCommand.type = "MISSION_READY"
      BY <1>3, <1>12, <3>1, EventsUnchanged DEF Handshake
    <3>2. CASE NextCommand.type # "MISSION_READY"
      <4>1. cmd_default(NextCommand) /\ TakeCommand
        BY <1>12, <3>2 DEF Handshake
      <4> QED BY <4>1, CommandTaken, DefaultKept
    <3> QED BY <3>1, <3>2
  <2>2. /\ cpc' \in {"backup", "formal", "listen"} /\ applied' = applied
        /\ TakeCommand /\ cpc = "listen"
    BY <1>12 DEF Handshake
  <2>3. ChassisKept
    BY <1>2, <1>3, <2>1, <2>2, CommandTaken DEF ChassisKept, ChassisTypeOK
  <2> QED BY <1>1, <2>1, <2>3, ChassisStep
<1>13. CASE Depart \/ DepartBackup
  <2>1. EventsKept /\ driving' \in BOOLEAN /\ (driving' => departed)
    <3>1. CASE NextCommand.type = "GO_PLATFORM"
      <4>1. /\ TakeCommand /\ driving' = TRUE
            /\ UNCHANGED <<evtQ, flags>>
        BY <1>13, <3>1 DEF Depart, DepartBackup
      <4> QED BY <3>1, <4>1, CommandTaken, EventsUnchanged
    <3>2. CASE NextCommand.type # "GO_PLATFORM"
      <4>1. cmd_default(NextCommand) /\ TakeCommand
        BY <1>13, <3>2 DEF Depart, DepartBackup
      <4> QED BY <1>3, <4>1, CommandTaken, DefaultKept
    <3> QED BY <3>1, <3>2
  <2>2. /\ cpc' \in {"gone", "formal", "parked"} /\ applied' = applied
        /\ TakeCommand /\ cpc \in {"formal", "backup"}
    BY <1>13 DEF Depart, DepartBackup
  <2>3. ChassisKept
    BY <1>2, <1>3, <2>1, <2>2, CommandTaken DEF ChassisKept, ChassisTypeOK
  <2> QED BY <1>1, <2>1, <2>3, ChassisStep
<1> QED BY <1>1, <1>6, <1>7, <1>8, <1>9, <1>10, <1>11, <1>12, <1>13
        DEF ChassisNext
-----------------------------------------------------------------------------
(* The steps of the user and of the devices.                               *)

\* The steps outside both tasks that leave the panel and the key alone.
LEMMA WorldSteps ==
    ASSUME StartInductive,
           \/ AnswerModel \/ ArmNoise
           \/ (ArmCompleted \/ ArmFailed \/ SubmitStop)
                 /\ UNCHANGED <<bootVars, chassisVars>>
    PROVE  StartInductive'
<1>1. UNCHANGED <<modelReady, chassisReady, baseReady, departed, panelVars,
                  userVars, choiceVars, chassisVars, evtQ, pc, got, cmdQ, state,
                  fault, requestId, activeArm, vis>>
  BY DEF AnswerModel, ArmNoise, ArmCompleted, ArmFailed, SubmitStop, ctxVars,
         loopVars, bootVars, gateVars
<1>2. /\ flags' \subseteq FlagNames
      /\ userQ' \in 0..CommandDepth /\ stops' \in 0..StopBudget
  BY LoopTyped, BudgetAssumption
     DEF AnswerModel, ArmNoise, ArmCompleted, ArmFailed, SubmitStop, ctxVars,
         loopVars, FlagNames
<1>3. /\ query' \in Answers \cup {"none", "asked"}
      /\ modelReady => query' = "none"
  BY SwitchesTyped DEF AnswerModel, ArmNoise, bootVars, gateVars, Replies,
     Answers, StartInductive, ModelSettled
<1>4. /\ arm \in {0, 10} /\ armHome \in BOOLEAN /\ (armHome => arm = 0)
      /\ armed => arm = 0 /\ modelReady /\ baseReady /\ state # "WAIT_HOME"
  BY DEF StartInductive, TypeOK, HomeAtRest, ArmedOnce
<1>5. /\ arm' \in {0, arm} /\ armHome' \in BOOLEAN /\ (armHome' => arm' = 0)
      /\ arm = 0 => (armHome' => armHome)
  <2>1. CASE UNCHANGED <<arm, armHome>>
    BY <1>4, <2>1
  <2>2. CASE arm' \in {0, arm} /\ armHome' = FALSE
    BY <2>2
  <2>3. CASE arm # 0 /\ arm' = 0 /\ armHome' \in BOOLEAN
    BY <2>3
  <2>4. \/ arm' \in {0, arm} /\ armHome' = FALSE
        \/ UNCHANGED <<arm, armHome>>
        \/ (arm # 0 /\ arm' = 0 /\ armHome' \in BOOLEAN)
    <3>1. CASE AnswerModel \/ SubmitStop
      BY <3>1 DEF AnswerModel, SubmitStop, ctxVars
    <3>2. CASE ArmNoise \/ ArmFailed
      BY <3>2 DEF ArmNoise, ArmFailed
    <3>3. CASE ArmCompleted
      BY <1>4, <3>3 DEF ArmCompleted
    <3> QED BY <3>1, <3>2, <3>3
  <2> QED BY <2>1, <2>2, <2>3, <2>4
<1> USE DEF StartInductive, panelVars, userVars, choiceVars, chassisVars
<1>6. TypeOK'
  BY <1>1, <1>2, <1>3, <1>4, <1>5 DEF TypeOK, ChassisTypeOK
<1>7. QueuesTyped' /\ HomeAtRest' /\ ModelSettled' /\ ArmedOnce'
  BY <1>1, <1>3, <1>4, <1>5 DEF QueuesTyped, HomeAtRest, ModelSettled, ArmedOnce
<1>8. FreshPress'
  BY <1>1, <1>4, <1>5 DEF FreshPress, Ready
<1>9. PressIsFresh' /\ OneChoice' /\ SideLoaded' /\ GoMeansDeparted'
  BY <1>1 DEF PressIsFresh, OneChoice, SideLoaded, GoMeansDeparted
<1> QED BY <1>6, <1>7, <1>8, <1>9

\* A switch is flipped, or KEY1 goes down: early if the robot is not ready.
LEMMA KeySteps ==
    ASSUME StartInductive, UseKeys
    PROVE  StartInductive'
<1>1. /\ UNCHANGED <<ctxVars, evtQ, flags, loopVars, gateVars, panelVars,
                     choiceVars, chassisVars>>
      /\ keys' \in Settings /\ ~confirmed
      /\ early' = IF keys'.key /\ ~keys.key THEN ~Ready ELSE early
  BY DEF UseKeys
<1> USE DEF StartInductive, ctxVars, loopVars, gateVars, panelVars, choiceVars,
            chassisVars
<1>2. early' \in BOOLEAN
  BY <1>1, SwitchesTyped DEF Ready
<1>3. TypeOK'
  BY <1>1, <1>2 DEF TypeOK, ChassisTypeOK
<1>4. QueuesTyped' /\ HomeAtRest' /\ ModelSettled' /\ ArmedOnce'
  BY <1>1 DEF QueuesTyped, HomeAtRest, ModelSettled, ArmedOnce
<1>5. FreshPress'
  <2>1. Ready' <=> Ready
    BY <1>1 DEF Ready
  <2>2. CASE keys'.key /\ ~keys.key
    BY <1>1, <2>1, <2>2 DEF FreshPress
  <2>3. CASE ~(keys'.key /\ ~keys.key)
    BY <1>1, <2>1, <2>3 DEF FreshPress
  <2> QED BY <2>2, <2>3
<1>6. PressIsFresh' /\ OneChoice' /\ SideLoaded' /\ GoMeansDeparted'
  BY <1>1 DEF PressIsFresh, OneChoice, SideLoaded, GoMeansDeparted
<1> QED BY <1>3, <1>4, <1>5, <1>6

-----------------------------------------------------------------------------
(* The invariant.                                                          *)

LEMMA InitInductive == StartInit => StartInductive
<1> SUFFICES ASSUME StartInit PROVE StartInductive
  OBVIOUS
<1> USE DEF StartInit, LinkInit, ChassisInit
<1>1. TypeOK
  <2>1. Released \in Settings
    BY SettingsAssumption
  <2>2. 0 \in 0..IdMax /\ 0 \in 0..CommandDepth /\ 0 \in 0..StopBudget
    BY IdMaxAssumption, BudgetAssumption
  <2>3. Len(cmdQ) <= QueueDepth /\ Len(evtQ) <= QueueDepth
    BY QueueDepthAssumption
  <2> QED BY <2>1, <2>2, <2>3 DEF TypeOK, ChassisTypeOK, Sides, Modes,
            StartStates, Faults, LoopStages
<1>2. QueuesTyped /\ HomeAtRest /\ ModelSettled /\ ArmedOnce /\ FreshPress
  BY DEF QueuesTyped, HomeAtRest, ModelSettled, ArmedOnce, FreshPress
<1>3. PressIsFresh /\ OneChoice /\ SideLoaded /\ GoMeansDeparted
  BY DEF PressIsFresh, OneChoice, SideLoaded, GoMeansDeparted
<1> QED BY <1>1, <1>2, <1>3 DEF StartInductive

LEMMA StutterStep ==
    ASSUME StartInductive, UNCHANGED vars
    PROVE  StartInductive' /\ UNCHANGED departed
BY DEF vars, ctxVars, loopVars, bootVars, gateVars, panelVars, userVars,
       choiceVars, chassisVars, StartInductive, TypeOK, ChassisTypeOK,
       QueuesTyped, HomeAtRest, ModelSettled, ArmedOnce, FreshPress, Ready,
       PressIsFresh, OneChoice, SideLoaded, GoMeansDeparted

\* Every step keeps the invariant, and only the end of the second departs.
LEMMA StepInductive ==
    ASSUME StartInductive, [Next]_vars
    PROVE  StartInductive' /\ DepartReady
<1>1. CASE \/ Wake /\ UNCHANGED <<bootVars, chassisVars>>
           \/ (CommandsDone \/ EventsDone \/ ArmDone)
                 /\ UNCHANGED <<bootVars, chassisVars>>
           \/ NothingAnswered \/ Tick \/ NotDue
  <2>1. UNCHANGED departed
    BY <1>1 DEF NothingAnswered, Tick, NotDue, bootVars, gateVars
  <2> QED BY <1>1, <2>1, IdleSteps DEF DepartReady
<1>2. CASE \/ HandleCommand /\ UNCHANGED <<bootVars, chassisVars>>
           \/ Overdue
  <2>1. UNCHANGED departed
    BY <1>2 DEF Overdue, bootVars, gateVars
  <2> QED BY <1>2, <2>1, CommandSteps DEF DepartReady
<1>3. CASE HandleChassis
  <2>1. UNCHANGED departed
    BY <1>3 DEF HandleChassis
  <2> QED BY <1>3, <2>1, ChassisEventSteps DEF DepartReady
<1>4. CASE ArmFail \/ ArmOk
  <2>1. UNCHANGED departed
    BY <1>4 DEF ArmFail, ArmOk, bootVars, gateVars
  <2> QED BY <1>4, <2>1, ArmSteps DEF DepartReady
<1>5. CASE ModelAnswered
  <2>1. UNCHANGED departed
    BY <1>5 DEF ModelAnswered
  <2> QED BY <1>5, <2>1, ModelSteps DEF DepartReady
<1>6. CASE TopOfLoop \/ Process
  <2>1. UNCHANGED departed
    BY <1>6 DEF TopOfLoop, Process, gateVars
  <2> QED BY <1>6, <2>1, PanelSteps DEF DepartReady
<1>7. CASE DelayOver
  BY <1>7, DelaySteps
<1>8. CASE Chassis
  <2>1. UNCHANGED departed
    BY <1>8 DEF Chassis, bootVars, gateVars
  <2> QED BY <1>8, <2>1, ChassisSteps DEF DepartReady
<1>9. CASE \/ AnswerModel \/ ArmNoise
           \/ (ArmCompleted \/ ArmFailed \/ SubmitStop)
                 /\ UNCHANGED <<bootVars, chassisVars>>
  <2>1. UNCHANGED departed
    BY <1>9 DEF AnswerModel, ArmNoise, bootVars, gateVars
  <2> QED BY <1>9, <2>1, WorldSteps DEF DepartReady
<1>10. CASE UseKeys
  <2>1. UNCHANGED departed
    BY <1>10 DEF UseKeys, gateVars
  <2> QED BY <1>10, <2>1, KeySteps DEF DepartReady
<1>11. CASE UNCHANGED vars
  BY <1>11, StutterStep DEF DepartReady
<1> QED BY <1>1, <1>2, <1>3, <1>4, <1>5, <1>6, <1>7, <1>8, <1>9, <1>10, <1>11
        DEF Next, Mission, MissionLoop, Devices, Disturbances, Over

\* The invariant of the start: queues, panel, gate and chassis agree.
THEOREM StartInvariant == Spec => []StartInductive
<1>1. StartInductive /\ [Next]_vars => StartInductive'
  BY StepInductive
<1> QED BY InitInductive, <1>1, PTL DEF Spec

\* The context, the queues, the panel and the chassis keep their types: in
\* particular neither queue ever holds more than it has room for.
THEOREM TypeCorrect == Spec => []TypeOK
<1>1. StartInductive => TypeOK
  BY DEF StartInductive
<1> QED BY StartInvariant, <1>1, PTL

\* KEY1 held down, or pressed, before the robot is ready never starts it: the
\* press mission_start_panel confirms began when everything was ready.
THEOREM FreshPressStarts == Spec => []PressIsFresh
<1>1. StartInductive => PressIsFresh
  BY DEF StartInductive
<1> QED BY StartInvariant, <1>1, PTL

\* The base loads and drives the run the user confirmed, on the side that was
\* chosen; blue never gets the backup run, nothing drives before departure.
THEOREM ChoiceIsDriven == Spec => []ChoiceHolds
<1>1. StartInductive => ChoiceHolds
  BY DEF StartInductive, TypeOK, ChassisTypeOK, OneChoice, SideLoaded,
         GoMeansDeparted, ChoiceHolds, Sides
<1> QED BY StartInvariant, <1>1, PTL

\* GO_PLATFORM is sent only by mission_start_run, with the arm at rest at home
\* and everything else ready, however long ago the handshake was.
THEOREM DepartsReady == Spec => DepartsOnlyReady
<1>1. StartInductive /\ [Next]_vars => [DepartReady]_vars
  BY StepInductive
<1> QED BY StartInvariant, <1>1, PTL DEF Spec, DepartsOnlyReady
=============================================================================

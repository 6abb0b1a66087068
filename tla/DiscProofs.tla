----------------------------- MODULE DiscProofs -----------------------------
(***************************************************************************)
(* Theorems about the small disc, for every value of the constants: queue  *)
(* depths, ids, balls wanted, length of the circle and of a halt, STOPs,   *)
(* failures or none.  The invariant is DiscInv of DiscRunInv; one lemma    *)
(* per handler of the Mission task, per step of the world around it and    *)
(* per situation the base can be in.                                       *)
(***************************************************************************)
EXTENDS DiscRunInv, MissionProofs

-----------------------------------------------------------------------------
(* The invariant, regrouped by who changes what.                           *)

Mail ==
    /\ CtxTyped(DiscStates) /\ LoopTyped
    /\ SafeRecord(vis) /\ StopNoted(vis) /\ DoneMeansAnswered
EventsTyped == evtQ \in Seq([type : EventTypes, id : Nat, ok : BOOLEAN])
Own == Mail /\ StoreInHandler /\ balls \in Nat

\* ControlInv, taken apart and put together again.
LEMMA Regroup ==
    /\ ControlInv => Own /\ EventsTyped /\ ChassisTypeOK
    /\ (Own /\ EventsTyped /\ ChassisTypeOK)' => ControlInv'
BY DEF ControlInv, Own, Mail, TypeOK, CoreTypeOK, CtxTyped, LoopTyped, SafeRecord,
       EventsTyped, DiscStates, RestStates

\* What a handler of the Mission task has to re-establish besides its types.
Meets == MeetFits /\ SessionFits /\ ArmFits

\* A handler leaves base and flags alone, and signals nothing.
Steady == UNCHANGED <<flags, chassisVars>> /\ (OkSeen' => OkSeen)

\* A handler takes at most one event.
EventsKept == evtQ' = evtQ \/ (evtQ # <<>> /\ evtQ' = Tail(evtQ))

\* What is left of the events when the oldest is taken.
LEMMA TailOfEvents ==
    ASSUME EventsTyped, evtQ # <<>>, evtQ' = Tail(evtQ)
    PROVE  /\ EventsTyped'
           /\ Len(evtQ) = 1 => evtQ' = <<>>
           /\ Len(evtQ) = 2 => Len(evtQ') = 1 /\ (evtQ')[1] = evtQ[2]
           /\ Head(evtQ) = evtQ[1] /\ Len(evtQ) # 0
<1> DEFINE E == [type : EventTypes, id : Nat, ok : BOOLEAN]
<1>1. evtQ \in Seq(E)
  BY DEF EventsTyped
<1> HIDE DEF E
<1>2. /\ evtQ' \in Seq(E) /\ Len(evtQ') = Len(evtQ) - 1 /\ Len(evtQ) # 0
      /\ \A i \in 1..Len(evtQ') : (evtQ')[i] = evtQ[i + 1]
      /\ Head(evtQ) = evtQ[1]
  BY <1>1
<1>3. Len(evtQ) = 1 => evtQ' = <<>>
  BY <1>2
<1>4. Len(evtQ) = 2 => Len(evtQ') = 1 /\ (evtQ')[1] = evtQ[2]
  BY <1>2
<1>5. EventsTyped'
  BY <1>2 DEF EventsTyped, E
<1> QED BY <1>2, <1>3, <1>4, <1>5

\* Events handled leave events.
LEMMA EventsStayTyped ==
    ASSUME EventsTyped, EventsKept
    PROVE  EventsTyped'
BY TailOfEvents DEF EventsKept, EventsTyped

\* An event more or less handled: the two sides still fit.
LEMMA TailKeeps ==
    ASSUME EventsTyped, evtQ # <<>>, evtQ' = Tail(evtQ), UNCHANGED <<cmdQ, chassisVars>>,
           NEW s, Rendezvous(s)
    PROVE  Rendezvous(s)'
<1>1. /\ Len(evtQ) = 1 => evtQ' = <<>>
      /\ Len(evtQ) = 2 => Len(evtQ') = 1 /\ (evtQ')[1] = evtQ[2]
      /\ Len(evtQ) # 0 /\ (evtQ # <<>>)
  BY TailOfEvents
<1>2. UNCHANGED <<cpc, paused, cmdQ>>
  BY DEF chassisVars, discVars
<1> USE DEF Quiet, Asked, Silent, Told, Going, Gone, Finishing, Held
<1>3. Arriving => Arriving'
  BY <1>1, <1>2 DEF Arriving
<1>4. AtStart => AtStart'
  BY <1>1, <1>2 DEF AtStart
<1>5. Circling => Circling'
  BY <1>1, <1>2 DEF Circling
<1>6. Pausing => Pausing'
  BY <1>1, <1>2 DEF Pausing, StartAndStop
<1>7. Holding => Holding'
  BY <1>1, <1>2 DEF Holding
<1>8. Resuming => Resuming'
  BY <1>1, <1>2 DEF Resuming
<1>9. Finished => Finished'
  BY <1>1, <1>2 DEF Finished
<1>10. Leaving => Leaving'
  BY <1>1, <1>2 DEF Leaving
<1> HIDE DEF Quiet, Asked, Silent, Told, Going, Gone, Finishing, Held
<1> QED BY <1>3, <1>4, <1>5, <1>6, <1>7, <1>8, <1>9, <1>10 DEF Rendezvous

\* STOP at the end of a queue of STOPs is one more of them.
LEMMA OnlyStops ==
    ASSUME QueueTyped, \A i \in DOMAIN cmdQ : cmdQ[i].type = "STOP",
           cmdQ' = cmdQ \/ \E id \in 1..IdMax : cmdQ' = Sent("STOP", id)
    PROVE  \A i \in DOMAIN (cmdQ') : (cmdQ')[i].type = "STOP"
<1>1. CASE cmdQ' = cmdQ
  BY <1>1
<1>2. ASSUME NEW id \in 1..IdMax, cmdQ' = Sent("STOP", id)
      PROVE  \A i \in DOMAIN (cmdQ') : (cmdQ')[i].type = "STOP"
  <2>1. cmdQ \in Seq(Commands) /\ Command("STOP", id) \in Commands
    BY DEF QueueTyped, Command, Commands, CommandTypes
  <2>2. /\ DOMAIN (cmdQ') = 1..Len(cmdQ) + 1 /\ DOMAIN cmdQ = 1..Len(cmdQ)
        /\ (cmdQ')[Len(cmdQ) + 1] = Command("STOP", id)
        /\ \A j \in 1..Len(cmdQ) : (cmdQ')[j] = cmdQ[j]
        /\ Len(cmdQ) \in Nat
    BY <1>2, <2>1 DEF Sent
  <2>3. Command("STOP", id).type = "STOP"
    BY DEF Command
  <2> QED BY <2>2, <2>3
<1> QED BY <1>1, <1>2

\* Where the arm may move the base is parked and nothing is asked of it.
LEMMA ArmMeansParked ==
    ASSUME DiscInv, arm # 0
    PROVE  Parked /\ \A i \in DOMAIN cmdQ : cmdQ[i].type = "STOP"
<1>1. CASE state \in RestStates
  BY <1>1 DEF DiscInv, MeetFits
<1>2. CASE state \notin RestStates
  <2>1. state \in ArmStates /\ Rendezvous(state)
    BY <1>2 DEF DiscInv, MeetFits, ArmFits
  <2>2. AtStart \/ Holding \/ Finished
    BY <2>1 DEF ArmStates, Rendezvous
  <2>3. Parked /\ cmdQ = <<>>
    BY <2>2 DEF AtStart, Holding, Finished, Parked, Quiet, Held, Gone
  <2> QED BY <2>3
<1> QED BY <1>1, <1>2

-----------------------------------------------------------------------------
(* The ways a handler ends.                                                *)

\* The run comes to rest, or goes on resting.
LEMMA RestMeets ==
    ASSUME DiscInv, Rested, Steady
    PROVE  Meets'
<1>1. /\ state' \in RestStates /\ arm' \in {0, arm}
      /\ cmdQ' = cmdQ \/ \E id \in 1..IdMax : cmdQ' = Sent("STOP", id)
  BY DEF Rested
<1>2. arm' # 0 => Parked' /\ \A i \in DOMAIN (cmdQ') : (cmdQ')[i].type = "STOP"
  <2>1. Parked => Parked'
    BY DEF Parked, Steady, chassisVars, discVars
  <2>2. QueueTyped
    BY DEF DiscInv, ControlInv
  <2> QED BY <1>1, <2>1, <2>2, ArmMeansParked, OnlyStops
<1>3. MeetFits'
  BY <1>1, <1>2 DEF MeetFits
<1>4. SessionFits'
  BY <1>1 DEF SessionFits
<1>5. ArmFits'
  BY <1>1 DEF DiscInv, ArmFits, Steady, OkSignalled
<1> QED BY <1>3, <1>4, <1>5 DEF Meets

\* A failure brings the run to rest, which always fits.
LEMMA FailMeets ==
    ASSUME DiscInv, NEW w, w.id \in 1..IdMax, NEW f, mission_fail(w, f), Steady
    PROVE  Meets'
BY FailRests, RestMeets

\* The ids a handler fails with.
LEMMA FailIds ==
    ASSUME Mail
    PROVE  /\ Now.id \in 1..IdMax
           /\ \A v : With(v).id \in 1..IdMax
           /\ \A v : [With(v) EXCEPT !.active = 0].id \in 1..IdMax
           /\ \A v, id \in 1..IdMax : [With(v) EXCEPT !.id = id].id \in 1..IdMax
BY DEF Mail, CtxTyped, Now, With

\* The state stays, and so does what the other tasks see.
LEMMA KeepMeets ==
    ASSUME DiscInv, NEW v, keep(v), Steady, EventsKept, SessionFits'
    PROVE  Meets'
<1>1. UNCHANGED <<state, arm, cmdQ>>
  BY DEF keep, enter_state
<1>2. UNCHANGED <<cpc, paused>>
  BY DEF Steady, chassisVars, discVars
<1>3. MeetFits'
  <2>1. CASE evtQ' = evtQ
    <3>1. Rendezvous(state)' <=> Rendezvous(state)
      BY <1>1, <1>2, <2>1
      DEF Rendezvous, Arriving, AtStart, Circling, Pausing, StartAndStop, Holding,
          Resuming, Finished, Leaving, Quiet, Asked, Silent, Told, Going, Gone,
          Finishing, Held
    <3> QED BY <1>1, <1>2, <3>1 DEF DiscInv, MeetFits, Parked
  <2>2. CASE evtQ # <<>> /\ evtQ' = Tail(evtQ)
    <3>0. EventsTyped /\ UNCHANGED chassisVars
      BY Regroup DEF DiscInv, Steady
    <3>1. ASSUME NEW s, s = state, Rendezvous(s) PROVE Rendezvous(state)'
      <4>1. Rendezvous(s)'
        BY <1>1, <2>2, <3>0, <3>1, TailKeeps
      <4> QED BY <1>1, <3>1, <4>1
    <3>2. Rendezvous(state) => Rendezvous(state)'
      BY <3>1
    <3> QED BY <1>1, <1>2, <3>2 DEF DiscInv, MeetFits, Parked
  <2> QED BY <2>1, <2>2 DEF EventsKept
<1>4. ArmFits'
  BY <1>1 DEF DiscInv, ArmFits, Steady, OkSignalled
<1> QED BY <1>3, <1>4 DEF Meets

\* The session stays, or what is left of its record fits as well.
LEMMA StayMeets ==
    ASSUME DiscInv, NEW v, keep(v), Steady, EventsKept, balls' = balls,
           v.phase = vis.phase /\ v.scene = vis.scene /\ v.stopReq = vis.stopReq
    PROVE  Meets'
<1>1. SessionFits'
  BY DEF DiscInv, SessionFits, keep, enter_state
<1> QED BY <1>1, KeepMeets

\* The run goes on to another state: nothing is signalled, and an arm that
\* moves is one the state waits for.
LEMMA GoMeets ==
    ASSUME state' \notin RestStates, Rendezvous(state)', SessionFits', ~OkSignalled',
           arm' # 0 => state' \in ArmStates
    PROVE  Meets'
BY DEF Meets, MeetFits, ArmFits, OkSignalled

\* A handler of the Mission task is done.
LEMMA HandlerDone ==
    ASSUME DiscInv, NEW v, Handled(DiscStates, v), Meets', StoreInHandler',
           UNCHANGED <<flags, stops, chassisVars>>, EventsKept, balls' \in Nat,
           userQ' \in 0..CommandDepth, got' \subseteq got, pc' \in LoopStages,
           \/ /\ Answered(vis) => Answered(v)
              /\ \/ pc' \in {"process", "timeout", "wait"}
                 \/ pc \in {"commands", "events", "arm", "storing", "storeStopped"}
           \/ DoneSeen /\ pc' = "process"
    PROVE  DiscInv'
<1>1. Own /\ EventsTyped /\ ChassisTypeOK
  BY Regroup DEF DiscInv
<1>2. DoneMeansAnswered'
  <2>1. Answered(v) => Answered(vis')
    BY DEF Handled
  <2> QED BY <1>1, <2>1, DoneKept DEF Own, Mail
<1>3. LoopTyped'
  BY <1>1 DEF Own, Mail, LoopTyped
<1>4. Own'
  BY <1>2, <1>3 DEF Own, Mail, Handled
<1>5. EventsTyped'
  BY <1>1, EventsStayTyped
<1>6. ChassisTypeOK' /\ BaseFits'
  BY <1>1 DEF ChassisTypeOK, BaseFits, DiscInv, chassisVars, discVars
<1> QED BY <1>4, <1>5, <1>6, Regroup DEF DiscInv, Meets

-----------------------------------------------------------------------------
(* The building blocks, in a run that goes on: they reach the next state   *)
(* or end the run.                                                         *)

\* The arm starts on a group, in a state that waits for it.
LEMMA ArmGoesOn ==
    ASSUME DiscInv, Steady, state \notin RestStates,
           NEW v, NEW g, NEW s, start_arm(v, g, s), s \in ArmStates,
           v.phase = "IDLE", ~v.stopReq, balls' = balls, ~OkSignalled',
           s = "SMALL_DISC_WAIT_POSE" => balls < BallLimit,
           state' = s /\ cmdQ' = cmdQ => Rendezvous(s)'
    PROVE  Meets'
<1>1. CASE /\ state' = s /\ vis' = v /\ activeArm' = g /\ arm' = g
           /\ armHome' = FALSE /\ UNCHANGED <<fault, requestId, cmdQ>>
  <2>1. s \notin RestStates /\ PhasesOf(s, balls') = {"IDLE"}
    BY DEF ArmStates, RestStates, PhasesOf
  <2>2. SessionFits'
    BY <1>1, <2>1 DEF SessionFits, ArmStates
  <2>3. Rendezvous(state)'
    BY <1>1
  <2> QED BY <1>1, <2>1, <2>2, <2>3, GoMeets
<1>2. CASE mission_fail([With(v) EXCEPT !.active = 0], "ARM")
  <2>1. [With(v) EXCEPT !.active = 0].id \in 1..IdMax
    BY FailIds, Regroup DEF DiscInv, Own
  <2> QED BY <1>2, <2>1, FailMeets
<1> QED BY <1>1, <1>2 DEF start_arm

\* A session opens on the disc, in one of the two states that wait for it.
LEMMA WatchGoesOn ==
    ASSUME DiscInv, Steady, state \notin RestStates, arm' = 0 \/ arm = 0,
           NEW s, watch(s),
           s \in {"SMALL_DISC_WAIT_VISION_START", "SMALL_DISC_WAIT_VISION_RESUME"},
           vis.phase = "IDLE", ~vis.stopReq, ~OkSignalled', balls' < BallLimit,
           state' = s /\ cmdQ' = cmdQ => Rendezvous(s)'
    PROVE  Meets'
<1>0. Mail /\ SafeRecord(vis) /\ ~Busy(vis)
  <2>1. Mail /\ SafeRecord(vis)
    BY Regroup DEF DiscInv, Own, Mail
  <2> QED BY <2>1 DEF SafeRecord
<1>1. PICK ok, w, x :
        /\ ok \in submit_results(vis)
        /\ w = [vis EXCEPT !.phase = "STARTING", !.scene = "SMALL_DISC"]
        /\ x = mission_submit_vision_transfer(w, "START", ok)
        /\ IF ok THEN enter_state(x, s)
                 ELSE mission_fail(With(mission_reset_vision(x)), "VISION")
  BY Zenon DEF watch, start_vision
<1>2. /\ w \in VisionType /\ ~Busy(w) /\ w.phase = "STARTING"
      /\ w.scene = "SMALL_DISC" /\ w.stopReq = vis.stopReq
  BY <1>0, <1>1 DEF SafeRecord, VisionType, Phases, Scenes, Busy
<1>3. ok \in submit_results(w) /\ ok \in BOOLEAN
  BY <1>0, <1>1, <1>2 DEF submit_results
<1>4. CASE ok
  <2>1. x.phase = "STARTING" /\ x.scene = "SMALL_DISC" /\ ~x.stopReq
    BY <1>1, <1>2, <1>3, SubmitSafe
  <2>2. state' = s /\ vis' = x /\ cmdQ' = cmdQ /\ arm' = arm
    BY <1>1, <1>4 DEF enter_state
  <2>3. s \notin RestStates /\ PhasesOf(s, balls') = {"STARTING"}
    BY DEF RestStates, PhasesOf
  <2>4. SessionFits'
    BY <2>1, <2>2, <2>3 DEF SessionFits
  <2>5. Rendezvous(state)'
    BY <2>2
  <2> QED BY <2>2, <2>3, <2>4, <2>5, GoMeets
<1>5. CASE ~ok
  <2>1. mission_fail(With(mission_reset_vision(x)), "VISION")
    BY <1>1, <1>5
  <2>2. With(mission_reset_vision(x)).id \in 1..IdMax
    BY <1>0, FailIds
  <2> QED BY <2>1, <2>2, FailMeets
<1> QED BY <1>3, <1>4, <1>5

\* A command goes out to a base that waits for it or has left.
LEMMA SendGoesOn ==
    ASSUME DiscInv, Steady, state \notin RestStates, arm = 0, ~OkSignalled',
           NEW v, NEW type, NEW s, send_chassis(v, type, s), s \notin RestStates,
           state' = s /\ cmdQ' = Sent(type, requestId) => Rendezvous(s)',
           state' = s /\ vis' = v => SessionFits'
    PROVE  Meets'
<1>1. CASE /\ CommandRoom /\ cmdQ' = Sent(type, requestId)
           /\ state' = s /\ vis' = v
           /\ UNCHANGED <<fault, requestId, activeArm, armHome, arm>>
  <2>1. Rendezvous(state)'
    BY <1>1
  <2> QED BY <1>1, <2>1, GoMeets
<1>2. CASE mission_fail(With(v), "QUEUE")
  <2>1. With(v).id \in 1..IdMax
    BY FailIds, Regroup DEF DiscInv, Own
  <2> QED BY <1>2, <2>1, FailMeets
<1> QED BY <1>1, <1>2 DEF send_chassis

\* The id of the new stage does not matter to the other side.
LEMMA StageGoesOn ==
    ASSUME DiscInv, Steady, state \notin RestStates, arm = 0, ~OkSignalled',
           NEW type, NEW s, send_new_stage(vis, type, s), s \notin RestStates,
           \A id \in 1..IdMax :
             state' = s /\ cmdQ' = Sent(type, id) => Rendezvous(s)',
           state' = s /\ vis' = vis => SessionFits'
    PROVE  Meets'
<1> DEFINE id == mission_next_request_id(requestId)
<1>0. Mail /\ id \in 1..IdMax
  BY NextIdTyped, Regroup DEF DiscInv, Own, Mail, CtxTyped
<1>1. CASE /\ CommandRoom /\ cmdQ' = Sent(type, id) /\ requestId' = id
           /\ state' = s /\ vis' = vis
           /\ UNCHANGED <<fault, activeArm, armHome, arm>>
  <2> HIDE DEF id
  <2>1. Rendezvous(state)'
    BY <1>0, <1>1
  <2> QED BY <1>1, <2>1, GoMeets
<1>2. CASE mission_fail([With(vis) EXCEPT !.id = id], "QUEUE")
  <2> HIDE DEF id
  <2>1. [With(vis) EXCEPT !.id = id].id \in 1..IdMax
    BY <1>0, FailIds
  <2> QED BY <1>2, <2>1, FailMeets
<1> QED BY <1>1, <1>2 DEF send_new_stage

\* One more command in the queue.
LEMMA OneMore ==
    ASSUME QueueTyped, NEW type \in CommandTypes, NEW id \in 1..IdMax,
           cmdQ' = Sent(type, id)
    PROVE  /\ cmdQ = <<>> => Asked(type)'
           /\ Len(cmdQ) = 1 => /\ Len(cmdQ') = 2 /\ (cmdQ')[1] = cmdQ[1]
                               /\ (cmdQ')[2].type = type
<1> DEFINE c == Command(type, id)
<1>1. c.type = type /\ c \in Commands
  BY DEF Command, Commands
<1>2. cmdQ' = Append(cmdQ, c)
  BY DEF Sent
<1> HIDE DEF c
<1>3. /\ Len(cmdQ') = Len(cmdQ) + 1
      /\ (cmdQ')[Len(cmdQ) + 1] = c
      /\ \A i \in 1..Len(cmdQ) : (cmdQ')[i] = cmdQ[i]
  BY <1>1, <1>2 DEF QueueTyped
<1>4. cmdQ = <<>> => Len(cmdQ') = 1 /\ (cmdQ')[1] = c
  BY <1>3
<1>5. Len(cmdQ) = 1 => /\ Len(cmdQ') = 2 /\ (cmdQ')[1] = cmdQ[1]
                       /\ (cmdQ')[2] = c
  BY <1>3
<1> QED BY <1>1, <1>4, <1>5 DEF Asked

\* With the buffer free an open session is told to stop at once.
LEMMA StopShuts ==
    ASSUME NEW v, SafeRecord(v), ~Busy(v), v.phase # "IDLE",
           NEW r \in mission_stop_vision(v)
    PROVE  r.vis.phase = "STOPPING" /\ r.vis.scene = v.scene /\ ~r.vis.stopReq
<1>1. PICK w : /\ w = [v EXCEPT !.stopReq = FALSE, !.phase = "STOPPING"]
               /\ \E ok \in submit_results(v) :
                    r.vis = mission_submit_vision_transfer(w, "STOP", ok)
  BY DEF mission_stop_vision, SafeRecord
<1>2. /\ w \in VisionType /\ ~Busy(w) /\ w.phase = "STOPPING"
      /\ w.scene = v.scene /\ w.scene # "NONE" /\ ~w.stopReq
  BY <1>1 DEF SafeRecord, VisionType, Phases, Busy
<1>3. submit_results(w) = submit_results(v)
  BY <1>2 DEF submit_results
<1>4. PICK ok \in submit_results(w) :
          r.vis = mission_submit_vision_transfer(w, "STOP", ok)
  BY <1>1, <1>3
<1> QED BY <1>2, <1>4, SubmitSafe

-----------------------------------------------------------------------------
(* The answers of the base.                                                *)

\* In a state that waits for no arm none is moving and none is signalled.
LEMMA ArmIdle ==
    ASSUME DiscInv, state \notin RestStates \cup ArmStates
    PROVE  arm = 0 /\ ~OkSignalled
BY DEF DiscInv, ArmFits

\* At rest or not, a step that signals nothing new.
LEMMA NoSignal ==
    ASSUME Steady, ~OkSignalled
    PROVE  ~OkSignalled'
BY DEF Steady, OkSignalled

\* The base has arrived: the arm takes the watching pose.
LEMMA ArrivedMeets ==
    ASSUME DiscInv, Steady, evtQ # <<>>, evtQ' = Tail(evtQ), balls' = balls,
           NEW e, e = Head(evtQ), e.ok, OnArrived(e)
    PROVE  Meets'
<1>1. /\ state = "WAIT_SMALL_DISC" /\ e.type = "SMALL_DISC_READY"
      /\ start_arm(vis, 19, "SMALL_DISC_WAIT_POSE")
  BY DEF OnArrived
<1>2. /\ Len(evtQ) = 1 => evtQ' = <<>>
      /\ e = evtQ[1] /\ evtQ # <<>>
  BY TailOfEvents, Regroup DEF DiscInv
<1>3. Arriving /\ vis.phase = "IDLE" /\ ~vis.stopReq /\ arm = 0 /\ balls < BallLimit
  BY <1>1, ArmIdle
  DEF DiscInv, MeetFits, SessionFits, PhasesOf, Rendezvous, RestStates, ArmStates
<1>4. Quiet /\ cpc = "start" /\ evtQ' = <<>>
  BY <1>2, <1>3 DEF Arriving, Silent, Told
<1>5. cmdQ' = cmdQ => AtStart'
  BY <1>4 DEF AtStart, Quiet, Silent, Steady, chassisVars
<1>6. ~OkSignalled'
  BY <1>1, ArmIdle, NoSignal DEF RestStates, ArmStates
<1>7. cmdQ' = cmdQ => Rendezvous("SMALL_DISC_WAIT_POSE")'
  BY <1>5 DEF Rendezvous
<1>8. "SMALL_DISC_WAIT_POSE" \in ArmStates /\ state \notin RestStates
  BY <1>1 DEF ArmStates, RestStates
<1> QED BY <1>1, <1>3, <1>6, <1>7, <1>8, ArmGoesOn

\* The base stands: the grasp starts, unless the confirmation is still going out.
LEMMA PausedMeets ==
    ASSUME DiscInv, Steady, evtQ # <<>>, evtQ' = Tail(evtQ), balls' = balls,
           NEW e, e = Head(evtQ), OnPaused(e)
    PROVE  Meets'
<1>1. state = "SMALL_DISC_WAIT_PAUSE" /\ e.type = "SMALL_DISC_PAUSED"
  BY DEF OnPaused
<1>2. /\ Len(evtQ) = 1 => evtQ' = <<>>
      /\ Len(evtQ) = 2 => Len(evtQ') = 1 /\ (evtQ')[1] = evtQ[2]
      /\ e = evtQ[1] /\ evtQ # <<>>
  BY TailOfEvents, Regroup DEF DiscInv
<1>3. /\ Pausing /\ ~vis.stopReq /\ arm = 0
      /\ vis.phase \in {"ACKING", "IDLE"}
      /\ vis.phase # "IDLE" => vis.scene = "SMALL_DISC"
  BY <1>1, ArmIdle
  DEF DiscInv, MeetFits, SessionFits, PhasesOf, Rendezvous, RestStates, ArmStates
<1>4. /\ Quiet /\ paused /\ cpc # "next"
      /\ Silent' \/ (Gone /\ Told("SMALL_DISC_FINISHED")')
  BY <1>1, <1>2, <1>3 DEF Pausing, Silent, Told, Finishing, Held
<1>5. cmdQ' = cmdQ => Holding'
  BY <1>4
  DEF Holding, Held, Quiet, Gone, Finishing, Silent, Told, Steady, chassisVars,
      discVars
<1>6. ~OkSignalled'
  BY <1>1, ArmIdle, NoSignal DEF RestStates, ArmStates
<1>7. CASE enter_state(vis, "SMALL_DISC_WAIT_ACK") /\ vis.phase = "ACKING"
  <2>1. state' = "SMALL_DISC_WAIT_ACK" /\ vis' = vis /\ arm' = 0 /\ cmdQ' = cmdQ
    BY <1>3, <1>7 DEF enter_state
  <2>2. SessionFits'
    BY <1>3, <1>7, <2>1 DEF SessionFits, PhasesOf
  <2>3. Rendezvous(state)' /\ state' \notin RestStates
    BY <1>5, <2>1 DEF Rendezvous, RestStates
  <2> QED BY <1>6, <2>1, <2>2, <2>3, GoMeets
<1>8. CASE grasp(vis) /\ vis.phase # "ACKING"
  <2>1. cmdQ' = cmdQ => Rendezvous("SMALL_DISC_WAIT_GRASP")'
    BY <1>5 DEF Rendezvous
  <2>2. /\ "SMALL_DISC_WAIT_GRASP" \in ArmStates /\ state \notin RestStates
        /\ "SMALL_DISC_WAIT_GRASP" # "SMALL_DISC_WAIT_POSE"
    BY <1>1 DEF ArmStates, RestStates
  <2>3. vis.phase = "IDLE"
    BY <1>3, <1>8
  <2> QED BY <1>3, <1>6, <1>8, <2>1, <2>2, <2>3, ArmGoesOn DEF grasp
<1> QED BY <1>7, <1>8 DEF OnPaused

\* The base goes on with its circle.
LEMMA ResumedMeets ==
    ASSUME DiscInv, Steady, evtQ # <<>>, evtQ' = Tail(evtQ), balls' = balls,
           NEW e, e = Head(evtQ), OnResumed(e)
    PROVE  Meets'
<1>1. /\ state = "SMALL_DISC_WAIT_RESUME" /\ e.type = "SMALL_DISC_RESUMED"
      /\ enter_state(vis, "SMALL_DISC_RUNNING")
  BY DEF OnResumed
<1>2. /\ Len(evtQ) = 1 => evtQ' = <<>>
      /\ Len(evtQ) = 2 => Len(evtQ') = 1 /\ (evtQ')[1] = evtQ[2]
      /\ e = evtQ[1] /\ evtQ # <<>>
  BY TailOfEvents, Regroup DEF DiscInv
<1>3. Resuming /\ SessionFits /\ arm = 0
  BY <1>1, ArmIdle DEF DiscInv, MeetFits, Rendezvous, RestStates, ArmStates
<1>4. /\ Quiet
      /\ \/ Going /\ evtQ' = <<>>
         \/ Gone /\ (Silent' \/ Told("SMALL_DISC_FINISHED")')
  BY <1>1, <1>2, <1>3 DEF Resuming, Silent, Told, Finishing, Held
<1>5. /\ state' = "SMALL_DISC_RUNNING" /\ vis' = vis /\ arm' = 0 /\ cmdQ' = cmdQ
  BY <1>1, <1>3 DEF enter_state
<1>6. Circling'
  BY <1>4, <1>5
  DEF Circling, Quiet, Going, Gone, Finishing, Silent, Told, Steady, chassisVars,
      discVars
<1>7. Rendezvous(state)' /\ state' \notin RestStates
  BY <1>5, <1>6 DEF Rendezvous, RestStates
<1>8. SessionFits'
  <2>1. PhasesOf(state', balls') = PhasesOf(state, balls)
    BY <1>1, <1>5 DEF PhasesOf
  <2> QED BY <1>1, <1>3, <1>5, <2>1 DEF SessionFits, RestStates
<1>9. ~OkSignalled'
  BY <1>1, ArmIdle, NoSignal DEF RestStates, ArmStates
<1> QED BY <1>5, <1>7, <1>8, <1>9, GoMeets

\* The circle is over: the session is closed, or the arm folded away at once.
LEMMA FinishedMeets ==
    ASSUME DiscInv, Steady, evtQ # <<>>, evtQ' = Tail(evtQ), balls' = balls,
           NEW e, e = Head(evtQ), OnFinished(e)
    PROVE  Meets'
<1>1. state = "SMALL_DISC_RUNNING" /\ e.type = "SMALL_DISC_FINISHED"
  BY DEF OnFinished
<1>2. /\ Len(evtQ) = 1 => evtQ' = <<>>
      /\ e = evtQ[1] /\ evtQ # <<>>
  BY TailOfEvents, Regroup DEF DiscInv
<1>3. /\ Circling /\ ~vis.stopReq /\ arm = 0
      /\ vis.phase \in {"LISTENING", "IDLE"}
      /\ vis.phase # "IDLE" => vis.scene = "SMALL_DISC"
  BY <1>1, ArmIdle
  DEF DiscInv, MeetFits, SessionFits, PhasesOf, Rendezvous, RestStates, ArmStates
<1>4. Quiet /\ Gone /\ evtQ' = <<>>
  BY <1>1, <1>2, <1>3 DEF Circling, Silent, Told, Finishing
<1>5. cmdQ' = cmdQ => Finished'
  BY <1>4 DEF Finished, Quiet, Gone, Silent, Steady, chassisVars
<1>6. ~OkSignalled'
  BY <1>1, ArmIdle, NoSignal DEF RestStates, ArmStates
<1>7. CASE vis.phase # "IDLE" /\ stop_vision(vis, "SMALL_DISC_WAIT_VISION_END")
  <2>0. SafeRecord(vis)
    BY DEF DiscInv, ControlInv
  <2>1. PICK r \in mission_stop_vision(vis) :
            IF r.ok THEN enter_state(r.vis, "SMALL_DISC_WAIT_VISION_END")
                    ELSE mission_fail(With(r.vis), "VISION")
    BY <1>7 DEF stop_vision
  <2>2. \/ r.vis = [vis EXCEPT !.stopReq = TRUE]
        \/ r.vis.phase = "STOPPING" /\ r.vis.scene = "SMALL_DISC" /\ ~r.vis.stopReq
    <3>1. CASE Busy(vis)
      <4>1. mission_stop_vision(vis) =
              {[vis |-> [vis EXCEPT !.stopReq = TRUE], ok |-> TRUE]}
        BY <1>3, <1>7, <3>1, Zenon DEF mission_stop_vision
      <4> QED BY <4>1
    <3>2. CASE ~Busy(vis)
      BY <1>3, <1>7, <2>0, <3>2, StopShuts
    <3> QED BY <3>1, <3>2
  <2>3. CASE enter_state(r.vis, "SMALL_DISC_WAIT_VISION_END")
    <3>1. /\ state' = "SMALL_DISC_WAIT_VISION_END" /\ vis' = r.vis /\ arm' = 0
          /\ cmdQ' = cmdQ
      BY <1>3, <2>3 DEF enter_state
    <3>2. /\ vis'.phase \in {"LISTENING", "STOPPING"} /\ vis'.scene = "SMALL_DISC"
          /\ vis'.stopReq <=> vis'.phase = "LISTENING"
      BY <1>3, <1>7, <2>0, <2>2, <3>1 DEF SafeRecord, VisionType
    <3>3. SessionFits'
      BY <3>1, <3>2 DEF SessionFits, PhasesOf
    <3>4. Rendezvous(state)' /\ state' \notin RestStates
      BY <1>5, <3>1 DEF Rendezvous, RestStates
    <3> QED BY <1>6, <3>1, <3>3, <3>4, GoMeets
  <2>4. CASE mission_fail(With(r.vis), "VISION")
    <3>1. With(r.vis).id \in 1..IdMax
      BY FailIds, Regroup DEF DiscInv, Own
    <3> QED BY <2>4, <3>1, FailMeets
  <2> QED BY <2>1, <2>3, <2>4
<1>8. CASE vis.phase = "IDLE" /\ start_small_disc_exit(vis)
  <2>1. cmdQ' = cmdQ => Rendezvous("SMALL_DISC_WAIT_SAFE")'
    BY <1>5 DEF Rendezvous
  <2>2. /\ "SMALL_DISC_WAIT_SAFE" \in ArmStates /\ state \notin RestStates
        /\ "SMALL_DISC_WAIT_SAFE" # "SMALL_DISC_WAIT_POSE"
    BY <1>1 DEF ArmStates, RestStates
  <2> QED BY <1>3, <1>6, <1>8, <2>1, <2>2, ArmGoesOn DEF start_small_disc_exit
<1> QED BY <1>7, <1>8 DEF OnFinished

\* mission_handle_chassis, one step per branch.
LEMMA ChassisEvent ==
    ASSUME DiscInv, HandleChassis
    PROVE  DiscInv'
<1>1. PICK e : e = Head(evtQ) /\ mission_handle_chassis(e)
  BY DEF HandleChassis
<1>2. /\ pc = "events" /\ pc' = pc /\ got' = got /\ balls' = balls
      /\ userQ' = userQ /\ stops' = stops /\ UNCHANGED <<flags, chassisVars>>
      /\ evtQ # <<>> /\ evtQ' = Tail(evtQ)
  BY DEF HandleChassis, loopVars
<1>3. Steady /\ EventsKept
  BY <1>2 DEF Steady, EventsKept, OkSeen
<1>4. Own /\ Mail /\ SafeRecord(vis) /\ StopNoted(vis) /\ CtxTyped(DiscStates)
  BY Regroup DEF DiscInv, Own, Mail
<1>5. Handled(DiscStates, vis) /\ Meets'
  <2>1. CASE OnStale(e) \/ OnUnexpected(e)
    <3>1. keep(vis)
      BY <2>1 DEF OnStale, OnUnexpected
    <3>2. Handled(DiscStates, vis)
      BY <1>4, <3>1, EnterSafe DEF keep, CtxTyped, StopNoted
    <3> QED BY <1>2, <1>3, <3>1, <3>2, StayMeets
  <2>2. CASE OnFailure(e)
    <3>1. mission_fail(Now, "CHASSIS") /\ Now \in Contexts /\ Now.vis = vis
      BY <1>4, <2>2 DEF OnFailure, Now, Contexts, CtxTyped, SafeRecord
    <3>2. Handled(DiscStates, vis)
      BY <1>4, <3>1, FailSafe DEF Faults
    <3> QED BY <1>3, <1>4, <3>1, <3>2, FailIds, FailMeets
  <2>3. CASE OnStopped(e)
    <3>1. enter_state(vis, "STOPPED") /\ state = "STOPPING"
      BY <2>3 DEF OnStopped
    <3>2. Handled(DiscStates, vis)
      BY <1>4, <3>1, EnterSafe DEF StopNoted, RestStates
    <3>3. Rested
      BY <3>1 DEF enter_state, Rested, RestStates
    <3> QED BY <1>3, <3>2, <3>3, RestMeets
  <2>4. CASE OnArrived(e) /\ e.ok
    <3>1. Handled(DiscStates, vis)
      BY <1>4, <2>4, ArmSafe DEF OnArrived, Groups, DiscStates, ArmStates, RestStates
    <3> QED BY <1>1, <1>2, <1>3, <2>4, <3>1, ArrivedMeets
  <2>5. CASE OnPaused(e)
    <3>1. Handled(DiscStates, vis)
      <4>1. CASE enter_state(vis, "SMALL_DISC_WAIT_ACK")
        BY <1>4, <4>1, EnterSafe DEF DiscStates, RestStates
      <4>2. CASE grasp(vis)
        BY <1>4, <4>2, ArmSafe DEF grasp, Groups, DiscStates, ArmStates, RestStates
      <4> QED BY <2>5, <4>1, <4>2 DEF OnPaused
    <3> QED BY <1>1, <1>2, <1>3, <2>5, <3>1, PausedMeets
  <2>6. CASE OnResumed(e)
    <3>1. Handled(DiscStates, vis)
      BY <1>4, <2>6, EnterSafe DEF OnResumed, DiscStates, RestStates
    <3> QED BY <1>1, <1>2, <1>3, <2>6, <3>1, ResumedMeets
  <2>7. CASE OnFinished(e)
    <3>1. Handled(DiscStates, vis)
      <4>1. CASE stop_vision(vis, "SMALL_DISC_WAIT_VISION_END")
        BY <1>4, <4>1, StopVisionSafe DEF DiscStates
      <4>2. CASE start_small_disc_exit(vis)
        BY <1>4, <4>2, ArmSafe
        DEF start_small_disc_exit, Groups, DiscStates, ArmStates, RestStates
      <4> QED BY <2>7, <4>1, <4>2 DEF OnFinished
    <3> QED BY <1>1, <1>2, <1>3, <2>7, <3>1, FinishedMeets
  <2> QED BY <1>1, <2>1, <2>2, <2>3, <2>4, <2>5, <2>6, <2>7 DEF mission_handle_chassis
<1>6. StoreInHandler' /\ balls' \in Nat
  BY <1>2, <1>4 DEF StoreInHandler, Own
<1>7. LoopTyped
  BY <1>4 DEF Mail
<1> QED BY <1>2, <1>3, <1>5, <1>6, <1>7, HandlerDone DEF LoopTyped

-----------------------------------------------------------------------------
(* The arm's reports and the store.                                        *)

\* The arm's success is being handled: it is at rest and signals no second one.
LEMMA ArmDoneNow ==
    ASSUME DiscInv, pc = "arm", "ARM_OK" \in got, flags' = flags, pc' # "arm",
           pc' \notin {"commands", "events"}
    PROVE  arm = 0 /\ ~OkSignalled'
BY DEF DiscInv, ArmFits, OkSignalled, OkSeen

\* What follows the group that is done.
LEMMA ArmNextMeets ==
    ASSUME DiscInv, Steady, arm = 0, ~OkSignalled', arm_next,
           state # "SMALL_DISC_WAIT_RETURN", balls' = balls, evtQ' = evtQ
    PROVE  Handled(DiscStates, vis) /\ Meets'
<1>1. Own /\ Mail /\ SafeRecord(vis) /\ StopNoted(vis) /\ CtxTyped(DiscStates)
  BY Regroup DEF DiscInv, Own, Mail
<1>2. UNCHANGED <<cpc, paused>>
  BY DEF Steady, chassisVars, discVars
<1>3. state \in ArmStates => /\ vis.phase = "IDLE" /\ ~vis.stopReq
                             /\ state \notin RestStates /\ Rendezvous(state)
  BY DEF DiscInv, SessionFits, PhasesOf, ArmStates, RestStates, MeetFits
<1>4. CASE state = "SMALL_DISC_WAIT_POSE" /\ watch("SMALL_DISC_WAIT_VISION_START")
  <2>1. AtStart /\ state \in ArmStates /\ balls' < BallLimit
    BY <1>3, <1>4 DEF Rendezvous, ArmStates, DiscInv, SessionFits, PhasesOf
  <2>2. cmdQ' = cmdQ => Rendezvous("SMALL_DISC_WAIT_VISION_START")'
    BY <1>2, <2>1 DEF Rendezvous, AtStart, Quiet, Silent
  <2>3. Handled(DiscStates, vis)
    BY <1>1, <1>4, VisionSafe DEF watch, DiscStates, RestStates, Scenes
  <2> QED BY <1>3, <1>4, <2>1, <2>2, <2>3, WatchGoesOn
<1>5. CASE /\ state = "SMALL_DISC_WAIT_GRASP"
           /\ start_arm(vis, 19, "SMALL_DISC_WAIT_RETURN")
  <2>1. /\ Holding /\ state \in ArmStates /\ "SMALL_DISC_WAIT_RETURN" \in ArmStates
        /\ "SMALL_DISC_WAIT_RETURN" # "SMALL_DISC_WAIT_POSE"
    BY <1>3, <1>5 DEF Rendezvous, ArmStates
  <2>2. cmdQ' = cmdQ => Rendezvous("SMALL_DISC_WAIT_RETURN")'
    BY <1>2, <2>1 DEF Rendezvous, Holding, Held, Quiet, Silent, Gone, Finishing, Told
  <2>3. Handled(DiscStates, vis)
    BY <1>1, <1>5, ArmSafe DEF Groups, DiscStates, ArmStates, RestStates
  <2> QED BY <1>3, <1>5, <2>1, <2>2, <2>3, ArmGoesOn
<1>6. CASE /\ state = "SMALL_DISC_WAIT_SAFE"
           /\ send_new_stage(vis, "GO_DEPOT_1", "WAIT_DEPOT_1")
  <2>1. Finished /\ state \in ArmStates
    BY <1>3, <1>6 DEF Rendezvous, ArmStates
  <2>2. ASSUME NEW id \in 1..IdMax, cmdQ' = Sent("GO_DEPOT_1", id)
        PROVE  Rendezvous("WAIT_DEPOT_1")'
    <3>1. Asked("GO_DEPOT_1")'
      BY <1>1, <2>1, <2>2, OneMore DEF Finished, Quiet, CtxTyped, CommandTypes
    <3> QED BY <1>2, <2>1, <3>1 DEF Finished, Rendezvous, Leaving, Gone, Silent
  <2>3. "WAIT_DEPOT_1" \notin RestStates
    BY DEF RestStates
  <2>4. state' = "WAIT_DEPOT_1" /\ vis' = vis => SessionFits'
    BY <1>3, <2>1 DEF SessionFits, PhasesOf
  <2>5. Handled(DiscStates, vis)
    BY <1>1, <1>6, NewStageSafe DEF CommandTypes, DiscStates, RestStates
  <2> QED BY <1>3, <1>6, <2>1, <2>2, <2>3, <2>4, <2>5, StageGoesOn
<1>7. CASE state \notin ArmStates /\ keep(vis)
  <2>1. Handled(DiscStates, vis)
    BY <1>1, <1>7, EnterSafe DEF keep, CtxTyped, StopNoted
  <2> QED BY <1>7, <2>1, StayMeets DEF EventsKept
<1> QED BY <1>4, <1>5, <1>6, <1>7 DEF arm_next

\* mission_handle_arm: a failure, or a success but the one that stores a ball.
LEMMA ArmReport ==
    ASSUME DiscInv, ArmFail \/ ArmOk
    PROVE  DiscInv'
<1>1. Own /\ Mail /\ SafeRecord(vis) /\ StopNoted(vis) /\ CtxTyped(DiscStates)
  BY Regroup DEF DiscInv, Own, Mail
<1>2. /\ pc = "arm" /\ pc' = "vision" /\ got' = got /\ balls' = balls
      /\ userQ' = userQ /\ stops' = stops /\ UNCHANGED <<evtQ, flags, chassisVars>>
  BY DEF ArmFail, ArmOk, goto
<1>3. Steady /\ EventsKept
  BY <1>2 DEF Steady, EventsKept, OkSeen
<1>4. Handled(DiscStates, vis) /\ Meets'
  <2>1. CASE ArmFail /\ state \in ArmStates
    <3>1. mission_fail(Now, "ARM") /\ Now \in Contexts /\ Now.vis = vis
      BY <1>1, <2>1 DEF ArmFail, Now, Contexts, CtxTyped, SafeRecord
    <3>2. Handled(DiscStates, vis)
      BY <1>1, <3>1, FailSafe DEF Faults
    <3> QED BY <1>1, <1>3, <3>1, <3>2, FailIds, FailMeets
  <2>2. CASE ArmFail /\ state \notin ArmStates
    <3>1. keep(vis)
      BY <2>2 DEF ArmFail
    <3>2. Handled(DiscStates, vis)
      BY <1>1, <3>1, EnterSafe DEF keep, CtxTyped, StopNoted
    <3> QED BY <1>2, <1>3, <3>1, <3>2, StayMeets
  <2>3. CASE ArmOk
    <3>1. /\ arm_next /\ "ARM_OK" \in got /\ state # "SMALL_DISC_WAIT_RETURN"
      BY <2>3 DEF ArmOk
    <3>2. arm = 0 /\ ~OkSignalled'
      BY <1>2, <3>1, ArmDoneNow
    <3> QED BY <1>2, <1>3, <3>1, <3>2, ArmNextMeets
  <2> QED BY <2>1, <2>2, <2>3
<1>5. StoreInHandler' /\ balls' \in Nat /\ LoopTyped
  BY <1>1, <1>2 DEF StoreInHandler, Own, Mail
<1> QED BY <1>2, <1>3, <1>4, <1>5, HandlerDone DEF LoopTyped, LoopStages

\* Between the return of the arm and the store nothing else goes on.
LEMMA WhileStoring ==
    ASSUME DiscInv, pc = "storing"
    PROVE  /\ state = "SMALL_DISC_WAIT_STORAGE" /\ Holding
           /\ vis.phase = "IDLE" /\ ~vis.stopReq /\ arm = 0 /\ ~OkSignalled
<1>1. state = "SMALL_DISC_WAIT_STORAGE"
  BY DEF DiscInv, ControlInv, StoreInHandler
<1> QED BY <1>1, ArmIdle
        DEF DiscInv, MeetFits, SessionFits, PhasesOf, Rendezvous, RestStates, ArmStates

\* The ball is over the turntable: the store begins, and the base is still held.
LEMMA BeginStoreStep ==
    ASSUME DiscInv, BeginStore
    PROVE  DiscInv'
<1>1. Own /\ Mail /\ SafeRecord(vis) /\ StopNoted(vis) /\ CtxTyped(DiscStates)
  BY Regroup DEF DiscInv, Own, Mail
<1>2. /\ pc = "arm" /\ pc' = "storing" /\ got' = got /\ balls' = balls
      /\ userQ' = userQ /\ stops' = stops /\ UNCHANGED <<evtQ, flags, chassisVars>>
      /\ enter_state(vis, "SMALL_DISC_WAIT_STORAGE")
      /\ state = "SMALL_DISC_WAIT_RETURN" /\ "ARM_OK" \in got
  BY DEF BeginStore, goto
<1>3. arm = 0 /\ ~OkSignalled'
  BY <1>2, ArmDoneNow
<1>4. Holding /\ vis.phase = "IDLE" /\ ~vis.stopReq
  BY <1>2 DEF DiscInv, SessionFits, PhasesOf, RestStates, MeetFits, Rendezvous
<1>5. state' = "SMALL_DISC_WAIT_STORAGE" /\ vis' = vis /\ arm' = arm /\ cmdQ' = cmdQ
  BY <1>2 DEF enter_state
<1>6. UNCHANGED <<cpc, paused>>
  BY <1>2 DEF chassisVars, discVars
<1>7. Holding'
  BY <1>2, <1>4, <1>5, <1>6 DEF Holding, Held, Quiet, Silent, Gone, Finishing, Told
<1>8. Rendezvous(state)' /\ state' \notin RestStates
  BY <1>5, <1>7 DEF Rendezvous, RestStates
<1>9. SessionFits'
  BY <1>4, <1>5 DEF SessionFits, PhasesOf
<1>10. Meets'
  BY <1>3, <1>5, <1>8, <1>9, GoMeets
<1>11. Handled(DiscStates, vis)
  BY <1>1, <1>2, EnterSafe DEF DiscStates, RestStates
<1>12. StoreInHandler' /\ balls' \in Nat /\ LoopTyped
  BY <1>1, <1>2, <1>5 DEF StoreInHandler, Own, Mail
<1> QED BY <1>2, <1>10, <1>11, <1>12, HandlerDone DEF LoopTyped, LoopStages, EventsKept

\* The ball is stored: the base is sent on, or Nano watches again first.
LEMMA StoreDoneStep ==
    ASSUME DiscInv, StoreDone
    PROVE  DiscInv'
<1>1. Own /\ Mail /\ SafeRecord(vis) /\ StopNoted(vis) /\ CtxTyped(DiscStates)
  BY Regroup DEF DiscInv, Own, Mail
<1>2. /\ pc = "storing" /\ pc' = "vision" /\ got' = got /\ balls' = balls + 1
      /\ userQ' = userQ /\ stops' = stops /\ UNCHANGED <<evtQ, flags, chassisVars>>
  BY DEF StoreDone, goto
<1>3. Steady /\ EventsKept
  BY <1>2 DEF Steady, EventsKept, OkSeen
<1>4. /\ state = "SMALL_DISC_WAIT_STORAGE" /\ Holding /\ state \notin RestStates
      /\ vis.phase = "IDLE" /\ ~vis.stopReq /\ arm = 0 /\ ~OkSignalled'
  BY <1>2, <1>3, WhileStoring, NoSignal DEF RestStates
<1>5. UNCHANGED <<cpc, paused, evtQ>>
  BY <1>2 DEF chassisVars, discVars
<1>6. Handled(DiscStates, vis) /\ Meets'
  <2>1. CASE /\ balls' >= BallLimit
             /\ send_chassis(vis, "SMALL_DISC_RESUME", "SMALL_DISC_WAIT_RESUME")
    <3>1. Handled(DiscStates, vis)
      BY <1>1, <2>1, SendSafe DEF CommandTypes, DiscStates, RestStates
    <3>2. ASSUME cmdQ' = Sent("SMALL_DISC_RESUME", requestId)
          PROVE  Rendezvous("SMALL_DISC_WAIT_RESUME")'
      <4>1. Asked("SMALL_DISC_RESUME")'
        BY <1>1, <1>4, <3>2, OneMore DEF Holding, Quiet, CtxTyped, CommandTypes
      <4>2. Held'
        BY <1>4, <1>5 DEF Holding, Held, Silent, Gone, Finishing, Told
      <4> QED BY <4>1, <4>2 DEF Rendezvous, Resuming
    <3>3. "SMALL_DISC_WAIT_RESUME" \notin RestStates
      BY DEF RestStates
    <3>4. balls' \in Nat /\ ~(balls' < BallLimit)
      BY <1>1, <1>2, <2>1, BallAssumption DEF Own
    <3>5. state' = "SMALL_DISC_WAIT_RESUME" /\ vis' = vis => SessionFits'
      BY <1>4, <3>4 DEF SessionFits, PhasesOf
    <3> QED BY <1>3, <1>4, <2>1, <3>1, <3>2, <3>3, <3>5, SendGoesOn
  <2>2. CASE ~(balls' >= BallLimit) /\ watch("SMALL_DISC_WAIT_VISION_RESUME")
    <3>1. Handled(DiscStates, vis)
      BY <1>1, <2>2, VisionSafe DEF watch, DiscStates, RestStates, Scenes
    <3>2. cmdQ' = cmdQ => Rendezvous("SMALL_DISC_WAIT_VISION_RESUME")'
      BY <1>4, <1>5
      DEF Rendezvous, Holding, Held, Quiet, Silent, Gone, Finishing, Told
    <3>3. balls' < BallLimit
      BY <1>1, <1>2, <2>2, BallAssumption DEF Own
    <3> QED BY <1>3, <1>4, <2>2, <3>1, <3>2, <3>3, WatchGoesOn
  <2> QED BY <2>1, <2>2 DEF StoreDone
<1>7. StoreInHandler' /\ balls' \in Nat /\ LoopTyped
  BY <1>1, <1>2 DEF StoreInHandler, Own, Mail
<1> QED BY <1>2, <1>3, <1>6, <1>7, HandlerDone DEF LoopTyped, LoopStages

\* The store fails, by itself or because a STOP was drained in it.
LEMMA StoreEnds ==
    ASSUME DiscInv, StoreFailed \/ StoreGivesUp
    PROVE  DiscInv'
<1>1. Own /\ Mail /\ SafeRecord(vis) /\ StopNoted(vis) /\ CtxTyped(DiscStates)
  BY Regroup DEF DiscInv, Own, Mail
<1>2. /\ pc \in {"storing", "storeStopped"} /\ pc' = "vision" /\ got' = got
      /\ balls' = balls
      /\ userQ' = userQ /\ stops' = stops /\ UNCHANGED <<evtQ, flags, chassisVars>>
      /\ mission_fail(Now, "STORAGE")
  BY DEF StoreFailed, StoreGivesUp, goto
<1>3. Steady /\ EventsKept
  BY <1>2 DEF Steady, EventsKept, OkSeen
<1>4. Now \in Contexts /\ Now.vis = vis
  BY <1>1 DEF Now, Contexts, CtxTyped, SafeRecord
<1>5. Handled(DiscStates, vis)
  BY <1>1, <1>2, <1>4, FailSafe DEF Faults
<1>6. Meets'
  BY <1>1, <1>2, <1>3, FailIds, FailMeets
<1>7. StoreInHandler' /\ balls' \in Nat /\ LoopTyped
  BY <1>1, <1>2 DEF StoreInHandler, Own, Mail
<1> QED BY <1>2, <1>3, <1>5, <1>6, <1>7, HandlerDone DEF LoopTyped, LoopStages

\* A STOP at rest or on the way, in the loop or while a ball is stored.
LEMMA CommandRests ==
    ASSUME Mail, mission_handle_command
    PROVE  Handled(DiscStates, vis) /\ Rested
<1>1. /\ Handled(DiscStates, vis)
      /\ state \notin {"STOPPED", "BOOT"} => Rested
  BY CommandSafe DEF Mail
<1>2. state # "BOOT"
  BY DEF Mail, CtxTyped, DiscStates, RestStates, ArmStates
<1>3. Rested
  BY <1>1, <1>2
  DEF mission_handle_command, Rested, RestStates, Mail, CtxTyped
<1> QED BY <1>1, <1>3

\* A STOP from the user, in its turn or drained by the store.
LEMMA CommandStep ==
    ASSUME DiscInv,
           \/ HandleCommand /\ UNCHANGED <<balls, chassisVars>>
           \/ StoreSeesStop
    PROVE  DiscInv'
<1>1. Own /\ Mail
  BY Regroup DEF DiscInv, Own
<1>2. /\ userQ > 0 /\ userQ' = userQ - 1 /\ stops' = stops /\ got' = got
      /\ balls' = balls /\ UNCHANGED <<evtQ, flags, chassisVars>>
      /\ mission_handle_command
      /\ \/ pc = "commands" /\ pc' = pc
         \/ pc \in {"storing", "storeStopped"} /\ pc' = "storeStopped"
  BY DEF HandleCommand, StoreSeesStop
<1>3. Handled(DiscStates, vis) /\ Rested
  BY <1>1, <1>2, CommandRests
<1>4. Steady /\ EventsKept
  BY <1>2 DEF Steady, EventsKept, OkSeen
<1>5. Meets'
  BY <1>3, <1>4, RestMeets
<1>6. LoopTyped /\ userQ' \in 0..CommandDepth
  BY <1>1, <1>2, BudgetAssumption DEF Mail, LoopTyped
<1>7. StoreInHandler' /\ balls' \in Nat
  BY <1>1, <1>2, <1>3 DEF StoreInHandler, Own, Rested
<1> QED BY <1>2, <1>3, <1>4, <1>5, <1>6, <1>7, HandlerDone DEF LoopTyped, LoopStages

\* A handler that runs while a session is open finds no arm moving.
LEMMA SessionMeansIdleArm ==
    ASSUME DiscInv, state \notin RestStates, vis.phase # "IDLE"
    PROVE  arm = 0 /\ ~OkSignalled
<1>1. state \notin ArmStates
  BY DEF DiscInv, SessionFits, PhasesOf, ArmStates
<1> QED BY <1>1, ArmIdle

\* The reply has been taken out of the mailbox; a stop that had to wait goes
\* out now.
LEMMA DeferredMeets ==
    ASSUME DiscInv, Steady, balls' = balls, evtQ' = evtQ, Answered(vis), DeferredStop
    PROVE  Handled(DiscStates, [Taken EXCEPT !.stopReq = FALSE]) /\ Meets'
<1> DEFINE v == [Taken EXCEPT !.stopReq = FALSE]
<1>0. Mail /\ SafeRecord(vis) /\ StopNoted(vis) /\ CtxTyped(DiscStates)
  BY Regroup DEF DiscInv, Own, Mail
<1>t. /\ SafeRecord(Taken) /\ StopNoted(Taken) /\ ~Busy(Taken)
      /\ Taken.phase = vis.phase /\ Taken.scene = vis.scene
  BY <1>0, TakenSafe
<1>1. /\ SafeRecord(v) /\ stop_vision(v, state)
      /\ v.phase = vis.phase /\ v.scene = vis.scene
      /\ vis.stopReq /\ vis.phase # "STOPPING"
  BY <1>t DEF DeferredStop, StopWasWaiting, SafeRecord, VisionType, Busy
<1>2. ~Busy(v)
  BY <1>t DEF Busy, SafeRecord, VisionType
<1>3. vis.phase # "IDLE"
  BY <1>0 DEF SafeRecord, Busy, Answered
<1> HIDE DEF v
<1>4. Handled(DiscStates, v)
  BY <1>0, <1>1, StopVisionSafe DEF CtxTyped
<1>5. PICK r \in mission_stop_vision(v) :
          IF r.ok THEN enter_state(r.vis, state)
                  ELSE mission_fail(With(r.vis), "VISION")
  BY <1>1 DEF stop_vision
<1>6. r.vis.phase = "STOPPING" /\ r.vis.scene = v.scene /\ ~r.vis.stopReq
  BY <1>1, <1>2, <1>3, StopShuts
<1>7. CASE enter_state(r.vis, state) /\ state \in RestStates
  <2>1. Rested
    BY <1>7 DEF enter_state, Rested
  <2> QED BY <1>4, <2>1, RestMeets DEF v
<1>8. CASE enter_state(r.vis, state) /\ state \notin RestStates
  <2>1. /\ state = "SMALL_DISC_WAIT_VISION_END" /\ vis.scene = "SMALL_DISC"
    BY <1>1, <1>3, <1>8 DEF DiscInv, SessionFits
  <2>2. state' = state /\ vis' = r.vis
    BY <1>8 DEF enter_state
  <2>3. SessionFits'
    BY <1>1, <1>6, <2>1, <2>2 DEF SessionFits, PhasesOf
  <2>4. keep(r.vis)
    BY <1>8 DEF keep
  <2> QED BY <1>4, <2>3, <2>4, KeepMeets DEF v, EventsKept
<1>9. CASE mission_fail(With(r.vis), "VISION")
  <2>1. With(r.vis).id \in 1..IdMax
    BY <1>0, FailIds
  <2> QED BY <1>4, <1>9, <2>1, FailMeets DEF v
<1> QED BY <1>5, <1>7, <1>8, <1>9

\* The session is closed: the arm is folded away for the depot.
LEMMA StoppedMeets ==
    ASSUME DiscInv, Steady, balls' = balls, evtQ' = evtQ, Answered(vis), SessionStopped
    PROVE  Handled(DiscStates, mission_reset_vision(Taken)) /\ Meets'
<1> DEFINE v == mission_reset_vision(Taken)
<1>0. Mail /\ SafeRecord(vis) /\ StopNoted(vis) /\ CtxTyped(DiscStates)
  BY Regroup DEF DiscInv, Own, Mail
<1>t. SafeRecord(Taken) /\ StopNoted(Taken) /\ ~Busy(Taken)
  BY <1>0, TakenSafe
<1>1. vis.phase = "STOPPING"
  BY DEF SessionStopped, Replied
<1>2. SafeRecord(v) /\ v.phase = "IDLE" /\ ~v.stopReq /\ StopNoted(v)
  BY <1>t DEF mission_reset_vision, SafeRecord, VisionType, Phases, Scenes, Busy,
              StopNoted
<1>3. IF state = "SMALL_DISC_WAIT_VISION_END" THEN start_small_disc_exit(v)
                                              ELSE keep(v)
  BY DEF SessionStopped
<1> HIDE DEF v
<1>4. CASE state = "SMALL_DISC_WAIT_VISION_END"
  <2>1. start_arm(v, 10, "SMALL_DISC_WAIT_SAFE")
    BY <1>3, <1>4 DEF start_small_disc_exit
  <2>2. Handled(DiscStates, v)
    BY <1>0, <1>2, <2>1, ArmSafe DEF Groups, DiscStates, ArmStates, RestStates
  <2>3. state \notin RestStates /\ Finished
    BY <1>4 DEF RestStates, DiscInv, MeetFits, Rendezvous
  <2>4. ~OkSignalled'
    BY <1>1, <2>3, SessionMeansIdleArm, NoSignal
  <2>5. cmdQ' = cmdQ => Rendezvous("SMALL_DISC_WAIT_SAFE")'
    BY <2>3
    DEF Rendezvous, Finished, Quiet, Gone, Silent, Steady, chassisVars
  <2>6. /\ "SMALL_DISC_WAIT_SAFE" \in ArmStates
        /\ "SMALL_DISC_WAIT_SAFE" # "SMALL_DISC_WAIT_POSE"
    BY DEF ArmStates
  <2>7. Meets'
    BY <1>2, <2>1, <2>3, <2>4, <2>5, <2>6, ArmGoesOn
  <2> QED BY <2>2, <2>7 DEF v
<1>5. CASE state # "SMALL_DISC_WAIT_VISION_END"
  <2>1. state \in RestStates
    BY <1>1, <1>5 DEF DiscInv, SessionFits, PhasesOf
  <2>2. keep(v)
    BY <1>3, <1>5
  <2>3. Handled(DiscStates, v)
    BY <1>0, <1>2, <2>2, EnterSafe DEF keep, CtxTyped, StopNoted
  <2>4. Rested
    BY <2>1, <2>2 DEF keep, enter_state, Rested
  <2> QED BY <2>3, <2>4, RestMeets DEF v
<1> QED BY <1>4, <1>5

\* Nano watches: the base may start its circle, or go on with it.
LEMMA ReadyMeets ==
    ASSUME DiscInv, Steady, balls' = balls, evtQ' = evtQ, Answered(vis), SessionReady
    PROVE  Handled(DiscStates, [Taken EXCEPT !.phase = "LISTENING"]) /\ Meets'
<1> DEFINE v == [Taken EXCEPT !.phase = "LISTENING"]
<1>0. Mail /\ SafeRecord(vis) /\ StopNoted(vis) /\ CtxTyped(DiscStates)
  BY Regroup DEF DiscInv, Own, Mail
<1>t. /\ SafeRecord(Taken) /\ ~Busy(Taken)
      /\ Taken.scene = vis.scene /\ Taken.stopReq = vis.stopReq
      /\ Taken.phase = vis.phase
  BY <1>0, TakenSafe
<1>1. vis.phase = "STARTING" /\ ~vis.stopReq /\ vis.mail = "READY"
  BY DEF SessionReady, Replied, StopWasWaiting
<1>2. /\ SafeRecord(v) /\ v.phase = "LISTENING" /\ v.scene = vis.scene /\ ~v.stopReq
      /\ StopNoted(v)
  BY <1>1, <1>t DEF SafeRecord, VisionType, Phases, Busy, StopNoted
<1>3. /\ state \notin RestStates
      /\ state \in {"SMALL_DISC_WAIT_VISION_START", "SMALL_DISC_WAIT_VISION_RESUME"}
      /\ balls < BallLimit /\ vis.scene = "SMALL_DISC"
  <2>1. state \notin RestStates
    BY <1>0, <1>1 DEF StopNoted
  <2> QED BY <1>1, <2>1 DEF DiscInv, SessionFits, PhasesOf
<1>4. \/ /\ state = "SMALL_DISC_WAIT_VISION_START"
         /\ send_chassis(v, "SMALL_DISC_START", "SMALL_DISC_RUNNING")
      \/ /\ state = "SMALL_DISC_WAIT_VISION_RESUME"
         /\ send_chassis(v, "SMALL_DISC_RESUME", "SMALL_DISC_WAIT_RESUME")
  BY <1>3 DEF SessionReady
<1> HIDE DEF v
<1>5. UNCHANGED <<cpc, paused, evtQ>>
  BY DEF Steady, chassisVars, discVars
<1>6. arm = 0 /\ ~OkSignalled'
  BY <1>1, <1>3, SessionMeansIdleArm, NoSignal
<1>7. CASE /\ state = "SMALL_DISC_WAIT_VISION_START"
           /\ send_chassis(v, "SMALL_DISC_START", "SMALL_DISC_RUNNING")
  <2>1. AtStart
    BY <1>3, <1>7 DEF DiscInv, MeetFits, Rendezvous
  <2>2. Handled(DiscStates, v)
    BY <1>0, <1>2, <1>7, SendSafe DEF CommandTypes, DiscStates, RestStates
  <2>3. ASSUME cmdQ' = Sent("SMALL_DISC_START", requestId)
        PROVE  Rendezvous("SMALL_DISC_RUNNING")'
    <3>1. Asked("SMALL_DISC_START")'
      BY <1>0, <2>1, <2>3, OneMore DEF AtStart, Quiet, CtxTyped, CommandTypes
    <3> QED BY <1>5, <2>1, <3>1 DEF AtStart, Rendezvous, Circling, Silent
  <2>4. "SMALL_DISC_RUNNING" \notin RestStates
    BY DEF RestStates
  <2>5. state' = "SMALL_DISC_RUNNING" /\ vis' = v => SessionFits'
    BY <1>2, <1>3 DEF SessionFits, PhasesOf
  <2>6. Meets'
    BY <1>3, <1>6, <1>7, <2>3, <2>4, <2>5, SendGoesOn
  <2> QED BY <2>2, <2>6 DEF v
<1>8. CASE /\ state = "SMALL_DISC_WAIT_VISION_RESUME"
           /\ send_chassis(v, "SMALL_DISC_RESUME", "SMALL_DISC_WAIT_RESUME")
  <2>1. Holding
    BY <1>3, <1>8 DEF DiscInv, MeetFits, Rendezvous
  <2>2. Handled(DiscStates, v)
    BY <1>0, <1>2, <1>8, SendSafe DEF CommandTypes, DiscStates, RestStates
  <2>3. ASSUME cmdQ' = Sent("SMALL_DISC_RESUME", requestId)
        PROVE  Rendezvous("SMALL_DISC_WAIT_RESUME")'
    <3>1. Asked("SMALL_DISC_RESUME")'
      BY <1>0, <2>1, <2>3, OneMore DEF Holding, Quiet, CtxTyped, CommandTypes
    <3>2. Held'
      BY <1>5, <2>1 DEF Holding, Held, Silent, Gone, Finishing, Told
    <3> QED BY <3>1, <3>2 DEF Rendezvous, Resuming
  <2>4. "SMALL_DISC_WAIT_RESUME" \notin RestStates
    BY DEF RestStates
  <2>5. state' = "SMALL_DISC_WAIT_RESUME" /\ vis' = v => SessionFits'
    BY <1>2, <1>3 DEF SessionFits, PhasesOf
  <2>6. Meets'
    BY <1>3, <1>6, <1>8, <2>3, <2>4, <2>5, SendGoesOn
  <2> QED BY <2>2, <2>6 DEF v
<1> QED BY <1>4, <1>7, <1>8

\* A ball is confirmed, and the base is asked to pause wherever it is by now.
LEMMA SeenMeets ==
    ASSUME DiscInv, Steady, balls' = balls, evtQ' = evtQ, Answered(vis), BallSeen
    PROVE  \E v : Handled(DiscStates, v) /\ Meets'
<1>0. Mail /\ SafeRecord(vis) /\ StopNoted(vis) /\ CtxTyped(DiscStates)
  BY Regroup DEF DiscInv, Own, Mail
<1>t. /\ SafeRecord(Taken) /\ ~Busy(Taken)
      /\ Taken.scene = vis.scene /\ Taken.stopReq = vis.stopReq
      /\ Taken.phase = vis.phase
  BY <1>0, TakenSafe
<1>1. /\ vis.phase = "LISTENING" /\ state = "SMALL_DISC_RUNNING"
      /\ \E ok \in submit_results(Taken) :
           IF ok
           THEN send_chassis(acking(TRUE), "SMALL_DISC_STOP", "SMALL_DISC_WAIT_PAUSE")
           ELSE mission_fail(With(acking(FALSE)), "VISION")
  BY DEF BallSeen, Replied
<1>2. PICK ok \in submit_results(Taken) :
        IF ok
        THEN send_chassis(acking(TRUE), "SMALL_DISC_STOP", "SMALL_DISC_WAIT_PAUSE")
        ELSE mission_fail(With(acking(FALSE)), "VISION")
  BY <1>1
<1>3. /\ state \notin RestStates /\ vis.scene = "SMALL_DISC" /\ ~vis.stopReq
      /\ Circling /\ ok \in BOOLEAN
  BY <1>1, <1>2
  DEF RestStates, DiscInv, SessionFits, MeetFits, Rendezvous, submit_results
<1> DEFINE v == acking(ok)
           w == [Taken EXCEPT !.phase = "ACKING"]
<1>4. /\ w \in VisionType /\ ~Busy(w) /\ w.phase = "ACKING"
      /\ w.scene = "SMALL_DISC" /\ w.scene # "NONE" /\ ~w.stopReq
      /\ ok \in submit_results(w)
  BY <1>t, <1>3 DEF SafeRecord, VisionType, Phases, Busy, submit_results
<1>5. v = mission_submit_vision_transfer(w, "ACK", ok)
  BY DEF acking
<1>6. SafeRecord(v) /\ v.phase = "ACKING" /\ v.scene = "SMALL_DISC" /\ ~v.stopReq
  <2> HIDE DEF v, w
  <2> QED BY <1>4, <1>5, SubmitSafe
<1>7. \/ send_chassis(v, "SMALL_DISC_STOP", "SMALL_DISC_WAIT_PAUSE")
      \/ mission_fail(With(v), "VISION")
  BY <1>2, <1>3
<1> HIDE DEF v, w
<1>8. StopNoted(v)
  BY <1>6 DEF StopNoted
<1>9. CASE send_chassis(v, "SMALL_DISC_STOP", "SMALL_DISC_WAIT_PAUSE")
  <2>1. Handled(DiscStates, v)
    BY <1>0, <1>6, <1>8, <1>9, SendSafe DEF CommandTypes, DiscStates, RestStates
  <2>2. UNCHANGED <<cpc, paused, evtQ>>
    BY DEF Steady, chassisVars, discVars
  <2>3. ASSUME cmdQ' = Sent("SMALL_DISC_STOP", requestId)
        PROVE  Rendezvous("SMALL_DISC_WAIT_PAUSE")'
    <3>0. /\ cmdQ = <<>> => Asked("SMALL_DISC_STOP")'
          /\ Len(cmdQ) = 1 => /\ Len(cmdQ') = 2 /\ (cmdQ')[1] = cmdQ[1]
                              /\ (cmdQ')[2].type = "SMALL_DISC_STOP"
      BY <1>0, <2>3, OneMore DEF CtxTyped, CommandTypes
    <3>1. CASE Asked("SMALL_DISC_START") /\ cpc = "start" /\ Silent
      <4>1. StartAndStop'
        BY <3>0, <3>1 DEF StartAndStop, Asked
      <4> QED BY <2>2, <3>1, <4>1 DEF Rendezvous, Pausing, Silent
    <3>2. CASE Quiet /\ Going /\ Silent
      <4>1. Asked("SMALL_DISC_STOP")'
        BY <3>0, <3>2 DEF Quiet
      <4> QED BY <2>2, <3>2, <4>1 DEF Rendezvous, Pausing, Silent, Going
    <3>3. CASE Quiet /\ Gone /\ Finishing
      <4>1. Asked("SMALL_DISC_STOP")'
        BY <3>0, <3>3 DEF Quiet
      <4> QED BY <2>2, <3>3, <4>1
              DEF Rendezvous, Pausing, Silent, Gone, Finishing, Told
    <3> QED BY <1>3, <3>1, <3>2, <3>3 DEF Circling
  <2>4. "SMALL_DISC_WAIT_PAUSE" \notin RestStates
    BY DEF RestStates
  <2>5. state' = "SMALL_DISC_WAIT_PAUSE" /\ vis' = v => SessionFits'
    BY <1>6 DEF SessionFits, PhasesOf
  <2>6. arm = 0 /\ ~OkSignalled'
    BY <1>1, <1>3, SessionMeansIdleArm, NoSignal
  <2>7. Meets'
    BY <1>3, <1>9, <2>3, <2>4, <2>5, <2>6, SendGoesOn
  <2> QED BY <2>1, <2>7
<1>10. CASE mission_fail(With(v), "VISION")
  <2>1. With(v) \in Contexts /\ With(v).vis = v
    BY <1>0, <1>6 DEF With, Now, Contexts, CtxTyped, SafeRecord
  <2>2. Handled(DiscStates, v)
    BY <1>0, <1>6, <1>8, <1>10, <2>1, FailSafe DEF Faults
  <2>3. With(v).id \in 1..IdMax
    BY <1>0, FailIds
  <2>4. Meets'
    BY <1>10, <2>3, FailMeets
  <2> QED BY <2>2, <2>4
<1> QED BY <1>7, <1>9, <1>10

\* mission_handle_vision, one step per branch.
LEMMA VisionStep ==
    ASSUME DiscInv, HandleVision
    PROVE  DiscInv'
<1>0. Own /\ Mail /\ SafeRecord(vis) /\ StopNoted(vis) /\ CtxTyped(DiscStates)
  BY Regroup DEF DiscInv, Own, Mail
<1>1. /\ DoneSeen /\ pc = "vision" /\ pc' = "process" /\ mission_handle_vision
      /\ UNCHANGED <<evtQ, flags, chassisVars>> /\ balls' = balls
      /\ userQ' = userQ /\ stops' = stops /\ got' = got
  BY DEF HandleVision, DoneSeen, goto
<1>2. Answered(vis)
  BY <1>0, <1>1 DEF Mail, DoneMeansAnswered
<1>3. Steady /\ EventsKept /\ evtQ' = evtQ
  BY <1>1 DEF Steady, EventsKept, OkSeen
<1>t. /\ SafeRecord(Taken) /\ StopNoted(Taken)
      /\ Taken.phase = vis.phase /\ Taken.scene = vis.scene
      /\ Taken.stopReq = vis.stopReq
  BY <1>0, <1>2, TakenSafe
<1>4. \E v : Handled(DiscStates, v) /\ Meets'
  <2>1. CASE DeferredStop
    BY <1>1, <1>2, <1>3, <2>1, DeferredMeets
  <2>2. CASE QuietListen \/ AckSent \/ EventIgnored
    <3>1. keep(Taken)
      BY <2>2 DEF QuietListen, AckSent, EventIgnored
    <3>2. Handled(DiscStates, Taken)
      BY <1>0, <1>t, <3>1, EnterSafe DEF keep, CtxTyped, StopNoted
    <3>3. Meets'
      BY <1>1, <1>3, <1>t, <3>1, StayMeets
    <3> QED BY <3>2, <3>3
  <2>3. CASE BusFault \/ WrongReply
    <3>1. mission_fail(With(Taken), "VISION")
      BY <2>3 DEF BusFault, WrongReply
    <3>2. With(Taken) \in Contexts /\ With(Taken).vis = Taken
      BY <1>0, <1>t DEF With, Now, Contexts, CtxTyped, SafeRecord
    <3>3. Handled(DiscStates, Taken)
      BY <1>0, <1>t, <3>1, <3>2, FailSafe DEF Faults
    <3>4. With(Taken).id \in 1..IdMax
      BY <1>0, FailIds
    <3> QED BY <1>3, <3>1, <3>3, <3>4, FailMeets
  <2>4. CASE SessionStopped
    BY <1>1, <1>2, <1>3, <2>4, StoppedMeets
  <2>5. CASE SessionReady
    BY <1>1, <1>2, <1>3, <2>5, ReadyMeets
  <2>6. CASE BallSeen
    BY <1>1, <1>2, <1>3, <2>6, SeenMeets
  <2> QED BY <1>1, <2>1, <2>2, <2>3, <2>4, <2>5, <2>6 DEF mission_handle_vision
<1>5. StoreInHandler' /\ balls' \in Nat /\ LoopTyped
  BY <1>0, <1>1 DEF StoreInHandler, Own, Mail
<1> QED BY <1>1, <1>3, <1>4, <1>5, HandlerDone DEF LoopTyped, LoopStages

\* The confirmation is out: the grasp starts if the base stands already.
LEMMA AckProcessedStep ==
    ASSUME DiscInv, AckProcessed, UNCHANGED <<balls, chassisVars>>
    PROVE  DiscInv'
<1> DEFINE v == mission_reset_vision(vis)
<1>0. Own /\ Mail /\ SafeRecord(vis) /\ StopNoted(vis) /\ CtxTyped(DiscStates)
  BY Regroup DEF DiscInv, Own, Mail
<1>1. /\ pc = "process" /\ pc' = "timeout" /\ balls' = balls
      /\ UNCHANGED <<evtQ, flags, chassisVars>>
      /\ userQ' = userQ /\ stops' = stops /\ got' = got
  BY DEF AckProcessed, goto
<1>2. /\ vis.phase = "ACKING" /\ ~Answered(vis)
      /\ IF state = "SMALL_DISC_WAIT_ACK" THEN grasp(v) ELSE keep(v)
  BY DEF AckProcessed, Busy, Answered
<1>3. SafeRecord(v) /\ StopNoted(v) /\ v.phase = "IDLE" /\ ~v.stopReq
  BY <1>0 DEF AckProcessed, mission_reset_vision, SafeRecord, VisionType, Phases,
              Scenes, Busy, StopNoted
<1>4. Steady /\ EventsKept /\ evtQ' = evtQ
  BY <1>1 DEF Steady, EventsKept, OkSeen
<1> HIDE DEF v
<1>5. Handled(DiscStates, v) /\ Meets'
  <2>1. CASE state = "SMALL_DISC_WAIT_ACK" /\ grasp(v)
    <3>1. start_arm(v, 20, "SMALL_DISC_WAIT_GRASP")
      BY <2>1 DEF grasp
    <3>2. Handled(DiscStates, v)
      BY <1>0, <1>3, <3>1, ArmSafe DEF Groups, DiscStates, ArmStates, RestStates
    <3>3. state \notin RestStates /\ Holding
      BY <2>1 DEF RestStates, DiscInv, MeetFits, Rendezvous
    <3>4. ~OkSignalled'
      BY <1>2, <1>4, <3>3, SessionMeansIdleArm, NoSignal
    <3>5. UNCHANGED <<cpc, paused>>
      BY <1>1 DEF chassisVars, discVars
    <3>6. cmdQ' = cmdQ => Rendezvous("SMALL_DISC_WAIT_GRASP")'
      BY <1>4, <3>3, <3>5
      DEF Rendezvous, Holding, Held, Quiet, Silent, Gone, Finishing, Told
    <3>7. /\ "SMALL_DISC_WAIT_GRASP" \in ArmStates
          /\ "SMALL_DISC_WAIT_GRASP" # "SMALL_DISC_WAIT_POSE"
      BY DEF ArmStates
    <3>8. Meets'
      BY <1>1, <1>3, <1>4, <3>1, <3>3, <3>4, <3>6, <3>7, ArmGoesOn
    <3> QED BY <3>2, <3>8
  <2>2. CASE state # "SMALL_DISC_WAIT_ACK" /\ keep(v)
    <3>1. Handled(DiscStates, v)
      BY <1>0, <1>3, <2>2, EnterSafe DEF keep, CtxTyped, StopNoted
    <3>2. state' = state /\ vis' = v
      BY <2>2 DEF keep, enter_state
    <3>3. SessionFits'
      <4>1. state \in RestStates \/ state = "SMALL_DISC_WAIT_PAUSE"
        BY <1>2, <2>2 DEF DiscInv, SessionFits, PhasesOf
      <4> QED BY <1>3, <3>2, <4>1 DEF SessionFits, PhasesOf
    <3>4. Meets'
      BY <1>4, <2>2, <3>3, KeepMeets
    <3> QED BY <3>1, <3>4
  <2> QED BY <1>2, <2>1, <2>2
<1>6. StoreInHandler' /\ balls' \in Nat /\ LoopTyped
  BY <1>0, <1>1 DEF StoreInHandler, Own, Mail
<1> QED BY <1>1, <1>2, <1>4, <1>5, <1>6, HandlerDone DEF LoopTyped, LoopStages

\* mission_vision_process while listening, and mission_check_timeout.
LEMMA ProcessStep ==
    ASSUME DiscInv, ReadNext \/ CheckTimeout(Timed), UNCHANGED <<balls, chassisVars>>
    PROVE  DiscInv'
<1>0. Own /\ Mail /\ SafeRecord(vis) /\ StopNoted(vis) /\ CtxTyped(DiscStates)
  BY Regroup DEF DiscInv, Own, Mail
<1>1. /\ pc' \in {"timeout", "wait"} /\ got' \subseteq got /\ balls' = balls
      /\ UNCHANGED <<evtQ, flags, chassisVars>>
      /\ userQ' = userQ /\ stops' = stops
  BY DEF ReadNext, CheckTimeout, goto
<1>2. Steady /\ EventsKept /\ evtQ' = evtQ
  BY <1>1 DEF Steady, EventsKept, OkSeen
<1>3. \E v : Handled(DiscStates, v) /\ Meets' /\ (Answered(vis) => Answered(v))
  <2>1. CASE ReadNext
    <3>1. PICK ok \in submit_results(vis) :
              keep(mission_submit_vision_transfer(vis, "READ", ok))
      BY <2>1 DEF ReadNext
    <3>2. ~Busy(vis) /\ vis.phase = "LISTENING" /\ ~Answered(vis)
      BY <2>1 DEF ReadNext, Busy, Answered
    <3> DEFINE v == mission_submit_vision_transfer(vis, "READ", ok)
    <3>3. /\ SafeRecord(v) /\ v.phase = vis.phase /\ v.scene = vis.scene
          /\ v.stopReq = vis.stopReq
      BY <1>0, <3>1, <3>2, SubmitSafe DEF SafeRecord
    <3>4. keep(v)
      BY <3>1
    <3> HIDE DEF v
    <3>5. Handled(DiscStates, v)
      BY <1>0, <3>2, <3>3, <3>4, EnterSafe DEF keep, CtxTyped, StopNoted
    <3>6. Meets'
      BY <1>1, <1>2, <3>3, <3>4, StayMeets
    <3> QED BY <3>2, <3>5, <3>6
  <2>2. CASE CheckTimeout(Timed) /\ keep(vis)
    <3>1. Handled(DiscStates, vis)
      BY <1>0, <2>2, EnterSafe DEF keep, CtxTyped, StopNoted
    <3> QED BY <1>1, <1>2, <2>2, <3>1, StayMeets
  <2>3. CASE CheckTimeout(Timed) /\ mission_fail(Now, "TIMEOUT")
    <3>1. Now \in Contexts /\ Now.vis = vis
      BY <1>0 DEF Now, Contexts, CtxTyped, SafeRecord
    <3>2. Handled(DiscStates, vis)
      BY <1>0, <2>3, <3>1, FailSafe DEF Faults
    <3> QED BY <1>0, <1>2, <2>3, <3>2, FailIds, FailMeets
  <2> QED BY <2>1, <2>2, <2>3 DEF CheckTimeout
<1>4. StoreInHandler' /\ balls' \in Nat /\ LoopTyped
  BY <1>0, <1>1 DEF StoreInHandler, Own, Mail
<1>5. pc' \in LoopStages
  BY <1>1 DEF LoopStages
<1> QED BY <1>1, <1>2, <1>3, <1>4, <1>5, HandlerDone DEF LoopTyped

\* What stays true when only the main loop moves on, or the world publishes:
\* nothing of the two queues, the base and the state.
LEMMA MeetKept ==
    ASSUME MeetFits, UNCHANGED <<state, cmdQ, evtQ, chassisVars>>, arm' \in {0, arm}
    PROVE  MeetFits'
<1>1. UNCHANGED <<cpc, paused>>
  BY DEF chassisVars, discVars
<1>2. Rendezvous(state)' <=> Rendezvous(state)
  BY <1>1
  DEF Rendezvous, Arriving, AtStart, Circling, Pausing, StartAndStop, Holding,
      Resuming, Finished, Leaving, Quiet, Asked, Silent, Told, Going, Gone,
      Finishing, Held
<1> QED BY <1>1, <1>2 DEF MeetFits, Parked

\* The rest of the main loop.
LEMMA LoopStep ==
    ASSUME DiscInv, UNCHANGED <<balls, chassisVars>>,
           Wake \/ WakeLate(Timed) \/ CommandsDone \/ EventsDone \/ ArmDone
             \/ VisionDone \/ NothingToProcess
    PROVE  DiscInv'
<1>0. Own /\ Mail /\ EventsTyped /\ ChassisTypeOK
  BY Regroup DEF DiscInv, Own
<1>1. UNCHANGED <<ctxVars, evtQ, userQ, stops, balls, chassisVars>>
  BY DEF Wake, WakeLate, CommandsDone, EventsDone, ArmDone, VisionDone,
         NothingToProcess, goto
<1>2. UNCHANGED <<state, fault, requestId, activeArm, armHome, vis, arm, cmdQ>>
  BY <1>1 DEF ctxVars
<1>3. LoopTyped' /\ DoneMeansAnswered' /\ StoreInHandler' /\ ArmFits'
  <2> USE <1>1, <1>2
      DEF Own, Mail, LoopTyped, DoneMeansAnswered, DoneSeen, LoopStages, goto,
          Answered, StoreInHandler, DiscInv, ArmFits, OkSignalled, OkSeen
  <2>0. Own /\ Mail /\ ArmFits
    BY <1>0
  <2>1. CASE Wake             BY <2>0, <2>1 DEF Wake
  <2>2. CASE WakeLate(Timed)  BY <2>0, <2>2 DEF WakeLate
  <2>3. CASE CommandsDone     BY <2>0, <2>3 DEF CommandsDone
  <2>4. CASE EventsDone       BY <2>0, <2>4 DEF EventsDone
  <2>5. CASE ArmDone          BY <2>0, <2>5 DEF ArmDone
  <2>6. CASE VisionDone       BY <2>0, <2>6 DEF VisionDone
  <2>7. CASE NothingToProcess BY <2>0, <2>7 DEF NothingToProcess
  <2> QED BY <2>1, <2>2, <2>3, <2>4, <2>5, <2>6, <2>7
<1>4. Own' /\ EventsTyped' /\ ChassisTypeOK' /\ BaseFits'
  BY <1>0, <1>1, <1>2, <1>3
  DEF Own, Mail, CtxTyped, QueueTyped, SafeRecord, StopNoted, EventsTyped,
      ChassisTypeOK, BaseFits, DiscInv, chassisVars, discVars
<1>5. MeetFits' /\ SessionFits'
  BY <1>1, <1>2, MeetKept DEF DiscInv, SessionFits
<1> QED BY <1>3, <1>4, <1>5, Regroup DEF DiscInv

\* The arm reports, Nano and the multiplexer answer, the user stops.
LEMMA WorldStep ==
    ASSUME DiscInv, World
    PROVE  DiscInv'
<1>0. Own /\ Mail /\ EventsTyped /\ ChassisTypeOK /\ SafeRecord(vis) /\ StopNoted(vis)
  BY Regroup DEF DiscInv, Own, Mail
<1>1. /\ UNCHANGED <<state, fault, requestId, activeArm, cmdQ, evtQ, balls, chassisVars>>
      /\ got' = got /\ pc' = pc
  BY DEF World, PublishReply, ReleaseTransfer, ArmCompleted, ArmFailed, SubmitStop,
         ctxVars, loopVars
<1>2. vis.inflight => "VISION_DONE" \notin flags /\ ~DoneSeen
  BY <1>0 DEF Mail, DoneMeansAnswered, Answered
<1>3. SUFFICES /\ Mail' /\ ArmFits' /\ arm' \in {0, arm}
               /\ vis'.phase = vis.phase /\ vis'.scene = vis.scene
               /\ vis'.stopReq = vis.stopReq
  <2>1. MeetFits' /\ SessionFits'
    BY <1>1, <1>3, MeetKept DEF DiscInv, SessionFits
  <2>2. EventsTyped' /\ ChassisTypeOK' /\ BaseFits' /\ StoreInHandler' /\ balls' \in Nat
    BY <1>0, <1>1 DEF EventsTyped, ChassisTypeOK, BaseFits, DiscInv, chassisVars,
                      discVars, Own, StoreInHandler
  <2>3. Own'
    BY <1>3, <2>2 DEF Own
  <2> QED BY <1>3, <2>1, <2>2, <2>3, Regroup DEF DiscInv
<1>4. CASE PublishReply
  <2>1. /\ vis.inflight /\ UNCHANGED <<armHome, arm, flags, userQ, stops>>
        /\ \E m \in replies(vis.io) :
              vis' = [vis EXCEPT !.mail = m, !.pending = TRUE]
    BY <1>4 DEF PublishReply, loopVars
  <2>2. /\ SafeRecord(vis') /\ vis'.phase = vis.phase /\ vis'.scene = vis.scene
        /\ vis'.stopReq = vis.stopReq
    <3>1. replies(vis.io) \subseteq Mails
      BY DEF replies, Mails
    <3> QED BY <1>0, <2>1, <3>1 DEF SafeRecord, VisionType, Busy
  <2>3. DoneMeansAnswered' /\ LoopTyped'
    BY <1>0, <1>1, <1>2, <2>1 DEF DoneMeansAnswered, DoneSeen, LoopTyped, Mail
  <2>4. ArmFits'
    BY <1>1, <2>1 DEF DiscInv, ArmFits, OkSignalled, OkSeen
  <2>5. Mail'
    BY <1>0, <1>1, <2>1, <2>2, <2>3 DEF Mail, CtxTyped, QueueTyped, StopNoted, SafeRecord
  <2> QED BY <2>1, <2>2, <2>4, <2>5
<1>5. CASE ReleaseTransfer
  <2>1. /\ vis.inflight /\ vis.pending /\ UNCHANGED <<armHome, arm, userQ, stops>>
        /\ flags' = flags \cup {"VISION_DONE"}
        /\ vis' = [vis EXCEPT !.inflight = FALSE, !.io = "none"]
    BY <1>5 DEF ReleaseTransfer, loopVars
  <2>2. /\ SafeRecord(vis') /\ vis'.phase = vis.phase /\ vis'.scene = vis.scene
        /\ vis'.stopReq = vis.stopReq /\ Answered(vis')
    BY <1>0, <2>1 DEF SafeRecord, VisionType, Busy, Answered, Frames
  <2>3. DoneMeansAnswered' /\ LoopTyped'
    BY <1>0, <1>1, <1>2, <2>1, <2>2
    DEF DoneMeansAnswered, DoneSeen, Answered, LoopTyped, Mail, FlagNames
  <2>4. ArmFits'
    BY <1>1, <2>1 DEF DiscInv, ArmFits, OkSignalled, OkSeen
  <2>5. Mail'
    BY <1>0, <1>1, <2>1, <2>2, <2>3 DEF Mail, CtxTyped, QueueTyped, StopNoted, SafeRecord
  <2> QED BY <2>1, <2>2, <2>4, <2>5
<1>6. CASE ArmCompleted \/ ArmFailed
  <2>1. /\ vis' = vis /\ arm # 0 /\ arm' \in {0, arm} /\ armHome' \in BOOLEAN
        /\ \/ flags' \in {flags, flags \cup {"ARM_FAIL"}}
           \/ flags' = flags \cup {"ARM_OK"} /\ arm' = 0
        /\ UNCHANGED <<userQ, stops>>
    BY <1>0, <1>6 DEF ArmCompleted, ArmFailed, Mail, CtxTyped, loopVars
  <2>2. DoneMeansAnswered' /\ LoopTyped'
    BY <1>0, <1>1, <2>1 DEF Mail, DoneMeansAnswered, DoneSeen, Answered,
                            LoopTyped, FlagNames
  <2>3. ArmFits'
    BY <1>1, <2>1 DEF DiscInv, ArmFits, OkSignalled, OkSeen
  <2>4. Mail'
    BY <1>0, <1>1, <2>1, <2>2 DEF Mail, CtxTyped, QueueTyped, StopNoted, SafeRecord
  <2> QED BY <2>1, <2>3, <2>4
<1>7. CASE SubmitStop
  <2>1. /\ UNCHANGED <<armHome, vis, arm>>
        /\ userQ' = userQ + 1 /\ userQ < CommandDepth
        /\ stops' = stops + 1 /\ stops < StopBudget
        /\ flags' = flags \cup {"COMMAND"}
    BY <1>7 DEF SubmitStop, ctxVars
  <2>2. DoneMeansAnswered' /\ LoopTyped'
    BY <1>0, <1>1, <2>1, BudgetAssumption
    DEF Mail, DoneMeansAnswered, DoneSeen, Answered, LoopTyped, FlagNames
  <2>3. ArmFits'
    BY <1>1, <2>1 DEF DiscInv, ArmFits, OkSignalled, OkSeen
  <2>4. Mail'
    BY <1>0, <1>1, <2>1, <2>2 DEF Mail, CtxTyped, QueueTyped, StopNoted, SafeRecord
  <2> QED BY <2>1, <2>3, <2>4
<1> QED BY <1>4, <1>5, <1>6, <1>7 DEF World

-----------------------------------------------------------------------------
(* The chassis task: the two queues.                                       *)

\* The oldest command is taken.
LEMMA TakeOne ==
    ASSUME QueueTyped, TakeCommand
    PROVE  /\ QueueTyped' /\ cmdQ # <<>>
           /\ NextCommand = cmdQ[1] /\ NextCommand \in Commands
           /\ NextCommand.id \in Nat
           /\ 1 \in DOMAIN cmdQ
           /\ Len(cmdQ) = 1 => cmdQ' = <<>>
           /\ Len(cmdQ) = 2 => Len(cmdQ') = 1 /\ (cmdQ')[1] = cmdQ[2]
           /\ (\A i \in DOMAIN cmdQ : cmdQ[i].type = "STOP") =>
                 \A i \in DOMAIN (cmdQ') : (cmdQ')[i].type = "STOP"
<1>1. cmdQ \in Seq(Commands) /\ cmdQ # <<>> /\ cmdQ' = Tail(cmdQ)
  BY DEF QueueTyped, TakeCommand
<1>2. /\ cmdQ' \in Seq(Commands) /\ Len(cmdQ') = Len(cmdQ) - 1
      /\ \A i \in 1..Len(cmdQ') : (cmdQ')[i] = cmdQ[i + 1]
      /\ DOMAIN (cmdQ') = 1..Len(cmdQ') /\ DOMAIN cmdQ = 1..Len(cmdQ)
      /\ Head(cmdQ) = cmdQ[1] /\ cmdQ[1] \in Commands
      /\ Len(cmdQ) \in Nat /\ Len(cmdQ) # 0
  BY <1>1
<1>3. NextCommand = cmdQ[1] /\ NextCommand \in Commands /\ NextCommand.id \in Nat
  <2>1. NextCommand = cmdQ[1] /\ NextCommand \in Commands
    BY <1>2 DEF NextCommand
  <2> QED BY <2>1, IdMaxAssumption DEF Commands
<1>4. Len(cmdQ) = 1 => cmdQ' = <<>>
  BY <1>2
<1>5. Len(cmdQ) = 2 => Len(cmdQ') = 1 /\ (cmdQ')[1] = cmdQ[2]
  BY <1>2
<1>6. 1 \in DOMAIN cmdQ
  BY <1>2
<1>7. (\A i \in DOMAIN cmdQ : cmdQ[i].type = "STOP") =>
         \A i \in DOMAIN (cmdQ') : (cmdQ')[i].type = "STOP"
  BY <1>2
<1> QED BY <1>1, <1>2, <1>3, <1>4, <1>5, <1>6, <1>7 DEF QueueTyped

\* One more event at the end.
LEMMA EventAdded ==
    ASSUME NEW S, evtQ \in Seq(S), NEW e \in S, evtQ' = Append(evtQ, e)
    PROVE  /\ Len(evtQ') = Len(evtQ) + 1 /\ (evtQ')[Len(evtQ) + 1] = e
           /\ \A i \in 1..Len(evtQ) : (evtQ')[i] = evtQ[i]
OBVIOUS

\* What a step of the chassis task does to the flags of the Mission task.
Posts == flags' \in {flags, flags \cup {"EVENT"}}

\* An event is queued, or lost because the queue is full: an empty one never is.
LEMMA PostOne ==
    ASSUME EventsTyped, NEW type \in EventTypes, NEW id \in Nat, NEW ok \in BOOLEAN,
           link_post(type, id, ok)
    PROVE  /\ EventsTyped' /\ Posts
           /\ Silent => Told(type)' /\ (evtQ')[1].ok = ok
           /\ Len(evtQ) = 1 =>
                \/ evtQ' = evtQ
                \/ /\ Len(evtQ') = 2 /\ (evtQ')[1] = evtQ[1]
                   /\ (evtQ')[2].type = type
<1> DEFINE E == [type : EventTypes, id : Nat, ok : BOOLEAN]
           e == Event(type, id, ok)
<1>1. evtQ \in Seq(E) /\ e \in E /\ e.type = type /\ e.ok = ok
  BY DEF EventsTyped, Event
<1>2. \/ Len(evtQ) < QueueDepth /\ evtQ' = Append(evtQ, e)
      \/ ~(Len(evtQ) < QueueDepth) /\ evtQ' = evtQ
  BY DEF link_post
<1> HIDE DEF E, e
<1>3. evtQ' \in Seq(E)
  BY <1>1, <1>2
<1>4. Silent => Len(evtQ') = 1 /\ (evtQ')[1] = e
  BY <1>1, <1>2, QueueDepthAssumption DEF Silent
<1>5. ASSUME evtQ' = Append(evtQ, e), Len(evtQ) = 1
      PROVE  Len(evtQ') = 2 /\ (evtQ')[1] = evtQ[1] /\ (evtQ')[2] = e
  <2>1. /\ Len(evtQ') = Len(evtQ) + 1 /\ (evtQ')[Len(evtQ) + 1] = e
        /\ \A i \in 1..Len(evtQ) : (evtQ')[i] = evtQ[i]
    BY <1>1, <1>5, EventAdded
  <2>2. (evtQ')[1] = evtQ[1]
    BY <1>5, <2>1
  <2>3. Len(evtQ') = 2 /\ (evtQ')[2] = e
    BY <1>5, <2>1
  <2> QED BY <2>2, <2>3
<1>6. Posts
  BY DEF link_post, Posts
<1> QED BY <1>1, <1>2, <1>3, <1>4, <1>5, <1>6 DEF EventsTyped, Told, E

\* STOP is confirmed, any other stray command is dropped.
LEMMA DefaultTyped ==
    ASSUME EventsTyped, NEW c, c.id \in Nat, cmd_default(c)
    PROVE  EventsTyped' /\ Posts
<1>1. CASE c.type = "STOP"
  <2>1. link_post("STOPPED", c.id, TRUE) /\ "STOPPED" \in EventTypes
    BY <1>1 DEF cmd_default, EventTypes
  <2> QED BY <2>1, PostOne
<1>2. CASE c.type # "STOP"
  BY <1>2 DEF cmd_default, EventsTyped, Posts
<1> QED BY <1>1, <1>2

\* The base rolls on without a command.
Rolls ==
    /\ UNCHANGED <<cmdQ, evtQ, flags, paused, failed, discId>> /\ cpc \in RoundStages
    /\ cpc' \in RoundStages \cup {"done", "broken"}
    /\ \/ ArcTick \/ ArcOver \/ BackAway \/ ExitFoundPaused \/ ExitOver

\* A command reaches it on its way.
Hooked ==
    /\ cpc \in {"arc", "exit"} /\ TakeCommand /\ small_disc_hook
    /\ cpc' \in RoundStages /\ discId' = discId
    /\ ArcCommand \/ ExitCommand

\* Every step of the base is of one of these kinds.
LEMMA Kinds ==
    ASSUME ChassisNext
    PROVE  \/ AwaitGo \/ RouteDone \/ LocateMoves \/ LocateEnds \/ LocatePolls
           \/ ReportArrival \/ AwaitStart \/ Rolls \/ Hooked \/ ReportRound \/ AwaitNext
<1>1. ArcTick \/ ArcOver \/ BackAway \/ ExitFoundPaused \/ ExitOver => Rolls
  BY DEF ArcTick, ArcOver, BackAway, ExitFoundPaused, ExitOver, Rolls, RoundGoesOn,
         RoundStages, linkVars, discVars
<1>2. ArcCommand \/ ExitCommand => Hooked
  BY DEF ArcCommand, ExitCommand, Hooked, RoundGoesOn, RoundStages
<1> QED BY <1>1, <1>2 DEF ChassisNext

\* Types of the chassis task and of the two queues.
LEMMA ChassisTyped ==
    ASSUME QueueTyped, EventsTyped, ChassisTypeOK, ChassisNext
    PROVE  QueueTyped' /\ EventsTyped' /\ ChassisTypeOK' /\ Posts
<1>1. /\ cpc \in ChassisStages /\ elapsed \in 0..ArcTicks /\ discId \in Nat
      /\ driving \in BOOLEAN /\ paused \in BOOLEAN /\ failed \in BOOLEAN
  BY DEF ChassisTypeOK
<1>2. ASSUME cmdQ' = cmdQ, evtQ' = evtQ, flags' = flags
      PROVE  QueueTyped' /\ EventsTyped' /\ Posts
  BY <1>2 DEF QueueTyped, EventsTyped, Posts
<1>3. TakeCommand => QueueTyped' /\ NextCommand.id \in Nat
  BY TakeOne
<1>4. SUFFICES /\ QueueTyped' /\ EventsTyped' /\ Posts
               /\ cpc' \in ChassisStages /\ elapsed' \in 0..ArcTicks /\ discId' \in Nat
               /\ driving' \in BOOLEAN /\ paused' \in BOOLEAN /\ failed' \in BOOLEAN
  BY DEF ChassisTypeOK
<1>5. CASE AwaitGo
  <2>1. EventsTyped' /\ Posts
    BY <1>3, <1>5, DefaultTyped DEF AwaitGo, EventsTyped, Posts
  <2> QED BY <1>1, <1>3, <1>5, <2>1
          DEF AwaitGo, cmd_default, ChassisStages
<1>6. CASE RouteDone \/ LocateMoves \/ LocateEnds
  BY <1>1, <1>2, <1>6
  DEF RouteDone, LocateMoves, LocateEnds, linkVars, discVars, ChassisStages,
      LocateStages
<1>7. CASE LocatePolls
  <2>1. EventsTyped' /\ Posts
    BY <1>3, <1>7, DefaultTyped DEF LocatePolls
  <2> QED BY <1>1, <1>3, <1>7, <2>1
          DEF LocatePolls, cmd_default, ChassisStages, discVars
<1>8. CASE ReportArrival
  <2>1. EventsTyped' /\ Posts
    <3>1. /\ "SMALL_DISC_READY" \in EventTypes /\ (cpc = "settle") \in BOOLEAN
          /\ link_post("SMALL_DISC_READY", discId, cpc = "settle")
      BY <1>8 DEF ReportArrival, EventTypes
    <3> QED BY <1>1, <3>1, PostOne
  <2> QED BY <1>1, <1>8, <2>1 DEF ReportArrival, ChassisStages, discVars, QueueTyped
<1>9. CASE AwaitStart
  <2>1. EventsTyped' /\ Posts
    BY <1>3, <1>9, DefaultTyped DEF AwaitStart, EventsTyped, Posts
  <2>2. 0 \in 0..ArcTicks
    BY TicksAssumption
  <2> QED BY <1>1, <1>3, <1>9, <2>1, <2>2
          DEF AwaitStart, cmd_default, ChassisStages, RoundStages, discVars
<1>10. CASE Rolls
  <2>1. elapsed' \in 0..ArcTicks /\ driving' \in BOOLEAN
    <3>1. CASE ArcTick
      BY <1>1, <3>1, TicksAssumption DEF ArcTick, Driven
    <3>2. CASE ArcOver \/ BackAway \/ ExitFoundPaused \/ ExitOver
      BY <1>1, <3>2 DEF ArcOver, BackAway, ExitFoundPaused, ExitOver, discVars
    <3> QED BY <1>10, <3>1, <3>2 DEF Rolls
  <2> QED BY <1>1, <1>2, <1>10, <2>1 DEF Rolls, ChassisStages, RoundStages
<1>11. CASE Hooked
  <2>1. /\ EventsTyped' /\ Posts
        /\ driving' \in BOOLEAN /\ paused' \in BOOLEAN /\ failed' \in BOOLEAN
    <3>0. TakeCommand /\ NextCommand.id \in Nat
      BY <1>3, <1>11 DEF Hooked
    <3>1. CASE HookStop
      BY <1>1, <3>0, <3>1, DefaultTyped DEF HookStop, cmd_default
    <3>2. CASE HookPause \/ HookResume
      <4>1. /\ "SMALL_DISC_PAUSED" \in EventTypes /\ "SMALL_DISC_RESUMED" \in EventTypes
            /\ TRUE \in BOOLEAN
            /\ \/ link_post("SMALL_DISC_PAUSED", discId, TRUE)
               \/ link_post("SMALL_DISC_RESUMED", discId, TRUE)
        BY <3>2 DEF HookPause, HookResume, EventTypes
      <4>2. EventsTyped' /\ Posts
        BY <1>1, <4>1, PostOne
      <4>3. driving' \in BOOLEAN /\ paused' \in BOOLEAN /\ failed' \in BOOLEAN
        BY <1>1, <3>2 DEF HookPause, HookResume
      <4> QED BY <4>2, <4>3
    <3>3. CASE HookOther
      BY <1>1, <3>3 DEF HookOther, EventsTyped, Posts
    <3> QED BY <1>11, <3>1, <3>2, <3>3 DEF Hooked, small_disc_hook
  <2>2. elapsed' \in 0..ArcTicks
    <3>1. CASE ExitCommand
      BY <1>1, <3>1 DEF ExitCommand
    <3>2. CASE ArcCommand
      <4>1. PollTicks \subseteq Nat
        BY TicksAssumption DEF PollTicks
      <4> QED BY <1>1, <3>2, <4>1, TicksAssumption DEF ArcCommand, Driven
    <3> QED BY <1>11, <3>1, <3>2 DEF Hooked
  <2> QED BY <1>1, <1>3, <1>11, <2>1, <2>2 DEF Hooked, ChassisStages
<1>12. CASE ReportRound
  <2>1. EventsTyped' /\ Posts
    <3>1. /\ "SMALL_DISC_FINISHED" \in EventTypes /\ (cpc = "done") \in BOOLEAN
          /\ link_post("SMALL_DISC_FINISHED", discId, cpc = "done")
      BY <1>12 DEF ReportRound, EventTypes
    <3> QED BY <1>1, <3>1, PostOne
  <2> QED BY <1>1, <1>12, <2>1 DEF ReportRound, ChassisStages, discVars, QueueTyped
<1>13. CASE AwaitNext
  <2>1. EventsTyped' /\ Posts
    BY <1>3, <1>13, DefaultTyped DEF AwaitNext, EventsTyped, Posts
  <2> QED BY <1>1, <1>3, <1>13, <2>1
          DEF AwaitNext, cmd_default, ChassisStages, discVars
<1> QED BY <1>5, <1>6, <1>7, <1>8, <1>9, <1>10, <1>11, <1>12, <1>13, Kinds

\* Where the base stands, and what a pause means, survive every step of it.
LEMMA BaseKept ==
    ASSUME BaseFits, ChassisTypeOK, ChassisNext
    PROVE  BaseFits'
<1>0. driving \in BOOLEAN /\ paused \in BOOLEAN /\ failed \in BOOLEAN
  BY DEF ChassisTypeOK
<1> USE DEF BaseFits, StillStages, RoundStages
<1>1. CASE AwaitGo
  BY <1>1 DEF AwaitGo, cmd_default
<1>2. CASE RouteDone \/ LocateMoves \/ LocateEnds
  BY <1>2 DEF RouteDone, LocateMoves, LocateEnds, LocateStages, discVars
<1>3. CASE LocatePolls
  BY <1>3 DEF LocatePolls, LocateStages, cmd_default, discVars
<1>4. CASE ReportArrival
  BY <1>4 DEF ReportArrival, discVars
<1>5. CASE AwaitStart
  BY <1>5 DEF AwaitStart, cmd_default, discVars
<1>6. CASE ArcTick
  BY <1>6 DEF ArcTick, RoundGoesOn
<1>7. CASE ArcOver \/ BackAway \/ ExitFoundPaused \/ ExitOver
  BY <1>7 DEF ArcOver, BackAway, ExitFoundPaused, ExitOver, discVars
<1>8. CASE ArcCommand
  <2>1. /\ cpc = "arc" /\ cpc' \in {"arc", "leave"}
        /\ small_disc_hook
    BY <1>8 DEF ArcCommand, RoundGoesOn
  <2>2. paused' => ~driving'
    BY <1>0, <2>1
    DEF small_disc_hook, HookStop, HookPause, HookResume, HookOther, cmd_default
  <2> QED BY <2>1, <2>2
<1>9. CASE ExitCommand
  BY <1>0, <1>9 DEF ExitCommand
<1>10. CASE ReportRound
  BY <1>10 DEF ReportRound, discVars
<1>11. CASE AwaitNext
  BY <1>11 DEF AwaitNext, cmd_default, discVars
<1> QED BY <1>1, <1>2, <1>3, <1>4, <1>5, <1>6, <1>7, <1>8, <1>9, <1>10, <1>11
        DEF ChassisNext

\* The command at the head meets a base on its way round.
LEMMA HookedFits ==
    ASSUME QueueTyped, EventsTyped, ChassisTypeOK, Hooked
    PROVE  /\ NextCommand.type = "SMALL_DISC_STOP" =>
                \/ UNCHANGED <<evtQ, paused>>
                \/ paused' /\ (Silent => Told("SMALL_DISC_PAUSED")')
           /\ NextCommand.type = "SMALL_DISC_RESUME" =>
                \/ UNCHANGED <<evtQ, paused>>
                \/ ~paused' /\ (Silent => Told("SMALL_DISC_RESUMED")')
           /\ NextCommand.type = "STOP" => paused' = paused
           /\ cpc' # "next" /\ cpc # "gone" /\ cpc' # "gone"
<1>1. small_disc_hook /\ discId \in Nat /\ "SMALL_DISC_PAUSED" # "SMALL_DISC_RESUMED"
      /\ cpc' # "next" /\ cpc # "gone" /\ cpc' # "gone"
  BY DEF Hooked, ChassisTypeOK, RoundStages
<1>2. CASE HookStop
  BY <1>1, <1>2 DEF HookStop
<1>3. CASE HookPause
  <2>1. NextCommand.type = "SMALL_DISC_STOP" /\ paused'
    BY <1>3 DEF HookPause, Mine
  <2>2. link_post("SMALL_DISC_PAUSED", discId, TRUE) /\ TRUE \in BOOLEAN
        /\ "SMALL_DISC_PAUSED" \in EventTypes
    BY <1>3 DEF HookPause, EventTypes
  <2>3. Silent => Told("SMALL_DISC_PAUSED")'
    BY <1>1, <2>2, PostOne
  <2> QED BY <1>1, <2>1, <2>3
<1>4. CASE HookResume
  <2>1. NextCommand.type = "SMALL_DISC_RESUME" /\ ~paused'
    BY <1>4 DEF HookResume, Mine
  <2>2. link_post("SMALL_DISC_RESUMED", discId, TRUE) /\ TRUE \in BOOLEAN
        /\ "SMALL_DISC_RESUMED" \in EventTypes
    BY <1>4 DEF HookResume, EventTypes
  <2>3. Silent => Told("SMALL_DISC_RESUMED")'
    BY <1>1, <2>2, PostOne
  <2> QED BY <1>1, <2>1, <2>3
<1>5. CASE HookOther
  BY <1>1, <1>5 DEF HookOther
<1> QED BY <1>1, <1>2, <1>3, <1>4, <1>5 DEF small_disc_hook

\* The report at the end of the round finds the queue empty, or behind one event.
LEMMA RoundReported ==
    ASSUME EventsTyped, ChassisTypeOK, ReportRound
    PROVE  /\ cpc \in {"done", "broken"} /\ cpc' = "gone" /\ UNCHANGED <<cmdQ, paused>>
           /\ Silent => Told("SMALL_DISC_FINISHED")'
           /\ Len(evtQ) = 1 =>
                \/ evtQ' = evtQ
                \/ /\ Len(evtQ') = 2 /\ (evtQ')[1] = evtQ[1]
                   /\ (evtQ')[2].type = "SMALL_DISC_FINISHED"
<1>1. /\ "SMALL_DISC_FINISHED" \in EventTypes /\ (cpc = "done") \in BOOLEAN
      /\ link_post("SMALL_DISC_FINISHED", discId, cpc = "done") /\ discId \in Nat
  BY DEF ReportRound, EventTypes, ChassisTypeOK
<1>2. /\ Silent => Told("SMALL_DISC_FINISHED")'
      /\ Len(evtQ) = 1 =>
                \/ evtQ' = evtQ
                \/ /\ Len(evtQ') = 2 /\ (evtQ')[1] = evtQ[1]
                   /\ (evtQ')[2].type = "SMALL_DISC_FINISHED"
  BY <1>1, PostOne
<1> QED BY <1>2 DEF ReportRound, discVars

\* Without a command the base only moves on by itself.
LEMMA QuietKinds ==
    ASSUME ChassisNext, Quiet
    PROVE  \/ RouteDone \/ LocateMoves \/ LocateEnds \/ ReportArrival \/ Rolls
           \/ ReportRound
BY Kinds DEF Quiet, TakeCommand, AwaitGo, LocatePolls, AwaitStart, Hooked, AwaitNext

-----------------------------------------------------------------------------
(* One meeting after the other, a step of the base on.                     *)

\* What all of them need of the rest of the invariant.
Typed == QueueTyped /\ EventsTyped /\ ChassisTypeOK /\ BaseFits

\* On the way to the disc the base reads the one command it was sent, or reports.
LEMMA ArrivingKept ==
    ASSUME Typed, ChassisNext, Arriving
    PROVE  Arriving'
<1>1. CASE Asked("GO_SMALL_DISC") /\ cpc = "await" /\ Silent
  <2>1. AwaitGo
    BY <1>1, Kinds
    DEF RouteDone, LocateMoves, LocateEnds, LocatePolls, LocateStages, ReportArrival,
        AwaitStart, Rolls, RoundStages, Hooked, ReportRound, AwaitNext
  <2>2. NextCommand = cmdQ[1] /\ (Len(cmdQ) = 1 => cmdQ' = <<>>)
    BY <2>1, TakeOne DEF AwaitGo, Typed
  <2>3. cpc' = "route" /\ evtQ' = evtQ /\ cmdQ' = <<>>
    BY <1>1, <2>1, <2>2 DEF AwaitGo, Asked
  <2> QED BY <1>1, <2>3 DEF Arriving, Quiet, Silent
<1>2. CASE Quiet /\ cpc \in {"route", "lost", "settle"} \cup LocateStages /\ Silent
  <2>1. CASE RouteDone \/ LocateMoves \/ LocateEnds
    BY <1>2, <2>1
    DEF RouteDone, LocateMoves, LocateEnds, LocateStages, Arriving, Quiet, Silent,
        linkVars
  <2>2. CASE ReportArrival
    <3>1. /\ "SMALL_DISC_READY" \in EventTypes /\ (cpc = "settle") \in BOOLEAN
          /\ link_post("SMALL_DISC_READY", discId, cpc = "settle") /\ discId \in Nat
      BY <2>2 DEF ReportArrival, EventTypes, ChassisTypeOK, Typed
    <3>2. Told("SMALL_DISC_READY")' /\ (evtQ')[1].ok = (cpc = "settle")
      BY <1>2, <3>1, PostOne DEF Typed
    <3>3. cmdQ' = cmdQ /\ cpc' = IF cpc = "settle" THEN "start" ELSE "gone"
      BY <2>2 DEF ReportArrival
    <3>4. CASE cpc = "settle"
      BY <1>2, <3>2, <3>3, <3>4 DEF Arriving, Quiet
    <3>5. CASE cpc # "settle"
      <4>1. Quiet' /\ Gone' /\ Told("SMALL_DISC_READY")' /\ ~(evtQ')[1].ok
        BY <1>2, <3>2, <3>3, <3>5 DEF Quiet, Gone
      <4> QED BY <4>1 DEF Arriving
    <3> QED BY <3>4, <3>5
  <2> QED BY <1>2, <2>1, <2>2, QuietKinds DEF Rolls, RoundStages, ReportRound, LocateStages
<1>3. CASE Quiet /\ cpc \in {"start", "gone"}
  BY <1>3, QuietKinds
  DEF RouteDone, LocateMoves, LocateEnds, LocateStages, ReportArrival, Rolls,
      RoundStages, ReportRound
<1> QED BY <1>1, <1>2, <1>3 DEF Arriving, Gone

\* A base that stands at the start or has gone waits for a command.
LEMMA Waits ==
    ASSUME ChassisNext, Quiet, cpc \in {"start", "gone", "next"}
    PROVE  FALSE
BY QuietKinds
DEF RouteDone, LocateMoves, LocateEnds, LocateStages, ReportArrival, Rolls,
    RoundStages, ReportRound

\* The base comes round by itself.
LEMMA GoingKept ==
    ASSUME Typed, ChassisNext, Quiet, Going
    PROVE  /\ Quiet'
           /\ \/ Going' /\ evtQ' = evtQ
              \/ /\ Gone'
                 /\ Silent => Told("SMALL_DISC_FINISHED")'
                 /\ Len(evtQ) = 1 =>
                      \/ evtQ' = evtQ
                      \/ /\ Len(evtQ') = 2 /\ (evtQ')[1] = evtQ[1]
                         /\ (evtQ')[2].type = "SMALL_DISC_FINISHED"
<1>1. CASE Rolls
  BY <1>1 DEF Rolls, Going, Quiet
<1>2. CASE ReportRound
  BY <1>2, RoundReported DEF Typed, Quiet, Gone
<1> QED BY <1>1, <1>2, QuietKinds
        DEF Going, RouteDone, LocateMoves, LocateEnds, LocateStages, ReportArrival,
            RoundStages

\* A paused base stays paused, wherever it rolls on.
LEMMA PausedKept ==
    ASSUME Typed, ChassisNext, Quiet, paused, cpc # "next"
    PROVE  /\ Quiet' /\ paused' /\ cpc' # "next"
           /\ \/ evtQ' = evtQ /\ cpc # "gone" /\ cpc' # "gone"
              \/ /\ cpc # "gone" /\ Gone'
                 /\ Silent => Told("SMALL_DISC_FINISHED")'
                 /\ Len(evtQ) = 1 =>
                      \/ evtQ' = evtQ
                      \/ /\ Len(evtQ') = 2 /\ (evtQ')[1] = evtQ[1]
                         /\ (evtQ')[2].type = "SMALL_DISC_FINISHED"
<1>1. CASE Rolls
  BY <1>1 DEF Rolls, Quiet, RoundStages
<1>2. CASE ReportRound
  BY <1>2, RoundReported DEF Typed, Quiet, Gone
<1> QED BY <1>1, <1>2, QuietKinds
        DEF Typed, BaseFits, RoundStages, RouteDone, LocateMoves, LocateEnds,
            LocateStages, ReportArrival

\* Held on its way, the base says no more than that the round is over.
LEMMA HeldKept ==
    ASSUME Typed, ChassisNext, Quiet, Held
    PROVE  Quiet' /\ Held'
<1>1. Silent /\ cpc # "gone" /\ paused /\ cpc # "next"
  BY Waits DEF Held, Gone
<1>2. /\ Quiet' /\ paused' /\ cpc' # "next"
      /\ \/ Silent' \/ (Gone' /\ Told("SMALL_DISC_FINISHED")')
  BY <1>1, PausedKept DEF Silent
<1> QED BY <1>2 DEF Held, Finishing, Gone

\* From its start to the end of the circle the base says nothing before it is over.
LEMMA CirclingKept ==
    ASSUME Typed, ChassisNext, Circling
    PROVE  Circling'
<1>1. CASE Asked("SMALL_DISC_START") /\ cpc = "start" /\ Silent
  <2>1. AwaitStart
    BY <1>1, Kinds
    DEF RouteDone, LocateMoves, LocateEnds, LocatePolls, LocateStages, ReportArrival,
        AwaitGo, Rolls, RoundStages, Hooked, ReportRound, AwaitNext
  <2>2. NextCommand = cmdQ[1] /\ (Len(cmdQ) = 1 => cmdQ' = <<>>)
    BY <2>1, TakeOne DEF AwaitStart, Typed
  <2>3. cpc' = "arc" /\ evtQ' = evtQ /\ cmdQ' = <<>> /\ paused' = FALSE
    BY <1>1, <2>1, <2>2 DEF AwaitStart, Asked
  <2> QED BY <1>1, <2>3 DEF Circling, Quiet, Silent, Going, RoundStages
<1>2. CASE Quiet /\ Going /\ Silent
  <2>1. Quiet' /\ ((Going' /\ Silent') \/ (Gone' /\ Told("SMALL_DISC_FINISHED")'))
    BY <1>2, GoingKept DEF Silent
  <2> QED BY <2>1 DEF Circling, Finishing
<1>3. CASE Quiet /\ Gone
  BY <1>3, Waits DEF Gone
<1> QED BY <1>1, <1>2, <1>3 DEF Circling

\* A base on its way round with a command queued for it: it rolls on, reads the
\* command, or reports the end of the round first.
LEMMA GoingKinds ==
    ASSUME ChassisNext, cpc \in RoundStages \cup {"done", "broken"}
    PROVE  Rolls \/ Hooked \/ ReportRound
BY Kinds
DEF RoundStages, AwaitGo, RouteDone, LocateMoves, LocateEnds, LocatePolls,
    LocateStages, ReportArrival, AwaitStart, AwaitNext

\* Wherever the pause meets the base, it is answered once, dropped, or too late.
LEMMA PausingKept ==
    ASSUME Typed, ChassisNext, Pausing
    PROVE  Pausing'
<1>1. CASE StartAndStop /\ cpc = "start" /\ Silent
  <2>1. AwaitStart
    BY <1>1, Kinds
    DEF RouteDone, LocateMoves, LocateEnds, LocatePolls, LocateStages, ReportArrival,
        AwaitGo, Rolls, RoundStages, Hooked, ReportRound, AwaitNext
  <2>2. /\ NextCommand = cmdQ[1]
        /\ Len(cmdQ) = 2 => Len(cmdQ') = 1 /\ (cmdQ')[1] = cmdQ[2]
    BY <2>1, TakeOne DEF AwaitStart, Typed
  <2>3. /\ cpc' = "arc" /\ evtQ' = evtQ /\ paused' = FALSE
        /\ Asked("SMALL_DISC_STOP")'
    BY <1>1, <2>1, <2>2 DEF AwaitStart, StartAndStop, Asked
  <2> QED BY <1>1, <2>3 DEF Pausing, Silent, Going, RoundStages
<1>2. CASE Quiet /\ Going /\ Silent
  <2>1. Quiet' /\ ((Going' /\ Silent') \/ (Gone' /\ Finishing'))
    BY <1>2, GoingKept DEF Silent, Finishing
  <2> QED BY <2>1 DEF Pausing
<1>3. CASE Asked("SMALL_DISC_STOP") /\ Going /\ Silent
  <2>1. CASE Rolls
    <3>1. Asked("SMALL_DISC_STOP")' /\ Going' /\ Silent'
      BY <1>3, <2>1 DEF Rolls, Asked, Going, Silent
    <3> QED BY <3>1 DEF Pausing
  <2>2. CASE ReportRound
    <3>1. Asked("SMALL_DISC_STOP")' /\ Gone' /\ Finishing'
      BY <1>3, <2>2, RoundReported DEF Typed, Asked, Gone, Finishing
    <3> QED BY <3>1 DEF Pausing
  <2>3. CASE Hooked
    <3>1. /\ NextCommand = cmdQ[1] /\ (Len(cmdQ) = 1 => cmdQ' = <<>>)
      BY <2>3, TakeOne DEF Hooked, Typed
    <3>2. NextCommand.type = "SMALL_DISC_STOP" /\ Quiet'
      BY <1>3, <3>1 DEF Asked, Quiet
    <3>3. /\ cpc' \in RoundStages /\ cpc' # "next"
          /\ \/ UNCHANGED <<evtQ, paused>>
             \/ paused' /\ Told("SMALL_DISC_PAUSED")'
      BY <1>3, <2>3, <3>2, HookedFits DEF Typed, Hooked
    <3>4. CASE UNCHANGED <<evtQ, paused>>
      <4>1. Going' /\ Silent'
        BY <1>3, <3>3, <3>4 DEF Going, Silent
      <4> QED BY <3>2, <4>1 DEF Pausing
    <3>5. CASE paused' /\ Told("SMALL_DISC_PAUSED")'
      BY <3>2, <3>3, <3>5 DEF Pausing
    <3> QED BY <3>3, <3>4, <3>5
  <2> QED BY <1>3, <2>1, <2>2, <2>3, GoingKinds DEF Going
<1>4. CASE Asked("SMALL_DISC_STOP") /\ Gone /\ Finishing
  <2>1. AwaitNext
    BY <1>4, Kinds
    DEF Gone, AwaitGo, RouteDone, LocateMoves, LocateEnds, LocatePolls, LocateStages,
        ReportArrival, AwaitStart, Rolls, RoundStages, Hooked, ReportRound
  <2>2. NextCommand = cmdQ[1] /\ (Len(cmdQ) = 1 => cmdQ' = <<>>)
    BY <2>1, TakeOne DEF AwaitNext, Typed
  <2>3. cpc' = cpc /\ evtQ' = evtQ /\ cmdQ' = <<>>
    BY <1>4, <2>1, <2>2 DEF AwaitNext, Asked, cmd_default
  <2>4. Quiet' /\ Gone' /\ Finishing'
    BY <1>4, <2>3 DEF Quiet, Gone, Finishing, Silent, Told
  <2> QED BY <2>4 DEF Pausing
<1>5. CASE Quiet /\ Gone
  BY <1>5, Waits DEF Gone
<1>6. CASE Quiet /\ paused /\ cpc # "next" /\ ~Gone /\ Told("SMALL_DISC_PAUSED")
  <2>1. Len(evtQ) = 1 /\ evtQ[1].type = "SMALL_DISC_PAUSED"
    BY <1>6 DEF Told
  <2>2. /\ Quiet' /\ paused' /\ cpc' # "next"
        /\ \/ evtQ' = evtQ
           \/ /\ Gone' /\ Len(evtQ') = 2 /\ (evtQ')[1] = evtQ[1]
              /\ (evtQ')[2].type = "SMALL_DISC_FINISHED"
    BY <1>6, <2>1, PausedKept
  <2> QED BY <2>1, <2>2 DEF Pausing, Told
<1>7. CASE Quiet /\ Held
  <2>1. Quiet' /\ Held'
    BY <1>7, HeldKept
  <2> QED BY <2>1 DEF Pausing
<1> QED BY <1>1, <1>2, <1>3, <1>4, <1>5, <1>6, <1>7 DEF Pausing

\* The base goes on once, or has gone already.
LEMMA ResumingKept ==
    ASSUME Typed, ChassisNext, Resuming
    PROVE  Resuming'
<1>1. CASE Quiet /\ Held
  <2>1. Quiet' /\ Held'
    BY <1>1, HeldKept
  <2> QED BY <2>1 DEF Resuming
<1>2. CASE Asked("SMALL_DISC_RESUME") /\ Held /\ Gone
  <2>1. AwaitNext
    BY <1>2, Kinds
    DEF Gone, AwaitGo, RouteDone, LocateMoves, LocateEnds, LocatePolls, LocateStages,
        ReportArrival, AwaitStart, Rolls, RoundStages, Hooked, ReportRound
  <2>2. NextCommand = cmdQ[1] /\ (Len(cmdQ) = 1 => cmdQ' = <<>>)
    BY <2>1, TakeOne DEF AwaitNext, Typed
  <2>3. cpc' = cpc /\ evtQ' = evtQ /\ cmdQ' = <<>> /\ paused' = paused
    BY <1>2, <2>1, <2>2 DEF AwaitNext, Asked, cmd_default, discVars
  <2>4. Quiet' /\ Held'
    BY <1>2, <2>3 DEF Quiet, Held, Gone, Finishing, Silent, Told
  <2> QED BY <2>4 DEF Resuming
<1>3. CASE Asked("SMALL_DISC_RESUME") /\ Held /\ ~Gone
  <2>0. paused /\ cpc # "next" /\ Silent /\ cpc # "gone"
    BY <1>3 DEF Held, Gone
  <2>1. CASE Rolls
    <3>1. Asked("SMALL_DISC_RESUME")' /\ paused' /\ Silent' /\ cpc' # "next"
      BY <1>3, <2>0, <2>1 DEF Rolls, Asked, Silent, RoundStages
    <3> QED BY <3>1 DEF Resuming, Held
  <2>2. CASE ReportRound
    <3>1. Asked("SMALL_DISC_RESUME")' /\ Gone' /\ Finishing' /\ paused'
      BY <1>3, <2>0, <2>2, RoundReported DEF Typed, Asked, Gone, Finishing
    <3>2. cpc' # "next"
      BY <3>1 DEF Gone
    <3> QED BY <3>1, <3>2 DEF Resuming, Held
  <2>3. CASE Hooked
    <3>1. /\ NextCommand = cmdQ[1] /\ (Len(cmdQ) = 1 => cmdQ' = <<>>)
      BY <2>3, TakeOne DEF Hooked, Typed
    <3>2. NextCommand.type = "SMALL_DISC_RESUME" /\ Quiet'
      BY <1>3, <3>1 DEF Asked, Quiet
    <3>3. /\ cpc' \in RoundStages /\ cpc' # "next"
          /\ \/ UNCHANGED <<evtQ, paused>>
             \/ ~paused' /\ Told("SMALL_DISC_RESUMED")'
      BY <2>0, <2>3, <3>2, HookedFits DEF Typed, Hooked
    <3>4. CASE UNCHANGED <<evtQ, paused>>
      <4>1. Held'
        BY <2>0, <3>3, <3>4 DEF Held, Silent
      <4> QED BY <3>2, <4>1 DEF Resuming
    <3>5. CASE ~paused' /\ Told("SMALL_DISC_RESUMED")'
      <4>1. Going'
        BY <3>3, <3>5 DEF Going
      <4> QED BY <3>2, <3>5, <4>1 DEF Resuming
    <3> QED BY <3>3, <3>4, <3>5
  <2>4. cpc \in RoundStages \cup {"done", "broken"}
    BY <2>0 DEF Typed, BaseFits
  <2> QED BY <2>1, <2>2, <2>3, <2>4, GoingKinds
<1>4. CASE Quiet /\ Going /\ Silent
  <2>1. Quiet' /\ ((Going' /\ Silent') \/ (Gone' /\ Finishing'))
    BY <1>4, GoingKept DEF Silent, Finishing
  <2> QED BY <2>1 DEF Resuming
<1>5. CASE Quiet /\ Going /\ Told("SMALL_DISC_RESUMED")
  <2>1. Len(evtQ) = 1 /\ evtQ[1].type = "SMALL_DISC_RESUMED"
    BY <1>5 DEF Told
  <2>2. /\ Quiet'
        /\ \/ Going' /\ evtQ' = evtQ
           \/ Gone' /\ evtQ' = evtQ
           \/ /\ Gone' /\ Len(evtQ') = 2 /\ (evtQ')[1] = evtQ[1]
              /\ (evtQ')[2].type = "SMALL_DISC_FINISHED"
    BY <1>5, <2>1, GoingKept
  <2> QED BY <2>1, <2>2 DEF Resuming, Told
<1>6. CASE Quiet /\ Gone
  BY <1>6, Waits DEF Gone
<1> QED BY <1>1, <1>2, <1>3, <1>4, <1>5, <1>6 DEF Resuming

\* A base that has gone takes the command to the depot.
LEMMA LeavingKept ==
    ASSUME Typed, ChassisNext, Leaving
    PROVE  Leaving'
<1>1. CASE Quiet /\ cpc \in {"gone", "next"}
  BY <1>1, Waits
<1>2. CASE Asked("GO_DEPOT_1") /\ Gone /\ Silent
  <2>1. AwaitNext
    BY <1>2, Kinds
    DEF Gone, AwaitGo, RouteDone, LocateMoves, LocateEnds, LocatePolls, LocateStages,
        ReportArrival, AwaitStart, Rolls, RoundStages, Hooked, ReportRound
  <2>2. NextCommand = cmdQ[1] /\ (Len(cmdQ) = 1 => cmdQ' = <<>>)
    BY <2>1, TakeOne DEF AwaitNext, Typed
  <2>3. cpc' = "next" /\ evtQ' = evtQ /\ cmdQ' = <<>>
    BY <1>2, <2>1, <2>2 DEF AwaitNext, Asked
  <2> QED BY <1>2, <2>3 DEF Leaving, Quiet, Silent
<1> QED BY <1>1, <1>2 DEF Leaving

\* Whatever the run has agreed with the base, a step of the base keeps it.
LEMMA RendezvousKept ==
    ASSUME Typed, ChassisNext, state' = state, Rendezvous(state)
    PROVE  Rendezvous(state)'
<1>1. AtStart => FALSE
  BY Waits DEF AtStart
<1>2. Finished => FALSE
  BY Waits DEF Finished, Gone
<1>3. Holding => Holding'
  BY HeldKept DEF Holding
<1> QED BY <1>1, <1>2, <1>3, ArrivingKept, CirclingKept, PausingKept, ResumingKept,
           LeavingKept
        DEF Rendezvous

\* At rest nothing moves a parked base: only STOP is queued for it.
LEMMA ParkedKept ==
    ASSUME Typed, ChassisNext, Parked, \A i \in DOMAIN cmdQ : cmdQ[i].type = "STOP"
    PROVE  Parked' /\ \A i \in DOMAIN (cmdQ') : (cmdQ')[i].type = "STOP"
<1>1. ASSUME TakeCommand
      PROVE  /\ \A i \in DOMAIN (cmdQ') : (cmdQ')[i].type = "STOP"
             /\ NextCommand.type = "STOP"
  BY <1>1, TakeOne DEF Typed
<1>2. cmdQ' = cmdQ \/ TakeCommand
  BY Kinds
  DEF AwaitGo, RouteDone, LocateMoves, LocateEnds, LocatePolls, ReportArrival,
      AwaitStart, Rolls, Hooked, ReportRound, AwaitNext, linkVars
<1>3. Parked'
  <2>1. CASE cpc \in {"start", "gone"}
    <3>1. AwaitStart \/ AwaitNext
      BY <2>1, Kinds
      DEF AwaitGo, RouteDone, LocateMoves, LocateEnds, LocatePolls, LocateStages,
          ReportArrival, Rolls, RoundStages, Hooked, ReportRound
    <3> QED BY <1>1, <2>1, <3>1 DEF AwaitStart, AwaitNext, Parked
  <2>2. CASE paused /\ cpc \notin {"start", "gone"}
    <3>1. CASE cpc = "next"
      BY <3>1, Kinds
      DEF AwaitGo, RouteDone, LocateMoves, LocateEnds, LocatePolls, LocateStages,
          ReportArrival, Rolls, RoundStages, Hooked, ReportRound, AwaitStart, AwaitNext
    <3>2. CASE cpc # "next"
      <4>1. cpc \in RoundStages \cup {"broken"}
        BY <2>2, <3>2 DEF Typed, BaseFits
      <4>2. CASE Rolls \/ ReportRound
        BY <2>2, <4>2 DEF Rolls, ReportRound, Parked, discVars
      <4>3. CASE Hooked
        <5>1. NextCommand.type = "STOP"
          BY <1>1, <4>3 DEF Hooked
        <5> QED BY <2>2, <4>3, <5>1, HookedFits DEF Typed, Parked
      <4> QED BY <4>1, <4>2, <4>3, GoingKinds
    <3> QED BY <3>1, <3>2
  <2> QED BY <2>1, <2>2 DEF Parked
<1> QED BY <1>1, <1>2, <1>3

\* A step of the base changes nothing that Mission keeps for itself.
LEMMA ChassisStep ==
    ASSUME DiscInv, Chassis
    PROVE  DiscInv'
<1>0. Own /\ Mail /\ EventsTyped /\ ChassisTypeOK /\ BaseFits /\ QueueTyped
  BY Regroup DEF DiscInv, Own, Mail, CtxTyped
<1>1. /\ ChassisNext /\ UNCHANGED <<state, fault, requestId, activeArm, armHome, vis, arm>>
      /\ UNCHANGED <<userQ, stops, got, pc, balls>>
  BY DEF Chassis, loopVars
<1>2. Typed
  BY <1>0 DEF Typed
<1>3. QueueTyped' /\ EventsTyped' /\ ChassisTypeOK' /\ Posts
  BY <1>0, <1>1, ChassisTyped
<1>4. BaseFits'
  BY <1>0, <1>1, BaseKept
<1>5. MeetFits'
  <2>1. CASE state \notin RestStates
    BY <1>1, <1>2, <2>1, RendezvousKept DEF DiscInv, MeetFits
  <2>2. CASE state \in RestStates
    BY <1>1, <1>2, <2>2, ParkedKept DEF DiscInv, MeetFits
  <2> QED BY <2>1, <2>2
<1>6. SessionFits' /\ ArmFits'
  BY <1>1, <1>3 DEF DiscInv, SessionFits, ArmFits, OkSignalled, OkSeen, Posts
<1>7. Own'
  BY <1>0, <1>1, <1>3
  DEF Own, Mail, CtxTyped, SafeRecord, StopNoted, LoopTyped, DoneMeansAnswered,
      DoneSeen, Answered, Posts, FlagNames, StoreInHandler
<1> QED BY <1>3, <1>4, <1>5, <1>6, <1>7, Regroup DEF DiscInv

-----------------------------------------------------------------------------
(* The theorems.                                                           *)

\* The stage begins with GO_SMALL_DISC queued.
LEMMA InitDisc == DiscInit => DiscInv
<1> SUFFICES ASSUME DiscInit PROVE DiscInv
  OBVIOUS
<1>0. /\ state = "WAIT_SMALL_DISC" /\ fault = "NONE" /\ requestId = FirstId
      /\ activeArm = 18 /\ armHome = FALSE /\ arm = 0 /\ vis = IdleVision
      /\ cmdQ = <<Command("GO_SMALL_DISC", FirstId)>>
      /\ userQ = 0 /\ stops = 0 /\ got = {} /\ pc = "wait" /\ balls = 0
      /\ evtQ = <<>> /\ flags = {} /\ cpc = "await" /\ driving = FALSE
      /\ elapsed = 0 /\ paused = FALSE /\ failed = FALSE /\ discId = 0
  BY DEF DiscInit, LinkInit, ChassisInit
<1>1. SafeRecord(vis) /\ StopNoted(vis)
  BY <1>0 DEF IdleVision, SafeRecord, StopNoted, VisionType, Phases, Scenes, Frames,
              Mails, Busy
<1>2. QueueTyped
  <2>1. Command("GO_SMALL_DISC", FirstId) \in Commands
    BY FirstIdAssumption DEF Command, Commands, CommandTypes
  <2> QED BY <1>0, <2>1 DEF QueueTyped
<1>3. CtxTyped(DiscStates) /\ LoopTyped
  <2>1. /\ state \in DiscStates /\ fault \in Faults /\ activeArm \in Groups
        /\ pc \in LoopStages
    BY <1>0 DEF DiscStates, Faults, Groups, LoopStages
  <2>2. requestId \in 1..IdMax /\ userQ \in 0..CommandDepth /\ stops \in 0..StopBudget
    BY <1>0, FirstIdAssumption, BudgetAssumption
  <2>3. flags \subseteq FlagNames /\ got \subseteq FlagNames
    BY <1>0
  <2> QED BY <1>0, <1>2, <2>1, <2>2, <2>3 DEF CtxTyped, LoopTyped
<1>4. DoneMeansAnswered /\ StoreInHandler
  BY <1>0 DEF DoneMeansAnswered, DoneSeen, StoreInHandler
<1>5. ChassisTypeOK
  <2>1. 0 \in 0..ArcTicks
    BY TicksAssumption
  <2> QED BY <1>0, <2>1 DEF ChassisTypeOK, ChassisStages
<1>6. EventsTyped
  BY <1>0 DEF EventsTyped
<1>7. ControlInv
  BY <1>0, <1>1, <1>2, <1>3, <1>4, <1>5, <1>6
  DEF ControlInv, TypeOK, CoreTypeOK, CtxTyped, LoopTyped, SafeRecord, EventsTyped,
      DiscStates
<1>8. BaseFits
  BY <1>0 DEF BaseFits
<1>9. MeetFits
  <2>1. Arriving
    BY <1>0 DEF Arriving, Asked, Silent, Command
  <2> QED BY <1>0, <2>1 DEF MeetFits, Rendezvous, RestStates
<1>10. SessionFits
  BY <1>0, BallAssumption DEF SessionFits, PhasesOf, IdleVision
<1>11. ArmFits
  BY <1>0 DEF ArmFits, OkSignalled, OkSeen
<1> QED BY <1>7, <1>8, <1>9, <1>10, <1>11 DEF DiscInv

\* One step per process and handler.
LEMMA NextKeeps ==
    ASSUME DiscInv, [Next]_vars
    PROVE  DiscInv'
<1>1. CASE UNCHANGED vars
  <2>1. /\ UNCHANGED <<ctxVars, evtQ, flags, userQ, stops, got, pc, balls, chassisVars>>
        /\ UNCHANGED <<state, fault, requestId, activeArm, armHome, vis, arm, cmdQ>>
    BY <1>1 DEF vars, ctxVars, loopVars
  <2>2. Own /\ EventsTyped /\ ChassisTypeOK /\ BaseFits
    BY Regroup DEF DiscInv
  <2>3. Own' /\ EventsTyped' /\ ChassisTypeOK' /\ BaseFits'
    BY <2>1, <2>2
    DEF Own, Mail, CtxTyped, QueueTyped, SafeRecord, StopNoted, EventsTyped,
        ChassisTypeOK, BaseFits, chassisVars, discVars, LoopTyped, DoneMeansAnswered,
        DoneSeen, Answered, StoreInHandler
  <2>4. MeetFits' /\ SessionFits' /\ ArmFits'
    BY <2>1, MeetKept DEF DiscInv, SessionFits, ArmFits, OkSignalled, OkSeen
  <2> QED BY <2>3, <2>4, Regroup DEF DiscInv
<1>2. CASE MissionLoop /\ UNCHANGED <<balls, chassisVars>>
  <2>0. UNCHANGED <<balls, chassisVars>>
    BY <1>2
  <2>1. CASE HandleCommand
    BY <2>0, <2>1, CommandStep
  <2>2. CASE ReadNext \/ CheckTimeout(Timed)
    BY <2>0, <2>2, ProcessStep
  <2>3. CASE AckProcessed
    BY <2>0, <2>3, AckProcessedStep
  <2> QED BY <1>2, <2>0, <2>1, <2>2, <2>3, LoopStep DEF MissionLoop
<1>3. CASE HandleChassis \/ ArmFail \/ ArmOk
  BY <1>3, ChassisEvent, ArmReport
<1>4. CASE BeginStore \/ StoreDone \/ StoreFailed \/ StoreSeesStop \/ StoreGivesUp
  BY <1>4, BeginStoreStep, StoreDoneStep, StoreEnds, CommandStep
<1>5. CASE HandleVision
  BY <1>5, VisionStep
<1>6. CASE Chassis \/ World
  BY <1>6, ChassisStep, WorldStep
<1> QED BY <1>1, <1>2, <1>3, <1>4, <1>5, <1>6 DEF Next, Mission, Over

\* Mission and the base never lose track of each other on the disc: whatever
\* balls, pauses, STOPs, failures and deadlines do, the commands and events
\* under way are ones the other side waits for.
THEOREM DiscIsConsistent == Spec => []DiscInv
<1>1. DiscInv /\ [Next]_vars => DiscInv'
  BY NextKeeps
<1> QED BY InitDisc, <1>1, PTL DEF Spec

\* Every variable of the stage keeps its type.
THEOREM DiscTypes == Spec => []TypeOK
<1>1. DiscInv => TypeOK
  BY DEF DiscInv, ControlInv
<1> QED BY DiscIsConsistent, <1>1, PTL

\* While the arm moves the base stands: at the start, paused, or gone; the one
\* exception is a pause that fell into the end of the circle.
THEOREM ArmClear == Spec => []ArmMovesOnlyWhenParked
<1>1. DiscInv => ArmMovesOnlyWhenParked
  <2> SUFFICES ASSUME DiscInv, arm # 0, driving
               PROVE  paused /\ cpc \in {"exit", "break"}
    BY DEF ArmMovesOnlyWhenParked
  <2>1. Parked /\ BaseFits
    BY ArmMeansParked DEF DiscInv
  <2> QED BY <2>1 DEF Parked, BaseFits, StillStages
<1> QED BY DiscIsConsistent, <1>1, PTL

\* While balls are wanted the base circles under Nano's eyes, but for the
\* moment between a ball and the pause it asks for.
THEOREM NeverBlind == Spec => []NoBlindRound
<1>1. DiscInv => NoBlindRound
  <2> SUFFICES ASSUME DiscInv, driving, cpc = "arc", balls < BallLimit,
                      state \notin RestStates, state # "SMALL_DISC_WAIT_PAUSE"
               PROVE  /\ vis.phase \in {"LISTENING", "ACKING"}
                      /\ vis.scene = "SMALL_DISC"
    BY DEF NoBlindRound
  <2>1. ~paused /\ cpc = "arc" /\ Rendezvous(state)
    BY DEF DiscInv, BaseFits, MeetFits
  <2>2. /\ ~Arriving /\ ~AtStart /\ ~Holding /\ ~Finished /\ ~Leaving
    BY <2>1
    DEF Arriving, AtStart, Holding, Held, Finished, Leaving, Gone, LocateStages
  <2>3. state \in {"SMALL_DISC_RUNNING", "SMALL_DISC_WAIT_RESUME"}
    BY <2>1, <2>2 DEF Rendezvous
  <2> QED BY <2>3 DEF DiscInv, SessionFits, PhasesOf
<1> QED BY DiscIsConsistent, <1>1, PTL
=============================================================================

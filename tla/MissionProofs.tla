---------------------------- MODULE MissionProofs ----------------------------
(***************************************************************************)
(* What each building block of MissionCore does to the context of the      *)
(* Mission task, in a stage whose own states are S: lemmas for the proofs  *)
(* of the stages.                                                          *)
(***************************************************************************)
EXTENDS MissionInv, TLAPS

\* What a handler of the Mission task may change, and its type.
CtxTyped(S) ==
    /\ state \in S \cup RestStates /\ fault \in Faults
    /\ requestId \in 1..IdMax
    /\ activeArm \in Groups \cup {0} /\ arm \in Groups \cup {0}
    /\ armHome \in BOOLEAN
    /\ QueueTyped

Contexts == [vis : VisionType, id : 1..IdMax, active : Groups \cup {0}]

\* A handler that ends the run, or finds it ended, leaves it at rest: it halts
\* the arm at most and sends nothing but STOP.
Rested ==
    /\ state' \in RestStates /\ arm' \in {0, arm} /\ (armHome' => armHome)
    /\ cmdQ' = cmdQ \/ \E id \in 1..IdMax : cmdQ' = Sent("STOP", id)

\* The command queue did not grow, or by a STOP.
StopOnly == Len(cmdQ') > Len(cmdQ) => (cmdQ')[Len(cmdQ')].type = "STOP"

\* What every handler leaves behind, from the record v it worked on.
Handled(S, v) ==
    /\ CtxTyped(S)' /\ SafeRecord(vis') /\ StopNoted(vis)'
    /\ Answered(v) => Answered(vis')

-----------------------------------------------------------------------------
(* The vision record.                                                      *)

\* A transfer is only submitted when the buffer is free, and a refused one
\* leaves it free.
LEMMA SubmitSafe ==
    ASSUME NEW v \in VisionType, NEW op \in {"START", "STOP", "ACK", "READ"},
           NEW ok \in submit_results(v),
           ~Busy(v), v.phase # "IDLE", v.scene # "NONE"
    PROVE  LET x == mission_submit_vision_transfer(v, op, ok) IN
           /\ SafeRecord(x)
           /\ x.phase = v.phase /\ x.scene = v.scene
           /\ x.stopReq = v.stopReq
           /\ ~ok => ~Busy(x)
<1> DEFINE x == mission_submit_vision_transfer(v, op, ok)
<1>0. ok \in BOOLEAN
  BY DEF submit_results
<1>1. CASE op = "READ" /\ ok
  <2>1. x = [v EXCEPT !.inflight = TRUE, !.io = op]
    BY <1>1 DEF mission_submit_vision_transfer, framed
  <2> QED BY <1>1, <2>1 DEF VisionType, SafeRecord, Busy
<1>2. CASE op = "READ" /\ ~ok
  BY <1>2 DEF mission_submit_vision_transfer, framed, SafeRecord, Busy
<1>3. CASE op # "READ" /\ ok
  <2>1. x = [[v EXCEPT !.tx = op] EXCEPT !.inflight = TRUE, !.io = op]
    BY <1>3 DEF mission_submit_vision_transfer, framed
  <2> QED BY <1>3, <2>1 DEF VisionType, SafeRecord, Busy, Frames
<1>4. CASE op # "READ" /\ ~ok
  <2>1. x = [v EXCEPT !.tx = op]
    BY <1>4 DEF mission_submit_vision_transfer, framed
  <2> QED BY <1>4, <2>1 DEF VisionType, SafeRecord, Busy, Frames
<1> QED BY <1>0, <1>1, <1>2, <1>3, <1>4

\* Whatever mission_stop_vision answers, an opening session has its stop noted
\* and a reply in the mailbox stays there.
LEMMA StopSafe ==
    ASSUME NEW v, SafeRecord(v), NEW r \in mission_stop_vision(v)
    PROVE  /\ SafeRecord(r.vis)
           /\ r.vis.phase = "STARTING" => r.vis.stopReq
           /\ v.phase = "IDLE" <=> r.vis.phase = "IDLE"
           /\ Answered(v) => Answered(r.vis)
<1>1. CASE v.phase = "IDLE" \/ v.scene = "NONE"
  <2>1. r.vis = v
    <3>1. mission_stop_vision(v) = {[vis |-> v, ok |-> TRUE]}
      BY <1>1, Zenon DEF mission_stop_vision
    <3> QED BY <3>1
  <2> QED BY <1>1, <2>1 DEF SafeRecord
<1>2. CASE v.phase # "IDLE" /\ v.scene # "NONE" /\ Busy(v)
  <2>1. r.vis = [v EXCEPT !.stopReq = TRUE]
    <3>1. mission_stop_vision(v) = {[vis |-> [v EXCEPT !.stopReq = TRUE], ok |-> TRUE]}
      BY <1>2, Zenon DEF mission_stop_vision
    <3> QED BY <3>1
  <2> QED BY <1>2, <2>1 DEF SafeRecord, VisionType, Busy, Answered
<1>3. CASE v.phase # "IDLE" /\ v.scene # "NONE" /\ ~Busy(v)
  <2>1. PICK w : /\ w = [v EXCEPT !.stopReq = FALSE, !.phase = "STOPPING"]
                 /\ \E ok \in submit_results(v) :
                      r.vis = mission_submit_vision_transfer(w, "STOP", ok)
    BY <1>3 DEF mission_stop_vision
  <2>2. /\ w \in VisionType /\ ~Busy(w) /\ w.phase = "STOPPING"
        /\ w.scene # "NONE"
    BY <1>3, <2>1 DEF SafeRecord, VisionType, Phases, Busy
  <2>3. submit_results(w) = submit_results(v)
    BY <1>3, <2>2 DEF submit_results
  <2>4. SafeRecord(r.vis) /\ r.vis.phase = "STOPPING"
    <3>1. PICK ok \in submit_results(w) :
              r.vis = mission_submit_vision_transfer(w, "STOP", ok)
      BY <2>1, <2>3
    <3> QED BY <2>2, <3>1, SubmitSafe
  <2>5. ~Answered(v)
    BY <1>3 DEF Answered, Busy
  <2> QED BY <1>3, <2>4, <2>5
<1> QED BY <1>1, <1>2, <1>3

\* With the buffer free the session is on its way down, or was closed.
LEMMA StopCloses ==
    ASSUME NEW v, SafeRecord(v), ~Busy(v), NEW r \in mission_stop_vision(v)
    PROVE  r.vis.phase \in {"IDLE", "STOPPING"}
<1>1. CASE v.phase = "IDLE"
  BY <1>1, StopSafe
<1>2. CASE v.phase # "IDLE"
  <2>1. PICK w : /\ w = [v EXCEPT !.stopReq = FALSE, !.phase = "STOPPING"]
                 /\ \E ok \in submit_results(v) :
                      r.vis = mission_submit_vision_transfer(w, "STOP", ok)
    BY <1>2 DEF mission_stop_vision, SafeRecord
  <2>2. /\ w \in VisionType /\ ~Busy(w) /\ w.phase = "STOPPING"
        /\ w.scene # "NONE"
    BY <1>2, <2>1 DEF SafeRecord, VisionType, Phases, Busy
  <2>3. submit_results(w) = submit_results(v)
    BY <2>2 DEF submit_results
  <2>4. PICK ok \in submit_results(w) :
            r.vis = mission_submit_vision_transfer(w, "STOP", ok)
    BY <2>1, <2>3
  <2> QED BY <2>2, <2>4, SubmitSafe
<1> QED BY <1>1, <1>2

-----------------------------------------------------------------------------
(* The context.                                                            *)

LEMMA NextIdTyped ==
    ASSUME NEW id \in 1..IdMax
    PROVE  mission_next_request_id(id) \in 1..IdMax
BY IdMaxAssumption DEF mission_next_request_id

\* Appending a typed command keeps the queue typed and shows it at the end.
LEMMA SentTyped ==
    ASSUME QueueTyped, NEW type \in CommandTypes, NEW id \in 1..IdMax
    PROVE  /\ Sent(type, id) \in Seq(Commands)
           /\ Len(Sent(type, id)) = Len(cmdQ) + 1
           /\ Sent(type, id)[Len(Sent(type, id))].type = type
<1>1. Command(type, id) \in Commands
  BY DEF Command, Commands
<1> QED BY <1>1 DEF QueueTyped, Sent, Command

LEMMA StopIsCommand == "STOP" \in CommandTypes
BY DEF CommandTypes

\* A failure leaves the run at rest, whatever record it stops.
LEMMA FailRests ==
    ASSUME NEW w, w.id \in 1..IdMax, NEW f, mission_fail(w, f)
    PROVE  Rested
<1>1. CASE /\ state \in {"FAULT", "STOPPED"}
           /\ UNCHANGED <<state, fault, armHome, arm, cmdQ>>
  BY <1>1 DEF Rested, RestStates
<1>2. CASE /\ armHome' = FALSE /\ halt_block_arm(w) /\ state' = "FAULT"
           /\ requestId' = mission_next_request_id(w.id)
           /\ cmdQ' = IF CommandRoom THEN Sent("STOP", requestId') ELSE cmdQ
  <2>1. requestId' \in 1..IdMax
    BY <1>2, NextIdTyped
  <2>2. arm' \in {0, arm}
    BY <1>2 DEF halt_block_arm
  <2>3. cmdQ' = cmdQ \/ cmdQ' = Sent("STOP", requestId')
    BY <1>2
  <2> QED BY <1>2, <2>1, <2>2, <2>3 DEF Rested, RestStates
<1> QED BY <1>1, <1>2 DEF mission_fail

\* mission_fail stops the vision session and adds nothing but a STOP.
LEMMA FailSafe ==
    ASSUME NEW S, CtxTyped(S), NEW w \in Contexts, SafeRecord(w.vis), StopNoted(w.vis),
           NEW f \in Faults, mission_fail(w, f)
    PROVE  /\ Handled(S, w.vis) /\ StopOnly /\ Rested
           /\ state' \in {state, "FAULT"}
           /\ w.vis.phase = "IDLE" <=> vis'.phase = "IDLE"
<1> USE DEF CtxTyped, Handled, Contexts
<1>0. Rested
  BY FailRests
<1>1. CASE /\ state \in {"FAULT", "STOPPED"}
           /\ vis' = w.vis /\ requestId' = w.id /\ activeArm' = w.active
           /\ UNCHANGED <<state, fault, armHome, arm, cmdQ>>
  <2>1. Len(cmdQ') = Len(cmdQ)
    BY <1>1
  <2> QED BY <1>1, <2>1, <1>0 DEF StopNoted, StopOnly, QueueTyped
<1>2. CASE /\ state \notin {"FAULT", "STOPPED"}
           /\ fault' = f /\ armHome' = FALSE /\ halt_block_arm(w)
           /\ \E r \in mission_stop_vision(w.vis) : vis' = r.vis
           /\ requestId' = mission_next_request_id(w.id)
           /\ cmdQ' = IF CommandRoom THEN Sent("STOP", requestId') ELSE cmdQ
           /\ state' = "FAULT"
  <2>1. /\ SafeRecord(vis') /\ (vis'.phase = "STARTING" => vis'.stopReq)
        /\ w.vis.phase = "IDLE" <=> vis'.phase = "IDLE"
        /\ Answered(w.vis) => Answered(vis')
    BY <1>2, StopSafe
  <2>2. requestId' \in 1..IdMax
    BY <1>2, NextIdTyped
  <2>3. activeArm' \in Groups \cup {0} /\ arm' \in Groups \cup {0}
    BY <1>2 DEF halt_block_arm
  <2>4. QueueTyped' /\ StopOnly
    <3>1. CASE cmdQ' = cmdQ
      BY <3>1 DEF QueueTyped, StopOnly
    <3>2. CASE cmdQ' = Sent("STOP", requestId')
      BY <2>2, <3>2, StopIsCommand, SentTyped DEF QueueTyped, StopOnly
    <3> QED BY <1>2, <3>1, <3>2
  <2>5. state' \in S \cup RestStates
    BY <1>2 DEF RestStates
  <2> QED BY <1>2, <2>1, <2>2, <2>3, <2>4, <2>5, <1>0 DEF StopNoted
<1> QED BY <1>1, <1>2 DEF mission_fail

\* mission_enter_state leaves the record it is given and sends nothing.
LEMMA EnterSafe ==
    ASSUME NEW S, CtxTyped(S), NEW v, SafeRecord(v), NEW s \in S \cup RestStates,
           s \in RestStates /\ v.phase = "STARTING" => v.stopReq,
           enter_state(v, s)
    PROVE  Handled(S, v) /\ StopOnly /\ state' = s /\ vis' = v
BY DEF CtxTyped, Handled, enter_state, QueueTyped, StopNoted, StopOnly

\* The context a handler fails with, from the record it has worked on.
LEMMA WithContext ==
    ASSUME NEW S, CtxTyped(S), NEW v \in VisionType, NEW id \in 1..IdMax,
           NEW a \in Groups \cup {0}
    PROVE  /\ With(v) \in Contexts /\ With(v).vis = v
           /\ [With(v) EXCEPT !.id = id] \in Contexts
           /\ [With(v) EXCEPT !.id = id].vis = v
           /\ [With(v) EXCEPT !.active = a] \in Contexts
           /\ [With(v) EXCEPT !.active = a].vis = v
BY DEF CtxTyped, Contexts, With, Now

\* A command goes out, or a full queue is a fault.
LEMMA SendSafe ==
    ASSUME NEW S, CtxTyped(S), NEW v, SafeRecord(v), StopNoted(v),
           NEW s \in S \ RestStates, NEW type \in CommandTypes,
           send_chassis(v, type, s)
    PROVE  /\ Handled(S, v) /\ state' \in {s, state, "FAULT"}
           /\ v.phase = "IDLE" <=> vis'.phase = "IDLE"
<1>1. CASE /\ CommandRoom /\ cmdQ' = Sent(type, requestId)
           /\ state' = s /\ vis' = v
           /\ UNCHANGED <<fault, requestId, activeArm, armHome, arm>>
  BY <1>1, SentTyped DEF CtxTyped, Handled, QueueTyped, StopNoted
<1>2. CASE mission_fail(With(v), "QUEUE")
  <2>1. With(v) \in Contexts /\ With(v).vis = v
    BY WithContext DEF SafeRecord, CtxTyped
  <2> QED BY <1>2, <2>1, FailSafe DEF Faults
<1> QED BY <1>1, <1>2 DEF send_chassis

LEMMA NewStageSafe ==
    ASSUME NEW S, CtxTyped(S), NEW v, SafeRecord(v), StopNoted(v),
           NEW s \in S \ RestStates, NEW type \in CommandTypes,
           send_new_stage(v, type, s)
    PROVE  /\ Handled(S, v) /\ state' \in {s, state, "FAULT"}
           /\ v.phase = "IDLE" <=> vis'.phase = "IDLE"
<1> DEFINE id == mission_next_request_id(requestId)
<1>0. id \in 1..IdMax
  BY NextIdTyped DEF CtxTyped
<1>1. CASE /\ CommandRoom /\ cmdQ' = Sent(type, id) /\ requestId' = id
           /\ state' = s /\ vis' = v
           /\ UNCHANGED <<fault, activeArm, armHome, arm>>
  BY <1>0, <1>1, SentTyped DEF CtxTyped, Handled, QueueTyped, StopNoted
<1>2. CASE mission_fail([With(v) EXCEPT !.id = id], "QUEUE")
  <2> HIDE DEF id
  <2>1. [With(v) EXCEPT !.id = id] \in Contexts
        /\ [With(v) EXCEPT !.id = id].vis = v
    BY <1>0, WithContext DEF SafeRecord, CtxTyped
  <2> QED BY <1>2, <2>1, FailSafe DEF Faults
<1> QED BY <1>1, <1>2 DEF send_new_stage

\* The arm starts, or refuses, which is a fault; neither is a release.
LEMMA ArmSafe ==
    ASSUME NEW S, CtxTyped(S), NEW v, SafeRecord(v), StopNoted(v),
           NEW s \in S \ RestStates, NEW g \in Groups,
           start_arm(v, g, s)
    PROVE  /\ Handled(S, v) /\ StopOnly /\ state' \in {s, state, "FAULT"}
           /\ v.phase = "IDLE" <=> vis'.phase = "IDLE"
<1>1. CASE /\ state' = s /\ vis' = v /\ activeArm' = g /\ arm' = g
           /\ armHome' = FALSE /\ UNCHANGED <<fault, requestId, cmdQ>>
  <2>1. Len(cmdQ') = Len(cmdQ)
    BY <1>1
  <2>2. StopOnly
    BY <1>1, <2>1 DEF StopOnly, CtxTyped, QueueTyped
  <2>3. CtxTyped(S)'
    BY <1>1 DEF CtxTyped, QueueTyped
  <2> QED BY <1>1, <2>2, <2>3 DEF Handled, StopNoted
<1>2. CASE mission_fail([With(v) EXCEPT !.active = 0], "ARM")
  <2>1. [With(v) EXCEPT !.active = 0] \in Contexts
        /\ [With(v) EXCEPT !.active = 0].vis = v
    BY WithContext DEF SafeRecord, CtxTyped
  <2> QED BY <1>2, <2>1, FailSafe DEF Faults
<1> QED BY <1>1, <1>2 DEF start_arm

\* A session opens on a scene, or the refusal is a fault.
LEMMA VisionSafe ==
    ASSUME NEW S, CtxTyped(S), NEW v, SafeRecord(v), StopNoted(v),
           NEW scene \in Scenes \ {"NONE"},
           NEW s \in S \ RestStates, start_vision(v, scene, s)
    PROVE  Handled(S, v) /\ StopOnly /\ state' \in {s, state, "FAULT"}
<1>1. CASE v.phase # "IDLE" /\ mission_fail(With(v), "VISION")
  <2>1. With(v) \in Contexts /\ With(v).vis = v
    BY WithContext DEF SafeRecord, CtxTyped
  <2> QED BY <1>1, <2>1, FailSafe DEF Faults
<1>2. CASE v.phase = "IDLE"
  <2>1. ~Busy(v) /\ ~Answered(v)
    BY <1>2 DEF SafeRecord, Busy, Answered
  <2>2. PICK ok, w, x :
            /\ ok \in submit_results(v)
            /\ w = [v EXCEPT !.phase = "STARTING", !.scene = scene]
            /\ x = mission_submit_vision_transfer(w, "START", ok)
            /\ IF ok THEN enter_state(x, s)
                     ELSE mission_fail(With(mission_reset_vision(x)), "VISION")
    BY <1>2, Zenon DEF start_vision
  <2>3. /\ w \in VisionType /\ ~Busy(w) /\ w.phase = "STARTING"
        /\ w.scene # "NONE"
    BY <2>1, <2>2 DEF SafeRecord, VisionType, Phases, Busy
  <2>4. ok \in submit_results(w) /\ ok \in BOOLEAN
    BY <2>1, <2>2, <2>3 DEF submit_results
  <2>5. SafeRecord(x) /\ (~ok => ~Busy(x))
    BY <2>2, <2>3, <2>4, SubmitSafe
  <2>6. CASE ok
    <3>1. enter_state(x, s)
      BY <2>2, <2>6
    <3> QED BY <2>1, <2>5, <3>1, EnterSafe DEF Handled
  <2>7. CASE ~ok
    <3> DEFINE y == mission_reset_vision(x)
    <3>1. SafeRecord(y) /\ y.phase = "IDLE"
      BY <2>5, <2>7 DEF mission_reset_vision, SafeRecord, VisionType, Phases,
                        Scenes, Busy
    <3>2. mission_fail(With(y), "VISION")
      BY <2>2, <2>7
    <3> HIDE DEF y
    <3>3. With(y) \in Contexts /\ With(y).vis = y
      BY <3>1, WithContext DEF SafeRecord, CtxTyped
    <3> QED
      BY <2>1, <3>1, <3>2, <3>3, FailSafe DEF Faults, StopNoted, Handled
  <2> QED BY <2>4, <2>6, <2>7
<1> QED BY <1>1, <1>2 DEF start_vision

\* A session is asked to stop, now or when its transaction ends.
LEMMA StopVisionSafe ==
    ASSUME NEW S, CtxTyped(S), NEW v, SafeRecord(v), NEW s \in S \cup RestStates,
           stop_vision(v, s)
    PROVE  /\ Handled(S, v) /\ StopOnly /\ state' \in {s, state, "FAULT"}
           /\ v.phase = "IDLE" <=> vis'.phase = "IDLE"
<1>1. PICK r \in mission_stop_vision(v) :
          IF r.ok THEN enter_state(r.vis, s)
                  ELSE mission_fail(With(r.vis), "VISION")
  BY DEF stop_vision
<1>2. /\ SafeRecord(r.vis) /\ (r.vis.phase = "STARTING" => r.vis.stopReq)
      /\ v.phase = "IDLE" <=> r.vis.phase = "IDLE"
      /\ Answered(v) => Answered(r.vis)
  BY StopSafe
<1>3. CASE enter_state(r.vis, s)
  BY <1>2, <1>3, EnterSafe DEF Handled
<1>4. CASE mission_fail(With(r.vis), "VISION")
  <2>1. With(r.vis) \in Contexts /\ With(r.vis).vis = r.vis
    BY <1>2, WithContext DEF SafeRecord, CtxTyped
  <2> QED BY <1>2, <1>4, <2>1, FailSafe DEF Faults, StopNoted, Handled
<1> QED BY <1>1, <1>3, <1>4

\* A user STOP closes the session and queues a STOP; in STOPPED it does
\* nothing.
LEMMA CommandSafe ==
    ASSUME NEW S, CtxTyped(S), SafeRecord(vis), StopNoted(vis), mission_handle_command
    PROVE  /\ Handled(S, vis) /\ StopOnly
           /\ state' \in {state, "STOPPING", "FAULT"}
           /\ state \notin {"STOPPED", "BOOT"} => Rested
           /\ vis.phase = "IDLE" <=> vis'.phase = "IDLE"
<1> DEFINE id == mission_next_request_id(requestId)
<1>0. id \in 1..IdMax
  BY NextIdTyped DEF CtxTyped
<1>1. CASE /\ state \in {"STOPPED", "BOOT"} /\ armHome' = FALSE
           /\ UNCHANGED <<state, fault, requestId, activeArm, vis, arm, cmdQ>>
  <2>1. Len(cmdQ') = Len(cmdQ)
    BY <1>1
  <2>2. StopOnly
    BY <1>1, <2>1 DEF StopOnly, CtxTyped, QueueTyped
  <2>3. CtxTyped(S)'
    BY <1>1 DEF CtxTyped, QueueTyped
  <2> QED BY <1>1, <2>2, <2>3 DEF Handled, StopNoted
<1>2. ASSUME NEW r \in mission_stop_vision(vis),
             /\ armHome' = FALSE /\ halt_block_arm(Now)
             /\ vis' = r.vis /\ requestId' = id /\ cmdQ' = Sent("STOP", id)
             /\ state' = "STOPPING" /\ UNCHANGED fault
      PROVE  /\ Handled(S, vis) /\ StopOnly /\ state' = "STOPPING" /\ Rested
             /\ vis.phase = "IDLE" <=> vis'.phase = "IDLE"
  <2>1. /\ SafeRecord(vis') /\ (vis'.phase = "STARTING" => vis'.stopReq)
        /\ vis.phase = "IDLE" <=> vis'.phase = "IDLE"
        /\ Answered(vis) => Answered(vis')
    BY <1>2, StopSafe
  <2>2. activeArm' \in Groups \cup {0} /\ arm' \in Groups \cup {0}
    BY <1>2 DEF halt_block_arm, CtxTyped, Now
  <2> HIDE DEF id
  <2>3. QueueTyped' /\ StopOnly
    BY <1>0, <1>2, StopIsCommand, SentTyped DEF QueueTyped, StopOnly, CtxTyped
  <2>4. Rested
    <3>1. arm' \in {0, arm}
      BY <1>2 DEF halt_block_arm
    <3> QED BY <1>0, <1>2, <3>1 DEF Rested, RestStates
  <2> QED
    BY <1>0, <1>2, <2>1, <2>2, <2>3, <2>4
    DEF CtxTyped, Handled, StopNoted, RestStates
<1>3. ASSUME NEW r \in mission_stop_vision(vis),
             mission_fail([With(r.vis) EXCEPT !.id = id], "QUEUE")
      PROVE  /\ Handled(S, vis) /\ StopOnly /\ state' \in {state, "FAULT"}
             /\ Rested
             /\ vis.phase = "IDLE" <=> vis'.phase = "IDLE"
  <2>1. /\ SafeRecord(r.vis) /\ (r.vis.phase = "STARTING" => r.vis.stopReq)
        /\ vis.phase = "IDLE" <=> r.vis.phase = "IDLE"
        /\ Answered(vis) => Answered(r.vis)
    BY <1>3, StopSafe
  <2> HIDE DEF id
  <2>2. [With(r.vis) EXCEPT !.id = id] \in Contexts
        /\ [With(r.vis) EXCEPT !.id = id].vis = r.vis
    BY <1>0, <2>1, WithContext DEF SafeRecord, CtxTyped
  <2> QED BY <1>3, <2>1, <2>2, FailSafe DEF Faults, StopNoted, Handled
<1> QED BY <1>1, <1>2, <1>3 DEF mission_handle_command

\* The record with its reply taken out is free for the next transfer.
LEMMA TakenSafe ==
    ASSUME SafeRecord(vis), StopNoted(vis), Answered(vis)
    PROVE  /\ SafeRecord(Taken) /\ StopNoted(Taken) /\ ~Busy(Taken)
           /\ Taken.phase = vis.phase /\ Taken.scene = vis.scene
           /\ Taken.stopReq = vis.stopReq
BY DEF SafeRecord, VisionType, StopNoted, Answered, Taken, Busy, Mails

-----------------------------------------------------------------------------
(* The main loop.                                                          *)

LoopTyped ==
    /\ userQ \in 0..CommandDepth /\ stops \in 0..StopBudget
    /\ got \subseteq FlagNames /\ flags \subseteq FlagNames
    /\ pc \in LoopStages

\* A handler that answers no reply, or answers it once and for all, leaves
\* VISION_DONE true of what is left in the mailbox.
LEMMA DoneKept ==
    ASSUME DoneMeansAnswered, NEW v, Answered(v) => Answered(vis'),
           UNCHANGED flags, got' \subseteq got,
           \/ /\ Answered(vis) => Answered(v)
              /\ \/ pc' \in {"process", "timeout", "wait", "turning"}
                 \/ pc \in {"commands", "events", "arm", "storing", "storeStopped"}
           \/ DoneSeen /\ pc' = "process"
    PROVE  DoneMeansAnswered'
<1>1. CASE DoneSeen /\ pc' = "process"
  BY <1>1 DEF DoneMeansAnswered, DoneSeen
<1>2. CASE ~(DoneSeen /\ pc' = "process")
  <2>1. /\ Answered(vis) => Answered(vis')
        /\ DoneSeen' => DoneSeen
    BY <1>2 DEF DoneSeen
  <2>2. Answered(vis)' <=> Answered(vis')
    BY DEF Answered
  <2> QED BY <2>1, <2>2 DEF DoneMeansAnswered
<1> QED BY <1>1, <1>2
=============================================================================

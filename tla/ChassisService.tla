---------------------------- MODULE ChassisService ----------------------------
(***************************************************************************)
(* The chassis motion service (chassis_service.c) under the calls of the   *)
(* chassis task (app_route.c, chassis_align.c).  The control and odometry  *)
(* tasks have the higher priority; the guard and the chassis task share    *)
(* the lower one and interleave.  There is one completion flag, g_nav_fin  *)
(* of app_route.c; the service keeps a pointer to it while a navigation is *)
(* under way.                                                              *)
(***************************************************************************)
EXTENDS Integers

CONSTANTS
    FailMax,     \* CSVC_FAIL_MAX
    MaxNav,      \* bound: how many navigations are asked for
    OdomFaults,  \* whether the wheels may fail to answer
    SendFaults,  \* whether a wheel command may be refused (mh_speed)
    Backup       \* whether a guard may abort the wait (route_red_backup_go)

ASSUME FailMaxAssumption == FailMax \in Nat \ {0}
ASSUME MaxNavAssumption == MaxNav \in Nat
ASSUME FaultAssumption == {OdomFaults, SendFaults, Backup} \subseteq BOOLEAN

VARIABLES
    queue,    \* g_queue, of depth one
    cmd,      \* the command the control task repeats
    k,        \* control task: asleep, or past the queue and before the lock
    wheels,   \* what the wheels were told last
    served,   \* the control task has run since the last post
    near,     \* the navigation whose target the base has reached
    fail, faultEv,   \* timeouts in a row, and the pending fault signal
    faulted, g,      \* g_faulted, and where the guard is
    navFin,   \* the service holds the pointer to the completion flag
    fin,      \* the completion flag
    path,     \* the navigation g_path was planned for; 0 while it is written
    locked,   \* the chassis task holds the pose lock
    c, out, tag      \* chassis task: where it is, what it posts, its last nav

ctrlVars == <<cmd, k, wheels>>
odomVars == <<fail, faultEv>>
guardVars == <<faulted, g>>
taskVars == <<c, out, tag>>
vars == <<queue, ctrlVars, served, near, odomVars, guardVars, navFin, fin,
          path, locked, taskVars>>

Navs == {"LINE", "PATH"}
\* HALT is FREE with no velocity; FREE stands for ARC too.
Command ==
    [mode : {"NONE", "HALT", "FREE"}, tag : {0}]
        \cup [mode : Navs, tag : 1..MaxNav]
None == [mode |-> "NONE", tag |-> 0]
Halt == [mode |-> "HALT", tag |-> 0]
Free == [mode |-> "FREE", tag |-> 0]
NoCmd == [mode |-> "EMPTY", tag |-> 0]

Init ==
    /\ queue = NoCmd /\ cmd = None /\ k = "sleep" /\ wheels = "stop"
    /\ served = FALSE /\ near = 0
    /\ fail = 0 /\ faultEv = FALSE /\ faulted = FALSE /\ g = "wait"
    /\ navFin = FALSE /\ fin = TRUE /\ path = 0 /\ locked = FALSE
    /\ c = "idle" /\ out = None /\ tag = 0

-----------------------------------------------------------------------------
(* The control task: every 20 ms, over everything else.                    *)

CtrlTake ==
    /\ k = "sleep" /\ k' = "run"
    /\ IF queue = NoCmd THEN UNCHANGED <<queue, cmd>>
       ELSE cmd' = queue /\ queue' = NoCmd
    /\ UNCHANGED <<wheels, served, near, odomVars, guardVars, navFin, fin,
                   path, locked, taskVars>>

Tell(v) == wheels' \in {v} \cup (IF SendFaults THEN {wheels} ELSE {})

\* chassis_nav and chassis_follow write the flag in every cycle.
Navigate ==
    /\ cmd.mode \in Navs
    /\ Tell("nav")
    /\ IF near = cmd.tag
       THEN fin' = TRUE /\ navFin' = FALSE /\ cmd' = None
       ELSE fin' = FALSE /\ UNCHANGED <<navFin, cmd>>

Move ==
    /\ cmd.mode \notin Navs
    /\ Tell(IF cmd.mode = "FREE" THEN "free" ELSE "stop")
    /\ UNCHANGED <<fin, navFin, cmd>>

\* Mutants: the latch is not looked at; the command outlives its arrival.
CtrlRunUnlatched ==
    /\ k = "run" /\ ~locked /\ k' = "sleep" /\ served' = TRUE
    /\ Navigate \/ Move
    /\ UNCHANGED <<queue, near, odomVars, guardVars, path, locked, taskVars>>
NavigateOn ==
    /\ cmd.mode \in Navs
    /\ Tell("nav")
    /\ IF near = cmd.tag
       THEN fin' = TRUE /\ navFin' = FALSE /\ UNCHANGED cmd
       ELSE fin' = FALSE /\ UNCHANGED <<navFin, cmd>>
CtrlRunOn ==
    /\ k = "run" /\ ~locked /\ k' = "sleep" /\ served' = TRUE
    /\ IF faulted THEN UNCHANGED <<fin, navFin, cmd, wheels>>
       ELSE NavigateOn \/ Move
    /\ UNCHANGED <<queue, near, odomVars, guardVars, path, locked, taskVars>>

CtrlRun ==
    /\ k = "run" /\ ~locked /\ k' = "sleep" /\ served' = TRUE
    /\ IF faulted THEN UNCHANGED <<fin, navFin, cmd, wheels>>
       ELSE Navigate \/ Move
    /\ UNCHANGED <<queue, near, odomVars, guardVars, path, locked, taskVars>>

\* The base, told to go there, gets there.
Reach ==
    /\ wheels = "nav" /\ cmd.mode \in Navs /\ near # cmd.tag
    /\ near' = cmd.tag
    /\ UNCHANGED <<queue, ctrlVars, served, odomVars, guardVars, navFin, fin,
                   path, locked, taskVars>>

-----------------------------------------------------------------------------
(* The odometry task.  Its write of the pose under the lock disturbs       *)
(* nothing that is modelled.                                               *)

OdomRead ==
    /\ fail # 0 /\ fail' = 0
    /\ UNCHANGED <<queue, ctrlVars, served, near, faultEv, guardVars, navFin,
                   fin, path, locked, taskVars>>

OdomTimeout ==
    /\ OdomFaults /\ fail < FailMax
    /\ fail' = fail + 1
    /\ faultEv' = (faultEv \/ fail' = FailMax)
    /\ UNCHANGED <<queue, ctrlVars, served, near, guardVars, navFin, fin,
                   path, locked, taskVars>>

-----------------------------------------------------------------------------
(* Below the control task: it runs as soon as it can have the lock.        *)

Below == k = "sleep" \/ locked

\* csvc_cancel_nav is a test and two writes, in the guard and in csvc_free.
Latch ==
    /\ Below /\ g = "wait" /\ faultEv
    /\ faultEv' = FALSE /\ faulted' = TRUE /\ g' = "latched"
    /\ UNCHANGED <<queue, ctrlVars, served, near, fail, navFin, fin, path,
                   locked, taskVars>>

\* Mutant: the guard parks without releasing the navigation.
ParkOnly ==
    /\ Below /\ ~locked /\ g = "latched"
    /\ Tell("stop") /\ g' = "wait"
    /\ UNCHANGED <<queue, cmd, k, served, near, odomVars, faulted, navFin,
                   fin, path, locked, taskVars>>

Park ==
    /\ Below /\ ~locked /\ g = "latched"
    /\ Tell("stop") /\ g' = "check"
    /\ UNCHANGED <<queue, cmd, k, served, near, odomVars, faulted, navFin,
                   fin, path, locked, taskVars>>

GuardCheck ==
    /\ Below /\ g = "check"
    /\ g' = IF navFin THEN "write" ELSE "wait"
    /\ UNCHANGED <<queue, ctrlVars, served, near, odomVars, faulted, navFin,
                   fin, path, locked, taskVars>>

GuardWrite ==
    /\ Below /\ g = "write" /\ g' = "null"
    /\ fin' = TRUE
    /\ UNCHANGED <<queue, ctrlVars, served, near, odomVars, faulted, navFin,
                   path, locked, taskVars>>

GuardNull ==
    /\ Below /\ g = "null" /\ g' = "wait"
    /\ navFin' = FALSE
    /\ UNCHANGED <<queue, ctrlVars, served, near, odomVars, faulted, fin,
                   path, locked, taskVars>>

-----------------------------------------------------------------------------
(* The chassis task between two commands.                                  *)

At(l) == Below /\ c = l
ServiceVars == <<ctrlVars, near, odomVars, guardVars>>

\* nav_wait clears the flag before it asks.
NavWait(m) ==
    /\ At("idle") /\ tag < MaxNav
    /\ fin' = FALSE
    /\ tag' = tag + 1 /\ out' = [mode |-> m, tag |-> tag + 1] /\ c' = "busy"
    /\ UNCHANGED <<ServiceVars, queue, served, navFin, path, locked>>

\* csvc_free and csvc_arc, from rest or as a change of direction.
Drive ==
    /\ At("idle") \/ At("moving")
    /\ out' = Free /\ c' = "check"
    /\ UNCHANGED <<ServiceVars, queue, served, navFin, fin, path, locked, tag>>

\* align_stop: whenever the task moves or stands, and when a wait is aborted.
Stop ==
    /\ At("idle") \/ At("moving") \/ (Backup /\ At("wait"))
    /\ out' = Halt /\ c' = "check"
    /\ UNCHANGED <<ServiceVars, queue, served, navFin, fin, path, locked, tag>>

\* csvc_set_pose and csvc_get_pose hold the lock for a moment.
PoseLock ==
    /\ At("idle") \/ At("moving")
    /\ ~locked /\ locked' = TRUE
    /\ c' = IF c = "idle" THEN "pose" ELSE "glance"
    /\ UNCHANGED <<ServiceVars, queue, served, navFin, fin, path, out, tag>>
PoseUnlock ==
    /\ At("pose") \/ At("glance")
    /\ locked' = FALSE /\ c' = IF c = "pose" THEN "idle" ELSE "moving"
    /\ UNCHANGED <<ServiceVars, queue, served, navFin, fin, path, out, tag>>

\* nav_wait restores the flag, route_red_backup_go stops.
Refused ==
    /\ \/ c' = "idle" /\ fin' = TRUE /\ UNCHANGED out
       \/ Backup /\ c' = "check" /\ out' = Halt /\ UNCHANGED fin
    /\ UNCHANGED <<ServiceVars, queue, served, path, locked, tag>>

\* A navigation that is not finished refuses the next one; LINE needs no
\* plan.
NavBusy == At("busy") /\ navFin /\ ~fin /\ Refused /\ UNCHANGED navFin
NavFree ==
    /\ At("busy") /\ ~(navFin /\ ~fin)
    /\ c' = IF out.mode = "PATH" THEN "lock" ELSE "accept"
    /\ UNCHANGED <<ServiceVars, queue, served, navFin, fin, path, locked, out,
                   tag>>

\* csvc_plan: the pose under the lock, the search outside of it into g_path.
PlanLock ==
    /\ At("lock") /\ ~locked
    /\ locked' = TRUE /\ c' = "plan"
    /\ UNCHANGED <<ServiceVars, queue, served, navFin, fin, path, out, tag>>
PlanUnlock ==
    /\ At("plan")
    /\ locked' = FALSE /\ c' = "search"
    /\ UNCHANGED <<ServiceVars, queue, served, navFin, fin, path, out, tag>>
Search ==
    /\ At("search")
    /\ path' = 0 /\ c' = "found"
    /\ UNCHANGED <<ServiceVars, queue, served, navFin, fin, locked, out, tag>>
Found ==
    /\ At("found")
    /\ path' = tag /\ c' = "accept"
    /\ UNCHANGED <<ServiceVars, queue, served, navFin, fin, locked, out, tag>>
NoWay == At("found") /\ Refused /\ UNCHANGED navFin

Accept ==
    /\ At("accept")
    /\ fin' = FALSE /\ c' = "point"
    /\ UNCHANGED <<ServiceVars, queue, served, navFin, path, locked, out, tag>>
Point ==
    /\ At("point")
    /\ navFin' = TRUE /\ c' = "drain"
    /\ UNCHANGED <<ServiceVars, queue, served, fin, path, locked, out, tag>>

Check ==
    /\ At("check")
    /\ c' = IF navFin THEN "write" ELSE "drain"
    /\ UNCHANGED <<ServiceVars, queue, served, navFin, fin, path, locked, out,
                   tag>>
Write ==
    /\ At("write")
    /\ fin' = TRUE /\ c' = "null"
    /\ UNCHANGED <<ServiceVars, queue, served, navFin, path, locked, out, tag>>
Null ==
    /\ At("null")
    /\ navFin' = FALSE /\ c' = "drain"
    /\ UNCHANGED <<ServiceVars, queue, served, fin, path, locked, out, tag>>

\* csvc_post
Drain ==
    /\ At("drain")
    /\ queue' = NoCmd /\ c' = "put"
    /\ UNCHANGED <<ServiceVars, served, navFin, fin, path, locked, out, tag>>

After(m) ==
    CASE m \in Navs -> "wait" [] m = "FREE" -> "moving" [] OTHER -> "settle"

\* A post that fails takes a navigation back.
Put ==
    /\ At("put")
    /\ IF queue = NoCmd
       THEN /\ queue' = out /\ served' = FALSE /\ c' = After(out.mode)
            /\ UNCHANGED <<navFin, fin>>
       ELSE /\ c' = "idle"
            /\ IF out.mode \in Navs THEN fin' = TRUE /\ navFin' = FALSE
               ELSE UNCHANGED <<navFin, fin>>
            /\ UNCHANGED <<queue, served>>
    /\ UNCHANGED <<ServiceVars, path, locked, out, tag>>

\* The poll of nav_wait sees the flag.
Arrived ==
    /\ At("wait") /\ fin
    /\ c' = "idle"
    /\ UNCHANGED <<ServiceVars, queue, served, navFin, fin, path, locked, out,
                   tag>>

\* Mutant: align_stop does not wait.
SettleNot ==
    /\ At("settle")
    /\ c' = "idle"
    /\ UNCHANGED <<ServiceVars, queue, served, navFin, fin, path, locked, out,
                   tag>>

\* The 200 ms of align_stop are ten periods of the control task.
Settle ==
    /\ At("settle") /\ served
    /\ c' = "idle"
    /\ UNCHANGED <<ServiceVars, queue, served, navFin, fin, path, locked, out,
                   tag>>

-----------------------------------------------------------------------------
Ctrl == CtrlTake \/ CtrlRun
Odom == OdomRead \/ OdomTimeout
Guard == Latch \/ Park \/ GuardCheck \/ GuardWrite \/ GuardNull
InCall ==
    \/ PoseUnlock \/ NavBusy \/ NavFree \/ PlanLock \/ PlanUnlock \/ Search
    \/ Found \/ NoWay \/ Accept \/ Point \/ Check \/ Write \/ Null
    \/ Drain \/ Put \/ Arrived \/ Settle
Task == InCall \/ Drive \/ Stop \/ PoseLock \/ \E m \in Navs : NavWait(m)

Next == Ctrl \/ Odom \/ Guard \/ Task \/ Reach

Spec == Init /\ [][Next]_vars

\* The control task is periodic and leaves most of its period to the tasks
\* below it: what they can do again and again they do (strong fairness).  A
\* base that is driven to a target gets there.
FairSpec ==
    /\ Spec /\ WF_vars(Ctrl) /\ WF_vars(Reach)
    /\ SF_vars(Guard) /\ SF_vars(InCall)
=============================================================================

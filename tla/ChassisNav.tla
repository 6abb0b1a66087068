------------------------------ MODULE ChassisNav ------------------------------
(* What the chassis task may rely on when it navigates and stops.          *)
EXTENDS ChassisService

Labels ==
    {"idle", "pose", "glance", "busy", "lock", "plan", "search", "found",
     "accept", "point", "check", "write", "null", "drain", "put", "wait",
     "moving", "settle"}

FlagsTyped ==
    /\ served \in BOOLEAN /\ faultEv \in BOOLEAN /\ faulted \in BOOLEAN
    /\ navFin \in BOOLEAN /\ fin \in BOOLEAN /\ locked \in BOOLEAN

TypeOK ==
    /\ FlagsTyped
    /\ queue \in Command \cup {NoCmd} /\ cmd \in Command
    /\ k \in {"sleep", "run"} /\ wheels \in {"stop", "free", "nav"}
    /\ near \in 0..MaxNav /\ fail \in 0..FailMax
    /\ g \in {"wait", "latched", "check", "write", "null"}
    /\ path \in 0..MaxNav
    /\ c \in Labels /\ out \in Command /\ tag \in 0..MaxNav

\* Once the guard has parked the base after a lost odometry nothing moves it
\* again: no command that was taken, queued or posted later undoes the stop
\* ("latch first, then park", csvc_guard_task).
ParkedAfterFault == faulted /\ g # "latched" => wheels = "stop"

\* A navigation that is waited for is in the queue or being driven, and the
\* service knows its flag: the depth-one queue never drops it and no other
\* command has taken its place.
NavNotLost ==
    c = "wait" /\ ~fin /\ ~faulted =>
        /\ navFin
        /\ queue = out \/ (queue = NoCmd /\ cmd = out)

\* Without a fault the wait only ends when the base has reached the target
\* of this navigation: the flag is shared by all of them, and an earlier
\* one, cancelled or finished, does not raise it.
ArrivalIsReal == c = "wait" /\ fin /\ ~faulted => near = tag

\* The control task follows a path only if the buffer holds the path of its
\* command: csvc_plan writes g_path without the lock.
FollowsOwnPath ==
    k = "run" /\ cmd.mode = "PATH" /\ ~faulted => path = cmd.tag

\* When align_stop has returned the base no longer drives freely, although
\* the command goes through the queue and another task.
StandsWhenIdle ==
    c \in {"idle", "pose"} /\ ~(faulted /\ g = "latched") => wheels # "free"

\* Every navigation that was accepted before a fault ends: it arrives, it is
\* aborted, or the guard releases whoever waits for it.
InFlightEnds == (c = "wait" /\ ~faulted) ~> (c # "wait")

\* The completion flag means arrival: 0 under way, 1 arrived
\* (chassis_service.h, csvc_nav).
FinishedMeansArrived == c = "wait" /\ fin => near = tag

\* The guard wakes who waits for a navigation when the odometry is lost
\* (csvc_guard_task).
WaiterWakes == (c = "wait" /\ faulted) ~> c # "wait"

-----------------------------------------------------------------------------
(* Why: where the command is, for every place of the chassis task.         *)

Planning == c \in {"busy", "lock", "plan", "search", "found", "accept", "point"}
PostingNav == c \in {"drain", "put"} /\ out.mode \in Navs
Posted == c \in {"wait", "moving", "glance", "settle"}

OutFits ==
    /\ out.mode \in Navs => out.tag = tag
    /\ Planning \/ c = "wait" => out.mode \in Navs
    /\ c \in {"check", "write", "null"} => out \in {Free, Halt}
    /\ c \in {"drain", "put"} => out # None
    /\ c \in {"moving", "glance"} => out = Free
    /\ c = "settle" => out = Halt
    /\ locked <=> c \in {"pose", "glance", "plan"}
    /\ g # "wait" => faulted

\* What was posted is in the queue until the control task takes it, and is
\* what it repeats from then on, unless it is a navigation that has ended.
PostedIsRun ==
    /\ c = "put" => queue = NoCmd
    /\ Posted =>
         IF ~served /\ k = "sleep" THEN queue = out
         ELSE queue = NoCmd
              /\ (cmd = out \/ (served /\ c = "wait" /\ cmd = None))

\* Whoever is about to navigate does so at rest, with nothing left behind
\* that could follow the old path or raise the flag.
AtRest ==
    ~faulted /\ (c \in {"idle", "pose"} \/ Planning \/ PostingNav) =>
        /\ queue = NoCmd /\ cmd \in {None, Halt}
        /\ SendFaults \/ wheels # "free"

FlagFits ==
    ~faulted =>
        /\ c = "point" \/ PostingNav => ~fin
        /\ PostingNav => navFin
        /\ c = "wait" /\ fin => near = tag /\ served /\ cmd = None
        /\ c = "wait" /\ ~fin => navFin /\ (served => cmd = out)
        /\ c \in {"wait", "settle"} /\ served => SendFaults \/ wheels # "free"

PathFits ==
    ~faulted =>
        /\ cmd.mode = "PATH" => path = cmd.tag
        /\ queue.mode = "PATH" => path = queue.tag
        /\ c \in {"accept", "point", "drain", "put"} /\ out.mode = "PATH" =>
               path = tag

Parked == SendFaults \/ ParkedAfterFault

NavInductive ==
    /\ TypeOK /\ OutFits /\ PostedIsRun /\ AtRest /\ FlagFits /\ PathFits
    /\ Parked
=============================================================================

---------------------------- MODULE ChassisDisc ----------------------------
(***************************************************************************)
(* The chassis task at the small disc (app_main.c): drive there, find the  *)
(* lines, circle the disc once, pausing and resuming on command, and back  *)
(* away.  A command to the motion service overwrites a queue of one and is *)
(* never refused once the service is up, so halting and driving succeed.   *)
(***************************************************************************)
EXTENDS MissionLink

CONSTANTS
    ArcTicks,      \* APP_CYL_ARC_MS, in polls of APP_CYL_POLL_MS
    HaltTicks,     \* how long align_stop takes, in the same unit
    SensorFaults   \* may the route or a line sensor fail?

ASSUME TicksAssumption == ArcTicks \in Nat \ {0} /\ HaltTicks \in Nat
ASSUME SensorAssumption == SensorFaults \in BOOLEAN

VARIABLES
    cpc,             \* where the chassis task is
    driving,         \* a non-zero velocity is commanded
    elapsed,         \* small_disc_round: how much of the circle is driven
    paused, failed,  \* small_disc_ctx_t
    discId           \* the id of the stage, later small_disc_ctx_t.req_id

discVars == <<elapsed, paused, failed, discId>>
chassisVars == <<cpc, driving, discVars>>

LocateStages == {"find", "close"}
RoundStages == {"arc", "leave", "turn", "exit", "break"}
ChassisStages ==
    {"await", "route", "lost", "settle", "start", "done", "broken", "gone",
     "next"} \cup LocateStages \cup RoundStages

ChassisTypeOK ==
    /\ cpc \in ChassisStages
    /\ elapsed \in 0..ArcTicks
    /\ discId \in Nat
    /\ {driving, paused, failed} \subseteq BOOLEAN

ChassisInit ==
    /\ cpc = "await" /\ driving = FALSE
    /\ elapsed = 0 /\ paused = FALSE /\ failed = FALSE /\ discId = 0

-----------------------------------------------------------------------------
\* cmd_default: STOP parks the base and is confirmed, the rest is dropped.
cmd_default(c) ==
    IF c.type = "STOP"
    THEN driving' = FALSE /\ link_post("STOPPED", c.id, TRUE)
    ELSE UNCHANGED <<driving, evtQ, flags>>

\* link_wait(GO_SMALL_DISC), then the two routes, which read no command
AwaitGo ==
    /\ cpc = "await" /\ TakeCommand
    /\ IF NextCommand.type = "GO_SMALL_DISC"
       THEN /\ cpc' = "route" /\ driving' = TRUE
            /\ discId' = NextCommand.id
            /\ UNCHANGED <<evtQ, flags>>
       ELSE cmd_default(NextCommand) /\ UNCHANGED <<cpc, discId>>
    /\ UNCHANGED <<elapsed, paused, failed>>

RouteDone ==
    /\ cpc = "route"
    /\ driving' = FALSE
    /\ cpc' = "find" \/ (SensorFaults /\ cpc' = "lost")
    /\ UNCHANGED <<linkVars, discVars>>

(***************************************************************************)
(* disc_locate: sideways until the end of the line is under the sensors,   *)
(* then forward to the ring.  Both drives start and end at a standstill.   *)
(***************************************************************************)
LocateMoves ==
    /\ cpc \in LocateStages /\ ~driving
    /\ driving' = TRUE
    /\ UNCHANGED <<linkVars, cpc, discVars>>

LocateEnds ==
    /\ cpc \in LocateStages /\ driving
    /\ driving' = FALSE
    /\ \/ cpc' = IF cpc = "find" THEN "close" ELSE "settle"
       \/ SensorFaults /\ cpc' = "lost"
    /\ UNCHANGED <<linkVars, discVars>>

\* disc_loc_wait: a STOP between two samples is answered and ends the search.
LocatePolls ==
    /\ cpc \in LocateStages /\ TakeCommand
    /\ cmd_default(NextCommand)
    /\ cpc' = IF NextCommand.type = "STOP" THEN "lost" ELSE cpc
    /\ UNCHANGED discVars

\* The base has arrived, or it reports that it has not and goes on to wait
\* for the depot.
ReportArrival ==
    /\ cpc \in {"settle", "lost"}
    /\ link_post("SMALL_DISC_READY", discId, cpc = "settle")
    /\ cpc' = IF cpc = "settle" THEN "start" ELSE "gone"
    /\ UNCHANGED <<cmdQ, driving, discVars>>

\* link_wait(SMALL_DISC_START), then disc_arc
AwaitStart ==
    /\ cpc = "start" /\ TakeCommand
    /\ IF NextCommand.type = "SMALL_DISC_START"
       THEN /\ cpc' = "arc" /\ driving' = TRUE
            /\ discId' = NextCommand.id
            /\ elapsed' = 0 /\ paused' = FALSE /\ failed' = FALSE
            /\ UNCHANGED <<evtQ, flags>>
       ELSE cmd_default(NextCommand) /\ UNCHANGED <<cpc, discVars>>

-----------------------------------------------------------------------------
(* small_disc_hook, for the command at the head of the queue.              *)

\* link_post reports whether the event was queued.
Posted == Len(evtQ) < QueueDepth

Mine(type) == NextCommand.type = type /\ NextCommand.id = discId

HookStop ==
    /\ NextCommand.type = "STOP"
    /\ cmd_default(NextCommand)
    /\ failed' = TRUE
    /\ UNCHANGED paused

\* Mutant: the pause is confirmed while the base rolls on.
HookPauseRolls ==
    /\ Mine("SMALL_DISC_STOP")
    /\ paused' = TRUE
    /\ link_post("SMALL_DISC_PAUSED", discId, TRUE)
    /\ failed' = (failed \/ ~Posted)
    /\ UNCHANGED driving

HookPause ==
    /\ Mine("SMALL_DISC_STOP")
    /\ driving' = (driving /\ paused)
    /\ paused' = TRUE
    /\ link_post("SMALL_DISC_PAUSED", discId, TRUE)
    /\ failed' = (failed \/ ~Posted)

\* Mutant: the resumed base keeps its pause.
HookResumeStaysPaused ==
    /\ Mine("SMALL_DISC_RESUME")
    /\ driving' = (driving \/ paused)
    /\ link_post("SMALL_DISC_RESUMED", discId, TRUE)
    /\ failed' = (failed \/ ~Posted)
    /\ UNCHANGED paused

HookResume ==
    /\ Mine("SMALL_DISC_RESUME")
    /\ driving' = (driving \/ paused)
    /\ paused' = FALSE
    /\ link_post("SMALL_DISC_RESUMED", discId, TRUE)
    /\ failed' = (failed \/ ~Posted)

HookOther ==
    /\ NextCommand.type # "STOP"
    /\ ~Mine("SMALL_DISC_STOP") /\ ~Mine("SMALL_DISC_RESUME")
    /\ UNCHANGED <<driving, paused, failed, evtQ, flags>>

small_disc_hook == HookStop \/ HookPause \/ HookResume \/ HookOther

-----------------------------------------------------------------------------
(* small_disc_round and small_disc_exit.                                   *)

\* A poll that began in motion counts with all the time it took.
Driven(n) == elapsed' = IF elapsed + n < ArcTicks THEN elapsed + n ELSE ArcTicks

RoundGoesOn ==
    cpc' = IF elapsed' < ArcTicks /\ ~failed' THEN "arc" ELSE "leave"

\* The poll that pauses includes the halt, the others end with their command.
PollTicks == IF Mine("SMALL_DISC_STOP") \/ NextCommand.type = "STOP"
             THEN {HaltTicks, HaltTicks + 1} ELSE {0, 1}

ArcCommand ==
    /\ cpc = "arc" /\ TakeCommand
    /\ small_disc_hook
    /\ IF paused THEN UNCHANGED elapsed ELSE \E n \in PollTicks : Driven(n)
    /\ RoundGoesOn
    /\ UNCHANGED discId

ArcTick ==
    /\ cpc = "arc" /\ cmdQ = <<>> /\ ~paused
    /\ UNCHANGED <<linkVars, driving, paused, failed, discId>>
    /\ Driven(1)
    /\ RoundGoesOn

ArcOver ==
    /\ cpc = "leave"
    /\ driving' = FALSE
    /\ cpc' = IF failed THEN "broken" ELSE "turn"
    /\ UNCHANGED <<linkVars, discVars>>

BackAway ==
    /\ cpc = "turn"
    /\ cpc' = "exit" /\ driving' = TRUE
    /\ UNCHANGED <<linkVars, discVars>>

\* While backing away a pause ends the stage instead of pausing it.
ExitCommand ==
    /\ cpc = "exit" /\ TakeCommand
    /\ small_disc_hook
    /\ cpc' = IF paused' \/ failed' THEN "break" ELSE "exit"
    /\ UNCHANGED <<elapsed, discId>>

\* The first poll of a base that was paused as the circle ended.
ExitFoundPaused ==
    /\ cpc = "exit" /\ cmdQ = <<>> /\ paused
    /\ cpc' = "break"
    /\ UNCHANGED <<linkVars, driving, discVars>>

ExitOver ==
    /\ \/ cpc = "break" /\ cpc' = "broken"
       \/ cpc = "exit" /\ ~paused /\ cpc' = "done"
    /\ driving' = FALSE
    /\ UNCHANGED <<linkVars, discVars>>

ReportRound ==
    /\ cpc \in {"done", "broken"}
    /\ link_post("SMALL_DISC_FINISHED", discId, cpc = "done")
    /\ cpc' = "gone"
    /\ UNCHANGED <<cmdQ, driving, discVars>>

\* link_wait(GO_DEPOT_1); the stage ends when it arrives.
AwaitNext ==
    /\ cpc = "gone" /\ TakeCommand
    /\ IF NextCommand.type = "GO_DEPOT_1"
       THEN cpc' = "next" /\ UNCHANGED <<driving, evtQ, flags>>
       ELSE cmd_default(NextCommand) /\ UNCHANGED cpc
    /\ UNCHANGED discVars

ChassisNext ==
    \/ AwaitGo \/ RouteDone \/ LocateMoves \/ LocateEnds \/ LocatePolls
    \/ ReportArrival \/ AwaitStart \/ ArcCommand \/ ArcTick \/ ArcOver
    \/ BackAway \/ ExitCommand \/ ExitFoundPaused \/ ExitOver
    \/ ReportRound \/ AwaitNext
=============================================================================

----------------------------- MODULE ChassisProofs -----------------------------
(***************************************************************************)
(* Proofs about the motion service: for every number of navigations and    *)
(* every fault threshold, with or without faults and aborted waits.        *)
(***************************************************************************)
EXTENDS ChassisNav, TLAPS

USE FailMaxAssumption, MaxNavAssumption, FaultAssumption
    DEF Command, None, Halt, Free, NoCmd, Navs, Labels, Below, At,
        ctrlVars, odomVars, guardVars, taskVars, ServiceVars

\* The control task and the base keep the invariant: CtrlTake moves the
\* command out of the queue, CtrlRun drives it, Reach makes it arrive.
LEMMA ControlKeeps ==
    ASSUME NavInductive, CtrlTake \/ CtrlRun \/ Reach
    PROVE  NavInductive'
<1> USE DEF NavInductive, TypeOK, OutFits, PostedIsRun, AtRest, FlagFits,
      PathFits, Parked, ParkedAfterFault, Planning, PostingNav, Posted
<1>1. CASE CtrlTake
  <2>1. FlagsTyped'
    BY <1>1, Zenon DEF CtrlTake, FlagsTyped
  <2> QED
    BY <1>1, <2>1 DEF CtrlTake
<1>2. CASE CtrlRun
  <2>1. FlagsTyped'
    BY <1>2, Zenon DEF CtrlRun, Navigate, Move, Tell, FlagsTyped
  <2> QED
    BY <1>2, <2>1 DEF CtrlRun, Navigate, Move, Tell
<1>3. CASE Reach
  <2>1. FlagsTyped'
    BY <1>3, Zenon DEF Reach, FlagsTyped
  <2> QED
    BY <1>3, <2>1 DEF Reach
<1> QED
  BY <1>1, <1>2, <1>3

\* So do the odometry task and the guard (csvc_odom_task,
\* csvc_guard_task).
LEMMA FaultPathKeeps ==
    ASSUME NavInductive, OdomRead \/ OdomTimeout \/ Latch \/ Park \/
           GuardCheck \/ GuardWrite \/ GuardNull
    PROVE  NavInductive'
<1> USE DEF NavInductive, TypeOK, OutFits, PostedIsRun, AtRest, FlagFits,
      PathFits, Parked, ParkedAfterFault, Planning, PostingNav, Posted
<1>1. CASE OdomRead
  <2>1. FlagsTyped'
    BY <1>1, Zenon DEF OdomRead, FlagsTyped
  <2> QED
    BY <1>1, <2>1 DEF OdomRead
<1>2. CASE OdomTimeout
  <2>1. FlagsTyped'
    BY <1>2, Zenon DEF OdomTimeout, FlagsTyped
  <2> QED
    BY <1>2, <2>1 DEF OdomTimeout
<1>3. CASE Latch
  <2>1. FlagsTyped'
    BY <1>3, Zenon DEF Latch, FlagsTyped
  <2> QED
    BY <1>3, <2>1 DEF Latch
<1>4. CASE Park
  <2>1. FlagsTyped'
    BY <1>4, Zenon DEF Park, Tell, FlagsTyped
  <2> QED
    BY <1>4, <2>1 DEF Park, Tell
<1>5. CASE GuardCheck
  <2>1. FlagsTyped'
    BY <1>5, Zenon DEF GuardCheck, FlagsTyped
  <2> QED
    BY <1>5, <2>1 DEF GuardCheck
<1>6. CASE GuardWrite
  <2>1. FlagsTyped'
    BY <1>6, Zenon DEF GuardWrite, FlagsTyped
  <2> QED
    BY <1>6, <2>1 DEF GuardWrite
<1>7. CASE GuardNull
  <2>1. FlagsTyped'
    BY <1>7, Zenon DEF GuardNull, FlagsTyped
  <2> QED
    BY <1>7, <2>1 DEF GuardNull
<1> QED
  BY <1>1, <1>2, <1>3, <1>4, <1>5, <1>6, <1>7

\* So does csvc_nav up to the command (csvc_plan, the flag, the pointer).
LEMMA PlanningKeeps ==
    ASSUME NavInductive, NavBusy \/ NavFree \/ PlanLock \/ PlanUnlock \/
           Search \/ Found \/ NoWay \/ Accept \/ Point
    PROVE  NavInductive'
<1> USE DEF NavInductive, TypeOK, OutFits, PostedIsRun, AtRest, FlagFits,
      PathFits, Parked, ParkedAfterFault, Planning, PostingNav, Posted
<1>1. CASE NavBusy
  <2>1. FlagsTyped'
    BY <1>1, Zenon DEF NavBusy, Refused, FlagsTyped
  <2> QED
    BY <1>1, <2>1 DEF NavBusy, Refused
<1>2. CASE NavFree
  <2>1. FlagsTyped'
    BY <1>2, Zenon DEF NavFree, FlagsTyped
  <2> QED
    BY <1>2, <2>1 DEF NavFree
<1>3. CASE PlanLock
  <2>1. FlagsTyped'
    BY <1>3, Zenon DEF PlanLock, FlagsTyped
  <2> QED
    BY <1>3, <2>1 DEF PlanLock
<1>4. CASE PlanUnlock
  <2>1. FlagsTyped'
    BY <1>4, Zenon DEF PlanUnlock, FlagsTyped
  <2> QED
    BY <1>4, <2>1 DEF PlanUnlock
<1>5. CASE Search
  <2>1. FlagsTyped'
    BY <1>5, Zenon DEF Search, FlagsTyped
  <2> QED
    BY <1>5, <2>1 DEF Search
<1>6. CASE Found
  <2>1. FlagsTyped'
    BY <1>6, Zenon DEF Found, FlagsTyped
  <2> QED
    BY <1>6, <2>1 DEF Found
<1>7. CASE NoWay
  <2>1. FlagsTyped'
    BY <1>7, Zenon DEF NoWay, Refused, FlagsTyped
  <2> QED
    BY <1>7, <2>1 DEF NoWay, Refused
<1>8. CASE Accept
  <2>1. FlagsTyped'
    BY <1>8, Zenon DEF Accept, FlagsTyped
  <2> QED
    BY <1>8, <2>1 DEF Accept
<1>9. CASE Point
  <2>1. FlagsTyped'
    BY <1>9, Zenon DEF Point, FlagsTyped
  <2> QED
    BY <1>9, <2>1 DEF Point
<1> QED
  BY <1>1, <1>2, <1>3, <1>4, <1>5, <1>6, <1>7, <1>8, <1>9

\* So does everything else the chassis task does: csvc_free, csvc_post,
\* the waits and the pose lock.
LEMMA PostingKeeps ==
    ASSUME NavInductive, Check \/ Write \/ Null \/ Drain \/ Put \/ Arrived
           \/ Settle \/ Drive \/ Stop \/ PoseLock \/ PoseUnlock
    PROVE  NavInductive'
<1> USE DEF NavInductive, TypeOK, OutFits, PostedIsRun, AtRest, FlagFits,
      PathFits, Parked, ParkedAfterFault, Planning, PostingNav, Posted
<1>1. CASE Check
  <2>1. FlagsTyped'
    BY <1>1, Zenon DEF Check, FlagsTyped
  <2> QED
    BY <1>1, <2>1 DEF Check
<1>2. CASE Write
  <2>1. FlagsTyped'
    BY <1>2, Zenon DEF Write, FlagsTyped
  <2> QED
    BY <1>2, <2>1 DEF Write
<1>3. CASE Null
  <2>1. FlagsTyped'
    BY <1>3, Zenon DEF Null, FlagsTyped
  <2> QED
    BY <1>3, <2>1 DEF Null
<1>4. CASE Drain
  <2>1. FlagsTyped'
    BY <1>4, Zenon DEF Drain, FlagsTyped
  <2> QED
    BY <1>4, <2>1 DEF Drain
<1>5. CASE Put
  <2>1. FlagsTyped'
    BY <1>5, Zenon DEF Put, After, FlagsTyped
  <2> QED
    BY <1>5, <2>1 DEF Put, After
<1>6. CASE Arrived
  <2>1. FlagsTyped'
    BY <1>6, Zenon DEF Arrived, FlagsTyped
  <2> QED
    BY <1>6, <2>1 DEF Arrived
<1>7. CASE Settle
  <2>1. FlagsTyped'
    BY <1>7, Zenon DEF Settle, FlagsTyped
  <2> QED
    BY <1>7, <2>1 DEF Settle
<1>8. CASE Drive
  <2>1. FlagsTyped'
    BY <1>8, Zenon DEF Drive, FlagsTyped
  <2> QED
    BY <1>8, <2>1 DEF Drive
<1>9. CASE Stop
  <2>1. FlagsTyped'
    BY <1>9, Zenon DEF Stop, FlagsTyped
  <2> QED
    BY <1>9, <2>1 DEF Stop
<1>10. CASE PoseLock
  <2>1. FlagsTyped'
    BY <1>10, Zenon DEF PoseLock, FlagsTyped
  <2> QED
    BY <1>10, <2>1 DEF PoseLock
<1>11. CASE PoseUnlock
  <2>1. FlagsTyped'
    BY <1>11, Zenon DEF PoseUnlock, FlagsTyped
  <2> QED
    BY <1>11, <2>1 DEF PoseUnlock
<1> QED
  BY <1>1, <1>2, <1>3, <1>4, <1>5, <1>6, <1>7, <1>8, <1>9, <1>10, <1>11

\* The invariant of the motion service: what the chassis task posted is where
\* the control task will find it, and whoever is about to navigate is at rest.
THEOREM NavInvariant == Spec => []NavInductive
<1>1. Init => NavInductive
  <2> SUFFICES ASSUME Init PROVE NavInductive
    OBVIOUS
  <2>1. FlagsTyped
    BY Zenon DEF Init, FlagsTyped
  <2> QED
    BY <2>1 DEF Init, NavInductive, TypeOK, OutFits, PostedIsRun, AtRest,
       FlagFits, PathFits, Parked, ParkedAfterFault, Planning, PostingNav,
       Posted
<1>2. NavInductive /\ [Next]_vars => NavInductive'
  <2> SUFFICES ASSUME NavInductive, [Next]_vars PROVE NavInductive'
    OBVIOUS
  <2>1. CASE Ctrl \/ Reach
    BY <2>1, ControlKeeps DEF Ctrl
  <2>2. CASE Odom \/ Guard
    BY <2>2, FaultPathKeeps DEF Odom, Guard
  <2>3. CASE InCall \/ Drive \/ Stop \/ PoseLock
    BY <2>3, PlanningKeeps, PostingKeeps DEF InCall
  <2>4. CASE \E m \in Navs : NavWait(m)
    <3> PICK m \in Navs : NavWait(m)
      BY <2>4
    <3> USE DEF NavInductive, TypeOK, OutFits, PostedIsRun, AtRest, FlagFits,
          PathFits, Parked, ParkedAfterFault, Planning, PostingNav, Posted
    <3>1. FlagsTyped'
      BY Zenon DEF NavWait, FlagsTyped
    <3> QED
      BY <3>1 DEF NavWait
  <2>5. CASE UNCHANGED vars
    BY <2>5 DEF vars, NavInductive, TypeOK, FlagsTyped, OutFits, PostedIsRun,
       AtRest, FlagFits, PathFits, Parked, ParkedAfterFault, Planning,
       PostingNav, Posted
  <2> QED
    BY <2>1, <2>2, <2>3, <2>4, <2>5 DEF Next, Task
<1> QED
  BY <1>1, <1>2, PTL DEF Spec

\* A navigation that is waited for is never dropped by the queue of depth one
\* and never overtaken by another command (csvc_post, csvc_nav).
THEOREM NavigationNotLost == Spec => []NavNotLost
<1>1. NavInductive => NavNotLost
  BY DEF NavInductive, NavNotLost, TypeOK, FlagsTyped, OutFits, PostedIsRun,
     FlagFits, Posted
<1> QED
  BY <1>1, NavInvariant, PTL

\* Without a fault the flag that ends a wait is that of the navigation waited
\* for, and the base is there (g_nav_fin, csvc_ctrl_task, csvc_cancel_nav).
THEOREM ArrivalMeansTarget == Spec => []ArrivalIsReal
<1>1. NavInductive => ArrivalIsReal
  BY DEF NavInductive, ArrivalIsReal, FlagFits
<1> QED
  BY <1>1, NavInvariant, PTL

\* The search writes g_path outside the lock, and yet the control task never
\* follows a path that is being written or is another navigation's (csvc_plan).
THEOREM OwnPathFollowed == Spec => []FollowsOwnPath
<1>1. NavInductive => FollowsOwnPath
  BY DEF NavInductive, FollowsOwnPath, PathFits
<1> QED
  BY <1>1, NavInvariant, PTL

\* If no wheel command is refused, the stop of the guard is the last thing
\* the wheels are told (csvc_guard_task).
THEOREM ParkIsFinal ==
    ASSUME SendFaults = FALSE
    PROVE  Spec => []ParkedAfterFault
<1>1. NavInductive => ParkedAfterFault
  BY DEF NavInductive, Parked
<1> QED
  BY <1>1, NavInvariant, PTL

\* If no wheel command is refused, the base stands when align_stop returns.
THEOREM StopIsDone ==
    ASSUME SendFaults = FALSE
    PROVE  Spec => []StandsWhenIdle
<1>1. NavInductive => StandsWhenIdle
  BY DEF NavInductive, StandsWhenIdle, TypeOK, OutFits, AtRest, Parked,
     ParkedAfterFault
<1> QED
  BY <1>1, NavInvariant, PTL
===============================================================================

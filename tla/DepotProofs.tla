---------------------------- MODULE DepotProofs ----------------------------
(***************************************************************************)
(* Proofs about the depot, for every start, table, sign and number of      *)
(* faults: the cells drawn for unread balls (ball_manifest_plan_fallback), *)
(* and that DepotInv of DepotRunInv is inductive for DepotRun, from which  *)
(* the safety properties of the depot follow.                              *)
(*                                                                         *)
(* A handler of the Mission task is proved from the operators it is made   *)
(* of, in the order of the model: fail, enter, run_arm, go and look first, *)
(* then the balls, the blocks, and the answers of base, arm and camera.    *)
(***************************************************************************)
EXTENDS DepotRunInv, MissionProofs, FiniteSetTheorems, FunctionTheorems

\* The nine cells an unread ball may be drawn for.
LEMMA NineCells == IsFiniteSet(FallbackCells) /\ Cardinality(FallbackCells) = 9
<1>1. IsFiniteSet(1..3) /\ Cardinality(1..3) = 3
  <2>1. 1 \in Int /\ 3 \in Int
    OBVIOUS
  <2>2. /\ IsFiniteSet(1..3)
        /\ Cardinality(1..3) = IF 1 > 3 THEN 0 ELSE 3 - 1 + 1
    BY <2>1, FS_Interval, Zenon
  <2> QED
    BY <2>2
<1> QED
  BY <1>1, FS_Product DEF FallbackCells

\* A cell that is taken is the target of a record that needs no draw.
LEMMA TakenByOthers ==
    ASSUME NEW m, Table(m)
    PROVE  Read(m) \cup Drawn(m) \subseteq
             {Target(m[i]) : i \in DOMAIN m \ Unplanned(m)}
<1>1. ASSUME NEW x \in Read(m)
      PROVE  x \in {Target(m[i]) : i \in DOMAIN m \ Unplanned(m)}
  <2>1. PICK i \in DOMAIN m : x = m[i].cell
    BY <1>1 DEF Read
  <2>2. x # NoCell
    BY <1>1 DEF Read, FallbackCells, NoCell
  <2>3. i \notin Unplanned(m) /\ Target(m[i]) = x
    BY <2>1, <2>2 DEF Table, Unplanned, Target
  <2> QED
    BY <2>3
<1>2. ASSUME NEW x \in Drawn(m)
      PROVE  x \in {Target(m[i]) : i \in DOMAIN m \ Unplanned(m)}
  <2>1. PICK i \in DOMAIN m : x = m[i].fallback
    BY <1>2 DEF Drawn
  <2>2. x # NoCell
    BY <1>2 DEF Drawn
  <2>3. i \notin Unplanned(m) /\ Target(m[i]) = x
    BY <2>1, <2>2 DEF Table, Unplanned, Target, DrawnFits
  <2> QED
    BY <2>3
<1> QED
  BY <1>1, <1>2

\* There is always room: the draw never fails with BALL_MANIFEST_ERR_FULL,
\* whatever mix of read, doubled and unread cards the table holds.
THEOREM CellsAlwaysSuffice ==
    ASSUME NEW m, Table(m)
    PROVE  CellsSuffice(m)
<1> DEFINE U == Unplanned(m)
           R == DOMAIN m \ U
           taken == Read(m) \cup Drawn(m)
           g == [i \in R |-> Target(m[i])]
<1>1. DOMAIN m = 1..Len(m) /\ Len(m) \in Nat /\ Len(m) <= 9
  BY DEF Table, Capacity
<1>2. IsFiniteSet(DOMAIN m) /\ Cardinality(DOMAIN m) <= 9
  <2>1. /\ IsFiniteSet(1..Len(m))
        /\ Cardinality(1..Len(m)) = IF 1 > Len(m) THEN 0 ELSE Len(m) - 1 + 1
    <3>1. 1 \in Int /\ Len(m) \in Int
      BY <1>1
    <3> QED
      BY <3>1, FS_Interval, Zenon
  <2> QED
    BY <1>1, <2>1
<1>3. U \subseteq DOMAIN m
  BY DEF Unplanned
<1>4. /\ IsFiniteSet(R)
      /\ Cardinality(R) = Cardinality(DOMAIN m) - Cardinality(U)
  <2>1. DOMAIN m \cap U = U
    BY <1>3
  <2> QED
    BY <1>2, <2>1, FS_Difference
<1>5. /\ IsFiniteSet({g[i] : i \in R})
      /\ Cardinality({g[i] : i \in R}) <= Cardinality(R)
  <2>1. g \in Surjection(R, {g[i] : i \in R})
    BY DEF Surjection
  <2> QED
    BY <2>1, <1>4, FS_Surjection
<1>6. taken \in SUBSET {g[i] : i \in R}
  BY TakenByOthers
<1>7. IsFiniteSet(taken) /\ Cardinality(taken) <= Cardinality(R)
  <2>1. IsFiniteSet(taken) /\ Cardinality(taken) <= Cardinality({g[i] : i \in R})
    BY <1>5, <1>6, FS_Subset
  <2> HIDE DEF g
  <2> QED
    BY <2>1, <1>4, <1>5, FS_CardinalityType
<1>8. /\ Cardinality(FallbackCells \cap taken) <= Cardinality(taken)
      /\ IsFiniteSet(FallbackCells \cap taken)
  BY <1>7, FS_Intersection
<1>9. Cardinality(FreeCells(m)) = 9 - Cardinality(FallbackCells \cap taken)
  BY NineCells, FS_Difference DEF FreeCells
<1>10. IsFiniteSet(U)
  BY <1>2, <1>3, FS_Subset
<1>11. /\ Cardinality(U) \in Nat /\ Cardinality(R) \in Nat
       /\ Cardinality(taken) \in Nat /\ Cardinality(DOMAIN m) \in Nat
       /\ Cardinality(FallbackCells \cap taken) \in Nat
  BY <1>2, <1>4, <1>7, <1>8, <1>10, FS_CardinalityType
<1> HIDE DEF U, R, taken, g
<1>12. Cardinality(U) <= Cardinality(FreeCells(m))
  BY <1>2, <1>4, <1>7, <1>8, <1>9, <1>11
<1> QED
  BY <1>12 DEF U, CellsSuffice

\* So there is an injection to draw from: mission_depot_prepare goes on with some
\* plan, and no table of the robot ends in a storage fault there.
THEOREM SomePlan ==
    ASSUME NEW m, Table(m)
    PROVE  plan_fallback(m) # {}
<1> DEFINE U == Unplanned(m)
           F == FreeCells(m)
           n == Cardinality(U)
           k == Cardinality(F)
<1>1. IsFiniteSet(F)
  BY NineCells, FS_Difference DEF FreeCells
<1>2. IsFiniteSet(U)
  <2>1. DOMAIN m = 1..Len(m) /\ Len(m) \in Int /\ 1 \in Int
    BY DEF Table
  <2>2. IsFiniteSet(DOMAIN m)
    BY <2>1, FS_Interval, Zenon
  <2> QED
    BY <2>2, FS_Subset DEF Unplanned
<1>3. n \in Nat /\ k \in Nat /\ n <= k
  BY <1>1, <1>2, CellsAlwaysSuffice, FS_CardinalityType DEF CellsSuffice
<1>4. PICK a : a \in Bijection(1..n, U)
  BY <1>2, FS_CardinalityType, Fun_ExistsBij, Zenon
<1>5. PICK b : b \in Bijection(1..k, F)
  BY <1>1, FS_CardinalityType, Fun_ExistsBij, Zenon
<1> HIDE DEF U, F, n, k
<1>6. PICK c : c \in Injection(U, 1..n)
  <2>1. Inverse(a, 1..n, U) \in Bijection(U, 1..n)
    BY <1>4, Fun_BijInverse, Zenon
  <2>2. Inverse(a, 1..n, U) \in Injection(U, 1..n)
    BY <2>1 DEF Bijection
  <2> QED
    BY <2>2
<1>7. b \in Injection(1..k, F)
  BY <1>5, Fun_BijectionProperties, Zenon
<1>8. c \in Injection(U, 1..k)
  <2>1. c \in [U -> 1..n] /\ \A x, y \in U : c[x] = c[y] => x = y
    BY <1>6, Fun_InjectionProperties, Zenon
  <2>2. 1..n \subseteq 1..k
    BY <1>3
  <2>3. c \in [U -> 1..k]
    BY <2>1, <2>2
  <2> QED
    BY <2>1, <2>3, Fun_IsInj, Zenon
<1>9. [x \in U |-> b[c[x]]] \in Injection(U, F)
  BY <1>7, <1>8, Fun_InjTransitive, Zenon
<1> QED
  BY <1>9 DEF U, F, plan_fallback

\* What comes out of the draw: no unread ball is left without a cell, the cells
\* drawn are in the first three columns, differ, and are named by no card, and
\* nothing else in the table has changed.
THEOREM PlanGivesOwnCells ==
    ASSUME NEW m, Table(m), NEW p \in plan_fallback(m)
    PROVE  /\ Table(p) /\ Unplanned(p) = {}
           /\ \A i \in DOMAIN m : [p[i] EXCEPT !.fallback = m[i].fallback] = m[i]
<1>1. PICK f \in Injection(Unplanned(m), FreeCells(m)) :
        p = [i \in DOMAIN m |->
              IF i \in Unplanned(m) THEN [m[i] EXCEPT !.fallback = f[i]] ELSE m[i]]
  BY DEF plan_fallback
<1>2. /\ f \in [Unplanned(m) -> FreeCells(m)]
      /\ \A i, j \in Unplanned(m) : f[i] = f[j] => i = j
  BY <1>1, Fun_InjectionProperties, Zenon
<1>3. /\ m \in Seq(RecordType) /\ DOMAIN m = 1..Len(m) /\ Len(m) \in Nat
      /\ \A i \in DOMAIN m : m[i] \in RecordType
  BY DEF Table
<1>4. \A i \in Unplanned(m) :
        f[i] \in FallbackCells /\ f[i] \notin Read(m) /\ f[i] \notin Drawn(m)
  BY <1>2 DEF FreeCells
<1>5. NoCell \notin FallbackCells
  BY DEF NoCell, FallbackCells
<1>6. \A i \in DOMAIN m :
        /\ p[i] \in RecordType
        /\ p[i].slot = m[i].slot /\ p[i].cell = m[i].cell /\ p[i].state = m[i].state
        /\ p[i].fallback = IF i \in Unplanned(m) THEN f[i] ELSE m[i].fallback
        /\ [p[i] EXCEPT !.fallback = m[i].fallback] = m[i]
  <2>1. SUFFICES ASSUME NEW i \in DOMAIN m
                 PROVE  /\ p[i] \in RecordType
                        /\ p[i].slot = m[i].slot /\ p[i].cell = m[i].cell
                        /\ p[i].state = m[i].state
                        /\ p[i].fallback = IF i \in Unplanned(m) THEN f[i]
                                           ELSE m[i].fallback
                        /\ [p[i] EXCEPT !.fallback = m[i].fallback] = m[i]
    OBVIOUS
  <2>2. CASE i \in Unplanned(m)
    BY <1>1, <1>3, <1>4, <2>2 DEF RecordType
  <2>3. CASE i \notin Unplanned(m)
    BY <1>1, <1>3, <2>3 DEF RecordType
  <2> QED
    BY <2>2, <2>3
<1>7. p \in Seq(RecordType) /\ Len(p) = Len(m) /\ DOMAIN p = DOMAIN m
  BY <1>1, <1>3, <1>6
<1>8. Read(p) = Read(m)
  BY <1>6, <1>7 DEF Read
<1>9. Unplanned(p) = {}
  BY <1>2, <1>4, <1>5, <1>6, <1>7 DEF Unplanned
<1>10. DrawnFits(p)
  <2>1. SUFFICES ASSUME NEW i \in DOMAIN m, p[i].fallback # NoCell
                 PROVE  /\ p[i].cell = NoCell /\ p[i].fallback \notin Read(m)
                        /\ \A j \in DOMAIN m :
                             p[j].fallback = p[i].fallback => i = j
    BY <1>7, <1>8 DEF DrawnFits
  <2>2. \A j \in DOMAIN m \ Unplanned(m) :
          m[j].fallback # NoCell => m[j].fallback \in Drawn(m)
    BY DEF Drawn
  <2>3. CASE i \in Unplanned(m)
    <3>1. p[i].fallback = f[i] /\ f[i] # NoCell
      BY <1>4, <1>5, <1>6, <2>3
    <3>2. p[i].cell = NoCell
      BY <1>6, <2>3 DEF Table, Unplanned
    <3> QED
      BY <1>2, <1>4, <1>6, <2>2, <2>3, <3>1, <3>2
  <2>4. CASE i \notin Unplanned(m)
    <3>1. p[i].fallback = m[i].fallback /\ m[i].fallback \in Drawn(m)
      BY <1>6, <2>1, <2>2, <2>4
    <3> QED
      BY <1>4, <1>6, <2>1, <2>4, <3>1 DEF Table, DrawnFits
  <2> QED
    BY <2>3, <2>4
<1>11. \A i \in DOMAIN p : p[i].state = "READ_FAILED" => p[i].cell = NoCell
  BY <1>6, <1>7 DEF Table
<1> QED
  BY <1>6, <1>7, <1>9, <1>10, <1>11 DEF Table

-----------------------------------------------------------------------------
(* What the handlers of the Mission task are made of.                      *)

ContextType ==
    [vis : VisionType, id : 1..IdMax, active : Groups \cup {0},
     block : BlockType, depot : DepotType, manifest : Seq(RecordType)]

\* The context a handler works on.
Context(c) ==
    /\ c \in ContextType /\ SafeRecord(c.vis) /\ StopNoted(c.vis)
    /\ Table(c.manifest) /\ InSlotOrder(c.manifest)

\* What a step of the main loop leaves alone, or may do to its flags, when its
\* handler worked on the record v.
HandlerStep(v) ==
    /\ UNCHANGED <<flags, worldVars, chassisVars, side, stops>>
    /\ got' \subseteq got /\ userQ' \in 0..CommandDepth /\ pc' \in LoopStages
    /\ evtQ' \in Seq([type : EventTypes, id : Nat, ok : BOOLEAN])
    /\ OkSeen' => OkSeen
    /\ pc' = "turning" => pc = "turning"
    /\ \/ /\ Answered(vis) => Answered(v)
          /\ \/ pc' \in {"process", "timeout", "wait", "turning"}
             \/ pc \in {"commands", "events", "arm", "storing", "storeStopped"}
       \/ DoneSeen /\ pc' = "process"

\* The gripper as a state finds it.
Grip(s, b) ==
    /\ s \in {"BLOCK_PREPARE", "BLOCK_WAIT_POSE", "BLOCK_WAIT_POSITION",
              "BLOCK_SETTLE", "BLOCK_WAIT_DIGIT"} => ~held /\ b.digit = 0
    /\ s = "BLOCK_WAIT_GRASP" => ~held /\ b.digit # 0
    /\ s = "BLOCK_WAIT_D4" => held = (b.digit # 0)
    /\ s = "BLOCK_WAIT_PLACE" => held
    /\ s \in {"BLOCK_FINISH", "BLOCK_RETURN_DEPOT"} => ~held

\* The context fits a state that is about to be entered.
Apt(s, c) ==
    /\ BlockFits(s, c.block, c.depot) /\ Grip(s, c.block)
    /\ BallsFit(s, c.depot, c.manifest)

\* The run goes on, the base stands and nothing is under way: the moment in which
\* a handler enters the next state.  Unless it sends the base on, the base stands
\* where the context says.
Calm(c) ==
    /\ Context(c) /\ HandlerStep(c.vis) /\ state \notin RestStates
    /\ c.vis.phase = "IDLE" /\ ~c.vis.stopReq
    /\ cmdQ = <<>> /\ evtQ' = <<>> /\ ~driving /\ cpc = "depot"
    /\ arm = 0 /\ ~OkSignalled' /\ pc' # "turning"

\* The invariant types what the lemmas of MissionProofs are about.
LEMMA Typed ==
    ASSUME ControlInv
    PROVE  CtxTyped(DepotStates) /\ LoopTyped
BY DEF ControlInv, TypeOK, CoreTypeOK, CtxTyped, LoopTyped, DepotStates, RestStates

\* The context of the balls and blocks fits whatever the loop does.
LEMMA DataKept ==
    ASSUME UNCHANGED <<side, base, misread>>,
           NEW s, NEW b, NEW d, NEW m,
           state' = s, block' = b, depot' = d, manifest' = m,
           BlockFits(s, b, d), BallsFit(s, d, m)
    PROVE  BlockFits(state, block, depot)' /\ BallsFit(state, depot, manifest)'
<1>1. BlockFits(state, block, depot)'
  BY DEF BlockFits, mission_block_place_point, EntryPoint
<1>2. BallsFit(state, depot, manifest)'
  BY DEF BallsFit, StationsFit, BallFits, Visited, OnTheWay, EntryPoint, Sign
<1> QED BY <1>1, <1>2

\* A handler that is sound for the Mission task keeps its parts.
LEMMA ControlKept ==
    ASSUME ControlInv, NEW v, HandlerStep(v), Handled(DepotStates, v),
           block' \in BlockType, depot' \in DepotType, Table(manifest')
    PROVE  ControlInv'
<1>1. DoneMeansAnswered'
  BY DoneKept DEF HandlerStep, Handled, ControlInv
<1>2. ChassisTypeOK'
  BY DEF HandlerStep, chassisVars, ControlInv, TypeOK, ChassisTypeOK
<1>3. CoreTypeOK' /\ state' \in DepotStates
  BY DEF HandlerStep, Handled, CtxTyped, ControlInv, TypeOK, CoreTypeOK,
         SafeRecord, DepotStates, RestStates
<1>4. /\ side' \in Sides /\ seen' \in 0..ScanFault /\ misread' \in 0..Misreads
      /\ held' \in BOOLEAN /\ misread' \in Nat
  BY DEF HandlerStep, worldVars, ControlInv, TypeOK
<1>5. \A i \in DOMAIN manifest' : manifest'[i] \in RecordType
  BY DEF Table
<1> QED
  BY <1>1, <1>2, <1>3, <1>4, <1>5 DEF TypeOK, ControlInv, Handled, CtxTyped, HandlerStep

\* A ball is let go over its own cell, as long as the run goes on.
LEMMA OwnCell ==
    /\ ControlInv /\ Table(manifest) /\ state \notin RestStates /\ BaseFits /\ ArmFits
    /\ BallsFit(state, depot, manifest) /\ misread <= 1
    => RightCell
<1> SUFFICES ASSUME ControlInv, Table(manifest), state \notin RestStates, BaseFits,
                    ArmFits, BallsFit(state, depot, manifest), misread <= 1
             PROVE  RightCell
  OBVIOUS
<1>1. SUFFICES ASSUME arm \in {23, 25, 26} PROVE RightCell
  BY DEF RightCell
<1>2. /\ state = "DEPOT_PLACE" /\ arm = PlaceGroup(depot.row)
  BY <1>1 DEF ArmFits, GroupsOf, PlaceGroup
<1>3. base = depot.position
  BY <1>2 DEF BaseFits, Standing, AskStates, BlockMoveStates
<1> DEFINE i == depot.sequence
<1>4. ~depot.preparing
  BY <1>2 DEF BallsFit, StationsFit, PlacingStates, BallStates, Preparing
<1>5. /\ depot.column \in depot.used
      /\ i \in DOMAIN manifest \ depot.abnormal
      /\ manifest[i].state # "PLACED"
      /\ Target(manifest[i]) = <<depot.row, depot.column>>
      /\ manifest[i].slot = depot.slot
      /\ depot.column = Signs[side][base]
  BY <1>2, <1>4 DEF BallsFit, BallFits, PlacingStates, BallStates, Fetching, Sign
<1>6. depot \in DepotType /\ side \in Sides /\ base \in {0} \cup Stations
  BY DEF ControlInv, TypeOK, ChassisTypeOK
<1>7. Target(manifest[i]) \in Cells
  BY <1>2, <1>5 DEF BallsFit, PlacingStates, BallStates, Planned
<1>8. depot.row \in 1..3
  BY <1>5, <1>7 DEF Cells
<1>9. RowOf(arm) = depot.row
  BY <1>2, <1>8 DEF RowOf, PlaceGroup
<1>10. base # 0
  BY <1>2, <1>4, <1>3 DEF BallsFit, PlacingStates, BallStates, Fetching, StationsFit, OnTheWay
<1>11. Target(manifest[i]) \notin PlacedCells
  <2>1. SUFFICES ASSUME NEW j \in DOMAIN manifest, manifest[j].state = "PLACED",
                        Target(manifest[j]) = Target(manifest[i])
                 PROVE  FALSE
    BY DEF PlacedCells
  <2>2. j \notin depot.abnormal
    BY <1>2, <2>1 DEF BallsFit, PlacingStates, BallStates, PlacedFits
  <2>3. j = i
    BY <1>2, <1>5, <2>1, <2>2 DEF BallsFit, PlacingStates, BallStates, Planned
  <2> QED BY <1>5, <2>1, <2>3
<1> QED BY <1>5, <1>9, <1>10, <1>11 DEF RightCell

\* A step into a state that goes on.
LEMMA Entered ==
    ASSUME ControlInv', state' \notin RestStates, state \notin RestStates,
           Table(manifest'), InSlotOrder(manifest'), BaseFits', ArmFits', HeldFits',
           SessionFits', StoppingFits', DigitsFit',
           BlockFits(state, block, depot)', BallsFit(state, depot, manifest)'
    PROVE  DepotInv' /\ RestIsKept
<1>1. Table(manifest)' /\ InSlotOrder(manifest)'
  BY DEF Table, InSlotOrder
<1>2. (ControlInv /\ Table(manifest) /\ state \notin RestStates /\ BaseFits /\ ArmFits
        /\ BallsFit(state, depot, manifest) /\ misread <= 1
        => RightCell)'
  BY OwnCell, PTL
<1> QED BY <1>1, <1>2 DEF DepotInv, RestIsKept

\* The run ends, or had ended before: what the arm still does it does where it is.
LEMMA RestKeeps ==
    ASSUME DepotInv, NEW v, HandlerStep(v), Handled(DepotStates, v), StopOnly, Rested,
           block' \in BlockType, depot' \in DepotType,
           Table(manifest'), InSlotOrder(manifest'),
           state \in BlockStates => arm' = 0,
           arm' # 0 => UNCHANGED <<depot, manifest>>
    PROVE  DepotInv' /\ RestIsKept
<1>0. /\ UNCHANGED <<flags, seen, misread, held, cpc, driving, base, goal, reqId, side>>
      /\ state' \in RestStates /\ arm' \in {0, arm}
      /\ armHome' => armHome
      /\ OkSeen' => OkSeen
      /\ pc' = "turning" => pc = "turning"
  BY DEF HandlerStep, worldVars, chassisVars, Rested
<1>1. ControlInv'
  BY ControlKept DEF DepotInv
<1>2. Table(manifest)' /\ InSlotOrder(manifest)'
  BY DEF Table, InSlotOrder
<1>3. ASSUME arm' # 0
      PROVE  /\ cpc = "depot" /\ ~driving
             /\ \A i \in DOMAIN cmdQ : cmdQ[i].type = "STOP"
             /\ arm' \notin BlockGroups
  <2>1. CASE state \in RestStates
    BY <1>0, <1>3, <2>1 DEF DepotInv, BaseFits, ArmFits
  <2>2. CASE state \notin RestStates
    <3>1. state \in DepotArmStates /\ arm \in GroupsOf(state, depot)
      BY <1>0, <1>3, <2>2 DEF DepotInv, ArmFits, BlockArmStates, BlockStates
    <3>2. arm' \notin BlockGroups
      BY <1>0, <3>1 DEF GroupsOf, DepotArmStates, PlaceGroup, BlockGroups
    <3>3. Standing(state, depot) /\ state # "COMPLETE"
      BY <2>2, <3>1 DEF DepotInv, BaseFits, DepotArmStates, AskStates, BlockMoveStates
    <3> QED BY <3>2, <3>3 DEF Standing
  <2> QED BY <2>1, <2>2
<1>4. BaseFits'
  <2>1. ASSUME arm' # 0 PROVE \A i \in DOMAIN cmdQ' : cmdQ'[i].type = "STOP"
    <3>1. cmdQ \in Seq(Commands)
      BY DEF DepotInv, ControlInv, QueueTyped
    <3>2. ASSUME NEW id, cmdQ' = Sent("STOP", id)
          PROVE  \A i \in DOMAIN cmdQ' : cmdQ'[i].type = "STOP"
      BY <1>3, <2>1, <3>1, <3>2 DEF Sent, Command
    <3> QED BY <1>3, <2>1, <3>2 DEF Rested
  <2> QED BY <1>0, <1>3, <2>1 DEF BaseFits, AskStates, BlockMoveStates, RestStates
<1>5. OkSignalled' => OkSignalled
  BY <1>0 DEF OkSignalled
<1>6. ArmFits'
  <2>1. ArmFits
    BY DEF DepotInv
  <2> QED BY <1>0, <1>3, <1>5, <2>1 DEF ArmFits, BlockGroups
<1>7. HeldFits' /\ SessionFits' /\ StoppingFits' /\ DigitsFit'
  BY <1>0 DEF HeldFits, SessionFits, StoppingFits, DigitsFit, RestStates
<1>8. BlockFits(state, block, depot)' /\ BallsFit(state, depot, manifest)'
  BY <1>0 DEF BlockFits, BallsFit, RestStates, BlockStages, BlockStates, PlacingStates,
              BallStates, StationStates, LastStates
<1>9. misread' <= 1 => RightCell'
  <2>1. CASE arm' = 0
    BY <2>1 DEF RightCell
  <2>2. CASE arm' # 0
    <3>1. UNCHANGED <<depot, manifest, base, side, misread, arm>>
      BY <1>0, <2>2
    <3>2. RightCell => RightCell'
      BY <3>1 DEF RightCell, PlacedCells
    <3> QED BY <3>1, <3>2 DEF DepotInv
  <2> QED BY <2>1, <2>2
<1>10. RestIsKept
  BY <1>0 DEF RestIsKept, StopOnly
<1> QED BY <1>1, <1>2, <1>4, <1>6, <1>7, <1>8, <1>9, <1>10 DEF DepotInv

\* A failure is one: the arm is halted in the states of the building blocks.
LEMMA HaltsArm ==
    ASSUME NEW w, NEW f, mission_fail(w, f), state \in BlockStates
    PROVE  arm' = 0
<1>1. state \notin {"FAULT", "STOPPED"}
  BY DEF BlockStates
<1>2. halt_block_arm(w)
  BY <1>1 DEF mission_fail
<1> QED BY <1>2 DEF halt_block_arm

\* A fault, whatever the handler has written before.
LEMMA FailKeeps ==
    ASSUME DepotInv, NEW c, Context(c), NEW f \in Faults, fail(c, f), HandlerStep(c.vis),
           arm # 0 => c.depot = depot /\ c.manifest = manifest
    PROVE  DepotInv' /\ RestIsKept
<1> DEFINE w == [vis |-> c.vis, id |-> c.id, active |-> c.active]
<1>1. mission_fail(c, f) /\ written(c)
  BY DEF fail
<1>2. mission_fail(w, f)
  BY <1>1 DEF mission_fail, halt_block_arm
<1>3. w \in Contexts /\ w.vis = c.vis
  BY DEF Contexts, Context, ContextType
<1> HIDE DEF w
<1>4. Handled(DepotStates, c.vis) /\ StopOnly /\ Rested
  <2>1. CtxTyped(DepotStates)
    BY Typed DEF DepotInv
  <2>2. SafeRecord(w.vis) /\ StopNoted(w.vis)
    BY <1>3 DEF Context
  <2> QED BY <1>2, <1>3, <2>1, <2>2, FailSafe
<1>5. arm' # 0 => arm # 0
  BY <1>4 DEF Rested
<1>6. state \in BlockStates => arm' = 0
  BY <1>1, HaltsArm
<1> QED
  BY <1>1, <1>4, <1>5, <1>6, RestKeeps DEF written, Context, ContextType

\* The refusals of start_arm and start_vision write the same.
LEMMA RefusalKeeps ==
    ASSUME DepotInv, NEW c, Context(c), HandlerStep(c.vis), written(c), arm = 0,
           NEW w \in Contexts, SafeRecord(w.vis), StopNoted(w.vis),
           Answered(c.vis) => Answered(w.vis),
           NEW f \in Faults, mission_fail(w, f)
    PROVE  DepotInv' /\ RestIsKept
<1>1. Handled(DepotStates, w.vis) /\ StopOnly /\ Rested
  BY FailSafe, Typed DEF DepotInv
<1>2. Handled(DepotStates, c.vis)
  BY <1>1 DEF Handled
<1>3. arm' = 0
  BY <1>1 DEF Rested
<1> QED
  BY <1>1, <1>2, <1>3, RestKeeps DEF written, Context, ContextType

-----------------------------------------------------------------------------
(* The ways a handler enters the next state.                               *)

\* What all of them need.
LEMMA CalmKept ==
    ASSUME DepotInv, NEW c, Calm(c), NEW s \in DepotStates \ RestStates,
           state' = s, UNCHANGED side, block' = c.block, depot' = c.depot,
           manifest' = c.manifest, Apt(s, c), Handled(DepotStates, c.vis)
    PROVE  /\ ControlInv' /\ Table(manifest') /\ InSlotOrder(manifest')
           /\ BlockFits(state, block, depot)' /\ BallsFit(state, depot, manifest)'
           /\ UNCHANGED <<held, base, cpc, driving, misread, flags>>
<1>1. block' \in BlockType /\ depot' \in DepotType /\ Table(manifest') /\ InSlotOrder(manifest')
  BY DEF Calm, Context, ContextType
<1>2. ControlInv'
  BY <1>1, ControlKept DEF DepotInv, Calm
<1>3. UNCHANGED <<held, base, cpc, driving, misread, flags>>
  BY DEF Calm, HandlerStep, worldVars, chassisVars
<1>4. BlockFits(state, block, depot)' /\ BallsFit(state, depot, manifest)'
  BY <1>3, DataKept DEF Apt
<1> QED BY <1>1, <1>2, <1>3, <1>4

\* The next state is entered with base and arm at rest.
LEMMA EnterKeeps ==
    ASSUME DepotInv, NEW c, Calm(c), NEW s \in {"DEPOT_SEEK", "BLOCK_SETTLE"},
           base = c.depot.position, Apt(s, c), enter(c, s)
    PROVE  DepotInv' /\ RestIsKept
<1>0. /\ state' = s /\ vis' = c.vis /\ requestId' = c.id /\ activeArm' = c.active
      /\ UNCHANGED <<fault, armHome, arm, cmdQ>>
      /\ block' = c.block /\ depot' = c.depot /\ manifest' = c.manifest /\ side' = side
  BY DEF enter, written
<1>1. s \in DepotStates \ RestStates /\ s \notin AskStates
  BY DEF DepotStates, RestStates, AskStates, BlockMoveStates
<1>2. Handled(DepotStates, c.vis)
  BY <1>0, <1>1, Typed DEF DepotInv, CtxTyped, Handled, Calm, Context, ContextType,
                           StopNoted, QueueTyped
<1>3. /\ ControlInv' /\ Table(manifest') /\ InSlotOrder(manifest')
      /\ BlockFits(state, block, depot)' /\ BallsFit(state, depot, manifest)'
      /\ UNCHANGED <<held, base, cpc, driving, misread, flags>>
  BY <1>0, <1>1, <1>2, CalmKept
<1>4. BaseFits'
  BY <1>0, <1>1, <1>3 DEF BaseFits, Standing, Calm
<1>5. ArmFits'
  BY <1>0, <1>1, <1>3 DEF ArmFits, Calm, OkSignalled
<1>6. HeldFits' /\ SessionFits' /\ StoppingFits' /\ DigitsFit'
  BY <1>0, <1>1, <1>3 DEF HeldFits, SessionFits, StoppingFits, DigitsFit, Apt, Grip, Calm
<1> QED BY <1>0, <1>1, <1>3, <1>4, <1>5, <1>6, Entered DEF Calm

\* A group is started for the state that waits for it.
LEMMA ArmKeeps ==
    ASSUME DepotInv, NEW c, Calm(c), NEW s \in BlockArmStates \cup DepotArmStates,
           NEW g \in GroupsOf(s, c.depot), g \in Groups,
           base = c.depot.position, Apt(s, c), run_arm(c, g, s)
    PROVE  DepotInv' /\ RestIsKept
<1>a. start_arm(c.vis, g, s) /\ written(c)
  BY DEF run_arm
<1>1. s \in DepotStates \ RestStates /\ s \notin AskStates /\ s # "COMPLETE"
      /\ s \notin {"DEPOT_WAIT_DIGIT", "DEPOT_DIGIT_STOP"}
  BY DEF DepotStates, RestStates, AskStates, BlockMoveStates, BlockArmStates, DepotArmStates
<1>b. CASE mission_fail([With(c.vis) EXCEPT !.active = 0], "ARM")
  <2>1. [With(c.vis) EXCEPT !.active = 0] \in Contexts
        /\ [With(c.vis) EXCEPT !.active = 0].vis = c.vis
    BY Typed, WithContext DEF DepotInv, Calm, Context, ContextType
  <2> QED BY <1>a, <1>b, <2>1, RefusalKeeps DEF Faults, Calm, Context
<1>c. CASE /\ state' = s /\ vis' = c.vis /\ activeArm' = g /\ arm' = g
           /\ armHome' = FALSE /\ UNCHANGED <<fault, requestId, cmdQ>>
  <2>0. /\ block' = c.block /\ depot' = c.depot /\ manifest' = c.manifest
        /\ side' = side
    BY <1>a DEF written
  <2>2. Handled(DepotStates, c.vis)
    BY <1>c, <1>1, Typed DEF DepotInv, CtxTyped, Handled, Calm, Context, ContextType,
                             StopNoted, QueueTyped
  <2>3. /\ ControlInv' /\ Table(manifest') /\ InSlotOrder(manifest')
        /\ BlockFits(state, block, depot)' /\ BallsFit(state, depot, manifest)'
        /\ UNCHANGED <<held, base, cpc, driving, misread, flags>>
    BY <1>1, <1>c, <2>0, <2>2, CalmKept
  <2>4. BaseFits'
    BY <1>1, <1>c, <2>0, <2>3 DEF BaseFits, Standing, Calm
  <2>5. GroupsOf(state', depot') = GroupsOf(s, c.depot)
    BY <1>c, <2>0
  <2>8. pc' # "turning"
    BY DEF Calm
  <2>6. ArmFits'
    BY <1>1, <1>c, <2>3, <2>5, <2>8 DEF ArmFits, Calm, OkSignalled
  <2>7. SessionFits' /\ StoppingFits' /\ DigitsFit'
    BY <1>1, <1>c, <2>0 DEF SessionFits, StoppingFits, DigitsFit, Calm
  <2>9. HeldFits'
    <3>1. Grip(s, c.block) /\ ~OkSignalled'
      BY DEF Apt, Calm
    <3>2. state' = s /\ block' = c.block /\ held' = held
      BY <1>c, <2>0, <2>3
    <3>3. s \notin {"WAIT_DEPOT_1", "BLOCK_WAIT_D4"}
      BY DEF BlockArmStates, DepotArmStates
    <3> QED BY <3>1, <3>2, <3>3 DEF HeldFits, Grip
  <2> QED BY <1>1, <1>c, <2>3, <2>4, <2>6, <2>7, <2>9, Entered DEF Calm
<1> QED BY <1>a, <1>b, <1>c DEF start_arm

\* Appended to an empty queue.
LEMMA FirstSent ==
    ASSUME cmdQ = <<>>, NEW type, NEW id
    PROVE  Sent(type, id) = <<Command(type, id)>>
BY DEF Sent

\* The base is sent on, and the state waits for its answer.
LEMMA GoKeeps ==
    ASSUME DepotInv, NEW c, Calm(c), NEW s \in AskStates \ {"WAIT_DEPOT_1"},
           NEW type, type = Order(s, Wanted(s, c.block, c.depot)),
           s # "DEPOT_WAIT_HOME" => Wanted(s, c.block, c.depot) \in Stations,
           Apt(s, c), go(c, type, s)
    PROVE  DepotInv' /\ RestIsKept
<1> DEFINE id == mission_next_request_id(c.id)
           n == [c EXCEPT !.id = id]
<1>0. c \in ContextType /\ Context(c)
  BY DEF Calm, Context
<1>1. id \in 1..IdMax
  BY <1>0, NextIdTyped DEF ContextType
<1> HIDE DEF id
<1>2. /\ n \in ContextType /\ n.vis = c.vis /\ n.id = id /\ n.active = c.active
      /\ n.block = c.block /\ n.depot = c.depot /\ n.manifest = c.manifest
  BY <1>0, <1>1 DEF ContextType
<1>3. Context(n) /\ HandlerStep(n.vis)
  BY <1>0, <1>2 DEF Context, Calm
<1>4. \/ /\ cmdQ' = Sent(type, n.id)
         /\ state' = s /\ vis' = n.vis /\ requestId' = n.id /\ activeArm' = n.active
         /\ UNCHANGED <<fault, armHome, arm>>
         /\ written(n)
      \/ fail(n, "QUEUE")
  BY DEF go, id
<1> HIDE DEF n
<1>5. CASE fail(n, "QUEUE")
  BY <1>3, <1>5, FailKeeps DEF Faults, Calm
<1>6. CASE /\ cmdQ' = Sent(type, n.id)
           /\ state' = s /\ vis' = n.vis /\ requestId' = n.id /\ activeArm' = n.active
           /\ UNCHANGED <<fault, armHome, arm>>
           /\ written(n)
  <2>0. /\ block' = c.block /\ depot' = c.depot /\ manifest' = c.manifest
        /\ side' = side /\ vis' = c.vis
    BY <1>2, <1>6 DEF written
  <2>1. s \in DepotStates \ RestStates
    BY DEF DepotStates, RestStates, AskStates, BlockMoveStates
  <2>2. type \in CommandTypes
    <3>1. CASE s = "DEPOT_WAIT_HOME"
      BY <3>1 DEF Order, CommandTypes
    <3>2. CASE s # "DEPOT_WAIT_HOME"
      BY <3>2 DEF Order, CommandTypes, GoDepot, Stations
    <3> QED BY <3>1, <3>2
  <2>3. Handled(DepotStates, c.vis)
    <3>1. CtxTyped(DepotStates)
      BY Typed DEF DepotInv
    <3>2. QueueTyped'
      BY <1>1, <1>2, <1>6, <2>2, <3>1, SentTyped DEF CtxTyped, QueueTyped
    <3> QED
      BY <1>0, <1>1, <1>2, <1>6, <2>0, <2>1, <3>1, <3>2
      DEF CtxTyped, Handled, Context, ContextType, StopNoted
  <2>4. /\ ControlInv' /\ Table(manifest') /\ InSlotOrder(manifest')
        /\ BlockFits(state, block, depot)' /\ BallsFit(state, depot, manifest)'
        /\ UNCHANGED <<held, base, cpc, driving, misread, flags>>
    BY <1>6, <2>0, <2>1, <2>3, CalmKept
  <2>5. BaseFits'
    <3>1. cmdQ' = <<Command(type, requestId')>>
      BY <1>6, FirstSent DEF Calm
    <3>2. Wanted(state', block', depot') = Wanted(s, c.block, c.depot)
      BY <1>6, <2>0
    <3>3. /\ cmdQ' = <<Command(Order(state', Wanted(state', block', depot')), requestId')>>
          /\ evtQ' = <<>> /\ ~driving' /\ cpc' = IdlePlace(state')
      BY <1>6, <2>4, <3>1, <3>2 DEF IdlePlace, Calm
    <3>4. Waiting(state, Wanted(state, block, depot))'
      BY <3>3 DEF Waiting
    <3>5. s \notin RestStates
      BY <2>1
    <3> QED BY <1>6, <3>4, <3>5 DEF BaseFits
  <2>6. ArmFits'
    BY <1>6, <2>1, <2>4 DEF ArmFits, Calm, OkSignalled
  <2>7. HeldFits'
    <3>1. Grip(s, c.block)
      BY DEF Apt
    <3>2. s \notin {"WAIT_DEPOT_1", "BLOCK_WAIT_GRASP", "BLOCK_WAIT_PLACE"}
      BY DEF AskStates, BlockMoveStates
    <3>3. state' = s /\ block' = c.block /\ held' = held
      BY <1>6, <2>0, <2>4
    <3> QED BY <3>1, <3>2, <3>3 DEF HeldFits, Grip
  <2>8. SessionFits' /\ StoppingFits' /\ DigitsFit'
    <3>1. s \notin {"DEPOT_WAIT_DIGIT", "DEPOT_DIGIT_STOP"}
      BY DEF AskStates, BlockMoveStates
    <3> QED
      BY <1>6, <2>0, <3>1 DEF SessionFits, StoppingFits, DigitsFit, Calm
  <2> QED BY <1>6, <2>1, <2>4, <2>5, <2>6, <2>7, <2>8, Entered DEF Calm
<1> QED BY <1>4, <1>5, <1>6

\* A digit session is opened where the base stands.
LEMMA LookKeeps ==
    ASSUME DepotInv, NEW c, Calm(c),
           NEW s, NEW scene,
           \/ s = "BLOCK_WAIT_DIGIT" /\ scene = "BLOCK_DIGIT"
           \/ s = "DEPOT_WAIT_DIGIT" /\ scene = "DEPOT_DIGIT",
           s = "DEPOT_WAIT_DIGIT" /\ misread = 0 => c.depot.first \in {0, Sign},
           base = c.depot.position, Apt(s, c), look(c, scene, s)
    PROVE  DepotInv' /\ RestIsKept
<1> DEFINE v == c.vis
<1>0. start_vision(v, scene, s) /\ written(c)
  BY DEF look
<1>1. /\ v.phase = "IDLE" /\ ~v.stopReq /\ SafeRecord(v) /\ v \in VisionType
      /\ Context(c) /\ HandlerStep(v) /\ arm = 0
  BY DEF Calm, Context, ContextType
<1> HIDE DEF v
<1>2. ~Busy(v) /\ ~Answered(v)
  BY <1>1 DEF SafeRecord, Busy, Answered
<1>3. PICK ok, w, x :
          /\ ok \in submit_results(v)
          /\ w = [v EXCEPT !.phase = "STARTING", !.scene = scene]
          /\ x = mission_submit_vision_transfer(w, "START", ok)
          /\ IF ok THEN enter_state(x, s)
                   ELSE mission_fail(With(mission_reset_vision(x)), "VISION")
  BY <1>0, <1>1, Zenon DEF start_vision
<1>4. /\ w \in VisionType /\ ~Busy(w) /\ w.phase = "STARTING"
      /\ w.scene = scene /\ scene # "NONE" /\ w.stopReq = v.stopReq
  BY <1>1, <1>2, <1>3 DEF SafeRecord, VisionType, Phases, Busy, Scenes
<1>5. ok \in submit_results(w) /\ ok \in BOOLEAN
  BY <1>2, <1>3, <1>4 DEF submit_results
<1>6. SafeRecord(x) /\ (~ok => ~Busy(x)) /\ x.phase = "STARTING" /\ x.scene = scene
      /\ x.stopReq = v.stopReq
  BY <1>3, <1>4, <1>5, SubmitSafe
<1>7. CASE ~ok
  <2> DEFINE y == mission_reset_vision(x)
  <2>1. SafeRecord(y) /\ y.phase = "IDLE"
    BY <1>6, <1>7 DEF mission_reset_vision, SafeRecord, VisionType, Phases, Scenes, Busy
  <2>2. mission_fail(With(y), "VISION")
    BY <1>3, <1>7
  <2> HIDE DEF y
  <2>3. With(y) \in Contexts /\ With(y).vis = y /\ StopNoted(y)
    BY <2>1, WithContext, Typed DEF SafeRecord, DepotInv, StopNoted, CtxTyped
  <2> QED
    BY <1>0, <1>1, <1>2, <2>1, <2>2, <2>3, RefusalKeeps DEF Faults, v
<1>8. CASE ok
  <2>0. /\ state' = s /\ vis' = x
        /\ UNCHANGED <<fault, requestId, activeArm, armHome, arm, cmdQ>>
        /\ block' = c.block /\ depot' = c.depot /\ manifest' = c.manifest
        /\ side' = side
    BY <1>0, <1>3, <1>8 DEF written, enter_state
  <2>1. s \in DepotStates \ RestStates /\ s \notin AskStates \cup {"COMPLETE", "DEPOT_DIGIT_STOP"}
    BY DEF DepotStates, RestStates, AskStates, BlockMoveStates
  <2>2. Handled(DepotStates, v)
    BY <1>2, <1>6, <2>0, <2>1, Typed
    DEF DepotInv, CtxTyped, Handled, StopNoted, QueueTyped
  <2>3. /\ ControlInv' /\ Table(manifest') /\ InSlotOrder(manifest')
        /\ BlockFits(state, block, depot)' /\ BallsFit(state, depot, manifest)'
        /\ UNCHANGED <<held, base, cpc, driving, misread, flags>>
    BY <2>0, <2>1, <2>2, CalmKept DEF v
  <2>4. BaseFits'
    BY <2>0, <2>1, <2>3 DEF BaseFits, Standing, Calm
  <2>5. ArmFits'
    BY <2>0, <2>1, <2>3 DEF ArmFits, Calm, OkSignalled
  <2>6. HeldFits'
    <3>1. Grip(s, c.block)
      BY DEF Apt
    <3>2. state' = s /\ block' = c.block /\ held' = held
      BY <2>0, <2>3
    <3> QED BY <3>1, <3>2 DEF HeldFits, Grip
  <2>7. SessionFits' /\ StoppingFits'
    BY <1>1, <1>6, <2>0, <2>1 DEF SessionFits, StoppingFits
  <2>8. DigitsFit'
    <3>1. Shown' = 0
      BY <1>6, <2>0 DEF Shown
    <3>2. Sign' = Sign
      BY <2>0, <2>3 DEF Sign
    <3> QED BY <2>0, <2>3, <3>1, <3>2 DEF DigitsFit
  <2> QED BY <2>0, <2>1, <2>3, <2>4, <2>5, <2>6, <2>7, <2>8, Entered DEF Calm
<1> QED BY <1>5, <1>7, <1>8

-----------------------------------------------------------------------------
(* Columns.                                                                *)

\* There are three columns to be known.
LEMMA ThreeColumns == IsFiniteSet(1..3) /\ Cardinality(1..3) = 3
<1>1. 1 \in Int /\ 3 \in Int
  OBVIOUS
<1>2. /\ IsFiniteSet(1..3)
      /\ Cardinality(1..3) = IF 1 > 3 THEN 0 ELSE 3 - 1 + 1
  BY <1>1, FS_Interval, Zenon
<1> QED BY <1>2

\* A digit that was not used before is one more column.
LEMMA ColumnAdded ==
    ASSUME NEW U \in SUBSET (1..3), NEW n \in 1..3, n \notin U
    PROVE  Cardinality(U \cup {n}) = Cardinality(U) + 1
<1>1. IsFiniteSet(U)
  BY ThreeColumns, FS_Subset
<1> QED BY <1>1, FS_AddElement

\* Three different columns are all there are.
LEMMA AllColumns ==
    ASSUME NEW U \in SUBSET (1..3), Cardinality(U) = 3
    PROVE  U = 1..3
BY ThreeColumns, FS_Subset

\* Before the first station no column is known.
LEMMA NoColumns == Cardinality({}) = 0
BY FS_EmptySet

-----------------------------------------------------------------------------
(* Placing the balls: what each operator of the handlers leads to.         *)

\* A context that differs from a calm one in what it knows of blocks and balls.
LEMMA StillCalm ==
    ASSUME NEW c, Calm(c), NEW d \in ContextType, d.vis = c.vis,
           Table(d.manifest), InSlotOrder(d.manifest)
    PROVE  Calm(d)
BY DEF Calm, Context

\* While balls are placed the blocks do not matter.
LEMMA BlocksAreDone ==
    ASSUME NEW s \in PlacingStates, NEW b, NEW d
    PROVE  BlockFits(s, b, d) /\ Grip(s, b) /\ s \notin BlockStages
BY DEF PlacingStates, BallStates, StationStates, LastStates, BlockFits, Grip,
       BlockStages, BlockStates

\* A column is known and the next ball for it is looked for.
Choosing(c) ==
    LET d == c.depot IN
    /\ ~d.preparing
    /\ OnTheWay(d.position) /\ Cardinality(d.used) = Visited(d.position) + 1
    /\ Planned(c.manifest, d) /\ PlacedFits("DEPOT_SEEK", c.manifest, d)
    /\ d.column \in d.used
    /\ misread <= 1 => d.column = Sign

\* seek: towards the slot in depot.target.
LEMMA SeekKeeps ==
    ASSUME DepotInv, NEW c, Calm(c), base = c.depot.position,
           NEW s \in {"DEPOT_PREPARE", "DEPOT_AVOID"},
           Apt(s, c), Apt("DEPOT_SEEK", c), seek(c, s)
    PROVE  DepotInv' /\ RestIsKept
<1>1. CASE enter(c, "DEPOT_SEEK")
  BY <1>1, EnterKeeps
<1>2. CASE run_arm(c, 10, s)
  <2>1. s \in BlockArmStates \cup DepotArmStates
    BY DEF DepotArmStates
  <2>2. 10 \in GroupsOf(s, c.depot) /\ 10 \in Groups
    BY DEF GroupsOf, Groups
  <2> QED BY <1>2, <2>1, <2>2, ArmKeeps
<1> QED BY <1>1, <1>2 DEF seek

\* With nothing left for the column it is finished.
LEMMA ColumnDone ==
    ASSUME NEW c \in ContextType, Choosing(c), InColumn(c) = {},
           NEW s \in StationStates \cup LastStates, NEW d,
           d.used = c.depot.used, d.abnormal = c.depot.abnormal
    PROVE  PlacedFits(s, c.manifest, d) /\ Planned(c.manifest, d)
<1> DEFINE m == c.manifest
<1>1. Finished(s, d) = d.used
  BY DEF Finished, Fetching, StationStates, LastStates, BallStates
<1>2. Finished("DEPOT_SEEK", c.depot) = c.depot.used \ {c.depot.column}
  BY DEF Finished, Fetching, BallStates, Choosing
<1>3. \A i \in DOMAIN m : m[i].state \in {"STORED", "READ_FAILED", "PLACED"}
  <2>1. m \in Seq(RecordType)
    BY DEF ContextType
  <2>2. \A i \in DOMAIN m : m[i] \in RecordType
    BY <2>1
  <2> QED BY <2>2 DEF RecordType
<1>4. ASSUME NEW i \in DOMAIN m \ d.abnormal, Target(m[i])[2] \in d.used
      PROVE  m[i].state = "PLACED"
  <2>1. CASE Target(m[i])[2] = c.depot.column
    BY <1>3, <1>4, <2>1 DEF InColumn
  <2>2. CASE Target(m[i])[2] # c.depot.column
    BY <1>2, <1>4, <2>2 DEF Choosing, PlacedFits
  <2> QED BY <2>1, <2>2
<1>5. PlacedFits(s, m, d)
  BY <1>1, <1>4 DEF PlacedFits, Choosing
<1>6. Planned(m, d)
  BY DEF Choosing, Planned
<1> QED BY <1>5, <1>6

\* next_station: the balls of a column are placed.
LEMMA NextStationKeeps ==
    ASSUME DepotInv, NEW c, Calm(c), Choosing(c), InColumn(c) = {}, next_station(c)
    PROVE  DepotInv' /\ RestIsKept
<1>0. /\ c \in ContextType /\ c.depot \in DepotType /\ side \in {"RED", "BLUE"}
      /\ Table(c.manifest) /\ InSlotOrder(c.manifest)
  BY SidesAssumption DEF Calm, Context, ContextType, DepotInv, ControlInv, TypeOK
<1> DEFINE p == c.depot.position
           U == c.depot.used
<1>1. /\ U \in SUBSET (1..3) /\ Cardinality(U) = Visited(p) + 1 /\ OnTheWay(p)
  BY <1>0 DEF DepotType, Choosing
<1>2. ASSUME NEW s \in {"DEPOT_WAIT_HOME", "DEPOT_RETURN_ENTRY"}, Visited(p) = 2
      PROVE  Apt(s, c)
  <2>1. U = 1..3
    BY <1>1, <1>2, AllColumns
  <2>2. StationsFit(s, c.depot) /\ BallFits(s, c.manifest, c.depot)
    BY <2>1 DEF StationsFit, BallFits, Preparing, Fetching, BallStates, StationStates
  <2>3. s \in PlacingStates /\ s \in LastStates
    BY DEF PlacingStates, LastStates
  <2>4. PlacedFits(s, c.manifest, c.depot) /\ Planned(c.manifest, c.depot)
    BY <1>0, <2>3, ColumnDone
  <2> QED BY <2>2, <2>3, <2>4, BlocksAreDone DEF Apt, BallsFit
<1>3. CASE side = "RED" /\ p = 1
  <2>1. go(c, "DEPOT_OK", "DEPOT_WAIT_HOME")
    BY <1>3 DEF next_station
  <2>2. Apt("DEPOT_WAIT_HOME", c)
    BY <1>2, <1>3 DEF Visited
  <2> QED BY <2>1, <2>2, GoKeeps DEF Order, AskStates
<1>4. CASE side = "BLUE" /\ p = 4
  <2>1. go(c, "GO_DEPOT_1", "DEPOT_RETURN_ENTRY")
    BY <1>4 DEF next_station
  <2>2. Apt("DEPOT_RETURN_ENTRY", c)
    BY <1>2, <1>4 DEF Visited
  <2>3. /\ Wanted("DEPOT_RETURN_ENTRY", c.block, c.depot) = 1
        /\ Order("DEPOT_RETURN_ENTRY", 1) = "GO_DEPOT_1"
    BY DEF Order, Wanted, GoDepot, BlockMoveStates
  <2> QED BY <2>1, <2>2, <2>3, GoKeeps DEF AskStates, Stations
<1>5. CASE ~(side = "RED" /\ p = 1) /\ ~(side = "BLUE" /\ p = 4)
  <2> DEFINE n == p + (IF side = "RED" THEN -1 ELSE 1)
             d == [c EXCEPT !.depot.position = n]
             s == "DEPOT_WAIT_POSITION"
  <2>1. go(d, GoDepot[n], s)
    BY <1>5 DEF next_station
  <2>2. n \in Stations /\ OnTheWay(n) /\ Visited(n) = Visited(p) + 1
    BY <1>0, <1>1, <1>5 DEF OnTheWay, Visited, Stations
  <2> HIDE DEF n
  <2>3. /\ d \in ContextType /\ d.vis = c.vis /\ d.block = c.block
        /\ d.manifest = c.manifest /\ d.depot = [c.depot EXCEPT !.position = n]
    BY <1>0, <2>2 DEF ContextType, DepotType, Stations
  <2>4. /\ d.depot.position = n /\ d.depot.used = U
        /\ ~d.depot.preparing
        /\ d.depot.abnormal = c.depot.abnormal
    BY <1>0, <2>3 DEF DepotType, Choosing
  <2> HIDE DEF d
  <2>5. Calm(d)
    BY <1>0, <2>3, StillCalm
  <2>6. StationsFit(s, d.depot) /\ BallFits(s, d.manifest, d.depot)
    BY <1>1, <2>2, <2>4 DEF StationsFit, BallFits, Preparing, Fetching, BallStates,
                            StationStates, LastStates
  <2>7. s \in PlacingStates /\ s \in StationStates
    BY DEF PlacingStates, StationStates
  <2>8. PlacedFits(s, d.manifest, d.depot) /\ Planned(d.manifest, d.depot)
    BY <1>0, <2>3, <2>4, <2>7, ColumnDone
  <2>9. Apt(s, d)
    BY <2>6, <2>7, <2>8, BlocksAreDone DEF Apt, BallsFit
  <2>10. Wanted(s, d.block, d.depot) = n /\ Order(s, n) = GoDepot[n] /\ s \in AskStates
    <3>1. Wanted(s, d.block, d.depot) = d.depot.position
      BY DEF Wanted, BlockMoveStates
    <3>2. Order(s, n) = GoDepot[n] /\ s \in AskStates
      BY DEF Order, AskStates
    <3> QED BY <2>4, <3>1, <3>2
  <2> QED BY <2>1, <2>2, <2>5, <2>9, <2>10, GoKeeps
<1> QED BY <1>3, <1>4, <1>5

\* mission_depot_next_ball.
LEMMA NextBallKeeps ==
    ASSUME DepotInv, NEW c, Calm(c), base = c.depot.position, Choosing(c),
           mission_depot_next_ball(c)
    PROVE  DepotInv' /\ RestIsKept
<1>0. /\ c \in ContextType /\ c.depot \in DepotType
      /\ Table(c.manifest) /\ InSlotOrder(c.manifest)
  BY DEF Calm, Context, ContextType
<1> DEFINE m == c.manifest
<1>1. CASE InColumn(c) = {} /\ next_station(c)
  BY <1>1, NextStationKeeps
<1>2. ASSUME NEW i \in InColumn(c),
             seek([c EXCEPT !.depot.sequence = i, !.depot.row = Target(m[i])[1],
                            !.depot.target = m[i].slot], "DEPOT_AVOID")
      PROVE  DepotInv' /\ RestIsKept
  <2> DEFINE d == [c EXCEPT !.depot.sequence = i, !.depot.row = Target(m[i])[1],
                            !.depot.target = m[i].slot]
  <2>1. /\ i \in DOMAIN m \ c.depot.abnormal /\ m[i].state # "PLACED"
        /\ Target(m[i])[2] = c.depot.column
    BY <1>2 DEF InColumn
  <2>2. Target(m[i]) \in Cells
    BY <2>1 DEF Choosing, Planned
  <2>3. /\ Target(m[i])[1] \in 1..3
        /\ Target(m[i]) = <<Target(m[i])[1], c.depot.column>>
    BY <2>1, <2>2 DEF Cells
  <2>4. i \in 1..Capacity /\ m[i].slot \in 0..SlotCount-1
    <3>1. m \in Seq(RecordType) /\ Len(m) <= Capacity
      BY <1>0 DEF Table
    <3>2. i \in 1..Len(m) /\ m[i] \in RecordType
      BY <2>1, <3>1
    <3>3. m[i].slot \in 0..SlotCount-1
      BY <3>2 DEF RecordType
    <3> QED BY <3>1, <3>2, <3>3 DEF Capacity
  <2>c. PICK r \in 0..3, t \in 0..SlotCount-1 :
             r = Target(m[i])[1] /\ t = m[i].slot
    BY <2>3, <2>4
  <2>d. PICK w, x, e : /\ w = [c.depot EXCEPT !.sequence = i]
                       /\ x = [w EXCEPT !.row = r] /\ e = [x EXCEPT !.target = t]
    OBVIOUS
  <2>a. /\ e \in DepotType
        /\ e.position = c.depot.position /\ e.used = c.depot.used
        /\ e.abnormal = c.depot.abnormal /\ e.column = c.depot.column
        /\ e.preparing = c.depot.preparing
        /\ e.sequence = i /\ e.row = r /\ e.target = t
    <3>1. i \in 0..Capacity /\ c.depot \in DepotType
      BY <1>0, <2>4 DEF Capacity
    <3>2. w \in DepotType
      BY <2>d, <3>1 DEF DepotType
    <3>3. x \in DepotType
      BY <2>d, <3>2 DEF DepotType
    <3>4. e \in DepotType
      BY <2>d, <3>3 DEF DepotType
    <3> QED BY <2>d, <3>1, <3>2, <3>3, <3>4 DEF DepotType
  <2>b. d = [c EXCEPT !.depot = e]
    BY <1>0, <2>a, <2>c, <2>d DEF ContextType, DepotType
  <2>5. /\ d \in ContextType /\ d.vis = c.vis /\ d.block = c.block /\ d.manifest = m
        /\ d.depot = e
    BY <1>0, <2>a, <2>b DEF ContextType
  <2>6. /\ d.depot.position = c.depot.position /\ d.depot.used = c.depot.used
        /\ d.depot.abnormal = c.depot.abnormal /\ d.depot.column = c.depot.column
        /\ d.depot.preparing = c.depot.preparing
        /\ d.depot.sequence = i /\ d.depot.row = Target(m[i])[1]
        /\ d.depot.target = m[i].slot
    BY <2>a, <2>c, <2>5
  <2>7. seek(d, "DEPOT_AVOID")
    BY <1>2
  <2> HIDE DEF d
  <2>8. Calm(d)
    BY <1>0, <2>5, StillCalm
  <2>9. ASSUME NEW s \in {"DEPOT_SEEK", "DEPOT_AVOID"}
        PROVE  Apt(s, d)
    <3>1. s \in PlacingStates /\ s \in BallStates /\ s \notin StationStates \cup LastStates
          /\ s \notin {"DEPOT_PREPARE", "DEPOT_SAFE", "DEPOT_PICK", "DEPOT_PLACE", "DEPOT_RETURN"}
      BY DEF PlacingStates, BallStates, StationStates, LastStates
    <3>2. Fetching(s, d.depot) /\ ~Preparing(s, d.depot)
      BY <2>6, <3>1 DEF Fetching, Preparing, Choosing
    <3>3. StationsFit(s, d.depot)
      BY <2>6, <3>1, <3>2 DEF StationsFit, Choosing
    <3>4. Planned(d.manifest, d.depot)
      BY <2>5, <2>6 DEF Planned, Choosing
    <3>5. Finished(s, d.depot) = Finished("DEPOT_SEEK", c.depot)
      BY <2>6, <3>1, <3>2 DEF Finished, Fetching, BallStates, Choosing
    <3>6. PlacedFits(s, d.manifest, d.depot)
      BY <2>5, <2>6, <3>5 DEF PlacedFits, Choosing
    <3>7. BallFits(s, d.manifest, d.depot)
      BY <2>1, <2>3, <2>5, <2>6, <3>1 DEF BallFits, Choosing
    <3> QED
      BY <3>1, <3>3, <3>4, <3>6, <3>7, BlocksAreDone DEF Apt, BallsFit
  <2> QED BY <2>6, <2>7, <2>8, <2>9, SeekKeeps
<1> QED BY <1>1, <1>2, Zenon DEF mission_depot_next_ball

\* The digit sessions of a station: nothing is known of the digit shown yet.
LEMMA StartDigitKeeps ==
    ASSUME DepotInv, NEW c, Calm(c), base = c.depot.position,
           Apt("DEPOT_WAIT_DIGIT", c), misread = 0 => c.depot.first \in {0, Sign},
           mission_depot_start_digit(c)
    PROVE  DepotInv' /\ RestIsKept
<1>0. c \in ContextType /\ c.depot \in DepotType /\ Context(c)
  BY DEF Calm, Context, ContextType
<1> DEFINE d == [c EXCEPT !.depot.digit = 0]
           s == "DEPOT_WAIT_DIGIT"
<1>1. look(d, "DEPOT_DIGIT", s)
  BY DEF mission_depot_start_digit
<1>a. PICK e : e = [c.depot EXCEPT !.digit = 0]
  OBVIOUS
<1>b. e \in DepotType
  BY <1>0, <1>a DEF DepotType
<1>c. d = [c EXCEPT !.depot = e]
  BY <1>0, <1>a DEF ContextType, DepotType
<1>2. /\ d \in ContextType /\ d.vis = c.vis /\ d.block = c.block
      /\ d.manifest = c.manifest /\ d.depot = [c.depot EXCEPT !.digit = 0]
  BY <1>0, <1>a, <1>b, <1>c DEF ContextType
<1>3. /\ d.depot.position = c.depot.position /\ d.depot.used = c.depot.used
      /\ d.depot.preparing = c.depot.preparing
      /\ d.depot.abnormal = c.depot.abnormal /\ d.depot.first = c.depot.first
  BY <1>0, <1>2 DEF DepotType
<1> HIDE DEF d
<1>4. Calm(d)
  BY <1>0, <1>2, StillCalm DEF Context
<1>5. s \in PlacingStates /\ s \in StationStates /\ ~Fetching(s, d.depot)
      /\ ~Fetching(s, c.depot) /\ s \notin LastStates /\ ~Preparing(s, d.depot)
  BY DEF PlacingStates, StationStates, Fetching, BallStates, LastStates, Preparing
<1>6. BallsFit(s, d.depot, d.manifest)
  <2>1. /\ StationsFit(s, c.depot) /\ Planned(c.manifest, c.depot)
        /\ PlacedFits(s, c.manifest, c.depot)
    BY <1>5 DEF Apt, BallsFit
  <2>2. StationsFit(s, d.depot)
    BY <1>3, <1>5, <2>1 DEF StationsFit
  <2>3. Planned(d.manifest, d.depot)
    BY <1>2, <1>3, <2>1 DEF Planned
  <2>4. PlacedFits(s, d.manifest, d.depot)
    BY <1>2, <1>3, <1>5, <2>1 DEF PlacedFits, Finished
  <2>5. BallFits(s, d.manifest, d.depot)
    BY <1>5 DEF BallFits
  <2> QED BY <1>5, <2>2, <2>3, <2>4, <2>5, BlocksAreDone DEF BallsFit
<1>7. Apt(s, d)
  BY <1>5, <1>6, BlocksAreDone DEF Apt
<1> QED BY <1>1, <1>3, <1>4, <1>7, LookKeeps

\* Two sessions agree, or the run ends.
LEMMA DigitDoneKeeps ==
    ASSUME DepotInv, NEW c, Calm(c), base = c.depot.position,
           Apt("DEPOT_WAIT_DIGIT", c),
           misread = 0 => c.depot.first \in {0, Sign} /\ c.depot.digit \in {0, Sign},
           misread <= 1 => c.depot.first \in {0, Sign} \/ c.depot.digit \in {0, Sign},
           mission_depot_digit_done(c)
    PROVE  DepotInv' /\ RestIsKept
<1>0. /\ c \in ContextType /\ c.depot \in DepotType /\ Context(c) /\ arm = 0
      /\ HandlerStep(c.vis)
  BY DEF Calm, Context, ContextType
<1> DEFINE n == c.depot.digit
           s == "DEPOT_WAIT_DIGIT"
<1>1. CASE fail(c, "VISION")
  BY <1>0, <1>1, FailKeeps DEF Faults
<1>a. s \in PlacingStates /\ s \in StationStates
      /\ ~Fetching(s, c.depot) /\ s \notin LastStates
  BY DEF PlacingStates, StationStates, Fetching, BallStates, LastStates
<1>b. /\ StationsFit(s, c.depot) /\ Planned(c.manifest, c.depot)
      /\ PlacedFits(s, c.manifest, c.depot)
  BY <1>a DEF Apt, BallsFit
<1>2. CASE /\ n # 0 /\ c.depot.first = 0
           /\ mission_depot_start_digit([c EXCEPT !.depot.first = n])
  <2> DEFINE d == [c EXCEPT !.depot.first = n]
  <2>1. /\ d \in ContextType /\ d.vis = c.vis /\ d.block = c.block
        /\ d.manifest = c.manifest /\ d.depot = [c.depot EXCEPT !.first = n]
    BY <1>0 DEF ContextType, DepotType
  <2>2. /\ d.depot.position = c.depot.position /\ d.depot.used = c.depot.used
        /\ d.depot.preparing = c.depot.preparing
        /\ d.depot.abnormal = c.depot.abnormal /\ d.depot.first = n
    BY <1>0, <2>1 DEF DepotType
  <2>3. mission_depot_start_digit(d)
    BY <1>2
  <2> HIDE DEF d
  <2>4. Calm(d)
    BY <1>0, <2>1, StillCalm DEF Context
  <2>5. ~Fetching(s, d.depot) /\ ~Preparing(s, d.depot)
    BY DEF Fetching, BallStates, Preparing
  <2>6. StationsFit(s, d.depot)
    BY <1>a, <1>b, <2>2, <2>5 DEF StationsFit
  <2>7. Planned(d.manifest, d.depot)
    BY <1>b, <2>1, <2>2 DEF Planned
  <2>8. PlacedFits(s, d.manifest, d.depot)
    BY <1>a, <1>b, <2>1, <2>2, <2>5 DEF PlacedFits, Finished
  <2>9. BallFits(s, d.manifest, d.depot)
    BY <2>5 DEF BallFits
  <2>10. Apt(s, d)
    BY <1>a, <2>6, <2>7, <2>8, <2>9, BlocksAreDone DEF Apt, BallsFit
  <2> QED BY <2>2, <2>3, <2>4, <2>10, StartDigitKeeps
<1>3. CASE /\ n # 0 /\ n = c.depot.first /\ n \notin c.depot.used
           /\ mission_depot_next_ball([c EXCEPT !.depot.used = @ \cup {n},
                                                !.depot.column = n])
  <2> DEFINE d == [c EXCEPT !.depot.used = @ \cup {n}, !.depot.column = n]
  <2>1. PICK w, e : /\ w = [c.depot EXCEPT !.used = @ \cup {n}]
                    /\ e = [w EXCEPT !.column = n]
    OBVIOUS
  <2>2. n \in 1..3 /\ c.depot.used \in SUBSET (1..3)
    BY <1>0, <1>3 DEF DepotType
  <2>3. w \in DepotType
    BY <1>0, <2>1, <2>2 DEF DepotType
  <2>4. e \in DepotType
    BY <2>1, <2>2, <2>3 DEF DepotType
  <2>5. /\ e.position = c.depot.position /\ e.used = c.depot.used \cup {n}
        /\ e.abnormal = c.depot.abnormal /\ e.column = n
        /\ e.preparing = c.depot.preparing
    BY <1>0, <2>1, <2>3 DEF DepotType
  <2>6. d = [c EXCEPT !.depot = e]
    BY <1>0, <2>1, <2>3, <2>4 DEF ContextType, DepotType
  <2>7. /\ d \in ContextType /\ d.vis = c.vis /\ d.block = c.block
        /\ d.manifest = c.manifest /\ d.depot = e
    BY <1>0, <2>4, <2>6 DEF ContextType
  <2>8. mission_depot_next_ball(d)
    BY <1>3
  <2> HIDE DEF d
  <2>9. Calm(d)
    BY <1>0, <2>7, StillCalm DEF Context
  <2>10. /\ ~c.depot.preparing /\ OnTheWay(c.depot.position)
         /\ Cardinality(c.depot.used) = Visited(c.depot.position)
    BY <1>a, <1>b DEF StationsFit
  <2>11. Cardinality(e.used) = Visited(e.position) + 1
    BY <1>3, <2>2, <2>5, <2>10, ColumnAdded
  <2>12. misread <= 1 => n = Sign
    BY <1>3
  <2>13. PlacedFits("DEPOT_SEEK", c.manifest, e)
    <3>1. Finished(s, c.depot) = c.depot.used
      BY <1>a DEF Finished
    <3>2. Finished("DEPOT_SEEK", e) = c.depot.used
      BY <1>3, <2>5, <2>10 DEF Finished, Fetching, BallStates
    <3> QED BY <1>b, <2>5, <3>1, <3>2 DEF PlacedFits
  <2>14. Planned(d.manifest, d.depot)
    BY <1>b, <2>5, <2>7 DEF Planned
  <2>15. Choosing(d)
    BY <2>5, <2>7, <2>10, <2>11, <2>12, <2>13, <2>14 DEF Choosing
  <2> QED BY <2>5, <2>7, <2>8, <2>9, <2>15, NextBallKeeps
<1> QED BY <1>1, <1>2, <1>3, Zenon DEF mission_depot_digit_done

\* From one state of fetching a ball to another.
LEMMA FetchingOn ==
    ASSUME NEW c, NEW s \in BallStates, NEW t \in BallStates, Apt(s, c),
           ~c.depot.preparing,
           t \in {"DEPOT_SAFE", "DEPOT_PICK", "DEPOT_PLACE", "DEPOT_RETURN"} =>
               c.depot.slot = c.depot.target
    PROVE  Apt(t, c)
<1> DEFINE d == c.depot
           m == c.manifest
<1>1. s \in PlacingStates /\ t \in PlacingStates
  BY DEF PlacingStates
<1>2. /\ Fetching(s, d) /\ Fetching(t, d)
      /\ ~Preparing(t, d)
      /\ t \notin StationStates \cup LastStates
  BY DEF Fetching, Preparing, BallStates, StationStates, LastStates
<1>3. /\ StationsFit(s, d) /\ Planned(m, d) /\ PlacedFits(s, m, d) /\ BallFits(s, m, d)
  BY <1>1 DEF Apt, BallsFit
<1>4. StationsFit(t, d)
  BY <1>2, <1>3 DEF StationsFit
<1>5. PlacedFits(t, m, d)
  BY <1>2, <1>3 DEF PlacedFits, Finished
<1>6. BallFits(t, m, d)
  BY <1>2, <1>3 DEF BallFits
<1> QED BY <1>1, <1>3, <1>4, <1>5, <1>6, BlocksAreDone DEF Apt, BallsFit

\* safe_done: the arm is out of the way, or picks up the ball.
LEMMA SafeDoneKeeps ==
    ASSUME DepotInv, NEW c, Calm(c), base = c.depot.position,
           Apt("DEPOT_SAFE", c), safe_done(c)
    PROVE  DepotInv' /\ RestIsKept
<1>0. /\ c \in ContextType /\ c.depot \in DepotType /\ Context(c)
  BY DEF Calm, Context, ContextType
<1>1. CASE ~c.depot.preparing /\ run_arm(c, 22, "DEPOT_PICK")
  <2>1. c.depot.slot = c.depot.target
    BY <1>1 DEF Apt, BallsFit, PlacingStates, BallStates, BallFits, Fetching
  <2>2. Apt("DEPOT_PICK", c)
    BY <1>1, <2>1, FetchingOn DEF BallStates
  <2> QED BY <1>1, <2>2, ArmKeeps DEF DepotArmStates, GroupsOf, Groups
<1>2. ASSUME c.depot.preparing
      PROVE  /\ c.depot.used = {} /\ c.depot.first = 0 /\ c.depot.position = EntryPoint
             /\ Planned(c.manifest, c.depot)
             /\ \A i \in DOMAIN c.manifest : c.manifest[i].state # "PLACED"
  <2>1. Preparing("DEPOT_SAFE", c.depot)
    BY <1>2 DEF Preparing, BallStates
  <2>2. "DEPOT_SAFE" \in PlacingStates
    BY DEF PlacingStates, BallStates
  <2>3. c.depot.used = {}
    BY <2>1, <2>2 DEF Apt, BallsFit, StationsFit
  <2>4. \A i \in DOMAIN c.manifest : c.manifest[i].state # "PLACED"
    BY <2>2, <2>3 DEF Apt, BallsFit, PlacedFits
  <2> QED BY <2>1, <2>2, <2>3, <2>4 DEF Apt, BallsFit, StationsFit
<1> DEFINE d == [c EXCEPT !.depot.preparing = FALSE]
<1>a. PICK e : e = [c.depot EXCEPT !.preparing = FALSE]
  OBVIOUS
<1>b. e \in DepotType
  BY <1>0, <1>a DEF DepotType
<1>c. /\ d \in ContextType /\ d.vis = c.vis /\ d.block = c.block
      /\ d.manifest = c.manifest /\ d.depot = e
  <2>1. d = [c EXCEPT !.depot = e]
    BY <1>0, <1>a DEF ContextType, DepotType
  <2> QED BY <1>0, <1>b, <2>1 DEF ContextType
\* A station with nothing placed yet.
<1>d. ASSUME NEW s \in StationStates, NEW f \in DepotType, c.depot.preparing,
             f.used = {}, ~f.preparing, f.abnormal = c.depot.abnormal,
             OnTheWay(f.position), Visited(f.position) = 0, NEW b
      PROVE  BlockFits(s, b, f) /\ Grip(s, b) /\ BallsFit(s, f, c.manifest)
  <2>1. s \in PlacingStates /\ ~Fetching(s, f) /\ ~Preparing(s, f) /\ s \notin LastStates
    BY DEF PlacingStates, StationStates, Fetching, Preparing, BallStates, LastStates
  <2>2. StationsFit(s, f)
    BY <1>d, <2>1, NoColumns DEF StationsFit
  <2>3. Planned(c.manifest, f)
    BY <1>2, <1>d DEF Planned
  <2>4. PlacedFits(s, c.manifest, f)
    BY <1>2, <1>d, <2>1 DEF PlacedFits, Finished
  <2>5. BallFits(s, c.manifest, f)
    BY <2>1 DEF BallFits
  <2> QED BY <2>1, <2>2, <2>3, <2>4, <2>5, BlocksAreDone DEF BallsFit
<1>3. CASE /\ c.depot.preparing /\ side = "RED"
           /\ go([d EXCEPT !.depot.position = 3], "GO_DEPOT_3", "DEPOT_WAIT_POSITION")
  <2> DEFINE h == [d EXCEPT !.depot.position = 3]
             s == "DEPOT_WAIT_POSITION"
  <2>0. go(h, "GO_DEPOT_3", s)
    BY <1>3
  <2> HIDE DEF d
  <2>1. PICK f : f = [e EXCEPT !.position = 3]
    OBVIOUS
  <2>2. f \in DepotType
    BY <1>b, <2>1 DEF DepotType
  <2>3. /\ h \in ContextType /\ h.vis = c.vis /\ h.block = c.block
        /\ h.manifest = c.manifest /\ h.depot = f
    <3>1. h = [d EXCEPT !.depot = f]
      BY <1>b, <1>c, <2>1 DEF ContextType, DepotType
    <3> QED BY <1>c, <2>2, <3>1 DEF ContextType
  <2> HIDE DEF h
  <2>4. f.used = {} /\ ~f.preparing /\ f.abnormal = c.depot.abnormal /\ f.position = 3
    BY <1>0, <1>2, <1>3, <1>a, <1>b, <2>1 DEF DepotType
  <2>5. Calm(h)
    BY <1>0, <2>3, StillCalm DEF Context
  <2>6. Apt(s, h)
    BY <1>3, <1>d, <2>2, <2>3, <2>4 DEF Apt, StationStates, OnTheWay, Visited
  <2>7. Wanted(s, h.block, h.depot) = 3
    BY <2>3, <2>4 DEF Wanted, BlockMoveStates
  <2> QED BY <2>0, <2>5, <2>6, <2>7, GoKeeps DEF Order, GoDepot, AskStates, Stations
<1>4. CASE c.depot.preparing /\ side = "BLUE" /\ mission_depot_start_digit(d)
  <2> HIDE DEF d
  <2>1. /\ e.used = {} /\ ~e.preparing /\ e.abnormal = c.depot.abnormal
        /\ e.position = c.depot.position /\ e.first = 0
    BY <1>0, <1>2, <1>4, <1>a DEF DepotType
  <2>2. Calm(d)
    BY <1>0, <1>c, StillCalm DEF Context
  <2>3. Apt("DEPOT_WAIT_DIGIT", d)
    BY <1>2, <1>4, <1>b, <1>c, <1>d, <2>1
    DEF Apt, StationStates, OnTheWay, Visited, EntryPoint
  <2> QED BY <1>4, <1>c, <2>1, <2>2, <2>3, StartDigitKeeps
<1> QED BY <1>1, <1>3, <1>4, Zenon DEF safe_done

\* slot_reached: the turntable stands at the slot it was sent to.
LEMMA SlotReachedKeeps ==
    ASSUME DepotInv, NEW c, Calm(c), base = c.depot.position,
           Apt("DEPOT_SEEK", c), c.depot.slot = c.depot.target, slot_reached(c)
    PROVE  DepotInv' /\ RestIsKept
<1>1. Apt("DEPOT_SAFE", c)
  <2>1. CASE ~c.depot.preparing
    BY <2>1, FetchingOn DEF BallStates
  <2>2. CASE c.depot.preparing
    <3>1. /\ Preparing("DEPOT_SAFE", c.depot) /\ Preparing("DEPOT_SEEK", c.depot)
          /\ ~Fetching("DEPOT_SAFE", c.depot) /\ ~Fetching("DEPOT_SEEK", c.depot)
          /\ {"DEPOT_SAFE", "DEPOT_SEEK"} \subseteq PlacingStates
      BY <2>2 DEF Preparing, Fetching, BallStates, PlacingStates
    <3>2. StationsFit("DEPOT_SAFE", c.depot)
      BY <3>1 DEF Apt, BallsFit, StationsFit, StationStates, LastStates
    <3>3. PlacedFits("DEPOT_SAFE", c.manifest, c.depot)
      BY <3>1 DEF Apt, BallsFit, PlacedFits, Finished
    <3> QED
      BY <3>1, <3>2, <3>3, BlocksAreDone DEF Apt, BallsFit, BallFits
  <2> QED BY <2>1, <2>2
<1>2. CASE safe_done(c)
  BY <1>1, <1>2, SafeDoneKeeps
<1>3. CASE run_arm(c, 10, "DEPOT_SAFE")
  BY <1>1, <1>3, ArmKeeps DEF DepotArmStates, GroupsOf, Groups
<1> QED BY <1>2, <1>3 DEF slot_reached

\* One more ball is in its cell; nothing else in the table has changed.
LEMMA MarkPlaced ==
    ASSUME NEW m, Table(m), InSlotOrder(m), NEW i \in DOMAIN m
    PROVE  LET p == mark_placed(m, i) IN
           /\ Table(p) /\ InSlotOrder(p) /\ DOMAIN p = DOMAIN m
           /\ \A j \in DOMAIN m : p[j].slot = m[j].slot /\ p[j].cell = m[j].cell
                                  /\ p[j].fallback = m[j].fallback
           /\ \A j \in DOMAIN m : p[j].state = IF j = i THEN "PLACED" ELSE m[j].state
<1> DEFINE p == mark_placed(m, i)
<1>1. /\ m \in Seq(RecordType) /\ Len(m) <= Capacity
      /\ \A j \in DOMAIN m : m[j] \in RecordType
  BY DEF Table
<1>2. p = [m EXCEPT ![i] = [m[i] EXCEPT !.state = "PLACED"]]
  BY DEF mark_placed
<1> HIDE DEF p
<1>3. [m[i] EXCEPT !.state = "PLACED"] \in RecordType
  BY <1>1 DEF RecordType
<1>4. /\ p \in Seq(RecordType) /\ Len(p) = Len(m) /\ DOMAIN p = DOMAIN m
      /\ \A j \in DOMAIN m : j # i => p[j] = m[j]
      /\ p[i] = [m[i] EXCEPT !.state = "PLACED"]
  BY <1>1, <1>2, <1>3
<1>5. /\ \A j \in DOMAIN m : p[j].slot = m[j].slot /\ p[j].cell = m[j].cell
                             /\ p[j].fallback = m[j].fallback
      /\ \A j \in DOMAIN m : p[j].state = IF j = i THEN "PLACED" ELSE m[j].state
  <2>1. /\ p[i].slot = m[i].slot /\ p[i].cell = m[i].cell
        /\ p[i].fallback = m[i].fallback /\ p[i].state = "PLACED"
    BY <1>1, <1>4 DEF RecordType
  <2> QED BY <1>4, <2>1
<1>6. Read(p) = Read(m)
  BY <1>4, <1>5 DEF Read
<1>7. DrawnFits(p)
  BY <1>4, <1>5, <1>6 DEF DrawnFits, Table
<1>8. \A j \in DOMAIN p : p[j].state = "READ_FAILED" => p[j].cell = NoCell
  BY <1>4, <1>5 DEF Table
<1>9. InSlotOrder(p)
  BY <1>4, <1>5 DEF InSlotOrder
<1> QED BY <1>1, <1>4, <1>5, <1>7, <1>8, <1>9 DEF Table, p

\* Two tables that differ in what is placed have the same plan.
LEMMA SamePlan ==
    ASSUME NEW m, NEW p, NEW d, m \in Seq(RecordType), DOMAIN p = DOMAIN m,
           \A j \in DOMAIN m : p[j].cell = m[j].cell /\ p[j].fallback = m[j].fallback,
           Planned(m, d)
    PROVE  Planned(p, d) /\ \A j \in DOMAIN m : Target(p[j]) = Target(m[j])
<1>1. \A j \in DOMAIN m : Target(p[j]) = Target(m[j])
  BY DEF Target
<1>2. \A i \in DOMAIN m : NoCellFor(p, i) <=> NoCellFor(m, i)
  <2>1. SUFFICES ASSUME NEW i \in DOMAIN m PROVE NoCellFor(p, i) <=> NoCellFor(m, i)
    OBVIOUS
  <2>2. \A j \in 1..i-1 : j \in DOMAIN m
    OBVIOUS
  <2>3. {p[j].cell : j \in 1..i-1} = {m[j].cell : j \in 1..i-1}
    BY <2>2
  <2> QED BY <2>3 DEF NoCellFor
<1> QED BY <1>1, <1>2 DEF Planned

\* The draw leaves a plan: who is left out is who has no cell of his own.
LEMMA DrawIsPlan ==
    ASSUME side \in {"RED", "BLUE"}, NEW m, Table(m), InSlotOrder(m), Fresh(m),
           NEW p \in plan_fallback(m), NEW d, d.abnormal = Abnormal(p)
    PROVE  /\ Table(p) /\ InSlotOrder(p) /\ Planned(p, d)
           /\ \A i \in DOMAIN p : p[i].state # "PLACED"
<1>1. Table(p) /\ Unplanned(p) = {}
  BY PlanGivesOwnCells
<1>2. /\ p \in Seq(RecordType) /\ DOMAIN p = 1..Len(p) /\ Len(p) \in Nat
      /\ \A i \in DOMAIN p : p[i] \in RecordType
  BY <1>1 DEF Table
<1>3. DOMAIN p = DOMAIN m
  BY DEF plan_fallback
<1>4. \A i \in DOMAIN m : /\ p[i].slot = m[i].slot /\ p[i].cell = m[i].cell
                          /\ p[i].state = m[i].state
  <2>1. SUFFICES ASSUME NEW i \in DOMAIN m
                 PROVE  /\ p[i].slot = m[i].slot /\ p[i].cell = m[i].cell
                        /\ p[i].state = m[i].state
    OBVIOUS
  <2>2. [p[i] EXCEPT !.fallback = m[i].fallback] = m[i]
    BY PlanGivesOwnCells
  <2>3. p[i] \in RecordType
    BY <1>2, <1>3
  <2> QED BY <2>2, <2>3 DEF RecordType
<1>5. InSlotOrder(p) /\ \A i \in DOMAIN p : p[i].state # "PLACED"
  BY <1>3, <1>4 DEF InSlotOrder, Fresh
<1>6. ASSUME NEW i \in DOMAIN p, p[i].cell = NoCell
      PROVE  /\ p[i].fallback \in FallbackCells /\ p[i].fallback \notin Read(p)
             /\ p[i].fallback # NoCell /\ Target(p[i]) = p[i].fallback
             /\ \A j \in DOMAIN p : p[j].fallback = p[i].fallback => i = j
  <2>1. p[i].state = "READ_FAILED"
    BY <1>3, <1>4, <1>6 DEF Fresh
  <2>2. p[i].fallback # NoCell
    BY <1>1, <2>1 DEF Unplanned
  <2>3. p[i].fallback \in FallbackCells
    BY <1>2, <2>2 DEF RecordType
  <2> QED BY <1>1, <1>6, <2>2, <2>3 DEF Table, DrawnFits, Target
<1>7. ASSUME NEW i \in DOMAIN p, p[i].cell # NoCell
      PROVE  Target(p[i]) = p[i].cell /\ p[i].cell \in Cells
  BY <1>2, <1>7 DEF RecordType, Target
<1>8. \A i \in DOMAIN p : Target(p[i]) \in Cells
  BY <1>6, <1>7 DEF FallbackCells, Cells
<1>9. \A i \in DOMAIN p : Misfit(p[i]) <=> side = "RED" /\ Target(p[i])[2] = 4
  <2>1. SUFFICES ASSUME NEW i \in DOMAIN p
                 PROVE  Misfit(p[i]) <=> side = "RED" /\ Target(p[i])[2] = 4
    OBVIOUS
  <2>2. p[i].state \in {"STORED", "READ_FAILED"}
    BY <1>2, <1>5 DEF RecordType
  <2> QED BY <1>8, <2>2 DEF Misfit
\* Two balls with one target have read it from their cards.
<1>10. ASSUME NEW i \in DOMAIN p, NEW j \in DOMAIN p, i # j,
              Target(p[i]) = Target(p[j])
       PROVE  p[i].cell # NoCell /\ p[j].cell = p[i].cell
  <2>1. ASSUME NEW a \in DOMAIN p, NEW b \in DOMAIN p, a # b,
               Target(p[a]) = Target(p[b])
        PROVE  p[a].cell # NoCell
    <3>1. SUFFICES ASSUME p[a].cell = NoCell PROVE FALSE
      OBVIOUS
    <3>2. CASE p[b].cell = NoCell
      BY <1>6, <2>1, <3>1, <3>2
    <3>3. CASE p[b].cell # NoCell
      <4>1. p[b].cell \in FallbackCells
        BY <1>6, <1>7, <2>1, <3>1, <3>3
      <4>2. p[b].cell \in Read(p)
        BY <4>1 DEF Read
      <4> QED BY <1>6, <1>7, <2>1, <3>1, <3>3, <4>2
    <3> QED BY <3>2, <3>3
  <2>2. p[i].cell # NoCell /\ p[j].cell # NoCell
    BY <1>10, <2>1
  <2> QED BY <1>7, <1>10, <2>2
<1>11. ASSUME NEW i \in DOMAIN p
       PROVE  i \in d.abnormal \/ Target(p[i])[2] = 4 <=> NoCellFor(p, i)
  <2>0. \A j \in 1..i-1 : j \in DOMAIN p /\ j # i
    BY <1>2
  <2>1. ASSUME Target(p[i])[2] = 4 PROVE NoCellFor(p, i)
    <3>1. p[i].cell # NoCell
      BY <1>6, <2>1 DEF FallbackCells
    <3> QED BY <1>7, <2>1, <3>1 DEF NoCellFor
  <2>2. ASSUME i \in Abnormal(p) PROVE NoCellFor(p, i)
    <3>1. CASE Misfit(p[i])
      BY <1>9, <2>1, <3>1
    <3>2. CASE \E j \in 1..i-1 : Target(p[j]) = Target(p[i])
      <4>1. PICK j \in 1..i-1 : Target(p[j]) = Target(p[i])
        BY <3>2
      <4>2. p[i].cell # NoCell /\ p[j].cell = p[i].cell
        BY <1>10, <2>0, <4>1
      <4> QED BY <4>2 DEF NoCellFor
    <3> QED BY <2>2, <3>1, <3>2 DEF Abnormal
  <2>3. ASSUME NoCellFor(p, i) PROVE i \in Abnormal(p) \/ Target(p[i])[2] = 4
    <3>1. CASE p[i].cell # NoCell /\ p[i].cell[2] = 4
      BY <1>7, <3>1
    <3>2. CASE p[i].cell \in {p[j].cell : j \in 1..i-1} \ {NoCell}
      <4>1. PICK j \in 1..i-1 : p[j].cell = p[i].cell /\ p[j].cell # NoCell
        BY <3>2
      <4>2. Target(p[j]) = Target(p[i])
        BY <1>7, <2>0, <4>1
      <4>3. CASE Misfit(p[j])
        BY <1>9, <2>0, <4>1, <4>2, <4>3
      <4>4. CASE ~Misfit(p[j])
        BY <4>1, <4>2, <4>4 DEF Abnormal
      <4> QED BY <4>3, <4>4
    <3> QED BY <2>3, <3>1, <3>2 DEF NoCellFor
  <2> QED BY <2>1, <2>2, <2>3
<1>12. ASSUME NEW i \in DOMAIN p \ d.abnormal, NEW j \in DOMAIN p \ d.abnormal,
              Target(p[i]) = Target(p[j])
       PROVE  i = j
  <2>1. ASSUME NEW a \in DOMAIN p \ Abnormal(p), NEW b \in DOMAIN p \ Abnormal(p),
               Target(p[a]) = Target(p[b]), a < b
        PROVE  FALSE
    <3>1. a \in 1..b-1
      BY <1>2, <2>1
    <3>2. ~Misfit(p[a])
      BY DEF Abnormal
    <3> QED BY <2>1, <3>1, <3>2 DEF Abnormal
  <2>2. i \in Nat /\ j \in Nat
    BY <1>2
  <2> QED BY <1>12, <2>1, <2>2
<1>13. Planned(p, d)
  BY <1>8, <1>11, <1>12 DEF Planned
<1> QED BY <1>1, <1>5, <1>13

\* The blocks are done: the balls are planned before anything moves.
LEMMA PrepareKeeps ==
    ASSUME DepotInv, NEW c, Calm(c), base = c.depot.position,
           c.depot.position = EntryPoint, Fresh(c.manifest), mission_depot_prepare(c)
    PROVE  DepotInv' /\ RestIsKept
<1>0. /\ c \in ContextType /\ c.depot \in DepotType /\ Context(c) /\ arm = 0
      /\ HandlerStep(c.vis) /\ side \in {"RED", "BLUE"}
  BY SidesAssumption DEF Calm, Context, ContextType, DepotInv, ControlInv, TypeOK
<1>1. CASE fail(c, "STORAGE")
  BY <1>0, <1>1, FailKeeps DEF Faults
<1>2. ASSUME NEW m \in plan_fallback(c.manifest),
             seek([c EXCEPT !.block = NoBlock,
                            !.manifest = m, !.depot.abnormal = Abnormal(m),
                            !.depot.position = EntryPoint, !.depot.used = {},
                            !.depot.first = 0, !.depot.preparing = TRUE,
                            !.depot.target = c.depot.slot], "DEPOT_PREPARE")
      PROVE  DepotInv' /\ RestIsKept
  <2> DEFINE d == [c EXCEPT !.block = NoBlock,
                            !.manifest = m, !.depot.abnormal = Abnormal(m),
                            !.depot.position = EntryPoint, !.depot.used = {},
                            !.depot.first = 0, !.depot.preparing = TRUE,
                            !.depot.target = c.depot.slot]
  <2>1. PICK e1, e2, e3, e4, e5, e :
             /\ e1 = [c.depot EXCEPT !.abnormal = Abnormal(m)]
             /\ e2 = [e1 EXCEPT !.position = EntryPoint]
             /\ e3 = [e2 EXCEPT !.used = {}]
             /\ e4 = [e3 EXCEPT !.first = 0]
             /\ e5 = [e4 EXCEPT !.preparing = TRUE]
             /\ e = [e5 EXCEPT !.target = c.depot.slot]
    OBVIOUS
  <2>2. Abnormal(m) \in SUBSET (1..Capacity) /\ m \in Seq(RecordType)
    <3>1. Table(m)
      BY <1>0, PlanGivesOwnCells DEF Context
    <3>2. DOMAIN m \subseteq 1..Capacity
      BY <3>1 DEF Table, Capacity
    <3> QED BY <3>1, <3>2 DEF Table, Abnormal
  <2>3. e1 \in DepotType
    BY <1>0, <2>1, <2>2 DEF DepotType
  <2>4. e2 \in DepotType
    BY <2>1, <2>3 DEF DepotType, EntryPoint
  <2>5. e3 \in DepotType
    BY <2>1, <2>4 DEF DepotType
  <2>6. e4 \in DepotType
    <3>1. 0 \in 0..3
      OBVIOUS
    <3>2. e4 = [e3 EXCEPT !.first = 0]
      BY <2>1
    <3> QED BY <2>5, <3>1, <3>2 DEF DepotType
  <2>7. e5 \in DepotType
    <3>1. e5 = [e4 EXCEPT !.preparing = TRUE]
      BY <2>1
    <3> QED BY <2>6, <3>1 DEF DepotType
  <2>8. c.depot.slot \in 0..SlotCount-1
    BY <1>0 DEF DepotType
  <2>9. e \in DepotType
    <3>1. e = [e5 EXCEPT !.target = c.depot.slot]
      BY <2>1
    <3> QED BY <2>7, <2>8, <3>1 DEF DepotType
  <2>10. /\ e.abnormal = Abnormal(m) /\ e.position = EntryPoint /\ e.used = {}
         /\ e.first = 0 /\ e.preparing
    BY <1>0, <2>1, <2>3, <2>4, <2>5, <2>6, <2>7 DEF DepotType
  <2>11. d = [c EXCEPT !.block = NoBlock, !.manifest = m, !.depot = e]
    BY <1>0, <2>1, <2>3, <2>4, <2>5, <2>6, <2>7, <2>9 DEF ContextType, DepotType
  <2>12. /\ d \in ContextType /\ d.vis = c.vis /\ d.manifest = m /\ d.depot = e
    <3>1. NoBlock \in BlockType
      BY DEF NoBlock, BlockType, NoResult
    <3> HIDE DEF d
    <3> QED BY <1>0, <2>2, <2>9, <2>11, <3>1 DEF ContextType
  <2>13. seek(d, "DEPOT_PREPARE")
    BY <1>2
  <2> HIDE DEF d
  <2>14. /\ Table(m) /\ InSlotOrder(m) /\ Planned(m, e)
         /\ \A i \in DOMAIN m : m[i].state # "PLACED"
    BY <1>0, <2>10, DrawIsPlan DEF Context
  <2>15. Calm(d)
    BY <2>12, <2>14, StillCalm
  <2>16. ASSUME NEW s \in {"DEPOT_PREPARE", "DEPOT_SEEK"} PROVE Apt(s, d)
    <3>1. /\ s \in PlacingStates /\ ~Fetching(s, e) /\ s \notin StationStates \cup LastStates
      BY <2>10 DEF PlacingStates, Fetching, StationStates, LastStates, BallStates
    <3>2. StationsFit(s, e)
      BY <2>10, <3>1 DEF StationsFit
    <3>3. PlacedFits(s, m, e)
      BY <2>10, <2>14, <3>1 DEF PlacedFits, Finished
    <3>4. BallFits(s, m, e)
      BY <3>1 DEF BallFits
    <3> QED
      BY <2>12, <2>14, <3>1, <3>2, <3>3, <3>4, BlocksAreDone DEF Apt, BallsFit
  <2>17. base = d.depot.position
    BY <2>10, <2>12
  <2> QED BY <2>13, <2>15, <2>16, <2>17, SeekKeeps
<1> QED BY <1>1, <1>2, Zenon DEF mission_depot_prepare

\* mission_depot_arm_done, one step per state.
LEMMA BallArmDoneKeeps ==
    ASSUME DepotInv, NEW c, Calm(c), base = c.depot.position,
           state \in DepotArmStates, Apt(state, c), mission_depot_arm_done(c)
    PROVE  DepotInv' /\ RestIsKept
<1>0. /\ c \in ContextType /\ c.depot \in DepotType /\ Context(c)
  BY DEF Calm, Context, ContextType
<1>a. state \in PlacingStates
  BY DEF DepotArmStates, PlacingStates, BallStates
<1>b. state \in {"DEPOT_AVOID", "DEPOT_PICK", "DEPOT_PLACE", "DEPOT_RETURN"} =>
        state \in BallStates /\ ~c.depot.preparing
  BY <1>a DEF Apt, BallsFit, StationsFit, Preparing, BallStates
<1>c. state \in {"DEPOT_PICK", "DEPOT_PLACE", "DEPOT_RETURN"} =>
        c.depot.slot = c.depot.target
  BY <1>a, <1>b DEF Apt, BallsFit, BallFits, Fetching
<1>1. CASE state \in {"DEPOT_PREPARE", "DEPOT_AVOID"} /\ enter(c, "DEPOT_SEEK")
  <2>1. Apt("DEPOT_SEEK", c)
    <3>1. CASE state = "DEPOT_AVOID"
      BY <1>b, <3>1, FetchingOn DEF BallStates
    <3>2. CASE state = "DEPOT_PREPARE"
      <4>1. Preparing("DEPOT_PREPARE", c.depot) /\ ~Fetching("DEPOT_PREPARE", c.depot)
        BY DEF Preparing, Fetching, BallStates
      <4>2. c.depot.preparing
        BY <1>a, <3>2, <4>1 DEF Apt, BallsFit, StationsFit
      <4>3. /\ Preparing("DEPOT_SEEK", c.depot) /\ ~Fetching("DEPOT_SEEK", c.depot)
            /\ "DEPOT_SEEK" \in PlacingStates
        BY <4>2 DEF Preparing, Fetching, BallStates, PlacingStates
      <4>4. StationsFit("DEPOT_SEEK", c.depot)
        BY <1>a, <3>2, <4>1, <4>3 DEF Apt, BallsFit, StationsFit, StationStates, LastStates
      <4>5. PlacedFits("DEPOT_SEEK", c.manifest, c.depot)
        BY <1>a, <3>2, <4>1, <4>3 DEF Apt, BallsFit, PlacedFits, Finished
      <4> QED
        BY <1>a, <3>2, <4>3, <4>4, <4>5, BlocksAreDone DEF Apt, BallsFit, BallFits
    <3> QED BY <1>1, <3>1, <3>2
  <2> QED BY <1>1, <2>1, EnterKeeps
<1>2. CASE state = "DEPOT_SAFE" /\ safe_done(c)
  BY <1>2, SafeDoneKeeps
<1>3. CASE state = "DEPOT_PICK" /\ run_arm(c, PlaceGroup(c.depot.row), "DEPOT_PLACE")
  <2>1. Apt("DEPOT_PLACE", c)
    BY <1>3, <1>b, <1>c, FetchingOn DEF BallStates
  <2> QED BY <1>3, <2>1, ArmKeeps DEF DepotArmStates, GroupsOf, Groups, PlaceGroup
<1>4. CASE state = "DEPOT_PLACE" /\ run_arm(c, 10, "DEPOT_RETURN")
  <2>1. Apt("DEPOT_RETURN", c)
    BY <1>4, <1>b, <1>c, FetchingOn DEF BallStates
  <2> QED BY <1>4, <2>1, ArmKeeps DEF DepotArmStates, GroupsOf, Groups
<1>5. CASE state = "DEPOT_RETURN" /\ ball_done(c)
  <2> DEFINE i == c.depot.sequence
             p == mark_placed(c.manifest, i)
             d == [c EXCEPT !.manifest = p]
             m == c.manifest
  <2>1. mission_depot_next_ball(d)
    BY <1>5 DEF ball_done
  <2>2. /\ ~c.depot.preparing /\ Fetching(state, c.depot)
        /\ Finished(state, c.depot) = Finished("DEPOT_SEEK", c.depot)
    BY <1>5, <1>b DEF Fetching, Finished, BallStates
  <2>3. /\ StationsFit(state, c.depot) /\ Planned(m, c.depot)
        /\ PlacedFits(state, m, c.depot) /\ BallFits(state, m, c.depot)
    BY <1>a DEF Apt, BallsFit
  <2>4. /\ i \in DOMAIN m \ c.depot.abnormal /\ c.depot.column \in c.depot.used
        /\ Target(m[i])[2] = c.depot.column
    <3>1. Target(m[i]) = <<c.depot.row, c.depot.column>>
      BY <2>2, <2>3 DEF BallFits
    <3> QED BY <2>2, <2>3, <3>1 DEF BallFits
  <2>5. /\ Table(p) /\ InSlotOrder(p) /\ DOMAIN p = DOMAIN m
        /\ \A j \in DOMAIN m : p[j].cell = m[j].cell /\ p[j].fallback = m[j].fallback
        /\ \A j \in DOMAIN m : p[j].state = IF j = i THEN "PLACED" ELSE m[j].state
    <3>1. Table(m) /\ InSlotOrder(m) /\ i \in DOMAIN m
      BY <1>0, <2>4 DEF Context
    <3> QED BY <3>1, MarkPlaced
  <2> HIDE DEF p
  <2>6. /\ d \in ContextType /\ d.vis = c.vis /\ d.depot = c.depot /\ d.manifest = p
    BY <1>0, <2>5 DEF ContextType, Table
  <2> HIDE DEF d
  <2>7. Calm(d)
    BY <2>5, <2>6, StillCalm
  <2>8. Planned(p, c.depot) /\ \A j \in DOMAIN m : Target(p[j]) = Target(m[j])
    BY <1>0, <2>3, <2>5, SamePlan DEF Context, Table
  <2>9. PlacedFits("DEPOT_SEEK", p, c.depot)
    BY <2>2, <2>3, <2>4, <2>5, <2>8 DEF PlacedFits
  <2>10. Choosing(d)
    BY <2>2, <2>3, <2>4, <2>6, <2>8, <2>9 DEF Choosing, StationsFit, BallFits
  <2> QED BY <2>1, <2>6, <2>7, <2>10, NextBallKeeps
<1> QED BY <1>1, <1>2, <1>3, <1>4, <1>5 DEF mission_depot_arm_done

-----------------------------------------------------------------------------
(* Moving the blocks: what each operator of the handlers leads to.         *)

\* Nothing but the blocks' context and the gripper matters before the draw.
LEMMA BlockApt ==
    ASSUME NEW s \in BlockStates, NEW c, Fresh(c.manifest), BlockFits(s, c.block, c.depot),
           Grip(s, c.block)
    PROVE  Apt(s, c)
<1>1. s \in BlockStages /\ s \notin PlacingStates
  BY DEF BlockStages, BlockStates, PlacingStates, BallStates, StationStates, LastStates
<1> QED BY <1>1 DEF Apt, BallsFit

\* The context of a base that stands at a station while the blocks are moved.
AtBlock(c) ==
    Calm(c) /\ base = c.depot.position /\ base \in Stations /\ Fresh(c.manifest)

\* The context of the blocks is typed.
LEMMA AtBlockTyped ==
    ASSUME NEW c, AtBlock(c)
    PROVE  /\ c \in ContextType /\ c.block \in BlockType /\ c.depot \in DepotType
           /\ Table(c.manifest) /\ InSlotOrder(c.manifest) /\ c.manifest \in Seq(RecordType)
BY DEF AtBlock, Calm, Context, ContextType

\* A context that differs in what it knows of the blocks.
LEMMA StillAtBlock ==
    ASSUME NEW c, AtBlock(c), NEW b \in BlockType, NEW d, d = [c EXCEPT !.block = b]
    PROVE  /\ AtBlock(d) /\ d.block = b
           /\ d.depot = c.depot /\ d.manifest = c.manifest /\ d.vis = c.vis
<1>1. /\ d \in ContextType /\ d.block = b
      /\ d.depot = c.depot /\ d.manifest = c.manifest /\ d.vis = c.vis
  BY AtBlockTyped DEF ContextType
<1>2. Calm(d)
  BY <1>1, AtBlockTyped, StillCalm DEF AtBlock
<1> QED BY <1>1, <1>2 DEF AtBlock

\* mission_block_start_layer.
LEMMA StartLayerKeeps ==
    ASSUME DepotInv, NEW c, AtBlock(c), ~held, mission_block_start_layer(c)
    PROVE  DepotInv' /\ RestIsKept
<1> DEFINE d == [c EXCEPT !.block.step = 0, !.block.digit = 0]
           g == VisionGroups[c.block.stage + 1]
<1>1. PICK w, b : w = [c.block EXCEPT !.step = 0] /\ b = [w EXCEPT !.digit = 0]
  OBVIOUS
<1>2. w \in BlockType
  BY <1>1, AtBlockTyped DEF BlockType
<1>3. b \in BlockType
  BY <1>1, <1>2 DEF BlockType
<1>4. b.step = 0 /\ b.digit = 0
  BY <1>1, <1>2, <1>3, AtBlockTyped DEF BlockType
<1>5. d = [c EXCEPT !.block = b]
  BY <1>1, <1>2, <1>3, AtBlockTyped DEF ContextType, BlockType
<1>6. run_arm(d, g, "BLOCK_WAIT_POSE")
  BY DEF mission_block_start_layer
<1>7. g \in {28, 29, 30}
  BY AtBlockTyped DEF BlockType, VisionGroups
<1> HIDE DEF d, g
<1>8. AtBlock(d) /\ d.block = b
  BY <1>3, <1>5, StillAtBlock
<1>9. Apt("BLOCK_WAIT_POSE", d)
  <2>1. BlockFits("BLOCK_WAIT_POSE", d.block, d.depot)
    BY <1>4, <1>8 DEF BlockFits, AtBlock
  <2>2. Grip("BLOCK_WAIT_POSE", d.block)
    BY <1>4, <1>8 DEF Grip
  <2> QED BY <1>8, <2>1, <2>2, BlockApt DEF BlockStates, AtBlock
<1> QED
  BY <1>6, <1>7, <1>8, <1>9, ArmKeeps DEF AtBlock, GroupsOf, Groups, BlockArmStates

\* mission_block_next_layer.
LEMMA NextLayerKeeps ==
    ASSUME DepotInv, NEW c, AtBlock(c), ~held, mission_block_next_layer(c)
    PROVE  DepotInv' /\ RestIsKept
<1>1. CASE c.block.stage < 2
  <2> DEFINE d == [c EXCEPT !.block.stage = @ + 1]
  <2>1. PICK b : b = [c.block EXCEPT !.stage = @ + 1]
    OBVIOUS
  <2>2. b \in BlockType
    BY <1>1, <2>1, AtBlockTyped DEF BlockType
  <2>3. d = [c EXCEPT !.block = b]
    BY <2>1, AtBlockTyped DEF ContextType, BlockType
  <2>4. mission_block_start_layer(d)
    BY <1>1 DEF mission_block_next_layer
  <2> HIDE DEF d
  <2> QED BY <2>2, <2>3, <2>4, StillAtBlock, StartLayerKeeps
<1>2. CASE ~(c.block.stage < 2)
  <2>1. run_arm(c, 10, "BLOCK_FINISH")
    BY <1>2 DEF mission_block_next_layer
  <2>2. Apt("BLOCK_FINISH", c)
    <3>1. BlockFits("BLOCK_FINISH", c.block, c.depot) /\ Grip("BLOCK_FINISH", c.block)
      BY DEF BlockFits, Grip, AtBlock
    <3> QED BY <3>1, BlockApt DEF BlockStates, AtBlock
  <2> QED BY <2>1, <2>2, ArmKeeps DEF AtBlock, GroupsOf, Groups, BlockArmStates
<1> QED BY <1>1, <1>2

\* mission_block_position_done.
LEMMA PositionDoneKeeps ==
    ASSUME DepotInv, NEW c, AtBlock(c), c.depot.position = c.block.point,
           NEW s \in BlockMoveStates, Apt(s, c), mission_block_position_done(c, s)
    PROVE  DepotInv' /\ RestIsKept
<1>1. CASE s = "BLOCK_WAIT_POSITION" /\ enter(c, "BLOCK_SETTLE")
  <2>1. BlockFits("BLOCK_SETTLE", c.block, c.depot) /\ Grip("BLOCK_SETTLE", c.block)
    BY <1>1 DEF Apt, BlockFits, Grip, AtBlock
  <2>2. Apt("BLOCK_SETTLE", c)
    BY <2>1, BlockApt DEF BlockStates, AtBlock
  <2> QED BY <1>1, <2>2, EnterKeeps DEF AtBlock
<1>2. CASE /\ s = "BLOCK_WAIT_D4" /\ c.block.digit # 0
           /\ run_arm(c, PlaceGroups[c.block.digit], "BLOCK_WAIT_PLACE")
  <2>1. /\ BlockFits("BLOCK_WAIT_PLACE", c.block, c.depot)
        /\ Grip("BLOCK_WAIT_PLACE", c.block)
    BY <1>2 DEF Apt, BlockFits, Grip, AtBlock
  <2>2. Apt("BLOCK_WAIT_PLACE", c)
    BY <2>1, BlockApt DEF BlockStates, AtBlock
  <2>3. PlaceGroups[c.block.digit] \in {32, 34, 36}
    BY <1>2, AtBlockTyped DEF BlockType, PlaceGroups
  <2> QED
    BY <1>2, <2>2, <2>3, ArmKeeps DEF AtBlock, GroupsOf, Groups, BlockArmStates
<1>3. CASE s = "BLOCK_WAIT_D4" /\ c.block.digit = 0 /\ mission_block_next_layer(c)
  <2>1. held = FALSE
    BY <1>3 DEF Apt, Grip
  <2> QED BY <1>3, <2>1, NextLayerKeeps
<1>4. CASE s = "BLOCK_RETURN_DEPOT" /\ mission_depot_prepare(c)
  <2>1. c.block.point = EntryPoint
    BY <1>4 DEF Apt, BlockFits
  <2> QED BY <1>4, <2>1, PrepareKeeps DEF AtBlock
<1> QED BY <1>1, <1>2, <1>3, <1>4 DEF mission_block_position_done

\* The base is sent to station n, or is there already.
LEMMA MoveKeeps ==
    ASSUME DepotInv, NEW c, AtBlock(c), NEW n \in Stations, NEW s \in BlockMoveStates,
           s = "BLOCK_WAIT_POSITION" => ~held /\ c.block.digit = 0 /\ c.block.step < 3,
           s = "BLOCK_WAIT_D4" =>
               held = (c.block.digit # 0) /\ n = mission_block_place_point,
           s = "BLOCK_RETURN_DEPOT" => ~held /\ n = EntryPoint,
           mission_block_move(c, n, s)
    PROVE  DepotInv' /\ RestIsKept
<1> DEFINE d == [c EXCEPT !.block.point = n]
<1>1. PICK b : b = [c.block EXCEPT !.point = n]
  OBVIOUS
<1>2. b \in BlockType
  BY <1>1, AtBlockTyped DEF BlockType, Stations
<1>3. b.point = n /\ b.digit = c.block.digit /\ b.step = c.block.step
  BY <1>1, AtBlockTyped DEF BlockType
<1>4. d = [c EXCEPT !.block = b]
  BY <1>1, AtBlockTyped DEF ContextType, BlockType
<1>5. IF c.depot.position = n THEN mission_block_position_done(d, s)
                              ELSE go(d, GoDepot[n], s)
  BY DEF mission_block_move
<1> HIDE DEF d
<1>6. AtBlock(d) /\ d.block = b /\ d.depot = c.depot
  BY <1>2, <1>4, StillAtBlock
<1>7. Apt(s, d)
  <2>1. Grip(s, d.block)
    BY <1>3, <1>6 DEF Grip, BlockMoveStates
  <2>2. BlockFits(s, d.block, d.depot)
    BY <1>3, <1>6 DEF BlockFits, BlockMoveStates, AtBlock
  <2> QED BY <1>6, <2>1, <2>2, BlockApt DEF BlockStates, BlockMoveStates, AtBlock
<1>8. CASE c.depot.position = n
  BY <1>3, <1>5, <1>6, <1>7, <1>8, PositionDoneKeeps
<1>9. CASE c.depot.position # n
  <2>1. Wanted(s, d.block, d.depot) = n
    BY <1>3, <1>6 DEF Wanted, BlockMoveStates
  <2>2. GoDepot[n] = Order(s, n) /\ s # "DEPOT_WAIT_HOME"
    BY DEF Order, BlockMoveStates
  <2>3. s \in AskStates \ {"WAIT_DEPOT_1"}
    BY DEF AskStates, BlockMoveStates
  <2> QED BY <1>5, <1>6, <1>7, <1>9, <2>1, <2>2, <2>3, GoKeeps DEF AtBlock
<1> QED BY <1>8, <1>9

\* mission_block_scan_point.
LEMMA ScanPointKeeps ==
    ASSUME DepotInv, NEW c, AtBlock(c), ~held, c.block.digit = 0, c.block.step < 3,
           mission_block_scan_point(c)
    PROVE  DepotInv' /\ RestIsKept
<1>1. mission_block_scan_point_id(c.block.stage, c.block.step) \in Stations
  BY AtBlockTyped DEF mission_block_scan_point_id, BlockType, Stations
<1> QED BY <1>1, MoveKeeps DEF mission_block_scan_point, BlockMoveStates

\* Both sides enter and place at a station.
LEMMA PlacePoint == mission_block_place_point \in Stations /\ EntryPoint \in Stations
BY DEF mission_block_place_point, EntryPoint, Stations

\* mission_block_digit_done.
LEMMA BlockDigitDoneKeeps ==
    ASSUME DepotInv, NEW c, AtBlock(c), ~held, c.block.digit = 0, c.block.step < 3,
           mission_block_digit_done(c)
    PROVE  DepotInv' /\ RestIsKept
<1> DEFINE d == [c EXCEPT !.block.result = NoResult]
<1>1. PICK b : b = [c.block EXCEPT !.result = NoResult]
  OBVIOUS
<1>2. b \in BlockType
  <2>1. c.block \in BlockType /\ NoResult \in 0..NoResult
    BY AtBlockTyped DEF NoResult
  <2> QED BY <1>1, <2>1 DEF BlockType
<1>3. b.step = c.block.step /\ b.digit = 0 /\ b.stage = c.block.stage
  BY <1>1, AtBlockTyped DEF BlockType
<1>4. d = [c EXCEPT !.block = b]
  BY <1>1, AtBlockTyped DEF ContextType, BlockType
<1> HIDE DEF d
<1>5. /\ AtBlock(d) /\ d.block = b /\ d.depot = c.depot /\ d.manifest = c.manifest
      /\ d.vis = c.vis
  BY <1>2, <1>4, StillAtBlock
<1>6. CASE /\ c.block.result \in 1..3
           /\ run_arm([d EXCEPT !.block.digit = c.block.result],
                      GraspGroups[c.block.stage + 1], "BLOCK_WAIT_GRASP")
  <2> DEFINE e == [d EXCEPT !.block.digit = c.block.result]
  <2>1. PICK x : x = [b EXCEPT !.digit = c.block.result]
    OBVIOUS
  <2>0. c.block.result \in 1..3
    BY <1>6
  <2>2. x \in BlockType /\ x.digit # 0
    <3>1. c.block.result \in 0..3 /\ c.block.result # 0
      BY <2>0
    <3> QED BY <1>2, <2>1, <3>1 DEF BlockType
  <2>a. d \in ContextType
    BY <1>5, AtBlockTyped
  <2>3. e = [d EXCEPT !.block = x]
    BY <1>5, <2>1, <2>a DEF ContextType
  <2>4. GraspGroups[c.block.stage + 1] \in {31, 33, 35}
    BY AtBlockTyped DEF BlockType, GraspGroups
  <2>5. run_arm(e, GraspGroups[c.block.stage + 1], "BLOCK_WAIT_GRASP")
    BY <1>6
  <2> HIDE DEF e
  <2>6. AtBlock(e) /\ e.block = x
    BY <1>5, <2>2, <2>3, StillAtBlock
  <2>7. Apt("BLOCK_WAIT_GRASP", e)
    <3>1. /\ BlockFits("BLOCK_WAIT_GRASP", e.block, e.depot)
          /\ Grip("BLOCK_WAIT_GRASP", e.block)
      BY <2>2, <2>6 DEF BlockFits, Grip, AtBlock
    <3> QED BY <2>6, <3>1, BlockApt DEF BlockStates, AtBlock
  <2> QED
    BY <2>4, <2>5, <2>6, <2>7, ArmKeeps DEF AtBlock, GroupsOf, Groups, BlockArmStates
<1>7. ASSUME LET n == [d EXCEPT !.block.step = @ + 1] IN
             \/ n.block.step < 3 /\ mission_block_scan_point(n)
             \/ /\ n.block.step >= 3
                /\ mission_block_move(n, mission_block_place_point, "BLOCK_WAIT_D4")
      PROVE  DepotInv' /\ RestIsKept
  <2> DEFINE n == [d EXCEPT !.block.step = @ + 1]
  <2>1. PICK x : x = [b EXCEPT !.step = @ + 1]
    OBVIOUS
  <2>2. x \in BlockType /\ x.digit = 0
    BY <1>2, <1>3, <2>1, AtBlockTyped DEF BlockType
  <2>a. d \in ContextType
    BY <1>5, AtBlockTyped
  <2>5. \/ n.block.step < 3 /\ mission_block_scan_point(n)
        \/ mission_block_move(n, mission_block_place_point, "BLOCK_WAIT_D4")
    BY <1>7
  <2>3. n = [d EXCEPT !.block = x]
    BY <1>5, <2>1, <2>a DEF ContextType
  <2> HIDE DEF n
  <2>6. AtBlock(n) /\ n.block = x
    BY <1>5, <2>2, <2>3, StillAtBlock
  <2>7. CASE n.block.step < 3 /\ mission_block_scan_point(n)
    BY <2>2, <2>6, <2>7, ScanPointKeeps
  <2>8. CASE mission_block_move(n, mission_block_place_point, "BLOCK_WAIT_D4")
    <3>1. held = (n.block.digit # 0)
      <4>1. ~(n.block.digit # 0)
        BY <2>2, <2>6
      <4>2. held \in BOOLEAN
        BY DEF DepotInv, ControlInv, TypeOK
      <4> QED BY <4>1, <4>2
    <3> QED BY <2>6, <2>8, <3>1, PlacePoint, MoveKeeps DEF BlockMoveStates
  <2> QED BY <2>5, <2>7, <2>8
<1>8. CASE fail(d, "VISION")
  BY <1>5, <1>8, FailKeeps DEF Faults, AtBlock, Calm
<1> QED BY <1>6, <1>7, <1>8 DEF mission_block_digit_done, d

-----------------------------------------------------------------------------
(* Steps that leave the run where it is.                                   *)

\* The last result of a block and the last digit of a session are all that
\* changes in the contexts.
OnlyResults ==
    /\ block' = [block EXCEPT !.result = block'.result]
    /\ depot' = [depot EXCEPT !.digit = depot'.digit]

\* A step that leaves the contexts alone changes only results.
LEMMA NoResults ==
    ASSUME DepotInv, UNCHANGED <<block, depot>>
    PROVE  OnlyResults /\ block' \in BlockType /\ depot' \in DepotType
<1>1. block \in BlockType /\ depot \in DepotType
  BY DEF DepotInv, ControlInv, TypeOK
<1>2. block = [block EXCEPT !.result = block.result]
  BY <1>1 DEF BlockType
<1>3. depot = [depot EXCEPT !.digit = depot.digit]
  BY <1>1 DEF DepotType
<1> QED BY <1>1, <1>2, <1>3 DEF OnlyResults

\* What OnlyResults leaves alone, field by field.
LEMMA OtherFields ==
    ASSUME DepotInv, OnlyResults
    PROVE  /\ block'.stage = block.stage /\ block'.step = block.step
           /\ block'.digit = block.digit /\ block'.point = block.point
           /\ depot'.position = depot.position /\ depot'.slot = depot.slot
           /\ depot'.target = depot.target /\ depot'.preparing = depot.preparing
           /\ depot'.abnormal = depot.abnormal /\ depot'.used = depot.used
           /\ depot'.first = depot.first /\ depot'.column = depot.column
           /\ depot'.sequence = depot.sequence /\ depot'.row = depot.row
<1>1. block \in BlockType /\ depot \in DepotType
  BY DEF DepotInv, ControlInv, TypeOK
<1> DEFINE r == block'.result
           n == depot'.digit
<1>2. block' = [block EXCEPT !.result = r] /\ depot' = [depot EXCEPT !.digit = n]
  BY DEF OnlyResults
<1> HIDE DEF r, n
<1>3. /\ block'.stage = block.stage /\ block'.step = block.step
      /\ block'.digit = block.digit /\ block'.point = block.point
  BY <1>1, <1>2 DEF BlockType
<1>4. /\ depot'.position = depot.position /\ depot'.slot = depot.slot
      /\ depot'.target = depot.target /\ depot'.preparing = depot.preparing
      /\ depot'.abnormal = depot.abnormal /\ depot'.used = depot.used
  BY <1>1, <1>2 DEF DepotType
<1>5. /\ depot'.first = depot.first /\ depot'.column = depot.column
      /\ depot'.sequence = depot.sequence /\ depot'.row = depot.row
  BY <1>1, <1>2 DEF DepotType
<1> QED BY <1>3, <1>4, <1>5

\* Such a step keeps the invariant if it keeps the parts about results.
LEMMA SameKeeps ==
    ASSUME DepotInv, ControlInv', OnlyResults,
           UNCHANGED <<state, requestId, activeArm, arm, cmdQ, manifest, side, held,
                       chassisVars, evtQ>>,
           misread' >= misread, armHome' => armHome,
           OkSignalled' => OkSignalled, ~("ARM_OK" \in flags' /\ OkSeen'),
           pc' = "turning" => arm = 0,
           SessionFits', StoppingFits', DigitsFit'
    PROVE  DepotInv' /\ RestIsKept
<1>0. misread \in Nat /\ misread' \in Nat
  BY DEF DepotInv, ControlInv
<1>1. Table(manifest)' /\ InSlotOrder(manifest)'
  BY DEF DepotInv, Table, InSlotOrder, DrawnFits, Read
<1>2. UNCHANGED <<cpc, driving, base, goal, reqId>>
  BY DEF chassisVars
<1>3. BaseFits'
  <2>1. Wanted(state', block', depot') = Wanted(state, block, depot)
    BY OtherFields DEF Wanted, BlockMoveStates
  <2>2. Waiting(state, Wanted(state, block, depot)) =>
            Waiting(state, Wanted(state, block, depot))'
    BY <1>2, <2>1 DEF Waiting, IdlePlace, WorkPlaces
  <2>3. Standing(state, depot) => Standing(state, depot)'
    BY <1>2, OtherFields DEF Standing
  <2>4. state \in AskStates => Waiting(state, Wanted(state, block, depot))'
    BY <2>2 DEF DepotInv, BaseFits
  <2> QED BY <1>2, <2>3, <2>4 DEF DepotInv, BaseFits
<1>4. ArmFits'
  <2>1. GroupsOf(state', depot') = GroupsOf(state, depot)
    BY OtherFields DEF GroupsOf
  <2> QED BY <2>1 DEF DepotInv, ArmFits
<1>5. HeldFits'
  BY OtherFields DEF DepotInv, HeldFits
<1>6. BlockFits(state, block, depot)'
  BY OtherFields DEF DepotInv, BlockFits, mission_block_place_point, EntryPoint
<1>7. BallsFit(state, depot, manifest)'
  <2>1. state \in BlockStages => Fresh(manifest')
    BY DEF DepotInv, BallsFit
  <2>2. ASSUME state \in PlacingStates
        PROVE  /\ StationsFit(state, depot)' /\ Planned(manifest, depot)'
               /\ PlacedFits(state, manifest, depot)' /\ BallFits(state, manifest, depot)'
    <3>0. /\ StationsFit(state, depot) /\ Planned(manifest, depot)
          /\ PlacedFits(state, manifest, depot) /\ BallFits(state, manifest, depot)
      BY <2>2 DEF DepotInv, BallsFit
    <3>1. Preparing(state', depot') = Preparing(state, depot)
      BY OtherFields DEF Preparing
    <3>2. Fetching(state', depot') = Fetching(state, depot)
      BY OtherFields DEF Fetching
    <3>3. StationsFit(state, depot)'
      BY <3>0, <3>1, <3>2, OtherFields DEF StationsFit, Visited, OnTheWay, EntryPoint
    <3>4. Planned(manifest, depot)'
      BY <3>0, OtherFields DEF Planned
    <3>5. Finished(state', depot') = Finished(state, depot)
      BY <3>2, OtherFields DEF Finished
    <3>6. PlacedFits(state, manifest, depot)'
      BY <3>0, <3>5, OtherFields DEF PlacedFits
    <3>7. Sign' = Sign
      BY <1>2 DEF Sign
    <3>8. misread' <= 1 => misread <= 1
      BY <1>0
    <3>9. BallFits(state, manifest, depot)'
      BY <3>0, <3>2, <3>7, <3>8, OtherFields DEF BallFits
    <3> QED BY <3>3, <3>4, <3>6, <3>9
  <2> QED BY <2>1, <2>2 DEF BallsFit
<1>8. misread' <= 1 => RightCell'
  <2>1. misread' <= 1 => RightCell
    BY <1>0 DEF DepotInv
  <2>2. RightCell => RightCell'
    BY <1>2, OtherFields DEF RightCell, PlacedCells
  <2> QED BY <2>1, <2>2
<1> QED
  BY <1>1, <1>3, <1>4, <1>5, <1>6, <1>7, <1>8 DEF DepotInv, RestIsKept

\* The same for a handler of the Mission task.
LEMMA HandlerKeeps ==
    ASSUME DepotInv, NEW v, HandlerStep(v), Handled(DepotStates, v), evtQ' = evtQ,
           UNCHANGED <<state, requestId, activeArm, armHome, arm, cmdQ, manifest>>,
           OnlyResults, block' \in BlockType, depot' \in DepotType,
           state \notin RestStates => SessionFits' /\ StoppingFits' /\ DigitsFit'
    PROVE  DepotInv' /\ RestIsKept
<1>1. Table(manifest')
  BY DEF DepotInv
<1>2. ControlInv'
  BY <1>1, ControlKept DEF DepotInv
<1>3. /\ UNCHANGED <<side, held, misread, flags, chassisVars>> /\ (OkSeen' => OkSeen)
      /\ pc' = "turning" => pc = "turning"
  BY DEF HandlerStep, worldVars
<1>4. /\ OkSignalled' => OkSignalled
      /\ ~("ARM_OK" \in flags' /\ OkSeen')
      /\ pc' = "turning" => arm = 0
  BY <1>3 DEF OkSignalled, DepotInv, ArmFits
<1>5. misread' >= misread
  BY <1>3 DEF DepotInv, ControlInv
<1>6. state \in RestStates => SessionFits' /\ StoppingFits' /\ DigitsFit'
  BY DEF SessionFits, StoppingFits, DigitsFit, RestStates
<1> QED BY <1>2, <1>3, <1>4, <1>5, <1>6, SameKeeps

\* The steps of the main loop that only lead from one stage to the next.
LoopStep ==
    \/ /\ Wake \/ WakeLate(Timed) \/ CommandsDone \/ EventsDone \/ ArmDone \/ VisionDone
       /\ UNCHANGED <<depotVars, worldVars, chassisVars>>
    \/ WakeDue \/ NoPoll \/ NotYet \/ BeginTurn \/ TurnGivesUp

\* They keep the invariant.
LEMMA LoopKeeps ==
    ASSUME DepotInv, LoopStep
    PROVE  DepotInv' /\ RestIsKept
<1>1. UNCHANGED <<ctxVars, evtQ, depotVars, worldVars, chassisVars>>
  BY DEF LoopStep, Wake, WakeLate, CommandsDone, EventsDone, ArmDone, VisionDone,
         WakeDue, NoPoll, NotYet, BeginTurn, TurnGivesUp, turn_ends
<1>2. /\ UNCHANGED <<state, fault, requestId, activeArm, armHome, vis, arm, cmdQ>>
      /\ UNCHANGED <<side, manifest, block, depot, seen, misread, held>>
      /\ UNCHANGED <<cpc, driving, base, goal, reqId>>
  BY <1>1 DEF ctxVars, depotVars, worldVars, chassisVars
<1>3. LoopTyped /\ ControlInv /\ ArmFits /\ DoneMeansAnswered
  BY Typed DEF DepotInv, ControlInv
<1>4. /\ LoopTyped' /\ DoneMeansAnswered'
      /\ OkSignalled' => OkSignalled
      /\ ~("ARM_OK" \in flags' /\ OkSeen')
      /\ pc' = "turning" => arm = 0
  <2>1. CASE Wake
    BY <1>2, <1>3, <2>1 DEF Wake, LoopTyped, LoopStages, DoneMeansAnswered, DoneSeen,
       Answered, OkSignalled, OkSeen
  <2>2. CASE /\ got' = {} /\ UNCHANGED <<flags, userQ, stops>>
             /\ pc' = "process" \/ pc' = "wait"
    BY <1>2, <1>3, <2>2 DEF LoopTyped, LoopStages, DoneMeansAnswered, DoneSeen,
       Answered, OkSignalled, OkSeen
  <2>3. CASE UNCHANGED <<flags, userQ, stops, got>> /\ pc' = "turning" /\ state = "DEPOT_SEEK"
    <3>1. arm = 0
      BY <1>3, <2>3 DEF ArmFits, RestStates, BlockArmStates, DepotArmStates
    <3> QED
      BY <1>2, <1>3, <2>3, <3>1 DEF LoopTyped, LoopStages, DoneMeansAnswered, DoneSeen,
         Answered, OkSignalled, OkSeen
  <2>4. CASE /\ UNCHANGED <<flags, userQ, stops, got>>
             /\ \/ pc = "commands" /\ pc' = "events"
                \/ pc = "events" /\ pc' = "arm"
                \/ pc = "arm" /\ pc' = "vision"
                \/ pc = "vision" /\ pc' = "process"
                \/ pc = "process" /\ pc' = "timeout"
    <3>1. ~("ARM_OK" \in flags /\ OkSeen)
      BY <1>3 DEF ArmFits
    <3> QED
      BY <1>2, <1>3, <2>4, <3>1 DEF LoopTyped, LoopStages, DoneMeansAnswered, DoneSeen,
         Answered, OkSignalled, OkSeen
  <2>5. CASE WakeLate(Timed) \/ WakeDue \/ NotYet \/ TurnGivesUp
    BY <2>2, <2>5 DEF WakeLate, WakeDue, NotYet, TurnGivesUp, turn_ends
  <2>6. CASE BeginTurn
    BY <2>3, <2>6 DEF BeginTurn, goto
  <2>7. CASE CommandsDone \/ EventsDone \/ ArmDone \/ VisionDone \/ NoPoll
    BY <2>4, <2>7 DEF CommandsDone, EventsDone, ArmDone, VisionDone, NoPoll, goto
  <2> QED BY <2>1, <2>5, <2>6, <2>7 DEF LoopStep
<1>5. ControlInv'
  <2>1. CoreTypeOK' /\ ChassisTypeOK'
    BY <1>2, <1>3, <1>4 DEF ControlInv, TypeOK, CoreTypeOK, ChassisTypeOK, LoopTyped
  <2>2. TypeOK' /\ misread' \in Nat
    BY <1>2, <1>3, <2>1 DEF ControlInv, TypeOK
  <2> QED
    BY <1>1, <1>2, <1>3, <1>4, <2>2 DEF ControlInv, QueueTyped, StopNoted
<1>6. SessionFits' /\ StoppingFits' /\ DigitsFit'
  BY <1>2 DEF DepotInv, SessionFits, StoppingFits, DigitsFit, Shown, EventPending, Sign
<1>7. misread' >= misread
  BY <1>2, <1>3 DEF ControlInv
<1> QED
  BY <1>1, <1>2, <1>4, <1>5, <1>6, <1>7, NoResults, SameKeeps

\* mission_handle_command, at the head of a turn or while the turntable turns.
LEMMA CommandKeeps ==
    ASSUME DepotInv, mission_handle_command, UNCHANGED depotVars,
           UNCHANGED <<evtQ, flags, stops, got, pc, worldVars, chassisVars>>,
           userQ' \in 0..CommandDepth, pc \in {"commands", "turning"}
    PROVE  DepotInv' /\ RestIsKept
<1>1. /\ ControlInv /\ CtxTyped(DepotStates) /\ LoopTyped
      /\ SafeRecord(vis) /\ StopNoted(vis)
  BY Typed DEF DepotInv, ControlInv
<1>2. /\ Handled(DepotStates, vis) /\ StopOnly
      /\ state \notin {"STOPPED", "BOOT"} => Rested
  BY <1>1, CommandSafe
<1>3. state # "BOOT"
  BY <1>1 DEF CtxTyped, DepotStates, RestStates, BlockArmStates, BlockMoveStates,
              DepotArmStates
<1>4. state = "STOPPED" => Rested
  BY DEF mission_handle_command, Rested, RestStates
<1>5. Rested
  BY <1>2, <1>3, <1>4
<1>6. UNCHANGED <<side, manifest, block, depot>>
  BY DEF depotVars
<1>7. HandlerStep(vis)
  BY <1>1, <1>6 DEF HandlerStep, LoopTyped, OkSeen, ControlInv
<1>8. state \in BlockStates => arm' = 0
  <2>1. SUFFICES ASSUME state \in BlockStates PROVE arm' = 0
    OBVIOUS
  <2>2. ASSUME NEW id, NEW r, mission_fail([With(r.vis) EXCEPT !.id = id], "QUEUE")
        PROVE  arm' = 0
    BY <2>1, <2>2, HaltsArm
  <2>3. ASSUME halt_block_arm(Now) PROVE arm' = 0
    BY <2>1, <2>3 DEF halt_block_arm
  <2>4. state \notin {"STOPPED", "BOOT"}
    BY <2>1 DEF BlockStates
  <2> QED BY <2>2, <2>3, <2>4, Zenon DEF mission_handle_command
<1>9. /\ block' \in BlockType /\ depot' \in DepotType
      /\ Table(manifest') /\ InSlotOrder(manifest')
  BY <1>1, <1>6 DEF DepotInv, ControlInv, TypeOK
<1> QED BY <1>2, <1>5, <1>6, <1>7, <1>8, <1>9, RestKeeps

-----------------------------------------------------------------------------
(* mission_handle_chassis                                                  *)

\* The context a handler starts from.
LEMMA CtxNow ==
    ASSUME DepotInv
    PROVE  /\ Ctx \in ContextType /\ Context(Ctx) /\ Ctx.vis = vis
           /\ Ctx.id = requestId /\ Ctx.active = activeArm
           /\ Ctx.block = block /\ Ctx.depot = depot /\ Ctx.manifest = manifest
<1>1. Ctx \in ContextType
  BY DEF DepotInv, ControlInv, TypeOK, CoreTypeOK, Ctx, ContextType, Table
<1>2. /\ Ctx.vis = vis /\ Ctx.id = requestId /\ Ctx.active = activeArm
      /\ Ctx.block = block /\ Ctx.depot = depot /\ Ctx.manifest = manifest
  BY DEF Ctx
<1> QED BY <1>1, <1>2 DEF Context, DepotInv, ControlInv

\* A handler that changes nothing of its context.
LEMMA EnterFields ==
    ASSUME DepotInv, NEW s, enter(Ctx, s)
    PROVE  /\ state' = s
           /\ UNCHANGED <<vis, requestId, activeArm, fault, armHome, arm, cmdQ>>
           /\ UNCHANGED <<block, depot, manifest, side>>
BY CtxNow DEF enter, written

\* A state entered with the context as it is keeps the types.
LEMMA EnteredTyped ==
    ASSUME DepotInv, NEW s \in DepotStates, enter(Ctx, s),
           s \in RestStates => state \in RestStates
    PROVE  Handled(DepotStates, vis)
<1>1. CtxTyped(DepotStates) /\ SafeRecord(vis) /\ StopNoted(vis) /\ QueueTyped
  BY Typed DEF DepotInv, ControlInv
<1> QED BY <1>1, EnterFields DEF Handled, CtxTyped, QueueTyped, StopNoted

\* A run that rests is entered again, or a late answer to STOP ends it.
LEMMA RestEnterKeeps ==
    ASSUME DepotInv, HandlerStep(vis), state \in RestStates,
           NEW s \in RestStates, enter(Ctx, s)
    PROVE  DepotInv' /\ RestIsKept
<1>1. Handled(DepotStates, vis)
  BY EnteredTyped DEF DepotStates
<1>2. StopOnly /\ Rested
  BY EnterFields DEF StopOnly, Rested
<1>3. state \notin BlockStates
  BY DEF RestStates, BlockStates
<1>4. /\ block' \in BlockType /\ depot' \in DepotType
      /\ Table(manifest') /\ InSlotOrder(manifest')
  BY EnterFields DEF DepotInv, ControlInv, TypeOK
<1> QED BY <1>1, <1>2, <1>3, <1>4, EnterFields, RestKeeps

\* The base has come to where it was sent and nothing else is under way.
Arrived(n) ==
    /\ DepotInv /\ HandlerStep(vis) /\ state \in AskStates \ {"DEPOT_WAIT_HOME"}
    /\ cmdQ = <<>> /\ evtQ' = <<>> /\ ~driving /\ cpc = "depot" /\ base = n
    /\ pc' # "turning"

\* A state that waits for the base is no state of rest.
LEMMA AskStatesOn ==
    ASSUME NEW s \in AskStates
    PROVE  s \notin RestStates \cup BlockArmStates \cup DepotArmStates
               \cup {"BLOCK_WAIT_DIGIT", "DEPOT_WAIT_DIGIT", "DEPOT_DIGIT_STOP"}
BY DEF AskStates, BlockMoveStates, RestStates, BlockArmStates, DepotArmStates

\* While the base is awaited no group is out.
LEMMA AskStateIsQuiet ==
    ASSUME DepotInv, state \in AskStates
    PROVE  state \notin RestStates /\ arm = 0 /\ ~OkSignalled /\ vis.phase = "IDLE"
           /\ ~vis.stopReq
<1>1. state \notin RestStates \cup BlockArmStates \cup DepotArmStates
              \cup {"BLOCK_WAIT_DIGIT", "DEPOT_WAIT_DIGIT", "DEPOT_DIGIT_STOP"}
  BY AskStatesOn
<1>2. arm = 0 /\ ~OkSignalled
  BY <1>1 DEF DepotInv, ArmFits
<1> QED BY <1>1, <1>2 DEF DepotInv, SessionFits

\* An answer that was awaited finds base and arm at rest.
LEMMA ArrivedCalm ==
    ASSUME NEW n, Arrived(n), NEW c \in ContextType, c.vis = vis, c.manifest = manifest
    PROVE  Calm(c)
<1>1. /\ state \notin RestStates /\ arm = 0 /\ ~OkSignalled /\ vis.phase = "IDLE"
      /\ ~vis.stopReq /\ DepotInv
  BY AskStateIsQuiet DEF Arrived
<1>2. ~OkSignalled'
  BY <1>1 DEF OkSignalled, HandlerStep, Arrived
<1>3. Context(c)
  BY <1>1 DEF Context, DepotInv, ControlInv
<1> QED BY <1>1, <1>2, <1>3 DEF Calm, Arrived

\* OnDepotReached: the blocks begin.
LEMMA DepotReachedKeeps ==
    ASSUME Arrived(1), state = "WAIT_DEPOT_1", mission_block_begin
    PROVE  DepotInv' /\ RestIsKept
<1> DEFINE c == [Ctx EXCEPT !.block.stage = 0, !.block.step = 0, !.block.digit = 0,
                            !.block.result = NoResult, !.depot.position = 1]
<1>0. DepotInv /\ base = 1 /\ Ctx \in ContextType
  BY CtxNow DEF Arrived
<1>1. PICK b1, b2, b3, b, e :
         /\ b1 = [block EXCEPT !.stage = 0] /\ b2 = [b1 EXCEPT !.step = 0]
         /\ b3 = [b2 EXCEPT !.digit = 0] /\ b = [b3 EXCEPT !.result = NoResult]
         /\ e = [depot EXCEPT !.position = 1]
  OBVIOUS
<1>a. block \in BlockType /\ depot \in DepotType
  BY <1>0 DEF DepotInv, ControlInv, TypeOK
<1>b. 0 \in 0..2 /\ 0 \in 0..3 /\ 1 \in 0..4 /\ NoResult \in 0..NoResult
  BY DEF NoResult
<1>2. b1 \in BlockType
  <2>1. b1 = [block EXCEPT !.stage = 0]
    BY <1>1
  <2> QED BY <1>a, <1>b, <2>1 DEF BlockType
<1>3. b2 \in BlockType
  <2>1. b2 = [b1 EXCEPT !.step = 0]
    BY <1>1
  <2> QED BY <1>2, <1>b, <2>1 DEF BlockType
<1>4. b3 \in BlockType /\ b3.digit = 0
  <2>1. b3 = [b2 EXCEPT !.digit = 0]
    BY <1>1
  <2> QED BY <1>3, <1>b, <2>1 DEF BlockType
<1>5. b \in BlockType /\ b.digit = 0
  <2>1. b = [b3 EXCEPT !.result = NoResult]
    BY <1>1
  <2> QED BY <1>4, <1>b, <2>1 DEF BlockType
<1>6. e \in DepotType /\ e.position = 1
  <2>1. e = [depot EXCEPT !.position = 1]
    BY <1>1
  <2> QED BY <1>a, <1>b, <2>1 DEF DepotType
<1>7. c = [Ctx EXCEPT !.block = b, !.depot = e]
  BY <1>0, <1>1, <1>2, <1>3, <1>4, CtxNow DEF ContextType, BlockType
<1>8. \/ armHome /\ mission_block_start_layer(c)
      \/ ~armHome /\ run_arm(c, 10, "BLOCK_PREPARE")
  BY DEF mission_block_begin
<1> HIDE DEF c
<1>9. /\ c \in ContextType /\ c.block = b /\ c.depot = e /\ c.vis = vis
      /\ c.manifest = manifest
  BY <1>0, <1>5, <1>6, <1>7, CtxNow DEF ContextType
<1>10. ~held /\ Fresh(manifest)
  BY <1>0 DEF DepotInv, HeldFits, BallsFit, BlockStages
<1>11. AtBlock(c)
  BY <1>0, <1>6, <1>9, <1>10, ArrivedCalm DEF AtBlock, Stations
<1>12. CASE armHome /\ mission_block_start_layer(c)
  BY <1>0, <1>10, <1>11, <1>12, StartLayerKeeps
<1>13. CASE ~armHome /\ run_arm(c, 10, "BLOCK_PREPARE")
  <2>1. /\ BlockFits("BLOCK_PREPARE", c.block, c.depot)
        /\ Grip("BLOCK_PREPARE", c.block)
    BY <1>5, <1>6, <1>9, <1>10 DEF BlockFits, Grip, Stations
  <2>2. Apt("BLOCK_PREPARE", c)
    BY <1>11, <2>1, BlockApt DEF BlockStates, AtBlock
  <2> QED
    BY <1>0, <1>11, <1>13, <2>2, ArmKeeps DEF AtBlock, GroupsOf, Groups, BlockArmStates
<1> QED BY <1>8, <1>12, <1>13

\* OnStation: the digit of the next column is looked for.
LEMMA StationKeeps ==
    ASSUME Arrived(depot.position), state = "DEPOT_WAIT_POSITION",
           mission_depot_start_digit([Ctx EXCEPT !.depot.first = 0])
    PROVE  DepotInv' /\ RestIsKept
<1> DEFINE c == [Ctx EXCEPT !.depot.first = 0]
<1>0. DepotInv /\ base = depot.position /\ Ctx \in ContextType
  BY CtxNow DEF Arrived
<1>1. PICK e : e = [depot EXCEPT !.first = 0]
  OBVIOUS
<1>2. depot \in DepotType
  BY <1>0 DEF DepotInv, ControlInv, TypeOK
<1>3. /\ e \in DepotType /\ e.first = 0 /\ e.position = depot.position
      /\ e.used = depot.used /\ e.preparing = depot.preparing
      /\ e.abnormal = depot.abnormal /\ e.column = depot.column
  BY <1>1, <1>2 DEF DepotType
<1>4. c = [Ctx EXCEPT !.depot = e]
  BY <1>0, <1>1, CtxNow DEF ContextType
<1> HIDE DEF c
<1>5. /\ c \in ContextType /\ c.depot = e /\ c.vis = vis /\ c.manifest = manifest
  BY <1>0, <1>3, <1>4, CtxNow DEF ContextType
<1>6. /\ StationsFit("DEPOT_WAIT_POSITION", depot) /\ Planned(manifest, depot)
      /\ PlacedFits("DEPOT_WAIT_POSITION", manifest, depot)
  BY <1>0 DEF DepotInv, BallsFit, PlacingStates, StationStates
<1>7. Apt("DEPOT_WAIT_DIGIT", c)
  <2>1. StationsFit("DEPOT_WAIT_DIGIT", e)
    BY <1>3, <1>6 DEF StationsFit, StationStates, Preparing, Fetching, LastStates, BallStates
  <2>2. Planned(manifest, e)
    BY <1>3, <1>6 DEF Planned
  <2>3. PlacedFits("DEPOT_WAIT_DIGIT", manifest, e)
    BY <1>3, <1>6 DEF PlacedFits, Finished, Fetching, BallStates
  <2>4. BallFits("DEPOT_WAIT_DIGIT", manifest, e)
    BY DEF BallFits, Fetching, BallStates
  <2>5. "DEPOT_WAIT_DIGIT" \in PlacingStates
    BY DEF PlacingStates, StationStates
  <2> QED BY <1>5, <2>1, <2>2, <2>3, <2>4, <2>5, BlocksAreDone DEF Apt, BallsFit
<1>8. Calm(c)
  BY <1>5, ArrivedCalm
<1>9. mission_depot_start_digit(c)
  BY DEF c
<1> QED BY <1>0, <1>3, <1>5, <1>7, <1>8, <1>9, StartDigitKeeps

\* OnEntryAgain: the base is sent home.
LEMMA EntryAgainKeeps ==
    ASSUME Arrived(1), state = "DEPOT_RETURN_ENTRY",
           go([Ctx EXCEPT !.depot.position = 1], "DEPOT_OK", "DEPOT_WAIT_HOME")
    PROVE  DepotInv' /\ RestIsKept
<1> DEFINE c == [Ctx EXCEPT !.depot.position = 1]
<1>0. DepotInv /\ Ctx \in ContextType
  BY CtxNow DEF Arrived
<1>1. PICK e : e = [depot EXCEPT !.position = 1]
  OBVIOUS
<1>2. depot \in DepotType
  BY <1>0 DEF DepotInv, ControlInv, TypeOK
<1>3. /\ e \in DepotType /\ e.used = depot.used /\ e.preparing = depot.preparing
      /\ e.abnormal = depot.abnormal
  BY <1>1, <1>2 DEF DepotType
<1>4. c = [Ctx EXCEPT !.depot = e]
  BY <1>0, <1>1, CtxNow DEF ContextType
<1> HIDE DEF c
<1>5. /\ c \in ContextType /\ c.depot = e /\ c.vis = vis /\ c.manifest = manifest
  BY <1>0, <1>3, <1>4, CtxNow DEF ContextType
<1>6. /\ StationsFit("DEPOT_RETURN_ENTRY", depot) /\ Planned(manifest, depot)
      /\ PlacedFits("DEPOT_RETURN_ENTRY", manifest, depot)
  BY <1>0 DEF DepotInv, BallsFit, PlacingStates, LastStates
<1>7. Apt("DEPOT_WAIT_HOME", c)
  <2>1. StationsFit("DEPOT_WAIT_HOME", e)
    BY <1>3, <1>6 DEF StationsFit, StationStates, Preparing, Fetching, LastStates, BallStates
  <2>2. Planned(manifest, e)
    BY <1>3, <1>6 DEF Planned
  <2>3. PlacedFits("DEPOT_WAIT_HOME", manifest, e)
    BY <1>3, <1>6 DEF PlacedFits, Finished, Fetching, BallStates
  <2>4. BallFits("DEPOT_WAIT_HOME", manifest, e)
    BY DEF BallFits, Fetching, BallStates
  <2>5. "DEPOT_WAIT_HOME" \in PlacingStates
    BY DEF PlacingStates, LastStates
  <2> QED BY <1>5, <2>1, <2>2, <2>3, <2>4, <2>5, BlocksAreDone DEF Apt, BallsFit
<1>8. Calm(c)
  BY <1>5, ArrivedCalm
<1>9. go(c, "DEPOT_OK", "DEPOT_WAIT_HOME")
  BY DEF c
<1>10. "DEPOT_OK" = Order("DEPOT_WAIT_HOME", Wanted("DEPOT_WAIT_HOME", c.block, c.depot))
  BY DEF Order
<1> QED BY <1>0, <1>7, <1>8, <1>9, <1>10, GoKeeps DEF AskStates

\* OnBlockStation: the base stands where the blocks want it.
LEMMA BlockStationKeeps ==
    ASSUME Arrived(block.point), state \in BlockMoveStates,
           mission_block_position_done([Ctx EXCEPT !.depot.position = block.point], state)
    PROVE  DepotInv' /\ RestIsKept
<1> DEFINE c == [Ctx EXCEPT !.depot.position = block.point]
<1>0. DepotInv /\ Ctx \in ContextType /\ base = block.point
  BY CtxNow DEF Arrived
<1>1. PICK e : e = [depot EXCEPT !.position = block.point]
  OBVIOUS
<1>2. /\ BlockFits(state, block, depot) /\ block.point \in Stations
      /\ depot \in DepotType /\ block \in BlockType
  BY <1>0 DEF DepotInv, ControlInv, TypeOK, BlockFits, BlockMoveStates
<1>3. e \in DepotType /\ e.position = block.point
  BY <1>1, <1>2 DEF DepotType, Stations
<1>4. c = [Ctx EXCEPT !.depot = e]
  BY <1>0, <1>1, CtxNow DEF ContextType
<1> HIDE DEF c
<1>5. /\ c \in ContextType /\ c.depot = e /\ c.block = block /\ c.vis = vis
      /\ c.manifest = manifest
  BY <1>0, <1>3, <1>4, CtxNow DEF ContextType
<1>6. Fresh(manifest)
  BY <1>0 DEF DepotInv, BallsFit, BlockStages, BlockStates, BlockMoveStates
<1>7. AtBlock(c)
  BY <1>0, <1>2, <1>3, <1>5, <1>6, ArrivedCalm DEF AtBlock
<1>8. Apt(state, c)
  <2>1. Grip(state, c.block)
    BY <1>0, <1>5 DEF DepotInv, HeldFits, Grip, BlockMoveStates
  <2>2. BlockFits(state, c.block, c.depot)
    BY <1>2, <1>3, <1>5 DEF BlockFits, BlockMoveStates
  <2>3. state \in BlockStates
    BY DEF BlockStates, BlockMoveStates
  <2> QED BY <1>7, <2>1, <2>2, <2>3, BlockApt DEF AtBlock
<1>9. mission_block_position_done(c, state)
  BY DEF c
<1> QED BY <1>0, <1>3, <1>5, <1>7, <1>8, <1>9, PositionDoneKeeps

\* OnHome: the run is complete.
LEMMA HomeKeeps ==
    ASSUME DepotInv, HandlerStep(vis), state = "DEPOT_WAIT_HOME", enter(Ctx, "COMPLETE"),
           cmdQ = <<>>, evtQ' = <<>>, ~driving, cpc = "end", pc' # "turning"
    PROVE  DepotInv' /\ RestIsKept
<1>0. /\ state' = "COMPLETE"
      /\ UNCHANGED <<vis, requestId, activeArm, fault, armHome, arm, cmdQ>>
      /\ UNCHANGED <<block, depot, manifest, side>>
  BY EnterFields
<1>1. /\ state \notin RestStates /\ arm = 0 /\ ~OkSignalled /\ vis.phase = "IDLE"
      /\ ~vis.stopReq
  BY AskStateIsQuiet DEF AskStates
<1>2. Handled(DepotStates, vis)
  BY EnteredTyped DEF DepotStates, RestStates
<1>3. ControlInv'
  BY <1>0, <1>2, ControlKept DEF DepotInv, ControlInv, TypeOK
<1>4. /\ UNCHANGED <<held, base, cpc, driving, misread, flags>>
      /\ OkSeen' => OkSeen
  BY DEF HandlerStep, worldVars, chassisVars
<1>5. /\ StationsFit("DEPOT_WAIT_HOME", depot) /\ Planned(manifest, depot)
      /\ PlacedFits("DEPOT_WAIT_HOME", manifest, depot)
  BY DEF DepotInv, BallsFit, PlacingStates, LastStates
<1>6. BallsFit("COMPLETE", depot, manifest)
  <2>1. StationsFit("COMPLETE", depot)
    BY <1>5 DEF StationsFit, StationStates, Preparing, Fetching, LastStates, BallStates
  <2>2. PlacedFits("COMPLETE", manifest, depot)
    BY <1>5 DEF PlacedFits, Finished, Fetching, BallStates
  <2>3. BallFits("COMPLETE", manifest, depot)
    BY DEF BallFits, Fetching, BallStates
  <2>4. "COMPLETE" \in PlacingStates
    BY DEF PlacingStates, LastStates
  <2> QED BY <1>5, <2>1, <2>2, <2>3, <2>4, BlocksAreDone DEF BallsFit
<1>7. BlockFits(state, block, depot)' /\ BallsFit(state, depot, manifest)'
  <2>1. BlockFits("COMPLETE", block, depot)
    BY <1>6 DEF BlockFits, BlockStates
  <2> QED BY <1>0, <1>4, <1>6, <2>1, DataKept
<1>8. BaseFits'
  BY <1>0, <1>4 DEF BaseFits, Standing, AskStates, BlockMoveStates, RestStates
<1>9. ArmFits'
  BY <1>0, <1>1, <1>4 DEF ArmFits, OkSignalled, BlockGroups
<1>10. HeldFits' /\ SessionFits' /\ StoppingFits' /\ DigitsFit'
  BY <1>0, <1>1 DEF HeldFits, SessionFits, StoppingFits, DigitsFit
<1>11. Table(manifest') /\ InSlotOrder(manifest') /\ state' \notin RestStates
  BY <1>0 DEF DepotInv, RestStates
<1> QED BY <1>1, <1>3, <1>7, <1>8, <1>9, <1>10, <1>11, Entered

\* The side is chosen before the run starts.
LEMMA SameSide ==
    ASSUME NEW c, NEW s
    PROVE  /\ enter(c, s) => side' = side
           /\ \A f : fail(c, f) => side' = side
           /\ \A g : run_arm(c, g, s) => side' = side
           /\ \A x : look(c, x, s) => side' = side
           /\ \A t : go(c, t, s) => side' = side
BY Zenon DEF enter, fail, run_arm, look, go, written

\* No handler of the blocks changes the side.
LEMMA SameSideBlocks ==
    ASSUME NEW c
    PROVE  /\ mission_block_start_layer(c) => side' = side
           /\ \A s : mission_block_position_done(c, s) => side' = side
<1>1. ASSUME NEW d, mission_block_start_layer(d) PROVE side' = side
  BY <1>1, SameSide DEF mission_block_start_layer
<1>2. ASSUME NEW d, mission_block_next_layer(d) PROVE side' = side
  <2>1. CASE d.block.stage < 2
    BY <1>1, <1>2, <2>1 DEF mission_block_next_layer
  <2>2. CASE ~(d.block.stage < 2)
    BY <1>2, <2>2, SameSide DEF mission_block_next_layer
  <2> QED BY <2>1, <2>2
<1>3. ASSUME NEW d, NEW s, seek(d, s) PROVE side' = side
  BY <1>3, SameSide DEF seek
<1>4. ASSUME NEW d, mission_depot_prepare(d) PROVE side' = side
  BY <1>3, <1>4, SameSide, Zenon DEF mission_depot_prepare
<1>5. ASSUME NEW s, mission_block_position_done(c, s) PROVE side' = side
  BY <1>2, <1>4, <1>5, SameSide, Zenon DEF mission_block_position_done
<1> QED BY <1>1, <1>5

\* An answer of the chassis, awaited or not.
LEMMA HandleChassisKeeps ==
    ASSUME DepotInv, HandleChassis
    PROVE  DepotInv' /\ RestIsKept
<1> DEFINE e == Head(evtQ)
<1>1. /\ pc = "events" /\ evtQ # <<>> /\ evtQ' = Tail(evtQ)
      /\ mission_handle_chassis(e)
      /\ UNCHANGED <<flags, userQ, stops, got, pc, worldVars, chassisVars>>
  BY DEF HandleChassis, loopVars
<1>2. /\ evtQ \in Seq([type : EventTypes, id : Nat, ok : BOOLEAN])
      /\ LoopTyped
  BY Typed DEF DepotInv, ControlInv
<1>3. e = evtQ[1] /\ evtQ' \in Seq([type : EventTypes, id : Nat, ok : BOOLEAN])
  BY <1>1, <1>2
<1> HIDE DEF e
<1>4. side' = side
  BY <1>1, SameSide, SameSideBlocks, Zenon
  DEF mission_handle_chassis, OnStale, OnFailure, OnStopped, OnDepotReached, OnStation,
      OnEntryAgain, OnHome, OnBlockStation, OnUnexpected, mission_depot_start_digit,
      mission_block_begin
<1>5. HandlerStep(vis) /\ pc' # "turning"
  BY <1>1, <1>2, <1>3, <1>4 DEF HandlerStep, LoopTyped, OkSeen
<1>6. CASE state \in RestStates
  <2>1. CASE fail(Ctx, "CHASSIS")
    BY <1>5, <2>1, CtxNow, FailKeeps DEF Faults
  <2>2. CASE enter(Ctx, state) \/ enter(Ctx, "STOPPED")
    BY <1>5, <1>6, <2>2, RestEnterKeeps DEF RestStates
  <2> QED
    BY <1>1, <1>6, <2>1, <2>2
    DEF mission_handle_chassis, OnStale, OnFailure, OnStopped, OnDepotReached, OnStation,
        OnEntryAgain, OnHome, OnBlockStation, OnUnexpected, RestStates, BlockMoveStates
<1>7. CASE state \notin RestStates
  <2> DEFINE n == Wanted(state, block, depot)
  <2>1. state \in AskStates /\ Waiting(state, n)
    BY <1>1, <1>7 DEF DepotInv, BaseFits, Standing
  <2>2. CASE e.id = requestId /\ ~e.ok
    BY <1>1, <1>5, <2>2, CtxNow, FailKeeps
    DEF mission_handle_chassis, OnStale, OnFailure, Faults
  <2>3. CASE /\ cmdQ = <<>> /\ evtQ = <<Event(Answer(state, n), requestId, TRUE)>>
             /\ ~driving
             /\ IF state = "DEPOT_WAIT_HOME" THEN cpc = "end"
                                             ELSE cpc = "depot" /\ base = n
    <3>1. /\ e = Event(Answer(state, n), requestId, TRUE) /\ evtQ' = <<>>
      BY <1>1, <1>3, <2>3
    <3>2. e.id = requestId /\ e.ok /\ e.type = Answer(state, n)
      BY <3>1 DEF Event
    <3>3. Expected(e)
      BY <2>1, <3>2 DEF Expected, Answer, Wanted, AskStates, BlockMoveStates, DepotReady
    <3>4. \/ OnDepotReached(e) \/ OnStation(e) \/ OnEntryAgain(e)
          \/ OnHome(e) \/ OnBlockStation(e)
      BY <1>1, <1>7, <3>2, <3>3
      DEF mission_handle_chassis, OnStale, OnFailure, OnStopped, OnUnexpected, RestStates
    <3>5. state # "DEPOT_WAIT_HOME" => Arrived(n)
      BY <1>5, <2>1, <2>3, <3>1 DEF Arrived
    <3>6. CASE OnDepotReached(e)
      <4>1. state = "WAIT_DEPOT_1" /\ n = 1
        BY <3>6 DEF OnDepotReached, Wanted, BlockMoveStates
      <4> QED BY <3>5, <3>6, <4>1, DepotReachedKeeps DEF OnDepotReached
    <3>7. CASE OnStation(e)
      <4>1. state = "DEPOT_WAIT_POSITION" /\ n = depot.position
        BY <3>7 DEF OnStation, Wanted, BlockMoveStates
      <4> QED BY <3>5, <3>7, <4>1, StationKeeps DEF OnStation
    <3>8. CASE OnEntryAgain(e)
      <4>1. state = "DEPOT_RETURN_ENTRY" /\ n = 1
        BY <3>8 DEF OnEntryAgain, Wanted, BlockMoveStates
      <4> QED BY <3>5, <3>8, <4>1, EntryAgainKeeps DEF OnEntryAgain
    <3>9. CASE OnHome(e)
      BY <1>5, <2>3, <3>1, <3>9, HomeKeeps DEF OnHome
    <3>10. CASE OnBlockStation(e)
      <4>1. /\ state \in BlockMoveStates /\ n = block.point
            /\ state # "DEPOT_WAIT_HOME"
        BY <3>10 DEF OnBlockStation, Wanted, BlockMoveStates
      <4> QED BY <3>5, <3>10, <4>1, BlockStationKeeps DEF OnBlockStation
    <3> QED BY <3>4, <3>6, <3>7, <3>8, <3>9, <3>10
  <2>4. /\ evtQ # <<>>
        /\ e = evtQ[1]
    BY <1>1, <1>3
  <2> QED BY <2>1, <2>2, <2>3, <2>4 DEF Waiting
<1> QED BY <1>6, <1>7

-----------------------------------------------------------------------------
(* mission_handle_arm                                                      *)

\* A handler that finds nothing to do.
LEMMA NothingToDo ==
    ASSUME DepotInv, HandlerStep(vis), evtQ' = evtQ, enter(Ctx, state)
    PROVE  DepotInv' /\ RestIsKept
<1>1. /\ UNCHANGED <<state, vis, requestId, activeArm, fault, armHome, arm, cmdQ>>
      /\ UNCHANGED <<block, depot, manifest, side>>
  BY EnterFields
<1>2. Handled(DepotStates, vis)
  BY EnteredTyped DEF DepotInv, ControlInv, TypeOK
<1>3. UNCHANGED <<seen, misread, base>>
  BY DEF HandlerStep, worldVars, chassisVars
<1>4. SessionFits' /\ StoppingFits' /\ DigitsFit'
  BY <1>1, <1>3
  DEF DepotInv, SessionFits, StoppingFits, DigitsFit, Shown, EventPending, Sign
<1> QED BY <1>1, <1>2, <1>4, NoResults, HandlerKeeps

\* A group that failed.
LEMMA ArmFailKeeps ==
    ASSUME DepotInv, ArmFail
    PROVE  DepotInv' /\ RestIsKept
<1>1. /\ pc = "arm" /\ pc' = "vision"
      /\ UNCHANGED <<evtQ, flags, userQ, stops, got, worldVars, chassisVars>>
      /\ fail(Ctx, "ARM") \/ enter(Ctx, state)
  BY DEF ArmFail, goto
<1>2. LoopTyped /\ evtQ \in Seq([type : EventTypes, id : Nat, ok : BOOLEAN])
  BY Typed DEF DepotInv, ControlInv
<1>3. side' = side
  BY <1>1, SameSide
<1>4. HandlerStep(vis)
  BY <1>1, <1>2, <1>3 DEF HandlerStep, LoopTyped, LoopStages, OkSeen
<1>5. CASE fail(Ctx, "ARM")
  BY <1>4, <1>5, CtxNow, FailKeeps DEF Faults
<1>6. CASE enter(Ctx, state)
  BY <1>1, <1>4, <1>6, NothingToDo
<1> QED BY <1>1, <1>5, <1>6

\* The blocks' states that wait for the arm.
LEMMA BlockArmDoneKeeps ==
    ASSUME DepotInv, HandlerStep(vis), state \in BlockArmStates, OkSignalled,
           ~OkSignalled', evtQ' = evtQ, pc' # "turning", mission_block_arm_done
    PROVE  DepotInv' /\ RestIsKept
<1> DEFINE c == [Ctx EXCEPT !.active = 0]
<1>1. \/ state = "BLOCK_PREPARE" /\ mission_block_start_layer(c)
      \/ state = "BLOCK_WAIT_POSE" /\ mission_block_scan_point(c)
      \/ /\ state = "BLOCK_WAIT_GRASP"
         /\ mission_block_move(c, mission_block_place_point, "BLOCK_WAIT_D4")
      \/ state = "BLOCK_WAIT_PLACE" /\ mission_block_next_layer(c)
      \/ /\ state = "BLOCK_FINISH"
         /\ mission_block_move(c, EntryPoint, "BLOCK_RETURN_DEPOT")
  BY DEF mission_block_arm_done
<1>2. /\ c \in ContextType /\ c.vis = vis /\ c.block = block /\ c.depot = depot
      /\ c.manifest = manifest
  BY CtxNow DEF ContextType
<1> HIDE DEF c
<1>3. /\ state \notin RestStates \cup AskStates \cup {"COMPLETE", "DEPOT_DIGIT_STOP"}
      /\ state \notin {"BLOCK_WAIT_DIGIT", "DEPOT_WAIT_DIGIT"}
      /\ state \in BlockStates /\ state \in BlockStages
  BY DEF RestStates, AskStates, BlockMoveStates, BlockArmStates, BlockStates, BlockStages
<1>4. /\ cmdQ = <<>> /\ evtQ = <<>> /\ ~driving /\ cpc = "depot" /\ base = depot.position
  BY <1>3 DEF DepotInv, BaseFits, Standing
<1>5. arm = 0
  BY DEF DepotInv, ArmFits
<1>6. vis.phase = "IDLE" /\ ~vis.stopReq
  BY <1>3 DEF DepotInv, SessionFits
<1>7. Context(c)
  BY <1>2 DEF Context, DepotInv, ControlInv
<1>8. Calm(c)
  BY <1>2, <1>3, <1>4, <1>5, <1>6, <1>7 DEF Calm
<1>9. depot.position \in Stations /\ Fresh(manifest)
  BY <1>3 DEF DepotInv, BlockFits, BallsFit
<1>10. AtBlock(c)
  BY <1>2, <1>4, <1>8, <1>9 DEF AtBlock
<1>11. HeldFits /\ BlockFits(state, block, depot)
  BY DEF DepotInv
<1>12. CASE state = "BLOCK_PREPARE" /\ mission_block_start_layer(c)
  <2>1. ~held
    BY <1>11, <1>12 DEF HeldFits
  <2> QED BY <1>10, <1>12, <2>1, StartLayerKeeps
<1>13. CASE state = "BLOCK_WAIT_POSE" /\ mission_block_scan_point(c)
  <2>1. ~held /\ block.digit = 0 /\ block.step < 3
    BY <1>11, <1>13 DEF HeldFits, BlockFits
  <2> QED BY <1>2, <1>10, <1>13, <2>1, ScanPointKeeps
<1>14. CASE /\ state = "BLOCK_WAIT_GRASP"
            /\ mission_block_move(c, mission_block_place_point, "BLOCK_WAIT_D4")
  <2>1. held = TRUE /\ block.digit # 0
    <3>1. held \in BOOLEAN
      BY DEF DepotInv, ControlInv, TypeOK
    <3> QED BY <1>11, <1>14, <3>1 DEF HeldFits
  <2>2. held = (c.block.digit # 0)
    BY <1>2, <2>1
  <2> QED BY <1>10, <1>14, <2>2, PlacePoint, MoveKeeps DEF BlockMoveStates
<1>15. CASE state = "BLOCK_WAIT_PLACE" /\ mission_block_next_layer(c)
  <2>1. ~held
    BY <1>11, <1>15 DEF HeldFits
  <2> QED BY <1>10, <1>15, <2>1, NextLayerKeeps
<1>16. CASE /\ state = "BLOCK_FINISH"
            /\ mission_block_move(c, EntryPoint, "BLOCK_RETURN_DEPOT")
  <2>1. ~held
    BY <1>11, <1>16 DEF HeldFits
  <2> QED BY <1>10, <1>16, <2>1, PlacePoint, MoveKeeps DEF BlockMoveStates
<1> QED BY <1>1, <1>12, <1>13, <1>14, <1>15, <1>16

\* No handler of the balls changes the side.
LEMMA SameSideBalls ==
    ASSUME NEW c
    PROVE  /\ mission_depot_arm_done(c) => side' = side
           /\ mission_depot_digit_done(c) => side' = side
           /\ slot_reached(c) => side' = side
<1>1. ASSUME NEW d, NEW s, seek(d, s) PROVE side' = side
  BY <1>1, SameSide DEF seek
<1>2. ASSUME NEW d, mission_depot_start_digit(d) PROVE side' = side
  BY <1>2, SameSide DEF mission_depot_start_digit
<1>3. ASSUME NEW d, next_station(d) PROVE side' = side
  BY <1>3, SameSide DEF next_station
<1>4. ASSUME NEW d, mission_depot_next_ball(d) PROVE side' = side
  BY <1>1, <1>3, <1>4, Zenon DEF mission_depot_next_ball
<1>5. ASSUME NEW d, safe_done(d) PROVE side' = side
  BY <1>2, <1>5, SameSide, Zenon DEF safe_done
<1>6. mission_depot_arm_done(c) => side' = side
  BY <1>4, <1>5, SameSide, Zenon DEF mission_depot_arm_done, ball_done
<1>7. mission_depot_digit_done(c) => side' = side
  BY <1>2, <1>4, SameSide, Zenon DEF mission_depot_digit_done
<1>8. slot_reached(c) => side' = side
  BY <1>5, SameSide DEF slot_reached
<1> QED BY <1>6, <1>7, <1>8

\* Nor one that moves on with the blocks.
LEMMA SameSideMoves ==
    ASSUME NEW c
    PROVE  /\ \A n, s : mission_block_move(c, n, s) => side' = side
           /\ mission_block_next_layer(c) => side' = side
           /\ mission_block_digit_done(c) => side' = side
           /\ mission_block_scan_point(c) => side' = side
<1>1. ASSUME NEW d, NEW n, NEW s, mission_block_move(d, n, s) PROVE side' = side
  <2>1. CASE d.depot.position = n
    BY <1>1, <2>1, SameSideBlocks DEF mission_block_move
  <2>2. CASE d.depot.position # n
    BY <1>1, <2>2, SameSide DEF mission_block_move
  <2> QED BY <2>1, <2>2
<1>2. ASSUME NEW d, mission_block_scan_point(d) PROVE side' = side
  BY <1>1, <1>2 DEF mission_block_scan_point
<1>3. mission_block_next_layer(c) => side' = side
  BY SameSideBlocks, SameSide DEF mission_block_next_layer
<1>4. mission_block_digit_done(c) => side' = side
  BY <1>1, <1>2, SameSide, Zenon DEF mission_block_digit_done
<1> QED BY <1>1, <1>2, <1>3, <1>4

\* A group that ended well, awaited or not.
LEMMA ArmOkKeeps ==
    ASSUME DepotInv, ArmOk
    PROVE  DepotInv' /\ RestIsKept
<1>1. /\ pc = "arm" /\ "ARM_OK" \in got /\ pc' = "vision"
      /\ UNCHANGED <<evtQ, flags, userQ, stops, got, worldVars, chassisVars>>
      /\ \/ state \in BlockArmStates /\ mission_block_arm_done
         \/ state \in DepotArmStates /\ mission_depot_arm_done(Ctx)
         \/ enter(Ctx, state)
  BY DEF ArmOk, goto
<1>2. LoopTyped /\ evtQ \in Seq([type : EventTypes, id : Nat, ok : BOOLEAN])
  BY Typed DEF DepotInv, ControlInv
<1>3. side' = side
  <2>1. mission_block_arm_done => side' = side
    BY SameSideBlocks, SameSideMoves, Zenon DEF mission_block_arm_done
  <2> QED BY <1>1, <2>1, SameSide, SameSideBalls
<1>4. HandlerStep(vis)
  BY <1>1, <1>2, <1>3 DEF HandlerStep, LoopTyped, LoopStages, OkSeen
<1>5. OkSignalled /\ ~OkSignalled' /\ arm = 0
  BY <1>1 DEF OkSignalled, OkSeen, DepotInv, ArmFits
<1>6. CASE state \in BlockArmStates /\ mission_block_arm_done
  BY <1>1, <1>4, <1>5, <1>6, BlockArmDoneKeeps
<1>7. CASE state \in DepotArmStates /\ mission_depot_arm_done(Ctx)
  <2>1. /\ state \notin RestStates \cup AskStates \cup {"COMPLETE", "DEPOT_DIGIT_STOP"}
        /\ state \notin {"BLOCK_WAIT_DIGIT", "DEPOT_WAIT_DIGIT"}
        /\ state \in PlacingStates
    BY <1>7 DEF RestStates, AskStates, BlockMoveStates, DepotArmStates, PlacingStates,
                BallStates
  <2>2. /\ cmdQ = <<>> /\ evtQ = <<>> /\ ~driving /\ cpc = "depot"
        /\ base = depot.position
    BY <2>1 DEF DepotInv, BaseFits, Standing
  <2>3. vis.phase = "IDLE" /\ ~vis.stopReq
    BY <2>1 DEF DepotInv, SessionFits
  <2>4. Calm(Ctx)
    BY <1>1, <1>4, <1>5, <2>1, <2>2, <2>3, CtxNow DEF Calm
  <2>5. Apt(state, Ctx)
    BY <2>1, CtxNow, BlocksAreDone DEF Apt, DepotInv
  <2> QED BY <1>7, <2>2, <2>4, <2>5, CtxNow, BallArmDoneKeeps
<1>8. CASE enter(Ctx, state)
  BY <1>1, <1>4, <1>8, NothingToDo
<1> QED BY <1>1, <1>6, <1>7, <1>8

-----------------------------------------------------------------------------
(* mission_handle_vision and mission_vision_process                        *)

\* The digits of a session are those of the record it is kept in.
LEMMA DigitsKept ==
    ASSUME DigitsFit, UNCHANGED <<state, misread, side, base>>,
           depot'.first = depot.first, Shown' \in {0, Shown}
    PROVE  DigitsFit'
BY DEF DigitsFit, Sign

\* The handler leaves the record x behind and goes on where it was.
LEMMA StayKeeps ==
    ASSUME DepotInv, NEW v, HandlerStep(v), evtQ' = evtQ,
           NEW x, SafeRecord(x), StopNoted(x), Answered(v) => Answered(x),
           state' = state, vis' = x,
           UNCHANGED <<fault, requestId, activeArm, armHome, arm, cmdQ, manifest>>,
           OnlyResults, block' \in BlockType, depot' \in DepotType,
           state \notin RestStates \cup {"DEPOT_DIGIT_STOP"} =>
               /\ ~x.stopReq
               /\ \/ x.phase = "IDLE"
                  \/ /\ x.scene = vis.scene /\ vis.phase # "IDLE"
                     /\ x.phase \in {"STARTING", "LISTENING", "ACKING"},
           state = "DEPOT_DIGIT_STOP" => x.phase # "STARTING",
           state \notin RestStates => Shown' \in {0, Shown}
    PROVE  DepotInv' /\ RestIsKept
<1>1. /\ CtxTyped(DepotStates) /\ StopNoted(vis) /\ QueueTyped
  BY Typed DEF DepotInv, ControlInv
<1>2. Handled(DepotStates, v)
  BY <1>1 DEF Handled, CtxTyped, QueueTyped, StopNoted
<1>3. UNCHANGED <<misread, base, side>>
  BY DEF HandlerStep, worldVars, chassisVars
<1>4. ASSUME state \notin RestStates PROVE SessionFits' /\ StoppingFits' /\ DigitsFit'
  <2>1. SessionFits'
    BY <1>4 DEF DepotInv, SessionFits
  <2>2. StoppingFits'
    BY <1>4 DEF StoppingFits
  <2>3. DigitsFit'
    BY <1>3, <1>4, OtherFields, DigitsKept DEF DepotInv
  <2> QED BY <2>1, <2>2, <2>3
<1> QED BY <1>2, <1>4, HandlerKeeps

\* What enter leaves when only the record was changed.
LEMMA EnterRecord ==
    ASSUME DepotInv, NEW x \in VisionType, NEW s, enter([Ctx EXCEPT !.vis = x], s)
    PROVE  /\ state' = s /\ vis' = x
           /\ UNCHANGED <<requestId, activeArm, fault, armHome, arm, cmdQ>>
           /\ UNCHANGED <<block, depot, manifest, side>>
           /\ OnlyResults /\ block' \in BlockType /\ depot' \in DepotType
<1> DEFINE c == [Ctx EXCEPT !.vis = x]
<1>1. /\ c.vis = x /\ c.id = requestId /\ c.active = activeArm /\ c.block = block
      /\ c.depot = depot /\ c.manifest = manifest
  BY CtxNow DEF ContextType
<1>2. enter(c, s)
  OBVIOUS
<1> HIDE DEF c
<1>3. /\ state' = s /\ vis' = x
      /\ UNCHANGED <<requestId, activeArm, fault, armHome, arm, cmdQ>>
      /\ UNCHANGED <<block, depot, manifest, side>>
  BY <1>1, <1>2 DEF enter, written
<1> QED BY <1>3, NoResults

\* A failure over a record.
LEMMA FailRecord ==
    ASSUME DepotInv, NEW x, SafeRecord(x), StopNoted(x), HandlerStep(x), NEW f \in Faults,
           fail([Ctx EXCEPT !.vis = x], f)
    PROVE  DepotInv' /\ RestIsKept
<1> DEFINE c == [Ctx EXCEPT !.vis = x]
<1>1. /\ c \in ContextType /\ c.vis = x /\ c.depot = depot /\ c.manifest = manifest
  BY CtxNow DEF ContextType, SafeRecord
<1>2. fail(c, f)
  OBVIOUS
<1> HIDE DEF c
<1>3. Context(c)
  BY <1>1 DEF Context, DepotInv
<1> QED BY <1>1, <1>2, <1>3, FailKeeps

\* The same failure, as the operators of MissionCore write it.
LEMMA FailWith ==
    ASSUME DepotInv, NEW x, SafeRecord(x), StopNoted(x), HandlerStep(x), NEW f \in Faults,
           mission_fail(With(x), f), written(Ctx)
    PROVE  DepotInv' /\ RestIsKept
<1> DEFINE c == [Ctx EXCEPT !.vis = x]
<1>1. /\ c.vis = x /\ c.id = requestId /\ c.active = activeArm
      /\ c.depot = depot /\ c.manifest = manifest /\ c.block = block
  BY CtxNow DEF ContextType
<1>2. With(x).vis = x /\ With(x).id = requestId /\ With(x).active = activeArm
  BY DEF With, Now
<1> HIDE DEF c
<1>3. mission_fail(c, f)
  BY <1>1, <1>2 DEF mission_fail, halt_block_arm
<1>4. written(c)
  BY <1>1, CtxNow DEF written
<1>5. fail(c, f)
  BY <1>3, <1>4 DEF fail
<1> QED BY <1>5, FailRecord DEF c

\* A stop that had to wait is sent when the run rests or its session is closed.
LEMMA DeferredStopKeeps ==
    ASSUME DepotInv, DeferredStop, written(Ctx), Answered(vis), evtQ' = evtQ,
           \A v : HandlerStep(v)
    PROVE  DepotInv' /\ RestIsKept
<1> DEFINE v == [Taken EXCEPT !.stopReq = FALSE]
<1>0. /\ vis.stopReq /\ vis.phase # "STOPPING"
      /\ stop_vision(v, state)
  BY DEF DeferredStop, StopWasWaiting
<1>1. /\ SafeRecord(vis) /\ StopNoted(vis) /\ CtxTyped(DepotStates)
  BY Typed DEF DepotInv, ControlInv
<1>2. SafeRecord(v) /\ ~Busy(v) /\ ~Answered(v)
  BY <1>1, TakenSafe DEF SafeRecord, VisionType, Busy, Answered
<1>3. UNCHANGED <<block, depot, manifest, side>>
  BY CtxNow DEF written
<1> HIDE DEF v
<1>4. PICK r \in mission_stop_vision(v) :
          IF r.ok THEN enter_state(r.vis, state) ELSE mission_fail(With(r.vis), "VISION")
  BY <1>0 DEF stop_vision
<1>5. SafeRecord(r.vis) /\ r.vis.phase \in {"IDLE", "STOPPING"}
  BY <1>2, StopSafe, StopCloses
<1>6. StopNoted(r.vis)
  BY <1>5 DEF StopNoted
<1>7. CASE ~r.ok
  BY <1>4, <1>5, <1>6, <1>7, FailWith DEF Faults
<1>8. CASE r.ok
  <2>1. enter_state(r.vis, state)
    BY <1>4, <1>8
  <2>2. /\ state' = state /\ vis' = r.vis
        /\ UNCHANGED <<fault, requestId, activeArm, armHome, arm, cmdQ>>
    BY <2>1 DEF enter_state
  <2>3. state \in RestStates \cup {"DEPOT_DIGIT_STOP"}
    BY <1>0 DEF DepotInv, SessionFits
  <2>4. Shown' = 0
    BY <1>5, <2>2 DEF Shown
  <2> QED BY <1>2, <1>3, <1>5, <1>6, <2>2, <2>3, <2>4, NoResults, StayKeeps
<1> QED BY <1>7, <1>8

\* The record with its reply taken out shows no digit any more.
LEMMA TakenKeeps ==
    ASSUME DepotInv, Answered(vis), evtQ' = evtQ, HandlerStep(Taken),
           enter([Ctx EXCEPT !.vis = Taken], state)
    PROVE  DepotInv' /\ RestIsKept
<1>1. /\ SafeRecord(vis) /\ StopNoted(vis)
  BY DEF DepotInv, ControlInv
<1>2. /\ SafeRecord(Taken) /\ StopNoted(Taken) /\ ~Busy(Taken) /\ Taken \in VisionType
      /\ Taken.phase = vis.phase /\ Taken.scene = vis.scene
      /\ Taken.stopReq = vis.stopReq
  BY <1>1, TakenSafe DEF SafeRecord
<1>3. ~Answered(Taken) /\ ~Taken.pending
  BY <1>2 DEF Busy, Answered, SafeRecord, VisionType
<1>4. /\ state' = state /\ vis' = Taken
      /\ UNCHANGED <<requestId, activeArm, fault, armHome, arm, cmdQ>>
      /\ UNCHANGED <<block, depot, manifest, side>>
      /\ OnlyResults /\ block' \in BlockType /\ depot' \in DepotType
  BY <1>2, EnterRecord
<1>5. Shown' \in {0, Shown}
  BY <1>2, <1>3, <1>4 DEF Shown, EventPending
<1>6. SessionFits /\ StoppingFits
  BY DEF DepotInv
<1>7. ASSUME state \notin RestStates \cup {"DEPOT_DIGIT_STOP"}
      PROVE  /\ ~vis.stopReq
             /\ vis.phase = "IDLE" \/ vis.phase \in {"STARTING", "LISTENING", "ACKING"}
  BY <1>6, <1>7 DEF SessionFits
<1>8. state = "DEPOT_DIGIT_STOP" => Taken.phase # "STARTING"
  BY <1>2, <1>6 DEF StoppingFits
<1>9. state \notin RestStates \cup {"DEPOT_DIGIT_STOP"} =>
          /\ ~Taken.stopReq
          /\ \/ Taken.phase = "IDLE"
             \/ /\ Taken.scene = vis.scene /\ vis.phase # "IDLE"
                /\ Taken.phase \in {"STARTING", "LISTENING", "ACKING"}
  BY <1>2, <1>7
<1>10. Answered(Taken) => Answered(Taken)
  OBVIOUS
<1>11. UNCHANGED <<fault, requestId, activeArm, armHome, arm, cmdQ, manifest>>
  BY <1>4
<1> QED BY <1>2, <1>4, <1>5, <1>8, <1>9, <1>10, <1>11, StayKeeps

\* The session is open: READY is only ever answered in the state that asked.
LEMMA ReadyKeeps ==
    ASSUME DepotInv, Answered(vis), evtQ' = evtQ, \A v : HandlerStep(v), SessionReady
    PROVE  DepotInv' /\ RestIsKept
<1> DEFINE w == [Taken EXCEPT !.phase = "LISTENING"]
<1>0. /\ ~StopWasWaiting /\ vis.phase = "STARTING"
      /\ \/ enter([Ctx EXCEPT !.vis = w], state)
            /\ state \in {"DEPOT_WAIT_DIGIT", "BLOCK_WAIT_DIGIT"}
         \/ state # "DEPOT_WAIT_DIGIT" /\ vis.scene = "DEPOT_DIGIT"
         \/ enter([Ctx EXCEPT !.vis = Taken], state)
  BY DEF SessionReady, Replied
<1>1. /\ SafeRecord(vis) /\ StopNoted(vis)
  BY DEF DepotInv, ControlInv
<1>2. /\ SafeRecord(Taken) /\ StopNoted(Taken) /\ ~Busy(Taken) /\ Taken \in VisionType
      /\ Taken.phase = vis.phase /\ Taken.scene = vis.scene
      /\ Taken.stopReq = vis.stopReq
  BY <1>1, TakenSafe DEF SafeRecord
<1>3. state \notin RestStates \cup {"DEPOT_DIGIT_STOP"}
  BY <1>0, <1>1 DEF StopWasWaiting, StopNoted, DepotInv, StoppingFits
<1>4. /\ ~vis.stopReq
      /\ \/ state = "BLOCK_WAIT_DIGIT" /\ vis.scene = "BLOCK_DIGIT"
         \/ state = "DEPOT_WAIT_DIGIT" /\ vis.scene = "DEPOT_DIGIT"
  BY <1>0, <1>3 DEF DepotInv, SessionFits
<1>5. CASE enter([Ctx EXCEPT !.vis = w], state)
  <2>1. /\ SafeRecord(w) /\ w \in VisionType /\ ~w.pending /\ w.phase = "LISTENING"
        /\ w.scene = vis.scene /\ w.stopReq = vis.stopReq /\ ~Answered(w)
    BY <1>0, <1>2 DEF SafeRecord, VisionType, Phases, Busy, Answered
  <2> HIDE DEF w
  <2>2. StopNoted(w)
    BY <2>1 DEF StopNoted
  <2>3. /\ state' = state /\ vis' = w
        /\ UNCHANGED <<requestId, activeArm, fault, armHome, arm, cmdQ>>
        /\ UNCHANGED <<block, depot, manifest, side>>
        /\ OnlyResults /\ block' \in BlockType /\ depot' \in DepotType
    BY <1>5, <2>1, EnterRecord
  <2>4. Shown' = 0
    BY <2>1, <2>3 DEF Shown, EventPending
  <2>5. HandlerStep(w)
    OBVIOUS
  <2> QED BY <1>0, <1>3, <1>4, <2>1, <2>2, <2>3, <2>4, <2>5, StayKeeps
<1>6. CASE enter([Ctx EXCEPT !.vis = Taken], state)
  BY <1>6, TakenKeeps
<1> QED BY <1>0, <1>4, <1>5, <1>6

\* The record a confirmation leaves.
LEMMA AckRecord ==
    ASSUME DepotInv, Answered(vis), vis.phase \in {"STARTING", "LISTENING"},
           NEW ok \in submit_results(Taken)
    PROVE  /\ SafeRecord(acking(ok)) /\ acking(ok).phase = "ACKING"
           /\ acking(ok).scene = vis.scene /\ acking(ok).stopReq = vis.stopReq
           /\ StopNoted(acking(ok))
<1>1. /\ SafeRecord(vis) /\ StopNoted(vis)
  BY DEF DepotInv, ControlInv
<1>2. /\ SafeRecord(Taken) /\ ~Busy(Taken) /\ Taken \in VisionType
      /\ Taken.phase = vis.phase /\ Taken.scene = vis.scene
      /\ Taken.stopReq = vis.stopReq
  BY <1>1, TakenSafe DEF SafeRecord
<1> DEFINE w == [Taken EXCEPT !.phase = "ACKING"]
<1>3. /\ w \in VisionType /\ ~Busy(w) /\ w.phase = "ACKING" /\ w.scene = vis.scene
      /\ w.scene # "NONE" /\ w.stopReq = vis.stopReq
  BY <1>1, <1>2 DEF VisionType, Phases, Busy, SafeRecord
<1>4. ok \in submit_results(w)
  BY <1>2, <1>3 DEF submit_results
<1>5. acking(ok) = mission_submit_vision_transfer(w, "ACK", ok)
  BY DEF acking
<1> HIDE DEF w
<1>6. /\ SafeRecord(acking(ok)) /\ acking(ok).phase = "ACKING"
      /\ acking(ok).scene = vis.scene /\ acking(ok).stopReq = vis.stopReq
  BY <1>3, <1>4, <1>5, SubmitSafe
<1> QED BY <1>6 DEF StopNoted

\* A digit is confirmed, and kept for when that has been sent.
LEMMA DigitSeenKeeps ==
    ASSUME DepotInv, Answered(vis), evtQ' = evtQ, \A v : HandlerStep(v),
           ~StopWasWaiting, DigitSeen
    PROVE  DepotInv' /\ RestIsKept
<1>0. /\ block \in BlockType /\ depot \in DepotType /\ seen \in 0..ScanFault
      /\ SessionFits
  BY DEF DepotInv, ControlInv, TypeOK
<1>a. Ctx \in ContextType /\ Ctx.block = block /\ Ctx.depot = depot
      /\ Ctx.vis = vis /\ Ctx.manifest = manifest
  BY CtxNow
<1>1. CASE vis.scene = "DEPOT_DIGIT"
  <2>1. /\ Replied("LISTENING") /\ state = "DEPOT_WAIT_DIGIT" /\ vis.mail = "EVENT"
        /\ confirm(Ctx, [Ctx EXCEPT !.depot.digit = seen])
    BY <1>1 DEF DigitSeen, ResultCounts
  <2>2. vis.phase = "LISTENING"
    BY <2>1 DEF Replied
  <2>3. PICK ok \in submit_results(Taken) :
          \/ /\ ok
             /\ enter([[Ctx EXCEPT !.depot.digit = seen] EXCEPT !.vis = acking(ok)], state)
          \/ ~ok /\ fail([Ctx EXCEPT !.vis = acking(ok)], "VISION")
    BY <2>1, Zenon DEF confirm
  <2> DEFINE x == acking(ok)
  <2>4. /\ SafeRecord(x) /\ x.phase = "ACKING" /\ x.scene = vis.scene
        /\ x.stopReq = vis.stopReq /\ StopNoted(x)
    BY <2>2, AckRecord
  <2> HIDE DEF x
  <2>5. CASE fail([Ctx EXCEPT !.vis = x], "VISION")
    BY <2>4, <2>5, FailRecord DEF Faults
  <2>6. CASE enter([[Ctx EXCEPT !.depot.digit = seen] EXCEPT !.vis = x], state)
    <3> DEFINE c == [[Ctx EXCEPT !.depot.digit = seen] EXCEPT !.vis = x]
    <3>1. PICK e : e = [depot EXCEPT !.digit = seen]
      OBVIOUS
    <3>2. Shown = seen
      BY <2>1, <2>2 DEF Shown, EventPending, Answered
    <3>3. seen \in 0..3
      BY <2>1, <3>2 DEF DepotInv, DigitsFit
    <3>4. e \in DepotType /\ e.digit = seen
      BY <1>0, <3>1, <3>3 DEF DepotType
    <3>5. c = [[Ctx EXCEPT !.depot = e] EXCEPT !.vis = x]
      BY <1>a, <3>1 DEF ContextType
    <3>6. /\ c.vis = x /\ c.id = requestId /\ c.active = activeArm /\ c.block = block
          /\ c.depot = e /\ c.manifest = manifest
      BY <1>a, <3>5, CtxNow DEF ContextType
    <3>7. enter(c, state)
      BY <2>6
    <3> HIDE DEF c
    <3>8. /\ state' = state /\ vis' = x
          /\ UNCHANGED <<requestId, activeArm, fault, armHome, arm, cmdQ>>
          /\ UNCHANGED <<block, manifest, side>> /\ depot' = e
      BY <3>6, <3>7 DEF enter, written
    <3>9. OnlyResults /\ block' \in BlockType /\ depot' \in DepotType
      <4>1. block = [block EXCEPT !.result = block.result]
        BY <1>0 DEF BlockType
      <4> QED BY <1>0, <3>1, <3>4, <3>8, <4>1 DEF OnlyResults
    <3>10. Shown' = Shown
      BY <2>4, <3>2, <3>4, <3>8 DEF Shown
    <3>11. HandlerStep(Taken) /\ ~Answered(Taken)
      BY TakenSafe DEF Busy, Answered, DepotInv, ControlInv
    <3>12. state \notin RestStates /\ state # "DEPOT_DIGIT_STOP" /\ ~vis.stopReq
      BY <1>0, <2>1 DEF RestStates, SessionFits
    <3>13. Answered(Taken) => Answered(x)
      BY <3>11
    <3> QED
      BY <2>2, <2>4, <3>8, <3>9, <3>10, <3>11, <3>12, <3>13, StayKeeps
  <2> QED BY <2>3, <2>5, <2>6 DEF x
<1>2. CASE vis.scene # "DEPOT_DIGIT"
  <2> DEFINE b0 == [Ctx EXCEPT !.block.result = seen]
  <2>1. /\ state = "BLOCK_WAIT_DIGIT"
        /\ Replied("LISTENING") \/ Replied("STARTING")
        /\ confirm(b0, b0)
    BY <1>2, Zenon DEF DigitSeen, ResultCounts
  <2>2. vis.phase \in {"STARTING", "LISTENING"}
    BY <2>1 DEF Replied
  <2> HIDE DEF b0
  <2>3. PICK ok \in submit_results(Taken) :
          \/ ok /\ enter([b0 EXCEPT !.vis = acking(ok)], state)
          \/ ~ok /\ fail([b0 EXCEPT !.vis = acking(ok)], "VISION")
    BY <2>1, Zenon DEF confirm
  <2> DEFINE x == acking(ok)
             c == [b0 EXCEPT !.vis = x]
  <2>4. /\ SafeRecord(x) /\ x.phase = "ACKING" /\ x.scene = vis.scene
        /\ x.stopReq = vis.stopReq /\ StopNoted(x)
    BY <2>2, AckRecord
  <2> HIDE DEF x
  <2>5. PICK b : b = [block EXCEPT !.result = seen]
    OBVIOUS
  <2>6. b \in BlockType /\ b.result = seen
    BY <1>0, <2>5 DEF BlockType, ScanFault, NoResult
  <2>7. b0 = [Ctx EXCEPT !.block = b]
    BY <1>a, <2>5 DEF ContextType, b0
  <2>8. /\ c \in ContextType
        /\ c.vis = x /\ c.id = requestId /\ c.active = activeArm /\ c.block = b
        /\ c.depot = depot /\ c.manifest = manifest
    BY <1>a, <2>4, <2>6, <2>7, CtxNow DEF ContextType, SafeRecord
  <2>9. enter(c, state) \/ fail(c, "VISION")
    BY <2>3 DEF x
  <2> HIDE DEF c
  <2>10. CASE fail(c, "VISION")
    <3>1. Context(c)
      BY <2>4, <2>8 DEF Context, DepotInv
    <3> QED BY <2>8, <2>10, <3>1, FailKeeps DEF Faults
  <2>11. CASE enter(c, state)
    <3>1. /\ state' = state /\ vis' = x
          /\ UNCHANGED <<requestId, activeArm, fault, armHome, arm, cmdQ>>
          /\ UNCHANGED <<depot, manifest, side>> /\ block' = b
      BY <2>8, <2>11 DEF enter, written
    <3>2. OnlyResults /\ block' \in BlockType /\ depot' \in DepotType
      <4>1. depot = [depot EXCEPT !.digit = depot.digit]
        BY <1>0 DEF DepotType
      <4> QED BY <1>0, <2>5, <2>6, <3>1, <4>1 DEF OnlyResults
    <3>3. HandlerStep(Taken) /\ ~Answered(Taken)
      BY TakenSafe DEF Busy, Answered, DepotInv, ControlInv
    <3>4. /\ state \notin RestStates /\ state # "DEPOT_DIGIT_STOP" /\ ~vis.stopReq
          /\ state # "DEPOT_WAIT_DIGIT"
      BY <1>0, <2>1 DEF RestStates, SessionFits
    <3>5. vis.phase # "IDLE" /\ x.phase = "ACKING" /\ x.scene = vis.scene /\ ~x.stopReq
      BY <2>2, <2>4, <3>4
    <3>6. Handled(DepotStates, Taken)
      <4>1. CtxTyped(DepotStates) /\ QueueTyped
        BY Typed DEF DepotInv, ControlInv
      <4> QED BY <2>4, <3>1, <3>3, <4>1 DEF Handled, CtxTyped, QueueTyped, StopNoted
    <3>7. SessionFits' /\ StoppingFits' /\ DigitsFit'
      <4>1. vis.scene = "BLOCK_DIGIT"
        BY <1>0, <2>1, <3>4, <3>5 DEF SessionFits
      <4> QED BY <2>1, <3>1, <3>4, <3>5, <4>1 DEF SessionFits, StoppingFits, DigitsFit
    <3> QED BY <3>1, <3>2, <3>3, <3>6, <3>7, HandlerKeeps
  <2> QED BY <2>9, <2>10, <2>11
<1> QED BY <1>1, <1>2

\* An answer of the camera.
LEMMA HandleVisionKeeps ==
    ASSUME DepotInv, HandleVision
    PROVE  DepotInv' /\ RestIsKept
<1>1. /\ pc = "vision" /\ "VISION_DONE" \in got /\ pc' = "process"
      /\ mission_handle_vision
      /\ UNCHANGED <<evtQ, flags, userQ, stops, got, worldVars, chassisVars>>
  BY DEF HandleVision, goto
<1>2. /\ LoopTyped /\ evtQ \in Seq([type : EventTypes, id : Nat, ok : BOOLEAN])
      /\ SafeRecord(vis) /\ StopNoted(vis) /\ DoneMeansAnswered
  BY Typed DEF DepotInv, ControlInv
<1>3. DoneSeen /\ Answered(vis)
  BY <1>1, <1>2 DEF DoneSeen, DoneMeansAnswered
<1>4. side' = side
  <2>1. ASSUME SessionReady PROVE side' = side
    BY <2>1, SameSide, Zenon DEF SessionReady, written
  <2>2. ASSUME DigitSeen PROVE side' = side
    <3>1. CASE vis.scene = "DEPOT_DIGIT"
      BY <2>2, <3>1, SameSide, Zenon DEF DigitSeen, confirm
    <3>2. CASE vis.scene # "DEPOT_DIGIT"
      BY <2>2, <3>2, SameSide, Zenon DEF DigitSeen, confirm
    <3> QED BY <3>1, <3>2
  <2>3. ASSUME SessionStopped PROVE side' = side
    BY <2>3, SameSide, Zenon DEF SessionStopped
  <2> QED
    BY <1>1, <2>1, <2>2, <2>3, SameSide, Zenon
    DEF mission_handle_vision, QuietStart, BusError, AnswerAmiss, ResultIgnored, written
<1>5. ASSUME NEW v PROVE HandlerStep(v)
  BY <1>1, <1>2, <1>3, <1>4 DEF HandlerStep, LoopTyped, LoopStages, OkSeen
<1>6. /\ SafeRecord(Taken) /\ StopNoted(Taken) /\ ~Busy(Taken) /\ Taken \in VisionType
      /\ Taken.phase = vis.phase /\ Taken.scene = vis.scene
      /\ Taken.stopReq = vis.stopReq
  BY <1>2, <1>3, TakenSafe DEF SafeRecord
<1>7. CASE enter([Ctx EXCEPT !.vis = Taken], state)
  BY <1>1, <1>3, <1>5, <1>7, TakenKeeps
<1>8. CASE fail([Ctx EXCEPT !.vis = Taken], "VISION")
  BY <1>5, <1>6, <1>8, FailRecord DEF Faults
<1>9. CASE BusError
  <2>1. mission_fail(With(Taken), "VISION") /\ written(Ctx)
    BY <1>9 DEF BusError, BusFault
  <2> QED BY <1>5, <1>6, <2>1, FailWith DEF Faults
<1>10. CASE SessionStopped
  <2> DEFINE x == mission_reset_vision(Taken)
  <2>1. /\ Replied("STOPPING")
        /\ \/ fail([Ctx EXCEPT !.vis = x], "VISION")
           \/ state # "DEPOT_DIGIT_STOP" /\ enter([Ctx EXCEPT !.vis = x], state)
    BY <1>10, Zenon DEF SessionStopped
  <2>2. /\ SafeRecord(x) /\ x.phase = "IDLE" /\ x \in VisionType /\ ~Answered(x)
        /\ ~x.stopReq
    BY <1>6 DEF mission_reset_vision, SafeRecord, VisionType, Phases, Scenes, Busy, Answered
  <2> HIDE DEF x
  <2>3. StopNoted(x)
    BY <2>2 DEF StopNoted
  <2>4. CASE fail([Ctx EXCEPT !.vis = x], "VISION")
    BY <1>5, <2>2, <2>3, <2>4, FailRecord DEF Faults
  <2>5. CASE state # "DEPOT_DIGIT_STOP" /\ enter([Ctx EXCEPT !.vis = x], state)
    <3>1. /\ state' = state /\ vis' = x
          /\ UNCHANGED <<requestId, activeArm, fault, armHome, arm, cmdQ>>
          /\ UNCHANGED <<block, depot, manifest, side>>
          /\ OnlyResults /\ block' \in BlockType /\ depot' \in DepotType
      BY <2>2, <2>5, EnterRecord
    <3>2. Shown' = 0
      BY <2>2, <3>1 DEF Shown
    <3>3. HandlerStep(x)
      BY <1>5
    <3> QED BY <1>1, <2>2, <2>3, <2>5, <3>1, <3>2, <3>3, StayKeeps
  <2> QED BY <2>1, <2>4, <2>5
<1>11. CASE SessionReady
  BY <1>1, <1>3, <1>5, <1>11, ReadyKeeps
<1>12. CASE DigitSeen
  <2>1. ~StopWasWaiting
    BY <1>12 DEF DigitSeen, ResultCounts, Replied
  <2> QED BY <1>1, <1>3, <1>5, <1>12, <2>1, DigitSeenKeeps
<1>13. CASE DeferredStop /\ written(Ctx)
  BY <1>1, <1>3, <1>5, <1>13, DeferredStopKeeps
<1>14. CASE (QuietListen \/ AckSent) /\ written(Ctx)
  <2>1. keep(Taken) /\ written(Ctx)
    BY <1>14 DEF QuietListen, AckSent
  <2> DEFINE c == [Ctx EXCEPT !.vis = Taken]
  <2>2. /\ c.vis = Taken /\ c.id = requestId /\ c.active = activeArm
        /\ c.block = block /\ c.depot = depot /\ c.manifest = manifest
    BY CtxNow DEF ContextType
  <2> HIDE DEF c
  <2>3. enter(c, state)
    BY <2>1, <2>2, CtxNow DEF keep, enter_state, enter, written
  <2> QED BY <1>7, <2>3 DEF c
<1>15. CASE QuietStart
  BY <1>7, <1>15 DEF QuietStart
<1>16. CASE AnswerAmiss
  BY <1>8, <1>16 DEF AnswerAmiss
<1>17. CASE ResultIgnored
  BY <1>7, <1>17 DEF ResultIgnored
<1> QED
  BY <1>1, <1>9, <1>10, <1>11, <1>12, <1>13, <1>14, <1>15, <1>16, <1>17
  DEF mission_handle_vision

\* An open session is asked for its next event.
LEMMA PollSessionKeeps ==
    ASSUME DepotInv, PollSession
    PROVE  DepotInv' /\ RestIsKept
<1>1. PICK ok \in submit_results(vis) :
        enter([Ctx EXCEPT !.vis = mission_submit_vision_transfer(vis, "READ", ok)], state)
  BY DEF PollSession
<1>2. /\ pc = "process" /\ vis.phase \in {"STARTING", "LISTENING"} /\ ~Busy(vis)
      /\ pc' = "timeout"
      /\ UNCHANGED <<evtQ, flags, userQ, stops, got, worldVars, chassisVars>>
  BY DEF PollSession, goto
<1>3. /\ LoopTyped /\ evtQ \in Seq([type : EventTypes, id : Nat, ok : BOOLEAN])
      /\ SafeRecord(vis) /\ StopNoted(vis)
  BY Typed DEF DepotInv, ControlInv
<1> DEFINE x == mission_submit_vision_transfer(vis, "READ", ok)
<1>4. /\ SafeRecord(x) /\ x.phase = vis.phase /\ x.scene = vis.scene
      /\ x.stopReq = vis.stopReq
  BY <1>2, <1>3, SubmitSafe DEF SafeRecord
<1>5. x.pending = vis.pending
  BY <1>3 DEF mission_submit_vision_transfer, framed, SafeRecord, VisionType
<1> HIDE DEF x
<1>6. ~Answered(vis) /\ x \in VisionType
  BY <1>2, <1>4 DEF Answered, Busy, SafeRecord
<1>7. /\ state' = state /\ vis' = x
      /\ UNCHANGED <<requestId, activeArm, fault, armHome, arm, cmdQ>>
      /\ UNCHANGED <<block, depot, manifest, side>>
      /\ OnlyResults /\ block' \in BlockType /\ depot' \in DepotType
  BY <1>1, <1>6, EnterRecord DEF x
<1>8. HandlerStep(vis)
  BY <1>2, <1>3, <1>7 DEF HandlerStep, LoopTyped, LoopStages, OkSeen
<1>9. Shown' = 0
  BY <1>2, <1>4, <1>5, <1>7 DEF Shown, EventPending, Busy
<1>10. StopNoted(x)
  BY <1>3, <1>4 DEF StopNoted
<1>11. /\ state \notin RestStates \cup {"DEPOT_DIGIT_STOP"} =>
            ~vis.stopReq
       /\ state = "DEPOT_DIGIT_STOP" => vis.phase # "STARTING"
  BY DEF DepotInv, SessionFits, StoppingFits
<1> QED
  BY <1>2, <1>4, <1>6, <1>7, <1>8, <1>9, <1>10, <1>11, StayKeeps

\* A confirmed digit is acted upon.
LEMMA AckProcessedKeeps ==
    ASSUME DepotInv, AckProcessed
    PROVE  DepotInv' /\ RestIsKept
<1> DEFINE x == mission_reset_vision(vis)
           c == [Ctx EXCEPT !.vis = x]
<1>1. /\ pc = "process" /\ vis.phase = "ACKING" /\ ~Busy(vis) /\ pc' = "timeout"
      /\ UNCHANGED <<evtQ, flags, userQ, stops, got, worldVars, chassisVars>>
      /\ \/ state = "DEPOT_WAIT_DIGIT" /\ mission_depot_digit_done(c)
         \/ state = "BLOCK_WAIT_DIGIT" /\ mission_block_digit_done(c)
         \/ state # "DEPOT_WAIT_DIGIT" /\ enter(c, state)
  BY DEF AckProcessed, goto
<1>2. /\ LoopTyped /\ evtQ \in Seq([type : EventTypes, id : Nat, ok : BOOLEAN])
      /\ SafeRecord(vis) /\ StopNoted(vis)
  BY Typed DEF DepotInv, ControlInv
<1>3. /\ SafeRecord(x) /\ x.phase = "IDLE" /\ x \in VisionType /\ ~x.stopReq /\ ~Busy(x)
  BY <1>1, <1>2 DEF mission_reset_vision, SafeRecord, VisionType, Phases, Scenes, Busy
<1> HIDE DEF x
<1>4. StopNoted(x) /\ ~Answered(vis) /\ ~Answered(x)
  BY <1>1, <1>3 DEF StopNoted, Answered, Busy
<1>5. /\ c \in ContextType /\ c.vis = x /\ c.block = block /\ c.depot = depot
      /\ c.manifest = manifest
  BY <1>3, CtxNow DEF ContextType
<1>6. side' = side
  BY <1>1, SameSide, SameSideBalls, SameSideMoves
<1>7. HandlerStep(vis) /\ HandlerStep(x)
  BY <1>1, <1>2, <1>4, <1>6 DEF HandlerStep, LoopTyped, LoopStages, OkSeen
<1>8. ASSUME state \in {"DEPOT_WAIT_DIGIT", "BLOCK_WAIT_DIGIT"}
      PROVE  Calm(c) /\ base = depot.position
  <2>1. /\ state \notin RestStates \cup AskStates \cup BlockArmStates \cup DepotArmStates
        /\ state # "COMPLETE"
    BY <1>8 DEF RestStates, AskStates, BlockMoveStates, BlockArmStates, DepotArmStates
  <2>2. /\ cmdQ = <<>> /\ evtQ = <<>> /\ ~driving /\ cpc = "depot"
        /\ base = depot.position
    BY <2>1 DEF DepotInv, BaseFits, Standing
  <2>3. arm = 0 /\ ~OkSignalled
    BY <2>1 DEF DepotInv, ArmFits
  <2>4. ~OkSignalled'
    BY <1>1, <2>3 DEF OkSignalled, OkSeen
  <2>5. Context(c)
    BY <1>3, <1>4, <1>5 DEF Context, DepotInv
  <2> QED BY <1>1, <1>3, <1>5, <1>7, <2>1, <2>2, <2>3, <2>4, <2>5 DEF Calm
<1> HIDE DEF c
<1>9. CASE state = "DEPOT_WAIT_DIGIT" /\ mission_depot_digit_done(c)
  <2>1. Apt("DEPOT_WAIT_DIGIT", c)
    BY <1>5, <1>9, BlocksAreDone DEF Apt, DepotInv, PlacingStates, StationStates
  <2>2. Shown = depot.digit
    BY <1>1 DEF Shown
  <2>3. /\ misread = 0 => depot.first \in {0, Sign} /\ depot.digit \in {0, Sign}
        /\ misread <= 1 => depot.first \in {0, Sign} \/ depot.digit \in {0, Sign}
    BY <1>9, <2>2 DEF DepotInv, DigitsFit
  <2> QED BY <1>5, <1>8, <1>9, <2>1, <2>3, DigitDoneKeeps
<1>10. CASE state = "BLOCK_WAIT_DIGIT" /\ mission_block_digit_done(c)
  <2>1. /\ ~held /\ block.digit = 0 /\ block.step < 3 /\ depot.position \in Stations
        /\ Fresh(manifest)
    BY <1>10 DEF DepotInv, HeldFits, BlockFits, BallsFit, BlockStages, BlockStates
  <2>2. AtBlock(c)
    BY <1>5, <1>8, <1>10, <2>1 DEF AtBlock
  <2> QED BY <1>5, <1>10, <2>1, <2>2, BlockDigitDoneKeeps
<1>11. CASE state # "DEPOT_WAIT_DIGIT" /\ enter(c, state)
  <2>1. /\ state' = state /\ vis' = x
        /\ UNCHANGED <<requestId, activeArm, fault, armHome, arm, cmdQ>>
        /\ UNCHANGED <<block, depot, manifest, side>>
        /\ OnlyResults /\ block' \in BlockType /\ depot' \in DepotType
    BY <1>3, <1>11, EnterRecord DEF c
  <2>2. Shown' = 0
    BY <1>3, <2>1 DEF Shown
  <2> QED BY <1>1, <1>3, <1>4, <1>7, <2>1, <2>2, StayKeeps
<1> QED BY <1>1, <1>9, <1>10, <1>11

-----------------------------------------------------------------------------
(* mission_check_timeout, and the turns of the turntable.                  *)

\* The loop goes back to sleep.
LEMMA TurnEnds ==
    ASSUME DepotInv, turn_ends, UNCHANGED <<worldVars, chassisVars, side>>,
           pc \in {"timeout", "turning"}
    PROVE  /\ \A v : (Answered(vis) => Answered(v)) => HandlerStep(v)
           /\ evtQ' = evtQ /\ pc' # "turning" /\ ~OkSeen' /\ UNCHANGED flags
<1>1. /\ LoopTyped /\ evtQ \in Seq([type : EventTypes, id : Nat, ok : BOOLEAN])
  BY Typed DEF DepotInv, ControlInv
<1> QED BY <1>1 DEF turn_ends, HandlerStep, LoopTyped, LoopStages, OkSeen

\* The states that act by themselves: base and arm rest.
LEMMA AloneNow ==
    ASSUME DepotInv, state \in {"DEPOT_SEEK", "BLOCK_SETTLE", "DEPOT_WAIT_DIGIT"}
    PROVE  /\ state \notin RestStates /\ cmdQ = <<>> /\ evtQ = <<>> /\ ~driving
           /\ cpc = "depot" /\ base = depot.position /\ arm = 0 /\ ~OkSignalled
           /\ ~vis.stopReq
           /\ state # "DEPOT_WAIT_DIGIT" => vis.phase = "IDLE"
<1>1. /\ state \notin RestStates \cup AskStates \cup BlockArmStates \cup DepotArmStates
      /\ state # "COMPLETE"
  BY DEF RestStates, AskStates, BlockMoveStates, BlockArmStates, DepotArmStates
<1>2. /\ cmdQ = <<>> /\ evtQ = <<>> /\ ~driving /\ cpc = "depot" /\ base = depot.position
  BY <1>1 DEF DepotInv, BaseFits, Standing
<1>3. arm = 0 /\ ~OkSignalled
  BY <1>1 DEF DepotInv, ArmFits
<1>4. ~vis.stopReq /\ (state # "DEPOT_WAIT_DIGIT" => vis.phase = "IDLE")
  BY <1>1 DEF DepotInv, SessionFits
<1> QED BY <1>1, <1>2, <1>3, <1>4

\* A deadline of seconds runs out.
LEMMA TimeOutKeeps ==
    ASSUME DepotInv, TimeOut
    PROVE  DepotInv' /\ RestIsKept
<1>1. /\ pc = "timeout" /\ turn_ends /\ Timed /\ UNCHANGED <<worldVars, chassisVars>>
      /\ \/ state = "DEPOT_WAIT_DIGIT" /\ stop_vision(vis, "DEPOT_DIGIT_STOP")
            /\ written(Ctx)
         \/ fail(Ctx, "TIMEOUT")
  BY DEF TimeOut
<1>2. side' = side
  BY <1>1, SameSide DEF written
<1>3. /\ \A v : (Answered(vis) => Answered(v)) => HandlerStep(v)
      /\ evtQ' = evtQ /\ pc' # "turning" /\ ~OkSeen' /\ UNCHANGED flags
  BY <1>1, <1>2, TurnEnds
<1>4. SafeRecord(vis) /\ CtxTyped(DepotStates)
  BY Typed DEF DepotInv, ControlInv
<1>5. CASE fail(Ctx, "TIMEOUT")
  BY <1>3, <1>5, CtxNow, FailKeeps DEF Faults
<1>6. CASE /\ state = "DEPOT_WAIT_DIGIT" /\ stop_vision(vis, "DEPOT_DIGIT_STOP")
           /\ written(Ctx)
  <2>1. PICK r \in mission_stop_vision(vis) :
            IF r.ok THEN enter_state(r.vis, "DEPOT_DIGIT_STOP")
                    ELSE mission_fail(With(r.vis), "VISION")
    BY <1>6 DEF stop_vision
  <2>2. SafeRecord(r.vis) /\ (Answered(vis) => Answered(r.vis))
    BY <1>4, StopSafe
  <2>3. StopNoted(r.vis) /\ HandlerStep(r.vis)
    BY <1>3, <1>6, <2>2 DEF StopNoted, RestStates
  <2>4. CASE ~r.ok
    BY <1>6, <2>1, <2>2, <2>3, <2>4, FailWith DEF Faults
  <2>5. CASE r.ok
    <3>1. /\ state' = "DEPOT_DIGIT_STOP" /\ vis' = r.vis
          /\ UNCHANGED <<fault, requestId, activeArm, armHome, arm, cmdQ>>
          /\ UNCHANGED <<block, depot, manifest, side>>
      BY <1>6, <2>1, <2>5, CtxNow DEF enter_state, written
    <3>2. vis.phase # "STARTING"
      BY <1>1, <1>6 DEF Timed
    <3>3. r.vis.phase # "STARTING"
      <4>1. ASSUME vis.phase = "IDLE" \/ vis.scene = "NONE" PROVE r.vis.phase # "STARTING"
        BY <3>2, <4>1 DEF mission_stop_vision
      <4>2. ASSUME ~(vis.phase = "IDLE" \/ vis.scene = "NONE"), Busy(vis)
            PROVE  r.vis.phase # "STARTING"
        BY <1>4, <3>2, <4>2 DEF mission_stop_vision, SafeRecord, VisionType
      <4>3. ASSUME ~Busy(vis) PROVE r.vis.phase # "STARTING"
        BY <1>4, <4>3, StopCloses
      <4> QED BY <4>1, <4>2, <4>3
    <3>4. Handled(DepotStates, vis)
      BY <1>4, <2>2, <3>1
      DEF Handled, CtxTyped, QueueTyped, StopNoted, DepotStates, RestStates
    <3>5. ControlInv'
      BY <1>3, <3>1, <3>4, ControlKept DEF DepotInv, ControlInv, TypeOK
    <3>6. UNCHANGED <<held, base, cpc, driving, misread, flags>>
      BY <1>1, <1>3 DEF worldVars, chassisVars
    <3>7. BlockFits(state, block, depot)' /\ BallsFit(state, depot, manifest)'
      <4>1. BlockFits("DEPOT_DIGIT_STOP", block, depot)
        BY DEF BlockFits, BlockStates
      <4>2. BallsFit("DEPOT_DIGIT_STOP", depot, manifest)
        BY DEF BallsFit, BlockStages, BlockStates, PlacingStates, BallStates,
               StationStates, LastStates
      <4> QED BY <3>1, <3>6, <4>1, <4>2, DataKept
    <3>8. BaseFits'
      BY <1>3, <1>6, <3>1, <3>6, AloneNow
      DEF BaseFits, Standing, AskStates, BlockMoveStates, RestStates
    <3>9. ArmFits'
      BY <1>3, <1>6, <3>1, <3>6, AloneNow DEF ArmFits, OkSignalled, BlockGroups
    <3>10. HeldFits' /\ SessionFits' /\ StoppingFits' /\ DigitsFit'
      BY <3>1, <3>3 DEF HeldFits, SessionFits, StoppingFits, DigitsFit
    <3>11. Table(manifest') /\ InSlotOrder(manifest') /\ state' \notin RestStates
      BY <3>1 DEF DepotInv, RestStates
    <3> QED
      BY <1>6, <3>5, <3>7, <3>8, <3>9, <3>10, <3>11, AloneNow, Entered
  <2> QED BY <2>4, <2>5
<1> QED BY <1>1, <1>5, <1>6

\* The base has settled at a block and the camera looks.
LEMMA SettledKeeps ==
    ASSUME DepotInv, Settled
    PROVE  DepotInv' /\ RestIsKept
<1> DEFINE c == [Ctx EXCEPT !.block.result = NoResult]
<1>1. /\ pc = "timeout" /\ state = "BLOCK_SETTLE" /\ turn_ends
      /\ UNCHANGED <<worldVars, chassisVars>>
      /\ look(c, "BLOCK_DIGIT", "BLOCK_WAIT_DIGIT")
  BY DEF Settled
<1>2. side' = side
  BY <1>1, SameSide
<1>3. PICK b : b = [block EXCEPT !.result = NoResult]
  OBVIOUS
<1>4. /\ b \in BlockType /\ b.digit = block.digit /\ b.step = block.step
  BY <1>3 DEF DepotInv, ControlInv, TypeOK, BlockType, NoResult
<1>5. c = [Ctx EXCEPT !.block = b]
  BY <1>3, CtxNow DEF ContextType
<1> HIDE DEF c
<1>6. /\ c \in ContextType /\ c.vis = vis /\ c.block = b /\ c.depot = depot
      /\ c.manifest = manifest
  BY <1>4, <1>5, CtxNow DEF ContextType
<1>7. /\ HandlerStep(vis) /\ evtQ' = evtQ /\ pc' # "turning" /\ ~OkSeen' /\ UNCHANGED flags
  BY <1>1, <1>2, TurnEnds
<1>8. Calm(c) /\ base = depot.position
  <2>1. Context(c)
    BY <1>6 DEF Context, DepotInv, ControlInv
  <2>2. ~OkSignalled'
    BY <1>1, <1>7, AloneNow DEF OkSignalled
  <2> QED BY <1>1, <1>6, <1>7, <2>1, <2>2, AloneNow DEF Calm
<1>9. Apt("BLOCK_WAIT_DIGIT", c)
  <2>1. /\ ~held /\ block.digit = 0 /\ block.step < 3 /\ depot.position \in Stations
        /\ Fresh(manifest)
    BY <1>1 DEF DepotInv, HeldFits, BlockFits, BallsFit, BlockStages, BlockStates
  <2>2. BlockFits("BLOCK_WAIT_DIGIT", c.block, c.depot) /\ Grip("BLOCK_WAIT_DIGIT", c.block)
    BY <1>4, <1>6, <2>1 DEF BlockFits, Grip
  <2> QED BY <1>6, <2>1, <2>2, BlockApt DEF BlockStates
<1> QED BY <1>1, <1>6, <1>8, <1>9, LookKeeps

\* The slot has come to the arm, at once or after a turn.
LEMMA SlotThere ==
    ASSUME DepotInv, pc \in {"timeout", "turning"}, state = "DEPOT_SEEK", turn_ends,
           UNCHANGED <<worldVars, chassisVars>>,
           NEW e \in DepotType, e = [depot EXCEPT !.slot = depot.target],
           NEW c, c = [Ctx EXCEPT !.depot = e], slot_reached(c)
    PROVE  DepotInv' /\ RestIsKept
<1>1. side' = side
  BY SameSideBalls
<1>2. /\ c \in ContextType /\ c.vis = vis /\ c.depot = e /\ c.manifest = manifest
  BY CtxNow DEF ContextType
<1>3. /\ HandlerStep(vis) /\ evtQ' = evtQ /\ pc' # "turning" /\ ~OkSeen' /\ UNCHANGED flags
  BY <1>1, TurnEnds
<1>4. depot \in DepotType
  BY DEF DepotInv, ControlInv, TypeOK
<1>5. /\ e.position = depot.position /\ e.slot = depot.target /\ e.target = depot.target
      /\ e.preparing = depot.preparing /\ e.abnormal = depot.abnormal
  BY <1>4 DEF DepotType
<1>6. /\ e.used = depot.used /\ e.first = depot.first /\ e.column = depot.column
      /\ e.sequence = depot.sequence /\ e.row = depot.row
  BY <1>4 DEF DepotType
<1>7. Calm(c) /\ base = c.depot.position
  <2>1. Context(c)
    BY <1>2 DEF Context, DepotInv, ControlInv
  <2>2. ~OkSignalled'
    BY <1>3, AloneNow DEF OkSignalled
  <2> QED BY <1>2, <1>3, <1>5, <2>1, <2>2, AloneNow DEF Calm
<1>8. Apt("DEPOT_SEEK", c)
  <2>1. "DEPOT_SEEK" \in PlacingStates
    BY DEF PlacingStates, BallStates
  <2>2. /\ StationsFit("DEPOT_SEEK", depot) /\ Planned(manifest, depot)
        /\ PlacedFits("DEPOT_SEEK", manifest, depot) /\ BallFits("DEPOT_SEEK", manifest, depot)
    BY <2>1 DEF DepotInv, BallsFit
  <2>3. /\ Preparing("DEPOT_SEEK", e) = Preparing("DEPOT_SEEK", depot)
        /\ Fetching("DEPOT_SEEK", e) = Fetching("DEPOT_SEEK", depot)
    BY <1>5 DEF Preparing, Fetching
  <2>4. StationsFit("DEPOT_SEEK", e)
    BY <1>5, <1>6, <2>2, <2>3 DEF StationsFit
  <2>5. Planned(manifest, e)
    BY <1>5, <2>2 DEF Planned
  <2>6. Finished("DEPOT_SEEK", e) = Finished("DEPOT_SEEK", depot)
    BY <1>6, <2>3 DEF Finished
  <2>7. PlacedFits("DEPOT_SEEK", manifest, e)
    BY <1>5, <1>6, <2>2, <2>6 DEF PlacedFits
  <2>8. BallFits("DEPOT_SEEK", manifest, e)
    BY <1>5, <1>6, <2>2, <2>3 DEF BallFits
  <2> QED
    BY <1>2, <2>1, <2>4, <2>5, <2>7, <2>8, BlocksAreDone DEF Apt, BallsFit
<1> QED BY <1>2, <1>5, <1>7, <1>8, SlotReachedKeeps

\* The slot that is wanted is already under the arm.
LEMMA SlotIsThereKeeps ==
    ASSUME DepotInv, SlotIsThere
    PROVE  DepotInv' /\ RestIsKept
<1>1. depot \in DepotType
  BY DEF DepotInv, ControlInv, TypeOK
<1>2. depot = [depot EXCEPT !.slot = depot.target]
  BY <1>1 DEF SlotIsThere, DepotType
<1>3. Ctx = [Ctx EXCEPT !.depot = depot]
  BY CtxNow DEF ContextType
<1> QED BY <1>1, <1>2, <1>3, SlotThere DEF SlotIsThere

\* The turntable has turned.
LEMMA TurnDoneKeeps ==
    ASSUME DepotInv, TurnDone
    PROVE  DepotInv' /\ RestIsKept
<1> DEFINE c == [Ctx EXCEPT !.depot.slot = depot.target]
<1>1. PICK e : e = [depot EXCEPT !.slot = depot.target]
  OBVIOUS
<1>2. e \in DepotType
  BY <1>1 DEF DepotInv, ControlInv, TypeOK, DepotType
<1>3. c = [Ctx EXCEPT !.depot = e]
  BY <1>1, CtxNow DEF ContextType
<1>4. slot_reached(c)
  BY DEF TurnDone
<1> HIDE DEF c
<1> QED BY <1>1, <1>2, <1>3, <1>4, SlotThere DEF TurnDone

\* The turntable does not turn.
LEMMA TurnFailedKeeps ==
    ASSUME DepotInv, TurnFailed
    PROVE  DepotInv' /\ RestIsKept
<1>1. side' = side
  BY SameSide DEF TurnFailed
<1>2. HandlerStep(vis)
  BY <1>1, TurnEnds DEF TurnFailed
<1> QED BY <1>2, CtxNow, FailKeeps DEF TurnFailed, Faults

-----------------------------------------------------------------------------
(* The chassis task.                                                       *)

EventType == [type : EventTypes, id : Nat, ok : BOOLEAN]

\* Events are only appended, and with the flag that announces them.
Posted ==
    /\ evtQ' \in Seq(EventType) /\ flags' \in {flags, flags \cup {"EVENT"}}
    /\ evtQ # <<>> => evtQ' # <<>> /\ (evtQ')[1] = evtQ[1]

\* link_post appends, or drops the event of a full queue.
LEMMA PostIsPosted ==
    ASSUME evtQ \in Seq(EventType), NEW type \in EventTypes, NEW id \in Nat,
           NEW ok \in BOOLEAN, link_post(type, id, ok)
    PROVE  /\ Posted
           /\ evtQ = <<>> => evtQ' = <<Event(type, id, ok)>>
<1>1. Event(type, id, ok) \in EventType
  BY DEF Event, EventType
<1> DEFINE x == Event(type, id, ok)
<1>2. \/ /\ evtQ' = Append(evtQ, x) /\ flags' = flags \cup {"EVENT"}
      \/ UNCHANGED <<evtQ, flags>> /\ Len(evtQ) >= QueueDepth
  BY QueueDepthAssumption DEF link_post
<1> HIDE DEF x
<1>3. x \in EventType
  BY <1>1 DEF x
<1>4. Posted
  BY <1>2, <1>3 DEF Posted
<1>5. evtQ = <<>> => evtQ' = <<x>>
  BY <1>2, <1>3, QueueDepthAssumption
<1> QED BY <1>4, <1>5 DEF x

\* A step that leaves queue and flags alone.
LEMMA NoneIsPosted ==
    ASSUME evtQ \in Seq(EventType), UNCHANGED <<evtQ, flags>>
    PROVE  Posted
BY DEF Posted

\* cmd_default posts at most the confirmation of a STOP.
LEMMA DefaultIsPosted ==
    ASSUME evtQ \in Seq(EventType), NEW c \in Commands, cmd_default(c)
    PROVE  Posted /\ driving' \in {FALSE, driving}
<1>1. CASE c.type = "STOP"
  <2>1. driving' = FALSE /\ link_post("STOPPED", c.id, TRUE)
    BY <1>1 DEF cmd_default
  <2>2. c.id \in Nat
    <3>1. IdMax \in Nat
      BY IdMaxAssumption
    <3>2. c.id \in 1..IdMax
      BY DEF Commands
    <3> QED BY <3>1, <3>2
  <2>3. "STOPPED" \in EventTypes /\ TRUE \in BOOLEAN
    BY DEF EventTypes
  <2>4. Posted
    BY <2>1, <2>2, <2>3, PostIsPosted
  <2> QED BY <2>1, <2>4
<1>2. CASE c.type # "STOP"
  BY <1>2, NoneIsPosted DEF cmd_default
<1> QED BY <1>1, <1>2

\* The answers and numbers of the stations.
LEMMA StationAnswer ==
    ASSUME NEW n \in Stations
    PROVE  DepotReady[n] \in EventTypes /\ n \in 1..4
BY DEF EventTypes, Stations

\* The answer to the first station.
LEMMA FirstAnswer ==
    "DEPOT_1_READY" \in EventTypes
<1>1. DepotReady[1] = "DEPOT_1_READY" /\ 1 \in Stations
  BY DEF DepotReady, Stations
<1> QED BY <1>1 DEF EventTypes

\* What the chassis task may do to what it shares with the Mission task.
ChassisStep ==
    /\ cmdQ' = cmdQ \/ (cmdQ # <<>> /\ cmdQ' = Tail(cmdQ))
    /\ Posted /\ ChassisTypeOK'

\* Every step of the chassis task is one of these.
LEMMA ChassisTyped ==
    ASSUME DepotInv, ChassisNext
    PROVE  ChassisStep
<1>1. /\ cmdQ \in Seq(Commands) /\ evtQ \in Seq(EventType) /\ ChassisTypeOK
  BY DEF DepotInv, ControlInv, TypeOK, QueueTyped, EventType
<1>2. ASSUME cmdQ # <<>>
      PROVE  NextCommand \in Commands /\ NextCommand.id \in Nat
  <2>1. NextCommand = cmdQ[1] /\ 1 \in DOMAIN cmdQ
    BY <1>1, <1>2 DEF NextCommand
  <2>2. NextCommand \in Commands
    BY <1>1, <2>1
  <2>3. NextCommand.id \in 1..IdMax
    BY <2>2 DEF Commands
  <2>4. IdMax \in Nat
    BY IdMaxAssumption
  <2> QED BY <2>2, <2>3, <2>4
<1>3. ASSUME NEW n \in Stations PROVE DepotReady[n] \in EventTypes /\ n \in 1..4
  BY StationAnswer
<1>4. ASSUME NEW n \in Stations, NEW ok \in BOOLEAN, NEW p \in {"depot", "parked"},
             arrive(n, ok, p)
      PROVE  ChassisStep
  <2>1. Posted
    BY <1>1, <1>3, <1>4, PostIsPosted DEF arrive, ChassisTypeOK
  <2>2. ChassisTypeOK' /\ cmdQ' = cmdQ
    BY <1>1, <1>4 DEF arrive, ChassisTypeOK
  <2> QED BY <2>1, <2>2 DEF ChassisStep
<1>5. ASSUME NEW n \in Stations, NEW p \in {"route", "shift", "home"},
             TakeCommand, drive_to(n, NextCommand.id, p)
      PROVE  ChassisStep
  <2>1. Posted
    BY <1>1, <1>5, NoneIsPosted DEF drive_to
  <2>2. ChassisTypeOK'
    BY <1>2, <1>5 DEF drive_to, TakeCommand, ChassisTypeOK
  <2> QED BY <1>5, <2>1, <2>2 DEF ChassisStep, TakeCommand
<1>6. ASSUME TakeCommand, cmd_default(NextCommand), UNCHANGED <<base, goal, reqId>>,
             cpc' \in {cpc, "lost", "missed"}
      PROVE  ChassisStep
  <2>1. Posted /\ driving' \in {FALSE, driving}
    BY <1>1, <1>2, <1>6, DefaultIsPosted DEF TakeCommand
  <2>2. ChassisTypeOK'
    BY <1>1, <1>6, <2>1 DEF ChassisTypeOK
  <2> QED BY <1>6, <2>1, <2>2 DEF ChassisStep, TakeCommand
<1>7. CASE AwaitDepot
  BY <1>5, <1>6, <1>7 DEF AwaitDepot, Stations
<1>8. CASE RouteDone
  <2>1. CASE link_post("DEPOT_1_READY", reqId, FALSE)
    <3>1. "DEPOT_1_READY" \in EventTypes /\ FALSE \in BOOLEAN /\ reqId \in Nat
      BY <1>1, FirstAnswer DEF ChassisTypeOK
    <3>2. Posted
      BY <1>1, <2>1, <3>1, PostIsPosted
    <3>3. ChassisTypeOK' /\ cmdQ' = cmdQ
      BY <1>1, <1>8 DEF RouteDone, ChassisTypeOK
    <3> QED BY <3>2, <3>3 DEF ChassisStep
  <2>3. CASE UNCHANGED <<evtQ, flags>>
    <3>1. Posted
      BY <1>1, <2>3, NoneIsPosted
    <3>2. ChassisTypeOK' /\ cmdQ' = cmdQ
      BY <1>1, <1>8 DEF RouteDone, ChassisTypeOK
    <3> QED BY <3>1, <3>2 DEF ChassisStep
  <2> QED BY <1>8, <2>1, <2>3 DEF RouteDone
<1>9. CASE LocateMoves
  <2>1. Posted
    BY <1>1, <1>9, NoneIsPosted DEF LocateMoves, linkVars
  <2>2. ChassisTypeOK' /\ cmdQ' = cmdQ
    BY <1>1, <1>9 DEF LocateMoves, ChassisTypeOK, linkVars
  <2> QED BY <2>1, <2>2 DEF ChassisStep
<1>10. CASE StopInMotion
  BY <1>6, <1>10 DEF StopInMotion
<1>11. CASE Located \/ LocateFailed
  <2>1. 1 \in Stations /\ TRUE \in BOOLEAN /\ FALSE \in BOOLEAN
    BY DEF Stations
  <2> QED BY <1>4, <1>11, <2>1 DEF Located, LocateFailed
<1>12. CASE ShiftDone \/ ShiftFailed
  BY <1>1, <1>4, <1>12 DEF ShiftDone, ShiftFailed, ChassisTypeOK
<1>13. CASE DepotCommand
  BY <1>1, <1>5, <1>6, <1>13 DEF DepotCommand, ChassisTypeOK
<1>14. CASE HomeDone
  <2>1. PICK ok \in BOOLEAN : link_post("HOME_READY", reqId, ok)
    BY <1>14, SensorAssumption DEF HomeDone
  <2>0. "HOME_READY" \in EventTypes /\ reqId \in Nat
    BY <1>1 DEF EventTypes, ChassisTypeOK
  <2>2. Posted
    BY <1>1, <2>0, <2>1, PostIsPosted
  <2>3. ChassisTypeOK' /\ cmdQ' = cmdQ
    BY <1>1, <1>14 DEF HomeDone, ChassisTypeOK
  <2> QED BY <2>2, <2>3 DEF ChassisStep
<1>15. CASE Parked
  BY <1>6, <1>15 DEF Parked
<1> QED
  BY <1>7, <1>8, <1>9, <1>10, <1>11, <1>12, <1>13, <1>14, <1>15 DEF ChassisNext

\* While an answer is awaited the chassis task only brings it nearer.
LEMMA WaitingKept ==
    ASSUME DepotInv, ChassisNext, UNCHANGED <<state, requestId>>, state \in AskStates,
           NEW n, n = Wanted(state, block, depot), Waiting(state, n)
    PROVE  Waiting(state, n)'
<1>1. /\ cmdQ \in Seq(Commands) /\ evtQ \in Seq(EventType) /\ ChassisTypeOK
      /\ ChassisStep
  BY ChassisTyped DEF DepotInv, ControlInv, TypeOK, QueueTyped, EventType
<1>2. state # "DEPOT_WAIT_HOME" => n \in Stations
  <2>1. CASE state \in BlockMoveStates
    BY <2>1 DEF Wanted, DepotInv, BlockFits, BlockMoveStates
  <2>2. CASE state = "DEPOT_WAIT_POSITION"
    <3>1. OnTheWay(depot.position)
      BY <2>2 DEF DepotInv, BallsFit, PlacingStates, StationStates, StationsFit
    <3>2. n = depot.position
      BY <2>2 DEF Wanted, BlockMoveStates
    <3> QED BY <3>1, <3>2 DEF OnTheWay, Stations
  <2>3. CASE state \in {"WAIT_DEPOT_1", "DEPOT_RETURN_ENTRY"}
    <3>1. n = 1
      BY <2>3 DEF Wanted, BlockMoveStates
    <3> QED BY <3>1 DEF Stations
  <2> QED BY <2>1, <2>2, <2>3 DEF AskStates
<1>3. CASE /\ cmdQ = <<Command(Order(state, n), requestId)>> /\ evtQ = <<>>
           /\ ~driving /\ cpc = IdlePlace(state)
  <2>1. /\ NextCommand = Command(Order(state, n), requestId) /\ Tail(cmdQ) = <<>>
    BY <1>3 DEF NextCommand
  <2>2. NextCommand.type = Order(state, n) /\ NextCommand.id = requestId
    BY <2>1 DEF Command
  <2>3. CASE state = "WAIT_DEPOT_1"
    <3>1. n = 1 /\ Order(state, n) = "GO_DEPOT_1" /\ cpc = "await"
      BY <1>3, <2>3 DEF Wanted, BlockMoveStates, Order, GoDepot, IdlePlace
    <3>2. AwaitDepot
      BY <3>1 DEF ChassisNext, RouteDone, LocateMoves, StopInMotion, Located, LocateFailed,
         ShiftDone, ShiftFailed, DepotCommand, HomeDone, Parked
    <3>3. /\ cmdQ' = <<>> /\ evtQ' = <<>> /\ reqId' = requestId /\ cpc' = "route"
          /\ goal' = 1
      BY <1>3, <2>1, <2>2, <3>1, <3>2 DEF AwaitDepot, TakeCommand, drive_to
    <3> QED BY <2>3, <3>1, <3>3 DEF Waiting, WorkPlaces
  <2>4. CASE state = "DEPOT_WAIT_HOME"
    <3>1. Order(state, n) = "DEPOT_OK" /\ cpc = "depot"
      BY <1>3, <2>4 DEF Order, IdlePlace
    <3>2. DepotCommand
      BY <3>1 DEF ChassisNext, AwaitDepot, RouteDone, LocateMoves, StopInMotion, Located,
         LocateFailed, ShiftDone, ShiftFailed, HomeDone, Parked
    <3>3. TakeCommand /\ drive_to(goal, NextCommand.id, "home")
      BY <2>2, <3>1, <3>2 DEF DepotCommand, GoDepot, Stations
    <3>4. /\ cmdQ' = <<>> /\ evtQ' = <<>> /\ reqId' = requestId /\ cpc' = "home"
      BY <1>3, <2>1, <2>2, <3>3 DEF TakeCommand, drive_to
    <3> QED BY <2>4, <3>4 DEF Waiting, WorkPlaces
  <2>5. CASE state \notin {"WAIT_DEPOT_1", "DEPOT_WAIT_HOME"}
    <3>1. Order(state, n) = GoDepot[n] /\ cpc = "depot" /\ n \in Stations
      BY <1>2, <1>3, <2>5 DEF Order, IdlePlace
    <3>2. DepotCommand
      BY <3>1 DEF ChassisNext, AwaitDepot, RouteDone, LocateMoves, StopInMotion, Located,
         LocateFailed, ShiftDone, ShiftFailed, HomeDone, Parked
    <3>3. ASSUME NEW m \in Stations, GoDepot[m] = GoDepot[n] PROVE m = n
      BY <3>1, <3>3 DEF GoDepot, Stations
    <3>4. GoDepot[n] # "DEPOT_OK" /\ GoDepot[n] \in ShiftCommands
      BY <3>1 DEF GoDepot, Stations, ShiftCommands
    <3>5. TakeCommand /\ drive_to(n, NextCommand.id, "shift")
      BY <2>2, <3>1, <3>2, <3>3, <3>4 DEF DepotCommand
    <3>6. /\ cmdQ' = <<>> /\ evtQ' = <<>> /\ reqId' = requestId /\ cpc' = "shift"
          /\ goal' = n
      BY <1>3, <2>1, <2>2, <3>5 DEF TakeCommand, drive_to
    <3> QED BY <2>5, <3>6 DEF Waiting, WorkPlaces
  <2> QED BY <2>3, <2>4, <2>5
<1>4. CASE /\ cmdQ = <<>> /\ evtQ = <<>> /\ reqId = requestId
           /\ cpc \in WorkPlaces(state)
           /\ state # "DEPOT_WAIT_HOME" => goal = n
  <2>0. cmdQ' = <<>> /\ ~TakeCommand
    BY <1>1, <1>4 DEF ChassisStep, TakeCommand
  <2>1. ASSUME NEW m \in Stations, NEW ok \in BOOLEAN, NEW p, arrive(m, ok, p)
        PROVE  /\ evtQ' = <<Event(DepotReady[m], requestId, ok)>>
               /\ ~driving' /\ cpc' = p /\ (ok => base' = m)
    <3>1. DepotReady[m] \in EventTypes /\ reqId \in Nat
      BY <1>1, StationAnswer DEF ChassisTypeOK
    <3>2. link_post(DepotReady[m], reqId, ok)
      BY <2>1 DEF arrive
    <3>3. evtQ' = <<Event(DepotReady[m], reqId, ok)>>
      BY <1>1, <1>4, <3>1, <3>2, PostIsPosted
    <3> QED BY <1>4, <2>1, <3>3 DEF arrive
  <2>2. ASSUME NEW type, evtQ' = <<Event(type, requestId, FALSE)>>
        PROVE  Waiting(state, n)'
    <3>1. evtQ' # <<>> /\ evtQ'[1].id = requestId' /\ ~evtQ'[1].ok
      BY <2>2 DEF Event
    <3> QED BY <2>0, <3>1 DEF Waiting
  <2>3. CASE state = "WAIT_DEPOT_1"
    <3>1. n = 1 /\ cpc \in {"route", "locate"} /\ goal = 1
      BY <1>4, <2>3 DEF Wanted, BlockMoveStates, WorkPlaces
    <3>2. RouteDone \/ LocateMoves \/ Located \/ LocateFailed
      BY <2>0, <3>1 DEF ChassisNext, AwaitDepot, StopInMotion, ShiftDone, ShiftFailed,
         DepotCommand, HomeDone, Parked
    <3>3. CASE RouteDone
      <4>1. CASE cpc' = "locate" /\ UNCHANGED <<evtQ, flags>>
        BY <1>4, <2>0, <2>3, <3>1, <3>3, <4>1 DEF RouteDone, Waiting, WorkPlaces
      <4>2. CASE link_post("DEPOT_1_READY", reqId, FALSE)
        <5>0. "DEPOT_1_READY" \in EventTypes /\ FALSE \in BOOLEAN /\ reqId \in Nat
          BY <1>1, FirstAnswer DEF ChassisTypeOK
        <5>1. evtQ' = <<Event("DEPOT_1_READY", reqId, FALSE)>>
          BY <1>1, <1>4, <4>2, <5>0, PostIsPosted
        <5> QED BY <1>4, <2>2, <5>1
      <4> QED BY <3>3, <4>1, <4>2 DEF RouteDone
    <3>4. CASE LocateMoves
      BY <1>4, <2>0, <2>3, <3>1, <3>4 DEF LocateMoves, linkVars, Waiting, WorkPlaces
    <3>5. CASE Located
      <4>0. 1 \in Stations /\ TRUE \in BOOLEAN
        BY DEF Stations
      <4>1. /\ evtQ' = <<Event(DepotReady[1], requestId, TRUE)>>
            /\ ~driving' /\ cpc' = "depot" /\ base' = 1
        BY <2>1, <3>5, <4>0 DEF Located
      <4>2. Answer(state, n) = DepotReady[1]
        BY <2>3, <3>1 DEF Answer
      <4> QED BY <2>0, <2>3, <3>1, <4>1, <4>2 DEF Waiting
    <3>6. CASE LocateFailed
      <4>1. 1 \in Stations /\ FALSE \in BOOLEAN
        BY DEF Stations
      <4>2. evtQ' = <<Event(DepotReady[1], requestId, FALSE)>>
        BY <2>1, <3>6, <4>1 DEF LocateFailed
      <4> QED BY <2>2, <4>2
    <3> QED BY <3>2, <3>3, <3>4, <3>5, <3>6
  <2>4. CASE state = "DEPOT_WAIT_HOME"
    <3>1. cpc = "home"
      BY <1>4, <2>4 DEF WorkPlaces
    <3>2. HomeDone
      BY <3>1 DEF ChassisNext, AwaitDepot, RouteDone, LocateMoves, StopInMotion, Located,
         LocateFailed, ShiftDone, ShiftFailed, DepotCommand, Parked
    <3>3. PICK ok \in BOOLEAN : link_post("HOME_READY", reqId, ok)
      BY <3>2, SensorAssumption DEF HomeDone
    <3>0. "HOME_READY" \in EventTypes /\ reqId \in Nat
      BY <1>1 DEF EventTypes, ChassisTypeOK
    <3>4. evtQ' = <<Event("HOME_READY", requestId, ok)>>
      BY <1>1, <1>4, <3>0, <3>3, PostIsPosted
    <3>5. CASE ok
      <4>1. Answer(state, n) = "HOME_READY"
        BY <2>4 DEF Answer
      <4>2. ~driving' /\ cpc' = "end"
        BY <3>2 DEF HomeDone
      <4>3. evtQ' = <<Event("HOME_READY", requestId, TRUE)>>
        BY <3>4, <3>5
      <4> QED BY <2>0, <2>4, <4>1, <4>2, <4>3 DEF Waiting
    <3>6. CASE ~ok
      <4>1. evtQ' = <<Event("HOME_READY", requestId, FALSE)>>
        BY <3>4, <3>6
      <4> QED BY <2>2, <4>1
    <3> QED BY <3>5, <3>6
  <2>5. CASE state \notin {"WAIT_DEPOT_1", "DEPOT_WAIT_HOME"}
    <3>1. n \in Stations /\ cpc = "shift" /\ goal = n
      BY <1>2, <1>4, <2>5 DEF WorkPlaces
    <3>2. ShiftDone \/ ShiftFailed
      BY <2>0, <3>1 DEF ChassisNext, AwaitDepot, RouteDone, LocateMoves, StopInMotion,
         Located, LocateFailed, DepotCommand, HomeDone, Parked
    <3>3. CASE ShiftDone
      <4>0. TRUE \in BOOLEAN /\ goal \in Stations
        BY <3>1
      <4>1. /\ evtQ' = <<Event(DepotReady[n], requestId, TRUE)>>
            /\ ~driving' /\ cpc' = "depot" /\ base' = n
        BY <2>1, <3>1, <3>3, <4>0 DEF ShiftDone
      <4>2. Answer(state, n) = DepotReady[n]
        BY <2>5 DEF Answer
      <4> QED BY <2>0, <2>5, <4>1, <4>2 DEF Waiting
    <3>4. CASE ShiftFailed
      <4>1. FALSE \in BOOLEAN /\ goal \in Stations
        BY <3>1
      <4>2. evtQ' = <<Event(DepotReady[goal], requestId, FALSE)>>
        BY <2>1, <3>4, <4>1 DEF ShiftFailed
      <4> QED BY <2>2, <4>2
    <3> QED BY <3>2, <3>3, <3>4
  <2> QED BY <2>3, <2>4, <2>5
<1>5. CASE /\ cmdQ = <<>> /\ evtQ = <<Event(Answer(state, n), requestId, TRUE)>>
           /\ ~driving
           /\ IF state = "DEPOT_WAIT_HOME" THEN cpc = "end" ELSE cpc = "depot" /\ base = n
  <2>1. cpc \in {"end", "depot"} /\ ~TakeCommand
    BY <1>5 DEF TakeCommand
  <2> QED
    BY <2>1 DEF ChassisNext, AwaitDepot, RouteDone, LocateMoves, StopInMotion, Located,
       LocateFailed, ShiftDone, ShiftFailed, DepotCommand, HomeDone, Parked
<1>6. CASE cmdQ = <<>> /\ evtQ # <<>> /\ evtQ[1].id = requestId /\ ~evtQ[1].ok
  <2>1. cmdQ' = <<>> /\ evtQ' # <<>> /\ evtQ'[1] = evtQ[1]
    BY <1>1, <1>6 DEF ChassisStep, Posted
  <2> QED BY <1>6, <2>1 DEF Waiting
<1> QED BY <1>3, <1>4, <1>5, <1>6 DEF Waiting

\* A base that stands is not set in motion unless it is asked.
LEMMA StandingIsQuiet ==
    ASSUME DepotInv, ChassisNext
    PROVE  state \in AskStates \cup RestStates
<1>1. SUFFICES ASSUME state \notin AskStates \cup RestStates PROVE FALSE
  OBVIOUS
<1>2. cmdQ = <<>> /\ cpc \in {"end", "depot"}
  BY <1>1 DEF DepotInv, BaseFits, Standing
<1>3. ~TakeCommand
  BY <1>2 DEF TakeCommand
<1> QED
  BY <1>2, <1>3 DEF ChassisNext, AwaitDepot, RouteDone, LocateMoves, StopInMotion, Located,
     LocateFailed, ShiftDone, ShiftFailed, DepotCommand, HomeDone, Parked

\* At rest the base does not move while the arm still does: what the queue
\* holds for it are STOPs.
LEMMA RestingBaseStands ==
    ASSUME DepotInv, ChassisNext, state \in RestStates, arm # 0
    PROVE  /\ cpc' = "depot" /\ ~driving' /\ base' = base
           /\ \A i \in DOMAIN cmdQ' : cmdQ'[i].type = "STOP"
<1>1. /\ cpc = "depot" /\ ~driving /\ \A i \in DOMAIN cmdQ : cmdQ[i].type = "STOP"
      /\ cmdQ \in Seq(Commands)
  BY DEF DepotInv, BaseFits, ControlInv, QueueTyped
<1>2. DepotCommand
  BY <1>1 DEF ChassisNext, AwaitDepot, RouteDone, LocateMoves, StopInMotion, Located,
     LocateFailed, ShiftDone, ShiftFailed, HomeDone, Parked
<1>3. cmdQ # <<>> /\ cmdQ' = Tail(cmdQ)
  BY <1>2 DEF DepotCommand, TakeCommand
<1>4. NextCommand.type = "STOP"
  BY <1>1, <1>3 DEF NextCommand
<1>5. \A n \in Stations : GoDepot[n] # "STOP"
  BY DEF GoDepot, Stations
<1>6. cmd_default(NextCommand) /\ UNCHANGED <<cpc, base, goal, reqId>>
  BY <1>2, <1>4, <1>5 DEF DepotCommand
<1>7. driving' = FALSE
  BY <1>4, <1>6 DEF cmd_default
<1>8. \A i \in DOMAIN cmdQ' : cmdQ'[i] = cmdQ[i + 1] /\ i + 1 \in DOMAIN cmdQ
  BY <1>1, <1>3
<1> QED BY <1>1, <1>6, <1>7, <1>8

\* The chassis task keeps the invariant of the whole.
LEMMA ChassisKeeps ==
    ASSUME DepotInv, Chassis
    PROVE  DepotInv' /\ RestIsKept
<1>1. /\ ChassisNext /\ ChassisStep
      /\ UNCHANGED <<state, fault, requestId, activeArm, armHome, vis, arm>>
      /\ UNCHANGED <<userQ, stops, got, pc>> /\ UNCHANGED <<side, manifest, block, depot>>
      /\ UNCHANGED <<seen, misread, held>>
  BY ChassisTyped DEF Chassis, loopVars, depotVars, worldVars
<1>2. /\ cmdQ \in Seq(Commands) /\ ControlInv
      /\ flags \subseteq FlagNames /\ flags' \in {flags, flags \cup {"EVENT"}}
      /\ evtQ' \in Seq(EventType) /\ ChassisTypeOK'
  BY <1>1 DEF ChassisStep, Posted, DepotInv, ControlInv, TypeOK, CoreTypeOK, QueueTyped
<1>3. cmdQ' \in Seq(Commands) /\ ~(Len(cmdQ') > Len(cmdQ))
  <2>1. CASE cmdQ' = cmdQ
    BY <1>2, <2>1
  <2>2. CASE cmdQ # <<>> /\ cmdQ' = Tail(cmdQ)
    BY <1>2, <2>2
  <2> QED BY <1>1, <2>1, <2>2 DEF ChassisStep
<1>4. ControlInv'
  <2>1. flags' \subseteq FlagNames
    BY <1>2 DEF FlagNames
  <2>2. CoreTypeOK'
    BY <1>1, <1>2, <2>1 DEF ControlInv, TypeOK, CoreTypeOK
  <2>3. TypeOK' /\ misread' \in Nat
    BY <1>1, <1>2, <2>2 DEF ControlInv, TypeOK
  <2>4. DoneMeansAnswered'
    BY <1>1, <1>2 DEF ControlInv, DoneMeansAnswered, DoneSeen, Answered
  <2>5. SafeRecord(vis)' /\ StopNoted(vis)'
    BY <1>1, <1>2 DEF ControlInv, StopNoted
  <2> QED BY <1>2, <1>3, <2>3, <2>4, <2>5 DEF ControlInv, QueueTyped, EventType
<1>5. Table(manifest)' /\ InSlotOrder(manifest)'
  BY <1>1 DEF DepotInv, Table, InSlotOrder, DrawnFits, Read
<1>6. /\ OkSignalled' = OkSignalled /\ OkSeen' = OkSeen
      /\ "ARM_OK" \in flags' <=> "ARM_OK" \in flags
  BY <1>1, <1>2 DEF OkSignalled, OkSeen
<1>7. ArmFits' /\ HeldFits' /\ SessionFits' /\ StoppingFits'
  <2>1. GroupsOf(state, depot)' = GroupsOf(state, depot)
    BY <1>1
  <2>2. ArmFits'
    BY <1>1, <1>6, <2>1 DEF DepotInv, ArmFits
  <2> QED BY <1>1, <1>6, <2>2 DEF DepotInv, HeldFits, SessionFits, StoppingFits
<1>8. BlockFits(state, block, depot)'
  BY <1>1 DEF DepotInv, BlockFits, mission_block_place_point, EntryPoint
<1>9. state \in AskStates \cup RestStates
  BY <1>1, StandingIsQuiet
<1>10. state \notin BallStates \cup {"DEPOT_WAIT_DIGIT"}
  BY <1>9 DEF AskStates, RestStates, BlockMoveStates, BallStates
<1>11. state \in AskStates => arm = 0
  BY DEF DepotInv, ArmFits, AskStates, RestStates, BlockMoveStates, BlockArmStates,
         DepotArmStates
<1>12. arm # 0 =>
          /\ state \in RestStates /\ cpc' = "depot" /\ ~driving' /\ base' = base
          /\ \A i \in DOMAIN cmdQ' : cmdQ'[i].type = "STOP"
  BY <1>1, <1>9, <1>11, RestingBaseStands
<1>13. BaseFits'
  <2>1. state \in AskStates => Waiting(state, Wanted(state, block, depot))'
    <3>1. SUFFICES ASSUME state \in AskStates
                   PROVE  Waiting(state, Wanted(state, block, depot))'
      OBVIOUS
    <3> DEFINE n == Wanted(state, block, depot)
    <3>2. Waiting(state, n)
      BY <3>1 DEF DepotInv, BaseFits
    <3>3. n' = n
      BY <1>1
    <3> HIDE DEF n
    <3>4. PICK m : m = n
      OBVIOUS
    <3>5. n = Wanted(state, block, depot)
      BY DEF n
    <3>6. Waiting(state, m)'
      BY <1>1, <3>1, <3>2, <3>4, <3>5, WaitingKept
    <3>7. m = n'
      BY <3>3, <3>4
    <3> QED BY <3>6, <3>7 DEF n, Waiting
  <2>2. state \notin AskStates \cup RestStates => Standing(state, depot)'
    BY <1>9
  <2> QED BY <1>1, <1>12, <2>1, <2>2 DEF BaseFits
<1>14. DigitsFit'
  BY <1>1, <1>10 DEF DigitsFit
<1>15. BallsFit(state, depot, manifest)'
  <2>1. ~Fetching(state, depot)
    BY <1>10 DEF Fetching
  <2>2. state \in BlockStages => Fresh(manifest)'
    BY <1>1 DEF DepotInv, BallsFit
  <2>3. ASSUME state \in PlacingStates
        PROVE  /\ StationsFit(state, depot)' /\ Planned(manifest, depot)'
               /\ PlacedFits(state, manifest, depot)' /\ BallFits(state, manifest, depot)'
    <3>1. /\ StationsFit(state, depot) /\ Planned(manifest, depot)
          /\ PlacedFits(state, manifest, depot)
      BY <2>3 DEF DepotInv, BallsFit
    <3>2. StationsFit(state, depot)'
      BY <1>1, <3>1 DEF StationsFit, Visited, OnTheWay, EntryPoint, Fetching, Preparing
    <3>3. Planned(manifest, depot)' /\ PlacedFits(state, manifest, depot)'
      BY <1>1, <3>1 DEF Planned, PlacedFits, Finished, Fetching
    <3>4. BallFits(state, manifest, depot)'
      BY <1>1, <2>1 DEF BallFits, Fetching
    <3> QED BY <3>2, <3>3, <3>4
  <2> QED BY <1>1, <2>2, <2>3 DEF BallsFit
<1>16. misread' <= 1 => RightCell'
  <2>1. CASE arm # 0
    BY <1>1, <1>12, <2>1 DEF DepotInv, RightCell, PlacedCells
  <2>2. CASE arm = 0
    BY <1>1, <2>2 DEF RightCell
  <2> QED BY <2>1, <2>2
<1>17. RestIsKept
  BY <1>1, <1>3 DEF RestIsKept
<1> QED
  BY <1>4, <1>5, <1>7, <1>8, <1>13, <1>14, <1>15, <1>16, <1>17 DEF DepotInv

-----------------------------------------------------------------------------
(* The rest of the robot: camera, arm and user.                            *)

\* What the steps of the robot leave alone.
Still ==
    /\ UNCHANGED <<state, fault, requestId, activeArm, cmdQ, evtQ, got, pc>>
    /\ UNCHANGED <<side, manifest, block, depot, chassisVars>>

\* A step of the robot keeps the parts of the Mission task.
LEMMA StillTyped ==
    ASSUME ControlInv, Still, armHome' \in BOOLEAN, arm' \in {0, arm},
           flags' \subseteq FlagNames, userQ' \in 0..CommandDepth,
           stops' \in 0..StopBudget, seen' \in 0..ScanFault,
           misread' \in 0..Misreads, held' \in BOOLEAN,
           SafeRecord(vis'), vis'.phase = vis.phase, vis'.stopReq = vis.stopReq,
           DoneMeansAnswered'
    PROVE  ControlInv'
<1>1. StopNoted(vis)'
  BY DEF Still, ControlInv, StopNoted
<1>2. CoreTypeOK'
  BY DEF Still, ControlInv, TypeOK, CoreTypeOK, SafeRecord
<1>3. ChassisTypeOK'
  BY DEF Still, chassisVars, ControlInv, TypeOK, ChassisTypeOK
<1>4. misread' \in Nat
  BY MisreadsAssumption
<1>5. TypeOK'
  BY <1>2, <1>3 DEF Still, ControlInv, TypeOK
<1> QED
  BY <1>1, <1>4, <1>5 DEF Still, ControlInv, QueueTyped

\* The digit a camera shows is that of a block, or of the column's sign unless
\* it is taken for another.
LEMMA DigitTyped ==
    ASSUME ControlInv, DigitShown
    PROVE  /\ seen' \in 0..ScanFault /\ misread' \in 0..Misreads
           /\ misread' \in {misread, misread + 1}
           /\ vis.scene = "DEPOT_DIGIT" /\ base # 0 =>
                /\ seen' \in 0..3 /\ Sign \in 0..3
                /\ seen' = Sign \/ misread' = misread + 1
<1>1. /\ side \in Sides /\ base \in {0} \cup Stations /\ misread \in 0..Misreads
      /\ seen \in 0..ScanFault /\ misread \in Nat /\ Misreads \in Nat
  BY MisreadsAssumption DEF ControlInv, TypeOK, ChassisTypeOK
<1>2. base # 0 => Sign \in 0..3
  BY <1>1, SignsAssumption DEF Sign
<1>3. SignsInView \subseteq 1..3
  BY <1>1, <1>2 DEF SignsInView, Sign
<1>4. base # 0 => SignsInView \subseteq {Sign}
  BY DEF SignsInView, Sign
<1>5. CASE vis.scene = "DEPOT_DIGIT" /\ seen' \in SignsInView /\ UNCHANGED misread
  BY <1>1, <1>2, <1>3, <1>4, <1>5 DEF ScanFault
<1>6. CASE /\ vis.scene = "DEPOT_DIGIT" /\ misread < Misreads /\ misread' = misread + 1
           /\ seen' \in UNION {Lookalikes[d] : d \in SignsInView}
  <2>1. seen' \in 1..3
    BY <1>3, <1>6, MisreadsAssumption
  <2> QED BY <1>1, <1>2, <1>6, <2>1 DEF ScanFault
<1>7. CASE /\ vis.scene = "BLOCK_DIGIT" /\ UNCHANGED misread
           /\ seen' \in {NoValid} \cup 1..3 \/ seen' = ScanFault
  BY <1>1, <1>7 DEF ScanFault, NoValid
<1> QED BY <1>5, <1>6, <1>7 DEF DigitShown

\* A reply of the camera is put into the mailbox.
LEMMA PublishKeeps ==
    ASSUME DepotInv, PublishReplyHere, UNCHANGED <<depotVars, chassisVars>>
    PROVE  DepotInv' /\ RestIsKept
<1>1. PICK m \in answers :
        /\ vis' = [vis EXCEPT !.mail = m, !.pending = TRUE]
        /\ \/ m = "EVENT" /\ DigitShown
           \/ m # "EVENT" /\ seen' = 0 /\ UNCHANGED misread
  BY DEF PublishReplyHere
<1>2. /\ vis.inflight /\ ~vis.pending
      /\ UNCHANGED <<state, fault, requestId, activeArm, armHome, arm, cmdQ, evtQ, flags>>
      /\ UNCHANGED <<userQ, stops, got, pc, held, side, manifest, block, depot, chassisVars>>
  BY DEF PublishReplyHere, loopVars, depotVars
<1>3. /\ SafeRecord(vis) /\ StopNoted(vis) /\ ControlInv
      /\ "VISION_DONE" \notin flags /\ ~DoneSeen
  BY <1>2 DEF DepotInv, ControlInv, DoneMeansAnswered, Answered
<1>4. m \in Mails
  BY DEF answers, replies, Mails
<1>5. /\ SafeRecord(vis') /\ vis'.phase = vis.phase /\ vis'.stopReq = vis.stopReq
      /\ vis'.scene = vis.scene /\ vis'.pending /\ vis'.mail = m
  <2>1. vis \in VisionType
    BY <1>3 DEF SafeRecord
  <2>2. vis' = [[vis EXCEPT !.mail = m] EXCEPT !.pending = TRUE]
    BY <1>1, <2>1 DEF VisionType
  <2> QED BY <1>2, <1>3, <1>4, <2>1, <2>2 DEF SafeRecord, VisionType, Busy
<1>6. seen' \in 0..ScanFault /\ misread' \in 0..Misreads /\ misread' \in {misread, misread + 1}
  BY <1>1, <1>3, DigitTyped DEF ControlInv, TypeOK, ScanFault
<1>7. DoneMeansAnswered'
  BY <1>2, <1>3 DEF DoneMeansAnswered, DoneSeen
<1>8. Still
  BY <1>2 DEF Still
<1>9. ControlInv'
  BY <1>2, <1>3, <1>5, <1>6, <1>7, <1>8, StillTyped DEF ControlInv, TypeOK, CoreTypeOK
<1>10. misread \in Nat /\ misread' \in Nat /\ misread' >= misread
  BY <1>3, <1>6 DEF ControlInv
<1>11. SessionFits' /\ StoppingFits'
  BY <1>2, <1>5 DEF DepotInv, SessionFits, StoppingFits
<1>12. DigitsFit'
  <2>1. SUFFICES ASSUME state = "DEPOT_WAIT_DIGIT" PROVE DigitsFit'
    BY <1>2 DEF DigitsFit
  <2>2. /\ vis.phase \in {"STARTING", "LISTENING", "ACKING"}
        /\ vis.scene = "DEPOT_DIGIT"
    BY <1>2, <1>3, <2>1 DEF DepotInv, SessionFits, RestStates, SafeRecord, Busy
  <2>3. base # 0
    <3>1. OnTheWay(depot.position)
      BY <2>1 DEF DepotInv, BallsFit, PlacingStates, StationStates, StationsFit
    <3>2. base = depot.position
      BY <2>1 DEF DepotInv, BaseFits, Standing, AskStates, RestStates, BlockMoveStates
    <3> QED BY <3>1, <3>2 DEF OnTheWay
  <2>4. /\ Shown \in 0..3
        /\ misread = 0 => depot.first \in {0, Sign} /\ Shown \in {0, Sign}
        /\ misread <= 1 => depot.first \in {0, Sign} \/ Shown \in {0, Sign}
    BY <2>1 DEF DepotInv, DigitsFit
  <2>5. Sign' = Sign
    BY <1>2 DEF Sign, chassisVars
  <2>6. CASE vis.phase = "ACKING"
    <3>1. Shown' = Shown
      BY <1>2, <1>5, <2>6 DEF Shown
    <3> QED BY <1>2, <1>10, <2>1, <2>4, <2>5, <3>1, <1>6 DEF DigitsFit
  <2>7. CASE vis.phase # "ACKING" /\ (m # "EVENT" \/ vis.phase = "STARTING")
    <3>1. Shown' = 0 /\ Shown = 0
      BY <1>2, <1>5, <2>7 DEF Shown, EventPending
    <3> QED BY <1>2, <1>10, <2>1, <2>4, <2>5, <3>1, <1>6 DEF DigitsFit
  <2>8. CASE vis.phase = "LISTENING" /\ m = "EVENT"
    <3>1. Shown' = seen' /\ Shown = 0
      BY <1>2, <1>5, <2>8 DEF Shown, EventPending
    <3>2. seen' \in 0..3 /\ (seen' = Sign \/ misread' = misread + 1)
      BY <1>1, <1>3, <2>2, <2>3, <2>8, DigitTyped
    <3> QED BY <1>2, <1>10, <2>1, <2>4, <2>5, <3>1, <3>2, <1>6 DEF DigitsFit
  <2> QED BY <2>2, <2>6, <2>7, <2>8
<1>13. /\ OkSignalled' => OkSignalled
       /\ ~("ARM_OK" \in flags' /\ OkSeen')
       /\ pc' = "turning" => arm = 0
  BY <1>2 DEF OkSignalled, OkSeen, DepotInv, ArmFits
<1> QED
  BY <1>2, <1>9, <1>10, <1>11, <1>12, <1>13, NoResults, SameKeeps

\* The three steps that change nothing but the flags, the mailbox or "home".
LEMMA QuietKeeps ==
    ASSUME DepotInv, ArmNudged \/ SubmitStop \/ ReleaseTransfer,
           UNCHANGED <<worldVars, depotVars, chassisVars>>
    PROVE  DepotInv' /\ RestIsKept
<1>1. /\ UNCHANGED <<state, fault, requestId, activeArm, arm, cmdQ, evtQ, got, pc>>
      /\ UNCHANGED <<seen, misread, held, side, manifest, block, depot, chassisVars>>
  BY DEF ArmNudged, SubmitStop, ReleaseTransfer, ctxVars, loopVars, worldVars, depotVars
<1>2. SafeRecord(vis) /\ StopNoted(vis) /\ DoneMeansAnswered /\ ControlInv
  BY DEF DepotInv, ControlInv
<1>3. /\ armHome' \in {armHome, FALSE}
      /\ flags' \in {flags, flags \cup {"COMMAND"}, flags \cup {"VISION_DONE"}}
      /\ userQ' \in 0..CommandDepth /\ stops' \in 0..StopBudget
  <2>1. CASE ArmNudged \/ ReleaseTransfer
    BY <1>2, <2>1 DEF ArmNudged, ReleaseTransfer, ControlInv, TypeOK, CoreTypeOK, loopVars
  <2>2. CASE SubmitStop
    <3>1. userQ \in Nat /\ stops \in Nat /\ armHome' = armHome
      BY <1>2, <2>2 DEF ControlInv, TypeOK, CoreTypeOK, SubmitStop, ctxVars
    <3> QED BY <2>2, <3>1, BudgetAssumption DEF SubmitStop
  <2> QED BY <2>1, <2>2
<1>4. /\ SafeRecord(vis') /\ vis'.phase = vis.phase /\ vis'.stopReq = vis.stopReq
      /\ vis'.scene = vis.scene /\ vis'.pending = vis.pending /\ vis'.mail = vis.mail
      /\ DoneMeansAnswered'
  <2>1. CASE ArmNudged \/ SubmitStop
    <3>1. vis' = vis /\ flags' \in {flags, flags \cup {"COMMAND"}}
      BY <2>1 DEF ArmNudged, SubmitStop, ctxVars
    <3> QED BY <1>1, <1>2, <3>1 DEF DoneMeansAnswered, DoneSeen, Answered
  <2>2. CASE ReleaseTransfer
    <3>1. /\ vis.inflight /\ vis.pending /\ flags' = flags \cup {"VISION_DONE"}
          /\ vis' = [vis EXCEPT !.inflight = FALSE, !.io = "none"]
      BY <2>2 DEF ReleaseTransfer
    <3>2. vis \in VisionType
      BY <1>2 DEF SafeRecord
    <3>3. /\ SafeRecord(vis') /\ vis'.phase = vis.phase /\ vis'.stopReq = vis.stopReq
          /\ Answered(vis')
          /\ vis'.scene = vis.scene /\ vis'.pending = vis.pending /\ vis'.mail = vis.mail
      BY <1>2, <3>1, <3>2 DEF SafeRecord, VisionType, Busy, Answered, Frames
    <3>4. DoneMeansAnswered'
      BY <1>1, <1>2, <3>1, <3>3 DEF DoneMeansAnswered, DoneSeen, Answered
    <3> QED BY <3>3, <3>4
  <2> QED BY <2>1, <2>2
<1>5. ControlInv'
  <2>1. Still
    BY <1>1 DEF Still
  <2>2. /\ flags' \subseteq FlagNames /\ armHome' \in BOOLEAN /\ seen' \in 0..ScanFault
        /\ misread' \in 0..Misreads /\ held' \in BOOLEAN
    BY <1>1, <1>2, <1>3 DEF ControlInv, TypeOK, CoreTypeOK, FlagNames
  <2> QED BY <1>1, <1>2, <1>3, <1>4, <2>1, <2>2, StillTyped
<1>6. SessionFits' /\ StoppingFits' /\ DigitsFit'
  <2>1. Shown' = Shown /\ Sign' = Sign
    BY <1>1, <1>4 DEF Shown, EventPending, Sign, chassisVars
  <2> QED BY <1>1, <1>4, <2>1 DEF DepotInv, SessionFits, StoppingFits, DigitsFit
<1>7. /\ OkSignalled' => OkSignalled
      /\ ~("ARM_OK" \in flags' /\ OkSeen')
      /\ pc' = "turning" => arm = 0
      /\ misread' >= misread
  BY <1>1, <1>2, <1>3 DEF OkSignalled, OkSeen, DepotInv, ArmFits, ControlInv
<1>8. armHome' => armHome
  BY <1>3
<1> QED
  BY <1>1, <1>5, <1>6, <1>7, <1>8, NoResults, SameKeeps

\* A report of the arm: a group ends well, or it fails and may go on.
ArmReport ==
    /\ Still /\ UNCHANGED <<vis, userQ, stops, seen, misread>>
    /\ arm # 0 /\ armHome' \in BOOLEAN /\ held' \in BOOLEAN
    /\ \/ /\ arm' = 0 /\ flags' \in {flags, flags \cup {"ARM_OK"}}
          /\ "ARM_OK" \in flags' => arm = activeArm
          /\ held' = IF arm \in {31, 33, 35} THEN TRUE
                     ELSE IF arm \in {32, 34, 36} THEN FALSE ELSE held
       \/ /\ arm' \in {0, arm} /\ ~armHome' /\ held' = held
          /\ flags' \in {flags, flags \cup {"ARM_FAIL"}}

\* A report keeps what is known of arm and gripper.
LEMMA ReportKeeps ==
    ASSUME DepotInv, ArmReport
    PROVE  DepotInv' /\ RestIsKept
<1>1. /\ UNCHANGED <<state, fault, requestId, activeArm, cmdQ, evtQ, got, pc>>
      /\ UNCHANGED <<side, manifest, block, depot, vis, seen, misread>>
      /\ UNCHANGED <<cpc, driving, base, goal, reqId>>
  BY DEF ArmReport, Still, chassisVars
<1>2. /\ ControlInv /\ arm # 0 /\ "ARM_OK" \notin flags /\ ~OkSeen /\ ~armHome
      /\ pc # "turning"
  BY DEF DepotInv, ArmFits, OkSignalled, ArmReport
<1>3. arm' \in {0, arm} /\ flags' \in {flags, flags \cup {"ARM_OK"}, flags \cup {"ARM_FAIL"}}
  BY DEF ArmReport
<1>4. ControlInv'
  <2>1. flags' \subseteq FlagNames
    BY <1>2, <1>3 DEF ControlInv, TypeOK, CoreTypeOK, FlagNames
  <2>2. DoneMeansAnswered'
    BY <1>1, <1>2, <1>3 DEF ControlInv, DoneMeansAnswered, DoneSeen, Answered
  <2> QED
    BY <1>1, <1>2, <1>3, <2>1, <2>2, StillTyped
    DEF ArmReport, ControlInv, TypeOK, CoreTypeOK
<1>5. Table(manifest)' /\ InSlotOrder(manifest)'
  BY <1>1 DEF DepotInv, Table, InSlotOrder, DrawnFits, Read
<1>6. BaseFits'
  <2>1. Wanted(state, block, depot)' = Wanted(state, block, depot)
    BY <1>1
  <2>2. state \in AskStates => Waiting(state, Wanted(state, block, depot))'
    BY <1>1 DEF DepotInv, BaseFits, Waiting
  <2>3. state \notin AskStates \cup RestStates => Standing(state, depot)'
    BY <1>1 DEF DepotInv, BaseFits, Standing
  <2> QED BY <1>1, <1>2, <2>2, <2>3 DEF DepotInv, BaseFits
<1>7. state \notin RestStates =>
          /\ state \in BlockArmStates \cup DepotArmStates
          /\ activeArm \in GroupsOf(state, depot) /\ arm = activeArm
  BY <1>2 DEF DepotInv, ArmFits
<1>8. ~OkSeen' /\ (OkSignalled' => "ARM_OK" \in flags')
  BY <1>1, <1>2 DEF OkSeen, OkSignalled
<1>9. "ARM_OK" \in flags' =>
        /\ arm' = 0
        /\ held' = IF arm \in {31, 33, 35} THEN TRUE
                   ELSE IF arm \in {32, 34, 36} THEN FALSE ELSE held
  <2>1. SUFFICES ASSUME "ARM_OK" \in flags'
                 PROVE  /\ arm' = 0
                        /\ held' = IF arm \in {31, 33, 35} THEN TRUE
                                   ELSE IF arm \in {32, 34, 36} THEN FALSE ELSE held
    OBVIOUS
  <2>2. flags' \notin {flags, flags \cup {"ARM_FAIL"}}
    BY <1>2, <2>1
  <2> QED BY <2>2, Zenon DEF ArmReport
<1>10. ArmFits'
  <2>1. armHome' => arm' = 0
    BY DEF ArmReport
  <2>2. GroupsOf(state, depot)' = GroupsOf(state, depot)
    BY <1>1
  <2>3. state \in RestStates => arm' \notin BlockGroups
    BY <1>3 DEF DepotInv, ArmFits, BlockGroups
  <2> QED BY <1>1, <1>2, <1>3, <1>7, <1>8, <1>9, <2>1, <2>2, <2>3 DEF ArmFits
<1>11. HeldFits'
  <2>0. SUFFICES ASSUME state \notin RestStates PROVE HeldFits'
    BY <1>1 DEF HeldFits, RestStates
  <2>1. /\ arm \in {31, 33, 35} <=> state = "BLOCK_WAIT_GRASP"
        /\ arm \in {32, 34, 36} <=> state = "BLOCK_WAIT_PLACE"
        /\ state \notin {"BLOCK_WAIT_POSITION", "BLOCK_SETTLE", "BLOCK_WAIT_DIGIT",
                         "BLOCK_WAIT_D4", "WAIT_DEPOT_1", "BLOCK_RETURN_DEPOT"}
    BY <1>7, <2>0 DEF GroupsOf, PlaceGroup, BlockArmStates, DepotArmStates
  <2>2. CASE state = "BLOCK_WAIT_GRASP"
    <3>1. /\ block.digit # 0 /\ ~held
      BY <1>2, <2>2 DEF DepotInv, HeldFits
    <3>2. arm' # 0 => ~held'
      BY <2>1, <2>2, <3>1 DEF ArmReport
    <3>3. OkSignalled' => held'
      BY <1>8, <1>9, <2>1, <2>2
    <3> QED BY <1>1, <2>2, <3>1, <3>2, <3>3 DEF HeldFits
  <2>3. CASE state = "BLOCK_WAIT_PLACE"
    <3>1. held
      BY <1>2, <2>3 DEF DepotInv, HeldFits
    <3>2. arm' # 0 => held'
      BY <2>1, <2>3, <3>1 DEF ArmReport
    <3>3. OkSignalled' => ~held'
      BY <1>8, <1>9, <2>1, <2>3
    <3> QED BY <1>1, <2>3, <3>1, <3>2, <3>3 DEF HeldFits
  <2>4. CASE state \notin {"BLOCK_WAIT_GRASP", "BLOCK_WAIT_PLACE"}
    <3>1. held' = held
      BY <2>1, <2>4 DEF ArmReport
    <3> QED BY <1>1, <2>1, <2>4, <3>1 DEF DepotInv, HeldFits
  <2> QED BY <2>2, <2>3, <2>4
<1>12. SessionFits' /\ StoppingFits' /\ DigitsFit'
  BY <1>1 DEF DepotInv, SessionFits, StoppingFits, DigitsFit, Shown, EventPending, Sign
<1>13. BlockFits(state, block, depot)' /\ BallsFit(state, depot, manifest)'
  <2>1. BlockFits(state, block, depot) /\ BallsFit(state, depot, manifest)
    BY DEF DepotInv
  <2> QED BY <1>1, <2>1, DataKept
<1>14. misread' <= 1 => RightCell'
  <2>1. CASE arm' = arm
    BY <1>1, <2>1 DEF DepotInv, RightCell, PlacedCells
  <2>2. CASE arm' = 0
    BY <2>2 DEF RightCell
  <2> QED BY <1>3, <2>1, <2>2
<1>15. RestIsKept
  <2>1. ~(Len(cmdQ') > Len(cmdQ))
    BY <1>1, <1>2 DEF ControlInv, QueueTyped
  <2> QED BY <1>1, <1>3, <2>1 DEF RestIsKept
<1> QED
  BY <1>4, <1>5, <1>6, <1>10, <1>11, <1>12, <1>13, <1>14, <1>15 DEF DepotInv

\* The two actions of the model are such reports.
LEMMA ReportIsReport ==
    ASSUME DepotInv, UNCHANGED <<depotVars, chassisVars>>,
           GroupCompleted \/ (ArmFailed /\ UNCHANGED worldVars)
    PROVE  ArmReport
<1>1. Still /\ UNCHANGED <<vis, userQ, stops, seen, misread>> /\ arm # 0
  BY DEF GroupCompleted, ArmCompleted, ArmFailed, Still, loopVars, depotVars, worldVars
<1>2. "ARM_OK" \notin flags /\ held \in BOOLEAN /\ armHome \in BOOLEAN
  BY <1>1 DEF DepotInv, ArmFits, OkSignalled, ControlInv, TypeOK, CoreTypeOK
<1>3. CASE GroupCompleted
  <2>1. /\ arm' = 0 /\ flags' \in {flags, flags \cup {"ARM_OK"}}
        /\ "ARM_OK" \in flags' => arm = activeArm
    BY <1>2, <1>3 DEF GroupCompleted, ArmCompleted
  <2>2. armHome' \in BOOLEAN
    BY <1>2, <1>3 DEF GroupCompleted, ArmCompleted
  <2>3. /\ held' \in BOOLEAN
        /\ held' = IF arm \in {31, 33, 35} THEN TRUE
                   ELSE IF arm \in {32, 34, 36} THEN FALSE ELSE held
    BY <1>2, <1>3 DEF GroupCompleted
  <2> QED BY <1>1, <2>1, <2>2, <2>3 DEF ArmReport
<1>4. CASE ArmFailed /\ UNCHANGED worldVars
  <2>1. /\ arm' \in {0, arm} /\ armHome' = FALSE /\ held' = held
        /\ flags' \in {flags, flags \cup {"ARM_FAIL"}}
    BY <1>4 DEF ArmFailed, worldVars
  <2> QED BY <1>1, <1>2, <2>1 DEF ArmReport
<1> QED BY <1>3, <1>4

\* The rest of the robot keeps the invariant.
LEMMA WorldKeeps ==
    ASSUME DepotInv, World
    PROVE  DepotInv' /\ RestIsKept
<1>1. UNCHANGED <<depotVars, chassisVars>>
  BY DEF World
<1>2. CASE PublishReplyHere
  BY <1>1, <1>2, PublishKeeps
<1>3. CASE GroupCompleted \/ (ArmFailed /\ UNCHANGED worldVars)
  BY <1>1, <1>3, ReportIsReport, ReportKeeps
<1>4. CASE ArmNudged \/ ((SubmitStop \/ ReleaseTransfer) /\ UNCHANGED worldVars)
  <2>1. UNCHANGED worldVars
    BY <1>4 DEF ArmNudged
  <2> QED BY <1>1, <1>4, <2>1, QuietKeeps
<1> QED BY <1>2, <1>3, <1>4 DEF World

-----------------------------------------------------------------------------
(* The theorems.                                                           *)

\* The Mission task keeps the invariant.
LEMMA MissionKeeps ==
    ASSUME DepotInv, Mission
    PROVE  DepotInv' /\ RestIsKept
<1>1. CASE HandleCommand /\ UNCHANGED <<depotVars, worldVars, chassisVars>>
  <2>1. /\ pc = "commands" /\ userQ > 0 /\ userQ' = userQ - 1 /\ mission_handle_command
        /\ UNCHANGED <<evtQ, flags, stops, got, pc>>
    BY <1>1 DEF HandleCommand
  <2>2. userQ' \in 0..CommandDepth
    BY <2>1, BudgetAssumption DEF DepotInv, ControlInv, TypeOK, CoreTypeOK
  <2> QED BY <1>1, <2>1, <2>2, CommandKeeps
<1>2. CASE TurnSeesStop
  <2>1. /\ pc = "turning" /\ userQ > 0 /\ userQ' = userQ - 1 /\ mission_handle_command
        /\ UNCHANGED <<evtQ, flags, stops, got, pc, depotVars, worldVars, chassisVars>>
    BY <1>2 DEF TurnSeesStop
  <2>2. userQ' \in 0..CommandDepth
    BY <2>1, BudgetAssumption DEF DepotInv, ControlInv, TypeOK, CoreTypeOK
  <2> QED BY <2>1, <2>2, CommandKeeps
<1>3. CASE LoopStep
  BY <1>3, LoopKeeps
<1>4. CASE HandleChassis \/ ArmFail \/ ArmOk \/ HandleVision
  BY <1>4, HandleChassisKeeps, ArmFailKeeps, ArmOkKeeps, HandleVisionKeeps
<1>5. CASE PollSession \/ AckProcessed \/ TimeOut \/ Settled
  BY <1>5, PollSessionKeeps, AckProcessedKeeps, TimeOutKeeps, SettledKeeps
<1>6. CASE SlotIsThere \/ TurnDone \/ TurnFailed
  BY <1>6, SlotIsThereKeeps, TurnDoneKeeps, TurnFailedKeeps
<1> QED BY <1>1, <1>2, <1>3, <1>4, <1>5, <1>6 DEF Mission, LoopStep

\* So does a step that changes nothing.
LEMMA StutterKeeps ==
    ASSUME DepotInv, UNCHANGED vars
    PROVE  DepotInv'
<1>1. /\ UNCHANGED <<state, fault, requestId, activeArm, armHome, vis, arm, cmdQ>>
      /\ UNCHANGED <<evtQ, flags, userQ, stops, got, pc, side, manifest, block, depot>>
      /\ UNCHANGED <<seen, misread, held, cpc, driving, base, goal, reqId>>
  BY DEF vars, ctxVars, loopVars, depotVars, worldVars, chassisVars
<1>2. ControlInv'
  BY <1>1 DEF DepotInv, ControlInv, TypeOK, CoreTypeOK, ChassisTypeOK, QueueTyped,
     StopNoted, DoneMeansAnswered, DoneSeen, Answered
<1>3. /\ OkSignalled' => OkSignalled
      /\ ~("ARM_OK" \in flags' /\ OkSeen')
      /\ pc' = "turning" => arm = 0
      /\ misread' >= misread
  BY <1>1 DEF OkSignalled, OkSeen, DepotInv, ArmFits, ControlInv
<1>4. SessionFits' /\ StoppingFits' /\ DigitsFit'
  BY <1>1 DEF DepotInv, SessionFits, StoppingFits, DigitsFit, Shown, EventPending, Sign
<1>5. UNCHANGED <<block, depot>> /\ UNCHANGED chassisVars
  BY <1>1 DEF chassisVars
<1>6. OnlyResults
  BY <1>5, NoResults
<1> QED BY <1>1, <1>2, <1>3, <1>4, <1>5, <1>6, SameKeeps

\* Every step of the model keeps the invariant, and keeps a run at rest there.
LEMMA NextKeeps ==
    ASSUME DepotInv, Next
    PROVE  DepotInv' /\ (RestIsKept \/ UNCHANGED vars)
<1>1. CASE Mission
  BY <1>1, MissionKeeps
<1>2. CASE Chassis
  BY <1>2, ChassisKeeps
<1>3. CASE World
  BY <1>3, WorldKeeps
<1>4. CASE UNCHANGED vars
  BY <1>4, StutterKeeps
<1> QED BY <1>1, <1>2, <1>3, <1>4 DEF Next, Over

\* The table the depot is entered with: one fresh record per ball, in the slots
\* in which the balls were stored.
LEMMA StoredFits ==
    ASSUME NEW s \in Sides, NEW load \in Loads[s]
    PROVE  /\ Table(Stored(load)) /\ InSlotOrder(Stored(load)) /\ Fresh(Stored(load))
           /\ Len(load) \in 0..Capacity
<1>1. load \in Seq(Cells \cup {NoCell}) /\ Len(load) <= Capacity /\ Len(load) \in Nat
  BY LoadsAssumption
<1> DEFINE m == Stored(load)
<1>2. /\ m = [i \in 1..Len(load) |-> Appended(i - 1, load[i])]
      /\ \A i \in 1..Len(load) : load[i] \in Cells \cup {NoCell}
  BY <1>1 DEF Stored
<1>3. ASSUME NEW i \in 1..Len(load)
      PROVE  /\ m[i] \in RecordType /\ m[i].slot = i - 1 /\ m[i].fallback = NoCell
             /\ m[i].state # "PLACED" /\ m[i].cell = load[i]
             /\ m[i].state = "READ_FAILED" <=> m[i].cell = NoCell
  <2>1. m[i] = Appended(i - 1, load[i]) /\ load[i] \in Cells \cup {NoCell}
    BY <1>2
  <2>2. i - 1 \in 0..SlotCount-1
    BY <1>1 DEF Capacity, SlotCount
  <2> HIDE DEF m
  <2>3. m[i] \in RecordType
    BY <2>1, <2>2 DEF Appended, RecordType
  <2> QED BY <2>1, <2>3 DEF Appended
<1>4. m \in Seq(RecordType) /\ Len(m) = Len(load) /\ DOMAIN m = 1..Len(load)
  <2>1. m \in [1..Len(load) -> RecordType]
    BY <1>2, <1>3
  <2> HIDE DEF m
  <2> QED BY <1>1, <2>1
<1> HIDE DEF m
<1>5. Table(m) /\ InSlotOrder(m) /\ Fresh(m)
  BY <1>1, <1>3, <1>4 DEF Table, DrawnFits, InSlotOrder, Fresh
<1>6. Len(load) \in 0..Capacity
  <2> DEFINE n == Len(load)
  <2>1. n \in Nat /\ n <= Capacity
    BY <1>1
  <2> HIDE DEF n
  <2>2. n \in 0..Capacity
    BY <2>1 DEF Capacity
  <2> QED BY <2>2 DEF n
<1>7. m = Stored(load)
  BY DEF m
<1> QED BY <1>5, <1>6, <1>7

\* The run enters the depot with nothing wrong.
LEMMA InitFits == DepotInit => DepotInv
<1> SUFFICES ASSUME DepotInit PROVE DepotInv
  OBVIOUS
<1>1. /\ state = "WAIT_DEPOT_1" /\ fault = "NONE" /\ requestId = FirstId
      /\ activeArm = 10 /\ armHome = TRUE /\ arm = 0 /\ vis = IdleVision
      /\ cmdQ = <<Command("GO_DEPOT_1", FirstId)>>
      /\ userQ = 0 /\ stops = 0 /\ got = {} /\ pc = "wait"
      /\ side \in Sides /\ block = NoBlock
      /\ seen = 0 /\ misread = 0 /\ held = FALSE
      /\ evtQ = <<>> /\ flags = {} /\ ChassisInit
  BY DEF DepotInit, LinkInit
<1>2. PICK load \in Loads[side] :
         /\ manifest = Stored(load)
         /\ depot = [position |-> 0, slot |-> Len(load), target |-> 0,
                     preparing |-> FALSE, abnormal |-> {}, used |-> {},
                     first |-> 0, digit |-> 0, column |-> 0, sequence |-> 0,
                     row |-> 0]
  BY DEF DepotInit
<1>3. Table(manifest) /\ InSlotOrder(manifest) /\ Fresh(manifest)
      /\ Len(load) \in 0..Capacity
  BY <1>1, <1>2, StoredFits
<1>4. depot \in DepotType
  <2>1. Len(load) \in 0..SlotCount-1
    BY <1>3 DEF Capacity, SlotCount
  <2>2. 0 \in 0..SlotCount-1 /\ 0 \in 0..Capacity
    BY DEF Capacity, SlotCount
  <2> QED BY <1>2, <2>1, <2>2 DEF DepotType
<1>5. block \in BlockType /\ ~block.digit # 0
  BY <1>1 DEF NoBlock, BlockType, NoResult
<1>6. SafeRecord(vis) /\ StopNoted(vis) /\ vis.phase = "IDLE" /\ ~vis.stopReq /\ ~vis.pending
  BY <1>1 DEF IdleVision, SafeRecord, StopNoted, VisionType, Phases, Scenes, Frames,
     Mails, Busy
<1>7. CoreTypeOK
  BY <1>1, <1>6, FirstIdAssumption, BudgetAssumption
  DEF CoreTypeOK, SafeRecord, Faults, Groups, FlagNames, LoopStages
<1>8. ChassisTypeOK
  <2>1. cpc = "await" /\ base = 0 /\ goal = 1 /\ reqId = 0
    BY <1>1 DEF ChassisInit
  <2>2. driving \in BOOLEAN
    BY <1>1, Zenon DEF ChassisInit
  <2>3. base \in {0} \cup Stations /\ goal \in Stations /\ reqId \in Nat
    BY <2>1 DEF Stations
  <2> QED BY <2>1, <2>2, <2>3 DEF ChassisTypeOK
<1>9. TypeOK
  <2>1. \A i \in DOMAIN manifest : manifest[i] \in RecordType
    BY <1>3 DEF Table
  <2>2. misread \in 0..Misreads /\ seen \in 0..ScanFault
    BY <1>1, MisreadsAssumption DEF ScanFault
  <2>3. held \in BOOLEAN
    BY <1>1, Zenon
  <2> QED BY <1>1, <1>4, <1>5, <1>7, <1>8, <2>1, <2>2, <2>3 DEF TypeOK, DepotStates
<1>10. QueueTyped
  <2>1. Command("GO_DEPOT_1", FirstId) \in Commands
    BY FirstIdAssumption DEF Command, Commands, CommandTypes
  <2> QED BY <1>1, <2>1 DEF QueueTyped
<1>11. DoneMeansAnswered
  BY <1>1 DEF DoneMeansAnswered, DoneSeen
<1>12. ControlInv
  BY <1>1, <1>6, <1>9, <1>10, <1>11 DEF ControlInv
<1>13. BaseFits
  <2>1. Wanted(state, block, depot) = 1
    BY <1>1 DEF Wanted, BlockMoveStates
  <2>2. Order("WAIT_DEPOT_1", 1) = "GO_DEPOT_1" /\ IdlePlace("WAIT_DEPOT_1") = "await"
    BY DEF Order, GoDepot, IdlePlace
  <2>3. Waiting(state, 1)
    BY <1>1, <2>2 DEF Waiting, ChassisInit
  <2> QED BY <1>1, <2>1, <2>3 DEF BaseFits, AskStates, RestStates
<1>14. ArmFits /\ SessionFits /\ StoppingFits /\ DigitsFit /\ HeldFits
  BY <1>1, <1>6 DEF ArmFits, OkSignalled, OkSeen, RestStates, SessionFits, StoppingFits,
     DigitsFit, HeldFits
<1>15. BlockFits(state, block, depot)
  BY <1>1 DEF BlockFits, BlockStates
<1>16. BallsFit(state, depot, manifest)
  BY <1>1, <1>3 DEF BallsFit, PlacingStates, BallStates, StationStates, LastStates
<1>17. RightCell
  BY <1>1 DEF RightCell
<1> QED
  BY <1>3, <1>12, <1>13, <1>14, <1>15, <1>16, <1>17 DEF DepotInv

\* The parts of DepotInv describe every reachable state of the depot: where the
\* base is, what the arm and the gripper do, what the camera showed and which
\* cell every ball belongs to.
THEOREM DepotIsConsistent == Spec => []DepotInv
<1>1. DepotInit => DepotInv
  BY InitFits
<1>2. DepotInv /\ [Next]_vars => DepotInv'
  <2>1. DepotInv /\ UNCHANGED vars => DepotInv'
    BY StutterKeeps
  <2> QED BY <2>1, NextKeeps
<1> QED BY <1>1, <1>2, PTL DEF Spec

\* Every variable keeps its type in the depot: no counter of stages, steps or
\* slots leaves its range, and no record of the table is half written.
THEOREM DepotTypes == Spec => []TypeOK
<1>1. DepotInv => TypeOK
  BY DEF DepotInv, ControlInv
<1> QED BY <1>1, DepotIsConsistent, PTL

\* The arm reaches into the depot only while the base stands still, however
\* answers, arm reports, STOPs and faults interleave.
THEOREM ArmWaitsForTheBase == Spec => []ArmMovesOnlyWhenParked
<1>1. DepotInv => ArmMovesOnlyWhenParked
  <2> SUFFICES ASSUME DepotInv, arm # 0 PROVE ~driving
    BY DEF ArmMovesOnlyWhenParked
  <2>1. CASE state \in RestStates
    BY <2>1 DEF DepotInv, BaseFits
  <2>2. CASE state \notin RestStates
    <3>1. state \in BlockArmStates \cup DepotArmStates
      BY <2>2 DEF DepotInv, ArmFits
    <3>2. state \notin AskStates
      BY <3>1 DEF BlockArmStates, DepotArmStates, AskStates, BlockMoveStates
    <3> QED BY <2>2, <3>2 DEF DepotInv, BaseFits, Standing
  <2> QED BY <2>1, <2>2
<1> QED BY <1>1, DepotIsConsistent, PTL

\* The turntable turns only while no action group runs.
THEOREM TurntableWaitsForTheArm == Spec => []TurnClearOfArm
<1>1. DepotInv => TurnClearOfArm
  BY DEF DepotInv, ArmFits, TurnClearOfArm
<1> QED BY <1>1, DepotIsConsistent, PTL

\* Every digit is looked for at the station Mission believes it is at, with base
\* and arm at rest.
THEOREM DigitsAreReadInPlace == Spec => []LooksAtTheRightPlace
<1>1. DepotInv => LooksAtTheRightPlace
  <2> SUFFICES ASSUME DepotInv, state \in {"BLOCK_WAIT_DIGIT", "DEPOT_WAIT_DIGIT"}
               PROVE  ~driving /\ base = depot.position /\ arm = 0
    BY DEF LooksAtTheRightPlace
  <2>1. ~driving /\ base = depot.position
    BY DEF DepotInv, BaseFits, Standing, AskStates, RestStates, BlockMoveStates
  <2>2. arm = 0
    BY DEF DepotInv, ArmFits, RestStates, BlockArmStates, DepotArmStates
  <2> QED BY <2>1, <2>2
<1> QED BY <1>1, DepotIsConsistent, PTL

\* As long as Nano has read at most one digit wrongly, a ball is let go only over
\* its own cell: from the slot under the arm, in the column the base stands at,
\* in the row of the group, and where no ball lies.
THEOREM BallsGoToTheirCells == Spec => [](misread <= 1 => RightCell)
<1>1. DepotInv => (misread <= 1 => RightCell)
  BY DEF DepotInv
<1> QED BY <1>1, DepotIsConsistent, PTL

\* Where Nano reads at most one digit of a run wrongly, every ball is let go over
\* its own cell.
THEOREM OneMisreadIsHarmless ==
    ASSUME Misreads <= 1
    PROVE  Spec => []RightCell
<1>1. DepotInv => RightCell
  <2> SUFFICES ASSUME DepotInv PROVE RightCell
    OBVIOUS
  <2>1. misread \in 0..Misreads /\ Misreads \in Nat
    BY MisreadsAssumption DEF DepotInv, ControlInv, TypeOK
  <2>2. misread <= 1
    BY <2>1
  <2> QED BY <2>2 DEF DepotInv
<1> QED BY <1>1, DepotIsConsistent, PTL

\* The gripper is opened over the free column only with a block in it, and takes
\* a block only when it is empty.
THEOREM GripperIsKnown == Spec => []PlacesOnlyWhatItHolds
<1>1. DepotInv => PlacesOnlyWhatItHolds
  <2> SUFFICES ASSUME DepotInv PROVE PlacesOnlyWhatItHolds
    OBVIOUS
  <2>1. SUFFICES ASSUME arm \in BlockGroups PROVE PlacesOnlyWhatItHolds
    BY DEF PlacesOnlyWhatItHolds, BlockGroups
  <2>2. /\ state \notin RestStates /\ arm = activeArm
        /\ state \in BlockArmStates \cup DepotArmStates
        /\ activeArm \in GroupsOf(state, depot)
    BY <2>1 DEF DepotInv, ArmFits, BlockGroups
  <2>3. /\ arm \in {31, 33, 35} => state = "BLOCK_WAIT_GRASP"
        /\ arm \in {32, 34, 36} => state = "BLOCK_WAIT_PLACE"
    BY <2>2 DEF GroupsOf, PlaceGroup, BlockArmStates, DepotArmStates
  <2>4. ASSUME arm \in {31, 33, 35} PROVE ~held
    BY <2>3, <2>4 DEF DepotInv, HeldFits
  <2>5. ASSUME arm \in {32, 34, 36} PROVE held /\ base = mission_block_place_point
    <3>1. held
      BY <2>3, <2>5 DEF DepotInv, HeldFits
    <3>2. base = depot.position /\ depot.position = mission_block_place_point
      BY <2>3, <2>5 DEF DepotInv, BaseFits, Standing, AskStates, RestStates,
         BlockMoveStates, BlockFits
    <3> QED BY <3>1, <3>2
  <2> QED BY <2>4, <2>5 DEF PlacesOnlyWhatItHolds
<1> QED BY <1>1, DepotIsConsistent, PTL

\* A run is complete only when every ball that can have a cell of its own lies in
\* it, and no other ball was placed.
THEOREM CompleteMeansPlaced == Spec => []AllPlacedAtComplete
<1>1. DepotInv => AllPlacedAtComplete
  <2> SUFFICES ASSUME DepotInv, state = "COMPLETE", NEW i \in DOMAIN manifest
               PROVE  manifest[i].state = "PLACED" <=> ~HasNoCell(i)
    BY DEF AllPlacedAtComplete
  <2>1. /\ StationsFit(state, depot) /\ Planned(manifest, depot)
        /\ PlacedFits(state, manifest, depot) /\ depot.used = 1..3
    BY DEF DepotInv, BallsFit, PlacingStates, LastStates, StationsFit
  <2>2. ~Fetching(state, depot)
    BY DEF Fetching, BallStates
  <2>3. NoCellFor(manifest, i) <=> HasNoCell(i)
    BY DEF NoCellFor, HasNoCell
  <2>4. /\ Target(manifest[i]) \in Cells
        /\ i \in depot.abnormal \/ Target(manifest[i])[2] = 4 <=> NoCellFor(manifest, i)
    BY <2>1 DEF Planned
  <2>5. Target(manifest[i])[2] \in 1..4
    BY <2>4 DEF Cells
  <2>6. CASE manifest[i].state = "PLACED"
    <3>1. i \notin depot.abnormal /\ Target(manifest[i])[2] \in 1..3
      BY <2>1, <2>6 DEF PlacedFits
    <3> QED BY <2>3, <2>4, <2>6, <3>1
  <2>7. CASE ~HasNoCell(i)
    <3>1. i \notin depot.abnormal /\ Target(manifest[i])[2] # 4
      BY <2>3, <2>4, <2>7
    <3>2. Target(manifest[i])[2] \in Finished(state, depot)
      BY <2>1, <2>2, <2>5, <3>1 DEF Finished
    <3> QED BY <2>1, <2>7, <3>1, <3>2 DEF PlacedFits
  <2> QED BY <2>6, <2>7
<1> QED BY <1>1, DepotIsConsistent, PTL

\* Once a run in the depot is stopping, stopped or failed nothing starts the arm
\* or the base again.
THEOREM StoppedDepotStaysStopped == Spec => NoReleaseAfterStop
<1>1. DepotInv /\ [Next]_vars => [RestIsKept]_vars
  BY NextKeeps
<1> QED BY <1>1, DepotIsConsistent, PTL DEF Spec, NoReleaseAfterStop
=============================================================================

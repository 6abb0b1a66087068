---------------------------- MODULE BallManifest ----------------------------
(***************************************************************************)
(* The table of the balls on board (ball_manifest_core.c): one record per  *)
(* stored ball, in the order of storing.  A record keeps the cell its card *)
(* named; for a card that could not be read a cell is drawn before the     *)
(* balls are placed.  Cells are <<row, column>> of the depot.              *)
(***************************************************************************)
EXTENDS Integers, Sequences, FiniteSets, Functions

Capacity == 9    \* BALL_MANIFEST_CAPACITY
SlotCount == 12

NoCell == <<0, 0>>
Cells == (1..3) \X (1..4)
FallbackCells == (1..3) \X (1..3)

RecordType ==
    [slot : 0..SlotCount-1, cell : Cells \cup {NoCell},
     fallback : FallbackCells \cup {NoCell},
     state : {"STORED", "READ_FAILED", "PLACED"}]

\* ball_manifest_append and ball_manifest_append_read_failed: the new record
Appended(slot, cell) ==
    [slot |-> slot, cell |-> cell, fallback |-> NoCell,
     state |-> IF cell = NoCell THEN "READ_FAILED" ELSE "STORED"]

\* The records a cell must be drawn for, and the cells that are still free.
Unplanned(m) ==
    {i \in DOMAIN m : m[i].state = "READ_FAILED" /\ m[i].fallback = NoCell}
Read(m) == {m[i].cell : i \in DOMAIN m} \cap FallbackCells
Drawn(m) == {m[i].fallback : i \in DOMAIN m} \ {NoCell}

\* Mutant: cells named by a card are not kept.
free_ignores_cards(m) == FallbackCells \ Drawn(m)

FreeCells(m) == FallbackCells \ (Read(m) \cup Drawn(m))

\* The errors of ball_manifest_plan_fallback: a slot used twice, a cell drawn
\* before that another record owns, and no cell left.
SlotsDiffer(m) ==
    \A i, j \in DOMAIN m : m[i].slot = m[j].slot => i = j
DrawnFits(m) ==
    \A i \in DOMAIN m : m[i].fallback # NoCell =>
        /\ m[i].cell = NoCell /\ m[i].fallback \notin Read(m)
        /\ \A j \in DOMAIN m : m[j].fallback = m[i].fallback => i = j
CellsSuffice(m) == Cardinality(Unplanned(m)) <= Cardinality(FreeCells(m))

(***************************************************************************)
(* ball_manifest_plan_fallback: every unread ball gets a free cell of its  *)
(* own.  The code draws them with a pseudo-random generator seeded by the  *)
(* clock, so any choice may come out.                                      *)
(***************************************************************************)
plan_fallback(m) ==
    {[i \in DOMAIN m |->
        IF i \in Unplanned(m) THEN [m[i] EXCEPT !.fallback = f[i]] ELSE m[i]] :
     f \in Injection(Unplanned(m), FreeCells(m))}

mark_placed(m, i) == [m EXCEPT ![i].state = "PLACED"]

\* The cell the ball goes to.
Target(r) == IF r.cell = NoCell THEN r.fallback ELSE r.cell
=============================================================================

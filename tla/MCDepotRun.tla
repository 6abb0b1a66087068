----------------------------- MODULE MCDepotRun -----------------------------
(* DepotRun with the table full on one side: nine balls, two of them with  *)
(* no cell of their own (an unread card, a ball for the fourth column) and  *)
(* two cells left to draw from.  On the other side two cards name one cell. *)
(* An id comes back after two others: nothing older is under way, because   *)
(* Mission waits for the answer before it sends the next command.           *)
EXTENDS DepotRun

MCSigns == [RED |-> <<3, 1, 2, 0>>, BLUE |-> <<0, 2, 3, 1>>]

\* Every digit can be taken for a column that is still to come or was before.
MCLookalikes == <<{2}, {3}, {1}>>

MCLoads ==
    [RED  |-> {<< NoCell, <<2, 4>>, <<1, 1>>, <<2, 1>>, <<1, 2>>, <<2, 2>>,
                  <<1, 3>>, <<2, 3>>, <<3, 3>> >>},
     BLUE |-> {<< <<1, 2>>, <<3, 2>>, <<1, 2>> >>}]

(***************************************************************************)
(* A robot that rests and moves no arm never looks at blocks, balls and    *)
(* digits again: no step out of such a state and no property in it depends *)
(* on them, and it is never left.  TLC takes such states for one another.  *)
(***************************************************************************)
View == IF state \in RestStates /\ arm = 0
        THEN <<ctxVars, evtQ, flags, loopVars, chassisVars>> ELSE vars
=============================================================================

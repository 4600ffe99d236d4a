---------------------------- MODULE MCShipEngine -----------------------------
(* ShipEngine with a path that the first task may write and the others must   *)
(* preserve, and tasks that are independent, wait for each other in either    *)
(* order or in a circle, or wait for a task that is not there.                *)
EXTENDS ShipEngine, TLC

First == CHOOSE t \in Tasks : TRUE
AllButFirst == [t \in Tasks |-> IF t = First THEN {} ELSE Paths]

Waiting(first, others) == [t \in Tasks |-> IF t = First THEN first ELSE others]
SomePlans == {Waiting({}, {}), Waiting({}, {First}), Waiting(Tasks \ {First}, {}),
              Waiting(Tasks \ {First}, {First}), Waiting({}, {Missing})}

\* Bound: three invocations come with a crash or an intervention, not both, and with
\* neither once an agent has written a file; with two invocations a file is written and
\* there is one of the two, or both come and no file is written.
MCNext ==
    /\ Next
    /\ writes' > 0 => invocations' + crashes' + flips' <= 3
    /\ crashes' + flips' + invocations' <= 4

MCSpec == Init /\ [][MCNext]_vars /\ Fairness
=============================================================================

--------------------------- MODULE MCJobExecution ---------------------------
(* Finite instances of JobExecution: two jobs with different periods.       *)
EXTENDS JobExecution, TLC

CONSTANTS j1, j2

\* j1 falls due at every tick, j2 at every other one.
MCOften == (j1 :> 1) @@ (j2 :> 2)

\* j2 would fall due at the third tick.
MCMixed == (j1 :> 1) @@ (j2 :> 3)

MCScope == [d \in Dispatchers |-> Jobs]
=============================================================================

----------------------------- MODULE Timesteps ------------------------------
(***************************************************************************)
(* What a DoubleGrid promises (src/docs/timestep-runtime.md): a grid that  *)
(* changes only by whole synchronous timesteps, a count of them, and       *)
(* snapshots of the grid as it is after that many steps.                   *)
(***************************************************************************)
EXTENDS Stencil

CONSTANTS Initial, Rhs      \* what double_grid was given

VARIABLES
    grid,       \* the current haloed grid
    completed,  \* timesteps since construction
    sample      \* the last host snapshot and the count it was taken at

vars == <<grid, completed, sample>>

NoSample == [at |-> -1, grid |-> Initial]

Init ==
    /\ grid = Initial
    /\ completed = 0
    /\ sample = NoSample

Step ==
    /\ grid' = Timestep(grid, Rhs)
    /\ completed' = completed + 1
    /\ UNCHANGED sample

Observe ==
    /\ sample' = [at |-> completed, grid |-> grid]
    /\ UNCHANGED <<grid, completed>>

Next == Step \/ Observe

Spec == Init /\ [][Next]_vars
=============================================================================

------------------------------ MODULE Stencil -------------------------------
(***************************************************************************)
(* The haloed grid and one synchronous Jacobi update of its interior       *)
(* (src/src/gpu/kernels.rs, src/src/reference.rs).  The arithmetic of a    *)
(* cell is left open: Relax is any function of the centre, the four        *)
(* neighbours and the forcing term.                                        *)
(***************************************************************************)
EXTENDS Integers

CONSTANTS
    Height, Width,              \* the interior, Shape2D::interior
    Value,                      \* what a cell can hold
    Relax(_, _, _, _, _, _)     \* centre, north, south, east, west, forcing

ASSUME StencilAssumption ==
    /\ Height \in Nat \ {0} /\ Width \in Nat \ {0}
    /\ \A c, n, s, e, w, f \in Value : Relax(c, n, s, e, w, f) \in Value

Cell == (0 .. Height + 1) \X (0 .. Width + 1)

(* The kernel's test of a block: row > 0 && row <= height && ...           *)
Inside(c) == c[1] > 0 /\ c[1] <= Height /\ c[2] > 0 /\ c[2] <= Width

Interior == {c \in Cell : Inside(c)}
Halo == Cell \ Interior

Grid == [Cell -> Value]

(* The right-hand side is indexed from the interior's first cell.          *)
Forcing == [(0 .. Height - 1) \X (0 .. Width - 1) -> Value]

(* Mutant: the halo is relaxed as well, its neighbours clamped.            *)
NewValueEverywhere(grid, rhs, c) ==
    LET at(r, k) == grid[<<IF r < 0 THEN 0 ELSE IF r > Height + 1 THEN Height + 1 ELSE r,
                           IF k < 0 THEN 0 ELSE IF k > Width + 1 THEN Width + 1 ELSE k>>]
    IN Relax(grid[c], at(c[1] - 1, c[2]), at(c[1] + 1, c[2]), at(c[1], c[2] + 1),
             at(c[1], c[2] - 1), rhs[<<0, 0>>])

(* The value the kernel stores in cell c: the stencil over the old grid in *)
(* the interior, a copy in the halo.                                       *)
NewValue(grid, rhs, c) ==
    IF Inside(c)
    THEN Relax(grid[c], grid[<<c[1] - 1, c[2]>>], grid[<<c[1] + 1, c[2]>>],
               grid[<<c[1], c[2] + 1>>], grid[<<c[1], c[2] - 1>>],
               rhs[<<c[1] - 1, c[2] - 1>>])
    ELSE grid[c]

(* One timestep: every cell from the old grid at once.                     *)
Timestep(grid, rhs) == [c \in Cell |-> NewValue(grid, rhs, c)]
=============================================================================

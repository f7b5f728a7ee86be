---------------------------- MODULE JacobiKernel ----------------------------
(***************************************************************************)
(* A pair of extents and a spacing are validated (Shape2D, Params); if     *)
(* both are accepted one of the 16x16-tile kernels jacobi and laplacian    *)
(* (src/src/gpu/kernels.rs) is launched, on the five directional views of  *)
(* the haloed source (directional_views, src/src/gpu/cutile_impl.rs).      *)
(* Storage is flat and row-major; a block loads its tile through every     *)
(* view, then stores its tile of the output, and blocks run in any order.  *)
(* The arithmetic of a cell is one function of its inputs, as in Stencil.  *)
(***************************************************************************)
EXTENDS Shape2D, Params

CONSTANTS
    Heights, Widths,            \* the accepted shapes to launch on (a bound)
    Value,
    Source(_),                  \* the haloed storage, by flat index
    Rhs(_),                     \* the right-hand side, by flat index
    Relax(_, _, _, _, _, _),
    Unwritten                   \* what an output cell holds before the launch

ASSUME KernelAssumption ==
    /\ Heights \subseteq Extents /\ Widths \subseteq Extents
    /\ Unwritten \notin Value

VARIABLES
    block,          \* for each block, "todo", "loaded" or "stored"
    loaded,         \* the values the loaded blocks hold
    output          \* the output storage, by flat index

kernel == <<block, loaded, output>>
inputs == <<height, width, result, spacing, coefficient>>
vars == <<inputs, kernel>>

SourceLen(h, w) == Metadata(h, w).haloed_len

(* partition([TILE, TILE]) of the vendored tile library: the launch grid   *)
(* and, assumed of it, the cells of a tile that lie in the output;         *)
(* accesses beyond its extent are masked.                                  *)
Blocks(h, w) ==
    LET grid == Metadata(h, w).grid IN (0 .. grid[1] - 1) \X (0 .. grid[2] - 1)

TileCells(h, w, b) ==
    {c \in (0 .. h - 1) \X (0 .. w - 1) :
        /\ b[1] * Tile <= c[1] /\ c[1] < (b[1] + 1) * Tile
        /\ b[2] * Tile <= c[2] /\ c[2] < (b[2] + 1) * Tile}

(* directional_views: a zero-copy slice starts at a row and a column of    *)
(* the haloed source and keeps its row stride.  Mutants: east and west     *)
(* exchanged, south one row too low.                                       *)
ViewStartSwapped ==
    [center |-> <<1, 1>>, north |-> <<0, 1>>, south |-> <<2, 1>>,
     east |-> <<1, 0>>, west |-> <<1, 2>>]

ViewStartLow ==
    [center |-> <<1, 1>>, north |-> <<0, 1>>, south |-> <<3, 1>>,
     east |-> <<1, 2>>, west |-> <<1, 0>>]

ViewStart ==
    [center |-> <<1, 1>>, north |-> <<0, 1>>, south |-> <<2, 1>>,
     east |-> <<1, 2>>, west |-> <<1, 0>>]

ViewIndex(w, view, c) ==
    (ViewStart[view][1] + c[1]) * HaloAxis(w) + ViewStart[view][2] + c[2]

FieldIndex(w, c) == c[1] * w + c[2]

Load(w, view, c) == Source(ViewIndex(w, view, c))

(* The value a block computes for one of its cells.                        *)
TileValue(w, c) ==
    Relax(Load(w, "center", c), Load(w, "north", c), Load(w, "south", c),
          Load(w, "east", c), Load(w, "west", c), Rhs(FieldIndex(w, c)))

NoBlocks == [b \in {} |-> "todo"]

Init ==
    /\ ShapeInit /\ ParamsInit
    /\ block = NoBlocks /\ loaded = NoBlocks /\ output = NoBlocks

(* step_into takes accepted JacobiParams, laplacian_into LaplacianParams;  *)
(* the launch takes its grid of blocks from the shape.                     *)
Launch ==
    /\ result = "ok" /\ block = NoBlocks
    /\ \/ \E omega \in Float : JacobiNew(omega, spacing) = "ok"
       \/ coefficient \notin {Unset, NaN}
    /\ height \in Heights /\ width \in Widths
    /\ block' = [b \in Blocks(height, width) |-> "todo"]
    /\ loaded' = [b \in Blocks(height, width) |-> [c \in {} |-> Unwritten]]
    /\ output' = [i \in 0 .. height * width - 1 |-> Unwritten]
    /\ UNCHANGED inputs

BlockLoad(b) ==
    /\ block[b] = "todo"
    /\ block' = [block EXCEPT ![b] = "loaded"]
    /\ loaded' = [loaded EXCEPT ![b] =
           [c \in TileCells(height, width, b) |-> TileValue(width, c)]]
    /\ UNCHANGED <<inputs, output>>

BlockStore(b) ==
    /\ block[b] = "loaded"
    /\ block' = [block EXCEPT ![b] = "stored"]
    /\ output' = [i \in DOMAIN output |->
           IF \E c \in DOMAIN loaded[b] : FieldIndex(width, c) = i
           THEN loaded[b][CHOOSE c \in DOMAIN loaded[b] : FieldIndex(width, c) = i]
           ELSE output[i]]
    /\ loaded' = [loaded EXCEPT ![b] = [c \in {} |-> Unwritten]]
    /\ UNCHANGED inputs

Next ==
    \/ Validate /\ UNCHANGED <<spacing, coefficient, kernel>>
    \/ Construct /\ UNCHANGED <<height, width, result, kernel>>
    \/ Launch
    \/ \E b \in DOMAIN block : BlockLoad(b) \/ BlockStore(b)

Spec == Init /\ [][Next]_vars

-----------------------------------------------------------------------------
(* jacobi_into of src/src/reference.rs, by flat index.                     *)
ReferenceCell(h, w, row, column) ==
    LET stride == w + 2
        index == (row + 1) * stride + column + 1
        cell == row * w + column
    IN Relax(Source(index), Source(index - stride), Source(index + stride),
             Source(index + 1), Source(index - 1), Rhs(cell))

Done == block # NoBlocks /\ \A b \in DOMAIN block : block[b] = "stored"

(* After the launch every output cell holds what the sequential CPU oracle *)
(* writes, for shapes that are no multiple of the tile as well.            *)
ResultIsReference ==
    Done => \A row \in 0 .. height - 1, column \in 0 .. width - 1 :
        output[row * width + column] = ReferenceCell(height, width, row, column)

(* Every access a block makes through a view lies inside the haloed        *)
(* source.                                                                 *)
ViewsInBounds ==
    \A b \in DOMAIN block : \A c \in TileCells(height, width, b) :
        \A view \in DOMAIN ViewStart :
            ViewIndex(width, view, c) \in 0 .. SourceLen(height, width) - 1
=============================================================================

------------------------------ MODULE Shape2D -------------------------------
(***************************************************************************)
(* Shape2D::new (src/src/shape.rs): the checks a pair of extents passes    *)
(* before any allocation, in machine arithmetic, against what they mean in *)
(* unbounded arithmetic.  JacobiKernel launches on the shapes it accepts.  *)
(***************************************************************************)
EXTENDS Integers

CONSTANTS
    MaxUsize, MaxIsize,     \* usize::MAX, isize::MAX
    MaxI32,                 \* i32::MAX
    MaxBlocks,              \* MAX_BLOCKS, also u16::MAX
    Tile,                   \* TILE
    ElementBytes,           \* size_of::<f32>()
    Extents                 \* the extents callers ask for

ASSUME ShapeAssumption ==
    /\ MaxI32 \in Nat /\ MaxIsize \in Nat /\ MaxUsize \in Nat
    /\ MaxI32 <= MaxIsize /\ MaxIsize <= MaxUsize
    /\ MaxBlocks \in Nat \ {0} /\ Tile \in Nat \ {0} /\ ElementBytes \in Nat \ {0}
    /\ Extents \subseteq 0..MaxUsize

VARIABLES height, width, result

HaloAxis(n) == n + 2

(* usize::div_ceil.                                                        *)
DivCeil(n, d) == IF n % d = 0 THEN n \div d ELSE n \div d + 1

(* The results of the checked operations, in unbounded arithmetic: an      *)
(* operation whose operand overflows is never reached, and overflows here. *)
Metadata(h, w) ==
    LET H == HaloAxis(h) W == HaloAxis(w) IN
    [interior |-> <<h, w>>, haloed |-> <<H, W>>,
     interior_len |-> h * w, haloed_len |-> H * W,
     interior_bytes |-> h * w * ElementBytes, haloed_bytes |-> H * W * ElementBytes,
     grid |-> <<DivCeil(h, Tile), DivCeil(w, Tile)>>]

Arithmetic(s) ==
    {s.haloed[1], s.haloed[2], s.interior_len, s.haloed_len, s.interior_bytes,
     s.haloed_bytes}

Counts(s) ==
    {s.interior[1], s.interior[2], s.haloed[1], s.haloed[2], s.interior_len,
     s.haloed_len}

(* Mutant of New: the halo is not limited.                                 *)
NewInteriorOnly(h, w) ==
    LET s == Metadata(h, w) IN
    IF h = 0 \/ w = 0 THEN "empty"
    ELSE IF \E n \in Arithmetic(s) : n > MaxUsize THEN "overflow"
    ELSE IF s.interior_bytes > MaxIsize THEN "bytes"
    ELSE IF s.interior_len > MaxI32 THEN "counts"
    ELSE IF \E i \in 1..2 : s.grid[i] > MaxBlocks THEN "blocks"
    ELSE "ok"

(* The first check that fails.                                             *)
New(h, w) ==
    LET s == Metadata(h, w) IN
    IF h = 0 \/ w = 0 THEN "empty"
    ELSE IF \E n \in Arithmetic(s) : n > MaxUsize THEN "overflow"
    ELSE IF s.interior_bytes > MaxIsize \/ s.haloed_bytes > MaxIsize THEN "bytes"
    ELSE IF \E n \in Counts(s) : n > MaxI32 THEN "counts"
    ELSE IF \E i \in 1..2 : s.grid[i] > MaxBlocks THEN "blocks"
    ELSE "ok"

ShapeInit ==
    /\ height \in Extents /\ width \in Extents
    /\ result = "none"

Validate ==
    /\ result = "none"
    /\ result' = New(height, width)
    /\ UNCHANGED <<height, width>>

-----------------------------------------------------------------------------
(* An accepted shape is usable: every later conversion the facade and the  *)
(* backend make of its metadata (u32, u16 and i32 fields, isize offsets,   *)
(* i32 row strides and flat lengths, one block per tile) is exact, and the *)
(* grid of tiles covers the interior with less than a tile to spare.       *)
AcceptedIsRepresentable ==
    result = "ok" =>
        LET s == Metadata(height, width) IN
        /\ \A n \in Counts(s) : n \in 1..MaxI32
        /\ s.interior_bytes \in 1..MaxIsize /\ s.haloed_bytes \in 1..MaxIsize
        /\ \A i \in 1..2 :
              /\ s.grid[i] \in 1..MaxBlocks
              /\ (s.grid[i] - 1) * Tile < s.interior[i]
              /\ s.interior[i] <= s.grid[i] * Tile

(* The doc's order of rejection: "zero axes first, then arithmetic         *)
(* overflow, byte counts above isize::MAX, axes/strides/total counts above *)
(* i32::MAX, and finally more than 65,535 blocks".  Stated with the        *)
(* haloed extent alone, which bounds the interior.                         *)
Bytes(h, w) == (h + 2) * (w + 2) * ElementBytes

RejectedInOrder ==
    /\ result = "empty" => height * width = 0
    /\ result = "overflow" => height * width > 0 /\ Bytes(height, width) > MaxUsize
    /\ result = "bytes" => Bytes(height, width) \in MaxIsize + 1 .. MaxUsize
    /\ result = "counts" =>
           /\ Bytes(height, width) <= MaxIsize
           /\ (height + 2) * (width + 2) > MaxI32
    /\ result = "blocks" =>
           /\ (height + 2) * (width + 2) <= MaxI32
           /\ (height > MaxBlocks * Tile \/ width > MaxBlocks * Tile)
    /\ result = "ok" => height <= MaxBlocks * Tile /\ width <= MaxBlocks * Tile

(* What Shape2D::new promises of every pair of extents (shape.rs): an      *)
(* accepted one is usable, a rejected one has the first documented fault.  *)
ShapesValidated == AcceptedIsRepresentable /\ RejectedInOrder
=============================================================================

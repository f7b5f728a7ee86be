--------------------------- MODULE MCDoubleGrid -----------------------------
(* A one by two interior, whose two cells read each other, over the        *)
(* integers modulo seven with a different weight for each input of a cell. *)
EXTENDS DoubleGrid

MCValue == 0..6
MCRelax(c, n, s, e, w, f) == (c + 2*n + 3*s + 4*e + 5*w + 6*f) % 7
MCInitial == [c \in Cell |-> (3*c[1] + 5*c[2] + c[1]*c[2]) % 7]
MCRhs == [c \in (0 .. Height - 1) \X (0 .. Width - 1) |-> (c[2] + 2) % 7]
=============================================================================

-------------------------- MODULE MCJacobiKernel ----------------------------
(* Extents around every limit of a ten-bit usize; launches on interiors    *)
(* below, at and beyond tiles of two by two, over the integers modulo a    *)
(* prime, each input of a cell with a weight of its own.  The spacings, of *)
(* a format of three digits, vary on the smallest shape only.              *)
EXTENDS JacobiKernel

MCExtents == 0..45 \cup 120..130 \cup 250..258 \cup 508..514 \cup 1018..1023
MCSource(i) == (i * i + 3 * i + 1) % 11
MCRhs(i) == (5 * i + 2) % 11
MCRelax(c, n, s, e, w, f) == (c + 2*n + 3*s + 4*e + 5*w + 6*f) % 11
MCValue == 0..10

MCInit ==
    /\ Init
    /\ spacing = Number(FALSE, 2^UnitBits) \/ <<height, width>> = <<1, 1>>

MCSpec == MCInit /\ [][Next]_vars
=============================================================================

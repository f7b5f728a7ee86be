---------------------------- MODULE MCAdmission -----------------------------
(* A session of three guards, an eight-value usize and limits that every   *)
(* request can meet or exceed.                                             *)
EXTENDS Admission, TLC

Symmetry == Permutations(Guard)
MCRequest == {0, 1, 3, 4, 7}
=============================================================================

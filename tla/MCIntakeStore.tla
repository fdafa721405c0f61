--------------------------- MODULE MCIntakeStore ---------------------------
(* Small instances of IntakeStore for TLC.                                 *)
EXTENDS IntakeStore, TLC

Symmetry == Permutations(Ids)
=============================================================================

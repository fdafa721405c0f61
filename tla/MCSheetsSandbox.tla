-------------------------- MODULE MCSheetsSandbox --------------------------
(* Small instances of SheetsSandbox for TLC.                               *)
EXTENDS SheetsSandbox, TLC

Symmetry == Permutations(Calls)
=============================================================================

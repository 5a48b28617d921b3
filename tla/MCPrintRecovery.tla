-------------------------- MODULE MCPrintRecovery --------------------------
(***************************************************************************)
(* PrintRecovery for TLC.  Files, calibrations and mesh shapes are only    *)
(* compared for equality, so permuting them is a symmetry; the heads are   *)
(* numbers (T0 is special) and are not permuted.                           *)
(***************************************************************************)
EXTENDS PrintRecovery, TLC

Interchangeable ==
  Permutations(Files) \cup Permutations(Cals) \cup Permutations(Shapes)
=============================================================================

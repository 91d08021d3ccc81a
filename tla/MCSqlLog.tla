------------------------------ MODULE MCSqlLog ------------------------------
(***************************************************************************)
(* Model checking SqlLog.                                                  *)
(***************************************************************************)
EXTENDS SqlLog, TLC

CommandSymmetry == Permutations(Command)
=============================================================================

---------------------------- MODULE MCSchedules -----------------------------
(***************************************************************************)
(* Schedules for TLC.                                                      *)
(***************************************************************************)
EXTENDS Schedules, TLC

\* Nothing tells the engines apart.
EngineSymmetry == Permutations(Engines)
=============================================================================

--------------------------- MODULE MCScheduledRuns ---------------------------
(***************************************************************************)
(* Small instances of ScheduledRuns: one schedule in two processes, which  *)
(* are alike.                                                              *)
(***************************************************************************)
EXTENDS ScheduledRuns, TLC

Symmetry == Permutations(Managers)
=============================================================================

-------------------------- MODULE MCRunnerStartup --------------------------
(***************************************************************************)
(* Small instances of RunnerStartup: launches are only compared, and any   *)
(* of them may be revivals, so they are interchangeable.                   *)
(***************************************************************************)
EXTENDS RunnerStartup, TLC

Symmetry == Permutations(Launches)
=============================================================================

--------------------------- MODULE MCRunLifecycle ---------------------------
(***************************************************************************)
(* Small instances of RunLifecycle.  Everything but the numbers of calls   *)
(* and of observers is in the module itself.                               *)
(***************************************************************************)
EXTENDS RunLifecycle
=============================================================================

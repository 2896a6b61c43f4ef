-------------------------- MODULE MCResultDelivery --------------------------
(***************************************************************************)
(* Small instances of ResultDelivery.  Two results have different states,  *)
(* as when a run that was judged failed completes after all; the later one *)
(* is of status completed, so the batcher holds it.                        *)
(***************************************************************************)
EXTENDS ResultDelivery

\* One result that completes.
OneKey == <<"complete">>
OneBatched == {1}

\* A failure, replaced by a completion.
TwoKeys == <<"failed", "complete">>
TwoBatched == {2}
=============================================================================

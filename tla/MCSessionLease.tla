--------------------------- MODULE MCSessionLease ---------------------------
(***************************************************************************)
(* Small instances of SessionLease: three contenders of one host; and four *)
(* processes of which two reuse a pid and one, with the pid of a third, is *)
(* on another host, from where it may never reclaim.                       *)
(***************************************************************************)
EXTENDS SessionLease

CONSTANTS a, b, c, d

OneHost == [p \in {a, b, c} |-> "h1"]
OwnPids == [p \in {a, b, c} |-> IF p = a THEN 1 ELSE IF p = b THEN 2 ELSE 3]

\* a and b reuse one pid: only one of them is alive at a time.
TwoHosts  == [p \in {a, b, c, d} |-> IF p = d THEN "h2" ELSE "h1"]
ReusedPid == [p \in {a, b, c, d} |-> IF p \in {a, b} THEN 1 ELSE 2]
=============================================================================

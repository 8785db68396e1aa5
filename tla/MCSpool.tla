------------------------------ MODULE MCSpool ------------------------------
(***************************************************************************)
(* Instances of Spool for TLC.                                             *)
(***************************************************************************)
EXTENDS Spool, TLC

CONSTANTS r1, r2, r3

TwoRequests   == {r1, r2}
ThreeRequests == {r1, r2, r3}

\* No action tells one request from another: a permutation of the requests
\* is a symmetry of the safety runs.
Symmetry == Permutations(Requests)

CrashFaults    == {"write", "rename", "read", "deadletter"}
AllFaults      == FaultKinds
ForwarderFaultKinds == {"read", "remove", "deadletter", "readdir"}

=============================================================================

----------------------------- MODULE MCDayFile -----------------------------
(***************************************************************************)
(* Instances of DayFile for TLC.                                           *)
(***************************************************************************)
EXTENDS DayFile, TLC

CONSTANTS c1, c2, g1, g2

TwoCalls    == {c1, c2}
OneGateway  == {g1}
TwoGateways == {g1, g2}

Symmetry == Permutations(Calls) \cup Permutations(Gateways)

AllFaults    == {"open", "dirsync", "write", "fsync"}
DirSyncFault == {"dirsync"}

=============================================================================

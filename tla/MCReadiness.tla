---------------------------- MODULE MCReadiness ----------------------------
(***************************************************************************)
(* An instance of Readiness for TLC.                                       *)
(***************************************************************************)
EXTENDS Readiness, TLC

CONSTANTS r1, r2

TwoRequests == {r1, r2}

Symmetry == Permutations(Requests)

\* Without power losses nothing reads disk and content, and no property here is
\* about earlier and delivered: states that differ only in them are the same.
View == <<loc, pc, name, memoryVars, forwardVars, clock, crashes, readyVars>>

SomeFaults == {"dirsync", "read"}

=============================================================================

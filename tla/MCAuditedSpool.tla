--------------------------- MODULE MCAuditedSpool ---------------------------
(***************************************************************************)
(* Instances of AuditedSpool for TLC.                                      *)
(***************************************************************************)
EXTENDS AuditedSpool, TLC

CONSTANTS r1, r2, r3, dA, dB

TwoRequests   == {r1, r2}
ThreeRequests == {r1, r2, r3}

\* r2 is a retry of r1's transaction: the same bytes.
RetriedDigest  == [r \in Requests |-> IF r \in {r1, r2} THEN dA ELSE dB]

ReadFaults  == {"read", "deadletter"}

=============================================================================

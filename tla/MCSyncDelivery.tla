--------------------------- MODULE MCSyncDelivery ---------------------------
(***************************************************************************)
(* An instance of SyncDelivery for TLC.                                    *)
(***************************************************************************)
EXTENDS SyncDelivery, TLC

CONSTANTS c1, c2, tA

TwoCalls == {c1, c2}

\* c2 is the retry of c1's transaction, which its caller may send while c1 is
\* still running.
SameTransaction == [c \in Calls |-> tA]

\* In ticks of 250 ms.
NoTime      == {0}
FastOrStuck == {0, 10}   \* an attempt is answered at once or times out

\* The first attempt ends by tick 10, the second by 21, the third by 33 of 40.
ASSUME MainFits == BudgetFits([k \in 0 .. 2 |-> 2 ^ k],
                              [k \in 0 .. 2 |-> <<10, 21, 33>>[k + 1]])

=============================================================================

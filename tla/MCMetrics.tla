----------------------------- MODULE MCMetrics -----------------------------
(***************************************************************************)
(* An instance of Metrics for TLC.                                         *)
(***************************************************************************)
EXTENDS Metrics, TLC

CONSTANTS h1, h2

TwoHandlers == {h1, h2}

Symmetry == Permutations(Handlers)

\* Half a microsecond, 25 microseconds.
SomeLatencies == {0, 5, 250}

=============================================================================

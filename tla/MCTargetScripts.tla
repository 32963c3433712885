--------------------------- MODULE MCTargetScripts ---------------------------
(***************************************************************************)
(* An instance of TargetScripts for TLC: every script, two runs, and       *)
(* values of the settings on either side of each limit.                    *)
(***************************************************************************)
EXTENDS TargetScripts, TLC

CONSTANTS r1, r2

\* The values a template sends, and those next to a limit of the target.
BoundaryCounts == {0, 3, 5, 8, 9, 11, 21, 51, 61, 101}
BoundarySizes == {0, 12, 65, 256, 257, 513}
BoundaryDelays == {0, 50, 1000, 1500, 5001}

Symmetry == Permutations(Runs)
=============================================================================

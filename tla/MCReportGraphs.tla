--------------------------- MODULE MCReportGraphs ---------------------------
(***************************************************************************)
(* An instance of ReportGraphs for TLC: every graph by itself, and two of  *)
(* a page, which the resize icon closes together.  The report of this      *)
(* repository has no controllers; its labels are symmetric.                *)
(***************************************************************************)
EXTENDS ReportGraphs, TLC

CONSTANTS s1, s2, whole, part

EachGraph ==
    {{g} : g \in DOMAIN Graph}
    \cup {{"ResponseTimePercentiles", "ResponseTimeDistribution"}}

Symmetry == Permutations(Labels)
=============================================================================

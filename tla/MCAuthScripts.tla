---------------------------- MODULE MCAuthScripts ----------------------------
(***************************************************************************)
(* Instances of AuthScripts for TLC: virtual users as model values.  They  *)
(* are symmetric: the scripts they run are chosen by the initial state.    *)
(***************************************************************************)
EXTENDS AuthScripts, TLC

CONSTANTS u1, u2

Symmetry == Permutations(VUs)
=============================================================================

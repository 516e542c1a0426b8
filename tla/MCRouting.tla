----------------------------- MODULE MCRouting -----------------------------
(***************************************************************************)
(* Two sources are enough for one to overwrite what the other left.        *)
(***************************************************************************)
EXTENDS Routing, TLC

Symmetric == Permutations(Sources)
=============================================================================

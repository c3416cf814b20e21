--------------------------- MODULE MC_SapiFunction ---------------------------
(* Instantiation of SapiFunction for TLC. *)
EXTENDS SapiFunction, TLC

CONSTANTS c1, c2

MCOneCaller == {c1}
MCTwoCallers == {c1, c2}
MCSymmetry == Permutations(MCTwoCallers)
=============================================================================

-------------------------- MODULE MCAccountingSync --------------------------
(***************************************************************************)
(* Small instances of AccountingSync: one order of one line without        *)
(* recipes, so that the interleavings of its requests with the workers are *)
(* all there is.                                                           *)
(***************************************************************************)
EXTENDS AccountingSync, TLC

CONSTANTS r1, r2, r3, coffee, cup, w1, w2

MCNoRecipes == {}
MCRecipes == {[product |-> coffee, ingredient |-> cup, usage |-> 1]}
MCOneCart == {[items |-> <<[product |-> coffee, qty |-> 1]>>, net |-> 2]}

MCSymmetry == Permutations(Requests) \cup Permutations(Workers)
=============================================================================

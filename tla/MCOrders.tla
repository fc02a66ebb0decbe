------------------------------ MODULE MCOrders ------------------------------
(***************************************************************************)
(* Small instances of Orders: two ingredients, one product whose recipe    *)
(* uses the first, an optional new recipe row for the second, amounts      *)
(* chosen so that one, two or no payments cover the net amount.            *)
(***************************************************************************)
EXTENDS OrdersSerial, TLC

CONSTANTS r1, r2, r3, r4, coffee, cup, lid

MCRow(ingredient) == [product |-> coffee, ingredient |-> ingredient, usage |-> 1]
MCInitialRecipes == {MCRow(cup)}
MCNewRecipes == {MCRow(lid)}
MCNoRecipes == {}

MCItems(qty) == <<[product |-> coffee, qty |-> qty]>>
MCTwoLines == {[items |-> MCItems(2) \o MCItems(1), net |-> 2]}
MCOneCart == {[items |-> MCItems(1), net |-> 2]}
MCFreeCart == {[items |-> MCItems(1), net |-> 0]}

MCSymmetry == Permutations(Requests)
=============================================================================

SPECIFICATION Spec
CONSTANTS
    r1 = r1
    r2 = r2
    r3 = r3
    r4 = r4
    coffee = coffee
    cup = cup
    lid = lid
    Requests = {r1, r2, r3, r4}
    OrderIds = {1, 2}
    Keys = {k1}
    NoKey = NoKey
    NoOrder = NoOrder
    Carts <- MCTwoLines
    Amounts = {1, 2}
    Products = {coffee}
    Ingredients = {cup, lid}
    InitialRecipes <- MCInitialRecipes
    NewRecipes <- MCNewRecipes
    Serial = {1, 2}
    Calm = {1}
    MaxAborts = 2
SYMMETRY MCSymmetry
INVARIANTS TypeOK CreateIsIdempotent EffectsOnlyWhenCovered QuiescentConsistency DisplayIsCurrent RejectionIsTruthful SettledAtMostOnce ReturnsAreExplained
PROPERTIES ImplementsLedger NoPaymentAfterSettlement VoidIsFinal
CHECK_DEADLOCK FALSE

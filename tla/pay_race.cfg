SPECIFICATION Spec
CONSTANTS
    r1 = r1
    r2 = r2
    r3 = r3
    r4 = r4
    coffee = coffee
    cup = cup
    lid = lid
    Requests = {r1, r2, r3}
    OrderIds = {1}
    Keys = {k1}
    NoKey = NoKey
    NoOrder = NoOrder
    Carts <- MCOneCart
    Amounts = {2}
    Products = {coffee}
    Ingredients = {cup}
    InitialRecipes <- MCInitialRecipes
    NewRecipes <- MCNoRecipes
    Serial = {}
    Calm = {}
    MaxAborts = 0
SYMMETRY MCSymmetry
INVARIANTS SettledAtMostOnce
CHECK_DEADLOCK FALSE

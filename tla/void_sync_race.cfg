SPECIFICATION SyncSpec
CONSTANTS
    r1 = r1
    r2 = r2
    r3 = r3
    coffee = coffee
    cup = cup
    w1 = w1
    w2 = w2
    Requests = {r1, r2, r3}
    OrderIds = {1}
    Keys = {}
    NoKey = NoKey
    NoOrder = NoOrder
    Carts <- MCOneCart
    Amounts = {2}
    Products = {coffee}
    Ingredients = {}
    InitialRecipes <- MCNoRecipes
    NewRecipes <- MCNoRecipes
    Serial = {1}
    Calm = {}
    MaxAborts = 0
    Workers = {w1}
    NoJob = NoJob
    MaxTries = 2
    MaxFaults = 0
    MaxLosses = 0
    MaxManual = 0
SYMMETRY MCSymmetry
INVARIANTS SyncedIsNotVoid
CHECK_DEADLOCK FALSE

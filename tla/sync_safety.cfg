SPECIFICATION SyncSpec
CONSTANTS
    r1 = r1
    r2 = r2
    r3 = r3
    coffee = coffee
    cup = cup
    w1 = w1
    w2 = w2
    Requests = {r1, r2, r3}
    OrderIds = {1, 2}
    Keys = {}
    NoKey = NoKey
    NoOrder = NoOrder
    Carts <- MCOneCart
    Amounts = {1, 2}
    Products = {coffee}
    Ingredients = {cup}
    InitialRecipes <- MCRecipes
    NewRecipes <- MCNoRecipes
    Serial = {1}
    Calm = {1}
    MaxAborts = 0
    Workers = {w1,w2}
    NoJob = NoJob
    MaxTries = 2
    MaxFaults = 1
    MaxLosses = 1
    MaxManual = 1
SYMMETRY MCSymmetry
INVARIANTS SyncedIsDelivered DeliveredIsPaid DeliveredOnce
CHECK_DEADLOCK FALSE

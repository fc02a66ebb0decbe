SPECIFICATION Spec
CONSTANTS
    None = None
    Settings <- MCAnyRate
    Dtos <- MCAll
INVARIANTS DiscountWithinTotal ClientTotalsHonoured TillAgreesWithServer
CHECK_DEADLOCK FALSE

SPECIFICATION Spec
CONSTANTS
    ann = ann
    bob = bob
    c1 = c1
    c2 = c2
    r1 = r1
    Users = {ann, bob}
    NoUser = NoUser
    Calls = {c1, c2}
    Rivals = {r1}
    MaxCalls = 2
    MaxSignIns = 2
    MaxExpiries = 2
    MaxFaults = 2
INVARIANTS SessionTypeOK OneUserAtATime LogoutIsFinal SignedOutForAReason
CONSTRAINT Explored
SYMMETRY MCSymmetry
CHECK_DEADLOCK FALSE

SPECIFICATION Spec
CONSTANTS
    s1 = s1
    s2 = s2
    b1 = b1
    b2 = b2
    Sockets = {s1, s2}
    Branches = {b1, b2}
    NoBranch = NoBranch
    DisplayFrames <- MCFrames
    MaxFrames = 2
    MaxPublishes = 2
    MaxFaults = 1
SYMMETRY MCSymmetry
INVARIANTS CfdTypeOK RegistriesAgree ShowsLatest PongsMatchPings GoodbyeIsFinal
CHECK_DEADLOCK FALSE

CONSTANTS
    c1 = c1
    c2 = c2
    k1 = k1
    k2 = k2
    a = a
    b = b
    Restorer = Restorer
    Stopper = Stopper
    Clients <- OneClient
    Keys <- TwoKeys
    Names <- TwoNames
    Offers <- MixedOffers
    Renames <- NoRename
    Env = {"crash"}
    MaxID = 4
    MaxStarts = 3
SPECIFICATION Spec
INVARIANT OpenedIsReopened
CHECK_DEADLOCK FALSE

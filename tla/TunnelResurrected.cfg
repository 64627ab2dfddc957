CONSTANTS
    c1 = c1
    c2 = c2
    k1 = k1
    k2 = k2
    a = a
    b = b
    Restorer = Restorer
    Stopper = Stopper
    Clients <- TwoClients
    Keys <- TwoKeys
    Names <- TwoNames
    Offers <- MixedOffers
    Renames <- NoRename
    Env = {"crash"}
    MaxID = 2
    MaxStarts = 2
SPECIFICATION Spec
INVARIANT ClosedStaysForgotten
CHECK_DEADLOCK FALSE

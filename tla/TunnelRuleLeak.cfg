CONSTANTS
    c1 = c1
    c2 = c2
    k1 = k1
    k2 = k2
    a = a
    b = b
    Restorer = Restorer
    Stopper = Stopper
    Clients <- TwoClients
    Keys <- TwoKeys
    Names <- TwoNames
    Offers <- MixedOffers
    Renames <- NoRename
    Env = {"stop"}
    MaxID = 2
    MaxStarts = 1
SPECIFICATION Spec
INVARIANT NoRuleOutlivesItsListener
CHECK_DEADLOCK FALSE

CONSTANTS
    c1 = c1
    c2 = c2
    k1 = k1
    k2 = k2
    a = a
    b = b
    Restorer = Restorer
    Stopper = Stopper
    Clients <- TwoClients
    Keys <- TwoKeys
    Names <- TwoNames
    Offers <- MixedOffers
    Renames <- OneRename
    Env = {"stop", "open_fails", "allow_fails"}
    MaxID = 2
    MaxStarts = 1
SPECIFICATION FairSpec
INVARIANTS TypeOK ListenersOwned OneOwner RulesAccountedFor DurableWhenQuiet
PROPERTIES CallsReturn CloseTakesEffect
CHECK_DEADLOCK FALSE

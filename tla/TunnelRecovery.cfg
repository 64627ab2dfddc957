CONSTANTS
    c1 = c1
    c2 = c2
    k1 = k1
    k2 = k2
    a = a
    b = b
    Restorer = Restorer
    Stopper = Stopper
    Clients <- OneClient
    Keys <- TwoKeys
    Names <- TwoNames
    Offers <- PartlyRestored
    Renames <- NoRename
    Env = {"early", "crash", "stop", "remove_fails", "write_fails", "read_fails"}
    MaxID = 3
    MaxStarts = 2
SPECIFICATION Spec
INVARIANTS IdsAreNotReused ReportedRuleExists RulesAccountedFor DurableWhenQuiet
CHECK_DEADLOCK FALSE

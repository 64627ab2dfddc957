CONSTANTS
    c1 = c1
    c2 = c2
    k1 = k1
    e1 = e1
    e2 = e2
    v1 = v1
    l1 = l1
    l2 = l2
    h1 = h1
    h2 = h2
    None = None
    Stopper = Stopper
    Callers <- TwoCallers
    Changers <- OneChanger
    Conns <- TwoConns
    VMs <- OneVM
    Logins <- OneLogin
    HostKeys <- TwoKeys
    Env = {"forget", "rebuild", "move"}
SPECIFICATION Spec
INVARIANTS TypeOK ClosedOnce OpenIsOwned PooledIsWatched StaleOnlyIfOvertaken OneIdentity
SYMMETRY Alike
CHECK_DEADLOCK FALSE

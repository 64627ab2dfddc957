CONSTANTS
    c1 = c1
    c2 = c2
    k1 = k1
    e1 = e1
    e2 = e2
    v1 = v1
    l1 = l1
    l2 = l2
    h1 = h1
    h2 = h2
    None = None
    Stopper = Stopper
    Callers <- OneCaller
    Changers <- NoChanger
    Conns <- TwoConns
    VMs <- OneVM
    Logins <- TwoLogins
    HostKeys <- OneKey
    Env = {"given"}
SPECIFICATION Spec
INVARIANT GivenIsUsed
CHECK_DEADLOCK FALSE

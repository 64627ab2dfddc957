CONSTANTS
    c1 = c1
    c2 = c2
    a1 = a1
    a2 = a2
    None = None
    Conns <- TwoConns
    Addrs <- TwoAddrs
    Modes = {"direct", "ssh"}
    MaxMoves = 2
SPECIFICATION FairSpec
INVARIANTS TypeOK ReleasedAtEnd LateOnly RightGuest RefusedOnlyIfAway
PROPERTIES HandleEnds
CHECK_DEADLOCK FALSE

CONSTANTS
    p1 = p1
    p2 = p2
    p3 = p3
    u1 = u1
    u2 = u2
    v0 = v0
    None = None
    NoEntry = NoEntry
    Proc = {p1, p2, p3}
    Users <- MCUsers
    UserOf <- MCUserOf
    InitVals <- MCInitVals
    LockAttempts = 2
    MaxSessions = 1
SPECIFICATION Spec
PROPERTY StoreIsAtomic

CONSTANTS
    p1 = p1
    p2 = p2
    p3 = p3
    Proc <- MCProc
    None = None
    MaxCode = 3
    LockAttempts = 2
    MaxSessions = 2
    PamRetries = 1
    PamRetry = 2
    UnlinkLock = FALSE
SYMMETRY MCSymmetry
SPECIFICATION Spec
INVARIANT TypeOK
INVARIANT NoReplay
INVARIANT LockHeldOnlyInWindow

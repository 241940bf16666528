CONSTANTS
    Polls = 3
SPECIFICATION Spec
INVARIANT ExecOnlyUnprivileged
PROPERTY ParentReturns

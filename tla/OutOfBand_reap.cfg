CONSTANTS
    Polls = 3
SPECIFICATION Spec
INVARIANT ReapedOnReturn

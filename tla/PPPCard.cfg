CONSTANTS
    CodeBits = 8
    CounterBits = 12
    MaxPrinted = 2
    CodeLengths <- MCCodeLengths
SPECIFICATION Spec
INVARIANT PositionRoundTrip
PROPERTY SaltPreserved
INVARIANT EncodeMatchesReference
INVARIANT WarningsDrain
PROPERTY WarnedBeforeNothingLeft

CONSTANTS
    u1 = u1
    u2 = u2
    u3 = u3
    v1 = v1
    v2 = v2
    Users <- MCUsers
    Vals <- MCVals
    DbModes = {"global", "user"}
    InitFiles <- MCWellFormedFiles
SPECIFICATION Spec
PROPERTY StoreThenLoad
PROPERTY OthersPreserved
INVARIANT PermissionsMatchPolicy
INVARIANT EntryRoundTrip

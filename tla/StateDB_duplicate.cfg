CONSTANTS
    u1 = u1
    u2 = u2
    u3 = u3
    v1 = v1
    v2 = v2
    Users <- MCUsers
    Vals <- MCVals
    DbModes = {"global"}
    InitFiles <- MCAnyFiles
SPECIFICATION Spec
PROPERTY OthersPreserved

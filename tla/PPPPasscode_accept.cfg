CONSTANTS
    Ciphers <- MCCiphers
    CodeLengths = {2, 3}
    AlphabetIds <- MCAlphabetIds
    CustomLen = 60
    AlphabetMin = 54
    AlphabetMax = 88
    AllowChange = 1
    AlphabetDef = 1
SPECIFICATION Spec


INVARIANT AcceptsOnlyDerived

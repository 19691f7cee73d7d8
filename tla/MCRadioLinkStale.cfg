SPECIFICATION Spec
CONSTANTS
    Tokens <- MCTokens
    Junk = 99
INVARIANT OnlyPendingArms

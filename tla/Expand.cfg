\* Every matrix of a small set, in words of 7 bits.
CONSTANTS
    Matrices <- MCMatrices
    Implementations <- MCImplementations
    Environments <- MCEnvironments
    MaxWord = 127
SPECIFICATION Spec
INVARIANT AsWritten
CHECK_DEADLOCK FALSE

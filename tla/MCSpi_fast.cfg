SPECIFICATION Spec
CONSTANTS
 Transfers <- MCTransfers
 Unit = 26
 Period = 125
 Lates <- MCNoLates
INVARIANT ReadReturnsRegister

SPECIFICATION Spec
CONSTANTS
 Transfers <- MCTransfers
 Unit = 1
 Period = 6
 Lates <- MCLates
PROPERTY ImplementsRegisterFile

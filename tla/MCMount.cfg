CONSTANTS
    Periods <- MCPeriods
    HighSpeed = 4
    RampEnd = 12
SPECIFICATION Spec
INVARIANTS MountInv StopHolds
PROPERTIES ExecuteTakes StopEndsRun

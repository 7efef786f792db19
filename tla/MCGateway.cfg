SPECIFICATION GatewaySpec
CONSTANTS
    Periods = {8}
    Limits = {1, 14}
    Counts = {15}
    FirstPeriod = 4
    MinPeriod = 7
    MaxPeriod = 12
    LongestPeriod = 13
    Steps = 20
    CountEnd = 15
    Center = 8
    Letters = {"G", "I", "H", "S", "J", "L", "f", "E", "j", "F", "a", "P", "s"}
    Data = {1, 2, 13, 15}
    MaxCuts = 1
    MaxWaiting = 2
    Uses <- MCUses
INVARIANTS MotorTypeAgrees ReadsBack
PROPERTIES StartsAsTold Answered
CHECK_DEADLOCK FALSE

SPECIFICATION HostSpec
CONSTANTS
 Modulus = 256
 AccelSteps = 2
 TotalAccel = 70
 AccelMinSteps = 4
 AccelMaxTick = 30
 ResetSpeed = 40
 SpeedmapReset = 30
 IsTmc = TRUE
 ReverseDirection = FALSE
 SpiGap = 8
 CmdControls <- None
 CmdTicks <- None
 CmdDurations <- None
 TrackCtrls <- None
 TrackPecs <- None
 BacklashTicks <- None
 BacklashDurations <- None
 CounterLoads <- None
 CounterMaxes <- None
 MaxOps = 2
 StartTicks = {24}
 HoldTicks = {8}
 MaxStep = 20
 Positions = {20}
 Goals <- RampGoals
 Periods = {16}
 Tracks <- RampTracks
 ParkDirs = {}
 Cancels = {0, 1}
 Backlashes <- RampBacklashes
INVARIANTS TypeOK CounterKeepsUp TakeUpWithinDuration
PROPERTIES PulsesCount OneHump CancelNowStops TakeUpEnds

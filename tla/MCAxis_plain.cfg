SPECIFICATION HostSpec
CONSTANTS
 Modulus = 64
 AccelSteps = 2
 TotalAccel = 20
 AccelMinSteps = 4
 AccelMaxTick = 30
 ResetSpeed = 40
 SpeedmapReset = 30
 IsTmc = TRUE
 ReverseDirection = FALSE
 SpiGap = 8
 CmdControls <- None
 CmdTicks <- None
 CmdDurations <- None
 TrackCtrls <- None
 TrackPecs <- None
 BacklashTicks <- None
 BacklashDurations <- None
 CounterLoads <- None
 CounterMaxes <- None
 MaxOps = 2
 StartTicks = {24}
 HoldTicks = {8, 70}
 MaxStep = 6
 Positions = {6}
 Goals <- PlainGoals
 Periods = {16}
 Tracks <- PlainTracks
 ParkDirs = {0}
 Cancels = {1}
 Backlashes <- None
INVARIANTS CounterKeepsUp CounterInRevolution RestsOnTarget OneRunPerExecute
PROPERTIES RunEnds

SPECIFICATION Spec
CONSTANTS
 Sessions = {s1, s2}
 motor = motor
 sky = sky
 ascom = ascom
 focuser = focuser
 Devices = {common, motor, sky, ascom, focuser}
 Common = common
 Deps <- MCDeps
 Rank <- MCRank
 Nobody = nobody
CHECK_DEADLOCK FALSE
INVARIANTS DriversInv ConstructedOnce ReadyWhenUsed
PROPERTIES CommandArrives

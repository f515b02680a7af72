SPECIFICATION Spec
CONSTANTS
 ChanCap = 1
 MaxBreaks = 1
 MaxSlow = 0
 MaxFails = 0
 MaxInputs = 1
CHECK_DEADLOCK FALSE
PROPERTY InputFollowsDisplay

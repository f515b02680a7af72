SPECIFICATION FairSpec
CONSTANTS
 ChanCap = 1
 MaxBreaks = 2
 MaxSlow = 1
 MaxFails = 2
 MaxInputs = 1
CHECK_DEADLOCK FALSE
INVARIANT TypeOK
INVARIANT StreamInSync
INVARIANT FramesAreCurrent
INVARIANT NoForgottenMonitor
PROPERTY StreamRecovers

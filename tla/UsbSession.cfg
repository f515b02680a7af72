SPECIFICATION FairSpec
CONSTANTS
 InCap = 1
 OutCap = 1
 WireCap = 1
 ClientTypes = {"INPUT_EVENT", "PING"}
 MaxSessions = 2
 MaxClients = 2
 MaxPlugs = 1
CHECK_DEADLOCK FALSE
INVARIANT TypeOK
PROPERTY InputFromPeer
PROPERTY TeardownCompletes
PROPERTY UnplugIsNoticed
PROPERTY AbandonedStreamIsReleased

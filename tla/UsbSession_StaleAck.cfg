SPECIFICATION Spec
CONSTANTS
 InCap = 1
 OutCap = 1
 WireCap = 1
 ClientTypes = {"INPUT_EVENT", "DISCONNECT"}
 MaxSessions = 2
 MaxClients = 2
 MaxPlugs = 0
CHECK_DEADLOCK FALSE
PROPERTY AckIsFresh

SPECIFICATION FairSpec
CONSTANTS
 ChanCap = 1
 WireCap = 2
 ClientTypes = {"INPUT_EVENT", "PING", "DISCONNECT"}
 MaxIn = 2
 MaxOut = 4
CHECK_DEADLOCK FALSE
INVARIANT TypeOK
INVARIANT InputIntact
INVARIANT OutputIntact
PROPERTY GoneClientEndsSession
PROPERTY InputIsTaken
PROPERTY MonitorIsReleased

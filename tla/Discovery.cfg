SPECIFICATION Spec
CONSTANTS
    Hosts = {h1, h2}
    Junk = Junk
    NoPacket = NoPacket
    MaxInbox = 1
    MaxJobs = 2
INVARIANT SocketsAccounted
PROPERTY StoppedListeningEnds
PROPERTY HostIsListed

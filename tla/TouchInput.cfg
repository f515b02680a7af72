SPECIFICATION Spec
CONSTANTS
  MaxFingers = 2
  Places <- MCPlaces
  ViewWidth = 2
  Scale = 7
  DisplayWidth = 3
  MaxQueue = 2
  MaxWire = 1
  MaxSessions = 2
INVARIANT TypeOK
INVARIANT HostFollows
PROPERTY HostCatchesUp

SPECIFICATION StreamSpec
CHECK_DEADLOCK FALSE
CONSTANTS
  Magic <- MCMagic
  Version = 1
  MaxPayload = 2
  Contents <- MCContents
  Count = 3
INVARIANT CutsAreInvisible
INVARIANT LostOnlySwallowed
PROPERTY KeepsPromise
PROPERTY HoldsNothingBack

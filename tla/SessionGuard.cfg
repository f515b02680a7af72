SPECIFICATION FairSpec
CONSTANTS
  c1 = c1
  c2 = c2
  u1 = u1
  u2 = u2
  Clients <- MCClients
  UsbSlots <- MCUsbSlots
  NoSession = NoSession
  WaitTicks = 1
  TimeoutCooldown = 2
  SessionCooldown = 1
INVARIANT TypeOK
INVARIANT GuardNotStranded
INVARIANT GuardExact
INVARIANT UsbSupervised
PROPERTY AccessoryIsOpened
PROPERTY ConnectionIsTaken

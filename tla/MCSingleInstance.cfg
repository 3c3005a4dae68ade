SPECIFICATION FairSpec
CONSTANTS
  Daemons = {d1, d2, d3}
  Clients = {c1, c2}
  Inodes = {old, i1, i2, i3}
  Legacy = old
  Installer = installer
  None = none
  CONNECT_ATTEMPTS = 2
  MaxDisruptions = 3
INVARIANTS
  LiveSocketReachable
  OneServer
PROPERTIES
  CleanExit
  ClientsGetServed
CHECK_DEADLOCK FALSE

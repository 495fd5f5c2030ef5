\* Once the proxy is dropped and its connections are closed nothing happens.
CHECK_DEADLOCK FALSE
SPECIFICATION MCSpec
CONSTANTS
  MaxConns = 2
  Asks <- MCAsks
  Addresses <- MCAddresses
  Lists <- MCLists
  Resolves <- MCResolves
  Cap = 1
  Attempts = 2
  MaxGens = 2
  MaxUpdates = 1
  None = None  AnyPort = AnyPort  BadPort = BadPort
  Command = Command
  h1 = h1  tool = tool  other = other  sh = sh  nowhere = nowhere
INVARIANTS
  PermitsAreExact
  TunnelsWereAllowed
  OneReader
  NothingIsLeft
PROPERTIES
  ControlIsServed
  DeliveryEnds

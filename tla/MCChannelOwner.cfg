\* Requests that are answered and commands that are spent leave nothing to do.
CHECK_DEADLOCK FALSE
SPECIFICATION Spec
CONSTANTS
  MaxCalls = 2
  Policies <- MCPolicies
  StoredRooms <- MCStoredRooms
  Channels <- MCChannels
  Members <- MCMembers
  ManagerDid = "cm"
  Within = 1
  MaxWindows = 2
  Menus <- MCMenus
  Listings <- MCListings
  MaxRestarts = 1
  NoDid = NoDid  NoBinding = NoBinding  Malformed = Malformed  None = None
INVARIANTS
  GrantsAreEarned
  OneVerdict
  
  LocksAreInOrder
PROPERTIES
  EveryCallEnds

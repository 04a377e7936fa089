CONSTANTS
  None = None
  Junk = Junk
  AllowClients <- MCAllow
  DenyAny = TRUE
  BlockedDomains <- MCBlocked
  InitialConfig <- MCConfig
  InitialFiles <- MCFiles
  DataRequests <- MCDataRequests
  ZoneRequests <- MCZoneRequests
  ZoneNames <- MCZoneNames
  ViewRequests <- MCViewRequests
  ViewNames <- MCViewNames
  SectionRequests <- MCSectionRequests
  DirOf <- MCDirOf
  MaxLost = 1
  MaxFaults = 1
  QueryFaults = 0
  Invalid = Invalid
  RateLimited = TRUE
  Clients <- MCClients
  Questions <- MCQuestions
  Zones <- MCZones
  Static <- MCStatic
  Sources <- MCSources
  Expand = TRUE
  EnableRecursion = TRUE
  Iterative = TRUE
  Dns64 = TRUE
  MinimalResponse = FALSE
  MaxDepth = 3
  MaxCalls = 4
  World <- MCWorld
SPECIFICATION Spec
INVARIANTS ChainWhole ViewOnlyStaysLocal ViewDataWins DiskIsServed
PROPERTY EditsKeepOthers
CHECK_DEADLOCK FALSE

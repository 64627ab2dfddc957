SPECIFICATION FairSpec
CONSTANTS
  c1 = c1
  c2 = c2
  c3 = c3
  gold = gold
  d1 = d1
  d2 = d2
  d3 = d3
  NoFile = NoFile
  Root = Root
  NoAddress = NoAddress
  Slots = 2
  Callers <- MCCallers
  Ids <- MCIds
  Paths <- MCPaths
  Names <- MCNames
  Switches <- MCSwitches
  NicIds <- MCNicIds
  Subnets <- MCSubnets
  Adapters <- MCAdapters
  Reports <- MCReports
  Scenes <- MCScenes
INVARIANTS
  TypeOK
  SlotsAreGivenBack
  NamesAreUnique
  RecordsFollowTheirMachine
  BootOrdersAreSound
  AdaptersAreSound
  AddressesAreToldRight
PROPERTIES
  DeleteSparesDisksInUse
  HostKeepsAnAdapter
  OkMeansDone
  CallsKeepContract
  EveryCallEnds
CHECK_DEADLOCK FALSE

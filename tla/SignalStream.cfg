CONSTANTS
  p1 = p1
  s1 = s1
  s2 = s2
  anAddress = anAddress
  Refresher = Refresher
  NoList = NoList
  Nobody = Nobody
  NoCrash = NoCrash
  Providers = {p1}
  Sessions = {s1, s2}
  Spellings = {"lower", "checksummed"}
  Configurations <- MCConfigurations
  NodeAsked <- MCNodeAsked
  RemoteAddr <- MCRemoteAddr
  RefreshEvery = 1
  FetchTime = 1
  ChannelCap = 1
  MaxErrors = 1
  MaxEvents <- MCMaxEvents
  MaxTime = 5
SPECIFICATION Spec
INVARIANTS
  StreamComplete
  SendPanicsOnlyOnLeaver
  AccessEnds
  SubscribersServed
CHECK_DEADLOCK FALSE

\* The conformance tests are run a second time, from the menu.
SPECIFICATION Spec
CONSTANTS
  Hosts = {h1}
  Unlocated = {}
  Wakes = {h1}
  NoLocation = NoLocation
  ResponseTime = 3
  SelectTime = 1
  FetchTime = 1
  MaxSearches = 1
  MaxFaults = 0
  MaxName = 12
  Registered <- NetflixOnly
  Menu <- NetflixOnly
  AppList <- NetflixOnly
  ErrorAppList <- ErrorNames
  Actions <- InputFile
  All <- AllText
  InAddress <- Addresses
  h1 = h1
  h2 = h2
CHECK_DEADLOCK FALSE
INVARIANT CleanedUpNotUsed

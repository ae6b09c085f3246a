\* A client, two servers that stop and start, two searches and two runs of the
\* conformance tests; one server writes its headers otherwise.
\* The client may end, and then only the servers go on.
SPECIFICATION Spec
CONSTANTS
  Hosts = {h1, h2}
  Unlocated = {h2}
  Wakes = {h1}
  NoLocation = NoLocation
  ResponseTime = 3
  SelectTime = 1
  FetchTime = 1
  MaxSearches = 2
  MaxFaults = 2
  MaxName = 12
  Registered <- NetflixOnly
  Menu <- NetflixOnly
  AppList <- NetflixOnly
  ErrorAppList <- ErrorNames
  Actions <- InputFile
  All <- AllText
  InAddress <- Addresses
  h1 = h1
  h2 = h2
CHECK_DEADLOCK FALSE
INVARIANTS ListedWasUp DeletedNotUsed CommandWorks
PROPERTIES VerdictFromOwnTest DirectorySpec SearchEnds

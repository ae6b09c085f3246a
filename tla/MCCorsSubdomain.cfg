\* The origins and the lists of candidates, among the other samples.
SPECIFICATION MCSpec
CONSTANTS
  Requests <- AllRequests
  BufSize = 6
  MaxHeaders = 2
  DiscardSize = 2
  MaxRequests = 2
  MaxWord = 2
  MaxPayload = 4
  PayloadExtra = 2
  DataMax = 8
  MaxName = 10
  Texts <- MCTexts
  AppNames <- MCAppNames
  Uris <- MCUris
  Queries <- MCQueries
  ParamNames <- MCParamNames
  Origins <- MCOrigins
  CandidateLists <- MCCandidateLists
  MaxKills = 1
  MaxDiskFull = 1
  MaxHostCalls = 1
INVARIANT SubdomainsAsDocumented

\* Requests of every kind, cut into pieces in every way, a server that is killed
\* and a full disk; and the samples of texts.
SPECIFICATION MCSpec
CONSTANTS
  Requests <- AllRequests
  BufSize = 6
  MaxHeaders = 2
  DiscardSize = 2
  MaxRequests = 2
  MaxWord = 2
  MaxPayload = 4
  PayloadExtra = 2
  DataMax = 8
  MaxName = 10
  Texts <- MCTexts
  AppNames <- MCAppNames
  Uris <- MCUris
  Queries <- MCQueries
  ParamNames <- MCParamNames
  Origins <- MCOrigins
  CandidateLists <- MCCandidateLists
  MaxKills = 1
  MaxDiskFull = 1
  MaxHostCalls = 1
INVARIANTS BodyIsContent SegmentationIndependent ClosedWithAnswer
           AnsweredIsStored NeverMixed
           UrlRoundTrip  EncodedFits DataForNamedApp PathsReachTheirApp
           NoParentDirectory ParamByName OriginMatching

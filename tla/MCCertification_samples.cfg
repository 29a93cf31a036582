SPECIFICATION CertifySpec
CONSTANTS
  Paths <- MCPaths
  Samples <- MCSamples
  Situations <- MCSituations
  Tools <- MCTools
  ProbeFloor = 9999
  Currency = "usd"
  DefaultSkew = 5
  DefaultBuyer = "buyer"
  DefaultSeat = "seat"
  Missing = Missing
  None = None
INVARIANTS
  CertifyTypeOK
  GoodReportsAreComplete
  CarefulBidderPasses
  LoadedCampaignsAdmitted
CHECK_DEADLOCK FALSE

CONSTANTS
  Handlers = {h1, h2}
  Requests <- MCRequests
  Rank <- MCRank
  TMaxMargin = 0
  ContextMargin = 0
  WriteTimeout = 1
  ShutdownTimeout = 1
  Campaigns <- MCCampaigns
  BidCPM <- MCBidCPM
  DailyBudget <- MCDailyBudget
  QPS <- MCQPS
  EvenPaced <- MCEvenPaced
  PacingTolerance <- MCPacingTolerance
  SecondsPerDay = 4
  MinElapsed = 1
  StartSecond = 1
  LastSecond = 3
  MaxLag = 3
  Overtaking = TRUE
  MaxRestarts = 0
  MaxOpenings = 9
  MaxBids = 9
  NoCampaign = NoCampaign
SPECIFICATION ServerSpec
SYMMETRY Symmetry
INVARIANTS
  ServerTypeOK
  ChargesAndCountsAgree
  ScrapeChargesCoverBids
CHECK_DEADLOCK FALSE

CONSTANTS
  Handlers = {h1, h2}
  Requests <- MCTimedRequests
  Rank <- MCRank
  TMaxMargin = 0
  ContextMargin = 0
  WriteTimeout = 1
  ShutdownTimeout = 1
  Campaigns <- MCCampaigns
  BidCPM <- MCBidCPM
  DailyBudget <- MCDailyBudget
  QPS <- MCQPS
  EvenPaced <- MCEvenPaced
  PacingTolerance <- MCPacingTolerance
  SecondsPerDay = 2
  MinElapsed = 1
  StartSecond = 1
  LastSecond = 2
  MaxLag = 3
  Overtaking = TRUE
  MaxRestarts = 1
  MaxOpenings = 9
  MaxBids = 9
  NoCampaign = NoCampaign
SPECIFICATION ServerSpec
PROPERTIES
  UsesEngine
  EveryRequestEnds
CHECK_DEADLOCK FALSE

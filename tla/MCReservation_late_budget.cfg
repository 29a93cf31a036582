CONSTANTS
  Campaigns <- MCCampaigns
  BidCPM <- MCBidCPM
  DailyBudget <- MCDailyBudget
  QPS <- MCQPS
  EvenPaced <- MCEvenPaced
  PacingTolerance <- MCPacingTolerance
  SecondsPerDay = 2
  MinElapsed = 1
  StartSecond = 1
  LastSecond = 4
  MaxLag = 2
  Overtaking = TRUE
  MaxRestarts = 0
  MaxOpenings = 2
  MaxBids = 3
  NoCampaign = NoCampaign
SPECIFICATION Spec
INVARIANT DailyBudgetKept
CHECK_DEADLOCK FALSE

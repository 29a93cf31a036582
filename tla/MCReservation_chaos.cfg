CONSTANTS
  Campaigns <- MCCampaigns
  BidCPM <- MCBidCPM
  DailyBudget <- MCDailyBudget
  QPS <- MCQPS
  EvenPaced <- MCEvenPaced
  PacingTolerance <- MCPacingTolerance
  SecondsPerDay = 2
  MinElapsed = 1
  StartSecond = 1
  LastSecond = 4
  MaxLag = 2
  Overtaking = TRUE
  MaxRestarts = 1
  MaxOpenings = 2
  MaxBids = 3
  NoCampaign = NoCampaign
SPECIFICATION Spec
INVARIANTS
  BudgetPerOpening
  QPSPerWindow
  SnapshotNeverOverstates
CHECK_DEADLOCK FALSE

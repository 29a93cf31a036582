CONSTANTS
  Campaigns <- MCCampaigns
  BidCPM <- MCBidCPM
  DailyBudget <- MCDailyBudget
  QPS <- MCQPS
  EvenPaced <- MCEvenPaced
  PacingTolerance <- MCPacingTolerance
  SecondsPerDay = 3
  MinElapsed = 1
  StartSecond = 1
  LastSecond = 6
  MaxLag = 2
  Overtaking = FALSE
  MaxRestarts = 0
  MaxOpenings = 1
  MaxBids = 3
  NoCampaign = NoCampaign
SPECIFICATION Spec
INVARIANTS
  TypeOK
  DailyBudgetKept
  QPSKept
  PacingKept
  SnapshotExactUnlessOvertaken
PROPERTY ImplementsLedger

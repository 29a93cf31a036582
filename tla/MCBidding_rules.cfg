SPECIFICATION Spec
CONSTANTS
  Requests <- MCRequests
  Portfolios <- MCPortfolios
  Currency = "usd"
  Engines <- MCEngines
  None = None
INVARIANTS
  BiddingTypeOK
  CarefulBidsAreValid
  PrivacyKept
  BestIsFirstHighest
CHECK_DEADLOCK FALSE

SPECIFICATION RelaySpec
CONSTANTS
  Bodies <- MCBodies
  Lanes <- MCLanes
  Headers = {"", "2.6", "2.4", "1.0"}
  Accepts = {{}, {"2.5"}, {"2.6", "2.4", "legacy_2.x"}}
  Portfolios <- MCPortfolios
  Currency = "usd"
  Engines <- MCEngines
INVARIANTS
  RelayTypeOK
  DecodedRequestsAdmitted
  HarnessCallsDecode
  ViewsAgree
  ChildDirectedKept
  CarefulAnswersStand
CHECK_DEADLOCK FALSE

SPECIFICATION FanoutSpec
CONSTANTS
  Manifests <- MCManifests
  Markets = {"", "pm", "none"}
  Selections = {"", "b1"}
  Samples <- MCSamples
  Answers <- MCAnswers
  BuyerRank <- MCBuyerRank
  None = None
INVARIANTS
  FanoutTypeOK
  WinnerIsBestCandidate
  OKMeansCompleteAuction
  LaneTermsKept
  SupplyCarriesVAST
CHECK_DEADLOCK FALSE

SPECIFICATION Spec
CONSTANTS
  a = a
  b = b
  c = c
  d = d
  Cand = {a, b, c}
  NoOne = none
  CompanyOf <- OwnCompanies
  Rank <- RankOf
  Bucket = {"peers"}
  FirstClass <- AllPeers
  Legacy <- OneLegacy
  Request = {}
  NoRequest = noRequest
  Counts = {2}
  MaxNow = 3
  UtcDay <- UtcDays
  CampaignDay <- CampaignDays
  MaxGens = 2
  MaxDispositions = 2
  MaxApprovals = 1
  MaxReviews = 0
CHECK_DEADLOCK FALSE
INVARIANT UncertainStaysListed
PROPERTIES
  SkippedTodayNotAdded
  ReplacementIsShown

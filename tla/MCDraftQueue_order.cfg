SPECIFICATION Spec
CONSTANTS
  a = a
  b = b
  c = c
  d = d
  Cand = {a, b, c, d}
  NoOne = none
  CompanyOf <- OwnCompanies
  Rank <- RankOf
  Bucket = {"peers"}
  FirstClass <- AllPeers
  Legacy <- NothingLegacy
  Request = {}
  NoRequest = noRequest
  Counts = {1, 2, 3}
  MaxNow = 1
  UtcDay <- OneDay
  CampaignDay <- OneDay
  MaxGens = 2
  MaxDispositions = 2
  MaxApprovals = 0
  MaxReviews = 0
CHECK_DEADLOCK FALSE
PROPERTY SkipKeepsOrder

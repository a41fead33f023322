SPECIFICATION Spec
CONSTANTS
  a = a
  b = b
  c = c
  d = d
  Cand = {a, b, c}
  NoOne = none
  CompanyOf <- OwnCompanies
  Rank <- RankOf
  Bucket = {"peers", "managers"}
  FirstClass <- AllPeers
  Legacy <- NothingLegacy
  Request = {}
  NoRequest = noRequest
  Counts = {2}
  MaxNow = 1
  UtcDay <- OneDay
  CampaignDay <- OneDay
  MaxGens = 2
  MaxDispositions = 2
  MaxApprovals = 1
  MaxReviews = 1
CHECK_DEADLOCK FALSE
INVARIANT SentLeavesDrafts

SPECIFICATION Spec
CONSTANTS
  a = a
  b = b
  c = c
  d = d
  Cand = {a, b}
  NoOne = none
  CompanyOf <- OwnCompanies
  Rank <- RankOf
  Bucket = {"peers", "managers"}
  FirstClass <- Mixed
  Legacy <- OneLegacy
  Request = {}
  NoRequest = noRequest
  Counts = {1, 2}
  MaxNow = 2
  UtcDay <- PlainDays
  CampaignDay <- PlainDays
  MaxGens = 3
  MaxDispositions = 1
  MaxApprovals = 2
  MaxReviews = 2
CHECK_DEADLOCK FALSE
PROPERTIES
  EditsKept
  AddKeepsDrafts

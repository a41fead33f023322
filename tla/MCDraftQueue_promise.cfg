SPECIFICATION Spec
CONSTANTS
  a = a
  b = b
  c = c
  d = d
  Cand = {a, b, c}
  NoOne = none
  CompanyOf <- TwoCompanies
  Rank <- RankOf
  Bucket = {"peers"}
  FirstClass <- AllPeers
  Legacy <- NothingLegacy
  Request = {q1}
  NoRequest = noRequest
  Counts = {2}
  MaxNow = 2
  UtcDay <- WeekendUtc
  CampaignDay <- WeekendCampaign
  MaxGens = 3
  MaxDispositions = 2
  MaxApprovals = 2
  MaxReviews = 0
CHECK_DEADLOCK FALSE
INVARIANTS
  TypeOK
  OneContactPerCompany
  UncertainStaysListed
  DispositionsAgree
PROPERTIES
  KeepsPromise

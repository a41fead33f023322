SPECIFICATION Spec
CONSTANTS
  s1 = s1
  s2 = s2
  c1 = c1
  Snapshots = {s1}
  Candidates = {c1}
  CandidateOf <- OnePerson
  BaseSnapshot <- BaseOfOne
  Resolvable = {s1}
  Requests = {r1, r2}
  NoSnapshot = NoSnapshot
  WritesMayFail = FALSE
  MaxCrashes = 0
INVARIANTS
  AtMostOneGmailDraft
PROPERTIES
  RequestsFinish
  SentIsRecorded
  ExclusionIsFinal

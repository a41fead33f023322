SPECIFICATION Spec
CONSTANTS
  rita = rita
  lena = lena
  recruiters = recruiters
  People = {rita, lena}
  NoOne = NoOne
  Queued <- OnlyRita
  Waiting <- OnlyLena
  Recruiters = {rita, lena}
  Bucket = {recruiters}
  Legacy = Legacy
  BucketOf <- LegacyRita
  DefaultResume <- CvForLena
  Patches = {"edited", "without"}
  MaxEdits = 1
  MaxElsewhere = 1
  MaxReloads = 0
INVARIANTS
  TypeOK
  MailsWhatWasConfirmed
  ShowsWhatWasTyped

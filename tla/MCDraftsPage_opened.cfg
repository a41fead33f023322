SPECIFICATION Spec
CONSTANTS
  rita = rita
  lena = lena
  recruiters = recruiters
  People = {rita, lena}
  NoOne = NoOne
  Queued <- BothQueued
  Waiting <- Nobody
  Recruiters = {rita, lena}
  Bucket = {recruiters}
  Legacy = Legacy
  BucketOf <- AllBuckets
  DefaultResume <- CvForLena
  Patches = {"edited", "without"}
  MaxEdits = 1
  MaxElsewhere = 0
  MaxReloads = 0
PROPERTIES
  ConfirmsTheOpenedDraft

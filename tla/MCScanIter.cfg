SPECIFICATION FairSpec
CONSTANTS
  a = a
  b = b
  c = c
  d = d
  Item <- MCItem
  Buckets = 3
  Bucket <- MCBucket
  Matching <- MCMatching
  Undecodable <- MCUndecodable
INVARIANTS TypeOK NothingMissed NoRepeat
PROPERTIES CallsEnd

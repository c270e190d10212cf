\* Two consumers of one group over a stream of at most two entries, old and new servers.
SPECIFICATION Spec
CONSTANTS
  ca = ca
  cb = cb
  k1 = k1
  k2 = k2
  g = g
  Consumer = {ca, cb}
  Requests <- MCRequests
  Queries <- MCQueries
  Sweeper = {ca}
  MaxId = 2
  MaxDeliveries = 1
INVARIANTS TypeOK TypedCall NothingLost SweepIsComplete

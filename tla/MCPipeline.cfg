\* Two tasks share a connection; up to two faults; every job.
SPECIFICATION Spec
CONSTANTS
  Task = {t1, t2}
  x = x
  y = y
  Key = {x}
  Job <- MCJobAll
  MaxFaults = 2
SYMMETRY MCSymmetry
CHECK_DEADLOCK FALSE
INVARIANTS TypeOK TransactionIsAtomic RepeatedOnlyIfAllowed OkMeansApplied RaisedNotInline

\* Two threads and a task on a runtime with one worker, which is all that answers need.
SPECIFICATION FairSpec
CONSTANTS
  t1 = t1
  t2 = t2
  k1 = k1
  p1 = p1
  p2 = p2
  r1 = r1
  k = k
  gone = gone
  Thread = {t1, t2}
  Task = {k1}
  Workers = 1
  Ops <- MCOps
  Inner <- MCInner
  Primary = {p1, p2}
  Replica = {r1}
  Owner <- MCOwner
  ReplicasOf <- MCReplicasOf
  SlotOf <- MCSlotOf
  Policy <- MCPolicy
  ReadOnly = {"GET"}
  MaxBuildFailures = 1
INVARIANTS TypeOK OneRuntime RepeatableAfterPanic OutcomeIsTrue
PROPERTY CallsEnd

\* Three callers, so that two can keep overtaking a third, and every push shape.
SPECIFICATION FairSpec
CONSTANTS
  Task = {t1, t2, t3}
  c1 = c1
  p1 = p1
  Push <- MCPushAll
  MaxSent = 2
INVARIANTS TypeOK SingleConsumer ExactlyOnceInOrder ClosedMeansDrained
PROPERTIES NoneMeansNoMessage ImplementsStream WaitingGetIsServed CloseReleasesCallers

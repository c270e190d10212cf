\* No faults at all: two transactions of two tasks on one client.
SPECIFICATION Spec
CONSTANTS
  Task = {t1, t2}
  x = x
  y = y
  Key = {x, y}
  Job <- MCJobWatch
  MaxFaults = 0
CHECK_DEADLOCK FALSE
INVARIANTS WatchProtects

\* Two callers, two keys, three slots of which one is empty, two ids.
SPECIFICATION Spec
CONSTANTS
  k1 = k1
  k2 = k2
  s1 = s1
  s2 = s2
  Caller = {c1, c2}
  Key = {k1, k2}
  Slot = {s1, s2, s3}
  SlotOf <- MCSlotOf
  Matching = {k1, k2}
  Typed = {k1}
  MaxIds = 2
SYMMETRY MCSymmetry
INVARIANTS TypeOK NothingMissed OnceAndAsked CursorStaysValid

\* Two callers: a get on an empty channel and a try behind it.
SPECIFICATION FairSpec
CONSTANTS
  Task = {t1, t2}
  c1 = c1
  p1 = p1
  Push <- MCPushFew
  MaxSent = 1
PROPERTIES TryDoesNotBlock

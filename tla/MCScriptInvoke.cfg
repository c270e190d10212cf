\* Two invocations of one script over two nodes; no symmetry, for liveness.
SPECIFICATION FairSpec
CONSTANTS
  Invocation = {i1, i2}
  Node = {n1, n2}
  Script = {s1}
  k1 = k1
  k2 = k2
  a1 = a1
  Word = {k1, k2, a1}
  Params <- MCParams
  RunReplies = {"ok", "error"}
INVARIANTS TypeOK AtMostOnce ReplyMeansRun NoScriptIsHidden
PROPERTIES InvocationsEnd

\* The script may itself answer an error that begins with NOSCRIPT.
SPECIFICATION Spec
CONSTANTS
  Invocation = {i1}
  Node = {n1}
  Script = {s1}
  k1 = k1
  k2 = k2
  a1 = a1
  Word = {k1, k2, a1}
  Params <- MCParamsFew
  RunReplies = {"ok", "noscript"}
INVARIANTS FallbackOnlyIfUnknown

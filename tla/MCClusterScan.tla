--------------------------- MODULE MCClusterScan ---------------------------
(* TLC instance of ClusterScan: one key that every filter admits and one     *)
(* that only the pattern does, and a slot that holds no key.                 *)
EXTENDS ClusterScan, TLC

CONSTANTS k1, k2, s1, s2

MCSlotOf == [k \in Key |-> IF k = k1 THEN s1 ELSE s2]
MCSymmetry == Permutations(Caller)
=============================================================================

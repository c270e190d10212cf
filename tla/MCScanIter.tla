----------------------------- MODULE MCScanIter -----------------------------
(* TLC instance of ScanIter: two items share a bucket, one bucket holds none *)
(* that match, one item does not decode.                                     *)
EXTENDS ScanIter

CONSTANTS a, b, c, d

MCItem == {a, b, c, d}
MCBucket == [x \in MCItem |-> CASE x = a -> 0 [] x = b -> 1 [] x = c -> 2 [] x = d -> 2]
MCMatching == {a, c}
MCUndecodable == {d}
=============================================================================

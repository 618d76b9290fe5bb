----------------------------- MODULE MCScanQueue -----------------------------
(* Instances of ScanQueue for TLC.                                          *)
EXTENDS ScanQueue, TLC

CONSTANTS p1, p2, p3, h1, h2

PhotoSymmetry == Permutations(Photos) \cup Permutations(Hands)
=============================================================================

--------------------------- MODULE MCRefreshFamily ---------------------------
(* Instances of RefreshFamily for TLC.                                      *)
EXTENDS RefreshFamily, TLC

CONSTANTS q1, q2, q3, q4, q5, t1, t2, t3, t4, t5

\* Requests are interchangeable, and so are the tokens that are not legacy.
Symmetry == Permutations(Requests) \cup Permutations(Tokens \ Legacy)
=============================================================================

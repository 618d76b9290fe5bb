----------------------------- MODULE MCScanQuota -----------------------------
(* Instances of ScanQuota for TLC.                                          *)
EXTENDS ScanQuota, TLC

CONSTANTS u1, u2, r1, r2, r3

\* Every request is u1's.
OneUser == [r \in Requests |-> u1]
\* The last request is u2's.
TwoUsers == [r \in Requests |-> IF r = r3 THEN u2 ELSE u1]
One == [u \in Users |-> 1]
Two == [u \in Users |-> 2]
Three == [u \in Users |-> 3]
Zero == [u \in Users |-> 0]
AllReplies == Outcomes
FewReplies == {"books", "nomatch", "timeout"}
ZeroReplies == {"books", "refused"}
Prices == {1, 3}
OnePrice == {1}
RequestSymmetry == Permutations(Requests)
=============================================================================

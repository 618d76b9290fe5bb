---------------------------- MODULE MCScanRecords ----------------------------
(* Instances of ScanRecords for TLC.                                        *)
EXTENDS ScanRecords, TLC

CONSTANTS q1, q2, q3, q4, pA, pB, pC

\* Requests for the same kind of scan are interchangeable, and so are photos.
Symmetry ==
    Permutations(Requests \ Enhanced) \cup Permutations(Enhanced) \cup Permutations(Photos)

\* Two photos, each scanned by a standard and by an enhanced request: the
\* smallest instance in which saves wait for one another in a circle.
CrossedInit == Init /\ photo = (q1 :> pA @@ q2 :> pB @@ q3 :> pA @@ q4 :> pB)
CrossedSpec == CrossedInit /\ [][Next]_vars /\ Fairness
=============================================================================

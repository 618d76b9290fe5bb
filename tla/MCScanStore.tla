----------------------------- MODULE MCScanStore -----------------------------
(* An instance of ScanStore for TLC.                                          *)
EXTENDS ScanStore, TLC

\* Any two photos, or accounts, are alike.
Symmetry == Permutations(Photos) \cup Permutations(Accounts)
=============================================================================

--------------------------- MODULE MCVersionStore ---------------------------
(* Small instances of VersionStore, watched for overlaps, for TLC.         *)
EXTENDS VersionStoreOverlap, TLC

\* Keys, values and sessions are interchangeable (safety only).
Symmetry == Permutations(Keys) \cup Permutations(Values) \cup Permutations(Txs)
=============================================================================

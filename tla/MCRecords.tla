----------------------------- MODULE MCRecords -----------------------------
(* Instances of VersionedRecords for TLC.                                  *)
EXTENDS VersionedRecords, TLC

Symmetry ==
  Permutations(Sessions) \cup Permutations(Records) \cup Permutations(Codes)
=============================================================================

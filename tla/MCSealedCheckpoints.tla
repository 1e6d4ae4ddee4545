------------------------ MODULE MCSealedCheckpoints --------------------------
(* Small instances of SealedCheckpoints for TLC. *)
EXTENDS SealedCheckpoints, TLC

Symmetry ==
  Permutations(Worker) \cup Permutations(ManifestId) \cup Permutations(Version)
=============================================================================

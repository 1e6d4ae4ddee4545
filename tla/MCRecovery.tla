----------------------------- MODULE MCRecovery -----------------------------
(* Small instances of Recovery and RecoveryClients for TLC. *)
EXTENDS RecoveryClients, TLC

CONSTANTS p1, p2, p3, p4

\* One that is not safe, and of the others one more than may be asked.
FourPeers == <<p1, p2, p3, p4>>

Symmetry == Permutations(ManifestId) \cup Permutations(WatermarkId)
=============================================================================

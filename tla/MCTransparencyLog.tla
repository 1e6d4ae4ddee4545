-------------------------- MODULE MCTransparencyLog --------------------------
(* Small instances of TransparencyLog for TLC. *)
EXTENDS TransparencyLog, TLC

\* Workers are interchangeable, manifests are, and so are the versions of a
\* manifest: no action tells one from another.
Symmetry ==
  Permutations(Worker) \cup Permutations(ManifestId) \cup Permutations(Version)
=============================================================================

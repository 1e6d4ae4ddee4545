----------------------------- MODULE MCByoUpload -----------------------------
(* A small instance of ByoUpload for TLC. *)
EXTENDS ByoUpload, TLC

CONSTANTS cat, dog, poster, film, text

\* Two images of one size, a larger one, one over the cap, and one that is no image.
Sizes4 == [c \in Content |-> CASE c \in {cat, dog, text} -> 1 [] c = poster -> 2 [] c = film -> 3]

Symmetry == Permutations(Request) \cup Permutations(Key) \cup Permutations({cat, dog})
=============================================================================

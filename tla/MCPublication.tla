--------------------------- MODULE MCPublication ---------------------------
(* Small instances of Publication: see MCPublication*.cfg.  Neither the      *)
(* publishers nor the manifests are told apart: each is a shape of its own.  *)
EXTENDS Publication, TLC

Symmetry == Permutations(Publishers) \cup Permutations(Manifests)
=============================================================================

----------------------------- MODULE MCDiscovery -----------------------------
(* Instances of Discovery small enough for TLC. *)
EXTENDS Discovery, TLC

\* Handlers are alike, and so are the pages; databases are not pages.
Symmetry == Permutations(Handlers) \cup Permutations(Items \ Databases)
=============================================================================

----------------------------- MODULE MCRegistry -----------------------------
(* Small instances of Registry.                                            *)
EXTENDS Registry, TLC

(* Clients are interchangeable; the merge order of the venues is not       *)
(* modelled, so they are as well.                                          *)
Symmetry == Permutations(Clients) \cup Permutations(Venues)
=============================================================================

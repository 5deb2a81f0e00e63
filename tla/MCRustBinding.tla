--------------------------- MODULE MCRustBinding ---------------------------
(* TLC instance of RustBinding: model values for threads and values, and   *)
(* the symmetry of their names.                                            *)
EXTENDS RustBinding, TLC

Symmetry ==
  Permutations(Addrs) \cup Permutations(Threads) \cup Permutations(Worlds)
    \cup Permutations(Worksets) \cup Permutations(Views) \cup Permutations(Items)
=============================================================================

---------------------------- MODULE MCPyBinding ----------------------------
(* TLC instance of PyBinding: model values for the objects, and the        *)
(* symmetry of their names, which no definition distinguishes.             *)
EXTENDS PyBinding, TLC

Symmetry ==
  Permutations(Addrs) \cup Permutations(Worlds) \cup Permutations(Views)
    \cup Permutations(Groups) \cup Permutations(Frames)
=============================================================================

---------------------------- MODULE MCCppBinding ----------------------------
(* TLC instance of CppBinding: model values for variables and objects, and *)
(* the symmetry of their names, which no definition distinguishes.         *)
EXTENDS CppBinding, TLC

Symmetry ==
  Permutations(Addrs) \cup Permutations(Worlds) \cup Permutations(States)
    \cup Permutations(Views)
=============================================================================

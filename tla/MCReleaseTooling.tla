-------------------------- MODULE MCReleaseTooling --------------------------
(* TLC instance of ReleaseTooling: the interpreters are interchangeable.   *)
EXTENDS ReleaseTooling, TLC

Symmetry == Permutations(Abis)
=============================================================================

------------------------------ MODULE MCDenseDb ------------------------------
(* TLC instance of DenseDb. *)
EXTENDS DenseDb
=============================================================================

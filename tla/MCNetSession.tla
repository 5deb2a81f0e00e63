----------------------------- MODULE MCNetSession -----------------------------
(* TLC instance of NetSession. *)
EXTENDS NetSession
=============================================================================

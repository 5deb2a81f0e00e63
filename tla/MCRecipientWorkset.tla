------------------------- MODULE MCRecipientWorkset -------------------------
(* TLC instances of RecipientWorkset: one workset handed over between      *)
(* ticks, and several variables and native worksets.                       *)
EXTENDS RecipientWorkset, TLC

Symmetry ==
  Permutations(Addrs) \cup Permutations(Handles) \cup Permutations(Natives)
    \cup Permutations(Views) \cup Permutations(Entities)
    \cup Permutations(Channels) \cup Permutations(Recipients)
=============================================================================

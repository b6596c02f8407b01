--------------------------- MODULE MCInteraction ----------------------------
(* One channel, with its publishers and senders interchangeable. *)
EXTENDS Interaction, TLC

Symmetry == Permutations(Publishers) \cup Permutations(Senders)
=============================================================================

------------------------ MODULE MCAccountCredential ------------------------
(* An instance of AccountCredential with a few processes and grants.       *)
EXTENDS AccountCredential, TLC

Symmetry ==
    Permutations(Apis) \cup Permutations(Attempts) \cup Permutations(States)
      \cup Permutations(Callbacks)

=============================================================================

--------------------------- MODULE MCSessionTokens ---------------------------
(* An instance of SessionTokens with a few tokens and concurrent calls.    *)
EXTENDS SessionTokens, TLC

Symmetry == Permutations(Tokens) \cup Permutations(Calls)

=============================================================================

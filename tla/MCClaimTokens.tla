---------------------------- MODULE MCClaimTokens ----------------------------
(* ClaimTokens on small instances. *)
EXTENDS ClaimTokens, TLC

CONSTANTS j1, j2, c1, c2, k1, k2, k3

\* Tokens and callers are interchangeable.
Symmetric == Permutations(Caller) \cup Permutations(Token)

=============================================================================

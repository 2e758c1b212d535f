--------------------------- MODULE MCOAuthTokens ---------------------------
(* Small instances of OAuthTokens for TLC. *)
EXTENDS OAuthTokens, TLC

\* Request slots, codes and clients are interchangeable.
TokenSymmetry ==
  Permutations(Slots) \cup Permutations(Clients) \cup Permutations(Codes)
=============================================================================

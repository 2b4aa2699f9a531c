--------------------------- MODULE MCOAuthTokens ---------------------------
(***************************************************************************)
(* OAuthTokens for TLC.  Pulls and clients are interchangeable.            *)
(***************************************************************************)
EXTENDS OAuthTokens, TLC

Interchangeable == Permutations(Pulls) \cup Permutations(Clients)
=============================================================================

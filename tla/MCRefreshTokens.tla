--------------------------- MODULE MCRefreshTokens ---------------------------
(* One user with a cap of two sessions, three tokens, two requests at a    *)
(* time: the least in which a cap is exceeded while a rotation is under    *)
(* way, and a family is forked and revoked.                                *)
EXTENDS RefreshTokens, TLC

MCSymmetry == Permutations(Requests)
=============================================================================

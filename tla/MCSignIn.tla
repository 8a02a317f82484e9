------------------------------ MODULE MCSignIn ------------------------------
(* One broker client, one authorization, and a redirect URI the client has *)
(* not registered; two people, of whom one may take over the other's       *)
(* address; three requests: a callback and two exchanges of its code, two  *)
(* callbacks and an exchange, or three logins that meet in                 *)
(* findOrCreateUser.                                                       *)
EXTENDS SignIn, TLC

MCRegistered == {<<c, CHOOSE w \in Uris : TRUE>> : c \in Clients}
MCSymmetry == Permutations(Accounts) \union Permutations(Requests)
                \union Permutations(Subs) \union Permutations(Emails)
=============================================================================

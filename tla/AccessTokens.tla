---------------------------- MODULE AccessTokens ----------------------------
(***************************************************************************)
(* Access tokens from the key that signs them to the two places that       *)
(* verify them: the server itself (authenticate), and the backend of a     *)
(* consuming application through the SDK, which learns the keys from       *)
(* /.well-known/jwks.json and then forwards the token to the server        *)
(* (gub.org).  A key is rotated by a new secret and a rolling deployment:  *)
(* an instance loads the secret's key when it starts and serves, signs and *)
(* verifies with that one key until it stops.                              *)
(***************************************************************************)
EXTENDS FiniteSets

CONSTANTS Keys,      \* signing key pairs
          Kid,       \* Kid[k]: the JWT_KEY_ID deployed with key k
          First,     \* the key in the secret at first
          Audience,  \* JWT_AUDIENCE, the server's own
          Apps, App, \* appIds; that of the consuming backend
          Tokens,    \* access tokens at a time
          Hosts,     \* server instances
          NoKey

VARIABLES secret, \* the key in Secret Manager
          loaded, \* loaded[i]: the key instance i runs with
          token,  \* the access tokens
          sdk     \* the consuming backend's view of the server

Token == [state : {"none", "valid", "expired"}, key : Keys \union {NoKey},
          aud : SUBSET (Apps \union {Audience})]
NoToken == [state |-> "none", key |-> NoKey, aud |-> {}]
Issued == {t \in Tokens : token[t].state # "none"}

-----------------------------------------------------------------------------
(* The server *)

Rotate(k) == /\ k # secret
             /\ secret' = k
             /\ UNCHANGED <<loaded, token, sdk>>

Load(i) == /\ loaded' = [loaded EXCEPT ![i] = secret]
           /\ UNCHANGED <<secret, token, sdk>>
Unload(i) == /\ loaded' = [loaded EXCEPT ![i] = NoKey]
             /\ UNCHANGED <<secret, token, sdk>>

(* A sign-in or a refresh that names its application gets a token for both *)
(* verifiers; one that does not, for the server alone.                     *)
\* Mutant: a token for an application is not for the server as well.
MutAudienceOf(a) == IF a \in Apps THEN {a} ELSE {Audience}
AudienceOf(a) == IF a \in Apps THEN {a, Audience} ELSE {Audience}
signAccessToken(i, t, a) ==
  /\ token[t].state # "valid"
  /\ loaded[i] # NoKey
  /\ token' = [token EXCEPT ![t] = [state |-> "valid", key |-> loaded[i],
                                    aud |-> AudienceOf(a)]]
  /\ UNCHANGED <<secret, loaded, sdk>>

Expire(t) == /\ token[t].state = "valid"
             /\ token' = [token EXCEPT ![t].state = "expired"]
             /\ UNCHANGED <<secret, loaded, sdk>>

(* The server checks the signature against its one key, whatever the kid.  *)
verifyAccessToken(i, t) ==
  IF token[t].key # loaded[i] THEN "JWSSignatureVerificationFailed"
  ELSE IF Audience \notin token[t].aud THEN "JWTClaimValidationFailed"
  ELSE IF token[t].state = "expired" THEN "JWTExpired" ELSE "ok"

errorHandler(e) ==
  CASE e = "JWTExpired" -> "TOKEN_EXPIRED"
    [] e = "JWSSignatureVerificationFailed" -> "INVALID_TOKEN"
    [] OTHER -> "INTERNAL_ERROR"

authenticate(i, t) ==
  LET e == verifyAccessToken(i, t) IN IF e = "ok" THEN "ok" ELSE errorHandler(e)

-----------------------------------------------------------------------------
(* The consuming backend *)

(* The discovery document is fetched once it is needed and then kept; the  *)
(* key set is `cooling` for half a minute after a fetch and `stale` ten    *)
(* minutes after it.  A fetch that fails changes nothing.                  *)
Sdk == [discovered : BOOLEAN, jwks : Keys \union {NoKey},
        age : {"cooling", "fresh", "stale"}]
NoSdk == [discovered |-> FALSE, jwks |-> NoKey, age |-> "stale"]

Discover(i) == /\ ~sdk.discovered
               /\ loaded[i] # NoKey
               /\ sdk' = [sdk EXCEPT !.discovered = TRUE]
               /\ UNCHANGED <<secret, loaded, token>>

KidMissing(t) == Kid[token[t].key] # Kid[sdk.jwks]

(* A verification fetches the key set when it has none or a stale one, and *)
(* for a kid it does not know unless it has just fetched.                  *)
\* Mutant: a key set, once fetched, is kept for good.
MutNeedsJwks(t) == sdk.discovered /\ sdk.jwks = NoKey
NeedsJwks(t) == /\ sdk.discovered
                /\ \/ sdk.age = "stale"
                   \/ sdk.age = "fresh" /\ KidMissing(t)

(* Any instance may answer, with the one key it runs with. *)
getJwks(i, t) == /\ t \in Issued
                 /\ NeedsJwks(t)
                 /\ loaded[i] # NoKey
                 /\ sdk' = [sdk EXCEPT !.jwks = loaded[i], !.age = "cooling"]
                 /\ UNCHANGED <<secret, loaded, token>>

AgeJwks == /\ sdk.jwks # NoKey
           /\ sdk.age # "stale"
           /\ sdk' = [sdk EXCEPT !.age = IF @ = "cooling" THEN "fresh" ELSE "stale"]
           /\ UNCHANGED <<secret, loaded, token>>

(* What the middleware answers, once no fetch is needed. *)
verifyToken(t) ==
  IF ~sdk.discovered \/ NeedsJwks(t) THEN "fetching"
  ELSE IF KidMissing(t) THEN "JWKSNoMatchingKey"
  ELSE IF token[t].key # sdk.jwks THEN "JWSSignatureVerificationFailed"
  ELSE IF App \notin token[t].aud THEN "JWTClaimValidationFailed"
  ELSE IF token[t].state = "expired" THEN "JWTExpired" ELSE "ok"

classifyVerifyError(e) ==
  CASE e = "JWTExpired" -> "TOKEN_EXPIRED"
    [] e = "JWTClaimValidationFailed" -> "CLAIM_INVALID"
    [] e = "JWSSignatureVerificationFailed" -> "SIGNATURE_INVALID"
    [] e = "JWKSNoMatchingKey" -> "KEY_NOT_FOUND"
    [] OTHER -> e

middleware(t) == classifyVerifyError(verifyToken(t))

-----------------------------------------------------------------------------
TokensInit == /\ secret = First
              /\ token = [t \in Tokens |-> NoToken]
              /\ sdk = NoSdk

(* A token that the consuming backend accepts is accepted again by the     *)
(* server instance whose key it verified with when the backend forwards it *)
(* (jwt.service: "multi-audience so both verifiers succeed"; the comment   *)
(* at the verifier, that such tokens "won't match here", is not what       *)
(* signing and verifying do); and a token for the application that such an *)
(* instance accepts, the backend does not refuse.                          *)
ForwardedTokenAccepted ==
  \A t \in Issued, i \in Hosts : (loaded[i] # NoKey /\ sdk.jwks = loaded[i]) =>
    /\ middleware(t) = "ok" => authenticate(i, t) = "ok"
    /\ App \in token[t].aud /\ authenticate(i, t) = "ok"
         => middleware(t) \in {"ok", "fetching"}

(* A key rotation locks the consuming backend out for a while at most: if  *)
(* from some time on every running instance has one key, then from some    *)
(* time on the backend refuses no valid token of that key for its key      *)
(* (cacheMaxAge: "should self-resolve on retry after cache TTL").          *)
KeyRefused(t) == middleware(t) \in {"KEY_NOT_FOUND", "SIGNATURE_INVALID"}
LagEnds ==
  \A k \in Keys : <>[](\A i \in Hosts : loaded[i] \in {k, NoKey})
                  => <>[](\A t \in Tokens : token[t].state = "valid" /\ token[t].key = k
                                            => ~KeyRefused(t))

(* The rotation procedure keeps the previous public key in the key set for *)
(* the lifetime of an access token: a token signed before the rotation     *)
(* still verifies until it expires (README, "Hold the old public key").    *)
RotationKeepsTokens ==
  \A t \in Tokens : token[t].state = "valid" /\ token[t].key # secret
                    => ~KeyRefused(t)
=============================================================================

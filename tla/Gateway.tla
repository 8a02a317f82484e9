------------------------------- MODULE Gateway -------------------------------
(***************************************************************************)
(* Who is let in: the trusted-apps registry (TrustedApps) and the access   *)
(* tokens (AccessTokens) on the same server instances.  An instance that   *)
(* starts loads the signing key of the moment, listens at once, and tidies *)
(* the registry while it already serves; a sign-in that passes the         *)
(* registry's gates is given a token signed with the key of the instance   *)
(* that served it.                                                         *)
(***************************************************************************)
EXTENDS TrustedApps

CONSTANTS Keys, Kid, First, Audience, Apps, App, Tokens

ASSUME GatewayAssumption ==
  /\ DOMAIN Kid = Keys
  /\ First \in Keys /\ None \notin Keys
  /\ App \in Apps /\ Audience \notin Apps

VARIABLES secret, loaded, token, sdk

INSTANCE AccessTokens WITH Hosts <- Instances, NoKey <- None

tokens == <<secret, loaded, token, sdk>>
vars == <<registryVars, tokens>>

TypeOK ==
  /\ app \in [AppRows -> AppRow]
  /\ boot \in [Instances -> Boot]
  /\ signIn \in [Requests -> SignIn]
  /\ changes \in 0..MaxChanges
  /\ \A x \in removed : x[1] \in AppRows /\ x[2] \in Fields /\ x[3] \in Values(x[2])
  /\ contested \subseteq removed
  /\ secret \in Keys
  /\ loaded \in [Instances -> Keys \union {None}]
  /\ \A i \in Instances : loaded[i] = None <=> boot[i].pc = "down"
  /\ token \in [Tokens -> Token]
  /\ sdk \in Sdk

Init == /\ RegistryInit
        /\ TokensInit
        /\ loaded = [i \in Instances |-> IF boot[i].pc = "up" THEN First ELSE None]

-----------------------------------------------------------------------------
Start(i) ==
  /\ boot[i].pc = "down"
  /\ Change
  /\ boot' = [boot EXCEPT ![i].pc = "reading"]
  /\ Load(i)
  /\ UNCHANGED <<app, signIn, removed, contested>>

(* The platform stops an instance; it may be in the middle of anything. *)
Stop(i) ==
  /\ boot[i].pc # "down"
  /\ Exit(i)
  /\ Unload(i)
  /\ UNCHANGED <<app, changes, removed, contested>>

Booting(i) ==
  \/ (ReadRegistry(i) \/ LookForSelf(i)) /\ UNCHANGED tokens
  \/ \E r \in AppRows :
       \/ SeedSelf(i, r) /\ UNCHANGED tokens
       \/ /\ CleanRow(i, r)
          /\ IF boot'[i].pc = "down" THEN Unload(i) ELSE UNCHANGED tokens

Administering ==
  /\ \E r \in AppRows :
       \/ Switch(r) \/ Unregister(r)
       \/ \E f \in Fields : \/ \E e \in Entries(f) : List(r, f, e)
                            \/ \E v \in Values(f) : Unlist(r, f, v)
  /\ UNCHANGED tokens

Gates(q) ==
  /\ \/ \E i \in Instances, o \in Origins \union {None}, c \in Clients : Arrive(q, i, o, c)
     \/ originAllowList(q) \/ verifyIdToken(q) \/ Pair(q)
  /\ UNCHANGED tokens

(* googleLogin: the accepted user's access token, for the application the  *)
(* sign-in names or for none.                                              *)
Accept(q, i, t, a) ==
  /\ signIn[q].pc = "accepted" /\ signIn[q].on = i
  /\ signAccessToken(i, t, a)
  /\ Answered(q)
  /\ UNCHANGED <<app, boot, changes, removed, contested>>

Rotating == /\ \E k \in Keys : Rotate(k)
            /\ Change
            /\ UNCHANGED <<app, boot, signIn, removed, contested>>

Tokening ==
  /\ \/ \E t \in Tokens : Expire(t)
     \/ \E i \in Instances : Discover(i) \/ \E t \in Tokens : getJwks(i, t)
     \/ AgeJwks
  /\ UNCHANGED registryVars

Next == \/ \E i \in Instances : Start(i) \/ Stop(i) \/ Booting(i)
        \/ Administering
        \/ \E q \in Requests : Gates(q)
        \/ \E q \in Requests, i \in Instances, t \in Tokens, a \in Apps \union {None} :
             Accept(q, i, t, a)
        \/ Rotating
        \/ Tokening

(* Time passes. *)
Spec == Init /\ [][Next]_vars /\ WF_vars(AgeJwks /\ UNCHANGED registryVars)
=============================================================================

---------------------------- MODULE GatewayProofs ----------------------------
(***************************************************************************)
(* For every set of instances, keys, applications and rows.                *)
(*                                                                         *)
(* What the backend of a consuming application accepts, the server accepts *)
(* again when the backend forwards it.  The argument rests on who signs:   *)
(* every token ever issued carries the server's own audience, whatever the *)
(* application (Signed).  The two verifiers then disagree only over the    *)
(* key, and the property speaks of an instance whose key the backend       *)
(* holds.                                                                  *)
(*                                                                         *)
(* What an administrator took off the registry admits nobody by that row:  *)
(* see the second part.                                                    *)
(***************************************************************************)
EXTENDS Gateway, TLAPS

KeysOK == /\ secret \in Keys
          /\ loaded \in [Instances -> Keys \union {None}]

Signed == /\ token \in [Tokens -> Token]
          /\ \A t \in Issued : Audience \in token[t].aud

IInv == KeysOK /\ Signed

-----------------------------------------------------------------------------
(* Only signing gives a token an audience, and it adds the server's own.   *)
LEMMA SigningSigns ==
  ASSUME IInv, NEW i \in Instances, NEW t \in Tokens, NEW a \in Apps \union {None},
         signAccessToken(i, t, a)
  PROVE  IInv'
<1> DEFINE row == [state |-> "valid", key |-> loaded[i], aud |-> AudienceOf(a)]
<1>1. loaded[i] \in Keys \union {None}
  BY DEF IInv, KeysOK
<1>2. row \in Token /\ Audience \in row.aud
  BY <1>1 DEF AudienceOf, Token
<1>3. token' = [token EXCEPT ![t] = row]
  BY DEF signAccessToken
<1> HIDE DEF row
<1>4. token' \in [Tokens -> Token]
  BY <1>2, <1>3 DEF IInv, Signed
<1>5. ASSUME NEW u \in Tokens, token'[u].state # "none"
      PROVE  Audience \in token'[u].aud
  <2>1. CASE u = t
    BY <1>2, <1>3, <2>1 DEF IInv, Signed
  <2>2. CASE u # t
    BY <1>3, <1>5, <2>2 DEF IInv, Signed, Issued
  <2> QED BY <2>1, <2>2
<1>6. KeysOK'
  BY DEF signAccessToken, IInv, KeysOK
<1> QED BY <1>4, <1>5, <1>6 DEF IInv, Signed, Issued

LEMMA ExpiryKeeps ==
  ASSUME IInv, NEW t \in Tokens, Expire(t)
  PROVE  IInv'
<1>1. token' = [token EXCEPT ![t].state = "expired"]
  BY DEF Expire
<1>2. token[t] \in Token /\ token[t].state = "valid"
  BY DEF Expire, IInv, Signed
<1>3. token' \in [Tokens -> Token]
  BY <1>1, <1>2 DEF IInv, Signed, Token
<1>4. ASSUME NEW u \in Tokens, token'[u].state # "none"
      PROVE  Audience \in token'[u].aud
  <2>1. token[u].state # "none" /\ token'[u].aud = token[u].aud
    BY <1>1, <1>2, <1>4 DEF IInv, Signed, Token
  <2> QED BY <2>1 DEF IInv, Signed, Issued
<1>5. KeysOK'
  BY DEF Expire, IInv, KeysOK
<1> QED BY <1>3, <1>4, <1>5 DEF IInv, Signed, Issued

(* No other step touches a token; starting and stopping load and drop keys. *)
LEMMA Untouched ==
  ASSUME IInv, UNCHANGED token, KeysOK'
  PROVE  IInv'
BY DEF IInv, Signed, Issued

LEMMA InitInv == Init => IInv
<1> SUFFICES ASSUME Init PROVE IInv
  OBVIOUS
<1>1. KeysOK
  BY GatewayAssumption DEF Init, TokensInit, KeysOK
<1>2. token = [t \in Tokens |-> NoToken]
  BY DEF Init, TokensInit
<1>3. token \in [Tokens -> Token] /\ Issued = {}
  BY <1>2 DEF NoToken, Token, Issued
<1> QED BY <1>1, <1>3 DEF IInv, Signed

LEMMA NextInv == IInv /\ [Next]_vars => IInv'
<1> SUFFICES ASSUME IInv, [Next]_vars PROVE IInv'
  OBVIOUS
<1>1. ASSUME NEW i \in Instances, Start(i) PROVE IInv'
  <2>1. KeysOK'
    BY <1>1 DEF Start, Load, IInv, KeysOK
  <2> QED BY <1>1, <2>1, Untouched DEF Start, Load
<1>2. ASSUME NEW i \in Instances, Stop(i) PROVE IInv'
  <2>1. KeysOK'
    BY <1>2 DEF Stop, Unload, IInv, KeysOK
  <2> QED BY <1>2, <2>1, Untouched DEF Stop, Unload
<1>3. ASSUME NEW i \in Instances, Booting(i) PROVE IInv'
  <2>1. UNCHANGED tokens \/ Unload(i)
    BY <1>3 DEF Booting
  <2>2. CASE UNCHANGED tokens
    BY <2>2, Untouched DEF tokens, IInv, KeysOK
  <2>3. CASE Unload(i)
    <3>1. KeysOK'
      BY <2>3 DEF Unload, IInv, KeysOK
    <3> QED BY <2>3, <3>1, Untouched DEF Unload
  <2> QED BY <2>1, <2>2, <2>3
<1>4. ASSUME Administering \/ (\E q \in Requests : Gates(q)) PROVE IInv'
  <2>1. UNCHANGED tokens
    BY <1>4 DEF Administering, Gates
  <2> QED BY <2>1, Untouched DEF tokens, IInv, KeysOK
<1>5. ASSUME NEW q \in Requests, NEW i \in Instances, NEW t \in Tokens,
             NEW a \in Apps \union {None}, Accept(q, i, t, a)
      PROVE  IInv'
  <2>1. signAccessToken(i, t, a)
    BY <1>5 DEF Accept
  <2> QED BY <2>1, SigningSigns
<1>6. ASSUME Rotating PROVE IInv'
  <2>1. PICK k \in Keys : Rotate(k)
    BY <1>6 DEF Rotating
  <2>2. KeysOK'
    BY <2>1 DEF Rotate, IInv, KeysOK
  <2> QED BY <2>1, <2>2, Untouched DEF Rotate
<1>7. ASSUME Tokening PROVE IInv'
  <2>1. CASE \E t \in Tokens : Expire(t)
    BY <2>1, ExpiryKeeps
  <2>2. CASE UNCHANGED <<secret, loaded, token>>
    BY <2>2, Untouched DEF IInv, KeysOK
  <2>3. (\E t \in Tokens : Expire(t)) \/ UNCHANGED <<secret, loaded, token>>
    BY <1>7 DEF Tokening, Discover, getJwks, AgeJwks
  <2> QED BY <2>1, <2>2, <2>3
<1>8. CASE UNCHANGED vars
  BY <1>8, Untouched DEF vars, tokens, IInv, KeysOK
<1> QED BY <1>1, <1>2, <1>3, <1>4, <1>5, <1>6, <1>7, <1>8 DEF Next

(* Two verifiers of one token under one key differ in the audience each    *)
(* asks for, and a signed token names both.                                *)
LEMMA SignedIsForwarded == IInv => ForwardedTokenAccepted
<1> SUFFICES ASSUME IInv, NEW t \in Issued, NEW i \in Instances,
                    loaded[i] # None, sdk.jwks = loaded[i]
             PROVE  /\ middleware(t) = "ok" => authenticate(i, t) = "ok"
                    /\ App \in token[t].aud /\ authenticate(i, t) = "ok"
                         => middleware(t) \in {"ok", "fetching"}
  BY DEF ForwardedTokenAccepted
<1>1. Audience \in token[t].aud
  BY DEF IInv, Signed
<1>2. ASSUME middleware(t) = "ok" PROVE authenticate(i, t) = "ok"
  <2>1. verifyToken(t) = "ok"
    BY <1>2 DEF middleware, classifyVerifyError
  <2>2. token[t].key = loaded[i] /\ token[t].state # "expired"
    BY <2>1 DEF verifyToken
  <2> QED BY <1>1, <2>2 DEF authenticate, verifyAccessToken
<1>3. ASSUME App \in token[t].aud, authenticate(i, t) = "ok"
      PROVE  middleware(t) \in {"ok", "fetching"}
  <2>1. verifyAccessToken(i, t) = "ok"
    BY <1>3 DEF authenticate, errorHandler
  <2>2. token[t].key = sdk.jwks /\ token[t].state # "expired"
    BY <2>1 DEF verifyAccessToken
  <2>3. ~KidMissing(t)
    BY <2>2 DEF KidMissing
  <2>4. verifyToken(t) \in {"ok", "fetching"}
    BY <1>3, <2>2, <2>3 DEF verifyToken
  <2> QED BY <2>4 DEF middleware, classifyVerifyError
<1> QED BY <1>2, <1>3

(* What the consuming backend accepts the server accepts again, and a      *)
(* token for its application that the server accepts the backend does not  *)
(* refuse, while both hold one key: in every behaviour, for all constants. *)
THEOREM ForwardedTokenAcceptedAlways == Spec => []ForwardedTokenAccepted
<1>1. Init /\ [][Next]_vars => []IInv
  BY InitInv, NextInv, PTL
<1> QED BY <1>1, SignedIsForwarded, PTL DEF Spec

-----------------------------------------------------------------------------
(* The registry: what an administrator took off a row stays off it.        *)
(*                                                                         *)
(* A boot can only put back what it read, and only into fields it read     *)
(* untidy.  So it is enough that an entry in such a field, of a row the    *)
(* boot has yet to write, is either still registered or known to be        *)
(* contested (SeenOut).  The removal of an entry establishes that, and a   *)
(* boot that reads later does not see the entry.                           *)

RegistryTypes ==
  /\ app \in [AppRows -> AppRow]
  /\ boot \in [Instances -> Boot]
  /\ signIn \in [Requests -> SignIn]
  /\ \A x \in removed : x[1] \in AppRows /\ x[2] \in Fields /\ x[3] \in Values(x[2])
  /\ contested \subseteq removed

Out == removed \ contested

RemovedOut ==
  \A r \in AppRows, f \in Fields : \A e \in app[r][f] : <<r, f, e[1]>> \notin Out

RemovedRows == \A r \in AppRows, f \in Fields : \A v \in Values(f) :
  <<r, f, v>> \in removed => app[r].row # "none"

SeenOut ==
  \A i \in Instances, r \in AppRows, f \in Fields :
    boot[i].pc = "cleaning" /\ r \in boot[i].left /\ Untidy(boot[i].seen[r][f]) =>
      \A e \in boot[i].seen[r][f] : <<r, f, e[1]>> \notin Out

RegInv == RegistryTypes /\ RemovedOut /\ RemovedRows /\ SeenOut

LEMMA FieldType ==
  ASSUME NEW row \in AppRow, NEW f \in Fields
  PROVE  row[f] \in SUBSET Entries(f)
<1>1. CASE f = "origins"
  BY <1>1 DEF AppRow
<1>2. CASE f = "googleClientIds"
  BY <1>2 DEF AppRow
<1> QED BY <1>1, <1>2 DEF Fields

LEMMA EntryType ==
  ASSUME NEW f \in Fields, NEW e \in Entries(f)
  PROVE  e[1] \in Values(f) /\ e = <<e[1], e[2]>>
BY DEF Entries

LEMMA NormalizeType ==
  ASSUME NEW f \in Fields, NEW S \in SUBSET Entries(f)
  PROVE  /\ normalize(S) \in SUBSET Entries(f)
         /\ \A e \in normalize(S) : \E d \in S : e[1] = d[1]
<1>1. \A d \in S : d[1] \in Values(f)
  BY EntryType
<1> QED BY <1>1 DEF normalize, Entries

(* What a boot writes back: the untidy fields as it read them.             *)
LEMMA CleanedRow ==
  ASSUME NEW r \in AppRows, app[r] \in AppRow, NEW row \in AppRow
  PROVE  /\ Cleaned(r, row) \in AppRow
         /\ Cleaned(r, row).row = app[r].row
         /\ \A f \in Fields :
              Cleaned(r, row)[f] = IF Untidy(row[f]) THEN normalize(row[f]) ELSE app[r][f]
<1>1. DOMAIN row = {"row", "isActive", "origins", "googleClientIds"}
  BY DEF AppRow
<1>2. \A f \in Fields :
        Cleaned(r, row)[f] = IF Untidy(row[f]) THEN normalize(row[f]) ELSE app[r][f]
  BY <1>1 DEF Cleaned, Dirty, Fields
<1>3. Cleaned(r, row).row = app[r].row /\ Cleaned(r, row).isActive = app[r].isActive
  BY <1>1 DEF Cleaned, Fields
<1>4. ASSUME NEW f \in Fields PROVE Cleaned(r, row)[f] \in SUBSET Entries(f)
  <2>1. normalize(row[f]) \in SUBSET Entries(f) /\ app[r][f] \in SUBSET Entries(f)
    BY FieldType, NormalizeType
  <2> QED BY <1>2, <2>1
<1>5. Cleaned(r, row) = [row |-> Cleaned(r, row).row, isActive |-> Cleaned(r, row).isActive,
                         origins |-> Cleaned(r, row).origins,
                         googleClientIds |-> Cleaned(r, row).googleClientIds]
  BY <1>1 DEF Cleaned
<1>6. app[r].row \in {"none", "there", "deleted"} /\ app[r].isActive \in BOOLEAN
  BY DEF AppRow
<1>7. /\ Cleaned(r, row).origins \in SUBSET Entries("origins")
      /\ Cleaned(r, row).googleClientIds \in SUBSET Entries("googleClientIds")
  BY <1>4 DEF Fields
<1>8. Cleaned(r, row) \in AppRow
  BY <1>3, <1>5, <1>6, <1>7 DEF AppRow
<1> QED BY <1>2, <1>3, <1>8

LEMMA ExitTypes ==
  ASSUME RegistryTypes, NEW i \in Instances, Exit(i)
  PROVE  /\ boot' \in [Instances -> Boot] /\ signIn' \in [Requests -> SignIn]
         /\ boot'[i].pc = "down" /\ \A j \in Instances \ {i} : boot'[j] = boot[j]
<1>1. NoBoot \in Boot
  <2>1. Absent \in AppRow
    BY DEF Absent, AppRow
  <2> QED BY <2>1 DEF NoBoot, Boot
<1>2. NoSignIn \in SignIn
  BY DEF NoSignIn, SignIn
<1> QED BY <1>1, <1>2 DEF Exit, RegistryTypes, NoBoot

(* Steps of an instance or a sign-in: no entry changes sides, and no boot  *)
(* comes to hold anything but the present table.                           *)
LEMMA RegistryKept ==
  ASSUME RegInv, RegistryTypes', removed' = removed, contested' = contested,
         \A r \in AppRows : app[r].row # "none" => app'[r].row # "none",
         \A r \in AppRows, f \in Fields : \A e \in app'[r][f] : <<r, f, e[1]>> \notin Out,
         \A i \in Instances : boot'[i].pc = "cleaning" =>
           \/ /\ boot[i].pc = "cleaning" /\ boot'[i].left \subseteq boot[i].left
              /\ boot'[i].seen = boot[i].seen
           \/ boot'[i].seen = app
  PROVE  RegInv'
<1>1. RemovedOut'
  BY DEF RemovedOut, Out
<1>2. RemovedRows'
  BY DEF RegInv, RemovedRows
<1>3. ASSUME NEW i \in Instances, NEW r \in AppRows, NEW f \in Fields,
             boot'[i].pc = "cleaning", r \in boot'[i].left, Untidy(boot'[i].seen[r][f]),
             NEW e \in boot'[i].seen[r][f]
      PROVE  <<r, f, e[1]>> \notin Out
  <2>1. CASE boot'[i].seen = app
    BY <1>3, <2>1 DEF RegInv, RemovedOut
  <2>2. CASE /\ boot[i].pc = "cleaning" /\ boot'[i].left \subseteq boot[i].left
             /\ boot'[i].seen = boot[i].seen
    BY <1>3, <2>2 DEF RegInv, SeenOut
  <2> QED BY <1>3, <2>1, <2>2
<1>4. SeenOut'
  BY <1>3 DEF SeenOut, Out, Untidy, normalize
<1> QED BY <1>1, <1>2, <1>4 DEF RegInv

LEMMA CleanRowKeeps ==
  ASSUME RegInv, NEW i \in Instances, NEW r \in AppRows, CleanRow(i, r)
  PROVE  RegInv'
<1> DEFINE row == boot[i].seen[r]
           write == \E f \in Fields : Dirty(row, f)
<1>1. /\ boot[i].pc = "cleaning" /\ r \in boot[i].left
      /\ UNCHANGED <<changes, removed, contested>>
      /\ IF write /\ r \notin There
         THEN Exit(i) /\ UNCHANGED app
         ELSE /\ boot' = [boot EXCEPT ![i].left = @ \ {r}]
              /\ app' = IF write THEN [app EXCEPT ![r] = Cleaned(r, row)] ELSE app
              /\ UNCHANGED signIn
  BY DEF CleanRow
<1>2. row \in AppRow /\ app \in [AppRows -> AppRow] /\ boot[i] \in Boot
  BY DEF RegInv, RegistryTypes, Boot
<1>3. CASE write /\ r \notin There
  <2>1. RegistryTypes'
    BY <1>1, <1>3, ExitTypes DEF RegInv, RegistryTypes
  <2>2. /\ boot'[i].pc = "down" /\ \A j \in Instances \ {i} : boot'[j] = boot[j]
        /\ app' = app
    BY <1>1, <1>3, ExitTypes DEF RegInv
  <2> QED BY <1>1, <2>1, <2>2, RegistryKept DEF RegInv, RemovedOut
<1>4. CASE ~(write /\ r \notin There)
  <2>1. /\ boot' = [boot EXCEPT ![i].left = @ \ {r}]
        /\ app' = IF write THEN [app EXCEPT ![r] = Cleaned(r, row)] ELSE app
        /\ UNCHANGED signIn
    BY <1>1, <1>4
  <2>2. /\ boot' \in [Instances -> Boot]
        /\ boot'[i].left \subseteq boot[i].left /\ boot'[i].seen = boot[i].seen
        /\ \A j \in Instances \ {i} : boot'[j] = boot[j]
    BY <1>2, <2>1 DEF RegInv, RegistryTypes, Boot
  <2>3. /\ Cleaned(r, row) \in AppRow /\ Cleaned(r, row).row = app[r].row
        /\ \A f \in Fields :
             Cleaned(r, row)[f] = IF Untidy(row[f]) THEN normalize(row[f]) ELSE app[r][f]
    BY <1>2, CleanedRow
  <2>4. /\ app' \in [AppRows -> AppRow] /\ app'[r] \in {app[r], Cleaned(r, row)}
        /\ \A s \in AppRows \ {r} : app'[s] = app[s]
    <3> HIDE DEF row, write
    <3> QED BY <1>2, <2>1, <2>3
  <2>5. RegistryTypes'
    BY <1>1, <2>1, <2>2, <2>4 DEF RegInv, RegistryTypes
  <2>6. ASSUME NEW f \in Fields, NEW e \in Cleaned(r, row)[f]
        PROVE  <<r, f, e[1]>> \notin Out
    <3>1. CASE Untidy(row[f])
      <4>1. row[f] \in SUBSET Entries(f)
        BY <1>2, FieldType
      <4>2. PICK d \in row[f] : e[1] = d[1]
        BY <2>3, <2>6, <3>1, <4>1, NormalizeType
      <4>3. <<r, f, d[1]>> \notin Out
        BY <1>1, <3>1, <4>2 DEF RegInv, SeenOut
      <4> QED BY <4>2, <4>3
    <3>2. CASE ~Untidy(row[f])
      BY <2>3, <2>6, <3>2 DEF RegInv, RemovedOut
    <3> QED BY <3>1, <3>2
  <2>7. ASSUME NEW s \in AppRows, NEW f \in Fields, NEW e \in app'[s][f]
        PROVE  <<s, f, e[1]>> \notin Out
    <3>1. CASE app'[s] = app[s]
      BY <2>7, <3>1 DEF RegInv, RemovedOut
    <3>2. CASE s = r /\ app'[s] = Cleaned(r, row)
      BY <2>6, <2>7, <3>2
    <3> QED BY <2>4, <3>1, <3>2
  <2>8. \A s \in AppRows : app'[s].row = app[s].row
    BY <2>3, <2>4
  <2>9. \A j \in Instances : boot'[j].pc = "cleaning" =>
          /\ boot[j].pc = "cleaning" /\ boot'[j].left \subseteq boot[j].left
          /\ boot'[j].seen = boot[j].seen
    BY <1>1, <2>2
  <2> HIDE DEF row, write
  <2> QED BY <1>1, <2>5, <2>7, <2>8, <2>9, RegistryKept
<1> QED BY <1>3, <1>4

LEMMA ListKeeps ==
  ASSUME RegInv, NEW r \in AppRows, NEW f \in Fields, NEW e \in Entries(f), List(r, f, e)
  PROVE  RegInv'
<1>1. /\ app' = [app EXCEPT ![r] = [app[r] EXCEPT ![f] = app[r][f] \union {e}]]
      /\ removed' = removed \ {<<r, f, e[1]>>} /\ contested' = contested \ {<<r, f, e[1]>>}
      /\ boot' = boot /\ signIn' = signIn
  BY DEF List, RegInv, RegistryTypes
<1>2. app \in [AppRows -> AppRow] /\ app[r] \in AppRow
  BY DEF RegInv, RegistryTypes
<1>3. app[r][f] \union {e} \in SUBSET Entries(f)
  BY <1>2, FieldType
<1>4. /\ app' \in [AppRows -> AppRow]
      /\ app'[r][f] = app[r][f] \union {e}
      /\ \A g \in Fields \ {f} : app'[r][g] = app[r][g]
      /\ app'[r].row = app[r].row
      /\ \A s \in AppRows \ {r} : app'[s] = app[s]
  <2> PICK new : new = [app[r] EXCEPT ![f] = app[r][f] \union {e}]
    OBVIOUS
  <2>1. /\ new \in AppRow /\ new[f] = app[r][f] \union {e}
        /\ \A g \in Fields \ {f} : new[g] = app[r][g]
        /\ new.row = app[r].row
    <3>1. CASE f = "origins"
      BY <1>2, <1>3, <3>1 DEF AppRow, Fields
    <3>2. CASE f = "googleClientIds"
      BY <1>2, <1>3, <3>2 DEF AppRow, Fields
    <3> QED BY <3>1, <3>2 DEF Fields
  <2>2. app' = [app EXCEPT ![r] = new]
    BY <1>1
  <2> QED BY <1>2, <2>1, <2>2
<1>5. Out' = Out \ {<<r, f, e[1]>>}
  BY <1>1 DEF Out
<1>6. RegistryTypes'
  BY <1>1, <1>4 DEF RegInv, RegistryTypes
<1>7. RemovedOut'
  <2>1. SUFFICES ASSUME NEW s \in AppRows, NEW g \in Fields, NEW d \in app'[s][g]
                 PROVE  <<s, g, d[1]>> \notin Out'
    BY DEF RemovedOut
  <2>2. CASE d \in app[s][g]
    BY <1>5, <2>2 DEF RegInv, RemovedOut
  <2>3. CASE d \notin app[s][g]
    <3>1. s = r /\ g = f /\ d = e
      BY <1>4, <2>1, <2>3
    <3> QED BY <1>5, <3>1
  <2> QED BY <2>2, <2>3
<1>8. RemovedRows'
  BY <1>1, <1>4 DEF RegInv, RemovedRows
<1>9. SeenOut'
  BY <1>1, <1>5 DEF RegInv, SeenOut, Untidy, normalize
<1> QED BY <1>6, <1>7, <1>8, <1>9 DEF RegInv

LEMMA UnlistKeeps ==
  ASSUME RegInv, NEW r \in AppRows, NEW f \in Fields, NEW v \in Values(f), Unlist(r, f, v)
  PROVE  RegInv'
<1> DEFINE left == {e \in app[r][f] : e[1] # v}
<1>1. /\ app' = [app EXCEPT ![r] = [app[r] EXCEPT ![f] = left]]
      /\ removed' = removed \union {<<r, f, v>>} /\ r \in There
      /\ contested' = IF Contested(r, f) THEN contested \union {<<r, f, v>>}
                                        ELSE contested \ {<<r, f, v>>}
      /\ boot' = boot /\ signIn' = signIn
  BY DEF Unlist, RegInv, RegistryTypes
<1>2. app \in [AppRows -> AppRow] /\ app[r] \in AppRow
  BY DEF RegInv, RegistryTypes
<1>3. left \in SUBSET Entries(f)
  BY <1>2, FieldType
<1>4. /\ app' \in [AppRows -> AppRow] /\ app'[r][f] = left
      /\ \A g \in Fields \ {f} : app'[r][g] = app[r][g]
      /\ app'[r].row = app[r].row
      /\ \A s \in AppRows \ {r} : app'[s] = app[s]
  <2> PICK new : new = [app[r] EXCEPT ![f] = left]
    OBVIOUS
  <2>1. /\ new \in AppRow /\ new[f] = left
        /\ \A g \in Fields \ {f} : new[g] = app[r][g]
        /\ new.row = app[r].row
    <3> HIDE DEF left
    <3>1. CASE f = "origins"
      BY <1>2, <1>3, <3>1 DEF AppRow, Fields
    <3>2. CASE f = "googleClientIds"
      BY <1>2, <1>3, <3>2 DEF AppRow, Fields
    <3> QED BY <3>1, <3>2 DEF Fields
  <2>2. app' = [app EXCEPT ![r] = new]
    BY <1>1
  <2> QED BY <1>2, <2>1, <2>2
<1>5. Out' \subseteq Out \union {<<r, f, v>>} /\ (Contested(r, f) => <<r, f, v>> \notin Out')
  BY <1>1 DEF Out
<1>6. RegistryTypes'
  <2>1. contested' \subseteq removed'
    BY <1>1 DEF RegInv, RegistryTypes
  <2>2. \A x \in removed' : x[1] \in AppRows /\ x[2] \in Fields /\ x[3] \in Values(x[2])
    BY <1>1 DEF RegInv, RegistryTypes
  <2> QED BY <1>1, <1>4, <2>1, <2>2 DEF RegInv, RegistryTypes
<1>7. RemovedOut'
  <2>1. SUFFICES ASSUME NEW s \in AppRows, NEW g \in Fields, NEW d \in app'[s][g]
                 PROVE  <<s, g, d[1]>> \notin Out'
    BY DEF RemovedOut
  <2>2. d \in app[s][g] /\ <<s, g, d[1]>> # <<r, f, v>>
    BY <1>4, <2>1
  <2> QED BY <1>5, <2>2 DEF RegInv, RemovedOut
<1>8. RemovedRows'
  <2>1. app[r].row # "none"
    BY <1>1 DEF There
  <2> QED BY <1>1, <1>4, <2>1 DEF RegInv, RemovedRows
<1>9. SeenOut'
  <2>1. SUFFICES ASSUME NEW i \in Instances, NEW s \in AppRows, NEW g \in Fields,
                        boot[i].pc = "cleaning", s \in boot[i].left, Untidy(boot[i].seen[s][g]),
                        NEW d \in boot[i].seen[s][g]
                 PROVE  <<s, g, d[1]>> \notin Out'
    BY <1>1 DEF SeenOut, Untidy, normalize
  <2>2. <<s, g, d[1]>> \notin Out
    BY <2>1 DEF RegInv, SeenOut
  <2>3. s = r /\ g = f => Contested(r, f)
    BY <2>1 DEF Contested
  <2> QED BY <1>5, <2>2, <2>3
<1> QED BY <1>6, <1>7, <1>8, <1>9 DEF RegInv

(* Steps that leave the registry's own variables, but for the sign-ins.    *)
LEMMA SignInKeeps ==
  ASSUME RegInv, signIn' \in [Requests -> SignIn], UNCHANGED <<app, boot, removed, contested>>
  PROVE  RegInv'
<1>1. RegistryTypes'
  BY DEF RegInv, RegistryTypes
<1> QED BY <1>1, RegistryKept DEF RegInv, RemovedOut

LEMMA GoesType ==
  ASSUME RegInv, NEW q \in Requests,
         \/ \E pc \in {"audience", "pairing", "accepted"} : Goes(q, pc)
         \/ Answered(q)
  PROVE  signIn' \in [Requests -> SignIn]
BY DEF Goes, Answered, NoSignIn, SignIn, RegInv, RegistryTypes

LEMMA RegistryInv == Init => RegInv
<1> SUFFICES ASSUME Init PROVE RegInv
  OBVIOUS
<1>1. PICK o \in Entries("origins"), c \in Entries("googleClientIds") :
        app = [r \in AppRows |-> IF r # OldRow THEN Absent
                               ELSE [row |-> "there", isActive |-> TRUE,
                                     origins |-> {o}, googleClientIds |-> {c}]]
  BY DEF Init, RegistryInit
<1>2. Absent \in AppRow
  BY DEF Absent, AppRow
<1>3. [row |-> "there", isActive |-> TRUE, origins |-> {o}, googleClientIds |-> {c}] \in AppRow
  BY DEF AppRow
<1>4. app \in [AppRows -> AppRow]
  BY <1>1, <1>2, <1>3
<1>5. NoBoot \in Boot /\ [NoBoot EXCEPT !.pc = "up"] \in Boot
  BY <1>2 DEF NoBoot, Boot
<1>6. boot \in [Instances -> Boot] /\ \A i \in Instances : boot[i].pc # "cleaning"
  BY <1>5 DEF Init, RegistryInit, NoBoot
<1>7. signIn \in [Requests -> SignIn]
  BY DEF Init, RegistryInit, NoSignIn, SignIn
<1>8. removed = {} /\ contested = {}
  BY DEF Init, RegistryInit
<1> QED BY <1>4, <1>6, <1>7, <1>8
        DEF RegInv, RegistryTypes, RemovedOut, RemovedRows, SeenOut, Out

LEMMA RegistryStep == RegInv /\ [Next]_vars => RegInv'
<1> SUFFICES ASSUME RegInv, [Next]_vars PROVE RegInv'
  OBVIOUS
<1>a. /\ app \in [AppRows -> AppRow] /\ boot \in [Instances -> Boot]
      /\ signIn \in [Requests -> SignIn]
  BY DEF RegInv, RegistryTypes
<1>b. Absent \in AppRow /\ NoBoot \in Boot /\ NoSignIn \in SignIn
  BY DEF Absent, AppRow, NoBoot, Boot, NoSignIn, SignIn
<1>1. ASSUME NEW i \in Instances, Start(i) PROVE RegInv'
  <2>1. /\ boot' = [boot EXCEPT ![i].pc = "reading"]
        /\ UNCHANGED <<app, signIn, removed, contested>>
    BY <1>1 DEF Start
  <2>2. /\ boot' \in [Instances -> Boot] /\ boot'[i].pc = "reading"
        /\ \A j \in Instances \ {i} : boot'[j] = boot[j]
    BY <1>a, <2>1 DEF Boot
  <2>3. RegistryTypes'
    BY <2>1, <2>2 DEF RegInv, RegistryTypes
  <2> QED BY <2>1, <2>2, <2>3, RegistryKept DEF RegInv, RemovedOut
<1>2. ASSUME NEW i \in Instances, Stop(i) PROVE RegInv'
  <2>1. UNCHANGED <<app, removed, contested>> /\ Exit(i)
    BY <1>2 DEF Stop
  <2>2. /\ boot' \in [Instances -> Boot] /\ signIn' \in [Requests -> SignIn]
        /\ boot'[i].pc = "down" /\ \A j \in Instances \ {i} : boot'[j] = boot[j]
    BY <2>1, ExitTypes DEF RegInv
  <2>3. RegistryTypes'
    BY <2>1, <2>2 DEF RegInv, RegistryTypes
  <2> QED BY <2>1, <2>2, <2>3, RegistryKept DEF RegInv, RemovedOut
<1>3. ASSUME NEW i \in Instances, ReadRegistry(i) PROVE RegInv'
  <2>1. /\ boot' = [boot EXCEPT ![i] = [pc |-> "cleaning", seen |-> app, left |-> There]]
        /\ UNCHANGED <<app, signIn, removed, contested>>
    BY <1>3 DEF ReadRegistry
  <2>2. [pc |-> "cleaning", seen |-> app, left |-> There] \in Boot
    BY <1>a DEF Boot, There
  <2>3. /\ boot' \in [Instances -> Boot] /\ boot'[i].seen = app
        /\ \A j \in Instances \ {i} : boot'[j] = boot[j]
    BY <1>a, <2>1, <2>2
  <2>4. RegistryTypes'
    BY <2>1, <2>3 DEF RegInv, RegistryTypes
  <2> QED BY <2>1, <2>3, <2>4, RegistryKept DEF RegInv, RemovedOut
<1>4. ASSUME NEW i \in Instances, LookForSelf(i) PROVE RegInv'
  <2>1. /\ \E pc \in {"up", "seeding"} :
             boot' = [boot EXCEPT ![i] = [NoBoot EXCEPT !.pc = pc]]
        /\ UNCHANGED <<app, signIn, removed, contested>>
    BY <1>4 DEF LookForSelf
  <2>2. PICK b \in Boot : boot' = [boot EXCEPT ![i] = b] /\ b.pc # "cleaning"
    <3>1. \A pc \in {"up", "seeding"} :
            [NoBoot EXCEPT !.pc = pc] \in Boot /\ [NoBoot EXCEPT !.pc = pc].pc = pc
      BY <1>b DEF NoBoot, Boot
    <3> QED BY <2>1, <3>1
  <2>3. /\ boot' \in [Instances -> Boot] /\ boot'[i].pc # "cleaning"
        /\ \A j \in Instances \ {i} : boot'[j] = boot[j]
    BY <1>a, <2>2
  <2>4. RegistryTypes'
    BY <2>1, <2>3 DEF RegInv, RegistryTypes
  <2> QED BY <2>1, <2>3, <2>4, RegistryKept DEF RegInv, RemovedOut
<1>5. ASSUME NEW i \in Instances, NEW r \in AppRows, SeedSelf(i, r) PROVE RegInv'
  <2> DEFINE row == [row |-> "there", isActive |-> TRUE, origins |-> {},
                     googleClientIds |-> {<<Self, "plain">>}]
  <2>1. /\ app[r].row = "none" /\ app' = [app EXCEPT ![r] = row]
        /\ boot' = [boot EXCEPT ![i] = [NoBoot EXCEPT !.pc = "up"]]
        /\ UNCHANGED <<signIn, removed, contested>>
    BY <1>5 DEF SeedSelf
  <2>2. row \in AppRow
    BY TrustedAppsAssumption DEF AppRow, Entries, Values
  <2>3. /\ app' \in [AppRows -> AppRow] /\ app'[r] = row
        /\ \A s \in AppRows \ {r} : app'[s] = app[s]
    <3> HIDE DEF row
    <3> QED BY <1>a, <2>1, <2>2
  <2>4. /\ boot' \in [Instances -> Boot] /\ boot'[i].pc # "cleaning"
        /\ \A j \in Instances \ {i} : boot'[j] = boot[j]
    BY <1>a, <1>b, <2>1 DEF NoBoot, Boot
  <2>5. RegistryTypes'
    BY <2>1, <2>3, <2>4 DEF RegInv, RegistryTypes
  <2>6. ASSUME NEW f \in Fields, NEW e \in row[f] PROVE <<r, f, e[1]>> \notin Out
    <3>1. e[1] \in Values(f)
      BY <2>2, <2>6, FieldType, EntryType
    <3> QED BY <2>1, <3>1 DEF RegInv, RemovedRows, Out
  <2>7. \A s \in AppRows, f \in Fields : \A e \in app'[s][f] : <<s, f, e[1]>> \notin Out
    <3> HIDE DEF row
    <3> QED BY <2>3, <2>6 DEF RegInv, RemovedOut
  <2>8. \A s \in AppRows : app[s].row # "none" => app'[s].row # "none"
    BY <2>1, <2>3
  <2> HIDE DEF row
  <2> QED BY <2>1, <2>4, <2>5, <2>7, <2>8, RegistryKept
<1>6. ASSUME NEW i \in Instances, Booting(i) PROVE RegInv'
  BY <1>3, <1>4, <1>5, <1>6, CleanRowKeeps DEF Booting
<1>7. ASSUME NEW r \in AppRows, NEW row \in AppRow, row.row # "none",
             app' = [app EXCEPT ![r] = row], UNCHANGED <<boot, signIn, removed, contested>>,
             \A f \in Fields : row[f] \subseteq app[r][f]
      PROVE  RegInv'
  <2>1. /\ app' \in [AppRows -> AppRow] /\ app'[r] = row
        /\ \A s \in AppRows \ {r} : app'[s] = app[s]
    BY <1>7, <1>a
  <2>2. RegistryTypes'
    BY <1>7, <2>1 DEF RegInv, RegistryTypes
  <2>3. \A s \in AppRows, f \in Fields : \A e \in app'[s][f] : <<s, f, e[1]>> \notin Out
    BY <1>7, <2>1 DEF RegInv, RemovedOut
  <2>4. \A s \in AppRows : app[s].row # "none" => app'[s].row # "none"
    BY <1>7, <2>1
  <2> QED BY <1>7, <2>2, <2>3, <2>4, RegistryKept
<1>8. ASSUME NEW r \in AppRows, Switch(r) PROVE RegInv'
  <2>1. PICK row : row = [app[r] EXCEPT !.isActive = ~app[r].isActive]
    OBVIOUS
  <2>2. /\ app' = [app EXCEPT ![r] = row] /\ r \in There
        /\ UNCHANGED <<boot, signIn, removed, contested>>
    BY <1>8, <1>a, <2>1 DEF Switch
  <2>3. /\ row \in AppRow /\ row.row = app[r].row
        /\ row.origins = app[r].origins /\ row.googleClientIds = app[r].googleClientIds
    BY <1>a, <2>1 DEF AppRow
  <2>4. \A f \in Fields : row[f] \subseteq app[r][f]
    BY <2>3 DEF Fields
  <2> QED BY <1>7, <2>2, <2>3, <2>4 DEF There
<1>9. ASSUME NEW r \in AppRows, Unregister(r) PROVE RegInv'
  <2>1. PICK row : row = [Absent EXCEPT !.row = "deleted"]
    OBVIOUS
  <2>2. /\ app' = [app EXCEPT ![r] = row]
        /\ UNCHANGED <<boot, signIn, removed, contested>>
    BY <1>9, <2>1 DEF Unregister
  <2>3. /\ row \in AppRow /\ row.row = "deleted"
        /\ row.origins = {} /\ row.googleClientIds = {}
    BY <2>1 DEF Absent, AppRow
  <2>4. \A f \in Fields : row[f] \subseteq app[r][f]
    BY <2>3 DEF Fields
  <2> QED BY <1>7, <2>2, <2>3, <2>4
<1>10. ASSUME Administering PROVE RegInv'
  BY <1>8, <1>9, <1>10, ListKeeps, UnlistKeeps DEF Administering
<1>11. ASSUME NEW q \in Requests, Gates(q) PROVE RegInv'
  <2>1. UNCHANGED <<app, boot, removed, contested>>
    BY <1>11 DEF Gates, Arrive, originAllowList, verifyIdToken, Pair
  <2>2. CASE \E i \in Instances, o \in Origins \union {None}, c \in Clients : Arrive(q, i, o, c)
    <3>1. PICK i \in Instances, o \in Origins \union {None}, c \in Clients :
            signIn' = [signIn EXCEPT ![q] = [pc |-> IF o = None THEN "audience" ELSE "gate",
                                             on |-> i, origin |-> o, client |-> c]]
      BY <2>2 DEF Arrive
    <3>2. signIn' \in [Requests -> SignIn]
      BY <1>a, <3>1 DEF SignIn
    <3> QED BY <2>1, <3>2, SignInKeeps
  <2>3. CASE originAllowList(q) \/ verifyIdToken(q) \/ Pair(q)
    <3>1. \/ \E pc \in {"audience", "pairing", "accepted"} : Goes(q, pc)
          \/ Answered(q)
      BY <2>3 DEF originAllowList, verifyIdToken, Pair
    <3> QED BY <2>1, <3>1, GoesType, SignInKeeps
  <2> QED BY <1>11, <2>2, <2>3 DEF Gates
<1>12. ASSUME NEW q \in Requests, NEW i \in Instances, NEW t \in Tokens,
              NEW a \in Apps \union {None}, Accept(q, i, t, a)
       PROVE  RegInv'
  BY <1>12, GoesType, SignInKeeps DEF Accept
<1>13. ASSUME Rotating \/ Tokening \/ UNCHANGED vars PROVE RegInv'
  <2>1. UNCHANGED <<app, boot, signIn, removed, contested>>
    BY <1>13 DEF Rotating, Tokening, vars, registryVars
  <2> QED BY <1>a, <2>1, SignInKeeps
<1> QED BY <1>1, <1>2, <1>6, <1>10, <1>11, <1>12, <1>13 DEF Next

(* An origin or a client id that an administrator took off a row admits no *)
(* browser by that row until it is put back, unless a boot had read the    *)
(* untidy row before: for any number of instances booting at any time.     *)
THEOREM DeregisteredHolds == Spec => DeregisteredStaysOut
<1> DEFINE Admitted == \A q \in Requests :
      (signIn[q].pc # "accepted" /\ signIn'[q].pc = "accepted" /\ signIn[q].origin # None)
      => \E r \in Active :
           /\ Lists(r, "origins", signIn[q].origin)
           /\ Lists(r, "googleClientIds", signIn[q].client)
           /\ <<r, "origins", signIn[q].origin>> \notin removed \ contested
           /\ <<r, "googleClientIds", signIn[q].client>> \notin removed \ contested
<1>1. RegInv /\ [Next]_vars => [Admitted]_registryVars
  <2> SUFFICES ASSUME RegInv, Next, NEW q \in Requests,
                      signIn[q].pc # "accepted", signIn'[q].pc = "accepted",
                      signIn[q].origin # None
               PROVE  \E r \in Active :
                        /\ Lists(r, "origins", signIn[q].origin)
                        /\ Lists(r, "googleClientIds", signIn[q].client)
                        /\ <<r, "origins", signIn[q].origin>> \notin removed \ contested
                        /\ <<r, "googleClientIds", signIn[q].client>> \notin removed \ contested
    BY DEF vars, registryVars
  <2>a. signIn \in [Requests -> SignIn]
    BY DEF RegInv, RegistryTypes
  <2>1. Pair(q)
    <3>1. ASSUME NEW p \in Requests, NEW pc, Goes(p, pc)
          PROVE  p = q /\ pc = "accepted"
      BY <2>a, <3>1 DEF Goes, SignIn
    <3>2. ASSUME NEW p \in Requests, Answered(p) PROVE FALSE
      BY <2>a, <3>2 DEF Answered, NoSignIn
    <3>3. ASSUME NEW i \in Instances, Exit(i) PROVE FALSE
      BY <2>a, <3>3 DEF Exit, NoSignIn
    <3>4. ASSUME NEW p \in Requests, NEW i \in Instances, NEW o \in Origins \union {None},
                 NEW c \in Clients, Arrive(p, i, o, c)
          PROVE  FALSE
      BY <2>a, <3>4 DEF Arrive
    <3>5. ASSUME NEW p \in Requests, originAllowList(p) \/ verifyIdToken(p) PROVE FALSE
      BY <3>1, <3>2, <3>5 DEF originAllowList, verifyIdToken
    <3>6. ASSUME NEW p \in Requests, Pair(p) PROVE p = q
      BY <3>1, <3>2, <3>6 DEF Pair
    <3>7. ~(UNCHANGED signIn)
      OBVIOUS
    <3>8. ASSUME NEW i \in Instances, Booting(i) PROVE FALSE
      BY <3>3, <3>7, <3>8 DEF Booting, ReadRegistry, LookForSelf, SeedSelf, CleanRow
    <3>9. ~Administering
      BY <3>7 DEF Administering, Switch, Unregister, List, Unlist
    <3>10. PICK p \in Requests : Gates(p)
      BY <3>2, <3>3, <3>7, <3>8, <3>9
      DEF Next, Start, Stop, Accept, Rotating, Tokening, registryVars
    <3> QED BY <3>4, <3>5, <3>6, <3>10 DEF Gates
  <2>2. isAudienceOriginPaired(signIn[q].client, signIn[q].origin)
    BY <2>1, <2>a DEF Pair, Answered, NoSignIn
  <2>3. PICK r \in Active : /\ Lists(r, "googleClientIds", signIn[q].client)
                            /\ Lists(r, "origins", signIn[q].origin)
    BY <2>2 DEF isAudienceOriginPaired
  <2>4. r \in AppRows
    BY <2>3 DEF Active, There
  <2>5. /\ <<r, "origins", signIn[q].origin>> \notin removed \ contested
        /\ <<r, "googleClientIds", signIn[q].client>> \notin removed \ contested
    BY <2>3, <2>4 DEF RegInv, RemovedOut, Out, Lists, Fields
  <2> QED BY <2>3, <2>5
<1>2. Spec => [][Admitted]_registryVars
  <2> HIDE DEF Admitted
  <2> QED BY <1>1, RegistryInv, RegistryStep, PTL DEF Spec
<1> QED BY <1>2, PTL DEF DeregisteredStaysOut

-----------------------------------------------------------------------------
(* Types: an instance has a key exactly while it runs.                     *)

RestOK == /\ changes \in 0..MaxChanges
          /\ sdk \in Sdk
          /\ \A i \in Instances : loaded[i] = None <=> boot[i].pc = "down"

TypeInv == IInv /\ RegInv /\ RestOK

LEMMA ChangeType ==
  ASSUME RestOK, Change \/ UNCHANGED changes
  PROVE  changes' \in 0..MaxChanges
BY TrustedAppsAssumption DEF RestOK, Change

LEMMA TypeStep == TypeInv /\ [Next]_vars => TypeInv'
<1> SUFFICES ASSUME TypeInv, [Next]_vars PROVE RestOK'
  BY NextInv, RegistryStep DEF TypeInv
<1>a. /\ RestOK /\ boot \in [Instances -> Boot] /\ sdk \in Sdk /\ secret \in Keys
      /\ loaded \in [Instances -> Keys \union {None}] /\ token \in [Tokens -> Token]
  BY DEF TypeInv, RegInv, RegistryTypes, RestOK, IInv, KeysOK, Signed
<1>1. ASSUME NEW i \in Instances, Start(i) PROVE RestOK'
  <2>1. /\ boot' = [boot EXCEPT ![i].pc = "reading"] /\ loaded' = [loaded EXCEPT ![i] = secret]
        /\ Change /\ sdk' = sdk
    BY <1>1 DEF Start, Load
  <2>2. \A j \in Instances : loaded'[j] = None <=> boot'[j].pc = "down"
    BY <1>a, <2>1, GatewayAssumption DEF RestOK, Boot
  <2> QED BY <1>a, <2>1, <2>2, ChangeType DEF RestOK
<1>2. ASSUME NEW i \in Instances, Exit(i), Unload(i), UNCHANGED changes PROVE RestOK'
  <2>1. boot'[i].pc = "down" /\ \A j \in Instances \ {i} : boot'[j] = boot[j]
    BY <1>2, ExitTypes DEF TypeInv, RegInv
  <2>2. loaded' = [loaded EXCEPT ![i] = None] /\ sdk' = sdk
    BY <1>2 DEF Unload
  <2>3. \A j \in Instances : loaded'[j] = None <=> boot'[j].pc = "down"
    BY <1>a, <2>1, <2>2 DEF RestOK
  <2> QED BY <1>2, <1>a, <2>2, <2>3 DEF RestOK
<1>3. ASSUME NEW i \in Instances, Stop(i) PROVE RestOK'
  BY <1>2, <1>3 DEF Stop
<1>4. ASSUME UNCHANGED <<changes, tokens>>, NEW i \in Instances, boot[i].pc # "down",
             boot'[i].pc # "down", \A j \in Instances \ {i} : boot'[j] = boot[j]
      PROVE  RestOK'
  BY <1>4, <1>a DEF RestOK, tokens
<1>5. ASSUME NEW i \in Instances, Booting(i) PROVE RestOK'
  <2>1. CASE ReadRegistry(i) /\ UNCHANGED tokens
    BY <2>1, <1>4, <1>a DEF ReadRegistry
  <2>2. CASE LookForSelf(i) /\ UNCHANGED tokens
    BY <2>2, <1>4, <1>a DEF LookForSelf, NoBoot
  <2>3. ASSUME NEW r \in AppRows, SeedSelf(i, r), UNCHANGED tokens PROVE RestOK'
    BY <2>3, <1>4, <1>a DEF SeedSelf, NoBoot
  <2>4. ASSUME NEW r \in AppRows, CleanRow(i, r),
               IF boot'[i].pc = "down" THEN Unload(i) ELSE UNCHANGED tokens
        PROVE  RestOK'
    <3>1. /\ boot[i].pc = "cleaning" /\ UNCHANGED changes
          /\ Exit(i) \/ boot' = [boot EXCEPT ![i].left = boot[i].left \ {r}]
      BY <2>4, <1>a DEF CleanRow
    <3>2. CASE Exit(i)
      <4>1. boot'[i].pc = "down"
        BY <3>2, ExitTypes DEF TypeInv, RegInv
      <4> QED BY <1>2, <2>4, <3>1, <3>2, <4>1
    <3>3. CASE boot' = [boot EXCEPT ![i].left = boot[i].left \ {r}]
      <4>1. boot'[i].pc = "cleaning" /\ \A j \in Instances \ {i} : boot'[j] = boot[j]
        BY <1>a, <3>1, <3>3 DEF Boot
      <4> QED BY <1>4, <2>4, <3>1, <4>1
    <3> QED BY <3>1, <3>2, <3>3
  <2> QED BY <1>5, <2>1, <2>2, <2>3, <2>4 DEF Booting
<1>6. ASSUME UNCHANGED <<boot, tokens>>, Change \/ UNCHANGED changes PROVE RestOK'
  BY <1>6, <1>a, ChangeType DEF RestOK, tokens
<1>7. ASSUME Administering PROVE RestOK'
  BY <1>6, <1>7 DEF Administering, Switch, Unregister, List, Unlist
<1>8. ASSUME NEW q \in Requests, Gates(q) PROVE RestOK'
  BY <1>6, <1>8 DEF Gates, Arrive, originAllowList, verifyIdToken, Pair
<1>9. ASSUME UNCHANGED <<boot, loaded>>, Change \/ UNCHANGED changes, sdk' \in Sdk PROVE RestOK'
  BY <1>9, <1>a, ChangeType DEF RestOK
<1>10. ASSUME NEW q \in Requests, NEW i \in Instances, NEW t \in Tokens,
              NEW a \in Apps \union {None}, Accept(q, i, t, a)
       PROVE  RestOK'
  BY <1>9, <1>10, <1>a DEF Accept, signAccessToken
<1>11. ASSUME Rotating PROVE RestOK'
  BY <1>9, <1>11, <1>a DEF Rotating, Rotate
<1>12. ASSUME Tokening PROVE RestOK'
  <2>1. UNCHANGED <<boot, loaded, changes>>
    BY <1>12 DEF Tokening, registryVars, Expire, Discover, getJwks, AgeJwks
  <2>2. CASE \E t \in Tokens : Expire(t)
    BY <1>9, <1>a, <2>1, <2>2 DEF Expire
  <2>3. ASSUME NEW i \in Instances, Discover(i) PROVE sdk' \in Sdk
    BY <1>a, <2>3 DEF Discover, Sdk
  <2>4. ASSUME NEW i \in Instances, NEW t \in Tokens, getJwks(i, t) PROVE sdk' \in Sdk
    BY <1>a, <2>4 DEF getJwks, Sdk
  <2>5. ASSUME AgeJwks PROVE sdk' \in Sdk
    BY <1>a, <2>5 DEF AgeJwks, Sdk
  <2> QED BY <1>9, <1>12, <2>1, <2>2, <2>3, <2>4, <2>5 DEF Tokening
<1>13. CASE UNCHANGED vars
  BY <1>6, <1>13 DEF vars, registryVars
<1> QED BY <1>1, <1>3, <1>5, <1>7, <1>8, <1>10, <1>11, <1>12, <1>13 DEF Next

(* Every variable has its type, and an instance holds a key exactly while  *)
(* it runs.                                                                *)
THEOREM GatewayTypeCorrect == Spec => []TypeOK
<1>1. Init => TypeInv
  <2> SUFFICES ASSUME Init PROVE RestOK
    BY InitInv, RegistryInv DEF TypeInv
  <2>1. changes \in 0..MaxChanges /\ sdk \in Sdk
    BY TrustedAppsAssumption DEF Init, RegistryInit, TokensInit, NoSdk, Sdk
  <2>2. \A i \in Instances : loaded[i] = None <=> boot[i].pc = "down"
    BY GatewayAssumption DEF Init, RegistryInit, NoBoot
  <2> QED BY <2>1, <2>2 DEF RestOK
<1>2. TypeInv => TypeOK
  BY DEF TypeInv, TypeOK, IInv, KeysOK, Signed, RegInv, RegistryTypes, RestOK
<1> QED BY <1>1, <1>2, TypeStep, PTL DEF Spec
=============================================================================

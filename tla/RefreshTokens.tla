---------------------------- MODULE RefreshTokens ----------------------------
(***************************************************************************)
(* Refresh tokens: issue, rotation, reuse detection and revocation         *)
(* (token.service.ts), the login, refresh and logout requests that call    *)
(* them (auth.service.ts), the session-cap trigger of the database, and    *)
(* the nightly cleanup job.                                                *)
(*                                                                         *)
(* Nothing wraps a rotation in a transaction: its read, its insert and its *)
(* update are steps of their own, and other requests run between them.     *)
(* The insert and its trigger are one transaction; until it commits no     *)
(* other request sees the new row.                                         *)
(*                                                                         *)
(* Tokens are numbered in the order of issued_at.  A client may present    *)
(* any raw token it was ever sent, any number of times: a second tab, a    *)
(* retry after a lost answer, or a stale copy restored from a session      *)
(* store all do.                                                           *)
(***************************************************************************)
EXTENDS Naturals, FiniteSets

CONSTANTS Tokens,    \* tokens that may be issued
          Requests,  \* requests in progress at a time
          Users,
          Cap,       \* the trigger's cap on active sessions of a user
          None

ASSUME TokensAssumption == /\ Tokens \subseteq Nat \ {0}
                           /\ Cap \in Nat \ {0}
                           /\ None \notin Tokens

VARIABLES row,       \* the refresh_tokens table
          active,    \* users.is_active
          req,       \* the requests in progress
          delivered, \* tokens whose raw value has been sent to a client
          killed,    \* families that a logout or a detected reuse has revoked
          overtaken, \* those of them a rotation was inserting into meanwhile
          forked,    \* families in which two rotations of a token overlapped
          crowded    \* users whose last insert ran beside another one

history == <<killed, overtaken, forked, crowded>>
vars == <<row, active, req, delivered, killed, overtaken, forked, crowded>>

-----------------------------------------------------------------------------
(* Rows and requests *)

(* "live" and "expired" rows have no revoked_at; a "pending" row is not    *)
(* committed; `next` is replaced_by.                                       *)
Row == [state : {"absent", "pending", "live", "expired", "revoked", "gone"},
        family : Tokens \union {None}, owner : Users \union {None},
        next : Tokens \union {None}]

NoRow == [state |-> "absent", family |-> None, owner |-> None, next |-> None]

Unrevoked == {"live", "expired"}
Committed == {t \in Tokens : row[t].state \notin {"absent", "pending", "gone"}}
Live(u) == {t \in Tokens : row[t].state = "live" /\ row[t].owner = u}

Revoked(S) == [t \in Tokens |->
  IF t \in S THEN [row[t] EXCEPT !.state = "revoked"] ELSE row[t]]

(* A request: the token presented, the one inserted, the rows its trigger  *)
(* revokes on commit; whether the account was active when it began, and    *)
(* whether another insert for the user ran beside its own.                 *)
PCs == {"idle", "insert", "commit", "mark", "check", "respond", "family", "all"}
Request == [pc : PCs, token : Tokens \union {None}, new : Tokens \union {None},
            user : Users \union {None}, victims : SUBSET Tokens,
            active : BOOLEAN, beside : BOOLEAN]

Idle == [pc |-> "idle", token |-> None, new |-> None, user |-> None,
         victims |-> {}, active |-> FALSE, beside |-> FALSE]

Begin(q, l, t, u) ==
  req' = [req EXCEPT ![q] =
            [Idle EXCEPT !.pc = l, !.token = t, !.user = u, !.active = active[u]]]
Goto(q, l) == req' = [req EXCEPT ![q].pc = l]
End(q) == req' = [req EXCEPT ![q] = Idle]

Rotating(q) == req[q].token # None /\ req[q].pc \in {"insert", "commit", "mark"}

-----------------------------------------------------------------------------
(* Requests *)

(* googleLogin, exchangeGoogleAccessToken: the account is active, then a   *)
(* first token of a new family.                                            *)
Login(q, u) ==
  /\ req[q].pc = "idle"
  /\ active[u]
  /\ Begin(q, "insert", None, u)
  /\ UNCHANGED <<row, active, delivered, history>>

(* rotateRefreshToken's findUnique of a token that may be rotated.  Any    *)
(* other outcome but the next action's throws, and nothing changes.        *)
BeginRotation(q, t) ==
  /\ req[q].pc = "idle"
  /\ t \in delivered
  /\ row[t].state = "live"
  /\ Begin(q, "insert", t, row[t].owner)
  /\ forked' = IF \E p \in Requests \ {q} : Rotating(p) /\ req[p].token = t
               THEN forked \union {row[t].family} ELSE forked
  /\ UNCHANGED <<row, active, delivered, killed, overtaken, crowded>>

(* The token was replaced already: its whole family is to be revoked.      *)
DetectReuse(q, t) ==
  /\ req[q].pc = "idle"
  /\ t \in delivered
  /\ row[t].state = "revoked" /\ row[t].next # None
  /\ Begin(q, "family", t, row[t].owner)
  /\ UNCHANGED <<row, active, delivered, history>>

(* revokeRefreshToken, for a token that is not revoked yet. *)
BeginLogout(q, t) ==
  /\ req[q].pc = "idle"
  /\ t \in delivered
  /\ row[t].state \in Unrevoked
  /\ Begin(q, "family", t, row[t].owner)
  /\ UNCHANGED <<row, active, delivered, history>>

(* The AFTER INSERT trigger: the oldest sessions beyond the cap, counting  *)
(* the new row, and never the new row itself.                              *)
MutExcess(u) == {t \in Live(u) :
  Cardinality({s \in Live(u) : s < t}) + Cap < Cardinality(Live(u))}
Excess(u) == {t \in Live(u) :
  Cardinality({s \in Live(u) : s < t}) + Cap < Cardinality(Live(u)) + 1}

Inserting(u) == {p \in Requests : req[p].pc = "commit" /\ req[p].user = u}

(* issueRefreshToken: the insert and its trigger. *)
Insert(q) ==
  /\ req[q].pc = "insert"
  /\ \E n \in Tokens :
       /\ row[n].state = "absent"
       /\ \A t \in Tokens : row[t].state = "absent" => n <= t
       /\ LET old == req[q].token
              u   == req[q].user
          IN /\ row' = [row EXCEPT ![n] =
                  [state |-> "pending", owner |-> u, next |-> None,
                   family |-> IF old = None THEN n ELSE row[old].family]]
             /\ req' = [p \in Requests |->
                  IF p = q THEN [req[q] EXCEPT !.pc = "commit", !.new = n,
                                   !.victims = Excess(u), !.beside = Inserting(u) # {}]
                  ELSE IF p \in Inserting(u) THEN [req[p] EXCEPT !.beside = TRUE]
                  ELSE req[p]]
  /\ UNCHANGED <<active, delivered, history>>

Commit(q) ==
  /\ req[q].pc = "commit"
  /\ row' = [t \in Tokens |->
       IF t = req[q].new THEN [row[t] EXCEPT !.state = "live"]
       ELSE IF t \in req[q].victims
       THEN [row[t] EXCEPT !.state = "revoked"]
       ELSE row[t]]
  /\ Goto(q, IF req[q].token = None THEN "respond" ELSE "mark")
  /\ crowded' = IF req[q].beside THEN crowded \union {req[q].user}
                                 ELSE crowded \ {req[q].user}
  /\ UNCHANGED <<active, delivered, killed, overtaken, forked>>

(* The presented token is marked replaced, by id, whatever became of it.   *)
MutMark(q) ==
  /\ req[q].pc = "mark"
  /\ row' = [row EXCEPT ![req[q].token].next = req[q].new]
  /\ Goto(q, "check")
  /\ UNCHANGED <<active, delivered, history>>
Mark(q) ==
  /\ req[q].pc = "mark"
  /\ row' = [row EXCEPT ![req[q].token] =
               [@ EXCEPT !.state = "revoked", !.next = req[q].new]]
  /\ Goto(q, "check")
  /\ UNCHANGED <<active, delivered, history>>

(* refreshTokens looks at the account only after the rotation. *)
MutCheck(q) ==
  /\ req[q].pc = "check"
  /\ Goto(q, "respond")
  /\ UNCHANGED <<row, active, delivered, history>>
Check(q) ==
  /\ req[q].pc = "check"
  /\ Goto(q, IF active[req[q].user] THEN "respond" ELSE "all")
  /\ UNCHANGED <<row, active, delivered, history>>

Respond(q) ==
  /\ req[q].pc = "respond"
  /\ delivered' = delivered \union {req[q].new}
  /\ End(q)
  /\ UNCHANGED <<row, active, history>>

(* Families F have had all their unrevoked rows revoked in one UPDATE. *)
Kill(F) ==
  /\ killed' = killed \union F
  /\ overtaken' = overtaken \union
       {f \in F : \E p \in Requests :
          /\ Rotating(p) /\ req[p].pc # "mark"
          /\ row[req[p].token].family = f}
  /\ UNCHANGED <<active, delivered, forked, crowded>>

(* revokeTokenFamily, after a logout or a detected reuse. *)
MutRevokeFamily(q) ==
  /\ req[q].pc = "family"
  /\ row' = Revoked({req[q].token})
  /\ Kill({row[req[q].token].family})
  /\ End(q)
RevokeFamily(q) ==
  /\ req[q].pc = "family"
  /\ LET f == row[req[q].token].family
     IN /\ row' = Revoked({t \in Tokens : row[t].family = f /\ row[t].state \in Unrevoked})
        /\ Kill({f})
  /\ End(q)

(* revokeAllUserTokens. *)
Wipe(u) ==
  /\ row' = Revoked({t \in Tokens : row[t].owner = u /\ row[t].state \in Unrevoked})
  /\ Kill({row[t].family : t \in {s \in Committed : row[s].owner = u}})

(* ... when a refresh finds the account disabled *)
RevokeAll(q) == req[q].pc = "all" /\ Wipe(req[q].user) /\ End(q)

(* ... and for /auth/logout-all, whose access token no table knows. *)
LogoutAll(u) == Wipe(u) /\ UNCHANGED req

(* The request dies, or its answer is lost.  A transaction that had not    *)
(* committed is rolled back.                                               *)
Crash(q) ==
  /\ req[q].pc # "idle"
  /\ row' = [t \in Tokens |->
       IF req[q].pc = "commit" /\ t = req[q].new
       THEN [NoRow EXCEPT !.state = "gone"] ELSE row[t]]
  /\ End(q)
  /\ UNCHANGED <<active, delivered, history>>

-----------------------------------------------------------------------------
(* Time, the cleanup job, and the account's administrator *)

Expire(t) ==
  /\ row[t].state = "live"
  /\ row' = [row EXCEPT ![t].state = "expired"]
  /\ UNCHANGED <<active, req, delivered, history>>

(* cleanup.ts deletes rows 7 days after they were revoked, 30 days after   *)
(* they expired: any such rows no request is using.                        *)
InUse(t) == \E q \in Requests : t \in {req[q].token, req[q].new} \union req[q].victims
Cleanup(state) ==
  /\ \E S \in SUBSET {t \in Tokens : row[t].state = state /\ ~InUse(t)} :
       row' = [t \in Tokens |-> IF t \in S THEN [NoRow EXCEPT !.state = "gone"] ELSE row[t]]
  /\ UNCHANGED <<active, req, delivered, history>>

(* An administrator disables an account (done outside this service). *)
Disable(u) ==
  /\ active[u]
  /\ active' = [active EXCEPT ![u] = FALSE]
  /\ UNCHANGED <<row, req, delivered, history>>

-----------------------------------------------------------------------------
Init ==
  /\ row = [t \in Tokens |-> NoRow]
  /\ active = [u \in Users |-> TRUE]
  /\ req = [q \in Requests |-> Idle]
  /\ delivered = {} /\ killed = {} /\ overtaken = {} /\ forked = {} /\ crowded = {}

Step(q) == \/ Insert(q) \/ Commit(q) \/ Mark(q) \/ Check(q) \/ Respond(q)
           \/ RevokeFamily(q) \/ RevokeAll(q)

Next == \/ \E q \in Requests : Step(q) \/ Crash(q)
        \/ \E q \in Requests, u \in Users : Login(q, u)
        \/ \E q \in Requests, t \in Tokens :
             BeginRotation(q, t) \/ DetectReuse(q, t) \/ BeginLogout(q, t)
        \/ \E u \in Users : LogoutAll(u) \/ Disable(u)
        \/ \E t \in Tokens : Expire(t)
        \/ \E state \in {"expired", "revoked"} : Cleanup(state)

Spec == Init /\ [][Next]_vars

-----------------------------------------------------------------------------
(* Properties *)

(* Every variable has its type, and a row with a successor is revoked. *)
TypeOK ==
  /\ row \in [Tokens -> Row]
  /\ \A t \in Tokens : row[t].next # None => row[t].state = "revoked"
  /\ active \in [Users -> BOOLEAN]
  /\ req \in [Requests -> Request]
  /\ delivered \subseteq Tokens
  /\ killed \subseteq Tokens
  /\ overtaken \subseteq killed
  /\ forked \subseteq Tokens
  /\ crowded \subseteq Users

(* A revoked session stays revoked: once a logout or a detected reuse has  *)
(* revoked a family, no token of it is ever usable again, unless a         *)
(* rotation had read its token and not yet inserted the successor.         *)
RevocationIsFinal ==
  \A t \in Tokens : row[t].state \in Unrevoked /\ row[t].family \in killed
                      => row[t].family \in overtaken

(* A session has one usable token: of the tokens a client has been sent,   *)
(* a family has two that would both be accepted only if two rotations of   *)
(* one token overlapped.  (A lost answer leaves an orphan nobody holds.)   *)
OneUsableToken ==
  \A s, t \in delivered :
    /\ s # t /\ row[s].family = row[t].family
    /\ row[s].state = "live" /\ row[t].state = "live"
    => row[s].family \in forked

(* The cap holds for a user whose last insert ran alone, so any later      *)
(* insert that does repairs what overlapping ones let through.             *)
CapUnlessCrowded ==
  \A u \in Users \ crowded : Cardinality(Live(u)) <= Cap

(* A request that began after the account was disabled sends no token.     *)
DisabledGetNothing ==
  [][\A t \in delivered' \ delivered :
       \E q \in Requests : req[q].new = t /\ req[q].active]_vars

(* What a client sees of the rows: of the tokens it was sent, those a      *)
(* refresh would accept.                                                   *)
Usable == [f \in Tokens |-> {t \in delivered : row[t].state = "live" /\ row[t].family = f}]

(* Seen by the clients, the endpoints do what SessionTokens promises.      *)
Sessions == INSTANCE SessionTokens WITH sent <- delivered, usable <- Usable, closed <- killed
SessionsSpec == Sessions!Spec
=============================================================================

------------------------------- MODULE SignIn -------------------------------
(***************************************************************************)
(* Signing in: Google logins and the OAuth broker.                         *)
(*                                                                         *)
(* A person signs in with a Google ID token (googleLogin), through an      *)
(* agent that holds a Google access token (exchangeGoogleAccessToken), or  *)
(* through the broker: an OAuth client sends the browser to /authorize,    *)
(* Google sends it back to /callback, and the client exchanges the code it *)
(* is redirected with for a session (broker.service.ts).  Every way ends   *)
(* in findOrCreateUser (user.service.ts), whose look-ups and writes are    *)
(* separate statements: other requests run between any two of them.        *)
(*                                                                         *)
(* A request runs once.  Where it ends tells what it was answered:         *)
(* "session", "code", "refused" (an error the code words) or "error" (an   *)
(* exception of the database).  A request refused by its first statement   *)
(* changes nothing and is left out.                                        *)
(***************************************************************************)
EXTENDS Naturals, FiniteSets

CONSTANTS Requests, Accounts,
          Subs,        \* Google accounts, by their immutable subject
          Emails,
          Clients,     \* OAuth clients
          Uris,
          Registered,  \* the redirect URIs each client registered
          States,      \* authorizations that may be begun
          Disables,    \* accounts an administrator may disable
          Renames,     \* renamings at Google start only below so many renamed subjects
          None

ASSUME SignInAssumption == /\ Registered \subseteq Clients \X Uris
                           /\ Disables \in Nat /\ Renames \in Nat
                           /\ None \notin Accounts \union Subs \union Emails \union Requests \union States

VARIABLES users,     \* the users table
          google,    \* the email each subject holds at Google, and held before
          client,    \* oauth_clients.is_active
          pending,   \* the oauth_pending_auths table
          codes,     \* the oauth_auth_codes table; a code is named by its callback
          req,       \* the requests
          contested, \* stubs claimed by a second subject that read them unclaimed
          overlapped \* codes that two exchanges read before either marked them

vars == <<users, google, client, pending, codes, req, contested, overlapped>>
tables == <<users, client, pending, codes>>
history == <<contested, overlapped>>

-----------------------------------------------------------------------------
(* Rows and requests *)

User == [sub : Subs \union {None}, email : Emails \union {None}, active : BOOLEAN]
NoUser == [sub |-> None, email |-> None, active |-> FALSE]
Existing == {u \in Accounts : users[u].email # None}

(* The two unique columns of users. *)
SubTaken(s, u) == \E v \in Existing \ {u} : users[v].sub = s
EmailTaken(e, u) == \E v \in Existing \ {u} : users[v].email = e

Party == [client : Clients \union {None}, uri : Uris \union {None}]
Nobody == [client |-> None, uri |-> None]
Pending == [to : Party, state : {"absent", "live", "expired", "gone"}]
Code == [to : Party, uid : Accounts \union {None}, used : BOOLEAN,
         state : {"absent", "live", "expired", "gone"}]
NoCode == [to |-> Nobody, uid |-> None, used |-> FALSE, state |-> "absent"]
InTable == {"live", "expired"}

(* A request: the subject and email its Google token proves, the account   *)
(* it resolved to, the googleSub and isActive it read of it; the state a   *)
(* callback brings back, or the code an exchange presents; the accounts    *)
(* that have been disabled for as long as the request runs.                *)
Answers == {"session", "code", "refused", "error"}
PCs == {"new", "expired", "consume", "google", "sub", "profile", "stub", "claim",
        "create", "mark", "identity", "grant"} \union Answers
Request == [pc : PCs, sub : Subs \union {None}, email : Emails \union {None},
            uid : Accounts \union {None}, seen : Subs \union {None}, live : BOOLEAN,
            state : States \union {None}, code : Requests \union {None},
            to : Party, off : SUBSET Accounts]
New == [pc |-> "new", sub |-> None, email |-> None, uid |-> None, seen |-> None,
        live |-> FALSE, state |-> None, code |-> None, to |-> Nobody, off |-> {}]

Disabled == {u \in Existing : ~users[u].active}
At(q, l) == req[q].pc = l
Goto(q, l) == req' = [req EXCEPT ![q].pc = l]
(* What a request no longer needs is forgotten with its answer. *)
Answer(q, a) ==
  req' = [req EXCEPT ![q] =
    CASE a \in {"session", "code"} -> [@ EXCEPT !.pc = a, !.email = None,
                                               !.seen = None, !.live = FALSE,
                                               !.off = req[q].off \cap {req[q].uid}]
      [] a = "refused" -> [New EXCEPT !.pc = a]
      [] a = "error" -> [New EXCEPT !.pc = a, !.sub = req[q].sub,
                                      !.email = req[q].email]]
Begin(q, r) == req' = [req EXCEPT ![q] = [r EXCEPT !.off = Disabled]]

-----------------------------------------------------------------------------
(* Ways to begin *)

(* googleLogin: an ID token lives for an hour, so it may still carry the   *)
(* email its subject held before.  It has passed verifyGoogleToken.        *)
Login(q, s, e) ==
  /\ At(q, "new")
  /\ e \in {google[s].email, google[s].before} \ {None}
  /\ Begin(q, [New EXCEPT !.pc = "sub", !.sub = s, !.email = e])
  /\ UNCHANGED <<tables, google, history>>

(* exchangeGoogleAccessToken: Google's userinfo names the present email. *)
AgentLogin(q, s) ==
  /\ At(q, "new")
  /\ google[s].email # None
  /\ Begin(q, [New EXCEPT !.pc = "sub", !.sub = s, !.email = google[s].email])
  /\ UNCHANGED <<tables, google, history>>

(* buildGoogleAuthorizeUrl, for an active client and one of its URIs. *)
Authorize(st, c, w) ==
  /\ pending[st].state = "absent"
  /\ client[c] /\ <<c, w>> \in Registered
  /\ pending' = [pending EXCEPT ![st] =
                   [to |-> [client |-> c, uri |-> w], state |-> "live"]]
  /\ UNCHANGED <<users, google, client, codes, req, history>>

(* handleGoogleCallback reads the authorization that subject s returns     *)
(* with; an expired one is deleted too, before the request is refused.     *)
Callback(q, st, s) ==
  /\ At(q, "new")
  /\ pending[st].state \in InTable
  /\ Begin(q, [New EXCEPT !.pc = IF pending[st].state = "live"
                                 THEN "consume" ELSE "expired",
                          !.state = st, !.sub = s, !.to = pending[st].to])
  /\ UNCHANGED <<tables, google, history>>

(* The callback deletes with deleteMany, which does not throw. *)
MutConsume(q) ==
  /\ req[q].pc \in {"consume", "expired"}
  /\ pending' = [pending EXCEPT ![req[q].state].state = "gone"]
  /\ IF At(q, "consume") THEN Goto(q, "google") ELSE Answer(q, "refused")
  /\ UNCHANGED <<users, google, client, codes, history>>

(* The delete of a row that is gone throws. *)
Consume(q) ==
  /\ req[q].pc \in {"consume", "expired"}
  /\ LET st == req[q].state IN
     IF pending[st].state \in InTable
     THEN /\ pending' = [pending EXCEPT ![st].state = "gone"]
          /\ IF At(q, "consume") THEN Goto(q, "google") ELSE Answer(q, "refused")
     ELSE /\ Answer(q, "error")
          /\ UNCHANGED pending
  /\ UNCHANGED <<users, google, client, codes, history>>

(* Google's token endpoint mints an ID token, or fails. *)
AskGoogle(q) ==
  /\ At(q, "google")
  /\ \/ /\ google[req[q].sub].email # None
        /\ req' = [req EXCEPT ![q].pc = "sub", ![q].email = google[req[q].sub].email]
     \/ Answer(q, "refused")
  /\ UNCHANGED <<tables, google, history>>

(* An exchange does not look at usedAt. *)
MutExchange(q, k, c, w) ==
  /\ At(q, "new")
  /\ client[c]
  /\ codes[k].state = "live"
  /\ codes[k].to = [client |-> c, uri |-> w]
  /\ Begin(q, [New EXCEPT !.pc = "mark", !.code = k,
                          !.to = [client |-> c, uri |-> w]])
  /\ UNCHANGED <<tables, google, history>>

(* exchangeAuthCode, up to the look-up of the code: the client is active   *)
(* and its credentials match, the code is neither used nor expired and was *)
(* issued to this client for this redirect URI.                            *)
Exchange(q, k, c, w) ==
  /\ At(q, "new")
  /\ client[c]
  /\ codes[k].state = "live" /\ ~codes[k].used
  /\ codes[k].to = [client |-> c, uri |-> w]
  /\ Begin(q, [New EXCEPT !.pc = "mark", !.code = k,
                          !.to = [client |-> c, uri |-> w]])
  /\ UNCHANGED <<tables, google, history>>

(* The code is marked used by id, whatever happened since it was read. *)
MarkUsed(q) ==
  /\ At(q, "mark")
  /\ LET k == req[q].code IN
     IF codes[k].state \in InTable
     THEN /\ codes' = [codes EXCEPT ![k].used = TRUE]
          /\ Goto(q, "identity")
          /\ overlapped' = overlapped \union
               {j \in {k} : \E p \in Requests \ {q} : At(p, "mark") /\ req[p].code = j}
     ELSE /\ Answer(q, "error")
          /\ UNCHANGED <<codes, overlapped>>
  /\ UNCHANGED <<users, google, client, pending, contested>>

(* The exchange trusts the callback's check of the account. *)
MutReadIdentity(q) ==
  /\ At(q, "identity")
  /\ req' = [req EXCEPT ![q].pc = "grant", ![q].uid = codes[req[q].code].uid,
                        ![q].live = TRUE]
  /\ UNCHANGED <<tables, google, history>>

(* getUserIdentity of the code's account. *)
ReadIdentity(q) ==
  /\ At(q, "identity")
  /\ LET u == codes[req[q].code].uid IN
     req' = [req EXCEPT ![q].pc = "grant", ![q].uid = u,
                        ![q].live = users[u].active]
  /\ UNCHANGED <<tables, google, history>>

-----------------------------------------------------------------------------
(* findOrCreateUser, one statement at a time *)

(* By subject; the profile is rewritten when it differs: the email is      *)
(* compared here, a new name or picture is a possibility of every login.   *)
FindBySub(q) ==
  /\ At(q, "sub")
  /\ \/ \E u \in Existing :
          /\ users[u].sub = req[q].sub
          /\ \E l \in {"profile"} \union
                      {m \in {"grant"} : users[u].email = req[q].email} :
               req' = [req EXCEPT ![q].pc = l, ![q].uid = u,
                                  ![q].live = users[u].active]
     \/ /\ ~SubTaken(req[q].sub, None)
        /\ Goto(q, "stub")
  /\ UNCHANGED <<tables, google, history>>

UpdateProfile(q) ==
  /\ At(q, "profile")
  /\ IF EmailTaken(req[q].email, req[q].uid)
     THEN /\ Answer(q, "error")
          /\ UNCHANGED users
     ELSE /\ users' = [users EXCEPT ![req[q].uid].email = req[q].email]
          /\ Goto(q, "grant")
  /\ UNCHANGED <<google, client, pending, codes, history>>

(* The stub is looked up by email alone. *)
MutUnclaimed(e) == {u \in Existing : users[u].email = e}

(* By email, among the accounts no subject has claimed yet. *)
Unclaimed(e) == {u \in Existing : users[u].email = e /\ users[u].sub = None}

FindStub(q) ==
  /\ At(q, "stub")
  /\ \/ \E u \in Unclaimed(req[q].email) :
          req' = [req EXCEPT ![q].pc = "claim", ![q].uid = u,
                             ![q].seen = users[u].sub, ![q].live = users[u].active]
     \/ /\ Unclaimed(req[q].email) = {}
        /\ Goto(q, "create")
  /\ UNCHANGED <<tables, google, history>>

(* The claim is an update by id: it does not ask again who holds it. *)
ClaimStub(q) ==
  /\ At(q, "claim")
  /\ LET u == req[q].uid IN
     IF SubTaken(req[q].sub, u)
     THEN /\ Answer(q, "error")
          /\ UNCHANGED <<users, contested>>
     ELSE /\ users' = [users EXCEPT ![u].sub = req[q].sub]
          /\ contested' = IF users[u].sub \in {req[q].seen, req[q].sub}
                          THEN contested ELSE contested \union {u}
          /\ Goto(q, "grant")
  /\ UNCHANGED <<google, client, pending, codes, overlapped>>

Provision(q) ==
  /\ At(q, "create")
  /\ IF SubTaken(req[q].sub, None) \/ EmailTaken(req[q].email, None)
     THEN /\ Answer(q, "error")
          /\ UNCHANGED users
     ELSE \E u \in Accounts \ Existing :
            /\ users' = [users EXCEPT ![u] =
                 [sub |-> req[q].sub, email |-> req[q].email, active |-> TRUE]]
            /\ req' = [req EXCEPT ![q].pc = "grant", ![q].uid = u, ![q].live = TRUE]
  /\ UNCHANGED <<google, client, pending, codes, history>>

(* The account as it was read decides.  A callback issues a code, every    *)
(* other request a session.                                                *)
Grant(q) ==
  /\ At(q, "grant")
  /\ IF ~req[q].live
     THEN /\ Answer(q, "refused")
          /\ UNCHANGED codes
     ELSE IF req[q].state # None
     THEN /\ codes' = [codes EXCEPT ![q] = [to |-> req[q].to, uid |-> req[q].uid,
                                            used |-> FALSE, state |-> "live"]]
          /\ Answer(q, "code")
     ELSE /\ Answer(q, "session")
          /\ UNCHANGED codes
  /\ UNCHANGED <<users, google, client, pending, history>>

-----------------------------------------------------------------------------
(* Administration, time, and Google *)

(* An administrator pre-creates an account for an email. *)
CreateStub(u, e) ==
  /\ u \notin Existing
  /\ ~EmailTaken(e, None)
  /\ users' = [users EXCEPT ![u] = [sub |-> None, email |-> e, active |-> TRUE]]
  /\ UNCHANGED <<google, client, pending, codes, req, history>>

Disable(u) ==
  /\ u \in Existing /\ users[u].active
  /\ Cardinality(Disabled) < Disables
  /\ users' = [users EXCEPT ![u].active = FALSE]
  /\ UNCHANGED <<google, client, pending, codes, req, history>>

DeactivateClient(c) ==
  /\ client[c]
  /\ client' = [client EXCEPT ![c] = FALSE]
  /\ UNCHANGED <<users, google, pending, codes, req, history>>

(* A person's address changes.  Whoever held the new one has lost it with  *)
(* the Google account, but may still hold an ID token that names it.       *)
Rename(s, e) ==
  /\ Cardinality({t \in Subs : google[t].before # None}) < Renames
  /\ google[s].email # e
  /\ google' = [t \in Subs |->
       IF t = s THEN [email |-> e, before |-> google[s].email]
       ELSE IF google[t].email = e THEN [email |-> None, before |-> e]
       ELSE google[t]]
  /\ UNCHANGED <<tables, req, history>>

(* Ten minutes for an authorization, five for a code. *)
ExpirePending(st) ==
  /\ pending[st].state = "live"
  /\ pending' = [pending EXCEPT ![st].state = "expired"]
  /\ UNCHANGED <<users, google, client, codes, req, history>>

ExpireCode(k) ==
  /\ codes[k].state = "live"
  /\ codes' = [codes EXCEPT ![k].state = "expired"]
  /\ UNCHANGED <<users, google, client, pending, req, history>>

(* purgeExpiredBrokerRecords: two deletes, in either order. *)
Swept(t) == [k \in DOMAIN t |-> IF t[k].state = "expired"
                                THEN [t[k] EXCEPT !.state = "gone"] ELSE t[k]]

Purge ==
  /\ \/ pending' = Swept(pending) /\ pending' # pending /\ UNCHANGED codes
     \/ codes' = Swept(codes) /\ codes' # codes /\ UNCHANGED pending
  /\ UNCHANGED <<users, google, client, req, history>>

-----------------------------------------------------------------------------
Init ==
  /\ users = [u \in Accounts |-> NoUser]
  /\ \E h \in [Subs -> Emails] :
       /\ \A s, t \in Subs : h[s] = h[t] => s = t
       /\ google = [s \in Subs |-> [email |-> h[s], before |-> None]]
  /\ client = [c \in Clients |-> TRUE]
  /\ pending = [st \in States |-> [to |-> Nobody, state |-> "absent"]]
  /\ codes = [q \in Requests |-> NoCode]
  /\ req = [q \in Requests |-> New]
  /\ contested = {} /\ overlapped = {}

Step(q) ==
  \/ Consume(q) \/ AskGoogle(q) \/ MarkUsed(q) \/ ReadIdentity(q)
  \/ FindBySub(q) \/ UpdateProfile(q) \/ FindStub(q) \/ ClaimStub(q)
  \/ Provision(q) \/ Grant(q)

Next ==
  \/ \E q \in Requests : Step(q)
  \/ \E q \in Requests, s \in Subs : AgentLogin(q, s) \/ \E e \in Emails : Login(q, s, e)
  \/ \E q \in Requests, st \in States, s \in Subs : Callback(q, st, s)
  \/ \E q, k \in Requests, c \in Clients, w \in Uris : Exchange(q, k, c, w)
  \/ \E st \in States, c \in Clients, w \in Uris : Authorize(st, c, w)
  \/ \E u \in Accounts : Disable(u) \/ \E e \in Emails : CreateStub(u, e)
  \/ \E c \in Clients : DeactivateClient(c)
  \/ \E s \in Subs, e \in Emails : Rename(s, e)
  \/ \E st \in States : ExpirePending(st)
  \/ \E k \in Requests : ExpireCode(k)
  \/ Purge

Spec == Init /\ [][Next]_vars

-----------------------------------------------------------------------------
(* Properties *)

(* Every row and every request is well formed. *)
TypeOK ==
  /\ users \in [Accounts -> User]
  /\ client \in [Clients -> BOOLEAN]
  /\ pending \in [States -> Pending]
  /\ codes \in [Requests -> Code]
  /\ req \in [Requests -> Request]
  /\ contested \subseteq Accounts /\ overlapped \subseteq Requests

Session(q) == At(q, "session")
Signer(q) == IF req[q].code = None THEN req[q].sub ELSE req[req[q].code].sub

(* A session opens the account bound to the Google subject that signed in, *)
(* unless two subjects claimed one stub at the same time; and a session    *)
(* from the broker goes to the very client and redirect URI the browser    *)
(* was sent to Google by, however many exchanges, renamings, purges and    *)
(* other logins ran since.                                                 *)
SessionOfSigner ==
  \A q \in Requests : Session(q) =>
    /\ req[q].uid \in contested \/ users[req[q].uid].sub = Signer(q)
    /\ req[q].code # None =>
         pending[req[req[q].code].state].to = req[q].to

(* However many callbacks come back with one authorization (a reload, a    *)
(* second tab), at most one of them is answered with a code.               *)
OneCodePerAuthorization ==
  \A p, q \in Requests :
    /\ At(p, "code") /\ At(q, "code")
    /\ req[p].state = req[q].state
    => p = q

(* "Authorization code has already been used": a code opens one session,   *)
(* unless two exchanges had read it before either of them marked it.       *)
CodeSpentOnce ==
  \A p, q \in Requests :
    /\ Session(p) /\ Session(q)
    /\ req[p].code = req[q].code /\ req[p].code \notin overlapped \union {None}
    => p = q

(* Nobody whose account was disabled before the request began gets a code  *)
(* or a session by it, not even over a stub, a new email or a code issued  *)
(* while the account was active.                                           *)
DisabledGetNothing ==
  \A q \in Requests : req[q].pc \in {"code", "session"} => req[q].uid \notin req[q].off
=============================================================================

--------------------------- MODULE AccessGrants ---------------------------
(***************************************************************************)
(* Who may see which account and campaign: the rows of access_grants as    *)
(* access.service.ts and cascading-access.service.ts write them, one       *)
(* database statement at a time.                                           *)
(*                                                                         *)
(* Both services look first and write later.  The campaigns of an account  *)
(* are read before the transaction that grants them; upsertGrant finds the *)
(* row and then updates it by its id, or creates one; a revocation updates *)
(* by id the rows it found before its transaction began.  A partial unique *)
(* index allows one unrevoked row per user and resource, and the           *)
(* transaction that would make a second one fails as a whole.              *)
(*                                                                         *)
(* Abstracted: the role of an account or campaign grant (stored, and read  *)
(* by nothing), how far back a temporal grant reaches, who granted or      *)
(* revoked, the audit rows (written in the transaction of the change).     *)
(***************************************************************************)
EXTENDS Naturals, FiniteSets

CONSTANTS
  Users, Accounts, Campaigns,
  AccountOf,        \* [Campaigns -> Accounts]
  There,            \* the campaigns that exist to begin with
  Initially,        \* the sets of resources a user may hold to begin with
  Calls,            \* requests, each served once: a bound
  None

Key == ({"account", "func:temporal"} \X Accounts) \cup ({"campaign"} \X Campaigns)

AccountOfKey(k) == IF k[1] = "campaign" THEN AccountOf[k[2]] ELSE k[2]

\* A grant names an account, or a campaign that exists.
ASSUME GrantAssumption ==
  /\ There \subseteq Campaigns
  /\ None \notin Accounts
  /\ \A K \in Initially : \A k \in K :
       k \in Key /\ (k[1] = "campaign" => k[2] \in There)

VARIABLES
  there,    \* the campaigns that exist
  grants,   \* [Users -> [Key -> Grant]], the latest row of each resource
  call,     \* what each request is about to do
  opened,   \* history: resources whose grant was reported and not undone since
  closed    \* history: accounts whose removal was reported and not undone since

grantVars == <<there, grants, opened, closed>>

\* An unrevoked row counts against the index whether it has expired or not.
\* "ending" is a usable row that has an expiry date.
Grant == [state: {"none", "live", "ending", "expired"}, row: Nat, made: Nat]

Held(u, k)   == grants[u][k].state # "none"
Usable(u, k) == grants[u][k].state \in {"live", "ending"}

Unused == [op |-> "unused"]
Done   == [op |-> "done"]

Granting == {"upsert", "commit"}
Revoking == {"collect", "collect_func", "revoke"}

CampaignsOf(a) == {k \in there : AccountOf[k] = a}
Family(a, ks)  == {<<"account", a>>} \cup ({"campaign"} \X ks)

InitGrants ==
  /\ there = There
  /\ \E K \in Initially :
       grants = [u \in Users |-> [k \in Key |->
                  IF k \in K THEN [state |-> "ending", row |-> 1, made |-> 1]
                             ELSE [state |-> "none", row |-> 0, made |-> 0]]]
  /\ call = [c \in Calls |-> Unused]
  /\ opened = [u \in Users |-> {}]
  /\ closed = [u \in Users |-> {}]

-----------------------------------------------------------------------------
(* Requests.  Two that are rivals and under way together are both marked   *)
(* as raced.  Here a grant and a revocation for the same user are rivals:  *)
(* what either of them then reports is no promise.                         *)

Begin(c, rivals, request) ==
  /\ call[c] = Unused
  /\ call' = [d \in Calls |->
       IF d = c THEN [request EXCEPT !.raced = rivals # {}]
       ELSE IF d \in rivals THEN [call[d] EXCEPT !.raced = TRUE]
       ELSE call[d]]

InFlight(u, ops) == {d \in Calls : call[d].op \in ops /\ call[d].user = u}

Request(op, u, a, ks) ==
  [op |-> op, user |-> u, account |-> a, keys |-> ks, found |-> <<>>,
   ends |-> FALSE, revives |-> FALSE, raced |-> FALSE]

BeginGrant(c, u, ks, ends, revives) ==
  /\ Begin(c, InFlight(u, Revoking),
           [Request("upsert", u, None, ks) EXCEPT !.ends = ends, !.revives = revives])
  /\ closed' = [closed EXCEPT ![u] = @ \ {AccountOfKey(k) : k \in ks}]
  /\ UNCHANGED <<there, grants, opened>>

\* The campaigns are read here, before the transaction, and so are its keys.
\* Its only caller leaves includeTemporalAccess at TRUE.
GrantFullAccountAccess(c, u, a, ends) ==
  BeginGrant(c, u, Family(a, CampaignsOf(a)) \cup {<<"func:temporal", a>>}, ends, FALSE)

\* The campaigns are all those of the account or any list of ids.
GrantAccountAccess(c, u, a, ks, ends) ==
  BeginGrant(c, u, Family(a, ks), ends, TRUE)

\* The finds of upsertGrant, one transaction's worth.
FindGrants(c) ==
  /\ call[c].op = "upsert"
  /\ LET u == call[c].user
     IN  call' = [call EXCEPT ![c].op = "commit",
                    ![c].found = [k \in call[c].keys |->
                       IF Held(u, k) THEN grants[u][k].row ELSE 0]]
  /\ UNCHANGED grantVars

\* Mutant: a grant that had expired keeps its expiry date.
MutUpserted(g, row, ends, revives) ==
  LET state == IF ends THEN "ending" ELSE "live"
  IN  CASE row = 0 -> [state |-> state, row |-> g.made + 1, made |-> g.made + 1]
        [] row # 0 /\ g.state \in {"live", "ending"} /\ g.row = row -> [g EXCEPT !.state = state]
        [] row # 0 /\ g.state = "none" /\ revives -> [g EXCEPT !.state = state, !.row = row]
        [] OTHER -> g

\* The row the transaction leaves behind for one resource.  An update by id of
\* a row revoked meanwhile brings it back in access.service.ts, which writes
\* revokedAt, and leaves it revoked in cascading-access.service.ts.
Upserted(g, row, ends, revives) ==
  LET state == IF ends THEN "ending" ELSE "live"
  IN  CASE row = 0 -> [state |-> state, row |-> g.made + 1, made |-> g.made + 1]
        [] row # 0 /\ g.state # "none" /\ g.row = row -> [g EXCEPT !.state = state]
        [] row # 0 /\ g.state = "none" /\ revives -> [g EXCEPT !.state = state, !.row = row]
        [] OTHER -> g

\* A second unrevoked row for one resource: the unique index refuses it.
Collides(g, row, revives) ==
  /\ g.state # "none"
  /\ row = 0 \/ (revives /\ g.row # row)

CommitGrants(c) ==
  /\ call[c].op = "commit"
  /\ LET u == call[c].user
         found == call[c].found
         ks == call[c].keys
     IN  IF \E k \in ks : Collides(grants[u][k], found[k], call[c].revives)
         THEN UNCHANGED <<grants, opened>>
         ELSE /\ grants' = [grants EXCEPT ![u] = [k \in Key |->
                   IF k \in ks THEN Upserted(@[k], found[k], call[c].ends, call[c].revives)
                               ELSE @[k]]]
              /\ opened' = [opened EXCEPT ![u] = IF call[c].raced THEN @ ELSE @ \cup ks]
  /\ call' = [call EXCEPT ![c] = Done]
  /\ UNCHANGED <<there, closed>>

-----------------------------------------------------------------------------
(* Revocation.                                                             *)

FoundHeld(u, ks) == [k \in {x \in ks : Held(u, x)} |-> grants[u][k].row]

\* With no grant found the request ends without an update.
RevokeAccess(c, u, k) ==
  /\ k[1] # "func:temporal"
  /\ Begin(c, InFlight(u, Granting),
           IF Held(u, k)
           THEN [Request("revoke", u, None, {k}) EXCEPT !.found = FoundHeld(u, {k})]
           ELSE [Request("revoke", u, None, {}) EXCEPT !.found = FoundHeld(u, {})])
  /\ opened' = [opened EXCEPT ![u] = @ \ {k}]
  /\ UNCHANGED <<there, grants, closed>>

\* Mutant: the campaigns of the account are forgotten.
MutRevokeFullAccountAccess(c, u, a) ==
  /\ Begin(c, InFlight(u, Granting), Request("collect", u, a, Family(a, {})))
  /\ opened' = [opened EXCEPT ![u] = {k \in @ : AccountOfKey(k) # a}]
  /\ UNCHANGED <<there, grants, closed>>

RevokeFullAccountAccess(c, u, a) ==
  /\ Begin(c, InFlight(u, Granting), Request("collect", u, a, Family(a, CampaignsOf(a))))
  /\ opened' = [opened EXCEPT ![u] = {k \in @ : AccountOfKey(k) # a}]
  /\ UNCHANGED <<there, grants, closed>>

\* Active grants are asked for by resource id, whatever their type, so the
\* account's temporal grant is among them.
CollectGrants(c) ==
  /\ call[c].op = "collect"
  /\ call' = [call EXCEPT ![c].op = "collect_func",
                ![c].found = FoundHeld(call[c].user,
                   call[c].keys \cup {<<"func:temporal", call[c].account>>})]
  /\ UNCHANGED grantVars

\* The second query, for functional grants alone.
CollectFunctional(c) ==
  /\ call[c].op = "collect_func"
  /\ LET func == FoundHeld(call[c].user, {<<"func:temporal", call[c].account>>})
         both == call[c].found
     IN  call' = [call EXCEPT ![c].op = "revoke",
                    ![c].found = [k \in DOMAIN both \cup DOMAIN func |->
                       IF k \in DOMAIN func THEN func[k] ELSE both[k]]]
  /\ UNCHANGED grantVars

\* The update by id, and the answer.  With nothing found there is no update.
RevokeRows(c) ==
  /\ call[c].op = "revoke"
  /\ LET u == call[c].user
         found == call[c].found
         a == call[c].account
     IN  /\ grants' = [grants EXCEPT ![u] = [k \in Key |->
               IF k \in DOMAIN found /\ @[k].row = found[k]
               THEN [@[k] EXCEPT !.state = "none"] ELSE @[k]]]
         /\ closed' = [closed EXCEPT ![u] =
               IF a # None /\ ~call[c].raced THEN @ \cup {a} ELSE @]
  /\ call' = [call EXCEPT ![c] = Done]
  /\ UNCHANGED <<there, opened>>

-----------------------------------------------------------------------------
(* The world: campaigns are created, and expiry dates pass.                *)

CreateCampaign(k) ==
  /\ k \notin there
  /\ there' = there \cup {k}
  /\ UNCHANGED <<grants, call, opened, closed>>

Expire(u, k) ==
  /\ grants[u][k].state = "ending"
  /\ grants' = [grants EXCEPT ![u][k].state = "expired"]
  /\ opened' = [opened EXCEPT ![u] = @ \ {k}]
  /\ UNCHANGED <<there, call, closed>>

GrantNext ==
  \/ \E c \in Calls, u \in Users :
       \/ \E a \in Accounts, ends \in BOOLEAN :
            \/ GrantFullAccountAccess(c, u, a, ends)
            \/ \E ks \in SUBSET there : GrantAccountAccess(c, u, a, ks, ends)
       \/ \E k \in Key : RevokeAccess(c, u, k)
       \/ \E a \in Accounts : RevokeFullAccountAccess(c, u, a)
  \/ \E c \in Calls : \/ FindGrants(c) \/ CommitGrants(c)
                      \/ CollectGrants(c) \/ CollectFunctional(c) \/ RevokeRows(c)
  \/ \E k \in Campaigns : CreateCampaign(k)
  \/ \E u \in Users, k \in Key : Expire(u, k)
=============================================================================

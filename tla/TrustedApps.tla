----------------------------- MODULE TrustedApps -----------------------------
(***************************************************************************)
(* Which applications may sign users in: the trusted_apps registry, edited *)
(* by administrators while the server runs (in an application outside this *)
(* repository), tidied and seeded by every instance that boots             *)
(* (ensureSelfTrustedApp), and read three times by a sign-in: the origin   *)
(* gate, the audiences of the Google token, and the pairing of the two.    *)
(* No two of these reads or writes share a transaction.                    *)
(***************************************************************************)
EXTENDS Naturals, FiniteSets

CONSTANTS AppRows,   \* ids of trusted_apps rows
          Origins,   \* browser origins
          Clients,   \* Google client ids
          Self,      \* GOOGLE_CLIENT_ID, the server's own
          Instances, \* server instances
          Requests,  \* sign-ins under way at a time
          MaxChanges,  \* edits, key rotations and starts of instances (bound)
          None

ASSUME TrustedAppsAssumption ==
  Self \in Clients /\ None \notin Origins /\ MaxChanges \in Nat

VARIABLES app,      \* the table
          boot,     \* each instance's run of ensureSelfTrustedApp
          signIn,   \* sign-ins under way
          changes,    \* how many of these there were
          removed,  \* entries an administrator took off a row and has not put back
          contested \* those of them a boot may put back, see Contested

registryVars == <<app, boot, signIn, changes, removed, contested>>

-----------------------------------------------------------------------------
(* The table *)

(* An entry is a value and whether stray whitespace clings to it; only a   *)
(* plain entry equals what a browser or Google sends.                      *)
Fields == {"origins", "googleClientIds"}
Values(f) == IF f = "origins" THEN Origins ELSE Clients
Entries(f) == Values(f) \X {"plain", "padded"}
AppRow == [row : {"none", "there", "deleted"}, isActive : BOOLEAN,
           origins : SUBSET Entries("origins"),
           googleClientIds : SUBSET Entries("googleClientIds")]
Absent == [row |-> "none", isActive |-> FALSE, origins |-> {}, googleClientIds |-> {}]

There == {r \in AppRows : app[r].row = "there"}
Active == {r \in There : app[r].isActive}
Lists(r, f, v) == <<v, "plain">> \in app[r][f]

isAudienceOriginPaired(c, o) ==
  \E r \in Active : Lists(r, "googleClientIds", c) /\ Lists(r, "origins", o)

(* The audiences of every active row, and always the server's own. *)
getActiveAudiences ==
  {Self} \union {c \in Clients : \E r \in Active : Lists(r, "googleClientIds", c)}

-----------------------------------------------------------------------------
(* ensureSelfTrustedApp *)

normalize(S) == {<<e[1], "plain">> : e \in S}
Untidy(S) == normalize(S) # S

Boot == [pc : {"down", "reading", "cleaning", "seeding", "up"},
         seen : [AppRows -> AppRow], left : SUBSET AppRows]
NoBoot == [pc |-> "down", seen |-> [r \in AppRows |-> Absent], left |-> {}]

SignIn == [pc : {"idle", "gate", "audience", "pairing", "accepted"},
           on : Instances \union {None}, origin : Origins \union {None},
           client : Clients \union {None}]
NoSignIn == [pc |-> "idle", on |-> None, origin |-> None, client |-> None]

(* The process ends, and with it the sign-ins it was serving. *)
Exit(i) == /\ boot' = [boot EXCEPT ![i] = NoBoot]
           /\ signIn' = [q \in Requests |-> IF signIn[q].on = i THEN NoSignIn ELSE signIn[q]]

ReadRegistry(i) ==
  /\ boot[i].pc = "reading"
  /\ boot' = [boot EXCEPT ![i] = [pc |-> "cleaning", seen |-> app,
                                  left |-> There]]
  /\ UNCHANGED <<app, signIn, changes, removed, contested>>

(* The fields written back, from what was read. *)
Dirty(row, f) == Untidy(row[f])
Cleaned(r, row) == [f \in DOMAIN row |->
  IF f \in Fields /\ Dirty(row, f) THEN normalize(row[f]) ELSE app[r][f]]

(* The process exits when a row to be written is gone. *)
CleanRow(i, r) ==
  LET row == boot[i].seen[r]
      write == \E f \in Fields : Dirty(row, f)
  IN /\ boot[i].pc = "cleaning"
     /\ r \in boot[i].left
     /\ IF write /\ r \notin There
        THEN Exit(i) /\ UNCHANGED app
        ELSE /\ boot' = [boot EXCEPT ![i].left = @ \ {r}]
             /\ app' = IF write THEN [app EXCEPT ![r] = Cleaned(r, row)] ELSE app
             /\ UNCHANGED signIn
     /\ UNCHANGED <<changes, removed, contested>>

LookForSelf(i) ==
  /\ boot[i].pc = "cleaning" /\ boot[i].left = {}
  /\ boot' = [boot EXCEPT ![i] = [NoBoot EXCEPT !.pc =
       IF \E r \in Active : Lists(r, "googleClientIds", Self) THEN "up" ELSE "seeding"]]
  /\ UNCHANGED <<app, signIn, changes, removed, contested>>

SeedSelf(i, r) ==
  /\ boot[i].pc = "seeding"
  /\ app[r].row = "none"
  /\ app' = [app EXCEPT ![r] = [row |-> "there", isActive |-> TRUE, origins |-> {},
                                googleClientIds |-> {<<Self, "plain">>}]]
  /\ boot' = [boot EXCEPT ![i] = [NoBoot EXCEPT !.pc = "up"]]
  /\ UNCHANGED <<signIn, changes, removed, contested>>

-----------------------------------------------------------------------------
(* Administrators (outside this repository); ids are never reused. *)

(* A boot that read the field untidy and has yet to write it back. *)
Contested(r, f) == \E i \in Instances :
  boot[i].pc = "cleaning" /\ r \in boot[i].left /\ Untidy(boot[i].seen[r][f])

Change == changes < MaxChanges /\ changes' = changes + 1

List(r, f, e) ==
  /\ Change
  /\ r \in There
  /\ e \in Entries(f) \ app[r][f]
  /\ app' = [app EXCEPT ![r][f] = @ \union {e}]
  /\ removed' = removed \ {<<r, f, e[1]>>}
  /\ contested' = contested \ {<<r, f, e[1]>>}
  /\ UNCHANGED <<boot, signIn>>

Unlist(r, f, v) ==
  /\ Change
  /\ r \in There
  /\ \E e \in app[r][f] : e[1] = v
  /\ app' = [app EXCEPT ![r][f] = {e \in @ : e[1] # v}]
  /\ removed' = removed \union {<<r, f, v>>}
  /\ contested' = IF Contested(r, f) THEN contested \union {<<r, f, v>>}
                                    ELSE contested \ {<<r, f, v>>}
  /\ UNCHANGED <<boot, signIn>>

Switch(r) ==
  /\ Change
  /\ r \in There
  /\ app' = [app EXCEPT ![r].isActive = ~@]
  /\ UNCHANGED <<boot, signIn, removed, contested>>

Unregister(r) ==
  /\ Change
  /\ r \in There
  /\ app' = [app EXCEPT ![r] = [Absent EXCEPT !.row = "deleted"]]
  /\ UNCHANGED <<boot, signIn, removed, contested>>

-----------------------------------------------------------------------------
(* Sign-ins *)

(* A browser sends its origin; the broker and other servers send none. *)
Arrive(q, i, o, c) ==
  /\ signIn[q].pc = "idle"
  /\ boot[i].pc # "down"
  /\ signIn' = [signIn EXCEPT ![q] = [pc |-> IF o = None THEN "audience" ELSE "gate",
                                      on |-> i, origin |-> o, client |-> c]]
  /\ UNCHANGED <<app, boot, changes, removed, contested>>

Goes(q, pc) == signIn' = [signIn EXCEPT ![q].pc = pc]
Answered(q) == signIn' = [signIn EXCEPT ![q] = NoSignIn]

(* 403 ORIGIN_NOT_ALLOWED, or at any time 503: the table cannot be read. *)
originAllowList(q) ==
  /\ signIn[q].pc = "gate"
  /\ \/ /\ \E r \in Active : Lists(r, "origins", signIn[q].origin)
        /\ Goes(q, "audience")
     \/ Answered(q)
  /\ UNCHANGED <<app, boot, changes, removed, contested>>

(* 403 AUDIENCE_NOT_REGISTERED; 401 when Google does not vouch for the     *)
(* token or its email.                                                     *)
verifyIdToken(q) ==
  /\ signIn[q].pc = "audience"
  /\ \/ /\ signIn[q].client \in getActiveAudiences
        /\ Goes(q, IF signIn[q].origin = None THEN "accepted" ELSE "pairing")
     \/ Answered(q)
  /\ UNCHANGED <<app, boot, changes, removed, contested>>

(* 403 AUDIENCE_ORIGIN_MISMATCH *)
\* Mutant: the origin and the audience may stand on different rows.
MutPair(q) ==
  /\ signIn[q].pc = "pairing"
  /\ IF \E r \in Active : Lists(r, "origins", signIn[q].origin)
     THEN Goes(q, "accepted") ELSE Answered(q)
  /\ UNCHANGED <<app, boot, changes, removed, contested>>
Pair(q) ==
  /\ signIn[q].pc = "pairing"
  /\ IF isAudienceOriginPaired(signIn[q].client, signIn[q].origin)
     THEN Goes(q, "accepted") ELSE Answered(q)
  /\ UNCHANGED <<app, boot, changes, removed, contested>>

-----------------------------------------------------------------------------
(* One application is registered, tidily or not, and one instance runs.    *)
OldRow == CHOOSE r \in AppRows : TRUE
OldInstance == CHOOSE i \in Instances : TRUE
RegistryInit ==
  /\ \E o \in Entries("origins"), c \in Entries("googleClientIds") :
       app = [r \in AppRows |-> IF r # OldRow THEN Absent
                               ELSE [row |-> "there", isActive |-> TRUE,
                                     origins |-> {o}, googleClientIds |-> {c}]]
  /\ boot = [i \in Instances |-> IF i = OldInstance THEN [NoBoot EXCEPT !.pc = "up"] ELSE NoBoot]
  /\ signIn = [q \in Requests |-> NoSignIn]
  /\ changes = 0
  /\ removed = {}
  /\ contested = {}

(* Once an administrator has taken an origin or a Google client id off a   *)
(* row, no browser signs in by that row with it, until it is put back:     *)
(* except when an instance was booting, had read the row untidy and wrote  *)
(* its array back after the edit.  Origin and client must stand together   *)
(* on one active row (verifyGoogleToken, ensureSelfTrustedApp).            *)
DeregisteredStaysOut ==
  [][\A q \in Requests :
       (signIn[q].pc # "accepted" /\ signIn'[q].pc = "accepted" /\ signIn[q].origin # None)
       => \E r \in Active :
            /\ Lists(r, "origins", signIn[q].origin)
            /\ Lists(r, "googleClientIds", signIn[q].client)
            /\ <<r, "origins", signIn[q].origin>> \notin removed \ contested
            /\ <<r, "googleClientIds", signIn[q].client>> \notin removed \ contested]_registryVars
=============================================================================

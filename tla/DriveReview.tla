----------------------------- MODULE DriveReview -----------------------------
(***************************************************************************)
(* Drive change proposals: their emission by a sync run (drive.distill.ts, *)
(* drive.discover.ts), the mails that announce them (drive.notify.ts), the *)
(* owner's decisions (drive.review.ts) and their expiry (drive.router.ts). *)
(*                                                                         *)
(* A proposal here is what is decided at once: a field_change row, or all  *)
(* the rows of one new_entity group.  The rows of a group are created in   *)
(* one transaction with one reviewer and one expiry, and every update that *)
(* touches one of them touches all: they never differ in their state.      *)
(*                                                                         *)
(* A decision is read, checked, and then written by id in a transaction    *)
(* that checks nothing again; requests run side by side.                   *)
(***************************************************************************)
EXTENDS Naturals, Sequences, FiniteSets

CONSTANTS Proposals,  \* proposals that may be created
          Entities,   \* existing accounts and campaigns, one field of each
          Folders,    \* Drive folders that may become an entity
          Staff,
          Owner,      \* Owner[t]: who is asked about entity or folder t
          Values,
          Runs,       \* sync runs
          Requests,   \* POST /review/:token/decide in progress at a time
          Mailers,    \* notifyReviewers in progress at a time
          MaxRows,    \* change rows inserted, those rolled back included
          None

ASSUME ReviewAssumption ==
  /\ Entities \cap Folders = {}
  /\ Owner \in [Entities \union Folders -> Staff \union {None}]
  /\ None \notin Staff \union Values \union Entities \union Folders \union Runs
  /\ MaxRows \in Nat

VARIABLES prop,      \* the drive_change_proposals table
          value,     \* value[e]: the field of entity e
          version,   \* version[e]: how often it has been updated
          changes,   \* account_changes and campaign_changes, as inserted
          made,      \* made[p]: entities created by approving group p
          active,    \* staff whose status is 'active'
          run,       \* what each sync run has read and holds
          req,       \* the decision requests
          mailer,    \* the notification passes
          mailed,    \* proposals a mail has announced
          again,     \* proposals that two mails have announced
          raced,     \* proposals decided or swept under another decision
          doubtful   \* proposals a pass may announce although one has

record == <<value, version, changes>>
drive == <<prop, record, made>>
mails == <<mailed, again>>
vars == <<prop, value, version, changes, made, active, run, req, mailer, mailed, again, raced, doubtful>>

-----------------------------------------------------------------------------
(* Tables and processes *)

Targets == Entities \union Folders

(* `old` is current_value, `at` the entity's version when it was read. *)
Proposal == [target : Targets \union {None}, old : Values \union {None},
             new : Values \union {None}, at : Nat, run : Runs \union {None},
             reviewer : Staff \union {None},
             state : {"absent", "pending", "rejected", "applied", "expired"},
             overdue : BOOLEAN, notified : BOOLEAN]

NoProposal == [target |-> None, old |-> None, new |-> None, at |-> 0, run |-> None,
               reviewer |-> None, state |-> "absent", overdue |-> FALSE, notified |-> FALSE]

(* A change row, the fate of its transaction, and what the update that     *)
(* follows it overwrote (value and version); `beside`: two approvals for   *)
(* the entity were between insert and commit at a time, this one of them.  *)
Change == [prop : Proposals, target : Entities, prev : Values, new : Values,
           state : {"open", "kept", "undone"}, was : Values \union {None}, nth : Nat,
           beside : BOOLEAN]
RowsOf(e, st) == {i \in DOMAIN changes : changes[i].target = e /\ changes[i].state = st}

IsGroup(p) == prop[p].target \in Folders
Linked == {f \in Folders : \E p \in Proposals : prop[p].target = f /\ made[p] > 0}

(* A run reads an entity, or the list of linked folders, and emits later. *)
RunState == [entity : Entities \union {None}, old : Values \union {None}, at : Nat,
             unlinked : SUBSET Folders]
NoRead == [entity |-> None, old |-> None, at |-> 0, unlinked |-> {}]

(* `row` is the change row inserted, while its transaction is open. *)
RequestState == [pc : {"idle", "open", "write", "update"}, staff : Staff \union {None},
                 prop : Proposals \union {None}, row : Nat]
Closed == [pc |-> "idle", staff |-> None, prop |-> None, row |-> 0]

Holds(q, p) == req[q].pc \in {"write", "update"} /\ req[q].prop = p
HeldBeside(q, p) == \E r \in Requests \ {q} : Holds(r, p)

MailerState == [pc : {"idle", "send", "stamp"}, rows : SUBSET Proposals,
                bucket : SUBSET Proposals]
Quiet == [pc |-> "idle", rows |-> {}, bucket |-> {}]

-----------------------------------------------------------------------------
(* Emission *)

(* The insert of one new proposal. *)
Insert(p, row) ==
  /\ prop[p].state = "absent"
  /\ prop' = [prop EXCEPT ![p] = row]

(* scanEntity's loadEntityContext: the state that observations are diffed  *)
(* against, read before the folder is walked.                              *)
LoadContext(r, e) ==
  /\ run[r] = NoRead
  /\ run' = [run EXCEPT ![r] = [NoRead EXCEPT !.entity = e, !.old = value[e],
                                              !.at = version[e]]]
  /\ UNCHANGED <<drive, active, req, mailer, mails, raced, doubtful>>

(* distillAndEmit: a change to a value other than the one the run read.    *)
(* Nothing looks at the proposals that are pending already.                *)
MutEmitChange(r) ==
  /\ run[r].entity # None
  /\ \E p \in Proposals, v \in Values \ {run[r].old} :
       Insert(p, [NoProposal EXCEPT !.target = run[r].entity, !.old = v, !.new = run[r].old,
                    !.at = run[r].at, !.run = r, !.reviewer = Owner[run[r].entity],
                    !.state = "pending"])
  /\ UNCHANGED <<record, made, active, run, req, mailer, mails, raced, doubtful>>
EmitChange(r) ==
  /\ run[r].entity # None
  /\ \E p \in Proposals, v \in Values \ {run[r].old} :
       Insert(p, [NoProposal EXCEPT !.target = run[r].entity, !.old = run[r].old, !.new = v,
                    !.at = run[r].at, !.run = r, !.reviewer = Owner[run[r].entity],
                    !.state = "pending"])
  /\ UNCHANGED <<record, made, active, run, req, mailer, mails, raced, doubtful>>

(* discoverNewEntities: the folders no account or campaign has. *)
ListUnlinked(r) ==
  /\ run[r] = NoRead
  /\ run' = [run EXCEPT ![r].unlinked = Folders \ Linked]
  /\ UNCHANGED <<drive, active, req, mailer, mails, raced, doubtful>>

(* proposeNewEntity, once for each of them; or the model declines it. *)
ProposeGroup(r) ==
  /\ \E f \in run[r].unlinked :
       /\ run' = [run EXCEPT ![r].unlinked = @ \ {f}]
       /\ \/ \E p \in Proposals :
               Insert(p, [NoProposal EXCEPT !.target = f, !.run = r, !.reviewer = Owner[f],
                                            !.state = "pending"])
          \/ UNCHANGED prop
  /\ UNCHANGED <<record, made, active, req, mailer, mails, raced, doubtful>>

(* The scan or the discovery ends, or its instance dies. *)
EndRead(r) ==
  /\ run[r] # NoRead
  /\ run' = [run EXCEPT ![r] = NoRead]
  /\ UNCHANGED <<drive, active, req, mailer, mails, raced, doubtful>>

(* A new account's proposals have no reviewer; an administrator finds one  *)
(* (the scan log says "needs admin routing before it can be reviewed").    *)
Route(p, s) ==
  /\ prop[p].state = "pending" /\ prop[p].reviewer = None
  /\ prop' = [prop EXCEPT ![p].reviewer = s]
  /\ UNCHANGED <<record, made, active, run, req, mailer, mails, raced, doubtful>>

-----------------------------------------------------------------------------
(* Decisions *)

(* A token opens a review as long as its own proposal is not overdue and   *)
(* its reviewer is active, whatever has become of that proposal.           *)
Opens(p) == /\ prop[p].state # "absent"
            /\ ~prop[p].overdue
            /\ prop[p].reviewer \in active

(* applyDecisions, up to the loop over the decisions. *)
OpenReview(q, p) ==
  /\ req[q].pc = "idle"
  /\ Opens(p)
  /\ req' = [req EXCEPT ![q] = [Closed EXCEPT !.pc = "open", !.staff = prop[p].reviewer]]
  /\ UNCHANGED <<drive, active, run, mailer, mails, raced, doubtful>>

(* applySingleDecision and applyGroupDecision, up to the write.  A decision *)
(* that fails here is reported as an error, and the next one is taken up.  *)
MutDecidable(q, p) == prop[p].reviewer = req[q].staff /\ ~prop[p].overdue
MutDecidableByAll(q, p) == prop[p].state = "pending" /\ ~prop[p].overdue
Decidable(q, p) == /\ prop[p].state = "pending"
                   /\ prop[p].reviewer = req[q].staff
                   /\ ~prop[p].overdue

TakeUp(q, p) ==
  /\ req' = [req EXCEPT ![q] = [@ EXCEPT !.pc = "write", !.prop = p]]
  /\ raced' = IF HeldBeside(q, p) THEN raced \union {p} ELSE raced
  /\ UNCHANGED <<drive, active, run, mailer, mails, doubtful>>
Check(q, p) == req[q].pc = "open" /\ Decidable(q, p) /\ TakeUp(q, p)

Reopen(q) == req' = [req EXCEPT ![q] = [Closed EXCEPT !.pc = "open", !.staff = req[q].staff]]

Reject(q) ==
  /\ req[q].pc = "write"
  /\ prop' = [prop EXCEPT ![req[q].prop].state = "rejected"]
  /\ Reopen(q)
  /\ UNCHANGED <<record, made, active, run, mailer, mails, raced, doubtful>>

(* The transaction of an approved change begins with the change row (the   *)
(* proposed value, or the reviewer's own).  Nothing locks the entity yet.  *)
InsertChange(q) ==
  /\ req[q].pc = "write" /\ ~IsGroup(req[q].prop)
  /\ Len(changes) < MaxRows
  /\ \E v \in Values :
       LET p == req[q].prop
           e == prop[p].target
           rivals == RowsOf(e, "open")
       IN changes' = Append(
            [i \in DOMAIN changes |->
               IF i \in rivals THEN [changes[i] EXCEPT !.beside = TRUE] ELSE changes[i]],
            [prop |-> p, target |-> e, prev |-> prop[p].old, new |-> v, state |-> "open",
             was |-> None, nth |-> 0, beside |-> rivals # {}])
  /\ req' = [req EXCEPT ![q].pc = "update", ![q].row = Len(changes) + 1]
  /\ UNCHANGED <<prop, value, version, made, active, run, mailer, mails, raced, doubtful>>

(* Then the entity's column, which locks its row until the commit, and the *)
(* proposal.                                                               *)
Applied(q, v) ==
  LET p == req[q].prop
      e == prop[p].target
  IN /\ changes' = [changes EXCEPT ![req[q].row].state = "kept",
                      ![req[q].row].was = value[e], ![req[q].row].nth = version[e]]
     /\ value' = [value EXCEPT ![e] = v]
     /\ version' = [version EXCEPT ![e] = @ + 1]
     /\ prop' = [prop EXCEPT ![p].state = "applied"]
  /\ Reopen(q)
  /\ UNCHANGED <<made, active, run, mailer, mails, raced, doubtful>>
MutApplyChange(q) == req[q].pc = "update" /\ Applied(q, prop[req[q].prop].new)
ApplyChange(q) == req[q].pc = "update" /\ Applied(q, changes[req[q].row].new)

(* One transaction: the account or campaign, linked to the folder, and the *)
(* rows of the group.  No constraint keeps a folder from being linked twice. *)
ApplyGroup(q) ==
  /\ req[q].pc = "write" /\ IsGroup(req[q].prop)
  /\ made' = [made EXCEPT ![req[q].prop] = @ + 1]
  /\ prop' = [prop EXCEPT ![req[q].prop].state = "applied"]
  /\ Reopen(q)
  /\ UNCHANGED <<record, active, run, mailer, mails, raced, doubtful>>

(* The transaction of q, if one is open, is rolled back. *)
RollBack(q) == changes' = IF req[q].pc = "update"
                          THEN [changes EXCEPT ![req[q].row].state = "undone"] ELSE changes

(* The transaction fails and the next decision is taken up. *)
WriteFails(q) ==
  /\ req[q].pc \in {"write", "update"}
  /\ RollBack(q)
  /\ Reopen(q)
  /\ UNCHANGED <<prop, value, version, made, active, run, mailer, mails, raced, doubtful>>

(* The last decision is done, or the request dies. *)
CloseReview(q) ==
  /\ req[q].pc # "idle"
  /\ RollBack(q)
  /\ req' = [req EXCEPT ![q] = Closed]
  /\ UNCHANGED <<prop, value, version, made, active, run, mailer, mails, raced, doubtful>>

-----------------------------------------------------------------------------
(* Expiry *)

(* expires_at passes. *)
Overdue(p) ==
  /\ prop[p].state # "absent" /\ ~prop[p].overdue
  /\ prop' = [prop EXCEPT ![p].overdue = TRUE]
  /\ UNCHANGED <<record, made, active, run, req, mailer, mails, raced, doubtful>>

(* sweepExpiredProposals *)
Lapsed == {p \in Proposals : prop[p].state = "pending" /\ prop[p].overdue}
SweepExpired ==
  /\ Lapsed # {}
  /\ prop' = [p \in Proposals |->
       IF p \in Lapsed THEN [prop[p] EXCEPT !.state = "expired"] ELSE prop[p]]
  /\ raced' = raced \union {p \in Lapsed : \E q \in Requests : Holds(q, p)}
  /\ UNCHANGED <<record, made, active, run, req, mailer, mails, doubtful>>

(* The directory sync finds that a member of staff has left or is back. *)
SetStatus(s) ==
  /\ active' = IF s \in active THEN active \ {s} ELSE active \union {s}
  /\ UNCHANGED <<drive, run, req, mailer, mails, raced, doubtful>>

-----------------------------------------------------------------------------
(* Notification *)

(* notifyReviewers, at the end of a run for its own proposals, or by hand  *)
(* for all: the pending ones that were never announced.                    *)
MutUnannounced(S) == {p \in Proposals : /\ prop[p].state = "pending"
                                        /\ prop[p].reviewer # None
                                        /\ prop[p].run \in S}
Unannounced(S) == {p \in Proposals : /\ prop[p].state = "pending"
                                     /\ ~prop[p].notified
                                     /\ prop[p].reviewer # None
                                     /\ prop[p].run \in S}
CollectRows(m) ==
  /\ mailer[m].pc = "idle"
  /\ \E S \in {Runs} \union {{r} : r \in Runs} :
       /\ Unannounced(S) # {}
       /\ mailer' = [mailer EXCEPT ![m] = [Quiet EXCEPT !.pc = "send", !.rows = Unannounced(S)]]
       /\ doubtful' = doubtful \union
            {p \in Unannounced(S) :
               \E n \in Mailers \ {m} : p \in mailer[n].rows \union mailer[n].bucket}
  /\ UNCHANGED <<drive, active, run, req, mails, raced>>

Bucket(m, s) == {p \in mailer[m].rows : prop[p].reviewer = s}

(* The mail for one reviewer goes out; its rows are stamped next. *)
SendMail(m, s) ==
  /\ mailer[m].pc = "send"
  /\ Bucket(m, s) # {}
  /\ s \in active
  /\ mailed' = mailed \union Bucket(m, s)
  /\ again' = again \union (mailed \cap Bucket(m, s))
  /\ mailer' = [mailer EXCEPT ![m] = [pc |-> "stamp", rows |-> mailer[m].rows \ Bucket(m, s),
                                      bucket |-> Bucket(m, s)]]
  /\ UNCHANGED <<drive, active, run, req, raced, doubtful>>

(* The send throws although the provider has taken the mail (its answer is *)
(* lost): the rows stay as they are.                                       *)
LoseAnswer(m, s) ==
  /\ mailer[m].pc = "send"
  /\ Bucket(m, s) # {}
  /\ s \in active
  /\ mailed' = mailed \union Bucket(m, s)
  /\ again' = again \union (mailed \cap Bucket(m, s))
  /\ mailer' = [mailer EXCEPT ![m].rows = @ \ Bucket(m, s)]
  /\ doubtful' = doubtful \union Bucket(m, s)
  /\ UNCHANGED <<drive, active, run, req, raced>>

(* The reviewer is inactive, or no mail goes out: left for later. *)
MutSkipBatch(m, s) ==
  /\ mailer[m].pc = "send"
  /\ Bucket(m, s) # {}
  /\ mailer' = [mailer EXCEPT ![m] = [pc |-> "stamp", rows |-> mailer[m].rows \ Bucket(m, s),
                                      bucket |-> Bucket(m, s)]]
  /\ UNCHANGED <<drive, active, run, req, mails, raced, doubtful>>
SkipBatch(m, s) ==
  /\ mailer[m].pc = "send"
  /\ Bucket(m, s) # {}
  /\ mailer' = [mailer EXCEPT ![m].rows = @ \ Bucket(m, s)]
  /\ UNCHANGED <<drive, active, run, req, mails, raced, doubtful>>

(* notified_at, by id. *)
Stamp(m) ==
  /\ mailer[m].pc = "stamp"
  /\ prop' = [p \in Proposals |->
       IF p \in mailer[m].bucket THEN [prop[p] EXCEPT !.notified = TRUE] ELSE prop[p]]
  /\ mailer' = [mailer EXCEPT ![m] = [@ EXCEPT !.pc = "send", !.bucket = {}]]
  /\ UNCHANGED <<record, made, active, run, req, mails, raced, doubtful>>

(* The pass is over, or its instance dies (with a mail out and no stamp). *)
EndPass(m) ==
  /\ mailer[m].pc # "idle"
  /\ mailer' = [mailer EXCEPT ![m] = Quiet]
  /\ doubtful' = doubtful \union mailer[m].bucket
  /\ UNCHANGED <<drive, active, run, req, mails, raced>>

-----------------------------------------------------------------------------
Init ==
  /\ prop = [p \in Proposals |-> NoProposal]
  /\ value \in [Entities -> Values]
  /\ version = [e \in Entities |-> 0]
  /\ changes = <<>>
  /\ made = [p \in Proposals |-> 0]
  /\ active = Staff
  /\ run = [r \in Runs |-> NoRead]
  /\ req = [q \in Requests |-> Closed]
  /\ mailer = [m \in Mailers |-> Quiet]
  /\ mailed = {} /\ again = {}
  /\ raced = {} /\ doubtful = {}

Emission == \E r \in Runs :
  \/ \E e \in Entities : LoadContext(r, e)
  \/ EmitChange(r) \/ ListUnlinked(r) \/ ProposeGroup(r) \/ EndRead(r)

Decision == \E q \in Requests :
  \/ \E p \in Proposals : OpenReview(q, p) \/ Check(q, p)
  \/ Reject(q) \/ InsertChange(q) \/ ApplyChange(q) \/ ApplyGroup(q) \/ WriteFails(q) \/ CloseReview(q)

Notification == \E m \in Mailers :
  \/ CollectRows(m) \/ Stamp(m) \/ EndPass(m)
  \/ \E s \in Staff : SendMail(m, s) \/ LoseAnswer(m, s) \/ SkipBatch(m, s)

Next == \/ Emission \/ Decision \/ Notification
        \/ \E p \in Proposals : Overdue(p)
        \/ \E p \in Proposals, s \in Staff : Route(p, s)
        \/ \E s \in Staff : SetStatus(s)
        \/ SweepExpired

Spec == Init /\ [][Next]_vars

-----------------------------------------------------------------------------
(* Properties *)

(* Every variable has its type (a change row's previous value is a value), *)
(* a change row has its proposal's target, a request in a transaction has  *)
(* a change row, and a mail pass holds no row without a reviewer.          *)
TypeOK ==
  /\ prop \in [Proposals -> Proposal]
  /\ value \in [Entities -> Values]
  /\ version \in [Entities -> Nat]
  /\ changes \in Seq(Change)
  /\ \A i \in DOMAIN changes : changes[i].target = prop[changes[i].prop].target
  /\ made \in [Proposals -> Nat]
  /\ active \subseteq Staff
  /\ run \in [Runs -> RunState]
  /\ req \in [Requests -> RequestState]
  /\ \A q \in Requests : req[q].pc = "update" => req[q].row \in DOMAIN changes
  /\ mailer \in [Mailers -> MailerState]
  /\ \A m \in Mailers, p \in Proposals : p \in mailer[m].rows => prop[p].reviewer # None
  /\ again \subseteq mailed /\ mailed \subseteq Proposals
  /\ raced \subseteq Proposals
  /\ doubtful \subseteq Proposals

(* How often p has changed the database. *)
Effects(p) == made[p] + Cardinality({i \in DOMAIN changes :
                                       changes[i].prop = p /\ changes[i].state = "kept"})

(* What became of a proposal is what its row says: an applied one has      *)
(* changed the database once, any other never, unless two decisions on it, *)
(* or a decision and the sweep, overlapped.                                *)
EffectMatchesVerdict ==
  \A p \in Proposals \ raced : Effects(p) = IF prop[p].state = "applied" THEN 1 ELSE 0

(* The last row of the change log for its entity. *)
LastOf(i) == /\ changes[i].state = "kept"
             /\ \A j \in RowsOf(changes[i].target, "kept") : j <= i

(* The change log is the entity's history: its last row for an entity      *)
(* tells the entity's value, overrides included, unless another approval   *)
(* for the entity was between its insert and its commit at that time: a    *)
(* transaction inserts its row before it waits for the entity's lock, so   *)
(* the last to update need not be the last in the log.                     *)
LogTellsValue ==
  \A i \in DOMAIN changes :
    LastOf(i) /\ ~changes[i].beside => value[changes[i].target] = changes[i].new

(* A change row's previous value is the value that was overwritten, unless *)
(* another change was applied after the scan had read the entity.          *)
PreviousUnlessStale ==
  \A i \in DOMAIN changes :
    changes[i].state = "kept" /\ changes[i].nth = prop[changes[i].prop].at
      => changes[i].prev = changes[i].was

(* Only the reviewer of a proposal decides it, whichever of the reviewer's *)
(* tokens opened the session.                                              *)
OwnerDecides ==
  [][\A p \in Proposals :
       prop[p].state = "pending" /\ prop'[p].state \in {"applied", "rejected"}
         => \E q \in Requests : Holds(q, p) /\ req[q].staff = prop[p].reviewer]_vars

(* A proposal marked as announced was announced.                           *)
AnnouncedWasMailed == \A p \in Proposals : prop[p].notified => p \in mailed

(* A proposal is announced once, unless two passes had read it at a time,  *)
(* one died between its mail and its stamp, or the answer of the provider  *)
(* to a mail it had taken was lost.                                        *)
AnnouncedOnce == again \subseteq doubtful
=============================================================================

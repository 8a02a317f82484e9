------------------------- MODULE DriveReviewProofs -------------------------
(***************************************************************************)
(* For any number of proposals, entities, reviewers, runs, decisions and   *)
(* mail passes: what a proposal's row, the change log and the announcement *)
(* mails tell of each other.                                               *)
(*                                                                         *)
(* The invariant has four parts.  FormInv: what exists.  LogInv follows    *)
(* the value a scan read, which is the entity's as long as its version is, *)
(* and the order of the log: two approvals that are open together are both *)
(* beside, and whatever is open follows every kept row that is not.        *)
(* HoldInv follows a decision between its check and its commit: the        *)
(* proposal is pending and nobody else's, unless it is raced, and its      *)
(* change row is open and its own.  MailInv follows a proposal through a   *)
(* mail pass: whoever has it in hand is alone, and it is mailed before it  *)
(* is stamped.                                                             *)
(***************************************************************************)
EXTENDS DriveReview, FiniteSetTheorems, SequenceTheorems, TLAPS

FormInv ==
  /\ \A p \in Proposals : prop[p].state # "absent" => prop[p].target \in Targets
  /\ \A i \in DOMAIN changes : prop[changes[i].prop].state # "absent"
  /\ \A q \in Requests : req[q].pc # "idle" => req[q].staff # None
  /\ \A q \in Requests : req[q].pc \in {"write", "update"} =>
       /\ req[q].prop \in Proposals /\ prop[req[q].prop].state # "absent"
       /\ prop[req[q].prop].reviewer = req[q].staff

LogInv ==
  /\ \A p \in Proposals : prop[p].state # "absent" /\ prop[p].target \in Entities =>
       /\ prop[p].old # None /\ prop[p].at <= version[prop[p].target]
       /\ prop[p].at = version[prop[p].target] => value[prop[p].target] = prop[p].old
  /\ \A r \in Runs : run[r].entity # None =>
       /\ run[r].old # None /\ run[r].at <= version[run[r].entity]
       /\ run[r].at = version[run[r].entity] => value[run[r].entity] = run[r].old
  /\ \A i \in DOMAIN changes : changes[i].prev = prop[changes[i].prop].old
  /\ \A i, j \in DOMAIN changes :
       changes[j].state = "open" /\ changes[i].target = changes[j].target =>
         /\ changes[i].state = "open" /\ i # j => changes[i].beside
         /\ changes[i].state = "kept" => changes[i].beside \/ i < j
  /\ LogTellsValue
  /\ PreviousUnlessStale

(* The changes logged in C for proposal p. *)
Logged(C, p) == {i \in DOMAIN C : C[i].prop = p /\ C[i].state = "kept"}

HoldInv ==
  /\ \A p \in Proposals \ raced, q \in Requests : Holds(q, p) =>
       prop[p].state = "pending" /\ \A r \in Requests \ {q} : ~Holds(r, p)
  /\ \A p \in Proposals \ raced :
       made[p] + Cardinality(Logged(changes, p)) = IF prop[p].state = "applied" THEN 1 ELSE 0
  /\ \A q \in Requests : req[q].pc = "update" =>
       /\ changes[req[q].row].state = "open" /\ changes[req[q].row].prop = req[q].prop
       /\ \A r \in Requests \ {q} : req[r].pc = "update" => req[r].row # req[q].row

(* What a mail pass has in hand. *)
InHand(m) == mailer[m].rows \union mailer[m].bucket

MailInv ==
  /\ \A m \in Mailers : /\ mailer[m].pc # "stamp" => mailer[m].bucket = {}
                        /\ mailer[m].pc = "idle" => mailer[m].rows = {}
                        /\ mailer[m].bucket \subseteq mailed
                        /\ mailer[m].rows \intersect mailed \subseteq doubtful
  /\ \A m, n \in Mailers : m # n => InHand(m) \intersect InHand(n) \subseteq doubtful
  /\ \A m \in Mailers : \A p \in InHand(m) : prop[p].state # "absent"
  /\ \A p \in mailed : /\ prop[p].state # "absent"
                       /\ \/ prop[p].notified \/ p \in doubtful
                          \/ \E m \in Mailers : p \in mailer[m].bucket
  /\ AnnouncedWasMailed
  /\ AnnouncedOnce

IInv == TypeOK /\ FormInv /\ LogInv /\ HoldInv /\ MailInv

-----------------------------------------------------------------------------
(* The change log as a sequence.                                           *)

LEMMA LogGrows ==
  ASSUME NEW C \in Seq(Change), NEW c \in Change
  PROVE  LET D == Append(C, c) IN
         /\ D \in Seq(Change) /\ Len(C) \in Nat /\ Len(D) = Len(C) + 1
         /\ DOMAIN C = 1..Len(C) /\ DOMAIN D = 1..(Len(C) + 1)
         /\ \A i \in DOMAIN C : D[i] = C[i] /\ D[i] \in Change
         /\ D[Len(C) + 1] = c
BY AppendProperties, LenProperties, ElementOfSeq

LEMMA LoggedFinite ==
  ASSUME NEW C \in Seq(Change), NEW p
  PROVE  IsFiniteSet(Logged(C, p)) /\ Cardinality(Logged(C, p)) \in Nat
<1>1. Len(C) \in Nat /\ DOMAIN C = 1..Len(C)
  BY LenProperties
<1>2. IsFiniteSet(1..Len(C))
  BY <1>1, FS_Interval
<1>3. Logged(C, p) \in SUBSET (1..Len(C))
  BY <1>1 DEF Logged
<1> QED BY <1>2, <1>3, FS_Subset, FS_CardinalityType

LEMMA LoggedKeep ==
  ASSUME NEW C \in Seq(Change), NEW D \in Seq(Change), NEW k \in DOMAIN C, NEW p,
         DOMAIN D = DOMAIN C, C[k].state # "kept", D[k].state = "kept", D[k].prop = C[k].prop,
         \A i \in DOMAIN C : i # k => D[i] = C[i]
  PROVE  Cardinality(Logged(D, p))
           = Cardinality(Logged(C, p)) + (IF C[k].prop = p THEN 1 ELSE 0)
<1>1. k \notin Logged(C, p)
  BY DEF Logged
<1>2. IsFiniteSet(Logged(C, p)) /\ Cardinality(Logged(C, p)) \in Nat
  BY LoggedFinite
<1>3. CASE C[k].prop = p
  <2>1. Logged(D, p) = Logged(C, p) \cup {k}
    BY <1>3 DEF Logged
  <2> QED BY <1>1, <1>2, <1>3, <2>1, FS_AddElement
<1>4. CASE C[k].prop # p
  <2>1. Logged(D, p) = Logged(C, p)
    BY <1>4 DEF Logged
  <2> QED BY <1>2, <1>4, <2>1
<1> QED BY <1>3, <1>4

-----------------------------------------------------------------------------
LEMMA LogTyped ==
  ASSUME IInv
  PROVE  /\ changes \in Seq(Change) /\ Len(changes) \in Nat
         /\ DOMAIN changes = 1..Len(changes)
         /\ \A i \in DOMAIN changes : changes[i] \in Change /\ changes[i].prop \in Proposals
<1>1. changes \in Seq(Change)
  BY DEF IInv, TypeOK
<1>2. \A i \in DOMAIN changes : changes[i] \in Change
  BY <1>1, LenProperties, ElementOfSeq
<1> QED BY <1>1, <1>2, LenProperties DEF Change

(* What the table of proposals must keep for those who do not write it.    *)

RowsKept == \A p \in Proposals :
  /\ prop'[p].target = prop[p].target /\ prop'[p].old = prop[p].old
  /\ prop'[p].at = prop[p].at
  /\ prop'[p].state = "absent" <=> prop[p].state = "absent"
  /\ prop[p].reviewer # None => prop'[p].reviewer = prop[p].reviewer

LEMMA FormFrame ==
  ASSUME IInv, RowsKept, UNCHANGED <<changes, req>>
  PROVE  FormInv'
<1>1. \A i \in DOMAIN changes : changes[i].prop \in Proposals
  BY LogTyped
<1> QED BY <1>1 DEF IInv, FormInv, RowsKept

LEMMA LogFrame ==
  ASSUME IInv, RowsKept, UNCHANGED <<value, version, changes, run>>
  PROVE  LogInv'
<1>1. \A i \in DOMAIN changes : changes[i].prop \in Proposals
  BY LogTyped
<1>2. LogTellsValue'
  BY DEF IInv, LogInv, LogTellsValue, LastOf, RowsOf
<1>3. PreviousUnlessStale'
  BY <1>1 DEF IInv, LogInv, PreviousUnlessStale, RowsKept
<1> QED BY <1>1, <1>2, <1>3 DEF IInv, LogInv, RowsKept

LEMMA HoldFrame ==
  ASSUME IInv, UNCHANGED <<made, changes, req, raced>>,
         \A p \in Proposals : prop'[p].state = prop[p].state
  PROVE  HoldInv'
BY DEF IInv, HoldInv, Holds

LEMMA MailFrame ==
  ASSUME IInv, RowsKept, UNCHANGED <<mailer, mailed, again, doubtful>>,
         \A p \in Proposals : prop'[p].notified = prop[p].notified
  PROVE  MailInv'
<1>1. \A m \in Mailers : mailer[m].rows \subseteq Proposals /\ mailer[m].bucket \subseteq Proposals
  BY DEF IInv, TypeOK, MailerState
<1>2. mailed \subseteq Proposals
  BY DEF IInv, TypeOK
<1>3. \A m \in Mailers : \A p \in InHand(m) : prop'[p].state # "absent"
  BY <1>1 DEF IInv, MailInv, InHand, RowsKept
<1>4. \A p \in mailed : /\ prop'[p].state # "absent"
                       /\ prop'[p].notified = prop[p].notified
  BY <1>2 DEF IInv, MailInv, RowsKept
<1>5. AnnouncedWasMailed'
  BY DEF IInv, MailInv, AnnouncedWasMailed
<1> QED BY <1>3, <1>4, <1>5 DEF IInv, MailInv, InHand, AnnouncedOnce

(* A step that leaves the table and the log alone.                         *)
LEMMA QuietTypes ==
  ASSUME IInv, RowsKept, prop' \in [Proposals -> Proposal], UNCHANGED <<changes, mailer>>,
         /\ UNCHANGED <<value, version>> /\ made' \in [Proposals -> Nat] /\ active' \subseteq Staff
         /\ run' \in [Runs -> RunState] /\ req' \in [Requests -> RequestState]
         /\ UNCHANGED <<mailed, again>>
         /\ raced' \subseteq Proposals /\ doubtful' \subseteq Proposals,
         \A q \in Requests : req'[q].pc = "update" => req'[q].row \in DOMAIN changes
  PROVE  TypeOK'
<1>1. \A i \in DOMAIN changes : changes[i].prop \in Proposals
  BY LogTyped
<1> QED BY <1>1 DEF IInv, TypeOK, RowsKept

-----------------------------------------------------------------------------
(* Emission *)

LEMMA ReadStep ==
  ASSUME IInv, NEW r \in Runs, NEW s \in RunState, run' = [run EXCEPT ![r] = s],
         s.entity # None =>
           /\ s.old # None /\ s.at <= version[s.entity]
           /\ s.at = version[s.entity] => value[s.entity] = s.old,
         UNCHANGED <<drive, active, req, mailer, mails, raced, doubtful>>
  PROVE  IInv'
<1>1. UNCHANGED <<prop, value, version, changes, made, active, req, mailer, mailed, again, raced, doubtful>>
  BY DEF drive, record, mails
<1>2. RowsKept
  BY <1>1 DEF RowsKept
<1>3. run' \in [Runs -> RunState]
  BY DEF IInv, TypeOK
<1>4. TypeOK'
  BY <1>1, <1>2, <1>3, QuietTypes DEF IInv, TypeOK
<1>5. FormInv' /\ HoldInv' /\ MailInv'
  BY <1>1, <1>2, FormFrame, HoldFrame, MailFrame
<1>6. LogInv'
  <2>1. \A x \in Runs : (run'[x] = s /\ x = r) \/ run'[x] = run[x]
    BY DEF IInv, TypeOK
  <2>2. LogTellsValue' /\ PreviousUnlessStale'
    BY <1>1 DEF IInv, LogInv, LogTellsValue, LastOf, RowsOf, PreviousUnlessStale
  <2> QED BY <1>1, <2>1, <2>2 DEF IInv, LogInv
<1> QED BY <1>4, <1>5, <1>6 DEF IInv

LEMMA LoadContextInv ==
  ASSUME IInv, NEW r \in Runs, NEW e \in Entities, LoadContext(r, e)
  PROVE  IInv'
<1> DEFINE s == [NoRead EXCEPT !.entity = e, !.old = value[e], !.at = version[e]]
<1>1. s \in RunState /\ s.entity = e /\ s.old = value[e] /\ s.at = version[e]
  BY DEF IInv, TypeOK, RunState, NoRead
<1>2. value[e] # None /\ version[e] \in Nat
  BY ReviewAssumption DEF IInv, TypeOK
<1>3. /\ run' = [run EXCEPT ![r] = s]
      /\ UNCHANGED <<drive, active, req, mailer, mails, raced, doubtful>>
  BY DEF LoadContext
<1> HIDE DEF s
<1>4. /\ s.old # None /\ s.at <= version[s.entity] /\ value[s.entity] = s.old
  BY <1>1, <1>2
<1> QED BY <1>1, <1>3, <1>4, ReadStep

LEMMA ListUnlinkedInv == ASSUME IInv, NEW r \in Runs, ListUnlinked(r) PROVE IInv'
<1> DEFINE s == [run[r] EXCEPT !.unlinked = Folders \ Linked]
<1>1. s \in RunState /\ s.entity = None
  BY DEF RunState, NoRead, ListUnlinked
<1>2. /\ run' = [run EXCEPT ![r] = s]
      /\ UNCHANGED <<drive, active, req, mailer, mails, raced, doubtful>>
  BY DEF ListUnlinked, IInv, TypeOK
<1> HIDE DEF s
<1> QED BY <1>1, <1>2, ReadStep

LEMMA EndReadInv == ASSUME IInv, NEW r \in Runs, EndRead(r) PROVE IInv'
<1>1. NoRead \in RunState /\ NoRead.entity = None
  BY DEF RunState, NoRead
<1> QED BY <1>1, ReadStep DEF EndRead

LEMMA InsertStep ==
  ASSUME IInv, NEW p \in Proposals, NEW row \in Proposal, Insert(p, row),
         row.state = "pending", row.target \in Targets, ~row.notified,
         row.target \in Entities =>
           /\ row.old # None /\ row.at <= version[row.target]
           /\ row.at = version[row.target] => value[row.target] = row.old,
         run' \in [Runs -> RunState],
         \A r \in Runs : /\ run'[r].entity = run[r].entity /\ run'[r].old = run[r].old
                         /\ run'[r].at = run[r].at,
         UNCHANGED <<value, version, changes, made, active, req, mailer, mailed, again, raced, doubtful>>
  PROVE  IInv'
<1>1. /\ prop[p].state = "absent" /\ prop' \in [Proposals -> Proposal] /\ prop'[p] = row
      /\ \A x \in Proposals \ {p} : prop'[x] = prop[x]
  BY DEF Insert, IInv, TypeOK
<1>2. \A i \in DOMAIN changes : changes[i].prop \in Proposals \ {p}
  BY <1>1, LogTyped DEF IInv, FormInv
<1>3. \A m \in Mailers : InHand(m) \subseteq Proposals \ {p}
  BY <1>1 DEF IInv, TypeOK, MailInv, MailerState, InHand
<1>4. mailed \subseteq Proposals \ {p}
  BY <1>1 DEF IInv, TypeOK, MailInv
<1>5. TypeOK'
  BY <1>1, <1>2, <1>3 DEF IInv, TypeOK, InHand
<1>6. FormInv'
  BY <1>1, <1>2 DEF IInv, FormInv
<1>7. LogInv'
  <2>1. LogTellsValue' /\ PreviousUnlessStale'
    BY <1>1, <1>2 DEF IInv, LogInv, LogTellsValue, LastOf, RowsOf, PreviousUnlessStale
  <2> QED BY <1>1, <1>2, <2>1 DEF IInv, LogInv
<1>8. HoldInv'
  BY <1>1 DEF IInv, HoldInv, FormInv, Holds
<1>9. MailInv'
  <2>1. AnnouncedWasMailed'
    BY <1>1 DEF IInv, MailInv, AnnouncedWasMailed
  <2>2. \A m \in Mailers : \A x \in InHand(m) : prop'[x].state # "absent"
    BY <1>1, <1>3 DEF IInv, MailInv
  <2>3. \A x \in mailed : prop'[x] = prop[x]
    BY <1>1, <1>4
  <2> QED BY <2>1, <2>2, <2>3 DEF IInv, MailInv, InHand, AnnouncedOnce
<1> QED BY <1>5, <1>6, <1>7, <1>8, <1>9 DEF IInv

LEMMA EmitChangeInv == ASSUME IInv, NEW r \in Runs, EmitChange(r) PROVE IInv'
<1> DEFINE e == run[r].entity
           Row(v) == [NoProposal EXCEPT !.target = e, !.old = run[r].old, !.new = v,
                        !.at = run[r].at, !.run = r, !.reviewer = Owner[e], !.state = "pending"]
<1>1. PICK p \in Proposals, v \in Values : Insert(p, Row(v))
  BY DEF EmitChange
<1>2. UNCHANGED <<value, version, changes, made, active, run, req, mailer, mailed, again, raced, doubtful>>
  BY DEF EmitChange, record, mails
<1>3. run[r] \in RunState /\ e \in Entities /\ Owner[e] \in Staff \union {None}
  BY ReviewAssumption DEF EmitChange, IInv, TypeOK, RunState
<1>4. /\ run[r].old \in Values /\ run[r].at \in Nat /\ run[r].at <= version[e]
      /\ run[r].old # None
      /\ run[r].at = version[e] => value[e] = run[r].old
  BY <1>3 DEF EmitChange, IInv, LogInv, RunState
<1>5. /\ Row(v) \in Proposal /\ Row(v).state = "pending" /\ Row(v).target = e
      /\ ~Row(v).notified /\ Row(v).old = run[r].old /\ Row(v).at = run[r].at
  BY <1>3, <1>4 DEF Proposal, NoProposal, Targets
<1>6. e \in Targets
  BY <1>3 DEF Targets
<1> DEFINE row == Row(v)
<1>7. /\ row \in Proposal /\ row.state = "pending" /\ row.target = e
      /\ ~row.notified /\ row.old = run[r].old /\ row.at = run[r].at /\ Insert(p, row)
  BY <1>1, <1>5
<1> HIDE DEF row, Row
<1>8. run' \in [Runs -> RunState]
  BY <1>2 DEF IInv, TypeOK
<1> QED BY <1>2, <1>4, <1>6, <1>7, <1>8, InsertStep

LEMMA ProposeGroupInv == ASSUME IInv, NEW r \in Runs, ProposeGroup(r) PROVE IInv'
<1>1. PICK f \in run[r].unlinked :
        /\ run' = [run EXCEPT ![r].unlinked = @ \ {f}]
        /\ \/ \E p \in Proposals :
                Insert(p, [NoProposal EXCEPT !.target = f, !.run = r, !.reviewer = Owner[f],
                                             !.state = "pending"])
           \/ UNCHANGED prop
  BY DEF ProposeGroup
<1>2. UNCHANGED <<value, version, changes, made, active, req, mailer, mailed, again, raced, doubtful>>
  BY DEF ProposeGroup, record, mails
<1>3. run[r] \in RunState /\ f \in Folders /\ Owner[f] \in Staff \union {None}
  BY ReviewAssumption DEF IInv, TypeOK, RunState
<1> DEFINE s == [run[r] EXCEPT !.unlinked = run[r].unlinked \ {f}]
<1>4. s \in RunState /\ s.entity = run[r].entity /\ s.old = run[r].old /\ s.at = run[r].at
  BY <1>3 DEF RunState
<1>5. run' = [run EXCEPT ![r] = s]
  BY <1>1 DEF IInv, TypeOK
<1> HIDE DEF s
<1>6. /\ run' \in [Runs -> RunState]
      /\ \A x \in Runs : /\ run'[x].entity = run[x].entity /\ run'[x].old = run[x].old
                         /\ run'[x].at = run[x].at
  BY <1>4, <1>5 DEF IInv, TypeOK
<1>7. CASE UNCHANGED prop
  BY <1>2, <1>4, <1>5, <1>7, ReadStep DEF IInv, LogInv, drive, record, mails
<1>8. CASE ~UNCHANGED prop
  <2> DEFINE row == [NoProposal EXCEPT !.target = f, !.run = r, !.reviewer = Owner[f],
                                       !.state = "pending"]
  <2>1. PICK p \in Proposals : Insert(p, row)
    BY <1>1, <1>8
  <2>2. row \in Proposal /\ row.state = "pending" /\ row.target = f /\ ~row.notified
    BY <1>3 DEF Proposal, NoProposal, Targets
  <2> HIDE DEF row
  <2>3. f \in Targets /\ f \notin Entities
    BY <1>3, ReviewAssumption DEF Targets
  <2> QED BY <1>2, <1>6, <2>1, <2>2, <2>3, InsertStep
<1> QED BY <1>7, <1>8

(* A row changes in what no other table depends on.                        *)
LEMMA RowStep ==
  ASSUME IInv, RowsKept, prop' \in [Proposals -> Proposal],
         \A p \in Proposals : /\ prop'[p].state = prop[p].state
                              /\ prop'[p].notified = prop[p].notified,
         UNCHANGED <<value, version, changes, made, active, run, req, mailer, mails, raced, doubtful>>
  PROVE  IInv'
<1>1. UNCHANGED <<value, version, changes, made, active, run, req, mailer, mailed, again, raced, doubtful>>
  BY DEF mails
<1>2. TypeOK'
  BY <1>1, QuietTypes DEF IInv, TypeOK
<1>3. FormInv' /\ LogInv' /\ HoldInv' /\ MailInv'
  BY <1>1, FormFrame, LogFrame, HoldFrame, MailFrame
<1> QED BY <1>2, <1>3 DEF IInv

LEMMA RouteInv == ASSUME IInv, NEW p \in Proposals, NEW s \in Staff, Route(p, s) PROVE IInv'
<1>1. prop[p] \in Proposal /\ prop \in [Proposals -> Proposal] /\ prop[p].reviewer = None
  BY DEF IInv, TypeOK, Route
<1>2. /\ prop' \in [Proposals -> Proposal] /\ RowsKept
      /\ \A x \in Proposals : /\ prop'[x].state = prop[x].state
                              /\ prop'[x].notified = prop[x].notified
  BY <1>1 DEF Route, Proposal, RowsKept
<1> QED BY <1>2, RowStep DEF Route, record

LEMMA OverdueInv == ASSUME IInv, NEW p \in Proposals, Overdue(p) PROVE IInv'
<1>1. prop[p] \in Proposal /\ prop \in [Proposals -> Proposal]
  BY DEF IInv, TypeOK
<1>2. /\ prop' \in [Proposals -> Proposal] /\ RowsKept
      /\ \A x \in Proposals : /\ prop'[x].state = prop[x].state
                              /\ prop'[x].notified = prop[x].notified
  BY <1>1 DEF Overdue, Proposal, RowsKept
<1> QED BY <1>2, RowStep DEF Overdue, record

-----------------------------------------------------------------------------
(* Decisions *)

(* What becomes of the change row of a transaction that is rolled back.    *)
LEMMA RolledBack ==
  ASSUME IInv, NEW q \in Requests, RollBack(q)
  PROVE  /\ changes' \in Seq(Change) /\ DOMAIN changes' = DOMAIN changes
         /\ \A i \in DOMAIN changes :
              \/ changes'[i] = changes[i]
              \/ /\ req[q].pc = "update" /\ i = req[q].row /\ changes[i].state = "open"
                 /\ changes'[i] = [changes[i] EXCEPT !.state = "undone"]
<1>1. /\ changes \in Seq(Change) /\ DOMAIN changes = 1..Len(changes)
      /\ \A i \in DOMAIN changes : changes[i] \in Change
  BY LogTyped
<1>2. CASE req[q].pc # "update"
  BY <1>1, <1>2 DEF RollBack
<1>3. CASE req[q].pc = "update"
  <2> DEFINE k == req[q].row
             c == [changes[k] EXCEPT !.state = "undone"]
  <2>1. k \in 1..Len(changes) /\ changes[k].state = "open"
    BY <1>1, <1>3 DEF IInv, TypeOK, HoldInv
  <2>2. c \in Change
    BY <1>1, <2>1 DEF Change
  <2>3. changes' = [changes EXCEPT ![k] = c]
    BY <1>3 DEF RollBack
  <2> HIDE DEF c, k
  <2>4. /\ [changes EXCEPT ![k] = c] \in Seq(Change)
        /\ Len([changes EXCEPT ![k] = c]) = Len(changes)
        /\ \A j \in 1..Len(changes) :
             [changes EXCEPT ![k] = c][j] = IF j = k THEN c ELSE changes[j]
    BY <1>1, <2>1, <2>2, ExceptSeq
  <2>5. changes' \in Seq(Change) /\ DOMAIN changes' = DOMAIN changes
    BY <1>1, <2>3, <2>4, LenProperties
  <2>6. \A i \in DOMAIN changes : changes'[i] = IF i = k THEN c ELSE changes[i]
    BY <1>1, <2>3, <2>4
  <2> QED BY <1>3, <2>1, <2>5, <2>6 DEF c, k
<1> QED BY <1>2, <1>3

(* A request takes nothing up, or lets go of what it had.                  *)
LEMMA LetGo ==
  ASSUME IInv, NEW q \in Requests, NEW s \in RequestState, s.pc \notin {"write", "update"},
         s.pc # "idle" => s.staff # None, req' = [req EXCEPT ![q] = s], RollBack(q),
         UNCHANGED <<prop, value, version, made, active, run, mailer, mailed, again, raced, doubtful>>
  PROVE  IInv'
<1>1. /\ req' \in [Requests -> RequestState] /\ req'[q] = s
      /\ \A r \in Requests \ {q} : req'[r] = req[r]
  BY DEF IInv, TypeOK
<1>2. RowsKept
  BY DEF RowsKept
<1>3. /\ changes' \in Seq(Change) /\ DOMAIN changes' = DOMAIN changes
      /\ \A i \in DOMAIN changes :
           /\ changes'[i].prop = changes[i].prop /\ changes'[i].target = changes[i].target
           /\ changes'[i].prev = changes[i].prev /\ changes'[i].new = changes[i].new
           /\ changes'[i].was = changes[i].was /\ changes'[i].nth = changes[i].nth
           /\ changes'[i].beside = changes[i].beside
           /\ changes'[i].state = "kept" <=> changes[i].state = "kept"
           /\ changes'[i].state = "open" => changes[i].state = "open"
           /\ changes'[i] = changes[i] \/ (req[q].pc = "update" /\ i = req[q].row)
  <2>1. \A i \in DOMAIN changes : changes[i] \in Change
    BY LogTyped
  <2>2. ASSUME NEW i \in DOMAIN changes
        PROVE  /\ changes'[i].prop = changes[i].prop /\ changes'[i].target = changes[i].target
               /\ changes'[i].prev = changes[i].prev /\ changes'[i].new = changes[i].new
               /\ changes'[i].was = changes[i].was /\ changes'[i].nth = changes[i].nth
               /\ changes'[i].beside = changes[i].beside
               /\ changes'[i].state = "kept" <=> changes[i].state = "kept"
               /\ changes'[i].state = "open" => changes[i].state = "open"
               /\ changes'[i] = changes[i] \/ (req[q].pc = "update" /\ i = req[q].row)
    <3>1. CASE changes'[i] = changes[i]
      BY <3>1
    <3>2. CASE /\ req[q].pc = "update" /\ i = req[q].row /\ changes[i].state = "open"
               /\ changes'[i] = [changes[i] EXCEPT !.state = "undone"]
      BY <2>1, <3>2 DEF Change
    <3> QED BY <3>1, <3>2, RolledBack
  <2> QED BY <2>2, RolledBack
<1>4. TypeOK'
  BY <1>1, <1>2, <1>3 DEF IInv, TypeOK
<1>5. FormInv'
  BY <1>1, <1>3 DEF IInv, FormInv
<1>6. HoldInv'
  <2>1. \A p : Logged(changes', p) = Logged(changes, p)
    BY <1>3 DEF Logged
  <2>2. \A r \in Requests : req'[r].pc = "update" =>
          /\ changes'[req'[r].row].state = "open" /\ changes'[req'[r].row].prop = req'[r].prop
          /\ \A o \in Requests \ {r} : req'[o].pc = "update" => req'[o].row # req'[r].row
    BY <1>1, <1>3 DEF IInv, TypeOK, HoldInv
  <2> QED BY <1>1, <2>1, <2>2 DEF IInv, HoldInv, Holds
<1>7. MailInv'
  BY <1>2, MailFrame
<1>8. LogInv'
  <2>1. \A i, j \in DOMAIN changes' :
          changes'[j].state = "open" /\ changes'[i].target = changes'[j].target =>
            /\ changes'[i].state = "open" /\ i # j => changes'[i].beside
            /\ changes'[i].state = "kept" => changes'[i].beside \/ i < j
    BY <1>3 DEF IInv, LogInv
  <2>2. LogTellsValue'
    BY <1>3 DEF IInv, LogInv, LogTellsValue, LastOf, RowsOf
  <2>3. PreviousUnlessStale'
    BY <1>3 DEF IInv, LogInv, PreviousUnlessStale
  <2> QED BY <1>3, <2>1, <2>2, <2>3 DEF IInv, LogInv
<1> QED BY <1>4, <1>5, <1>6, <1>7, <1>8 DEF IInv

LEMMA OpenReviewInv ==
  ASSUME IInv, NEW q \in Requests, NEW p \in Proposals, OpenReview(q, p)
  PROVE  IInv'
<1> DEFINE s == [Closed EXCEPT !.pc = "open", !.staff = prop[p].reviewer]
<1>1. prop[p].reviewer \in Staff
  BY DEF OpenReview, Opens, IInv, TypeOK
<1>2. s \in RequestState /\ s.pc = "open" /\ s.staff # None
  BY <1>1, ReviewAssumption DEF RequestState, Closed
<1> HIDE DEF s
<1>3. /\ req' = [req EXCEPT ![q] = s] /\ RollBack(q)
      /\ UNCHANGED <<prop, value, version, made, active, run, mailer, mailed, again, raced, doubtful>>
  BY DEF OpenReview, s, RollBack, drive, record, mails
<1> QED BY <1>2, <1>3, LetGo

LEMMA Reopened ==
  ASSUME IInv, NEW q \in Requests, req[q].pc \in {"write", "update"}, Reopen(q)
  PROVE  \E s \in RequestState : /\ s.pc = "open" /\ s.staff # None
                                 /\ req' = [req EXCEPT ![q] = s]
<1> DEFINE s == [Closed EXCEPT !.pc = "open", !.staff = req[q].staff]
<1>1. req[q] \in RequestState /\ req[q].staff # None
  BY DEF IInv, TypeOK, FormInv
<1>2. s \in RequestState /\ s.pc = "open" /\ s.staff # None
  BY <1>1 DEF RequestState, Closed
<1> QED BY <1>2 DEF Reopen

LEMMA WriteFailsInv == ASSUME IInv, NEW q \in Requests, WriteFails(q) PROVE IInv'
<1>1. /\ req[q].pc \in {"write", "update"} /\ Reopen(q) /\ RollBack(q)
      /\ UNCHANGED <<prop, value, version, made, active, run, mailer, mailed, again, raced, doubtful>>
  BY DEF WriteFails, mails
<1> QED BY <1>1, Reopened, LetGo

LEMMA CloseReviewInv == ASSUME IInv, NEW q \in Requests, CloseReview(q) PROVE IInv'
<1>1. Closed \in RequestState /\ Closed.pc = "idle"
  BY DEF Closed, RequestState
<1> QED BY <1>1, LetGo DEF CloseReview, mails

(* The proposal was pending; whoever held it already makes it raced.       *)
LEMMA CheckInv ==
  ASSUME IInv, NEW q \in Requests, NEW p \in Proposals, Check(q, p)
  PROVE  IInv'
<1> DEFINE s == [req[q] EXCEPT !.pc = "write", !.prop = p]
<1>1. /\ req[q] \in RequestState /\ req[q].pc = "open" /\ req[q].staff # None
      /\ prop[p].state = "pending" /\ prop[p].reviewer = req[q].staff
      /\ req' = [req EXCEPT ![q] = s]
      /\ raced' = IF HeldBeside(q, p) THEN raced \union {p} ELSE raced
      /\ UNCHANGED <<prop, value, version, changes, made, active, run, mailer, mailed, again, doubtful>>
  BY DEF Check, Decidable, TakeUp, IInv, TypeOK, FormInv, drive, record, mails
<1>2. s \in RequestState /\ s.pc = "write" /\ s.prop = p /\ s.staff = req[q].staff
  BY <1>1 DEF RequestState
<1> HIDE DEF s
<1>3. /\ req' \in [Requests -> RequestState] /\ req'[q] = s
      /\ \A r \in Requests \ {q} : req'[r] = req[r]
  BY <1>1, <1>2 DEF IInv, TypeOK
<1>4. raced \subseteq raced' /\ raced' \subseteq Proposals
  BY <1>1 DEF IInv, TypeOK
<1>5. RowsKept
  BY <1>1 DEF RowsKept
<1>6. TypeOK'
  BY <1>1, <1>2, <1>3, <1>4, <1>5, QuietTypes DEF IInv, TypeOK
<1>7. FormInv'
  BY <1>1, <1>2, <1>3 DEF IInv, FormInv
<1>8. HoldInv'
  <2>1. ASSUME NEW x \in Proposals \ raced', NEW r \in Requests,
               Holds(r, x)'
        PROVE  /\ prop[x].state = "pending" /\ \A o \in Requests \ {r} : ~Holds(o, x)'
    <3>1. CASE x = p
      <4>1. \A o \in Requests \ {q} : ~Holds(o, p)
        BY <1>1, <2>1, <3>1 DEF HeldBeside
      <4> QED BY <1>1, <1>2, <1>3, <2>1, <3>1, <4>1 DEF Holds
    <3>2. CASE x # p
      BY <1>2, <1>3, <1>4, <2>1, <3>2 DEF IInv, HoldInv, Holds
    <3> QED BY <3>1, <3>2
  <2>2. \A r \in Requests : req'[r].pc = "update" => r # q /\ req'[r] = req[r]
    BY <1>2, <1>3
  <2> QED BY <1>1, <1>4, <2>1, <2>2 DEF IInv, HoldInv
<1>9. LogInv' /\ MailInv'
  BY <1>1, <1>5, LogFrame, MailFrame
<1> QED BY <1>6, <1>7, <1>8, <1>9 DEF IInv

(* A verdict a is written, and request q goes on to its next decision.     *)
Written(q, a) ==
  /\ prop' \in [Proposals -> Proposal] /\ RowsKept
  /\ \A p \in Proposals : prop'[p].state = IF p = req[q].prop THEN a ELSE prop[p].state
  /\ req' \in [Requests -> RequestState]
  /\ \A r \in Requests, p \in Proposals : Holds(r, p)' <=> r # q /\ Holds(r, p)
  /\ \A r \in Requests : req'[r].pc # "idle" => req'[r].staff # None
  /\ \A r \in Requests : req'[r].pc \in {"write", "update"} =>
       /\ req'[r].prop \in Proposals /\ prop'[req'[r].prop].state # "absent"
       /\ prop'[req'[r].prop].reviewer = req'[r].staff
  /\ \A r \in Requests : req'[r].pc = "update" => r # q /\ req'[r] = req[r]

LEMMA VerdictStep ==
  ASSUME IInv, NEW q \in Requests, req[q].pc \in {"write", "update"}, Reopen(q),
         NEW a \in {"applied", "rejected"},
         prop' = [prop EXCEPT ![req[q].prop].state = a],
         UNCHANGED <<mailer, mailed, again, doubtful>>
  PROVE  Written(q, a) /\ MailInv'
<1> DEFINE p == req[q].prop
<1>1. p \in Proposals /\ prop[p] \in Proposal /\ prop[p].state # "absent"
  BY DEF IInv, TypeOK, FormInv
<1>2. /\ prop' \in [Proposals -> Proposal] /\ RowsKept
      /\ \A x \in Proposals : /\ prop'[x].state = IF x = p THEN a ELSE prop[x].state
                              /\ prop'[x].notified = prop[x].notified
                              /\ prop'[x].reviewer = prop[x].reviewer
  BY <1>1 DEF IInv, TypeOK, Proposal, RowsKept
<1>3. PICK s \in RequestState : s.pc = "open" /\ s.staff # None /\ req' = [req EXCEPT ![q] = s]
  BY Reopened
<1>4. /\ req' \in [Requests -> RequestState] /\ req'[q] = s
      /\ \A r \in Requests \ {q} : req'[r] = req[r]
  BY <1>3 DEF IInv, TypeOK
<1>5. \A r \in Requests : req'[r].pc # "idle" => req'[r].staff # None
  BY <1>3, <1>4 DEF IInv, FormInv
<1>6. \A r \in Requests, x \in Proposals : Holds(r, x)' <=> r # q /\ Holds(r, x)
  BY <1>3, <1>4 DEF Holds
<1>7. MailInv'
  BY <1>2, MailFrame
<1>8. \A r \in Requests : req'[r].pc \in {"write", "update"} =>
              /\ req'[r].prop \in Proposals /\ prop'[req'[r].prop].state # "absent"
              /\ prop'[req'[r].prop].reviewer = req'[r].staff
  BY <1>2, <1>3, <1>4 DEF IInv, FormInv
<1>9. \A r \in Requests : req'[r].pc = "update" => r # q /\ req'[r] = req[r]
  BY <1>3, <1>4
<1> QED BY <1>2, <1>4, <1>5, <1>6, <1>7, <1>8, <1>9 DEF Written

(* A holder that is not raced is alone with a pending proposal: what it    *)
(* writes and logs is the proposal's first effect.                         *)
LEMMA HeldAlone ==
  ASSUME IInv, NEW q \in Requests, NEW a \in {"applied", "rejected"}, Written(q, a),
         req[q].pc \in {"write", "update"}, raced' = raced,
         \A r \in Requests \ {q} : req[r].pc = "update" =>
           changes'[req[r].row] = changes[req[r].row],
         \A p \in Proposals \ raced :
           made'[p] + Cardinality(Logged(changes', p))
             = made[p] + Cardinality(Logged(changes, p))
               + (IF p = req[q].prop /\ a = "applied" THEN 1 ELSE 0)
  PROVE  HoldInv'
<1>1. ASSUME NEW p \in Proposals \ raced, p = req[q].prop
      PROVE  /\ prop[p].state = "pending"
             /\ \A r \in Requests : ~Holds(r, p)'
  BY <1>1 DEF IInv, HoldInv, Holds, Written
<1>2. ASSUME NEW p \in Proposals \ raced, NEW r \in Requests, Holds(r, p)'
      PROVE  prop'[p].state = "pending" /\ \A o \in Requests \ {r} : ~Holds(o, p)'
  BY <1>1, <1>2 DEF IInv, HoldInv, Written
<1>3. ASSUME NEW p \in Proposals \ raced
      PROVE  made'[p] + Cardinality(Logged(changes', p))
               = IF prop'[p].state = "applied" THEN 1 ELSE 0
  BY <1>1 DEF IInv, HoldInv, Written
<1>4. ASSUME NEW r \in Requests, req'[r].pc = "update"
      PROVE  /\ changes'[req'[r].row].state = "open"
             /\ changes'[req'[r].row].prop = req'[r].prop
             /\ \A o \in Requests \ {r} : req'[o].pc = "update" => req'[o].row # req'[r].row
  BY <1>4 DEF IInv, HoldInv, Written
<1> QED BY <1>2, <1>3, <1>4 DEF HoldInv

LEMMA RejectInv == ASSUME IInv, NEW q \in Requests, Reject(q) PROVE IInv'
<1>1. /\ req[q].pc = "write" /\ Reopen(q)
      /\ prop' = [prop EXCEPT ![req[q].prop].state = "rejected"]
      /\ UNCHANGED <<value, version, changes, made, active, run, mailer, mailed, again, raced, doubtful>>
  BY DEF Reject, record, mails
<1>2. Written(q, "rejected") /\ MailInv'
  BY <1>1, VerdictStep
<1>3. TypeOK'
  BY <1>1, <1>2, QuietTypes DEF IInv, TypeOK, Written
<1>4. FormInv'
  BY <1>1, <1>2, LogTyped DEF IInv, FormInv, RowsKept, Written
<1>5. LogInv'
  BY <1>1, <1>2, LogFrame DEF Written
<1>6. HoldInv'
  <2>1. \A p \in Proposals : made[p] + Cardinality(Logged(changes, p)) \in Nat
    BY LoggedFinite, LogTyped DEF IInv, TypeOK
  <2> QED BY <1>1, <1>2, <2>1, HeldAlone
<1> QED BY <1>2, <1>3, <1>4, <1>5, <1>6 DEF IInv

LEMMA ApplyGroupInv == ASSUME IInv, NEW q \in Requests, ApplyGroup(q) PROVE IInv'
<1> DEFINE p == req[q].prop
<1>1. /\ req[q].pc = "write" /\ Reopen(q)
      /\ prop' = [prop EXCEPT ![p].state = "applied"]
      /\ made' = [made EXCEPT ![p] = @ + 1]
      /\ UNCHANGED <<value, version, changes, active, run, mailer, mailed, again, raced, doubtful>>
  BY DEF ApplyGroup, record, mails
<1>2. Written(q, "applied") /\ MailInv'
  BY <1>1, VerdictStep
<1>3. /\ p \in Proposals /\ made' \in [Proposals -> Nat]
      /\ \A x \in Proposals : /\ made[x] \in Nat
                              /\ made'[x] = made[x] + (IF x = p THEN 1 ELSE 0)
  BY <1>1 DEF IInv, TypeOK, FormInv
<1>4. TypeOK'
  BY <1>1, <1>2, <1>3, QuietTypes DEF IInv, TypeOK, Written
<1>5. FormInv'
  BY <1>1, <1>2, LogTyped DEF IInv, FormInv, RowsKept, Written
<1>6. LogInv'
  BY <1>1, <1>2, LogFrame DEF Written
<1>7. HoldInv'
  <2>1. \A x \in Proposals : Cardinality(Logged(changes, x)) \in Nat
    BY LoggedFinite, LogTyped
  <2>2. \A x \in Proposals : made'[x] + Cardinality(Logged(changes', x))
          = made[x] + Cardinality(Logged(changes, x)) + (IF x = p THEN 1 ELSE 0)
    BY <1>1, <1>3, <2>1
  <2> QED BY <1>1, <1>2, <2>2, HeldAlone
<1> QED BY <1>2, <1>4, <1>5, <1>6, <1>7 DEF IInv

(* The open row comes last in the log, and is beside every other open row  *)
(* of its entity.                                                          *)
LEMMA InsertChangeInv == ASSUME IInv, NEW q \in Requests, InsertChange(q) PROVE IInv'
<1> DEFINE p == req[q].prop
           e == prop[p].target
           n == Len(changes) + 1
           rivals == RowsOf(e, "open")
           C == [i \in DOMAIN changes |->
                   IF i \in rivals THEN [changes[i] EXCEPT !.beside = TRUE] ELSE changes[i]]
           Row(v) == [prop |-> p, target |-> e, prev |-> prop[p].old, new |-> v, state |-> "open",
                      was |-> None, nth |-> 0, beside |-> rivals # {}]
           s == [req[q] EXCEPT !.pc = "update", !.row = n]
<1>1. PICK v \in Values : changes' = Append(C, Row(v))
  BY DEF InsertChange
<1>2. /\ req[q].pc = "write" /\ e \notin Folders /\ req' = [req EXCEPT ![q] = s]
      /\ UNCHANGED <<prop, value, version, made, active, run, mailer, mailed, again, raced, doubtful>>
  BY DEF InsertChange, IsGroup, mails, IInv, TypeOK
<1>3. /\ p \in Proposals /\ prop[p] \in Proposal /\ prop[p].state # "absent"
      /\ e \in Entities /\ prop[p].old \in Values
  BY <1>2 DEF IInv, TypeOK, FormInv, LogInv, Targets, Proposal
<1>4. /\ changes \in Seq(Change) /\ Len(changes) \in Nat /\ DOMAIN changes = 1..Len(changes)
      /\ \A i \in DOMAIN changes : changes[i] \in Change /\ changes[i].prop \in Proposals
  BY LogTyped
<1> DEFINE c == Row(v)
           D == changes'
<1>5. /\ c \in Change /\ c.prop = p /\ c.target = e /\ c.prev = prop[p].old
      /\ c.state = "open" /\ c.beside = (rivals # {})
  BY <1>3 DEF Change
<1>6. /\ \A i \in DOMAIN changes :
           /\ C[i] \in Change /\ C[i].prop = changes[i].prop /\ C[i].target = changes[i].target
           /\ C[i].prev = changes[i].prev /\ C[i].new = changes[i].new
           /\ C[i].was = changes[i].was /\ C[i].nth = changes[i].nth
           /\ C[i].state = changes[i].state
           /\ C[i].beside = (i \in rivals \/ changes[i].beside)
      /\ DOMAIN C = 1..Len(changes)
  BY <1>4 DEF Change
<1>7. C \in [1..Len(changes) -> Change]
  BY <1>4, <1>6
<1>8. C \in Seq(Change) /\ Len(C) = Len(changes)
  BY <1>4, <1>7, SeqDef, LenProperties
<1>9. D = Append(C, c)
  BY <1>1
<1> HIDE DEF c, C, Row, D
<1>10. /\ D \in Seq(Change) /\ DOMAIN D = 1..n /\ D[n] = c
       /\ \A i \in DOMAIN changes : D[i] = C[i]
  BY <1>5, <1>8, <1>6, <1>9, LogGrows
<1>11. /\ n \in DOMAIN D /\ n \notin DOMAIN changes
       /\ \A i \in DOMAIN D : i # n => i \in DOMAIN changes /\ i < n
       /\ DOMAIN changes \subseteq DOMAIN D
  BY <1>4, <1>10
<1>12. /\ s \in RequestState /\ s.pc = "update" /\ s.row = n /\ s.prop = p
       /\ s.staff = req[q].staff
  <2>1. req[q] \in RequestState /\ n \in Nat
    BY <1>4 DEF IInv, TypeOK
  <2> HIDE DEF n
  <2> QED BY <2>1 DEF RequestState
<1> HIDE DEF s
<1>13. /\ req' \in [Requests -> RequestState] /\ req'[q] = s
       /\ \A r \in Requests \ {q} : req'[r] = req[r]
  BY <1>2, <1>12 DEF IInv, TypeOK
<1>14. RowsKept
  BY <1>2 DEF RowsKept
<1>15. \A i \in DOMAIN D : /\ D[i].target = prop[D[i].prop].target
                            /\ D[i].prev = prop[D[i].prop].old
                            /\ prop[D[i].prop].state # "absent"
  <2>1. \A i \in DOMAIN changes : /\ changes[i].target = prop[changes[i].prop].target
                                  /\ changes[i].prev = prop[changes[i].prop].old
                                  /\ prop[changes[i].prop].state # "absent"
    BY DEF IInv, TypeOK, FormInv, LogInv
  <2>2. \A i \in DOMAIN changes : /\ D[i].target = changes[i].target
                                  /\ D[i].prev = changes[i].prev
                                  /\ D[i].prop = changes[i].prop
    BY <1>6, <1>10
  <2> QED BY <1>3, <1>5, <1>10, <1>11, <2>1, <2>2
<1>16. TypeOK'
  <2>1. \A r \in Requests : req'[r].pc = "update" => req'[r].row \in DOMAIN D
    BY <1>11, <1>12, <1>13 DEF IInv, TypeOK
  <2> QED BY <1>2, <1>10, <1>13, <1>15, <2>1 DEF IInv, TypeOK, D
<1>17. FormInv'
  BY <1>2, <1>12, <1>13, <1>15 DEF IInv, FormInv, D
<1>18. HoldInv'
  <2>1. \A x : Logged(D, x) = Logged(changes, x)
    BY <1>5, <1>6, <1>10, <1>11 DEF Logged
  <2>2. \A r \in Requests, x \in Proposals : Holds(r, x)' <=> Holds(r, x)
    BY <1>2, <1>12, <1>13 DEF Holds
  <2>3. \A r \in Requests : req'[r].pc = "update" =>
          /\ D[req'[r].row].state = "open" /\ D[req'[r].row].prop = req'[r].prop
          /\ \A o \in Requests \ {r} : req'[o].pc = "update" => req'[o].row # req'[r].row
    <3>1. ASSUME NEW r \in Requests \ {q}, req'[r].pc = "update"
          PROVE  /\ req'[r].row \in DOMAIN changes /\ req'[r].row # n
                 /\ D[req'[r].row].state = "open" /\ D[req'[r].row].prop = req'[r].prop
      <4>1. /\ req'[r] = req[r] /\ req[r].row \in DOMAIN changes
            /\ changes[req[r].row].state = "open" /\ changes[req[r].row].prop = req[r].prop
        BY <1>13, <3>1 DEF IInv, TypeOK, HoldInv
      <4> QED BY <1>6, <1>10, <1>11, <4>1
    <3>2. D[req'[q].row].state = "open" /\ D[req'[q].row].prop = req'[q].prop
      BY <1>5, <1>10, <1>12, <1>13
    <3>3. \A r, o \in Requests \ {q} :
            r # o /\ req'[r].pc = "update" /\ req'[o].pc = "update" => req'[o].row # req'[r].row
      BY <1>13 DEF IInv, HoldInv
    <3> QED BY <1>12, <1>13, <3>1, <3>2, <3>3
  <2> QED BY <1>2, <2>1, <2>2, <2>3 DEF IInv, HoldInv, D
<1>19. LogInv'
  <2>1. ASSUME NEW i \in DOMAIN D, NEW j \in DOMAIN D,
               D[j].state = "open", D[i].target = D[j].target
        PROVE  /\ D[i].state = "open" /\ i # j => D[i].beside
               /\ D[i].state = "kept" => D[i].beside \/ i < j
    <3>1. CASE i = n
      <4>1. ASSUME j # n PROVE j \in rivals
        BY <1>4, <1>5, <1>6, <1>10, <1>11, <2>1, <3>1, <4>1 DEF RowsOf
      <4> QED BY <1>5, <1>10, <3>1, <4>1
    <3>2. CASE i # n /\ j = n
      <4>1. D[i].state = "open" => i \in rivals
        BY <1>5, <1>6, <1>10, <1>11, <2>1, <3>2 DEF RowsOf
      <4> QED BY <1>6, <1>10, <1>11, <3>2, <4>1
    <3>3. CASE i # n /\ j # n
      <4>1. /\ i \in DOMAIN changes /\ j \in DOMAIN changes
            /\ D[i].state = changes[i].state /\ D[j].state = changes[j].state
            /\ D[i].target = changes[i].target /\ D[j].target = changes[j].target
            /\ changes[i].beside => D[i].beside
        BY <1>6, <1>10, <1>11, <3>3
      <4> QED BY <2>1, <4>1 DEF IInv, LogInv
    <3> QED BY <3>1, <3>2, <3>3
  <2>2. LogTellsValue'
    <3>1. ASSUME NEW i \in DOMAIN D, D[i].state = "kept", ~D[i].beside,
                 \A j \in DOMAIN D : D[j].target = D[i].target /\ D[j].state = "kept" => j <= i
          PROVE  value[D[i].target] = D[i].new
      <4>1. i \in DOMAIN changes
        BY <1>5, <1>10, <1>11, <3>1
      <4>2. LastOf(i) /\ ~changes[i].beside
        BY <1>6, <1>10, <1>11, <3>1, <4>1 DEF LastOf, RowsOf
      <4> QED BY <1>6, <1>10, <4>1, <4>2 DEF IInv, LogInv, LogTellsValue
    <3> QED BY <1>2, <3>1 DEF LogTellsValue, LastOf, RowsOf, D
  <2>3. PreviousUnlessStale'
    <3>1. \A i \in DOMAIN D : D[i].state = "kept" /\ D[i].nth = prop[D[i].prop].at
                                 => D[i].prev = D[i].was
      BY <1>5, <1>6, <1>10, <1>11 DEF IInv, LogInv, PreviousUnlessStale
    <3> QED BY <1>2, <3>1 DEF PreviousUnlessStale, D
  <2>4. \A i \in DOMAIN changes' : changes'[i].prev = prop'[changes'[i].prop].old
    BY <1>2, <1>15 DEF D
  <2> QED BY <1>2, <2>1, <2>2, <2>3, <2>4 DEF IInv, LogInv, D
<1>20. MailInv'
  BY <1>2, <1>14, MailFrame
<1> QED BY <1>16, <1>17, <1>18, <1>19, <1>20 DEF IInv

(* The row that is committed names the proposal, the entity, the value     *)
(* that is written, and, if nothing was applied since the scan, the value  *)
(* that is overwritten.  A kept row that comes after it is beside.         *)
LEMMA ApplyChangeInv == ASSUME IInv, NEW q \in Requests, ApplyChange(q) PROVE IInv'
<1> DEFINE p == req[q].prop
           e == prop[p].target
           k == req[q].row
           v == changes[k].new
           c == [changes[k] EXCEPT !.state = "kept", !.was = value[e], !.nth = version[e]]
           D == changes'
<1>1. /\ req[q].pc = "update" /\ Reopen(q)
      /\ changes' = [changes EXCEPT ![k].state = "kept", ![k].was = value[e],
                                    ![k].nth = version[e]]
      /\ value' = [value EXCEPT ![e] = v] /\ version' = [version EXCEPT ![e] = @ + 1]
      /\ prop' = [prop EXCEPT ![p].state = "applied"]
      /\ UNCHANGED <<made, active, run, mailer, mailed, again, raced, doubtful>>
  BY DEF ApplyChange, Applied, mails
<1>2. /\ changes \in Seq(Change) /\ Len(changes) \in Nat /\ DOMAIN changes = 1..Len(changes)
      /\ \A i \in DOMAIN changes : changes[i] \in Change /\ changes[i].prop \in Proposals
  BY LogTyped
<1>3. /\ k \in DOMAIN changes /\ changes[k].state = "open" /\ changes[k].prop = p
      /\ changes[k].target = e /\ changes[k].prev = prop[p].old
  BY <1>1 DEF IInv, TypeOK, HoldInv, LogInv
<1>4. /\ p \in Proposals /\ prop[p] \in Proposal /\ prop[p].state # "absent"
      /\ e \in Entities /\ prop[p].at \in Nat /\ v \in Values
      /\ value[e] \in Values /\ version[e] \in Nat
  BY <1>1, <1>2, <1>3 DEF IInv, TypeOK, FormInv, Proposal, Change
<1>5. /\ c \in Change /\ c.prop = p /\ c.target = e /\ c.prev = prop[p].old /\ c.new = v
      /\ c.state = "kept" /\ c.was = value[e] /\ c.nth = version[e]
      /\ c.beside = changes[k].beside
  BY <1>2, <1>3, <1>4 DEF Change
<1>6. changes' = [changes EXCEPT ![k] = c]
  BY <1>1, <1>2, <1>3
<1> HIDE DEF c
<1>7. /\ D \in Seq(Change) /\ DOMAIN D = DOMAIN changes /\ D[k] = c
      /\ \A i \in DOMAIN changes : i # k => D[i] = changes[i]
  <2>1. k \in 1..Len(changes)
    BY <1>2, <1>3
  <2> HIDE DEF k
  <2>2. /\ [changes EXCEPT ![k] = c] \in Seq(Change)
        /\ Len([changes EXCEPT ![k] = c]) = Len(changes)
        /\ \A j \in 1..Len(changes) :
             [changes EXCEPT ![k] = c][j] = IF j = k THEN c ELSE changes[j]
    BY <1>2, <1>5, <2>1, ExceptSeq
  <2> QED BY <1>2, <1>6, <2>1, <2>2, LenProperties
<1> HIDE DEF D, k, v
<1>8. /\ value' \in [Entities -> Values] /\ value'[e] = v
      /\ \A x \in Entities \ {e} : value'[x] = value[x]
  BY <1>1, <1>4 DEF IInv, TypeOK
<1>9. /\ version' \in [Entities -> Nat] /\ version'[e] = version[e] + 1
      /\ \A x \in Entities \ {e} : version'[x] = version[x]
  BY <1>1, <1>4 DEF IInv, TypeOK
<1>10. Written(q, "applied") /\ MailInv' /\ RowsKept
  BY <1>1, VerdictStep DEF Written
<1>11. \A i \in DOMAIN D :
         /\ D[i].prop = changes[i].prop /\ D[i].target = changes[i].target
         /\ D[i].prev = changes[i].prev /\ D[i].new = changes[i].new
         /\ D[i].beside = changes[i].beside
         /\ i # k => D[i].state = changes[i].state
  BY <1>3, <1>5, <1>7 DEF v
<1>12. \A i \in DOMAIN D : /\ D[i].prop \in Proposals
                            /\ D[i].target = prop'[D[i].prop].target
                            /\ D[i].prev = prop'[D[i].prop].old
                            /\ prop'[D[i].prop].state # "absent"
                            /\ prop'[D[i].prop].at = prop[D[i].prop].at
  <2>1. \A i \in DOMAIN changes : /\ changes[i].target = prop[changes[i].prop].target
                                  /\ changes[i].prev = prop[changes[i].prop].old
                                  /\ prop[changes[i].prop].state # "absent"
    BY DEF IInv, TypeOK, FormInv, LogInv
  <2> QED BY <1>2, <1>7, <1>10, <1>11, <2>1 DEF RowsKept
<1>13. TypeOK'
  <2>1. \A m \in Mailers, x \in Proposals :
          x \in mailer[m].rows => prop'[x].reviewer # None
    BY <1>10 DEF IInv, TypeOK, RowsKept
  <2>2. \A r \in Requests : req'[r].pc = "update" => req'[r].row \in DOMAIN D
    BY <1>7, <1>10 DEF IInv, TypeOK, Written
  <2> QED BY <1>1, <1>7, <1>8, <1>9, <1>10, <1>12, <2>1, <2>2 DEF IInv, TypeOK, Written, D
<1>14. FormInv'
  BY <1>10, <1>12 DEF IInv, FormInv, RowsKept, Written, D
<1>15. HoldInv'
  <2>1. \A x \in Proposals : Cardinality(Logged(changes, x)) \in Nat /\ made[x] \in Nat
    BY <1>2, LoggedFinite DEF IInv, TypeOK
  <2>2. \A x \in Proposals : Cardinality(Logged(D, x))
          = Cardinality(Logged(changes, x)) + (IF x = p THEN 1 ELSE 0)
    BY <1>2, <1>3, <1>5, <1>7, LoggedKeep
  <2>3. \A x \in Proposals : made'[x] + Cardinality(Logged(changes', x))
          = made[x] + Cardinality(Logged(changes, x)) + (IF x = p THEN 1 ELSE 0)
    <3>1. made' = made
      BY <1>1
    <3> QED BY <2>1, <2>2, <3>1 DEF D
  <2>4. \A r \in Requests \ {q} : req[r].pc = "update" =>
          changes'[req[r].row] = changes[req[r].row]
    BY <1>1, <1>7 DEF IInv, TypeOK, HoldInv, k, D
  <2> QED BY <1>1, <1>10, <2>3, <2>4, HeldAlone
<1>16. LogInv'
  <2>1. ASSUME NEW o \in Proposals, prop'[o].state # "absent", prop'[o].target \in Entities
        PROVE  /\ prop'[o].old # None /\ prop'[o].at <= version'[prop'[o].target]
               /\ prop'[o].at = version'[prop'[o].target]
                    => value'[prop'[o].target] = prop'[o].old
    <3>1. /\ prop[o].at \in Nat /\ prop[o].state # "absent" /\ prop[o].target \in Entities
          /\ prop'[o].target = prop[o].target /\ prop'[o].old = prop[o].old
          /\ prop'[o].at = prop[o].at
      BY <1>10, <2>1 DEF IInv, TypeOK, Proposal, RowsKept
    <3> QED BY <1>4, <1>8, <1>9, <3>1 DEF IInv, LogInv
  <2>2. ASSUME NEW r \in Runs, run[r].entity # None
        PROVE  /\ run[r].old # None /\ run[r].at <= version'[run[r].entity]
               /\ run[r].at = version'[run[r].entity] => value'[run[r].entity] = run[r].old
    <3>1. run[r].at \in Nat /\ run[r].entity \in Entities
      BY <2>2 DEF IInv, TypeOK, RunState
    <3> QED BY <1>4, <1>8, <1>9, <2>2, <3>1 DEF IInv, LogInv
  <2>3. ASSUME NEW i \in DOMAIN D, NEW j \in DOMAIN D,
               D[j].state = "open", D[i].target = D[j].target
        PROVE  /\ D[i].state = "open" /\ i # j => D[i].beside
               /\ D[i].state = "kept" => D[i].beside \/ i < j
    <3>1. j # k /\ j \in DOMAIN changes /\ i \in DOMAIN changes
      BY <1>5, <1>7, <2>3
    <3>2. changes[j].state = "open" /\ changes[i].target = changes[j].target
      BY <1>7, <1>11, <2>3, <3>1
    <3>3. CASE i = k
      BY <1>3, <1>5, <1>7, <3>1, <3>2, <3>3 DEF IInv, LogInv
    <3>4. CASE i # k
      BY <1>7, <3>1, <3>2, <3>4 DEF IInv, LogInv
    <3> QED BY <3>3, <3>4
  <2>4. LogTellsValue'
    <3>1. ASSUME NEW i \in DOMAIN D, D[i].state = "kept", ~D[i].beside,
                 \A j \in DOMAIN D : D[j].target = D[i].target /\ D[j].state = "kept" => j <= i
          PROVE  value'[D[i].target] = D[i].new
      <4>1. CASE i = k
        BY <1>5, <1>7, <1>8, <4>1
      <4>2. CASE i # k
        <5>1. /\ i \in DOMAIN changes /\ D[i] = changes[i] /\ D[i].target \in Entities
              /\ i \in Nat /\ k \in Nat
          BY <1>2, <1>3, <1>7, <3>1, <4>2 DEF Change
        <5>2. D[i].target # e
          <6>1. SUFFICES ASSUME D[i].target = e PROVE FALSE
            OBVIOUS
          <6>2. k <= i
            BY <1>3, <1>5, <1>7, <3>1, <6>1
          <6>3. i < k
            BY <1>3, <3>1, <5>1, <6>1 DEF IInv, LogInv
          <6> QED BY <5>1, <6>2, <6>3
        <5>3. LastOf(i)
          <6>1. \A j \in DOMAIN changes :
                  changes[j].target = changes[i].target /\ changes[j].state = "kept" => j <= i
            BY <1>3, <1>7, <3>1, <5>1
          <6> QED BY <3>1, <5>1, <6>1 DEF LastOf, RowsOf
        <5> QED BY <1>8, <3>1, <5>1, <5>2, <5>3 DEF IInv, LogInv, LogTellsValue
      <4> QED BY <4>1, <4>2
    <3> QED BY <3>1 DEF LogTellsValue, LastOf, RowsOf, D
  <2>5. PreviousUnlessStale'
    <3>1. ASSUME NEW i \in DOMAIN D, D[i].state = "kept", D[i].nth = prop[D[i].prop].at
          PROVE  D[i].prev = D[i].was
      <4>1. CASE i = k
        BY <1>4, <1>5, <1>7, <3>1, <4>1 DEF IInv, LogInv
      <4>2. CASE i # k
        BY <1>7, <3>1, <4>2 DEF IInv, LogInv, PreviousUnlessStale
      <4> QED BY <4>1, <4>2
    <3> QED BY <1>12, <3>1 DEF PreviousUnlessStale, D
  <2>6. \A i \in DOMAIN changes' : changes'[i].prev = prop'[changes'[i].prop].old
    BY <1>12 DEF D
  <2>7. \A i, j \in DOMAIN changes' :
          changes'[j].state = "open" /\ changes'[i].target = changes'[j].target =>
            /\ changes'[i].state = "open" /\ i # j => changes'[i].beside
            /\ changes'[i].state = "kept" => changes'[i].beside \/ i < j
    BY <2>3 DEF D
  <2> QED BY <1>1, <2>1, <2>2, <2>4, <2>5, <2>6, <2>7 DEF LogInv
<1> QED BY <1>10, <1>13, <1>14, <1>15, <1>16 DEF IInv

-----------------------------------------------------------------------------
(* Expiry and staff *)

LEMMA SweepExpiredInv == ASSUME IInv, SweepExpired PROVE IInv'
<1>1. /\ prop' = [p \in Proposals |->
                    IF p \in Lapsed THEN [prop[p] EXCEPT !.state = "expired"] ELSE prop[p]]
      /\ raced' = raced \union {p \in Lapsed : \E q \in Requests : Holds(q, p)}
      /\ UNCHANGED <<value, version, changes, made, active, run, req, mailer, mailed, again, doubtful>>
  BY DEF SweepExpired, record, mails
<1>2. \A p \in Proposals : prop[p] \in Proposal
  BY DEF IInv, TypeOK
<1>3. /\ prop' \in [Proposals -> Proposal] /\ RowsKept
      /\ \A p \in Proposals :
           /\ prop'[p].notified = prop[p].notified /\ prop'[p].reviewer = prop[p].reviewer
           /\ p \notin Lapsed => prop'[p].state = prop[p].state
           /\ p \in Lapsed => prop'[p].state = "expired" /\ prop[p].state = "pending"
  BY <1>1, <1>2 DEF Lapsed, Proposal, RowsKept
<1>4. raced \subseteq raced' /\ raced' \subseteq Proposals
  BY <1>1 DEF IInv, TypeOK, Lapsed
<1>5. TypeOK'
  BY <1>1, <1>3, <1>4, QuietTypes DEF IInv, TypeOK
<1>6. FormInv' /\ LogInv' /\ MailInv'
  BY <1>1, <1>3, FormFrame, LogFrame, MailFrame
<1>7. HoldInv'
  <2>1. ASSUME NEW p \in Proposals \ raced', NEW q \in Requests, Holds(q, p)
        PROVE  prop'[p].state = "pending" /\ \A r \in Requests \ {q} : ~Holds(r, p)
    BY <1>1, <1>3, <1>4, <2>1 DEF IInv, HoldInv
  <2>2. ASSUME NEW p \in Proposals \ raced'
        PROVE  made[p] + Cardinality(Logged(changes, p))
                 = IF prop'[p].state = "applied" THEN 1 ELSE 0
    <3>1. made[p] + Cardinality(Logged(changes, p)) = IF prop[p].state = "applied" THEN 1 ELSE 0
      BY <1>4 DEF IInv, HoldInv
    <3> QED BY <1>3, <3>1
  <2>3. \A q \in Requests : req[q].pc = "update" =>
          /\ changes[req[q].row].state = "open" /\ changes[req[q].row].prop = req[q].prop
          /\ \A r \in Requests \ {q} : req[r].pc = "update" => req[r].row # req[q].row
    BY DEF IInv, HoldInv
  <2> QED BY <1>1, <2>1, <2>2, <2>3 DEF HoldInv, Holds
<1> QED BY <1>5, <1>6, <1>7 DEF IInv

LEMMA SetStatusInv == ASSUME IInv, NEW s \in Staff, SetStatus(s) PROVE IInv'
<1>1. /\ UNCHANGED <<prop, value, version, changes, made, run, req, mailer, mailed, again, raced, doubtful>>
      /\ active' \subseteq Staff
  BY DEF SetStatus, drive, record, mails, IInv, TypeOK
<1>2. RowsKept
  BY <1>1 DEF RowsKept
<1>3. TypeOK'
  BY <1>1, <1>2, QuietTypes DEF IInv, TypeOK
<1> QED BY <1>1, <1>2, <1>3, FormFrame, LogFrame, HoldFrame, MailFrame DEF IInv

-----------------------------------------------------------------------------
(* Notification *)

LEMMA PassStep ==
  ASSUME IInv, NEW m \in Mailers, NEW s \in MailerState, mailer' = [mailer EXCEPT ![m] = s],
         prop' \in [Proposals -> Proposal], RowsKept,
         \A p \in Proposals : prop'[p].state = prop[p].state,
         \A p \in s.rows : prop[p].reviewer # None,
         UNCHANGED <<value, version, changes, made, active, run, req, raced>>,
         again' \subseteq mailed', mailed' \subseteq Proposals, doubtful' \subseteq Proposals,
         MailInv'
  PROVE  IInv'
<1>1. /\ mailer' \in [Mailers -> MailerState] /\ mailer'[m] = s
      /\ \A n \in Mailers \ {m} : mailer'[n] = mailer[n]
  BY DEF IInv, TypeOK
<1>2. \A n \in Mailers, p \in Proposals : p \in mailer'[n].rows => prop'[p].reviewer # None
  <2> SUFFICES ASSUME NEW n \in Mailers, NEW p \in Proposals, p \in mailer'[n].rows
               PROVE  prop[p].reviewer # None
    BY DEF RowsKept
  <2> QED BY <1>1 DEF IInv, TypeOK
<1>3. \A i \in DOMAIN changes : changes[i].target = prop'[changes[i].prop].target
  BY LogTyped DEF IInv, TypeOK, RowsKept
<1>4. TypeOK'
  BY <1>1, <1>2, <1>3 DEF IInv, TypeOK
<1>5. FormInv' /\ LogInv' /\ HoldInv'
  BY FormFrame, LogFrame, HoldFrame
<1> QED BY <1>4, <1>5 DEF IInv

(* A pass whose rows another has in hand, or has mailed and not stamped,   *)
(* makes them doubtful.                                                    *)
LEMMA CollectRowsInv == ASSUME IInv, NEW m \in Mailers, CollectRows(m) PROVE IInv'
<1>1. PICK S \in {Runs} \union {{r} : r \in Runs} :
       /\ mailer' = [mailer EXCEPT ![m] = [Quiet EXCEPT !.pc = "send", !.rows = Unannounced(S)]]
       /\ doubtful' = doubtful \union
            {p \in Unannounced(S) :
               \E n \in Mailers \ {m} : p \in mailer[n].rows \union mailer[n].bucket}
  BY DEF CollectRows
<1> DEFINE U == Unannounced(S)
           s == [Quiet EXCEPT !.pc = "send", !.rows = U]
<1>2. /\ mailer[m].pc = "idle"
      /\ UNCHANGED <<prop, value, version, changes, made, active, run, req, mailed, again, raced>>
  BY DEF CollectRows, drive, record, mails
<1>3. /\ U \subseteq Proposals
      /\ \A p \in U : /\ prop[p].state = "pending" /\ ~prop[p].notified
                      /\ prop[p].reviewer # None
  BY DEF Unannounced
<1> HIDE DEF U
<1>4. s \in MailerState /\ s.pc = "send" /\ s.rows = U /\ s.bucket = {}
  BY <1>3 DEF MailerState, Quiet
<1>5. mailer' = [mailer EXCEPT ![m] = s]
  BY <1>1 DEF U
<1> HIDE DEF s
<1>6. /\ mailer'[m] = s
      /\ \A n \in Mailers \ {m} : mailer'[n] = mailer[n]
  BY <1>5 DEF IInv, TypeOK
<1>7. mailer[m].rows = {} /\ mailer[m].bucket = {}
  BY <1>2 DEF IInv, MailInv
<1>8. /\ doubtful' = doubtful \union {p \in U : \E n \in Mailers \ {m} : p \in InHand(n)}
      /\ doubtful \subseteq doubtful' /\ doubtful' \subseteq Proposals
  BY <1>1, <1>3 DEF InHand, U, IInv, TypeOK
<1>9. MailInv'
  <2>1. U \intersect mailed \subseteq doubtful'
    BY <1>3, <1>7, <1>8 DEF IInv, MailInv, InHand
  <2>2. \A n \in Mailers : /\ mailer'[n].pc # "stamp" => mailer'[n].bucket = {}
                           /\ mailer'[n].pc = "idle" => mailer'[n].rows = {}
                           /\ mailer'[n].bucket \subseteq mailed
                           /\ mailer'[n].rows \intersect mailed \subseteq doubtful'
    BY <1>4, <1>6, <1>8, <2>1 DEF IInv, MailInv
  <2>3. \A n \in Mailers \ {m} : U \intersect InHand(n) \subseteq doubtful'
    BY <1>8
  <2>4. \A n \in Mailers : InHand(n)' = IF n = m THEN U ELSE InHand(n)
    BY <1>4, <1>6 DEF InHand
  <2>5. \A n, o \in Mailers : n # o => InHand(n)' \intersect InHand(o)' \subseteq doubtful'
    BY <1>8, <2>3, <2>4 DEF IInv, MailInv
  <2>6. \A n \in Mailers : \A p \in InHand(n)' : prop[p].state # "absent"
    BY <1>3, <2>4 DEF IInv, MailInv
  <2>7. \A p \in mailed : \/ prop[p].notified \/ p \in doubtful'
                          \/ \E n \in Mailers : p \in mailer'[n].bucket
    BY <1>6, <1>7, <1>8 DEF IInv, MailInv
  <2>8. AnnouncedWasMailed' /\ AnnouncedOnce'
    BY <1>2, <1>8 DEF IInv, MailInv, AnnouncedWasMailed, AnnouncedOnce
  <2> QED BY <1>2, <2>2, <2>5, <2>6, <2>7, <2>8 DEF IInv, MailInv
<1> QED BY <1>2, <1>3, <1>4, <1>5, <1>8, <1>9, PassStep DEF IInv, TypeOK, RowsKept

(* A pass that has mailed its rows is the only one that holds them, but    *)
(* for the doubtful ones.                                                  *)
LEMMA SendMailInv ==
  ASSUME IInv, NEW m \in Mailers, NEW x \in Staff, SendMail(m, x)
  PROVE  IInv'
<1> DEFINE B == Bucket(m, x)
           s == [pc |-> "stamp", rows |-> mailer[m].rows \ B, bucket |-> B]
<1>1. /\ mailer[m].pc = "send" /\ mailed' = mailed \union B
      /\ again' = again \union (mailed \cap B) /\ mailer' = [mailer EXCEPT ![m] = s]
      /\ UNCHANGED <<prop, value, version, changes, made, active, run, req, raced, doubtful>>
  BY DEF SendMail, drive, record
<1>2. mailer[m] \in MailerState /\ B \subseteq mailer[m].rows /\ B \subseteq Proposals
  BY DEF IInv, TypeOK, MailerState, Bucket
<1> HIDE DEF B
<1>3. s \in MailerState /\ s.pc = "stamp" /\ s.rows = mailer[m].rows \ B /\ s.bucket = B
  BY <1>2 DEF MailerState
<1> HIDE DEF s
<1>4. /\ mailer'[m] = s
      /\ \A n \in Mailers \ {m} : mailer'[n] = mailer[n]
  BY <1>1 DEF IInv, TypeOK
<1>5. mailer[m].bucket = {} /\ B \subseteq InHand(m)
  BY <1>1, <1>2 DEF IInv, MailInv, InHand
<1>6. MailInv'
  <2>1. \A n \in Mailers : InHand(n)' = InHand(n)
    BY <1>2, <1>3, <1>4, <1>5 DEF InHand
  <2>2. \A n \in Mailers \ {m} : mailer[n].rows \intersect B \subseteq doubtful
    BY <1>5 DEF IInv, MailInv, InHand
  <2>3. \A n \in Mailers : /\ mailer'[n].pc # "stamp" => mailer'[n].bucket = {}
                           /\ mailer'[n].pc = "idle" => mailer'[n].rows = {}
                           /\ mailer'[n].bucket \subseteq mailed'
                           /\ mailer'[n].rows \intersect mailed' \subseteq doubtful
    BY <1>1, <1>3, <1>4, <2>2 DEF IInv, MailInv
  <2>4. \A p \in mailed' : /\ prop[p].state # "absent"
                           /\ \/ prop[p].notified \/ p \in doubtful
                              \/ \E n \in Mailers : p \in mailer'[n].bucket
    BY <1>1, <1>3, <1>4, <1>5 DEF IInv, MailInv
  <2>5. AnnouncedWasMailed'
    BY <1>1 DEF IInv, MailInv, AnnouncedWasMailed
  <2>6. AnnouncedOnce'
    BY <1>1, <1>2 DEF IInv, MailInv, AnnouncedOnce
  <2> QED BY <1>1, <2>1, <2>3, <2>4, <2>5, <2>6 DEF IInv, MailInv
<1>7. /\ again' \subseteq mailed' /\ mailed' \subseteq Proposals /\ doubtful' \subseteq Proposals
      /\ RowsKept /\ prop' \in [Proposals -> Proposal]
      /\ \A p \in s.rows : prop[p].reviewer # None
  BY <1>1, <1>2, <1>3 DEF IInv, TypeOK, RowsKept, MailerState
<1> QED BY <1>1, <1>3, <1>6, <1>7, PassStep

(* A mail whose answer is lost makes the rows that stay unstamped doubtful. *)
LEMMA LoseAnswerInv ==
  ASSUME IInv, NEW m \in Mailers, NEW x \in Staff, LoseAnswer(m, x)
  PROVE  IInv'
<1> DEFINE B == Bucket(m, x)
           s == [mailer[m] EXCEPT !.rows = mailer[m].rows \ B]
<1>1. /\ mailer[m].pc = "send" /\ mailed' = mailed \union B
      /\ again' = again \union (mailed \cap B) /\ mailer' = [mailer EXCEPT ![m] = s]
      /\ doubtful' = doubtful \union B
      /\ UNCHANGED <<prop, value, version, changes, made, active, run, req, raced>>
  BY DEF LoseAnswer, drive, record, IInv, TypeOK
<1>2. mailer[m] \in MailerState /\ B \subseteq mailer[m].rows /\ B \subseteq Proposals
  BY DEF IInv, TypeOK, MailerState, Bucket
<1> HIDE DEF B
<1>3. /\ s \in MailerState /\ s.pc = "send" /\ s.rows = mailer[m].rows \ B
      /\ s.bucket = mailer[m].bucket
  BY <1>1, <1>2 DEF MailerState
<1> HIDE DEF s
<1>4. /\ mailer'[m] = s
      /\ \A n \in Mailers \ {m} : mailer'[n] = mailer[n]
  BY <1>1 DEF IInv, TypeOK
<1>5. B \subseteq InHand(m)
  BY <1>2 DEF InHand
<1>6. MailInv'
  <2>1. \A n \in Mailers : InHand(n)' \subseteq InHand(n)
    BY <1>3, <1>4 DEF InHand
  <2>2. \A n \in Mailers : /\ mailer'[n].pc # "stamp" => mailer'[n].bucket = {}
                           /\ mailer'[n].pc = "idle" => mailer'[n].rows = {}
                           /\ mailer'[n].bucket = mailer[n].bucket
                           /\ mailer'[n].rows \subseteq mailer[n].rows
    BY <1>1, <1>3, <1>4 DEF IInv, MailInv
  <2>3. \A n \in Mailers : /\ mailer'[n].bucket \subseteq mailed'
                           /\ mailer'[n].rows \intersect mailed' \subseteq doubtful'
    BY <1>1, <2>2 DEF IInv, MailInv
  <2>4. \A n, o \in Mailers : n # o => InHand(n)' \intersect InHand(o)' \subseteq doubtful'
    BY <1>1, <2>1 DEF IInv, MailInv
  <2>5. \A p \in mailed' : /\ prop[p].state # "absent"
                           /\ \/ prop[p].notified \/ p \in doubtful'
                              \/ \E n \in Mailers : p \in mailer'[n].bucket
    BY <1>1, <1>5, <2>2 DEF IInv, MailInv
  <2>6. AnnouncedWasMailed'
    BY <1>1 DEF IInv, MailInv, AnnouncedWasMailed
  <2>7. AnnouncedOnce'
    BY <1>1 DEF IInv, MailInv, AnnouncedOnce
  <2> QED BY <1>1, <2>1, <2>2, <2>3, <2>4, <2>5, <2>6, <2>7 DEF IInv, MailInv
<1>7. /\ again' \subseteq mailed' /\ mailed' \subseteq Proposals /\ doubtful' \subseteq Proposals
      /\ RowsKept /\ prop' \in [Proposals -> Proposal]
      /\ \A p \in s.rows : prop[p].reviewer # None
  BY <1>1, <1>2, <1>3 DEF IInv, TypeOK, RowsKept, MailerState
<1> QED BY <1>1, <1>3, <1>6, <1>7, PassStep

LEMMA SkipBatchInv ==
  ASSUME IInv, NEW m \in Mailers, NEW x \in Staff, SkipBatch(m, x)
  PROVE  IInv'
<1> DEFINE s == [mailer[m] EXCEPT !.rows = mailer[m].rows \ Bucket(m, x)]
<1>1. /\ mailer[m].pc = "send" /\ mailer' = [mailer EXCEPT ![m] = s]
      /\ UNCHANGED <<prop, value, version, changes, made, active, run, req, mailed, again, raced, doubtful>>
  BY DEF SkipBatch, drive, record, mails, IInv, TypeOK
<1>2. /\ s \in MailerState /\ s.pc = "send" /\ s.rows \subseteq mailer[m].rows
      /\ s.bucket = mailer[m].bucket /\ mailer[m] \in MailerState
  BY <1>1 DEF IInv, TypeOK, MailerState
<1> HIDE DEF s
<1>3. /\ mailer'[m] = s
      /\ \A n \in Mailers \ {m} : mailer'[n] = mailer[n]
  BY <1>1 DEF IInv, TypeOK
<1>4. MailInv'
  <2>1. \A n \in Mailers : InHand(n)' \subseteq InHand(n)
    BY <1>2, <1>3 DEF InHand
  <2>2. \A n \in Mailers : /\ mailer'[n].pc # "stamp" => mailer'[n].bucket = {}
                           /\ mailer'[n].pc = "idle" => mailer'[n].rows = {}
                           /\ mailer'[n].bucket = mailer[n].bucket
                           /\ mailer'[n].rows \subseteq mailer[n].rows
    BY <1>1, <1>2, <1>3 DEF IInv, MailInv
  <2> QED BY <1>1, <2>1, <2>2 DEF IInv, MailInv, AnnouncedWasMailed, AnnouncedOnce
<1>5. /\ RowsKept /\ prop' \in [Proposals -> Proposal]
      /\ \A p \in s.rows : prop[p].reviewer # None
  BY <1>1, <1>2 DEF IInv, TypeOK, RowsKept, MailerState
<1> QED BY <1>1, <1>2, <1>4, <1>5, PassStep DEF IInv, TypeOK

LEMMA StampInv == ASSUME IInv, NEW m \in Mailers, Stamp(m) PROVE IInv'
<1> DEFINE B == mailer[m].bucket
           s == [mailer[m] EXCEPT !.pc = "send", !.bucket = {}]
<1>1. /\ mailer[m].pc = "stamp" /\ mailer' = [mailer EXCEPT ![m] = s]
      /\ prop' = [p \in Proposals |->
                    IF p \in B THEN [prop[p] EXCEPT !.notified = TRUE] ELSE prop[p]]
      /\ UNCHANGED <<value, version, changes, made, active, run, req, mailed, again, raced, doubtful>>
  BY DEF Stamp, record, mails
<1>2. /\ s \in MailerState /\ s.pc = "send" /\ s.rows = mailer[m].rows /\ s.bucket = {}
      /\ mailer[m] \in MailerState
  BY <1>1 DEF IInv, TypeOK, MailerState
<1> HIDE DEF s
<1>3. /\ mailer'[m] = s
      /\ \A n \in Mailers \ {m} : mailer'[n] = mailer[n]
  BY <1>1 DEF IInv, TypeOK
<1>4. \A p \in Proposals : prop[p] \in Proposal
  BY DEF IInv, TypeOK
<1>5. /\ prop' \in [Proposals -> Proposal] /\ RowsKept
      /\ \A p \in Proposals : /\ prop'[p].state = prop[p].state
                              /\ prop'[p].notified = (p \in B \/ prop[p].notified)
  BY <1>1, <1>4 DEF Proposal, RowsKept
<1>6. MailInv'
  <2>1. \A n \in Mailers : InHand(n)' \subseteq InHand(n)
    BY <1>2, <1>3 DEF InHand
  <2>2. \A n \in Mailers : /\ mailer'[n].pc # "stamp" => mailer'[n].bucket = {}
                           /\ mailer'[n].pc = "idle" => mailer'[n].rows = {}
                           /\ mailer'[n].bucket \subseteq mailer[n].bucket
                           /\ mailer'[n].rows = mailer[n].rows
    BY <1>1, <1>2, <1>3 DEF IInv, MailInv
  <2>3. mailed \subseteq Proposals /\ \A n \in Mailers : InHand(n) \subseteq Proposals
    BY DEF IInv, TypeOK, MailerState, InHand
  <2>4. \A n \in Mailers : \A p \in InHand(n)' : prop'[p].state # "absent"
    BY <1>5, <2>1, <2>3 DEF IInv, MailInv
  <2>5. \A p \in mailed : /\ prop'[p].state # "absent"
                          /\ \/ prop'[p].notified \/ p \in doubtful
                             \/ \E n \in Mailers : p \in mailer'[n].bucket
    BY <1>3, <1>5, <2>3 DEF IInv, MailInv
  <2>6. AnnouncedWasMailed' /\ AnnouncedOnce'
    BY <1>1, <1>5 DEF IInv, MailInv, AnnouncedWasMailed, AnnouncedOnce
  <2> QED BY <1>1, <2>1, <2>2, <2>4, <2>5, <2>6 DEF IInv, MailInv
<1>7. \A p \in s.rows : prop[p].reviewer # None
  BY <1>2 DEF IInv, TypeOK, MailerState
<1> QED BY <1>1, <1>2, <1>5, <1>6, <1>7, PassStep DEF IInv, TypeOK

LEMMA EndPassInv == ASSUME IInv, NEW m \in Mailers, EndPass(m) PROVE IInv'
<1>1. /\ mailer' = [mailer EXCEPT ![m] = Quiet] /\ doubtful' = doubtful \union mailer[m].bucket
      /\ UNCHANGED <<prop, value, version, changes, made, active, run, req, mailed, again, raced>>
  BY DEF EndPass, drive, record, mails
<1>2. /\ Quiet \in MailerState /\ Quiet.pc = "idle" /\ Quiet.rows = {} /\ Quiet.bucket = {}
      /\ mailer[m] \in MailerState
  BY DEF IInv, TypeOK, MailerState, Quiet
<1>3. /\ mailer'[m] = Quiet
      /\ \A n \in Mailers \ {m} : mailer'[n] = mailer[n]
  BY <1>1 DEF IInv, TypeOK
<1>4. MailInv'
  <2>1. \A n \in Mailers : InHand(n)' \subseteq InHand(n)
    BY <1>2, <1>3 DEF InHand
  <2>2. \A n \in Mailers : /\ mailer'[n].pc # "stamp" => mailer'[n].bucket = {}
                           /\ mailer'[n].pc = "idle" => mailer'[n].rows = {}
                           /\ mailer'[n].bucket \subseteq mailer[n].bucket
                           /\ mailer'[n].rows \subseteq mailer[n].rows
    BY <1>2, <1>3 DEF IInv, MailInv
  <2>3. \A p \in mailed : \/ prop[p].notified \/ p \in doubtful'
                          \/ \E n \in Mailers : p \in mailer'[n].bucket
    BY <1>1, <1>3 DEF IInv, MailInv
  <2>4. doubtful \subseteq doubtful'
    BY <1>1
  <2>5. \A n, o \in Mailers : n # o => InHand(n)' \intersect InHand(o)' \subseteq doubtful'
    BY <2>1, <2>4 DEF IInv, MailInv
  <2>6. \A n \in Mailers : /\ mailer'[n].bucket \subseteq mailed
                           /\ mailer'[n].rows \intersect mailed \subseteq doubtful'
    BY <2>2, <2>4 DEF IInv, MailInv
  <2> QED BY <1>1, <2>1, <2>2, <2>3, <2>4, <2>5, <2>6
          DEF IInv, MailInv, AnnouncedWasMailed, AnnouncedOnce
<1>5. /\ RowsKept /\ prop' \in [Proposals -> Proposal] /\ doubtful' \subseteq Proposals
  BY <1>1, <1>2 DEF IInv, TypeOK, RowsKept, MailerState
<1> QED BY <1>1, <1>2, <1>4, <1>5, PassStep DEF IInv, TypeOK

-----------------------------------------------------------------------------
LEMMA InitInv == ASSUME Init PROVE IInv
<1>1. /\ prop = [p \in Proposals |-> NoProposal] /\ value \in [Entities -> Values]
      /\ version = [e \in Entities |-> 0] /\ changes = <<>> /\ made = [p \in Proposals |-> 0] /\ active = Staff
      /\ run = [r \in Runs |-> NoRead] /\ req = [q \in Requests |-> Closed]
      /\ mailer = [m \in Mailers |-> Quiet] /\ mailed = {} /\ again = {}
      /\ raced = {} /\ doubtful = {}
  BY DEF Init
<1>2. changes \in Seq(Change) /\ DOMAIN changes = {}
  BY <1>1, EmptySeq
<1>3. TypeOK
  BY <1>1, <1>2 DEF TypeOK, Proposal, NoProposal, RunState, NoRead, RequestState, Closed,
                    MailerState, Quiet
<1>4. FormInv
  BY <1>1, <1>2 DEF FormInv, NoProposal, Closed
<1>5. LogInv
  BY <1>1, <1>2 DEF LogInv, LogTellsValue, PreviousUnlessStale, NoProposal, NoRead
<1>6. \A p : Cardinality(Logged(changes, p)) = 0
  <2>1. \A p : Logged(changes, p) = {}
    BY <1>2 DEF Logged
  <2> QED BY <2>1, FS_EmptySet
<1>7. HoldInv
  BY <1>1, <1>6 DEF HoldInv, Holds, NoProposal, Closed
<1>8. MailInv
  BY <1>1 DEF MailInv, InHand, Quiet, NoProposal, AnnouncedWasMailed, AnnouncedOnce
<1> QED BY <1>3, <1>4, <1>5, <1>7, <1>8 DEF IInv

LEMMA NextInv == ASSUME IInv, [Next]_vars PROVE IInv'
<1>1. ASSUME NEW r \in Runs, NEW e \in Entities, LoadContext(r, e) PROVE IInv'
  BY <1>1, LoadContextInv
<1>2. ASSUME NEW r \in Runs, EmitChange(r) \/ ListUnlinked(r) \/ ProposeGroup(r) \/ EndRead(r)
      PROVE  IInv'
  BY <1>2, EmitChangeInv, ListUnlinkedInv, ProposeGroupInv, EndReadInv
<1>3. CASE Emission
  BY <1>1, <1>2, <1>3 DEF Emission
<1>4. ASSUME NEW q \in Requests, NEW p \in Proposals, OpenReview(q, p) \/ Check(q, p)
      PROVE  IInv'
  BY <1>4, OpenReviewInv, CheckInv
<1>5. ASSUME NEW q \in Requests,
             \/ Reject(q) \/ InsertChange(q) \/ ApplyChange(q) \/ ApplyGroup(q)
             \/ WriteFails(q) \/ CloseReview(q)
      PROVE  IInv'
  BY <1>5, RejectInv, InsertChangeInv, ApplyChangeInv, ApplyGroupInv, WriteFailsInv, CloseReviewInv
<1>6. CASE Decision
  BY <1>4, <1>5, <1>6 DEF Decision
<1>7. ASSUME NEW m \in Mailers, CollectRows(m) \/ Stamp(m) \/ EndPass(m) PROVE IInv'
  BY <1>7, CollectRowsInv, StampInv, EndPassInv
<1>8. ASSUME NEW m \in Mailers, NEW s \in Staff,
             SendMail(m, s) \/ LoseAnswer(m, s) \/ SkipBatch(m, s)
      PROVE  IInv'
  BY <1>8, SendMailInv, LoseAnswerInv, SkipBatchInv
<1>9. CASE Notification
  BY <1>7, <1>8, <1>9 DEF Notification
<1>10. ASSUME NEW p \in Proposals, Overdue(p) PROVE IInv'
  BY <1>10, OverdueInv
<1>11. ASSUME NEW p \in Proposals, NEW s \in Staff, Route(p, s) PROVE IInv'
  BY <1>11, RouteInv
<1>12. ASSUME NEW s \in Staff, SetStatus(s) PROVE IInv'
  BY <1>12, SetStatusInv
<1>13. CASE SweepExpired
  BY <1>13, SweepExpiredInv
<1>14. CASE UNCHANGED vars
  <2>1. UNCHANGED <<prop, value, version, changes, made, active, run, req, mailer, mailed, again,
                    raced, doubtful>>
    BY <1>14 DEF vars, record, mails
  <2>2. RowsKept
    BY <2>1 DEF RowsKept
  <2>3. TypeOK'
    BY <2>1, <2>2, QuietTypes DEF IInv, TypeOK
  <2> QED BY <2>1, <2>2, <2>3, FormFrame, LogFrame, HoldFrame, MailFrame DEF IInv
<1> QED BY <1>3, <1>6, <1>9, <1>10, <1>11, <1>12, <1>13, <1>14 DEF Next

LEMMA Inductive == Spec => []IInv
<1>1. Init => IInv
  BY InitInv
<1>2. IInv /\ [Next]_vars => IInv'
  BY NextInv
<1> QED BY <1>1, <1>2, PTL DEF Spec

(* The steps that write a verdict are those of a request that holds it.    *)
Verdicts == \A p \in Proposals :
  prop[p].state = "pending" /\ prop'[p].state \in {"applied", "rejected"}
    => \E q \in Requests : Holds(q, p)

LEMMA VerdictsHeld == ASSUME IInv, [Next]_vars PROVE Verdicts
<1>1. ASSUME NEW q \in Requests, Reject(q) \/ ApplyChange(q) \/ ApplyGroup(q)
      PROVE  Verdicts
  <2>1. /\ req[q].pc \in {"write", "update"} /\ req[q].prop \in Proposals
        /\ \A p \in Proposals \ {req[q].prop} : prop'[p] = prop[p]
    BY <1>1 DEF Reject, ApplyChange, Applied, ApplyGroup, IInv, TypeOK, FormInv
  <2> QED BY <2>1 DEF Verdicts, Holds
<1>2. CASE UNCHANGED prop
  BY <1>2 DEF Verdicts
<1>3. ASSUME NEW p \in Proposals, NEW row, Insert(p, row) PROVE Verdicts
  BY <1>3 DEF Verdicts, Insert, IInv, TypeOK
<1>4. ASSUME NEW r \in Runs, EmitChange(r) \/ ProposeGroup(r) PROVE Verdicts
  BY <1>2, <1>3, <1>4 DEF EmitChange, ProposeGroup
<1>5. ASSUME NEW p \in Proposals, Overdue(p) \/ \E s \in Staff : Route(p, s) PROVE Verdicts
  <2>1. prop \in [Proposals -> Proposal]
    BY DEF IInv, TypeOK
  <2>2. CASE Overdue(p)
    <3>1. prop' = [prop EXCEPT ![p].overdue = TRUE]
      BY <2>2 DEF Overdue
    <3>2. \A x \in Proposals : prop'[x].state = prop[x].state
      BY <2>1, <3>1 DEF Proposal
    <3> QED BY <3>2 DEF Verdicts
  <2>3. ASSUME NEW s \in Staff, Route(p, s) PROVE Verdicts
    <3>1. prop' = [prop EXCEPT ![p].reviewer = s]
      BY <2>3 DEF Route
    <3>2. \A x \in Proposals : prop'[x].state = prop[x].state
      BY <2>1, <3>1 DEF Proposal
    <3> QED BY <3>2 DEF Verdicts
  <2> QED BY <1>5, <2>2, <2>3
<1>6. CASE SweepExpired
  <2>1. \A x \in Proposals : prop[x] \in Proposal
    BY DEF IInv, TypeOK
  <2>2. \A x \in Proposals : prop'[x].state \in {prop[x].state, "expired"}
    BY <1>6, <2>1 DEF SweepExpired, Proposal
  <2> QED BY <2>2 DEF Verdicts
<1>7. ASSUME NEW m \in Mailers, Stamp(m) PROVE Verdicts
  <2>1. \A x \in Proposals : prop[x] \in Proposal
    BY DEF IInv, TypeOK
  <2>2. \A x \in Proposals : prop'[x].state = prop[x].state
    BY <1>7, <2>1 DEF Stamp, Proposal
  <2> QED BY <2>2 DEF Verdicts
<1>8. ASSUME NEW r \in Runs, ListUnlinked(r) \/ EndRead(r) \/ \E e \in Entities : LoadContext(r, e)
      PROVE  UNCHANGED prop
  BY <1>8 DEF ListUnlinked, EndRead, LoadContext, drive
<1>9. ASSUME NEW q \in Requests,
             \/ InsertChange(q) \/ WriteFails(q) \/ CloseReview(q)
             \/ \E p \in Proposals : OpenReview(q, p) \/ Check(q, p)
      PROVE  UNCHANGED prop
  BY <1>9 DEF InsertChange, WriteFails, CloseReview, OpenReview, Check, TakeUp, drive
<1>10. ASSUME NEW m \in Mailers,
              \/ CollectRows(m) \/ EndPass(m)
              \/ \E s \in Staff : SendMail(m, s) \/ LoseAnswer(m, s) \/ SkipBatch(m, s)
      PROVE  UNCHANGED prop
  BY <1>10 DEF CollectRows, EndPass, SendMail, LoseAnswer, SkipBatch, drive
<1>11. ASSUME NEW s \in Staff, SetStatus(s) PROVE UNCHANGED prop
  BY <1>11 DEF SetStatus, drive
<1>12. CASE Emission
  BY <1>2, <1>4, <1>8, <1>12 DEF Emission
<1>13. CASE Decision
  BY <1>1, <1>2, <1>9, <1>13 DEF Decision
<1>14. CASE Notification
  BY <1>2, <1>7, <1>10, <1>14 DEF Notification
<1>15. CASE UNCHANGED vars
  BY <1>2, <1>15 DEF vars
<1> QED BY <1>2, <1>5, <1>6, <1>11, <1>12, <1>13, <1>14, <1>15 DEF Next

-----------------------------------------------------------------------------
(* The rows, requests and mail passes are well formed; in particular a     *)
(* change row has its proposal's target and a previous value, which        *)
(* applySingleDecision takes from the proposal.                            *)
THEOREM ReviewTypeCorrect == Spec => []TypeOK
<1>1. IInv => TypeOK
  BY DEF IInv
<1> QED BY <1>1, Inductive, PTL

(* What became of a proposal is what its row says: applied once, or never, *)
(* unless two decisions on it, or one and the sweep, overlapped, though    *)
(* the transaction of a decision (drive.review.ts) checks nothing again.   *)
THEOREM EffectHolds == Spec => []EffectMatchesVerdict
<1>1. IInv => EffectMatchesVerdict
  BY DEF IInv, HoldInv, EffectMatchesVerdict, Effects, Logged
<1> QED BY <1>1, Inductive, PTL

(* The last change row of an entity tells its value, unless another        *)
(* approval for the entity was between its insert and its commit at the    *)
(* time: the transaction of applySingleDecision inserts the row first and  *)
(* locks nothing before the update of the entity.                          *)
THEOREM LogTells == Spec => []LogTellsValue
<1>1. IInv => LogTellsValue
  BY DEF IInv, LogInv
<1> QED BY <1>1, Inductive, PTL

(* A change row's previous value, which the scan read long before, is what *)
(* was overwritten unless another change was applied in between.           *)
THEOREM PreviousHolds == Spec => []PreviousUnlessStale
<1>1. IInv => PreviousUnlessStale
  BY DEF IInv, LogInv
<1> QED BY <1>1, Inductive, PTL

(* A proposal stamped by notifyReviewers was announced in a mail.          *)
THEOREM AnnouncedHolds == Spec => []AnnouncedWasMailed
<1>1. IInv => AnnouncedWasMailed
  BY DEF IInv, MailInv
<1> QED BY <1>1, Inductive, PTL

(* A proposal is announced once, unless two passes had it, one died        *)
(* between its mail and its stamp, or a send threw although its mail was   *)
(* taken (mailgun.driver.ts).                                              *)
THEOREM AnnouncedOnceHolds == Spec => []AnnouncedOnce
<1>1. IInv => AnnouncedOnce
  BY DEF IInv, MailInv
<1> QED BY <1>1, Inductive, PTL

(* Only a request of the proposal's own reviewer decides it, whichever of  *)
(* the reviewer's links opened it, and whenever the reviewer was routed.   *)
THEOREM OwnerHolds == Spec => OwnerDecides
<1> DEFINE Step == \A p \in Proposals :
       prop[p].state = "pending" /\ prop'[p].state \in {"applied", "rejected"}
         => \E q \in Requests : Holds(q, p) /\ req[q].staff = prop[p].reviewer
<1>1. ASSUME IInv, [Next]_vars PROVE Step
  BY <1>1, VerdictsHeld DEF Verdicts, Holds, IInv, FormInv
<1>2. IInv /\ [Next]_vars => [Step]_vars
  BY <1>1
<1> HIDE DEF Step
<1>3. Spec => [][Step]_vars
  BY <1>2, Inductive, PTL DEF Spec
<1> QED BY <1>3 DEF OwnerDecides, Step
=============================================================================

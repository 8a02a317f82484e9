---------------------------- MODULE OrgRecords ----------------------------
(***************************************************************************)
(* The service of src/modules/org as a whole: the grants and reads of      *)
(* AccessGrants and OrgReads, access requests, and the metadata of staff   *)
(* (skills, interests, ...), which three writers share: the people who use *)
(* the API, the batch import of metadata-import.ts and the directory sync, *)
(* whose syncMetadata replaces what it owns.                               *)
(*                                                                         *)
(* Each of them looks before it writes, and only the row's id, or the      *)
(* owner's tag in the metadata column, ties the write to what was seen.    *)
(*                                                                         *)
(* Abstracted: the type, notes and featured flag of an entry; a change of  *)
(* its label (then it is another entry); the audit rows; that a client     *)
(* could write the directory's own tag into the metadata column.           *)
(***************************************************************************)
EXTENDS OrgReads

CONSTANTS
  Wishes,       \* what access may be requested to: resource and role
  Labels, Values,
  Slots         \* how often the directory may give one person one label

VARIABLES
  requests,     \* rows of access_requests
  notes         \* rows of staff_metadata

recordVars == <<requests, notes>>
vars == <<grantVars, worldVars, recordVars, call>>

\* by: the call that made the row; raced: a rival was under way meanwhile.
AccessRequest == [user: Users, wish: Wishes, status: {"pending", "approved", "denied"},
                  by: Calls, raced: BOOLEAN]

\* owner: the source named in the metadata column; nth: which one, of the entries
\* with that label that its call made (None: it could make but one).
Note == [staff: Staff, label: Labels, nth: Slots \cup {None}, value: Values,
         owner: {"manual", "import", "directory"}, by: Calls \cup {None}, raced: BOOLEAN]

-----------------------------------------------------------------------------
(* Access requests.                                                        *)

\* Mutant: the search asks for the wrong status.
MutPending(u, w) == {r \in requests : r.user = u /\ r.wish = w /\ r.status = "approved"}

Pending(u, w) == {r \in requests : r.user = u /\ r.wish = w /\ r.status = "pending"}

\* An existing one is returned; otherwise the insert is yet to come.
CreateAccessRequest(c, u, w) ==
  /\ IF Pending(u, w) # {}
     THEN call[c] = Unused /\ call' = [call EXCEPT ![c] = Done]
     ELSE Begin(c, {d \in InFlight(u, {"request"}) : call[d].wish = w},
                [op |-> "request", user |-> u, wish |-> w, raced |-> FALSE])
  /\ UNCHANGED <<grantVars, worldVars, recordVars>>

InsertRequest(c) ==
  /\ call[c].op = "request"
  /\ requests' = requests \cup
       {[user |-> call[c].user, wish |-> call[c].wish, status |-> "pending",
         by |-> c, raced |-> call[c].raced]}
  /\ call' = [call EXCEPT ![c] = Done]
  /\ UNCHANGED <<grantVars, worldVars, notes>>

\* An administrator's verdict, given in another application.
ReviewRequest(r) ==
  /\ r.status = "pending"
  /\ \E verdict \in {"approved", "denied"} :
       requests' = (requests \ {r}) \cup {[r EXCEPT !.status = verdict]}
  /\ UNCHANGED <<grantVars, worldVars, notes, call>>

-----------------------------------------------------------------------------
(* Staff metadata through the API.                                         *)

Same(n, m) == n.staff = m.staff /\ n.by = m.by /\ n.label = m.label /\ n.nth = m.nth

\* The row as it is now, or nothing if it has been deleted meanwhile.
Now(n) == {m \in notes : Same(n, m)}

\* What a request writes: a row replaced by its new version.
Replaced(n, new) == (notes \ Now(n)) \cup {new}

NoteCall(op, s) == [op |-> op, staff |-> s, label |-> None, value |-> None,
                    seen |-> {}, entries |-> {}, raced |-> FALSE]

CreateStaffMetadata(c, s, l, v) ==
  /\ call[c] = Unused
  /\ notes' = notes \cup {[staff |-> s, label |-> l, nth |-> None, value |-> v,
                           owner |-> "manual", by |-> c, raced |-> FALSE]}
  /\ call' = [call EXCEPT ![c] = Done]
  /\ UNCHANGED <<grantVars, worldVars, requests>>

\* The entry is looked up before the transaction that changes it.
LookUpNote(c, n, op) ==
  /\ op \in {"update", "delete"}
  /\ Begin(c, {}, [NoteCall(op, n.staff) EXCEPT !.seen = {n}])
  /\ UNCHANGED <<grantVars, worldVars, recordVars>>

\* The value changes, or the metadata column is replaced and its tag is lost.
\* An entry deleted meanwhile makes the update, or the delete, throw.
UpdateStaffMetadata(c) ==
  /\ call[c].op = "update"
  /\ \/ \E m \in UNION {Now(n) : n \in call[c].seen}, v \in Values :
          notes' = Replaced(m, [m EXCEPT !.value = v])
     \/ \E m \in UNION {Now(n) : n \in call[c].seen} :
          notes' = Replaced(m, [m EXCEPT !.owner = "manual"])
     \/ /\ \A n \in call[c].seen : Now(n) = {}
        /\ UNCHANGED notes
  /\ call' = [call EXCEPT ![c] = Done]
  /\ UNCHANGED <<grantVars, worldVars, requests>>

DeleteStaffMetadata(c) ==
  /\ call[c].op = "delete"
  /\ notes' = notes \ UNION {Now(n) : n \in call[c].seen}
  /\ call' = [call EXCEPT ![c] = Done]
  /\ UNCHANGED <<grantVars, worldVars, requests>>

-----------------------------------------------------------------------------
(* The batch import, one row of it.                                        *)

OfLabel(s, l) == {n \in notes : n.staff = s /\ n.label = l}

\* findFirst: any entry with that label, whoever owns it.
ImportRow(c, s, l, v) ==
  /\ \/ /\ OfLabel(s, l) = {}
        /\ Begin(c, {d \in Calls : call[d].op = "import" /\ call[d].staff = s /\ call[d].label = l},
                 [NoteCall("import", s) EXCEPT !.label = l, !.value = v])
     \/ \E n \in OfLabel(s, l) :
          IF n.value = v
          THEN call[c] = Unused /\ call' = [call EXCEPT ![c] = Done]
          ELSE Begin(c, {}, [NoteCall("import", s) EXCEPT !.label = l, !.value = v, !.seen = {n}])
  /\ UNCHANGED <<grantVars, worldVars, recordVars>>

\* The update takes the entry over: its metadata column now names the import.
\* The failure of a row whose entry has gone is counted and passed over.
WriteImported(c) ==
  /\ call[c].op = "import"
  /\ notes' = IF call[c].seen = {}
              THEN notes \cup {[staff |-> call[c].staff, label |-> call[c].label, nth |-> None,
                                value |-> call[c].value, owner |-> "import",
                                by |-> c, raced |-> call[c].raced]}
              ELSE {IF \E n \in call[c].seen : Same(n, m)
                    THEN [m EXCEPT !.value = call[c].value, !.owner = "import"]
                    ELSE m : m \in notes}
  /\ call' = [call EXCEPT ![c] = Done]
  /\ UNCHANGED <<grantVars, worldVars, requests>>

-----------------------------------------------------------------------------
(* The directory sync's replacement of what it owns, for one person.       *)

Owned(s) == {n \in notes : n.staff = s /\ n.owner = "directory"}

\* The mapper may give a person several entries of one label (two jobs at one
\* organisation, the languages): all are inserted.  The DELETE sees the rows of
\* its own beginning: those inserted by another transaction that has not committed
\* yet are not among them.
SyncMetadata(c, s, entries) ==
  /\ Begin(c, {d \in Calls : call[d].op = "sync" /\ call[d].staff = s},
           [NoteCall("sync", s) EXCEPT !.seen = Owned(s), !.entries = entries])
  /\ UNCHANGED <<grantVars, worldVars, recordVars>>

\* Mutant: the rows found are deleted by id, whoever owns them now.
MutReplaceOwned(c) ==
  /\ call[c].op = "sync"
  /\ notes' = {m \in notes : ~\E n \in call[c].seen : Same(n, m)}
              \cup {[staff |-> call[c].staff, label |-> e[1], nth |-> e[2], value |-> e[3],
                     owner |-> "directory", by |-> c, raced |-> call[c].raced]
                     : e \in call[c].entries}
  /\ call' = [call EXCEPT ![c] = Done]
  /\ UNCHANGED <<grantVars, worldVars, requests>>

\* Rows changed since are looked at again before they are deleted: one that an
\* import or a user has taken over stays.  Then the new entries are inserted.
ReplaceOwned(c) ==
  /\ call[c].op = "sync"
  /\ notes' = {m \in notes : ~(m.owner = "directory" /\ \E n \in call[c].seen : Same(n, m))}
              \cup {[staff |-> call[c].staff, label |-> e[1], nth |-> e[2], value |-> e[3],
                     owner |-> "directory", by |-> c, raced |-> call[c].raced]
                     : e \in call[c].entries}
  /\ call' = [call EXCEPT ![c] = Done]
  /\ UNCHANGED <<grantVars, worldVars, requests>>

-----------------------------------------------------------------------------
\* Nobody has been asked for anything; an earlier directory sync may have left
\* entries, several of one label among them.
Init ==
  /\ InitGrants
  /\ InitWorld
  /\ requests = {}
  /\ \E v \in Values :
       notes \in SUBSET [staff : Staff, label : Labels, nth : Slots, value : {v},
                         owner : {"directory"}, by : {None}, raced : {FALSE}]

RecordNext ==
  \/ \E c \in Calls :
       \/ \E u \in Users, w \in Wishes : CreateAccessRequest(c, u, w)
       \/ InsertRequest(c)
       \/ \E s \in Staff, l \in Labels, v \in Values :
            CreateStaffMetadata(c, s, l, v) \/ ImportRow(c, s, l, v)
       \/ \E n \in notes, op \in {"update", "delete"} : LookUpNote(c, n, op)
       \/ UpdateStaffMetadata(c) \/ DeleteStaffMetadata(c) \/ WriteImported(c)
       \/ \E s \in Staff, E \in SUBSET (Labels \X Slots) : \E f \in [E -> Values] :
            SyncMetadata(c, s, {<<e[1], e[2], f[e]>> : e \in E})
       \/ ReplaceOwned(c)
  \/ \E r \in requests : ReviewRequest(r)

Next ==
  \/ GrantNext /\ UNCHANGED <<worldVars, recordVars>>
  \/ (\E c \in Calls : Reorganise(c)) /\ UNCHANGED recordVars
  \/ RecordNext

Spec == Init /\ [][Next]_vars

-----------------------------------------------------------------------------
(* Properties                                                              *)

TypeOK ==
  /\ there \subseteq Campaigns
  /\ grants \in [Users -> [Key -> Grant]]
  /\ opened \in [Users -> SUBSET Key] /\ closed \in [Users -> SUBSET Accounts]
  /\ open \subseteq Offices \cup Teams /\ left \subseteq Staff
  /\ requests \subseteq AccessRequest
  /\ notes \subseteq Note

\* A search that comes before an insert is as good as a constraint, unless two
\* of them overlap.  Two requests of a user for one thing are pending together,
\* or a person has entries that two directory syncs made and still own, only if
\* the calls that made them were under way together: a sync leaves nothing of what
\* those before it owned, however many entries of one label they left.
DoubledOnlyIfOverlapped ==
  /\ \A r, q \in requests :
       r # q /\ r.user = q.user /\ r.wish = q.wish /\ r.status = "pending" /\ q.status = "pending"
         => r.raced /\ q.raced
  /\ \A n, m \in notes :
       n.by # m.by /\ n.staff = m.staff
         /\ n.owner = "directory" /\ m.owner = "directory" => n.raced /\ m.raced

\* Manually added metadata is never touched by the directory sync
\* (directory.sync.ts): an entry that the directory does not own, because a
\* person made it or because a person or an import took it over, even between
\* the sync's search and its delete, is gone only when somebody deletes it.
OnlyDeleteRemoves ==
  [][\A n \in notes : n.owner # "directory" /\ ~(\E m \in notes' : Same(n, m)) =>
       \E c \in Calls : call[c].op = "delete" /\ \E s \in call[c].seen : Same(n, s)]_vars
=============================================================================

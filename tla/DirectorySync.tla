--------------------------- MODULE DirectorySync ---------------------------
(***************************************************************************)
(* The sync of the staff table with the Google directory: the pipeline of  *)
(* directory.cron.ts and, for each person it keeps, the statements of      *)
(* directory.sync.ts, one at a time.                                       *)
(*                                                                         *)
(* A sync lists the directory once and works through that list.  It finds  *)
(* a person's staff row by the profile it is linked to, or else by email,  *)
(* and then links it; only then does it write.  Nothing keeps two syncs    *)
(* apart, and nothing of a sync survives the death of its process.         *)
(*                                                                         *)
(* Abstracted: the columns of a staff row that the directory sets, but for *)
(* its email, are one title; the first address of a profile is its primary *)
(* one; the metadata (in OrgRecords); the run's row: its counters, summary and   *)
(* status, and the sweep of rows left running (in DriveSyncRun).           *)
(***************************************************************************)
EXTENDS Naturals, Sequences, StaffClassifier

CONSTANTS
  Profiles,     \* resource names of the directory
  Robots,       \* those the model may take for a service account
  Emails,
  Entered,      \* those administrators may have entered before
  Titles,
  Syncs,        \* syncs under way at a time
  MaxEdits,     \* changes of the directory, and of staff by administrators
  MaxFaults     \* processes killed and statements or calls failing

ASSUME DirectoryAssumption ==
  /\ Robots \subseteq Profiles /\ Foreign \subseteq Emails /\ Entered \subseteq Emails
  /\ None \notin Emails \cup {"always_skip", "always_keep"}
  /\ MaxEdits \in Nat /\ MaxFaults \in Nat

VARIABLES
  dir,          \* the directory: [Profiles -> Entry \cup {Absent}]
  staff,        \* rows of staff, by id
  link,         \* rows of staff_external_ids: [Profiles -> staff id, or 0]
  logged,       \* last value in staff_changes, per row and column
  sync,         \* what each sync holds in memory
  edits, faults,
  owners,       \* history: the profiles that have had an address
  late          \* history: rows whose creation was not logged in time

world == <<dir, edits, owners>>
table == <<staff, link, logged, late>>
vars == <<world, table, sync, faults>>

Absent == [email |-> None, title |-> None]

Row == [email: Emails, title: Titles, status: {"active", "on_leave"}]
Columns == {"email", "title", "status"}
Ids == DOMAIN staff

\* Everyone in the directory is active.
MapDirectoryPerson(entry) ==
  [email |-> entry.email, title |-> entry.title, status |-> "active"]

HolderOf(email) == {id \in Ids : staff[id].email = email}

\* listed: the profiles still to be applied, as they were when listed.
Idle == [pc |-> "idle", listed |-> <<>>, at |-> None, id |-> 0, seen |-> Absent]

-----------------------------------------------------------------------------
(* The run.                                                                *)

\* The profiles of the directory, all pages of them.
FetchAllDirectoryPeople == [p \in {q \in Profiles : dir[q] # Absent} |-> dir[p]]

\* An answer may leave out anybody, and takes no human for a service account.
Answers(listed) ==
  LET asked == {p \in DOMAIN listed : ~HardFiltered(listed[p])}
      robots == {listed[p].email : p \in asked \cap Robots}
  IN  UNION {{[e \in E |-> IF e \in R THEN "service_account" ELSE "person"]
                : R \in SUBSET (robots \cap E)}
             : E \in SUBSET {listed[p].email : p \in asked}}

\* With nobody left, the run is completed.
GoOn(left, listed) ==
  IF left = {} THEN Idle
  ELSE [Idle EXCEPT !.pc = "next", !.listed = [p \in left |-> listed[p]]]

\* The list and the verdicts on it; neither depends on what others write in the
\* meantime.  The mapper refuses nobody who has passed the hard filters.  If the
\* list cannot be had, the run fails and nothing has changed.
StartSync(s) ==
  /\ sync[s].pc = "idle"
  /\ LET listed == FetchAllDirectoryPeople
     IN  \E first, second \in Answers(listed) :
           LET kind == ClassifyEntries(listed, first, second)
           IN  sync' = [sync EXCEPT ![s] = GoOn({p \in DOMAIN kind : kind[p] = "person"}, listed)]
  /\ UNCHANGED <<world, table, faults>>

-----------------------------------------------------------------------------
(* One person.  A statement that throws ends this person's turn only.      *)

Mapped(s) == MapDirectoryPerson(sync[s].listed[sync[s].at])

\* Profiles are taken in the order of the list: any order.
Over(t) == GoOn(DOMAIN t.listed \ {t.at}, t.listed)

\* The search by profile brings the staff row along.
ApplyDirectoryPerson(s, p) ==
  /\ sync[s].pc = "next" /\ p \in DOMAIN sync[s].listed
  /\ sync' = [sync EXCEPT ![s].at = p,
       ![s].pc = IF link[p] = 0 THEN "by_email" ELSE "update",
       ![s].id = link[p],
       ![s].seen = IF link[p] = 0 THEN Absent ELSE staff[link[p]]]
  /\ UNCHANGED <<world, table, faults>>

\* Mutant: people are known by their title.
MutFindByEmail(s) ==
  /\ sync[s].pc = "by_email"
  /\ LET found == {id \in Ids : staff[id].title = Mapped(s).title}
     IN  \/ /\ found = {}
            /\ sync' = [sync EXCEPT ![s].pc = "create"]
         \/ \E id \in found :
              sync' = [sync EXCEPT ![s].pc = "link", ![s].id = id, ![s].seen = staff[id]]
  /\ UNCHANGED <<world, table, faults>>

FindByEmail(s) ==
  /\ sync[s].pc = "by_email"
  /\ LET found == HolderOf(Mapped(s).email)
     IN  \/ /\ found = {}
            /\ sync' = [sync EXCEPT ![s].pc = "create"]
         \/ \E id \in found :
              sync' = [sync EXCEPT ![s].pc = "link", ![s].id = id, ![s].seen = staff[id]]
  /\ UNCHANGED <<world, table, faults>>

\* A profile is linked once; another sync may have been faster.
Link(s) ==
  /\ sync[s].pc = "link"
  /\ IF link[sync[s].at] = 0
     THEN /\ link' = [link EXCEPT ![sync[s].at] = sync[s].id]
          /\ sync' = [sync EXCEPT ![s].pc = "update"]
     ELSE /\ sync' = [sync EXCEPT ![s] = Over(@)]
          /\ UNCHANGED link
  /\ UNCHANGED <<world, staff, logged, late, faults>>

\* The columns in which the profile differs from the row that was found.
Changed(s) == {c \in Columns : Mapped(s)[c] # sync[s].seen[c]}

Overlay(row, cols, new) == [c \in Columns |-> IF c \in cols THEN new[c] ELSE row[c]]

\* A staff row being created by another sync, its first log entries to come.
Unlogged == {sync[s].id : s \in {t \in Syncs : sync[t].pc = "log"}}

\* Mutant: the log rows are not in the transaction of the update.
MutUpdateStaff(s) ==
  /\ sync[s].pc = "update"
  /\ LET id == sync[s].id
         cols == Changed(s)
         new == Mapped(s)
         refused == "email" \in cols /\ HolderOf(new.email) \ {id} # {}
     IN  /\ staff' = IF refused THEN staff ELSE [staff EXCEPT ![id] = Overlay(@, cols, new)]
         /\ logged' = [logged EXCEPT ![id] = Overlay(@, cols, new)]
         /\ late' = IF cols # {} /\ id \in Unlogged THEN late \cup {id} ELSE late
         /\ sync' = [sync EXCEPT ![s] = Over(@)]
  /\ UNCHANGED <<world, link, faults>>

\* The changed columns and their log rows, in one transaction.  An email that
\* another row holds makes it throw.
UpdateStaff(s) ==
  /\ sync[s].pc = "update"
  /\ LET id == sync[s].id
         cols == Changed(s)
         new == Mapped(s)
     IN  IF "email" \in cols /\ HolderOf(new.email) \ {id} # {}
         THEN /\ sync' = [sync EXCEPT ![s] = Over(@)]
              /\ UNCHANGED <<staff, logged, late>>
         ELSE /\ staff' = [staff EXCEPT ![id] = Overlay(@, cols, new)]
              /\ logged' = [logged EXCEPT ![id] = Overlay(@, cols, new)]
              /\ late' = IF cols # {} /\ id \in Unlogged THEN late \cup {id} ELSE late
              /\ sync' = [sync EXCEPT ![s] = Over(@)]
  /\ UNCHANGED <<world, link, faults>>

\* The row and its link, in one statement.
CreateStaff(s) ==
  /\ sync[s].pc = "create"
  /\ IF HolderOf(Mapped(s).email) # {} \/ link[sync[s].at] # 0
     THEN /\ sync' = [sync EXCEPT ![s] = Over(@)]
          /\ UNCHANGED <<staff, link, logged>>
     ELSE /\ staff' = Append(staff, Mapped(s))
          /\ logged' = Append(logged, [c \in Columns |-> None])
          /\ link' = [link EXCEPT ![sync[s].at] = Len(staff) + 1]
          /\ sync' = [sync EXCEPT ![s].pc = "log", ![s].id = Len(staff) + 1]
  /\ UNCHANGED <<world, late, faults>>

\* Its first log rows, in another.
LogCreated(s) ==
  /\ sync[s].pc = "log"
  /\ logged' = [logged EXCEPT ![sync[s].id] = Mapped(s)]
  /\ sync' = [sync EXCEPT ![s] = Over(@)]
  /\ UNCHANGED <<world, staff, link, late, faults>>

-----------------------------------------------------------------------------
(* What goes wrong.                                                        *)

Forsaken(s) == IF sync[s].pc = "log" THEN late \cup {sync[s].id} ELSE late

\* The process is killed: requests are answered before the sync begins.
Crash(s) ==
  /\ sync[s].pc # "idle" /\ faults < MaxFaults
  /\ faults' = faults + 1
  /\ sync' = [sync EXCEPT ![s] = Idle]
  /\ late' = Forsaken(s)
  /\ UNCHANGED <<world, staff, link, logged>>

\* A statement of one person's turn fails: the sync goes on with the next.
PersonFails(s) ==
  /\ sync[s].at # None /\ faults < MaxFaults
  /\ faults' = faults + 1
  /\ sync' = [sync EXCEPT ![s] = Over(@)]
  /\ late' = Forsaken(s)
  /\ UNCHANGED <<world, staff, link, logged>>

-----------------------------------------------------------------------------
(* The world.                                                              *)

Entry == [email: Emails \cup {None}, title: Titles]

\* Somebody joins, leaves, or is changed; an address belongs to one profile.
EditDirectory(p, entry) ==
  /\ edits < MaxEdits /\ entry # dir[p]
  /\ entry.email # None => \A q \in Profiles \ {p} : dir[q].email # entry.email
  /\ edits' = edits + 1
  /\ dir' = [dir EXCEPT ![p] = entry]
  /\ owners' = [e \in Emails |-> IF e = entry.email THEN owners[e] \cup {p} ELSE owners[e]]
  /\ UNCHANGED <<table, sync, faults>>

\* An administrator's change of a status, logged with it.
SetStatus(id, st) ==
  /\ edits < MaxEdits /\ staff[id].status # st
  /\ edits' = edits + 1
  /\ staff' = [staff EXCEPT ![id].status = st]
  /\ logged' = [logged EXCEPT ![id].status = st]
  /\ late' = IF id \in Unlogged THEN late \cup {id} ELSE late
  /\ UNCHANGED <<dir, owners, link, sync, faults>>

-----------------------------------------------------------------------------
\* The directory has been in use; administrators may have entered somebody.
Init ==
  /\ \E D \in [Profiles -> {n \in Entry : n.email # None} \cup {Absent}], t \in Titles :
       /\ \A p, q \in Profiles : D[p].email = D[q].email => p = q \/ D[p] = Absent
       /\ \A p \in Profiles : D[p].title \in {t, None}
       /\ dir = D
       /\ owners = [e \in Emails |-> {p \in Profiles : D[p].email = e}]
  /\ \E e \in Entered \cup {None}, t \in Titles :
       /\ staff = IF e = None THEN <<>>
                  ELSE <<[email |-> e, title |-> t, status |-> "on_leave"]>>
       /\ logged = staff
  /\ link = [p \in Profiles |-> 0]
  /\ sync = [s \in Syncs |-> Idle]
  /\ edits = 0 /\ faults = 0
  /\ late = {}

RunDirectoryFullSync(s) ==
  \/ StartSync(s)
  \/ \E p \in Profiles : ApplyDirectoryPerson(s, p)
  \/ FindByEmail(s) \/ Link(s) \/ UpdateStaff(s) \/ CreateStaff(s) \/ LogCreated(s)

Next ==
  \/ \E s \in Syncs : \/ RunDirectoryFullSync(s)
                        \/ Crash(s) \/ PersonFails(s)
  \/ \E p \in Profiles, entry \in Entry \cup {Absent} : EditDirectory(p, entry)
  \/ \E id \in Ids, st \in {"active", "on_leave"} : SetStatus(id, st)

\* The scheduler posts every day, and a sync that is not killed goes on.
Fairness ==
  \A s \in Syncs : WF_vars(RunDirectoryFullSync(s))

Spec == Init /\ [][Next]_vars /\ Fairness

-----------------------------------------------------------------------------
(* Properties                                                              *)

TypeOK ==
  /\ dir \in [Profiles -> Entry \cup {Absent}]
  /\ staff \in Seq(Row) /\ Len(logged) = Len(staff)
  /\ link \in [Profiles -> Ids \cup {0}]
  /\ \A s \in Syncs : sync[s].id \in Ids \cup {0}

\* The change log is the history of the row: its last entry for a column is
\* what the column holds, however syncs overlap, whichever statement fails and
\* whoever else edits the row.  Only the first entries of a new row may be
\* missing or late, when the sync that made it dies or is overtaken just then.
LogTellsStaff == \A id \in Ids :
  logged[id] = staff[id] \/ id \in late \cup Unlogged

\* Profiles that never had an address any other profile has had.
Apart(S) == \A e \in Emails : owners[e] \cap S = {} \/ owners[e] \subseteq S

\* Two profiles are taken for one member of staff only if addresses were passed
\* on between them, from one to the other or through others: a row that took the
\* address of one profile is found by the next to have it.
SharedOnlyAfterReuse == \A S \in SUBSET Profiles : Apart(S) =>
  \A p \in S, q \in Profiles \ S : link[p] # 0 => link[p] # link[q]

Human(p) == dir[p] # Absent /\ p \notin Robots /\ ~HardFiltered(dir[p])

InStep(p) == link[p] # 0 /\ staff[link[p]] = MapDirectoryPerson(dir[p])

\* Another profile writes the same row, or another row keeps the address.
Blocked(p) ==
  /\ link[p] # 0
  /\ \/ \E q \in Profiles \ {p} : link[q] = link[p] /\ dir[q] # Absent
     \/ HolderOf(dir[p].email) \ {link[p]} # {}

\* Once nobody edits any more, the staff table catches up with the directory,
\* whatever syncs overlapped or died before and whatever the model failed to
\* answer: every human in it has a row that tells what the profile tells, unless
\* the row is shared or the address is held by the row of somebody else.
CatchesUp == <>[](\A p \in Profiles : Human(p) => InStep(p) \/ Blocked(p))
=============================================================================

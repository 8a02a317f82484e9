------------------------ MODULE DirectorySyncProofs ------------------------
(***************************************************************************)
(* For any number of syncs, profiles and staff: the change log tells what  *)
(* the staff rows hold (LogTellsStaff), and profiles share a row only      *)
(* where addresses were passed on between them (SharedOnlyAfterReuse).     *)
(*                                                                         *)
(* An update writes the same columns to the row and to the log, whatever   *)
(* it had read before, so it keeps them equal where they were.  The one    *)
(* gap is between a row's creation and its first log entries: there the    *)
(* invariant must say what those entries will be, namely what the row      *)
(* holds, unless somebody has written the row since (Held).                *)
(*                                                                         *)
(* For sharing, take any set of profiles whose addresses nobody outside    *)
(* ever had: all that touch a row are inside, or all are outside, with the *)
(* profiles that have had the address the row holds (SideInv).             *)
(*                                                                         *)
(* The types of the rows, and what the classifier may drop, come last.     *)
(***************************************************************************)
EXTENDS DirectorySync, TLAPS

Value == Emails \union Titles \union {None, "active", "on_leave"}
Rows == [Columns -> Value]
Lists == UNION {[P -> Entry \union {Absent}] : P \in SUBSET Profiles}
Memory == [pc : {"idle", "next", "by_email", "create", "link", "update", "log"},
           listed : Lists, at : Profiles \union {None}, id : Nat,
           seen : Rows \union {Absent}]

Typed == /\ dir \in [Profiles -> Entry \union {Absent}]
         /\ staff \in Seq(Rows) /\ logged \in Seq(Rows) /\ Len(logged) = Len(staff)
         /\ link \in [Profiles -> 0..Len(staff)]
         /\ sync \in [Syncs -> Memory]

Held(s) ==
  /\ sync[s].pc \notin {"idle", "next"} => sync[s].at \in DOMAIN sync[s].listed
  /\ sync[s].pc \in {"link", "update", "log"} => sync[s].id \in Ids
  /\ sync[s].pc = "log" => sync[s].id \in late \/ staff[sync[s].id] = Mapped(s)

IInv == /\ Typed
        /\ \A s \in Syncs : Held(s)
        /\ LogTellsStaff

-----------------------------------------------------------------------------
(* Values *)

LEMMA IdleIsMemory == Idle \in Memory
<1>1. <<>> \in [{} -> Entry \union {Absent}]
  OBVIOUS
<1>2. <<>> \in Lists
  BY <1>1 DEF Lists
<1> QED BY <1>2 DEF Idle, Memory

LEMMA PersonIsRow ==
  ASSUME NEW e \in Entry \union {Absent}
  PROVE  MapDirectoryPerson(e) \in Rows
BY DEF Entry, Absent, MapDirectoryPerson, Rows, Columns, Value

LEMMA OverlayIsRow ==
  ASSUME NEW row \in Rows, NEW new \in Rows, NEW cols \in SUBSET Columns
  PROVE  Overlay(row, cols, new) \in Rows
BY DEF Overlay, Rows

LEMMA OverlayOfNothing ==
  ASSUME NEW row \in Rows, NEW new
  PROVE  Overlay(row, {}, new) = row
BY DEF Overlay, Rows

(* Going on with the list, or having done with it. *)
LEMMA GoOnIsMemory ==
  ASSUME NEW L \in Lists, NEW left \in SUBSET DOMAIN L
  PROVE  GoOn(left, L) \in Memory /\ GoOn(left, L).pc \in {"idle", "next"}
<1> DEFINE F == [p \in left |-> L[p]]
<1>1. F \in Lists
  <2>1. PICK P \in SUBSET Profiles : L \in [P -> Entry \union {Absent}]
    BY DEF Lists
  <2>2. left \in SUBSET Profiles /\ F \in [left -> Entry \union {Absent}]
    BY <2>1
  <2> QED BY <2>2 DEF Lists
<1>2. CASE left = {}
  BY <1>2, IdleIsMemory DEF GoOn, Idle
<1>3. CASE left # {}
  <2>1. GoOn(left, L) = [Idle EXCEPT !.pc = "next", !.listed = F]
    BY <1>3 DEF GoOn
  <2> HIDE DEF F
  <2> QED BY <1>1, <2>1, IdleIsMemory DEF Idle, Memory
<1> QED BY <1>2, <1>3

LEMMA OverIsMemory ==
  ASSUME NEW t \in Memory
  PROVE  Over(t) \in Memory /\ Over(t).pc \in {"idle", "next"}
<1>1. t.listed \in Lists
  BY DEF Memory
<1> QED BY <1>1, GoOnIsMemory DEF Over

LEMMA MappedIsRow ==
  ASSUME Typed, NEW s \in Syncs, sync[s].at \in DOMAIN sync[s].listed
  PROVE  Mapped(s) \in Rows
<1>1. sync[s].listed \in Lists
  BY DEF Typed, Memory
<1>2. PICK P \in SUBSET Profiles : sync[s].listed \in [P -> Entry \union {Absent}]
  BY <1>1 DEF Lists
<1>3. sync[s].listed[sync[s].at] \in Entry \union {Absent}
  BY <1>2
<1> QED BY <1>3, PersonIsRow DEF Mapped
-----------------------------------------------------------------------------
(* Steps *)

(* A step that moves one sync on and writes no staff row.  Where it takes  *)
(* the sync away from a row whose log entries are due, the row is late.    *)
LEMMA MovesOn ==
  ASSUME IInv, NEW s \in Syncs, NEW t \in Memory,
         sync' = [sync EXCEPT ![s] = t], UNCHANGED <<dir, staff, logged>>,
         link' \in [Profiles -> 0..Len(staff)], late \subseteq late',
         sync[s].pc = "log" => sync[s].id \in late',
         t.pc # "log",
         t.pc \notin {"idle", "next"} => t.at \in DOMAIN t.listed,
         t.pc \in {"link", "update"} => t.id \in Ids
  PROVE  IInv'
<1>1. sync' \in [Syncs -> Memory] /\ sync'[s] = t /\ \A u \in Syncs \ {s} : sync'[u] = sync[u]
  BY DEF IInv, Typed
<1>2. Typed'
  BY <1>1 DEF IInv, Typed
<1>3. ASSUME NEW u \in Syncs PROVE Held(u)'
  <2>1. CASE u = s
    BY <1>1, <2>1 DEF Held, Ids
  <2>2. CASE u # s
    BY <1>1, <2>2 DEF IInv, Held, Mapped, Ids
  <2> QED BY <2>1, <2>2
<1>4. \A id \in Unlogged : id \in Unlogged' \/ id \in late'
  BY <1>1 DEF Unlogged
<1>5. LogTellsStaff'
  BY <1>4 DEF IInv, LogTellsStaff, Ids
<1> QED BY <1>2, <1>3, <1>5 DEF IInv

(* A row and its log written together: equal where they were equal.        *)
LEMMA BothWritten ==
  ASSUME IInv, NEW id \in Ids, NEW row \in Rows, NEW entry \in Rows,
         staff' = [staff EXCEPT ![id] = row], logged' = [logged EXCEPT ![id] = entry],
         logged[id] = staff[id] => entry = row,
         row # staff[id] /\ id \in Unlogged => id \in late',
         late \subseteq late',
         UNCHANGED link, dir' \in [Profiles -> Entry \union {Absent}],
         sync' \in [Syncs -> Memory],
         \A u \in Syncs :
               sync'[u] = sync[u] \/ (sync[u].pc # "log" /\ sync'[u].pc \in {"idle", "next"})
  PROVE  IInv'
<1>1. /\ staff' \in Seq(Rows) /\ logged' \in Seq(Rows)
      /\ Len(staff') = Len(staff) /\ Len(logged') = Len(staff)
      /\ Ids' = Ids
  BY DEF IInv, Typed, Ids
<1>2. Typed'
  BY <1>1 DEF IInv, Typed
<1>3. Unlogged' = Unlogged
  BY DEF Unlogged
<1>4. ASSUME NEW u \in Syncs PROVE Held(u)'
  <2>1. CASE sync'[u] # sync[u]
    BY <2>1 DEF Held
  <2>2. CASE sync'[u] = sync[u]
    <3>1. Mapped(u)' = Mapped(u)
      BY <2>2 DEF Mapped
    <3>2. sync[u].pc = "log" =>
            sync[u].id \in late' \/ staff'[sync[u].id] = Mapped(u)
      <4>1. SUFFICES ASSUME sync[u].pc = "log", sync[u].id \notin late'
                     PROVE  staff'[sync[u].id] = Mapped(u)
        OBVIOUS
      <4>2. sync[u].id \in Unlogged /\ sync[u].id \in Ids /\ staff[sync[u].id] = Mapped(u)
        BY <4>1 DEF IInv, Held, Unlogged
      <4>3. sync[u].id = id => row = staff[id]
        BY <4>1, <4>2
      <4> QED BY <4>2, <4>3 DEF IInv, Typed, Ids
    <3> QED BY <1>1, <2>2, <3>1, <3>2 DEF IInv, Held
  <2> QED BY <2>1, <2>2
<1>5. ASSUME NEW j \in Ids, j \notin late' \union Unlogged
      PROVE  logged'[j] = staff'[j]
  <2>1. logged[j] = staff[j]
    BY <1>5 DEF IInv, LogTellsStaff
  <2> QED BY <2>1 DEF IInv, Typed, Ids
<1>6. LogTellsStaff'
  BY <1>1, <1>3, <1>5 DEF LogTellsStaff
<1> QED BY <1>2, <1>4, <1>6 DEF IInv
-----------------------------------------------------------------------------
(* Actions *)

LEMMA InitInv == Init => IInv
<1> SUFFICES ASSUME Init PROVE IInv
  OBVIOUS
<1>1. dir \in [Profiles -> Entry \union {Absent}]
  BY DEF Init
<1>2. staff \in Seq(Rows) /\ logged = staff
  <2>1. PICK e \in Entered \union {None}, t \in Titles :
          staff = IF e = None THEN <<>>
                  ELSE <<[email |-> e, title |-> t, status |-> "on_leave"]>>
    BY DEF Init
  <2>2. [email |-> e, title |-> t, status |-> "on_leave"] \in Rows
    BY DirectoryAssumption DEF Rows, Columns, Value
  <2> QED BY <2>1, <2>2 DEF Init
<1>3. link \in [Profiles -> 0..Len(staff)]
  BY <1>2 DEF Init
<1>4. sync = [s \in Syncs |-> Idle]
  BY DEF Init
<1>5. sync \in [Syncs -> Memory] /\ \A s \in Syncs : sync[s].pc = "idle"
  BY <1>4, IdleIsMemory DEF Idle
<1> QED BY <1>1, <1>2, <1>3, <1>5 DEF IInv, Typed, Held, LogTellsStaff

(* Every step that ends a person's turn without writing. *)
LEMMA TurnEnds ==
  ASSUME IInv, NEW s \in Syncs, sync' = [sync EXCEPT ![s] = Over(@)],
         UNCHANGED <<dir, staff, logged, link>>, late \subseteq late',
         sync[s].pc = "log" => sync[s].id \in late'
  PROVE  IInv'
<1>1. sync[s] \in Memory
  BY DEF IInv, Typed
<1>2. Over(sync[s]) \in Memory /\ Over(sync[s]).pc \in {"idle", "next"}
  BY <1>1, OverIsMemory
<1>3. sync' = [sync EXCEPT ![s] = Over(sync[s])]
  OBVIOUS
<1>4. link' \in [Profiles -> 0..Len(staff)]
  BY DEF IInv, Typed
<1> QED BY <1>2, <1>3, <1>4, MovesOn

LEMMA StartInv == ASSUME IInv, NEW s \in Syncs, StartSync(s) PROVE IInv'
<1> DEFINE listed == FetchAllDirectoryPeople
<1>1. PICK first \in Answers(listed), second \in Answers(listed) :
        LET kind == ClassifyEntries(listed, first, second)
        IN  sync' = [sync EXCEPT ![s] = GoOn({p \in DOMAIN kind : kind[p] = "person"}, listed)]
  BY DEF StartSync
<1> DEFINE left == {p \in DOMAIN ClassifyEntries(listed, first, second) :
                      ClassifyEntries(listed, first, second)[p] = "person"}
<1>2. left \in SUBSET DOMAIN listed
  BY DEF ClassifyEntries
<1>3. listed \in Lists
  <2>1. listed \in [{q \in Profiles : dir[q] # Absent} -> Entry \union {Absent}]
    BY DEF FetchAllDirectoryPeople, IInv, Typed
  <2> QED BY <2>1 DEF Lists
<1> HIDE DEF listed
<1>4. GoOn(left, listed) \in Memory /\ GoOn(left, listed).pc \in {"idle", "next"}
  BY <1>2, <1>3, GoOnIsMemory
<1>5. sync' = [sync EXCEPT ![s] = GoOn(left, listed)]
  BY <1>1
<1>6. /\ UNCHANGED <<dir, staff, logged, link, late>> /\ sync[s].pc = "idle"
      /\ link' \in [Profiles -> 0..Len(staff)]
  BY DEF StartSync, world, table, IInv, Typed
<1> HIDE DEF left
<1> QED BY <1>4, <1>5, <1>6, MovesOn

LEMMA ApplyInv ==
  ASSUME IInv, NEW s \in Syncs, NEW p \in Profiles, ApplyDirectoryPerson(s, p)
  PROVE  IInv'
<1> DEFINE t == [sync[s] EXCEPT !.at = p,
                   !.pc = IF link[p] = 0 THEN "by_email" ELSE "update",
                   !.id = link[p],
                   !.seen = IF link[p] = 0 THEN Absent ELSE staff[link[p]]]
<1>1. sync[s] \in Memory /\ link[p] \in 0..Len(staff) /\ staff \in Seq(Rows)
  BY DEF IInv, Typed
<1>2. link[p] # 0 => staff[link[p]] \in Rows /\ link[p] \in Ids
  BY <1>1 DEF Ids
<1>3. /\ t \in Memory /\ t.pc \in {"by_email", "update"}
      /\ t.pc = "update" => t.id \in Ids
  <2>1. CASE link[p] = 0
    <3> DEFINE u == [sync[s] EXCEPT !.at = p, !.pc = "by_email", !.id = 0, !.seen = Absent]
    <3>1. t = u
      BY <2>1
    <3>2. u \in Memory /\ u.pc = "by_email"
      BY <1>1 DEF Memory
    <3> QED BY <3>1, <3>2
  <2>2. CASE link[p] # 0
    <3>1. staff[link[p]] \in Rows /\ link[p] \in Ids /\ link[p] \in Nat
      BY <1>1, <1>2, <2>2
    <3> DEFINE u == [sync[s] EXCEPT !.at = p, !.pc = "update", !.id = link[p],
                                    !.seen = staff[link[p]]]
    <3>2. t = u
      BY <2>2
    <3>3. u \in Memory /\ u.pc = "update" /\ u.id = link[p]
      BY <1>1, <3>1 DEF Memory
    <3> QED BY <3>1, <3>2, <3>3
  <2> QED BY <2>1, <2>2
<1>4. t.at = p /\ t.listed = sync[s].listed
  BY <1>1 DEF Memory
<1>5. /\ sync' = [sync EXCEPT ![s] = t] /\ sync[s].pc = "next"
      /\ p \in DOMAIN sync[s].listed
      /\ UNCHANGED <<dir, staff, logged, link, late>>
      /\ link' \in [Profiles -> 0..Len(staff)]
  BY DEF ApplyDirectoryPerson, world, table, IInv, Typed
<1> HIDE DEF t
<1> QED BY <1>3, <1>4, <1>5, MovesOn

LEMMA FindInv == ASSUME IInv, NEW s \in Syncs, FindByEmail(s) PROVE IInv'
<1>1. /\ sync[s] \in Memory /\ staff \in Seq(Rows)
      /\ sync[s].pc = "by_email" /\ sync[s].at \in DOMAIN sync[s].listed
      /\ UNCHANGED <<dir, staff, logged, link, late>>
      /\ link' \in [Profiles -> 0..Len(staff)]
  BY DEF FindByEmail, world, table, IInv, Typed, Held
<1>2. CASE sync' = [sync EXCEPT ![s].pc = "create"]
  <2> DEFINE t == [sync[s] EXCEPT !.pc = "create"]
  <2>1. t \in Memory /\ t.pc = "create" /\ t.at = sync[s].at /\ t.listed = sync[s].listed
    BY <1>1 DEF Memory
  <2>2. sync' = [sync EXCEPT ![s] = t]
    BY <1>2
  <2> HIDE DEF t
  <2> QED BY <1>1, <2>1, <2>2, MovesOn
<1>3. ASSUME NEW id \in HolderOf(Mapped(s).email),
             sync' = [sync EXCEPT ![s].pc = "link", ![s].id = id, ![s].seen = staff[id]]
      PROVE  IInv'
  <2> DEFINE t == [sync[s] EXCEPT !.pc = "link", !.id = id, !.seen = staff[id]]
  <2>1. id \in Ids /\ id \in Nat /\ staff[id] \in Rows
    BY <1>1 DEF HolderOf, Ids
  <2>2. /\ t \in Memory /\ t.pc = "link" /\ t.at = sync[s].at
        /\ t.listed = sync[s].listed /\ t.id \in Ids
    BY <1>1, <2>1 DEF Memory
  <2>3. sync' = [sync EXCEPT ![s] = t]
    BY <1>3
  <2> HIDE DEF t
  <2> QED BY <1>1, <2>2, <2>3, MovesOn
<1> QED BY <1>2, <1>3 DEF FindByEmail

LEMMA LinkInv == ASSUME IInv, NEW s \in Syncs, Link(s) PROVE IInv'
<1>1. CASE sync' = [sync EXCEPT ![s] = Over(@)] /\ UNCHANGED link
  BY <1>1, TurnEnds DEF Link, world
<1>2. CASE /\ link' = [link EXCEPT ![sync[s].at] = sync[s].id]
           /\ sync' = [sync EXCEPT ![s].pc = "update"]
  <2> DEFINE t == [sync[s] EXCEPT !.pc = "update"]
  <2>1. /\ sync[s] \in Memory /\ sync[s].pc = "link" /\ sync[s].id \in Ids
        /\ sync[s].at \in DOMAIN sync[s].listed
        /\ UNCHANGED <<dir, staff, logged, late>>
    BY DEF Link, world, IInv, Typed, Held
  <2>2. /\ t \in Memory /\ t.pc = "update" /\ t.at = sync[s].at
        /\ t.listed = sync[s].listed /\ t.id \in Ids
    BY <2>1 DEF Memory
  <2>3. sync' = [sync EXCEPT ![s] = t]
    BY <1>2
  <2>4. link' \in [Profiles -> 0..Len(staff)]
    <3>1. link \in [Profiles -> 0..Len(staff)] /\ staff \in Seq(Rows)
      BY DEF IInv, Typed
    <3>2. sync[s].id \in 0..Len(staff)
      BY <2>1, <3>1 DEF Ids
    <3> QED BY <1>2, <3>1, <3>2
  <2> HIDE DEF t
  <2> QED BY <2>1, <2>2, <2>3, <2>4, MovesOn
<1> QED BY <1>1, <1>2 DEF Link

LEMMA UpdateInv == ASSUME IInv, NEW s \in Syncs, UpdateStaff(s) PROVE IInv'
<1> DEFINE id == sync[s].id
           cols == Changed(s)
           new == Mapped(s)
<1>1. /\ sync[s].pc = "update" /\ UNCHANGED <<dir, link>>
      /\ sync' = [sync EXCEPT ![s] = Over(@)]
  BY DEF UpdateStaff, world
<1>2. CASE UNCHANGED <<staff, logged, late>>
  BY <1>1, <1>2, TurnEnds
<1>3. CASE /\ staff' = [staff EXCEPT ![id] = Overlay(@, cols, new)]
           /\ logged' = [logged EXCEPT ![id] = Overlay(@, cols, new)]
           /\ late' = IF cols # {} /\ id \in Unlogged THEN late \union {id} ELSE late
  <2>1. id \in Ids /\ new \in Rows /\ cols \in SUBSET Columns
    BY <1>1, MappedIsRow DEF IInv, Held, Changed
  <2>2. staff[id] \in Rows /\ logged[id] \in Rows
    BY <2>1 DEF IInv, Typed, Ids
  <2> DEFINE row == Overlay(staff[id], cols, new)
             entry == Overlay(logged[id], cols, new)
  <2>3. row \in Rows /\ entry \in Rows
    BY <2>1, <2>2, OverlayIsRow
  <2>4. logged[id] = staff[id] => entry = row
    OBVIOUS
  <2>5. row # staff[id] => cols # {}
    BY <2>2, OverlayOfNothing
  <2>6. /\ staff' = [staff EXCEPT ![id] = row] /\ logged' = [logged EXCEPT ![id] = entry]
        /\ late \subseteq late' /\ (row # staff[id] /\ id \in Unlogged => id \in late')
    BY <1>3, <2>5
  <2>7. Over(sync[s]) \in Memory /\ Over(sync[s]).pc \in {"idle", "next"}
    BY OverIsMemory DEF IInv, Typed
  <2>8. /\ sync' \in [Syncs -> Memory]
        /\ \A u \in Syncs :
               sync'[u] = sync[u] \/ (sync[u].pc # "log" /\ sync'[u].pc \in {"idle", "next"})
    <3> DEFINE t == Over(sync[s])
    <3>1. sync' = [sync EXCEPT ![s] = t] /\ sync \in [Syncs -> Memory]
      BY <1>1 DEF IInv, Typed
    <3>2. t \in Memory /\ t.pc \in {"idle", "next"}
      BY <2>7
    <3> HIDE DEF t
    <3> QED BY <1>1, <3>1, <3>2
  <2>9. dir' \in [Profiles -> Entry \union {Absent}]
    BY <1>1 DEF IInv, Typed
  <2> HIDE DEF id, cols, new, row, entry
  <2> QED BY <1>1, <2>1, <2>3, <2>4, <2>6, <2>8, <2>9, BothWritten
<1> QED BY <1>2, <1>3 DEF UpdateStaff

LEMMA SetStatusInv ==
  ASSUME IInv, NEW id \in Ids, NEW st \in {"active", "on_leave"}, SetStatus(id, st)
  PROVE  IInv'
<1> DEFINE row == [staff[id] EXCEPT !.status = st]
           entry == [logged[id] EXCEPT !.status = st]
<1>1. staff[id] \in Rows /\ logged[id] \in Rows
  BY DEF IInv, Typed, Ids
<1>2. row \in Rows /\ entry \in Rows
  BY <1>1 DEF Rows, Columns, Value
<1>3. /\ staff' = [staff EXCEPT ![id] = row] /\ logged' = [logged EXCEPT ![id] = entry]
      /\ late \subseteq late' /\ (id \in Unlogged => id \in late')
      /\ UNCHANGED <<dir, link, sync>>
  BY DEF SetStatus
<1>4. logged[id] = staff[id] => entry = row
  OBVIOUS
<1>5. /\ sync' \in [Syncs -> Memory] /\ dir' \in [Profiles -> Entry \union {Absent}]
      /\ \A u \in Syncs : sync'[u] = sync[u]
  BY <1>3 DEF IInv, Typed
<1> HIDE DEF row, entry
<1> QED BY <1>2, <1>3, <1>4, <1>5, BothWritten

(* The new row's entries are due, and what they will say is what it holds. *)
LEMMA CreateInv == ASSUME IInv, NEW s \in Syncs, CreateStaff(s) PROVE IInv'
<1>1. /\ sync[s].pc = "create" /\ UNCHANGED <<dir, late>>
      /\ sync[s].at \in DOMAIN sync[s].listed /\ sync[s] \in Memory
  BY DEF CreateStaff, world, IInv, Typed, Held
<1>2. CASE UNCHANGED <<staff, link, logged>> /\ sync' = [sync EXCEPT ![s] = Over(@)]
  BY <1>1, <1>2, TurnEnds
<1>3. CASE /\ staff' = Append(staff, Mapped(s))
           /\ logged' = Append(logged, [c \in Columns |-> None])
           /\ link' = [link EXCEPT ![sync[s].at] = Len(staff) + 1]
           /\ sync' = [sync EXCEPT ![s].pc = "log", ![s].id = Len(staff) + 1]
  <2> DEFINE n == Len(staff) + 1
             t == [sync[s] EXCEPT !.pc = "log", !.id = n]
             none == [c \in Columns |-> None]
  <2>1. staff \in Seq(Rows) /\ logged \in Seq(Rows) /\ Len(logged) = Len(staff) /\ n \in Nat
    BY DEF IInv, Typed
  <2>2. Mapped(s) \in Rows /\ none \in Rows
    BY <1>1, MappedIsRow DEF IInv, Rows, Value
  <2> HIDE DEF none
  <2>3. /\ staff' \in Seq(Rows) /\ logged' \in Seq(Rows)
        /\ Len(staff') = n /\ Len(logged') = n /\ Ids' = Ids \union {n}
        /\ n \notin Ids
        /\ \A j \in Ids : staff'[j] = staff[j] /\ logged'[j] = logged[j]
        /\ staff'[n] = Mapped(s)
    BY <1>3, <2>1, <2>2 DEF none, Ids
  <2>4. /\ t \in Memory /\ t.pc = "log" /\ t.id = n
        /\ t.at = sync[s].at /\ t.listed = sync[s].listed
    BY <1>1, <2>1 DEF Memory
  <2>5. sync' = [sync EXCEPT ![s] = t]
    BY <1>3
  <2> HIDE DEF t
  <2>6. sync' \in [Syncs -> Memory] /\ sync'[s] = t /\ \A u \in Syncs \ {s} : sync'[u] = sync[u]
    BY <2>4, <2>5 DEF IInv, Typed
  <2>7. link' \in [Profiles -> 0..n]
    <3>1. link \in [Profiles -> 0..Len(staff)]
      BY DEF IInv, Typed
    <3>2. n \in 0..n /\ 0..Len(staff) \subseteq 0..n
      BY <2>1
    <3> QED BY <1>3, <3>1, <3>2
  <2>8. Typed'
    BY <1>1, <2>3, <2>6, <2>7 DEF IInv, Typed
  <2>9. Mapped(s)' = Mapped(s) /\ \A u \in Syncs \ {s} : Mapped(u)' = Mapped(u)
    BY <2>4, <2>6 DEF Mapped
  <2>10. ASSUME NEW u \in Syncs PROVE Held(u)'
    <3>1. CASE u = s
      BY <1>1, <2>3, <2>4, <2>6, <2>9, <3>1 DEF Held
    <3>2. CASE u # s
      BY <1>1, <2>3, <2>6, <2>9, <3>2 DEF IInv, Held
    <3> QED BY <3>1, <3>2
  <2>11. Unlogged' = Unlogged \union {n}
    BY <1>1, <2>4, <2>6 DEF Unlogged
  <2>12. LogTellsStaff'
    BY <1>1, <2>3, <2>11 DEF IInv, LogTellsStaff
  <2> QED BY <2>8, <2>10, <2>12 DEF IInv
<1> QED BY <1>2, <1>3 DEF CreateStaff

LEMMA LogCreatedInv == ASSUME IInv, NEW s \in Syncs, LogCreated(s) PROVE IInv'
<1> DEFINE id == sync[s].id
           t == Over(sync[s])
<1>1. /\ sync[s].pc = "log" /\ id \in Ids /\ sync[s].at \in DOMAIN sync[s].listed
      /\ id \in late \/ staff[id] = Mapped(s)
      /\ UNCHANGED <<dir, staff, link, late>>
      /\ logged' = [logged EXCEPT ![id] = Mapped(s)]
      /\ sync' = [sync EXCEPT ![s] = t]
  BY DEF LogCreated, world, IInv, Held
<1>2. t \in Memory /\ t.pc \in {"idle", "next"}
  BY OverIsMemory DEF IInv, Typed
<1> HIDE DEF t
<1>3. sync' \in [Syncs -> Memory] /\ sync'[s] = t /\ \A u \in Syncs \ {s} : sync'[u] = sync[u]
  BY <1>1, <1>2 DEF IInv, Typed
<1>4. Mapped(s) \in Rows
  BY <1>1, MappedIsRow DEF IInv
<1>5. Typed'
  BY <1>1, <1>3, <1>4 DEF IInv, Typed, Ids
<1>6. ASSUME NEW u \in Syncs PROVE Held(u)'
  <2>1. CASE u = s
    BY <1>2, <1>3, <2>1 DEF Held
  <2>2. CASE u # s
    BY <1>1, <1>3, <2>2 DEF IInv, Held, Mapped, Ids
  <2> QED BY <2>1, <2>2
<1>7. Unlogged \subseteq Unlogged' \union {id}
  BY <1>1, <1>3 DEF Unlogged
<1>8. ASSUME NEW j \in Ids, j \notin late' \union Unlogged'
      PROVE  logged'[j] = staff'[j]
  <2>1. CASE j = id
    BY <1>1, <1>8, <2>1 DEF IInv, Typed, Ids
  <2>2. CASE j # id
    BY <1>1, <1>7, <1>8, <2>2 DEF IInv, Typed, Ids, LogTellsStaff
  <2> QED BY <2>1, <2>2
<1>9. LogTellsStaff'
  BY <1>1, <1>8 DEF LogTellsStaff, Ids
<1> QED BY <1>5, <1>6, <1>9 DEF IInv

LEMMA NextInv == IInv /\ [Next]_vars => IInv'
<1> SUFFICES ASSUME IInv, [Next]_vars PROVE IInv'
  OBVIOUS
<1>1. ASSUME NEW s \in Syncs, RunDirectoryFullSync(s) PROVE IInv'
  BY <1>1, StartInv, ApplyInv, FindInv, LinkInv, UpdateInv, CreateInv, LogCreatedInv
     DEF RunDirectoryFullSync
<1>2. ASSUME NEW s \in Syncs, Crash(s) PROVE IInv'
  <2>1. /\ sync' = [sync EXCEPT ![s] = Idle] /\ Idle.pc = "idle"
        /\ UNCHANGED <<dir, staff, logged, link>>
        /\ late \subseteq late' /\ (sync[s].pc = "log" => sync[s].id \in late')
    BY <1>2 DEF Crash, Forsaken, world, Idle
  <2>2. link' \in [Profiles -> 0..Len(staff)]
    BY <2>1 DEF IInv, Typed
  <2> QED BY <2>1, <2>2, MovesOn, IdleIsMemory
<1>3. ASSUME NEW s \in Syncs, PersonFails(s) PROVE IInv'
  BY <1>3, TurnEnds DEF PersonFails, Forsaken, world
<1>4. ASSUME NEW p \in Profiles, NEW entry \in Entry \union {Absent}, EditDirectory(p, entry)
      PROVE  IInv'
  <2>1. dir' \in [Profiles -> Entry \union {Absent}] /\ UNCHANGED <<staff, link, logged, late, sync>>
    BY <1>4 DEF EditDirectory, table, IInv, Typed
  <2> QED BY <2>1 DEF IInv, Typed, Held, LogTellsStaff, Mapped, Unlogged, Ids
<1>5. ASSUME NEW id \in Ids, NEW st \in {"active", "on_leave"}, SetStatus(id, st)
      PROVE  IInv'
  BY <1>5, SetStatusInv
<1>6. CASE UNCHANGED vars
  BY <1>6 DEF vars, world, table, IInv, Typed, Held, LogTellsStaff, Mapped, Unlogged, Ids
<1> QED BY <1>1, <1>2, <1>3, <1>4, <1>5, <1>6 DEF Next

(* The change log of staff is the history of the row, except for a row     *)
(* whose first entries were missed or overtaken: whatever the directory    *)
(* holds, however many syncs overlap, fail and die.                        *)
THEOREM LogTellsStaffAlways == Spec => []LogTellsStaff
<1>1. Init /\ [][Next]_vars => []IInv
  BY InitInv, NextInv, PTL
<1>2. IInv => LogTellsStaff
  BY DEF IInv
<1> QED BY <1>1, <1>2, PTL DEF Spec

-----------------------------------------------------------------------------
(* Whom a row stands for.  The profiles linked to a row, and those a sync  *)
(* is about to link to it, all stand on the same side as some profile that *)
(* has had the address the row now holds: a row is found by its address,   *)
(* and takes an address from a profile that touches it already.            *)

Busy == {"link", "update", "log"}

Touches(p, id) ==
  \/ link[p] = id
  \/ \E s \in Syncs : sync[s].pc \in Busy /\ sync[s].id = id /\ sync[s].at = p

Owned(L) == \A p \in DOMAIN L : L[p].email \in Emails /\ p \in owners[L[p].email]

Sided(S, id, p) == \E w \in owners[staff[id].email] : w \in S <=> p \in S

OwnInv ==
  /\ owners \in [Emails -> SUBSET Profiles]
  /\ \A p \in Profiles : dir[p].email # None => p \in owners[dir[p].email]
  /\ \A s \in Syncs : Owned(sync[s].listed)
  /\ \A id \in Ids : staff[id].email \in Emails

SideInv == \A S \in SUBSET Profiles : Apart(S) =>
  \A id \in Ids, p \in Profiles : Touches(p, id) => Sided(S, id, p)

KInv == IInv /\ OwnInv /\ SideInv

(* A step that leaves the addresses of the rows, and brings no profile to  *)
(* a row but one that has had the address of it.                           *)
LEMMA SidesStay ==
  ASSUME KInv, OwnInv', Ids \subseteq Ids',
         \A e \in Emails : owners[e] \subseteq owners'[e],
         \A id \in Ids : staff'[id].email = staff[id].email,
         \A id \in Ids', p \in Profiles : Touches(p, id)' =>
            \/ id \in Ids /\ Touches(p, id)
            \/ p \in owners'[staff'[id].email]
  PROVE  SideInv'
<1> SUFFICES ASSUME NEW S \in SUBSET Profiles, Apart(S)',
                    NEW id \in Ids', NEW p \in Profiles, Touches(p, id)'
             PROVE  Sided(S, id, p)'
  BY DEF SideInv
<1>1. CASE p \in owners'[staff'[id].email]
  BY <1>1 DEF Sided
<1>2. CASE id \in Ids /\ Touches(p, id)
  <2>1. Apart(S)
    <3>1. SUFFICES ASSUME NEW e \in Emails PROVE owners[e] \cap S = {} \/ owners[e] \subseteq S
      BY DEF Apart
    <3>2. owners'[e] \cap S = {} \/ owners'[e] \subseteq S
      BY DEF Apart
    <3> QED BY <3>2
  <2>2. PICK w \in owners[staff[id].email] : w \in S <=> p \in S
    BY <1>2, <2>1 DEF KInv, SideInv, Sided
  <2>3. staff[id].email \in Emails /\ staff'[id].email = staff[id].email
    BY <1>2 DEF KInv, OwnInv
  <2>4. w \in owners'[staff'[id].email]
    BY <2>2, <2>3
  <2> QED BY <2>2, <2>4 DEF Sided
<1> QED BY <1>1, <1>2

(* A step of one sync that writes no staff row. *)
LEMMA StepSides ==
  ASSUME KInv, NEW s \in Syncs, NEW t \in Memory, sync' = [sync EXCEPT ![s] = t],
         UNCHANGED <<dir, staff, owners>>, Owned(t.listed),
         t.pc \in Busy => Touches(t.at, t.id) \/ t.at \in owners[staff[t.id].email],
         \A p \in Profiles : link'[p] = link[p] \/ Touches(p, link'[p])
  PROVE  OwnInv' /\ SideInv'
<1>1. sync'[s] = t /\ \A u \in Syncs \ {s} : sync'[u] = sync[u]
  BY DEF KInv, IInv, Typed
<1>2. \A u \in Syncs : Owned(sync'[u].listed)
  BY <1>1 DEF KInv, OwnInv
<1>3. OwnInv'
  BY <1>2 DEF KInv, OwnInv, Owned, Ids
<1>4. ASSUME NEW id \in Ids', NEW p \in Profiles, Touches(p, id)'
      PROVE  (id \in Ids /\ Touches(p, id)) \/ p \in owners'[staff'[id].email]
  <2>1. id \in Ids
    BY DEF Ids
  <2>2. CASE link'[p] = id
    BY <2>1, <2>2 DEF Touches
  <2>3. ASSUME NEW u \in Syncs, sync'[u].pc \in Busy, sync'[u].id = id, sync'[u].at = p
        PROVE  Touches(p, id) \/ p \in owners'[staff'[id].email]
    BY <1>1, <2>3 DEF Touches
  <2> QED BY <1>4, <2>1, <2>2, <2>3 DEF Touches
<1>5. Ids' = Ids
  BY DEF Ids
<1> QED BY <1>3, <1>4, <1>5, SidesStay

LEMMA RestOwned ==
  ASSUME NEW L, NEW left \in SUBSET DOMAIN L,
         \A p \in left : L[p].email \in Emails /\ p \in owners[L[p].email]
  PROVE  Owned(GoOn(left, L).listed)
<1>1. CASE left = {}
  <2>1. GoOn(left, L).listed = <<>> /\ DOMAIN <<>> = {}
    BY <1>1 DEF GoOn, Idle
  <2> QED BY <2>1 DEF Owned
<1>2. CASE left # {}
  <2>1. GoOn(left, L).listed = [p \in left |-> L[p]]
    BY <1>2 DEF GoOn, Idle
  <2> QED BY <2>1 DEF Owned
<1> QED BY <1>1, <1>2

(* Every step that ends a person's turn without writing. *)
LEMMA TurnEndsSides ==
  ASSUME KInv, NEW s \in Syncs, sync' = [sync EXCEPT ![s] = Over(@)],
         UNCHANGED <<dir, staff, owners, link>>
  PROVE  OwnInv' /\ SideInv'
<1> DEFINE t == Over(sync[s])
<1>1. t \in Memory /\ t.pc \notin Busy
  BY OverIsMemory DEF KInv, IInv, Typed, Busy
<1>2. Owned(t.listed)
  <2>1. Owned(sync[s].listed)
    BY DEF KInv, OwnInv
  <2> QED BY <2>1, RestOwned DEF Over, Owned
<1>3. sync' = [sync EXCEPT ![s] = t]
  OBVIOUS
<1> HIDE DEF t
<1> QED BY <1>1, <1>2, <1>3, StepSides

LEMMA StartSides == ASSUME KInv, NEW s \in Syncs, StartSync(s) PROVE OwnInv' /\ SideInv'
<1> DEFINE listed == FetchAllDirectoryPeople
<1>1. PICK first \in Answers(listed), second \in Answers(listed) :
        LET kind == ClassifyEntries(listed, first, second)
        IN  sync' = [sync EXCEPT ![s] = GoOn({p \in DOMAIN kind : kind[p] = "person"}, listed)]
  BY DEF StartSync
<1> DEFINE kind == ClassifyEntries(listed, first, second)
           left == {p \in DOMAIN kind : kind[p] = "person"}
<1>2. left \in SUBSET DOMAIN listed
  BY DEF ClassifyEntries
<1>3. listed \in Lists
  <2>1. listed \in [{q \in Profiles : dir[q] # Absent} -> Entry \union {Absent}]
    BY DEF FetchAllDirectoryPeople, KInv, IInv, Typed
  <2> QED BY <2>1 DEF Lists
<1>4. ASSUME NEW p \in left
      PROVE  listed[p].email \in Emails /\ p \in owners[listed[p].email]
  <2>1. p \in Profiles /\ listed[p] = dir[p] /\ dir[p] \in Entry \union {Absent}
    BY <1>2, <1>4 DEF FetchAllDirectoryPeople, KInv, IInv, Typed
  <2>2. ~HardFiltered(listed[p])
    <3> HIDE DEF listed
    <3>1. kind[p] = "person" /\ p \in DOMAIN listed
      BY <1>2, <1>4
    <3> QED BY <3>1, DirectoryAssumption DEF ClassifyEntries, FindSyncRule
  <2>3. dir[p].email \in Emails
    BY <2>1, <2>2 DEF HardFiltered, Entry, Absent
  <2> QED BY <2>1, <2>3, DirectoryAssumption DEF KInv, OwnInv
<1> HIDE DEF listed, left
<1>5. GoOn(left, listed) \in Memory /\ GoOn(left, listed).pc \notin Busy
  BY <1>2, <1>3, GoOnIsMemory DEF Busy
<1>6. Owned(GoOn(left, listed).listed)
  BY <1>2, <1>4, RestOwned
<1>7. sync' = [sync EXCEPT ![s] = GoOn(left, listed)]
  BY <1>1 DEF left
<1>8. UNCHANGED <<dir, staff, owners, link>>
  BY DEF StartSync, world, table
<1> QED BY <1>5, <1>6, <1>7, <1>8, StepSides

LEMMA ApplySides ==
  ASSUME KInv, NEW s \in Syncs, NEW p \in Profiles, ApplyDirectoryPerson(s, p), IInv'
  PROVE  OwnInv' /\ SideInv'
<1> DEFINE t == [sync[s] EXCEPT !.at = p,
                   !.pc = IF link[p] = 0 THEN "by_email" ELSE "update",
                   !.id = link[p],
                   !.seen = IF link[p] = 0 THEN Absent ELSE staff[link[p]]]
<1>1. sync[s] \in Memory /\ sync \in [Syncs -> Memory] /\ Owned(sync[s].listed)
  BY DEF KInv, IInv, Typed, OwnInv
<1>2. sync' = [sync EXCEPT ![s] = t] /\ UNCHANGED <<dir, staff, owners, link>>
  BY DEF ApplyDirectoryPerson, world, table
<1>3. /\ t.listed = sync[s].listed /\ t.at = p /\ t.id = link[p]
      /\ t.pc \in Busy => Touches(t.at, t.id)
  BY <1>1 DEF Memory, Touches
<1> HIDE DEF t
<1>4. sync'[s] = t
  BY <1>1, <1>2
<1>5. t \in Memory
  BY <1>4 DEF IInv, Typed
<1> QED BY <1>1, <1>2, <1>3, <1>5, StepSides

LEMMA FindSides ==
  ASSUME KInv, NEW s \in Syncs, FindByEmail(s), IInv'
  PROVE  OwnInv' /\ SideInv'
<1>1. /\ sync[s] \in Memory /\ sync \in [Syncs -> Memory] /\ Owned(sync[s].listed)
      /\ sync[s].at \in DOMAIN sync[s].listed /\ sync' \in [Syncs -> Memory]
      /\ UNCHANGED <<dir, staff, owners, link>>
  BY DEF FindByEmail, KInv, IInv, Typed, OwnInv, Held, world, table
<1>2. CASE sync' = [sync EXCEPT ![s].pc = "create"]
  <2> DEFINE t == [sync[s] EXCEPT !.pc = "create"]
  <2>1. t.listed = sync[s].listed /\ t.pc \notin Busy
    BY <1>1 DEF Memory, Busy
  <2>2. sync' = [sync EXCEPT ![s] = t]
    BY <1>2
  <2> HIDE DEF t
  <2>3. t \in Memory
    BY <1>1, <2>2
  <2> QED BY <1>1, <2>1, <2>2, <2>3, StepSides
<1>3. ASSUME NEW id \in HolderOf(Mapped(s).email),
             sync' = [sync EXCEPT ![s].pc = "link", ![s].id = id, ![s].seen = staff[id]]
      PROVE  OwnInv' /\ SideInv'
  <2> DEFINE t == [sync[s] EXCEPT !.pc = "link", !.id = id, !.seen = staff[id]]
  <2>1. t.listed = sync[s].listed /\ t.at = sync[s].at /\ t.id = id
    BY <1>1 DEF Memory
  <2>2. sync' = [sync EXCEPT ![s] = t]
    BY <1>3
  <2>3. staff[id].email = sync[s].listed[sync[s].at].email
    BY DEF HolderOf, Mapped, MapDirectoryPerson
  <2>4. t.at \in owners[staff[t.id].email]
    BY <1>1, <2>1, <2>3 DEF Owned
  <2> HIDE DEF t
  <2>5. t \in Memory
    BY <1>1, <2>2
  <2> QED BY <1>1, <2>1, <2>2, <2>4, <2>5, StepSides
<1> QED BY <1>2, <1>3 DEF FindByEmail

LEMMA LinkSides ==
  ASSUME KInv, NEW s \in Syncs, Link(s), IInv'
  PROVE  OwnInv' /\ SideInv'
<1>1. CASE sync' = [sync EXCEPT ![s] = Over(@)] /\ UNCHANGED link
  BY <1>1, TurnEndsSides DEF Link, world
<1>2. CASE /\ link' = [link EXCEPT ![sync[s].at] = sync[s].id]
           /\ sync' = [sync EXCEPT ![s].pc = "update"]
  <2> DEFINE t == [sync[s] EXCEPT !.pc = "update"]
  <2>1. /\ sync[s] \in Memory /\ sync \in [Syncs -> Memory] /\ sync' \in [Syncs -> Memory]
        /\ sync[s].pc = "link" /\ Owned(sync[s].listed)
        /\ link \in [Profiles -> 0..Len(staff)]
        /\ UNCHANGED <<dir, staff, owners>>
    BY DEF Link, world, KInv, OwnInv, IInv, Typed
  <2>2. Touches(sync[s].at, sync[s].id)
    BY <2>1 DEF Touches, Busy
  <2>3. t.at = sync[s].at /\ t.listed = sync[s].listed /\ t.id = sync[s].id
    BY <2>1 DEF Memory
  <2>4. sync' = [sync EXCEPT ![s] = t]
    BY <1>2
  <2>5. \A p \in Profiles : link'[p] = link[p] \/ Touches(p, link'[p])
    <3> SUFFICES ASSUME NEW p \in Profiles, link'[p] # link[p] PROVE Touches(p, link'[p])
      OBVIOUS
    <3>1. p = sync[s].at /\ link'[p] = sync[s].id
      BY <1>2, <2>1
    <3> QED BY <2>2, <3>1
  <2> HIDE DEF t
  <2>6. t \in Memory
    BY <2>1, <2>4
  <2> QED BY <2>1, <2>2, <2>3, <2>4, <2>5, <2>6, StepSides
<1> QED BY <1>1, <1>2 DEF Link

LEMMA LogCreatedSides ==
  ASSUME KInv, NEW s \in Syncs, LogCreated(s)
  PROVE  OwnInv' /\ SideInv'
BY TurnEndsSides DEF LogCreated, world

(* The row is of no profile but the one that is made a member of staff.    *)
LEMMA CreateSides ==
  ASSUME KInv, NEW s \in Syncs, CreateStaff(s), IInv'
  PROVE  OwnInv' /\ SideInv'
<1>1. CASE UNCHANGED <<staff, link, logged>> /\ sync' = [sync EXCEPT ![s] = Over(@)]
  BY <1>1, TurnEndsSides DEF CreateStaff, world
<1>2. CASE /\ staff' = Append(staff, Mapped(s))
           /\ link' = [link EXCEPT ![sync[s].at] = Len(staff) + 1]
           /\ sync' = [sync EXCEPT ![s].pc = "log", ![s].id = Len(staff) + 1]
  <2> DEFINE n == Len(staff) + 1
             q == sync[s].at
             e == sync[s].listed[q].email
             t == [sync[s] EXCEPT !.pc = "log", !.id = n]
  <2>1. /\ sync[s] \in Memory /\ sync \in [Syncs -> Memory] /\ sync[s].pc = "create"
        /\ q \in DOMAIN sync[s].listed /\ staff \in Seq(Rows) /\ n \in Nat
        /\ link \in [Profiles -> 0..Len(staff)]
        /\ UNCHANGED <<dir, owners>>
    BY DEF CreateStaff, world, KInv, IInv, Typed, Held
  <2>2. e \in Emails /\ q \in owners[e]
    BY <2>1 DEF KInv, OwnInv, Owned
  <2>3. Mapped(s) \in Rows /\ Mapped(s).email = e
    BY <2>1, MappedIsRow DEF KInv, IInv, Mapped, MapDirectoryPerson
  <2>4. /\ Ids' = Ids \union {n} /\ n \notin Ids
        /\ \A id \in Ids : staff'[id] = staff[id]
        /\ staff'[n] = Mapped(s)
    <3> HIDE DEF e, q
    <3> QED BY <1>2, <2>1, <2>3 DEF Ids
  <2>5. t.at = q /\ t.listed = sync[s].listed /\ t.id = n
    BY <2>1 DEF Memory
  <2>6. sync' = [sync EXCEPT ![s] = t]
    BY <1>2
  <2> HIDE DEF t
  <2>7. sync'[s] = t /\ \A u \in Syncs \ {s} : sync'[u] = sync[u]
    BY <2>1, <2>6
  <2>8. OwnInv'
    <3>1. \A u \in Syncs : Owned(sync'[u].listed)
      BY <2>5, <2>7 DEF KInv, OwnInv
    <3>2. \A id \in Ids' : staff'[id].email \in Emails
      BY <2>2, <2>3, <2>4 DEF KInv, OwnInv
    <3> QED BY <2>1, <3>1, <3>2 DEF KInv, OwnInv, Owned
  <2>9. ASSUME NEW id \in Ids', NEW p \in Profiles, Touches(p, id)'
        PROVE  (id \in Ids /\ Touches(p, id)) \/ p \in owners'[staff'[id].email]
    <3>1. CASE p = q /\ id = n
      BY <2>1, <2>2, <2>3, <2>4, <3>1
    <3>2. CASE link'[p] = id /\ ~(p = q /\ id = n)
      <4>1. link[p] = id
        <5>1. link'[p] = IF p = q THEN n ELSE link[p]
          BY <1>2, <2>1
        <5> QED BY <3>2, <5>1
      <4>2. id # n
        BY <2>1, <4>1
      <4> QED BY <2>4, <4>1, <4>2 DEF Touches
    <3>3. ASSUME NEW u \in Syncs, sync'[u].pc \in Busy, sync'[u].id = id, sync'[u].at = p,
                 ~(p = q /\ id = n)
          PROVE  id \in Ids /\ Touches(p, id)
      <4>1. u # s
        BY <2>5, <2>7, <3>3
      <4>2. sync[u].pc \in Busy /\ sync[u].id = id /\ sync[u].at = p
        BY <2>7, <3>3, <4>1
      <4> QED BY <4>2 DEF Touches, KInv, IInv, Held, Busy
    <3> QED BY <2>9, <3>1, <3>2, <3>3 DEF Touches
  <2>10. \A id \in Ids : staff'[id].email = staff[id].email
    BY <2>4
  <2>11. Ids \subseteq Ids' /\ \A x \in Emails : owners[x] \subseteq owners'[x]
    BY <2>1, <2>4
  <2> HIDE DEF n, q, e
  <2> QED BY <2>8, <2>9, <2>10, <2>11, SidesStay
<1> QED BY <1>1, <1>2 DEF CreateStaff

(* A row takes the address of a profile that touches it, which now stands  *)
(* for all the others that do.                                             *)
LEMMA UpdateSides ==
  ASSUME KInv, NEW s \in Syncs, UpdateStaff(s), IInv'
  PROVE  OwnInv' /\ SideInv'
<1> DEFINE id == sync[s].id
           cols == Changed(s)
           new == Mapped(s)
           q == sync[s].at
<1>1. CASE UNCHANGED <<staff, logged, late>> /\ sync' = [sync EXCEPT ![s] = Over(@)]
  BY <1>1, TurnEndsSides DEF UpdateStaff, world
<1>2. CASE /\ staff' = [staff EXCEPT ![id] = Overlay(@, cols, new)]
           /\ sync' = [sync EXCEPT ![s] = Over(@)]
  <2>1. /\ sync[s].pc = "update" /\ UNCHANGED <<dir, owners, link>>
        /\ id \in Ids /\ q \in DOMAIN sync[s].listed /\ q \in Profiles
        /\ staff \in Seq(Rows) /\ sync \in [Syncs -> Memory]
    <3>1. /\ sync[s].pc = "update" /\ UNCHANGED <<dir, owners, link>>
          /\ id \in Ids /\ q \in DOMAIN sync[s].listed
          /\ staff \in Seq(Rows) /\ sync \in [Syncs -> Memory]
      BY DEF UpdateStaff, world, KInv, IInv, Typed, Held
    <3>2. sync[s].listed \in Lists
      BY <3>1 DEF Memory
    <3> QED BY <3>1, <3>2 DEF Lists
  <2>2. q \in owners[new.email] /\ new.email \in Emails
    BY <2>1 DEF KInv, OwnInv, Owned, Mapped, MapDirectoryPerson
  <2>3. Touches(q, id)
    BY <2>1 DEF Touches, Busy
  <2>4. /\ Ids' = Ids /\ \A j \in Ids \ {id} : staff'[j] = staff[j]
        /\ staff'[id].email = IF "email" \in cols THEN new.email ELSE staff[id].email
    <3> HIDE DEF cols, new, q
    <3>1. staff'[id] = Overlay(staff[id], cols, new)
      BY <1>2, <2>1 DEF Ids
    <3>2. Ids' = Ids /\ \A j \in Ids \ {id} : staff'[j] = staff[j]
      BY <1>2, <2>1 DEF Ids
    <3> QED BY <3>1, <3>2 DEF Overlay, Columns
  <2> DEFINE t == Over(sync[s])
  <2>5. t \in Memory /\ t.pc \notin Busy
    BY OverIsMemory, <2>1 DEF Busy
  <2>6. Owned(t.listed)
    <3>1. Owned(sync[s].listed)
      BY DEF KInv, OwnInv
    <3> QED BY <3>1, RestOwned DEF Over, Owned
  <2>7. sync' = [sync EXCEPT ![s] = t]
    BY <1>2
  <2> HIDE DEF t
  <2>8. sync'[s] = t /\ \A u \in Syncs \ {s} : sync'[u] = sync[u]
    BY <2>1, <2>7
  <2> HIDE DEF id, cols, new, q
  <2>9. OwnInv'
    <3>1. \A u \in Syncs : Owned(sync'[u].listed)
      BY <2>6, <2>8 DEF KInv, OwnInv
    <3>2. \A j \in Ids' : staff'[j].email \in Emails
      BY <2>1, <2>2, <2>4 DEF KInv, OwnInv
    <3> QED BY <2>1, <3>1, <3>2 DEF KInv, OwnInv, Owned
  <2>10. ASSUME NEW j \in Ids, NEW p \in Profiles, Touches(p, j)'
         PROVE  Touches(p, j)
    BY <2>1, <2>5, <2>8, <2>10 DEF Touches
  <2>11. CASE "email" \notin cols
    <3>1. \A j \in Ids : staff'[j].email = staff[j].email
      BY <2>4, <2>11
    <3> QED BY <2>1, <2>4, <2>9, <2>10, <3>1, SidesStay
  <2>12. CASE "email" \in cols
    <3> SUFFICES ASSUME NEW S \in SUBSET Profiles, Apart(S)',
                        NEW j \in Ids, NEW p \in Profiles, Touches(p, j)'
                 PROVE  Sided(S, j, p)'
      BY <2>4, <2>9 DEF SideInv
    <3>1. Apart(S)
      BY <2>1 DEF Apart
    <3>2. PICK w \in owners[staff[j].email] : w \in S <=> p \in S
      BY <2>10, <3>1 DEF KInv, SideInv, Sided
    <3>3. CASE j # id
      BY <2>1, <2>4, <3>2, <3>3 DEF Sided
    <3>4. CASE j = id
      <4>1. PICK v \in owners[staff[id].email] : v \in S <=> q \in S
        BY <2>1, <2>3, <3>1 DEF KInv, SideInv, Sided
      <4>2. staff[id].email \in Emails
        BY <2>1 DEF KInv, OwnInv
      <4>3. v \in S <=> w \in S
        BY <3>1, <3>2, <3>4, <4>1, <4>2 DEF Apart
      <4>4. q \in owners'[staff'[id].email]
        BY <2>1, <2>2, <2>4, <2>12
      <4> QED BY <3>2, <3>4, <4>1, <4>3, <4>4 DEF Sided
    <3> QED BY <3>3, <3>4
  <2> QED BY <2>11, <2>12
<1> QED BY <1>1, <1>2 DEF UpdateStaff

LEMMA InitSides == Init => OwnInv /\ SideInv
<1> SUFFICES ASSUME Init PROVE OwnInv /\ SideInv
  OBVIOUS
<1>1. owners \in [Emails -> SUBSET Profiles] /\ owners = [e \in Emails |-> {p \in Profiles : dir[p].email = e}]
  BY DEF Init
<1>2. IInv
  BY InitInv
<1>3. ASSUME NEW p \in Profiles, dir[p].email # None PROVE p \in owners[dir[p].email]
  <2>1. dir[p] \in Entry \union {Absent}
    BY <1>2 DEF IInv, Typed
  <2>2. dir[p].email \in Emails
    BY <1>3, <2>1 DEF Entry, Absent
  <2> QED BY <1>1, <2>2
<1>4. ASSUME NEW s \in Syncs PROVE Owned(sync[s].listed) /\ sync[s].pc = "idle"
  <2>1. sync[s].listed = <<>> /\ sync[s].pc = "idle" /\ DOMAIN <<>> = {}
    BY DEF Init, Idle
  <2> QED BY <2>1 DEF Owned
<1>5. ASSUME NEW id \in Ids PROVE staff[id].email \in Emails /\ id # 0
  <2>1. PICK e \in Entered \union {None}, t \in Titles :
          staff = IF e = None THEN <<>>
                  ELSE <<[email |-> e, title |-> t, status |-> "on_leave"]>>
    BY DEF Init
  <2>2. CASE e = None
    BY <1>5, <2>1, <2>2 DEF Ids
  <2>3. CASE e # None
    <3> DEFINE row == [email |-> e, title |-> t, status |-> "on_leave"]
    <3>1. e \in Emails /\ row.email = e
      BY <2>3, DirectoryAssumption
    <3> HIDE DEF row
    <3>2. staff = <<row>>
      BY <2>1, <2>3 DEF row
    <3> QED BY <1>5, <3>1, <3>2 DEF Ids
  <2> QED BY <2>2, <2>3
<1>6. ASSUME NEW id \in Ids, NEW p \in Profiles PROVE ~Touches(p, id)
  <2>1. link[p] = 0
    BY DEF Init
  <2> QED BY <1>4, <1>5, <2>1 DEF Touches, Busy
<1> QED BY <1>1, <1>3, <1>4, <1>5, <1>6 DEF OwnInv, SideInv

(* An address is never taken from the profiles that have had it.           *)
LEMMA EditSides ==
  ASSUME KInv, NEW p \in Profiles, NEW entry \in Entry \union {Absent}, EditDirectory(p, entry)
  PROVE  OwnInv' /\ SideInv'
<1>1. /\ dir' = [dir EXCEPT ![p] = entry]
      /\ owners' = [e \in Emails |-> IF e = entry.email THEN owners[e] \union {p} ELSE owners[e]]
      /\ UNCHANGED <<staff, link, sync>> /\ dir \in [Profiles -> Entry \union {Absent}]
      /\ owners \in [Emails -> SUBSET Profiles]
  BY DEF EditDirectory, table, KInv, IInv, Typed, OwnInv
<1>2. owners' \in [Emails -> SUBSET Profiles] /\ \A e \in Emails : owners[e] \subseteq owners'[e]
  BY <1>1
<1>3. ASSUME NEW q \in Profiles, dir'[q].email # None PROVE q \in owners'[dir'[q].email]
  <2>1. CASE q = p
    <3>1. entry.email \in Emails /\ dir'[q] = entry
      BY <1>1, <1>3, <2>1 DEF Entry, Absent
    <3> QED BY <1>1, <2>1, <3>1
  <2>2. CASE q # p
    <3>1. dir'[q] = dir[q] /\ dir[q].email \in Emails
      BY <1>1, <1>3, <2>2 DEF Entry, Absent
    <3> QED BY <1>2, <1>3, <3>1 DEF KInv, OwnInv
  <2> QED BY <2>1, <2>2
<1>4. OwnInv'
  BY <1>1, <1>2, <1>3 DEF KInv, OwnInv, Owned, Ids
<1>5. Ids' = Ids
  BY <1>1 DEF Ids
<1>6. \A id \in Ids, q \in Profiles : Touches(q, id)' => Touches(q, id)
  BY <1>1 DEF Touches
<1> QED BY <1>1, <1>2, <1>4, <1>5, <1>6, SidesStay

LEMMA NextSides == KInv /\ [Next]_vars => KInv'
<1> SUFFICES ASSUME KInv, [Next]_vars PROVE OwnInv' /\ SideInv' /\ IInv'
  BY DEF KInv
<1>0. IInv'
  BY NextInv DEF KInv
<1>1. ASSUME NEW s \in Syncs, RunDirectoryFullSync(s) PROVE OwnInv' /\ SideInv'
  BY <1>0, <1>1, StartSides, ApplySides, FindSides, LinkSides, UpdateSides, CreateSides,
     LogCreatedSides DEF RunDirectoryFullSync
<1>2. ASSUME NEW s \in Syncs, Crash(s) PROVE OwnInv' /\ SideInv'
  <2>1. /\ sync' = [sync EXCEPT ![s] = Idle] /\ Idle.pc \notin Busy
        /\ UNCHANGED <<dir, staff, link, owners>>
    BY <1>2 DEF Crash, world, Idle, Busy
  <2>2. Owned(Idle.listed)
    <3>1. Idle.listed = <<>> /\ DOMAIN <<>> = {}
      BY DEF Idle
    <3> QED BY <3>1 DEF Owned
  <2> QED BY <2>1, <2>2, StepSides, IdleIsMemory
<1>3. ASSUME NEW s \in Syncs, PersonFails(s) PROVE OwnInv' /\ SideInv'
  BY <1>3, TurnEndsSides DEF PersonFails, world
<1>4. ASSUME NEW p \in Profiles, NEW entry \in Entry \union {Absent}, EditDirectory(p, entry)
      PROVE  OwnInv' /\ SideInv'
  BY <1>4, EditSides
<1>5. ASSUME NEW id \in Ids, NEW st \in {"active", "on_leave"}, SetStatus(id, st)
      PROVE  OwnInv' /\ SideInv'
  <2>1. /\ staff' = [staff EXCEPT ![id].status = st] /\ staff \in Seq(Rows)
        /\ UNCHANGED <<dir, owners, link, sync>>
    BY <1>5 DEF SetStatus, KInv, IInv, Typed
  <2>2. staff[id] \in Rows
    BY <2>1 DEF Ids
  <2>3. Ids' = Ids /\ \A j \in Ids : staff'[j].email = staff[j].email
    <3> DEFINE row == [staff[id] EXCEPT !.status = st]
    <3>1. staff' = [staff EXCEPT ![id] = row] /\ row.email = staff[id].email
      BY <2>1, <2>2 DEF Rows, Columns
    <3> HIDE DEF row
    <3> QED BY <2>1, <3>1 DEF Ids
  <2>4. OwnInv'
    BY <2>1, <2>3 DEF KInv, OwnInv, Owned
  <2>5. \A j \in Ids, q \in Profiles : Touches(q, j)' => Touches(q, j)
    BY <2>1 DEF Touches
  <2> QED BY <2>1, <2>3, <2>4, <2>5, SidesStay
<1>6. CASE UNCHANGED vars
  <2>1. UNCHANGED <<dir, owners, staff, link, sync>>
    BY <1>6 DEF vars, world, table
  <2>2. OwnInv' /\ Ids' = Ids
    BY <2>1 DEF KInv, OwnInv, Owned, Ids
  <2>3. \A j \in Ids, q \in Profiles : Touches(q, j)' => Touches(q, j)
    BY <2>1 DEF Touches
  <2> QED BY <1>0, <2>1, <2>2, <2>3, SidesStay
<1> QED BY <1>0, <1>1, <1>2, <1>3, <1>4, <1>5, <1>6 DEF Next

(* Two profiles are taken for one member of staff only if addresses were   *)
(* passed on between them, directly or through others, however syncs       *)
(* overlap and whatever each of them remembers of the directory.           *)
THEOREM SharedHolds == Spec => []SharedOnlyAfterReuse
<1>1. Init => KInv
  BY InitInv, InitSides DEF KInv
<1>2. KInv => SharedOnlyAfterReuse
  <2> SUFFICES ASSUME KInv, NEW S \in SUBSET Profiles, Apart(S), NEW p \in S,
                      NEW q \in Profiles \ S, link[p] # 0, link[p] = link[q]
               PROVE  FALSE
    BY DEF SharedOnlyAfterReuse
  <2> DEFINE id == link[p]
  <2>1. id \in Ids
    BY DEF KInv, IInv, Typed, Ids
  <2>2. Touches(p, id) /\ Touches(q, id)
    BY DEF Touches
  <2> HIDE DEF id
  <2>3. PICK v \in owners[staff[id].email] : v \in S
    BY <2>1, <2>2 DEF KInv, SideInv, Sided
  <2>4. PICK w \in owners[staff[id].email] : w \notin S
    BY <2>1, <2>2 DEF KInv, SideInv, Sided
  <2>5. staff[id].email \in Emails
    BY <2>1 DEF KInv, OwnInv
  <2> QED BY <2>3, <2>4, <2>5 DEF Apart
<1> QED BY <1>1, <1>2, NextSides, PTL DEF Spec

-----------------------------------------------------------------------------
(* The rows of staff.  That a row always has an address rests on Owned:    *)
(* nobody without one is ever on a list.                                   *)

RowsOK == staff \in Seq(Row)
IdsOK == \A s \in Syncs : sync[s].id \in Ids \union {0}
TInv == KInv /\ RowsOK /\ IdsOK

LEMMA MappedIsStaff ==
  ASSUME KInv, NEW s \in Syncs, sync[s].at \in DOMAIN sync[s].listed
  PROVE  Mapped(s) \in Row
<1> DEFINE entry == sync[s].listed[sync[s].at]
<1>1. sync[s].listed \in Lists
  BY DEF KInv, IInv, Typed, Memory
<1>2. PICK P \in SUBSET Profiles : sync[s].listed \in [P -> Entry \union {Absent}]
  BY <1>1 DEF Lists
<1>3. entry \in Entry \union {Absent}
  BY <1>2
<1>4. entry.email \in Emails
  BY DEF KInv, OwnInv, Owned
<1>5. entry \in Entry
  BY <1>3, <1>4, DirectoryAssumption DEF Absent
<1> HIDE DEF entry
<1>6. MapDirectoryPerson(entry) \in Row
  BY <1>4, <1>5 DEF Entry, MapDirectoryPerson, Row
<1> QED BY <1>6 DEF Mapped, entry

LEMMA OverlayIsStaff ==
  ASSUME NEW row \in Row, NEW new \in Row, NEW cols \in SUBSET Columns
  PROVE  Overlay(row, cols, new) \in Row
BY DEF Overlay, Row, Columns

LEMMA InitRows == Init => RowsOK /\ IdsOK
<1> SUFFICES ASSUME Init PROVE RowsOK /\ IdsOK
  OBVIOUS
<1>1. PICK e \in Entered \union {None}, t \in Titles :
        staff = IF e = None THEN <<>>
                ELSE <<[email |-> e, title |-> t, status |-> "on_leave"]>>
  BY DEF Init
<1>2. e # None => [email |-> e, title |-> t, status |-> "on_leave"] \in Row
  BY DirectoryAssumption DEF Row
<1>3. RowsOK
  BY <1>1, <1>2 DEF RowsOK
<1> QED BY <1>3 DEF Init, IdsOK, Idle

(* A step in which one sync moves to a memory whose row exists.            *)
LEMMA IdsStay ==
  ASSUME TInv, NEW s \in Syncs, NEW t, sync' = [sync EXCEPT ![s] = t],
         Ids \subseteq Ids', t.id \in Ids' \union {0}
  PROVE  IdsOK'
<1>1. sync' = [u \in Syncs |-> IF u = s THEN t ELSE sync[u]]
  BY DEF TInv, KInv, IInv, Typed
<1>2. ASSUME NEW u \in Syncs PROVE sync'[u].id \in Ids' \union {0}
  BY <1>1 DEF TInv, IdsOK
<1> QED BY <1>2 DEF IdsOK

LEMMA OverHasNoRow == ASSUME NEW t PROVE Over(t).id = 0
BY DEF Over, GoOn, Idle

LEMMA NextRows == TInv /\ [Next]_vars => RowsOK' /\ IdsOK'
<1> SUFFICES ASSUME TInv, [Next]_vars PROVE RowsOK' /\ IdsOK'
  OBVIOUS
<1> USE DEF world, table
<1>0. /\ KInv /\ staff \in Seq(Row) /\ sync \in [Syncs -> Memory]
      /\ link \in [Profiles -> 0..Len(staff)] /\ Ids = 1..Len(staff)
      /\ \A s \in Syncs : Held(s)
  BY DEF TInv, RowsOK, KInv, IInv, Typed, Ids
<1>1. ASSUME NEW s \in Syncs, UNCHANGED staff,
             sync' = [sync EXCEPT ![s] = Over(@)] \/ sync' = [sync EXCEPT ![s] = Idle]
      PROVE  RowsOK' /\ IdsOK'
  <2>1. PICK t : sync' = [sync EXCEPT ![s] = t] /\ t.id = 0
    BY <1>1, OverHasNoRow DEF Idle
  <2> QED BY <1>0, <1>1, <2>1, IdsStay DEF RowsOK, Ids
<1>2. ASSUME NEW s \in Syncs, StartSync(s) PROVE RowsOK' /\ IdsOK'
  <2>1. PICK left, listed : sync' = [sync EXCEPT ![s] = GoOn(left, listed)]
    BY <1>2 DEF StartSync
  <2>2. GoOn(left, listed).id = 0
    BY DEF GoOn, Idle
  <2>3. UNCHANGED staff
    BY <1>2 DEF StartSync
  <2> QED BY <1>0, <2>1, <2>2, <2>3, IdsStay DEF RowsOK, Ids
<1>3. ASSUME NEW s \in Syncs, NEW p \in Profiles, ApplyDirectoryPerson(s, p)
      PROVE  RowsOK' /\ IdsOK'
  <2> DEFINE t == [sync[s] EXCEPT !.at = p,
                     !.pc = IF link[p] = 0 THEN "by_email" ELSE "update",
                     !.id = link[p],
                     !.seen = IF link[p] = 0 THEN Absent ELSE staff[link[p]]]
  <2>1. sync' = [sync EXCEPT ![s] = t] /\ UNCHANGED staff
    BY <1>3 DEF ApplyDirectoryPerson
  <2>2. t.id = link[p] /\ link[p] \in Ids \union {0}
    BY <1>0 DEF Memory
  <2> HIDE DEF t
  <2> QED BY <1>0, <2>1, <2>2, IdsStay DEF RowsOK, Ids
<1>4. ASSUME NEW s \in Syncs, FindByEmail(s) PROVE RowsOK' /\ IdsOK'
  <2>1. UNCHANGED staff
    BY <1>4 DEF FindByEmail
  <2>2. CASE sync' = [sync EXCEPT ![s].pc = "create"]
    <3> DEFINE t == [sync[s] EXCEPT !.pc = "create"]
    <3>1. sync' = [sync EXCEPT ![s] = t] /\ t.id = sync[s].id
      BY <1>0, <2>2 DEF Memory
    <3> HIDE DEF t
    <3> QED BY <1>0, <2>1, <3>1, IdsStay DEF RowsOK, Ids, TInv, IdsOK
  <2>3. ASSUME NEW id \in HolderOf(Mapped(s).email),
               sync' = [sync EXCEPT ![s].pc = "link", ![s].id = id, ![s].seen = staff[id]]
        PROVE  RowsOK' /\ IdsOK'
    <3> DEFINE t == [sync[s] EXCEPT !.pc = "link", !.id = id, !.seen = staff[id]]
    <3>1. sync' = [sync EXCEPT ![s] = t] /\ t.id = id /\ id \in Ids
      BY <1>0, <2>3 DEF Memory, HolderOf
    <3> HIDE DEF t
    <3> QED BY <1>0, <2>1, <3>1, IdsStay DEF RowsOK, Ids
  <2> QED BY <1>4, <2>2, <2>3 DEF FindByEmail
<1>5. ASSUME NEW s \in Syncs, Link(s) PROVE RowsOK' /\ IdsOK'
  <2>1. CASE sync' = [sync EXCEPT ![s].pc = "update"]
    <3> DEFINE t == [sync[s] EXCEPT !.pc = "update"]
    <3>1. sync' = [sync EXCEPT ![s] = t] /\ t.id = sync[s].id /\ UNCHANGED staff
      BY <1>0, <1>5, <2>1 DEF Memory, Link
    <3> HIDE DEF t
    <3> QED BY <1>0, <3>1, IdsStay DEF RowsOK, Ids, TInv, IdsOK
  <2>2. CASE sync' = [sync EXCEPT ![s] = Over(@)]
    BY <1>1, <1>5, <2>2 DEF Link
  <2> QED BY <1>5, <2>1, <2>2 DEF Link
<1>6. ASSUME NEW s \in Syncs, UpdateStaff(s) PROVE RowsOK' /\ IdsOK'
  <2>1. CASE UNCHANGED staff
    BY <1>1, <1>6, <2>1 DEF UpdateStaff
  <2>2. CASE staff' = [staff EXCEPT ![sync[s].id] = Overlay(@, Changed(s), Mapped(s))]
    <3>1. /\ sync[s].id \in Ids /\ sync[s].at \in DOMAIN sync[s].listed
          /\ Changed(s) \in SUBSET Columns
          /\ sync' = [sync EXCEPT ![s] = Over(@)]
      BY <1>0, <1>6 DEF UpdateStaff, Held, Changed
    <3> DEFINE row == Overlay(staff[sync[s].id], Changed(s), Mapped(s))
    <3>2. staff[sync[s].id] \in Row /\ Mapped(s) \in Row
      BY <1>0, <3>1, MappedIsStaff
    <3>3. row \in Row
      BY <3>1, <3>2, OverlayIsStaff
    <3>4. staff' = [staff EXCEPT ![sync[s].id] = row]
      BY <2>2
    <3> HIDE DEF row
    <3>5. staff' \in Seq(Row) /\ Ids' = Ids
      BY <1>0, <3>1, <3>3, <3>4 DEF Ids
    <3>6. PICK t : sync' = [sync EXCEPT ![s] = t] /\ t.id = 0
      BY <3>1, OverHasNoRow
    <3> QED BY <3>5, <3>6, IdsStay DEF RowsOK
  <2> QED BY <1>6, <2>1, <2>2 DEF UpdateStaff
<1>7. ASSUME NEW s \in Syncs, CreateStaff(s) PROVE RowsOK' /\ IdsOK'
  <2>1. CASE UNCHANGED staff /\ sync' = [sync EXCEPT ![s] = Over(@)]
    BY <1>1, <2>1
  <2>2. CASE /\ staff' = Append(staff, Mapped(s))
             /\ sync' = [sync EXCEPT ![s].pc = "log", ![s].id = Len(staff) + 1]
    <3>1. sync[s].at \in DOMAIN sync[s].listed
      BY <1>0, <1>7 DEF CreateStaff, Held
    <3>2. Mapped(s) \in Row
      BY <1>0, <3>1, MappedIsStaff
    <3>3. staff' \in Seq(Row) /\ Ids' = Ids \union {Len(staff) + 1}
      BY <1>0, <2>2, <3>2 DEF Ids
    <3> DEFINE t == [sync[s] EXCEPT !.pc = "log", !.id = Len(staff) + 1]
    <3>4. sync' = [sync EXCEPT ![s] = t] /\ t.id = Len(staff) + 1
      BY <1>0, <2>2 DEF Memory
    <3> HIDE DEF t
    <3> QED BY <3>3, <3>4, IdsStay DEF RowsOK
  <2> QED BY <1>7, <2>1, <2>2 DEF CreateStaff
<1>8. ASSUME NEW s \in Syncs, LogCreated(s) PROVE RowsOK' /\ IdsOK'
  BY <1>1, <1>8 DEF LogCreated
<1>9. ASSUME NEW s \in Syncs, Crash(s) \/ PersonFails(s) PROVE RowsOK' /\ IdsOK'
  BY <1>1, <1>9 DEF Crash, PersonFails
<1>10. ASSUME NEW id \in Ids, NEW st \in {"active", "on_leave"}, SetStatus(id, st)
       PROVE  RowsOK' /\ IdsOK'
  <2> DEFINE row == [staff[id] EXCEPT !.status = st]
  <2>1. row \in Row
    <3>1. staff[id] \in Row
      BY <1>0
    <3> QED BY <3>1 DEF Row
  <2>2. staff' = [staff EXCEPT ![id] = row] /\ UNCHANGED sync
    BY <1>10 DEF SetStatus
  <2> HIDE DEF row
  <2>3. staff' \in Seq(Row) /\ Ids' = Ids
    BY <1>0, <2>1, <2>2 DEF Ids
  <2> QED BY <2>2, <2>3 DEF RowsOK, TInv, IdsOK
<1>11. CASE UNCHANGED <<staff, sync>>
  BY <1>0, <1>11 DEF RowsOK, TInv, IdsOK, Ids
<1> QED BY <1>2, <1>3, <1>4, <1>5, <1>6, <1>7, <1>8, <1>9, <1>10, <1>11
        DEF Next, RunDirectoryFullSync, EditDirectory, vars

(* Every row of staff has an address, a title and a status, its log is one *)
(* entry per row, and links and syncs name rows that exist.                *)
THEOREM DirectoryTypeCorrect == Spec => []TypeOK
<1>1. Init => TInv
  BY InitInv, InitSides, InitRows DEF TInv, KInv
<1>2. TInv /\ [Next]_vars => TInv'
  BY NextSides, NextRows DEF TInv
<1>3. TInv => TypeOK
  BY DEF TInv, RowsOK, IdsOK, KInv, IInv, Typed, TypeOK, Ids
<1> QED BY <1>1, <1>2, <1>3, PTL DEF Spec

-----------------------------------------------------------------------------
(* Whatever the two answers of the model are, the silence of either drops  *)
(* nobody: an entry the hard filters let pass is left out only if an       *)
(* answer about it says service account, and then the later one that       *)
(* mentions it.  The second answer counts for all it mentions, though it   *)
(* was asked only about those the first had left out.                      *)
THEOREM SkippedOnlyIfNamed ==
  ASSUME NEW entries, NEW first, NEW second, NEW i \in DOMAIN entries,
         ~HardFiltered(entries[i]),
         ClassifyEntries(entries, first, second)[i] # "person"
  PROVE  LET e == entries[i].email
         IN  \/ e \in DOMAIN second /\ second[e] = "service_account"
             \/ /\ e \in DOMAIN first /\ first[e] = "service_account"
                /\ e \notin DOMAIN second \/ Missing(LlmInputs(entries), first) = {}
<1> DEFINE e == entries[i].email
           items == Combined(LlmInputs(entries), first, second)
<1>1. ClassifyEntries(entries, first, second)[i] = ToClassification(entries[i], items)
  BY DirectoryAssumption DEF ClassifyEntries, FindSyncRule
<1>2. e \in DOMAIN items /\ items[e] = "service_account"
  BY <1>1 DEF ToClassification
<1> QED BY <1>2 DEF Combined
=============================================================================

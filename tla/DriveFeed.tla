------------------------------ MODULE DriveFeed ------------------------------
(***************************************************************************)
(* How an edit in Google Drive reaches an account or a campaign: the poll  *)
(* of Drive's change feed (drive.poll.ts) that starts a full sync, the     *)
(* scan of one folder tree after the other (drive.orchestrator.ts,         *)
(* drive.sync.ts) and the file snapshots that tell what a scan may pass    *)
(* over (drive.snapshot.ts).                                               *)
(*                                                                         *)
(* Time is the number of edits so far.  A file's modifiedTime is the time  *)
(* of its last edit, a page token the time it was issued.  A file keeps    *)
(* its folder.  What holds the one slot for a sync, and how a sync pauses  *)
(* and is resumed between two entities, is DriveSyncRun; here a run just   *)
(* takes its time, and two runs may overlap.                               *)
(***************************************************************************)
EXTENDS Integers, FiniteSets

CONSTANTS Entities,  \* linked accounts and campaigns, one folder each
          Files,
          Parent,    \* the account a campaign belongs to, None of an account
          Home,      \* the entity whose folder a file is in
          Depth,     \* folders between a file and the folder of its home, or
                     \* between an entity's folder and its parent's, itself included
          MAX_DEPTH, \* how far down a walk goes: 8
          Runs,      \* full syncs in progress at a time
          Polls,     \* polls in progress at a time
          MaxEdits,
          None

ASSUME FeedAssumption ==
  /\ None \notin Entities \union Files
  /\ Parent \in [Entities -> Entities \union {None}]
  /\ \A e \in Entities : Parent[e] # None => Parent[Parent[e]] = None
  /\ Home \in [Files -> Entities]
  /\ Depth \in [Files \union Entities -> Nat] /\ MAX_DEPTH \in Nat
  /\ MaxEdits \in Nat

VARIABLES clock,     \* edits so far
          edited,    \* edited[f]: when f was last edited
          snap,      \* snap[f]: modified_time of the newest snapshot of f
          told,      \* told[e][f]: newest content of f distilled for e
          token,     \* the page token of drive_sync_state
          run,
          poll,
          unread,    \* unread[f]: newest content of f passed over or lost
          late,      \* files last edited while a run was under way
          failed,    \* files a failed scan, run or lookup left behind
          tried,     \* files whose present content was extracted
          slipped    \* files whose present content may be extracted again

drive == <<clock, edited>>
scans == <<snap, told, run>>
missed == <<late, failed>>
repeat == <<tried, slipped>>
vars == <<drive, scans, token, poll, unread, missed, repeat>>

-----------------------------------------------------------------------------
Never == -1
Time == Never..MaxEdits
Later(s, t) == IF s > t THEN s ELSE t
NoFiles == [f \in Files |-> Never]

(* The accounts are scanned before the campaigns; the walk of an account's *)
(* folder goes down into the folders of its campaigns.                     *)
Accounts == {e \in Entities : Parent[e] = None}
WalkOf(e) == {d \in Entities : d = e \/ Parent[d] = e}

(* Whether a walk of e's folder comes as far down as f: what is deeper is  *)
(* passed over in silence.  A campaign's own walk begins further down.     *)
Within(e, f) ==
  /\ Home[f] \in WalkOf(e)
  /\ Depth[f] + (IF Home[f] = e THEN 0 ELSE Depth[Home[f]]) <= MAX_DEPTH

FilesUnder(D) == {f \in Files : Home[f] \in D}

(* A scan of a campaign has the account in its context too. *)
Feeds(e) == {e, Parent[e]} \ {None}

(* `walk` is the folders still to be listed, `page` the listed files still *)
(* to be processed with their modifiedTime, `file` the one in hand and     *)
(* `got` what was read of it, `held` the observations not yet distilled.   *)
RunState == [pc : {"idle", "scan", "done", "dead"}, todo : SUBSET Entities,
             entity : Entities \union {None}, walk : SUBSET Entities, page : [Files -> Time],
             file : Files \union {None}, got : Time, held : [Files -> Time]]
NoRun == [pc |-> "idle", todo |-> {}, entity |-> None, walk |-> {}, page |-> NoFiles,
          file |-> None, got |-> Never, held |-> NoFiles]

(* The sync_runs row says running or paused; the process is not over. *)
InFlight(r) == run[r].pc \in {"scan", "dead"}
Over(r) == run[r].pc = "idle"

(* `upto` is newStartPageToken. *)
PollState == [pc : {"idle", "listed", "persist"}, upto : Time]
NoPoll == [pc |-> "idle", upto |-> Never]

-----------------------------------------------------------------------------
(* Google Drive *)

Edit(f) ==
  /\ clock < MaxEdits
  /\ clock' = clock + 1
  /\ edited' = [edited EXCEPT ![f] = clock + 1]
  /\ tried' = tried \ {f} /\ slipped' = slipped \ {f}
  /\ late' = IF \A r \in Runs : Over(r) THEN late \ {f} ELSE late \union {f}
  /\ failed' = IF \A r \in Runs : Over(r) THEN failed \ {f} ELSE failed
  /\ UNCHANGED <<scans, token, poll, unread>>

-----------------------------------------------------------------------------
(* A run *)

(* What startFullSync creates: every linked entity is to be scanned. *)
NewRun == [NoRun EXCEPT !.pc = "scan", !.todo = Entities]

(* POST /run-full-sync.  A run in flight refuses it, unless two starts     *)
(* overlap: that a second run starts all the same is not excluded here.    *)
StartRun(r) ==
  /\ Over(r)
  /\ run' = [run EXCEPT ![r] = NewRun]
  /\ UNCHANGED <<drive, snap, told, token, poll, unread, missed, repeat>>

(* The next account, or when none is left the next campaign. *)
BeginScan(r, e) ==
  /\ run[r].pc = "scan" /\ run[r].entity = None
  /\ e \in run[r].todo
  /\ e \in Accounts \/ run[r].todo \cap Accounts = {}
  /\ run' = [run EXCEPT ![r].entity = e, ![r].todo = @ \ {e}, ![r].walk = WalkOf(e)]
  /\ UNCHANGED <<drive, snap, told, token, poll, unread, missed, repeat>>

ListFolder(r, d) ==
  /\ run[r].pc = "scan" /\ run[r].file = None
  /\ d \in run[r].walk
  /\ run' = [run EXCEPT ![r].walk = @ \ {d},
       ![r].page = [f \in Files |-> IF Home[f] = d /\ Within(run[r].entity, f)
                                     THEN edited[f] ELSE run[r].page[f]]]
  /\ UNCHANGED <<drive, snap, told, token, poll, unread, missed, repeat>>

Takes(r, f) == run[r].pc = "scan" /\ run[r].file = None /\ run[r].page[f] # Never

(* checkDelta: the newest snapshot of the file is as new as the listing,   *)
(* whichever entity it was written for.                                    *)
MutUnchanged(r, f) == snap[f] # Never
Unchanged(r, f) == snap[f] >= run[r].page[f]

SkipFile(r, f) ==
  /\ Takes(r, f)
  /\ Unchanged(r, f)
  /\ run' = [run EXCEPT ![r].file = f]
  /\ UNCHANGED <<drive, snap, told, token, poll, unread, missed, repeat>>

(* The file is downloaded as it is now, and interpreted; or it is too      *)
(* large, empty, of no use or it fails.                                    *)
Extract(r, f) ==
  /\ Takes(r, f)
  /\ ~Unchanged(r, f)
  /\ \/ /\ run' = [run EXCEPT ![r].file = f, ![r].got = edited[f]]
        /\ UNCHANGED unread
     \/ /\ run' = [run EXCEPT ![r].file = f]
        /\ unread' = [unread EXCEPT ![f] = edited[f]]
  /\ tried' = tried \union {f}
  /\ slipped' = IF edited[f] > run[r].page[f] \/ \E s \in Runs \ {r} : ~Over(s)
                THEN slipped \union {f} ELSE slipped
  /\ UNCHANGED <<drive, snap, told, token, poll, missed>>

(* writeSnapshot, whether the file was extracted, skipped or failed. *)
MutSnapshot(r) ==
  LET f == run[r].file IN
  /\ run[r].pc = "scan" /\ f # None
  /\ snap' = IF run[r].got # Never THEN [snap EXCEPT ![f] = run[r].page[f]] ELSE snap
  /\ run' = [run EXCEPT ![r].file = None, ![r].got = Never, ![r].page[f] = Never,
                        ![r].held[f] = Later(run[r].held[f], run[r].got)]
  /\ UNCHANGED <<drive, told, token, poll, unread, missed, repeat>>
Snapshot(r) ==
  LET f == run[r].file IN
  /\ run[r].pc = "scan" /\ f # None
  /\ snap' = [snap EXCEPT ![f] = run[r].page[f]]
  /\ run' = [run EXCEPT ![r].file = None, ![r].got = Never, ![r].page[f] = Never,
                        ![r].held[f] = Later(run[r].held[f], run[r].got)]
  /\ UNCHANGED <<drive, told, token, poll, unread, missed, repeat>>

(* The buckets and the listing are those of one scan. *)
Idle(R) == [R EXCEPT !.entity = None, !.walk = {}, !.page = NoFiles, !.file = None,
                     !.got = Never, !.held = NoFiles]

(* distillAndEmit for the account and the campaign of the scan; one whose  *)
(* distillation cannot be parsed goes without.                             *)
Distill(r) ==
  /\ run[r].pc = "scan" /\ run[r].entity # None
  /\ run[r].walk = {} /\ run[r].page = NoFiles
  /\ \E D \in SUBSET Feeds(run[r].entity) :
       /\ told' = [e \in Entities |-> [f \in Files |->
            IF e \in D THEN Later(told[e][f], run[r].held[f]) ELSE told[e][f]]]
       /\ IF D = Feeds(run[r].entity) THEN UNCHANGED <<unread, failed>>
          ELSE /\ unread' = [f \in Files |-> Later(unread[f], run[r].held[f])]
               /\ failed' = failed \union {f \in Files : run[r].held[f] # Never}
  /\ run' = [run EXCEPT ![r] = Idle(run[r])]
  /\ UNCHANGED <<drive, snap, token, poll, late, repeat>>

(* What r has read is lost, what it has yet to read of D is left behind. *)
Left(r, D) == FilesUnder(D) \union {f \in Files : run[r].page[f] # Never}
Loses(r, D) ==
  /\ unread' = [f \in Files |-> Later(unread[f], run[r].held[f])]
  /\ failed' = failed \union Left(r, D)
  /\ slipped' = slipped \union ({run[r].file} \ {None})
  /\ UNCHANGED <<drive, snap, told, token, poll, late, tried>>

(* scanEntity throws: the run goes on with the next entity. *)
ScanFails(r) ==
  /\ run[r].pc = "scan" /\ run[r].entity # None
  /\ Loses(r, run[r].walk)
  /\ run' = [run EXCEPT ![r] = Idle(run[r])]

(* The last entity is scanned: status 'success'.  Then the token. *)
Finish(r) ==
  /\ run[r].pc = "scan" /\ run[r].entity = None /\ run[r].todo = {}
  /\ run' = [run EXCEPT ![r].pc = "done"]
  /\ UNCHANGED <<drive, snap, told, token, poll, unread, missed, repeat>>

(* captureStartPageTokenAfterFullSync; if it fails, or the instance dies    *)
(* first, the token stays as it is.                                        *)
Capture(r) ==
  /\ run[r].pc = "done"
  /\ run' = [run EXCEPT ![r] = NoRun]
  /\ token' \in {clock, token}
  /\ UNCHANGED <<drive, snap, told, poll, unread, missed, repeat>>

(* The instance dies, or the run throws; its row is 'running' until it is  *)
(* marked failed, by the run itself or by the reaper.                      *)
Die(r) ==
  /\ run[r].pc = "scan"
  /\ Loses(r, run[r].walk \union run[r].todo)
  /\ run' = [run EXCEPT ![r] = [NoRun EXCEPT !.pc = "dead"]]

Reap(r) ==
  /\ run[r].pc = "dead"
  /\ run' = [run EXCEPT ![r] = NoRun]
  /\ UNCHANGED <<drive, snap, told, token, poll, unread, missed, repeat>>

-----------------------------------------------------------------------------
(* A poll *)

Changed == {f \in Files : edited[f] > token}

(* changes.list from the saved token.  The lookup of a file's folder fails *)
(* for some of the changes: they count as out of scope.                    *)
PollChanges(p) ==
  /\ poll[p].pc = "idle" /\ token # Never
  /\ \E S \in SUBSET Changed :
       /\ poll' = [poll EXCEPT ![p] =
            [pc |-> IF S = {} THEN "persist" ELSE "listed", upto |-> clock]]
       /\ failed' = failed \union (Changed \ S)
  /\ UNCHANGED <<drive, scans, token, unread, late, repeat>>

(* The token is too old for Drive. *)
ExpireToken(p) ==
  /\ poll[p].pc = "idle" /\ token # Never
  /\ token' = Never
  /\ UNCHANGED <<drive, scans, poll, unread, missed, repeat>>

(* startFullSync. *)
Dispatch(p, r) ==
  /\ poll[p].pc = "listed"
  /\ Over(r)
  /\ run' = [run EXCEPT ![r] = NewRun]
  /\ poll' = [poll EXCEPT ![p].pc = "persist"]
  /\ UNCHANGED <<drive, snap, told, token, unread, missed, repeat>>

(* SyncAlreadyRunningError: the changes are left to the run in flight. *)
Defer(p) ==
  /\ poll[p].pc = "listed"
  /\ \E r \in Runs : InFlight(r)
  /\ poll' = [poll EXCEPT ![p].pc = "persist"]
  /\ UNCHANGED <<drive, scans, token, unread, missed, repeat>>

(* startFullSync throws anything else, or the request dies: no token. *)
MutAbandonPoll(p) ==
  /\ poll[p].pc # "idle"
  /\ token' = poll[p].upto
  /\ poll' = [poll EXCEPT ![p] = NoPoll]
  /\ UNCHANGED <<drive, scans, unread, missed, repeat>>
AbandonPoll(p) ==
  /\ poll[p].pc # "idle"
  /\ poll' = [poll EXCEPT ![p] = NoPoll]
  /\ UNCHANGED <<drive, scans, token, unread, missed, repeat>>

PersistToken(p) ==
  /\ poll[p].pc = "persist"
  /\ token' = poll[p].upto
  /\ poll' = [poll EXCEPT ![p] = NoPoll]
  /\ UNCHANGED <<drive, scans, unread, missed, repeat>>

-----------------------------------------------------------------------------
Init ==
  /\ clock = 0
  /\ edited = [f \in Files |-> 0]
  /\ snap = NoFiles
  /\ told = [e \in Entities |-> NoFiles]
  /\ token = Never
  /\ run = [r \in Runs |-> NoRun]
  /\ poll = [p \in Polls |-> NoPoll]
  /\ unread = NoFiles
  /\ late = {} /\ failed = {} /\ tried = {} /\ slipped = {}

Sync == \E r \in Runs :
  \/ StartRun(r) \/ Snapshot(r) \/ Distill(r) \/ ScanFails(r) \/ Finish(r) \/ Capture(r)
  \/ Die(r) \/ Reap(r)
  \/ \E e \in Entities : BeginScan(r, e) \/ ListFolder(r, e)
  \/ \E f \in Files : SkipFile(r, f) \/ Extract(r, f)

Polling == \E p \in Polls :
  \/ PollChanges(p) \/ ExpireToken(p) \/ Defer(p) \/ AbandonPoll(p) \/ PersistToken(p)
  \/ \E r \in Runs : Dispatch(p, r)

Next == Sync \/ Polling \/ \E f \in Files : Edit(f)

Spec == Init /\ [][Next]_vars

-----------------------------------------------------------------------------
(* Properties *)

(* Every variable has its type; a file in hand was listed, and a run       *)
(* between two scans has no observations of the one before.                *)
TypeOK ==
  /\ clock \in 0..MaxEdits
  /\ edited \in [Files -> 0..MaxEdits]
  /\ snap \in [Files -> Time]
  /\ told \in [Entities -> [Files -> Time]]
  /\ token \in Time
  /\ run \in [Runs -> RunState]
  /\ \A r \in Runs : run[r].file # None => run[r].page[run[r].file] # Never
  /\ \A r \in Runs : run[r].entity = None =>
       run[r].walk = {} /\ run[r].page = NoFiles /\ run[r].held = NoFiles
  /\ poll \in [Polls -> PollState]
  /\ unread \in [Files -> Time]
  /\ late \subseteq Files /\ failed \subseteq Files
  /\ tried \subseteq Files /\ slipped \subseteq Files

(* Content of f from time t or later was read: it is distilled, in the     *)
(* hands of a run, or lost on the way.                                     *)
ReadSince(f, t) ==
  \/ \E e \in Entities : told[e][f] >= t
  \/ \E r \in Runs : run[r].held[f] >= t \/ (run[r].file = f /\ run[r].got >= t)
  \/ unread[f] >= t

(* A file a scan may pass over as unchanged has been read as it is, by     *)
(* whichever run.                                                          *)
PassedOverWasRead == \A f \in Files : snap[f] # Never => ReadSince(f, snap[f])

(* A run is yet to read f. *)
InReach(f) == \E r \in Runs : run[r].pc = "scan" /\
  \/ Home[f] \in run[r].walk /\ Within(run[r].entity, f)
  \/ \E e \in run[r].todo : Within(e, f)
  \/ run[r].page[f] >= edited[f]

(* Its own home's walk comes down to it: the poll asks no such thing.      *)
Shallow == {f \in Files : Depth[f] <= MAX_DEPTH}

(* An edit the saved token has passed, of a file that is not below the     *)
(* depth cap of the walk, is read, or will be by a run that is under way,  *)
(* unless it was made while a run was, a run that was to read it failed,   *)
(* or the poll did not find it in scope.                                   *)
TokenOwesNothing ==
  token # Never =>
    \A f \in Shallow \ (late \union failed) : edited[f] <= token => ReadSince(f, edited[f]) \/ InReach(f)

(* The same content is extracted once, also when it fails ("so we don't    *)
(* retry this identical version forever"), unless it was edited between    *)
(* its listing and its download, two runs overlapped, or a run died with   *)
(* the file in hand.                                                       *)
ExtractedOnce ==
  [][\A r \in Runs, f \in Files : Extract(r, f) /\ f \in tried => f \in slipped']_vars
=============================================================================

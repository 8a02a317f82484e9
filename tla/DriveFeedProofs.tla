--------------------------- MODULE DriveFeedProofs ---------------------------
(***************************************************************************)
(* Proofs about DriveFeed, for any entities, files, runs, polls and edits: *)
(* its types, and that a snapshot only ever lets a scan pass over content  *)
(* that has been read.                                                     *)
(***************************************************************************)
EXTENDS DriveFeed, TLAPS

-----------------------------------------------------------------------------
(* The inductive invariant *)

(* A run that is not scanning has no entity in hand; without a file in     *)
(* hand it has no content of one.                                          *)
Resting ==
  \A r \in Runs : /\ run[r].pc # "scan" => run[r].entity = None
                  /\ run[r].file = None => run[r].got = Never

Typed == TypeOK /\ Resting

(* No run has listed or read what has not been written yet.                *)
NotAhead ==
  \A f \in Files :
    /\ edited[f] <= clock
    /\ unread[f] <= edited[f]
    /\ \A r \in Runs : /\ run[r].page[f] <= edited[f]
                       /\ run[r].held[f] <= edited[f]
                       /\ run[r].file = f => run[r].got <= edited[f]

(* Content of f from time t or later was read, and is not in one run's     *)
(* hand only, which might drop it unnoticed.                               *)
SettledSince(f, t) ==
  \/ \E e \in Entities : told[e][f] >= t
  \/ \E r \in Runs : run[r].held[f] >= t
  \/ unread[f] >= t

(* What a run holds when it is about to write a snapshot: newer content    *)
(* than the snapshot will claim, or a claim that is settled already.       *)
HandRead ==
  \A r \in Runs, f \in Files : run[r].file = f =>
    \/ run[r].got # Never /\ run[r].got >= run[r].page[f]
    \/ SettledSince(f, run[r].page[f])

SnapSettled == \A f \in Files : snap[f] # Never => SettledSince(f, snap[f])

FeedInv == Typed /\ NotAhead /\ HandRead /\ SnapSettled

-----------------------------------------------------------------------------
(* Times *)

LEMMA TimeFacts ==
  /\ Time \in SUBSET Int
  /\ 0..MaxEdits \in SUBSET Time
  /\ Never \in Time
  /\ \A t \in Time : t >= Never /\ t >= t
BY FeedAssumption DEF Time, Never

LEMMA LaterFacts ==
  ASSUME NEW s \in Time, NEW t \in Time
  PROVE  /\ Later(s, t) \in Time
         /\ Later(s, t) >= s /\ Later(s, t) >= t
         /\ \A u \in Time : s <= u /\ t <= u => Later(s, t) <= u
BY TimeFacts DEF Later

LEMMA NoFilesFacts ==
  /\ NoFiles \in [Files -> Time]
  /\ \A f \in Files : NoFiles[f] = Never
BY TimeFacts DEF NoFiles

LEMMA FreshRun == /\ NoRun \in RunState
                  /\ NewRun \in RunState
BY NoFilesFacts, TimeFacts DEF NoRun, NewRun, RunState

-----------------------------------------------------------------------------
(* What a step does to a run *)

(* The part of the type invariant that is about one run.                   *)
Sound(R) ==
  /\ R \in RunState
  /\ R.pc # "scan" => R.entity = None
  /\ R.entity = None => R.walk = {} /\ R.page = NoFiles /\ R.held = NoFiles
  /\ R.file # None => R.page[R.file] # Never
  /\ R.file = None => R.got = Never

LEMMA TypedRuns ==
  ASSUME run \in [Runs -> RunState]
  PROVE  (\A r \in Runs : Sound(run[r])) <=>
           /\ Resting
           /\ \A r \in Runs : run[r].file # None => run[r].page[run[r].file] # Never
           /\ \A r \in Runs : run[r].entity = None =>
                run[r].walk = {} /\ run[r].page = NoFiles /\ run[r].held = NoFiles
BY DEF Sound, Resting

LEMMA FreshSound == Sound(NoRun) /\ Sound(NewRun) /\ Sound([NoRun EXCEPT !.pc = "dead"])
<1>1. [NoRun EXCEPT !.pc = "dead"] \in RunState
  BY FreshRun DEF RunState
<1>2. QED
  BY <1>1, FreshRun DEF Sound, NoRun, NewRun

(* A run that has dropped its scan.                                        *)
LEMMA IdleSound ==
  ASSUME NEW R, Sound(R), R.pc = "scan"
  PROVE  Sound(Idle(R))
<1>1. Idle(R) \in RunState
  BY NoFilesFacts, TimeFacts DEF Idle, Sound, RunState
<1>2. /\ Idle(R).pc = R.pc /\ Idle(R).entity = None /\ Idle(R).walk = {}
      /\ Idle(R).page = NoFiles /\ Idle(R).held = NoFiles
      /\ Idle(R).file = None /\ Idle(R).got = Never
  BY DEF Idle, Sound, RunState
<1>3. QED
  BY <1>1, <1>2 DEF Sound

(* The runs after a step that changes r only. *)
Becomes(r, R) == run' = [run EXCEPT ![r] = R]

LEMMA OneRunChanges ==
  ASSUME Typed, NEW r \in Runs, NEW R, Sound(R), Becomes(r, R)
  PROVE  /\ run' \in [Runs -> RunState]
         /\ \A s \in Runs : Sound(run'[s])
         /\ run'[r] = R
         /\ \A s \in Runs \ {r} : run'[s] = run[s]
<1>1. R \in RunState
  BY DEF Sound
<1>2. run \in [Runs -> RunState] /\ \A s \in Runs : Sound(run[s])
  BY TypedRuns DEF Typed, TypeOK
<1>3. QED
  BY <1>1, <1>2 DEF Becomes

LEMMA BeginScanRun ==
  ASSUME Typed, NEW r \in Runs, NEW e \in Entities, BeginScan(r, e)
  PROVE  \E R : /\ Becomes(r, R) /\ Sound(R)
               /\ R.page = run[r].page /\ R.held = run[r].held
               /\ R.file = run[r].file /\ R.got = run[r].got
<1> DEFINE R == [run[r] EXCEPT !.entity = e, !.todo = @ \ {e}, !.walk = WalkOf(e)]
<1>1. Sound(run[r]) /\ run[r] \in RunState
  BY TypedRuns DEF Typed, TypeOK
<1>2. R \in RunState
  BY <1>1 DEF RunState, WalkOf
<1>3. /\ R.pc = run[r].pc /\ R.entity = e /\ R.page = run[r].page
      /\ R.held = run[r].held /\ R.file = run[r].file /\ R.got = run[r].got
  BY <1>1 DEF RunState
<1>4. Becomes(r, R)
  BY <1>1 DEF BeginScan, Becomes, RunState, Typed, TypeOK
<1>5. e # None
  BY FeedAssumption
<1>6. Sound(R)
  BY <1>1, <1>2, <1>3, <1>5 DEF Sound, BeginScan
<1>7. QED
  BY <1>3, <1>4, <1>6

LEMMA ListFolderRun ==
  ASSUME Typed, NEW r \in Runs, NEW d \in Entities, ListFolder(r, d)
  PROVE  \E R : /\ Becomes(r, R) /\ Sound(R)
               /\ R.held = run[r].held /\ R.file = None
               /\ \A f \in Files : R.page[f] \in {edited[f], run[r].page[f]}
<1> DEFINE page == [f \in Files |-> IF Home[f] = d /\ Within(run[r].entity, f)
                                     THEN edited[f] ELSE run[r].page[f]]
           R == [run[r] EXCEPT !.walk = @ \ {d}, !.page = page]
<1>1. Sound(run[r]) /\ run[r] \in RunState
  BY TypedRuns DEF Typed, TypeOK
<1>2. page \in [Files -> Time]
  BY <1>1, TimeFacts DEF Typed, TypeOK, RunState
<1>3. R \in RunState
  BY <1>1, <1>2 DEF RunState
<1>4. /\ R.pc = run[r].pc /\ R.entity = run[r].entity /\ R.page = page
      /\ R.held = run[r].held /\ R.file = run[r].file /\ R.got = run[r].got
  BY <1>1 DEF RunState
<1>5. Becomes(r, R)
  BY <1>1 DEF ListFolder, Becomes, RunState, Typed, TypeOK
<1>6. run[r].file = None /\ run[r].pc = "scan" /\ run[r].entity # None
  BY <1>1 DEF ListFolder, Sound
<1>7. Sound(R)
  BY <1>1, <1>3, <1>4, <1>6 DEF Sound
<1>8. \A f \in Files : R.page[f] \in {edited[f], run[r].page[f]}
  BY <1>4
<1> HIDE DEF R, page
<1>9. QED
  BY <1>4, <1>5, <1>6, <1>7, <1>8

LEMMA SkipFileRun ==
  ASSUME Typed, NEW r \in Runs, NEW f \in Files, SkipFile(r, f)
  PROVE  \E R : /\ Becomes(r, R) /\ Sound(R)
               /\ R.page = run[r].page /\ R.held = run[r].held
               /\ R.file = f /\ R.got = Never
<1> DEFINE R == [run[r] EXCEPT !.file = f]
<1>1. Sound(run[r]) /\ run[r] \in RunState
  BY TypedRuns DEF Typed, TypeOK
<1>2. R \in RunState
  BY <1>1 DEF RunState
<1>3. /\ R.pc = run[r].pc /\ R.entity = run[r].entity /\ R.walk = run[r].walk
      /\ R.page = run[r].page /\ R.held = run[r].held
      /\ R.file = f /\ R.got = run[r].got
  BY <1>1 DEF RunState
<1>4. Becomes(r, R)
  BY DEF SkipFile, Becomes
<1>5. f # None /\ run[r].page[f] # Never /\ run[r].file = None
  BY FeedAssumption DEF SkipFile, Takes
<1>6. Sound(R)
  BY <1>1, <1>2, <1>3, <1>5 DEF Sound
<1>7. QED
  BY <1>1, <1>3, <1>4, <1>5, <1>6 DEF Sound

LEMMA ExtractRun ==
  ASSUME Typed, NEW r \in Runs, NEW f \in Files, Extract(r, f)
  PROVE  \E R : /\ Becomes(r, R) /\ Sound(R)
               /\ R.page = run[r].page /\ R.held = run[r].held /\ R.file = f
               /\ \/ R.got = edited[f] /\ unread' = unread
                  \/ R.got = Never /\ unread' = [unread EXCEPT ![f] = edited[f]]
<1> DEFINE Q == [run[r] EXCEPT !.file = f, !.got = edited[f]]
           S == [run[r] EXCEPT !.file = f]
<1>1. Sound(run[r]) /\ run[r] \in RunState
  BY TypedRuns DEF Typed, TypeOK
<1>2. edited[f] \in Time
  BY TimeFacts DEF Typed, TypeOK
<1>3. Q \in RunState /\ S \in RunState
  BY <1>1, <1>2 DEF RunState
<1>4. /\ Q.pc = run[r].pc /\ Q.entity = run[r].entity /\ Q.walk = run[r].walk
      /\ Q.page = run[r].page /\ Q.held = run[r].held
      /\ Q.file = f /\ Q.got = edited[f]
  BY <1>1 DEF RunState
<1>5. /\ S.pc = run[r].pc /\ S.entity = run[r].entity /\ S.walk = run[r].walk
      /\ S.page = run[r].page /\ S.held = run[r].held
      /\ S.file = f /\ S.got = run[r].got
  BY <1>1 DEF RunState
<1>6. f # None /\ run[r].page[f] # Never /\ run[r].file = None
  BY FeedAssumption DEF Extract, Takes
<1>7. Sound(Q) /\ Sound(S) /\ S.got = Never
  BY <1>1, <1>3, <1>4, <1>5, <1>6 DEF Sound
<1>8. \/ Becomes(r, Q) /\ unread' = unread
      \/ Becomes(r, S) /\ unread' = [unread EXCEPT ![f] = edited[f]]
  BY <1>1 DEF Extract, Becomes, Typed, TypeOK, RunState
<1>9. QED
  BY <1>4, <1>5, <1>7, <1>8

LEMMA SnapshotRun ==
  ASSUME Typed, NEW r \in Runs, Snapshot(r)
  PROVE  \E f \in Files : \E R :
           /\ f = run[r].file /\ Becomes(r, R) /\ Sound(R) /\ R.file = None
           /\ \A g \in Files : R.page[g] \in {Never, run[r].page[g]}
           /\ R.held = [run[r].held EXCEPT ![f] = Later(run[r].held[f], run[r].got)]
           /\ snap' = [snap EXCEPT ![f] = run[r].page[f]]
<1> DEFINE f == run[r].file
           page == [run[r].page EXCEPT ![f] = Never]
           held == [run[r].held EXCEPT ![f] = Later(run[r].held[f], run[r].got)]
           R == [run[r] EXCEPT !.file = None, !.got = Never, !.page = page, !.held = held]
<1>1. Sound(run[r]) /\ run[r] \in RunState
  BY TypedRuns DEF Typed, TypeOK
<1>2. f \in Files /\ run[r].pc = "scan"
  BY <1>1 DEF Snapshot, RunState
<1>3. page \in [Files -> Time]
  BY <1>1, TimeFacts DEF RunState
<1>4. Later(run[r].held[f], run[r].got) \in Time
  BY <1>1, <1>2, LaterFacts DEF RunState
<1>5. held \in [Files -> Time]
  BY <1>1, <1>4 DEF RunState
<1>6. R \in RunState
  BY <1>1, <1>3, <1>5, TimeFacts DEF RunState
<1>7. /\ R.pc = run[r].pc /\ R.entity = run[r].entity /\ R.page = page
      /\ R.held = held /\ R.file = None /\ R.got = Never
  BY <1>1 DEF RunState
<1>8. Becomes(r, R)
  BY <1>1 DEF Snapshot, Becomes, RunState, Typed, TypeOK
<1>9. run[r].entity # None
  <2>1. run[r].page[f] # Never
    BY <1>1, <1>2, FeedAssumption DEF Sound
  <2>2. run[r].page # NoFiles
    BY <2>1, <1>2, NoFilesFacts
  <2>3. QED
    BY <2>2, <1>1 DEF Sound
<1>10. Sound(R)
  BY <1>2, <1>6, <1>7, <1>9 DEF Sound
<1>11. \A g \in Files : page[g] \in {Never, run[r].page[g]}
  BY <1>1 DEF RunState
<1>12. snap' = [snap EXCEPT ![f] = run[r].page[f]]
  BY DEF Snapshot
<1> HIDE DEF R, page, f
<1>13. f = run[r].file
  BY DEF f
<1>14. QED
  BY <1>13, <1>2, <1>7, <1>8, <1>10, <1>11, <1>12

(* A scan that ends, or is dropped, leaves nothing in its run's hands.     *)
Empty(R) == R.page = NoFiles /\ R.held = NoFiles /\ R.file = None /\ R.got = Never

LEMMA DroppedRun ==
  ASSUME Typed, NEW r \in Runs, run[r].pc = "scan", Becomes(r, Idle(run[r]))
  PROVE  \E R : Becomes(r, R) /\ Sound(R) /\ Empty(R)
<1>1. Sound(run[r])
  BY TypedRuns DEF Typed, TypeOK
<1>2. Sound(Idle(run[r]))
  BY <1>1, IdleSound
<1>3. Empty(Idle(run[r]))
  BY <1>1 DEF Empty, Idle, Sound, RunState
<1>4. QED
  BY <1>2, <1>3

LEMMA FreshEmpty ==
  Empty(NoRun) /\ Empty(NewRun) /\ Empty([NoRun EXCEPT !.pc = "dead"])
BY DEF Empty, NoRun, NewRun

LEMMA FinishRun ==
  ASSUME Typed, NEW r \in Runs, Finish(r)
  PROVE  \E R : Becomes(r, R) /\ Sound(R) /\ Empty(R)
<1> DEFINE R == [run[r] EXCEPT !.pc = "done"]
<1>1. Sound(run[r]) /\ run[r] \in RunState
  BY TypedRuns DEF Typed, TypeOK
<1>2. R \in RunState
  BY <1>1 DEF RunState
<1>3. /\ R.pc = "done" /\ R.entity = run[r].entity /\ R.walk = run[r].walk
      /\ R.page = run[r].page /\ R.held = run[r].held
      /\ R.file = run[r].file /\ R.got = run[r].got
  BY <1>1 DEF RunState
<1>4. run[r].entity = None /\ Becomes(r, R)
  BY DEF Finish, Becomes
<1>5. run[r].file = None
  <2> SUFFICES ASSUME run[r].file # None PROVE FALSE
    OBVIOUS
  <2>1. run[r].file \in Files /\ run[r].page[run[r].file] # Never
    BY <1>1 DEF Sound, RunState
  <2>2. QED
    BY <2>1, <1>1, <1>4, NoFilesFacts DEF Sound
<1>6. Sound(R) /\ Empty(R)
  BY <1>1, <1>2, <1>3, <1>4, <1>5 DEF Sound, Empty
<1>7. QED
  BY <1>4, <1>6

(* The actions of a run that let go of all it holds, or begin with nothing. *)
Clears(r) ==
  \/ StartRun(r) \/ Distill(r) \/ ScanFails(r) \/ Finish(r) \/ Capture(r)
  \/ Die(r) \/ Reap(r) \/ \E p \in Polls : Dispatch(p, r)

LEMMA ClearedRun ==
  ASSUME Typed, NEW r \in Runs, Clears(r)
  PROVE  \E R : Becomes(r, R) /\ Sound(R) /\ Empty(R)
<1>1. CASE StartRun(r)
  BY <1>1, FreshSound, FreshEmpty DEF StartRun, Becomes
<1>2. CASE \E p \in Polls : Dispatch(p, r)
  BY <1>2, FreshSound, FreshEmpty DEF Dispatch, Becomes
<1>3. CASE Distill(r)
  BY <1>3, DroppedRun DEF Distill, Becomes
<1>4. CASE ScanFails(r)
  BY <1>4, DroppedRun DEF ScanFails, Becomes
<1>5. CASE Finish(r)
  BY <1>5, FinishRun
<1>6. CASE Capture(r)
  BY <1>6, FreshSound, FreshEmpty DEF Capture, Becomes
<1>7. CASE Reap(r)
  BY <1>7, FreshSound, FreshEmpty DEF Reap, Becomes
<1>8. CASE Die(r)
  BY <1>8, FreshSound, FreshEmpty DEF Die, Becomes
<1>9. QED
  BY <1>1, <1>2, <1>3, <1>4, <1>5, <1>6, <1>7, <1>8 DEF Clears

-----------------------------------------------------------------------------
(* Type correctness *)

LEMMA TypedInit == Init => Typed
<1> SUFFICES ASSUME Init PROVE Typed
  OBVIOUS
<1>1. clock \in 0..MaxEdits /\ edited \in [Files -> 0..MaxEdits]
  BY FeedAssumption DEF Init
<1>2. /\ run \in [Runs -> RunState]
      /\ \A r \in Runs : Sound(run[r])
  BY FreshRun, FreshSound DEF Init
<1>3. poll \in [Polls -> PollState]
  BY TimeFacts DEF Init, NoPoll, PollState
<1>4. /\ snap \in [Files -> Time] /\ told \in [Entities -> [Files -> Time]]
      /\ token \in Time /\ unread \in [Files -> Time]
  BY NoFilesFacts, TimeFacts DEF Init
<1>5. QED
  BY <1>1, <1>2, <1>3, <1>4, TypedRuns DEF Init, Typed, TypeOK

(* The runs are of their type after every step. *)
LEMMA RunsStep ==
  ASSUME Typed, [Next]_vars
  PROVE  run' \in [Runs -> RunState] /\ \A s \in Runs : Sound(run'[s])
<1>1. run \in [Runs -> RunState] /\ \A s \in Runs : Sound(run[s])
  BY TypedRuns DEF Typed, TypeOK
<1>2. CASE run' = run
  BY <1>1, <1>2
<1>3. ASSUME NEW r \in Runs, NEW R, Becomes(r, R), Sound(R)
      PROVE  run' \in [Runs -> RunState] /\ \A s \in Runs : Sound(run'[s])
  BY <1>3, OneRunChanges
<1>4. ASSUME NEW r \in Runs, Clears(r) PROVE \E R : Becomes(r, R) /\ Sound(R)
  BY <1>4, ClearedRun
<1>5. ASSUME NEW r \in Runs, NEW e \in Entities, BeginScan(r, e) \/ ListFolder(r, e)
      PROVE  \E R : Becomes(r, R) /\ Sound(R)
  BY <1>5, BeginScanRun, ListFolderRun
<1>6. ASSUME NEW r \in Runs, NEW f \in Files, SkipFile(r, f) \/ Extract(r, f)
      PROVE  \E R : Becomes(r, R) /\ Sound(R)
  BY <1>6, SkipFileRun, ExtractRun
<1>7. ASSUME NEW r \in Runs, Snapshot(r) PROVE \E R : Becomes(r, R) /\ Sound(R)
  BY <1>7, SnapshotRun
<1>8. \/ run' = run
      \/ \E r \in Runs : Clears(r) \/ Snapshot(r)
      \/ \E r \in Runs, e \in Entities : BeginScan(r, e) \/ ListFolder(r, e)
      \/ \E r \in Runs, f \in Files : SkipFile(r, f) \/ Extract(r, f)
  BY DEF Next, Sync, Polling, Clears, Edit, PollChanges, ExpireToken, Defer,
         AbandonPoll, PersistToken, vars, scans
<1>9. QED
  BY <1>2, <1>3, <1>4, <1>5, <1>6, <1>7, <1>8

(* What a scan tells an entity, or loses, is what it has read. *)
LEMMA TellsAndLoses ==
  ASSUME Typed, NEW r \in Runs
  PROVE  /\ \A D \in SUBSET Entities :
              [e \in Entities |-> [f \in Files |->
                 IF e \in D THEN Later(told[e][f], run[r].held[f]) ELSE told[e][f]]]
                \in [Entities -> [Files -> Time]]
         /\ [f \in Files |-> Later(unread[f], run[r].held[f])] \in [Files -> Time]
<1>1. /\ told \in [Entities -> [Files -> Time]] /\ unread \in [Files -> Time]
      /\ run[r].held \in [Files -> Time]
  BY DEF Typed, TypeOK, RunState
<1>2. \A f \in Files : Later(unread[f], run[r].held[f]) \in Time
  BY <1>1, LaterFacts
<1>3. \A e \in Entities, f \in Files : Later(told[e][f], run[r].held[f]) \in Time
  BY <1>1, LaterFacts
<1>4. QED
  BY <1>1, <1>2, <1>3

LEMMA FeedsType == \A e \in Entities : Feeds(e) \in SUBSET Entities /\ e \in Feeds(e)
BY FeedAssumption DEF Feeds

(* The rest of the type invariant, for the actions of a run.               *)
RestTyped ==
  /\ clock \in 0..MaxEdits
  /\ edited \in [Files -> 0..MaxEdits]
  /\ snap \in [Files -> Time]
  /\ told \in [Entities -> [Files -> Time]]
  /\ token \in Time
  /\ poll \in [Polls -> PollState]
  /\ unread \in [Files -> Time]
  /\ late \subseteq Files /\ failed \subseteq Files
  /\ tried \subseteq Files /\ slipped \subseteq Files

LEMMA LosesTyped ==
  ASSUME Typed, NEW r \in Runs, NEW D \in SUBSET Entities, Loses(r, D)
  PROVE  RestTyped'
<1>1. unread' \in [Files -> Time]
  BY TellsAndLoses DEF Loses
<1>2. Left(r, D) \in SUBSET Files
  BY DEF Left, FilesUnder
<1>3. run[r].file \in Files \union {None}
  BY DEF Typed, TypeOK, RunState
<1>4. failed' \subseteq Files /\ slipped' \subseteq Files
  BY <1>2, <1>3 DEF Loses, Typed, TypeOK
<1>5. QED
  BY <1>1, <1>4 DEF Loses, RestTyped, Typed, TypeOK, drive

LEMMA RestStep ==
  ASSUME Typed, [Next]_vars
  PROVE  RestTyped'
<1> USE DEF drive, scans, missed, repeat
<1>0. RestTyped
  BY DEF Typed, TypeOK, RestTyped
<1>1. ASSUME NEW r \in Runs,
             \/ StartRun(r) \/ Finish(r) \/ Reap(r)
             \/ \E e \in Entities : BeginScan(r, e) \/ ListFolder(r, e)
             \/ \E f \in Files : SkipFile(r, f)
      PROVE  RestTyped'
  BY <1>0, <1>1 DEF StartRun, Finish, Reap, BeginScan, ListFolder, SkipFile, RestTyped
<1>2. ASSUME NEW r \in Runs, NEW f \in Files, Extract(r, f) PROVE RestTyped'
  <2>1. unread' \in [Files -> Time]
    BY <1>0, <1>2, TimeFacts DEF Extract, RestTyped
  <2>2. QED
    BY <1>0, <1>2, <2>1 DEF Extract, RestTyped
<1>3. ASSUME NEW r \in Runs, Snapshot(r) PROVE RestTyped'
  <2>1. snap' \in [Files -> Time]
    BY <1>0, <1>3 DEF Snapshot, RestTyped, Typed, TypeOK, RunState
  <2>2. QED
    BY <1>0, <1>3, <2>1 DEF Snapshot, RestTyped
<1>4. ASSUME NEW r \in Runs, Distill(r) PROVE RestTyped'
  <2>1. run[r].entity \in Entities
    BY <1>4 DEF Distill, Typed, TypeOK, RunState
  <2>2. PICK D \in SUBSET Feeds(run[r].entity) :
          /\ told' = [e \in Entities |-> [f \in Files |->
                IF e \in D THEN Later(told[e][f], run[r].held[f]) ELSE told[e][f]]]
          /\ IF D = Feeds(run[r].entity) THEN UNCHANGED <<unread, failed>>
             ELSE /\ unread' = [f \in Files |-> Later(unread[f], run[r].held[f])]
                  /\ failed' = failed \union {f \in Files : run[r].held[f] # Never}
    BY <1>4 DEF Distill
  <2>3. D \in SUBSET Entities
    BY <2>1, FeedsType
  <2>4. told' \in [Entities -> [Files -> Time]]
    BY <2>2, <2>3, TellsAndLoses
  <2>5. unread' \in [Files -> Time]
    BY <2>2, <1>0, TellsAndLoses DEF RestTyped
  <2>6. failed' \subseteq Files
    BY <2>2, <1>0 DEF RestTyped
  <2>7. QED
    BY <1>0, <1>4, <2>4, <2>5, <2>6 DEF Distill, RestTyped
<1>5. ASSUME NEW r \in Runs, ScanFails(r) \/ Die(r) PROVE RestTyped'
  <2>1. run[r].walk \in SUBSET Entities /\ run[r].todo \in SUBSET Entities
    BY DEF Typed, TypeOK, RunState
  <2>2. QED
    BY <1>5, <2>1, LosesTyped DEF ScanFails, Die
<1>6. ASSUME NEW r \in Runs, Capture(r) PROVE RestTyped'
  BY <1>0, <1>6, TimeFacts DEF Capture, RestTyped
<1>7. ASSUME NEW p \in Polls, PollChanges(p) PROVE RestTyped'
  <2>1. PICK S \in SUBSET Changed :
          /\ poll' = [poll EXCEPT ![p] =
                [pc |-> IF S = {} THEN "persist" ELSE "listed", upto |-> clock]]
          /\ failed' = failed \union (Changed \ S)
    BY <1>7 DEF PollChanges
  <2>2. Changed \in SUBSET Files /\ clock \in Time
    BY <1>0, TimeFacts DEF Changed, RestTyped
  <2>3. [pc |-> IF S = {} THEN "persist" ELSE "listed", upto |-> clock]
          \in PollState
    BY <2>2 DEF PollState
  <2>4. poll' \in [Polls -> PollState]
    BY <1>0, <2>1, <2>3 DEF RestTyped
  <2>5. QED
    BY <1>0, <1>7, <2>1, <2>2, <2>4 DEF PollChanges, RestTyped
<1>8. ASSUME NEW p \in Polls, ExpireToken(p) PROVE RestTyped'
  BY <1>0, <1>8, TimeFacts DEF ExpireToken, RestTyped
<1>9. ASSUME NEW p \in Polls, Defer(p) \/ \E r \in Runs : Dispatch(p, r)
      PROVE  RestTyped'
  <2>1. poll' = [poll EXCEPT ![p].pc = "persist"]
    BY <1>9 DEF Defer, Dispatch
  <2>2. poll' \in [Polls -> PollState]
    BY <1>0, <2>1 DEF RestTyped, PollState
  <2>3. QED
    BY <1>0, <1>9, <2>2 DEF Defer, Dispatch, RestTyped
<1>10. ASSUME NEW p \in Polls, AbandonPoll(p) \/ PersistToken(p) PROVE RestTyped'
  <2>1. NoPoll \in PollState /\ poll[p].upto \in Time
    BY <1>0, TimeFacts DEF NoPoll, PollState, RestTyped
  <2>2. poll' \in [Polls -> PollState] /\ token' \in Time
    BY <1>0, <1>10, <2>1 DEF AbandonPoll, PersistToken, RestTyped
  <2>3. QED
    BY <1>0, <1>10, <2>2 DEF AbandonPoll, PersistToken, RestTyped
<1>11. ASSUME NEW f \in Files, Edit(f) PROVE RestTyped'
  <2>1. clock + 1 \in 0..MaxEdits
    BY <1>0, <1>11, FeedAssumption DEF Edit, RestTyped
  <2>2. QED
    BY <1>0, <1>11, <2>1 DEF Edit, RestTyped
<1>12. CASE UNCHANGED vars
  BY <1>0, <1>12 DEF vars, RestTyped
<1>13. QED
  BY <1>1, <1>2, <1>3, <1>4, <1>5, <1>6, <1>7, <1>8, <1>9, <1>10, <1>11, <1>12
  DEF Next, Sync, Polling

LEMMA TypedStep == Typed /\ [Next]_vars => Typed'
<1> SUFFICES ASSUME Typed, [Next]_vars PROVE Typed'
  OBVIOUS
<1>1. RestTyped'
  BY RestStep
<1>2. run' \in [Runs -> RunState] /\ \A s \in Runs : Sound(run'[s])
  BY RunsStep
<1>3. QED
  BY <1>1, <1>2 DEF RestTyped, Typed, TypeOK, Resting, Sound

(* Every variable has its type in every reachable state.                   *)
THEOREM FeedTypeCorrect == Spec => []TypeOK
<1>1. Typed => TypeOK
  BY DEF Typed
<1>2. QED
  BY TypedInit, TypedStep, <1>1, PTL DEF Spec

-----------------------------------------------------------------------------
(* What was read stays read *)

(* What r holds of f is, after a step, still held, or told, or lost.       *)
Accounted(r, f) ==
  \/ run'[r].held[f] >= run[r].held[f]
  \/ \E e \in Entities : told'[e][f] >= run[r].held[f]
  \/ unread'[f] >= run[r].held[f]

Kept(f) ==
  /\ unread'[f] >= unread[f]
  /\ \A e \in Entities : told'[e][f] >= told[e][f]
  /\ \A r \in Runs : Accounted(r, f)

LEMMA TimesOf ==
  ASSUME Typed, NEW f \in Files
  PROVE  /\ unread[f] \in Time /\ edited[f] \in Time /\ snap[f] \in Time
         /\ \A e \in Entities : told[e][f] \in Time
         /\ \A r \in Runs : /\ run[r].held[f] \in Time /\ run[r].page[f] \in Time
                            /\ run[r].got \in Time
BY TimeFacts DEF Typed, TypeOK, RunState

(* A step that leaves told and unread alone, and what each run holds.      *)
LEMMA KeptAsIs ==
  ASSUME Typed, NEW f \in Files, told' = told, unread' = unread,
         \A r \in Runs : run'[r].held[f] = run[r].held[f] \/ run[r].held = NoFiles
  PROVE  Kept(f)
<1>1. \A r \in Runs : run[r].held = NoFiles => unread'[f] >= run[r].held[f]
  BY TimesOf, TimeFacts, NoFilesFacts
<1>2. \A r \in Runs : run'[r].held[f] = run[r].held[f] => run'[r].held[f] >= run[r].held[f]
  <2>1. \A r \in Runs : run[r].held[f] >= run[r].held[f]
    BY TimesOf, TimeFacts
  <2>2. QED
    BY <2>1
<1>3. unread[f] >= unread[f] /\ \A e \in Entities : told[e][f] >= told[e][f]
  BY TimesOf, TimeFacts
<1>4. QED
  BY <1>1, <1>2, <1>3 DEF Kept, Accounted

LEMMA KeptBySameHeld ==
  ASSUME Typed, NEW f \in Files, NEW r \in Runs, NEW R, Becomes(r, R), Sound(R),
         R.held = run[r].held \/ run[r].held = NoFiles, told' = told, unread' = unread
  PROVE  Kept(f)
<1>1. \A s \in Runs : run'[s].held[f] = run[s].held[f] \/ run[s].held = NoFiles
  BY OneRunChanges
<1>2. QED
  BY <1>1, KeptAsIs

LEMMA OthersKeep ==
  ASSUME Typed, NEW f \in Files, NEW r \in Runs, NEW R, Becomes(r, R), Sound(R)
  PROVE  \A s \in Runs \ {r} : run'[s].held[f] >= run[s].held[f]
<1>1. \A s \in Runs \ {r} : run[s].held[f] >= run[s].held[f]
  BY TimesOf, TimeFacts
<1>2. \A s \in Runs \ {r} : run'[s] = run[s]
  BY OneRunChanges
<1>3. QED
  BY <1>1, <1>2

LEMMA LosesKeeps ==
  ASSUME Typed, NEW f \in Files, NEW r \in Runs, NEW D, Loses(r, D),
         NEW R, Becomes(r, R), Sound(R)
  PROVE  Kept(f)
<1>1. told' = told /\ unread'[f] = Later(unread[f], run[r].held[f])
  BY DEF Loses
<1>2. unread'[f] >= unread[f] /\ unread'[f] >= run[r].held[f]
  BY <1>1, TimesOf, LaterFacts
<1>3. \A e \in Entities : told'[e][f] >= told[e][f]
  <2>1. \A e \in Entities : told[e][f] >= told[e][f]
    BY TimesOf, TimeFacts
  <2>2. QED
    BY <1>1, <2>1
<1>4. \A s \in Runs \ {r} : run'[s].held[f] >= run[s].held[f]
  BY OthersKeep
<1>5. QED
  BY <1>2, <1>3, <1>4 DEF Kept, Accounted

LEMMA DistillKeeps ==
  ASSUME Typed, NEW f \in Files, NEW r \in Runs, Distill(r),
         NEW R, Becomes(r, R), Sound(R)
  PROVE  Kept(f)
<1>1. run[r].entity \in Entities
  BY DEF Distill, Typed, TypeOK, RunState
<1>2. PICK D \in SUBSET Feeds(run[r].entity) :
        /\ told' = [e \in Entities |-> [g \in Files |->
              IF e \in D THEN Later(told[e][g], run[r].held[g]) ELSE told[e][g]]]
        /\ IF D = Feeds(run[r].entity) THEN UNCHANGED <<unread, failed>>
           ELSE /\ unread' = [g \in Files |-> Later(unread[g], run[r].held[g])]
                /\ failed' = failed \union {g \in Files : run[r].held[g] # Never}
  BY DEF Distill
<1>3. \A e \in Entities :
        told'[e][f] = IF e \in D THEN Later(told[e][f], run[r].held[f]) ELSE told[e][f]
  BY <1>2
<1>4. \A e \in Entities : told'[e][f] >= told[e][f]
  <2>1. \A e \in Entities : told[e][f] >= told[e][f]
    BY TimesOf, TimeFacts
  <2>2. \A e \in Entities : Later(told[e][f], run[r].held[f]) >= told[e][f]
    BY TimesOf, LaterFacts
  <2>3. QED
    BY <1>3, <2>1, <2>2
<1>5. unread'[f] \in {unread[f], Later(unread[f], run[r].held[f])}
  BY <1>2
<1>6. unread'[f] >= unread[f]
  <2>1. unread[f] >= unread[f] /\ Later(unread[f], run[r].held[f]) >= unread[f]
    BY TimesOf, TimeFacts, LaterFacts
  <2>2. QED
    BY <1>5, <2>1
<1>7. Accounted(r, f)
  <2>1. CASE D = Feeds(run[r].entity)
    <3>1. run[r].entity \in D
      BY <1>1, <2>1, FeedsType
    <3>2. told'[run[r].entity][f] >= run[r].held[f]
      BY <1>1, <1>3, <3>1, TimesOf, LaterFacts
    <3>3. QED
      BY <1>1, <3>2 DEF Accounted
  <2>2. CASE D # Feeds(run[r].entity)
    <3>1. unread'[f] = Later(unread[f], run[r].held[f])
      BY <1>2, <2>2
    <3>2. QED
      BY <3>1, TimesOf, LaterFacts DEF Accounted
  <2>3. QED
    BY <2>1, <2>2
<1>8. \A s \in Runs \ {r} : run'[s].held[f] >= run[s].held[f]
  BY OthersKeep
<1>9. QED
  BY <1>4, <1>6, <1>7, <1>8 DEF Kept, Accounted

(* A run that is not scanning an entity holds nothing.                     *)
LEMMA NothingHeld ==
  ASSUME Typed, NEW r \in Runs, run[r].pc # "scan" \/ run[r].entity = None
  PROVE  run[r].held = NoFiles
BY DEF Typed, TypeOK, Resting

LEMMA ClearsKeeps ==
  ASSUME Typed, NEW f \in Files, NEW r \in Runs, Clears(r)
  PROVE  Kept(f)
<1>1. PICK R : Becomes(r, R) /\ Sound(R)
  BY ClearedRun
<1>2. CASE StartRun(r) \/ Finish(r) \/ Capture(r) \/ Reap(r) \/ \E p \in Polls : Dispatch(p, r)
  <2>1. run[r].held = NoFiles
    BY <1>2, NothingHeld DEF StartRun, Finish, Capture, Reap, Dispatch, Over
  <2>2. told' = told /\ unread' = unread
    BY <1>2 DEF StartRun, Finish, Capture, Reap, Dispatch
  <2>3. QED
    BY <1>1, <2>1, <2>2, KeptBySameHeld
<1>3. CASE Distill(r)
  BY <1>1, <1>3, DistillKeeps
<1>4. CASE ScanFails(r)
  BY <1>1, <1>4, LosesKeeps DEF ScanFails
<1>5. CASE Die(r)
  BY <1>1, <1>5, LosesKeeps DEF Die
<1>6. QED
  BY <1>2, <1>3, <1>4, <1>5 DEF Clears

LEMMA ExtractKeeps ==
  ASSUME Typed, NotAhead, NEW f \in Files, NEW r \in Runs, NEW g \in Files, Extract(r, g)
  PROVE  Kept(f)
<1>1. PICK R : /\ Becomes(r, R) /\ Sound(R) /\ R.held = run[r].held
               /\ unread' \in {unread, [unread EXCEPT ![g] = edited[g]]}
  BY ExtractRun
<1>2. told' = told
  BY DEF Extract
<1>3. CASE unread' = unread
  BY <1>1, <1>2, <1>3, KeptBySameHeld
<1>4. CASE unread' = [unread EXCEPT ![g] = edited[g]]
  <2>1. unread[f] >= unread[f] /\ edited[f] >= unread[f]
    BY TimesOf, TimeFacts DEF NotAhead
  <2>2. unread'[f] \in {unread[f], edited[f]}
    BY <1>4 DEF Typed, TypeOK
  <2>3. unread'[f] >= unread[f]
    BY <2>1, <2>2
  <2>4. \A e \in Entities : told[e][f] >= told[e][f]
    BY TimesOf, TimeFacts
  <2>5. run'[r].held[f] >= run[r].held[f]
    <3>1. run'[r].held = run[r].held
      BY <1>1, OneRunChanges
    <3>2. run[r].held[f] >= run[r].held[f]
      BY TimesOf, TimeFacts
    <3>3. QED
      BY <3>1, <3>2
  <2>6. \A s \in Runs \ {r} : run'[s].held[f] >= run[s].held[f]
    BY <1>1, OthersKeep
  <2>7. QED
    BY <1>2, <2>3, <2>4, <2>5, <2>6 DEF Kept, Accounted
<1>5. QED
  BY <1>1, <1>3, <1>4

LEMMA SnapshotKeeps ==
  ASSUME Typed, NEW f \in Files, NEW r \in Runs, Snapshot(r)
  PROVE  Kept(f)
<1>1. PICK g \in Files : \E R :
        /\ Becomes(r, R) /\ Sound(R)
        /\ R.held = [run[r].held EXCEPT ![g] = Later(run[r].held[g], run[r].got)]
  BY SnapshotRun
<1>2. PICK R :
        /\ Becomes(r, R) /\ Sound(R)
        /\ R.held = [run[r].held EXCEPT ![g] = Later(run[r].held[g], run[r].got)]
  BY <1>1
<1>3. run'[r].held[f] \in {run[r].held[f], Later(run[r].held[f], run[r].got)}
  <2>1. run'[r].held = [run[r].held EXCEPT ![g] = Later(run[r].held[g], run[r].got)]
    BY <1>2, OneRunChanges
  <2>2. run[r].held \in [Files -> Time]
    BY DEF Typed, TypeOK, RunState
  <2>3. QED
    BY <2>1, <2>2
<1>4. run'[r].held[f] >= run[r].held[f]
  <2> run[r].held[f] \in Time /\ run[r].got \in Time
    BY TimesOf
  <2>1. run[r].held[f] >= run[r].held[f] /\ Later(run[r].held[f], run[r].got) >= run[r].held[f]
    BY TimeFacts, LaterFacts
  <2>2. QED
    BY <1>3, <2>1
<1>5. \A s \in Runs \ {r} : run'[s].held[f] >= run[s].held[f]
  BY <1>2, OthersKeep
<1>6. /\ unread[f] >= unread[f]
      /\ \A e \in Entities : told[e][f] >= told[e][f]
  BY TimesOf, TimeFacts
<1>7. QED
  BY <1>4, <1>5, <1>6 DEF Kept, Accounted, Snapshot

LEMMA KeptStep ==
  ASSUME Typed, NotAhead, [Next]_vars, NEW f \in Files
  PROVE  Kept(f)
<1>1. CASE run' = run /\ told' = told /\ unread' = unread
  BY <1>1, KeptAsIs
<1>2. ASSUME NEW r \in Runs, Clears(r) PROVE Kept(f)
  BY <1>2, ClearsKeeps
<1>3. ASSUME NEW r \in Runs, NEW e \in Entities, BeginScan(r, e) \/ ListFolder(r, e)
      PROVE  Kept(f)
  <2>1. \E R : Becomes(r, R) /\ Sound(R) /\ R.held = run[r].held
    BY <1>3, BeginScanRun, ListFolderRun
  <2>2. told' = told /\ unread' = unread
    BY <1>3 DEF BeginScan, ListFolder
  <2>3. QED
    BY <2>1, <2>2, KeptBySameHeld
<1>4. ASSUME NEW r \in Runs, NEW g \in Files, SkipFile(r, g) PROVE Kept(f)
  <2>1. \E R : Becomes(r, R) /\ Sound(R) /\ R.held = run[r].held
    BY <1>4, SkipFileRun
  <2>2. told' = told /\ unread' = unread
    BY <1>4 DEF SkipFile
  <2>3. QED
    BY <2>1, <2>2, KeptBySameHeld
<1>5. ASSUME NEW r \in Runs, NEW g \in Files, Extract(r, g) PROVE Kept(f)
  BY <1>5, ExtractKeeps
<1>6. ASSUME NEW r \in Runs, Snapshot(r) PROVE Kept(f)
  BY <1>6, SnapshotKeeps
<1>7. QED
  BY <1>1, <1>2, <1>3, <1>4, <1>5, <1>6
  DEF Next, Sync, Polling, Clears, Edit, PollChanges, ExpireToken, Defer,
      AbandonPoll, PersistToken, vars, scans

SettledAfter(f, t) ==
  \/ \E e \in Entities : told'[e][f] >= t
  \/ \E r \in Runs : run'[r].held[f] >= t
  \/ unread'[f] >= t

(* Content settled since t stays so, and is settled since any earlier time. *)
LEMMA SettledStays ==
  ASSUME Typed, Typed', NEW f \in Files, Kept(f), NEW t \in Time, SettledSince(f, t)
  PROVE  SettledAfter(f, t)
<1>1. /\ unread[f] \in Int /\ unread'[f] \in Int /\ t \in Int
      /\ \A e \in Entities : told[e][f] \in Int /\ told'[e][f] \in Int
      /\ \A r \in Runs : run[r].held[f] \in Int /\ run'[r].held[f] \in Int
  <2>1. /\ unread[f] \in Int /\ t \in Int
        /\ \A e \in Entities : told[e][f] \in Int
        /\ \A r \in Runs : run[r].held[f] \in Int
    BY TimesOf, TimeFacts
  <2>2. /\ unread' \in [Files -> Time] /\ told' \in [Entities -> [Files -> Time]]
        /\ run' \in [Runs -> RunState]
    BY DEF Typed, TypeOK
  <2>3. unread'[f] \in Int /\ \A e \in Entities : told'[e][f] \in Int
    BY <2>2, TimeFacts
  <2>4. \A r \in Runs : run'[r].held \in [Files -> Time]
    BY <2>2 DEF RunState
  <2>5. \A r \in Runs : run'[r].held[f] \in Int
    BY <2>4, TimeFacts
  <2>6. QED
    BY <2>1, <2>3, <2>5
<1>2. CASE \E e \in Entities : told[e][f] >= t
  BY <1>1, <1>2 DEF Kept, SettledSince, SettledAfter
<1>3. CASE \E r \in Runs : run[r].held[f] >= t
  <2>1. PICK r \in Runs : run[r].held[f] >= t
    BY <1>3
  <2>2. Accounted(r, f)
    BY DEF Kept
  <2>3. QED
    BY <1>1, <2>1, <2>2 DEF Accounted, SettledSince, SettledAfter
<1>4. CASE unread[f] >= t
  BY <1>1, <1>4 DEF Kept, SettledSince, SettledAfter
<1>5. QED
  BY <1>2, <1>3, <1>4 DEF SettledSince

LEMMA SettledEarlier ==
  ASSUME Typed, NEW f \in Files, NEW s \in Time, NEW t \in Time, s <= t, SettledSince(f, t)
  PROVE  SettledSince(f, s)
<1>1. /\ unread[f] \in Int /\ s \in Int /\ t \in Int
      /\ \A e \in Entities : told[e][f] \in Int
      /\ \A r \in Runs : run[r].held[f] \in Int
  BY TimesOf, TimeFacts
<1>2. QED
  BY <1>1 DEF SettledSince

-----------------------------------------------------------------------------
(* No run is ahead of the edits *)

Behind(R, f) == /\ R.page[f] <= edited[f]
                /\ R.held[f] <= edited[f]
                /\ R.file = f => R.got <= edited[f]

LEMMA AheadByRun ==
  ASSUME Typed, NotAhead, NEW r \in Runs, NEW R, Becomes(r, R), Sound(R),
         edited' = edited, clock' = clock,
         \A f \in Files : Behind(R, f),
         \A f \in Files : unread'[f] <= edited[f]
  PROVE  NotAhead'
<1>1. run'[r] = R /\ \A s \in Runs \ {r} : run'[s] = run[s]
  BY OneRunChanges
<1>2. QED
  BY <1>1 DEF NotAhead, Behind

LEMMA AheadEmpty ==
  ASSUME Typed, NEW R, Empty(R), NEW f \in Files
  PROVE  Behind(R, f)
<1>1. f # None /\ Never <= edited[f]
  BY FeedAssumption, TimesOf, TimeFacts
<1>2. QED
  BY <1>1, NoFilesFacts DEF Empty, Behind

LEMMA AheadClears ==
  ASSUME Typed, NotAhead, NEW r \in Runs, Clears(r)
  PROVE  NotAhead'
<1>1. PICK R : Becomes(r, R) /\ Sound(R) /\ Empty(R)
  BY ClearedRun
<1>2. edited' = edited /\ clock' = clock
  BY DEF Clears, StartRun, Distill, ScanFails, Die, Loses, Finish, Capture, Reap, Dispatch,
     drive
<1>3. \/ unread' = unread
      \/ unread' = [f \in Files |-> Later(unread[f], run[r].held[f])]
  BY DEF Clears, StartRun, Distill, ScanFails, Die, Loses, Finish, Capture, Reap, Dispatch
<1>4. ASSUME NEW f \in Files PROVE unread'[f] <= edited[f]
  <2>1. unread[f] <= edited[f] /\ run[r].held[f] <= edited[f]
    BY DEF NotAhead
  <2>2. Later(unread[f], run[r].held[f]) <= edited[f]
    BY <2>1, TimesOf, LaterFacts
  <2>3. QED
    BY <1>3, <2>1, <2>2
<1>5. QED
  BY <1>1, <1>2, <1>4, AheadEmpty, AheadByRun

LEMMA AheadScan ==
  ASSUME Typed, NotAhead, NEW r \in Runs, NEW e \in Entities,
         BeginScan(r, e) \/ ListFolder(r, e)
  PROVE  NotAhead'
<1>1. edited' = edited /\ clock' = clock /\ unread' = unread
  BY DEF BeginScan, ListFolder, drive
<1>2. CASE BeginScan(r, e)
  <2>1. PICK R : /\ Becomes(r, R) /\ Sound(R) /\ R.page = run[r].page
                 /\ R.held = run[r].held /\ R.file = run[r].file /\ R.got = run[r].got
    BY <1>2, BeginScanRun
  <2>2. \A f \in Files : Behind(R, f) /\ unread[f] <= edited[f]
    BY <2>1 DEF NotAhead, Behind
  <2>3. QED
    BY <1>1, <2>1, <2>2, AheadByRun
<1>3. CASE ListFolder(r, e)
  <2>1. PICK R : /\ Becomes(r, R) /\ Sound(R) /\ R.held = run[r].held /\ R.file = None
                 /\ \A f \in Files : R.page[f] \in {edited[f], run[r].page[f]}
    BY <1>3, ListFolderRun
  <2>2. \A f \in Files : edited[f] <= edited[f] /\ f # None
    BY TimesOf, TimeFacts, FeedAssumption
  <2>3. \A f \in Files : Behind(R, f) /\ unread[f] <= edited[f]
    BY <2>1, <2>2 DEF NotAhead, Behind
  <2>4. QED
    BY <1>1, <2>1, <2>3, AheadByRun
<1>4. QED
  BY <1>2, <1>3

LEMMA AheadTake ==
  ASSUME Typed, NotAhead, NEW r \in Runs, NEW g \in Files,
         SkipFile(r, g) \/ Extract(r, g)
  PROVE  NotAhead'
<1>1. edited' = edited /\ clock' = clock
  BY DEF SkipFile, Extract, drive
<1>2. PICK R : /\ Becomes(r, R) /\ Sound(R) /\ R.page = run[r].page
               /\ R.held = run[r].held /\ R.file = g /\ R.got \in {Never, edited[g]}
  BY SkipFileRun, ExtractRun
<1>3. unread' \in {unread, [unread EXCEPT ![g] = edited[g]]}
  BY DEF SkipFile, Extract
<1>4. \A f \in Files : Never <= edited[f] /\ edited[f] <= edited[f]
  BY TimesOf, TimeFacts
<1>5. \A f \in Files : Behind(R, f)
  BY <1>2, <1>4 DEF NotAhead, Behind
<1>6. \A f \in Files : unread'[f] <= edited[f]
  BY <1>3, <1>4 DEF NotAhead, Typed, TypeOK
<1>7. QED
  BY <1>1, <1>2, <1>5, <1>6, AheadByRun

LEMMA AheadSnapshot ==
  ASSUME Typed, NotAhead, NEW r \in Runs, Snapshot(r)
  PROVE  NotAhead'
<1>1. PICK g \in Files : \E R :
        /\ g = run[r].file /\ Becomes(r, R) /\ Sound(R) /\ R.file = None
        /\ \A f \in Files : R.page[f] \in {Never, run[r].page[f]}
        /\ R.held = [run[r].held EXCEPT ![g] = Later(run[r].held[g], run[r].got)]
  BY SnapshotRun
<1>2. PICK R :
        /\ g = run[r].file /\ Becomes(r, R) /\ Sound(R) /\ R.file = None
        /\ \A f \in Files : R.page[f] \in {Never, run[r].page[f]}
        /\ R.held = [run[r].held EXCEPT ![g] = Later(run[r].held[g], run[r].got)]
  BY <1>1
<1>3. edited' = edited /\ clock' = clock /\ unread' = unread
  BY DEF Snapshot, drive
<1>4. Later(run[r].held[g], run[r].got) <= edited[g]
  <2>1. run[r].held[g] <= edited[g] /\ run[r].got <= edited[g]
    BY <1>2 DEF NotAhead
  <2>2. QED
    BY <2>1, TimesOf, LaterFacts
<1>5. ASSUME NEW f \in Files PROVE Behind(R, f) /\ unread[f] <= edited[f]
  <2>1. Never <= edited[f] /\ f # None
    BY TimesOf, TimeFacts, FeedAssumption
  <2>2. run[r].held \in [Files -> Time]
    BY DEF Typed, TypeOK, RunState
  <2>3. R.held[f] <= edited[f]
    BY <1>2, <1>4, <2>2 DEF NotAhead
  <2>4. QED
    BY <1>2, <2>1, <2>3 DEF NotAhead, Behind
<1>6. QED
  BY <1>2, <1>3, <1>5, AheadByRun

LEMMA AheadEdit ==
  ASSUME Typed, NotAhead, NEW f \in Files, Edit(f)
  PROVE  NotAhead'
<1>1. /\ run' = run /\ unread' = unread /\ clock' = clock + 1
      /\ edited' = [edited EXCEPT ![f] = clock + 1]
  BY DEF Edit, scans
<1>2. ASSUME NEW g \in Files PROVE edited[g] <= edited'[g] /\ edited'[g] <= clock'
  BY <1>1, FeedAssumption DEF NotAhead, Typed, TypeOK
<1>3. SUFFICES ASSUME NEW g \in Files, NEW t \in Time, t <= edited[g]
               PROVE  t <= edited'[g]
  BY <1>1, <1>2, TimesOf DEF NotAhead
<1>4. edited'[g] \in Int
  BY <1>1, FeedAssumption DEF Typed, TypeOK
<1>5. QED
  BY <1>2, <1>3, <1>4, TimesOf, TimeFacts

LEMMA AheadStep == Typed /\ NotAhead /\ [Next]_vars => NotAhead'
<1> SUFFICES ASSUME Typed, NotAhead, [Next]_vars PROVE NotAhead'
  OBVIOUS
<1>1. CASE run' = run /\ unread' = unread /\ edited' = edited /\ clock' = clock
  BY <1>1 DEF NotAhead
<1>2. QED
  BY <1>1, AheadClears, AheadScan, AheadTake, AheadSnapshot, AheadEdit
  DEF Next, Sync, Polling, Clears, PollChanges, ExpireToken, Defer,
      AbandonPoll, PersistToken, vars, scans, drive

-----------------------------------------------------------------------------
(* A snapshot claims what was read *)

HandOK(R, f) == R.file = f =>
  \/ R.got # Never /\ R.got >= R.page[f]
  \/ SettledSince(f, R.page[f])

(* A step that writes no snapshot needs to be looked at for one run only.  *)
LEMMA ReadByRun ==
  ASSUME FeedInv, Typed', NEW r \in Runs, NEW R, Becomes(r, R), Sound(R), snap' = snap,
         \A f \in Files : Kept(f),
         \A f \in Files : HandOK(R, f) \/ SettledAfter(f, R.page[f])
  PROVE  HandRead' /\ SnapSettled'
<1>0. Typed
  BY DEF FeedInv
<1>1. run'[r] = R /\ \A s \in Runs \ {r} : run'[s] = run[s]
  BY <1>0, OneRunChanges
<1>2. SnapSettled'
  <2>1. \A f \in Files : snap[f] # Never => SettledAfter(f, snap[f])
    BY <1>0, TimesOf, SettledStays DEF FeedInv, SnapSettled
  <2>2. QED
    BY <2>1 DEF SnapSettled, SettledSince, SettledAfter
<1>3. \A f \in Files : R.page[f] \in Time
  BY DEF Sound, RunState
<1>4. ASSUME NEW f \in Files, R.file = f
      PROVE  (R.got # Never /\ R.got >= R.page[f]) \/ SettledAfter(f, R.page[f])
  BY <1>0, <1>3, <1>4, SettledStays DEF HandOK
<1>5. ASSUME NEW s \in Runs \ {r}, NEW f \in Files, run[s].file = f
      PROVE  \/ run[s].got # Never /\ run[s].got >= run[s].page[f]
             \/ SettledAfter(f, run[s].page[f])
  BY <1>0, <1>5, TimesOf, SettledStays DEF FeedInv, HandRead
<1>6. ASSUME NEW s \in Runs, NEW f \in Files, run'[s].file = f
      PROVE  \/ run'[s].got # Never /\ run'[s].got >= run'[s].page[f]
             \/ SettledAfter(f, run'[s].page[f])
  <2>1. CASE s = r
    BY <1>1, <1>4, <1>6, <2>1
  <2>2. CASE s # r
    BY <1>1, <1>5, <1>6, <2>2
  <2>3. QED
    BY <2>1, <2>2
<1>7. HandRead'
  BY <1>6 DEF HandRead, SettledSince, SettledAfter
<1>8. QED
  BY <1>2, <1>7

LEMMA ReadTake ==
  ASSUME FeedInv, Typed', NEW r \in Runs, NEW g \in Files, \A f \in Files : Kept(f),
         SkipFile(r, g) \/ Extract(r, g)
  PROVE  HandRead' /\ SnapSettled'
<1>0. Typed /\ NotAhead
  BY DEF FeedInv
<1>1. run[r].page[g] \in Time /\ run[r].page[g] # Never
  BY <1>0, TimesOf DEF SkipFile, Extract, Takes
<1>2. CASE SkipFile(r, g)
  <2>1. PICK R : /\ Becomes(r, R) /\ Sound(R) /\ R.page = run[r].page /\ R.file = g
    BY <1>0, <1>2, SkipFileRun
  <2>2. snap[g] >= run[r].page[g]
    BY <1>2 DEF SkipFile, Unchanged
  <2>3. snap[g] \in Time /\ snap[g] # Never /\ run[r].page[g] <= snap[g]
    BY <1>0, <1>1, <2>2, TimesOf DEF Time, Never
  <2>4. SettledSince(g, snap[g])
    BY <2>3 DEF FeedInv, SnapSettled
  <2>5. SettledSince(g, run[r].page[g])
    BY <1>0, <1>1, <2>3, <2>4, SettledEarlier
  <2>6. \A f \in Files : HandOK(R, f)
    BY <2>1, <2>5 DEF HandOK
  <2>7. snap' = snap
    BY <1>2 DEF SkipFile
  <2>8. QED
    BY <2>1, <2>6, <2>7, ReadByRun
<1>3. CASE Extract(r, g)
  <2>1. PICK R : /\ Becomes(r, R) /\ Sound(R) /\ R.page = run[r].page /\ R.file = g
                 /\ \/ R.got = edited[g]
                    \/ unread' = [unread EXCEPT ![g] = edited[g]]
    BY <1>0, <1>3, ExtractRun
  <2>2. edited[g] # Never /\ edited[g] >= run[r].page[g]
    BY <1>0, <1>1, TimesOf, FeedAssumption DEF NotAhead, Typed, TypeOK, Never, Time
  <2>3. HandOK(R, g) \/ SettledAfter(g, R.page[g])
    BY <1>0, <2>1, <2>2 DEF HandOK, SettledAfter, Typed, TypeOK
  <2>4. \A f \in Files : HandOK(R, f) \/ SettledAfter(f, R.page[f])
    BY <2>1, <2>3 DEF HandOK
  <2>5. snap' = snap
    BY <1>3 DEF Extract
  <2>6. QED
    BY <2>1, <2>4, <2>5, ReadByRun
<1>4. QED
  BY <1>2, <1>3

(* The one step that makes a new claim.                                    *)
LEMMA ReadSnapshot ==
  ASSUME FeedInv, Typed', NEW r \in Runs, \A f \in Files : Kept(f), Snapshot(r)
  PROVE  HandRead' /\ SnapSettled'
<1>0. Typed
  BY DEF FeedInv
<1>1. PICK g \in Files : \E R :
        /\ g = run[r].file /\ Becomes(r, R) /\ Sound(R) /\ R.file = None
        /\ R.held = [run[r].held EXCEPT ![g] = Later(run[r].held[g], run[r].got)]
        /\ snap' = [snap EXCEPT ![g] = run[r].page[g]]
  BY <1>0, SnapshotRun
<1>2. PICK R :
        /\ g = run[r].file /\ Becomes(r, R) /\ Sound(R) /\ R.file = None
        /\ R.held = [run[r].held EXCEPT ![g] = Later(run[r].held[g], run[r].got)]
        /\ snap' = [snap EXCEPT ![g] = run[r].page[g]]
  BY <1>1
<1>3. run'[r] = R /\ \A s \in Runs \ {r} : run'[s] = run[s]
  BY <1>0, <1>2, OneRunChanges
<1>4. run[r].page[g] \in Time /\ run[r].got \in Time /\ run[r].held[g] \in Time
  BY <1>0, TimesOf
<1>5. SettledAfter(g, run[r].page[g])
  <2>1. CASE run[r].got # Never /\ run[r].got >= run[r].page[g]
    <3>1. run'[r].held[g] = Later(run[r].held[g], run[r].got)
      BY <1>0, <1>2, <1>3 DEF Typed, TypeOK, RunState
    <3>2. Later(run[r].held[g], run[r].got) >= run[r].page[g]
      BY <1>4, <2>1, LaterFacts, TimeFacts
    <3>3. QED
      BY <3>1, <3>2 DEF SettledAfter
  <2>2. CASE SettledSince(g, run[r].page[g])
    BY <1>0, <1>4, <2>2, SettledStays
  <2>3. QED
    BY <1>2, <2>1, <2>2 DEF FeedInv, HandRead
<1>6. SnapSettled'
  <2>1. \A f \in Files : snap[f] # Never => SettledAfter(f, snap[f])
    BY <1>0, TimesOf, SettledStays DEF FeedInv, SnapSettled
  <2>2. snap \in [Files -> Time]
    BY <1>0 DEF Typed, TypeOK
  <2>3. \A f \in Files : snap'[f] # Never => SettledAfter(f, snap'[f])
    BY <1>2, <1>5, <2>1, <2>2
  <2>4. QED
    BY <2>3 DEF SnapSettled, SettledSince, SettledAfter
<1>7. ASSUME NEW s \in Runs \ {r}, NEW f \in Files, run[s].file = f
      PROVE  \/ run[s].got # Never /\ run[s].got >= run[s].page[f]
             \/ SettledAfter(f, run[s].page[f])
  BY <1>0, <1>7, TimesOf, SettledStays DEF FeedInv, HandRead
<1>8. ASSUME NEW s \in Runs, NEW f \in Files, run'[s].file = f
      PROVE  \/ run'[s].got # Never /\ run'[s].got >= run'[s].page[f]
             \/ SettledAfter(f, run'[s].page[f])
  <2>1. s # r
    BY <1>2, <1>3, <1>8, FeedAssumption
  <2>2. QED
    BY <1>3, <1>7, <1>8, <2>1
<1>9. HandRead'
  BY <1>8 DEF HandRead, SettledSince, SettledAfter
<1>10. QED
  BY <1>6, <1>9

(* The steps that let go of all a run holds, or leave its hand as it was.  *)
LEMMA ReadScan ==
  ASSUME FeedInv, Typed', NEW r \in Runs, \A f \in Files : Kept(f),
         Clears(r) \/ \E e \in Entities : BeginScan(r, e) \/ ListFolder(r, e)
  PROVE  HandRead' /\ SnapSettled'
<1>0. Typed
  BY DEF FeedInv
<1>1. snap' = snap
  BY DEF Clears, StartRun, Distill, ScanFails, Die, Loses, Finish, Capture, Reap, Dispatch,
     BeginScan, ListFolder
<1>2. \A f \in Files : f # None
  BY FeedAssumption
<1>3. CASE Clears(r)
  <2>1. PICK R : Becomes(r, R) /\ Sound(R) /\ Empty(R)
    BY <1>0, <1>3, ClearedRun
  <2>2. \A f \in Files : HandOK(R, f)
    BY <1>2, <2>1 DEF Empty, HandOK
  <2>3. QED
    BY <1>1, <2>1, <2>2, ReadByRun
<1>4. ASSUME NEW e \in Entities, ListFolder(r, e) PROVE HandRead' /\ SnapSettled'
  <2>1. PICK R : Becomes(r, R) /\ Sound(R) /\ R.file = None
    BY <1>0, <1>4, ListFolderRun
  <2>2. \A f \in Files : HandOK(R, f)
    BY <1>2, <2>1 DEF HandOK
  <2>3. QED
    BY <1>1, <2>1, <2>2, ReadByRun
<1>5. ASSUME NEW e \in Entities, BeginScan(r, e) PROVE HandRead' /\ SnapSettled'
  <2>1. PICK R : /\ Becomes(r, R) /\ Sound(R) /\ R.page = run[r].page
                 /\ R.file = run[r].file /\ R.got = run[r].got
    BY <1>0, <1>5, BeginScanRun
  <2>2. \A f \in Files : HandOK(R, f)
    BY <2>1 DEF FeedInv, HandRead, HandOK
  <2>3. QED
    BY <1>1, <2>1, <2>2, ReadByRun
<1>6. QED
  BY <1>3, <1>4, <1>5

(* The steps of polls and of Google Drive. *)
LEMMA ReadElsewhere ==
  ASSUME FeedInv, Typed', \A f \in Files : Kept(f), run' = run, snap' = snap
  PROVE  HandRead' /\ SnapSettled'
<1>0. Typed
  BY DEF FeedInv
<1>1. \A f \in Files : snap[f] # Never => SettledAfter(f, snap[f])
  BY <1>0, TimesOf, SettledStays DEF FeedInv, SnapSettled
<1>2. ASSUME NEW s \in Runs, NEW f \in Files, run[s].file = f
      PROVE  \/ run[s].got # Never /\ run[s].got >= run[s].page[f]
             \/ SettledAfter(f, run[s].page[f])
  BY <1>0, <1>2, TimesOf, SettledStays DEF FeedInv, HandRead
<1>3. SnapSettled'
  BY <1>1 DEF SnapSettled, SettledSince, SettledAfter
<1>4. HandRead'
  BY <1>2 DEF HandRead, SettledSince, SettledAfter
<1>5. QED
  BY <1>3, <1>4

LEMMA FeedInit == Init => FeedInv
<1> SUFFICES ASSUME Init PROVE FeedInv
  OBVIOUS
<1>1. Typed
  BY TypedInit
<1>2. \A f \in Files : f # None
  BY FeedAssumption
<1>3. NotAhead
  BY <1>2, NoFilesFacts DEF Init, NotAhead, NoRun, Never
<1>4. HandRead
  BY <1>2 DEF Init, HandRead, NoRun
<1>5. SnapSettled
  BY NoFilesFacts DEF Init, SnapSettled
<1>6. QED
  BY <1>1, <1>3, <1>4, <1>5 DEF FeedInv

LEMMA FeedStep == FeedInv /\ [Next]_vars => FeedInv'
<1> SUFFICES ASSUME FeedInv, [Next]_vars PROVE FeedInv'
  OBVIOUS
<1>0. Typed /\ NotAhead
  BY DEF FeedInv
<1>1. Typed' /\ NotAhead'
  BY <1>0, TypedStep, AheadStep
<1>2. \A f \in Files : Kept(f)
  BY <1>0, KeptStep
<1>3. CASE run' = run /\ snap' = snap
  BY <1>1, <1>2, <1>3, ReadElsewhere DEF FeedInv
<1>4. ASSUME NEW r \in Runs,
             Clears(r) \/ \E e \in Entities : BeginScan(r, e) \/ ListFolder(r, e)
      PROVE  FeedInv'
  BY <1>1, <1>2, <1>4, ReadScan DEF FeedInv
<1>5. ASSUME NEW r \in Runs, NEW g \in Files, SkipFile(r, g) \/ Extract(r, g)
      PROVE  FeedInv'
  BY <1>1, <1>2, <1>5, ReadTake DEF FeedInv
<1>6. ASSUME NEW r \in Runs, Snapshot(r) PROVE FeedInv'
  BY <1>1, <1>2, <1>6, ReadSnapshot DEF FeedInv
<1>7. QED
  BY <1>3, <1>4, <1>5, <1>6
  DEF Next, Sync, Polling, Clears, Edit, PollChanges, ExpireToken, Defer,
      AbandonPoll, PersistToken, vars, scans

(* A file a scan passes over as unchanged has been read as it is: the time *)
(* a snapshot claims is that of content which some run has read since, in  *)
(* whatever order runs list, read and record a file, and wherever they     *)
(* fail.                                                                   *)
THEOREM SnapshotsClaimWhatWasRead == Spec => []PassedOverWasRead
<1>1. FeedInv => PassedOverWasRead
  BY DEF FeedInv, SnapSettled, SettledSince, PassedOverWasRead, ReadSince
<1>2. QED
  BY FeedInit, FeedStep, <1>1, PTL DEF Spec

-----------------------------------------------------------------------------
(* What was extracted is not extracted again *)

(* Content that was extracted, and that nothing is known to have gone      *)
(* wrong with, has its snapshot or is in the hand that will write it; and  *)
(* every listing of the file shows that content, for one that showed an    *)
(* older would set the snapshot back.                                      *)
Recorded(f) ==
  /\ snap[f] >= edited[f] \/ \E r \in Runs : run[r].file = f
  /\ \A r \in Runs : run[r].page[f] # Never => run[r].page[f] >= edited[f]

OnceInv == \A f \in tried \ slipped : Recorded(f)

LEMMA NoListing ==
  ASSUME Typed, NEW r \in Runs, run[r].pc # "scan" \/ run[r].page = NoFiles
  PROVE  run[r].page = NoFiles /\ run[r].file = None
<1>1. Sound(run[r])
  BY TypedRuns DEF Typed, TypeOK
<1>2. run[r].page = NoFiles
  BY <1>1 DEF Sound
<1>3. run[r].file # None => run[r].page[run[r].file] # Never /\ run[r].file \in Files
  BY <1>1 DEF Sound, RunState
<1>4. QED
  BY <1>2, <1>3, NoFilesFacts

(* A step that writes no snapshot and takes no file out of a run's hand    *)
(* but as one that may be extracted again.                                 *)
LEMMA OnceByRun ==
  ASSUME Typed, OnceInv, NEW r \in Runs, NEW R, Becomes(r, R), Sound(R),
         UNCHANGED <<edited, snap, tried>>, slipped \subseteq slipped',
         \A f \in Files : run[r].file = f => R.file = f \/ f \in slipped',
         \A f \in Files : R.page[f] \in {Never, edited[f], run[r].page[f]}
  PROVE  OnceInv'
<1> SUFFICES ASSUME NEW f \in tried \ slipped', f \in Files PROVE Recorded(f)'
  BY DEF OnceInv, Typed, TypeOK
<1>1. run'[r] = R /\ \A s \in Runs \ {r} : run'[s] = run[s]
  BY OneRunChanges
<1>2. Recorded(f)
  BY DEF OnceInv
<1>3. snap[f] >= edited[f] \/ \E s \in Runs : run'[s].file = f
  BY <1>1, <1>2 DEF Recorded
<1>4. edited[f] >= edited[f]
  BY TimesOf, TimeFacts
<1>5. \A s \in Runs : run'[s].page[f] # Never => run'[s].page[f] >= edited[f]
  <2>1. \A s \in Runs \ {r} : run'[s].page[f] # Never => run'[s].page[f] >= edited[f]
    BY <1>1, <1>2 DEF Recorded
  <2>2. R.page[f] # Never => R.page[f] >= edited[f]
    BY <1>2, <1>4 DEF Recorded
  <2>3. QED
    BY <1>1, <2>1, <2>2
<1>6. QED
  BY <1>3, <1>5 DEF Recorded

LEMMA OnceClears ==
  ASSUME Typed, OnceInv, NEW r \in Runs, Clears(r)
  PROVE  OnceInv'
<1>1. PICK R : Becomes(r, R) /\ Sound(R) /\ Empty(R)
  BY ClearedRun
<1>2. UNCHANGED <<edited, snap, tried>> /\ slipped \subseteq slipped'
  BY DEF Clears, StartRun, Distill, ScanFails, Die, Loses, Finish, Capture, Reap, Dispatch,
     drive, repeat
<1>3. ASSUME NEW f \in Files, run[r].file = f PROVE f \in slipped'
  <2>1. f # None
    BY FeedAssumption
  <2>2. CASE ScanFails(r) \/ Die(r)
    BY <1>3, <2>1, <2>2 DEF ScanFails, Die, Loses
  <2>3. CASE ~(ScanFails(r) \/ Die(r))
    <3>1. run[r].pc # "scan" \/ run[r].entity = None \/ run[r].page = NoFiles
      BY <2>3 DEF Clears, StartRun, Distill, Finish, Capture, Reap, Dispatch, Over
    <3>2. run[r].page = NoFiles
      BY <3>1 DEF Typed, TypeOK, Resting
    <3>3. QED
      BY <1>3, <2>1, <3>2, NoListing
  <2>4. QED
    BY <2>2, <2>3
<1>4. \A f \in Files : R.page[f] = Never
  BY <1>1, NoFilesFacts DEF Empty
<1>5. QED
  BY <1>1, <1>2, <1>3, <1>4, OnceByRun

LEMMA OnceScan ==
  ASSUME Typed, OnceInv, NEW r \in Runs,
         \/ \E e \in Entities : BeginScan(r, e) \/ ListFolder(r, e)
         \/ \E f \in Files : SkipFile(r, f)
  PROVE  OnceInv'
<1>1. UNCHANGED <<edited, snap, tried, slipped>>
  BY DEF BeginScan, ListFolder, SkipFile, drive, repeat
<1>2. \A f \in Files : f # None
  BY FeedAssumption
<1>3. ASSUME NEW e \in Entities, BeginScan(r, e) PROVE OnceInv'
  BY <1>1, <1>3, BeginScanRun, OnceByRun
<1>4. ASSUME NEW e \in Entities, ListFolder(r, e) PROVE OnceInv'
  <2>1. PICK R : /\ Becomes(r, R) /\ Sound(R)
                 /\ \A f \in Files : R.page[f] \in {edited[f], run[r].page[f]}
    BY <1>4, ListFolderRun
  <2>2. run[r].file = None
    BY <1>4 DEF ListFolder
  <2>3. QED
    BY <1>1, <1>2, <2>1, <2>2, OnceByRun
<1>5. ASSUME NEW g \in Files, SkipFile(r, g) PROVE OnceInv'
  <2>1. PICK R : Becomes(r, R) /\ Sound(R) /\ R.page = run[r].page
    BY <1>5, SkipFileRun
  <2>2. run[r].file = None
    BY <1>5 DEF SkipFile, Takes
  <2>3. QED
    BY <1>1, <1>2, <2>1, <2>2, OnceByRun
<1>6. QED
  BY <1>3, <1>4, <1>5

LEMMA OnceSnapshot ==
  ASSUME Typed, OnceInv, NEW r \in Runs, Snapshot(r)
  PROVE  OnceInv'
<1>1. PICK g \in Files : \E R :
        /\ g = run[r].file /\ Becomes(r, R) /\ Sound(R)
        /\ \A f \in Files : R.page[f] \in {Never, run[r].page[f]}
        /\ snap' = [snap EXCEPT ![g] = run[r].page[g]]
  BY SnapshotRun
<1>2. PICK R :
        /\ g = run[r].file /\ Becomes(r, R) /\ Sound(R)
        /\ \A f \in Files : R.page[f] \in {Never, run[r].page[f]}
        /\ snap' = [snap EXCEPT ![g] = run[r].page[g]]
  BY <1>1
<1>3. UNCHANGED <<edited, tried, slipped>> /\ snap \in [Files -> Time]
  BY DEF Snapshot, drive, repeat, Typed, TypeOK
<1>4. run'[r] = R /\ \A s \in Runs \ {r} : run'[s] = run[s]
  BY <1>2, OneRunChanges
<1>5. run[r].page[g] # Never
  BY <1>2, FeedAssumption DEF Typed, TypeOK
<1> SUFFICES ASSUME NEW f \in tried \ slipped, f \in Files PROVE Recorded(f)'
  BY <1>3 DEF OnceInv, Typed, TypeOK
<1>6. Recorded(f)
  BY DEF OnceInv
<1>7. snap'[f] >= edited[f] \/ \E s \in Runs : run'[s].file = f
  <2>1. CASE f = g
    BY <1>2, <1>3, <1>5, <1>6, <2>1 DEF Recorded
  <2>2. CASE f # g
    <3>1. snap'[f] = snap[f]
      BY <1>2, <1>3, <2>2
    <3>2. \A s \in Runs : run[s].file = f => run'[s].file = f
      BY <1>2, <1>4, <2>2
    <3>3. QED
      BY <1>6, <3>1, <3>2 DEF Recorded
  <2>3. QED
    BY <2>1, <2>2
<1>8. \A s \in Runs : run'[s].page[f] # Never => run'[s].page[f] >= edited[f]
  BY <1>2, <1>4, <1>6 DEF Recorded
<1>9. QED
  BY <1>3, <1>7, <1>8 DEF Recorded

LEMMA OnceExtract ==
  ASSUME Typed, OnceInv, NEW r \in Runs, NEW g \in Files, Extract(r, g)
  PROVE  OnceInv'
<1>1. PICK R : Becomes(r, R) /\ Sound(R) /\ R.page = run[r].page /\ R.file = g
  BY ExtractRun
<1>2. /\ UNCHANGED <<edited, snap>> /\ tried' = tried \union {g}
      /\ slipped' = IF edited[g] > run[r].page[g] \/ \E s \in Runs \ {r} : ~Over(s)
                    THEN slipped \union {g} ELSE slipped
      /\ run[r].file = None
  BY DEF Extract, Takes, drive
<1>3. run'[r] = R /\ \A s \in Runs \ {r} : run'[s] = run[s]
  BY <1>1, OneRunChanges
<1> SUFFICES ASSUME NEW f \in tried' \ slipped', f \in Files PROVE Recorded(f)'
  BY <1>2 DEF OnceInv, Typed, TypeOK
<1>4. f # None
  BY FeedAssumption
<1>5. CASE f = g
  <2>1. run'[r].file = f
    BY <1>1, <1>3, <1>5
  <2>2. ~(edited[f] > run[r].page[f]) /\ \A s \in Runs \ {r} : Over(s)
    BY <1>2, <1>5
  <2>3. run[r].page[f] >= edited[f]
    <3>1. run[r].page[f] \in Int /\ edited[f] \in Int
      BY TimesOf, TimeFacts
    <3>2. QED
      BY <2>2, <3>1
  <2>4. \A s \in Runs \ {r} : run[s].page[f] = Never
    BY <2>2, NoListing, NoFilesFacts DEF Over
  <2>5. \A s \in Runs : run'[s].page[f] # Never => run'[s].page[f] >= edited[f]
    BY <1>1, <1>3, <2>3, <2>4
  <2>6. QED
    BY <1>2, <2>1, <2>5 DEF Recorded
<1>6. CASE f # g
  <2>1. Recorded(f)
    BY <1>2, <1>6 DEF OnceInv
  <2>2. snap[f] >= edited[f] \/ \E s \in Runs : run'[s].file = f
    BY <1>2, <1>3, <1>4, <2>1 DEF Recorded
  <2>3. \A s \in Runs : run'[s].page[f] # Never => run'[s].page[f] >= edited[f]
    BY <1>1, <1>3, <2>1 DEF Recorded
  <2>4. QED
    BY <1>2, <2>2, <2>3 DEF Recorded
<1>7. QED
  BY <1>5, <1>6

LEMMA OnceEdit ==
  ASSUME Typed, OnceInv, NEW g \in Files, Edit(g)
  PROVE  OnceInv'
<1>1. /\ UNCHANGED <<run, snap>> /\ tried' = tried \ {g} /\ slipped' = slipped \ {g}
      /\ edited' = [edited EXCEPT ![g] = clock + 1] /\ edited \in [Files -> 0..MaxEdits]
  BY DEF Edit, scans, Typed, TypeOK
<1>2. \A f \in Files \ {g} : edited'[f] = edited[f]
  BY <1>1
<1>3. QED
  BY <1>1, <1>2 DEF OnceInv, Recorded, Typed, TypeOK

LEMMA OnceStep == Typed /\ OnceInv /\ [Next]_vars => OnceInv'
<1> SUFFICES ASSUME Typed, OnceInv, [Next]_vars PROVE OnceInv'
  OBVIOUS
<1>1. CASE UNCHANGED <<run, snap, edited, tried, slipped>>
  BY <1>1 DEF OnceInv, Recorded
<1>2. QED
  BY <1>1, OnceClears, OnceScan, OnceSnapshot, OnceExtract, OnceEdit
  DEF Next, Sync, Polling, Clears, PollChanges, ExpireToken, Defer,
      AbandonPoll, PersistToken, vars, scans, drive, repeat

(* A file is not extracted twice for one content, failed or not, but where *)
(* it was edited between its listing and its download, two runs            *)
(* overlapped, or a run was lost with the file in hand.                    *)
THEOREM OnceHolds == Spec => ExtractedOnce
<1>1. Init => FeedInv /\ OnceInv
  BY FeedInit DEF Init, OnceInv
<1>2. FeedInv /\ OnceInv /\ [Next]_vars => FeedInv' /\ OnceInv'
  BY FeedStep, OnceStep DEF FeedInv
<1>3. FeedInv /\ OnceInv /\ [Next]_vars =>
        [\A r \in Runs, f \in Files : Extract(r, f) /\ f \in tried => f \in slipped']_vars
  <2> SUFFICES ASSUME FeedInv, OnceInv, NEW r \in Runs, NEW f \in Files, Extract(r, f),
                      f \in tried, f \notin slipped'
               PROVE  FALSE
    OBVIOUS
  <2>0. Typed /\ run[r].page[f] <= edited[f]
    BY DEF FeedInv, NotAhead
  <2>1. /\ f \notin slipped /\ run[r].file = None /\ f # None /\ run[r].page[f] # Never
        /\ ~(edited[f] > run[r].page[f]) /\ ~(snap[f] >= run[r].page[f])
        /\ \A s \in Runs \ {r} : Over(s)
    BY FeedAssumption DEF Extract, Takes, Unchanged
  <2>2. Recorded(f)
    BY <2>1 DEF OnceInv
  <2>3. \A s \in Runs : run[s].file # f
    BY <2>0, <2>1, NoListing DEF Over
  <2>4. snap[f] >= edited[f]
    BY <2>2, <2>3 DEF Recorded
  <2>5. snap[f] \in Int /\ edited[f] \in Int /\ run[r].page[f] \in Int
    BY <2>0, TimesOf, TimeFacts
  <2>6. QED
    BY <2>0, <2>1, <2>4, <2>5
<1>4. QED
  BY <1>1, <1>2, <1>3, PTL DEF Spec, ExtractedOnce

-----------------------------------------------------------------------------
(* What the page token owes *)

TokensPast == token <= clock /\ \A p \in Polls : poll[p].upto <= clock

(* The campaigns are still to be scanned as long as an account is.         *)
TodoOrder == \A r \in Runs :
  run[r].todo \cap Accounts # {} => Entities \ Accounts \subseteq run[r].todo

(* A file that was last edited while no run was under way is listed as it  *)
(* is.                                                                     *)
PagesFresh == \A f \in Files \ late, r \in Runs : run[r].page[f] \in {Never, edited[f]}

DueByPoll(f) == \E p \in Polls : poll[p].pc = "persist" /\ poll[p].upto >= edited[f]
DueByRun == \E r \in Runs : ~Over(r)

(* A run has begun since the last edit, the token has passed it or a poll  *)
(* is about to let it pass.                                                *)
Due(f) == DueByRun \/ token >= edited[f] \/ DueByPoll(f)

Reaches(r, f) == run[r].pc = "scan" /\
  \/ Home[f] \in run[r].walk /\ Within(run[r].entity, f)
  \/ \E e \in run[r].todo : Within(e, f)
  \/ run[r].page[f] >= edited[f]

Covered(f) == SettledSince(f, edited[f]) \/ \E r \in Runs : Reaches(r, f)

Owed == \A f \in Shallow \ (late \union failed) : Due(f) => Covered(f)

OweInv == TokensPast /\ TodoOrder /\ PagesFresh /\ Owed

LEMMA TokensStep == Typed /\ TokensPast /\ [Next]_vars => TokensPast'
<1> SUFFICES ASSUME Typed, TokensPast, [Next]_vars PROVE TokensPast'
  OBVIOUS
<1>1. /\ clock \in Int /\ token \in Int /\ poll \in [Polls -> PollState]
      /\ \A p \in Polls : poll[p].upto \in Int
      /\ Never <= clock /\ clock <= clock
  BY TimeFacts DEF Typed, TypeOK, PollState, Never
<1>2. CASE UNCHANGED <<token, poll>> /\ clock' \in {clock, clock + 1}
  BY <1>1, <1>2 DEF TokensPast
<1>3. CASE token' \in {clock, token} /\ UNCHANGED <<poll, clock>>
  BY <1>1, <1>3 DEF TokensPast
<1>4. ASSUME NEW p \in Polls,
             \/ PollChanges(p) \/ ExpireToken(p) \/ Defer(p) \/ AbandonPoll(p)
             \/ PersistToken(p) \/ \E r \in Runs : Dispatch(p, r)
      PROVE  TokensPast'
  <2>1. clock' = clock /\ token' \in {token, Never, poll[p].upto}
    BY <1>4 DEF PollChanges, ExpireToken, Defer, AbandonPoll, PersistToken, Dispatch, drive
  <2>2. \A q \in Polls : poll'[q].upto \in {clock, Never, poll[q].upto}
    BY <1>1, <1>4 DEF PollChanges, ExpireToken, Defer, AbandonPoll, PersistToken, Dispatch,
                      NoPoll, PollState
  <2>3. QED
    BY <1>1, <2>1, <2>2 DEF TokensPast
<1>5. ASSUME Sync, \A p \in Polls, r \in Runs : ~Dispatch(p, r)
      PROVE  token' \in {clock, token} /\ UNCHANGED <<poll, clock>>
  <2>1. PICK r \in Runs :
          \/ Clears(r) \/ Snapshot(r)
          \/ \E e \in Entities : BeginScan(r, e) \/ ListFolder(r, e)
          \/ \E f \in Files : SkipFile(r, f) \/ Extract(r, f)
    BY <1>5 DEF Sync, Clears
  <2>2. CASE Clears(r)
    BY <1>5, <2>2 DEF Clears, StartRun, Distill, ScanFails, Finish, Capture, Die, Loses, Reap,
                      drive
  <2>3. CASE ~Clears(r)
    BY <2>1, <2>3 DEF Snapshot, BeginScan, ListFolder, SkipFile, Extract, drive
  <2>4. QED
    BY <2>2, <2>3
<1>6. ASSUME NEW f \in Files, Edit(f)
      PROVE  UNCHANGED <<token, poll>> /\ clock' \in {clock, clock + 1}
  BY <1>6 DEF Edit
<1>7. QED
  BY <1>2, <1>3, <1>4, <1>5, <1>6 DEF Next, Polling, vars, drive

(* What each action makes of the run's scan, for those that leave the rest *)
(* of its plan alone.                                                      *)
LEMMA PlanKept ==
  ASSUME Typed, NEW r \in Runs,
         \/ \E e \in Entities : ListFolder(r, e)
         \/ \E f \in Files : SkipFile(r, f) \/ Extract(r, f)
         \/ Snapshot(r) \/ Distill(r) \/ ScanFails(r) \/ Finish(r)
  PROVE  /\ run'[r].todo = run[r].todo
         /\ \A s \in Runs \ {r} : run'[s] = run[s]
<1>1. run \in [Runs -> RunState] /\ run[r] \in RunState
  BY DEF Typed, TypeOK
<1>2. ASSUME NEW e \in Entities, ListFolder(r, e) PROVE run'[r].todo = run[r].todo
  BY <1>1, <1>2 DEF ListFolder, RunState
<1>3. ASSUME NEW f \in Files, SkipFile(r, f) \/ Extract(r, f)
      PROVE  run'[r].todo = run[r].todo
  BY <1>1, <1>3 DEF SkipFile, Extract, RunState
<1>4. ASSUME Snapshot(r) PROVE run'[r].todo = run[r].todo
  BY <1>1, <1>4 DEF Snapshot, RunState
<1>5. ASSUME Distill(r) \/ ScanFails(r) PROVE run'[r].todo = run[r].todo
  BY <1>1, <1>5 DEF Distill, ScanFails, Idle, RunState
<1>6. ASSUME Finish(r) PROVE run'[r].todo = run[r].todo
  BY <1>1, <1>6 DEF Finish, RunState
<1>7. \A s \in Runs \ {r} : run'[s] = run[s]
  BY <1>1 DEF ListFolder, SkipFile, Extract, Snapshot, Distill, ScanFails, Finish
<1>8. QED
  BY <1>2, <1>3, <1>4, <1>5, <1>6, <1>7

(* A run begins with everything to be scanned, and ends with nothing.      *)
LEMMA PlanFresh ==
  ASSUME Typed, NEW r \in Runs,
         StartRun(r) \/ Capture(r) \/ Die(r) \/ Reap(r) \/ \E p \in Polls : Dispatch(p, r)
  PROVE  /\ run'[r].todo \in {Entities, {}}
         /\ StartRun(r) \/ (\E p \in Polls : Dispatch(p, r))
              => run'[r].pc = "scan" /\ run'[r].todo = Entities
         /\ \A s \in Runs \ {r} : run'[s] = run[s]
<1>1. run \in [Runs -> RunState]
  BY DEF Typed, TypeOK
<1>2. CASE StartRun(r) \/ \E p \in Polls : Dispatch(p, r)
  BY <1>1, <1>2 DEF StartRun, Dispatch, NewRun, NoRun
<1>3. CASE Capture(r) \/ Die(r) \/ Reap(r)
  <2>1. run'[r].todo = {} /\ \A s \in Runs \ {r} : run'[s] = run[s]
    BY <1>1, <1>3 DEF Capture, Die, Reap, NoRun
  <2>2. ~Over(r)
    BY <1>3 DEF Capture, Die, Reap, Over
  <2>3. QED
    BY <2>1, <2>2 DEF StartRun, Dispatch
<1>4. QED
  BY <1>2, <1>3

LEMMA BeginPlan ==
  ASSUME Typed, NEW r \in Runs, NEW e \in Entities, BeginScan(r, e)
  PROVE  /\ run'[r].todo = run[r].todo \ {e} /\ run'[r].walk = WalkOf(e)
         /\ run'[r].entity = e
         /\ run'[r].pc = "scan" /\ run'[r].page = run[r].page /\ run[r].walk = {}
         /\ \A s \in Runs \ {r} : run'[s] = run[s]
<1>1. run \in [Runs -> RunState] /\ run[r] \in RunState
  BY DEF Typed, TypeOK
<1>2. run[r].walk = {}
  BY DEF BeginScan, Typed, TypeOK
<1>3. QED
  BY <1>1, <1>2 DEF BeginScan, RunState

LEMMA TodoStep == Typed /\ TodoOrder /\ [Next]_vars => TodoOrder'
<1> SUFFICES ASSUME Typed, TodoOrder, [Next]_vars PROVE TodoOrder'
  OBVIOUS
<1>1. CASE run' = run
  BY <1>1 DEF TodoOrder
<1>2. ASSUME NEW r \in Runs,
             \/ \E e \in Entities : ListFolder(r, e)
             \/ \E f \in Files : SkipFile(r, f) \/ Extract(r, f)
             \/ Snapshot(r) \/ Distill(r) \/ ScanFails(r) \/ Finish(r)
      PROVE  TodoOrder'
  <2>1. \A s \in Runs : run'[s].todo = run[s].todo
    BY <1>2, PlanKept
  <2>2. QED
    BY <2>1 DEF TodoOrder
<1>3. ASSUME NEW r \in Runs,
             StartRun(r) \/ Capture(r) \/ Die(r) \/ Reap(r) \/ \E p \in Polls : Dispatch(p, r)
      PROVE  TodoOrder'
  <2>1. /\ run'[r].todo \in {Entities, {}} /\ \A s \in Runs \ {r} : run'[s] = run[s]
    BY <1>3, PlanFresh
  <2>2. QED
    BY <2>1 DEF TodoOrder
<1>4. ASSUME NEW r \in Runs, NEW e \in Entities, BeginScan(r, e) PROVE TodoOrder'
  <2>1. /\ run'[r].todo = run[r].todo \ {e}
        /\ \A s \in Runs \ {r} : run'[s] = run[s]
    BY <1>4, BeginPlan
  <2>2. e \in Accounts \/ run[r].todo \cap Accounts = {}
    BY <1>4 DEF BeginScan
  <2>3. QED
    BY <2>1, <2>2 DEF TodoOrder
<1>5. QED
  BY <1>1, <1>2, <1>3, <1>4
  DEF Next, Sync, Polling, Edit, PollChanges, ExpireToken, Defer, AbandonPoll,
      PersistToken, vars, scans

(* Outside of edits, time stands still and late says what it said.         *)
LEMMA StillOtherwise ==
  ASSUME [Next]_vars, \A g \in Files : ~Edit(g)
  PROVE  UNCHANGED <<edited, clock, late>> /\ failed \subseteq failed'
<1>1. CASE Sync
  <2>1. PICK r \in Runs :
          \/ Clears(r) \/ Snapshot(r)
          \/ \E e \in Entities : BeginScan(r, e) \/ ListFolder(r, e)
          \/ \E f \in Files : SkipFile(r, f) \/ Extract(r, f)
    BY <1>1 DEF Sync, Clears
  <2>2. CASE Clears(r)
    BY <2>2 DEF Clears, StartRun, Distill, ScanFails, Finish, Capture, Die, Loses, Reap,
                Dispatch, drive, missed
  <2>3. CASE ~Clears(r)
    BY <2>1, <2>3 DEF Snapshot, BeginScan, ListFolder, SkipFile, Extract, drive, missed
  <2>4. QED
    BY <2>2, <2>3
<1>2. CASE Polling
  BY <1>2 DEF Polling, PollChanges, ExpireToken, Defer, AbandonPoll, PersistToken, Dispatch,
              drive, missed
<1>3. CASE UNCHANGED vars
  BY <1>3 DEF vars, drive, missed
<1>4. QED
  BY <1>1, <1>2, <1>3 DEF Next

LEMMA PagesByRun ==
  ASSUME Typed, PagesFresh, NEW r \in Runs, NEW R, Becomes(r, R), Sound(R),
         UNCHANGED <<edited, late>>,
         \A f \in Files : R.page[f] \in {Never, edited[f], run[r].page[f]}
  PROVE  PagesFresh'
<1>1. run'[r] = R /\ \A s \in Runs \ {r} : run'[s] = run[s]
  BY OneRunChanges
<1>2. ASSUME NEW f \in Files \ late, NEW s \in Runs
      PROVE  run'[s].page[f] \in {Never, edited[f]}
  BY <1>1 DEF PagesFresh
<1>3. QED
  BY <1>2 DEF PagesFresh

LEMMA PagesStep == Typed /\ PagesFresh /\ [Next]_vars => PagesFresh'
<1> SUFFICES ASSUME Typed, PagesFresh, [Next]_vars PROVE PagesFresh'
  OBVIOUS
<1>1. ASSUME NEW g \in Files, Edit(g) PROVE PagesFresh'
  <2>1. /\ run' = run /\ edited' = [edited EXCEPT ![g] = clock + 1]
        /\ late' = IF DueByRun THEN late \union {g} ELSE late \ {g}
    BY <1>1 DEF Edit, scans, DueByRun
  <2>2. SUFFICES ASSUME NEW f \in Files \ late', NEW r \in Runs
                 PROVE  run[r].page[f] \in {Never, edited'[f]}
    BY <2>1 DEF PagesFresh
  <2>3. CASE f = g
    <3>1. ~DueByRun
      BY <2>1, <2>2, <2>3
    <3>2. run[r].page = NoFiles
      BY <3>1, NoListing DEF DueByRun, Over
    <3>3. QED
      BY <3>2, NoFilesFacts
  <2>4. CASE f # g
    <3>1. f \notin late /\ edited'[f] = edited[f]
      BY <2>1, <2>4 DEF Typed, TypeOK
    <3>2. QED
      BY <3>1 DEF PagesFresh
  <2>5. QED
    BY <2>3, <2>4
<1>2. CASE \A g \in Files : ~Edit(g)
  <2>0. UNCHANGED <<edited, late>>
    BY <1>2, StillOtherwise
  <2>1. CASE run' = run
    BY <2>0, <2>1 DEF PagesFresh
  <2>2. ASSUME NEW r \in Runs, Clears(r) PROVE PagesFresh'
    <3>1. PICK R : Becomes(r, R) /\ Sound(R) /\ Empty(R)
      BY <2>2, ClearedRun
    <3>2. \A f \in Files : R.page[f] = Never
      BY <3>1, NoFilesFacts DEF Empty
    <3>3. QED
      BY <2>0, <3>1, <3>2, PagesByRun
  <2>3. ASSUME NEW r \in Runs, NEW e \in Entities, BeginScan(r, e) \/ ListFolder(r, e)
        PROVE  PagesFresh'
    <3>1. \E R : /\ Becomes(r, R) /\ Sound(R)
                 /\ \A f \in Files : R.page[f] \in {edited[f], run[r].page[f]}
      BY <2>3, BeginScanRun, ListFolderRun
    <3>2. QED
      BY <2>0, <3>1, PagesByRun
  <2>4. ASSUME NEW r \in Runs, NEW g \in Files, SkipFile(r, g) \/ Extract(r, g)
        PROVE  PagesFresh'
    <3>1. \E R : Becomes(r, R) /\ Sound(R) /\ R.page = run[r].page
      BY <2>4, SkipFileRun, ExtractRun
    <3>2. QED
      BY <2>0, <3>1, PagesByRun
  <2>5. ASSUME NEW r \in Runs, Snapshot(r) PROVE PagesFresh'
    <3>1. \E R : /\ Becomes(r, R) /\ Sound(R)
                 /\ \A f \in Files : R.page[f] \in {Never, run[r].page[f]}
      BY <2>5, SnapshotRun
    <3>2. QED
      BY <2>0, <3>1, PagesByRun
  <2>6. QED
    BY <1>2, <2>1, <2>2, <2>3, <2>4, <2>5
    DEF Next, Sync, Polling, Clears, PollChanges, ExpireToken, Defer,
        AbandonPoll, PersistToken, vars, scans
<1>3. QED
  BY <1>1, <1>2

(* A run that has f before it reads it, has it settled, or is known to     *)
(* leave it behind.                                                        *)
CoveredAfter(f) == SettledAfter(f, edited[f]) \/ \E s \in Runs : Reaches(s, f)'

LEMMA ReachKept ==
  ASSUME Typed, NEW r \in Runs, NEW f \in Files, Reaches(r, f), edited' = edited,
         run'[r].pc = run[r].pc, run'[r].todo = run[r].todo, run'[r].walk = run[r].walk,
         run'[r].entity = run[r].entity, run'[r].page[f] = run[r].page[f]
  PROVE  Reaches(r, f)'
BY DEF Reaches

LEMMA ReachScan ==
  ASSUME Typed, NEW r \in Runs, NEW f \in Files, Reaches(r, f), edited' = edited,
         \E e \in Entities : BeginScan(r, e) \/ ListFolder(r, e)
  PROVE  Reaches(r, f)'
<1>1. run \in [Runs -> RunState] /\ run[r] \in RunState
  BY DEF Typed, TypeOK
<1>2. ASSUME NEW e \in Entities, BeginScan(r, e) PROVE Reaches(r, f)'
  <2>1. /\ run'[r].todo = run[r].todo \ {e} /\ run'[r].walk = WalkOf(e) /\ run'[r].entity = e
        /\ run'[r].pc = "scan" /\ run'[r].page = run[r].page /\ run[r].walk = {}
    BY <1>2, BeginPlan
  <2>2. Within(e, f) => Home[f] \in WalkOf(e)
    BY DEF Within
  <2>3. QED
    BY <2>1, <2>2 DEF Reaches
<1>3. ASSUME NEW d \in Entities, ListFolder(r, d) PROVE Reaches(r, f)'
  <2>1. /\ run'[r].pc = "scan" /\ run'[r].todo = run[r].todo
        /\ run'[r].walk = run[r].walk \ {d} /\ run'[r].entity = run[r].entity
        /\ run'[r].page = [g \in Files |-> IF Home[g] = d /\ Within(run[r].entity, g)
                                            THEN edited[g] ELSE run[r].page[g]]
    BY <1>1, <1>3 DEF ListFolder, RunState
  <2>2. edited[f] >= edited[f]
    BY TimesOf, TimeFacts
  <2>3. CASE Home[f] = d /\ Within(run[r].entity, f)
    <3>1. run'[r].page[f] = edited[f]
      BY <2>1, <2>3
    <3>2. QED
      BY <2>1, <2>2, <3>1 DEF Reaches
  <2>4. CASE ~(Home[f] = d /\ Within(run[r].entity, f))
    <3>1. run'[r].page[f] = run[r].page[f]
      BY <2>1, <2>4
    <3>2. QED
      BY <2>1, <2>4, <3>1 DEF Reaches
  <2>5. QED
    BY <2>3, <2>4
<1>4. QED
  BY <1>2, <1>3

LEMMA ReachTake ==
  ASSUME Typed, NEW r \in Runs, NEW f \in Files, Reaches(r, f), edited' = edited,
         \E g \in Files : SkipFile(r, g) \/ Extract(r, g)
  PROVE  Reaches(r, f)'
<1>1. run \in [Runs -> RunState] /\ run[r] \in RunState
  BY DEF Typed, TypeOK
<1>2. ASSUME NEW g \in Files, SkipFile(r, g) \/ Extract(r, g) PROVE Reaches(r, f)'
  <2>1. /\ run'[r].pc = run[r].pc /\ run'[r].todo = run[r].todo
        /\ run'[r].walk = run[r].walk /\ run'[r].page = run[r].page
        /\ run'[r].entity = run[r].entity
    BY <1>1, <1>2 DEF SkipFile, Extract, RunState
  <2>2. QED
    BY <2>1, ReachKept
<1>3. QED
  BY <1>2

(* With its snapshot the file leaves the listing, and is settled.          *)
LEMMA ReachSnapshot ==
  ASSUME FeedInv, SnapSettled', NEW r \in Runs, NEW f \in Files, Reaches(r, f),
         edited' = edited, Snapshot(r)
  PROVE  CoveredAfter(f)
<1>0. Typed /\ NotAhead
  BY DEF FeedInv
<1>1. run \in [Runs -> RunState] /\ run[r] \in RunState
  BY <1>0 DEF Typed, TypeOK
<1>2. /\ run'[r].pc = run[r].pc /\ run'[r].todo = run[r].todo /\ run'[r].walk = run[r].walk
      /\ run'[r].entity = run[r].entity
      /\ run'[r].page = [run[r].page EXCEPT ![run[r].file] = Never]
      /\ snap' = [snap EXCEPT ![run[r].file] = run[r].page[run[r].file]]
  BY <1>1 DEF Snapshot, RunState
<1>3. run[r].page \in [Files -> Time] /\ snap \in [Files -> Time]
  BY <1>0, <1>1 DEF RunState, Typed, TypeOK
<1>4. CASE run[r].file # f
  <2>1. run'[r].page[f] = run[r].page[f]
    BY <1>2, <1>3, <1>4
  <2>2. QED
    BY <1>0, <1>2, <2>1, ReachKept DEF CoveredAfter
<1>5. CASE run[r].file = f /\ run[r].page[f] >= edited[f]
  <2>1. run[r].page[f] \in Int /\ edited[f] \in 0..MaxEdits /\ edited[f] \in Int
    BY <1>0, TimesOf, TimeFacts, FeedAssumption DEF Typed, TypeOK
  <2>2. snap'[f] = edited[f] /\ edited[f] # Never
    BY <1>0, <1>2, <1>3, <1>5, <2>1, FeedAssumption DEF NotAhead, Never
  <2>3. SettledAfter(f, edited[f])
    BY <2>2 DEF SnapSettled, SettledSince, SettledAfter
  <2>4. QED
    BY <2>3 DEF CoveredAfter
<1>6. CASE ~(run[r].page[f] >= edited[f])
  BY <1>2, <1>6 DEF Reaches, CoveredAfter
<1>7. QED
  BY <1>4, <1>5, <1>6

(* What a run has yet to scan is in no folder but of the entities it is to *)
(* scan.                                                                   *)
LEMMA TodoCovers ==
  ASSUME TodoOrder, Typed, NEW r \in Runs, NEW f \in Files, NEW e \in run[r].todo,
         Home[f] \in WalkOf(e)
  PROVE  Home[f] \in run[r].todo
<1>1. e \in Entities /\ Home[f] \in Entities
  BY DEF Typed, TypeOK, RunState, WalkOf
<1>2. CASE Home[f] # e
  <2>1. Parent[Home[f]] = e /\ e # None
    BY <1>1, <1>2, FeedAssumption DEF WalkOf
  <2>2. e \in Accounts /\ Home[f] \notin Accounts
    BY <1>1, <2>1, FeedAssumption DEF Accounts
  <2>3. QED
    BY <1>1, <2>2 DEF TodoOrder
<1>3. QED
  BY <1>2

LEMMA ReachClears ==
  ASSUME Typed, TodoOrder, NEW r \in Runs, NEW f \in Files, Reaches(r, f),
         edited' = edited, Clears(r), f \notin failed'
  PROVE  Reaches(r, f)'
<1>1. run \in [Runs -> RunState] /\ run[r] \in RunState
  BY DEF Typed, TypeOK
<1>2. run[r].page[f] >= edited[f] => run[r].page[f] # Never
  BY FeedAssumption DEF Typed, TypeOK, Never
<1>3. run[r].pc = "scan"
  BY DEF Reaches
<1>4. CASE Distill(r) \/ ScanFails(r)
  <2>0. Idle(run[r]).pc = "scan" /\ run' = [run EXCEPT ![r] = Idle(run[r])]
    BY <1>1, <1>3, <1>4 DEF Distill, ScanFails, Idle, RunState
  <2>1. run'[r].pc = "scan" /\ run'[r].todo = run[r].todo
    BY <1>1, <1>4, <2>0, PlanKept
  <2>2. Home[f] \notin run[r].walk /\ run[r].page[f] = Never
    <3>1. CASE Distill(r)
      BY <3>1, NoFilesFacts DEF Distill
    <3>2. CASE ScanFails(r)
      BY <3>2 DEF ScanFails, Loses, Left, FilesUnder
    <3>3. QED
      BY <1>4, <3>1, <3>2
  <2>3. \E e \in run[r].todo : Within(e, f)
    BY <1>2, <2>2 DEF Reaches
  <2>4. QED
    BY <2>1, <2>3 DEF Reaches
<1>5. CASE Die(r)
  <2>1. Home[f] \notin run[r].walk /\ Home[f] \notin run[r].todo /\ run[r].page[f] = Never
    BY <1>5 DEF Die, Loses, Left, FilesUnder
  <2>2. PICK e \in run[r].todo : Home[f] \in WalkOf(e)
    BY <1>2, <2>1 DEF Reaches, Within
  <2>3. QED
    BY <2>1, <2>2, TodoCovers
<1>6. CASE Finish(r)
  <2>1. run[r].todo = {} /\ run[r].walk = {} /\ run[r].page = NoFiles
    BY <1>6 DEF Finish, Typed, TypeOK
  <2>2. QED
    BY <1>2, <2>1, NoFilesFacts DEF Reaches
<1>7. CASE StartRun(r) \/ Capture(r) \/ Reap(r) \/ \E p \in Polls : Dispatch(p, r)
  BY <1>3, <1>7 DEF StartRun, Capture, Reap, Dispatch, Over
<1>8. QED
  BY <1>4, <1>5, <1>6, <1>7 DEF Clears

(* Covered content stays covered, unless a run or a poll is known to have  *)
(* left it behind.                                                         *)
LEMMA CoverKept ==
  ASSUME FeedInv, FeedInv', TodoOrder, NEW r \in Runs, NEW f \in Files, Reaches(r, f),
         edited' = edited, [Next]_vars, f \notin failed'
  PROVE  CoveredAfter(f)
<1>0. Typed /\ SnapSettled'
  BY DEF FeedInv
<1>1. CASE run'[r] = run[r]
  BY <1>1 DEF Reaches, CoveredAfter
<1>2. ASSUME NEW s \in Runs, NEW R, Becomes(s, R), Sound(R), s # r
      PROVE  run'[r] = run[r]
  BY <1>0, <1>2, OneRunChanges
<1>3. ASSUME NEW s \in Runs, Clears(s) PROVE CoveredAfter(f)
  <2>1. CASE s = r
    BY <1>0, <1>3, <2>1, ReachClears DEF CoveredAfter
  <2>2. CASE s # r
    <3>1. PICK R : Becomes(s, R) /\ Sound(R)
      BY <1>0, <1>3, ClearedRun
    <3>2. QED
      BY <1>1, <1>2, <2>2, <3>1
  <2>3. QED
    BY <2>1, <2>2
<1>4. ASSUME NEW s \in Runs, NEW e \in Entities, BeginScan(s, e) \/ ListFolder(s, e)
      PROVE  CoveredAfter(f)
  <2>1. CASE s = r
    BY <1>0, <1>4, <2>1, ReachScan DEF CoveredAfter
  <2>2. CASE s # r
    <3>1. PICK R : Becomes(s, R) /\ Sound(R)
      BY <1>0, <1>4, BeginScanRun, ListFolderRun
    <3>2. QED
      BY <1>1, <1>2, <2>2, <3>1
  <2>3. QED
    BY <2>1, <2>2
<1>5. ASSUME NEW s \in Runs, NEW g \in Files, SkipFile(s, g) \/ Extract(s, g)
      PROVE  CoveredAfter(f)
  <2>1. CASE s = r
    BY <1>0, <1>5, <2>1, ReachTake DEF CoveredAfter
  <2>2. CASE s # r
    <3>1. PICK R : Becomes(s, R) /\ Sound(R)
      BY <1>0, <1>5, SkipFileRun, ExtractRun
    <3>2. QED
      BY <1>1, <1>2, <2>2, <3>1
  <2>3. QED
    BY <2>1, <2>2
<1>6. ASSUME NEW s \in Runs, Snapshot(s) PROVE CoveredAfter(f)
  <2>1. CASE s = r
    BY <1>0, <1>6, <2>1, ReachSnapshot
  <2>2. CASE s # r
    <3>1. PICK R : Becomes(s, R) /\ Sound(R)
      BY <1>0, <1>6, SnapshotRun
    <3>2. QED
      BY <1>1, <1>2, <2>2, <3>1
  <2>3. QED
    BY <2>1, <2>2
<1>7. CASE run' = run
  BY <1>1, <1>7
<1>8. QED
  BY <1>3, <1>4, <1>5, <1>6, <1>7
  DEF Next, Sync, Polling, Clears, Edit, PollChanges, ExpireToken, Defer,
      AbandonPoll, PersistToken, vars, scans

LEMMA CoverStays ==
  ASSUME FeedInv, FeedInv', TodoOrder, NEW f \in Files, Covered(f),
         edited' = edited, [Next]_vars, f \notin failed'
  PROVE  Covered(f)'
<1>1. Typed /\ Typed' /\ NotAhead /\ edited[f] \in Time
  BY TimesOf DEF FeedInv
<1>2. Kept(f)
  BY <1>1, KeptStep
<1>3. CoveredAfter(f)
  BY <1>1, <1>2, SettledStays, CoverKept DEF Covered, CoveredAfter
<1>4. QED
  BY <1>3 DEF Covered, CoveredAfter, SettledSince, SettledAfter

(* What becomes due was covered, or is just now: a run that begins is to   *)
(* scan everything, and a poll that finds no change or leaves some out     *)
(* passes on what the token owed before.                                   *)
LEMMA RunStarts ==
  ASSUME Typed, NEW r \in Runs, StartRun(r) \/ \E p \in Polls : Dispatch(p, r), NEW f \in Shallow
  PROVE  Covered(f)'
<1>1. run'[r].pc = "scan" /\ run'[r].todo = Entities
  BY PlanFresh
<1>2. Home[f] \in Entities /\ Within(Home[f], f)
  BY FeedAssumption DEF Within, WalkOf, Shallow
<1>3. Reaches(r, f)'
  BY <1>1, <1>2 DEF Reaches
<1>4. QED
  BY <1>3 DEF Covered

LEMMA DueBefore ==
  ASSUME Typed, TokensPast, NEW f \in Files, f \notin failed', Due(f)', [Next]_vars,
         \A g \in Files : ~Edit(g),
         \A r \in Runs : ~StartRun(r) /\ \A p \in Polls : ~Dispatch(p, r)
  PROVE  Due(f)
<1>0. edited' = edited
  BY StillOtherwise
<1>1. SUFFICES ASSUME ~DueByRun, ~DueByPoll(f), ~(token >= edited[f]) PROVE FALSE
  BY DEF Due
<1>2. /\ token \in Int /\ clock \in Int /\ edited[f] \in 0..MaxEdits /\ edited[f] \in Int
      /\ poll \in [Polls -> PollState]
  BY TimesOf, TimeFacts, FeedAssumption DEF Typed, TypeOK
<1>3. ~Sync
  BY <1>1, <1>2, ZenonT(40)
  DEF DueByRun, Sync, Over, Snapshot, Distill, ScanFails, Finish, Capture, Die,
      Reap, BeginScan, ListFolder, SkipFile, Extract, Takes
<1>4. CASE UNCHANGED <<run, token, poll>>
  BY <1>0, <1>1, <1>4 DEF Due, DueByRun, DueByPoll, Over
<1>5. ASSUME NEW p \in Polls, PollChanges(p) PROVE FALSE
  <2>1. PICK S \in SUBSET Changed :
          /\ poll' = [poll EXCEPT ![p] =
               [pc |-> IF S = {} THEN "persist" ELSE "listed", upto |-> clock]]
          /\ failed' = failed \union (Changed \ S)
    BY <1>5 DEF PollChanges
  <2>2. f \in S
    BY <1>1, <1>2, <2>1 DEF Changed
  <2>3. UNCHANGED <<run, token>>
    BY <1>5 DEF PollChanges, scans
  <2>4. poll'[p].pc = "listed" /\ \A q \in Polls \ {p} : poll'[q] = poll[q]
    BY <1>2, <2>1, <2>2
  <2>5. QED
    BY <1>0, <1>1, <2>3, <2>4 DEF Due, DueByRun, DueByPoll, Over
<1>6. ASSUME NEW p \in Polls, ExpireToken(p) PROVE FALSE
  <2>1. token' = Never /\ UNCHANGED <<run, poll>>
    BY <1>6 DEF ExpireToken, scans
  <2>2. QED
    BY <1>0, <1>1, <1>2, <2>1, FeedAssumption DEF Due, DueByRun, DueByPoll, Over, Never
<1>7. ASSUME NEW p \in Polls, Defer(p) PROVE FALSE
  BY <1>1, <1>7 DEF Defer, InFlight, DueByRun, Over
<1>8. ASSUME NEW p \in Polls, AbandonPoll(p) PROVE FALSE
  <2>1. UNCHANGED <<run, token>>
    BY <1>8 DEF AbandonPoll, scans
  <2>2. poll'[p].pc = "idle" /\ \A q \in Polls \ {p} : poll'[q] = poll[q]
    BY <1>2, <1>8 DEF AbandonPoll, NoPoll
  <2>3. QED
    BY <1>0, <1>1, <2>1, <2>2 DEF Due, DueByRun, DueByPoll, Over
<1>9. ASSUME NEW p \in Polls, PersistToken(p) PROVE FALSE
  <2>1. run' = run /\ token' = poll[p].upto /\ poll[p].pc = "persist"
    BY <1>9 DEF PersistToken, scans
  <2>2. poll'[p].pc = "idle" /\ \A q \in Polls \ {p} : poll'[q] = poll[q]
    BY <1>2, <1>9 DEF PersistToken, NoPoll
  <2>3. QED
    BY <1>0, <1>1, <2>1, <2>2 DEF Due, DueByRun, DueByPoll, Over
<1>10. QED
  BY <1>3, <1>4, <1>5, <1>6, <1>7, <1>8, <1>9 DEF Next, Polling, vars, scans

LEMMA OwedEdit ==
  ASSUME FeedInv, OweInv, NEW g \in Files, Edit(g)
  PROVE  Owed'
<1>1. /\ UNCHANGED <<run, told, unread, token, poll>> /\ clock' = clock + 1
      /\ edited' = [edited EXCEPT ![g] = clock + 1]
      /\ late' = IF DueByRun THEN late \union {g} ELSE late \ {g}
      /\ failed' = IF DueByRun THEN failed ELSE failed \ {g}
  BY DEF Edit, scans, DueByRun
<1>2. /\ edited \in [Files -> 0..MaxEdits] /\ clock \in Int /\ token \in Int
      /\ \A p \in Polls : poll[p].upto \in Int
  BY TimeFacts, FeedAssumption DEF FeedInv, Typed, TypeOK, PollState
<1> SUFFICES ASSUME NEW f \in Shallow \ (late' \union failed'), Due(f)' PROVE Covered(f)'
  BY DEF Owed
<1>0. f \in Files
  BY DEF Shallow
<1>3. CASE f = g
  <2>1. ~DueByRun /\ edited'[f] = clock + 1
    BY <1>0, <1>1, <1>2, <1>3
  <2>2. ~(token >= clock + 1) /\ \A p \in Polls : ~(poll[p].upto >= clock + 1)
    BY <1>2 DEF OweInv, TokensPast
  <2>3. QED
    BY <1>1, <2>1, <2>2 DEF Due, DueByRun, DueByPoll, Over
<1>4. CASE f # g
  <2>1. f \notin late \union failed /\ edited'[f] = edited[f]
    BY <1>0, <1>1, <1>2, <1>4
  <2>2. Due(f)
    BY <1>1, <2>1 DEF Due, DueByRun, DueByPoll, Over
  <2>3. Covered(f)
    BY <2>1, <2>2 DEF OweInv, Owed
  <2>4. QED
    BY <1>1, <2>1, <2>3 DEF Covered, SettledSince, Reaches
<1>5. QED
  BY <1>3, <1>4

LEMMA OwedStep == FeedInv /\ OweInv /\ [Next]_vars => Owed'
<1> SUFFICES ASSUME FeedInv, OweInv, [Next]_vars PROVE Owed'
  OBVIOUS
<1>1. CASE \E g \in Files : Edit(g)
  BY <1>1, OwedEdit
<1>2. CASE \A g \in Files : ~Edit(g)
  <2>1. FeedInv' /\ edited' = edited /\ late' = late /\ failed \subseteq failed'
    BY <1>2, FeedStep, StillOtherwise
  <2> SUFFICES ASSUME NEW f \in Shallow, f \notin late, f \notin failed', Due(f)'
               PROVE  Covered(f)'
    BY <2>1 DEF Owed
  <2>0. f \in Files
    BY DEF Shallow
  <2>2. CASE \E r \in Runs : StartRun(r) \/ \E p \in Polls : Dispatch(p, r)
    BY <2>2, RunStarts DEF FeedInv
  <2>3. CASE \A r \in Runs : ~StartRun(r) /\ \A p \in Polls : ~Dispatch(p, r)
    <3>1. Due(f)
      BY <1>2, <2>0, <2>3, DueBefore DEF FeedInv, OweInv
    <3>2. Covered(f)
      BY <2>1, <3>1 DEF OweInv, Owed
    <3>3. QED
      BY <2>0, <2>1, <3>2, CoverStays DEF OweInv
  <2>4. QED
    BY <2>2, <2>3
<1>3. QED
  BY <1>1, <1>2

(* An edit the saved token has passed, of a file that is not below the     *)
(* depth cap of the walk, is read, or is about to be by a run that is      *)
(* under way, unless it was made into a run, a run that was to read it     *)
(* failed, or the poll did not find it in scope: a poll gives its token    *)
(* away only to a run that will list all of the file's folder.             *)
THEOREM TokenHolds == Spec => []TokenOwesNothing
<1>1. Init => FeedInv /\ OweInv
  <2> SUFFICES ASSUME Init PROVE FeedInv /\ OweInv
    OBVIOUS
  <2>1. FeedInv
    BY FeedInit
  <2>2. /\ \A p \in Polls : poll[p].pc = "idle" /\ poll[p].upto = Never
        /\ \A r \in Runs : run[r].pc = "idle" /\ run[r].todo = {} /\ run[r].page = NoFiles
        /\ token = Never /\ clock = 0 /\ \A f \in Files : edited[f] = 0
    BY DEF Init, NoPoll, NoRun
  <2>3. TokensPast /\ TodoOrder /\ PagesFresh
    BY <2>2, NoFilesFacts DEF TokensPast, TodoOrder, PagesFresh, Never
  <2>4. \A f \in Files : ~Due(f)
    BY <2>2 DEF Due, DueByRun, DueByPoll, Over, Never
  <2>5. QED
    BY <2>1, <2>3, <2>4 DEF OweInv, Owed, Shallow
<1>2. FeedInv /\ OweInv /\ [Next]_vars => FeedInv' /\ OweInv'
  BY FeedStep, TokensStep, TodoStep, PagesStep, OwedStep DEF OweInv, FeedInv
<1>3. FeedInv /\ OweInv => TokenOwesNothing
  <2> SUFFICES ASSUME FeedInv, OweInv, NEW f \in Shallow \ (late \union failed),
                      edited[f] <= token
               PROVE  ReadSince(f, edited[f]) \/ InReach(f)
    BY DEF TokenOwesNothing
  <2>0. f \in Files
    BY DEF Shallow
  <2>1. edited[f] \in Int /\ token \in Int
    BY <2>0, TimeFacts, FeedAssumption DEF FeedInv, Typed, TypeOK
  <2>2. Covered(f)
    BY <2>1 DEF OweInv, Owed, Due
  <2>3. QED
    BY <2>2 DEF Covered, SettledSince, Reaches, ReadSince, InReach
<1>4. QED
  BY <1>1, <1>2, <1>3, PTL DEF Spec
=============================================================================

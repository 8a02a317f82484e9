---------------------------- MODULE DriveSyncRun ----------------------------
(***************************************************************************)
(* The life of a full Drive sync: drive.runner.ts, drive.reaper.ts, the    *)
(* request handlers of drive.router.ts that start or resume a run, and the *)
(* stale-run sweeper of sync-run.service.ts that the directory sync calls. *)
(*                                                                         *)
(* A worker is one HTTP request and the background promise it leaves       *)
(* behind; workers run on different Cloud Run instances and share only the *)
(* sync_runs rows, so every database call is a step of its own.            *)
(*                                                                         *)
(* Entities are the accounts (phase 2) and campaigns (phase 3) that have a *)
(* drive_folder_id.  A scan loop walks the list it read, in id order, by   *)
(* index; `scanned` records the entities a run has attempted (an error of  *)
(* scanEntity is tallied and the loop goes on).                            *)
(***************************************************************************)
EXTENDS Naturals, FiniteSets

CONSTANTS Runs,       \* ids of sync_runs rows that may be created
          Workers,    \* requests and the executors they spawn
          Ids,        \* entity ids; uuid order is the order of the numbers
          Initially,  \* Initially[p]: entities of phase p linked at first
          Candidates, \* Candidates[p]: entities of phase p that may be linked
          NoRun

PHASE_ACCOUNTS  == 2
PHASE_CAMPAIGNS == 3
Phases == {PHASE_ACCOUNTS, PHASE_CAMPAIGNS}

ASSUME ConstantsAssumption ==
  /\ Ids \subseteq Nat
  /\ IsFiniteSet(Ids)
  /\ Candidates \in [Phases -> SUBSET Ids]
  /\ Initially \in [Phases -> SUBSET Ids]
  /\ NoRun \notin Runs

VARIABLES rows,      \* the sync_runs table, one row per run id
          linked,    \* linked[p]: entities with a drive_folder_id
          pc,        \* where each worker is
          task,      \* what each worker holds in memory
          base,      \* base[r][p]: entities linked when r was created
          scanned,   \* scanned[r][p]: entities whose scan r has attempted
          late,      \* workers whose concurrency check has been overtaken
          raced,     \* runs created on a check that had been overtaken
          disturbed  \* runs force-failed while held, or held by two workers

table   == <<rows, linked>>
history == <<base, scanned, late, raced, disturbed>>
vars    == <<rows, linked, pc, task, base, scanned, late, raced, disturbed>>

-----------------------------------------------------------------------------
(* Rows, checkpoints and positions *)

NoChunk == [phase |-> 0, index |-> 0]
Chunk(p, i) == [phase |-> p, index |-> i]
Chunks == [phase : Phases, index : Nat]

(* A row's age: "old" once started_at is 15 minutes back (the sweeper's    *)
(* limit), "stale" once updated_at is past the reaper's threshold for its  *)
(* status (24 h running, 60 min paused).  Any update refreshes updated_at. *)
Row == [status : {"absent", "running", "paused", "success", "failed"},
        chunk : Chunks \union {NoChunk},
        age : {"fresh", "old", "stale"}]

NoTask == [run |-> NoRun, phase |-> 0, index |-> 0, list |-> {}, spent |-> FALSE]

Active(r) == rows[r].status \in {"running", "paused"}
Touched(age) == IF age = "stale" THEN "old" ELSE age

(* UPDATE sync_runs SET status = s, chunk_* = c WHERE id = r.  The age of  *)
(* a finished row matters to nobody: it is recorded as "old".              *)
Write(r, s, c) ==
  rows' = [rows EXCEPT ![r] =
    [status |-> s, chunk |-> c,
     age |-> IF s \in {"running", "paused"} THEN Touched(@.age) ELSE "old"]]

(* The index of e in the list S sorted by id. *)
Rank(S, e) == Cardinality({x \in S : x < e})

(* Program points at which a worker is yet to write the row of its run. *)
Executing == {"load", "scan", "finalize"}
Holding   == Executing \union {"resume", "capture", "abort"}
Holds(w, r) == task[w].run = r /\ pc[w] \in Holding
HeldByOther(w, r) == \E v \in Workers \ {w} : Holds(v, r)

Goto(w, l) == pc' = [pc EXCEPT ![w] = l]
End(w) == Goto(w, "idle") /\ task' = [task EXCEPT ![w] = NoTask]

-----------------------------------------------------------------------------
(* The reaper and the sweeper *)

(* Rows S go to 'failed' in one UPDATE; a holder of one is not told. *)
ForceFail(S, clearChunk) ==
  /\ rows' = [r \in Runs |->
       IF r \in S
       THEN [status |-> "failed", age |-> "old",
             chunk |-> IF clearChunk THEN NoChunk ELSE rows[r].chunk]
       ELSE rows[r]]
  /\ disturbed' = disturbed \union {r \in S : \E w \in Workers : Holds(w, r)}
  /\ UNCHANGED <<linked, pc, task, base, scanned, late, raced>>

MutStaleRuns(s) == {r \in Runs : rows[r].status = "running" /\ rows[r].age = "stale"}
StaleRuns(s) == {r \in Runs : rows[r].status = s /\ rows[r].age = "stale"}

(* reapStaleSyncs, the first await of /run-full-sync, /continue and /poll: *)
(* an UPDATE for the running rows, and one for the paused rows.  A         *)
(* database error in it is logged, and the request goes on without.        *)
Reap(s) == StaleRuns(s) # {} /\ ForceFail(StaleRuns(s), TRUE)

(* startSyncRun of the directory sync: every source's 'running' rows older *)
(* than 15 minutes.  It leaves the checkpoint columns as they are.         *)
OldRunning == {r \in Runs : rows[r].status = "running" /\ rows[r].age # "fresh"}
DirectorySweep == OldRunning # {} /\ ForceFail(OldRunning, FALSE)

(* Time passes for a row nobody updates. *)
Age(r) ==
  /\ Active(r) /\ rows[r].age # "stale"
  /\ rows' = [rows EXCEPT ![r].age = IF @ = "fresh" THEN "old" ELSE "stale"]
  /\ UNCHANGED <<linked, pc, task, history>>

-----------------------------------------------------------------------------
(* Starting a run: startFullSync, for /run-full-sync, /cron and /poll *)

(* findFirst found neither a running nor a paused run.  (If it finds one,  *)
(* SyncAlreadyRunningError ends the request: nothing changes.)             *)
MutCheckNoneInFlight(w) ==
  /\ pc[w] = "idle"
  /\ \A r \in Runs : rows[r].status # "running"
  /\ Goto(w, "create")
  /\ late' = late \ {w}
  /\ UNCHANGED <<table, task, base, scanned, raced, disturbed>>
CheckNoneInFlight(w) ==
  /\ pc[w] = "idle"
  /\ \A r \in Runs : ~Active(r)
  /\ Goto(w, "create")
  /\ late' = late \ {w}
  /\ UNCHANGED <<table, task, base, scanned, raced, disturbed>>

(* create: nothing ties it to the check, so other creators are overtaken.  *)
(* The executor starts with the discovery, which touches no run.           *)
Create(w) ==
  /\ pc[w] = "create"
  /\ \E r \in Runs :
       /\ rows[r].status = "absent"
       /\ rows' = [rows EXCEPT ![r] =
                     [status |-> "running", chunk |-> NoChunk, age |-> "fresh"]]
       /\ base' = [base EXCEPT ![r] = linked]
       /\ raced' = IF w \in late THEN raced \union {r} ELSE raced
       /\ task' = [task EXCEPT ![w] =
                     [NoTask EXCEPT !.run = r, !.phase = PHASE_ACCOUNTS, !.spent = TRUE]]
  /\ late' = (late \ {w}) \union {v \in Workers \ {w} : pc[v] = "create"}
  /\ Goto(w, "load")
  /\ UNCHANGED <<linked, scanned, disturbed>>

-----------------------------------------------------------------------------
(* Resuming a run: continuePausedSync, for /run-full-sync/continue *)

(* findUnique and the checks on what it returned (any other row is a 404). *)
(* The runner's self-call is fire-and-forget and an operator may retry by  *)
(* hand: a continuation may arrive at any time, twice, or never.           *)
TakeUp(w, r) ==
  /\ pc[w] = "idle"
  /\ rows[r].chunk # NoChunk
  /\ task' = [task EXCEPT ![w] = [NoTask EXCEPT !.run = r,
                 !.phase = rows[r].chunk.phase, !.index = rows[r].chunk.index]]
  /\ Goto(w, "resume")
  /\ disturbed' = IF HeldByOther(w, r) THEN disturbed \union {r} ELSE disturbed
  /\ UNCHANGED <<table, base, scanned, late, raced>>
MutLookup(w, r) == rows[r].status \in {"paused", "failed"} /\ TakeUp(w, r)
Lookup(w, r) == rows[r].status = "paused" /\ TakeUp(w, r)

(* update by id: status only, whatever the row has become meanwhile. *)
Resume(w) ==
  /\ pc[w] = "resume"
  /\ Write(task[w].run, "running", rows[task[w].run].chunk)
  /\ Goto(w, "load")
  /\ UNCHANGED <<linked, task, history>>

-----------------------------------------------------------------------------
(* The executor: executeFullSync *)

(* findMany of the phase's linked entities. *)
MutLoad(w) ==
  /\ pc[w] = "load"
  /\ task' = [task EXCEPT ![w].list =
                 linked[task[w].phase] \ scanned[task[w].run][task[w].phase]]
  /\ Goto(w, "scan")
  /\ UNCHANGED <<table, history>>
Load(w) ==
  /\ pc[w] = "load"
  /\ task' = [task EXCEPT ![w].list = linked[task[w].phase]]
  /\ Goto(w, "scan")
  /\ UNCHANGED <<table, history>>

ScanNext(w) ==
  /\ pc[w] = "scan"
  /\ \E e \in task[w].list :
       /\ Rank(task[w].list, e) = task[w].index
       /\ scanned' = [scanned EXCEPT ![task[w].run][task[w].phase] = @ \union {e}]
  /\ task' = [task EXCEPT ![w] = [@ EXCEPT !.index = task[w].index + 1, !.spent = TRUE]]
  /\ UNCHANGED <<table, pc, base, late, raced, disturbed>>

(* A phase that was not resumed into starts from index 0. *)
MutEndPhase(w) ==
  /\ pc[w] = "scan"
  /\ task[w].index >= Cardinality(task[w].list)
  /\ IF task[w].phase = PHASE_ACCOUNTS
     THEN /\ task' = [task EXCEPT ![w] =
                       [@ EXCEPT !.phase = PHASE_CAMPAIGNS, !.list = {}]]
          /\ Goto(w, "load")
     ELSE /\ task' = [task EXCEPT ![w] = [NoTask EXCEPT !.run = task[w].run]]
          /\ Goto(w, "finalize")
  /\ UNCHANGED <<table, history>>
EndPhase(w) ==
  /\ pc[w] = "scan"
  /\ task[w].index >= Cardinality(task[w].list)
  /\ IF task[w].phase = PHASE_ACCOUNTS
     THEN /\ task' = [task EXCEPT ![w] =
                       [@ EXCEPT !.phase = PHASE_CAMPAIGNS, !.index = 0, !.list = {}]]
          /\ Goto(w, "load")
     ELSE /\ task' = [task EXCEPT ![w] = [NoTask EXCEPT !.run = task[w].run]]
          /\ Goto(w, "finalize")
  /\ UNCHANGED <<table, history>>

(* overBudget() before entity `index`: only after a discovery or a scan in *)
(* this chunk can 50 minutes have gone by.                                 *)
OverBudget(w) == /\ pc[w] = "scan"
                 /\ task[w].spent
                 /\ task[w].index < Cardinality(task[w].list)

MutPause(w) ==
  /\ OverBudget(w)
  /\ Write(task[w].run, "paused", Chunk(task[w].phase, task[w].index + 1))
  /\ End(w)
  /\ UNCHANGED <<linked, history>>
MutPauseNoChunk(w) ==
  /\ OverBudget(w)
  /\ Write(task[w].run, "paused", NoChunk)
  /\ End(w)
  /\ UNCHANGED <<linked, history>>
Pause(w) ==
  /\ OverBudget(w)
  /\ Write(task[w].run, "paused", Chunk(task[w].phase, task[w].index))
  /\ End(w)
  /\ UNCHANGED <<linked, history>>

(* notifyReviewers, whose errors are only tallied, and the terminal write. *)
Finalize(w) ==
  /\ pc[w] = "finalize"
  /\ Write(task[w].run, "success", NoChunk)
  /\ Goto(w, "capture")
  /\ UNCHANGED <<linked, task, history>>

(* captureStartPageTokenAfterFullSync, then the promise resolves. *)
Capture(w) ==
  /\ pc[w] = "capture"
  /\ End(w)
  /\ UNCHANGED <<table, history>>

(* An await that throws out of the try block: discovery, a list query, the *)
(* terminal update, or the page token's upsert after it.                   *)
Throw(w) ==
  /\ pc[w] \in {"load", "finalize", "capture"}
  /\ Goto(w, "abort")
  /\ task' = [task EXCEPT ![w] = [NoTask EXCEPT !.run = task[w].run]]
  /\ UNCHANGED <<table, history>>

(* The catch block. *)
Abort(w) ==
  /\ pc[w] = "abort"
  /\ Write(task[w].run, "failed", NoChunk)
  /\ End(w)
  /\ UNCHANGED <<linked, history>>

(* The instance is terminated, or a write that nothing retries is lost:    *)
(* the pause update (its catch branch only rethrows), the resume update,   *)
(* the row creation, the catch block's own update.                         *)
Crash(w) ==
  /\ pc[w] # "idle"
  /\ End(w)
  /\ late' = late \ {w}
  /\ UNCHANGED <<table, base, scanned, raced, disturbed>>

(* A reviewer accepts a new_entity proposal: one more linked entity. *)
Link(p, e) ==
  /\ e \in Candidates[p] \ linked[p]
  /\ linked' = [linked EXCEPT ![p] = @ \union {e}]
  /\ UNCHANGED <<rows, pc, task, history>>

-----------------------------------------------------------------------------
Init ==
  /\ rows = [r \in Runs |-> [status |-> "absent", chunk |-> NoChunk, age |-> "fresh"]]
  /\ linked = Initially
  /\ pc = [w \in Workers |-> "idle"]
  /\ task = [w \in Workers |-> NoTask]
  /\ base = [r \in Runs |-> [p \in Phases |-> {}]]
  /\ scanned = [r \in Runs |-> [p \in Phases |-> {}]]
  /\ late = {} /\ raced = {} /\ disturbed = {}

(* What follows a request's arrival, in the request or in its executor. *)
Step(w) == \/ Create(w) \/ Resume(w) \/ Load(w) \/ ScanNext(w) \/ EndPhase(w)
           \/ Pause(w) \/ Finalize(w) \/ Capture(w) \/ Throw(w) \/ Abort(w)

Next == \/ \E w \in Workers : Step(w) \/ CheckNoneInFlight(w) \/ Crash(w)
        \/ \E w \in Workers, r \in Runs : Lookup(w, r)
        \/ \E r \in Runs : Age(r)
        \/ \E p \in Phases, e \in Ids : Link(p, e)
        \/ \E s \in {"running", "paused"} : Reap(s)
        \/ DirectorySweep

Spec == Init /\ [][Next]_vars

(* Executors that are not killed run on; time passes; Cloud Scheduler      *)
(* keeps posting to /poll (drive_poll.tf), whose first act is the reaper.  *)
Fairness == /\ \A w \in Workers : WF_vars(Step(w))
            /\ \A r \in Runs : WF_vars(Age(r))
            /\ \A s \in {"running", "paused"} : WF_vars(Reap(s))

FairSpec == Spec /\ Fairness

-----------------------------------------------------------------------------
(* Properties *)

PCs == {"idle", "create"} \union Holding

Task == [run : Runs \union {NoRun}, phase : {0} \union Phases, index : Nat,
         list : SUBSET Ids, spent : BOOLEAN]

(* Every variable has its type, and a paused row always carries the        *)
(* checkpoint without which continuePausedSync could not resume it.        *)
TypeOK ==
  /\ rows \in [Runs -> Row]
  /\ \A r \in Runs : rows[r].status = "paused" => rows[r].chunk # NoChunk
  /\ linked \in [Phases -> SUBSET Ids]
  /\ pc \in [Workers -> PCs]
  /\ task \in [Workers -> Task]
  /\ base \in [Runs -> [Phases -> SUBSET Ids]]
  /\ scanned \in [Runs -> [Phases -> SUBSET Ids]]
  /\ late \subseteq Workers
  /\ raced \subseteq Runs
  /\ disturbed \subseteq Runs

(* Run r has attempted all it owes before index i of the list S of phase p. *)
Covered(r, p, i, S) ==
  /\ \A q \in Phases : q < p => base[r][q] \subseteq scanned[r][q]
  /\ \A e \in base[r][p] : Rank(S, e) < i => e \in scanned[r][p]

AllCovered(r) == \A p \in Phases : base[r][p] \subseteq scanned[r][p]

(* A checkpoint skips nothing: whoever resumes from it, whenever, with     *)
(* however many entities linked since, re-reads a list in which every      *)
(* entity the run owes and has not attempted is at chunk_index or later.   *)
(* (drive.runner.ts's "stable ordering across resumes".)                   *)
CheckpointCovered ==
  \A r \in Runs : LET c == rows[r].chunk IN
    c # NoChunk => Covered(r, c.phase, c.index, linked[c.phase])

(* A run recorded as a success has attempted every account and campaign    *)
(* that was linked when it was created, whatever pauses, duplicated        *)
(* continuations, reapings and concurrent runs it went through.            *)
SuccessCovers == \A r \in Runs : rows[r].status = "success" => AllCovered(r)

(* The concurrency guard of startFullSync: two Drive runs are in flight    *)
(* together only if one was created on a check another creation had        *)
(* overtaken, or had been failed (or resumed twice) under a live executor. *)
ExclusionUnlessRaced ==
  \A r, s \in Runs :
    r # s /\ Active(r) /\ Active(s) => {r, s} \cap (raced \union disturbed) # {}

(* A finished run comes back to life only after such an interference: its  *)
(* row was failed while a worker held it, or two workers held it at once.  *)
RevivalNeedsInterference ==
  [][\A r \in Runs :
       rows[r].status \in {"success", "failed"} /\ Active(r)' => r \in disturbed]_vars

(* "The reaper frees the slot": no run blocks its successors for ever,     *)
(* whatever crashed and whichever continuation was lost.                   *)
SlotFreed == \A r \in Runs : Active(r) ~> ~Active(r)

(* A sync run does what SyncCoverage promises. *)
Outcome == [r \in Runs |-> IF Active(r) THEN "open" ELSE rows[r].status]
Coverage == INSTANCE SyncCoverage WITH outcome <- Outcome, duty <- base, visited <- scanned
CoverageSpec == Coverage!Spec
=============================================================================

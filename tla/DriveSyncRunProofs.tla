------------------------- MODULE DriveSyncRunProofs -------------------------
(***************************************************************************)
(* Proofs about DriveSyncRun, for any number of runs, workers, entities.   *)
(***************************************************************************)
EXTENDS DriveSyncRun, FiniteSetTheorems, TLAPS

-----------------------------------------------------------------------------
(* The index of an entity in a sorted list *)

LEMMA RankType ==
  ASSUME NEW S, IsFiniteSet(S), NEW e
  PROVE  /\ IsFiniteSet({x \in S : x < e})
         /\ Rank(S, e) \in Nat
<1>1. IsFiniteSet({x \in S : x < e})
  BY FS_Subset
<1>2. QED
  BY <1>1, FS_CardinalityType DEF Rank

(* A list that has grown has moved its entities to the same or higher     *)
(* indices: what was before index i then includes what is before it now.   *)
LEMMA RankMonotone ==
  ASSUME NEW T, IsFiniteSet(T), NEW S \in SUBSET T, NEW e
  PROVE  Rank(S, e) <= Rank(T, e)
<1> DEFINE A == {x \in S : x < e}
           B == {x \in T : x < e}
<1>1. IsFiniteSet(B)
  BY RankType
<1>2. A \in SUBSET B
  OBVIOUS
<1>3. Cardinality(A) <= Cardinality(B)
  BY <1>1, <1>2, FS_Subset
<1>4. QED
  BY <1>3 DEF Rank

(* An entity of the list has an index below its length. *)
LEMMA RankBound ==
  ASSUME NEW S \in SUBSET Nat, IsFiniteSet(S), NEW e \in S
  PROVE  Rank(S, e) < Cardinality(S)
<1> DEFINE A == {x \in S : x < e}
<1>1. A \in SUBSET S /\ e \notin A
  OBVIOUS
<1>2. /\ Cardinality(A) <= Cardinality(S)
      /\ Cardinality(S) = Cardinality(A) => S = A
  BY <1>1, FS_Subset
<1>3. Cardinality(A) \in Nat /\ Cardinality(S) \in Nat
  BY <1>1, FS_Subset, FS_CardinalityType
<1>4. Cardinality(A) < Cardinality(S)
  BY <1>1, <1>2, <1>3
<1>5. QED
  BY <1>4 DEF Rank

(* Smaller entities have smaller indices, so no two share one. *)
LEMMA RankStrict ==
  ASSUME NEW S \in SUBSET Nat, IsFiniteSet(S), NEW e \in S, NEW f \in S, e < f
  PROVE  Rank(S, e) < Rank(S, f)
<1> DEFINE A == {x \in S : x < e}
           B == {x \in S : x < f}
<1>1. A \in SUBSET B /\ e \in B /\ e \notin A
  <2>1. \A x \in S : x < e => x < f
    OBVIOUS
  <2>2. ~(e < e)
    OBVIOUS
  <2>3. QED
    BY <2>1, <2>2
<1>2. IsFiniteSet(B)
  BY FS_Subset
<1>3. /\ Cardinality(A) <= Cardinality(B)
      /\ Cardinality(B) = Cardinality(A) => B = A
  BY <1>1, <1>2, FS_Subset
<1>4. Cardinality(A) \in Nat /\ Cardinality(B) \in Nat
  BY <1>1, <1>2, FS_Subset, FS_CardinalityType
<1>5. Cardinality(A) < Cardinality(B)
  BY <1>1, <1>3, <1>4
<1>6. QED
  BY <1>5 DEF Rank

LEMMA RankInjective ==
  ASSUME NEW S \in SUBSET Nat, IsFiniteSet(S), NEW e \in S, NEW f \in S,
         Rank(S, e) = Rank(S, f)
  PROVE  e = f
<1>1. Rank(S, e) \in Nat
  BY RankType
<1>2. ~(e < f) /\ ~(f < e)
  BY <1>1, RankStrict
<1>3. e \in Nat /\ f \in Nat
  OBVIOUS
<1>4. QED
  BY <1>2, <1>3

-----------------------------------------------------------------------------
(* Types *)

(* Whoever is to write a row has one that exists, and whoever is to load   *)
(* or walk a list knows its phase.                                         *)
TaskOK ==
  /\ \A r \in Runs : rows[r].status = "absent" => rows[r].chunk = NoChunk
  /\ \A w \in Workers :
       /\ pc[w] \in Holding => /\ task[w].run \in Runs
                               /\ rows[task[w].run].status # "absent"
       /\ pc[w] \in {"resume", "load", "scan"} => task[w].phase \in Phases

Typed == TypeOK /\ TaskOK

(* A scan loop's step keeps the type of what its worker holds. *)
LEMMA TaskAdvanced ==
  ASSUME NEW t \in Task
  PROVE  [t EXCEPT !.index = @ + 1, !.spent = TRUE] \in Task
<1>1. [t EXCEPT !.index = @ + 1] \in Task
  BY DEF Task
<1>2. [[t EXCEPT !.index = @ + 1] EXCEPT !.spent = TRUE]
        = [t EXCEPT !.index = @ + 1, !.spent = TRUE]
  BY DEF Task
<1>3. QED
  BY <1>1, <1>2 DEF Task

LEMMA TypedInit == Init => Typed
BY ConstantsAssumption
DEF Init, Typed, TypeOK, TaskOK, Row, Task, PCs, Holding, Executing, NoTask, NoChunk

(* The reaper and the sweeper write whole rows. *)
LEMMA TypedForceFail ==
  ASSUME Typed, NEW S \in SUBSET Runs, NEW b \in BOOLEAN, ForceFail(S, b),
         \A r \in S : rows[r].status # "absent"
  PROVE  Typed'
BY DEF Typed, TypeOK, TaskOK, ForceFail, Row, Chunks, NoChunk

(* The end of a phase leaves the worker on its run. *)
LEMMA EndPhaseLocal ==
  ASSUME Typed, NEW w \in Workers, EndPhase(w)
  PROVE  /\ task'[w].run = task[w].run /\ pc'[w] \in {"load", "finalize"}
         /\ pc'[w] = "load" => task'[w].phase \in Phases
         /\ \A v \in Workers \ {w} : pc'[v] = pc[v] /\ task'[v] = task[v]
<1>1. \A v \in Workers \ {w} : pc'[v] = pc[v] /\ task'[v] = task[v]
  BY DEF EndPhase, Goto, Typed, TypeOK
<1>2. CASE task[w].phase = PHASE_ACCOUNTS
  <2>1. /\ task' = [task EXCEPT ![w] =
             [@ EXCEPT !.phase = PHASE_CAMPAIGNS, !.index = 0, !.list = {}]]
        /\ pc' = [pc EXCEPT ![w] = "load"]
    BY <1>2 DEF EndPhase, Goto
  <2>2. /\ task'[w].run = task[w].run /\ task'[w].phase = PHASE_CAMPAIGNS
        /\ pc'[w] = "load"
    BY <2>1 DEF Typed, TypeOK, Task
  <2>3. QED
    BY <1>1, <2>2 DEF Phases
<1>3. CASE task[w].phase # PHASE_ACCOUNTS
  <2>1. /\ task' = [task EXCEPT ![w] = [NoTask EXCEPT !.run = task[w].run]]
        /\ pc' = [pc EXCEPT ![w] = "finalize"]
    BY <1>3 DEF EndPhase, Goto
  <2>2. task'[w].run = task[w].run /\ pc'[w] = "finalize"
    BY <2>1 DEF Typed, TypeOK, NoTask
  <2>3. QED
    BY <1>1, <2>2
<1>4. QED
  BY <1>2, <1>3

LEMMA TypedStep == Typed /\ [Next]_vars => Typed'
<1> SUFFICES ASSUME Typed, [Next]_vars PROVE Typed'
  OBVIOUS
<1> USE DEF Typed, table, history
<1>1. ASSUME NEW w \in Workers, Create(w) PROVE Typed'
  <2>1. PICK r \in Runs :
          /\ rows[r].status = "absent"
          /\ rows' = [rows EXCEPT ![r] =
                        [status |-> "running", chunk |-> NoChunk, age |-> "fresh"]]
          /\ base' = [base EXCEPT ![r] = linked]
          /\ raced' = IF w \in late THEN raced \union {r} ELSE raced
          /\ task' = [task EXCEPT ![w] =
               [NoTask EXCEPT !.run = r, !.phase = PHASE_ACCOUNTS, !.spent = TRUE]]
    BY <1>1 DEF Create
  <2>2. rows' \in [Runs -> Row] /\ rows'[r].status = "running"
    BY <2>1 DEF TypeOK, Row
  <2>3. task' \in [Workers -> Task] /\ task'[w].run = r /\ task'[w].phase \in Phases
    BY <2>1 DEF TypeOK, Task, NoTask, Phases, PHASE_ACCOUNTS
  <2>4. /\ base' \in [Runs -> [Phases -> SUBSET Ids]]
        /\ raced' \subseteq Runs
        /\ late' \subseteq Workers
    BY <1>1, <2>1 DEF Create, TypeOK
  <2>5. pc' \in [Workers -> PCs]
    BY <1>1 DEF Create, Goto, TypeOK, PCs, Holding, Executing
  <2>6. TypeOK'
    BY <1>1, <2>1, <2>2, <2>3, <2>4, <2>5 DEF Create, TypeOK
  <2>7. TaskOK'
    BY <1>1, <2>1, <2>2, <2>3 DEF Create, Goto, TypeOK, TaskOK, Holding, Executing, Row
  <2>8. QED
    BY <2>6, <2>7
<1>2. ASSUME NEW w \in Workers, Resume(w) PROVE Typed'
  BY <1>2 DEF Resume, Write, Touched, TypeOK, TaskOK, Row, PCs, Holding, Executing,
     Goto
<1>3. ASSUME NEW w \in Workers, Load(w) PROVE Typed'
  <2>1. linked[task[w].phase] \in SUBSET Ids
    BY <1>3 DEF Load, TypeOK, TaskOK
  <2>2. task' \in [Workers -> Task]
    BY <1>3, <2>1 DEF Load, TypeOK, Task
  <2>3. \A v \in Workers : task'[v].run = task[v].run /\ task'[v].phase = task[v].phase
    BY <1>3 DEF Load, TypeOK, Task
  <2>4. TypeOK'
    BY <1>3, <2>2 DEF Load, Goto, TypeOK, PCs, Holding, Executing
  <2>5. TaskOK'
    BY <1>3, <2>3 DEF Load, Goto, TypeOK, TaskOK, Holding, Executing
  <2>6. QED
    BY <2>4, <2>5
<1>4. ASSUME NEW w \in Workers, ScanNext(w) PROVE Typed'
  <2>1. PICK e \in task[w].list :
          scanned' = [scanned EXCEPT ![task[w].run][task[w].phase] = @ \union {e}]
    BY <1>4 DEF ScanNext
  <2>2. e \in Ids /\ task[w].run \in Runs /\ task[w].phase \in Phases
    BY <1>4 DEF ScanNext, TypeOK, TaskOK, Task, Holding, Executing
  <2>3. scanned' \in [Runs -> [Phases -> SUBSET Ids]]
    BY <2>1, <2>2 DEF TypeOK
  <2>4. task' \in [Workers -> Task]
    <3>1. task[w] \in Task
      BY DEF TypeOK
    <3>2. [task[w] EXCEPT !.index = @ + 1, !.spent = TRUE] \in Task
      BY <3>1, TaskAdvanced
    <3>3. task' = [task EXCEPT ![w] = [task[w] EXCEPT !.index = @ + 1, !.spent = TRUE]]
      BY <1>4 DEF ScanNext
    <3>4. QED
      BY <3>2, <3>3 DEF TypeOK
  <2>5. \A v \in Workers : task'[v].run = task[v].run /\ task'[v].phase = task[v].phase
    BY <1>4 DEF ScanNext, TypeOK, Task
  <2>6. TypeOK'
    BY <1>4, <2>3, <2>4 DEF ScanNext, TypeOK
  <2>7. TaskOK'
    BY <1>4, <2>5 DEF ScanNext, TaskOK
  <2>8. QED
    BY <2>6, <2>7
<1>5. ASSUME NEW w \in Workers, EndPhase(w) PROVE Typed'
  <2>1. task' \in [Workers -> Task]
    <3>1. task[w] \in Task
      BY DEF TypeOK
    <3>2. /\ [task[w] EXCEPT !.phase = PHASE_CAMPAIGNS, !.index = 0, !.list = {}] \in Task
          /\ [NoTask EXCEPT !.run = task[w].run] \in Task
      BY <3>1 DEF Task, NoTask, Phases, PHASE_ACCOUNTS, PHASE_CAMPAIGNS
    <3>3. QED
      BY <1>5, <3>2 DEF EndPhase, TypeOK
  <2>2. /\ task'[w].run = task[w].run /\ pc'[w] \in {"load", "finalize"}
        /\ pc'[w] = "load" => task'[w].phase \in Phases
        /\ \A v \in Workers \ {w} : pc'[v] = pc[v] /\ task'[v] = task[v]
    BY <1>5, EndPhaseLocal
  <2>3. pc' \in [Workers -> PCs]
    BY <1>5 DEF EndPhase, Goto, TypeOK, PCs, Holding, Executing
  <2>4. TypeOK'
    BY <1>5, <2>1, <2>3 DEF EndPhase, TypeOK
  <2>5. TaskOK'
    BY <1>5, <2>2 DEF EndPhase, TaskOK, Holding, Executing
  <2>6. QED
    BY <2>4, <2>5
<1>6. ASSUME NEW w \in Workers, Pause(w) PROVE Typed'
  BY <1>6 DEF Pause, OverBudget, Write, Touched, Chunk, Chunks, End, TypeOK, TaskOK,
     Row, Task, PCs, Holding, Executing, NoTask, NoChunk, Goto, Phases,
     PHASE_ACCOUNTS, PHASE_CAMPAIGNS
<1>7. ASSUME NEW w \in Workers, Finalize(w) PROVE Typed'
  BY <1>7 DEF Finalize, Write, Touched, TypeOK, TaskOK, Row, PCs, Holding, Executing,
     NoChunk, Goto
<1>8. ASSUME NEW w \in Workers, Capture(w) PROVE Typed'
  BY <1>8 DEF Capture, End, TypeOK, TaskOK, Task, PCs, Holding, Executing, NoTask, Goto
<1>9. ASSUME NEW w \in Workers, Throw(w) PROVE Typed'
  BY <1>9 DEF Throw, TypeOK, TaskOK, Task, PCs, Holding, Executing, NoTask, Goto
<1>10. ASSUME NEW w \in Workers, Abort(w) PROVE Typed'
  BY <1>10 DEF Abort, Write, End, TypeOK, TaskOK, Row, Task, PCs, Holding, Executing,
     NoTask, NoChunk, Goto
<1>11. ASSUME NEW w \in Workers, CheckNoneInFlight(w) PROVE Typed'
  BY <1>11 DEF CheckNoneInFlight, TypeOK, TaskOK, PCs, Holding, Executing, Goto
<1>12. ASSUME NEW w \in Workers, Crash(w) PROVE Typed'
  BY <1>12 DEF Crash, End, TypeOK, TaskOK, Task, PCs, Holding, Executing, NoTask, Goto
<1>13. ASSUME NEW w \in Workers, NEW r \in Runs, Lookup(w, r) PROVE Typed'
  BY <1>13 DEF Lookup, TakeUp, TypeOK, TaskOK, Row, Chunks, Task, PCs, Holding, Executing,
     NoTask, Goto
<1>14. ASSUME NEW r \in Runs, Age(r) PROVE Typed'
  BY <1>14 DEF Age, Active, TypeOK, TaskOK, Row
<1>15. ASSUME NEW p \in Phases, NEW e \in Ids, Link(p, e) PROVE Typed'
  BY <1>15 DEF Link, TypeOK, TaskOK
<1>16. ASSUME NEW s \in {"running", "paused"}, Reap(s) PROVE Typed'
  <2>1. StaleRuns(s) \in SUBSET Runs /\ \A r \in StaleRuns(s) : rows[r].status # "absent"
    BY DEF StaleRuns
  <2>2. ForceFail(StaleRuns(s), TRUE)
    BY <1>16 DEF Reap
  <2>3. QED
    BY <2>1, <2>2, TypedForceFail
<1>17. CASE DirectorySweep
  <2>1. OldRunning \in SUBSET Runs /\ \A r \in OldRunning : rows[r].status # "absent"
    BY DEF OldRunning
  <2>2. ForceFail(OldRunning, FALSE)
    BY <1>17 DEF DirectorySweep
  <2>3. QED
    BY <2>1, <2>2, TypedForceFail
<1>18. CASE UNCHANGED vars
  BY <1>18 DEF vars, TypeOK, TaskOK
<1>19. QED
  BY <1>1, <1>2, <1>3, <1>4, <1>5, <1>6, <1>7, <1>8, <1>9, <1>10, <1>11, <1>12,
     <1>13, <1>14, <1>15, <1>16, <1>17, <1>18 DEF Next, Step

(* Every variable keeps its type, and a paused row its checkpoint. *)
THEOREM TypeCorrect == Spec => []TypeOK
<1>1. Typed => TypeOK
  BY DEF Typed
<1>2. QED
  BY TypedInit, TypedStep, <1>1, PTL DEF Spec
-----------------------------------------------------------------------------
(* Coverage *)

(* What a row may promise: the run's duty is still linked, its checkpoint  *)
(* skips nothing of it, and a success has attempted all of it.             *)
RunCovers(r) ==
  /\ \A p \in Phases : base[r][p] \subseteq linked[p]
  /\ rows[r].chunk # NoChunk =>
       Covered(r, rows[r].chunk.phase, rows[r].chunk.index, linked[rows[r].chunk.phase])
  /\ rows[r].status = "success" => AllCovered(r)

(* What a worker may count on at the point it has reached. *)
WorkerCovers(w) ==
  LET t == task[w] IN
  /\ pc[w] \in {"resume", "load"} => Covered(t.run, t.phase, t.index, linked[t.phase])
  /\ pc[w] = "scan" => /\ base[t.run][t.phase] \subseteq t.list
                       /\ t.list \subseteq linked[t.phase]
                       /\ Covered(t.run, t.phase, t.index, t.list)
  /\ pc[w] = "finalize" => AllCovered(t.run)

CoverageInv == /\ Typed
               /\ \A r \in Runs : RunCovers(r)
               /\ \A w \in Workers : WorkerCovers(w)

(* Covered, of a duty b and the visits s: what a later list T with more    *)
(* entities, or more visits u, leaves true.                                *)
CoveredBy(b, s, p, i, S) ==
  /\ \A q \in Phases : q < p => b[q] \subseteq s[q]
  /\ \A e \in b[p] : Rank(S, e) < i => e \in s[p]

LEMMA CoveredByGrows ==
  ASSUME NEW b, NEW s, NEW u, NEW p \in Phases, NEW i \in Nat,
         NEW T \in SUBSET Ids, NEW S \in SUBSET T,
         \A q \in Phases : s[q] \subseteq u[q],
         CoveredBy(b, s, p, i, S)
  PROVE  CoveredBy(b, u, p, i, T)
<1>1. IsFiniteSet(T) /\ IsFiniteSet(S)
  BY ConstantsAssumption, FS_Subset
<1>2. \A e \in b[p] : Rank(T, e) < i => Rank(S, e) < i
  <2>1. TAKE e \in b[p]
  <2>2. Rank(S, e) <= Rank(T, e) /\ Rank(S, e) \in Nat /\ Rank(T, e) \in Nat
    BY <1>1, RankMonotone, RankType
  <2>3. QED
    BY <2>2
<1>3. QED
  BY <1>2 DEF CoveredBy

(* Nothing a step does to run r takes away from what holds of it. *)
KeptRun(r) == /\ base'[r] = base[r]
              /\ \A p \in Phases : scanned[r][p] \subseteq scanned'[r][p]

LinksGrow == \A p \in Phases : linked[p] \subseteq linked'[p]

LEMMA RunKept ==
  ASSUME CoverageInv, Typed', LinksGrow, NEW r \in Runs, KeptRun(r),
         rows'[r].chunk \in {rows[r].chunk, NoChunk},
         rows'[r].status = "success" => rows[r].status = "success"
  PROVE  RunCovers(r)'
<1>1. \A p \in Phases : base'[r][p] \subseteq linked'[p]
  BY DEF CoverageInv, RunCovers, LinksGrow, KeptRun
<1>2. ASSUME rows'[r].chunk # NoChunk
      PROVE  CoveredBy(base'[r], scanned'[r], rows'[r].chunk.phase,
                       rows'[r].chunk.index, linked'[rows'[r].chunk.phase])
  <2> DEFINE c == rows[r].chunk
  <2>1. rows'[r].chunk = c /\ c # NoChunk
    BY <1>2
  <2>2. c.phase \in Phases /\ c.index \in Nat
    BY <2>1 DEF CoverageInv, Typed, TypeOK, Row, Chunks
  <2>3. CoveredBy(base[r], scanned[r], c.phase, c.index, linked[c.phase])
    BY <2>1 DEF CoverageInv, RunCovers, Covered, CoveredBy
  <2>4. linked[c.phase] \in SUBSET linked'[c.phase] /\ linked'[c.phase] \in SUBSET Ids
    BY <2>2 DEF LinksGrow, Typed, TypeOK
  <2>5. CoveredBy(base'[r], scanned'[r], c.phase, c.index, linked'[c.phase])
    BY <2>2, <2>3, <2>4, CoveredByGrows DEF KeptRun
  <2>6. QED
    BY <2>1, <2>5
<1>3. rows'[r].status = "success" =>
        \A p \in Phases : base'[r][p] \subseteq scanned'[r][p]
  BY DEF CoverageInv, RunCovers, AllCovered, KeptRun
<1>4. QED
  BY <1>1, <1>2, <1>3 DEF RunCovers, Covered, CoveredBy, AllCovered

LEMMA WorkerKept ==
  ASSUME CoverageInv, Typed', LinksGrow, NEW v \in Workers,
         pc'[v] = pc[v], task'[v] = task[v],
         pc[v] \in Holding => KeptRun(task[v].run)
  PROVE  WorkerCovers(v)'
<1> DEFINE t == task[v]
<1>1. ASSUME pc[v] \in {"resume", "load"}
      PROVE  CoveredBy(base'[t.run], scanned'[t.run], t.phase, t.index, linked'[t.phase])
  <2>1. t.phase \in Phases /\ t.index \in Nat /\ KeptRun(t.run)
    BY <1>1 DEF CoverageInv, Typed, TypeOK, TaskOK, Task, Holding, Executing
  <2>2. CoveredBy(base[t.run], scanned[t.run], t.phase, t.index, linked[t.phase])
    BY <1>1 DEF CoverageInv, WorkerCovers, Covered, CoveredBy
  <2>3. linked[t.phase] \in SUBSET linked'[t.phase] /\ linked'[t.phase] \in SUBSET Ids
    BY <2>1 DEF LinksGrow, Typed, TypeOK
  <2>4. QED
    BY <2>1, <2>2, <2>3, CoveredByGrows DEF KeptRun
<1>2. ASSUME pc[v] = "scan"
      PROVE  /\ base'[t.run][t.phase] \subseteq t.list
             /\ t.list \subseteq linked'[t.phase]
             /\ CoveredBy(base'[t.run], scanned'[t.run], t.phase, t.index, t.list)
  <2>1. t.phase \in Phases /\ t.index \in Nat /\ t.list \in SUBSET Ids /\ KeptRun(t.run)
    BY <1>2 DEF CoverageInv, Typed, TypeOK, TaskOK, Task, Holding, Executing
  <2>2. CoveredBy(base[t.run], scanned[t.run], t.phase, t.index, t.list)
    BY <1>2 DEF CoverageInv, WorkerCovers, Covered, CoveredBy
  <2>3. CoveredBy(base'[t.run], scanned'[t.run], t.phase, t.index, t.list)
    BY <2>1, <2>2, CoveredByGrows DEF KeptRun
  <2>4. base[t.run][t.phase] \subseteq t.list /\ t.list \subseteq linked[t.phase]
    BY <1>2 DEF CoverageInv, WorkerCovers
  <2>5. QED
    BY <2>1, <2>3, <2>4 DEF KeptRun, LinksGrow
<1>3. ASSUME pc[v] = "finalize"
      PROVE  \A p \in Phases : base'[t.run][p] \subseteq scanned'[t.run][p]
  BY <1>3 DEF CoverageInv, WorkerCovers, AllCovered, KeptRun, Holding, Executing
<1>4. QED
  BY <1>1, <1>2, <1>3 DEF WorkerCovers, Covered, CoveredBy, AllCovered

LEMMA CoverageInit == Init => CoverageInv
<1> SUFFICES ASSUME Init PROVE CoverageInv
  OBVIOUS
<1>1. Typed
  BY TypedInit
<1>2. \A r \in Runs : RunCovers(r)
  BY DEF Init, RunCovers
<1>3. \A w \in Workers : WorkerCovers(w)
  BY DEF Init, WorkerCovers
<1>4. QED
  BY <1>1, <1>2, <1>3 DEF CoverageInv
(* A step that only changes what worker w relies on. *)
LEMMA LocalStep ==
  ASSUME CoverageInv, Typed', LinksGrow, \A r \in Runs : KeptRun(r),
         \A r \in Runs : /\ rows'[r].chunk \in {rows[r].chunk, NoChunk}
                         /\ rows'[r].status = "success" => rows[r].status = "success",
         NEW w \in Workers,
         \A v \in Workers \ {w} : pc'[v] = pc[v] /\ task'[v] = task[v],
         WorkerCovers(w)'
  PROVE  CoverageInv'
<1>1. \A r \in Runs : RunCovers(r)'
  BY RunKept
<1>2. ASSUME NEW v \in Workers \ {w} PROVE WorkerCovers(v)'
  <2>1. pc[v] \in Holding => KeptRun(task[v].run)
    BY DEF CoverageInv, Typed, TaskOK
  <2>2. QED
    BY <2>1, WorkerKept
<1>3. QED
  BY <1>1, <1>2 DEF CoverageInv

(* A step after which worker w relies on nothing. *)
LEMMA QuietStep ==
  ASSUME CoverageInv, Typed', LinksGrow, \A r \in Runs : KeptRun(r),
         \A r \in Runs : /\ rows'[r].chunk \in {rows[r].chunk, NoChunk}
                         /\ rows'[r].status = "success" => rows[r].status = "success",
         NEW w \in Workers,
         \A v \in Workers \ {w} : pc'[v] = pc[v] /\ task'[v] = task[v],
         pc'[w] \notin {"resume", "load", "scan", "finalize"}
  PROVE  CoverageInv'
<1>1. WorkerCovers(w)'
  BY DEF WorkerCovers
<1>2. QED
  BY <1>1, LocalStep

LEMMA CreateCovers ==
  ASSUME CoverageInv, Typed', NEW w \in Workers, Create(w)
  PROVE  CoverageInv'
<1>1. PICK r \in Runs :
        /\ rows[r].status = "absent"
        /\ rows' = [rows EXCEPT ![r] =
                      [status |-> "running", chunk |-> NoChunk, age |-> "fresh"]]
        /\ base' = [base EXCEPT ![r] = linked]
        /\ task' = [task EXCEPT ![w] =
             [NoTask EXCEPT !.run = r, !.phase = PHASE_ACCOUNTS, !.spent = TRUE]]
  BY DEF Create
<1>2. pc' = [pc EXCEPT ![w] = "load"] /\ linked' = linked /\ scanned' = scanned
  BY DEF Create, Goto
<1>3. LinksGrow /\ \A s \in Runs \ {r} : KeptRun(s)
  BY <1>1, <1>2 DEF LinksGrow, KeptRun, CoverageInv, Typed, TypeOK
<1>4. ASSUME NEW s \in Runs \ {r} PROVE RunCovers(s)'
  <2>1. rows'[s] = rows[s]
    BY <1>1 DEF CoverageInv, Typed, TypeOK
  <2>2. QED
    BY <1>3, <2>1, RunKept
<1>5. RunCovers(r)'
  <2>1. rows'[r].status = "running" /\ rows'[r].chunk = NoChunk /\ base'[r] = linked
    BY <1>1 DEF CoverageInv, Typed, TypeOK
  <2>2. QED
    BY <1>2, <2>1 DEF RunCovers
<1>6. ASSUME NEW v \in Workers \ {w} PROVE WorkerCovers(v)'
  <2>1. pc'[v] = pc[v] /\ task'[v] = task[v]
    BY <1>1, <1>2 DEF CoverageInv, Typed, TypeOK
  <2>2. pc[v] \in Holding => task[v].run \in Runs \ {r}
    BY <1>1 DEF CoverageInv, Typed, TaskOK
  <2>3. QED
    BY <1>3, <2>1, <2>2, WorkerKept
<1>7. WorkerCovers(w)'
  <2>1. /\ pc'[w] = "load"
        /\ task'[w].run = r /\ task'[w].phase = 2 /\ task'[w].index = 0
    BY <1>1, <1>2 DEF CoverageInv, Typed, TypeOK, NoTask, PHASE_ACCOUNTS
  <2>2. linked'[2] \in SUBSET Ids
    BY DEF Typed, TypeOK, Phases, PHASE_ACCOUNTS
  <2>3. \A e : Rank(linked'[2], e) \in Nat
    BY <2>2, ConstantsAssumption, FS_Subset, RankType
  <2>4. \A e : ~(Rank(linked'[2], e) < 0)
    BY <2>3
  <2>5. \A q \in Phases : ~(q < 2)
    BY DEF Phases, PHASE_ACCOUNTS, PHASE_CAMPAIGNS
  <2>6. Covered(r, 2, 0, linked[2])'
    BY <2>4, <2>5 DEF Covered
  <2>7. QED
    BY <2>1, <2>6 DEF WorkerCovers
<1>8. QED
  BY <1>4, <1>5, <1>6, <1>7 DEF CoverageInv

LEMMA ScanCovers ==
  ASSUME CoverageInv, Typed', NEW w \in Workers, ScanNext(w)
  PROVE  CoverageInv'
<1> DEFINE t == task[w]
<1>1. PICK e \in t.list :
        /\ Rank(t.list, e) = t.index
        /\ scanned' = [scanned EXCEPT ![t.run][t.phase] = @ \union {e}]
  BY DEF ScanNext
<1>2. /\ pc[w] = "scan" /\ pc' = pc
      /\ rows' = rows /\ linked' = linked /\ base' = base
      /\ task' = [task EXCEPT ![w] = [t EXCEPT !.index = t.index + 1, !.spent = TRUE]]
  BY DEF ScanNext, table
<1>3. /\ t \in Task /\ t.run \in Runs /\ t.phase \in Phases
      /\ t.index \in Nat /\ t.list \in SUBSET Ids
  BY <1>2 DEF CoverageInv, Typed, TypeOK, TaskOK, Task, Holding, Executing
<1>4. /\ \A v \in Workers \ {w} : task'[v] = task[v]
      /\ task'[w].run = t.run /\ task'[w].phase = t.phase
      /\ task'[w].index = t.index + 1 /\ task'[w].list = t.list
  BY <1>2, <1>3 DEF CoverageInv, Typed, TypeOK, Task
<1>5. LinksGrow /\ \A r \in Runs : KeptRun(r)
  BY <1>1, <1>2, <1>3 DEF LinksGrow, KeptRun, CoverageInv, Typed, TypeOK
<1>6. e \in scanned'[t.run][t.phase]
  BY <1>1, <1>3 DEF CoverageInv, Typed, TypeOK
<1>7. /\ base[t.run][t.phase] \subseteq t.list /\ t.list \subseteq linked[t.phase]
      /\ Covered(t.run, t.phase, t.index, t.list)
  BY <1>2 DEF CoverageInv, WorkerCovers
<1>8. ASSUME NEW f \in base[t.run][t.phase], Rank(t.list, f) < t.index + 1
      PROVE  f \in scanned'[t.run][t.phase]
  <2>1. Rank(t.list, f) \in Nat
    BY <1>3, ConstantsAssumption, FS_Subset, RankType
  <2>2. CASE Rank(t.list, f) < t.index
    BY <1>3, <1>5, <1>7, <2>2 DEF Covered, KeptRun
  <2>3. CASE Rank(t.list, f) = t.index
    <3>1. t.list \in SUBSET Nat /\ IsFiniteSet(t.list) /\ f \in t.list
      BY <1>3, <1>7, ConstantsAssumption, FS_Subset
    <3>2. f = e
      BY <1>1, <2>3, <3>1, RankInjective
    <3>3. QED
      BY <1>6, <3>2
  <2>4. QED
    BY <1>3, <1>8, <2>1, <2>2, <2>3
<1>9. WorkerCovers(w)'
  <2>1. \A q \in Phases : q < t.phase => base'[t.run][q] \subseteq scanned'[t.run][q]
    BY <1>2, <1>3, <1>5, <1>7 DEF Covered, KeptRun
  <2>2. \A f \in base'[t.run][t.phase] :
          Rank(t.list, f) < t.index + 1 => f \in scanned'[t.run][t.phase]
    BY <1>2, <1>8
  <2>3. base'[t.run][t.phase] \subseteq t.list /\ t.list \subseteq linked'[t.phase]
    BY <1>2, <1>7
  <2>4. QED
    BY <1>2, <1>4, <2>1, <2>2, <2>3 DEF WorkerCovers, Covered
<1>10. QED
  BY <1>2, <1>4, <1>5, <1>9, LocalStep

LEMMA EndPhaseCovers ==
  ASSUME CoverageInv, Typed', NEW w \in Workers, EndPhase(w)
  PROVE  CoverageInv'
<1> DEFINE t == task[w]
<1>1. /\ pc[w] = "scan" /\ t.index >= Cardinality(t.list)
      /\ rows' = rows /\ linked' = linked /\ base' = base /\ scanned' = scanned
  BY DEF EndPhase, table, history
<1>2. /\ t.run \in Runs /\ t.phase \in Phases
      /\ t.index \in Nat /\ t.list \in SUBSET Ids
  BY <1>1 DEF CoverageInv, Typed, TypeOK, TaskOK, Task, Holding, Executing
<1>3. /\ base[t.run][t.phase] \subseteq t.list
      /\ Covered(t.run, t.phase, t.index, t.list)
  BY <1>1 DEF CoverageInv, WorkerCovers
<1>4. base[t.run][t.phase] \subseteq scanned[t.run][t.phase]
  <2>1. SUFFICES ASSUME NEW e \in base[t.run][t.phase]
                 PROVE  e \in scanned[t.run][t.phase]
    OBVIOUS
  <2>2. t.list \in SUBSET Nat /\ IsFiniteSet(t.list) /\ e \in t.list
    BY <1>2, <1>3, ConstantsAssumption, FS_Subset
  <2>3. Rank(t.list, e) < Cardinality(t.list)
    BY <2>2, RankBound
  <2>4. Rank(t.list, e) \in Nat /\ Cardinality(t.list) \in Nat
    BY <2>2, RankType, FS_CardinalityType
  <2>5. Rank(t.list, e) < t.index
    BY <1>1, <1>2, <2>3, <2>4
  <2>6. QED
    BY <1>3, <2>5 DEF Covered
<1>5. LinksGrow /\ \A r \in Runs : KeptRun(r)
  BY <1>1 DEF LinksGrow, KeptRun
<1>6. \A v \in Workers \ {w} : pc'[v] = pc[v] /\ task'[v] = task[v]
  BY DEF EndPhase, Goto, CoverageInv, Typed, TypeOK
<1>7. WorkerCovers(w)'
  <2>1. CASE t.phase = PHASE_ACCOUNTS
    <3>1. /\ task' = [task EXCEPT ![w] =
               [@ EXCEPT !.phase = PHASE_CAMPAIGNS, !.index = 0, !.list = {}]]
          /\ pc' = [pc EXCEPT ![w] = "load"]
      BY <2>1 DEF EndPhase, Goto
    <3>2. t \in Task
      BY DEF CoverageInv, Typed, TypeOK
    <3>3. /\ pc'[w] = "load"
          /\ task'[w].run = t.run /\ task'[w].phase = 3 /\ task'[w].index = 0
      BY <3>1, <3>2 DEF CoverageInv, Typed, TypeOK, Task, PHASE_CAMPAIGNS
    <3>4. linked[3] \in SUBSET Ids
      BY DEF CoverageInv, Typed, TypeOK, Phases, PHASE_CAMPAIGNS
    <3>5. \A e : Rank(linked[3], e) \in Nat
      BY <3>4, ConstantsAssumption, FS_Subset, RankType
    <3>6. \A e : ~(Rank(linked[3], e) < 0)
      BY <3>5
    <3>7. \A q \in Phases : q < 3 => q = t.phase
      BY <2>1 DEF Phases, PHASE_ACCOUNTS, PHASE_CAMPAIGNS
    <3>8. QED
      BY <1>1, <1>4, <3>3, <3>6, <3>7 DEF WorkerCovers, Covered
  <2>2. CASE t.phase # PHASE_ACCOUNTS
    <3>1. /\ task' = [task EXCEPT ![w] = [NoTask EXCEPT !.run = t.run]]
          /\ pc' = [pc EXCEPT ![w] = "finalize"]
      BY <2>2 DEF EndPhase, Goto
    <3>2. pc'[w] = "finalize" /\ task'[w].run = t.run
      BY <3>1 DEF CoverageInv, Typed, TypeOK, NoTask
    <3>3. \A q \in Phases : q = t.phase \/ q < t.phase
      BY <1>2, <2>2 DEF Phases, PHASE_ACCOUNTS, PHASE_CAMPAIGNS
    <3>4. QED
      BY <1>1, <1>3, <1>4, <3>2, <3>3 DEF WorkerCovers, Covered, AllCovered
  <2>3. QED
    BY <2>1, <2>2
<1>8. QED
  BY <1>1, <1>5, <1>6, <1>7, LocalStep

LEMMA PauseCovers ==
  ASSUME CoverageInv, Typed', NEW w \in Workers, Pause(w)
  PROVE  CoverageInv'
<1> DEFINE t == task[w]
<1> PICK r \in Runs : r = t.run
  BY DEF Pause, OverBudget, CoverageInv, Typed, TaskOK, Holding, Executing
<1>1. /\ pc[w] = "scan" /\ linked' = linked /\ base' = base /\ scanned' = scanned
      /\ Write(r, "paused", Chunk(t.phase, t.index))
      /\ End(w)
  BY DEF Pause, OverBudget, history
<1>2. /\ t.phase \in Phases
      /\ t.index \in Nat /\ t.list \in SUBSET Ids
  BY <1>1 DEF CoverageInv, Typed, TypeOK, TaskOK, Task, Holding, Executing
<1>3. LinksGrow /\ \A s \in Runs : KeptRun(s)
  BY <1>1 DEF LinksGrow, KeptRun
<1>4. ASSUME NEW s \in Runs \ {r} PROVE RunCovers(s)'
  <2>1. rows'[s] = rows[s]
    BY <1>1 DEF Write, CoverageInv, Typed, TypeOK
  <2>2. QED
    BY <1>3, <2>1, RunKept
<1>5. RunCovers(r)'
  <2>1. rows'[r].status = "paused" /\ rows'[r].chunk = [phase |-> t.phase, index |-> t.index]
    BY <1>1, <1>2 DEF Write, Chunk, CoverageInv, Typed, TypeOK
  <2>2. /\ t.list \in SUBSET linked[t.phase] /\ linked[t.phase] \in SUBSET Ids
        /\ CoveredBy(base[r], scanned[r], t.phase, t.index, t.list)
    BY <1>1, <1>2 DEF CoverageInv, WorkerCovers, Typed, TypeOK, Covered, CoveredBy
  <2>3. CoveredBy(base[r], scanned[r], t.phase, t.index, linked[t.phase])
    BY <1>2, <2>2, CoveredByGrows
  <2>4. \A p \in Phases : base[r][p] \subseteq linked[p]
    BY <1>2 DEF CoverageInv, RunCovers
  <2>5. QED
    BY <1>1, <2>1, <2>3, <2>4 DEF RunCovers, Covered, CoveredBy
<1>6. ASSUME NEW v \in Workers PROVE WorkerCovers(v)'
  <2>1. CASE v = w
    BY <1>1, <2>1 DEF End, Goto, WorkerCovers, CoverageInv, Typed, TypeOK
  <2>2. CASE v # w
    <3>1. pc'[v] = pc[v] /\ task'[v] = task[v]
      BY <1>1, <2>2 DEF End, Goto, CoverageInv, Typed, TypeOK
    <3>2. pc[v] \in Holding => KeptRun(task[v].run)
      BY <1>3 DEF CoverageInv, Typed, TaskOK
    <3>3. QED
      BY <1>3, <3>1, <3>2, WorkerKept
  <2>3. QED
    BY <2>1, <2>2
<1>7. QED
  BY <1>4, <1>5, <1>6 DEF CoverageInv
LEMMA FinalizeCovers ==
  ASSUME CoverageInv, Typed', NEW w \in Workers, Finalize(w)
  PROVE  CoverageInv'
<1> PICK r \in Runs : r = task[w].run
  BY DEF Finalize, CoverageInv, Typed, TaskOK, Holding, Executing
<1>1. /\ pc[w] = "finalize" /\ pc' = [pc EXCEPT ![w] = "capture"] /\ task' = task
      /\ linked' = linked /\ base' = base /\ scanned' = scanned
      /\ Write(r, "success", NoChunk)
  BY DEF Finalize, Goto, history
<1>2. LinksGrow /\ \A s \in Runs : KeptRun(s)
  BY <1>1 DEF LinksGrow, KeptRun
<1>3. ASSUME NEW s \in Runs \ {r} PROVE RunCovers(s)'
  <2>1. rows'[s] = rows[s]
    BY <1>1 DEF Write, CoverageInv, Typed, TypeOK
  <2>2. QED
    BY <1>2, <2>1, RunKept
<1>4. RunCovers(r)'
  <2>1. rows'[r].chunk = NoChunk
    BY <1>1 DEF Write, CoverageInv, Typed, TypeOK
  <2>2. AllCovered(r)
    BY <1>1 DEF CoverageInv, WorkerCovers
  <2>3. QED
    BY <1>1, <2>1, <2>2 DEF RunCovers, AllCovered, CoverageInv
<1>5. ASSUME NEW v \in Workers PROVE WorkerCovers(v)'
  <2>1. CASE v = w
    BY <1>1, <2>1 DEF WorkerCovers, CoverageInv, Typed, TypeOK
  <2>2. CASE v # w
    <3>1. pc'[v] = pc[v] /\ task'[v] = task[v]
      BY <1>1, <2>2 DEF CoverageInv, Typed, TypeOK
    <3>2. pc[v] \in Holding => KeptRun(task[v].run)
      BY <1>2 DEF CoverageInv, Typed, TaskOK
    <3>3. QED
      BY <1>2, <3>1, <3>2, WorkerKept
  <2>3. QED
    BY <2>1, <2>2
<1>6. QED
  BY <1>3, <1>4, <1>5 DEF CoverageInv

(* The reaper and the sweeper: rows S lose at most their checkpoints. *)
LEMMA ForceFailCovers ==
  ASSUME CoverageInv, Typed', NEW S \in SUBSET Runs, NEW b \in BOOLEAN, ForceFail(S, b)
  PROVE  CoverageInv'
<1>1. LinksGrow /\ \A r \in Runs : KeptRun(r)
  BY DEF ForceFail, LinksGrow, KeptRun
<1>2. \A r \in Runs : /\ rows'[r].chunk \in {rows[r].chunk, NoChunk}
                      /\ rows'[r].status = "success" => rows[r].status = "success"
  BY DEF ForceFail
<1>3. \A r \in Runs : RunCovers(r)'
  BY <1>1, <1>2, RunKept
<1>4. ASSUME NEW v \in Workers PROVE WorkerCovers(v)'
  <2>1. pc[v] \in Holding => KeptRun(task[v].run)
    BY <1>1 DEF CoverageInv, Typed, TaskOK
  <2>2. QED
    BY <1>1, <2>1, WorkerKept DEF ForceFail
<1>5. QED
  BY <1>3, <1>4 DEF CoverageInv

LEMMA CoverageStep == CoverageInv /\ [Next]_vars => CoverageInv'
<1> SUFFICES ASSUME CoverageInv, [Next]_vars PROVE CoverageInv'
  OBVIOUS
<1> Typed /\ Typed'
  BY TypedStep DEF CoverageInv
<1> USE DEF table, history
<1>1. ASSUME NEW w \in Workers, Create(w) PROVE CoverageInv'
  BY <1>1, CreateCovers
<1>2. ASSUME NEW w \in Workers, Resume(w) PROVE CoverageInv'
  <2>1. LinksGrow /\ \A r \in Runs : KeptRun(r)
    BY <1>2 DEF Resume, LinksGrow, KeptRun
  <2>2. \A r \in Runs : rows'[r].chunk = rows[r].chunk
                      /\ (rows'[r].status = "success" => rows[r].status = "success")
    BY <1>2 DEF Resume, Write, Typed, TypeOK
  <2>3. /\ \A v \in Workers \ {w} : pc'[v] = pc[v] /\ task'[v] = task[v]
        /\ pc[w] = "resume" /\ pc'[w] = "load"
        /\ task' = task /\ linked' = linked /\ base' = base /\ scanned' = scanned
    BY <1>2 DEF Resume, Goto, Typed, TypeOK
  <2>4. WorkerCovers(w)'
    BY <2>3 DEF CoverageInv, WorkerCovers, Covered
  <2>5. QED
    BY <2>1, <2>2, <2>3, <2>4, LocalStep
<1>3. ASSUME NEW w \in Workers, Load(w) PROVE CoverageInv'
  <2>1. LinksGrow /\ \A r \in Runs : KeptRun(r)
    BY <1>3 DEF Load, LinksGrow, KeptRun
  <2>2. /\ \A v \in Workers \ {w} : pc'[v] = pc[v] /\ task'[v] = task[v]
        /\ pc[w] = "load" /\ pc'[w] = "scan"
        /\ rows' = rows /\ linked' = linked /\ base' = base /\ scanned' = scanned
    BY <1>3 DEF Load, Goto, Typed, TypeOK
  <2>3. /\ task'[w].run = task[w].run /\ task'[w].phase = task[w].phase
        /\ task'[w].index = task[w].index /\ task'[w].list = linked[task[w].phase]
    BY <1>3 DEF Load, Typed, TypeOK, Task
  <2>4. base[task[w].run][task[w].phase] \subseteq linked[task[w].phase]
    BY <2>2 DEF CoverageInv, RunCovers, Typed, TaskOK, Holding, Executing
  <2>5. Covered(task[w].run, task[w].phase, task[w].index, linked[task[w].phase])
    BY <2>2 DEF CoverageInv, WorkerCovers
  <2>6. WorkerCovers(w)'
    BY <2>2, <2>3, <2>4, <2>5 DEF WorkerCovers, Covered
  <2>7. QED
    BY <2>1, <2>2, <2>6, LocalStep
<1>4. ASSUME NEW w \in Workers, ScanNext(w) PROVE CoverageInv'
  BY <1>4, ScanCovers
<1>5. ASSUME NEW w \in Workers, EndPhase(w) PROVE CoverageInv'
  BY <1>5, EndPhaseCovers
<1>6. ASSUME NEW w \in Workers, Pause(w) PROVE CoverageInv'
  BY <1>6, PauseCovers
<1>7. ASSUME NEW w \in Workers, Finalize(w) PROVE CoverageInv'
  BY <1>7, FinalizeCovers
<1>8. ASSUME NEW w \in Workers, Capture(w) PROVE CoverageInv'
  <2>1. LinksGrow /\ \A r \in Runs : KeptRun(r)
    BY <1>8 DEF Capture, LinksGrow, KeptRun
  <2>2. \A r \in Runs : /\ rows'[r].chunk \in {rows[r].chunk, NoChunk}
                        /\ rows'[r].status = "success" => rows[r].status = "success"
    BY <1>8 DEF Capture, Typed, TypeOK, TaskOK, Row, Holding, Executing
  <2>3. /\ \A v \in Workers \ {w} : pc'[v] = pc[v] /\ task'[v] = task[v]
        /\ pc'[w] \notin {"resume", "load", "scan", "finalize"}
    BY <1>8 DEF Capture, Goto, End, Typed, TypeOK
  <2>4. QED
    BY <2>1, <2>2, <2>3, QuietStep
<1>9. ASSUME NEW w \in Workers, Throw(w) PROVE CoverageInv'
  <2>1. LinksGrow /\ \A r \in Runs : KeptRun(r)
    BY <1>9 DEF Throw, LinksGrow, KeptRun
  <2>2. \A r \in Runs : /\ rows'[r].chunk \in {rows[r].chunk, NoChunk}
                        /\ rows'[r].status = "success" => rows[r].status = "success"
    BY <1>9 DEF Throw, Typed, TypeOK, TaskOK, Row, Holding, Executing
  <2>3. /\ \A v \in Workers \ {w} : pc'[v] = pc[v] /\ task'[v] = task[v]
        /\ pc'[w] \notin {"resume", "load", "scan", "finalize"}
    BY <1>9 DEF Throw, Goto, End, Typed, TypeOK
  <2>4. QED
    BY <2>1, <2>2, <2>3, QuietStep
<1>10. ASSUME NEW w \in Workers, Abort(w) PROVE CoverageInv'
  <2>1. LinksGrow /\ \A r \in Runs : KeptRun(r)
    BY <1>10 DEF Abort, LinksGrow, KeptRun
  <2>2. \A r \in Runs : /\ rows'[r].chunk \in {rows[r].chunk, NoChunk}
                        /\ rows'[r].status = "success" => rows[r].status = "success"
    BY <1>10 DEF Abort, Write, Typed, TypeOK, TaskOK, Row, Holding, Executing
  <2>3. /\ \A v \in Workers \ {w} : pc'[v] = pc[v] /\ task'[v] = task[v]
        /\ pc'[w] \notin {"resume", "load", "scan", "finalize"}
    BY <1>10 DEF Abort, Goto, End, Typed, TypeOK
  <2>4. QED
    BY <2>1, <2>2, <2>3, QuietStep
<1>11. ASSUME NEW w \in Workers, CheckNoneInFlight(w) PROVE CoverageInv'
  <2>1. LinksGrow /\ \A r \in Runs : KeptRun(r)
    BY <1>11 DEF CheckNoneInFlight, LinksGrow, KeptRun
  <2>2. \A r \in Runs : /\ rows'[r].chunk \in {rows[r].chunk, NoChunk}
                        /\ rows'[r].status = "success" => rows[r].status = "success"
    BY <1>11 DEF CheckNoneInFlight, Typed, TypeOK, TaskOK, Row, Holding, Executing
  <2>3. /\ \A v \in Workers \ {w} : pc'[v] = pc[v] /\ task'[v] = task[v]
        /\ pc'[w] \notin {"resume", "load", "scan", "finalize"}
    BY <1>11 DEF CheckNoneInFlight, Goto, End, Typed, TypeOK
  <2>4. QED
    BY <2>1, <2>2, <2>3, QuietStep
<1>12. ASSUME NEW w \in Workers, Crash(w) PROVE CoverageInv'
  <2>1. LinksGrow /\ \A r \in Runs : KeptRun(r)
    BY <1>12 DEF Crash, LinksGrow, KeptRun
  <2>2. \A r \in Runs : /\ rows'[r].chunk \in {rows[r].chunk, NoChunk}
                        /\ rows'[r].status = "success" => rows[r].status = "success"
    BY <1>12 DEF Crash, Typed, TypeOK, TaskOK, Row, Holding, Executing
  <2>3. /\ \A v \in Workers \ {w} : pc'[v] = pc[v] /\ task'[v] = task[v]
        /\ pc'[w] \notin {"resume", "load", "scan", "finalize"}
    BY <1>12 DEF Crash, Goto, End, Typed, TypeOK
  <2>4. QED
    BY <2>1, <2>2, <2>3, QuietStep
<1>13. ASSUME NEW w \in Workers, NEW r \in Runs, Lookup(w, r) PROVE CoverageInv'
  <2>1. LinksGrow /\ \A s \in Runs : KeptRun(s)
    BY <1>13 DEF Lookup, TakeUp, LinksGrow, KeptRun
  <2>2. /\ \A v \in Workers \ {w} : pc'[v] = pc[v] /\ task'[v] = task[v]
        /\ pc'[w] = "resume" /\ rows[r].chunk # NoChunk
        /\ rows' = rows /\ linked' = linked /\ base' = base /\ scanned' = scanned
    BY <1>13 DEF Lookup, TakeUp, Goto, Typed, TypeOK
  <2>3. /\ task'[w].run = r /\ task'[w].phase = rows[r].chunk.phase
        /\ task'[w].index = rows[r].chunk.index
    BY <1>13 DEF Lookup, TakeUp, Typed, TypeOK, NoTask
  <2>4. WorkerCovers(w)'
    BY <2>2, <2>3 DEF CoverageInv, RunCovers, WorkerCovers, Covered
  <2>5. QED
    BY <2>1, <2>2, <2>4, LocalStep
<1>14. ASSUME NEW r \in Runs, Age(r) PROVE CoverageInv'
  <2>1. LinksGrow /\ \A s \in Runs : KeptRun(s)
    BY <1>14 DEF Age, LinksGrow, KeptRun
  <2>2. \A s \in Runs : rows'[s].chunk = rows[s].chunk /\ rows'[s].status = rows[s].status
    BY <1>14 DEF Age, Typed, TypeOK, Row
  <2>3. \A s \in Runs : RunCovers(s)'
    BY <2>1, <2>2, RunKept
  <2>4. \A v \in Workers : WorkerCovers(v)'
    BY <1>14 DEF Age, CoverageInv, WorkerCovers, Covered, AllCovered
  <2>5. QED
    BY <2>3, <2>4 DEF CoverageInv
<1>15. ASSUME NEW p \in Phases, NEW e \in Ids, Link(p, e) PROVE CoverageInv'
  <2>1. LinksGrow /\ \A s \in Runs : KeptRun(s)
    BY <1>15 DEF Link, LinksGrow, KeptRun, Typed, TypeOK
  <2>2. \A s \in Runs : RunCovers(s)'
    BY <1>15, <2>1, RunKept DEF Link
  <2>3. ASSUME NEW v \in Workers PROVE WorkerCovers(v)'
    <3>1. pc[v] \in Holding => KeptRun(task[v].run)
      BY <2>1 DEF Typed, TaskOK
    <3>2. QED
      BY <1>15, <2>1, <3>1, WorkerKept DEF Link
  <2>4. QED
    BY <2>2, <2>3 DEF CoverageInv
<1>16. ASSUME NEW s \in {"running", "paused"}, Reap(s) PROVE CoverageInv'
  <2>1. StaleRuns(s) \in SUBSET Runs /\ ForceFail(StaleRuns(s), TRUE)
    BY <1>16 DEF Reap, StaleRuns
  <2>2. QED
    BY <2>1, ForceFailCovers
<1>17. CASE DirectorySweep
  <2>1. OldRunning \in SUBSET Runs /\ ForceFail(OldRunning, FALSE)
    BY <1>17 DEF DirectorySweep, OldRunning
  <2>2. QED
    BY <2>1, ForceFailCovers
<1>18. CASE UNCHANGED vars
  BY <1>18 DEF vars, CoverageInv, RunCovers, WorkerCovers, Covered, AllCovered
<1>19. QED
  BY <1>1, <1>2, <1>3, <1>4, <1>5, <1>6, <1>7, <1>8, <1>9, <1>10, <1>11, <1>12,
     <1>13, <1>14, <1>15, <1>16, <1>17, <1>18 DEF Next, Step

(* No checkpoint skips an entity: a run resumed from it, however much the  *)
(* lists have grown, re-reads every entity it owes and has not attempted.  *)
THEOREM CheckpointsSkipNothing == Spec => []CheckpointCovered
<1>1. CoverageInv => CheckpointCovered
  BY DEF CoverageInv, RunCovers, CheckpointCovered
<1>2. QED
  BY CoverageInit, CoverageStep, <1>1, PTL DEF Spec

(* A run recorded as a success has attempted every account and campaign    *)
(* linked when it was created.                                             *)
THEOREM SuccessIsComplete == Spec => []SuccessCovers
<1>1. CoverageInv => SuccessCovers
  BY DEF CoverageInv, RunCovers, SuccessCovers
<1>2. QED
  BY CoverageInit, CoverageStep, <1>1, PTL DEF Spec
-----------------------------------------------------------------------------
(* Refinement: a sync run does what SyncCoverage promises *)

LEMMA RefinesInit == Init => Coverage!Init
BY DEF Init, Coverage!Init, Coverage!Nothing, Outcome, Active

(* One row is written with status s: its outcome alone changes. *)
LEMMA WriteOutcome ==
  ASSUME Typed, NEW r \in Runs, NEW c,
         NEW s \in {"running", "paused", "success", "failed"}, Write(r, s, c)
  PROVE  Outcome' = [Outcome EXCEPT ![r] =
                       IF s \in {"running", "paused"} THEN "open" ELSE s]
<1>1. rows'[r].status = s /\ \A q \in Runs \ {r} : rows'[q] = rows[q]
  BY DEF Write, Typed, TypeOK
<1>2. QED
  BY <1>1 DEF Outcome, Active

(* A set of rows that exist is failed in one statement. *)
LEMMA ForceFailRefines ==
  ASSUME Typed, NEW S \in SUBSET Runs, NEW b \in BOOLEAN, ForceFail(S, b),
         \A r \in S : rows[r].status # "absent"
  PROVE  Coverage!Fail(S)
<1>1. \A r \in S : Outcome[r] # "absent"
  BY DEF Outcome, Active
<1>2. Outcome' = [r \in Runs |-> IF r \in S THEN "failed" ELSE Outcome[r]]
  BY DEF ForceFail, Outcome, Active
<1>3. QED
  BY <1>1, <1>2 DEF ForceFail, Coverage!Fail

LEMMA RefinesStep == CoverageInv /\ [Next]_vars => [Coverage!Next]_(Coverage!vars)
<1> SUFFICES ASSUME CoverageInv, [Next]_vars
             PROVE  Coverage!Next \/ UNCHANGED Coverage!vars
  OBVIOUS
<1> Typed
  BY DEF CoverageInv
<1> USE DEF table, history
<1>1. ASSUME NEW w \in Workers, Create(w) PROVE Coverage!Next
  <2>1. PICK r \in Runs :
          /\ rows[r].status = "absent"
          /\ rows' = [rows EXCEPT ![r] =
                        [status |-> "running", chunk |-> NoChunk, age |-> "fresh"]]
          /\ base' = [base EXCEPT ![r] = linked]
    BY <1>1 DEF Create
  <2>2. Outcome[r] = "absent" /\ Outcome' = [Outcome EXCEPT ![r] = "open"]
    BY <2>1 DEF Outcome, Active, Typed, TypeOK
  <2>3. linked \in Coverage!Entities
    BY DEF Typed, TypeOK, Coverage!Entities
  <2>4. Coverage!Open(r)
    BY <1>1, <2>1, <2>2, <2>3 DEF Create, Coverage!Open
  <2>5. QED
    BY <2>4 DEF Coverage!Next
<1>2. ASSUME NEW w \in Workers, Resume(w) PROVE Coverage!Next
  <2>1. PICK r \in Runs : r = task[w].run /\ rows[r].status # "absent"
    BY <1>2 DEF Resume, Typed, TaskOK, Holding
  <2>2. Outcome[r] # "absent" /\ Outcome' = [Outcome EXCEPT ![r] = "open"]
    BY <1>2, <2>1, WriteOutcome DEF Resume, Outcome, Active
  <2>3. Coverage!Reopen(r)
    BY <1>2, <2>2 DEF Resume, Coverage!Reopen
  <2>4. QED
    BY <2>3 DEF Coverage!Next
<1>3. ASSUME NEW w \in Workers, ScanNext(w) PROVE Coverage!Next
  <2>1. PICK e \in task[w].list :
          scanned' = [scanned EXCEPT ![task[w].run][task[w].phase] = @ \union {e}]
    BY <1>3 DEF ScanNext
  <2>2. PICK r \in Runs, p \in Phases :
          r = task[w].run /\ p = task[w].phase /\ rows[r].status # "absent"
    BY <1>3 DEF ScanNext, Typed, TaskOK, Holding, Executing
  <2>3. e \in Ids
    BY DEF Typed, TypeOK, Task
  <2>4. Coverage!Visit(r, p, e)
    BY <1>3, <2>1, <2>2 DEF ScanNext, Coverage!Visit, Outcome, Active
  <2>5. QED
    BY <2>2, <2>3, <2>4 DEF Coverage!Next
<1>4. ASSUME NEW w \in Workers, Pause(w) PROVE Coverage!Next
  <2>1. PICK r \in Runs : r = task[w].run /\ rows[r].status # "absent"
    BY <1>4 DEF Pause, OverBudget, Typed, TaskOK, Holding, Executing
  <2>2. Outcome[r] # "absent" /\ Outcome' = [Outcome EXCEPT ![r] = "open"]
    BY <1>4, <2>1, WriteOutcome DEF Pause, Outcome, Active
  <2>3. Coverage!Reopen(r)
    BY <1>4, <2>2 DEF Pause, Coverage!Reopen
  <2>4. QED
    BY <2>3 DEF Coverage!Next
<1>5. ASSUME NEW w \in Workers, Finalize(w) PROVE Coverage!Next
  <2>1. PICK r \in Runs : r = task[w].run /\ rows[r].status # "absent"
    BY <1>5 DEF Finalize, Typed, TaskOK, Holding, Executing
  <2>2. Outcome[r] # "absent" /\ Outcome' = [Outcome EXCEPT ![r] = "success"]
    BY <1>5, <2>1, WriteOutcome DEF Finalize, Outcome, Active
  <2>3. AllCovered(r)
    BY <1>5, <2>1 DEF Finalize, CoverageInv, WorkerCovers
  <2>4. Coverage!Succeed(r)
    BY <1>5, <2>2, <2>3 DEF Finalize, AllCovered, Coverage!Succeed
  <2>5. QED
    BY <2>4 DEF Coverage!Next
<1>6. ASSUME NEW w \in Workers, Abort(w) PROVE Coverage!Next
  <2>1. PICK r \in Runs : r = task[w].run /\ rows[r].status # "absent"
    BY <1>6 DEF Abort, Typed, TaskOK, Holding
  <2>2. Outcome[r] # "absent" /\ Outcome' = [Outcome EXCEPT ![r] = "failed"]
    BY <1>6, <2>1, WriteOutcome DEF Abort, Outcome, Active
  <2>3. Outcome' = [q \in Runs |-> IF q \in {r} THEN "failed" ELSE Outcome[q]]
    BY <2>2 DEF Outcome
  <2>4. Coverage!Fail({r})
    BY <1>6, <2>2, <2>3 DEF Abort, Coverage!Fail
  <2>5. QED
    BY <2>4 DEF Coverage!Next
<1>7. ASSUME NEW s \in {"running", "paused"}, Reap(s) PROVE Coverage!Next
  <2>1. /\ StaleRuns(s) \in SUBSET Runs /\ ForceFail(StaleRuns(s), TRUE)
        /\ \A r \in StaleRuns(s) : rows[r].status # "absent"
    BY <1>7 DEF Reap, StaleRuns
  <2>2. QED
    BY <2>1, ForceFailRefines DEF Coverage!Next
<1>8. CASE DirectorySweep
  <2>1. /\ OldRunning \in SUBSET Runs /\ ForceFail(OldRunning, FALSE)
        /\ \A r \in OldRunning : rows[r].status # "absent"
    BY <1>8 DEF DirectorySweep, OldRunning
  <2>2. QED
    BY <2>1, ForceFailRefines DEF Coverage!Next
(* The other steps change neither outcomes, nor duties, nor visits. *)
<1>9. ASSUME NEW r \in Runs, Age(r) PROVE UNCHANGED Coverage!vars
  <2>1. \A s \in Runs : rows'[s].status = rows[s].status
    BY <1>9 DEF Age, Typed, TypeOK, Row
  <2>2. QED
    BY <1>9, <2>1 DEF Age, Outcome, Active, Coverage!vars
<1>10. ASSUME NEW w \in Workers,
              \/ Load(w) \/ EndPhase(w) \/ Capture(w) \/ Throw(w)
              \/ CheckNoneInFlight(w) \/ Crash(w) \/ \E r \in Runs : Lookup(w, r)
       PROVE  UNCHANGED Coverage!vars
  <2>1. rows' = rows /\ base' = base /\ scanned' = scanned
    BY <1>10 DEF Load, EndPhase, Capture, Throw, CheckNoneInFlight, Crash, Lookup, TakeUp
  <2>2. QED
    BY <2>1 DEF Outcome, Active, Coverage!vars
<1>11. ASSUME NEW p \in Phases, NEW e \in Ids, Link(p, e) PROVE UNCHANGED Coverage!vars
  BY <1>11 DEF Link, Outcome, Active, Coverage!vars
<1>12. CASE UNCHANGED vars
  BY <1>12 DEF vars, Outcome, Active, Coverage!vars
<1>13. QED
  BY <1>1, <1>2, <1>3, <1>4, <1>5, <1>6, <1>7, <1>8, <1>9, <1>10, <1>11, <1>12
  DEF Next, Step

(* Every behaviour of the code's runs is one that SyncCoverage allows: in  *)
(* particular a run closes successfully only when its duty is done.        *)
THEOREM SyncImplementsCoverage == Spec => CoverageSpec
BY RefinesInit, RefinesStep, CoverageInit, CoverageStep, PTL
DEF Spec, CoverageSpec, Coverage!Spec
-----------------------------------------------------------------------------
(* Exclusion *)

(* The statuses in which a worker at point l expects to find its row. *)
Expected(l) == IF l \in Executing THEN {"running"}
               ELSE IF l = "resume" THEN {"paused"}
               ELSE IF l = "capture" THEN {"success"}
               ELSE {"running", "success"}

(* A run held by two workers counts as disturbed. *)
HeldOnce ==
  \A v, w \in Workers :
    /\ v # w /\ pc[v] \in Holding /\ pc[w] \in Holding
    /\ task[v].run = task[w].run
    => task[w].run \in disturbed

(* The row of an undisturbed run is what its holder believes it is. *)
HolderAgrees ==
  \A w \in Workers :
    pc[w] \in Holding /\ task[w].run \notin disturbed
      => rows[task[w].run].status \in Expected(pc[w])

(* A concurrency check that was not overtaken still stands. *)
CheckStands ==
  \A w \in Workers : pc[w] = "create" /\ w \notin late
    => \A r \in Runs : Active(r) => r \in disturbed

SlotInv == Typed /\ HeldOnce /\ HolderAgrees /\ CheckStands /\ ExclusionUnlessRaced

(* A step of w on the run r it holds, which leaves r to nobody or to w.    *)
LEMMA HolderStep ==
  ASSUME SlotInv, Typed', NEW w \in Workers, NEW r \in Runs,
         pc[w] \in Holding, task[w].run = r,
         \A v \in Workers \ {w} : pc'[v] = pc[v] /\ task'[v] = task[v],
         \/ pc'[w] = "idle"
         \/ /\ pc'[w] \in Holding /\ task'[w].run = r
            /\ r \notin disturbed => rows'[r].status \in Expected(pc'[w]),
         \A s \in Runs \ {r} : rows'[s].status = rows[s].status,
         Active(r)' => Active(r) \/ r \in disturbed,
         disturbed' = disturbed, raced' = raced, late' \in {late, late \ {w}}
  PROVE  SlotInv'
<1>1. pc[w] # "create" /\ pc'[w] # "create" /\ "idle" \notin Holding
  BY DEF Holding, Executing
<1>2. HeldOnce'
  BY <1>1 DEF SlotInv, HeldOnce
<1>3. HolderAgrees'
  <2>1. SUFFICES ASSUME NEW v \in Workers, pc'[v] \in Holding, task'[v].run \notin disturbed
                 PROVE  rows'[task'[v].run].status \in Expected(pc'[v])
    BY DEF HolderAgrees, Expected
  <2>2. CASE v = w
    BY <1>1, <2>1, <2>2
  <2>3. CASE v # w
    <3>1. task[v].run \in Runs \ {r}
      BY <2>1, <2>3 DEF SlotInv, HeldOnce, Typed, TaskOK
    <3>2. QED
      BY <2>1, <2>3, <3>1 DEF SlotInv, HolderAgrees
  <2>4. QED
    BY <2>2, <2>3
<1>4. \A s \in Runs : Active(s)' => Active(s) \/ s \in disturbed
  BY DEF Active
<1>5. CheckStands'
  BY <1>1, <1>4 DEF SlotInv, CheckStands
<1>6. ExclusionUnlessRaced'
  BY <1>4 DEF SlotInv, ExclusionUnlessRaced
<1>7. QED
  BY <1>2, <1>3, <1>5, <1>6 DEF SlotInv
LEMMA SlotInit == Init => SlotInv
<1> SUFFICES ASSUME Init PROVE SlotInv
  OBVIOUS
<1>1. Typed
  BY TypedInit
<1>2. \A w \in Workers : pc[w] \notin Holding /\ pc[w] # "create"
  BY DEF Init, Holding, Executing
<1>3. \A r \in Runs : ~Active(r)
  BY DEF Init, Active
<1>4. QED
  BY <1>1, <1>2, <1>3
  DEF SlotInv, HeldOnce, HolderAgrees, CheckStands, ExclusionUnlessRaced

(* The reaper and the sweeper: a failed row that somebody holds is         *)
(* disturbed from then on.                                                 *)
LEMMA ForceFailSlot ==
  ASSUME SlotInv, Typed', NEW S \in SUBSET Runs, NEW b \in BOOLEAN, ForceFail(S, b)
  PROVE  SlotInv'
<1>1. /\ \A r \in Runs \ S : rows'[r] = rows[r]
      /\ \A r \in S : rows'[r].status = "failed"
      /\ pc' = pc /\ task' = task /\ late' = late /\ raced' = raced
      /\ disturbed' = disturbed \union {r \in S : \E w \in Workers : Holds(w, r)}
  BY DEF ForceFail
<1>2. HeldOnce'
  BY <1>1 DEF SlotInv, HeldOnce
<1>3. HolderAgrees'
  <2>1. SUFFICES ASSUME NEW v \in Workers, pc[v] \in Holding, task[v].run \notin disturbed'
                 PROVE  rows'[task[v].run].status \in Expected(pc[v])
    BY <1>1 DEF HolderAgrees, Expected
  <2>2. task[v].run \in Runs \ S
    BY <1>1, <2>1 DEF SlotInv, Typed, TaskOK, Holds
  <2>3. QED
    BY <1>1, <2>1, <2>2 DEF SlotInv, HolderAgrees
<1>4. \A r \in Runs : Active(r)' => Active(r)
  BY <1>1 DEF Active
<1>5. CheckStands' /\ ExclusionUnlessRaced'
  BY <1>1, <1>4 DEF SlotInv, CheckStands, ExclusionUnlessRaced
<1>6. QED
  BY <1>2, <1>3, <1>5 DEF SlotInv

(* A new run is alone, unless its creator's check was overtaken.           *)
LEMMA CreateSlot ==
  ASSUME SlotInv, Typed', NEW w \in Workers, Create(w)
  PROVE  SlotInv'
<1>1. PICK r \in Runs :
        /\ rows[r].status = "absent"
        /\ rows' = [rows EXCEPT ![r] =
                      [status |-> "running", chunk |-> NoChunk, age |-> "fresh"]]
        /\ raced' = IF w \in late THEN raced \union {r} ELSE raced
        /\ task' = [task EXCEPT ![w] =
             [NoTask EXCEPT !.run = r, !.phase = PHASE_ACCOUNTS, !.spent = TRUE]]
  BY DEF Create
<1>2. /\ pc[w] = "create" /\ pc' = [pc EXCEPT ![w] = "load"] /\ disturbed' = disturbed
      /\ late' = (late \ {w}) \union {v \in Workers \ {w} : pc[v] = "create"}
  BY DEF Create, Goto
<1>3. /\ rows'[r].status = "running" /\ \A s \in Runs \ {r} : rows'[s] = rows[s]
      /\ pc'[w] = "load" /\ task'[w].run = r
      /\ \A v \in Workers \ {w} : pc'[v] = pc[v] /\ task'[v] = task[v]
  BY <1>1, <1>2 DEF SlotInv, Typed, TypeOK, NoTask
<1>4. \A v \in Workers : pc[v] \in Holding => task[v].run \in Runs \ {r}
  BY <1>1 DEF SlotInv, Typed, TaskOK
<1>5. HeldOnce'
  BY <1>2, <1>3, <1>4 DEF SlotInv, HeldOnce
<1>6. HolderAgrees'
  <2>1. SUFFICES ASSUME NEW v \in Workers, pc'[v] \in Holding, task'[v].run \notin disturbed
                 PROVE  rows'[task'[v].run].status \in Expected(pc'[v])
    BY <1>2 DEF HolderAgrees, Expected
  <2>2. CASE v = w
    BY <1>3, <2>2 DEF Expected, Executing
  <2>3. CASE v # w
    BY <1>3, <1>4, <2>1, <2>3 DEF SlotInv, HolderAgrees
  <2>4. QED
    BY <2>2, <2>3
<1>7. CheckStands'
  BY <1>2, <1>3 DEF CheckStands
<1>8. \A s \in Runs \ {r} : Active(s)' <=> Active(s)
  BY <1>3 DEF Active
<1>9. ASSUME NEW s \in Runs, Active(s) PROVE {r, s} \cap (raced' \union disturbed') # {}
  <2>1. CASE w \in late
    BY <1>1, <2>1
  <2>2. CASE w \notin late
    BY <1>2, <1>9, <2>2 DEF SlotInv, CheckStands
  <2>3. QED
    BY <2>1, <2>2
<1>10. ExclusionUnlessRaced'
  <2>1. raced \subseteq raced'
    BY <1>1
  <2>2. SUFFICES ASSUME NEW s \in Runs, NEW t \in Runs, s # t, Active(s)', Active(t)'
                 PROVE  {s, t} \cap (raced' \union disturbed') # {}
    BY DEF ExclusionUnlessRaced
  <2>3. CASE s # r /\ t # r
    BY <1>2, <1>8, <2>1, <2>2, <2>3 DEF SlotInv, ExclusionUnlessRaced
  <2>4. CASE s = r
    BY <1>8, <1>9, <2>2, <2>4
  <2>5. CASE t = r
    BY <1>8, <1>9, <2>2, <2>5
  <2>6. QED
    BY <2>3, <2>4, <2>5
<1>11. QED
  BY <1>5, <1>6, <1>7, <1>10 DEF SlotInv

(* A continuation that meets another holder of its run disturbs it.        *)
LEMMA LookupSlot ==
  ASSUME SlotInv, Typed', NEW w \in Workers, NEW r \in Runs, Lookup(w, r)
  PROVE  SlotInv'
<1>1. /\ pc[w] = "idle" /\ pc' = [pc EXCEPT ![w] = "resume"]
      /\ rows[r].status = "paused" /\ rows' = rows /\ late' = late /\ raced' = raced
      /\ disturbed' = IF HeldByOther(w, r) THEN disturbed \union {r} ELSE disturbed
  BY DEF Lookup, TakeUp, Goto, table
<1>2. /\ pc'[w] = "resume" /\ task'[w].run = r
      /\ \A v \in Workers \ {w} : pc'[v] = pc[v] /\ task'[v] = task[v]
  BY <1>1 DEF Lookup, TakeUp, SlotInv, Typed, TypeOK, NoTask
<1>3. \A v \in Workers \ {w} : pc[v] \in Holding /\ task[v].run = r => r \in disturbed'
  BY <1>1 DEF HeldByOther, Holds
<1>4. disturbed \subseteq disturbed'
  BY <1>1
<1>5. HeldOnce'
  BY <1>2, <1>3, <1>4 DEF SlotInv, HeldOnce
<1>6. HolderAgrees'
  BY <1>1, <1>2, <1>4 DEF SlotInv, HolderAgrees, Expected, Executing
<1>7. CheckStands' /\ ExclusionUnlessRaced'
  BY <1>1, <1>2, <1>4 DEF SlotInv, CheckStands, ExclusionUnlessRaced, Active
<1>8. QED
  BY <1>5, <1>6, <1>7 DEF SlotInv

LEMMA SlotStep == SlotInv /\ [Next]_vars => SlotInv'
<1> SUFFICES ASSUME SlotInv, [Next]_vars PROVE SlotInv'
  OBVIOUS
<1> Typed /\ Typed'
  BY TypedStep DEF SlotInv
<1> USE DEF table, history
<1>1. ASSUME NEW w \in Workers, Create(w) PROVE SlotInv'
  BY <1>1, CreateSlot
<1>2. ASSUME NEW w \in Workers, Resume(w) PROVE SlotInv'
  <2>1. PICK r \in Runs : r = task[w].run /\ pc[w] = "resume"
    BY <1>2 DEF Resume, Typed, TaskOK, Holding, Executing
  <2>2. /\ rows'[r].status = "running" /\ \A s \in Runs \ {r} : rows'[s] = rows[s]
        /\ disturbed' = disturbed /\ raced' = raced /\ late' = late
    BY <1>2, <2>1 DEF Resume, Write, Typed, TypeOK
  <2>3. /\ pc'[w] = "load" /\ task'[w].run = r
        /\ \A v \in Workers \ {w} : pc'[v] = pc[v] /\ task'[v] = task[v]
    BY <1>2, <2>1 DEF Resume, Goto, Typed, TypeOK
  <2>4. Active(r) \/ r \in disturbed \/ ~Active(r)'
    BY <2>1, <2>2 DEF SlotInv, HolderAgrees, Expected, Holding, Executing, Active
  <2>5. QED
    BY <2>1, <2>2, <2>3, <2>4, HolderStep DEF Holding, Executing, Expected
<1>6. ASSUME NEW w \in Workers, Pause(w) PROVE SlotInv'
  <2>1. PICK r \in Runs : r = task[w].run /\ pc[w] = "scan"
    BY <1>6 DEF Pause, OverBudget, Typed, TaskOK, Holding, Executing
  <2>2. /\ rows'[r].status = "paused" /\ \A s \in Runs \ {r} : rows'[s] = rows[s]
        /\ disturbed' = disturbed /\ raced' = raced /\ late' = late
    BY <1>6, <2>1 DEF Pause, OverBudget, Write, Typed, TypeOK
  <2>3. /\ pc'[w] = "idle"
        /\ \A v \in Workers \ {w} : pc'[v] = pc[v] /\ task'[v] = task[v]
    BY <1>6, <2>1 DEF Pause, OverBudget, Goto, End, Typed, TypeOK
  <2>4. Active(r) \/ r \in disturbed \/ ~Active(r)'
    BY <2>1, <2>2 DEF SlotInv, HolderAgrees, Expected, Holding, Executing, Active
  <2>5. QED
    BY <2>1, <2>2, <2>3, <2>4, HolderStep DEF Holding, Executing, Expected
<1>7. ASSUME NEW w \in Workers, Finalize(w) PROVE SlotInv'
  <2>1. PICK r \in Runs : r = task[w].run /\ pc[w] = "finalize"
    BY <1>7 DEF Finalize, Typed, TaskOK, Holding, Executing
  <2>2. /\ rows'[r].status = "success" /\ \A s \in Runs \ {r} : rows'[s] = rows[s]
        /\ disturbed' = disturbed /\ raced' = raced /\ late' = late
    BY <1>7, <2>1 DEF Finalize, Write, Typed, TypeOK
  <2>3. /\ pc'[w] = "capture" /\ task'[w].run = r
        /\ \A v \in Workers \ {w} : pc'[v] = pc[v] /\ task'[v] = task[v]
    BY <1>7, <2>1 DEF Finalize, Goto, Typed, TypeOK
  <2>4. Active(r) \/ r \in disturbed \/ ~Active(r)'
    BY <2>1, <2>2 DEF SlotInv, HolderAgrees, Expected, Holding, Executing, Active
  <2>5. QED
    BY <2>1, <2>2, <2>3, <2>4, HolderStep DEF Holding, Executing, Expected
<1>10. ASSUME NEW w \in Workers, Abort(w) PROVE SlotInv'
  <2>1. PICK r \in Runs : r = task[w].run /\ pc[w] = "abort"
    BY <1>10 DEF Abort, Typed, TaskOK, Holding, Executing
  <2>2. /\ rows'[r].status = "failed" /\ \A s \in Runs \ {r} : rows'[s] = rows[s]
        /\ disturbed' = disturbed /\ raced' = raced /\ late' = late
    BY <1>10, <2>1 DEF Abort, Write, Typed, TypeOK
  <2>3. /\ pc'[w] = "idle"
        /\ \A v \in Workers \ {w} : pc'[v] = pc[v] /\ task'[v] = task[v]
    BY <1>10, <2>1 DEF Abort, Goto, End, Typed, TypeOK
  <2>4. Active(r) \/ r \in disturbed \/ ~Active(r)'
    BY <2>1, <2>2 DEF SlotInv, HolderAgrees, Expected, Holding, Executing, Active
  <2>5. QED
    BY <2>1, <2>2, <2>3, <2>4, HolderStep DEF Holding, Executing, Expected
<1>3. ASSUME NEW w \in Workers, Load(w) PROVE SlotInv'
  <2>1. PICK r \in Runs : r = task[w].run /\ pc[w] = "load"
    BY <1>3 DEF Load, Typed, TaskOK, Holding, Executing
  <2>2. rows' = rows /\ disturbed' = disturbed /\ raced' = raced /\ late' = late
    BY <1>3 DEF Load
  <2>3. /\ pc'[w] = "scan" /\ task'[w].run = r
        /\ \A v \in Workers \ {w} : pc'[v] = pc[v] /\ task'[v] = task[v]
    BY <1>3, <2>1 DEF Load, Goto, End, Typed, TypeOK, Task, NoTask
  <2>4. r \notin disturbed => rows[r].status \in Expected(pc[w])
    BY <2>1 DEF SlotInv, HolderAgrees, Holding, Executing
  <2>5. QED
    BY <2>1, <2>2, <2>3, <2>4, HolderStep DEF Holding, Executing, Expected, Active
<1>4. ASSUME NEW w \in Workers, ScanNext(w) PROVE SlotInv'
  <2>1. PICK r \in Runs : r = task[w].run /\ pc[w] = "scan"
    BY <1>4 DEF ScanNext, Typed, TaskOK, Holding, Executing
  <2>2. rows' = rows /\ disturbed' = disturbed /\ raced' = raced /\ late' = late
    BY <1>4 DEF ScanNext
  <2>3. /\ pc'[w] = "scan" /\ task'[w].run = r
        /\ \A v \in Workers \ {w} : pc'[v] = pc[v] /\ task'[v] = task[v]
    BY <1>4, <2>1 DEF ScanNext, Goto, End, Typed, TypeOK, Task, NoTask
  <2>4. r \notin disturbed => rows[r].status \in Expected(pc[w])
    BY <2>1 DEF SlotInv, HolderAgrees, Holding, Executing
  <2>5. QED
    BY <2>1, <2>2, <2>3, <2>4, HolderStep DEF Holding, Executing, Expected, Active
<1>5. ASSUME NEW w \in Workers, EndPhase(w) PROVE SlotInv'
  <2>1. PICK r \in Runs : r = task[w].run /\ pc[w] = "scan"
    BY <1>5 DEF EndPhase, Typed, TaskOK, Holding, Executing
  <2>2. rows' = rows /\ disturbed' = disturbed /\ raced' = raced /\ late' = late
    BY <1>5 DEF EndPhase
  <2>3. /\ pc'[w] \in {"load", "finalize"} /\ task'[w].run = r
        /\ \A v \in Workers \ {w} : pc'[v] = pc[v] /\ task'[v] = task[v]
    BY <1>5, <2>1, EndPhaseLocal
  <2>4. r \notin disturbed => rows[r].status \in Expected(pc[w])
    BY <2>1 DEF SlotInv, HolderAgrees, Holding, Executing
  <2>5. QED
    BY <2>1, <2>2, <2>3, <2>4, HolderStep DEF Holding, Executing, Expected, Active
<1>8. ASSUME NEW w \in Workers, Capture(w) PROVE SlotInv'
  <2>1. PICK r \in Runs : r = task[w].run /\ pc[w] = "capture"
    BY <1>8 DEF Capture, Typed, TaskOK, Holding, Executing
  <2>2. rows' = rows /\ disturbed' = disturbed /\ raced' = raced /\ late' = late
    BY <1>8 DEF Capture
  <2>3. /\ pc'[w] = "idle"
        /\ \A v \in Workers \ {w} : pc'[v] = pc[v] /\ task'[v] = task[v]
    BY <1>8, <2>1 DEF Capture, Goto, End, Typed, TypeOK, Task, NoTask
  <2>4. r \notin disturbed => rows[r].status \in Expected(pc[w])
    BY <2>1 DEF SlotInv, HolderAgrees, Holding, Executing
  <2>5. QED
    BY <2>1, <2>2, <2>3, <2>4, HolderStep DEF Holding, Executing, Expected, Active
<1>9. ASSUME NEW w \in Workers, Throw(w) PROVE SlotInv'
  <2>1. PICK r \in Runs : r = task[w].run /\ pc[w] \in {"load", "finalize", "capture"}
    BY <1>9 DEF Throw, Typed, TaskOK, Holding, Executing
  <2>2. rows' = rows /\ disturbed' = disturbed /\ raced' = raced /\ late' = late
    BY <1>9 DEF Throw
  <2>3. /\ pc'[w] = "abort" /\ task'[w].run = r
        /\ \A v \in Workers \ {w} : pc'[v] = pc[v] /\ task'[v] = task[v]
    BY <1>9, <2>1 DEF Throw, Goto, End, Typed, TypeOK, Task, NoTask
  <2>4. r \notin disturbed => rows[r].status \in Expected(pc[w])
    BY <2>1 DEF SlotInv, HolderAgrees, Holding, Executing
  <2>5. QED
    BY <2>1, <2>2, <2>3, <2>4, HolderStep DEF Holding, Executing, Expected, Active
<1>11. ASSUME NEW w \in Workers, CheckNoneInFlight(w) PROVE SlotInv'
  <2>1. /\ \A r \in Runs : ~Active(r)
        /\ rows' = rows /\ task' = task /\ disturbed' = disturbed /\ raced' = raced
        /\ late' = late \ {w} /\ pc' = [pc EXCEPT ![w] = "create"]
    BY <1>11 DEF CheckNoneInFlight, Goto
  <2>2. \A v \in Workers : pc'[v] \in Holding => pc'[v] = pc[v]
    BY <2>1 DEF Holding, Executing, Typed, TypeOK
  <2>3. \A r \in Runs : ~Active(r)'
    BY <2>1 DEF Active
  <2>4. HeldOnce' /\ HolderAgrees'
    BY <2>1, <2>2 DEF SlotInv, HeldOnce, HolderAgrees, Expected
  <2>5. QED
    BY <2>3, <2>4 DEF SlotInv, CheckStands, ExclusionUnlessRaced
<1>12. ASSUME NEW w \in Workers, Crash(w) PROVE SlotInv'
  <2>1. /\ rows' = rows /\ disturbed' = disturbed /\ raced' = raced
        /\ late' = late \ {w} /\ pc'[w] = "idle"
        /\ \A v \in Workers \ {w} : pc'[v] = pc[v] /\ task'[v] = task[v]
    BY <1>12 DEF Crash, End, Goto, Typed, TypeOK
  <2>2. HeldOnce' /\ HolderAgrees'
    BY <2>1 DEF SlotInv, HeldOnce, HolderAgrees, Holding, Executing, Expected
  <2>3. CheckStands' /\ ExclusionUnlessRaced'
    BY <2>1 DEF SlotInv, CheckStands, ExclusionUnlessRaced, Active
  <2>4. QED
    BY <2>2, <2>3 DEF SlotInv
<1>13. ASSUME NEW w \in Workers, NEW r \in Runs, Lookup(w, r) PROVE SlotInv'
  BY <1>13, LookupSlot
<1>14. ASSUME NEW r \in Runs, Age(r) PROVE SlotInv'
  <2>1. \A s \in Runs : rows'[s].status = rows[s].status
    BY <1>14 DEF Age, Typed, TypeOK, Row
  <2>2. HolderAgrees'
    BY <1>14, <2>1 DEF Age, SlotInv, HolderAgrees, Expected, Typed, TaskOK
  <2>3. QED
    BY <1>14, <2>1, <2>2
    DEF Age, SlotInv, HeldOnce, CheckStands, ExclusionUnlessRaced, Active
<1>15. ASSUME NEW p \in Phases, NEW e \in Ids, Link(p, e) PROVE SlotInv'
  BY <1>15 DEF Link, SlotInv, HeldOnce, HolderAgrees, Expected, CheckStands,
     ExclusionUnlessRaced, Active
<1>16. ASSUME NEW s \in {"running", "paused"}, Reap(s) PROVE SlotInv'
  <2>1. StaleRuns(s) \in SUBSET Runs /\ ForceFail(StaleRuns(s), TRUE)
    BY <1>16 DEF Reap, StaleRuns
  <2>2. QED
    BY <2>1, ForceFailSlot
<1>17. CASE DirectorySweep
  <2>1. OldRunning \in SUBSET Runs /\ ForceFail(OldRunning, FALSE)
    BY <1>17 DEF DirectorySweep, OldRunning
  <2>2. QED
    BY <2>1, ForceFailSlot
<1>18. CASE UNCHANGED vars
  BY <1>18 DEF vars, SlotInv, HeldOnce, HolderAgrees, Expected, CheckStands,
     ExclusionUnlessRaced, Active
<1>19. QED
  BY <1>1, <1>2, <1>3, <1>4, <1>5, <1>6, <1>7, <1>8, <1>9, <1>10, <1>11, <1>12,
     <1>13, <1>14, <1>15, <1>16, <1>17, <1>18 DEF Next, Step

(* Two Drive runs are in flight together only if one was created on a      *)
(* check that another creation had overtaken, or was failed or resumed a   *)
(* second time while a worker held it.                                     *)
THEOREM ExclusionHolds == Spec => []ExclusionUnlessRaced
<1>1. SlotInv => ExclusionUnlessRaced
  BY DEF SlotInv
<1>2. QED
  BY SlotInit, SlotStep, <1>1, PTL DEF Spec

(* A finished run comes back to life only after such an interference.      *)
THEOREM RevivalIsInterference == Spec => RevivalNeedsInterference
<1> DEFINE Quiet == \A r \in Runs :
      rows[r].status \in {"success", "failed"} /\ Active(r)' => r \in disturbed
<1>1. SlotInv /\ [Next]_vars => Quiet
  <2> SUFFICES ASSUME SlotInv, [Next]_vars, NEW r \in Runs,
                      rows[r].status \in {"success", "failed"}, Active(r)',
                      r \notin disturbed
               PROVE  FALSE
    OBVIOUS
  <2> Typed
    BY DEF SlotInv
  <2> USE DEF table, history
  <2>1. ~Active(r) /\ rows[r].status # "absent"
    BY DEF Active
  <2>2. rows'[r].status # rows[r].status
    BY <2>1 DEF Active
  <2>3. ASSUME NEW w \in Workers, Resume(w) \/ Pause(w) PROVE FALSE
    <3>1. pc[w] \in {"resume", "scan"} /\ task[w].run \in Runs
      BY <2>3 DEF Resume, Pause, OverBudget, Typed, TaskOK, Holding, Executing
    <3>2. CASE task[w].run = r
      BY <2>1, <3>1, <3>2 DEF SlotInv, HolderAgrees, Expected, Holding, Executing, Active
    <3>3. CASE task[w].run # r
      BY <2>2, <2>3, <3>3 DEF Resume, Pause, Write, Typed, TypeOK
    <3>4. QED
      BY <3>2, <3>3
  <2>4. ASSUME NEW w \in Workers, Create(w) PROVE FALSE
    BY <2>1, <2>2, <2>4 DEF Create, Typed, TypeOK
  <2>5. ASSUME NEW w \in Workers, Finalize(w) \/ Abort(w) PROVE FALSE
    BY <2>1, <2>2, <2>5 DEF Finalize, Abort, Write, Active, Typed, TypeOK
  <2>6. ASSUME NEW s \in Runs, Age(s) PROVE FALSE
    BY <2>2, <2>6 DEF Age, Typed, TypeOK, Row
  <2>7. CASE (\E s \in {"running", "paused"} : Reap(s)) \/ DirectorySweep
    BY <2>2, <2>7 DEF Reap, DirectorySweep, ForceFail, Active
  <2>8. CASE rows' = rows
    BY <2>2, <2>8
  <2>9. QED
    BY <2>3, <2>4, <2>5, <2>6, <2>7, <2>8
    DEF Next, Step, Load, ScanNext, EndPhase, Capture, Throw, CheckNoneInFlight,
        Crash, Lookup, TakeUp, Link, vars
<1>2. QED
  BY SlotInit, SlotStep, <1>1, PTL DEF Spec, RevivalNeedsInterference
=============================================================================

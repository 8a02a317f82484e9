---------------------------- MODULE SyncCoverage ----------------------------
(***************************************************************************)
(* What a full Drive sync promises, with no processes, checkpoints, time   *)
(* or budget in it.  A run opens with a duty: the entities that were       *)
(* linked to a Drive folder when it opened.  While it is open it visits    *)
(* entities, never forgetting a visit, and it may close successfully only  *)
(* when every entity of its duty has been visited.  It may fail at any     *)
(* time, and (the price of a run's row being shared by request handlers    *)
(* that do not know of each other) a closed run may be opened again.       *)
(***************************************************************************)
CONSTANTS Runs, Phases, Ids

VARIABLES outcome, \* outcome[r]: where run r stands
          duty,    \* duty[r][p]: the entities of phase p that r owes a visit
          visited  \* visited[r][p]: the entities of phase p that r has visited

vars == <<outcome, duty, visited>>

Entities == [Phases -> SUBSET Ids]

Nothing == [p \in Phases |-> {}]

Init == /\ outcome = [r \in Runs |-> "absent"]
        /\ duty = [r \in Runs |-> Nothing]
        /\ visited = [r \in Runs |-> Nothing]

Open(r) == /\ outcome[r] = "absent"
           /\ outcome' = [outcome EXCEPT ![r] = "open"]
           /\ \E d \in Entities : duty' = [duty EXCEPT ![r] = d]
           /\ UNCHANGED visited

Visit(r, p, e) == /\ outcome[r] # "absent"
                  /\ visited' = [visited EXCEPT ![r][p] = @ \union {e}]
                  /\ UNCHANGED <<outcome, duty>>

Succeed(r) == /\ outcome[r] # "absent"
              /\ \A p \in Phases : duty[r][p] \subseteq visited[r][p]
              /\ outcome' = [outcome EXCEPT ![r] = "success"]
              /\ UNCHANGED <<duty, visited>>

(* A set of runs fails in one step: a stale-run sweep is one statement. *)
Fail(S) == /\ \A r \in S : outcome[r] # "absent"
           /\ outcome' = [r \in Runs |-> IF r \in S THEN "failed" ELSE outcome[r]]
           /\ UNCHANGED <<duty, visited>>

Reopen(r) == /\ outcome[r] # "absent"
             /\ outcome' = [outcome EXCEPT ![r] = "open"]
             /\ UNCHANGED <<duty, visited>>

Next == \/ \E r \in Runs : Open(r) \/ Succeed(r) \/ Reopen(r)
        \/ \E r \in Runs, p \in Phases, e \in Ids : Visit(r, p, e)
        \/ \E S \in SUBSET Runs : Fail(S)

Spec == Init /\ [][Next]_vars
=============================================================================

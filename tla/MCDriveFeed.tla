---------------------------- MODULE MCDriveFeed ----------------------------
(* An account with one campaign, and two files in the campaign's folder:   *)
(* f1, which the scans of both walk, the account's at its depth cap, and   *)
(* f2, too deep for either.  Two runs that may overlap and one edit are    *)
(* the least in which a listing is older than another run's snapshot, and  *)
(* an edit falls before, into and after a run.                             *)
EXTENDS DriveFeed, TLC

CONSTANTS a, c, f1, f2

MCParent == (a :> None) @@ (c :> a)
MCHome == [f \in Files |-> c]
MCDepth == [x \in Files \union Entities |-> CASE x = c -> 1 [] x = f2 -> 2 [] OTHER -> 0]
MCSymmetry == Permutations(Runs)
=============================================================================

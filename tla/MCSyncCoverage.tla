---------------------------- MODULE MCSyncCoverage ----------------------------
(* What a run visits: one row, two executors of it, two accounts of which  *)
(* one or both are linked at first, and two campaigns.                     *)
EXTENDS DriveSyncRun, TLC

MCCandidates == PHASE_ACCOUNTS :> {1, 2, 3} @@ PHASE_CAMPAIGNS :> {1, 2}
MCInitially == PHASE_ACCOUNTS :> {2, 3} @@ PHASE_CAMPAIGNS :> {2}
=============================================================================

------------------------------ MODULE MCSyncSlot ------------------------------
(* Who may run: two rows and two requests or executors over one account,   *)
(* the least in which a check can be overtaken, a paused run can be passed *)
(* by another, and a continuation can meet a live executor.                *)
EXTENDS DriveSyncRun, TLC

MCLinked == PHASE_ACCOUNTS :> {1} @@ PHASE_CAMPAIGNS :> {}
=============================================================================

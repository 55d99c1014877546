------------------------------ MODULE MCWorker ------------------------------
(***************************************************************************)
(* Instances of JobExecutor for TLC: one worker, jobs of two submissions   *)
(* and a file.                                                             *)
(***************************************************************************)
EXTENDS JobExecutor, TLC

CONSTANTS w1, j1, j2, f1, t1, t2

MCTrackingOf == [j \in Jobs |-> IF j = j1 THEN t1 ELSE t2]
=============================================================================

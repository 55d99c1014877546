------------------------------ MODULE MCMaster ------------------------------
(***************************************************************************)
(* Instances of Master for TLC: two pools of one worker, a submission of   *)
(* jobs for one of them, and a submission of a job for the other.          *)
(***************************************************************************)
EXTENDS MasterRefinement, Tracking, TLC

CONSTANTS w1, w2, j1, j2, j3, t1, t2, r1, r2

MCTrackingOf == [j \in Jobs |-> IF j = j3 THEN t2 ELSE t1]

MCTwoRoles == [w \in Workers |-> IF w = w1 THEN r1 ELSE r2]
MCJobsOfTwoRoles == [j \in Jobs |-> IF j = j3 THEN r2 ELSE r1]

\* Every worker has a host of its own.
MCHostOf == [w \in Workers |-> w]

\* The jobs of the first submission are interchangeable.
MCSymmetry == Permutations({j1, j2})

\* What is in flight to a worker and what is to be cancelled is never read:
\* states that differ in nothing else are taken for one.
MCView ==
  <<workers, fileTracker, fileDatabase, db, journal, status, clients>>
=============================================================================

----------------------------- MODULE MCCluster -----------------------------
(***************************************************************************)
(* Instances of Cluster for TLC: two workers of one role.                  *)
(***************************************************************************)
EXTENDS Cluster, TLC

CONSTANTS w1, w2, j1, j2, f1, t1, r1

MCTrackingOf == [j \in Jobs |-> t1]
MCWorkerRole == [w \in Workers |-> r1]
MCRoleOf == [j \in Jobs |-> r1]

\* Every worker has a host of its own.
MCHostOf == [w \in Workers |-> w]

\* Workers of one role, and jobs for it, are interchangeable.
MCSymmetry == Permutations(Workers) \cup Permutations(Jobs)

\* No step reads which of the submitted jobs were acknowledged: states that
\* differ in nothing else are taken for one.
MCView ==
  <<volatile, db, journal, status, toWorker, submitted, workerVars, environment>>
=============================================================================

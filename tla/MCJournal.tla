----------------------------- MODULE MCJournal -----------------------------
(***************************************************************************)
(* Instances of MasterJournal for TLC: two workers, two jobs, a file.      *)
(***************************************************************************)
EXTENDS MasterJournal, TLC

CONSTANTS w1, w2, j1, j2, f1, t1, r1, r2

MCTrackingOf == [j \in Jobs |-> t1]

\* Two pools of workers, with the jobs split between them.
MCTwoRoles == [w \in Workers |-> IF w = w1 THEN r1 ELSE r2]
MCJobsOfTwoRoles == [j \in Jobs |-> IF j = j1 THEN r1 ELSE r2]

\* Both workers run on one host.
MCOneHost == [w \in Workers |-> w1]

\* No step reads the variables left out, and no property more than their
\* type.
MCView ==
  <<workers, fileTracker, fileDatabase, db, journal, status, submitted, log>>
=============================================================================

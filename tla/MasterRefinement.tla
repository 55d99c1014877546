-------------------------- MODULE MasterRefinement --------------------------
(***************************************************************************)
(* The master implements WorkPool: the refinement mapping reads the stage  *)
(* of a job off the job database; the jobs of `mixed` are the confused     *)
(* ones.                                                                   *)
(***************************************************************************)
EXTENDS Master

stageOf ==
  [j \in Jobs |->
     IF j \in mixed THEN "confused"
     ELSE IF j \in db.done THEN "completed"
     ELSE IF j \in db.inProgress THEN "running"
     ELSE IF j \in Range(db.pending) THEN "waiting"
     ELSE IF db.failed[j] > 0 THEN "failed"
     ELSE "new"]

acceptsOf == [j \in Jobs |-> IF j \in Clear THEN Len(db.tasks[j]) ELSE 0]

verdictsOf ==
  [j \in Jobs |-> IF j \in Clear THEN db.completed[j] + db.failed[j] ELSE 0]

Pool == INSTANCE WorkPool WITH
  stage <- stageOf, accepts <- acceptsOf, verdicts <- verdictsOf

(***************************************************************************)
(* Every step of the master, crashes and restarts included, is a step of   *)
(* the work pool or leaves it unchanged, as long as the journal is no      *)
(* longer than what recovery replays.                                      *)
(***************************************************************************)
ImplementsWorkPool == Pool!Spec
=============================================================================

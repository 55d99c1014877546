------------------------------ MODULE WorkPool ------------------------------
(***************************************************************************)
(* What the master promises of the jobs it accepts, without workers,       *)
(* queues, messages, deadlines or a journal: an accepted job waits, runs,  *)
(* may be taken back from a worker and wait again, and ends with exactly   *)
(* one verdict per acceptance.  Nothing is lost, a completed job stays     *)
(* completed, and a crash changes nothing.  Only a verdict on one job with *)
(* the result of another leaves these promises, and for no job but those   *)
(* two: nothing more is said of a confused job.                            *)
(*                                                                         *)
(* Module MasterRefinement maps the master to this specification.          *)
(***************************************************************************)
EXTENDS Naturals

CONSTANT Jobs

VARIABLES
  stage,     \* where each job is
  accepts,   \* how often it was accepted
  verdicts   \* how many verdicts are recorded for it

vars == <<stage, accepts, verdicts>>

Stages == {"new", "waiting", "running", "completed", "failed", "confused"}

Move(S, st) == [j \in Jobs |-> IF j \in S THEN st ELSE stage[j]]

Bump(f, S) == [j \in Jobs |-> IF j \in S THEN f[j] + 1 ELSE f[j]]

Init ==
  /\ stage = [j \in Jobs |-> "new"]
  /\ accepts = [j \in Jobs |-> 0]
  /\ verdicts = [j \in Jobs |-> 0]

\* A job that is new, or that failed before, is accepted.
Accept(S) ==
  /\ \A j \in S : stage[j] \in {"new", "failed"}
  /\ stage' = Move(S, "waiting")
  /\ accepts' = Bump(accepts, S)
  /\ UNCHANGED verdicts

Assign(j) ==
  /\ stage[j] = "waiting"
  /\ stage' = Move({j}, "running")
  /\ UNCHANGED <<accepts, verdicts>>

\* Jobs are taken back from workers presumed dead.
Reclaim(S) ==
  /\ \A j \in S : stage[j] = "running"
  /\ stage' = Move(S, "waiting")
  /\ UNCHANGED <<accepts, verdicts>>

Finish(j, verdict) ==
  /\ stage[j] = "running"
  /\ stage' = Move({j}, verdict)
  /\ verdicts' = Bump(verdicts, {j})
  /\ UNCHANGED accepts

Reset(f, S) == [j \in Jobs |-> IF j \in S THEN 0 ELSE f[j]]

\* A running job j gets its verdict with the result of job k, or another
\* report about a confused one does.
Confuse(j, k) ==
  /\ j # k
  /\ stage[j] \in {"running", "confused"}
  /\ stage' = Move({j, k}, "confused")
  /\ accepts' = Reset(accepts, {j, k})
  /\ verdicts' = Reset(verdicts, {j, k})

Next ==
  \/ \E S \in SUBSET Jobs : Accept(S) \/ Reclaim(S)
  \/ \E j \in Jobs :
       \/ Assign(j) \/ Finish(j, "completed") \/ Finish(j, "failed")
       \/ \E k \in Jobs : Confuse(j, k)

Spec == Init /\ [][Next]_vars
=============================================================================

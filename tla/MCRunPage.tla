----------------------------- MODULE MCRunPage -----------------------------
(***************************************************************************)
(* Instances of RunPage for TLC: uploads of one class name, a command.     *)
(***************************************************************************)
EXTENDS RunPage, TLC

CONSTANTS u1, u2, c1, n1, v1, v2

MCCount == [r \in Requests |-> IF r = u2 THEN 0 ELSE 2]
MCMaxChoices == [v \in Visits |-> IF v = v1 THEN 2 ELSE 1]
MCNameOf == [r \in Uploads |-> n1]
=============================================================================

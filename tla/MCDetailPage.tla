---------------------------- MODULE MCDetailPage ----------------------------
(***************************************************************************)
(* Instances of DetailPage for TLC: two submissions, two requests at a     *)
(* time.                                                                   *)
(***************************************************************************)
EXTENDS DetailPage, TLC

CONSTANTS t1, t2
=============================================================================

----------------------------- MODULE MCJustice -----------------------------
(***************************************************************************)
(* Two members and two officers beside the scheduler.                      *)
(***************************************************************************)
EXTENDS Justice

MCOrders == [arrest |-> 2, release |-> 1, schedule |-> 2, charge |-> 2, config |-> 2]
=============================================================================

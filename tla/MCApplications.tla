--------------------------- MODULE MCApplications ---------------------------
(***************************************************************************)
(* One member, one type of licence and two calls at the same time; three   *)
(* applications are what it takes for more duplicates than calls.          *)
(***************************************************************************)
EXTENDS Applications

MCTypes == {"shop"}
=============================================================================

------------------------------ MODULE MCPanels ------------------------------
(***************************************************************************)
(* A department head's panel, the council's and the assembly's, with the   *)
(* forms opened from them.  The two payees are alike, so the first that is *)
(* named is the first of them.                                             *)
(***************************************************************************)
EXTENDS Panels

Modals == {h \in Handlers : work[h].at = "modal"}
FirstNamed == form = "none" =>
    "p2" \notin {fields'.payee} \union {work'[h].payee : h \in Modals'}
MCSpec == PanelsInit /\ [][PanelsNext /\ FirstNamed]_panelsVars /\ Fairness
=============================================================================

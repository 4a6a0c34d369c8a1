----------------------------- MODULE MCTreasury -----------------------------
(***************************************************************************)
(* A small state council: the interior department and the central bank,    *)
(* one member and two concurrent callers.                                  *)
(***************************************************************************)
EXTENDS Treasury

MCDepartmentOrder == <<"interior", "bank">>
MCUsers == {"member"}
MCInitialBalance == [a \in {"bank", "interior", "member"} |->
                        IF a = "member" THEN 1 ELSE 2]
Request(op, from, to, amount) == [op |-> op, from |-> from, to |-> to, amount |-> amount]

MCCalls ==
    {Request("between", "bank", "interior", 2), Request("between", "interior", "bank", 1),
     Request("touser", "bank", "member", 2), Request("welfare", "interior", "member", 1),
     Request("tax", "member", "bank", 1), Request("issue", "bank", "bank", 1),
     Request("issue", "bank", "bank", 3),
     Request("auto", "bank", "member", 3), Request("auto", "bank", "interior", 3),
     Request("ensure", "bank", "bank", 0)}

MCDirectOps == {[from |-> Nobody, to |-> "bank", amount |-> -1],
                [from |-> "member", to |-> "interior", amount |-> 1]}
=============================================================================

------------------------------ MODULE MCCouncil ------------------------------
(***************************************************************************)
(* Three councillors x, y and z, so that two approvals pass a proposal,    *)
(* and an account that covers two payments but not three.                  *)
(***************************************************************************)
EXTENDS Council, TLC

CONSTANTS account, alice, x, y, z, p1, other, c1, c2, c3

MCMembers == {account, alice}
MCPay == [op |-> "transfer", by |-> account, to |-> alice, amount |-> 1,
          reason |-> TRUE]
MCDeduct == [op |-> "adjust", by |-> alice, to |-> account, amount |-> -2,
             reason |-> TRUE]
MCRequests == {MCPay, MCDeduct}
MCPayment == [p \in Proposals |-> MCPay]
MCBalance == (account :> 2) @@ (alice :> 0)
MCSnapshot == [p \in Proposals |-> {x, y, z}]
MCTxIds == {other} \cup ({p1} \X (1..(1 + Cardinality(Calls))))

MCVote(v, choice) == [proposal |-> p1, voter |-> v, choice |-> choice]

\* c3 is a third councillor, or x who changes or repeats the vote of c1, or
\* alice, who is not on the council.
MCBallots ==
    (c1 :> {MCVote(x, "approve"), MCVote(x, "reject")}) @@
    (c2 :> {MCVote(y, "approve"), MCVote(y, "abstain")}) @@
    (c3 :> {MCVote(z, "approve"), MCVote(x, "reject"), MCVote(alice, "approve")})
=============================================================================

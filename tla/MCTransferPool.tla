--------------------------- MODULE MCTransferPool ---------------------------
(* A pending transfer of a member who gets, and loses, money meanwhile.    *)
EXTENDS TransferPool, TLC

CONSTANTS alice, bob, t1, grant, spend

Pay(i, j, a) ==
    [op |-> "transfer", by |-> i, to |-> j, amount |-> a, reason |-> TRUE]
Alter(i, j, a) ==
    [op |-> "adjust", by |-> i, to |-> j, amount |-> a, reason |-> TRUE]

MCMembers == {alice, bob}
MCRequests == {Pay(alice, bob, 1), Pay(alice, bob, 4), Alter(bob, alice, 3),
               Alter(bob, alice, 5), Alter(bob, alice, -3)}
MCRequest == [t \in Transfers |-> Pay(alice, bob, 1)]
MCTxIds == (Transfers \cup Traffic) \X (1..(1 + MaxRetry * MaxAttempts))
MCBroke == (alice :> 0) @@ (bob :> 0)

\* A grant makes the failing balance check pass; a deduction of all of it
\* makes an approved transfer fail.
MCTraffic == (grant :> Alter(bob, alice, 3)) @@ (spend :> Alter(bob, alice, -3))
MCTrafficRequest == [b \in Traffic |-> MCTraffic[b]]

\* With a daily limit of 4, another payment turns the failing balance check
\* into a failing daily limit, until midnight.
MCLimitTraffic ==
    (grant :> Alter(bob, alice, 5)) @@ (spend :> Pay(alice, bob, 4))
MCLimitTrafficRequest == [b \in Traffic |-> MCLimitTraffic[b]]

=============================================================================

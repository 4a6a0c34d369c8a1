----------------------- MODULE MCLedgerTransactions ------------------------
(* Three concurrent calls on three accounts, one of them a department.     *)
EXTENDS LedgerTransactions, TLC

CONSTANTS alice, bob, dept, none, nothing, c1, c2, c3

\* The calls are interchangeable: used by the runs without liveness.
Calls == {c1, c2, c3}
Interchangeable == Permutations(Calls)

Pay(i, j, a) ==
    [op |-> "transfer", by |-> i, to |-> j, amount |-> a, reason |-> TRUE]
Alter(i, j, a) ==
    [op |-> "adjust", by |-> i, to |-> j, amount |-> a, reason |-> TRUE]

MCMembers == {alice, bob, dept}
MCGovernment == {dept}

\* bob has no balance row yet: the first call that names him inserts it.
MCInitialRows == {alice, dept}
MCInitialBalance == (alice :> 3) @@ (bob :> 0) @@ (dept :> 3)

\* Calls that contend for a payer, a payee and alice's daily limit, both kinds
\* of adjustment, and one that the argument checks refuse.
MCRequests ==
    {Pay(alice, bob, 2), Pay(alice, dept, 1), Pay(dept, alice, 3),
     Alter(alice, bob, 1), Alter(bob, alice, -2), Pay(alice, alice, 1)}

\* Opposite transfers and an adjustment by a paying administrator: every
\* shape of deadlock.
MCLiveRequests ==
    {Pay(alice, bob, 2), Pay(bob, alice, 1), Alter(alice, bob, 1)}

=============================================================================

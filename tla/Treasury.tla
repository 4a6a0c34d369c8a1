------------------------------ MODULE Treasury ------------------------------
(***************************************************************************)
(* The money of the state council (StateCouncilService).  Every department *)
(* has two balances: the economy ledger's, which transfers check, and a    *)
(* cached one in governance.government_accounts, which the service writes  *)
(* by itself and which it trusts when the two differ.                      *)
(*                                                                         *)
(* A call runs in a transaction of its own on a pooled connection, and is  *)
(* cut here into its statements.  Some calls take a second connection      *)
(* meanwhile: for the ledger transfer of a tax and of a transfer between   *)
(* departments, which then commits by itself, and for the permission check *)
(* of an issuance.  What a transaction wrote is a draft, its rows locked,  *)
(* until it commits (READ COMMITTED).  The row locks of one fn_ call are   *)
(* taken together; LedgerTransactions has their order.  TransferService    *)
(* is in its synchronous mode.                                             *)
(***************************************************************************)
EXTENDS Integers, Sequences, FiniteSets, FiniteSetsExt, SequencesExt

CONSTANTS
    DepartmentOrder, \* the departments, as fn_list_government_accounts lists them
    Bank,            \* the central bank, one of them
    Users,           \* the other accounts
    Callers,         \* concurrent users of the panels
    Calls,           \* the calls they may make, see CallType
    DirectOps,       \* /adjust and /transfer on departments: who pays, whom, how much
    InitialBalance,  \* both balances of a department, the ledger's of a user
    MaxIssuance,     \* max_issuance_per_month of the central bank, 0: no limit
    Throttled,       \* whether the daily limit may refuse a transfer: {FALSE} or BOOLEAN
    Connections,     \* max_size of the connection pool
    MaxCalls,        \* bound: calls that a behaviour makes
    MaxDirect,       \* bound: direct operations that it contains
    MaxFaults        \* bound: connections that it loses

Departments == Range(DepartmentOrder)
Accounts == Departments \cup Users
Nobody == "nobody" \* the administrator of /adjust gives from no account

Ops == {"between", "touser", "welfare", "tax", "issue", "auto", "ensure"}
CallType == [op: Ops, from: Accounts, to: Accounts, amount: Nat]

ASSUME AccountsAssumption ==
    /\ DepartmentOrder \in Seq(Departments) /\ IsInjective(DepartmentOrder)
    /\ Bank \in Departments /\ IsFiniteSet(Users)
    /\ Departments \cap Users = {} /\ Nobody \notin Accounts
ASSUME CallsAssumption ==
    /\ Calls \subseteq CallType /\ IsFiniteSet(Calls) /\ IsFiniteSet(Callers)
    /\ \A c \in Calls :
          /\ c.op # "ensure" => c.amount > 0
          /\ c.op \in {"between", "touser", "welfare"} => c.from \in Departments
          /\ c.op \in {"touser", "welfare"} => c.to \in Users
          /\ c.op = "between" => c.to \in Departments /\ c.from # c.to
          /\ c.op = "tax" => c.from \in Users /\ c.to \in Departments
          /\ c.op = "issue" => c.to = Bank
ASSUME DirectOpsAssumption ==
    /\ DirectOps \subseteq [from: Users \cup {Nobody}, to: Departments, amount: Int]
    /\ \A o \in DirectOps : o.from # Nobody => o.amount > 0
ASSUME InitialBalanceAssumption == InitialBalance \in [Accounts -> Nat]
ASSUME TreasuryBoundsAssumption ==
    /\ Throttled \subseteq BOOLEAN /\ MaxIssuance \in Nat /\ Connections \in Nat \ {0}
    /\ MaxCalls \in Nat /\ MaxDirect \in Nat /\ MaxFaults \in Nat

VARIABLES
    ledger,     \* guild_member_balances.current_balance, committed
    gov,        \* government_accounts.balance, committed
    recorded,   \* sums of the governance records of each kind, committed
    moved,      \* sums of the ledger operations made for them, committed
    adjusted,   \* sum of the other adjustments of the ledger, committed
    at,         \* at[p]: the statement that caller p is about to run
    call,       \* call[p]: the call that p makes
    seen,       \* seen[p]: what p's call has read
    draft,      \* draft[p]: what p's transaction wrote
    todo,       \* todo[p]: departments that p has yet to debit or align
    made,       \* calls, direct operations and faults so far
    overlapped, \* callers whose call met another one on a department
    clean       \* departments nothing has come between the balances of

tables == <<ledger, gov, recorded, moved, adjusted>>
private == <<seen, draft, todo>>
history == <<made, overlapped, clean>>
vars == <<tables, at, call, private, history>>

Recorded == {"welfare", "tax", "between", "issue"}
NoCall == [op |-> "none", from |-> Bank, to |-> Bank, amount |-> 0]
NothingSeen == [gov |-> <<>>, econ |-> 0, econTo |-> 0, paid |-> FALSE]
EmptyDraft == [ledger |-> [a \in Accounts |-> 0], gov |-> <<>>,
               moved |-> 0, adjusted |-> 0, locks |-> {}]

-----------------------------------------------------------------------------
(* Connections, row locks and balances as a transaction sees them *)

Active == {p \in Callers : at[p] # "idle"}

\* The sum of f over a finite set.
SumOf(f, S) == MapThenSumSet(LAMBDA x : f[x], S)

\* Connections that callers hold: none while they wait for their first one.
Held == [p \in Callers |-> IF at[p] \in {"idle", "plan", "acquire"} THEN 0
                           ELSE IF at[p] = "payout" THEN 2 ELSE 1]

Free == Connections - SumOf(Held, Callers)

LedgerRow(a) == <<"ledger", a>>
GovRow(d) == <<"gov", d>>
LockedByOthers(p, rows) ==
    \E q \in Callers \ {p} : draft[q].locks \cap rows # {}

\* fetch_balance_snapshot in p's transaction.
View(p, a) == ledger[a] + draft[p].ledger[a]

Payer(p) == IF call[p].op = "auto" THEN Head(todo[p]).dept ELSE call[p].from
Share(p) == IF call[p].op = "auto" THEN Head(todo[p]).amount ELSE call[p].amount
PayRows(p) == {LedgerRow(Payer(p)), LedgerRow(call[p].to)}

\* The rows that the next statement of p's transaction writes.
Wanted(p) ==
    IF at[p] = "grant" THEN {LedgerRow(call[p].from)}
    ELSE IF at[p] = "mint" THEN {LedgerRow(Bank)}
    ELSE IF at[p] = "pay" /\ Payer(p) # call[p].to THEN PayRows(p)
    ELSE IF at[p] = "govFrom" THEN {GovRow(Payer(p))}
    ELSE IF at[p] = "govTo" THEN {GovRow(call[p].to)}
    ELSE IF at[p] = "align" THEN {GovRow(Head(todo[p]).dept)} ELSE {}

\* The balances b when amount n has gone from one account to another.
Moved(b, from, to, n) ==
    [a \in Accounts |-> IF a = to THEN b[a] + n ELSE IF a = from THEN b[a] - n ELSE b[a]]

Goto(p, step) == at' = [at EXCEPT ![p] = step]
See(p, what) == seen' = [seen EXCEPT ![p] = what]
Draft(p, what) == draft' = [draft EXCEPT ![p] = what]
Lock(p, d) == [d EXCEPT !.locks = @ \cup Wanted(p)]
\* A draft whose ledger is now b, after so much was paid and so much granted.
Booked(d, b, paid, granted) ==
    [ledger |-> b, gov |-> d.gov, moved |-> d.moved + paid,
     adjusted |-> d.adjusted + granted, locks |-> d.locks]

SetGov(d, dept, n) ==
    [d EXCEPT !.gov = [e \in DOMAIN @ \cup {dept} |-> IF e = dept THEN n ELSE @[e]]]

-----------------------------------------------------------------------------
(* The deduction plan of a transfer from the whole state council *)

\* get_all_department_balances_sorted: the richest first, then as listed.
Ahead(bal, d) ==
    {e \in Departments : \/ bal[e] > bal[d]
                         \/ /\ bal[e] = bal[d]
                            /\ \E i, j \in DOMAIN DepartmentOrder :
                                  /\ i < j
                                  /\ DepartmentOrder[i] = e
                                  /\ DepartmentOrder[j] = d}

\* calculate_deduction_plan: what is left of the amount after the ones ahead.
Deduction(bal, d, amount) ==
    LET before == SumOf(bal, Ahead(bal, d))
    IN  IF before >= amount THEN 0
        ELSE IF bal[d] < amount - before THEN bal[d] ELSE amount - before

DeductionPlan(bal, amount) ==
    LET payers == {d \in Departments : Deduction(bal, d, amount) > 0}
        sorted == CHOOSE s \in [1..Cardinality(payers) -> payers] :
                      \A i, j \in DOMAIN s : i < j => s[i] \in Ahead(bal, s[j])
    IN  [i \in DOMAIN sorted |->
            [dept |-> sorted[i], amount |-> Deduction(bal, sorted[i], amount)]]

-----------------------------------------------------------------------------
Init ==
    /\ ledger = InitialBalance
    /\ gov = [d \in Departments |-> InitialBalance[d]]
    /\ recorded = [k \in Recorded |-> 0]
    /\ moved = [k \in Recorded |-> 0]
    /\ adjusted = 0
    /\ at = [p \in Callers |-> "idle"]
    /\ call = [p \in Callers |-> NoCall]
    /\ seen = [p \in Callers |-> NothingSeen]
    /\ draft = [p \in Callers |-> EmptyDraft]
    /\ todo = [p \in Callers |-> <<>>]
    /\ made = [calls |-> 0, direct |-> 0, faults |-> 0]
    /\ overlapped = {}
    /\ clean = Departments

Touches(c) ==
    IF c.op \in {"auto", "ensure"} THEN Departments
    ELSE {c.from, c.to} \cap Departments

\* Members submit a panel's form; the permissions were checked before.
Start(p, c) ==
    LET met == {q \in Active : Touches(call[q]) \cap Touches(c) # {}}
    IN  /\ at[p] = "idle" /\ made.calls < MaxCalls
        /\ call' = [call EXCEPT ![p] = c]
        /\ Goto(p, IF c.op = "auto" THEN "plan" ELSE "acquire")
        /\ made' = [made EXCEPT !.calls = @ + 1]
        /\ overlapped' =
              IF met = {} THEN overlapped ELSE overlapped \cup met \cup {p}
        /\ UNCHANGED <<tables, private, clean>>

\* What a finished call leaves of clean.  A call that ran alone spoils a
\* department when it counted a payment the ledger refused, when it was cut
\* off, or when it credited it in the ledger only; opening the panel repairs.
CleanAfter(p, committed, credited) ==
    LET c == call[p]
    IN  IF p \in overlapped \/ (~committed /\ seen[p].paid)
           \/ (committed /\ c.op \in {"between", "tax"} /\ ~seen[p].paid)
           \/ (committed /\ c.op = "touser" /\ draft[p].moved = 0)
        THEN clean \ Touches(c)
        ELSE IF c.op = "ensure" /\ committed THEN clean \cup Departments
        ELSE IF c.op = "auto" /\ credited THEN clean \ {c.to}
        ELSE clean

Finish(p) ==
    /\ Goto(p, "idle")
    /\ call' = [call EXCEPT ![p] = NoCall]
    /\ See(p, NothingSeen) /\ Draft(p, EmptyDraft)
    /\ todo' = [todo EXCEPT ![p] = <<>>]
    /\ overlapped' = overlapped \ {p}

\* Mutant of Rollback: the call is tried again, as often as it takes.
RollbackAndRetry(p) ==
    /\ Goto(p, "acquire")
    /\ See(p, NothingSeen) /\ Draft(p, EmptyDraft)
    /\ UNCHANGED <<tables, call, todo, history>>

\* Mutant of Rollback: what the transaction did to the ledger stays.
RollbackKeepsLedger(p) ==
    /\ Finish(p)
    /\ ledger' = [a \in Accounts |-> ledger[a] + draft[p].ledger[a]]
    /\ clean' = CleanAfter(p, FALSE, FALSE)
    /\ UNCHANGED <<gov, recorded, moved, adjusted, made>>

Rollback(p) ==
    /\ Finish(p)
    /\ clean' = CleanAfter(p, FALSE, FALSE)
    /\ UNCHANGED <<tables, made>>

\* The transaction of p commits, with the record of the call.
Commit(p) ==
    LET c == call[p]
        w == draft[p]
    IN  /\ at[p] = "commit"
        /\ ledger' = [a \in Accounts |-> ledger[a] + w.ledger[a]]
        /\ gov' = [d \in Departments |-> IF d \in DOMAIN w.gov THEN w.gov[d] ELSE gov[d]]
        /\ recorded' = [k \in Recorded |-> recorded[k] + IF k = c.op THEN c.amount ELSE 0]
        /\ moved' = [k \in Recorded |-> moved[k] + IF k = c.op THEN w.moved ELSE 0]
        /\ adjusted' = adjusted + w.adjusted
        /\ clean' = CleanAfter(p, TRUE, w.moved > 0)
        /\ Finish(p)
        /\ UNCHANGED made

-----------------------------------------------------------------------------
(* The statements of a call, in the order of the code *)

\* transfer_from_state_council_auto_deduct, up to its own transaction.  The
\* balances are read one after another there, here at once.
Plan(p) ==
    LET amount == call[p].amount
        plan == DeductionPlan([d \in Departments |-> ledger[d]], amount)
    IN  /\ at[p] = "plan" /\ Free > 0
        /\ IF SumOf(ledger, Departments) < amount
           THEN Finish(p)
           ELSE /\ Goto(p, "acquire")
                /\ todo' = [todo EXCEPT ![p] = plan]
                /\ UNCHANGED <<call, seen, draft, overlapped>>
        /\ UNCHANGED <<tables, made, clean>>

\* pool.acquire() and the start of the transaction.
Acquire(p) ==
    /\ at[p] = "acquire" /\ Free > 0
    /\ Goto(p, IF call[p].op = "auto" THEN "pay"
               ELSE IF call[p].op = "issue" THEN "sum" ELSE "read")
    /\ UNCHANGED <<tables, call, private, history>>

\* The accounts of the governance layer (_get_effective_account).
Read(p) ==
    LET c == call[p]
        scope == IF c.op = "ensure" THEN Departments ELSE {c.from, c.to} \cap Departments
    IN  /\ at[p] = "read"
        /\ See(p, [seen[p] EXCEPT !.gov = [d \in scope |-> gov[d]]])
        /\ Goto(p, IF c.op = "ensure" THEN "snapshot"
                   ELSE IF c.op = "tax" THEN "borrow"
                   ELSE IF c.op = "issue" THEN "mint" ELSE "econ")
        /\ todo' = IF c.op = "ensure"
                   THEN [todo EXCEPT ![p] = [i \in DOMAIN DepartmentOrder |->
                                 [dept |-> DepartmentOrder[i], amount |-> 0]]]
                   ELSE todo
        /\ UNCHANGED <<tables, call, draft, history>>

\* _sync_government_account_balance.  A department whose cached balance covers
\* the amount and whose ledger does not is granted the difference.
Econ(p) ==
    LET c == call[p]
        econ == View(p, c.from)
        needsGrant == seen[p].gov[c.from] >= c.amount /\ econ < c.amount
    IN  /\ at[p] = "econ"
        /\ See(p, [seen[p] EXCEPT !.econ = econ])
        /\ Goto(p, IF needsGrant THEN "grant"
                   ELSE IF c.op = "between" THEN "econTo" ELSE "pay")
        /\ UNCHANGED <<tables, call, draft, todo, history>>

\* The grant is an adjustment inside the call's transaction: its row stays
\* locked to the end of it.
Grant(p) ==
    LET c == call[p]
        dept == c.from
        delta == seen[p].gov[dept] - seen[p].econ
        after == View(p, dept) + delta
    IN  /\ at[p] = "grant" /\ ~LockedByOthers(p, Wanted(p))
        /\ Draft(p, Lock(p, Booked(draft[p], [draft[p].ledger EXCEPT ![dept] = @ + delta],
                                   0, delta)))
        /\ See(p, [seen[p] EXCEPT
                     !.econ = IF after < c.amount THEN seen[p].gov[dept] ELSE after])
        /\ Goto(p, IF c.op = "between" THEN "econTo" ELSE "pay")
        /\ UNCHANGED <<tables, call, todo, history>>

EconTo(p) ==
    /\ at[p] = "econTo"
    /\ See(p, [seen[p] EXCEPT !.econTo = View(p, call[p].to)])
    /\ Goto(p, "borrow")
    /\ UNCHANGED <<tables, call, draft, todo, history>>

\* TransferService.transfer_currency without a connection takes one more.
Borrow(p) ==
    /\ at[p] = "borrow" /\ Free > 0
    /\ Goto(p, "payout")
    /\ UNCHANGED <<tables, call, private, history>>

AfterPayOut(p) == Goto(p, IF call[p].op = "tax" THEN "govTo" ELSE "govFrom")

\* That transfer commits by itself.  It waits for every locked row, those of
\* the transaction of p included; a refusal is swallowed.
PayOut(p) ==
    LET c == call[p]
    IN  /\ at[p] = "payout"
        /\ \A q \in Callers : draft[q].locks \cap PayRows(p) = {}
        /\ AfterPayOut(p)
        /\ \/ /\ FALSE \in Throttled /\ ledger[c.from] >= c.amount
              /\ ledger' = Moved(ledger, c.from, c.to, c.amount)
              /\ moved' = [moved EXCEPT ![c.op] = @ + c.amount]
              /\ See(p, [seen[p] EXCEPT !.paid = TRUE])
           \/ /\ TRUE \in Throttled \/ ledger[c.from] < c.amount
              /\ UNCHANGED <<ledger, moved, seen>>
        /\ UNCHANGED <<gov, recorded, adjusted, call, draft, todo, history>>

\* The loop over the deductions, or over the departments of the panel, goes on.
NextDepartment(p, step) ==
    /\ todo' = [todo EXCEPT ![p] = Tail(@)]
    /\ Goto(p, IF Tail(todo[p]) = <<>> THEN "commit" ELSE step)

\* A transfer inside the transaction of the call, under a savepoint: to another
\* account, of a positive amount that the payer has.
Affordable(p) ==
    /\ Payer(p) # call[p].to /\ Share(p) \in Nat \ {0}
    /\ View(p, Payer(p)) >= Share(p)
AtPay(p) == at[p] = "pay" /\ ~LockedByOthers(p, Wanted(p))
Refusable(p) == Affordable(p) => TRUE \in Throttled

Pay(p) ==
    LET payer == Payer(p)
        share == Share(p)
    IN  /\ AtPay(p) /\ Affordable(p) /\ FALSE \in Throttled
        /\ Draft(p, Lock(p, Booked(draft[p], Moved(draft[p].ledger, payer, call[p].to, share),
                                   share, 0)))
        /\ Goto(p, "govFrom")
        /\ UNCHANGED <<tables, call, seen, todo, history>>

\* What the ledger refuses: a welfare payment ends,
RefuseWelfare(p) == AtPay(p) /\ Refusable(p) /\ Rollback(p)

\* so does a transfer to a member without funds,
RefuseToUser(p) == AtPay(p) /\ ~Affordable(p) /\ Rollback(p)

\* a throttled one goes on as if it had been paid,
AssumePaid(p) ==
    /\ AtPay(p) /\ Affordable(p) /\ TRUE \in Throttled
    /\ Goto(p, "govFrom")
    /\ UNCHANGED <<tables, call, private, history>>

\* and the deduction goes on with the next department.
SkipDepartment(p) ==
    /\ AtPay(p) /\ Refusable(p)
    /\ NextDepartment(p, "pay")
    /\ UNCHANGED <<tables, call, seen, draft, history>>

\* issue_currency: the sum of the month, before the record is inserted.
Sum(p) ==
    /\ at[p] = "sum"
    /\ IF MaxIssuance > 0 /\ recorded["issue"] + call[p].amount > MaxIssuance
       THEN Rollback(p)
       ELSE /\ Goto(p, "permit")
            /\ UNCHANGED <<tables, call, private, history>>

\* The permission check inside the transaction takes a connection of its own
\* and gives it back.
Permit(p) ==
    /\ at[p] = "permit" /\ Free > 0
    /\ Goto(p, "read")
    /\ UNCHANGED <<tables, call, private, history>>

Mint(p) ==
    /\ at[p] = "mint" /\ ~LockedByOthers(p, Wanted(p))
    /\ Draft(p, Lock(p, Booked(draft[p], [draft[p].ledger EXCEPT ![Bank] = @ + call[p].amount],
                               call[p].amount, 0)))
    /\ Goto(p, "govTo")
    /\ UNCHANGED <<tables, call, seen, todo, history>>

\* The payer's cached balance: what the transfer left, or what the call read
\* before a transfer of which it does not know the result.
GovFrom(p) ==
    LET dept == Payer(p)
        left == IF seen[p].econ > call[p].amount THEN seen[p].econ - call[p].amount ELSE 0
        balance == IF draft[p].moved > 0 THEN View(p, dept) ELSE left
    IN  /\ at[p] = "govFrom" /\ ~LockedByOthers(p, Wanted(p))
        /\ Draft(p, Lock(p, SetGov(draft[p], dept, balance)))
        /\ IF call[p].op = "auto" THEN NextDepartment(p, "pay")
           ELSE /\ Goto(p, IF call[p].op = "between" THEN "govTo" ELSE "commit")
                /\ UNCHANGED todo
        /\ UNCHANGED <<tables, call, seen, history>>

\* Mutant of GovTo: the new balance forgets the amount.
GovToForgets(p) ==
    /\ at[p] = "govTo" /\ ~LockedByOthers(p, Wanted(p))
    /\ Draft(p, Lock(p, SetGov(draft[p], call[p].to, seen[p].gov[call[p].to])))
    /\ Goto(p, "commit")
    /\ UNCHANGED <<tables, call, seen, todo, history>>

\* The payee's cached balance, from what the call read before the transfer.
GovTo(p) ==
    LET dept == call[p].to
        base == IF call[p].op = "between" THEN seen[p].econTo ELSE seen[p].gov[dept]
    IN  /\ at[p] = "govTo" /\ ~LockedByOthers(p, Wanted(p))
        /\ Draft(p, Lock(p, SetGov(draft[p], dept, base + call[p].amount)))
        /\ Goto(p, "commit")
        /\ UNCHANGED <<tables, call, seen, todo, history>>

\* ensure_government_accounts: the panel opens and copies the ledger's balance
\* of every department that differs from the cached one.
Snapshot(p) ==
    LET dept == Head(todo[p]).dept
    IN  /\ at[p] = "snapshot"
        /\ See(p, [seen[p] EXCEPT !.econ = ledger[dept]])
        /\ IF ledger[dept] = seen[p].gov[dept]
           THEN NextDepartment(p, "snapshot")
           ELSE Goto(p, "align") /\ UNCHANGED todo
        /\ UNCHANGED <<tables, call, draft, history>>

Align(p) ==
    /\ at[p] = "align" /\ ~LockedByOthers(p, Wanted(p))
    /\ Draft(p, Lock(p, SetGov(draft[p], Head(todo[p]).dept, seen[p].econ)))
    /\ NextDepartment(p, "snapshot")
    /\ UNCHANGED <<tables, call, seen, history>>

-----------------------------------------------------------------------------
(* Deadlocks, lost connections and operations outside the service *)

WaitsFor(p, q) == p # q /\ draft[q].locks \cap Wanted(p) # {}

InCycle(p) ==
    \E S \in SUBSET Callers :
        /\ p \in S
        /\ \A q \in S : (\E r \in S : WaitsFor(q, r)) /\ (\E r \in S : WaitsFor(r, q))

\* PostgreSQL breaks a deadlock.  Outside a savepoint the whole transaction is
\* lost, the errors that the service swallows included; inside one the call
\* goes on, a transfer to a member as if it had been paid.
Victim(p) ==
    /\ InCycle(p)
    /\ \/ /\ at[p] = "pay" /\ call[p].op = "auto"
          /\ NextDepartment(p, "pay")
          /\ UNCHANGED <<tables, call, seen, draft, history>>
       \/ /\ at[p] = "pay" /\ call[p].op = "touser"
          /\ Goto(p, "govFrom")
          /\ UNCHANGED <<tables, call, private, history>>
       \/ /\ at[p] # "pay" \/ call[p].op = "welfare"
          /\ Rollback(p)

\* The connection of a call is lost: its transaction is rolled back, a
\* transfer made on another connection is not.
Fail(p) ==
    /\ made.faults < MaxFaults /\ Held[p] > 0
    /\ Finish(p)
    /\ clean' = CleanAfter(p, FALSE, FALSE)
    /\ made' = [made EXCEPT !.faults = @ + 1]
    /\ UNCHANGED tables

\* /adjust or /transfer on a department's account, committed.
DirectOp(o) ==
    LET met == {p \in Active : o.to \in Touches(call[p])}
        enough == IF o.from = Nobody THEN ledger[o.to] + o.amount >= 0
                                     ELSE ledger[o.from] >= o.amount
        rows == {LedgerRow(o.to), LedgerRow(o.from)}
    IN  /\ made.direct < MaxDirect /\ enough
        /\ \A p \in Callers : draft[p].locks \cap rows = {}
        /\ ledger' = Moved(ledger, o.from, o.to, o.amount)
        /\ adjusted' = IF o.from = Nobody THEN adjusted + o.amount ELSE adjusted
        /\ clean' = clean \ {o.to}
        /\ overlapped' = overlapped \cup met
        /\ made' = [made EXCEPT !.direct = @ + 1]
        /\ UNCHANGED <<gov, recorded, moved, at, call, private>>

(* The operations of the service, each with the statements it consists of. *)

disburse_welfare(p) ==
    /\ call[p].op = "welfare"
    /\ \/ Acquire(p) \/ Read(p) \/ Econ(p) \/ Grant(p)
       \/ Pay(p) \/ RefuseWelfare(p) \/ GovFrom(p) \/ Commit(p)

collect_tax(p) ==
    /\ call[p].op = "tax"
    /\ Acquire(p) \/ Read(p) \/ Borrow(p) \/ PayOut(p) \/ GovTo(p) \/ Commit(p)

issue_currency(p) ==
    /\ call[p].op = "issue"
    /\ Acquire(p) \/ Sum(p) \/ Permit(p) \/ Read(p) \/ Mint(p) \/ GovTo(p) \/ Commit(p)

transfer_between_departments(p) ==
    /\ call[p].op = "between"
    /\ \/ Acquire(p) \/ Read(p) \/ Econ(p) \/ Grant(p) \/ EconTo(p)
       \/ Borrow(p) \/ PayOut(p) \/ GovFrom(p) \/ GovTo(p) \/ Commit(p)

transfer_department_to_user(p) ==
    /\ call[p].op = "touser"
    /\ \/ Acquire(p) \/ Read(p) \/ Econ(p) \/ Grant(p)
       \/ Pay(p) \/ RefuseToUser(p) \/ AssumePaid(p) \/ GovFrom(p) \/ Commit(p)

transfer_from_state_council_auto_deduct(p) ==
    /\ call[p].op = "auto"
    /\ \/ Plan(p) \/ Acquire(p) \/ Pay(p)
       \/ SkipDepartment(p) \/ GovFrom(p) \/ Commit(p)

ensure_government_accounts(p) ==
    /\ call[p].op = "ensure"
    /\ Acquire(p) \/ Read(p) \/ Snapshot(p) \/ Align(p) \/ Commit(p)

Step(p) ==
    \/ disburse_welfare(p) \/ collect_tax(p) \/ issue_currency(p)
    \/ transfer_between_departments(p) \/ transfer_department_to_user(p)
    \/ transfer_from_state_council_auto_deduct(p)
    \/ ensure_government_accounts(p) \/ Victim(p)

Next ==
    \/ \E p \in Callers, c \in Calls : Start(p, c)
    \/ \E p \in Callers : Step(p) \/ Fail(p)
    \/ \E o \in DirectOps : DirectOp(o)

Spec == Init /\ [][Next]_vars

\* Statements return, connections are handed out and deadlocks are broken; no
\* member has to make a call, and nothing has to fail.  The pool serves its
\* waiters in turn, hence the strong fairness.
FairSpec == Spec /\ \A p \in Callers : SF_vars(Step(p))

-----------------------------------------------------------------------------
(* Properties *)

Steps == {"idle", "plan", "acquire", "read", "econ", "grant", "econTo", "borrow",
          "payout", "pay", "sum", "permit", "mint", "govFrom", "govTo",
          "snapshot", "align", "commit"}

\* Types; balances are never negative, as the checks of both tables demand.
TypeOK ==
    /\ ledger \in [Accounts -> Nat] /\ gov \in [Departments -> Nat]
    /\ recorded \in [Recorded -> Nat] /\ moved \in [Recorded -> Nat] /\ adjusted \in Int
    /\ at \in [Callers -> Steps] /\ call \in [Callers -> Calls \cup {NoCall}]
    /\ \A p \in Callers :
          /\ DOMAIN seen[p] = DOMAIN NothingSeen /\ DOMAIN seen[p].gov \subseteq Departments
          /\ DOMAIN draft[p] = DOMAIN EmptyDraft /\ DOMAIN draft[p].gov \subseteq Departments
          /\ \A d \in DOMAIN draft[p].gov : draft[p].gov[d] >= 0
          /\ \A a \in Accounts : View(p, a) >= 0
    /\ overlapped \subseteq Active /\ clean \subseteq Departments
    /\ Free >= 0

\* Total of the ledger.
Points(l) == SumOf(l, Accounts)

\* Points come into being only by issuances and adjustments, whichever calls
\* meet, are refused, are cut off or lose a deadlock
\* (transfers are double entries inside one transaction).
PointsAccountedFor ==
    Points(ledger) = Points(InitialBalance) + moved["issue"] + adjusted

\* A welfare payment and an issuance are recorded exactly when the ledger
\* made them (both are written in one transaction).
BackedRecords == \A k \in {"welfare", "issue"} : recorded[k] = moved[k]

\* The month's issuance is summed before the insert, so concurrent issuances
\* may exceed the limit: by no more than one issuance within it per other caller.
IssuanceOvershootBounded ==
    MaxIssuance > 0 =>
        LET largest == Max({n \in {c.amount : c \in Calls} : n <= MaxIssuance} \cup {0})
        IN  recorded["issue"] <= MaxIssuance + (Cardinality(Callers) - 1) * largest

\* The books of the ledger, under any interleaving and failure: types, no point
\* from nowhere, records that match the payments, and a bounded overshoot.
BooksAreSound ==
    TypeOK /\ PointsAccountedFor /\ BackedRecords /\ IssuanceOvershootBounded

\* While a department's calls run one at a time, are neither cut off nor
\* refused by the ledger, and nothing else touches its account, the cached
\* balance is the ledger's; opening the panel alone restores that.
GovernanceFollowsLedger ==
    \A d \in clean :
        (\A p \in Active : d \notin Touches(call[p])) => gov[d] = ledger[d]

\* A transfer that waits, on another connection, for a row that the transaction
\* of its own call has locked (by a grant): nothing ever ends that wait.
WaitsForItself(p) ==
    at[p] \in {"borrow", "payout"} /\ draft[p].locks \cap PayRows(p) # {}

\* With a pool larger than the number of callers every call ends, in spite of
\* nested connections, row locks and deadlocks, unless one waits for itself.
CallsFinish ==
    \A p \in Callers :
        at[p] # "idle" ~> at[p] = "idle" \/ \E q \in Callers : WaitsForItself(q)

=============================================================================

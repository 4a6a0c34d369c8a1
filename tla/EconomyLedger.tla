--------------------------- MODULE EconomyLedger ---------------------------
(***************************************************************************)
(* What the economy ledger promises: every transfer and every adjustment   *)
(* takes effect at once, writes one audit row, never overdraws an account  *)
(* and never takes a member past the daily limit.                          *)
(*                                                                         *)
(* fn_transfer_currency and fn_adjust_balance are modelled here as single  *)
(* atomic steps on committed data; LedgerTransactions shows that the SQL   *)
(* functions, run as concurrent transactions under row locks, implement    *)
(* this module.                                                            *)
(***************************************************************************)
EXTENDS Integers, FiniteSets, FiniteSetsExt

CONSTANTS
    Members,        \* accounts (member_id) of one guild
    Government,     \* accounts listed in governance.government_accounts
    TxIds,          \* identities of the operations, and of their audit rows
    Requests,       \* the calls that clients may make, see RequestType
    InitialBalance, \* balances the checked instance starts from
    DailyLimit,     \* app.transfer_daily_limit as the session sees it, 0: none
    MaxDay          \* bound: the last day the checked instance reaches

Days == 0..MaxDay

(***************************************************************************)
(* A call of fn_transfer_currency (by pays to) or of fn_adjust_balance (by *)
(* is the administrator, to the account, and a negative amount deducts).   *)
(***************************************************************************)
RequestType ==
    [op: {"transfer", "adjust"}, by: Members, to: Members,
     amount: Int, reason: BOOLEAN]

ASSUME GovernmentAssumption == Government \subseteq Members
ASSUME RequestsAssumption == Requests \subseteq RequestType
ASSUME BalanceAssumption == InitialBalance \in [Members -> Nat]
ASSUME LimitAssumption == DailyLimit \in Nat /\ MaxDay \in Nat

VARIABLES
    balance, \* guild_member_balances.current_balance, committed
    log,     \* currency_transactions: the audit rows, committed
    day      \* the current UTC day

ledgerVars == <<balance, log, day>>

-----------------------------------------------------------------------------
(* Requests and the audit trail *)

\* The argument checks at the head of the two functions.
Valid(r) ==
    IF r.op = "transfer" THEN r.by # r.to /\ r.amount > 0
                         ELSE r.reason /\ r.amount # 0

Abs(n) == IF n < 0 THEN -n ELSE n

\* Mutant of Direction: a deduction is recorded as a grant.
DirectionOfGrant(r) ==
    IF r.op = "transfer" THEN "transfer" ELSE "adjustment_grant"

Direction(r) ==
    IF r.op = "transfer" THEN "transfer"
    ELSE IF r.amount > 0 THEN "adjustment_grant" ELSE "adjustment_deduct"

\* The row of currency_transactions that operation x leaves behind.  Its day
\* is that of created_at, by default now(): when the transaction began.  The
\* function runs by another clock, clock_timestamp() when it was called; that
\* day, checked, is history: no column has it.
AuditRow(x, r, began, checked, after) ==
    [id |-> x, direction |-> Direction(r), initiator |-> r.by, target |-> r.to,
     amount |-> Abs(r.amount), day |-> began, checked |-> checked,
     balance_after_target |-> after]

Total(S) == MapThenSumSet(LAMBDA row: row.amount, S)

\* SELECT SUM(amount) ... direction = 'transfer' AND created_at >= the day d.
TransfersSince(rows, m, d) ==
    {row \in rows : /\ row.direction = "transfer"
                    /\ row.initiator = m
                    /\ row.day >= d}

TotalToday(rows, m, d) == Total(TransfersSince(rows, m, d))

\* Government accounts are exempt, and a limit of 0 means no limit.
WithinLimit(rows, r, d) ==
    \/ r.by \in Government
    \/ DailyLimit = 0
    \/ TotalToday(rows, r.by, d) + r.amount <= DailyLimit

-----------------------------------------------------------------------------
LedgerInit ==
    /\ balance = InitialBalance
    /\ log = {}
    /\ day = 0

Fresh(x) == \A row \in log : row.id # x

\* A transfer commits: its transaction began on day b, its limit was checked
\* against the day d of its call, and today may be later still.
Transfer(x, r, b, d) ==
    /\ r.op = "transfer" /\ Valid(r) /\ Fresh(x)
    /\ WithinLimit(log, r, d)
    /\ balance[r.by] >= r.amount
    /\ balance' = [balance EXCEPT ![r.by] = @ - r.amount,
                                  ![r.to] = @ + r.amount]
    /\ log' = log \cup {AuditRow(x, r, b, d, balance[r.to] + r.amount)}
    /\ UNCHANGED day

\* A grant, or a deduction that the account covers.
Adjust(x, r, b, d) ==
    /\ r.op = "adjust" /\ Valid(r) /\ Fresh(x)
    /\ balance[r.to] + r.amount >= 0
    /\ balance' = [balance EXCEPT ![r.to] = @ + r.amount]
    /\ log' = log \cup {AuditRow(x, r, b, d, balance[r.to] + r.amount)}
    /\ UNCHANGED day

\* An operation whose function is called today; its transaction may have
\* begun before the last midnight.
BegunBy(d) == {b \in Days : b \in {d - 1, d}}
TransferNow(x, r) == \E b \in BegunBy(day) : Transfer(x, r, b, day)
AdjustNow(x, r) == \E b \in BegunBy(day) : Adjust(x, r, b, day)

NextDay ==
    /\ day < MaxDay
    /\ day' = day + 1
    /\ UNCHANGED <<balance, log>>

LedgerNext ==
    \/ \E x \in TxIds, r \in Requests, d \in 0..day : \E b \in 0..d :
           Transfer(x, r, b, d) \/ Adjust(x, r, b, d)
    \/ NextDay

LedgerSpec == LedgerInit /\ [][LedgerNext]_ledgerVars

-----------------------------------------------------------------------------
(* Properties *)

LedgerTypeOK ==
    /\ balance \in [Members -> Int]
    /\ log \subseteq [id: TxIds,
                      direction: {"transfer", "adjustment_grant",
                                  "adjustment_deduct"},
                      initiator: Members, target: Members, amount: Nat,
                      day: Days, checked: Days, balance_after_target: Int]
    /\ day \in Days

Received(rows, m) ==
    Total({row \in rows : row.target = m /\ row.direction # "adjustment_deduct"})

Spent(rows, m) ==
    Total({row \in rows : \/ row.initiator = m /\ row.direction = "transfer"
                          \/ row.target = m
                             /\ row.direction = "adjustment_deduct"})

(***************************************************************************)
(* The audit trail accounts for every point: whatever mix of transfers and *)
(* adjustments committed, an account's balance is its initial balance plus *)
(* what the audit rows say it received minus what they say it spent.       *)
(***************************************************************************)
AuditExplainsBalances ==
    \A m \in Members :
        balance[m] = InitialBalance[m] + Received(log, m) - Spent(log, m)

\* A transaction that began before midnight, in which the function was called
\* after it: dated the old day, checked against the new one, so that neither
\* day's sum has it when the limit of that day is checked.
Straddles(row) == row.day < row.checked

(***************************************************************************)
(* The transfers a member made on one day, summed over the audit rows      *)
(* dated that day, never exceed the daily limit, those that straddle       *)
(* midnight apart; and no transfer, a straddling one included, exceeds it  *)
(* by itself.  Government accounts are exempt.                             *)
(***************************************************************************)
DailyLimitRespected ==
    DailyLimit = 0 \/
    \A m \in Members \ Government :
        /\ \A d \in Days :
              Total({row \in TransfersSince(log, m, d) :
                        row.day = d /\ ~Straddles(row)}) <= DailyLimit
        /\ \A row \in TransfersSince(log, m, 0) : row.amount <= DailyLimit

=============================================================================

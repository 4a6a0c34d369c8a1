------------------------ MODULE LedgerTransactions -------------------------
(***************************************************************************)
(* fn_transfer_currency and fn_adjust_balance as PostgreSQL runs them: one *)
(* transaction per call, one step per SQL statement, READ COMMITTED, row   *)
(* locks held to the end of the transaction, foreign keys of the audit     *)
(* table, and a deadlock detector that aborts a victim.                    *)
(*                                                                         *)
(* Uncommitted data lives in txn[x].write and becomes visible at commit; a *)
(* RAISE, a deadlock or a lost connection discards it.                     *)
(***************************************************************************)
EXTENDS Integers, FiniteSets, FiniteSetsExt

CONSTANTS Members, Government, TxIds, Requests, InitialBalance, DailyLimit,
          MaxDay,
          InitialRows, \* accounts whose balance row exists at the start
          NoTx,        \* holder of a row nobody has locked
          NoWrite      \* a balance the transaction has not written

ASSUME NoTxAssumption == NoTx \notin TxIds
ASSUME NoWriteAssumption == NoWrite \notin Int
ASSUME AccountsAssumption == Government \subseteq Members
ASSUME RequestsAssumption ==
    Requests \subseteq [op: {"transfer", "adjust"}, by: Members, to: Members,
                        amount: Int, reason: BOOLEAN]
ASSUME BalanceAssumption == InitialBalance \in [Members -> Nat]
ASSUME LimitAssumption == DailyLimit \in Nat /\ MaxDay \in Nat
ASSUME InitialRowsAssumption ==
    /\ InitialRows \subseteq Members
    /\ \A m \in Members \ InitialRows : InitialBalance[m] = 0

VARIABLES
    rows, \* guild_member_balances, committed: exists, balance, throttled
    log,  \* currency_transactions, committed
    day,  \* the current UTC day
    lock, \* lock[m]: the transaction that locked, or inserted, row m
    txn   \* txn[x]: what the running call x knows and has written

vars == <<rows, log, day, lock, txn>>

Balances == [m \in Members |-> rows[m].balance]

\* The ledger as a reader of committed data sees it.
Ledger == INSTANCE EconomyLedger WITH balance <- Balances

-----------------------------------------------------------------------------
(* Transactions *)

Running == {"begun", "ensure_by", "ensure_to", "lock", "check", "throttle",
            "update", "insert"}

Outcomes == {"none", "committed", "invalid", "throttled", "limit", "funds",
             "deadlock", "lost"}

TxnType ==
    [pc: {"idle", "done"} \cup Running,
     req: Requests,
     began: 0..MaxDay,                \* now(), truncated to the day
     today: 0..MaxDay,                \* v_now, truncated to the day
     read: Int,                       \* balance read FOR UPDATE
     write: [Members -> Int \cup {NoWrite}], \* uncommitted balances
     outcome: Outcomes]

\* Mutant of LocksForUpdate: a deduction updates without lock and check.
LocksTransfersOnly(r) == r.op = "transfer"

\* The row a call locks with SELECT ... FOR UPDATE, if it does.
LocksForUpdate(r) == r.op = "transfer" \/ r.amount < 0
ForUpdateRow(r) == IF r.op = "transfer" THEN r.by ELSE r.to

\* y keeps x from taking the row lock that x's next statement needs.
Blocks(y, x) ==
    LET r == txn[x].req
        Holds(m) == y # x /\ lock[m] = y
    IN  \/ txn[x].pc = "ensure_by" /\ ~rows[r.by].exists /\ Holds(r.by)
        \/ txn[x].pc = "ensure_to" /\ ~rows[r.to].exists /\ Holds(r.to)
        \/ txn[x].pc = "lock" /\ Holds(ForUpdateRow(r))
        \/ txn[x].pc = "update" /\ Holds(r.to)
        \* fk_currency_transactions_initiator: FOR KEY SHARE on the row of
        \* the administrator, which only a FOR UPDATE lock excludes
        \/ /\ txn[x].pc = "insert" /\ r.op = "adjust" /\ Holds(r.by)
           /\ LocksForUpdate(txn[y].req) /\ ForUpdateRow(txn[y].req) = r.by

Blocked(x) == \E y \in TxIds : Blocks(y, x)

\* x waits, directly or not, for a transaction that waits for it.
Deadlocked(x) ==
    \E S \in SUBSET TxIds :
        x \in S /\ \A s \in S : \E y \in S : Blocks(y, s)

At(x, pc) == txn[x].pc = pc /\ ~Blocked(x)

Goto(x, pc) == txn' = [txn EXCEPT ![x].pc = pc]

\* The balance that a statement of x sees: its own write, else committed.
Seen(x, m) ==
    IF txn[x].write[m] # NoWrite THEN txn[x].write[m] ELSE rows[m].balance

Take(x, m) == lock' = [lock EXCEPT ![m] = x]

Released(x) == [m \in Members |-> IF lock[m] = x THEN NoTx ELSE lock[m]]

-----------------------------------------------------------------------------
(* Begin and end *)

\* A call that has read and written nothing yet, or whose session is over.
Knowing(r, pc, outcome) ==
    [pc |-> pc, req |-> r, began |-> 0, today |-> 0, read |-> 0,
     write |-> [m \in Members |-> NoWrite], outcome |-> outcome]

Init ==
    /\ rows = [m \in Members |-> [exists |-> m \in InitialRows,
                                  balance |-> InitialBalance[m],
                                  throttled |-> FALSE]]
    /\ log = {}
    /\ day = 0
    /\ lock = [m \in Members |-> NoTx]
    /\ txn \in [TxIds -> {Knowing(r, "idle", "none") : r \in Requests}]

\* Mutant of Abort: the row locks outlive the transaction.
AbortHoldingLocks(x, why) ==
    /\ txn' = [txn EXCEPT ![x] = Knowing(@.req, "done", why)]
    /\ UNCHANGED <<rows, log, day, lock>>

\* A RAISE, or whatever else ends a transaction without committing it.
Abort(x, why) ==
    /\ txn' = [txn EXCEPT ![x] = Knowing(@.req, "done", why)]
    /\ lock' = Released(x)
    /\ UNCHANGED <<rows, log, day>>

\* BEGIN, of the service's transaction or its caller's: now() stands still
\* from here.
Begin(x) ==
    /\ txn[x].pc = "idle"
    /\ txn' = [txn EXCEPT ![x].pc = "begun", ![x].began = day]
    /\ UNCHANGED <<rows, log, day, lock>>

\* The function is called: v_now is read, then the arguments are checked.
Call(x) ==
    /\ txn[x].pc = "begun"
    /\ Ledger!Valid(txn[x].req)
    /\ txn' = [txn EXCEPT ![x].pc = "ensure_by", ![x].today = day]
    /\ UNCHANGED <<rows, log, day, lock>>

Refuse(x) ==
    /\ txn[x].pc = "begun"
    /\ ~Ledger!Valid(txn[x].req)
    /\ Abort(x, "invalid")

\* Mutant of Inserted: created_at is when the row is inserted.
InsertedNow(x) ==
    Ledger!AuditRow(x, txn[x].req, day, txn[x].today, txn[x].write[txn[x].req.to])

\* The audit row of x, dated by default, with the target's new balance.
Inserted(x) ==
    Ledger!AuditRow(x, txn[x].req, txn[x].began, txn[x].today, txn[x].write[txn[x].req.to])

Commit(x) ==
    LET r == txn[x].req
    IN  /\ At(x, "insert")
        /\ log' = log \cup {Inserted(x)}
        /\ rows' = [m \in Members |->
              [exists |-> rows[m].exists \/ lock[m] = x,
               balance |-> Seen(x, m),
               throttled |-> /\ rows[m].throttled
                             /\ ~(r.op = "transfer" /\ m = r.by)]]
        /\ txn' = [txn EXCEPT ![x] = Knowing(r, "done", "committed")]
        /\ lock' = Released(x)
        /\ UNCHANGED day

-----------------------------------------------------------------------------
(* Statements *)

\* INSERT ... ON CONFLICT DO NOTHING: a new row is locked until the end of
\* the transaction that inserted it; an existing one is left alone.
EnsureRow(x, m, next) ==
    /\ IF rows[m].exists THEN UNCHANGED lock ELSE Take(x, m)
    /\ Goto(x, next)
    /\ UNCHANGED <<rows, log, day>>

EnsureBy(x) ==
    /\ At(x, "ensure_by")
    /\ EnsureRow(x, txn[x].req.by, "ensure_to")

EnsureTo(x) ==
    /\ At(x, "ensure_to")
    /\ EnsureRow(x, txn[x].req.to,
                 IF LocksForUpdate(txn[x].req) THEN "lock" ELSE "update")

\* Mutant of LockRow: a plain SELECT.
ReadRow(x) ==
    /\ txn[x].pc = "lock"
    /\ txn' = [txn EXCEPT ![x].pc = "check",
                          ![x].read = Seen(x, ForUpdateRow(txn[x].req))]
    /\ UNCHANGED <<rows, log, day, lock>>

\* SELECT current_balance ... FOR UPDATE
LockRow(x) ==
    LET m == ForUpdateRow(txn[x].req)
    IN  /\ At(x, "lock")
        /\ Take(x, m)
        /\ txn' = [txn EXCEPT ![x].pc = "check",
                              ![x].read = Seen(x, m)]
        /\ UNCHANGED <<rows, log, day>>

\* The verdict of the checks of fn_transfer_currency, in the order of the
\* code: cooldown, daily limit, balance.
Verdict(x) ==
    LET r == txn[x].req
    IN  IF r.by \notin Government /\ rows[r.by].throttled THEN "throttled"
        ELSE IF ~Ledger!WithinLimit(log, r, txn[x].today) THEN "limit"
        ELSE IF txn[x].read < r.amount THEN "funds"
        ELSE "pass"

CheckTransfer(x) ==
    /\ At(x, "check") /\ txn[x].req.op = "transfer"
    /\ Verdict(x) \in {"throttled", "funds"}
    /\ Abort(x, Verdict(x))

\* The member is over the limit: fn_record_throttle sets the cooldown and
\* writes a throttle row, uncommitted ...
RecordThrottle(x) ==
    /\ At(x, "check") /\ txn[x].req.op = "transfer"
    /\ Verdict(x) = "limit"
    /\ Goto(x, "throttle")
    /\ UNCHANGED <<rows, log, day, lock>>

\* ... and the RAISE right after it rolls both back.
RaiseLimit(x) ==
    /\ At(x, "throttle")
    /\ Abort(x, "limit")

Debit(x) ==
    LET r == txn[x].req
    IN  /\ At(x, "check") /\ r.op = "transfer"
        /\ Verdict(x) = "pass"
        /\ txn' = [txn EXCEPT ![x].pc = "update",
                              ![x].write[r.by] = Seen(x, r.by) - r.amount]
        /\ UNCHANGED <<rows, log, day, lock>>

\* A deduction must not take the balance below zero.
DenyDeduct(x) ==
    /\ At(x, "check") /\ txn[x].req.op = "adjust"
    /\ txn[x].read + txn[x].req.amount < 0
    /\ Abort(x, "funds")

AllowDeduct(x) ==
    /\ At(x, "check") /\ txn[x].req.op = "adjust"
    /\ txn[x].read + txn[x].req.amount >= 0
    /\ Goto(x, "update")
    /\ UNCHANGED <<rows, log, day, lock>>

\* Mutant of UpdateTarget: the row is not kept locked to the commit.
UpdateTargetUnlocked(x) ==
    LET r == txn[x].req
    IN  /\ At(x, "update")
        /\ txn' = [txn EXCEPT ![x].pc = "insert",
                              ![x].write[r.to] = Seen(x, r.to) + r.amount]
        /\ UNCHANGED <<rows, log, day, lock>>

\* UPDATE of the target's balance, relative to the latest committed value.
UpdateTarget(x) ==
    LET r == txn[x].req
    IN  /\ At(x, "update")
        /\ Take(x, r.to)
        /\ txn' = [txn EXCEPT ![x].pc = "insert",
                              ![x].write[r.to] = Seen(x, r.to) + r.amount]
        /\ UNCHANGED <<rows, log, day>>

Statement(x) ==
    \/ Begin(x) \/ Call(x) \/ Refuse(x) \/ EnsureBy(x) \/ EnsureTo(x)
    \/ LockRow(x) \/ CheckTransfer(x) \/ RecordThrottle(x) \/ RaiseLimit(x)
    \/ Debit(x) \/ DenyDeduct(x) \/ AllowDeduct(x) \/ UpdateTarget(x)
    \/ Commit(x)

\* deadlock_timeout expires and PostgreSQL aborts a member of the cycle.
Deadlock(x) ==
    /\ txn[x].pc \in Running
    /\ Deadlocked(x)
    /\ Abort(x, "deadlock")

\* The bot crashes or its connection drops; the server rolls back.
Disconnect(x) ==
    /\ txn[x].pc \in Running
    /\ Abort(x, "lost")

NextDay ==
    /\ day < MaxDay
    /\ day' = day + 1
    /\ UNCHANGED <<rows, log, lock, txn>>

Next ==
    \/ \E x \in TxIds : Statement(x) \/ Deadlock(x) \/ Disconnect(x)
    \/ NextDay

Spec == Init /\ [][Next]_vars

\* The server keeps executing a statement that is not blocked, and breaks
\* every deadlock; nothing forces a connection to drop.
FairSpec ==
    Spec /\ \A x \in TxIds : WF_vars(Statement(x)) /\ WF_vars(Deadlock(x))

-----------------------------------------------------------------------------
(* Properties *)

TypeOK ==
    /\ rows \in [Members -> [exists: BOOLEAN, balance: Int, throttled: BOOLEAN]]
    /\ day \in 0..MaxDay
    /\ lock \in [Members -> TxIds \cup {NoTx}]
    /\ txn \in [TxIds -> TxnType]
    /\ Ledger!LedgerTypeOK

(***************************************************************************)
(* What fn_transfer_currency and a deduction read FOR UPDATE is still the  *)
(* committed balance when they write: no concurrent transfer, grant or     *)
(* deduction can slip in between the check and the UPDATE.                 *)
(***************************************************************************)
ReadsStayTrue ==
    \A x \in TxIds :
        LET r == txn[x].req
        IN  (LocksForUpdate(r) /\ txn[x].pc \in {"check", "update", "insert"})
                => rows[ForUpdateRow(r)].balance = txn[x].read

(***************************************************************************)
(* The limit check does not go stale: a transfer that passed it is still   *)
(* within the limit when its audit row is written, although other          *)
(* transactions commit audit rows, and midnight may pass, in between.      *)
(***************************************************************************)
LimitCheckStaysTrue ==
    \A x \in TxIds :
        (txn[x].req.op = "transfer" /\ txn[x].pc \in {"update", "insert"})
            => Ledger!WithinLimit(log, txn[x].req, txn[x].today)

(***************************************************************************)
(* Interleaved, blocked, aborted as they may be, the transactions act on   *)
(* the committed data like the atomic operations of EconomyLedger.         *)
(***************************************************************************)
ImplementsLedger == Ledger!LedgerSpec

(***************************************************************************)
(* Whatever runs concurrently, is cut off or crosses midnight: the audit   *)
(* trail explains every balance, the transfers of a member dated on one    *)
(* day stay within the limit, but for those whose transaction began before *)
(* midnight and called the function after it, and each of these alone does *)
(* (see EconomyLedger).                                                    *)
(***************************************************************************)
AuditTrailIsSound == Ledger!AuditExplainsBalances /\ Ledger!DailyLimitRespected

(***************************************************************************)
(* No committed balance is negative, by the locking of the two functions   *)
(* alone: the model leaves out the table's CHECK constraint, which would   *)
(* turn a mistake of theirs into an error.                                 *)
(***************************************************************************)
NoOverdraft == \A m \in Members : rows[m].balance >= 0

-----------------------------------------------------------------------------
(* The inductive invariant behind the safety properties *)

Sleeping == {"idle", "begun", "ensure_by", "ensure_to", "lock", "check", "throttle"}
Writing == {"update", "insert"}

\* x holds the rows whose values it has read or written.
HoldsItsRows(x) ==
    LET r == txn[x].req
    IN  /\ (LocksForUpdate(r) /\ txn[x].pc \in {"check", "throttle"} \cup Writing)
              => lock[ForUpdateRow(r)] = x
        /\ txn[x].pc = "insert" => lock[r.to] = x

\* What x is about to commit, in terms of the committed balances: the payer
\* is debited, then the target credited, and nothing else is written.
WritesWhatItShould(x) ==
    LET r == txn[x].req
        Debited(m) == r.op = "transfer" /\ m = r.by
        Credited(m) == txn[x].pc = "insert" /\ m = r.to
    IN  /\ txn[x].pc \in Sleeping => \A m \in Members : txn[x].write[m] = NoWrite
        /\ txn[x].pc \in Writing =>
              \A m \in Members :
                  /\ Debited(m) =>
                        txn[x].write[m] = rows[m].balance - r.amount
                  /\ Credited(m) =>
                        txn[x].write[m] = rows[m].balance + r.amount
                  /\ ~Debited(m) /\ ~Credited(m) => txn[x].write[m] = NoWrite

\* What the checks of x established still holds while it writes.
ChecksStillHold(x) ==
    LET r == txn[x].req
    IN  /\ txn[x].pc \in Running \ {"begun"} =>
              Ledger!Valid(r) /\ txn[x].began <= txn[x].today
        /\ txn[x].pc \in {"lock", "check", "throttle"} => LocksForUpdate(r)
        /\ txn[x].pc = "throttle" => r.op = "transfer"
        /\ (txn[x].pc \in {"check"} \cup Writing /\ LocksForUpdate(r))
              => rows[ForUpdateRow(r)].balance = txn[x].read
        /\ (txn[x].pc \in Writing /\ r.op = "transfer")
              => /\ txn[x].read >= r.amount
                 /\ Ledger!WithinLimit(log, r, txn[x].today)
        /\ (txn[x].pc \in Writing /\ r.op = "adjust" /\ r.amount < 0)
              => txn[x].read + r.amount >= 0
        /\ txn[x].began <= day /\ txn[x].today <= day

TxnInv(x) ==
    /\ HoldsItsRows(x)
    /\ WritesWhatItShould(x)
    /\ ChecksStillHold(x)
    /\ txn[x].pc # "done" => \A row \in log : row.id # x

(***************************************************************************)
(* Strict two-phase locking at work: while a call writes, it holds every   *)
(* row it read or wrote, its uncommitted balances are the committed ones   *)
(* plus and minus the amount, and everything it checked is still true.     *)
(***************************************************************************)
LockingInv == NoOverdraft /\ \A x \in TxIds : TxnInv(x)

-----------------------------------------------------------------------------
(* Liveness *)

(***************************************************************************)
(* Every call that has begun ends: opposite transfers, or a transfer to an *)
(* account an administrator is adjusting, may deadlock on row locks, but a *)
(* victim is aborted and the others go on.                                 *)
(***************************************************************************)
EveryCallEnds ==
    \A x \in TxIds : (txn[x].pc \in Running) ~> (txn[x].pc = "done")

=============================================================================

--------------------- MODULE LedgerTransactions_proofs ---------------------
(***************************************************************************)
(* Proofs about LedgerTransactions for any members, calls and limit: the   *)
(* type invariant, the locking invariant and the safety properties that    *)
(* follow from it, that the transactions implement EconomyLedger, and that *)
(* the audit trail explains the balances.                                  *)
(*                                                                         *)
(* The argument is that of two-phase locking.  A step of x leaves alone    *)
(* everything another transaction y relies on, because y has locked it     *)
(* (OthersUndisturbed); and each statement of x establishes what the next  *)
(* one relies on (WorkingStep).  The audit trail is argued about on the    *)
(* atomic operations of EconomyLedger, to which every step is reduced.     *)
(***************************************************************************)
EXTENDS LedgerTransactions, FiniteSetTheorems, WellFoundedInduction, TLAPS

ConstantAssumptions ==
    /\ NoTx \notin TxIds
    /\ NoWrite \notin Int
    /\ Government \subseteq Members
    /\ Requests \subseteq [op: {"transfer", "adjust"}, by: Members,
                           to: Members, amount: Int, reason: BOOLEAN]
    /\ InitialBalance \in [Members -> Nat]
    /\ DailyLimit \in Nat /\ MaxDay \in Nat

\* The assumptions on the constants, in one citation.
LEMMA Constants == ConstantAssumptions
BY NoTxAssumption, NoWriteAssumption, AccountsAssumption, RequestsAssumption,
   BalanceAssumption, LimitAssumption DEF ConstantAssumptions

\* Everything that is inductive together.
Inv == TypeOK /\ LockingInv

Step(x) == Statement(x) \/ Deadlock(x) \/ Disconnect(x)

-----------------------------------------------------------------------------
(* Lemmas about single steps *)

\* A free lock is either nobody's or already x's.
LEMMA TakesFreeRow ==
    ASSUME TypeOK, NEW x \in TxIds, NEW m \in Members,
           \A y \in TxIds : ~(y # x /\ lock[m] = y)
    PROVE  lock[m] \in {x, NoTx}
BY DEF TypeOK

\* What the rest of the system may see of a step of x.
Frame(x) ==
    /\ \A y \in TxIds \ {x} :
          /\ txn'[y] = txn[y]
          /\ \A m \in Members : lock[m] = y => /\ lock'[m] = y
                                               /\ rows'[m] = rows[m]
    /\ day' = day
    /\ \/ log' = log
       \/ /\ txn[x].pc = "insert"
          /\ log' = log \cup {Ledger!AuditRow(x, txn[x].req, txn[x].began,
                                              txn[x].today, txn[x].write[txn[x].req.to])}

\* Aborting is harmless whatever the reason, and wherever x stood.
LEMMA AbortStep ==
    ASSUME Inv, NEW x \in TxIds, NEW why \in Outcomes, Abort(x, why)
    PROVE  TypeOK' /\ Frame(x) /\ TxnInv(x)'
<1> TypeOK /\ ChecksStillHold(x) /\ ConstantAssumptions
  BY Constants DEF Inv, LockingInv, TxnInv
<1>1. TypeOK'
  <2>1. txn' \in [TxIds -> TxnType]
    <3>1. Knowing(txn[x].req, "done", why) \in TxnType
      BY DEF TypeOK, TxnType, Knowing, ConstantAssumptions
    <3>2. txn' = [txn EXCEPT ![x] = Knowing(txn[x].req, "done", why)]
      BY DEF Abort
    <3> QED  BY <3>1, <3>2 DEF TypeOK
  <2>2. lock' \in [Members -> TxIds \cup {NoTx}]
    BY DEF Abort, Released, TypeOK
  <2>3. Ledger!LedgerTypeOK'
    BY DEF Abort, TypeOK, Balances, Ledger!LedgerTypeOK, Ledger!Days
  <2>4. UNCHANGED <<rows, day>>
    BY DEF Abort
  <2> QED  BY <2>1, <2>2, <2>3, <2>4 DEF TypeOK
<1>2. Frame(x)
  BY DEF Abort, Released, Frame, TypeOK, ConstantAssumptions
<1>3. /\ txn'[x].pc = "done" /\ txn'[x].began = 0 /\ txn'[x].today = 0
      /\ day' = day /\ day \in 0..MaxDay
  BY DEF Abort, TypeOK, Knowing
<1>4. TxnInv(x)'
  BY <1>3 DEF TxnInv, HoldsItsRows, WritesWhatItShould, ChecksStillHold, Sleeping,
         Writing, Running
<1> QED BY <1>1, <1>2, <1>4

AbortsNow(x) == \E why \in Outcomes : Abort(x, why)

\* The six ways to abort.
LEMMA AbortingSteps ==
    ASSUME NEW x \in TxIds,
           \/ Refuse(x) \/ CheckTransfer(x) \/ RaiseLimit(x) \/ DenyDeduct(x)
           \/ Deadlock(x) \/ Disconnect(x)
    PROVE  AbortsNow(x)
BY DEF Refuse, CheckTransfer, RaiseLimit, DenyDeduct, Deadlock, Disconnect,
       Outcomes, AbortsNow

\* The steps that change only txn[x], and possibly take a row.
Working(x) ==
    \/ Begin(x) \/ Call(x) \/ EnsureBy(x) \/ EnsureTo(x) \/ LockRow(x)
    \/ RecordThrottle(x) \/ Debit(x) \/ AllowDeduct(x) \/ UpdateTarget(x)

LEMMA StepCases ==
    ASSUME NEW x \in TxIds, Step(x)
    PROVE  Working(x) \/ Commit(x) \/ AbortsNow(x)
BY AbortingSteps DEF Step, Statement, Working

LEMMA WorkingFrame ==
    ASSUME Inv, NEW x \in TxIds, Working(x)
    PROVE  Frame(x) /\ rows' = rows /\ log' = log /\ day' = day
<1> TypeOK /\ ConstantAssumptions
  BY Constants DEF Inv
<1>1. CASE Begin(x) \/ Call(x)
  BY <1>1 DEF Begin, Call, Frame, TypeOK
<1>2. CASE EnsureBy(x)
  BY <1>2 DEF EnsureBy, EnsureRow, At, Blocked, Blocks, Goto, Take, Frame, TypeOK
<1>3. CASE EnsureTo(x)
  BY <1>3 DEF EnsureTo, EnsureRow, At, Blocked, Blocks, Goto, Take, Frame, TypeOK
<1>4. CASE LockRow(x)
  BY <1>4 DEF LockRow, At, Blocked, Blocks, Take, Frame, TypeOK
<1>5. CASE RecordThrottle(x)
  BY <1>5 DEF RecordThrottle, Goto, Frame, TypeOK
<1>6. CASE Debit(x)
  BY <1>6 DEF Debit, Frame, TypeOK
<1>7. CASE AllowDeduct(x)
  BY <1>7 DEF AllowDeduct, Goto, Frame, TypeOK
<1>8. CASE UpdateTarget(x)
  BY <1>8 DEF UpdateTarget, At, Blocked, Blocks, Take, Frame, TypeOK
<1> QED
  BY <1>1, <1>2, <1>3, <1>4, <1>5, <1>6, <1>7, <1>8 DEF Working

-----------------------------------------------------------------------------
(* What a step of x leaves to the others *)

\* The transfers of a member, as its limit check sums them, change only by a
\* row of a transfer of that member.
LEMMA TransfersUnchanged ==
    ASSUME NEW S, NEW row, NEW m, NEW d,
           row.direction # "transfer" \/ row.initiator # m
    PROVE  Ledger!TransfersSince(S \cup {row}, m, d)
               = Ledger!TransfersSince(S, m, d)
BY DEF Ledger!TransfersSince

\* While y has locked its payer's row, nobody else commits a transfer from it.
LEMMA LimitUndisturbed ==
    ASSUME Inv, NEW x \in TxIds, Frame(x), NEW y \in TxIds \ {x},
           txn[y].req.op = "transfer", lock[txn[y].req.by] = y,
           Ledger!WithinLimit(log, txn[y].req, txn[y].today)
    PROVE  Ledger!WithinLimit(log', txn[y].req, txn[y].today)
<1> DEFINE r == txn[x].req
           by == txn[y].req.by
           row == Ledger!AuditRow(x, r, txn[x].began, txn[x].today,
                                  txn[x].write[r.to])
<1>1. CASE log' = log
  BY <1>1
<1>2. CASE log' = log \cup {row} /\ txn[x].pc = "insert"
  <2>1. HoldsItsRows(x)
    BY DEF Inv, LockingInv, TxnInv
  <2>2. r.op = "transfer" => r.by # by
    BY <1>2, <2>1 DEF HoldsItsRows, LocksForUpdate, ForUpdateRow, Writing
  <2>3. row.direction # "transfer" \/ row.initiator # by
    BY <2>2 DEF Ledger!AuditRow, Ledger!Direction
  <2>4. Ledger!TransfersSince(log', by, txn[y].today)
           = Ledger!TransfersSince(log, by, txn[y].today)
    BY <1>2, <2>3, TransfersUnchanged
  <2> QED
    BY <2>4 DEF Ledger!WithinLimit, Ledger!TotalToday
<1> QED BY <1>1, <1>2 DEF Frame

LEMMA OthersUndisturbed ==
    ASSUME Inv, NEW x \in TxIds, Frame(x), NEW y \in TxIds \ {x}
    PROVE  TxnInv(y)'
<1> USE DEF Frame
<1> DEFINE r == txn[y].req
<1>0. TypeOK /\ TxnInv(y) /\ txn'[y] = txn[y] /\ day' = day
  BY DEF Inv, LockingInv
<1>1. /\ r \in Requests /\ r.by \in Members /\ r.to \in Members
      /\ ForUpdateRow(r) \in Members
  BY <1>0, Constants DEF TypeOK, TxnType, ConstantAssumptions, ForUpdateRow
<1>2. HoldsItsRows(y)'
  BY <1>0, <1>1 DEF TxnInv, HoldsItsRows
<1>3. WritesWhatItShould(y)'
  <2>1. ASSUME txn[y].pc \in Writing, NEW m \in Members,
               (r.op = "transfer" /\ m = r.by) \/ (txn[y].pc = "insert" /\ m = r.to)
        PROVE  rows'[m] = rows[m]
    BY <1>0, <2>1 DEF TxnInv, HoldsItsRows, LocksForUpdate, ForUpdateRow
  <2> QED BY <1>0, <2>1 DEF TxnInv, WritesWhatItShould
<1>4. ChecksStillHold(y)'
  <2>1. (txn[y].pc \in {"check"} \cup Writing /\ LocksForUpdate(r))
           => rows'[ForUpdateRow(r)] = rows[ForUpdateRow(r)]
    BY <1>0, <1>1 DEF TxnInv, HoldsItsRows
  <2>2. (txn[y].pc \in Writing /\ r.op = "transfer")
           => Ledger!WithinLimit(log', r, txn[y].today)
    <3> HAVE txn[y].pc \in Writing /\ r.op = "transfer"
    <3>1. lock[r.by] = y
      BY <1>0 DEF TxnInv, HoldsItsRows, LocksForUpdate, ForUpdateRow
    <3>2. Ledger!WithinLimit(log, r, txn[y].today)
      BY <1>0 DEF TxnInv, ChecksStillHold
    <3> QED BY <3>1, <3>2, LimitUndisturbed
  <2> QED BY <1>0, <2>1, <2>2 DEF TxnInv, ChecksStillHold
<1>5. txn'[y].pc # "done" => \A row \in log' : row.id # y
  BY <1>0 DEF TxnInv, Ledger!AuditRow
<1> QED BY <1>2, <1>3, <1>4, <1>5 DEF TxnInv

-----------------------------------------------------------------------------
(* What a step of x establishes for x itself *)

\* Writing a balance keeps a transaction well typed.
LEMMA WriteType ==
    ASSUME NEW t \in TxnType, NEW m \in Members, NEW v \in Int,
           NEW pc \in {"update", "insert"}
    PROVE  [t EXCEPT !.pc = pc, !.write = [t.write EXCEPT ![m] = v]] \in TxnType
<1> DEFINE w == [t.write EXCEPT ![m] = v]
<1>1. w \in [Members -> Int \cup {NoWrite}]
  BY DEF TxnType
<1>2. ASSUME NEW u \in [Members -> Int \cup {NoWrite}]
      PROVE  [t EXCEPT !.pc = pc, !.write = u] \in TxnType
  BY DEF TxnType, Running
<1> QED BY <1>1, <1>2

LEMMA WorkingStep ==
    ASSUME Inv, NEW x \in TxIds, Working(x)
    PROVE  TypeOK' /\ TxnInv(x)'
<1> DEFINE r == txn[x].req
<1>0. /\ TypeOK /\ NoOverdraft /\ ConstantAssumptions
      /\ rows' = rows /\ log' = log /\ day' = day
  BY Constants, WorkingFrame DEF Inv, LockingInv
<1>1. /\ HoldsItsRows(x) /\ WritesWhatItShould(x) /\ ChecksStillHold(x)
      /\ txn[x].pc # "done" => \A row \in log : row.id # x
  BY DEF Inv, LockingInv, TxnInv
<1>2. /\ r.op \in {"transfer", "adjust"} /\ r.by \in Members /\ r.to \in Members
      /\ r.amount \in Int /\ ForUpdateRow(r) \in Members
      /\ txn[x].read \in Int /\ txn[x].today \in Int /\ day \in Int
      /\ txn[x].began \in Int
      /\ rows[r.by].balance \in Int /\ rows[r.to].balance \in Int
      /\ rows[ForUpdateRow(r)].balance \in Int
  BY <1>0 DEF TypeOK, TxnType, ConstantAssumptions, ForUpdateRow
<1>3. Ledger!LedgerTypeOK'
  BY <1>0 DEF TypeOK, Ledger!LedgerTypeOK, Balances
<1>t. ASSUME lock' \in [Members -> TxIds \cup {NoTx}], txn' \in [TxIds -> TxnType]
      PROVE  TypeOK'
  BY <1>0, <1>3, <1>t DEF TypeOK
<1> USE DEF TxnInv, HoldsItsRows, WritesWhatItShould, ChecksStillHold,
            Sleeping, Writing, Running
<1>4. CASE Begin(x)
  <2>1. TypeOK'
    <3>1. txn' \in [TxIds -> TxnType]
      <4>1. [txn[x] EXCEPT !.pc = "begun", !.began = day] \in TxnType
        BY <1>0 DEF TypeOK, TxnType
      <4>2. txn' = [txn EXCEPT ![x] = [txn[x] EXCEPT !.pc = "begun", !.began = day]]
        BY <1>4 DEF Begin
      <4> QED BY <1>0, <4>1, <4>2 DEF TypeOK
    <3>2. lock' = lock
      BY <1>4 DEF Begin
    <3> QED BY <1>0, <1>t, <3>1, <3>2 DEF TypeOK
  <2>2. TxnInv(x)'
    BY <1>0, <1>1, <1>2, <1>4 DEF Begin, TypeOK, TxnType
  <2> QED BY <2>1, <2>2
<1>12. CASE Call(x)
  <2>1. TypeOK'
    <3>1. txn' \in [TxIds -> TxnType]
      <4>1. [txn[x] EXCEPT !.pc = "ensure_by", !.today = day] \in TxnType
        BY <1>0 DEF TypeOK, TxnType
      <4>2. txn' = [txn EXCEPT ![x] = [txn[x] EXCEPT !.pc = "ensure_by", !.today = day]]
        BY <1>12 DEF Call
      <4> QED BY <1>0, <4>1, <4>2 DEF TypeOK
    <3>2. lock' = lock
      BY <1>12 DEF Call
    <3> QED BY <1>0, <1>t, <3>1, <3>2 DEF TypeOK
  <2>2. TxnInv(x)'
    BY <1>0, <1>1, <1>2, <1>12 DEF Call, TypeOK, TxnType
  <2> QED BY <2>1, <2>2
<1>5. CASE EnsureBy(x)
  <2>1. TypeOK'
    <3>1. lock' \in [Members -> TxIds \cup {NoTx}]
      BY <1>0, <1>2, <1>5 DEF EnsureBy, EnsureRow, Take, Goto, TypeOK
    <3>2. txn' \in [TxIds -> TxnType]
      BY <1>0, <1>2, <1>5 DEF EnsureBy, EnsureRow, Take, Goto, TypeOK, TxnType
    <3> QED BY <1>t, <3>1, <3>2
  <2>2. TxnInv(x)'
    BY <1>0, <1>1, <1>2, <1>5 DEF EnsureBy, EnsureRow, At, Goto, TypeOK, TxnType
  <2> QED BY <2>1, <2>2
<1>6. CASE EnsureTo(x)
  <2>1. TypeOK'
    <3>1. lock' \in [Members -> TxIds \cup {NoTx}]
      BY <1>0, <1>2, <1>6 DEF EnsureTo, EnsureRow, Take, Goto, TypeOK
    <3>2. txn' \in [TxIds -> TxnType]
      BY <1>0, <1>2, <1>6 DEF EnsureTo, EnsureRow, Take, Goto, TypeOK, TxnType
    <3> QED BY <1>t, <3>1, <3>2
  <2>2. TxnInv(x)'
    BY <1>0, <1>1, <1>2, <1>6 DEF EnsureTo, EnsureRow, At, Goto, TypeOK, TxnType,
         LocksForUpdate
  <2> QED BY <2>1, <2>2
<1>7. CASE LockRow(x)
  <2>1. Seen(x, ForUpdateRow(r)) = rows[ForUpdateRow(r)].balance
    BY <1>1, <1>2, <1>7 DEF LockRow, At, Seen
  <2>2. TypeOK'
    <3>1. lock' \in [Members -> TxIds \cup {NoTx}]
      BY <1>0, <1>2, <1>7 DEF LockRow, Take, TypeOK
    <3> DEFINE t == [txn[x] EXCEPT !.pc = "check",
                                 !.read = rows[ForUpdateRow(r)].balance]
    <3>2. txn' = [txn EXCEPT ![x] = t]
      BY <1>7, <2>1 DEF LockRow
    <3>3. t \in TxnType
      BY <1>0, <1>2 DEF TypeOK, TxnType
    <3>4. txn' \in [TxIds -> TxnType]
      BY <1>0, <3>2, <3>3 DEF TypeOK
    <3> QED BY <1>t, <3>1, <3>4
  <2>3. /\ txn[x].pc = "lock" /\ lock'[ForUpdateRow(r)] = x
        /\ txn'[x] = [txn[x] EXCEPT !.pc = "check",
                                    !.read = rows[ForUpdateRow(r)].balance]
    BY <1>0, <1>2, <1>7, <2>1 DEF LockRow, At, Take, TypeOK
  <2>4. /\ txn'[x].pc = "check" /\ txn'[x].req = r /\ txn'[x].write = txn[x].write
        /\ txn'[x].read = rows[ForUpdateRow(r)].balance
        /\ txn'[x].today = txn[x].today /\ txn'[x].began = txn[x].began
    BY <1>0, <2>3 DEF TypeOK, TxnType
  <2>5. TxnInv(x)'
    BY <1>0, <1>1, <1>2, <2>3, <2>4
  <2> QED BY <2>2, <2>5
<1>8. CASE RecordThrottle(x)
  <2>1. TypeOK'
    BY <1>0, <1>3, <1>8 DEF RecordThrottle, Goto, TypeOK, TxnType
  <2>2. TxnInv(x)'
    BY <1>0, <1>1, <1>2, <1>8 DEF RecordThrottle, At, Goto, TypeOK, TxnType
  <2> QED BY <2>1, <2>2
<1>9. CASE Debit(x)
  <2>1. /\ Seen(x, r.by) = rows[r.by].balance
        /\ txn[x].read >= r.amount
        /\ Ledger!WithinLimit(log, r, txn[x].today)
    BY <1>1, <1>2, <1>9 DEF Debit, At, Seen, Verdict
  <2>2. TypeOK'
    <3>1. lock' \in [Members -> TxIds \cup {NoTx}]
      BY <1>0, <1>2, <1>9 DEF Debit, TypeOK
    <3> DEFINE t == [txn[x] EXCEPT !.pc = "update",
              !.write = [txn[x].write EXCEPT
                            ![r.by] = rows[r.by].balance - r.amount]]
    <3>2. txn' = [txn EXCEPT ![x] = t]
      BY <1>9, <2>1 DEF Debit
    <3>3. t \in TxnType
      <4>1. txn[x] \in TxnType
        BY <1>0 DEF TypeOK
      <4>2. rows[r.by].balance - r.amount \in Int
        BY <1>2
      <4> QED BY <1>2, <4>1, <4>2, WriteType
    <3>4. txn' \in [TxIds -> TxnType]
      BY <1>0, <3>2, <3>3 DEF TypeOK
    <3> QED BY <1>t, <3>1, <3>4
  <2>3. /\ txn[x].pc = "check" /\ r.op = "transfer"
        /\ txn'[x].pc = "update" /\ txn'[x].req = r
        /\ txn'[x].read = txn[x].read /\ txn'[x].today = txn[x].today
        /\ txn'[x].began = txn[x].began
        /\ txn'[x].write = [txn[x].write EXCEPT
                               ![r.by] = rows[r.by].balance - r.amount]
    BY <1>0, <1>9, <2>1 DEF Debit, At, TypeOK, TxnType
  <2>4. /\ txn[x].write \in [Members -> Int \cup {NoWrite}]
        /\ lock' = lock
    BY <1>0, <1>9 DEF Debit, TypeOK, TxnType
  <2>5. WritesWhatItShould(x)'
    BY <1>0, <1>1, <1>2, <2>3, <2>4
  <2>6. HoldsItsRows(x)' /\ ChecksStillHold(x)'
    BY <1>0, <1>1, <1>2, <2>1, <2>3, <2>4 DEF LocksForUpdate, ForUpdateRow
  <2> QED BY <1>0, <1>1, <2>2, <2>3, <2>5, <2>6
<1>10. CASE AllowDeduct(x)
  <2>1. TypeOK'
    BY <1>0, <1>3, <1>10 DEF AllowDeduct, Goto, TypeOK, TxnType
  <2>2. TxnInv(x)'
    BY <1>0, <1>1, <1>2, <1>10 DEF AllowDeduct, At, Goto, TypeOK, TxnType
  <2> QED BY <2>1, <2>2
<1>11. CASE UpdateTarget(x)
  <2>1. r.op = "transfer" => r.by # r.to
    BY <1>1, <1>11 DEF UpdateTarget, At, Ledger!Valid
  <2>2. Seen(x, r.to) = rows[r.to].balance
    BY <1>1, <1>2, <1>11, <2>1 DEF UpdateTarget, At, Seen
  <2>3. TypeOK'
    <3>1. lock' \in [Members -> TxIds \cup {NoTx}]
      BY <1>0, <1>2, <1>11 DEF UpdateTarget, Take, TypeOK
    <3> DEFINE t == [txn[x] EXCEPT !.pc = "insert",
              !.write = [txn[x].write EXCEPT
                            ![r.to] = rows[r.to].balance + r.amount]]
    <3>2. txn' = [txn EXCEPT ![x] = t]
      BY <1>11, <2>2 DEF UpdateTarget
    <3>3. t \in TxnType
      <4>1. txn[x] \in TxnType
        BY <1>0 DEF TypeOK
      <4>2. rows[r.to].balance + r.amount \in Int
        BY <1>2
      <4> QED BY <1>2, <4>1, <4>2, WriteType
    <3>4. txn' \in [TxIds -> TxnType]
      BY <1>0, <3>2, <3>3 DEF TypeOK
    <3> QED BY <1>t, <3>1, <3>4
  <2>4. /\ txn[x].pc = "update"
        /\ txn'[x].pc = "insert" /\ txn'[x].req = r
        /\ txn'[x].read = txn[x].read /\ txn'[x].today = txn[x].today
        /\ txn'[x].began = txn[x].began
        /\ txn'[x].write = [txn[x].write EXCEPT
                               ![r.to] = rows[r.to].balance + r.amount]
        /\ lock' = [lock EXCEPT ![r.to] = x]
    BY <1>0, <1>11, <2>2 DEF UpdateTarget, At, Take, TypeOK, TxnType
  <2>5. /\ txn[x].write \in [Members -> Int \cup {NoWrite}]
        /\ lock \in [Members -> TxIds \cup {NoTx}]
    BY <1>0 DEF TypeOK, TxnType
  <2>6. WritesWhatItShould(x)'
    BY <1>0, <1>1, <1>2, <2>1, <2>4, <2>5
  <2>7. HoldsItsRows(x)' /\ ChecksStillHold(x)'
    BY <1>0, <1>1, <1>2, <2>4, <2>5
  <2> QED BY <1>0, <1>1, <2>3, <2>4, <2>6, <2>7
<1> QED
  BY <1>4, <1>5, <1>6, <1>7, <1>8, <1>9, <1>10, <1>11, <1>12 DEF Working

-----------------------------------------------------------------------------
(* The commit *)

\* The balances that a commit of x leaves behind.
LEMMA CommitBalances ==
    ASSUME Inv, NEW x \in TxIds, Commit(x)
    PROVE  LET r == txn[x].req
               old == Balances
           IN  /\ r.op = "transfer" =>
                     /\ r.by # r.to /\ r.amount > 0 /\ old[r.by] >= r.amount
                     /\ Balances' = [old EXCEPT ![r.by] = @ - r.amount,
                                                ![r.to] = @ + r.amount]
               /\ r.op = "adjust" =>
                     /\ old[r.to] + r.amount >= 0
                     /\ Balances' = [old EXCEPT ![r.to] = @ + r.amount]
               /\ txn[x].write[r.to] = old[r.to] + r.amount
<1> DEFINE r == txn[x].req
           old == Balances
<1>0. /\ TypeOK /\ NoOverdraft /\ ConstantAssumptions
      /\ WritesWhatItShould(x) /\ ChecksStillHold(x) /\ txn[x].pc = "insert"
  BY Constants DEF Inv, LockingInv, TxnInv, Commit, Inserted, At
<1>1. /\ r.op \in {"transfer", "adjust"} /\ r.by \in Members /\ r.to \in Members
      /\ r.amount \in Int /\ txn[x].read \in Int
      /\ \A m \in Members : rows[m].balance \in Nat
  BY <1>0 DEF TypeOK, TxnType, ConstantAssumptions, NoOverdraft
<1>2. Ledger!Valid(r)
  BY <1>0 DEF ChecksStillHold, Running
<1>3. r.op = "transfer" => r.by # r.to /\ r.amount > 0 /\ rows[r.by].balance >= r.amount
  BY <1>0, <1>1, <1>2 DEF Ledger!Valid, ChecksStillHold, Writing, LocksForUpdate,
     ForUpdateRow
<1>4. r.op = "adjust" => rows[r.to].balance + r.amount >= 0
  BY <1>0, <1>1 DEF ChecksStillHold, Writing, LocksForUpdate, ForUpdateRow
<1>5. \A m \in Members : old[m] = rows[m].balance
  BY DEF Balances
<1>6. Balances' = [m \in Members |-> Seen(x, m)]
  BY DEF Commit, Inserted, Balances
<1>7. txn[x].write[r.to] = rows[r.to].balance + r.amount
  BY <1>0, <1>1, <1>3 DEF WritesWhatItShould, Writing
<1>8. ASSUME NEW m \in Members
      PROVE  Seen(x, m) = IF r.op = "transfer" /\ m = r.by
                          THEN old[m] - r.amount
                          ELSE IF m = r.to THEN old[m] + r.amount ELSE old[m]
  <2>1. NoWrite \notin Int
    BY <1>0 DEF ConstantAssumptions
  <2> QED BY <1>0, <1>1, <1>3, <1>5, <2>1 DEF WritesWhatItShould, Writing, Seen
<1>9. r.op = "transfer" =>
         Balances' = [old EXCEPT ![r.by] = @ - r.amount, ![r.to] = @ + r.amount]
  BY <1>1, <1>3, <1>6, <1>8 DEF Balances
<1>10. r.op = "adjust" => Balances' = [old EXCEPT ![r.to] = @ + r.amount]
  BY <1>1, <1>6, <1>8 DEF Balances
<1> QED BY <1>1, <1>3, <1>4, <1>5, <1>7, <1>9, <1>10

LEMMA CommitStep ==
    ASSUME Inv, NEW x \in TxIds, Commit(x)
    PROVE  TypeOK' /\ NoOverdraft' /\ Frame(x) /\ TxnInv(x)'
<1> DEFINE r == txn[x].req
           row == Ledger!AuditRow(x, r, txn[x].began, txn[x].today,
                                  txn[x].write[r.to])
<1>0. TypeOK /\ NoOverdraft /\ ConstantAssumptions /\ TxnInv(x)
  BY Constants DEF Inv, LockingInv
<1>1. /\ r.op \in {"transfer", "adjust"} /\ r.by \in Members /\ r.to \in Members
      /\ r.amount \in Int /\ txn[x].today \in 0..MaxDay
      /\ txn[x].began \in 0..MaxDay
      /\ rows[r.to].balance \in Int
  BY <1>0 DEF TypeOK, TxnType, ConstantAssumptions
<1>2. Frame(x)
  <2>1. ASSUME NEW y \in TxIds \ {x}, NEW m \in Members, lock[m] = y
        PROVE  lock'[m] = y /\ rows'[m] = rows[m]
    <3>1. lock'[m] = y
      BY <2>1 DEF Commit, Inserted, Released
    <3>2. txn[x].write[m] = NoWrite /\ ~(r.op = "transfer" /\ m = r.by)
      BY <1>0, <2>1 DEF Commit, Inserted, At, TxnInv, HoldsItsRows, WritesWhatItShould,
         Writing, LocksForUpdate, ForUpdateRow
    <3>3. rows[m] \in [exists: BOOLEAN, balance: Int, throttled: BOOLEAN]
      BY <1>0 DEF TypeOK
    <3> QED BY <2>1, <3>1, <3>2, <3>3 DEF Commit, Inserted, Seen
  <2>2. \A y \in TxIds \ {x} : txn'[y] = txn[y]
    BY <1>0 DEF Commit, Inserted, TypeOK
  <2> QED BY <2>1, <2>2 DEF Commit, Inserted, At, Frame
<1>3. /\ Balances' \in [Members -> Int]
      /\ \A m \in Members : Balances'[m] >= 0
  <2>1. \A m \in Members : Balances[m] \in Nat
    BY <1>0 DEF Balances, TypeOK, NoOverdraft
  <2>2. Balances = [m \in Members |-> Balances[m]]
    BY DEF Balances
  <2> QED BY <1>1, <2>1, <2>2, CommitBalances
<1>4. NoOverdraft'
  BY <1>3 DEF NoOverdraft, Balances
<1>5. txn' \in [TxIds -> TxnType] /\ lock' \in [Members -> TxIds \cup {NoTx}]
      /\ day' \in 0..MaxDay
  <2>1. txn' \in [TxIds -> TxnType]
    <3>1. Knowing(r, "done", "committed") \in TxnType
      BY <1>0 DEF TypeOK, TxnType, Outcomes, Knowing, ConstantAssumptions
    <3>2. txn' = [txn EXCEPT ![x] = Knowing(r, "done", "committed")]
      BY <1>0 DEF Commit, Inserted
    <3> QED BY <1>0, <3>1, <3>2 DEF TypeOK
  <2>2. lock' \in [Members -> TxIds \cup {NoTx}]
    BY <1>0 DEF Commit, Inserted, Released, TypeOK
  <2>3. day' \in 0..MaxDay
    BY <1>0 DEF Commit, Inserted, TypeOK
  <2> QED BY <2>1, <2>2, <2>3
<1>6. rows' \in [Members -> [exists: BOOLEAN, balance: Int, throttled: BOOLEAN]]
  <2>1. \A m \in Members : Seen(x, m) \in Int
    BY <1>3 DEF Commit, Inserted, Balances
  <2>2. \A m \in Members : rows[m].exists \in BOOLEAN /\ rows[m].throttled \in BOOLEAN
    BY <1>0 DEF TypeOK
  <2> QED BY <2>1, <2>2 DEF Commit, Inserted
<1>7. Ledger!LedgerTypeOK'
  <2>1. row \in [id: TxIds,
                 direction: {"transfer", "adjustment_grant", "adjustment_deduct"},
                 initiator: Members, target: Members, amount: Nat,
                 day: Ledger!Days, checked: Ledger!Days, balance_after_target: Int]
    <3>1. txn[x].write[r.to] \in Int
      <4>1. Balances[r.to] = rows[r.to].balance
        BY <1>1 DEF Balances
      <4> QED BY <1>1, <4>1, CommitBalances
    <3> QED BY <1>1, <3>1 DEF Ledger!AuditRow, Ledger!Direction, Ledger!Abs, Ledger!Days
  <2>2. log' = log \cup {row}
    BY DEF Commit, Inserted
  <2> QED BY <1>0, <1>3, <1>5, <2>1, <2>2 DEF TypeOK, Ledger!LedgerTypeOK, Ledger!Days
<1>8. TxnInv(x)'
  <2>1. /\ txn'[x].pc = "done" /\ txn'[x].began = 0 /\ txn'[x].today = 0
        /\ day' = day /\ day \in 0..MaxDay
    BY <1>0 DEF Commit, Inserted, TypeOK, Knowing
  <2> QED
    BY <1>0, <2>1 DEF TxnInv, HoldsItsRows, WritesWhatItShould, ChecksStillHold,
       Sleeping, Writing, Running
<1> QED BY <1>2, <1>4, <1>5, <1>6, <1>7, <1>8 DEF TypeOK

-----------------------------------------------------------------------------
(* The theorems *)

LEMMA InitInv == Init => Inv
<1> SUFFICES ASSUME Init PROVE Inv
  OBVIOUS
<1>0. ConstantAssumptions
  BY Constants
<1>1. TypeOK
  <2>1. Balances \in [Members -> Int] /\ log = {} /\ day \in 0..MaxDay
    BY <1>0 DEF Init, Balances, ConstantAssumptions
  <2> QED
    BY <1>0, <2>1 DEF Init, TypeOK, TxnType, Outcomes, Knowing, ConstantAssumptions,
       Ledger!LedgerTypeOK, Ledger!Days
<1>2. NoOverdraft
  BY <1>0 DEF Init, NoOverdraft, ConstantAssumptions
<1>3. ASSUME NEW x \in TxIds PROVE TxnInv(x)
  BY DEF Init, TxnInv, Knowing, HoldsItsRows, WritesWhatItShould, ChecksStillHold,
     Sleeping, Writing, Running
<1> QED BY <1>1, <1>2, <1>3 DEF Inv, LockingInv

\* A step of x preserves the type invariant and no overdraft, disturbs nobody,
\* and establishes what x relies on next.
LEMMA OneStep ==
    ASSUME Inv, NEW x \in TxIds, Step(x)
    PROVE  TypeOK' /\ NoOverdraft' /\ Frame(x) /\ TxnInv(x)'
<1>1. CASE Working(x)
  BY <1>1, WorkingFrame, WorkingStep DEF Inv, LockingInv, NoOverdraft
<1>2. CASE Commit(x)
  BY <1>2, CommitStep
<1>3. CASE AbortsNow(x)
  <2>1. rows' = rows
    BY <1>3 DEF AbortsNow, Abort
  <2> QED BY <1>3, <2>1, AbortStep DEF AbortsNow, Inv, LockingInv, NoOverdraft
<1> QED BY <1>1, <1>2, <1>3, StepCases

LEMMA NextDayStep == Inv /\ NextDay => Inv'
<1> SUFFICES ASSUME Inv, NextDay PROVE Inv'
  OBVIOUS
<1>0. TypeOK /\ NoOverdraft /\ (\A x \in TxIds : TxnInv(x)) /\ ConstantAssumptions
  BY Constants DEF Inv, LockingInv
<1>1. /\ rows' = rows /\ log' = log /\ lock' = lock /\ txn' = txn
      /\ day' = day + 1 /\ day' \in 0..MaxDay /\ day \in Int
  BY <1>0 DEF NextDay, TypeOK, ConstantAssumptions
<1>2. TypeOK'
  BY <1>0, <1>1 DEF TypeOK, Balances, Ledger!LedgerTypeOK, Ledger!Days
<1>3. NoOverdraft'
  BY <1>0, <1>1 DEF NoOverdraft
<1>4. ASSUME NEW x \in TxIds PROVE TxnInv(x)'
  <2>1. txn[x].today \in Int /\ txn[x].began \in Int
    BY <1>0 DEF TypeOK, TxnType
  <2> QED
    BY <1>0, <1>1, <2>1 DEF TxnInv, HoldsItsRows, WritesWhatItShould, ChecksStillHold
<1> QED BY <1>2, <1>3, <1>4 DEF Inv, LockingInv

LEMMA NextInv == Inv /\ [Next]_vars => Inv'
<1> SUFFICES ASSUME Inv, [Next]_vars PROVE Inv'
  OBVIOUS
<1>1. ASSUME NEW x \in TxIds, Step(x) PROVE Inv'
  <2>1. TypeOK' /\ NoOverdraft' /\ Frame(x) /\ TxnInv(x)'
    BY <1>1, OneStep
  <2>2. \A y \in TxIds \ {x} : TxnInv(y)'
    BY <2>1, OthersUndisturbed
  <2> QED BY <2>1, <2>2 DEF Inv, LockingInv
<1>2. CASE NextDay
  BY <1>2, NextDayStep
<1>3. CASE UNCHANGED vars
  BY <1>3 DEF vars, Inv, LockingInv, TypeOK, NoOverdraft, TxnInv, HoldsItsRows,
     WritesWhatItShould, ChecksStillHold, Balances, Ledger!LedgerTypeOK
<1> QED BY <1>1, <1>2, <1>3 DEF Next, Step

(***************************************************************************)
(* The type invariant and the locking invariant hold in every execution:   *)
(* fn_transfer_currency and fn_adjust_balance, whatever their interleaving *)
(* and wherever they are aborted, keep what they checked true until they   *)
(* have written it.                                                        *)
(***************************************************************************)
THEOREM Locking == Spec => []LockingInv
<1>1. Inv => LockingInv
  BY DEF Inv
<1> QED BY <1>1, InitInv, NextInv, PTL DEF Spec

(***************************************************************************)
(* Every reachable state is well typed, the audit rows and the committed   *)
(* balances that readers of the ledger see included.                       *)
(***************************************************************************)
THEOREM TypeCorrect == Spec => []TypeOK
<1>1. Inv => TypeOK
  BY DEF Inv
<1> QED BY <1>1, InitInv, NextInv, PTL DEF Spec

(***************************************************************************)
(* No interleaving of transfers, grants and deductions commits a negative  *)
(* balance, without help from the table's CHECK constraint.                *)
(***************************************************************************)
THEOREM BalancesStayNonNegative == Spec => []NoOverdraft
<1>1. Inv => NoOverdraft
  BY DEF Inv, LockingInv
<1> QED BY <1>1, InitInv, NextInv, PTL DEF Spec

(***************************************************************************)
(* What a call read FOR UPDATE is the committed balance until it ends.     *)
(***************************************************************************)
THEOREM ReadsAreRepeatable == Spec => []ReadsStayTrue
<1>1. Inv => ReadsStayTrue
  BY DEF Inv, LockingInv, TxnInv, ChecksStillHold, Writing, ReadsStayTrue
<1> QED BY <1>1, InitInv, NextInv, PTL DEF Spec

(***************************************************************************)
(* A transfer that passed the daily-limit check is within the limit when   *)
(* its audit row is written: the payer's row lock keeps every other        *)
(* transfer of the same payer out.                                         *)
(***************************************************************************)
THEOREM LimitIsNotStale == Spec => []LimitCheckStaysTrue
<1>1. Inv => LimitCheckStaysTrue
  BY DEF Inv, LockingInv, TxnInv, ChecksStillHold, Writing, LimitCheckStaysTrue
<1> QED BY <1>1, InitInv, NextInv, PTL DEF Spec

-----------------------------------------------------------------------------
(* The transactions implement the atomic ledger *)

LEMMA CommitIsAtomic ==
    ASSUME Inv, NEW x \in TxIds, Commit(x)
    PROVE  Ledger!LedgerNext
<1> DEFINE r == txn[x].req
           d == txn[x].today
           b == txn[x].began
<1>0. TypeOK /\ TxnInv(x) /\ ConstantAssumptions /\ txn[x].pc = "insert"
  BY Constants DEF Inv, LockingInv, Commit, Inserted, At
<1>1. /\ r \in Requests /\ r.op \in {"transfer", "adjust"}
      /\ d \in 0..day /\ b \in 0..d
      /\ Ledger!Valid(r) /\ Ledger!Fresh(x)
      /\ r.op = "transfer" => Ledger!WithinLimit(log, r, d)
  BY <1>0 DEF TypeOK, TxnType, ConstantAssumptions, TxnInv, ChecksStillHold,
     Running, Writing, Ledger!Fresh
<1>2. /\ log' = log \cup {Ledger!AuditRow(x, r, b, d, Balances[r.to] + r.amount)}
      /\ day' = day
  BY CommitBalances DEF Commit, Inserted
<1>3. CASE r.op = "transfer"
  <2>1. Ledger!Transfer(x, r, b, d)
    BY <1>1, <1>2, <1>3, CommitBalances DEF Ledger!Transfer
  <2> QED BY <1>1, <2>1 DEF Ledger!LedgerNext
<1>4. CASE r.op = "adjust"
  <2>1. Ledger!Adjust(x, r, b, d)
    BY <1>1, <1>2, <1>4, CommitBalances DEF Ledger!Adjust
  <2> QED BY <1>1, <2>1 DEF Ledger!LedgerNext
<1> QED BY <1>1, <1>3, <1>4

LEMMA StepImplements == Inv /\ [Next]_vars => [Ledger!LedgerNext]_(Ledger!ledgerVars)
<1> SUFFICES ASSUME Inv, [Next]_vars
             PROVE  Ledger!LedgerNext \/ UNCHANGED Ledger!ledgerVars
  OBVIOUS
<1> USE DEF Ledger!ledgerVars
<1>1. ASSUME NEW x \in TxIds, Step(x)
      PROVE  Ledger!LedgerNext \/ UNCHANGED Ledger!ledgerVars
  <2>1. CASE Working(x)
    BY <2>1, WorkingFrame DEF Balances
  <2>2. CASE Commit(x)
    BY <2>2, CommitIsAtomic
  <2>3. CASE AbortsNow(x)
    BY <2>3 DEF AbortsNow, Abort, Balances
  <2> QED BY <1>1, <2>1, <2>2, <2>3, StepCases
<1>2. CASE NextDay
  BY <1>2 DEF NextDay, Balances, Ledger!NextDay, Ledger!LedgerNext
<1>3. CASE UNCHANGED vars
  BY <1>3 DEF vars, Balances
<1> QED BY <1>1, <1>2, <1>3 DEF Next, Step

LEMMA InitImplements == Init => Ledger!LedgerInit
BY Constants DEF Init, Balances, Ledger!LedgerInit, ConstantAssumptions

(***************************************************************************)
(* The SQL functions, one statement at a time, implement the atomic ledger *)
(* of EconomyLedger: the commit is the atomic step, everything else is     *)
(* invisible to readers of committed data.                                 *)
(***************************************************************************)
THEOREM Implementation == Spec => ImplementsLedger
BY InitInv, NextInv, InitImplements, StepImplements, PTL
   DEF Spec, ImplementsLedger, Ledger!LedgerSpec


-----------------------------------------------------------------------------
(* Sums over the audit rows *)

\* A property that holds of a part of a finite set when it holds of every
\* smaller part of it holds of the whole; G is the parts that have it.
LEMMA SubsetInduction ==
    ASSUME NEW S, IsFiniteSet(S), NEW G \in SUBSET SUBSET S,
           \A s \in SUBSET S : (\A t \in SUBSET s : t # s => t \in G) => s \in G
    PROVE  G = SUBSET S
<1> PICK B : B = (SUBSET S) \ G
  OBVIOUS
<1>1. IsWellFoundedOn(StrictSubsetOrdering(S), FiniteSubsetsOf(S))
  BY FS_StrictSubsetOrderingWellFounded
<1>2. \A s \in SUBSET S : s \in FiniteSubsetsOf(S)
  BY FS_Subset DEF FiniteSubsetsOf
<1> SUFFICES ASSUME B # {} PROVE FALSE
  OBVIOUS
<1>3. B \subseteq FiniteSubsetsOf(S)
  BY <1>2
<1>4. PICK s \in B : \A t \in B : <<t, s>> \notin StrictSubsetOrdering(S)
  BY <1>1, <1>3, WFMin
<1>5. ASSUME NEW t \in SUBSET s, t # s PROVE t \in G
  <2>1. <<t, s>> \in StrictSubsetOrdering(S)
    BY <1>5 DEF StrictSubsetOrdering
  <2> QED  BY <1>4, <2>1
<1> QED  BY <1>4, <1>5

\* Total sums by taking one row after another, as g does for the parts of S.
First(s) == CHOOSE row \in s : TRUE
Rest(s) == s \ {First(s)}
IsTally(g, S) ==
    g = [s \in SUBSET S |-> IF s = {} THEN 0 ELSE First(s).amount + g[Rest(s)]]
Tally(S) == CHOOSE g : IsTally(g, S)

LEMMA TotalIsTally == ASSUME NEW S PROVE Ledger!Total(S) = Tally(S)[S]
BY Zenon DEF Ledger!Total, Ledger!MapThenSumSet, Ledger!MapThenFoldSet,
             Tally, IsTally, First, Rest

LEMMA TallyUnfolds ==
    ASSUME NEW S, NEW g, IsTally(g, S), NEW s \in SUBSET S
    PROVE  /\ s = {} => g[s] = 0
           /\ s # {} => /\ g[s] = First(s).amount + g[Rest(s)]
                        /\ First(s) \in s /\ Rest(s) \in SUBSET s /\ Rest(s) # s
<1>1. g[s] = IF s = {} THEN 0 ELSE First(s).amount + g[Rest(s)]
  BY DEF IsTally
<1>2. s # {} => First(s) \in s
  BY DEF First
<1> QED  BY <1>1, <1>2 DEF Rest

\* The sum of a part does not depend on the set it is a part of.
LEMMA TalliesAgree ==
    ASSUME NEW S, IsFiniteSet(S), NEW T \in SUBSET S, NEW g, NEW h, IsTally(g, S), IsTally(h, T)
    PROVE  \A s \in SUBSET T : g[s] = h[s]
<1> DEFINE G == {s \in SUBSET T : g[s] = h[s]}
<1>1. ASSUME NEW s \in SUBSET T, \A t \in SUBSET s : t # s => t \in G
      PROVE  s \in G
  <2>1. CASE s = {}
    <3>1. g[s] = 0
      BY <2>1, TallyUnfolds
    <3>2. h[s] = 0
      BY <2>1, TallyUnfolds
    <3> QED  BY <3>1, <3>2
  <2>2. CASE s # {}
    <3>1. Rest(s) \in G /\ g[s] = First(s).amount + g[Rest(s)]
      BY <1>1, <2>2, TallyUnfolds
    <3>2. h[s] = First(s).amount + h[Rest(s)]
      BY <2>2, TallyUnfolds
    <3> QED  BY <3>1, <3>2
  <2> QED  BY <2>1, <2>2
<1>2. IsFiniteSet(T)
  BY FS_Subset
<1>3. G = SUBSET T
  <2>1. G \in SUBSET SUBSET T
    OBVIOUS
  <2>2. \A s \in SUBSET T : (\A t \in SUBSET s : t # s => t \in G) => s \in G
    BY <1>1
  <2> HIDE DEF G
  <2> QED  BY <1>2, <2>1, <2>2, SubsetInduction
<1> QED  BY <1>3

LEMMA TallyExists ==
    ASSUME NEW S, IsFiniteSet(S)
    PROVE  \A T \in SUBSET S : IsTally(Tally(T), T)
<1> DEFINE G == {T \in SUBSET S : IsTally(Tally(T), T)}
<1>1. ASSUME NEW T \in SUBSET S, \A t \in SUBSET T : t # T => t \in G
      PROVE  T \in G
  <2> DEFINE sum(s) == IF s = {} THEN 0 ELSE First(s).amount + Tally(Rest(s))[Rest(s)]
             g == [s \in SUBSET T |-> sum(s)]
  <2>1. ASSUME NEW t \in SUBSET T, t # T PROVE sum(t) = Tally(t)[t]
    <3>1. IsTally(Tally(t), t)
      BY <1>1, <2>1
    <3>2. CASE t = {}
      BY <3>1, <3>2, TallyUnfolds
    <3>3. CASE t # {}
      <4>1. Tally(t)[t] = First(t).amount + Tally(t)[Rest(t)]
            /\ Rest(t) \in SUBSET t /\ Rest(t) # t
        BY <3>1, <3>3, TallyUnfolds
      <4>2. IsTally(Tally(Rest(t)), Rest(t))
        BY <1>1, <2>1, <4>1
      <4>3. IsFiniteSet(t)
        BY FS_Subset
      <4>4. Tally(t)[Rest(t)] = Tally(Rest(t))[Rest(t)]
        BY <3>1, <4>1, <4>2, <4>3, TalliesAgree
      <4> QED  BY <3>3, <4>1, <4>4
    <3> QED  BY <3>2, <3>3
  <2>2. IsTally(g, T)
    <3> SUFFICES ASSUME NEW s \in SUBSET T
                 PROVE  g[s] = IF s = {} THEN 0 ELSE First(s).amount + g[Rest(s)]
      BY DEF IsTally
    <3>1. CASE s = {}
      BY <3>1
    <3>2. CASE s # {}
      <4>1. First(s) \in s /\ Rest(s) \in SUBSET T /\ Rest(s) # T
        BY <3>2 DEF First, Rest
      <4>2. sum(Rest(s)) = Tally(Rest(s))[Rest(s)]
        BY <2>1, <4>1
      <4>3. g[Rest(s)] = sum(Rest(s)) /\ g[s] = sum(s)
        BY <4>1
      <4>4. sum(s) = First(s).amount + Tally(Rest(s))[Rest(s)]
        BY <3>2
      <4> HIDE DEF g, sum
      <4> QED  BY <3>2, <4>2, <4>3, <4>4
    <3> QED  BY <3>1, <3>2
  <2> QED  BY <2>2 DEF Tally
<1>2. G = SUBSET S
  <2>1. G \in SUBSET SUBSET S
    OBVIOUS
  <2>2. \A s \in SUBSET S : (\A t \in SUBSET s : t # s => t \in G) => s \in G
    BY <1>1
  <2> HIDE DEF G
  <2> QED  BY <2>1, <2>2, SubsetInduction
<1> QED  BY <1>2

LEMMA TotalUnfolds ==
    ASSUME NEW S, IsFiniteSet(S)
    PROVE  /\ S = {} => Ledger!Total(S) = 0
           /\ S # {} => /\ Ledger!Total(S) = First(S).amount + Ledger!Total(Rest(S))
                        /\ First(S) \in S /\ Rest(S) \in SUBSET S /\ Rest(S) # S
<1>1. IsTally(Tally(S), S) /\ (Rest(S) \in SUBSET S => IsTally(Tally(Rest(S)), Rest(S)))
  BY TallyExists
<1>2. CASE S = {}
  BY <1>1, <1>2, TallyUnfolds, TotalIsTally
<1>3. CASE S # {}
  <2>1. /\ Tally(S)[S] = First(S).amount + Tally(S)[Rest(S)]
        /\ First(S) \in S /\ Rest(S) \in SUBSET S /\ Rest(S) # S
    BY <1>1, <1>3, TallyUnfolds
  <2>2. Tally(S)[Rest(S)] = Tally(Rest(S))[Rest(S)]
    BY <1>1, <2>1, TalliesAgree
  <2> QED  BY <1>3, <2>1, <2>2, TotalIsTally
<1> QED  BY <1>2, <1>3

Amounts(S) == \A row \in S : row.amount \in Nat

\* The order in which the rows are taken does not matter.
LEMMA TotalWithout ==
    ASSUME NEW S, IsFiniteSet(S), Amounts(S)
    PROVE  /\ Ledger!Total(S) \in Nat
           /\ \A row \in S : Ledger!Total(S) = row.amount + Ledger!Total(S \ {row})
<1> DEFINE G == {s \in SUBSET S :
                    /\ Ledger!Total(s) \in Nat
                    /\ \A row \in s : Ledger!Total(s) = row.amount + Ledger!Total(s \ {row})}
<1>1. ASSUME NEW s \in SUBSET S, \A t \in SUBSET s : t # s => t \in G
      PROVE  s \in G
  <2>1. IsFiniteSet(s)
    BY FS_Subset
  <2>2. CASE s = {}
    BY <2>1, <2>2, TotalUnfolds
  <2>3. CASE s # {}
    <3> PICK first : first = First(s)
      OBVIOUS
    <3>1. Ledger!Total(s) = first.amount + Ledger!Total(s \ {first}) /\ first \in s
      BY <2>1, <2>3, TotalUnfolds DEF Rest
    <3>2. s \ {first} \in G /\ Ledger!Total(s \ {first}) \in Nat
      BY <1>1, <3>1
    <3>3. Ledger!Total(s) \in Nat /\ first.amount \in Nat
      BY <3>1, <3>2 DEF Amounts
    <3>4. ASSUME NEW row \in s
          PROVE  Ledger!Total(s) = row.amount + Ledger!Total(s \ {row})
      <4>1. CASE row = first
        BY <3>1, <4>1
      <4>2. CASE row # first
        <5> PICK u : u = (s \ {first}) \ {row}
          OBVIOUS
        <5>1. s \ {row} \in G /\ first \in s \ {row} /\ row \in s \ {first}
          BY <1>1, <3>1, <4>2
        <5>2. u \in G /\ u = (s \ {row}) \ {first}
          BY <1>1, <3>1, <4>2
        <5>3. Ledger!Total(s \ {first}) = row.amount + Ledger!Total(u)
          BY <3>2, <5>1
        <5>4. Ledger!Total(s \ {row}) = first.amount + Ledger!Total(u)
          BY <5>1, <5>2
        <5>5. row.amount \in Nat /\ Ledger!Total(u) \in Nat
          BY <5>2 DEF Amounts
        <5> QED  BY <3>1, <3>3, <5>3, <5>4, <5>5
      <4> QED  BY <4>1, <4>2
    <3> QED  BY <3>3, <3>4
  <2> QED  BY <2>2, <2>3
<1>2. G = SUBSET S
  <2>1. G \in SUBSET SUBSET S
    OBVIOUS
  <2>2. \A s \in SUBSET S : (\A t \in SUBSET s : t # s => t \in G) => s \in G
    BY <1>1
  <2> HIDE DEF G
  <2> QED  BY <2>1, <2>2, SubsetInduction
<1> QED  BY <1>2

LEMMA TotalWith ==
    ASSUME NEW S, IsFiniteSet(S), Amounts(S), NEW row, row \notin S, row.amount \in Nat
    PROVE  Ledger!Total(S \cup {row}) = Ledger!Total(S) + row.amount
<1>1. IsFiniteSet(S \cup {row}) /\ Amounts(S \cup {row})
  BY FS_AddElement DEF Amounts
<1>2. (S \cup {row}) \ {row} = S
  OBVIOUS
<1>3. Ledger!Total(S) \in Nat
  BY TotalWithout
<1>4. Ledger!Total(S \cup {row}) = row.amount + Ledger!Total(S)
  BY <1>1, <1>2, TotalWithout
<1> QED  BY <1>3, <1>4

\* More rows do not sum to less.
LEMMA TotalOfPart ==
    ASSUME NEW S, IsFiniteSet(S), Amounts(S), NEW T \in SUBSET S
    PROVE  Ledger!Total(T) <= Ledger!Total(S)
<1> DEFINE G == {s \in SUBSET S : \A t \in SUBSET s : Ledger!Total(t) <= Ledger!Total(s)}
<1>1. ASSUME NEW s \in SUBSET S, \A t \in SUBSET s : t # s => t \in G
      PROVE  s \in G
  <2> SUFFICES ASSUME NEW t \in SUBSET s PROVE Ledger!Total(t) <= Ledger!Total(s)
    OBVIOUS
  <2>1. IsFiniteSet(s) /\ Amounts(s)
    BY FS_Subset DEF Amounts
  <2>2. IsFiniteSet(t) /\ Amounts(t)
    BY <2>1, FS_Subset DEF Amounts
  <2>3. Ledger!Total(s) \in Nat /\ Ledger!Total(t) \in Nat
    BY <2>1, <2>2, TotalWithout
  <2>4. CASE t = s
    BY <2>3, <2>4
  <2>5. CASE t # s
    <3>1. PICK row \in s : row \notin t
      BY <2>5
    <3>2. s \ {row} \in G /\ t \in SUBSET (s \ {row})
      BY <1>1, <3>1
    <3>3. Ledger!Total(t) <= Ledger!Total(s \ {row})
      BY <3>2
    <3>4. Ledger!Total(s) = row.amount + Ledger!Total(s \ {row})
      BY <2>1, TotalWithout
    <3>5. IsFiniteSet(s \ {row}) /\ Amounts(s \ {row}) /\ row.amount \in Nat
      BY <2>1, FS_Subset DEF Amounts
    <3>6. Ledger!Total(s \ {row}) \in Nat
      BY <3>5, TotalWithout
    <3> QED  BY <2>3, <3>3, <3>4, <3>5, <3>6
  <2> QED  BY <2>4, <2>5
<1>2. G = SUBSET S
  <2>1. G \in SUBSET SUBSET S
    OBVIOUS
  <2>2. \A s \in SUBSET S : (\A t \in SUBSET s : t # s => t \in G) => s \in G
    BY <1>1
  <2> HIDE DEF G
  <2> QED  BY <2>1, <2>2, SubsetInduction
<1> QED  BY <1>2

-----------------------------------------------------------------------------
(* The audit trail *)

AuditInv == IsFiniteSet(log) /\ AuditTrailIsSound

Receives(row, m) == row.target = m /\ row.direction # "adjustment_deduct"
Spends(row, m) ==
    \/ row.initiator = m /\ row.direction = "transfer"
    \/ row.target = m /\ row.direction = "adjustment_deduct"

\* One more row counts on the side it is on, in full.
LEMMA RowCounts ==
    ASSUME NEW S, IsFiniteSet(S), Amounts(S), NEW row, row \notin S, row.amount \in Nat, NEW m
    PROVE  /\ Ledger!Received(S, m) \in Nat /\ Ledger!Spent(S, m) \in Nat
           /\ Ledger!Received(S \cup {row}, m) =
                 Ledger!Received(S, m) + IF Receives(row, m) THEN row.amount ELSE 0
           /\ Ledger!Spent(S \cup {row}, m) =
                 Ledger!Spent(S, m) + IF Spends(row, m) THEN row.amount ELSE 0
<1> DEFINE R(s) == {w \in s : w.target = m /\ w.direction # "adjustment_deduct"}
           P(s) == {w \in s : \/ w.initiator = m /\ w.direction = "transfer"
                              \/ w.target = m /\ w.direction = "adjustment_deduct"}
<1>1. /\ IsFiniteSet(R(S)) /\ Amounts(R(S)) /\ row \notin R(S)
      /\ IsFiniteSet(P(S)) /\ Amounts(P(S)) /\ row \notin P(S)
  BY FS_Subset DEF Amounts
<1>2. /\ R(S \cup {row}) = IF Receives(row, m) THEN R(S) \cup {row} ELSE R(S)
      /\ P(S \cup {row}) = IF Spends(row, m) THEN P(S) \cup {row} ELSE P(S)
  BY DEF Receives, Spends
<1>3. \A s : Ledger!Received(s, m) = Ledger!Total(R(s)) /\ Ledger!Spent(s, m) = Ledger!Total(P(s))
  BY DEF Ledger!Received, Ledger!Spent
<1> HIDE DEF R, P
<1>4. Ledger!Total(R(S)) \in Nat /\ Ledger!Total(P(S)) \in Nat
  BY <1>1, TotalWithout
<1>5. Ledger!Total(R(S) \cup {row}) = Ledger!Total(R(S)) + row.amount
  BY <1>1, TotalWith
<1>6. Ledger!Total(P(S) \cup {row}) = Ledger!Total(P(S)) + row.amount
  BY <1>1, TotalWith
<1>7. Ledger!Received(S \cup {row}, m) =
         Ledger!Received(S, m) + IF Receives(row, m) THEN row.amount ELSE 0
  BY <1>2, <1>3, <1>4, <1>5
<1>8. Ledger!Spent(S \cup {row}, m) =
         Ledger!Spent(S, m) + IF Spends(row, m) THEN row.amount ELSE 0
  BY <1>2, <1>3, <1>4, <1>6
<1> QED  BY <1>3, <1>4, <1>7, <1>8

\* What a member transferred on day d in transactions that began and were
\* checked on it.
DayRows(S, m, d) ==
    {row \in Ledger!TransfersSince(S, m, d) : row.day = d /\ ~Ledger!Straddles(row)}

\* A transfer that the limit allowed keeps the sum of its day within it, and
\* is within it alone; no other row counts.
LEMMA LimitKept ==
    ASSUME NEW S, IsFiniteSet(S), Amounts(S), NEW row, row \notin S, row.amount \in Nat,
           NEW m, NEW d, row.day \in Int, row.checked \in Int, row.day <= row.checked,
           DailyLimit \in Nat,
           Ledger!Total(DayRows(S, m, d)) <= DailyLimit,
           row.direction = "transfer" /\ row.initiator = m =>
              Ledger!TotalToday(S, m, row.checked) + row.amount <= DailyLimit
    PROVE  /\ Ledger!Total(DayRows(S \cup {row}, m, d)) <= DailyLimit
           /\ row.direction = "transfer" /\ row.initiator = m => row.amount <= DailyLimit
<1> PICK D : D = DayRows(S, m, d)
  OBVIOUS
<1> PICK T : T = Ledger!TransfersSince(S, m, row.checked)
  OBVIOUS
<1>1. D \in SUBSET S /\ T \in SUBSET S /\ row \notin D
  BY DEF DayRows, Ledger!TransfersSince
<1>2. /\ IsFiniteSet(D) /\ Amounts(D) /\ IsFiniteSet(T) /\ Amounts(T)
  BY <1>1, FS_Subset DEF Amounts
<1>3. Ledger!Total(D) \in Nat /\ Ledger!Total(T) \in Nat
  BY <1>2, TotalWithout
<1>4. CASE row.direction = "transfer" /\ row.initiator = m
  <2>1. Ledger!Total(T) + row.amount <= DailyLimit
    BY <1>4 DEF Ledger!TotalToday
  <2>2. row.amount <= DailyLimit
    BY <1>3, <2>1
  <2>3. CASE row.day = d /\ ~Ledger!Straddles(row)
    <3>1. row.checked = d
      BY <2>3 DEF Ledger!Straddles
    <3>2. D \in SUBSET T
      BY <3>1 DEF DayRows
    <3>3. Ledger!Total(D) <= Ledger!Total(T)
      BY <1>2, <3>2, TotalOfPart
    <3>4. DayRows(S \cup {row}, m, d) = D \cup {row}
      BY <1>4, <2>3 DEF DayRows, Ledger!TransfersSince
    <3>5. Ledger!Total(D \cup {row}) = Ledger!Total(D) + row.amount
      BY <1>1, <1>2, TotalWith
    <3>6. Ledger!Total(D) + row.amount <= DailyLimit
      BY <1>3, <2>1, <3>3
    <3> QED  BY <2>2, <3>4, <3>5, <3>6
  <2>4. CASE ~(row.day = d /\ ~Ledger!Straddles(row))
    <3>1. DayRows(S \cup {row}, m, d) = D
      BY <2>4 DEF DayRows, Ledger!TransfersSince
    <3> QED  BY <2>2, <3>1
  <2> QED  BY <2>3, <2>4
<1>5. CASE ~(row.direction = "transfer" /\ row.initiator = m)
  <2>1. DayRows(S \cup {row}, m, d) = D
    BY <1>5 DEF DayRows, Ledger!TransfersSince
  <2> QED  BY <1>5, <2>1
<1> QED  BY <1>4, <1>5

\* One more row, allowed by the limit if it is a transfer, and every row there
\* was, respect the limit.
LEMMA LimitStillRespected ==
    ASSUME AuditInv, ConstantAssumptions, NEW row, log' = log \cup {row}, row \notin log,
           Amounts(log), row.amount \in Nat, row.day \in Int, row.checked \in Int,
           row.day <= row.checked,
           \A m \in Members \ Government :
              DailyLimit # 0 /\ row.direction = "transfer" /\ row.initiator = m =>
                 Ledger!TotalToday(log, m, row.checked) + row.amount <= DailyLimit
    PROVE  Ledger!DailyLimitRespected'
<1> SUFFICES ASSUME DailyLimit # 0, NEW m \in Members \ Government
             PROVE  /\ \A d \in Ledger!Days :
                          Ledger!Total(DayRows(log', m, d)) <= DailyLimit
                    /\ \A w \in Ledger!TransfersSince(log', m, 0) : w.amount <= DailyLimit
  BY DEF Ledger!DailyLimitRespected, DayRows
<1>0. DailyLimit \in Nat /\ IsFiniteSet(log)
  BY DEF ConstantAssumptions, AuditInv
<1>1. /\ \A d \in Ledger!Days : Ledger!Total(DayRows(log, m, d)) <= DailyLimit
      /\ \A w \in Ledger!TransfersSince(log, m, 0) : w.amount <= DailyLimit
  BY DEF AuditInv, AuditTrailIsSound, Ledger!DailyLimitRespected, DayRows
<1>2. ASSUME NEW d \in Ledger!Days
      PROVE  /\ Ledger!Total(DayRows(log', m, d)) <= DailyLimit
             /\ row.direction = "transfer" /\ row.initiator = m => row.amount <= DailyLimit
  BY <1>0, <1>1, LimitKept
<1>3. 0 \in Ledger!Days
  BY DEF Ledger!Days, ConstantAssumptions
<1>4. ASSUME NEW w \in Ledger!TransfersSince(log', m, 0) PROVE w.amount <= DailyLimit
  <2>1. /\ w \in log \/ w = row
        /\ w.direction = "transfer" /\ w.initiator = m /\ w.day >= 0
    BY DEF Ledger!TransfersSince
  <2>2. \/ w \in Ledger!TransfersSince(log, m, 0)
        \/ row.direction = "transfer" /\ row.initiator = m /\ w = row
    BY <2>1 DEF Ledger!TransfersSince
  <2> QED  BY <1>1, <1>2, <1>3, <2>2
<1> QED  BY <1>2, <1>4

LEMMA TransferAudited ==
    ASSUME TypeOK, AuditInv, NEW x \in TxIds, NEW r \in Requests, NEW d \in 0..day,
           NEW b \in 0..d, Ledger!Transfer(x, r, b, d)
    PROVE  AuditInv'
<1> ConstantAssumptions
  BY Constants
<1> PICK row : row = Ledger!AuditRow(x, r, b, d, Balances[r.to] + r.amount)
  OBVIOUS
<1>1. /\ r.by \in Members /\ r.to \in Members /\ r.by # r.to /\ r.amount \in Nat
      /\ r.op = "transfer"
  BY DEF Ledger!Transfer, Ledger!Valid, ConstantAssumptions
<1>2. /\ row.id = x /\ row.direction = "transfer" /\ row.initiator = r.by /\ row.target = r.to
      /\ row.amount = r.amount /\ row.day = b /\ row.checked = d
  BY <1>1 DEF Ledger!AuditRow, Ledger!Direction, Ledger!Abs
<1>3. /\ row \notin log /\ log' = log \cup {row} /\ Amounts(log) /\ IsFiniteSet(log)
      /\ d \in Int /\ b \in Int /\ b <= d /\ Balances \in [Members -> Int]
      /\ Balances' = [Balances EXCEPT ![r.by] = @ - r.amount, ![r.to] = @ + r.amount]
  BY <1>2 DEF Ledger!Transfer, Ledger!Fresh, AuditInv, TypeOK, Ledger!LedgerTypeOK, Amounts,
              ConstantAssumptions
<1>4. IsFiniteSet(log')
  BY <1>3, FS_AddElement
<1>5. ASSUME NEW m \in Members
      PROVE  Balances'[m] = InitialBalance[m] + Ledger!Received(log', m) - Ledger!Spent(log', m)
  <2>1. /\ Balances[m] = InitialBalance[m] + Ledger!Received(log, m) - Ledger!Spent(log, m)
        /\ InitialBalance[m] \in Int
    BY DEF AuditInv, AuditTrailIsSound, Ledger!AuditExplainsBalances, ConstantAssumptions
  <2>2. /\ Ledger!Received(log, m) \in Nat /\ Ledger!Spent(log, m) \in Nat
        /\ Ledger!Received(log', m) =
              Ledger!Received(log, m) + IF Receives(row, m) THEN row.amount ELSE 0
        /\ Ledger!Spent(log', m) =
              Ledger!Spent(log, m) + IF Spends(row, m) THEN row.amount ELSE 0
    <3>1. /\ IsFiniteSet(log) /\ Amounts(log) /\ row \notin log /\ row.amount \in Nat
          /\ log' = log \cup {row}
      BY <1>1, <1>2, <1>3
    <3> QED  BY <3>1, RowCounts
  <2>3. (Receives(row, m) <=> m = r.to) /\ (Spends(row, m) <=> m = r.by)
    BY <1>2 DEF Receives, Spends
  <2>4. Balances'[m] = IF m = r.to THEN Balances[m] + r.amount
                       ELSE IF m = r.by THEN Balances[m] - r.amount ELSE Balances[m]
    BY <1>1, <1>3
  <2> QED  BY <1>1, <1>2, <2>1, <2>2, <2>3, <2>4
<1>6. Ledger!DailyLimitRespected'
  <2>1. ASSUME NEW m \in Members \ Government, DailyLimit # 0, row.initiator = m
        PROVE  Ledger!TotalToday(log, m, row.checked) + row.amount <= DailyLimit
    BY <1>2, <2>1 DEF Ledger!Transfer, Ledger!WithinLimit
  <2> QED  BY <1>1, <1>2, <1>3, <2>1, LimitStillRespected
<1> QED  BY <1>4, <1>5, <1>6 DEF AuditInv, AuditTrailIsSound, Ledger!AuditExplainsBalances

LEMMA AdjustmentAudited ==
    ASSUME TypeOK, AuditInv, NEW x \in TxIds, NEW r \in Requests, NEW d \in 0..day,
           NEW b \in 0..d, Ledger!Adjust(x, r, b, d)
    PROVE  AuditInv'
<1> ConstantAssumptions
  BY Constants
<1> PICK row : row = Ledger!AuditRow(x, r, b, d, Balances[r.to] + r.amount)
  OBVIOUS
<1>1. /\ r.by \in Members /\ r.to \in Members /\ r.amount \in Int /\ r.amount # 0
      /\ r.op = "adjust"
  BY DEF Ledger!Adjust, Ledger!Valid, ConstantAssumptions
<1>2. /\ row.id = x /\ row.target = r.to /\ row.day = b /\ row.checked = d /\ row.amount \in Nat
      /\ row.amount = IF r.amount < 0 THEN -r.amount ELSE r.amount
      /\ row.direction = IF r.amount > 0 THEN "adjustment_grant" ELSE "adjustment_deduct"
  BY <1>1 DEF Ledger!AuditRow, Ledger!Direction, Ledger!Abs
<1>3. /\ row \notin log /\ log' = log \cup {row} /\ Amounts(log) /\ IsFiniteSet(log)
      /\ d \in Int /\ b \in Int /\ b <= d /\ Balances \in [Members -> Int]
      /\ Balances' = [Balances EXCEPT ![r.to] = @ + r.amount]
  BY <1>2 DEF Ledger!Adjust, Ledger!Fresh, AuditInv, TypeOK, Ledger!LedgerTypeOK, Amounts,
              ConstantAssumptions
<1>4. IsFiniteSet(log')
  BY <1>3, FS_AddElement
<1>5. ASSUME NEW m \in Members
      PROVE  Balances'[m] = InitialBalance[m] + Ledger!Received(log', m) - Ledger!Spent(log', m)
  <2>1. /\ Balances[m] = InitialBalance[m] + Ledger!Received(log, m) - Ledger!Spent(log, m)
        /\ InitialBalance[m] \in Int
    BY DEF AuditInv, AuditTrailIsSound, Ledger!AuditExplainsBalances, ConstantAssumptions
  <2>2. /\ Ledger!Received(log, m) \in Nat /\ Ledger!Spent(log, m) \in Nat
        /\ Ledger!Received(log', m) =
              Ledger!Received(log, m) + IF Receives(row, m) THEN row.amount ELSE 0
        /\ Ledger!Spent(log', m) =
              Ledger!Spent(log, m) + IF Spends(row, m) THEN row.amount ELSE 0
    BY <1>2, <1>3, RowCounts
  <2>3. /\ Receives(row, m) <=> m = r.to /\ r.amount > 0
        /\ Spends(row, m) <=> m = r.to /\ r.amount < 0
    BY <1>1, <1>2 DEF Receives, Spends
  <2>4. Balances'[m] = IF m = r.to THEN Balances[m] + r.amount ELSE Balances[m]
    BY <1>1, <1>3
  <2> QED  BY <1>1, <1>2, <2>1, <2>2, <2>3, <2>4
<1>6. Ledger!DailyLimitRespected'
  <2>1. row.direction # "transfer"
    BY <1>2
  <2> QED  BY <1>2, <1>3, <2>1, LimitStillRespected
<1> QED  BY <1>4, <1>5, <1>6 DEF AuditInv, AuditTrailIsSound, Ledger!AuditExplainsBalances

LEMMA AuditKept ==
    ASSUME TypeOK, AuditInv, [Ledger!LedgerNext]_(Ledger!ledgerVars)
    PROVE  AuditInv'
<1>1. CASE log' = log /\ Balances' = Balances
  BY <1>1 DEF AuditInv, AuditTrailIsSound, Ledger!AuditExplainsBalances,
              Ledger!DailyLimitRespected, Ledger!TransfersSince
<1>2. CASE \E x \in TxIds, r \in Requests, d \in 0..day : \E b \in 0..d :
              Ledger!Transfer(x, r, b, d) \/ Ledger!Adjust(x, r, b, d)
  BY <1>2, TransferAudited, AdjustmentAudited
<1> QED  BY <1>1, <1>2 DEF Ledger!LedgerNext, Ledger!NextDay, Ledger!ledgerVars

LEMMA AuditStarts == Init => AuditInv
<1> SUFFICES ASSUME Init PROVE AuditInv
  OBVIOUS
<1>1. log = {} /\ IsFiniteSet(log)
  BY FS_EmptySet DEF Init
<1>2. Ledger!Total({}) = 0
  BY <1>1, TotalUnfolds
<1>3. ASSUME NEW m \in Members
      PROVE  Balances[m] = InitialBalance[m] + Ledger!Received(log, m) - Ledger!Spent(log, m)
  <2>1. Ledger!Received(log, m) = 0 /\ Ledger!Spent(log, m) = 0
    BY <1>1, <1>2 DEF Ledger!Received, Ledger!Spent
  <2>2. Balances[m] = InitialBalance[m] /\ InitialBalance[m] \in Int
    BY Constants DEF Balances, Init, ConstantAssumptions
  <2> QED  BY <2>1, <2>2
<1>4. Ledger!DailyLimitRespected
  <2>1. \A m, d : /\ Ledger!TransfersSince(log, m, d) = {}
                 /\ {row \in Ledger!TransfersSince(log, m, d) :
                        row.day = d /\ ~Ledger!Straddles(row)} = {}
    BY <1>1 DEF Ledger!TransfersSince
  <2>2. DailyLimit \in Nat
    BY Constants DEF ConstantAssumptions
  <2> QED  BY <1>2, <2>1, <2>2 DEF Ledger!DailyLimitRespected
<1> QED  BY <1>1, <1>3, <1>4 DEF AuditInv, AuditTrailIsSound, Ledger!AuditExplainsBalances

\* Whatever transactions interleave, wait, deadlock, lose their connection or
\* cross midnight: the audit rows explain every committed balance, and the
\* transfers of a member dated on one day stay within the daily limit, those
\* apart whose transaction straddled midnight; each of these alone does.
THEOREM AuditExplains == Spec => []AuditTrailIsSound
<1>1. Inv /\ AuditInv /\ [Next]_vars => AuditInv'
  BY StepImplements, AuditKept DEF Inv
<1>2. AuditInv => AuditTrailIsSound
  BY DEF AuditInv
<1> QED  BY InitInv, NextInv, AuditStarts, <1>1, <1>2, PTL DEF Spec

=============================================================================

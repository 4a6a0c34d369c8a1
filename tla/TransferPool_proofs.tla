------------------------ MODULE TransferPool_proofs -------------------------
(***************************************************************************)
(* Proofs about TransferPool for any transfers, traffic and bounds, with   *)
(* failures and restarts.                                                  *)
(*                                                                         *)
(* The retry counter bounds the retry tasks, and completed means paid:     *)
(* nearly every step is tame, that is, it wakes no task that was never     *)
(* scheduled, completes no transfer and forgets no audit row.              *)
(*                                                                         *)
(* Payments are backed by rounds of checks: with the payments made, count  *)
(* the runs of _retry_checks still to start and the payment the row may    *)
(* still grant; a step that schedules no retry does not raise the sum.     *)
(*                                                                         *)
(* Without failures nothing is forgotten: the last result announced for a  *)
(* check is the stored one, an approval is announced or being settled, and *)
(* a full check store with a failure in it has started a retry.            *)
(***************************************************************************)
EXTENDS TransferPool, FiniteSetTheorems, SequenceTheorems, TLAPS

TaskType ==
    [pc: {"none", "done"} \cup Alive, cancelled: BOOLEAN,
     attempt: 1..MaxAttempts]

RowType ==
    [status: Statuses, checks: [Checks -> CheckValues], retry: Nat,
     expired: BOOLEAN]

\* The part of TypeOK that the invariant rests on.
Shape ==
    /\ pending \in [Transfers -> RowType]
    /\ tasks \in [Transfers -> [Retries -> TaskType]]
    /\ tracked \in [Transfers -> Nat]

IInv == Shape /\ RetriesCounted /\ CompletedMeansPaid

\* A step that starts no retry and completes no transfer.
Tame ==
    /\ log \subseteq log'
    /\ \A t \in Transfers :
          /\ pending'[t].retry = pending[t].retry
          /\ pending'[t].status = "completed" => pending[t].status = "completed"
          /\ tracked'[t] \in {0, tracked[t]}
          /\ \A k \in Retries : tasks[t][k] = NoTask => tasks'[t][k] = NoTask

-----------------------------------------------------------------------------
(* Tame steps *)

LEMMA BoundIsNatural == MaxRetry \in Nat /\ MaxAttempts \in Nat /\ 1 \in 1..MaxAttempts
BY PoolBoundsAssumption

\* A payment that has been made is never forgotten.
LEMMA PaymentsStay ==
    ASSUME log \subseteq log', NEW t \in Transfers, Executions(t) # {}
    PROVE  Executions(t)' # {}
BY DEF Executions

LEMMA TameStep ==
    ASSUME IInv, Shape', Tame
    PROVE  IInv'
<1>1. RetriesCounted'
  <2> SUFFICES ASSUME NEW t \in Transfers
               PROVE  /\ pending'[t].retry <= MaxRetry
                      /\ tracked'[t] <= pending'[t].retry
                      /\ \A k \in Retries :
                            k > pending'[t].retry => tasks'[t][k] = NoTask
    BY DEF RetriesCounted, NoTask, NoChecks
  <2>1. /\ pending[t].retry \in Nat /\ pending[t].retry <= MaxRetry
        /\ tracked[t] <= pending[t].retry
        /\ \A k \in Retries : k > pending[t].retry => tasks[t][k] = NoTask
    BY DEF IInv, Shape, RowType, RetriesCounted
  <2>2. /\ pending'[t].retry = pending[t].retry
        /\ tracked'[t] \in {0, tracked[t]}
        /\ \A k \in Retries : tasks[t][k] = NoTask => tasks'[t][k] = NoTask
    BY DEF Tame
  <2> QED
    BY <2>1, <2>2
<1>2. CompletedMeansPaid'
  BY PaymentsStay DEF IInv, CompletedMeansPaid, Tame
<1> QED
  BY <1>1, <1>2 DEF IInv

\* Everything the pool remembers about retries, left alone.
Unscheduled == UNCHANGED <<pending, tasks, tracked>>

LEMMA UnscheduledIsTame ==
    ASSUME IInv, Unscheduled, log \subseteq log'
    PROVE  Shape' /\ Tame
BY DEF IInv, Shape, Unscheduled, Tame

\* A change of status other than completion.
LEMMA StatusIsTame ==
    ASSUME IInv, NEW t \in Transfers, NEW s \in Statuses \ {"completed"},
           SetStatus(t, s), UNCHANGED <<log, tasks, tracked>>
    PROVE  Shape' /\ Tame
BY DEF IInv, Shape, RowType, SetStatus, Tame

\* A retry task that was scheduled moves on.
Moves(t, k) ==
    /\ tasks[t][k].pc # "none"
    /\ \E new \in TaskType : tasks' = [tasks EXCEPT ![t][k] = new]

\* No task is tracked anew.
Untracks(t) == tracked' \in {tracked, [tracked EXCEPT ![t] = 0]}

\* No retry is counted and no transfer completed.
RowsKept ==
    /\ pending' \in [Transfers -> RowType]
    /\ \A t \in Transfers :
          /\ pending'[t].retry = pending[t].retry
          /\ pending'[t].status = "completed" => pending[t].status = "completed"

LEMMA TaskIsTame ==
    ASSUME IInv, NEW t \in Transfers, NEW k \in Retries,
           Moves(t, k), Untracks(t), RowsKept, UNCHANGED log
    PROVE  Shape' /\ Tame
<1>0. PICK new \in TaskType : tasks' = [tasks EXCEPT ![t][k] = new]
  BY DEF Moves
<1>1. Shape'
  BY <1>0 DEF IInv, Shape, Untracks, RowsKept
<1>2. ASSUME NEW u \in Transfers, NEW j \in Retries, tasks[u][j] = NoTask
      PROVE  tasks'[u][j] = NoTask
  BY <1>0, <1>2 DEF IInv, Shape, NoTask, Moves
<1> QED
  BY <1>1, <1>2 DEF IInv, Shape, Tame, Untracks, RowsKept

-----------------------------------------------------------------------------
(* The ledger, the environment and the handler *)

LEMMA LedgerKeepsRows ==
    ASSUME \/ UNCHANGED ledgerVars
           \/ NextDay
           \/ \E x, r : TransferNow(x, r) \/ AdjustNow(x, r)
    PROVE  log \subseteq log'
BY DEF ledgerVars, NextDay, TransferNow, AdjustNow, Transfer, Adjust

LEMMA EnvironmentStep ==
    ASSUME IInv, OtherTraffic \/ Midnight \/ ListenerDrops
    PROVE  IInv'
<1>1. log \subseteq log'
  BY LedgerKeepsRows DEF OtherTraffic, Midnight, ListenerDrops
<1>2. Unscheduled
  BY DEF OtherTraffic, Midnight, ListenerDrops, Unscheduled, poolVars
<1> QED
  BY <1>1, <1>2, UnscheduledIsTame, TameStep

LEMMA RestartStep ==
    ASSUME IInv, Restart
    PROVE  IInv'
<1>1. log \subseteq log'
  BY LedgerKeepsRows DEF Restart
<1>2. NoTask \in TaskType /\ 0 \in Nat
  BY BoundIsNatural DEF NoTask, TaskType
<1>3. Shape'
  BY <1>2 DEF IInv, Shape, Restart
<1>4. Tame
  BY <1>1 DEF IInv, Shape, Restart, Tame
<1> QED
  BY <1>3, <1>4, TameStep

LEMMA RowStep ==
    ASSUME IInv, NEW t \in Transfers, Create(t) \/ Expire(t) \/ CleanUp(t)
    PROVE  IInv'
<1>1. log \subseteq log' /\ UNCHANGED <<tasks, tracked>>
  BY LedgerKeepsRows DEF Create, Expire, CleanUp
<1>2. CASE Create(t)
  <2> DEFINE row == [pending[t] EXCEPT
                        !.status = "checking",
                        !.checks = [c \in Checks |-> Verdict(t, c)]]
  <2>1. [c \in Checks |-> Verdict(t, c)] \in [Checks -> CheckValues]
    BY DEF Verdict, CheckValues
  <2>2. row \in RowType
    BY <2>1 DEF IInv, Shape, RowType, Statuses
  <2>3. /\ Approve(row) \in RowType
        /\ Approve(row).retry = pending[t].retry
        /\ Approve(row).status # "completed"
    BY <2>2 DEF IInv, Shape, Approve, RowType, Statuses
  <2>4. pending' = [pending EXCEPT ![t] = Approve(row)]
    BY <1>2 DEF Create
  <2> HIDE DEF row
  <2>5. Shape' /\ Tame
    BY <1>1, <2>3, <2>4 DEF IInv, Shape, Tame
  <2> QED
    BY <2>5, TameStep
<1>3. CASE Expire(t)
  <2>1. Shape' /\ Tame
    BY <1>1, <1>3 DEF IInv, Shape, RowType, Expire, Tame
  <2> QED
    BY <2>1, TameStep
<1>4. CASE CleanUp(t)
  <2>1. UNCHANGED log
    BY <1>4 DEF CleanUp, ledgerVars
  <2>2. SetStatus(t, "rejected")
    BY <1>4 DEF CleanUp
  <2> QED
    BY <1>1, <2>1, <2>2, StatusIsTame, TameStep DEF Statuses
<1> QED
  BY <1>2, <1>3, <1>4

\* Cancelling reaches a task that was scheduled, if any.
LEMMA CancelIsTame ==
    ASSUME IInv, NEW t \in Transfers, Cancel(t),
           UNCHANGED <<log, pending, tracked>>
    PROVE  Shape' /\ Tame
<1> DEFINE k == tracked[t]
<1>1. CASE UNCHANGED tasks
  BY <1>1, UnscheduledIsTame DEF Unscheduled
<1>2. CASE k # 0 /\ tasks[t][k].pc \in Alive /\ ~UNCHANGED tasks
  <2>1. k \in Retries /\ pending[t].retry \in Nat
    BY <1>2, BoundIsNatural
    DEF IInv, Shape, RowType, RetriesCounted, Retries
  <2>2. tasks[t][k] \in TaskType /\ tasks[t][k].pc # "none"
    BY <1>2, <2>1 DEF IInv, Shape, TaskType, Alive, InFlight, Checks
  <2>3. \E new \in TaskType : tasks' = [tasks EXCEPT ![t][k] = new]
    <3>1. CASE tasks[t][k].pc = "sleep"
      <4>1. tasks' = [tasks EXCEPT ![t][k] = [@ EXCEPT !.pc = "done"]]
        BY <1>2, <3>1 DEF Cancel
      <4>2. [tasks[t][k] EXCEPT !.pc = "done"] \in TaskType
        BY <2>2 DEF TaskType
      <4> QED
        BY <4>1, <4>2
    <3>2. CASE tasks[t][k].pc # "sleep"
      <4>1. tasks' = [tasks EXCEPT ![t][k] = [@ EXCEPT !.cancelled = TRUE]]
        BY <1>2, <3>2 DEF Cancel
      <4>2. [tasks[t][k] EXCEPT !.cancelled = TRUE] \in TaskType
        BY <2>2 DEF TaskType
      <4> QED
        BY <4>1, <4>2
    <3> QED
      BY <3>1, <3>2
  <2>4. Moves(t, k)
    BY <2>2, <2>3 DEF Moves
  <2>5. Untracks(t) /\ RowsKept
    BY DEF Untracks, RowsKept, IInv, Shape
  <2> QED
    BY <2>1, <2>4, <2>5, TaskIsTame
<1> QED
  BY <1>1, <1>2 DEF Cancel

LEMMA HandleResultStep ==
    ASSUME IInv, NEW t \in Transfers, HandleResult(t)
    PROVE  IInv'
<1>1. UNCHANGED <<log, pending, tracked>> /\ (Cancel(t) \/ UNCHANGED tasks)
  BY DEF HandleResult, ledgerVars
<1>2. Shape' /\ Tame
  <2>1. CASE Cancel(t)
    BY <1>1, <2>1, CancelIsTame
  <2>2. CASE UNCHANGED tasks
    BY <1>1, <2>2, UnscheduledIsTame DEF Unscheduled
  <2> QED
    BY <1>1, <2>1, <2>2
<1> QED
  BY <1>2, TameStep

\* The counter and the task it counts appear in the same step.
LEMMA ScheduleRetryStep ==
    ASSUME IInv, NEW t \in Transfers, ScheduleRetry(t)
    PROVE  IInv'
<1> DEFINE k == pending[t].retry + 1
<1>1. /\ k \in Retries /\ k \in Nat /\ k <= MaxRetry
      /\ pending[t] \in RowType
  BY BoundIsNatural DEF IInv, Shape, RowType, ScheduleRetry, Retries
<1>2. /\ pending' = [pending EXCEPT ![t] = [@ EXCEPT !.retry = k]]
      /\ tasks' = [tasks EXCEPT ![t][k] = NewTask]
      /\ tracked' = [tracked EXCEPT ![t] = k]
      /\ UNCHANGED log
  BY DEF ScheduleRetry, ledgerVars
<1>3. NewTask \in TaskType
  BY BoundIsNatural DEF NewTask, NoTask, TaskType, Alive
<1>4. /\ [pending[t] EXCEPT !.retry = k] \in RowType
      /\ [pending[t] EXCEPT !.retry = k].retry = k
      /\ [pending[t] EXCEPT !.retry = k].status = pending[t].status
  BY <1>1 DEF RowType
<1>5. Shape'
  BY <1>1, <1>2, <1>3, <1>4 DEF IInv, Shape
<1>6. RetriesCounted'
  <2> SUFFICES ASSUME NEW u \in Transfers
               PROVE  /\ pending'[u].retry <= MaxRetry
                      /\ tracked'[u] <= pending'[u].retry
                      /\ \A j \in Retries :
                            j > pending'[u].retry => tasks'[u][j] = NoTask
    BY DEF RetriesCounted, NoTask, NoChecks
  <2>1. /\ pending[u].retry <= MaxRetry /\ pending[u].retry \in Nat
        /\ tracked[u] <= pending[u].retry
        /\ \A j \in Retries : j > pending[u].retry => tasks[u][j] = NoTask
    BY DEF IInv, Shape, RowType, RetriesCounted
  <2>2. CASE u = t
    <3>1. pending'[u].retry = k /\ tracked'[u] = k
      BY <1>2, <1>4, <2>2 DEF IInv, Shape
    <3>2. ASSUME NEW j \in Retries, j > k
          PROVE  tasks'[u][j] = NoTask
      <4>1. j # k /\ j > pending[u].retry
        BY <1>1, <2>1, <2>2, <3>2, BoundIsNatural DEF Retries
      <4> QED
        BY <1>2, <2>1, <2>2, <4>1 DEF IInv, Shape
    <3> QED
      BY <1>1, <3>1, <3>2
  <2>3. CASE u # t
    BY <1>2, <2>1, <2>3 DEF IInv, Shape
  <2> QED
    BY <2>2, <2>3
<1>7. CompletedMeansPaid'
  <2> SUFFICES ASSUME NEW u \in Transfers, pending'[u].status = "completed"
               PROVE  Executions(u)' # {}
    BY DEF CompletedMeansPaid
  <2>1. pending[u].status = "completed"
    BY <1>2, <1>4 DEF IInv, Shape
  <2> QED
    BY <1>2, <2>1, PaymentsStay DEF IInv, CompletedMeansPaid
<1> QED
  BY <1>5, <1>6, <1>7 DEF IInv

\* The status and the audit row appear in the same step.
LEMMA ExecuteStep ==
    ASSUME IInv, NEW t \in Transfers, Execute(t)
    PROVE  IInv'
<1> PICK b \in BegunBy(day) : Transfer(ExecutionId(t), Request[t], b, day)
  BY DEF Execute, TransferNow
<1> DEFINE row == AuditRow(ExecutionId(t), Request[t], b, day,
                           balance[Request[t].to] + Request[t].amount)
           paid == [pending[t] EXCEPT !.status = "completed"]
<1>1. /\ pending' = [pending EXCEPT ![t] = paid]
      /\ UNCHANGED <<tasks, tracked>>
      /\ log' = log \cup {row}
  BY DEF Execute, SetStatus, Transfer
<1>2. paid \in RowType /\ paid.retry = pending[t].retry
  BY DEF IInv, Shape, RowType, Statuses
<1>3. row.id[1] = t
  BY DEF AuditRow, ExecutionId
<1> HIDE DEF row, paid
<1>4. Shape'
  BY <1>1, <1>2 DEF IInv, Shape
<1>5. RetriesCounted'
  BY <1>1, <1>2 DEF IInv, Shape, RetriesCounted, NoTask, NoChecks
<1>6. CompletedMeansPaid'
  <2> SUFFICES ASSUME NEW u \in Transfers, pending'[u].status = "completed"
               PROVE  Executions(u)' # {}
    BY DEF CompletedMeansPaid
  <2>1. CASE u = t
    BY <1>1, <1>3, <2>1 DEF Executions
  <2>2. CASE u # t
    <3>1. pending[u].status = "completed"
      BY <1>1, <2>2 DEF IInv, Shape
    <3> QED
      BY <1>1, <3>1, PaymentsStay DEF IInv, CompletedMeansPaid
  <2> QED
    BY <2>1, <2>2
<1> QED
  BY <1>4, <1>5, <1>6 DEF IInv

LEMMA HandlerStep ==
    ASSUME IInv, NEW t \in Transfers, Handle(t) \/ HandlerFails(t)
    PROVE  IInv'
<1>1. CASE HandleResult(t)
  BY <1>1, HandleResultStep
<1>2. CASE ScheduleRetry(t)
  BY <1>2, ScheduleRetryStep
<1>3. CASE Execute(t)
  BY <1>3, ExecuteStep
<1>4. CASE RejectAtLimit(t) \/ SettleRefused(t)
  <2>1. SetStatus(t, "rejected") /\ UNCHANGED <<log, tasks, tracked>>
    BY <1>4 DEF RejectAtLimit, SettleRefused, ledgerVars
  <2> QED
    BY <2>1, StatusIsTame, TameStep DEF Statuses
<1>5. CASE NotifyDenied(t) \/ SkipExecute(t) \/ ExecuteRefused(t)
           \/ HandlerFails(t)
  <2>1. Unscheduled /\ log \subseteq log'
    BY <1>5 DEF NotifyDenied, SkipExecute, ExecuteRefused, HandlerFails,
                ledgerVars, Unscheduled
  <2> QED
    BY <2>1, UnscheduledIsTame, TameStep
<1> QED
  BY <1>1, <1>2, <1>3, <1>4, <1>5 DEF Handle

-----------------------------------------------------------------------------
(* Retry tasks *)

\* The next place of a task that a statement of _retry_checks returns to.
LEMMA AdvanceTask ==
    ASSUME IInv, NEW t \in Transfers, NEW k \in Retries,
           tasks[t][k].pc \in InFlight, Advance(t, k)
    PROVE  \E new \in TaskType : tasks' = [tasks EXCEPT ![t][k] = new]
<1> DEFINE pc == IF tasks[t][k].cancelled THEN "finally"
                 ELSE Following(tasks[t][k].pc)
<1>1. tasks' = [tasks EXCEPT ![t][k] = [@ EXCEPT !.pc = pc]]
  BY DEF Advance, IInv, Shape
<1>2. pc \in Alive
  BY DEF InFlight, Checks, Following, Alive
<1>3. tasks[t][k] \in TaskType
  BY DEF IInv, Shape
<1> HIDE DEF pc
<1>4. [tasks[t][k] EXCEPT !.pc = pc] \in TaskType
  BY <1>2, <1>3 DEF TaskType
<1> QED
  BY <1>1, <1>4

LEMMA RetryTaskStep ==
    ASSUME IInv, NEW t \in Transfers, NEW k \in Retries,
           RetryTask(t, k) \/ RetryFails(t, k)
    PROVE  IInv'
<1>1. tasks[t][k] \in TaskType
  BY DEF IInv, Shape
<1>2. UNCHANGED pending => RowsKept
  BY DEF IInv, Shape, RowsKept
<1>3. UNCHANGED log /\ tasks[t][k].pc # "none" /\ Untracks(t)
  BY DEF RetryTask, Wake, SetChecking, RetryCheck, RemoveStore, Cancelled,
         Finally, RetryFails, ledgerVars, InFlight, Checks, Untracks
<1>4. RowsKept /\ Moves(t, k)
  <2>1. CASE Wake(t, k)
    <3>1. [tasks[t][k] EXCEPT !.pc = "set_checking"] \in TaskType
      BY <1>1 DEF TaskType, Alive, InFlight
    <3> QED
      BY <1>2, <1>3, <2>1, <3>1 DEF Wake, Moves
  <2>2. CASE SetChecking(t, k)
    <3>1. Moves(t, k)
      BY <1>3, <2>2, AdvanceTask DEF SetChecking, InFlight, Moves
    <3>2. pending' = [pending EXCEPT ![t] = [@ EXCEPT !.status = "checking"]]
      BY <2>2 DEF SetChecking, SetStatus
    <3>3. RowsKept
      BY <3>2 DEF IInv, Shape, RowType, Statuses, RowsKept
    <3> QED
      BY <3>1, <3>3
  <2>3. CASE RetryCheck(t, k)
    <3>1. Moves(t, k)
      BY <1>3, <2>3, AdvanceTask DEF RetryCheck, InFlight, Moves
    <3> DEFINE c == tasks[t][k].pc
               checked == [pending[t] EXCEPT !.checks[c] = Verdict(t, c)]
    <3>2. pending' = [pending EXCEPT ![t] = Approve(checked)]
      BY <2>3 DEF RetryCheck, RunCheck
    <3>3. c \in Checks /\ Verdict(t, c) \in CheckValues
      BY <2>3 DEF RetryCheck, Verdict, CheckValues
    <3>4. /\ checked \in RowType /\ checked.retry = pending[t].retry
          /\ checked.status = pending[t].status
      BY <3>3 DEF IInv, Shape, RowType
    <3> HIDE DEF c, checked
    <3>5. /\ Approve(checked) \in RowType
          /\ Approve(checked).retry = pending[t].retry
          /\ Approve(checked).status = "completed" =>
                pending[t].status = "completed"
      BY <3>4 DEF Approve, RowType, Statuses
    <3>6. RowsKept
      BY <3>2, <3>5 DEF IInv, Shape, RowsKept
    <3> QED
      BY <3>1, <3>6
  <2>4. CASE RemoveStore(t, k)
    BY <1>2, <1>3, <2>4, AdvanceTask DEF RemoveStore, InFlight, Moves
  <2>5. CASE Cancelled(t, k)
    <3>1. [tasks[t][k] EXCEPT !.pc = "finally"] \in TaskType
      BY <1>1 DEF TaskType, Alive
    <3> QED
      BY <1>2, <1>3, <2>5, <3>1 DEF Cancelled, Moves
  <2>6. CASE Finally(t, k)
    <3>1. tasks[t][k].attempt < MaxAttempts =>
             tasks[t][k].attempt + 1 \in 1..MaxAttempts
      BY <1>1, BoundIsNatural DEF TaskType
    <3>2. tasks[t][k].attempt < MaxAttempts =>
             [tasks[t][k] EXCEPT !.pc = "backoff",
                                 !.attempt = tasks[t][k].attempt + 1] \in TaskType
      BY <1>1, <3>1 DEF TaskType, Alive
    <3>3. [tasks[t][k] EXCEPT !.pc = "done", !.cancelled = FALSE] \in TaskType
      BY <1>1 DEF TaskType
    <3>4. \/ /\ tasks' = [tasks EXCEPT ![t][k] =
                   [tasks[t][k] EXCEPT !.pc = "backoff",
                                       !.attempt = tasks[t][k].attempt + 1]]
             /\ tasks[t][k].attempt < MaxAttempts
          \/ tasks' = [tasks EXCEPT ![t][k] =
                [tasks[t][k] EXCEPT !.pc = "done", !.cancelled = FALSE]]
      BY <2>6 DEF Finally
    <3>5. Moves(t, k)
      BY <1>3, <3>2, <3>3, <3>4 DEF Moves
    <3> QED
      BY <1>2, <2>6, <3>5 DEF Finally
  <2>7. CASE RetryFails(t, k)
    <3>1. \A pc \in {"failed", "finally"} :
              [tasks[t][k] EXCEPT !.pc = pc] \in TaskType
      BY <1>1 DEF TaskType, Alive
    <3> QED
      BY <1>2, <1>3, <2>7, <3>1 DEF RetryFails, Moves
  <2> QED
    BY <2>1, <2>2, <2>3, <2>4, <2>5, <2>6, <2>7 DEF RetryTask
<1>5. Shape' /\ Tame
  BY <1>3, <1>4, TaskIsTame
<1> QED
  BY <1>5, TameStep

-----------------------------------------------------------------------------
(* What the rounds of checks may still pay *)

\* The runs of _retry_checks that a task has still to start, by attempt.
ToCome(task) ==
    {a \in 1..MaxAttempts :
        \/ task.pc \in {"sleep", "set_checking", "backoff"} /\ a >= task.attempt
        \/ task.pc \in Alive /\ a > task.attempt}

\* The payment that the round now being checked, or approved, may make.
Credit(row) ==
    IF row.status \in {"none", "checking", "approved"} THEN {<<0, 0>>} ELSE {}

Runs == Retries \X (1..MaxAttempts)

Unspent(t) ==
    {r \in Runs : r[2] \in ToCome(tasks[t][r[1]])} \cup Credit(pending[t])

\* Payments made and payments that can still be made are rounds counted.
Backed(t) ==
    /\ IsFiniteSet(Executions(t))
    /\ Cardinality(Executions(t)) + Cardinality(Unspent(t))
          <= 1 + pending[t].retry * MaxAttempts

BackedInv == \A t \in Transfers : Backed(t)

Budget == Runs \cup {<<0, 0>>}

LEMMA BudgetIsFinite == \A S \in SUBSET Budget : IsFiniteSet(S) /\ Cardinality(S) \in Nat
<1>1. IsFiniteSet(Retries) /\ IsFiniteSet(1..MaxAttempts)
  BY BoundIsNatural, FS_Interval DEF Retries
<1>2. IsFiniteSet(Runs)
  BY <1>1, FS_Product DEF Runs
<1>3. IsFiniteSet(Budget)
  BY <1>2, FS_AddElement DEF Budget
<1> QED
  BY <1>3, FS_Subset, FS_CardinalityType

LEMMA UnspentIsBudgeted ==
    ASSUME NEW t PROVE Unspent(t) \in SUBSET Budget /\ Unspent(t)' \in SUBSET Budget
BY DEF Unspent, Credit, Budget

\* A step after which t has paid what it had and may pay no more than before.
Frugal(t) ==
    /\ Executions(t)' = Executions(t)
    /\ pending'[t].retry = pending[t].retry
    /\ Cardinality(Unspent(t)') <= Cardinality(Unspent(t))

LEMMA FrugalStep ==
    ASSUME IInv, NEW t \in Transfers, Backed(t), Frugal(t)
    PROVE  Backed(t)'
<1>1. pending[t].retry * MaxAttempts \in Int
  BY BoundIsNatural DEF IInv, Shape, RowType
<1>2. Unspent(t) \in SUBSET Budget /\ Unspent(t)' \in SUBSET Budget
  BY UnspentIsBudgeted
<1> PICK now : now = Unspent(t)
  OBVIOUS
<1> PICK then : then = Unspent(t)'
  OBVIOUS
<1>3. Cardinality(now) \in Int /\ Cardinality(then) \in Int /\ Cardinality(Executions(t)) \in Int
  BY <1>2, BudgetIsFinite, FS_CardinalityType DEF Backed
<1>4. Cardinality(then) <= Cardinality(now) /\ Executions(t)' = Executions(t)
      /\ pending'[t].retry = pending[t].retry
  BY DEF Frugal
<1>5. /\ IsFiniteSet(Executions(t))
      /\ Cardinality(Executions(t)) + Cardinality(now) <= 1 + pending[t].retry * MaxAttempts
  BY DEF Backed
<1>6. Cardinality(Executions(t)) + Cardinality(then) <= 1 + pending[t].retry * MaxAttempts
  BY <1>1, <1>3, <1>4, <1>5
<1> QED
  BY <1>4, <1>5, <1>6 DEF Backed

\* No task has more runs to start, and no credit is given.
LEMMA ThriftIsFrugal ==
    ASSUME NEW t \in Transfers, Executions(t)' = Executions(t),
           pending'[t].retry = pending[t].retry,
           Credit(pending'[t]) \subseteq Credit(pending[t]),
           \A k \in Retries : ToCome(tasks'[t][k]) \subseteq ToCome(tasks[t][k])
    PROVE  Frugal(t)
<1>1. Unspent(t)' = {r \in Runs : r[2] \in ToCome(tasks'[t][r[1]])} \cup Credit(pending'[t])
  BY DEF Unspent, ToCome, Credit, Runs, Retries
<1>2. \A r \in Runs : r[1] \in Retries
  BY DEF Runs
<1>3. Unspent(t)' \in SUBSET Unspent(t)
  BY <1>1, <1>2 DEF Unspent
<1>4. IsFiniteSet(Unspent(t))
  BY UnspentIsBudgeted, BudgetIsFinite
<1>5. Cardinality(Unspent(t)') <= Cardinality(Unspent(t))
  BY <1>3, <1>4, FS_Subset
<1> QED
  BY <1>5 DEF Frugal

AllFrugal == \A u \in Transfers : Frugal(u)

\* No payment, no retry counted and no credit given.
CreditKept ==
    \A u \in Transfers :
        /\ Executions(u)' = Executions(u)
        /\ pending'[u].retry = pending[u].retry
        /\ Credit(pending'[u]) \subseteq Credit(pending[u])

LEMMA TasksKeptAreFrugal ==
    ASSUME CreditKept, UNCHANGED tasks
    PROVE  AllFrugal
<1> SUFFICES ASSUME NEW u \in Transfers PROVE Frugal(u)
  BY DEF AllFrugal
<1>1. \A k \in Retries : ToCome(tasks'[u][k]) \subseteq ToCome(tasks[u][k])
  OBVIOUS
<1> QED
  BY <1>1, ThriftIsFrugal DEF CreditKept

LEMMA TaskIsFrugal ==
    ASSUME IInv, NEW t \in Transfers, NEW k \in Retries, CreditKept, NEW new,
           tasks' = [tasks EXCEPT ![t][k] = new],
           ToCome(new) \subseteq ToCome(tasks[t][k])
    PROVE  AllFrugal
<1> SUFFICES ASSUME NEW u \in Transfers PROVE Frugal(u)
  BY DEF AllFrugal
<1>1. ASSUME NEW j \in Retries
      PROVE  ToCome(tasks'[u][j]) \subseteq ToCome(tasks[u][j])
  <2>1. CASE u = t /\ j = k
    <3>1. tasks'[u][j] = new
      BY <2>1 DEF IInv, Shape
    <3> QED
      BY <2>1, <3>1
  <2>2. CASE ~(u = t /\ j = k)
    <3>1. tasks'[u][j] = tasks[u][j]
      BY <2>2 DEF IInv, Shape
    <3> QED
      BY <3>1
  <2> QED
    BY <2>1, <2>2
<1> QED
  BY <1>1, ThriftIsFrugal DEF CreditKept

\* The rows of other operations are not payments of a transfer.
LEMMA TrafficPaysNothing ==
    ASSUME OtherTraffic, NEW t \in Transfers
    PROVE  Executions(t)' = Executions(t)
<1>1. PICK b \in Traffic : \/ TransferNow(<<b, 1>>, TrafficRequest[b])
                           \/ AdjustNow(<<b, 1>>, TrafficRequest[b])
  BY DEF OtherTraffic
<1>2. \E e, a : log' = log \cup {AuditRow(<<b, 1>>, TrafficRequest[b], e, day, a)}
  BY <1>1 DEF TransferNow, AdjustNow, Transfer, Adjust
<1>3. \A e, a : AuditRow(<<b, 1>>, TrafficRequest[b], e, day, a).id[1] = b
  BY DEF AuditRow
<1>4. b # t
  BY PoolTxIdsAssumption
<1> QED
  BY <1>2, <1>3, <1>4 DEF Executions

LEMMA RowsAreFrugal ==
    ASSUME IInv, NEW t \in Transfers,
           \/ Create(t) \/ Expire(t) \/ CleanUp(t) \/ RejectAtLimit(t)
           \/ SettleRefused(t)
    PROVE  AllFrugal
<1>1. UNCHANGED <<log, tasks>>
  BY DEF Create, Expire, CleanUp, RejectAtLimit, SettleRefused, ledgerVars
<1>2. \A u \in Transfers : Executions(u)' = Executions(u)
  BY <1>1 DEF Executions
<1>3. pending[t] \in RowType /\ pending \in [Transfers -> RowType]
  BY DEF IInv, Shape
<1>4. \E row : /\ pending' = [pending EXCEPT ![t] = row]
               /\ row.retry = pending[t].retry
               /\ Credit(row) \subseteq Credit(pending[t])
  <2>1. CASE Create(t)
    <3> PICK row : row = [pending[t] EXCEPT
                             !.status = "checking",
                             !.checks = [c \in Checks |-> Verdict(t, c)]]
      OBVIOUS
    <3>1. pending' = [pending EXCEPT ![t] = Approve(row)]
      BY <2>1 DEF Create
    <3>2. Approve(row).retry = pending[t].retry
      BY <1>3 DEF Approve, RowType
    <3>3. Credit(pending[t]) = {<<0, 0>>}
      BY <2>1 DEF Create, Credit
    <3>4. Credit(Approve(row)) \subseteq {<<0, 0>>}
      BY DEF Credit
    <3> QED
      BY <3>1, <3>2, <3>3, <3>4
  <2>2. CASE Expire(t)
    <3>1. pending' = [pending EXCEPT ![t] = [pending[t] EXCEPT !.expired = TRUE]]
      BY <2>2 DEF Expire
    <3>2. /\ [pending[t] EXCEPT !.expired = TRUE].retry = pending[t].retry
          /\ [pending[t] EXCEPT !.expired = TRUE].status = pending[t].status
      BY <1>3 DEF RowType
    <3> QED
      BY <3>1, <3>2 DEF Credit
  <2>3. CASE CleanUp(t) \/ RejectAtLimit(t) \/ SettleRefused(t)
    <3>1. pending' = [pending EXCEPT ![t] = [pending[t] EXCEPT !.status = "rejected"]]
      BY <2>3 DEF CleanUp, RejectAtLimit, SettleRefused, SetStatus
    <3>2. /\ [pending[t] EXCEPT !.status = "rejected"].retry = pending[t].retry
          /\ [pending[t] EXCEPT !.status = "rejected"].status = "rejected"
      BY <1>3 DEF RowType
    <3>3. Credit([pending[t] EXCEPT !.status = "rejected"]) = {}
      BY <3>2 DEF Credit
    <3> QED
      BY <3>1, <3>2, <3>3
  <2> QED
    BY <2>1, <2>2, <2>3
<1>5. CreditKept
  BY <1>2, <1>3, <1>4 DEF CreditKept
<1> QED
  BY <1>1, <1>5, TasksKeptAreFrugal

\* Steps that leave rows and tasks alone and pay nothing.
LEMMA QuietIsFrugal ==
    ASSUME UNCHANGED <<pending, tasks>>,
           \A u \in Transfers : Executions(u)' = Executions(u)
    PROVE  AllFrugal
BY TasksKeptAreFrugal DEF CreditKept

LEMMA CancelIsFrugal ==
    ASSUME IInv, NEW t \in Transfers, HandleResult(t)
    PROVE  AllFrugal
<1>1. UNCHANGED <<log, pending>> /\ (Cancel(t) \/ UNCHANGED tasks)
  BY DEF HandleResult, ledgerVars
<1>2. CreditKept /\ \A u \in Transfers : Executions(u)' = Executions(u)
  BY <1>1 DEF CreditKept, Executions
<1> PICK k : k = tracked[t]
  OBVIOUS
<1>3. CASE UNCHANGED tasks
  BY <1>1, <1>2, <1>3, QuietIsFrugal
<1>4. CASE Cancel(t) /\ k # 0 /\ tasks[t][k].pc \in Alive
  <2>1. k \in Retries
    BY <1>4, BoundIsNatural DEF IInv, Shape, RowType, RetriesCounted, Retries
  <2>2. tasks[t][k] \in TaskType
    BY <2>1 DEF IInv, Shape
  <2>3. CASE tasks[t][k].pc = "sleep"
    <3> PICK new : new = [tasks[t][k] EXCEPT !.pc = "done"]
      OBVIOUS
    <3>1. tasks' = [tasks EXCEPT ![t][k] = new]
      BY <1>4, <2>3 DEF Cancel
    <3>2. new.pc = "done"
      BY <2>2 DEF TaskType
    <3>3. ToCome(new) \subseteq ToCome(tasks[t][k])
      BY <3>2 DEF ToCome, Alive, InFlight, Checks
    <3> QED
      BY <1>2, <2>1, <3>1, <3>3, TaskIsFrugal
  <2>4. CASE tasks[t][k].pc # "sleep"
    <3> PICK new : new = [tasks[t][k] EXCEPT !.cancelled = TRUE]
      OBVIOUS
    <3>1. tasks' = [tasks EXCEPT ![t][k] = new]
      BY <1>4, <2>4 DEF Cancel
    <3>2. new.pc = tasks[t][k].pc /\ new.attempt = tasks[t][k].attempt
      BY <2>2 DEF TaskType
    <3>3. ToCome(new) \subseteq ToCome(tasks[t][k])
      BY <3>2 DEF ToCome
    <3> QED
      BY <1>2, <2>1, <3>1, <3>3, TaskIsFrugal
  <2> QED
    BY <2>3, <2>4
<1> QED
  BY <1>1, <1>3, <1>4 DEF Cancel

\* A place that a task moves to without starting a run of its own.
LEMMA MoveSpends ==
    ASSUME NEW task \in TaskType, NEW pc,
           \/ pc = "finally"
           \/ pc = "failed"
           \/ pc \in Alive \ {"sleep", "set_checking", "backoff"}
           \/ pc = "set_checking" /\ task.pc \in {"sleep", "backoff"},
           task.pc \in Alive
    PROVE  ToCome([task EXCEPT !.pc = pc]) \subseteq ToCome(task)
<1> PICK new : new = [task EXCEPT !.pc = pc]
  OBVIOUS
<1>1. new.pc = pc /\ new.attempt = task.attempt
  BY DEF TaskType
<1>2. "finally" \in Alive /\ "failed" \in Alive
  BY DEF Alive
<1>3. ToCome(new) \subseteq ToCome(task)
  <2>1. CASE pc = "set_checking"
    BY <1>1, <2>1 DEF ToCome, Alive, InFlight, Checks
  <2>2. CASE pc \notin {"sleep", "set_checking", "backoff"}
    BY <1>1, <2>2 DEF ToCome
  <2> QED
    BY <2>1, <2>2 DEF Alive
<1> QED
  BY <1>3

\* The round that a run of _retry_checks begins is paid for by that run.
LEMMA SetCheckingIsFrugal ==
    ASSUME IInv, NEW t \in Transfers, NEW k \in Retries, SetChecking(t, k)
    PROVE  AllFrugal
<1>1. /\ tasks[t][k] \in TaskType /\ pending[t] \in RowType
      /\ tasks[t][k].pc = "set_checking"
      /\ \A u \in Transfers : Executions(u)' = Executions(u)
  BY DEF IInv, Shape, SetChecking, Executions, ledgerVars
<1> PICK a : a = tasks[t][k].attempt
  OBVIOUS
<1> PICK pc : pc = IF tasks[t][k].cancelled THEN "finally" ELSE "balance"
  OBVIOUS
<1>n. PICK new : new = [tasks[t][k] EXCEPT !.pc = pc]
  OBVIOUS
<1>r. PICK row : row = [pending[t] EXCEPT !.status = "checking"]
  OBVIOUS
<1>2. /\ tasks' = [tasks EXCEPT ![t][k] = new]
      /\ pending' = [pending EXCEPT ![t] = row]
  <2>1. Following("set_checking") = "balance"
    BY DEF Following
  <2>2. tasks' = [tasks EXCEPT ![t][k] = [tasks[t][k] EXCEPT !.pc = pc]]
    BY <1>1, <2>1 DEF SetChecking, Advance
  <2> QED
    BY <1>n, <1>r, <2>2 DEF SetChecking, SetStatus
<1>3. new.pc = pc /\ new.attempt = a /\ row.retry = pending[t].retry
  BY <1>n, <1>r, <1>1 DEF TaskType, RowType
<1>4. \A b \in ToCome(new) : b \in ToCome(tasks[t][k]) /\ b # a
  BY <1>1, <1>3 DEF ToCome, TaskType
<1>5. Credit(row) \subseteq {<<0, 0>>}
  BY DEF Credit
<1>6. tasks \in [Transfers -> [Retries -> TaskType]] /\ pending \in [Transfers -> RowType]
  BY DEF IInv, Shape
<1> SUFFICES ASSUME NEW u \in Transfers PROVE Frugal(u)
  BY DEF AllFrugal
<1>7. CASE u # t
  <2>1. tasks'[u] = tasks[u] /\ pending'[u] = pending[u]
    BY <1>2, <1>6, <1>7
  <2> QED
    BY <1>1, <2>1, ThriftIsFrugal
<1>8. CASE u = t
  <2> PICK was : was = Unspent(t)
    OBVIOUS
  <2> PICK is : is = Unspent(t)'
    OBVIOUS
  <2>1. is = {r \in Runs : r[2] \in ToCome(tasks'[t][r[1]])} \cup Credit(row)
    <3>1. is = {r \in Runs : r[2] \in ToCome(tasks'[t][r[1]])} \cup Credit(pending'[t])
      BY DEF Unspent, ToCome, Credit, Runs, Retries
    <3> QED
      BY <1>2, <1>6, <3>1
  <2>2. ASSUME NEW r \in Runs, r[2] \in ToCome(tasks'[t][r[1]])
        PROVE  r \in was /\ r # <<k, a>>
    <3>1. r[1] \in Retries
      BY DEF Runs
    <3>2. CASE r[1] = k
      <4>1. tasks'[t][r[1]] = new
        BY <1>2, <1>6, <3>2
      <4> QED
        BY <1>4, <2>2, <3>2, <4>1 DEF Unspent
    <3>3. CASE r[1] # k
      <4>1. tasks'[t][r[1]] = tasks[t][r[1]]
        BY <1>2, <1>6, <3>1, <3>3
      <4> QED
        BY <2>2, <3>3, <4>1 DEF Unspent
    <3> QED
      BY <3>2, <3>3
  <2>3. is \subseteq (was \ {<<k, a>>}) \cup {<<0, 0>>}
    BY <1>5, <2>1, <2>2
  <2>4. <<k, a>> \in was
    <3>1. a \in ToCome(tasks[t][k]) /\ <<k, a>> \in Runs
      BY <1>1 DEF ToCome, TaskType, Runs
    <3> QED
      BY <3>1 DEF Unspent
  <2>5. IsFiniteSet(was) /\ Cardinality(was) \in Nat
    BY UnspentIsBudgeted, BudgetIsFinite
  <2>6. IsFiniteSet(was \ {<<k, a>>}) /\ Cardinality(was \ {<<k, a>>}) = Cardinality(was) - 1
    BY <2>4, <2>5, FS_RemoveElement
  <2>7. /\ IsFiniteSet((was \ {<<k, a>>}) \cup {<<0, 0>>})
        /\ Cardinality((was \ {<<k, a>>}) \cup {<<0, 0>>}) <= Cardinality(was)
    <3> PICK rest : rest = was \ {<<k, a>>}
      OBVIOUS
    <3>1. IsFiniteSet(rest) /\ Cardinality(rest) = Cardinality(was) - 1
      BY <2>6
    <3>2. /\ IsFiniteSet(rest \cup {<<0, 0>>})
          /\ \/ Cardinality(rest \cup {<<0, 0>>}) = Cardinality(rest)
             \/ Cardinality(rest \cup {<<0, 0>>}) = Cardinality(rest) + 1
      BY <3>1, FS_AddElement
    <3> QED
      BY <2>5, <3>1, <3>2
  <2>8. Cardinality(is) <= Cardinality((was \ {<<k, a>>}) \cup {<<0, 0>>})
    BY <2>3, <2>7, FS_Subset
  <2>9. Cardinality(is) <= Cardinality(was)
    <3>1. /\ Cardinality(is) \in Int
          /\ Cardinality((was \ {<<k, a>>}) \cup {<<0, 0>>}) \in Int
      BY <2>7, FS_CardinalityType, UnspentIsBudgeted, BudgetIsFinite
    <3> QED
      BY <2>5, <2>7, <2>8, <3>1
  <2>10. pending'[t].retry = pending[t].retry
    BY <1>2, <1>3, <1>6
  <2> QED
    BY <1>1, <1>8, <2>9, <2>10 DEF Frugal
<1> QED
  BY <1>7, <1>8

LEMMA RetryTaskIsFrugal ==
    ASSUME IInv, NEW t \in Transfers, NEW k \in Retries,
           RetryTask(t, k) \/ RetryFails(t, k)
    PROVE  AllFrugal
<1> PICK task : task = tasks[t][k]
  OBVIOUS
<1>1. task \in TaskType /\ pending \in [Transfers -> RowType]
  BY DEF IInv, Shape
<1>2. CASE SetChecking(t, k)
  BY <1>2, SetCheckingIsFrugal
<1>3. ASSUME RetryTask(t, k) \/ RetryFails(t, k), ~SetChecking(t, k)
      PROVE  CreditKept
  <2>1. UNCHANGED log
    BY <1>3 DEF RetryTask, Wake, RetryCheck, RemoveStore, Cancelled, Finally, RetryFails,
                ledgerVars
  <2>2. \A u \in Transfers : Executions(u)' = Executions(u)
    BY <2>1 DEF Executions
  <2>3. CASE RetryCheck(t, k)
    <3> PICK checked : checked = [pending[t] EXCEPT !.checks[task.pc] = Verdict(t, task.pc)]
      OBVIOUS
    <3>1. pending' = [pending EXCEPT ![t] = Approve(checked)]
      BY <2>3 DEF RetryCheck, RunCheck
    <3>2. /\ checked.status = pending[t].status /\ checked.retry = pending[t].retry
          /\ checked \in RowType
      <4>1. task.pc \in Checks /\ Verdict(t, task.pc) \in CheckValues
        BY <2>3 DEF RetryCheck, Verdict, CheckValues
      <4> QED
        BY <1>1, <4>1 DEF RowType
    <3>3. /\ Approve(checked).retry = pending[t].retry
          /\ \/ Approve(checked).status = pending[t].status
             \/ Approve(checked).status = "approved" /\ pending[t].status = "checking"
      <4>1. CASE Approves(checked)
        <5>1. Approve(checked) = [checked EXCEPT !.status = "approved"]
          BY <4>1 DEF Approve
        <5>2. /\ Approve(checked).status = "approved"
              /\ Approve(checked).retry = pending[t].retry
          BY <3>2, <5>1 DEF RowType
        <5> QED
          BY <3>2, <4>1, <5>2 DEF Approves
      <4>2. CASE ~Approves(checked)
        BY <3>2, <4>2 DEF Approve
      <4> QED
        BY <4>1, <4>2
    <3>4. Credit(Approve(checked)) \subseteq Credit(pending[t])
      BY <3>3 DEF Credit
    <3> QED
      BY <1>1, <2>2, <3>1, <3>3, <3>4 DEF CreditKept
  <2>4. CASE ~RetryCheck(t, k)
    <3>1. UNCHANGED pending
      BY <1>3, <2>4 DEF RetryTask, Wake, RemoveStore, Cancelled, Finally, RetryFails
    <3> QED
      BY <2>2, <3>1 DEF CreditKept
  <2> QED
    BY <2>3, <2>4
<1>4. ASSUME NEW pc, tasks' = [tasks EXCEPT ![t][k].pc = pc], CreditKept,
             ToCome([task EXCEPT !.pc = pc]) \subseteq ToCome(task)
      PROVE  AllFrugal
  <2>1. tasks' = [tasks EXCEPT ![t][k] = [task EXCEPT !.pc = pc]]
    BY <1>4
  <2> PICK new : new = [task EXCEPT !.pc = pc]
    OBVIOUS
  <2>2. tasks' = [tasks EXCEPT ![t][k] = new] /\ ToCome(new) \subseteq ToCome(tasks[t][k])
    BY <1>4, <2>1
  <2> QED
    BY <1>4, <2>2, TaskIsFrugal
<1>5. CASE Wake(t, k)
  <2>1. task.pc \in {"sleep", "backoff"} /\ tasks' = [tasks EXCEPT ![t][k].pc = "set_checking"]
    BY <1>5 DEF Wake
  <2>2. task.pc \in Alive
    BY <2>1 DEF Alive
  <2>3. ToCome([task EXCEPT !.pc = "set_checking"]) \subseteq ToCome(task)
    BY <1>1, <2>1, <2>2, MoveSpends
  <2>4. CreditKept
    BY <1>3, <1>5, <2>1 DEF RetryTask, SetChecking
  <2> QED
    BY <1>4, <2>1, <2>3, <2>4
<1>6. CASE RetryCheck(t, k) \/ RemoveStore(t, k)
  <2> PICK pc : pc = IF task.cancelled THEN "finally" ELSE Following(task.pc)
    OBVIOUS
  <2>1. task.pc \in Checks \cup {"remove"} /\ tasks' = [tasks EXCEPT ![t][k].pc = pc]
    BY <1>6 DEF RetryCheck, RemoveStore, Advance
  <2>2. pc \in Alive \ {"sleep", "set_checking", "backoff"} /\ task.pc \in Alive
    BY <2>1 DEF Following, Checks, Alive, InFlight
  <2>3. ToCome([task EXCEPT !.pc = pc]) \subseteq ToCome(task)
    BY <1>1, <2>2, MoveSpends
  <2>4. CreditKept
    BY <1>3, <1>6, <2>1 DEF RetryTask, SetChecking, Checks
  <2> QED
    BY <1>4, <2>1, <2>3, <2>4
<1>7. CASE Cancelled(t, k)
  <2>1. task.pc \in Alive /\ tasks' = [tasks EXCEPT ![t][k].pc = "finally"]
    BY <1>7 DEF Cancelled, Alive
  <2>2. ToCome([task EXCEPT !.pc = "finally"]) \subseteq ToCome(task)
    BY <1>1, <2>1, MoveSpends
  <2>3. CASE SetChecking(t, k)
    BY <1>2, <2>3
  <2>4. CASE ~SetChecking(t, k)
    BY <1>3, <1>4, <1>7, <2>1, <2>2, <2>4 DEF RetryTask
  <2> QED
    BY <2>3, <2>4
<1>8. CASE Finally(t, k)
  <2>1. task.pc \in {"finally", "failed"} /\ task.pc \in Alive /\ task.attempt \in Int
    BY <1>1, <1>8 DEF Finally, Alive, TaskType
  <2>2. CreditKept
    BY <1>3, <1>8, <2>1 DEF RetryTask, SetChecking
  <2>a. PICK again : again = [task EXCEPT !.pc = "backoff", !.attempt = task.attempt + 1]
    OBVIOUS
  <2>d. PICK over : over = [task EXCEPT !.pc = "done", !.cancelled = FALSE]
    OBVIOUS
  <2>3. \/ tasks' = [tasks EXCEPT ![t][k] = again]
        \/ tasks' = [tasks EXCEPT ![t][k] = over]
    BY <1>8, <2>a, <2>d DEF Finally
  <2>4. again.pc = "backoff" /\ again.attempt = task.attempt + 1
    BY <1>1, <2>a DEF TaskType
  <2>5. over.pc = "done"
    BY <1>1, <2>d DEF TaskType
  <2>6. ToCome(again) \subseteq ToCome(task)
    BY <2>1, <2>4 DEF ToCome
  <2>7. ToCome(over) \subseteq ToCome(task)
    BY <2>5 DEF ToCome, Alive, InFlight, Checks
  <2>8. CASE tasks' = [tasks EXCEPT ![t][k] = again]
    BY <2>2, <2>6, <2>8, TaskIsFrugal
  <2>9. CASE tasks' = [tasks EXCEPT ![t][k] = over]
    BY <2>2, <2>7, <2>9, TaskIsFrugal
  <2> QED
    BY <2>3, <2>8, <2>9
<1>9. CASE RetryFails(t, k)
  <2>1. PICK pc \in {"failed", "finally"} : tasks' = [tasks EXCEPT ![t][k].pc = pc]
    BY <1>9 DEF RetryFails
  <2>2. task.pc \in Alive
    BY <1>9 DEF RetryFails, Alive
  <2>3. ToCome([task EXCEPT !.pc = pc]) \subseteq ToCome(task)
    BY <1>1, <2>2, MoveSpends
  <2>4. CASE SetChecking(t, k)
    BY <1>2, <2>4
  <2>5. CASE ~SetChecking(t, k)
    BY <1>3, <1>4, <1>9, <2>1, <2>3, <2>5
  <2> QED
    BY <2>4, <2>5
<1> QED
  BY <1>2, <1>5, <1>6, <1>7, <1>8, <1>9 DEF RetryTask

\* A retry that is counted is a round for each attempt of its task.
LEMMA ScheduleRetryIsBacked ==
    ASSUME IInv, NEW t \in Transfers, ScheduleRetry(t), BackedInv
    PROVE  BackedInv'
<1> PICK k : k = pending[t].retry + 1
  OBVIOUS
<1>1. /\ pending \in [Transfers -> RowType] /\ tasks \in [Transfers -> [Retries -> TaskType]]
      /\ pending[t] \in RowType /\ k \in Retries /\ k = pending[t].retry + 1
      /\ pending[t].retry \in Nat
  BY BoundIsNatural DEF IInv, Shape, RowType, ScheduleRetry, Retries
<1>r. PICK row : row = [pending[t] EXCEPT !.retry = k]
  OBVIOUS
<1>2. /\ pending' = [pending EXCEPT ![t] = row] /\ tasks' = [tasks EXCEPT ![t][k] = NewTask]
      /\ \A u \in Transfers : Executions(u)' = Executions(u)
  BY <1>r DEF ScheduleRetry, ledgerVars, Executions
<1>3. row.retry = k /\ row.status = pending[t].status
  BY <1>1, <1>r DEF RowType
<1> SUFFICES ASSUME NEW u \in Transfers PROVE Backed(u)'
  BY DEF BackedInv
<1>4. Backed(u)
  BY DEF BackedInv
<1>5. CASE u # t
  <2>1. tasks'[u] = tasks[u] /\ pending'[u] = pending[u]
    BY <1>1, <1>2, <1>5
  <2> QED
    BY <1>2, <1>4, <2>1, ThriftIsFrugal, FrugalStep
<1>6. CASE u = t
  <2> PICK was : was = Unspent(t)
    OBVIOUS
  <2> PICK is : is = Unspent(t)'
    OBVIOUS
  <2> PICK round : round = {k} \X (1..MaxAttempts)
    OBVIOUS
  <2>1. is = {r \in Runs : r[2] \in ToCome(tasks'[t][r[1]])} \cup Credit(row)
    <3>1. is = {r \in Runs : r[2] \in ToCome(tasks'[t][r[1]])} \cup Credit(pending'[t])
      BY DEF Unspent, ToCome, Credit, Runs, Retries
    <3> QED
      BY <1>1, <1>2, <3>1
  <2>2. Credit(row) = Credit(pending[t])
    BY <1>3 DEF Credit
  <2>3. ASSUME NEW r \in Runs, r[2] \in ToCome(tasks'[t][r[1]])
        PROVE  r \in was \cup round
    <3>1. r[1] \in Retries /\ r[2] \in 1..MaxAttempts /\ r = <<r[1], r[2]>>
      BY DEF Runs
    <3>2. CASE r[1] = k
      BY <3>1, <3>2
    <3>3. CASE r[1] # k
      <4>1. tasks'[t][r[1]] = tasks[t][r[1]]
        BY <1>1, <1>2, <3>1, <3>3
      <4> QED
        BY <2>3, <3>3, <4>1 DEF Unspent
    <3> QED
      BY <3>2, <3>3
  <2>4. is \subseteq was \cup round
    <3>1. Credit(pending[t]) \subseteq was
      BY DEF Unspent
    <3> QED
      BY <2>1, <2>2, <2>3, <3>1
  <2>5. /\ IsFiniteSet(was) /\ Cardinality(was) \in Nat
        /\ IsFiniteSet(is) /\ Cardinality(is) \in Nat
    BY UnspentIsBudgeted, BudgetIsFinite
  <2>6. IsFiniteSet(round) /\ Cardinality(round) = MaxAttempts
    <3>1. IsFiniteSet({k}) /\ Cardinality({k}) = 1
      BY FS_Singleton
    <3>2. IsFiniteSet(1..MaxAttempts) /\ Cardinality(1..MaxAttempts) = MaxAttempts
      BY BoundIsNatural, FS_Interval
    <3>3. IsFiniteSet(round) /\ Cardinality(round) = Cardinality({k}) * Cardinality(1..MaxAttempts)
      BY <3>1, <3>2, FS_Product
    <3> QED
      BY <3>1, <3>2, <3>3, BoundIsNatural
  <2>7. /\ IsFiniteSet(was \cup round)
        /\ Cardinality(was \cup round) <= Cardinality(was) + MaxAttempts
    <3>1. /\ IsFiniteSet(was \cup round)
          /\ Cardinality(was \cup round)
                = Cardinality(was) + Cardinality(round) - Cardinality(was \cap round)
      BY <2>5, <2>6, FS_Union
    <3>2. was \cap round \in SUBSET round
      OBVIOUS
    <3>3. Cardinality(was \cap round) \in Nat
      BY <2>6, <3>2, FS_Subset, FS_CardinalityType
    <3> QED
      BY <2>5, <2>6, <3>1, <3>3, BoundIsNatural
  <2>8. Cardinality(is) <= Cardinality(was) + MaxAttempts
    <3>1. Cardinality(is) <= Cardinality(was \cup round)
      BY <2>4, <2>7, FS_Subset
    <3>2. Cardinality(was \cup round) \in Int
      BY <2>7, FS_CardinalityType
    <3> QED
      BY <2>5, <2>7, <3>1, <3>2, BoundIsNatural
  <2>9. /\ IsFiniteSet(Executions(t)) /\ Cardinality(Executions(t)) \in Nat
        /\ Cardinality(Executions(t)) + Cardinality(was) <= 1 + pending[t].retry * MaxAttempts
    BY <1>4, <1>6, FS_CardinalityType DEF Backed
  <2> PICK n \in Nat : n = pending[t].retry
    BY <1>1
  <2>10. n * MaxAttempts \in Int /\ (n + 1) * MaxAttempts = n * MaxAttempts + MaxAttempts
    BY BoundIsNatural
  <2>11. Cardinality(Executions(t)) + Cardinality(is) <= 1 + k * MaxAttempts
    <3>1. k * MaxAttempts = n * MaxAttempts + MaxAttempts
      BY <1>1, <2>10
    <3>2. Cardinality(Executions(t)) + Cardinality(was) <= 1 + n * MaxAttempts
      BY <2>9
    <3> HIDE DEF Retries
    <3> QED
      BY <2>5, <2>8, <2>9, <2>10, <3>1, <3>2, BoundIsNatural
  <2>12. pending'[t].retry = k /\ Executions(t)' = Executions(t)
    BY <1>1, <1>2, <1>3
  <2>13. Cardinality(Executions(t)') + Cardinality(Unspent(t)') <= 1 + pending'[t].retry * MaxAttempts
    BY <2>11, <2>12
  <2> QED
    BY <1>6, <2>9, <2>12, <2>13 DEF Backed
<1> QED
  BY <1>5, <1>6

\* A payment uses up the credit of the round that approved it.
LEMMA ExecuteIsBacked ==
    ASSUME IInv, NEW t \in Transfers, Execute(t), BackedInv
    PROVE  BackedInv'
<1> PICK b \in BegunBy(day) : Transfer(ExecutionId(t), Request[t], b, day)
  BY DEF Execute, TransferNow
<1> PICK paid : paid = AuditRow(ExecutionId(t), Request[t], b, day,
                                balance[Request[t].to] + Request[t].amount)
  OBVIOUS
<1>r. PICK row : row = [pending[t] EXCEPT !.status = "completed"]
  OBVIOUS
<1>1. /\ pending' = [pending EXCEPT ![t] = row] /\ UNCHANGED tasks
      /\ log' = log \cup {paid} /\ Fresh(ExecutionId(t))
      /\ pending[t].status = "approved"
      /\ pending \in [Transfers -> RowType]
  BY <1>r DEF Execute, SetStatus, Transfer, IInv, Shape
<1>2. row.status = "completed" /\ row.retry = pending[t].retry
  BY <1>1, <1>r DEF RowType
<1>3. paid.id = ExecutionId(t) /\ paid.id[1] = t
  BY DEF AuditRow, ExecutionId
<1>4. paid \notin log
  BY <1>1, <1>3 DEF Fresh
<1> SUFFICES ASSUME NEW u \in Transfers PROVE Backed(u)'
  BY DEF BackedInv
<1>5. Backed(u)
  BY DEF BackedInv
<1>6. CASE u # t
  <2>1. tasks'[u] = tasks[u] /\ pending'[u] = pending[u] /\ Executions(u)' = Executions(u)
    BY <1>1, <1>3, <1>6 DEF Executions
  <2> QED
    BY <1>5, <2>1, ThriftIsFrugal, FrugalStep
<1>7. CASE u = t
  <2> PICK was : was = Unspent(t)
    OBVIOUS
  <2> PICK is : is = Unspent(t)'
    OBVIOUS
  <2> PICK made : made = Executions(t)
    OBVIOUS
  <2>1. <<0, 0>> \notin Runs
    BY DEF Runs, Retries
  <2>2. is = {r \in Runs : r[2] \in ToCome(tasks[t][r[1]])} \cup Credit(row)
    <3>1. is = {r \in Runs : r[2] \in ToCome(tasks'[t][r[1]])} \cup Credit(pending'[t])
      BY DEF Unspent, ToCome, Credit, Runs, Retries
    <3> QED
      BY <1>1, <3>1
  <2>3. is = was \ {<<0, 0>>} /\ <<0, 0>> \in was
    <3>w. PICK open : open = {r \in Runs : r[2] \in ToCome(tasks[t][r[1]])}
      OBVIOUS
    <3>1. Credit(row) = {} /\ Credit(pending[t]) = {<<0, 0>>}
      BY <1>1, <1>2 DEF Credit
    <3>2. was = open \cup Credit(pending[t]) /\ is = open \cup Credit(row)
      BY <2>2, <3>w DEF Unspent
    <3>z. PICK zero : zero = <<0, 0>>
      OBVIOUS
    <3>3. zero \notin open
      BY <2>1, <3>w, <3>z
    <3>4. was = open \cup {zero} /\ is = open
      BY <3>1, <3>2, <3>z
    <3>5. is = was \ {zero} /\ zero \in was
      BY <3>3, <3>4
    <3> QED
      BY <3>5, <3>z
  <2>4. IsFiniteSet(was) /\ Cardinality(was) \in Nat
    BY UnspentIsBudgeted, BudgetIsFinite
  <2>5. Cardinality(is) = Cardinality(was) - 1
    <3>z. PICK zero : zero = <<0, 0>>
      OBVIOUS
    <3>1. is = was \ {zero} /\ zero \in was
      BY <2>3, <3>z
    <3>2. Cardinality(was \ {zero}) = Cardinality(was) - 1
      BY <2>4, <3>1, FS_RemoveElement
    <3> QED
      BY <3>1, <3>2
  <2>6. Executions(t)' = made \cup {paid} /\ paid \notin made
    BY <1>1, <1>3, <1>4 DEF Executions
  <2>7. /\ IsFiniteSet(made) /\ Cardinality(made) \in Nat
        /\ Cardinality(made) + Cardinality(was) <= 1 + pending[t].retry * MaxAttempts
    BY <1>5, <1>7, FS_CardinalityType DEF Backed
  <2>8. /\ IsFiniteSet(made \cup {paid})
        /\ Cardinality(made \cup {paid}) = Cardinality(made) + 1
    BY <2>6, <2>7, FS_AddElement
  <2>9. pending'[t].retry = pending[t].retry
    BY <1>1, <1>2
  <2>10. Cardinality(made \cup {paid}) + Cardinality(is) = Cardinality(made) + Cardinality(was)
    BY <2>4, <2>5, <2>7, <2>8
  <2>11. Cardinality(Executions(t)') + Cardinality(Unspent(t)') <= 1 + pending'[t].retry * MaxAttempts
    BY <2>6, <2>7, <2>9, <2>10
  <2> QED
    BY <1>7, <2>6, <2>8, <2>11 DEF Backed
<1> QED
  BY <1>6, <1>7

LEMMA FrugalIsBacked ==
    ASSUME IInv, AllFrugal, BackedInv
    PROVE  BackedInv'
BY FrugalStep DEF AllFrugal, BackedInv

LEMMA RestartIsFrugal ==
    ASSUME IInv, Restart
    PROVE  AllFrugal
<1>1. \A u \in Transfers : Executions(u)' = Executions(u)
  BY DEF Restart, Executions, ledgerVars
<1>2. pending' = pending /\ tasks' = [t \in Transfers |-> [k \in Retries |-> NoTask]]
  BY DEF Restart
<1>3. ToCome(NoTask) = {}
  BY DEF ToCome, NoTask, Alive, InFlight, Checks
<1> SUFFICES ASSUME NEW u \in Transfers PROVE Frugal(u)
  BY DEF AllFrugal
<1>4. \A k \in Retries : ToCome(tasks'[u][k]) \subseteq ToCome(tasks[u][k])
  <2> SUFFICES ASSUME NEW k \in Retries PROVE ToCome(tasks'[u][k]) = {}
    OBVIOUS
  <2>1. tasks'[u][k] = NoTask
    BY <1>2
  <2> QED
    BY <1>3, <2>1
<1> QED
  BY <1>1, <1>2, <1>4, ThriftIsFrugal

LEMMA BackedStep ==
    ASSUME IInv, BackedInv, [Next]_vars
    PROVE  BackedInv'
<1>1. CASE UNCHANGED vars
  <2>1. UNCHANGED <<pending, tasks>> /\ \A u \in Transfers : Executions(u)' = Executions(u)
    BY <1>1 DEF vars, ledgerVars, poolVars, Executions
  <2> QED
    BY <2>1, QuietIsFrugal, FrugalIsBacked
<1>2. CASE OtherTraffic \/ Midnight \/ ListenerDrops
  <2>1. UNCHANGED <<pending, tasks>>
    BY <1>2 DEF OtherTraffic, Midnight, ListenerDrops, poolVars
  <2>2. \A u \in Transfers : Executions(u)' = Executions(u)
    <3>1. CASE OtherTraffic
      BY <3>1, TrafficPaysNothing
    <3>2. CASE Midnight \/ ListenerDrops
      BY <3>2 DEF Midnight, NextDay, ListenerDrops, ledgerVars, Executions
    <3> QED
      BY <1>2, <3>1, <3>2
  <2> QED
    BY <2>1, <2>2, QuietIsFrugal, FrugalIsBacked
<1>3. CASE Restart
  BY <1>3, RestartIsFrugal, FrugalIsBacked
<1>4. ASSUME NEW t \in Transfers, Create(t) \/ Expire(t) \/ CleanUp(t)
      PROVE  BackedInv'
  BY <1>4, RowsAreFrugal, FrugalIsBacked
<1>5. ASSUME NEW t \in Transfers, Handle(t) \/ HandlerFails(t)
      PROVE  BackedInv'
  <2>1. CASE ScheduleRetry(t)
    BY <2>1, ScheduleRetryIsBacked
  <2>2. CASE Execute(t)
    BY <2>2, ExecuteIsBacked
  <2>3. CASE HandleResult(t)
    BY <2>3, CancelIsFrugal, FrugalIsBacked
  <2>4. CASE RejectAtLimit(t) \/ SettleRefused(t)
    BY <2>4, RowsAreFrugal, FrugalIsBacked
  <2>5. CASE NotifyDenied(t) \/ SkipExecute(t) \/ ExecuteRefused(t) \/ HandlerFails(t)
    <3>1. UNCHANGED <<pending, tasks>> /\ \A u \in Transfers : Executions(u)' = Executions(u)
      BY <2>5 DEF NotifyDenied, SkipExecute, ExecuteRefused, HandlerFails, ledgerVars,
                  Executions
    <3> QED
      BY <3>1, QuietIsFrugal, FrugalIsBacked
  <2> QED
    BY <1>5, <2>1, <2>2, <2>3, <2>4, <2>5 DEF Handle
<1>6. ASSUME NEW t \in Transfers, NEW k \in Retries, RetryTask(t, k) \/ RetryFails(t, k)
      PROVE  BackedInv'
  BY <1>6, RetryTaskIsFrugal, FrugalIsBacked
<1> QED
  BY <1>1, <1>2, <1>3, <1>4, <1>5, <1>6 DEF Next

LEMMA InitBacked == Init => BackedInv
<1> SUFFICES ASSUME Init, NEW t \in Transfers PROVE Backed(t)
  BY DEF BackedInv
<1>1. Executions(t) = {}
  BY DEF Init, LedgerInit, Executions
<1>2. Unspent(t) = {<<0, 0>>}
  <2>1. ToCome(NoTask) = {}
    BY DEF ToCome, NoTask, Alive, InFlight, Checks
  <2>2. \A r \in Runs : tasks[t][r[1]] = NoTask
    BY DEF Init, Runs
  <2>3. Credit(pending[t]) = {<<0, 0>>}
    BY DEF Init, Credit
  <2> QED
    BY <2>1, <2>2, <2>3 DEF Unspent
<1>3. IsFiniteSet({}) /\ Cardinality({}) = 0 /\ Cardinality({<<0, 0>>}) = 1
  BY FS_EmptySet, FS_Singleton
<1>4. pending[t].retry = 0
  BY DEF Init
<1>5. 0 * MaxAttempts = 0
  BY BoundIsNatural
<1> QED
  BY <1>1, <1>2, <1>3, <1>4, <1>5 DEF Backed

-----------------------------------------------------------------------------
(* Types of what the retry counter does not depend on *)

Message == [check: Checks \cup {"approved"}, value: {"pass", "fail"}]
Stands == {"idle", "schedule", "notify", "settle"}

Rest ==
    /\ LedgerTypeOK
    /\ denied \in [Transfers -> BOOLEAN]
    /\ queue \in [Transfers -> Seq(Message)]
    /\ handler \in [Transfers -> Stands]
    /\ store \in [Transfers -> [Checks -> CheckValues]]
    /\ listening \in BOOLEAN
    /\ faults \in 0..MaxFaults

LEMMA TypesTogether == ASSUME IInv, Rest PROVE TypeOK
<1>1. pending \in [Transfers -> [status: Statuses, checks: [Checks -> CheckValues],
                                 retry: 0..MaxRetry, expired: BOOLEAN]]
  <2> SUFFICES ASSUME NEW t \in Transfers
               PROVE  pending[t] \in [status: Statuses, checks: [Checks -> CheckValues],
                                      retry: 0..MaxRetry, expired: BOOLEAN]
    BY DEF IInv, Shape
  <2>1. pending[t] \in RowType /\ pending[t].retry <= MaxRetry
    BY DEF IInv, Shape, RetriesCounted
  <2> QED
    BY <2>1, BoundIsNatural DEF RowType
<1>2. tasks \in [Transfers -> [Retries -> [pc: {"none", "done"} \cup Alive,
                                           cancelled: BOOLEAN, attempt: 1..MaxAttempts]]]
  BY DEF IInv, Shape, TaskType
<1>3. tracked \in [Transfers -> 0..MaxRetry]
  <2> SUFFICES ASSUME NEW t \in Transfers PROVE tracked[t] \in 0..MaxRetry
    BY DEF IInv, Shape
  <2>1. /\ tracked[t] \in Nat /\ pending[t] \in RowType
        /\ tracked[t] <= pending[t].retry /\ pending[t].retry <= MaxRetry
    BY DEF IInv, Shape, RetriesCounted
  <2> QED
    BY <2>1, BoundIsNatural DEF RowType
<1> QED
  BY <1>1, <1>2, <1>3 DEF Rest, TypeOK, Message, Stands

LEMMA RowOfLedger ==
    ASSUME NEW x \in TxIds, NEW r \in RequestType, NEW b \in Days, NEW d \in Days,
           NEW after \in Int
    PROVE  AuditRow(x, r, b, d, after) \in
              [id: TxIds,
               direction: {"transfer", "adjustment_grant", "adjustment_deduct"},
               initiator: Members, target: Members, amount: Nat, day: Days,
               checked: Days, balance_after_target: Int]
<1>1. Abs(r.amount) \in Nat
  BY DEF RequestType, Abs
<1>2. Direction(r) \in {"transfer", "adjustment_grant", "adjustment_deduct"}
  BY DEF Direction
<1> QED
  BY <1>1, <1>2 DEF AuditRow, RequestType

LEMMA LedgerKeepsTypes ==
    ASSUME LedgerTypeOK, NEW x \in TxIds, NEW r \in Requests,
           TransferNow(x, r) \/ AdjustNow(x, r)
    PROVE  LedgerTypeOK'
<1> PICK b \in BegunBy(day) : Transfer(x, r, b, day) \/ Adjust(x, r, b, day)
  BY DEF TransferNow, AdjustNow
<1>1. r \in RequestType /\ r.by \in Members /\ r.to \in Members /\ r.amount \in Int
  BY RequestsAssumption DEF RequestType
<1>2. balance \in [Members -> Int] /\ day \in Days /\ b \in Days
  BY DEF LedgerTypeOK, BegunBy
<1>3. balance' \in [Members -> Int]
  <2>1. CASE Transfer(x, r, b, day)
    BY <1>1, <1>2, <2>1 DEF Transfer
  <2>2. CASE Adjust(x, r, b, day)
    BY <1>1, <1>2, <2>2 DEF Adjust
  <2> QED
    BY <2>1, <2>2
<1>4. balance[r.to] + r.amount \in Int
  BY <1>1, <1>2
<1> PICK after \in Int : after = balance[r.to] + r.amount
  BY <1>4
<1>5. log' = log \cup {AuditRow(x, r, b, day, after)} /\ day' = day
  BY DEF Transfer, Adjust
<1>6. AuditRow(x, r, b, day, after) \in
         [id: TxIds,
          direction: {"transfer", "adjustment_grant", "adjustment_deduct"},
          initiator: Members, target: Members, amount: Nat, day: Days,
          checked: Days, balance_after_target: Int]
  BY <1>1, <1>2, RowOfLedger
<1> QED
  BY <1>2, <1>3, <1>5, <1>6 DEF LedgerTypeOK

\* The ids of the pool's audit rows do not run out.
LEMMA ExecutionIdIsKnown ==
    ASSUME IInv, BackedInv, NEW t \in Transfers, pending[t].status = "approved"
    PROVE  ExecutionId(t) \in TxIds
<1> PICK was : was = Unspent(t)
  OBVIOUS
<1> PICK n : n = Cardinality(Executions(t))
  OBVIOUS
<1>1. pending[t] \in RowType /\ pending[t].retry \in Nat /\ pending[t].retry <= MaxRetry
  BY DEF IInv, Shape, RowType, RetriesCounted
<1> PICK r \in Nat : r = pending[t].retry
  BY <1>1
<1> PICK d \in Nat : d = MaxRetry - r
  BY <1>1, BoundIsNatural
<1>2. n \in Nat /\ n + Cardinality(was) <= 1 + r * MaxAttempts
  BY FS_CardinalityType DEF BackedInv, Backed
<1>3. <<0, 0>> \in was
  BY DEF Unspent, Credit
<1>4. IsFiniteSet(was) /\ Cardinality(was) \in Nat
  BY UnspentIsBudgeted, BudgetIsFinite
<1>5. Cardinality(was) >= 1
  <2>1. {<<0, 0>>} \in SUBSET was
    BY <1>3
  <2>2. Cardinality({<<0, 0>>}) <= Cardinality(was)
    BY <1>4, <2>1, FS_Subset
  <2>3. Cardinality({<<0, 0>>}) = 1
    BY FS_Singleton
  <2> QED
    BY <1>4, <2>2, <2>3
<1>6. r * MaxAttempts \in Nat /\ d * MaxAttempts \in Nat
      /\ MaxRetry * MaxAttempts = r * MaxAttempts + d * MaxAttempts
  <2>1. MaxRetry = r + d
    BY <1>1, BoundIsNatural
  <2>2. (r + d) * MaxAttempts = r * MaxAttempts + d * MaxAttempts
    BY BoundIsNatural
  <2>3. r * MaxAttempts \in Nat /\ d * MaxAttempts \in Nat
    BY BoundIsNatural
  <2> QED
    BY <2>1, <2>2, <2>3
<1>7. n <= MaxRetry * MaxAttempts
  BY <1>2, <1>4, <1>5, <1>6
<1>8. 1 + n \in 1..(1 + MaxRetry * MaxAttempts)
  BY <1>2, <1>6, <1>7
<1> QED
  BY <1>8, PoolTxIdsAssumption DEF ExecutionId

LEMMA ResultIsMessage ==
    ASSUME NEW c \in Checks, NEW passes PROVE Result(c, passes) \in Message
BY DEF Result, Message

LEMMA ApprovedIsMessage == Approved \in Message
BY DEF Approved, Message

\* The notifications of one check, and of creation.
CheckNews(t, c, row) == <<Result(c, Passes(t, c))>> \o IF Approves(row) THEN <<Approved>> ELSE <<>>
BirthNews(t, row) ==
    <<Result("balance", Passes(t, "balance")), Result("cooldown", Passes(t, "cooldown")),
      Result("daily_limit", Passes(t, "daily_limit"))>> \o
    IF Approves(row) THEN <<Approved>> ELSE <<>>

LEMMA NewsIsSent ==
    ASSUME NEW t, NEW row, NEW c \in Checks
    PROVE  CheckNews(t, c, row) \in Seq(Message) /\ BirthNews(t, row) \in Seq(Message)
<1> PICK tail : tail = IF Approves(row) THEN <<Approved>> ELSE <<>>
  OBVIOUS
<1>1. tail \in Seq(Message)
  <2>1. <<Approved>> \in Seq(Message)
    BY ApprovedIsMessage
  <2>2. <<>> \in Seq(Message)
    BY EmptySeq
  <2> QED
    BY <2>1, <2>2
<1>2. <<Result(c, Passes(t, c))>> \in Seq(Message)
  <2>1. Result(c, Passes(t, c)) \in Message
    BY ResultIsMessage
  <2> QED
    BY <2>1
<1>3. <<Result("balance", Passes(t, "balance")), Result("cooldown", Passes(t, "cooldown")),
        Result("daily_limit", Passes(t, "daily_limit"))>> \in Seq(Message)
  <2>1. /\ Result("balance", Passes(t, "balance")) \in Message
        /\ Result("cooldown", Passes(t, "cooldown")) \in Message
        /\ Result("daily_limit", Passes(t, "daily_limit")) \in Message
    BY ResultIsMessage DEF Checks
  <2> QED
    BY <2>1
<1>4. <<Result(c, Passes(t, c))>> \o tail \in Seq(Message)
  BY <1>1, <1>2, ConcatProperties
<1>5. <<Result("balance", Passes(t, "balance")), Result("cooldown", Passes(t, "cooldown")),
        Result("daily_limit", Passes(t, "daily_limit"))>> \o tail \in Seq(Message)
  BY <1>1, <1>3, ConcatProperties
<1> QED
  BY <1>4, <1>5 DEF CheckNews, BirthNews

LEMMA NotifyTypes ==
    ASSUME Rest, NEW t \in Transfers, NEW msgs \in Seq(Message), Notify(t, msgs)
    PROVE  /\ queue' \in [Transfers -> Seq(Message)]
           /\ \A u \in Transfers : u # t => queue'[u] = queue[u]
           /\ listening => queue'[t] = queue[t] \o msgs
<1>1. queue \in [Transfers -> Seq(Message)] /\ queue[t] \in Seq(Message)
  BY DEF Rest
<1> PICK q : q = queue[t] \o msgs
  OBVIOUS
<1>2. q \in Seq(Message)
  BY <1>1, ConcatProperties
<1>3. queue' = IF listening THEN [queue EXCEPT ![t] = q] ELSE queue
  BY DEF Notify
<1> QED
  BY <1>1, <1>2, <1>3

LEMMA ConsumeTypes ==
    ASSUME Rest, NEW t \in Transfers, Ready(t), Consume(t)
    PROVE  /\ queue' \in [Transfers -> Seq(Message)] /\ Event(t) \in Message
           /\ \A u \in Transfers : u # t => queue'[u] = queue[u]
           /\ queue'[t] = Tail(queue[t]) /\ Tail(queue[t]) \in Seq(Message)
<1>1. queue \in [Transfers -> Seq(Message)] /\ queue[t] \in Seq(Message) /\ queue[t] # <<>>
  BY DEF Rest, Ready
<1> PICK q : q = Tail(queue[t])
  OBVIOUS
<1>2. q \in Seq(Message) /\ Head(queue[t]) \in Message
  BY <1>1, HeadTailProperties
<1>3. queue' = [queue EXCEPT ![t] = q]
  BY DEF Consume
<1> QED
  BY <1>1, <1>2, <1>3 DEF Event

\* What Rest says of the variables of one transfer, or of all, that a step keeps.
KeepsLedger == UNCHANGED ledgerVars
KeepsFaults == UNCHANGED <<listening, faults>>

LEMMA RestFromParts ==
    ASSUME Rest, LedgerTypeOK',
           denied' \in [Transfers -> BOOLEAN], queue' \in [Transfers -> Seq(Message)],
           handler' \in [Transfers -> Stands],
           store' \in [Transfers -> [Checks -> CheckValues]],
           listening' \in BOOLEAN, faults' \in 0..MaxFaults
    PROVE  Rest'
BY DEF Rest

LEMMA LedgerKept == ASSUME Rest, KeepsLedger PROVE LedgerTypeOK'
BY DEF Rest, KeepsLedger, ledgerVars, LedgerTypeOK

LEMMA FaultCounted == ASSUME Rest, Fault PROVE faults' \in 0..MaxFaults /\ faults' # 0
BY PoolBoundsAssumption DEF Rest, Fault

\* Steps that touch neither the ledger nor the listener.
LEMMA PoolOnly ==
    ASSUME Rest, KeepsLedger, KeepsFaults,
           denied' \in [Transfers -> BOOLEAN], queue' \in [Transfers -> Seq(Message)],
           handler' \in [Transfers -> Stands],
           store' \in [Transfers -> [Checks -> CheckValues]]
    PROVE  Rest'
<1>1. listening' \in BOOLEAN /\ faults' \in 0..MaxFaults
  BY DEF Rest, KeepsFaults
<1> QED
  BY <1>1, LedgerKept, RestFromParts

LEMMA HandlerTypes ==
    ASSUME IInv, BackedInv, Rest, NEW t \in Transfers, Handle(t)
    PROVE  Rest'
<1>1. /\ denied \in [Transfers -> BOOLEAN] /\ queue \in [Transfers -> Seq(Message)]
      /\ handler \in [Transfers -> Stands]
      /\ store \in [Transfers -> [Checks -> CheckValues]]
      /\ listening \in BOOLEAN /\ faults \in 0..MaxFaults
  BY DEF Rest
<1>2. CASE HandleResult(t)
  <2>1. /\ queue' \in [Transfers -> Seq(Message)] /\ Event(t) \in Message
        /\ KeepsLedger /\ KeepsFaults /\ denied' = denied
    BY <1>2, ConsumeTypes DEF HandleResult, KeepsLedger, KeepsFaults
  <2>2. handler' \in [Transfers -> Stands]
    BY <1>1, <1>2 DEF HandleResult, Stands
  <2>3. store' \in [Transfers -> [Checks -> CheckValues]]
    <3> PICK recorded : recorded = [store[t] EXCEPT ![Event(t).check] = Event(t).value]
      OBVIOUS
    <3>1. store' = [store EXCEPT ![t] = recorded] /\ Event(t).check \in Checks
      BY <1>2 DEF HandleResult
    <3>2. Event(t).value \in CheckValues
      BY <2>1 DEF Message, CheckValues
    <3>3. recorded \in [Checks -> CheckValues]
      BY <1>1, <3>1, <3>2
    <3> QED
      BY <1>1, <3>1, <3>3
  <2> QED
    BY <1>1, <2>1, <2>2, <2>3, PoolOnly
<1>3. CASE ScheduleRetry(t) \/ RejectAtLimit(t) \/ SettleRefused(t)
  <2>1. /\ KeepsLedger /\ KeepsFaults /\ denied' = denied /\ queue' = queue /\ store' = store
        /\ handler' \in [Transfers -> Stands]
    BY <1>1, <1>3 DEF ScheduleRetry, RejectAtLimit, SettleRefused, KeepsLedger, KeepsFaults,
                      Stands
  <2> QED
    BY <1>1, <2>1, PoolOnly
<1>4. CASE NotifyDenied(t)
  <2>1. /\ KeepsLedger /\ KeepsFaults /\ queue' = queue /\ store' = store
        /\ denied' \in [Transfers -> BOOLEAN] /\ handler' \in [Transfers -> Stands]
    BY <1>1, <1>4 DEF NotifyDenied, KeepsLedger, KeepsFaults, Stands
  <2> QED
    BY <1>1, <2>1, PoolOnly
<1>5. CASE Execute(t)
  <2>1. /\ Ready(t) /\ Consume(t) /\ pending[t].status = "approved"
        /\ TransferNow(ExecutionId(t), Request[t])
        /\ UNCHANGED <<denied, handler, store, listening, faults>>
    BY <1>5 DEF Execute
  <2>2. ExecutionId(t) \in TxIds /\ Request[t] \in Requests
    BY <2>1, ExecutionIdIsKnown, RequestAssumption
  <2>3. LedgerTypeOK'
    BY <2>1, <2>2, LedgerKeepsTypes DEF Rest
  <2>4. queue' \in [Transfers -> Seq(Message)]
    BY <2>1, ConsumeTypes
  <2> QED
    BY <1>1, <2>1, <2>3, <2>4, RestFromParts
<1>6. CASE SkipExecute(t) \/ ExecuteRefused(t)
  <2>1. /\ KeepsLedger /\ KeepsFaults /\ store' = store /\ denied' = denied
        /\ Ready(t) /\ Consume(t) /\ handler' \in [Transfers -> Stands]
    BY <1>1, <1>6 DEF SkipExecute, ExecuteRefused, KeepsLedger, KeepsFaults, Stands
  <2>2. queue' \in [Transfers -> Seq(Message)]
    BY <2>1, ConsumeTypes
  <2> QED
    BY <1>1, <2>1, <2>2, PoolOnly
<1> QED
  BY <1>2, <1>3, <1>4, <1>5, <1>6 DEF Handle

\* What the row of t looks like when its checks have been run.
Born(t) ==
    [pending[t] EXCEPT !.status = "checking", !.checks = [c \in Checks |-> Verdict(t, c)]]
Rechecked(t, c) == [pending[t] EXCEPT !.checks[c] = Verdict(t, c)]

LEMMA CreateNews ==
    ASSUME NEW t \in Transfers, Create(t)
    PROVE  /\ Notify(t, BirthNews(t, Born(t))) /\ pending' = [pending EXCEPT ![t] = Approve(Born(t))]
           /\ UNCHANGED <<ledgerVars, denied, handler, store, tasks, tracked, listening, faults>>
BY DEF Create, BirthNews, Born

LEMMA RetryNews ==
    ASSUME NEW t \in Transfers, NEW k \in Retries, RetryCheck(t, k)
    PROVE  LET c == tasks[t][k].pc
           IN  /\ c \in Checks /\ Notify(t, CheckNews(t, c, Rechecked(t, c)))
               /\ pending' = [pending EXCEPT ![t] = Approve(Rechecked(t, c))]
               /\ UNCHANGED <<ledgerVars, denied, handler, store, tracked, listening, faults>>
BY DEF RetryCheck, RunCheck, CheckNews, Rechecked

LEMMA RetryTypes ==
    ASSUME IInv, Rest, NEW t \in Transfers, NEW k \in Retries, RetryTask(t, k)
    PROVE  Rest'
<1>1. /\ denied \in [Transfers -> BOOLEAN] /\ queue \in [Transfers -> Seq(Message)]
      /\ handler \in [Transfers -> Stands]
      /\ store \in [Transfers -> [Checks -> CheckValues]]
  BY DEF Rest
<1>2. CASE RetryCheck(t, k)
  <2> PICK c : c = tasks[t][k].pc
    OBVIOUS
  <2>1. /\ c \in Checks /\ Notify(t, CheckNews(t, c, Rechecked(t, c)))
        /\ UNCHANGED <<ledgerVars, denied, handler, store, listening, faults>>
    BY <1>2, RetryNews
  <2>2. CheckNews(t, c, Rechecked(t, c)) \in Seq(Message)
    BY <2>1, NewsIsSent
  <2>3. queue' \in [Transfers -> Seq(Message)]
    BY <2>1, <2>2, NotifyTypes
  <2> QED
    BY <1>1, <2>1, <2>3, PoolOnly DEF KeepsLedger, KeepsFaults
<1>3. CASE RemoveStore(t, k)
  <2>1. NoChecks \in [Checks -> CheckValues]
    BY DEF NoChecks, CheckValues
  <2>2. /\ KeepsLedger /\ KeepsFaults /\ UNCHANGED <<denied, queue, handler>>
        /\ store' \in [Transfers -> [Checks -> CheckValues]]
    BY <1>1, <1>3, <2>1 DEF RemoveStore, KeepsLedger, KeepsFaults
  <2> QED
    BY <1>1, <2>2, PoolOnly
<1>4. CASE Wake(t, k) \/ SetChecking(t, k) \/ Cancelled(t, k) \/ Finally(t, k)
  <2>1. KeepsLedger /\ KeepsFaults /\ UNCHANGED <<denied, queue, handler, store>>
    BY <1>4 DEF Wake, SetChecking, Cancelled, Finally, KeepsLedger, KeepsFaults
  <2> QED
    BY <1>1, <2>1, PoolOnly
<1> QED
  BY <1>2, <1>3, <1>4 DEF RetryTask

LEMMA FaultTypes ==
    ASSUME IInv, Rest,
           \/ \E t \in Transfers : HandlerFails(t)
           \/ \E t \in Transfers, k \in Retries : RetryFails(t, k)
           \/ ListenerDrops \/ Restart
    PROVE  Rest' /\ faults' # 0
<1>1. /\ denied \in [Transfers -> BOOLEAN] /\ queue \in [Transfers -> Seq(Message)]
      /\ handler \in [Transfers -> Stands]
      /\ store \in [Transfers -> [Checks -> CheckValues]] /\ listening \in BOOLEAN
  BY DEF Rest
<1>2. Fault /\ KeepsLedger /\ denied' = denied
  BY DEF HandlerFails, RetryFails, ListenerDrops, Restart, KeepsLedger
<1>3. faults' \in 0..MaxFaults /\ faults' # 0 /\ LedgerTypeOK'
  BY <1>2, FaultCounted, LedgerKept
<1>4. ASSUME NEW t \in Transfers, HandlerFails(t) PROVE Rest'
  <2>1. handler' \in [Transfers -> Stands] /\ store' = store /\ listening' = listening
    BY <1>1, <1>4 DEF HandlerFails, Stands
  <2>2. queue' = queue \/ (Ready(t) /\ Consume(t))
    BY <1>4 DEF HandlerFails
  <2>3. queue' \in [Transfers -> Seq(Message)]
    BY <1>1, <2>2, ConsumeTypes
  <2> QED
    BY <1>1, <1>2, <1>3, <2>1, <2>3, RestFromParts
<1>5. ASSUME NEW t \in Transfers, NEW k \in Retries, RetryFails(t, k) PROVE Rest'
  <2>1. UNCHANGED <<queue, handler, store, listening>>
    BY <1>5 DEF RetryFails
  <2> QED
    BY <1>1, <1>2, <1>3, <2>1, RestFromParts
<1>6. CASE ListenerDrops
  <2>1. UNCHANGED <<queue, handler, store>> /\ listening' = FALSE
    BY <1>6 DEF ListenerDrops
  <2> QED
    BY <1>1, <1>2, <1>3, <2>1, RestFromParts
<1>7. CASE Restart
  <2>1. /\ queue' = [t \in Transfers |-> <<>>] /\ handler' = [t \in Transfers |-> "idle"]
        /\ store' = [t \in Transfers |-> NoChecks] /\ listening' = TRUE
    BY <1>7 DEF Restart
  <2>2. NoChecks \in [Checks -> CheckValues] /\ "idle" \in Stands
    BY DEF NoChecks, CheckValues, Stands
  <2>3. <<>> \in Seq(Message)
    BY EmptySeq
  <2> QED
    BY <1>2, <1>3, <1>1, <2>1, <2>2, <2>3, RestFromParts
<1> QED
  BY <1>3, <1>4, <1>5, <1>6, <1>7

LEMMA RowTypes ==
    ASSUME IInv, Rest, NEW t \in Transfers, Create(t) \/ Expire(t) \/ CleanUp(t)
    PROVE  Rest'
<1>1. /\ denied \in [Transfers -> BOOLEAN] /\ queue \in [Transfers -> Seq(Message)]
      /\ handler \in [Transfers -> Stands]
      /\ store \in [Transfers -> [Checks -> CheckValues]]
  BY DEF Rest
<1>2. CASE Create(t)
  <2>1. /\ Notify(t, BirthNews(t, Born(t)))
        /\ UNCHANGED <<ledgerVars, denied, handler, store, listening, faults>>
    BY <1>2, CreateNews
  <2>2. BirthNews(t, Born(t)) \in Seq(Message)
    BY NewsIsSent DEF Checks
  <2>3. queue' \in [Transfers -> Seq(Message)]
    BY <2>1, <2>2, NotifyTypes
  <2> QED
    BY <1>1, <2>1, <2>3, PoolOnly DEF KeepsLedger, KeepsFaults
<1>3. CASE Expire(t) \/ CleanUp(t)
  <2>1. /\ KeepsLedger /\ KeepsFaults /\ UNCHANGED <<queue, handler, store>>
        /\ denied' \in [Transfers -> BOOLEAN]
    BY <1>1, <1>3 DEF Expire, CleanUp, KeepsLedger, KeepsFaults
  <2> QED
    BY <1>1, <2>1, PoolOnly
<1> QED
  BY <1>2, <1>3

LEMMA EnvironmentTypes ==
    ASSUME Rest, OtherTraffic \/ Midnight
    PROVE  Rest'
<1>1. /\ denied \in [Transfers -> BOOLEAN] /\ queue \in [Transfers -> Seq(Message)]
      /\ handler \in [Transfers -> Stands]
      /\ store \in [Transfers -> [Checks -> CheckValues]]
      /\ listening \in BOOLEAN /\ faults \in 0..MaxFaults
  BY DEF Rest
<1>2. UNCHANGED <<denied, queue, handler, store, listening, faults>>
  BY DEF OtherTraffic, Midnight, poolVars
<1>3. LedgerTypeOK'
  <2>1. CASE OtherTraffic
    <3>1. PICK b \in Traffic : \/ TransferNow(<<b, 1>>, TrafficRequest[b])
                               \/ AdjustNow(<<b, 1>>, TrafficRequest[b])
      BY <2>1 DEF OtherTraffic
    <3>2. TrafficRequest[b] \in Requests
      BY RequestAssumption
    <3>3. MaxRetry * MaxAttempts \in Nat
      BY BoundIsNatural
    <3>4. 1 \in 1..(1 + MaxRetry * MaxAttempts)
      BY <3>3
    <3>5. <<b, 1>> \in TxIds
      BY <3>4, PoolTxIdsAssumption
    <3> QED
      BY <3>1, <3>2, <3>5, LedgerKeepsTypes DEF Rest
  <2>2. CASE Midnight
    <3>1. /\ day' = day + 1 /\ day < MaxDay /\ UNCHANGED <<balance, log>>
          /\ LedgerTypeOK
      BY <2>2 DEF Midnight, NextDay, Rest
    <3>2. day' \in Days
      BY <3>1, LimitAssumption DEF LedgerTypeOK, Days
    <3> QED
      BY <3>1, <3>2 DEF LedgerTypeOK
  <2> QED
    BY <2>1, <2>2
<1> QED
  BY <1>1, <1>2, <1>3, RestFromParts

LEMMA RestStep ==
    ASSUME IInv, BackedInv, Rest, [Next]_vars
    PROVE  Rest'
<1>1. CASE UNCHANGED vars
  BY <1>1 DEF vars, ledgerVars, poolVars, Rest, LedgerTypeOK
<1>2. CASE Next
  <2>1. CASE \E t \in Transfers : Create(t) \/ Expire(t) \/ CleanUp(t)
    BY <2>1, RowTypes
  <2>2. CASE \E t \in Transfers : Handle(t)
    BY <2>2, HandlerTypes
  <2>3. CASE \E t \in Transfers, k \in Retries : RetryTask(t, k)
    BY <2>3, RetryTypes
  <2>4. CASE OtherTraffic \/ Midnight
    BY <2>4, EnvironmentTypes
  <2>5. CASE \/ \E t \in Transfers : HandlerFails(t)
             \/ \E t \in Transfers, k \in Retries : RetryFails(t, k)
             \/ ListenerDrops \/ Restart
    BY <2>5, FaultTypes
  <2> QED
    BY <1>2, <2>1, <2>2, <2>3, <2>4, <2>5 DEF Next
<1> QED
  BY <1>1, <1>2

LEMMA InitRest == Init => Rest
<1> SUFFICES ASSUME Init PROVE Rest
  OBVIOUS
<1>1. LedgerTypeOK
  BY BalanceAssumption, LimitAssumption DEF Init, LedgerInit, LedgerTypeOK, Days
<1>2. NoChecks \in [Checks -> CheckValues] /\ "idle" \in Stands /\ <<>> \in Seq(Message)
  BY EmptySeq DEF NoChecks, CheckValues, Stands
<1> QED
  BY <1>1, <1>2, PoolBoundsAssumption DEF Init, Rest

-----------------------------------------------------------------------------
(* What is left to do, without failures *)

\* An approval is waiting for the handler, or being settled.
Announced(status, q, h) ==
    status = "approved" => h = "settle" \/ \E i \in DOMAIN q : q[i] = Approved

\* The last result announced for a check is the one stored in the row; when
\* no result is waiting, the check store has that one or none.
Latest(checks, q, s) ==
    \A c \in Checks :
        /\ \A i \in DOMAIN q :
              (q[i].check = c /\ \A j \in DOMAIN q : j > i => q[j].check # c)
                  => q[i].value = checks[c]
        /\ (\A i \in DOMAIN q : q[i].check # c) => s[c] \in {"none", checks[c]}

\* Before the first retry nothing clears the check store.
NotCleared(status, retry, q, s) ==
    (retry = 0 /\ status = "checking") =>
        \A c \in Checks : s[c] # "none" \/ \E i \in DOMAIN q : q[i].check = c

\* A retry task that will still reach the end of its statements.
Running(task) == task.pc \in {"sleep"} \cup InFlight /\ ~task.cancelled
Going(ts) == \E k \in Retries : Running(ts[k])

\* A full check store with a failure in it has been acted upon.
Retried(retry, h, s, ts) ==
    (AllReceived(s) /\ ~AllPassed(s) /\ retry < MaxRetry) => h = "schedule" \/ Going(ts)

InOrder(t) ==
    /\ Announced(pending[t].status, queue[t], handler[t])
    /\ Latest(pending[t].checks, queue[t], store[t])
    /\ NotCleared(pending[t].status, pending[t].retry, queue[t], store[t])
    /\ Retried(pending[t].retry, handler[t], store[t], tasks[t])

HInv == faults = 0 => listening /\ \A t \in Transfers : InOrder(t)

\* q2 is q with m after it, and q without its first message.
Joined(q, m, q2) ==
    /\ \A i \in DOMAIN q : i \in DOMAIN q2 /\ q2[i] = q[i]
    /\ \A j \in DOMAIN m : \E i \in DOMAIN q2 :
          q2[i] = m[j] /\ \A n \in DOMAIN q : i > n
    /\ \A i \in DOMAIN q2 : i \in DOMAIN q \/ \E j \in DOMAIN m : q2[i] = m[j]

Cut(q, q2) ==
    /\ 1 \in DOMAIN q /\ Head(q) = q[1] /\ Head(q) \in Message
    /\ \A i \in DOMAIN q2 : i + 1 \in DOMAIN q /\ q2[i] = q[i + 1]
    /\ \A i \in DOMAIN q : i # 1 => i - 1 \in DOMAIN q2 /\ q2[i - 1] = q[i]
    /\ DOMAIN q \subseteq Nat /\ DOMAIN q2 \subseteq Nat

LEMMA QueueGrows ==
    ASSUME NEW q \in Seq(Message), NEW m \in Seq(Message), NEW q2, q2 = q \o m
    PROVE  Joined(q, m, q2)
<1>1. /\ Len(q) \in Nat /\ Len(m) \in Nat /\ DOMAIN q = 1..Len(q) /\ DOMAIN m = 1..Len(m)
      /\ q2 \in Seq(Message) /\ Len(q2) = Len(q) + Len(m) /\ DOMAIN q2 = 1..Len(q2)
      /\ \A i \in 1..(Len(q) + Len(m)) :
            q2[i] = IF i <= Len(q) THEN q[i] ELSE m[i - Len(q)]
  BY ConcatProperties, LenProperties
<1>2. ASSUME NEW j \in DOMAIN m
      PROVE  \E i \in DOMAIN q2 : q2[i] = m[j] /\ \A n \in DOMAIN q : i > n
  <2> PICK i : i = Len(q) + j
    OBVIOUS
  <2>1. i \in DOMAIN q2 /\ i > Len(q) /\ i - Len(q) = j /\ i \in 1..(Len(q) + Len(m))
    BY <1>1
  <2>2. q2[i] = m[j]
    BY <1>1, <2>1
  <2> QED
    BY <1>1, <2>1, <2>2
<1>3. ASSUME NEW i \in DOMAIN q2, i \notin DOMAIN q
      PROVE  \E j \in DOMAIN m : q2[i] = m[j]
  <2> PICK j : j = i - Len(q)
    OBVIOUS
  <2>1. j \in DOMAIN m /\ ~(i <= Len(q)) /\ i \in 1..(Len(q) + Len(m))
    BY <1>1, <1>3
  <2> QED
    BY <1>1, <2>1
<1> QED
  BY <1>1, <1>2, <1>3 DEF Joined

LEMMA QueueShrinks ==
    ASSUME NEW q \in Seq(Message), q # <<>>, NEW q2, q2 = Tail(q)
    PROVE  Cut(q, q2)
<1>1. /\ Len(q) \in Nat /\ DOMAIN q = 1..Len(q) /\ Len(q) # 0
      /\ Head(q) \in Message /\ Head(q) = q[1]
      /\ q2 \in Seq(Message) /\ Len(q2) = Len(q) - 1 /\ DOMAIN q2 = 1..Len(q2)
      /\ \A i \in 1..Len(q2) : q2[i] = q[i + 1]
  BY HeadTailProperties, LenProperties, EmptySeq
<1>2. \A i \in DOMAIN q : i # 1 => i - 1 \in 1..Len(q2) /\ (i - 1) + 1 = i
  BY <1>1
<1>3. \A i \in DOMAIN q2 : i + 1 \in DOMAIN q
  BY <1>1
<1> QED
  BY <1>1, <1>2, <1>3 DEF Cut

\* m tells how the checks changed.
Tidings(m, checks, new) ==
    \A c \in Checks : /\ \A j \in DOMAIN m : m[j].check = c => m[j].value = new[c]
                      /\ (\A j \in DOMAIN m : m[j].check # c) => new[c] = checks[c]

\* Announcing what has just been stored keeps the announcements up to date.
LEMMA LatestGrows ==
    ASSUME NEW q \in Seq(Message), NEW m \in Seq(Message), NEW q2, q2 = q \o m,
           NEW checks, NEW new, NEW s, Latest(checks, q, s),
           Tidings(m, checks, new)
    PROVE  Latest(new, q2, s)
<1>0. Joined(q, m, q2)
  BY QueueGrows
<1>1. /\ \A i \in DOMAIN q : i \in DOMAIN q2 /\ q2[i] = q[i]
      /\ \A j \in DOMAIN m : \E i \in DOMAIN q2 : q2[i] = m[j] /\ \A n \in DOMAIN q : i > n
      /\ \A i \in DOMAIN q2 : i \in DOMAIN q \/ \E j \in DOMAIN m : q2[i] = m[j]
  BY <1>0 DEF Joined
<1> SUFFICES ASSUME NEW c \in Checks
             PROVE  /\ \A i \in DOMAIN q2 :
                          (q2[i].check = c /\ \A j \in DOMAIN q2 : j > i => q2[j].check # c)
                              => q2[i].value = new[c]
                    /\ (\A i \in DOMAIN q2 : q2[i].check # c) => s[c] \in {"none", new[c]}
  BY DEF Latest
<1>2. ASSUME NEW i \in DOMAIN q2, q2[i].check = c,
             \A j \in DOMAIN q2 : j > i => q2[j].check # c
      PROVE  q2[i].value = new[c]
  <2>1. CASE i \in DOMAIN q
    <3>1. ASSUME NEW j \in DOMAIN m PROVE m[j].check # c
      <4>1. PICK n \in DOMAIN q2 : q2[n] = m[j] /\ n > i
        BY <1>1, <2>1
      <4> QED
        BY <1>2, <4>1
    <3>2. \A j \in DOMAIN q : j > i => q[j].check # c
      BY <1>1, <1>2
    <3>3. q[i].check = c /\ q2[i] = q[i]
      BY <1>1, <1>2, <2>1
    <3>4. q[i].value = checks[c]
      BY <2>1, <3>2, <3>3 DEF Latest
    <3>5. new[c] = checks[c]
      BY <3>1 DEF Tidings
    <3> QED
      BY <3>3, <3>4, <3>5
  <2>2. CASE i \notin DOMAIN q
    BY <1>1, <1>2, <2>2 DEF Tidings
  <2> QED
    BY <2>1, <2>2
<1>3. ASSUME \A i \in DOMAIN q2 : q2[i].check # c
      PROVE  s[c] \in {"none", new[c]}
  <2>1. ASSUME NEW j \in DOMAIN m PROVE m[j].check # c
    <3>1. PICK n \in DOMAIN q2 : q2[n] = m[j]
      BY <1>1
    <3> QED
      BY <1>3, <3>1
  <2>2. \A i \in DOMAIN q : q[i].check # c
    BY <1>1, <1>3
  <2>3. s[c] \in {"none", checks[c]}
    BY <2>2 DEF Latest
  <2>4. new[c] = checks[c]
    BY <2>1 DEF Tidings
  <2> QED
    BY <2>3, <2>4
<1> QED
  BY <1>2, <1>3

\* s2 is s with the result m recorded, if it is one.
Heard(m, s, s2) == \A c \in Checks : s2[c] = IF m.check = c THEN m.value ELSE s[c]

\* So does recording the first of the waiting messages in the check store.
LEMMA LatestHeard ==
    ASSUME NEW q \in Seq(Message), q # <<>>, NEW q2, q2 = Tail(q),
           NEW checks, NEW s, NEW s2, Latest(checks, q, s),
           Heard(Head(q), s, s2)
    PROVE  Latest(checks, q2, s2)
<1>0. Cut(q, q2)
  BY QueueShrinks
<1>1. /\ 1 \in DOMAIN q /\ Head(q) = q[1] /\ Head(q) \in Message
      /\ \A i \in DOMAIN q2 : i + 1 \in DOMAIN q /\ q2[i] = q[i + 1]
      /\ \A i \in DOMAIN q : i # 1 => i - 1 \in DOMAIN q2 /\ q2[i - 1] = q[i]
      /\ DOMAIN q \subseteq Nat /\ DOMAIN q2 \subseteq Nat
  BY <1>0 DEF Cut
<1> SUFFICES ASSUME NEW c \in Checks
             PROVE  /\ \A i \in DOMAIN q2 :
                          (q2[i].check = c /\ \A j \in DOMAIN q2 : j > i => q2[j].check # c)
                              => q2[i].value = checks[c]
                    /\ (\A i \in DOMAIN q2 : q2[i].check # c) => s2[c] \in {"none", checks[c]}
  BY DEF Latest
<1>2. ASSUME NEW i \in DOMAIN q2, q2[i].check = c,
             \A j \in DOMAIN q2 : j > i => q2[j].check # c
      PROVE  q2[i].value = checks[c]
  <2>1. ASSUME NEW j \in DOMAIN q, j > i + 1 PROVE q[j].check # c
    <3>1. i \in Nat /\ j \in Nat
      BY <1>1
    <3>2. j # 1 /\ j - 1 > i
      BY <2>1, <3>1
    <3>3. j - 1 \in DOMAIN q2 /\ q2[j - 1] = q[j]
      BY <1>1, <3>2
    <3> QED
      BY <1>2, <3>2, <3>3
  <2> PICK n \in DOMAIN q : n = i + 1
    BY <1>1
  <2>2. q[n].check = c /\ q2[i] = q[n] /\ \A j \in DOMAIN q : j > n => q[j].check # c
    BY <1>1, <1>2, <2>1
  <2> QED
    BY <2>2 DEF Latest
<1>3. ASSUME \A i \in DOMAIN q2 : q2[i].check # c
      PROVE  s2[c] \in {"none", checks[c]}
  <2>1. ASSUME NEW i \in DOMAIN q, i # 1 PROVE q[i].check # c
    <3>1. i - 1 \in DOMAIN q2 /\ q2[i - 1] = q[i]
      BY <1>1, <2>1
    <3> QED
      BY <1>3, <3>1
  <2>2. CASE q[1].check = c
    <3>1. \A j \in DOMAIN q : j > 1 => q[j].check # c
      BY <1>1, <2>1
    <3>2. q[1].value = checks[c]
      BY <1>1, <2>2, <3>1 DEF Latest
    <3> QED
      BY <1>1, <2>2, <3>2 DEF Heard
  <2>3. CASE q[1].check # c
    <3>1. \A i \in DOMAIN q : q[i].check # c
      BY <2>1, <2>3
    <3>2. s[c] \in {"none", checks[c]}
      BY <3>1 DEF Latest
    <3> QED
      BY <1>1, <2>3, <3>2 DEF Heard
  <2> QED
    BY <2>2, <2>3
<1> QED
  BY <1>2, <1>3

LEMMA NotClearedGrows ==
    ASSUME NEW q \in Seq(Message), NEW m \in Seq(Message), NEW q2, q2 = q \o m,
           NEW status, NEW new, NEW retry, NEW s, NotCleared(status, retry, q, s),
           \/ new = "checking" => status = "checking"
           \/ \A c \in Checks : \E j \in DOMAIN m : m[j].check = c
    PROVE  NotCleared(new, retry, q2, s)
<1>0. Joined(q, m, q2)
  BY QueueGrows
<1>1. /\ \A i \in DOMAIN q : i \in DOMAIN q2 /\ q2[i] = q[i]
      /\ \A j \in DOMAIN m : \E i \in DOMAIN q2 : q2[i] = m[j]
  BY <1>0 DEF Joined
<1> SUFFICES ASSUME retry = 0, new = "checking", NEW c \in Checks
             PROVE  s[c] # "none" \/ \E i \in DOMAIN q2 : q2[i].check = c
  BY DEF NotCleared
<1>2. CASE status = "checking"
  BY <1>1, <1>2 DEF NotCleared
<1>3. CASE status # "checking"
  BY <1>1, <1>3
<1> QED
  BY <1>2, <1>3

LEMMA NotClearedHeard ==
    ASSUME NEW q \in Seq(Message), q # <<>>, NEW q2, q2 = Tail(q),
           NEW status, NEW retry, NEW s, NEW s2, NotCleared(status, retry, q, s),
           Heard(Head(q), s, s2)
    PROVE  NotCleared(status, retry, q2, s2)
<1>0. Cut(q, q2)
  BY QueueShrinks
<1>1. /\ 1 \in DOMAIN q /\ Head(q) = q[1] /\ Head(q) \in Message
      /\ \A i \in DOMAIN q : i # 1 => i - 1 \in DOMAIN q2 /\ q2[i - 1] = q[i]
  BY <1>0 DEF Cut
<1> SUFFICES ASSUME retry = 0, status = "checking", NEW c \in Checks
             PROVE  s2[c] # "none" \/ \E i \in DOMAIN q2 : q2[i].check = c
  BY DEF NotCleared
<1>2. CASE q[1].check = c
  BY <1>1, <1>2 DEF Heard, Message
<1>3. CASE q[1].check # c
  <2>1. s2[c] = s[c]
    BY <1>1, <1>3 DEF Heard
  <2>2. s[c] # "none" \/ \E i \in DOMAIN q : q[i].check = c
    BY DEF NotCleared
  <2>3. ASSUME NEW i \in DOMAIN q, q[i].check = c
        PROVE  \E j \in DOMAIN q2 : q2[j].check = c
    <3>1. i # 1
      BY <1>3, <2>3
    <3>2. i - 1 \in DOMAIN q2 /\ q2[i - 1] = q[i]
      BY <1>1, <3>1
    <3> QED
      BY <2>3, <3>2
  <2> QED
    BY <2>1, <2>2, <2>3
<1> QED
  BY <1>2, <1>3

\* What a step of one transfer leaves alone.
Others(t) ==
    \A u \in Transfers : u # t =>
        /\ pending'[u] = pending[u] /\ queue'[u] = queue[u] /\ handler'[u] = handler[u]
        /\ store'[u] = store[u] /\ tasks'[u] = tasks[u]

LEMMA OneTransfer ==
    ASSUME HInv, faults = 0, UNCHANGED listening, NEW t \in Transfers, InOrder(t)', Others(t)
    PROVE  HInv'
<1> SUFFICES ASSUME NEW u \in Transfers PROVE InOrder(u)'
  BY DEF HInv
<1>1. CASE u = t
  BY <1>1
<1>2. CASE u # t
  <2>1. InOrder(u)
    BY DEF HInv
  <2>2. /\ pending'[u] = pending[u] /\ queue'[u] = queue[u] /\ handler'[u] = handler[u]
        /\ store'[u] = store[u] /\ tasks'[u] = tasks[u]
    BY <1>2 DEF Others
  <2> QED
    BY <2>1, <2>2 DEF InOrder
<1> QED
  BY <1>1, <1>2

\* The values of one transfer, and their types.
LEMMA PartsOf ==
    ASSUME IInv, Rest, HInv, faults = 0, NEW t \in Transfers
    PROVE  /\ pending[t] \in RowType /\ queue[t] \in Seq(Message)
           /\ handler[t] \in Stands /\ store[t] \in [Checks -> CheckValues]
           /\ tasks[t] \in [Retries -> TaskType] /\ listening /\ InOrder(t)
BY DEF IInv, Shape, Rest, HInv

\* Recording a result.
LEMMA HandleResultInOrder ==
    ASSUME IInv, Rest, HInv, faults = 0, NEW t \in Transfers, HandleResult(t)
    PROVE  InOrder(t)' /\ Others(t)
<1>0. PICK q, q2, s, s2 :
          q = queue[t] /\ q2 = Tail(queue[t]) /\ s = store[t] /\ s2 = store'[t]
  OBVIOUS
<1>1. /\ Ready(t) /\ Consume(t) /\ Event(t).check \in Checks
      /\ UNCHANGED pending /\ Event(t) = Head(q)
      /\ store' = [store EXCEPT ![t] = [store[t] EXCEPT ![Event(t).check] = Event(t).value]]
  BY <1>0 DEF HandleResult, Event
<1>2. /\ queue'[t] = q2 /\ q2 = Tail(q) /\ Event(t) \in Message
      /\ \A u \in Transfers : u # t => queue'[u] = queue[u]
  BY <1>0, <1>1, ConsumeTypes
<1>3. /\ q \in Seq(Message) /\ q # <<>> /\ handler[t] = "idle" /\ InOrder(t)
      /\ s \in [Checks -> CheckValues]
  BY <1>0, <1>1, PartsOf DEF Ready
<1>4. /\ s2 = [s EXCEPT ![Event(t).check] = Event(t).value]
      /\ \A u \in Transfers : u # t => store'[u] = store[u]
  BY <1>0, <1>1 DEF Rest
<1>5. Heard(Head(q), s, s2)
  BY <1>1, <1>3, <1>4 DEF Heard
<1>6. q \in Seq(Message) /\ q # <<>> /\ q2 = Tail(q)
  BY <1>2, <1>3
<1>7. Latest(pending[t].checks, q2, s2)
  <2>1. Latest(pending[t].checks, q, s)
    BY <1>0, <1>3 DEF InOrder
  <2> QED
    BY <1>6, <1>5, <2>1, LatestHeard
<1>8. NotCleared(pending[t].status, pending[t].retry, q2, s2)
  <2>1. NotCleared(pending[t].status, pending[t].retry, q, s)
    BY <1>0, <1>3 DEF InOrder
  <2> QED
    BY <1>6, <1>5, <2>1, NotClearedHeard
<1>9. Announced(pending[t].status, q2, handler'[t])
  <2> SUFFICES ASSUME pending[t].status = "approved"
               PROVE  \E i \in DOMAIN q2 : q2[i] = Approved
    BY DEF Announced
  <2>1. PICK i \in DOMAIN q : q[i] = Approved
    BY <1>0, <1>3 DEF InOrder, Announced
  <2>2. Cut(q, q2)
    BY <1>2, <1>3, QueueShrinks
  <2>3. i # 1
    BY <1>1, <2>1, <2>2 DEF Cut, Approved, Checks
  <2> QED
    BY <2>1, <2>2, <2>3 DEF Cut
<1>10. Retried(pending[t].retry, handler'[t], s2, tasks'[t])
  <2> SUFFICES ASSUME AllReceived(s2), ~AllPassed(s2) PROVE handler'[t] = "schedule"
    BY DEF Retried
  <2>1. handler' = [handler EXCEPT ![t] = "schedule"]
    BY <1>0, <1>4 DEF HandleResult
  <2> QED
    BY <2>1 DEF Rest
<1>11. InOrder(t)'
  BY <1>0, <1>1, <1>2, <1>7, <1>8, <1>9, <1>10 DEF InOrder
<1>12. \A u \in Transfers : u # t => handler'[u] = handler[u] /\ tasks'[u] = tasks[u]
  <2>1. handler' = handler \/ handler' = [handler EXCEPT ![t] = "schedule"]
    BY DEF HandleResult
  <2>2. UNCHANGED tasks \/ Cancel(t)
    BY DEF HandleResult
  <2>3. \A u \in Transfers : u # t => tasks'[u] = tasks[u]
    BY <2>2 DEF Cancel, IInv, Shape
  <2> QED
    BY <2>1, <2>3 DEF Rest
<1> QED
  BY <1>1, <1>2, <1>4, <1>11, <1>12 DEF Others

\* Consuming an approval says nothing of the checks.
LEMMA ApprovalInOrder ==
    ASSUME IInv, Rest, HInv, faults = 0, NEW t \in Transfers,
           Execute(t) \/ SkipExecute(t) \/ ExecuteRefused(t)
    PROVE  InOrder(t)' /\ Others(t)
<1> PICK q, q2, s : q = queue[t] /\ q2 = Tail(queue[t]) /\ s = store[t]
  OBVIOUS
<1>1. /\ Ready(t) /\ Consume(t) /\ Event(t) = Approved /\ Event(t) = Head(q)
      /\ store' = store /\ tasks' = tasks
  BY DEF Execute, SkipExecute, ExecuteRefused, Event
<1>2. /\ queue'[t] = q2 /\ q2 = Tail(q)
      /\ \A u \in Transfers : u # t => queue'[u] = queue[u]
  BY <1>1, ConsumeTypes
<1>3. /\ q \in Seq(Message) /\ q # <<>> /\ handler[t] = "idle" /\ InOrder(t)
      /\ s \in [Checks -> CheckValues] /\ pending[t] \in RowType
  BY <1>1, PartsOf DEF Ready
<1>4. Heard(Head(q), s, s)
  BY <1>1 DEF Heard, Approved, Checks
<1>5. /\ pending'[t].checks = pending[t].checks /\ pending'[t].retry = pending[t].retry
      /\ \/ pending'[t].status = pending[t].status /\ pending[t].status # "approved"
         \/ pending'[t].status = "completed"
         \/ pending'[t].status = pending[t].status /\ handler'[t] = "settle"
      /\ \A u \in Transfers : u # t => pending'[u] = pending[u] /\ handler'[u] = handler[u]
  <2>1. CASE Execute(t)
    <3>1. pending' = [pending EXCEPT ![t] = [@ EXCEPT !.status = "completed"]]
          /\ handler' = handler
      BY <2>1 DEF Execute, SetStatus
    <3>2. /\ [pending[t] EXCEPT !.status = "completed"].status = "completed"
          /\ [pending[t] EXCEPT !.status = "completed"].checks = pending[t].checks
          /\ [pending[t] EXCEPT !.status = "completed"].retry = pending[t].retry
      BY <1>3 DEF RowType
    <3> QED
      BY <3>1, <3>2 DEF IInv, Shape
  <2>2. CASE SkipExecute(t)
    BY <2>2 DEF SkipExecute
  <2>3. CASE ExecuteRefused(t)
    <3>1. pending' = pending /\ handler' = [handler EXCEPT ![t] = "settle"]
      BY <2>3 DEF ExecuteRefused
    <3> QED
      BY <3>1 DEF Rest
  <2> QED
    BY <2>1, <2>2, <2>3
<1>6. Latest(pending[t].checks, q2, s)
  <2>1. Latest(pending[t].checks, q, s)
    BY <1>3 DEF InOrder
  <2> QED
    BY <1>2, <1>3, <1>4, <2>1, LatestHeard
<1>7. NotCleared(pending[t].status, pending[t].retry, q2, s)
  <2>1. NotCleared(pending[t].status, pending[t].retry, q, s)
    BY <1>3 DEF InOrder
  <2> QED
    BY <1>2, <1>3, <1>4, <2>1, NotClearedHeard
<1>8. NotCleared(pending'[t].status, pending[t].retry, q2, s)
  BY <1>5, <1>7 DEF NotCleared
<1>9. Announced(pending'[t].status, q2, handler'[t])
  BY <1>5 DEF Announced
<1>10. Retried(pending[t].retry, handler'[t], s, tasks[t])
  BY <1>3 DEF InOrder, Retried
<1>11. InOrder(t)'
  BY <1>1, <1>2, <1>5, <1>6, <1>8, <1>9, <1>10 DEF InOrder
<1> QED
  BY <1>1, <1>2, <1>5, <1>11 DEF Others

\* A step that writes the status and moves the handler on.
LEMMA StatusInOrder ==
    ASSUME IInv, Rest, HInv, faults = 0, NEW t \in Transfers,
           NEW status, SetStatus(t, status), status # "approved", status # "checking",
           NEW h, handler' = [handler EXCEPT ![t] = h], UNCHANGED <<queue, store, tasks>>,
           \/ pending[t].retry >= MaxRetry \/ handler[t] # "schedule" \/ h = "schedule"
    PROVE  InOrder(t)' /\ Others(t)
<1>1. pending[t] \in RowType /\ InOrder(t)
  BY PartsOf
<1>2. pending' = [pending EXCEPT ![t] = [@ EXCEPT !.status = status]]
  BY DEF SetStatus
<1>3. /\ [pending[t] EXCEPT !.status = status].status = status
      /\ [pending[t] EXCEPT !.status = status].checks = pending[t].checks
      /\ [pending[t] EXCEPT !.status = status].retry = pending[t].retry
  BY <1>1 DEF RowType
<1>4. /\ pending'[t].status = status /\ pending'[t].checks = pending[t].checks
      /\ pending'[t].retry = pending[t].retry /\ handler'[t] = h
      /\ \A u \in Transfers : u # t => pending'[u] = pending[u] /\ handler'[u] = handler[u]
  BY <1>2, <1>3 DEF IInv, Shape, Rest
<1>5. Retried(pending[t].retry, h, store[t], tasks[t])
  BY <1>1, BoundIsNatural DEF InOrder, Retried, RowType
<1>6. Announced(status, queue[t], h) /\ NotCleared(status, pending[t].retry, queue[t], store[t])
  BY DEF Announced, NotCleared
<1> QED
  BY <1>1, <1>4, <1>5, <1>6 DEF InOrder, Others

\* A step that only moves the handler on.
LEMMA HandlerInOrder ==
    ASSUME IInv, Rest, HInv, faults = 0, NEW t \in Transfers, handler[t] = "notify",
           handler' = [handler EXCEPT ![t] = "idle"], UNCHANGED <<pending, queue, store, tasks>>
    PROVE  InOrder(t)' /\ Others(t)
<1>1. InOrder(t)
  BY PartsOf
<1>2. handler'[t] = "idle" /\ \A u \in Transfers : u # t => handler'[u] = handler[u]
  BY DEF Rest
<1>3. /\ Announced(pending[t].status, queue[t], "idle")
      /\ Retried(pending[t].retry, "idle", store[t], tasks[t])
  BY <1>1 DEF InOrder, Announced, Retried
<1> QED
  BY <1>1, <1>2, <1>3 DEF InOrder, Others

\* A scheduled retry is a task that will run.
LEMMA ScheduleInOrder ==
    ASSUME IInv, Rest, HInv, faults = 0, NEW t \in Transfers, ScheduleRetry(t)
    PROVE  InOrder(t)' /\ Others(t)
<1> PICK k : k = pending[t].retry + 1
  OBVIOUS
<1>1. /\ pending[t] \in RowType /\ InOrder(t) /\ tasks[t] \in [Retries -> TaskType]
      /\ handler[t] = "schedule" /\ pending[t].retry < MaxRetry
  BY PartsOf DEF ScheduleRetry
<1>2. k \in Retries /\ k # 0
  BY <1>1, BoundIsNatural DEF RowType, Retries
<1>3. /\ pending' = [pending EXCEPT ![t] = [@ EXCEPT !.retry = k]]
      /\ tasks' = [tasks EXCEPT ![t][k] = NewTask]
      /\ handler' = [handler EXCEPT ![t] = "idle"] /\ UNCHANGED <<queue, store>>
  BY DEF ScheduleRetry
<1>4. /\ [pending[t] EXCEPT !.retry = k].status = pending[t].status
      /\ [pending[t] EXCEPT !.retry = k].checks = pending[t].checks
      /\ [pending[t] EXCEPT !.retry = k].retry = k
  BY <1>1 DEF RowType
<1>5. /\ pending'[t].status = pending[t].status /\ pending'[t].checks = pending[t].checks
      /\ pending'[t].retry = k /\ handler'[t] = "idle" /\ tasks'[t][k] = NewTask
      /\ \A u \in Transfers : u # t => /\ pending'[u] = pending[u] /\ handler'[u] = handler[u]
                                       /\ tasks'[u] = tasks[u]
  BY <1>2, <1>3, <1>4 DEF IInv, Shape, Rest
<1>6. Announced(pending[t].status, queue[t], "idle")
  BY <1>1 DEF InOrder, Announced
<1>7. NotCleared(pending[t].status, k, queue[t], store[t])
  BY <1>2 DEF NotCleared
<1>8. Going(tasks'[t])
  BY <1>2, <1>5 DEF Going, Running, NewTask, NoTask
<1>9. Retried(k, "idle", store[t], tasks'[t])
  BY <1>8 DEF Retried
<1> QED
  BY <1>1, <1>3, <1>5, <1>6, <1>7, <1>9 DEF InOrder, Others

LEMMA HandlerIsInOrder ==
    ASSUME IInv, Rest, HInv, faults = 0, NEW t \in Transfers, Handle(t)
    PROVE  HInv'
<1>1. UNCHANGED listening
  BY DEF Handle, HandleResult, ScheduleRetry, RejectAtLimit, NotifyDenied, Execute, SkipExecute,
         ExecuteRefused, SettleRefused
<1>2. InOrder(t)' /\ Others(t)
  <2>1. CASE HandleResult(t)
    BY <2>1, HandleResultInOrder
  <2>2. CASE ScheduleRetry(t)
    BY <2>2, ScheduleInOrder
  <2>3. CASE RejectAtLimit(t)
    <3>1. /\ SetStatus(t, "rejected") /\ handler' = [handler EXCEPT ![t] = "notify"]
          /\ UNCHANGED <<queue, store, tasks>> /\ pending[t].retry >= MaxRetry
      BY <2>3 DEF RejectAtLimit
    <3> QED
      BY <3>1, StatusInOrder
  <2>4. CASE NotifyDenied(t)
    <3>1. /\ handler[t] = "notify" /\ handler' = [handler EXCEPT ![t] = "idle"]
          /\ UNCHANGED <<pending, queue, store, tasks>>
      BY <2>4 DEF NotifyDenied
    <3> QED
      BY <3>1, HandlerInOrder
  <2>5. CASE Execute(t) \/ SkipExecute(t) \/ ExecuteRefused(t)
    BY <2>5, ApprovalInOrder
  <2>6. CASE SettleRefused(t)
    <3>1. /\ SetStatus(t, "rejected") /\ handler' = [handler EXCEPT ![t] = "idle"]
          /\ UNCHANGED <<queue, store, tasks>> /\ handler[t] # "schedule"
      BY <2>6 DEF SettleRefused
    <3> QED
      BY <3>1, StatusInOrder
  <2> QED
    BY <2>1, <2>2, <2>3, <2>4, <2>5, <2>6 DEF Handle
<1> QED
  BY <1>1, <1>2, OneTransfer

\* What the notifications of one check tell, and those of creation.
Tells(news, row, new, told) ==
    /\ \A c \in Checks : /\ \A j \in DOMAIN news : news[j].check = c => news[j].value = new[c]
                         /\ c \in told => \E j \in DOMAIN news : news[j].check = c
    /\ Approves(row) => \E j \in DOMAIN news : news[j] = Approved

LEMMA WithApproval ==
    ASSUME NEW first \in Seq(Message), NEW row, NEW news,
           news = first \o IF Approves(row) THEN <<Approved>> ELSE <<>>,
           NEW new, NEW told \in SUBSET Checks,
           \A j \in DOMAIN first : first[j].check \in Checks /\ first[j].value = new[first[j].check],
           \A c \in told : \E j \in DOMAIN first : first[j].check = c
    PROVE  Tells(news, row, new, told)
<1>0. PICK tail : tail = IF Approves(row) THEN <<Approved>> ELSE <<>>
  OBVIOUS
<1>1. tail \in Seq(Message) /\ \A j \in DOMAIN tail : tail[j] = Approved
  <2>1. Approved \in Message
    BY ApprovedIsMessage
  <2>2. CASE Approves(row)
    <3>1. tail = <<Approved>>
      BY <1>0, <2>2
    <3> QED
      BY <2>1, <3>1
  <2>3. CASE ~Approves(row)
    <3>1. tail = <<>>
      BY <1>0, <2>3
    <3>2. tail \in Seq(Message) /\ DOMAIN tail = {}
      BY <3>1, EmptySeq
    <3> QED
      BY <3>2
  <2> QED
    BY <2>2, <2>3
<1>2. Approves(row) => \E j \in DOMAIN tail : tail[j] = Approved
  <2> SUFFICES ASSUME Approves(row) PROVE \E j \in DOMAIN tail : tail[j] = Approved
    OBVIOUS
  <2>1. tail = <<Approved>>
    BY <1>0
  <2>2. 1 \in DOMAIN tail /\ tail[1] = Approved
    BY <2>1
  <2> QED
    BY <2>2
<1>3. Joined(first, tail, news)
  <2>1. news = first \o tail
    BY <1>0
  <2> QED
    BY <1>1, <2>1, QueueGrows
<1>4. ASSUME NEW c \in Checks, NEW j \in DOMAIN news, news[j].check = c
      PROVE  news[j].value = new[c]
  <2>1. CASE j \in DOMAIN first
    <3>1. news[j] = first[j]
      BY <1>3, <2>1 DEF Joined
    <3> QED
      BY <1>4, <2>1, <3>1
  <2>2. CASE j \notin DOMAIN first
    <3>1. PICK i \in DOMAIN tail : news[j] = tail[i]
      BY <1>3, <2>2 DEF Joined
    <3>2. news[j] = Approved
      BY <1>1, <3>1
    <3> QED
      BY <1>4, <3>2 DEF Approved, Checks
  <2> QED
    BY <2>1, <2>2
<1>5. ASSUME NEW c \in told PROVE \E j \in DOMAIN news : news[j].check = c
  <2>1. PICK j \in DOMAIN first : first[j].check = c
    OBVIOUS
  <2>2. j \in DOMAIN news /\ news[j] = first[j]
    BY <1>3 DEF Joined
  <2> QED
    BY <2>1, <2>2
<1>6. ASSUME Approves(row) PROVE \E j \in DOMAIN news : news[j] = Approved
  <2>1. PICK j \in DOMAIN tail : tail[j] = Approved
    BY <1>2, <1>6
  <2>2. PICK i \in DOMAIN news : news[i] = tail[j]
    BY <1>3 DEF Joined
  <2> QED
    BY <2>1, <2>2
<1> QED
  BY <1>4, <1>5, <1>6 DEF Tells

LEMMA CheckNewsTells ==
    ASSUME NEW t \in Transfers, NEW c \in Checks, NEW row, NEW new, new[c] = Verdict(t, c)
    PROVE  Tells(CheckNews(t, c, row), row, new, {c})
<1>0. PICK first : first = <<Result(c, Passes(t, c))>>
  OBVIOUS
<1>1. first \in Seq(Message)
  <2>1. Result(c, Passes(t, c)) \in Message
    BY ResultIsMessage
  <2> QED
    BY <1>0, <2>1
<1>2. DOMAIN first = {1} /\ first[1] = Result(c, Passes(t, c))
  BY <1>0
<1>3. Result(c, Passes(t, c)).check = c /\ Result(c, Passes(t, c)).value = new[c]
  BY DEF Result, Verdict
<1>4. /\ \A j \in DOMAIN first :
            first[j].check \in Checks /\ first[j].value = new[first[j].check]
      /\ \A d \in {c} : \E j \in DOMAIN first : first[j].check = d
  BY <1>2, <1>3
<1>5. CheckNews(t, c, row) = first \o IF Approves(row) THEN <<Approved>> ELSE <<>>
  BY <1>0 DEF CheckNews
<1>6. {c} \in SUBSET Checks
  OBVIOUS
<1> QED
  BY <1>1, <1>4, <1>5, <1>6, WithApproval

LEMMA BirthNewsTells ==
    ASSUME NEW t \in Transfers, NEW row, NEW new, \A c \in Checks : new[c] = Verdict(t, c)
    PROVE  Tells(BirthNews(t, row), row, new, Checks)
<1>0. PICK first : first = <<Result("balance", Passes(t, "balance")),
                             Result("cooldown", Passes(t, "cooldown")),
                             Result("daily_limit", Passes(t, "daily_limit"))>>
  OBVIOUS
<1>1. first \in Seq(Message)
  <2>1. /\ Result("balance", Passes(t, "balance")) \in Message
        /\ Result("cooldown", Passes(t, "cooldown")) \in Message
        /\ Result("daily_limit", Passes(t, "daily_limit")) \in Message
    BY ResultIsMessage DEF Checks
  <2> QED
    BY <1>0, <2>1
<1>2. /\ DOMAIN first = {1, 2, 3} /\ first[1] = Result("balance", Passes(t, "balance"))
      /\ first[2] = Result("cooldown", Passes(t, "cooldown"))
      /\ first[3] = Result("daily_limit", Passes(t, "daily_limit"))
  BY <1>0
<1>3. \A c \in Checks : /\ Result(c, Passes(t, c)).check = c
                        /\ Result(c, Passes(t, c)).value = new[c]
  BY DEF Result, Verdict
<1>4. /\ first[1].check = "balance" /\ first[1].value = new["balance"]
      /\ first[2].check = "cooldown" /\ first[2].value = new["cooldown"]
      /\ first[3].check = "daily_limit" /\ first[3].value = new["daily_limit"]
  BY <1>2, <1>3 DEF Checks
<1>5. /\ \A j \in DOMAIN first :
            first[j].check \in Checks /\ first[j].value = new[first[j].check]
      /\ \A c \in Checks : \E j \in DOMAIN first : first[j].check = c
  BY <1>2, <1>4 DEF Checks
<1>6. BirthNews(t, row) = first \o IF Approves(row) THEN <<Approved>> ELSE <<>>
  BY <1>0 DEF BirthNews
<1> QED
  BY <1>1, <1>5, <1>6, WithApproval

\* Storing what checks found and telling it, in one transaction.
LEMMA NewsInOrder ==
    ASSUME IInv, Rest, HInv, faults = 0, NEW t \in Transfers,
           NEW news \in Seq(Message), Notify(t, news), NEW row \in RowType,
           pending' = [pending EXCEPT ![t] = Approve(row)], row.retry = pending[t].retry,
           NEW told \in SUBSET Checks, Tells(news, row, row.checks, told),
           \A c \in Checks \ told : row.checks[c] = pending[t].checks[c],
           UNCHANGED <<handler, store>>, Going(tasks[t]) => Going(tasks'[t]),
           \A u \in Transfers : u # t => tasks'[u] = tasks[u],
           told = Checks \/ row.status = pending[t].status, row.status # "approved" \/
              row.status = pending[t].status
    PROVE  InOrder(t)' /\ Others(t)
<1>0. PICK q, q2, now : q = queue[t] /\ q2 = queue'[t] /\ now = Approve(row)
  OBVIOUS
<1>1. /\ q \in Seq(Message) /\ InOrder(t) /\ listening
  BY <1>0, PartsOf
<1>2. /\ q2 = q \o news /\ \A u \in Transfers : u # t => queue'[u] = queue[u]
  BY <1>0, <1>1, NotifyTypes
<1>3. /\ now.retry = row.retry /\ now.checks = row.checks
      /\ Approves(row) => now.status = "approved"
      /\ ~Approves(row) => now.status = row.status
  <2>1. CASE Approves(row)
    <3>1. now = [row EXCEPT !.status = "approved"]
      BY <1>0, <2>1 DEF Approve
    <3> QED
      BY <2>1, <3>1 DEF RowType
  <2>2. CASE ~Approves(row)
    <3>1. now = row
      BY <1>0, <2>2 DEF Approve
    <3> QED
      BY <2>2, <3>1
  <2> QED
    BY <2>1, <2>2
<1>4. pending'[t] = now /\ \A u \in Transfers : u # t => pending'[u] = pending[u]
  BY <1>0 DEF IInv, Shape
<1>11. q \in Seq(Message) /\ news \in Seq(Message) /\ q2 = q \o news
  BY <1>1, <1>2
<1>5. Joined(q, news, q2)
  BY <1>11, QueueGrows
<1>6. Announced(now.status, q2, handler[t])
  <2>1. CASE Approves(row)
    <3>1. PICK j \in DOMAIN news : news[j] = Approved
      BY <2>1 DEF Tells
    <3>2. PICK i \in DOMAIN q2 : q2[i] = news[j]
      BY <1>5 DEF Joined
    <3> QED
      BY <3>1, <3>2 DEF Announced
  <2>2. CASE ~Approves(row)
    <3>1. now.status = "approved" => pending[t].status = "approved"
      BY <1>3, <2>2
    <3>2. Announced(pending[t].status, q, handler[t])
      BY <1>0, <1>1 DEF InOrder
    <3>3. \A i \in DOMAIN q : i \in DOMAIN q2 /\ q2[i] = q[i]
      BY <1>5 DEF Joined
    <3> QED
      BY <3>1, <3>2, <3>3 DEF Announced
  <2> QED
    BY <2>1, <2>2
<1>7. Latest(row.checks, q2, store[t])
  <2>1. Latest(pending[t].checks, q, store[t])
    BY <1>0, <1>1 DEF InOrder
  <2>2. ASSUME NEW c \in Checks
        PROVE  /\ \A j \in DOMAIN news : news[j].check = c => news[j].value = row.checks[c]
               /\ (\A j \in DOMAIN news : news[j].check # c) =>
                      row.checks[c] = pending[t].checks[c]
    BY DEF Tells
  <2>3. PICK checks, new, s : checks = pending[t].checks /\ new = row.checks /\ s = store[t]
    OBVIOUS
  <2>4. Latest(checks, q, s)
    BY <2>1, <2>3
  <2>5. Tidings(news, checks, new)
    BY <2>2, <2>3 DEF Tidings
  <2>6. Latest(new, q2, s)
    BY <1>11, <2>4, <2>5, LatestGrows
  <2> QED
    BY <2>3, <2>6
<1>8. NotCleared(now.status, now.retry, q2, store[t])
  <2>1. NotCleared(pending[t].status, now.retry, q, store[t])
    BY <1>0, <1>1, <1>3 DEF InOrder
  <2>2. \/ (now.status = "checking" => pending[t].status = "checking")
        \/ \A c \in Checks : \E j \in DOMAIN news : news[j].check = c
    BY <1>3 DEF Tells
  <2>3. PICK status, new, retry, s :
            status = pending[t].status /\ new = now.status /\ retry = now.retry /\ s = store[t]
    OBVIOUS
  <2>4. NotCleared(status, retry, q, s)
    BY <2>1, <2>3
  <2>5. \/ (new = "checking" => status = "checking")
        \/ \A c \in Checks : \E j \in DOMAIN news : news[j].check = c
    BY <2>2, <2>3
  <2>6. NotCleared(new, retry, q2, s)
    BY <1>11, <2>4, <2>5, NotClearedGrows
  <2> QED
    BY <2>3, <2>6
<1>9. Retried(now.retry, handler[t], store[t], tasks'[t])
  BY <1>1, <1>3 DEF InOrder, Retried
<1>10. InOrder(t)'
  BY <1>0, <1>3, <1>4, <1>6, <1>7, <1>8, <1>9 DEF InOrder
<1> QED
  BY <1>2, <1>4, <1>10 DEF Others

LEMMA CreateInOrder ==
    ASSUME IInv, Rest, HInv, faults = 0, NEW t \in Transfers, Create(t)
    PROVE  InOrder(t)' /\ Others(t)
<1>0. PICK row : row = Born(t)
  OBVIOUS
<1>1. /\ Notify(t, BirthNews(t, row)) /\ pending' = [pending EXCEPT ![t] = Approve(row)]
      /\ UNCHANGED <<handler, store, tasks>>
  BY <1>0, CreateNews
<1>2. PICK checks : checks = [c \in Checks |-> Verdict(t, c)]
  OBVIOUS
<1>3. checks \in [Checks -> CheckValues] /\ \A c \in Checks : checks[c] = Verdict(t, c)
  BY <1>2 DEF Verdict, CheckValues
<1>4. pending[t] \in RowType
  BY PartsOf
<1>5. /\ row = [pending[t] EXCEPT !.status = "checking", !.checks = checks]
      /\ row \in RowType /\ row.checks = checks /\ row.retry = pending[t].retry
      /\ row.status # "approved"
  BY <1>0, <1>2, <1>3, <1>4 DEF Born, RowType, Statuses
<1>6. PICK news \in Seq(Message) : news = BirthNews(t, row)
  BY NewsIsSent DEF Checks
<1>7. Tells(news, row, row.checks, Checks)
  <2>1. Tells(BirthNews(t, row), row, checks, Checks)
    BY <1>3, BirthNewsTells
  <2> QED
    BY <1>5, <1>6, <2>1
<1>8. /\ Notify(t, news) /\ Checks \in SUBSET Checks
      /\ \A c \in Checks \ Checks : row.checks[c] = pending[t].checks[c]
      /\ (Going(tasks[t]) => Going(tasks'[t]))
      /\ \A u \in Transfers : u # t => tasks'[u] = tasks[u]
  BY <1>1, <1>6
<1> QED
  BY <1>1, <1>5, <1>7, <1>8, NewsInOrder

\* A step of task k leaves the other tasks of t, and all other transfers, alone.
LEMMA GoingKept ==
    ASSUME IInv, NEW t \in Transfers, NEW k \in Retries, NEW new,
           tasks' = [tasks EXCEPT ![t][k] = new], Running(tasks[t][k]) => Running(new)
    PROVE  /\ Going(tasks[t]) => Going(tasks'[t])
           /\ \A u \in Transfers : u # t => tasks'[u] = tasks[u]
<1>1. /\ tasks'[t][k] = new /\ \A j \in Retries : j # k => tasks'[t][j] = tasks[t][j]
      /\ \A u \in Transfers : u # t => tasks'[u] = tasks[u]
  BY DEF IInv, Shape
<1>2. ASSUME NEW j \in Retries, Running(tasks[t][j]) PROVE Going(tasks'[t])
  <2>1. Running(tasks'[t][j])
    BY <1>1, <1>2
  <2> QED
    BY <2>1 DEF Going
<1> QED
  BY <1>1, <1>2 DEF Going

\* The same for a step that only moves the program counter of the task.
LEMMA CounterKept ==
    ASSUME IInv, NEW t \in Transfers, NEW k \in Retries, NEW pc,
           tasks' = [tasks EXCEPT ![t][k].pc = pc],
           Running(tasks[t][k]) => pc \in InFlight
    PROVE  /\ Going(tasks[t]) => Going(tasks'[t])
           /\ \A u \in Transfers : u # t => tasks'[u] = tasks[u]
<1>0. PICK new : new = [tasks[t][k] EXCEPT !.pc = pc]
  OBVIOUS
<1>1. tasks[t][k] \in TaskType
  BY DEF IInv, Shape
<1>2. new.pc = pc /\ new.cancelled = tasks[t][k].cancelled
  BY <1>0, <1>1 DEF TaskType
<1>3. tasks' = [tasks EXCEPT ![t][k] = new]
  BY <1>0 DEF IInv, Shape
<1>4. Running(tasks[t][k]) => Running(new)
  BY <1>2 DEF Running
<1> QED
  BY <1>3, <1>4, GoingKept

LEMMA AdvanceKeepsGoing ==
    ASSUME IInv, NEW t \in Transfers, NEW k \in Retries,
           tasks[t][k].pc \in InFlight \ {"remove"}, Advance(t, k)
    PROVE  /\ Going(tasks[t]) => Going(tasks'[t])
           /\ \A u \in Transfers : u # t => tasks'[u] = tasks[u]
<1>0. PICK pc : pc = IF tasks[t][k].cancelled THEN "finally" ELSE Following(tasks[t][k].pc)
  OBVIOUS
<1>1. tasks' = [tasks EXCEPT ![t][k].pc = pc]
  BY <1>0 DEF Advance, IInv, Shape
<1>2. Following(tasks[t][k].pc) \in InFlight
  BY DEF InFlight, Checks, Following
<1>3. Running(tasks[t][k]) => pc \in InFlight
  BY <1>0, <1>2 DEF Running
<1> QED
  BY <1>1, <1>3, CounterKept

\* Only a transfer whose retries have been counted has retry tasks.
LEMMA TaskIsCounted ==
    ASSUME IInv, NEW t \in Transfers, NEW k \in Retries, tasks[t][k].pc # "none"
    PROVE  pending[t].retry # 0
<1>1. /\ pending[t] \in RowType
      /\ \A j \in Retries : j > pending[t].retry => tasks[t][j] = NoTask
  BY DEF IInv, Shape, RetriesCounted
<1> SUFFICES ASSUME pending[t].retry = 0 PROVE FALSE
  OBVIOUS
<1>2. k > 0
  BY BoundIsNatural DEF Retries
<1>3. tasks[t][k] = NoTask
  BY <1>1, <1>2
<1> QED
  BY <1>3 DEF NoTask

LEMMA RetryCheckInOrder ==
    ASSUME IInv, Rest, HInv, faults = 0, NEW t \in Transfers, NEW k \in Retries,
           RetryCheck(t, k)
    PROVE  InOrder(t)' /\ Others(t)
<1>0. PICK c : c = tasks[t][k].pc
  OBVIOUS
<1>1. PICK row : row = Rechecked(t, c)
  OBVIOUS
<1>2. /\ c \in Checks /\ Notify(t, CheckNews(t, c, row))
      /\ pending' = [pending EXCEPT ![t] = Approve(row)] /\ UNCHANGED <<handler, store>>
      /\ Advance(t, k)
  BY <1>0, <1>1, RetryNews DEF RetryCheck
<1>3. pending[t] \in RowType
  BY PartsOf
<1>4. PICK checks : checks = [pending[t].checks EXCEPT ![c] = Verdict(t, c)]
  OBVIOUS
<1>5. /\ checks \in [Checks -> CheckValues] /\ checks[c] = Verdict(t, c)
      /\ \A d \in Checks \ {c} : checks[d] = pending[t].checks[d]
  BY <1>2, <1>3, <1>4 DEF RowType, Verdict, CheckValues
<1>6. /\ row \in RowType /\ row.checks = checks /\ row.retry = pending[t].retry
      /\ row.status = pending[t].status
  <2>1. row = [pending[t] EXCEPT !.checks = checks]
    BY <1>1, <1>3, <1>4 DEF Rechecked, RowType
  <2> QED
    BY <1>3, <1>5, <2>1 DEF RowType
<1>7. PICK news \in Seq(Message) : news = CheckNews(t, c, row)
  BY <1>2, NewsIsSent
<1>8. Tells(news, row, row.checks, {c})
  <2>1. Tells(CheckNews(t, c, row), row, checks, {c})
    BY <1>2, <1>5, CheckNewsTells
  <2> QED
    BY <1>6, <1>7, <2>1
<1>9. /\ Going(tasks[t]) => Going(tasks'[t])
      /\ \A u \in Transfers : u # t => tasks'[u] = tasks[u]
  <2>1. tasks[t][k].pc \in InFlight \ {"remove"}
    BY <1>0, <1>2 DEF InFlight, Checks
  <2> QED
    BY <1>2, <2>1, AdvanceKeepsGoing
<1>10. /\ Notify(t, news) /\ {c} \in SUBSET Checks
       /\ \A d \in Checks \ {c} : row.checks[d] = pending[t].checks[d]
  BY <1>2, <1>5, <1>6, <1>7
<1> QED
  BY <1>2, <1>6, <1>8, <1>9, <1>10, NewsInOrder

\* A step that touches neither the queue nor the handler nor the check store.
LEMMA TaskInOrder ==
    ASSUME IInv, Rest, HInv, faults = 0, NEW t \in Transfers,
           UNCHANGED <<queue, handler, store>>,
           Going(tasks[t]) => Going(tasks'[t]),
           \A u \in Transfers : u # t => tasks'[u] = tasks[u],
           NEW row, pending' = [pending EXCEPT ![t] = row],
           row.checks = pending[t].checks, row.retry = pending[t].retry,
           \/ row.status = pending[t].status
           \/ row.status = "rejected"
           \/ (row.status = "checking" /\ row.retry # 0)
    PROVE  InOrder(t)' /\ Others(t)
<1>1. InOrder(t)
  BY PartsOf
<1>2. pending'[t] = row /\ \A u \in Transfers : u # t => pending'[u] = pending[u]
  BY DEF IInv, Shape
<1>3. /\ Announced(row.status, queue[t], handler[t])
      /\ NotCleared(row.status, row.retry, queue[t], store[t])
      /\ Retried(row.retry, handler[t], store[t], tasks'[t])
  BY <1>1 DEF InOrder, Announced, NotCleared, Retried
<1> QED
  BY <1>1, <1>2, <1>3 DEF InOrder, Others

LEMMA SameRow ==
    ASSUME IInv, NEW t \in Transfers, UNCHANGED pending
    PROVE  pending' = [pending EXCEPT ![t] = pending[t]]
BY DEF IInv, Shape

LEMMA NewStatus ==
    ASSUME IInv, NEW t \in Transfers, NEW status, SetStatus(t, status)
    PROVE  \E row : /\ pending' = [pending EXCEPT ![t] = row] /\ row.status = status
                    /\ row.checks = pending[t].checks /\ row.retry = pending[t].retry
<1>0. PICK row : row = [pending[t] EXCEPT !.status = status]
  OBVIOUS
<1>1. pending[t] \in RowType
  BY DEF IInv, Shape
<1>2. row.status = status /\ row.checks = pending[t].checks /\ row.retry = pending[t].retry
  BY <1>0, <1>1 DEF RowType
<1>3. pending' = [pending EXCEPT ![t] = row]
  BY <1>0 DEF SetStatus, IInv, Shape
<1> QED
  BY <1>2, <1>3

LEMMA RemoveStoreInOrder ==
    ASSUME IInv, Rest, HInv, faults = 0, NEW t \in Transfers, NEW k \in Retries,
           RemoveStore(t, k)
    PROVE  InOrder(t)' /\ Others(t)
<1>1. InOrder(t) /\ store[t] \in [Checks -> CheckValues]
  BY PartsOf
<1>2. /\ store' = [store EXCEPT ![t] = NoChecks] /\ UNCHANGED <<pending, queue, handler>>
      /\ tasks[t][k].pc = "remove" /\ Advance(t, k)
  BY DEF RemoveStore
<1>3. store'[t] = NoChecks /\ \A u \in Transfers : u # t => store'[u] = store[u]
  BY <1>2 DEF Rest
<1>4. pending[t].retry # 0
  BY <1>2, TaskIsCounted
<1>5. Latest(pending[t].checks, queue[t], NoChecks)
  BY <1>1 DEF InOrder, Latest, NoChecks
<1>6. NotCleared(pending[t].status, pending[t].retry, queue[t], NoChecks)
  BY <1>4 DEF NotCleared
<1>7. Retried(pending[t].retry, handler[t], NoChecks, tasks'[t])
  BY DEF Retried, AllReceived, NoChecks, Checks
<1>8. Announced(pending[t].status, queue[t], handler[t])
  BY <1>1 DEF InOrder
<1>9. \A u \in Transfers : u # t => tasks'[u] = tasks[u]
  BY <1>2 DEF Advance, IInv, Shape
<1> QED
  BY <1>2, <1>3, <1>5, <1>6, <1>7, <1>8, <1>9 DEF InOrder, Others

LEMMA RetryTaskInOrder ==
    ASSUME IInv, Rest, HInv, faults = 0, NEW t \in Transfers, NEW k \in Retries,
           RetryTask(t, k)
    PROVE  HInv'
<1>1. UNCHANGED listening
  BY DEF RetryTask, Wake, SetChecking, RetryCheck, RemoveStore, Cancelled, Finally
<1>2. InOrder(t)' /\ Others(t)
  <2>1. CASE Wake(t, k)
    <3>1. /\ UNCHANGED <<pending, queue, handler, store>>
          /\ tasks' = [tasks EXCEPT ![t][k].pc = "set_checking"] /\ "set_checking" \in InFlight
      BY <2>1 DEF Wake, InFlight
    <3>2. /\ Going(tasks[t]) => Going(tasks'[t])
          /\ \A u \in Transfers : u # t => tasks'[u] = tasks[u]
      BY <3>1, CounterKept
    <3>3. pending' = [pending EXCEPT ![t] = pending[t]]
      BY <3>1, SameRow
    <3> QED
      BY <3>1, <3>2, <3>3, TaskInOrder
  <2>2. CASE SetChecking(t, k)
    <3>1. /\ UNCHANGED <<queue, handler, store>> /\ SetStatus(t, "checking") /\ Advance(t, k)
          /\ tasks[t][k].pc \in InFlight \ {"remove"} /\ tasks[t][k].pc # "none"
      BY <2>2 DEF SetChecking, InFlight, Checks
    <3>2. /\ Going(tasks[t]) => Going(tasks'[t])
          /\ \A u \in Transfers : u # t => tasks'[u] = tasks[u]
      BY <3>1, AdvanceKeepsGoing
    <3>3. pending[t].retry # 0
      BY <3>1, TaskIsCounted
    <3>4. PICK row : /\ pending' = [pending EXCEPT ![t] = row] /\ row.status = "checking"
                     /\ row.checks = pending[t].checks /\ row.retry = pending[t].retry
      BY <3>1, NewStatus
    <3> QED
      BY <3>1, <3>2, <3>3, <3>4, TaskInOrder
  <2>3. CASE RetryCheck(t, k)
    BY <2>3, RetryCheckInOrder
  <2>4. CASE RemoveStore(t, k)
    BY <2>4, RemoveStoreInOrder
  <2>5. CASE Cancelled(t, k)
    <3>1. /\ UNCHANGED <<pending, queue, handler, store>> /\ ~Running(tasks[t][k])
          /\ tasks' = [tasks EXCEPT ![t][k].pc = "finally"]
      BY <2>5 DEF Cancelled, Running
    <3>2. /\ Going(tasks[t]) => Going(tasks'[t])
          /\ \A u \in Transfers : u # t => tasks'[u] = tasks[u]
      BY <3>1, CounterKept
    <3>3. pending' = [pending EXCEPT ![t] = pending[t]]
      BY <3>1, SameRow
    <3> QED
      BY <3>1, <3>2, <3>3, TaskInOrder
  <2>6. CASE Finally(t, k)
    <3>1. /\ UNCHANGED <<pending, queue, handler, store>> /\ ~Running(tasks[t][k])
      BY <2>6 DEF Finally, Running, InFlight, Checks
    <3>2. PICK new : tasks' = [tasks EXCEPT ![t][k] = new]
      BY <2>6 DEF Finally
    <3>3. /\ Going(tasks[t]) => Going(tasks'[t])
          /\ \A u \in Transfers : u # t => tasks'[u] = tasks[u]
      BY <3>1, <3>2, GoingKept
    <3>4. pending' = [pending EXCEPT ![t] = pending[t]]
      BY <3>1, SameRow
    <3> QED
      BY <3>1, <3>3, <3>4, TaskInOrder
  <2> QED
    BY <2>1, <2>2, <2>3, <2>4, <2>5, <2>6 DEF RetryTask
<1> QED
  BY <1>1, <1>2, OneTransfer

LEMMA CleanUpInOrder ==
    ASSUME IInv, Rest, HInv, faults = 0, NEW t \in Transfers, CleanUp(t)
    PROVE  InOrder(t)' /\ Others(t)
<1>1. /\ queue' = queue /\ handler' = handler /\ store' = store /\ tasks' = tasks
      /\ SetStatus(t, "rejected")
  BY DEF CleanUp
<1>2. PICK row : /\ pending' = [pending EXCEPT ![t] = row] /\ row.status = "rejected"
                 /\ row.checks = pending[t].checks /\ row.retry = pending[t].retry
  BY <1>1, NewStatus
<1>3. UNCHANGED <<queue, handler, store>>
  BY <1>1
<1>4. /\ (Going(tasks[t]) => Going(tasks'[t]))
      /\ \A u \in Transfers : u # t => tasks'[u] = tasks[u]
  BY <1>1
<1> QED
  BY <1>2, <1>3, <1>4, TaskInOrder

LEMMA RowIsInOrder ==
    ASSUME IInv, Rest, HInv, faults = 0, NEW t \in Transfers,
           Create(t) \/ Expire(t) \/ CleanUp(t)
    PROVE  HInv'
<1>1. UNCHANGED listening
  BY DEF Create, Expire, CleanUp
<1>2. InOrder(t)' /\ Others(t)
  <2>1. CASE Create(t)
    BY <2>1, CreateInOrder
  <2>2. CASE Expire(t)
    <3>0. PICK row : row = [pending[t] EXCEPT !.expired = TRUE]
      OBVIOUS
    <3>1. pending[t] \in RowType
      BY PartsOf
    <3>2. /\ row.checks = pending[t].checks /\ row.retry = pending[t].retry
          /\ row.status = pending[t].status
      BY <3>0, <3>1 DEF RowType
    <3>3. /\ pending' = [pending EXCEPT ![t] = row] /\ UNCHANGED <<queue, handler, store>>
          /\ (Going(tasks[t]) => Going(tasks'[t]))
          /\ \A u \in Transfers : u # t => tasks'[u] = tasks[u]
      BY <2>2, <3>0 DEF Expire, IInv, Shape
    <3> QED
      BY <3>2, <3>3, TaskInOrder
  <2>3. CASE CleanUp(t)
    BY <2>3, CleanUpInOrder
  <2> QED
    BY <2>1, <2>2, <2>3
<1> QED
  BY <1>1, <1>2, OneTransfer

LEMMA HStep ==
    ASSUME IInv, Rest, HInv, [Next]_vars
    PROVE  HInv'
<1>1. CASE UNCHANGED <<pending, queue, handler, store, tasks, listening, faults>>
  BY <1>1 DEF HInv, InOrder, Announced, Latest, NotCleared, Retried, Going, Running,
              AllReceived, AllPassed, Approved
<1>2. CASE UNCHANGED vars \/ OtherTraffic \/ Midnight
  BY <1>1, <1>2 DEF vars, poolVars, OtherTraffic, Midnight
<1>3. CASE \/ \E t \in Transfers : HandlerFails(t)
           \/ \E t \in Transfers, k \in Retries : RetryFails(t, k)
           \/ ListenerDrops \/ Restart
  BY <1>3, FaultTypes DEF HInv
<1>4. CASE \E t \in Transfers : \/ Create(t) \/ Handle(t) \/ Expire(t) \/ CleanUp(t)
                                \/ \E k \in Retries : RetryTask(t, k)
  <2>1. faults' = faults
    <3>1. ASSUME NEW t \in Transfers, Create(t) \/ Expire(t) \/ CleanUp(t)
          PROVE  faults' = faults
      BY <3>1 DEF Create, Expire, CleanUp
    <3>2. ASSUME NEW t \in Transfers, Handle(t) PROVE faults' = faults
      BY <3>2 DEF Handle, HandleResult, ScheduleRetry, RejectAtLimit, NotifyDenied, Execute,
                  SkipExecute, ExecuteRefused, SettleRefused
    <3>3. ASSUME NEW t \in Transfers, NEW k \in Retries, RetryTask(t, k)
          PROVE  faults' = faults
      BY <3>3 DEF RetryTask, Wake, SetChecking, RetryCheck, RemoveStore, Cancelled, Finally
    <3> QED
      BY <1>4, <3>1, <3>2, <3>3
  <2>2. CASE faults # 0
    BY <2>1, <2>2 DEF HInv
  <2>3. CASE faults = 0
    BY <1>4, <2>3, HandlerIsInOrder, RetryTaskInOrder, RowIsInOrder
  <2> QED
    BY <2>2, <2>3
<1> QED
  BY <1>2, <1>3, <1>4 DEF Next

LEMMA InitH == Init => HInv
<1> SUFFICES ASSUME Init, NEW t \in Transfers PROVE listening /\ InOrder(t)
  BY DEF HInv, Init
<1>1. /\ listening /\ queue[t] = <<>> /\ pending[t].status = "none" /\ store[t] = NoChecks
      /\ handler[t] = "idle"
  BY DEF Init
<1>2. DOMAIN queue[t] = {}
  BY <1>1
<1>3. Announced("none", queue[t], "idle") /\ NotCleared("none", pending[t].retry, queue[t], NoChecks)
  BY DEF Announced, NotCleared
<1>4. Latest(pending[t].checks, queue[t], NoChecks)
  BY <1>2 DEF Latest, NoChecks
<1>5. Retried(pending[t].retry, "idle", NoChecks, tasks[t])
  BY DEF Retried, AllReceived, NoChecks, Checks
<1> QED
  BY <1>1, <1>3, <1>4, <1>5 DEF InOrder

\* What is in order is handled.
LEMMA OrderIsHandled ==
    ASSUME IInv, Rest, HInv
    PROVE  ResultsAreHandled
<1> SUFFICES ASSUME faults = 0 PROVE ApprovedIsHandled /\ FailedIsRetried
  BY TypesTogether DEF ResultsAreHandled
<1>1. ApprovedIsHandled
  BY DEF HInv, InOrder, Announced, ApprovedIsHandled
<1>2. FailedIsRetried
  <2> SUFFICES ASSUME NEW t \in Transfers, pending[t].status = "checking",
                      NEW c \in Checks, pending[t].checks[c] = "fail",
                      pending[t].retry < MaxRetry, Quiet(t)
               PROVE  pending[t].retry > 0 /\ ~AllReceived(store[t])
    BY DEF FailedIsRetried
  <2>1. /\ pending[t] \in RowType /\ InOrder(t) /\ store[t] \in [Checks -> CheckValues]
    BY PartsOf
  <2>2. handler[t] = "idle" /\ DOMAIN queue[t] = {} /\ ~Going(tasks[t])
    <3>1. handler[t] = "idle" /\ queue[t] = <<>> /\ LiveTasks(t) = {}
      BY DEF Quiet
    <3>2. \A k \in Retries : tasks[t][k].pc \notin Alive
      BY <3>1 DEF LiveTasks
    <3>3. DOMAIN queue[t] = {}
      BY <3>1
    <3> QED
      BY <3>1, <3>2, <3>3 DEF Going, Running, Alive
  <2>3. ~AllReceived(store[t])
    <3> SUFFICES ASSUME AllReceived(store[t]) PROVE FALSE
      OBVIOUS
    <3>1. store[t][c] = "fail"
      <4>1. store[t][c] \in {"none", pending[t].checks[c]}
        BY <2>1, <2>2 DEF InOrder, Latest
      <4> QED
        BY <4>1 DEF AllReceived
    <3>2. ~AllPassed(store[t])
      BY <3>1 DEF AllPassed
    <3> QED
      BY <2>1, <2>2, <3>2 DEF InOrder, Retried
  <2>4. pending[t].retry # 0
    <3> SUFFICES ASSUME pending[t].retry = 0 PROVE FALSE
      OBVIOUS
    <3>1. AllReceived(store[t])
      BY <2>1, <2>2 DEF InOrder, NotCleared, AllReceived
    <3> QED
      BY <2>3, <3>1
  <2> QED
    BY <2>1, <2>3, <2>4 DEF RowType
<1> QED
  BY <1>1, <1>2

-----------------------------------------------------------------------------
(* The theorems *)

LEMMA InitIInv == Init => IInv
<1> SUFFICES ASSUME Init PROVE IInv
  OBVIOUS
<1>1. Shape
  BY BoundIsNatural DEF Init, Shape, RowType, TaskType, NoTask, NoChecks, Statuses,
         CheckValues
<1>2. RetriesCounted
  BY BoundIsNatural DEF Init, RetriesCounted
<1>3. CompletedMeansPaid
  BY DEF Init, CompletedMeansPaid
<1> QED
  BY <1>1, <1>2, <1>3 DEF IInv

LEMMA NextIInv == IInv /\ [Next]_vars => IInv'
<1> SUFFICES ASSUME IInv, [Next]_vars PROVE IInv'
  OBVIOUS
<1>1. CASE UNCHANGED vars
  BY <1>1 DEF vars, ledgerVars, poolVars, IInv, Shape, RetriesCounted,
              CompletedMeansPaid, Executions, NoTask, NoChecks
<1>2. CASE Next
  BY <1>2, RowStep, HandlerStep, RetryTaskStep, EnvironmentStep, RestartStep
  DEF Next
<1> QED
  BY <1>1, <1>2

\* IInv is an invariant of the pool.
THEOREM Invariance == Spec => []IInv
BY InitIInv, NextIInv, PTL DEF Spec

(***************************************************************************)
(* Whatever is cancelled, lost or restarted, there is no retry task that   *)
(* retry_count has not counted, and never more than MaxRetry of them.      *)
(***************************************************************************)
THEOREM Counted == Spec => []RetriesCounted
<1>1. IInv => RetriesCounted
  BY DEF IInv
<1> QED
  BY <1>1, Invariance, PTL

(***************************************************************************)
(* A transfer with status completed has an audit row: _execute_transfer    *)
(* writes both in one transaction, and nothing else writes completed.      *)
(***************************************************************************)
THEOREM Completed == Spec => []CompletedMeansPaid
<1>1. IInv => CompletedMeansPaid
  BY DEF IInv
<1> QED
  BY <1>1, Invariance, PTL

\* Payments, and what may still be paid, are within the rounds of checks.
THEOREM Backing == Spec => []BackedInv
BY Invariance, InitBacked, BackedStep, PTL DEF Spec

(***************************************************************************)
(* No transfer is paid more often than checks were run for it: once for    *)
(* those at creation and once for each attempt of each counted retry,      *)
(* whatever is delivered, cancelled, lost or restarted in between.         *)
(***************************************************************************)
THEOREM PaidPerRound == Spec => []PaidOncePerRound
<1>1. IInv /\ BackedInv => PaidOncePerRound
  <2> SUFFICES ASSUME IInv, BackedInv, NEW t \in Transfers
               PROVE  Cardinality(Executions(t)) <= 1 + pending[t].retry * MaxAttempts
    BY DEF PaidOncePerRound
  <2>1. /\ Cardinality(Executions(t)) + Cardinality(Unspent(t))
              <= 1 + pending[t].retry * MaxAttempts
        /\ IsFiniteSet(Executions(t)) /\ pending[t].retry \in Nat
    BY DEF BackedInv, Backed, IInv, Shape, RowType
  <2>2. Cardinality(Unspent(t)) \in Nat /\ Cardinality(Executions(t)) \in Nat
    BY <2>1, UnspentIsBudgeted, BudgetIsFinite, FS_CardinalityType
  <2> PICK n : n = pending[t].retry * MaxAttempts
    OBVIOUS
  <2>3. n \in Nat
    BY <2>1, BoundIsNatural
  <2> QED
    BY <2>1, <2>2, <2>3
<1> QED
  BY <1>1, Invariance, Backing, PTL

(***************************************************************************)
(* The types hold, and as long as nothing fails, an approval is waiting or *)
(* being settled, and a failed check with retries left is being retried,   *)
(* unless a later retry has cleared the check store between its results:   *)
(* handle_check_result and _retry_checks leave no other work undone.       *)
(***************************************************************************)
THEOREM Handled == Spec => []ResultsAreHandled
<1>1. Init => Rest /\ HInv
  BY InitRest, InitH
<1>2. IInv /\ BackedInv /\ (Rest /\ HInv) /\ [Next]_vars => (Rest /\ HInv)'
  BY RestStep, HStep
<1>3. IInv /\ (Rest /\ HInv) => ResultsAreHandled
  BY OrderIsHandled
<1> QED
  BY <1>1, <1>2, <1>3, Invariance, Backing, PTL DEF Spec

=============================================================================

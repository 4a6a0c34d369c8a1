---------------------------- MODULE TransferPool ----------------------------
(***************************************************************************)
(* The transfer event pool: pending_transfers rows and their check         *)
(* functions in PostgreSQL, the NOTIFY stream, and the coordinator task of *)
(* the bot (TransferEventPoolCoordinator) with its per-transfer lock,      *)
(* check store, retry tasks and clean-up task.                             *)
(*                                                                         *)
(* One step is one SQL statement (autocommit unless the code opens a       *)
(* transaction) together with the Python that runs when it returns.  The   *)
(* per-transfer asyncio.Lock is FIFO and asyncpg starts one task per       *)
(* notification in order, so the events of one transfer are a queue and a  *)
(* single handler; retry tasks do not take the lock and interleave freely. *)
(*                                                                         *)
(* The ledger underneath is EconomyLedger, whose atomic steps              *)
(* LedgerTransactions justifies.                                           *)
(***************************************************************************)
EXTENDS EconomyLedger, Sequences

CONSTANTS
    Transfers,  \* identities of the pending transfers
    Request,    \* Request[t]: the call of /transfer that creates t
    Traffic,    \* other ledger operations that may happen, each once
    TrafficRequest, \* TrafficRequest[b]: what the operation b does
    MaxRetry,   \* retries before a transfer is rejected (10 in the code)
    MaxAttempts,\* tenacity's stop_after_attempt (3 in the code)
    MaxFaults   \* bound: failures that a behaviour may contain

ASSUME RequestAssumption ==
    /\ Request \in [Transfers -> Requests]
    /\ \A t \in Transfers : Request[t].op = "transfer" /\ Valid(Request[t])
    /\ TrafficRequest \in [Traffic -> Requests]
ASSUME PoolBoundsAssumption ==
    MaxRetry \in Nat /\ MaxAttempts \in Nat \ {0} /\ MaxFaults \in Nat
\* Audit rows of the pool are named after the transfer they execute.
ASSUME PoolTxIdsAssumption ==
    /\ TxIds = (Transfers \cup Traffic) \X (1..(1 + MaxRetry * MaxAttempts))
    /\ Transfers \cap Traffic = {}

VARIABLES
    pending,   \* pending[t]: the row of economy.pending_transfers
    denied,    \* denied[t]: a transaction_denied notice has been sent for t
    queue,     \* queue[t]: notifications delivered and not yet handled
    handler,   \* handler[t]: where the holder of the lock of t stands
    store,     \* store[t]: TransferCheckStateStore
    tasks,     \* tasks[t][k]: the k-th retry task scheduled for t
    tracked,   \* tracked[t]: the task in _retry_tasks, 0 when there is none
    listening, \* the LISTEN connection is up
    faults     \* failures so far

poolVars == <<pending, denied, queue, handler, store, tasks, tracked,
              listening, faults>>
vars == <<ledgerVars, poolVars>>

Checks == {"balance", "cooldown", "daily_limit"}
Retries == 1..MaxRetry

\* The statements of _retry_checks, the check functions among them.
InFlight == {"set_checking", "remove"} \cup Checks
Alive == {"sleep", "finally", "failed", "backoff"} \cup InFlight

Following(pc) ==
    CASE pc = "set_checking" -> "balance"
      [] pc = "balance"      -> "cooldown"
      [] pc = "cooldown"     -> "daily_limit"
      [] pc = "daily_limit"  -> "remove"
      [] pc = "remove"       -> "finally"

NoChecks == [c \in Checks |-> "none"]
AllReceived(checks) == \A c \in Checks : checks[c] # "none"
AllPassed(checks) == \A c \in Checks : checks[c] = "pass"

NoTask == [pc |-> "none", cancelled |-> FALSE, attempt |-> 1]
NewTask == [NoTask EXCEPT !.pc = "sleep"]

-----------------------------------------------------------------------------
(* Check functions and notifications *)

Result(c, passes) == [check |-> c, value |-> IF passes THEN "pass" ELSE "fail"]
Approved == [check |-> "approved", value |-> "pass"]

\* throttled_until is NULL in every committed row (LedgerTransactions), so
\* the cooldown check passes.
Passes(t, c) ==
    CASE c = "balance"     -> balance[Request[t].by] >= Request[t].amount
      [] c = "cooldown"    -> TRUE
      [] c = "daily_limit" -> WithinLimit(log, Request[t], day)

Verdict(t, c) == IF Passes(t, c) THEN "pass" ELSE "fail"

\* Mutant of Approves: the status is not part of the UPDATE's condition.
ApprovesAnyStatus(row) == AllPassed(row.checks)

\* _check_and_approve_transfer: one UPDATE decides from the stored checks.
Approves(row) == row.status = "checking" /\ AllPassed(row.checks)

Approve(row) == IF Approves(row) THEN [row EXCEPT !.status = "approved"]
                                 ELSE row

\* Notifications reach the bot in commit order, or nobody.
Notify(t, msgs) ==
    queue' = IF listening THEN [queue EXCEPT ![t] = @ \o msgs] ELSE queue

\* Mutant of RunCheck: the approval is stored and not announced.
RunCheckSilently(t, c) ==
    LET checked == [pending[t] EXCEPT !.checks[c] = Verdict(t, c)]
    IN  /\ pending' = [pending EXCEPT ![t] = Approve(checked)]
        /\ Notify(t, <<Result(c, Passes(t, c))>>)

\* One of the three fn_check_transfer_... functions.
RunCheck(t, c) ==
    LET checked == [pending[t] EXCEPT !.checks[c] = Verdict(t, c)]
    IN  /\ pending' = [pending EXCEPT ![t] = Approve(checked)]
        /\ Notify(t, <<Result(c, Passes(t, c))>> \o
                     IF Approves(checked) THEN <<Approved>> ELSE <<>>)

SetStatus(t, s) == pending' = [pending EXCEPT ![t].status = s]

-----------------------------------------------------------------------------
(* Initial state and creation *)

Init ==
    /\ LedgerInit
    /\ pending = [t \in Transfers |-> [status |-> "none", checks |-> NoChecks,
                                       retry |-> 0, expired |-> FALSE]]
    /\ denied = [t \in Transfers |-> FALSE]
    /\ queue = [t \in Transfers |-> <<>>]
    /\ handler = [t \in Transfers |-> "idle"]
    /\ store = [t \in Transfers |-> NoChecks]
    /\ tasks = [t \in Transfers |-> [k \in Retries |-> NoTask]]
    /\ tracked = [t \in Transfers |-> 0]
    /\ listening = TRUE
    /\ faults = 0

\* fn_create_pending_transfer and the insert trigger, one transaction: the
\* row is checking with its three checks run by the time anyone sees it.
Create(t) ==
    LET row == [pending[t] EXCEPT
                   !.status = "checking",
                   !.checks = [c \in Checks |-> Verdict(t, c)]]
    IN  /\ pending[t].status = "none"
        /\ pending' = [pending EXCEPT ![t] = Approve(row)]
        /\ Notify(t, <<Result("balance", Passes(t, "balance")),
                       Result("cooldown", Passes(t, "cooldown")),
                       Result("daily_limit", Passes(t, "daily_limit"))>> \o
                     IF Approves(row) THEN <<Approved>> ELSE <<>>)
        /\ UNCHANGED <<ledgerVars, denied, handler, store, tasks, tracked,
                       listening, faults>>

-----------------------------------------------------------------------------
(* handle_check_result, handle_check_approved *)

Event(t) == Head(queue[t])
Consume(t) == queue' = [queue EXCEPT ![t] = Tail(@)]

Ready(t) == handler[t] = "idle" /\ queue[t] # <<>>

\* task.cancel(): a sleeping task ends without running _retry_checks; one
\* in a statement learns of it when the statement returns.
Cancel(t) ==
    LET k == tracked[t]
    IN  IF k = 0 \/ tasks[t][k].pc \notin Alive THEN UNCHANGED tasks
        ELSE IF tasks[t][k].pc = "sleep"
        THEN tasks' = [tasks EXCEPT ![t][k].pc = "done"]
        ELSE tasks' = [tasks EXCEPT ![t][k].cancelled = TRUE]

\* Record the result; if all three are there and one failed, _schedule_retry
\* starts: it cancels the tracked task and goes to the database.
HandleResult(t) ==
    LET m == Event(t)
        recorded == [store[t] EXCEPT ![m.check] = m.value]
        retry == AllReceived(recorded) /\ ~AllPassed(recorded)
    IN  /\ Ready(t) /\ m.check \in Checks
        /\ Consume(t)
        /\ store' = [store EXCEPT ![t] = recorded]
        /\ IF retry THEN Cancel(t) /\ handler' = [handler EXCEPT ![t] = "schedule"]
                    ELSE UNCHANGED <<tasks, handler>>
        /\ UNCHANGED <<ledgerVars, pending, denied, tracked, listening, faults>>

\* Mutant of ScheduleRetry: retry_count is not incremented.
ScheduleRetryUncounted(t) ==
    LET k == pending[t].retry + 1
    IN  /\ handler[t] = "schedule"
        /\ pending[t].retry < MaxRetry
        /\ tasks' = [tasks EXCEPT ![t][k] = NewTask]
        /\ tracked' = [tracked EXCEPT ![t] = k]
        /\ handler' = [handler EXCEPT ![t] = "idle"]
        /\ UNCHANGED <<ledgerVars, pending, denied, queue, store, listening,
                       faults>>

\* get_pending_transfer, UPDATE retry_count + 1, create_task.  Only the
\* holder of the lock of t writes retry_count, so these are one step.
ScheduleRetry(t) ==
    LET k == pending[t].retry + 1
    IN  /\ handler[t] = "schedule"
        /\ pending[t].retry < MaxRetry
        /\ pending' = [pending EXCEPT ![t].retry = k]
        /\ tasks' = [tasks EXCEPT ![t][k] = NewTask]
        /\ tracked' = [tracked EXCEPT ![t] = k]
        /\ handler' = [handler EXCEPT ![t] = "idle"]
        /\ UNCHANGED <<ledgerVars, denied, queue, store, listening, faults>>

\* The retries are used up: reject, whatever the status is by now ...
RejectAtLimit(t) ==
    /\ handler[t] = "schedule"
    /\ pending[t].retry >= MaxRetry
    /\ SetStatus(t, "rejected")
    /\ handler' = [handler EXCEPT ![t] = "notify"]
    /\ UNCHANGED <<ledgerVars, denied, queue, store, tasks, tracked, listening,
                   faults>>

\* ... then tell the initiator, in a statement of its own.
NotifyDenied(t) ==
    /\ handler[t] = "notify"
    /\ denied' = [denied EXCEPT ![t] = TRUE]
    /\ handler' = [handler EXCEPT ![t] = "idle"]
    /\ UNCHANGED <<ledgerVars, pending, queue, store, tasks, tracked, listening,
                   faults>>

\* The audit rows that executions of t wrote, and the id of the next one.
Executions(t) == {row \in log : row.id[1] = t}
ExecutionId(t) == <<t, 1 + Cardinality(Executions(t))>>

Affordable(t) ==
    /\ balance[Request[t].by] >= Request[t].amount
    /\ WithinLimit(log, Request[t], day)

\* _execute_transfer: SELECT ... status = 'approved' FOR UPDATE, transfer and
\* completed in one transaction.
Execute(t) ==
    /\ Ready(t) /\ Event(t) = Approved
    /\ pending[t].status = "approved"
    /\ TransferNow(ExecutionId(t), Request[t])
    /\ SetStatus(t, "completed")
    /\ Consume(t)
    /\ UNCHANGED <<denied, handler, store, tasks, tracked, listening, faults>>

\* No row in status approved: somebody else has dealt with it.
SkipExecute(t) ==
    /\ Ready(t) /\ Event(t) = Approved
    /\ pending[t].status # "approved"
    /\ Consume(t)
    /\ UNCHANGED <<ledgerVars, pending, denied, handler, store, tasks, tracked,
                   listening, faults>>

\* Mutant of ExecuteRefused: completed is set outside the transaction.
ExecuteRefusedCompleted(t) ==
    /\ Ready(t) /\ Event(t) = Approved
    /\ pending[t].status = "approved"
    /\ ~Affordable(t)
    /\ SetStatus(t, "completed")
    /\ Consume(t)
    /\ UNCHANGED <<ledgerVars, denied, handler, store, tasks, tracked,
                   listening, faults>>

\* fn_transfer_currency raises and the transaction is rolled back ...
ExecuteRefused(t) ==
    /\ Ready(t) /\ Event(t) = Approved
    /\ pending[t].status = "approved"
    /\ ~Affordable(t)
    /\ Consume(t)
    /\ handler' = [handler EXCEPT ![t] = "settle"]
    /\ UNCHANGED <<ledgerVars, pending, denied, store, tasks, tracked,
                   listening, faults>>

\* ... then, best effort and outside it, the row is marked rejected.
SettleRefused(t) ==
    /\ handler[t] = "settle"
    /\ SetStatus(t, "rejected")
    /\ handler' = [handler EXCEPT ![t] = "idle"]
    /\ UNCHANGED <<ledgerVars, denied, queue, store, tasks, tracked, listening,
                   faults>>

Handle(t) ==
    \/ HandleResult(t) \/ ScheduleRetry(t) \/ RejectAtLimit(t)
    \/ NotifyDenied(t) \/ Execute(t) \/ SkipExecute(t) \/ ExecuteRefused(t)
    \/ SettleRefused(t)

-----------------------------------------------------------------------------
(* Retry tasks: sleep, then _retry_checks *)

\* The statement of task k returns.  Cancellation, if any, is raised here,
\* after the statement has taken effect.
Advance(t, k) ==
    tasks' = [tasks EXCEPT ![t][k].pc =
                 IF tasks[t][k].cancelled THEN "finally" ELSE Following(@)]

\* The delay of min(2^retry_count, 300) s, or tenacity's wait, is over.
Wake(t, k) ==
    /\ tasks[t][k].pc \in {"sleep", "backoff"}
    /\ tasks' = [tasks EXCEPT ![t][k].pc = "set_checking"]
    /\ UNCHANGED <<ledgerVars, pending, denied, queue, handler, store, tracked,
                   listening, faults>>

\* update_status(checking), whatever the status was.
SetChecking(t, k) ==
    /\ tasks[t][k].pc = "set_checking"
    /\ SetStatus(t, "checking")
    /\ Advance(t, k)
    /\ UNCHANGED <<ledgerVars, denied, queue, handler, store, tracked,
                   listening, faults>>

RetryCheck(t, k) ==
    /\ tasks[t][k].pc \in Checks
    /\ RunCheck(t, tasks[t][k].pc)
    /\ Advance(t, k)
    /\ UNCHANGED <<ledgerVars, denied, handler, store, tracked, listening,
                   faults>>

\* The last statement has returned: forget the results recorded so far.
RemoveStore(t, k) ==
    /\ tasks[t][k].pc = "remove" /\ ~tasks[t][k].cancelled
    /\ store' = [store EXCEPT ![t] = NoChecks]
    /\ Advance(t, k)
    /\ UNCHANGED <<ledgerVars, pending, denied, queue, handler, tracked,
                   listening, faults>>

\* CancelledError reaches a task whose statement had no effect, or that had
\* none left to run.
Cancelled(t, k) ==
    /\ tasks[t][k].pc \in InFlight /\ tasks[t][k].cancelled
    /\ tasks' = [tasks EXCEPT ![t][k].pc = "finally"]
    /\ UNCHANGED <<ledgerVars, pending, denied, queue, handler, store, tracked,
                   listening, faults>>

\* finally: forget whichever task is tracked, this one or its successor.
Finally(t, k) ==
    LET task == tasks[t][k]
        again == /\ task.pc = "failed" /\ ~task.cancelled
                 /\ task.attempt < MaxAttempts
    IN  /\ task.pc \in {"finally", "failed"}
        /\ tracked' = [tracked EXCEPT ![t] = 0]
        /\ tasks' = [tasks EXCEPT ![t][k] =
              IF again THEN [task EXCEPT !.pc = "backoff",
                                         !.attempt = task.attempt + 1]
                       ELSE [task EXCEPT !.pc = "done", !.cancelled = FALSE]]
        /\ UNCHANGED <<ledgerVars, pending, denied, queue, handler, store,
                       listening, faults>>

RetryTask(t, k) ==
    \/ Wake(t, k) \/ SetChecking(t, k) \/ RetryCheck(t, k)
    \/ RemoveStore(t, k) \/ Cancelled(t, k) \/ Finally(t, k)

-----------------------------------------------------------------------------
(* Clean-up, environment and failures *)

LiveTasks(t) == {k \in Retries : tasks[t][k].pc \in Alive}

\* Nothing in memory works on t any more, or will.
Quiet(t) == handler[t] = "idle" /\ queue[t] = <<>> /\ LiveTasks(t) = {}

\* expires_at goes by: 24 hours after creation, long after the delays of all
\* retries together (at most 14 minutes) have.
Expire(t) ==
    /\ pending[t].status # "none" /\ ~pending[t].expired
    /\ Quiet(t)
    /\ pending' = [pending EXCEPT ![t].expired = TRUE]
    /\ UNCHANGED <<ledgerVars, denied, queue, handler, store, tasks, tracked,
                   listening, faults>>

\* Mutant of CleanUp: only rows in status pending, which is never visible.
CleanUpPending(t) ==
    /\ pending[t].expired /\ pending[t].status = "pending"
    /\ SetStatus(t, "rejected")
    /\ denied' = [denied EXCEPT ![t] = TRUE]
    /\ UNCHANGED <<ledgerVars, queue, handler, store, tasks, tracked, listening,
                   faults>>

\* _cleanup_expired: reject and notify in one transaction.
CleanUp(t) ==
    /\ pending[t].expired /\ pending[t].status = "checking"
    /\ SetStatus(t, "rejected")
    /\ denied' = [denied EXCEPT ![t] = TRUE]
    /\ UNCHANGED <<ledgerVars, queue, handler, store, tasks, tracked, listening,
                   faults>>

\* Other commands use the ledger.
OtherTraffic ==
    /\ \E b \in Traffic : \/ TransferNow(<<b, 1>>, TrafficRequest[b])
                          \/ AdjustNow(<<b, 1>>, TrafficRequest[b])
    /\ UNCHANGED poolVars

Midnight ==
    /\ NextDay
    /\ UNCHANGED poolVars

Fault == faults < MaxFaults /\ faults' = faults + 1

\* A statement of the handler fails, or no connection can be acquired: the
\* exception is logged and the event is gone.
HandlerFails(t) ==
    /\ Fault
    /\ \/ /\ handler[t] # "idle"
          /\ handler' = [handler EXCEPT ![t] = "idle"]
          /\ UNCHANGED queue
       \/ /\ Ready(t) /\ Event(t) = Approved
          /\ Consume(t)
          /\ \/ UNCHANGED handler \* no connection, or no update either
             \/ handler' = [handler EXCEPT ![t] = "settle"]
    /\ UNCHANGED <<ledgerVars, pending, denied, store, tasks, tracked,
                   listening>>

\* A statement of a retry task raises: PostgresError, which tenacity retries,
\* or an error of the connection, which it does not.
RetryFails(t, k) ==
    /\ Fault
    /\ tasks[t][k].pc \in InFlight \ {"remove"} /\ ~tasks[t][k].cancelled
    /\ \E pc \in {"failed", "finally"} :
          tasks' = [tasks EXCEPT ![t][k].pc = pc]
    /\ UNCHANGED <<ledgerVars, pending, denied, queue, handler, store, tracked,
                   listening>>

\* The LISTEN connection drops; _run keeps waiting for its stop event.
ListenerDrops ==
    /\ Fault /\ listening
    /\ listening' = FALSE
    /\ UNCHANGED <<ledgerVars, pending, denied, queue, handler, store, tasks,
                   tracked>>

\* The bot crashes and starts again: rows survive, everything else is lost,
\* and start() does not look at the rows.
Restart ==
    /\ Fault
    /\ queue' = [t \in Transfers |-> <<>>]
    /\ handler' = [t \in Transfers |-> "idle"]
    /\ store' = [t \in Transfers |-> NoChecks]
    /\ tasks' = [t \in Transfers |-> [k \in Retries |-> NoTask]]
    /\ tracked' = [t \in Transfers |-> 0]
    /\ listening' = TRUE
    /\ UNCHANGED <<ledgerVars, pending, denied>>

-----------------------------------------------------------------------------
Next ==
    \/ \E t \in Transfers :
          \/ Create(t) \/ Handle(t) \/ Expire(t) \/ CleanUp(t)
          \/ HandlerFails(t)
          \/ \E k \in Retries : RetryTask(t, k) \/ RetryFails(t, k)
    \/ OtherTraffic \/ Midnight \/ ListenerDrops \/ Restart

Spec == Init /\ [][Next]_vars

\* The event loop runs every task that can run, and time passes.  Failures,
\* commands and other traffic are not promised.
FairSpec ==
    /\ Spec
    /\ \A t \in Transfers :
          /\ WF_vars(Handle(t)) /\ WF_vars(Expire(t)) /\ WF_vars(CleanUp(t))
          /\ \A k \in Retries : WF_vars(RetryTask(t, k))

-----------------------------------------------------------------------------
(* Properties *)

Statuses == {"none", "checking", "approved", "completed", "rejected"}
CheckValues == {"none", "pass", "fail"}

TypeOK ==
    /\ LedgerTypeOK
    /\ pending \in [Transfers -> [status: Statuses,
                                  checks: [Checks -> CheckValues],
                                  retry: 0..MaxRetry, expired: BOOLEAN]]
    /\ denied \in [Transfers -> BOOLEAN]
    /\ queue \in [Transfers -> Seq([check: Checks \cup {"approved"},
                                    value: {"pass", "fail"}])]
    /\ handler \in [Transfers -> {"idle", "schedule", "notify", "settle"}]
    /\ store \in [Transfers -> [Checks -> CheckValues]]
    /\ tasks \in [Transfers -> [Retries ->
                     [pc: {"none", "done"} \cup Alive, cancelled: BOOLEAN,
                      attempt: 1..MaxAttempts]]]
    /\ tracked \in [Transfers -> 0..MaxRetry]
    /\ listening \in BOOLEAN
    /\ faults \in 0..MaxFaults

(***************************************************************************)
(* The retry counter bounds the work: it never exceeds MaxRetry, and no    *)
(* retry task exists, or is tracked, that it has not counted, although     *)
(* events, cancellations and restarts come in any order.                   *)
(***************************************************************************)
RetriesCounted ==
    \A t \in Transfers :
        /\ pending[t].retry <= MaxRetry
        /\ tracked[t] <= pending[t].retry
        /\ \A k \in Retries :
              k > pending[t].retry => tasks[t][k] = NoTask

(***************************************************************************)
(* Whoever reads status completed can rely on the money having moved: the  *)
(* transfer and the status change are one transaction, and no later step   *)
(* of a handler or a retry puts completed on an unpaid transfer.           *)
(***************************************************************************)
CompletedMeansPaid ==
    \A t \in Transfers :
        pending[t].status = "completed" => Executions(t) # {}

(***************************************************************************)
(* Every payment is backed by a round of checks of its own, the one at     *)
(* creation or one that a retry task ran: neither duplicated approvals,    *)
(* nor failures, nor restarts make one round pay twice.                    *)
(***************************************************************************)
PaidOncePerRound ==
    \A t \in Transfers :
        Cardinality(Executions(t)) <= 1 + pending[t].retry * MaxAttempts

(***************************************************************************)
(* Without failures, no approval is forgotten: as long as a transfer is    *)
(* approved, its approval is waiting for the handler or being settled,     *)
(* however approvals, resets to checking and refusals interleave.          *)
(***************************************************************************)
ApprovedIsHandled ==
    \A t \in Transfers :
        pending[t].status = "approved" =>
            \/ handler[t] = "settle"
            \/ \E i \in DOMAIN queue[t] : queue[t][i] = Approved

(***************************************************************************)
(* Without failures, a transfer that failed a check and has retries left   *)
(* is being retried: an event of it is waiting, or a retry is scheduled or *)
(* alive.  There is one exception, which the README's promise of ten       *)
(* automatic retries does not know: a retry that clears the check store    *)
(* between two results of its own round leaves results that never make a   *)
(* full set, and the transfer waits until it expires.  The first failure,  *)
(* and every one whose results are all recorded, is retried.               *)
(***************************************************************************)
FailedIsRetried ==
    \A t \in Transfers :
        (/\ pending[t].status = "checking"
         /\ \E c \in Checks : pending[t].checks[c] = "fail"
         /\ pending[t].retry < MaxRetry
         /\ Quiet(t)) => pending[t].retry > 0 /\ ~AllReceived(store[t])

\* Types, and what an approval and a failed check leave to be done is being
\* done, with events, retries and resets in any order.
ResultsAreHandled ==
    TypeOK /\ (faults = 0 => ApprovedIsHandled /\ FailedIsRetried)

Settled(t) == pending[t].status \in {"completed", "rejected"}

(***************************************************************************)
(* Every transfer ends, completed or rejected, and stays ended: the        *)
(* retries run out, and what they leave behind expires and is cleaned up.  *)
(***************************************************************************)
EveryTransferSettles ==
    \A t \in Transfers : pending[t].status # "none" ~> []Settled(t)

-----------------------------------------------------------------------------
(* What comments, messages and documents promise and the code does not keep *)

(***************************************************************************)
(* A transfer is paid at most once ("to avoid a duplicate transfer",       *)
(* handle_check_result and _execute_transfer).                             *)
(***************************************************************************)
PaidAtMostOnce == \A t \in Transfers : Cardinality(Executions(t)) <= 1

=============================================================================

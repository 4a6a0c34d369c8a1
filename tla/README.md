# DRoASMS: a verification development

DRoASMS is a Discord bot that runs an economy and a government for a guild:
members pay each other, administrators grant and deduct, a council votes on
payments, an assembly votes and summons, a state council issues currency, pays
welfare, arrests, licenses and runs departments. The state that matters lives in
PostgreSQL, in the roles of the Discord server, and in the memory of one asyncio
process whose callbacks act on both. This directory holds TLA+ modules
translated from that code, TLC configurations that check them, and TLAPS proofs.

Paths below are relative to the repository's root; `PROJECT.json` maps every
definition to the lines it stands for.

1. [Inventory](#1-inventory)
2. [Plan](#2-plan)
3. [Modules](#3-modules)
4. [Runs](#4-runs)
5. [Fairness](#5-fairness)
6. [Proofs](#6-proofs)
7. [What the code does not keep](#7-what-the-code-does-not-keep)
8. [Abstractions, and what is not modelled](#8-abstractions-and-what-is-not-modelled)
9. [Running it](#9-running-it)

## 1. Inventory

| Component | State | Operations | Module |
|---|---|---|---|
| Economy ledger (`src/db/functions/fn_transfer_currency.sql`, `fn_adjust_balance.sql`, `src/bot/services/{transfer,adjustment,balance}_service.py`) | balances, audit rows, `throttled_until` | transfer, adjust, queries, archival | `EconomyLedger`, `LedgerTransactions` |
| Transfer event pool (`src/bot/services/transfer_event_pool.py`, `fn_create_pending_transfer.sql`, `fn_check_*.sql`) | rows of `pending_transfers`; in memory a lock, a check store and a retry task per transfer | create, three checks, approve, execute, retry, expire, clean up | `TransferPool` |
| Telemetry listener (`src/infra/telemetry/listener.py`) | the LISTEN connection, recently seen notices | dispatch to the pool, to messages, to panels | part of `TransferPool` and `Panels` |
| Council (`council_service.py`, `fn_council.sql`) | proposals, snapshot of voters, votes, status | create, vote, cancel, expire, execute | `Council` |
| Supreme assembly (`supreme_assembly_service.py`) | proposals, final votes, summonses, role settings | create, vote, cancel, expire, summon, configure | `SupremeAssembly` |
| State council treasury (`state_council_service.py`) | a department's balance twice: the ledger's and `governance.government_accounts`; issuances, welfare and transfer records | transfers between departments, to members, welfare, tax, issue, automatic deduction, account upkeep | `Treasury` |
| Justice and scheduler (`state_council_service.py`, `state_council_scheduler.py`) | Discord roles, `governance.suspects`, auto-release jobs in memory | arrest, charge, revoke, release, schedule | `Justice` |
| Applications and licences (`application_service.py`, `fn_business_license.sql`) | applications, licences | submit, approve, reject, issue, revoke, expire | `Applications` |
| Companies (`company_service.py`, `src/bot/commands/company.py`) | companies, accounts, the attributes of an open panel | create, select, pay | `Companies` |
| Voting messages (`src/bot/commands/council.py`, `supreme_assembly.py`) | views registered for buttons, the scheduler's round | invite, vote, remind, announce | `VotingDesk` |
| Panels that redraw themselves (`state_council.py`, `council.py`, `supreme_assembly.py`) | a view's attributes, a lock, a subscription, the message | open, navigate, live update, forms | `Panels` |
| Suspects' panels (`state_council.py`) | page, list, selection, menu, message | select, page, search, order | `SuspectPanels` |
| Panels of interior affairs (`state_council.py`) | lists, filter, page, message | approve, reject, filter, page | `InteriorDesk` |
| Personal panel (`personal_panel.py`, `src/bot/ui/personal_panel_paginator.py`) | tab, pages, snapshots of balance and lists, message | tabs, refresh, pay, apply | `PersonalPanel` |
| Database pool (`src/db/pool.py`) | at most N connections | acquire, release | part of `Treasury`, `Applications` |
| Bot life cycle (`src/bot/main.py`) | which tasks run | start, stop, crash | the `Restart` actions |
| Permissions, configuration, department registry, other commands, infrastructure, migrations | settings, schema | look-ups | not modelled (section 8) |

How they interact. Everything that pays calls the ledger: in the transaction of
the caller (council, welfare, payments to members), on a second connection of
the pool (tax, transfers between departments, the welfare payment behind an
approval), or through the event pool. The ledger announces each row by NOTIFY;
the listener turns notices into events, to which panels subscribe. Services
announce proposals and votes to the panels themselves. Three schedulers sweep
what is due: the council's, the assembly's and the state council's.

### What is hard, and what makes each part correct

**Ledger.** Any number of calls run as READ COMMITTED transactions. Checks
read before they write, so correctness rests on `SELECT ... FOR UPDATE`; locks
are taken in the order payer, payee, and the foreign key of the audit row
takes one more, so calls deadlock. Correct means: the concurrent transactions
act like atomic transfers and adjustments; nobody is overdrawn; the daily limit
holds although it is summed before the row is written and midnight may pass,
but for transactions that straddle it; audit rows and balances agree whatever
aborts; every call ends.

**Event pool.** Events of one transfer are handled one at a time under an
asyncio lock, but retry tasks, check functions run by the database and the
clean-up do not take that lock. Rows survive a crash, tasks do not. Correct
means: `completed` means paid; payments are bounded by rounds of checks; an
approval is acted on; a failed check is retried a bounded number of times;
every transfer ends.

**Council and assembly.** The status of a proposal is read before the
transaction that counts votes, the tally does not lock, and the expiry loop
works on a list it read earlier. Correct means: a decision is the one that
committed votes say; money moves with a majority only; every proposal ends.

**Treasury.** Department balances are kept twice and synchronised by
overwriting one with the other; some payments commit on another connection
than the call that records them. Correct means: no operation mints but
issuance, records match payments, the two balances agree where they can, calls
come back although they nest connections.

**Justice.** Roles, records and jobs are in three places that no transaction
spans. Correct means: they agree for everybody with whom nothing went wrong,
the charged are kept and the scheduled get free.

**Applications.** Check-then-act in statements that commit one by one. Correct
means: every payment and licence has its approval, a decision is final, one
active licence per member and type.

**Panels, desks and forms.** Handlers are coroutines over one object that they
read again after every await, while other clicks and live updates run; Discord
may refuse any message. Correct means: what is shown when nothing is at work
is what there is; what is paid, ordered or voted is what its author saw and
chose; and who is told of a result is told the truth.

The file and line of every such place is in `PROJECT.json` under `hazards`,
with the properties that cover it.

## 2. Plan

Done, in this order: the ledger and its refinement, the pool, the council; the
treasury; justice; applications; the assembly; companies; the panels with their
forms; the suspects' panels, the voting messages, the personal panel and the
panels of interior affairs. Proofs: of every safety property of the ledger, the
pool, the council, the treasury, justice, applications, the assembly, the
panels and the desks (section 6), but one that is false (section 7).

What composes what: `TransferPool` and `Council` conjoin their steps with those
of `EconomyLedger`, which `LedgerTransactions` is shown to implement. `Panels`
composes a panel with a form whose outcome is news to it, for each of three
panels. `SuspectPanels`, `VotingDesk`, `PersonalPanel` and `InteriorDesk` take a
service call as one step, whose details are in `Justice`, `Council` and
`SupremeAssembly`, `LedgerTransactions` and `Applications`. `MCDesks` runs five
desks that share nothing, one per behaviour.

To come, most worthwhile first:

1. An abstract `Ballot` (open, then decided once by its votes), and the
   conditions under which `Council` and `SupremeAssembly` implement it.
2. De-duplication of notices in the telemetry listener; execution of a proposal
   through the event pool.

## 3. Modules

### EconomyLedger

State: `balance` (`guild_member_balances.current_balance`), `log`
(`currency_transactions`), `day` (the UTC day). `Transfer(x, r, b, d)` and
`Adjust(x, r, b, d)` are a successful call of `fn_transfer_currency` and
`fn_adjust_balance` with arguments `r`. The code has two clocks: the audit row's
`created_at` is a column default, `now()`, which is when the transaction began
(day `b`); the limit is checked by `v_now`, `clock_timestamp()` at the call (day
`d`, kept in the row as history, `checked`). A refused call changes nothing, and
is a stuttering step here. `WithinLimit` is the daily-limit branch with the
exemption of government accounts and the limit 0. `TransferNow` and `AdjustNow`,
which other modules conjoin, are called today and may have begun yesterday.

### LedgerTransactions

One call per transaction identity `x`, one step per SQL statement:

| Step | Code |
|---|---|
| `Begin` | BEGIN of the service's or its caller's transaction: `now()`, which dates the audit row |
| `Call`, `Refuse` | `v_now`, argument checks |
| `EnsureBy`, `EnsureTo` | `INSERT ... ON CONFLICT DO NOTHING` of the two balance rows: a new row is locked by who inserted it, and who inserts the same key waits |
| `LockRow` | `SELECT current_balance ... FOR UPDATE`; a grant has none |
| `CheckTransfer`, `RecordThrottle`, `RaiseLimit`, `DenyDeduct`, `AllowDeduct` | cooldown, daily limit, balance, in the order of the code, and the RAISE of each |
| `Debit`, `UpdateTarget` | the two UPDATEs, relative to the newest committed value |
| `Commit` | the audit row, its foreign keys, and COMMIT |
| `Deadlock`, `Disconnect` | the detector picks a victim; the bot or its connection dies: both roll back |

Uncommitted balances are in `txn[x].write`, so rollback is losing them. `lock`
holds the transaction that locked or inserted a row. `Blocks` says which lock
a statement waits for. In particular the foreign key on the initiator takes
FOR KEY SHARE on the administrator's row at the end of an adjustment, which
waits for a transfer that has locked this row FOR UPDATE, and so closes a
cycle that the UPDATEs alone would not.

The CHECK constraint `current_balance >= 0` is deliberately left out: the
functions have to be right without it.

### TransferPool

EXTENDS `EconomyLedger`, whose steps it conjoins with its own. One step is one
SQL statement and the Python that runs when it returns.

| State | Code |
|---|---|
| `pending[t]` | the row: status, checks, retry_count, expired |
| `queue[t]`, `handler[t]` | notifications delivered to tasks that wait for `_locks[t]` (asyncio locks are FIFO, so a queue), and where the holder stands |
| `store[t]` | `TransferCheckStateStore` |
| `tasks[t][k]`, `tracked[t]` | the retry task made by the k-th `create_task`, and the one in `_retry_tasks` |
| `denied[t]` | a `transaction_denied` notice was sent |
| `listening`, `faults` | the LISTEN connection is up; failures so far |

`Create` is `fn_create_pending_transfer` with its trigger, one transaction.
`HandleResult`, `ScheduleRetry`, `RejectAtLimit` and `NotifyDenied` are
`handle_check_result` and `_schedule_retry`; `Execute`, `SkipExecute`,
`ExecuteRefused` and `SettleRefused` are `handle_check_approved` and
`_execute_transfer`. A retry task goes through `Wake`, `SetChecking`, three
`RetryCheck`, `RemoveStore`, `Finally`; cancellation reaches it at its next
suspension point, after the statement in flight took effect or not
(`Cancelled`), and an ending task forgets whichever task is tracked.
`HandlerFails`, `RetryFails`, `ListenerDrops` and `Restart` are the failures;
`OtherTraffic` and `Midnight` are the rest of the world.

`FailedIsRetried`, a part of `ResultsAreHandled`, says of a failed check with
retries left that its retry is under way, and excepts one state: there was a
retry before, and the check store lacks results. Section 7 has the way there.

### Council

EXTENDS `EconomyLedger`. State: `status[p]`, the votes that are committed,
whether the deadline has gone by, and where each activity stands: a call of
`vote` (`call`), a creation or cancellation between its COUNT and its INSERT or
UPDATE (`clerk`), the scheduler's `expire_due_proposals` (`sweep`).

| Step | Code |
|---|---|
| `ReadProposal` | `vote` reads status and snapshot, before its transaction |
| `UpsertVote`, `CountBallots` | the vote is stored, uncommitted, and its key locked; the tally sees the votes committed by then and this one |
| `Decide` | `fn_mark_status`, execution and COMMIT; one step, since the transaction holds the proposal's row from its first UPDATE on and nothing that reads without locks sees it before |
| `CountActive`, `InsertProposal` | `fn_create_proposal` |
| `CountVotes`, `CancelProposal` | `fn_attempt_cancel_proposal` |
| `ListDue`, `ExpireTally`, `ExpireMark`, `ExpireExecute`, `ExpireRecord` | `expire_due_proposals`: each statement commits by itself |
| `Deadline`, `OtherTransfer` | time passes; other commands use the account |
| `CallFails`, `SweepFails`, `Restart` | a lost connection rolls a vote back, or ends a sweep; a crash does both |

### SupremeAssembly

The same voting with three differences: a vote is final (`UpsertVote` refuses a
second), passing pays nothing, and there are summonses and role settings. A
behaviour is about proposals, summonses or settings (`agenda`), which share no
table. A call stands at `at[c]`: `count`, `countAgain`, `insert` (creation,
counted by the service and by the gateway); `read`, `vote`, `tally`, `mark`,
`commit`, `announce` (a vote: read before its transaction, marked
unconditionally); `countVotes`, `cancel`; `summon`, `send`, `record`,
`deliver` (members are summoned before or after the record is written,
according to the kind); `readConfig`, `writeConfig`, `account` (a role command
reads both roles and writes both). `Fail` and `Restart` cut calls off.

### Treasury

`ledger[a]` and `gov[d]` are the two balances; `recorded` and `moved` sum what
the service's tables and the ledger say of welfare, tax, transfers and
issuances. `draft[p]` holds what the transaction of call `p` wrote and which
rows it locked; `Held` its connections. A call is planned (`Plan`, with the
balances that it reads), then goes through its statements, as its operation
(`disburse_welfare`, `collect_tax`, ...) lists them:

| Step | Code |
|---|---|
| `Acquire`, `Read` | a connection of the pool; the governance balances |
| `Econ`, `EconTo`, `Grant` | the ledger's balances of both departments, and a grant for what the payer is short of there |
| `Pay`, `RefuseWelfare`, `RefuseToUser`, `AssumePaid`, `SkipDepartment` | the payment in the caller's transaction, and what each operation makes of a refusal |
| `Borrow`, `PayOut` | the payment on a second connection, which commits by itself |
| `Sum`, `Permit`, `Mint` | an issuance: the month's sum, the permission check on a connection of its own, the payment |
| `GovFrom`, `GovTo`, `Snapshot`, `Align` | the cached balances, relative or overwritten |
| `Commit`, `Rollback`, `Victim`, `Fail` | the end of the transaction; a deadlock's victim; a lost connection |

`Rollback` and `Fail` undo a draft,
not what a second connection has committed. `Moved` and `Booked` are the two
shapes of a payment: of committed balances, and of a draft's. The deduction plan
is the sorted sequence of those who have to pay, which the code gets by sorting.
The constants have each department once in `DepartmentOrder`, and direct
transfers that are positive, as the ledger's argument check has it.

### Justice

A call of an officer or of the scheduler works through `todo[p]` member by
member, cut at its awaits: `seize`, `strip`, `find`, `book` for an arrest;
`check`, `remove`, `add`, `look`, `mark` for a release. `suspect` and
`citizen` are roles as the server has them, `rows[m]` the records of a member,
`jobs[m]` the job in memory, `detached` whether the batch's dictionary has been
thrown away. `uuidKeys` chooses between the two column types that the
migrations and the code assume: with the uuid of migration 042 no UPDATE by
`suspect_id` finds its row. `settings` are the roles whose ids are set; the two
commands set one each, by a read (`FetchConfig`) and a write of both
(`UpdateRoleConfig`), and `set_config` erases both. A release without the suspect
role is refused, but one without the citizen role goes on: `seen[p].bare` is what
it found when it began, and `roleless` are those whom this has left with neither
role. `clean` are members with whom nothing went wrong: no call failed, no batch
was dropped for want of the suspect role, no two calls crossed on them. Two calls
cross also when one comes, in its list, to a member on whom another is at work
(`SpoiltBy`).

### Applications

Both tables of applications are one sequence `apps`. A welfare approval is
`acquire`, `read`, `update`, `borrow`, `pay`, `commit`: the payment commits on
its own connection before the approval does. A licence approval is `read`,
`check`, `issue`, `approve`, four commits. `fn_issue_business_license` has the
count and the unique index of migration 046; `TermEnds` and
`fn_expire_business_licenses` separate the end of a term from the job that
notices it. `paid`, `lost` and `crossed` are histories.

### Companies

`panel[v]` are the attributes of a `CompanyPanelView`, read again by `Current`
after each await of a submission, while `select_company`, `_on_back` and the
rest change them. A payment goes through `validate`, `turn`, `check`, `pay`,
`report`; a creation through `nextId`, `insert`, `finish`: the account takes
one number of the sequence and the row the next. `LicenseEnds` ends a licence
under either. The instance begins with companies that exist already
(`Founded`), whose numbers are among those given so far (`LastId`).

### Panels

One panel at a time: the state council's, the council's or the assembly's, with
one of its forms. A refresh (`drawing[r]`: the first drawing, a live update, or
a page change) waits for permissions, lays the menu, reads the facts and edits
the message; `Bind` subscribes after the first drawing; `Publish` and `Hear`
deliver a notice, `LiveUpdate` takes it under the lock, page changes do not.
Each of its queries may fail: a check of permissions denies (`PermitFails`), a
summary says that it cannot be loaded (`SummaryFails`), a list of proposals is
drawn as an empty one (`ListFails`); the last two are `Unread`.
Forms are `fields`, what Discord shows of them (`seen`), and callbacks that
answer, edit, look up, call the service and tell:

| Step | Code |
|---|---|
| `Paid` | the service pays, and notice is given; between departments on a connection of the ledger's own, so that a record is still to come |
| `PaidInPart`, `TellPart` | `transfer_from_state_council_auto_deduct` keeps what some departments paid, and returns a failure that says how much |
| `Refused` | nobody was paid, and the user is told |
| `RefusedUnsaid` | a payment of a department's that the service swallows: all refusals between departments, all but want of funds otherwise |
| `RecordCommits`, `RecordFails` | balances and record of a transfer between departments: committed after the notice, or rolled back with the payment made |
| `Tell`, `TellNamed`, `TellRefused`, `TellNobody` | the message of success, or its refusal |

A receipt is what a submission that has just ended saw, sent, paid and told.
`excuse`, `muddled` and the receipt's `alone` and `mishap` say when the panel or
form may differ, so that the properties say precisely when it may not.

### SuspectPanels, VotingDesk, PersonalPanel, InteriorDesk

Each has the attributes of its view, the message as Discord shows it, where
each callback stands between awaits, histories that the properties speak of,
and a set of excuses (`excuse`, `gaps`, `cause`, `behind`).

- `SuspectPanels`: homeland's panel holds everybody and turns pages by itself,
  justice's asks for a page. `_sanitize_state` keeps page and selection within
  the list. An order takes whom `_selected_ids` has when its form is sent, which
  may be after the panel was closed: a modal outlives its view. `live` is whether
  the buttons are enabled: closing disables them, and a reload that ends later
  lays enabled ones again (`Apply`), which no longer reach a view that has stopped.
- `VotingDesk`: which view a button reaches (`Target`): its own if this process
  sent the message, otherwise the one registered last; `registered` is what was
  open when this process began. The scheduler's round lists what is due, expires
  what is due by then, reminds, marks, reads what has ended (`Broadcast`) and,
  after the queries of `_broadcast_result`, tells it (`BroadcastResult`), as a vote
  tells what it has made of a proposal (`Reply`, `TellVote`).
- `PersonalPanel`: `Embed` and `_update_view_items` are what a tab draws;
  `_on_refresh` takes its tab at the start and its controls at the end. `Load`
  asks for the newest applications of each kind (`LoadLimit`), of which the
  history shows the newest (`HistoryShown`). A form
  of payment resolves the payee's account, pays or files a pending transfer, and
  tells.
- `InteriorDesk`: `Sheet` and `Book` are the two messages. A decision, its
  message, two loads and an edit are steps of a callback; a fifth application
  has no row for its buttons.

### MC modules and proofs

`MC...` modules give the constants values; `..._proofs` hold the theorems of
the module that they are named after, and `SupremeAssembly_proofs` those of
`Panels` too. Those of `MCDesks_proofs` are about
`MCSpec`, the five desks together, for any values of the constants: each desk's
steps leave the other four alone, so each lemma is about one desk.
`MCDesks` extends `Companies`, instantiates the other four desks, and chooses
in `MCInit` which of the five moves; its properties are those of the desks,
each under the desk that it is about.
A definition whose comment begins "Mutant of" is an alternative to another
one, which a plausible slip could have produced; each makes a property fail,
so the property is known to depend on the code.

Several properties are conjunctions of named parts (`BooksAreSound`,
`StateIsCoherent`, `ApprovalsAreHonoured`, `DecisionsAreSound`,
`ResultsAreHandled`, `CompaniesAreSound`, `AuditTrailIsSound`, `PanelIsTrue`,
`FormIsHonest`): the parts have comments of their own beside them, the type
invariant of the module is one of them.

## 4. Runs

| Run | Instance | Shows | Distinct states |
|---|---|---|---|
| `ledger` | 3 calls drawn from 6 requests on 3 accounts, one a department, one without a row; limit 3; 2 days; calls symmetric | locks keep what was checked true (`LockingInv`, `ReadsStayTrue`, `LimitCheckStaysTrue`), nobody is overdrawn, audit rows explain balances and respect the limit, and the transactions implement `EconomyLedger` | 259 350 |
| `ledger_live` | 3 calls drawn from opposite transfers and an adjustment by a payer | every call ends, through every shape of deadlock | 24 934 |
| `pool_calm` | 1 transfer of 1 by a payer who has 0, a grant of 3 and a deduction of 3 at any time, 3 retries, no failures | retries are counted, `completed` means paid, results of checks are acted on, and the transfer settles | 321 775 |
| `pool_faults` | 1 transfer of 1 by a payer who has 0, a grant of 5 and another payment of 4 at any time, limit 4, midnight, 2 retries, 2 attempts, 1 failure | one payment at most per round of checks | 748 740 |
| `pool_paid_twice` | as `pool_calm`, without the deduction | a violation: see section 7 | |
| `council` | 1 proposal, 3 councillors, 3 calls (x approves or rejects; y approves or abstains; z approves, x votes again, or an outsider), an account of 2 that others use too, 1 failure | payments have majorities, the status says what was paid, and every proposal is decided | 232 293 |
| `treasury` | interior and the central bank, 1 member, 2 callers, 3 connections, every operation, issuance limit 1, 2 calls, 1 direct operation on the ledger, 1 failure | the books (`BooksAreSound`); both balances agree where they can; calls return | 65 859 |
| `justice` | 2 members, 2 officers and the scheduler, 4 orders (at most 2 arrests, 2 schedules, 2 charges, 1 release, 2 commands about settings), 1 failure or restart | roles, records and jobs agree whatever half of the settings is there; the charged are kept; the scheduled get free | 419 760 |
| `applications` | 1 member, 1 licence type, amount 2 of 4, 2 callers, 3 connections, 3 applications, 3 reviews, 1 failure | payments and licences match approvals; decisions are final; calls return | 273 327 |
| `assembly` | 2 members, 2 proposals with a limit of 1, 4 summonses, 2 callers, 4 calls, 1 failure or restart | decisions have their votes; summonses are true; settings are kept; proposals close | 337 585 |
| `desks` | five desks, one per behaviour: see below | owners' companies pay; orders take the chosen; votes count where they were cast; results are told; payments reach whom the form named; applications are decided as ordered; screens show what was read | 1 599 989 |
| `panels` | one of three panels with one form, 1 department, 2 payees, 2 callbacks of the form, 1 page change, 4 acts of users, 1 failed query, refused edit or lost notice | a panel at rest shows what there is, a form sends what its author saw and tells what happened, news reaches the screen | 902 659 |

Bounds and why they are enough:

- Three calls on the ledger: a deadlock cycle needs two, a third makes chains
  of waits and a victim with a bystander; the limit needs two transfers already
  committed or in flight and a third that exceeds it. The proofs lift this bound.
- `MaxDay = 1`: one midnight at any point; two calls of the same payer on both
  sides of it.
- `MaxRetry = 3` instead of 10: the races of the pool need a first task that
  has lost its tracking, a second, and the counter at its limit, that is two
  retries and one more. `MaxAttempts` is tenacity's 3; with 2 a task fails and
  is run once more.
- One failure in each run, at any point: what the code does about a failure is
  over before the next one.
- One transfer: transfers share only the ledger, and what another transfer
  does to it is what `OtherTraffic` does.
- One proposal of the council, three calls: proposals share only the ledger (see
  `OtherTransfer`) and the limit of active ones, for which see the assembly.
  Two votes decide, a third comes late, changes a vote or makes early
  rejection possible; the account covers two payments and not three, so that
  execution succeeds, succeeds twice and is refused.
- Two proposals of the assembly with a limit of one: the limit is reached, and
  two creations race past it. Two members are a majority and a half.
- The treasury and the applications have two callers at a time, whose
  statements interleave freely; the pool has one connection more than callers,
  for with as many as callers two nested acquisitions wait for each other for
  ever (section 7). Two calls suffice for each race that a property names, and the
  direct operation is what makes the two balances differ.
- Four orders in `justice`: an arrest, its release in one of three ways, and
  what crosses it, or two commands that leave one role set of two. A job that
  is dropped by a batch that another batch's call has replaced needs six, and
  is in the model but not in this instance.
- The desks (constants in `MCDesks.cfg`): companies with 4 licences, one panel
  and 2 submissions; 3 suspects on pages of 2; 2 proposals, one from before
  the last restart, with 2 callbacks and a round, of which one comes near its
  deadline; a personal panel with 4 presses by 2 callbacks, which loads 2
  applications of a kind and shows 1 where the code has 20 and 5, so that there
  are more than either; interior's panels with 3 applications on pages of 3 and
  2 rows of buttons, which stand for the code's 5 and 4. Callbacks that are idle
  are alike, and the first of them runs what comes. Two callbacks that
  overlap, a third act of somebody else and one mishap make up the excuses that
  the properties name; pages of 2 have a page that vanishes when a
  suspect does.
- Four acts in `panels`: with three, no live update can be overtaken by a page
  change whose own news is still on its way. The two payees are alike, so
  `MCPanels` lets the first that is named be the first of them.
- Deadlock checking is off: all calls may be done, all budgets spent.

## 5. Fairness

`LedgerTransactions!FairSpec`: weak fairness of each call's statements, as the
server executes a statement that is not blocked, and of the deadlock detector
(`deadlock_timeout`). Beginning a call is not promised by the property, which
starts with a call that runs. No fairness for `Disconnect` and midnight.

`TransferPool!FairSpec`: weak fairness of the handler of each transfer and of
each retry task, as the event loop runs every task that is ready and sleeps
end; of `Expire`, as time passes; of `CleanUp`, the periodic clean-up task. No
fairness for commands, other traffic, midnight and failures.

`Council!FairSpec`: weak fairness of the scheduler's wake-up (it sleeps for a
minute, and survives exceptions) and of its statements, of deadlines passing,
and of a call or a creation that has begun. Nobody has to vote or cancel.

`SupremeAssembly!FairSpec`: the same for the assembly's sweep, its calls and
its deadlines.

`Treasury!FairSpec`, `Applications!FairSpec`: strong fairness of each call's
next statement. It may be disabled again and again while other calls take the
connections or the row that it waits for; asyncpg's pool and PostgreSQL's lock
queues serve those who wait in their order, so it gets its turn. A deadlock's
victim is one of the steps. Nobody has to begin a call.

`Justice!FairSpec`: weak fairness of each call's steps, as awaited calls return;
of time, and of the scheduler's loop (`ProcessAutoRelease`), which catches
exceptions and goes round. No fairness for officers, settings and restarts.

`FairPanelsSpec` of `Panels`: weak fairness of every refresh that has begun, of
the first subscription, of live updates and of the announcement of what was
done, as the event loop runs every task that is ready. Nobody has to press, and
nothing is asked of forms, nor of the commit of a vote; queries, edits and
notices may fail.

The desks have no fairness and no liveness properties: what a callback must do
in the end is a matter of one await after the other, and what reaches the
screen is checked in `Panels`.

The liveness properties are checked in the same module and instance as the safety
ones, so the fair steps are known to happen.

## 6. Proofs

Each for any constants that satisfy the ASSUMEs (or, for the desks, the
`...Assumption`) of its module.

`LedgerTransactions_proofs`, for any members, requests, balances, limit and
number of concurrent calls: requests have the type of the SQL parameters,
initial balances are natural numbers, the two markers `NoTx` and `NoWrite` are
neither a call nor a number.

- `Locking`, `TypeCorrect`: `Spec => []LockingInv`, `Spec => []TypeOK`. The
  invariant is `TypeOK /\ LockingInv`: for every running call, it holds the
  rows it has read or written (`HoldsItsRows`), its uncommitted balances are
  the committed ones plus and minus the amount (`WritesWhatItShould`), what
  it has checked is still true (`ChecksStillHold`), and its audit row does not
  exist yet. None of the properties is inductive alone: `NoOverdraft`, for
  instance, needs to know at the commit that the debit is relative to the
  balance now committed, which is true because the row has been locked since
  it was read.
- The proof is that of two-phase locking. `OthersUndisturbed`: a step of `x`
  leaves alone everything that another call relies on, because this call has
  locked it; `LimitUndisturbed` is its counterpart for the daily limit, whose
  rows are not locked themselves but are written only by who holds the payer's
  balance row. `WorkingStep` and `CommitStep`: each statement establishes what
  the next relies on.
- `BalancesStayNonNegative`, `ReadsAreRepeatable`, `LimitIsNotStale` follow.
- `Implementation`: `Spec => ImplementsLedger`. A commit is one atomic
  transfer or adjustment of `EconomyLedger` (`CommitIsAtomic`), every other
  step stutters or is its midnight.
- `AuditExplains`: `Spec => []AuditTrailIsSound`, sums over any number of rows. A
  row that does not straddle midnight was checked against the day it bears, so the
  sum it was checked with has every such row of its day (`LimitKept`).
  Here the refinement pays: the argument is about atomic operations only. That a
  sum grows by what one row adds needs an induction over finite sets. The
  induction theorems of the library take an operator, so the proof takes the set
  of subsets for which the claim fails, and a least one of them (`FS_StrictSubsetOrderingWellFounded`,
  `WFMin`), which cannot be. `Treasury_proofs` and `Justice_proofs` use the same device.

`TransferPool_proofs`, for any transfers, traffic and bounds, through failures
and restarts. Two theorems about what may happen:

- `Counted` (`Spec => []RetriesCounted`) and `Completed`
  (`Spec => []CompletedMeansPaid`). The invariant is the two properties with the
  shape of the rows, tasks and tracking. Nearly every step is `Tame`: it wakes no
  task that was never scheduled, completes no transfer and forgets no audit row.
  The two that are not are the subject of the properties: `ScheduleRetryStep`
  (the counter and its task appear together) and `ExecuteStep` (the status and
  the audit row appear together).
- `PaidPerRound` (`Spec => []PaidOncePerRound`). A payment needs an approval,
  and an approval a round of checks. The invariant (`Backed`) adds to the payments
  made what may still be paid: the runs of `_retry_checks` to come (`Unspent`)
  and one credit of a row that is approved or may be approved by the checks that
  it has. Their number is at most one and `retry * MaxAttempts`. A step
  is `Frugal` if it does not raise the sum; only the counter's step does, by the
  attempts of one task. From this also follows that the ids of audit rows suffice.

And one about what must not be forgotten:

- `Handled` (`Spec => []ResultsAreHandled`), which includes the types. While
  nothing fails (`HInv`), each transfer is `InOrder`: an approval is
  announced or being settled (`Announced`); the last result announced for a check
  is the one in the row (`Latest`); the store has not been cleared before the first
  retry (`NotCleared`); and a full store with a failure in it has started a retry
  (`Retried`). The search for this invariant is what found the exception
  of `FailedIsRetried` (section 7), which TLC meets only with more retries
  than the run has.

`Council_proofs`, for any proposals, snapshots, votes and number of calls:
`Executed` (`Spec => []ExecutedMeansPaid`), `Unpaid` (`Spec => []OpenIsUnpaid`),
`Backed` (`Spec => []PaidHadMajority`) and `Typed` (`Spec => []TypeOK`). Three
inductive invariants, all on top of `Shape`. `StatusInv` adds to the two properties where the scheduler
stands: what it is about to execute is marked and so no longer open, what it
is about to record as executed is paid, and a proposal about to be inserted
does not exist. `BackedInv` follows a decision to pay from the tally to the
audit row. A tally may be stale when it is used, since votes change meanwhile,
so the invariant does not speak of the votes but of `Approvers`, who only grow
(`CallsAreKept`, `ApproversGrow`): a call that has counted enough approvals
has a majority of committed approvals and its own (`CallBacked`), and the
commit that pays makes its own a committed one. `ThresholdIsMajority` is where
`n / 2 + 1` matters. `BudgetInv` bounds the payments for a proposal, of which
there may be several (section 7): one for each call that has committed a vote, and
one of the scheduler, which it has used up when it can no longer list the
proposal (`Listable`). The types need it, since audit rows have ids for so many.

`SupremeAssembly_proofs`, for any members, proposals, summonses and number of
calls.

- `RolesAreKept`: `Spec => []SettingsAreKept`. A command reads both roles and
  writes both, so the invariant (`SInv`) also says of a command between the two
  that the role it will write back is the one that is there (`KeptIsTrue`),
  unless `crossed`.
- `AssemblyDecides`: `Spec => []DecisionsAreSound`. Unlike the council's, a
  vote here is final, so votes only grow (`Grows`), and a tally that was enough
  once is enough for ever, for passing and for rejecting (`Founded`). What is to be
  shown is that each vote is really added: two transactions of the same member
  would make one tally count a vote that the other's commit overwrites.
  `VotesAreNew` excludes it, from the primary key for which the second insert
  waits. `Backed` then follows the verdict from the tally through `mark` and
  `commit` to the announcement, and from the sweep's tally to its mark. `Room` is
  the limit of open proposals: when somebody is about to insert there still is
  room for one more, unless creations met, which the property excepts.
- `DeliveredIfReached`: `Spec => []SummonsesAreTrue`. The two kinds of summons are
  recorded and sent in opposite order, so the invariant (`MInv`) says for each step of
  a call which of the two has happened (`RowsAreKept`, `ReachedAreMarked`).

The same module has the panels' proofs, for any departments, payees, refreshes
and callbacks. The inductive invariant is `PanelsInv`.

- `PanelsCatchUp`: `PanelsSpec => []PanelIsTrue`. `PanelCatchesUp` says nothing
  while a refresh is at work, so `Fresh` says what a refresh that runs alone
  (`Alone`) has so far: from its reading on it holds the newest facts and the page
  that was chosen (`UpToDate`). News that comes meanwhile is on its way or
  waiting (`AtRest` is false), and what would overtake it is what `excuse` names.
  A vote or a record that commits after it was told of is the case that needs
  care: it is news that nobody announces any more, so either a refresh has yet to
  read (`YetToRead`), and will read it, or it is excused as "early".
- `FormsAreHonest`: `PanelsSpec => []FormIsHonest`. A callback that sends has what
  was seen when it began, knows at each await what was paid, all, a part or
  nothing, and tells of the payee whom it was about to name (`Holds`,
  `Sincere`). That what is seen is what the fields are needs the edits that are
  on their way: unless they crossed, the last of them has the fields, or the message
  has if there is none (`Drafted`).

`Applications_proofs`, for any members, callers, amounts and numbers of
applications.

- `Finality`: `Spec => DecisionsAreFinal`. Every UPDATE but one asks for a row
  that is pending. The commit of a welfare approval does not: it writes what its
  transaction decided three statements ago. `RowsAreHeld` is why this is right:
  who is past its UPDATE holds the row, alone, and it is pending.
- `Honoured`: `Spec => []ApprovalsAreHonoured`. Its part on payments
  counts calls; the invariant (`PInv`) says instead that an application was paid
  once for its approval, once per lost approval, and once if there is a call
  about to commit, of which `RowsAreHeld` allows one. For licences, an application
  that nobody crossed has one reviewer (`OneAtATime`), so it has a licence
  exactly when its reviewer is past issuing or it is approved (`CInv`); one active
  licence per member and type is the unique index (`LInv`); and duplicates are
  bounded by the callers, because whoever is late found none when it looked
  (`Bounded`).

`Justice_proofs`, for any members, officers, orders and faults.

- `Coherent`: `Spec => []StateIsCoherent`, and `Kept`: `Spec =>
  []ChargedAreKept`. The invariant (`RInv`) is about the members in `clean` only:
  each has one active record at most, one call at work at most, and roles and
  records that are those of the step where this call stands (`Phase`), or agree if
  there is none. A call keeps what it found in the settings when it began, and
  whoever it leaves with neither role is in `roleless` before it takes the
  suspect role away. `NoJobForTheFree` is about the jobs. The attempt showed that
  `clean` was too generous, and the model has been corrected: a call that goes on
  to the next member of its list can meet another call there.

`Treasury_proofs`, for any departments, members, calls, balances and number of
callers.

- `CacheFollows`: `Spec => []GovernanceFollowsLedger`. `GInv` has one clause
  per operation (`FollowsWelfare`, ..., `Aligns`): where a call that met no other
  stands with a department whose balances agreed when it began, in
  terms of what it read, drafted and already paid elsewhere. Calls that met
  know it, both (`MeetingsAreKnown`), so a step of one leaves alone what is
  claimed of the other; a department that nobody has started on agrees
  (`RestingAgree`).
- `BooksBalance`: `Spec => []BooksAreSound`. In `BInv`, no row is locked twice
  (`LocksApart`), what a draft has written it has locked and leaves no debt
  (`WritesSound`), adds up to what it minted and granted (`AddsUp`) and is what was
  asked for (`PaysAmount`). The overshoot of issuances: those recorded, and those
  past the check but not recorded (`Owed`), exceed the limit by the largest for
  every other caller at most, since who passes the check saw all that was
  recorded by then, and the others can owe one each. A deduction plan with
  enough money is not empty, which rests on the sorting (`InOrder`).

`MCDesks_proofs`, for any companies, panels, suspects, proposals, payees,
applications and callbacks.

- `SoundCompanies`: `MCSpec => []CompaniesAreSound`. `CInv` says of a submission
  at each of its awaits what it still knows: an account number that was drawn is
  nobody else's (`DrawnSound`), the current company of a panel is its author's
  (`PanelsSound`), and a payment is about the current company, found licensed,
  unless the panel was switched meanwhile (`PanelsSteady`, `CallsSteady`).
- `OrdersTakeTheChosen`: `MCSpec => OnlyTheChosen`. The selection is a subset of
  what the author chose last (`Selected`), for all that happens to it between
  two choices is that it shrinks (`SelectionShrinks`).
- `VotesCountWhereCast` and `TrueAnnouncements`: `MCSpec =>
  []CountedWhereCast`, `[]AnnouncementsAreTrue`. `VInv` keeps, of a vote at work,
  where it may go (`Placed`), which rests on old messages' view being one that this
  process registered (`VViews`); of every ended proposal, who is still about to tell
  it (`VTold`), and that the round tells what still is so unless the proposal is in
  `gaps` (`VTelling`); and of every reminder, whether it is sent, being marked, or
  marked (`VReminded`).
- `TruePayments`: `MCSpec => []PaymentsAreAsTold`. `PInv` follows a form from
  its payee's name to the account (`Right`) and a callback from its payment
  to what it tells (`HandOk`).
- `OrderedDecisions`: `MCSpec => []DecidedAsOrdered`. `DInv` has of a callback
  about to decide that its order was given (`Sound`), and of one about to tell, now
  or after an edit, the decision that was taken (`Truthful`), which stays (`Keeps`).
- `TrueScreens`: `MCSpec => []ScreensAreTrue`, one lemma per desk
  (`SuspectScreens`, `VotingScreens`, `PersonalScreens`, `InteriorScreens`).
  The properties speak of a desk at rest and allow for reasons that a history
  variable names. They are not inductive: while somebody is at work, the screen
  may be anything. The invariants (`SInv`, `PScreen`, `IScreen`) say that as
  long as there is no reason, only one callback is at work, and what it has so
  far: what it read is still what there is, and what it has drawn is what the
  screen should show (`SoFar`, `Redrawing`, `Drawn`). A reason for stale data
  and one for a stale drawing are not the same, so loading has clauses of its
  own (`Reloading`, `Fetched`). For the licences' page, `Ahead` says what a
  query, its answer and an edit know of the page's neighbours, for any number
  of callbacks, so that a page that one alone turns to exists. Two screens may
  say that there is nothing only if there is nothing, so their pages must not
  be empty: `PageHasLicense` is arithmetic; for the suspects, `EveryRank`
  counts. The ranks of a list's suspects are as many different numbers below
  its length as there are suspects, so every such number is one of them
  (`FS_Injection`), the first one of the page too. For the voting messages
  (`VDesk`) it is that only what nears its deadline is reminded of.

Only model-checked, and why:

- liveness (`EveryCallEnds`, `EveryTransferSettles`, `EveryProposalIsDecided`,
  `CallsFinish`, `ScheduledGetFree`, `CallsEnd`, `EveryProposalCloses`,
  `NewsReachesScreen`): temporal proofs under fairness are beyond the backends
  used here;
- `PaidAtMostOnce`, which is false (section 7).

## 7. What the code does not keep

**A transfer can be paid twice** (`pool_paid_twice`, the quotation and the line
are in `PROJECT.json` under `findings`). `_retry_checks` sets `checking` whatever
the status is. A retry task that is no longer tracked, because its
predecessor's `finally` removed the tracking, does this to a completed
transfer; its checks pass and it is approved and paid again. No failure is
needed. `PaidOncePerRound` is what does hold.

The models contain the following as well; each is something that a property
excepts, and names. (The first `src/` is left out of the
paths; a line without a file is in the file named last.)

Ledger and pool.
- A transfer whose transaction begins before midnight and calls the function
  after it is dated the old day and checked against the new one (`Straddles`): it is
  in no day's sum, and each such transfer may take up the limit once more.
- No cooldown is ever committed: `fn_record_throttle` writes it in the
  transaction that the RAISE after it rolls back. The pool's cooldown check
  never fails.
- A transfer that was called off can be paid, in the way it can be paid twice,
  after a rejection at the retry limit.
- One round schedules several retries: the check store is cleared after the new
  results have been requested, so from the second round on the first result
  already completes the set.
- A failed transfer can lose its retries without any failure, against the
  ten that `README.md:32` promises. A retry task that its
  predecessor's `finally` has untracked clears the check store between two results
  of a later round; the store then never holds three, and nothing
  schedules the next retry. The transfer ends when it expires. It takes four
  retries, so the runs do not reach it: with `MaxRetry = 6` and no traffic in
  `MCPoolCalm.cfg`, TLC reaches the state that `FailedIsRetried` excepts in 37 steps.
- A failed transfer is not retried after a restart or a failed statement, and
  an approved transfer whose approval was lost stays approved for ever:
  clean-up looks at `pending` and `checking` only.

Council and assembly.
- A proposal can be executed twice: `vote` reads the status before its
  transaction and never again, so a vote that is under way while another one
  executes the proposal finds the threshold reached and pays again. In the same
  way a cancelled proposal is executed by a vote that had read it as open.
- The scheduler overwrites `executed` with `timeout` when votes execute the
  proposal between its tally and its update; a crash between `passed` and the
  payment leaves the proposal passed for ever, as only open ones are listed.
- The assembly reads a proposal before its transaction
  (`bot/services/supreme_assembly_service.py:279`) and marks it unconditionally; the limit of
  five (:211) is counted before the insert; `set_config` acquires a second
  connection while it holds one (:144), and a changed account id leaves the old balance
  where it was; events are published before the commit (:317), although
  `bot/commands/supreme_assembly.py:718` promises panels that
  refresh themselves: a refresh that reads before the commit shows the old tally. The two settings
  commands lose each other's update (:274-299, :363-388 there).
- A summons of councillors is sent before it is recorded (:2206 there), so a
  failure leaves members summoned by nobody.

Voting messages.
- After a restart the buttons of all earlier messages reach the view registered
  last, so they vote on one proposal; `bot/commands/council.py:738` says that old
  buttons keep working. They do if only one proposal was open (`CountedWhereCast`).
- The status is read (:808-815) or returned by the vote (:630), and told after four
  queries (:2180-2215, :2227-2231). A vote that had read the proposal as open can
  execute it in between, or the scheduler mark it: the members' last word is then
  what it was before (`gaps`).
- A vote in a direct message that ends a proposal is never announced (:648-652;
  `supreme_assembly.py:1644-1648`); nor is a proposal that becomes due after
  the round has listed what is due (:758), nor anything after a failed query
  (:745, :803). A reminder is sent before it is marked. The assembly's T-24h
  reminder lists only what is overdue already, and never marks it
  (`supreme_assembly.py:2356-2360`).

Treasury.
- The failure of a transfer between departments is swallowed and the governance
  balances move all the same (`bot/services/state_council_service.py:2673-2682`). The payer's funds are
  checked only when the gateway is a test's double (:2668), so that
  `tests/unit/test_state_council_service.py:1025` passes.
- A governance balance that is stale, after a direct operation on the ledger,
  is taken as the truth and the difference granted (:473).
- Issuances are summed before the insert (:2509) and overshoot together; the
  permission check of an issuance takes a second connection (:2519), so that a pool
  with as many callers as connections waits for ever.
- The listener's alignment of government accounts never happens
  (`infra/telemetry/listener.py:610-618` asks a Result for `.balance`; so does
  `state_council_reports.py:512-518`). The summary reads account after
  account (:2902).

Justice.
- A second arrest opens a second record, as the index of migration 042 is not
  unique. `suspect_id` is a uuid there and an integer in the handlers; with the
  uuid no UPDATE finds its row (`uuidKeys`).
- A failed look-up of charges lets the release go on (:1092), and a charge that
  comes between the check and the UPDATE is released (:1129).
- With the suspect role set and the citizen role not, a release goes on (:1055-1067,
  :1114): the member ends with neither role and a released record (`roleless`).
  Setting the role later gives it to nobody.
- `set_config` for a new leader erases the role ids (:567), after which due
  jobs are dropped (`state_council_scheduler.py:262-272`); the role commands lose each
  other's update (:651-705). Jobs are lost on restart (:1490), as
  `CHANGELOG.md:881` admits.

Applications.
- A licence is issued before its application is approved
  (`application_service.py:612`), so a rejection or a failure in between leaves
  a licence without approval; a welfare payment commits although its approval
  may be lost (:338), and is then made again; duplicates pass the look-up (:458).
- A licence whose term is over blocks the next one until the job has run.

Companies.
- A company's account is not the one its id stands for, contrary to
  `bot/ui/company_select.py:161-173`: account and id are two numbers of one
  sequence. No two are mixed up (`NoAccountAliasing`).
- A submission reads `panel.current_company` again after its awaits; the
  licence is looked at only when the transfer button is pressed; the licence
  of a pending creation can be replaced by another menu.

Panels and desks.
- A page change does not take the lock that a live update takes
  (`state_council.py:777`, :651): two that overlap leave an older drawing, or
  add a second menu and fail (:754). Events before the subscription are
  missed (:617).
- A query that fails is drawn: as no proposals at all (`council.py:1074-1077`,
  `supreme_assembly.py:776-780`), as 無法載入 (:1404-1413), or as departments that
  may not be seen (:738-746). Nothing reads again until there is other news.
- The record of a transfer between departments commits after the ledger has given
  notice of the payment (`bot/services/state_council_service.py:2675-2734`), as a
  vote in the assembly does after it is published: a panel that is quick shows
  neither, and will not hear of it again.
- A form reads its fields after its awaits (:3170-3212), says that a payment
  failed when only its message did (:3217), pays twice when pressed twice, and
  is open again if it was closed during a submission.
- A department's payment that the ledger refuses is told as a success
  (`bot/services/state_council_service.py:2673-2682`, and :2854-2856 there, but for
  want of funds); one whose record fails is told as a failure, and was made
  (:3917-3928).
- The suspects' panel of homeland security is drawn with live buttons by what ends
  after it was closed (:5817, :6205-6209); a modal sent then still gives its order.
- The panel of applications has five rows of buttons for a menu and five
  applications: with five waiting it neither opens nor, after a decision,
  redraws or tells the author (:7318). The licences' page moves before the query
  (:7667): after a failure or a double press it is beyond the last page, and says that
  there are none, or below the first, and fails.
- A refresh on the personal panel's government tab draws the transfer's embed
  (`personal_panel_paginator.py:479-480`); a form keeps the balance from when it
  was opened and refuses what could be paid; a refused message of success turns
  into one of failure after the payment (:1352-1356, :1468-1472, :1712-1716);
  in pooled mode a pending transfer is reported as a success. Offices are paid
  by the formula for their account, also when another is on record.

## 8. Abstractions, and what is not modelled

Of all modules:
- Guilds do not interact: one guild. Integers are unbounded: amounts are
  `bigint` and nothing comes near 2^63 with the limits the commands enforce.
- One step of a service is one SQL statement, or what a coroutine does between
  two awaits. Where a module takes a call of a service as one step, the module of
  that service has its details.

Ledger, pool, council:
- A check function is one step: it updates one row and is one statement of the
  retry task. A transfer inside `_execute_transfer` is one step by the
  refinement of the ledger.
- The cooldown: `throttled_until` is modelled in `LedgerTransactions`, where it
  is never set by a committed transaction; `TransferPool` builds on that.
- `DailyLimit` is the value the session sees. `_configure_connection` sets it
  with `is_local = true` outside a transaction (`src/db/pool.py:211`), so that the environment
  variable has no effect on later statements and the functions use their
  default; the models take either value as a constant.
- `Expire` happens when nothing works on the transfer any more: it comes after
  24 hours and all retries together take at most 14 minutes.
- A proposal is executed in the synchronous mode; with the event pool the
  payment is a pending transfer. The council's configuration and the target
  department exist, so that only the ledger refuses an execution.
- `stop()` of the pool cancels tasks and forgets them: the same as `Restart`
  as far as the rows and what happens next are concerned.

Treasury: `Plan` reads the departments' balances at once, although they are
read one after another; departments come in one order (`DepartmentOrder`); the
ledger is called in its synchronous mode; a call of `fn_transfer_currency` takes
its locks together, as `LedgerTransactions` has the order.

Applications: `crossed` are reviews that met; who reviews is not told apart.

Panels and desks: messages that are only sent and never looked at again are left
out, as is the expiry of interaction tokens after 15 minutes except where a view's
timeout stands for it (`Expire`). The two queries of a page (rows, and how many there
are) are one step in `InteriorDesk` and two in `PersonalPanel`. The history
of the desks begins with as many entries as make two pages. In `Panels` a summary
counts the events that are surely in it: it reads account after account, so
later ones may be too, and their notices are still to come. Its payments are made
at once: with the event pool switched on, a form files a pending transfer and tells
of that.

Not modelled:
- The council's forms that nothing opens (`ProposeTransferModal`;
  `state_council.py` 2243-2640; `personal_panel_paginator.py` 514-729), the
  details button of the suspects' panel (`state_council.py` 6614-6731), which finds nobody, and
  `cancel_proposal` and `mark_reminded` of the assembly beyond what their
  services do: no button calls them.
- What happens to a panel at its timeout, beyond `Expire` (`Panels`) and
  `on_timeout` (`SuspectPanels`): the others leave their buttons as they are, and
  no view listens to them. A panel's subscription is left behind when its closing
  fails; its updates are refused edits.
- A paginator that waits for its own lock (`src/bot/ui/paginator.py:240`): it
  needs more than ten open proposals, and the limit is five.
- De-duplication of notices, archival, exports, reports, settings of
  departments, pages of the central bank and of identity records, permissions
  and the department registry: they read, label or look up, one statement at a
  time.
- Other commands, dependency injection, logging, migrations, packaging and
  scripts have no protocol of their own.

## 9. Running it

    tlc -config MCLedger.cfg MCLedgerTransactions
    tlc -config MCPoolCalm.cfg MCTransferPool
    tlc -config MCCouncil.cfg MCCouncil
    tlc -config MCTreasury.cfg MCTreasury
    tlc -config MCJustice.cfg MCJustice
    tlc -config MCApplications.cfg MCApplications
    tlc -config MCSupremeAssembly.cfg MCSupremeAssembly
    tlc -config MCDesks.cfg MCDesks
    tlc -config MCPanels.cfg MCPanels
    tlapm LedgerTransactions_proofs.tla

and `tlapm` likewise on the other seven `..._proofs.tla`. `PROJECT.json` lists
every run with its module, configuration and expectation, the theorems, and for
each property an alternative definition under which it fails.

------------------------------- MODULE Council -------------------------------
(***************************************************************************)
(* The council: proposals to pay a member from the council's account, the  *)
(* votes on them, cancellation, and the scheduler that ends what is due    *)
(* (CouncilService and fn_council.sql).                                    *)
(*                                                                         *)
(* Calls of vote run concurrently: the status is read before the           *)
(* transaction that stores the vote, counts and decides.  One step is one  *)
(* statement, except that everything from the first fn_mark_status of a    *)
(* transaction to its COMMIT is one step: the transaction then holds the   *)
(* proposal's row, and later the account's, so nobody writes in between.   *)
(*                                                                         *)
(* A passed proposal is executed by the ledger of EconomyLedger, in the    *)
(* synchronous mode of TransferService, which runs the transfer under a    *)
(* savepoint: a refusal leaves the transaction around it intact.           *)
(***************************************************************************)
EXTENDS EconomyLedger

CONSTANTS
    Proposals, \* identities of the proposals
    Payment,   \* Payment[p]: the transfer that p proposes
    Snapshot,  \* Snapshot[p]: the council members when p was created
    Calls,     \* identities of the calls of vote
    Ballots,   \* Ballots[c]: what c may be: a proposal, a voter and a choice
    OtherTxIds,\* ledger operations that are none of the council's
    MaxActive, \* open proposals a guild may have (5 in the code)
    MaxFaults  \* bound: failures that a behaviour may contain

VoteChoices == {"approve", "reject", "abstain"}

ASSUME PaymentAssumption ==
    /\ Payment \in [Proposals -> Requests]
    /\ \A p \in Proposals : Payment[p].op = "transfer"
ASSUME SnapshotAssumption ==
    \A p \in Proposals : IsFiniteSet(Snapshot[p]) /\ Snapshot[p] # {}
ASSUME BallotsAssumption ==
    \A c \in Calls : \A b \in Ballots[c] :
        b.proposal \in Proposals /\ b.choice \in VoteChoices
ASSUME CouncilBoundsAssumption ==
    IsFiniteSet(Calls) /\ MaxActive \in Nat /\ MaxFaults \in Nat

\* The audit rows of payments for p.  Each call of vote pays once at most, and
\* so does the scheduler: it lists a proposal only until it has marked it.
PaymentIds(p) == {p} \X (1..(1 + Cardinality(Calls)))
ASSUME CouncilTxIdsAssumption ==
    /\ TxIds = OtherTxIds \cup UNION {PaymentIds(p) : p \in Proposals}
    /\ \A p \in Proposals : PaymentIds(p) \cap OtherTxIds = {}

VARIABLES
    status, \* status[p]: governance.proposals.status
    votes,  \* votes[p]: governance.votes, committed, of each voter
    due,    \* due[p]: deadline_at has gone by
    call,   \* call[c]: where a call of vote stands
    clerk,  \* clerk[p]: a creation or cancellation between its two statements
    sweep,  \* sweep[p]: where expire_due_proposals stands with p
    faults  \* failures so far

councilVars == <<status, votes, due, call, clerk, sweep, faults>>
vars == <<ledgerVars, councilVars>>

Running == {"vote", "tally", "decide"}

-----------------------------------------------------------------------------
(* Tallies and execution *)

\* Mutant of Threshold: half of the snapshot is enough.
ThresholdHalf(p) == Cardinality(Snapshot[p]) \div 2

\* v_n / 2 + 1
Threshold(p) == Cardinality(Snapshot[p]) \div 2 + 1

\* fn_fetch_tally: how many of the stored votes are for choice.
Count(ballots, choice) ==
    Cardinality({v \in DOMAIN ballots : ballots[v] = choice})

Unvoted(p, ballots) == Cardinality(Snapshot[p]) - Cardinality(DOMAIN ballots)

\* Enough approvals, or too few even if everybody else approved.
Verdict(p, ballots) ==
    IF Count(ballots, "approve") >= Threshold(p) THEN "pass"
    ELSE IF Count(ballots, "approve") + Unvoted(p, ballots) < Threshold(p)
    THEN "reject"
    ELSE "open"

\* fn_upsert_vote: the last vote of a member counts.
Cast(ballots, voter, choice) ==
    [v \in DOMAIN ballots \cup {voter} |-> IF v = voter THEN choice ELSE ballots[v]]

Payments(p) == {row \in log : row.id \in PaymentIds(p)}
PaymentId(p) == <<p, 1 + Cardinality(Payments(p))>>

Affordable(p) ==
    LET r == Payment[p]
    IN  Valid(r) /\ WithinLimit(log, r, day) /\ balance[r.by] >= r.amount

Pay(p) == TransferNow(PaymentId(p), Payment[p])

SetStatus(p, s) == status' = [status EXCEPT ![p] = s]

-----------------------------------------------------------------------------
(* Creation and cancellation *)

Init ==
    /\ LedgerInit
    /\ status = [p \in Proposals |-> "none"]
    /\ votes = [p \in Proposals |-> [v \in {} |-> "abstain"]]
    /\ due = [p \in Proposals |-> FALSE]
    /\ \E b \in [Calls -> UNION {Ballots[c] : c \in Calls}] :
          /\ \A c \in Calls : b[c] \in Ballots[c]
          /\ call = [c \in Calls |->
                       [pc |-> "idle", ballot |-> b[c], verdict |-> "open"]]
    /\ clerk = [p \in Proposals |-> "idle"]
    /\ sweep = [p \in Proposals |-> "idle"]
    /\ faults = 0

Open == {p \in Proposals : status[p] = "open"}

\* fn_create_proposal counts the open proposals, as its caller has done ...
CountActive(p) ==
    /\ status[p] = "none" /\ clerk[p] = "idle"
    /\ Cardinality(Open) < MaxActive
    /\ clerk' = [clerk EXCEPT ![p] = "create"]
    /\ UNCHANGED <<ledgerVars, status, votes, due, call, sweep, faults>>

\* ... and inserts one more, with its snapshot, threshold and deadline.
InsertProposal(p) ==
    /\ clerk[p] = "create"
    /\ SetStatus(p, "open")
    /\ clerk' = [clerk EXCEPT ![p] = "idle"]
    /\ UNCHANGED <<ledgerVars, votes, due, call, sweep, faults>>

\* fn_attempt_cancel_proposal counts the votes ...
CountVotes(p) ==
    /\ status[p] # "none" /\ clerk[p] = "idle"
    /\ DOMAIN votes[p] = {}
    /\ clerk' = [clerk EXCEPT ![p] = "cancel"]
    /\ UNCHANGED <<ledgerVars, status, votes, due, call, sweep, faults>>

\* ... and updates the row if it is still open.
CancelProposal(p) ==
    /\ clerk[p] = "cancel"
    /\ IF status[p] = "open" THEN SetStatus(p, "cancelled") ELSE UNCHANGED status
    /\ clerk' = [clerk EXCEPT ![p] = "idle"]
    /\ UNCHANGED <<ledgerVars, votes, due, call, sweep, faults>>

-----------------------------------------------------------------------------
(* vote *)

Ballot(c) == call[c].ballot
Goto(c, pc) == call' = [call EXCEPT ![c].pc = pc]

\* Mutant of ReadProposal: the snapshot is not consulted.
ReadProposalOnly(c) ==
    LET p == Ballot(c).proposal
    IN  /\ call[c].pc = "idle" /\ status[p] # "none"
        /\ Goto(c, IF status[p] = "open" THEN "vote" ELSE "ended")
        /\ UNCHANGED <<ledgerVars, status, votes, due, clerk, sweep, faults>>

\* The proposal and its snapshot are read before the transaction.
ReadProposal(c) ==
    LET p == Ballot(c).proposal
    IN  /\ call[c].pc = "idle" /\ status[p] # "none"
        /\ Goto(c, IF status[p] = "open" /\ Ballot(c).voter \in Snapshot[p]
                   THEN "vote" ELSE "ended")
        /\ UNCHANGED <<ledgerVars, status, votes, due, clerk, sweep, faults>>

\* A member's row is locked by whoever is storing a vote of this member.
VoteLocked(c) ==
    \E d \in Calls \ {c} :
        /\ call[d].pc \in {"tally", "decide"}
        /\ Ballot(d).proposal = Ballot(c).proposal
        /\ Ballot(d).voter = Ballot(c).voter

UpsertVote(c) ==
    /\ call[c].pc = "vote" /\ ~VoteLocked(c)
    /\ Goto(c, "tally")
    /\ UNCHANGED <<ledgerVars, status, votes, due, clerk, sweep, faults>>

\* What c sees: the committed votes and its own.
Seen(c) == Cast(votes[Ballot(c).proposal], Ballot(c).voter, Ballot(c).choice)

CountBallots(c) ==
    /\ call[c].pc = "tally"
    /\ call' = [call EXCEPT ![c].pc = "decide",
                            ![c].verdict = Verdict(Ballot(c).proposal, Seen(c))]
    /\ UNCHANGED <<ledgerVars, status, votes, due, clerk, sweep, faults>>

\* The rest of the transaction: pass and execute, reject, or neither, and
\* COMMIT the vote with it.
Decide(c) ==
    LET p == Ballot(c).proposal
        v == call[c].verdict
    IN  /\ call[c].pc = "decide"
        /\ \/ v = "pass" /\ Pay(p) /\ SetStatus(p, "executed")
           \/ /\ v = "pass" /\ ~Affordable(p) /\ SetStatus(p, "failed")
              /\ UNCHANGED ledgerVars
           \/ v = "reject" /\ SetStatus(p, "rejected") /\ UNCHANGED ledgerVars
           \/ v = "open" /\ UNCHANGED <<status, ledgerVars>>
        /\ votes' = [votes EXCEPT ![p] = Seen(c)]
        /\ Goto(c, "voted")
        /\ UNCHANGED <<due, clerk, sweep, faults>>

-----------------------------------------------------------------------------
(* expire_due_proposals, one statement after the other, no transaction *)

\* Mutant of ListDue: only proposals nobody has voted on.
ListDueUnvoted ==
    LET listed == {p \in Open : due[p] /\ DOMAIN votes[p] = {}}
    IN  /\ \A p \in Proposals : sweep[p] = "idle"
        /\ listed # {}
        /\ sweep' = [p \in Proposals |-> IF p \in listed THEN "listed" ELSE "idle"]
        /\ UNCHANGED <<ledgerVars, status, votes, due, call, clerk, faults>>

\* fn_list_due_proposals
ListDue ==
    LET listed == {p \in Open : due[p]}
    IN  /\ \A p \in Proposals : sweep[p] = "idle"
        /\ listed # {}
        /\ sweep' = [p \in Proposals |-> IF p \in listed THEN "listed" ELSE "idle"]
        /\ UNCHANGED <<ledgerVars, status, votes, due, call, clerk, faults>>

SweepTo(p, s) == sweep' = [sweep EXCEPT ![p] = s]

ExpireTally(p) ==
    /\ sweep[p] = "listed"
    /\ \A q \in Proposals : sweep[q] \in {"idle", "listed"}
    /\ SweepTo(p, IF Verdict(p, votes[p]) = "pass" THEN "pass" ELSE "timeout")
    /\ UNCHANGED <<ledgerVars, status, votes, due, call, clerk, faults>>

\* Mutant of ExpireMark: a proposal about to be executed stays open.
ExpireMarkLate(p) ==
    /\ sweep[p] \in {"pass", "timeout"}
    /\ IF sweep[p] = "pass" THEN UNCHANGED status /\ SweepTo(p, "execute")
                            ELSE SetStatus(p, "timeout") /\ SweepTo(p, "idle")
    /\ UNCHANGED <<ledgerVars, votes, due, call, clerk, faults>>

\* fn_mark_status, whatever the status is by now.
ExpireMark(p) ==
    /\ sweep[p] \in {"pass", "timeout"}
    /\ IF sweep[p] = "pass" THEN SetStatus(p, "passed") /\ SweepTo(p, "execute")
                            ELSE SetStatus(p, "timeout") /\ SweepTo(p, "idle")
    /\ UNCHANGED <<ledgerVars, votes, due, call, clerk, faults>>

\* Mutant of ExpireExecute: a refused transfer counts as executed.
ExpireExecuteAnyway(p) ==
    /\ sweep[p] = "execute"
    /\ \/ Pay(p)
       \/ ~Affordable(p) /\ UNCHANGED ledgerVars
    /\ SweepTo(p, "executed")
    /\ UNCHANGED <<status, votes, due, call, clerk, faults>>

\* _attempt_execution: the transfer commits on its own ...
ExpireExecute(p) ==
    /\ sweep[p] = "execute"
    /\ \/ Pay(p) /\ SweepTo(p, "executed")
       \/ ~Affordable(p) /\ SweepTo(p, "failed") /\ UNCHANGED ledgerVars
    /\ UNCHANGED <<status, votes, due, call, clerk, faults>>

\* ... before the status says so.
ExpireRecord(p) ==
    /\ sweep[p] \in {"executed", "failed"}
    /\ SetStatus(p, sweep[p])
    /\ SweepTo(p, "idle")
    /\ UNCHANGED <<ledgerVars, votes, due, call, clerk, faults>>

Expire(p) ==
    ExpireTally(p) \/ ExpireMark(p) \/ ExpireExecute(p) \/ ExpireRecord(p)

-----------------------------------------------------------------------------
(* Time and failures *)

Deadline(p) ==
    /\ status[p] # "none" /\ ~due[p]
    /\ due' = [due EXCEPT ![p] = TRUE]
    /\ UNCHANGED <<ledgerVars, status, votes, call, clerk, sweep, faults>>

\* Others use the accounts as well, the council's among them.
OtherTransfer ==
    /\ \E x \in OtherTxIds, r \in Requests : TransferNow(x, r) \/ AdjustNow(x, r)
    /\ UNCHANGED councilVars

Fault == faults < MaxFaults /\ faults' = faults + 1

\* A call whose connection fails is rolled back, the vote included.
CallFails(c) ==
    /\ Fault
    /\ call[c].pc \in Running
    /\ Goto(c, "ended")
    /\ UNCHANGED <<ledgerVars, status, votes, due, clerk, sweep>>

\* An exception ends the sweep; the scheduler starts another a minute later.
SweepFails ==
    /\ Fault
    /\ \E p \in Proposals : sweep[p] # "idle"
    /\ sweep' = [p \in Proposals |-> "idle"]
    /\ UNCHANGED <<ledgerVars, status, votes, due, call, clerk>>

\* The bot crashes; only committed rows survive.
Restart ==
    /\ Fault
    /\ call' = [c \in Calls |-> IF call[c].pc \in Running
                                THEN [call[c] EXCEPT !.pc = "ended"]
                                ELSE call[c]]
    /\ clerk' = [p \in Proposals |-> "idle"]
    /\ sweep' = [p \in Proposals |-> "idle"]
    /\ UNCHANGED <<ledgerVars, status, votes, due>>

VoteStep(c) == ReadProposal(c) \/ UpsertVote(c) \/ CountBallots(c) \/ Decide(c)
ClerkStep(p) == InsertProposal(p) \/ CancelProposal(p)

Next ==
    \/ \E c \in Calls : VoteStep(c) \/ CallFails(c)
    \/ \E p \in Proposals :
          CountActive(p) \/ CountVotes(p) \/ ClerkStep(p) \/ Expire(p) \/ Deadline(p)
    \/ ListDue \/ OtherTransfer \/ SweepFails \/ Restart

Spec == Init /\ [][Next]_vars

\* The scheduler wakes up every minute, deadlines pass, and a statement that
\* has been sent is executed.  Nobody has to vote, propose or cancel.
FairSpec ==
    /\ Spec
    /\ WF_vars(ListDue)
    /\ \A p \in Proposals :
          WF_vars(Expire(p)) /\ WF_vars(Deadline(p)) /\ WF_vars(ClerkStep(p))
    /\ \A c \in Calls : WF_vars(call[c].pc # "idle" /\ VoteStep(c))

-----------------------------------------------------------------------------
(* Properties *)

TypeOK ==
    /\ LedgerTypeOK
    /\ status \in [Proposals -> {"none", "open", "passed", "executed", "failed",
                                 "rejected", "timeout", "cancelled"}]
    /\ DOMAIN votes = Proposals
    /\ \A p \in Proposals : /\ DOMAIN votes[p] \subseteq Snapshot[p]
                            /\ votes[p] \in [DOMAIN votes[p] -> VoteChoices]
    /\ due \in [Proposals -> BOOLEAN]
    /\ call \in [Calls -> [pc: {"idle", "voted", "ended"} \cup Running,
                           ballot: UNION {Ballots[c] : c \in Calls},
                           verdict: {"pass", "reject", "open"}]]
    /\ clerk \in [Proposals -> {"idle", "create", "cancel"}]
    /\ sweep \in [Proposals -> {"idle", "listed", "pass", "timeout", "execute",
                                "executed", "failed"}]
    /\ faults \in 0..MaxFaults

\* The members who have voted to approve p at some time.
Approvers(p) ==
    {Ballot(c).voter : c \in {d \in Calls : /\ call[d].pc = "voted"
                                            /\ Ballot(d).proposal = p
                                            /\ Ballot(d).choice = "approve"}}

(***************************************************************************)
(* The council's money moves only with a majority of the snapshot: however *)
(* votes, changed votes, outsiders' calls, the scheduler and crashes       *)
(* interleave, a payment for p has enough different members of the         *)
(* snapshot who approved p and whose vote is committed.                    *)
(***************************************************************************)
PaidHadMajority ==
    \A p \in Proposals :
        Payments(p) # {} =>
            2 * Cardinality(Approvers(p) \cap Snapshot[p]) > Cardinality(Snapshot[p])

(***************************************************************************)
(* A proposal recorded as executed has been paid, also when the scheduler  *)
(* that executed it, or a call that did, was cut off.                      *)
(***************************************************************************)
ExecutedMeansPaid ==
    \A p \in Proposals : status[p] = "executed" => Payments(p) # {}

(***************************************************************************)
(* No money has moved for an open proposal.  The scheduler lists open      *)
(* proposals again after every failure, and would pay again otherwise.     *)
(***************************************************************************)
OpenIsUnpaid == \A p \in Open : Payments(p) = {}

(***************************************************************************)
(* Every open proposal is decided, in particular one whose approvals       *)
(* reached the threshold in two transactions that did not see each other   *)
(* and so executed nothing; a failure delays this at most.                 *)
(***************************************************************************)
EveryProposalIsDecided ==
    \A p \in Proposals : status[p] = "open" ~> [](status[p] # "open")

=============================================================================

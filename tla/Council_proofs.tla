--------------------------- MODULE Council_proofs ---------------------------
(***************************************************************************)
(* Proofs about Council for any proposals, snapshots, votes and number of  *)
(* calls, with failures and restarts.  Three invariants are inductive: one *)
(* relates the status of a proposal, and where the scheduler stands with   *)
(* it, to the ledger; one relates every decision to pay, from the tally it *)
(* is based on to the audit row, to the votes behind it; and one bounds    *)
(* the payments for a proposal by the calls that have committed a vote on  *)
(* it and the one payment the scheduler may make.                          *)
(***************************************************************************)
EXTENDS Council, FiniteSetTheorems, TLAPS

Statuses == {"none", "open", "passed", "executed", "failed", "rejected",
             "timeout", "cancelled"}

CallType == [pc: {"idle", "voted", "ended"} \cup Running,
             ballot: UNION {Ballots[c] : c \in Calls},
             verdict: {"pass", "reject", "open"}]

\* The part of TypeOK that the invariants rest on.
Shape ==
    /\ status \in [Proposals -> Statuses]
    /\ votes = [p \in Proposals |-> votes[p]]
    /\ call \in [Calls -> CallType]
    /\ clerk \in [Proposals -> {"idle", "create", "cancel"}]
    /\ sweep \in [Proposals -> {"idle", "listed", "pass", "timeout", "execute",
                                "executed", "failed"}]

-----------------------------------------------------------------------------
(* Shape *)

\* A call is about a proposal and casts a known choice.
LEMMA CallsAreTyped ==
    ASSUME Shape, NEW c \in Calls
    PROVE  /\ call[c] \in CallType
           /\ Ballot(c).proposal \in Proposals
BY BallotsAssumption DEF Shape, CallType, Ballot

LEMMA ShapeInit == Init => Shape
BY DEF Init, Shape, Statuses, CallType

LEMMA ShapeStep == Shape /\ [Next]_vars => Shape'
<1> SUFFICES ASSUME Shape, [Next]_vars PROVE Shape'
  OBVIOUS
<1>1. CASE UNCHANGED vars
  BY <1>1 DEF Shape, vars, councilVars
<1>2. ASSUME NEW c \in Calls, VoteStep(c) \/ CallFails(c) PROVE Shape'
  <2>1. call[c] \in CallType /\ Ballot(c).proposal \in Proposals
    BY CallsAreTyped
  <2>2. \A pc \in {"idle", "voted", "ended"} \cup Running :
           Goto(c, pc) => call' \in [Calls -> CallType]
    <3> SUFFICES ASSUME NEW pc \in {"idle", "voted", "ended"} \cup Running, Goto(c, pc)
                 PROVE  call' \in [Calls -> CallType]
      OBVIOUS
    <3>1. [call[c] EXCEPT !.pc = pc] \in CallType
      BY <2>1 DEF CallType
    <3>2. call' = [call EXCEPT ![c] = [call[c] EXCEPT !.pc = pc]]
      BY DEF Goto
    <3> QED  BY <3>1, <3>2 DEF Shape
  <2>3. CASE ReadProposal(c)
    BY <2>2, <2>3 DEF ReadProposal, Shape, Running
  <2>4. CASE UpsertVote(c)
    BY <2>2, <2>4 DEF UpsertVote, Shape, Running
  <2>5. CASE CountBallots(c)
    <3>1. Verdict(Ballot(c).proposal, Seen(c)) \in {"pass", "reject", "open"}
      BY DEF Verdict
    <3> DEFINE v == Verdict(Ballot(c).proposal, Seen(c))
    <3> HIDE DEF v
    <3>2. call' = [call EXCEPT ![c].pc = "decide", ![c].verdict = v]
      BY <2>5 DEF CountBallots, v
    <3>3. v \in {"pass", "reject", "open"}
      BY <3>1 DEF v
    <3>4. [call[c] EXCEPT !.pc = "decide", !.verdict = v] \in CallType
      BY <2>1, <3>3 DEF CallType, Running
    <3>5. call' = [call EXCEPT ![c] = [call[c] EXCEPT !.pc = "decide", !.verdict = v]]
      BY <3>2
    <3>6. call' \in [Calls -> CallType]
      BY <3>4, <3>5 DEF Shape
    <3> QED  BY <2>5, <3>6 DEF CountBallots, Shape
  <2>6. CASE Decide(c)
    <3>1. call' \in [Calls -> CallType]
      BY <2>2, <2>6 DEF Decide
    <3>2. status' \in [Proposals -> Statuses]
      BY <2>1, <2>6 DEF Decide, SetStatus, Shape, Statuses
    <3>3. votes' = [p \in Proposals |-> votes'[p]]
      BY <2>1, <2>6 DEF Decide, Shape
    <3> QED  BY <2>6, <3>1, <3>2, <3>3 DEF Decide, Shape
  <2>7. CASE CallFails(c)
    BY <2>2, <2>7 DEF CallFails, Shape, Running
  <2> QED  BY <1>2, <2>3, <2>4, <2>5, <2>6, <2>7 DEF VoteStep
<1>3. ASSUME NEW p \in Proposals,
             CountActive(p) \/ CountVotes(p) \/ ClerkStep(p) \/ Deadline(p)
      PROVE  Shape'
  BY <1>3 DEF CountActive, CountVotes, ClerkStep, InsertProposal, CancelProposal,
              Deadline, SetStatus, Shape, Statuses
<1>4. ASSUME NEW p \in Proposals, Expire(p) PROVE Shape'
  BY <1>4 DEF Expire, ExpireTally, ExpireMark, ExpireExecute, ExpireRecord,
              SweepTo, SetStatus, Shape, Statuses
<1>5. CASE ListDue
  BY <1>5 DEF ListDue, Shape
<1>6. CASE OtherTransfer
  BY <1>6 DEF OtherTransfer, councilVars, Shape
<1>7. CASE SweepFails
  BY <1>7 DEF SweepFails, Shape
<1>8. CASE Restart
  <2>1. \A c \in Calls : [call[c] EXCEPT !.pc = "ended"] \in CallType
    BY CallsAreTyped DEF CallType
  <2>2. call' \in [Calls -> CallType]
    BY <1>8, <2>1 DEF Restart, Shape
  <2> QED  BY <1>8, <2>2 DEF Restart, Shape
<1> QED  BY <1>1, <1>2, <1>3, <1>4, <1>5, <1>6, <1>7, <1>8 DEF Next

-----------------------------------------------------------------------------
(* Payments *)

LEMMA NoPaymentUnlogged ==
    ASSUME UNCHANGED ledgerVars, NEW p \in Proposals
    PROVE  Payments(p)' = Payments(p)
BY DEF ledgerVars, Payments, PaymentIds

\* A payment for p is one for no other proposal.
LEMMA PayPays ==
    ASSUME NEW p \in Proposals, Pay(p)
    PROVE  /\ Payments(p)' # {}
           /\ \A q \in Proposals \ {p} : Payments(q)' = Payments(q)
<1> PICK b \in BegunBy(day) : Transfer(PaymentId(p), Payment[p], b, day)
  BY DEF Pay, TransferNow
<1> DEFINE row == AuditRow(PaymentId(p), Payment[p], b, day,
                           balance[Payment[p].to] + Payment[p].amount)
<1>1. log' = log \cup {row}
  BY DEF Transfer
<1>2. row.id = PaymentId(p)
  BY DEF AuditRow
<1> HIDE DEF row
<1>3. Payments(p)' # {}
  <2>1. CASE Payments(p) # {}
    BY <1>1, <2>1 DEF Payments, PaymentIds
  <2>2. CASE Payments(p) = {}
    <3>1. Cardinality(Payments(p)) = 0
      BY <2>2, FS_EmptySet
    <3>2. Cardinality(Calls) \in Nat
      BY CouncilBoundsAssumption, FS_CardinalityType
    <3>3. row.id \in PaymentIds(p)
      BY <1>2, <3>1, <3>2 DEF PaymentId, PaymentIds
    <3> QED  BY <1>1, <3>3 DEF Payments, PaymentIds
  <2> QED  BY <2>1, <2>2
<1>4. ASSUME NEW q \in Proposals \ {p} PROVE Payments(q)' = Payments(q)
  <2>1. row.id \notin PaymentIds(q)
    BY <1>2 DEF PaymentId, PaymentIds
  <2> QED  BY <1>1, <2>1 DEF Payments, PaymentIds
<1> QED  BY <1>3, <1>4

LEMMA OthersPayNobody ==
    ASSUME OtherTransfer, NEW p \in Proposals
    PROVE  Payments(p)' = Payments(p)
<1>1. PICK x \in OtherTxIds, r \in Requests : TransferNow(x, r) \/ AdjustNow(x, r)
  BY DEF OtherTransfer
<1>2. \E b : log' = log \cup {AuditRow(x, r, b, day, balance[r.to] + r.amount)}
  BY <1>1 DEF TransferNow, AdjustNow, Transfer, Adjust
<1>3. \A b : AuditRow(x, r, b, day, balance[r.to] + r.amount).id = x
  BY DEF AuditRow
<1>4. x \notin PaymentIds(p)
  BY CouncilTxIdsAssumption
<1> QED  BY <1>2, <1>3, <1>4 DEF Payments, PaymentIds

-----------------------------------------------------------------------------
(* The status and the ledger *)

\* What is known of one proposal: nothing is paid while it is open or does
\* not exist yet, and who is about to record an execution has paid.
StatusFits(p) ==
    /\ status[p] \in {"none", "open"} => Payments(p) = {}
    /\ status[p] = "executed" => Payments(p) # {}
    /\ sweep[p] # "idle" => status[p] # "none"
    /\ sweep[p] \in {"execute", "executed", "failed"} => status[p] # "open"
    /\ sweep[p] = "executed" => Payments(p) # {}
    /\ clerk[p] = "create" => status[p] = "none"

\* Only proposals that exist are voted on.
CallFits(c) ==
    call[c].pc \in Running => status[Ballot(c).proposal] # "none"

StatusInv ==
    /\ \A p \in Proposals : StatusFits(p)
    /\ \A c \in Calls : CallFits(c)

LEMMA StatusInit == Init => StatusInv
<1> SUFFICES ASSUME Init PROVE StatusInv
  OBVIOUS
<1>1. \A p \in Proposals : Payments(p) = {}
  BY DEF Init, LedgerInit, Payments
<1>2. \A p \in Proposals : StatusFits(p)
  BY <1>1 DEF Init, StatusFits
<1>3. \A c \in Calls : CallFits(c)
  BY DEF Init, CallFits, Running
<1> QED  BY <1>2, <1>3 DEF StatusInv

\* Once created, a proposal stays; and a call that begins to vote finds it.
LEMMA CallsStayFit ==
    ASSUME Shape, StatusInv,
           \A p \in Proposals : status[p] # "none" => status'[p] # "none",
           \A c \in Calls : /\ call'[c].ballot = call[c].ballot
                            /\ call'[c].pc \in Running =>
                                  \/ call[c].pc \in Running
                                  \/ status[Ballot(c).proposal] # "none"
    PROVE  \A c \in Calls : CallFits(c)'
BY CallsAreTyped DEF StatusInv, CallFits, Ballot

\* Steps that leave calls alone.
LEMMA CallsUntouched ==
    ASSUME Shape, StatusInv, UNCHANGED call,
           \A p \in Proposals : status[p] # "none" => status'[p] # "none"
    PROVE  \A c \in Calls : CallFits(c)'
BY CallsStayFit

LEMMA StatusVoteStep ==
    ASSUME Shape, StatusInv, NEW c \in Calls, VoteStep(c) \/ CallFails(c)
    PROVE  StatusInv'
<1> DEFINE p == Ballot(c).proposal
<1>1. p \in Proposals /\ call[c] \in CallType
  BY CallsAreTyped
<1>2. CASE ReadProposal(c) \/ UpsertVote(c) \/ CountBallots(c) \/ CallFails(c)
  <2>1. UNCHANGED <<ledgerVars, status, sweep, clerk>>
    BY <1>2 DEF ReadProposal, UpsertVote, CountBallots, CallFails
  <2>2. \A q \in Proposals : StatusFits(q)'
    BY <2>1, NoPaymentUnlogged DEF StatusInv, StatusFits
  <2>3. \A d \in Calls : /\ call'[d].ballot = call[d].ballot
                         /\ call'[d].pc \in Running =>
                               \/ call[d].pc \in Running
                               \/ status[Ballot(d).proposal] # "none"
    <3>1. CASE ReadProposal(c)
      BY <3>1, CallsAreTyped DEF ReadProposal, Goto, Shape, CallType
    <3>2. CASE UpsertVote(c)
      BY <3>2, CallsAreTyped DEF UpsertVote, Goto, Shape, CallType, Running
    <3>3. CASE CountBallots(c)
      BY <3>3, CallsAreTyped DEF CountBallots, Shape, CallType, Running
    <3>4. CASE CallFails(c)
      BY <3>4, CallsAreTyped DEF CallFails, Goto, Shape, CallType, Running
    <3> QED  BY <1>2, <3>1, <3>2, <3>3, <3>4
  <2>4. \A d \in Calls : CallFits(d)'
    BY <2>1, <2>3, CallsStayFit
  <2> QED  BY <2>2, <2>4 DEF StatusInv
<1>3. CASE Decide(c)
  <2>1. status[p] # "none"
    BY <1>3 DEF Decide, StatusInv, CallFits, Running
  <2>2. UNCHANGED <<sweep, clerk>>
    BY <1>3 DEF Decide
  <2>3. \A q \in Proposals : StatusFits(q)'
    <3>1. CASE Pay(p) /\ SetStatus(p, "executed")
      BY <1>1, <2>1, <2>2, <3>1, PayPays DEF SetStatus, Shape, StatusInv, StatusFits
    <3>2. CASE UNCHANGED ledgerVars /\ (SetStatus(p, "failed") \/ SetStatus(p, "rejected"))
      BY <1>1, <2>1, <2>2, <3>2, NoPaymentUnlogged
      DEF SetStatus, Shape, StatusInv, StatusFits
    <3>3. CASE UNCHANGED <<status, ledgerVars>>
      BY <2>2, <3>3, NoPaymentUnlogged DEF StatusInv, StatusFits
    <3> QED  BY <1>3, <3>1, <3>2, <3>3 DEF Decide
  <2>4. \A q \in Proposals : status[q] # "none" => status'[q] # "none"
    BY <1>1, <1>3 DEF Decide, SetStatus, Shape
  <2>5. \A d \in Calls : /\ call'[d].ballot = call[d].ballot
                         /\ call'[d].pc \in Running => call[d].pc \in Running
    BY <1>1, <1>3, CallsAreTyped DEF Decide, Goto, Shape, CallType, Running
  <2>6. \A d \in Calls : CallFits(d)'
    BY <2>4, <2>5, CallsStayFit
  <2> QED  BY <2>3, <2>6 DEF StatusInv
<1> QED  BY <1>2, <1>3 DEF VoteStep

LEMMA StatusProposalStep ==
    ASSUME Shape, StatusInv, NEW p \in Proposals,
           \/ CountActive(p) \/ CountVotes(p) \/ ClerkStep(p)
           \/ Expire(p) \/ Deadline(p)
    PROVE  StatusInv'
<1>1. StatusFits(p)
  BY DEF StatusInv
<1>2. UNCHANGED call
  BY DEF CountActive, CountVotes, ClerkStep, InsertProposal, CancelProposal,
         Expire, ExpireTally, ExpireMark, ExpireExecute, ExpireRecord, Deadline
<1>3. CASE ExpireExecute(p)
  <2>1. \A q \in Proposals : StatusFits(q)'
    <3>1. CASE Pay(p) /\ SweepTo(p, "executed")
      BY <1>1, <1>3, <3>1, PayPays
      DEF ExpireExecute, SweepTo, Shape, StatusInv, StatusFits
    <3>2. CASE UNCHANGED ledgerVars /\ SweepTo(p, "failed")
      BY <1>1, <1>3, <3>2, NoPaymentUnlogged
      DEF ExpireExecute, SweepTo, Shape, StatusInv, StatusFits
    <3> QED  BY <1>3, <3>1, <3>2 DEF ExpireExecute
  <2>2. UNCHANGED status
    BY <1>3 DEF ExpireExecute
  <2> QED  BY <1>2, <2>1, <2>2, CallsUntouched DEF StatusInv
<1>4. CASE CountActive(p) \/ CountVotes(p) \/ ClerkStep(p) \/ Deadline(p)
  <2>1. \A q \in Proposals : Payments(q)' = Payments(q)
    BY <1>4, NoPaymentUnlogged
    DEF CountActive, CountVotes, ClerkStep, InsertProposal, CancelProposal, Deadline
  <2>2. \A q \in Proposals : StatusFits(q)'
    BY <1>1, <1>4, <2>1
    DEF CountActive, CountVotes, ClerkStep, InsertProposal, CancelProposal,
        Deadline, SetStatus, Shape, StatusInv, StatusFits
  <2>3. \A q \in Proposals : status[q] # "none" => status'[q] # "none"
    BY <1>4 DEF CountActive, CountVotes, ClerkStep, InsertProposal,
                CancelProposal, Deadline, SetStatus, Shape
  <2> QED  BY <1>2, <2>2, <2>3, CallsUntouched DEF StatusInv
<1>5. CASE ExpireTally(p) \/ ExpireMark(p) \/ ExpireRecord(p)
  <2>1. \A q \in Proposals : Payments(q)' = Payments(q)
    BY <1>5, NoPaymentUnlogged DEF ExpireTally, ExpireMark, ExpireRecord
  <2>2. \A q \in Proposals : StatusFits(q)'
    BY <1>1, <1>5, <2>1
    DEF ExpireTally, ExpireMark, ExpireRecord, SweepTo, SetStatus, Shape,
        StatusInv, StatusFits
  <2>3. \A q \in Proposals : status[q] # "none" => status'[q] # "none"
    BY <1>5 DEF ExpireTally, ExpireMark, ExpireRecord, SetStatus, Shape
  <2> QED  BY <1>2, <2>2, <2>3, CallsUntouched DEF StatusInv
<1> QED  BY <1>3, <1>4, <1>5 DEF Expire

LEMMA StatusStep == Shape /\ StatusInv /\ [Next]_vars => StatusInv'
<1> SUFFICES ASSUME Shape, StatusInv, [Next]_vars PROVE StatusInv'
  OBVIOUS
<1>1. CASE UNCHANGED vars
  <2>1. UNCHANGED <<ledgerVars, status, sweep, clerk, call>>
    BY <1>1 DEF vars, councilVars
  <2>2. \A p \in Proposals : StatusFits(p)'
    BY <2>1, NoPaymentUnlogged DEF StatusInv, StatusFits
  <2> QED  BY <2>1, <2>2, CallsUntouched DEF StatusInv
<1>2. ASSUME NEW c \in Calls, VoteStep(c) \/ CallFails(c) PROVE StatusInv'
  BY <1>2, StatusVoteStep
<1>3. ASSUME NEW p \in Proposals,
             \/ CountActive(p) \/ CountVotes(p) \/ ClerkStep(p)
             \/ Expire(p) \/ Deadline(p)
      PROVE  StatusInv'
  BY <1>3, StatusProposalStep
<1>4. CASE OtherTransfer
  <2>1. UNCHANGED <<status, sweep, clerk, call>>
    BY <1>4 DEF OtherTransfer, councilVars
  <2>2. \A p \in Proposals : StatusFits(p)'
    BY <1>4, <2>1, OthersPayNobody DEF StatusInv, StatusFits
  <2> QED  BY <2>1, <2>2, CallsUntouched DEF StatusInv
<1>5. CASE ListDue \/ SweepFails
  <2>1. UNCHANGED <<ledgerVars, status, clerk, call>>
    BY <1>5 DEF ListDue, SweepFails
  <2>2. \A p \in Proposals : StatusFits(p)'
    BY <1>5, <2>1, NoPaymentUnlogged
    DEF ListDue, SweepFails, Open, Shape, StatusInv, StatusFits
  <2> QED  BY <2>1, <2>2, CallsUntouched DEF StatusInv
<1>6. CASE Restart
  <2>1. UNCHANGED <<ledgerVars, status>>
    BY <1>6 DEF Restart
  <2>2. \A p \in Proposals : StatusFits(p)'
    BY <1>6, <2>1, NoPaymentUnlogged DEF Restart, Shape, StatusInv, StatusFits
  <2>3. \A c \in Calls : /\ call'[c].ballot = call[c].ballot
                         /\ call'[c].pc \in Running => call[c].pc \in Running
    BY <1>6, CallsAreTyped DEF Restart, CallType
  <2>4. \A c \in Calls : CallFits(c)'
    BY <2>1, <2>3, CallsStayFit
  <2> QED  BY <2>2, <2>4 DEF StatusInv
<1> QED  BY <1>1, <1>2, <1>3, <1>4, <1>5, <1>6 DEF Next

(***************************************************************************)
(* A proposal recorded as executed, by a vote or by the scheduler, has an  *)
(* audit row.                                                              *)
(***************************************************************************)
THEOREM Executed == Spec => []ExecutedMeansPaid
<1>1. StatusInv => ExecutedMeansPaid
  BY DEF StatusInv, StatusFits, ExecutedMeansPaid
<1> QED  BY <1>1, ShapeInit, ShapeStep, StatusInit, StatusStep, PTL DEF Spec

(***************************************************************************)
(* Nothing is paid for an open proposal, whatever votes, the scheduler,    *)
(* cancellations and failures do and in whichever order.                   *)
(***************************************************************************)
THEOREM Unpaid == Spec => []OpenIsUnpaid
<1>1. StatusInv => OpenIsUnpaid
  BY DEF StatusInv, StatusFits, OpenIsUnpaid, Open
<1> QED  BY <1>1, ShapeInit, ShapeStep, StatusInit, StatusStep, PTL DEF Spec

-----------------------------------------------------------------------------
(* Majorities *)

Majority(p, S) == 2 * Cardinality(S \cap Snapshot[p]) > Cardinality(Snapshot[p])

\* The approval of a call that has not committed yet.
Own(c) == IF Ballot(c).choice = "approve" THEN {Ballot(c).voter} ELSE {}

LEMMA MajorityGrows ==
    ASSUME NEW p \in Proposals, NEW S, NEW T, S \subseteq T, Majority(p, S)
    PROVE  Majority(p, T)
<1>1. IsFiniteSet(Snapshot[p])
  BY SnapshotAssumption
<1>2. IsFiniteSet(T \cap Snapshot[p])
  BY <1>1, FS_Intersection
<1>3. S \cap Snapshot[p] \in SUBSET (T \cap Snapshot[p])
  OBVIOUS
<1>4. Cardinality(S \cap Snapshot[p]) <= Cardinality(T \cap Snapshot[p])
  BY <1>2, <1>3, FS_Subset
<1>5. /\ Cardinality(Snapshot[p]) \in Nat
      /\ Cardinality(T \cap Snapshot[p]) \in Nat
      /\ Cardinality(S \cap Snapshot[p]) \in Nat
  BY <1>1, <1>2, <1>3, FS_Subset, FS_CardinalityType
<1> QED  BY <1>4, <1>5 DEF Majority

\* The threshold is a majority of the snapshot, of even and of odd size.
LEMMA ThresholdIsMajority ==
    ASSUME NEW p \in Proposals, NEW ballots, DOMAIN ballots \subseteq Snapshot[p],
           Verdict(p, ballots) = "pass", NEW S,
           \A v \in DOMAIN ballots : ballots[v] = "approve" => v \in S
    PROVE  Majority(p, S)
<1> DEFINE A == {v \in DOMAIN ballots : ballots[v] = "approve"}
<1>1. IsFiniteSet(Snapshot[p])
  BY SnapshotAssumption
<1>2. A \cap Snapshot[p] = A /\ A \in SUBSET Snapshot[p] /\ A \subseteq S
  OBVIOUS
<1>3. Cardinality(A) >= Cardinality(Snapshot[p]) \div 2 + 1
  BY DEF Verdict, Count, Threshold
<1>4. Cardinality(Snapshot[p]) \in Nat /\ Cardinality(A) \in Nat
  BY <1>1, <1>2, FS_Subset, FS_CardinalityType
<1> HIDE DEF A
<1>5. \A n, a \in Nat : a >= n \div 2 + 1 => 2 * a > n
  OBVIOUS
<1>6. 2 * Cardinality(A) > Cardinality(Snapshot[p])
  BY <1>3, <1>4, <1>5
<1>7. Majority(p, A)
  BY <1>2, <1>6 DEF Majority
<1> QED  BY <1>2, <1>7, MajorityGrows

\* Every decision to pay p, from the tally to the audit row, has a majority
\* of committed approvals behind it, or of those and the one of its own call.
ProposalBacked(p) ==
    /\ DOMAIN votes[p] \subseteq Snapshot[p]
    /\ \A v \in DOMAIN votes[p] : votes[p][v] = "approve" => v \in Approvers(p)
    /\ sweep[p] \in {"pass", "execute"} => Majority(p, Approvers(p))
    /\ Payments(p) # {} => Majority(p, Approvers(p))

CallBacked(c) ==
    /\ call[c].pc \in Running => Ballot(c).voter \in Snapshot[Ballot(c).proposal]
    /\ call[c].pc = "decide" /\ call[c].verdict = "pass" =>
          Majority(Ballot(c).proposal, Approvers(Ballot(c).proposal) \cup Own(c))

BackedInv ==
    /\ \A p \in Proposals : ProposalBacked(p)
    /\ \A c \in Calls : CallBacked(c)

LEMMA BackedInit == Init => BackedInv
<1> SUFFICES ASSUME Init PROVE BackedInv
  OBVIOUS
<1>1. \A p \in Proposals : Payments(p) = {} /\ DOMAIN votes[p] = {}
  BY DEF Init, LedgerInit, Payments
<1>2. \A p \in Proposals : ProposalBacked(p)
  BY <1>1 DEF Init, ProposalBacked
<1>3. \A c \in Calls : CallBacked(c)
  BY DEF Init, CallBacked, Running
<1> QED  BY <1>2, <1>3 DEF BackedInv

-----------------------------------------------------------------------------
(* Approvals are never taken back *)

CallsKept ==
    \A c \in Calls : /\ call'[c].ballot = call[c].ballot
                     /\ call[c].pc = "voted" => call'[c].pc = "voted"

LEMMA ApproversGrow ==
    ASSUME CallsKept, NEW p \in Proposals
    PROVE  Approvers(p) \subseteq Approvers(p)'
BY DEF CallsKept, Approvers, Ballot

LEMMA CallsAreKept == Shape /\ [Next]_vars => CallsKept
<1> SUFFICES ASSUME Shape, [Next]_vars PROVE CallsKept
  OBVIOUS
<1>1. CASE UNCHANGED call
  BY <1>1 DEF CallsKept
<1>2. ASSUME NEW c \in Calls, VoteStep(c) \/ CallFails(c) PROVE CallsKept
  <2>1. CASE ReadProposal(c)
    BY <2>1, CallsAreTyped DEF ReadProposal, Goto, Shape, CallType, CallsKept
  <2>2. CASE UpsertVote(c)
    BY <2>2, CallsAreTyped DEF UpsertVote, Goto, Shape, CallType, CallsKept
  <2>3. CASE CountBallots(c)
    BY <2>3, CallsAreTyped DEF CountBallots, Shape, CallType, CallsKept
  <2>4. CASE Decide(c)
    BY <2>4, CallsAreTyped DEF Decide, Goto, Shape, CallType, CallsKept
  <2>5. CASE CallFails(c)
    BY <2>5, CallsAreTyped DEF CallFails, Goto, Shape, CallType, CallsKept, Running
  <2> QED  BY <1>2, <2>1, <2>2, <2>3, <2>4, <2>5 DEF VoteStep
<1>3. CASE Restart
  BY <1>3, CallsAreTyped DEF Restart, CallType, CallsKept, Running
<1>4. \/ UNCHANGED call \/ Restart
      \/ \E c \in Calls : VoteStep(c) \/ CallFails(c)
  BY DEF Next, vars, councilVars, CountActive, CountVotes, ClerkStep,
         InsertProposal, CancelProposal, Expire, ExpireTally, ExpireMark,
         ExpireExecute, ExpireRecord, Deadline, ListDue, OtherTransfer, SweepFails
<1> QED  BY <1>1, <1>2, <1>3, <1>4

-----------------------------------------------------------------------------
(* Every step keeps its backing *)

\* A proposal nobody stores a vote for, pays for or decides on.
LEMMA ProposalStaysBacked ==
    ASSUME BackedInv, CallsKept, NEW p \in Proposals,
           votes'[p] = votes[p],
           sweep'[p] \in {"pass", "execute"} => Majority(p, Approvers(p)),
           Payments(p)' # {} => Majority(p, Approvers(p))
    PROVE  ProposalBacked(p)'
<1>1. Approvers(p) \subseteq Approvers(p)'
  BY ApproversGrow
<1>2. Majority(p, Approvers(p)) => Majority(p, Approvers(p)')
  BY <1>1, MajorityGrows
<1>3. Majority(p, Approvers(p))' <=> Majority(p, Approvers(p)')
  BY DEF Majority
<1> QED  BY <1>1, <1>2, <1>3 DEF BackedInv, ProposalBacked

\* A call whose voter and whose tally are backed by what was committed before.
LEMMA CallStaysBacked ==
    ASSUME Shape, CallsKept, NEW c \in Calls,
           call'[c].pc \in Running => Ballot(c).voter \in Snapshot[Ballot(c).proposal],
           call'[c].pc = "decide" /\ call'[c].verdict = "pass" =>
               Majority(Ballot(c).proposal, Approvers(Ballot(c).proposal) \cup Own(c))
    PROVE  CallBacked(c)'
<1> DEFINE p == Ballot(c).proposal
<1>1. p \in Proposals /\ Ballot(c)' = Ballot(c)
  BY CallsAreTyped DEF CallsKept, Ballot
<1>2. Approvers(p) \cup Own(c) \subseteq Approvers(p)' \cup Own(c)
  BY <1>1, ApproversGrow
<1>3. Majority(p, Approvers(p) \cup Own(c)) => Majority(p, Approvers(p)' \cup Own(c))
  BY <1>1, <1>2, MajorityGrows
<1>4. Own(c)' = Own(c)
  BY <1>1 DEF Own
<1>5. Majority(p, Approvers(p) \cup Own(c))' <=> Majority(p, Approvers(p)' \cup Own(c))
  BY <1>1, <1>4 DEF Majority, Approvers
<1> QED  BY <1>1, <1>3, <1>4, <1>5 DEF CallBacked, Majority, Approvers

\* A call that neither begins nor counts in this step.
LEMMA IdleCallStaysBacked ==
    ASSUME Shape, BackedInv, CallsKept, NEW c \in Calls,
           call'[c].pc \in Running => call[c].pc \in Running,
           call'[c].pc = "decide" => call[c] = call'[c]
    PROVE  CallBacked(c)'
BY CallStaysBacked DEF BackedInv, CallBacked

LEMMA BackedVoteStep ==
    ASSUME Shape, BackedInv, CallsKept, NEW c \in Calls, VoteStep(c) \/ CallFails(c)
    PROVE  BackedInv'
<1>0. PICK p \in Proposals : p = Ballot(c).proposal
  BY CallsAreTyped
<1>1. p = Ballot(c).proposal /\ call[c] \in CallType
  BY <1>0, CallsAreTyped
<1>2. \A d \in Calls \ {c} : CallBacked(d)'
  <2>1. \A d \in Calls \ {c} : call'[d] = call[d]
    BY <1>1 DEF VoteStep, ReadProposal, UpsertVote, CountBallots, Decide,
                CallFails, Goto, Shape
  <2> QED  BY <2>1, IdleCallStaysBacked
<1>3. CASE ReadProposal(c) \/ UpsertVote(c) \/ CountBallots(c) \/ CallFails(c)
  <2>1. UNCHANGED <<ledgerVars, votes, sweep>>
    BY <1>3 DEF ReadProposal, UpsertVote, CountBallots, CallFails
  <2>2. \A q \in Proposals : ProposalBacked(q)'
    BY <2>1, NoPaymentUnlogged, ProposalStaysBacked DEF BackedInv, ProposalBacked
  <2>3. CallBacked(c)'
    <3>1. CASE ReadProposal(c)
      <4>1. call'[c].pc \in Running => Ballot(c).voter \in Snapshot[p]
        BY <1>1, <3>1 DEF ReadProposal, Goto, Shape, CallType, Running
      <4>2. call'[c].pc # "decide"
        BY <1>1, <3>1 DEF ReadProposal, Goto, Shape, CallType
      <4> QED  BY <1>1, <4>1, <4>2, CallStaysBacked
    <3>2. CASE UpsertVote(c)
      BY <1>1, <3>2, IdleCallStaysBacked
      DEF UpsertVote, Goto, Shape, CallType, Running
    <3>3. CASE CountBallots(c)
      <4>1. Ballot(c).voter \in Snapshot[p]
        BY <1>1, <3>3 DEF CountBallots, BackedInv, CallBacked, Running
      <4>2. DOMAIN Seen(c) \subseteq Snapshot[p]
        BY <1>1, <4>1 DEF Seen, Cast, BackedInv, ProposalBacked
      <4>3. \A v \in DOMAIN Seen(c) :
               Seen(c)[v] = "approve" => v \in Approvers(p) \cup Own(c)
        BY <1>1 DEF Seen, Cast, Own, BackedInv, ProposalBacked
      <4>4. Verdict(p, Seen(c)) = "pass" => Majority(p, Approvers(p) \cup Own(c))
        BY <1>1, <4>2, <4>3, ThresholdIsMajority
      <4> DEFINE w == Verdict(p, Seen(c))
      <4>5. call'[c].verdict = w
        <5> HIDE DEF w
        <5>1. call' = [call EXCEPT ![c].pc = "decide", ![c].verdict = w]
          BY <1>1, <3>3 DEF CountBallots, w
        <5> QED  BY <1>1, <5>1 DEF Shape, CallType
      <4> QED  BY <1>1, <4>1, <4>4, <4>5, CallStaysBacked
    <3>4. CASE CallFails(c)
      BY <1>1, <3>4, IdleCallStaysBacked
      DEF CallFails, Goto, Shape, CallType, Running
    <3> QED  BY <1>3, <3>1, <3>2, <3>3, <3>4
  <2> QED  BY <1>2, <2>2, <2>3 DEF BackedInv
<1>4. CASE Decide(c)
  <2>1. call'[c].pc = "voted" /\ UNCHANGED sweep
    BY <1>1, <1>4 DEF Decide, Goto, Shape, CallType
  <2>2. CallBacked(c)'
    BY <2>1, IdleCallStaysBacked DEF Running
  <2>3. \A q \in Proposals \ {p} : ProposalBacked(q)'
    <3>1. \A q \in Proposals \ {p} : votes'[q] = votes[q]
      BY <1>1, <1>4 DEF Decide, Shape
    <3>2. \A q \in Proposals \ {p} : Payments(q)' = Payments(q)
      BY <1>1, <1>4, PayPays, NoPaymentUnlogged DEF Decide, ledgerVars
    <3> QED  BY <2>1, <3>1, <3>2, ProposalStaysBacked DEF BackedInv, ProposalBacked
  <2>4. ProposalBacked(p)'
    <3>1. Approvers(p) \subseteq Approvers(p)'
      BY <1>1, ApproversGrow
    <3>2. Own(c) \subseteq Approvers(p)'
      BY <1>1, <2>1 DEF Own, Approvers, Ballot, CallsKept
    <3>3. votes'[p] = Seen(c)
      BY <1>1, <1>4 DEF Decide, Shape
    <3>4. Ballot(c).voter \in Snapshot[p]
      BY <1>1, <1>4 DEF Decide, BackedInv, CallBacked, Running
    <3>5. DOMAIN Seen(c) \subseteq Snapshot[p]
      BY <1>1, <3>4 DEF Seen, Cast, BackedInv, ProposalBacked
    <3>6. \A v \in DOMAIN Seen(c) : Seen(c)[v] = "approve" => v \in Approvers(p)'
      BY <1>1, <3>1, <3>2 DEF Seen, Cast, Own, BackedInv, ProposalBacked
    <3>7. Majority(p, Approvers(p)) => Majority(p, Approvers(p)')
      BY <1>1, <3>1, MajorityGrows
    <3>8. Majority(p, Approvers(p) \cup Own(c)) => Majority(p, Approvers(p)')
      BY <1>1, <3>1, <3>2, MajorityGrows
    <3>9. Payments(p)' # {} => Majority(p, Approvers(p)')
      <4>1. CASE call[c].verdict = "pass"
        BY <1>1, <1>4, <3>8, <4>1 DEF Decide, BackedInv, CallBacked
      <4>2. CASE UNCHANGED ledgerVars
        BY <1>1, <3>7, <4>2, NoPaymentUnlogged DEF BackedInv, ProposalBacked
      <4> QED  BY <1>4, <4>1, <4>2 DEF Decide, ledgerVars
    <3>10. sweep'[p] \in {"pass", "execute"} => Majority(p, Approvers(p)')
      BY <1>1, <2>1, <3>7 DEF BackedInv, ProposalBacked
    <3> QED  BY <3>3, <3>5, <3>6, <3>9, <3>10 DEF ProposalBacked, Majority
  <2> QED  BY <1>2, <2>2, <2>3, <2>4 DEF BackedInv, CallsKept, Ballot
<1> QED  BY <1>3, <1>4 DEF VoteStep

\* Steps that leave calls and votes alone.
LEMMA BackedSilentStep ==
    ASSUME Shape, BackedInv, CallsKept, UNCHANGED <<call, votes>>,
           \A p \in Proposals :
              /\ sweep'[p] \in {"pass", "execute"} => Majority(p, Approvers(p))
              /\ Payments(p)' # {} => Majority(p, Approvers(p))
    PROVE  BackedInv'
<1>1. \A p \in Proposals : ProposalBacked(p)'
  BY ProposalStaysBacked
<1>2. \A c \in Calls : CallBacked(c)'
  BY IdleCallStaysBacked
<1> QED  BY <1>1, <1>2 DEF BackedInv

LEMMA BackedExpireStep ==
    ASSUME Shape, BackedInv, CallsKept, NEW p \in Proposals, Expire(p)
    PROVE  BackedInv'
<1>1. UNCHANGED <<call, votes>>
  BY DEF Expire, ExpireTally, ExpireMark, ExpireExecute, ExpireRecord
<1>2. ProposalBacked(p)
  BY DEF BackedInv
<1>3. \A q \in Proposals \ {p} :
         /\ sweep'[q] = sweep[q]
         /\ Payments(q)' = Payments(q)
  BY PayPays, NoPaymentUnlogged
  DEF Expire, ExpireTally, ExpireMark, ExpireExecute, ExpireRecord, SweepTo, Shape
<1>4. /\ sweep'[p] \in {"pass", "execute"} => Majority(p, Approvers(p))
      /\ Payments(p)' # {} => Majority(p, Approvers(p))
  <2>1. CASE ExpireTally(p)
    <3>1. Verdict(p, votes[p]) = "pass" => Majority(p, Approvers(p))
      BY <1>2, ThresholdIsMajority DEF ProposalBacked
    <3>2. Payments(p)' = Payments(p)
      BY <2>1, NoPaymentUnlogged DEF ExpireTally
    <3>3. sweep'[p] \in {"pass", "execute"} => Verdict(p, votes[p]) = "pass"
      BY <2>1 DEF ExpireTally, SweepTo, Shape
    <3> QED  BY <1>2, <3>1, <3>2, <3>3 DEF ProposalBacked
  <2>2. CASE ExpireMark(p) \/ ExpireRecord(p)
    <3>1. Payments(p)' = Payments(p)
      BY <2>2, NoPaymentUnlogged DEF ExpireMark, ExpireRecord
    <3>2. sweep'[p] \in {"pass", "execute"} => sweep[p] \in {"pass", "execute"}
      BY <2>2 DEF ExpireMark, ExpireRecord, SweepTo, Shape
    <3> QED  BY <1>2, <3>1, <3>2 DEF ProposalBacked
  <2>3. CASE ExpireExecute(p)
    <3>1. sweep[p] = "execute" /\ sweep'[p] \in {"executed", "failed"}
      BY <2>3 DEF ExpireExecute, SweepTo, Shape
    <3> QED  BY <1>2, <3>1 DEF ProposalBacked
  <2> QED  BY <2>1, <2>2, <2>3 DEF Expire
<1>5. \A q \in Proposals :
         /\ sweep'[q] \in {"pass", "execute"} => Majority(q, Approvers(q))
         /\ Payments(q)' # {} => Majority(q, Approvers(q))
  BY <1>3, <1>4 DEF BackedInv, ProposalBacked
<1> QED  BY <1>1, <1>5, BackedSilentStep

LEMMA BackedStep == Shape /\ BackedInv /\ [Next]_vars => BackedInv'
<1> SUFFICES ASSUME Shape, BackedInv, [Next]_vars PROVE BackedInv'
  OBVIOUS
<1>1. CallsKept
  BY CallsAreKept
<1>2. ASSUME NEW c \in Calls, VoteStep(c) \/ CallFails(c) PROVE BackedInv'
  BY <1>1, <1>2, BackedVoteStep
<1>3. ASSUME NEW p \in Proposals, Expire(p) PROVE BackedInv'
  BY <1>1, <1>3, BackedExpireStep
<1>4. CASE UNCHANGED vars \/ OtherTransfer
           \/ \E p \in Proposals :
                 CountActive(p) \/ CountVotes(p) \/ ClerkStep(p) \/ Deadline(p)
  <2>1. UNCHANGED <<call, votes, sweep>>
    BY <1>4 DEF vars, councilVars, OtherTransfer, CountActive, CountVotes,
                ClerkStep, InsertProposal, CancelProposal, Deadline
  <2>2. \A p \in Proposals : Payments(p)' = Payments(p)
    <3>1. UNCHANGED ledgerVars \/ OtherTransfer
      BY <1>4 DEF vars, CountActive, CountVotes, ClerkStep, InsertProposal,
                  CancelProposal, Deadline
    <3> QED  BY <3>1, NoPaymentUnlogged, OthersPayNobody
  <2> QED  BY <1>1, <2>1, <2>2, BackedSilentStep DEF BackedInv, ProposalBacked
<1>5. CASE ListDue \/ SweepFails
  <2>1. UNCHANGED <<ledgerVars, call, votes>>
    BY <1>5 DEF ListDue, SweepFails
  <2>2. \A p \in Proposals : sweep'[p] \notin {"pass", "execute"}
    BY <1>5 DEF ListDue, SweepFails
  <2> QED  BY <1>1, <2>1, <2>2, NoPaymentUnlogged, BackedSilentStep
           DEF BackedInv, ProposalBacked
<1>6. CASE Restart
  <2>1. UNCHANGED <<ledgerVars, votes>>
        /\ \A p \in Proposals : sweep'[p] = "idle"
    BY <1>6 DEF Restart
  <2>2. \A p \in Proposals : ProposalBacked(p)'
    BY <1>1, <2>1, NoPaymentUnlogged, ProposalStaysBacked
    DEF BackedInv, ProposalBacked
  <2>3. \A c \in Calls : call'[c].pc \notin Running
    BY <1>6, CallsAreTyped DEF Restart, CallType, Running
  <2>4. \A c \in Calls : CallBacked(c)'
    BY <1>1, <2>3, IdleCallStaysBacked DEF Running
  <2> QED  BY <2>2, <2>4 DEF BackedInv
<1> QED  BY <1>2, <1>3, <1>4, <1>5, <1>6 DEF Next

(***************************************************************************)
(* Whatever votes, changed votes, the scheduler and failures do and in     *)
(* whichever order, a payment for a proposal has the committed approval of *)
(* more than half of its snapshot, although tallies are stale when used.   *)
(***************************************************************************)
THEOREM Backed == Spec => []PaidHadMajority
<1>1. BackedInv => PaidHadMajority
  BY DEF BackedInv, ProposalBacked, PaidHadMajority, Majority
<1> QED  BY <1>1, ShapeInit, ShapeStep, BackedInit, BackedStep, PTL DEF Spec

-----------------------------------------------------------------------------
(* Payments per proposal *)

\* The calls that have committed a vote on p: each has paid at most once.
Committed(p) == {c \in Calls : call[c].pc = "voted" /\ Ballot(c).proposal = p}

\* The scheduler may still pay p once: p can be listed, or is being handled.
Listable(p) ==
    status[p] \in {"none", "open"} \/ sweep[p] \in {"listed", "pass", "execute"}

Allowance(p) == IF Listable(p) THEN 1 ELSE 0

Budgeted(p) ==
    /\ IsFiniteSet(Payments(p))
    /\ Cardinality(Payments(p)) + Allowance(p) <= 1 + Cardinality(Committed(p))

BudgetInv == \A p \in Proposals : Budgeted(p)

LEMMA CommittedAreCounted ==
    ASSUME NEW p \in Proposals
    PROVE  /\ Cardinality(Calls) \in Nat
           /\ Cardinality(Committed(p)) \in Nat
           /\ Cardinality(Committed(p)) <= Cardinality(Calls)
<1>1. IsFiniteSet(Calls) /\ Committed(p) \in SUBSET Calls
  BY CouncilBoundsAssumption DEF Committed
<1> QED
  BY <1>1, FS_Subset, FS_CardinalityType

LEMMA CommittedGrow ==
    ASSUME CallsKept, NEW p \in Proposals
    PROVE  Cardinality(Committed(p)) <= Cardinality(Committed(p)')
<1>1. Committed(p) \in SUBSET (Committed(p)') /\ Committed(p)' \in SUBSET Calls
  BY DEF CallsKept, Committed, Ballot
<1>2. IsFiniteSet(Committed(p)')
  BY <1>1, CouncilBoundsAssumption, FS_Subset
<1> QED
  BY <1>1, <1>2, FS_Subset

\* A proposal that is not paid for in this step.
LEMMA UnpaidStaysBudgeted ==
    ASSUME CallsKept, NEW p \in Proposals, Budgeted(p),
           Payments(p)' = Payments(p), Listable(p)' => Listable(p)
    PROVE  Budgeted(p)'
<1> PICK was : was = Payments(p)
  OBVIOUS
<1> PICK m : m = Cardinality(Committed(p))
  OBVIOUS
<1> PICK n : n = Cardinality(Committed(p)')
  OBVIOUS
<1>1. m \in Nat /\ m <= n
  BY CommittedAreCounted, CommittedGrow
<1>2. n \in Nat
  <2>1. Committed(p)' \in SUBSET Calls
    BY DEF Committed
  <2> QED
    BY <2>1, CouncilBoundsAssumption, FS_Subset, FS_CardinalityType
<1>3. IsFiniteSet(was) /\ Cardinality(was) \in Nat
  BY FS_CardinalityType DEF Budgeted
<1>4. Allowance(p)' <= Allowance(p) /\ Allowance(p) \in 0..1 /\ Allowance(p)' \in 0..1
  BY DEF Allowance
<1>5. Cardinality(was) + Allowance(p) <= 1 + m
  BY DEF Budgeted
<1>6. Cardinality(was) + Allowance(p)' <= 1 + n
  BY <1>1, <1>2, <1>3, <1>4, <1>5
<1>7. Cardinality(Payments(p)') = Cardinality(was)
  OBVIOUS
<1> QED
  BY <1>3, <1>6, <1>7 DEF Budgeted

LEMMA PayAddsOneRow ==
    ASSUME NEW p \in Proposals, Pay(p), IsFiniteSet(Payments(p))
    PROVE  /\ IsFiniteSet(Payments(p)')
           /\ Cardinality(Payments(p)') \in Nat
           /\ Cardinality(Payments(p)') <= Cardinality(Payments(p)) + 1
<1> PICK b \in BegunBy(day) : Transfer(PaymentId(p), Payment[p], b, day)
  BY DEF Pay, TransferNow
<1> PICK row : row = AuditRow(PaymentId(p), Payment[p], b, day,
                              balance[Payment[p].to] + Payment[p].amount)
  OBVIOUS
<1> PICK was : was = Payments(p)
  OBVIOUS
<1>1. log' = log \cup {row}
  BY DEF Transfer
<1>2. Payments(p)' \in SUBSET (was \cup {row})
  BY <1>1 DEF Payments, PaymentIds
<1>3. /\ IsFiniteSet(was \cup {row})
      /\ \/ Cardinality(was \cup {row}) = Cardinality(was)
         \/ Cardinality(was \cup {row}) = Cardinality(was) + 1
  BY FS_AddElement
<1>4. /\ IsFiniteSet(Payments(p)')
      /\ Cardinality(Payments(p)') <= Cardinality(was \cup {row})
  BY <1>2, <1>3, FS_Subset
<1>5. /\ Cardinality(Payments(p)') \in Nat /\ Cardinality(was) \in Nat
      /\ Cardinality(was \cup {row}) \in Nat
  BY <1>3, <1>4, FS_CardinalityType
<1> QED
  BY <1>3, <1>4, <1>5

\* A call pays, and is then among those that have committed.
LEMMA DecideStaysBudgeted ==
    ASSUME Shape, CallsKept, NEW c \in Calls, Decide(c), BudgetInv
    PROVE  BudgetInv'
<1> PICK p \in Proposals : p = Ballot(c).proposal
  BY CallsAreTyped
<1>0. p = Ballot(c).proposal /\ call[c] \in CallType
  BY CallsAreTyped
<1>1. \A q \in Proposals : Listable(q)' => Listable(q)
  BY <1>0 DEF Decide, SetStatus, Shape, Listable
<1>2. \A q \in Proposals \ {p} : Payments(q)' = Payments(q)
  <2>1. Pay(p) \/ UNCHANGED ledgerVars
    BY <1>0 DEF Decide
  <2> QED
    BY <2>1, PayPays, NoPaymentUnlogged
<1>3. \A q \in Proposals \ {p} : Budgeted(q)'
  BY <1>1, <1>2, UnpaidStaysBudgeted DEF BudgetInv
<1>4. Budgeted(p)'
  <2>1. CASE UNCHANGED ledgerVars
    <3>1. Payments(p)' = Payments(p)
      BY <2>1, NoPaymentUnlogged
    <3>2. Budgeted(p)
      BY DEF BudgetInv
    <3> QED
      BY <1>1, <3>1, <3>2, UnpaidStaysBudgeted
  <2>2. CASE Pay(p)
    <3> PICK was : was = Committed(p)
      OBVIOUS
    <3> PICK now : now = Committed(p)'
      OBVIOUS
    <3> PICK n : n = Cardinality(Payments(p))
      OBVIOUS
    <3> PICK m : m = Cardinality(Payments(p)')
      OBVIOUS
    <3>1. call'[c].pc = "voted" /\ call[c].pc = "decide" /\ call'[c].ballot = call[c].ballot
      BY <1>0 DEF Decide, Goto, Shape, CallType
    <3>2. c \notin was /\ was \cup {c} \in SUBSET now /\ now \in SUBSET Calls
      BY <1>0, <3>1 DEF Committed, CallsKept, Ballot
    <3>3. IsFiniteSet(now) /\ IsFiniteSet(was)
      <4>1. was \in SUBSET Calls
        BY DEF Committed
      <4> QED
        BY <3>2, <4>1, CouncilBoundsAssumption, FS_Subset
    <3>4. Cardinality(was \cup {c}) = Cardinality(was) + 1
      BY <3>2, <3>3, FS_AddElement
    <3>5. /\ Cardinality(was \cup {c}) <= Cardinality(now)
          /\ Cardinality(was) \in Nat /\ Cardinality(now) \in Nat
      BY <3>2, <3>3, FS_Subset, FS_CardinalityType
    <3>6. Budgeted(p)
      BY DEF BudgetInv
    <3>7. IsFiniteSet(Payments(p)) /\ n \in Nat /\ n + Allowance(p) <= 1 + Cardinality(was)
      BY <3>6, FS_CardinalityType DEF Budgeted
    <3>8. IsFiniteSet(Payments(p)') /\ m \in Nat /\ m <= n + 1
      BY <2>2, <3>7, PayAddsOneRow
    <3>9. Allowance(p)' <= Allowance(p) /\ Allowance(p) \in 0..1 /\ Allowance(p)' \in 0..1
      BY <1>1 DEF Allowance
    <3>10. m + Allowance(p)' <= 1 + Cardinality(now)
      BY <3>4, <3>5, <3>7, <3>8, <3>9
    <3> QED
      BY <3>8, <3>10 DEF Budgeted
  <2> QED
    BY <1>0, <2>1, <2>2 DEF Decide
<1> QED
  BY <1>3, <1>4 DEF BudgetInv

\* The scheduler pays, and cannot list the proposal again.
LEMMA ExecuteStaysBudgeted ==
    ASSUME Shape, StatusInv, CallsKept, NEW p \in Proposals, ExpireExecute(p), BudgetInv
    PROVE  BudgetInv'
<1>1. \A q \in Proposals : Listable(q)' => Listable(q)
  BY DEF ExpireExecute, SweepTo, Shape, Listable
<1>2. \A q \in Proposals \ {p} : Payments(q)' = Payments(q)
  BY PayPays, NoPaymentUnlogged DEF ExpireExecute
<1>3. \A q \in Proposals \ {p} : Budgeted(q)'
  BY <1>1, <1>2, UnpaidStaysBudgeted DEF BudgetInv
<1>4. Budgeted(p)
  BY DEF BudgetInv
<1>5. Budgeted(p)'
  <2>1. CASE UNCHANGED ledgerVars
    <3>1. Payments(p)' = Payments(p)
      BY <2>1, NoPaymentUnlogged
    <3> QED
      BY <1>1, <1>4, <3>1, UnpaidStaysBudgeted
  <2>2. CASE Pay(p)
    <3> PICK n : n = Cardinality(Payments(p))
      OBVIOUS
    <3> PICK m : m = Cardinality(Payments(p)')
      OBVIOUS
    <3> PICK k : k = Cardinality(Committed(p))
      OBVIOUS
    <3>1. Listable(p)
      BY DEF ExpireExecute, Listable
    <3>2. ~Listable(p)'
      <4>1. status[p] \notin {"none", "open"} /\ status' = status
        BY DEF ExpireExecute, StatusInv, StatusFits
      <4>2. sweep'[p] \in {"executed", "failed"}
        BY DEF ExpireExecute, SweepTo, Shape
      <4> QED
        BY <4>1, <4>2 DEF Listable
    <3>3. IsFiniteSet(Payments(p)) /\ n \in Nat /\ n + 1 <= 1 + k /\ k \in Nat
      BY <1>4, <3>1, FS_CardinalityType, CommittedAreCounted DEF Budgeted, Allowance
    <3>4. IsFiniteSet(Payments(p)') /\ m \in Nat /\ m <= n + 1
      BY <2>2, <3>3, PayAddsOneRow
    <3>5. Committed(p)' = Committed(p)
      BY DEF ExpireExecute, Committed, Ballot
    <3>6. m + 0 <= 1 + k
      BY <3>3, <3>4
    <3> QED
      BY <3>2, <3>4, <3>5, <3>6 DEF Budgeted, Allowance
  <2> QED
    BY <2>1, <2>2 DEF ExpireExecute
<1> QED
  BY <1>3, <1>5 DEF BudgetInv

LEMMA BudgetStep == Shape /\ StatusInv /\ BudgetInv /\ [Next]_vars => BudgetInv'
<1> SUFFICES ASSUME Shape, StatusInv, BudgetInv, [Next]_vars PROVE BudgetInv'
  OBVIOUS
<1>1. CallsKept
  BY CallsAreKept
<1>2. ASSUME \A p \in Proposals : /\ Payments(p)' = Payments(p)
                                  /\ Listable(p)' => Listable(p)
      PROVE  BudgetInv'
  BY <1>1, <1>2, UnpaidStaysBudgeted DEF BudgetInv
<1>3. ASSUME NEW c \in Calls, Decide(c) PROVE BudgetInv'
  BY <1>1, <1>3, DecideStaysBudgeted
<1>4. ASSUME NEW p \in Proposals, ExpireExecute(p) PROVE BudgetInv'
  BY <1>1, <1>4, ExecuteStaysBudgeted
<1>5. ASSUME NEW c \in Calls,
             ReadProposal(c) \/ UpsertVote(c) \/ CountBallots(c) \/ CallFails(c)
      PROVE  BudgetInv'
  <2>1. UNCHANGED <<ledgerVars, status, sweep>>
    BY <1>5 DEF ReadProposal, UpsertVote, CountBallots, CallFails
  <2> QED
    BY <1>2, <2>1, NoPaymentUnlogged DEF Listable
<1>6. ASSUME NEW p \in Proposals, CountActive(p) \/ CountVotes(p) \/ ClerkStep(p) \/ Deadline(p)
      PROVE  BudgetInv'
  <2>1. UNCHANGED <<ledgerVars, sweep>>
    BY <1>6 DEF CountActive, CountVotes, ClerkStep, InsertProposal, CancelProposal, Deadline
  <2>2. \A q \in Proposals : status'[q] \in {"none", "open"} => status[q] \in {"none", "open"}
    BY <1>6 DEF CountActive, CountVotes, ClerkStep, InsertProposal, CancelProposal,
                Deadline, SetStatus, Shape, StatusInv, StatusFits
  <2> QED
    BY <1>2, <2>1, <2>2, NoPaymentUnlogged DEF Listable
<1>7. ASSUME NEW p \in Proposals, ExpireTally(p) \/ ExpireMark(p) \/ ExpireRecord(p)
      PROVE  BudgetInv'
  <2>1. UNCHANGED ledgerVars
    BY <1>7 DEF ExpireTally, ExpireMark, ExpireRecord
  <2>2. \A q \in Proposals : Listable(q)' => Listable(q)
    BY <1>7 DEF ExpireTally, ExpireMark, ExpireRecord, SweepTo, SetStatus, Shape, Listable
  <2> QED
    BY <1>2, <2>1, <2>2, NoPaymentUnlogged
<1>8. CASE OtherTransfer
  <2>1. UNCHANGED <<status, sweep>>
    BY <1>8 DEF OtherTransfer, councilVars
  <2> QED
    BY <1>2, <1>8, <2>1, OthersPayNobody DEF Listable
<1>9. CASE UNCHANGED vars
  <2>1. UNCHANGED <<ledgerVars, status, sweep>>
    BY <1>9 DEF vars, councilVars
  <2> QED
    BY <1>2, <2>1, NoPaymentUnlogged DEF Listable
<1>10. CASE ListDue \/ SweepFails \/ Restart
  <2>1. UNCHANGED <<ledgerVars, status>>
    BY <1>10 DEF ListDue, SweepFails, Restart
  <2>2. \A p \in Proposals : sweep'[p] = "idle" \/ (sweep'[p] = "listed" /\ status[p] = "open")
    BY <1>10 DEF ListDue, SweepFails, Restart, Open
  <2> QED
    BY <1>2, <2>1, <2>2, NoPaymentUnlogged DEF Listable
<1> QED
  BY <1>3, <1>4, <1>5, <1>6, <1>7, <1>8, <1>9, <1>10 DEF Next, VoteStep, Expire

LEMMA BudgetInit == Init => BudgetInv
<1> SUFFICES ASSUME Init, NEW p \in Proposals PROVE Budgeted(p)
  BY DEF BudgetInv
<1>1. Payments(p) = {}
  BY DEF Init, LedgerInit, Payments
<1>2. IsFiniteSet(Payments(p)) /\ Cardinality(Payments(p)) = 0
  BY <1>1, FS_EmptySet
<1>3. Cardinality(Committed(p)) \in Nat
  BY CommittedAreCounted
<1>4. Allowance(p) \in 0..1
  BY DEF Allowance
<1> QED
  BY <1>2, <1>3, <1>4 DEF Budgeted

-----------------------------------------------------------------------------
(* Types *)

\* What Shape leaves out: the ledger, the votes, deadlines and failures.
Rest ==
    /\ LedgerTypeOK
    /\ \A p \in Proposals : votes[p] \in [DOMAIN votes[p] -> VoteChoices]
    /\ due \in [Proposals -> BOOLEAN]
    /\ faults \in 0..MaxFaults

LEMMA RowOfLedger ==
    ASSUME NEW x \in TxIds, NEW r \in RequestType, NEW b \in Days, NEW d \in Days,
           NEW after \in Int
    PROVE  AuditRow(x, r, b, d, after) \in
              [id: TxIds,
               direction: {"transfer", "adjustment_grant", "adjustment_deduct"},
               initiator: Members, target: Members, amount: Nat, day: Days,
               checked: Days, balance_after_target: Int]
<1>1. Abs(r.amount) \in Nat
  BY DEF RequestType, Abs
<1>2. Direction(r) \in {"transfer", "adjustment_grant", "adjustment_deduct"}
  BY DEF Direction
<1> QED
  BY <1>1, <1>2 DEF AuditRow, RequestType

LEMMA LedgerKeepsTypes ==
    ASSUME LedgerTypeOK, NEW x \in TxIds, NEW r \in Requests,
           TransferNow(x, r) \/ AdjustNow(x, r)
    PROVE  LedgerTypeOK'
<1> PICK b \in BegunBy(day) : Transfer(x, r, b, day) \/ Adjust(x, r, b, day)
  BY DEF TransferNow, AdjustNow
<1>1. r \in RequestType /\ r.by \in Members /\ r.to \in Members /\ r.amount \in Int
  BY RequestsAssumption DEF RequestType
<1>2. balance \in [Members -> Int] /\ day \in Days /\ b \in Days
  BY DEF LedgerTypeOK, BegunBy
<1>3. balance' \in [Members -> Int]
  <2>1. CASE Transfer(x, r, b, day)
    BY <1>1, <1>2, <2>1 DEF Transfer
  <2>2. CASE Adjust(x, r, b, day)
    BY <1>1, <1>2, <2>2 DEF Adjust
  <2> QED
    BY <2>1, <2>2
<1>4. balance[r.to] + r.amount \in Int
  BY <1>1, <1>2
<1> PICK after \in Int : after = balance[r.to] + r.amount
  BY <1>4
<1>5. log' = log \cup {AuditRow(x, r, b, day, after)} /\ day' = day
  BY DEF Transfer, Adjust
<1>6. AuditRow(x, r, b, day, after) \in
         [id: TxIds,
          direction: {"transfer", "adjustment_grant", "adjustment_deduct"},
          initiator: Members, target: Members, amount: Nat, day: Days,
          checked: Days, balance_after_target: Int]
  BY <1>1, <1>2, RowOfLedger
<1> QED
  BY <1>2, <1>3, <1>5, <1>6 DEF LedgerTypeOK

\* A payment finds an id: not every call has committed, or the scheduler has
\* not used its own.
LEMMA PaymentIdIsKnown ==
    ASSUME NEW p \in Proposals, Budgeted(p),
           \/ Listable(p)
           \/ \E c \in Calls : call[c].pc = "decide"
    PROVE  PaymentId(p) \in TxIds
<1> PICK n : n = Cardinality(Payments(p))
  OBVIOUS
<1> PICK k : k = Cardinality(Committed(p))
  OBVIOUS
<1> PICK all : all = Cardinality(Calls)
  OBVIOUS
<1>1. n \in Nat /\ n + Allowance(p) <= 1 + k
  BY FS_CardinalityType DEF Budgeted
<1>2. k \in Nat /\ all \in Nat /\ k <= all
  BY CommittedAreCounted
<1>3. n <= all
  <2>1. CASE Listable(p)
    BY <1>1, <1>2, <2>1 DEF Allowance
  <2>2. ASSUME NEW c \in Calls, call[c].pc = "decide" PROVE n <= all
    <3>1. Committed(p) \in SUBSET (Calls \ {c})
      BY <2>2 DEF Committed
    <3>2. IsFiniteSet(Calls \ {c}) /\ Cardinality(Calls \ {c}) = all - 1
      BY CouncilBoundsAssumption, FS_RemoveElement
    <3>3. k <= all - 1
      BY <3>1, <3>2, FS_Subset
    <3>4. Allowance(p) \in 0..1
      BY DEF Allowance
    <3> QED
      BY <1>1, <1>2, <3>3, <3>4
  <2> QED
    BY <2>1, <2>2
<1>4. 1 + n \in 1..(1 + all)
  BY <1>1, <1>2, <1>3
<1>5. PaymentId(p) \in PaymentIds(p)
  BY <1>4 DEF PaymentId, PaymentIds
<1> QED
  BY <1>5, CouncilTxIdsAssumption

LEMMA PayKeepsTypes ==
    ASSUME LedgerTypeOK, NEW p \in Proposals, PaymentId(p) \in TxIds, Pay(p)
    PROVE  LedgerTypeOK'
<1> PICK x \in TxIds : x = PaymentId(p)
  OBVIOUS
<1>1. Payment[p] \in Requests
  BY PaymentAssumption
<1> PICK r \in Requests : r = Payment[p]
  BY <1>1
<1>2. TransferNow(x, r)
  BY DEF Pay
<1> QED
  BY <1>2, LedgerKeepsTypes

LEMMA LedgerKept == ASSUME LedgerTypeOK, UNCHANGED ledgerVars PROVE LedgerTypeOK'
BY DEF LedgerTypeOK, ledgerVars

LEMMA RestStep == Shape /\ BudgetInv /\ Rest /\ [Next]_vars => Rest'
<1> SUFFICES ASSUME Shape, BudgetInv, Rest, [Next]_vars PROVE Rest'
  OBVIOUS
<1>1. ASSUME UNCHANGED <<votes, due>>, LedgerTypeOK',
             UNCHANGED faults \/ Fault
      PROVE  Rest'
  <2>1. faults' \in 0..MaxFaults
    BY <1>1, CouncilBoundsAssumption DEF Fault, Rest
  <2> QED
    BY <1>1, <2>1 DEF Rest
<1>2. ASSUME NEW c \in Calls, Decide(c) PROVE Rest'
  <2> PICK p \in Proposals : p = Ballot(c).proposal
    BY CallsAreTyped
  <2>0. p = Ballot(c).proposal /\ Ballot(c).choice \in VoteChoices
    BY BallotsAssumption, CallsAreTyped DEF CallType, Ballot
  <2>1. LedgerTypeOK'
    <3>1. CASE UNCHANGED ledgerVars
      BY <3>1, LedgerKept DEF Rest
    <3>2. CASE Pay(p)
      <4>1. call[c].pc = "decide" /\ Budgeted(p)
        BY <1>2 DEF Decide, BudgetInv
      <4>2. PaymentId(p) \in TxIds
        BY <4>1, PaymentIdIsKnown
      <4> QED
        BY <3>2, <4>2, PayKeepsTypes DEF Rest
    <3> QED
      BY <1>2, <2>0, <3>1, <3>2 DEF Decide
  <2>2. Seen(c) \in [DOMAIN Seen(c) -> VoteChoices]
    <3>1. votes[p] \in [DOMAIN votes[p] -> VoteChoices]
      BY DEF Rest
    <3> QED
      BY <2>0, <3>1 DEF Seen, Cast
  <2>3. votes' = [votes EXCEPT ![p] = Seen(c)] /\ UNCHANGED <<due, faults>>
    BY <1>2, <2>0 DEF Decide
  <2>4. \A q \in Proposals : votes'[q] \in [DOMAIN votes'[q] -> VoteChoices]
    <3> PICK seen : seen = Seen(c)
      OBVIOUS
    <3>1. \A q \in Proposals : votes'[q] = IF q = p THEN seen ELSE votes[q]
      BY <2>3 DEF Shape
    <3>2. seen \in [DOMAIN seen -> VoteChoices]
      BY <2>2
    <3> QED
      BY <3>1, <3>2 DEF Rest
  <2> QED
    BY <2>1, <2>3, <2>4 DEF Rest
<1>3. ASSUME NEW p \in Proposals, ExpireExecute(p) PROVE Rest'
  <2>1. LedgerTypeOK'
    <3>1. CASE UNCHANGED ledgerVars
      BY <3>1, LedgerKept DEF Rest
    <3>2. CASE Pay(p)
      <4>1. Listable(p) /\ Budgeted(p)
        BY <1>3 DEF ExpireExecute, Listable, BudgetInv
      <4>2. PaymentId(p) \in TxIds
        BY <4>1, PaymentIdIsKnown
      <4> QED
        BY <3>2, <4>2, PayKeepsTypes DEF Rest
    <3> QED
      BY <1>3, <3>1, <3>2 DEF ExpireExecute
  <2>2. UNCHANGED <<votes, due, faults>>
    BY <1>3 DEF ExpireExecute
  <2> QED
    BY <1>1, <2>1, <2>2
<1>4. ASSUME NEW c \in Calls,
             ReadProposal(c) \/ UpsertVote(c) \/ CountBallots(c) \/ CallFails(c)
      PROVE  Rest'
  <2>1. UNCHANGED <<ledgerVars, votes, due>> /\ (UNCHANGED faults \/ Fault)
    BY <1>4 DEF ReadProposal, UpsertVote, CountBallots, CallFails
  <2> QED
    BY <1>1, <2>1, LedgerKept DEF Rest
<1>5. ASSUME NEW p \in Proposals,
             \/ CountActive(p) \/ CountVotes(p) \/ ClerkStep(p)
             \/ ExpireTally(p) \/ ExpireMark(p) \/ ExpireRecord(p)
      PROVE  Rest'
  <2>1. UNCHANGED <<ledgerVars, votes, due, faults>>
    BY <1>5 DEF CountActive, CountVotes, ClerkStep, InsertProposal, CancelProposal,
                ExpireTally, ExpireMark, ExpireRecord
  <2> QED
    BY <1>1, <2>1, LedgerKept DEF Rest
<1>6. ASSUME NEW p \in Proposals, Deadline(p) PROVE Rest'
  <2>1. UNCHANGED <<ledgerVars, votes, faults>> /\ due' \in [Proposals -> BOOLEAN]
    BY <1>6 DEF Deadline, Rest
  <2> QED
    BY <2>1, LedgerKept DEF Rest
<1>7. CASE OtherTransfer
  <2>1. PICK x \in OtherTxIds, r \in Requests : TransferNow(x, r) \/ AdjustNow(x, r)
    BY <1>7 DEF OtherTransfer
  <2>2. x \in TxIds
    BY CouncilTxIdsAssumption
  <2>3. LedgerTypeOK'
    BY <2>1, <2>2, LedgerKeepsTypes DEF Rest
  <2>4. UNCHANGED <<votes, due, faults>>
    BY <1>7 DEF OtherTransfer, councilVars
  <2> QED
    BY <1>1, <2>3, <2>4
<1>8. CASE ListDue \/ SweepFails \/ Restart \/ UNCHANGED vars
  <2>1. UNCHANGED <<ledgerVars, votes, due>> /\ (UNCHANGED faults \/ Fault)
    BY <1>8 DEF ListDue, SweepFails, Restart, vars, councilVars
  <2> QED
    BY <1>1, <2>1, LedgerKept DEF Rest
<1> QED
  BY <1>2, <1>3, <1>4, <1>5, <1>6, <1>7, <1>8 DEF Next, VoteStep, Expire

LEMMA RestInit == Init => Rest
<1> SUFFICES ASSUME Init PROVE Rest
  OBVIOUS
<1>1. LedgerTypeOK
  <2>1. balance \in [Members -> Int] /\ log = {} /\ day \in Days
    BY BalanceAssumption, LimitAssumption DEF Init, LedgerInit, Days
  <2> QED
    BY <2>1 DEF LedgerTypeOK
<1>2. faults \in 0..MaxFaults
  BY CouncilBoundsAssumption DEF Init
<1>3. \A p \in Proposals : votes[p] \in [DOMAIN votes[p] -> VoteChoices]
  BY DEF Init, VoteChoices
<1> QED
  BY <1>1, <1>2, <1>3 DEF Init, Rest

(***************************************************************************)
(* Types, and with them two facts about the council: only members of its   *)
(* snapshot have a vote on a proposal, and the audit rows of a proposal    *)
(* never run out of ids, because a call of vote pays once at most and so   *)
(* does the scheduler, however often it is cut off and starts again.       *)
(***************************************************************************)
THEOREM Typed == Spec => []TypeOK
<1>1. Shape /\ BackedInv /\ Rest => TypeOK
  <2> SUFFICES ASSUME Shape, BackedInv, Rest PROVE TypeOK
    OBVIOUS
  <2>1. DOMAIN votes = Proposals
    BY DEF Shape
  <2>2. \A p \in Proposals : DOMAIN votes[p] \subseteq Snapshot[p]
    BY DEF BackedInv, ProposalBacked
  <2> QED
    BY <2>1, <2>2 DEF Shape, Statuses, CallType, Rest, TypeOK
<1> QED
  BY <1>1, ShapeInit, ShapeStep, StatusInit, StatusStep, BackedInit, BackedStep,
     BudgetInit, BudgetStep, RestInit, RestStep, PTL DEF Spec

=============================================================================

--------------------------- MODULE SupremeAssembly ---------------------------
(***************************************************************************)
(* The supreme assembly (SupremeAssemblyService): proposals and their      *)
(* votes, which cannot be changed, the scheduler that closes what is due,  *)
(* the summonses of its speaker, and the commands that set its roles.      *)
(*                                                                         *)
(* A step is a statement.  Reads that nothing can come between, because    *)
(* the rows never change, are one step with the statement before them.     *)
(* Nothing is paid when a proposal passes: its outcome is its status, and  *)
(* what a voter announces of it.  What the scheduler announces afterwards  *)
(* is the status that it reads then, and changes nothing.                  *)
(***************************************************************************)
EXTENDS Integers, FiniteSets

CONSTANTS
    Members,      \* those who hold, or held, the role of the assembly
    MaxProposals, \* bound: proposals, numbered as they are made
    Agendas,      \* sets of requests, one of which a behaviour is about
    MaxSummons,   \* bound: summonses, numbered as they are written down
    Callers,      \* calls in progress at the same time, at most
    MaxActive,    \* proposals that may be open at a time (5 in the code)
    MaxCalls,     \* bound: calls
    MaxFaults     \* bound: lost connections and restarts

Proposals == 1..MaxProposals
Summonses == 1..MaxSummons
Requests == UNION Agendas

ASSUME AssemblyAssumption ==
    /\ IsFiniteSet(Members) /\ IsFiniteSet(Callers)
    /\ \A r \in Requests :
          \/ r.op = "create" /\ r.roster \subseteq Members /\ r.roster # {}
          \/ r.op = "cancel" /\ r.proposal \in Proposals
          \/ r.op = "vote" /\ r.proposal \in Proposals /\ r.voter \in Members
                           /\ r.choice \in {"approve", "reject", "abstain"}
          \/ r.op = "summon" /\ r.kind \in {"member", "official", "council"}
          \/ r.op = "config" /\ r.part \in {"speaker", "member"} /\ r.role \in Nat \ {0}
    /\ {MaxProposals, MaxSummons, MaxActive, MaxCalls, MaxFaults} \subseteq Nat

VARIABLES
    status,   \* supreme_assembly_proposals.status
    snapshot, \* supreme_assembly_proposal_snapshots
    votes,    \* votes[p]: supreme_assembly_votes, committed, of each voter
    due,      \* due[p]: deadline_at has gone by
    at,       \* at[c]: the statement that call c is about to run
    call,     \* call[c]: what it was asked to do
    verdict,  \* verdict[c]: the status it found or settled on
    sweep,    \* the scheduler's round: what it listed, and where it stands
    overlap,  \* two creations ran at the same time, a history
    summons,  \* supreme_assembly_summons, and whether anybody was reached
    config,   \* supreme_assembly_config: the role of each part, 0 for none
    account,  \* supreme_assembly_accounts: none, of the old formula, or derived
    wanted,   \* what the commands wrote last for each part, a history
    crossed,  \* a command wrote between another's read and write, a history
    agenda,   \* what callers may ask for in this behaviour
    made      \* calls and faults so far

tables == <<status, snapshot, votes>>
control == <<at, call, verdict>>
settings == <<config, account, wanted, crossed>>
chamber == <<due, sweep, overlap, summons, settings, agenda>>
vars == <<tables, control, chamber, made>>

Parts == {"speaker", "member"}
Choices == {"approve", "reject", "abstain"}
NoCall == [op |-> "none"]
Resting == [listed |-> {}, on |-> {}, verdict |-> "active"]

Init ==
    /\ status = [p \in Proposals |-> "none"]
    /\ snapshot = [p \in Proposals |-> {}]
    /\ votes = [p \in Proposals |-> [m \in {} |-> "abstain"]]
    /\ due = [p \in Proposals |-> FALSE]
    /\ at = [c \in Callers |-> "idle"]
    /\ call = [c \in Callers |-> NoCall]
    /\ verdict = [c \in Callers |-> "active"]
    /\ sweep = Resting
    /\ overlap = FALSE
    /\ summons = [s \in Summonses |-> [status |-> "none", reached |-> FALSE]]
    /\ config = [k \in Parts |-> 0] /\ wanted = config /\ crossed = FALSE
    /\ agenda \in Agendas
    /\ account \in IF \E r \in agenda : r.op = "config" THEN {"none", "old"} ELSE {"derived"}
    /\ made = [calls |-> 0, faults |-> 0]

-----------------------------------------------------------------------------
(* Tallies and locks *)

Active == {p \in Proposals : status[p] = "active"}
Decided == {"passed", "rejected", "expired"}

\* threshold_t is fixed with the snapshot: snapshot_n // 2 + 1.
Threshold(p) == Cardinality(snapshot[p]) \div 2 + 1

Tally(ballots, choice) == Cardinality({m \in DOMAIN ballots : ballots[m] = choice})
Unvoted(p, ballots) == Cardinality(snapshot[p]) - Cardinality(DOMAIN ballots)

\* Mutant of Outcome: a proposal is rejected as soon as it needs everybody.
OutcomeTooSoon(p, ballots) ==
    LET approve == Tally(ballots, "approve")
    IN  IF approve >= Threshold(p) THEN "passed"
        ELSE IF approve + Unvoted(p, ballots) <= Threshold(p) THEN "rejected"
        ELSE "active"

\* Enough approvals, or too few even if everybody else approved.
Outcome(p, ballots) ==
    LET approve == Tally(ballots, "approve")
    IN  IF approve >= Threshold(p) THEN "passed"
        ELSE IF approve + Unvoted(p, ballots) < Threshold(p) THEN "rejected"
        ELSE "active"

On(c) == call[c].proposal

\* The row is locked from the UPDATE of a vote's transaction to its COMMIT.
RowLocked(p) ==
    \E c \in Callers : at[c] = "commit" /\ On(c) = p /\ verdict[c] # "active"

\* An inserted vote that is not committed holds up an equal one.
VoteLocked(c) ==
    \E d \in Callers \ {c} :
        /\ at[d] \in {"tally", "mark", "commit"}
        /\ On(d) = On(c) /\ call[d].voter = call[c].voter

Count(what, max) == made[what] < max /\ made' = [made EXCEPT ![what] = @ + 1]
Goto(c, step) == at' = [at EXCEPT ![c] = step]
Find(c, outcome) == verdict' = [verdict EXCEPT ![c] = outcome]
Return(c) ==
    /\ Goto(c, "idle")
    /\ call' = [call EXCEPT ![c] = NoCall]
    /\ Find(c, "active")
Mark(p, s) == status' = [status EXCEPT ![p] = s]

\* A call that has been handed to the bot.
Begin(c, r, step) ==
    /\ at[c] = "idle" /\ Count("calls", MaxCalls)
    /\ Goto(c, step)
    /\ call' = [call EXCEPT ![c] = r]
    /\ UNCHANGED <<tables, verdict, chamber>>

-----------------------------------------------------------------------------
(* create_proposal *)

\* CreateProposalModal: the role's members of the moment are the snapshot.
StartCreate(c, r) == r.op = "create" /\ Begin(c, r, "count")

\* The service counts, and the gateway counts again before it inserts.
CountActive(c) ==
    /\ at[c] \in {"count", "countAgain"}
    /\ IF Cardinality(Active) >= MaxActive
       THEN Return(c)
       ELSE /\ Goto(c, IF at[c] = "count" THEN "countAgain" ELSE "insert")
            /\ UNCHANGED <<call, verdict>>
    /\ UNCHANGED <<tables, chamber, made>>

\* The proposal and its snapshot are one transaction, which commits here.
InsertProposal(c) ==
    /\ at[c] = "insert"
    /\ \E p \in Proposals :
          /\ {q \in Proposals : status[q] = "none"} = p..MaxProposals
          /\ Mark(p, "active")
          /\ snapshot' = [snapshot EXCEPT ![p] = call[c].roster]
    /\ overlap' = (overlap \/ \E d \in Callers \ {c} : at[d] = "insert")
    /\ Return(c)
    /\ UNCHANGED <<votes, due, sweep, summons, settings, agenda, made>>

-----------------------------------------------------------------------------
(* cancel_proposal *)

\* Part of the service's interface; the panel has no button for it.
StartCancel(c, r) ==
    r.op = "cancel" /\ status[r.proposal] # "none" /\ Begin(c, r, "countVotes")

CountVotes(c) ==
    /\ at[c] = "countVotes"
    /\ IF DOMAIN votes[On(c)] # {}
       THEN Return(c)
       ELSE Goto(c, "cancel") /\ UNCHANGED <<call, verdict>>
    /\ UNCHANGED <<tables, chamber, made>>

\* UPDATE ... WHERE status = '進行中'.
CancelProposal(c) ==
    /\ at[c] = "cancel" /\ ~RowLocked(On(c))
    /\ IF status[On(c)] = "active"
       THEN Mark(On(c), "cancelled")
       ELSE UNCHANGED status
    /\ Return(c)
    /\ UNCHANGED <<snapshot, votes, chamber, made>>

-----------------------------------------------------------------------------
(* vote *)

\* The buttons of ProposalDetailView and SupremeAssemblyVotingView stay where
\* they were sent when the proposal has long been closed.
Buttons == {p \in Proposals : status[p] # "none"}

\* _handle_vote
StartVote(c, r) == r.op = "vote" /\ r.proposal \in Buttons /\ Begin(c, r, "read")

\* The proposal and its snapshot are read before the transaction.
ReadProposal(c) ==
    /\ at[c] = "read"
    /\ \/ /\ status[On(c)] = "active" /\ call[c].voter \in snapshot[On(c)]
          /\ Goto(c, "vote") /\ UNCHANGED <<call, verdict>>
       \/ /\ status[On(c)] = "active" /\ call[c].voter \notin snapshot[On(c)]
          /\ Return(c)
       \/ status[On(c)] = "cancelled" /\ Return(c)
       \/ /\ status[On(c)] \in Decided
          /\ Goto(c, "announce") /\ Find(c, status[On(c)]) /\ UNCHANGED call
    /\ UNCHANGED <<tables, chamber, made>>

\* upsert_vote looks for a vote and inserts; the primary key has the last word.
UpsertVote(c) ==
    /\ at[c] = "vote" /\ ~VoteLocked(c)
    /\ IF call[c].voter \in DOMAIN votes[On(c)]
       THEN Return(c)
       ELSE Goto(c, "tally") /\ UNCHANGED <<call, verdict>>
    /\ UNCHANGED <<tables, chamber, made>>

\* What the transaction sees: the committed votes and its own.
Seen(c) ==
    [m \in DOMAIN votes[On(c)] \cup {call[c].voter} |->
        IF m = call[c].voter THEN call[c].choice ELSE votes[On(c)][m]]

ComputeTotals(c) ==
    /\ at[c] = "tally"
    /\ Find(c, Outcome(On(c), Seen(c)))
    /\ Goto(c, "mark")
    /\ UNCHANGED <<tables, call, chamber, made>>

\* mark_status, whatever the status is by now.
MarkVoted(c) ==
    /\ at[c] = "mark"
    /\ verdict[c] # "active" => ~RowLocked(On(c))
    /\ Goto(c, "commit")
    /\ UNCHANGED <<tables, call, verdict, chamber, made>>

CommitVote(c) ==
    /\ at[c] = "commit"
    /\ votes' = [votes EXCEPT ![On(c)] = Seen(c)]
    /\ IF verdict[c] = "active"
       THEN Return(c) /\ UNCHANGED status
       ELSE /\ Mark(On(c), verdict[c])
            /\ Goto(c, "announce") /\ UNCHANGED <<call, verdict>>
    /\ UNCHANGED <<snapshot, chamber, made>>

\* _handle_vote answers, and broadcasts the result of a closed proposal.
AnnounceVote(c) ==
    /\ at[c] = "announce"
    /\ Return(c)
    /\ UNCHANGED <<tables, chamber, made>>

-----------------------------------------------------------------------------
(* Summonses *)

Asked(c, op) == at[c] # "idle" /\ call[c].op = op

BeginSummon(c, kind) ==
    Begin(c, [op |-> "summon", kind |-> kind, row |-> {}, reached |-> FALSE], "summon")

\* SummonTypeSelectionView and the menu of members behind it.
StartSummon(c, r) == r.op = "summon" /\ r.kind = "member" /\ BeginSummon(c, "member")

\* The menu of officials, whose last entry opens a menu of the council.
SelectOfficial(c, r) == r.op = "summon" /\ r.kind = "official" /\ BeginSummon(c, "official")
SelectCouncil(c, r) == r.op = "summon" /\ r.kind = "council" /\ BeginSummon(c, "council")

RecordSummon(c, from, to) ==
    /\ at[c] = from
    /\ \E s \in Summonses :
          /\ {t \in Summonses : summons[t].status = "none"} = s..MaxSummons
          /\ summons' = [summons EXCEPT ![s] = [status |-> "pending", reached |-> call[c].reached]]
          /\ call' = [call EXCEPT ![c].row = {s}]
    /\ Goto(c, to)
    /\ UNCHANGED <<tables, verdict, due, sweep, overlap, settings, agenda, made>>

\* Messages that Discord refuses are skipped, and there may be nobody to send
\* to: somebody is reached, or nobody.
SendSummon(c, from, to) ==
    /\ at[c] = from
    /\ \E reached \in BOOLEAN :
          /\ call' = [call EXCEPT ![c].reached = reached]
          /\ summons' = [s \in Summonses |->
                IF s \in call[c].row THEN [summons[s] EXCEPT !.reached = reached] ELSE summons[s]]
    /\ Goto(c, to)
    /\ UNCHANGED <<tables, verdict, due, sweep, overlap, settings, agenda, made>>

\* A member or an official is written down first and then sent his message...
SummonMember(c) ==
    /\ Asked(c, "summon") /\ call[c].kind = "member"
    /\ RecordSummon(c, "summon", "send") \/ SendSummon(c, "send", "deliver")
SummonOfficial(c) ==
    /\ Asked(c, "summon") /\ call[c].kind = "official"
    /\ RecordSummon(c, "summon", "send") \/ SendSummon(c, "send", "deliver")
\* ... members of the council are sent theirs before it is written down.
SummonCouncil(c) ==
    /\ Asked(c, "summon") /\ call[c].kind = "council"
    /\ SendSummon(c, "summon", "record") \/ RecordSummon(c, "record", "deliver")

\* Mutant of mark_summon_delivered: what was written down counts as delivered.
mark_summon_anyway(c) ==
    /\ Asked(c, "summon") /\ at[c] = "deliver"
    /\ summons' = [s \in Summonses |->
          IF s \in call[c].row THEN [summons[s] EXCEPT !.status = "delivered"] ELSE summons[s]]
    /\ Return(c)
    /\ UNCHANGED <<tables, due, sweep, overlap, settings, agenda, made>>

mark_summon_delivered(c) ==
    /\ Asked(c, "summon") /\ at[c] = "deliver"
    /\ summons' = [s \in Summonses |->
          IF s \in call[c].row /\ call[c].reached
          THEN [summons[s] EXCEPT !.status = "delivered"] ELSE summons[s]]
    /\ Return(c)
    /\ UNCHANGED <<tables, due, sweep, overlap, settings, agenda, made>>

-----------------------------------------------------------------------------
(* config_speaker_role and config_member_role *)

Configure(c, r, part) ==
    /\ r.op = "config" /\ r.part = part
    /\ Begin(c, [op |-> "config", part |-> part, role |-> r.role, kept |-> 0], "readConfig")

config_speaker_role(c, r) == Configure(c, r, "speaker")
config_member_role(c, r) == Configure(c, r, "member")

\* Mutant of ReadConfig: the command takes the table to be empty.
ReadNothing(c) ==
    /\ at[c] = "readConfig"
    /\ Goto(c, "writeConfig")
    /\ UNCHANGED <<tables, call, verdict, chamber, made>>

\* The other part is read, to be written again with this one.
ReadConfig(c) ==
    /\ at[c] = "readConfig"
    /\ call' = [call EXCEPT ![c].kept = config[CHOOSE k \in Parts : k # call[c].part]]
    /\ Goto(c, "writeConfig")
    /\ UNCHANGED <<tables, verdict, chamber, made>>

\* set_config writes both parts, and commits.
WriteConfig(c) ==
    /\ at[c] = "writeConfig"
    /\ config' = [k \in Parts |-> IF k = call[c].part THEN call[c].role ELSE call[c].kept]
    /\ wanted' = [wanted EXCEPT ![call[c].part] = call[c].role]
    /\ crossed' = (crossed \/ \E d \in Callers :
                      at[d] = "writeConfig" /\ call[d].part # call[c].part)
    /\ Goto(c, "account")
    /\ UNCHANGED <<tables, call, verdict, due, sweep, overlap, summons, account, agenda, made>>

\* get_or_create_account_id: an account is made, or takes its new number; the
\* latter may fail, and is then left for another time.
FixAccount(c) ==
    /\ at[c] = "account"
    /\ account' \in {"derived", account} \ {"none"}
    /\ Return(c)
    /\ UNCHANGED <<tables, due, sweep, overlap, summons, config, wanted, crossed, agenda, made>>

-----------------------------------------------------------------------------
(* The scheduler *)

DueNow == {p \in Active : due[p]}

\* expire_due_proposals, every minute.
ListDue ==
    /\ sweep = Resting /\ DueNow # {}
    /\ sweep' = [Resting EXCEPT !.listed = DueNow]
    /\ UNCHANGED <<tables, due, control, overlap, summons, settings, agenda, made>>

ExpireTally(p) ==
    /\ sweep.on = {} /\ p \in sweep.listed
    /\ sweep' = [listed |-> sweep.listed \ {p}, on |-> {p},
                 verdict |-> IF Outcome(p, votes[p]) = "passed" THEN "passed" ELSE "expired"]
    /\ UNCHANGED <<tables, due, control, overlap, summons, settings, agenda, made>>

\* Mutant of ExpireMark: the status is written only if the proposal passed.
ExpireMarkPassed(p) ==
    /\ p \in sweep.on /\ ~RowLocked(p)
    /\ IF sweep.verdict = "passed" THEN Mark(p, "passed") ELSE UNCHANGED status
    /\ sweep' = [Resting EXCEPT !.listed = sweep.listed]
    /\ UNCHANGED <<snapshot, votes, due, control, overlap, summons, settings, agenda, made>>

\* mark_status, whatever the status is by now, commits on its own.
ExpireMark(p) ==
    /\ p \in sweep.on /\ ~RowLocked(p)
    /\ Mark(p, sweep.verdict)
    /\ sweep' = [Resting EXCEPT !.listed = sweep.listed]
    /\ UNCHANGED <<snapshot, votes, due, control, overlap, summons, settings, agenda, made>>

SweepStep == ListDue \/ \E p \in Proposals : ExpireTally(p) \/ ExpireMark(p)

-----------------------------------------------------------------------------
(* Time and failures *)

Deadline(p) ==
    /\ status[p] # "none" /\ ~due[p]
    /\ due' = [due EXCEPT ![p] = TRUE]
    /\ UNCHANGED <<tables, control, sweep, overlap, summons, settings, agenda, made>>

\* A lost connection rolls the transaction back and ends the call.
Fail(c) ==
    /\ at[c] \notin {"idle", "announce"}
    /\ Count("faults", MaxFaults)
    /\ Return(c)
    /\ UNCHANGED <<tables, chamber>>

\* An error ends the round; the next one lists again.
SweepFails ==
    /\ sweep # Resting
    /\ Count("faults", MaxFaults)
    /\ sweep' = Resting
    /\ UNCHANGED <<tables, due, control, overlap, summons, settings, agenda>>

\* The bot starts again.  Voting buttons of open proposals are registered anew;
\* calls are gone.
Restart ==
    /\ Count("faults", MaxFaults)
    /\ at' = [c \in Callers |-> "idle"]
    /\ call' = [c \in Callers |-> NoCall]
    /\ verdict' = [c \in Callers |-> "active"]
    /\ sweep' = Resting
    /\ UNCHANGED <<tables, due, overlap, summons, settings, agenda>>

Step(c) ==
    \/ CountActive(c) \/ InsertProposal(c)
    \/ CountVotes(c) \/ CancelProposal(c)
    \/ ReadProposal(c) \/ UpsertVote(c) \/ ComputeTotals(c)
    \/ MarkVoted(c) \/ CommitVote(c) \/ AnnounceVote(c)
    \/ SummonMember(c) \/ SummonOfficial(c) \/ SummonCouncil(c) \/ mark_summon_delivered(c)
    \/ ReadConfig(c) \/ WriteConfig(c) \/ FixAccount(c)

Next ==
    \/ \E c \in Callers :
          \/ Step(c) \/ Fail(c)
          \/ \E r \in agenda :
                \/ StartCreate(c, r) \/ StartCancel(c, r) \/ StartVote(c, r)
                \/ StartSummon(c, r) \/ SelectOfficial(c, r) \/ SelectCouncil(c, r)
                \/ config_speaker_role(c, r) \/ config_member_role(c, r)
    \/ SweepStep \/ SweepFails \/ Restart
    \/ \E p \in Proposals : Deadline(p)

Spec == Init /\ [][Next]_vars

\* Statements return, deadlines pass and the scheduler goes round; nobody has
\* to propose, vote or cancel.
FairSpec ==
    /\ Spec
    /\ WF_vars(SweepStep)
    /\ \A c \in Callers : WF_vars(Step(c))
    /\ \A p \in Proposals : WF_vars(Deadline(p))

-----------------------------------------------------------------------------
(* Properties *)

Statuses == {"none", "active", "cancelled"} \cup Decided
Steps == {"idle", "count", "countAgain", "insert", "countVotes", "cancel",
          "read", "vote", "tally", "mark", "commit", "announce",
          "summon", "send", "record", "deliver", "readConfig", "writeConfig", "account"}

\* Types; every vote is one of a member of the snapshot.
TypeOK ==
    /\ status \in [Proposals -> Statuses]
    /\ \A p \in Proposals : /\ snapshot[p] \subseteq Members
                            /\ DOMAIN votes[p] \subseteq snapshot[p]
                            /\ votes[p] \in [DOMAIN votes[p] -> Choices]
    /\ at \in [Callers -> Steps]
    /\ verdict \in [Callers -> Statuses]
    /\ sweep.listed \cup sweep.on \subseteq Proposals
    /\ summons \in [Summonses -> [status : {"none", "pending", "delivered"}, reached : BOOLEAN]]
    /\ {config, wanted} \subseteq [Parts -> Nat]
    /\ account \in {"none", "old", "derived"} /\ agenda \in Agendas

Said(p, s) ==
    \/ status[p] = s
    \/ \E c \in Callers : at[c] = "announce" /\ On(c) = p /\ verdict[c] = s

\* Whatever is recorded or announced as passed has the approval of more than
\* half of its snapshot in the committed votes, however votes, the scheduler's
\* tally and cut-off calls interleave.
PassedHasMajority ==
    \A p \in Proposals :
        Said(p, "passed") => 2 * Tally(votes[p], "approve") > Cardinality(snapshot[p])

\* Whatever is recorded or announced as rejected can never have a majority, even
\* counting the votes that the transaction that rejected it did not see.
RejectedIsHopeless ==
    \A p \in Proposals :
        Said(p, "rejected") =>
            LET lost == Tally(votes[p], "reject") + Tally(votes[p], "abstain")
            IN  2 * (Cardinality(snapshot[p]) - lost) <= Cardinality(snapshot[p])

\* More proposals are open than the limit allows only after two creations both
\* counted before either had inserted.
LimitHolds == Cardinality(Active) <= MaxActive \/ overlap

\* Types, and the assembly's decisions: what is recorded or announced has the
\* votes, and no more proposals are open than creations that raced account for.
DecisionsAreSound ==
    TypeOK /\ PassedHasMajority /\ RejectedIsHopeless /\ LimitHolds

\* A summons counts as delivered if and only if it reached somebody, in either
\* order of writing it down and sending it, unless the call was cut off.
SummonsesAreTrue ==
    \A s \in Summonses :
        /\ summons[s].status = "delivered" => summons[s].reached
        /\ summons[s].reached /\ made.faults = 0 =>
              \/ summons[s].status = "delivered"
              \/ \E c \in Callers : Asked(c, "summon") /\ s \in call[c].row

\* The roles are those that were set last, although each command writes both,
\* unless a command for the other part came between its read and its write.
SettingsAreKept == config = wanted \/ crossed

\* Every proposal is closed in the end, and stays closed: also one whose votes
\* reached the threshold in transactions that did not see each other.
EveryProposalCloses ==
    \A p \in Proposals : <>[](status[p] # "active")

=============================================================================

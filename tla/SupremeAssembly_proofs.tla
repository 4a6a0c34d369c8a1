----------------------- MODULE SupremeAssembly_proofs -----------------------
(***************************************************************************)
(* For any members, requests and number of calls: the roles that commands  *)
(* write are kept, unless commands for different parts crossed; what the   *)
(* assembly decides has the votes, and its limit holds but for creations   *)
(* that ran at the same time; and a summons counts as delivered if and     *)
(* only if it reached somebody, unless its call was cut off.               *)
(*                                                                         *)
(* And of the panels - the assembly's and the other two that redraw        *)
(* themselves - for any departments, payees and numbers of callbacks: once *)
(* nothing is on its way a panel shows what there is, and a form sends     *)
(* what its user saw.                                                      *)
(***************************************************************************)
EXTENDS SupremeAssembly, Panels, TLAPS, FiniteSetTheorems

ConfigCall == [op : {"config"}, part : Parts, role : Nat, kept : Nat]
Other(k) == CHOOSE j \in Parts : j # k

AtConfig(c) == at[c] \in {"readConfig", "writeConfig"}

Typed ==
    /\ at \in [Callers -> Steps]
    /\ DOMAIN call = Callers /\ call = [c \in Callers |-> call[c]]
    /\ \A c \in Callers : AtConfig(c) => call[c] \in ConfigCall
    /\ config \in [Parts -> Nat] /\ wanted \in [Parts -> Nat]
    /\ agenda \in Agendas

\* What a command is about to write for the other part is still what is there.
KeptIsTrue ==
    crossed \/ /\ config = wanted
               /\ \A c \in Callers :
                     at[c] = "writeConfig" => call[c].kept = config[Other(call[c].part)]

SInv == Typed /\ KeptIsTrue

LEMMA OtherPart == \A k \in Parts : Other(k) \in Parts /\ Other(k) # k
<1>1. Other("speaker") = "member"
  BY DEF Other, Parts
<1>2. Other("member") = "speaker"
  BY DEF Other, Parts
<1> QED  BY <1>1, <1>2 DEF Parts

LEMMA SInvAtFirst == Init => SInv
BY DEF Init, SInv, Typed, KeptIsTrue, AtConfig, Parts, Steps

\* A call that has nothing to do with the configuration, or has written it.
LEMMA Elsewhere ==
    ASSUME SInv, NEW p \in Callers, NEW step \in Steps, Goto(p, step),
           step \notin {"readConfig", "writeConfig"},
           DOMAIN call' = Callers, call' = [c \in Callers |-> call'[c]],
           \A c \in Callers \ {p} : call'[c] = call[c],
           UNCHANGED <<config, wanted, crossed, agenda>>
    PROVE  SInv'
<1>1. at' \in [Callers -> Steps] /\ \A c \in Callers : AtConfig(c)' => c # p /\ at'[c] = at[c]
  BY DEF Goto, SInv, Typed, AtConfig
<1>2. Typed'
  BY <1>1 DEF SInv, Typed, AtConfig
<1>3. KeptIsTrue'
  BY <1>1 DEF SInv, KeptIsTrue, AtConfig
<1> QED  BY <1>2, <1>3 DEF SInv

LEMMA Returning ==
    ASSUME SInv, NEW p \in Callers, Return(p), UNCHANGED <<config, wanted, crossed, agenda>>
    PROVE  SInv'
<1>1. /\ Goto(p, "idle") /\ DOMAIN call' = Callers /\ call' = [c \in Callers |-> call'[c]]
      /\ \A c \in Callers \ {p} : call'[c] = call[c]
  BY DEF Return, SInv, Typed
<1> QED  BY <1>1, Elsewhere DEF Steps

LEMMA Going ==
    ASSUME SInv, NEW p \in Callers, NEW step \in Steps \ {"readConfig", "writeConfig"},
           Goto(p, step), UNCHANGED <<call, config, wanted, crossed, agenda>>
    PROVE  SInv'
BY Elsewhere DEF SInv, Typed

LEMMA Beginning ==
    ASSUME SInv, NEW p \in Callers, NEW r, NEW step \in Steps \ {"readConfig", "writeConfig"},
           Begin(p, r, step)
    PROVE  SInv'
<1>1. /\ Goto(p, step) /\ DOMAIN call' = Callers /\ call' = [c \in Callers |-> call'[c]]
      /\ \A c \in Callers \ {p} : call'[c] = call[c]
      /\ UNCHANGED <<config, wanted, crossed, agenda>>
  BY DEF Begin, SInv, Typed, chamber, settings
<1> QED  BY <1>1, Elsewhere

LEMMA Configuring ==
    ASSUME SInv, NEW p \in Callers, NEW r \in agenda, NEW part \in Parts, Configure(p, r, part)
    PROVE  SInv'
<1> DEFINE new == [op |-> "config", part |-> part, role |-> r.role, kept |-> 0]
<1>1. r \in Requests /\ r.op = "config"
  BY DEF Configure, Requests, SInv, Typed
<1>2. r.role \in Nat
  BY <1>1, AssemblyAssumption
<1>3. new \in ConfigCall
  BY <1>2 DEF ConfigCall
<1>4. /\ at' = [at EXCEPT ![p] = "readConfig"] /\ call' = [call EXCEPT ![p] = new]
      /\ UNCHANGED <<config, wanted, crossed, agenda>>
  BY DEF Configure, Begin, Goto, chamber, settings
<1> HIDE DEF new
<1>5. Typed'
  BY <1>3, <1>4 DEF SInv, Typed, AtConfig, Steps
<1>6. KeptIsTrue'
  BY <1>4 DEF SInv, Typed, KeptIsTrue
<1> QED  BY <1>5, <1>6 DEF SInv

LEMMA Reading == ASSUME SInv, NEW p \in Callers, ReadConfig(p) PROVE SInv'
<1> DEFINE new == [call[p] EXCEPT !.kept = config[Other(call[p].part)]]
<1>1. /\ at' = [at EXCEPT ![p] = "writeConfig"] /\ call' = [call EXCEPT ![p] = new]
      /\ UNCHANGED <<config, wanted, crossed, agenda>>
  BY DEF ReadConfig, Goto, chamber, settings, Other
<1>2. call[p] \in ConfigCall
  BY DEF ReadConfig, SInv, Typed, AtConfig
<1>3. config[Other(call[p].part)] \in Nat
  BY <1>2, OtherPart DEF ConfigCall, SInv, Typed
<1>4. /\ new \in ConfigCall /\ new.part = call[p].part
      /\ new.kept = config[Other(call[p].part)]
  BY <1>2, <1>3 DEF ConfigCall
<1> HIDE DEF new
<1>5. Typed'
  BY <1>1, <1>4 DEF SInv, Typed, AtConfig, Steps
<1>6. KeptIsTrue'
  BY <1>1, <1>4 DEF SInv, Typed, KeptIsTrue
<1> QED  BY <1>5, <1>6 DEF SInv

\* What is written is the new role of one part and, of the other, what is there:
\* or a command for the other part is about to write, or has written.
LEMMA Writing == ASSUME SInv, NEW p \in Callers, WriteConfig(p) PROVE SInv'
<1>1. PICK k \in Parts : k = call[p].part /\ call[p].role \in Nat /\ call[p].kept \in Nat
  BY DEF WriteConfig, SInv, Typed, AtConfig, ConfigCall
<1>2. /\ at' = [at EXCEPT ![p] = "account"] /\ UNCHANGED <<call, agenda>>
      /\ config' = [j \in Parts |-> IF j = k THEN call[p].role ELSE call[p].kept]
      /\ wanted' = [wanted EXCEPT ![k] = call[p].role]
      /\ crossed' = (crossed \/ \E d \in Callers : at[d] = "writeConfig" /\ call[d].part # k)
  BY <1>1 DEF WriteConfig, Goto
<1>3. Typed'
  BY <1>1, <1>2 DEF SInv, Typed, AtConfig, Steps
<1>4. ASSUME ~crossed' PROVE /\ config' = wanted'
                             /\ \A c \in Callers : at'[c] = "writeConfig" =>
                                   call'[c].kept = config'[Other(call'[c].part)]
  <2>1. /\ ~crossed /\ config = wanted /\ call[p].kept = config[Other(k)]
        /\ \A c \in Callers : at[c] = "writeConfig" =>
              call[c].part = k /\ call[c].kept = config[Other(k)]
    BY <1>1, <1>2, <1>4 DEF WriteConfig, SInv, KeptIsTrue
  <2>2. \A j \in Parts : j # k => j = Other(k)
    BY OtherPart DEF Parts
  <2>3. config'[Other(k)] = config[Other(k)]
    BY <1>2, <2>1, OtherPart
  <2>4. \A j \in Parts : config'[j] = wanted'[j]
    BY <1>2, <2>1, <2>2 DEF SInv, Typed
  <2>5. config' = wanted'
    BY <1>3, <2>4 DEF Typed
  <2> QED  BY <1>2, <2>1, <2>3, <2>5 DEF SInv, Typed
<1>5. KeptIsTrue'
  BY <1>4 DEF KeptIsTrue
<1> QED  BY <1>3, <1>5 DEF SInv

LEMMA SInvKept == SInv /\ [Next]_vars => SInv'
<1> SUFFICES ASSUME SInv, [Next]_vars PROVE SInv'
  OBVIOUS
<1> USE DEF chamber, settings
<1>1. ASSUME UNCHANGED <<at, call, config, wanted, crossed, agenda>> PROVE SInv'
  BY <1>1 DEF SInv, Typed, KeptIsTrue, AtConfig
<1>2. CASE UNCHANGED vars
  BY <1>1, <1>2 DEF vars, control
<1>3. ASSUME NEW c \in Callers, Step(c) PROVE SInv'
  <2>1. CASE CountActive(c) \/ InsertProposal(c) \/ CountVotes(c) \/ CancelProposal(c)
    BY <2>1, Returning, Going DEF CountActive, InsertProposal, CountVotes, CancelProposal, Steps
  <2>2. CASE ReadProposal(c) \/ UpsertVote(c)
    BY <2>2, Returning, Going DEF ReadProposal, UpsertVote, Steps
  <2>3. CASE ComputeTotals(c) \/ MarkVoted(c) \/ CommitVote(c) \/ AnnounceVote(c)
    BY <2>3, Returning, Going DEF ComputeTotals, MarkVoted, CommitVote, AnnounceVote, Steps
  <2>4. ASSUME NEW from \in Steps, NEW to \in Steps \ {"readConfig", "writeConfig"},
               RecordSummon(c, from, to) \/ SendSummon(c, from, to)
        PROVE  SInv'
    <3>1. /\ Goto(c, to) /\ DOMAIN call' = Callers /\ call' = [d \in Callers |-> call'[d]]
          /\ \A d \in Callers \ {c} : call'[d] = call[d]
          /\ UNCHANGED <<config, wanted, crossed, agenda>>
      BY <2>4 DEF RecordSummon, SendSummon, SInv, Typed
    <3> QED  BY <3>1, Elsewhere
  <2>5. CASE SummonMember(c) \/ SummonOfficial(c) \/ SummonCouncil(c)
    BY <2>4, <2>5 DEF SummonMember, SummonOfficial, SummonCouncil, Steps
  <2>6. CASE mark_summon_delivered(c)
    BY <2>6, Returning DEF mark_summon_delivered
  <2>7. CASE ReadConfig(c) \/ WriteConfig(c)
    BY <2>7, Reading, Writing
  <2>8. CASE FixAccount(c)
    BY <2>8, Returning DEF FixAccount
  <2> QED  BY <1>3, <2>1, <2>2, <2>3, <2>5, <2>6, <2>7, <2>8 DEF Step
<1>4. ASSUME NEW c \in Callers, Fail(c) PROVE SInv'
  BY <1>4, Returning DEF Fail
<1>5. ASSUME NEW c \in Callers, NEW r \in agenda,
             \/ StartCreate(c, r) \/ StartCancel(c, r) \/ StartVote(c, r)
             \/ StartSummon(c, r) \/ SelectOfficial(c, r) \/ SelectCouncil(c, r)
      PROVE  SInv'
  BY <1>5, Beginning DEF StartCreate, StartCancel, StartVote, StartSummon, SelectOfficial,
                         SelectCouncil, BeginSummon, Steps
<1>6. ASSUME NEW c \in Callers, NEW r \in agenda,
             config_speaker_role(c, r) \/ config_member_role(c, r)
      PROVE  SInv'
  BY <1>6, Configuring DEF config_speaker_role, config_member_role, Parts
<1>7. CASE SweepStep \/ SweepFails
  BY <1>1, <1>7 DEF SweepStep, ListDue, ExpireTally, ExpireMark, SweepFails, control
<1>8. CASE Restart
  BY <1>8 DEF Restart, SInv, Typed, KeptIsTrue, AtConfig, Steps
<1>9. ASSUME NEW p \in Proposals, Deadline(p) PROVE SInv'
  BY <1>1, <1>9 DEF Deadline, control
<1> QED  BY <1>2, <1>3, <1>4, <1>5, <1>6, <1>7, <1>8, <1>9 DEF Next

\* The roles are those that were set last, although config_speaker_role and
\* config_member_role write both, unless two such commands crossed.
THEOREM RolesAreKept == Spec => []SettingsAreKept
<1>1. SInv => SettingsAreKept
  BY DEF SInv, KeptIsTrue, SettingsAreKept
<1> QED  BY SInvAtFirst, SInvKept, <1>1, PTL DEF Spec

-----------------------------------------------------------------------------
(* Votes *)

VoteSteps == {"read", "vote", "tally", "mark", "commit", "announce"}
CreateSteps == {"count", "countAgain", "insert"}
Voting(c) == at[c] \in {"tally", "mark", "commit"}
Rounds == [listed : SUBSET Proposals, on : SUBSET Proposals, verdict : Statuses \ {"none"}]

TablesTyped ==
    /\ status \in [Proposals -> Statuses]
    /\ snapshot \in [Proposals -> SUBSET Members]
    /\ DOMAIN votes = Proposals /\ votes = [p \in Proposals |-> votes[p]]
    /\ \A p \in Proposals : DOMAIN votes[p] \subseteq Members

\* Nobody works on a proposal that has not been made.
Made ==
    /\ verdict \in [Callers -> Statuses \ {"none"}]
    /\ sweep \in Rounds
    /\ \A p \in sweep.listed \cup sweep.on : status[p] # "none"
    /\ \A c \in Callers : at[c] \in VoteSteps =>
          On(c) \in Proposals /\ call[c].voter \in Members /\ status[On(c)] # "none"
    /\ \A c \in Callers : at[c] \in CreateSteps => call[c].roster \subseteq Members

\* A vote that has been inserted and not committed is its voter's first, and
\* the only one.
VotesAreNew ==
    \A c \in Callers : Voting(c) =>
        /\ call[c].voter \notin DOMAIN votes[On(c)]
        /\ \A d \in Callers : Voting(d) /\ On(d) = On(c) /\ call[d].voter = call[c].voter => d = c

VInv == TablesTyped /\ Made /\ VotesAreNew

\* A call goes on with what it was asked, and does not come to vote.
Stays(c) ==
    /\ at'[c] \in VoteSteps => at[c] \in VoteSteps /\ call'[c] = call[c]
    /\ at'[c] \in CreateSteps => at[c] \in CreateSteps /\ call'[c] = call[c]
    /\ at'[c] \in {"tally", "mark", "commit"} => Voting(c)

\* What the tables say of a proposal only grows.
Grows ==
    \A p \in Proposals : status[p] # "none" =>
        /\ status'[p] # "none" /\ snapshot'[p] = snapshot[p]
        /\ DOMAIN votes[p] \subseteq DOMAIN votes'[p]
        /\ \A m \in DOMAIN votes[p] : votes'[p][m] = votes[p][m]

LEMMA VInvAtFirst == Init => VInv
BY DEF Init, VInv, TablesTyped, Made, VotesAreNew, Rounds, Resting, VoteSteps, CreateSteps,
       Voting, Statuses, Decided

\* Votes and snapshots stay, and no call comes to vote.
LEMMA VotesStay ==
    ASSUME VInv, UNCHANGED <<votes, snapshot>>, status' \in [Proposals -> Statuses],
           \A p \in Proposals : status[p] # "none" => status'[p] # "none",
           verdict' \in [Callers -> Statuses \ {"none"}], sweep' \in Rounds,
           \A p \in sweep'.listed \cup sweep'.on : status[p] # "none",
           \A c \in Callers : Stays(c)
    PROVE  VInv' /\ Grows
<1>1. TablesTyped' /\ Grows
  BY DEF VInv, TablesTyped, Grows
<1>2. Made'
  BY DEF VInv, Made, On, Rounds, Stays
<1>3. \A c \in Callers : Voting(c)' => Voting(c) /\ call'[c] = call[c]
  BY DEF Voting, VoteSteps, Stays
<1>4. VotesAreNew'
  BY <1>3 DEF VInv, VotesAreNew, On
<1> QED  BY <1>1, <1>2, <1>4 DEF VInv

\* A call moves on, or returns, and the tables stay.
LEMMA CallMoves ==
    ASSUME SInv, VInv, NEW p \in Callers, NEW step \in Steps, Goto(p, step),
           UNCHANGED <<tables, sweep, verdict>>,
           \A c \in Callers \ {p} : call'[c] = call[c],
           step \in VoteSteps => at[p] \in VoteSteps /\ call'[p] = call[p],
           step \in CreateSteps => at[p] \in CreateSteps /\ call'[p] = call[p],
           step \in {"tally", "mark", "commit"} => Voting(p)
    PROVE  VInv' /\ Grows
<1>1. \A c \in Callers : Stays(c)
  BY DEF Goto, SInv, Typed, Voting, Stays
<1> QED  BY <1>1, VotesStay DEF VInv, TablesTyped, Made, tables

LEMMA CallReturns ==
    ASSUME SInv, VInv, NEW p \in Callers, Return(p), UNCHANGED <<votes, snapshot, sweep>>,
           status' \in [Proposals -> Statuses],
           \A q \in Proposals : status[q] # "none" => status'[q] # "none"
    PROVE  VInv' /\ Grows
<1>1. \A c \in Callers : Stays(c)
  BY DEF Return, Goto, SInv, Typed, Voting, VoteSteps, CreateSteps, Stays
<1>2. verdict' \in [Callers -> Statuses \ {"none"}]
  BY DEF Return, Find, VInv, Made, Statuses
<1> QED  BY <1>1, <1>2, VotesStay DEF VInv, Made

LEMMA CallBegins ==
    ASSUME SInv, VInv, NEW p \in Callers, NEW r, NEW step \in Steps, Begin(p, r, step),
           step \notin {"tally", "mark", "commit"},
           step \in VoteSteps =>
              r.proposal \in Proposals /\ r.voter \in Members /\ status[r.proposal] # "none",
           step \in CreateSteps => r.roster \subseteq Members
    PROVE  VInv' /\ Grows
<1>1. /\ at' = [at EXCEPT ![p] = step] /\ call' = [call EXCEPT ![p] = r]
      /\ UNCHANGED <<status, snapshot, votes, verdict, sweep>>
  BY DEF Begin, Goto, tables, chamber
<1>2. TablesTyped' /\ Grows
  BY <1>1 DEF VInv, TablesTyped, Grows
<1>3. Made'
  BY <1>1 DEF VInv, Made, On, SInv, Typed
<1>4. VotesAreNew'
  BY <1>1 DEF VInv, VotesAreNew, On, Voting, SInv, Typed
<1> QED  BY <1>2, <1>3, <1>4 DEF VInv

LEMMA Voted == ASSUME SInv, VInv, NEW p \in Callers, CommitVote(p) PROVE VInv' /\ Grows
<1>1. PICK q \in Proposals : /\ q = On(p) /\ call[p].voter \in Members /\ status[q] # "none"
                             /\ call[p].voter \notin DOMAIN votes[q]
  BY DEF CommitVote, VInv, Made, VotesAreNew, Voting, VoteSteps
<1>2. /\ votes' = [votes EXCEPT ![q] = Seen(p)] /\ UNCHANGED <<snapshot, sweep>>
      /\ \A c \in Callers \ {p} : at'[c] = at[c] /\ call'[c] = call[c]
      /\ at'[p] \in {"idle", "announce"}
      /\ at'[p] = "announce" => call'[p] = call[p]
      /\ verdict' \in [Callers -> Statuses \ {"none"}]
      /\ status' \in [Proposals -> Statuses] /\ \A j \in Proposals : status[j] # "none" => status'[j] # "none"
  BY <1>1 DEF CommitVote, chamber, Return, Goto, Find, Mark, SInv, Typed, VInv, TablesTyped, Made, Statuses
<1>3. /\ DOMAIN Seen(p) = DOMAIN votes[q] \cup {call[p].voter}
      /\ \A m \in DOMAIN votes[q] : Seen(p)[m] = votes[q][m]
  BY <1>1 DEF Seen
<1>4. TablesTyped' /\ Grows
  BY <1>1, <1>2, <1>3 DEF VInv, TablesTyped, Grows
<1>5. \A c \in Callers : Stays(c)
  BY <1>2 DEF CommitVote, VoteSteps, CreateSteps, Voting, Stays
<1>6. Made'
  BY <1>2, <1>5 DEF VInv, Made, On, Stays, Rounds
<1>7. \A c \in Callers : Voting(c)' => c # p /\ Voting(c) /\ call'[c] = call[c]
  BY <1>2 DEF Voting
<1>8. \A c \in Callers : Voting(c)' /\ On(c) = q => call[c].voter # call[p].voter
  BY <1>1, <1>7 DEF VInv, VotesAreNew, Voting, CommitVote
<1>9. \A c \in Callers : Voting(c)' => call[c].voter \notin DOMAIN votes'[On(c)]
  BY <1>1, <1>2, <1>3, <1>7, <1>8 DEF VInv, VotesAreNew, TablesTyped, Made, Voting, VoteSteps
<1>10. VotesAreNew'
  BY <1>7, <1>9 DEF VInv, VotesAreNew, On
<1> QED  BY <1>4, <1>6, <1>10 DEF VInv

LEMMA VInvKept == SInv /\ VInv /\ [Next]_vars => VInv' /\ Grows
<1> SUFFICES ASSUME SInv, VInv, [Next]_vars PROVE VInv' /\ Grows
  OBVIOUS
<1>1. ASSUME UNCHANGED <<tables, at, call, verdict, sweep>> PROVE VInv' /\ Grows
  <2>1. \A c \in Callers : Stays(c)
    BY <1>1 DEF Stays, Voting
  <2> QED  BY <1>1, <2>1, VotesStay DEF tables, VInv, TablesTyped, Made
<1>2. CASE UNCHANGED vars
  BY <1>1, <1>2 DEF vars, control, chamber
<1>3. ASSUME NEW c \in Callers, Step(c) PROVE VInv' /\ Grows
  <2>1. CASE CountActive(c) \/ CountVotes(c) \/ AnnounceVote(c) \/ mark_summon_delivered(c)
    BY <2>1, CallReturns, CallMoves
       DEF CountActive, CountVotes, AnnounceVote, mark_summon_delivered, tables, chamber,
           Steps, VoteSteps, CreateSteps, VInv, TablesTyped
  <2>2. CASE InsertProposal(c)
    <3>1. PICK q \in Proposals :
             /\ status[q] = "none" /\ status' = [status EXCEPT ![q] = "active"]
             /\ snapshot' = [snapshot EXCEPT ![q] = call[c].roster]
      <4>1. PICK q \in Proposals :
               /\ {j \in Proposals : status[j] = "none"} = q..MaxProposals
               /\ status' = [status EXCEPT ![q] = "active"]
               /\ snapshot' = [snapshot EXCEPT ![q] = call[c].roster]
        BY <2>2 DEF InsertProposal, Mark
      <4>2. q \in q..MaxProposals
        BY AssemblyAssumption DEF Proposals
      <4> QED  BY <4>1, <4>2
    <3>2. call[c].roster \subseteq Members
      BY <2>2 DEF InsertProposal, VInv, Made, CreateSteps
    <3>3. /\ UNCHANGED <<votes, sweep>> /\ verdict' \in [Callers -> Statuses \ {"none"}]
          /\ \A d \in Callers : Stays(d)
      BY <2>2 DEF InsertProposal, Return, Goto, Find, Stays, Voting, VoteSteps, CreateSteps,
                  SInv, Typed, VInv, Made, Statuses
    <3>4. TablesTyped' /\ Grows
      BY <3>1, <3>2, <3>3 DEF VInv, TablesTyped, Grows, Statuses
    <3>5. Made'
      BY <3>1, <3>3 DEF VInv, Made, On, Stays, TablesTyped, Rounds
    <3>6. \A d \in Callers : Voting(d)' => Voting(d) /\ call'[d] = call[d]
      BY <3>3 DEF Voting, VoteSteps, Stays
    <3>7. VotesAreNew'
      BY <3>3, <3>6 DEF VInv, VotesAreNew, On
    <3> QED  BY <3>4, <3>5, <3>7 DEF VInv
  <2>3. CASE CancelProposal(c)
    BY <2>3, CallReturns DEF CancelProposal, Mark, chamber, VInv, TablesTyped, Statuses
  <2>4. CASE ReadProposal(c)
    <3>1. CASE Return(c)
      BY <2>4, <3>1, CallReturns DEF ReadProposal, tables, chamber, VInv, TablesTyped
    <3>2. ASSUME NEW step \in {"vote", "announce"}, Goto(c, step), UNCHANGED call,
                 verdict' \in [Callers -> Statuses \ {"none"}]
          PROVE  VInv' /\ Grows
      <4>1. \A d \in Callers : Stays(d)
        BY <2>4, <3>2 DEF ReadProposal, Goto, Stays, Voting, VoteSteps, CreateSteps, SInv, Typed
      <4> QED
        BY <2>4, <3>2, <4>1, VotesStay DEF ReadProposal, tables, chamber, VInv, TablesTyped, Made
    <3> QED
      BY <2>4, <3>1, <3>2 DEF ReadProposal, Find, VInv, TablesTyped, Made, Decided, Statuses
  <2>5. CASE UpsertVote(c)
    <3>1. CASE Return(c)
      BY <2>5, <3>1, CallReturns DEF UpsertVote, tables, chamber, VInv, TablesTyped
    <3>2. CASE /\ call[c].voter \notin DOMAIN votes[On(c)] /\ at' = [at EXCEPT ![c] = "tally"]
               /\ UNCHANGED <<call, verdict>>
      <4>1. UNCHANGED <<status, votes, snapshot, sweep>> /\ at[c] = "vote" /\ ~VoteLocked(c)
        BY <2>5 DEF UpsertVote, tables, chamber
      <4>2. TablesTyped' /\ Grows
        BY <4>1 DEF VInv, TablesTyped, Grows
      <4>3. Made'
        BY <3>2, <4>1 DEF VInv, Made, On, VoteSteps, CreateSteps, SInv, Typed
      <4>4. \A d \in Callers : Voting(d)' <=> Voting(d) \/ d = c
        BY <3>2, <4>1 DEF Voting, SInv, Typed
      <4>5. \A d \in Callers : Voting(d) /\ On(d) = On(c) => call[d].voter # call[c].voter
        BY <4>1 DEF VoteLocked, Voting
      <4>6. VotesAreNew'
        BY <3>2, <4>1, <4>4, <4>5 DEF VInv, VotesAreNew, On
      <4> QED  BY <4>2, <4>3, <4>6 DEF VInv
    <3> QED  BY <2>5, <3>1, <3>2 DEF UpsertVote, Goto
  <2>6. CASE ComputeTotals(c) \/ MarkVoted(c)
    <3>1. UNCHANGED <<tables, sweep>> /\ verdict' \in [Callers -> Statuses \ {"none"}]
      BY <2>6 DEF ComputeTotals, MarkVoted, chamber, Find, Outcome, VInv, Made, Statuses, Decided
    <3>2. \A d \in Callers : Stays(d)
      BY <2>6 DEF ComputeTotals, MarkVoted, Goto, Stays, Voting, VoteSteps, CreateSteps, SInv, Typed
    <3> QED  BY <3>1, <3>2, VotesStay DEF tables, VInv, TablesTyped, Made
  <2>7. CASE CommitVote(c)
    BY <2>7, Voted
  <2>8. ASSUME NEW from \in Steps, NEW to \in {"send", "deliver", "record"},
               RecordSummon(c, from, to) \/ SendSummon(c, from, to)
        PROVE  VInv' /\ Grows
    <3>1. \A d \in Callers \ {c} : call'[d] = call[d]
      BY <2>8 DEF RecordSummon, SendSummon, SInv, Typed
    <3>2. Goto(c, to) /\ UNCHANGED <<tables, sweep, verdict>>
      BY <2>8 DEF RecordSummon, SendSummon
    <3> QED  BY <3>1, <3>2, CallMoves DEF Steps, VoteSteps, CreateSteps
  <2>9. CASE SummonMember(c) \/ SummonOfficial(c) \/ SummonCouncil(c)
    BY <2>8, <2>9 DEF SummonMember, SummonOfficial, SummonCouncil, Steps
  <2>10. CASE ReadConfig(c)
    <3>1. \A d \in Callers \ {c} : call'[d] = call[d]
      BY <2>10 DEF ReadConfig, SInv, Typed
    <3> QED
      BY <2>10, <3>1, CallMoves DEF ReadConfig, chamber, Steps, VoteSteps, CreateSteps
  <2>11. CASE WriteConfig(c)
    BY <2>11, CallMoves DEF WriteConfig, Steps, VoteSteps, CreateSteps
  <2>12. CASE FixAccount(c)
    BY <2>12, CallReturns DEF FixAccount, tables, VInv, TablesTyped
  <2> QED
    BY <1>3, <2>1, <2>2, <2>3, <2>4, <2>5, <2>6, <2>7, <2>9, <2>10, <2>11, <2>12 DEF Step
<1>4. ASSUME NEW c \in Callers, Fail(c) PROVE VInv' /\ Grows
  BY <1>4, CallReturns DEF Fail, tables, chamber, VInv, TablesTyped
<1>5. ASSUME NEW c \in Callers, NEW r \in agenda,
             StartCreate(c, r) \/ StartCancel(c, r) \/ StartVote(c, r)
      PROVE  VInv' /\ Grows
  <2>1. r \in Requests
    BY DEF Requests, SInv, Typed
  <2>2. r.op = "create" => r.roster \subseteq Members
    BY <2>1, AssemblyAssumption
  <2>3. r.op = "vote" => r.voter \in Members
    BY <2>1, AssemblyAssumption
  <2> QED
    BY <1>5, <2>2, <2>3, CallBegins
       DEF StartCreate, StartCancel, StartVote, Buttons, Steps, VoteSteps, CreateSteps
<1>6. ASSUME NEW c \in Callers, NEW r \in agenda,
             \/ StartSummon(c, r) \/ SelectOfficial(c, r) \/ SelectCouncil(c, r)
             \/ config_speaker_role(c, r) \/ config_member_role(c, r)
      PROVE  VInv' /\ Grows
  BY <1>6, CallBegins DEF StartSummon, SelectOfficial, SelectCouncil, BeginSummon,
     config_speaker_role, config_member_role, Configure, Steps, VoteSteps, CreateSteps
<1>7. ASSUME UNCHANGED <<votes, snapshot, at, call, verdict>>,
             status' \in [Proposals -> Statuses], sweep' \in Rounds,
             \A p \in Proposals : status[p] # "none" => status'[p] # "none",
             \A p \in sweep'.listed \cup sweep'.on : status[p] # "none"
      PROVE  VInv' /\ Grows
  <2>1. \A c \in Callers : Stays(c)
    BY <1>7 DEF Stays, Voting
  <2> QED  BY <1>7, <2>1, VotesStay DEF VInv, Made
<1>8. CASE ListDue
  BY <1>7, <1>8 DEF ListDue, DueNow, Active, tables, control, Resting, Rounds, VInv,
     TablesTyped, Statuses
<1>9. ASSUME NEW p \in Proposals, ExpireTally(p) PROVE VInv' /\ Grows
  BY <1>7, <1>9 DEF ExpireTally, tables, control, Rounds, VInv, TablesTyped, Made, Statuses, Decided
<1>10. ASSUME NEW p \in Proposals, ExpireMark(p) PROVE VInv' /\ Grows
  <2>1. sweep' = [listed |-> sweep.listed, on |-> {}, verdict |-> "active"]
    BY <1>10 DEF ExpireMark, Resting
  <2>2. sweep' \in Rounds /\ sweep'.on = {} /\ sweep'.listed = sweep.listed
    BY <2>1 DEF Rounds, VInv, Made, Statuses
  <2>3. sweep.verdict \in Statuses \ {"none"}
    BY DEF Rounds, VInv, Made
  <2>4. /\ status' \in [Proposals -> Statuses]
        /\ \A q \in Proposals : status[q] # "none" => status'[q] # "none"
    BY <1>10, <2>3 DEF ExpireMark, Mark, VInv, TablesTyped
  <2> QED  BY <1>7, <1>10, <2>2, <2>4 DEF ExpireMark, control, VInv, Made
<1>11. CASE SweepFails
  BY <1>7, <1>11 DEF SweepFails, tables, control, Resting, Rounds, VInv, TablesTyped, Statuses
<1>12. CASE Restart
  <2>1. \A c \in Callers : Stays(c)
    BY <1>12 DEF Restart, Stays, VoteSteps, CreateSteps
  <2> QED
    BY <1>12, <2>1, VotesStay DEF Restart, tables, Resting, Rounds, VInv, TablesTyped, Statuses
<1>13. ASSUME NEW p \in Proposals, Deadline(p) PROVE VInv' /\ Grows
  BY <1>1, <1>13 DEF Deadline, control
<1> QED
  BY <1>2, <1>3, <1>4, <1>5, <1>6, <1>8, <1>9, <1>10, <1>11, <1>12, <1>13 DEF Next, SweepStep

-----------------------------------------------------------------------------
(* Decisions *)

ElectorSteps == {"vote", "tally", "mark", "commit"}

\* Who votes is of the snapshot, and what the scheduler settles on is an end.
Ballots ==
    /\ \A p \in Proposals : /\ DOMAIN votes[p] \subseteq snapshot[p]
                            /\ votes[p] \in [DOMAIN votes[p] -> Choices]
                            /\ status[p] = "none" => DOMAIN votes[p] = {}
    /\ \A c \in Callers : at[c] \in VoteSteps => call[c].choice \in Choices
    /\ \A c \in Callers : at[c] \in ElectorSteps => call[c].voter \in snapshot[On(c)]
    /\ sweep.on # {} => sweep.verdict \in {"passed", "expired"}

\* Most steps leave the proposals alone, and bring no call to insert or to vote.
Quiet ==
    /\ UNCHANGED <<status, snapshot, votes, overlap>>
    /\ \A c \in Callers : at'[c] \in VoteSteps =>
          at'[c] = at[c] /\ call'[c] = call[c] /\ verdict'[c] = verdict[c]
    /\ \A c \in Callers : at'[c] = "insert" => at[c] = "insert"
    /\ sweep' = sweep \/ sweep'.on = {}

LEMMA GoingQuietly ==
    ASSUME SInv, VInv, NEW p \in Callers, NEW step \in Steps \ (VoteSteps \cup {"insert"}),
           Goto(p, step), UNCHANGED <<tables, sweep, overlap>>,
           \A c \in Callers \ {p} : call'[c] = call[c] /\ verdict'[c] = verdict[c]
    PROVE  Quiet
BY DEF Goto, SInv, Typed, tables, Quiet

LEMMA ReturningQuietly ==
    ASSUME SInv, VInv, NEW p \in Callers, Return(p), UNCHANGED <<tables, sweep, overlap>>
    PROVE  Quiet
BY DEF Return, Goto, Find, SInv, Typed, VInv, Made, tables, Quiet, VoteSteps

LEMMA MostAreQuiet ==
    ASSUME SInv, VInv, [Next]_vars
    PROVE  \/ Quiet
           \/ \E c \in Callers :
                 \/ CountActive(c) \/ InsertProposal(c) \/ CancelProposal(c)
                 \/ ReadProposal(c) \/ UpsertVote(c) \/ ComputeTotals(c)
                 \/ MarkVoted(c) \/ CommitVote(c)
           \/ \E c \in Callers, r \in agenda : StartVote(c, r)
           \/ \E p \in Proposals : ExpireTally(p) \/ ExpireMark(p)
<1>1. ASSUME UNCHANGED <<tables, at, call, verdict, overlap>>, sweep' = sweep \/ sweep'.on = {}
      PROVE  Quiet
  BY <1>1 DEF tables, Quiet
<1>2. CASE UNCHANGED vars
  BY <1>1, <1>2 DEF vars, control, chamber
<1>3. ASSUME NEW c \in Callers,
             \/ CountVotes(c) \/ AnnounceVote(c) \/ mark_summon_delivered(c) \/ FixAccount(c)
             \/ Fail(c)
      PROVE  Quiet
  BY <1>3, ReturningQuietly, GoingQuietly DEF CountVotes, AnnounceVote, mark_summon_delivered,
     FixAccount, Fail, chamber, Steps, VoteSteps
<1>4. ASSUME NEW c \in Callers, SummonMember(c) \/ SummonOfficial(c) \/ SummonCouncil(c)
      PROVE  Quiet
  <2>1. PICK to \in {"send", "deliver", "record"} :
           /\ Goto(c, to) /\ UNCHANGED <<tables, sweep, verdict, overlap>>
           /\ \A d \in Callers \ {c} : call'[d] = call[d]
    BY <1>4 DEF SummonMember, SummonOfficial, SummonCouncil, RecordSummon, SendSummon, SInv, Typed
  <2> QED  BY <2>1, GoingQuietly DEF Steps, VoteSteps
<1>5. ASSUME NEW c \in Callers, ReadConfig(c) \/ WriteConfig(c) PROVE Quiet
  <2>1. PICK to \in {"writeConfig", "account"} :
           /\ Goto(c, to) /\ UNCHANGED <<tables, sweep, verdict, overlap>>
           /\ \A d \in Callers \ {c} : call'[d] = call[d]
    BY <1>5 DEF ReadConfig, WriteConfig, chamber, SInv, Typed
  <2> QED  BY <2>1, GoingQuietly DEF Steps, VoteSteps
<1>6. ASSUME NEW c \in Callers, NEW r, NEW step \in {"count", "countVotes", "summon", "readConfig"},
             Begin(c, r, step)
      PROVE  Quiet
  <2>1. /\ Goto(c, step) /\ UNCHANGED <<tables, sweep, verdict, overlap>>
        /\ \A d \in Callers \ {c} : call'[d] = call[d]
    BY <1>6 DEF Begin, chamber, SInv, Typed
  <2> QED  BY <2>1, GoingQuietly DEF Steps, VoteSteps
<1>7. ASSUME NEW c \in Callers, NEW r \in agenda,
             \/ StartCreate(c, r) \/ StartCancel(c, r) \/ StartSummon(c, r)
             \/ SelectOfficial(c, r) \/ SelectCouncil(c, r)
             \/ config_speaker_role(c, r) \/ config_member_role(c, r)
      PROVE  Quiet
  BY <1>6, <1>7 DEF StartCreate, StartCancel, StartSummon, SelectOfficial, SelectCouncil,
                    BeginSummon, config_speaker_role, config_member_role, Configure
<1>8. CASE ListDue \/ SweepFails
  BY <1>1, <1>8 DEF ListDue, SweepFails, control, Resting
<1>9. CASE Restart
  BY <1>9 DEF Restart, tables, Resting, Quiet, VoteSteps
<1>10. ASSUME NEW p \in Proposals, Deadline(p) PROVE Quiet
  BY <1>1, <1>10 DEF Deadline, control
<1>11. ASSUME NEW c \in Callers, Step(c)
       PROVE  \/ Quiet
              \/ CountActive(c) \/ InsertProposal(c) \/ CancelProposal(c)
              \/ ReadProposal(c) \/ UpsertVote(c) \/ ComputeTotals(c)
              \/ MarkVoted(c) \/ CommitVote(c)
  BY <1>3, <1>4, <1>5, <1>11 DEF Step
<1> QED
  BY <1>2, <1>3, <1>7, <1>8, <1>9, <1>10, <1>11 DEF Next, SweepStep

LEMMA BallotsAtFirst == Init => Ballots
BY DEF Init, Ballots, Resting, VoteSteps, ElectorSteps, Choices

\* No vote is committed, and no call comes to vote that was not read before.
LEMMA BallotsStay ==
    ASSUME VInv, VInv', Ballots, Grows, UNCHANGED votes,
           \A c \in Callers : at'[c] \in VoteSteps => at[c] \in VoteSteps /\ call'[c] = call[c],
           \A c \in Callers : at'[c] \in ElectorSteps =>
              at[c] \in ElectorSteps \/ call[c].voter \in snapshot[On(c)],
           sweep' = sweep \/ sweep'.on = {} \/ sweep'.verdict \in {"passed", "expired"}
    PROVE  Ballots'
<1>1. \A p \in Proposals : /\ DOMAIN votes'[p] \subseteq snapshot'[p]
                           /\ votes'[p] \in [DOMAIN votes'[p] -> Choices]
                           /\ status'[p] = "none" => DOMAIN votes'[p] = {}
  BY DEF Ballots, Grows
<1>2. \A c \in Callers : at'[c] \in VoteSteps => call'[c].choice \in Choices
  BY DEF Ballots
<1>3. \A c \in Callers : at'[c] \in ElectorSteps => call'[c].voter \in snapshot'[On(c)']
  <2> SUFFICES ASSUME NEW c \in Callers, at'[c] \in ElectorSteps
               PROVE  call'[c].voter \in snapshot'[On(c)']
    OBVIOUS
  <2>1. at[c] \in VoteSteps /\ call'[c] = call[c]
    BY DEF ElectorSteps, VoteSteps
  <2>2. On(c)' = On(c) /\ snapshot'[On(c)] = snapshot[On(c)]
    BY <2>1 DEF On, VInv, Made, Grows
  <2> QED  BY <2>1, <2>2 DEF Ballots
<1>4. sweep'.on # {} => sweep'.verdict \in {"passed", "expired"}
  BY DEF Ballots
<1> QED  BY <1>1, <1>2, <1>3, <1>4 DEF Ballots

LEMMA SeenIsTyped ==
    ASSUME VInv, Ballots, NEW c \in Callers, at[c] \in ElectorSteps
    PROVE  /\ DOMAIN Seen(c) \subseteq snapshot[On(c)] /\ IsFiniteSet(DOMAIN Seen(c))
           /\ \A m \in DOMAIN Seen(c) : Seen(c)[m] \in Choices
<1>1. On(c) \in Proposals /\ call[c].choice \in Choices /\ call[c].voter \in snapshot[On(c)]
  BY DEF VInv, Made, Ballots, VoteSteps, ElectorSteps
<1>2. /\ DOMAIN Seen(c) = DOMAIN votes[On(c)] \cup {call[c].voter}
      /\ \A m \in DOMAIN Seen(c) : Seen(c)[m] \in Choices
  BY <1>1 DEF Seen, Ballots
<1>3. DOMAIN Seen(c) \subseteq snapshot[On(c)] /\ snapshot[On(c)] \subseteq Members
  BY <1>1, <1>2 DEF Ballots, VInv, TablesTyped
<1> QED  BY <1>2, <1>3, AssemblyAssumption, FS_Subset

LEMMA BallotsKept == SInv /\ VInv /\ Ballots /\ [Next]_vars => Ballots'
<1> SUFFICES ASSUME SInv, VInv, Ballots, [Next]_vars PROVE Ballots'
  OBVIOUS
<1>0. VInv' /\ Grows
  BY VInvKept
<1>1. CASE Quiet
  BY <1>0, <1>1, BallotsStay DEF Quiet, ElectorSteps, VoteSteps
<1>2. ASSUME NEW c \in Callers, CountActive(c) \/ InsertProposal(c) \/ CancelProposal(c)
      PROVE  Ballots'
  <2>1. /\ UNCHANGED <<votes, sweep>>
        /\ \A d \in Callers : at'[d] \in VoteSteps => at'[d] = at[d] /\ call'[d] = call[d]
    BY <1>2 DEF CountActive, InsertProposal, CancelProposal, Return, Goto, tables, chamber,
                SInv, Typed, VoteSteps
  <2> QED  BY <1>0, <2>1, BallotsStay DEF ElectorSteps, VoteSteps
<1>3. ASSUME NEW c \in Callers,
             ReadProposal(c) \/ UpsertVote(c) \/ ComputeTotals(c) \/ MarkVoted(c)
      PROVE  Ballots'
  <2>1. UNCHANGED <<votes, sweep>> /\ at[c] \in VoteSteps
    BY <1>3 DEF ReadProposal, UpsertVote, ComputeTotals, MarkVoted, tables, chamber, VoteSteps
  <2>2. CASE Return(c)
    <3>1. \A d \in Callers : at'[d] \in VoteSteps => at'[d] = at[d] /\ call'[d] = call[d]
      BY <2>2 DEF Return, Goto, SInv, Typed, VoteSteps
    <3> QED  BY <1>0, <2>1, <3>1, BallotsStay DEF ElectorSteps, VoteSteps
  <2>3. ASSUME NEW step, Goto(c, step), UNCHANGED call,
               step \in ElectorSteps => at[c] \in ElectorSteps \/ call[c].voter \in snapshot[On(c)]
        PROVE  Ballots'
    <3>1. \A d \in Callers : at'[d] = IF d = c THEN step ELSE at[d]
      BY <2>3 DEF Goto, SInv, Typed
    <3> QED  BY <1>0, <2>1, <2>3, <3>1, BallotsStay
  <2>4. CASE ReadProposal(c)
    BY <2>2, <2>3, <2>4 DEF ReadProposal, ElectorSteps
  <2>5. CASE UpsertVote(c) \/ ComputeTotals(c) \/ MarkVoted(c)
    BY <2>2, <2>3, <2>5 DEF UpsertVote, ComputeTotals, MarkVoted, ElectorSteps
  <2> QED  BY <1>3, <2>4, <2>5
<1>4. ASSUME NEW c \in Callers, CommitVote(c) PROVE Ballots'
  <2>1. PICK q \in Proposals : q = On(c) /\ at[c] = "commit" /\ status[q] # "none"
    BY <1>4 DEF CommitVote, VInv, Made, VoteSteps
  <2>2. /\ votes' = [votes EXCEPT ![q] = Seen(c)] /\ UNCHANGED <<snapshot, sweep>>
        /\ \A d \in Callers \ {c} : at'[d] = at[d] /\ call'[d] = call[d]
        /\ at'[c] \in {"idle", "announce"} /\ (at'[c] = "announce" => call'[c] = call[c])
    BY <1>4, <2>1 DEF CommitVote, chamber, Return, Goto, SInv, Typed
  <2>3. DOMAIN Seen(c) \subseteq snapshot[q] /\ \A m \in DOMAIN Seen(c) : Seen(c)[m] \in Choices
    BY <2>1, SeenIsTyped DEF ElectorSteps
  <2>4. Seen(c) \in [DOMAIN Seen(c) -> Choices]
    BY <2>3 DEF Seen
  <2>5. \A p \in Proposals : /\ DOMAIN votes'[p] \subseteq snapshot'[p]
                             /\ votes'[p] \in [DOMAIN votes'[p] -> Choices]
                             /\ status'[p] = "none" => DOMAIN votes'[p] = {}
    BY <1>0, <2>1, <2>2, <2>3, <2>4 DEF Ballots, VInv, TablesTyped, Grows
  <2>6. \A d \in Callers : at'[d] \in VoteSteps => call'[d].choice \in Choices
    BY <2>1, <2>2 DEF Ballots, VoteSteps
  <2>7. \A d \in Callers : at'[d] \in ElectorSteps => call'[d].voter \in snapshot'[On(d)']
    BY <2>1, <2>2 DEF Ballots, ElectorSteps, On
  <2> QED  BY <2>2, <2>5, <2>6, <2>7 DEF Ballots
<1>5. ASSUME NEW c \in Callers, NEW r \in agenda, StartVote(c, r) PROVE Ballots'
  <2>1. r \in Requests /\ r.op = "vote"
    BY <1>5 DEF StartVote, Requests, SInv, Typed
  <2>2. r.choice \in Choices
    BY <2>1, AssemblyAssumption DEF Choices
  <2>3. /\ UNCHANGED <<tables, sweep>> /\ at' = [at EXCEPT ![c] = "read"]
        /\ call' = [call EXCEPT ![c] = r]
    BY <1>5 DEF StartVote, Begin, Goto, chamber
  <2>4. \A d \in Callers : at'[d] \in ElectorSteps => at'[d] = at[d] /\ call'[d] = call[d]
    BY <2>3 DEF SInv, Typed, ElectorSteps
  <2>5. \A d \in Callers : at'[d] \in VoteSteps => call'[d].choice \in Choices
    BY <2>2, <2>3 DEF SInv, Typed, Ballots
  <2> QED  BY <2>3, <2>4, <2>5 DEF Ballots, On, tables
<1>6. ASSUME NEW p \in Proposals, ExpireTally(p) \/ ExpireMark(p) PROVE Ballots'
  <2>1. /\ UNCHANGED <<votes, at, call>>
        /\ sweep'.on = {} \/ sweep'.verdict \in {"passed", "expired"}
    BY <1>6 DEF ExpireTally, ExpireMark, tables, control, Resting
  <2> QED  BY <1>0, <2>1, BallotsStay
<1> QED  BY <1>1, <1>2, <1>3, <1>4, <1>5, <1>6, MostAreQuiet

-----------------------------------------------------------------------------
(* Majorities *)

Enough(p, cast) == Tally(cast, "approve") >= Threshold(p)
Lost(cast) == Tally(cast, "reject") + Tally(cast, "abstain")
Hopeless(p, cast) == Cardinality(snapshot[p]) - Lost(cast) < Threshold(p)

\* The ballots that an outcome needs; any will do for one that nobody voted on.
Founded(outcome, p, cast) ==
    /\ outcome = "passed" => Enough(p, cast)
    /\ outcome = "rejected" => Hopeless(p, cast)

\* Votes stand behind what is recorded, announced, or about to be.
Backed ==
    /\ \A p \in Proposals : Founded(status[p], p, votes[p])
    /\ \A p \in sweep.on : Founded(sweep.verdict, p, votes[p])
    /\ \A c \in Callers :
          /\ at[c] = "announce" => Founded(verdict[c], On(c), votes[On(c)])
          /\ at[c] \in {"mark", "commit"} => Founded(verdict[c], On(c), Seen(c))

LEMMA TallyGrows ==
    ASSUME NEW f, NEW g, IsFiniteSet(DOMAIN g), DOMAIN f \subseteq DOMAIN g,
           \A m \in DOMAIN f : g[m] = f[m], NEW choice
    PROVE  /\ Tally(f, choice) \in Nat /\ Tally(g, choice) \in Nat
           /\ Tally(f, choice) <= Tally(g, choice)
<1> DEFINE F == {m \in DOMAIN f : f[m] = choice}
           G == {m \in DOMAIN g : g[m] = choice}
<1>1. F \subseteq G /\ G \subseteq DOMAIN g
  OBVIOUS
<1>2. IsFiniteSet(G)
  BY <1>1, FS_Subset
<1>3. Cardinality(F) \in Nat /\ Cardinality(G) \in Nat /\ Cardinality(F) <= Cardinality(G)
  BY <1>1, <1>2, FS_Subset, FS_CardinalityType
<1> QED  BY <1>3 DEF Tally

LEMMA DisjointCount ==
    ASSUME NEW S, NEW T, IsFiniteSet(S), IsFiniteSet(T), S \cap T = {}
    PROVE  /\ IsFiniteSet(S \cup T) /\ Cardinality(S) \in Nat /\ Cardinality(T) \in Nat
           /\ Cardinality(S \cup T) = Cardinality(S) + Cardinality(T)
<1>1. /\ IsFiniteSet(S \cup T)
      /\ Cardinality(S \cup T) = Cardinality(S) + Cardinality(T) - Cardinality(S \cap T)
  BY FS_Union
<1>2. Cardinality(S \cap T) = 0
  BY FS_EmptySet
<1>3. Cardinality(S) \in Nat /\ Cardinality(T) \in Nat
  BY FS_CardinalityType
<1> QED  BY <1>1, <1>2, <1>3

\* Whoever has voted has approved or is lost.
LEMMA EverybodyCounts ==
    ASSUME NEW f, IsFiniteSet(DOMAIN f), \A m \in DOMAIN f : f[m] \in Choices
    PROVE  /\ Tally(f, "approve") \in Nat /\ Lost(f) \in Nat
           /\ Cardinality(DOMAIN f) = Tally(f, "approve") + Lost(f)
<1> DEFINE A == {m \in DOMAIN f : f[m] = "approve"}
           R == {m \in DOMAIN f : f[m] = "reject"}
           N == {m \in DOMAIN f : f[m] = "abstain"}
<1>1. A \subseteq DOMAIN f /\ R \subseteq DOMAIN f /\ N \subseteq DOMAIN f
  OBVIOUS
<1>2. IsFiniteSet(A) /\ IsFiniteSet(R) /\ IsFiniteSet(N)
  BY <1>1, FS_Subset
<1>3. R \cap N = {} /\ A \cap (R \cup N) = {} /\ DOMAIN f = A \cup (R \cup N)
  BY DEF Choices
<1>4. Tally(f, "approve") = Cardinality(A) /\ Lost(f) = Cardinality(R) + Cardinality(N)
  BY DEF Tally, Lost
<1> HIDE DEF A, R, N
<1>5. /\ IsFiniteSet(R \cup N) /\ Cardinality(R) \in Nat /\ Cardinality(N) \in Nat
      /\ Cardinality(R \cup N) = Cardinality(R) + Cardinality(N)
  BY <1>2, <1>3, DisjointCount
<1>6. /\ Cardinality(A) \in Nat
      /\ Cardinality(A \cup (R \cup N)) = Cardinality(A) + Cardinality(R \cup N)
  BY <1>2, <1>3, <1>5, DisjointCount
<1> QED  BY <1>3, <1>4, <1>5, <1>6

LEMMA ThresholdType ==
    ASSUME VInv, NEW p \in Proposals
    PROVE  Threshold(p) \in Nat /\ Cardinality(snapshot[p]) \in Nat
<1>1. IsFiniteSet(snapshot[p])
  BY AssemblyAssumption, FS_Subset DEF VInv, TablesTyped
<1>2. Cardinality(snapshot[p]) \in Nat
  BY <1>1, FS_CardinalityType
<1> QED  BY <1>2 DEF Threshold

\* The tally finds nothing but what the ballots say.
LEMMA OutcomeIsFounded ==
    ASSUME VInv, NEW p \in Proposals, NEW f, IsFiniteSet(DOMAIN f),
           \A m \in DOMAIN f : f[m] \in Choices
    PROVE  Founded(Outcome(p, f), p, f)
<1>1. /\ Tally(f, "approve") \in Nat /\ Lost(f) \in Nat
      /\ Cardinality(DOMAIN f) = Tally(f, "approve") + Lost(f)
  BY EverybodyCounts
<1>2. Threshold(p) \in Nat /\ Cardinality(snapshot[p]) \in Nat
  BY ThresholdType
<1> QED  BY <1>1, <1>2 DEF Outcome, Unvoted, Founded, Enough, Hopeless

\* The same of the ballots g in the next state.
FoundedNext(outcome, p, g) ==
    /\ outcome = "passed" => Tally(g, "approve") >= Threshold(p)'
    /\ outcome = "rejected" => Cardinality(snapshot'[p]) - Lost(g) < Threshold(p)'

AnnouncedNext(c) == \A q : q = On(c)' => FoundedNext(verdict'[c], q, votes'[q])
SettledNext(c) == \A q, g : q = On(c)' /\ g = Seen(c)' => FoundedNext(verdict'[c], q, g)

\* What has its ballots keeps them.
LEMMA FoundedGrows ==
    ASSUME VInv, VInv', Grows, NEW p \in Proposals, status[p] # "none", NEW f, NEW g,
           IsFiniteSet(DOMAIN g), DOMAIN f \subseteq DOMAIN g, \A m \in DOMAIN f : g[m] = f[m],
           NEW outcome, Founded(outcome, p, f)
    PROVE  FoundedNext(outcome, p, g)
<1>1. Threshold(p)' = Threshold(p) /\ snapshot'[p] = snapshot[p]
  BY DEF Threshold, Grows
<1>2. Threshold(p) \in Nat /\ Cardinality(snapshot[p]) \in Nat
  BY ThresholdType
<1>3. /\ Tally(f, "approve") \in Nat /\ Tally(g, "approve") \in Nat
      /\ Tally(f, "approve") <= Tally(g, "approve")
  BY TallyGrows
<1>4. /\ Tally(f, "reject") \in Nat /\ Tally(g, "reject") \in Nat
      /\ Tally(f, "reject") <= Tally(g, "reject")
  BY TallyGrows
<1>5. /\ Tally(f, "abstain") \in Nat /\ Tally(g, "abstain") \in Nat
      /\ Tally(f, "abstain") <= Tally(g, "abstain")
  BY TallyGrows
<1>6. Lost(f) \in Nat /\ Lost(g) \in Nat /\ Lost(f) <= Lost(g)
  BY <1>4, <1>5 DEF Lost
<1> QED
  BY <1>1, <1>2, <1>3, <1>6 DEF Founded, FoundedNext, Enough, Hopeless

LEMMA VotesGrow ==
    ASSUME VInv, VInv', Grows, NEW p \in Proposals, status[p] # "none",
           NEW outcome, Founded(outcome, p, votes[p])
    PROVE  FoundedNext(outcome, p, votes'[p])
<1>1. IsFiniteSet(DOMAIN votes'[p])
  BY AssemblyAssumption, FS_Subset DEF VInv, TablesTyped
<1> QED  BY <1>1, FoundedGrows DEF Grows

LEMMA SeenGrows ==
    ASSUME VInv, VInv', Grows, NEW c \in Callers, at[c] \in VoteSteps, call'[c] = call[c],
           NEW outcome, Founded(outcome, On(c), Seen(c))
    PROVE  \A q, g : q = On(c)' /\ g = Seen(c)' => FoundedNext(outcome, q, g)
<1>1. PICK p \in Proposals : p = On(c) /\ p = On(c)' /\ status[p] # "none"
                             /\ call[c].voter \in Members
  BY DEF VInv, Made, On
<1>2. /\ DOMAIN Seen(c) = DOMAIN votes[p] \cup {call[c].voter}
      /\ DOMAIN Seen(c)' = DOMAIN votes'[p] \cup {call[c].voter}
      /\ \A m \in DOMAIN Seen(c) : Seen(c)'[m] = Seen(c)[m]
  BY <1>1 DEF Seen, On, Grows
<1>3. DOMAIN Seen(c)' \subseteq Members
  BY <1>1, <1>2 DEF VInv, TablesTyped
<1>4. IsFiniteSet(DOMAIN Seen(c)')
  BY <1>3, AssemblyAssumption, FS_Subset
<1>5. DOMAIN Seen(c) \subseteq DOMAIN Seen(c)'
  BY <1>1, <1>2 DEF Grows
<1>6. \A g : g = Seen(c)' => FoundedNext(outcome, p, g)
  BY <1>1, <1>2, <1>4, <1>5, FoundedGrows
<1> QED  BY <1>1, <1>6

LEMMA BackedAtFirst == Init => Backed
BY DEF Init, Backed, Resting, Founded

\* Whatever is settled in the new state was settled before, or has its ballots.
LEMMA BackedStays ==
    ASSUME VInv, VInv', Grows, Backed,
           \A p \in Proposals :
              status'[p] = status[p] \/ FoundedNext(status'[p], p, votes'[p]),
           \A p \in sweep'.on :
              \/ p \in sweep.on /\ sweep'.verdict = sweep.verdict
              \/ FoundedNext(sweep'.verdict, p, votes'[p]),
           \A c \in Callers :
              /\ at'[c] = "announce" =>
                    \/ at[c] = "announce" /\ verdict'[c] = verdict[c] /\ call'[c] = call[c]
                    \/ AnnouncedNext(c)
              /\ at'[c] \in {"mark", "commit"} =>
                    \/ /\ at[c] \in {"mark", "commit"} /\ verdict'[c] = verdict[c]
                       /\ call'[c] = call[c]
                    \/ SettledNext(c)
    PROVE  Backed'
<1>1. ASSUME NEW p \in Proposals PROVE FoundedNext(status'[p], p, votes'[p])
  <2>1. CASE status'[p] = status[p] /\ status[p] # "none"
    BY <2>1, VotesGrow DEF Backed
  <2>2. CASE status'[p] = "none"
    BY <2>2 DEF FoundedNext
  <2> QED  BY <2>1, <2>2
<1>2. ASSUME NEW p \in sweep'.on PROVE FoundedNext(sweep'.verdict, p, votes'[p])
  <2>1. CASE p \in sweep.on /\ sweep'.verdict = sweep.verdict
    <3>1. p \in Proposals /\ status[p] # "none" /\ Founded(sweep.verdict, p, votes[p])
      BY <2>1 DEF VInv, Made, Rounds, Backed
    <3> QED  BY <2>1, <3>1, VotesGrow
  <2> QED  BY <2>1
<1>3. ASSUME NEW c \in Callers, at'[c] = "announce"
      PROVE  AnnouncedNext(c)
  <2>1. CASE at[c] = "announce" /\ verdict'[c] = verdict[c] /\ call'[c] = call[c]
    <3>1. PICK p \in Proposals : /\ p = On(c) /\ p = On(c)' /\ status[p] # "none"
                                 /\ Founded(verdict[c], p, votes[p])
      BY <2>1 DEF VInv, Made, On, VoteSteps, Backed
    <3>2. FoundedNext(verdict[c], p, votes'[p])
      BY <3>1, VotesGrow
    <3> QED  BY <2>1, <3>1, <3>2 DEF AnnouncedNext
  <2> QED  BY <1>3, <2>1
<1>4. ASSUME NEW c \in Callers, at'[c] \in {"mark", "commit"}
      PROVE  SettledNext(c)
  <2>1. CASE /\ at[c] \in {"mark", "commit"} /\ verdict'[c] = verdict[c]
             /\ call'[c] = call[c]
    <3>1. Founded(verdict[c], On(c), Seen(c)) /\ at[c] \in VoteSteps
      BY <2>1 DEF Backed, VoteSteps
    <3> QED  BY <2>1, <3>1, SeenGrows DEF SettledNext
  <2> QED  BY <1>4, <2>1
<1> QED
  BY <1>1, <1>2, <1>3, <1>4
     DEF Backed, Founded, FoundedNext, Enough, Hopeless, AnnouncedNext, SettledNext

LEMMA BackedKept == SInv /\ VInv /\ Ballots /\ Backed /\ [Next]_vars => Backed'
<1> SUFFICES ASSUME SInv, VInv, Ballots, Backed, [Next]_vars PROVE Backed'
  OBVIOUS
<1>0. VInv' /\ Grows
  BY VInvKept
<1>1. ASSUME UNCHANGED sweep \/ sweep'.on = {},
             \A p \in Proposals : status'[p] = status[p] \/ status'[p] \in {"active", "cancelled"},
             \A c \in Callers : at'[c] \in {"announce", "mark", "commit"} =>
                /\ at'[c] = at[c] \/ (at[c] = "mark" /\ at'[c] = "commit")
                /\ verdict'[c] = verdict[c] /\ call'[c] = call[c]
      PROVE  Backed'
  BY <1>0, <1>1, BackedStays DEF FoundedNext
<1>2. CASE Quiet
  BY <1>1, <1>2 DEF Quiet, VoteSteps
<1>3. ASSUME NEW c \in Callers,
             \/ CountActive(c) \/ InsertProposal(c) \/ CancelProposal(c) \/ UpsertVote(c)
             \/ MarkVoted(c)
      PROVE  Backed'
  <2>1. UNCHANGED sweep
    BY <1>3 DEF CountActive, InsertProposal, CancelProposal, UpsertVote, MarkVoted, chamber
  <2>2. \A p \in Proposals : status'[p] = status[p] \/ status'[p] \in {"active", "cancelled"}
    BY <1>3 DEF CountActive, InsertProposal, CancelProposal, UpsertVote, MarkVoted, tables,
                Mark, VInv, TablesTyped
  <2>3. \A d \in Callers : at'[d] \in {"announce", "mark", "commit"} =>
           /\ at'[d] = at[d] \/ (at[d] = "mark" /\ at'[d] = "commit")
           /\ verdict'[d] = verdict[d] /\ call'[d] = call[d]
    BY <1>3 DEF CountActive, InsertProposal, CancelProposal, UpsertVote, MarkVoted, Return,
                Goto, Find, SInv, Typed, VInv, Made
  <2> QED  BY <1>1, <2>1, <2>2, <2>3
<1>4. ASSUME NEW c \in Callers, ReadProposal(c) PROVE Backed'
  <2>1. UNCHANGED <<status, sweep>> /\ at[c] = "read"
    BY <1>4 DEF ReadProposal, tables, chamber
  <2>2. ASSUME Return(c) \/ (Goto(c, "vote") /\ UNCHANGED <<call, verdict>>) PROVE Backed'
    <3>1. \A d \in Callers : at'[d] \in {"announce", "mark", "commit"} =>
             at'[d] = at[d] /\ verdict'[d] = verdict[d] /\ call'[d] = call[d]
      BY <2>2 DEF Return, Goto, Find, SInv, Typed, VInv, Made
    <3> QED  BY <1>1, <2>1, <3>1
  <2>3. CASE Goto(c, "announce") /\ Find(c, status[On(c)]) /\ UNCHANGED call
    <3>1. /\ \A d \in Callers : d # c => at'[d] = at[d] /\ verdict'[d] = verdict[d]
          /\ verdict'[c] = status[On(c)] /\ at'[c] = "announce"
      BY <2>3 DEF Goto, Find, SInv, Typed, VInv, Made
    <3>2. PICK p \in Proposals : p = On(c) /\ p = On(c)' /\ status[p] # "none"
      BY <2>1, <2>3 DEF VInv, Made, VoteSteps, On
    <3>3. FoundedNext(status[p], p, votes'[p])
      BY <1>0, <3>2, VotesGrow DEF Backed
    <3>4. AnnouncedNext(c)
      BY <3>1, <3>2, <3>3 DEF AnnouncedNext
    <3> QED  BY <1>0, <2>1, <2>3, <3>1, <3>4, BackedStays
  <2> QED  BY <1>4, <2>2, <2>3 DEF ReadProposal
<1>5. ASSUME NEW c \in Callers, ComputeTotals(c) PROVE Backed'
  <2>1. /\ \A d \in Callers : d # c => at'[d] = at[d] /\ verdict'[d] = verdict[d]
        /\ verdict'[c] = Outcome(On(c), Seen(c)) /\ at'[c] = "mark"
        /\ UNCHANGED <<status, sweep, call>> /\ at[c] = "tally"
    BY <1>5 DEF ComputeTotals, Goto, Find, tables, chamber, SInv, Typed, VInv, Made
  <2>2. /\ On(c) \in Proposals /\ IsFiniteSet(DOMAIN Seen(c))
        /\ \A m \in DOMAIN Seen(c) : Seen(c)[m] \in Choices
    BY <2>1, SeenIsTyped DEF VInv, Made, VoteSteps, ElectorSteps
  <2>3. Founded(verdict'[c], On(c), Seen(c))
    BY <2>1, <2>2, OutcomeIsFounded
  <2>4. SettledNext(c)
    BY <1>0, <2>1, <2>3, SeenGrows DEF VoteSteps, SettledNext
  <2> QED  BY <1>0, <2>1, <2>4, BackedStays
<1>6. ASSUME NEW c \in Callers, CommitVote(c) PROVE Backed'
  <2>1. PICK p \in Proposals : /\ p = On(c) /\ at[c] = "commit" /\ votes'[p] = Seen(c)
                               /\ status[p] # "none"
    BY <1>6 DEF CommitVote, VInv, Made, VoteSteps, TablesTyped
  <2>2. CASE Return(c) /\ UNCHANGED status
    <3>1. \A d \in Callers : at'[d] \in {"announce", "mark", "commit"} =>
             at'[d] = at[d] /\ verdict'[d] = verdict[d] /\ call'[d] = call[d]
      BY <2>2 DEF Return, Goto, Find, SInv, Typed, VInv, Made
    <3> QED  BY <1>1, <1>6, <2>2, <3>1 DEF CommitVote, chamber
  <2>3. CASE Mark(p, verdict[c]) /\ Goto(c, "announce") /\ UNCHANGED <<call, verdict>>
    <3>1. /\ \A d \in Callers : d # c => at'[d] = at[d]
          /\ \A q \in Proposals : q # p => status'[q] = status[q]
          /\ status'[p] = verdict[c] /\ at'[c] = "announce" /\ UNCHANGED <<snapshot, sweep>>
      BY <1>6, <2>3 DEF CommitVote, Mark, Goto, chamber, SInv, Typed, VInv, TablesTyped
    <3>2. Founded(verdict[c], p, votes'[p])
      BY <2>1 DEF Backed
    <3>3. FoundedNext(verdict[c], p, votes'[p])
      BY <3>1, <3>2 DEF Founded, FoundedNext, Enough, Hopeless, Threshold
    <3>4. p = On(c)'
      BY <2>1, <2>3 DEF On
    <3>5. AnnouncedNext(c)
      BY <2>3, <3>3, <3>4 DEF AnnouncedNext
    <3> QED  BY <1>0, <2>1, <2>3, <3>1, <3>3, <3>5, BackedStays
  <2> QED  BY <1>6, <2>1, <2>2, <2>3 DEF CommitVote
<1>7. ASSUME NEW c \in Callers, NEW r \in agenda, StartVote(c, r) PROVE Backed'
  <2>1. /\ \A d \in Callers \ {c} : call'[d] = call[d]
        /\ at' = [at EXCEPT ![c] = "read"] /\ UNCHANGED <<status, verdict, sweep>>
    BY <1>7 DEF StartVote, Begin, Goto, tables, chamber, SInv, Typed
  <2> QED  BY <1>1, <2>1 DEF SInv, Typed
<1>8. ASSUME NEW p \in Proposals, ExpireTally(p) PROVE Backed'
  <2>1. /\ UNCHANGED <<status, at, call, verdict>> /\ sweep'.on = {p} /\ status[p] # "none"
        /\ sweep'.verdict = IF Outcome(p, votes[p]) = "passed" THEN "passed" ELSE "expired"
    BY <1>8 DEF ExpireTally, tables, control, VInv, Made
  <2>2. IsFiniteSet(DOMAIN votes[p]) /\ \A m \in DOMAIN votes[p] : votes[p][m] \in Choices
    BY AssemblyAssumption, FS_Subset DEF VInv, TablesTyped, Ballots
  <2>3. Founded(sweep'.verdict, p, votes[p])
    BY <2>1, <2>2, OutcomeIsFounded DEF Founded
  <2>4. FoundedNext(sweep'.verdict, p, votes'[p])
    BY <1>0, <2>1, <2>3, VotesGrow
  <2> QED  BY <1>0, <2>1, <2>4, BackedStays
<1>9. ASSUME NEW p \in Proposals, ExpireMark(p) PROVE Backed'
  <2>1. /\ \A q \in Proposals : q # p => status'[q] = status[q]
        /\ status'[p] = sweep.verdict /\ p \in sweep.on
        /\ UNCHANGED <<at, call, verdict>> /\ sweep'.on = {}
    BY <1>9 DEF ExpireMark, Mark, Resting, control, VInv, TablesTyped
  <2>2. FoundedNext(status'[p], p, votes'[p])
    BY <1>0, <2>1, VotesGrow DEF Backed, VInv, Made
  <2> QED  BY <1>0, <2>1, <2>2, BackedStays
<1> QED  BY <1>2, <1>3, <1>4, <1>5, <1>6, <1>7, <1>8, <1>9, MostAreQuiet

-----------------------------------------------------------------------------
(* The limit *)

\* Whoever is about to insert counted before anybody else's insert, unless two
\* creations ran at the same time.
Room ==
    overlap \/ /\ Cardinality(Active) <= MaxActive
               /\ \A c \in Callers : at[c] = "insert" => Cardinality(Active) < MaxActive

LEMMA ActiveIsFinite ==
    IsFiniteSet(Active) /\ Cardinality(Active) \in Nat /\ MaxActive \in Nat /\ MaxProposals \in Nat
<1>1. MaxProposals \in Nat /\ MaxActive \in Nat
  BY AssemblyAssumption
<1>2. IsFiniteSet(Proposals) /\ Active \subseteq Proposals
  BY <1>1, FS_Interval DEF Proposals, Active
<1> QED  BY <1>1, <1>2, FS_Subset, FS_CardinalityType

LEMMA RoomAtFirst == Init => Room
<1> SUFFICES ASSUME Init PROVE Room
  OBVIOUS
<1>1. Active = {}
  BY DEF Init, Active
<1> QED  BY <1>1, FS_EmptySet, ActiveIsFinite DEF Init, Room

\* Nothing is opened, and nobody has counted.
LEMMA RoomStays ==
    ASSUME Room, UNCHANGED overlap,
           \A p \in Proposals : status'[p] = "active" => status[p] = "active",
           \A c \in Callers : at'[c] = "insert" => at[c] = "insert"
    PROVE  Room'
<1>1. Active' \subseteq Active
  BY DEF Active
<1>2. Cardinality(Active') \in Nat /\ Cardinality(Active') <= Cardinality(Active)
  BY <1>1, ActiveIsFinite, FS_Subset, FS_CardinalityType
<1> QED  BY <1>2, ActiveIsFinite DEF Room

LEMMA RoomKept == SInv /\ VInv /\ Ballots /\ Room /\ [Next]_vars => Room'
<1> SUFFICES ASSUME SInv, VInv, Ballots, Room, [Next]_vars PROVE Room'
  OBVIOUS
<1>1. CASE Quiet
  BY <1>1, RoomStays DEF Quiet
<1>2. ASSUME NEW c \in Callers, CountActive(c) PROVE Room'
  <2>1. CASE Return(c)
    BY <1>2, <2>1, RoomStays DEF CountActive, Return, Goto, tables, chamber, SInv, Typed
  <2>2. CASE Cardinality(Active) < MaxActive
    <3>1. Active' = Active /\ UNCHANGED overlap
      BY <1>2 DEF CountActive, Active, tables, chamber
    <3> QED  BY <2>2, <3>1, ActiveIsFinite DEF Room
  <2> QED  BY <1>2, <2>1, <2>2, ActiveIsFinite DEF CountActive
<1>3. ASSUME NEW c \in Callers, InsertProposal(c) PROVE Room'
  <2>1. PICK p \in Proposals : status' = [status EXCEPT ![p] = "active"]
    BY <1>3 DEF InsertProposal, Mark
  <2>2. Active' = Active \cup {p}
    BY <2>1 DEF Active, VInv, TablesTyped
  <2>3. /\ Cardinality(Active \cup {p}) \in Nat
        /\ Cardinality(Active \cup {p}) <= Cardinality(Active) + 1
    <3>1. /\ IsFiniteSet(Active \cup {p})
          /\ Cardinality(Active \cup {p}) =
                IF p \in Active THEN Cardinality(Active) ELSE Cardinality(Active) + 1
      BY ActiveIsFinite, FS_AddElement
    <3> QED  BY <3>1, ActiveIsFinite
  <2>4. CASE overlap'
    BY <2>4 DEF Room
  <2>5. CASE ~overlap'
    <3>1. ~overlap /\ \A d \in Callers : at[d] = "insert" => d = c
      BY <1>3, <2>5 DEF InsertProposal
    <3>2. \A d \in Callers : at'[d] # "insert"
      BY <1>3, <3>1 DEF InsertProposal, Return, Goto, SInv, Typed
    <3> QED  BY <1>3, <2>2, <2>3, <3>1, <3>2, ActiveIsFinite DEF InsertProposal, Room
  <2> QED  BY <2>4, <2>5
<1>4. ASSUME NEW c \in Callers,
             \/ CancelProposal(c) \/ ReadProposal(c) \/ UpsertVote(c) \/ ComputeTotals(c)
             \/ MarkVoted(c) \/ CommitVote(c)
      PROVE  Room'
  <2>1. UNCHANGED overlap
    BY <1>4 DEF CancelProposal, ReadProposal, UpsertVote, ComputeTotals, MarkVoted, CommitVote,
                chamber
  <2>2. \A p \in Proposals : status'[p] = "active" => status[p] = "active"
    BY <1>4 DEF CancelProposal, ReadProposal, UpsertVote, ComputeTotals, MarkVoted, CommitVote,
                tables, Mark, VInv, TablesTyped
  <2>3. \A d \in Callers : at'[d] = "insert" => at[d] = "insert"
    BY <1>4 DEF CancelProposal, ReadProposal, UpsertVote, ComputeTotals, MarkVoted, CommitVote,
                Return, Goto, SInv, Typed
  <2> QED  BY <2>1, <2>2, <2>3, RoomStays
<1>5. ASSUME NEW c \in Callers, NEW r \in agenda, StartVote(c, r) PROVE Room'
  BY <1>5, RoomStays DEF StartVote, Begin, Goto, tables, chamber, SInv, Typed
<1>6. ASSUME NEW p \in Proposals, ExpireTally(p) \/ ExpireMark(p) PROVE Room'
  <2>1. UNCHANGED <<overlap, at>>
    BY <1>6 DEF ExpireTally, ExpireMark, control
  <2>2. \A q \in Proposals : status'[q] = "active" => status[q] = "active"
    BY <1>6 DEF ExpireTally, ExpireMark, tables, Mark, VInv, TablesTyped, Ballots
  <2> QED  BY <2>1, <2>2, RoomStays
<1> QED  BY <1>1, <1>2, <1>3, <1>4, <1>5, <1>6, MostAreQuiet

-----------------------------------------------------------------------------
(* Summonses *)

SummonSteps == {"summon", "send", "record", "deliver"}
SummonCall ==
    [op : {"summon"}, kind : {"member", "official", "council"}, row : SUBSET Summonses,
     reached : BOOLEAN]

Summoning(c) == at[c] \in SummonSteps
Rows == [status : {"none", "pending", "delivered"}, reached : BOOLEAN]

\* A call has written down at most what it has not marked, knows whether that
\* reached anybody, and shares it with no other call.
RowsAreKept ==
    /\ summons \in [Summonses -> Rows] /\ made \in [{"calls", "faults"} -> Nat]
    /\ \A c \in Callers : IF Summoning(c) THEN call[c] \in SummonCall ELSE call[c].op # "summon"
    /\ \A c \in Callers : at[c] \in {"summon", "record"} => call[c].row = {}
    /\ \A c \in Callers : Summoning(c) => \A s \in call[c].row :
          /\ summons[s].status = "pending" /\ summons[s].reached = call[c].reached
          /\ \A d \in Callers : Summoning(d) /\ s \in call[d].row => d = c

\* What reached somebody is marked, or somebody is about to mark it.
ReachedAreMarked ==
    \A s \in Summonses :
        /\ summons[s].status = "delivered" => summons[s].reached
        /\ summons[s].reached /\ made.faults = 0 =>
              \/ summons[s].status = "delivered"
              \/ \E c \in Callers : Summoning(c) /\ s \in call[c].row

MInv == RowsAreKept /\ ReachedAreMarked

LEMMA MInvAtFirst == Init => MInv
BY DEF Init, MInv, RowsAreKept, ReachedAreMarked, Rows, Summoning, SummonSteps, NoCall

\* No summons is written or sent: calls go on with theirs, or do not come to one,
\* or are cut off.
LEMMA SummonsStay ==
    ASSUME MInv, UNCHANGED summons, made' \in [{"calls", "faults"} -> Nat],
           made.faults <= made'.faults,
           \A c \in Callers :
              \/ at'[c] = at[c] /\ call'[c] = call[c]
              \/ at'[c] = "summon" /\ call'[c] \in SummonCall /\ call'[c].row = {} /\ ~Summoning(c)
              \/ /\ at'[c] \notin SummonSteps /\ call'[c].op # "summon"
                 /\ Summoning(c) => made'.faults # 0
    PROVE  MInv'
<1>1. \A c \in Callers : Summoning(c)' /\ call'[c].row # {} => Summoning(c) /\ call'[c] = call[c]
  BY DEF Summoning
<1>2. RowsAreKept'
  <2>1. \A c \in Callers : IF Summoning(c)' THEN call'[c] \in SummonCall ELSE call'[c].op # "summon"
    BY DEF MInv, RowsAreKept, Summoning, SummonSteps
  <2>2. \A c \in Callers : at'[c] \in {"summon", "record"} => call'[c].row = {}
    BY DEF MInv, RowsAreKept, SummonSteps
  <2> QED  BY <1>1, <2>1, <2>2 DEF MInv, RowsAreKept
<1>3. ASSUME made'.faults = 0 PROVE made.faults = 0
  BY <1>3 DEF MInv, RowsAreKept
<1>4. ASSUME made'.faults = 0, NEW c \in Callers, NEW s \in call[c].row, Summoning(c)
      PROVE  Summoning(c)' /\ s \in call'[c].row
  BY <1>4 DEF Summoning
<1>5. ReachedAreMarked'
  BY <1>3, <1>4 DEF MInv, ReachedAreMarked
<1> QED  BY <1>2, <1>5 DEF MInv

LEMMA MadeStays ==
    ASSUME MInv, UNCHANGED made \/ \E what \in {"calls", "faults"}, max \in Nat : Count(what, max)
    PROVE  /\ made' \in [{"calls", "faults"} -> Nat] /\ made.faults <= made'.faults
           /\ \A max : Count("faults", max) => made'.faults # 0
BY DEF MInv, RowsAreKept, Count

LEMMA FaultIsCounted ==
    ASSUME MInv, Count("faults", MaxFaults)
    PROVE  made' \in [{"calls", "faults"} -> Nat] /\ made.faults <= made'.faults /\ made'.faults # 0
BY DEF MInv, RowsAreKept, Count

\* A call that is about no summons goes on with what it was asked.
LEMMA GoesOn ==
    ASSUME SInv, MInv, NEW p \in Callers, NEW step \in Steps \ SummonSteps, Goto(p, step),
           ~Summoning(p), call'[p].op = call[p].op, UNCHANGED <<summons, made>>,
           \A c \in Callers \ {p} : call'[c] = call[c]
    PROVE  MInv'
<1>1. \A c \in Callers : at'[c] = IF c = p THEN step ELSE at[c]
  BY DEF Goto, SInv, Typed
<1>2. call[p].op # "summon" /\ made.faults <= made'.faults
  BY DEF MInv, RowsAreKept
<1> QED  BY <1>1, <1>2, SummonsStay DEF MInv, RowsAreKept

LEMMA Returns ==
    ASSUME SInv, MInv, NEW p \in Callers, Return(p), UNCHANGED summons,
           \/ ~Summoning(p) /\ UNCHANGED made
           \/ Count("faults", MaxFaults)
    PROVE  MInv'
<1>1. /\ \A c \in Callers : at'[c] = IF c = p THEN "idle" ELSE at[c]
      /\ \A c \in Callers : call'[c] = IF c = p THEN NoCall ELSE call[c]
  BY DEF Return, Goto, SInv, Typed
<1>2. CASE ~Summoning(p) /\ UNCHANGED made
  BY <1>1, <1>2, SummonsStay DEF NoCall, SummonSteps, MInv, RowsAreKept
<1>3. CASE Count("faults", MaxFaults)
  BY <1>1, <1>3, FaultIsCounted, SummonsStay DEF NoCall, SummonSteps
<1> QED  BY <1>2, <1>3

LEMMA Begins ==
    ASSUME SInv, MInv, NEW p \in Callers, NEW r, NEW step \in Steps, Begin(p, r, step),
           \/ step \notin SummonSteps /\ r.op # "summon"
           \/ step = "summon" /\ r \in SummonCall /\ r.row = {}
    PROVE  MInv'
<1>1. /\ at[p] = "idle" /\ UNCHANGED summons
      /\ \A c \in Callers : at'[c] = IF c = p THEN step ELSE at[c]
      /\ \A c \in Callers : call'[c] = IF c = p THEN r ELSE call[c]
  BY DEF Begin, Goto, chamber, SInv, Typed
<1>2. made' \in [{"calls", "faults"} -> Nat] /\ made.faults <= made'.faults
  BY DEF MInv, RowsAreKept, Begin, Count
<1> QED  BY <1>1, <1>2, SummonsStay DEF Summoning, SummonSteps

\* The row is new to every call, and has reached whom the call has.
LEMMA Recorded ==
    ASSUME SInv, MInv, NEW p \in Callers, NEW from \in {"summon", "record"},
           NEW to \in {"send", "deliver"}, RecordSummon(p, from, to)
    PROVE  MInv'
<1>1. PICK s \in Summonses : /\ summons[s].status = "none"
                             /\ summons' = [summons EXCEPT ![s] =
                                   [status |-> "pending", reached |-> call[p].reached]]
                             /\ call' = [call EXCEPT ![p].row = {s}]
  <2>1. PICK s \in Summonses :
           /\ {t \in Summonses : summons[t].status = "none"} = s..MaxSummons
           /\ summons' = [summons EXCEPT ![s] =
                 [status |-> "pending", reached |-> call[p].reached]]
           /\ call' = [call EXCEPT ![p].row = {s}]
    BY DEF RecordSummon
  <2>2. s \in s..MaxSummons
    BY AssemblyAssumption DEF Summonses
  <2> QED  BY <2>1, <2>2
<1>2. Summoning(p) /\ call[p] \in SummonCall /\ call[p].row = {}
  BY DEF RecordSummon, Summoning, SummonSteps, MInv, RowsAreKept
<1> DEFINE new == [call[p] EXCEPT !.row = {s}]
<1>3. new \in SummonCall /\ new.row = {s} /\ new.reached = call[p].reached
  BY <1>2 DEF SummonCall
<1>4. /\ \A c \in Callers : at'[c] = IF c = p THEN to ELSE at[c]
      /\ \A c \in Callers : call'[c] = IF c = p THEN new ELSE call[c]
      /\ UNCHANGED made
  BY <1>1 DEF RecordSummon, Goto, SInv, Typed
<1>5. /\ summons'[s].status = "pending" /\ summons'[s].reached = call[p].reached
      /\ \A t \in Summonses \ {s} : summons'[t] = summons[t]
  BY <1>1 DEF MInv, RowsAreKept
<1>6. summons' \in [Summonses -> Rows]
  BY <1>1, <1>2 DEF MInv, RowsAreKept, Rows, SummonCall
<1> HIDE DEF new
<1>7. \A c \in Callers : Summoning(c) => s \notin call[c].row
  BY <1>1 DEF MInv, RowsAreKept
<1>8. \A c \in Callers : Summoning(c)' <=> Summoning(c)
  BY <1>2, <1>4 DEF Summoning, SummonSteps
<1>9. \A c \in Callers : Summoning(c)' => \A t \in call'[c].row :
         /\ summons'[t].status = "pending" /\ summons'[t].reached = call'[c].reached
         /\ \A d \in Callers : Summoning(d)' /\ t \in call'[d].row => d = c
  BY <1>2, <1>3, <1>4, <1>5, <1>7, <1>8 DEF MInv, RowsAreKept, SummonCall
<1>10. RowsAreKept'
  <2>1. \A c \in Callers : IF Summoning(c)' THEN call'[c] \in SummonCall ELSE call'[c].op # "summon"
    BY <1>2, <1>3, <1>4, <1>8 DEF MInv, RowsAreKept
  <2>2. \A c \in Callers : at'[c] \in {"summon", "record"} => call'[c].row = {}
    BY <1>4 DEF MInv, RowsAreKept
  <2> QED  BY <1>4, <1>6, <1>9, <2>1, <2>2 DEF MInv, RowsAreKept
<1>11. ReachedAreMarked'
  <2>1. s \in call'[p].row /\ Summoning(p)'
    BY <1>2, <1>3, <1>4, <1>8
  <2>2. \A c \in Callers : call[c].row \subseteq call'[c].row
    BY <1>2, <1>4
  <2> QED  BY <1>4, <1>5, <1>8, <2>1, <2>2 DEF MInv, ReachedAreMarked
<1> QED  BY <1>10, <1>11 DEF MInv

\* Somebody is reached, or nobody: the row of the call, if there is one, says it.
LEMMA Sent ==
    ASSUME SInv, MInv, NEW p \in Callers, NEW from \in {"summon", "send"},
           NEW to \in {"deliver", "record"}, SendSummon(p, from, to),
           to = "record" => call[p].row = {}
    PROVE  MInv'
<1>1. Summoning(p) /\ call[p] \in SummonCall
  BY DEF SendSummon, Summoning, SummonSteps, MInv, RowsAreKept
<1>2. PICK reached \in BOOLEAN :
         /\ call' = [call EXCEPT ![p].reached = reached]
         /\ summons' = [s \in Summonses |->
               IF s \in call[p].row THEN [summons[s] EXCEPT !.reached = reached] ELSE summons[s]]
  BY DEF SendSummon
<1> DEFINE new == [call[p] EXCEPT !.reached = reached]
<1>3. new \in SummonCall /\ new.row = call[p].row /\ new.reached = reached
  BY <1>1 DEF SummonCall
<1>4. /\ \A c \in Callers : at'[c] = IF c = p THEN to ELSE at[c]
      /\ \A c \in Callers : call'[c] = IF c = p THEN new ELSE call[c]
      /\ UNCHANGED made
  BY <1>2 DEF SendSummon, Goto, SInv, Typed
<1> HIDE DEF new
<1>5. \A s \in Summonses :
         /\ summons'[s] \in Rows /\ summons'[s].status = summons[s].status
         /\ s \in call[p].row => summons'[s].reached = reached
         /\ s \notin call[p].row => summons'[s] = summons[s]
  <2> SUFFICES ASSUME NEW s \in Summonses
               PROVE  /\ summons'[s] \in Rows /\ summons'[s].status = summons[s].status
                      /\ s \in call[p].row => summons'[s].reached = reached
                      /\ s \notin call[p].row => summons'[s] = summons[s]
    OBVIOUS
  <2>1. summons[s] \in Rows
    BY DEF MInv, RowsAreKept
  <2>2. /\ [summons[s] EXCEPT !.reached = reached] \in Rows
        /\ [summons[s] EXCEPT !.reached = reached].status = summons[s].status
        /\ [summons[s] EXCEPT !.reached = reached].reached = reached
    BY <2>1 DEF Rows
  <2> QED  BY <1>2, <2>1, <2>2
<1>6. \A s \in call[p].row : s \in Summonses /\ summons[s].status = "pending"
  BY <1>1 DEF MInv, RowsAreKept, SummonCall
<1>7. summons' \in [Summonses -> Rows]
  BY <1>2, <1>5
<1>8. \A c \in Callers : Summoning(c)' <=> Summoning(c)
  BY <1>1, <1>4 DEF Summoning, SummonSteps
<1>9. \A c \in Callers : call'[c].row = call[c].row
  BY <1>3, <1>4
<1>10. RowsAreKept'
  <2>1. \A c \in Callers : IF Summoning(c)' THEN call'[c] \in SummonCall ELSE call'[c].op # "summon"
    BY <1>1, <1>3, <1>4, <1>8 DEF MInv, RowsAreKept
  <2>2. \A c \in Callers : at'[c] \in {"summon", "record"} => call'[c].row = {}
    BY <1>4, <1>9 DEF MInv, RowsAreKept
  <2>3. \A c \in Callers : Summoning(c) => \A t \in call[c].row :
           /\ summons'[t].status = "pending" /\ summons'[t].reached = call'[c].reached
           /\ \A d \in Callers : Summoning(d) /\ t \in call[d].row => d = c
    BY <1>1, <1>3, <1>4, <1>5 DEF MInv, RowsAreKept, SummonCall
  <2> QED  BY <1>4, <1>7, <1>8, <1>9, <2>1, <2>2, <2>3 DEF MInv, RowsAreKept
<1>11. ReachedAreMarked'
  <2> SUFFICES ASSUME NEW s \in Summonses
               PROVE  /\ summons'[s].status = "delivered" => summons'[s].reached
                      /\ summons'[s].reached /\ made'.faults = 0 =>
                            \/ summons'[s].status = "delivered"
                            \/ \E c \in Callers : Summoning(c)' /\ s \in call'[c].row
    BY DEF ReachedAreMarked
  <2>1. CASE s \in call[p].row
    BY <1>1, <1>5, <1>6, <1>8, <1>9, <2>1
  <2>2. CASE s \notin call[p].row
    BY <1>4, <1>5, <1>8, <1>9, <2>2 DEF MInv, ReachedAreMarked
  <2> QED  BY <2>1, <2>2
<1> QED  BY <1>10, <1>11 DEF MInv

LEMMA Marked == ASSUME SInv, MInv, NEW p \in Callers, mark_summon_delivered(p) PROVE MInv'
<1>1. Summoning(p) /\ call[p] \in SummonCall
  BY DEF mark_summon_delivered, Summoning, SummonSteps, MInv, RowsAreKept
<1>2. /\ \A c \in Callers : at'[c] = IF c = p THEN "idle" ELSE at[c]
      /\ \A c \in Callers : call'[c] = IF c = p THEN NoCall ELSE call[c]
      /\ UNCHANGED made
  BY DEF mark_summon_delivered, Return, Goto, SInv, Typed
<1>3. \A s \in call[p].row : /\ s \in Summonses /\ summons[s].status = "pending"
                             /\ summons[s].reached = call[p].reached
  BY <1>1 DEF MInv, RowsAreKept, SummonCall
<1>4. /\ summons' \in [Summonses -> Rows]
      /\ \A s \in Summonses : IF s \in call[p].row /\ call[p].reached
                              THEN summons'[s].status = "delivered" /\ summons'[s].reached
                              ELSE summons'[s] = summons[s]
  <2>1. ASSUME NEW s \in Summonses
        PROVE  /\ [summons[s] EXCEPT !.status = "delivered"] \in Rows
               /\ [summons[s] EXCEPT !.status = "delivered"].status = "delivered"
               /\ [summons[s] EXCEPT !.status = "delivered"].reached = summons[s].reached
    BY DEF MInv, RowsAreKept, Rows
  <2>2. summons' = [s \in Summonses |->
           IF s \in call[p].row /\ call[p].reached
           THEN [summons[s] EXCEPT !.status = "delivered"] ELSE summons[s]]
    BY DEF mark_summon_delivered
  <2>3. \A s \in Summonses : summons[s] \in Rows
    BY DEF MInv, RowsAreKept
  <2> QED  BY <1>3, <2>1, <2>2, <2>3
<1>5. \A c \in Callers : Summoning(c)' => c # p /\ Summoning(c) /\ call'[c] = call[c]
  BY <1>2 DEF Summoning, SummonSteps
<1>6. \A c \in Callers, s \in Summonses :
         Summoning(c)' /\ s \in call[c].row => summons'[s] = summons[s]
  BY <1>1, <1>4, <1>5 DEF MInv, RowsAreKept
<1>7. RowsAreKept'
  <2>1. \A c \in Callers : IF Summoning(c)' THEN call'[c] \in SummonCall ELSE call'[c].op # "summon"
    BY <1>2, <1>5 DEF MInv, RowsAreKept, NoCall, Summoning
  <2>2. \A c \in Callers : at'[c] \in {"summon", "record"} => call'[c].row = {}
    BY <1>2 DEF MInv, RowsAreKept
  <2>3. \A c \in Callers : Summoning(c)' => call'[c].row \subseteq Summonses
    BY <1>5 DEF MInv, RowsAreKept, SummonCall
  <2> QED  BY <1>2, <1>4, <1>5, <1>6, <2>1, <2>2, <2>3 DEF MInv, RowsAreKept
<1>8. ReachedAreMarked'
  <2> SUFFICES ASSUME NEW s \in Summonses
               PROVE  /\ summons'[s].status = "delivered" => summons'[s].reached
                      /\ summons'[s].reached /\ made'.faults = 0 =>
                            \/ summons'[s].status = "delivered"
                            \/ \E c \in Callers : Summoning(c)' /\ s \in call'[c].row
    BY DEF ReachedAreMarked
  <2>1. CASE s \in call[p].row
    <3>1. CASE call[p].reached
      BY <1>4, <2>1, <3>1
    <3>2. CASE ~call[p].reached
      BY <1>3, <1>4, <2>1, <3>2
    <3> QED  BY <3>1, <3>2
  <2>2. CASE s \notin call[p].row
    <3>1. summons'[s] = summons[s]
      BY <1>4, <2>2
    <3>2. \A c \in Callers : Summoning(c) /\ s \in call[c].row =>
             Summoning(c)' /\ s \in call'[c].row
      BY <1>2, <2>2 DEF Summoning
    <3> QED  BY <1>2, <3>1, <3>2 DEF MInv, ReachedAreMarked
  <2> QED  BY <2>1, <2>2
<1> QED  BY <1>7, <1>8 DEF MInv

LEMMA MInvKept == SInv /\ MInv /\ [Next]_vars => MInv'
<1> SUFFICES ASSUME SInv, MInv, [Next]_vars PROVE MInv'
  OBVIOUS
<1>1. ASSUME UNCHANGED <<at, call, summons>>, UNCHANGED made \/ Count("faults", MaxFaults)
      PROVE  MInv'
  <2>1. made' \in [{"calls", "faults"} -> Nat] /\ made.faults <= made'.faults
    BY <1>1, FaultIsCounted DEF MInv, RowsAreKept
  <2> QED  BY <1>1, <2>1, SummonsStay
<1>2. CASE UNCHANGED vars
  BY <1>1, <1>2 DEF vars, control, chamber
<1>3. ASSUME NEW c \in Callers, Step(c) PROVE MInv'
  <2>1. ASSUME ~Summoning(c), UNCHANGED <<summons, made>>,
               \/ Return(c)
               \/ \E step \in Steps \ SummonSteps : Goto(c, step) /\ UNCHANGED call
        PROVE  MInv'
    BY <2>1, Returns, GoesOn
  <2>2. CASE CountActive(c) \/ InsertProposal(c) \/ CountVotes(c) \/ CancelProposal(c)
    <3>1. ~Summoning(c) /\ UNCHANGED <<summons, made>>
      BY <2>2 DEF CountActive, InsertProposal, CountVotes, CancelProposal, chamber, Summoning,
                  SummonSteps
    <3>2. Return(c) \/ \E step \in Steps \ SummonSteps : Goto(c, step) /\ UNCHANGED call
      BY <2>2 DEF CountActive, InsertProposal, CountVotes, CancelProposal, Steps, SummonSteps
    <3> QED  BY <2>1, <3>1, <3>2
  <2>3. CASE ReadProposal(c) \/ UpsertVote(c) \/ AnnounceVote(c) \/ FixAccount(c)
    <3>1. ~Summoning(c) /\ UNCHANGED <<summons, made>>
      BY <2>3 DEF ReadProposal, UpsertVote, AnnounceVote, FixAccount, chamber, Summoning,
                  SummonSteps
    <3>2. Return(c) \/ \E step \in Steps \ SummonSteps : Goto(c, step) /\ UNCHANGED call
      BY <2>3 DEF ReadProposal, UpsertVote, AnnounceVote, FixAccount, Steps, SummonSteps
    <3> QED  BY <2>1, <3>1, <3>2
  <2>4. CASE ComputeTotals(c) \/ MarkVoted(c) \/ CommitVote(c) \/ WriteConfig(c)
    <3>1. ~Summoning(c) /\ UNCHANGED <<summons, made>>
      BY <2>4 DEF ComputeTotals, MarkVoted, CommitVote, WriteConfig, chamber, Summoning,
                  SummonSteps
    <3>2. Return(c) \/ \E step \in Steps \ SummonSteps : Goto(c, step) /\ UNCHANGED call
      BY <2>4 DEF ComputeTotals, MarkVoted, CommitVote, WriteConfig, Steps, SummonSteps
    <3> QED  BY <2>1, <3>1, <3>2
  <2>5. CASE SummonMember(c) \/ SummonOfficial(c)
    BY <2>5, Recorded, Sent DEF SummonMember, SummonOfficial
  <2>6. CASE SummonCouncil(c)
    <3>1. CASE RecordSummon(c, "record", "deliver")
      BY <3>1, Recorded
    <3>2. CASE SendSummon(c, "summon", "record")
      <4>1. call[c].row = {}
        BY <3>2 DEF SendSummon, MInv, RowsAreKept
      <4> QED  BY <3>2, <4>1, Sent
    <3> QED  BY <2>6, <3>1, <3>2 DEF SummonCouncil
  <2>7. CASE mark_summon_delivered(c)
    BY <2>7, Marked
  <2>8. CASE ReadConfig(c)
    <3>1. call[c] \in ConfigCall /\ ~Summoning(c)
      BY <2>8 DEF ReadConfig, SInv, Typed, AtConfig, Summoning, SummonSteps
    <3>2. /\ \A d \in Callers \ {c} : call'[d] = call[d]
          /\ call'[c].op = call[c].op
      BY <2>8, <3>1 DEF ReadConfig, ConfigCall, SInv, Typed
    <3> QED  BY <2>8, <3>1, <3>2, GoesOn DEF ReadConfig, chamber, Steps, SummonSteps
  <2> QED  BY <1>3, <2>2, <2>3, <2>4, <2>5, <2>6, <2>7, <2>8 DEF Step
<1>4. ASSUME NEW c \in Callers, Fail(c) PROVE MInv'
  BY <1>4, Returns DEF Fail, chamber
<1>5. ASSUME NEW c \in Callers, NEW r \in agenda,
             StartCreate(c, r) \/ StartCancel(c, r) \/ StartVote(c, r)
      PROVE  MInv'
  BY <1>5, Begins DEF StartCreate, StartCancel, StartVote, Steps, SummonSteps
<1>6. ASSUME NEW c \in Callers, NEW whom \in {"member", "official", "council"},
             BeginSummon(c, whom)
      PROVE  MInv'
  <2>1. [op |-> "summon", kind |-> whom, row |-> {}, reached |-> FALSE] \in SummonCall
    BY DEF SummonCall
  <2> QED  BY <1>6, <2>1, Begins DEF BeginSummon, Steps
<1>7. ASSUME NEW c \in Callers, NEW r \in agenda,
             \/ StartSummon(c, r) \/ SelectOfficial(c, r) \/ SelectCouncil(c, r)
      PROVE  MInv'
  BY <1>6, <1>7 DEF StartSummon, SelectOfficial, SelectCouncil
<1>8. ASSUME NEW c \in Callers, NEW r \in agenda,
             config_speaker_role(c, r) \/ config_member_role(c, r)
      PROVE  MInv'
  <2>1. PICK part, role :
           Begin(c, [op |-> "config", part |-> part, role |-> role, kept |-> 0], "readConfig")
    BY <1>8 DEF config_speaker_role, config_member_role, Configure
  <2> QED  BY <2>1, Begins DEF Steps, SummonSteps
<1>9. CASE SweepStep \/ SweepFails
  BY <1>1, <1>9 DEF SweepStep, ListDue, ExpireTally, ExpireMark, SweepFails, control
<1>10. CASE Restart
  <2>1. \A c \in Callers : at'[c] = "idle" /\ call'[c] = NoCall
    BY <1>10 DEF Restart
  <2> QED  BY <1>10, <2>1, FaultIsCounted, SummonsStay DEF Restart, NoCall, SummonSteps
<1>11. ASSUME NEW p \in Proposals, Deadline(p) PROVE MInv'
  BY <1>1, <1>11 DEF Deadline, control
<1> QED  BY <1>2, <1>3, <1>4, <1>5, <1>7, <1>8, <1>9, <1>10, <1>11 DEF Next

\* A summons counts as delivered only if it reached somebody, and does if it did,
\* in whichever order it is written down and sent, unless the call that sent it
\* was cut off (SummonTypeSelectionView, mark_summon_delivered).
THEOREM DeliveredIfReached == Spec => []SummonsesAreTrue
<1>1. MInv => SummonsesAreTrue
  <2>1. MInv => \A c \in Callers : Summoning(c) => Asked(c, "summon")
    BY DEF MInv, RowsAreKept, Summoning, SummonSteps, SummonCall, Asked
  <2> QED  BY <2>1 DEF MInv, ReachedAreMarked, SummonsesAreTrue
<1> QED  BY SInvAtFirst, SInvKept, MInvAtFirst, MInvKept, <1>1, PTL DEF Spec

-----------------------------------------------------------------------------
(* Decisions, as a whole *)

\* get_or_create_account_id alone writes the account, and never takes it away.
LEMMA AccountStays == ASSUME [Next]_vars PROVE account' \in {"derived", account}
<1>1. ASSUME NEW c \in Callers, Step(c) PROVE account' \in {"derived", account}
  <2>1. CASE CountActive(c) \/ InsertProposal(c) \/ CountVotes(c) \/ CancelProposal(c)
    BY <2>1 DEF CountActive, InsertProposal, CountVotes, CancelProposal, chamber, settings
  <2>2. CASE ReadProposal(c) \/ UpsertVote(c) \/ ComputeTotals(c) \/ MarkVoted(c)
             \/ CommitVote(c) \/ AnnounceVote(c)
    BY <2>2 DEF ReadProposal, UpsertVote, ComputeTotals, MarkVoted, CommitVote, AnnounceVote,
                chamber, settings
  <2>3. CASE SummonMember(c) \/ SummonOfficial(c) \/ SummonCouncil(c) \/ mark_summon_delivered(c)
    BY <2>3 DEF SummonMember, SummonOfficial, SummonCouncil, RecordSummon, SendSummon,
                mark_summon_delivered, settings
  <2>4. CASE ReadConfig(c) \/ WriteConfig(c)
    BY <2>4 DEF ReadConfig, WriteConfig, chamber, settings
  <2>5. CASE FixAccount(c)
    BY <2>5 DEF FixAccount
  <2> QED  BY <1>1, <2>1, <2>2, <2>3, <2>4, <2>5 DEF Step
<1>2. ASSUME NEW c \in Callers, NEW r, NEW step, Begin(c, r, step) PROVE account' = account
  BY <1>2 DEF Begin, chamber, settings
<1>3. ASSUME NEW c \in Callers, NEW r \in agenda,
             \/ StartCreate(c, r) \/ StartCancel(c, r) \/ StartVote(c, r)
             \/ StartSummon(c, r) \/ SelectOfficial(c, r) \/ SelectCouncil(c, r)
             \/ config_speaker_role(c, r) \/ config_member_role(c, r)
      PROVE  account' = account
  BY <1>2, <1>3 DEF StartCreate, StartCancel, StartVote, StartSummon, SelectOfficial,
     SelectCouncil, BeginSummon, config_speaker_role, config_member_role, Configure
<1>4. ASSUME NEW c \in Callers, Fail(c) PROVE account' = account
  BY <1>4 DEF Fail, chamber, settings
<1>5. ASSUME SweepStep \/ SweepFails \/ Restart \/ \E p \in Proposals : Deadline(p)
      PROVE  account' = account
  BY <1>5 DEF SweepStep, ListDue, ExpireTally, ExpireMark, SweepFails, Restart, Deadline, settings
<1> QED  BY <1>1, <1>3, <1>4, <1>5 DEF Next, vars, chamber, settings

AccountTyped == account \in {"none", "old", "derived"}

DecisionInv ==
    SInv /\ VInv /\ Ballots /\ Backed /\ Room /\ MInv /\ AccountTyped

LEMMA DecisionInvAtFirst == Init => DecisionInv
BY SInvAtFirst, VInvAtFirst, BallotsAtFirst, BackedAtFirst, RoomAtFirst, MInvAtFirst
   DEF DecisionInv, AccountTyped, Init

LEMMA DecisionInvKept == DecisionInv /\ [Next]_vars => DecisionInv'
BY SInvKept, VInvKept, BallotsKept, BackedKept, RoomKept, MInvKept, AccountStays
   DEF DecisionInv, AccountTyped

LEMMA EnoughIsMost ==
    ASSUME VInv, Ballots, NEW p \in Proposals
    PROVE  /\ Enough(p, votes[p]) => 2 * Tally(votes[p], "approve") > Cardinality(snapshot[p])
           /\ Hopeless(p, votes[p]) =>
                 2 * (Cardinality(snapshot[p]) - Lost(votes[p])) <= Cardinality(snapshot[p])
<1>1. IsFiniteSet(DOMAIN votes[p]) /\ \A m \in DOMAIN votes[p] : votes[p][m] \in Choices
  BY AssemblyAssumption, FS_Subset DEF VInv, TablesTyped, Ballots
<1>2. Cardinality(snapshot[p]) \in Nat
  BY ThresholdType
<1>3. Tally(votes[p], "approve") \in Nat /\ Lost(votes[p]) \in Nat
  BY <1>1, EverybodyCounts
<1> QED  BY <1>2, <1>3 DEF Enough, Hopeless, Threshold

LEMMA TypesFollow == DecisionInv => TypeOK
<1> SUFFICES ASSUME DecisionInv PROVE TypeOK
  OBVIOUS
<1>1. /\ status \in [Proposals -> Statuses]
      /\ \A p \in Proposals : /\ snapshot[p] \subseteq Members
                              /\ DOMAIN votes[p] \subseteq snapshot[p]
                              /\ votes[p] \in [DOMAIN votes[p] -> Choices]
  BY DEF DecisionInv, VInv, TablesTyped, Ballots
<1>2. verdict \in [Callers -> Statuses] /\ sweep.listed \cup sweep.on \subseteq Proposals
  BY DEF DecisionInv, VInv, Made, Rounds
<1>3. summons \in [Summonses -> [status : {"none", "pending", "delivered"}, reached : BOOLEAN]]
  BY DEF DecisionInv, MInv, RowsAreKept, Rows
<1>4. at \in [Callers -> Steps] /\ {config, wanted} \subseteq [Parts -> Nat] /\ agenda \in Agendas
  BY DEF DecisionInv, SInv, Typed
<1> QED  BY <1>1, <1>2, <1>3, <1>4 DEF TypeOK, DecisionInv, AccountTyped

\* What the assembly records or announces has the votes: passed, those of more
\* than half of its snapshot; rejected, so many against or abstaining that it
\* never can, also counting votes that the deciding transaction did not see.
\* And no more proposals are open than the limit allows, but for creations that
\* counted at the same time (vote, expire_due_proposals, create_proposal).
THEOREM AssemblyDecides == Spec => []DecisionsAreSound
<1>1. ASSUME DecisionInv, NEW p \in Proposals, NEW s, Said(p, s)
      PROVE  Founded(s, p, votes[p])
  BY <1>1 DEF DecisionInv, Said, Backed
<1>2. ASSUME DecisionInv PROVE PassedHasMajority /\ RejectedIsHopeless
  BY <1>1, <1>2, EnoughIsMost
     DEF DecisionInv, PassedHasMajority, RejectedIsHopeless, Founded, Lost
<1>3. DecisionInv => LimitHolds
  BY DEF DecisionInv, Room, LimitHolds
<1>4. DecisionInv => DecisionsAreSound
  BY <1>2, <1>3, TypesFollow DEF DecisionsAreSound
<1> QED  BY DecisionInvAtFirst, DecisionInvKept, <1>4, PTL DEF Spec

-----------------------------------------------------------------------------
(* The panels *)

\* Where a refresh may stand, and on whose panel.
Where ==
    /\ \A r \in Refreshes :
          /\ drawing[r].at \in {"bind", "shown", "expired"} => r = "open"
          /\ drawing[r].at \in {"lay", "read"} => kind = "state_council"
          /\ drawing[r].at = "again" => r = "live" /\ kind = "council"
    /\ Gone => Chamber
    /\ bound <=> drawing["open"].at = "shown"
    /\ waiting > 0 => bound

\* Before a panel is opened nothing has been asked of it; a chamber's has one page.
Unopened ==
    kind = "none" =>
        /\ form = "none" /\ menus = 0 /\ ballots = 0 /\ notices = 0
        /\ work = [h \in Handlers |-> NoWork]
        /\ \A r \in Refreshes : drawing[r] = NoDraw
Overview ==
    kind # "state_council" =>
        page = "overview" /\ \A r \in Refreshes : drawing[r].page = "overview"

\* As long as nothing is excused, one refresh at most is at work; its menu is
\* still to come until it has laid it.
Alone ==
    excuse = {} =>
        /\ \A r, q \in Busy : r = q
        /\ \A r \in Busy : drawing[r].at \in {"permit", "lay"} => menus = 0

\* What a refresh has found out, and what is shown when none is at work.
UpToDate(r) ==
    /\ drawing[r].at = "lay" => drawing[r].allowed \subseteq allowed
    /\ drawing[r].at = "read" => drawing[r].page = page
    /\ drawing[r].at = "edit" => /\ drawing[r].page = page /\ drawing[r].facts = facts
                                 /\ Chamber => shelf = facts
    /\ drawing[r].at \in {"read", "edit"} => page \in allowed \union {"overview"}
    /\ drawing[r].at = "again" =>
          shelf = facts /\ screen = [page |-> page, facts |-> facts]
Shows ==
    /\ Chamber => shelf = facts
    /\ screen = [page |-> page, facts |-> facts]
    /\ page \in allowed \union {"overview"}
AtRest == notices = 0 /\ waiting = 0 /\ excuse = {} /\ ~Gone
Fresh ==
    AtRest => /\ \A r \in Busy : UpToDate(r)
              /\ Busy = {} => Shows

PanelInv == Where /\ Unopened /\ Overview /\ Alone /\ Fresh

\* What a callback of the form holds.
Sends == {"config", "call", "record", "tell"}
Sendings == [at : Sends, saw : Fields, sent : Fields, paid : Outcomes, alone : BOOLEAN]
ModalSendings == [at : {"call", "tell"}, saw : Fields, sent : Fields, paid : Outcomes,
                  named : Payees, alone : BOOLEAN]
Holds(w) ==
    /\ w.at = "idle" => w = NoWork
    /\ w.at = "answer" => w = [at |-> "answer"]
    /\ w.at = "edit" => w \in [at : {"edit"}, fields : Fields]
    /\ w.at = "modal" => w \in [at : {"modal"}, payee : Payees]
    /\ w.at \in Sends => IF Chamber THEN w \in ModalSendings
                         ELSE w \in Sendings /\ fields.payee \in Payees

\* What a callback that sends has sent is what was seen, and names who is told of.
Sincere(w) ==
    /\ w.at \in {"config", "call"} => w.paid = "nothing"
    /\ w.at \in {"record", "tell"} /\ form \notin DepartmentForms => w.paid # "nothing"
    /\ w.at \in {"record", "tell"} /\ w.paid = "part" => ~Chamber
    /\ w.at = "config" /\ w.alone => w.saw = fields
    /\ w.at \in {"call", "record", "tell"} /\ w.alone =>
          /\ w.sent = w.saw
          /\ IF Chamber THEN w.named = w.sent.payee ELSE w.sent = fields

\* Unless edits crossed: the last edit on its way, or else the form that is
\* seen, has the fields.
Answering == {h \in Handlers : work[h].at = "answer"}
Editing == {h \in Handlers : work[h].at = "edit"}
Drafted ==
    ~muddled => /\ \A g, h \in Editing : g = h
                /\ Answering = {} => /\ \A h \in Editing : work[h].fields = fields
                                     /\ Editing = {} => seen.fields = fields

FormInv ==
    /\ work = [h \in Handlers |-> work[h]]
    /\ \A h \in Handlers : Holds(work[h]) /\ Sincere(work[h])
    /\ Drafted /\ FormIsHonest

PanelsInv == PanelsTypeOK /\ PanelInv /\ FormInv

BusyStages == {"permit", "lay", "read", "edit", "again"}
DrawRec == [at : Stages, allowed : SUBSET Departments, page : Pages, facts : Counts]
ChamberForms == {"CouncilProposal", "AssemblyTransfer", "AssemblyProposal"}

LEMMA PanelsInvAtFirst == PanelsInit => PanelsInv
<1> SUFFICES ASSUME PanelsInit PROVE PanelsInv
  OBVIOUS
<1>1. PanelsTypeOK
  <2>1. NoDraw \in DrawRec
    BY DEF NoDraw, DrawRec, Stages, Pages, Counts
  <2>2. drawing \in [Refreshes -> DrawRec]
    BY <2>1 DEF PanelsInit
  <2>3. Blank \in Fields
    BY DEF Blank, Fields
  <2>4. seen \in [open : BOOLEAN, fields : Fields] /\ screen \in [page : Pages, facts : Counts]
    BY <2>3 DEF PanelsInit, Pages, Counts
  <2>5. \A h \in Handlers : work[h].at = "idle"
    BY DEF PanelsInit, NoWork
  <2>6. {facts, ballots, notices, waiting, acts, faults} \subseteq Nat /\ shelf \in Counts
    BY DEF PanelsInit, Counts
  <2>7. form = "none" /\ kind \in DOMAIN Forms \union {"none"} /\ receipt = NoReceipt
    BY DEF PanelsInit
  <2>8. /\ allowed \subseteq Departments /\ bound \in BOOLEAN /\ menus \in {0, 1}
        /\ page \in Pages /\ muddled \in BOOLEAN /\ excuse = {}
    BY DEF PanelsInit, Pages
  <2>9. fields \in Fields
    BY <2>3 DEF PanelsInit
  <2> QED  BY <2>2, <2>4, <2>5, <2>6, <2>7, <2>8, <2>9 DEF PanelsTypeOK, DrawRec
<1>2. \A r \in Refreshes :
         drawing[r] = NoDraw /\ drawing[r].at = "idle" /\ drawing[r].page = "overview"
  BY DEF PanelsInit, NoDraw
<1>3. "open" \in Refreshes /\ Busy = {}
  BY <1>2 DEF Refreshes, Busy
<1>4. PanelInv
  BY <1>2, <1>3
     DEF PanelsInit, PanelInv, Where, Unopened, Overview, Alone, Fresh, Shows, Chamber, Gone
<1>5. FormInv
  <2>1. \A h \in Handlers : work[h] = NoWork /\ work[h].at = "idle"
    BY DEF PanelsInit, NoWork
  <2>2. \A h \in Handlers : Holds(work[h]) /\ Sincere(work[h])
    BY <2>1 DEF Holds, Sincere, Sends
  <2>3. Drafted
    BY <2>1 DEF PanelsInit, Drafted, Editing, Answering
  <2>4. FormIsHonest
    BY DEF PanelsInit, FormIsHonest, SentWasSeen, ToldTheTruth
  <2> QED  BY <2>1, <2>2, <2>3, <2>4 DEF FormInv, PanelsInit
<1> QED  BY <1>1, <1>4, <1>5 DEF PanelsInv

\* What a step does to the refreshes.
LEMMA Redrawn ==
    ASSUME drawing \in [Refreshes -> DrawRec], NEW r \in Refreshes, NEW d \in DrawRec,
           drawing' = [drawing EXCEPT ![r] = d]
    PROVE  /\ drawing' \in [Refreshes -> DrawRec]
           /\ drawing'[r] = d /\ \A q \in Refreshes \ {r} : drawing'[q] = drawing[q]
           /\ Busy' = IF d.at \in BusyStages THEN Busy \union {r} ELSE Busy \ {r}
BY DEF Busy, BusyStages

\* What is not about the form leaves it as it was.
LEMMA FormStays ==
    ASSUME FormInv, UNCHANGED sheet,
           kind' = kind \/ work = [h \in Handlers |-> NoWork]
    PROVE  FormInv'
<1> USE DEF sheet
<1>1. \A h \in Handlers : (Holds(work[h]) /\ Sincere(work[h]))'
  <2>1. CASE kind' = kind
    BY <2>1 DEF FormInv, Holds, Sincere, Chamber, Fields
  <2>2. CASE work = [h \in Handlers |-> NoWork]
    <3>1. \A h \in Handlers : work'[h] = NoWork /\ work'[h].at = "idle"
      BY <2>2 DEF NoWork
    <3> QED  BY <3>1 DEF Holds, Sincere, Sends
  <2> QED  BY <2>1, <2>2
<1>2. Drafted'
  BY DEF FormInv, Drafted, Editing, Answering
<1>3. FormIsHonest'
  BY DEF FormInv, FormIsHonest, SentWasSeen, ToldTheTruth, NoReceipt
<1> QED  BY <1>1, <1>2, <1>3 DEF FormInv

\* The form leaves the panel as it was, but for news of what it has done.
LEMMA PanelStays ==
    ASSUME PanelsInv, UNCHANGED <<panel, kind>>, kind # "none",
           UNCHANGED facts \/ notices' = notices + 1,
           notices' = notices \/ notices' = notices + 1
    PROVE  PanelInv'
<1>1. notices \in Nat /\ PanelInv /\ Busy' = Busy /\ Gone' = Gone /\ Chamber' = Chamber
  BY DEF PanelsInv, PanelsTypeOK, Busy, panel, Gone, Chamber
<1>2. (Where /\ Unopened /\ Overview /\ Alone)'
  BY <1>1 DEF PanelInv, Where, Unopened, Overview, Alone, panel
<1>3. Fresh'
  <2> SUFFICES ASSUME AtRest' PROVE Fresh'
    BY DEF Fresh
  <2>1. notices' = notices /\ facts' = facts /\ AtRest
    BY <1>1 DEF AtRest, panel
  <2>2. \A r \in Busy : UpToDate(r) => UpToDate(r)'
    BY <1>1, <2>1 DEF UpToDate, panel
  <2>3. Shows => Shows'
    BY <1>1, <2>1 DEF Shows, panel
  <2> QED  BY <1>1, <2>1, <2>2, <2>3 DEF PanelInv, Fresh
<1> QED  BY <1>2, <1>3 DEF PanelInv

\* One step of a refresh that is at work.
LEMMA StepMade ==
    ASSUME PanelsInv, NEW r \in Refreshes, NEW step \in Stages, drawing' = To(r, step)
    PROVE  LET d == [drawing[r] EXCEPT !.at = step] IN
           /\ d \in DrawRec /\ d.at = step /\ d.page = drawing[r].page
           /\ drawing' = [drawing EXCEPT ![r] = d]
BY DEF PanelsInv, PanelsTypeOK, DrawRec, To

\* Nothing was at work, or what is excused.
LEMMA AloneIsKept ==
    ASSUME PanelInv, NEW r \in Busy, excuse = {}
    PROVE  Busy = {r}
BY DEF PanelInv, Alone

LEMMA NothingDrawn == NoDraw \in DrawRec /\ NoDraw.at = "idle" /\ NoDraw.page = "overview"
BY DEF NoDraw, DrawRec, Stages, Pages, Counts

LEMMA PanelTyped ==
    ASSUME PanelsTypeOK
    PROVE  /\ drawing \in [Refreshes -> DrawRec]
           /\ \A r \in Refreshes : drawing[r] \in DrawRec
           /\ {"open", "live"} \subseteq Refreshes
           /\ facts \in Nat /\ notices \in Nat /\ waiting \in Nat /\ ballots \in Nat
           /\ {facts, Unread, shelf} \subseteq Counts
BY DEF PanelsTypeOK, DrawRec, Refreshes, Counts

LEMMA OpenKeepsPanel ==
    ASSUME PanelsInv, NEW k \in DOMAIN Forms, Open(k)
    PROVE  PanelInv'
<1> DEFINE d == [drawing["open"] EXCEPT !.at = "permit"]
<1>1. /\ d \in DrawRec /\ d.at = "permit" /\ d.page = drawing["open"].page
      /\ drawing' = [drawing EXCEPT !["open"] = d]
  BY StepMade, PanelTyped DEF Open, Stages, PanelsInv
<1>2. kind = "none" /\ Unopened /\ Overview /\ \A r \in Refreshes : drawing[r] = NoDraw
  BY DEF PanelsInv, PanelInv, Open, Unopened
<1>3. /\ drawing'["open"] = d
      /\ \A r \in Refreshes \ {"open"} : drawing'[r] = NoDraw
      /\ Busy = {} /\ Busy' = {"open"}
  BY <1>1, <1>2, Redrawn, PanelTyped, NothingDrawn DEF PanelsInv, BusyStages, Busy
<1>4. k \in {"state_council", "council", "assembly"} /\ kind' = k
  BY DEF Open, Forms
<1>5. Where'
  BY <1>1, <1>2, <1>3, <1>4, NothingDrawn, PanelTyped DEF Where, PanelsInv, PanelInv, Open, Gone
<1>6. Unopened' /\ Overview'
  BY <1>1, <1>2, <1>3, <1>4, NothingDrawn DEF Unopened, Overview, Open
<1>7. Alone'
  BY <1>1, <1>2, <1>3 DEF Alone, Open, Unopened
<1>8. Fresh'
  BY <1>1, <1>3 DEF Fresh, UpToDate
<1> QED  BY <1>5, <1>6, <1>7, <1>8 DEF PanelInv

\* A refresh begins, for a page that is chosen or because of news.
LEMMA BeginKeepsPanel ==
    ASSUME PanelsInv, NEW r \in Refreshes \ {"open"}, BeginRefresh(r),
           UNCHANGED <<kind, allowed, bound, facts, notices, screen, shelf, form, work>>,
           kind # "none", kind = "state_council" \/ page' = page,
           waiting' = waiting \/ (waiting > 0 /\ waiting' = waiting - 1)
    PROVE  PanelInv'
<1> DEFINE d == [drawing[r] EXCEPT !.at = "permit"]
<1>1. /\ d \in DrawRec /\ d.at = "permit" /\ d.page = drawing[r].page
      /\ drawing' = [drawing EXCEPT ![r] = d]
  BY StepMade DEF BeginRefresh, Stages, PanelsInv
<1>2. /\ drawing'[r] = d /\ \A q \in Refreshes \ {r} : drawing'[q] = drawing[q]
      /\ Busy' = Busy \union {r}
  BY <1>1, Redrawn, PanelTyped DEF PanelsInv, BusyStages
<1>3. Where /\ Overview /\ drawing'["open"] = drawing["open"] /\ waiting \in Nat
  BY <1>2, PanelTyped DEF PanelsInv, PanelInv
<1>4. Where' /\ Unopened' /\ Overview'
  BY <1>1, <1>2, <1>3 DEF Where, Unopened, Overview, Gone, Chamber
<1>5. excuse' = {} => Busy' = {r}
  BY <1>2 DEF BeginRefresh
<1>6. Alone'
  BY <1>1, <1>2, <1>5 DEF Alone, BeginRefresh
<1>7. Fresh'
  <2> SUFFICES ASSUME AtRest' PROVE Fresh'
    BY DEF Fresh
  <2>1. Busy' = {r} /\ drawing'[r].at = "permit"
    BY <1>1, <1>2, <1>5 DEF AtRest
  <2> QED  BY <2>1 DEF Fresh, UpToDate
<1> QED  BY <1>4, <1>6, <1>7 DEF PanelInv

\* A refresh goes on: it is still one of those at work, or has ended.
LEMMA RefreshGoesOn ==
    ASSUME PanelsInv, NEW r \in Busy, NEW d \in DrawRec,
           drawing' = [drawing EXCEPT ![r] = d],
           UNCHANGED <<kind, allowed, bound, waiting, facts, notices, form, work>>,
           excuse \subseteq excuse', excuse = {} \/ excuse' # {},
           d.at = "bind" => r = "open",
           d.at \in {"lay", "read"} => kind = "state_council",
           d.at = "again" => r = "live" /\ kind = "council",
           d.at \notin {"shown", "expired"},
           kind # "state_council" => page' = page /\ d.page = "overview",
           excuse' = {} /\ d.at \in {"permit", "lay"} => menus' = 0,
           (AtRest /\ AtRest' /\ UpToDate(r) /\ drawing'[r] = d) =>
               IF d.at \in BusyStages THEN UpToDate(r)' ELSE Shows'
    PROVE  PanelInv'
<1>1. r \in Refreshes
  BY DEF Busy
<1>2. /\ drawing'[r] = d /\ \A q \in Refreshes \ {r} : drawing'[q] = drawing[q]
      /\ Busy' = IF d.at \in BusyStages THEN Busy \union {r} ELSE Busy \ {r}
  BY <1>1, Redrawn, PanelTyped DEF PanelsInv
<1>3. /\ drawing[r].at \in BusyStages
      /\ Where /\ Unopened /\ Overview /\ Alone /\ Fresh /\ {"open", "live"} \subseteq Refreshes
  BY PanelTyped DEF PanelsInv, PanelInv, Busy, BusyStages
<1>4. Gone' = Gone /\ (drawing'["open"].at = "shown" <=> drawing["open"].at = "shown")
  BY <1>2, <1>3 DEF Gone, BusyStages
<1>5. Where'
  BY <1>2, <1>3, <1>4 DEF Where, Chamber
<1>6. kind # "none"
  BY <1>1, <1>3 DEF Unopened, NoDraw, BusyStages
<1>7. Unopened' /\ Overview'
  BY <1>2, <1>3, <1>6 DEF Unopened, Overview
<1>8. excuse' = {} => excuse = {} /\ Busy = {r} /\ Busy' = IF d.at \in BusyStages THEN {r} ELSE {}
  BY <1>2, AloneIsKept DEF PanelsInv
<1>9. Alone'
  BY <1>2, <1>8 DEF Alone
<1>10. Fresh'
  <2> SUFFICES ASSUME AtRest' PROVE Fresh'
    BY DEF Fresh
  <2>1. excuse' = {} /\ excuse = {} /\ AtRest
    BY <1>4, <1>8 DEF AtRest
  <2>2. UpToDate(r)
    BY <1>3, <2>1 DEF Fresh
  <2> QED  BY <1>2, <1>8, <2>1, <2>2 DEF Fresh
<1> QED  BY <1>5, <1>7, <1>9, <1>10 DEF PanelInv

\* The stages of a refresh that has read nothing that was done.
Early == {"permit", "lay", "read"}

\* What happens to the facts, the settings and the notices while no refresh moves.
LEMMA NewsKeepPanel ==
    ASSUME PanelsInv, kind # "none",
           UNCHANGED <<kind, bound, page, menus, drawing, screen, shelf>>,
           excuse \subseteq excuse', waiting' > 0 => bound,
           AtRest' => /\ AtRest /\ UNCHANGED allowed
                      /\ UNCHANGED facts \/ (Busy # {} /\ \A r \in Busy : drawing[r].at \in Early)
    PROVE  PanelInv'
<1>1. Where /\ Unopened /\ Overview /\ Alone /\ Fresh
  BY DEF PanelsInv, PanelInv
<1>2. Busy' = Busy /\ Gone' = Gone /\ Chamber' = Chamber
  BY DEF Busy, Gone, Chamber
<1>3. (Where /\ Unopened /\ Overview /\ Alone)'
  BY <1>1, <1>2 DEF Where, Unopened, Overview, Alone
<1>4. Fresh'
  <2> SUFFICES ASSUME AtRest' PROVE Fresh'
    BY DEF Fresh
  <2>1. CASE UNCHANGED facts
    <3>1. \A r \in Busy : UpToDate(r) => UpToDate(r)'
      BY <1>2, <2>1 DEF UpToDate
    <3>2. Shows => Shows'
      BY <1>2, <2>1 DEF Shows
    <3> QED  BY <1>1, <1>2, <3>1, <3>2 DEF Fresh
  <2>2. CASE Busy # {} /\ \A r \in Busy : drawing[r].at \in Early
    <3>1. \A r \in Busy : UpToDate(r) => UpToDate(r)'
      BY <1>2, <2>2 DEF UpToDate, Early
    <3> QED  BY <1>1, <1>2, <2>2, <3>1 DEF Fresh
  <2> QED  BY <2>1, <2>2
<1> QED  BY <1>3, <1>4 DEF PanelInv

LEMMA UntoldKeepsPanel ==
    ASSUME PanelsInv, kind # "none", CommitUntold
    PROVE  PanelInv'
<1>1. /\ UNCHANGED <<kind, bound, page, menus, drawing, screen, shelf>>
      /\ UNCHANGED <<allowed, notices, waiting>> /\ excuse \subseteq excuse'
  BY DEF CommitUntold
<1>2. waiting' > 0 => bound
  BY <1>1 DEF PanelsInv, PanelInv, Where
<1>3. ASSUME AtRest'
      PROVE  AtRest /\ Busy # {} /\ \A r \in Busy : drawing[r].at \in Early
  <2>1. notices \in Nat /\ waiting \in Nat /\ notices = 0 /\ waiting = 0
    BY <1>1, <1>3, PanelTyped DEF AtRest, PanelsInv
  <2>2. excuse' = {} /\ excuse = {}
    BY <1>1, <1>3 DEF AtRest
  <2>3. YetToRead
    BY <2>2 DEF CommitUntold
  <2>4. PICK q \in Refreshes : drawing[q].at \in Early
    BY <2>1, <2>3 DEF YetToRead, Early
  <2>5. q \in Busy
    BY <2>4 DEF Busy, Early
  <2>6. Busy = {q}
    BY <2>2, <2>5, AloneIsKept DEF PanelsInv
  <2>7. AtRest
    BY <1>1, <1>3, <2>2 DEF AtRest, Gone
  <2> QED  BY <2>4, <2>6, <2>7
<1> QED  BY <1>1, <1>2, <1>3, NewsKeepPanel

LEMMA NewsSteps ==
    ASSUME PanelsInv,
           \/ Others \/ CastBallot \/ CommitBallot \/ Publish \/ LoseNotice
           \/ \E d \in Departments : Reconfigure(d)
    PROVE  PanelInv'
<1>1. notices \in Nat /\ waiting \in Nat /\ ballots \in Nat /\ {"open", "live"} \subseteq Refreshes
  BY PanelTyped DEF PanelsInv
<1>2. Where /\ Unopened /\ Alone
  BY DEF PanelsInv, PanelInv
<1>3. CASE Others
  BY <1>1, <1>2, <1>3, NewsKeepPanel DEF Others, Chamber, AtRest, panel, sheet, Where
<1>4. CASE CastBallot
  <2>1. kind # "none" /\ (waiting' > 0 => bound) /\ (AtRest' => AtRest)
    BY <1>1, <1>2, <1>4 DEF CastBallot, Hear, AtRest, Where, Gone
  <2>2. /\ UNCHANGED <<kind, bound, page, menus, drawing, screen, shelf, form, work>>
        /\ UNCHANGED allowed /\ UNCHANGED facts /\ excuse \subseteq excuse'
    BY <1>4 DEF CastBallot, sheet
  <2>3. AtRest' => /\ AtRest /\ UNCHANGED allowed
                   /\ UNCHANGED facts \/ (Busy # {} /\ \A r \in Busy : drawing[r].at \in Early)
    BY <2>1, <2>2
  <2> QED  BY <2>1, <2>2, <2>3, NewsKeepPanel
<1>5. CASE CommitBallot
  <2>1. kind # "none"
    BY <1>2, <1>5 DEF CommitBallot, Unopened
  <2> QED  BY <1>5, <2>1, UntoldKeepsPanel DEF CommitBallot
<1>6. CASE Publish
  <2>1. kind # "none" /\ (waiting' > 0 => bound) /\ ~AtRest'
    BY <1>1, <1>2, <1>6 DEF Publish, Hear, AtRest, Where, Unopened
  <2> QED  BY <1>6, <2>1, NewsKeepPanel DEF Publish, sheet
<1>7. CASE LoseNotice
  <2>1. kind # "none" /\ (waiting' > 0 => bound) /\ ~AtRest'
    BY <1>1, <1>2, <1>7 DEF LoseNotice, AtRest, Where
  <2> QED  BY <1>7, <2>1, NewsKeepPanel DEF LoseNotice, sheet
<1>8. CASE \E d \in Departments : Reconfigure(d)
  <2>1. kind # "none" /\ (waiting' > 0 => bound) /\ ~AtRest'
    BY <1>1, <1>2, <1>8 DEF Reconfigure, AtRest, Where
  <2> QED  BY <1>8, <2>1, NewsKeepPanel DEF Reconfigure, sheet
<1> QED  BY <1>3, <1>4, <1>5, <1>6, <1>7, <1>8

\* The steps of a refresh.
LEMMA DrawnIs ==
    ASSUME PanelsInv, NEW r \in Refreshes
    PROVE  \E d \in DrawRec :
              /\ Drawn(r) = [drawing EXCEPT ![r] = d] /\ d.page = "overview"
              /\ d.at = IF r = "open" THEN "bind"
                        ELSE IF r = "live" /\ kind = "council" THEN "again" ELSE "idle"
<1> DEFINE step == IF r = "open" THEN "bind"
                   ELSE IF r = "live" /\ kind = "council" THEN "again" ELSE "idle"
           d == [NoDraw EXCEPT !.at = step]
<1>1. Drawn(r) = [drawing EXCEPT ![r] = d]
  <2>1. CASE r = "open"
    BY <2>1, Zenon DEF Drawn
  <2>2. CASE r # "open" /\ r = "live" /\ kind = "council"
    BY <2>2, Zenon DEF Drawn
  <2>3. CASE r # "open" /\ ~(r = "live" /\ kind = "council")
    BY <2>3, Zenon DEF Drawn
  <2> QED  BY <2>1, <2>2, <2>3
<1>2. d \in DrawRec /\ d.page = "overview" /\ d.at = step
  BY DEF NoDraw, DrawRec, Stages, Pages, Counts
<1> QED  BY <1>1, <1>2

LEMMA RefreshSteps ==
    ASSUME PanelsInv, NEW r \in Refreshes, Refreshing(r) \/ Failing(r)
    PROVE  PanelInv'
<1> DEFINE At(step) == [drawing[r] EXCEPT !.at = step]
<1>1. /\ PanelsTypeOK /\ Where /\ Unopened /\ Overview /\ Alone /\ Fresh
      /\ drawing[r] \in DrawRec /\ {"open", "live"} \subseteq Refreshes
  BY PanelTyped DEF PanelsInv, PanelInv
<1>2. drawing[r].at \in BusyStages => r \in Busy
  BY DEF Busy, BusyStages
<1>3. ASSUME Permit(r) PROVE PanelInv'
  <2> DEFINE d == [At("lay") EXCEPT !.allowed = allowed]
  <2>1. /\ r \in Busy /\ d \in DrawRec /\ drawing' = [drawing EXCEPT ![r] = d]
        /\ d.at = "lay" /\ d.allowed = allowed
    BY <1>1, <1>2, <1>3 DEF Permit, DrawRec, Stages, BusyStages, PanelsTypeOK
  <2>2. excuse = {} => menus = 0
    BY <1>3, <2>1, <1>1 DEF Permit, Alone
  <2>3. drawing'[r] = d => UpToDate(r)'
    BY <1>3, <2>1 DEF UpToDate, Permit
  <2> HIDE DEF d
  <2> QED  BY <1>3, <2>1, <2>2, <2>3, RefreshGoesOn DEF Permit, news, sheet, BusyStages
<1>4. ASSUME Lay(r) PROVE PanelInv'
  <2>1. kind = "state_council" /\ r \in Busy
    BY <1>1, <1>2, <1>4 DEF Lay, Where, BusyStages
  <2>2. CASE menus = 0
    <3> DEFINE d == [NoDraw EXCEPT !.at = "read", !.page = page']
    <3>1. /\ d \in DrawRec /\ drawing' = [drawing EXCEPT ![r] = d]
          /\ d.at = "read" /\ d.page = page'
      BY <1>1, <1>4, <2>2 DEF Lay, NoDraw, DrawRec, Stages, Pages, Counts, PanelsTypeOK
    <3>2. UpToDate(r) /\ drawing'[r] = d => UpToDate(r)'
      BY <1>4, <3>1 DEF UpToDate, Lay
    <3> HIDE DEF d
    <3> QED  BY <1>4, <2>1, <3>1, <3>2, RefreshGoesOn DEF Lay, news, sheet, BusyStages
  <2>3. CASE menus # 0
    <3>1. excuse # {}
      BY <1>1, <1>4, <2>1, <2>3 DEF Lay, Alone
    <3>2. NoDraw \in DrawRec /\ NoDraw.at = "idle" /\ drawing' = [drawing EXCEPT ![r] = NoDraw]
      BY <1>4, <2>3, NothingDrawn DEF Lay
    <3>3. ~AtRest
      BY <3>1 DEF AtRest
    <3> QED  BY <1>4, <2>1, <3>1, <3>2, <3>3, RefreshGoesOn DEF Lay, news, sheet, BusyStages
  <2> QED  BY <2>2, <2>3
<1>5. ASSUME ReadSummary(r) PROVE PanelInv'
  <2> DEFINE d == [At("edit") EXCEPT !.facts = facts]
  <2>1. /\ r \in Busy /\ d \in DrawRec /\ drawing' = [drawing EXCEPT ![r] = d]
        /\ d.at = "edit" /\ d.facts = facts /\ d.page = drawing[r].page
    BY <1>1, <1>2, <1>5, PanelTyped DEF ReadSummary, DrawRec, Stages, BusyStages
  <2>2. kind = "state_council"
    BY <1>1, <1>5 DEF ReadSummary, Where
  <2>3. UpToDate(r) /\ drawing'[r] = d => UpToDate(r)'
    BY <1>5, <2>1, <2>2 DEF UpToDate, ReadSummary, Chamber, news
  <2> HIDE DEF d
  <2> QED  BY <1>5, <2>1, <2>2, <2>3, RefreshGoesOn DEF ReadSummary, news, sheet, BusyStages
<1>6. ASSUME ListProposals(r), Chamber PROVE PanelInv'
  <2> DEFINE d == [At("edit") EXCEPT !.facts = facts]
  <2>1. /\ r \in Busy /\ d \in DrawRec /\ drawing' = [drawing EXCEPT ![r] = d]
        /\ d.at = "edit" /\ d.facts = facts /\ d.page = drawing[r].page
    BY <1>1, <1>2, <1>6, PanelTyped DEF ListProposals, DrawRec, Stages, BusyStages
  <2>2. d.page = "overview" /\ page = "overview"
    BY <1>1, <1>6, <2>1 DEF Chamber, Overview
  <2>3. drawing'[r] = d => UpToDate(r)'
    BY <1>6, <2>1, <2>2 DEF UpToDate, ListProposals, news, Chamber
  <2> HIDE DEF d
  <2> QED  BY <1>6, <2>1, <2>2, <2>3, RefreshGoesOn DEF ListProposals, news, sheet, BusyStages
<1>7. ASSUME ListAgain PROVE PanelInv'
  <2>1. "live" \in Busy /\ kind = "council" /\ page = "overview"
    BY <1>1, <1>7 DEF ListAgain, Busy, Where, Overview
  <2>2. UpToDate("live") => Shows'
    BY <1>7, <2>1 DEF UpToDate, Shows, ListAgain, news, Chamber
  <2> QED  BY <1>7, <2>1, <2>2, NothingDrawn, RefreshGoesOn DEF ListAgain, news, sheet, BusyStages
<1>8. PICK d \in DrawRec :
         /\ Drawn(r) = [drawing EXCEPT ![r] = d] /\ d.page = "overview"
         /\ d.at = IF r = "open" THEN "bind"
                   ELSE IF r = "live" /\ kind = "council" THEN "again" ELSE "idle"
  BY DrawnIs
<1>9. ASSUME Draw(r) PROVE PanelInv'
  <2>1. r \in Busy
    BY <1>2, <1>9 DEF Draw, BusyStages
  <2>2. UpToDate(r) => Shows'
    BY <1>9 DEF UpToDate, Shows, Draw, Chamber, news
  <2>3. UpToDate(r) /\ drawing'[r] = d =>
           IF d.at \in BusyStages THEN UpToDate(r)' ELSE Shows'
    BY <1>8, <1>9, <2>2 DEF UpToDate, Draw, BusyStages, news, Chamber
  <2> QED  BY <1>8, <1>9, <2>1, <2>3, RefreshGoesOn DEF Draw, news, sheet, BusyStages
<1>10. ASSUME DrawRefused(r) PROVE PanelInv'
  <2>1. r \in Busy /\ ~AtRest' /\ excuse' # {}
    BY <1>2, <1>10 DEF DrawRefused, BusyStages, AtRest
  <2> QED  BY <1>8, <1>10, <2>1, RefreshGoesOn DEF DrawRefused, news, sheet, BusyStages
<1>11. ASSUME r = "live", DrawNothing PROVE PanelInv'
  <2>1. r \in Busy /\ ~AtRest
    BY <1>2, <1>11 DEF DrawNothing, BusyStages, AtRest
  <2> QED  BY <1>8, <1>11, <2>1, RefreshGoesOn DEF DrawNothing, news, sheet, BusyStages
<1>12. ASSUME NEW denied, PermitFails(r, denied) PROVE PanelInv'
  <2> DEFINE e == [At("lay") EXCEPT !.allowed = allowed \ denied]
  <2>1. /\ r \in Busy /\ e \in DrawRec /\ drawing' = [drawing EXCEPT ![r] = e]
        /\ e.at = "lay" /\ e.allowed = allowed \ denied
    BY <1>1, <1>2, <1>12 DEF PermitFails, DrawRec, Stages, BusyStages, PanelsTypeOK
  <2>2. excuse = {} => menus = 0
    BY <1>12, <2>1, <1>1 DEF PermitFails, Alone
  <2>3. drawing'[r] = e => UpToDate(r)'
    BY <1>12, <2>1 DEF UpToDate, PermitFails
  <2> HIDE DEF e
  <2> QED  BY <1>12, <2>1, <2>2, <2>3, RefreshGoesOn DEF PermitFails, news, sheet, BusyStages
<1>13. ASSUME SummaryFails(r) \/ ListFails(r) PROVE PanelInv'
  <2> DEFINE e == [At("edit") EXCEPT !.facts = Unread]
  <2>1. /\ r \in Busy /\ e \in DrawRec /\ drawing' = [drawing EXCEPT ![r] = e]
        /\ e.at = "edit" /\ e.page = drawing[r].page
    BY <1>1, <1>2, <1>13, PanelTyped
       DEF SummaryFails, ListFails, DrawRec, Stages, BusyStages
  <2>2. ~AtRest' /\ excuse' # {} /\ excuse \subseteq excuse'
    BY <1>13 DEF SummaryFails, ListFails, AtRest
  <2>3. kind # "state_council" => e.page = "overview"
    BY <1>1, <2>1 DEF Overview
  <2>4. UNCHANGED <<kind, allowed, bound, waiting, facts, notices, form, work, page>>
    BY <1>13 DEF SummaryFails, ListFails, news, sheet
  <2> HIDE DEF e
  <2> QED  BY <2>1, <2>2, <2>3, <2>4, RefreshGoesOn DEF BusyStages
<1>14. ASSUME ListAgainFails PROVE PanelInv'
  <2>1. "live" \in Busy /\ kind = "council" /\ page = "overview"
    BY <1>1, <1>14 DEF ListAgainFails, Busy, Where, Overview
  <2>2. AtRest /\ UpToDate("live") => Shows'
    BY <1>14, <2>1 DEF UpToDate, Shows, ListAgainFails, news, Chamber
  <2> QED
    BY <1>14, <2>1, <2>2, NothingDrawn, RefreshGoesOn DEF ListAgainFails, news, sheet, BusyStages
<1>15. CASE Refreshing(r)
  BY <1>3, <1>4, <1>5, <1>6, <1>7, <1>9, <1>11, <1>15
     DEF Refreshing, StateCouncilPanelView, CouncilPanelView, SupremeAssemblyPanelView,
         ListCouncil, ListAssembly, Chamber
<1>16. CASE Failing(r)
  BY <1>10, <1>12, <1>13, <1>14, <1>16 DEF Failing
<1> QED  BY <1>15, <1>16

\* The rest of the panel.
LEMMA OtherPanelSteps ==
    ASSUME PanelsInv,
           \/ Bind \/ Expire \/ LiveUpdate
           \/ \E r \in Clickers, p \in Pages : Navigate(r, p)
    PROVE  PanelInv'
<1>1. /\ PanelsTypeOK /\ Where /\ Unopened /\ Overview /\ Alone /\ Fresh
      /\ drawing \in [Refreshes -> DrawRec] /\ {"open", "live"} \subseteq Refreshes
      /\ waiting \in Nat
  BY PanelTyped DEF PanelsInv, PanelInv
<1>2. CASE Bind
  <2> DEFINE d == [NoDraw EXCEPT !.at = "shown"]
  <2>1. /\ d \in DrawRec /\ d.at = "shown" /\ d.page = "overview"
        /\ drawing' = [drawing EXCEPT !["open"] = d]
    BY <1>2 DEF Bind, NoDraw, DrawRec, Stages, Pages, Counts
  <2> HIDE DEF d
  <2>2. /\ drawing'["open"] = d /\ \A q \in Refreshes \ {"open"} : drawing'[q] = drawing[q]
        /\ Busy' = Busy /\ drawing["open"].at = "bind"
    BY <1>1, <1>2, <2>1, Redrawn DEF Bind, Busy, BusyStages
  <2>3. kind # "none" /\ ~bound /\ ~Gone /\ ~Gone'
    BY <1>1, <1>2, <2>1, <2>2 DEF Bind, Unopened, NoDraw, Where, Gone
  <2>4. Where'
    BY <1>1, <1>2, <2>1, <2>2, <2>3 DEF Bind, Where, news, sheet
  <2>5. Unopened' /\ Overview'
    BY <1>1, <1>2, <2>1, <2>2, <2>3 DEF Bind, Unopened, Overview, news
  <2>6. Alone'
    BY <1>1, <1>2, <2>2 DEF Bind, Alone, Busy
  <2>7. Fresh'
    <3>1. AtRest' => AtRest
      BY <1>2, <2>3 DEF Bind, AtRest, news
    <3>2. \A r \in Busy : drawing'[r] = drawing[r]
      BY <2>2 DEF Busy
    <3>3. \A r \in Busy : UpToDate(r) => UpToDate(r)'
      BY <1>2, <3>2 DEF UpToDate, Bind, Chamber, news
    <3>4. Shows => Shows'
      BY <1>2 DEF Shows, Bind, Chamber, news
    <3> QED  BY <1>1, <2>2, <3>1, <3>3, <3>4 DEF Fresh
  <2> QED  BY <2>4, <2>5, <2>6, <2>7 DEF PanelInv
<1>3. CASE Expire
  <2> DEFINE d == [drawing["open"] EXCEPT !.at = "expired"]
  <2>1. /\ d \in DrawRec /\ d.at = "expired" /\ d.page = drawing["open"].page
        /\ drawing' = [drawing EXCEPT !["open"] = d]
    BY <1>1, <1>3, StepMade DEF Expire, Stages
  <2> HIDE DEF d
  <2>2. /\ drawing'["open"] = d /\ \A q \in Refreshes \ {"open"} : drawing'[q] = drawing[q]
        /\ Busy' = Busy /\ drawing["open"].at = "shown"
    BY <1>1, <1>3, <2>1, Redrawn DEF Expire, Busy, BusyStages
  <2>3. kind # "none" /\ Chamber /\ Chamber' /\ Gone'
    BY <1>3, <2>1, <2>2 DEF Expire, Chamber, Gone, news
  <2>4. Where' /\ Unopened' /\ Overview' /\ Alone'
    BY <1>1, <1>3, <2>1, <2>2, <2>3 DEF Expire, Where, Unopened, Overview, Alone, Busy, news, sheet
  <2>5. Fresh'
    BY <2>3 DEF Fresh, AtRest
  <2> QED  BY <2>4, <2>5 DEF PanelInv
<1>4. CASE LiveUpdate
  <2>1. kind # "none"
    BY <1>1, <1>4 DEF LiveUpdate, Where, Unopened, NoDraw
  <2>2. "live" \in Refreshes \ {"open"}
    BY <1>1
  <2> QED  BY <1>4, <2>1, <2>2, BeginKeepsPanel DEF LiveUpdate, news, sheet
<1>5. ASSUME NEW r \in Clickers, NEW p \in Pages, Navigate(r, p) PROVE PanelInv'
  <2>1. r \in Refreshes \ {"open"}
    BY PanelsAssumption DEF Refreshes
  <2> QED  BY <1>5, <2>1, BeginKeepsPanel DEF Navigate, news, sheet
<1> QED  BY <1>2, <1>3, <1>4, <1>5

\* Types: of the form, and of the rest.
WorkStages == {"idle", "answer", "edit", "config", "modal", "call", "record", "tell"}
Receipts == {NoReceipt} \union
            [saw : Fields, sent : Fields, paid : Outcomes, alone : BOOLEAN,
             told : Payees \union {"failed", "part"}, mishap : BOOLEAN]
SheetTyped ==
    /\ form # "none" => form \in Forms[kind]
    /\ fields \in Fields /\ seen \in [open : BOOLEAN, fields : Fields]
    /\ \A h \in Handlers : work[h].at \in WorkStages
    /\ muddled \in BOOLEAN /\ receipt \in Receipts
PanelTyping ==
    /\ {facts, ballots, notices, waiting, acts, faults} \subseteq Nat /\ shelf \in Counts
    /\ kind \in DOMAIN Forms \union {"none"}
    /\ allowed \subseteq Departments /\ bound \in BOOLEAN /\ menus \in {0, 1}
    /\ page \in Pages /\ screen \in [page : Pages, facts : Counts]
    /\ drawing \in [Refreshes -> DrawRec]
    /\ excuse \subseteq {"overlap", "missed", "refused", "early", "failed"}

LEMMA TypingSplit == PanelsTypeOK <=> PanelTyping /\ SheetTyped
BY DEF PanelsTypeOK, PanelTyping, SheetTyped, DrawRec, WorkStages, Receipts

\* Only the state council's panel has forms with fields of their own.
CabinetForms == Forms["state_council"]
LEMMA WhoseForm ==
    ASSUME PanelsInv
    PROVE  /\ form \in ChamberForms => Chamber /\ kind # "none"
           /\ form \in CabinetForms => ~Chamber /\ kind = "state_council"
           /\ kind = "none" => form = "none"
<1>1. /\ kind \in {"state_council", "council", "assembly", "none"}
      /\ form # "none" => form \in Forms[kind]
      /\ kind = "none" => form = "none"
  BY DEF PanelsInv, PanelInv, Unopened, PanelsTypeOK, Forms
<1>2. /\ Forms["council"] = {"CouncilProposal"}
      /\ Forms["assembly"] = {"AssemblyTransfer", "AssemblyProposal"}
      /\ Forms["state_council"] = {"FromStateCouncil", "DepartmentToDepartment",
                                   "DepartmentToCompany", "DepartmentToUser"}
  BY DEF Forms
<1> QED  BY <1>1, <1>2 DEF ChamberForms, CabinetForms, Chamber

LEMMA Used ==
    ASSUME PanelsInv, NEW f, Use(f)
    PROVE  /\ kind # "none" /\ form' = f /\ f \in Forms[kind] /\ (form = f \/ form = "none")
           /\ f \in ChamberForms => Chamber
           /\ f \in CabinetForms => ~Chamber
<1>1. kind \in {"state_council", "council", "assembly"} /\ f \in Forms[kind]
  BY DEF PanelsInv, PanelsTypeOK, Forms, Use
<1>2. /\ Forms["council"] = {"CouncilProposal"}
      /\ Forms["assembly"] = {"AssemblyTransfer", "AssemblyProposal"}
      /\ Forms["state_council"] = {"FromStateCouncil", "DepartmentToDepartment",
                                   "DepartmentToCompany", "DepartmentToUser"}
  BY DEF Forms
<1> QED  BY <1>1, <1>2 DEF ChamberForms, CabinetForms, Chamber, Use

\* A callback moves.
SameForm == kind' = kind /\ (form' = form \/ form = "none")
LEMMA OneMoves ==
    ASSUME PanelsInv, NEW h \in Handlers, NEW w, w.at \in WorkStages,
           work' = [work EXCEPT ![h] = w]
    PROVE  /\ work'[h] = w /\ \A g \in Handlers \ {h} : work'[g] = work[g]
           /\ work' = [g \in Handlers |-> work'[g]]
           /\ \A g \in Handlers : work'[g].at \in WorkStages
           /\ Editing' = IF w.at = "edit" THEN Editing \union {h} ELSE Editing \ {h}
           /\ Answering' = IF w.at = "answer" THEN Answering \union {h} ELSE Answering \ {h}
BY DEF PanelsInv, FormInv, PanelsTypeOK, Editing, Answering, WorkStages

LEMMA OthersHold ==
    ASSUME PanelsInv, NEW h \in Handlers, NEW w, w.at \in WorkStages,
           work' = [work EXCEPT ![h] = w], SameForm, fields' = fields,
           Holds(w), (Sincere(w))'
    PROVE  /\ work' = [g \in Handlers |-> work'[g]]
           /\ \A g \in Handlers : (Holds(work[g]) /\ Sincere(work[g]))'
<1>1. work'[h] = w /\ work' = [g \in Handlers |-> work'[g]]
  BY OneMoves
<1>2. \A g \in Handlers \ {h} : work'[g] = work[g] /\ Holds(work[g]) /\ Sincere(work[g])
  BY OneMoves DEF PanelsInv, FormInv
<1>3. \A v : Holds(v) <=> Holds(v)'
  BY DEF Holds, SameForm, Chamber
<1>4. \A v : Sincere(v) => Sincere(v)'
  BY DEF Sincere, SameForm, Chamber, DepartmentForms
<1> QED  BY <1>1, <1>2, <1>3, <1>4

\* The form after one of its callbacks has moved; and when that one neither was
\* nor is about to show the form.
LEMMA FormMoves ==
    ASSUME PanelsInv, NEW h \in Handlers, NEW w, w.at \in WorkStages,
           work' = [work EXCEPT ![h] = w], SameForm, UNCHANGED fields,
           form' # "none" => form' \in Forms[kind],
           Holds(w), (Sincere(w))',
           seen' \in [open : BOOLEAN, fields : Fields], muddled' \in BOOLEAN,
           receipt' \in Receipts, Drafted', FormIsHonest'
    PROVE  FormInv' /\ SheetTyped'
<1>1. FormInv'
  BY OthersHold DEF FormInv
<1>2. SheetTyped'
  BY OneMoves, TypingSplit DEF SheetTyped, PanelsInv, SameForm
<1> QED  BY <1>1, <1>2

LEMMA SideMoves ==
    ASSUME PanelsInv, NEW h \in Handlers, NEW w, w.at \in WorkStages \ {"answer", "edit"},
           work[h].at \notin {"answer", "edit"},
           work' = [work EXCEPT ![h] = w], SameForm, UNCHANGED <<fields, seen, muddled>>,
           form' # "none" => form' \in Forms[kind],
           Holds(w), (Sincere(w))', receipt' \in Receipts, FormIsHonest'
    PROVE  FormInv' /\ SheetTyped'
<1>1. Editing' = Editing /\ Answering' = Answering /\ \A g \in Editing : work'[g] = work[g]
  BY OneMoves DEF Editing, Answering
<1>2. Drafted'
  BY <1>1 DEF Drafted, PanelsInv, FormInv
<1>3. seen \in [open : BOOLEAN, fields : Fields] /\ muddled \in BOOLEAN
  BY DEF PanelsInv, PanelsTypeOK
<1>4. seen' \in [open : BOOLEAN, fields : Fields] /\ muddled' \in BOOLEAN
  BY <1>3
<1> QED  BY <1>2, <1>4, FormMoves

LEMMA NothingTold ==
    ASSUME receipt' = NoReceipt
    PROVE  receipt' \in Receipts /\ FormIsHonest'
BY DEF Receipts, FormIsHonest, SentWasSeen, ToldTheTruth, NoReceipt

LEMMA SheetTypes ==
    ASSUME PanelsInv
    PROVE  /\ fields \in Fields /\ seen \in [open : BOOLEAN, fields : Fields]
           /\ muddled \in BOOLEAN /\ (form = "none" \/ form \in Forms[kind])
BY DEF PanelsInv, PanelsTypeOK
LEMMA CallbackHolds ==
    ASSUME PanelsInv, NEW h \in Handlers
    PROVE  Holds(work[h]) /\ Sincere(work[h])
BY DEF PanelsInv, FormInv

\* A chamber's form is asked for, and its modal sent.
LEMMA AskKeepsForm ==
    ASSUME PanelsInv, NEW h \in Handlers, NEW p \in Payees, Ask(h, p),
           NEW f, Use(f)
    PROVE  FormInv' /\ SheetTyped'
<1> DEFINE w == [at |-> "modal", payee |-> p]
<1>1. w.at = "modal" /\ w \in [at : {"modal"}, payee : Payees]
  OBVIOUS
<1>2. work' = [work EXCEPT ![h] = w] /\ work[h].at = "idle"
  BY DEF Ask, Idle
<1>3. SameForm /\ (form' # "none" => form' \in Forms[kind]) /\ UNCHANGED <<fields, seen, muddled>>
  BY Used DEF Ask, SameForm, news
<1>4. Holds(w) /\ (Sincere(w))'
  BY <1>1 DEF Holds, Sincere, Sends
<1>5. receipt' \in Receipts /\ FormIsHonest'
  BY NothingTold DEF Ask
<1> HIDE DEF w
<1> QED  BY <1>1, <1>2, <1>3, <1>4, <1>5, SideMoves DEF WorkStages

LEMMA SubmitModalKeepsForm ==
    ASSUME PanelsInv, NEW h \in Handlers, NEW a \in Amounts, NEW named,
           named \in Payees \/ named = work[h].payee, SubmitModal(h, a, named),
           form \in ChamberForms
    PROVE  FormInv' /\ SheetTyped'
<1> DEFINE typed == [payee |-> work[h].payee, amount |-> a]
<1>0. PICK w : w = [at |-> "call", saw |-> typed, sent |-> typed, paid |-> "nothing", named |-> named,
                 alone |-> named = typed.payee]
  OBVIOUS
<1>1. work[h].at = "modal" /\ work' = [work EXCEPT ![h] = w] /\ Chamber
  BY <1>0, WhoseForm DEF SubmitModal
<1>2. work[h].payee \in Payees
  BY <1>1, CallbackHolds DEF Holds
<1>3. /\ w.at = "call" /\ w \in ModalSendings /\ w.paid = "nothing" /\ w.sent = w.saw
      /\ w.alone => w.named = w.sent.payee
  BY <1>0, <1>2 DEF ModalSendings, Fields, Outcomes
<1>4. SameForm /\ (form' # "none" => form' \in Forms[kind]) /\ UNCHANGED <<fields, seen, muddled>>
  BY SheetTypes DEF SubmitModal, SameForm, news
<1>5. Chamber'
  BY <1>1, <1>4 DEF Chamber, SameForm
<1>6. Holds(w) /\ (Sincere(w))'
  BY <1>1, <1>3, <1>5 DEF Holds, Sincere, Sends
<1>7. receipt' \in Receipts /\ FormIsHonest'
  BY NothingTold DEF SubmitModal
<1> QED  BY <1>1, <1>3, <1>4, <1>6, <1>7, SideMoves DEF WorkStages

\* A form with fields of its own is sent.
LEMMA SubmitKeepsForm ==
    ASSUME PanelsInv, NEW h \in Handlers, form \in CabinetForms, Submit(h)
    PROVE  FormInv' /\ SheetTyped'
<1> DEFINE alone == ~muddled /\ \A g \in Handlers : work[g].at \notin {"answer", "edit"}
<1>0. PICK w : w = [at |-> "config", saw |-> seen.fields, sent |-> Blank, paid |-> "nothing",
                 alone |-> alone]
  OBVIOUS
<1>1. /\ work[h].at = "idle" /\ work' = [work EXCEPT ![h] = w] /\ ~Chamber
      /\ fields.payee \in Payees
  BY <1>0, WhoseForm, SheetTypes DEF Submit, Idle, Filled, Fields
<1>2. Blank \in Fields /\ seen.fields \in Fields /\ alone \in BOOLEAN
  BY SheetTypes DEF Blank, Fields
<1>3. w.at = "config" /\ w \in Sendings /\ w.paid = "nothing" /\ w.alone = alone /\ w.saw = seen.fields
  BY <1>0, <1>2 DEF Sendings, Sends, Outcomes
<1>4. SameForm /\ (form' # "none" => form' \in Forms[kind]) /\ UNCHANGED <<fields, seen, muddled>>
  BY SheetTypes DEF Submit, SameForm, news
<1>5. alone => seen.fields = fields
  BY DEF PanelsInv, FormInv, Drafted, Editing, Answering
<1> HIDE DEF alone
<1>6. Holds(w) /\ (Sincere(w))'
  BY <1>1, <1>3, <1>4, <1>5 DEF Holds, Sincere, Sends
<1>7. receipt' \in Receipts /\ FormIsHonest'
  BY NothingTold DEF Submit
<1> QED  BY <1>1, <1>3, <1>4, <1>6, <1>7, SideMoves DEF WorkStages

LEMMA CallKeepsForm ==
    ASSUME PanelsInv, NEW h \in Handlers, CallService(h)
    PROVE  FormInv' /\ SheetTyped'
<1>0. PICK w : w = [work[h] EXCEPT !.at = "call", !.sent = fields]
  OBVIOUS
<1>1. work[h].at = "config" /\ work' = [work EXCEPT ![h] = w]
  BY <1>0 DEF CallService
<1>2. ~Chamber /\ work[h] \in Sendings /\ fields.payee \in Payees /\ fields \in Fields
  BY <1>1, SheetTypes, CallbackHolds DEF Holds, Sends, ModalSendings
<1>3. work[h].paid = "nothing" /\ (work[h].alone => work[h].saw = fields)
  BY <1>1, CallbackHolds DEF Sincere
<1>4. /\ w.at = "call" /\ w \in Sendings /\ w.paid = "nothing" /\ w.sent = fields
      /\ w.alone => w.saw = fields
  BY <1>0, <1>2, <1>3 DEF Sendings, Sends
<1>5. /\ SameForm /\ (form' # "none" => form' \in Forms[kind])
      /\ UNCHANGED <<fields, seen, muddled>> /\ ~Chamber'
  BY <1>2, SheetTypes DEF CallService, SameForm, news, Chamber
<1>6. Holds(w) /\ (Sincere(w))'
  BY <1>2, <1>4, <1>5 DEF Holds, Sincere, Sends
<1>7. receipt' \in Receipts /\ FormIsHonest'
  BY NothingTold DEF CallService
<1> QED  BY <1>1, <1>4, <1>5, <1>6, <1>7, SideMoves DEF WorkStages

\* The service pays or refuses: what it was asked stays as it was.
LEMMA SendingIs ==
    ASSUME PanelsInv, NEW h \in Handlers, work[h].at \in Sends
    PROVE  /\ work[h].paid \in Outcomes
           /\ \A step : [work[h] EXCEPT !.at = step]
                            = [work[h] EXCEPT !.at = step, !.paid = work[h].paid]
<1>1. work[h] \in ModalSendings \/ work[h] \in Sendings
  BY CallbackHolds DEF Holds
<1>2. work[h].paid \in Outcomes /\ work[h] = [work[h] EXCEPT !.paid = work[h].paid]
  BY <1>1 DEF ModalSendings, Sendings
<1> QED  BY <1>1, <1>2 DEF ModalSendings, Sendings

LEMMA GoesOnToTell ==
    ASSUME PanelsInv, NEW h \in Handlers, NEW step \in {"record", "tell"},
           NEW paid \in Outcomes, work[h].at \in {"call", "record"},
           NEW w, w = [work[h] EXCEPT !.at = step, !.paid = paid],
           work' = [work EXCEPT ![h] = w],
           UNCHANGED <<kind, form, fields, seen, muddled>>, receipt' = NoReceipt,
           step = "record" => ~Chamber, paid = "part" => ~Chamber,
           form \notin DepartmentForms => paid # "nothing"
    PROVE  FormInv' /\ SheetTyped'
<1>2. IF Chamber THEN work[h] \in ModalSendings ELSE work[h] \in Sendings /\ fields.payee \in Payees
  BY CallbackHolds DEF Holds, Sends
<1>3. work[h].alone => /\ work[h].sent = work[h].saw
                       /\ IF Chamber THEN work[h].named = work[h].sent.payee
                          ELSE work[h].sent = fields
  BY CallbackHolds DEF Sincere
<1>4. /\ w.at = step /\ w.paid = paid
      /\ IF Chamber THEN w \in ModalSendings ELSE w \in Sendings
      /\ w.alone => /\ w.sent = w.saw
                    /\ IF Chamber THEN w.named = w.sent.payee ELSE w.sent = fields
  <2>1. CASE Chamber
    BY <1>2, <1>3, <2>1 DEF ModalSendings
  <2>2. CASE ~Chamber
    BY <1>2, <1>3, <2>2 DEF Sendings, Sends
  <2> QED  BY <2>1, <2>2
<1>5. /\ SameForm /\ (form' # "none" => form' \in Forms[kind])
      /\ UNCHANGED <<fields, seen, muddled>> /\ Chamber' = Chamber
  BY SheetTypes DEF SameForm, Chamber
<1>6. Holds(w)
  BY <1>2, <1>4 DEF Holds, Sends
<1>7. (Sincere(w))'
  BY <1>4, <1>5 DEF Sincere
<1>8. receipt' \in Receipts /\ FormIsHonest'
  BY NothingTold
<1> QED  BY <1>4, <1>5, <1>6, <1>7, <1>8, SideMoves DEF WorkStages

LEMMA CommitsKeepsForm ==
    ASSUME PanelsInv, NEW h \in Handlers, Paid(h) \/ PaidInPart(h)
    PROVE  FormInv' /\ SheetTyped'
<1>1. PICK paid \in {"part", "all"}, step \in {"record", "tell"} :
         /\ Commits(h, paid, step) /\ (step = "record" => form = "DepartmentToDepartment")
         /\ paid = "part" => form = "FromStateCouncil"
  <2>1. CASE PaidInPart(h)
    BY <2>1 DEF PaidInPart
  <2>2. CASE Paid(h) /\ form = "DepartmentToDepartment"
    BY <2>2 DEF Paid
  <2>3. CASE Paid(h) /\ form # "DepartmentToDepartment"
    BY <2>3 DEF Paid
  <2> QED  BY <2>1, <2>2, <2>3
<1>2. PICK w : w = [work[h] EXCEPT !.at = step, !.paid = paid]
  OBVIOUS
<1>3. /\ work[h].at = "call" /\ work' = [work EXCEPT ![h] = w] /\ receipt' = NoReceipt
      /\ UNCHANGED <<kind, form, fields, seen, muddled>>
  BY <1>1, <1>2 DEF Commits
<1>4. (step = "record" \/ paid = "part") => ~Chamber
  BY <1>1, WhoseForm DEF CabinetForms, Forms
<1>5. paid \in Outcomes /\ paid # "nothing"
  BY <1>1 DEF Outcomes
<1> QED  BY <1>2, <1>3, <1>4, <1>5, GoesOnToTell

LEMMA RefusedUnsaidKeepsForm ==
    ASSUME PanelsInv, NEW h \in Handlers, RefusedUnsaid(h) \/ RecordCommits(h)
    PROVE  FormInv' /\ SheetTyped'
<1>1. CASE RefusedUnsaid(h)
  <2>1. PICK step \in {"record", "tell"} :
           GotoStep(h, step) /\ (step = "record" => form = "DepartmentToDepartment")
    <3>1. CASE form = "DepartmentToDepartment"
      BY <1>1, <3>1 DEF RefusedUnsaid
    <3>2. CASE form # "DepartmentToDepartment"
      BY <1>1, <3>2 DEF RefusedUnsaid
    <3> QED  BY <3>1, <3>2
  <2>2. /\ work[h].at = "call" /\ receipt' = NoReceipt /\ form \in DepartmentForms
        /\ UNCHANGED <<kind, form, fields, seen, muddled>>
    BY <1>1 DEF RefusedUnsaid, news
  <2>3. work[h].paid = "nothing"
    BY <2>2, CallbackHolds DEF Sincere
  <2>4. PICK w : w = [work[h] EXCEPT !.at = step, !.paid = "nothing"]
    OBVIOUS
  <2>5. work' = [work EXCEPT ![h] = w]
    BY <2>1, <2>2, <2>3, <2>4, SendingIs DEF GotoStep, Sends
  <2>6. step = "record" => ~Chamber
    BY <2>1, WhoseForm DEF CabinetForms, Forms
  <2>7. "nothing" \in Outcomes /\ "nothing" # "part"
    BY DEF Outcomes
  <2> QED  BY <2>2, <2>4, <2>5, <2>6, <2>7, GoesOnToTell
<1>2. CASE RecordCommits(h)
  <2>1. /\ work[h].at = "record" /\ receipt' = NoReceipt /\ GotoStep(h, "tell")
        /\ UNCHANGED <<kind, form, fields, seen, muddled>>
    BY <1>2 DEF RecordCommits, CommitUntold
  <2>2. /\ work[h].paid \in Outcomes /\ (work[h].paid = "part" => ~Chamber)
        /\ form \notin DepartmentForms => work[h].paid # "nothing"
    BY <2>1, CallbackHolds, SendingIs DEF Sincere, Sends
  <2>3. PICK w : w = [work[h] EXCEPT !.at = "tell", !.paid = work[h].paid]
    OBVIOUS
  <2>4. work' = [work EXCEPT ![h] = w]
    BY <2>1, <2>3, SendingIs DEF GotoStep, Sends
  <2> QED  BY <2>1, <2>2, <2>3, <2>4, GoesOnToTell
<1> QED  BY <1>1, <1>2

\* What the user is told.
LEMMA ReceiptIs ==
    ASSUME PanelsInv, NEW h \in Handlers, work[h].at \in Sends,
           NEW told \in Payees \union {"failed", "part"}, NEW mishap \in BOOLEAN,
           Receipt(h, told, mishap)
    PROVE  /\ receipt' \in Receipts
           /\ receipt'.saw = work[h].saw /\ receipt'.sent = work[h].sent
           /\ receipt'.paid = work[h].paid /\ receipt'.alone = work[h].alone
           /\ receipt'.told = told /\ receipt'.mishap = mishap
<1>1. work[h] \in ModalSendings \/ work[h] \in Sendings
  BY CallbackHolds DEF Holds
<1> QED  BY <1>1 DEF Receipt, Receipts, ModalSendings, Sendings

LEMMA IdleAgain == /\ NoWork.at = "idle" /\ NoWork.at \in WorkStages
                   /\ NoWork.at \in WorkStages \ {"answer", "edit"}
                   /\ Holds(NoWork) /\ (Sincere(NoWork))'
BY DEF NoWork, WorkStages, Holds, Sincere, Sends

LEMMA RefusedKeepsForm ==
    ASSUME PanelsInv, NEW h \in Handlers, Refused(h)
    PROVE  FormInv' /\ SheetTyped'
<1>1. work[h].at = "call" /\ work' = [work EXCEPT ![h] = NoWork] /\ Receipt(h, "failed", FALSE)
  BY DEF Refused
<1>2. work[h].paid = "nothing" /\ (work[h].alone => work[h].sent = work[h].saw)
  BY <1>1, CallbackHolds DEF Sincere
<1>3. receipt' \in Receipts /\ FormIsHonest'
  BY <1>1, <1>2, ReceiptIs DEF FormIsHonest, SentWasSeen, ToldTheTruth, Sends
<1>4. SameForm /\ (form' # "none" => form' \in Forms[kind]) /\ UNCHANGED <<fields, seen, muddled>>
  BY SheetTypes DEF Refused, SameForm, news
<1> QED  BY <1>1, <1>3, <1>4, IdleAgain, SideMoves

LEMMA TellNamedKeepsForm ==
    ASSUME PanelsInv, NEW h \in Handlers, TellNamed(h)
    PROVE  FormInv' /\ SheetTyped'
<1>1. /\ work[h].at = "tell" /\ work' = [work EXCEPT ![h] = NoWork] /\ Chamber
      /\ Receipt(h, work[h].named, FALSE)
  BY DEF TellNamed
<1>2. work[h].named \in Payees
  BY <1>1, CallbackHolds DEF Holds, Sends, ModalSendings
<1>3. /\ form \notin DepartmentForms => work[h].paid # "nothing"
      /\ work[h].paid # "part"
      /\ work[h].alone => work[h].sent = work[h].saw /\ work[h].named = work[h].sent.payee
  BY <1>1, CallbackHolds DEF Sincere
<1>4. /\ SameForm /\ (form' # "none" => form' \in Forms[kind]) /\ form' = form
      /\ UNCHANGED <<fields, seen, muddled>>
  BY SheetTypes DEF TellNamed, SameForm, news
<1>5. receipt' \in Receipts /\ FormIsHonest'
  BY <1>1, <1>2, <1>3, <1>4, ReceiptIs DEF FormIsHonest, SentWasSeen, ToldTheTruth, Sends
<1> QED  BY <1>1, <1>4, <1>5, IdleAgain, SideMoves

LEMMA TellRefusedKeepsForm ==
    ASSUME PanelsInv, NEW h \in Handlers, TellRefused(h) \/ RecordFails(h)
    PROVE  FormInv' /\ SheetTyped'
<1>1. /\ work[h].at \in {"record", "tell"} /\ work' = [work EXCEPT ![h] = NoWork]
      /\ Receipt(h, "failed", TRUE)
  BY DEF TellRefused, RecordFails
<1>2. work[h].alone => work[h].sent = work[h].saw
  BY <1>1, CallbackHolds DEF Sincere
<1>3. receipt' \in Receipts /\ FormIsHonest'
  BY <1>1, <1>2, ReceiptIs DEF FormIsHonest, SentWasSeen, ToldTheTruth, Sends
<1>4. SameForm /\ (form' # "none" => form' \in Forms[kind]) /\ UNCHANGED <<fields, seen, muddled>>
  BY SheetTypes DEF TellRefused, RecordFails, SameForm, news
<1> QED  BY <1>1, <1>3, <1>4, IdleAgain, SideMoves

LEMMA TellPartKeepsForm ==
    ASSUME PanelsInv, NEW h \in Handlers, TellPart(h)
    PROVE  FormInv' /\ SheetTyped'
<1>1. /\ work[h].at = "tell" /\ work' = [work EXCEPT ![h] = NoWork]
      /\ work[h].paid = "part" /\ Receipt(h, "part", FALSE)
  BY DEF TellPart
<1>2. work[h].alone => work[h].sent = work[h].saw
  BY <1>1, CallbackHolds DEF Sincere
<1>3. receipt' \in Receipts /\ FormIsHonest'
  BY <1>1, <1>2, ReceiptIs DEF FormIsHonest, SentWasSeen, ToldTheTruth, Sends
<1>4. SameForm /\ (form' # "none" => form' \in Forms[kind]) /\ UNCHANGED <<fields, seen, muddled>>
  BY SheetTypes DEF TellPart, SameForm, news
<1> QED  BY <1>1, <1>3, <1>4, IdleAgain, SideMoves

LEMMA TellNobodyKeepsForm ==
    ASSUME PanelsInv, NEW h \in Handlers, TellNobody(h)
    PROVE  FormInv' /\ SheetTyped'
<1>1. work[h].at = "tell" /\ work' = [work EXCEPT ![h] = NoWork]
  BY DEF TellNobody
<1>2. receipt' \in Receipts /\ FormIsHonest'
  BY NothingTold DEF TellNobody
<1>3. SameForm /\ (form' # "none" => form' \in Forms[kind]) /\ UNCHANGED <<fields, seen, muddled>>
  BY SheetTypes DEF TellNobody, SameForm, news
<1> QED  BY <1>1, <1>2, <1>3, IdleAgain, SideMoves

\* The form is rendered anew; its edit arrives, or is refused; it is closed.
LEMMA RenderKeepsForm ==
    ASSUME PanelsInv, NEW h \in Handlers, Render(h, work), SameForm, UNCHANGED <<fields, seen>>,
           form' # "none" => form' \in Forms[kind], receipt' \in Receipts, FormIsHonest'
    PROVE  FormInv' /\ SheetTyped'
<1>0. PICK w : w = [at |-> "edit", fields |-> fields]
  OBVIOUS
<1>1. w.at = "edit" /\ w.fields = fields /\ work' = [work EXCEPT ![h] = w]
  BY <1>0 DEF Render
<1>9. w.at \in WorkStages
  BY <1>1 DEF WorkStages
<1>2. fields \in Fields /\ seen' \in [open : BOOLEAN, fields : Fields]
  BY SheetTypes
<1>3. Holds(w) /\ (Sincere(w))'
  BY <1>0, <1>2 DEF Holds, Sincere, Sends
<1>4. muddled' = (\E g \in Handlers \ {h} : work[g].at = "edit")
  BY DEF Render
<1>5. muddled' \in BOOLEAN
  BY <1>4
<1>6. work'[h] = w /\ Editing' = Editing \union {h}
  BY <1>1, <1>9, OneMoves
<1>7. ~muddled' => Editing' = {h}
  BY <1>4, <1>6 DEF Editing
<1>8. Drafted'
  BY <1>1, <1>6, <1>7 DEF Drafted
<1> QED  BY <1>1, <1>2, <1>3, <1>5, <1>8, <1>9, FormMoves

LEMMA AnsweredKeepsForm ==
    ASSUME PanelsInv, NEW h \in Handlers, Answered(h)
    PROVE  FormInv' /\ SheetTyped'
<1>1. SameForm /\ (form' # "none" => form' \in Forms[kind]) /\ UNCHANGED <<fields, seen>>
  BY SheetTypes DEF Answered, SameForm, news
<1>2. receipt' \in Receipts /\ FormIsHonest' /\ Render(h, work)
  BY NothingTold DEF Answered
<1> QED  BY <1>1, <1>2, RenderKeepsForm

LEMMA TellKeepsForm ==
    ASSUME PanelsInv, NEW h \in Handlers, Tell(h)
    PROVE  FormInv' /\ SheetTyped'
<1>1. work[h].at = "tell" /\ ~Chamber /\ Receipt(h, fields.payee, FALSE) /\ Render(h, work)
      /\ work[h].paid # "part"
  BY DEF Tell
<1>2. /\ SameForm /\ (form' # "none" => form' \in Forms[kind]) /\ UNCHANGED <<fields, seen>>
      /\ form' = form
  BY SheetTypes DEF Tell, SameForm, news
<1>3. fields.payee \in Payees
  BY <1>1, CallbackHolds DEF Holds, Sends
<1>4. /\ form \notin DepartmentForms => work[h].paid # "nothing"
      /\ work[h].alone => work[h].sent = work[h].saw /\ work[h].sent = fields
  BY <1>1, CallbackHolds DEF Sincere
<1>5. receipt' \in Receipts /\ FormIsHonest'
  BY <1>1, <1>2, <1>3, <1>4, ReceiptIs DEF FormIsHonest, SentWasSeen, ToldTheTruth, Sends
<1> QED  BY <1>1, <1>2, <1>5, RenderKeepsForm

LEMMA ShownKeepsForm ==
    ASSUME PanelsInv, NEW h \in Handlers, Show(h) \/ ShowRefused(h)
    PROVE  FormInv' /\ SheetTyped'
<1>1. work[h].at = "edit" /\ work' = [work EXCEPT ![h] = NoWork]
  BY DEF Show, ShowRefused
<1>2. SameForm /\ (form' # "none" => form' \in Forms[kind]) /\ UNCHANGED fields
  BY SheetTypes DEF Show, ShowRefused, SameForm, news
<1>3. receipt' \in Receipts /\ FormIsHonest'
  BY NothingTold DEF Show, ShowRefused
<1>4. Editing' = Editing \ {h} /\ Answering' = Answering \ {h}
  BY <1>1, OneMoves, IdleAgain
<1>9. h \in Editing /\ h \notin Answering
  BY <1>1 DEF Editing, Answering
<1>5. work[h].fields \in Fields
  BY <1>1, CallbackHolds DEF Holds
<1>6. seen \in [open : BOOLEAN, fields : Fields] /\ muddled \in BOOLEAN
  BY SheetTypes
<1>7. CASE Show(h)
  <2>1. seen' = [open |-> TRUE, fields |-> work[h].fields] /\ muddled' = muddled
    BY <1>7 DEF Show
  <2>2. seen' \in [open : BOOLEAN, fields : Fields] /\ muddled' \in BOOLEAN
    BY <1>5, <1>6, <2>1
  <2>3. ~muddled => Editing = {h} /\ (Answering = {} => work[h].fields = fields)
    BY <1>9 DEF PanelsInv, FormInv, Drafted
  <2>4. ~muddled => Editing' = {} /\ (Answering' = {} => seen'.fields = fields)
    BY <1>4, <1>9, <2>1, <2>3
  <2>5. Drafted'
    BY <1>2, <2>1, <2>4 DEF Drafted
  <2> QED  BY <1>1, <1>2, <1>3, <2>2, <2>5, IdleAgain, FormMoves
<1>8. CASE ShowRefused(h)
  <2>1. seen' = seen /\ muddled' = TRUE
    BY <1>8 DEF ShowRefused
  <2>2. seen' \in [open : BOOLEAN, fields : Fields] /\ muddled' \in BOOLEAN
    BY <1>6, <2>1
  <2>3. Drafted'
    BY <2>1 DEF Drafted
  <2> QED  BY <1>1, <1>2, <1>3, <2>2, <2>3, IdleAgain, FormMoves
<1> QED  BY <1>7, <1>8

LEMMA CloseKeepsForm ==
    ASSUME PanelsInv, Close
    PROVE  FormInv' /\ SheetTyped'
<1>1. /\ seen' = [seen EXCEPT !.open = FALSE] /\ kind' = kind
      /\ UNCHANGED <<form, fields, work, muddled>> /\ receipt' = NoReceipt
  BY DEF Close, news
<1>2. seen \in [open : BOOLEAN, fields : Fields] /\ seen'.fields = seen.fields
  BY <1>1, SheetTypes
<1>3. seen' \in [open : BOOLEAN, fields : Fields]
  BY <1>1, <1>2
<1>4. SheetTyped'
  BY <1>1, <1>3, NothingTold, TypingSplit DEF SheetTyped, PanelsInv
<1>5. \A h \in Handlers : (Holds(work[h]) /\ Sincere(work[h]))'
  BY <1>1, CallbackHolds DEF Holds, Sincere, Chamber
<1>6. Drafted'
  BY <1>1, <1>2 DEF PanelsInv, FormInv, Drafted, Editing, Answering
<1>7. work' = [h \in Handlers |-> work'[h]]
  BY <1>1 DEF PanelsInv, FormInv
<1> QED  BY <1>1, <1>4, <1>5, <1>6, <1>7, NothingTold DEF FormInv

\* A field is set: what is about to be sent is no longer what was seen.
LEMMA Touched ==
    ASSUME PanelsInv, ~Chamber, SameForm, fields'.payee \in Payees, NEW g \in Handlers,
           NEW w, w = Touch(work)[g]
    PROVE  /\ w.at = work[g].at /\ (Holds(w) /\ Sincere(w))'
           /\ w.at \notin Sends => w = work[g]
<1>1. ~Chamber'
  BY DEF SameForm, Chamber
<1>2. Holds(work[g]) /\ Sincere(work[g])
  BY CallbackHolds
<1>3. CASE work[g].at \in Sends
  <2>1. w = [work[g] EXCEPT !.alone = FALSE] /\ work[g] \in Sendings
    BY <1>2, <1>3 DEF Touch, Sends, Holds
  <2>2. w \in Sendings /\ w.at = work[g].at /\ w.paid = work[g].paid /\ w.alone = FALSE
    BY <2>1 DEF Sendings
  <2>3. Holds(w)'
    BY <1>1, <1>3, <2>2 DEF Holds, Sends
  <2>4. Sincere(w)'
    BY <1>1, <1>2, <2>2 DEF Sincere, SameForm, DepartmentForms
  <2> QED  BY <1>3, <2>2, <2>3, <2>4
<1>4. CASE work[g].at \notin Sends
  <2>1. w = work[g]
    BY <1>4 DEF Touch, Sends
  <2>2. Holds(w)'
    BY <1>2, <1>4, <2>1 DEF Holds
  <2>3. Sincere(w)'
    BY <1>4, <2>1 DEF Sincere, Sends
  <2> QED  BY <2>1, <2>2, <2>3
<1> QED  BY <1>3, <1>4

\* The callback that sets it goes on to answer, to show it, or has already ended.
LEMMA TouchKeepsForm ==
    ASSUME PanelsInv, ~Chamber, SameForm, fields' \in Fields, fields'.payee \in Payees,
           form' # "none" => form' \in Forms[kind],
           NEW h \in Handlers, NEW w,
           w = [at |-> "answer"] \/ w = [at |-> "edit", fields |-> fields'] \/ w = NoWork,
           work[h].at = "idle", work' = [Touch(work) EXCEPT ![h] = w],
           seen' \in [open : BOOLEAN, fields : Fields], muddled' \in BOOLEAN,
           receipt' = NoReceipt,
           w.at = "answer" => muddled' = muddled,
           w.at # "answer" /\ ~muddled' => \A g \in Handlers \ {h} : work[g].at # "edit",
           w.at = "idle" /\ ~muddled' =>
               ~muddled /\ (seen.fields = fields => seen'.fields = fields')
    PROVE  FormInv' /\ SheetTyped'
<1>1. /\ work'[h] = w /\ work' = [g \in Handlers |-> work'[g]]
      /\ \A g \in Handlers \ {h} : work'[g] = Touch(work)[g]
  BY DEF Touch
<1>2. w.at \in {"idle", "answer", "edit"} /\ w.at \in WorkStages
  BY DEF NoWork, WorkStages
<1>3. Holds(w)' /\ (Sincere(w))'
  BY <1>2 DEF Holds, Sincere, Sends, NoWork
<1>4. \A g \in Handlers : (Holds(work[g]) /\ Sincere(work[g]))'
  BY <1>1, <1>3, Touched
<1>5. \A g \in Handlers \ {h} : /\ work'[g].at = work[g].at
                                /\ work[g].at = "edit" => work'[g] = work[g]
  BY <1>1, Touched DEF Sends
<1>6. \A g \in Handlers : work'[g].at \in WorkStages
  BY <1>1, <1>2, <1>5 DEF PanelsInv, PanelsTypeOK, WorkStages
<1>7. SheetTyped'
  BY <1>6, NothingTold DEF SheetTyped, SameForm
<1>8. Drafted'
  <2> SUFFICES ASSUME ~muddled' PROVE Drafted'
    BY DEF Drafted
  <2>1. CASE w.at = "answer"
    <3>1. h \in Answering' /\ Editing' = Editing
      BY <1>1, <1>5, <2>1 DEF Answering, Editing
    <3>2. \A g, q \in Editing : g = q
      BY <2>1 DEF PanelsInv, FormInv, Drafted
    <3> QED  BY <3>1, <3>2 DEF Drafted
  <2>2. CASE w.at = "edit"
    <3>1. Editing' = {h} /\ work'[h].fields = fields'
      BY <1>1, <1>5, <2>2 DEF Editing, NoWork
    <3> QED  BY <3>1 DEF Drafted
  <2>3. CASE w.at = "idle"
    <3>1. Editing' = {} /\ Editing = {} /\ Answering' = Answering
      BY <1>1, <1>5, <2>3 DEF Editing, Answering
    <3>2. Answering = {} => seen.fields = fields
      BY <2>3, <3>1 DEF PanelsInv, FormInv, Drafted
    <3> QED  BY <2>3, <3>1, <3>2 DEF Drafted
  <2> QED  BY <1>2, <2>1, <2>2, <2>3
<1> QED  BY <1>1, <1>4, <1>7, <1>8, NothingTold DEF FormInv

\* The fields that are set.
LEMMA PayeeSet ==
    ASSUME PanelsInv, NEW p \in Payees, fields' = [fields EXCEPT !.payee = p]
    PROVE  fields' \in Fields /\ fields'.payee = p
BY SheetTypes DEF Fields

LEMMA TypeAmountKeepsForm ==
    ASSUME PanelsInv, NEW h \in Handlers, NEW a \in Amounts, form \in CabinetForms, TypeAmount(h, a)
    PROVE  FormInv' /\ SheetTyped'
<1>1. ~Chamber /\ work[h].at = "idle" /\ fields.payee # "nobody" /\ receipt' = NoReceipt
  BY WhoseForm DEF TypeAmount, Idle
<1>2. fields \in Fields /\ fields' = [fields EXCEPT !.amount = a]
  BY SheetTypes DEF TypeAmount
<1>3. fields' \in Fields /\ fields'.payee \in Payees
  BY <1>1, <1>2 DEF Fields
<1>4. /\ SameForm /\ (form' # "none" => form' \in Forms[kind]) /\ muddled' = muddled
      /\ seen' \in [open : BOOLEAN, fields : Fields] /\ muddled' \in BOOLEAN
  BY SheetTypes DEF TypeAmount, SameForm, news
<1>5. PICK w : w = [at |-> "answer"]
  OBVIOUS
<1>6. work[h] = NoWork
  BY <1>1, CallbackHolds DEF Holds
<1>7. work' = [Touch(work) EXCEPT ![h] = w]
  <2>1. Touch(work)[h] = NoWork
    BY <1>6 DEF Touch, NoWork
  <2>2. [NoWork EXCEPT !.at = "answer"] = w
    BY <1>5 DEF NoWork
  <2> QED  BY <2>1, <2>2 DEF TypeAmount
<1> QED  BY <1>1, <1>3, <1>4, <1>5, <1>7, TouchKeepsForm

LEMMA TypePayeeKeepsForm ==
    ASSUME PanelsInv, NEW h \in Handlers, NEW p \in Payees, NEW f \in CabinetForms, Use(f),
           TypePayee(h, p)
    PROVE  FormInv' /\ SheetTyped'
<1>1. ~Chamber /\ work[h].at = "idle" /\ receipt' = NoReceipt
  BY Used DEF TypePayee, Idle
<1>2. fields' \in Fields /\ fields'.payee \in Payees
  BY PayeeSet DEF TypePayee
<1>3. /\ SameForm /\ (form' # "none" => form' \in Forms[kind]) /\ muddled' = muddled
      /\ seen' \in [open : BOOLEAN, fields : Fields] /\ muddled' \in BOOLEAN
  BY SheetTypes, Used DEF TypePayee, SameForm, news
<1>4. PICK w : w = [at |-> "answer"]
  OBVIOUS
<1>5. work[h] = NoWork
  BY <1>1, CallbackHolds DEF Holds
<1>6. work' = [Touch(work) EXCEPT ![h] = w]
  <2>1. Touch(work)[h] = NoWork
    BY <1>5 DEF Touch, NoWork
  <2>2. [NoWork EXCEPT !.at = "answer"] = w
    BY <1>4 DEF NoWork
  <2> QED  BY <2>1, <2>2 DEF TypePayee
<1> QED  BY <1>1, <1>2, <1>3, <1>4, <1>6, TouchKeepsForm

LEMMA SelectOnceKeepsForm ==
    ASSUME PanelsInv, NEW h \in Handlers, NEW p \in Payees, NEW f \in CabinetForms, Use(f),
           SelectOnce(h, p)
    PROVE  FormInv' /\ SheetTyped'
<1>1. ~Chamber /\ work[h].at = "idle" /\ receipt' = NoReceipt
  BY Used DEF SelectOnce, Idle
<1>2. fields' \in Fields /\ fields'.payee \in Payees
  BY PayeeSet DEF SelectOnce
<1>3. /\ SameForm /\ (form' # "none" => form' \in Forms[kind])
      /\ seen' \in [open : BOOLEAN, fields : Fields]
  BY SheetTypes, Used DEF SelectOnce, SameForm, news
<1>4. PICK w : w = [at |-> "edit", fields |-> fields']
  OBVIOUS
<1>5. /\ work' = [Touch(work) EXCEPT ![h] = w]
      /\ muddled' = (\E g \in Handlers \ {h} : Touch(work)[g].at = "edit")
  BY <1>4 DEF SelectOnce, Render
<1>6. \A g \in Handlers : Touch(work)[g].at = work[g].at
  BY <1>1, <1>2, <1>3, Touched
<1>7. muddled' \in BOOLEAN /\ (~muddled' => \A g \in Handlers \ {h} : work[g].at # "edit")
  BY <1>5, <1>6
<1> QED  BY <1>1, <1>2, <1>3, <1>4, <1>5, <1>7, TouchKeepsForm

LEMMA SelectAndAskKeepsForm ==
    ASSUME PanelsInv, NEW h \in Handlers, NEW p \in Payees, NEW f \in CabinetForms, Use(f),
           SelectAndAsk(h, p)
    PROVE  FormInv' /\ SheetTyped'
<1>1. ~Chamber /\ work[h].at = "idle" /\ receipt' = NoReceipt
  BY Used DEF SelectAndAsk, Idle
<1>2. fields' \in Fields /\ fields'.payee \in Payees
  BY PayeeSet DEF SelectAndAsk
<1>3. fields \in Fields /\ seen \in [open : BOOLEAN, fields : Fields] /\ muddled \in BOOLEAN
  BY SheetTypes
<1>4. SameForm /\ (form' # "none" => form' \in Forms[kind])
  BY SheetTypes, Used DEF SelectAndAsk, SameForm, news
<1>5. seen' = [seen EXCEPT !.fields.payee = p] /\ fields' = [fields EXCEPT !.payee = p]
  BY DEF SelectAndAsk
<1>6. /\ seen' \in [open : BOOLEAN, fields : Fields]
      /\ seen.fields = fields => seen'.fields = fields'
  BY <1>3, <1>5 DEF Fields
<1>7. muddled' = (muddled \/ \E g \in Handlers : work[g].at = "edit")
  BY DEF SelectAndAsk
<1>8. muddled' \in BOOLEAN /\ (~muddled' => ~muddled /\ \A g \in Handlers : work[g].at # "edit")
  BY <1>3, <1>7
<1>9. PICK w : w = NoWork /\ w.at = "idle"
  BY IdleAgain
<1>10. work[h] = NoWork
  BY <1>1, CallbackHolds DEF Holds
<1>11. work' = [Touch(work) EXCEPT ![h] = w]
  BY <1>9, <1>10 DEF SelectAndAsk, Touch, NoWork
<1> QED  BY <1>1, <1>2, <1>4, <1>6, <1>8, <1>9, <1>11, TouchKeepsForm

\* What the form does to the rest of the system.
FormFrame ==
    /\ UNCHANGED <<panel, kind, ballots>> /\ {facts', notices', acts', faults'} \subseteq Nat
    /\ \/ UNCHANGED <<facts, notices>>
       \/ facts' = facts + 1 /\ notices' = notices + 1

LEMMA FormOnly ==
    ASSUME PanelsInv, FormFrame, kind # "none", FormInv' /\ SheetTyped'
    PROVE  PanelsInv'
<1>1. PanelTyping
  BY TypingSplit DEF PanelsInv
<1>2. PanelTyping'
  BY <1>1 DEF PanelTyping, FormFrame, panel
<1>3. PanelsTypeOK'
  BY <1>2, TypingSplit DEF PanelTyping, SheetTyped, PanelsTypeOK, DrawRec, WorkStages, Receipts
<1>4. PanelInv'
  BY PanelStays DEF FormFrame
<1> QED  BY <1>3, <1>4 DEF PanelsInv

LEMMA Counted ==
    ASSUME PanelsInv
    PROVE  /\ {facts, notices, acts, faults} \subseteq Nat
           /\ Act => {acts', faults'} \subseteq Nat
           /\ Fault => {acts', faults'} \subseteq Nat
           /\ NoAct => {acts', faults'} \subseteq Nat
BY DEF PanelsInv, PanelsTypeOK, Act, Fault, NoAct

LEMMA Mishaps ==
    ASSUME PanelsInv, Act \/ Fault \/ NoAct
    PROVE  acts' \in Nat /\ faults' \in Nat /\ (faults' = faults \/ faults' = faults + 1)
BY DEF PanelsInv, PanelsTypeOK, Act, Fault, NoAct

LEMMA FramesOfForm ==
    ASSUME PanelsInv, NEW h \in Handlers
    PROVE  /\ \A p \in Payees :
                 Ask(h, p) \/ SelectAndAsk(h, p) \/ SelectOnce(h, p) \/ TypePayee(h, p) => FormFrame
           /\ \A a \in Amounts : \A named : SubmitModal(h, a, named) => FormFrame
           /\ \A a \in Amounts : TypeAmount(h, a) => FormFrame
           /\ Submit(h) \/ CallService(h) \/ Refused(h) \/ RefusedUnsaid(h) => FormFrame
           /\ Paid(h) \/ PaidInPart(h) => FormFrame
           /\ Tell(h) \/ TellPart(h) \/ TellNamed(h) => FormFrame
           /\ TellRefused(h) \/ RecordFails(h) \/ TellNobody(h) => FormFrame
           /\ Answered(h) \/ Show(h) \/ ShowRefused(h) \/ Close => FormFrame
<1> USE Counted DEF FormFrame, news
<1>1. ASSUME NEW p \in Payees,
             Ask(h, p) \/ SelectAndAsk(h, p) \/ SelectOnce(h, p) \/ TypePayee(h, p)
      PROVE  FormFrame
  BY <1>1 DEF Ask, SelectAndAsk, SelectOnce, TypePayee
<1>2. ASSUME NEW a \in Amounts, NEW named, SubmitModal(h, a, named) PROVE FormFrame
  BY <1>2 DEF SubmitModal
<1>3. ASSUME NEW a \in Amounts, TypeAmount(h, a) PROVE FormFrame
  BY <1>3 DEF TypeAmount
<1>4. Submit(h) \/ CallService(h) \/ Refused(h) \/ RefusedUnsaid(h) => FormFrame
  BY DEF Submit, CallService, Refused, RefusedUnsaid
<1>5. ASSUME NEW paid, NEW step, Commits(h, paid, step) PROVE FormFrame
  BY <1>5 DEF Commits
<1>6. Tell(h) \/ TellPart(h) \/ TellNamed(h) => FormFrame
  BY DEF Tell, TellPart, TellNamed
<1>8. TellRefused(h) \/ RecordFails(h) \/ TellNobody(h) => FormFrame
  BY DEF TellRefused, RecordFails, TellNobody
<1>9. Paid(h) \/ PaidInPart(h) => FormFrame
  BY <1>5 DEF Paid, PaidInPart
<1>7. Answered(h) \/ Show(h) \/ ShowRefused(h) \/ Close => FormFrame
  BY DEF Answered, Show, ShowRefused, Close
<1> HIDE DEF FormFrame
<1> QED  BY <1>1, <1>2, <1>3, <1>4, <1>6, <1>7, <1>8, <1>9, Zenon

\* A record is committed, and no notice tells of it.
LEMMA UntoldIsTyped ==
    ASSUME PanelsInv, CommitUntold, NoAct, ballots' \in Nat
    PROVE  PanelTyping'
<1>1. PanelTyping /\ facts \in Nat
  BY TypingSplit DEF PanelsInv, PanelsTypeOK
<1>2. facts' \in Nat /\ excuse' \subseteq excuse \union {"early"}
  BY <1>1 DEF CommitUntold
<1> QED  BY <1>1, <1>2 DEF CommitUntold, NoAct, PanelTyping

LEMMA RecordKeepsInv ==
    ASSUME PanelsInv, NEW h \in Handlers, RecordCommits(h), kind # "none"
    PROVE  PanelsInv'
<1>1. FormInv' /\ SheetTyped'
  BY RefusedUnsaidKeepsForm
<1>2. ballots' \in Nat /\ CommitUntold /\ NoAct
  BY PanelTyped DEF RecordCommits, PanelsInv
<1>3. PanelInv' /\ PanelTyping'
  BY <1>2, UntoldKeepsPanel, UntoldIsTyped
<1>4. PanelsTypeOK'
  BY <1>1, <1>3 DEF PanelTyping, SheetTyped, PanelsTypeOK, DrawRec, WorkStages, Receipts
<1> QED  BY <1>1, <1>3, <1>4 DEF PanelsInv

\* A chamber's forms, and the state council's.
LEMMA ChamberFormSteps ==
    ASSUME PanelsInv, NEW h \in Handlers,
           AskCouncil(h) \/ CouncilProposal(h) \/ AssemblyTransfer(h) \/ AssemblyProposal(h)
    PROVE  PanelsInv'
<1>1. ASSUME NEW f, Use(f), NEW p \in Payees, Ask(h, p) PROVE PanelsInv'
  BY <1>1, Used, AskKeepsForm, FramesOfForm, FormOnly
<1>2. ASSUME form \in ChamberForms, NEW a \in Amounts, NEW named,
             named \in Payees \/ named = work[h].payee, SubmitModal(h, a, named)
      PROVE  PanelsInv'
  BY <1>2, WhoseForm, SubmitModalKeepsForm, FramesOfForm, FormOnly
<1>3. ASSUME form \in ChamberForms, Paid(h) \/ Refused(h) \/ TellNamed(h) \/ TellRefused(h)
      PROVE  PanelsInv'
  BY <1>3, WhoseForm, CommitsKeepsForm, RefusedKeepsForm, TellNamedKeepsForm, TellRefusedKeepsForm,
     FramesOfForm, FormOnly
<1>4. ASSUME form \in ChamberForms, TellNobody(h) PROVE PanelsInv'
  BY <1>4, WhoseForm, TellNobodyKeepsForm, FramesOfForm, FormOnly
<1>5. {"CouncilProposal", "AssemblyTransfer", "AssemblyProposal"} \subseteq ChamberForms
  BY DEF ChamberForms
<1>6. CASE AskCouncil(h)
  BY <1>1, <1>6 DEF AskCouncil
<1>7. CASE CouncilProposal(h)
  <2>1. form \in ChamberForms
    BY <1>5, <1>7 DEF CouncilProposal
  <2>2. ASSUME NEW a \in Amounts, SubmitModal(h, a, work[h].payee) PROVE PanelsInv'
    BY <1>2, <2>1, <2>2
  <2> QED  BY <1>3, <1>4, <1>7, <2>1, <2>2 DEF CouncilProposal
<1>8. CASE AssemblyTransfer(h)
  <2>1. CASE AskAssembly(h)
    BY <1>1, <2>1 DEF AskAssembly
  <2>2. CASE SendTransfer(h)
    BY <1>2, <1>5, <2>2 DEF SendTransfer
  <2>3. CASE form = "AssemblyTransfer" /\ (Paid(h) \/ Refused(h) \/ TellNamed(h) \/ TellRefused(h))
    BY <1>3, <1>5, <2>3
  <2> QED  BY <1>8, <2>1, <2>2, <2>3 DEF AssemblyTransfer
<1>9. CASE AssemblyProposal(h)
  <2>1. CASE Use("AssemblyProposal") /\ \E p \in Payees : Ask(h, p)
    BY <1>1, <2>1
  <2>2. ASSUME form = "AssemblyProposal", NEW a \in Amounts, SubmitModal(h, a, work[h].payee)
        PROVE  PanelsInv'
    BY <1>2, <1>5, <2>2
  <2>3. CASE form = "AssemblyProposal" /\ (Paid(h) \/ Refused(h) \/ TellNamed(h) \/ TellRefused(h))
    BY <1>3, <1>5, <2>3
  <2> QED  BY <1>9, <2>1, <2>2, <2>3 DEF AssemblyProposal
<1> QED  BY <1>6, <1>7, <1>8, <1>9

LEMMA CabinetFormSteps ==
    ASSUME PanelsInv, NEW h \in Handlers,
           \/ StateCouncilToUser(h) \/ StateCouncilToCompany(h) \/ StateCouncilToDepartment(h)
           \/ DepartmentToDepartment(h) \/ DepartmentToCompany(h) \/ DepartmentToUser(h)
    PROVE  PanelsInv'
<1>1. ASSUME form \in CabinetForms, Common(h) PROVE PanelsInv'
  <2>1. kind # "none"
    BY <1>1, WhoseForm
  <2>2. ASSUME NEW a \in Amounts, TypeAmount(h, a) PROVE PanelsInv'
    BY <1>1, <2>1, <2>2, TypeAmountKeepsForm, FramesOfForm, FormOnly
  <2>3. CASE Submit(h) \/ CallService(h) \/ Refused(h) \/ RefusedUnsaid(h)
    BY <1>1, <2>1, <2>3, SubmitKeepsForm, CallKeepsForm, RefusedKeepsForm,
       RefusedUnsaidKeepsForm, FramesOfForm, FormOnly
  <2>6. CASE Paid(h) \/ PaidInPart(h)
    BY <2>1, <2>6, CommitsKeepsForm, FramesOfForm, FormOnly
  <2>7. CASE RecordCommits(h)
    BY <2>1, <2>7, RecordKeepsInv
  <2>4. CASE Tell(h) \/ TellPart(h) \/ TellNamed(h)
    BY <2>1, <2>4, TellKeepsForm, TellPartKeepsForm, TellNamedKeepsForm, FramesOfForm, FormOnly
  <2>8. CASE TellRefused(h) \/ RecordFails(h)
    BY <2>1, <2>8, TellRefusedKeepsForm, FramesOfForm, FormOnly
  <2>5. CASE Answered(h) \/ Show(h) \/ ShowRefused(h) \/ Close
    BY <2>1, <2>5, AnsweredKeepsForm, ShownKeepsForm, CloseKeepsForm, FramesOfForm, FormOnly
  <2> QED  BY <1>1, <2>2, <2>3, <2>4, <2>5, <2>6, <2>7, <2>8 DEF Common, Working
<1>2. ASSUME NEW f \in CabinetForms, Use(f), NEW p \in Payees,
             SelectAndAsk(h, p) \/ SelectOnce(h, p) \/ TypePayee(h, p)
      PROVE  PanelsInv'
  BY <1>2, Used, SelectAndAskKeepsForm, SelectOnceKeepsForm, TypePayeeKeepsForm,
     FramesOfForm, FormOnly
<1>3. {"FromStateCouncil", "DepartmentToDepartment", "DepartmentToCompany", "DepartmentToUser"}
        \subseteq CabinetForms
  BY DEF CabinetForms, Forms
<1>4. CASE FromStateCouncil(h)
  BY <1>1, <1>2, <1>3, <1>4 DEF FromStateCouncil
<1>5. CASE DepartmentToDepartment(h)
  BY <1>1, <1>2, <1>3, <1>5 DEF DepartmentToDepartment
<1>6. CASE DepartmentToCompany(h)
  BY <1>1, <1>2, <1>3, <1>6 DEF DepartmentToCompany
<1>7. CASE DepartmentToUser(h)
  BY <1>1, <1>2, <1>3, <1>7 DEF DepartmentToUser
<1> QED
  BY <1>4, <1>5, <1>6, <1>7
     DEF StateCouncilToUser, StateCouncilToCompany, StateCouncilToDepartment

\* The steps of the panel and of the world around it.
PanelFrame == UNCHANGED sheet /\ kind' = kind /\ (faults' = faults \/ faults' = faults + 1)

LEMMA PanelOnly ==
    ASSUME PanelsInv, PanelFrame, PanelTyping', PanelInv'
    PROVE  PanelsInv'
<1>1. faults \in Nat /\ FormInv /\ SheetTyped
  BY TypingSplit DEF PanelsInv, PanelsTypeOK
<1>2. FormInv'
  BY <1>1, FormStays DEF PanelFrame, PanelsInv
<1>3. SheetTyped'
  BY <1>1 DEF SheetTyped, PanelFrame, sheet
<1>4. PanelsTypeOK'
  BY <1>3 DEF PanelTyping, SheetTyped, PanelsTypeOK, DrawRec, WorkStages, Receipts
<1> QED  BY <1>2, <1>4 DEF PanelsInv

LEMMA OpenIsTyped ==
    ASSUME PanelsInv, NEW k \in DOMAIN Forms, Open(k)
    PROVE  PanelsInv'
<1>1. /\ PanelTyping /\ SheetTyped /\ FormInv /\ Unopened
      /\ work = [h \in Handlers |-> NoWork] /\ form = "none"
  BY TypingSplit DEF PanelsInv, PanelInv, Unopened, Open
<1>2. /\ UNCHANGED sheet /\ kind' = k /\ UNCHANGED <<acts, faults>>
      /\ UNCHANGED <<facts, ballots, notices, allowed, bound, waiting, page, menus, screen, shelf,
                     excuse>>
  BY DEF Open, NoAct
<1>3. FormInv'
  BY <1>1, <1>2, FormStays
<1>4. SheetTyped'
  BY <1>1, <1>2 DEF SheetTyped, sheet
<1>5. drawing' \in [Refreshes -> DrawRec]
  <2>1. "open" \in Refreshes /\ "permit" \in Stages /\ drawing \in [Refreshes -> DrawRec]
    BY PanelTyped DEF PanelsInv, Stages
  <2>2. PICK d \in DrawRec : drawing' = [drawing EXCEPT !["open"] = d]
    BY <2>1, StepMade DEF Open
  <2> QED  BY <2>1, <2>2
<1>6. PanelTyping'
  BY <1>1, <1>2, <1>5 DEF PanelTyping
<1>7. PanelsTypeOK'
  BY <1>4, <1>6 DEF PanelTyping, SheetTyped, PanelsTypeOK, DrawRec, WorkStages, Receipts
<1> QED  BY <1>3, <1>7, OpenKeepsPanel DEF PanelsInv

LEMMA NewsAreTyped ==
    ASSUME PanelsInv,
           \/ Others \/ CastBallot \/ CommitBallot \/ Publish \/ LoseNotice
           \/ \E d \in Departments : Reconfigure(d)
    PROVE  PanelFrame /\ PanelTyping'
<1>1. PanelTyping /\ {facts, ballots, notices, waiting, acts, faults} \subseteq Nat
  BY TypingSplit DEF PanelsInv, PanelsTypeOK
<1>2. CASE Others
  BY <1>1, <1>2, Mishaps DEF Others, PanelFrame, PanelTyping, panel
<1>3. CASE CastBallot
  <2>1. waiting' \in Nat /\ ballots' \in Nat
    BY <1>1, <1>3 DEF CastBallot, Hear
  <2> QED  BY <1>1, <1>3, <2>1, Mishaps DEF CastBallot, PanelFrame, PanelTyping
<1>6. CASE CommitBallot
  <2>1. ballots' \in Nat /\ CommitUntold /\ NoAct /\ UNCHANGED sheet
    BY <1>1, <1>6 DEF CommitBallot
  <2> QED  BY <2>1, UntoldIsTyped DEF CommitUntold, NoAct, PanelFrame
<1>7. CASE Publish
  <2>1. waiting' \in Nat /\ notices' \in Nat /\ excuse' \subseteq excuse \union {"missed"}
    BY <1>1, <1>7 DEF Publish, Hear
  <2> QED  BY <1>1, <1>7, <2>1, Mishaps DEF Publish, PanelFrame, PanelTyping
<1>4. CASE LoseNotice
  BY <1>1, <1>4, Mishaps DEF LoseNotice, PanelFrame, PanelTyping
<1>5. ASSUME NEW d \in Departments, Reconfigure(d) PROVE PanelFrame /\ PanelTyping'
  BY <1>1, <1>5 DEF Reconfigure, PanelFrame, PanelTyping, Act, sheet
<1> QED  BY <1>2, <1>3, <1>4, <1>5, <1>6, <1>7

LEMMA RefreshIsTyped ==
    ASSUME PanelsInv, NEW r \in Refreshes, Refreshing(r) \/ Failing(r)
    PROVE  PanelFrame /\ PanelTyping'
<1>1. /\ PanelTyping /\ {facts, ballots, notices, waiting, acts, faults} \subseteq Nat
      /\ drawing \in [Refreshes -> DrawRec] /\ drawing[r] \in DrawRec /\ "live" \in Refreshes
  BY TypingSplit, PanelTyped DEF PanelsInv, PanelsTypeOK
<1>2. CASE Permit(r)
  <2>1. [drawing[r] EXCEPT !.at = "lay", !.allowed = allowed] \in DrawRec
    BY <1>1 DEF DrawRec, Stages, PanelTyping
  <2>2. drawing' \in [Refreshes -> DrawRec]
    BY <1>1, <1>2, <2>1 DEF Permit
  <2> QED  BY <1>1, <1>2, <2>2 DEF Permit, PanelFrame, PanelTyping, NoAct, news
<1>3. CASE Lay(r)
  <2>1. page' \in Pages /\ [NoDraw EXCEPT !.at = "read", !.page = page'] \in DrawRec
    BY <1>1, <1>3 DEF Lay, NoDraw, DrawRec, Stages, Pages, Counts, PanelTyping
  <2>2. drawing' \in [Refreshes -> DrawRec]
    BY <1>1, <1>3, <2>1, NothingDrawn DEF Lay
  <2> QED  BY <1>1, <1>3, <2>1, <2>2 DEF Lay, PanelFrame, PanelTyping, NoAct, news
<1>4. CASE ReadSummary(r) \/ ListProposals(r)
  <2>1. [drawing[r] EXCEPT !.at = "edit", !.facts = facts] \in DrawRec
    BY <1>1 DEF DrawRec, Stages, Counts
  <2>2. drawing' \in [Refreshes -> DrawRec] /\ facts \in Counts
    BY <1>1, <1>4, <2>1 DEF ReadSummary, ListProposals, Counts
  <2> QED
    BY <1>1, <1>4, <2>2 DEF ReadSummary, ListProposals, PanelFrame, PanelTyping, NoAct, news
<1>5. CASE ListAgain
  <2>1. drawing' \in [Refreshes -> DrawRec] /\ facts \in Counts
    BY <1>1, <1>5, NothingDrawn DEF ListAgain, Counts
  <2> QED  BY <1>1, <1>5, <2>1 DEF ListAgain, PanelFrame, PanelTyping, NoAct, news
<1>6. Drawn(r) \in [Refreshes -> DrawRec] /\ Drawn("live") \in [Refreshes -> DrawRec]
  <2>1. ASSUME NEW q \in Refreshes PROVE Drawn(q) \in [Refreshes -> DrawRec]
    <3>1. PICK d \in DrawRec : Drawn(q) = [drawing EXCEPT ![q] = d]
      BY DrawnIs
    <3> QED  BY <1>1, <3>1
  <2> QED  BY <1>1, <2>1
<1>7. CASE Draw(r)
  <2>1. [page |-> drawing[r].page, facts |-> drawing[r].facts] \in [page : Pages, facts : Counts]
    BY <1>1 DEF DrawRec
  <2> QED  BY <1>1, <1>6, <1>7, <2>1 DEF Draw, PanelFrame, PanelTyping, NoAct, news
<1>8. CASE DrawRefused(r) \/ DrawNothing
  <2>1. drawing' \in [Refreshes -> DrawRec] /\ (Fault \/ NoAct)
    BY <1>6, <1>8 DEF DrawRefused, DrawNothing
  <2> QED
    BY <1>1, <1>8, <2>1, Mishaps DEF DrawRefused, DrawNothing, PanelFrame, PanelTyping, news
<1>9. ASSUME NEW denied, PermitFails(r, denied) PROVE PanelFrame /\ PanelTyping'
  <2>1. [drawing[r] EXCEPT !.at = "lay", !.allowed = allowed \ denied] \in DrawRec
    BY <1>1 DEF DrawRec, Stages, PanelTyping
  <2>2. drawing' \in [Refreshes -> DrawRec]
    BY <1>1, <1>9, <2>1 DEF PermitFails
  <2> QED  BY <1>1, <1>9, <2>2, Mishaps DEF PermitFails, PanelFrame, PanelTyping, news
<1>10. CASE SummaryFails(r) \/ ListFails(r)
  <2>1. Unread \in Counts /\ [drawing[r] EXCEPT !.at = "edit", !.facts = Unread] \in DrawRec
    BY <1>1 DEF DrawRec, Stages, Counts
  <2>2. drawing' \in [Refreshes -> DrawRec] /\ excuse' \subseteq excuse \union {"failed"}
    BY <1>1, <1>10, <2>1 DEF SummaryFails, ListFails
  <2>3. shelf' \in Counts
    BY <1>1, <1>10, <2>1 DEF SummaryFails, ListFails, PanelTyping
  <2> QED
    BY <1>1, <1>10, <2>2, <2>3, Mishaps DEF SummaryFails, ListFails, PanelFrame, PanelTyping, news
<1>11. CASE ListAgainFails
  <2>1. drawing' \in [Refreshes -> DrawRec]
    BY <1>1, <1>11, NothingDrawn DEF ListAgainFails
  <2> QED  BY <1>1, <1>11, <2>1, Mishaps DEF ListAgainFails, PanelFrame, PanelTyping, news
<1>12. CASE Refreshing(r)
  BY <1>2, <1>3, <1>4, <1>5, <1>7, <1>8, <1>12
     DEF Refreshing, StateCouncilPanelView, CouncilPanelView, SupremeAssemblyPanelView,
         ListCouncil, ListAssembly
<1>13. CASE Failing(r)
  BY <1>8, <1>9, <1>10, <1>11, <1>13 DEF Failing
<1> QED  BY <1>12, <1>13

LEMMA OthersAreTyped ==
    ASSUME PanelsInv,
           \/ Bind \/ Expire \/ LiveUpdate
           \/ \E r \in Clickers, p \in Pages : Navigate(r, p)
    PROVE  PanelFrame /\ PanelTyping'
<1>1. /\ PanelTyping /\ {facts, ballots, notices, waiting, acts, faults} \subseteq Nat
      /\ drawing \in [Refreshes -> DrawRec] /\ {"open", "live"} \subseteq Refreshes
      /\ Clickers \subseteq Refreshes
  BY TypingSplit, PanelTyped DEF PanelsInv, PanelsTypeOK, Refreshes
<1>2. ASSUME NEW r \in Refreshes, NEW step \in Stages, drawing' = To(r, step)
      PROVE  drawing' \in [Refreshes -> DrawRec]
  BY <1>2, StepMade, Redrawn, <1>1
<1>3. CASE Bind
  <2>1. [NoDraw EXCEPT !.at = "shown"] \in DrawRec
    BY DEF NoDraw, DrawRec, Stages, Pages, Counts
  <2>2. drawing' \in [Refreshes -> DrawRec]
    BY <1>1, <1>3, <2>1 DEF Bind
  <2> QED  BY <1>1, <1>3, <2>2 DEF Bind, PanelFrame, PanelTyping, NoAct, news
<1>4. CASE Expire
  <2>1. drawing' \in [Refreshes -> DrawRec]
    BY <1>1, <1>2, <1>4 DEF Expire, Stages
  <2>2. waiting' \in Nat /\ bound' \in BOOLEAN /\ Act
        /\ UNCHANGED <<news, allowed, page, menus, screen, shelf, excuse, sheet>>
    BY <1>4 DEF Expire
  <2>3. acts' \in Nat /\ faults' \in Nat /\ (faults' = faults \/ faults' = faults + 1)
    BY <2>2, Mishaps
  <2>4. PanelFrame
    BY <2>2, <2>3 DEF PanelFrame, news
  <2>5. PanelTyping'
    BY <1>1, <2>1, <2>2, <2>3 DEF PanelTyping, news
  <2> QED  BY <2>4, <2>5
<1>5. CASE LiveUpdate
  <2>1. drawing' \in [Refreshes -> DrawRec]
    BY <1>1, <1>2, <1>5 DEF LiveUpdate, BeginRefresh, Stages
  <2>2. waiting' \in Nat /\ excuse' \subseteq excuse \union {"overlap"} /\ menus' = 0
    BY <1>1, <1>5 DEF LiveUpdate, BeginRefresh
  <2> QED  BY <1>1, <1>5, <2>1, <2>2, Mishaps DEF LiveUpdate, PanelFrame, PanelTyping, news
<1>6. ASSUME NEW r \in Clickers, NEW p \in Pages, Navigate(r, p)
      PROVE  PanelFrame /\ PanelTyping'
  <2>1. drawing' \in [Refreshes -> DrawRec]
    BY <1>1, <1>2, <1>6 DEF Navigate, BeginRefresh, Stages
  <2>2. excuse' \subseteq excuse \union {"overlap"} /\ menus' = 0
    BY <1>6 DEF Navigate, BeginRefresh
  <2> QED  BY <1>1, <1>6, <2>1, <2>2, Mishaps DEF Navigate, PanelFrame, PanelTyping, news
<1> QED  BY <1>3, <1>4, <1>5, <1>6

LEMMA PanelsInvKept == PanelsInv /\ [PanelsNext]_panelsVars => PanelsInv'
<1> SUFFICES ASSUME PanelsInv, [PanelsNext]_panelsVars PROVE PanelsInv'
  OBVIOUS
<1>1. CASE OpenStateCouncil \/ OpenCouncil \/ OpenAssembly
  <2>1. {"state_council", "council", "assembly"} \subseteq DOMAIN Forms
    BY DEF Forms
  <2> QED  BY <1>1, <2>1, OpenIsTyped DEF OpenStateCouncil, OpenCouncil, OpenAssembly
<1>2. CASE \/ Others \/ CastBallot \/ CommitBallot \/ Publish \/ LoseNotice
           \/ \E d \in Departments : Reconfigure(d)
  BY <1>2, NewsSteps, NewsAreTyped, PanelOnly
<1>3. ASSUME NEW r \in Refreshes, Refreshing(r) \/ Failing(r) PROVE PanelsInv'
  BY <1>3, RefreshSteps, RefreshIsTyped, PanelOnly
<1>4. CASE \/ Bind \/ Expire \/ LiveUpdate
           \/ \E r \in Clickers, p \in Pages : Navigate(r, p)
  BY <1>4, OtherPanelSteps, OthersAreTyped, PanelOnly
<1>5. ASSUME NEW h \in Handlers,
             AskCouncil(h) \/ CouncilProposal(h) \/ AssemblyTransfer(h) \/ AssemblyProposal(h)
      PROVE  PanelsInv'
  BY <1>5, ChamberFormSteps
<1>6. ASSUME NEW h \in Handlers,
             \/ StateCouncilToUser(h) \/ StateCouncilToCompany(h) \/ StateCouncilToDepartment(h)
             \/ DepartmentToDepartment(h) \/ DepartmentToCompany(h) \/ DepartmentToUser(h)
      PROVE  PanelsInv'
  BY <1>6, CabinetFormSteps
<1>7. CASE UNCHANGED panelsVars
  <2>1. PanelFrame /\ UNCHANGED <<news, panel, acts, faults>>
    BY <1>7 DEF panelsVars, PanelFrame, news
  <2>2. PanelTyping'
    BY <2>1, TypingSplit DEF PanelsInv, PanelTyping, news, panel
  <2>3. PanelInv'
    <3>1. PanelInv /\ Busy' = Busy /\ Gone' = Gone /\ Chamber' = Chamber
      BY <2>1 DEF PanelsInv, Busy, Gone, Chamber, news, panel
    <3>2. (Where /\ Unopened /\ Overview /\ Alone)'
      BY <2>1, <3>1 DEF PanelInv, PanelFrame, Where, Unopened, Overview, Alone, news, panel, sheet
    <3>3. \A r \in Busy : UpToDate(r) => UpToDate(r)'
      BY <2>1, <3>1 DEF UpToDate, news, panel
    <3>4. (Shows => Shows') /\ (AtRest' => AtRest)
      BY <2>1, <3>1 DEF Shows, AtRest, news, panel
    <3> QED  BY <3>1, <3>2, <3>3, <3>4 DEF PanelInv, Fresh
  <2> QED  BY <2>1, <2>2, <2>3, PanelOnly
<1> QED  BY <1>1, <1>2, <1>3, <1>4, <1>5, <1>6, <1>7 DEF PanelsNext

LEMMA PanelsInvAlways == PanelsSpec => []PanelsInv
BY PanelsInvAtFirst, PanelsInvKept, PTL DEF PanelsSpec

\* Whatever refreshes, notices and settings do: a panel that hears of news, and has
\* none on its way, shows all that was paid or decided, on a page that its author
\* chose and may see, but for what is excused (_apply_live_update, refresh_options).
THEOREM PanelsCatchUp == PanelsSpec => []PanelIsTrue
<1>1. PanelsInv => PanelIsTrue
  <2> SUFFICES ASSUME PanelsInv, bound, notices = 0, waiting = 0, Busy = {}, excuse = {}
               PROVE  Shows
    BY DEF PanelIsTrue, PanelCatchesUp, Shows, PanelsInv
  <2>1. ~Gone
    BY DEF PanelsInv, PanelInv, Where, Gone
  <2> QED  BY <2>1 DEF PanelsInv, PanelInv, Fresh, AtRest
<1> QED  BY <1>1, PanelsInvAlways, PTL

\* However its callbacks interleave: a form of the panel sends what its user saw, and
\* tells him what came of it (apply_ui_update, _execute_transfer, on_submit).
THEOREM FormsAreHonest == PanelsSpec => []FormIsHonest
<1>1. PanelsInv => FormIsHonest
  BY DEF PanelsInv, FormInv
<1> QED  BY <1>1, PanelsInvAlways, PTL

=============================================================================

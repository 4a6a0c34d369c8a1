----------------------------- MODULE VotingDesk -----------------------------
(***************************************************************************)
(* How a chamber's members learn of a proposal, vote on it and are told    *)
(* the result: the messages with voting buttons (VotingView,               *)
(* SupremeAssemblyVotingView), _handle_vote, the scheduler's rounds and    *)
(* _broadcast_result.  The council and the assembly do it alike, and       *)
(* differ in their reminders.                                              *)
(*                                                                         *)
(* What a vote or a deadline makes of a proposal is any outcome here: the  *)
(* modules Council and SupremeAssembly count.  Discord's dispatch of       *)
(* buttons is external: a message sent by this process has its own view; a *)
(* button of any other message goes to the view that was registered last   *)
(* for its custom_id, and all views have the same custom_ids.              *)
(***************************************************************************)
EXTENDS Integers, FiniteSets

CONSTANTS
    Proposals,
    Earlier,     \* those that an earlier process has left open
    Callbacks,   \* votes at work at a time, at most
    NoProposal,  \* a model value
    MaxMoves,    \* bound: what members do
    MaxDue,      \* bound: deadlines that come near, and that pass
    MaxMishaps   \* bound: crashes, failed queries and refused messages

VotingDeskAssumption ==
    /\ NoProposal \notin Proposals /\ Earlier \subseteq Proposals
    /\ IsFiniteSet(Proposals) /\ IsFiniteSet(Callbacks)
    /\ MaxMoves \in Nat /\ MaxMishaps \in Nat /\ MaxDue \in Nat

VARIABLES
    chamber,     \* whose desk it is
    standing,    \* standing[p]: the status of p
    nearing,     \* the council's proposals with less than 24 hours left
    overdue,     \* proposals past their deadline
    reminded,    \* reminder_sent
    letters,     \* letters[p]: which process sent the members p's buttons
    fallback,    \* the view registered last for the buttons of old messages
    registered,  \* the proposals that got a view when this process began
    round,       \* where the scheduler stands
    ballot,      \* ballot[k]: where the vote k stands
    cast,        \* votes counted: what the button's message showed, where the
                 \* vote went, whose button it was and what had a view, a history
    results,     \* results[p]: what the members have been told last, a history
    reminders,   \* reminders[p]: how often the council has reminded of p, a history
    gaps,        \* proposals whose result may be untold, a history
    moves,
    mishaps

rows == <<chamber, standing, nearing, overdue, reminded>>
histories == <<cast, results, reminders, gaps>>
views == <<fallback, registered, letters>>
votingVars == <<rows, views, round, ballot, histories, moves, mishaps>>

NoBallot == [at |-> "idle"]
Sleeping == [at |-> "asleep"]
Final == {"passed", "rejected", "expired"}
Open == {p \in Proposals : standing[p] = "open"}
Begun(p) == standing[p] # "unborn"

Move == moves < MaxMoves /\ moves' = moves + 1 /\ UNCHANGED mishaps
Mishap == mishaps < MaxMishaps /\ mishaps' = mishaps + 1 /\ UNCHANGED moves
Calm == UNCHANGED <<moves, mishaps>>

Init ==
    /\ chamber \in {"council", "assembly"}
    /\ standing = [p \in Proposals |-> IF p \in Earlier THEN "open" ELSE "unborn"]
    /\ nearing = {} /\ overdue = {} /\ reminded = {}
    /\ letters = [p \in Proposals |-> IF p \in Earlier THEN "an earlier one" ELSE "none"]
    /\ fallback = NoProposal /\ registered = {}
    /\ round = [at |-> "start"]
    /\ ballot = [k \in Callbacks |-> NoBallot]
    /\ cast = {} /\ results = [p \in Proposals |-> "none"]
    /\ reminders = [p \in Proposals |-> 0]
    /\ gaps = {}
    /\ moves = 0 /\ mishaps = 0

GapIf(p, excused) == gaps' = IF excused THEN gaps \union {p} ELSE gaps
Announce(p, s) == results' = [results EXCEPT ![p] = s]

-----------------------------------------------------------------------------
(* Proposals and their messages *)

Propose(p, sent) ==
    /\ standing[p] = "unborn"
    /\ standing' = [standing EXCEPT ![p] = "open"]
    /\ letters' = [letters EXCEPT ![p] = sent]
    /\ UNCHANGED <<chamber, nearing, overdue, reminded, fallback, registered, round, ballot,
                   histories>>

\* create_proposal, then _dm_council_for_voting or _dm_members_for_voting: one
\* view for all messages.
create_proposal(p) == Propose(p, "this process") /\ Move

\* Its author cannot be told of it, or the process ends: nobody is invited.
create_unsaid(p) ==
    /\ Propose(p, "none")
    /\ moves < MaxMoves /\ moves' = moves + 1
    /\ mishaps < MaxMishaps /\ mishaps' = mishaps + 1

\* cancel_proposal, before anyone has voted.
cancel(p) ==
    /\ p \in Open /\ \A c \in cast : c.counted # p
    /\ standing' = [standing EXCEPT ![p] = "cancelled"]
    /\ UNCHANGED <<chamber, nearing, overdue, reminded, views, round, ballot,
                   histories>> /\ Move

\* Time passes: the deadlines of what has ended matter to nobody.
Nearing(p) ==
    /\ chamber = "council" /\ p \in Open \ nearing /\ Cardinality(nearing) < MaxDue
    /\ nearing' = nearing \union {p}
    /\ UNCHANGED <<chamber, standing, overdue, reminded, views, round, ballot,
                   histories>> /\ Calm

Deadline(p) ==
    /\ p \in Open \ overdue /\ (chamber = "council" => p \in nearing)
    /\ Cardinality(overdue) < MaxDue
    /\ overdue' = overdue \union {p}
    /\ UNCHANGED <<chamber, standing, nearing, reminded, views, round, ballot,
                   histories>> /\ Calm

-----------------------------------------------------------------------------
(* _handle_vote *)

\* Mutant of Target: registered views come first.
TargetRegistered(p) == IF fallback # NoProposal THEN fallback ELSE p

\* The proposal whose view the buttons of p's message reach.
Target(p) == IF letters[p] = "this process" THEN p ELSE fallback

\* Callbacks are alike: a vote takes any that is idle.
Idle == {k \in Callbacks : ballot[k].at = "idle"}
Caller == IF Idle = {} THEN {} ELSE {CHOOSE k \in Idle : TRUE}

\* vote reads the proposal, which must be open, before its transaction.
Vote(k, p, q, place) ==
    /\ k \in Caller /\ q \in Open
    /\ ballot' = [ballot EXCEPT ![k] =
                     [at |-> "commit", on |-> q, guild |-> place = "panel", shown |-> p,
                      own |-> place = "panel" \/ letters[p] = "this process",
                      among |-> registered]]
    /\ UNCHANGED <<rows, views, round, histories>> /\ Move

\* In a direct message the interaction has no guild.
PressInMessage(k, p) == letters[p] # "none" /\ Vote(k, p, Target(p), "message")

\* The buttons that a panel shows for an open proposal.
PressOnPanel(k, p) == Vote(k, p, p, "panel")

\* Somebody has a result of p to tell: a vote that is counted, or the round.
Telling(p) ==
    \/ \E k \in Callbacks : ballot[k].at \in {"reply", "tell"} /\ ballot[k].on = p
    \/ round.at = "tell" /\ round.on = p

\* The vote is counted, with any outcome, or refused.
CommitVote(k, s) ==
    LET p == ballot[k].on IN
    /\ ballot[k].at = "commit"
    /\ standing' = IF s = "open" THEN standing ELSE [standing EXCEPT ![p] = s]
    /\ cast' = cast \union {[shown |-> ballot[k].shown, counted |-> p, own |-> ballot[k].own,
                             among |-> ballot[k].among]}
    /\ GapIf(p, s # "open" /\ (~ballot[k].guild \/ Telling(p)))
    /\ ballot' = [ballot EXCEPT ![k] = [at |-> "reply", on |-> p, guild |-> @.guild, told |-> s]]
    /\ UNCHANGED <<chamber, nearing, overdue, reminded, views, round, results, reminders>>
    /\ Calm

VoteRefused(k) ==
    /\ ballot[k].at = "commit"
    /\ ballot' = [ballot EXCEPT ![k] = NoBallot]
    /\ UNCHANGED <<rows, views, round, histories>> /\ Calm

\* The member is answered; a result is announced if the guild is known.
Reply(k) ==
    /\ ballot[k].at = "reply"
    /\ ballot' = [ballot EXCEPT ![k] = IF @.told # "open" /\ @.guild
                                       THEN [at |-> "tell", on |-> @.on, told |-> @.told]
                                       ELSE NoBallot]
    /\ UNCHANGED <<rows, views, round, histories>> /\ Calm

\* _broadcast_result has made its queries, and tells what the vote has made of it.
TellVote(k) ==
    /\ ballot[k].at = "tell"
    /\ ballot' = [ballot EXCEPT ![k] = NoBallot]
    /\ Announce(ballot[k].on, ballot[k].told)
    /\ UNCHANGED <<rows, views, round, cast, reminders, gaps>> /\ Calm

\* The answer is refused, or a query of _broadcast_result fails.
ReplyFails(k) ==
    /\ ballot[k].at \in {"reply", "tell"}
    /\ ballot' = [ballot EXCEPT ![k] = NoBallot]
    /\ GapIf(ballot[k].on, ballot[k].told # "open")
    /\ UNCHANGED <<rows, views, round, cast, results, reminders>> /\ Mishap

-----------------------------------------------------------------------------
(* A round of the scheduler *)

\* _register_persistent_views: a view for every open proposal, of which the
\* last one stays.
register_persistent_views ==
    /\ round.at = "start"
    /\ \/ Open # {} /\ fallback' \in Open
       \/ Open = {} /\ fallback' = NoProposal
    /\ registered' = Open
    /\ round' = Sleeping
    /\ UNCHANGED <<rows, letters, ballot, histories>> /\ Calm

\* Its query fails: the loop begins without views for old messages.
RegisterFails ==
    /\ round.at = "start"
    /\ round' = Sleeping
    /\ UNCHANGED <<rows, views, ballot, histories>> /\ Mishap

\* due_before, what will have to be announced.
ListDue ==
    /\ round.at = "asleep"
    /\ round' = [at |-> "expire", due |-> Open \intersect overdue]
    /\ UNCHANGED <<rows, views, ballot, histories>> /\ Calm

\* expire_due_proposals makes a list of its own ...
ListToExpire ==
    /\ round.at = "expire"
    /\ round' = [at |-> "expiring", due |-> round.due, todo |-> Open \intersect overdue]
    /\ UNCHANGED <<rows, views, ballot, histories>> /\ Calm

\* ... and marks each as passed or expired, whatever it is by then.
Expire(p, s) ==
    /\ round.at = "expiring" /\ p \in round.todo /\ s \in {"passed", "expired"}
    /\ standing' = [standing EXCEPT ![p] = s]
    /\ round' = [round EXCEPT !.todo = @ \ {p}]
    /\ GapIf(p, p \notin round.due \/ Telling(p))
    /\ UNCHANGED <<chamber, nearing, overdue, reminded, views, ballot, cast, results, reminders>>
    /\ Calm

\* An error there ends expire_due_proposals, but not the round.
ExpireFails ==
    /\ round.at = "expiring" /\ round.todo # {}
    /\ round' = [round EXCEPT !.todo = {}]
    /\ UNCHANGED <<rows, views, ballot, histories>> /\ Mishap

\* The council's candidates are what is nearing its deadline; the assembly
\* has none but what is past it.
ListReminders ==
    /\ round.at = "expiring" /\ round.todo = {}
    /\ round' = [at |-> "remind", due |-> round.due,
                 todo |-> IF chamber = "council" THEN (Open \intersect nearing) \ reminded
                          ELSE Open \intersect overdue]
    /\ UNCHANGED <<rows, views, ballot, histories>> /\ Calm

Remind(p) ==
    /\ round.at = "remind" /\ p \in round.todo
    /\ reminders' = IF chamber = "council" THEN [reminders EXCEPT ![p] = @ + 1] ELSE reminders
    /\ round' = IF chamber = "council"
                THEN [at |-> "mark", due |-> round.due, todo |-> round.todo \ {p}, marking |-> p]
                ELSE [round EXCEPT !.todo = @ \ {p}]
    /\ UNCHANGED <<rows, views, ballot, cast, results, gaps>> /\ Calm

\* mark_reminded, after the messages.
mark_reminded ==
    /\ round.at = "mark"
    /\ reminded' = reminded \union {round.marking}
    /\ round' = [at |-> "remind", due |-> round.due, todo |-> round.todo]
    /\ UNCHANGED <<chamber, standing, nearing, overdue, views, ballot, histories>> /\ Calm

RemindersDone ==
    /\ round.at = "remind" /\ round.todo = {}
    /\ round' = [at |-> "broadcast", todo |-> round.due]
    /\ UNCHANGED <<rows, views, ballot, histories>> /\ Calm

\* What has ended is announced as it stands now, in a moment.
Announced(p) ==
    round' = [at |-> "tell", todo |-> round.todo \ {p}, on |-> p, told |-> standing[p]]

\* Mutant of Broadcast: only what has expired is announced.
BroadcastExpired(p) ==
    /\ round.at = "broadcast" /\ p \in round.todo
    /\ IF standing[p] # "expired" THEN round' = [round EXCEPT !.todo = @ \ {p}]
       ELSE Announced(p)
    /\ UNCHANGED <<rows, views, ballot, histories>> /\ Calm

\* get_proposal, of what was due when the round began.  (It was open then, and
\* so is not in broadcasted, what this process has announced.)
Broadcast(p) ==
    /\ round.at = "broadcast" /\ p \in round.todo
    /\ IF p \in Open THEN round' = [round EXCEPT !.todo = @ \ {p}]
       ELSE Announced(p)
    /\ UNCHANGED <<rows, views, ballot, histories>> /\ Calm

\* _broadcast_result tells the members the status that was read before its queries.
BroadcastResult ==
    /\ round.at = "tell"
    /\ Announce(round.on, round.told)
    /\ round' = [at |-> "broadcast", todo |-> round.todo]
    /\ UNCHANGED <<rows, views, ballot, cast, reminders, gaps>> /\ Calm

\* get_proposal fails, or a query of _broadcast_result, which goes unnoticed.
BroadcastFails(p) ==
    /\ \/ round.at = "broadcast" /\ p \in round.todo
       \/ round.at = "tell" /\ p = round.on
    /\ round' = [at |-> "broadcast", todo |-> round.todo \ {p}]
    /\ GapIf(p, p \notin Open)
    /\ UNCHANGED <<rows, views, ballot, cast, results, reminders>> /\ Mishap

RoundDone ==
    /\ round.at = "broadcast" /\ round.todo = {}
    /\ round' = Sleeping
    /\ UNCHANGED <<rows, views, ballot, histories>> /\ Calm

\* An error anywhere else ends the round, and its due_before is forgotten.
RoundFails ==
    /\ round.at \in {"expire", "remind", "mark"}
    /\ round' = Sleeping
    /\ gaps' = gaps \union (round.due \ Open)
    /\ UNCHANGED <<rows, views, ballot, cast, results, reminders>> /\ Mishap

-----------------------------------------------------------------------------
(* The process ends, and another begins *)

Untold == {p \in Proposals : standing[p] \in Final /\ results[p] # standing[p]}

Restart ==
    /\ fallback' = NoProposal /\ registered' = {}
    /\ letters' = [p \in Proposals |-> IF letters[p] = "none" THEN "none" ELSE "an earlier one"]
    /\ round' = [at |-> "start"]
    /\ ballot' = [k \in Callbacks |-> NoBallot]
    /\ gaps' = gaps \union Untold
    /\ UNCHANGED <<rows, cast, results, reminders>> /\ Mishap

VotingView(k) ==
    \/ VoteRefused(k) \/ Reply(k) \/ TellVote(k) \/ ReplyFails(k)
    \/ \E s \in {"open", "passed", "rejected"} : CommitVote(k, s)
    \/ \E p \in Proposals : PressInMessage(k, p) \/ PressOnPanel(k, p)
Round ==
    \/ register_persistent_views \/ RegisterFails \/ ListDue \/ ListToExpire \/ ExpireFails
    \/ ListReminders \/ mark_reminded \/ RemindersDone \/ BroadcastResult \/ RoundDone
    \/ RoundFails
    \/ \E p \in Proposals : \/ Remind(p) \/ Broadcast(p) \/ BroadcastFails(p)
                            \/ \E s \in {"passed", "expired"} : Expire(p, s)

Next ==
    \/ \E k \in Callbacks : VotingView(k)
    \/ \E p \in Proposals : \/ create_proposal(p) \/ create_unsaid(p) \/ cancel(p)
                            \/ Nearing(p) \/ Deadline(p)
    \/ Round \/ Restart

Spec == Init /\ [][Next]_votingVars

-----------------------------------------------------------------------------
(* Properties *)

\* Every variable has its type; buttons reach no view of a proposal that does
\* not exist.
TypeOK ==
    /\ chamber \in {"council", "assembly"}
    /\ standing \in [Proposals -> {"unborn", "open", "cancelled"} \union Final]
    /\ overdue \subseteq Proposals /\ reminded \subseteq nearing /\ nearing \subseteq Proposals
    /\ fallback # NoProposal => fallback \in registered
    /\ registered \subseteq Proposals /\ \A p \in registered : Begun(p)
    /\ letters \in [Proposals -> {"none", "this process", "an earlier one"}]
    /\ round.at \in
          {"start", "asleep", "expire", "expiring", "remind", "mark", "broadcast", "tell"}
    /\ \A k \in Callbacks : ballot[k].at \in {"idle", "commit", "reply", "tell"}

\* A vote counts for the proposal that its message shows (VotingView,
\* _register_persistent_views), however messages, panels and restarts mix -
\* unless it was cast with the buttons of an earlier process's message, and
\* that proposal was not the only one open when this process began: then it
\* counts for one of those that were.
CountedWhereCast ==
    \A c \in cast :
        \/ c.counted = c.shown
        \/ ~c.own /\ c.counted \in c.among /\ c.among # {c.shown}

\* When the scheduler sleeps and no vote is at work, the members have last
\* been told of every proposal that ended how it ended (_handle_vote,
\* _broadcast_result) - unless a vote in a direct message ended it, its
\* deadline passed after the round's list was made, a vote or the scheduler's
\* mark changed it while somebody was about to tell what he had read or made
\* of it before, a query or the answer failed, or the process ended.
ResultsAreTold ==
    round.at = "asleep" /\ (\A k \in Callbacks : ballot[k].at = "idle") =>
        \A p \in Proposals :
            standing[p] \in Final /\ p \notin gaps => results[p] = standing[p]

\* Only results are announced: what members are told is that a proposal has
\* ended, and it has.
OnlyResultsAreTold == \A p \in Proposals : results[p] # "none" => p \notin Open

\* The council reminds of a proposal once, and once more at most for every
\* round that was cut off between the messages and their mark.
RemindedOnce ==
    chamber = "council" => \A p \in Proposals : reminders[p] <= 1 + mishaps

=============================================================================

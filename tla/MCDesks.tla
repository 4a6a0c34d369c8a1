------------------------------- MODULE MCDesks -------------------------------
(***************************************************************************)
(* Five desks that have nothing to do with each other, one per behaviour:  *)
(* companies and their payments, the suspects' panels, the voting          *)
(* messages, a member's own panel and the panels of interior affairs.  The *)
(* variables of the other four stay as they began.                         *)
(***************************************************************************)
EXTENDS Companies

CONSTANTS Suspects, Named, Accused, PageSize, Handlers, MaxActs, MaxFaults
VARIABLES office, status, filter, page, list, total, picked, menu, live, open, screen, work,
          chosen, taken, excuse, acts, faults
S_ == INSTANCE SuspectPanels
ASSUME SuspectsAssumed == S_!SuspectPanelsAssumption

CONSTANTS Proposals, Earlier, Callbacks, NoProposal, MaxMoves, MaxDue, MaxMishaps
VARIABLES chamber, standing, nearing, overdue, reminded, letters, fallback, registered, round,
          ballot, cast, results, reminders, gaps, moves, mishaps
V_ == INSTANCE VotingDesk
ASSUME VotingAssumed == V_!VotingDeskAssumption

CONSTANTS Members, Firms, Institutions, Departments, Relocated, Savings, HistoryPage,
          LoadLimit, HistoryShown, Clicks, Nobody, MaxPresses, MaxSlips
VARIABLES mode, purse, entries, filed, seen, tab, pager, leaf, loaded, shown, offers, hand,
          latest, payments, asked, answers, cause, presses, slips
P_ == INSTANCE PersonalPanel
ASSUME PersonalAssumed == P_!PersonalPanelAssumption

CONSTANTS Applied, KindOf, Waiting, AppPage, Rows, LicensePage, Officials, MaxSteps, MaxLosses
VARIABLES view, fate, kind, apps, issued, current_page, display, duty, ordered, said, behind,
          steps, losses
I_ == INSTANCE InteriorDesk
ASSUME InteriorAssumed == I_!InteriorDeskAssumption

VARIABLE desk

suspectDesk == <<office, status, filter, page, list, total, picked, menu, live, open, screen,
                 work, chosen, taken, excuse, acts, faults>>
votingDesk == <<chamber, standing, nearing, overdue, reminded, letters, fallback, registered,
                round, ballot, cast, results, reminders, gaps, moves, mishaps>>
personalDesk == <<mode, purse, entries, filed, seen, tab, pager, leaf, loaded, shown, offers,
                  hand, latest, payments, asked, answers, cause, presses, slips>>
interiorDesk == <<view, fate, kind, apps, issued, current_page, display, duty, ordered, said,
                  behind, steps, losses>>
desks == <<desk, vars, suspectDesk, votingDesk, personalDesk, interiorDesk>>

MCInit ==
    /\ desk \in {"companies", "suspects", "voting", "personal", "interior"}
    /\ Init /\ S_!Init /\ V_!Init /\ P_!Init /\ I_!Init
    /\ desk # "suspects" => office = "homeland"
    /\ desk # "voting" => chamber = "council"
    /\ desk # "personal" => mode = "direct"
    /\ desk # "interior" => view = "applications"
    /\ entries = HistoryPage + 1 /\ filed = <<"welfare", "license">>

MCNext ==
    \/ /\ desk = "companies" /\ Next
       /\ UNCHANGED <<desk, suspectDesk, votingDesk, personalDesk, interiorDesk>>
    \/ /\ desk = "suspects" /\ S_!Next
       /\ UNCHANGED <<desk, vars, votingDesk, personalDesk, interiorDesk>>
    \/ /\ desk = "voting" /\ V_!Next
       /\ UNCHANGED <<desk, vars, suspectDesk, personalDesk, interiorDesk>>
    \/ /\ desk = "personal" /\ P_!Next
       /\ UNCHANGED <<desk, vars, suspectDesk, votingDesk, interiorDesk>>
    \/ /\ desk = "interior" /\ I_!Next
       /\ UNCHANGED <<desk, vars, suspectDesk, votingDesk, personalDesk>>

MCSpec == MCInit /\ [][MCNext]_desks

-----------------------------------------------------------------------------
(* The owner has two companies and a licence for a third; the fourth licence *)
(* and its company are somebody else's.                                      *)

Record(id, account, license) == [id |-> id, account |-> account, license |-> license]

MCHolder == [l \in {"l1", "l2", "l3", "l4"} |-> IF l = "l4" THEN "stranger" ELSE "owner"]
MCFounded == {Record(2, 1, "l1"), Record(4, 3, "l2"), Record(6, 5, "l4")}
MCFunds == [a \in {1, 3, 5} |-> IF a = 3 THEN 1 ELSE 2]
MCAuthor == [v \in {"v1"} |-> "owner"]

\* The application that comes later is of the kind of one of the first two.
MCKindOf == [a \in 1..3 |-> IF a = 2 THEN "license" ELSE "welfare"]

-----------------------------------------------------------------------------
(* The properties of the other desks, of which their modules tell *)

\* Types (a page is one of its list, buttons reach a proposal that exists, every
\* button of an application has a row), and what each screen shows when nothing
\* is at work: the suspects there are; the tab, its buttons and the author's
\* applications; the applications that wait, and the licences of the page.
ScreensAreTrue ==
    CASE desk = "suspects" -> S_!TypeOK /\ S_!PanelShowsTheSuspects
      [] desk = "voting" -> V_!TypeOK
      [] desk = "personal" ->
            P_!TypeOK /\ P_!ScreenShowsItsTab /\ P_!ApplicationsAreListed
      [] desk = "interior" -> I_!TypeOK /\ I_!PendingAreShown /\ I_!LicensesAreShown
      [] OTHER -> TRUE

\* SuspectPanels: an order takes only whom its author selected last.
OnlyTheChosen == S_!OnlyTheChosen

\* VotingDesk: a vote counts for the proposal that its message shows; a restart
\* that leaves several open leads votes of old messages to one of them.
CountedWhereCast == desk = "voting" => V_!CountedWhereCast

\* VotingDesk: members are told how every proposal ended, of nothing else, and
\* the council reminds of one once.
AnnouncementsAreTrue ==
    desk = "voting" => V_!ResultsAreTold /\ V_!OnlyResultsAreTold /\ V_!RemindedOnce

\* PersonalPanel: points go to the payee whom the form named, and the author is
\* told what became of them.
PaymentsAreAsTold == desk = "personal" => P_!PaidAsNamed /\ P_!ToldOfPayments

\* InteriorDesk: an application is decided as somebody ordered.
DecidedAsOrdered == desk = "interior" => I_!DecidedAsOrdered
=============================================================================

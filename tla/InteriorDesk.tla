----------------------------- MODULE InteriorDesk -----------------------------
(***************************************************************************)
(* Two panels of interior affairs: the applications that wait for a        *)
(* decision, with a pair of buttons each (ApplicationManagementView), and  *)
(* the licences, in pages (BusinessLicenseListView).                       *)
(*                                                                         *)
(* A step is what a callback runs between two awaits.  The service's part  *)
(* of a decision is one step (Applications has its details).               *)
(***************************************************************************)
EXTENDS Integers, FiniteSets

CONSTANTS
    Applied,      \* numbers of applications, in the order in which they are made
    KindOf,       \* KindOf[a]: "welfare" or "license"
    Waiting,      \* those that wait when the panel is opened
    AppPage,      \* applications on a page
    Rows,         \* rows of buttons that Discord has room for
    LicensePage,  \* licences on a page
    Officials,    \* callbacks at work, at most
    MaxSteps,     \* bound: what is pressed here, and done elsewhere
    MaxLosses     \* bound: failed queries and decisions, and refused messages

InteriorDeskAssumption ==
    /\ Applied \subseteq Nat /\ IsFiniteSet(Applied) /\ IsFiniteSet(Officials)
    /\ KindOf \in [Applied -> {"welfare", "license"}]
    /\ Waiting \subseteq Applied /\ Cardinality(Waiting) <= Rows
    /\ {AppPage, LicensePage} \subseteq Nat \ {0} /\ Rows \in Nat
    /\ {MaxSteps, MaxLosses} \subseteq Nat

VARIABLES
    view,     \* which of the two is open
    fate,     \* fate[a]: how the application a stands with the service
    kind,     \* filter_type, "all" for None
    apps,     \* _welfare_apps and _license_apps
    issued,   \* how many licences there are
    current_page, \* of the licences
    display,  \* the message as Discord shows it
    duty,     \* duty[h]: where the callback h stands
    ordered,  \* decisions that somebody has asked for, a history
    said,     \* decisions of which the author was told, a history
    behind,   \* why the display may differ, a history
    steps,
    losses

applicationVars == <<fate, kind, apps, ordered, said>>
licenseVars == <<issued, current_page>>
interiorVars == <<view, applicationVars, licenseVars, display, duty, behind, steps, losses>>

AppKinds == {"welfare", "license"}
OffDuty == [at |-> "idle"]
Underway == {"decide", "tell", "load", "loaded", "query", "listed", "edit"}
OnDuty == {h \in Officials : duty[h].at \in Underway}
Do(h, w) == duty' = [duty EXCEPT ![h] = w]
\* Officials are alike: whoever presses is any that is free.
Free(h) == duty[h].at = "idle" /\ h = (CHOOSE g \in Officials : duty[g].at = "idle")

PressNow == steps < MaxSteps /\ steps' = steps + 1 /\ UNCHANGED losses
Lose == losses < MaxLosses /\ losses' = losses + 1 /\ UNCHANGED steps
NoStep == UNCHANGED <<steps, losses>>

\* Work that crosses other work may be shown out of order; what one begins
\* alone makes good the reasons in old.
Misdrawn == {"refused", "rows"}
Stale == Misdrawn \union {"overlap", "elsewhere", "load"}
Meets(h, old) == behind' = IF OnDuty \subseteq {h} THEN behind \ old ELSE behind \union {"overlap"}

-----------------------------------------------------------------------------
(* What is shown *)

\* list_welfare_applications and list_license_applications
Pending(k) == {a \in Applied : fate[a] = "pending" /\ KindOf[a] = k}

_get_filtered_apps(lists, f) == UNION {lists[k] : k \in {k \in AppKinds : f \in {"all", k}}}
Newest(S) == {a \in S : Cardinality({b \in S : b > a}) < AppPage}

\* _build_buttons: an application on the page has a row of its own, below the
\* filters', and a row that does not exist is an error.
Fits(S) == Cardinality(S) <= Rows

\* build_embed and the buttons of the applications.
Sheet(lists, f) ==
    [apps |-> Newest(_get_filtered_apps(lists, f)), filter |-> f,
     counts |-> [k \in AppKinds |-> Cardinality(lists[k])]]

\* fn_list_business_licenses: the newest come first.  An offset below zero is
\* an error.
Listed(k) ==
    [ids |-> {i \in 1..issued : (issued - i) \div LicensePage = k - 1},
     total |-> IF (k - 1) * LicensePage < issued THEN issued ELSE 0]

\* BusinessLicenseListView._build_buttons and build_embed: the page is
\* current_page, whatever the list is of.
Book(l, k) ==
    [ids |-> l.ids, page |-> k, prev |-> k > 1, next |-> k * LicensePage < l.total]

Init ==
    /\ view \in {"applications", "licenses"}
    /\ fate = [a \in Applied |-> IF a \in Waiting THEN "pending" ELSE "unmade"]
    /\ kind = "all" /\ apps = [k \in AppKinds |-> Pending(k)]
    /\ issued \in IF view = "licenses" THEN {LicensePage, 2 * LicensePage + 1} ELSE {0}
    /\ current_page = 1
    /\ display = IF view = "applications" THEN Sheet(apps, kind) ELSE Book(Listed(1), 1)
    /\ duty = [h \in Officials |-> OffDuty]
    /\ ordered = {} /\ said = {} /\ behind = {}
    /\ steps = 0 /\ losses = 0

-----------------------------------------------------------------------------
(* The applications *)

\* Draws the panel, unless a row is missing: then the callback ends there, and
\* whatever was to follow.
Lay(h, next, answered, old) ==
    IF Fits(Newest(_get_filtered_apps(apps', kind')))
    THEN /\ Do(h, [at |-> "edit", view |-> Sheet(apps', kind'), next |-> next,
                   answered |-> answered])
         /\ Meets(h, old)
    ELSE Do(h, OffDuty) /\ behind' = behind \union {"rows"}

\* Mutant of filter_callback: drawn before the filter is set.
filter_late(h, f) ==
    /\ view = "applications" /\ Free(h)
    /\ kind' = f
    /\ UNCHANGED <<fate, apps, ordered, said, licenseVars, view, display>>
    /\ Do(h, [at |-> "edit", view |-> Sheet(apps, kind), next |-> OffDuty, answered |-> FALSE])
    /\ Meets(h, Misdrawn) /\ PressNow

\* _filter_all_callback and the two others
filter_callback(h, f) ==
    /\ view = "applications" /\ Free(h)
    /\ kind' = f
    /\ UNCHANGED <<fate, apps, ordered, said, licenseVars, view, display>>
    /\ Lay(h, OffDuty, FALSE, Misdrawn) /\ PressNow

\* load_applications begins; what follows the panel's edit, and whether the
\* callback has answered by then.
Load(next, answered) ==
    [at |-> "load", of |-> "welfare", next |-> next, answered |-> answered]

_refresh_callback(h) ==
    /\ view = "applications" /\ Free(h)
    /\ Do(h, Load(OffDuty, FALSE)) /\ Meets(h, Stale)
    /\ UNCHANGED <<applicationVars, licenseVars, view, display>> /\ PressNow

list_applications(h) ==
    /\ duty[h].at = "load"
    /\ Do(h, [at |-> "loaded", of |-> duty[h].of, list |-> Pending(duty[h].of),
              next |-> duty[h].next, answered |-> duty[h].answered])
    /\ UNCHANGED <<applicationVars, licenseVars, view, display, behind>> /\ NoStep

\* The other list is loaded next, or the panel drawn.
Onward(h) ==
    IF duty[h].of = "welfare"
    THEN Do(h, [Load(duty[h].next, duty[h].answered) EXCEPT !.of = "license"]) /\ UNCHANGED behind
    ELSE Lay(h, duty[h].next, duty[h].answered, {})

load_applications(h) ==
    /\ duty[h].at = "loaded"
    /\ apps' = [apps EXCEPT ![duty[h].of] = duty[h].list]
    /\ UNCHANGED <<fate, kind, ordered, said, licenseVars, view, display>>
    /\ Onward(h) /\ NoStep

\* A query fails, unnoticed: the list is kept.  The panel may be behind from
\* now on.
LoadFails(h) ==
    /\ duty[h].at = "load"
    /\ Do(h, [at |-> "loaded", of |-> duty[h].of, list |-> apps[duty[h].of],
              next |-> duty[h].next, answered |-> duty[h].answered])
    /\ behind' = behind \union {"load"}
    /\ UNCHANGED <<applicationVars, licenseVars, view, display>> /\ Lose

Decide(h, a, what) ==
    /\ Do(h, [at |-> "decide", what |-> what, app |-> a])
    /\ ordered' = ordered \union {<<a, what>>}
    /\ Meets(h, {})
    /\ UNCHANGED <<fate, kind, apps, said, licenseVars, view, display>>

\* Mutant of approve_callback: every button is the last one's.
approve_last(h, a) ==
    /\ view = "applications" /\ Free(h) /\ a \in display.apps
    /\ Do(h, [at |-> "decide", what |-> "approved",
              app |-> CHOOSE b \in display.apps : \A c \in display.apps : b <= c])
    /\ ordered' = ordered \union {<<a, "approved">>}
    /\ Meets(h, {})
    /\ UNCHANGED <<fate, kind, apps, said, licenseVars, view, display>> /\ PressNow

\* _make_approve_callback
approve_callback(h, a) ==
    /\ view = "applications" /\ Free(h) /\ a \in display.apps
    /\ Decide(h, a, "approved") /\ PressNow

\* _make_reject_callback opens a form for the application ...
reject_callback(h, a) ==
    /\ view = "applications" /\ Free(h) /\ a \in display.apps
    /\ Do(h, [at |-> "form", app |-> a])
    /\ UNCHANGED <<applicationVars, licenseVars, view, display, behind>> /\ PressNow

\* ... which is sent at any time.
ApplicationRejectModal(h) ==
    duty[h].at = "form" /\ Decide(h, duty[h].app, "rejected") /\ NoStep

\* The service decides.  An approval is told when the panel has been drawn, a
\* rejection before that.
Decided(h) ==
    /\ duty[h].at = "decide" /\ fate[duty[h].app] = "pending"
    /\ LET tell == [at |-> "tell", app |-> duty[h].app, what |-> duty[h].what] IN
       IF duty[h].what = "approved"
       THEN /\ Do(h, Load(tell, FALSE))
            /\ behind' = IF OnDuty = {h} THEN behind \ Stale ELSE behind \union {"elsewhere"}
       ELSE Do(h, tell) /\ behind' = behind \union {"elsewhere"}
    /\ fate' = [fate EXCEPT ![duty[h].app] = duty[h].what]
    /\ UNCHANGED <<kind, apps, ordered, said, licenseVars, view, display>> /\ NoStep

\* It was decided before, or something fails, the payment for one; the author
\* is told so.
DecisionRefused(h) ==
    /\ duty[h].at = "decide"
    /\ Do(h, OffDuty)
    /\ UNCHANGED <<applicationVars, licenseVars, view, display, behind>>
    /\ IF fate[duty[h].app] = "pending" THEN Lose ELSE NoStep

\* _on_reject_complete begins when the rejection has been told.
Tell(h) ==
    /\ duty[h].at = "tell"
    /\ said' = said \union {<<duty[h].app, duty[h].what>>}
    /\ IF duty[h].what = "rejected"
       THEN Do(h, Load(OffDuty, TRUE)) /\ Meets(h, Stale)
       ELSE Do(h, OffDuty) /\ UNCHANGED behind
    /\ UNCHANGED <<fate, kind, apps, ordered, licenseVars, view, display>> /\ NoStep

TellRefused(h) ==
    /\ duty[h].at = "tell"
    /\ Do(h, OffDuty)
    /\ UNCHANGED <<applicationVars, licenseVars, view, display, behind>> /\ Lose

-----------------------------------------------------------------------------
(* The licences *)

\* A page is turned before it is known to be there: other callbacks, and
\* failures, may lead astray.
turn_page(h, k) ==
    /\ view = "licenses" /\ Free(h)
    /\ \/ k = current_page + 1 /\ display.next
       \/ k = current_page - 1 /\ display.prev
    /\ current_page' = k
    /\ Do(h, [at |-> "query", page |-> k])
    /\ behind' = IF OnDuty = {} THEN behind \ Stale ELSE behind \union {"overlap", "astray"}
    /\ UNCHANGED <<applicationVars, issued, view, display>> /\ PressNow

refresh_licenses(h) ==
    /\ view = "licenses" /\ Free(h)
    /\ Do(h, [at |-> "query", page |-> current_page]) /\ Meets(h, Stale)
    /\ UNCHANGED <<applicationVars, licenseVars, view, display>> /\ PressNow

list_business_licenses(h) ==
    /\ duty[h].at = "query" /\ duty[h].page >= 1
    /\ Do(h, [at |-> "listed", list |-> Listed(duty[h].page)])
    /\ UNCHANGED <<applicationVars, licenseVars, view, display, behind>> /\ NoStep

\* The author is told, and the page stays turned.
ListRefused(h) ==
    /\ duty[h].at = "query"
    /\ Do(h, OffDuty)
    /\ behind' = behind \union {"refused", "astray"}
    /\ UNCHANGED <<applicationVars, licenseVars, view, display>>
    /\ IF duty[h].page < 1 THEN NoStep ELSE Lose

_refresh_list(h) ==
    /\ duty[h].at = "listed"
    /\ Do(h, [at |-> "edit", next |-> OffDuty, answered |-> FALSE,
              view |-> Book(duty[h].list, current_page)])
    /\ Meets(h, {})
    /\ UNCHANGED <<applicationVars, licenseVars, view, display>> /\ NoStep

\* BusinessLicenseIssueModal, or an approval: the new licence comes first.
BusinessLicenseIssueModal ==
    /\ view = "licenses"
    /\ issued' = issued + 1
    /\ behind' = behind \union {"elsewhere"}
    /\ UNCHANGED <<applicationVars, current_page, view, display, duty>> /\ PressNow

-----------------------------------------------------------------------------
(* The message, and what others do *)

\* The edit arrives ...
Appear(h) ==
    /\ duty[h].at = "edit"
    /\ display' = duty[h].view
    /\ Do(h, duty[h].next)
    /\ UNCHANGED <<applicationVars, licenseVars, view, behind>> /\ NoStep

\* ... or Discord refuses it, as it may always do once the callback has
\* answered: only the answer can edit an ephemeral message.
AppearRefused(h) ==
    /\ duty[h].at = "edit"
    /\ Do(h, OffDuty)
    /\ behind' = behind \union {"refused", "astray"}
    /\ UNCHANGED <<applicationVars, licenseVars, view, display>>
    /\ IF duty[h].answered THEN NoStep ELSE Lose

\* An application is made, or decided in another panel.
Happens(a, what) ==
    /\ view = "applications"
    /\ \/ /\ fate[a] = "unmade" /\ what = "pending"
          /\ \A b \in Applied : b < a => fate[b] # "unmade"
          /\ UNCHANGED ordered
       \/ /\ fate[a] = "pending" /\ what \in {"approved", "rejected"}
          /\ ordered' = ordered \union {<<a, what>>}
    /\ fate' = [fate EXCEPT ![a] = what]
    /\ behind' = behind \union {"elsewhere"}
    /\ UNCHANGED <<kind, apps, said, licenseVars, view, display, duty>> /\ PressNow

ApplicationManagementView(h) ==
    \/ \E f \in AppKinds \union {"all"} : filter_callback(h, f)
    \/ _refresh_callback(h) \/ list_applications(h) \/ load_applications(h) \/ LoadFails(h)
    \/ \E a \in Applied : approve_callback(h, a) \/ reject_callback(h, a)
    \/ ApplicationRejectModal(h) \/ Decided(h) \/ DecisionRefused(h) \/ Tell(h) \/ TellRefused(h)

BusinessLicenseListView(h) ==
    \/ \E k \in {current_page - 1, current_page + 1} : turn_page(h, k)
    \/ refresh_licenses(h) \/ list_business_licenses(h) \/ ListRefused(h) \/ _refresh_list(h)

Next ==
    \/ \E h \in Officials :
          \/ ApplicationManagementView(h) \/ BusinessLicenseListView(h)
          \/ Appear(h) \/ AppearRefused(h)
    \/ BusinessLicenseIssueModal
    \/ \E a \in Applied, what \in {"pending", "approved", "rejected"} : Happens(a, what)

Spec == Init /\ [][Next]_interiorVars

-----------------------------------------------------------------------------
(* Properties *)

\* Every variable has its type, and every button of an application has a row.
TypeOK ==
    /\ view \in {"applications", "licenses"}
    /\ fate \in [Applied -> {"unmade", "pending", "approved", "rejected"}]
    /\ kind \in AppKinds \union {"all"} /\ apps \in [AppKinds -> SUBSET Applied]
    /\ issued \in Nat /\ current_page \in Int
    /\ view = "applications" => Cardinality(display.apps) <= Rows
    /\ \A h \in Officials : duty[h].at \in Underway \union {"idle", "form"}
    /\ behind \subseteq Stale \union {"astray"}

\* An application is decided the way that somebody asked for it, and what its
\* author of the decision is told stays true: however lists change while
\* forms are open, and decisions cross (_make_approve_callback,
\* ApplicationRejectModal and the service's check).
DecidedAsOrdered ==
    /\ \A a \in Applied : fate[a] \in {"approved", "rejected"} => <<a, fate[a]>> \in ordered
    /\ \A s \in said : fate[s[1]] = s[2]

\* When nothing is at work, the panel offers just the newest applications that
\* wait, of the kind asked for (load_applications, _build_buttons and
\* build_embed) - unless callbacks overlapped, an edit was refused, a row was
\* missing, a query failed or something happened elsewhere, since one alone
\* last began to load it.
PendingAreShown ==
    view = "applications" /\ OnDuty = {} /\ behind \intersect Stale = {} =>
        display = Sheet([k \in AppKinds |-> Pending(k)], kind)

\* The licences on the screen are those of the page that it names
\* (_refresh_list), with the same excuses; and it says that there are none
\* only if there are none, as long as pages were turned by one alone and
\* nothing failed.
LicensesAreShown ==
    view = "licenses" /\ OnDuty = {} /\ behind \intersect Stale = {} =>
        /\ display = Book(Listed(display.page), current_page)
        /\ "astray" \notin behind => (display.ids = {} => issued = 0)

=============================================================================

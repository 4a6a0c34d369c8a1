---------------------------- MODULE PersonalPanel ----------------------------
(***************************************************************************)
(* A member's own panel (PersonalPanelView): four tabs drawn from what was *)
(* read when it was opened or refreshed, the history in pages, the menus   *)
(* and forms that pay somebody, and the forms that apply for welfare or a  *)
(* licence.                                                                *)
(*                                                                         *)
(* A step is what a callback runs between two awaits.  The ledger's and    *)
(* the application service's part of a call is one step each               *)
(* (LedgerTransactions, TransferPool and Applications have the details).   *)
(***************************************************************************)
EXTENDS Integers, Sequences, FiniteSets

CONSTANTS
    Members,      \* members who may be paid
    Firms,        \* companies of the guild
    Institutions, \* the council, the assembly and the state council
    Departments,  \* departments of the state council
    Relocated,    \* offices whose account is not the one that the formula gives
    Amounts,      \* what may be typed into a form
    Savings,      \* what the author owns when the panel is opened
    HistoryPage,  \* entries on a page of the history
    LoadLimit,    \* applications of a kind that a query gives, 20 in the code
    HistoryShown, \* applications in the history of them, 5 in the code
    Clicks,       \* callbacks at work, at most
    Nobody,       \* a model value
    MaxPresses,   \* bound: what is pressed here, and done elsewhere
    MaxSlips      \* bound: failed queries and refused messages

PersonalPanelAssumption ==
    /\ Amounts \subseteq Nat \ {0} /\ IsFiniteSet(Amounts)
    /\ Savings \in Nat /\ HistoryPage \in Nat \ {0}
    /\ {LoadLimit, HistoryShown} \subseteq Nat /\ HistoryShown <= LoadLimit
    /\ IsFiniteSet(Clicks) /\ Relocated \subseteq Institutions \union Departments
    /\ MaxPresses \in Nat /\ MaxSlips \in Nat

VARIABLES
    mode,      \* whether transfers are pooled or made at once
    purse,     \* the author's balance
    entries,   \* how many transactions the author has
    filed,     \* the kinds of the applications the author has made, in their order
    seen,      \* balance_snapshot and history_entries
    tab,       \* current_tab
    pager,     \* history_paginator: how many entries it pages, -1 for None
    leaf,      \* history_page
    loaded,    \* _welfare_applications and _license_applications, by their numbers
    shown,     \* the message as Discord shows it
    offers,    \* balances that open transfer menus have been given
    hand,      \* hand[h]: where the callback h stands
    latest,    \* the account selected last, a history
    payments,  \* transfers accepted: whom the form named, where the points go
    asked,     \* how many transfers have been asked for
    answers,   \* what the author was told of them, a history
    cause,     \* why the screen may differ, a history
    presses,
    slips

purseVars == <<mode, purse, entries, payments, asked>>
panelVars == <<seen, tab, pager, leaf, loaded>>
tellings == <<latest, answers>>
personalVars == <<purseVars, filed, panelVars, shown, offers, hand, tellings, cause,
                  presses, slips>>

Kinds == {"welfare", "license"}
Tabs == {"home", "property", "transfer", "government"}
NoHand == [at |-> "idle"]
Drawing == {"refresh", "refreshed", "load", "loading", "edit"}
AtWork == {h \in Clicks : hand[h].at \in Drawing}
Leaves(n) == IF n = 0 THEN 1 ELSE (n + HistoryPage - 1) \div HistoryPage

PressOnce == presses < MaxPresses /\ presses' = presses + 1 /\ UNCHANGED slips
Slip == slips < MaxSlips /\ slips' = slips + 1 /\ UNCHANGED presses
NoPress == UNCHANGED <<presses, slips>>

-----------------------------------------------------------------------------
(* Applications *)

Latest(S, n) == {i \in S : Cardinality({j \in S : j > i}) < n}

\* get_user_welfare_applications and get_user_license_applications
Recent == [k \in Kinds |-> Latest({i \in DOMAIN filed : filed[i] = k}, LoadLimit)]

\* _on_application_history: the first page of _get_combined_applications.
History(a) == Latest(UNION {a[k] : k \in Kinds}, HistoryShown)

-----------------------------------------------------------------------------
(* What is drawn *)

\* The buttons of the tabs.  A history of n entries, -1 for one not paged yet,
\* has its own when there is more than a page.
_add_property_controls(n) == IF n = -1 \/ Leaves(n) = 1 THEN {} ELSE {"prev", "next"}
_add_transfer_controls == {"transfer"}
_add_government_controls == {"welfare", "license", "history"}

_update_view_items(t, n) ==
    CASE t = "home" -> {}
      [] t = "property" -> _add_property_controls(n)
      [] t = "transfer" -> _add_transfer_controls
      [] t = "government" -> _add_government_controls

\* What is drawn of the balance b, of page k among n entries and of the
\* applications a.
create_home_embed(b) == [of |-> "home", balance |-> b]
create_property_embed(b, k, n) == [of |-> "property", balance |-> b, leaf |-> k, entries |-> n]
create_transfer_embed(b) == [of |-> "transfer", balance |-> b]
create_government_embed(a) ==
    [of |-> "government", applications |-> Cardinality(UNION {a[k] : k \in Kinds})]

Embed(t, s, k, n, a) ==
    CASE t = "home" -> create_home_embed(s.balance)
      [] t = "property" -> create_property_embed(s.balance, k, n)
      [] t = "transfer" -> create_transfer_embed(s.balance)
      [] t = "government" -> create_government_embed(a)

\* The message that a callback leaves, with the embed of t and the buttons of
\* the tab; and the message that the panel stands for, whatever is shown.
Drawn(t) == [embed |-> Embed(t, seen', leaf', pager', loaded'),
             controls |-> _update_view_items(tab', pager')]
Wanted == [embed |-> Embed(tab, seen, leaf, pager, loaded),
           controls |-> _update_view_items(tab, pager)]

Init ==
    /\ mode \in {"direct", "pooled"}
    /\ purse = Savings /\ entries \in {HistoryPage, HistoryPage + 1}
    /\ filed \in UNION {[1..n -> Kinds] : n \in 0..2}
    /\ seen = [balance |-> purse, entries |-> entries]
    /\ tab = "home" /\ pager = -1 /\ leaf = 0
    /\ loaded = [k \in Kinds |-> {}]
    /\ shown = Wanted
    /\ offers = {} /\ hand = [h \in Clicks |-> NoHand]
    /\ latest = <<Nobody>>
    /\ payments = {} /\ asked = 0 /\ answers = {}
    /\ cause = {"load"}
    /\ presses = 0 /\ slips = 0

-----------------------------------------------------------------------------
(* Tabs, pages and the refresh *)

Go(h, w) == hand' = [hand EXCEPT ![h] = w]
\* Callbacks are alike: a press is any that is idle.
Idle(h) == hand[h].at = "idle" /\ h = (CHOOSE k \in Clicks : hand[k].at = "idle")

\* Work that crosses other work may be drawn, or stored, out of order; what is
\* drawn anew by one alone makes good the reasons in old.
Cross(h, old) ==
    cause' = IF AtWork \subseteq {h} THEN cause \ old ELSE cause \union {"overlap", "load"}
Redrawn == {"overlap", "refused", "refresh"}

Turn(h, t) ==
    /\ Idle(h)
    /\ tab' = t
    /\ UNCHANGED <<seen, pager, leaf, loaded, purseVars, filed, shown, offers, tellings>>
    /\ Go(h, [at |-> "edit", view |-> Drawn(t)]) /\ Cross(h, Redrawn) /\ PressOnce

_on_home_tab(h) == Turn(h, "home")
_on_transfer_tab(h) == Turn(h, "transfer")

\* _on_property_tab
on_property_tab(h) ==
    /\ Idle(h)
    /\ tab' = "property" /\ leaf' = 0 /\ pager' = seen.entries
    /\ UNCHANGED <<seen, loaded, purseVars, filed, shown, offers, tellings>>
    /\ Go(h, [at |-> "edit", view |-> Drawn("property")]) /\ Cross(h, Redrawn) /\ PressOnce

\* _on_property_prev and _on_property_next, from the buttons on the screen.
\* The page is drawn with the buttons of the tab, another one perhaps by now.
turn_leaf(h, k) ==
    /\ Idle(h) /\ "next" \in shown.controls
    /\ pager # -1 /\ k \in {leaf - 1, leaf + 1} /\ k \in 0..(Leaves(pager) - 1)
    /\ leaf' = k
    /\ UNCHANGED <<seen, tab, pager, loaded, purseVars, filed, shown, offers, tellings>>
    /\ Go(h, [at |-> "edit", view |-> Drawn("property")]) /\ PressOnce
    /\ Cross(h, IF tab = "property" THEN Redrawn ELSE {})

on_refresh(h) ==
    /\ Idle(h)
    /\ Go(h, [at |-> "refresh"]) /\ Cross(h, {})
    /\ UNCHANGED <<purseVars, filed, panelVars, shown, offers, tellings>> /\ PressOnce

\* refresh_callback: the balance comes first, the history later.
refresh_callback(h) ==
    /\ hand[h].at = "refresh"
    /\ Go(h, [at |-> "refreshed", balance |-> purse])
    /\ UNCHANGED <<purseVars, filed, panelVars, shown, offers, tellings, cause>> /\ NoPress

Stored(h) == seen' = [balance |-> hand[h].balance, entries |-> entries]

\* The rest of _on_refresh: the tab of government is drawn as a transfer's.
Redraw(h) ==
    /\ hand[h].at = "refreshed"
    /\ Stored(h)
    /\ IF tab = "property" THEN pager' = seen'.entries /\ leaf' = 0 ELSE UNCHANGED <<pager, leaf>>
    /\ UNCHANGED <<tab, loaded, purseVars, filed, shown, offers, tellings>>
    /\ Go(h, [at |-> "edit", view |-> Drawn(IF tab = "government" THEN "transfer" ELSE tab)])
    /\ cause' = IF tab = "government" THEN cause \union {"refresh"}
                ELSE IF AtWork \subseteq {h} THEN cause \ Redrawn ELSE cause
    /\ NoPress

RefreshFails(h) ==
    /\ hand[h].at \in {"refresh", "refreshed"}
    /\ Go(h, NoHand)
    /\ UNCHANGED <<purseVars, filed, panelVars, shown, offers, tellings, cause>> /\ Slip

\* The edit arrives ...
Arrive(h) ==
    /\ hand[h].at = "edit"
    /\ shown' = hand[h].view
    /\ Go(h, NoHand)
    /\ UNCHANGED <<purseVars, filed, panelVars, offers, tellings, cause>> /\ NoPress

\* ... or Discord refuses it.
ArriveRefused(h) ==
    /\ hand[h].at = "edit"
    /\ Go(h, NoHand)
    /\ cause' = cause \union {"refused"}
    /\ UNCHANGED <<purseVars, filed, panelVars, shown, offers, tellings>> /\ Slip

-----------------------------------------------------------------------------
(* The government's tab *)

\* _on_government_tab, as far as the load.
on_government_tab(h) ==
    /\ Idle(h)
    /\ tab' = "government"
    /\ UNCHANGED <<seen, pager, leaf, loaded, purseVars, filed, shown, offers, tellings>>
    /\ Go(h, [at |-> "load", from |-> "tab"]) /\ Cross(h, Redrawn \union {"load"}) /\ PressOnce

\* _handle_welfare_submit and what _handle_license_submit has in common with
\* it: the application is made, and the lists are loaded again.
Submit(h, k) ==
    /\ Idle(h) /\ k \in shown.controls
    /\ filed' = Append(filed, k)
    /\ Go(h, [at |-> "load", from |-> "form"]) /\ Cross(h, {"load"})
    /\ UNCHANGED <<purseVars, panelVars, shown, offers, tellings>> /\ PressOnce

\* A second licence of a type, or a second application for one, is refused
\* (Applications), as anything may be; nothing is loaded then.
Refuse(h, k) ==
    /\ Idle(h) /\ k \in shown.controls
    /\ UNCHANGED <<purseVars, filed, panelVars, shown, offers, hand, tellings, cause>> /\ PressOnce

WelfareApplicationModal(h) == Submit(h, "welfare") \/ Refuse(h, "welfare")
LicenseApplicationModal(h) == Submit(h, "license") \/ Refuse(h, "license")

\* _load_applications: two queries, each of which may fail unnoticed.
Load(h, ok) ==
    /\ hand[h].at \in {"load", "loading"}
    /\ LET k == IF hand[h].at = "load" THEN "welfare" ELSE "license" IN
       loaded' = IF ok THEN [loaded EXCEPT ![k] = Recent[k]] ELSE loaded
    /\ UNCHANGED <<seen, tab, pager, leaf, purseVars, filed, shown, offers, tellings>>
    /\ Go(h, IF hand[h].at = "load" THEN [hand[h] EXCEPT !.at = "loading"]
             ELSE IF hand[h].from = "form" THEN NoHand
             ELSE [at |-> "edit", view |-> Drawn("government")])
    /\ cause' = (IF ok THEN cause ELSE cause \union {"load"})
                \union IF hand[h].from = "form" THEN {"refused"} ELSE {}
    /\ IF ok THEN NoPress ELSE Slip

-----------------------------------------------------------------------------
(* Payments *)

\* _on_transfer_button: the menus keep the balance of now.
on_transfer_button ==
    /\ "transfer" \in shown.controls
    /\ offers' = offers \union {seen.balance}
    /\ UNCHANGED <<purseVars, filed, panelVars, shown, hand, tellings, cause>> /\ PressOnce

Offices == Institutions \union Departments
Payees == Members \union Firms \union Offices

\* The account that is registered for x, and the one that the formula gives.
Usual(x) == <<x, "usual">>
Account(x) == IF x \in Relocated THEN <<x, "moved">> ELSE Usual(x)

\* The form names x; sure tells whether the account is the one on record.
Form(h, x, account, b, sure) ==
    /\ Go(h, [at |-> "form", payee |-> x, account |-> account, available |-> b, sure |-> sure])
    /\ latest' = account
    /\ UNCHANGED <<purseVars, filed, panelVars, shown, offers, answers, cause>>

_on_user_select(h, x, b) ==
    Idle(h) /\ x \in Members /\ b \in offers /\ Form(h, x, Account(x), b, TRUE) /\ PressOnce

on_company_selected(h, x, b) ==
    Idle(h) /\ x \in Firms /\ b \in offers /\ Form(h, x, Account(x), b, TRUE) /\ PressOnce

\* _derive_institution_account_id: the formula, whatever account is on record.
select_institution(h, x, b) ==
    Idle(h) /\ x \in Institutions /\ b \in offers /\ Form(h, x, Usual(x), b, FALSE) /\ PressOnce

\* A department's account is asked for first.
_on_govt_select(h, x, b) ==
    /\ Idle(h) /\ x \in Departments /\ b \in offers
    /\ Go(h, [at |-> "resolve", payee |-> x, available |-> b])
    /\ UNCHANGED <<purseVars, filed, panelVars, shown, offers, tellings, cause>> /\ PressOnce

\* When that fails, the formula must do.
_resolve_department_account_id(h, ok) ==
    /\ hand[h].at = "resolve"
    /\ LET x == hand[h].payee IN
       Form(h, x, IF ok THEN Account(x) ELSE Usual(x), hand[h].available, ok)
    /\ IF ok THEN NoPress ELSE Slip

Ordered(h, account, n) ==
    [at |-> "pay", payee |-> hand[h].payee, account |-> account, amount |-> n,
     sure |-> hand[h].sure]

\* Mutant of _handle_transfer: to what was selected last.
pay_latest(h, n) ==
    /\ hand[h].at = "form" /\ n <= hand[h].available
    /\ Go(h, Ordered(h, latest, n))
    /\ UNCHANGED <<purseVars, filed, panelVars, shown, offers, tellings, cause>> /\ NoPress

\* _handle_transfer, within the balance that the form was given; other amounts
\* are refused.
_handle_transfer(h, n) ==
    /\ hand[h].at = "form"
    /\ Go(h, IF n <= hand[h].available THEN Ordered(h, hand[h].account, n) ELSE NoHand)
    /\ UNCHANGED <<purseVars, filed, panelVars, shown, offers, tellings, cause>> /\ NoPress

Transfer(h) ==
    [id |-> asked', named |-> hand[h].payee, account |-> hand[h].account, sure |-> hand[h].sure,
     amount |-> hand[h].amount, state |-> IF mode = "pooled" THEN "pending" ELSE "paid"]

\* transfer_currency accepts it: it is made, or put into the pool.
transfer_callback(h) ==
    /\ hand[h].at = "pay"
    /\ mode = "pooled" \/ hand[h].amount <= purse
    /\ asked' = asked + 1
    /\ payments' = payments \union {Transfer(h)}
    /\ IF mode = "direct" THEN purse' = purse - hand[h].amount /\ entries' = entries + 1
       ELSE UNCHANGED <<purse, entries>>
    /\ Go(h, [at |-> "tell", id |-> asked', ok |-> TRUE])
    /\ UNCHANGED <<mode, filed, panelVars, shown, offers, tellings, cause>> /\ NoPress

\* It is denied, for its amount, a limit or an error.
transfer_denied(h) ==
    /\ hand[h].at = "pay"
    /\ asked' = asked + 1
    /\ Go(h, [at |-> "tell", id |-> asked', ok |-> FALSE])
    /\ UNCHANGED <<mode, purse, entries, payments, filed, panelVars, shown, offers, tellings,
                   cause>> /\ NoPress

\* The author is told; when that is refused, that the transfer has failed.
tell(h, refused) ==
    /\ hand[h].at = "tell"
    /\ answers' = answers \union {[id |-> hand[h].id, ok |-> hand[h].ok /\ ~refused,
                                   late |-> refused]}
    /\ Go(h, NoHand)
    /\ UNCHANGED <<purseVars, filed, panelVars, shown, offers, latest, cause>>
    /\ IF refused THEN Slip ELSE NoPress

-----------------------------------------------------------------------------
(* What happens elsewhere *)

\* The pool carries a transfer out, or drops it.
pool_settles(p, s) ==
    /\ p \in payments /\ p.state = "pending" /\ s \in {"paid", "dropped"}
    /\ s = "paid" => p.amount <= purse
    /\ payments' = (payments \ {p}) \union {[p EXCEPT !.state = s]}
    /\ IF s = "paid" THEN purse' = purse - p.amount /\ entries' = entries + 1
       ELSE UNCHANGED <<purse, entries>>
    /\ UNCHANGED <<mode, asked, filed, panelVars, shown, offers, hand, tellings, cause>>
    /\ NoPress

Income(n) ==
    /\ purse' = purse + n /\ entries' = entries + 1
    /\ UNCHANGED <<mode, payments, asked, filed, panelVars, shown, offers, hand, tellings, cause>>
    /\ PressOnce

Payment(h) ==
    \/ \E x \in Members, b \in offers : _on_user_select(h, x, b)
    \/ \E x \in Firms, b \in offers : on_company_selected(h, x, b)
    \/ \E x \in Institutions, b \in offers : select_institution(h, x, b)
    \/ \E x \in Departments, b \in offers : _on_govt_select(h, x, b)
    \/ \E ok \in BOOLEAN : _resolve_department_account_id(h, ok)
    \/ \E n \in Amounts : _handle_transfer(h, n)
    \/ transfer_callback(h) \/ transfer_denied(h)
    \/ \E refused \in BOOLEAN : tell(h, refused)

PersonalPanelView(h) ==
    \/ _on_home_tab(h) \/ _on_transfer_tab(h)
    \/ on_property_tab(h) \/ on_government_tab(h)
    \/ \E k \in 0..entries : turn_leaf(h, k)
    \/ on_refresh(h) \/ refresh_callback(h) \/ Redraw(h) \/ RefreshFails(h)
    \/ Arrive(h) \/ ArriveRefused(h)
    \/ WelfareApplicationModal(h) \/ LicenseApplicationModal(h)
    \/ \E ok \in BOOLEAN : Load(h, ok)

Next ==
    \/ \E h \in Clicks : PersonalPanelView(h) \/ Payment(h)
    \/ on_transfer_button
    \/ \E p \in payments, s \in {"paid", "dropped"} : pool_settles(p, s)
    \/ \E n \in Amounts : Income(n)

Spec == Init /\ [][Next]_personalVars

-----------------------------------------------------------------------------
(* Properties *)

\* Every variable has its type, and the page of the history exists, however
\* its buttons are pressed.
TypeOK ==
    /\ mode \in {"direct", "pooled"} /\ purse \in Nat /\ entries \in Nat
    /\ filed \in Seq(Kinds) /\ loaded \in [Kinds -> SUBSET Nat]
    /\ tab \in Tabs /\ shown.embed.of \in Tabs
    /\ shown.controls \in {_update_view_items(t, n) : t \in Tabs, n \in {0, HistoryPage + 1}}
    /\ pager \in Nat \union {-1}
    /\ leaf \in Nat /\ (pager # -1 => leaf < Leaves(pager))
    /\ offers \subseteq Nat /\ latest[1] \in Payees \union {Nobody}
    /\ cause \subseteq Redrawn \union {"load"}
    /\ \A h \in Clicks : hand[h].at \in Drawing \union {"idle", "resolve", "form", "pay", "tell"}

\* When nothing is being drawn, the screen shows the tab, its buttons and what
\* was last read for it, history included (_update_view_items, _on_refresh and
\* the embeds) - unless callbacks
\* overlapped, an edit was refused, an application was made or the
\* government's tab was refreshed, since it was last drawn by one alone.
ScreenShowsItsTab ==
    AtWork = {} /\ cause \intersect Redrawn = {} =>
        shown = Wanted /\ (tab = "property" => pager = seen.entries)

\* What the tab counts are the author's newest applications of either kind, and
\* what the history lists the newest of all, with those made in the panel
\* (_load_applications, _get_combined_applications), unless a load failed or
\* crossed other work since the last that did not.
ApplicationsAreListed ==
    AtWork = {} /\ "load" \notin cause =>
        loaded = Recent /\ History(loaded) = Latest(DOMAIN filed, HistoryShown)

\* Points go to the account of the payee whom the form named (TransferModal
\* and the closures given to it), however menus and forms are used at the same
\* time - or to the account that the formula gives, for an institution and for
\* a department whose account could not be asked for.
PaidAsNamed ==
    \A p \in payments :
        p.account \in {Account(p.named)} \union IF p.sure THEN {} ELSE {Usual(p.named)}

\* Who is told of a success has paid, or the pool has had the order; who is
\* told of a failure has not paid (transfer_callback, _handle_transfer) -
\* unless the success could not be told.
ToldOfPayments ==
    \A a \in answers :
        /\ a.ok => \E p \in payments : p.id = a.id
        /\ ~a.ok /\ ~a.late => \A p \in payments : p.id # a.id

=============================================================================

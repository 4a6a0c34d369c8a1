--------------------------- MODULE SuspectPanels ---------------------------
(***************************************************************************)
(* The panel from which suspects are released, scheduled or charged: a     *)
(* list in pages, a menu to select from, and modals for what to do with    *)
(* the selection.  Homeland security's (HomelandSecuritySuspectsPanelView) *)
(* holds everyone who has the suspect role and turns pages by itself;      *)
(* justice's (JusticeSuspectsPanelView) holds the page it asked for.       *)
(*                                                                         *)
(* A step is what a callback runs between two awaits.  The service's part  *)
(* of an order is one step per suspect (Justice has its details).          *)
(***************************************************************************)
EXTENDS Integers, FiniteSets

CONSTANTS
    Suspects,  \* a set of integers: a list has them in their order
    Named,     \* those that the keyword of the search finds
    Accused,   \* those that have been charged before
    PageSize,  \* suspects on a page
    Handlers,  \* callbacks at work, at most
    MaxActs,   \* bound: what is pressed here, and done elsewhere
    MaxFaults  \* bound: refused edits and orders

SuspectPanelsAssumption ==
    /\ Suspects \subseteq Int /\ IsFiniteSet(Suspects)
    /\ Named \subseteq Suspects /\ Accused \subseteq Suspects
    /\ IsFiniteSet(Handlers) /\ PageSize \in Nat \ {0}
    /\ MaxActs \in Nat /\ MaxFaults \in Nat

VARIABLES
    office,  \* whose panel it is
    status,  \* status[s]: how s stands with the service
    filter,  \* the search or the status asked for is set
    page,    \* current_page
    list,    \* _suspects: everyone found, or the page that was asked for
    total,   \* how many there are altogether
    picked,  \* _selected_ids
    menu,    \* the options of the select menu in the view
    live,    \* the buttons and the menu of the view are enabled
    open,    \* the view still listens
    screen,  \* the message as Discord shows it
    work,    \* work[h]: where the callback h stands
    chosen,  \* whom the author selected last, a history
    taken,   \* whom the last order took, a history
    excuse,  \* why the screen may be behind, a history
    acts,
    faults

state == <<filter, page, list, total, picked, menu, live, open>>
books == <<office, status, chosen, taken>>
bounds == <<acts, faults>>
deskVars == <<books, state, screen, work, excuse, bounds>>

Scopes == {"release", "schedule", "schedule_all", "charge", "revoke"}
OrdersOf == [homeland |-> {"release", "schedule", "schedule_all"},
             justice |-> {"release", "charge", "revoke"}]
Reasons == {"overlap", "elsewhere", "refused", "beyond"}
NoWork == [at |-> "idle"]
InFlight == {"defer", "read", "got", "act", "edit"}
Busy == {h \in Handlers : work[h].at \in InFlight}

Act == acts < MaxActs /\ acts' = acts + 1 /\ UNCHANGED faults
Fault == faults < MaxFaults /\ faults' = faults + 1 /\ UNCHANGED acts
NoAct == UNCHANGED bounds

-----------------------------------------------------------------------------
(* Lists and pages *)

PageOf(S, k) == {s \in S : Cardinality({t \in S : t < s}) \div PageSize = k}
Pages(n) == IF n = 0 THEN 1 ELSE (n + PageSize - 1) \div PageSize

\* list_suspects with a keyword, or get_active_suspects with a status.
Found(wanted) ==
    {s \in Suspects :
        /\ status[s] # "free"
        /\ wanted => IF office = "homeland" THEN s \in Named ELSE status[s] = "detained"}

\* What the embed and the menu show of a list.
Shown(l, k) == IF office = "homeland" THEN PageOf(l, k) ELSE l

\* build_embed and the view, as they are sent.
View == [page |-> page', list |-> Shown(list', page'), picked |-> picked', menu |-> menu',
         live |-> live']

Init ==
    /\ office \in {"homeland", "justice"}
    /\ status = [s \in Suspects |-> IF s \in Accused THEN "charged" ELSE "detained"]
    /\ filter = FALSE /\ page = 0 /\ picked = {} /\ live = TRUE /\ open = TRUE
    /\ list = IF office = "homeland" THEN Found(FALSE) ELSE PageOf(Found(FALSE), 0)
    /\ total = Cardinality(Found(FALSE))
    /\ menu = Shown(list, 0)
    /\ screen = [page |-> 0, list |-> menu, picked |-> {}, menu |-> menu, live |-> TRUE]
    /\ work = [h \in Handlers |-> NoWork]
    /\ chosen = {} /\ taken = {} /\ excuse = {}
    /\ acts = 0 /\ faults = 0

-----------------------------------------------------------------------------
(* What a callback is made of *)

Goto(h, w) == work' = [work EXCEPT ![h] = w]

\* A modal that is not sent is forgotten when something else is pressed.
Ready(h) == work[h].at \in {"idle", "modal"}

\* The author presses something that Discord shows enabled, on a view that still
\* listens; other callbacks may be at work already.
Press(h) == open /\ screen.live /\ Ready(h) /\ Act

\* The edit that follows; at its end _on_close stops the view.
Draw(h, last) == Goto(h, [at |-> "edit", view |-> View, last |-> last])

\* What h does may cross the work of others; a list read by one alone, with
\* the page and the filter of now, makes good what was behind.
Crosses(h) == excuse' = IF Busy \subseteq {h} THEN excuse ELSE excuse \union {"overlap"}
Anew(h) == excuse' = IF Busy \subseteq {h} THEN {} ELSE excuse \union {"overlap"}

\* An await of the reply before reload, in homeland's panel; justice's calls
\* reload at once, with the page and the status of now.
Reload(h, k, wanted) ==
    \/ office = "homeland" /\ Goto(h, [at |-> "defer", search |-> FALSE]) /\ Crosses(h)
    \/ office = "justice" /\ Goto(h, [at |-> "read", page |-> k, wanted |-> wanted]) /\ Anew(h)

\* A keyword, or none, is set only now (apply_search).
Deferred(h) ==
    /\ work[h].at = "defer"
    /\ IF work[h].search THEN filter' \in BOOLEAN /\ page' = 0 ELSE UNCHANGED <<filter, page>>
    /\ Goto(h, [at |-> "read", page |-> page', wanted |-> filter'])
    /\ Anew(h)
    /\ UNCHANGED <<list, total, picked, menu, live, open, books, screen>> /\ NoAct

\* The service answers.
Read(h) ==
    /\ work[h].at = "read"
    /\ LET all == Found(work[h].wanted) IN
       Goto(h, [at |-> "got", page |-> work[h].page, total |-> Cardinality(all),
                list |-> IF office = "homeland" THEN all ELSE PageOf(all, work[h].page)])
    /\ UNCHANGED <<books, state, screen, excuse>> /\ NoAct

\* The service does not answer, and the list is shown empty.
ReadFails(h) ==
    /\ work[h].at = "read"
    /\ Goto(h, [at |-> "got", page |-> work[h].page, total |-> 0, list |-> {}])
    /\ excuse' = excuse \union {"refused"}
    /\ UNCHANGED <<books, state, screen>> /\ Fault

\* _sanitize_state
Sanitize(h) ==
    /\ page' = IF page >= Pages(total') THEN Pages(total') - 1 ELSE page
    /\ picked' = picked \cap list'

\* The rest of reload, and the edit that follows it: _refresh_components lays
\* everything anew, enabled even if the panel has been closed.
Apply(h) ==
    /\ work[h].at = "got"
    /\ list' = work[h].list /\ total' = work[h].total
    /\ Sanitize(h)
    /\ menu' = Shown(list', page') /\ live' = TRUE
    /\ UNCHANGED <<filter, open>>
    /\ Draw(h, FALSE)
    /\ excuse' = excuse
          \union (IF office = "justice" /\ work[h].page >= Pages(total') THEN {"beyond"} ELSE {})
          \union (IF open THEN {} ELSE {"redrawn"})
    /\ UNCHANGED <<books, screen>> /\ NoAct

\* The edit arrives ...
Show(h) ==
    /\ work[h].at = "edit"
    /\ screen' = work[h].view
    /\ open' = (open /\ ~work[h].last)
    /\ Goto(h, NoWork)
    /\ UNCHANGED <<filter, page, list, total, picked, menu, live, books, excuse>> /\ NoAct

\* ... or Discord refuses it, or the reply, and the callback ends there.
Refused(h) ==
    /\ work[h].at \in {"defer", "edit"}
    /\ Goto(h, NoWork)
    /\ excuse' = excuse \union {"refused"}
    /\ UNCHANGED <<books, state, screen>> /\ Fault

-----------------------------------------------------------------------------
(* Pages, filters and the selection *)

\* Mutant of on_select: the selection of another page is kept.
SelectMore(h, ss) ==
    /\ Press(h) /\ ss # {} /\ ss \subseteq screen.menu
    /\ picked' = picked \union ss /\ chosen' = ss
    /\ UNCHANGED <<filter, page, list, total, menu, live, open, office, status, taken, screen>>
    /\ Draw(h, FALSE) /\ Crosses(h)

\* _on_select: from the menu that Discord shows, and only from there.
on_select(h, ss) ==
    /\ Press(h) /\ ss # {} /\ ss \subseteq screen.menu
    /\ picked' = ss /\ chosen' = ss
    /\ UNCHANGED <<filter, page, list, total, menu, live, open, office, status, taken, screen>>
    /\ Draw(h, FALSE) /\ Crosses(h)

\* _on_prev_page and _on_next_page: homeland's menu is not laid again.
on_turn_page(h, k) ==
    /\ office = "homeland"
    /\ Press(h) /\ k \in {page - 1, page + 1} /\ k \in 0..(Pages(total) - 1)
    /\ page' = k
    /\ UNCHANGED <<filter, list, total, picked, menu, live, open, books, screen>>
    /\ Draw(h, FALSE) /\ Crosses(h)

\* _prev_page and _next_page of justice's panel.
turn_page(h, k) ==
    /\ office = "justice"
    /\ Press(h) /\ k \in {page - 1, page + 1} /\ k \in 0..(Pages(total) - 1)
    /\ page' = k
    /\ Reload(h, k, filter)
    /\ UNCHANGED <<filter, list, total, picked, menu, live, open, books, screen>>

\* _on_refresh, _refresh_callback
on_refresh(h) ==
    /\ Press(h)
    /\ Reload(h, page, filter)
    /\ UNCHANGED <<state, books, screen>>

\* _open_search_modal, and apply_search when the modal is sent.
open_search_modal(h) ==
    /\ office = "homeland"
    /\ Press(h)
    /\ Goto(h, [at |-> "modal", order |-> "search"])
    /\ UNCHANGED <<state, books, screen, excuse>>

apply_search(h) ==
    /\ work[h].at = "modal" /\ work[h].order = "search"
    /\ Goto(h, [at |-> "defer", search |-> TRUE]) /\ Crosses(h)
    /\ UNCHANGED <<state, books, screen>> /\ NoAct

\* _on_reset_search
on_reset_search(h) ==
    /\ office = "homeland"
    /\ Press(h)
    /\ filter' = FALSE /\ page' = 0
    /\ Reload(h, 0, FALSE)
    /\ UNCHANGED <<list, total, picked, menu, live, open, books, screen>>

\* _on_status_change
on_status_change(h) ==
    /\ office = "justice"
    /\ Press(h)
    /\ filter' = ~filter /\ page' = 0
    /\ Reload(h, 0, ~filter)
    /\ UNCHANGED <<list, total, picked, menu, live, open, books, screen>>

-----------------------------------------------------------------------------
(* Orders *)

\* _open_release_modal, _charge_suspect, ...: there must be a selection, or,
\* to schedule all, a list.
open_modal(h, order) ==
    /\ Press(h) /\ order \in OrdersOf[office]
    /\ (IF order = "schedule_all" THEN list ELSE picked) # {}
    /\ Goto(h, [at |-> "modal", order |-> order])
    /\ UNCHANGED <<state, books, screen, excuse>>

\* on_submit, of a modal, which outlives the panel.  The reply is awaited before
\* the selection is read, except for the two that schedule.
on_submit(h) ==
    /\ work[h].at = "modal" /\ work[h].order \in Scopes
    /\ LET order == work[h].order
           now == IF order = "schedule_all" THEN list ELSE picked
           fixed == order \in {"schedule", "schedule_all"}
       IN  /\ office = "justice" \/ fixed => now # {}
           /\ Goto(h, [at |-> "act", order |-> order, fixed |-> fixed, todo |-> now,
                       begun |-> FALSE])
           /\ taken' = IF order = "schedule" THEN now ELSE taken
    /\ Crosses(h)
    /\ UNCHANGED <<state, office, status, chosen, screen>> /\ NoAct

\* What the reply's await leaves: justice passes over who is not listed.
Take(h) ==
    /\ work[h].at = "act" /\ ~work[h].fixed
    /\ LET them == IF office = "justice" THEN picked \cap list ELSE picked IN
       /\ Goto(h, [work[h] EXCEPT !.fixed = TRUE, !.todo = them])
       /\ taken' = them
    /\ UNCHANGED <<office, status, chosen, state, screen, excuse>> /\ NoAct

\* release_suspects, charge_suspect, revoke_charge, for one of them.
After(order, s) ==
    CASE order = "release" /\ (office = "justice" \/ status[s] = "detained") -> "free"
      [] order = "charge" /\ status[s] = "detained" -> "charged"
      [] order = "revoke" /\ status[s] = "charged" -> "detained"
      [] OTHER -> status[s]

Serve(h, s) ==
    /\ work[h].at = "act" /\ work[h].fixed /\ s \in work[h].todo
    /\ status' = [status EXCEPT ![s] = After(work[h].order, s)]
    /\ Goto(h, [work[h] EXCEPT !.todo = @ \ {s}, !.begun = TRUE])
    /\ UNCHANGED <<office, chosen, taken, state, screen, excuse>> /\ NoAct

\* The selection is spent, even one made meanwhile, and the list read again.
Finish(h) ==
    /\ work[h].at = "act" /\ work[h].fixed /\ work[h].todo = {}
    /\ picked' = IF work[h].order = "schedule_all" THEN picked ELSE {}
    /\ Goto(h, [at |-> "read", page |-> page, wanted |-> filter])
    /\ Anew(h)
    /\ UNCHANGED <<filter, page, list, total, menu, live, open, books, screen>> /\ NoAct

\* The reply is refused, or homeland's service raises, which it does before it
\* begins: the author is told, and the selection kept.
OrderRefused(h) ==
    /\ work[h].at = "act" /\ ~work[h].begun
    /\ office = "justice" => ~work[h].fixed
    /\ Goto(h, NoWork)
    /\ UNCHANGED <<books, state, screen, excuse>> /\ Fault

-----------------------------------------------------------------------------
(* The end of a panel, and what others do *)

\* _on_close of homeland's panel disables its buttons, draws it, and only then
\* stops it.
on_close(h) ==
    /\ office = "homeland"
    /\ Press(h)
    /\ live' = FALSE
    /\ UNCHANGED <<filter, page, list, total, picked, menu, open, books, screen>>
    /\ Draw(h, TRUE) /\ Crosses(h)

\* A view that times out has stopped already when homeland's on_timeout draws
\* it disabled; justice's has none.
on_timeout(h) ==
    /\ open /\ Ready(h) /\ Act
    /\ open' = FALSE /\ live' = (office = "justice")
    /\ UNCHANGED <<filter, page, list, total, picked, menu, books, screen>>
    /\ IF office = "homeland" THEN Draw(h, TRUE) /\ Crosses(h) ELSE UNCHANGED <<work, excuse>>

\* Someone is arrested, or another panel's order is served.
Elsewhere(s, new) ==
    /\ status[s] # new
    /\ status' = [status EXCEPT ![s] = new]
    /\ excuse' = excuse \union {"elsewhere"}
    /\ UNCHANGED <<office, chosen, taken, state, screen, work>> /\ Act

HomelandSecuritySuspectsPanelView(h) ==
    \/ \E k \in 0..Cardinality(Suspects) : on_turn_page(h, k)
    \/ open_search_modal(h) \/ apply_search(h) \/ on_reset_search(h)
JusticeSuspectsPanelView(h) ==
    \/ \E k \in 0..Cardinality(Suspects) : turn_page(h, k)
    \/ on_status_change(h)
Working(h) ==
    \/ Deferred(h) \/ Read(h) \/ Apply(h) \/ Show(h) \/ Take(h) \/ Finish(h)
    \/ \E s \in Suspects : Serve(h, s)

Next ==
    \/ \E h \in Handlers :
          \/ Working(h) \/ ReadFails(h) \/ Refused(h) \/ OrderRefused(h)
          \/ HomelandSecuritySuspectsPanelView(h) \/ JusticeSuspectsPanelView(h)
          \/ \E ss \in SUBSET Suspects : on_select(h, ss)
          \/ on_refresh(h) \/ on_submit(h) \/ on_close(h) \/ on_timeout(h)
          \/ \E order \in Scopes : open_modal(h, order)
    \/ \E s \in Suspects, new \in {"free", "detained", "charged"} : Elsewhere(s, new)

Spec == Init /\ [][Next]_deskVars

-----------------------------------------------------------------------------
(* Properties *)

\* Every variable has its type, and the page is one of the list's.
TypeOK ==
    /\ office \in DOMAIN OrdersOf /\ status \in [Suspects -> {"free", "detained", "charged"}]
    /\ {filter, live, open} \subseteq BOOLEAN
    /\ {list, picked, menu, chosen, taken} \subseteq SUBSET Suspects
    /\ page \in Nat /\ total \in Nat /\ page < Pages(total)
    /\ screen \in [page : Nat, list : SUBSET Suspects, picked : SUBSET Suspects,
                   menu : SUBSET Suspects, live : BOOLEAN]
    /\ \A h \in Handlers : work[h].at \in InFlight \union {"idle", "modal"}
    /\ excuse \subseteq Reasons \union {"redrawn"}

\* The panel shows what there is (reload, _push_update, _update_interaction):
\* when nothing is at work, the page, the selection and the list on the screen
\* are those that count, a list looks empty only if nobody is found, justice's
\* menu offers the list, and its buttons look as the view has them - unless
\* callbacks overlapped, an edit was refused, or something happened elsewhere,
\* since the list was last read by one alone, or justice's page had gone.  A
\* panel of homeland's then looks closed just if it is, unless something at work
\* since, or a modal sent since, has drawn it anew.
PanelShowsTheSuspects ==
    Busy = {} /\ excuse \intersect Reasons = {} =>
        /\ screen.page = page /\ screen.picked = picked
        /\ screen.list = PageOf(Found(filter), page)
        /\ screen.list = {} => Found(filter) = {}
        /\ office = "justice" => screen.menu = screen.list
        /\ screen.live = live
        /\ office = "homeland" /\ "redrawn" \notin excuse => screen.live = open

\* Nobody is released, charged or let off whom the author did not select, and
\* select last: however pages, searches, reloads and two orders cross.
OnlyTheChosen == [][taken' = taken \/ taken' \subseteq chosen]_deskVars

=============================================================================

-------------------------------- MODULE Panels --------------------------------
(***************************************************************************)
(* What a member of the government sees and what he does with it: a panel  *)
(* that redraws itself when it hears of news - the state council's         *)
(* (StateCouncilPanelView: the ledger's notices that money moved), the     *)
(* council's (CouncilPanelView) or the assembly's                          *)
(* (SupremeAssemblyPanelView: the proposals and the votes) - and a form    *)
(* opened from it, whose outcome is such news.                             *)
(*                                                                         *)
(* All handlers run in one event loop: a step is what runs between two     *)
(* awaits.  The state council's panel is taken to be a department head's;  *)
(* a leader's refresh is the same without the wait for his permissions.    *)
(* A form is opened with its source fixed (the department's page).  A      *)
(* summary or a list is the number of events that it surely includes, or   *)
(* Unread where a query has failed.  Payments are made at once (Treasury), *)
(* not through the pool of transfers that wait for checks (TransferPool).  *)
(***************************************************************************)
EXTENDS Integers, FiniteSets

CONSTANTS
    Departments, \* pages other than the overview
    Payees,
    Amounts,
    Clickers,    \* page changes being worked on, at most
    Handlers,    \* the fields's callbacks being worked on, at most
    MaxActs,     \* bound: what users ask for: pages, fields, submissions, settings
    MaxMishaps   \* bound: refused edits and messages, lost notices, failed queries

ASSUME PanelsAssumption ==
    /\ IsFiniteSet(Departments) /\ IsFiniteSet(Handlers) /\ Amounts \subseteq Nat \ {0}
    /\ {MaxActs, MaxMishaps} \subseteq Nat
    /\ {"open", "live"} \cap Clickers = {} /\ "overview" \notin Departments
    /\ {"nobody", "failed", "part"} \cap Payees = {}

VARIABLES
    kind,     \* whose panel was opened
    facts,    \* what happened: payments, or a chamber's proposals and votes
    ballots,  \* the assembly's votes that are published but not committed
    notices,  \* news not yet published to the panels
    allowed,  \* the departments whose pages the author may see, as the tables say
    bound,    \* the panel has subscribed
    waiting,  \* live updates waiting for _update_lock
    page,     \* current_page
    menus,    \* navigation menus in the view
    drawing,  \* drawing[r]: where refresh r stands, and what it has read
    screen,   \* the summary that Discord shows
    shelf,    \* the list that a chamber's paginator holds
    excuse,   \* why the screen may be behind, a history
    form,     \* which of the panel's forms was opened
    fields,   \* its fields
    seen,     \* the form as Discord shows it
    work,     \* work[h]: the callback of the form that h runs
    muddled,  \* an edit of the form crossed another or a choice, or was refused
    receipt,  \* what came of the submission that has just ended, a history
    acts,
    faults

news == <<kind, facts, ballots, notices>>
panel == <<allowed, bound, waiting, page, menus, drawing, screen, shelf, excuse>>
sheet == <<form, fields, seen, work, muddled, receipt>>
panelsVars == <<news, panel, sheet, acts, faults>>

Pages == Departments \union {"overview"}
Refreshes == {"open", "live"} \union Clickers
Forms == [state_council |->
              {"FromStateCouncil", "DepartmentToDepartment", "DepartmentToCompany",
               "DepartmentToUser"},
          council |-> {"CouncilProposal"},
          assembly |-> {"AssemblyTransfer", "AssemblyProposal"}]
NoDraw == [at |-> "idle", allowed |-> {}, page |-> "overview", facts |-> 0]
NoWork == [at |-> "idle"]
NoReceipt == [told |-> "nothing"]
Unread == -1 \* an empty list, or 無法載入
Blank == [payee |-> "nobody", amount |-> 0]

PanelsInit ==
    /\ kind = "none" /\ form = "none"
    /\ facts = 0 /\ ballots = 0 /\ notices = 0 /\ waiting = 0 /\ menus = 0 /\ shelf = 0
    /\ allowed = Departments /\ bound = FALSE
    /\ page = "overview"
    /\ drawing = [r \in Refreshes |-> NoDraw]
    /\ screen = [page |-> "overview", facts |-> 0]
    /\ excuse = {}
    /\ fields = Blank /\ seen = [open |-> TRUE, fields |-> Blank]
    /\ work = [h \in Handlers |-> NoWork]
    /\ muddled = FALSE /\ receipt = NoReceipt
    /\ acts = 0 /\ faults = 0

Act == acts < MaxActs /\ acts' = acts + 1 /\ UNCHANGED faults
Fault == faults < MaxMishaps /\ faults' = faults + 1 /\ UNCHANGED acts
NoAct == UNCHANGED <<acts, faults>>

-----------------------------------------------------------------------------
(* The panel. *)

Chamber == kind \in {"council", "assembly"}
Busy == {r \in Refreshes : drawing[r].at \in {"permit", "lay", "read", "edit", "again"}}
To(r, step) == [drawing EXCEPT ![r].at = step]

(* The commands that open a panel, for those who may see it.               *)
Open(k) ==
    /\ kind = "none"
    /\ kind' = k
    /\ drawing' = To("open", "permit")
    /\ UNCHANGED <<facts, ballots, notices, allowed, bound, waiting, page, menus, screen, shelf,
                   excuse, sheet>>
    /\ NoAct
OpenStateCouncil == Open("state_council")
OpenCouncil == Open("council")
OpenAssembly == Open("assembly")

(* refresh_options begins: the view is emptied, whoever else is at work. *)
BeginRefresh(r) ==
    /\ drawing[r].at = "idle"
    /\ drawing' = To(r, "permit")
    /\ menus' = 0
    /\ excuse' = IF Busy = {} THEN {} ELSE excuse \union {"overlap"}

(* _compute_allowed_departments: the settings are read. *)
Permit(r) ==
    /\ kind = "state_council" /\ drawing[r].at = "permit"
    /\ drawing' = [drawing EXCEPT ![r].at = "lay", ![r].allowed = allowed]
    /\ UNCHANGED <<news, allowed, bound, waiting, page, menus, screen, shelf, excuse, sheet>>
    /\ NoAct

(* A check that fails (a query's Err) denies the department.               *)
PermitFails(r, denied) ==
    /\ kind = "state_council" /\ drawing[r].at = "permit"
    /\ drawing' = [drawing EXCEPT ![r].at = "lay", ![r].allowed = allowed \ denied]
    /\ UNCHANGED <<news, allowed, bound, waiting, page, menus, screen, shelf, excuse, sheet>>
    /\ Fault

(* Mutant of Lay: the page is left as it is.                               *)
LayAsItIs(r) ==
    /\ drawing[r].at = "lay"
    /\ drawing' = IF menus = 0
                  THEN [drawing EXCEPT ![r] = [NoDraw EXCEPT !.at = "read", !.page = page]]
                  ELSE [drawing EXCEPT ![r] = NoDraw]
    /\ menus' = 1
    /\ UNCHANGED <<news, allowed, bound, waiting, page, screen, shelf, excuse, sheet>>
    /\ NoAct

(* The page is corrected and the menu laid: a second menu does not fit in  *)
(* its row.  A live update then renews the view and leaves the summary as  *)
(* it was; a click ends in an error.                                       *)
Lay(r) ==
    /\ drawing[r].at = "lay"
    /\ page' = IF page \in drawing[r].allowed \union {"overview"} THEN page ELSE "overview"
    /\ drawing' = IF menus = 0
                  THEN [drawing EXCEPT ![r] = [NoDraw EXCEPT !.at = "read", !.page = page']]
                  ELSE [drawing EXCEPT ![r] = NoDraw]
    /\ menus' = 1
    /\ UNCHANGED <<news, allowed, bound, waiting, screen, shelf, excuse, sheet>>
    /\ NoAct

(* get_council_summary, for the page that was current when it was called:  *)
(* what had happened by the first of its queries is in it for certain; the *)
(* others, account after account, are still to come as the edit is.        *)
ReadSummary(r) ==
    /\ drawing[r].at = "read"
    /\ drawing' = [drawing EXCEPT ![r].at = "edit", ![r].facts = facts]
    /\ UNCHANGED <<news, allowed, bound, waiting, page, menus, screen, shelf, excuse, sheet>>
    /\ NoAct

(* One of its queries fails: the page says so, or shows an account by the  *)
(* balance in the governance tables instead of the ledger's.               *)
SummaryFails(r) ==
    /\ drawing[r].at = "read"
    /\ drawing' = [drawing EXCEPT ![r].at = "edit", ![r].facts = Unread]
    /\ excuse' = excuse \union {"failed"}
    /\ UNCHANGED <<news, allowed, bound, waiting, page, menus, screen, shelf, sheet>>
    /\ Fault

(* A chamber's refresh_options: one read, for the menu of proposals and    *)
(* for the paginator (refresh_items).                                      *)
ListProposals(r) ==
    /\ drawing[r].at = "permit"
    /\ drawing' = [drawing EXCEPT ![r].at = "edit", ![r].facts = facts]
    /\ shelf' = facts
    /\ UNCHANGED <<news, allowed, bound, waiting, page, menus, screen, excuse, sheet>>
    /\ NoAct
ListCouncil(r) == kind = "council" /\ ListProposals(r)
ListAssembly(r) == kind = "assembly" /\ ListProposals(r)

(* An Err is taken for an empty list: it is put in both, and drawn. *)
ListFails(r) ==
    /\ Chamber /\ drawing[r].at = "permit"
    /\ drawing' = [drawing EXCEPT ![r].at = "edit", ![r].facts = Unread]
    /\ shelf' = Unread
    /\ excuse' = excuse \union {"failed"}
    /\ UNCHANGED <<news, allowed, bound, waiting, page, menus, screen, sheet>>
    /\ Fault

(* The council's live update ends by reading the list for the paginator    *)
(* once more, still under the lock.                                        *)
ListAgain ==
    /\ drawing["live"].at = "again"
    /\ drawing' = [drawing EXCEPT !["live"] = NoDraw]
    /\ shelf' = facts
    /\ UNCHANGED <<news, allowed, bound, waiting, page, menus, screen, excuse, sheet>>
    /\ NoAct

(* Here an Err leaves the paginator as it is. *)
ListAgainFails ==
    /\ drawing["live"].at = "again"
    /\ drawing' = [drawing EXCEPT !["live"] = NoDraw]
    /\ UNCHANGED <<news, allowed, bound, waiting, page, menus, screen, shelf, excuse, sheet>>
    /\ Fault

Gone == drawing["open"].at = "expired"
Drawn(r) ==
    [drawing EXCEPT ![r] = [NoDraw EXCEPT !.at =
        CASE r = "open" -> "bind"
          [] r = "live" /\ kind = "council" -> "again"
          [] OTHER -> "idle"]]

(* message.edit, or the reply that opens the panel. *)
Draw(r) ==
    /\ drawing[r].at = "edit" /\ ~Gone
    /\ drawing' = Drawn(r)
    /\ screen' = [page |-> drawing[r].page, facts |-> drawing[r].facts]
    /\ UNCHANGED <<news, allowed, bound, waiting, page, menus, shelf, excuse, sheet>>
    /\ NoAct

(* Discord refuses the edit (the panel's token ends after a while), or a   *)
(* later query of the summary raises: it is logged.                        *)
DrawRefused(r) ==
    /\ r # "open" /\ drawing[r].at = "edit"
    /\ drawing' = Drawn(r)
    /\ excuse' = excuse \union {"refused"}
    /\ UNCHANGED <<news, allowed, bound, waiting, page, menus, screen, shelf, sheet>>
    /\ Fault

(* The message of a panel that has expired is None: logged as well. *)
DrawNothing ==
    /\ Gone /\ drawing["live"].at = "edit"
    /\ drawing' = Drawn("live")
    /\ UNCHANGED <<news, allowed, bound, waiting, page, menus, screen, shelf, excuse, sheet>>
    /\ NoAct

(* bind_message: what was published before this is not heard of. *)
Bind ==
    /\ drawing["open"].at = "bind"
    /\ drawing' = [drawing EXCEPT !["open"] = [NoDraw EXCEPT !.at = "shown"]]
    /\ bound' = TRUE
    /\ UNCHANGED <<news, allowed, waiting, page, menus, screen, shelf, excuse, sheet>>
    /\ NoAct

(* on_timeout of a chamber's panel: it unsubscribes, and forgets its       *)
(* message before PersistentPanelView.on_timeout would write in it that    *)
(* the panel has expired.                                                  *)
Expire ==
    /\ Chamber /\ drawing["open"].at = "shown"
    /\ drawing' = To("open", "expired")
    /\ bound' = FALSE /\ waiting' = 0
    /\ UNCHANGED <<news, allowed, page, menus, screen, shelf, excuse, sheet>>
    /\ Act

(* A choice in the menu of pages: it does not take the lock. *)
Navigate(r, p) ==
    /\ kind = "state_council" /\ drawing["open"].at \in {"bind", "shown"}
    /\ p \in Pages
    /\ page' = p
    /\ BeginRefresh(r)
    /\ UNCHANGED <<news, allowed, bound, waiting, screen, shelf, sheet>>
    /\ Act

(* _apply_live_update has the lock. *)
LiveUpdate ==
    /\ waiting > 0
    /\ waiting' = waiting - 1
    /\ BeginRefresh("live")
    /\ UNCHANGED <<news, allowed, bound, page, screen, shelf, sheet>>
    /\ NoAct

(* Mutant: what comes during an update is taken to be in it. *)
HearAtRest == IF bound /\ drawing["live"].at = "idle" THEN waiting + 1 ELSE waiting
Hear == IF bound THEN waiting + 1 ELSE waiting

(* The listener has a notice about a government account, a setting was     *)
(* stored, or a chamber's service has committed: the event is published to *)
(* those who have subscribed.                                              *)
Publish ==
    /\ notices > 0
    /\ notices' = notices - 1
    /\ waiting' = Hear
    /\ excuse' = IF bound THEN excuse ELSE excuse \union {"missed"}
    /\ UNCHANGED <<kind, facts, ballots, allowed, bound, page, menus, drawing, screen, shelf,
                   sheet>>
    /\ NoAct

(* The listener's connection is down when the notice is given. *)
LoseNotice ==
    /\ kind = "state_council" /\ notices > 0
    /\ notices' = notices - 1
    /\ excuse' = excuse \union {"missed"}
    /\ UNCHANGED <<kind, facts, ballots, allowed, bound, waiting, page, menus, drawing, screen,
                   shelf, sheet>>
    /\ Fault

(* update_department_config: the role of a department changes. *)
Reconfigure(d) ==
    /\ kind = "state_council"
    /\ allowed' = IF d \in allowed THEN allowed \ {d} ELSE allowed \union {d}
    /\ notices' = notices + 1
    /\ UNCHANGED <<kind, facts, ballots, bound, waiting, page, menus, drawing, screen, shelf,
                   excuse, sheet>>
    /\ Act

(* Others vote in the council, or propose and cancel in either chamber:    *)
(* the service commits, and then publishes.                                *)
Others ==
    /\ Chamber
    /\ facts' = facts + 1 /\ notices' = notices + 1
    /\ UNCHANGED <<kind, ballots, panel, sheet>>
    /\ Act

(* A vote in the assembly: it is published in the transaction...           *)
CastBallot ==
    /\ kind = "assembly"
    /\ ballots' = ballots + 1
    /\ waiting' = Hear
    /\ UNCHANGED <<kind, facts, notices, allowed, bound, page, menus, drawing, screen, shelf,
                   excuse, sheet>>
    /\ Act

(* What is committed after it was told of: a panel that was quick has read *)
(* what was before, and will not hear of it again.                         *)
YetToRead ==
    notices > 0 \/ waiting > 0 \/ \E r \in Refreshes : drawing[r].at \in {"permit", "lay", "read"}
CommitUntold ==
    /\ facts' = facts + 1
    /\ excuse' = IF YetToRead THEN excuse ELSE excuse \union {"early"}
    /\ UNCHANGED <<kind, notices, allowed, bound, waiting, page, menus, drawing, screen, shelf>>

(* ... that commits later. *)
CommitBallot ==
    /\ ballots > 0
    /\ ballots' = ballots - 1
    /\ CommitUntold
    /\ UNCHANGED sheet
    /\ NoAct

-----------------------------------------------------------------------------
(* The fields. *)

GotoStep(h, step) == work' = [work EXCEPT ![h].at = step]
Filled == fields.payee # "nobody" /\ fields.amount > 0

(* What a callback does to the fields is not what other callbacks, that    *)
(* have yet to read them, were asked for.                                  *)
Touch(w) == [h \in Handlers |->
    IF w[h].at \in {"config", "call", "record", "tell"} THEN [w[h] EXCEPT !.alone = FALSE]
    ELSE w[h]]

(* apply_ui_update: the form is rendered, and the edit sent. *)
Render(h, w) ==
    /\ muddled' = (\E g \in Handlers \ {h} : w[g].at = "edit")
    /\ work' = [w EXCEPT ![h] = [at |-> "edit", fields |-> fields']]

Idle(h) ==
    /\ drawing["open"].at \in {"bind", "shown"} \* it is opened from the panel
    /\ seen.open /\ work[h].at = "idle"
    /\ h = CHOOSE g \in Handlers : work[g].at = "idle"

(* A user, company or department is chosen, and the amount asked for at    *)
(* once: the form is not rendered, but the menu itself shows the choice.   *)
SelectAndAsk(h, p) ==
    /\ Idle(h) /\ p # fields.payee
    /\ fields' = [fields EXCEPT !.payee = p]
    /\ seen' = [seen EXCEPT !.fields.payee = p]
    /\ work' = Touch(work)
    /\ muddled' = (muddled \/ \E g \in Handlers : work[g].at = "edit")
    /\ UNCHANGED <<news, panel>>
    /\ receipt' = NoReceipt
    /\ Act

(* A department's form lets a company be chosen while its menu is there.   *)
SelectOnce(h, p) ==
    /\ Idle(h) /\ p # fields.payee /\ seen.fields.payee = "nobody"
    /\ fields' = [fields EXCEPT !.payee = p]
    /\ Render(h, Touch(work))
    /\ UNCHANGED <<news, panel, seen>>
    /\ receipt' = NoReceipt
    /\ Act

(* RecipientInputModal and the amount modals: the field is set, the reply  *)
(* sent, and only then is the form rendered.                               *)
TypePayee(h, p) ==
    /\ Idle(h) /\ p # fields.payee
    /\ fields' = [fields EXCEPT !.payee = p]
    /\ work' = [Touch(work) EXCEPT ![h].at = "answer"]
    /\ UNCHANGED <<news, panel, seen, muddled>>
    /\ receipt' = NoReceipt
    /\ Act

TypeAmount(h, a) ==
    /\ Idle(h) /\ fields.payee # "nobody" /\ a # fields.amount
    /\ fields' = [fields EXCEPT !.amount = a]
    /\ work' = [Touch(work) EXCEPT ![h].at = "answer"]
    /\ UNCHANGED <<news, panel, form, seen, muddled>>
    /\ receipt' = NoReceipt
    /\ Act

(* Mutant: the modal's field is not shown. *)
AnsweredOnly(h) ==
    /\ work[h].at = "answer"
    /\ work' = [work EXCEPT ![h] = NoWork]
    /\ UNCHANGED <<news, panel, form, fields, seen, muddled>>
    /\ receipt' = NoReceipt
    /\ NoAct

Answered(h) ==
    /\ work[h].at = "answer"
    /\ UNCHANGED fields
    /\ Render(h, work)
    /\ UNCHANGED <<news, panel, form, seen>>
    /\ receipt' = NoReceipt
    /\ NoAct

(* The edit arrives; a form that was closed is open again. *)
Show(h) ==
    /\ work[h].at = "edit"
    /\ seen' = [open |-> TRUE, fields |-> work[h].fields]
    /\ work' = [work EXCEPT ![h] = NoWork]
    /\ UNCHANGED <<news, panel, form, fields, muddled>>
    /\ receipt' = NoReceipt
    /\ NoAct

ShowRefused(h) ==
    /\ work[h].at = "edit"
    /\ work' = [work EXCEPT ![h] = NoWork]
    /\ muddled' = TRUE
    /\ UNCHANGED <<news, panel, form, fields, seen>>
    /\ receipt' = NoReceipt
    /\ Fault

(* The chambers' forms: views that ask for the type and the payee (or, for *)
(* a motion, nothing), and a modal that is sent for him.                   *)
Ask(h, p) ==
    /\ Idle(h)
    /\ work' = [work EXCEPT ![h] = [at |-> "modal", payee |-> p]]
    /\ UNCHANGED <<news, panel, fields, seen, muddled>>
    /\ receipt' = NoReceipt
    /\ Act

(* The modal has its own fields: what was seen is what is sent.  The name  *)
(* that it shows can be written over.                                      *)
SubmitModal(h, a, named) ==
    /\ work[h].at = "modal"
    /\ LET typed == [payee |-> work[h].payee, amount |-> a] IN
       work' = [work EXCEPT ![h] =
          [at |-> "call", saw |-> typed, sent |-> typed, paid |-> "nothing", named |-> named,
           alone |-> named = typed.payee]]
    /\ UNCHANGED <<news, panel, form, fields, seen, muddled>>
    /\ receipt' = NoReceipt
    /\ NoAct

(* 送出轉帳: nothing stops a second press. *)
Submit(h) ==
    /\ Idle(h) /\ Filled
    /\ work' = [work EXCEPT ![h] =
          [at |-> "config", saw |-> seen.fields, sent |-> Blank, paid |-> "nothing",
           alone |-> ~muddled /\ \A g \in Handlers : work[g].at \notin {"answer", "edit"}]]
    /\ UNCHANGED <<news, panel, form, fields, seen, muddled>>
    /\ receipt' = NoReceipt
    /\ Act

(* The currency is known: the service is called with the fields of now. *)
CallService(h) ==
    /\ work[h].at = "config"
    /\ work' = [work EXCEPT ![h] = [@ EXCEPT !.at = "call", !.sent = fields]]
    /\ UNCHANGED <<news, panel, form, fields, seen, muddled>>
    /\ receipt' = NoReceipt
    /\ NoAct

Receipt(h, told, mishap) ==
    receipt' = [saw |-> work[h].saw, sent |-> work[h].sent, paid |-> work[h].paid,
                alone |-> work[h].alone, told |-> told, mishap |-> mishap]

(* The ledger or the chamber's service commits, and notice is given of it; *)
(* a payment from the assembly's account is no news to its panel.          *)
Commits(h, paid, step) ==
    /\ work[h].at = "call"
    /\ IF form = "AssemblyTransfer" THEN UNCHANGED <<facts, notices>>
       ELSE facts' = facts + 1 /\ notices' = notices + 1
    /\ work' = [work EXCEPT ![h] = [@ EXCEPT !.at = step, !.paid = paid]]
    /\ UNCHANGED <<kind, ballots, panel, form, fields, seen, muddled>>
    /\ receipt' = NoReceipt
    /\ NoAct

(* Between departments the ledger commits on a connection of its own,      *)
(* while the transaction that will store the record is still open.         *)
Paid(h) == Commits(h, "all", IF form = "DepartmentToDepartment" THEN "record" ELSE "tell")

(* transfer_from_state_council_auto_deduct: a department that cannot pay   *)
(* is left out, and what the others paid is kept.                          *)
PaidInPart(h) == form = "FromStateCouncil" /\ Commits(h, "part", "tell")

(* Or it is refused: the user is told, and the form stays as it is.        *)
Refused(h) ==
    /\ work[h].at = "call"
    /\ work' = [work EXCEPT ![h] = NoWork]
    /\ Receipt(h, "failed", FALSE)
    /\ UNCHANGED <<news, panel, form, fields, seen, muddled>>
    /\ NoAct

(* The transfers of departments swallow a refusal of the ledger's: all of  *)
(* them between departments, else all but want of funds (Treasury).        *)
DepartmentForms == {"DepartmentToDepartment", "DepartmentToCompany", "DepartmentToUser"}
RefusedUnsaid(h) ==
    /\ work[h].at = "call" /\ form \in DepartmentForms
    /\ GotoStep(h, IF form = "DepartmentToDepartment" THEN "record" ELSE "tell")
    /\ UNCHANGED <<news, panel, form, fields, seen, muddled>>
    /\ receipt' = NoReceipt
    /\ NoAct

(* The record is committed, of a payment or of none: no notice tells of it.*)
RecordCommits(h) ==
    /\ work[h].at = "record"
    /\ CommitUntold
    /\ GotoStep(h, "tell")
    /\ UNCHANGED <<ballots, form, fields, seen, muddled>>
    /\ receipt' = NoReceipt
    /\ NoAct

(* It is rolled back, and the user told 轉帳失敗; the ledger has paid.     *)
RecordFails(h) ==
    /\ work[h].at = "record"
    /\ work' = [work EXCEPT ![h] = NoWork]
    /\ Receipt(h, "failed", TRUE)
    /\ UNCHANGED <<news, panel, form, fields, seen, muddled>>
    /\ Fault

(* 轉帳部分失敗: the user is told how much was paid, and the form stays.   *)
TellPart(h) ==
    /\ work[h].at = "tell" /\ work[h].paid = "part"
    /\ work' = [work EXCEPT ![h] = NoWork]
    /\ Receipt(h, "part", FALSE)
    /\ UNCHANGED <<news, panel, form, fields, seen, muddled>>
    /\ NoAct

(* The modal's message of success names what its field says. *)
TellNamed(h) ==
    /\ work[h].at = "tell" /\ Chamber
    /\ Receipt(h, work[h].named, FALSE)
    /\ work' = [work EXCEPT ![h] = NoWork]
    /\ UNCHANGED <<news, panel, form, fields, seen, muddled>>
    /\ NoAct

(* A form's message of success names the payee of now. *)
Tell(h) ==
    /\ work[h].at = "tell" /\ work[h].paid # "part" /\ ~Chamber
    /\ Receipt(h, fields.payee, FALSE)
    /\ UNCHANGED fields
    /\ Render(h, work)
    /\ UNCHANGED <<news, panel, form, seen>>
    /\ NoAct

(* The message is refused: the handler's except clause says 轉帳失敗.      *)
TellRefused(h) ==
    /\ work[h].at = "tell" /\ form # "CouncilProposal"
    /\ Receipt(h, "failed", TRUE)
    /\ work' = [work EXCEPT ![h] = NoWork]
    /\ UNCHANGED <<news, panel, form, fields, seen, muddled>>
    /\ Fault

(* The council's modal has no such clause: nobody is told, and no member   *)
(* is asked to vote on the proposal, which is there.                       *)
TellNobody(h) ==
    /\ work[h].at = "tell" /\ form = "CouncilProposal"
    /\ work' = [work EXCEPT ![h] = NoWork]
    /\ UNCHANGED <<news, panel, form, fields, seen, muddled>>
    /\ receipt' = NoReceipt
    /\ Fault

(* 關閉: the buttons are taken away; what is running goes on. *)
Close ==
    /\ seen.open /\ ~Chamber
    /\ seen' = [seen EXCEPT !.open = FALSE]
    /\ UNCHANGED <<news, panel, form, fields, work, muddled>>
    /\ receipt' = NoReceipt
    /\ Act

Working(h) ==
    \/ Answered(h) \/ Show(h) \/ CallService(h)
    \/ Paid(h) \/ PaidInPart(h) \/ Refused(h) \/ RefusedUnsaid(h) \/ RecordCommits(h)
    \/ Tell(h) \/ TellPart(h) \/ TellNamed(h)
Common(h) ==
    \/ Working(h) \/ ShowRefused(h) \/ TellRefused(h) \/ RecordFails(h) \/ Submit(h) \/ Close
    \/ \E a \in Amounts : TypeAmount(h, a)

(* The form that is opened from the panel is the one that is used. *)
Use(f) ==
    /\ kind # "none" /\ f \in Forms[kind] /\ form \in {"none", f}
    /\ form' = f
AskCouncil(h) == Use("CouncilProposal") /\ \E p \in Payees : Ask(h, p)
CouncilProposal(h) ==
    /\ form = "CouncilProposal"
    /\ \/ \E a \in Amounts : SubmitModal(h, a, work[h].payee)
       \/ Paid(h) \/ Refused(h) \/ TellNamed(h) \/ TellNobody(h)
AskAssembly(h) == Use("AssemblyTransfer") /\ \E p \in Payees : Ask(h, p)
SendTransfer(h) ==
    /\ form = "AssemblyTransfer"
    /\ \E a \in Amounts, named \in Payees : SubmitModal(h, a, named)
AssemblyTransfer(h) ==
    \/ AskAssembly(h) \/ SendTransfer(h)
    \/ form = "AssemblyTransfer" /\ (Paid(h) \/ Refused(h) \/ TellNamed(h) \/ TellRefused(h))
AssemblyProposal(h) ==
    \/ Use("AssemblyProposal") /\ \E p \in Payees : Ask(h, p)
    \/ /\ form = "AssemblyProposal"
       /\ \/ \E a \in Amounts : SubmitModal(h, a, work[h].payee)
          \/ Paid(h) \/ Refused(h) \/ TellNamed(h) \/ TellRefused(h)

(* The state council's six forms: how their payee is chosen is what tells  *)
(* them apart, and the three of the leader's do it alike.                  *)
FromStateCouncil(h) ==
    \/ form = "FromStateCouncil" /\ Common(h)
    \/ Use("FromStateCouncil") /\ \E p \in Payees : SelectAndAsk(h, p)
StateCouncilToUser(h) == FromStateCouncil(h)
StateCouncilToCompany(h) == FromStateCouncil(h)
StateCouncilToDepartment(h) == FromStateCouncil(h)
DepartmentToDepartment(h) ==
    \/ form = "DepartmentToDepartment" /\ Common(h)
    \/ Use("DepartmentToDepartment") /\ \E p \in Payees : SelectAndAsk(h, p)
DepartmentToCompany(h) ==
    \/ form = "DepartmentToCompany" /\ Common(h)
    \/ Use("DepartmentToCompany") /\ \E p \in Payees : SelectOnce(h, p)
DepartmentToUser(h) ==
    \/ form = "DepartmentToUser" /\ Common(h)
    \/ Use("DepartmentToUser") /\ \E p \in Payees : TypePayee(h, p)

-----------------------------------------------------------------------------
(* What a refresh runs through, by panel. *)
StateCouncilPanelView(r) == Permit(r) \/ Lay(r) \/ ReadSummary(r)
CouncilPanelView(r) == ListCouncil(r) \/ (r = "live" /\ ListAgain)
SupremeAssemblyPanelView(r) == ListAssembly(r)
Refreshing(r) ==
    \/ StateCouncilPanelView(r) \/ CouncilPanelView(r) \/ SupremeAssemblyPanelView(r)
    \/ Draw(r)
    \/ (r = "live" /\ DrawNothing)

Failing(r) ==
    \/ DrawRefused(r) \/ SummaryFails(r) \/ ListFails(r)
    \/ \E denied \in SUBSET allowed \ {{}} : PermitFails(r, denied)
    \/ (r = "live" /\ ListAgainFails)

PanelsNext ==
    \/ OpenStateCouncil \/ OpenCouncil \/ OpenAssembly \/ Expire
    \/ Others \/ CastBallot \/ CommitBallot
    \/ \E h \in Handlers :
          \/ AskCouncil(h) \/ CouncilProposal(h) \/ AssemblyTransfer(h) \/ AssemblyProposal(h)
    \/ \E r \in Refreshes : Refreshing(r) \/ Failing(r)
    \/ Bind \/ LiveUpdate \/ Publish \/ LoseNotice
    \/ \E r \in Clickers, p \in Pages : Navigate(r, p)
    \/ \E d \in Departments : Reconfigure(d)
    \/ \E h \in Handlers :
          \/ StateCouncilToUser(h) \/ StateCouncilToCompany(h) \/ StateCouncilToDepartment(h)
          \/ DepartmentToDepartment(h) \/ DepartmentToCompany(h) \/ DepartmentToUser(h)

PanelsSpec == PanelsInit /\ [][PanelsNext]_panelsVars

(* The event loop runs the panel's tasks while they can go on, and hears   *)
(* every notice; nothing is asked of the forms, nor of a vote's commit.    *)
Fairness ==
    /\ \A r \in Refreshes : WF_panelsVars(Refreshing(r))
    /\ WF_panelsVars(Bind) /\ WF_panelsVars(LiveUpdate) /\ WF_panelsVars(Publish)
FairPanelsSpec == PanelsSpec /\ Fairness

-----------------------------------------------------------------------------
Fields == [payee : Payees \union {"nobody"}, amount : Amounts \union {0}]
Counts == Nat \union {Unread}
Outcomes == {"nothing", "part", "all"}
Stages == {"idle", "permit", "lay", "read", "edit", "again", "bind", "shown", "expired"}

(* Every variable has its type; the lock admits one live update at a time, *)
(* and the view never has two menus of pages.                              *)
PanelsTypeOK ==
    /\ {facts, ballots, notices, waiting, acts, faults} \subseteq Nat /\ shelf \in Counts
    /\ kind \in DOMAIN Forms \union {"none"}
    /\ form # "none" => form \in Forms[kind]
    /\ allowed \subseteq Departments /\ bound \in BOOLEAN /\ menus \in {0, 1}
    /\ page \in Pages /\ screen \in [page : Pages, facts : Counts]
    /\ drawing \in [Refreshes ->
          [at : Stages, allowed : SUBSET Departments, page : Pages, facts : Counts]]
    /\ excuse \subseteq {"overlap", "missed", "refused", "early", "failed"}
    /\ fields \in Fields /\ seen \in [open : BOOLEAN, fields : Fields]
    /\ \A h \in Handlers :
          work[h].at \in {"idle", "answer", "edit", "config", "modal", "call", "record", "tell"}
    /\ muddled \in BOOLEAN
    /\ receipt \in {NoReceipt} \union
          [saw : Fields, sent : Fields, paid : Outcomes, alone : BOOLEAN,
           told : Payees \union {"failed", "part"}, mishap : BOOLEAN]

(* The panel catches up (_apply_live_update under its lock, events after   *)
(* every notice): once nothing is on its way, it shows all that was paid,  *)
(* on the page that the author chose and may see, or all that the chamber  *)
(* did, and the paginator has the same - unless two refreshes overlapped,  *)
(* an event was lost, told of before it was there, a query failed, or an   *)
(* edit was refused, since one ran alone.                                  *)
PanelCatchesUp ==
    bound /\ notices = 0 /\ waiting = 0 /\ Busy = {} /\ excuse = {} =>
        /\ Chamber => shelf = facts
        /\ screen = [page |-> page, facts |-> facts]
        /\ page \in allowed \union {"overview"}

(* Types, and what a panel shows once nothing is on its way.               *)
PanelIsTrue == PanelsTypeOK /\ PanelCatchesUp

(* A payment is what the user saw when he pressed the button: every        *)
(* callback that sets a field shows it (apply_ui_update, or the menu).     *)
(* Not so while another callback of the form is at work, or after edits    *)
(* that crossed or were refused.                                           *)
SentWasSeen == receipt # NoReceipt /\ receipt.alone => receipt.sent = receipt.saw

(* What the user is told is what the service did (_execute_transfer): who  *)
(* was paid, that only a part was, and where it swallows no refusal, that  *)
(* nobody was - unless fields changed during the call, or the message or   *)
(* the record of the payment was refused.                                  *)
ToldTheTruth ==
    receipt # NoReceipt /\ receipt.alone /\ ~receipt.mishap =>
        /\ receipt.paid = "all" => receipt.told = receipt.sent.payee
        /\ receipt.paid = "part" => receipt.told = "part"
        /\ receipt.paid = "nothing" /\ form \notin DepartmentForms => receipt.told = "failed"

(* A form sends what its user saw, and tells what came of it.              *)
FormIsHonest == SentWasSeen /\ ToldTheTruth

(* A payment reaches the screen of a panel that is open, if no refresh     *)
(* overlapped another, and nothing was lost or failed since.               *)
NewsReachesScreen ==
    []<>(bound => screen.facts = facts \/ excuse # {})
=============================================================================

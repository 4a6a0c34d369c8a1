------------------------------ MODULE Companies ------------------------------
(***************************************************************************)
(* Companies (CompanyService, fn_companies.sql) and the panel of their     *)
(* owner (commands/company.py).                                            *)
(*                                                                         *)
(* The handlers of a panel are coroutines over one object: they read its   *)
(* attributes again after every await, and other clicks run in between.    *)
(* A step is the code between two awaits of a handler.  Navigation waits   *)
(* only to show what it has done, so each click of it is one step.         *)
(* Discord's modals and the menus sent for a choice outlive the page they  *)
(* were opened from.  The name of a company only labels it.                *)
(***************************************************************************)
EXTENDS Integers, FiniteSets

CONSTANTS
    Licenses,  \* governance.business_licenses
    Holder,    \* Holder[l]: the user whom l was issued to
    Founded,   \* companies there are: records as in the table
    LastId,    \* last value that companies_id_seq has given
    Panels,    \* open company panels
    Author,    \* Author[v]: who opened v
    Callers,   \* submissions in progress at the same time, at most
    Amounts,   \* what may be entered as an amount
    Funds,     \* Funds[a]: opening balance of account a
    MaxCalls,  \* bound: submissions and presses of the transfer button
    MaxEnds    \* bound: licences that end

ASSUME CompaniesAssumption ==
    /\ IsFiniteSet(Licenses) /\ IsFiniteSet(Callers)
    /\ Amounts \subseteq Nat \ {0} /\ {MaxCalls, MaxEnds} \subseteq Nat
    /\ LastId \in Nat
    /\ \A c \in Founded : c.license \in Licenses /\ {c.id, c.account} \subseteq 1..LastId
    /\ \A c, d \in Founded : \/ c = d
                             \/ /\ c.license # d.license /\ c.id # d.id
                                /\ c.account # d.account /\ c.account # d.id
    /\ Funds \in [{c.account : c \in Founded} -> Nat]

VARIABLES
    active,    \* licences whose status is 'active'
    companies, \* governance.companies
    sequence,  \* last value of companies_id_seq
    balance,   \* balances of the accounts; a company's is known by its offset
    panel,     \* panel[v]: the attributes of CompanyPanelView
    at,        \* at[k]: where submission k stands
    call,      \* call[k]: what it was started with and has found out
    vetted,    \* vetted[v]: companies that the transfer button found valid
    spent,     \* payments made, a history
    told,      \* how submissions ended and what they had paid, a history
    slipped,   \* panels whose company was switched under a submission or a
               \* payee's menu, a history
    made       \* submissions so far

rows == <<active, companies, sequence, balance>>
history == <<vetted, spent, told, slipped>>
control == <<at, call>>
vars == <<rows, panel, control, history, made>>

None == 0
Outside == 0  \* the account of whoever is paid
Fresh == [page |-> "home", current |-> None, listed |-> {}, pending |-> {},
          menu |-> {}, naming |-> FALSE, paying |-> None]
NoCall == [kind |-> "none"]

\* fn_list_user_companies
Owned(v) == {c.id : c \in {d \in companies : Holder[d.license] = Author[v]}}
Company(id) == CHOOSE c \in companies : c.id = id
\* An account without a balance record has 0.
Balance(id) == LET a == Company(id).account IN IF a \in DOMAIN balance THEN balance[a] ELSE 0
Valid(id) == \E c \in companies : c.id = id /\ c.license \in active

Init ==
    /\ active = Licenses
    /\ companies = Founded
    /\ sequence = LastId
    /\ balance = [a \in DOMAIN Funds \cup {Outside} |-> IF a = Outside THEN 0 ELSE Funds[a]]
    /\ panel = [v \in Panels |-> [Fresh EXCEPT !.listed = Owned(v)]]
    /\ at = [k \in Callers |-> "idle"]
    /\ call = [k \in Callers |-> NoCall]
    /\ vetted = [v \in Panels |-> {}]
    /\ spent = {} /\ told = {} /\ slipped = {}
    /\ made = 0

-----------------------------------------------------------------------------
(* Panels and submissions *)

On(k) == call[k].on
Current(k) == panel[On(k)].current
Goto(k, step) == at' = [at EXCEPT ![k] = step]
Return(k) == Goto(k, "idle") /\ call' = [call EXCEPT ![k] = NoCall]
Running(v) == {k \in Callers : at[k] # "idle" /\ On(k) = v}

\* A click; it may switch the company under whatever else runs on the panel.
Click(v, new) ==
    /\ panel' = [panel EXCEPT ![v] = new]
    /\ slipped' = IF new.current # panel[v].current
                      /\ (Running(v) # {} \/ panel[v].paying # None)
                  THEN slipped \cup {v} ELSE slipped
    /\ UNCHANGED <<rows, control, vetted, spent, told, made>>

\* Callers are alike: a submission is any that is idle.
Begin(k, request, step) ==
    /\ at[k] = "idle" /\ k = (CHOOSE i \in Callers : at[i] = "idle")
    /\ made < MaxCalls /\ made' = made + 1
    /\ Goto(k, step)
    /\ call' = [call EXCEPT ![k] = request]

\* The owner is told how submission k ended.
Tell(k, outcome) ==
    told' = told \cup {[outcome |-> outcome, paid |-> call[k].paid, on |-> On(k)]}

-----------------------------------------------------------------------------
(* Navigation *)

select_company(v, id) ==
    /\ panel[v].page = "home" /\ id \in panel[v].listed
    /\ Click(v, [panel[v] EXCEPT !.page = "detail", !.current = id])

_on_back(v) ==
    /\ panel[v].page = "detail"
    /\ Click(v, [panel[v] EXCEPT !.page = "home", !.current = None, !.listed = Owned(v)])

_on_back_detail(v) ==
    /\ panel[v].page = "transfer"
    /\ Click(v, [panel[v] EXCEPT !.page = "detail"])

\* The menus for a licence and for a payee are messages of their own.
_on_create_company(v) ==
    LET free == {l \in active : Holder[l] = Author[v] /\ \A c \in companies : c.license # l}
    IN  /\ panel[v].page = "home" /\ free # {}
        /\ Click(v, [panel[v] EXCEPT !.menu = @ \cup free])

_on_license_select(v, l) ==
    /\ l \in panel[v].menu
    /\ Click(v, [panel[v] EXCEPT !.pending = {l}, !.naming = TRUE])

\* A payee is chosen from the members or from the departments
\* (_on_transfer_gov), and the form is opened for the company of the panel.
_on_transfer_user(v) ==
    /\ panel[v].page = "transfer" /\ panel[v].current # None
    /\ Click(v, [panel[v] EXCEPT !.paying = panel[v].current])

-----------------------------------------------------------------------------
(* The transfer button *)

Press(k, v) ==
    /\ panel[v].page = "detail" /\ panel[v].current # None
    /\ Begin(k, [kind |-> "press", on |-> v, paid |-> None, from |-> panel[v].current],
             "validate")
    /\ UNCHANGED <<rows, panel, history>>

\* Mutant of validate_company_operation: an invalid licence is only reported.
validate_and_go_on(k) ==
    /\ at[k] = "validate"
    /\ Goto(k, "turn")
    /\ vetted' = [vetted EXCEPT ![On(k)] =
                     IF Valid(call[k].from) THEN @ \cup {call[k].from} ELSE @]
    /\ UNCHANGED <<rows, panel, call, spent, told, slipped, made>>

validate_company_operation(k) ==
    /\ at[k] = "validate"
    /\ IF Valid(call[k].from)
       THEN /\ Goto(k, "turn") /\ UNCHANGED call
            /\ vetted' = [vetted EXCEPT ![On(k)] = @ \cup {call[k].from}]
       ELSE Return(k) /\ UNCHANGED vetted
    /\ UNCHANGED <<rows, panel, spent, told, slipped, made>>

\* The page is turned for the company that is current by now.
TurnPage(k) ==
    /\ at[k] = "turn"
    /\ panel' = [panel EXCEPT ![On(k)].page = "transfer"]
    /\ Return(k)
    /\ UNCHANGED <<rows, history, made>>

-----------------------------------------------------------------------------
(* CompanyTransferModal.on_submit *)

\* The modal does not say which company pays: the panel does, at each use.
StartTransfer(k, v, n) ==
    /\ panel[v].paying # None /\ panel[v].current # None
    /\ Begin(k, [kind |-> "transfer", on |-> v, paid |-> None, from |-> panel[v].current,
                 chosen |-> panel[v].paying, amount |-> n], "check")
    /\ UNCHANGED <<rows, panel, history>>

get_company_balance(k) ==
    /\ at[k] = "check"
    /\ IF call[k].amount > Balance(call[k].from)
       THEN Tell(k, "refused") /\ Return(k)
       ELSE Goto(k, "pay") /\ UNCHANGED <<call, told>>
    /\ UNCHANGED <<rows, panel, vetted, spent, slipped, made>>

Moved(from, n) == [balance EXCEPT ![from] = @ - n, ![Outside] = @ + n]

\* fn_transfer_currency refuses what the payer does not have, and may refuse
\* for a limit as well.  Without a current company the handler breaks off.
transfer_currency(k) ==
    /\ at[k] = "pay"
    /\ \/ /\ Current(k) = None
          /\ Tell(k, "failed") /\ Return(k)
          /\ UNCHANGED <<balance, spent>>
       \/ /\ Current(k) # None
          /\ Tell(k, "refused") /\ Return(k)
          /\ UNCHANGED <<balance, spent>>
       \/ /\ Current(k) # None
          /\ Balance(Current(k)) >= call[k].amount
          /\ balance' = Moved(Company(Current(k)).account, call[k].amount)
          /\ call' = [call EXCEPT ![k].paid = Current(k)]
          /\ spent' = spent \cup {[on |-> On(k), company |-> Current(k),
                                   chosen |-> call[k].chosen]}
          /\ Goto(k, "report") /\ UNCHANGED told
    /\ UNCHANGED <<active, companies, sequence, panel, vetted, slipped, made>>

\* The message names the company: without one it says that the transfer failed.
Report(k) ==
    /\ at[k] = "report"
    /\ Tell(k, IF Current(k) = None THEN "failed" ELSE "success")
    /\ Return(k)
    /\ UNCHANGED <<rows, panel, vetted, spent, slipped, made>>

-----------------------------------------------------------------------------
(* CompanyNameModal.on_submit and create_company *)

StartCreate(k, v) ==
    /\ panel[v].naming /\ panel[v].pending # {}
    /\ Begin(k, [kind |-> "create", on |-> v, paid |-> None, license |-> panel[v].pending,
                 account |-> None], "nextId")
    /\ panel' = [panel EXCEPT ![v].naming = FALSE]
    /\ UNCHANGED <<rows, history>>

next_company_id(k) ==
    /\ at[k] = "nextId"
    /\ sequence' = sequence + 1
    /\ call' = [call EXCEPT ![k].account = sequence + 1]
    /\ Goto(k, "insert")
    /\ UNCHANGED <<active, companies, balance, panel, history, made>>

Free(l) == l \in active /\ \A c \in companies : c.license # l

\* fn_create_company; the row's id is a second value of the same sequence, drawn
\* for a row that the unique constraint then refuses as well.
fn_create_company(k) ==
    /\ at[k] = "insert"
    /\ \E l \in call[k].license :
          IF Free(l)
          THEN /\ sequence' = sequence + 1
               /\ companies' = companies \cup
                     {[id |-> sequence + 1, license |-> l, account |-> call[k].account]}
               /\ Goto(k, "finish") /\ UNCHANGED <<call, told>>
          ELSE /\ UNCHANGED <<sequence, companies>>
               /\ Tell(k, "refused") /\ Return(k)
    /\ UNCHANGED <<active, balance, panel, vetted, spent, slipped, made>>

\* ensure_balance_record; then the panel goes home, with its list as it was.
FinishCreate(k) ==
    /\ at[k] = "finish"
    /\ balance' = [a \in DOMAIN balance \cup {call[k].account} |->
                      IF a \in DOMAIN balance THEN balance[a] ELSE 0]
    /\ panel' = [panel EXCEPT ![On(k)].pending = {}, ![On(k)].page = "home"]
    /\ Return(k)
    /\ UNCHANGED <<active, companies, sequence, history, made>>

-----------------------------------------------------------------------------
(* Licences end; the specification *)

\* A licence is revoked or expires (module Applications).
LicenseEnds(l) ==
    /\ l \in active /\ Cardinality(Licenses \ active) < MaxEnds
    /\ active' = active \ {l}
    /\ UNCHANGED <<companies, sequence, balance, panel, control, history, made>>

Step(k) ==
    \/ validate_company_operation(k) \/ TurnPage(k)
    \/ get_company_balance(k) \/ transfer_currency(k) \/ Report(k)
    \/ next_company_id(k) \/ fn_create_company(k) \/ FinishCreate(k)

Next ==
    \/ \E k \in Callers :
          \/ Step(k)
          \/ \E v \in Panels : Press(k, v) \/ StartCreate(k, v)
                              \/ \E n \in Amounts : StartTransfer(k, v, n)
    \/ \E v \in Panels :
          \/ _on_back(v) \/ _on_back_detail(v) \/ _on_create_company(v) \/ _on_transfer_user(v)
          \/ \E id \in panel[v].listed : select_company(v, id)
          \/ \E l \in Licenses : _on_license_select(v, l)
    \/ \E l \in Licenses : LicenseEnds(l)

Spec == Init /\ [][Next]_vars

-----------------------------------------------------------------------------
(* Properties *)

Steps == {"idle", "validate", "turn", "check", "pay", "report", "nextId", "insert", "finish"}
Ids == {c.id : c \in companies}

\* Types; no company is ever overdrawn, also when two submissions read the same
\* balance, or when the company was switched after its balance was read.
TypeOK ==
    /\ active \subseteq Licenses
    /\ \A c \in companies : c.license \in Licenses /\ {c.id, c.account} \subseteq 1..sequence
    /\ \A a \in DOMAIN balance : balance[a] \in Nat
    /\ \A v \in Panels : /\ panel[v].page \in {"home", "detail", "transfer"}
                         /\ panel[v].listed \cup {panel[v].current} \subseteq Ids \cup {None}
    /\ at \in [Callers -> Steps]

\* A licence carries one company at most, however often it is submitted.
OneCompanyPerLicense ==
    \A c, d \in companies : c.license = d.license => c = d

\* Ids and account numbers are drawn from one sequence by interleaved creations,
\* and the account of a company is not its id: still no account is that of two
\* companies, nor the one that another company's id would stand for.
NoAccountAliasing ==
    \A c, d \in companies : c # d => /\ c.account # d.account
                                     /\ c.account # d.id /\ c.id # d.id

\* Only its owner spends a company's money, whatever is clicked on a panel while
\* a payment is on its way.
OwnersSpend ==
    \A s \in spent : Holder[Company(s.company).license] = Author[s.on]

\* On a panel whose company is not switched while something is on its way, the
\* chosen company pays, and it has been found licensed before.
VettedCompaniesPay ==
    \A s \in spent : s.on \notin slipped => s.company = s.chosen /\ s.company \in vetted[s.on]

\* Nobody is told of a success that was none; and of a failure that was none
\* only if the panel's company was switched meanwhile.
ReportsAreTrue ==
    \A t \in told : /\ t.outcome = "success" => t.paid # None
                    /\ t.paid # None /\ t.on \notin slipped => t.outcome = "success"

\* Types, and companies, licences, accounts and payments agree, whatever is
\* clicked on the panel and submitted meanwhile.
CompaniesAreSound ==
    /\ TypeOK /\ OneCompanyPerLicense /\ NoAccountAliasing
    /\ OwnersSpend /\ VettedCompaniesPay /\ ReportsAreTrue

=============================================================================

----------------------------- MODULE MCDesks_proofs -----------------------------
(***************************************************************************)
(* The five desks, for any number of companies, suspects, proposals,       *)
(* payees and applications, and of those who work on them.  A theorem on   *)
(* the desks together follows from those on each: their steps do not meet. *)
(*                                                                         *)
(* First come the properties of orders, votes, payments and decisions,     *)
(* desk by desk; then what each screen shows, where the invariant says     *)
(* what a callback that works alone has read and drawn so far.             *)
(***************************************************************************)
EXTENDS MCDesks, TLAPS, FiniteSetTheorems, SequenceTheorems, WellFoundedInduction

-----------------------------------------------------------------------------
(* Each desk behaves as its module says *)

LEMMA Companies_ == MCSpec => Spec
<1>1. MCInit => Init
  BY DEF MCInit
<1>2. [MCNext]_desks => [Next]_vars
  BY DEF MCNext, desks, vars
<1> QED  BY <1>1, <1>2, PTL DEF MCSpec, Spec

LEMMA Suspects_ == MCSpec => S_!Spec
<1>1. MCInit => S_!Init
  BY DEF MCInit
<1>2. [MCNext]_desks => [S_!Next]_(S_!deskVars)
  BY DEF MCNext, desks, suspectDesk, S_!deskVars, S_!books, S_!state, S_!bounds
<1> QED  BY <1>1, <1>2, PTL DEF MCSpec, S_!Spec

LEMMA Voting_ == MCSpec => V_!Spec
<1>1. MCInit => V_!Init
  BY DEF MCInit
<1>2. [MCNext]_desks => [V_!Next]_(V_!votingVars)
  BY DEF MCNext, desks, votingDesk, V_!votingVars, V_!rows, V_!views, V_!histories
<1> QED  BY <1>1, <1>2, PTL DEF MCSpec, V_!Spec

LEMMA Personal_ == MCSpec => P_!Spec
<1>1. MCInit => P_!Init
  BY DEF MCInit
<1>2. [MCNext]_desks => [P_!Next]_(P_!personalVars)
  BY DEF MCNext, desks, personalDesk, P_!personalVars, P_!purseVars, P_!panelVars, P_!tellings
<1> QED  BY <1>1, <1>2, PTL DEF MCSpec, P_!Spec

LEMMA Interior_ == MCSpec => I_!Spec
<1>1. MCInit => I_!Init
  BY DEF MCInit
<1>2. [MCNext]_desks => [I_!Next]_(I_!interiorVars)
  BY DEF MCNext, desks, interiorDesk, I_!interiorVars, I_!applicationVars, I_!licenseVars
<1> QED  BY <1>1, <1>2, PTL DEF MCSpec, I_!Spec

-----------------------------------------------------------------------------
(* Companies *)

PanelRec == [page: {"home", "detail", "transfer"}, current: Nat, listed: SUBSET Nat,
             pending: SUBSET Licenses, menu: SUBSET Licenses, naming: BOOLEAN, paying: Nat]
Presses == [kind: {"press"}, on: Panels, paid: {None}, from: Nat]
Transfers == [kind: {"transfer"}, on: Panels, paid: Nat, from: Nat, chosen: Nat, amount: Nat \ {0}]
Creations == [kind: {"create"}, on: Panels, paid: {None}, license: SUBSET Licenses, account: Nat]

\* What the submission r has found out when it is at step s.
CallOk(s, r) ==
    /\ s \in {"validate", "turn"} => r \in Presses /\ r.from # None
    /\ s \in {"check", "pay", "report"} => r \in Transfers
    /\ s \in {"check", "pay"} => r.paid = None
    /\ s = "report" => r.paid # None
    /\ s \in {"nextId", "insert", "finish"} => r \in Creations

\* It still is about the current company, which was found valid among those in vs.
Unswitched(s, r, current, vs) ==
    /\ s \in {"validate", "turn"} => r.from = current
    /\ s = "turn" => r.from \in vs
    /\ s \in {"check", "pay"} => r.chosen = current /\ r.chosen \in vs
    /\ s = "report" => current # None

\* The author of v owns the company id.
Owns(v, id) == \E c \in companies : c.id = id /\ Holder[c.license] = Author[v]

RowsSound ==
    /\ active \subseteq Licenses /\ sequence \in Nat
    /\ \A c \in companies : /\ c.license \in Licenses
                            /\ c.id \in 1..sequence /\ c.account \in 1..sequence
    /\ OneCompanyPerLicense /\ NoAccountAliasing
BalanceSound == balance \in [DOMAIN balance -> Nat]
CallsSound ==
    /\ at \in [Callers -> Steps] /\ call = [k \in Callers |-> call[k]]
    /\ \A k \in Callers : CallOk(at[k], call[k])

\* An account that was drawn is not used yet, and nobody else has drawn it.
DrawnSound ==
    \A k \in Callers : at[k] = "insert" =>
        /\ call[k].account \in 1..sequence
        /\ \A c \in companies : c.account # call[k].account /\ c.id # call[k].account
        /\ \A j \in Callers : at[j] = "insert" /\ call[j].account = call[k].account => j = k

PanelsSound ==
    /\ panel \in [Panels -> PanelRec] /\ vetted \in [Panels -> SUBSET Nat]
    /\ \A v \in Panels : /\ \A id \in panel[v].listed : Owns(v, id)
                         /\ panel[v].current # None => Owns(v, panel[v].current)

\* On a panel that was not switched under a submission: the page of transfers, the
\* menu of payees and the submissions are about the current company.
PanelsSteady ==
    \A v \in Panels \ slipped :
        /\ panel[v].page = "transfer" => panel[v].current \in vetted[v]
        /\ panel[v].paying # None =>
              panel[v].paying = panel[v].current /\ panel[v].paying \in vetted[v]
CallsSteady ==
    \A k \in Callers :
        at[k] # "idle" /\ call[k].on \notin slipped =>
            Unswitched(at[k], call[k], panel[call[k].on].current, vetted[call[k].on])

SpentSound ==
    \A s \in spent :
        /\ s.on \in Panels /\ Owns(s.on, s.company)
        /\ s.on \notin slipped => s.company = s.chosen /\ s.company \in vetted[s.on]

CInv ==
    /\ RowsSound /\ BalanceSound /\ CallsSound /\ DrawnSound
    /\ PanelsSound /\ PanelsSteady /\ CallsSteady /\ SpentSound /\ ReportsAreTrue

LEMMA OwnsMore ==
    ASSUME companies \subseteq companies', NEW v, NEW id, Owns(v, id)
    PROVE  Owns(v, id)'
BY DEF Owns

\* A company is known by its id.
LEMMA Known ==
    ASSUME RowsSound, NEW v, NEW id, Owns(v, id)
    PROVE  /\ Company(id) \in companies /\ Company(id).id = id
           /\ Holder[Company(id).license] = Author[v]
           /\ id \in Ids /\ id \in Nat \ {0}
<1>1. PICK c \in companies : c.id = id /\ Holder[c.license] = Author[v]
  BY DEF Owns
<1>2. \A d \in companies : d.id = id => d = c
  BY <1>1 DEF RowsSound, NoAccountAliasing
<1>3. Company(id) = c
  BY <1>1, <1>2 DEF Company
<1> QED  BY <1>1, <1>3 DEF Ids, RowsSound

LEMMA OwnedAreOwn == \A v : \A id \in Owned(v) : Owns(v, id)
BY DEF Owned, Owns

LEMMA CInvAtFirst == Init => CInv
<1> SUFFICES ASSUME Init PROVE CInv
  OBVIOUS
<1>1. RowsSound
  BY CompaniesAssumption DEF Init, RowsSound, OneCompanyPerLicense, NoAccountAliasing
<1>2. BalanceSound
  <2>1. Funds \in [DOMAIN Funds -> Nat]
    BY CompaniesAssumption
  <2> QED  BY <2>1 DEF Init, BalanceSound
<1>3. CallsSound /\ DrawnSound /\ CallsSteady
  BY DEF Init, CallsSound, DrawnSound, CallsSteady, CallOk, Steps
<1>4. PanelsSound /\ PanelsSteady
  <2>1. ASSUME NEW v \in Panels
        PROVE  /\ panel[v] = [Fresh EXCEPT !.listed = Owned(v)] /\ panel[v] \in PanelRec
               /\ panel[v].listed = Owned(v) /\ panel[v].current = None
               /\ panel[v].page = "home" /\ panel[v].paying = None
    <3>1. Owned(v) \subseteq Nat
      BY <1>1 DEF Owned, RowsSound
    <3> QED  BY <3>1 DEF Init, Fresh, PanelRec, None
  <2>2. panel \in [Panels -> PanelRec]
    BY <2>1 DEF Init
  <2> QED  BY <2>1, <2>2, OwnedAreOwn DEF Init, PanelsSound, PanelsSteady
<1>5. SpentSound /\ ReportsAreTrue
  BY DEF Init, SpentSound, ReportsAreTrue
<1> QED  BY <1>1, <1>2, <1>3, <1>4, <1>5 DEF CInv

-----------------------------------------------------------------------------
(* Companies: a click *)

LEMMA ClickKeeps ==
    ASSUME CInv, NEW v \in Panels, NEW new \in PanelRec, Click(v, new),
           \A id \in new.listed : Owns(v, id),
           new.current # None => Owns(v, new.current),
           new.page = "transfer" => panel[v].page = "transfer" /\ new.current = panel[v].current,
           \/ new.paying = panel[v].paying
           \/ /\ panel[v].page = "transfer"
              /\ new.paying = panel[v].current /\ new.current = panel[v].current
    PROVE  CInv'
<1> USE DEF CInv
<1>1. /\ panel' \in [Panels -> PanelRec] /\ panel'[v] = new
      /\ \A w \in Panels \ {v} : panel'[w] = panel[w]
      /\ UNCHANGED <<rows, control, vetted, spent, told, made>>
      /\ slipped \subseteq slipped'
  BY DEF Click, PanelsSound
<1>2. new.current # panel[v].current /\ v \notin slipped' =>
          panel[v].paying = None /\ Running(v) = {}
  BY DEF Click
<1>3. UNCHANGED <<active, companies, sequence, balance, at, call>>
  BY <1>1 DEF rows, control
<1>4. RowsSound' /\ BalanceSound' /\ CallsSound' /\ DrawnSound'
  BY <1>3 DEF RowsSound, BalanceSound, CallsSound, DrawnSound, OneCompanyPerLicense,
              NoAccountAliasing
<1>5. \A w, id : Owns(w, id)' <=> Owns(w, id)
  BY <1>3 DEF Owns
<1>6. PanelsSound'
  BY <1>1, <1>5 DEF PanelsSound
<1>7. PanelsSteady'
  <2> SUFFICES ASSUME NEW w \in Panels \ slipped'
               PROVE  /\ panel'[w].page = "transfer" => panel'[w].current \in vetted[w]
                      /\ panel'[w].paying # None =>
                            panel'[w].paying = panel'[w].current /\ panel'[w].paying \in vetted[w]
    BY <1>1 DEF PanelsSteady
  <2>1. /\ panel[w].page = "transfer" => panel[w].current \in vetted[w]
        /\ panel[w].paying # None =>
              panel[w].paying = panel[w].current /\ panel[w].paying \in vetted[w]
    BY <1>1 DEF PanelsSteady
  <2>2. CASE w # v
    BY <1>1, <2>1, <2>2
  <2>3. CASE w = v
    BY <1>1, <1>2, <2>1, <2>3
  <2> QED  BY <2>2, <2>3
<1>8. CallsSteady'
  <2> SUFFICES ASSUME NEW k \in Callers, at[k] # "idle", call[k].on \notin slipped'
               PROVE  Unswitched(at[k], call[k], panel'[call[k].on].current, vetted[call[k].on])
    BY <1>1, <1>3 DEF CallsSteady
  <2>1. Unswitched(at[k], call[k], panel[call[k].on].current, vetted[call[k].on])
    BY <1>1 DEF CallsSteady
  <2>2. call[k].on \in Panels
    BY DEF CallsSound, CallOk, Steps, Presses, Transfers, Creations
  <2>3. panel'[call[k].on].current = panel[call[k].on].current
    BY <1>1, <1>2, <2>2 DEF Running, On
  <2> QED  BY <2>1, <2>3
<1>9. SpentSound' /\ ReportsAreTrue'
  BY <1>1, <1>5 DEF SpentSound, ReportsAreTrue
<1> QED  BY <1>4, <1>6, <1>7, <1>8, <1>9

LEMMA Navigated ==
    ASSUME CInv, NEW v \in Panels,
           \/ _on_back(v) \/ _on_back_detail(v) \/ _on_create_company(v) \/ _on_transfer_user(v)
           \/ \E id \in panel[v].listed : select_company(v, id)
           \/ \E l \in Licenses : _on_license_select(v, l)
    PROVE  CInv'
<1> PICK w : w = panel[v]
  OBVIOUS
<1>1. /\ w \in PanelRec /\ \A id \in w.listed : Owns(v, id)
      /\ w.current # None => Owns(v, w.current)
  BY DEF CInv, PanelsSound
<1>2. CASE _on_back(v)
  <2> PICK own : own = Owned(v)
    OBVIOUS
  <2>1. own \subseteq Nat /\ \A id \in own : Owns(v, id)
    BY OwnedAreOwn DEF CInv, RowsSound, Owned
  <2> PICK new : new = [w EXCEPT !.page = "home", !.current = None, !.listed = own]
    OBVIOUS
  <2>2. new \in PanelRec /\ new.page = "home" /\ new.current = None /\ new.listed = own
        /\ new.paying = w.paying
    BY <1>1, <2>1 DEF PanelRec, None
  <2>3. Click(v, new)
    BY <1>2 DEF _on_back
  <2> QED  BY <2>1, <2>2, <2>3, ClickKeeps
<1>3. CASE _on_back_detail(v)
  <2> PICK new : new = [w EXCEPT !.page = "detail"]
    OBVIOUS
  <2>2. new \in PanelRec /\ new.page = "detail" /\ new.current = w.current /\ new.listed = w.listed
        /\ new.paying = w.paying
    BY <1>1 DEF PanelRec
  <2>3. Click(v, new)
    BY <1>3 DEF _on_back_detail
  <2> QED  BY <1>1, <2>2, <2>3, ClickKeeps
<1>4. CASE _on_create_company(v)
  <2> PICK free : free = {l \in active : /\ Holder[l] = Author[v]
                                         /\ \A c \in companies : c.license # l}
    OBVIOUS
  <2> PICK new : new = [w EXCEPT !.menu = w.menu \cup free]
    OBVIOUS
  <2>1. free \subseteq Licenses
    BY DEF CInv, RowsSound
  <2>2. new \in PanelRec /\ new.page = w.page /\ new.current = w.current /\ new.listed = w.listed
        /\ new.paying = w.paying
    BY <1>1, <2>1 DEF PanelRec
  <2>3. Click(v, new)
    BY <1>4 DEF _on_create_company
  <2> QED  BY <1>1, <2>2, <2>3, ClickKeeps
<1>5. CASE _on_transfer_user(v)
  <2> PICK new : new = [w EXCEPT !.paying = w.current]
    OBVIOUS
  <2>2. new \in PanelRec /\ new.page = w.page /\ new.current = w.current /\ new.listed = w.listed
        /\ new.paying = w.current
    BY <1>1 DEF PanelRec
  <2>3. Click(v, new) /\ w.page = "transfer"
    BY <1>5 DEF _on_transfer_user
  <2> QED  BY <1>1, <2>2, <2>3, ClickKeeps
<1>6. ASSUME NEW id \in panel[v].listed, select_company(v, id) PROVE CInv'
  <2> PICK new : new = [w EXCEPT !.page = "detail", !.current = id]
    OBVIOUS
  <2>1. Owns(v, id) /\ id \in Nat
    BY <1>1, <1>6 DEF PanelRec
  <2>2. new \in PanelRec /\ new.page = "detail" /\ new.current = id /\ new.listed = w.listed
        /\ new.paying = w.paying
    BY <1>1, <2>1 DEF PanelRec
  <2>3. Click(v, new)
    BY <1>6 DEF select_company
  <2> QED  BY <1>1, <2>1, <2>2, <2>3, ClickKeeps
<1>7. ASSUME NEW l \in Licenses, _on_license_select(v, l) PROVE CInv'
  <2> PICK new : new = [w EXCEPT !.pending = {l}, !.naming = TRUE]
    OBVIOUS
  <2>2. new \in PanelRec /\ new.page = w.page /\ new.current = w.current /\ new.listed = w.listed
        /\ new.paying = w.paying
    BY <1>1, <1>7 DEF PanelRec
  <2>3. Click(v, new)
    BY <1>7 DEF _on_license_select
  <2> QED  BY <1>1, <2>2, <2>3, ClickKeeps
<1> QED  BY <1>2, <1>3, <1>4, <1>5, <1>6, <1>7

-----------------------------------------------------------------------------
(* Companies: a submission *)

\* k goes to step s and knows r; panels keep their companies, and a page of
\* transfers is turned for a company found valid.
LEMMA StepKeeps ==
    ASSUME CInv, NEW k \in Callers, NEW s \in Steps, NEW r, Goto(k, s),
           call' = [call EXCEPT ![k] = r] \/ (call' = call /\ r = call[k]),
           CallOk(s, r), UNCHANGED slipped, companies \subseteq companies',
           panel' \in [Panels -> PanelRec], vetted' \in [Panels -> SUBSET Nat],
           \A v \in Panels : /\ panel'[v].current = panel[v].current
                             /\ panel'[v].listed = panel[v].listed
                             /\ panel'[v].paying = panel[v].paying
                             /\ vetted[v] \subseteq vetted'[v],
           \A v \in Panels \ slipped :
               panel'[v].page = "transfer" =>
                   panel[v].page = "transfer" \/ panel[v].current \in vetted'[v],
           s # "idle" /\ r.on \notin slipped =>
               Unswitched(s, r, panel[r.on].current, vetted'[r.on])
    PROVE  /\ CallsSound' /\ PanelsSound' /\ PanelsSteady' /\ CallsSteady'
           /\ at'[k] = s /\ call'[k] = r
           /\ \A j \in Callers \ {k} : at'[j] = at[j] /\ call'[j] = call[j]
<1> USE DEF CInv
<1>1. /\ at' \in [Callers -> Steps] /\ at'[k] = s
      /\ call' = [j \in Callers |-> call'[j]] /\ call'[k] = r
      /\ \A j \in Callers \ {k} : at'[j] = at[j] /\ call'[j] = call[j]
  BY DEF CallsSound, Goto
<1>2. \A j \in Callers : CallOk(at'[j], call'[j])
  BY <1>1 DEF CallsSound
<1>3. CallsSound'
  BY <1>1, <1>2 DEF CallsSound
<1>4. PanelsSound'
  <2>1. \A v, id : Owns(v, id) => Owns(v, id)'
    BY OwnsMore
  <2> QED  BY <2>1 DEF PanelsSound
<1>5. PanelsSteady'
  BY DEF PanelsSteady
<1>6. ASSUME NEW t, NEW q, NEW id, NEW vs, NEW us, vs \subseteq us, Unswitched(t, q, id, vs)
      PROVE  Unswitched(t, q, id, us)
  BY <1>6 DEF Unswitched
<1>7. CallsSteady'
  <2> SUFFICES ASSUME NEW j \in Callers, at'[j] # "idle", call'[j].on \notin slipped
               PROVE  Unswitched(at'[j], call'[j], panel'[call'[j].on].current,
                                 vetted'[call'[j].on])
    BY DEF CallsSteady
  <2>1. call'[j].on \in Panels
    BY <1>2, <1>1 DEF CallOk, Steps, Presses, Transfers, Creations
  <2>2. CASE j = k
    BY <1>1, <2>1, <2>2
  <2>3. CASE j # k
    <3>1. at[j] = at'[j] /\ call[j] = call'[j]
      BY <1>1, <2>3
    <3>2. Unswitched(at[j], call[j], panel[call[j].on].current, vetted[call[j].on])
      BY <3>1 DEF CallsSteady
    <3> QED  BY <1>6, <2>1, <3>1, <3>2
  <2> QED  BY <2>2, <2>3
<1> QED  BY <1>1, <1>3, <1>4, <1>5, <1>7

\* The same, if nothing else changes.
LEMMA OnlyMoved ==
    ASSUME CInv, NEW k \in Callers, NEW s \in Steps \ {"insert"}, NEW r, Goto(k, s),
           call' = [call EXCEPT ![k] = r] \/ (call' = call /\ r = call[k]),
           CallOk(s, r), UNCHANGED <<active, companies, sequence, balance, panel, spent, slipped>>,
           vetted' \in [Panels -> SUBSET Nat],
           \A v \in Panels : vetted[v] \subseteq vetted'[v],
           s # "idle" /\ r.on \notin slipped =>
               Unswitched(s, r, panel[r.on].current, vetted'[r.on]),
           ReportsAreTrue'
    PROVE  CInv'
<1> USE DEF CInv
<1>1. /\ CallsSound' /\ PanelsSound' /\ PanelsSteady' /\ CallsSteady'
      /\ at'[k] = s /\ call'[k] = r
      /\ \A j \in Callers \ {k} : at'[j] = at[j] /\ call'[j] = call[j]
  <2>1. panel' \in [Panels -> PanelRec]
    BY DEF PanelsSound
  <2> QED  BY <2>1, StepKeeps
<1>2. RowsSound' /\ BalanceSound'
  BY DEF RowsSound, BalanceSound, OneCompanyPerLicense, NoAccountAliasing
<1>3. DrawnSound'
  BY <1>1 DEF DrawnSound
<1>4. SpentSound'
  <2>1. \A v, id : Owns(v, id) => Owns(v, id)'
    BY OwnsMore
  <2> QED  BY <2>1 DEF SpentSound, PanelsSound
<1> QED  BY <1>1, <1>2, <1>3, <1>4

LEMMA NoNews == CInv /\ UNCHANGED <<told, slipped>> => ReportsAreTrue'
BY DEF CInv, ReportsAreTrue

\* A submission that has not paid ends without success.
LEMMA EndsUnpaid ==
    ASSUME CInv, NEW k \in Callers, NEW outcome, outcome # "success",
           Tell(k, outcome), call[k].paid = None, UNCHANGED slipped
    PROVE  ReportsAreTrue'
BY DEF CInv, ReportsAreTrue, Tell

LEMMA Kinds ==
    ASSUME CInv, NEW k \in Callers
    PROVE  /\ CallOk(at[k], call[k])
           /\ at[k] # "idle" => On(k) \in Panels
           /\ at[k] # "idle" /\ On(k) \notin slipped =>
                 Unswitched(at[k], call[k], panel[On(k)].current, vetted[On(k)])
           /\ at[k] # "idle" /\ panel[On(k)].current # None => Owns(On(k), panel[On(k)].current)
<1>1. CallOk(at[k], call[k]) /\ at[k] \in Steps
  BY DEF CInv, CallsSound
<1>2. at[k] # "idle" => On(k) \in Panels
  BY <1>1 DEF On, CallOk, Steps, Presses, Transfers, Creations
<1> QED  BY <1>1, <1>2 DEF CInv, CallsSteady, PanelsSound, On

LEMMA PressedKeeps ==
    ASSUME CInv, NEW k \in Callers,
           \/ \E v \in Panels : Press(k, v)
           \/ validate_company_operation(k) \/ TurnPage(k)
    PROVE  CInv'
<1>0. vetted \in [Panels -> SUBSET Nat] /\ panel \in [Panels -> PanelRec]
  BY DEF CInv, PanelsSound
<1>1. ASSUME NEW v \in Panels, Press(k, v) PROVE CInv'
  <2> PICK r : r = [kind |-> "press", on |-> v, paid |-> None, from |-> panel[v].current]
    OBVIOUS
  <2>1. r \in Presses /\ r.from # None /\ r.on = v /\ r.from = panel[v].current
    BY <1>0, <1>1 DEF Press, Presses, PanelRec
  <2>2. CallOk("validate", r) /\ Unswitched("validate", r, panel[v].current, vetted'[v])
    BY <2>1 DEF CallOk, Unswitched
  <2>3. /\ Goto(k, "validate") /\ call' = [call EXCEPT ![k] = r]
        /\ UNCHANGED <<active, companies, sequence, balance, panel, spent, slipped, told, vetted>>
    BY <1>1 DEF Press, Begin, rows, history
  <2>4. ReportsAreTrue'
    BY <2>3, NoNews
  <2>5. "validate" \in Steps \ {"insert"}
    BY DEF Steps
  <2> QED  BY <1>0, <2>1, <2>2, <2>3, <2>4, <2>5, OnlyMoved
<1>2. CASE validate_company_operation(k)
  <2>1. /\ at[k] = "validate"
        /\ UNCHANGED <<active, companies, sequence, balance, panel, spent, slipped, told>>
    BY <1>2 DEF validate_company_operation, rows
  <2>2. ReportsAreTrue'
    BY <2>1, NoNews
  <2>3. call[k] \in Presses /\ call[k].from # None /\ On(k) \in Panels /\ call[k].from \in Nat
    BY <2>1, Kinds DEF CallOk, Presses
  <2>4. CASE Goto(k, "turn") /\ UNCHANGED call
             /\ vetted' = [vetted EXCEPT ![On(k)] = @ \cup {call[k].from}]
    <3>1. /\ vetted' \in [Panels -> SUBSET Nat] /\ call[k].from \in vetted'[On(k)]
          /\ \A v \in Panels : vetted[v] \subseteq vetted'[v]
      BY <1>0, <2>3, <2>4
    <3>2. CallOk("turn", call[k])
      BY <2>3 DEF CallOk
    <3>3. On(k) \notin slipped => Unswitched("turn", call[k], panel[On(k)].current, vetted'[On(k)])
      BY <2>1, <3>1, Kinds DEF Unswitched
    <3>4. "turn" \in Steps \ {"insert"}
      BY DEF Steps
    <3> QED  BY <2>1, <2>2, <2>4, <3>1, <3>2, <3>3, <3>4, OnlyMoved DEF On
  <2>5. CASE Return(k) /\ UNCHANGED vetted
    <3>1. /\ Goto(k, "idle") /\ call' = [call EXCEPT ![k] = NoCall] /\ CallOk("idle", NoCall)
          /\ "idle" \in Steps \ {"insert"}
      BY <2>5 DEF Return, CallOk, Steps
    <3> QED  BY <1>0, <2>1, <2>2, <2>5, <3>1, OnlyMoved
  <2> QED  BY <1>2, <2>4, <2>5 DEF validate_company_operation
<1>3. CASE TurnPage(k)
  <2> PICK v : v = On(k)
    OBVIOUS
  <2>1. /\ at[k] = "turn" /\ panel' = [panel EXCEPT ![v].page = "transfer"]
        /\ Goto(k, "idle") /\ call' = [call EXCEPT ![k] = NoCall] /\ CallOk("idle", NoCall)
        /\ "idle" \in Steps
        /\ UNCHANGED <<active, companies, sequence, balance, spent, slipped, told, vetted>>
    BY <1>3 DEF TurnPage, rows, history, Return, CallOk, Steps
  <2>2. v \in Panels /\ (v \notin slipped => panel[v].current \in vetted[v])
    BY <2>1, Kinds DEF Unswitched
  <2>3. /\ panel' \in [Panels -> PanelRec]
        /\ \A w \in Panels : /\ panel'[w].current = panel[w].current
                             /\ panel'[w].listed = panel[w].listed
                             /\ panel'[w].paying = panel[w].paying
                             /\ w # v => panel'[w] = panel[w]
    BY <1>0, <2>1, <2>2 DEF PanelRec
  <2>a. \A w \in Panels \ slipped :
           panel'[w].page = "transfer" =>
               panel[w].page = "transfer" \/ panel[w].current \in vetted'[w]
    BY <2>1, <2>2, <2>3
  <2>b. vetted' \in [Panels -> SUBSET Nat] /\ \A w \in Panels : vetted[w] \subseteq vetted'[w]
    BY <1>0, <2>1
  <2>c. UNCHANGED slipped /\ companies \subseteq companies'
    BY <2>1
  <2>4. /\ CallsSound' /\ PanelsSound' /\ PanelsSteady' /\ CallsSteady' /\ at'[k] = "idle"
        /\ \A j \in Callers \ {k} : at'[j] = at[j] /\ call'[j] = call[j]
    BY <2>1, <2>3, <2>a, <2>b, <2>c, StepKeeps
  <2>5. RowsSound' /\ BalanceSound' /\ SpentSound' /\ ReportsAreTrue'
    BY <2>1 DEF CInv, RowsSound, BalanceSound, OneCompanyPerLicense, NoAccountAliasing,
                SpentSound, Owns, ReportsAreTrue
  <2>6. DrawnSound'
    BY <2>1, <2>4 DEF CInv, DrawnSound
  <2> QED  BY <2>4, <2>5, <2>6 DEF CInv
<1> QED  BY <1>1, <1>2, <1>3

LEMMA PayingKeeps ==
    ASSUME CInv, NEW k \in Callers,
           \/ \E v \in Panels, n \in Amounts : StartTransfer(k, v, n)
           \/ get_company_balance(k) \/ transfer_currency(k) \/ Report(k)
    PROVE  CInv'
<1>0. vetted \in [Panels -> SUBSET Nat] /\ panel \in [Panels -> PanelRec]
  BY DEF CInv, PanelsSound
<1>1. ASSUME NEW v \in Panels, NEW n \in Amounts, StartTransfer(k, v, n) PROVE CInv'
  <2> PICK r : r = [kind |-> "transfer", on |-> v, paid |-> None, from |-> panel[v].current,
                    chosen |-> panel[v].paying, amount |-> n]
    OBVIOUS
  <2>1. r \in Transfers /\ r.paid = None /\ r.on = v /\ r.chosen = panel[v].paying
    BY <1>0, CompaniesAssumption DEF Transfers, PanelRec, None
  <2>2. /\ Goto(k, "check") /\ call' = [call EXCEPT ![k] = r] /\ panel[v].paying # None
        /\ UNCHANGED <<active, companies, sequence, balance, panel, spent, slipped, told, vetted>>
    BY <1>1 DEF StartTransfer, Begin, rows, history
  <2>3. CallOk("check", r)
    BY <2>1 DEF CallOk
  <2>4. v \notin slipped => Unswitched("check", r, panel[v].current, vetted'[v])
    BY <2>1, <2>2 DEF Unswitched, CInv, PanelsSteady
  <2>5. ReportsAreTrue' /\ "check" \in Steps \ {"insert"}
    BY <2>2, NoNews DEF Steps
  <2> QED  BY <1>0, <2>1, <2>2, <2>3, <2>4, <2>5, OnlyMoved
<1>2. ASSUME at[k] \in {"check", "pay"} PROVE call[k] \in Transfers /\ call[k].paid = None
  BY <1>2, Kinds DEF CallOk
<1>3. ASSUME at[k] \in {"check", "pay"}, Tell(k, "refused") \/ Tell(k, "failed"), Return(k),
             UNCHANGED <<active, companies, sequence, balance, panel, spent, slipped, vetted>>
      PROVE  CInv'
  <2>1. /\ Goto(k, "idle") /\ call' = [call EXCEPT ![k] = NoCall] /\ CallOk("idle", NoCall)
        /\ "idle" \in Steps \ {"insert"}
    BY <1>3 DEF Return, CallOk, Steps
  <2>2. ReportsAreTrue'
    BY <1>2, <1>3, EndsUnpaid
  <2> QED  BY <1>0, <1>3, <2>1, <2>2, OnlyMoved
<1>4. CASE get_company_balance(k)
  <2>1. /\ at[k] = "check"
        /\ UNCHANGED <<active, companies, sequence, balance, panel, spent, slipped, vetted>>
    BY <1>4 DEF get_company_balance, rows
  <2>2. CASE Tell(k, "refused") /\ Return(k)
    BY <1>3, <2>1, <2>2
  <2>3. CASE Goto(k, "pay") /\ UNCHANGED <<call, told>>
    <3>1. CallOk("pay", call[k]) /\ "pay" \in Steps \ {"insert"}
      BY <1>2, <2>1 DEF CallOk, Steps
    <3>2. On(k) \notin slipped => Unswitched("pay", call[k], panel[On(k)].current, vetted'[On(k)])
      BY <2>1, Kinds DEF Unswitched
    <3>3. ReportsAreTrue'
      BY <2>1, <2>3, NoNews
    <3> QED  BY <1>0, <2>1, <2>3, <3>1, <3>2, <3>3, OnlyMoved DEF On
  <2> QED  BY <1>4, <2>2, <2>3 DEF get_company_balance
<1>5. CASE Report(k)
  <2>1. /\ at[k] = "report" /\ Goto(k, "idle") /\ call' = [call EXCEPT ![k] = NoCall]
        /\ CallOk("idle", NoCall) /\ "idle" \in Steps \ {"insert"}
        /\ UNCHANGED <<active, companies, sequence, balance, panel, spent, slipped, vetted>>
    BY <1>5 DEF Report, rows, Return, CallOk, Steps
  <2>2. call[k].paid # None /\ (On(k) \notin slipped => panel[On(k)].current # None)
    BY <2>1, Kinds DEF CallOk, Unswitched
  <2> PICK outcome : outcome = IF Current(k) = None THEN "failed" ELSE "success"
    OBVIOUS
  <2> PICK t : t = [outcome |-> outcome, paid |-> call[k].paid, on |-> On(k)]
    OBVIOUS
  <2>3. /\ told' = told \cup {t} /\ t.paid = call[k].paid /\ t.on = On(k)
        /\ panel[On(k)].current # None => t.outcome = "success"
    BY <1>5 DEF Report, Tell, Current
  <2>4. ReportsAreTrue'
    BY <2>1, <2>2, <2>3 DEF CInv, ReportsAreTrue
  <2> QED  BY <1>0, <2>1, <2>4, OnlyMoved
<1>6. CASE transfer_currency(k)
  <2>1. /\ at[k] = "pay"
        /\ UNCHANGED <<active, companies, sequence, panel, slipped, vetted>>
    BY <1>6 DEF transfer_currency
  <2>2. CASE (Tell(k, "refused") \/ Tell(k, "failed")) /\ Return(k) /\ UNCHANGED <<balance, spent>>
    BY <1>3, <2>1, <2>2
  <2>3. CASE /\ Current(k) # None
             /\ Balance(Current(k)) >= call[k].amount
             /\ balance' = Moved(Company(Current(k)).account, call[k].amount)
             /\ call' = [call EXCEPT ![k].paid = Current(k)]
             /\ spent' = spent \cup {[on |-> On(k), company |-> Current(k),
                                      chosen |-> call[k].chosen]}
             /\ Goto(k, "report") /\ UNCHANGED told
    <3> PICK v, id, a, n : /\ v = On(k) /\ id = Current(k) /\ n = call[k].amount
                           /\ a = Company(id).account
      OBVIOUS
    <3>1. /\ v \in Panels /\ id = panel[v].current /\ Owns(v, id) /\ call[k] \in Transfers
          /\ n \in Nat \ {0} /\ id \in Nat \ {0}
      <4>1. v \in Panels /\ id = panel[v].current /\ Owns(v, id) /\ call[k] \in Transfers
        BY <1>2, <2>1, <2>3, Kinds DEF Current
      <4>2. id \in Nat \ {0}
        BY <4>1, Known DEF CInv
      <4> QED  BY <4>1, <4>2 DEF Transfers
    <3> PICK r : r = [call[k] EXCEPT !.paid = id]
      OBVIOUS
    <3>2. r \in Transfers /\ r.paid = id /\ r.on = v /\ call' = [call EXCEPT ![k] = r]
      BY <2>3, <3>1 DEF Transfers, On
    <3>3. CallOk("report", r) /\ "report" \in Steps
      BY <3>1, <3>2 DEF CallOk, Steps, None
    <3>4. Unswitched("report", r, panel[v].current, vetted'[v])
      BY <2>3, <3>1 DEF Unswitched
    <3>5. /\ CallsSound' /\ PanelsSound' /\ PanelsSteady' /\ CallsSteady' /\ at'[k] = "report"
          /\ \A j \in Callers \ {k} : at'[j] = at[j] /\ call'[j] = call[j]
      BY <1>0, <2>1, <2>3, <3>2, <3>3, <3>4, StepKeeps
    <3>6. RowsSound' /\ DrawnSound' /\ ReportsAreTrue'
      BY <2>1, <2>3, <3>5 DEF CInv, RowsSound, OneCompanyPerLicense, NoAccountAliasing,
                              DrawnSound, ReportsAreTrue
    <3>7. BalanceSound'
      <4> PICK D : D = DOMAIN balance
        OBVIOUS
      <4>1. balance \in [D -> Nat]
        BY DEF CInv, BalanceSound
      <4>2. a \in D /\ balance[a] >= n /\ balance[a] \in Nat
        BY <2>3, <3>1, <4>1 DEF Balance
      <4>3. balance' = [balance EXCEPT ![a] = @ - n, ![Outside] = @ + n]
        BY <2>3 DEF Moved
      <4>6. a # Outside
        BY <3>1, Known DEF CInv, RowsSound, Outside
      <4>7. balance' = [x \in D |-> IF x = Outside THEN balance[x] + n
                                    ELSE IF x = a THEN balance[x] - n ELSE balance[x]]
        BY <4>1, <4>3, <4>6
      <4>8. \A x \in D : balance[x] \in Nat /\ balance[x] + n \in Nat
        BY <3>1, <4>1
      <4>9. balance[a] - n \in Nat
        BY <3>1, <4>2
      <4>4. balance' \in [D -> Nat]
        BY <4>7, <4>8, <4>9
      <4>5. DOMAIN balance' = D
        BY <4>4
      <4> QED  BY <4>4, <4>5 DEF BalanceSound
    <3>8. SpentSound'
      <4> PICK p : p = [on |-> v, company |-> id, chosen |-> call[k].chosen]
        OBVIOUS
      <4>1. p.on = v /\ p.company = id /\ p.chosen = call[k].chosen /\ spent' = spent \cup {p}
        BY <2>3
      <4>2. v \notin slipped => call[k].chosen = id /\ id \in vetted[v]
        BY <2>1, <3>1, Kinds DEF Unswitched
      <4>3. \A w, i : Owns(w, i)' <=> Owns(w, i)
        BY <2>1 DEF Owns
      <4> QED  BY <2>1, <3>1, <4>1, <4>2, <4>3 DEF CInv, SpentSound
    <3> QED  BY <3>5, <3>6, <3>7, <3>8 DEF CInv
  <2> QED  BY <1>6, <2>2, <2>3 DEF transfer_currency
<1> QED  BY <1>1, <1>4, <1>5, <1>6

-----------------------------------------------------------------------------
(* Companies: founding one *)

LEMMA DrawingKeeps ==
    ASSUME CInv, NEW k \in Callers,
           (\E v \in Panels : StartCreate(k, v)) \/ next_company_id(k)
    PROVE  CInv'
<1>0. vetted \in [Panels -> SUBSET Nat] /\ panel \in [Panels -> PanelRec]
  BY DEF CInv, PanelsSound
<1>1. ASSUME NEW v \in Panels, StartCreate(k, v) PROVE CInv'
  <2> PICK r : r = [kind |-> "create", on |-> v, paid |-> None, license |-> panel[v].pending,
                    account |-> None]
    OBVIOUS
  <2>1. r \in Creations /\ r.on = v
    BY <1>0 DEF Creations, PanelRec, None
  <2>2. /\ Goto(k, "nextId") /\ call' = [call EXCEPT ![k] = r]
        /\ panel' = [panel EXCEPT ![v].naming = FALSE]
        /\ UNCHANGED <<active, companies, sequence, balance, spent, slipped, told, vetted>>
    BY <1>1 DEF StartCreate, Begin, rows, history
  <2>3. CallOk("nextId", r) /\ Unswitched("nextId", r, panel[v].current, vetted'[v])
    BY <2>1 DEF CallOk, Unswitched
  <2>4. /\ panel' \in [Panels -> PanelRec]
        /\ \A w \in Panels : /\ panel'[w].current = panel[w].current
                             /\ panel'[w].listed = panel[w].listed
                             /\ panel'[w].paying = panel[w].paying
                             /\ panel'[w].page = panel[w].page
    BY <1>0, <2>2 DEF PanelRec
  <2>5. "nextId" \in Steps
    BY DEF Steps
  <2>6. /\ CallsSound' /\ PanelsSound' /\ PanelsSteady' /\ CallsSteady' /\ at'[k] = "nextId"
        /\ \A j \in Callers \ {k} : at'[j] = at[j] /\ call'[j] = call[j]
    BY <1>0, <2>1, <2>2, <2>3, <2>4, <2>5, StepKeeps
  <2>7. RowsSound' /\ BalanceSound' /\ SpentSound' /\ ReportsAreTrue'
    BY <2>2 DEF CInv, RowsSound, BalanceSound, OneCompanyPerLicense, NoAccountAliasing,
                SpentSound, Owns, ReportsAreTrue
  <2>8. DrawnSound'
    BY <2>2, <2>6 DEF CInv, DrawnSound
  <2> QED  BY <2>6, <2>7, <2>8 DEF CInv
<1>2. CASE next_company_id(k)
  <2> PICK n : n = sequence + 1
    OBVIOUS
  <2> PICK r : r = [call[k] EXCEPT !.account = n]
    OBVIOUS
  <2>1. /\ at[k] = "nextId" /\ Goto(k, "insert") /\ call' = [call EXCEPT ![k] = r]
        /\ sequence' = n
        /\ UNCHANGED <<active, companies, balance, panel, spent, slipped, told, vetted>>
    BY <1>2 DEF next_company_id, history
  <2>2. sequence \in Nat /\ n \in Nat /\ n > sequence /\ n \in 1..n
    BY DEF CInv, RowsSound
  <2>3. r \in Creations /\ r.on = On(k) /\ r.account = n
    <3>1. call[k] \in Creations
      BY <2>1, Kinds DEF CallOk
    <3> QED  BY <2>2, <3>1 DEF Creations, On
  <2>4. CallOk("insert", r) /\ Unswitched("insert", r, panel[r.on].current, vetted'[r.on])
    BY <2>3 DEF CallOk, Unswitched
  <2>5. "insert" \in Steps
    BY DEF Steps
  <2>6. /\ CallsSound' /\ PanelsSound' /\ PanelsSteady' /\ CallsSteady'
        /\ at'[k] = "insert" /\ call'[k] = r
        /\ \A j \in Callers \ {k} : at'[j] = at[j] /\ call'[j] = call[j]
    BY <1>0, <2>1, <2>4, <2>5, StepKeeps
  <2>7. 1..sequence \subseteq 1..n /\ n \notin 1..sequence
    BY <2>2
  <2>8. RowsSound'
    BY <2>1, <2>2, <2>7 DEF CInv, RowsSound, OneCompanyPerLicense, NoAccountAliasing
  <2>9. BalanceSound' /\ SpentSound' /\ ReportsAreTrue'
    BY <2>1 DEF CInv, BalanceSound, SpentSound, Owns, ReportsAreTrue
  <2>10. DrawnSound'
    <3>1. \A c \in companies : c.account # n /\ c.id # n
      BY <2>7 DEF CInv, RowsSound
    <3>2. ASSUME NEW j \in Callers \ {k}, at[j] = "insert"
          PROVE  /\ call[j].account \in 1..sequence /\ call[j].account # n
                 /\ \A c \in companies : c.account # call[j].account /\ c.id # call[j].account
                 /\ \A i \in Callers : at[i] = "insert" /\ call[i].account = call[j].account
                                       => i = j
      BY <2>7, <3>2 DEF CInv, DrawnSound
    <3> SUFFICES ASSUME NEW j \in Callers, at'[j] = "insert"
                 PROVE  /\ call'[j].account \in 1..n
                        /\ \A c \in companies : /\ c.account # call'[j].account
                                                /\ c.id # call'[j].account
                        /\ \A i \in Callers : at'[i] = "insert"
                               /\ call'[i].account = call'[j].account => i = j
      BY <2>1 DEF DrawnSound
    <3>3. CASE j = k
      <4>1. ASSUME NEW i \in Callers \ {k}, at'[i] = "insert" PROVE call'[i].account # n
        BY <2>6, <3>2, <4>1
      <4> QED  BY <2>2, <2>3, <2>6, <3>1, <3>3, <4>1
    <3>4. CASE j # k
      <4>1. at[j] = "insert" /\ call'[j] = call[j]
        BY <2>6, <3>4
      <4>2. /\ call[j].account \in 1..sequence /\ call[j].account # n
            /\ \A c \in companies : c.account # call[j].account /\ c.id # call[j].account
            /\ \A i \in Callers : at[i] = "insert" /\ call[i].account = call[j].account => i = j
        BY <3>2, <3>4, <4>1
      <4>3. ASSUME NEW i \in Callers, at'[i] = "insert", call'[i].account = call'[j].account
            PROVE  i = j
        <5>1. CASE i = k
          BY <2>3, <2>6, <4>1, <4>2, <4>3, <5>1
        <5>2. CASE i # k
          BY <2>6, <4>1, <4>2, <4>3, <5>2
        <5> QED  BY <5>1, <5>2
      <4> QED  BY <2>7, <4>1, <4>2, <4>3
    <3> QED  BY <3>3, <3>4
  <2> QED  BY <2>6, <2>8, <2>9, <2>10 DEF CInv
<1> QED  BY <1>1, <1>2

LEMMA FoundingKeeps ==
    ASSUME CInv, NEW k \in Callers, fn_create_company(k) \/ FinishCreate(k)
    PROVE  CInv'
<1>0. vetted \in [Panels -> SUBSET Nat] /\ panel \in [Panels -> PanelRec]
  BY DEF CInv, PanelsSound
<1>1. CASE fn_create_company(k)
  <2>1. /\ at[k] = "insert"
        /\ UNCHANGED <<active, balance, panel, vetted, spent, slipped>>
    BY <1>1 DEF fn_create_company
  <2>2. call[k] \in Creations /\ On(k) \in Panels /\ call[k].paid = None
    BY <2>1, Kinds DEF CallOk, Creations, None
  <2> PICK l \in call[k].license :
          \/ /\ Free(l)
             /\ sequence' = sequence + 1
             /\ companies' = companies \cup
                   {[id |-> sequence + 1, license |-> l, account |-> call[k].account]}
             /\ Goto(k, "finish") /\ UNCHANGED <<call, told>>
          \/ /\ UNCHANGED <<sequence, companies>>
             /\ Tell(k, "refused") /\ Return(k)
    BY <1>1 DEF fn_create_company
  <2>3. CASE /\ UNCHANGED <<sequence, companies>>
             /\ Tell(k, "refused") /\ Return(k)
    <3>1. /\ Goto(k, "idle") /\ call' = [call EXCEPT ![k] = NoCall] /\ CallOk("idle", NoCall)
          /\ "idle" \in Steps \ {"insert"}
      BY <2>3 DEF Return, CallOk, Steps
    <3>2. ReportsAreTrue'
      BY <2>1, <2>2, <2>3, EndsUnpaid
    <3> QED  BY <1>0, <2>1, <2>3, <3>1, <3>2, OnlyMoved
  <2>4. CASE /\ Free(l)
             /\ sequence' = sequence + 1
             /\ companies' = companies \cup
                   {[id |-> sequence + 1, license |-> l, account |-> call[k].account]}
             /\ Goto(k, "finish") /\ UNCHANGED <<call, told>>
    <3> PICK n, a : n = sequence + 1 /\ a = call[k].account
      OBVIOUS
    <3> PICK d : d = [id |-> n, license |-> l, account |-> a]
      OBVIOUS
    <3>1. /\ d.id = n /\ d.license = l /\ d.account = a
          /\ companies' = companies \cup {d} /\ sequence' = n
      BY <2>4
    <3>2. /\ sequence \in Nat /\ n \in Nat /\ n \in 1..n /\ n \notin 1..sequence
          /\ 1..sequence \subseteq 1..n
      BY DEF CInv, RowsSound
    <3>3. /\ a \in 1..sequence /\ a # n
          /\ \A c \in companies : c.account # a /\ c.id # a
          /\ \A j \in Callers : at[j] = "insert" /\ call[j].account = a => j = k
      BY <2>1, <3>2 DEF CInv, DrawnSound
    <3>4. l \in Licenses /\ \A c \in companies : c.license # l
      BY <2>4 DEF Free, CInv, RowsSound
    <3>5. \A c \in companies : c.id \in 1..sequence /\ c.account \in 1..sequence /\ c.id # n
                               /\ c.account # n
      BY <3>2 DEF CInv, RowsSound
    <3>6. RowsSound'
      <4>1. OneCompanyPerLicense'
        BY <3>1, <3>4 DEF CInv, RowsSound, OneCompanyPerLicense
      <4>2. NoAccountAliasing'
        BY <3>1, <3>3, <3>5 DEF CInv, RowsSound, NoAccountAliasing
      <4>3. \A c \in companies' : c.license \in Licenses /\ c.id \in 1..n /\ c.account \in 1..n
        BY <3>1, <3>2, <3>3, <3>4, <3>5 DEF CInv, RowsSound
      <4> QED  BY <2>1, <3>1, <3>2, <4>1, <4>2, <4>3 DEF CInv, RowsSound
    <3>7. CallOk("finish", call[k]) /\ "finish" \in Steps
      BY <2>2 DEF CallOk, Steps
    <3>8. \A i, vs : Unswitched("finish", call[k], i, vs)
      BY DEF Unswitched
    <3>9. /\ CallsSound' /\ PanelsSound' /\ PanelsSteady' /\ CallsSteady' /\ at'[k] = "finish"
          /\ \A j \in Callers \ {k} : at'[j] = at[j] /\ call'[j] = call[j]
      BY <1>0, <2>1, <2>4, <3>1, <3>7, <3>8, StepKeeps
    <3>10. DrawnSound'
      <4> SUFFICES ASSUME NEW j \in Callers, at'[j] = "insert"
                   PROVE  /\ call'[j].account \in 1..n
                          /\ \A c \in companies' : /\ c.account # call'[j].account
                                                   /\ c.id # call'[j].account
                          /\ \A i \in Callers : at'[i] = "insert"
                                 /\ call'[i].account = call'[j].account => i = j
        BY <3>1 DEF DrawnSound
      <4>1. j # k /\ at[j] = "insert" /\ call'[j] = call[j] /\ call[j].account # a
        BY <3>3, <3>9
      <4>2. /\ call[j].account \in 1..sequence
            /\ \A c \in companies : c.account # call[j].account /\ c.id # call[j].account
            /\ \A i \in Callers : at[i] = "insert" /\ call[i].account = call[j].account => i = j
        BY <4>1 DEF CInv, DrawnSound
      <4>3. call[j].account # n
        BY <3>2, <4>2
      <4>4. ASSUME NEW i \in Callers, at'[i] = "insert", call'[i].account = call'[j].account
            PROVE  i = j
        <5>1. i # k
          BY <3>9, <4>4
        <5> QED  BY <3>9, <4>1, <4>2, <4>4, <5>1
      <4> QED  BY <3>1, <3>2, <4>1, <4>2, <4>3, <4>4
    <3>11. BalanceSound' /\ ReportsAreTrue'
      BY <2>1, <2>4 DEF CInv, BalanceSound, ReportsAreTrue
    <3>12. SpentSound'
      <4>1. \A w, i : Owns(w, i) => Owns(w, i)'
        BY <3>1, OwnsMore
      <4> QED  BY <2>1, <4>1 DEF CInv, SpentSound
    <3> QED  BY <3>6, <3>9, <3>10, <3>11, <3>12 DEF CInv
  <2> QED  BY <2>3, <2>4
<1>2. CASE FinishCreate(k)
  <2> PICK v, a : v = On(k) /\ a = call[k].account
    OBVIOUS
  <2> PICK D, w : D = DOMAIN balance /\ w = panel[v]
    OBVIOUS
  <2> PICK new : new = [w EXCEPT !.pending = {}, !.page = "home"]
    OBVIOUS
  <2>1. /\ at[k] = "finish"
        /\ balance' = [b \in D \cup {a} |-> IF b \in D THEN balance[b] ELSE 0]
        /\ panel' = [panel EXCEPT ![v] = new]
        /\ Goto(k, "idle") /\ call' = [call EXCEPT ![k] = NoCall] /\ CallOk("idle", NoCall)
        /\ "idle" \in Steps
        /\ UNCHANGED <<active, companies, sequence, spent, slipped, told, vetted>>
    BY <1>0, <1>2 DEF FinishCreate, history, Return, CallOk, Steps
  <2>2. v \in Panels
    BY <2>1, Kinds
  <2>3. new \in PanelRec /\ new.current = w.current /\ new.listed = w.listed
        /\ new.paying = w.paying /\ new.page = "home"
    BY <1>0, <2>2 DEF PanelRec
  <2>4. /\ panel' \in [Panels -> PanelRec]
        /\ \A x \in Panels : /\ panel'[x].current = panel[x].current
                             /\ panel'[x].listed = panel[x].listed
                             /\ panel'[x].paying = panel[x].paying
                             /\ panel'[x].page = "transfer" => panel[x].page = "transfer"
    BY <1>0, <2>1, <2>2, <2>3
  <2>5. /\ CallsSound' /\ PanelsSound' /\ PanelsSteady' /\ CallsSteady' /\ at'[k] = "idle"
        /\ \A j \in Callers \ {k} : at'[j] = at[j] /\ call'[j] = call[j]
    BY <1>0, <2>1, <2>4, StepKeeps
  <2>6. RowsSound' /\ SpentSound' /\ ReportsAreTrue'
    BY <2>1 DEF CInv, RowsSound, OneCompanyPerLicense, NoAccountAliasing, SpentSound, Owns,
                ReportsAreTrue
  <2>7. DrawnSound'
    BY <2>1, <2>5 DEF CInv, DrawnSound
  <2>8. BalanceSound'
    <3> PICK E : E = D \cup {a}
      OBVIOUS
    <3>1. balance \in [D -> Nat]
      BY DEF CInv, BalanceSound
    <3>2. balance' \in [E -> Nat] /\ DOMAIN balance' = E
      BY <2>1, <3>1
    <3> QED  BY <3>2 DEF BalanceSound
  <2> QED  BY <2>5, <2>6, <2>7, <2>8 DEF CInv
<1> QED  BY <1>1, <1>2

-----------------------------------------------------------------------------
(* Companies are sound *)

LEMMA CInvKept == CInv /\ [Next]_vars => CInv'
<1> SUFFICES ASSUME CInv, [Next]_vars PROVE CInv'
  OBVIOUS
<1>1. CASE UNCHANGED vars
  BY <1>1 DEF vars, rows, control, history, CInv, RowsSound, BalanceSound, CallsSound, DrawnSound,
     PanelsSound, PanelsSteady, CallsSteady, SpentSound, ReportsAreTrue, Owns,
     OneCompanyPerLicense, NoAccountAliasing
<1>2. ASSUME NEW l \in Licenses, LicenseEnds(l) PROVE CInv'
  BY <1>2 DEF LicenseEnds, control, history, CInv, RowsSound, BalanceSound, CallsSound, DrawnSound,
     PanelsSound, PanelsSteady, CallsSteady, SpentSound, ReportsAreTrue, Owns,
     OneCompanyPerLicense, NoAccountAliasing
<1>3. ASSUME NEW k \in Callers,
             \/ Step(k)
             \/ \E v \in Panels : \/ Press(k, v) \/ StartCreate(k, v)
                                  \/ \E n \in Amounts : StartTransfer(k, v, n)
      PROVE  CInv'
  BY <1>3, PressedKeeps, PayingKeeps, DrawingKeeps, FoundingKeeps DEF Step
<1>4. ASSUME NEW v \in Panels,
             \/ _on_back(v) \/ _on_back_detail(v) \/ _on_create_company(v) \/ _on_transfer_user(v)
             \/ \E id \in panel[v].listed : select_company(v, id)
             \/ \E l \in Licenses : _on_license_select(v, l)
      PROVE  CInv'
  BY <1>4, Navigated
<1> QED  BY <1>1, <1>2, <1>3, <1>4 DEF Next

LEMMA CInvIsSound == CInv => CompaniesAreSound
<1> SUFFICES ASSUME CInv PROVE CompaniesAreSound
  OBVIOUS
<1>1. TypeOK
  <2>1. \A a \in DOMAIN balance : balance[a] \in Nat
    BY DEF CInv, BalanceSound
  <2>2. ASSUME NEW v \in Panels
        PROVE  /\ panel[v].page \in {"home", "detail", "transfer"}
               /\ panel[v].listed \cup {panel[v].current} \subseteq Ids \cup {None}
    <3>1. panel[v] \in PanelRec
      BY DEF CInv, PanelsSound
    <3>2. \A id : Owns(v, id) => id \in Ids
      BY Known DEF CInv
    <3> QED  BY <3>1, <3>2 DEF PanelRec, CInv, PanelsSound
  <2> QED  BY <2>1, <2>2 DEF TypeOK, CInv, RowsSound, CallsSound
<1>2. OwnersSpend
  BY Known DEF OwnersSpend, CInv, SpentSound
<1> QED  BY <1>1, <1>2 DEF CompaniesAreSound, CInv, RowsSound, SpentSound, VettedCompaniesPay

\* Companies, licences, accounts and payments agree: a licence carries one
\* company, no account is two companies', none is overdrawn, only its owner
\* spends a company's points, from a company that was found licensed, and what
\* the owner is told is so (CompanyService, fn_create_company and the handlers of
\* commands/company.py), however the submissions of a panel interleave.
THEOREM SoundCompanies == MCSpec => []CompaniesAreSound
BY Companies_, CInvAtFirst, CInvKept, CInvIsSound, PTL DEF Spec

-----------------------------------------------------------------------------
(* SuspectPanels *)

\* A selection outlives pages, searches, reloads and other orders only in part:
\* all that happens to _selected_ids between two choices is that it shrinks.
Selected == picked \subseteq chosen

LEMMA SelectedAtFirst == S_!Init => Selected
BY DEF S_!Init, Selected

\* A step either replaces selection and choice by the same set, or adds nothing
\* to the one and leaves the other.
LEMMA SelectionShrinks ==
    ASSUME [S_!Next]_(S_!deskVars)
    PROVE  \/ picked' = chosen'
           \/ picked' \subseteq picked /\ chosen' = chosen
<1> DEFINE Goal == \/ picked' = chosen'
                   \/ picked' \subseteq picked /\ chosen' = chosen
<1> SUFFICES Goal
  OBVIOUS
<1>1. CASE UNCHANGED S_!deskVars
  BY <1>1 DEF S_!deskVars, S_!books, S_!state
<1>2. ASSUME NEW h \in Handlers, S_!Working(h) PROVE Goal
  <2>1. CASE S_!Deferred(h) \/ S_!Read(h) \/ S_!Show(h) \/ S_!Take(h)
    BY <2>1 DEF S_!Deferred, S_!Read, S_!Show, S_!Take, S_!books, S_!state
  <2>2. CASE S_!Apply(h)
    BY <2>2 DEF S_!Apply, S_!Sanitize, S_!books
  <2>3. CASE S_!Finish(h)
    BY <2>3 DEF S_!Finish, S_!books
  <2>4. ASSUME NEW s \in Suspects, S_!Serve(h, s) PROVE Goal
    BY <2>4 DEF S_!Serve, S_!state
  <2> QED  BY <1>2, <2>1, <2>2, <2>3, <2>4 DEF S_!Working
<1>3. ASSUME NEW h \in Handlers, S_!ReadFails(h) \/ S_!Refused(h) \/ S_!OrderRefused(h) PROVE Goal
  BY <1>3 DEF S_!ReadFails, S_!Refused, S_!OrderRefused, S_!books, S_!state
<1>4. ASSUME NEW h \in Handlers,
             S_!HomelandSecuritySuspectsPanelView(h) \/ S_!JusticeSuspectsPanelView(h) PROVE Goal
  BY <1>4 DEF S_!HomelandSecuritySuspectsPanelView, S_!JusticeSuspectsPanelView, S_!on_turn_page,
              S_!turn_page, S_!open_search_modal, S_!apply_search, S_!on_reset_search,
              S_!on_status_change, S_!state, S_!books
<1>5. ASSUME NEW h \in Handlers, NEW ss \in SUBSET Suspects, S_!on_select(h, ss) PROVE Goal
  BY <1>5 DEF S_!on_select
<1>6. ASSUME NEW h \in Handlers,
             S_!on_refresh(h) \/ S_!on_submit(h) \/ S_!on_close(h) \/ S_!on_timeout(h) PROVE Goal
  BY <1>6 DEF S_!on_refresh, S_!on_submit, S_!on_close, S_!on_timeout, S_!books, S_!state
<1>7. ASSUME NEW h \in Handlers, NEW order \in S_!Scopes, S_!open_modal(h, order) PROVE Goal
  BY <1>7 DEF S_!open_modal, S_!books, S_!state
<1>8. ASSUME NEW s \in Suspects, NEW new \in {"free", "detained", "charged"},
             S_!Elsewhere(s, new) PROVE Goal
  BY <1>8 DEF S_!Elsewhere, S_!state
<1> QED  BY <1>1, <1>2, <1>3, <1>4, <1>5, <1>6, <1>7, <1>8 DEF S_!Next

LEMMA SelectedKept == Selected /\ [S_!Next]_(S_!deskVars) => Selected'
BY SelectionShrinks DEF Selected

\* Only the form that schedules the selection, and the read of the selection
\* after the reply, fix whom an order takes.
LEMMA OrdersTakeTheSelected ==
    ASSUME [S_!Next]_(S_!deskVars)
    PROVE  taken' = taken \/ (taken' \subseteq picked /\ chosen' = chosen)
<1> DEFINE Goal == taken' = taken \/ (taken' \subseteq picked /\ chosen' = chosen)
<1> SUFFICES Goal
  OBVIOUS
<1>1. CASE UNCHANGED S_!deskVars
  BY <1>1 DEF S_!deskVars, S_!books
<1>2. ASSUME NEW h \in Handlers, S_!Working(h) PROVE Goal
  <2>1. CASE S_!Deferred(h) \/ S_!Read(h) \/ S_!Show(h) \/ S_!Apply(h) \/ S_!Finish(h)
    BY <2>1 DEF S_!Deferred, S_!Read, S_!Show, S_!Apply, S_!Finish, S_!books
  <2>2. CASE S_!Take(h)
    BY <2>2 DEF S_!Take
  <2>3. ASSUME NEW s \in Suspects, S_!Serve(h, s) PROVE Goal
    BY <2>3 DEF S_!Serve
  <2> QED  BY <1>2, <2>1, <2>2, <2>3 DEF S_!Working
<1>3. ASSUME NEW h \in Handlers, S_!ReadFails(h) \/ S_!Refused(h) \/ S_!OrderRefused(h) PROVE Goal
  BY <1>3 DEF S_!ReadFails, S_!Refused, S_!OrderRefused, S_!books
<1>4. ASSUME NEW h \in Handlers,
             S_!HomelandSecuritySuspectsPanelView(h) \/ S_!JusticeSuspectsPanelView(h) PROVE Goal
  BY <1>4 DEF S_!HomelandSecuritySuspectsPanelView, S_!JusticeSuspectsPanelView, S_!on_turn_page,
              S_!turn_page, S_!open_search_modal, S_!apply_search, S_!on_reset_search,
              S_!on_status_change, S_!state, S_!books
<1>5. ASSUME NEW h \in Handlers, NEW ss \in SUBSET Suspects, S_!on_select(h, ss) PROVE Goal
  BY <1>5 DEF S_!on_select
<1>6. ASSUME NEW h \in Handlers, S_!on_submit(h) PROVE Goal
  BY <1>6 DEF S_!on_submit
<1>7. ASSUME NEW h \in Handlers, S_!on_refresh(h) \/ S_!on_close(h) \/ S_!on_timeout(h) PROVE Goal
  BY <1>7 DEF S_!on_refresh, S_!on_close, S_!on_timeout, S_!books
<1>8. ASSUME NEW h \in Handlers, NEW order \in S_!Scopes, S_!open_modal(h, order) PROVE Goal
  BY <1>8 DEF S_!open_modal, S_!books
<1>9. ASSUME NEW s \in Suspects, NEW new \in {"free", "detained", "charged"},
             S_!Elsewhere(s, new) PROVE Goal
  BY <1>9 DEF S_!Elsewhere
<1> QED  BY <1>1, <1>2, <1>3, <1>4, <1>5, <1>6, <1>7, <1>8, <1>9 DEF S_!Next

\* SuspectPanels: nobody is released, charged or let off whom the author did not
\* select last, however pages, searches and orders cross (on_select, on_submit).
THEOREM OrdersTakeTheChosen == MCSpec => OnlyTheChosen
<1>1. S_!Init => Selected
  BY SelectedAtFirst
<1>2. Selected /\ [S_!Next]_(S_!deskVars) => Selected'
  BY SelectedKept
<1>3. Selected /\ [S_!Next]_(S_!deskVars)
         => [taken' = taken \/ taken' \subseteq chosen]_(S_!deskVars)
  BY OrdersTakeTheSelected DEF Selected
<1> QED
  BY Suspects_, <1>1, <1>2, <1>3, PTL DEF S_!Spec, OnlyTheChosen, S_!OnlyTheChosen

-----------------------------------------------------------------------------
(* The voting desk *)

Commits == [at: {"commit"}, on: Proposals, guild: BOOLEAN, shown: Proposals, own: BOOLEAN,
            among: SUBSET Proposals]
Tellers == [at: {"tell"}, on: Proposals, told: {"passed", "rejected"}]
Replies == [at: {"reply"}, on: Proposals, guild: BOOLEAN, told: {"open", "passed", "rejected"}]
Statuses == {"unborn", "open", "cancelled"} \cup V_!Final
Rounds ==
    [at: {"start", "asleep"}]
    \cup [at: {"expire"}, due: SUBSET Proposals]
    \cup [at: {"expiring", "remind"}, due: SUBSET Proposals, todo: SUBSET Proposals]
    \cup [at: {"mark"}, due: SUBSET Proposals, todo: SUBSET Proposals, marking: Proposals]
    \cup [at: {"broadcast"}, todo: SUBSET Proposals]
    \cup [at: {"tell"}, todo: SUBSET Proposals, on: Proposals, told: Statuses]

\* What the round r has still to announce, if it has ended; and to remind of.
Pending(r) ==
    IF r.at \in {"expire", "expiring", "remind", "mark"} THEN r.due
    ELSE IF r.at = "broadcast" THEN r.todo
    ELSE IF r.at = "tell" THEN r.todo \cup {r.on} ELSE {}
Reminding(r) == IF r.at \in {"remind", "mark"} THEN r.todo ELSE {}
Marking(r) == IF r.at = "mark" THEN {r.marking} ELSE {}

\* The vote b has a result of p to tell.
Tells(b, p) == b.at \in {"reply", "tell"} /\ b.on = p /\ b.told # "open"
Heard(b) == b.at = "tell" \/ b.guild

\* Where a vote may go, cast with the buttons of sign: its own or old ones.
Placed(on, sign, own, among) == on = sign \/ (~own /\ on \in among /\ among # {sign})

VTypes ==
    /\ standing \in [Proposals -> Statuses]
    /\ ballot \in [Callbacks -> {V_!NoBallot} \cup Commits \cup Replies \cup Tellers]
    /\ round \in Rounds
    /\ results \in [Proposals -> Statuses \cup {"none"}]
    /\ reminders \in [Proposals -> Nat] /\ mishaps \in Nat

\* What is voted on, reminded of or announced has been proposed.
VBegun ==
    /\ \A k \in Callbacks : ballot[k].at # "idle" => V_!Begun(ballot[k].on)
    /\ \A p \in Pending(round) : V_!Begun(p)

\* Only what has ended has a result.
VEnded ==
    \A p \in Proposals :
        \/ standing[p] \notin {"open", "unborn"}
        \/ results[p] = "none" /\ \A k \in Callbacks : ~Tells(ballot[k], p)

VCast ==
    /\ \A k \in Callbacks :
          ballot[k].at = "commit" =>
             Placed(ballot[k].on, ballot[k].shown, ballot[k].own, ballot[k].among)
    /\ \A c \in cast : Placed(c.counted, c.shown, c.own, c.among)

\* Old messages reach a view that was registered when the process began.
VViews == registered \in SUBSET Proposals /\ (fallback # NoProposal => fallback \in registered)

\* Members have been told the result, or will be.
VTold ==
    \A p \in Proposals \ gaps : standing[p] \in V_!Final =>
        /\ \A k \in Callbacks :
              Tells(ballot[k], p) => ballot[k].told = standing[p] /\ Heard(ballot[k])
        /\ \/ results[p] = standing[p] \/ p \in Pending(round)
           \/ \E k \in Callbacks : Tells(ballot[k], p)

\* The round tells what has ended, and how, unless that has changed since it was read.
StillTrue(r) ==
    r.at = "tell" =>
        /\ standing[r.on] \notin {"open", "unborn"} /\ r.told \notin {"open", "unborn"}
        /\ r.on \in gaps \/ standing[r.on] \notin V_!Final \/ r.told = standing[r.on]
VTelling == StillTrue(round)

\* Another reminder takes a mishap between a first one and its mark.
VReminded ==
    chamber = "council" =>
        /\ Reminding(round) \cap (reminded \cup Marking(round)) = {}
        /\ \A p \in Proposals :
              /\ reminders[p] <= 1 + mishaps
              /\ p \notin reminded \cup Marking(round) => reminders[p] <= mishaps

VInv == VTypes /\ VBegun /\ VEnded /\ VCast /\ VViews /\ VTold /\ VTelling /\ VReminded

LEMMA VInvAtFirst == V_!Init => VInv
<1> SUFFICES ASSUME V_!Init PROVE VInv
  OBVIOUS
<1>1. PICK r : r = [at |-> "start"]
  OBVIOUS
<1>2. round = r /\ r \in Rounds /\ Pending(r) = {} /\ Reminding(r) = {} /\ Marking(r) = {}
  BY <1>1 DEF V_!Init, Rounds, Pending, Reminding, Marking
<1>3. VTypes
  BY <1>2, VotingAssumed DEF V_!Init, VTypes, Statuses, V_!VotingDeskAssumption
<1>4. \A k \in Callbacks : ballot[k].at = "idle"
  BY DEF V_!Init, V_!NoBallot
<1>5. VBegun /\ VCast /\ VViews /\ VTelling
  <2>1. fallback = NoProposal /\ registered = {} /\ cast = {}
    BY DEF V_!Init
  <2> QED  BY <1>1, <1>2, <1>4, <2>1 DEF VBegun, VCast, VViews, VTelling, StillTrue
<1>6. VEnded /\ VTold
  <2>1. \A p \in Proposals : standing[p] \notin V_!Final /\ results[p] = "none"
    BY DEF V_!Init, V_!Final
  <2>2. \A k \in Callbacks, p \in Proposals : ~Tells(ballot[k], p)
    BY <1>4 DEF Tells
  <2> QED  BY <2>1, <2>2 DEF VEnded, VTold
<1>7. VReminded
  <2>1. \A p \in Proposals : reminders[p] = 0
    BY DEF V_!Init
  <2>2. mishaps = 0 /\ Reminding(round) = {}
    BY <1>2 DEF V_!Init
  <2> QED  BY <2>1, <2>2 DEF VReminded
<1> QED  BY <1>3, <1>5, <1>6, <1>7 DEF VInv

\* What is proposed, cancelled, or gets older.
LEMMA ProposalsKeep ==
    ASSUME VInv, NEW p \in Proposals,
           \/ V_!create_proposal(p) \/ V_!create_unsaid(p) \/ V_!cancel(p)
           \/ V_!Nearing(p) \/ V_!Deadline(p)
    PROVE  VInv'
<1>1. /\ UNCHANGED <<chamber, reminded, fallback, registered, round, ballot, cast, results,
                      reminders, gaps>>
      /\ mishaps' \in Nat /\ mishaps' >= mishaps
  <2>1. mishaps \in Nat
    BY DEF VInv, VTypes
  <2>2. mishaps' = mishaps \/ mishaps' = mishaps + 1
    BY DEF V_!create_proposal, V_!create_unsaid, V_!Move, V_!cancel, V_!Nearing, V_!Deadline,
           V_!Calm
  <2>3. UNCHANGED <<chamber, reminded, fallback, registered, round, ballot, cast, results,
                    reminders, gaps>>
    BY DEF V_!create_proposal, V_!create_unsaid, V_!Propose, V_!cancel, V_!Nearing, V_!Deadline,
           V_!views, V_!histories
  <2> QED  BY <2>1, <2>2, <2>3
<1>2. \/ standing' = standing
      \/ standing[p] = "unborn" /\ standing' = [standing EXCEPT ![p] = "open"]
      \/ standing[p] = "open" /\ standing' = [standing EXCEPT ![p] = "cancelled"]
  BY DEF V_!create_proposal, V_!create_unsaid, V_!Propose, V_!cancel, V_!Nearing,
         V_!Deadline, V_!Open
<1>3. /\ standing' \in [Proposals -> Statuses]
      /\ \A q \in Proposals : standing'[q] = standing[q] \/ standing'[q] \notin V_!Final
      /\ \A q \in Proposals : V_!Begun(q) => standing'[q] # "unborn"
      /\ \A q \in Proposals : standing[q] \notin {"open", "unborn"}
                              => standing'[q] \notin {"open", "unborn"}
  BY <1>2 DEF VInv, VTypes, Statuses, V_!Final, V_!Begun
<1>4. VTypes' /\ VEnded' /\ VCast' /\ VViews' /\ VTold' /\ VReminded'
  BY <1>1, <1>3 DEF VInv, VTypes, VEnded, VCast, VViews, VTold, VReminded, Tells, Heard,
                    Pending, Reminding, Marking
<1>6. VTelling'
  <2>1. round.at = "tell" => round.on \in Proposals
    BY DEF VInv, VTypes, Rounds
  <2>2. round.on \in Proposals =>
           standing'[round.on] = standing[round.on] \/ standing'[round.on] \notin V_!Final
    BY <1>3
  <2> QED  BY <1>1, <1>3, <2>1, <2>2 DEF VInv, VTelling, StillTrue
<1>5. VBegun'
  <2>1. \A k \in Callbacks : ballot[k].at # "idle" => ballot[k].on \in Proposals
    BY DEF VInv, VTypes, Commits, Replies, Tellers, V_!NoBallot
  <2>2. Pending(round) \subseteq Proposals
    BY DEF VInv, VTypes, Rounds, Pending
  <2> QED  BY <1>1, <1>3, <2>1, <2>2 DEF VInv, VBegun, V_!Begun, Pending
<1> QED  BY <1>4, <1>5, <1>6 DEF VInv

\* k goes on; no other vote does.
LEMMA BallotKeeps ==
    ASSUME VInv, NEW k \in Callbacks,
           NEW b \in {V_!NoBallot} \cup Commits \cup Replies \cup Tellers,
           ballot' = [ballot EXCEPT ![k] = b]
    PROVE  /\ ballot' \in [Callbacks -> {V_!NoBallot} \cup Commits \cup Replies \cup Tellers]
           /\ ballot'[k] = b /\ \A j \in Callbacks \ {k} : ballot'[j] = ballot[j]
BY DEF VInv, VTypes

LEMMA VoteKeeps ==
    ASSUME VInv, NEW k \in Callbacks, NEW p \in Proposals,
           V_!PressInMessage(k, p) \/ V_!PressOnPanel(k, p)
    PROVE  VInv'
<1>1. PICK q \in V_!Open, place \in {"message", "panel"} :
         /\ V_!Vote(k, p, q, place)
         /\ place = "panel" => q = p
         /\ place = "panel" \/ letters[p] = "this process" \/ q = fallback
         /\ letters[p] = "this process" => q = p
  BY DEF V_!PressInMessage, V_!PressOnPanel, V_!Target, V_!Vote
<1> PICK guild \in BOOLEAN : guild <=> place = "panel"
  <2>1. CASE place = "panel"
    BY <2>1
  <2>2. CASE place # "panel"
    BY <2>2
  <2> QED  BY <2>1, <2>2
<1> PICK own \in BOOLEAN : own <=> place = "panel" \/ letters[p] = "this process"
  <2>1. CASE place = "panel" \/ letters[p] = "this process"
    BY <2>1
  <2>2. CASE ~(place = "panel" \/ letters[p] = "this process")
    BY <2>2
  <2> QED  BY <2>1, <2>2
<1>2. guild = (place = "panel") /\ own = (place = "panel" \/ letters[p] = "this process")
  OBVIOUS
<1> PICK b : b = [at |-> "commit", on |-> q, guild |-> guild, shown |-> p, own |-> own,
                  among |-> registered]
  OBVIOUS
<1>3. /\ b \in Commits /\ b.at = "commit" /\ b.on = q
      /\ Placed(b.on, b.shown, b.own, b.among)
  <2>1. registered \in SUBSET Proposals /\ q \in Proposals /\ q # NoProposal
    BY VotingAssumed DEF VInv, VViews, V_!Open, V_!VotingDeskAssumption
  <2>2. b \in Commits /\ b.at = "commit" /\ b.on = q
    BY <2>1 DEF Commits
  <2>3. own \/ q \in registered
    BY <1>1, <2>1 DEF VInv, VViews
  <2>4. own => q = p
    BY <1>1
  <2>5. q # p /\ q \in registered => registered # {p}
    OBVIOUS
  <2> QED  BY <2>2, <2>3, <2>4, <2>5 DEF Placed
<1>4. /\ ballot' = [ballot EXCEPT ![k] = b] /\ ballot[k].at = "idle"
      /\ UNCHANGED <<chamber, standing, reminded, fallback, registered, round, cast, results,
                     reminders, gaps, mishaps>>
  BY <1>1, <1>2 DEF V_!Vote, V_!rows, V_!views, V_!histories, V_!Move, V_!Caller, V_!Idle
<1>5. /\ ballot' \in [Callbacks -> {V_!NoBallot} \cup Commits \cup Replies \cup Tellers]
      /\ ballot'[k] = b /\ \A j \in Callbacks \ {k} : ballot'[j] = ballot[j]
  BY <1>3, <1>4, BallotKeeps
<1>6. \A j \in Callbacks, r \in Proposals : Tells(ballot'[j], r) <=> Tells(ballot[j], r)
  BY <1>3, <1>4, <1>5 DEF Tells
<1>7. VTypes' /\ VEnded' /\ VReminded' /\ VCast' /\ VViews' /\ VTelling'
  <2>1. VTypes'
    BY <1>4, <1>5 DEF VInv, VTypes
  <2>2. VEnded'
    BY <1>4, <1>6 DEF VInv, VEnded
  <2>3. VReminded'
    BY <1>4 DEF VInv, VReminded
  <2>4. VCast'
    BY <1>3, <1>4, <1>5 DEF VInv, VCast
  <2>5. VViews' /\ VTelling'
    BY <1>4 DEF VInv, VViews, VTelling, StillTrue
  <2> QED  BY <2>1, <2>2, <2>3, <2>4, <2>5
<1>8. VBegun'
  BY <1>1, <1>3, <1>4, <1>5 DEF VInv, VBegun, V_!Begun, V_!Open
<1>9. VTold'
  <2>1. \A j \in Callbacks, r \in Proposals :
           Tells(ballot[j], r) => ballot'[j] = ballot[j]
    BY <1>4, <1>5 DEF Tells
  <2> SUFFICES ASSUME NEW r \in Proposals \ gaps, standing[r] \in V_!Final
               PROVE  /\ \A j \in Callbacks : Tells(ballot'[j], r) =>
                            ballot'[j].told = standing[r] /\ Heard(ballot'[j])
                      /\ \/ results[r] = standing[r] \/ r \in Pending(round)
                         \/ \E j \in Callbacks : Tells(ballot'[j], r)
    BY <1>4 DEF VTold
  <2>2. /\ \A j \in Callbacks : Tells(ballot[j], r) =>
                            ballot[j].told = standing[r] /\ Heard(ballot[j])
        /\ \/ results[r] = standing[r] \/ r \in Pending(round)
           \/ \E j \in Callbacks : Tells(ballot[j], r)
    BY DEF VInv, VTold
  <2>3. \A j \in Callbacks : /\ Tells(ballot'[j], r) <=> Tells(ballot[j], r)
                             /\ Tells(ballot[j], r) => ballot'[j] = ballot[j]
    BY <1>6, <2>1
  <2> QED  BY <2>2, <2>3
<1> QED  BY <1>7, <1>8, <1>9 DEF VInv

LEMMA CommitKeeps ==
    ASSUME VInv, NEW k \in Callbacks, NEW s \in {"open", "passed", "rejected"},
           V_!CommitVote(k, s)
    PROVE  VInv'
<1> PICK c, p, guild : c = ballot[k] /\ p = c.on /\ guild = c.guild
  OBVIOUS
<1> PICK b : b = [at |-> "reply", on |-> p, guild |-> guild, told |-> s]
  OBVIOUS
<1>1. /\ c.at = "commit" /\ ballot' = [ballot EXCEPT ![k] = b]
      /\ standing' = IF s = "open" THEN standing ELSE [standing EXCEPT ![p] = s]
      /\ cast' = cast \cup {[shown |-> c.shown, counted |-> p, own |-> c.own,
                             among |-> c.among]}
      /\ gaps' = IF s # "open" /\ (~guild \/ V_!Telling(p)) THEN gaps \cup {p} ELSE gaps
      /\ UNCHANGED <<chamber, reminded, fallback, registered, round, results, reminders, mishaps>>
  BY DEF V_!CommitVote, V_!GapIf, V_!views, V_!Calm
<1>2. c \in Commits /\ p \in Proposals /\ V_!Begun(p) /\ guild \in BOOLEAN
  <2>1. c \in Commits
    BY <1>1 DEF VInv, VTypes, V_!NoBallot, Replies, Tellers
  <2> QED  BY <1>1, <2>1 DEF Commits, VInv, VBegun
<1>3. b \in Replies /\ b.at = "reply" /\ b.on = p /\ b.told = s /\ b.guild = guild
  BY <1>2 DEF Replies
<1>4. /\ ballot' \in [Callbacks -> {V_!NoBallot} \cup Commits \cup Replies \cup Tellers]
      /\ ballot'[k] = b /\ \A j \in Callbacks \ {k} : ballot'[j] = ballot[j]
  BY <1>1, <1>3, BallotKeeps
<1>5. /\ standing' \in [Proposals -> Statuses]
      /\ \A q \in Proposals : q # p \/ s = "open" => standing'[q] = standing[q]
      /\ s # "open" => standing'[p] = s
      /\ \A q \in Proposals : V_!Begun(q) => standing'[q] # "unborn"
      /\ \A q \in Proposals : standing[q] \notin {"open", "unborn"}
                              => standing'[q] \notin {"open", "unborn"}
  BY <1>1, <1>2 DEF VInv, VTypes, Statuses, V_!Final, V_!Begun
<1>6. /\ ~Tells(ballot[k], p) /\ \A q \in Proposals : Tells(b, q) <=> q = p /\ s # "open"
      /\ \A q \in Proposals : ~Tells(ballot[k], q)
  BY <1>1, <1>3 DEF Tells
<1>7. VTypes' /\ VReminded' /\ VViews'
  BY <1>1, <1>4, <1>5 DEF VInv, VTypes, VReminded, VViews
<1>8. VBegun'
  <2>1. \A j \in Callbacks : ballot[j].at # "idle" => ballot[j].on \in Proposals
    BY DEF VInv, VTypes, Commits, Replies, Tellers, V_!NoBallot
  <2>2. Pending(round) \subseteq Proposals
    BY DEF VInv, VTypes, Rounds, Pending
  <2> QED  BY <1>1, <1>2, <1>3, <1>4, <1>5, <2>1, <2>2 DEF VInv, VBegun, V_!Begun
<1>9. VEnded'
  <2> SUFFICES ASSUME NEW q \in Proposals, standing'[q] \in {"open", "unborn"}
               PROVE  results'[q] = "none" /\ \A j \in Callbacks : ~Tells(ballot'[j], q)
    BY DEF VEnded
  <2>1. standing[q] \in {"open", "unborn"} /\ (q = p => s = "open")
    BY <1>5
  <2>2. results[q] = "none" /\ \A j \in Callbacks : ~Tells(ballot[j], q)
    BY <2>1 DEF VInv, VEnded
  <2> QED  BY <1>1, <1>4, <1>6, <2>1, <2>2
<1>10. VCast'
  <2> PICK v : v = [shown |-> c.shown, counted |-> p, own |-> c.own, among |-> c.among]
    OBVIOUS
  <2>1. Placed(v.counted, v.shown, v.own, v.among)
    BY <1>1 DEF VInv, VCast
  <2>2. \A w \in cast' : Placed(w.counted, w.shown, w.own, w.among)
    BY <1>1, <2>1 DEF VInv, VCast
  <2>3. \A j \in Callbacks : ballot'[j].at = "commit" => ballot'[j] = ballot[j]
    BY <1>3, <1>4
  <2> QED  BY <2>2, <2>3 DEF VInv, VCast
<1>11. VTold'
  <2> SUFFICES ASSUME NEW q \in Proposals \ gaps', standing'[q] \in V_!Final
               PROVE  /\ \A j \in Callbacks : Tells(ballot'[j], q) =>
                            ballot'[j].told = standing'[q] /\ Heard(ballot'[j])
                      /\ \/ results'[q] = standing'[q] \/ q \in Pending(round')
                         \/ \E j \in Callbacks : Tells(ballot'[j], q)
    BY DEF VTold
  <2>1. CASE q # p \/ s = "open"
    <3>1. \A j \in Callbacks : /\ Tells(ballot'[j], q) <=> Tells(ballot[j], q)
                               /\ Tells(ballot[j], q) => ballot'[j] = ballot[j]
      BY <1>4, <1>6, <2>1
    <3>2. standing'[q] = standing[q] /\ q \notin gaps
      BY <1>1, <1>5, <2>1
    <3> QED  BY <1>1, <3>1, <3>2 DEF VInv, VTold
  <2>2. CASE q = p /\ s # "open"
    <3>1. guild /\ ~V_!Telling(p)
      BY <1>1, <2>2
    <3>2. \A j \in Callbacks : ~Tells(ballot[j], p)
      BY <3>1 DEF V_!Telling, Tells
    <3> QED  BY <1>3, <1>4, <1>5, <1>6, <2>2, <3>1, <3>2 DEF Heard
  <2> QED  BY <2>1, <2>2
<1>12. VTelling'
  <2> SUFFICES ASSUME round.at = "tell" PROVE StillTrue(round)'
    BY <1>1 DEF VTelling, StillTrue
  <2>1. round.on \in Proposals /\ StillTrue(round)
    BY DEF VInv, VTypes, Rounds, VTelling
  <2>2. CASE round.on = p /\ s # "open"
    <3>1. p \in gaps'
      BY <1>1, <2>2 DEF V_!Telling
    <3> QED  BY <1>1, <1>5, <2>1, <2>2, <3>1 DEF StillTrue
  <2>3. CASE round.on # p \/ s = "open"
    BY <1>1, <1>5, <2>1, <2>3 DEF StillTrue
  <2> QED  BY <2>2, <2>3
<1> QED  BY <1>7, <1>8, <1>9, <1>10, <1>11, <1>12 DEF VInv

\* A member is answered, and a result will be told.
LEMMA WillTell ==
    ASSUME VInv, NEW k \in Callbacks, V_!Reply(k), ballot[k].told # "open", ballot[k].guild
    PROVE  VInv'
<1> PICK b, p, word : b = ballot[k] /\ p = b.on /\ word = b.told
  OBVIOUS
<1> PICK t : t = [at |-> "tell", on |-> p, told |-> word]
  OBVIOUS
<1>1. /\ ballot' = [ballot EXCEPT ![k] = t] /\ b.at = "reply"
      /\ UNCHANGED <<chamber, standing, reminded, fallback, registered, round, cast, results,
                     reminders, gaps, mishaps>>
  BY DEF V_!Reply, V_!rows, V_!views, V_!histories, V_!Calm
<1>2. b \in Replies /\ word # "open"
  BY <1>1 DEF VInv, VTypes, V_!NoBallot, Commits, Tellers
<1>3. t \in Tellers /\ t.at = "tell" /\ t.on = p /\ t.told = word /\ Heard(t)
  BY <1>2 DEF Replies, Tellers, Heard
<1>4. /\ ballot' \in [Callbacks -> {V_!NoBallot} \cup Commits \cup Replies \cup Tellers]
      /\ ballot'[k] = t /\ \A j \in Callbacks \ {k} : ballot'[j] = ballot[j]
  BY <1>1, <1>3, BallotKeeps
<1>5. \A j \in Callbacks, q \in Proposals :
         /\ Tells(ballot'[j], q) <=> Tells(ballot[j], q)
         /\ Tells(ballot[j], q) => ballot'[j].told = ballot[j].told
         /\ Heard(ballot[j]) => Heard(ballot'[j])
  BY <1>1, <1>2, <1>3, <1>4 DEF Tells
<1>6. VTypes' /\ VReminded' /\ VViews' /\ VTelling'
  BY <1>1, <1>4 DEF VInv, VTypes, VReminded, VViews, VTelling, StillTrue
<1>7. VBegun' /\ VCast'
  BY <1>1, <1>3, <1>4 DEF VInv, VBegun, V_!Begun, VCast
<1>8. VEnded' /\ VTold'
  <2>1. VEnded'
    BY <1>1, <1>5 DEF VInv, VEnded
  <2> SUFFICES ASSUME NEW q \in Proposals \ gaps, standing[q] \in V_!Final
               PROVE  /\ \A j \in Callbacks : Tells(ballot'[j], q) =>
                            ballot'[j].told = standing[q] /\ Heard(ballot'[j])
                      /\ \/ results[q] = standing[q] \/ q \in Pending(round)
                         \/ \E j \in Callbacks : Tells(ballot'[j], q)
    BY <1>1, <2>1 DEF VTold
  <2>2. /\ \A j \in Callbacks : Tells(ballot[j], q) =>
                            ballot[j].told = standing[q] /\ Heard(ballot[j])
        /\ \/ results[q] = standing[q] \/ q \in Pending(round)
           \/ \E j \in Callbacks : Tells(ballot[j], q)
    BY DEF VInv, VTold
  <2> QED  BY <1>5, <2>2
<1> QED  BY <1>6, <1>7, <1>8 DEF VInv

\* A vote is refused, or ends with its member answered and its result word or not.
LEMMA ReplyKeeps ==
    ASSUME VInv, NEW k \in Callbacks,
           \/ V_!VoteRefused(k) \/ V_!TellVote(k) \/ V_!ReplyFails(k)
           \/ V_!Reply(k) /\ ~(ballot[k].told # "open" /\ ballot[k].guild)
    PROVE  VInv'
<1> PICK b, p : b = ballot[k] /\ p = b.on
  OBVIOUS
<1>1. /\ ballot' = [ballot EXCEPT ![k] = V_!NoBallot] /\ b.at \in {"commit", "reply", "tell"}
      /\ UNCHANGED <<chamber, standing, reminded, fallback, registered, round, cast, reminders>>
  BY DEF V_!VoteRefused, V_!Reply, V_!TellVote, V_!ReplyFails, V_!rows, V_!views, V_!histories
<1>2. mishaps' \in Nat /\ mishaps' >= mishaps
  <2>1. mishaps \in Nat
    BY DEF VInv, VTypes
  <2>2. mishaps' = mishaps \/ mishaps' = mishaps + 1
    BY DEF V_!VoteRefused, V_!Reply, V_!TellVote, V_!ReplyFails, V_!Mishap, V_!Calm
  <2> QED  BY <2>1, <2>2
<1>3. /\ b \in Commits \cup Replies \cup Tellers /\ p \in Proposals
      /\ Tells(b, p) => b.told \in Statuses
  <2>1. b \in Commits \cup Replies \cup Tellers
    BY <1>1 DEF VInv, VTypes, V_!NoBallot
  <2> QED  BY <2>1 DEF Commits, Replies, Tellers, Tells, Statuses, V_!Final
<1>4. /\ ballot' \in [Callbacks -> {V_!NoBallot} \cup Commits \cup Replies \cup Tellers]
      /\ ballot'[k].at = "idle" /\ \A j \in Callbacks \ {k} : ballot'[j] = ballot[j]
  BY <1>1, BallotKeeps DEF V_!NoBallot
<1>5. \A q \in Proposals : /\ ~Tells(ballot'[k], q)
                           /\ q # p => ~Tells(ballot[k], q)
  BY <1>4 DEF Tells
<1>6. /\ gaps \subseteq gaps'
      /\ \A q \in Proposals : q # p \/ ~Tells(b, p) => results'[q] = results[q]
      /\ \/ ~Tells(b, p) /\ results' = results
         \/ Tells(b, p) /\ p \in gaps' /\ results' = results
         \/ Tells(b, p) /\ results' = [results EXCEPT ![p] = b.told]
         \/ Tells(b, p) /\ ~Heard(b) /\ results' = results
  <2>1. CASE V_!VoteRefused(k)
    BY <2>1 DEF V_!VoteRefused, V_!histories, Tells
  <2>2. CASE V_!Reply(k) /\ ~(b.told # "open" /\ b.guild)
    <3>1. b.at = "reply" /\ UNCHANGED <<results, gaps>> /\ ~(b.told # "open" /\ b.guild)
      BY <2>2 DEF V_!Reply, V_!histories
    <3> QED  BY <3>1 DEF Tells, Heard
  <2>4. CASE V_!TellVote(k)
    <3>1. b.at = "tell" /\ results' = [results EXCEPT ![p] = b.told] /\ UNCHANGED gaps
      BY <2>4 DEF V_!TellVote, V_!Announce
    <3>2. Tells(b, p)
      BY <1>3, <3>1 DEF Tells, Tellers, Commits, Replies
    <3> QED  BY <1>3, <3>1, <3>2 DEF VInv, VTypes
  <2>3. CASE V_!ReplyFails(k)
    BY <2>3 DEF V_!ReplyFails, V_!GapIf, Tells
  <2> QED  BY <2>1, <2>2, <2>3, <2>4
<1>7. results' \in [Proposals -> Statuses \cup {"none"}]
  BY <1>3, <1>6 DEF VInv, VTypes
<1>8. VTypes' /\ VReminded' /\ VBegun' /\ VViews' /\ VTelling'
  <2>1. VTypes' /\ VReminded' /\ VBegun' /\ VViews'
    BY <1>1, <1>2, <1>4, <1>7 DEF VInv, VTypes, VReminded, VBegun, VViews, V_!Begun
  <2>2. VTelling'
    BY <1>1, <1>6 DEF VInv, VTelling, StillTrue
  <2> QED  BY <2>1, <2>2
<1>9. VCast'
  BY <1>1, <1>4 DEF VInv, VCast
<1>10. VEnded'
  <2> SUFFICES ASSUME NEW q \in Proposals, standing[q] \in {"open", "unborn"}
               PROVE  results'[q] = "none" /\ \A j \in Callbacks : ~Tells(ballot'[j], q)
    BY <1>1 DEF VEnded
  <2>1. results[q] = "none" /\ \A j \in Callbacks : ~Tells(ballot[j], q)
    BY DEF VInv, VEnded
  <2> QED  BY <1>4, <1>5, <1>6, <2>1
<1>11. VTold'
  <2> SUFFICES ASSUME NEW q \in Proposals \ gaps', standing[q] \in V_!Final
               PROVE  /\ \A j \in Callbacks : Tells(ballot'[j], q) =>
                            ballot'[j].told = standing[q] /\ Heard(ballot'[j])
                      /\ \/ results'[q] = standing[q] \/ q \in Pending(round)
                         \/ \E j \in Callbacks : Tells(ballot'[j], q)
    BY <1>1 DEF VTold
  <2>1. /\ \A j \in Callbacks : Tells(ballot[j], q) =>
                            ballot[j].told = standing[q] /\ Heard(ballot[j])
        /\ \/ results[q] = standing[q] \/ q \in Pending(round)
           \/ \E j \in Callbacks : Tells(ballot[j], q)
    BY <1>6 DEF VInv, VTold
  <2>2. \A j \in Callbacks : Tells(ballot'[j], q) =>
                            ballot'[j].told = standing[q] /\ Heard(ballot'[j])
    BY <1>4, <1>5, <2>1
  <2>3. CASE Tells(b, q)
    <3>1. q = p /\ b.told = standing[q] /\ Heard(b)
      BY <1>5, <2>1, <2>3
    <3>2. results'[q] = standing[q]
      BY <1>6, <2>3, <3>1 DEF VInv, VTypes
    <3> QED  BY <2>2, <3>2
  <2>4. CASE ~Tells(b, q)
    <3>1. results'[q] = results[q]
      BY <1>6, <2>4
    <3> QED  BY <1>4, <2>1, <2>2, <2>4, <3>1
  <2> QED  BY <2>3, <2>4
<1> QED  BY <1>8, <1>9, <1>10, <1>11 DEF VInv

LEMMA InRounds ==
    ASSUME VInv
    PROVE  /\ round.at = "expire" => round \in [at: {"expire"}, due: SUBSET Proposals]
           /\ round.at \in {"expiring", "remind"} =>
                 round \in [at: {"expiring", "remind"}, due: SUBSET Proposals,
                            todo: SUBSET Proposals]
           /\ round.at = "mark" =>
                 round \in [at: {"mark"}, due: SUBSET Proposals, todo: SUBSET Proposals,
                            marking: Proposals]
           /\ round.at = "broadcast" => round \in [at: {"broadcast"}, todo: SUBSET Proposals]
           /\ round.at = "tell" =>
                 round \in [at: {"tell"}, todo: SUBSET Proposals, on: Proposals, told: Statuses]
           /\ Pending(round) \subseteq Proposals
BY DEF VInv, VTypes, Rounds, Pending

\* The round goes on, nobody is told anything.
LEMMA RoundGoesOn ==
    ASSUME VInv, NEW r \in Rounds, round' = r, StillTrue(r), VViews',
           UNCHANGED <<chamber, standing, ballot, cast, results, reminders>>,
           gaps \subseteq gaps', mishaps' = mishaps \/ mishaps' = mishaps + 1,
           Pending(round) \subseteq Pending(r) \cup gaps' \cup V_!Open,
           \A p \in Pending(r) : V_!Begun(p),
           chamber = "council" => Reminding(r) \cap (reminded' \cup Marking(r)) = {},
           \/ reminded \cup Marking(round) \subseteq reminded' \cup Marking(r)
           \/ mishaps' = mishaps + 1
    PROVE  VInv'
<1>0. mishaps \in Nat /\ mishaps' \in Nat /\ \A p \in Proposals : reminders[p] \in Nat
  BY DEF VInv, VTypes
<1>1. VTypes' /\ VCast'
  BY <1>0 DEF VInv, VTypes, VCast
<1>2. VBegun' /\ VTelling'
  BY DEF VInv, VBegun, VTelling, StillTrue, V_!Begun
<1>3. VEnded'
  BY DEF VInv, VEnded
<1>4. VTold'
  <2> SUFFICES ASSUME NEW p \in Proposals \ gaps', standing[p] \in V_!Final
               PROVE  /\ \A j \in Callbacks : Tells(ballot[j], p) =>
                            ballot[j].told = standing[p] /\ Heard(ballot[j])
                      /\ \/ results[p] = standing[p] \/ p \in Pending(r)
                         \/ \E j \in Callbacks : Tells(ballot[j], p)
    BY DEF VTold
  <2>1. p \in Pending(round) => p \in Pending(r)
    BY DEF V_!Open, V_!Final
  <2> QED  BY <2>1 DEF VInv, VTold
<1>5. VReminded'
  <2> SUFFICES ASSUME chamber = "council", NEW p \in Proposals
               PROVE  /\ reminders[p] <= 1 + mishaps'
                      /\ p \notin reminded' \cup Marking(r) => reminders[p] <= mishaps'
    BY DEF VReminded
  <2>1. /\ reminders[p] <= 1 + mishaps
        /\ p \notin reminded \cup Marking(round) => reminders[p] <= mishaps
    BY DEF VInv, VReminded
  <2> QED  BY <1>0, <2>1
<1> QED  BY <1>1, <1>2, <1>3, <1>4, <1>5 DEF VInv

LEMMA RoundKeeps ==
    ASSUME VInv,
           \/ V_!register_persistent_views \/ V_!ListDue \/ V_!ListToExpire \/ V_!ExpireFails
           \/ V_!ListReminders \/ V_!mark_reminded \/ V_!RemindersDone \/ V_!RoundDone
           \/ V_!RoundFails \/ V_!RegisterFails
    PROVE  VInv'
<1> PICK r : r = round'
  OBVIOUS
<1>0. UNCHANGED <<chamber, standing, ballot, cast, results, reminders>> /\ VViews'
  <2>1. UNCHANGED <<chamber, standing, ballot, cast, results, reminders>>
    BY DEF V_!register_persistent_views, V_!RegisterFails, V_!ListDue, V_!ListToExpire,
           V_!ExpireFails, V_!ListReminders, V_!mark_reminded, V_!RemindersDone, V_!RoundDone,
           V_!RoundFails, V_!rows, V_!histories
  <2>2. CASE V_!register_persistent_views
    <3>1. /\ registered' = V_!Open
          /\ fallback' \in V_!Open \/ fallback' = NoProposal
      BY <2>2 DEF V_!register_persistent_views
    <3>2. V_!Open \subseteq Proposals
      BY DEF V_!Open
    <3> QED  BY <2>1, <3>1, <3>2 DEF VViews
  <2>3. CASE UNCHANGED <<fallback, registered>>
    <3>1. VViews
      BY DEF VInv
    <3> QED  BY <2>1, <2>3, <3>1 DEF VViews
  <2>4. V_!register_persistent_views \/ UNCHANGED <<fallback, registered>>
    BY DEF V_!RegisterFails, V_!ListDue, V_!ListToExpire, V_!ExpireFails, V_!ListReminders,
           V_!mark_reminded, V_!RemindersDone, V_!RoundDone, V_!RoundFails, V_!views
  <2> QED  BY <2>1, <2>2, <2>3, <2>4
<1>1. \A p \in Pending(round) : V_!Begun(p)
  BY DEF VInv, VBegun
<1>2. CASE V_!register_persistent_views \/ V_!RegisterFails \/ V_!RoundDone
  <2>1. /\ r = [at |-> "asleep"] /\ round.at \in {"start", "broadcast"}
        /\ round.at = "broadcast" => round.todo = {}
        /\ UNCHANGED <<reminded, gaps>> /\ mishaps' \in {mishaps, mishaps + 1}
    BY <1>2 DEF V_!register_persistent_views, V_!RegisterFails, V_!RoundDone, V_!rows,
                V_!histories, V_!Sleeping, V_!Calm, V_!Mishap
  <2>2. r \in Rounds /\ Pending(r) = {} /\ Reminding(r) = {} /\ Marking(r) = {}
        /\ StillTrue(r)
    BY <2>1 DEF Rounds, Pending, Reminding, Marking, StillTrue
  <2>3. Pending(round) = {} /\ Marking(round) = {}
    BY <2>1 DEF Pending, Marking
  <2> QED  BY <1>0, <2>1, <2>2, <2>3, RoundGoesOn
<1>3. CASE V_!ListDue
  <2> PICK due : due = V_!Open \cap overdue
    OBVIOUS
  <2>1. /\ r = [at |-> "expire", due |-> due] /\ round.at = "asleep"
        /\ UNCHANGED <<reminded, gaps, mishaps>>
    BY <1>3 DEF V_!ListDue, V_!rows, V_!histories, V_!Calm
  <2>2. due \subseteq Proposals /\ \A p \in due : V_!Begun(p)
    BY DEF V_!Open, V_!Begun
  <2>3. r \in Rounds /\ Pending(r) = due /\ Reminding(r) = {} /\ Marking(r) = {}
        /\ StillTrue(r)
    BY <2>1, <2>2 DEF Rounds, Pending, Reminding, Marking, StillTrue
  <2>4. Pending(round) = {} /\ Marking(round) = {}
    BY <2>1 DEF Pending, Marking
  <2> QED  BY <1>0, <2>1, <2>2, <2>3, <2>4, RoundGoesOn
<1>4. CASE V_!ListToExpire
  <2> PICK due, todo : due = round.due /\ todo = V_!Open \cap overdue
    OBVIOUS
  <2>1. /\ r = [at |-> "expiring", due |-> due, todo |-> todo] /\ round.at = "expire"
        /\ UNCHANGED <<reminded, gaps, mishaps>>
    BY <1>4 DEF V_!ListToExpire, V_!rows, V_!histories, V_!Calm
  <2>2. due \subseteq Proposals /\ todo \subseteq Proposals
    BY <2>1, InRounds DEF V_!Open
  <2>3. r \in Rounds /\ Pending(r) = due /\ Reminding(r) = {} /\ Marking(r) = {}
        /\ StillTrue(r)
    BY <2>1, <2>2 DEF Rounds, Pending, Reminding, Marking, StillTrue
  <2>4. Pending(round) = due /\ Marking(round) = {}
    BY <2>1 DEF Pending, Marking
  <2> QED  BY <1>0, <1>1, <2>1, <2>3, <2>4, RoundGoesOn
<1>5. CASE V_!ExpireFails
  <2>1. /\ r = [round EXCEPT !.todo = {}] /\ round.at = "expiring"
        /\ UNCHANGED <<reminded, gaps>> /\ mishaps' = mishaps + 1
    BY <1>5 DEF V_!ExpireFails, V_!rows, V_!histories, V_!Mishap
  <2>2. round \in [at: {"expiring", "remind"}, due: SUBSET Proposals, todo: SUBSET Proposals]
    BY <2>1, InRounds
  <2>3. r \in [at: {"expiring", "remind"}, due: SUBSET Proposals, todo: SUBSET Proposals]
        /\ r.at = "expiring" /\ r.due = round.due
    BY <2>1, <2>2
  <2>4. r \in Rounds /\ Pending(r) = round.due /\ Reminding(r) = {} /\ Marking(r) = {}
        /\ StillTrue(r)
    BY <2>3 DEF Rounds, Pending, Reminding, Marking, StillTrue
  <2>5. Pending(round) = round.due /\ Marking(round) = {}
    BY <2>1 DEF Pending, Marking
  <2> QED  BY <1>0, <1>1, <2>1, <2>4, <2>5, RoundGoesOn
<1>6. CASE V_!ListReminders
  <2> PICK due, todo : /\ due = round.due
                       /\ todo = IF chamber = "council"
                                 THEN (V_!Open \cap nearing) \ reminded ELSE V_!Open \cap overdue
    OBVIOUS
  <2>1. /\ r = [at |-> "remind", due |-> due, todo |-> todo] /\ round.at = "expiring"
        /\ UNCHANGED <<reminded, gaps, mishaps>>
    BY <1>6 DEF V_!ListReminders, V_!rows, V_!histories, V_!Calm
  <2>2. /\ due \subseteq Proposals /\ todo \subseteq Proposals
        /\ chamber = "council" => todo \cap reminded = {}
    BY <2>1, InRounds DEF V_!Open
  <2>3. r \in Rounds /\ Pending(r) = due /\ Reminding(r) = todo /\ Marking(r) = {}
        /\ StillTrue(r)
    BY <2>1, <2>2 DEF Rounds, Pending, Reminding, Marking, StillTrue
  <2>4. Pending(round) = due /\ Marking(round) = {}
    BY <2>1 DEF Pending, Marking
  <2> QED  BY <1>0, <1>1, <2>1, <2>2, <2>3, <2>4, RoundGoesOn
<1>7. CASE V_!mark_reminded
  <2> PICK due, todo, p : due = round.due /\ todo = round.todo /\ p = round.marking
    OBVIOUS
  <2>1. /\ r = [at |-> "remind", due |-> due, todo |-> todo] /\ round.at = "mark"
        /\ reminded' = reminded \cup {p} /\ UNCHANGED <<gaps, mishaps>>
    BY <1>7 DEF V_!mark_reminded, V_!histories, V_!Calm
  <2>2. due \subseteq Proposals /\ todo \subseteq Proposals
    BY <2>1, InRounds
  <2>3. r \in Rounds /\ Pending(r) = due /\ Reminding(r) = todo /\ Marking(r) = {}
        /\ StillTrue(r)
    BY <2>1, <2>2 DEF Rounds, Pending, Reminding, Marking, StillTrue
  <2>4. Pending(round) = due /\ Marking(round) = {p} /\ Reminding(round) = todo
    BY <2>1 DEF Pending, Marking, Reminding
  <2>5. chamber = "council" => todo \cap (reminded \cup {p}) = {}
    BY <2>4 DEF VInv, VReminded
  <2> QED  BY <1>0, <1>1, <2>1, <2>3, <2>4, <2>5, RoundGoesOn
<1>8. CASE V_!RemindersDone
  <2> PICK due : due = round.due
    OBVIOUS
  <2>1. /\ r = [at |-> "broadcast", todo |-> due] /\ round.at = "remind"
        /\ UNCHANGED <<reminded, gaps, mishaps>>
    BY <1>8 DEF V_!RemindersDone, V_!rows, V_!histories, V_!Calm
  <2>2. due \subseteq Proposals
    BY <2>1, InRounds
  <2>3. r \in Rounds /\ Pending(r) = due /\ Reminding(r) = {} /\ Marking(r) = {}
        /\ StillTrue(r)
    BY <2>1, <2>2 DEF Rounds, Pending, Reminding, Marking, StillTrue
  <2>4. Pending(round) = due /\ Marking(round) = {}
    BY <2>1 DEF Pending, Marking
  <2> QED  BY <1>0, <1>1, <2>1, <2>3, <2>4, RoundGoesOn
<1>9. CASE V_!RoundFails
  <2>1. /\ r = [at |-> "asleep"] /\ round.at \in {"expire", "remind", "mark"}
        /\ gaps' = gaps \cup (round.due \ V_!Open)
        /\ UNCHANGED reminded /\ mishaps' = mishaps + 1
    BY <1>9 DEF V_!RoundFails, V_!rows, V_!Sleeping, V_!Mishap
  <2>2. r \in Rounds /\ Pending(r) = {} /\ Reminding(r) = {} /\ Marking(r) = {}
        /\ StillTrue(r)
    BY <2>1 DEF Rounds, Pending, Reminding, Marking, StillTrue
  <2>3. Pending(round) = round.due
    BY <2>1 DEF Pending
  <2> QED  BY <1>0, <2>1, <2>2, <2>3, RoundGoesOn
<1> QED  BY <1>2, <1>3, <1>4, <1>5, <1>6, <1>7, <1>8, <1>9

LEMMA RemindKeeps ==
    ASSUME VInv, NEW p \in Proposals, V_!Remind(p)
    PROVE  VInv'
<1> PICK due, todo : due = round.due /\ todo = round.todo
  OBVIOUS
<1> PICK rest : rest = todo \ {p}
  OBVIOUS
<1>1. /\ round.at = "remind" /\ p \in todo
      /\ UNCHANGED <<chamber, standing, reminded, fallback, registered, ballot, cast, results,
                     gaps, mishaps>>
  BY DEF V_!Remind, V_!rows, V_!views, V_!Calm
<1>2. /\ due \subseteq Proposals /\ rest \subseteq Proposals
      /\ round \in [at: {"expiring", "remind"}, due: SUBSET Proposals, todo: SUBSET Proposals]
  BY <1>1, InRounds
<1>3. Pending(round) = due /\ Marking(round) = {} /\ Reminding(round) = todo
  BY <1>1 DEF Pending, Marking, Reminding
<1>4. \A q \in Pending(round) : V_!Begun(q)
  BY DEF VInv, VBegun
<1>5. CASE chamber = "council"
  <2> PICK r : r = [at |-> "mark", due |-> due, todo |-> rest, marking |-> p]
    OBVIOUS
  <2>1. round' = r /\ reminders' = [reminders EXCEPT ![p] = @ + 1]
    BY <1>5 DEF V_!Remind
  <2>2. r \in Rounds /\ Pending(r) = due /\ Reminding(r) = rest /\ Marking(r) = {p}
    BY <1>2 DEF Rounds, Pending, Reminding, Marking
  <2>3. mishaps \in Nat /\ reminders' \in [Proposals -> Nat]
        /\ \A q \in Proposals : reminders[q] \in Nat
    BY <2>1 DEF VInv, VTypes
  <2>4. VTypes' /\ VCast' /\ VEnded' /\ VViews' /\ VTelling'
    BY <1>1, <2>1, <2>2, <2>3 DEF VInv, VTypes, VCast, VEnded, VViews, VTelling, StillTrue
  <2>5. VBegun'
    BY <1>1, <1>3, <1>4, <2>1, <2>2 DEF VInv, VBegun, V_!Begun
  <2>6. VTold'
    BY <1>1, <1>3, <2>1, <2>2 DEF VInv, VTold
  <2>7. VReminded'
    <3>1. todo \cap reminded = {}
      BY <1>3, <1>5 DEF VInv, VReminded
    <3> SUFFICES ASSUME NEW q \in Proposals
                 PROVE  /\ reminders'[q] <= 1 + mishaps
                        /\ q \notin reminded \cup {p} => reminders'[q] <= mishaps
      BY <1>1, <2>1, <2>2, <3>1 DEF VReminded
    <3>2. /\ reminders[q] <= 1 + mishaps
          /\ q \notin reminded => reminders[q] <= mishaps
      BY <1>3, <1>5 DEF VInv, VReminded
    <3>3. CASE q = p
      <4>1. reminders'[q] = reminders[q] + 1 /\ q \notin reminded
        BY <1>1, <2>1, <3>1, <3>3 DEF VInv, VTypes
      <4> QED  BY <2>3, <3>2, <3>3, <4>1
    <3>4. CASE q # p
      <4>1. reminders'[q] = reminders[q]
        BY <2>1, <3>4 DEF VInv, VTypes
      <4> QED  BY <3>2, <4>1
    <3> QED  BY <3>3, <3>4
  <2> QED  BY <2>4, <2>5, <2>6, <2>7 DEF VInv
<1>6. CASE chamber # "council"
  <2> PICK r : r = [round EXCEPT !.todo = rest]
    OBVIOUS
  <2>1. round' = r /\ UNCHANGED reminders
    BY <1>6 DEF V_!Remind
  <2>2. r \in [at: {"expiring", "remind"}, due: SUBSET Proposals, todo: SUBSET Proposals]
        /\ r.at = "remind" /\ r.due = due
    BY <1>1, <1>2
  <2>3. r \in Rounds /\ Pending(r) = due /\ Marking(r) = {} /\ StillTrue(r)
    BY <2>2 DEF Rounds, Pending, Marking, StillTrue
  <2>4. VViews'
    BY <1>1 DEF VInv, VViews
  <2> QED  BY <1>1, <1>3, <1>4, <1>6, <2>1, <2>3, <2>4, RoundGoesOn
<1> QED  BY <1>5, <1>6

LEMMA ExpireKeeps ==
    ASSUME VInv, NEW p \in Proposals, NEW s \in {"passed", "expired"}, V_!Expire(p, s)
    PROVE  VInv'
<1> PICK r : r = [round EXCEPT !.todo = round.todo \ {p}]
  OBVIOUS
<1>1. /\ round.at = "expiring" /\ p \in round.todo /\ round' = r
      /\ standing' = [standing EXCEPT ![p] = s]
      /\ gaps' = IF p \notin round.due \/ V_!Telling(p) THEN gaps \cup {p} ELSE gaps
      /\ UNCHANGED <<chamber, reminded, fallback, registered, ballot, cast, results, reminders,
                     mishaps>>
  BY DEF V_!Expire, V_!GapIf, V_!views, V_!Calm
<1>2. round \in [at: {"expiring", "remind"}, due: SUBSET Proposals, todo: SUBSET Proposals]
  BY <1>1, InRounds
<1>3. r \in [at: {"expiring", "remind"}, due: SUBSET Proposals, todo: SUBSET Proposals]
      /\ r.at = "expiring" /\ r.due = round.due
  BY <1>1, <1>2
<1>4. /\ r \in Rounds /\ Pending(r) = round.due /\ Reminding(r) = {} /\ Marking(r) = {}
      /\ Pending(round) = round.due /\ Marking(round) = {}
  BY <1>1, <1>3 DEF Rounds, Pending, Marking, Reminding
<1>5. /\ standing' \in [Proposals -> Statuses] /\ standing'[p] = s
      /\ \A q \in Proposals : q # p => standing'[q] = standing[q]
  BY <1>1 DEF VInv, VTypes, Statuses, V_!Final
<1>6. VTypes' /\ VCast' /\ VViews' /\ VTelling'
  BY <1>1, <1>3, <1>4, <1>5 DEF VInv, VTypes, VCast, VViews, VTelling, StillTrue
<1>7. VReminded'
  BY <1>1, <1>4 DEF VInv, VReminded
<1>8. VEnded'
  BY <1>1, <1>5 DEF VInv, VEnded
<1>9. VBegun'
  <2>1. \A q \in Proposals : V_!Begun(q) => standing'[q] # "unborn"
    BY <1>5 DEF V_!Begun
  <2>2. \A k \in Callbacks : ballot[k].at # "idle" => ballot[k].on \in Proposals
    BY DEF VInv, VTypes, Commits, Replies, Tellers, V_!NoBallot
  <2>3. round.due \subseteq Proposals
    BY <1>2
  <2> QED  BY <1>1, <1>4, <2>1, <2>2, <2>3 DEF VInv, VBegun, V_!Begun
<1>10. VTold'
  <2> SUFFICES ASSUME NEW q \in Proposals \ gaps', standing'[q] \in V_!Final
               PROVE  /\ \A j \in Callbacks : Tells(ballot[j], q) =>
                            ballot[j].told = standing'[q] /\ Heard(ballot[j])
                      /\ \/ results[q] = standing'[q] \/ q \in round.due
                         \/ \E j \in Callbacks : Tells(ballot[j], q)
    BY <1>1, <1>4 DEF VTold
  <2>1. CASE q = p
    <3>1. q \in round.due /\ ~V_!Telling(p)
      BY <1>1, <2>1
    <3> QED  BY <2>1, <3>1 DEF V_!Telling, Tells
  <2>2. CASE q # p
    <3>1. standing'[q] = standing[q] /\ q \notin gaps
      BY <1>1, <1>5, <2>2
    <3> QED  BY <1>4, <3>1 DEF VInv, VTold
  <2> QED  BY <2>1, <2>2
<1> QED  BY <1>6, <1>7, <1>8, <1>9, <1>10 DEF VInv

LEMMA BroadcastKeeps ==
    ASSUME VInv, NEW p \in Proposals, V_!Broadcast(p) \/ V_!BroadcastFails(p)
    PROVE  VInv'
<1> PICK rest, word : rest = round.todo \ {p} /\ word = standing[p]
  OBVIOUS
<1> PICK r : r = round'
  OBVIOUS
<1>1. /\ UNCHANGED <<chamber, standing, reminded, ballot, cast, results, reminders>> /\ VViews'
      /\ mishaps' \in {mishaps, mishaps + 1}
      /\ p \in Pending(round) /\ Marking(round) = {} /\ Pending(round) = rest \cup {p}
      /\ round.at \in {"broadcast", "tell"}
  <2>1. /\ UNCHANGED <<chamber, standing, reminded, ballot, cast, results, reminders>>
        /\ UNCHANGED <<fallback, registered>> /\ mishaps' \in {mishaps, mishaps + 1}
        /\ \/ round.at = "broadcast" /\ p \in round.todo
           \/ round.at = "tell" /\ p = round.on
    BY DEF V_!Broadcast, V_!BroadcastFails, V_!rows, V_!views, V_!histories, V_!Calm, V_!Mishap
  <2>2. p \in Pending(round) /\ Marking(round) = {} /\ Pending(round) = rest \cup {p}
    BY <2>1 DEF Pending, Marking
  <2> QED  BY <2>1, <2>2 DEF VInv, VViews
<1>2. rest \subseteq Proposals /\ \A q \in rest \cup {p} : V_!Begun(q)
  BY <1>1, InRounds DEF VInv, VBegun
<1>3. ASSUME r = [at |-> "broadcast", todo |-> rest]
      PROVE  r \in Rounds /\ Pending(r) = rest /\ Reminding(r) = {} /\ Marking(r) = {}
             /\ StillTrue(r)
  BY <1>2, <1>3 DEF Rounds, Pending, Marking, Reminding, StillTrue
<1>4. CASE V_!BroadcastFails(p)
  <2>1. /\ r = [at |-> "broadcast", todo |-> rest]
        /\ gaps' = IF p \notin V_!Open THEN gaps \cup {p} ELSE gaps
    BY <1>4 DEF V_!BroadcastFails, V_!GapIf
  <2>2. Pending(round) \subseteq rest \cup gaps' \cup V_!Open /\ gaps \subseteq gaps'
    BY <1>1, <2>1
  <2> QED  BY <1>1, <1>2, <1>3, <2>1, <2>2, RoundGoesOn
<1>5. CASE V_!Broadcast(p) /\ p \in V_!Open
  <2>1. /\ round' = [round EXCEPT !.todo = rest] /\ round.at = "broadcast" /\ UNCHANGED gaps
    BY <1>5 DEF V_!Broadcast, V_!histories
  <2>2. round \in [at: {"broadcast"}, todo: SUBSET Proposals]
    BY <2>1, InRounds
  <2>3. r = [at |-> "broadcast", todo |-> rest]
    BY <2>1, <2>2
  <2> QED  BY <1>1, <1>2, <1>3, <1>5, <2>1, <2>3, RoundGoesOn
<1>6. CASE V_!Broadcast(p) /\ p \notin V_!Open
  <2>1. r = [at |-> "tell", todo |-> rest, on |-> p, told |-> word] /\ UNCHANGED gaps
    BY <1>6 DEF V_!Broadcast, V_!Announced, V_!histories
  <2>2. word \in Statuses /\ word \notin {"open", "unborn"}
    BY <1>2, <1>6 DEF VInv, VTypes, V_!Open, V_!Begun
  <2>3. /\ r \in Rounds /\ Pending(r) = rest \cup {p} /\ Reminding(r) = {} /\ Marking(r) = {}
        /\ StillTrue(r)
    BY <1>2, <2>1, <2>2 DEF Rounds, Pending, Marking, Reminding, StillTrue
  <2> QED  BY <1>1, <1>2, <2>1, <2>3, RoundGoesOn
<1> QED  BY <1>4, <1>5, <1>6

\* Members are word of p what was read; p is word of no more.
LEMMA ToldKeeps ==
    ASSUME VInv, V_!BroadcastResult
    PROVE  VInv'
<1> PICK p, word, todo : p = round.on /\ word = round.told /\ todo = round.todo
  OBVIOUS
<1> PICK r : r = [at |-> "broadcast", todo |-> todo]
  OBVIOUS
<1>1. /\ round.at = "tell" /\ round' = r /\ results' = [results EXCEPT ![p] = word]
      /\ UNCHANGED <<chamber, standing, reminded, fallback, registered, ballot, cast, reminders,
                     gaps, mishaps>>
  BY DEF V_!BroadcastResult, V_!Announce, V_!rows, V_!views, V_!Calm
<1>2. p \in Proposals /\ word \in Statuses /\ todo \subseteq Proposals
  BY <1>1, InRounds
<1>3. /\ r \in Rounds /\ Pending(r) = todo /\ Reminding(r) = {} /\ Marking(r) = {}
      /\ Pending(round) = todo \cup {p} /\ Marking(round) = {} /\ StillTrue(r)
  BY <1>1, <1>2 DEF Rounds, Pending, Marking, Reminding, StillTrue
<1>4. /\ standing[p] \notin {"open", "unborn"}
      /\ p \in gaps \/ standing[p] \notin V_!Final \/ word = standing[p]
  BY <1>1 DEF VInv, VTelling, StillTrue
<1>5. /\ results' \in [Proposals -> Statuses \cup {"none"}] /\ results'[p] = word
      /\ \A q \in Proposals : q # p => results'[q] = results[q]
  BY <1>1, <1>2 DEF VInv, VTypes
<1>6. VTypes' /\ VCast' /\ VReminded' /\ VViews' /\ VTelling'
  BY <1>1, <1>3, <1>5 DEF VInv, VTypes, VCast, VReminded, VViews, VTelling, StillTrue
<1>7. VBegun' /\ VEnded'
  BY <1>1, <1>3, <1>4, <1>5 DEF VInv, VBegun, VEnded, V_!Begun
<1>8. VTold'
  <2> SUFFICES ASSUME NEW q \in Proposals \ gaps, standing[q] \in V_!Final
               PROVE  /\ \A j \in Callbacks : Tells(ballot[j], q) =>
                            ballot[j].told = standing[q] /\ Heard(ballot[j])
                      /\ \/ results'[q] = standing[q] \/ q \in todo
                         \/ \E j \in Callbacks : Tells(ballot[j], q)
    BY <1>1, <1>3 DEF VTold
  <2> QED  BY <1>3, <1>4, <1>5 DEF VInv, VTold
<1> QED  BY <1>6, <1>7, <1>8 DEF VInv

LEMMA RestartKeeps == VInv /\ V_!Restart => VInv'
<1> SUFFICES ASSUME VInv, V_!Restart PROVE VInv'
  OBVIOUS
<1> PICK r : r = [at |-> "start"]
  OBVIOUS
<1>1. /\ round' = r /\ ballot' = [k \in Callbacks |-> V_!NoBallot]
      /\ gaps' = gaps \cup V_!Untold /\ mishaps' = mishaps + 1
      /\ fallback' = NoProposal /\ registered' = {}
      /\ UNCHANGED <<chamber, standing, reminded, cast, results, reminders>>
  BY DEF V_!Restart, V_!rows, V_!Mishap
<1>2. r \in Rounds /\ Pending(r) = {} /\ Reminding(r) = {} /\ Marking(r) = {}
  BY DEF Rounds, Pending, Reminding, Marking
<1>3. \A k \in Callbacks : ballot'[k] = V_!NoBallot /\ ballot'[k].at = "idle"
  BY <1>1 DEF V_!NoBallot
<1>4. mishaps \in Nat /\ \A p \in Proposals : reminders[p] \in Nat
  BY DEF VInv, VTypes
<1>5. VTypes'
  <2>1. ballot' \in [Callbacks -> {V_!NoBallot} \cup Commits \cup Replies \cup Tellers]
    BY <1>1
  <2> QED  BY <1>1, <1>2, <1>4, <2>1 DEF VInv, VTypes
<1>6. VCast' /\ VBegun' /\ VViews' /\ VTelling'
  BY <1>1, <1>2, <1>3 DEF VInv, VCast, VBegun, VViews, VTelling, StillTrue
<1>7. \A k \in Callbacks, p \in Proposals : ~Tells(ballot'[k], p)
  BY <1>3 DEF Tells
<1>8. VEnded'
  <2> SUFFICES ASSUME NEW p \in Proposals, standing[p] \in {"open", "unborn"}
               PROVE  results[p] = "none" /\ \A j \in Callbacks : ~Tells(ballot'[j], p)
    BY <1>1 DEF VEnded
  <2> QED  BY <1>7 DEF VInv, VEnded
<1>9. VTold'
  <2> SUFFICES ASSUME NEW p \in Proposals \ gaps', standing[p] \in V_!Final
               PROVE  /\ \A j \in Callbacks : ~Tells(ballot'[j], p)
                      /\ results[p] = standing[p]
    BY <1>1 DEF VTold
  <2> QED  BY <1>1, <1>7 DEF V_!Untold
<1>10. VReminded'
  <2> SUFFICES ASSUME chamber = "council", NEW p \in Proposals
               PROVE  reminders[p] <= 1 + mishaps
    BY <1>1, <1>2, <1>4 DEF VReminded
  <2> QED  BY DEF VInv, VReminded
<1> QED  BY <1>5, <1>6, <1>8, <1>9, <1>10 DEF VInv

LEMMA VInvKept == VInv /\ [V_!Next]_(V_!votingVars) => VInv'
<1> SUFFICES ASSUME VInv, [V_!Next]_(V_!votingVars) PROVE VInv'
  OBVIOUS
<1>1. CASE UNCHANGED V_!votingVars
  BY <1>1 DEF V_!votingVars, V_!rows, V_!views, V_!histories, VInv, VTypes, VBegun, VEnded, VCast,
     VViews, VTold, VTelling, StillTrue, VReminded, V_!Begun
<1>2. ASSUME NEW k \in Callbacks, V_!VotingView(k) PROVE VInv'
  BY <1>2, VoteKeeps, CommitKeeps, WillTell, ReplyKeeps DEF V_!VotingView
<1>3. CASE V_!Round
  BY <1>3, RoundKeeps, RemindKeeps, ExpireKeeps, BroadcastKeeps, ToldKeeps DEF V_!Round
<1> QED  BY <1>1, <1>2, <1>3, ProposalsKeep, RestartKeeps DEF V_!Next

\* A vote counts for the proposal that its message shows (VotingView, _handle_vote),
\* for any proposals and restarts - unless a message of an earlier process shows it,
\* and it was not the only one that was open when views were registered
\* (_register_persistent_views): then the vote counts for one of those.
THEOREM VotesCountWhereCast == MCSpec => []CountedWhereCast
<1>1. VInv => CountedWhereCast
  BY DEF VInv, VCast, Placed, CountedWhereCast, V_!CountedWhereCast
<1> QED  BY <1>1, Voting_, VInvAtFirst, VInvKept, PTL DEF V_!Spec

\* Members are told how every proposal ended, unless the history gaps says why not,
\* and of nothing else; and the council reminds of a proposal once, and once more
\* at most for every mishap (_handle_vote, the scheduler's rounds and
\* _broadcast_result), however many votes and rounds cross.
THEOREM TrueAnnouncements == MCSpec => []AnnouncementsAreTrue
<1>1. VInv => V_!ResultsAreTold
  <2> SUFFICES ASSUME VInv, round.at = "asleep", \A k \in Callbacks : ballot[k].at = "idle",
                      NEW p \in Proposals, standing[p] \in V_!Final, p \notin gaps
               PROVE  results[p] = standing[p]
    BY DEF V_!ResultsAreTold
  <2>1. Pending(round) = {} /\ \A k \in Callbacks : ~Tells(ballot[k], p)
    BY DEF Pending, Tells
  <2> QED  BY <2>1 DEF VInv, VTold
<1>2. VInv => V_!OnlyResultsAreTold
  BY DEF VInv, VEnded, V_!OnlyResultsAreTold, V_!Open
<1>3. VInv => V_!RemindedOnce
  BY DEF VInv, VReminded, V_!RemindedOnce
<1>4. VInv => AnnouncementsAreTrue
  BY <1>1, <1>2, <1>3 DEF AnnouncementsAreTrue
<1> QED  BY <1>4, Voting_, VInvAtFirst, VInvKept, PTL DEF V_!Spec

-----------------------------------------------------------------------------
(* Payments from a member's own panel *)

\* Where the points of x may go; sure tells whether its account was asked for.
Right(x, sure) == {P_!Account(x)} \cup IF sure THEN {} ELSE {P_!Usual(x)}
Accounts == P_!Payees \X {"usual", "moved"}
Paid == [id: Nat, named: P_!Payees, account: Accounts, sure: BOOLEAN, amount: Amounts,
         state: {"pending", "paid", "dropped"}]

\* What a callback knows, of n transfers asked for and the payments ps.
HandOk(w, n, ps) ==
    /\ w.at = "load" => w \in [at: {"load"}, from: {"tab", "form"}]
    /\ w.at = "resolve" => w.payee \in P_!Payees
    /\ w.at \in {"form", "pay"} => /\ w.payee \in P_!Payees /\ w.sure \in BOOLEAN
                                   /\ w.account \in Right(w.payee, w.sure)
    /\ w.at = "pay" => w.amount \in Amounts
    /\ w.at = "tell" => /\ w.id \in 1..n /\ w.ok \in BOOLEAN
                        /\ w.ok => \E p \in ps : p.id = w.id
                        /\ ~w.ok => \A p \in ps : p.id # w.id

PInv ==
    /\ asked \in Nat /\ payments \subseteq Paid
    /\ hand = [h \in Clicks |-> hand[h]]
    /\ \A h \in Clicks : HandOk(hand[h], asked, payments)
    /\ \A p \in payments : p.id <= asked
    /\ \A a \in answers : a.id \in 1..asked
    /\ P_!PaidAsNamed /\ P_!ToldOfPayments

LEMMA RightIsAnAccount ==
    ASSUME NEW x \in P_!Payees, NEW sure \in BOOLEAN
    PROVE  Right(x, sure) \subseteq Accounts
BY DEF Right, Accounts, P_!Account, P_!Usual

LEMMA PInvAtFirst == P_!Init => PInv
<1> SUFFICES ASSUME P_!Init PROVE PInv
  OBVIOUS
<1>1. \A h \in Clicks : hand[h].at = "idle"
  BY DEF P_!Init, P_!NoHand
<1> QED  BY <1>1 DEF P_!Init, PInv, HandOk, P_!PaidAsNamed, P_!ToldOfPayments

\* The callback h goes on; no transfer is asked for, nobody is told of one.
LEMMA HandKeeps ==
    ASSUME PInv, NEW h \in Clicks, NEW w, P_!Go(h, w), HandOk(w, asked, payments),
           UNCHANGED <<asked, payments, answers>>
    PROVE  PInv'
<1>1. /\ hand' = [i \in Clicks |-> hand'[i]] /\ hand'[h] = w
      /\ \A i \in Clicks \ {h} : hand'[i] = hand[i]
  BY DEF P_!Go, PInv
<1>2. \A i \in Clicks : HandOk(hand'[i], asked, payments)
  BY <1>1 DEF PInv
<1> QED  BY <1>1, <1>2 DEF PInv, P_!PaidAsNamed, P_!ToldOfPayments

\* Another transfer has been asked for.
LEMMA MoreAsked ==
    ASSUME NEW w, NEW n \in Nat, NEW ps, NEW qs, HandOk(w, n, ps), ps \subseteq qs,
           \A q \in qs : q \in ps \/ q.id = n + 1
    PROVE  HandOk(w, n + 1, qs)
<1>1. CASE w.at # "tell"
  BY <1>1 DEF HandOk
<1>2. CASE w.at = "tell"
  <2>1. w.id \in 1..n /\ w.id \in 1..(n + 1) /\ w.id # n + 1
    BY <1>2 DEF HandOk
  <2> QED  BY <1>2, <2>1 DEF HandOk
<1> QED  BY <1>1, <1>2

LEMMA DrawingKeepsPayments ==
    ASSUME PInv, NEW h \in Clicks, P_!PersonalPanelView(h)
    PROVE  PInv'
<1>1. UNCHANGED <<asked, payments, answers>>
  BY DEF P_!PersonalPanelView, P_!_on_home_tab, P_!_on_transfer_tab, P_!Turn, P_!on_property_tab,
         P_!on_government_tab, P_!turn_leaf, P_!on_refresh, P_!refresh_callback, P_!Redraw,
         P_!RefreshFails, P_!Arrive, P_!ArriveRefused, P_!WelfareApplicationModal,
         P_!LicenseApplicationModal, P_!Submit, P_!Refuse, P_!Load, P_!purseVars, P_!tellings
<1>2. \/ \E w : /\ P_!Go(h, w)
                /\ \/ w.at \in {"edit", "refresh", "refreshed", "loading", "idle"}
                   \/ w \in [at: {"load"}, from: {"tab", "form"}]
      \/ UNCHANGED hand
  <2>1. CASE \/ P_!_on_home_tab(h) \/ P_!_on_transfer_tab(h) \/ P_!on_property_tab(h)
             \/ (\E k \in 0..entries : P_!turn_leaf(h, k)) \/ P_!Redraw(h)
    <3>1. \E t : P_!Go(h, [at |-> "edit", view |-> t])
      BY <2>1 DEF P_!_on_home_tab, P_!_on_transfer_tab, P_!Turn, P_!on_property_tab, P_!turn_leaf,
                  P_!Redraw
    <3> QED  BY <3>1
  <2>2. CASE \/ P_!on_refresh(h) \/ P_!refresh_callback(h)
    BY <2>2 DEF P_!on_refresh, P_!refresh_callback
  <2>3. CASE P_!RefreshFails(h) \/ P_!Arrive(h) \/ P_!ArriveRefused(h)
    BY <2>3 DEF P_!RefreshFails, P_!Arrive, P_!ArriveRefused, P_!NoHand
  <2>4. CASE P_!on_government_tab(h) \/ P_!WelfareApplicationModal(h) \/ P_!LicenseApplicationModal(h)
    BY <2>4 DEF P_!on_government_tab, P_!WelfareApplicationModal, P_!LicenseApplicationModal,
                P_!Submit, P_!Refuse
  <2>5. ASSUME NEW ok \in BOOLEAN, P_!Load(h, ok)
        PROVE  \E w : /\ P_!Go(h, w) /\ w.at \in {"loading", "idle", "edit"}
    <3>1. CASE hand[h].at = "load"
      <4> PICK w : w = [hand[h] EXCEPT !.at = "loading"]
        OBVIOUS
      <4>1. hand[h] \in [at: {"load"}, from: {"tab", "form"}]
        BY <3>1 DEF PInv, HandOk
      <4>2. w.at = "loading"
        BY <4>1
      <4> QED  BY <2>5, <3>1, <4>2 DEF P_!Load
    <3>2. CASE hand[h].at # "load" /\ hand[h].from = "form"
      <4>1. P_!Go(h, P_!NoHand)
        BY <2>5, <3>2 DEF P_!Load
      <4> QED  BY <4>1 DEF P_!NoHand
    <3>3. CASE hand[h].at # "load" /\ hand[h].from # "form"
      <4>1. \E t : P_!Go(h, [at |-> "edit", view |-> t])
        BY <2>5, <3>3 DEF P_!Load
      <4> QED  BY <4>1
    <3> QED  BY <3>1, <3>2, <3>3
  <2> QED  BY <2>1, <2>2, <2>3, <2>4, <2>5 DEF P_!PersonalPanelView
<1>3. ASSUME NEW w, P_!Go(h, w),
             \/ w.at \in {"edit", "refresh", "refreshed", "loading", "idle"}
             \/ w \in [at: {"load"}, from: {"tab", "form"}]
      PROVE  PInv'
  <2>1. HandOk(w, asked, payments)
    BY <1>3 DEF HandOk
  <2> QED  BY <1>1, <1>3, <2>1, HandKeeps
<1>4. CASE UNCHANGED hand
  BY <1>1, <1>4 DEF PInv, P_!PaidAsNamed, P_!ToldOfPayments
<1> QED  BY <1>2, <1>3, <1>4

LEMMA PaymentKeeps ==
    ASSUME PInv, NEW h \in Clicks, P_!Payment(h)
    PROVE  PInv'
<1> PICK w : w = hand[h]
  OBVIOUS
<1>0. HandOk(w, asked, payments) /\ asked \in Nat
  BY DEF PInv
<1>1. ASSUME NEW x \in P_!Payees, NEW account, NEW b, NEW sure \in BOOLEAN,
             P_!Form(h, x, account, b, sure), account \in Right(x, sure)
      PROVE  PInv'
  <2> PICK f : f = [at |-> "form", payee |-> x, account |-> account, available |-> b,
                    sure |-> sure]
    OBVIOUS
  <2>1. P_!Go(h, f) /\ UNCHANGED <<asked, payments, answers>>
    BY <1>1 DEF P_!Form, P_!purseVars
  <2>2. HandOk(f, asked, payments)
    BY <1>1 DEF HandOk
  <2> QED  BY <2>1, <2>2, HandKeeps
<1>2. ASSUME NEW x \in Members, NEW b \in offers, P_!_on_user_select(h, x, b) PROVE PInv'
  BY <1>1, <1>2 DEF P_!_on_user_select, P_!Payees, Right
<1>3. ASSUME NEW x \in Firms, NEW b \in offers, P_!on_company_selected(h, x, b) PROVE PInv'
  BY <1>1, <1>3 DEF P_!on_company_selected, P_!Payees, Right
<1>4. ASSUME NEW x \in Institutions, NEW b \in offers, P_!select_institution(h, x, b) PROVE PInv'
  BY <1>1, <1>4 DEF P_!select_institution, P_!Payees, P_!Offices, Right
<1>5. ASSUME NEW x \in Departments, NEW b \in offers, P_!_on_govt_select(h, x, b) PROVE PInv'
  <2> PICK f : f = [at |-> "resolve", payee |-> x, available |-> b]
    OBVIOUS
  <2>1. P_!Go(h, f) /\ UNCHANGED <<asked, payments, answers>>
    BY <1>5 DEF P_!_on_govt_select, P_!purseVars, P_!tellings
  <2>2. HandOk(f, asked, payments)
    BY DEF HandOk, P_!Payees, P_!Offices
  <2> QED  BY <2>1, <2>2, HandKeeps
<1>6. ASSUME NEW ok \in BOOLEAN, P_!_resolve_department_account_id(h, ok) PROVE PInv'
  <2> PICK account : account = IF ok THEN P_!Account(w.payee) ELSE P_!Usual(w.payee)
    OBVIOUS
  <2>1. w.at = "resolve" /\ P_!Form(h, w.payee, account, w.available, ok)
    BY <1>6 DEF P_!_resolve_department_account_id
  <2>2. account \in Right(w.payee, ok) /\ w.payee \in P_!Payees
    BY <1>0, <2>1 DEF Right, HandOk
  <2> QED  BY <1>1, <2>1, <2>2
<1>7. ASSUME NEW n \in Amounts, P_!_handle_transfer(h, n) PROVE PInv'
  <2> PICK f : f = [at |-> "pay", payee |-> w.payee, account |-> w.account, amount |-> n,
                    sure |-> w.sure]
    OBVIOUS
  <2>1. /\ P_!Go(h, f) \/ P_!Go(h, P_!NoHand)
        /\ UNCHANGED <<asked, payments, answers>>
    BY <1>7 DEF P_!_handle_transfer, P_!Ordered, P_!purseVars, P_!tellings
  <2>2. w.at = "form"
    BY <1>7 DEF P_!_handle_transfer
  <2>3. HandOk(f, asked, payments) /\ HandOk(P_!NoHand, asked, payments)
    BY <1>0, <2>2 DEF HandOk, P_!NoHand
  <2> QED  BY <2>1, <2>3, HandKeeps
<1>8. CASE P_!transfer_callback(h)
  <2> PICK n, f, p : /\ n = asked + 1
                     /\ f = [at |-> "tell", id |-> n, ok |-> TRUE]
                     /\ p = [id |-> n, named |-> w.payee, account |-> w.account, sure |-> w.sure,
                             amount |-> w.amount,
                             state |-> IF mode = "pooled" THEN "pending" ELSE "paid"]
    OBVIOUS
  <2>1. /\ w.at = "pay" /\ asked' = n /\ payments' = payments \cup {p}
        /\ P_!Go(h, f) /\ UNCHANGED answers
    BY <1>8 DEF P_!transfer_callback, P_!Transfer, P_!tellings
  <2>2. /\ w.payee \in P_!Payees /\ w.sure \in BOOLEAN /\ w.amount \in Amounts
        /\ w.account \in Right(w.payee, w.sure) /\ w.account \in Accounts
    BY <1>0, <2>1, RightIsAnAccount DEF HandOk
  <2>3. /\ p \in Paid /\ p.id = n /\ p.account \in Right(p.named, p.sure)
        /\ n \in Nat /\ n > asked /\ n \in 1..n
    BY <1>0, <2>2 DEF Paid
  <2>4. /\ hand' = [i \in Clicks |-> hand'[i]] /\ hand'[h] = f
        /\ \A i \in Clicks \ {h} : hand'[i] = hand[i]
    BY <2>1 DEF P_!Go, PInv
  <2>5. \A i \in Clicks : HandOk(hand'[i], n, payments')
    <3>1. HandOk(f, n, payments')
      BY <2>1, <2>3 DEF HandOk
    <3>2. ASSUME NEW i \in Clicks PROVE HandOk(hand[i], n, payments')
      <4> PICK ps, qs : ps = payments /\ qs = payments'
        OBVIOUS
      <4>1. HandOk(hand[i], asked, ps) /\ ps \subseteq qs /\ \A q \in qs : q \in ps \/ q.id = asked + 1
        BY <2>1, <2>3 DEF PInv
      <4> QED  BY <1>0, <4>1, MoreAsked
    <3> QED  BY <2>4, <3>1, <3>2
  <2>6. P_!PaidAsNamed'
    BY <2>1, <2>3 DEF PInv, P_!PaidAsNamed, Right
  <2>7. \A a \in answers : a.id \in 1..n /\ a.id # n
    BY <1>0, <2>3 DEF PInv
  <2>8. P_!ToldOfPayments'
    BY <2>1, <2>3, <2>7 DEF PInv, P_!ToldOfPayments
  <2>9. \A q \in payments' : q.id <= n /\ q \in Paid
    <3>1. \A q \in payments : q.id \in Nat /\ q.id <= asked /\ q \in Paid
      BY DEF PInv, Paid
    <3> QED  BY <1>0, <2>1, <2>3, <3>1
  <2> QED  BY <2>1, <2>3, <2>4, <2>5, <2>6, <2>7, <2>8, <2>9 DEF PInv
<1>9. CASE P_!transfer_denied(h)
  <2> PICK n, f : n = asked + 1 /\ f = [at |-> "tell", id |-> n, ok |-> FALSE]
    OBVIOUS
  <2>1. asked' = n /\ P_!Go(h, f) /\ UNCHANGED <<payments, answers>>
    BY <1>9 DEF P_!transfer_denied, P_!tellings
  <2>2. n \in Nat /\ n > asked /\ n \in 1..n
    BY <1>0
  <2>3. /\ hand' = [i \in Clicks |-> hand'[i]] /\ hand'[h] = f
        /\ \A i \in Clicks \ {h} : hand'[i] = hand[i]
    BY <2>1 DEF P_!Go, PInv
  <2>4. \A q \in payments : q.id \in Nat /\ q.id <= asked /\ q.id <= n /\ q.id # n
    BY <1>0, <2>2 DEF PInv, Paid
  <2>5. \A i \in Clicks : HandOk(hand'[i], n, payments)
    <3>1. HandOk(f, n, payments)
      BY <2>2, <2>4 DEF HandOk
    <3>2. ASSUME NEW i \in Clicks PROVE HandOk(hand[i], n, payments)
      BY <1>0, MoreAsked DEF PInv
    <3> QED  BY <2>3, <3>1, <3>2
  <2>6. \A a \in answers : a.id \in 1..n
    BY <1>0, <2>2 DEF PInv
  <2> QED  BY <2>1, <2>2, <2>3, <2>4, <2>5, <2>6 DEF PInv, P_!PaidAsNamed, P_!ToldOfPayments
<1>10. ASSUME NEW refused \in BOOLEAN, P_!tell(h, refused) PROVE PInv'
  <2>1. /\ w.at = "tell" /\ P_!Go(h, P_!NoHand) /\ UNCHANGED <<asked, payments>>
    BY <1>10 DEF P_!tell, P_!purseVars
  <2> PICK ok \in BOOLEAN : ok = (w.ok /\ ~refused)
    <3>1. CASE w.ok /\ ~refused
      BY <3>1
    <3>2. CASE ~(w.ok /\ ~refused)
      BY <3>2
    <3> QED  BY <3>1, <3>2
  <2> PICK a : a = [id |-> w.id, ok |-> ok, late |-> refused]
    OBVIOUS
  <2>2. answers' = answers \cup {a}
    BY <1>10 DEF P_!tell
  <2>3. /\ a.id \in 1..asked
        /\ a.ok => \E p \in payments : p.id = a.id
        /\ ~a.ok /\ ~a.late => \A p \in payments : p.id # a.id
    BY <1>0, <2>1 DEF HandOk
  <2>4. /\ hand' = [i \in Clicks |-> hand'[i]] /\ hand'[h] = P_!NoHand
        /\ \A i \in Clicks \ {h} : hand'[i] = hand[i]
    BY <2>1 DEF P_!Go, PInv
  <2>5. \A i \in Clicks : HandOk(hand'[i], asked, payments)
    <3>1. HandOk(P_!NoHand, asked, payments)
      BY DEF HandOk, P_!NoHand
    <3> QED  BY <2>4, <3>1 DEF PInv
  <2> QED  BY <2>1, <2>2, <2>3, <2>4, <2>5 DEF PInv, P_!PaidAsNamed, P_!ToldOfPayments
<1> QED  BY <1>2, <1>3, <1>4, <1>5, <1>6, <1>7, <1>8, <1>9, <1>10 DEF P_!Payment

LEMMA SettlingKeeps ==
    ASSUME PInv, NEW p \in payments, NEW s \in {"paid", "dropped"}, P_!pool_settles(p, s)
    PROVE  PInv'
<1> PICK q : q = [p EXCEPT !.state = s]
  OBVIOUS
<1>1. /\ payments' = (payments \ {p}) \cup {q}
      /\ UNCHANGED <<asked, hand, answers>>
  BY DEF P_!pool_settles, P_!tellings
<1>2. /\ q \in Paid /\ q.id = p.id /\ q.named = p.named /\ q.account = p.account
      /\ q.sure = p.sure
  BY DEF PInv, Paid
<1>3. \A i : (\E r \in payments' : r.id = i) <=> (\E r \in payments : r.id = i)
  <2>1. ASSUME NEW i, NEW r \in payments', r.id = i PROVE \E t \in payments : t.id = i
    <3>1. CASE r = q
      BY <1>2, <2>1, <3>1
    <3>2. CASE r # q
      BY <1>1, <2>1, <3>2
    <3> QED  BY <3>1, <3>2
  <2>2. ASSUME NEW i, NEW r \in payments, r.id = i PROVE \E t \in payments' : t.id = i
    <3>1. CASE r = p
      BY <1>1, <1>2, <2>2, <3>1
    <3>2. CASE r # p
      BY <1>1, <2>2, <3>2
    <3> QED  BY <3>1, <3>2
  <2> QED  BY <2>1, <2>2
<1>4. \A h \in Clicks : HandOk(hand[h], asked, payments')
  <2> SUFFICES ASSUME NEW h \in Clicks PROVE HandOk(hand[h], asked, payments')
    OBVIOUS
  <2>1. HandOk(hand[h], asked, payments)
    BY DEF PInv
  <2> QED  BY <1>3, <2>1 DEF HandOk
<1>5. P_!PaidAsNamed' /\ P_!ToldOfPayments'
  <2>1. P_!PaidAsNamed'
    BY <1>1, <1>2 DEF PInv, P_!PaidAsNamed
  <2> SUFFICES ASSUME NEW a \in answers
               PROVE  /\ a.ok => \E r \in payments' : r.id = a.id
                      /\ ~a.ok /\ ~a.late => \A r \in payments' : r.id # a.id
    BY <1>1, <2>1 DEF P_!ToldOfPayments
  <2>2. /\ a.ok => \E r \in payments : r.id = a.id
        /\ ~a.ok /\ ~a.late => \A r \in payments : r.id # a.id
    BY DEF PInv, P_!ToldOfPayments
  <2> QED  BY <1>3, <2>2
<1> QED  BY <1>1, <1>2, <1>4, <1>5 DEF PInv

LEMMA PInvKept == PInv /\ [P_!Next]_(P_!personalVars) => PInv'
<1> SUFFICES ASSUME PInv, [P_!Next]_(P_!personalVars) PROVE PInv'
  OBVIOUS
<1>1. CASE UNCHANGED P_!personalVars
  BY <1>1 DEF P_!personalVars, P_!purseVars, P_!tellings, PInv, P_!PaidAsNamed, P_!ToldOfPayments
<1>2. CASE P_!on_transfer_button \/ \E n \in Amounts : P_!Income(n)
  <2>1. UNCHANGED <<asked, payments, hand, answers>>
    BY <1>2 DEF P_!on_transfer_button, P_!Income, P_!purseVars, P_!tellings
  <2> QED  BY <2>1 DEF PInv, P_!PaidAsNamed, P_!ToldOfPayments
<1>3. ASSUME NEW h \in Clicks, P_!PersonalPanelView(h) \/ P_!Payment(h) PROVE PInv'
  BY <1>3, DrawingKeepsPayments, PaymentKeeps
<1>4. ASSUME NEW p \in payments, NEW s \in {"paid", "dropped"}, P_!pool_settles(p, s) PROVE PInv'
  BY <1>4, SettlingKeeps
<1> QED  BY <1>1, <1>2, <1>3, <1>4 DEF P_!Next

\* Points go to the payee whom the form named, and the author is told of a success
\* that was one, and of a failure only if nothing was accepted or the success could
\* not be told (PersonalPanelView's closures, transfer_callback and
\* _handle_transfer), however menus, forms and the pool interleave.
THEOREM TruePayments == MCSpec => []PaymentsAreAsTold
<1>1. PInv => PaymentsAreAsTold
  BY DEF PInv, PaymentsAreAsTold
<1> QED  BY <1>1, Personal_, PInvAtFirst, PInvKept, PTL DEF P_!Spec

-----------------------------------------------------------------------------
(* InteriorDesk *)

Verdicts == {"approved", "rejected"}
Fates == {"unmade", "pending"} \union Verdicts

\* Whoever is about to tell an author tells the decision f that was taken.
Truthful(w, f) == w.at = "tell" => w.app \in Applied /\ w.what \in Verdicts /\ f[w.app] = w.what

\* A callback decides as ordered in o, and what follows its edit is no news, or
\* true news.
Sound(w, f, o) ==
    /\ Truthful(w, f)
    /\ w.at \in {"load", "loaded", "edit"} => w.next.at \in {"idle", "tell"} /\ Truthful(w.next, f)
    /\ w.at = "decide" => w.app \in Applied /\ w.what \in Verdicts /\ <<w.app, w.what>> \in o
    /\ w.at = "form" => w.app \in Applied

News(s, f) == s[1] \in Applied /\ s[2] \in Verdicts /\ f[s[1]] = s[2]

DInv ==
    /\ fate \in [Applied -> Fates]
    /\ DOMAIN duty = Officials /\ duty = [h \in Officials |-> duty[h]]
    /\ \A h \in Officials : Sound(duty[h], fate, ordered)
    /\ \A s \in said : News(s, fate)
    /\ \A a \in Applied : fate[a] \in Verdicts => <<a, fate[a]>> \in ordered

\* A decision is kept, and so is the memory of orders.
Keeps ==
    /\ fate' \in [Applied -> Fates]
    /\ \A a \in Applied : fate[a] \in Verdicts => fate'[a] = fate[a]
    /\ \A a \in Applied : fate'[a] \in Verdicts => <<a, fate'[a]>> \in ordered'
    /\ ordered \subseteq ordered'

LEMMA DInvAtFirst == I_!Init => DInv
BY DEF I_!Init, DInv, I_!OffDuty, Sound, Truthful, Fates, Verdicts

LEMMA SoundStays ==
    ASSUME DInv, Keeps, NEW w, Sound(w, fate, ordered)
    PROVE  Sound(w, fate', ordered')
<1>1. ASSUME NEW v, Truthful(v, fate) PROVE Truthful(v, fate')
  BY <1>1 DEF Truthful, Keeps
<1> QED  BY <1>1 DEF Sound, Keeps

LEMMA Takes ==
    ASSUME DInv, Keeps, NEW h \in Officials, NEW w, I_!Do(h, w), Sound(w, fate', ordered'),
           \A s \in said' : s \in said \/ News(s, fate')
    PROVE  DInv'
<1>1. /\ DOMAIN duty' = Officials /\ duty' = [g \in Officials |-> duty'[g]]
      /\ \A g \in Officials : duty'[g] = IF g = h THEN w ELSE duty[g]
  BY DEF I_!Do, DInv
<1>2. \A g \in Officials : Sound(duty'[g], fate', ordered')
  BY <1>1, SoundStays DEF DInv
<1>3. \A s \in said' : News(s, fate')
  BY DEF DInv, News, Keeps
<1> QED  BY <1>1, <1>2, <1>3 DEF DInv, Keeps

LEMMA NothingDecided == DInv /\ UNCHANGED <<fate, ordered>> => Keeps
BY DEF DInv, Keeps

\* Nothing is decided or told, and a callback goes on with sound work.
LEMMA Works ==
    ASSUME DInv, NEW h \in Officials, NEW w, I_!Do(h, w), Sound(w, fate, ordered),
           UNCHANGED <<fate, ordered, said>>
    PROVE  DInv'
BY NothingDecided, Takes

LEMMA Rests == ASSUME DInv, NEW h \in Officials, I_!Do(h, I_!OffDuty), UNCHANGED <<fate, ordered, said>>
               PROVE  DInv'
BY Works DEF I_!OffDuty, Sound, Truthful

\* A button is pressed and a decision asked for.
LEMMA Orders ==
    ASSUME DInv, NEW h \in Officials, NEW a \in Applied, NEW what \in Verdicts, I_!Decide(h, a, what)
    PROVE  DInv'
<1> DEFINE w == [at |-> "decide", what |-> what, app |-> a]
<1>1. I_!Do(h, w) /\ ordered' = ordered \union {<<a, what>>} /\ UNCHANGED <<fate, said>>
  BY DEF I_!Decide
<1>2. Sound(w, fate', ordered')
  BY <1>1 DEF Sound, Truthful
<1>3. Keeps
  BY <1>1 DEF Keeps, DInv
<1> HIDE DEF w
<1> QED  BY <1>1, <1>2, <1>3, Takes

\* The panel is drawn, or the callback stops at a row that is missing.
LEMMA Draws ==
    ASSUME DInv, NEW h \in Officials, NEW after, NEW answered, NEW old, I_!Lay(h, after, answered, old),
           after.at \in {"idle", "tell"}, Truthful(after, fate), UNCHANGED <<fate, ordered, said>>
    PROVE  DInv'
<1>1. CASE I_!Do(h, I_!OffDuty)
  BY <1>1, Rests
<1>2. ASSUME NEW sheet, I_!Do(h, [at |-> "edit", view |-> sheet, next |-> after, answered |-> answered])
      PROVE  DInv'
  <2> DEFINE w == [at |-> "edit", view |-> sheet, next |-> after, answered |-> answered]
  <2>1. Sound(w, fate, ordered)
    BY DEF Sound, Truthful
  <2> HIDE DEF w
  <2> QED  BY <1>2, <2>1, Works DEF w
<1> QED  BY <1>1, <1>2 DEF I_!Lay

\* The two lists are loaded, and the panel drawn.
LEMMA Loads ==
    ASSUME DInv, NEW h \in Officials,
           \/ I_!_refresh_callback(h) \/ I_!list_applications(h) \/ I_!load_applications(h) \/ I_!LoadFails(h)
    PROVE  DInv'
<1>1. ASSUME NEW after, NEW answered, NEW of, after.at \in {"idle", "tell"}, Truthful(after, fate),
             I_!Do(h, [at |-> "load", of |-> of, next |-> after, answered |-> answered]),
             UNCHANGED <<fate, ordered, said>>
      PROVE  DInv'
  <2> DEFINE w == [at |-> "load", of |-> of, next |-> after, answered |-> answered]
  <2>1. Sound(w, fate, ordered)
    BY <1>1 DEF Sound, Truthful
  <2> HIDE DEF w
  <2> QED  BY <1>1, <2>1, Works DEF w
<1>2. CASE I_!_refresh_callback(h)
  <2>1. /\ I_!Do(h, [at |-> "load", of |-> "welfare", next |-> I_!OffDuty, answered |-> FALSE])
        /\ UNCHANGED <<fate, ordered, said>>
    BY <1>2 DEF I_!_refresh_callback, I_!Load, I_!applicationVars
  <2> QED  BY <1>1, <2>1 DEF I_!OffDuty, Truthful
<1>3. ASSUME duty[h].at \in {"load", "loaded"}
      PROVE  duty[h].next.at \in {"idle", "tell"} /\ Truthful(duty[h].next, fate)
  BY <1>3 DEF DInv, Sound
<1>4. ASSUME NEW those, duty[h].at = "load", UNCHANGED <<fate, ordered, said>>,
             I_!Do(h, [at |-> "loaded", of |-> duty[h].of, list |-> those,
                    next |-> duty[h].next, answered |-> duty[h].answered])
      PROVE  DInv'
  <2> DEFINE w == [at |-> "loaded", of |-> duty[h].of, list |-> those,
                   next |-> duty[h].next, answered |-> duty[h].answered]
  <2>1. Sound(w, fate, ordered)
    BY <1>3, <1>4 DEF Sound, Truthful
  <2> HIDE DEF w
  <2> QED  BY <1>4, <2>1, Works DEF w
<1>5. CASE I_!list_applications(h)
  BY <1>4, <1>5 DEF I_!list_applications, I_!applicationVars
<1>6. CASE I_!LoadFails(h)
  BY <1>4, <1>6 DEF I_!LoadFails, I_!applicationVars
<1>7. CASE I_!load_applications(h)
  <2>1. UNCHANGED <<fate, ordered, said>> /\ duty[h].at = "loaded" /\ I_!Onward(h)
    BY <1>7 DEF I_!load_applications
  <2>2. CASE I_!Lay(h, duty[h].next, duty[h].answered, {})
    BY <1>3, <2>1, <2>2, Draws
  <2>3. CASE I_!Do(h, [I_!Load(duty[h].next, duty[h].answered) EXCEPT !.of = "license"])
    <3>1. [I_!Load(duty[h].next, duty[h].answered) EXCEPT !.of = "license"]
             = [at |-> "load", of |-> "license", next |-> duty[h].next,
                answered |-> duty[h].answered]
      BY DEF I_!Load
    <3> QED  BY <1>1, <1>3, <2>1, <2>3, <3>1
  <2> QED  BY <2>1, <2>2, <2>3 DEF I_!Onward
<1> QED  BY <1>2, <1>5, <1>6, <1>7

\* The service decides what is pending: it is as ordered, and may be told.
LEMMA DecisionTaken == ASSUME DInv, NEW h \in Officials, I_!Decided(h) PROVE DInv'
<1>1. PICK a \in Applied, what \in Verdicts :
         /\ a = duty[h].app /\ what = duty[h].what /\ <<a, what>> \in ordered
         /\ fate[a] = "pending" /\ fate' = [fate EXCEPT ![a] = what]
         /\ UNCHANGED <<ordered, said>>
  BY DEF I_!Decided, DInv, Sound
<1>2. Keeps
  BY <1>1 DEF Keeps, DInv, Fates, Verdicts
<1> DEFINE tell == [at |-> "tell", app |-> a, what |-> what]
<1>3. Truthful(tell, fate') /\ tell.at = "tell"
  BY <1>1 DEF Truthful, DInv
<1>4. CASE I_!Do(h, tell)
  <2>1. Sound(tell, fate', ordered')
    BY <1>3 DEF Sound
  <2> HIDE DEF tell
  <2> QED  BY <1>1, <1>2, <1>4, <2>1, Takes
<1>5. CASE I_!Do(h, [at |-> "load", of |-> "welfare", next |-> tell, answered |-> FALSE])
  <2> DEFINE w == [at |-> "load", of |-> "welfare", next |-> tell, answered |-> FALSE]
  <2>1. Sound(w, fate', ordered')
    BY <1>3 DEF Sound, Truthful
  <2> HIDE DEF w
  <2> QED  BY <1>1, <1>2, <1>5, <2>1, Takes DEF w
<1> QED  BY <1>1, <1>4, <1>5 DEF I_!Decided, I_!Load

LEMMA Told == ASSUME DInv, NEW h \in Officials, I_!Tell(h) PROVE DInv'
<1>1. /\ UNCHANGED <<fate, ordered>> /\ said' = said \union {<<duty[h].app, duty[h].what>>}
      /\ News(<<duty[h].app, duty[h].what>>, fate)
  BY DEF I_!Tell, DInv, Sound, Truthful, News
<1>2. PICK w : I_!Do(h, w) /\ Sound(w, fate, ordered)
  <2>1. CASE I_!Do(h, I_!OffDuty)
    BY <2>1 DEF I_!OffDuty, Sound, Truthful
  <2>2. CASE I_!Do(h, I_!Load(I_!OffDuty, TRUE))
    BY <2>2 DEF I_!Load, I_!OffDuty, Sound, Truthful
  <2> QED  BY <2>1, <2>2 DEF I_!Tell
<1> QED  BY <1>1, <1>2, NothingDecided, Takes

LEMMA Elsewhere ==
    ASSUME DInv, NEW a \in Applied, NEW what \in {"pending"} \union Verdicts, I_!Happens(a, what)
    PROVE  DInv'
<1>1. /\ fate' = [fate EXCEPT ![a] = what] /\ fate[a] \notin Verdicts /\ UNCHANGED <<duty, said>>
      /\ \/ what = "pending" /\ UNCHANGED ordered
         \/ ordered' = ordered \union {<<a, what>>}
  BY DEF I_!Happens, Verdicts
<1>2. Keeps
  BY <1>1 DEF Keeps, DInv, Fates, Verdicts
<1>3. \A h \in Officials : Sound(duty[h], fate', ordered')
  BY <1>2, SoundStays DEF DInv
<1> QED  BY <1>1, <1>2, <1>3 DEF DInv, Keeps, News

LEMMA DInvKept == DInv /\ [I_!Next]_(I_!interiorVars) => DInv'
<1> SUFFICES ASSUME DInv, [I_!Next]_(I_!interiorVars) PROVE DInv'
  OBVIOUS
<1>1. ASSUME UNCHANGED <<fate, ordered, said, duty>> PROVE DInv'
  BY <1>1 DEF DInv
<1>2. CASE UNCHANGED I_!interiorVars
  BY <1>1, <1>2 DEF I_!interiorVars, I_!applicationVars
<1>3. ASSUME NEW h \in Officials, I_!ApplicationManagementView(h) PROVE DInv'
  <2>1. ASSUME NEW f \in I_!AppKinds \union {"all"}, I_!filter_callback(h, f) PROVE DInv'
    BY <2>1, Draws DEF I_!filter_callback, I_!OffDuty, Truthful
  <2>2. ASSUME NEW a \in Applied, I_!approve_callback(h, a) PROVE DInv'
    BY <2>2, Orders DEF I_!approve_callback, Verdicts
  <2>3. ASSUME NEW a \in Applied, I_!reject_callback(h, a) PROVE DInv'
    <3>1. I_!Do(h, [at |-> "form", app |-> a]) /\ UNCHANGED <<fate, ordered, said>>
      BY <2>3 DEF I_!reject_callback, I_!applicationVars
    <3>2. Sound([at |-> "form", app |-> a], fate, ordered)
      BY DEF Sound, Truthful
    <3> QED  BY <3>1, <3>2, Works
  <2>4. CASE I_!ApplicationRejectModal(h)
    <3>1. duty[h].app \in Applied /\ I_!Decide(h, duty[h].app, "rejected")
      BY <2>4 DEF I_!ApplicationRejectModal, DInv, Sound
    <3> QED  BY <3>1, Orders DEF Verdicts
  <2>5. CASE I_!DecisionRefused(h) \/ I_!TellRefused(h)
    BY <2>5, Rests DEF I_!DecisionRefused, I_!TellRefused, I_!applicationVars
  <2> QED
    BY <1>3, <2>1, <2>2, <2>3, <2>4, <2>5, Loads, DecisionTaken, Told
       DEF I_!ApplicationManagementView
<1>4. ASSUME NEW h \in Officials, I_!BusinessLicenseListView(h) PROVE DInv'
  <2>1. ASSUME NEW w, I_!Do(h, w), w.at \in {"query", "listed"}, UNCHANGED <<fate, ordered, said>>
        PROVE  DInv'
    BY <2>1, Works DEF Sound, Truthful
  <2>2. ASSUME NEW k \in {current_page - 1, current_page + 1}, I_!turn_page(h, k) PROVE DInv'
    BY <2>1, <2>2 DEF I_!turn_page, I_!applicationVars
  <2>3. CASE I_!refresh_licenses(h) \/ I_!list_business_licenses(h)
    BY <2>1, <2>3 DEF I_!refresh_licenses, I_!list_business_licenses, I_!applicationVars
  <2>4. CASE I_!ListRefused(h)
    BY <2>4, Rests DEF I_!ListRefused, I_!applicationVars
  <2>5. CASE I_!_refresh_list(h)
    <3> DEFINE w == [at |-> "edit", next |-> I_!OffDuty, answered |-> FALSE,
                     view |-> I_!Book(duty[h].list, current_page)]
    <3>1. Sound(w, fate, ordered)
      BY DEF Sound, Truthful, I_!OffDuty
    <3>2. I_!Do(h, w) /\ UNCHANGED <<fate, ordered, said>>
      BY <2>5 DEF I_!_refresh_list, I_!applicationVars
    <3> HIDE DEF w
    <3> QED  BY <3>1, <3>2, Works
  <2> QED  BY <1>4, <2>2, <2>3, <2>4, <2>5 DEF I_!BusinessLicenseListView
<1>5. ASSUME NEW h \in Officials, I_!Appear(h) PROVE DInv'
  <2>1. I_!Do(h, duty[h].next) /\ UNCHANGED <<fate, ordered, said>>
    BY <1>5 DEF I_!Appear, I_!applicationVars
  <2>2. Sound(duty[h].next, fate, ordered)
    BY <1>5 DEF I_!Appear, DInv, Sound
  <2> QED  BY <2>1, <2>2, Works
<1>6. ASSUME NEW h \in Officials, I_!AppearRefused(h) PROVE DInv'
  BY <1>6, Rests DEF I_!AppearRefused, I_!applicationVars
<1>7. CASE I_!BusinessLicenseIssueModal
  BY <1>1, <1>7 DEF I_!BusinessLicenseIssueModal, I_!applicationVars
<1>8. ASSUME NEW a \in Applied, NEW what \in {"pending", "approved", "rejected"}, I_!Happens(a, what)
      PROVE  DInv'
  BY <1>8, Elsewhere DEF Verdicts
<1> QED  BY <1>2, <1>3, <1>4, <1>5, <1>6, <1>7, <1>8 DEF I_!Next

\* InteriorDesk: an application is decided the way that somebody asked for it,
\* and what its author was told stays true, however the lists change while forms
\* are open and decisions cross (_make_approve_callback, ApplicationRejectModal).
THEOREM OrderedDecisions == MCSpec => []DecidedAsOrdered
<1>1. DInv => DecidedAsOrdered
  BY DEF DInv, DecidedAsOrdered, I_!DecidedAsOrdered, News, Verdicts
<1> QED  BY Interior_, DInvAtFirst, DInvKept, <1>1, PTL DEF I_!Spec

-----------------------------------------------------------------------------
(* What the suspects' panels show *)

\* What division by the size of a page means.
LEMMA DivIs == ASSUME NEW x \in Nat, NEW p \in Nat \ {0}
               PROVE  p * (x \div p) <= x /\ x < p * (x \div p) + p /\ x \div p \in Nat
  OBVIOUS

LEMMA LessIfTimes == ASSUME NEW a \in Int, NEW b \in Int, NEW p \in Nat \ {0}, p * a < p * b
                     PROVE  a < b
  OBVIOUS

LEMMA TimesIfLess == ASSUME NEW a \in Int, NEW b \in Int, NEW p \in Nat \ {0}, a <= b
                     PROVE  p * a <= p * b
  OBVIOUS

LEMMA DivOfTimes == ASSUME NEW k \in Nat, NEW p \in Nat \ {0} PROVE (p * k) \div p = k
<1> DEFINE q == (p * k) \div p
<1>1. q \in Nat /\ p * q <= p * k /\ p * k < p * q + p
  BY DivIs
<1>2. q < k + 1 /\ k < q + 1
  BY <1>1
<1> QED  BY <1>1, <1>2

\* A page of the list begins within the list.
LEMMA PageBegins ==
    ASSUME NEW n \in Nat \ {0}, NEW p \in Nat \ {0}, NEW k \in Nat, k < (n + p - 1) \div p
    PROVE  p * k \in 0 .. (n - 1)
<1> DEFINE q == (n + p - 1) \div p
<1>1. q \in Nat /\ p * q <= n + p - 1
  BY DivIs
<1>2. p * (k + 1) <= p * q
  BY <1>1, k + 1 <= q, TimesIfLess
<1> QED  BY <1>1, <1>2

\* Each desk's module counts with FiniteSets of its own, which is the same.
LEMMA SameSets == \A S : /\ S_!IsFiniteSet(S) = IsFiniteSet(S)
                        /\ S_!Cardinality(S) = Cardinality(S)
<1>1. \A S : S_!IsFiniteSet(S) = IsFiniteSet(S)
  BY Zenon DEF S_!IsFiniteSet, IsFiniteSet
<1>2. \A S : S_!Cardinality(S) = Cardinality(S)
  BY Zenon DEF S_!Cardinality, Cardinality
<1> QED  BY <1>1, <1>2

LEMMA ListsAreFinite ==
    ASSUME NEW S, S \subseteq Suspects
    PROVE  /\ IsFiniteSet(S) /\ Cardinality(S) \in Nat /\ S \subseteq Int
           /\ PageSize \in Nat \ {0}
<1>1. Suspects \subseteq Int /\ IsFiniteSet(Suspects) /\ PageSize \in Nat \ {0}
  BY SuspectsAssumed, SameSets DEF S_!SuspectPanelsAssumption
<1>2. S \in SUBSET Suspects
  OBVIOUS
<1>3. IsFiniteSet(S)
  BY <1>1, <1>2, FS_Subset
<1> QED  BY <1>1, <1>3, FS_CardinalityType

\* Every rank below the number of a list's suspects is somebody's.
LEMMA EveryRank ==
    ASSUME NEW S, S \subseteq Suspects, NEW r \in 0 .. (Cardinality(S) - 1)
    PROVE  \E s \in S : Cardinality({t \in S : t < s}) = r
<1> DEFINE Before(s) == {t \in S : t < s}
<1> DEFINE n == Cardinality(S)
<1> DEFINE f == [s \in S |-> Cardinality(Before(s))]
<1>1. IsFiniteSet(S) /\ n \in Nat /\ S \subseteq Int
  BY ListsAreFinite
<1>2. ASSUME NEW s \in S
      PROVE  IsFiniteSet(Before(s)) /\ Cardinality(Before(s)) \in 0 .. (n - 1)
  <2>1. Before(s) \in SUBSET S /\ Before(s) # S
    BY <1>1
  <2>2. IsFiniteSet(Before(s)) /\ Cardinality(Before(s)) <= n /\ Cardinality(Before(s)) # n
    BY <1>1, <2>1, FS_Subset
  <2>3. Cardinality(Before(s)) \in Nat
    BY <2>2, FS_CardinalityType
  <2> QED  BY <1>1, <2>2, <2>3
<1>3. ASSUME NEW s \in S, NEW t \in S, s < t PROVE f[s] # f[t]
  <2>1. s \in Int /\ t \in Int /\ \A u \in S : u \in Int
    BY <1>1
  <2>2. \A u \in S : u < s => u < t
    BY <1>3, <2>1
  <2>3. Before(s) \in SUBSET Before(t)
    BY <2>2
  <2>4. s \in Before(t) /\ s \notin Before(s)
    BY <1>3, <2>1
  <2> QED  BY <1>2, <2>3, <2>4, FS_Subset
<1>4. f \in Injection(S, 0 .. (n - 1))
  <2>1. f \in [S -> 0 .. (n - 1)]
    BY <1>2
  <2>2. ASSUME NEW s \in S, NEW t \in S, f[s] = f[t] PROVE s = t
    BY <1>1, <1>3, <2>2
  <2> HIDE DEF f
  <2> QED  BY <2>1, <2>2 DEF Injection, IsInjective
<1>5. IsFiniteSet(0 .. (n - 1)) /\ Cardinality(0 .. (n - 1)) = n
  BY <1>1, FS_Interval
<1>6. f \in Surjection(S, 0 .. (n - 1))
  <2> HIDE DEF f
  <2> QED  BY <1>4, <1>5, FS_Injection
<1>7. \E s \in S : f[s] = r
  <2> HIDE DEF f
  <2> QED  BY <1>6 DEF Surjection
<1> QED  BY <1>7

\* So a page of a list is empty only if the list is (_sanitize_state).
LEMMA PageIsNotEmpty ==
    ASSUME NEW S, S \subseteq Suspects, S # {}, NEW k \in Nat, k < S_!Pages(Cardinality(S))
    PROVE  S_!PageOf(S, k) # {}
<1>1. IsFiniteSet(S) /\ Cardinality(S) \in Nat /\ PageSize \in Nat \ {0}
  BY ListsAreFinite
<1>2. Cardinality(S) # 0
  BY <1>1, FS_EmptySet
<1>3. PageSize * k \in 0 .. (Cardinality(S) - 1)
  BY <1>1, <1>2, PageBegins DEF S_!Pages
<1>4. PICK s \in S : Cardinality({t \in S : t < s}) = PageSize * k
  BY <1>3, EveryRank
<1>5. (PageSize * k) \div PageSize = k
  BY <1>1, DivOfTimes
<1>6. Cardinality({t \in S : t < s}) \div PageSize = k
  BY <1>4, <1>5
<1> QED  BY <1>6, SameSets DEF S_!PageOf

\* A list has a page, if only an empty one.
LEMMA SomePage == \A n \in Nat : S_!Pages(n) \in Nat \ {0}
<1> SUFFICES ASSUME NEW n \in Nat, n # 0 PROVE (n + PageSize - 1) \div PageSize \in Nat \ {0}
  BY DEF S_!Pages
<1>1. PageSize \in Nat \ {0}
  BY SuspectsAssumed DEF S_!SuspectPanelsAssumption
<1> DEFINE q == (n + PageSize - 1) \div PageSize
<1>2. q \in Nat /\ n + PageSize - 1 < PageSize * q + PageSize
  BY <1>1, DivIs
<1> HIDE DEF q
<1>3. q # 0
  BY <1>1, <1>2
<1> QED  BY <1>2, <1>3 DEF q

\* What each variable is, and each callback holds between two awaits.
SuspectViews == [page : Nat, list : SUBSET Suspects, picked : SUBSET Suspects,
                 menu : SUBSET Suspects, live : BOOLEAN]
Reading == [at : {"read"}, page : Nat, wanted : BOOLEAN]
Answers == [at : {"got"}, page : Nat, total : Nat, list : SUBSET Suspects]
Edits == [at : {"edit"}, view : SuspectViews, last : BOOLEAN]
Ordering == [at : {"act"}, order : S_!Scopes, fixed : BOOLEAN, todo : SUBSET Suspects,
             begun : BOOLEAN]
AtWorkOn(w) ==
    /\ w.at \in S_!InFlight \union {"idle", "modal"}
    /\ w.at = "defer" => w.search \in BOOLEAN
    /\ w.at = "read" => w \in Reading
    /\ w.at = "got" => w \in Answers
    /\ w.at = "edit" => w \in Edits
    /\ w.at = "modal" => w.order \in S_!Scopes \union {"search"}
    /\ w.at = "act" => w \in Ordering
Listed ==
    /\ office \in {"homeland", "justice"}
    /\ status \in [Suspects -> {"free", "detained", "charged"}]
    /\ filter \in BOOLEAN /\ open \in BOOLEAN /\ live \in BOOLEAN
    /\ office = "justice" => live = TRUE
    /\ list \subseteq Suspects /\ picked \subseteq Suspects /\ menu \subseteq Suspects
    /\ chosen \subseteq Suspects /\ taken \subseteq Suspects
    /\ page \in Nat /\ total \in Nat /\ page < S_!Pages(total)
    /\ screen \in SuspectViews

\* The view has the list as it is, and a message the view.
UpToDate ==
    /\ list = IF office = "homeland" THEN S_!Found(filter) ELSE S_!PageOf(S_!Found(filter), page)
    /\ total = S_!Cardinality(S_!Found(filter))
    /\ office = "justice" => menu = list
Faithful(v) ==
    /\ v.page = page /\ v.picked = picked
    /\ v.list = S_!PageOf(S_!Found(filter), page)
    /\ office = "justice" => v.menu = v.list
    /\ v.live = live

\* Homeland's buttons are enabled as long as the panel is open and has begun no
\* last edit, if it has not been drawn anew since it was closed.
Lit(last) == office = "homeland" /\ "redrawn" \notin excuse => live = (open /\ ~last)

Clear == excuse \intersect S_!Reasons = {}
Bits == excuse \subseteq S_!Reasons \union {"redrawn"}

\* What a callback that works alone has so far, if nothing is excused.
SoFar(w) ==
    /\ w.at = "read" => w.page = page /\ w.wanted = filter
    /\ w.at = "got" =>
          /\ w.page = page /\ w.total = S_!Cardinality(S_!Found(filter))
          /\ w.list = IF office = "homeland" THEN S_!Found(filter)
                      ELSE S_!PageOf(S_!Found(filter), page)
    /\ w.at = "act" /\ ~w.begun => UpToDate /\ Faithful(screen) /\ Lit(FALSE)
    /\ w.at = "edit" => UpToDate /\ Faithful(w.view) /\ Lit(w.last)
    /\ w.at \notin S_!InFlight => UpToDate /\ Faithful(screen) /\ Lit(FALSE)
UpToNow ==
    Clear => /\ \A g, h \in S_!Busy : g = h
             /\ \A h \in S_!Busy : SoFar(work[h])
             /\ S_!Busy = {} => UpToDate /\ Faithful(screen) /\ Lit(FALSE)

SInv ==
    /\ Listed /\ UpToNow
    /\ Bits
    /\ work = [h \in Handlers |-> work[h]] /\ \A h \in Handlers : AtWorkOn(work[h])

LEMMA FoundAreSuspects ==
    /\ \A f : S_!Found(f) \subseteq Suspects
    /\ \A f : S_!Cardinality(S_!Found(f)) \in Nat
    /\ \A S, k : S_!PageOf(S, k) \subseteq S
    /\ \A S, k : S_!Shown(S, k) \subseteq S
<1>1. \A f : S_!Found(f) \subseteq Suspects
  BY DEF S_!Found
<1>2. ASSUME NEW f PROVE S_!Cardinality(S_!Found(f)) \in Nat
  BY <1>1, SameSets, ListsAreFinite
<1>3. \A S, k : S_!PageOf(S, k) \subseteq S
  BY DEF S_!PageOf
<1>4. \A S, k : S_!Shown(S, k) \subseteq S
  BY <1>3 DEF S_!Shown
<1> QED  BY <1>1, <1>2, <1>3, <1>4

\* A callback goes on, alone or excused, to what it then has.
LEMMA SuspectStep ==
    ASSUME SInv, NEW h \in Handlers, NEW w, S_!Goto(h, w), AtWorkOn(w), Listed',
           Bits',
           Clear' => S_!Busy \subseteq {h} /\ (SoFar(w))'
    PROVE  SInv'
<1>1. /\ work' = [g \in Handlers |-> work'[g]] /\ work'[h] = w
      /\ \A g \in Handlers : g # h => work'[g] = work[g]
  BY DEF SInv, S_!Goto
<1>2. \A g \in Handlers : AtWorkOn(work'[g])
  BY <1>1 DEF SInv
<1>3. (\A g \in Handlers : AtWorkOn(work[g]))'
  BY <1>2 DEF AtWorkOn
<1>4. ASSUME Clear'
      PROVE  /\ \A f, g \in S_!Busy' : f = g
             /\ \A g \in S_!Busy' : g = h
             /\ S_!Busy' = {} => w.at \notin S_!InFlight
  <2>1. \A g \in Handlers : g # h => g \notin S_!Busy
    BY <1>4
  <2>2. \A g \in Handlers : g # h => g \notin S_!Busy'
    BY <1>1, <2>1 DEF S_!Busy
  <2>3. w.at \in S_!InFlight => h \in S_!Busy'
    BY <1>1 DEF S_!Busy
  <2>4. \A g \in S_!Busy' : g = h
    BY <2>2 DEF S_!Busy
  <2> QED  BY <2>3, <2>4
<1>5. UpToNow'
  <2>1. ASSUME Clear', NEW g \in S_!Busy' PROVE (SoFar(work[g]))'
    <3>1. g = h /\ work'[g] = w
      BY <1>1, <1>4, <2>1
    <3> QED  BY <2>1, <3>1 DEF SoFar
  <2>2. ASSUME Clear', S_!Busy' = {} PROVE (UpToDate /\ Faithful(screen) /\ Lit(FALSE))'
    BY <1>4, <2>2 DEF SoFar
  <2> QED  BY <1>4, <2>1, <2>2 DEF UpToNow
<1> QED  BY <1>1, <1>3, <1>5 DEF SInv

LEMMA SInvAtFirst == S_!Init => SInv
<1> SUFFICES ASSUME S_!Init PROVE SInv
  OBVIOUS
<1>1. S_!Busy = {}
  BY DEF S_!Init, S_!Busy, S_!NoWork, S_!InFlight
<1>2. Named \subseteq Suspects /\ Accused \subseteq Suspects
  BY SuspectsAssumed DEF S_!SuspectPanelsAssumption
<1>3. list \subseteq Suspects /\ menu \subseteq Suspects
  BY FoundAreSuspects DEF S_!Init
<1>4. total \in Nat /\ page < S_!Pages(total)
  <2>1. total \in Nat
    BY FoundAreSuspects DEF S_!Init
  <2>2. S_!Pages(total) \in Nat \ {0}
    BY <2>1, SomePage
  <2>3. page = 0
    BY DEF S_!Init
  <2> QED  BY <2>1, <2>2, <2>3
<1>5. Listed
  BY <1>2, <1>3, <1>4 DEF S_!Init, Listed, SuspectViews
<1>6. UpToDate
  BY DEF S_!Init, UpToDate, S_!Shown
<1>7. Faithful(screen)
  BY <1>6 DEF S_!Init, Faithful, S_!Shown, UpToDate
<1>8. work = [h \in Handlers |-> work[h]] /\ \A h \in Handlers : AtWorkOn(work[h])
  BY DEF S_!Init, S_!NoWork, AtWorkOn
<1>9. Lit(FALSE) /\ Bits
  BY DEF S_!Init, Lit, Bits
<1> QED  BY <1>1, <1>5, <1>6, <1>7, <1>8, <1>9 DEF SInv, UpToNow

\* The invariant says what the panel's properties do.
LEMMA SInvShows == SInv => S_!TypeOK /\ S_!PanelShowsTheSuspects
<1> SUFFICES ASSUME SInv PROVE S_!TypeOK /\ S_!PanelShowsTheSuspects
  OBVIOUS
<1>1. S_!TypeOK
  <2>1. DOMAIN S_!OrdersOf = {"homeland", "justice"}
    BY DEF S_!OrdersOf
  <2>2. \A h \in Handlers : work[h].at \in S_!InFlight \union {"idle", "modal"}
    BY DEF SInv, AtWorkOn
  <2> QED  BY <2>1, <2>2 DEF SInv, Listed, SuspectViews, Bits, S_!TypeOK
<1>2. ASSUME S_!Busy = {}, Clear, S_!Found(filter) # {}
      PROVE  S_!PageOf(S_!Found(filter), page) # {}
  <2>1. page \in Nat /\ page < S_!Pages(Cardinality(S_!Found(filter)))
    BY <1>2, SameSets DEF SInv, Listed, UpToNow, UpToDate
  <2> QED  BY <1>2, <2>1, FoundAreSuspects, PageIsNotEmpty
<1>3. ASSUME S_!Busy = {}, Clear
      PROVE  UpToDate /\ Faithful(screen) /\ Lit(FALSE)
  BY <1>3 DEF SInv, UpToNow
<1>4. ASSUME Lit(FALSE), office = "homeland", "redrawn" \notin excuse, screen.live = live
      PROVE  screen.live = open
  <2>1. open \in BOOLEAN /\ (open /\ ~FALSE) = open
    BY DEF SInv, Listed
  <2> QED  BY <1>4, <2>1 DEF Lit
<1>5. S_!PanelShowsTheSuspects
  BY <1>2, <1>3, <1>4 DEF Faithful, Clear, S_!PanelShowsTheSuspects
<1> QED  BY <1>1, <1>5

\* Lists, pages and selections stay what they are if they are left alone.
LEMMA ListedStays ==
    ASSUME Listed, UNCHANGED <<S_!state, office>>, screen' \in SuspectViews,
           status' \in [Suspects -> {"free", "detained", "charged"}],
           chosen' \subseteq Suspects, taken' \subseteq Suspects
    PROVE  Listed'
BY DEF Listed, S_!state

\* What the last reading has is the same as long as the books are.
LEMMA FoundStays ==
    ASSUME UNCHANGED <<office, status>>
    PROVE  \A f : S_!Found(f)' = S_!Found(f)
BY DEF S_!Found

LEMMA BoardStays ==
    ASSUME UNCHANGED <<S_!state, office, status>>
    PROVE  /\ UpToDate => UpToDate'
           /\ excuse' = excuse /\ Lit(FALSE) => (Lit(FALSE))'
           /\ \A f, k : S_!PageOf(S_!Found(f), k)' = S_!PageOf(S_!Found(f), k)
           /\ \A v : Faithful(v) => (Faithful(v))'
<1>1. \A f : S_!Found(f)' = S_!Found(f)
  BY FoundStays
<1>2. \A f, k : S_!PageOf(S_!Found(f), k)' = S_!PageOf(S_!Found(f), k)
  BY <1>1 DEF S_!PageOf
<1>3. ASSUME UpToDate PROVE UpToDate'
  BY <1>1, <1>2, <1>3 DEF UpToDate, S_!state
<1>4. ASSUME NEW v, Faithful(v) PROVE (Faithful(v))'
  BY <1>1, <1>2, <1>4 DEF Faithful, S_!state
<1>5. ASSUME excuse' = excuse, Lit(FALSE) PROVE (Lit(FALSE))'
  BY <1>5 DEF Lit, S_!state
<1> QED  BY <1>2, <1>3, <1>4, <1>5

\* Nobody else is at work when nothing is excused.
LEMMA AloneAtRest ==
    ASSUME SInv, NEW h \in Handlers, work[h].at \notin S_!InFlight,
           S_!Crosses(h), Clear'
    PROVE  S_!Busy = {} /\ excuse' = excuse /\ UpToDate /\ Faithful(screen) /\ Lit(FALSE)
<1>1. S_!Busy \subseteq {h} /\ excuse' = excuse /\ Clear
  BY DEF S_!Crosses, Clear, S_!Reasons
<1>2. h \notin S_!Busy
  BY DEF S_!Busy
<1> QED  BY <1>1, <1>2 DEF SInv, UpToNow

LEMMA AloneAtWork ==
    ASSUME SInv, NEW h \in Handlers, work[h].at \in S_!InFlight, Clear
    PROVE  S_!Busy = {h} /\ SoFar(work[h])
<1>1. h \in S_!Busy
  BY DEF S_!Busy
<1> QED  BY <1>1 DEF SInv, UpToNow

\* What the order of callbacks does to what is excused.
LEMMA Excused ==
    ASSUME SInv, NEW h \in Handlers, S_!Crosses(h) \/ S_!Anew(h)
    PROVE  /\ Bits'
           /\ Clear' => S_!Busy \subseteq {h}
BY DEF SInv, Bits, Clear, S_!Reasons, S_!Crosses, S_!Anew

-----------------------------------------------------------------------------
(* Reading *)

LEMMA DeferredKeeps == ASSUME SInv, NEW h \in Handlers, S_!Deferred(h) PROVE SInv'
<1>1. PICK w : w = [at |-> "read", page |-> page', wanted |-> filter']
  OBVIOUS
<1>2. /\ S_!Goto(h, w) /\ S_!Anew(h)
      /\ UNCHANGED <<list, total, picked, menu, live, open, S_!books, screen>>
      /\ filter' \in BOOLEAN /\ page' \in {page, 0}
  BY <1>1 DEF S_!Deferred, SInv, Listed
<1>3. page' \in Nat /\ page' < S_!Pages(total)
  <2>1. total \in Nat /\ page \in Nat /\ page < S_!Pages(total)
    BY DEF SInv, Listed
  <2>2. S_!Pages(total) \in Nat \ {0}
    BY <2>1, SomePage
  <2> QED  BY <1>2, <2>1, <2>2
<1>4. AtWorkOn(w)
  BY <1>1, <1>2, <1>3 DEF AtWorkOn, S_!InFlight, Reading
<1>5. Listed'
  BY <1>2, <1>3 DEF SInv, Listed, S_!books
<1>6. (SoFar(w))'
  BY <1>1 DEF SoFar, S_!InFlight
<1> QED  BY <1>2, <1>4, <1>5, <1>6, Excused, SuspectStep

LEMMA ReadKeeps == ASSUME SInv, NEW h \in Handlers, S_!Read(h) PROVE SInv'
<1> DEFINE all == S_!Found(work[h].wanted)
<1>1. PICK w : w = [at |-> "got", page |-> work[h].page, total |-> S_!Cardinality(all),
                    list |-> IF office = "homeland" THEN all
                             ELSE S_!PageOf(all, work[h].page)]
  OBVIOUS
<1>2. /\ work[h].at = "read" /\ S_!Goto(h, w)
      /\ UNCHANGED <<S_!books, S_!state, screen, excuse>>
  BY <1>1 DEF S_!Read
<1>3. work[h] \in Reading
  BY <1>2 DEF SInv, AtWorkOn
<1>4. AtWorkOn(w)
  <2>1. w.list \subseteq Suspects /\ w.total \in Nat /\ w.page \in Nat
    BY <1>1, <1>3, FoundAreSuspects DEF Reading
  <2> QED  BY <1>1, <2>1 DEF AtWorkOn, S_!InFlight, Answers
<1>5. Listed'
  BY <1>2, ListedStays DEF SInv, Listed, S_!books
<1>6. ASSUME Clear' PROVE S_!Busy \subseteq {h} /\ (SoFar(w))'
  <2>1. S_!Busy = {h} /\ work[h].page = page /\ work[h].wanted = filter
    BY <1>2, <1>6, AloneAtWork DEF S_!InFlight, SoFar, Clear
  <2>2. \A f : S_!Found(f)' = S_!Found(f)
    BY <1>2, FoundStays DEF S_!books
  <2>3. page' = page /\ filter' = filter /\ office' = office
    BY <1>2 DEF S_!state, S_!books
  <2>4. S_!Found(filter)' = all
    BY <2>1, <2>2, <2>3 DEF S_!Found
  <2> QED  BY <1>1, <2>1, <2>3, <2>4 DEF SoFar, S_!InFlight
<1>7. Bits'
  BY <1>2 DEF SInv, Bits
<1> QED  BY <1>2, <1>4, <1>5, <1>6, <1>7, SuspectStep

LEMMA ReadFailsKeeps == ASSUME SInv, NEW h \in Handlers, S_!ReadFails(h) PROVE SInv'
<1>1. PICK w : w = [at |-> "got", page |-> work[h].page, total |-> 0, list |-> {}]
  OBVIOUS
<1>2. /\ work[h].at = "read" /\ S_!Goto(h, w) /\ excuse' = excuse \union {"refused"}
      /\ UNCHANGED <<S_!books, S_!state, screen>>
  BY <1>1 DEF S_!ReadFails
<1>3. work[h] \in Reading
  BY <1>2 DEF SInv, AtWorkOn
<1>4. AtWorkOn(w)
  BY <1>1, <1>3 DEF Reading, AtWorkOn, S_!InFlight, Answers
<1>5. Listed'
  BY <1>2, ListedStays DEF SInv, Listed, S_!books
<1>6. ~Clear' /\ Bits'
  BY <1>2 DEF SInv, Bits, Clear, S_!Reasons
<1> QED  BY <1>2, <1>4, <1>5, <1>6, SuspectStep

\* The page goes to where the list has one, and the selection stays in the list.
LEMMA ApplyKeeps == ASSUME SInv, NEW h \in Handlers, S_!Apply(h) PROVE SInv'
<1>1. PICK w : w = [at |-> "edit", view |-> S_!View, last |-> FALSE]
  OBVIOUS
<1>2. /\ work[h].at = "got" /\ S_!Goto(h, w) /\ live' = TRUE
      /\ list' = work[h].list /\ total' = work[h].total
      /\ page' = IF page >= S_!Pages(total') THEN S_!Pages(total') - 1 ELSE page
      /\ picked' = picked \cap list' /\ menu' = S_!Shown(list', page')
      /\ UNCHANGED <<filter, open, S_!books, screen>>
      /\ excuse' = excuse
            \union (IF office = "justice" /\ work[h].page >= S_!Pages(total')
                    THEN {"beyond"} ELSE {})
            \union (IF open THEN {} ELSE {"redrawn"})
  BY <1>1 DEF S_!Apply, S_!Sanitize, S_!Draw
<1>3. work[h] \in Answers
  BY <1>2 DEF SInv, AtWorkOn
<1>4. list' \subseteq Suspects /\ total' \in Nat
  BY <1>2, <1>3 DEF Answers
<1>5. page' \in Nat /\ page' < S_!Pages(total')
  <2>1. S_!Pages(total') \in Nat \ {0}
    BY <1>4, SomePage
  <2>2. page \in Nat
    BY DEF SInv, Listed
  <2> QED  BY <1>2, <2>1, <2>2
<1>6. S_!Shown(list', page') \subseteq Suspects
  BY <1>4, FoundAreSuspects
<1>7. Listed'
  BY <1>2, <1>4, <1>5, <1>6 DEF SInv, Listed, S_!books
<1>8. S_!View \in SuspectViews
  BY <1>6, <1>7 DEF Listed, SuspectViews, S_!View
<1>9. AtWorkOn(w)
  BY <1>1, <1>8 DEF AtWorkOn, S_!InFlight, Edits
<1>10. ASSUME Clear' PROVE S_!Busy \subseteq {h} /\ (SoFar(w))'
  <2>1. Clear /\ (office = "justice" => ~(work[h].page >= S_!Pages(total')))
    BY <1>2, <1>10 DEF Clear, S_!Reasons
  <2>2. S_!Busy = {h} /\ SoFar(work[h])
    BY <1>2, <2>1, AloneAtWork DEF S_!InFlight
  <2>3. /\ work[h].page = page /\ work[h].total = S_!Cardinality(S_!Found(filter))
        /\ work[h].list = IF office = "homeland" THEN S_!Found(filter)
                          ELSE S_!PageOf(S_!Found(filter), page)
    BY <1>2, <2>2 DEF SoFar
  <2>4. office' = office /\ S_!Found(filter)' = S_!Found(filter)
    BY <1>2, FoundStays DEF S_!books
  <2>5. office = "justice" => page' = page
    BY <1>2, <2>1, <2>3
  <2>6. office \in {"homeland", "justice"}
    BY DEF SInv, Listed
  <2>7. list' = (IF office = "homeland" THEN S_!Found(filter)
                 ELSE S_!PageOf(S_!Found(filter), page'))
    BY <1>2, <2>3, <2>5, <2>6
  <2>8. menu' = S_!PageOf(S_!Found(filter), page')
    BY <1>2, <2>7 DEF S_!Shown
  <2>9. total' = S_!Cardinality(S_!Found(filter))
    BY <1>2, <2>3
  <2>10. UpToDate'
    BY <2>4, <2>6, <2>7, <2>8, <2>9 DEF UpToDate, S_!PageOf
  <2>11. S_!Shown(list', page') = S_!PageOf(S_!Found(filter), page')
    BY <1>2, <2>8
  <2>12. /\ w.view.page = page' /\ w.view.picked = picked' /\ w.view.live = live'
         /\ w.view.list = S_!PageOf(S_!Found(filter), page') /\ w.view.menu = menu'
    BY <1>1, <2>11, <2>4 DEF S_!View, S_!Shown
  <2>13. (Faithful(w.view))'
    BY <2>4, <2>8, <2>12 DEF Faithful, S_!PageOf
  <2>14. (Lit(FALSE))'
    <3>1. open \in BOOLEAN /\ open' = open
      BY <1>2 DEF SInv, Listed
    <3>2. "redrawn" \notin excuse' => open = TRUE
      BY <1>2, <3>1
    <3>3. "redrawn" \notin excuse' => (open' /\ ~FALSE) = TRUE
      BY <3>1, <3>2
    <3> QED  BY <1>2, <3>3 DEF Lit
  <2> QED  BY <1>1, <2>2, <2>10, <2>13, <2>14 DEF SoFar, S_!InFlight
<1> QED
  <2>1. Bits'
    BY <1>2 DEF SInv, Bits, S_!Reasons
  <2> QED  BY <1>2, <1>7, <1>9, <1>10, <2>1, SuspectStep

LEMMA ShowKeeps == ASSUME SInv, NEW h \in Handlers, S_!Show(h) PROVE SInv'
<1>1. PICK w : w = S_!NoWork
  OBVIOUS
<1>2. /\ work[h].at = "edit" /\ S_!Goto(h, w) /\ screen' = work[h].view
      /\ open' = (open /\ ~work[h].last)
      /\ UNCHANGED <<filter, page, list, total, picked, menu, live, S_!books, excuse>>
  BY <1>1 DEF S_!Show
<1>3. work[h] \in Edits
  BY <1>2 DEF SInv, AtWorkOn
<1>4. AtWorkOn(w)
  BY <1>1 DEF AtWorkOn, S_!NoWork
<1>5. Listed'
  <2>1. open' \in BOOLEAN
    BY <1>2
  <2> QED  BY <1>2, <1>3, <2>1 DEF SInv, Listed, S_!books, Edits
<1>6. ASSUME Clear' PROVE S_!Busy \subseteq {h} /\ (SoFar(w))'
  <2>1. S_!Busy = {h} /\ UpToDate /\ Faithful(work[h].view) /\ Lit(work[h].last)
    BY <1>2, <1>6, AloneAtWork DEF S_!InFlight, SoFar, Clear
  <2>2. S_!Found(filter)' = S_!Found(filter)
    BY <1>2, FoundStays DEF S_!books
  <2>3. UpToDate' /\ (Faithful(screen))'
    BY <1>2, <2>1, <2>2 DEF Faithful, UpToDate, S_!PageOf, S_!books
  <2>4. (Lit(FALSE))'
    BY <1>2, <1>3, <2>1 DEF Lit, Edits, S_!books
  <2> QED  BY <1>1, <2>1, <2>3, <2>4 DEF SoFar, S_!NoWork, S_!InFlight
<1>7. Bits'
  BY <1>2 DEF SInv, Bits
<1> QED  BY <1>2, <1>4, <1>5, <1>6, <1>7, SuspectStep

LEMMA RefusedKeeps == ASSUME SInv, NEW h \in Handlers, S_!Refused(h) PROVE SInv'
<1>1. PICK w : w = S_!NoWork
  OBVIOUS
<1>2. /\ S_!Goto(h, w) /\ excuse' = excuse \union {"refused"}
      /\ UNCHANGED <<S_!books, S_!state, screen>>
  BY <1>1 DEF S_!Refused
<1>3. AtWorkOn(w)
  BY <1>1 DEF AtWorkOn, S_!NoWork
<1>4. Listed'
  BY <1>2, ListedStays DEF SInv, Listed, S_!books
<1>5. ~Clear' /\ Bits'
  BY <1>2 DEF SInv, Bits, Clear, S_!Reasons
<1> QED  BY <1>2, <1>3, <1>4, <1>5, SuspectStep

LEMMA OrderRefusedKeeps == ASSUME SInv, NEW h \in Handlers, S_!OrderRefused(h) PROVE SInv'
<1>1. PICK w : w = S_!NoWork
  OBVIOUS
<1>2. /\ work[h].at = "act" /\ ~work[h].begun /\ S_!Goto(h, w)
      /\ UNCHANGED <<S_!books, S_!state, screen, excuse>>
  BY <1>1 DEF S_!OrderRefused
<1>3. AtWorkOn(w)
  BY <1>1 DEF AtWorkOn, S_!NoWork
<1>4. Listed'
  BY <1>2, ListedStays DEF SInv, Listed, S_!books
<1>5. ASSUME Clear' PROVE S_!Busy \subseteq {h} /\ (SoFar(w))'
  <2>1. S_!Busy = {h} /\ UpToDate /\ Faithful(screen) /\ Lit(FALSE)
    BY <1>2, <1>5, AloneAtWork DEF S_!InFlight, SoFar, Clear
  <2>2. UpToDate' /\ (Faithful(screen))' /\ (Lit(FALSE))'
    BY <1>2, <2>1, BoardStays DEF Faithful, S_!books, S_!state
  <2> QED  BY <1>1, <2>1, <2>2 DEF SoFar, S_!NoWork, S_!InFlight
<1>6. Bits'
  BY <1>2 DEF SInv, Bits
<1> QED  BY <1>2, <1>3, <1>4, <1>5, <1>6, SuspectStep

-----------------------------------------------------------------------------
(* Pages, filters and the selection *)

\* The end of a click in justice's panel, or its start in homeland's: the list is read
\* with the page and the filter of now.
LEMMA Reloads ==
    ASSUME SInv, NEW h \in Handlers, S_!Reload(h, page', filter'), Listed'
    PROVE  SInv'
<1>1. CASE S_!Goto(h, [at |-> "defer", search |-> FALSE]) /\ S_!Crosses(h)
  <2>1. PICK w : w = [at |-> "defer", search |-> FALSE]
    OBVIOUS
  <2>2. AtWorkOn(w)
    BY <2>1 DEF AtWorkOn, S_!InFlight
  <2>3. (SoFar(w))'
    BY <2>1 DEF SoFar, S_!InFlight
  <2> QED  BY <1>1, <2>1, <2>2, <2>3, Excused, SuspectStep
<1>2. CASE S_!Goto(h, [at |-> "read", page |-> page', wanted |-> filter']) /\ S_!Anew(h)
  <2>1. PICK w : w = [at |-> "read", page |-> page', wanted |-> filter']
    OBVIOUS
  <2>2. page' \in Nat /\ filter' \in BOOLEAN
    BY DEF Listed
  <2>3. AtWorkOn(w)
    BY <2>1, <2>2 DEF AtWorkOn, S_!InFlight, Reading
  <2>4. (SoFar(w))'
    BY <2>1 DEF SoFar, S_!InFlight
  <2> QED  BY <1>2, <2>1, <2>3, <2>4, Excused, SuspectStep
<1> QED  BY <1>1, <1>2 DEF S_!Reload

LEMMA ReloadsKeep ==
    ASSUME SInv, NEW h \in Handlers,
           \/ \E k \in 0..S_!Cardinality(Suspects) : S_!turn_page(h, k)
           \/ S_!on_refresh(h) \/ S_!on_reset_search(h) \/ S_!on_status_change(h)
    PROVE  SInv'
<1>1. /\ UNCHANGED <<list, total, picked, menu, live, open, S_!books, screen>>
      /\ S_!Reload(h, page', filter')
      /\ filter' \in {filter, ~filter, FALSE}
      /\ page' \in {page, 0} \union (0 .. (S_!Pages(total) - 1))
  <2>1. CASE \E k \in 0..S_!Cardinality(Suspects) : S_!turn_page(h, k)
    <3>1. PICK k \in 0..S_!Cardinality(Suspects) : S_!turn_page(h, k)
      BY <2>1
    <3> QED  BY <3>1 DEF S_!turn_page
  <2>2. CASE S_!on_refresh(h)
    BY <2>2 DEF S_!on_refresh, S_!state
  <2>3. CASE S_!on_reset_search(h)
    BY <2>3 DEF S_!on_reset_search
  <2>4. CASE S_!on_status_change(h)
    BY <2>4 DEF S_!on_status_change
  <2> QED  BY <2>1, <2>2, <2>3, <2>4
<1>2. page \in Nat /\ total \in Nat /\ page < S_!Pages(total) /\ filter \in BOOLEAN
  BY DEF SInv, Listed
<1>3. S_!Pages(total) \in Nat \ {0}
  BY <1>2, SomePage
<1>4. page' \in Nat /\ page' < S_!Pages(total)
  <2>1. PICK n : n = S_!Pages(total)
    OBVIOUS
  <2>2. n \in Nat \ {0} /\ page \in Nat /\ page < n
    BY <1>2, <1>3, <2>1
  <2>3. page' = page \/ page' = 0 \/ page' \in 0 .. (n - 1)
    BY <1>1, <2>1
  <2>4. page' \in Nat /\ page' < n
    BY <2>2, <2>3
  <2> QED  BY <2>1, <2>4
<1>5. Listed'
  <2>1. filter' \in BOOLEAN
    BY <1>1, <1>2
  <2> QED  BY <1>1, <1>4, <2>1 DEF SInv, Listed, S_!books
<1> QED  BY <1>1, <1>5, Reloads

\* The message is edited at once, from the list that is there.
LEMMA Redraws ==
    ASSUME SInv, NEW h \in Handlers, work[h].at \in {"idle", "modal"},
           NEW last \in BOOLEAN, S_!Draw(h, last), S_!Crosses(h), Listed',
           UNCHANGED <<office, status, filter, list, total, menu>>,
           office = "justice" => page' = page,
           Lit(FALSE) /\ excuse' = excuse => (Lit(last))'
    PROVE  SInv'
<1>1. PICK w : w = [at |-> "edit", view |-> S_!View, last |-> last]
  OBVIOUS
<1>2. S_!Shown(list', page') \subseteq Suspects
  BY FoundAreSuspects DEF Listed
<1>3. S_!View \in SuspectViews
  BY <1>2 DEF Listed, SuspectViews, S_!View
<1>4. AtWorkOn(w)
  BY <1>1, <1>3 DEF AtWorkOn, S_!InFlight, Edits
<1>5. ASSUME Clear' PROVE (SoFar(w))'
  <2>1. UpToDate /\ work[h].at \notin S_!InFlight /\ Lit(FALSE) /\ excuse' = excuse
    BY <1>5, AloneAtRest DEF S_!InFlight
  <2>2. S_!Found(filter)' = S_!Found(filter) /\ office \in {"homeland", "justice"}
    BY FoundStays DEF SInv, Listed
  <2>3. UpToDate'
    BY <2>1, <2>2 DEF UpToDate, S_!PageOf
  <2>4. S_!Shown(list', page') = S_!PageOf(S_!Found(filter), page')
    BY <2>1, <2>2 DEF UpToDate, S_!Shown
  <2>5. /\ w.view.page = page' /\ w.view.picked = picked' /\ w.view.live = live'
        /\ w.view.list = S_!PageOf(S_!Found(filter), page') /\ w.view.menu = menu'
    BY <1>1, <2>4 DEF S_!View, S_!Shown
  <2>6. office = "justice" => menu' = S_!PageOf(S_!Found(filter), page')
    BY <2>1, <2>2 DEF UpToDate
  <2>7. (Faithful(w.view))'
    BY <2>2, <2>5, <2>6 DEF Faithful, S_!PageOf
  <2>8. (Lit(last))'
    BY <2>1
  <2> QED  BY <1>1, <2>3, <2>7, <2>8 DEF SoFar, S_!InFlight
<1>6. S_!Goto(h, w)
  BY <1>1 DEF S_!Draw
<1> QED  BY <1>4, <1>5, <1>6, Excused, SuspectStep

LEMMA SelectKeeps ==
    ASSUME SInv, NEW h \in Handlers, NEW ss \in SUBSET Suspects, S_!on_select(h, ss) PROVE SInv'
<1>1. /\ work[h].at \in {"idle", "modal"} /\ picked' = ss /\ chosen' = ss
      /\ UNCHANGED <<filter, page, list, total, menu, live, open, office, status, taken, screen>>
      /\ S_!Draw(h, FALSE) /\ S_!Crosses(h)
  BY DEF S_!on_select, S_!Press, S_!Ready
<1>2. Listed'
  BY <1>1 DEF SInv, Listed
<1>3. Lit(FALSE) /\ excuse' = excuse => (Lit(FALSE))'
  BY <1>1 DEF Lit
<1> QED  BY <1>1, <1>2, <1>3, Redraws

LEMMA OwnPageKeeps ==
    ASSUME SInv, NEW h \in Handlers, NEW k \in 0..S_!Cardinality(Suspects), S_!on_turn_page(h, k)
    PROVE  SInv'
<1>1. /\ work[h].at \in {"idle", "modal"} /\ office = "homeland"
      /\ k \in 0 .. (S_!Pages(total) - 1) /\ page' = k
      /\ UNCHANGED <<filter, list, total, picked, menu, live, open, S_!books, screen>>
      /\ S_!Draw(h, FALSE) /\ S_!Crosses(h)
  BY DEF S_!on_turn_page, S_!Press, S_!Ready
<1>2. page' \in Nat /\ page' < S_!Pages(total)
  <2>1. total \in Nat
    BY DEF SInv, Listed
  <2>2. S_!Pages(total) \in Nat \ {0}
    BY <2>1, SomePage
  <2> QED  BY <1>1, <2>2
<1>3. Listed'
  BY <1>1, <1>2 DEF SInv, Listed, S_!books
<1>4. Lit(FALSE) /\ excuse' = excuse => (Lit(FALSE))'
  BY <1>1 DEF Lit, S_!books
<1> QED  BY <1>1, <1>3, <1>4, Redraws DEF S_!books

LEMMA CloseKeeps == ASSUME SInv, NEW h \in Handlers, S_!on_close(h) PROVE SInv'
<1>1. /\ work[h].at \in {"idle", "modal"} /\ live' = FALSE /\ office = "homeland"
      /\ UNCHANGED <<filter, page, list, total, picked, menu, open, S_!books, screen>>
      /\ S_!Draw(h, TRUE) /\ S_!Crosses(h)
  BY DEF S_!on_close, S_!Press, S_!Ready
<1>2. Listed'
  BY <1>1 DEF SInv, Listed, S_!books
<1>3. (Lit(TRUE))'
  BY <1>1 DEF Lit
<1> QED  BY <1>1, <1>2, <1>3, Redraws DEF S_!books

LEMMA TimeoutKeeps == ASSUME SInv, NEW h \in Handlers, S_!on_timeout(h) PROVE SInv'
<1>1. /\ work[h].at \in {"idle", "modal"} /\ open' = FALSE /\ live' = (office = "justice")
      /\ UNCHANGED <<filter, page, list, total, picked, menu, S_!books, screen>>
      /\ IF office = "homeland" THEN S_!Draw(h, TRUE) /\ S_!Crosses(h)
         ELSE UNCHANGED <<work, excuse>>
  BY DEF S_!on_timeout, S_!Press, S_!Ready
<1>2. Listed'
  BY <1>1 DEF SInv, Listed, S_!books
<1>3. CASE office = "homeland"
  <2>1. (Lit(TRUE))'
    BY <1>1, <1>3 DEF Lit
  <2> QED  BY <1>1, <1>2, <1>3, <2>1, Redraws DEF S_!books
<1>4. CASE office # "homeland"
  <2>1. UNCHANGED <<work, page, filter, list, total, picked, menu, screen, office, status, excuse>>
    BY <1>1, <1>4 DEF S_!books
  <2>2. office = "justice" /\ live' = live
    BY <1>1, <1>4 DEF SInv, Listed
  <2>3. \A f : S_!Found(f)' = S_!Found(f)
    BY <2>1, FoundStays
  <2>4. UpToDate => UpToDate'
    BY <2>1, <2>3 DEF UpToDate, S_!PageOf
  <2>5. \A v : Faithful(v) => (Faithful(v))'
    BY <2>1, <2>2, <2>3 DEF Faithful, S_!PageOf
  <2>6. \A last : (Lit(last))'
    BY <2>1, <2>2 DEF Lit
  <2>7. ASSUME NEW g \in Handlers, SoFar(work[g]) PROVE (SoFar(work[g]))'
    <3>1. PICK w : w = work[g]
      OBVIOUS
    <3>2. (Lit(FALSE))' /\ (Lit(w.last))'
      BY <2>6
    <3>3. SoFar(w)
      BY <2>7, <3>1
    <3>4. (SoFar(w))'
      BY <2>1, <2>3, <2>4, <2>5, <3>2, <3>3 DEF SoFar, Faithful, S_!PageOf
    <3>5. work'[g] = w
      BY <2>1, <3>1
    <3> QED  BY <3>4, <3>5 DEF SoFar, Lit
  <2>8. S_!Busy' = S_!Busy /\ Clear' = Clear /\ Bits' = Bits
    BY <2>1 DEF S_!Busy, Clear, Bits
  <2>9. S_!Busy \subseteq Handlers
    BY DEF S_!Busy
  <2>10. UpToDate /\ Faithful(screen) => UpToDate' /\ (Faithful(screen))' /\ (Lit(FALSE))'
    BY <2>1, <2>4, <2>5, <2>6 DEF Faithful
  <2>11. UpToNow'
    BY <2>7, <2>8, <2>9, <2>10 DEF SInv, UpToNow
  <2>12. \A g \in Handlers : AtWorkOn(work[g])'
    BY <2>1 DEF SInv, AtWorkOn
  <2> QED  BY <1>2, <2>1, <2>8, <2>11, <2>12 DEF SInv
<1> QED  BY <1>3, <1>4

-----------------------------------------------------------------------------
(* Orders *)

LEMMA OpenModalKeeps ==
    ASSUME SInv, NEW h \in Handlers, NEW order \in S_!Scopes \union {"search"},
           S_!open_modal(h, order) \/ (order = "search" /\ S_!open_search_modal(h))
    PROVE  SInv'
<1>1. PICK w : w = [at |-> "modal", order |-> order]
  OBVIOUS
<1>2. /\ work[h].at \in {"idle", "modal"} /\ S_!Goto(h, w)
      /\ UNCHANGED <<S_!state, S_!books, screen, excuse>>
  BY <1>1 DEF S_!open_modal, S_!open_search_modal, S_!Press, S_!Ready
<1>3. AtWorkOn(w)
  BY <1>1 DEF AtWorkOn
<1>4. /\ work' = [g \in Handlers |-> work'[g]] /\ work'[h] = w
      /\ \A g \in Handlers : g # h => work'[g] = work[g]
  BY <1>2 DEF SInv, S_!Goto
<1>5. \A g \in Handlers : AtWorkOn(work'[g])
  BY <1>3, <1>4 DEF SInv
<1>6. (\A g \in Handlers : AtWorkOn(work[g]))'
  BY <1>5 DEF AtWorkOn
<1>7. Listed'
  BY <1>2, ListedStays DEF SInv, Listed, S_!books
<1>8. /\ S_!Busy' = S_!Busy /\ \A g \in S_!Busy : work'[g] = work[g]
  <2>1. w.at \notin S_!InFlight /\ work[h].at \notin S_!InFlight
    BY <1>1, <1>2 DEF S_!InFlight
  <2> QED  BY <1>4, <2>1 DEF S_!Busy
<1>9. UpToNow'
  <2>1. ASSUME NEW g \in S_!Busy, SoFar(work[g]) PROVE (SoFar(work[g]))'
    <3>1. work'[g] = work[g] /\ UNCHANGED <<page, filter, office, screen>>
      BY <1>2, <1>8 DEF S_!state, S_!books
    <3>2. \A f : S_!Found(f)' = S_!Found(f)
      BY <1>2, FoundStays DEF S_!books
    <3>3. /\ UpToDate => UpToDate'
          /\ \A f, k : S_!PageOf(S_!Found(f), k)' = S_!PageOf(S_!Found(f), k)
          /\ \A v : Faithful(v) => (Faithful(v))'
          /\ \A last : Lit(last) => (Lit(last))'
      BY <1>2, BoardStays DEF S_!books, S_!state, Lit
    <3> QED  BY <2>1, <3>1, <3>2, <3>3 DEF SoFar, Faithful
  <2>2. UpToDate /\ Faithful(screen) /\ Lit(FALSE) => UpToDate' /\ (Faithful(screen))' /\ (Lit(FALSE))'
    BY <1>2, BoardStays DEF S_!books, S_!state, Faithful
  <2>3. Clear' = Clear
    BY <1>2 DEF Clear
  <2> QED  BY <1>8, <2>1, <2>2, <2>3 DEF SInv, UpToNow
<1>10. Bits'
  BY <1>2 DEF SInv, Bits
<1> QED  BY <1>2, <1>4, <1>6, <1>7, <1>9, <1>10 DEF SInv

LEMMA SearchKeeps == ASSUME SInv, NEW h \in Handlers, S_!apply_search(h) PROVE SInv'
<1>1. PICK w : w = [at |-> "defer", search |-> TRUE]
  OBVIOUS
<1>2. S_!Goto(h, w) /\ S_!Crosses(h) /\ UNCHANGED <<S_!state, S_!books, screen>>
  BY <1>1 DEF S_!apply_search
<1>3. AtWorkOn(w)
  BY <1>1 DEF AtWorkOn, S_!InFlight
<1>4. Listed'
  BY <1>2, ListedStays DEF SInv, Listed, S_!books
<1>5. (SoFar(w))'
  BY <1>1 DEF SoFar, S_!InFlight
<1> QED  BY <1>2, <1>3, <1>4, <1>5, Excused, SuspectStep

LEMMA SubmitKeeps == ASSUME SInv, NEW h \in Handlers, S_!on_submit(h) PROVE SInv'
<1> DEFINE order == work[h].order
           now == IF order = "schedule_all" THEN list ELSE picked
           fixed == order \in {"schedule", "schedule_all"}
<1>1. PICK w : w = [at |-> "act", order |-> order, fixed |-> fixed, todo |-> now,
                    begun |-> FALSE]
  OBVIOUS
<1>2. /\ work[h].at = "modal" /\ S_!Goto(h, w) /\ S_!Crosses(h)
      /\ taken' = (IF order = "schedule" THEN now ELSE taken)
      /\ UNCHANGED <<S_!state, office, status, chosen, screen>>
  BY <1>1 DEF S_!on_submit
<1>3. order \in S_!Scopes
  BY DEF S_!on_submit
<1>4. now \subseteq Suspects
  BY DEF SInv, Listed
<1>5. AtWorkOn(w)
  <2>1. fixed \in BOOLEAN
    OBVIOUS
  <2> HIDE DEF now, fixed, order
  <2> QED  BY <1>1, <1>3, <1>4, <2>1 DEF AtWorkOn, S_!InFlight, Ordering
<1>6. taken' \subseteq Suspects
  BY <1>2, <1>4 DEF SInv, Listed
<1>7. Listed'
  BY <1>2, <1>6, ListedStays DEF SInv, Listed
<1>8. ASSUME Clear' PROVE (SoFar(w))'
  <2>1. UpToDate /\ Faithful(screen) /\ Lit(FALSE) /\ excuse' = excuse
    BY <1>2, <1>8, AloneAtRest DEF S_!InFlight
  <2>2. UpToDate' /\ (Faithful(screen))' /\ (Lit(FALSE))'
    BY <1>2, <2>1, BoardStays DEF Faithful, S_!state
  <2> QED  BY <1>1, <2>2 DEF SoFar, S_!InFlight
<1> QED  BY <1>2, <1>5, <1>7, <1>8, Excused, SuspectStep

LEMMA TakeKeeps == ASSUME SInv, NEW h \in Handlers, S_!Take(h) PROVE SInv'
<1> DEFINE them == IF office = "justice" THEN picked \cap list ELSE picked
<1>1. PICK w : w = [work[h] EXCEPT !.fixed = TRUE, !.todo = them]
  OBVIOUS
<1>2. /\ work[h].at = "act" /\ S_!Goto(h, w) /\ taken' = them
      /\ UNCHANGED <<office, status, chosen, S_!state, screen, excuse>>
  BY <1>1 DEF S_!Take
<1>3. work[h] \in Ordering
  BY <1>2 DEF SInv, AtWorkOn
<1>4. them \subseteq Suspects
  BY DEF SInv, Listed
<1>5. w \in Ordering /\ w.at = "act" /\ w.begun = work[h].begun
  BY <1>1, <1>3, <1>4 DEF Ordering
<1>6. AtWorkOn(w)
  BY <1>5 DEF AtWorkOn, S_!InFlight
<1>7. Listed'
  BY <1>2, <1>4, ListedStays DEF SInv, Listed
<1>8. ASSUME Clear' PROVE S_!Busy \subseteq {h} /\ (SoFar(w))'
  <2>1. S_!Busy = {h} /\ SoFar(work[h])
    BY <1>2, <1>8, AloneAtWork DEF S_!InFlight, Clear
  <2>2. ~w.begun => UpToDate /\ Faithful(screen) /\ Lit(FALSE)
    BY <1>2, <1>5, <2>1 DEF SoFar
  <2>3. ~w.begun => UpToDate' /\ (Faithful(screen))' /\ (Lit(FALSE))'
    BY <1>2, <2>2, BoardStays DEF Faithful, S_!state
  <2> QED  BY <1>5, <2>1, <2>3 DEF SoFar, S_!InFlight
<1>9. Bits'
  BY <1>2 DEF SInv, Bits
<1> QED  BY <1>2, <1>6, <1>7, <1>8, <1>9, SuspectStep

LEMMA ServeKeeps ==
    ASSUME SInv, NEW h \in Handlers, NEW s \in Suspects, S_!Serve(h, s) PROVE SInv'
<1>1. PICK w : w = [work[h] EXCEPT !.todo = @ \ {s}, !.begun = TRUE]
  OBVIOUS
<1>2. /\ work[h].at = "act" /\ S_!Goto(h, w)
      /\ status' = [status EXCEPT ![s] = S_!After(work[h].order, s)]
      /\ UNCHANGED <<office, chosen, taken, S_!state, screen, excuse>>
  BY <1>1 DEF S_!Serve
<1>3. work[h] \in Ordering
  BY <1>2 DEF SInv, AtWorkOn
<1>4. w \in Ordering /\ w.at = "act" /\ w.begun = TRUE
  BY <1>1, <1>3 DEF Ordering
<1>5. AtWorkOn(w)
  BY <1>4 DEF AtWorkOn, S_!InFlight
<1>6. S_!After(work[h].order, s) \in {"free", "detained", "charged"}
  <2>1. status[s] \in {"free", "detained", "charged"}
    BY DEF SInv, Listed
  <2>2. S_!After(work[h].order, s) \in {"free", "charged", "detained", status[s]}
    BY DEF S_!After
  <2> QED  BY <2>1, <2>2
<1>7. status' \in [Suspects -> {"free", "detained", "charged"}]
  BY <1>2, <1>6 DEF SInv, Listed
<1>8. Listed'
  BY <1>2, <1>7, ListedStays DEF SInv, Listed
<1>9. ASSUME Clear' PROVE S_!Busy \subseteq {h} /\ (SoFar(w))'
  <2>1. S_!Busy = {h}
    BY <1>2, <1>9, AloneAtWork DEF S_!InFlight, Clear
  <2> QED  BY <1>4, <2>1 DEF SoFar, S_!InFlight
<1>10. Bits'
  BY <1>2 DEF SInv, Bits
<1> QED  BY <1>2, <1>5, <1>8, <1>9, <1>10, SuspectStep

LEMMA FinishKeeps == ASSUME SInv, NEW h \in Handlers, S_!Finish(h) PROVE SInv'
<1>1. PICK w : w = [at |-> "read", page |-> page, wanted |-> filter]
  OBVIOUS
<1>2. /\ S_!Goto(h, w) /\ S_!Anew(h)
      /\ picked' = (IF work[h].order = "schedule_all" THEN picked ELSE {})
      /\ UNCHANGED <<filter, page, list, total, menu, live, open, S_!books, screen>>
  BY <1>1 DEF S_!Finish
<1>3. AtWorkOn(w)
  BY <1>1 DEF AtWorkOn, S_!InFlight, Reading, SInv, Listed
<1>4. picked' \subseteq Suspects
  BY <1>2 DEF SInv, Listed
<1>5. Listed'
  BY <1>2, <1>4 DEF SInv, Listed, S_!books
<1>6. (SoFar(w))'
  BY <1>1, <1>2 DEF SoFar, S_!InFlight
<1> QED  BY <1>2, <1>3, <1>5, <1>6, Excused, SuspectStep

LEMMA ElsewhereKeeps ==
    ASSUME SInv, NEW s \in Suspects, NEW new \in {"free", "detained", "charged"},
           S_!Elsewhere(s, new)
    PROVE  SInv'
<1>1. /\ status' = [status EXCEPT ![s] = new] /\ excuse' = excuse \union {"elsewhere"}
      /\ UNCHANGED <<office, chosen, taken, S_!state, screen, work>>
  BY DEF S_!Elsewhere
<1>2. status' \in [Suspects -> {"free", "detained", "charged"}]
  BY <1>1 DEF SInv, Listed
<1>3. Listed'
  BY <1>1, <1>2, ListedStays DEF SInv, Listed
<1>4. UpToNow' /\ Bits'
  BY <1>1 DEF SInv, UpToNow, Clear, Bits, S_!Reasons
<1>5. (\A h \in Handlers : AtWorkOn(work[h]))'
  BY <1>1 DEF SInv, AtWorkOn
<1> QED  BY <1>1, <1>3, <1>4, <1>5 DEF SInv

LEMMA SInvKept == SInv /\ [S_!Next]_(S_!deskVars) => SInv'
<1> SUFFICES ASSUME SInv, [S_!Next]_(S_!deskVars) PROVE SInv'
  OBVIOUS
<1>1. CASE UNCHANGED S_!deskVars
  <2>1. UNCHANGED <<S_!state, office, status, chosen, taken, screen, work, excuse>>
    BY <1>1 DEF S_!deskVars, S_!books
  <2>2. Listed'
    BY <2>1, ListedStays DEF SInv, Listed
  <2>3. \A f : S_!Found(f)' = S_!Found(f)
    BY <2>1, FoundStays
  <2>4. /\ UpToDate => UpToDate'
        /\ \A v : Faithful(v) => (Faithful(v))'
        /\ \A last : Lit(last) => (Lit(last))'
        /\ \A f, k : S_!PageOf(S_!Found(f), k)' = S_!PageOf(S_!Found(f), k)
    BY <2>1, BoardStays DEF S_!state, Lit
  <2>5. S_!Busy' = S_!Busy /\ Clear' = Clear /\ Bits' = Bits
    BY <2>1 DEF S_!Busy, Clear, Bits
  <2>6. ASSUME NEW h, SoFar(work[h]) PROVE (SoFar(work[h]))'
    BY <2>1, <2>3, <2>4, <2>6 DEF SoFar, Faithful, S_!state
  <2>7. UpToDate /\ Faithful(screen) /\ Lit(FALSE) => UpToDate' /\ (Faithful(screen))' /\ (Lit(FALSE))'
    BY <2>1, <2>4 DEF Faithful
  <2>8. UpToNow'
    BY <2>1, <2>5, <2>6, <2>7 DEF SInv, UpToNow
  <2>9. (\A h \in Handlers : AtWorkOn(work[h]))'
    BY <2>1 DEF SInv, AtWorkOn
  <2> QED  BY <2>1, <2>2, <2>5, <2>8, <2>9 DEF SInv
<1>2. ASSUME NEW h \in Handlers, S_!Working(h) PROVE SInv'
  <2>1. ASSUME NEW s \in Suspects, S_!Serve(h, s) PROVE SInv'
    BY <2>1, ServeKeeps
  <2> QED  BY <1>2, <2>1, DeferredKeeps, ReadKeeps, ApplyKeeps, ShowKeeps, TakeKeeps,
              FinishKeeps DEF S_!Working
<1>3. ASSUME NEW h \in Handlers, S_!ReadFails(h) \/ S_!Refused(h) \/ S_!OrderRefused(h)
      PROVE SInv'
  BY <1>3, ReadFailsKeeps, RefusedKeeps, OrderRefusedKeeps
<1>4. ASSUME NEW h \in Handlers,
             S_!HomelandSecuritySuspectsPanelView(h) \/ S_!JusticeSuspectsPanelView(h)
      PROVE SInv'
  BY <1>4, OwnPageKeeps, ReloadsKeep, OpenModalKeeps, SearchKeeps DEF S_!HomelandSecuritySuspectsPanelView,
     S_!JusticeSuspectsPanelView
<1>5. ASSUME NEW h \in Handlers, NEW ss \in SUBSET Suspects, S_!on_select(h, ss) PROVE SInv'
  BY <1>5, SelectKeeps
<1>6. ASSUME NEW h \in Handlers,
             S_!on_refresh(h) \/ S_!on_submit(h) \/ S_!on_close(h) \/ S_!on_timeout(h)
      PROVE SInv'
  BY <1>6, ReloadsKeep, SubmitKeeps, CloseKeeps, TimeoutKeeps
<1>7. ASSUME NEW h \in Handlers, NEW order \in S_!Scopes, S_!open_modal(h, order) PROVE SInv'
  BY <1>7, OpenModalKeeps
<1>8. ASSUME NEW s \in Suspects, NEW new \in {"free", "detained", "charged"},
             S_!Elsewhere(s, new) PROVE SInv'
  BY <1>8, ElsewhereKeeps
<1> QED  BY <1>1, <1>2, <1>3, <1>4, <1>5, <1>6, <1>7, <1>8 DEF S_!Next

LEMMA SuspectScreens == MCSpec => [](S_!TypeOK /\ S_!PanelShowsTheSuspects)
<1>1. S_!Init => SInv
  BY SInvAtFirst
<1>2. SInv /\ [S_!Next]_(S_!deskVars) => SInv'
  BY SInvKept
<1>3. SInv => S_!TypeOK /\ S_!PanelShowsTheSuspects
  BY SInvShows
<1>4. MCSpec => S_!Spec
  BY Suspects_
<1> QED  BY <1>1, <1>2, <1>3, <1>4, PTL DEF S_!Spec

-----------------------------------------------------------------------------
(* What the voting messages reach *)

\* The rest of the types: what the council reminds of is nearing its deadline.
VDesk ==
    /\ chamber \in {"council", "assembly"}
    /\ overdue \subseteq Proposals /\ reminded \subseteq nearing /\ nearing \subseteq Proposals
    /\ \A p \in registered : V_!Begun(p)
    /\ letters \in [Proposals -> {"none", "this process", "an earlier one"}]
    /\ Marking(round) \subseteq nearing
    /\ chamber = "council" => Reminding(round) \subseteq nearing

LEMMA VDeskAtFirst == V_!Init => VDesk
<1> SUFFICES ASSUME V_!Init PROVE VDesk
  OBVIOUS
<1>1. Marking(round) = {} /\ Reminding(round) = {}
  <2>1. round.at = "start"
    BY DEF V_!Init
  <2> QED  BY <2>1 DEF Marking, Reminding
<1> QED  BY <1>1 DEF V_!Init, VDesk

\* What has been proposed stays so.
LEMMA BegunStays ==
    ASSUME VInv, VDesk, UNCHANGED registered,
           \/ standing' = standing
           \/ \E p \in Proposals, s \in Statuses \ {"unborn"} :
                 standing' = [standing EXCEPT ![p] = s]
    PROVE  (\A q \in registered : V_!Begun(q))'
<1>1. registered \subseteq Proposals /\ \A q \in registered : V_!Begun(q)
  BY DEF VInv, VViews, VDesk
<1>2. \A q \in Proposals : V_!Begun(q) => standing'[q] # "unborn"
  BY DEF VInv, VTypes, V_!Begun
<1> QED  BY <1>1, <1>2 DEF V_!Begun

LEMMA ProposalsKeepDesk ==
    ASSUME VInv, VDesk, NEW p \in Proposals,
           \/ V_!create_proposal(p) \/ V_!create_unsaid(p) \/ V_!cancel(p)
           \/ V_!Nearing(p) \/ V_!Deadline(p)
    PROVE  VDesk'
<1>1. /\ \/ standing' = standing
         \/ \E s \in Statuses \ {"unborn"} : standing' = [standing EXCEPT ![p] = s]
      /\ UNCHANGED <<chamber, reminded, registered, round>>
      /\ nearing' \in {nearing, nearing \union {p}} /\ overdue' \in {overdue, overdue \union {p}}
      /\ \/ letters' = letters
         \/ \E s \in {"none", "this process"} : letters' = [letters EXCEPT ![p] = s]
  BY DEF V_!create_proposal, V_!create_unsaid, V_!cancel, V_!Nearing, V_!Deadline, V_!Propose,
         V_!views, Statuses
<1>2. (\A q \in registered : V_!Begun(q))'
  BY <1>1, BegunStays
<1> QED  BY <1>1, <1>2 DEF VDesk

LEMMA VotesKeepDesk ==
    ASSUME VInv, VDesk, NEW k \in Callbacks, V_!VotingView(k) PROVE VDesk'
<1>1. UNCHANGED <<chamber, nearing, overdue, reminded, registered, letters, round>>
  BY DEF V_!VotingView, V_!VoteRefused, V_!Reply, V_!TellVote, V_!ReplyFails, V_!CommitVote,
         V_!PressInMessage, V_!PressOnPanel, V_!Vote, V_!rows, V_!views
<1>2. \/ standing' = standing
      \/ \E p \in Proposals, s \in Statuses \ {"unborn"} : standing' = [standing EXCEPT ![p] = s]
  <2>1. CASE \E s \in {"open", "passed", "rejected"} : V_!CommitVote(k, s)
    <3>1. PICK s \in {"open", "passed", "rejected"} : V_!CommitVote(k, s)
      BY <2>1
    <3>2. s = "open" \/ s \in Statuses \ {"unborn"}
      BY DEF Statuses, V_!Final
    <3>3. ballot[k].on \in Proposals
      BY <3>1 DEF V_!CommitVote, VInv, VTypes, Commits, Replies, Tellers, V_!NoBallot
    <3> QED  BY <3>1, <3>2, <3>3 DEF V_!CommitVote
  <2>2. CASE ~\E s \in {"open", "passed", "rejected"} : V_!CommitVote(k, s)
    BY <2>2 DEF V_!VotingView, V_!VoteRefused, V_!Reply, V_!TellVote, V_!ReplyFails,
           V_!PressInMessage, V_!PressOnPanel, V_!Vote, V_!rows, V_!views
  <2> QED  BY <2>1, <2>2
<1>3. (\A q \in registered : V_!Begun(q))'
  BY <1>1, <1>2, BegunStays
<1> QED  BY <1>1, <1>3 DEF VDesk

LEMMA RoundKeepsDesk == ASSUME VInv, VDesk, V_!Round PROVE VDesk'
<1>1. CASE V_!register_persistent_views
  <2>1. /\ registered' = V_!Open
        /\ UNCHANGED <<chamber, standing, nearing, overdue, reminded, letters>>
        /\ round'.at = "asleep"
    BY <1>1 DEF V_!register_persistent_views, V_!rows, V_!views, V_!Sleeping
  <2>2. Marking(round') = {} /\ Reminding(round') = {}
    BY <2>1 DEF Marking, Reminding
  <2>3. \A p \in V_!Open : p \in Proposals /\ V_!Begun(p)
    BY DEF V_!Open, V_!Begun
  <2>4. (\A q \in registered : V_!Begun(q))'
    BY <2>1, <2>3 DEF VDesk, V_!Begun
  <2> QED  BY <2>1, <2>2, <2>4 DEF VDesk, Marking, Reminding
<1>2. CASE V_!mark_reminded
  <2>1. /\ round.at = "mark" /\ reminded' = reminded \union {round.marking}
        /\ round'.at = "remind" /\ round'.todo = round.todo
        /\ UNCHANGED <<chamber, standing, nearing, overdue, registered, letters>>
    BY <1>2 DEF V_!mark_reminded, V_!views
  <2>2. round.marking \in nearing
    BY <2>1 DEF VDesk, Marking
  <2>3. Marking(round') = {} /\ Reminding(round') = Reminding(round)
    BY <2>1 DEF Marking, Reminding
  <2>4. (\A q \in registered : V_!Begun(q))'
    BY <2>1 DEF VDesk, V_!Begun
  <2> QED  BY <2>1, <2>2, <2>3, <2>4 DEF VDesk, Marking, Reminding
<1>3. ASSUME NEW p \in Proposals, NEW s \in {"passed", "expired"}, V_!Expire(p, s) PROVE VDesk'
  <2>1. /\ standing' = [standing EXCEPT ![p] = s]
        /\ round.at = "expiring" /\ round' = [round EXCEPT !.todo = @ \ {p}]
        /\ UNCHANGED <<chamber, nearing, overdue, reminded, registered, letters>>
    BY <1>3 DEF V_!Expire, V_!views
  <2>2. round'.at = "expiring"
    BY <2>1, InRounds
  <2>3. Marking(round') = {} /\ Reminding(round') = {}
    BY <2>2 DEF Marking, Reminding
  <2>4. s \in Statuses \ {"unborn"}
    BY DEF Statuses, V_!Final
  <2>5. (\A q \in registered : V_!Begun(q))'
    BY <2>1, <2>4, BegunStays
  <2> QED  BY <2>1, <2>3, <2>5 DEF VDesk, Marking, Reminding
<1>4. ASSUME UNCHANGED <<chamber, standing, nearing, overdue, reminded, registered, letters>>,
             Marking(round') \subseteq nearing,
             chamber = "council" => Reminding(round') \subseteq nearing
      PROVE  VDesk'
  <2>1. (\A q \in registered : V_!Begun(q))'
    BY <1>4 DEF VDesk, V_!Begun
  <2> QED  BY <1>4, <2>1 DEF VDesk, Marking, Reminding
<1>5. CASE \/ V_!ListDue \/ V_!ListToExpire \/ V_!RemindersDone \/ V_!RoundDone
           \/ V_!RoundFails \/ V_!RegisterFails \/ V_!BroadcastResult
  <2>1. /\ round'.at \notin {"remind", "mark"}
        /\ UNCHANGED <<chamber, standing, nearing, overdue, reminded, registered, letters>>
    BY <1>5 DEF V_!ListDue, V_!ListToExpire, V_!RemindersDone, V_!RoundDone, V_!RoundFails,
                V_!RegisterFails, V_!BroadcastResult, V_!rows, V_!views, V_!Sleeping
  <2> QED  BY <1>4, <2>1 DEF Marking, Reminding
<1>6. CASE V_!ExpireFails
  <2>1. /\ round.at = "expiring" /\ round' = [round EXCEPT !.todo = {}]
        /\ UNCHANGED <<chamber, standing, nearing, overdue, reminded, registered, letters>>
    BY <1>6 DEF V_!ExpireFails, V_!rows, V_!views
  <2>2. round'.at = "expiring"
    BY <2>1, InRounds
  <2> QED  BY <1>4, <2>1, <2>2 DEF Marking, Reminding
<1>7. CASE V_!ListReminders
  <2>1. /\ round'.at = "remind"
        /\ round'.todo = IF chamber = "council" THEN (V_!Open \intersect nearing) \ reminded
                         ELSE V_!Open \intersect overdue
        /\ UNCHANGED <<chamber, standing, nearing, overdue, reminded, registered, letters>>
    BY <1>7 DEF V_!ListReminders, V_!rows, V_!views
  <2> QED  BY <1>4, <2>1 DEF Marking, Reminding
<1>8. ASSUME NEW p \in Proposals, V_!Remind(p) PROVE VDesk'
  <2>1. /\ round.at = "remind" /\ p \in round.todo
        /\ UNCHANGED <<chamber, standing, nearing, overdue, reminded, registered, letters>>
    BY <1>8 DEF V_!Remind, V_!rows, V_!views
  <2>2. Reminding(round) = round.todo
    BY <2>1 DEF Reminding
  <2>3. CASE chamber = "council"
    <3>1. round'.at = "mark" /\ round'.todo = round.todo \ {p} /\ round'.marking = p
      BY <1>8, <2>3 DEF V_!Remind
    <3>2. p \in nearing /\ round.todo \subseteq nearing
      BY <2>1, <2>2, <2>3 DEF VDesk
    <3> QED  BY <1>4, <2>1, <3>1, <3>2 DEF Marking, Reminding
  <2>4. CASE chamber # "council"
    <3>1. round' = [round EXCEPT !.todo = @ \ {p}]
      BY <1>8, <2>4 DEF V_!Remind
    <3>2. round'.at = "remind"
      BY <2>1, <3>1, InRounds
    <3> QED  BY <1>4, <2>1, <2>4, <3>2 DEF Marking, Reminding
  <2> QED  BY <2>3, <2>4
<1>9. ASSUME NEW p \in Proposals, V_!Broadcast(p) \/ V_!BroadcastFails(p) PROVE VDesk'
  <2>1. UNCHANGED <<chamber, standing, nearing, overdue, reminded, registered, letters>>
    BY <1>9 DEF V_!Broadcast, V_!BroadcastFails, V_!rows, V_!views
  <2>2. round'.at \in {"broadcast", "tell"}
    BY <1>9, InRounds DEF V_!Broadcast, V_!BroadcastFails, V_!Announced
  <2> QED  BY <1>4, <2>1, <2>2 DEF Marking, Reminding
<1> QED  BY <1>1, <1>2, <1>3, <1>5, <1>6, <1>7, <1>8, <1>9 DEF V_!Round

LEMMA RestartKeepsDesk == ASSUME VDesk, V_!Restart PROVE VDesk'
<1>1. /\ registered' = {} /\ round'.at = "start"
      /\ letters' = [p \in Proposals |-> IF letters[p] = "none" THEN "none" ELSE "an earlier one"]
      /\ UNCHANGED <<chamber, standing, nearing, overdue, reminded>>
  BY DEF V_!Restart, V_!rows, V_!views
<1>2. letters' \in [Proposals -> {"none", "this process", "an earlier one"}]
  BY <1>1
<1>3. Marking(round') = {} /\ Reminding(round') = {}
  BY <1>1 DEF Marking, Reminding
<1> QED  BY <1>1, <1>2, <1>3 DEF VDesk, Marking, Reminding

LEMMA VDeskKept == VInv /\ VDesk /\ [V_!Next]_(V_!votingVars) => VDesk'
<1> SUFFICES ASSUME VInv, VDesk, [V_!Next]_(V_!votingVars) PROVE VDesk'
  OBVIOUS
<1>1. CASE UNCHANGED V_!votingVars
  <2>1. /\ UNCHANGED <<chamber, standing, nearing, overdue, reminded, registered, letters, round>>
    BY <1>1 DEF V_!votingVars, V_!rows, V_!views
  <2> QED  BY <2>1 DEF VDesk, V_!Begun, Marking, Reminding
<1> QED  BY <1>1, ProposalsKeepDesk, VotesKeepDesk, RoundKeepsDesk, RestartKeepsDesk DEF V_!Next

LEMMA VotingScreens == MCSpec => []V_!TypeOK
<1>1. VInv /\ VDesk => V_!TypeOK
  <2> SUFFICES ASSUME VInv, VDesk PROVE V_!TypeOK
    OBVIOUS
  <2>1. round.at \in
           {"start", "asleep", "expire", "expiring", "remind", "mark", "broadcast", "tell"}
    BY DEF VInv, VTypes, Rounds
  <2>2. \A k \in Callbacks : ballot[k].at \in {"idle", "commit", "reply", "tell"}
    BY DEF VInv, VTypes, Commits, Replies, Tellers, V_!NoBallot
  <2>3. standing \in [Proposals -> {"unborn", "open", "cancelled"} \union V_!Final]
    BY DEF VInv, VTypes, Statuses
  <2> QED  BY <2>1, <2>2, <2>3 DEF VInv, VViews, VDesk, V_!TypeOK
<1>2. V_!Init => VInv /\ VDesk
  BY VInvAtFirst, VDeskAtFirst
<1>3. VInv /\ VDesk /\ [V_!Next]_(V_!votingVars) => (VInv /\ VDesk)'
  BY VInvKept, VDeskKept
<1>4. MCSpec => V_!Spec
  BY Voting_
<1> QED  BY <1>1, <1>2, <1>3, <1>4, PTL DEF V_!Spec

-----------------------------------------------------------------------------
(* What a member's own panel shows *)

\* What a message of the panel can be, and what a callback holds.
Picture(v) ==
    /\ v.embed.of \in P_!Tabs
    /\ v.controls \in {P_!_update_view_items(t, n) : t \in P_!Tabs, n \in {0, HistoryPage + 1}}
Holding(w) ==
    /\ w.at \in P_!Drawing \union {"idle", "resolve", "form", "pay", "tell"}
    /\ w.at = "refreshed" => w.balance \in Nat
    /\ w.at = "loading" => w \in [at : {"loading"}, from : {"tab", "form"}]
    /\ w.at = "edit" => Picture(w.view)
PDesk ==
    /\ mode \in {"direct", "pooled"} /\ purse \in Nat /\ entries \in Nat
    /\ filed \in Seq(P_!Kinds) /\ loaded \in [P_!Kinds -> SUBSET Nat]
    /\ tab \in P_!Tabs /\ Picture(shown)
    /\ seen \in [balance : Nat, entries : Nat]
    /\ pager \in Nat \union {-1} /\ leaf \in Nat
    /\ pager # -1 => leaf < P_!Leaves(pager)
    /\ tab = "property" => pager = seen.entries
    /\ offers \subseteq Nat /\ latest[1] \in P_!Payees \union {Nobody}
    /\ cause \subseteq P_!Redrawn \union {"load"}

\* What a callback that draws alone has so far, if its tab is drawn; and if the
\* applications are loaded.
Redrawing(w) ==
    /\ w.at \in {"load", "loading"} /\ w.from = "tab" => tab = "government"
    /\ w.at = "edit" => w.view = P_!Wanted
    /\ w.at \notin {"load", "loading", "edit"} => shown = P_!Wanted
Reloading(w) ==
    /\ w.at = "loading" => loaded["welfare"] = P_!Recent["welfare"]
    /\ w.at \notin {"load", "loading"} => loaded = P_!Recent
Screened ==
    cause \intersect P_!Redrawn = {} =>
        /\ \A g, h \in P_!AtWork : g = h
        /\ \A h \in P_!AtWork : Redrawing(hand[h])
        /\ P_!AtWork = {} => shown = P_!Wanted
Reloaded ==
    "load" \notin cause =>
        /\ \A g, h \in P_!AtWork : g = h
        /\ \A h \in P_!AtWork : Reloading(hand[h])
        /\ P_!AtWork = {} => loaded = P_!Recent

PScreen ==
    /\ PDesk /\ Screened /\ Reloaded
    /\ \A h \in Clicks : Holding(hand[h])

LEMMA RecentStays == filed' = filed => P_!Recent' = P_!Recent
BY DEF P_!Recent

LEMMA RecentAreNumbers ==
    ASSUME filed \in Seq(P_!Kinds)
    PROVE  P_!Recent \in [P_!Kinds -> SUBSET Nat]
<1>1. DOMAIN filed \subseteq Nat
  OBVIOUS
<1>2. \A k : P_!Latest({i \in DOMAIN filed : filed[i] = k}, LoadLimit) \subseteq Nat
  BY <1>1 DEF P_!Latest
<1> QED  BY <1>2 DEF P_!Recent

LEMMA SameSize == \A S : P_!Cardinality(S) = Cardinality(S)
BY Zenon DEF P_!Cardinality, Cardinality, P_!IsFiniteSet, IsFiniteSet

LEMMA LeastOf ==
    ASSUME NEW T, T \subseteq Nat, T # {}
    PROVE  \E x \in T : \A y \in T : x <= y
<1>1. PICK x \in T : \A y \in T : ~ (<<y, x>> \in OpToRel(<, Nat))
  BY NatLessThanWellFounded, WFMin
<1>2. \A y \in T : ~(y < x)
  BY <1>1 DEF OpToRel
<1> QED  BY <1>2

LEMMA GreatestOf ==
    ASSUME NEW n \in Nat, NEW T, T \subseteq 1 .. n, T # {}
    PROVE  \E x \in T : \A y \in T : y <= x
<1> DEFINE U == {n - i : i \in T}
<1>1. U \subseteq Nat /\ U # {}
  <2>1. \A i \in T : i \in 1 .. n /\ n - i \in Nat
    OBVIOUS
  <2>2. \A u \in U : u \in Nat
    BY <2>1
  <2>3. PICK i \in T : TRUE
    OBVIOUS
  <2>4. n - i \in U
    OBVIOUS
  <2> QED  BY <2>2, <2>4
<1>2. PICK u \in U : \A v \in U : u <= v
  <2> HIDE DEF U
  <2> QED  BY <1>1, LeastOf
<1>3. PICK x \in T : u = n - x
  OBVIOUS
<1>4. ASSUME NEW y \in T PROVE y <= x
  <2>1. n - x <= n - y
    BY <1>2, <1>3
  <2> QED  BY <2>1
<1> QED  BY <1>3, <1>4

\* The newest of the newest of either kind are the newest of all, since a query
\* gives at least as many as the history shows (_get_combined_applications).
LEMMA NewestOfAll ==
    ASSUME filed \in Seq(P_!Kinds)
    PROVE  P_!History(P_!Recent) = P_!Latest(DOMAIN filed, HistoryShown)
<1> DEFINE D == DOMAIN filed
           L == UNION {P_!Recent[k] : k \in P_!Kinds}
           Of(k) == {i \in D : filed[i] = k}
           After(S, i) == {j \in S : j > i}
<1>1. HistoryShown \in Nat /\ LoadLimit \in Nat /\ HistoryShown <= LoadLimit
  BY PersonalAssumed DEF P_!PersonalPanelAssumption
<1>2. /\ Len(filed) \in Nat /\ D = 1 .. Len(filed) /\ IsFiniteSet(D)
      /\ \A i \in D : filed[i] \in P_!Kinds
  BY FS_Interval
<1>3. ASSUME NEW S, NEW T, S \subseteq T, T \subseteq D
      PROVE  Cardinality(S) \in Nat /\ Cardinality(T) \in Nat /\ Cardinality(S) <= Cardinality(T)
  BY <1>2, <1>3, FS_Subset, FS_CardinalityType
<1>4. \A i : i \in L <=> i \in D /\ Cardinality(After(Of(filed[i]), i)) < LoadLimit
  <2>1. \A k \in P_!Kinds :
           P_!Recent[k] = {i \in Of(k) : Cardinality(After(Of(k), i)) < LoadLimit}
    BY SameSize DEF P_!Recent, P_!Latest
  <2>2. \A i : i \in L <=> \E k \in P_!Kinds : i \in P_!Recent[k]
    OBVIOUS
  <2>3. \A i, k : i \in Of(k) <=> i \in D /\ filed[i] = k
    OBVIOUS
  <2> HIDE DEF L, Of, After, D
  <2>4. \A i : i \in L <=> \E k \in P_!Kinds :
                             i \in Of(k) /\ Cardinality(After(Of(k), i)) < LoadLimit
    BY <2>1, <2>2
  <2> QED  BY <1>2, <2>3, <2>4
<1>5. L \subseteq D
  BY <1>4
<1>6. /\ P_!History(P_!Recent) = {i \in L : Cardinality(After(L, i)) < HistoryShown}
      /\ P_!Latest(D, HistoryShown) = {i \in D : Cardinality(After(D, i)) < HistoryShown}
  BY SameSize DEF P_!History, P_!Latest
<1>7. ASSUME NEW i \in D, Cardinality(After(D, i)) < HistoryShown
      PROVE  i \in L /\ Cardinality(After(L, i)) < HistoryShown
  <2>1. /\ After(Of(filed[i]), i) \subseteq After(D, i) /\ After(L, i) \subseteq After(D, i)
        /\ After(D, i) \subseteq D
    BY <1>5
  <2>2. /\ Cardinality(After(Of(filed[i]), i)) \in Nat /\ Cardinality(After(L, i)) \in Nat
        /\ Cardinality(After(D, i)) \in Nat
        /\ Cardinality(After(Of(filed[i]), i)) <= Cardinality(After(D, i))
        /\ Cardinality(After(L, i)) <= Cardinality(After(D, i))
    <3> HIDE DEF After, L, Of, D
    <3> QED  BY <2>1, <1>3
  <2>3. Cardinality(After(Of(filed[i]), i)) < LoadLimit
    <3> HIDE DEF After, Of, D, L
    <3> QED  BY <1>1, <1>7, <2>2
  <2>4. Cardinality(After(L, i)) < HistoryShown
    <3> HIDE DEF After, Of, D, L
    <3> QED  BY <1>1, <1>7, <2>2
  <2>5. i \in L
    <3> HIDE DEF After, Of, D, L
    <3> QED  BY <1>4, <1>7, <2>3
  <2> QED  BY <2>4, <2>5
<1>8. ASSUME NEW i \in L, Cardinality(After(L, i)) < HistoryShown
      PROVE  Cardinality(After(D, i)) < HistoryShown
  <2> DEFINE B == {j \in D : j > i /\ j \notin L}
  <2>1. ASSUME B # {} PROVE FALSE
    <3>1. PICK b \in B : \A j \in B : j <= b
      BY <1>2, <2>1, GreatestOf
    <3>2. b \in D /\ b > i /\ b \notin L
      BY <3>1
    <3>3. ~(Cardinality(After(Of(filed[b]), b)) < LoadLimit)
      <4> HIDE DEF After, Of, D, L
      <4> QED  BY <1>4, <3>2
    <3>4. i \in Nat /\ b \in Nat /\ \A j \in D : j \in Nat
      BY <1>2, <1>5, <3>2
    <3>5. After(Of(filed[b]), b) \subseteq After(L, i)
      <4> SUFFICES ASSUME NEW j \in D, j > b PROVE j > i /\ j \in L
        OBVIOUS
      <4>1. j > i /\ ~(j <= b)
        BY <3>2, <3>4
      <4> QED  BY <3>1, <4>1
    <3>6. After(L, i) \subseteq D
      BY <1>5
    <3>7. /\ Cardinality(After(Of(filed[b]), b)) \in Nat /\ Cardinality(After(L, i)) \in Nat
          /\ Cardinality(After(Of(filed[b]), b)) <= Cardinality(After(L, i))
      <4> HIDE DEF After, L, Of, D
      <4> QED  BY <3>5, <3>6, <1>3
    <3> HIDE DEF After, L, Of, D, B
    <3> QED  BY <1>1, <1>8, <3>3, <3>7
  <2>2. After(D, i) = After(L, i)
    BY <1>5, <2>1
  <2> QED  BY <1>8, <2>2
<1> HIDE DEF After, Of, D, L
<1>9. {i \in L : Cardinality(After(L, i)) < HistoryShown}
         = {i \in D : Cardinality(After(D, i)) < HistoryShown}
  BY <1>5, <1>7, <1>8
<1> QED  BY <1>6, <1>9 DEF D

\* Whatever a history pages, its buttons are those of none or of two pages.
LEMMA ControlsAreKnown ==
    ASSUME NEW t \in P_!Tabs, NEW n \in Nat \union {-1}
    PROVE  P_!_update_view_items(t, n) \in
              {P_!_update_view_items(u, m) : u \in P_!Tabs, m \in {0, HistoryPage + 1}}
<1>1. HistoryPage \in Nat \ {0}
  BY PersonalAssumed DEF P_!PersonalPanelAssumption
<1>2. P_!Leaves(0) = 1 /\ P_!Leaves(HistoryPage + 1) = 2
  <2>1. (HistoryPage * 2) \div HistoryPage = 2
    BY <1>1, DivOfTimes
  <2>2. HistoryPage + 1 + HistoryPage - 1 = HistoryPage * 2
    BY <1>1
  <2> QED  BY <1>1, <2>1, <2>2 DEF P_!Leaves
<1>3. /\ P_!_add_property_controls(0) = {}
      /\ P_!_add_property_controls(HistoryPage + 1) = {"prev", "next"}
      /\ P_!_add_property_controls(n) \in {{}, {"prev", "next"}}
  BY <1>1, <1>2 DEF P_!_add_property_controls
<1>4. CASE t = "property"
  <2>1. \A m : P_!_update_view_items(t, m) = P_!_add_property_controls(m)
    BY <1>4 DEF P_!_update_view_items
  <2>2. \/ P_!_update_view_items(t, n) = P_!_update_view_items(t, 0)
        \/ P_!_update_view_items(t, n) = P_!_update_view_items(t, HistoryPage + 1)
    BY <1>3, <2>1
  <2> QED  BY <2>2
<1>5. CASE t # "property"
  <2>1. P_!_update_view_items(t, n) = P_!_update_view_items(t, 0)
    BY <1>5 DEF P_!_update_view_items, P_!Tabs
  <2> QED  BY <2>1
<1> QED  BY <1>4, <1>5

LEMMA EmbedIsOf ==
    ASSUME NEW t \in P_!Tabs, NEW s, NEW k, NEW n, NEW a
    PROVE  P_!Embed(t, s, k, n, a).of = t
BY DEF P_!Tabs, P_!Embed, P_!create_home_embed, P_!create_property_embed,
       P_!create_transfer_embed, P_!create_government_embed

\* Only a history has pages to turn.
LEMMA PagesAreOfProperty ==
    ASSUME NEW t \in P_!Tabs, NEW n, "next" \in P_!_update_view_items(t, n)
    PROVE  t = "property"
BY DEF P_!Tabs, P_!_update_view_items, P_!_add_transfer_controls, P_!_add_government_controls

LEMMA SomeLeaf == \A n \in Nat : P_!Leaves(n) \in Nat \ {0}
<1> SUFFICES ASSUME NEW n \in Nat, n # 0
             PROVE (n + HistoryPage - 1) \div HistoryPage \in Nat \ {0}
  BY DEF P_!Leaves
<1>1. HistoryPage \in Nat \ {0}
  BY PersonalAssumed DEF P_!PersonalPanelAssumption
<1> DEFINE q == (n + HistoryPage - 1) \div HistoryPage
<1>2. q \in Nat /\ n + HistoryPage - 1 < HistoryPage * q + HistoryPage
  BY <1>1, DivIs
<1> HIDE DEF q
<1>3. q # 0
  BY <1>1, <1>2
<1> QED  BY <1>2, <1>3 DEF q

LEMMA PScreenAtFirst == P_!Init => PScreen
<1> SUFFICES ASSUME P_!Init PROVE PScreen
  OBVIOUS
<1>1. \A h \in Clicks : hand[h] = [at |-> "idle"]
  BY DEF P_!Init, P_!NoHand
<1>2. P_!AtWork = {}
  BY <1>1 DEF P_!AtWork, P_!Drawing
<1>3. \A h \in Clicks : Holding(hand[h])
  BY <1>1 DEF Holding
<1>4. Screened /\ Reloaded
  BY <1>2 DEF Screened, Reloaded, P_!Init
<1>5. tab = "home" /\ pager = -1 /\ shown = P_!Wanted /\ tab \in P_!Tabs
  BY DEF P_!Init, P_!Tabs
<1>6. Picture(shown)
  <2>1. P_!Wanted.embed.of = tab
    BY <1>5, EmbedIsOf DEF P_!Wanted
  <2>2. P_!Wanted.controls = P_!_update_view_items(tab, pager)
    BY DEF P_!Wanted
  <2> QED  BY <1>5, <2>1, <2>2, ControlsAreKnown DEF Picture
<1>7. HistoryPage \in Nat \ {0} /\ Savings \in Nat
  BY PersonalAssumed DEF P_!PersonalPanelAssumption
<1>8. entries \in Nat /\ purse \in Nat
  BY <1>7 DEF P_!Init
<1>9. filed \in Seq(P_!Kinds) /\ loaded \in [P_!Kinds -> SUBSET Nat]
  <2>1. PICK n \in 0..2 : filed \in [1..n -> P_!Kinds]
    BY DEF P_!Init
  <2>2. n \in Nat
    OBVIOUS
  <2>3. filed \in Seq(P_!Kinds)
    BY <2>1, <2>2
  <2> QED  BY <2>3 DEF P_!Init
<1>10. PDesk
  BY <1>5, <1>6, <1>8, <1>9 DEF P_!Init, PDesk
<1> QED  BY <1>3, <1>4, <1>10 DEF PScreen

LEMMA PScreenShows ==
    PScreen => P_!TypeOK /\ P_!ScreenShowsItsTab /\ P_!ApplicationsAreListed
<1> SUFFICES ASSUME PScreen
             PROVE  P_!TypeOK /\ P_!ScreenShowsItsTab /\ P_!ApplicationsAreListed
  OBVIOUS
<1>1. P_!TypeOK
  <2>1. \A h \in Clicks : hand[h].at \in P_!Drawing \union {"idle", "resolve", "form", "pay", "tell"}
    BY DEF PScreen, Holding
  <2> QED  BY <2>1 DEF PScreen, PDesk, Picture, P_!TypeOK
<1>2. P_!ScreenShowsItsTab /\ P_!ApplicationsAreListed
  BY NewestOfAll DEF PScreen, PDesk, Screened, Reloaded, P_!ScreenShowsItsTab, P_!ApplicationsAreListed
<1> QED  BY <1>1, <1>2

\* A callback goes on, alone or excused, to what it then has.
LEMMA PanelStep ==
    ASSUME PInv, PScreen, NEW h \in Clicks, NEW w, P_!Go(h, w), Holding(w), PDesk',
           cause' \intersect P_!Redrawn = {} => P_!AtWork \subseteq {h} /\ (Redrawing(w))',
           "load" \notin cause' => P_!AtWork \subseteq {h} /\ (Reloading(w))'
    PROVE  PScreen'
<1>1. /\ hand'[h] = w
      /\ \A g \in Clicks : g # h => hand'[g] = hand[g]
  BY DEF PInv, P_!Go
<1>2. \A g \in Clicks : Holding(hand'[g])
  BY <1>1 DEF PScreen
<1>3. (\A g \in Clicks : Holding(hand[g]))'
  BY <1>2 DEF Holding, Picture
<1>4. ASSUME P_!AtWork \subseteq {h}
      PROVE  /\ \A f, g \in P_!AtWork' : f = g
             /\ \A g \in P_!AtWork' : g = h
             /\ P_!AtWork' = {} => w.at \notin P_!Drawing
  <2>1. \A g \in Clicks : g # h => g \notin P_!AtWork
    BY <1>4
  <2>2. \A g \in Clicks : g # h => g \notin P_!AtWork'
    BY <1>1, <2>1 DEF P_!AtWork
  <2>3. w.at \in P_!Drawing => h \in P_!AtWork'
    BY <1>1 DEF P_!AtWork
  <2>4. \A g \in P_!AtWork' : g = h
    BY <2>2 DEF P_!AtWork
  <2> QED  BY <2>3, <2>4
<1>5. Screened'
  <2>1. ASSUME cause' \intersect P_!Redrawn = {}, NEW g \in P_!AtWork'
        PROVE  (Redrawing(hand[g]))'
    <3>1. g = h /\ hand'[g] = w
      BY <1>1, <1>4, <2>1
    <3> QED  BY <2>1, <3>1 DEF Redrawing
  <2>2. ASSUME cause' \intersect P_!Redrawn = {}, P_!AtWork' = {} PROVE (shown = P_!Wanted)'
    <3>1. w.at \notin P_!Drawing
      BY <1>4, <2>2
    <3>2. w.at \notin {"load", "loading", "edit"}
      BY <3>1 DEF P_!Drawing
    <3> QED  BY <2>2, <3>2 DEF Redrawing
  <2>3. P_!Redrawn' = P_!Redrawn
    BY DEF P_!Redrawn
  <2> QED  BY <1>4, <2>1, <2>2, <2>3 DEF Screened
<1>6. Reloaded'
  <2>1. ASSUME "load" \notin cause', NEW g \in P_!AtWork' PROVE (Reloading(hand[g]))'
    <3>1. g = h /\ hand'[g] = w
      BY <1>1, <1>4, <2>1
    <3> QED  BY <2>1, <3>1 DEF Reloading
  <2>2. ASSUME "load" \notin cause', P_!AtWork' = {} PROVE (loaded = P_!Recent)'
    <3>1. w.at \notin P_!Drawing
      BY <1>4, <2>2
    <3>2. w.at \notin {"load", "loading"}
      BY <3>1 DEF P_!Drawing
    <3> QED  BY <2>2, <3>2 DEF Reloading
  <2> QED  BY <1>4, <2>1, <2>2 DEF Reloaded
<1> QED  BY <1>3, <1>5, <1>6 DEF PScreen

\* What does not draw leaves what is drawn alone.
LEMMA OffScreen ==
    ASSUME PInv, PScreen, PDesk', UNCHANGED <<P_!panelVars, shown, filed, cause>>,
           \/ UNCHANGED hand
           \/ \E h \in Clicks : \E w : /\ P_!Go(h, w) /\ Holding(w)
                                       /\ hand[h].at \notin P_!Drawing
                                       /\ w.at \notin P_!Drawing
    PROVE  PScreen'
<1>1. /\ P_!AtWork' = P_!AtWork
      /\ \A g \in P_!AtWork : hand'[g] = hand[g]
      /\ \A g \in Clicks : Holding(hand'[g])
  <2>1. CASE UNCHANGED hand
    BY <2>1 DEF P_!AtWork, PScreen
  <2>2. ASSUME NEW h \in Clicks, NEW w, P_!Go(h, w), Holding(w),
               hand[h].at \notin P_!Drawing, w.at \notin P_!Drawing
        PROVE  /\ P_!AtWork' = P_!AtWork
               /\ \A g \in P_!AtWork : hand'[g] = hand[g]
               /\ \A g \in Clicks : Holding(hand'[g])
    <3>1. /\ hand'[h] = w
          /\ \A g \in Clicks : g # h => hand'[g] = hand[g]
      BY <2>2 DEF PInv, P_!Go
    <3> QED  BY <2>2, <3>1 DEF P_!AtWork, PScreen
  <2> QED  BY <2>1, <2>2
<1>2. (\A g \in Clicks : Holding(hand[g]))'
  BY <1>1 DEF Holding, Picture
<1>3. UNCHANGED <<seen, tab, pager, leaf, loaded, shown, filed, cause>>
  BY DEF P_!panelVars
<1>4. P_!Wanted' = P_!Wanted
  BY <1>3 DEF P_!Wanted, P_!Embed, P_!_update_view_items, P_!_add_property_controls, P_!Leaves
<1>5. \A g \in P_!AtWork : /\ Redrawing(hand[g]) => (Redrawing(hand[g]))'
                           /\ Reloading(hand[g]) => (Reloading(hand[g]))'
  BY <1>1, <1>3, <1>4, RecentStays DEF Redrawing, Reloading
<1>6. P_!Redrawn' = P_!Redrawn
  BY DEF P_!Redrawn
<1>7. Screened'
  BY <1>1, <1>3, <1>4, <1>5, <1>6 DEF PScreen, Screened
<1>8. Reloaded'
  BY <1>1, <1>3, <1>5, RecentStays DEF PScreen, Reloaded
<1> QED  BY <1>2, <1>7, <1>8 DEF PScreen

\* Whoever crosses nobody was alone.
LEMMA Crossing ==
    ASSUME PScreen, NEW h \in Clicks, P_!Idle(h), NEW old, P_!Cross(h, old)
    PROVE  /\ cause' \subseteq P_!Redrawn \union {"load"}
           /\ cause' \intersect P_!Redrawn = {} \/ "load" \notin cause' => P_!AtWork = {}
           /\ P_!AtWork = {} => cause' = cause \ old
<1>1. h \notin P_!AtWork
  BY DEF P_!Idle, P_!AtWork, P_!Drawing
<1>2. cause \subseteq P_!Redrawn \union {"load"} /\ "overlap" \in P_!Redrawn
  BY DEF PScreen, PDesk, P_!Redrawn
<1>3. CASE P_!AtWork \subseteq {h}
  <2>1. P_!AtWork = {} /\ cause' = cause \ old
    BY <1>1, <1>3 DEF P_!Cross
  <2> QED  BY <1>2, <2>1
<1>4. CASE ~(P_!AtWork \subseteq {h})
  <2>1. cause' = cause \union {"overlap", "load"} /\ P_!AtWork # {}
    BY <1>4 DEF P_!Cross
  <2> QED  BY <1>2, <2>1
<1> QED  BY <1>3, <1>4

\* What is drawn is a picture, and the one that is wanted if it is of the tab.
LEMMA DrawnAs ==
    ASSUME PDesk', NEW t \in P_!Tabs
    PROVE  Picture(P_!Drawn(t)) /\ (t = tab' => P_!Drawn(t) = P_!Wanted')
<1>1. P_!Drawn(t).embed.of = t
  BY EmbedIsOf DEF P_!Drawn
<1>2. tab' \in P_!Tabs /\ pager' \in Nat \union {-1}
  BY DEF PDesk, P_!Tabs
<1>3. P_!_update_view_items(tab', pager') \in
         {P_!_update_view_items(u, m) : u \in P_!Tabs, m \in {0, HistoryPage + 1}}
  <2> PICK u, m : u = tab' /\ m = pager'
    OBVIOUS
  <2>1. u \in P_!Tabs /\ m \in Nat \union {-1}
    BY <1>2
  <2>2. P_!_update_view_items(u, m) \in
         {P_!_update_view_items(v, n) : v \in P_!Tabs, n \in {0, HistoryPage + 1}}
    BY <2>1, ControlsAreKnown
  <2> QED  BY <2>2
<1>4. P_!Drawn(t).controls = P_!_update_view_items(tab', pager')
  BY DEF P_!Drawn
<1> QED  BY <1>1, <1>3, <1>4 DEF Picture, P_!Drawn, P_!Wanted

\* A click that is answered by an edit.
LEMMA DrawsTab ==
    ASSUME PInv, PScreen, NEW h \in Clicks, P_!Idle(h), NEW t \in P_!Tabs, NEW old,
           P_!Go(h, [at |-> "edit", view |-> P_!Drawn(t)]), P_!Cross(h, old), PDesk',
           UNCHANGED <<filed, loaded>>, "load" \notin old,
           cause' \intersect P_!Redrawn = {} => t = tab'
    PROVE  PScreen'
<1>1. PICK w : w = [at |-> "edit", view |-> P_!Drawn(t)]
  OBVIOUS
<1>2. Holding(w)
  BY <1>1, DrawnAs DEF Holding, P_!Drawing
<1>3. ASSUME cause' \intersect P_!Redrawn = {} PROVE P_!AtWork \subseteq {h} /\ (Redrawing(w))'
  <2>1. P_!AtWork = {} /\ w.view = P_!Wanted'
    BY <1>1, <1>3, Crossing, DrawnAs
  <2> QED  BY <1>1, <2>1 DEF Redrawing
<1>4. ASSUME "load" \notin cause' PROVE P_!AtWork \subseteq {h} /\ (Reloading(w))'
  <2>1. P_!AtWork = {} /\ cause' = cause \ old
    BY <1>4, Crossing
  <2>2. loaded = P_!Recent
    BY <1>4, <2>1 DEF PScreen, Reloaded
  <2> QED  BY RecentStays, <1>1, <2>1, <2>2 DEF Reloading
<1> QED  BY <1>1, <1>2, <1>3, <1>4, PanelStep

LEMMA TabKeeps ==
    ASSUME PInv, PScreen, NEW h \in Clicks, NEW t \in {"home", "transfer"}, P_!Turn(h, t)
    PROVE  PScreen'
<1>1. /\ P_!Idle(h) /\ tab' = t
      /\ P_!Go(h, [at |-> "edit", view |-> P_!Drawn(t)]) /\ P_!Cross(h, P_!Redrawn)
      /\ UNCHANGED <<seen, pager, leaf, loaded, P_!purseVars, filed, shown, offers, P_!tellings>>
  BY DEF P_!Turn
<1>2. t \in P_!Tabs /\ t # "property" /\ "load" \notin P_!Redrawn
  BY DEF P_!Tabs, P_!Redrawn
<1>3. cause' \subseteq P_!Redrawn \union {"load"}
  BY <1>1, Crossing
<1>4. PDesk'
  BY <1>1, <1>2, <1>3 DEF PScreen, PDesk, P_!purseVars, P_!tellings, Picture, P_!Leaves, P_!Redrawn
<1> QED  BY <1>1, <1>2, <1>4, DrawsTab

LEMMA PropertyTabKeeps ==
    ASSUME PInv, PScreen, NEW h \in Clicks, P_!on_property_tab(h) PROVE PScreen'
<1>1. /\ P_!Idle(h) /\ tab' = "property" /\ leaf' = 0 /\ pager' = seen.entries
      /\ P_!Go(h, [at |-> "edit", view |-> P_!Drawn("property")]) /\ P_!Cross(h, P_!Redrawn)
      /\ UNCHANGED <<seen, loaded, P_!purseVars, filed, shown, offers, P_!tellings>>
  BY DEF P_!on_property_tab
<1>2. "property" \in P_!Tabs /\ "load" \notin P_!Redrawn
  BY DEF P_!Tabs, P_!Redrawn
<1>3. cause' \subseteq P_!Redrawn \union {"load"}
  BY <1>1, Crossing
<1>4. pager' \in Nat /\ leaf' \in Nat /\ leaf' < P_!Leaves(pager')
  <2>1. pager' \in Nat
    BY <1>1 DEF PScreen, PDesk
  <2>2. P_!Leaves(pager') \in Nat \ {0}
    BY <2>1, SomeLeaf
  <2> QED  BY <1>1, <2>1, <2>2
<1>5. PDesk'
  BY <1>1, <1>2, <1>3, <1>4 DEF PScreen, PDesk, P_!purseVars, P_!tellings, Picture, P_!Redrawn,
     P_!Leaves
<1> QED  BY <1>1, <1>2, <1>5, DrawsTab

LEMMA LeafKeeps ==
    ASSUME PInv, PScreen, NEW h \in Clicks, NEW k \in 0..entries, P_!turn_leaf(h, k)
    PROVE  PScreen'
<1>1. /\ P_!Idle(h) /\ "next" \in shown.controls /\ pager # -1
      /\ k \in 0..(P_!Leaves(pager) - 1) /\ leaf' = k
      /\ P_!Go(h, [at |-> "edit", view |-> P_!Drawn("property")])
      /\ P_!Cross(h, IF tab = "property" THEN P_!Redrawn ELSE {})
      /\ UNCHANGED <<seen, tab, pager, loaded, P_!purseVars, filed, shown, offers, P_!tellings>>
  BY DEF P_!turn_leaf
<1>2. "property" \in P_!Tabs /\ "load" \notin P_!Redrawn
  BY DEF P_!Tabs, P_!Redrawn
<1>3. cause' \subseteq P_!Redrawn \union {"load"}
  BY <1>1, Crossing
<1>4. leaf' \in Nat /\ leaf' < P_!Leaves(pager)
  <2>1. pager \in Nat
    BY <1>1 DEF PScreen, PDesk
  <2>2. P_!Leaves(pager) \in Nat \ {0}
    BY <2>1, SomeLeaf
  <2> QED  BY <1>1, <2>2
<1>5. PDesk'
  BY <1>1, <1>2, <1>3, <1>4 DEF PScreen, PDesk, P_!purseVars, P_!tellings, Picture, P_!Redrawn,
     P_!Leaves
<1>6. ASSUME cause' \intersect P_!Redrawn = {} PROVE tab' = "property"
  <2>1. SUFFICES ASSUME tab # "property" PROVE FALSE
    BY <1>1
  <2>2. P_!AtWork = {} /\ cause' = cause
    BY <1>1, <1>6, <2>1, Crossing
  <2>3. shown = P_!Wanted
    BY <1>6, <2>2 DEF PScreen, Screened
  <2>4. "next" \in P_!_update_view_items(tab, pager)
    BY <1>1, <2>3 DEF P_!Wanted
  <2>5. tab \in P_!Tabs
    BY DEF PScreen, PDesk
  <2> QED  BY <2>1, <2>4, <2>5, PagesAreOfProperty
<1> QED  BY <1>1, <1>2, <1>5, <1>6, DrawsTab

\* The panel's data stays what it is if it is left alone.
LEMMA DeskStays ==
    ASSUME PScreen, UNCHANGED <<P_!purseVars, filed, P_!panelVars, offers, latest>>,
           Picture(shown'), cause' \subseteq P_!Redrawn \union {"load"}
    PROVE  PDesk'
BY DEF PScreen, PDesk, P_!purseVars, P_!panelVars, Picture, P_!Leaves, P_!Redrawn

LEMMA WantedStays ==
    ASSUME UNCHANGED P_!panelVars PROVE P_!Wanted' = P_!Wanted
BY DEF P_!panelVars, P_!Wanted, P_!Embed, P_!_update_view_items, P_!_add_property_controls,
       P_!Leaves

\* Who draws alone, if nothing is excused.
LEMMA AtWorkAlone ==
    ASSUME PScreen, NEW h \in Clicks, hand[h].at \in P_!Drawing
    PROVE  /\ cause \intersect P_!Redrawn = {} => P_!AtWork = {h} /\ Redrawing(hand[h])
           /\ "load" \notin cause => P_!AtWork = {h} /\ Reloading(hand[h])
<1>1. h \in P_!AtWork
  BY DEF P_!AtWork
<1> QED  BY <1>1 DEF PScreen, Screened, Reloaded

LEMMA RefreshKeeps == ASSUME PInv, PScreen, NEW h \in Clicks, P_!on_refresh(h) PROVE PScreen'
<1>1. PICK w : w = [at |-> "refresh"]
  OBVIOUS
<1>2. /\ P_!Idle(h) /\ P_!Go(h, w) /\ P_!Cross(h, {})
      /\ UNCHANGED <<P_!purseVars, filed, P_!panelVars, shown, offers, P_!tellings>>
  BY <1>1 DEF P_!on_refresh
<1>3. Holding(w)
  BY <1>1 DEF Holding, P_!Drawing
<1>4. PDesk'
  BY <1>2, Crossing, DeskStays DEF PScreen, PDesk, P_!tellings
<1>5. ASSUME cause' \intersect P_!Redrawn = {} PROVE P_!AtWork \subseteq {h} /\ (Redrawing(w))'
  <2>1. P_!AtWork = {} /\ cause' = cause
    BY <1>2, <1>5, Crossing
  <2>2. shown = P_!Wanted
    BY <1>5, <2>1 DEF PScreen, Screened
  <2> QED  BY <1>1, <1>2, <2>1, <2>2, WantedStays DEF Redrawing
<1>6. ASSUME "load" \notin cause' PROVE P_!AtWork \subseteq {h} /\ (Reloading(w))'
  <2>1. P_!AtWork = {} /\ cause' = cause
    BY <1>2, <1>6, Crossing
  <2>2. loaded = P_!Recent
    BY <1>6, <2>1 DEF PScreen, Reloaded
  <2> QED  BY RecentStays, <1>1, <1>2, <2>1, <2>2 DEF Reloading, P_!panelVars
<1> QED  BY <1>2, <1>3, <1>4, <1>5, <1>6, PanelStep

LEMMA BalanceKeeps ==
    ASSUME PInv, PScreen, NEW h \in Clicks, P_!refresh_callback(h) PROVE PScreen'
<1>1. PICK w : w = [at |-> "refreshed", balance |-> purse]
  OBVIOUS
<1>2. /\ hand[h].at = "refresh" /\ P_!Go(h, w)
      /\ UNCHANGED <<P_!purseVars, filed, P_!panelVars, shown, offers, P_!tellings, cause>>
  BY <1>1 DEF P_!refresh_callback
<1>3. Holding(w)
  BY <1>1 DEF Holding, P_!Drawing, PScreen, PDesk
<1>4. PDesk'
  BY <1>2, DeskStays DEF PScreen, PDesk, P_!tellings
<1>5. ASSUME cause' \intersect P_!Redrawn = {} PROVE P_!AtWork \subseteq {h} /\ (Redrawing(w))'
  <2>1. P_!AtWork = {h} /\ Redrawing(hand[h])
    BY <1>2, <1>5, AtWorkAlone DEF P_!Drawing
  <2>2. shown = P_!Wanted
    BY <1>2, <2>1 DEF Redrawing
  <2> QED  BY <1>1, <1>2, <2>1, <2>2, WantedStays DEF Redrawing
<1>6. ASSUME "load" \notin cause' PROVE P_!AtWork \subseteq {h} /\ (Reloading(w))'
  <2>1. P_!AtWork = {h} /\ loaded = P_!Recent
    BY <1>2, <1>6, AtWorkAlone DEF P_!Drawing, Reloading
  <2> QED  BY RecentStays, <1>1, <1>2, <2>1 DEF Reloading, P_!panelVars
<1> QED  BY <1>2, <1>3, <1>4, <1>5, <1>6, PanelStep

LEMMA RedrawKeeps == ASSUME PInv, PScreen, NEW h \in Clicks, P_!Redraw(h) PROVE PScreen'
<1> DEFINE t == IF tab = "government" THEN "transfer" ELSE tab
<1>1. PICK w : w = [at |-> "edit", view |-> P_!Drawn(t)]
  OBVIOUS
<1>2. /\ hand[h].at = "refreshed" /\ P_!Go(h, w)
      /\ seen' = [balance |-> hand[h].balance, entries |-> entries]
      /\ IF tab = "property" THEN pager' = seen'.entries /\ leaf' = 0
         ELSE UNCHANGED <<pager, leaf>>
      /\ cause' = IF tab = "government" THEN cause \union {"refresh"}
                  ELSE IF P_!AtWork \subseteq {h} THEN cause \ P_!Redrawn ELSE cause
      /\ UNCHANGED <<tab, loaded, P_!purseVars, filed, shown, offers, P_!tellings>>
  BY <1>1 DEF P_!Redraw, P_!Stored
<1>3. seen' \in [balance : Nat, entries : Nat] /\ seen'.entries = entries /\ entries \in Nat
  <2>1. hand[h].balance \in Nat /\ entries \in Nat
    BY <1>2 DEF PScreen, PDesk, Holding
  <2> QED  BY <1>2, <2>1
<1>4. cause' \subseteq P_!Redrawn \union {"load"}
  <2>1. "refresh" \in P_!Redrawn /\ cause \subseteq P_!Redrawn \union {"load"}
    BY DEF PScreen, PDesk, P_!Redrawn
  <2> QED  BY <1>2, <2>1
<1>5. /\ pager' \in Nat \union {-1} /\ leaf' \in Nat
      /\ pager' # -1 => leaf' < P_!Leaves(pager')
      /\ tab = "property" => pager' = seen'.entries
  <2>1. CASE tab = "property"
    <3>1. pager' = entries /\ leaf' = 0
      BY <1>2, <1>3, <2>1
    <3>2. P_!Leaves(pager') \in Nat \ {0}
      BY <1>3, <3>1, SomeLeaf
    <3> QED  BY <1>3, <2>1, <3>1, <3>2
  <2>2. CASE tab # "property"
    BY <1>2, <2>2 DEF PScreen, PDesk
  <2> QED  BY <2>1, <2>2
<1>6. PDesk'
  BY <1>2, <1>3, <1>4, <1>5 DEF PScreen, PDesk, P_!purseVars, P_!tellings, Picture, P_!Redrawn,
     P_!Leaves
<1>7. t \in P_!Tabs
  BY DEF PScreen, PDesk, P_!Tabs
<1>8. Holding(w)
  BY <1>1, <1>6, <1>7, DrawnAs DEF Holding, P_!Drawing
<1>9. ASSUME cause' \intersect P_!Redrawn = {} PROVE P_!AtWork \subseteq {h} /\ (Redrawing(w))'
  <2>1. tab # "government"
    <3>1. "refresh" \in P_!Redrawn
      BY DEF P_!Redrawn
    <3> QED  BY <1>2, <1>9, <3>1
  <2>2. P_!AtWork \subseteq {h}
    <3>1. P_!AtWork \subseteq {h} \/ cause \intersect P_!Redrawn = {}
      BY <1>2, <1>9, <2>1
    <3> QED  BY <1>2, <3>1, AtWorkAlone DEF P_!Drawing
  <2>3. P_!Drawn(t) = P_!Wanted'
    BY <1>2, <1>6, <1>7, <2>1, DrawnAs
  <2> QED  BY <1>1, <2>2, <2>3 DEF Redrawing
<1>10. ASSUME "load" \notin cause' PROVE P_!AtWork \subseteq {h} /\ (Reloading(w))'
  <2>1. "load" \notin P_!Redrawn
    BY DEF P_!Redrawn
  <2>2. "load" \notin cause
    BY <1>2, <1>10, <2>1
  <2>3. P_!AtWork = {h} /\ loaded = P_!Recent
    BY <1>2, <2>2, AtWorkAlone DEF P_!Drawing, Reloading
  <2> QED  BY RecentStays, <1>1, <1>2, <2>3 DEF Reloading
<1> QED  BY <1>2, <1>6, <1>8, <1>9, <1>10, PanelStep

\* A callback that was drawing is idle again: its edit has arrived, or it failed.
LEMMA EndsDrawing ==
    ASSUME PInv, PScreen, NEW h \in Clicks,
           P_!RefreshFails(h) \/ P_!Arrive(h) \/ P_!ArriveRefused(h)
    PROVE  PScreen'
<1>1. PICK w : w = P_!NoHand
  OBVIOUS
<1>2. /\ hand[h].at \in {"refresh", "refreshed", "edit"} /\ P_!Go(h, w)
      /\ UNCHANGED <<P_!purseVars, filed, P_!panelVars, offers, P_!tellings>>
      /\ \/ hand[h].at # "edit" /\ UNCHANGED <<shown, cause>>
         \/ hand[h].at = "edit" /\ shown' = hand[h].view /\ cause' = cause
         \/ hand[h].at = "edit" /\ shown' = shown /\ cause' = cause \union {"refused"}
  BY <1>1 DEF P_!RefreshFails, P_!Arrive, P_!ArriveRefused
<1>3. Holding(w)
  BY <1>1 DEF Holding, P_!NoHand
<1>4. Picture(shown') /\ cause' \subseteq P_!Redrawn \union {"load"}
  <2>1. Picture(shown) /\ cause \subseteq P_!Redrawn \union {"load"} /\ "refused" \in P_!Redrawn
    BY DEF PScreen, PDesk, P_!Redrawn
  <2>2. hand[h].at = "edit" => Picture(hand[h].view)
    BY DEF PScreen, Holding
  <2> QED  BY <1>2, <2>1, <2>2
<1>5. PDesk'
  BY <1>2, <1>4, DeskStays DEF P_!tellings
<1>6. ASSUME cause' \intersect P_!Redrawn = {} PROVE P_!AtWork \subseteq {h} /\ (Redrawing(w))'
  <2>1. cause' = cause
    <3>1. "refused" \in P_!Redrawn
      BY DEF P_!Redrawn
    <3> QED  BY <1>2, <1>6, <3>1
  <2>2. P_!AtWork = {h} /\ Redrawing(hand[h])
    BY <1>2, <1>6, <2>1, AtWorkAlone DEF P_!Drawing
  <2>3. shown' = P_!Wanted
    <3>1. "refused" \in P_!Redrawn
      BY DEF P_!Redrawn
    <3> QED  BY <1>2, <1>6, <2>2, <3>1 DEF Redrawing
  <2>4. P_!Wanted' = P_!Wanted
    BY <1>2, WantedStays
  <2> QED  BY <1>1, <2>2, <2>3, <2>4 DEF Redrawing, P_!NoHand
<1>7. ASSUME "load" \notin cause' PROVE P_!AtWork \subseteq {h} /\ (Reloading(w))'
  <2>1. P_!AtWork = {h} /\ loaded = P_!Recent
    BY <1>2, <1>7, AtWorkAlone DEF P_!Drawing, Reloading
  <2> QED  BY RecentStays, <1>1, <1>2, <2>1 DEF Reloading, P_!panelVars, P_!NoHand
<1> QED  BY <1>2, <1>3, <1>5, <1>6, <1>7, PanelStep

LEMMA GovernmentTabKeeps ==
    ASSUME PInv, PScreen, NEW h \in Clicks, P_!on_government_tab(h) PROVE PScreen'
<1>1. PICK w : w = [at |-> "load", from |-> "tab"]
  OBVIOUS
<1>2. /\ P_!Idle(h) /\ tab' = "government" /\ P_!Go(h, w)
      /\ P_!Cross(h, P_!Redrawn \union {"load"})
      /\ UNCHANGED <<seen, pager, leaf, loaded, P_!purseVars, filed, shown, offers, P_!tellings>>
  BY <1>1 DEF P_!on_government_tab
<1>3. Holding(w)
  BY <1>1 DEF Holding, P_!Drawing
<1>4. cause' \subseteq P_!Redrawn \union {"load"}
  BY <1>2, Crossing
<1>5. PDesk'
  BY <1>2, <1>4 DEF PScreen, PDesk, P_!purseVars, P_!tellings, Picture, P_!Redrawn, P_!Leaves,
     P_!Tabs
<1>6. ASSUME cause' \intersect P_!Redrawn = {} PROVE P_!AtWork \subseteq {h} /\ (Redrawing(w))'
  <2>1. P_!AtWork = {}
    BY <1>2, <1>6, Crossing
  <2> QED  BY <1>1, <1>2, <2>1 DEF Redrawing
<1>7. ASSUME "load" \notin cause' PROVE P_!AtWork \subseteq {h} /\ (Reloading(w))'
  <2>1. P_!AtWork = {}
    BY <1>2, <1>7, Crossing
  <2> QED  BY RecentStays, <1>1, <2>1 DEF Reloading
<1> QED  BY <1>2, <1>3, <1>5, <1>6, <1>7, PanelStep

LEMMA SubmitsKeep ==
    ASSUME PInv, PScreen, NEW h \in Clicks, NEW k \in P_!Kinds, P_!Submit(h, k) PROVE PScreen'
<1>1. PICK w : w = [at |-> "load", from |-> "form"]
  OBVIOUS
<1>2. /\ P_!Idle(h) /\ filed' = Append(filed, k) /\ P_!Go(h, w)
      /\ P_!Cross(h, {"load"})
      /\ UNCHANGED <<P_!purseVars, P_!panelVars, shown, offers, P_!tellings>>
  BY <1>1 DEF P_!Submit
<1>3. Holding(w)
  BY <1>1 DEF Holding, P_!Drawing
<1>4. cause' \subseteq P_!Redrawn \union {"load"}
  BY <1>2, Crossing
<1>5. PDesk'
  <2>1. filed' \in Seq(P_!Kinds)
    BY <1>2, AppendProperties DEF PScreen, PDesk
  <2> QED  BY <1>2, <1>4, <2>1 DEF PScreen, PDesk, P_!purseVars, P_!panelVars, P_!tellings,
              Picture, P_!Redrawn, P_!Leaves
<1>6. ASSUME cause' \intersect P_!Redrawn = {} PROVE P_!AtWork \subseteq {h} /\ (Redrawing(w))'
  <2>1. P_!AtWork = {}
    BY <1>2, <1>6, Crossing
  <2> QED  BY <1>1, <2>1 DEF Redrawing
<1>7. ASSUME "load" \notin cause' PROVE P_!AtWork \subseteq {h} /\ (Reloading(w))'
  <2>1. P_!AtWork = {}
    BY <1>2, <1>7, Crossing
  <2> QED  BY RecentStays, <1>1, <2>1 DEF Reloading
<1> QED  BY <1>2, <1>3, <1>5, <1>6, <1>7, PanelStep

\* The two loads of the applications, and what the callback does after them.
LEMMA LoadKeeps ==
    ASSUME PInv, PScreen, NEW h \in Clicks, NEW ok \in BOOLEAN, P_!Load(h, ok) PROVE PScreen'
<1> DEFINE k == IF hand[h].at = "load" THEN "welfare" ELSE "license"
<1>1. /\ hand[h].at \in {"load", "loading"}
      /\ loaded' = IF ok THEN [loaded EXCEPT ![k] = P_!Recent[k]] ELSE loaded
      /\ cause' = (IF ok THEN cause ELSE cause \union {"load"})
                  \union IF hand[h].from = "form" THEN {"refused"} ELSE {}
      /\ UNCHANGED <<seen, tab, pager, leaf, P_!purseVars, filed, shown, offers, P_!tellings>>
  BY DEF P_!Load
<1>2. hand[h].from \in {"tab", "form"}
  BY <1>1 DEF PInv, HandOk, PScreen, Holding
<1>3. cause' \subseteq P_!Redrawn \union {"load"}
  BY <1>1 DEF PScreen, PDesk, P_!Redrawn
<1>4. loaded' \in [P_!Kinds -> SUBSET Nat]
  <2>1. P_!Recent \in [P_!Kinds -> SUBSET Nat] /\ loaded \in [P_!Kinds -> SUBSET Nat]
    BY RecentAreNumbers DEF PScreen, PDesk
  <2> QED  BY <1>1, <2>1 DEF P_!Kinds
<1>5. PDesk'
  BY <1>1, <1>3, <1>4 DEF PScreen, PDesk, P_!purseVars, P_!tellings, Picture, P_!Redrawn, P_!Leaves
<1>6. ASSUME cause' \intersect P_!Redrawn = {}
      PROVE  P_!AtWork = {h} /\ hand[h].from = "tab" /\ tab = "government"
  <2>1. "refused" \in P_!Redrawn
    BY DEF P_!Redrawn
  <2>2. hand[h].from = "tab" /\ cause \intersect P_!Redrawn = {}
    BY <1>1, <1>2, <1>6, <2>1
  <2>3. P_!AtWork = {h} /\ Redrawing(hand[h])
    BY <1>1, <2>2, AtWorkAlone DEF P_!Drawing
  <2> QED  BY <1>1, <2>2, <2>3 DEF Redrawing
<1>7. ASSUME "load" \notin cause'
      PROVE  /\ P_!AtWork = {h} /\ loaded' = [loaded EXCEPT ![k] = P_!Recent[k]]
             /\ hand[h].at = "loading" => loaded["welfare"] = P_!Recent["welfare"]
  <2>1. ok /\ "load" \notin cause
    BY <1>1, <1>7
  <2>2. P_!AtWork = {h} /\ Reloading(hand[h])
    BY <1>1, <2>1, AtWorkAlone DEF P_!Drawing
  <2> QED  BY RecentStays, <1>1, <2>1, <2>2 DEF Reloading
<1>8. CASE hand[h].at = "load"
  <2>1. PICK w : w = [hand[h] EXCEPT !.at = "loading"]
    OBVIOUS
  <2>2. P_!Go(h, w)
    BY <1>8, <2>1 DEF P_!Load
  <2>3. hand[h] \in [at : {"load"}, from : {"tab", "form"}]
    BY <1>8 DEF PInv, HandOk
  <2>4. w \in [at : {"loading"}, from : {"tab", "form"}] /\ w.from = hand[h].from
    BY <2>1, <2>3
  <2>5. Holding(w)
    BY <2>4 DEF Holding, P_!Drawing
  <2>6. ASSUME cause' \intersect P_!Redrawn = {} PROVE P_!AtWork \subseteq {h} /\ (Redrawing(w))'
    BY <1>1, <1>6, <2>4, <2>6 DEF Redrawing
  <2>7. ASSUME "load" \notin cause' PROVE P_!AtWork \subseteq {h} /\ (Reloading(w))'
    <3>1. P_!AtWork = {h} /\ loaded' = [loaded EXCEPT !["welfare"] = P_!Recent["welfare"]]
      BY <1>7, <1>8, <2>7
    <3>2. loaded'["welfare"] = P_!Recent'["welfare"]
      BY <1>1, <3>1, RecentStays DEF PScreen, PDesk, P_!Kinds
    <3> QED  BY <2>4, <3>1, <3>2 DEF Reloading
  <2> QED  BY <1>5, <2>2, <2>5, <2>6, <2>7, PanelStep
<1>9. CASE hand[h].at = "loading"
  <2>1. ASSUME "load" \notin cause' PROVE loaded' = P_!Recent'
    <3>1. /\ loaded' = [loaded EXCEPT !["license"] = P_!Recent["license"]]
          /\ loaded["welfare"] = P_!Recent["welfare"]
      BY <1>7, <1>9, <2>1
    <3>2. \A j \in P_!Kinds : loaded'[j] = P_!Recent[j]
      BY <3>1 DEF PScreen, PDesk, P_!Kinds
    <3>3. P_!Recent \in [P_!Kinds -> SUBSET Nat] /\ P_!Recent' = P_!Recent
      BY <1>1, RecentStays, RecentAreNumbers DEF PScreen, PDesk
    <3> QED  BY <1>4, <3>2, <3>3
  <2>2. PICK w : w = IF hand[h].from = "form" THEN P_!NoHand
                     ELSE [at |-> "edit", view |-> P_!Drawn("government")]
    OBVIOUS
  <2>3. P_!Go(h, w)
    BY <1>9, <2>2 DEF P_!Load
  <2>4. "government" \in P_!Tabs
    BY DEF P_!Tabs
  <2>5. Holding(w)
    BY <1>5, <2>2, <2>4, DrawnAs DEF Holding, P_!Drawing, P_!NoHand
  <2>6. ASSUME cause' \intersect P_!Redrawn = {} PROVE P_!AtWork \subseteq {h} /\ (Redrawing(w))'
    <3>1. P_!AtWork = {h} /\ hand[h].from = "tab" /\ tab' = "government"
      BY <1>1, <1>6, <2>6
    <3>2. w = [at |-> "edit", view |-> P_!Wanted']
      BY <1>5, <2>2, <2>4, <3>1, DrawnAs
    <3> QED  BY <3>1, <3>2 DEF Redrawing
  <2>7. ASSUME "load" \notin cause' PROVE P_!AtWork \subseteq {h} /\ (Reloading(w))'
    <3>1. w.at \in {"idle", "edit"}
      BY <2>2 DEF P_!NoHand
    <3> QED  BY <1>7, <2>1, <2>7, <3>1 DEF Reloading
  <2> QED  BY <1>5, <2>3, <2>5, <2>6, <2>7, PanelStep
<1> QED  BY <1>1, <1>8, <1>9

\* Of the panel's data, only the author's money and choice have changed.
LEMMA MoneyMoves ==
    ASSUME PScreen, UNCHANGED <<mode, filed, P_!panelVars, shown, cause>>,
           purse' \in Nat, entries' \in Nat, offers' \subseteq Nat,
           latest'[1] \in P_!Payees \union {Nobody}
    PROVE  PDesk'
BY DEF PScreen, PDesk, P_!panelVars, Picture, P_!Leaves, P_!Redrawn

LEMMA AccountsAreOf ==
    ASSUME NEW x \in P_!Payees
    PROVE  P_!Account(x)[1] = x /\ P_!Usual(x)[1] = x
BY DEF P_!Account, P_!Usual

LEMMA PaymentLeaves == ASSUME PInv, PScreen, NEW h \in Clicks, P_!Payment(h) PROVE PScreen'
<1>1. ASSUME NEW x \in P_!Payees, NEW account, NEW b, NEW sure, P_!Form(h, x, account, b, sure),
             hand[h].at \notin P_!Drawing, account[1] = x
      PROVE  PScreen'
  <2>1. PICK w : w = [at |-> "form", payee |-> x, account |-> account, available |-> b,
                      sure |-> sure]
    OBVIOUS
  <2>2. /\ P_!Go(h, w) /\ latest' = account
        /\ UNCHANGED <<P_!purseVars, filed, P_!panelVars, shown, offers, cause>>
    BY <1>1, <2>1 DEF P_!Form
  <2>3. Holding(w) /\ w.at \notin P_!Drawing
    BY <2>1 DEF Holding, P_!Drawing
  <2>4. PDesk'
    BY <1>1, <2>2, MoneyMoves DEF PScreen, PDesk, P_!purseVars
  <2> QED  BY <1>1, <2>2, <2>3, <2>4, OffScreen
<1>2. ASSUME P_!Idle(h) PROVE hand[h].at \notin P_!Drawing
  BY <1>2 DEF P_!Idle, P_!Drawing
<1>3. ASSUME NEW x \in Members, NEW b \in offers, P_!_on_user_select(h, x, b) PROVE PScreen'
  <2>1. x \in P_!Payees
    BY DEF P_!Payees
  <2> QED  BY <1>1, <1>2, <1>3, <2>1, AccountsAreOf DEF P_!_on_user_select
<1>4. ASSUME NEW x \in Firms, NEW b \in offers, P_!on_company_selected(h, x, b) PROVE PScreen'
  <2>1. x \in P_!Payees
    BY DEF P_!Payees
  <2> QED  BY <1>1, <1>2, <1>4, <2>1, AccountsAreOf DEF P_!on_company_selected
<1>5. ASSUME NEW x \in Institutions, NEW b \in offers, P_!select_institution(h, x, b)
      PROVE  PScreen'
  <2>1. x \in P_!Payees
    BY DEF P_!Payees, P_!Offices
  <2> QED  BY <1>1, <1>2, <1>5, <2>1, AccountsAreOf DEF P_!select_institution
<1>6. ASSUME NEW x \in Departments, NEW b \in offers, P_!_on_govt_select(h, x, b) PROVE PScreen'
  <2>1. PICK w : w = [at |-> "resolve", payee |-> x, available |-> b]
    OBVIOUS
  <2>2. /\ P_!Idle(h) /\ P_!Go(h, w)
        /\ UNCHANGED <<P_!purseVars, filed, P_!panelVars, shown, offers, P_!tellings, cause>>
    BY <1>6, <2>1 DEF P_!_on_govt_select
  <2>3. Holding(w) /\ w.at \notin P_!Drawing
    BY <2>1 DEF Holding, P_!Drawing
  <2>4. PDesk'
    BY <2>2, MoneyMoves DEF PScreen, PDesk, P_!purseVars, P_!tellings
  <2> QED  BY <1>2, <2>2, <2>3, <2>4, OffScreen
<1>7. ASSUME NEW ok \in BOOLEAN, P_!_resolve_department_account_id(h, ok) PROVE PScreen'
  <2>1. PICK x, account : /\ x = hand[h].payee
                          /\ account = IF ok THEN P_!Account(x) ELSE P_!Usual(x)
    OBVIOUS
  <2>2. hand[h].at = "resolve" /\ P_!Form(h, x, account, hand[h].available, ok)
    BY <1>7, <2>1 DEF P_!_resolve_department_account_id
  <2>3. x \in P_!Payees
    BY <2>1, <2>2 DEF PInv, HandOk
  <2>4. account[1] = x
    BY <2>1, <2>3, AccountsAreOf
  <2>5. hand[h].at \notin P_!Drawing
    BY <2>2 DEF P_!Drawing
  <2> QED  BY <1>1, <2>2, <2>3, <2>4, <2>5
<1>8. ASSUME NEW w, P_!Go(h, w), w.at \in {"idle", "pay", "tell"},
             hand[h].at \in {"form", "pay", "tell"},
             UNCHANGED <<mode, filed, P_!panelVars, shown, offers, latest, cause>>,
             purse' \in Nat, entries' \in Nat
      PROVE  PScreen'
  <2>1. Holding(w) /\ w.at \notin P_!Drawing /\ hand[h].at \notin P_!Drawing
    BY <1>8 DEF Holding, P_!Drawing
  <2>2. PDesk'
    BY <1>8, MoneyMoves DEF PScreen, PDesk
  <2> QED  BY <1>8, <2>1, <2>2, OffScreen
<1>9. purse \in Nat /\ entries \in Nat /\ mode \in {"direct", "pooled"}
  BY DEF PScreen, PDesk
<1>10. ASSUME NEW n \in Amounts, P_!_handle_transfer(h, n) PROVE PScreen'
  <2>1. PICK w : w = IF n <= hand[h].available THEN P_!Ordered(h, hand[h].account, n)
                     ELSE P_!NoHand
    OBVIOUS
  <2>2. /\ hand[h].at = "form" /\ P_!Go(h, w)
        /\ UNCHANGED <<P_!purseVars, filed, P_!panelVars, shown, offers, P_!tellings, cause>>
    BY <1>10, <2>1 DEF P_!_handle_transfer
  <2>3. w.at \in {"idle", "pay"}
    BY <2>1 DEF P_!Ordered, P_!NoHand
  <2> QED  BY <1>8, <1>9, <2>2, <2>3 DEF P_!purseVars, P_!tellings
<1>11. CASE P_!transfer_callback(h)
  <2>1. PICK w : w = [at |-> "tell", id |-> asked', ok |-> TRUE]
    OBVIOUS
  <2>2. /\ hand[h].at = "pay" /\ P_!Go(h, w) /\ (mode = "pooled" \/ hand[h].amount <= purse)
        /\ IF mode = "direct" THEN purse' = purse - hand[h].amount /\ entries' = entries + 1
           ELSE UNCHANGED <<purse, entries>>
        /\ UNCHANGED <<mode, filed, P_!panelVars, shown, offers, P_!tellings, cause>>
    BY <1>11, <2>1 DEF P_!transfer_callback
  <2>3. hand[h].amount \in Nat
    BY <2>2, PersonalAssumed DEF PInv, HandOk, P_!PersonalPanelAssumption
  <2>4. purse' \in Nat /\ entries' \in Nat
    BY <1>9, <2>2, <2>3
  <2>5. w.at = "tell"
    BY <2>1
  <2> QED  BY <1>8, <2>2, <2>4, <2>5 DEF P_!tellings
<1>12. CASE P_!transfer_denied(h)
  <2>1. PICK w : w = [at |-> "tell", id |-> asked', ok |-> FALSE]
    OBVIOUS
  <2>2. /\ hand[h].at = "pay" /\ P_!Go(h, w)
        /\ UNCHANGED <<mode, purse, entries, filed, P_!panelVars, shown, offers, P_!tellings,
                       cause>>
    BY <1>12, <2>1 DEF P_!transfer_denied
  <2>3. w.at = "tell"
    BY <2>1
  <2> QED  BY <1>8, <1>9, <2>2, <2>3 DEF P_!tellings
<1>13. ASSUME NEW refused \in BOOLEAN, P_!tell(h, refused) PROVE PScreen'
  <2>1. PICK w : w = P_!NoHand
    OBVIOUS
  <2>2. /\ hand[h].at = "tell" /\ P_!Go(h, w)
        /\ UNCHANGED <<P_!purseVars, filed, P_!panelVars, shown, offers, latest, cause>>
    BY <1>13, <2>1 DEF P_!tell
  <2>3. w.at = "idle"
    BY <2>1 DEF P_!NoHand
  <2> QED  BY <1>8, <1>9, <2>2, <2>3 DEF P_!purseVars
<1> QED  BY <1>3, <1>4, <1>5, <1>6, <1>7, <1>10, <1>11, <1>12, <1>13 DEF P_!Payment

LEMMA PScreenKept == PInv /\ PScreen /\ [P_!Next]_(P_!personalVars) => PScreen'
<1> SUFFICES ASSUME PInv, PScreen, [P_!Next]_(P_!personalVars) PROVE PScreen'
  OBVIOUS
<1>1. ASSUME UNCHANGED <<mode, filed, P_!panelVars, shown, cause, latest, hand>>,
             purse' \in Nat, entries' \in Nat, offers' \subseteq Nat
      PROVE  PScreen'
  <2>1. PDesk'
    BY <1>1, MoneyMoves DEF PScreen, PDesk
  <2> QED  BY <1>1, <2>1, OffScreen
<1>2. purse \in Nat /\ entries \in Nat /\ offers \subseteq Nat /\ seen.balance \in Nat
  BY DEF PScreen, PDesk
<1>3. CASE UNCHANGED P_!personalVars
  BY <1>1, <1>2, <1>3 DEF P_!personalVars, P_!purseVars, P_!tellings
<1>4. CASE P_!on_transfer_button
  <2>1. /\ offers' = offers \union {seen.balance}
        /\ UNCHANGED <<P_!purseVars, filed, P_!panelVars, shown, hand, P_!tellings, cause>>
    BY <1>4 DEF P_!on_transfer_button
  <2> QED  BY <1>1, <1>2, <2>1 DEF P_!purseVars, P_!tellings
<1>5. ASSUME NEW p \in payments, NEW s \in {"paid", "dropped"}, P_!pool_settles(p, s) PROVE PScreen'
  <2>1. /\ s = "paid" => p.amount <= purse
        /\ IF s = "paid" THEN purse' = purse - p.amount /\ entries' = entries + 1
           ELSE UNCHANGED <<purse, entries>>
        /\ UNCHANGED <<mode, filed, P_!panelVars, shown, offers, hand, P_!tellings, cause>>
    BY <1>5 DEF P_!pool_settles
  <2>2. p.amount \in Nat
    BY PersonalAssumed DEF PInv, Paid, P_!PersonalPanelAssumption
  <2>3. purse' \in Nat /\ entries' \in Nat
    BY <1>2, <2>1, <2>2
  <2> QED  BY <1>1, <1>2, <2>1, <2>3 DEF P_!tellings
<1>6. ASSUME NEW n \in Amounts, P_!Income(n) PROVE PScreen'
  <2>1. /\ purse' = purse + n /\ entries' = entries + 1
        /\ UNCHANGED <<mode, filed, P_!panelVars, shown, offers, hand, P_!tellings, cause>>
    BY <1>6 DEF P_!Income
  <2>2. n \in Nat
    BY PersonalAssumed DEF P_!PersonalPanelAssumption
  <2> QED  BY <1>1, <1>2, <2>1, <2>2 DEF P_!tellings
<1>7. ASSUME NEW h \in Clicks, P_!PersonalPanelView(h) PROVE PScreen'
  <2>1. CASE P_!_on_home_tab(h) \/ P_!_on_transfer_tab(h)
    BY <2>1, TabKeeps DEF P_!_on_home_tab, P_!_on_transfer_tab
  <2>2. CASE P_!WelfareApplicationModal(h) \/ P_!LicenseApplicationModal(h)
    <3>1. CASE \E k \in P_!Kinds : P_!Submit(h, k)
      BY <3>1, SubmitsKeep
    <3>2. CASE \E k \in P_!Kinds : P_!Refuse(h, k)
      BY <1>1, <1>2, <3>2 DEF P_!Refuse, P_!purseVars, P_!tellings
    <3> QED  BY <2>2, <3>1, <3>2 DEF P_!WelfareApplicationModal, P_!LicenseApplicationModal,
                P_!Kinds
  <2> QED  BY <1>7, <2>1, <2>2, PropertyTabKeeps, GovernmentTabKeeps, LeafKeeps, RefreshKeeps,
              BalanceKeeps, RedrawKeeps, EndsDrawing, LoadKeeps DEF P_!PersonalPanelView
<1> QED  BY <1>3, <1>4, <1>5, <1>6, <1>7, PaymentLeaves DEF P_!Next

LEMMA PersonalScreens ==
    MCSpec => [](P_!TypeOK /\ P_!ScreenShowsItsTab /\ P_!ApplicationsAreListed)
<1>1. PScreen => P_!TypeOK /\ P_!ScreenShowsItsTab /\ P_!ApplicationsAreListed
  BY PScreenShows
<1>2. P_!Init => PInv /\ PScreen
  BY PInvAtFirst, PScreenAtFirst
<1>3. PInv /\ PScreen /\ [P_!Next]_(P_!personalVars) => (PInv /\ PScreen)'
  BY PInvKept, PScreenKept
<1>4. MCSpec => P_!Spec
  BY Personal_
<1> QED  BY <1>1, <1>2, <1>3, <1>4, PTL DEF P_!Spec

-----------------------------------------------------------------------------
(* What the panels of interior affairs show *)

\* Where a callback can stand in either view, and with what.
Stage(w) ==
    /\ w.at \in I_!Underway \union {"idle", "form"}
    /\ view = "applications" => w.at \notin {"query", "listed"}
    /\ view = "licenses" => w.at \in {"idle", "query", "listed", "edit"}
    /\ w.at \in {"load", "loaded"} => w.of \in I_!AppKinds
    /\ w.at = "loaded" => w.list \subseteq Applied
    /\ w.at = "query" => w.page \in Int
    /\ w.at = "edit" /\ view = "applications" => I_!Cardinality(w.view.apps) <= Rows
    /\ w.at = "edit" /\ view = "licenses" => w.next = I_!OffDuty
IDesk ==
    /\ view \in {"applications", "licenses"}
    /\ kind \in I_!AppKinds \union {"all"} /\ apps \in [I_!AppKinds -> SUBSET Applied]
    /\ issued \in Nat /\ current_page \in Int
    /\ view = "licenses" => issued # 0
    /\ view = "applications" => I_!Cardinality(display.apps) <= Rows
    /\ behind \subseteq I_!Stale \union {"astray"}

\* What a callback that works alone has drawn so far, if the screen is excused
\* nothing ...
ThePage == I_!Book(I_!Listed(current_page), current_page)
TheSheet == I_!Sheet(apps, kind)
Drawn(w) ==
    /\ view = "applications" =>
         /\ w.at = "edit" => w.view = TheSheet
         /\ w.at \notin {"load", "loaded", "edit"} => display = TheSheet
    /\ view = "licenses" =>
         /\ w.at = "query" => w.page = current_page
         /\ w.at = "listed" => w.list = I_!Listed(current_page)
         /\ w.at = "edit" => w.view = ThePage
         /\ w.at \notin {"query", "listed", "edit"} => display = ThePage

\* ... what it has loaded, if the lists are ...
Lists == [k \in I_!AppKinds |-> I_!Pending(k)]
Fetched(w) ==
    /\ w.at \in {"load", "loaded"} /\ w.of = "license" => apps["welfare"] = I_!Pending("welfare")
    /\ w.at = "loaded" => w.list = I_!Pending(w.of)
    /\ w.at \notin {"load", "loaded"} => apps = Lists

\* ... and where pages lead that are turned by one alone.
Leads(v) ==
    /\ v.page = current_page /\ (v.prev => current_page > 1)
    /\ v.next => current_page * LicensePage < issued
Ahead(w) ==
    /\ w.at = "query" => w.page = current_page
    /\ w.at = "listed" =>
         (current_page * LicensePage < w.list.total => current_page * LicensePage < issued)
    /\ w.at = "edit" => Leads(w.view)
    /\ w.at \notin {"query", "listed", "edit"} => Leads(display)

Alone == \A g, h \in I_!OnDuty : g = h
DrawnAlone ==
    behind \intersect I_!Stale = {} =>
        /\ Alone /\ \A h \in I_!OnDuty : Drawn(duty[h])
        /\ I_!OnDuty = {} => Drawn(I_!OffDuty)
LoadedAlone ==
    view = "applications" /\ behind \intersect {"overlap", "elsewhere", "load"} = {} =>
        /\ Alone /\ \A h \in I_!OnDuty : Fetched(duty[h])
        /\ I_!OnDuty = {} => Fetched(I_!OffDuty)
OnCourse ==
    view = "licenses" /\ "astray" \notin behind =>
        /\ current_page >= 1 /\ (current_page - 1) * LicensePage < issued
        /\ \A h \in I_!OnDuty : Ahead(duty[h])
        /\ I_!OnDuty = {} => Ahead(I_!OffDuty)

IScreen ==
    /\ IDesk /\ DrawnAlone /\ LoadedAlone /\ OnCourse
    /\ \A h \in Officials : Stage(duty[h])

LEMMA SameCounts == \A S : /\ I_!IsFiniteSet(S) = IsFiniteSet(S)
                          /\ I_!Cardinality(S) = Cardinality(S)
<1>1. \A S : I_!IsFiniteSet(S) = IsFiniteSet(S)
  BY Zenon DEF I_!IsFiniteSet, IsFiniteSet
<1>2. \A S : I_!Cardinality(S) = Cardinality(S)
  BY Zenon DEF I_!Cardinality, Cardinality
<1> QED  BY <1>1, <1>2

LEMMA PageSizes == LicensePage \in Nat \ {0} /\ AppPage \in Nat \ {0} /\ Rows \in Nat
BY InteriorAssumed DEF I_!InteriorDeskAssumption

\* Those that wait when the panel is opened all have a row.
LEMMA RowsAtFirst ==
    ASSUME NEW S, S \subseteq Waiting PROVE I_!Cardinality(S) <= Rows
<1>1. IsFiniteSet(Applied) /\ Waiting \in SUBSET Applied /\ Cardinality(Waiting) <= Rows
  BY InteriorAssumed, SameCounts DEF I_!InteriorDeskAssumption
<1>2. IsFiniteSet(Waiting)
  BY <1>1, FS_Subset
<1>3. IsFiniteSet(S) /\ Cardinality(S) <= Cardinality(Waiting)
  BY <1>2, FS_Subset
<1>4. Cardinality(S) \in Nat /\ Cardinality(Waiting) \in Nat
  BY <1>2, <1>3, FS_CardinalityType
<1>5. Cardinality(S) <= Rows
  BY <1>1, <1>3, <1>4, PageSizes
<1> QED  BY <1>5, SameCounts

LEMMA IScreenAtFirst == I_!Init => IScreen
<1> SUFFICES ASSUME I_!Init PROVE IScreen
  OBVIOUS
<1>1. \A h \in Officials : duty[h] = [at |-> "idle"]
  BY DEF I_!Init, I_!OffDuty
<1>2. I_!OnDuty = {}
  BY <1>1 DEF I_!OnDuty, I_!Underway
<1>3. \A h \in Officials : Stage(duty[h])
  BY <1>1 DEF Stage
<1>4. apps = Lists /\ apps \in [I_!AppKinds -> SUBSET Applied]
  BY DEF I_!Init, Lists, I_!Pending
<1>5. view = "licenses" => issued \in Nat \ {0}
  <2>1. LicensePage \in Nat \ {0}
    BY PageSizes
  <2> QED  BY <2>1 DEF I_!Init
<1>6. issued \in Nat /\ current_page = 1 /\ view \in {"applications", "licenses"}
  BY <1>5 DEF I_!Init
<1>7. view = "applications" => I_!Cardinality(display.apps) <= Rows
  <2>1. \A k \in I_!AppKinds : apps[k] \subseteq Waiting
    BY DEF I_!Init, I_!Pending
  <2>2. I_!Newest(I_!_get_filtered_apps(apps, kind)) \subseteq Waiting
    BY <2>1 DEF I_!Newest, I_!_get_filtered_apps
  <2>3. view = "applications" =>
          display.apps = I_!Newest(I_!_get_filtered_apps(apps, kind))
    BY DEF I_!Init, I_!Sheet
  <2> QED  BY <2>2, <2>3, RowsAtFirst
<1>8. IDesk
  BY <1>4, <1>5, <1>6, <1>7 DEF IDesk, I_!Init
<1>9. DrawnAlone
  <2>1. Drawn(I_!OffDuty)
    BY <1>6 DEF I_!Init, Drawn, I_!OffDuty, ThePage, TheSheet
  <2> QED  BY <1>2, <2>1 DEF DrawnAlone, Alone
<1>10. LoadedAlone
  <2>1. Fetched(I_!OffDuty)
    BY <1>4 DEF Fetched, I_!OffDuty
  <2> QED  BY <1>2, <2>1 DEF LoadedAlone, Alone
<1>11. OnCourse
  <2> SUFFICES ASSUME view = "licenses"
               PROVE  (current_page - 1) * LicensePage < issued /\ Ahead(I_!OffDuty)
    BY <1>2, <1>6 DEF OnCourse
  <2>1. LicensePage \in Nat \ {0}
    BY PageSizes
  <2>2. (current_page - 1) * LicensePage < issued
    BY <1>5, <1>6, <2>1
  <2>3. display = I_!Book(I_!Listed(1), 1)
    BY DEF I_!Init
  <2>4. I_!Listed(1).total = issued
    BY <1>6, <2>2 DEF I_!Listed
  <2>5. display.page = 1 /\ (display.prev => 1 > 1) /\ (display.next => 1 * LicensePage < issued)
    BY <2>3, <2>4 DEF I_!Book
  <2>6. Leads(display)
    BY <1>6, <2>5 DEF Leads
  <2> QED  BY <2>2, <2>6 DEF Ahead, I_!OffDuty
<1> QED  BY <1>3, <1>8, <1>9, <1>10, <1>11 DEF IScreen

\* A page that begins within the list has a licence.
LEMMA PageHasLicense ==
    ASSUME NEW k \in Nat, k >= 1, issued \in Nat, (k - 1) * LicensePage < issued
    PROVE  I_!Listed(k).ids # {}
<1>1. PICK j \in Nat : j = k - 1
  OBVIOUS
<1>2. LicensePage \in Nat \ {0}
  BY PageSizes
<1>3. LicensePage * j \in Nat /\ LicensePage * j = (k - 1) * LicensePage
  BY <1>1, <1>2
<1>4. (LicensePage * j) \div LicensePage = j
  BY <1>2, DivOfTimes
<1>5. PICK m \in Nat : m = LicensePage * j
  BY <1>3
<1>6. issued - m \in 1..issued /\ issued - (issued - m) = m
  BY <1>3, <1>5
<1>7. (issued - (issued - m)) \div LicensePage = k - 1
  BY <1>1, <1>4, <1>5, <1>6
<1> QED  BY <1>6, <1>7 DEF I_!Listed

LEMMA IScreenShows ==
    DInv /\ IScreen => I_!TypeOK /\ I_!PendingAreShown /\ I_!LicensesAreShown
<1> SUFFICES ASSUME DInv, IScreen
             PROVE  I_!TypeOK /\ I_!PendingAreShown /\ I_!LicensesAreShown
  OBVIOUS
<1>1. I_!TypeOK
  <2>1. \A h \in Officials : duty[h].at \in I_!Underway \union {"idle", "form"}
    BY DEF IScreen, Stage
  <2> QED  BY <2>1 DEF DInv, Fates, Verdicts, IScreen, IDesk, I_!TypeOK
<1>2. I_!PendingAreShown
  <2> SUFFICES ASSUME view = "applications", I_!OnDuty = {}, behind \intersect I_!Stale = {}
               PROVE  display = I_!Sheet(Lists, kind)
    BY DEF I_!PendingAreShown, Lists
  <2>1. display = TheSheet
    BY DEF IScreen, DrawnAlone, Drawn, I_!OffDuty
  <2>2. behind \intersect {"overlap", "elsewhere", "load"} = {}
    BY DEF I_!Stale
  <2>3. apps = Lists
    BY <2>2 DEF IScreen, LoadedAlone, Fetched, I_!OffDuty
  <2> QED  BY <2>1, <2>3 DEF TheSheet
<1>3. I_!LicensesAreShown
  <2> SUFFICES ASSUME view = "licenses", I_!OnDuty = {}, behind \intersect I_!Stale = {}
               PROVE  /\ display = I_!Book(I_!Listed(display.page), current_page)
                      /\ "astray" \notin behind => display.ids # {}
    BY DEF I_!LicensesAreShown
  <2>1. display = ThePage
    BY DEF IScreen, DrawnAlone, Drawn, I_!OffDuty
  <2>2. display.page = current_page /\ display.ids = I_!Listed(current_page).ids
    BY <2>1 DEF ThePage, I_!Book
  <2>3. ASSUME "astray" \notin behind PROVE display.ids # {}
    <3>1. /\ current_page >= 1 /\ (current_page - 1) * LicensePage < issued
          /\ current_page \in Int /\ issued \in Nat
      BY <2>3 DEF IScreen, OnCourse, IDesk
    <3>2. PICK k \in Nat : k = current_page
      BY <3>1
    <3>3. I_!Listed(k).ids # {}
      BY <3>1, <3>2, PageHasLicense
    <3> QED  BY <2>2, <3>2, <3>3
  <2> QED  BY <2>1, <2>2, <2>3 DEF ThePage
<1> QED  BY <1>1, <1>2, <1>3

\* Who works alone, if nothing is excused.
LEMMA DutyAlone ==
    ASSUME IScreen, NEW h \in Officials, duty[h].at \in I_!Underway
    PROVE  /\ behind \intersect I_!Stale = {} => I_!OnDuty = {h} /\ Drawn(duty[h])
           /\ view = "applications" /\ behind \intersect {"overlap", "elsewhere", "load"} = {} =>
                I_!OnDuty = {h} /\ Fetched(duty[h])
           /\ view = "licenses" /\ "astray" \notin behind => Ahead(duty[h])
<1>1. h \in I_!OnDuty
  BY DEF I_!OnDuty
<1> QED  BY <1>1 DEF IScreen, DrawnAlone, LoadedAlone, OnCourse, Alone

\* Whoever meets nobody is alone.
LEMMA Meeting ==
    ASSUME IScreen, NEW h \in Officials, NEW old, I_!Meets(h, old), "astray" \notin old
    PROVE  /\ behind' \subseteq I_!Stale \union {"astray"}
           /\ \/ behind' \intersect I_!Stale = {}
              \/ behind' \intersect {"overlap", "elsewhere", "load"} = {}
              => I_!OnDuty \subseteq {h} /\ behind' = behind \ old
           /\ "astray" \in behind => "astray" \in behind'
           /\ duty[h].at \notin I_!Underway /\ I_!OnDuty \subseteq {h} => I_!OnDuty = {}
<1>1. behind \subseteq I_!Stale \union {"astray"} /\ "overlap" \in I_!Stale
  BY DEF IScreen, IDesk, I_!Stale
<1>2. duty[h].at \notin I_!Underway => h \notin I_!OnDuty
  BY DEF I_!OnDuty
<1>3. CASE I_!OnDuty \subseteq {h}
  <2>1. behind' = behind \ old
    BY <1>3 DEF I_!Meets
  <2> QED  BY <1>1, <1>2, <1>3, <2>1
<1>4. CASE ~(I_!OnDuty \subseteq {h})
  <2>1. behind' = behind \union {"overlap"}
    BY <1>4 DEF I_!Meets
  <2> QED  BY <1>1, <1>4, <2>1
<1> QED  BY <1>3, <1>4

\* A callback goes on, and the others stay where they are.
LEMMA DutyStep ==
    ASSUME DInv, IScreen, NEW h \in Officials, NEW w, I_!Do(h, w), Stage(w), view' = view
    PROVE  /\ duty'[h] = w /\ \A g \in Officials : g # h => duty'[g] = duty[g]
           /\ (\A g \in Officials : Stage(duty[g]))'
           /\ \A g \in I_!OnDuty' : g \in Officials /\ (g = h \/ g \in I_!OnDuty)
           /\ I_!OnDuty \subseteq {h} =>
                /\ \A g \in I_!OnDuty' : g = h
                /\ I_!OnDuty' = {} => w.at \notin I_!Underway
           /\ h \in I_!OnDuty' \/ w.at \notin I_!Underway
<1>1. duty'[h] = w /\ \A g \in Officials : g # h => duty'[g] = duty[g]
  BY DEF I_!Do, DInv
<1>2. \A g \in Officials : Stage(duty'[g])
  BY <1>1 DEF IScreen
<1>3. (\A g \in Officials : Stage(duty[g]))'
  BY <1>2 DEF Stage
<1>4. \A g \in I_!OnDuty' : g \in Officials /\ (g = h \/ g \in I_!OnDuty)
  BY <1>1 DEF I_!OnDuty
<1>5. h \in I_!OnDuty' \/ w.at \notin I_!Underway
  BY <1>1 DEF I_!OnDuty
<1> QED  BY <1>1, <1>3, <1>4, <1>5

LEMMA ApplicationStep ==
    ASSUME DInv, IScreen, NEW h \in Officials, NEW w, I_!Do(h, w), Stage(w),
           view = "applications", view' = view, IDesk',
           behind' \intersect I_!Stale = {} => I_!OnDuty \subseteq {h} /\ (Drawn(w))',
           behind' \intersect {"overlap", "elsewhere", "load"} = {} =>
               I_!OnDuty \subseteq {h} /\ (Fetched(w))'
    PROVE  IScreen'
<1>1. /\ duty'[h] = w /\ (\A g \in Officials : Stage(duty[g]))'
      /\ I_!OnDuty \subseteq {h} =>
           /\ \A g \in I_!OnDuty' : g = h
           /\ I_!OnDuty' = {} => w.at \notin I_!Underway
  BY DutyStep
<1>2. DrawnAlone'
  <2> SUFFICES ASSUME (behind \intersect I_!Stale = {})'
               PROVE  (/\ Alone /\ \A g \in I_!OnDuty : Drawn(duty[g])
                       /\ I_!OnDuty = {} => Drawn(I_!OffDuty))'
    BY DEF DrawnAlone
  <2>1. I_!OnDuty \subseteq {h} /\ (Drawn(w))'
    BY DEF I_!Stale, I_!Misdrawn
  <2>2. Alone'
    BY <1>1, <2>1 DEF Alone
  <2>3. ASSUME NEW g \in I_!OnDuty' PROVE (Drawn(duty[g]))'
    <3>1. duty'[g] = w
      BY <1>1, <2>1
    <3> QED  BY <2>1, <3>1 DEF Drawn
  <2>4. ASSUME I_!OnDuty' = {} PROVE (Drawn(I_!OffDuty))'
    <3>1. w.at \notin {"load", "loaded", "edit"}
      BY <1>1, <2>1, <2>4 DEF I_!Underway
    <3> QED  BY <2>1, <3>1 DEF Drawn, I_!OffDuty
  <2> QED  BY <2>2, <2>3, <2>4
<1>3. LoadedAlone'
  <2> SUFFICES ASSUME (behind \intersect {"overlap", "elsewhere", "load"} = {})'
               PROVE  (/\ Alone /\ \A g \in I_!OnDuty : Fetched(duty[g])
                       /\ I_!OnDuty = {} => Fetched(I_!OffDuty))'
    BY DEF LoadedAlone
  <2>1. I_!OnDuty \subseteq {h} /\ (Fetched(w))'
    OBVIOUS
  <2>2. Alone'
    BY <1>1, <2>1 DEF Alone
  <2>3. ASSUME NEW g \in I_!OnDuty' PROVE (Fetched(duty[g]))'
    <3>1. duty'[g] = w
      BY <1>1, <2>1
    <3> QED  BY <2>1, <3>1 DEF Fetched
  <2>4. ASSUME I_!OnDuty' = {} PROVE (Fetched(I_!OffDuty))'
    <3>1. w.at \notin {"load", "loaded"}
      BY <1>1, <2>1, <2>4 DEF I_!Underway
    <3> QED  BY <2>1, <3>1 DEF Fetched, I_!OffDuty
  <2> QED  BY <2>2, <2>3, <2>4
<1>4. OnCourse'
  BY DEF OnCourse
<1> QED  BY <1>1, <1>2, <1>3, <1>4 DEF IScreen

LEMMA LicenseStep ==
    ASSUME DInv, IScreen, NEW h \in Officials, NEW w, I_!Do(h, w), Stage(w),
           view = "licenses", view' = view, IDesk',
           behind' \intersect I_!Stale = {} => I_!OnDuty \subseteq {h} /\ (Drawn(w))',
           "astray" \notin behind' =>
               /\ "astray" \notin behind
               /\ I_!OnDuty \subseteq {h} \/ UNCHANGED <<current_page, issued>>
               /\ current_page' >= 1 /\ (current_page' - 1) * LicensePage < issued'
               /\ (Ahead(w))'
    PROVE  IScreen'
<1>1. /\ duty'[h] = w /\ (\A g \in Officials : Stage(duty[g]))'
      /\ \A g \in Officials : g # h => duty'[g] = duty[g]
      /\ \A g \in I_!OnDuty' : g \in Officials /\ (g = h \/ g \in I_!OnDuty)
      /\ I_!OnDuty \subseteq {h} =>
           /\ \A g \in I_!OnDuty' : g = h
           /\ I_!OnDuty' = {} => w.at \notin I_!Underway
      /\ h \in I_!OnDuty' \/ w.at \notin I_!Underway
  BY DutyStep
<1>2. DrawnAlone'
  <2> SUFFICES ASSUME (behind \intersect I_!Stale = {})'
               PROVE  (/\ Alone /\ \A g \in I_!OnDuty : Drawn(duty[g])
                       /\ I_!OnDuty = {} => Drawn(I_!OffDuty))'
    BY DEF DrawnAlone
  <2>1. I_!OnDuty \subseteq {h} /\ (Drawn(w))'
    BY DEF I_!Stale, I_!Misdrawn
  <2>2. Alone'
    BY <1>1, <2>1 DEF Alone
  <2>3. ASSUME NEW g \in I_!OnDuty' PROVE (Drawn(duty[g]))'
    <3>1. duty'[g] = w
      BY <1>1, <2>1
    <3> QED  BY <2>1, <3>1 DEF Drawn
  <2>4. ASSUME I_!OnDuty' = {} PROVE (Drawn(I_!OffDuty))'
    <3>1. w.at \notin {"query", "listed", "edit"}
      BY <1>1, <2>1, <2>4 DEF I_!Underway
    <3> QED  BY <2>1, <3>1 DEF Drawn, I_!OffDuty
  <2> QED  BY <2>2, <2>3, <2>4
<1>3. LoadedAlone'
  BY DEF LoadedAlone
<1>4. OnCourse'
  <2> SUFFICES ASSUME "astray" \notin behind'
               PROVE  (/\ \A g \in I_!OnDuty : Ahead(duty[g])
                       /\ I_!OnDuty = {} => Ahead(I_!OffDuty))'
    BY DEF OnCourse
  <2>1. (Ahead(w))'
    OBVIOUS
  <2>2. ASSUME NEW g \in I_!OnDuty' PROVE (Ahead(duty[g]))'
    <3>1. CASE g = h
      BY <1>1, <2>1, <3>1 DEF Ahead
    <3>2. CASE g # h
      <4>1. g \in I_!OnDuty /\ g \in Officials /\ UNCHANGED <<current_page, issued>>
        BY <1>1, <3>2
      <4>2. PICK v : v = duty[g]
        OBVIOUS
      <4>3. Ahead(v) /\ v.at \in I_!Underway /\ duty'[g] = v
        BY <1>1, <3>2, <4>1, <4>2 DEF IScreen, OnCourse, I_!OnDuty
      <4>4. v.at \in {"query", "listed", "edit"}
        BY <4>1, <4>2, <4>3 DEF IScreen, Stage, I_!Underway
      <4>5. (Ahead(v))'
        BY <4>1, <4>3, <4>4 DEF Ahead, Leads
      <4> QED  BY <4>3, <4>5 DEF Ahead
    <3> QED  BY <3>1, <3>2
  <2>3. ASSUME I_!OnDuty' = {} PROVE (Ahead(I_!OffDuty))'
    <3>1. w.at \notin {"query", "listed", "edit"}
      BY <1>1, <2>3 DEF I_!Underway
    <3> QED  BY <2>1, <3>1 DEF Ahead, I_!OffDuty
  <2> QED  BY <2>2, <2>3
<1> QED  BY <1>1, <1>2, <1>3, <1>4 DEF IScreen

\* What is no work leaves the applications that are shown alone.
LEMMA OffDutyStep ==
    ASSUME DInv, IScreen, view = "applications", view' = view, IDesk',
           \/ UNCHANGED duty
           \/ \E h \in Officials : \E w : /\ I_!Do(h, w) /\ Stage(w)
                                         /\ duty[h].at \notin I_!Underway
                                         /\ w.at \notin I_!Underway,
           behind' \intersect I_!Stale = {} => UNCHANGED <<apps, kind, display, behind>>,
           behind' \intersect {"overlap", "elsewhere", "load"} = {} =>
               /\ behind \intersect {"overlap", "elsewhere", "load"} = {}
               /\ UNCHANGED <<apps, fate>>
    PROVE  IScreen'
<1>1. /\ I_!OnDuty' = I_!OnDuty
      /\ \A g \in I_!OnDuty : duty'[g] = duty[g]
      /\ (\A g \in Officials : Stage(duty[g]))'
  <2>1. CASE UNCHANGED duty
    BY <2>1 DEF I_!OnDuty, IScreen, Stage
  <2>2. ASSUME NEW h \in Officials, NEW w, I_!Do(h, w), Stage(w),
               duty[h].at \notin I_!Underway, w.at \notin I_!Underway
        PROVE  /\ I_!OnDuty' = I_!OnDuty
               /\ \A g \in I_!OnDuty : duty'[g] = duty[g]
               /\ (\A g \in Officials : Stage(duty[g]))'
    BY <2>2, DutyStep DEF I_!OnDuty
  <2> QED  BY <2>1, <2>2
<1>2. DrawnAlone'
  <2> SUFFICES ASSUME (behind \intersect I_!Stale = {})'
               PROVE  (/\ Alone /\ \A g \in I_!OnDuty : Drawn(duty[g])
                       /\ I_!OnDuty = {} => Drawn(I_!OffDuty))'
    BY DEF DrawnAlone
  <2>1. UNCHANGED <<apps, kind, display>> /\ behind \intersect I_!Stale = {}
    BY DEF I_!Stale, I_!Misdrawn
  <2>2. TheSheet' = TheSheet
    BY <2>1 DEF TheSheet, I_!Sheet, I_!Newest, I_!_get_filtered_apps
  <2>3. ASSUME NEW v, Drawn(v) PROVE (Drawn(v))'
    BY <2>1, <2>2, <2>3 DEF Drawn
  <2>4. Alone'
    BY <1>1, <2>1 DEF IScreen, DrawnAlone, Alone
  <2>5. ASSUME NEW g \in I_!OnDuty' PROVE (Drawn(duty[g]))'
    <3>1. PICK v : v = duty[g]
      OBVIOUS
    <3>2. Drawn(v) /\ duty'[g] = v
      BY <1>1, <2>1, <2>5, <3>1 DEF IScreen, DrawnAlone
    <3> QED  BY <2>3, <3>2 DEF Drawn
  <2>6. ASSUME I_!OnDuty' = {} PROVE (Drawn(I_!OffDuty))'
    <3>1. Drawn(I_!OffDuty)
      BY <1>1, <2>1, <2>6 DEF IScreen, DrawnAlone
    <3> QED  BY <2>1, <2>2, <3>1 DEF Drawn, I_!OffDuty
  <2> QED  BY <2>4, <2>5, <2>6
<1>3. LoadedAlone'
  <2> SUFFICES ASSUME (behind \intersect {"overlap", "elsewhere", "load"} = {})'
               PROVE  (/\ Alone /\ \A g \in I_!OnDuty : Fetched(duty[g])
                       /\ I_!OnDuty = {} => Fetched(I_!OffDuty))'
    BY DEF LoadedAlone
  <2>1. UNCHANGED <<apps, fate>> /\ behind \intersect {"overlap", "elsewhere", "load"} = {}
    OBVIOUS
  <2>2. ASSUME NEW v, Fetched(v) PROVE (Fetched(v))'
    BY <2>1, <2>2 DEF Fetched, Lists, I_!Pending
  <2>3. Alone'
    BY <1>1, <2>1 DEF IScreen, LoadedAlone, Alone
  <2>4. ASSUME NEW g \in I_!OnDuty' PROVE (Fetched(duty[g]))'
    <3>1. PICK v : v = duty[g]
      OBVIOUS
    <3>2. Fetched(v) /\ duty'[g] = v
      BY <1>1, <2>1, <2>4, <3>1 DEF IScreen, LoadedAlone
    <3> QED  BY <2>2, <3>2 DEF Fetched
  <2>5. ASSUME I_!OnDuty' = {} PROVE (Fetched(I_!OffDuty))'
    <3>1. Fetched(I_!OffDuty)
      BY <1>1, <2>1, <2>5 DEF IScreen, LoadedAlone
    <3> QED  BY <2>1, <3>1 DEF Fetched, Lists, I_!Pending, I_!OffDuty
  <2> QED  BY <2>3, <2>4, <2>5
<1>4. OnCourse'
  BY DEF OnCourse
<1> QED  BY <1>1, <1>2, <1>3, <1>4 DEF IScreen

\* A refresh, or what a decision was, begins to load.
LEMMA RefreshLoads ==
    ASSUME DInv, IScreen, NEW h \in Officials, I_!_refresh_callback(h) PROVE IScreen'
<1>1. PICK w : w = [at |-> "load", of |-> "welfare", next |-> I_!OffDuty, answered |-> FALSE]
  OBVIOUS
<1>2. /\ view = "applications" /\ I_!Free(h) /\ I_!Do(h, w) /\ I_!Meets(h, I_!Stale)
      /\ UNCHANGED <<view, fate, kind, apps, issued, current_page, display>>
  BY <1>1 DEF I_!_refresh_callback, I_!Load, I_!applicationVars, I_!licenseVars
<1>3. Stage(w)
  BY <1>1, <1>2 DEF Stage, I_!Underway, I_!AppKinds
<1>4. "astray" \notin I_!Stale
  BY DEF I_!Stale, I_!Misdrawn
<1>5. IDesk'
  BY <1>2, <1>4, Meeting DEF IScreen, IDesk, I_!Stale, I_!Misdrawn
<1>6. (Drawn(w))' /\ (Fetched(w))'
  BY <1>1, <1>2 DEF Drawn, Fetched
<1> QED  BY <1>2, <1>3, <1>4, <1>5, <1>6, Meeting, ApplicationStep

LEMMA ListArrives ==
    ASSUME DInv, IScreen, NEW h \in Officials, I_!list_applications(h) \/ I_!LoadFails(h)
    PROVE  IScreen'
<1>1. PICK w : w = [at |-> "loaded", of |-> duty[h].of,
                    list |-> IF I_!LoadFails(h) THEN apps[duty[h].of]
                             ELSE I_!Pending(duty[h].of),
                    next |-> duty[h].next, answered |-> duty[h].answered]
  OBVIOUS
<1>2. /\ duty[h].at = "load"
      /\ UNCHANGED <<view, fate, kind, apps, issued, current_page, display>>
  BY DEF I_!list_applications, I_!LoadFails, I_!applicationVars, I_!licenseVars
<1>3. \/ /\ I_!LoadFails(h) /\ I_!Do(h, w) /\ behind' = behind \union {"load"}
      \/ /\ ~I_!LoadFails(h) /\ I_!Do(h, w) /\ behind' = behind
  <2>1. CASE I_!LoadFails(h)
    BY <1>1, <2>1 DEF I_!LoadFails
  <2>2. CASE ~I_!LoadFails(h)
    BY <1>1, <2>2 DEF I_!list_applications
  <2> QED  BY <2>1, <2>2
<1>4. duty[h].of \in I_!AppKinds /\ view = "applications"
  BY <1>2 DEF IScreen, IDesk, Stage
<1>5. w.list \subseteq Applied
  BY <1>1, <1>4 DEF IScreen, IDesk, I_!Pending
<1>6. Stage(w)
  BY <1>1, <1>4, <1>5 DEF Stage, I_!Underway
<1>7. IDesk'
  BY <1>2, <1>3 DEF IScreen, IDesk, I_!Stale, I_!Misdrawn
<1>8. (Drawn(w))'
  BY <1>1, <1>2, <1>4 DEF Drawn
<1>9. ASSUME ~I_!LoadFails(h), behind \intersect {"overlap", "elsewhere", "load"} = {}
      PROVE  I_!OnDuty = {h} /\ (Fetched(w))'
  <2>1. I_!OnDuty = {h} /\ Fetched(duty[h])
    BY <1>2, <1>4, <1>9, DutyAlone DEF I_!Underway
  <2>2. w.of = "license" => apps["welfare"] = I_!Pending("welfare")
    BY <1>1, <1>2, <2>1 DEF Fetched
  <2>3. w.at = "loaded" /\ w.list = I_!Pending(w.of)
    BY <1>1, <1>9
  <2>4. Fetched(w)
    BY <2>2, <2>3 DEF Fetched
  <2> QED  BY <1>2, <2>1, <2>4 DEF Fetched, Lists, I_!Pending
<1>10. ASSUME behind' \intersect I_!Stale = {} PROVE I_!OnDuty = {h}
  BY <1>2, <1>3, <1>10, DutyAlone DEF I_!Stale, I_!Misdrawn, I_!Underway
<1>11. I_!Do(h, w) /\ view' = view
  BY <1>2, <1>3
<1>12. ASSUME behind' \intersect {"overlap", "elsewhere", "load"} = {}
       PROVE  I_!OnDuty = {h} /\ (Fetched(w))'
  BY <1>3, <1>9, <1>12
<1> QED  BY <1>4, <1>6, <1>7, <1>8, <1>10, <1>11, <1>12, ApplicationStep

\* A list has been loaded: the other one is next, or the panel is drawn.
LEMMA ListLands ==
    ASSUME DInv, IScreen, NEW h \in Officials, I_!load_applications(h) PROVE IScreen'
<1>1. /\ duty[h].at = "loaded" /\ apps' = [apps EXCEPT ![duty[h].of] = duty[h].list]
      /\ UNCHANGED <<view, fate, kind, issued, current_page, display>> /\ I_!Onward(h)
  BY DEF I_!load_applications, I_!licenseVars
<1>2. duty[h].of \in I_!AppKinds /\ duty[h].list \subseteq Applied /\ view = "applications"
  BY <1>1 DEF IScreen, IDesk, Stage
<1>3. apps' \in [I_!AppKinds -> SUBSET Applied]
  BY <1>1, <1>2 DEF IScreen, IDesk
<1>4. ASSUME behind \intersect {"overlap", "elsewhere", "load"} = {}
      PROVE  /\ I_!OnDuty = {h} /\ apps'["welfare"] = I_!Pending("welfare")
             /\ duty[h].of = "license" => apps' = Lists
  <2>1. I_!OnDuty = {h} /\ Fetched(duty[h])
    BY <1>1, <1>2, <1>4, DutyAlone DEF I_!Underway
  <2>2. /\ duty[h].list = I_!Pending(duty[h].of)
        /\ duty[h].of = "license" => apps["welfare"] = I_!Pending("welfare")
    BY <1>1, <2>1 DEF Fetched
  <2>3. apps \in [I_!AppKinds -> SUBSET Applied]
    BY DEF IScreen, IDesk
  <2>4. apps'["welfare"] = I_!Pending("welfare")
    BY <1>1, <1>2, <2>2, <2>3 DEF I_!AppKinds
  <2>5. ASSUME duty[h].of = "license" PROVE apps' = Lists
    <3>1. apps'["license"] = I_!Pending("license")
      BY <1>1, <2>2, <2>3, <2>5 DEF I_!AppKinds
    <3>2. \A k \in I_!AppKinds : apps'[k] = I_!Pending(k)
      BY <2>4, <3>1 DEF I_!AppKinds
    <3> QED  BY <1>3, <3>2 DEF Lists
  <2> QED  BY <2>1, <2>4, <2>5
<1>5. Lists' = Lists /\ I_!Pending("welfare")' = I_!Pending("welfare")
  BY <1>1 DEF Lists, I_!Pending
<1>6. CASE duty[h].of = "welfare"
  <2>1. PICK w : w = [I_!Load(duty[h].next, duty[h].answered) EXCEPT !.of = "license"]
    OBVIOUS
  <2>2. w = [at |-> "load", of |-> "license", next |-> duty[h].next,
             answered |-> duty[h].answered]
    BY <2>1 DEF I_!Load
  <2>3. I_!Do(h, w) /\ behind' = behind
    BY <1>1, <1>6, <2>1 DEF I_!Onward
  <2>4. Stage(w)
    BY <1>2, <2>2 DEF Stage, I_!Underway, I_!AppKinds
  <2>5. IDesk'
    BY <1>1, <1>3, <2>3 DEF IScreen, IDesk, I_!Stale, I_!Misdrawn
  <2>6. (Drawn(w))'
    BY <1>1, <1>2, <2>2 DEF Drawn
  <2>7. ASSUME behind' \intersect {"overlap", "elsewhere", "load"} = {}
        PROVE  I_!OnDuty = {h} /\ (Fetched(w))'
    BY <1>4, <1>5, <2>2, <2>3, <2>7 DEF Fetched
  <2>8. ASSUME behind' \intersect I_!Stale = {} PROVE I_!OnDuty = {h}
    BY <1>1, <2>3, <2>8, DutyAlone DEF I_!Stale, I_!Misdrawn, I_!Underway
  <2> QED  BY <1>1, <1>2, <2>3, <2>4, <2>5, <2>6, <2>7, <2>8, ApplicationStep
<1>7. CASE duty[h].of # "welfare"
  <2>1. duty[h].of = "license" /\ I_!Lay(h, duty[h].next, duty[h].answered, {})
    BY <1>1, <1>2, <1>7 DEF I_!Onward, I_!AppKinds
  <2>2. CASE I_!Fits(I_!Newest(I_!_get_filtered_apps(apps', kind')))
    <3>1. PICK w : w = [at |-> "edit", view |-> I_!Sheet(apps', kind'), next |-> duty[h].next,
                        answered |-> duty[h].answered]
      OBVIOUS
    <3>2. I_!Do(h, w) /\ I_!Meets(h, {})
      BY <2>1, <2>2, <3>1 DEF I_!Lay
    <3>3. Stage(w)
      BY <1>2, <2>2, <3>1 DEF Stage, I_!Underway, I_!Fits, I_!Sheet
    <3>4. IDesk'
      BY <1>1, <1>3, <3>2, Meeting DEF IScreen, IDesk, I_!Stale, I_!Misdrawn
    <3>5. (Drawn(w))'
      BY <1>1, <1>2, <3>1 DEF Drawn, TheSheet
    <3>6. ASSUME behind' \intersect {"overlap", "elsewhere", "load"} = {}
          PROVE  I_!OnDuty = {h} /\ (Fetched(w))'
      <4>1. behind' = behind
        BY <3>2, <3>6, Meeting
      <4> QED  BY <1>4, <1>5, <2>1, <3>1, <3>6, <4>1 DEF Fetched
    <3>7. ASSUME behind' \intersect I_!Stale = {} PROVE I_!OnDuty \subseteq {h}
      BY <3>2, <3>7, Meeting
    <3> QED  BY <1>1, <1>2, <3>2, <3>3, <3>4, <3>5, <3>6, <3>7, ApplicationStep
  <2>3. CASE ~I_!Fits(I_!Newest(I_!_get_filtered_apps(apps', kind')))
    <3>1. PICK w : w = I_!OffDuty
      OBVIOUS
    <3>2. I_!Do(h, w) /\ behind' = behind \union {"rows"}
      BY <2>1, <2>3, <3>1 DEF I_!Lay
    <3>3. Stage(w)
      BY <3>1 DEF Stage, I_!OffDuty
    <3>4. IDesk'
      BY <1>1, <1>3, <3>2 DEF IScreen, IDesk, I_!Stale, I_!Misdrawn
    <3>5. behind' \intersect I_!Stale # {}
      BY <3>2 DEF I_!Stale, I_!Misdrawn
    <3>6. ASSUME behind' \intersect {"overlap", "elsewhere", "load"} = {}
          PROVE  I_!OnDuty = {h} /\ (Fetched(w))'
      BY <1>4, <1>5, <2>1, <3>1, <3>2, <3>6 DEF Fetched, I_!OffDuty
    <3> QED  BY <1>1, <1>2, <3>2, <3>3, <3>4, <3>5, <3>6, ApplicationStep
  <2> QED  BY <2>2, <2>3
<1> QED  BY <1>6, <1>7

LEMMA FilterDraws ==
    ASSUME DInv, IScreen, NEW h \in Officials, NEW f \in I_!AppKinds \union {"all"},
           I_!filter_callback(h, f)
    PROVE  IScreen'
<1>1. /\ view = "applications" /\ I_!Free(h) /\ kind' = f
      /\ UNCHANGED <<view, fate, apps, issued, current_page, display>>
      /\ I_!Lay(h, I_!OffDuty, FALSE, I_!Misdrawn)
  BY DEF I_!filter_callback, I_!licenseVars
<1>2. duty[h].at \notin I_!Underway /\ "astray" \notin I_!Misdrawn
  BY <1>1 DEF I_!Free, I_!Underway, I_!Misdrawn
<1>3. CASE I_!Fits(I_!Newest(I_!_get_filtered_apps(apps', kind')))
  <2>1. PICK w : w = [at |-> "edit", view |-> I_!Sheet(apps', kind'), next |-> I_!OffDuty,
                      answered |-> FALSE]
    OBVIOUS
  <2>2. I_!Do(h, w) /\ I_!Meets(h, I_!Misdrawn)
    BY <1>1, <1>3, <2>1 DEF I_!Lay
  <2>3. Stage(w)
    BY <1>1, <1>3, <2>1 DEF Stage, I_!Underway, I_!Fits, I_!Sheet
  <2>4. IDesk'
    BY <1>1, <1>2, <2>2, Meeting DEF IScreen, IDesk, I_!Stale, I_!Misdrawn
  <2>5. (Drawn(w))'
    BY <1>1, <2>1 DEF Drawn, TheSheet
  <2>6. ASSUME behind' \intersect {"overlap", "elsewhere", "load"} = {}
        PROVE  I_!OnDuty = {} /\ (Fetched(w))'
    <3>1. I_!OnDuty = {} /\ behind' = behind \ I_!Misdrawn
      BY <1>2, <2>2, <2>6, Meeting
    <3>2. behind \intersect {"overlap", "elsewhere", "load"} = {}
      BY <2>6, <3>1 DEF I_!Misdrawn
    <3>3. apps = Lists
      BY <1>1, <3>1, <3>2 DEF IScreen, LoadedAlone, Fetched, I_!OffDuty
    <3>4. apps' = Lists'
      BY <1>1, <3>3 DEF Lists, I_!Pending
    <3> QED  BY <2>1, <3>1, <3>4 DEF Fetched
  <2>7. ASSUME behind' \intersect I_!Stale = {} PROVE I_!OnDuty \subseteq {h}
    BY <1>2, <2>2, <2>7, Meeting
  <2> QED  BY <1>1, <2>2, <2>3, <2>4, <2>5, <2>6, <2>7, ApplicationStep
<1>4. CASE ~I_!Fits(I_!Newest(I_!_get_filtered_apps(apps', kind')))
  <2>1. PICK w : w = I_!OffDuty
    OBVIOUS
  <2>2. I_!Do(h, w) /\ behind' = behind \union {"rows"}
    BY <1>1, <1>4, <2>1 DEF I_!Lay
  <2>3. Stage(w) /\ w.at \notin I_!Underway
    BY <2>1 DEF Stage, I_!OffDuty, I_!Underway
  <2>4. IDesk'
    BY <1>1, <2>2 DEF IScreen, IDesk, I_!Stale, I_!Misdrawn
  <2>5. behind' \intersect I_!Stale # {}
    BY <2>2 DEF I_!Stale, I_!Misdrawn
  <2>6. ASSUME behind' \intersect {"overlap", "elsewhere", "load"} = {}
        PROVE  /\ behind \intersect {"overlap", "elsewhere", "load"} = {}
               /\ UNCHANGED <<apps, fate>>
    BY <1>1, <2>2, <2>6
  <2> QED  BY <1>1, <1>2, <2>2, <2>3, <2>4, <2>5, <2>6, OffDutyStep
<1> QED  BY <1>3, <1>4

\* A decision is asked for, when a button is pressed or a form is sent.
LEMMA DecideKeeps ==
    ASSUME DInv, IScreen, NEW h \in Officials, NEW a \in Applied, NEW what \in Verdicts,
           view = "applications", duty[h].at \notin I_!Underway, I_!Decide(h, a, what)
    PROVE  IScreen'
<1>1. PICK w : w = [at |-> "decide", what |-> what, app |-> a]
  OBVIOUS
<1>2. /\ I_!Do(h, w) /\ I_!Meets(h, {})
      /\ UNCHANGED <<view, fate, kind, apps, issued, current_page, display>>
  BY <1>1 DEF I_!Decide, I_!licenseVars
<1>3. Stage(w)
  BY <1>1 DEF Stage, I_!Underway
<1>4. IDesk'
  BY <1>2, Meeting DEF IScreen, IDesk
<1>5. TheSheet' = TheSheet /\ Lists' = Lists
  BY <1>2 DEF TheSheet, Lists, I_!Sheet, I_!Pending
<1>6. ASSUME behind' \intersect I_!Stale = {} PROVE I_!OnDuty = {} /\ (Drawn(w))'
  <2>1. I_!OnDuty = {} /\ behind' = behind
    BY <1>2, <1>6, Meeting
  <2>2. display = TheSheet
    BY <1>6, <2>1 DEF IScreen, DrawnAlone, Drawn, I_!OffDuty
  <2> QED  BY <1>1, <1>2, <1>5, <2>1, <2>2 DEF Drawn
<1>7. ASSUME behind' \intersect {"overlap", "elsewhere", "load"} = {}
      PROVE  I_!OnDuty = {} /\ (Fetched(w))'
  <2>1. I_!OnDuty = {} /\ behind' = behind
    BY <1>2, <1>7, Meeting
  <2>2. apps = Lists
    BY <1>7, <2>1 DEF IScreen, LoadedAlone, Fetched, I_!OffDuty
  <2> QED  BY <1>1, <1>2, <1>5, <2>1, <2>2 DEF Fetched
<1> QED  BY <1>2, <1>3, <1>4, <1>6, <1>7, ApplicationStep

\* The service decides: unless one alone now loads the lists, the panel is behind.
LEMMA DecidedKeeps ==
    ASSUME DInv, IScreen, NEW h \in Officials, I_!Decided(h) PROVE IScreen'
<1>1. PICK tell : tell = [at |-> "tell", app |-> duty[h].app, what |-> duty[h].what]
  OBVIOUS
<1>2. /\ duty[h].at = "decide"
      /\ UNCHANGED <<view, kind, apps, issued, current_page, display>>
      /\ IF duty[h].what = "approved"
         THEN /\ I_!Do(h, I_!Load(tell, FALSE))
              /\ behind' = IF I_!OnDuty = {h} THEN behind \ I_!Stale
                           ELSE behind \union {"elsewhere"}
         ELSE I_!Do(h, tell) /\ behind' = behind \union {"elsewhere"}
  BY <1>1 DEF I_!Decided, I_!licenseVars
<1>3. view = "applications"
  BY <1>2 DEF IScreen, IDesk, Stage
<1>4. PICK w : w = IF duty[h].what = "approved" THEN I_!Load(tell, FALSE) ELSE tell
  OBVIOUS
<1>5. I_!Do(h, w)
  BY <1>2, <1>4
<1>6. Stage(w)
  BY <1>1, <1>3, <1>4 DEF Stage, I_!Underway, I_!Load, I_!AppKinds
<1>7. IDesk'
  BY <1>2 DEF IScreen, IDesk, I_!Stale, I_!Misdrawn
<1>8. ASSUME "elsewhere" \notin behind'
      PROVE  I_!OnDuty = {h} /\ (Drawn(w))' /\ (Fetched(w))'
  <2>1. I_!OnDuty = {h} /\ duty[h].what = "approved"
    BY <1>2, <1>8
  <2>2. w = [at |-> "load", of |-> "welfare", next |-> tell, answered |-> FALSE]
    BY <1>4, <2>1 DEF I_!Load
  <2> QED  BY <1>2, <1>3, <2>1, <2>2 DEF Drawn, Fetched
<1>9. "elsewhere" \in I_!Stale
  BY DEF I_!Stale
<1> QED  BY <1>2, <1>3, <1>5, <1>6, <1>7, <1>8, <1>9, ApplicationStep

\* Neither a refusal nor news for the author changes what the panel shows.
LEMMA AnswerKeeps ==
    ASSUME DInv, IScreen, NEW h \in Officials,
           I_!DecisionRefused(h) \/ I_!TellRefused(h) \/ I_!Tell(h)
    PROVE  IScreen'
<1>1. /\ duty[h].at \in {"decide", "tell"}
      /\ UNCHANGED <<view, fate, kind, apps, issued, current_page, display>>
      /\ \/ I_!Do(h, I_!OffDuty) /\ behind' = behind
         \/ I_!Do(h, I_!Load(I_!OffDuty, TRUE)) /\ I_!Meets(h, I_!Stale)
  BY DEF I_!DecisionRefused, I_!TellRefused, I_!Tell, I_!applicationVars, I_!licenseVars
<1>2. view = "applications"
  BY <1>1 DEF IScreen, IDesk, Stage
<1>3. CASE I_!Do(h, I_!OffDuty) /\ behind' = behind
  <2>1. PICK w : w = I_!OffDuty
    OBVIOUS
  <2>2. Stage(w)
    BY <2>1 DEF Stage, I_!OffDuty
  <2>3. IDesk'
    BY <1>1, <1>3 DEF IScreen, IDesk
  <2>4. TheSheet' = TheSheet /\ Lists' = Lists
    BY <1>1 DEF TheSheet, Lists, I_!Sheet, I_!Pending
  <2>5. ASSUME behind' \intersect I_!Stale = {} PROVE I_!OnDuty = {h} /\ (Drawn(w))'
    <3>1. I_!OnDuty = {h} /\ Drawn(duty[h])
      BY <1>1, <1>3, <2>5, DutyAlone DEF I_!Underway, I_!Stale, I_!Misdrawn
    <3>2. display = TheSheet
      BY <1>1, <1>2, <3>1 DEF Drawn
    <3> QED  BY <1>1, <1>2, <2>1, <2>4, <3>1, <3>2 DEF Drawn, I_!OffDuty
  <2>6. ASSUME behind' \intersect {"overlap", "elsewhere", "load"} = {}
        PROVE  I_!OnDuty = {h} /\ (Fetched(w))'
    <3>1. I_!OnDuty = {h} /\ Fetched(duty[h])
      BY <1>1, <1>2, <1>3, <2>6, DutyAlone DEF I_!Underway
    <3>2. apps = Lists
      BY <1>1, <3>1 DEF Fetched
    <3> QED  BY <1>1, <2>1, <2>4, <3>1, <3>2 DEF Fetched, I_!OffDuty
  <2> QED  BY <1>1, <1>2, <1>3, <2>1, <2>2, <2>3, <2>5, <2>6, ApplicationStep
<1>4. CASE I_!Do(h, I_!Load(I_!OffDuty, TRUE)) /\ I_!Meets(h, I_!Stale)
  <2>1. PICK w : w = [at |-> "load", of |-> "welfare", next |-> I_!OffDuty, answered |-> TRUE]
    OBVIOUS
  <2>2. I_!Do(h, w) /\ "astray" \notin I_!Stale
    BY <1>4, <2>1 DEF I_!Load, I_!Stale, I_!Misdrawn
  <2>3. Stage(w)
    BY <1>2, <2>1 DEF Stage, I_!Underway, I_!AppKinds
  <2>4. IDesk'
    BY <1>1, <1>4, <2>2, Meeting DEF IScreen, IDesk, I_!Stale, I_!Misdrawn
  <2>5. (Drawn(w))' /\ (Fetched(w))'
    BY <1>1, <1>2, <2>1 DEF Drawn, Fetched
  <2> QED  BY <1>1, <1>2, <1>4, <2>2, <2>3, <2>4, <2>5, Meeting, ApplicationStep
<1> QED  BY <1>1, <1>3, <1>4

\* The message is drawn, or Discord refuses it.
LEMMA SheetAppears ==
    ASSUME DInv, IScreen, NEW h \in Officials, view = "applications",
           I_!Appear(h) \/ I_!AppearRefused(h)
    PROVE  IScreen'
<1>1. PICK w : w = IF I_!Appear(h) THEN duty[h].next ELSE I_!OffDuty
  OBVIOUS
<1>2. /\ duty[h].at = "edit" /\ I_!Do(h, w)
      /\ UNCHANGED <<view, fate, kind, apps, issued, current_page>>
      /\ \/ display' = duty[h].view /\ behind' = behind
         \/ display' = display /\ behind' = behind \union {"refused", "astray"}
  BY <1>1 DEF I_!Appear, I_!AppearRefused, I_!applicationVars, I_!licenseVars
<1>3. w.at \in {"idle", "tell"}
  BY <1>1, <1>2 DEF DInv, Sound, I_!OffDuty
<1>4. Stage(w) /\ w.at \notin {"load", "loaded", "edit"}
  BY <1>3 DEF Stage, I_!Underway
<1>5. IDesk'
  <2>1. I_!Cardinality(duty[h].view.apps) <= Rows
    BY <1>2 DEF IScreen, Stage
  <2>2. I_!Cardinality(display'.apps) <= Rows
    BY <1>2, <2>1 DEF IScreen, IDesk
  <2> QED  BY <1>2, <2>2 DEF IScreen, IDesk, I_!Stale, I_!Misdrawn
<1>6. TheSheet' = TheSheet /\ Lists' = Lists
  BY <1>2 DEF TheSheet, Lists, I_!Sheet, I_!Pending
<1>7. ASSUME behind' \intersect I_!Stale = {} PROVE I_!OnDuty = {h} /\ (Drawn(w))'
  <2>1. display' = duty[h].view /\ behind' = behind
    BY <1>2, <1>7 DEF I_!Stale, I_!Misdrawn
  <2>2. I_!OnDuty = {h} /\ Drawn(duty[h])
    BY <1>2, <1>7, <2>1, DutyAlone DEF I_!Underway, I_!Stale, I_!Misdrawn
  <2>3. display' = TheSheet
    BY <1>2, <2>1, <2>2 DEF Drawn
  <2> QED  BY <1>2, <1>4, <1>6, <2>2, <2>3 DEF Drawn
<1>8. ASSUME behind' \intersect {"overlap", "elsewhere", "load"} = {}
      PROVE  I_!OnDuty = {h} /\ (Fetched(w))'
  <2>1. I_!OnDuty = {h} /\ Fetched(duty[h])
    BY <1>2, <1>8, DutyAlone DEF I_!Underway
  <2>2. apps = Lists
    BY <1>2, <2>1 DEF Fetched
  <2> QED  BY <1>2, <1>4, <1>6, <2>1, <2>2 DEF Fetched
<1> QED  BY <1>2, <1>4, <1>5, <1>7, <1>8, ApplicationStep

LEMMA ApplicationsKeep ==
    ASSUME DInv, IScreen, NEW h \in Officials, I_!ApplicationManagementView(h)
    PROVE  IScreen'
<1>1. ASSUME I_!Free(h) PROVE duty[h].at \notin I_!Underway
  BY <1>1 DEF I_!Free, I_!Underway
<1>2. ASSUME NEW a \in Applied, I_!approve_callback(h, a) PROVE IScreen'
  <2>1. view = "applications" /\ I_!Free(h) /\ I_!Decide(h, a, "approved")
    BY <1>2 DEF I_!approve_callback
  <2> QED  BY <1>1, <2>1, DecideKeeps DEF Verdicts
<1>3. ASSUME NEW a \in Applied, I_!reject_callback(h, a) PROVE IScreen'
  <2>1. PICK w : w = [at |-> "form", app |-> a]
    OBVIOUS
  <2>2. /\ view = "applications" /\ I_!Free(h) /\ I_!Do(h, w)
        /\ UNCHANGED <<view, fate, kind, apps, issued, current_page, display, behind>>
    BY <1>3, <2>1 DEF I_!reject_callback, I_!applicationVars, I_!licenseVars
  <2>3. Stage(w) /\ w.at \notin I_!Underway
    BY <2>1, <2>2 DEF Stage, I_!Underway
  <2>4. IDesk'
    BY <2>2 DEF IScreen, IDesk
  <2> QED  BY <1>1, <2>2, <2>3, <2>4, OffDutyStep
<1>4. CASE I_!ApplicationRejectModal(h)
  <2>1. /\ duty[h].at = "form" /\ I_!Decide(h, duty[h].app, "rejected")
        /\ duty[h].app \in Applied
    BY <1>4 DEF I_!ApplicationRejectModal, DInv, Sound
  <2>2. view = "applications" /\ duty[h].at \notin I_!Underway
    BY <2>1 DEF IScreen, IDesk, Stage, I_!Underway
  <2> QED  BY <2>1, <2>2, DecideKeeps DEF Verdicts
<1> QED
  BY <1>2, <1>3, <1>4, FilterDraws, RefreshLoads, ListArrives, ListLands, DecidedKeeps, AnswerKeeps
     DEF I_!ApplicationManagementView

\* Where the page before one that begins within the list begins.
LEMMA PageBefore ==
    ASSUME NEW k \in Int, NEW n \in Nat, (k - 1) * LicensePage < n
    PROVE  (k - 2) * LicensePage < n
<1>1. LicensePage \in Nat \ {0}
  BY PageSizes
<1>2. (k - 1) * LicensePage = (k - 2) * LicensePage + LicensePage
  BY <1>1
<1>3. PICK m \in Int : m = (k - 2) * LicensePage
  BY <1>1
<1> QED  BY <1>1, <1>2, <1>3

\* A page is turned: there is one, as long as nothing led astray.
LEMMA TurnKeeps ==
    ASSUME DInv, IScreen, NEW h \in Officials,
           NEW k \in {current_page - 1, current_page + 1}, I_!turn_page(h, k)
    PROVE  IScreen'
<1>1. PICK w : w = [at |-> "query", page |-> k]
  OBVIOUS
<1>2. /\ view = "licenses" /\ I_!Free(h) /\ I_!Do(h, w) /\ current_page' = k
      /\ \/ k = current_page + 1 /\ display.next
         \/ k = current_page - 1 /\ display.prev
      /\ behind' = IF I_!OnDuty = {} THEN behind \ I_!Stale
                   ELSE behind \union {"overlap", "astray"}
      /\ UNCHANGED <<view, kind, apps, issued, display>>
  BY <1>1 DEF I_!turn_page, I_!applicationVars
<1>3. k \in Int /\ current_page \in Int /\ issued \in Nat /\ LicensePage \in Nat \ {0}
  BY PageSizes DEF IScreen, IDesk
<1>4. Stage(w)
  BY <1>1, <1>2, <1>3 DEF Stage, I_!Underway
<1>5. IDesk'
  BY <1>2, <1>3 DEF IScreen, IDesk, I_!Stale, I_!Misdrawn
<1>6. (Drawn(w))' /\ (Ahead(w))'
  BY <1>1, <1>2 DEF Drawn, Ahead
<1>7. ASSUME behind' \intersect I_!Stale = {} PROVE I_!OnDuty = {}
  BY <1>2, <1>7 DEF I_!Stale, I_!Misdrawn
<1>8. ASSUME "astray" \notin behind'
      PROVE  /\ "astray" \notin behind /\ I_!OnDuty = {}
             /\ current_page' >= 1 /\ (current_page' - 1) * LicensePage < issued
  <2>1. "astray" \notin behind /\ I_!OnDuty = {}
    BY <1>2, <1>8 DEF I_!Stale, I_!Misdrawn
  <2>2. /\ current_page >= 1 /\ (current_page - 1) * LicensePage < issued
        /\ Leads(display)
    BY <1>2, <2>1 DEF IScreen, OnCourse, Ahead, I_!OffDuty
  <2>3. CASE k = current_page + 1 /\ display.next
    <3>1. k - 1 = current_page /\ k >= 1
      BY <1>3, <2>2, <2>3
    <3> QED  BY <1>2, <2>1, <2>2, <2>3, <3>1 DEF Leads
  <2>4. CASE k = current_page - 1 /\ display.prev
    <3>1. k >= 1 /\ k - 1 = current_page - 2
      BY <1>3, <2>2, <2>4 DEF Leads
    <3>2. (current_page - 2) * LicensePage < issued
      BY <1>3, <2>2, PageBefore
    <3> QED  BY <1>2, <2>1, <3>1, <3>2
  <2> QED  BY <1>2, <2>3, <2>4
<1> QED  BY <1>2, <1>4, <1>5, <1>6, <1>7, <1>8, LicenseStep

LEMMA LicensesKeep ==
    ASSUME DInv, IScreen, NEW h \in Officials,
           \/ I_!refresh_licenses(h) \/ I_!list_business_licenses(h)
           \/ I_!ListRefused(h) \/ I_!_refresh_list(h)
    PROVE  IScreen'
<1>1. /\ UNCHANGED <<view, kind, apps, issued, current_page, display>>
      /\ duty[h].at \in {"idle", "query", "listed"}
  BY DEF I_!refresh_licenses, I_!list_business_licenses, I_!ListRefused, I_!_refresh_list,
         I_!applicationVars, I_!licenseVars, I_!Free
<1>2. view = "licenses"
  BY DEF IScreen, IDesk, Stage, I_!refresh_licenses, I_!list_business_licenses,
         I_!ListRefused, I_!_refresh_list
<1>3. ThePage' = ThePage /\ I_!Listed(current_page)' = I_!Listed(current_page)
  BY <1>1 DEF ThePage, I_!Listed
<1>4. current_page \in Int /\ issued \in Nat /\ LicensePage \in Nat \ {0}
  BY PageSizes DEF IScreen, IDesk
<1>5. "astray" \notin behind =>
        current_page' >= 1 /\ (current_page' - 1) * LicensePage < issued'
  BY <1>1, <1>2 DEF IScreen, OnCourse
<1>6. ASSUME NEW b, behind' = b, b \subseteq I_!Stale \union {"astray"} PROVE IDesk'
  BY <1>1, <1>6 DEF IScreen, IDesk, I_!Stale, I_!Misdrawn
<1>7. behind \subseteq I_!Stale \union {"astray"}
  BY DEF IScreen, IDesk
<1>8. CASE I_!refresh_licenses(h)
  <2>1. PICK w : w = [at |-> "query", page |-> current_page]
    OBVIOUS
  <2>2. I_!Do(h, w) /\ I_!Meets(h, I_!Stale) /\ "astray" \notin I_!Stale
    BY <1>8, <2>1 DEF I_!refresh_licenses, I_!Stale, I_!Misdrawn
  <2>3. Stage(w)
    BY <1>2, <1>4, <2>1 DEF Stage, I_!Underway
  <2>4. IDesk'
    BY <1>6, <2>2, Meeting
  <2>5. (Drawn(w))' /\ (Ahead(w))'
    BY <1>1, <1>2, <2>1 DEF Drawn, Ahead
  <2>6. /\ behind' \intersect I_!Stale = {} => I_!OnDuty \subseteq {h}
        /\ "astray" \in behind => "astray" \in behind'
    BY <2>2, Meeting
  <2> QED  BY <1>1, <1>2, <1>5, <2>2, <2>3, <2>4, <2>5, <2>6, LicenseStep
<1>9. CASE I_!list_business_licenses(h)
  <2>1. PICK w : w = [at |-> "listed", list |-> I_!Listed(duty[h].page)]
    OBVIOUS
  <2>2. I_!Do(h, w) /\ duty[h].at = "query" /\ behind' = behind
    BY <1>9, <2>1 DEF I_!list_business_licenses
  <2>3. Stage(w)
    BY <1>2, <2>1 DEF Stage, I_!Underway
  <2>4. IDesk'
    BY <1>6, <1>7, <2>2
  <2>5. ASSUME behind \intersect I_!Stale = {} PROVE I_!OnDuty = {h} /\ (Drawn(w))'
    <3>1. I_!OnDuty = {h} /\ Drawn(duty[h])
      BY <2>2, <2>5, DutyAlone DEF I_!Underway
    <3>2. w.list = I_!Listed(current_page)
      BY <1>2, <2>1, <2>2, <3>1 DEF Drawn
    <3> QED  BY <1>1, <1>2, <1>3, <2>1, <3>1, <3>2 DEF Drawn
  <2>6. ASSUME "astray" \notin behind PROVE (Ahead(w))'
    <3>1. duty[h].page = current_page
      BY <1>2, <2>2, <2>6, DutyAlone DEF I_!Underway, Ahead
    <3>2. w.list.total = issued
      BY <1>1, <1>5, <2>1, <2>6, <3>1 DEF I_!Listed
    <3> QED  BY <1>1, <2>1, <3>2 DEF Ahead
  <2>7. I_!Stale' = I_!Stale
    BY DEF I_!Stale, I_!Misdrawn
  <2> QED  BY <1>1, <1>2, <1>5, <2>2, <2>3, <2>4, <2>5, <2>6, <2>7, LicenseStep
<1>10. CASE I_!ListRefused(h)
  <2>1. PICK w : w = I_!OffDuty
    OBVIOUS
  <2>2. I_!Do(h, w) /\ behind' = behind \union {"refused", "astray"}
    BY <1>10, <2>1 DEF I_!ListRefused
  <2>3. Stage(w)
    BY <2>1 DEF Stage, I_!OffDuty
  <2>4. "refused" \in I_!Stale
    BY DEF I_!Stale, I_!Misdrawn
  <2>5. IDesk'
    BY <1>6, <1>7, <2>2, <2>4
  <2> QED  BY <1>1, <1>2, <2>2, <2>3, <2>4, <2>5, LicenseStep
<1>11. CASE I_!_refresh_list(h)
  <2>1. PICK w : w = [at |-> "edit", next |-> I_!OffDuty, answered |-> FALSE,
                      view |-> I_!Book(duty[h].list, current_page)]
    OBVIOUS
  <2>2. I_!Do(h, w) /\ duty[h].at = "listed" /\ I_!Meets(h, {})
    BY <1>11, <2>1 DEF I_!_refresh_list
  <2>3. Stage(w)
    BY <1>2, <2>1 DEF Stage, I_!Underway
  <2>4. IDesk'
    BY <1>6, <2>2, Meeting
  <2>5. ASSUME behind' \intersect I_!Stale = {} PROVE I_!OnDuty = {h} /\ (Drawn(w))'
    <3>1. behind' = behind
      BY <2>2, <2>5, Meeting
    <3>2. I_!OnDuty = {h} /\ Drawn(duty[h])
      BY <2>2, <2>5, <3>1, DutyAlone DEF I_!Underway
    <3>3. w.view = ThePage
      BY <1>2, <2>1, <2>2, <3>2 DEF Drawn, ThePage
    <3> QED  BY <1>1, <1>2, <1>3, <2>1, <3>2, <3>3 DEF Drawn
  <2>6. ASSUME "astray" \notin behind PROVE (Ahead(w))'
    <3>1. current_page * LicensePage < duty[h].list.total
            => current_page * LicensePage < issued
      BY <1>2, <2>2, <2>6, DutyAlone DEF I_!Underway, Ahead
    <3>2. Leads(w.view)
      BY <2>1, <3>1 DEF Leads, I_!Book
    <3>3. (Leads(w.view))'
      BY <1>1, <3>2 DEF Leads
    <3> QED  BY <2>1, <3>3 DEF Ahead
  <2>7. "astray" \in behind => "astray" \in behind'
    BY <2>2, Meeting
  <2> QED  BY <1>1, <1>2, <1>5, <2>2, <2>3, <2>4, <2>5, <2>6, <2>7, LicenseStep
<1> QED  BY <1>8, <1>9, <1>10, <1>11

\* The page is drawn, or Discord refuses it.
LEMMA BookAppears ==
    ASSUME DInv, IScreen, NEW h \in Officials, view = "licenses",
           I_!Appear(h) \/ I_!AppearRefused(h)
    PROVE  IScreen'
<1>1. PICK w : w = I_!OffDuty
  OBVIOUS
<1>2. /\ duty[h].at = "edit" /\ I_!Do(h, w)
      /\ UNCHANGED <<view, kind, apps, issued, current_page>>
      /\ \/ display' = duty[h].view /\ behind' = behind
         \/ display' = display /\ behind' = behind \union {"refused", "astray"}
  <2>1. duty[h].at = "edit" => duty[h].next = I_!OffDuty
    BY DEF IScreen, Stage
  <2> QED  BY <1>1, <2>1 DEF I_!Appear, I_!AppearRefused, I_!applicationVars, I_!licenseVars
<1>3. Stage(w) /\ w.at = "idle"
  BY <1>1 DEF Stage, I_!OffDuty
<1>4. IDesk'
  BY <1>2 DEF IScreen, IDesk, I_!Stale, I_!Misdrawn
<1>5. ThePage' = ThePage
  BY <1>2 DEF ThePage, I_!Listed
<1>6. ASSUME behind' \intersect I_!Stale = {} PROVE I_!OnDuty = {h} /\ (Drawn(w))'
  <2>1. display' = duty[h].view /\ behind' = behind
    BY <1>2, <1>6 DEF I_!Stale, I_!Misdrawn
  <2>2. I_!OnDuty = {h} /\ Drawn(duty[h])
    BY <1>2, <1>6, <2>1, DutyAlone DEF I_!Underway, I_!Stale, I_!Misdrawn
  <2>3. display' = ThePage
    BY <1>2, <2>1, <2>2 DEF Drawn
  <2> QED  BY <1>2, <1>3, <1>5, <2>2, <2>3 DEF Drawn
<1>7. ASSUME "astray" \notin behind'
      PROVE  /\ "astray" \notin behind
             /\ current_page' >= 1 /\ (current_page' - 1) * LicensePage < issued'
             /\ (Ahead(w))'
  <2>1. display' = duty[h].view /\ "astray" \notin behind
    BY <1>2, <1>7
  <2>2. Leads(duty[h].view)
    BY <1>2, <2>1, DutyAlone DEF I_!Underway, Ahead
  <2>3. Leads(display)'
    BY <1>2, <2>1, <2>2 DEF Leads
  <2>4. current_page' >= 1 /\ (current_page' - 1) * LicensePage < issued'
    BY <1>2, <2>1 DEF IScreen, OnCourse
  <2> QED  BY <1>3, <2>1, <2>3, <2>4 DEF Ahead
<1> QED  BY <1>2, <1>3, <1>4, <1>6, <1>7, LicenseStep

\* A licence is issued elsewhere.
LEMMA IssueKeeps == ASSUME DInv, IScreen, I_!BusinessLicenseIssueModal PROVE IScreen'
<1>1. /\ view = "licenses" /\ issued' = issued + 1 /\ behind' = behind \union {"elsewhere"}
      /\ UNCHANGED <<view, kind, apps, current_page, display, duty>>
  BY DEF I_!BusinessLicenseIssueModal, I_!applicationVars
<1>2. issued \in Nat /\ current_page \in Int /\ LicensePage \in Nat \ {0}
  BY PageSizes DEF IScreen, IDesk
<1>3. (\A h \in Officials : Stage(duty[h]))'
  BY <1>1 DEF IScreen, Stage
<1>4. IDesk'
  BY <1>1, <1>2 DEF IScreen, IDesk, I_!Stale, I_!Misdrawn
<1>5. DrawnAlone' /\ LoadedAlone'
  BY <1>1 DEF DrawnAlone, LoadedAlone, I_!Stale
<1>6. OnCourse'
  <2> SUFFICES ASSUME "astray" \notin behind'
               PROVE  /\ current_page >= 1 /\ (current_page - 1) * LicensePage < issued'
                      /\ \A h \in I_!OnDuty : (Ahead(duty[h]))'
                      /\ I_!OnDuty = {} => (Ahead(I_!OffDuty))'
    BY <1>1 DEF OnCourse, I_!OnDuty
  <2>1. /\ current_page >= 1 /\ (current_page - 1) * LicensePage < issued
        /\ \A h \in I_!OnDuty : Ahead(duty[h])
        /\ I_!OnDuty = {} => Ahead(I_!OffDuty)
    BY <1>1 DEF IScreen, OnCourse
  <2>2. (current_page - 1) * LicensePage \in Int /\ current_page * LicensePage \in Int
    BY <1>2
  <2>3. ASSUME NEW m \in Int, m < issued PROVE m < issued'
    BY <1>1, <1>2, <2>3
  <2>4. ASSUME NEW w, Ahead(w) PROVE (Ahead(w))'
    BY <1>1, <2>2, <2>3, <2>4 DEF Ahead, Leads
  <2>5. ASSUME NEW h \in I_!OnDuty PROVE (Ahead(duty[h]))'
    <3>1. PICK w : w = duty[h]
      OBVIOUS
    <3>2. (Ahead(w))'
      BY <2>1, <2>4, <2>5, <3>1
    <3> QED  BY <1>1, <3>1, <3>2 DEF Ahead
  <2>6. ASSUME I_!OnDuty = {} PROVE (Ahead(I_!OffDuty))'
    <3>1. PICK w : w = I_!OffDuty
      OBVIOUS
    <3>2. (Ahead(w))'
      BY <2>1, <2>4, <2>6, <3>1
    <3> QED  BY <3>1, <3>2 DEF Ahead, I_!OffDuty
  <2> QED  BY <2>1, <2>2, <2>3, <2>5, <2>6
<1> QED  BY <1>3, <1>4, <1>5, <1>6 DEF IScreen

LEMMA IScreenKept == DInv /\ IScreen /\ [I_!Next]_(I_!interiorVars) => IScreen'
<1> SUFFICES ASSUME DInv, IScreen, [I_!Next]_(I_!interiorVars) PROVE IScreen'
  OBVIOUS
<1>1. CASE UNCHANGED I_!interiorVars
  <2>1. UNCHANGED <<view, fate, kind, apps, issued, current_page, display, duty, behind>>
    BY <1>1 DEF I_!interiorVars, I_!applicationVars, I_!licenseVars
  <2>2. TheSheet' = TheSheet /\ ThePage' = ThePage /\ Lists' = Lists
    BY <2>1 DEF TheSheet, ThePage, Lists, I_!Sheet, I_!Listed, I_!Pending
  <2>3. I_!OnDuty' = I_!OnDuty
    BY <2>1 DEF I_!OnDuty
  <2>4. IDesk' /\ (\A h \in Officials : Stage(duty[h]))'
    BY <2>1 DEF IScreen, IDesk, Stage, I_!Stale, I_!Misdrawn
  <2>5. DrawnAlone'
    BY <2>1, <2>2, <2>3 DEF IScreen, DrawnAlone, Alone, Drawn, I_!Stale, I_!Misdrawn, I_!Listed
  <2>6. LoadedAlone'
    BY <2>1, <2>2, <2>3 DEF IScreen, LoadedAlone, Alone, Fetched, I_!Pending
  <2>7. OnCourse'
    BY <2>1, <2>3 DEF IScreen, OnCourse, Ahead, Leads
  <2> QED  BY <2>4, <2>5, <2>6, <2>7 DEF IScreen
<1>2. ASSUME NEW h \in Officials, I_!BusinessLicenseListView(h) PROVE IScreen'
  BY <1>2, TurnKeeps, LicensesKeep DEF I_!BusinessLicenseListView
<1>3. ASSUME NEW h \in Officials, I_!Appear(h) \/ I_!AppearRefused(h) PROVE IScreen'
  BY <1>3, SheetAppears, BookAppears DEF IScreen, IDesk
<1>4. ASSUME NEW a \in Applied, NEW what \in {"pending", "approved", "rejected"},
             I_!Happens(a, what)
      PROVE  IScreen'
  <2>1. /\ view = "applications" /\ behind' = behind \union {"elsewhere"}
        /\ UNCHANGED <<view, kind, apps, issued, current_page, display, duty>>
    BY <1>4 DEF I_!Happens, I_!licenseVars
  <2>2. IDesk' /\ "elsewhere" \in I_!Stale
    BY <2>1 DEF IScreen, IDesk, I_!Stale, I_!Misdrawn
  <2> QED  BY <2>1, <2>2, OffDutyStep
<1> QED  BY <1>1, <1>2, <1>3, <1>4, ApplicationsKeep, IssueKeeps DEF I_!Next

LEMMA InteriorScreens ==
    MCSpec => [](I_!TypeOK /\ I_!PendingAreShown /\ I_!LicensesAreShown)
<1>1. DInv /\ IScreen => I_!TypeOK /\ I_!PendingAreShown /\ I_!LicensesAreShown
  BY IScreenShows
<1>2. I_!Init => DInv /\ IScreen
  BY DInvAtFirst, IScreenAtFirst
<1>3. DInv /\ IScreen /\ [I_!Next]_(I_!interiorVars) => (DInv /\ IScreen)'
  BY DInvKept, IScreenKept
<1>4. MCSpec => I_!Spec
  BY Interior_
<1> QED  BY <1>1, <1>2, <1>3, <1>4, PTL DEF I_!Spec

-----------------------------------------------------------------------------
(* What all the desks show *)

\* Types, and what each screen shows when nothing is at work: the suspects there
\* are (_sanitize_state and the panel's callbacks); messages that reach a proposal;
\* the tab with its buttons, and the author's applications (PersonalPanelView); the
\* applications that wait, and the licences of the page that it names
\* (ApplicationManagementView, BusinessLicenseListView) - however callbacks,
\* refusals and others' work interleave.
THEOREM TrueScreens == MCSpec => []ScreensAreTrue
<1>1. ASSUME S_!TypeOK, S_!PanelShowsTheSuspects, V_!TypeOK, P_!TypeOK,
             P_!ScreenShowsItsTab, P_!ApplicationsAreListed,
             I_!TypeOK, I_!PendingAreShown, I_!LicensesAreShown
      PROVE  ScreensAreTrue
  <2>1. CASE desk = "suspects"
    BY <1>1, <2>1, Zenon DEF ScreensAreTrue
  <2>2. CASE desk = "voting"
    BY <1>1, <2>2, Zenon DEF ScreensAreTrue
  <2>3. CASE desk = "personal"
    BY <1>1, <2>3, Zenon DEF ScreensAreTrue
  <2>4. CASE desk = "interior"
    BY <1>1, <2>4, Zenon DEF ScreensAreTrue
  <2>5. CASE desk \notin {"suspects", "voting", "personal", "interior"}
    BY <2>5, Zenon DEF ScreensAreTrue
  <2> QED  BY <2>1, <2>2, <2>3, <2>4, <2>5
<1>2. /\ S_!TypeOK /\ S_!PanelShowsTheSuspects /\ V_!TypeOK
      /\ P_!TypeOK /\ P_!ScreenShowsItsTab /\ P_!ApplicationsAreListed
      /\ I_!TypeOK /\ I_!PendingAreShown /\ I_!LicensesAreShown
      => ScreensAreTrue
  BY <1>1
<1> QED
  BY <1>2, SuspectScreens, VotingScreens, PersonalScreens, InteriorScreens, PTL

=============================================================================

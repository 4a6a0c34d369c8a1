---------------------------- MODULE Applications ----------------------------
(***************************************************************************)
(* Applications for welfare and for business licences, from the form of    *)
(* the member to the decision of the interior department                   *)
(* (ApplicationService), and the licences themselves.                      *)
(*                                                                         *)
(* A welfare approval is one transaction that pays, through                *)
(* StateCouncilService, on a second connection.  A licence is approved in  *)
(* four statements that commit one by one.  The payment is one step here:  *)
(* module Treasury has its statements and shows that it is made and        *)
(* recorded as a whole or not at all.  A panel that lists pending          *)
(* applications may be old: a button acts on any application, decided or   *)
(* not.                                                                    *)
(***************************************************************************)
EXTENDS Integers, Sequences, FiniteSets

CONSTANTS
    Members,      \* applicants
    Amounts,      \* amounts of welfare they apply for
    Types,        \* types of licences
    Callers,      \* calls in progress at the same time, at most
    Connections,  \* size of the connection pool
    InitialFunds, \* balance of the interior department
    MaxApps,      \* bound: applications and direct issues
    MaxReviews,   \* bound: approvals and rejections
    MaxFaults     \* bound: lost connections

ASSUME ApplicationsAssumption ==
    /\ IsFiniteSet(Members) /\ IsFiniteSet(Types) /\ IsFiniteSet(Callers)
    /\ Amounts \subseteq Nat \ {0} /\ IsFiniteSet(Amounts)
    /\ Connections \in Nat /\ Connections > Cardinality(Callers)
    /\ {InitialFunds, MaxApps, MaxReviews, MaxFaults} \subseteq Nat

VARIABLES
    apps,     \* the two tables of applications, as one sequence
    licenses, \* governance.business_licenses, in the order of issue
    funds,    \* balance of the interior department
    paid,     \* paid[i]: payments made for application i, a history
    lost,     \* lost[i]: those whose approval was lost after them, a history
    crossed,  \* applications on which two calls met or one was cut off
    at,       \* at[p]: the statement that caller p is about to run
    on,       \* on[p]: the application it works on
    form,     \* form[p]: the form that it submits
    made      \* applications, reviews and faults so far

tables == <<apps, licenses, funds>>
history == <<paid, lost, crossed>>
control == <<at, on, form>>
vars == <<tables, history, control, made>>

Welfare(m, n) == [kind |-> "welfare", by |-> m, amount |-> n, type |-> "none", status |-> "pending"]
License(m, t) == [kind |-> "license", by |-> m, amount |-> 0, type |-> t, status |-> "pending"]
NoForm == [kind |-> "none"]

Init ==
    /\ apps = <<>> /\ licenses = <<>> /\ funds = InitialFunds
    /\ paid = <<>> /\ lost = <<>> /\ crossed = {}
    /\ at = [p \in Callers |-> "idle"]
    /\ on = [p \in Callers |-> 0]
    /\ form = [p \in Callers |-> NoForm]
    /\ made = [apps |-> 0, reviews |-> 0, faults |-> 0]

-----------------------------------------------------------------------------
(* Tables, connections and calls *)

Idle(p) == at[p] = "idle"
Pending(i) == apps[i].status = "pending"

\* check_pending_application and check_active_license
HasPending(m, t) ==
    \E i \in DOMAIN apps : apps[i].kind = "license" /\ apps[i].by = m
                           /\ apps[i].type = t /\ Pending(i)
HasValid(m, t) ==
    \E l \in DOMAIN licenses : licenses[l].user = m /\ licenses[l].type = t
                               /\ licenses[l].status = "active" /\ ~licenses[l].overdue

\* The unique index takes a licence past its term for active until
\* fn_expire_business_licenses has run.
HasActive(m, t) ==
    \E l \in DOMAIN licenses : licenses[l].user = m /\ licenses[l].type = t
                               /\ licenses[l].status = "active"

\* The row of a welfare application is locked from its UPDATE to the commit.
Locked(i) == \E p \in Callers : on[p] = i /\ at[p] \in {"borrow", "pay", "commit"}

\* A call in progress has a connection, and one more while it pays.
Connected == {p \in Callers : at[p] \notin {"idle", "acquire"}}
Disbursing == {p \in Callers : at[p] = "pay"}
Free == Connections - Cardinality(Connected) - Cardinality(Disbursing)

Count(what, max) == made[what] < max /\ made' = [made EXCEPT ![what] = @ + 1]
Goto(p, step) == at' = [at EXCEPT ![p] = step]
Return(p) ==
    /\ Goto(p, "idle")
    /\ on' = [on EXCEPT ![p] = 0]
    /\ form' = [form EXCEPT ![p] = NoForm]
File(app) ==
    /\ apps' = Append(apps, app)
    /\ paid' = Append(paid, 0) /\ lost' = Append(lost, 0)
Decide(i, status) == apps' = [apps EXCEPT ![i].status = status]
Others(p, i) == {q \in Callers \ {p} : on[q] = i}
Cross(p, i) == crossed' = IF Others(p, i) = {} THEN crossed ELSE crossed \cup {i}

-----------------------------------------------------------------------------
(* Submissions *)

\* submit_welfare_application: one INSERT.
submit_welfare_application(m, n) ==
    /\ Count("apps", MaxApps)
    /\ File(Welfare(m, n))
    /\ UNCHANGED <<licenses, funds, crossed, control>>

\* submit_license_application looks for a pending application, then for a valid
\* licence, then inserts.
StartSubmit(p, m, t) ==
    /\ Idle(p) /\ Count("apps", MaxApps)
    /\ Goto(p, "acquire")
    /\ form' = [form EXCEPT ![p] = License(m, t)]
    /\ UNCHANGED <<tables, history, on>>

CheckPending(p) ==
    /\ at[p] = "checkPending"
    /\ IF HasPending(form[p].by, form[p].type)
       THEN Return(p)
       ELSE Goto(p, "checkValid") /\ UNCHANGED <<on, form>>
    /\ UNCHANGED <<tables, history, made>>

CheckValid(p) ==
    /\ at[p] = "checkValid"
    /\ IF HasValid(form[p].by, form[p].type)
       THEN Return(p)
       ELSE Goto(p, "insert") /\ UNCHANGED <<on, form>>
    /\ UNCHANGED <<tables, history, made>>

Insert(p) ==
    /\ at[p] = "insert"
    /\ File(form[p])
    /\ Return(p)
    /\ UNCHANGED <<licenses, funds, crossed, made>>

submit_license_application(p) ==
    form[p].kind = "license" /\ (CheckPending(p) \/ CheckValid(p) \/ Insert(p))

-----------------------------------------------------------------------------
(* Reviews: the buttons of ApplicationManagementView *)

StartApprove(p, i) ==
    /\ Idle(p) /\ Count("reviews", MaxReviews)
    /\ Goto(p, "acquire")
    /\ on' = [on EXCEPT ![p] = i]
    /\ Cross(p, i)
    /\ UNCHANGED <<tables, paid, lost, form>>

Acquire(p) ==
    /\ at[p] = "acquire" /\ Free > 0
    /\ Goto(p, IF on[p] = 0 THEN "checkPending" ELSE "read")
    /\ UNCHANGED <<tables, history, on, form, made>>

\* get_application, without a lock.
Read(p) ==
    /\ at[p] = "read"
    /\ IF ~Pending(on[p])
       THEN Return(p)
       ELSE /\ Goto(p, IF apps[on[p]].kind = "welfare" THEN "update" ELSE "check")
            /\ UNCHANGED <<on, form>>
    /\ UNCHANGED <<tables, history, made>>

\* Mutant of Update: the row is not required to be pending any more.
UpdateAnyway(p) ==
    /\ at[p] = "update" /\ ~Locked(on[p])
    /\ Goto(p, "borrow")
    /\ UNCHANGED <<tables, history, on, form, made>>

\* approve_application in the transaction of the call: the row is locked, and
\* the status that the others see changes with the commit.
Update(p) ==
    /\ at[p] = "update" /\ ~Locked(on[p])
    /\ IF Pending(on[p])
       THEN Goto(p, "borrow") /\ UNCHANGED <<on, form>>
       ELSE Return(p)
    /\ UNCHANGED <<tables, history, made>>

\* Mutant of Borrow: the permission check takes one more, inside.
BorrowTwo(p) ==
    /\ at[p] = "borrow" /\ Free > 1
    /\ Goto(p, "pay")
    /\ UNCHANGED <<tables, history, on, form, made>>

\* disburse_welfare takes a connection of its own.
Borrow(p) ==
    /\ at[p] = "borrow" /\ Free > 0
    /\ Goto(p, "pay")
    /\ UNCHANGED <<tables, history, on, form, made>>

\* It commits the payment by itself, or raises and the approval is rolled back:
\* without funds, and whenever a permission, a limit or a throttle says so.
Pay(p) ==
    LET i == on[p]
    IN  /\ at[p] = "pay"
        /\ \/ /\ funds >= apps[i].amount
              /\ funds' = funds - apps[i].amount
              /\ paid' = [paid EXCEPT ![i] = @ + 1]
              /\ Goto(p, "commit") /\ UNCHANGED <<on, form>>
           \/ Return(p) /\ UNCHANGED <<funds, paid>>
        /\ UNCHANGED <<apps, licenses, lost, crossed, made>>

Commit(p) ==
    /\ at[p] = "commit"
    /\ Decide(on[p], "approved")
    /\ Return(p)
    /\ UNCHANGED <<licenses, funds, history, made>>

\* Mutant of reject_application: whatever the application is, it is rejected.
RejectAnyway(i) ==
    /\ ~Locked(i) /\ Count("reviews", MaxReviews)
    /\ Decide(i, "rejected")
    /\ crossed' = IF \E p \in Callers : on[p] = i THEN crossed \cup {i} ELSE crossed
    /\ UNCHANGED <<licenses, funds, paid, lost, control>>

\* reject_welfare_application, reject_license_application: one UPDATE of a row
\* that is pending; it waits for a locked one.
reject_application(i) ==
    /\ ~Locked(i) /\ Pending(i) /\ Count("reviews", MaxReviews)
    /\ Decide(i, "rejected")
    /\ crossed' = IF \E p \in Callers : on[p] = i THEN crossed \cup {i} ELSE crossed
    /\ UNCHANGED <<licenses, funds, paid, lost, control>>

approve_welfare_application(p) ==
    /\ on[p] # 0 /\ apps[on[p]].kind = "welfare"
    /\ Read(p) \/ Update(p) \/ Borrow(p) \/ Pay(p) \/ Commit(p)

-----------------------------------------------------------------------------
(* Licences *)

Licence(m, t, i) ==
    [user |-> m, type |-> t, status |-> "active", overdue |-> FALSE, for |-> i]

\* fn_issue_business_license counts, then inserts; the index refuses the second
\* of two that count at once.
fn_issue_business_license(m, t, i) ==
    /\ ~HasActive(m, t)
    /\ licenses' = Append(licenses, Licence(m, t, i))

Check(p) ==
    LET app == apps[on[p]]
    IN  /\ at[p] = "check"
        /\ IF HasValid(app.by, app.type)
           THEN Return(p)
           ELSE Goto(p, "issue") /\ UNCHANGED <<on, form>>
        /\ UNCHANGED <<tables, history, made>>

Issue(p) ==
    LET app == apps[on[p]]
    IN  /\ at[p] = "issue"
        /\ \/ /\ fn_issue_business_license(app.by, app.type, on[p])
              /\ Goto(p, "approve") /\ UNCHANGED <<on, form>>
           \/ HasActive(app.by, app.type) /\ Return(p) /\ UNCHANGED licenses
        /\ UNCHANGED <<apps, funds, history, made>>

\* The licence is out: an application rejected in the meantime stays rejected.
Approve(p) ==
    /\ at[p] = "approve"
    /\ IF Pending(on[p]) THEN Decide(on[p], "approved") ELSE UNCHANGED apps
    /\ Return(p)
    /\ UNCHANGED <<licenses, funds, history, made>>

approve_license_application(p) ==
    /\ on[p] # 0 /\ apps[on[p]].kind = "license"
    /\ Read(p) \/ Check(p) \/ Issue(p) \/ Approve(p)

\* issue_business_license of the interior panel, without an application.
issue_business_license(m, t) ==
    /\ Count("apps", MaxApps)
    /\ fn_issue_business_license(m, t, 0)
    /\ UNCHANGED <<apps, funds, history, control>>

fn_revoke_business_license(l) ==
    /\ licenses[l].status = "active" /\ Count("reviews", MaxReviews)
    /\ licenses' = [licenses EXCEPT ![l].status = "revoked"]
    /\ UNCHANGED <<apps, funds, history, control>>

TermEnds(l) ==
    /\ licenses[l].status = "active" /\ ~licenses[l].overdue
    /\ licenses' = [licenses EXCEPT ![l].overdue = TRUE]
    /\ UNCHANGED <<apps, funds, history, control, made>>

\* fn_expire_business_licenses, if something calls it: nothing in the bot does.
fn_expire_business_licenses ==
    /\ \E l \in DOMAIN licenses : licenses[l].status = "active" /\ licenses[l].overdue
    /\ licenses' = [l \in DOMAIN licenses |->
                       IF licenses[l].status = "active" /\ licenses[l].overdue
                       THEN [licenses[l] EXCEPT !.status = "expired"] ELSE licenses[l]]
    /\ UNCHANGED <<apps, funds, history, control, made>>

-----------------------------------------------------------------------------
\* The connection of a call is lost, or the bot is stopped: what it has
\* committed stays, and so does a payment.
Fail(p) ==
    /\ p \in Connected /\ Count("faults", MaxFaults)
    /\ lost' = IF at[p] = "commit" THEN [lost EXCEPT ![on[p]] = @ + 1] ELSE lost
    /\ crossed' = IF on[p] = 0 THEN crossed ELSE crossed \cup {on[p]}
    /\ Return(p)
    /\ UNCHANGED <<tables, paid>>

Step(p) ==
    \/ Acquire(p)
    \/ submit_license_application(p)
    \/ approve_welfare_application(p) \/ approve_license_application(p)

Next ==
    \/ \E p \in Callers : Step(p) \/ Fail(p)
    \/ \E p \in Callers, i \in DOMAIN apps : StartApprove(p, i)
    \/ \E i \in DOMAIN apps : reject_application(i)
    \/ \E m \in Members, n \in Amounts : submit_welfare_application(m, n)
    \/ \E m \in Members, t \in Types :
          issue_business_license(m, t) \/ \E p \in Callers : StartSubmit(p, m, t)
    \/ \E l \in DOMAIN licenses : fn_revoke_business_license(l) \/ TermEnds(l)
    \/ fn_expire_business_licenses

Spec == Init /\ [][Next]_vars

\* Statements return and connections and locks are handed to those who wait for
\* them in turn; nobody has to press a button, and no licence has to end.
FairSpec == Spec /\ \A p \in Callers : SF_vars(Step(p))

-----------------------------------------------------------------------------
(* Properties *)

Statuses == {"pending", "approved", "rejected"}
Steps == {"idle", "acquire", "checkPending", "checkValid", "insert", "read", "update",
          "borrow", "pay", "commit", "check", "issue", "approve"}

\* Types; the department is never overdrawn and the pool never overdrawn either.
TypeOK ==
    /\ \A i \in DOMAIN apps :
          /\ apps[i].by \in Members /\ apps[i].status \in Statuses
          /\ apps[i].kind = "welfare" => apps[i].amount \in Amounts
          /\ apps[i].kind = "license" => apps[i].type \in Types
    /\ \A l \in DOMAIN licenses :
          licenses[l].status \in {"active", "revoked", "expired"}
    /\ funds \in Nat
    /\ DOMAIN paid = DOMAIN apps /\ DOMAIN lost = DOMAIN apps
    /\ crossed \subseteq DOMAIN apps
    /\ at \in [Callers -> Steps] /\ \A p \in Callers : on[p] \in DOMAIN apps \cup {0}
    /\ Free >= 0

\* A decision is final, whoever else reviews the same application
\* (every UPDATE asks for a row that is pending).
DecisionsAreFinal ==
    [][\A i \in DOMAIN apps : Pending(i) \/ apps'[i] = apps[i]]_vars

\* A welfare application is paid once if it was approved and not at all if not,
\* whoever else approves or rejects it, but for one payment more for each
\* approval that was lost between the payment and its commit.
PaymentsMatchApprovals ==
    \A i \in DOMAIN apps :
        LET paying == {p \in Callers : at[p] = "commit" /\ on[p] = i}
            approved == IF apps[i].kind = "welfare" /\ apps[i].status = "approved" THEN 1 ELSE 0
        IN  paid[i] = approved + lost[i] + Cardinality(paying)

IssuedFor(i) == {l \in DOMAIN licenses : licenses[l].for = i}
Approving(i) == {p \in Callers : at[p] = "approve" /\ on[p] = i}

\* An approved application for a licence has got one; and an application that
\* was reviewed by one at a time, and not cut off, has got one only if it was
\* approved.
LicensesMatchApprovals ==
    \A i \in DOMAIN apps :
        apps[i].kind = "license" =>
            /\ apps[i].status = "approved" => IssuedFor(i) # {}
            /\ i \notin crossed =>
                  Cardinality(IssuedFor(i)) =
                      (IF apps[i].status = "approved" \/ Approving(i) # {} THEN 1 ELSE 0)

\* A member has one active licence of a type at most, however many officers
\* issue and approve at once (the unique index of migration 046).
OneActiveLicense ==
    \A k, l \in DOMAIN licenses :
        /\ licenses[k].status = "active" /\ licenses[l].status = "active"
        /\ licenses[k].user = licenses[l].user /\ licenses[k].type = licenses[l].type
        => k = l

\* The look-up before the insert lets duplicates through only as far as calls
\* run at the same time: one pending application each.
DuplicatesBounded ==
    \A m \in Members, t \in Types :
        Cardinality({i \in DOMAIN apps : apps[i].kind = "license" /\ apps[i].by = m
                                         /\ apps[i].type = t /\ Pending(i)})
            <= Cardinality(Callers)

\* Types, and applications, payments and licences agree, whoever submits and
\* reviews at the same time.
ApprovalsAreHonoured ==
    /\ TypeOK /\ PaymentsMatchApprovals /\ LicensesMatchApprovals
    /\ OneActiveLicense /\ DuplicatesBounded

\* With a pool larger than the number of calls every call ends, although an
\* approval holds one connection while it waits for a second one and for a row.
CallsEnd == \A p \in Callers : at[p] # "idle" ~> at[p] = "idle"

=============================================================================

------------------------- MODULE Applications_proofs -------------------------
(***************************************************************************)
(* For any members, callers and amounts: a decision about an application   *)
(* is final, and applications, payments and licences agree.                *)
(*                                                                         *)
(* Every UPDATE but one asks for a row that is pending; the commit of a    *)
(* welfare approval does not, and relies on the lock that the approval has *)
(* held since it asked (RowsAreHeld).  So one caller at most is about to   *)
(* commit for an application, which makes the count of payments inductive  *)
(* (PInv).  What an uncrossed licence application has got follows from     *)
(* there being one caller on it (OneAtATime, CInv), and duplicates are     *)
(* bounded because whoever is late found none (Bounded).                   *)
(***************************************************************************)
EXTENDS Applications, TLAPS, SequenceTheorems, FiniteSetTheorems

Application ==
    {a \in [kind : {"welfare", "license"}, by : Members, amount : Nat,
            type : Types \cup {"none"}, status : Statuses] :
        /\ a.kind = "welfare" => a.amount \in Amounts
        /\ a.kind = "license" => a.type \in Types}

Typed ==
    /\ apps \in Seq(Application)
    /\ at \in [Callers -> Steps]
    /\ on \in [Callers -> DOMAIN apps \cup {0}]
    /\ form \in [Callers -> Application \cup {NoForm}]

Holds(p) == at[p] \in {"borrow", "pay", "commit"}

\* Whoever is paying for an application holds its row, alone, and it is pending.
RowsAreHeld ==
    \A p \in Callers : Holds(p) =>
        /\ on[p] # 0 /\ apps[on[p]].kind = "welfare" /\ Pending(on[p])
        /\ \A q \in Callers : Holds(q) /\ on[q] = on[p] => q = p

IInv == Typed /\ RowsAreHeld

LEMMA Filing ==
    ASSUME Typed, NEW app \in Application
    PROVE  /\ Append(apps, app) \in Seq(Application)
           /\ DOMAIN apps \subseteq DOMAIN Append(apps, app)
           /\ \A i \in DOMAIN apps : Append(apps, app)[i] = apps[i]
BY DEF Typed

LEMMA Deciding ==
    ASSUME Typed, NEW i \in DOMAIN apps, NEW s \in Statuses, Decide(i, s)
    PROVE  /\ apps' \in Seq(Application)
           /\ DOMAIN apps' = DOMAIN apps
           /\ apps'[i].status = s
           /\ \A j \in DOMAIN apps : apps'[j].kind = apps[j].kind
           /\ \A j \in DOMAIN apps : j # i => apps'[j] = apps[j]
<1> DEFINE new == [apps[i] EXCEPT !.status = s]
<1>1. apps' = [apps EXCEPT ![i] = new]
  BY DEF Decide
<1>2. apps[i] \in Application
  BY DEF Typed
<1>3. new \in Application /\ new.kind = apps[i].kind /\ new.status = s
  BY <1>2 DEF Application
<1> HIDE DEF new
<1> QED  BY <1>1, <1>2, <1>3 DEF Typed

LEMMA IInvAtFirst == Init => IInv
BY DEF Init, IInv, Typed, RowsAreHeld, Holds, Steps

\* Calls that leave the applications alone, and take no row.
LEMMA RowsUnchanged ==
    ASSUME IInv, UNCHANGED apps, Typed',
           \A q \in Callers : Holds(q)' => Holds(q) /\ on'[q] = on[q]
    PROVE  IInv'
BY DEF IInv, RowsAreHeld, Pending

LEMMA Returning ==
    ASSUME IInv, UNCHANGED apps, NEW p \in Callers, Return(p)
    PROVE  IInv'
<1>1. Typed'
  BY DEF IInv, Typed, Return, Goto, Steps
<1>2. \A q \in Callers : Holds(q)' => Holds(q) /\ on'[q] = on[q]
  BY DEF IInv, Typed, Return, Goto, Holds, Steps
<1> QED  BY <1>1, <1>2, RowsUnchanged

LEMMA Going ==
    ASSUME IInv, UNCHANGED <<apps, on, form>>, NEW p \in Callers, NEW step \in Steps,
           Goto(p, step), step \in {"borrow", "pay", "commit"} => Holds(p)
    PROVE  IInv'
<1>1. Typed'
  BY DEF IInv, Typed, Goto, Steps
<1>2. \A q \in Callers : Holds(q)' => Holds(q) /\ on'[q] = on[q]
  BY DEF IInv, Typed, Goto, Holds, Steps
<1> QED  BY <1>1, <1>2, RowsUnchanged

LEMMA IInvKept == IInv /\ [Next]_vars => IInv'
<1> SUFFICES ASSUME IInv, [Next]_vars PROVE IInv'
  OBVIOUS
<1>1. CASE UNCHANGED vars
  BY <1>1 DEF vars, tables, control, IInv, Typed, RowsAreHeld, Holds, Pending
<1>2. ASSUME NEW p \in Callers, Acquire(p) PROVE IInv'
  BY <1>2, Going DEF Acquire, tables, Steps
<1>3. ASSUME NEW p \in Callers, submit_license_application(p) PROVE IInv'
  <2>1. CASE CheckPending(p) \/ CheckValid(p)
    BY <2>1, Returning, Going DEF CheckPending, CheckValid, tables, Steps
  <2>2. CASE Insert(p)
    <3>1. form[p] \in Application
      BY <1>3 DEF submit_license_application, IInv, Typed, NoForm
    <3>2. Typed'
      BY <2>2, <3>1, Filing DEF Insert, File, Return, Goto, IInv, Typed, Steps
    <3>3. RowsAreHeld'
      BY <2>2, <3>1, Filing DEF Insert, File, Return, Goto, IInv, Typed, RowsAreHeld, Holds, Pending, Steps
    <3> QED  BY <3>2, <3>3 DEF IInv
  <2> QED  BY <1>3, <2>1, <2>2 DEF submit_license_application
<1>4. ASSUME NEW p \in Callers, approve_welfare_application(p) PROVE IInv'
  <2>1. CASE Read(p)
    BY <2>1, Returning, Going DEF Read, tables, Steps
  <2>2. CASE Update(p)
    <3>1. CASE ~Pending(on[p])
      BY <2>2, <3>1, Returning DEF Update, tables
    <3>2. CASE Pending(on[p])
      <4>1. Typed' /\ at' = [at EXCEPT ![p] = "borrow"] /\ UNCHANGED <<apps, on>>
        BY <2>2, <3>2 DEF Update, Goto, tables, IInv, Typed, Steps
      <4>2. \A q \in Callers : Holds(q) => on[q] # on[p]
        BY <2>2 DEF Update, Locked, Holds
      <4>3. RowsAreHeld'
        BY <1>4, <3>2, <4>1, <4>2
           DEF approve_welfare_application, IInv, Typed, RowsAreHeld, Holds, Pending
      <4> QED  BY <4>1, <4>3 DEF IInv
    <3> QED  BY <3>1, <3>2
  <2>3. CASE Borrow(p)
    BY <2>3, Going DEF Borrow, tables, Holds, Steps
  <2>4. CASE Pay(p)
    BY <2>4, Returning, Going DEF Pay, Holds, Steps
  <2>5. CASE Commit(p)
    <3>1. Holds(p) /\ on[p] \in DOMAIN apps /\ Decide(on[p], "approved") /\ Return(p)
      BY <1>4, <2>5 DEF Commit, Holds, approve_welfare_application, IInv, Typed
    <3>2. Typed'
      BY <3>1, Deciding DEF Return, Goto, Statuses, IInv, Typed, Steps
    <3>3. \A q \in Callers : Holds(q)' => q # p /\ Holds(q) /\ on'[q] = on[q] /\ on[q] # on[p]
      BY <3>1 DEF Return, Goto, Holds, IInv, Typed, RowsAreHeld, Steps
    <3>4. RowsAreHeld'
      BY <3>1, <3>2, <3>3, Deciding DEF IInv, Typed, RowsAreHeld, Pending, Statuses
    <3> QED  BY <3>2, <3>4 DEF IInv
  <2> QED
    BY <1>4, <2>1, <2>2, <2>3, <2>4, <2>5 DEF approve_welfare_application
<1>5. ASSUME NEW p \in Callers, approve_license_application(p) PROVE IInv'
  <2>1. CASE Read(p) \/ Check(p)
    BY <2>1, Returning, Going DEF Read, Check, tables, Steps
  <2>2. CASE Issue(p)
    BY <2>2, Returning, Going DEF Issue, Steps
  <2>3. CASE Approve(p) /\ ~Pending(on[p])
    BY <2>3, Returning DEF Approve
  <2>4. CASE Approve(p) /\ Pending(on[p])
    <3>1. on[p] \in DOMAIN apps /\ Decide(on[p], "approved") /\ Return(p)
      BY <1>5, <2>4 DEF Approve, approve_license_application, IInv, Typed
    <3>2. Typed'
      BY <3>1, Deciding DEF Return, Goto, Statuses, IInv, Typed, Steps
    <3>3. \A q \in Callers : Holds(q)' => q # p /\ Holds(q) /\ on'[q] = on[q] /\ on[q] # on[p]
      BY <1>5, <3>1
         DEF Return, Goto, Holds, IInv, Typed, RowsAreHeld, approve_license_application, Steps
    <3>4. RowsAreHeld'
      BY <3>1, <3>2, <3>3, Deciding DEF IInv, Typed, RowsAreHeld, Pending, Statuses
    <3> QED  BY <3>2, <3>4 DEF IInv
  <2> QED  BY <1>5, <2>1, <2>2, <2>3, <2>4 DEF approve_license_application
<1>6. ASSUME NEW p \in Callers, Fail(p) PROVE IInv'
  BY <1>6, Returning DEF Fail, tables
<1>7. ASSUME NEW p \in Callers, NEW i \in DOMAIN apps, StartApprove(p, i) PROVE IInv'
  <2>1. Typed'
    BY <1>7 DEF StartApprove, Goto, tables, IInv, Typed, Steps
  <2>2. \A q \in Callers : Holds(q)' => Holds(q) /\ on'[q] = on[q]
    BY <1>7 DEF StartApprove, Goto, Holds, IInv, Typed, Steps
  <2> QED  BY <1>7, <2>1, <2>2, RowsUnchanged DEF StartApprove, tables
<1>8. ASSUME NEW i \in DOMAIN apps, reject_application(i) PROVE IInv'
  <2>1. Decide(i, "rejected") /\ UNCHANGED <<at, on, form>>
    BY <1>8 DEF reject_application, control
  <2>2. Typed'
    BY <2>1, Deciding DEF Statuses, IInv, Typed
  <2>3. \A q \in Callers : Holds(q)' => Holds(q) /\ on[q] # i
    BY <1>8, <2>1 DEF reject_application, Locked, Holds
  <2>4. RowsAreHeld'
    BY <2>1, <2>2, <2>3, Deciding DEF IInv, Typed, RowsAreHeld, Pending, Statuses
  <2> QED  BY <2>2, <2>4 DEF IInv
<1>9. ASSUME NEW m \in Members, NEW n \in Amounts, submit_welfare_application(m, n) PROVE IInv'
  <2>1. Welfare(m, n) \in Application
    BY ApplicationsAssumption DEF Welfare, Application, Statuses
  <2>2. apps' = Append(apps, Welfare(m, n)) /\ UNCHANGED <<at, on, form>>
    BY <1>9 DEF submit_welfare_application, File, control
  <2>3. Typed'
    BY <2>1, <2>2, Filing DEF IInv, Typed
  <2>4. RowsAreHeld'
    BY <2>1, <2>2, Filing DEF IInv, Typed, RowsAreHeld, Holds, Pending
  <2> QED  BY <2>3, <2>4 DEF IInv
<1>10. ASSUME NEW m \in Members, NEW t \in Types, NEW p \in Callers, StartSubmit(p, m, t)
       PROVE IInv'
  <2>1. License(m, t) \in Application
    BY DEF License, Application, Statuses
  <2>2. QED
    <3>1. Typed'
      BY <1>10, <2>1 DEF StartSubmit, Goto, tables, IInv, Typed, Steps
    <3>2. \A q \in Callers : Holds(q)' => Holds(q) /\ on'[q] = on[q]
      BY <1>10 DEF StartSubmit, Goto, Holds, IInv, Typed, Steps
    <3> QED  BY <1>10, <3>1, <3>2, RowsUnchanged DEF StartSubmit, tables
<1>11. ASSUME UNCHANGED <<apps, control>> PROVE IInv'
  BY <1>11 DEF control, IInv, Typed, RowsAreHeld, Holds, Pending
<1>12. ASSUME NEW m \in Members, NEW t \in Types, issue_business_license(m, t) PROVE IInv'
  BY <1>11, <1>12 DEF issue_business_license
<1>13. ASSUME NEW l \in DOMAIN licenses, fn_revoke_business_license(l) \/ TermEnds(l)
       PROVE IInv'
  BY <1>11, <1>13 DEF fn_revoke_business_license, TermEnds
<1>14. CASE fn_expire_business_licenses
  BY <1>11, <1>14 DEF fn_expire_business_licenses
<1> QED
  BY <1>1, <1>2, <1>3, <1>4, <1>5, <1>6, <1>7, <1>8, <1>9, <1>10, <1>12, <1>13, <1>14
     DEF Next, Step

LEMMA Final ==
    ASSUME IInv, [Next]_vars
    PROVE  \A i \in DOMAIN apps : Pending(i) \/ apps'[i] = apps[i]
<1> DEFINE Goal == \A i \in DOMAIN apps : Pending(i) \/ apps'[i] = apps[i]
<1> SUFFICES Goal
  OBVIOUS
<1>1. CASE UNCHANGED vars
  BY <1>1 DEF vars, tables
<1>2. ASSUME NEW i \in DOMAIN apps, NEW s \in Statuses, Pending(i), Decide(i, s) PROVE Goal
  BY <1>2, Deciding DEF IInv
<1>3. ASSUME NEW app \in Application, apps' = Append(apps, app) PROVE Goal
  BY <1>3, Filing DEF IInv
<1>4. ASSUME NEW p \in Callers, submit_license_application(p) PROVE Goal
  <2>1. CASE CheckPending(p) \/ CheckValid(p)
    BY <2>1 DEF CheckPending, CheckValid, tables
  <2>2. CASE Insert(p)
    BY <1>3, <1>4, <2>2 DEF submit_license_application, Insert, File, IInv, Typed, NoForm
  <2> QED  BY <1>4, <2>1, <2>2 DEF submit_license_application
<1>5. ASSUME NEW p \in Callers, approve_welfare_application(p) PROVE Goal
  <2>1. CASE Read(p) \/ Update(p) \/ Borrow(p) \/ Pay(p)
    BY <2>1 DEF Read, Update, Borrow, Pay, tables
  <2>2. CASE Commit(p)
    <3>1. on[p] \in DOMAIN apps /\ Pending(on[p])
      BY <1>5, <2>2 DEF approve_welfare_application, Commit, IInv, Typed, RowsAreHeld, Holds
    <3> QED  BY <1>2, <2>2, <3>1 DEF Commit, Statuses
  <2> QED  BY <1>5, <2>1, <2>2 DEF approve_welfare_application
<1>6. ASSUME NEW p \in Callers, approve_license_application(p) PROVE Goal
  <2>1. CASE Read(p) \/ Check(p) \/ Issue(p)
    BY <2>1 DEF Read, Check, Issue, tables
  <2>2. CASE Approve(p)
    <3>1. on[p] \in DOMAIN apps
      BY <1>6 DEF approve_license_application, IInv, Typed
    <3> QED  BY <1>2, <2>2, <3>1 DEF Approve, Statuses
  <2> QED  BY <1>6, <2>1, <2>2 DEF approve_license_application
<1>7. ASSUME NEW p \in Callers, Acquire(p) \/ Fail(p) PROVE Goal
  BY <1>7 DEF Acquire, Fail, tables
<1>8. ASSUME NEW p \in Callers, NEW i \in DOMAIN apps, StartApprove(p, i) PROVE Goal
  BY <1>8 DEF StartApprove, tables
<1>9. ASSUME NEW i \in DOMAIN apps, reject_application(i) PROVE Goal
  BY <1>2, <1>9 DEF reject_application, Statuses
<1>10. ASSUME NEW m \in Members, NEW n \in Amounts, submit_welfare_application(m, n) PROVE Goal
  <2>1. Welfare(m, n) \in Application
    BY ApplicationsAssumption DEF Welfare, Application, Statuses
  <2> QED  BY <1>3, <1>10, <2>1 DEF submit_welfare_application, File
<1>11. ASSUME NEW m \in Members, NEW t \in Types,
              issue_business_license(m, t) \/ \E p \in Callers : StartSubmit(p, m, t)
       PROVE Goal
  BY <1>11 DEF issue_business_license, StartSubmit, tables
<1>12. ASSUME NEW l \in DOMAIN licenses, fn_revoke_business_license(l) \/ TermEnds(l)
       PROVE Goal
  BY <1>12 DEF fn_revoke_business_license, TermEnds
<1>13. CASE fn_expire_business_licenses
  BY <1>13 DEF fn_expire_business_licenses
<1> QED
  BY <1>1, <1>4, <1>5, <1>6, <1>7, <1>8, <1>9, <1>10, <1>11, <1>12, <1>13 DEF Next, Step

\* An approved or rejected application stays so, however approvals, rejections
\* and lost connections interleave (ApplicationService's UPDATEs).
THEOREM Finality == Spec => DecisionsAreFinal
<1>1. IInv /\ [Next]_vars => [\A i \in DOMAIN apps : Pending(i) \/ apps'[i] = apps[i]]_vars
  BY Final
<1> QED  BY IInvAtFirst, IInvKept, <1>1, PTL DEF Spec, DecisionsAreFinal

-----------------------------------------------------------------------------
(* Payments *)

Commits(p, i) == at[p] = "commit" /\ on[p] = i
Paying(i) == IF \E p \in Callers : Commits(p, i) THEN 1 ELSE 0
Approved(i) == IF apps[i].kind = "welfare" /\ apps[i].status = "approved" THEN 1 ELSE 0

FormsPend == \A p \in Callers : form[p].kind = "license" => form[p].status = "pending"

\* With the row held by one caller at most, those about to commit count as one.
PInv ==
    /\ FormsPend
    /\ paid \in Seq(Nat) /\ lost \in Seq(Nat)
    /\ Len(paid) = Len(apps) /\ Len(lost) = Len(apps)
    /\ \A i \in DOMAIN apps : paid[i] = Approved(i) + lost[i] + Paying(i)

LEMMA Counted ==
    \A i : /\ Paying(i) \in Nat /\ Approved(i) \in Nat
           /\ Paying(i)' \in Nat /\ Approved(i)' \in Nat
BY DEF Paying, Approved

LEMMA PInvAtFirst == Init => PInv
BY DEF Init, PInv, FormsPend, NoForm

LEMMA FormsPendKept == IInv /\ FormsPend /\ [Next]_vars => FormsPend'
<1> SUFFICES ASSUME IInv, FormsPend, [Next]_vars PROVE FormsPend'
  OBVIOUS
<1>1. ASSUME UNCHANGED form PROVE FormsPend'
  BY <1>1 DEF FormsPend
<1>2. ASSUME NEW p \in Callers, Return(p) PROVE FormsPend'
  BY <1>2 DEF Return, FormsPend, NoForm, IInv, Typed
<1>3. ASSUME NEW p \in Callers, NEW m \in Members, NEW t \in Types, StartSubmit(p, m, t)
      PROVE  FormsPend'
  BY <1>3 DEF StartSubmit, License, FormsPend, IInv, Typed
<1>4. ASSUME NEW p \in Callers, Step(p) PROVE FormsPend'
  <2>1. CASE Acquire(p) \/ submit_license_application(p)
    BY <1>1, <1>2, <2>1 DEF Acquire, submit_license_application, CheckPending, CheckValid, Insert
  <2>2. CASE approve_welfare_application(p)
    BY <1>1, <1>2, <2>2 DEF approve_welfare_application, Read, Update, Borrow, Pay, Commit
  <2>3. CASE approve_license_application(p)
    BY <1>1, <1>2, <2>3 DEF approve_license_application, Read, Check, Issue, Approve
  <2> QED  BY <1>4, <2>1, <2>2, <2>3 DEF Step
<1>5. ASSUME NEW p \in Callers, Fail(p) PROVE FormsPend'
  BY <1>2, <1>5 DEF Fail
<1>6. CASE UNCHANGED vars
  BY <1>1, <1>6 DEF vars, control
<1>7. ASSUME NEW p \in Callers, NEW i \in DOMAIN apps, StartApprove(p, i) PROVE FormsPend'
  BY <1>1, <1>7 DEF StartApprove
<1>8. ASSUME UNCHANGED control PROVE FormsPend'
  BY <1>1, <1>8 DEF control
<1>9. ASSUME NEW i \in DOMAIN apps, reject_application(i) PROVE FormsPend'
  BY <1>8, <1>9 DEF reject_application
<1>10. ASSUME NEW m \in Members, NEW n \in Amounts, submit_welfare_application(m, n)
       PROVE  FormsPend'
  BY <1>8, <1>10 DEF submit_welfare_application
<1>11. ASSUME NEW m \in Members, NEW t \in Types, issue_business_license(m, t) PROVE FormsPend'
  BY <1>8, <1>11 DEF issue_business_license
<1>12. ASSUME NEW l \in DOMAIN licenses, fn_revoke_business_license(l) \/ TermEnds(l)
       PROVE  FormsPend'
  BY <1>8, <1>12 DEF fn_revoke_business_license, TermEnds
<1>13. CASE fn_expire_business_licenses
  BY <1>8, <1>13 DEF fn_expire_business_licenses
<1> QED
  BY <1>3, <1>4, <1>5, <1>6, <1>7, <1>9, <1>10, <1>11, <1>12, <1>13 DEF Next

\* Nothing is paid, approved or lost, and nobody comes to commit or leaves off.
LEMMA NothingPaid ==
    ASSUME PInv, FormsPend', UNCHANGED <<paid, lost>>,
           Len(apps') = Len(apps), DOMAIN apps' = DOMAIN apps,
           \A i \in DOMAIN apps : Approved(i)' = Approved(i),
           \A p \in Callers, i \in DOMAIN apps : Commits(p, i)' <=> Commits(p, i)
    PROVE  PInv'
<1>1. \A i \in DOMAIN apps : Paying(i)' = Paying(i)
  BY DEF Paying
<1> HIDE DEF Paying, Approved
<1> QED  BY <1>1 DEF PInv

LEMMA ReturnsUnpaid ==
    ASSUME IInv, PInv, FormsPend', UNCHANGED <<apps, paid, lost>>, NEW p \in Callers,
           at[p] # "commit", Return(p)
    PROVE  PInv'
<1>1. \A q \in Callers, i \in DOMAIN apps : Commits(q, i)' <=> Commits(q, i)
  BY DEF Return, Goto, Commits, IInv, Typed, Steps
<1>2. \A i \in DOMAIN apps : Approved(i)' = Approved(i)
  BY DEF Approved
<1> QED  BY <1>1, <1>2, NothingPaid

LEMMA GoesUnpaid ==
    ASSUME IInv, PInv, FormsPend', UNCHANGED <<apps, paid, lost, on>>, NEW p \in Callers,
           NEW step \in Steps \ {"commit"}, at[p] # "commit", Goto(p, step)
    PROVE  PInv'
<1>1. \A q \in Callers, i \in DOMAIN apps : Commits(q, i)' <=> Commits(q, i)
  BY DEF Goto, Commits, IInv, Typed, Steps
<1>2. \A i \in DOMAIN apps : Approved(i)' = Approved(i)
  BY DEF Approved
<1> QED  BY <1>1, <1>2, NothingPaid

\* One more application, which nobody works on yet.
LEMMA FiledUnpaid ==
    ASSUME IInv, PInv, FormsPend', NEW app \in Application, app.status = "pending", File(app),
           \A q \in Callers, i \in Nat \ {0} : Commits(q, i)' <=> Commits(q, i)
    PROVE  PInv'
<1>0. PICK n \in Nat : n = Len(apps) + 1
  BY DEF IInv, Typed
<1>1. /\ paid' \in Seq(Nat) /\ lost' \in Seq(Nat) /\ Len(paid') = n /\ Len(lost') = n
      /\ paid'[n] = 0 /\ lost'[n] = 0
      /\ \A i \in DOMAIN apps : paid'[i] = paid[i] /\ lost'[i] = lost[i]
  BY <1>0 DEF File, IInv, Typed, PInv
<1>2. /\ Len(apps') = n /\ apps'[n] = app
      /\ \A i \in DOMAIN apps : apps'[i] = apps[i]
      /\ DOMAIN apps' = DOMAIN apps \cup {n} /\ DOMAIN apps \subseteq Nat \ {0}
      /\ n \in Nat \ {0} /\ n \notin DOMAIN apps
  BY <1>0 DEF File, IInv, Typed
<1>3. \A q \in Callers : ~Commits(q, n)
  BY <1>2 DEF Commits, IInv, Typed
<1>4. \A i \in DOMAIN apps : Paying(i)' = Paying(i) /\ Approved(i)' = Approved(i)
  BY <1>2 DEF Paying, Approved
<1>5. Paying(n)' = 0 /\ Approved(n)' = 0
  BY <1>2, <1>3 DEF Paying, Approved
<1>6. \A i \in DOMAIN apps : paid'[i] = Approved(i)' + lost'[i] + Paying(i)'
  BY <1>1, <1>4 DEF PInv
<1>7. paid'[n] = Approved(n)' + lost'[n] + Paying(n)'
  BY <1>1, <1>5
<1> QED  BY <1>1, <1>2, <1>6, <1>7 DEF PInv

\* An application that nobody is about to commit is decided; welfare is only
\* rejected that way.
LEMMA DecidedUnpaid ==
    ASSUME IInv, PInv, FormsPend', UNCHANGED <<paid, lost>>, NEW i \in DOMAIN apps,
           NEW s \in Statuses, Decide(i, s), Pending(i),
           apps[i].kind = "license" \/ s = "rejected",
           \A q \in Callers, j \in DOMAIN apps : Commits(q, j)' <=> Commits(q, j)
    PROVE  PInv'
<1>1. /\ apps' \in Seq(Application) /\ DOMAIN apps' = DOMAIN apps /\ apps'[i].status = s
      /\ \A j \in DOMAIN apps : apps'[j].kind = apps[j].kind
      /\ \A j \in DOMAIN apps : j # i => apps'[j] = apps[j]
  BY Deciding DEF IInv
<1>2. Len(apps') = Len(apps)
  BY <1>1 DEF IInv, Typed
<1>3. \A j \in DOMAIN apps : Approved(j)' = Approved(j)
  BY <1>1 DEF Approved, Pending
<1> QED  BY <1>1, <1>2, <1>3, NothingPaid

LEMMA PInvKept == IInv /\ PInv /\ [Next]_vars => PInv'
<1> SUFFICES ASSUME IInv, PInv, [Next]_vars PROVE PInv'
  OBVIOUS
<1>0. FormsPend'
  BY FormsPendKept DEF PInv
<1>1. ASSUME UNCHANGED <<apps, paid, lost, at, on>> PROVE PInv'
  <2>1. /\ \A i \in DOMAIN apps : Approved(i)' = Approved(i)
        /\ \A p \in Callers, i \in DOMAIN apps : Commits(p, i)' <=> Commits(p, i)
    BY <1>1 DEF Approved, Commits
  <2> QED  BY <1>0, <1>1, <2>1, NothingPaid
<1>2. CASE UNCHANGED vars
  BY <1>1, <1>2 DEF vars, tables, history, control
<1>3. ASSUME NEW p \in Callers, Acquire(p) PROVE PInv'
  BY <1>0, <1>3, GoesUnpaid DEF Acquire, tables, history, Steps
<1>4. ASSUME NEW p \in Callers, submit_license_application(p) PROVE PInv'
  <2>1. CASE CheckPending(p) \/ CheckValid(p)
    BY <1>0, <2>1, ReturnsUnpaid, GoesUnpaid
       DEF CheckPending, CheckValid, tables, history, Steps
  <2>2. CASE Insert(p)
    <3>1. form[p] \in Application /\ form[p].status = "pending"
      BY <1>4 DEF submit_license_application, IInv, Typed, NoForm, PInv, FormsPend
    <3>2. \A q \in Callers, i \in Nat \ {0} : Commits(q, i)' <=> Commits(q, i)
      BY <2>2 DEF Insert, Return, Goto, Commits, IInv, Typed, Steps
    <3> QED  BY <1>0, <2>2, <3>1, <3>2, FiledUnpaid DEF Insert
  <2> QED  BY <1>4, <2>1, <2>2 DEF submit_license_application
<1>5. ASSUME NEW p \in Callers, approve_welfare_application(p) PROVE PInv'
  <2>0. PICK i \in DOMAIN apps : i = on[p] /\ i \in DOMAIN paid /\ apps[i].kind = "welfare"
    BY <1>5 DEF approve_welfare_application, IInv, Typed, PInv
  <2>1. CASE Read(p) \/ Update(p) \/ Borrow(p)
    BY <1>0, <2>1, ReturnsUnpaid, GoesUnpaid DEF Read, Update, Borrow, tables, history, Steps
  <2>2. CASE Pay(p)
    <3>1. CASE Return(p) /\ UNCHANGED <<funds, paid>>
      BY <1>0, <2>2, <3>1, ReturnsUnpaid DEF Pay
    <3>2. CASE /\ paid' = [paid EXCEPT ![i] = @ + 1]
               /\ Goto(p, "commit") /\ UNCHANGED <<on, form>>
      <4>1. ~\E q \in Callers : Commits(q, i)
        BY <2>0, <2>2 DEF Pay, Commits, IInv, RowsAreHeld, Holds
      <4>2. Commits(p, i)'
        BY <2>0, <3>2 DEF Commits, Goto, IInv, Typed
      <4>3. Paying(i) = 0 /\ Paying(i)' = 1
        BY <3>2, <4>1, <4>2 DEF Paying
      <4>4. \A q \in Callers, j \in DOMAIN apps : j # i => (Commits(q, j)' <=> Commits(q, j))
        BY <2>0, <2>2, <3>2 DEF Pay, Commits, Goto, IInv, Typed
      <4>5. \A j \in DOMAIN apps : j # i => Paying(j)' = Paying(j)
        BY <4>4 DEF Paying
      <4>6. UNCHANGED <<apps, lost>> /\ \A j \in DOMAIN apps : Approved(j)' = Approved(j)
        BY <2>2 DEF Pay, Approved
      <4>7. /\ paid' \in Seq(Nat) /\ Len(paid') = Len(paid) /\ paid'[i] = paid[i] + 1
            /\ \A j \in DOMAIN apps : j # i => paid'[j] = paid[j]
        BY <2>0, <3>2 DEF PInv
      <4>8. \A j \in DOMAIN apps : j # i => paid'[j] = Approved(j)' + lost'[j] + Paying(j)'
        BY <4>5, <4>6, <4>7 DEF PInv
      <4>9. paid'[i] = Approved(i)' + lost'[i] + Paying(i)'
        <5>1. paid[i] = Approved(i) + lost[i] + 0
          BY <4>3 DEF PInv
        <5>2. paid[i] \in Nat /\ lost[i] \in Nat /\ Approved(i) \in Nat
          <6>1. paid \in Seq(Nat) /\ lost \in Seq(Nat) /\ i \in DOMAIN lost
            BY <2>0 DEF PInv, IInv, Typed
          <6>2. paid[i] \in Nat /\ lost[i] \in Nat
            BY <2>0, <6>1, ElementOfSeq
          <6> QED  BY <6>2, Counted
        <5>3. paid'[i] = paid[i] + 1
          BY <4>7
        <5>4. lost'[i] = lost[i]
          BY <4>6
        <5>5. Approved(i)' = Approved(i)
          BY <4>6, <2>0
        <5> QED  BY <4>3, <5>1, <5>2, <5>3, <5>4, <5>5
      <4> QED  BY <1>0, <4>6, <4>7, <4>8, <4>9 DEF PInv
    <3> QED  BY <2>0, <2>2, <3>1, <3>2 DEF Pay
  <2>3. CASE Commit(p)
    <3>1. /\ Commits(p, i) /\ Decide(i, "approved") /\ Pending(i) /\ Return(p)
          /\ UNCHANGED <<paid, lost>>
      BY <2>0, <2>3 DEF Commit, Commits, history, IInv, RowsAreHeld, Holds
    <3>2. /\ apps' \in Seq(Application) /\ DOMAIN apps' = DOMAIN apps
          /\ apps'[i].status = "approved"
          /\ \A j \in DOMAIN apps : apps'[j].kind = apps[j].kind
          /\ \A j \in DOMAIN apps : j # i => apps'[j] = apps[j]
      BY <2>0, <3>1, Deciding DEF IInv, Statuses
    <3>3. Len(apps') = Len(apps)
      BY <3>2 DEF IInv, Typed
    <3>5. Approved(i) = 0 /\ Approved(i)' = 1
      BY <2>0, <3>1, <3>2 DEF Approved, Pending
    <3>6. \A q \in Callers, j \in DOMAIN apps :
             Commits(q, j)' <=> Commits(q, j) /\ q # p
      BY <3>1 DEF Commits, Return, Goto, IInv, Typed, Steps
    <3>7. \A q \in Callers : Commits(q, i) => q = p
      BY <3>1 DEF Commits, IInv, RowsAreHeld, Holds
    <3>8. Paying(i) = 1 /\ Paying(i)' = 0
      BY <2>0, <3>1, <3>6, <3>7 DEF Paying
    <3>9. \A j \in DOMAIN apps : j # i => Paying(j)' = Paying(j) /\ Approved(j)' = Approved(j)
      BY <3>1, <3>2, <3>6 DEF Paying, Approved, Commits
    <3>10. \A j \in DOMAIN apps : j # i => paid'[j] = Approved(j)' + lost'[j] + Paying(j)'
      BY <3>1, <3>9 DEF PInv
    <3>11. paid'[i] = Approved(i)' + lost'[i] + Paying(i)'
      <4>1. paid[i] = 0 + lost[i] + 1
        BY <3>5, <3>8 DEF PInv
      <4>2. lost[i] \in Nat /\ lost'[i] = lost[i] /\ paid'[i] = paid[i]
        BY <2>0, <3>1 DEF PInv
      <4> QED  BY <3>5, <3>8, <4>1, <4>2
    <3> QED  BY <1>0, <3>1, <3>2, <3>3, <3>10, <3>11 DEF PInv
  <2> QED  BY <1>5, <2>1, <2>2, <2>3 DEF approve_welfare_application
<1>6. ASSUME NEW p \in Callers, approve_license_application(p) PROVE PInv'
  <2>1. CASE Read(p) \/ Check(p)
    BY <1>0, <2>1, ReturnsUnpaid, GoesUnpaid DEF Read, Check, tables, history, Steps
  <2>2. CASE Issue(p)
    BY <1>0, <2>2, ReturnsUnpaid, GoesUnpaid DEF Issue, history, Steps
  <2>3. CASE Approve(p) /\ ~Pending(on[p])
    BY <1>0, <2>3, ReturnsUnpaid DEF Approve, history
  <2>4. CASE Approve(p) /\ Pending(on[p])
    <3>1. on[p] \in DOMAIN apps /\ apps[on[p]].kind = "license"
      BY <1>6 DEF approve_license_application, IInv, Typed
    <3>2. \A q \in Callers, i \in DOMAIN apps : Commits(q, i)' <=> Commits(q, i)
      BY <2>4 DEF Approve, Return, Goto, Commits, IInv, Typed, Steps
    <3> QED  BY <1>0, <2>4, <3>1, <3>2, DecidedUnpaid DEF Approve, history, Statuses
  <2> QED  BY <1>6, <2>1, <2>2, <2>3, <2>4 DEF approve_license_application
<1>8. ASSUME NEW p \in Callers, NEW i \in DOMAIN apps, StartApprove(p, i) PROVE PInv'
  <2>1. \A q \in Callers, j \in DOMAIN apps : Commits(q, j)' <=> Commits(q, j)
    BY <1>8 DEF StartApprove, Idle, Goto, Commits, IInv, Typed, Steps
  <2>2. UNCHANGED <<apps, paid, lost>> /\ \A j \in DOMAIN apps : Approved(j)' = Approved(j)
    BY <1>8 DEF StartApprove, tables, Approved
  <2> QED  BY <1>0, <2>1, <2>2, NothingPaid
<1>9. ASSUME NEW i \in DOMAIN apps, reject_application(i) PROVE PInv'
  <2>1. \A q \in Callers, j \in DOMAIN apps : Commits(q, j)' <=> Commits(q, j)
    BY <1>9 DEF reject_application, control, Commits
  <2> QED  BY <1>0, <1>9, <2>1, DecidedUnpaid DEF reject_application, Statuses
<1>10. ASSUME NEW m \in Members, NEW n \in Amounts, submit_welfare_application(m, n) PROVE PInv'
  <2>1. Welfare(m, n) \in Application /\ Welfare(m, n).status = "pending"
    BY ApplicationsAssumption DEF Welfare, Application, Statuses
  <2>2. \A q \in Callers, i \in Nat \ {0} : Commits(q, i)' <=> Commits(q, i)
    BY <1>10 DEF submit_welfare_application, control, Commits
  <2> QED  BY <1>0, <1>10, <2>1, <2>2, FiledUnpaid DEF submit_welfare_application
<1>11. ASSUME NEW m \in Members, NEW t \in Types, NEW p \in Callers, StartSubmit(p, m, t)
       PROVE  PInv'
  BY <1>0, <1>11, GoesUnpaid DEF StartSubmit, Idle, tables, history, Steps
<1>12. ASSUME NEW m \in Members, NEW t \in Types, issue_business_license(m, t) PROVE PInv'
  BY <1>1, <1>12 DEF issue_business_license, history, control
<1>13. ASSUME NEW l \in DOMAIN licenses, fn_revoke_business_license(l) \/ TermEnds(l)
       PROVE  PInv'
  BY <1>1, <1>13 DEF fn_revoke_business_license, TermEnds, history, control
<1>14. CASE fn_expire_business_licenses
  BY <1>1, <1>14 DEF fn_expire_business_licenses, history, control
<1>15. ASSUME NEW p \in Callers, Fail(p) PROVE PInv'
  <2>1. CASE at[p] # "commit"
    BY <1>0, <1>15, <2>1, ReturnsUnpaid DEF Fail, tables
  <2>2. CASE at[p] = "commit"
    <3>0. PICK i \in DOMAIN apps : i = on[p] /\ i \in DOMAIN lost /\ Commits(p, i)
      BY <2>2 DEF IInv, Typed, PInv, RowsAreHeld, Holds, Commits
    <3>1. /\ lost' = [lost EXCEPT ![i] = @ + 1] /\ Return(p) /\ UNCHANGED <<apps, paid>>
      BY <1>15, <2>2, <3>0 DEF Fail, tables
    <3>2. \A q \in Callers, j \in DOMAIN apps : Commits(q, j)' <=> Commits(q, j) /\ q # p
      BY <3>1 DEF Commits, Return, Goto, IInv, Typed, Steps
    <3>3. \A q \in Callers : Commits(q, i) => q = p
      BY <2>2, <3>0 DEF Commits, IInv, RowsAreHeld, Holds
    <3>4. Paying(i) = 1 /\ Paying(i)' = 0
      BY <3>0, <3>2, <3>3 DEF Paying
    <3>5. /\ \A j \in DOMAIN apps : j # i => Paying(j)' = Paying(j)
          /\ \A j \in DOMAIN apps : Approved(j)' = Approved(j)
      BY <3>0, <3>1, <3>2 DEF Paying, Approved, Commits
    <3>6. /\ lost' \in Seq(Nat) /\ Len(lost') = Len(lost) /\ lost'[i] = lost[i] + 1
          /\ \A j \in DOMAIN apps : j # i => lost'[j] = lost[j]
      BY <3>0, <3>1 DEF PInv
    <3>7. \A j \in DOMAIN apps : j # i => paid'[j] = Approved(j)' + lost'[j] + Paying(j)'
      BY <3>1, <3>5, <3>6 DEF PInv
    <3>8. paid'[i] = Approved(i)' + lost'[i] + Paying(i)'
      <4>1. paid[i] = Approved(i) + lost[i] + 1
        BY <3>4 DEF PInv
      <4>2. lost[i] \in Nat /\ Approved(i) \in Nat
        BY <3>0, Counted DEF PInv
      <4>3. paid'[i] = paid[i] /\ lost'[i] = lost[i] + 1 /\ Approved(i)' = Approved(i)
        BY <3>1, <3>5, <3>6
      <4> QED  BY <3>4, <4>1, <4>2, <4>3
    <3> QED  BY <1>0, <3>1, <3>6, <3>7, <3>8 DEF PInv
  <2> QED  BY <2>1, <2>2
<1> QED
  BY <1>2, <1>3, <1>4, <1>5, <1>6, <1>8, <1>9, <1>10, <1>11, <1>12, <1>13, <1>14, <1>15
     DEF Next, Step

LEMMA OneIsPaying == IInv /\ PInv => PaymentsMatchApprovals
<1> SUFFICES ASSUME IInv, PInv, NEW i \in DOMAIN apps
             PROVE  Cardinality({p \in Callers : at[p] = "commit" /\ on[p] = i}) = Paying(i)
  BY DEF PInv, Approved, PaymentsMatchApprovals
<1> DEFINE S == {p \in Callers : at[p] = "commit" /\ on[p] = i}
<1>1. CASE S = {}
  <2>1. Paying(i) = 0
    BY <1>1 DEF Paying, Commits
  <2> QED  BY <1>1, <2>1, FS_EmptySet
<1>2. CASE S # {}
  <2>1. PICK p \in S : TRUE
    BY <1>2
  <2>2. S = {p}
    BY <2>1 DEF IInv, RowsAreHeld, Holds
  <2>3. Paying(i) = 1
    BY <2>1 DEF Paying, Commits
  <2>4. Cardinality({p}) = 1
    BY FS_Singleton
  <2> QED  BY <2>2, <2>3, <2>4
<1> QED  BY <1>1, <1>2

-----------------------------------------------------------------------------
(* Connections *)

LEMMA Sizes ==
    \A S, T : T \subseteq Callers /\ S \subseteq T =>
        /\ IsFiniteSet(S) /\ Cardinality(S) \in Nat
        /\ Cardinality(S) <= Cardinality(T)
BY FS_Subset, FS_CardinalityType, ApplicationsAssumption

LEMMA OneMore ==
    ASSUME NEW S, IsFiniteSet(S), NEW x
    PROVE  /\ IsFiniteSet(S \cup {x}) /\ Cardinality(S \cup {x}) \in Nat
           /\ Cardinality(S \cup {x}) <= Cardinality(S) + 1
<1> PICK T : T = S \cup {x}
  OBVIOUS
<1>1. Cardinality(S) \in Nat
  BY FS_CardinalityType
<1>2. CASE x \in S
  <2>1. T = S
    BY <1>2
  <2> QED  BY <1>1, <2>1
<1>3. CASE x \notin S
  BY <1>1, <1>3, FS_AddElement
<1> QED  BY <1>2, <1>3

\* Connections are handed out by Acquire and Borrow alone.
LEMMA FreeKept == IInv /\ Free >= 0 /\ [Next]_vars => Free' >= 0
<1> SUFFICES ASSUME IInv, Free >= 0, [Next]_vars PROVE Free' >= 0
  OBVIOUS
<1>0. /\ Connected \subseteq Callers /\ Disbursing \subseteq Callers
      /\ Connected' \subseteq Callers /\ Disbursing' \subseteq Callers
      /\ IsFiniteSet(Connected) /\ IsFiniteSet(Disbursing) /\ Connections \in Nat
  BY Sizes, ApplicationsAssumption DEF Connected, Disbursing
<1>1. ASSUME Connected' \subseteq Connected, Disbursing' \subseteq Disbursing PROVE Free' >= 0
  <2> PICK c \in Nat, d \in Nat, e \in Nat, f \in Nat :
         /\ c = Cardinality(Connected) /\ d = Cardinality(Disbursing)
         /\ e = Cardinality(Connected') /\ f = Cardinality(Disbursing')
         /\ e <= c /\ f <= d
    BY <1>0, <1>1, Sizes
  <2> QED  BY <1>0 DEF Free
<1>2. ASSUME NEW p \in Callers, Acquire(p) PROVE Free' >= 0
  <2>1. Connected' = Connected \cup {p} /\ Disbursing' = Disbursing
    BY <1>2 DEF Acquire, Goto, Connected, Disbursing, IInv, Typed
  <2> PICK c \in Nat, d \in Nat, e \in Nat :
         /\ c = Cardinality(Connected) /\ d = Cardinality(Disbursing)
         /\ e = Cardinality(Connected') /\ e <= c + 1
    BY <1>0, <2>1, Sizes, OneMore
  <2> QED  BY <1>0, <1>2, <2>1 DEF Acquire, Free
<1>3. ASSUME NEW p \in Callers, Borrow(p) PROVE Free' >= 0
  <2>1. Connected' = Connected /\ Disbursing' = Disbursing \cup {p}
    BY <1>3 DEF Borrow, Goto, Connected, Disbursing, IInv, Typed
  <2> PICK c \in Nat, d \in Nat, e \in Nat :
         /\ c = Cardinality(Connected) /\ d = Cardinality(Disbursing)
         /\ e = Cardinality(Disbursing') /\ e <= d + 1
    BY <1>0, <2>1, Sizes, OneMore
  <2> QED  BY <1>0, <1>3, <2>1 DEF Borrow, Free
<1>4. ASSUME UNCHANGED at PROVE Free' >= 0
  BY <1>1, <1>4 DEF Connected, Disbursing
<1>5. ASSUME NEW p \in Callers, NEW step \in Steps \ {"pay"}, Goto(p, step),
             p \in Connected \/ step \in {"idle", "acquire"}
      PROVE  Free' >= 0
  BY <1>1, <1>5 DEF Goto, Connected, Disbursing, IInv, Typed
<1>6. ASSUME NEW p \in Callers, Return(p) PROVE Free' >= 0
  BY <1>5, <1>6 DEF Return, Steps
<1>7. ASSUME NEW p \in Callers, submit_license_application(p) PROVE Free' >= 0
  BY <1>5, <1>6, <1>7
     DEF submit_license_application, CheckPending, CheckValid, Insert, Connected, Steps
<1>8. ASSUME NEW p \in Callers, approve_welfare_application(p) PROVE Free' >= 0
  BY <1>3, <1>5, <1>6, <1>8
     DEF approve_welfare_application, Read, Update, Pay, Commit, Connected, Steps
<1>9. ASSUME NEW p \in Callers, approve_license_application(p) PROVE Free' >= 0
  BY <1>5, <1>6, <1>9
     DEF approve_license_application, Read, Check, Issue, Approve, Connected, Steps
<1>10. ASSUME NEW p \in Callers, Fail(p) PROVE Free' >= 0
  BY <1>6, <1>10 DEF Fail
<1>11. ASSUME NEW p \in Callers, NEW i \in DOMAIN apps, StartApprove(p, i) PROVE Free' >= 0
  BY <1>5, <1>11 DEF StartApprove, Steps
<1>12. ASSUME NEW p \in Callers, NEW m \in Members, NEW t \in Types, StartSubmit(p, m, t)
       PROVE  Free' >= 0
  BY <1>5, <1>12 DEF StartSubmit, Steps
<1>13. CASE UNCHANGED vars
  BY <1>4, <1>13 DEF vars, control
<1>14. ASSUME NEW i \in DOMAIN apps, reject_application(i) PROVE Free' >= 0
  BY <1>4, <1>14 DEF reject_application, control
<1>15. ASSUME NEW m \in Members, NEW n \in Amounts, submit_welfare_application(m, n)
       PROVE  Free' >= 0
  BY <1>4, <1>15 DEF submit_welfare_application, control
<1>16. ASSUME NEW m \in Members, NEW t \in Types, issue_business_license(m, t) PROVE Free' >= 0
  BY <1>4, <1>16 DEF issue_business_license, control
<1>17. ASSUME NEW l \in DOMAIN licenses, fn_revoke_business_license(l) \/ TermEnds(l)
       PROVE  Free' >= 0
  BY <1>4, <1>17 DEF fn_revoke_business_license, TermEnds, control
<1>18. CASE fn_expire_business_licenses
  BY <1>4, <1>18 DEF fn_expire_business_licenses, control
<1> QED
  BY <1>2, <1>7, <1>8, <1>9, <1>10, <1>11, <1>12, <1>13, <1>14, <1>15, <1>16, <1>17, <1>18
     DEF Next, Step

-----------------------------------------------------------------------------
(* Duplicates *)

Open(m, t) == {i \in DOMAIN apps : apps[i].kind = "license" /\ apps[i].by = m
                                   /\ apps[i].type = t /\ Pending(i)}
\* Callers that have looked for a pending application and not yet inserted.
Late(m, t) == {p \in Callers : /\ at[p] \in {"checkValid", "insert"}
                               /\ form[p].kind = "license"
                               /\ form[p].by = m /\ form[p].type = t}

\* Whoever is late found none, so those already there came from other callers.
Bounded(m, t) == Cardinality(Open(m, t)) + Cardinality(Late(m, t)) <= Cardinality(Callers)

LEMMA OpenIsFinite ==
    ASSUME Typed, NEW m, NEW t
    PROVE  IsFiniteSet(Open(m, t)) /\ Cardinality(Open(m, t)) \in Nat
<1>1. Len(apps) \in Nat /\ DOMAIN apps = 1 .. Len(apps)
  BY DEF Typed
<1>2. IsFiniteSet(1 .. Len(apps))
  BY <1>1, FS_Interval
<1>3. Open(m, t) \subseteq 1 .. Len(apps)
  BY <1>1 DEF Open
<1> QED  BY <1>2, <1>3, FS_Subset, FS_CardinalityType

LEMMA LateIsFinite ==
    ASSUME NEW m, NEW t
    PROVE  IsFiniteSet(Late(m, t)) /\ Cardinality(Late(m, t)) \in Nat
<1>1. Late(m, t) \subseteq Callers
  BY DEF Late
<1> QED  BY <1>1, Sizes

\* Applications are decided and callers go, and nothing else.
LEMMA FewerOpen ==
    ASSUME Typed, NEW m, NEW t, Bounded(m, t),
           Open(m, t)' \subseteq Open(m, t), Late(m, t)' \subseteq Late(m, t)
    PROVE  Bounded(m, t)'
<1>1. IsFiniteSet(Open(m, t)) /\ IsFiniteSet(Late(m, t))
  BY OpenIsFinite, LateIsFinite
<1>2. PICK a \in Nat, b \in Nat, c \in Nat, d \in Nat :
         /\ a = Cardinality(Open(m, t)) /\ b = Cardinality(Late(m, t))
         /\ c = Cardinality(Open(m, t)') /\ d = Cardinality(Late(m, t)')
         /\ c <= a /\ d <= b
  BY <1>1, FS_Subset, FS_CardinalityType
<1>3. Cardinality(Callers) \in Nat
  BY Sizes
<1> QED  BY <1>2, <1>3 DEF Bounded

\* No lookup has let anyone through, and no licence is applied for.
LEMMA NobodyLate ==
    ASSUME IInv, NEW m, NEW t, Bounded(m, t),
           \A i \in DOMAIN apps' : apps'[i].kind = "license" =>
              i \in DOMAIN apps /\ (apps'[i] = apps[i] \/ apps'[i].status # "pending"),
           \A q \in Callers : at'[q] \in {"checkValid", "insert"} =>
              at[q] \in {"checkValid", "insert"} /\ form'[q] = form[q]
    PROVE  Bounded(m, t)'
<1>1. Open(m, t)' \subseteq Open(m, t)
  BY DEF Open, Pending
<1>2. Late(m, t)' \subseteq Late(m, t)
  BY DEF Late
<1> QED  BY <1>1, <1>2, FewerOpen DEF IInv

LEMMA BoundedKept ==
    ASSUME IInv, NEW m \in Members, NEW t \in Types, Bounded(m, t), [Next]_vars
    PROVE  Bounded(m, t)'
<1>1. ASSUME UNCHANGED apps, NEW p \in Callers,
             \/ Return(p)
             \/ /\ UNCHANGED form
                /\ \E step \in Steps \ {"checkValid", "insert"} : Goto(p, step)
      PROVE  Bounded(m, t)'
  <2>1. \A q \in Callers : at'[q] \in {"checkValid", "insert"} =>
              at[q] \in {"checkValid", "insert"} /\ form'[q] = form[q]
    BY <1>1 DEF Return, Goto, IInv, Typed, Steps
  <2> QED  BY <1>1, <2>1, NobodyLate
<1>2. ASSUME UNCHANGED <<apps, at, form>> PROVE Bounded(m, t)'
  BY <1>2, NobodyLate
<1>3. ASSUME NEW p \in Callers, Acquire(p) PROVE Bounded(m, t)'
  BY <1>1, <1>3 DEF Acquire, tables, Steps
<1>4. ASSUME NEW p \in Callers, submit_license_application(p) PROVE Bounded(m, t)'
  <2>1. form[p] \in Application /\ form[p].kind = "license"
    BY <1>4 DEF submit_license_application, IInv, Typed, NoForm
  <2>2. CASE CheckPending(p)
    <3>1. CASE Return(p)
      BY <1>1, <2>2, <3>1 DEF CheckPending, tables
    <3>2. CASE /\ ~HasPending(form[p].by, form[p].type) /\ Goto(p, "checkValid")
               /\ UNCHANGED <<apps, form>>
      <4>1. CASE form[p].by = m /\ form[p].type = t
        <5>1. Open(m, t)' = {}
          BY <3>2, <4>1 DEF Open, HasPending, Pending
        <5>2. Late(m, t)' \subseteq Callers
          BY DEF Late
        <5> PICK d \in Nat : d = Cardinality(Late(m, t)') /\ d <= Cardinality(Callers)
          BY <5>2, Sizes
        <5>3. Cardinality({}) = 0 /\ Cardinality(Callers) \in Nat
          BY FS_EmptySet, Sizes
        <5> QED  BY <5>1, <5>3 DEF Bounded
      <4>2. CASE ~(form[p].by = m /\ form[p].type = t)
        <5>1. Late(m, t)' \subseteq Late(m, t)
          BY <3>2, <4>2 DEF Late, Goto, IInv, Typed
        <5>2. Open(m, t)' = Open(m, t)
          BY <3>2 DEF Open, Pending
        <5> QED  BY <5>1, <5>2, FewerOpen DEF IInv
      <4> QED  BY <4>1, <4>2
    <3> QED  BY <2>2, <3>1, <3>2 DEF CheckPending, tables
  <2>3. CASE CheckValid(p)
    <3>1. UNCHANGED apps
      BY <2>3 DEF CheckValid, tables
    <3>2. \A q \in Callers : at'[q] \in {"checkValid", "insert"} =>
              at[q] \in {"checkValid", "insert"} /\ form'[q] = form[q]
      BY <2>3 DEF CheckValid, Return, Goto, IInv, Typed, Steps
    <3> QED  BY <3>1, <3>2, NobodyLate
  <2>4. CASE Insert(p)
    <3>1. PICK n \in Nat : n = Len(apps) + 1
      BY DEF IInv, Typed
    <3>2. /\ DOMAIN apps' = DOMAIN apps \cup {n} /\ n \notin DOMAIN apps
          /\ apps'[n] = form[p]
          /\ \A i \in DOMAIN apps : apps'[i] = apps[i]
      BY <2>1, <2>4, <3>1 DEF Insert, File, IInv, Typed
    <3>3. /\ p \notin Late(m, t)'
          /\ \A q \in Callers : q # p => (q \in Late(m, t)' <=> q \in Late(m, t))
          /\ at[p] = "insert"
      BY <2>4 DEF Insert, Return, Goto, Late, IInv, Typed
    <3>4. CASE form[p].by = m /\ form[p].type = t
      <4>1. p \in Late(m, t) /\ Late(m, t)' = Late(m, t) \ {p}
        BY <2>1, <3>3, <3>4 DEF Late
      <4>2. Open(m, t)' \subseteq Open(m, t) \cup {n}
        BY <3>2 DEF Open, Pending
      <4>3. IsFiniteSet(Open(m, t)) /\ IsFiniteSet(Late(m, t))
        BY OpenIsFinite, LateIsFinite DEF IInv
      <4>4. /\ IsFiniteSet(Open(m, t) \cup {n})
            /\ Cardinality(Open(m, t) \cup {n}) \in Nat
            /\ Cardinality(Open(m, t) \cup {n}) <= Cardinality(Open(m, t)) + 1
        BY <4>3, OneMore
      <4>5. /\ Cardinality(Open(m, t)') \in Nat
            /\ Cardinality(Open(m, t)') <= Cardinality(Open(m, t) \cup {n})
        BY <4>2, <4>4, FS_Subset, FS_CardinalityType
      <4>6. Cardinality(Late(m, t)') = Cardinality(Late(m, t)) - 1
        BY <4>1, <4>3, FS_RemoveElement
      <4>7. /\ Cardinality(Open(m, t)) \in Nat /\ Cardinality(Late(m, t)) \in Nat
            /\ Cardinality(Callers) \in Nat
        BY <4>3, FS_CardinalityType, Sizes
      <4>8. \A a, b, c, d, u, e \in Nat :
               a + b <= e /\ u <= a + 1 /\ c <= u /\ d = b - 1 => c + d <= e
        OBVIOUS
      <4>9. Cardinality(Late(m, t)') \in Nat
        BY LateIsFinite, FS_CardinalityType, <4>1, <4>3, FS_RemoveElement
      <4> QED  BY <4>4, <4>5, <4>6, <4>7, <4>8, <4>9 DEF Bounded
    <3>5. CASE ~(form[p].by = m /\ form[p].type = t)
      <4>1. Late(m, t)' \subseteq Late(m, t)
        BY <3>3 DEF Late
      <4>2. Open(m, t)' \subseteq Open(m, t)
        BY <3>2, <3>5 DEF Open, Pending
      <4> QED  BY <4>1, <4>2, FewerOpen DEF IInv
    <3> QED  BY <3>4, <3>5
  <2> QED  BY <1>4, <2>2, <2>3, <2>4 DEF submit_license_application
<1>5. ASSUME NEW i \in DOMAIN apps, NEW s \in Statuses \ {"pending"}, Decide(i, s),
             \/ \E p \in Callers : Return(p)
             \/ UNCHANGED <<at, form>>
      PROVE  Bounded(m, t)'
  <2>1. /\ DOMAIN apps' = DOMAIN apps /\ apps'[i].status = s
        /\ \A j \in DOMAIN apps : j # i => apps'[j] = apps[j]
    BY <1>5, Deciding DEF IInv
  <2>2. \A q \in Callers : at'[q] \in {"checkValid", "insert"} =>
              at[q] \in {"checkValid", "insert"} /\ form'[q] = form[q]
    BY <1>5 DEF Return, Goto, IInv, Typed, Steps
  <2> QED  BY <2>1, <2>2, NobodyLate
<1>6. ASSUME NEW p \in Callers, approve_welfare_application(p) PROVE Bounded(m, t)'
  <2>1. on[p] \in DOMAIN apps
    BY <1>6 DEF approve_welfare_application, IInv, Typed
  <2>2. CASE Read(p) \/ Update(p) \/ Borrow(p) \/ Pay(p)
    BY <1>1, <2>2 DEF Read, Update, Borrow, Pay, tables, Steps
  <2>3. CASE Commit(p)
    BY <1>5, <2>1, <2>3 DEF Commit, Statuses
  <2> QED  BY <1>6, <2>2, <2>3 DEF approve_welfare_application
<1>7. ASSUME NEW p \in Callers, approve_license_application(p) PROVE Bounded(m, t)'
  <2>1. on[p] \in DOMAIN apps
    BY <1>7 DEF approve_license_application, IInv, Typed
  <2>2. CASE Read(p) \/ Check(p) \/ Issue(p)
    BY <1>1, <2>2 DEF Read, Check, Issue, tables, Steps
  <2>3. CASE Approve(p)
    BY <1>1, <1>5, <2>1, <2>3 DEF Approve, Statuses
  <2> QED  BY <1>7, <2>2, <2>3 DEF approve_license_application
<1>8. ASSUME NEW p \in Callers, Fail(p) PROVE Bounded(m, t)'
  BY <1>1, <1>8 DEF Fail, tables
<1>9. ASSUME NEW p \in Callers, NEW i \in DOMAIN apps, StartApprove(p, i)
      PROVE  Bounded(m, t)'
  BY <1>1, <1>9 DEF StartApprove, tables, Steps
<1>10. ASSUME NEW i \in DOMAIN apps, reject_application(i) PROVE Bounded(m, t)'
  BY <1>5, <1>10 DEF reject_application, control, Statuses
<1>11. ASSUME NEW u \in Members, NEW n \in Amounts, submit_welfare_application(u, n)
       PROVE  Bounded(m, t)'
  <2>1. PICK k \in Nat : k = Len(apps) + 1
    BY DEF IInv, Typed
  <2>2. /\ DOMAIN apps' = DOMAIN apps \cup {k} /\ apps'[k].kind = "welfare"
        /\ \A i \in DOMAIN apps : apps'[i] = apps[i]
    BY <1>11, <2>1 DEF submit_welfare_application, File, Welfare, IInv, Typed
  <2> QED  BY <1>11, <2>2, NobodyLate DEF submit_welfare_application, control
<1>12. ASSUME NEW p \in Callers, NEW u \in Members, NEW v \in Types, StartSubmit(p, u, v)
       PROVE  Bounded(m, t)'
  <2>1. \A q \in Callers : at'[q] \in {"checkValid", "insert"} =>
              at[q] \in {"checkValid", "insert"} /\ form'[q] = form[q]
    BY <1>12 DEF StartSubmit, Goto, IInv, Typed, Steps
  <2> QED  BY <1>12, <2>1, NobodyLate DEF StartSubmit, tables
<1>13. ASSUME NEW u \in Members, NEW v \in Types, issue_business_license(u, v)
       PROVE  Bounded(m, t)'
  BY <1>2, <1>13 DEF issue_business_license, control
<1>14. ASSUME NEW l \in DOMAIN licenses, fn_revoke_business_license(l) \/ TermEnds(l)
       PROVE  Bounded(m, t)'
  BY <1>2, <1>14 DEF fn_revoke_business_license, TermEnds, control
<1>15. CASE fn_expire_business_licenses
  BY <1>2, <1>15 DEF fn_expire_business_licenses, control
<1>16. CASE UNCHANGED vars
  BY <1>2, <1>16 DEF vars, tables, control
<1> QED
  BY <1>3, <1>4, <1>6, <1>7, <1>8, <1>9, <1>10, <1>11, <1>12, <1>13, <1>14, <1>15, <1>16
     DEF Next, Step

-----------------------------------------------------------------------------
(* Licences *)

Issued ==
    [user : Members, type : Types, status : {"active", "revoked", "expired"},
     overdue : BOOLEAN, for : Nat]

LInv ==
    /\ licenses \in Seq(Issued)
    /\ \A l \in DOMAIN licenses : licenses[l].for \in DOMAIN apps \cup {0}
    /\ crossed \subseteq DOMAIN apps
    /\ funds \in Nat
    /\ OneActiveLicense

LEMMA Issuing ==
    ASSUME LInv, NEW m \in Members, NEW t \in Types, NEW i \in DOMAIN apps \cup {0},
           DOMAIN apps \subseteq Nat, fn_issue_business_license(m, t, i)
    PROVE  \E n \in Nat :
              /\ DOMAIN licenses' = DOMAIN licenses \cup {n} /\ n \notin DOMAIN licenses
              /\ licenses'[n].for = i
              /\ \A l \in DOMAIN licenses : licenses'[l] = licenses[l]
              /\ licenses' \in Seq(Issued)
              /\ OneActiveLicense'
<1> DEFINE new == Licence(m, t, i)
<1>a. i \in Nat
  OBVIOUS
<1>b. new \in Issued
  BY <1>a DEF Licence, Issued
<1> HIDE DEF new
<1> PICK r \in Issued : r = new
  BY <1>b
<1>0. PICK n \in Nat : n = Len(licenses) + 1
  BY DEF LInv
<1>1. r.user = m /\ r.type = t /\ r.for = i
  BY DEF Licence, new
<1>2. licenses' = Append(licenses, r)
  BY DEF fn_issue_business_license, new
<1>3. /\ DOMAIN licenses' = DOMAIN licenses \cup {n} /\ n \notin DOMAIN licenses
      /\ licenses'[n] = r /\ licenses' \in Seq(Issued)
      /\ \A l \in DOMAIN licenses : licenses'[l] = licenses[l]
  BY <1>0, <1>2 DEF LInv
<1>4. \A l \in DOMAIN licenses :
         ~(licenses[l].status = "active" /\ licenses[l].user = m /\ licenses[l].type = t)
  BY DEF fn_issue_business_license, HasActive
<1>5. OneActiveLicense'
  BY <1>1, <1>3, <1>4 DEF LInv, OneActiveLicense
<1> QED  BY <1>1, <1>3, <1>5

LEMMA IssuedAnother ==
    ASSUME LInv, NEW m \in Members, NEW t \in Types, NEW i \in DOMAIN apps \cup {0},
           DOMAIN apps \subseteq Nat, fn_issue_business_license(m, t, i),
           UNCHANGED <<apps, funds, crossed>>
    PROVE  LInv'
<1> PICK n \in Nat :
        /\ DOMAIN licenses' = DOMAIN licenses \cup {n} /\ n \notin DOMAIN licenses
        /\ licenses'[n].for = i
        /\ \A l \in DOMAIN licenses : licenses'[l] = licenses[l]
        /\ licenses' \in Seq(Issued)
        /\ OneActiveLicense'
  BY Issuing
<1> QED  BY DEF LInv

\* A licence that ends or is overdue keeps its holder and its application.
SameHolders ==
    /\ licenses' \in Seq(Issued) /\ DOMAIN licenses' = DOMAIN licenses
    /\ \A l \in DOMAIN licenses :
          /\ licenses'[l].user = licenses[l].user /\ licenses'[l].type = licenses[l].type
          /\ licenses'[l].for = licenses[l].for
          /\ licenses'[l].status = "active" => licenses[l].status = "active"

LEMMA Ending ==
    ASSUME LInv,
           \/ \E l \in DOMAIN licenses : fn_revoke_business_license(l) \/ TermEnds(l)
           \/ fn_expire_business_licenses
    PROVE  SameHolders
<1>0. /\ Len(licenses) \in Nat /\ DOMAIN licenses = 1 .. Len(licenses)
      /\ \A l \in DOMAIN licenses : licenses[l] \in Issued
  BY DEF LInv
<1>1. ASSUME NEW l \in DOMAIN licenses, NEW r \in Issued, licenses' = [licenses EXCEPT ![l] = r],
             r.user = licenses[l].user, r.type = licenses[l].type, r.for = licenses[l].for,
             licenses[l].status = "active"
      PROVE  SameHolders
  BY <1>1 DEF SameHolders, LInv
<1>2. ASSUME NEW l \in DOMAIN licenses, fn_revoke_business_license(l) PROVE SameHolders
  <2> PICK r : r = [licenses[l] EXCEPT !.status = "revoked"]
    OBVIOUS
  <2>1. /\ r \in Issued /\ r.user = licenses[l].user /\ r.type = licenses[l].type
        /\ r.for = licenses[l].for
    BY <1>0 DEF Issued
  <2>2. licenses' = [licenses EXCEPT ![l] = r] /\ licenses[l].status = "active"
    BY <1>2 DEF fn_revoke_business_license
  <2> QED  BY <1>1, <2>1, <2>2
<1>3. ASSUME NEW l \in DOMAIN licenses, TermEnds(l) PROVE SameHolders
  <2> PICK r : r = [licenses[l] EXCEPT !.overdue = TRUE]
    OBVIOUS
  <2>1. /\ r \in Issued /\ r.user = licenses[l].user /\ r.type = licenses[l].type
        /\ r.for = licenses[l].for
    BY <1>0 DEF Issued
  <2>2. licenses' = [licenses EXCEPT ![l] = r] /\ licenses[l].status = "active"
    BY <1>3 DEF TermEnds
  <2> QED  BY <1>1, <2>1, <2>2
<1>4. CASE fn_expire_business_licenses
  <2> DEFINE ended(l) == [licenses[l] EXCEPT !.status = "expired"]
  <2>1. ASSUME NEW l \in DOMAIN licenses
        PROVE  /\ ended(l) \in Issued /\ ended(l).user = licenses[l].user
               /\ ended(l).type = licenses[l].type /\ ended(l).for = licenses[l].for
               /\ ended(l).status = "expired"
    BY <1>0 DEF Issued
  <2>2. /\ DOMAIN licenses' = DOMAIN licenses
        /\ licenses' = [l \in DOMAIN licenses |-> licenses'[l]]
        /\ \A l \in DOMAIN licenses :
              licenses'[l] = ended(l) \/ licenses'[l] = licenses[l]
    BY <1>4 DEF fn_expire_business_licenses
  <2> HIDE DEF ended
  <2>3. \A l \in DOMAIN licenses : licenses'[l] \in Issued
    BY <1>0, <2>1, <2>2
  <2>4. licenses' \in Seq(Issued)
    BY <1>0, <2>2, <2>3
  <2> QED  BY <2>1, <2>2, <2>4 DEF SameHolders
<1> QED  BY <1>2, <1>3, <1>4

LEMMA LInvAtFirst == Init => LInv
BY ApplicationsAssumption DEF Init, LInv, OneActiveLicense

\* No licence is issued, and no application withdrawn.
LEMMA NotIssued ==
    ASSUME LInv, UNCHANGED licenses, DOMAIN apps \subseteq DOMAIN apps',
           crossed' \subseteq DOMAIN apps, funds' \in Nat
    PROVE  LInv'
<1>1. OneActiveLicense'
  BY DEF LInv, OneActiveLicense
<1> QED  BY <1>1 DEF LInv

LEMMA DecidingKeeps ==
    ASSUME IInv, NEW i \in DOMAIN apps, NEW s \in Statuses, Decide(i, s)
    PROVE  DOMAIN apps' = DOMAIN apps
BY Deciding DEF IInv

LEMMA FilingKeeps ==
    ASSUME IInv, NEW app, File(app)
    PROVE  DOMAIN apps \subseteq DOMAIN apps'
BY DEF File, IInv, Typed

LEMMA LInvKept == IInv /\ LInv /\ [Next]_vars => LInv'
<1> SUFFICES ASSUME IInv, LInv, [Next]_vars PROVE LInv'
  OBVIOUS
<1>0. DOMAIN apps \subseteq Nat /\ DOMAIN apps \subseteq Nat \ {0} /\ crossed \subseteq DOMAIN apps
      /\ funds \in Nat
  BY DEF IInv, Typed, LInv
<1>1. ASSUME UNCHANGED <<apps, licenses, funds>>, crossed' \subseteq DOMAIN apps PROVE LInv'
  BY <1>0, <1>1, NotIssued
<1>2. CASE UNCHANGED vars
  BY <1>0, <1>1, <1>2 DEF vars, tables, history
<1>3. ASSUME NEW p \in Callers, Acquire(p) PROVE LInv'
  BY <1>0, <1>1, <1>3 DEF Acquire, tables, history
<1>4. ASSUME NEW p \in Callers, submit_license_application(p) PROVE LInv'
  <2>1. CASE CheckPending(p) \/ CheckValid(p)
    BY <1>0, <1>1, <2>1 DEF CheckPending, CheckValid, tables, history
  <2>2. CASE Insert(p)
    BY <1>0, <2>2, FilingKeeps, NotIssued DEF Insert
  <2> QED  BY <1>4, <2>1, <2>2 DEF submit_license_application
<1>5. ASSUME NEW p \in Callers, approve_welfare_application(p) PROVE LInv'
  <2>0. on[p] \in DOMAIN apps /\ apps[on[p]].amount \in Nat
    BY <1>5 DEF approve_welfare_application, IInv, Typed, Application
  <2>1. CASE Read(p) \/ Update(p) \/ Borrow(p)
    BY <1>0, <1>1, <2>1 DEF Read, Update, Borrow, tables, history
  <2>2. CASE Pay(p)
    <3>1. funds' \in Nat
      BY <1>0, <2>0, <2>2 DEF Pay
    <3> QED  BY <1>0, <2>2, <3>1, NotIssued DEF Pay
  <2>3. CASE Commit(p)
    BY <1>0, <2>0, <2>3, DecidingKeeps, NotIssued DEF Commit, history, Statuses
  <2> QED  BY <1>5, <2>1, <2>2, <2>3 DEF approve_welfare_application
<1>6. ASSUME NEW p \in Callers, approve_license_application(p) PROVE LInv'
  <2>0. /\ on[p] \in DOMAIN apps /\ apps[on[p]].by \in Members /\ apps[on[p]].type \in Types
    BY <1>6 DEF approve_license_application, IInv, Typed, Application
  <2>1. CASE Read(p) \/ Check(p)
    BY <1>0, <1>1, <2>1 DEF Read, Check, tables, history
  <2>2. CASE Issue(p) /\ UNCHANGED licenses
    BY <1>0, <1>1, <2>2 DEF Issue, history
  <2>3. CASE Issue(p) /\ fn_issue_business_license(apps[on[p]].by, apps[on[p]].type, on[p])
    <3>1. UNCHANGED <<apps, funds, crossed>>
      BY <2>3 DEF Issue, history
    <3> QED  BY <1>0, <2>0, <2>3, <3>1, IssuedAnother
  <2>4. CASE Approve(p)
    <3>1. DOMAIN apps' = DOMAIN apps
      BY <2>0, <2>4, DecidingKeeps DEF Approve, Statuses
    <3> QED  BY <1>0, <2>4, <3>1, NotIssued DEF Approve, history
  <2> QED
    BY <1>6, <2>1, <2>2, <2>3, <2>4 DEF approve_license_application, Issue
<1>7. ASSUME NEW p \in Callers, Fail(p) PROVE LInv'
  <2>1. crossed' \subseteq DOMAIN apps
    BY <1>0, <1>7 DEF Fail, IInv, Typed
  <2> QED  BY <1>1, <1>7, <2>1 DEF Fail, tables
<1>8. ASSUME NEW p \in Callers, NEW i \in DOMAIN apps, StartApprove(p, i) PROVE LInv'
  <2>1. crossed' \subseteq DOMAIN apps
    BY <1>0, <1>8 DEF StartApprove, Cross
  <2> QED  BY <1>1, <1>8, <2>1 DEF StartApprove, tables
<1>9. ASSUME NEW i \in DOMAIN apps, reject_application(i) PROVE LInv'
  <2>1. crossed' \subseteq DOMAIN apps
    BY <1>0, <1>9 DEF reject_application
  <2>2. DOMAIN apps' = DOMAIN apps
    BY <1>9, DecidingKeeps DEF reject_application, Statuses
  <2> QED  BY <1>0, <1>9, <2>1, <2>2, NotIssued DEF reject_application
<1>10. ASSUME NEW m \in Members, NEW n \in Amounts, submit_welfare_application(m, n) PROVE LInv'
  BY <1>0, <1>10, FilingKeeps, NotIssued DEF submit_welfare_application
<1>11. ASSUME NEW p \in Callers, NEW m \in Members, NEW t \in Types, StartSubmit(p, m, t)
       PROVE  LInv'
  BY <1>0, <1>1, <1>11 DEF StartSubmit, tables, history
<1>12. ASSUME NEW m \in Members, NEW t \in Types, issue_business_license(m, t) PROVE LInv'
  <2>1. UNCHANGED <<apps, funds, crossed>>
    BY <1>12 DEF issue_business_license, history
  <2>2. fn_issue_business_license(m, t, 0)
    BY <1>12 DEF issue_business_license
  <2> QED  BY <1>0, <2>1, <2>2, IssuedAnother
<1>13. ASSUME SameHolders, UNCHANGED <<apps, funds, crossed>> PROVE LInv'
  <2>1. OneActiveLicense'
    BY <1>13 DEF LInv, OneActiveLicense, SameHolders
  <2> QED  BY <1>13, <2>1 DEF LInv, SameHolders
<1>14. ASSUME NEW l \in DOMAIN licenses, fn_revoke_business_license(l) \/ TermEnds(l)
       PROVE  LInv'
  <2>1. UNCHANGED <<apps, funds, crossed>>
    BY <1>14 DEF fn_revoke_business_license, TermEnds, history
  <2> QED  BY <1>13, <1>14, <2>1, Ending
<1>15. CASE fn_expire_business_licenses
  <2>1. UNCHANGED <<apps, funds, crossed>>
    BY <1>15 DEF fn_expire_business_licenses, history
  <2> QED  BY <1>13, <1>15, <2>1, Ending
<1> QED
  BY <1>2, <1>3, <1>4, <1>5, <1>6, <1>7, <1>8, <1>9, <1>10, <1>11, <1>12, <1>14, <1>15
     DEF Next, Step

-----------------------------------------------------------------------------
(* Licences and approvals *)

\* Caller p is past the first look at licence application i; and has issued for it.
Reviews(p, i) == on[p] = i /\ at[p] \in {"check", "issue", "approve"}
Issues(p, i) == on[p] = i /\ at[p] = "approve"

OneAtATime == \A i \in DOMAIN apps \ crossed : \A p, q \in Callers :
                 on[p] = i /\ on[q] = i => p = q

\* What a licence application has got, and what an uncrossed one has got exactly.
CInv ==
    /\ \A p \in Callers, i \in DOMAIN apps : Reviews(p, i) => apps[i].kind = "license"
    /\ \A p \in Callers, i \in DOMAIN apps : Issues(p, i) => IssuedFor(i) # {}
    /\ \A i \in DOMAIN apps : apps[i].kind = "license" /\ apps[i].status = "approved"
          => IssuedFor(i) # {}
    /\ \A p \in Callers, i \in DOMAIN apps \ crossed : Reviews(p, i) => Pending(i)
    /\ \A i \in DOMAIN apps \ crossed : apps[i].kind = "license" =>
          IF apps[i].status = "approved" \/ \E p \in Callers : Issues(p, i)
          THEN \E l : IssuedFor(i) = {l}
          ELSE IssuedFor(i) = {}

LEMMA CInvAtFirst == Init => CInv /\ OneAtATime
BY DEF Init, CInv, OneAtATime, Reviews, Issues

LEMMA OneAtATimeKept == IInv /\ LInv /\ OneAtATime /\ [Next]_vars => OneAtATime'
<1> SUFFICES ASSUME IInv, LInv, OneAtATime, [Next]_vars PROVE OneAtATime'
  OBVIOUS
<1>0. DOMAIN apps \subseteq Nat \ {0}
  BY DEF IInv, Typed
<1>1. ASSUME \A i \in DOMAIN apps' : i \in DOMAIN apps \/ \A q \in Callers : on'[q] # i,
             crossed \subseteq crossed',
             \A q \in Callers : on'[q] \in {0, on[q]}
      PROVE  OneAtATime'
  BY <1>0, <1>1 DEF OneAtATime, IInv, Typed
<1>2. ASSUME UNCHANGED apps, crossed \subseteq crossed', NEW p \in Callers,
             UNCHANGED on \/ Return(p)
      PROVE  OneAtATime'
  BY <1>1, <1>2 DEF Return, IInv, Typed
<1>3. ASSUME NEW i \in DOMAIN apps, NEW s \in Statuses, Decide(i, s),
             crossed \subseteq crossed',
             UNCHANGED on \/ \E p \in Callers : Return(p)
      PROVE  OneAtATime'
  <2>1. DOMAIN apps' = DOMAIN apps
    BY <1>3, DecidingKeeps
  <2> QED  BY <1>1, <1>3, <2>1 DEF Return, IInv, Typed
<1>4. ASSUME NEW app, File(app), UNCHANGED crossed,
             UNCHANGED on \/ \E p \in Callers : Return(p)
      PROVE  OneAtATime'
  <2>1. \A q \in Callers : on'[q] \in {0, on[q]}
    BY <1>4 DEF Return, IInv, Typed
  <2>2. \A i \in DOMAIN apps' : i \in DOMAIN apps \/ \A q \in Callers : on'[q] # i
    BY <1>4, <2>1 DEF File, IInv, Typed
  <2> QED  BY <1>1, <1>4, <2>1, <2>2
<1>5. ASSUME UNCHANGED <<apps, on, crossed>> PROVE OneAtATime'
  BY <1>5 DEF OneAtATime
<1>6. CASE UNCHANGED vars
  BY <1>5, <1>6 DEF vars, tables, control, history
<1>7. ASSUME NEW p \in Callers, Step(p) PROVE OneAtATime'
  <2>1. CASE Acquire(p)
    BY <1>5, <2>1 DEF Acquire, tables, history
  <2>2. CASE submit_license_application(p)
    BY <1>2, <1>4, <2>2
       DEF submit_license_application, CheckPending, CheckValid, Insert, tables, history
  <2>3. CASE approve_welfare_application(p)
    <3>1. on[p] \in DOMAIN apps
      BY <2>3 DEF approve_welfare_application, IInv, Typed
    <3> QED
      BY <1>2, <1>3, <2>3, <3>1
         DEF approve_welfare_application, Read, Update, Borrow, Pay, Commit, tables, history,
             Statuses
  <2>4. CASE approve_license_application(p)
    <3>1. on[p] \in DOMAIN apps
      BY <2>4 DEF approve_license_application, IInv, Typed
    <3> QED
      BY <1>2, <1>3, <2>4, <3>1
         DEF approve_license_application, Read, Check, Issue, Approve, tables, history, Statuses
  <2> QED  BY <1>7, <2>1, <2>2, <2>3, <2>4 DEF Step
<1>8. ASSUME NEW p \in Callers, Fail(p) PROVE OneAtATime'
  BY <1>2, <1>8 DEF Fail, tables
<1>9. ASSUME NEW p \in Callers, NEW i \in DOMAIN apps, StartApprove(p, i) PROVE OneAtATime'
  <2>1. UNCHANGED apps /\ on' = [on EXCEPT ![p] = i] /\ crossed \subseteq crossed'
    BY <1>9 DEF StartApprove, Cross, tables
  <2>2. i \notin crossed' => \A q \in Callers : on[q] = i => q = p
    BY <1>9 DEF StartApprove, Cross, Others
  <2> QED  BY <2>1, <2>2 DEF OneAtATime, IInv, Typed
<1>10. ASSUME NEW i \in DOMAIN apps, reject_application(i) PROVE OneAtATime'
  BY <1>3, <1>10 DEF reject_application, control, Statuses
<1>11. ASSUME NEW m \in Members, NEW n \in Amounts, submit_welfare_application(m, n)
       PROVE  OneAtATime'
  BY <1>4, <1>11 DEF submit_welfare_application, control
<1>12. ASSUME NEW p \in Callers, NEW m \in Members, NEW t \in Types, StartSubmit(p, m, t)
       PROVE  OneAtATime'
  BY <1>5, <1>12 DEF StartSubmit, tables, history
<1>13. ASSUME NEW m \in Members, NEW t \in Types, issue_business_license(m, t)
       PROVE  OneAtATime'
  BY <1>5, <1>13 DEF issue_business_license, control, history
<1>14. ASSUME NEW l \in DOMAIN licenses, fn_revoke_business_license(l) \/ TermEnds(l)
       PROVE  OneAtATime'
  BY <1>5, <1>14 DEF fn_revoke_business_license, TermEnds, control, history
<1>15. CASE fn_expire_business_licenses
  BY <1>5, <1>15 DEF fn_expire_business_licenses, control, history
<1> QED
  BY <1>6, <1>7, <1>8, <1>9, <1>10, <1>11, <1>12, <1>13, <1>14, <1>15 DEF Next

\* The licences of the old applications are as they were, no licence application
\* is decided, and no caller issues one or leaves one that is not crossed then.
LEMMA NothingIssued ==
    ASSUME CInv, DOMAIN apps \subseteq DOMAIN apps', crossed \subseteq crossed',
           \A i \in DOMAIN apps :
              /\ apps'[i].kind = apps[i].kind
              /\ apps[i].kind = "license" => apps'[i].status = apps[i].status
              /\ IssuedFor(i)' = IssuedFor(i),
           \A i \in DOMAIN apps' \ DOMAIN apps :
              /\ apps'[i].status = "pending" /\ IssuedFor(i)' = {}
              /\ \A q \in Callers : on'[q] # i,
           \A q \in Callers, i \in DOMAIN apps :
              /\ Reviews(q, i)' => Reviews(q, i) \/ (Pending(i) /\ apps[i].kind = "license")
              /\ Issues(q, i)' => Issues(q, i)
              /\ Issues(q, i) => Issues(q, i)' \/ i \in crossed'
    PROVE  CInv'
<1>1. \A q \in Callers, i \in DOMAIN apps' \ DOMAIN apps : ~Reviews(q, i)' /\ ~Issues(q, i)'
  BY DEF Reviews, Issues
<1>2. \A i \in DOMAIN apps : apps[i].kind = "license" => Pending(i)' = Pending(i)
  BY DEF Pending
<1>3. \A q \in Callers, i \in DOMAIN apps' : Reviews(q, i)' => apps'[i].kind = "license"
  BY <1>1 DEF CInv
<1>4. \A q \in Callers, i \in DOMAIN apps' : Issues(q, i)' => IssuedFor(i)' # {}
  BY <1>1 DEF CInv
<1>5. \A i \in DOMAIN apps' : apps'[i].kind = "license" /\ apps'[i].status = "approved"
         => IssuedFor(i)' # {}
  BY DEF CInv
<1>6. \A q \in Callers, i \in DOMAIN apps' \ crossed' : Reviews(q, i)' => Pending(i)'
  BY <1>1, <1>2, <1>3 DEF CInv
<1>7. ASSUME NEW i \in DOMAIN apps' \ crossed', apps'[i].kind = "license"
      PROVE  IF apps'[i].status = "approved" \/ \E p \in Callers : Issues(p, i)'
             THEN \E l : IssuedFor(i)' = {l}
             ELSE IssuedFor(i)' = {}
  <2>1. CASE i \in DOMAIN apps
    <3>1. /\ IssuedFor(i)' = IssuedFor(i) /\ apps'[i].status = apps[i].status
          /\ apps[i].kind = "license" /\ i \notin crossed
      BY <1>7, <2>1
    <3>2. /\ (\E p \in Callers : Issues(p, i)') => \E p \in Callers : Issues(p, i)
          /\ (\E p \in Callers : Issues(p, i)) => \E p \in Callers : Issues(p, i)'
      BY <1>7, <2>1
    <3>5. i \in DOMAIN apps \ crossed
      BY <2>1, <3>1
    <3>6. IF apps[i].status = "approved" \/ \E p \in Callers : Issues(p, i)
          THEN \E l : IssuedFor(i) = {l}
          ELSE IssuedFor(i) = {}
      BY <3>1, <3>5 DEF CInv
    <3>3. CASE apps[i].status = "approved" \/ \E p \in Callers : Issues(p, i)
      BY <3>1, <3>2, <3>3, <3>6
    <3>4. CASE ~(apps[i].status = "approved" \/ \E p \in Callers : Issues(p, i))
      BY <3>1, <3>2, <3>4, <3>6
    <3> QED  BY <3>3, <3>4
  <2>2. CASE i \notin DOMAIN apps
    BY <1>1, <1>7, <2>2
  <2> QED  BY <2>1, <2>2
<1> QED  BY <1>3, <1>4, <1>5, <1>6, <1>7 DEF CInv

\* The same, when a caller goes on or returns and the tables stay.
LEMMA GoneOn ==
    ASSUME IInv, CInv, UNCHANGED <<apps, licenses>>, crossed \subseteq crossed',
           NEW p \in Callers,
           \/ Return(p) /\ (at[p] # "approve" \/ on[p] \in crossed')
           \/ /\ on' = on \/ at'[p] = "acquire"
              /\ \A q \in Callers : q # p => on'[q] = on[q]
              /\ \E step \in Steps \ {"approve"} :
                    /\ Goto(p, step) /\ at[p] # "approve"
                    /\ step \in {"check", "issue"} =>
                          \/ at[p] = "check"
                          \/ \A i \in DOMAIN apps : i = on[p] =>
                                Pending(i) /\ apps[i].kind = "license"
    PROVE  CInv'
<1>1. \A i : IssuedFor(i)' = IssuedFor(i)
  BY DEF IssuedFor
<1>2. \A q \in Callers, i \in DOMAIN apps :
         /\ Reviews(q, i)' => Reviews(q, i) \/ (Pending(i) /\ apps[i].kind = "license")
         /\ Issues(q, i)' => Issues(q, i)
         /\ Issues(q, i) => Issues(q, i)' \/ i \in crossed'
  <2> SUFFICES ASSUME NEW q \in Callers, NEW i \in DOMAIN apps
               PROVE  /\ Reviews(q, i)' => Reviews(q, i) \/ (Pending(i) /\ apps[i].kind = "license")
                      /\ Issues(q, i)' => Issues(q, i)
                      /\ Issues(q, i) => Issues(q, i)' \/ i \in crossed'
    OBVIOUS
  <2>0. 0 \notin DOMAIN apps
    BY DEF IInv, Typed
  <2>1. CASE q # p
    <3>1. at'[q] = at[q] /\ on'[q] = on[q]
      <4>1. CASE Return(p)
        BY <2>1, <4>1 DEF Return, Goto, IInv, Typed
      <4>2. ASSUME NEW step, Goto(p, step), \A r \in Callers : r # p => on'[r] = on[r]
            PROVE  at'[q] = at[q] /\ on'[q] = on[q]
        BY <2>1, <4>2 DEF Goto, IInv, Typed
      <4> QED  BY <4>1, <4>2
    <3> QED  BY <3>1 DEF Reviews, Issues
  <2>2. CASE q = p /\ Return(p) /\ (at[p] # "approve" \/ on[p] \in crossed')
    BY <2>0, <2>2 DEF Return, Goto, Reviews, Issues, IInv, Typed
  <2>3. CASE q = p /\ at'[p] = "acquire" /\ at[p] # "approve"
    BY <2>3 DEF Reviews, Issues
  <2>4. ASSUME q = p, on' = on, NEW step \in Steps \ {"approve"}, Goto(p, step),
               at[p] # "approve", step \in {"check", "issue"} =>
                          \/ at[p] = "check"
                          \/ \A j \in DOMAIN apps : j = on[p] =>
                                Pending(j) /\ apps[j].kind = "license"
        PROVE  /\ Reviews(q, i)' => Reviews(q, i) \/ (Pending(i) /\ apps[i].kind = "license")
               /\ Issues(q, i)' => Issues(q, i)
               /\ Issues(q, i) => Issues(q, i)' \/ i \in crossed'
    <3>1. at'[p] = step /\ on'[p] = on[p]
      BY <2>4 DEF Goto, IInv, Typed
    <3> QED  BY <2>4, <3>1 DEF Reviews, Issues
  <2> QED  BY <2>1, <2>2, <2>3, <2>4
<1> HIDE DEF Reviews, Issues, Pending
<1> QED  BY <1>1, <1>2, NothingIssued

\* An application that nobody is issuing for is filed, or another decided.
LEMMA FiledUnissued ==
    ASSUME IInv, LInv, CInv, NEW app \in Application, app.status = "pending", File(app),
           UNCHANGED <<licenses, crossed>>,
           \A q \in Callers, i \in DOMAIN apps :
              /\ Reviews(q, i)' => Reviews(q, i)
              /\ Issues(q, i)' => Issues(q, i)
              /\ Issues(q, i) => Issues(q, i)',
           \A q \in Callers : on'[q] \in {0, on[q]}
    PROVE  CInv'
<1> PICK n \in Nat : n = Len(apps) + 1
  BY DEF IInv, Typed
<1>1. /\ DOMAIN apps' = DOMAIN apps \cup {n} /\ n \notin DOMAIN apps /\ n # 0
      /\ apps'[n] = app /\ \A i \in DOMAIN apps : apps'[i] = apps[i]
  BY DEF File, IInv, Typed
<1>2. \A i : IssuedFor(i)' = IssuedFor(i)
  BY DEF IssuedFor
<1>3. IssuedFor(n) = {}
  BY <1>1 DEF IssuedFor, LInv
<1>4. \A q \in Callers : on'[q] # n
  BY <1>1 DEF IInv, Typed
<1> HIDE DEF Reviews, Issues, IssuedFor
<1>5. \A i \in DOMAIN apps' \ DOMAIN apps :
              /\ apps'[i].status = "pending" /\ IssuedFor(i)' = {}
              /\ \A q \in Callers : on'[q] # i
  BY <1>1, <1>2, <1>3, <1>4
<1> QED  BY <1>1, <1>2, <1>5, NothingIssued

\* Licences that no application asked for, or that end.
LEMMA OtherLicenses ==
    ASSUME CInv, UNCHANGED <<apps, crossed, at, on>>,
           \A i \in DOMAIN apps : IssuedFor(i)' = IssuedFor(i)
    PROVE  CInv'
<1>1. \A q \in Callers, i \in DOMAIN apps :
         /\ Reviews(q, i)' => Reviews(q, i)
         /\ Issues(q, i)' => Issues(q, i)
         /\ Issues(q, i) => Issues(q, i)'
  BY DEF Reviews, Issues
<1> HIDE DEF Reviews, Issues, IssuedFor
<1> QED  BY <1>1, NothingIssued

LEMMA CInvKept ==
    IInv /\ PInv /\ LInv /\ OneAtATime /\ CInv /\ [Next]_vars => CInv'
<1> SUFFICES ASSUME IInv, PInv, LInv, OneAtATime, CInv, [Next]_vars PROVE CInv'
  OBVIOUS
<1>0. DOMAIN apps \subseteq Nat \ {0}
  BY DEF IInv, Typed
<1>1. ASSUME UNCHANGED <<apps, licenses, crossed, at, on>> PROVE CInv'
  BY <1>1, OtherLicenses DEF IssuedFor
<1>2. CASE UNCHANGED vars
  BY <1>1, <1>2 DEF vars, tables, history, control
<1>3. ASSUME NEW p \in Callers, Acquire(p) PROVE CInv'
  BY <1>3, GoneOn DEF Acquire, tables, history, Steps
<1>4. ASSUME NEW p \in Callers, submit_license_application(p) PROVE CInv'
  <2>1. CASE CheckPending(p) \/ CheckValid(p)
    BY <2>1, GoneOn DEF CheckPending, CheckValid, tables, history, Steps
  <2>2. CASE Insert(p)
    <3>1. form[p] \in Application /\ form[p].status = "pending"
      BY <1>4 DEF submit_license_application, IInv, Typed, NoForm, PInv, FormsPend
    <3>2. \A q \in Callers, i \in DOMAIN apps :
             /\ Reviews(q, i)' => Reviews(q, i)
             /\ Issues(q, i)' => Issues(q, i)
             /\ Issues(q, i) => Issues(q, i)'
      BY <2>2, <1>0 DEF Insert, Return, Goto, Reviews, Issues, IInv, Typed
    <3>3. \A q \in Callers : on'[q] \in {0, on[q]}
      BY <2>2 DEF Insert, Return, IInv, Typed
    <3> QED  BY <2>2, <3>1, <3>2, <3>3, FiledUnissued DEF Insert
  <2> QED  BY <1>4, <2>1, <2>2 DEF submit_license_application
<1>5. ASSUME NEW p \in Callers, approve_welfare_application(p) PROVE CInv'
  <2>0. PICK i \in DOMAIN apps : i = on[p] /\ apps[i].kind = "welfare"
    BY <1>5 DEF approve_welfare_application, IInv, Typed
  <2>1. CASE Read(p) \/ Update(p) \/ Borrow(p)
    BY <2>0, <2>1, GoneOn DEF Read, Update, Borrow, tables, history, Steps
  <2>2. CASE Pay(p)
    BY <2>0, <2>2, GoneOn DEF Pay, Steps
  <2>3. CASE Commit(p)
    <3>1. Decide(i, "approved") /\ Return(p) /\ UNCHANGED <<licenses, crossed>> /\ at[p] = "commit"
      BY <2>0, <2>3 DEF Commit, history
    <3>2. /\ DOMAIN apps' = DOMAIN apps
          /\ \A j \in DOMAIN apps : apps'[j].kind = apps[j].kind
          /\ \A j \in DOMAIN apps : j # i => apps'[j] = apps[j]
      BY <3>1, Deciding DEF IInv, Statuses
    <3>3. \A q \in Callers, j \in DOMAIN apps :
             /\ Reviews(q, j)' => Reviews(q, j)
             /\ Issues(q, j)' => Issues(q, j)
             /\ Issues(q, j) => Issues(q, j)'
      BY <1>0, <3>1 DEF Return, Goto, Reviews, Issues, IInv, Typed
    <3>4. \A j \in DOMAIN apps : IssuedFor(j)' = IssuedFor(j)
      BY <3>1 DEF IssuedFor
    <3> HIDE DEF Reviews, Issues, IssuedFor
    <3>5. \A j \in DOMAIN apps :
              /\ apps'[j].kind = apps[j].kind
              /\ apps[j].kind = "license" => apps'[j].status = apps[j].status
              /\ IssuedFor(j)' = IssuedFor(j)
      BY <2>0, <3>2, <3>4
    <3>6. DOMAIN apps \subseteq DOMAIN apps' /\ crossed \subseteq crossed'
      BY <3>1, <3>2
    <3>7. \A j \in DOMAIN apps' \ DOMAIN apps :
             /\ apps'[j].status = "pending" /\ IssuedFor(j)' = {}
             /\ \A q \in Callers : on'[q] # j
      BY <3>2
    <3>8. \A q \in Callers, j \in DOMAIN apps :
             /\ Reviews(q, j)' => Reviews(q, j) \/ (Pending(j) /\ apps[j].kind = "license")
             /\ Issues(q, j)' => Issues(q, j)
             /\ Issues(q, j) => Issues(q, j)' \/ j \in crossed'
      BY <3>3
    <3> QED  BY <3>5, <3>6, <3>7, <3>8, NothingIssued
  <2> QED  BY <1>5, <2>1, <2>2, <2>3 DEF approve_welfare_application
<1>6. ASSUME NEW p \in Callers, approve_license_application(p) PROVE CInv'
  <2>0. PICK i \in DOMAIN apps : i = on[p] /\ apps[i].kind = "license"
    BY <1>6 DEF approve_license_application, IInv, Typed
  <2>1. CASE Read(p) \/ Check(p)
    BY <2>0, <2>1, GoneOn DEF Read, Check, tables, history, Steps
  <2>2. CASE Issue(p) /\ Return(p) /\ UNCHANGED licenses
    BY <2>2, GoneOn DEF Issue, history
  <2>3. CASE /\ Issue(p) /\ Goto(p, "approve") /\ UNCHANGED on
             /\ fn_issue_business_license(apps[i].by, apps[i].type, i)
    <3>0. /\ UNCHANGED <<apps, crossed, on>> /\ at[p] = "issue"
          /\ apps[i].by \in Members /\ apps[i].type \in Types
      BY <2>0, <2>3 DEF Issue, history, IInv, Typed, Application
    <3> PICK m \in Members, t \in Types : m = apps[i].by /\ t = apps[i].type
      BY <3>0
    <3>1. PICK n \in Nat :
             /\ DOMAIN licenses' = DOMAIN licenses \cup {n} /\ n \notin DOMAIN licenses
             /\ licenses'[n].for = i
             /\ \A l \in DOMAIN licenses : licenses'[l] = licenses[l]
      <4>1. fn_issue_business_license(m, t, i) /\ DOMAIN apps \subseteq Nat
        BY <1>0, <2>3
      <4>2. i \in DOMAIN apps \cup {0}
        OBVIOUS
      <4> QED  BY <4>1, <4>2, Issuing
    <3>2. /\ IssuedFor(i)' = IssuedFor(i) \cup {n}
          /\ \A j : j # i => IssuedFor(j)' = IssuedFor(j)
      BY <3>1 DEF IssuedFor
    <3>3. Reviews(p, i) /\ Reviews(p, i)' /\ Issues(p, i)' /\ ~Issues(p, i)
      BY <2>0, <2>3, <3>0 DEF Reviews, Issues, Goto, IInv, Typed
    <3>4. \A q \in Callers, j \in DOMAIN apps : q # p \/ j # i =>
             /\ Reviews(q, j)' => Reviews(q, j)
             /\ Issues(q, j)' => Issues(q, j)
             /\ Issues(q, j) => Issues(q, j)'
      BY <2>0, <2>3, <3>0 DEF Reviews, Issues, Goto, IInv, Typed
    <3>5. i \notin crossed => Pending(i) /\ \A q \in Callers : ~Issues(q, i)
      <4>1. i \notin crossed => \A q \in Callers : Issues(q, i) => q = p
        BY <2>0 DEF OneAtATime, Issues
      <4> QED  BY <3>3, <4>1 DEF CInv
    <3>6. i \notin crossed => IssuedFor(i) = {}
      BY <2>0, <3>5 DEF CInv, Pending
    <3>7. Pending(i)' = Pending(i) /\ \A j \in DOMAIN apps : Pending(j)' = Pending(j)
      BY <3>0 DEF Pending
    <3> HIDE DEF Reviews, Issues, IssuedFor, Pending
    <3>8. \A q \in Callers, j \in DOMAIN apps : Reviews(q, j)' => apps[j].kind = "license"
      BY <2>0, <3>4 DEF CInv
    <3>9. \A q \in Callers, j \in DOMAIN apps : Issues(q, j)' => IssuedFor(j)' # {}
      BY <3>2, <3>4 DEF CInv
    <3>10. \A j \in DOMAIN apps : apps[j].kind = "license" /\ apps[j].status = "approved"
              => IssuedFor(j)' # {}
      BY <3>2 DEF CInv
    <3>11. \A q \in Callers, j \in DOMAIN apps \ crossed : Reviews(q, j)' => Pending(j)'
      BY <3>3, <3>4, <3>7 DEF CInv
    <3>12. \A j \in DOMAIN apps \ crossed : apps[j].kind = "license" =>
              IF apps[j].status = "approved" \/ \E q \in Callers : Issues(q, j)'
              THEN \E l : IssuedFor(j)' = {l}
              ELSE IssuedFor(j)' = {}
      <4>1. ASSUME i \notin crossed PROVE IssuedFor(i)' = {n}
        BY <3>2, <3>6, <4>1
      <4>2. ASSUME NEW j \in DOMAIN apps \ crossed, apps[j].kind = "license", j # i
            PROVE  IF apps[j].status = "approved" \/ \E q \in Callers : Issues(q, j)'
                   THEN \E l : IssuedFor(j)' = {l}
                   ELSE IssuedFor(j)' = {}
        <5>1. (\E q \in Callers : Issues(q, j)') <=> \E q \in Callers : Issues(q, j)
          BY <3>4, <4>2
        <5>2. IssuedFor(j)' = IssuedFor(j)
          BY <3>2, <4>2
        <5> QED  BY <4>2, <5>1, <5>2 DEF CInv
      <4> QED  BY <3>3, <4>1, <4>2
    <3> QED  BY <3>0, <3>8, <3>9, <3>10, <3>11, <3>12 DEF CInv
  <2>4. CASE Approve(p) /\ ~Pending(i)
    <3>1. Reviews(p, i) /\ at[p] = "approve"
      BY <2>0, <2>4 DEF Approve, Reviews
    <3>2. i \in crossed
      BY <2>4, <3>1 DEF CInv
    <3> QED  BY <2>0, <2>4, <3>2, GoneOn DEF Approve, history
  <2>5. CASE Approve(p) /\ Pending(i)
    <3>1. /\ Decide(i, "approved") /\ Return(p) /\ UNCHANGED <<licenses, crossed>>
          /\ Issues(p, i)
      BY <2>0, <2>5 DEF Approve, Issues, history
    <3>2. /\ DOMAIN apps' = DOMAIN apps /\ apps'[i].status = "approved"
          /\ \A j \in DOMAIN apps : apps'[j].kind = apps[j].kind
          /\ \A j \in DOMAIN apps : j # i => apps'[j] = apps[j]
      BY <3>1, Deciding DEF IInv, Statuses
    <3>3. \A q \in Callers, j \in DOMAIN apps :
             /\ Reviews(q, j)' <=> Reviews(q, j) /\ q # p
             /\ Issues(q, j)' <=> Issues(q, j) /\ q # p
      BY <1>0, <2>0, <3>1 DEF Return, Goto, Reviews, Issues, IInv, Typed
    <3>4. \A j : IssuedFor(j)' = IssuedFor(j)
      BY <3>1 DEF IssuedFor
    <3>5. \A q \in Callers, j \in DOMAIN apps : q = p /\ j # i => ~Reviews(q, j) /\ ~Issues(q, j)
      BY <2>0 DEF Reviews, Issues
    <3>6. \A j \in DOMAIN apps : j # i => Pending(j)' = Pending(j)
      BY <3>2 DEF Pending
    <3>7. i \notin crossed => \A q \in Callers : Reviews(q, i) => q = p
      BY <2>0 DEF OneAtATime, Reviews
    <3> HIDE DEF Reviews, Issues, IssuedFor, Pending
    <3>8. \A q \in Callers, j \in DOMAIN apps : Reviews(q, j)' => apps'[j].kind = "license"
      BY <3>2, <3>3 DEF CInv
    <3>9. \A q \in Callers, j \in DOMAIN apps : Issues(q, j)' => IssuedFor(j)' # {}
      BY <3>3, <3>4 DEF CInv
    <3>10. IssuedFor(i) # {}
      BY <3>1 DEF CInv
    <3>11. \A j \in DOMAIN apps : apps'[j].kind = "license" /\ apps'[j].status = "approved"
              => IssuedFor(j)' # {}
      BY <3>2, <3>4, <3>10 DEF CInv
    <3>12. \A q \in Callers, j \in DOMAIN apps \ crossed : Reviews(q, j)' => Pending(j)'
      BY <3>3, <3>6, <3>7 DEF CInv
    <3>13. \A j \in DOMAIN apps \ crossed : apps'[j].kind = "license" =>
              IF apps'[j].status = "approved" \/ \E q \in Callers : Issues(q, j)'
              THEN \E l : IssuedFor(j)' = {l}
              ELSE IssuedFor(j)' = {}
      <4>1. ASSUME i \notin crossed PROVE \E l : IssuedFor(i)' = {l}
        BY <2>0, <3>1, <3>4, <4>1 DEF CInv
      <4>2. ASSUME NEW j \in DOMAIN apps \ crossed, apps'[j].kind = "license", j # i
            PROVE  IF apps'[j].status = "approved" \/ \E q \in Callers : Issues(q, j)'
                   THEN \E l : IssuedFor(j)' = {l}
                   ELSE IssuedFor(j)' = {}
        <5>1. (\E q \in Callers : Issues(q, j)') <=> \E q \in Callers : Issues(q, j)
          BY <3>3, <3>5, <4>2
        <5>2. IssuedFor(j)' = IssuedFor(j) /\ apps'[j] = apps[j]
          BY <3>2, <3>4, <4>2
        <5> QED  BY <4>2, <5>1, <5>2 DEF CInv
      <4> QED  BY <3>2, <4>1, <4>2
    <3> QED  BY <3>1, <3>2, <3>8, <3>9, <3>11, <3>12, <3>13 DEF CInv
  <2> QED
    BY <1>6, <2>0, <2>1, <2>2, <2>3, <2>4, <2>5 DEF approve_license_application, Issue
<1>7. ASSUME NEW p \in Callers, Fail(p) PROVE CInv'
  <2>1. /\ UNCHANGED <<apps, licenses>> /\ Return(p) /\ crossed \subseteq crossed'
    BY <1>7 DEF Fail, tables
  <2>2. CASE on[p] = 0
    <3>1. \A q \in Callers, i \in DOMAIN apps :
             /\ Reviews(q, i)' => Reviews(q, i)
             /\ Issues(q, i)' => Issues(q, i)
             /\ Issues(q, i) => Issues(q, i)'
      BY <1>0, <2>1, <2>2 DEF Return, Goto, Reviews, Issues, IInv, Typed
    <3>2. \A i \in DOMAIN apps : IssuedFor(i)' = IssuedFor(i)
      BY <2>1 DEF IssuedFor
    <3> HIDE DEF Reviews, Issues, IssuedFor
    <3> QED  BY <2>1, <3>1, <3>2, NothingIssued
  <2>3. CASE on[p] # 0
    <3>1. on[p] \in crossed'
      BY <1>7, <2>3 DEF Fail
    <3> QED  BY <2>1, <3>1, GoneOn
  <2> QED  BY <2>2, <2>3
<1>8. ASSUME NEW p \in Callers, NEW i \in DOMAIN apps, StartApprove(p, i) PROVE CInv'
  <2>1. /\ UNCHANGED <<apps, licenses>> /\ Goto(p, "acquire") /\ at[p] = "idle"
        /\ on' = [on EXCEPT ![p] = i] /\ crossed \subseteq crossed'
    BY <1>8 DEF StartApprove, Cross, tables, Idle
  <2>2. at'[p] = "acquire" /\ \A q \in Callers : q # p => on'[q] = on[q]
    BY <2>1 DEF Goto, IInv, Typed
  <2> QED  BY <2>1, <2>2, GoneOn DEF Steps
<1>9. ASSUME NEW i \in DOMAIN apps, reject_application(i) PROVE CInv'
  <2>1. /\ Decide(i, "rejected") /\ Pending(i) /\ UNCHANGED <<licenses, at, on>>
        /\ crossed \subseteq crossed'
        /\ i \notin crossed' => \A q \in Callers : on[q] # i
    BY <1>9 DEF reject_application, control
  <2>2. /\ DOMAIN apps' = DOMAIN apps /\ apps'[i].status = "rejected"
        /\ \A j \in DOMAIN apps : apps'[j].kind = apps[j].kind
        /\ \A j \in DOMAIN apps : j # i => apps'[j] = apps[j]
    BY <2>1, Deciding DEF IInv, Statuses
  <2>3. \A q \in Callers, j \in DOMAIN apps :
           /\ Reviews(q, j)' => Reviews(q, j)
           /\ Issues(q, j)' => Issues(q, j)
           /\ Issues(q, j) => Issues(q, j)'
    BY <2>1 DEF Reviews, Issues
  <2>4. \A j : IssuedFor(j)' = IssuedFor(j)
    BY <2>1 DEF IssuedFor
  <2>5. i \notin crossed' => \A q \in Callers : ~Reviews(q, i) /\ ~Issues(q, i)
    BY <2>1 DEF Reviews, Issues
  <2>6. \A j \in DOMAIN apps : j # i => Pending(j)' = Pending(j)
    BY <2>2 DEF Pending
  <2>7. apps[i].status = "pending"
    BY <2>1 DEF Pending
  <2> HIDE DEF Reviews, Issues, IssuedFor, Pending
  <2>8. /\ \A q \in Callers, j \in DOMAIN apps : Reviews(q, j)' => apps'[j].kind = "license"
        /\ \A q \in Callers, j \in DOMAIN apps : Issues(q, j)' => IssuedFor(j)' # {}
    BY <2>2, <2>3, <2>4 DEF CInv
  <2>9. \A j \in DOMAIN apps : apps'[j].kind = "license" /\ apps'[j].status = "approved"
           => IssuedFor(j)' # {}
    BY <2>2, <2>4 DEF CInv
  <2>10. \A q \in Callers, j \in DOMAIN apps \ crossed' : Reviews(q, j)' => Pending(j)'
    BY <2>1, <2>3, <2>5, <2>6 DEF CInv
  <2>11. \A j \in DOMAIN apps \ crossed' : apps'[j].kind = "license" =>
            IF apps'[j].status = "approved" \/ \E q \in Callers : Issues(q, j)'
            THEN \E l : IssuedFor(j)' = {l}
            ELSE IssuedFor(j)' = {}
    <3>1. ASSUME NEW j \in DOMAIN apps \ crossed', apps'[j].kind = "license"
          PROVE  /\ (\E q \in Callers : Issues(q, j)') <=> \E q \in Callers : Issues(q, j)
                 /\ IssuedFor(j)' = IssuedFor(j) /\ apps[j].kind = "license" /\ j \notin crossed
                 /\ apps'[j].status = "approved" <=> apps[j].status = "approved"
      BY <2>1, <2>2, <2>3, <2>4, <2>7, <3>1
    <3> QED  BY <3>1 DEF CInv
  <2> QED  BY <2>2, <2>8, <2>9, <2>10, <2>11 DEF CInv
<1>10. ASSUME NEW m \in Members, NEW n \in Amounts, submit_welfare_application(m, n) PROVE CInv'
  <2>1. Welfare(m, n) \in Application /\ Welfare(m, n).status = "pending"
    BY ApplicationsAssumption DEF Welfare, Application, Statuses
  <2>2. /\ UNCHANGED <<licenses, crossed, at, on>> /\ File(Welfare(m, n))
    BY <1>10 DEF submit_welfare_application, control
  <2>3. \A q \in Callers, i \in DOMAIN apps :
           /\ Reviews(q, i)' => Reviews(q, i)
           /\ Issues(q, i)' => Issues(q, i)
           /\ Issues(q, i) => Issues(q, i)'
    BY <2>2 DEF Reviews, Issues
  <2> QED  BY <2>1, <2>2, <2>3, FiledUnissued
<1>11. ASSUME NEW p \in Callers, NEW m \in Members, NEW t \in Types, StartSubmit(p, m, t)
       PROVE  CInv'
  BY <1>11, GoneOn DEF StartSubmit, Idle, tables, history, Steps
<1>12. ASSUME NEW m \in Members, NEW t \in Types, issue_business_license(m, t) PROVE CInv'
  <2>1. UNCHANGED <<apps, crossed, at, on>> /\ fn_issue_business_license(m, t, 0)
    BY <1>12 DEF issue_business_license, control, history
  <2>2. PICK n \in Nat :
           /\ DOMAIN licenses' = DOMAIN licenses \cup {n} /\ n \notin DOMAIN licenses
           /\ licenses'[n].for = 0
           /\ \A l \in DOMAIN licenses : licenses'[l] = licenses[l]
    BY <1>0, <2>1, Issuing
  <2>3. \A i \in DOMAIN apps : IssuedFor(i)' = IssuedFor(i)
    BY <1>0, <2>2 DEF IssuedFor
  <2> QED  BY <2>1, <2>3, OtherLicenses
<1>13. ASSUME SameHolders, UNCHANGED <<apps, crossed, at, on>> PROVE CInv'
  <2>1. \A i \in DOMAIN apps : IssuedFor(i)' = IssuedFor(i)
    BY <1>13 DEF SameHolders, IssuedFor
  <2> QED  BY <1>13, <2>1, OtherLicenses
<1>14. ASSUME NEW l \in DOMAIN licenses, fn_revoke_business_license(l) \/ TermEnds(l)
       PROVE  CInv'
  <2>1. UNCHANGED <<apps, crossed, at, on>>
    BY <1>14 DEF fn_revoke_business_license, TermEnds, control, history
  <2> QED  BY <1>13, <1>14, <2>1, Ending
<1>15. CASE fn_expire_business_licenses
  <2>1. UNCHANGED <<apps, crossed, at, on>>
    BY <1>15 DEF fn_expire_business_licenses, control, history
  <2> QED  BY <1>13, <1>15, <2>1, Ending
<1> QED
  BY <1>2, <1>3, <1>4, <1>5, <1>6, <1>7, <1>8, <1>9, <1>10, <1>11, <1>12, <1>14, <1>15
     DEF Next, Step

-----------------------------------------------------------------------------
(* All of it *)

AInv ==
    /\ IInv /\ PInv /\ LInv /\ OneAtATime /\ CInv /\ Free >= 0
    /\ \A m \in Members, t \in Types : Bounded(m, t)

LEMMA AInvAtFirst == Init => AInv
<1> SUFFICES ASSUME Init PROVE AInv
  OBVIOUS
<1>1. Connected = {} /\ Disbursing = {} /\ Connections \in Nat
  BY ApplicationsAssumption DEF Init, Connected, Disbursing
<1>2. Free >= 0
  BY <1>1, FS_EmptySet DEF Free
<1>3. ASSUME NEW m \in Members, NEW t \in Types PROVE Bounded(m, t)
  <2>1. Open(m, t) = {} /\ Late(m, t) = {}
    BY DEF Init, Open, Late
  <2>2. Cardinality(Callers) \in Nat
    BY Sizes
  <2> QED  BY <2>1, <2>2, FS_EmptySet DEF Bounded
<1> QED  BY <1>2, <1>3, IInvAtFirst, PInvAtFirst, LInvAtFirst, CInvAtFirst DEF AInv

LEMMA AInvKept == AInv /\ [Next]_vars => AInv'
<1> SUFFICES ASSUME AInv, [Next]_vars PROVE AInv'
  OBVIOUS
<1>1. \A m \in Members, t \in Types : Bounded(m, t)'
  BY BoundedKept DEF AInv
<1> QED
  BY <1>1, IInvKept, PInvKept, LInvKept, OneAtATimeKept, CInvKept, FreeKept DEF AInv

LEMMA AllHonoured == AInv => ApprovalsAreHonoured
<1> SUFFICES ASSUME AInv PROVE ApprovalsAreHonoured
  OBVIOUS
<1> USE DEF AInv
<1>1. TypeOK
  <2>0. \A i \in DOMAIN apps : apps[i] \in Application
    BY DEF IInv, Typed
  <2>1. \A i \in DOMAIN apps :
           /\ apps[i].by \in Members /\ apps[i].status \in Statuses
           /\ apps[i].kind = "welfare" => apps[i].amount \in Amounts
           /\ apps[i].kind = "license" => apps[i].type \in Types
    BY <2>0 DEF Application
  <2>2. \A l \in DOMAIN licenses : licenses[l].status \in {"active", "revoked", "expired"}
    <3>1. \A l \in DOMAIN licenses : licenses[l] \in Issued
      BY DEF LInv
    <3> QED  BY <3>1 DEF Issued
  <2>3. DOMAIN paid = DOMAIN apps /\ DOMAIN lost = DOMAIN apps
    BY DEF PInv, IInv, Typed
  <2> QED  BY <2>1, <2>2, <2>3 DEF TypeOK, IInv, Typed, LInv
<1>2. PaymentsMatchApprovals
  BY OneIsPaying
<1>3. LicensesMatchApprovals
  <2>1. ASSUME NEW i \in DOMAIN apps, apps[i].kind = "license", i \notin crossed
        PROVE  Cardinality(IssuedFor(i)) =
                  (IF apps[i].status = "approved" \/ Approving(i) # {} THEN 1 ELSE 0)
    <3>1. Approving(i) # {} <=> \E p \in Callers : Issues(p, i)
      BY DEF Approving, Issues
    <3>2. CASE apps[i].status = "approved" \/ Approving(i) # {}
      <4> PICK l : IssuedFor(i) = {l}
        BY <2>1, <3>1, <3>2 DEF CInv
      <4> QED  BY <3>2, FS_Singleton
    <3>3. CASE ~(apps[i].status = "approved" \/ Approving(i) # {})
      <4>1. IssuedFor(i) = {}
        BY <2>1, <3>1, <3>3 DEF CInv
      <4> QED  BY <3>3, <4>1, FS_EmptySet
    <3> QED  BY <3>2, <3>3
  <2> QED  BY <2>1 DEF CInv, LicensesMatchApprovals
<1>4. OneActiveLicense
  BY DEF LInv
<1>5. DuplicatesBounded
  <2>1. ASSUME NEW m \in Members, NEW t \in Types
        PROVE  Cardinality(Open(m, t)) <= Cardinality(Callers)
    <3>1. /\ Cardinality(Open(m, t)) \in Nat /\ Cardinality(Late(m, t)) \in Nat
          /\ Cardinality(Callers) \in Nat
      BY OpenIsFinite, LateIsFinite, Sizes DEF IInv
    <3> QED  BY <3>1 DEF Bounded
  <2> QED  BY <2>1 DEF DuplicatesBounded, Open
<1> QED  BY <1>1, <1>2, <1>3, <1>4, <1>5 DEF ApprovalsAreHonoured

\* Whoever submits, approves, rejects, issues and revokes at the same time, and
\* whatever is lost: payments and licences are those of the approvals, a member
\* has one active licence of a type, duplicates are bounded by the calls, and
\* the pool is not overdrawn (ApplicationService, fn_issue_business_license).
THEOREM Honoured == Spec => []ApprovalsAreHonoured
BY AInvAtFirst, AInvKept, AllHonoured, PTL DEF Spec

=============================================================================
